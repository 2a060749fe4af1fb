-------------------------- MODULE OtaStartProofs ---------------------------
(***************************************************************************)
(* When no more than one caller can come before there is a mutex, sessions  *)
(* exclude each other, for any number of callers and tasks.                 *)
(***************************************************************************)
EXTENDS OtaStart, TLAPS

OneEarly == \A s, u \in Early : s = u

LEMMA InitStart == Init => StartInv
BY StartAssumption DEF Init, StartInv, TypeOK, Places, Inside, Processes

LEMMA StepStart ==
  ASSUME OneEarly, StartInv, [Next]_vars
  PROVE  StartInv'
<1> USE StartAssumption DEF Processes
<1>1. ASSUME NEW s \in Starters, StartCall(s) PROVE StartInv'
  BY <1>1 DEF StartInv, TypeOK, Places, Inside, StartCall, Go
<1>2. ASSUME NEW s \in Starters, CreateMutex(s) PROVE StartInv'
  BY <1>2 DEF OneEarly, StartInv, TypeOK, Places, Inside, CreateMutex, Go
<1>3. ASSUME NEW s \in Starters, CheckTask(s) PROVE StartInv'
  BY <1>3 DEF StartInv, TypeOK, Places, Inside, CheckTask, Go
<1>4. ASSUME NEW s \in Starters, CreateQueue(s) PROVE StartInv'
  <2>1. /\ at[s] = "queue" /\ taskHandle = NoTask
        /\ UNCHANGED <<mutex, owner, semaphore, taskHandle>>
    BY <1>4 DEF StartInv, CreateQueue
  <2>2. ~eventQueue
    <3> SUFFICES ASSUME NEW u \in Starters, at[u] = "task" PROVE FALSE
      BY <2>1 DEF StartInv
    <3> QED
      BY <2>1 DEF StartInv, Inside
  <2>3. CASE Go(s, "unlock") /\ UNCHANGED eventQueue
    BY <2>1, <2>2, <2>3 DEF StartInv, TypeOK, Places, Inside, Go
  <2>4. CASE Go(s, "task") /\ eventQueue' = TRUE
    BY <2>1, <2>4 DEF StartInv, TypeOK, Places, Inside, Go
  <2> QED
    BY <1>4, <2>3, <2>4 DEF CreateQueue
<1>5. ASSUME NEW s \in Starters, CreateTask(s) PROVE StartInv'
  <2>1. /\ at[s] = "task" /\ taskHandle = NoTask /\ mutex # NoMutex /\ owner[mutex] = s
        /\ eventQueue
        /\ UNCHANGED <<mutex, owner, semaphore>>
    BY <1>5 DEF StartInv, CreateTask, Inside
  <2>2. \A u \in Starters : at[u] = "task" => u = s
    BY <2>1 DEF StartInv, Inside
  <2>3. ASSUME NEW t \in Tasks, at[t] = "out", taskHandle' = t,
               at' = [at EXCEPT ![s] = "unlock", ![t] = "run"], UNCHANGED eventQueue
        PROVE  StartInv'
    <3>1. t # s /\ t # NoTask
      OBVIOUS
    <3>2. /\ at'[s] = "unlock" /\ at'[t] = "run"
          /\ \A p \in Processes \ {s, t} : at'[p] = at[p]
          /\ at' \in [Processes -> Places]
      BY <2>3, <3>1 DEF StartInv, TypeOK, Places
    <3>3. TypeOK'
      BY <2>1, <2>3, <3>2 DEF StartInv, TypeOK
    <3> QED
      BY <2>1, <2>3, <3>1, <3>2, <3>3 DEF StartInv, Inside
  <2>4. CASE taskHandle' = NoTask /\ eventQueue' = FALSE /\ Go(s, "unlock")
    <3>1. /\ at'[s] = "unlock"
          /\ \A p \in Processes \ {s} : at'[p] = at[p]
          /\ at' \in [Processes -> Places]
      BY <2>4 DEF StartInv, TypeOK, Places, Go
    <3>2. TypeOK'
      BY <2>1, <2>4, <3>1 DEF StartInv, TypeOK
    <3> QED
      BY <2>1, <2>2, <2>4, <3>1, <3>2 DEF StartInv, Inside
  <2> QED
    BY <1>5, <2>3, <2>4 DEF CreateTask
<1>6. ASSUME NEW t \in Tasks, SessionOver(t) PROVE StartInv'
  BY <1>6 DEF StartInv, TypeOK, Places, Inside, SessionOver, Go
<1>7. ASSUME NEW t \in Tasks, ClearSession(t) PROVE StartInv'
  BY <1>7 DEF StartInv, TypeOK, Places, Inside, ClearSession, Go
<1>8. ASSUME NEW p \in Processes, Lock(p) PROVE StartInv'
  BY <1>8 DEF StartInv, TypeOK, Places, Inside, Lock, Go
<1>9. ASSUME NEW p \in Processes, Take(p) PROVE StartInv'
  BY <1>9 DEF StartInv, TypeOK, Places, Inside, Take, Go
<1>10. ASSUME NEW p \in Processes, Unlock(p) PROVE StartInv'
  BY <1>10 DEF StartInv, TypeOK, Places, Inside, Unlock, Go
<1>11. CASE UNCHANGED vars
  BY <1>11 DEF vars, StartInv, TypeOK, Inside
<1> QED
  BY <1>1, <1>2, <1>3, <1>4, <1>5, <1>6, <1>7, <1>8, <1>9, <1>10, <1>11
  DEF Next, StarterStep, LockStep

(* Who is inside holds the mutex, and the handles say what there is.        *)
THEOREM StartInvariant ==
  ASSUME OneEarly
  PROVE  Spec => []StartInv
<1>1. Init => StartInv
  BY InitStart
<1>2. StartInv /\ [Next]_vars => StartInv'
  BY StepStart
<1> QED
  BY <1>1, <1>2, PTL DEF Spec

(* At most one OTA task exists at any time.                                 *)
THEOREM SessionsExclude ==
  ASSUME OneEarly
  PROVE  Spec => []OneTask
<1>1. StartInv => OneTask
  BY StartAssumption DEF StartInv, TypeOK, OneTask, Alive, Inside, Processes
<1> QED
  BY <1>1, StartInvariant, PTL

(* A running task has its queue, and a start finds one only with a task.    *)
THEOREM QueueIsTheTasks ==
  ASSUME OneEarly
  PROVE  Spec => []QueueOfTask
<1>1. StartInv => QueueOfTask
  BY StartAssumption DEF StartInv, TypeOK, QueueOfTask, Inside, Processes
<1> QED
  BY <1>1, StartInvariant, PTL

(* What docs/ota.md says of a second start is true once there is a mutex.   *)
THEOREM SecondStart ==
  ASSUME OneEarly
  PROVE  Spec => SecondStartIsBusy
<1>1. StartInv /\ [Next]_vars =>
        [\A s \in Starters, t \in Tasks :
            CreateTask(s) /\ taskHandle' = t => \A u \in Tasks : ~Alive(u)]_vars
  BY StartAssumption DEF StartInv, TypeOK, CreateTask, Alive, Inside, Processes
<1> QED
  BY <1>1, StartInvariant, PTL DEF Spec, SecondStartIsBusy
=============================================================================
