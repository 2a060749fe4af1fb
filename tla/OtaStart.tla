------------------------------ MODULE OtaStart -----------------------------
(***************************************************************************)
(* How a session begins and ends, src/sonoff/ota/sonoff_ota.c: snfOtaStart  *)
(* and the end of otaTask at the grain of their accesses to ota_control.    *)
(* OtaCore takes both for single steps under the mutex; this module says    *)
(* when it may: the mutex itself is made by the first start, without any.   *)
(***************************************************************************)
CONSTANTS
  Starters,  (* tasks that call snfOtaStart                                 *)
  Early,     (* those that may call it before there is a mutex              *)
  Tasks,     (* OTA tasks, as many as there is memory for                   *)
  NoMutex, Nobody, NoTask

Processes == Starters \cup Tasks

ASSUME StartAssumption ==
  /\ Early \subseteq Starters
  /\ Starters \cap Tasks = {}
  /\ NoMutex \notin Starters /\ Nobody \notin Processes /\ NoTask \notin Tasks

VARIABLES
  mutex,       (* control->mutex; a mutex is named by the one who made it   *)
  owner,       (* who holds each mutex                                      *)
  semaphore,   (* the mutex a process waits for in xSemaphoreTake           *)
  taskHandle,  (* control->task_handle                                      *)
  eventQueue,  (* control->event_queue is there                             *)
  at           (* where each process is; "out" when in none of this code    *)

vars == <<mutex, owner, semaphore, taskHandle, eventQueue, at>>

Places == {"out", "create", "lock", "take", "check", "queue", "task", "run", "clear", "unlock"}

Init ==
  /\ mutex = NoMutex
  /\ owner = [m \in Starters |-> Nobody]
  /\ semaphore = [p \in Processes |-> NoMutex]
  /\ taskHandle = NoTask
  /\ eventQueue = FALSE
  /\ at = [p \in Processes |-> "out"]

Go(p, place) == at' = [at EXCEPT ![p] = place]

-----------------------------------------------------------------------------
(* snfOtaStart, past the checks of its argument.                            *)
StartCall(s) ==
  /\ at[s] = "out"
  /\ s \in Early \/ mutex # NoMutex
  /\ Go(s, IF mutex = NoMutex THEN "create" ELSE "lock")
  /\ UNCHANGED <<mutex, owner, semaphore, taskHandle, eventQueue>>

(* There may be no memory for it.                                           *)
CreateMutex(s) ==
  /\ at[s] = "create"
  /\ \/ mutex' = s /\ Go(s, "lock")
     \/ UNCHANGED mutex /\ Go(s, "out")
  /\ UNCHANGED <<owner, semaphore, taskHandle, eventQueue>>

(* Mutant: the end of the session is not noticed by the next start.         *)
CheckTaskNever(s) ==
  /\ at[s] = "check"
  /\ Go(s, "queue")
  /\ UNCHANGED <<mutex, owner, semaphore, taskHandle, eventQueue>>

(* A start is BUSY while there is a task.                                   *)
CheckTask(s) ==
  /\ at[s] = "check"
  /\ Go(s, IF taskHandle # NoTask THEN "unlock" ELSE "queue")
  /\ UNCHANGED <<mutex, owner, semaphore, taskHandle, eventQueue>>

(* The image does not fit, there is no memory, or the queue is there.       *)
CreateQueue(s) ==
  /\ at[s] = "queue"
  /\ \/ Go(s, "unlock") /\ UNCHANGED eventQueue
     \/ Go(s, "task") /\ eventQueue' = TRUE
  /\ UNCHANGED <<mutex, owner, semaphore, taskHandle>>

(* Mutant: the queue is deleted, the start gives up without the mutex.      *)
CreateTaskKeeping(s) ==
  /\ at[s] = "task"
  /\ \/ \E t \in Tasks :
          /\ at[t] = "out"
          /\ taskHandle' = t
          /\ at' = [at EXCEPT ![s] = "unlock", ![t] = "run"]
          /\ UNCHANGED eventQueue
     \/ /\ taskHandle' = NoTask
        /\ eventQueue' = FALSE
        /\ Go(s, "out")
  /\ UNCHANGED <<mutex, owner, semaphore>>

CreateTask(s) ==
  /\ at[s] = "task"
  /\ \/ \E t \in Tasks :
          /\ at[t] = "out"
          /\ taskHandle' = t
          /\ at' = [at EXCEPT ![s] = "unlock", ![t] = "run"]
          /\ UNCHANGED eventQueue
     \/ /\ taskHandle' = NoTask
        /\ eventQueue' = FALSE
        /\ Go(s, "unlock")
  /\ UNCHANGED <<mutex, owner, semaphore>>

-----------------------------------------------------------------------------
(* otaTask, once its loop has ended.                                        *)
SessionOver(t) ==
  /\ at[t] = "run"
  /\ Go(t, "lock")
  /\ UNCHANGED <<mutex, owner, semaphore, taskHandle, eventQueue>>

(* Mutant: the queue outlives the task's use of the mutex.                  *)
ClearSessionOnly(t) ==
  /\ at[t] = "clear"
  /\ taskHandle' = NoTask
  /\ Go(t, "unlock")
  /\ UNCHANGED <<mutex, owner, semaphore, eventQueue>>

ClearSession(t) ==
  /\ at[t] = "clear"
  /\ eventQueue' = FALSE
  /\ taskHandle' = NoTask
  /\ Go(t, "unlock")
  /\ UNCHANGED <<mutex, owner, semaphore>>

-----------------------------------------------------------------------------
(* otaLock looks the mutex up and then waits for it, without a limit.       *)
Lock(p) ==
  /\ at[p] = "lock"
  /\ semaphore' = [semaphore EXCEPT ![p] = mutex]
  /\ Go(p, "take")
  /\ UNCHANGED <<mutex, owner, taskHandle, eventQueue>>

(* Mutant: the result of xSemaphoreTake is ignored.                         *)
TakeAnyway(p) ==
  /\ at[p] = "take"
  /\ owner' = [owner EXCEPT ![semaphore[p]] = p]
  /\ Go(p, IF p \in Tasks THEN "clear" ELSE "check")
  /\ UNCHANGED <<mutex, semaphore, taskHandle, eventQueue>>

Take(p) ==
  /\ at[p] = "take"
  /\ owner[semaphore[p]] = Nobody
  /\ owner' = [owner EXCEPT ![semaphore[p]] = p]
  /\ Go(p, IF p \in Tasks THEN "clear" ELSE "check")
  /\ UNCHANGED <<mutex, semaphore, taskHandle, eventQueue>>

(* otaUnlock gives back the mutex that is looked up now, whoever holds it.  *)
Unlock(p) ==
  /\ at[p] = "unlock"
  /\ owner' = [owner EXCEPT ![mutex] = Nobody]
  /\ Go(p, "out")
  /\ UNCHANGED <<mutex, semaphore, taskHandle, eventQueue>>

StarterStep(s) == CreateMutex(s) \/ CheckTask(s) \/ CreateQueue(s) \/ CreateTask(s)
LockStep(p) == Lock(p) \/ Take(p) \/ Unlock(p)

Next ==
  \/ \E s \in Starters : StartCall(s) \/ StarterStep(s)
  \/ \E t \in Tasks : SessionOver(t) \/ ClearSession(t)
  \/ \E p \in Processes : LockStep(p)

(* A ready task runs on; callers and sessions may take their time.          *)
Fairness ==
  /\ \A s \in Starters : WF_vars(StarterStep(s))
  /\ \A t \in Tasks : WF_vars(ClearSession(t))
  /\ \A p \in Processes : WF_vars(LockStep(p))

Spec == Init /\ [][Next]_vars /\ Fairness

-----------------------------------------------------------------------------
(* Types of the control block and of every process's place.                 *)
TypeOK ==
  /\ mutex \in Starters \cup {NoMutex}
  /\ owner \in [Starters -> Processes \cup {Nobody}]
  /\ semaphore \in [Processes -> Starters \cup {NoMutex}]
  /\ taskHandle \in Tasks \cup {NoTask}
  /\ eventQueue \in BOOLEAN
  /\ at \in [Processes -> Places]

(* A task that is past its creation and not yet out of this code.           *)
Alive(t) == at[t] # "out"

(* One session: control block, parser, info and flash have one task.        *)
OneTask == \A t, u \in Tasks : Alive(t) /\ Alive(u) => t = u

(* The queue a task receives from is there while it runs, and no queue is   *)
(* left from a session whose task is gone, with its last events in it.      *)
QueueOfTask ==
  /\ \A t \in Tasks : at[t] = "run" => eventQueue
  /\ \A s \in Starters : at[s] = "check" => (eventQueue <=> taskHandle # NoTask)

(* On every path - success, BUSY, any error - the mutex is given back.      *)
MutexComesBack ==
  \A m \in Starters : mutex = m /\ owner[m] # Nobody ~> owner[m] = Nobody

(* The inductive invariant: who is inside, and what the handles say of it.  *)
Inside(p) == at[p] \in {"check", "queue", "task", "clear", "unlock"}

StartInv ==
  /\ TypeOK
  /\ \A s \in Starters : at[s] \notin {"run", "clear"}
  /\ \A t \in Tasks : at[t] \in {"out", "run", "lock", "take", "clear", "unlock"}
  /\ \A p \in Processes :
       /\ at[p] = "create" => p \in Early /\ mutex = NoMutex
       /\ at[p] \notin {"out", "create"} => mutex # NoMutex
       /\ at[p] = "take" => semaphore[p] = mutex
       /\ Inside(p) => owner[mutex] = p
  /\ \A t \in Tasks :
       /\ at[t] \in {"run", "lock", "take", "clear"} <=> taskHandle = t
       /\ at[t] = "unlock" => taskHandle = NoTask
  /\ \A s \in Starters : at[s] \in {"queue", "task"} => taskHandle = NoTask
  /\ eventQueue <=> taskHandle # NoTask \/ \E s \in Starters : at[s] = "task"

(* docs/ota.md, section 2: a start while there is an OTA task is BUSY.      *)
SecondStartIsBusy ==
  [][\A s \in Starters, t \in Tasks :
        CreateTask(s) /\ taskHandle' = t => \A u \in Tasks : ~Alive(u)]_vars
=============================================================================
