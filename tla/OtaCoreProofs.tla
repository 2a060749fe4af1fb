--------------------------- MODULE OtaCoreProofs ---------------------------
(***************************************************************************)
(* Proofs about OtaCore for every number of channels, queue length, sector  *)
(* size, partition size and image size.                                     *)
(***************************************************************************)
EXTENDS OtaCore, TLAPS

(* The steps of the specification, one by one. *)
AnyStart ==
  \E c \in Channels, format \in {"RAW", "PACKAGE"}, check \in {"NONE", "SHA256"},
     size \in ImageSizes : \E layout \in Layouts(format, size) :
       Start(c, format, check, size, layout)
AnyWrite ==
  \E c \in Channels, offset \in 0 .. total, len \in 1 .. total : Write(c, offset, len)

LEMMA StepCases ==
  ASSUME Next
  PROVE  \/ Callback \/ ReceiveTimeout \/ HandleTimeout \/ Receive
         \/ Parse \/ ParseFails \/ EraseSector \/ WriteFlash \/ FlashFails \/ DataDone
         \/ SetBootPartition \/ Exit \/ PowerCycle
         \/ AnyStart \/ AnyWrite \/ Apply \/ Abort
BY DEF Next, Worker, Data, Api, Reboot, AnyStart, AnyWrite

-----------------------------------------------------------------------------
(* Type correctness. *)

LEMMA NullEvents ==
  /\ NoEvent \in Event
  /\ Request("APPLY") \in Event
  /\ Request("ABORT") \in Event
BY DEF NoEvent, Request, Event

LEMMA NullConfig == ZeroConfig \in Config
BY DEF ZeroConfig, Config

LEMMA TypeInit == ASSUME Init PROVE TypeOK
<1>1. task \in TaskPlaces /\ state \in States
  BY DEF Init, TaskPlaces, States
<1>2. evq \in Seq(Event) /\ event \in Event /\ config \in Config
  BY NullEvents, NullConfig DEF Init
<1>3. flash \in [Offsets -> Cell]
  BY DEF Init, Cell
<1> QED BY <1>1, <1>2, <1>3 DEF Init, TypeOK

LEMMA TypeCleared ==
  ASSUME TypeOK, ClearedSession, UNCHANGED flash, bootFlag' \in BOOLEAN
  PROVE  TypeOK'
<1>1. task' \in TaskPlaces /\ state' \in States
  BY DEF ClearedSession, TaskPlaces, States
<1>2. evq' \in Seq(Event) /\ event' \in Event /\ config' \in Config
  BY NullEvents, NullConfig DEF ClearedSession
<1> QED BY <1>1, <1>2 DEF ClearedSession, TypeOK

LEMMA TypeStep == ASSUME TypeOK, [Next]_vars PROVE TypeOK'
<1> USE CoreAssumption
<1> USE DEF TypeOK, TaskPlaces, States, ActiveStates, FailedStates, Cell, sessionVars
<1>1. CASE Callback
  <2>1. task' \in TaskPlaces
    BY <1>1 DEF Callback
  <2>2. timeouts' \in Nat
    BY <1>1 DEF Callback
  <2> QED BY <1>1, <2>1, <2>2, NullEvents DEF Callback
<1>2. CASE ReceiveTimeout
  BY <1>2 DEF ReceiveTimeout
<1>18. CASE HandleTimeout
  BY <1>18 DEF HandleTimeout, Resume, Notify
<1>3. CASE Receive
  <2>1. event' \in Event /\ evq' \in Seq(Event)
    BY <1>3 DEF Receive
  <2>2. task' \in TaskPlaces /\ state' \in States /\ cursor' \in Nat /\ piece' \in Nat
    BY <1>3 DEF Receive, TakeData, TakeApply, TakeAbort, Notify
  <2> QED BY <1>3, <2>1, <2>2 DEF Receive
<1>4. CASE Parse
  <2>1. PICK n \in PieceLengths :
          IF InFile(Position) THEN piece' = n /\ UNCHANGED cursor
                              ELSE cursor' = cursor + n /\ UNCHANGED piece
    BY <1>4 DEF Parse
  <2>2. n \in Nat
    BY DEF PieceLengths, Event
  <2> QED BY <1>4, <2>1, <2>2 DEF Parse
<1>5. CASE ParseFails
  BY <1>5 DEF ParseFails, Notify
<1>6. CASE EraseSector
  BY <1>6 DEF EraseSector
<1>7. CASE WriteFlash
  BY <1>7 DEF WriteFlash
<1>8. CASE FlashFails
  BY <1>8 DEF FlashFails, Notify
<1>9. CASE DataDone
  <2>1. received' \in Nat
    BY <1>9 DEF DataDone, Event
  <2>2. task' \in TaskPlaces /\ state' \in States /\ cursor' \in Nat /\ piece' \in Nat
    BY <1>9 DEF DataDone, Verdicts, Notify
  <2> QED BY <1>9, <2>1, <2>2 DEF DataDone
<1>10. CASE SetBootPartition
  <2>1. bootFlag' \in BOOLEAN
    BY <1>10 DEF SetBootPartition
  <2>2. task' \in TaskPlaces /\ state' \in States /\ cursor' \in Nat /\ piece' \in Nat
    BY <1>10 DEF SetBootPartition, Notify
  <2> QED BY <1>10, <2>1, <2>2 DEF SetBootPartition
<1>11. CASE Exit
  <2>1. ClearedSession /\ UNCHANGED flash /\ bootFlag' \in BOOLEAN
    BY <1>11 DEF Exit
  <2> QED BY <2>1, TypeCleared, TypeOK
<1>12. CASE PowerCycle
  BY <1>12, TypeCleared DEF PowerCycle
<1>13. CASE AnyStart
  <2>1. PICK c \in Channels, format \in {"RAW", "PACKAGE"}, check \in {"NONE", "SHA256"},
             size \in ImageSizes : \E layout \in Layouts(format, size) :
               Start(c, format, check, size, layout)
    BY <1>13 DEF AnyStart
  <2>2. PICK layout \in Layouts(format, size) : Start(c, format, check, size, layout)
    BY <2>1
  <2>3. layout.skip \in Nat /\ layout.file \in Nat
    BY DEF Layouts
  <2> QED BY <2>2, <2>3 DEF Start, Config
<1>14. CASE AnyWrite
  <2>1. PICK c \in Channels, offset \in 0 .. total, len \in 1 .. total :
          Write(c, offset, len)
    BY <1>14 DEF AnyWrite
  <2>2. evq' \in Seq(Event) /\ queued' \in Nat
    BY <2>1 DEF Write, InRange, Send, Event
  <2> QED BY <2>1, <2>2 DEF Write
<1>15. CASE Apply
  BY <1>15, NullEvents DEF Apply, Send
<1>16. CASE Abort
  BY <1>16, NullEvents DEF Abort, Send
<1>17. CASE UNCHANGED vars
  BY <1>17 DEF vars
<1> QED
  BY StepCases, <1>1, <1>2, <1>3, <1>4, <1>5, <1>6, <1>7, <1>8, <1>9, <1>10,
     <1>11, <1>12, <1>13, <1>14, <1>15, <1>16, <1>17, <1>18

(* Every variable of the core keeps its type (SnfOtaControl and SnfOtaInfo  *)
(* of sonoff_ota.c), whatever the callers do.                               *)
THEOREM TypeCorrect == Spec => []TypeOK
<1>1. Init => TypeOK
  BY TypeInit
<1>2. TypeOK /\ [Next]_vars => TypeOK'
  BY TypeStep
<1> QED BY <1>1, <1>2, PTL DEF Spec

-----------------------------------------------------------------------------
(* The inductive invariant. *)

LEMMA InitInv == ASSUME Init PROVE CoreInv
BY CoreAssumption
   DEF Init, CoreInv, PlaceInv, CountInv, StreamInv, LayoutInv, FlashInv,
       FailedStates, Verified

(* A notification of failure leaves nothing to be true of the session. *)
LEMMA FailedKeeps ==
  ASSUME state' \in FailedStates, task' \in {"notify", "exit"},
         cursor' = 0, piece' = 0, ~bootFlag'
  PROVE  CoreInv'
BY DEF CoreInv, PlaceInv, CountInv, StreamInv, LayoutInv, FlashInv,
       FailedStates, Verified

LEMMA ClearedKeeps ==
  ASSUME ClearedSession, ~bootFlag'
  PROVE  CoreInv'
BY DEF ClearedSession, CoreInv, PlaceInv, CountInv, StreamInv, LayoutInv,
       FlashInv, FailedStates, Verified

LEMMA CallbackKeeps ==
  ASSUME TypeOK, CoreInv, Callback
  PROVE  CoreInv'
<1> USE DEF TypeOK, States, ActiveStates, FailedStates, Verified
<1>1. PlaceInv'
  BY DEF Callback, CoreInv, PlaceInv
<1>2. CountInv'
  BY DEF Callback, CoreInv, CountInv, DataAt
<1>3. StreamInv'
  BY DEF Callback, CoreInv, PlaceInv, StreamInv, FirstData, LastData, NextData,
         DataAt, EndOf, Consumed
<1>4. LayoutInv'
  BY DEF Callback, CoreInv, LayoutInv
<1>5. FlashInv'
  BY DEF Callback, CoreInv, PlaceInv, FlashInv, FileOffset, Position,
         ImageComplete, FreshUpTo
<1> QED BY <1>1, <1>2, <1>3, <1>4, <1>5 DEF CoreInv

(* Steps that leave the session, its place aside, as it is.                 *)
LEMMA WaitingKeeps ==
  ASSUME TypeOK, CoreInv, task \in {"receive", "timeout"},
         task' \in {"receive", "timeout"},
         UNCHANGED <<evq, event, cursor, piece, state, total, received, queued,
                     eraseNext, config, flash, bootFlag>>
  PROVE  CoreInv'
<1>1. PlaceInv'
  BY DEF CoreInv, PlaceInv
<1>2. CountInv'
  BY DEF CoreInv, CountInv, DataAt
<1>3. StreamInv'
  BY DEF CoreInv, StreamInv, FirstData, LastData, NextData, DataAt, EndOf, Consumed
<1>4. LayoutInv'
  BY DEF CoreInv, LayoutInv
<1>5. FlashInv'
  BY DEF CoreInv, FlashInv, FileOffset, Position, ImageComplete, FreshUpTo, InFile
<1> QED BY <1>1, <1>2, <1>3, <1>4, <1>5 DEF CoreInv

LEMMA TimeoutKeeps ==
  ASSUME TypeOK, CoreInv, ReceiveTimeout \/ HandleTimeout
  PROVE  CoreInv'
<1>1. CASE ReceiveTimeout
  BY <1>1, WaitingKeeps DEF ReceiveTimeout, sessionVars
<1>2. CASE HandleTimeout
  <2>1. task = "timeout" /\ ~bootFlag'
    BY <1>2 DEF HandleTimeout, CoreInv, PlaceInv, CountInv
  <2>2. CASE Notify("FAILED")
    BY <2>1, <2>2, FailedKeeps DEF Notify, FailedStates
  <2>3. CASE Resume
    BY <1>2, <2>1, <2>3, WaitingKeeps DEF HandleTimeout, Resume
  <2> QED BY <1>2, <2>2, <2>3 DEF HandleTimeout
<1> QED BY <1>1, <1>2

(* The queue once its head is gone. *)
LEMMA QueueTail ==
  ASSUME TypeOK, evq # << >>, evq' = Tail(evq)
  PROVE  /\ Len(evq) \in Nat /\ Len(evq) > 0
         /\ Len(evq') = Len(evq) - 1
         /\ \A i \in 1 .. Len(evq') : evq'[i] = evq[i + 1]
         /\ Head(evq) = evq[1] /\ evq[1] \in Event
         /\ \A i \in 1 .. Len(evq) : evq[i] \in Event
BY DEF TypeOK

LEMMA QueuedEvents ==
  ASSUME TypeOK
  PROVE  /\ Len(evq) \in Nat
         /\ \A i \in 1 .. Len(evq) : evq[i] \in Event
BY DEF TypeOK

LEMMA TakeDataKeeps ==
  ASSUME TypeOK, CoreInv, Receive, TakeData
  PROVE  CoreInv'
<1> USE DEF TypeOK, Event
<1>1. /\ event' = evq[1] /\ DataAt(1) /\ state = "RECEIVING" /\ task = "receive"
      /\ cursor = 0 /\ piece = 0
  BY QueueTail DEF Receive, TakeData, CoreInv, PlaceInv, CountInv, Verified, DataAt
<1>2. /\ evq[1].size > 0
      /\ evq[1].offset = received
      /\ EndOf(evq[1]) <= queued
      /\ evq[1].size \in Nat /\ evq[1].offset \in Nat
  BY <1>1, QueueTail DEF CoreInv, StreamInv, FirstData, Consumed, Receive
<1>3. Acceptable(event')
  BY <1>1, <1>2 DEF Acceptable, CoreInv, CountInv, EndOf
<1>4. task' = "data" /\ UNCHANGED <<state, cursor, piece>>
  BY <1>3 DEF TakeData
<1>5. PlaceInv'
  BY <1>1, <1>2, <1>4 DEF Receive, CoreInv, PlaceInv, EndOf
<1>6. CountInv'
  BY <1>1, <1>4, QueueTail DEF Receive, CoreInv, CountInv, DataAt, Verified
<1>7. StreamInv'
  <2> DEFINE n == Len(evq)
             m == Len(evq')
  <2>1. n \in Nat /\ n > 0 /\ m = n - 1 /\ \A i \in 1 .. m : evq'[i] = evq[i + 1]
    BY QueueTail DEF Receive
  <2>a. \A i \in 1 .. n : DataAt(i) =>
          evq[i].size > 0 /\ Consumed <= evq[i].offset /\ EndOf(evq[i]) <= queued
    BY <1>1 DEF CoreInv, StreamInv
  <2>b. \A i, j \in 1 .. n :
          i < j /\ DataAt(i) /\ DataAt(j) => EndOf(evq[i]) <= evq[j].offset
    BY <1>1 DEF CoreInv, StreamInv
  <2>c. \A i \in 1 .. n : LastData(i) => EndOf(evq[i]) = queued
    BY <1>1 DEF CoreInv, StreamInv
  <2>d. \A i, j \in 1 .. n : NextData(i, j) => evq[j].offset = EndOf(evq[i])
    BY <1>1 DEF CoreInv, StreamInv
  <2>2. Consumed' = EndOf(evq[1]) /\ queued' = queued
    BY <1>1, <1>4 DEF Consumed, EndOf, Receive
  <2>3. \A i \in 1 .. m : DataAt(i)' <=> DataAt(i + 1)
    BY <2>1 DEF DataAt
  <2>k. \A k \in 2 .. n : k - 1 \in 1 .. m /\ (DataAt(k) <=> DataAt(k - 1)')
    <3> SUFFICES ASSUME NEW k \in 2 .. n
                 PROVE  k - 1 \in 1 .. m /\ (DataAt(k) <=> DataAt(k - 1)')
      OBVIOUS
    <3>1. k - 1 \in 1 .. m /\ (k - 1) + 1 = k
      BY <2>1
    <3> QED BY <3>1, <2>1 DEF DataAt
  <2>4. \A i \in 1 .. m : DataAt(i)' =>
          evq'[i].size > 0 /\ Consumed' <= evq'[i].offset /\ EndOf(evq'[i]) <= queued'
    <3> SUFFICES ASSUME NEW i \in 1 .. m, DataAt(i)'
                 PROVE  /\ evq'[i].size > 0
                        /\ Consumed' <= evq'[i].offset
                        /\ EndOf(evq'[i]) <= queued'
      OBVIOUS
    <3>1. 1 \in 1 .. n /\ i + 1 \in 1 .. n /\ 1 < i + 1
      BY <2>1
    <3>2. DataAt(i + 1)
      BY <2>3
    <3>3. evq'[i] = evq[i + 1]
      BY <2>1
    <3> HIDE DEF n, m
    <3>4. evq[i + 1].size > 0 /\ EndOf(evq[i + 1]) <= queued
      BY <3>1, <3>2, <2>a
    <3>5. EndOf(evq[1]) <= evq[i + 1].offset
      BY <3>1, <3>2, <1>1, <2>b
    <3> QED BY <3>3, <3>4, <3>5, <2>2
  <2>5. \A i, j \in 1 .. m :
          i < j /\ DataAt(i)' /\ DataAt(j)' => EndOf(evq'[i]) <= evq'[j].offset
    <3> SUFFICES ASSUME NEW i \in 1 .. m, NEW j \in 1 .. m, i < j,
                        DataAt(i)', DataAt(j)'
                 PROVE  EndOf(evq'[i]) <= evq'[j].offset
      OBVIOUS
    <3>1. i + 1 \in 1 .. n /\ j + 1 \in 1 .. n /\ i + 1 < j + 1
      BY <2>1
    <3> QED BY <3>1, <2>1, <2>3, <2>b
  <2>6. \A i \in 1 .. m : FirstData(i)' => evq'[i].offset = Consumed'
    <3> SUFFICES ASSUME NEW i \in 1 .. m, FirstData(i)'
                 PROVE  evq'[i].offset = EndOf(evq[1])
      BY <2>2
    <3>1. DataAt(i)' /\ \A j \in 1 .. i - 1 : ~DataAt(j)'
      BY DEF FirstData, DataAt
    <3>a. i + 1 \in 1 .. n
      BY <2>1
    <3>b. DataAt(i + 1)
      BY <2>3, <3>1
    <3>2. i + 1 \in 1 .. n /\ DataAt(i + 1)
      BY <3>a, <3>b
    <3>3. \A k \in 2 .. i : ~DataAt(k)
      <4> SUFFICES ASSUME NEW k \in 2 .. i PROVE ~DataAt(k)
        OBVIOUS
      <4>1. k \in 2 .. n /\ k - 1 \in 1 .. i - 1
        BY <2>1
      <4> QED BY <4>1, <3>1, <2>k
    <3>4. NextData(1, i + 1)
      BY <1>1, <3>2, <3>3, <2>1 DEF NextData
    <3>5. evq'[i] = evq[i + 1]
      BY <2>1
    <3>6. 1 \in 1 .. n
      BY <2>1
    <3> HIDE DEF n, m
    <3> QED BY <3>2, <3>4, <3>5, <3>6, <2>d
  <2>7. \A i \in 1 .. m : LastData(i)' => EndOf(evq'[i]) = queued'
    <3> SUFFICES ASSUME NEW i \in 1 .. m, LastData(i)'
                 PROVE  EndOf(evq'[i]) = queued
      BY <2>2
    <3>1. DataAt(i)' /\ \A j \in i + 1 .. m : ~DataAt(j)'
      BY DEF LastData, DataAt
    <3>a. i + 1 \in 1 .. n
      BY <2>1
    <3>b. DataAt(i + 1)
      BY <2>3, <3>1
    <3>2. i + 1 \in 1 .. n /\ DataAt(i + 1)
      BY <3>a, <3>b
    <3>3. \A k \in i + 2 .. n : ~DataAt(k)
      <4> SUFFICES ASSUME NEW k \in i + 2 .. n PROVE ~DataAt(k)
        OBVIOUS
      <4>1. k \in 2 .. n /\ k - 1 \in i + 1 .. m
        BY <2>1
      <4> QED BY <4>1, <3>1, <2>k
    <3>4. LastData(i + 1)
      BY <3>2, <3>3 DEF LastData
    <3> QED BY <3>2, <3>4, <2>1, <2>c
  <2>8. \A i, j \in 1 .. m : NextData(i, j)' => evq'[j].offset = EndOf(evq'[i])
    <3> SUFFICES ASSUME NEW i \in 1 .. m, NEW j \in 1 .. m, NextData(i, j)'
                 PROVE  evq'[j].offset = EndOf(evq'[i])
      OBVIOUS
    <3>1. /\ i < j /\ DataAt(i)' /\ DataAt(j)'
          /\ \A k \in i + 1 .. j - 1 : ~DataAt(k)'
      BY DEF NextData, DataAt
    <3>a. i + 1 \in 1 .. n /\ j + 1 \in 1 .. n
      BY <2>1
    <3>b. DataAt(i + 1) /\ DataAt(j + 1)
      BY <2>3, <3>1
    <3>2. i + 1 \in 1 .. n /\ j + 1 \in 1 .. n /\ DataAt(i + 1) /\ DataAt(j + 1)
      BY <3>a, <3>b
    <3>3. \A k \in i + 2 .. j : ~DataAt(k)
      <4> SUFFICES ASSUME NEW k \in i + 2 .. j PROVE ~DataAt(k)
        OBVIOUS
      <4>1. k \in 2 .. n /\ k - 1 \in i + 1 .. j - 1
        BY <2>1
      <4> QED BY <4>1, <3>1, <2>k
    <3>4. NextData(i + 1, j + 1)
      BY <3>1, <3>2, <3>3 DEF NextData
    <3>5. evq'[i] = evq[i + 1]
      BY <2>1
    <3>6. evq'[j] = evq[j + 1]
      BY <2>1
    <3> HIDE DEF n, m
    <3> QED BY <3>2, <3>4, <3>5, <3>6, <2>d
  <2>9. (\A i \in 1 .. m : ~DataAt(i)') => Consumed' = queued'
    <3> SUFFICES ASSUME \A i \in 1 .. m : ~DataAt(i)'
                 PROVE  EndOf(evq[1]) = queued
      BY <2>2
    <3>1. \A k \in 2 .. n : ~DataAt(k)
      BY <2>k
    <3>2. LastData(1)
      BY <1>1, <3>1 DEF LastData
    <3> QED BY <3>2, <2>1, <2>c
  <2> QED
    BY <2>4, <2>5, <2>6, <2>7, <2>8, <2>9 DEF StreamInv
<1>8. LayoutInv'
  BY <1>1, <1>4 DEF Receive, CoreInv, LayoutInv
<1>9. FlashInv'
  BY <1>1, <1>4 DEF Receive, CoreInv, FlashInv, FileOffset, Position,
     ImageComplete, FreshUpTo, InFile
<1> QED BY <1>5, <1>6, <1>7, <1>8, <1>9 DEF CoreInv

LEMMA TakeApplyKeeps ==
  ASSUME TypeOK, CoreInv, Receive, TakeApply
  PROVE  CoreInv'
<1> USE DEF Verified
<1>1. evq[1].id = "APPLY" /\ 1 \in 1 .. Len(evq)
  BY QueueTail DEF Receive, TakeApply
<1>2. state = "VERIFY_SUCCESS"
  BY <1>1 DEF Receive, CoreInv, PlaceInv, CountInv
<1>3. PlaceInv'
  BY DEF Receive, TakeApply, Notify, PlaceInv, FailedStates
<1>4. CountInv'
  BY <1>2, QueueTail DEF Receive, TakeApply, Notify, CoreInv, CountInv, DataAt
<1>5. StreamInv' /\ LayoutInv' /\ FlashInv'
  BY <1>2 DEF Receive, TakeApply, Notify, CoreInv, StreamInv, LayoutInv, FlashInv,
     ImageComplete, FreshUpTo
<1> QED BY <1>3, <1>4, <1>5 DEF CoreInv

LEMMA TakeAbortKeeps ==
  ASSUME TypeOK, CoreInv, Receive, TakeAbort
  PROVE  CoreInv'
<1>1. ~bootFlag'
  BY DEF Receive, CoreInv, PlaceInv, CountInv
<1> QED BY <1>1, FailedKeeps DEF TakeAbort, Notify, FailedStates

(* Handling data leaves the queue alone and reports a failure in one way. *)
LEMMA DataFailsKeeps ==
  ASSUME CoreInv, task = "data", Notify("FAILED"), UNCHANGED bootFlag
  PROVE  CoreInv'
<1>1. ~bootFlag'
  BY DEF CoreInv, PlaceInv, CountInv
<1> QED BY <1>1, FailedKeeps DEF Notify, FailedStates

LEMMA StreamSame ==
  ASSUME StreamInv, state = "RECEIVING", UNCHANGED <<evq, queued>>,
         Consumed' = Consumed
  PROVE  StreamInv'
BY DEF StreamInv, FirstData, LastData, NextData, DataAt, EndOf

LEMMA ParseKeeps ==
  ASSUME TypeOK, CoreInv, Parse
  PROVE  CoreInv'
<1> USE DEF TypeOK, Event, Config, sessionVars
<1>1. PICK n \in PieceLengths :
        IF InFile(Position) THEN piece' = n /\ UNCHANGED cursor
                            ELSE cursor' = cursor + n /\ UNCHANGED piece
  BY DEF Parse
<1>2. /\ state = "RECEIVING" /\ task = "data" /\ piece = 0 /\ cursor < event.size
      /\ event.offset = received /\ EndOf(event) <= queued
      /\ config.format = "RAW" => cursor = 0
  BY DEF Parse, CoreInv, PlaceInv
<1>3. /\ config.file > 0 /\ config.skip + config.file <= total
      /\ config.format = "RAW" => config.skip = 0 /\ config.file = total
      /\ queued <= total
  BY <1>2 DEF CoreInv, LayoutInv, CountInv
<1>4. /\ n \in Nat /\ n > 0 /\ cursor + n <= event.size
      /\ config.format = "RAW" => n = event.size
      /\ config.format = "PACKAGE" => n <= ToBoundary(Position)
  BY <1>2 DEF PieceLengths
<1>5. CASE InFile(Position)
  <2>1. piece' = n /\ UNCHANGED cursor
    BY <1>1, <1>5
  <2>2. PlaceInv'
    BY <1>2, <1>4, <2>1 DEF Parse, CoreInv, PlaceInv, EndOf
  <2>3. Position + n <= config.skip + config.file
    BY <1>2, <1>3, <1>4, <1>5 DEF ToBoundary, InFile, Position, EndOf
  <2>4. FlashInv'
    BY <1>2, <1>4, <1>5, <2>1, <2>3
    DEF Parse, CoreInv, FlashInv, Position, FileOffset, InFile, ImageComplete,
        FreshUpTo
  <2>5. CountInv' /\ StreamInv' /\ LayoutInv'
    BY <1>2, StreamSame DEF Parse, CoreInv, CountInv, LayoutInv, DataAt, Consumed, EndOf
  <2> QED BY <2>2, <2>4, <2>5 DEF CoreInv
<1>6. CASE ~InFile(Position)
  <2>1. cursor' = cursor + n /\ UNCHANGED piece
    BY <1>1, <1>6
  <2>2. PlaceInv'
    BY <1>2, <1>4, <2>1 DEF Parse, CoreInv, PlaceInv, EndOf
  <2>3. config.format = "PACKAGE"
    BY <1>2, <1>3, <1>6 DEF InFile, Position, EndOf
  <2>4. FileOffset(Position)' = FileOffset(Position)
    BY <1>2, <1>3, <1>4, <1>6, <2>1, <2>3
    DEF Parse, FileOffset, Position, InFile, ToBoundary
  <2>5. FlashInv'
    BY <1>2, <2>1, <2>4 DEF Parse, CoreInv, FlashInv, ImageComplete, FreshUpTo
  <2>6. CountInv' /\ StreamInv' /\ LayoutInv'
    BY <1>2, StreamSame DEF Parse, CoreInv, CountInv, LayoutInv, DataAt, Consumed, EndOf
  <2> QED BY <2>2, <2>5, <2>6 DEF CoreInv
<1> QED BY <1>5, <1>6

LEMMA EraseKeeps ==
  ASSUME TypeOK, CoreInv, EraseSector
  PROVE  CoreInv'
<1> USE CoreAssumption DEF TypeOK, Event, Config
<1>1. state = "RECEIVING" /\ task = "data"
  BY DEF EraseSector, CoreInv, PlaceInv
<1>2. PlaceInv' /\ CountInv' /\ LayoutInv'
  BY DEF EraseSector, CoreInv, PlaceInv, CountInv, LayoutInv, DataAt, EndOf
<1>3. StreamInv'
  BY <1>1, StreamSame DEF EraseSector, CoreInv, Consumed, EndOf
<1>4. FileOffset(Position)' = FileOffset(Position) /\ FileOffset(Position) \in Nat
  BY DEF EraseSector, FileOffset, Position
<1>5. FlashInv'
  BY <1>1, <1>4 DEF EraseSector, CoreInv, FlashInv, Position, InFile, Offsets, Verified
<1> QED BY <1>2, <1>3, <1>5 DEF CoreInv

LEMMA WriteFlashKeeps ==
  ASSUME TypeOK, CoreInv, WriteFlash
  PROVE  CoreInv'
<1> USE CoreAssumption DEF TypeOK, Event, Config, sessionVars
<1>1. state = "RECEIVING" /\ task = "data" /\ piece > 0
  BY DEF WriteFlash, CoreInv, PlaceInv
<1>2. /\ InFile(Position) /\ cursor + piece <= event.size
      /\ Position + piece <= config.skip + config.file
  BY <1>1 DEF CoreInv, FlashInv
<1>3. PlaceInv'
  BY <1>1, <1>2 DEF WriteFlash, CoreInv, PlaceInv, EndOf
<1>4. CountInv' /\ LayoutInv'
  BY DEF WriteFlash, CoreInv, CountInv, LayoutInv, DataAt
<1>5. StreamInv'
  BY <1>1, StreamSame DEF WriteFlash, CoreInv, Consumed, EndOf
<1>6. PieceStart = Position - config.skip /\ PieceStart \in Nat
  BY <1>2 DEF PieceStart, FileOffset, InFile, Position
<1>7. FileOffset(Position)' = WriteEnd
  BY <1>2, <1>6 DEF WriteFlash, WriteEnd, FileOffset, InFile, Position
<1>8. FlashInv'
  <2>1. WriteEnd <= eraseNext /\ WriteEnd = PieceStart + piece
    BY DEF WriteFlash, WriteEnd
  <2>2. \A i \in Offsets :
          flash[i] = IF i < PieceStart THEN "fresh"
                     ELSE IF i < eraseNext THEN "erased" ELSE "stale"
    BY <1>1 DEF CoreInv, FlashInv, PieceStart
  <2>3. \A i \in Offsets :
          flash'[i] = IF i < WriteEnd THEN "fresh"
                      ELSE IF i < eraseNext THEN "erased" ELSE "stale"
    BY <2>1, <2>2, <1>1, <1>6 DEF WriteFlash, Offsets
  <2> QED
    BY <2>1, <2>3, <1>1, <1>7 DEF WriteFlash, CoreInv, FlashInv, Verified
<1> QED BY <1>3, <1>4, <1>5, <1>8 DEF CoreInv

LEMMA DataDoneKeeps ==
  ASSUME TypeOK, CoreInv, DataDone
  PROVE  CoreInv'
<1> USE CoreAssumption DEF TypeOK, Event, Config
<1>1. /\ state = "RECEIVING" /\ task = "data" /\ piece = 0 /\ ~bootFlag
      /\ received' = EndOf(event) /\ received < received'
      /\ received' <= queued /\ queued <= total /\ received' \in Nat
  BY DEF DataDone, CoreInv, PlaceInv, CountInv, EndOf
<1>2. Position = received' /\ Position' = received'
  BY <1>1 DEF DataDone, Position, Notify, Verdicts
<1>3. CASE received' < total
  <2>1. Notify("RECEIVING")
    BY <1>3 DEF DataDone
  <2>2. PlaceInv' /\ CountInv' /\ LayoutInv'
    BY <1>1, <1>3, <2>1
    DEF DataDone, Notify, CoreInv, PlaceInv, CountInv, LayoutInv, DataAt,
        FailedStates, Verified
  <2>3. StreamInv'
    BY <1>1, <2>1, StreamSame DEF DataDone, Notify, CoreInv, Consumed
  <2>4. FlashInv'
    BY <1>1, <1>2, <2>1 DEF DataDone, Notify, CoreInv, FlashInv, FileOffset, Verified
  <2> QED BY <2>2, <2>3, <2>4 DEF CoreInv
<1>4. CASE ~(received' < total)
  <2>1. received' = total
    BY <1>1, <1>4
  <2>2. PICK v \in Verdicts : Notify(v)
    BY <1>4 DEF DataDone
  <2>3. v \in {"VERIFY_SUCCESS", "VERIFY_FAILED"}
    BY DEF Verdicts
  <2>4. CASE v = "VERIFY_FAILED"
    BY <1>1, <2>2, <2>4, FailedKeeps DEF DataDone, Notify, FailedStates
  <2>5. CASE v = "VERIFY_SUCCESS"
    <3>1. \A i \in 1 .. Len(evq) : ~DataAt(i)
      <4> SUFFICES ASSUME NEW i \in 1 .. Len(evq), DataAt(i) PROVE FALSE
        OBVIOUS
      <4>1. evq[i] \in Event
        BY QueuedEvents
      <4>2. evq[i].size > 0 /\ Consumed <= evq[i].offset /\ EndOf(evq[i]) <= queued
        BY <1>1 DEF CoreInv, StreamInv
      <4> QED BY <4>1, <4>2, <1>1, <2>1 DEF Consumed, EndOf
    <3>2. \A i \in 1 .. Len(evq) : evq[i].id # "APPLY"
      BY <1>1 DEF CoreInv, CountInv
    <3>3. ImageComplete'
      <4>1. /\ config.file > 0 /\ config.file <= FlashSize
            /\ config.skip + config.file <= total
        BY <1>1 DEF CoreInv, LayoutInv
      <4>2. FileOffset(Position) = config.file
        BY <1>2, <2>1, <4>1 DEF FileOffset
      <4>3. \A i \in 0 .. config.file - 1 : flash[i] = "fresh"
        BY <1>1, <4>1, <4>2 DEF CoreInv, FlashInv, Offsets
      <4> QED BY <4>3 DEF DataDone, ImageComplete, FreshUpTo
    <3>4. PlaceInv' /\ LayoutInv'
      BY <1>1, <2>2, <2>5
      DEF DataDone, Notify, CoreInv, PlaceInv, LayoutInv, FailedStates, Verified
    <3>5. CountInv'
      BY <1>1, <2>1, <2>2, <2>5, <3>1, <3>2
      DEF DataDone, Notify, CoreInv, CountInv, DataAt, Verified
    <3>6. StreamInv' /\ FlashInv'
      BY <2>2, <2>5, <3>3 DEF Notify, StreamInv, FlashInv
    <3> QED BY <3>4, <3>5, <3>6 DEF CoreInv
  <2> QED BY <2>3, <2>4, <2>5
<1> QED BY <1>3, <1>4

LEMMA SetBootPartitionKeeps ==
  ASSUME TypeOK, CoreInv, SetBootPartition
  PROVE  CoreInv'
<1> USE DEF Verified
<1>1. state = "APPLY" /\ ~bootFlag
  BY DEF SetBootPartition, CoreInv, PlaceInv, CountInv
<1>2. CASE Notify("SUCCESS")
  BY <1>1, <1>2
  DEF SetBootPartition, Notify, CoreInv, PlaceInv, CountInv, StreamInv, LayoutInv,
      FlashInv, ImageComplete, FreshUpTo, DataAt, FailedStates
<1>3. CASE UNCHANGED bootFlag /\ Notify("FAILED")
  BY <1>1, <1>3, FailedKeeps DEF Notify, FailedStates
<1> QED BY <1>2, <1>3 DEF SetBootPartition

LEMMA StartKeeps ==
  ASSUME TypeOK, CoreInv, AnyStart
  PROVE  CoreInv'
<1> USE CoreAssumption DEF TypeOK, Verified
<1>1. PICK c \in Channels, format \in {"RAW", "PACKAGE"}, check \in {"NONE", "SHA256"},
           size \in ImageSizes : \E layout \in Layouts(format, size) :
             Start(c, format, check, size, layout)
  BY DEF AnyStart
<1>2. PICK layout \in Layouts(format, size) : Start(c, format, check, size, layout)
  BY <1>1
<1>3. /\ layout.skip \in Nat /\ layout.file \in Nat /\ layout.file > 0
      /\ layout.skip + layout.file <= size
      /\ format = "RAW" => layout.skip = 0 /\ layout.file = size
  <2>1. size \in Nat /\ size > 0
    OBVIOUS
  <2>2. CASE format = "RAW"
    BY <2>1, <2>2 DEF Layouts
  <2>3. CASE format = "PACKAGE"
    BY <2>1, <2>3 DEF Layouts
  <2> QED BY <2>2, <2>3
<1>4. evq = << >> /\ ~bootFlag /\ cursor = 0 /\ piece = 0
  BY <1>2 DEF Start, CoreInv, PlaceInv, CountInv
<1>5. PlaceInv' /\ CountInv' /\ LayoutInv'
  BY <1>2, <1>3, <1>4 DEF Start, PlaceInv, CountInv, LayoutInv, FailedStates
<1>6. StreamInv'
  BY <1>2, <1>4 DEF Start, StreamInv, Consumed
<1>7. FileOffset(Position)' = 0
  BY <1>2, <1>3, <1>4 DEF Start, FileOffset, Position
<1>8. FlashInv'
  <2>1. /\ state' = "RECEIVING" /\ eraseNext' = 0 /\ piece' = 0
        /\ flash' = [i \in Offsets |-> "stale"]
    BY <1>2, <1>4 DEF Start
  <2> QED BY <2>1, <1>7 DEF FlashInv, Offsets
<1> QED BY <1>5, <1>6, <1>8 DEF CoreInv

(* The queue with one more event at its end. *)
LEMMA QueueAppend ==
  ASSUME TypeOK, NEW e, e \in Event, Send(e)
  PROVE  /\ Len(evq') = Len(evq) + 1
         /\ \A i \in 1 .. Len(evq) : evq'[i] = evq[i]
         /\ evq'[Len(evq) + 1] = e
BY DEF TypeOK, Send

(* A request that carries no data leaves the stream in the queue as it is. *)
LEMMA StreamRequest ==
  ASSUME TypeOK, StreamInv, state = "RECEIVING", NEW e, e \in Event, e.id # "DATA",
         Send(e), UNCHANGED queued, Consumed' = Consumed
  PROVE  StreamInv'
<1> DEFINE n == Len(evq)
<1>1. n \in Nat /\ Len(evq') = n + 1
  BY QueuedEvents, QueueAppend
<1>2. \A i \in 1 .. n : evq'[i] = evq[i] /\ (DataAt(i)' <=> DataAt(i))
  BY QueueAppend DEF DataAt
<1>3. \A i \in 1 .. n + 1 : DataAt(i)' => i \in 1 .. n
  BY <1>1, QueueAppend DEF DataAt
<1> HIDE DEF n
<1>4. \A i \in 1 .. n :
        /\ FirstData(i)' => FirstData(i)
        /\ LastData(i)' => LastData(i)
        /\ \A j \in 1 .. n : NextData(i, j)' => NextData(i, j)
  <2> SUFFICES ASSUME NEW i \in 1 .. n
               PROVE  /\ FirstData(i)' => FirstData(i)
                      /\ LastData(i)' => LastData(i)
                      /\ \A j \in 1 .. n : NextData(i, j)' => NextData(i, j)
    OBVIOUS
  <2>1. FirstData(i)' => FirstData(i)
    BY <1>1, <1>2 DEF FirstData
  <2>2. LastData(i)' => LastData(i)
    BY <1>1, <1>2 DEF LastData, n
  <2>3. \A j \in 1 .. n : NextData(i, j)' => NextData(i, j)
    BY <1>1, <1>2 DEF NextData
  <2> QED BY <2>1, <2>2, <2>3
<1>5. (\A i \in 1 .. n + 1 : ~DataAt(i)') => \A i \in 1 .. n : ~DataAt(i)
  BY <1>1, <1>2
<1>6. \A i, j \in 1 .. n + 1 : NextData(i, j)' => DataAt(i)' /\ DataAt(j)'
  BY DEF NextData
<1>7. \A i \in 1 .. n + 1 : (FirstData(i)' => DataAt(i)') /\ (LastData(i)' => DataAt(i)')
  BY DEF FirstData, LastData
<1> QED
  BY <1>1, <1>2, <1>3, <1>4, <1>5, <1>6, <1>7 DEF StreamInv, EndOf, n

LEMMA RequestKeeps ==
  ASSUME TypeOK, CoreInv, Apply \/ Abort
  PROVE  CoreInv'
<1> DEFINE n == Len(evq)
<1>1. PICK id \in {"APPLY", "ABORT"} :
        Send(Request(id)) /\ (id = "APPLY" => state = "VERIFY_SUCCESS")
  BY DEF Apply, Abort
<1>2. Request(id) \in Event /\ Request(id).id = id
  BY NullEvents DEF Request, NoEvent
<1>3. UNCHANGED <<task, event, cursor, piece, sessionVars, flash, bootFlag>> /\ task # "none"
  BY DEF Apply, Abort
<1>4. n \in Nat /\ Len(evq') = n + 1 /\ evq'[n + 1].id = id
      /\ \A i \in 1 .. n : evq'[i] = evq[i]
  BY <1>1, <1>2, QueuedEvents, QueueAppend
<1>5. PlaceInv'
  BY <1>3 DEF CoreInv, PlaceInv, sessionVars
<1>6. CountInv'
  BY <1>1, <1>3, <1>4 DEF CoreInv, CountInv, DataAt, Verified, sessionVars
<1>7. StreamInv'
  BY <1>1, <1>2, <1>3, StreamRequest
  DEF CoreInv, StreamInv, Consumed, sessionVars
<1>8. LayoutInv' /\ FlashInv'
  BY <1>3 DEF CoreInv, LayoutInv, FlashInv, sessionVars, Position, FileOffset,
     InFile, ImageComplete, FreshUpTo
<1> QED BY <1>5, <1>6, <1>7, <1>8 DEF CoreInv

LEMMA WriteKeeps ==
  ASSUME TypeOK, CoreInv, AnyWrite
  PROVE  CoreInv'
<1> USE DEF TypeOK
<1> DEFINE n == Len(evq)
<1>1. PICK c \in Channels, offset \in 0 .. total, len \in 1 .. total :
        Write(c, offset, len)
  BY DEF AnyWrite
<1> DEFINE e == [id |-> "DATA", offset |-> queued, size |-> len, owner |-> c]
<1>2. /\ Send(e) /\ e \in Event /\ queued' = queued + len
      /\ state = "RECEIVING" /\ task # "none" /\ len > 0 /\ len <= total - queued
      /\ UNCHANGED <<task, event, cursor, piece, state, total, received, eraseNext,
                     timeouts, config, flash, bootFlag>>
  BY <1>1 DEF Write, InRange, Event
<1>0. PICK k \in Nat : k = n + 1
  BY QueuedEvents
<1>3. n \in Nat /\ k = n + 1 /\ Len(evq') = k
  BY <1>0, <1>2, QueuedEvents, QueueAppend
<1>4. evq'[k] = e
  BY <1>0, <1>2, QueueAppend
<1>5. \A i \in 1 .. n : evq'[i] = evq[i] /\ (DataAt(i)' <=> DataAt(i)) /\ evq[i] \in Event
  BY <1>2, QueuedEvents, QueueAppend DEF DataAt
<1>6. DataAt(k)'
  BY <1>4 DEF DataAt
<1>7. Consumed' = Consumed /\ Consumed \in Nat /\ Consumed <= queued
  BY <1>2 DEF Consumed, EndOf, CoreInv, PlaceInv, CountInv, Event
<1>8. PlaceInv'
  BY <1>2 DEF CoreInv, PlaceInv, EndOf, Event
<1>9. CountInv'
  <2>1. \A i \in 1 .. k : evq'[i].id # "APPLY"
    <3>1. \A i \in 1 .. n : evq[i].id # "APPLY"
      BY <1>2 DEF CoreInv, CountInv
    <3> QED BY <3>1, <1>3, <1>4, <1>5
  <2> QED BY <2>1, <1>2, <1>3 DEF CoreInv, CountInv, Verified
<1>10. LayoutInv' /\ FlashInv'
  BY <1>2 DEF CoreInv, LayoutInv, FlashInv, Position, FileOffset,
     InFile, ImageComplete, FreshUpTo
<1>a. \A i \in 1 .. n : DataAt(i) =>
        evq[i].size > 0 /\ Consumed <= evq[i].offset /\ EndOf(evq[i]) <= queued
  BY <1>2 DEF CoreInv, StreamInv
<1>b. \A i, j \in 1 .. n :
        i < j /\ DataAt(i) /\ DataAt(j) => EndOf(evq[i]) <= evq[j].offset
  BY <1>2 DEF CoreInv, StreamInv
<1>c. \A i \in 1 .. n : LastData(i) => EndOf(evq[i]) = queued
  BY <1>2 DEF CoreInv, StreamInv
<1>d. \A i, j \in 1 .. n : NextData(i, j) => evq[j].offset = EndOf(evq[i])
  BY <1>2 DEF CoreInv, StreamInv
<1>e. \A i \in 1 .. n : FirstData(i) => evq[i].offset = Consumed
  BY <1>2 DEF CoreInv, StreamInv
<1>f. (\A i \in 1 .. n : ~DataAt(i)) => Consumed = queued
  BY <1>2 DEF CoreInv, StreamInv
<1>g. /\ e.offset = queued /\ e.size = len /\ EndOf(e) = queued'
      /\ queued < queued' /\ queued \in Nat /\ queued' \in Nat
  BY <1>2 DEF EndOf
<1>h. \A i \in 1 .. n : EndOf(evq[i]) \in Nat
  BY <1>5 DEF EndOf, Event
<1> HIDE DEF n, e, TypeOK
<1>11. \A i \in 1 .. k : DataAt(i)' =>
         /\ evq'[i].size > 0
         /\ Consumed' <= evq'[i].offset
         /\ EndOf(evq'[i]) <= queued'
  <2>1. \A i \in 1 .. n : DataAt(i)' =>
          evq'[i].size > 0 /\ Consumed' <= evq'[i].offset /\ EndOf(evq'[i]) <= queued'
    BY <1>5, <1>7, <1>a, <1>g, <1>h
  <2>2. evq'[k].size > 0 /\ Consumed' <= evq'[k].offset
        /\ EndOf(evq'[k]) <= queued'
    BY <1>2, <1>4, <1>7, <1>g
  <2> QED BY <2>1, <2>2, <1>3
<1>12. \A i, j \in 1 .. k :
         i < j /\ DataAt(i)' /\ DataAt(j)' => EndOf(evq'[i]) <= evq'[j].offset
  <2>1. \A i, j \in 1 .. n :
          i < j /\ DataAt(i)' /\ DataAt(j)' => EndOf(evq'[i]) <= evq'[j].offset
    BY <1>5, <1>b
  <2>2. \A i \in 1 .. n : DataAt(i)' => EndOf(evq'[i]) <= evq'[k].offset
    BY <1>4, <1>5, <1>a, <1>g
  <2>3. \A i, j \in 1 .. k : i < j => i \in 1 .. n /\ (j \in 1 .. n \/ j = k)
    BY <1>3
  <2> QED BY <2>1, <2>2, <2>3
<1>13. \A i \in 1 .. k : FirstData(i)' => evq'[i].offset = Consumed'
  <2>1. \A i \in 1 .. n : FirstData(i)' => FirstData(i)
    BY <1>3, <1>5 DEF FirstData
  <2>2. FirstData(k)' => \A i \in 1 .. n : ~DataAt(i)
    BY <1>3, <1>5 DEF FirstData
  <2>3. \A i \in 1 .. n : FirstData(i)' => evq'[i].offset = Consumed'
    BY <2>1, <1>5, <1>7, <1>e
  <2>4. FirstData(k)' => evq'[k].offset = Consumed'
    BY <2>2, <1>4, <1>7, <1>f, <1>g
  <2> QED BY <2>3, <2>4, <1>3
<1>14. \A i \in 1 .. k : LastData(i)' => EndOf(evq'[i]) = queued'
  <2>1. \A i \in 1 .. n : ~LastData(i)'
    BY <1>3, <1>6 DEF LastData
  <2>2. EndOf(evq'[k]) = queued'
    BY <1>4, <1>g
  <2> QED BY <2>1, <2>2, <1>3
<1>15. \A i, j \in 1 .. k : NextData(i, j)' => evq'[j].offset = EndOf(evq'[i])
  <2>1. \A i, j \in 1 .. n : NextData(i, j)' => evq'[j].offset = EndOf(evq'[i])
    <3> SUFFICES ASSUME NEW i \in 1 .. n, NEW j \in 1 .. n, NextData(i, j)'
                 PROVE  evq'[j].offset = EndOf(evq'[i])
      OBVIOUS
    <3>1. NextData(i, j)
      BY <1>3, <1>5 DEF NextData
    <3> QED BY <3>1, <1>5, <1>d
  <2>2. \A i \in 1 .. n : NextData(i, k)' => evq'[k].offset = EndOf(evq'[i])
    <3> SUFFICES ASSUME NEW i \in 1 .. n, NextData(i, k)'
                 PROVE  evq'[k].offset = EndOf(evq'[i])
      OBVIOUS
    <3>1. LastData(i)
      BY <1>3, <1>5 DEF NextData, LastData, n
    <3> QED BY <3>1, <1>4, <1>5, <1>c, <1>g
  <2>3. \A i, j \in 1 .. k : NextData(i, j)' =>
          i \in 1 .. n /\ (j \in 1 .. n \/ j = k)
    BY <1>3 DEF NextData
  <2> QED BY <2>1, <2>2, <2>3
<1>16. StreamInv'
  BY <1>3, <1>6, <1>11, <1>12, <1>13, <1>14, <1>15 DEF StreamInv, n
<1> QED BY <1>8, <1>9, <1>10, <1>16 DEF CoreInv

LEMMA InvStep == ASSUME TypeOK, CoreInv, [Next]_vars PROVE CoreInv'
<1> USE StepCases
<1>1. CASE Receive
  BY <1>1, TakeDataKeeps, TakeApplyKeeps, TakeAbortKeeps DEF Receive
<1>2. CASE ParseFails \/ FlashFails
  BY <1>2, DataFailsKeeps DEF ParseFails, FlashFails
<1>3. CASE Exit \/ PowerCycle
  <2>1. ~bootFlag'
    BY <1>3 DEF Exit, PowerCycle, CoreInv, PlaceInv, CountInv, FailedStates
  <2> QED BY <1>3, <2>1, ClearedKeeps DEF Exit, PowerCycle
<1>4. CASE Apply \/ Abort
  BY <1>4, RequestKeeps
<1>5. CASE UNCHANGED vars
  BY <1>5 DEF vars, sessionVars, CoreInv, PlaceInv, CountInv, StreamInv, LayoutInv,
     FlashInv, FirstData, LastData, NextData, DataAt, Consumed, Position,
     FileOffset, InFile, ImageComplete, FreshUpTo
<1> QED
  BY <1>1, <1>2, <1>3, <1>4, <1>5, CallbackKeeps, TimeoutKeeps, ParseKeeps,
     EraseKeeps, WriteFlashKeeps, DataDoneKeeps, SetBootPartitionKeeps,
     StartKeeps, WriteKeeps

(* What is true of the core between any two of its steps.                   *)
THEOREM CoreInvariant == Spec => []CoreInv
<1>1. Init => CoreInv
  BY InitInv
<1>2. TypeOK /\ CoreInv /\ [Next]_vars => CoreInv'
  BY InvStep
<1> QED BY <1>1, <1>2, TypeCorrect, PTL DEF Spec

-----------------------------------------------------------------------------
(* The safety properties. *)

(* otaHandleApply sets the boot flag for a complete image only.             *)
THEOREM BootIsSafe == Spec => []ConfirmedIsComplete
<1>1. CoreInv => ConfirmedIsComplete
  BY DEF CoreInv, CountInv, FlashInv, Verified, ConfirmedIsComplete
<1> QED BY <1>1, CoreInvariant, PTL

(* otaEraseAndWrite programs only what it has erased for this write.        *)
THEOREM WritesAreClean == Spec => []NoDirtyWrite
<1>1. TypeOK /\ CoreInv => NoDirtyWrite
  <2> SUFFICES ASSUME TypeOK, CoreInv, task = "data", piece > 0, WriteEnd <= eraseNext,
                      NEW i \in PieceStart .. WriteEnd - 1
               PROVE  flash[i] = "erased"
    BY DEF NoDirtyWrite
  <2> USE DEF TypeOK, Config, Event
  <2>1. /\ eraseNext <= FlashSize
        /\ \A k \in Offsets :
             flash[k] = IF k < PieceStart THEN "fresh"
                        ELSE IF k < eraseNext THEN "erased" ELSE "stale"
    BY DEF CoreInv, PlaceInv, FlashInv, PieceStart
  <2>2. PieceStart \in Nat
    BY DEF PieceStart, FileOffset, Position
  <2> QED BY <2>1, <2>2, CoreAssumption DEF Offsets, WriteEnd
<1> QED BY <1>1, TypeCorrect, CoreInvariant, PTL

(* otaHandleData refuses no data that snfOtaWrite has accepted.             *)
THEOREM StreamIsInOrder == Spec => []QueuedInOrder
<1>1. TypeOK /\ CoreInv => QueuedInOrder
  <2> SUFFICES ASSUME TypeOK, CoreInv, task = "receive",
                      NEW i \in 1 .. Len(evq), FirstData(i)
               PROVE  Acceptable(evq[i])
    BY DEF QueuedInOrder
  <2>1. DataAt(i) /\ evq[i] \in Event
    BY QueuedEvents DEF FirstData
  <2>2. state = "RECEIVING"
    BY <2>1 DEF CoreInv, PlaceInv, CountInv, Verified
  <2>3. evq[i].size > 0 /\ EndOf(evq[i]) <= queued /\ evq[i].offset = received
    BY <2>1, <2>2 DEF CoreInv, StreamInv, Consumed
  <2>4. queued <= total
    BY <2>2 DEF CoreInv, CountInv
  <2> QED BY <2>1, <2>2, <2>3, <2>4 DEF Acceptable, EndOf, Event, TypeOK
<1> QED BY <1>1, TypeCorrect, CoreInvariant, PTL

-----------------------------------------------------------------------------
(* The core implements the contract of OtaSession. *)

LEMMA ContractInit == ASSUME Init PROVE Session!Init
BY DEF Init, Session!Init

(* A step that touches neither the session's state nor the partition.       *)
LEMMA Stutter ==
  ASSUME UNCHANGED <<state, received, total, config, flash, bootFlag>>
  PROVE  UNCHANGED Session!vars
BY DEF Session!vars, ImageComplete, FreshUpTo

(* An erase cannot undo a stored image: the piece waiting to be written is  *)
(* still missing from the partition.                                        *)
LEMMA MissingPiece ==
  ASSUME TypeOK, CoreInv, task = "data", piece > 0
  PROVE  /\ PieceStart \in 0 .. config.file - 1
         /\ PieceStart \in Offsets
         /\ flash[PieceStart] # "fresh"
<1> USE CoreAssumption DEF TypeOK, Config, Event
<1>1. /\ InFile(Position)
      /\ \A i \in Offsets :
           flash[i] = IF i < FileOffset(Position) THEN "fresh"
                      ELSE IF i < eraseNext THEN "erased" ELSE "stale"
  BY DEF CoreInv, PlaceInv, FlashInv
<1>2. PieceStart \in 0 .. config.file - 1
  BY <1>1 DEF PieceStart, FileOffset, InFile, Position
<1>3. config.file <= FlashSize
  BY DEF CoreInv, PlaceInv, LayoutInv
<1> QED BY <1>1, <1>2, <1>3 DEF Offsets, PieceStart

LEMMA ContractErase ==
  ASSUME TypeOK, CoreInv, EraseSector
  PROVE  UNCHANGED Session!vars
<1>1. /\ PieceStart \in 0 .. config.file - 1
      /\ PieceStart \in Offsets
      /\ flash[PieceStart] # "fresh"
  BY MissingPiece DEF EraseSector
<1>2. flash'[PieceStart] # "fresh" /\ config' = config
  BY <1>1 DEF EraseSector
<1>3. ~ImageComplete /\ ~ImageComplete'
  BY <1>1, <1>2 DEF ImageComplete, FreshUpTo
<1> QED BY <1>3 DEF EraseSector, Session!vars

LEMMA ContractWriteFlash ==
  ASSUME TypeOK, CoreInv, WriteFlash
  PROVE  Session!Stage \/ UNCHANGED Session!vars
<1>1. ~ImageComplete
  BY MissingPiece DEF WriteFlash, ImageComplete, FreshUpTo
<1>2. state = "RECEIVING" /\ UNCHANGED <<state, received, total, bootFlag>>
  BY DEF WriteFlash, CoreInv, PlaceInv, sessionVars
<1>3. CASE ImageComplete'
  BY <1>2, <1>3 DEF Session!Stage
<1>4. CASE ~ImageComplete'
  BY <1>1, <1>2, <1>4 DEF Session!vars
<1> QED BY <1>3, <1>4

(* A failure while data is handled, awaited or applied is the contract's.   *)
LEMMA ContractFail ==
  ASSUME state \in {"RECEIVING", "APPLY"}, state' = "FAILED",
         UNCHANGED <<received, total, config, flash, bootFlag>>
  PROVE  Session!Fail
BY DEF Session!Fail, ImageComplete, FreshUpTo

LEMMA ContractReceive ==
  ASSUME TypeOK, CoreInv, Receive
  PROVE  Session!Next \/ UNCHANGED Session!vars
<1>1. /\ task = "receive" /\ state \in {"RECEIVING", "VERIFY_SUCCESS"}
      /\ UNCHANGED <<received, total, config, flash, bootFlag>>
      /\ ImageComplete' = ImageComplete
  BY DEF Receive, CoreInv, PlaceInv, ImageComplete, FreshUpTo
<1>2. event' = evq[1] /\ 1 \in 1 .. Len(evq)
  BY QueueTail DEF Receive
<1>3. CASE TakeData
  <2>1. state = "RECEIVING"
    BY <1>1, <1>2, <1>3 DEF TakeData, CoreInv, CountInv, Verified, DataAt
  <2> QED BY <1>1, <1>3, <2>1, Stutter, ContractFail DEF TakeData, Notify, Session!Next
<1>4. CASE TakeApply
  <2>1. state = "VERIFY_SUCCESS"
    BY <1>1, <1>2, <1>4 DEF TakeApply, CoreInv, CountInv
  <2>2. Session!Submit
    BY <1>1, <1>4, <2>1 DEF TakeApply, Notify, Session!Submit
  <2> QED BY <2>2 DEF Session!Next
<1>5. CASE TakeAbort
  <2>1. Session!Cancel
    BY <1>1, <1>5 DEF TakeAbort, Notify, Session!Cancel
  <2> QED BY <2>1 DEF Session!Next
<1> QED BY <1>3, <1>4, <1>5 DEF Receive

LEMMA ContractDataDone ==
  ASSUME TypeOK, CoreInv, DataDone
  PROVE  Session!Advance
<1> USE DEF TypeOK, Event
<1>1. /\ state = "RECEIVING" /\ received < received'
      /\ received' <= total /\ received' \in Nat
      /\ UNCHANGED <<total, config, flash, bootFlag>>
      /\ ImageComplete' = ImageComplete
  BY DEF DataDone, CoreInv, PlaceInv, CountInv, EndOf, ImageComplete, FreshUpTo
<1>2. CASE received' < total
  BY <1>1, <1>2 DEF DataDone, Notify, Session!Advance
<1>3. CASE ~(received' < total)
  <2>1. received' = total
    BY <1>1, <1>3
  <2>2. state' \in {"VERIFY_SUCCESS", "VERIFY_FAILED"}
    BY <1>3 DEF DataDone, Verdicts, Notify
  <2>3. state' = "VERIFY_SUCCESS" => ImageComplete'
    BY DataDoneKeeps DEF CoreInv, FlashInv, Verified
  <2> QED BY <1>1, <2>1, <2>2, <2>3 DEF Session!Advance
<1> QED BY <1>2, <1>3

LEMMA ContractStart ==
  ASSUME TypeOK, CoreInv, AnyStart
  PROVE  Session!Begin
<1>1. /\ state = "IDLE" /\ state' = "RECEIVING" /\ total' \in Nat \ {0}
      /\ received' = 0 /\ bootFlag' = bootFlag
      /\ flash' = [i \in Offsets |-> "stale"]
  BY CoreAssumption DEF AnyStart, Start, CoreInv, PlaceInv
<1>2. config'.file > 0 /\ config'.file <= FlashSize
  BY <1>1, StartKeeps DEF CoreInv, LayoutInv
<1>3. config'.file \in Nat
  BY TypeStep DEF Next, Api, AnyStart, TypeOK, Config
<1>4. ~ImageComplete'
  BY <1>1, <1>2, <1>3, CoreAssumption DEF ImageComplete, FreshUpTo, Offsets
<1> QED BY <1>1, <1>4 DEF Session!Begin

LEMMA ContractStep ==
  ASSUME TypeOK, CoreInv, [Next]_vars
  PROVE  [Session!Next]_(Session!vars)
<1>1. CASE Callback \/ ReceiveTimeout \/ Parse \/ AnyWrite \/ Apply \/ Abort \/ UNCHANGED vars
  BY <1>1, Stutter
  DEF Callback, ReceiveTimeout, Parse, AnyWrite, Write, Apply, Abort, vars, sessionVars
<1>2. CASE Receive
  BY <1>2, ContractReceive
<1>3. CASE HandleTimeout \/ ParseFails \/ FlashFails
  <2>1. /\ state' = state \/ (state = "RECEIVING" /\ state' = "FAILED")
        /\ UNCHANGED <<received, total, config, flash, bootFlag>>
    BY <1>3 DEF HandleTimeout, Resume, ParseFails, FlashFails, Notify, CoreInv, PlaceInv
  <2> QED BY <2>1, Stutter, ContractFail DEF Session!Next
<1>4. CASE EraseSector
  BY <1>4, ContractErase
<1>5. CASE WriteFlash
  BY <1>5, ContractWriteFlash DEF Session!Next
<1>6. CASE DataDone
  BY <1>6, ContractDataDone DEF Session!Next
<1>7. CASE SetBootPartition
  <2>1. /\ state = "APPLY" /\ ImageComplete
        /\ UNCHANGED <<received, total, config, flash>>
        /\ ImageComplete' = ImageComplete
    BY <1>7 DEF SetBootPartition, CoreInv, PlaceInv, FlashInv, Verified,
       ImageComplete, FreshUpTo
  <2>2. CASE bootFlag' = TRUE /\ Notify("SUCCESS")
    BY <2>1, <2>2 DEF Notify, Session!Commit, Session!Next
  <2>3. CASE UNCHANGED bootFlag /\ Notify("FAILED")
    BY <2>1, <2>3, ContractFail DEF Notify, Session!Next
  <2> QED BY <1>7, <2>2, <2>3 DEF SetBootPartition
<1>8. CASE Exit
  <2>1. Session!Clear
    BY <1>8 DEF Exit, ClearedSession, CoreInv, PlaceInv, FailedStates,
       Session!Clear, Session!Ended
  <2> QED BY <2>1 DEF Session!Next
<1>9. CASE PowerCycle
  BY <1>9 DEF PowerCycle, ClearedSession, Session!Restart, Session!Ended, Session!Next
<1>10. CASE AnyStart
  BY <1>10, ContractStart DEF Session!Next
<1> QED
  BY StepCases, <1>1, <1>2, <1>3, <1>4, <1>5, <1>6, <1>7, <1>8, <1>9, <1>10

(* sonoff_ota.c keeps the contract that sonoff_ota.h states: every step of  *)
(* the core is a step of OtaSession or changes nothing a caller can see.    *)
THEOREM CoreKeepsContract == Spec => KeepsContract
<1>1. Init => Session!Init
  BY ContractInit
<1>2. TypeOK /\ CoreInv /\ [Next]_vars => [Session!Next]_(Session!vars)
  BY ContractStep
<1> QED
  BY <1>1, <1>2, TypeCorrect, CoreInvariant, PTL DEF Spec, KeepsContract, Session!Spec
=============================================================================
