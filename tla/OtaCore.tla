------------------------------ MODULE OtaCore ------------------------------
(***************************************************************************)
(* The OTA core, src/sonoff/ota/sonoff_ota.c: one control block, one event  *)
(* queue and one worker task (otaTask), driven through snfOtaStart,         *)
(* snfOtaWrite, snfOtaApply and snfOtaAbort by any task at any time.        *)
(*                                                                         *)
(* The API bodies run under the OTA mutex, so each successful call is one   *)
(* action (a call that returns an error changes nothing and is a stutter).  *)
(* The worker does not take the mutex while it handles an event: every      *)
(* piece of data it writes, every sector it erases, every notification and  *)
(* the final cleanup is a step of its own.  Power may fail between any two  *)
(* steps; the OTA partition and the boot flag survive.                      *)
(*                                                                         *)
(* Sizes and offsets are counted in units of data.  The package parser      *)
(* (sonoff_ota_parse.c) appears by its effect: which part of the input is   *)
(* payload, in pieces of any length, and whether it accepts the input.      *)
(***************************************************************************)
EXTENDS Integers, Sequences

CONSTANTS
  Channels,         (* who may own a session or lend a buffer: HTTP, Matter *)
  NoChannel,        (* the NULL callback of a zeroed SnfOtaConfig           *)
  QueueLength,      (* SNF_OTA_EVENT_QUEUE_LENGTH                           *)
  MaxTimeoutCount,  (* SNF_OTA_MAX_TIMEOUT_COUNT                            *)
  SectorSize,       (* SNF_OTA_ERASE_SECTOR_SIZE                            *)
  FlashSize,        (* partition_length of the OTA partition                *)
  ImageSizes        (* the input sizes the callers start sessions with      *)

ASSUME CoreAssumption ==
  /\ NoChannel \notin Channels
  /\ QueueLength \in Nat \ {0}
  /\ MaxTimeoutCount \in Nat \ {0}
  /\ SectorSize \in Nat \ {0}
  /\ FlashSize \in Nat \ {0}
  /\ ImageSizes \subseteq Nat \ {0}

VARIABLES
  task,       (* where the worker is; "none" is task_handle == NULL         *)
  evq,        (* event_queue                                                *)
  event,      (* the event the worker took last                             *)
  cursor,     (* how much of that event's data is handled                   *)
  piece,      (* length of the payload piece being erased for and written   *)
  state,      (* ota_info.state                                             *)
  total,      (* ota_info.total_size                                        *)
  received,   (* ota_info.received_size                                     *)
  queued,     (* ota_info.queued_size                                       *)
  eraseNext,  (* ota_info.next_erase_offset                                 *)
  timeouts,   (* ota_info.timeout_count                                     *)
  config,     (* ota_control.config, with the layout the parser will find   *)
  flash,      (* the OTA partition                                          *)
  bootFlag    (* the confirmation the boot loader reads (secure build)      *)

sessionVars == <<state, total, received, queued, eraseNext, timeouts, config>>
vars == <<task, evq, event, cursor, piece, sessionVars, flash, bootFlag>>

-----------------------------------------------------------------------------
TaskPlaces ==
  {"none", "receive", "timeout", "data", "notify", "boot", "reboot", "exit"}
FailedStates == {"FAILED", "VERIFY_FAILED", "ABORT"}
ActiveStates == {"RECEIVING", "VERIFY_SUCCESS", "APPLY", "SUCCESS"}
States == {"IDLE"} \cup ActiveStates \cup FailedStates

(* An event whose id is not DATA carries zeros, as in SnfOtaEvent event = {0}. *)
Event == [id : {"DATA", "APPLY", "ABORT"}, offset : Nat, size : Nat,
          owner : Channels \cup {NoChannel}]
NoEvent == [id |-> "DATA", offset |-> 0, size |-> 0, owner |-> NoChannel]
Request(id) == [NoEvent EXCEPT !.id = id]

(* The selected file occupies input units skip .. skip + file - 1. *)
Config == [channel : Channels \cup {NoChannel}, format : {"RAW", "PACKAGE"},
           check : {"NONE", "SHA256"}, skip : Nat, file : Nat]
(* Mutant: the zeroed configuration has no format the parser knows. *)
UnsetConfig == [channel |-> NoChannel, format |-> "UNSET", check |-> "NONE",
                skip |-> 0, file |-> 0]

ZeroConfig == [channel |-> NoChannel, format |-> "RAW", check |-> "NONE",
               skip |-> 0, file |-> 0]

(* A cell is fresh once this session has written it, stale until erased.    *)
Offsets == 0 .. FlashSize - 1
Cell == {"stale", "erased", "fresh"}
FreshUpTo(n) == \A i \in 0 .. n - 1 : flash[i] = "fresh"

(* The file offset the parser has reached after n units of input. *)
FileOffset(n) == IF n < config.skip THEN 0
                 ELSE IF n < config.skip + config.file THEN n - config.skip
                 ELSE config.file

(* The whole selected file is in the partition, written by this session. *)
ImageComplete == FreshUpTo(config.file)

-----------------------------------------------------------------------------
ClearedSession ==
  /\ state' = "IDLE"
  /\ total' = 0
  /\ received' = 0
  /\ queued' = 0
  /\ eraseNext' = 0
  /\ timeouts' = 0
  /\ config' = ZeroConfig
  /\ evq' = << >>
  /\ event' = NoEvent
  /\ cursor' = 0
  /\ piece' = 0
  /\ task' = "none"

Init ==
  /\ task = "none" /\ evq = << >> /\ event = NoEvent /\ cursor = 0 /\ piece = 0
  /\ state = "IDLE" /\ total = 0 /\ received = 0 /\ queued = 0
  /\ eraseNext = 0 /\ timeouts = 0 /\ config = ZeroConfig
  /\ flash = [i \in Offsets |-> "stale"]
  /\ bootFlag = FALSE

-----------------------------------------------------------------------------
(* The API.  A raw image must fit the partition as a whole; a package must  *)
(* have a header before its file, and the parser refuses a larger file.     *)
Layouts(format, size) ==
  IF format = "RAW"
  THEN {[skip |-> 0, file |-> size]}
  ELSE {l \in [skip : 1 .. size, file : 1 .. size] : l.skip + l.file <= size}

Start(c, format, check, size, layout) ==
  /\ task = "none"
  /\ layout.file <= FlashSize
  /\ format = "PACKAGE" => check = "NONE"
  /\ task' = "receive"
  /\ state' = "RECEIVING"
  /\ total' = size
  /\ received' = 0 /\ queued' = 0 /\ eraseNext' = 0 /\ timeouts' = 0
  /\ config' = [channel |-> c, format |-> format, check |-> check,
                skip |-> layout.skip, file |-> layout.file]
  /\ flash' = [i \in Offsets |-> "stale"]
  /\ UNCHANGED <<evq, event, cursor, piece, bootFlag>>

Send(e) ==
  /\ Len(evq) < QueueLength
  /\ evq' = Append(evq, e)

(* Mutant: the offset need not be where the queued data ends. *)
InRangeAnywhere(offset, len) == offset <= total /\ len <= total - offset

InRange(offset, len) ==
  /\ offset = queued
  /\ offset <= total
  /\ len <= total - offset

Write(c, offset, len) ==
  /\ task # "none"
  /\ state = "RECEIVING"
  /\ InRange(offset, len)
  /\ Send([id |-> "DATA", offset |-> offset, size |-> len, owner |-> c])
  /\ queued' = queued + len
  /\ UNCHANGED <<task, event, cursor, piece, state, total, received, eraseNext,
                 timeouts, config, flash, bootFlag>>

(* Mutant: an apply request is taken without a verdict. *)
ApplyUnverified ==
  /\ task # "none"
  /\ Send(Request("APPLY"))
  /\ UNCHANGED <<task, event, cursor, piece, sessionVars, flash, bootFlag>>

Apply ==
  /\ task # "none"
  /\ state = "VERIFY_SUCCESS"
  /\ Send(Request("APPLY"))
  /\ UNCHANGED <<task, event, cursor, piece, sessionVars, flash, bootFlag>>

Abort ==
  /\ task # "none"
  /\ Send(Request("ABORT"))
  /\ UNCHANGED <<task, event, cursor, piece, sessionVars, flash, bootFlag>>

-----------------------------------------------------------------------------
(* The worker.  otaNotify sets the state, then calls the channel back; the  *)
(* session goes on, ends or reboots once the callback has returned.         *)
Notify(s) ==
  /\ state' = s
  /\ task' = "notify"
  /\ cursor' = 0
  /\ piece' = 0

Callback ==
  /\ task = "notify"
  /\ task' = CASE state \in {"RECEIVING", "VERIFY_SUCCESS"} -> "receive"
               [] state = "APPLY" -> "boot"
               [] state = "SUCCESS" -> "reboot"
               [] OTHER -> "exit"
  /\ timeouts' = IF task' = "receive" THEN 0 ELSE timeouts
  /\ event' = NoEvent
  /\ UNCHANGED <<evq, cursor, piece, state, total, received, queued,
                 eraseNext, config, flash, bootFlag>>

(* No event came in time.  One may still arrive before this is acted upon,  *)
(* and it is acted upon only while receiving.                               *)
ReceiveTimeout ==
  /\ task = "receive"
  /\ evq = << >>
  /\ task' = "timeout"
  /\ UNCHANGED <<evq, event, cursor, piece, sessionVars, flash, bootFlag>>

Resume == task' = "receive" /\ UNCHANGED <<state, cursor, piece>>

(* Mutant: a timeout is not counted. *)
HandleTimeoutForever ==
  /\ task = "timeout"
  /\ Resume
  /\ UNCHANGED <<evq, event, total, received, queued, eraseNext, timeouts,
                 config, flash, bootFlag>>

HandleTimeout ==
  /\ task = "timeout"
  /\ \/ state # "RECEIVING" /\ Resume /\ UNCHANGED timeouts
     \/ /\ state = "RECEIVING"
        /\ timeouts' = timeouts + 1
        /\ \/ timeouts' < MaxTimeoutCount /\ Resume
           \/ timeouts' >= MaxTimeoutCount /\ Notify("FAILED")
  /\ UNCHANGED <<evq, event, total, received, queued, eraseNext, config, flash,
                 bootFlag>>

Acceptable(e) ==
  /\ state = "RECEIVING"
  /\ e.size # 0
  /\ e.offset = received
  /\ e.offset <= total
  /\ e.size <= total - e.offset

TakeData ==
  /\ event'.id = "DATA"
  /\ IF Acceptable(event')
     THEN /\ task' = "data"
          /\ UNCHANGED <<state, cursor, piece>>
     ELSE Notify("FAILED")

TakeApply ==
  /\ event'.id = "APPLY"
  /\ Notify("APPLY")

(* Mutant: an abort is dropped unless data is still expected. *)
TakeAbortIgnored ==
  /\ event'.id = "ABORT"
  /\ IF state = "RECEIVING" THEN Notify("ABORT")
     ELSE UNCHANGED <<task, state, cursor, piece>>

TakeAbort ==
  /\ event'.id = "ABORT"
  /\ Notify("ABORT")

Receive ==
  /\ task = "receive"
  /\ evq # << >>
  /\ event' = Head(evq)
  /\ evq' = Tail(evq)
  /\ TakeData \/ TakeApply \/ TakeAbort
  /\ UNCHANGED <<total, received, queued, eraseNext, timeouts, config, flash,
                 bootFlag>>

-----------------------------------------------------------------------------
(* Handling the data of one event.  The input position is where the event   *)
(* starts plus what has been handled of it.                                 *)
Position == received + cursor

(* Mutant: the payload is not cut at the end of the selected file. *)
ToBoundaryOfInput(n) == IF n < config.skip THEN config.skip - n ELSE total - n

(* Units from position n to the next boundary of header, file or trailer. *)
ToBoundary(n) == IF n < config.skip THEN config.skip - n
                 ELSE IF n < config.skip + config.file
                      THEN config.skip + config.file - n
                      ELSE total - n

PieceLengths ==
  IF config.format = "RAW" THEN {event.size}
  ELSE {n \in 1 .. event.size - cursor : n <= ToBoundary(Position)}

InFile(n) == n >= config.skip /\ n < config.skip + config.file

(* The parser returns the next piece: payload to write, or input to skip. *)
Parse ==
  /\ task = "data"
  /\ piece = 0
  /\ cursor < event.size
  /\ \E n \in PieceLengths :
       IF InFile(Position)
       THEN piece' = n /\ UNCHANGED cursor
       ELSE cursor' = cursor + n /\ UNCHANGED piece
  /\ UNCHANGED <<task, evq, event, sessionVars, flash, bootFlag>>

(* A bad header, attribute or tag ends the session where it is found. *)
ParseFails ==
  /\ task = "data"
  /\ piece = 0
  /\ cursor < event.size
  /\ config.format = "PACKAGE"
  /\ Notify("FAILED")
  /\ UNCHANGED <<evq, event, total, received, queued, eraseNext, timeouts,
                 config, flash, bootFlag>>

(* Mutant: every piece of an event is written at the event's own offset. *)
PieceStartOfEvent == FileOffset(received)

PieceStart == FileOffset(Position)
WriteEnd == PieceStart + piece

EraseSector ==
  /\ task = "data"
  /\ piece > 0
  /\ WriteEnd > eraseNext
  /\ eraseNext + SectorSize <= FlashSize
  /\ flash' = [i \in Offsets |->
                 IF i \in eraseNext .. eraseNext + SectorSize - 1
                 THEN "erased" ELSE flash[i]]
  /\ eraseNext' = eraseNext + SectorSize
  /\ UNCHANGED <<task, evq, event, cursor, piece, state, total, received,
                 queued, timeouts, config, bootFlag>>

WriteFlash ==
  /\ task = "data"
  /\ piece > 0
  /\ WriteEnd <= eraseNext
  /\ WriteEnd <= FlashSize
  /\ flash' = [i \in Offsets |->
                 IF i \in PieceStart .. WriteEnd - 1 THEN "fresh" ELSE flash[i]]
  /\ cursor' = cursor + piece
  /\ piece' = 0
  /\ UNCHANGED <<task, evq, event, sessionVars, bootFlag>>

(* The erase or the write of the piece is refused or fails. *)
FlashFails ==
  /\ task = "data"
  /\ piece > 0
  /\ Notify("FAILED")
  /\ UNCHANGED <<evq, event, total, received, queued, eraseNext, timeouts,
                 config, flash, bootFlag>>

(* otaHandleVerify: the parser's verdict, or the raw image's check type. *)
Verdicts ==
  IF config.format = "PACKAGE" THEN {"VERIFY_SUCCESS", "VERIFY_FAILED"}
  ELSE IF config.check = "NONE" THEN {"VERIFY_SUCCESS"} ELSE {"VERIFY_FAILED"}

(* Mutant: the verdict comes one unit early. *)
DataDoneOffByOne ==
  /\ task = "data"
  /\ piece = 0
  /\ cursor = event.size
  /\ received' = received + event.size
  /\ IF received' < total - 1
     THEN Notify("RECEIVING")
     ELSE \E v \in Verdicts : Notify(v)
  /\ UNCHANGED <<evq, event, total, queued, eraseNext, timeouts, config, flash,
                 bootFlag>>

DataDone ==
  /\ task = "data"
  /\ piece = 0
  /\ cursor = event.size
  /\ received' = received + event.size
  /\ IF received' < total
     THEN Notify("RECEIVING")
     ELSE \E v \in Verdicts : Notify(v)
  /\ UNCHANGED <<evq, event, total, queued, eraseNext, timeouts, config, flash,
                 bootFlag>>

-----------------------------------------------------------------------------
(* snfOtaAdapterSetBootPartition: the boot flag is set, or nothing is. *)
SetBootPartition ==
  /\ task = "boot"
  /\ \/ bootFlag' = TRUE /\ Notify("SUCCESS")
     \/ UNCHANGED bootFlag /\ Notify("FAILED")
  /\ UNCHANGED <<evq, event, total, received, queued, eraseNext, timeouts,
                 config, flash>>

(* The end of otaTask: queue deleted, session cleared, task gone. *)
Exit ==
  /\ task = "exit"
  /\ ClearedSession
  /\ UNCHANGED <<flash, bootFlag>>

(* RAM is lost; the boot loader consumes the flag, the partition stays. *)
PowerCycle ==
  /\ ClearedSession
  /\ bootFlag' = FALSE
  /\ UNCHANGED flash

Reboot == task = "reboot" /\ PowerCycle

Data == Parse \/ ParseFails \/ EraseSector \/ WriteFlash \/ FlashFails \/ DataDone

Worker ==
  \/ Callback \/ ReceiveTimeout \/ HandleTimeout \/ Receive
  \/ Data \/ SetBootPartition \/ Exit \/ Reboot

Api ==
  \/ \E c \in Channels, format \in {"RAW", "PACKAGE"}, check \in {"NONE", "SHA256"},
        size \in ImageSizes : \E layout \in Layouts(format, size) :
          Start(c, format, check, size, layout)
  \/ \E c \in Channels, offset \in 0 .. total, len \in 1 .. total : Write(c, offset, len)
  \/ Apply
  \/ Abort

Next == Worker \/ Api \/ PowerCycle

Spec == Init /\ [][Next]_vars

(* The worker is a ready FreeRTOS task, and its waits time out. *)
FairSpec == Spec /\ WF_vars(Worker)

-----------------------------------------------------------------------------
TypeOK ==
  /\ task \in TaskPlaces
  /\ evq \in Seq(Event)
  /\ event \in Event
  /\ cursor \in Nat /\ piece \in Nat
  /\ state \in States
  /\ total \in Nat /\ received \in Nat /\ queued \in Nat
  /\ eraseNext \in Nat /\ timeouts \in Nat
  /\ config \in Config
  /\ flash \in [Offsets -> Cell]
  /\ bootFlag \in BOOLEAN

(* The boot flag is only ever set over a partition that holds the complete  *)
(* verified image of the session that set it (otaHandleApply does not look  *)
(* at the state again, so this rests on what can be in the queue).          *)
ConfirmedIsComplete ==
  bootFlag => /\ ImageComplete
              /\ received = total
              /\ state = "SUCCESS"

(* A piece is only ever written over cells this session erased and has not  *)
(* written since: the flash cannot be programmed twice.                     *)
NoDirtyWrite ==
  (task = "data" /\ piece > 0 /\ WriteEnd <= eraseNext)
    => \A i \in PieceStart .. WriteEnd - 1 : flash[i] = "erased"

DataAt(i) == evq[i].id = "DATA"
FirstData(i) == DataAt(i) /\ \A j \in 1 .. i - 1 : ~DataAt(j)
LastData(i) == DataAt(i) /\ \A j \in i + 1 .. Len(evq) : ~DataAt(j)
NextData(i, j) ==
  i < j /\ DataAt(i) /\ DataAt(j) /\ \A k \in i + 1 .. j - 1 : ~DataAt(k)
EndOf(e) == e.offset + e.size

(* Data waits in the order of the input without gap or overlap, so that the *)
(* checks of otaHandleData never fire for data snfOtaWrite has accepted.    *)
QueuedInOrder ==
  task = "receive" =>
    \A i \in 1 .. Len(evq) : FirstData(i) => Acceptable(evq[i])

-----------------------------------------------------------------------------
(* Why the invariants hold: what is true of the core between any two steps. *)

Verified == {"VERIFY_SUCCESS", "APPLY", "SUCCESS"}

(* Where the worker is tells which states it may be in. *)
PlaceInv ==
  /\ task = "none" <=> state = "IDLE"
  /\ task = "none" => evq = << >>
  /\ task \in {"receive", "timeout"} => state \in {"RECEIVING", "VERIFY_SUCCESS"}
  /\ task = "boot" => state = "APPLY"
  /\ task = "reboot" => state = "SUCCESS"
  /\ task = "exit" => state \in FailedStates
  /\ task # "data" => cursor = 0 /\ piece = 0
  /\ task = "data" => /\ state = "RECEIVING"
                      /\ event.offset = received
                      /\ event.size > 0
                      /\ EndOf(event) <= queued
                      /\ cursor <= event.size
                      /\ config.format = "RAW" =>
                           /\ cursor \in {0, event.size}
                           /\ piece \in {0, event.size - cursor}

(* The counters agree with the state, and an apply request with both. *)
CountInv ==
  /\ state \in {"RECEIVING"} \cup Verified => received <= queued /\ queued <= total
  /\ state \in Verified => received = total
  /\ state = "RECEIVING" => received < total
  /\ state \in {"IDLE", "RECEIVING"} =>
       \A i \in 1 .. Len(evq) : evq[i].id # "APPLY"
  /\ state \in Verified => \A i \in 1 .. Len(evq) : ~DataAt(i)
  /\ bootFlag => state = "SUCCESS"

(* What the worker has taken out of the queue so far. *)
Consumed == IF task = "data" THEN EndOf(event) ELSE received

(* The data in the queue is the input from Consumed to queued, in order. *)
StreamInv ==
  state = "RECEIVING" =>
    /\ \A i \in 1 .. Len(evq) : DataAt(i) =>
         evq[i].size > 0 /\ Consumed <= evq[i].offset /\ EndOf(evq[i]) <= queued
    /\ \A i, j \in 1 .. Len(evq) :
         i < j /\ DataAt(i) /\ DataAt(j) => EndOf(evq[i]) <= evq[j].offset
    /\ \A i \in 1 .. Len(evq) : FirstData(i) => evq[i].offset = Consumed
    /\ \A i \in 1 .. Len(evq) : LastData(i) => EndOf(evq[i]) = queued
    /\ \A i, j \in 1 .. Len(evq) : NextData(i, j) => evq[j].offset = EndOf(evq[i])
    /\ (\A i \in 1 .. Len(evq) : ~DataAt(i)) => Consumed = queued

(* The layout the parser follows fits the input and the partition. *)
LayoutInv ==
  state \in {"RECEIVING"} \cup Verified =>
    /\ config.file > 0
    /\ config.file <= FlashSize
    /\ config.skip + config.file <= total
    /\ config.format = "RAW" => config.skip = 0 /\ config.file = total

(* The partition is fresh up to the write position, erased up to the erase  *)
(* position and stale from there on.                                        *)
FlashInv ==
  /\ state = "RECEIVING" =>
       /\ FileOffset(Position) <= eraseNext
       /\ eraseNext <= FlashSize
       /\ \A i \in Offsets :
            flash[i] = IF i < FileOffset(Position) THEN "fresh"
                       ELSE IF i < eraseNext THEN "erased" ELSE "stale"
       /\ piece > 0 => /\ InFile(Position)
                       /\ cursor + piece <= event.size
                       /\ Position + piece <= config.skip + config.file
  /\ state \in Verified => ImageComplete

(* The inductive invariant of the core, from which the others follow. *)
CoreInv == PlaceInv /\ CountInv /\ StreamInv /\ LayoutInv /\ FlashInv

-----------------------------------------------------------------------------
(* The core keeps its callers' contract: seen through the state, the        *)
(* processed length and the boot flag alone it is an OtaSession.            *)
Session == INSTANCE OtaSession WITH
  phase <- state, progress <- received, size <- total,
  staged <- state # "IDLE" /\ ImageComplete, confirmed <- bootFlag
KeepsContract == Session!Spec

(* A session that is receiving always comes to a verdict or is given up. *)
ReceivingEnds == state = "RECEIVING" ~> state # "RECEIVING"
=============================================================================
