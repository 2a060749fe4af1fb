---------------------------- MODULE OtaChannels ----------------------------
(***************************************************************************)
(* What the two OTA channels, src/sonoff/ota/sonoff_ota_http.c and          *)
(* sonoff_ota_matter.c, have in common: each lends the core a pointer to    *)
(* its buffer, passes a callback with which the core's worker updates the   *)
(* channel's own view of the session, and polls that view until a deadline. *)
(*                                                                         *)
(* The callback runs in the worker between otaNotify and the next event.    *)
(* It stores the state and the length one after the other, without a lock,  *)
(* as the channel does when it resets them, and submits a verified image    *)
(* itself: its call of snfOtaApply takes the mutex and the queue.  Other    *)
(* tasks get in between.                                                    *)
(***************************************************************************)
EXTENDS OtaCore

CONSTANTS
  Http, Matter      (* the channels                                         *)

ASSUME ChannelAssumption == Channels = {Http, Matter} /\ Http # Matter

VARIABLES
  view,       (* http_ota_state, matter_ota_state: what the callback told   *)
  callback    (* how far the worker is inside the callback                  *)

channelVars == <<view, callback>>

View == [state : States, received : Nat]
CallbackPlaces == {"out", "size", "apply", "return"}

ChannelsInit ==
  /\ view = [c \in Channels |-> [state |-> "IDLE", received |-> 0]]
  /\ callback = "out"

Failed(c) == view[c].state \in FailedStates
Active(c) == view[c].state \in ActiveStates
(* Mutant: off by one, the last unit may still be with the core. *)
ProcessedAlmost(c, n) == view[c].received >= n - 1

Processed(c, n) == view[c].received >= n

StoreState(c, s) == view' = [view EXCEPT ![c].state = s]

(* Mutant: the callback is given the position of the last unit, not a count. *)
StoreLast(c, n) == view' = [view EXCEPT ![c].received = n - 1]

StoreReceived(c, n) == view' = [view EXCEPT ![c].received = n]

(* The session's progress is copied; a verified image is to be submitted.   *)
TellState(c) ==
  /\ task = "notify"
  /\ callback = "out"
  /\ config.channel = c
  /\ StoreState(c, state)
  /\ callback' = "size"
  /\ UNCHANGED vars

TellReceived(c) ==
  /\ callback = "size"
  /\ config.channel = c
  /\ StoreReceived(c, received)
  /\ \/ state = "VERIFY_SUCCESS" /\ callback' = "apply" /\ UNCHANGED vars
     \/ state # "VERIFY_SUCCESS" /\ Callback /\ callback' = "out"

(* Mutant: the callback leaves a verified image alone. *)
SubmitNothing(c) ==
  /\ callback = "apply"
  /\ config.channel = c
  /\ callback' = "return"
  /\ UNCHANGED <<vars, view>>

Submit(c) ==
  /\ callback = "apply"
  /\ config.channel = c
  /\ callback' = "return"
  /\ \/ Apply /\ UNCHANGED view
     \/ Len(evq) = QueueLength /\ StoreState(c, "FAILED") /\ UNCHANGED vars

Return ==
  /\ callback = "return"
  /\ Callback
  /\ callback' = "out"
  /\ UNCHANGED view

EventCallback(c) == TellState(c) \/ TellReceived(c) \/ Submit(c)
HttpEventCallback == EventCallback(Http)
MatterEventCallback == EventCallback(Matter)

-----------------------------------------------------------------------------
(* The answers of the core's API to a channel.                              *)
Accepts(offset, len) ==
  task # "none" /\ state = "RECEIVING" /\ InRange(offset, len) /\ Len(evq) < QueueLength

Aborts == task # "none" /\ Len(evq) < QueueLength

(* Both channels start a package without a check of its own. *)
StartPackage(c, size) ==
  \E layout \in Layouts("PACKAGE", size) : Start(c, "PACKAGE", "NONE", size, layout)

(* Data of the channel that the worker will still read. *)
Borrowed(c) ==
  state = "RECEIVING" /\ \/ task = "data" /\ event.owner = c
                         \/ \E i \in 1 .. Len(evq) : DataAt(i) /\ evq[i].owner = c
=============================================================================
