----------------------------- MODULE OtaSystem -----------------------------
(***************************************************************************)
(* The OTA subsystem as a whole: the core, its worker, the HTTP server task *)
(* and the Matter task, interleaved in every way.                           *)
(***************************************************************************)
EXTENDS OtaHttp, OtaMatter

systemVars == <<vars, channelVars, httpVars, matterVars>>

SystemInit == Init /\ ChannelsInit /\ HttpInit /\ MatterInit

(* A reboot or a power failure restarts every task. *)
ResetChannels ==
  /\ view' = [c \in Channels |-> [state |-> "IDLE", received |-> 0]]
  /\ callback' = "out"
  /\ http' = "idle" /\ upload' = NoUpload /\ succeeded' = FALSE /\ outdated' = FALSE
  /\ matter' = "idle" /\ download' = NoDownload /\ mBlock' = FALSE

InCallback == (HttpEventCallback \/ MatterEventCallback \/ Return)
              /\ UNCHANGED <<httpVars, matterVars>>

InCore == (ReceiveTimeout \/ HandleTimeout \/ Receive \/ Data \/ SetBootPartition \/ Exit)
          /\ UNCHANGED <<channelVars, httpVars, matterVars>>

SystemWorker == InCallback \/ InCore \/ (Reboot /\ ResetChannels)

SystemNext ==
  \/ SystemWorker
  \/ HttpNext /\ UNCHANGED matterVars
  \/ MatterNext /\ UNCHANGED httpVars
  \/ PowerCycle /\ ResetChannels

SystemSpec == SystemInit /\ [][SystemNext]_systemVars

(* Only the worker is relied upon: a peer may stall either channel's task.  *)
FairSystemSpec == SystemSpec /\ WF_systemVars(SystemWorker)

-----------------------------------------------------------------------------
SystemTypeOK ==
  /\ view \in [Channels -> View]
  /\ callback \in CallbackPlaces
  /\ HttpTypeOK
  /\ MatterTypeOK

(* ota_http_data_buffer is only filled from the socket once the core has    *)
(* read what it lent before: the comment on the buffer says that the next   *)
(* packet is received when the last one is in flash.  The exception is an   *)
(* upload that found the length of an earlier session in its view: the last *)
(* callback of that session came after the reset, or between its state and  *)
(* its length the reset did, and the wait takes the old length for news.    *)
HttpBufferStable == http = "receive" /\ ~outdated => ~Borrowed(Http)

(* "OTA upload success" is answered only when the boot flag is set.         *)
SuccessIsCommitted == succeeded => bootFlag

(* While a verified session waits, something waits for it in the queue: the *)
(* callback's request, or what kept the queue too full for it.  (The worker *)
(* no longer gives up on its own then: otaHandleTimeout only counts while   *)
(* receiving.)                                                              *)
VerifiedIsDriven ==
  state = "VERIFY_SUCCESS" /\ task \in {"receive", "timeout"} => evq # << >>

(* However the channels behave, a session comes to an end and the next one  *)
(* can start: a verified one because the callback submits it.               *)
SessionEnds == task # "none" ~> task = "none"

-----------------------------------------------------------------------------
(* What the headers and docs say of the channels and the code does not do.  *)

(* sonoff_ota_matter.h: snfOtaMatterWrite returns 0 for processed data and  *)
(* a negative result when the OTA has failed, as it has by a bad verdict.   *)
WriteReportsFailure ==
  [][matter = "wait" /\ matter' = "fetch" => view[Matter].state # "VERIFY_FAILED"]_systemVars

(* sonoff_ota_matter.h: the buffer should be released after the OTA is over. *)
BlockHeldWhileBorrowed == Borrowed(Matter) => mBlock

(* sonoff_ota.h: whoever lends data is told when it has been processed.     *)
LenderOwnsSession ==
  \A i \in 1 .. Len(evq) : DataAt(i) => evq[i].owner = config.channel
=============================================================================
