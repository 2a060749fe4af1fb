---------------------------- MODULE OtaSession -----------------------------
(***************************************************************************)
(* What the OTA core promises its callers (sonoff_ota.h): the states a      *)
(* session goes through as the callbacks report them, progress that only    *)
(* grows, and an upgrade request that is only ever made for a complete      *)
(* image.  No queue, no worker task, no sectors, no concurrency.            *)
(***************************************************************************)
EXTENDS Integers

VARIABLES
  phase,      (* the SnfOtaState of the session                             *)
  progress,   (* SnfOtaEventData.received_size                              *)
  size,       (* SnfOtaEventData.total_size                                 *)
  staged,     (* the whole image is in the OTA partition                    *)
  confirmed   (* the boot loader has been asked to install it               *)

vars == <<phase, progress, size, staged, confirmed>>

Init ==
  /\ phase = "IDLE" /\ progress = 0 /\ size = 0
  /\ staged = FALSE /\ confirmed = FALSE

(* snfOtaStart: a session starts from nothing. *)
Begin ==
  /\ phase = "IDLE"
  /\ phase' = "RECEIVING"
  /\ size' \in Nat \ {0}
  /\ progress' = 0
  /\ staged' = FALSE
  /\ UNCHANGED confirmed

(* The last of the image is stored; parts of the input may still follow. *)
Stage ==
  /\ phase = "RECEIVING"
  /\ staged' = TRUE
  /\ UNCHANGED <<phase, progress, size, confirmed>>

(* A block has been processed: progress grows, and is final at the verdict. *)
Advance ==
  /\ phase = "RECEIVING"
  /\ progress < progress'
  /\ \/ progress' < size /\ phase' = "RECEIVING"
     \/ progress' = size /\ staged /\ phase' = "VERIFY_SUCCESS"
     \/ progress' = size /\ phase' = "VERIFY_FAILED"
  /\ UNCHANGED <<size, staged, confirmed>>

Fail ==
  /\ phase \in {"RECEIVING", "APPLY"}
  /\ phase' = "FAILED"
  /\ UNCHANGED <<progress, size, staged, confirmed>>

Cancel ==
  /\ phase \in {"RECEIVING", "VERIFY_SUCCESS"}
  /\ phase' = "ABORT"
  /\ UNCHANGED <<progress, size, staged, confirmed>>

Submit ==
  /\ phase = "VERIFY_SUCCESS"
  /\ phase' = "APPLY"
  /\ UNCHANGED <<progress, size, staged, confirmed>>

(* The upgrade is requested of the boot loader. *)
Commit ==
  /\ phase = "APPLY"
  /\ staged
  /\ phase' = "SUCCESS"
  /\ confirmed' = TRUE
  /\ UNCHANGED <<progress, size, staged>>

Ended ==
  /\ phase' = "IDLE" /\ progress' = 0 /\ size' = 0 /\ staged' = FALSE

Clear ==
  /\ phase \in {"FAILED", "VERIFY_FAILED", "ABORT"}
  /\ Ended
  /\ UNCHANGED confirmed

(* A reboot or a power failure, at any time. *)
Restart == Ended /\ confirmed' = FALSE

Next ==
  Begin \/ Stage \/ Advance \/ Fail \/ Cancel \/ Submit \/ Commit \/ Clear \/ Restart

Spec == Init /\ [][Next]_vars
=============================================================================
