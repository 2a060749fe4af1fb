----------------------------- MODULE OtaMatter -----------------------------
(***************************************************************************)
(* The Matter download: OTAImageProcessorImpl.cpp, whose handlers run one   *)
(* after the other in the Matter task, over sonoff_ota_matter.c.  A block   *)
(* of the transfer is copied into mBlock and lent to the core from there;   *)
(* ending or aborting the download frees it.                                *)
(*                                                                         *)
(* The Matter SDK itself, which prepares a download, delivers blocks and    *)
(* ends the transfer, appears as the order in which it calls the handlers.  *)
(***************************************************************************)
EXTENDS OtaChannels

CONSTANTS
  MatterBlockSize   (* the largest block of a transfer                      *)

ASSUME MatterAssumption == MatterBlockSize \in Nat \ {0}

VARIABLES
  matter,     (* where the image processor is                               *)
  download,   (* header.mPayloadSize, flash_data_offset and the block       *)
  mBlock      (* mBlock holds memory                                        *)

matterVars == <<matter, download, mBlock>>

MatterPlaces ==
  {"idle", "fetch", "block", "reset", "start", "write", "wait", "fail", "abort",
   "finalize"}
Download == [size : Nat, offset : Nat, block : Nat, started : BOOLEAN]
NoDownload == [size |-> 0, offset |-> 0, block |-> 0, started |-> FALSE]

MatterInit == matter = "idle" /\ download = NoDownload /\ mBlock = FALSE

(* readHeader and flash_data_offset are reset; the payload size will be in  *)
(* the header that the first block brings.                                  *)
PrepareDownload(size) ==
  /\ matter = "idle"
  /\ matter' = "fetch"
  /\ download' = [NoDownload EXCEPT !.size = size]
  /\ UNCHANGED <<vars, channelVars, mBlock>>

(* Nobody reads the account of a download that is over or given up. *)
Leave(place) == matter' = place /\ download' = NoDownload

(* The SDK delivers a block, ends the transfer or gives it up. *)
ProcessBlock(len) ==
  /\ matter = "fetch"
  /\ matter' = "block"
  /\ download' = [download EXCEPT !.block = len]
  /\ mBlock' = TRUE
  /\ UNCHANGED <<vars, channelVars>>

EndTransfer ==
  /\ matter = "fetch"
  /\ Leave("finalize") \/ Leave("abort")
  /\ UNCHANGED <<vars, channelVars, mBlock>>

(* The header may take several blocks or be bad; the first block that has   *)
(* payload starts the session.  snfOtaMatterStart resets the view's state,  *)
(* then its length.                                                         *)
HandleProcessBlock ==
  /\ matter = "block"
  /\ \/ download.started /\ matter' = "write" /\ UNCHANGED <<view, download>>
     \/ /\ ~download.started
        /\ matter' = "reset"
        /\ StoreState(Matter, "IDLE")
        /\ UNCHANGED download
     \/ ~download.started /\ matter' = "fetch" /\ UNCHANGED <<view, download>>
     \/ ~download.started /\ Leave("abort") /\ UNCHANGED view
  /\ UNCHANGED <<vars, callback, mBlock>>

MatterReset ==
  /\ matter = "reset"
  /\ matter' = "start"
  /\ StoreReceived(Matter, 0)
  /\ UNCHANGED <<vars, callback, download, mBlock>>

MatterStart ==
  /\ matter = "start"
  /\ \/ /\ StartPackage(Matter, download.size)
        /\ matter' = "write"
        /\ download' = [download EXCEPT !.started = TRUE]
     \/ Leave("abort") /\ UNCHANGED vars
  /\ UNCHANGED <<channelVars, mBlock>>

MatterWrite ==
  /\ matter = "write"
  /\ \/ /\ Write(Matter, download.offset, download.block)
        /\ matter' = "wait"
        /\ UNCHANGED download
     \/ ~Accepts(download.offset, download.block) /\ Leave("fail") /\ UNCHANGED vars
  /\ UNCHANGED <<channelVars, mBlock>>

(* The processed length is looked at first, and alone.  The deadline may    *)
(* pass at any time.                                                        *)
MatterWaitWrite ==
  /\ matter = "wait"
  /\ \/ /\ Processed(Matter, download.offset + download.block)
        /\ matter' = "fetch"
        /\ download' = [download EXCEPT !.offset = @ + download.block, !.block = 0]
     \/ Leave("fail")
  /\ UNCHANGED <<vars, channelVars, mBlock>>

(* snfOtaMatterAbort, called from two handlers: a request, then a wait for  *)
(* the end of the session that a deadline cuts: the handler may go on at    *)
(* any time.                                                                *)
AskAbort(from, done) ==
  /\ matter = from
  /\ matter' = done
  /\ \/ Active(Matter) /\ Abort
     \/ (~Active(Matter) \/ ~Aborts) /\ UNCHANGED vars
  /\ UNCHANGED <<channelVars, download, mBlock>>

(* A block that fails ends the download, and the SDK then aborts it.        *)
HandleFailedBlock == AskAbort("fail", "abort")
HandleAbort == AskAbort("abort", "finalize")

ReleaseBlock ==
  /\ matter = "finalize"
  /\ matter' = "idle"
  /\ mBlock' = FALSE
  /\ UNCHANGED <<vars, channelVars, download>>

MatterNext ==
  \/ \E size \in ImageSizes : PrepareDownload(size)
  \/ \E len \in 1 .. MatterBlockSize : ProcessBlock(len)
  \/ EndTransfer \/ HandleProcessBlock \/ MatterReset \/ MatterStart \/ MatterWrite
  \/ MatterWaitWrite \/ HandleFailedBlock \/ HandleAbort \/ ReleaseBlock

MatterTypeOK ==
  matter \in MatterPlaces /\ download \in Download /\ mBlock \in BOOLEAN
=============================================================================
