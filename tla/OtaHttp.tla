------------------------------ MODULE OtaHttp ------------------------------
(***************************************************************************)
(* The upload handler of the HTTP server, sonoff_ota_http.c, running in the *)
(* one task of the server: it starts a session, then repeats receiving a    *)
(* buffer from the socket, lending it to the core and waiting until it has  *)
(* been processed.  The body bytes that came with the request header are    *)
(* lent from the stack, all others from ota_http_data_buffer.               *)
(***************************************************************************)
EXTENDS OtaChannels

CONSTANTS
  HttpBufferSize,   (* SNF_OTA_HTTP_DATA_BUFFER_SIZE                        *)
  HttpBodyRoom      (* what SNF_OTA_HTTP_HEADER_BUFFER_SIZE leaves the body *)

ASSUME HttpAssumption == HttpBufferSize \in Nat \ {0} /\ HttpBodyRoom \in Nat

VARIABLES
  http,       (* where the handler is                                       *)
  upload,     (* image_size, written_size and the chunk being written       *)
  succeeded,  (* the last request was answered "OTA upload success"         *)
  outdated    (* history: the session was started over a length that the    *)
              (* callback of an earlier one stored after the reset          *)

httpVars == <<http, upload, succeeded, outdated>>

HttpPlaces ==
  {"idle", "reset", "start", "receive", "write", "wait", "check", "complete", "fail"}
Upload == [size : Nat, written : Nat, chunk : Nat]
NoUpload == [size |-> 0, written |-> 0, chunk |-> 0]

HttpInit == http = "idle" /\ upload = NoUpload /\ succeeded = FALSE /\ outdated = FALSE

Forget == upload' = NoUpload /\ outdated' = FALSE
Respond(success) == http' = "idle" /\ succeeded' = success /\ Forget

(* otaHttpReceiveImage returns, and its account of the upload is gone. *)
GiveUp == http' = "fail" /\ Forget /\ UNCHANGED succeeded
Continue == UNCHANGED <<upload, succeeded, outdated>>

(* A request with a good header; its body may have begun to arrive.  State  *)
(* and length of the view are reset before the core is asked for a session; *)
(* the callback of an earlier one may come in between, or after both.       *)
HttpRequest(size, body) ==
  /\ http = "idle"
  /\ http' = "reset"
  /\ upload' = [size |-> size, written |-> 0, chunk |-> body]
  /\ succeeded' = FALSE
  /\ StoreState(Http, "RECEIVING")
  /\ UNCHANGED <<vars, callback, outdated>>

HttpReset ==
  /\ http = "reset"
  /\ http' = "start"
  /\ StoreReceived(Http, 0)
  /\ UNCHANGED <<vars, callback, upload, succeeded, outdated>>

HttpStart ==
  /\ http = "start"
  /\ \/ /\ StartPackage(Http, upload.size)
        /\ http' = IF upload.chunk = 0 THEN "receive" ELSE "write"
        /\ outdated' = (view[Http].received > 0)
        /\ UNCHANGED <<upload, succeeded>>
     \/ Respond(FALSE) /\ UNCHANGED vars
  /\ UNCHANGED channelVars

NextChunk ==
  LET left == upload.size - upload.written
  IN  IF left < HttpBufferSize THEN left ELSE HttpBufferSize

(* The peer may send slowly, or close. *)
HttpReceiveBuffer ==
  /\ http = "receive"
  /\ \/ /\ http' = "write"
        /\ upload' = [upload EXCEPT !.chunk = NextChunk]
        /\ UNCHANGED <<succeeded, outdated>>
     \/ GiveUp
  /\ UNCHANGED <<vars, channelVars>>

HttpWriteData ==
  /\ http = "write"
  /\ \/ Write(Http, upload.written, upload.chunk) /\ http' = "wait" /\ Continue
     \/ ~Accepts(upload.written, upload.chunk) /\ GiveUp /\ UNCHANGED vars
  /\ UNCHANGED channelVars

(* The processed length is looked at first, then the state.  A failure or   *)
(* the deadline, which may pass at any time, ends the wait.                 *)
HttpWaitWrite ==
  /\ http = "wait"
  /\ \/ Processed(Http, upload.written + upload.chunk) /\ http' = "check" /\ Continue
     \/ GiveUp
  /\ UNCHANGED <<vars, channelVars>>

HttpWaitCheck ==
  /\ http = "check"
  /\ \/ /\ ~Failed(Http)
        /\ upload' = [upload EXCEPT !.written = @ + upload.chunk, !.chunk = 0]
        /\ http' = IF upload'.written < upload.size THEN "receive" ELSE "complete"
        /\ UNCHANGED <<succeeded, outdated>>
     \/ Failed(Http) /\ GiveUp
  /\ UNCHANGED <<vars, channelVars>>

(* Mutant: the good verdict is taken for the end of the upgrade. *)
HttpWaitForVerdict ==
  /\ http = "complete"
  /\ \/ view[Http].state \in {"VERIFY_SUCCESS", "SUCCESS"} /\ Respond(TRUE)
     \/ view[Http].state # "SUCCESS" /\ GiveUp
  /\ UNCHANGED <<vars, channelVars>>

HttpWaitForComplete ==
  /\ http = "complete"
  /\ \/ view[Http].state = "SUCCESS" /\ Respond(TRUE)
     \/ view[Http].state # "SUCCESS" /\ GiveUp
  /\ UNCHANGED <<vars, channelVars>>

(* otaHttpAbort asks for the end of an active session and then waits for it, *)
(* but not for ever: the answer may follow at any time.                     *)
HttpFail ==
  /\ http = "fail"
  /\ \/ Active(Http) /\ Abort
     \/ (~Active(Http) \/ ~Aborts) /\ UNCHANGED vars
  /\ Respond(FALSE)
  /\ UNCHANGED channelVars

HttpNext ==
  \/ \E size \in ImageSizes : \E body \in 0 .. size :
       body <= HttpBodyRoom /\ HttpRequest(size, body)
  \/ HttpReset \/ HttpStart \/ HttpReceiveBuffer \/ HttpWriteData
  \/ HttpWaitWrite \/ HttpWaitCheck \/ HttpWaitForComplete \/ HttpFail

HttpTypeOK ==
  /\ http \in HttpPlaces
  /\ upload \in Upload
  /\ succeeded \in BOOLEAN /\ outdated \in BOOLEAN
=============================================================================
