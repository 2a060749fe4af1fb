-------------------------- MODULE OtaSystemProofs --------------------------
(***************************************************************************)
(* Proofs about OtaSystem.  Every step of the system is a step of the core  *)
(* or leaves the core alone, so that what OtaCoreProofs proves of the core  *)
(* holds of the system; the invariants that tie the channels to the core    *)
(* are proved on top of it.                                                 *)
(***************************************************************************)
EXTENDS OtaSystem, OtaCoreProofs

(* The sizes the channels work with, by which their calls are the core's.   *)
SizeInv ==
  /\ http \notin {"idle", "fail"} => upload.size \in ImageSizes
  /\ matter \in {"fetch", "block", "reset", "start", "write", "wait"} =>
       download.size \in ImageSizes
  /\ http \in {"reset", "start"} => upload.written = 0
  /\ http = "write" => upload.chunk > 0
  /\ http = "receive" => upload.written < upload.size
  /\ matter \in {"block", "reset", "start", "write"} => download.block > 0

AnyRequest ==
  \E size \in ImageSizes : \E body \in 0 .. size :
    body <= HttpBodyRoom /\ HttpRequest(size, body)
AnyPrepare == \E size \in ImageSizes : PrepareDownload(size)
AnyBlock == \E len \in 1 .. MatterBlockSize : ProcessBlock(len)

LEMMA SystemCases ==
  ASSUME SystemNext
  PROVE  \/ HttpNext /\ UNCHANGED matterVars
         \/ MatterNext /\ UNCHANGED httpVars
         \/ InCallback
         \/ InCore
         \/ PowerCycle /\ ResetChannels
BY DEF SystemNext, SystemWorker, Reboot

-----------------------------------------------------------------------------
(* Types and sizes of the channels. *)

LEMMA SystemInitTyped == ASSUME SystemInit PROVE SystemTypeOK /\ SizeInv
<1>1. view \in [Channels -> View] /\ callback \in CallbackPlaces
  BY DEF SystemInit, ChannelsInit, View, States, CallbackPlaces
<1>2. HttpTypeOK /\ MatterTypeOK
  BY DEF SystemInit, HttpInit, MatterInit, HttpTypeOK, MatterTypeOK, HttpPlaces,
     MatterPlaces, NoUpload, Upload, NoDownload, Download
<1>3. SizeInv
  BY DEF SystemInit, HttpInit, MatterInit, SizeInv
<1> QED BY <1>1, <1>2, <1>3 DEF SystemTypeOK

LEMMA ResetTyped == ASSUME ResetChannels PROVE (SystemTypeOK /\ SizeInv)'
<1>1. view' \in [Channels -> View] /\ callback' \in CallbackPlaces
  BY DEF ResetChannels, View, States, CallbackPlaces
<1>2. HttpTypeOK' /\ MatterTypeOK'
  BY DEF ResetChannels, HttpTypeOK, MatterTypeOK, HttpPlaces,
     MatterPlaces, NoUpload, Upload, NoDownload, Download
<1>3. SizeInv'
  BY DEF ResetChannels, SizeInv
<1> QED BY <1>1, <1>2, <1>3 DEF SystemTypeOK

LEMMA HttpTyped ==
  ASSUME HttpTypeOK, SizeInv, HttpNext, UNCHANGED matterVars
  PROVE  HttpTypeOK' /\ SizeInv'
<1> USE CoreAssumption, HttpAssumption
<1> USE DEF HttpTypeOK, HttpPlaces, Upload, SizeInv, matterVars
<1>a. NoUpload \in Upload /\ NoDownload \in Download
  BY DEF NoUpload, NoDownload, Download
<1>b. ASSUME (\E success \in BOOLEAN : Respond(success)) \/ GiveUp
      PROVE  HttpTypeOK' /\ SizeInv'
  <2>1. http' \in {"idle", "fail"} /\ upload' \in Upload /\ succeeded' \in BOOLEAN
        /\ outdated' \in BOOLEAN
    BY <1>a, <1>b DEF Respond, GiveUp, Forget
  <2> QED BY <2>1
<1>1. CASE AnyRequest
  <2>1. PICK size \in ImageSizes : \E body \in 0 .. size : HttpRequest(size, body)
    BY <1>1 DEF AnyRequest
  <2>2. PICK body \in 0 .. size : HttpRequest(size, body)
    BY <2>1
  <2>3. /\ http' = "reset" /\ succeeded' = FALSE /\ outdated' = outdated
        /\ upload' = [size |-> size, written |-> 0, chunk |-> body]
    BY <2>2 DEF HttpRequest
  <2>4. size \in Nat /\ body \in Nat
    OBVIOUS
  <2> QED BY <2>3, <2>4
<1>2. CASE HttpReset
  BY <1>2 DEF HttpReset
<1>3. CASE HttpStart
  <2>1. CASE Respond(FALSE)
    BY <2>1, <1>b
  <2>2. CASE /\ http' = IF upload.chunk = 0 THEN "receive" ELSE "write"
             /\ outdated' = (view[Http].received > 0)
             /\ UNCHANGED <<upload, succeeded>>
    BY <1>3, <2>2 DEF HttpStart
  <2> QED BY <1>3, <2>1, <2>2 DEF HttpStart
<1>4. CASE HttpReceiveBuffer
  <2>1. CASE GiveUp
    BY <2>1, <1>b
  <2>2. CASE ~GiveUp
    <3>1. NextChunk \in Nat /\ NextChunk > 0
      BY <1>4 DEF HttpReceiveBuffer, NextChunk
    <3> QED BY <1>4, <2>2, <3>1 DEF HttpReceiveBuffer
  <2> QED BY <2>1, <2>2
<1>5. CASE HttpWriteData \/ HttpWaitWrite
  <2>1. CASE GiveUp
    BY <2>1, <1>b
  <2>2. CASE ~GiveUp
    BY <1>5, <2>2 DEF HttpWriteData, HttpWaitWrite, Continue
  <2> QED BY <2>1, <2>2
<1>6. CASE HttpWaitCheck
  <2>1. CASE GiveUp
    BY <2>1, <1>b
  <2>2. CASE /\ upload' = [upload EXCEPT !.written = @ + upload.chunk, !.chunk = 0]
             /\ http' = IF upload'.written < upload.size THEN "receive" ELSE "complete"
             /\ UNCHANGED <<succeeded, outdated>>
    <3>1. upload' = [size |-> upload.size, written |-> upload.written + upload.chunk,
                     chunk |-> 0]
      BY <2>2
    <3> QED BY <1>6, <2>2, <3>1 DEF HttpWaitCheck
  <2> QED BY <1>6, <2>1, <2>2 DEF HttpWaitCheck
<1>7. CASE HttpWaitForComplete \/ HttpFail
  BY <1>7, <1>b DEF HttpWaitForComplete, HttpFail
<1> QED BY <1>1, <1>2, <1>3, <1>4, <1>5, <1>6, <1>7 DEF HttpNext, AnyRequest

LEMMA MatterTyped ==
  ASSUME MatterTypeOK, SizeInv, MatterNext, UNCHANGED httpVars
  PROVE  MatterTypeOK' /\ SizeInv'
<1> USE CoreAssumption, MatterAssumption
<1> USE DEF MatterTypeOK, MatterPlaces, Download, SizeInv, httpVars
<1>a. ASSUME \E place \in {"abort", "finalize", "fail"} : Leave(place), mBlock' \in BOOLEAN
      PROVE  MatterTypeOK' /\ SizeInv'
  BY <1>a DEF Leave, NoDownload
<1>1. CASE AnyPrepare
  <2>1. PICK size \in ImageSizes : PrepareDownload(size)
    BY <1>1 DEF AnyPrepare
  <2>2. /\ matter' = "fetch" /\ mBlock' = mBlock
        /\ download' = [size |-> size, offset |-> 0, block |-> 0, started |-> FALSE]
    BY <2>1 DEF PrepareDownload, NoDownload
  <2> QED BY <2>2
<1>2. CASE AnyBlock
  BY <1>2 DEF AnyBlock, ProcessBlock
<1>3. CASE EndTransfer
  BY <1>3, <1>a DEF EndTransfer
<1>4. CASE HandleProcessBlock \/ MatterReset
  BY <1>4, <1>a DEF HandleProcessBlock, MatterReset
<1>5. CASE MatterStart
  <2>1. CASE Leave("abort")
    BY <1>5, <1>a, <2>1 DEF MatterStart
  <2>2. CASE matter' = "write" /\ download' = [download EXCEPT !.started = TRUE]
    <3>1. download' = [size |-> download.size, block |-> download.block, started |-> TRUE,
                       offset |-> download.offset]
      BY <2>2
    <3>2. matter = "start" /\ mBlock' \in BOOLEAN
      BY <1>5 DEF MatterStart
    <3> QED BY <2>2, <3>1, <3>2
  <2> QED BY <1>5, <2>1, <2>2 DEF MatterStart
<1>6. CASE MatterWrite
  BY <1>6, <1>a DEF MatterWrite
<1>7. CASE MatterWaitWrite
  <2>1. CASE Leave("fail")
    BY <1>7, <1>a, <2>1 DEF MatterWaitWrite
  <2>2. CASE /\ matter' = "fetch"
             /\ download' = [download EXCEPT !.offset = @ + download.block, !.block = 0]
    <3>1. download' = [size |-> download.size, block |-> 0, started |-> download.started,
                       offset |-> download.offset + download.block]
      BY <2>2
    <3>2. mBlock' \in BOOLEAN
      BY <1>7 DEF MatterWaitWrite
    <3> QED BY <1>7, <2>2, <3>1, <3>2 DEF MatterWaitWrite
  <2> QED BY <1>7, <2>1, <2>2 DEF MatterWaitWrite
<1>8. CASE HandleFailedBlock \/ HandleAbort
  BY <1>8 DEF HandleFailedBlock, HandleAbort, AskAbort
<1>9. CASE ReleaseBlock
  BY <1>9 DEF ReleaseBlock
<1> QED BY <1>1, <1>2, <1>3, <1>4, <1>5, <1>6, <1>7, <1>8, <1>9
        DEF MatterNext, AnyPrepare, AnyBlock

(* What a step may do to the views: nothing, or one store of these.         *)
LEMMA ViewTyped ==
  ASSUME TypeOK, view \in [Channels -> View], callback \in CallbackPlaces,
         HttpNext \/ MatterNext \/ InCallback
  PROVE  view' \in [Channels -> View] /\ callback' \in CallbackPlaces
<1> USE ChannelAssumption DEF View, CallbackPlaces
<1>1. \A c \in Channels, s \in States : StoreState(c, s) => view' \in [Channels -> View]
  BY DEF StoreState
<1>2. \A c \in Channels, n \in Nat : StoreReceived(c, n) => view' \in [Channels -> View]
  BY DEF StoreReceived
<1>3. {"IDLE", "RECEIVING", "FAILED"} \subseteq States
  BY DEF States, ActiveStates, FailedStates
<1>4. CASE HttpNext
  <2>1. CASE AnyRequest \/ HttpReset
    BY <1>1, <1>2, <1>3, <2>1 DEF AnyRequest, HttpRequest, HttpReset
  <2>2. CASE ~(AnyRequest \/ HttpReset)
    BY <1>4, <2>2 DEF HttpNext, AnyRequest, HttpStart, HttpReceiveBuffer, HttpWriteData,
       HttpWaitWrite, HttpWaitCheck, HttpWaitForComplete, HttpFail, channelVars
  <2> QED BY <2>1, <2>2
<1>5. CASE MatterNext
  <2>1. CASE HandleProcessBlock \/ MatterReset
    BY <1>1, <1>2, <1>3, <2>1 DEF HandleProcessBlock, MatterReset
  <2>2. CASE ~(HandleProcessBlock \/ MatterReset)
    BY <1>5, <2>2 DEF MatterNext, PrepareDownload, ProcessBlock, EndTransfer, MatterStart,
       MatterWrite, MatterWaitWrite, HandleFailedBlock, HandleAbort, AskAbort,
       ReleaseBlock, channelVars
  <2> QED BY <2>1, <2>2
<1>6. CASE InCallback
  <2>1. ASSUME NEW c \in Channels, EventCallback(c)
        PROVE  view' \in [Channels -> View] /\ callback' \in CallbackPlaces
    BY <1>1, <1>2, <1>3, <2>1 DEF EventCallback, TellState, TellReceived, Submit, TypeOK
  <2>2. CASE Return
    BY <2>2 DEF Return
  <2> QED
    BY <1>6, <2>1, <2>2 DEF InCallback, HttpEventCallback, MatterEventCallback
<1> QED BY <1>4, <1>5, <1>6

LEMMA SystemTypeStep ==
  ASSUME TypeOK, SystemTypeOK, SizeInv, [SystemNext]_systemVars
  PROVE  SystemTypeOK' /\ SizeInv'
<1> USE DEF SystemTypeOK
<1>1. CASE HttpNext /\ UNCHANGED matterVars
  BY <1>1, HttpTyped, ViewTyped DEF matterVars, MatterTypeOK
<1>2. CASE MatterNext /\ UNCHANGED httpVars
  BY <1>2, MatterTyped, ViewTyped DEF httpVars, HttpTypeOK
<1>3. CASE InCallback
  <2>1. UNCHANGED <<httpVars, matterVars>>
    BY <1>3 DEF InCallback
  <2> QED BY <1>3, <2>1, ViewTyped DEF httpVars, matterVars, HttpTypeOK, MatterTypeOK, SizeInv
<1>4. CASE InCore \/ UNCHANGED systemVars
  <2>1. UNCHANGED <<channelVars, httpVars, matterVars>>
    BY <1>4 DEF InCore, systemVars
  <2> QED BY <2>1 DEF channelVars, httpVars, matterVars, HttpTypeOK, MatterTypeOK, SizeInv
<1>5. CASE PowerCycle /\ ResetChannels
  BY <1>5, ResetTyped
<1> QED BY SystemCases, <1>1, <1>2, <1>3, <1>4, <1>5

-----------------------------------------------------------------------------
(* The system uses the core only through its steps. *)

LEMMA StartPackageIsStart ==
  ASSUME NEW c \in Channels, NEW size \in ImageSizes, StartPackage(c, size)
  PROVE  Next
<1>1. PICK layout \in Layouts("PACKAGE", size) : Start(c, "PACKAGE", "NONE", size, layout)
  BY DEF StartPackage
<1> QED BY <1>1 DEF Next, Api

LEMMA HttpUsesCore ==
  ASSUME TypeOK, SystemTypeOK, SizeInv, HttpNext
  PROVE  [Next]_vars
<1> USE ChannelAssumption
<1>1. CASE HttpStart
  BY <1>1, StartPackageIsStart DEF HttpStart, SizeInv
<1>2. CASE HttpWriteData
  <2>1. CASE Write(Http, upload.written, upload.chunk)
    <3>1. upload.written \in 0 .. total /\ upload.chunk \in 1 .. total
      BY <1>2, <2>1 DEF HttpWriteData, Write, InRange, SizeInv, SystemTypeOK,
         HttpTypeOK, Upload, TypeOK
    <3> QED BY <2>1, <3>1 DEF Next, Api
  <2> QED BY <1>2, <2>1 DEF HttpWriteData
<1>3. CASE HttpFail
  BY <1>3 DEF HttpFail, Next, Api
<1>4. CASE ~HttpStart /\ ~HttpWriteData /\ ~HttpFail
  BY <1>4 DEF HttpNext, HttpRequest, HttpReset, HttpReceiveBuffer, HttpWaitWrite,
     HttpWaitCheck, HttpWaitForComplete
<1> QED BY <1>1, <1>2, <1>3, <1>4

LEMMA MatterUsesCore ==
  ASSUME TypeOK, SystemTypeOK, SizeInv, MatterNext
  PROVE  [Next]_vars
<1> USE ChannelAssumption
<1>1. CASE MatterStart
  BY <1>1, StartPackageIsStart DEF MatterStart, SizeInv
<1>2. CASE MatterWrite
  <2>1. CASE Write(Matter, download.offset, download.block)
    <3>1. download.offset \in 0 .. total /\ download.block \in 1 .. total
      BY <1>2, <2>1 DEF MatterWrite, Write, InRange, SizeInv, SystemTypeOK,
         MatterTypeOK, Download, TypeOK
    <3> QED BY <2>1, <3>1 DEF Next, Api
  <2> QED BY <1>2, <2>1 DEF MatterWrite
<1>3. CASE HandleFailedBlock \/ HandleAbort
  BY <1>3 DEF HandleFailedBlock, HandleAbort, AskAbort, Next, Api
<1>4. CASE ~MatterStart /\ ~MatterWrite /\ ~HandleFailedBlock /\ ~HandleAbort
  BY <1>4 DEF MatterNext, PrepareDownload, ProcessBlock, EndTransfer,
     HandleProcessBlock, MatterReset, MatterWaitWrite, ReleaseBlock
<1> QED BY <1>1, <1>2, <1>3, <1>4

LEMMA CallbackUsesCore == ASSUME InCallback PROVE [Next]_vars
BY DEF InCallback, HttpEventCallback, MatterEventCallback, EventCallback, TellState,
   TellReceived, Submit, Return, Next, Worker, Api

LEMMA SystemUsesCore ==
  ASSUME TypeOK, SystemTypeOK, SizeInv, [SystemNext]_systemVars
  PROVE  [Next]_vars
<1>1. CASE InCore
  BY <1>1 DEF InCore, Next, Worker
<1>2. CASE PowerCycle
  BY <1>2 DEF Next
<1>3. CASE UNCHANGED systemVars
  BY <1>3 DEF systemVars
<1> QED
  BY SystemCases, <1>1, <1>2, <1>3, HttpUsesCore, MatterUsesCore, CallbackUsesCore

(* The channels keep their types (sonoff_ota_http.c, sonoff_ota_matter.c),  *)
(* and lend the core pieces of images of the sizes they announced.          *)
THEOREM SystemTypeCorrect == SystemSpec => [](TypeOK /\ SystemTypeOK /\ SizeInv)
<1>1. SystemInit => TypeOK /\ SystemTypeOK /\ SizeInv
  BY SystemInitTyped, TypeInit DEF SystemInit
<1>2. TypeOK /\ SystemTypeOK /\ SizeInv /\ [SystemNext]_systemVars
        => (TypeOK /\ SystemTypeOK /\ SizeInv)'
  BY SystemUsesCore, TypeStep, SystemTypeStep
<1> QED BY <1>1, <1>2, PTL DEF SystemSpec

(* The system's core is the core of OtaCore, so everything proved of that   *)
(* core, its contract included, holds with both channels at work.           *)
THEOREM SystemRunsCore == SystemSpec => Spec
<1>1. SystemInit => Init
  BY DEF SystemInit
<1>2. TypeOK /\ SystemTypeOK /\ SizeInv /\ [SystemNext]_systemVars => [Next]_vars
  BY SystemUsesCore
<1> QED BY <1>1, <1>2, SystemTypeCorrect, PTL DEF SystemSpec, Spec

-----------------------------------------------------------------------------
(* A verified session never waits for nothing. *)

CallbackInv ==
  /\ callback # "out" => task = "notify"
  /\ callback \in {"apply", "return"} => state = "VERIFY_SUCCESS"
  /\ callback = "return" => evq # << >>
  /\ VerifiedIsDriven

LEMMA SendFills == ASSUME TypeOK, NEW e, Send(e) PROVE evq' # << >>
<1>1. evq' = Append(evq, e) /\ Len(evq) \in Nat
  BY DEF Send, TypeOK
<1>2. DOMAIN Append(evq, e) = 1 .. Len(evq) + 1 /\ DOMAIN << >> = 1 .. 0
  BY DEF TypeOK
<1> QED BY <1>1, <1>2

(* The channels' own steps take nothing out of the queue, and neither end   *)
(* a notification nor change the state of a session that exists.            *)
LEMMA ChannelsAddOnly ==
  ASSUME TypeOK, HttpNext \/ MatterNext
  PROVE  /\ callback' = callback /\ bootFlag' = bootFlag
         /\ task # "none" => task' = task /\ state' = state
         /\ task = "none" => (task' = "receive" /\ state' = "RECEIVING")
                               \/ (task' = task /\ state' = state)
         /\ evq # << >> => evq' # << >>
<1> USE DEF channelVars
<1>1. CASE UNCHANGED vars
  BY <1>1
  DEF vars, sessionVars, HttpNext, HttpRequest, HttpReset, HttpStart, HttpReceiveBuffer,
      HttpWriteData, HttpWaitWrite, HttpWaitCheck, HttpWaitForComplete, HttpFail,
      MatterNext, PrepareDownload, ProcessBlock, EndTransfer, HandleProcessBlock,
      MatterReset, MatterStart, MatterWrite, MatterWaitWrite, HandleFailedBlock,
      HandleAbort, AskAbort, ReleaseBlock
<1>2. CASE \/ HttpStart /\ StartPackage(Http, upload.size)
           \/ MatterStart /\ StartPackage(Matter, download.size)
  BY <1>2 DEF HttpStart, MatterStart, StartPackage, Start
<1>3. CASE \/ HttpWriteData /\ Write(Http, upload.written, upload.chunk)
           \/ MatterWrite /\ Write(Matter, download.offset, download.block)
  <2>1. callback' = callback /\ bootFlag' = bootFlag /\ task # "none" /\ task' = task /\ state' = state
    BY <1>3 DEF HttpWriteData, MatterWrite, Write
  <2>3. evq' # << >>
    BY <1>3, SendFills DEF HttpWriteData, MatterWrite, Write
  <2> QED BY <2>1, <2>3
<1>4. CASE (HttpFail \/ HandleFailedBlock \/ HandleAbort) /\ Abort
  <2>1. callback' = callback /\ bootFlag' = bootFlag /\ task # "none" /\ task' = task /\ state' = state
    BY <1>4 DEF HttpFail, HandleFailedBlock, HandleAbort, AskAbort, Abort,
       sessionVars
  <2>3. evq' # << >>
    BY <1>4, SendFills DEF Abort
  <2> QED BY <2>1, <2>3
<1> QED
  BY <1>1, <1>2, <1>3, <1>4
  DEF HttpNext, HttpRequest, HttpReset, HttpStart, HttpReceiveBuffer,
      HttpWriteData, HttpWaitWrite, HttpWaitCheck, HttpWaitForComplete, HttpFail,
      MatterNext, PrepareDownload, ProcessBlock, EndTransfer, HandleProcessBlock,
      MatterReset, MatterStart, MatterWrite, MatterWaitWrite, HandleFailedBlock,
      HandleAbort, AskAbort, ReleaseBlock

LEMMA CallbackInvStep ==
  ASSUME TypeOK, CoreInv, CallbackInv, [SystemNext]_systemVars
  PROVE  CallbackInv'
<1> USE DEF CallbackInv, VerifiedIsDriven
<1>1. CASE HttpNext \/ MatterNext
  BY <1>1, ChannelsAddOnly DEF CoreInv, PlaceInv
<1>2. CASE InCallback
  <2>1. ASSUME NEW c \in Channels, TellState(c) \/ TellReceived(c)
        PROVE  CallbackInv'
    <3>1. CASE TellState(c)
      BY <3>1 DEF TellState, vars, sessionVars
    <3>2. CASE TellReceived(c) /\ state = "VERIFY_SUCCESS"
      BY <3>2 DEF TellReceived, vars, sessionVars
    <3>3. CASE TellReceived(c) /\ state # "VERIFY_SUCCESS"
      BY <3>3 DEF TellReceived, Callback
    <3> QED BY <2>1, <3>1, <3>2, <3>3
  <2>2. ASSUME NEW c \in Channels, Submit(c)
        PROVE  CallbackInv'
    <3>1. CASE Apply
      <4>1. UNCHANGED <<task, state>>
        BY <3>1 DEF Apply, sessionVars
      <4>2. evq' # << >>
        BY <3>1, SendFills DEF Apply
      <4> QED BY <2>2, <4>1, <4>2 DEF Submit
    <3>2. CASE Len(evq) = QueueLength /\ UNCHANGED vars
      <4>1. evq # << >>
        BY <3>2, CoreAssumption DEF TypeOK
      <4> QED BY <2>2, <3>2, <4>1 DEF Submit, vars, sessionVars
    <3> QED BY <2>2, <3>1, <3>2 DEF Submit
  <2>3. ASSUME Return
        PROVE  CallbackInv'
    BY <2>3 DEF Return, Callback
  <2> QED
    BY <1>2, <2>1, <2>2, <2>3, ChannelAssumption
    DEF InCallback, HttpEventCallback, MatterEventCallback, EventCallback
<1>3. CASE InCore
  <2>1. UNCHANGED callback
    BY <1>3 DEF InCore, channelVars
  <2>2. CASE ReceiveTimeout \/ HandleTimeout
    BY <2>1, <2>2 DEF ReceiveTimeout, HandleTimeout, Resume, Notify, sessionVars
  <2>3. CASE Receive
    <3>1. task = "receive" /\ event' = evq[1] /\ 1 \in 1 .. Len(evq)
      BY <2>3, QueueTail DEF Receive
    <3>2. TakeData => state = "RECEIVING" \/ state' = "FAILED"
      BY DEF TakeData, Acceptable, Notify
    <3> QED
      BY <2>1, <2>3, <3>1, <3>2 DEF Receive, TakeData, TakeApply, TakeAbort, Notify
  <2>4. CASE Data
    <3>1. task = "data" /\ task' \in {"data", "notify"}
      BY <2>4 DEF Data, Parse, ParseFails, EraseSector, WriteFlash, FlashFails, DataDone,
         Notify, Verdicts
    <3> QED BY <2>1, <3>1
  <2>5. CASE SetBootPartition
    BY <2>1, <2>5 DEF SetBootPartition, Notify
  <2>6. CASE Exit
    BY <2>1, <2>6 DEF Exit, ClearedSession
  <2> QED BY <1>3, <2>2, <2>3, <2>4, <2>5, <2>6 DEF InCore
<1>4. CASE PowerCycle /\ ResetChannels
  BY <1>4 DEF PowerCycle, ClearedSession, ResetChannels
<1>5. CASE UNCHANGED systemVars
  BY <1>5 DEF systemVars, vars, sessionVars, channelVars
<1> QED BY SystemCases, <1>1, <1>2, <1>3, <1>4, <1>5

(* A verified image is never left waiting: otaHttpEventCallback and         *)
(* otaMatterEventCallback submit it, or what filled the queue ends it.      *)
THEOREM VerifiedMovesOn == SystemSpec => []VerifiedIsDriven
<1>1. SystemInit => CallbackInv
  BY DEF SystemInit, Init, ChannelsInit, CallbackInv, VerifiedIsDriven
<1>2. TypeOK /\ CoreInv /\ CallbackInv /\ [SystemNext]_systemVars => CallbackInv'
  BY CallbackInvStep
<1>3. CallbackInv => VerifiedIsDriven
  BY DEF CallbackInv
<1> QED
  BY <1>1, <1>2, <1>3, SystemRunsCore, CoreInvariant, TypeCorrect, PTL DEF SystemSpec

-----------------------------------------------------------------------------
(* A success is only answered for an upgrade that will be installed. *)

SuccessInv ==
  /\ state = "SUCCESS" => bootFlag
  /\ view[Http].state = "SUCCESS" => bootFlag
  /\ SuccessIsCommitted

LEMMA HttpViewKept ==
  ASSUME SystemTypeOK, MatterNext
  PROVE  view'[Http] = view[Http]
<1>1. CASE HandleProcessBlock \/ MatterReset
  BY <1>1, ChannelAssumption DEF HandleProcessBlock, MatterReset, StoreState,
     StoreReceived, SystemTypeOK
<1>2. CASE UNCHANGED view
  BY <1>2
<1> QED
  BY <1>1, <1>2 DEF MatterNext, PrepareDownload, ProcessBlock, EndTransfer, MatterStart,
     MatterWrite, MatterWaitWrite, HandleFailedBlock, HandleAbort, AskAbort,
     ReleaseBlock, channelVars

LEMMA HttpSuccess ==
  ASSUME SystemTypeOK, HttpNext, UNCHANGED bootFlag, SuccessInv
  PROVE  (view'[Http].state = "SUCCESS" => bootFlag') /\ (succeeded' => bootFlag')
<1> USE ChannelAssumption DEF SuccessInv, SuccessIsCommitted, SystemTypeOK
<1>1. CASE AnyRequest \/ HttpReset
  BY <1>1 DEF AnyRequest, HttpRequest, HttpReset, StoreState, StoreReceived, View
<1>2. CASE HttpWaitForComplete
  BY <1>2 DEF HttpWaitForComplete, Respond, GiveUp, channelVars
<1>3. CASE UNCHANGED view /\ (UNCHANGED succeeded \/ succeeded' = FALSE)
  BY <1>3
<1> QED
  BY <1>1, <1>2, <1>3 DEF HttpNext, AnyRequest, HttpStart, HttpReceiveBuffer, HttpWriteData,
     HttpWaitWrite, HttpWaitCheck, HttpFail, Respond, GiveUp, Continue, channelVars

LEMMA CallbackSuccess ==
  ASSUME SystemTypeOK, InCallback, SuccessInv
  PROVE  SuccessInv'
<1> USE ChannelAssumption DEF SuccessInv, SuccessIsCommitted, SystemTypeOK
<1>1. UNCHANGED <<state, bootFlag, succeeded>>
  BY DEF InCallback, HttpEventCallback, MatterEventCallback, EventCallback, TellState,
     TellReceived, Submit, Return, Callback, Apply, vars, sessionVars, httpVars
<1>2. \/ UNCHANGED view
      \/ \E c \in Channels : StoreState(c, state) \/ StoreReceived(c, received)
      \/ \E c \in Channels : StoreState(c, "FAILED")
  BY DEF InCallback, HttpEventCallback, MatterEventCallback, EventCallback, TellState,
     TellReceived, Submit, Return
<1>3. view'[Http].state \in {view[Http].state, state, "FAILED"}
  <2>1. CASE UNCHANGED view
    BY <2>1
  <2>2. CASE ~UNCHANGED view
    BY <1>2, <2>2 DEF StoreState, StoreReceived, View
  <2> QED BY <2>1, <2>2
<1> QED BY <1>1, <1>3

(* Only the worker sets the state of success, and the flag with it.         *)
LEMMA CoreSuccess ==
  ASSUME CoreInv, InCore
  PROVE  (bootFlag => bootFlag') /\ (state' = "SUCCESS" => bootFlag' \/ state = "SUCCESS")
<1>1. CASE SetBootPartition
  BY <1>1 DEF SetBootPartition, Notify, CoreInv, PlaceInv, CountInv
<1>2. CASE Receive
  BY <1>2 DEF Receive, TakeData, TakeApply, TakeAbort, Notify
<1>3. CASE Data
  BY <1>3 DEF Data, Parse, ParseFails, EraseSector, WriteFlash, FlashFails, DataDone,
     Notify, Verdicts, sessionVars
<1>4. CASE ReceiveTimeout \/ HandleTimeout \/ Exit
  BY <1>4 DEF ReceiveTimeout, HandleTimeout, Resume, Notify, Exit, ClearedSession,
     sessionVars
<1> QED BY <1>1, <1>2, <1>3, <1>4 DEF InCore

LEMMA SuccessInvStep ==
  ASSUME TypeOK, CoreInv, SystemTypeOK, SuccessInv, [SystemNext]_systemVars
  PROVE  SuccessInv'
<1> USE DEF SuccessInv, SuccessIsCommitted
<1>1. CASE HttpNext
  BY <1>1, HttpSuccess, ChannelsAddOnly DEF CoreInv, PlaceInv
<1>2. CASE MatterNext /\ UNCHANGED httpVars
  BY <1>2, HttpViewKept, ChannelsAddOnly DEF httpVars, CoreInv, PlaceInv
<1>3. CASE InCallback
  BY <1>3, CallbackSuccess
<1>4. CASE InCore
  BY <1>4, CoreSuccess DEF InCore, channelVars, httpVars
<1>5. CASE PowerCycle /\ ResetChannels
  BY <1>5, ChannelAssumption DEF PowerCycle, ClearedSession, ResetChannels
<1>6. CASE UNCHANGED systemVars
  BY <1>6 DEF systemVars, vars, sessionVars, channelVars, httpVars
<1> QED BY SystemCases, <1>1, <1>2, <1>3, <1>4, <1>5, <1>6

(* snfOtaHttpHandleUpload answers "OTA upload success" only for an upgrade  *)
(* the boot loader has been asked for.                                      *)
THEOREM SuccessIsHonest == SystemSpec => []SuccessIsCommitted
<1>1. SystemInit => SuccessInv
  BY ChannelAssumption
  DEF SystemInit, Init, ChannelsInit, HttpInit, SuccessInv, SuccessIsCommitted
<1>2. TypeOK /\ SystemTypeOK /\ CoreInv /\ SuccessInv /\ [SystemNext]_systemVars
        => SuccessInv'
  BY SuccessInvStep
<1>3. SuccessInv => SuccessIsCommitted
  BY DEF SuccessInv
<1> QED
  BY <1>1, <1>2, <1>3, SystemRunsCore, SystemTypeCorrect, CoreInvariant, PTL DEF SystemSpec
-----------------------------------------------------------------------------
(* What the socket fills the core does not read. *)

(* Data that came from the handler and that the worker will still read ends *)
(* at n at the latest; with n = 0 there is none.                            *)
LentUpTo(n) ==
  state = "RECEIVING" =>
    /\ task = "data" /\ event.owner = Http => EndOf(event) <= n
    /\ \A i \in 1 .. Len(evq) : DataAt(i) /\ evq[i].owner = Http => EndOf(evq[i]) <= n

(* The handler lends one chunk at a time.                                   *)
LentInv ==
  ~outdated =>
    /\ http \in {"receive", "write"} => LentUpTo(0)
    /\ http \in {"wait", "check"} => LentUpTo(upload.written + upload.chunk)

Uploading == {"receive", "write", "wait", "check"}
OwnSession == config.channel = Http /\ task # "none"

(* While the handler uploads over a view that its reset had cleared, the    *)
(* length in it is its own session's, and without a failure in it that      *)
(* session is still there: whoever ends a session tells of it first.        *)
HttpViewInv ==
  http \in Uploading /\ ~outdated =>
    /\ OwnSession => view[Http].received <= received
    /\ OwnSession /\ http = "check" => upload.written + upload.chunk <= received
    /\ ~Failed(Http) => OwnSession
    /\ /\ config.channel = Http
       /\ task = "exit" \/ (callback = "size" /\ state \in FailedStates)
       => Failed(Http)

LEMMA NothingLent ==
  ASSUME TypeOK, CoreInv, NEW n \in Nat, LentUpTo(n), n <= received
  PROVE  ~Borrowed(Http)
<1> SUFFICES ASSUME state = "RECEIVING"
             PROVE  ~Borrowed(Http)
  BY DEF Borrowed
<1>1. ~(task = "data" /\ event.owner = Http)
  BY DEF LentUpTo, CoreInv, PlaceInv, EndOf, TypeOK, Event
<1>2. ASSUME NEW i \in 1 .. Len(evq), DataAt(i), evq[i].owner = Http
      PROVE  FALSE
  <2>1. evq[i] \in Event /\ evq[i].size > 0 /\ Consumed <= evq[i].offset
    BY <1>2, QueuedEvents DEF CoreInv, StreamInv
  <2>2. received <= Consumed
    BY DEF Consumed, CoreInv, PlaceInv, EndOf, TypeOK, Event
  <2>3. EndOf(evq[i]) <= n
    BY <1>2 DEF LentUpTo
  <2>4. received \in Nat /\ Consumed \in Nat /\ evq[i].offset \in Nat /\ evq[i].size \in Nat
    BY <2>1 DEF Consumed, EndOf, TypeOK, Event
  <2> QED
    BY <2>1, <2>2, <2>3, <2>4 DEF EndOf
<1> QED
  BY <1>1, <1>2 DEF Borrowed

LEMMA LentNothing == ASSUME ~Borrowed(Http) PROVE LentUpTo(0)
  BY DEF Borrowed, LentUpTo

(* Only the handler lends the handler's data.                               *)
LEMMA LentKept ==
  ASSUME TypeOK, NEW n \in Nat, LentUpTo(n), UNCHANGED <<state, event, task>>,
         evq' = evq \/ \E e \in Event : Send(e) /\ ~(e.id = "DATA" /\ e.owner = Http)
  PROVE  LentUpTo(n)'
<1>1. CASE evq' = evq
  BY <1>1 DEF LentUpTo, DataAt, EndOf
<1>2. CASE \E e \in Event : Send(e) /\ ~(e.id = "DATA" /\ e.owner = Http)
  <2>1. PICK e \in Event : Send(e) /\ ~(e.id = "DATA" /\ e.owner = Http)
    BY <1>2
  <2>2. /\ Len(evq') = Len(evq) + 1 /\ Len(evq) \in Nat
        /\ \A i \in 1 .. Len(evq) : evq'[i] = evq[i]
        /\ evq'[Len(evq) + 1] = e
    BY <2>1, QueueAppend, QueuedEvents
  <2> QED
    BY <2>1, <2>2 DEF LentUpTo, DataAt, EndOf
<1> QED
  BY <1>1, <1>2

LEMMA LentByWorker ==
  ASSUME TypeOK, CoreInv, NEW n \in Nat, LentUpTo(n), InCore \/ Callback
  PROVE  LentUpTo(n)'
<1>1. CASE ReceiveTimeout \/ HandleTimeout \/ Parse \/ EraseSector \/ WriteFlash \/ Callback
  <2>1. evq' = evq /\ state' \in {state, "FAILED"}
        /\ (task' = "data" => task = "data" /\ event' = event)
    BY <1>1 DEF ReceiveTimeout, HandleTimeout, Resume, Notify, Parse, EraseSector,
       WriteFlash, Callback, sessionVars, TypeOK, TaskPlaces
  <2> QED
    BY <2>1 DEF LentUpTo, DataAt, EndOf
<1>2. CASE DataDone
  <2>1. evq' = evq /\ task = "data" /\ task' = "notify"
    BY <1>2 DEF DataDone, Notify, Verdicts
  <2>2. state = "RECEIVING"
    BY <2>1 DEF CoreInv, PlaceInv
  <2> QED
    BY <2>1, <2>2 DEF LentUpTo, DataAt, EndOf
<1>3. CASE ParseFails \/ FlashFails \/ SetBootPartition \/ Exit
  <2>1. state' # "RECEIVING"
    BY <1>3 DEF ParseFails, FlashFails, SetBootPartition, Exit, ClearedSession, Notify
  <2> QED
    BY <2>1 DEF LentUpTo
<1>4. CASE Receive
  <2> SUFFICES ASSUME state' = "RECEIVING"
               PROVE  LentUpTo(n)'
    BY DEF LentUpTo
  <2>1. task' = "data" /\ state = "RECEIVING" /\ event'.id = "DATA"
    BY <1>4 DEF Receive, TakeData, TakeApply, TakeAbort, Notify, Acceptable
  <2>2. /\ event' = evq[1] /\ 1 \in 1 .. Len(evq)
        /\ Len(evq') = Len(evq) - 1 /\ Len(evq) \in Nat
        /\ \A i \in 1 .. Len(evq') : evq'[i] = evq[i + 1]
    BY <1>4, QueueTail DEF Receive
  <2> QED
    BY <2>1, <2>2 DEF LentUpTo, DataAt, EndOf
<1> QED
  BY <1>1, <1>2, <1>3, <1>4 DEF InCore, Data

LEMMA LentByCallback ==
  ASSUME TypeOK, CoreInv, NEW n \in Nat, LentUpTo(n), InCallback
  PROVE  LentUpTo(n)'
<1>1. CASE UNCHANGED vars
  BY <1>1, LentKept DEF vars, sessionVars
<1>2. CASE Apply
  BY <1>2, LentKept, NullEvents DEF Apply, sessionVars, Request, NoEvent
<1>3. CASE Callback
  BY <1>3, LentByWorker
<1> QED
  BY <1>1, <1>2, <1>3
  DEF InCallback, HttpEventCallback, MatterEventCallback, EventCallback, TellState,
      TellReceived, Submit, Return

LEMMA LentByMatter ==
  ASSUME TypeOK, CoreInv, SystemTypeOK, SizeInv, NEW n \in Nat, LentUpTo(n), MatterNext
  PROVE  LentUpTo(n)'
<1>1. CASE UNCHANGED vars
  BY <1>1, LentKept DEF vars, sessionVars
<1>2. CASE StartPackage(Matter, download.size)
  <2>1. task' = "receive" /\ evq' = evq /\ evq = << >>
    BY <1>2 DEF StartPackage, Start, CoreInv, PlaceInv
  <2> QED
    BY <2>1 DEF LentUpTo
<1>3. CASE Write(Matter, download.offset, download.block)
  <2> DEFINE e == [id |-> "DATA", offset |-> download.offset, size |-> download.block,
                   owner |-> Matter]
  <2>1. e \in Event /\ e.owner # Http
    BY ChannelAssumption DEF SystemTypeOK, MatterTypeOK, Download, Event
  <2>2. Send(e) /\ UNCHANGED <<state, event, task>>
    BY <1>3 DEF Write
  <2> QED
    BY <2>1, <2>2, LentKept
<1>4. CASE Abort
  BY <1>4, LentKept, NullEvents DEF Abort, sessionVars, Request, NoEvent
<1> QED
  BY <1>1, <1>2, <1>3, <1>4
  DEF MatterNext, PrepareDownload, ProcessBlock, EndTransfer, HandleProcessBlock,
      MatterReset, MatterStart, MatterWrite, MatterWaitWrite, HandleFailedBlock,
      HandleAbort, AskAbort, ReleaseBlock

(* The handler lends its next chunk when the worker has done with the last. *)
LEMMA LentByHttp ==
  ASSUME TypeOK, CoreInv, SystemTypeOK, SizeInv, LentInv, HttpViewInv, HttpNext
  PROVE  LentInv'
<1> USE ChannelAssumption DEF SystemTypeOK
<1>a. CASE outdated' \/ http' \notin Uploading
  BY <1>a DEF LentInv, Uploading
<1> SUFFICES ASSUME ~outdated', http' \in Uploading
             PROVE  LentInv'
  BY <1>a DEF HttpTypeOK
<1>1. CASE AnyRequest \/ HttpReset \/ HttpWaitForComplete \/ HttpFail
  BY <1>1 DEF AnyRequest, HttpRequest, HttpReset, HttpWaitForComplete, HttpFail,
     Respond, GiveUp, Uploading
<1>2. CASE HttpStart
  <2>1. StartPackage(Http, upload.size) /\ http' \in {"receive", "write"}
    BY <1>2 DEF HttpStart, Respond, Uploading
  <2>2. task' = "receive" /\ evq' = evq /\ evq = << >>
    BY <2>1 DEF StartPackage, Start, CoreInv, PlaceInv
  <2> QED
    BY <2>1, <2>2 DEF LentInv, LentUpTo
<1>3. CASE HttpReceiveBuffer
  <2>1. http' = "write" /\ ~outdated /\ http = "receive" /\ UNCHANGED vars
    BY <1>3 DEF HttpReceiveBuffer, GiveUp, Uploading
  <2>2. LentUpTo(0)'
    BY <2>1, LentKept DEF LentInv, vars, sessionVars
  <2> QED
    BY <2>1, <2>2 DEF LentInv
<1>4. CASE HttpWriteData
  <2>a. http' = "wait" /\ Continue /\ Write(Http, upload.written, upload.chunk)
    BY <1>4 DEF HttpWriteData, GiveUp, Uploading
  <2>1. LentUpTo(0) /\ UNCHANGED upload
    BY <1>4, <2>a DEF HttpWriteData, Continue, LentInv
  <2>2. Write(Http, upload.written, upload.chunk)
    BY <2>a
  <2>3. upload.written \in Nat /\ upload.chunk \in Nat
    BY DEF HttpTypeOK, Upload
  <2> DEFINE e == [id |-> "DATA", offset |-> upload.written, size |-> upload.chunk,
                   owner |-> Http]
  <2>4. /\ Len(evq') = Len(evq) + 1 /\ Len(evq) \in Nat
        /\ \A i \in 1 .. Len(evq) : evq'[i] = evq[i]
        /\ evq'[Len(evq) + 1] = e
        /\ UNCHANGED <<state, task, event>>
    <3>1. e \in Event /\ Send(e)
      BY <2>2, <2>3 DEF Write, Event
    <3> QED
      BY <2>2, <3>1, QueueAppend, QueuedEvents DEF Write
  <2>5. ~Borrowed(Http)
    BY <2>1, NothingLent DEF TypeOK
  <2>6. state' = "RECEIVING" =>
          /\ ~(task' = "data" /\ event'.owner = Http)
          /\ \A i \in 1 .. Len(evq) : ~(evq[i].id = "DATA" /\ evq[i].owner = Http)
    BY <2>4, <2>5 DEF Borrowed, DataAt
  <2>7. EndOf(e) = upload.written + upload.chunk
    BY DEF EndOf
  <2>8. ASSUME state' = "RECEIVING", NEW i \in 1 .. Len(evq'),
               evq'[i].id = "DATA", evq'[i].owner = Http
        PROVE  EndOf(evq'[i]) <= upload.written + upload.chunk
    <3>1. i = Len(evq) + 1
      BY <2>4, <2>6, <2>8
    <3>2. evq'[i] = e
      BY <2>4, <3>1
    <3> QED
      BY <2>3, <2>7, <3>2
  <2> QED
    BY <2>a, <2>1, <2>6, <2>8 DEF LentInv, LentUpTo, DataAt, EndOf
<1>5. CASE HttpWaitWrite
  <2>1. PICK n \in Nat : n = upload.written + upload.chunk
    BY DEF HttpTypeOK, Upload
  <2>2. http' = "check" /\ UNCHANGED <<vars, upload>> /\ ~outdated /\ http = "wait"
    BY <1>5 DEF HttpWaitWrite, GiveUp, Continue, Uploading
  <2>3. LentUpTo(n)
    BY <2>1, <2>2 DEF LentInv
  <2>4. LentUpTo(n)'
    BY <2>2, <2>3, LentKept DEF vars, sessionVars
  <2>5. n = upload'.written + upload'.chunk
    BY <2>1, <2>2
  <2> QED
    BY <2>2, <2>4, <2>5 DEF LentInv, LentUpTo
<1>6. CASE HttpWaitCheck
  <2>1. PICK n \in Nat : n = upload.written + upload.chunk
    BY DEF HttpTypeOK, Upload
  <2>2. /\ http = "check" /\ ~Failed(Http) /\ ~outdated /\ UNCHANGED vars
        /\ http' \in {"receive", "complete"}
    BY <1>6 DEF HttpWaitCheck, GiveUp, Uploading
  <2>3. LentUpTo(n)
    BY <2>1, <2>2 DEF LentInv
  <2>4. n <= received
    BY <2>1, <2>2 DEF HttpViewInv, Uploading
  <2>5. LentUpTo(0)
    BY <2>3, <2>4, NothingLent, LentNothing
  <2>6. LentUpTo(0)'
    BY <2>2, <2>5, LentKept DEF vars, sessionVars
  <2> QED
    BY <2>2, <2>6 DEF LentInv
<1> QED
  BY <1>1, <1>2, <1>3, <1>4, <1>5, <1>6 DEF HttpNext, AnyRequest

LEMMA LentStep ==
  ASSUME TypeOK, CoreInv, SystemTypeOK, SizeInv, LentInv, HttpViewInv,
         [SystemNext]_systemVars
  PROVE  LentInv'
<1>1. CASE HttpNext
  BY <1>1, LentByHttp
<1>2. CASE PowerCycle /\ ResetChannels
  BY <1>2 DEF ResetChannels, LentInv
<1>3. CASE ~HttpNext /\ ~(PowerCycle /\ ResetChannels)
  <2>1. UNCHANGED httpVars
    BY <1>3, SystemCases DEF InCallback, InCore, systemVars
  <2>2. ASSUME NEW n \in Nat, LentUpTo(n)
        PROVE  LentUpTo(n)'
    <3>1. CASE UNCHANGED systemVars
      BY <2>2, <3>1, LentKept DEF systemVars, vars, sessionVars
    <3> QED
      BY <1>3, <2>2, <3>1, SystemCases, LentByMatter, LentByCallback, LentByWorker
  <2>3. CASE http \in {"receive", "write"}
    BY <2>1, <2>2, <2>3 DEF LentInv, httpVars
  <2>4. CASE http \in {"wait", "check"} /\ ~outdated
    <3>1. PICK n \in Nat : n = upload.written + upload.chunk
      BY DEF SystemTypeOK, HttpTypeOK, Upload
    <3>2. LentUpTo(n)'
      BY <2>2, <2>4, <3>1 DEF LentInv
    <3>3. n = upload'.written + upload'.chunk /\ http' = http /\ outdated' = outdated
      BY <2>1, <2>4, <3>1 DEF httpVars
    <3> QED
      BY <2>4, <3>2, <3>3 DEF LentInv, LentUpTo
  <2> QED
    BY <2>1, <2>3, <2>4 DEF LentInv, httpVars
<1> QED
  BY <1>1, <1>2, <1>3

LEMMA HttpViewByCallback ==
  ASSUME TypeOK, CoreInv, SystemTypeOK, CallbackInv, HttpViewInv, InCallback
  PROVE  HttpViewInv'
<1>1. task = "notify" /\ UNCHANGED <<config, received, state, httpVars>>
  BY DEF InCallback, HttpEventCallback, MatterEventCallback, EventCallback, TellState,
     TellReceived, Submit, Return, Callback, Apply, vars, sessionVars, CallbackInv
<1>2. \/ task' \in {"notify", "receive", "boot", "reboot"}
      \/ task' = "exit" /\ state \in FailedStates /\ callback = "size"
  <2>1. state # "IDLE"
    BY <1>1 DEF CoreInv, PlaceInv
  <2>2. CASE UNCHANGED task
    BY <1>1, <2>2
  <2>3. CASE Callback /\ callback = "size"
    BY <2>1, <2>3 DEF Callback, TypeOK, States, ActiveStates
  <2>4. CASE Return
    BY <2>4 DEF Return, Callback, CallbackInv
  <2> QED
    BY <2>2, <2>3, <2>4 DEF InCallback, HttpEventCallback, MatterEventCallback,
       EventCallback, TellState, TellReceived, Submit, Apply, vars
<1> SUFFICES ASSUME http \in Uploading, ~outdated
             PROVE  HttpViewInv'
  BY <1>1 DEF HttpViewInv, httpVars
<1>3. /\ OwnSession => view[Http].received <= received
      /\ OwnSession /\ http = "check" => upload.written + upload.chunk <= received
      /\ ~Failed(Http) => OwnSession
      /\ config.channel = Http /\ callback = "size" /\ state \in FailedStates
           => Failed(Http)
  BY DEF HttpViewInv
<1>4. /\ http' = http /\ upload' = upload /\ (OwnSession' <=> OwnSession)
      /\ (OwnSession <=> config.channel = Http)
  BY <1>1, <1>2 DEF httpVars, OwnSession
<1> USE ChannelAssumption DEF SystemTypeOK, View, Failed
<1>5. CASE TellState(Http)
  <2>1. /\ config.channel = Http /\ task' = task
        /\ view'[Http].state = state /\ view'[Http].received = view[Http].received
    BY <1>5 DEF TellState, StoreState, vars
  <2> QED
    BY <1>1, <1>3, <1>4, <2>1 DEF HttpViewInv
<1>6. CASE TellReceived(Http)
  <2>1. /\ config.channel = Http /\ callback = "size" /\ callback' # "size"
        /\ view'[Http].state = view[Http].state /\ view'[Http].received = received
    BY <1>6 DEF TellReceived, StoreReceived
  <2>2. received \in Nat
    BY DEF TypeOK
  <2> QED
    BY <1>1, <1>2, <1>3, <1>4, <2>1, <2>2 DEF HttpViewInv
<1>7. CASE TellState(Matter) \/ TellReceived(Matter)
  <2>1. config.channel = Matter /\ view'[Http] = view[Http]
    BY <1>7 DEF TellState, TellReceived, StoreState, StoreReceived
  <2> QED
    BY <1>1, <1>3, <1>4, <2>1 DEF HttpViewInv
<1>8. CASE Submit(Http) \/ Submit(Matter) \/ Return
  <2>1. /\ view'[Http].received = view[Http].received
        /\ view'[Http].state \in {view[Http].state, "FAILED"}
    BY <1>8 DEF Submit, Return, StoreState
  <2>2. callback' # "size" /\ callback # "size"
    BY <1>8 DEF Submit, Return
  <2> QED
    BY <1>1, <1>2, <1>3, <1>4, <2>1, <2>2 DEF HttpViewInv, FailedStates
<1> QED
  BY <1>5, <1>6, <1>7, <1>8 DEF InCallback, HttpEventCallback, MatterEventCallback,
     EventCallback

LEMMA HttpViewByCore ==
  ASSUME TypeOK, CoreInv, SystemTypeOK, CallbackInv, HttpViewInv, InCore
  PROVE  HttpViewInv'
<1> USE DEF Failed
<1>1. UNCHANGED <<view, callback, http, upload, outdated>>
  BY DEF InCore, channelVars, httpVars
<1>2. CASE Exit
  <2>1. task' = "none" /\ task = "exit" /\ config'.channel = NoChannel
    BY <1>2 DEF Exit, ClearedSession, ZeroConfig
  <2>2. http \in Uploading /\ ~outdated => Failed(Http)
    BY <2>1 DEF HttpViewInv, OwnSession
  <2>3. Http # NoChannel
    BY ChannelAssumption, CoreAssumption
  <2> QED
    BY <1>1, <2>1, <2>2, <2>3 DEF HttpViewInv, OwnSession
<1>3. CASE ~Exit
  <2>1. UNCHANGED config /\ received' \in Nat /\ received <= received'
    BY <1>3 DEF InCore, ReceiveTimeout, HandleTimeout, Receive, Data, Parse, ParseFails,
       EraseSector, WriteFlash, FlashFails, DataDone, SetBootPartition, sessionVars,
       TypeOK, Event
  <2>2. task' \notin {"none", "exit"} /\ task # "none"
    BY <1>3 DEF InCore, ReceiveTimeout, HandleTimeout, Resume, Receive, TakeData,
       TakeApply, TakeAbort, Data, Parse, ParseFails, EraseSector, WriteFlash,
       FlashFails, DataDone, Verdicts, SetBootPartition, Notify
  <2>3. callback = "out"
    BY <1>3 DEF CallbackInv, InCore, ReceiveTimeout, HandleTimeout, Receive, Data, Parse,
       ParseFails, EraseSector, WriteFlash, FlashFails, DataDone, SetBootPartition
  <2>4. /\ view[Http].received \in Nat /\ received \in Nat
        /\ upload.written \in Nat /\ upload.chunk \in Nat
    BY ChannelAssumption DEF SystemTypeOK, View, TypeOK, HttpTypeOK, Upload
  <2>5. OwnSession' <=> OwnSession
    BY <2>1, <2>2 DEF OwnSession
  <2> QED
    BY <1>1, <2>1, <2>2, <2>3, <2>4, <2>5 DEF HttpViewInv
<1> QED
  BY <1>2, <1>3

LEMMA HttpViewByHttp ==
  ASSUME TypeOK, CoreInv, SystemTypeOK, CallbackInv, HttpViewInv, HttpNext
  PROVE  HttpViewInv'
<1> USE ChannelAssumption DEF Failed, SystemTypeOK
<1>a. CASE outdated' \/ http' \notin Uploading
  BY <1>a DEF HttpViewInv
<1> SUFFICES ASSUME ~outdated', http' \in Uploading
             PROVE  HttpViewInv'
  BY <1>a
<1>1. CASE HttpStart
  <2>1. /\ StartPackage(Http, upload.size) /\ view' = view /\ callback' = callback
        /\ http' \in {"receive", "write"} /\ ~(view[Http].received > 0)
    BY <1>1 DEF HttpStart, Respond, Uploading, channelVars
  <2>2. /\ config'.channel = Http /\ task' = "receive" /\ received' = 0 /\ task = "none"
    BY <2>1 DEF StartPackage, Start
  <2>3. callback' = "out" /\ view'[Http].received <= received'
    BY <2>1, <2>2 DEF CallbackInv, View
  <2>4. OwnSession'
    BY <2>2 DEF OwnSession
  <2> QED
    BY <2>1, <2>2, <2>3, <2>4 DEF HttpViewInv
<1>2. CASE HttpReceiveBuffer \/ HttpWriteData \/ HttpWaitWrite \/ HttpWaitCheck
  <2>1. /\ http \in Uploading /\ ~outdated
        /\ UNCHANGED <<view, callback, task, config, received, state>>
    BY <1>2 DEF HttpReceiveBuffer, HttpWriteData, HttpWaitWrite, HttpWaitCheck, GiveUp,
       Continue, Uploading, Write, vars, sessionVars, channelVars
  <2>2. OwnSession' <=> OwnSession
    BY <2>1 DEF OwnSession
  <2>3. OwnSession /\ http' = "check" => upload'.written + upload'.chunk <= received
    <3>1. SUFFICES ASSUME OwnSession, http' = "check"
                   PROVE  upload'.written + upload'.chunk <= received
      OBVIOUS
    <3>2. upload' = upload /\ view[Http].received >= upload.written + upload.chunk
      BY <1>2, <3>1 DEF HttpReceiveBuffer, HttpWriteData, HttpWaitWrite, HttpWaitCheck,
         GiveUp, Continue, Processed
    <3>3. /\ view[Http].received \in Nat /\ received \in Nat
          /\ upload.written \in Nat /\ upload.chunk \in Nat
      BY DEF View, TypeOK, HttpTypeOK, Upload
    <3> QED
      BY <2>1, <3>1, <3>2, <3>3 DEF HttpViewInv
  <2> QED
    BY <2>1, <2>2, <2>3 DEF HttpViewInv
<1> QED
  BY <1>1, <1>2 DEF HttpNext, HttpRequest, HttpReset, HttpWaitForComplete, HttpFail,
     Respond, GiveUp, Uploading

LEMMA HttpViewByMatter ==
  ASSUME TypeOK, CoreInv, SystemTypeOK, CallbackInv, HttpViewInv, MatterNext,
         UNCHANGED httpVars
  PROVE  HttpViewInv'
<1> USE ChannelAssumption DEF Failed
<1>1. view'[Http] = view[Http] /\ callback' = callback
      /\ UNCHANGED <<http, upload, outdated>>
  BY HttpViewKept, ChannelsAddOnly DEF httpVars
<1>2. CASE StartPackage(Matter, download.size)
  <2>1. config'.channel = Matter /\ task = "none"
    BY <1>2 DEF StartPackage, Start
  <2> QED
    BY <1>1, <2>1 DEF HttpViewInv, OwnSession
<1>3. CASE UNCHANGED <<task, config, received, state>>
  <2>1. OwnSession' <=> OwnSession
    BY <1>3 DEF OwnSession
  <2> QED
    BY <1>1, <1>3, <2>1 DEF HttpViewInv
<1> QED
  BY <1>2, <1>3
  DEF MatterNext, PrepareDownload, ProcessBlock, EndTransfer, HandleProcessBlock,
      MatterReset, MatterStart, MatterWrite, MatterWaitWrite, HandleFailedBlock,
      HandleAbort, AskAbort, ReleaseBlock, Write, Abort, vars, sessionVars

LEMMA HttpViewStep ==
  ASSUME TypeOK, CoreInv, SystemTypeOK, CallbackInv, HttpViewInv, [SystemNext]_systemVars
  PROVE  HttpViewInv'
<1>1. CASE PowerCycle /\ ResetChannels
  BY <1>1 DEF ResetChannels, HttpViewInv, Uploading
<1>2. CASE UNCHANGED systemVars
  BY <1>2 DEF systemVars, vars, sessionVars, channelVars, httpVars, HttpViewInv, Failed,
     OwnSession
<1> QED
  BY SystemCases, <1>1, <1>2, HttpViewByHttp, HttpViewByMatter, HttpViewByCallback,
     HttpViewByCore

(* ota_http_data_buffer is never filled while the worker has still to read  *)
(* from it, though otaHttpEventCallback stores state and length without a   *)
(* lock while the handler reads them: within a session the length the wait  *)
(* sees is at most what the session has processed, whatever the order, if   *)
(* the session did not start over the length of an earlier one (outdated).  *)
THEOREM BufferIsStable == SystemSpec => []HttpBufferStable
<1> DEFINE Inv == CallbackInv /\ LentInv /\ HttpViewInv
<1>1. SystemInit => Inv
  BY ChannelAssumption
  DEF SystemInit, Init, ChannelsInit, HttpInit, CallbackInv, VerifiedIsDriven, LentInv,
      HttpViewInv, Uploading
<1>2. /\ TypeOK /\ SystemTypeOK /\ SizeInv /\ CoreInv /\ Inv
      /\ [SystemNext]_systemVars
      => Inv'
  BY CallbackInvStep, LentStep, HttpViewStep
<1>3. TypeOK /\ CoreInv /\ Inv => HttpBufferStable
  BY NothingLent DEF HttpBufferStable, LentInv, TypeOK
<1> QED
  BY <1>1, <1>2, <1>3, SystemRunsCore, SystemTypeCorrect, CoreInvariant, PTL DEF SystemSpec
=============================================================================
