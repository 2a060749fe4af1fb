-------------------------- MODULE NetManagerProofs --------------------------
(***************************************************************************)
(* What each layer of the Wi-Fi and network managers believes of the one    *)
(* below, for queues of any length and any number of requests.              *)
(***************************************************************************)
EXTENDS NetManager, TLAPS

-----------------------------------------------------------------------------
(* Sequences that grow at the end and shrink at the front. *)

Followed(s, e, f) == \A i \in 1 .. Len(s) : s[i] = e => \E j \in i + 1 .. Len(s) : s[j] = f

LEMMA AppendOccurs ==
  ASSUME NEW S, NEW s \in Seq(S), NEW x \in S, NEW e
  PROVE  Occurs(Append(s, x), e) <=> Occurs(s, e) \/ x = e
BY DEF Occurs

LEMMA TailOccurs ==
  ASSUME NEW S, NEW s \in Seq(S), s # <<>>, NEW e
  PROVE  Occurs(s, e) <=> Head(s) = e \/ Occurs(Tail(s), e)
<1>1. /\ Len(Tail(s)) = Len(s) - 1 /\ Len(s) \in Nat /\ Len(s) >= 1 /\ Head(s) = s[1]
      /\ \A i \in 1 .. Len(s) - 1 : Tail(s)[i] = s[i + 1]
  OBVIOUS
<1>2. ASSUME NEW i \in 1 .. Len(s), i # 1, s[i] = e PROVE Occurs(Tail(s), e)
  <2>1. i - 1 \in 1 .. Len(s) - 1 /\ Tail(s)[i - 1] = e
    BY <1>1, <1>2
  <2> QED
    BY <1>1, <2>1 DEF Occurs
<1> QED
  BY <1>1, <1>2 DEF Occurs

\* What is added in the end comes after everything.
LEMMA AppendFollowed ==
  ASSUME NEW S, NEW s \in Seq(S), NEW x \in S, NEW e, NEW f, e # f,
         x = f \/ (x # e /\ Followed(s, e, f))
  PROVE  Followed(Append(s, x), e, f)
<1>1. /\ Len(Append(s, x)) = Len(s) + 1 /\ Len(s) \in Nat /\ Append(s, x)[Len(s) + 1] = x
      /\ \A i \in 1 .. Len(s) : Append(s, x)[i] = s[i]
  OBVIOUS
<1> SUFFICES ASSUME NEW i \in 1 .. Len(s) + 1, Append(s, x)[i] = e
             PROVE  \E j \in i + 1 .. Len(s) + 1 : Append(s, x)[j] = f
  BY <1>1 DEF Followed
<1>2. CASE x = f
  <2>1. i \in 1 .. Len(s)
    BY <1>1, <1>2
  <2> QED
    BY <1>1, <1>2, <2>1
<1>3. CASE x # e /\ Followed(s, e, f)
  <2>1. i \in 1 .. Len(s) /\ s[i] = e
    BY <1>1, <1>3
  <2>2. PICK j \in i + 1 .. Len(s) : s[j] = f
    BY <1>3, <2>1 DEF Followed
  <2> QED
    BY <1>1, <2>1, <2>2
<1> QED
  BY <1>2, <1>3

LEMMA TailFollowed ==
  ASSUME NEW S, NEW s \in Seq(S), s # <<>>, NEW e, NEW f, Followed(s, e, f)
  PROVE  /\ Followed(Tail(s), e, f)
         /\ Head(s) = e => Occurs(Tail(s), f)
<1>1. /\ Len(Tail(s)) = Len(s) - 1 /\ Len(s) \in Nat /\ Len(s) >= 1 /\ Head(s) = s[1]
      /\ \A i \in 1 .. Len(s) - 1 : Tail(s)[i] = s[i + 1]
  OBVIOUS
<1>2. ASSUME NEW i \in 0 .. Len(s) - 1, s[i + 1] = e
      PROVE  \E j \in i + 1 .. Len(s) - 1 : Tail(s)[j] = f
  <2>1. PICK k \in i + 2 .. Len(s) : s[k] = f
    BY <1>1, <1>2 DEF Followed
  <2>2. k - 1 \in i + 1 .. Len(s) - 1 /\ Tail(s)[k - 1] = f
    BY <1>1, <2>1
  <2> QED
    BY <2>2
<1>3. Followed(Tail(s), e, f)
  BY <1>1, <1>2 DEF Followed
<1>4. Head(s) = e => Occurs(Tail(s), f)
  BY <1>1, <1>2 DEF Occurs
<1> QED
  BY <1>3, <1>4

-----------------------------------------------------------------------------
(* Types. *)

LEMMA Requests ==
  \A r \in DOMAIN Request :
    /\ Request[r].command \in {"SET_TO_STA", "DISCONNECT", "SET_TO_AP", "SET_TO_IDLE"}
    /\ Request[r].state \in {"CONNECTING", "IDLE", "AP_STARTING"}
    /\ Request[r].state = "AP_STARTING" <=> r = "ApStart"
    /\ r = "ApStart" => Request[r].command = "SET_TO_AP"
BY DEF Request

AdapterType ==
  /\ adapter \in [mode : Modes, sta : BOOLEAN, ap : BOOLEAN, scan : BOOLEAN]
  /\ radio \in [link : Links, scanning : BOOLEAN]
  /\ events \in Seq(WifiEvents \union NetifEvents)
  /\ failed_stops \in 0 .. 3
  /\ overtaken \in BOOLEAN

ManagerType ==
  /\ lost \in BOOLEAN
  /\ built \in {"nothing", "queue", "all"}
  /\ wifi_queue \in Seq(Commands \union Callbacks) /\ Len(wifi_queue) <= QueueSize
  /\ wifi \in [mode : Modes, link : LinkStatus, scan : BOOLEAN]
  /\ wifi_step \in Steps

LEMMA InitType == Init => TypeOK
<1> SUFFICES ASSUME Init PROVE TypeOK
  OBVIOUS
<1>1. AdapterType
  <2>1. adapter \in [mode : Modes, sta : BOOLEAN, ap : BOOLEAN, scan : BOOLEAN]
    BY DEF Init, AdapterInit, Modes
  <2>2. radio \in [link : Links, scanning : BOOLEAN]
    BY DEF Init, AdapterInit, Links
  <2>3. overtaken \in BOOLEAN
    BY Zenon DEF Init, AdapterInit
  <2>4. events = <<>> /\ failed_stops = 0
    BY DEF Init, AdapterInit
  <2> QED
    BY <2>1, <2>2, <2>3, <2>4 DEF AdapterType
<1>2. ManagerType
  <2>1. wifi \in [mode : Modes, link : LinkStatus, scan : BOOLEAN]
    BY DEF Init, ManagerInit, Modes, LinkStatus
  <2>2. lost \in BOOLEAN
    BY Zenon DEF Init, ManagerInit
  <2>3. built = "nothing" /\ wifi_queue = <<>> /\ wifi_step = "receive"
    BY DEF Init, ManagerInit
  <2> QED
    BY <2>1, <2>2, <2>3, QueueSizeAssumption DEF ManagerType, Steps
<1>3. /\ writes \in [Threads -> NetStates \union {"nothing"}]
      /\ requests \in 0 .. MaxRequests /\ Len(main_queue) <= MainQueueSize
  BY NetAssumption DEF Init
<1>4. ap_failed \in BOOLEAN /\ ap_overtaken \in BOOLEAN /\ http_failed \in BOOLEAN
  BY Zenon DEF Init
<1>5. net = "IDLE" /\ call = "nothing" /\ main_queue = <<>> /\ http = "off"
  BY DEF Init
<1> QED
  BY <1>1, <1>2, <1>3, <1>4, <1>5 DEF TypeOK, AdapterType, ManagerType, NetStates

\* What the task's steps do to the adapter and to its own state.
LEMMA LinkType ==
  ASSUME AdapterType, NEW next \in Links, EndLink(next) \/ UNCHANGED <<radio, events>>
  PROVE  /\ radio' \in [link : Links, scanning : BOOLEAN]
         /\ events' \in Seq(WifiEvents \union NetifEvents)
<1>1. CASE EndLink(next)
  <2>1. Append(events, "STA_DISCONNECTED") \in Seq(WifiEvents \union NetifEvents)
    BY DEF AdapterType, WifiEvents
  <2> QED
    BY <1>1, <2>1 DEF AdapterType, EndLink
<1>2. CASE UNCHANGED <<radio, events>>
  BY <1>2 DEF AdapterType
<1> QED
  BY <1>1, <1>2

LEMMA SetModeType ==
  ASSUME AdapterType, NEW m \in Modes, NEW ok \in BOOLEAN, SetMode(m, ok)
  PROVE  AdapterType'
<1>1. overtaken' \in BOOLEAN
  BY DEF SetMode, AdapterType
<1>2. ASSUME NEW leave \in BOOLEAN, LeaveStation(leave)
      PROVE  /\ radio' \in [link : Links, scanning : BOOLEAN]
             /\ events' \in Seq(WifiEvents \union NetifEvents)
  BY <1>2, LinkType DEF LeaveStation, Links
<1>3. ASSUME NEW n \in 1 .. 2, CountFailedStops(n) PROVE failed_stops' \in 0 .. 3
  BY <1>3 DEF CountFailedStops, AdapterType
<1>4. CASE UNCHANGED <<adapter, radio, events, failed_stops>>
  BY <1>1, <1>4 DEF AdapterType
<1>5. CASE ModeReached(m)
  <2>1. LeaveStation(adapter.sta /\ ~NeedsSta(m)) /\ (adapter.sta /\ ~NeedsSta(m)) \in BOOLEAN
    BY <1>5 DEF ModeReached
  <2>2. adapter' \in [mode : Modes, sta : BOOLEAN, ap : BOOLEAN, scan : BOOLEAN]
    BY <1>5 DEF ModeReached, AdapterType, NeedsSta, NeedsAp
  <2> QED
    BY <1>1, <1>2, <1>5, <2>1, <2>2 DEF ModeReached, AdapterType
<1>6. CASE StartFails(m)
  BY <1>1, <1>6 DEF StartFails, AdapterType
<1>7. CASE StaStopFails(m)
  <2>1. PICK back \in BOOLEAN :
          /\ adapter' = [adapter EXCEPT !.ap = @ \/ ~back]
          /\ CountFailedStops(IF back THEN 1 ELSE 2)
    BY <1>7 DEF StaStopFails
  <2>2. adapter' \in [mode : Modes, sta : BOOLEAN, ap : BOOLEAN, scan : BOOLEAN]
    BY <2>1 DEF AdapterType
  <2>3. LeaveStation(TRUE)
    BY <1>7 DEF StaStopFails
  <2>4. failed_stops' \in 0 .. 3
    BY <1>3, <2>1
  <2> QED
    BY <1>1, <1>2, <2>2, <2>3, <2>4 DEF AdapterType
<1>8. CASE ApStopFails(m)
  <2> DEFINE here == NeedsSta(m) /\ ~adapter.sta
  <2>1. PICK back \in BOOLEAN :
          /\ adapter' = [adapter EXCEPT !.sta = NeedsSta(m) /\ ~(here /\ back)]
          /\ CountFailedStops(IF back THEN 1 ELSE 2)
    BY <1>8 DEF ApStopFails
  <2>2. adapter' \in [mode : Modes, sta : BOOLEAN, ap : BOOLEAN, scan : BOOLEAN]
    BY <2>1 DEF AdapterType, NeedsSta
  <2>3. LeaveStation(adapter.sta /\ ~NeedsSta(m)) /\ (adapter.sta /\ ~NeedsSta(m)) \in BOOLEAN
    BY <1>8 DEF ApStopFails
  <2>4. failed_stops' \in 0 .. 3
    BY <1>3, <2>1
  <2> QED
    BY <1>1, <1>2, <2>2, <2>3, <2>4 DEF AdapterType
<1> QED
  BY <1>4, <1>5, <1>6, <1>7, <1>8 DEF SetMode

LEMMA TaskStepType ==
  ASSUME AdapterType, ManagerType, TaskStep
  PROVE  AdapterType' /\ ManagerType'
<1>1. ASSUME NEW c, Takes(c)
      PROVE  wifi_queue' \in Seq(Commands \union Callbacks) /\ Len(wifi_queue') <= QueueSize
  BY <1>1, QueueSizeAssumption DEF Takes, ManagerType
<1>2. ASSUME NEW m \in Modes, NEW next \in Steps, ChangeMode(m, next)
      PROVE  AdapterType' /\ wifi_step' \in Steps
  BY <1>2, SetModeType DEF ChangeMode, Steps
<1>3. CASE TakeSetToAp \/ TakeSetToSta \/ TakeSetToIdle
  BY <1>1, <1>2, <1>3 DEF TakeSetToAp, TakeSetToSta, TakeSetToIdle, ManagerType, AdapterType, Modes,
     Steps, ApConfigRefused, StaConfigRefused, adapterVars
<1>4. CASE TakeDisconnect
  <2>1. wifi' \in [mode : Modes, link : LinkStatus, scan : BOOLEAN] /\ UNCHANGED <<built, wifi_step, lost>>
    BY <1>4 DEF TakeDisconnect, ManagerType, LinkStatus
  <2>2. EndLink("off") \/ UNCHANGED <<radio, events>>
    BY <1>4 DEF TakeDisconnect, StaDisconnect, adapterVars
  <2>3. UNCHANGED <<adapter, failed_stops, overtaken>>
    BY <1>4 DEF TakeDisconnect, StaDisconnect, adapterVars
  <2>4. AdapterType'
    BY <2>2, <2>3, LinkType DEF AdapterType, Links
  <2> QED
    BY <1>1, <1>4, <2>1, <2>4 DEF TakeDisconnect, ManagerType
<1>5. CASE TakeScan
  BY <1>1, <1>5 DEF TakeScan, ScanStart, ManagerType, AdapterType, Steps
<1>6. CASE TakeConnected \/ TakeDisconnected \/ TakeScanDone
  BY <1>1, <1>6 DEF TakeConnected, TakeDisconnected, TakeScanDone, ManagerType, AdapterType,
     LinkStatus, Steps, Told, adapterVars
<1>7. CASE SetToAp \/ SetToIdle
  BY <1>7 DEF SetToAp, SetToIdle, ManagerType, AdapterType, Modes, LinkStatus, Steps, Told, adapterVars
<1>8. CASE SetToSta
  <2>1. AdapterType'
    <3>1. Append(events, "STA_DISCONNECTED") \in Seq(WifiEvents \union NetifEvents)
      BY DEF AdapterType, WifiEvents
    <3> QED
      BY <1>8, <3>1 DEF SetToSta, StaConnect, AdapterType, Links
  <2>2. ManagerType'
    BY <1>8 DEF SetToSta, ManagerType, Modes, LinkStatus, Steps, Told
  <2> QED
    BY <2>1, <2>2
<1>9. CASE MarkScan
  BY <1>9 DEF MarkScan, ScanMark, ManagerType, AdapterType, Steps
<1> QED
  BY <1>3, <1>4, <1>5, <1>6, <1>7, <1>8, <1>9 DEF TaskStep

NetType ==
  /\ net \in NetStates
  /\ writes \in [Threads -> NetStates \union {"nothing"}]
  /\ call \in NetStates \union {"nothing"}
  /\ requests \in 0 .. MaxRequests
  /\ ap_failed \in BOOLEAN /\ ap_overtaken \in BOOLEAN

MainType ==
  /\ main_queue \in Seq({"AP_READY"}) /\ Len(main_queue) <= MainQueueSize
  /\ http \in {"off", "starting", "listening"} /\ http_failed \in BOOLEAN

LEMMA TypeParts == TypeOK <=> AdapterType /\ ManagerType /\ NetType /\ MainType
BY DEF TypeOK, AdapterType, ManagerType, NetType, MainType

LEMMA SdkType ==
  ASSUME AdapterType, SdkStep
  PROVE  AdapterType'
<1>1. ASSUME NEW e \in WifiEvents \union NetifEvents, Raise(e)
      PROVE  events' \in Seq(WifiEvents \union NetifEvents)
  BY <1>1 DEF Raise, AdapterType
<1>2. CASE SdkConnected
  BY <1>1, <1>2 DEF SdkConnected, AdapterType, Links, WifiEvents
<1>3. CASE SdkDisconnected
  BY <1>1, <1>3 DEF SdkDisconnected, AdapterType, Links, WifiEvents
<1>4. CASE SdkScanDone
  BY <1>1, <1>4 DEF SdkScanDone, AdapterType, WifiEvents
<1>5. CASE \E e \in NetifEvents : SdkAddress(e)
  BY <1>1, <1>5 DEF SdkAddress, AdapterType
<1> QED
  BY <1>2, <1>3, <1>4, <1>5 DEF SdkStep

LEMMA TakeEventType ==
  ASSUME AdapterType, NEW marking \in BOOLEAN, TakeEvent(marking)
  PROVE  AdapterType'
<1>1. events' \in Seq(WifiEvents \union NetifEvents)
  BY DEF TakeEvent, AdapterType
<1>2. adapter' \in [mode : Modes, sta : BOOLEAN, ap : BOOLEAN, scan : BOOLEAN]
  BY DEF TakeEvent, AdapterType
<1>3. overtaken' \in BOOLEAN
  BY Zenon DEF TakeEvent
<1> QED
  BY <1>1, <1>2, <1>3 DEF TakeEvent, AdapterType

\* A command or an event in the queue: it had room, or is not there.
LEMMA SendType ==
  ASSUME ManagerType, NEW c \in Commands \union Callbacks,
         wifi_queue' = IF Room THEN Append(wifi_queue, c) ELSE wifi_queue
  PROVE  wifi_queue' \in Seq(Commands \union Callbacks) /\ Len(wifi_queue') <= QueueSize
BY QueueSizeAssumption DEF ManagerType, Room

LEMMA WriteType ==
  ASSUME NetType, MainType, NEW t \in Threads, Write(t)
  PROVE  NetType' /\ MainType'
<1>1. writes[t] \in NetStates
  BY DEF Write, NetType
<1>2. writes' \in [Threads -> NetStates \union {"nothing"}]
  BY DEF Write, NetType
<1>3. main_queue' \in Seq({"AP_READY"}) /\ Len(main_queue') <= MainQueueSize
  BY NetAssumption DEF Write, TellMain, MainType
<1> QED
  BY <1>1, <1>2, <1>3 DEF Write, NetType, MainType

AllTypes == AdapterType /\ ManagerType /\ NetType /\ MainType

LEMMA StepTypes ==
  ASSUME AdapterType, ManagerType, NetType, MainType, [Next]_vars
  PROVE  AllTypes'
<1> USE DEF AllTypes
<1>1. CASE UNCHANGED vars
  BY <1>1 DEF vars, adapterVars, managerVars, netVars, mainVars, AdapterType, ManagerType, NetType, MainType
<1>2. CASE NetInit
  BY <1>2 DEF NetInit, adapterVars, netVars, mainVars, AdapterType, ManagerType, NetType, MainType
<1>3. CASE Sdk
  BY <1>3, SdkType DEF Sdk, managerVars, netVars, mainVars, ManagerType, NetType, MainType
<1>4. ASSUME NEW r \in DOMAIN Request, Ask(r) PROVE AllTypes'
  <2>1. Request[r].command \in Commands /\ Request[r].state \in NetStates
    BY Requests DEF Commands, NetStates
  <2>2. ManagerType'
    BY <1>4, <2>1, SendType DEF Ask, Send, ManagerType
  <2>3. NetType'
    BY <1>4, <2>1, NetAssumption DEF Ask, NetType
  <2> QED
    BY <1>4, <2>2, <2>3 DEF Ask, adapterVars, mainVars, AdapterType, MainType
<1>5. CASE Answer
  BY <1>5 DEF Answer, Tells, adapterVars, managerVars, mainVars, AdapterType, ManagerType, NetType,
     MainType, Threads
<1>6. CASE CallerWrites
  BY <1>6, WriteType DEF CallerWrites, Threads, adapterVars, managerVars, AdapterType, ManagerType
<1>7. ASSUME NEW c \in Commands, AskWifi(c) PROVE AllTypes'
  <2>1. ManagerType'
    BY <1>7, SendType DEF AskWifi, Send, ManagerType
  <2> QED
    BY <1>7, <2>1, NetAssumption DEF AskWifi, NetType, adapterVars, mainVars, AdapterType, MainType
<1>8. CASE WifiWorks
  <2>1. ap_failed' \in BOOLEAN
    BY <1>8, Zenon DEF WifiWorks
  <2> QED
    BY <1>8, <2>1, TaskStepType DEF WifiWorks, mainVars, NetType, MainType
<1>9. CASE WifiTells
  <2>1. Heard(wifi_step) \in NetStates
    BY <1>9 DEF WifiTells, Heard, Told, NetStates, NetType
  <2>2. NetType'
    <3>1. ap_overtaken' \in BOOLEAN
      BY <1>9, Zenon DEF WifiTells
    <3> QED
      BY <1>9, <2>1, <3>1 DEF WifiTells, Tells, NetType, Threads
  <2>3. ManagerType'
    BY <1>9 DEF WifiTells, CallbackDone, managerVars, ManagerType, Steps
  <2> QED
    BY <1>9, <2>2, <2>3 DEF WifiTells, adapterVars, mainVars, AdapterType, MainType
<1>10. CASE WifiWrites
  <2>1. ManagerType'
    BY <1>10 DEF WifiWrites, CallbackDone, ManagerType, Steps
  <2> QED
    BY <1>10, <2>1, WriteType DEF WifiWrites, Threads, adapterVars, AdapterType
<1>11. CASE EventForWifi
  <2>1. CallbackOf[Head(events)] \in Callbacks
    BY <1>11 DEF EventForWifi, EventToQueue, CallbackOf, WifiEvents, Callbacks
  <2>2. ManagerType'
    <3>1. lost' \in BOOLEAN
      BY <1>11, Zenon DEF EventForWifi, EventToQueue, Post
    <3> QED
      BY <1>11, <2>1, <3>1, SendType DEF EventForWifi, EventToQueue, Post, ManagerType
  <2>3. (wifi_step = "mark_scan") \in BOOLEAN
    OBVIOUS
  <2> QED
    BY <1>11, <2>2, <2>3, TakeEventType DEF EventForWifi, EventToQueue, netVars, mainVars, NetType, MainType
<1>12. CASE EventForNet
  <2>1. HeardAddress(Head(events)) \in NetStates
    BY <1>12 DEF EventForNet, HeardAddress, NetifEvents, NetStates, NetType
  <2>2. NetType'
    BY <1>12, <2>1 DEF EventForNet, Tells, NetType, Threads
  <2> QED
    BY <1>12, <2>2, TakeEventType DEF EventForNet, managerVars, mainVars, ManagerType, MainType
<1>13. CASE EventWrites
  BY <1>13, WriteType DEF EventWrites, Threads, adapterVars, managerVars, AdapterType, ManagerType
<1>14. CASE MainTakes
  <2>1. MainType'
    <3>1. http' \in {"off", "starting", "listening"} /\ http_failed' \in BOOLEAN
      BY <1>14 DEF MainTakes, HttpServerStart, MainType
    <3> QED
      BY <1>14, <3>1, NetAssumption DEF MainTakes, MainType
  <2> QED
    BY <1>14, <2>1 DEF MainTakes, adapterVars, managerVars, netVars, AdapterType, ManagerType, NetType
<1>15. CASE ServerUp
  <2>1. MainType'
    BY <1>15 DEF ServerUp, MainType
  <2> QED
    BY <1>15, <2>1 DEF ServerUp, adapterVars, managerVars, netVars, AdapterType, ManagerType, NetType
<1> QED
  BY <1>1, <1>2, <1>3, <1>4, <1>5, <1>6, <1>7, <1>8, <1>9, <1>10, <1>11, <1>12, <1>13, <1>14, <1>15
     DEF Next

LEMMA StepType == TypeOK /\ [Next]_vars => TypeOK'
<1> SUFFICES ASSUME AllTypes, [Next]_vars PROVE AllTypes'
  BY TypeParts DEF TypeOK, AllTypes, AdapterType, ManagerType, NetType, MainType
<1> QED
  BY StepTypes DEF AllTypes

-----------------------------------------------------------------------------
(* The adapter and the Wi-Fi manager under the network manager.             *)

LowerNext ==
  \/ UNCHANGED <<adapterVars, wifi_queue, wifi, wifi_step, lost>>
  \/ SdkStep /\ UNCHANGED managerVars
  \/ \E c \in Commands, ok \in BOOLEAN : Send(c, ok) /\ UNCHANGED adapterVars
  \/ TaskStep
  \/ CallbackDone /\ UNCHANGED adapterVars
  \/ EventToQueue
  \/ TakeEvent(FALSE) /\ Head(events) \in NetifEvents /\ UNCHANGED managerVars

LEMMA LowerSteps == [Next]_vars => LowerNext
<1> SUFFICES ASSUME [Next]_vars PROVE LowerNext
  OBVIOUS
<1>1. ASSUME NEW r \in DOMAIN Request, Ask(r) PROVE LowerNext
  BY <1>1, Requests DEF Ask, LowerNext, Commands
<1>2. CASE UNCHANGED vars \/ NetInit
  BY <1>2 DEF LowerNext, NetInit, vars, managerVars
<1>3. CASE Sdk \/ WifiWorks
  BY <1>3 DEF LowerNext, Sdk, WifiWorks
<1>4. CASE Answer \/ CallerWrites \/ EventWrites
  BY <1>4 DEF LowerNext, Answer, CallerWrites, EventWrites, managerVars
<1>5. CASE WifiTells \/ WifiWrites
  BY <1>5 DEF LowerNext, WifiTells, WifiWrites, managerVars
<1>6. CASE EventForWifi \/ EventForNet
  BY <1>6 DEF LowerNext, EventForWifi, EventForNet
<1>7. CASE MainTakes \/ ServerUp
  BY <1>7 DEF LowerNext, MainTakes, ServerUp, managerVars
<1>8. CASE \E c \in Commands : AskWifi(c)
  BY <1>8 DEF LowerNext, AskWifi
<1> QED
  BY <1>1, <1>2, <1>3, <1>4, <1>5, <1>6, <1>7, <1>8 DEF Next

\* Where the mode goes, and what the roll-back leaves of the sides.
LEMMA SetModeReaches ==
  ASSUME AdapterType, NEW m \in Modes, NEW ok \in BOOLEAN, SetMode(m, ok)
  PROVE  adapter'.mode = IF ok THEN m ELSE adapter.mode
BY DEF SetMode, AdapterType, ModeReached, StartFails, StaStopFails, ApStopFails

LEMMA SetModeSides ==
  ASSUME AdapterType, SidesFollowMode, NEW m \in Modes, NEW ok \in BOOLEAN, SetMode(m, ok)
  PROVE  SidesFollowMode'
<1>1. CASE UNCHANGED <<adapter, radio, events, failed_stops>>
  BY <1>1 DEF SidesFollowMode, NeedsSta, NeedsAp
<1>2. CASE ModeReached(m)
  BY <1>2 DEF ModeReached, AdapterType, SidesFollowMode, NeedsSta, NeedsAp
<1>3. CASE StartFails(m)
  BY <1>3 DEF StartFails, SidesFollowMode, NeedsSta, NeedsAp
<1>4. CASE StaStopFails(m)
  <2>1. PICK back \in BOOLEAN :
          /\ back \/ (NeedsAp(m) /\ ~adapter.ap)
          /\ adapter' = [adapter EXCEPT !.ap = @ \/ ~back]
          /\ CountFailedStops(IF back THEN 1 ELSE 2)
    BY <1>4 DEF StaStopFails
  <2>4. adapter'.mode = adapter.mode /\ (adapter'.sta <=> adapter.sta)
    BY <2>1 DEF AdapterType
  <2>2. CASE back
    <3>1. adapter'.ap <=> adapter.ap
      BY <2>1, <2>2 DEF AdapterType
    <3>2. failed_stops' \in 0 .. 3 /\ failed_stops' >= failed_stops /\ failed_stops \in 0 .. 3
      BY <2>1, <2>2 DEF AdapterType, CountFailedStops
    <3> QED
      BY <2>4, <3>1, <3>2 DEF SidesFollowMode, NeedsSta, NeedsAp
  <2>3. CASE ~back
    <3>1. adapter'.ap
      BY <2>1, <2>3 DEF AdapterType
    <3>2. /\ failed_stops' \in 2 .. 3 /\ failed_stops \in 0 .. 3
          /\ failed_stops' = 2 => failed_stops = 0
      BY <2>1, <2>3 DEF AdapterType, CountFailedStops
    <3> QED
      BY <2>4, <3>1, <3>2 DEF SidesFollowMode, NeedsSta, NeedsAp
  <2> QED
    BY <2>2, <2>3
<1>5. CASE ApStopFails(m)
  <2> DEFINE here == NeedsSta(m) /\ ~adapter.sta
  <2>1. PICK back \in BOOLEAN :
          /\ back \/ here
          /\ adapter' = [adapter EXCEPT !.sta = NeedsSta(m) /\ ~(here /\ back)]
          /\ CountFailedStops(IF back THEN 1 ELSE 2)
    BY <1>5 DEF ApStopFails
  <2>2. ~NeedsAp(m) /\ adapter.ap /\ adapter'.mode = adapter.mode /\ adapter'.ap
    BY <1>5, <2>1 DEF ApStopFails, AdapterType
  <2>3. adapter'.sta <=> NeedsSta(m) /\ ~(here /\ back)
    BY <2>1 DEF AdapterType
  <2>4. CASE back
    <3>1. failed_stops' > failed_stops \/ failed_stops' = 3
      BY <2>1, <2>4 DEF AdapterType, CountFailedStops
    <3>2. failed_stops' \in 0 .. 3 /\ failed_stops \in 0 .. 3
      BY <2>1, <2>4 DEF AdapterType, CountFailedStops
    <3>3. CASE m = "STA"
      BY <2>2, <2>3, <2>4, <3>1, <3>2, <3>3 DEF SidesFollowMode, NeedsSta, NeedsAp
    <3>4. CASE m # "STA"
      <4>1. ~adapter'.sta
        BY <2>3, <3>4 DEF NeedsSta
      <4>2. failed_stops' <= 2 => failed_stops <= 1
        BY <3>1, <3>2
      <4>3. failed_stops <= 1 => adapter.mode = "AP"
        BY <2>2 DEF SidesFollowMode, NeedsAp
      <4>4. failed_stops' <= 1 => failed_stops' <= 2
        BY <3>2
      <4> QED
        BY <2>2, <4>1, <4>2, <4>3, <4>4 DEF SidesFollowMode, NeedsSta, NeedsAp
    <3> QED
      BY <3>3, <3>4
  <2>5. CASE ~back
    <3>1. failed_stops' \in 2 .. 3
      BY <2>1, <2>5 DEF AdapterType, CountFailedStops
    <3>2. adapter'.sta
      BY <2>1, <2>3, <2>5
    <3> QED
      BY <2>2, <3>1, <3>2 DEF SidesFollowMode
  <2> QED
    BY <2>4, <2>5
<1> QED
  BY <1>1, <1>2, <1>3, <1>4, <1>5 DEF SetMode

\* A step that is no change of mode leaves mode, sides and failures alone.
SameSides ==
  /\ adapter'.mode = adapter.mode
  /\ adapter'.sta <=> adapter.sta
  /\ adapter'.ap <=> adapter.ap
  /\ failed_stops' = failed_stops

TaskChangesMode ==
  /\ wifi_step = "receive" /\ UNCHANGED wifi
  /\ \/ SameSides /\ wifi_step' = "receive"
     \/ \E ok \in BOOLEAN, go \in {<<"AP", "to_ap">>, <<"STA", "to_sta">>, <<"NONE", "to_idle">>} :
          SetMode(go[1], ok) /\ wifi_step' = IF ok THEN go[2] ELSE "receive"

LEMMA TakesMode ==
  ASSUME AdapterType, TakeSetToAp \/ TakeSetToSta \/ TakeSetToIdle
  PROVE  TaskChangesMode
<1>1. wifi_step = "receive" /\ UNCHANGED wifi
  BY DEF TakeSetToAp, TakeSetToSta, TakeSetToIdle, Takes
<1>2. CASE UNCHANGED adapterVars /\ UNCHANGED wifi_step
  BY <1>1, <1>2 DEF TaskChangesMode, SameSides, adapterVars
<1>3. ASSUME NEW go \in {<<"AP", "to_ap">>, <<"STA", "to_sta">>, <<"NONE", "to_idle">>},
             ChangeMode(go[1], go[2])
      PROVE  TaskChangesMode
  BY <1>1, <1>3 DEF TaskChangesMode, ChangeMode
<1>4. CASE ChangeMode("AP", "to_ap")
  BY <1>4, <1>3
<1>5. CASE ChangeMode("STA", "to_sta")
  BY <1>5, <1>3
<1>6. CASE ChangeMode("NONE", "to_idle")
  BY <1>6, <1>3
<1> QED
  BY <1>2, <1>4, <1>5, <1>6 DEF TakeSetToAp, TakeSetToSta, TakeSetToIdle, ApConfigRefused, StaConfigRefused

LEMMA OtherSteps ==
  ASSUME AdapterType, LowerNext, ~(TakeSetToAp \/ TakeSetToSta \/ TakeSetToIdle)
  PROVE  SameSides
<1> USE DEF SameSides, AdapterType, adapterVars
<1>1. CASE SdkStep
  BY <1>1 DEF SdkStep, SdkConnected, SdkDisconnected, SdkScanDone, SdkAddress
<1>2. CASE \E marking \in BOOLEAN : TakeEvent(marking)
  BY <1>2 DEF TakeEvent
<1>3. CASE TaskStep
  BY <1>3 DEF TaskStep, TakeDisconnect, StaDisconnect, TakeScan, ScanStart, TakeConnected, TakeDisconnected,
     TakeScanDone, SetToAp, SetToIdle, SetToSta, StaConnect, MarkScan, ScanMark
<1>4. CASE UNCHANGED adapterVars
  BY <1>4
<1>5. EventToQueue => TakeEvent(wifi_step = "mark_scan")
  BY DEF EventToQueue
<1> QED
  BY <1>1, <1>2, <1>3, <1>4, <1>5 DEF LowerNext

LEMMA StepSides ==
  ASSUME AdapterType, SidesFollowMode, LowerNext
  PROVE  SidesFollowMode'
<1>1. CASE SameSides
  BY <1>1 DEF SameSides, SidesFollowMode
<1>2. CASE TaskChangesMode
  <2>1. ASSUME NEW ok \in BOOLEAN, NEW m \in {"AP", "STA", "NONE"}, SetMode(m, ok)
        PROVE  SidesFollowMode'
    BY <2>1, SetModeSides DEF Modes
  <2> QED
    BY <1>1, <1>2, <2>1 DEF TaskChangesMode
<1> QED
  BY <1>1, <1>2, TakesMode, OtherSteps

LEMMA StepModes ==
  ASSUME AdapterType, ManagerType, ModesAgree, LowerNext
  PROVE  ModesAgree'
<1>1. CASE TaskChangesMode
  <2>1. wifi.mode = adapter.mode /\ wifi'.mode = wifi.mode
    BY <1>1 DEF TaskChangesMode, ModesAgree
  <2>2. CASE SameSides /\ wifi_step' = "receive"
    BY <2>1, <2>2 DEF SameSides, ModesAgree
  <2>3. ASSUME NEW ok \in BOOLEAN,
               NEW go \in {<<"AP", "to_ap">>, <<"STA", "to_sta">>, <<"NONE", "to_idle">>},
               SetMode(go[1], ok), wifi_step' = IF ok THEN go[2] ELSE "receive"
        PROVE  ModesAgree'
    <3>1. adapter'.mode = IF ok THEN go[1] ELSE adapter.mode
      BY <2>3, SetModeReaches DEF Modes
    <3> QED
      BY <2>1, <2>3, <3>1 DEF ModesAgree
  <2> QED
    BY <1>1, <2>2, <2>3 DEF TaskChangesMode
<1>2. CASE SetToAp \/ SetToIdle \/ SetToSta
  BY <1>2 DEF SetToAp, SetToIdle, SetToSta, StaConnect, adapterVars, ModesAgree, ManagerType
<1>3. CASE SameSides /\ TaskStep /\ ~(SetToAp \/ SetToIdle \/ SetToSta)
                     /\ ~(TakeSetToAp \/ TakeSetToSta \/ TakeSetToIdle)
  <2>1. /\ wifi_step \notin {"to_ap", "to_sta", "to_idle"} /\ wifi_step' \notin {"to_ap", "to_sta", "to_idle"}
        /\ wifi'.mode = wifi.mode
    BY <1>3 DEF TaskStep, TakeDisconnect, TakeScan, TakeConnected, TakeDisconnected, TakeScanDone, MarkScan,
       Takes, ManagerType
  <2> QED
    BY <1>3, <2>1 DEF SameSides, ModesAgree
<1>4. CASE SameSides /\ UNCHANGED <<wifi, wifi_step>>
  BY <1>4 DEF SameSides, ModesAgree
<1>5. CASE SameSides /\ CallbackDone
  BY <1>5 DEF SameSides, ModesAgree, CallbackDone, Told
<1> QED
  BY <1>1, <1>2, <1>3, <1>4, <1>5, TakesMode, OtherSteps
     DEF LowerNext, managerVars, Send, EventToQueue, Post

-----------------------------------------------------------------------------
(* What is believed of the link and of scans.                               *)

\* Before a loss of the link there may be a connection under way, behind it not.
LinkInv ==
  /\ radio.link = "up" \/ Followed(events, "STA_CONNECTED", "STA_DISCONNECTED")
  /\ \/ lost \/ radio.link = "up" \/ Occurs(events, "STA_DISCONNECTED")
     \/ /\ Followed(wifi_queue, "CB_CONNECTED", "CB_DISCONNECTED")
        /\ wifi.link = "CONNECTED" => Occurs(wifi_queue, "CB_DISCONNECTED")

ScanInv ==
  /\ wifi.scan \/ wifi_step = "mark_scan" => radio.scanning \/ Coming("SCAN_DONE") \/ lost
  /\ adapter.scan \/ wifi_step = "mark_scan" =>
       radio.scanning \/ Occurs(events, "SCAN_DONE") \/ overtaken

\* How the radio changes unless an event is handed out: what ends is told.
Raises ==
  /\ \/ events' = events /\ (radio.link = "up" => radio'.link = "up")
     \/ \E e \in WifiEvents \union NetifEvents :
          /\ events' = Append(events, e)
          /\ e = "STA_CONNECTED" => radio'.link = "up"
          /\ radio.link = "up" /\ radio'.link # "up" => e = "STA_DISCONNECTED"
  /\ radio.scanning => radio'.scanning \/ events' = Append(events, "SCAN_DONE")

LEMMA StepRaises ==
  ASSUME AdapterType, SdkStep \/ TaskStep \/ UNCHANGED adapterVars
  PROVE  Raises
<1> USE DEF AdapterType, WifiEvents, NetifEvents
<1>1. CASE EndLink("off") \/ UNCHANGED <<radio, events>>
  BY <1>1 DEF EndLink, Raises
<1>2. ASSUME NEW m, NEW ok, SetMode(m, ok) PROVE Raises
  BY <1>1, <1>2 DEF SetMode, ModeReached, StartFails, StaStopFails, ApStopFails, LeaveStation
<1>3. CASE TakeSetToAp \/ TakeSetToSta \/ TakeSetToIdle
  BY <1>1, <1>2, <1>3 DEF TakeSetToAp, TakeSetToSta, TakeSetToIdle, ChangeMode, ApConfigRefused,
     StaConfigRefused, adapterVars
<1>4. CASE TakeDisconnect \/ UNCHANGED adapterVars
  BY <1>1, <1>4 DEF TakeDisconnect, StaDisconnect, adapterVars
<1>5. CASE TakeScan
  BY <1>5 DEF TakeScan, ScanStart, Raises
<1>6. CASE TakeConnected \/ TakeDisconnected \/ TakeScanDone \/ SetToAp \/ SetToIdle \/ MarkScan
  BY <1>1, <1>6 DEF TakeConnected, TakeDisconnected, TakeScanDone, SetToAp, SetToIdle, MarkScan, ScanMark,
     adapterVars
<1>7. CASE SetToSta
  BY <1>7 DEF SetToSta, StaConnect, Raises
<1>8. CASE SdkStep
  BY <1>8 DEF SdkStep, SdkConnected, SdkDisconnected, SdkScanDone, SdkAddress, Raise, Raises
<1> QED
  BY <1>3, <1>4, <1>5, <1>6, <1>7, <1>8 DEF TaskStep

LEMMA RaisesLink ==
  ASSUME AdapterType, Raises,
         radio.link = "up" \/ Followed(events, "STA_CONNECTED", "STA_DISCONNECTED")
  PROVE  /\ radio'.link = "up" \/ Followed(events', "STA_CONNECTED", "STA_DISCONNECTED")
         /\ radio.link = "up" \/ Occurs(events, "STA_DISCONNECTED") =>
              radio'.link = "up" \/ Occurs(events', "STA_DISCONNECTED")
<1>1. CASE events' = events
  <2>1. radio.link = "up" => radio'.link = "up"
    BY <1>1 DEF Raises, AdapterType
  <2> QED
    BY <1>1, <2>1
<1>2. ASSUME NEW e \in WifiEvents \union NetifEvents, events' = Append(events, e),
             e = "STA_CONNECTED" => radio'.link = "up",
             radio.link = "up" /\ radio'.link # "up" => e = "STA_DISCONNECTED"
      PROVE  /\ radio'.link = "up" \/ Followed(events', "STA_CONNECTED", "STA_DISCONNECTED")
             /\ radio.link = "up" \/ Occurs(events, "STA_DISCONNECTED") =>
                  radio'.link = "up" \/ Occurs(events', "STA_DISCONNECTED")
  <2>1. \A f : Occurs(events', f) <=> Occurs(events, f) \/ e = f
    BY <1>2, AppendOccurs DEF AdapterType
  <2>2. radio'.link # "up" => Followed(events', "STA_CONNECTED", "STA_DISCONNECTED")
    BY <1>2, AppendFollowed DEF AdapterType
  <2> QED
    BY <1>2, <2>1, <2>2
<1> QED
  BY <1>1, <1>2 DEF Raises

LEMMA RaisesScan ==
  ASSUME AdapterType, Raises
  PROVE  radio.scanning \/ Occurs(events, "SCAN_DONE") =>
           radio'.scanning \/ Occurs(events', "SCAN_DONE")
<1>1. events' = Append(events, "SCAN_DONE") => Occurs(events', "SCAN_DONE")
  BY AppendOccurs DEF AdapterType, WifiEvents
<1>2. Occurs(events, "SCAN_DONE") => Occurs(events', "SCAN_DONE")
  <2>1. ASSUME NEW e \in WifiEvents \union NetifEvents, events' = Append(events, e),
               Occurs(events, "SCAN_DONE")
        PROVE  Occurs(events', "SCAN_DONE")
    BY <2>1, AppendOccurs DEF AdapterType
  <2>2. events' = events \/ \E e \in WifiEvents \union NetifEvents : events' = Append(events, e)
    BY DEF Raises
  <2> QED
    BY <2>1, <2>2
<1>3. radio.scanning => radio'.scanning \/ events' = Append(events, "SCAN_DONE")
  BY DEF Raises
<1> QED
  BY <1>1, <1>2, <1>3

\* How the queue and the manager's view change unless an event is handed out.
QueueMoves ==
  /\ lost' = lost
  /\ \/ /\ wifi_queue' = wifi_queue
        /\ wifi'.link = "CONNECTED" => wifi.link = "CONNECTED"
     \/ /\ \E c \in Commands : wifi_queue' = Append(wifi_queue, c)
        /\ UNCHANGED wifi
     \/ /\ wifi_queue # <<>> /\ wifi_queue' = Tail(wifi_queue)
        /\ wifi'.link = "CONNECTED" =>
             \/ Head(wifi_queue) = "CB_CONNECTED"
             \/ wifi.link = "CONNECTED" /\ Head(wifi_queue) # "CB_DISCONNECTED"

LEMMA StepQueue ==
  ASSUME ManagerType, LowerNext, ~EventToQueue
  PROVE  QueueMoves
<1>1. CASE TaskStep
  <2>1. CASE TakeSetToAp \/ TakeSetToSta \/ TakeSetToIdle \/ TakeDisconnect \/ TakeScan
             \/ TakeConnected \/ TakeDisconnected \/ TakeScanDone
    BY <2>1 DEF TakeSetToAp, TakeSetToSta, TakeSetToIdle, TakeDisconnect, TakeScan, TakeConnected,
       TakeDisconnected, TakeScanDone, Takes, QueueMoves, ManagerType
  <2>2. CASE SetToAp \/ SetToSta \/ SetToIdle \/ MarkScan
    BY <2>2 DEF SetToAp, SetToSta, SetToIdle, MarkScan, QueueMoves, ManagerType
  <2> QED
    BY <1>1, <2>1, <2>2 DEF TaskStep
<1>2. CASE UNCHANGED <<wifi_queue, wifi, lost>>
  BY <1>2 DEF QueueMoves
<1>3. CASE \E c \in Commands, ok \in BOOLEAN : Send(c, ok)
  BY <1>3 DEF Send, QueueMoves
<1> QED
  BY <1>1, <1>2, <1>3 DEF LowerNext, managerVars, CallbackDone

\* The queue by itself: what is behind a connection stays behind it.
QueueFollowed ==
  /\ Followed(wifi_queue, "CB_CONNECTED", "CB_DISCONNECTED")
  /\ wifi.link = "CONNECTED" => Occurs(wifi_queue, "CB_DISCONNECTED")

LEMMA QueueMovesFollowed ==
  ASSUME ManagerType, QueueMoves, QueueFollowed
  PROVE  QueueFollowed'
<1>1. CASE /\ wifi_queue' = wifi_queue
           /\ wifi'.link = "CONNECTED" => wifi.link = "CONNECTED"
  BY <1>1 DEF QueueFollowed
<1>2. ASSUME NEW c \in Commands, wifi_queue' = Append(wifi_queue, c), UNCHANGED wifi
      PROVE  QueueFollowed'
  <2>1. c \in Commands \union Callbacks /\ c # "CB_CONNECTED" /\ c # "CB_DISCONNECTED"
    BY DEF Commands, Callbacks
  <2>2. Followed(wifi_queue', "CB_CONNECTED", "CB_DISCONNECTED")
    BY <1>2, <2>1, AppendFollowed DEF ManagerType, QueueFollowed
  <2>3. Occurs(wifi_queue, "CB_DISCONNECTED") => Occurs(wifi_queue', "CB_DISCONNECTED")
    BY <1>2, <2>1, AppendOccurs DEF ManagerType
  <2> QED
    BY <1>2, <2>2, <2>3 DEF QueueFollowed
<1>3. CASE /\ wifi_queue # <<>> /\ wifi_queue' = Tail(wifi_queue)
           /\ wifi'.link = "CONNECTED" =>
                \/ Head(wifi_queue) = "CB_CONNECTED"
                \/ wifi.link = "CONNECTED" /\ Head(wifi_queue) # "CB_DISCONNECTED"
  <2>1. /\ Followed(wifi_queue', "CB_CONNECTED", "CB_DISCONNECTED")
        /\ Head(wifi_queue) = "CB_CONNECTED" => Occurs(wifi_queue', "CB_DISCONNECTED")
    BY <1>3, TailFollowed DEF ManagerType, QueueFollowed
  <2>2. Occurs(wifi_queue, "CB_DISCONNECTED") =>
          Head(wifi_queue) = "CB_DISCONNECTED" \/ Occurs(wifi_queue', "CB_DISCONNECTED")
    BY <1>3, TailOccurs DEF ManagerType
  <2> QED
    BY <1>3, <2>1, <2>2 DEF QueueFollowed
<1> QED
  BY <1>1, <1>2, <1>3 DEF QueueMoves

\* What the event thread brings to the queue, if there is room.
LEMMA PostedFollowed ==
  ASSUME AdapterType, ManagerType, EventToQueue, LinkInv
  PROVE  LinkInv'
<1>1. PICK e \in WifiEvents : e = Head(events) /\ events # <<>> /\ events' = Tail(events)
  BY DEF EventToQueue, TakeEvent
<1>2. /\ radio' = radio /\ wifi' = wifi
      /\ lost' = (lost \/ ~Room)
      /\ wifi_queue' = IF Room THEN Append(wifi_queue, CallbackOf[e]) ELSE wifi_queue
  BY <1>1 DEF EventToQueue, TakeEvent, Post
<1>3. radio.link = "up" \/
        /\ Followed(events', "STA_CONNECTED", "STA_DISCONNECTED")
        /\ e = "STA_CONNECTED" => Occurs(events', "STA_DISCONNECTED")
  BY <1>1, TailFollowed DEF AdapterType, LinkInv
<1>4. Occurs(events, "STA_DISCONNECTED") <=> e = "STA_DISCONNECTED" \/ Occurs(events', "STA_DISCONNECTED")
  BY <1>1, TailOccurs DEF AdapterType
<1>5. CASE lost' \/ radio.link = "up" \/ Occurs(events', "STA_DISCONNECTED")
  BY <1>2, <1>3, <1>5 DEF LinkInv
<1>6. CASE ~lost' /\ radio.link # "up" /\ ~Occurs(events', "STA_DISCONNECTED")
  <2>1. wifi_queue' = Append(wifi_queue, CallbackOf[e]) /\ ~lost /\ e # "STA_CONNECTED"
    BY <1>2, <1>3, <1>6
  <2>2. /\ CallbackOf[e] \in Commands \union Callbacks /\ CallbackOf[e] # "CB_CONNECTED"
        /\ e = "STA_DISCONNECTED" => CallbackOf[e] = "CB_DISCONNECTED"
    BY <2>1 DEF CallbackOf, WifiEvents, Callbacks
  <2>3. e = "STA_DISCONNECTED" \/ QueueFollowed
    BY <1>4, <1>6, <2>1 DEF LinkInv, QueueFollowed
  <2>4. Followed(wifi_queue', "CB_CONNECTED", "CB_DISCONNECTED")
    BY <2>1, <2>2, <2>3, AppendFollowed DEF ManagerType, QueueFollowed
  <2>5. \A f : Occurs(wifi_queue', f) <=> Occurs(wifi_queue, f) \/ CallbackOf[e] = f
    BY <2>1, <2>2, AppendOccurs DEF ManagerType
  <2> QED
    BY <1>2, <1>3, <2>2, <2>3, <2>4, <2>5 DEF LinkInv, QueueFollowed
<1> QED
  BY <1>5, <1>6

LEMMA StepLink ==
  ASSUME AdapterType, ManagerType, LowerNext, LinkInv
  PROVE  LinkInv'
<1>1. CASE EventToQueue
  BY <1>1, PostedFollowed
<1>2. CASE ~EventToQueue /\ TakeEvent(FALSE) /\ Head(events) \in NetifEvents
  <2>1. events # <<>> /\ events' = Tail(events) /\ radio' = radio
    BY <1>2 DEF TakeEvent
  <2>2. radio.link = "up" \/ Followed(events', "STA_CONNECTED", "STA_DISCONNECTED")
    BY <2>1, TailFollowed DEF AdapterType, LinkInv
  <2>3. Occurs(events, "STA_DISCONNECTED") => Occurs(events', "STA_DISCONNECTED")
    BY <1>2, <2>1, TailOccurs DEF AdapterType, NetifEvents
  <2>4. lost' = lost /\ (QueueFollowed => QueueFollowed')
    BY <1>2, StepQueue, QueueMovesFollowed DEF QueueMoves
  <2> QED
    BY <2>1, <2>2, <2>3, <2>4 DEF LinkInv, QueueFollowed
<1>3. CASE ~EventToQueue /\ Raises
  <2>1. /\ radio'.link = "up" \/ Followed(events', "STA_CONNECTED", "STA_DISCONNECTED")
        /\ radio.link = "up" \/ Occurs(events, "STA_DISCONNECTED") =>
             radio'.link = "up" \/ Occurs(events', "STA_DISCONNECTED")
    BY <1>3, RaisesLink DEF LinkInv
  <2>2. lost' = lost /\ (QueueFollowed => QueueFollowed')
    BY <1>3, StepQueue, QueueMovesFollowed DEF QueueMoves
  <2> QED
    BY <2>1, <2>2 DEF LinkInv, QueueFollowed
<1> QED
  BY <1>1, <1>2, <1>3, StepRaises DEF LowerNext, adapterVars

\* The flags and what goes with them, but for the steps that are about scans.
ScanFlags ==
  /\ wifi'.scan \/ wifi_step' = "mark_scan" => wifi.scan \/ wifi_step = "mark_scan"
  /\ adapter'.scan => adapter.scan \/ wifi_step = "mark_scan"
  /\ wifi_step' = "mark_scan" => wifi_step = "mark_scan"
  /\ overtaken' = overtaken

LEMMA StepFlags ==
  ASSUME AdapterType, ManagerType, LowerNext, ~EventToQueue, ~TakeScan, ~TakeScanDone
  PROVE  ScanFlags
<1> USE DEF ScanFlags, AdapterType, ManagerType
<1>1. ASSUME NEW m \in Modes, NEW ok \in BOOLEAN, SetMode(m, ok)
      PROVE  (adapter'.scan <=> adapter.scan) /\ overtaken' = overtaken
  BY <1>1 DEF SetMode, ModeReached, StartFails, StaStopFails, ApStopFails
<1>2. CASE TakeSetToAp \/ TakeSetToSta \/ TakeSetToIdle
  <2>1. wifi' = wifi /\ wifi_step' # "mark_scan"
    BY <1>2 DEF TakeSetToAp, TakeSetToSta, TakeSetToIdle, ChangeMode, Takes
  <2>2. (adapter'.scan <=> adapter.scan) /\ overtaken' = overtaken
    BY <1>1, <1>2 DEF TakeSetToAp, TakeSetToSta, TakeSetToIdle, ChangeMode, ApConfigRefused,
       StaConfigRefused, adapterVars, Modes
  <2> QED
    BY <2>1, <2>2
<1>3. CASE TakeDisconnect \/ TakeConnected \/ TakeDisconnected
  BY <1>3 DEF TakeDisconnect, StaDisconnect, TakeConnected, TakeDisconnected, Takes, adapterVars
<1>4. CASE SetToAp \/ SetToSta \/ SetToIdle \/ MarkScan
  BY <1>4 DEF SetToAp, SetToSta, SetToIdle, StaConnect, MarkScan, ScanMark, adapterVars
<1>5. CASE SdkStep /\ UNCHANGED managerVars
  BY <1>5 DEF SdkStep, SdkConnected, SdkDisconnected, SdkScanDone, SdkAddress, managerVars
<1>6. CASE TakeEvent(FALSE) /\ Head(events) \in NetifEvents /\ UNCHANGED managerVars
  BY <1>6 DEF TakeEvent, managerVars
<1>7. CASE UNCHANGED adapterVars /\ UNCHANGED <<wifi, wifi_step>>
  BY <1>7 DEF adapterVars
<1>8. CASE CallbackDone /\ UNCHANGED adapterVars
  BY <1>8 DEF adapterVars, CallbackDone
<1> QED
  BY <1>2, <1>3, <1>4, <1>5, <1>6, <1>7, <1>8 DEF LowerNext, TaskStep, Send

LEMMA StepScan ==
  ASSUME AdapterType, ManagerType, LowerNext, ScanInv
  PROVE  ScanInv'
<1>1. CASE EventToQueue
  <2>1. PICK e \in WifiEvents : e = Head(events) /\ events # <<>> /\ events' = Tail(events)
    BY <1>1 DEF EventToQueue, TakeEvent
  <2>2. /\ radio' = radio /\ wifi' = wifi /\ wifi_step' = wifi_step
        /\ lost' = (lost \/ ~Room)
        /\ wifi_queue' = IF Room THEN Append(wifi_queue, CallbackOf[e]) ELSE wifi_queue
        /\ overtaken' = (overtaken \/ (wifi_step = "mark_scan" /\ e = "SCAN_DONE"))
        /\ adapter'.scan <=> adapter.scan /\ e # "SCAN_DONE"
    BY <1>1, <2>1 DEF EventToQueue, TakeEvent, Post, AdapterType
  <2>3. Occurs(events, "SCAN_DONE") <=> e = "SCAN_DONE" \/ Occurs(events', "SCAN_DONE")
    BY <2>1, TailOccurs DEF AdapterType
  <2>4. CallbackOf[e] \in Commands \union Callbacks /\ CallbackOf["SCAN_DONE"] = "CB_SCAN_DONE"
    BY DEF CallbackOf, WifiEvents, Callbacks
  <2>5. Room => \A f : Occurs(wifi_queue', f) <=> Occurs(wifi_queue, f) \/ CallbackOf[e] = f
    BY <2>2, <2>4, AppendOccurs DEF ManagerType
  <2>6. Coming("SCAN_DONE") => Coming("SCAN_DONE")' \/ lost'
    BY <2>2, <2>3, <2>4, <2>5 DEF Coming
  <2> QED
    BY <2>2, <2>3, <2>6 DEF ScanInv
<1>2. CASE ~EventToQueue
  <2>1. QueueMoves
    BY <1>2, StepQueue
  <2>2. Occurs(wifi_queue, "CB_SCAN_DONE") => Occurs(wifi_queue', "CB_SCAN_DONE") \/ TakeScanDone
    <3>1. CASE \E c \in Commands : wifi_queue' = Append(wifi_queue, c)
      BY <3>1, AppendOccurs DEF ManagerType
    <3>2. CASE wifi_queue # <<>> /\ wifi_queue' = Tail(wifi_queue) /\ Head(wifi_queue) # "CB_SCAN_DONE"
      BY <3>2, TailOccurs DEF ManagerType
    <3>3. ASSUME wifi_queue # <<>>, wifi_queue' = Tail(wifi_queue), Head(wifi_queue) = "CB_SCAN_DONE",
                 ~TakeScanDone
          PROVE  FALSE
      <4>1. wifi_queue' # wifi_queue /\ Len(wifi_queue') < Len(wifi_queue)
        BY <3>3 DEF ManagerType
      <4>2. ~\E c \in Commands, ok \in BOOLEAN : Send(c, ok)
        BY <4>1 DEF Send, ManagerType
      <4> QED
        BY <1>2, <3>3, <4>1, <4>2 DEF LowerNext, TaskStep, TakeSetToAp, TakeSetToSta, TakeSetToIdle,
           TakeDisconnect, TakeScan, TakeConnected, TakeDisconnected, Takes, SetToAp, SetToSta,
           SetToIdle, MarkScan, CallbackDone, managerVars
    <3> QED
      BY <2>1, <3>1, <3>2, <3>3 DEF QueueMoves
  <2>3. CASE TakeScanDone
    BY <2>3 DEF TakeScanDone, Takes, adapterVars, ScanInv, ManagerType
  <2>4. CASE TakeScan
    <3>1. wifi' = wifi /\ adapter' = adapter /\ UNCHANGED <<events, overtaken, lost>>
      BY <2>4 DEF TakeScan, ScanStart
    <3>2. /\ radio.scanning => radio'.scanning
          /\ wifi_step' = "mark_scan" => radio'.scanning
      BY <2>4 DEF TakeScan, ScanStart, AdapterType
    <3>3. ~TakeScanDone
      BY <2>4 DEF TakeScan, TakeScanDone, Takes
    <3> QED
      BY <2>2, <3>1, <3>2, <3>3 DEF ScanInv, Coming, CallbackOf, WifiEvents
  <2>5. CASE ~TakeScan /\ ~TakeScanDone
    <3>1. radio.scanning \/ Occurs(events, "SCAN_DONE") => radio'.scanning \/ Occurs(events', "SCAN_DONE")
      <4>1. CASE TakeEvent(FALSE) /\ Head(events) \in NetifEvents
        BY <4>1, TailOccurs DEF TakeEvent, AdapterType, NetifEvents
      <4>2. CASE Raises
        BY <4>2, RaisesScan
      <4> QED
        BY <1>2, <4>1, <4>2, StepRaises DEF LowerNext, adapterVars
    <3>2. ScanFlags /\ lost' = lost
      BY <1>2, <2>1, <2>5, StepFlags DEF QueueMoves
    <3>3. Coming("SCAN_DONE") \/ radio.scanning => Coming("SCAN_DONE")' \/ radio'.scanning
      BY <2>2, <2>5, <3>1 DEF Coming, CallbackOf, WifiEvents
    <3> QED
      BY <3>1, <3>2, <3>3 DEF ScanInv, ScanFlags
  <2> QED
    BY <2>3, <2>4, <2>5
<1> QED
  BY <1>1, <1>2

-----------------------------------------------------------------------------
(* What the network manager waits for, and what the web server is told.     *)

\* What a caller that has yet to write AP_STARTING is going to wait for: an AP
\* that was told before does not count.
StillToCome ==
  \/ Occurs(wifi_queue, "SET_TO_AP")
  \/ wifi_step = "to_ap"
  \/ wifi_step = "AP_STARTED" /\ writes["wifi"] = "nothing"
  \/ ap_failed \/ ap_overtaken

ApInv ==
  /\ ApAwaited
  /\ "AP_STARTING" \in {call, writes["caller"]} => StillToCome
  /\ "AP_STARTING" \notin {writes["wifi"], writes["event"]}
  /\ wifi_step = "AP_STARTED" => wifi.mode = "AP" /\ writes["wifi"] \in {"nothing", "AP_READY"}
  /\ writes["wifi"] # "nothing" => wifi_step \in Told

\* A step that leaves the Wi-Fi task alone and takes nothing from the queue.
LEMMA QueueGrows ==
  ASSUME ManagerType, NEW c \in Commands \union Callbacks,
         wifi_queue' = IF Room THEN Append(wifi_queue, c) ELSE wifi_queue
  PROVE  Occurs(wifi_queue, "SET_TO_AP") => Occurs(wifi_queue', "SET_TO_AP")
BY AppendOccurs DEF ManagerType

LEMMA TaskAp ==
  ASSUME AllTypes, ApInv, WifiWorks
  PROVE  ApInv'
<1> USE DEF AllTypes
<1>1. /\ TaskStep /\ wifi_step \notin Told /\ writes["wifi"] = "nothing"
      /\ UNCHANGED <<net, writes, call, ap_overtaken>>
      /\ ap_failed' = (ap_failed \/ (TakeSetToAp /\ wifi_step' = "receive"))
  <2>1. wifi_step \notin Told
    BY DEF WifiWorks, TaskStep, Told, TakeSetToAp, TakeSetToSta, TakeSetToIdle, TakeDisconnect, TakeScan,
       TakeConnected, TakeDisconnected, TakeScanDone, Takes, SetToAp, SetToSta, SetToIdle, MarkScan
  <2> QED
    BY <2>1 DEF WifiWorks, ApInv
<1>2. CASE TakeSetToAp
  <2>1. wifi_step' \in {"to_ap", "receive"}
    BY <1>2 DEF TakeSetToAp, ChangeMode, Takes
  <2> QED
    BY <1>1, <1>2, <2>1 DEF ApInv, ApAwaited, StillToCome
<1>3. CASE SetToAp
  BY <1>1, <1>3 DEF SetToAp, ApInv, ApAwaited, StillToCome, ManagerType, Told
<1>4. CASE ~TakeSetToAp /\ ~SetToAp
  <2>1. /\ wifi_step # "to_ap" /\ wifi_step' # "AP_STARTED"
        /\ Occurs(wifi_queue, "SET_TO_AP") => Occurs(wifi_queue', "SET_TO_AP")
    <3>1. ASSUME NEW c \in Commands \union Callbacks, c # "SET_TO_AP", Takes(c)
          PROVE  Occurs(wifi_queue, "SET_TO_AP") => Occurs(wifi_queue', "SET_TO_AP")
      BY <3>1, TailOccurs DEF Takes, ManagerType
    <3>2. CASE TakeSetToSta \/ TakeSetToIdle
      BY <3>1, <3>2 DEF TakeSetToSta, TakeSetToIdle, ChangeMode, Takes, Commands
    <3>3. CASE TakeDisconnect \/ TakeScan
      BY <3>1, <3>3 DEF TakeDisconnect, TakeScan, Takes, Commands
    <3>4. CASE TakeConnected \/ TakeDisconnected \/ TakeScanDone
      BY <3>1, <3>4 DEF TakeConnected, TakeDisconnected, TakeScanDone, Takes, Callbacks
    <3>5. CASE SetToSta \/ SetToIdle \/ MarkScan
      BY <3>5 DEF SetToSta, SetToIdle, MarkScan
    <3> QED
      BY <1>1, <1>4, <3>2, <3>3, <3>4, <3>5 DEF TaskStep
  <2> QED
    BY <1>1, <1>4, <2>1 DEF ApInv, ApAwaited, StillToCome, Told
<1> QED
  BY <1>2, <1>3, <1>4

LEMMA TellsAp ==
  ASSUME AllTypes, ApInv, WifiTells
  PROVE  ApInv'
<1> USE DEF AllTypes
<1>1. /\ wifi_step \in Told /\ writes["wifi"] = "nothing"
      /\ UNCHANGED <<net, call, ap_failed, wifi_queue, wifi>>
      /\ ap_overtaken' = (ap_overtaken \/ (wifi_step = "AP_STARTED" /\ "AP_STARTING" \in {call, writes["caller"]}))
      /\ writes' = [writes EXCEPT !["wifi"] = IF net = Heard(wifi_step) THEN "nothing" ELSE Heard(wifi_step)]
      /\ wifi_step' = IF net = Heard(wifi_step) THEN "receive" ELSE wifi_step
  BY DEF WifiTells, Tells, CallbackDone, managerVars
<1>2. /\ writes'["caller"] = writes["caller"] /\ writes'["event"] = writes["event"]
      /\ writes'["wifi"] = IF net = Heard(wifi_step) THEN "nothing" ELSE Heard(wifi_step)
  BY <1>1 DEF NetType, Threads
<1>3. CASE wifi_step = "AP_STARTED"
  <2>1. Heard(wifi_step) = "AP_READY"
    BY <1>3 DEF ApInv, Heard
  <2> QED
    BY <1>1, <1>2, <1>3, <2>1 DEF ApInv, ApAwaited, StillToCome
<1>4. CASE wifi_step # "AP_STARTED"
  <2>1. Heard(wifi_step) \in {net, "CONNECTING", "WAIT_IP", "RECONNECT_WAIT"}
    BY <1>1, <1>4 DEF Heard, Told
  <2> QED
    BY <1>1, <1>2, <1>4, <2>1 DEF ApInv, ApAwaited, StillToCome, Told
<1> QED
  BY <1>3, <1>4

LEMMA WriteAp ==
  ASSUME AllTypes, ApInv, CallerWrites \/ EventWrites \/ WifiWrites
  PROVE  ApInv'
<1> USE DEF AllTypes
<1>1. ASSUME NEW t \in Threads, Write(t)
      PROVE  /\ net' = writes[t] /\ writes[t] # "nothing" /\ writes'[t] = "nothing"
             /\ \A u \in Threads \ {t} : writes'[u] = writes[u]
             /\ UNCHANGED <<call, ap_failed, ap_overtaken>>
  BY <1>1 DEF Write, NetType
<1>2. CASE CallerWrites
  BY <1>1, <1>2 DEF CallerWrites, Threads, managerVars, ApInv, ApAwaited, StillToCome
<1>3. CASE EventWrites
  BY <1>1, <1>3 DEF EventWrites, Threads, managerVars, ApInv, ApAwaited, StillToCome
<1>4. CASE WifiWrites
  BY <1>1, <1>4 DEF WifiWrites, CallbackDone, Threads, ApInv, ApAwaited, StillToCome, Told
<1> QED
  BY <1>2, <1>3, <1>4

LEMMA StepAp ==
  ASSUME AllTypes, ApInv, [Next]_vars
  PROVE  ApInv'
<1> USE DEF AllTypes
<1>1. CASE UNCHANGED <<wifi_queue, wifi, wifi_step, net, writes, call, ap_failed, ap_overtaken>>
  BY <1>1 DEF ApInv, ApAwaited, StillToCome
<1>2. UNCHANGED vars \/ NetInit \/ Sdk \/ MainTakes \/ ServerUp =>
        UNCHANGED <<wifi_queue, wifi, wifi_step, net, writes, call, ap_failed, ap_overtaken>>
  BY DEF vars, NetInit, Sdk, MainTakes, ServerUp, managerVars, netVars
<1>3. ASSUME NEW r \in DOMAIN Request, Ask(r) PROVE ApInv'
  <2>1. PICK ok \in BOOLEAN :
          /\ Send(Request[r].command, ok)
          /\ call' = IF ok THEN Request[r].state ELSE "nothing"
          /\ ap_overtaken' = (ap_overtaken /\ ~(ok /\ r = "ApStart"))
          /\ ap_failed' = (ap_failed /\ ~(ok /\ r = "ApStart"))
    BY <1>3 DEF Ask
  <2>2. UNCHANGED <<wifi, wifi_step, net, writes>>
    BY <1>3, <2>1 DEF Ask, Send
  <2>3. Request[r].command \in Commands \union Callbacks
    BY Requests DEF Commands
  <2>4. CASE ok /\ r = "ApStart"
    <3>1. wifi_queue' = Append(wifi_queue, "SET_TO_AP")
      BY <2>1, <2>4, Requests DEF Send
    <3>2. Occurs(wifi_queue', "SET_TO_AP")
      BY <3>1, <2>3, <2>4, AppendOccurs, Requests DEF ManagerType
    <3> QED
      BY <2>2, <3>2 DEF ApInv, ApAwaited, StillToCome
  <2>5. CASE ~(ok /\ r = "ApStart")
    <3>1. call' # "AP_STARTING"
      BY <2>1, <2>5, Requests
    <3>2. Occurs(wifi_queue, "SET_TO_AP") => Occurs(wifi_queue', "SET_TO_AP")
      BY <2>1, <2>3, QueueGrows DEF Send
    <3>3. ap_overtaken' = ap_overtaken /\ ap_failed' = ap_failed
      BY <2>1, <2>5 DEF NetType
    <3> QED
      BY <2>2, <3>1, <3>2, <3>3 DEF ApInv, ApAwaited, StillToCome
  <2> QED
    BY <2>4, <2>5
<1>4. CASE Answer
  <2>1. writes' = [writes EXCEPT !["caller"] = IF net = call THEN "nothing" ELSE call]
    BY <1>4 DEF Answer, Tells
  <2>2. /\ writes'["caller"] \in {"nothing", call}
        /\ writes'["wifi"] = writes["wifi"] /\ writes'["event"] = writes["event"]
    BY <2>1 DEF NetType, Threads
  <2> QED
    BY <1>4, <2>2 DEF Answer, managerVars, ApInv, ApAwaited, StillToCome
<1>5. ASSUME NEW c \in Commands, AskWifi(c) PROVE ApInv'
  <2>1. Occurs(wifi_queue, "SET_TO_AP") => Occurs(wifi_queue', "SET_TO_AP")
    BY <1>5, QueueGrows DEF AskWifi, Send
  <2> QED
    BY <1>5, <2>1 DEF AskWifi, Send, ApInv, ApAwaited, StillToCome
<1>6. CASE EventForWifi
  <2>1. CallbackOf[Head(events)] \in Commands \union Callbacks
    BY <1>6 DEF EventForWifi, EventToQueue, CallbackOf, WifiEvents, Callbacks
  <2>2. Occurs(wifi_queue, "SET_TO_AP") => Occurs(wifi_queue', "SET_TO_AP")
    BY <1>6, <2>1, QueueGrows DEF EventForWifi, EventToQueue, Post
  <2> QED
    BY <1>6, <2>2 DEF EventForWifi, EventToQueue, Post, netVars, ApInv, ApAwaited, StillToCome
<1>7. CASE EventForNet
  <2> DEFINE s == HeardAddress(Head(events))
  <2>1. s \in {net, "READY", "RECONNECT_WAIT"}
    BY <1>7 DEF EventForNet, HeardAddress, NetifEvents
  <2>2. writes' = [writes EXCEPT !["event"] = IF net = s THEN "nothing" ELSE s]
    BY <1>7 DEF EventForNet, Tells
  <2>3. /\ writes'["event"] # "AP_STARTING"
        /\ writes'["wifi"] = writes["wifi"] /\ writes'["caller"] = writes["caller"]
    BY <2>1, <2>2 DEF NetType, Threads
  <2> QED
    BY <1>7, <2>3 DEF EventForNet, managerVars, ApInv, ApAwaited, StillToCome
<1> QED
  BY <1>1, <1>2, <1>3, <1>4, <1>5, <1>6, <1>7, TaskAp, TellsAp, WriteAp DEF Next, AllTypes

LEMMA StepServer ==
  ASSUME MainType, ServerCalled, [Next]_vars
  PROVE  ServerCalled'
<1>1. ASSUME NEW t, Write(t) PROVE ServerCalled'
  BY <1>1 DEF Write, TellMain, ServerCalled, MainType
<1>2. CASE MainTakes
  BY <1>2 DEF MainTakes, HttpServerStart, ServerCalled, netVars
<1>3. CASE ServerUp
  BY <1>3 DEF ServerUp, ServerCalled, netVars
<1>4. CASE UNCHANGED <<net, mainVars>>
  BY <1>4 DEF mainVars, ServerCalled
<1> QED
  BY <1>1, <1>2, <1>3, <1>4 DEF Next, vars, NetInit, Sdk, Ask, Answer, CallerWrites, AskWifi, WifiWorks,
     WifiTells, WifiWrites, EventForWifi, EventForNet, EventWrites, netVars

-----------------------------------------------------------------------------
(* The theorems. *)

NetInv ==
  AllTypes /\ SidesFollowMode /\ ModesAgree /\ LinkInv /\ ScanInv /\ ApInv /\ ServerCalled

LEMMA InitNet == Init => NetInv
<1> SUFFICES ASSUME Init PROVE NetInv
  OBVIOUS
<1>1. AllTypes
  BY InitType, TypeParts DEF AllTypes
<1>2. SidesFollowMode /\ ModesAgree /\ ScanInv
  BY DEF Init, AdapterInit, ManagerInit, SidesFollowMode, ModesAgree, ScanInv, NeedsSta, NeedsAp
<1>3. LinkInv
  BY DEF Init, AdapterInit, ManagerInit, LinkInv, Followed
<1>4. ApInv /\ ServerCalled
  BY DEF Init, ManagerInit, Threads, ApInv, ApAwaited, ServerCalled
<1> QED
  BY <1>1, <1>2, <1>3, <1>4 DEF NetInv

LEMMA StepNet == NetInv /\ [Next]_vars => NetInv'
<1> SUFFICES ASSUME NetInv, [Next]_vars PROVE NetInv'
  OBVIOUS
<1>1. LowerNext
  BY LowerSteps
<1>2. AllTypes'
  BY StepTypes DEF NetInv, AllTypes
<1>3. SidesFollowMode' /\ ModesAgree'
  BY <1>1, StepSides, StepModes DEF NetInv, AllTypes
<1>4. LinkInv' /\ ScanInv'
  BY <1>1, StepLink, StepScan DEF NetInv, AllTypes
<1>5. ApInv' /\ ServerCalled'
  BY StepAp, StepServer DEF NetInv, AllTypes
<1> QED
  BY <1>2, <1>3, <1>4, <1>5 DEF NetInv

\* Every reachable state has the types and the beliefs of all the layers right.
THEOREM NetInvariant == Spec => []NetInv
<1>1. Init => NetInv
  BY InitNet
<1>2. NetInv /\ [Next]_vars => NetInv'
  BY StepNet
<1> QED
  BY <1>1, <1>2, PTL DEF Spec

\* Types of all the layers: what three threads write of one another's state keeps
\* to its ranges, and the queues to their lengths.
THEOREM NetTypeCorrect == Spec => []TypeOK
<1>1. NetInv => TypeOK
  BY TypeParts DEF NetInv, AllTypes
<1> QED
  BY <1>1, NetInvariant, PTL

\* snfWifiAdapterSetMode: one failed stop leaves no side on that the mode does
\* not need, two leave none off that it needs, over any sequence of changes.
THEOREM RollbackHolds == Spec => []SidesFollowMode
<1>1. NetInv => SidesFollowMode
  BY DEF NetInv
<1> QED
  BY <1>1, NetInvariant, PTL

\* snfWifiProcessEvent: the manager's mode is the adapter's between two events.
THEOREM LayersAgree == Spec => []ModesAgree
<1>1. NetInv => ModesAgree
  BY DEF NetInv
<1> QED
  BY <1>1, NetInvariant, PTL

\* A station called connected is, or the word that it is not is on its way, or a
\* full queue has lost it.
THEOREM LinkIsHonest == Spec => []LinkHonest
<1>1. NetInv => LinkHonest
  BY DEF NetInv, LinkInv, LinkHonest, Coming, CallbackOf, WifiEvents
<1> QED
  BY <1>1, NetInvariant, PTL

\* A scan flag that is set belongs to a scan whose end is still to be told, but
\* for a full queue (the manager's) or an end that overtook the flag (the adapter's).
THEOREM ScanIsHonest == Spec => []ScanHonest
<1>1. NetInv => ScanHonest
  BY DEF NetInv, ScanInv, ScanHonest
<1> QED
  BY <1>1, NetInvariant, PTL

\* snfNetApStart: AP_STARTING waits for an AP that is still to come.
THEOREM ApIsAwaited == Spec => []ApAwaited
<1>1. NetInv => ApAwaited
  BY DEF NetInv, ApInv
<1> QED
  BY <1>1, NetInvariant, PTL

\* netEventCallback: no AP_READY is lost on its way to the web server.
THEOREM ReadyReachesServer == Spec => []ServerCalled
<1>1. NetInv => ServerCalled
  BY DEF NetInv
<1> QED
  BY <1>1, NetInvariant, PTL
=============================================================================
