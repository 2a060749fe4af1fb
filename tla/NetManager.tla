----------------------------- MODULE NetManager -----------------------------
(***************************************************************************)
(* The network manager (sonoff_net.c) over the Wi-Fi manager, with the     *)
(* main task (sonoff_main.c) and the start of the HTTP server              *)
(* (sonoff_http.c) behind it.  The network state has neither a task nor a  *)
(* lock: the caller of its interface, the Wi-Fi task and the SDK's event   *)
(* thread all change it, each by looking at the state (with its filter)    *)
(* and writing it in a step of its own.                                    *)
(***************************************************************************)
EXTENDS WifiManager

CONSTANTS
  MaxRequests,      \* requests made through either interface in a behaviour
  MainQueueSize,    \* SONOFF_MAIN_EVENT_QUEUE_SIZE
  CliUsed           \* TRUE when the CLI calls the Wi-Fi manager past this one

ASSUME NetAssumption == MaxRequests \in Nat /\ MainQueueSize \in Nat

VARIABLES
  net,           \* net_manage_state.state
  writes,        \* the state each thread is about to write, "nothing" otherwise
  call,          \* the state the caller's request stands for, once it is queued
  requests,      \* requests made so far
  ap_failed,     \* the Wi-Fi manager gave up on an AP start
  ap_overtaken,  \* AP_STARTED was told while the caller had yet to write AP_STARTING
  main_queue,    \* events waiting for the main task
  http,          \* the HTTP server: "off", "starting" or "listening"
  http_failed    \* the server's task could not be created, or no socket

netVars == <<net, writes, call, requests, ap_failed, ap_overtaken>>
mainVars == <<main_queue, http, http_failed>>
vars == <<adapterVars, managerVars, netVars, mainVars>>

Threads == {"caller", "wifi", "event"}
NetStates ==
  {"IDLE", "CONNECTING", "WAIT_IP", "READY", "RECONNECT_WAIT", "AP_STARTING", "AP_READY"}
NotStation == {"IDLE", "AP_STARTING", "AP_READY"}

\* The four requests: the command they queue and the state they announce.
Request ==
  [StaConnect |-> [command |-> "SET_TO_STA", state |-> "CONNECTING"],
   StaDisconnect |-> [command |-> "DISCONNECT", state |-> "IDLE"],
   ApStart |-> [command |-> "SET_TO_AP", state |-> "AP_STARTING"],
   ApStop |-> [command |-> "SET_TO_IDLE", state |-> "IDLE"]]

Init ==
  /\ AdapterInit /\ ManagerInit
  /\ net = "IDLE"
  /\ writes = [t \in Threads |-> "nothing"]
  /\ call = "nothing"
  /\ requests = 0
  /\ ap_failed = FALSE /\ ap_overtaken = FALSE
  /\ main_queue = <<>> /\ http = "off" /\ http_failed = FALSE

\* snfNetInit, once at boot: the queue may be all there is of the Wi-Fi manager.
NetInit ==
  /\ built = "nothing" /\ built' \in {"queue", "all"}
  /\ UNCHANGED <<adapterVars, wifi_queue, wifi, wifi_step, lost, netVars, mainVars>>

-----------------------------------------------------------------------------
\* snfNetNotifyState, its comparison: an equal state is not told again.
Tells(t, s) == writes' = [writes EXCEPT ![t] = IF net = s THEN "nothing" ELSE s]

\* Mutant: an AP that was not announced is not told.
TellMainExpected(s) ==
  IF s = "AP_READY" /\ net = "AP_STARTING"
  THEN Len(main_queue) < MainQueueSize /\ main_queue' = Append(main_queue, s)
  ELSE UNCHANGED main_queue

\* netEventCallback: AP_READY goes to the main task, for which the thread waits
\* as long as the queue is full.
TellMain(s) ==
  IF s = "AP_READY"
  THEN Len(main_queue) < MainQueueSize /\ main_queue' = Append(main_queue, s)
  ELSE UNCHANGED main_queue

\* Its assignment and its callback.
Write(t) ==
  /\ writes[t] # "nothing" /\ net' = writes[t]
  /\ TellMain(writes[t])
  /\ writes' = [writes EXCEPT ![t] = "nothing"]
  /\ UNCHANGED <<call, requests, ap_failed, ap_overtaken, http, http_failed>>

CallerWrites == Write("caller") /\ UNCHANGED <<adapterVars, managerVars>>
EventWrites == Write("event") /\ UNCHANGED <<adapterVars, managerVars>>
WifiWrites == Write("wifi") /\ CallbackDone /\ UNCHANGED adapterVars

\* The caller: a request is queued, and then the state it stands for is told.
Ask(r) ==
  /\ built = "all" /\ call = "nothing" /\ writes["caller"] = "nothing"
  /\ requests < MaxRequests /\ requests' = requests + 1
  /\ \E ok \in BOOLEAN :
       /\ Send(Request[r].command, ok)
       /\ call' = IF ok THEN Request[r].state ELSE "nothing"
       /\ ap_overtaken' = (ap_overtaken /\ ~(ok /\ r = "ApStart"))
       /\ ap_failed' = (ap_failed /\ ~(ok /\ r = "ApStart"))
  /\ UNCHANGED <<adapterVars, net, writes, mainVars>>

Answer ==
  /\ call # "nothing" /\ call' = "nothing"
  /\ Tells("caller", call)
  /\ UNCHANGED <<adapterVars, managerVars, net, requests, ap_failed, ap_overtaken, mainVars>>

\* The CLI, and snfNetScan: straight to the Wi-Fi manager.
AskWifi(c) ==
  /\ c = "SCAN" \/ CliUsed
  /\ requests < MaxRequests /\ requests' = requests + 1
  /\ \E ok \in BOOLEAN : Send(c, ok)
  /\ UNCHANGED <<adapterVars, net, writes, call, ap_failed, ap_overtaken, mainVars>>

-----------------------------------------------------------------------------
\* snfNetWifiEventCallback in the Wi-Fi task: the filter, event by event.
Heard(e) ==
  CASE e = "STA_CONNECTING" -> IF net \in NotStation THEN net ELSE "CONNECTING"
    [] e = "STA_CONNECTED" -> IF net \in NotStation \union {"READY"} THEN net ELSE "WAIT_IP"
    [] e = "STA_DISCONNECTED" -> IF net \in NotStation THEN net ELSE "RECONNECT_WAIT"
    [] e = "AP_STARTED" -> IF wifi.mode = "AP" THEN "AP_READY" ELSE net

WifiTells ==
  /\ wifi_step \in Told /\ writes["wifi"] = "nothing"
  /\ Tells("wifi", Heard(wifi_step))
  /\ IF net = Heard(wifi_step) THEN CallbackDone ELSE UNCHANGED managerVars
  /\ ap_overtaken' = (ap_overtaken \/ (wifi_step = "AP_STARTED" /\ "AP_STARTING" \in {call, writes["caller"]}))
  /\ UNCHANGED <<adapterVars, net, call, requests, ap_failed, mainVars>>

\* A step of the Wi-Fi task that tells nothing; one that drops an AP start is noted.
WifiWorks ==
  /\ TaskStep
  /\ ap_failed' = (ap_failed \/ (TakeSetToAp /\ wifi_step' = "receive"))
  /\ UNCHANGED <<net, writes, call, requests, ap_overtaken, mainVars>>

\* The event thread: a Wi-Fi event goes to the queue, an address event is
\* filtered and told (snfNetAdapterEventCallback).
HeardAddress(e) ==
  CASE e = "GOT_IP4" -> IF net \in NotStation \union {"RECONNECT_WAIT"} THEN net ELSE "READY"
    [] e = "DHCP_TIMEOUT" -> IF net \in {"WAIT_IP", "READY"} THEN "RECONNECT_WAIT" ELSE net

EventForWifi ==
  /\ writes["event"] = "nothing" /\ EventToQueue
  /\ UNCHANGED <<netVars, mainVars>>

EventForNet ==
  /\ writes["event"] = "nothing"
  /\ events # <<>> /\ Head(events) \in NetifEvents
  /\ TakeEvent(FALSE)
  /\ Tells("event", HeardAddress(Head(events)))
  /\ UNCHANGED <<managerVars, net, call, requests, ap_failed, ap_overtaken, mainVars>>

Sdk == SdkStep /\ UNCHANGED <<managerVars, netVars, mainVars>>

-----------------------------------------------------------------------------
\* snfHttpServerStart, which does nothing when it has been called before.
HttpServerStart ==
  \/ http # "off" /\ UNCHANGED <<http, http_failed>>
  \/ http = "off" /\ http' = "starting" /\ UNCHANGED http_failed
  \/ http = "off" /\ http_failed' = TRUE /\ UNCHANGED http

\* snfMainTask.
MainTakes ==
  /\ main_queue # <<>> /\ main_queue' = Tail(main_queue)
  /\ HttpServerStart
  /\ UNCHANGED <<adapterVars, managerVars, netVars>>

\* snfHttpServerTask: it listens for good, or ends and may be started again.
ServerUp ==
  /\ http = "starting"
  /\ \/ http' = "listening" /\ UNCHANGED http_failed
     \/ http' = "off" /\ http_failed' = TRUE
  /\ UNCHANGED <<adapterVars, managerVars, netVars, main_queue>>

Next ==
  \/ NetInit \/ Sdk
  \/ \E r \in DOMAIN Request : Ask(r)
  \/ Answer \/ CallerWrites
  \/ \E c \in Commands : AskWifi(c)
  \/ WifiWorks \/ WifiTells \/ WifiWrites
  \/ EventForWifi \/ EventForNet \/ EventWrites
  \/ MainTakes \/ ServerUp

Spec == Init /\ [][Next]_vars

-----------------------------------------------------------------------------
TypeOK ==
  /\ adapter \in [mode : Modes, sta : BOOLEAN, ap : BOOLEAN, scan : BOOLEAN]
  /\ radio \in [link : Links, scanning : BOOLEAN]
  /\ events \in Seq(WifiEvents \union NetifEvents)
  /\ failed_stops \in 0 .. 3
  /\ overtaken \in BOOLEAN /\ lost \in BOOLEAN
  /\ built \in {"nothing", "queue", "all"}
  /\ wifi_queue \in Seq(Commands \union Callbacks) /\ Len(wifi_queue) <= QueueSize
  /\ wifi \in [mode : Modes, link : LinkStatus, scan : BOOLEAN]
  /\ wifi_step \in Steps
  /\ net \in NetStates
  /\ writes \in [Threads -> NetStates \union {"nothing"}]
  /\ call \in NetStates \union {"nothing"}
  /\ requests \in 0 .. MaxRequests
  /\ ap_failed \in BOOLEAN /\ ap_overtaken \in BOOLEAN
  /\ main_queue \in Seq({"AP_READY"}) /\ Len(main_queue) <= MainQueueSize
  /\ http \in {"off", "starting", "listening"} /\ http_failed \in BOOLEAN

\* A network manager in AP_STARTING waits for something that is still to come -
\* unless the start failed, or was answered before the state was written.
ApAwaited ==
  net = "AP_STARTING" =>
    \/ Occurs(wifi_queue, "SET_TO_AP")
    \/ wifi_step \in {"to_ap", "AP_STARTED"}
    \/ ap_failed \/ ap_overtaken

\* The word that the AP is ready does not get lost on the way to the web server:
\* the main task has it, or the server was started, or could not be.
ServerCalled ==
  net = "AP_READY" => main_queue # <<>> \/ http # "off" \/ http_failed

\* Nothing is on its way: no request, event, callback or write.
Quiet ==
  /\ wifi_queue = <<>> /\ events = <<>> /\ wifi_step = "receive" /\ call = "nothing"
  /\ \A t \in Threads : writes[t] = "nothing"

\* What the documentation says of AP_READY: the AP was started, and is there
\* once nothing is on its way any more.
ReadyMeansApUp == Quiet /\ net = "AP_READY" => adapter.ap
=============================================================================
