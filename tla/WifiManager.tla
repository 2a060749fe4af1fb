----------------------------- MODULE WifiManager -----------------------------
(***************************************************************************)
(* The Wi-Fi manager (sonoff_wifi.c): one queue, one task, and the state   *)
(* the task keeps.  Commands and the adapter's events go through the same  *)
(* queue, nobody waits for room in it, and what does not fit is lost.      *)
(*                                                                         *)
(* The task's handling of an event is cut where another thread can come    *)
(* between: after the adapter changed its mode, after a scan was started,  *)
(* and before the callback that tells the outcome.  Each piece in between  *)
(* is a critical section of the manager's mutex.                           *)
(***************************************************************************)
EXTENDS WifiAdapter

CONSTANT QueueSize      \* SNF_WIFI_EVENT_QUEUE_SIZE

ASSUME QueueSizeAssumption == QueueSize \in Nat \ {0}

VARIABLES
  built,        \* how far snfNetInit came: "nothing", "queue" or "all"
  wifi_queue,   \* the task's events, in order
  wifi,         \* wifi_manage_state: mode, link_status, scan_status
  wifi_step,    \* what the task does next
  lost          \* an event of the SDK found the queue full

managerVars == <<built, wifi_queue, wifi, wifi_step, lost>>

Commands == {"SET_TO_AP", "SET_TO_STA", "SET_TO_IDLE", "DISCONNECT", "SCAN"}
Callbacks == {"CB_CONNECTED", "CB_DISCONNECTED", "CB_SCAN_DONE"}
Told == {"AP_STARTED", "STA_CONNECTING", "STA_CONNECTED", "STA_DISCONNECTED"}
LinkStatus == {"IDLE", "CONNECTING", "CONNECTED", "DISCONNECTING", "DISCONNECTED"}
Steps == {"receive", "to_sta", "to_ap", "to_idle", "mark_scan"} \union Told

\* snfWifiAdapterEventCallback: the events the manager does not know are dropped.
CallbackOf == [e \in WifiEvents |->
  CASE e = "STA_CONNECTED" -> "CB_CONNECTED"
    [] e = "STA_DISCONNECTED" -> "CB_DISCONNECTED"
    [] e = "SCAN_DONE" -> "CB_SCAN_DONE"]

ManagerInit ==
  /\ built = "nothing"
  /\ wifi_queue = <<>>
  /\ wifi = [mode |-> "NONE", link |-> "IDLE", scan |-> FALSE]
  /\ wifi_step = "receive"
  /\ lost = FALSE

\* Mutant: the length of the queue is not looked at.
RoomAlways == built # "nothing"

Room == built # "nothing" /\ Len(wifi_queue) < QueueSize

\* snfWifiEventSend for a command: refused, or queued.
Send(c, ok) ==
  /\ ok = Room
  /\ wifi_queue' = IF Room THEN Append(wifi_queue, c) ELSE wifi_queue
  /\ UNCHANGED <<built, wifi, wifi_step, lost>>

\* snfWifiEventSend for an event: its result is not looked at.
Post(c) ==
  /\ wifi_queue' = IF Room THEN Append(wifi_queue, c) ELSE wifi_queue
  /\ lost' = (lost \/ ~Room)
  /\ UNCHANGED <<built, wifi, wifi_step>>

-----------------------------------------------------------------------------
(* snfWifiProcessEvent, the actions of the task snf_wifi. *)

Takes(c) ==
  /\ built = "all" /\ wifi_step = "receive"
  /\ wifi_queue # <<>> /\ Head(wifi_queue) = c
  /\ wifi_queue' = Tail(wifi_queue)

\* A command that changes the mode: the configuration may be refused, then
\* the adapter's mode may stay; only after both does the manager follow.
ChangeMode(m, next) ==
  \E ok \in BOOLEAN :
    /\ SetMode(m, ok)
    /\ wifi_step' = IF ok THEN next ELSE "receive"

TakeSetToAp ==
  /\ Takes("SET_TO_AP")
  /\ \/ ApConfigRefused /\ UNCHANGED wifi_step
     \/ ChangeMode("AP", "to_ap")
  /\ UNCHANGED <<built, wifi, lost>>

TakeSetToSta ==
  /\ Takes("SET_TO_STA")
  /\ \/ StaConfigRefused /\ UNCHANGED wifi_step
     \/ ChangeMode("STA", "to_sta")
  /\ UNCHANGED <<built, wifi, lost>>

TakeSetToIdle ==
  /\ Takes("SET_TO_IDLE")
  /\ ChangeMode("NONE", "to_idle")
  /\ UNCHANGED <<built, wifi, lost>>

\* Mutant: an AP that is the mode already is not told again.
SetToApOnce ==
  /\ wifi_step = "to_ap"
  /\ wifi_step' = IF wifi.mode = "AP" THEN "receive" ELSE "AP_STARTED"
  /\ wifi' = [wifi EXCEPT !.mode = "AP", !.link = "IDLE"]
  /\ UNCHANGED <<adapterVars, built, wifi_queue, lost>>

SetToAp ==
  /\ wifi_step = "to_ap" /\ wifi_step' = "AP_STARTED"
  /\ wifi' = [wifi EXCEPT !.mode = "AP", !.link = "IDLE"]
  /\ UNCHANGED <<adapterVars, built, wifi_queue, lost>>

\* Mutant: the mode is left as it was.
SetToIdleLink ==
  /\ wifi_step = "to_idle" /\ wifi_step' = "receive"
  /\ wifi' = [wifi EXCEPT !.link = "IDLE"]
  /\ UNCHANGED <<adapterVars, built, wifi_queue, lost>>

SetToIdle ==
  /\ wifi_step = "to_idle" /\ wifi_step' = "receive"
  /\ wifi' = [wifi EXCEPT !.mode = "NONE", !.link = "IDLE"]
  /\ UNCHANGED <<adapterVars, built, wifi_queue, lost>>

SetToSta ==
  /\ wifi_step = "to_sta" /\ wifi_step' = "STA_CONNECTING"
  /\ \E ok \in BOOLEAN :
       /\ StaConnect(ok)
       /\ wifi' = [wifi EXCEPT !.mode = "STA", !.link = IF ok THEN "CONNECTING" ELSE "DISCONNECTED"]
  /\ UNCHANGED <<built, wifi_queue, lost>>

TakeDisconnect ==
  /\ Takes("DISCONNECT")
  /\ \/ wifi.mode # "STA" /\ UNCHANGED <<adapterVars, wifi>>
     \/ /\ wifi.mode = "STA"
        /\ \E ok \in BOOLEAN :
             /\ StaDisconnect(ok)
             /\ wifi' = IF ok THEN [wifi EXCEPT !.link = "DISCONNECTING"] ELSE wifi
  /\ UNCHANGED <<built, wifi_step, lost>>

\* Mutant: a scan counts as running although the adapter refused it.
TakeScanAnyway ==
  /\ Takes("SCAN")
  /\ \E ok \in BOOLEAN :
       /\ ScanStart(ok)
       /\ wifi_step' = IF ok THEN "mark_scan" ELSE "receive"
  /\ wifi' = [wifi EXCEPT !.scan = TRUE]
  /\ UNCHANGED <<built, lost>>

TakeScan ==
  /\ Takes("SCAN")
  /\ \E ok \in BOOLEAN :
       /\ ScanStart(ok)
       /\ wifi_step' = IF ok THEN "mark_scan" ELSE "receive"
  /\ UNCHANGED <<built, wifi, lost>>

MarkScan ==
  /\ wifi_step = "mark_scan" /\ wifi_step' = "receive"
  /\ ScanMark
  /\ wifi' = [wifi EXCEPT !.scan = TRUE]
  /\ UNCHANGED <<built, wifi_queue, lost>>

TakeConnected ==
  /\ Takes("CB_CONNECTED")
  /\ wifi' = [wifi EXCEPT !.link = "CONNECTED"]
  /\ wifi_step' = "STA_CONNECTED"
  /\ UNCHANGED <<adapterVars, built, lost>>

\* Mutant: a disconnection counts in station mode only.
TakeDisconnectedInSta ==
  /\ Takes("CB_DISCONNECTED")
  /\ wifi' = IF wifi.mode = "STA" THEN [wifi EXCEPT !.link = "DISCONNECTED"] ELSE wifi
  /\ wifi_step' = "STA_DISCONNECTED"
  /\ UNCHANGED <<adapterVars, built, lost>>

TakeDisconnected ==
  /\ Takes("CB_DISCONNECTED")
  /\ wifi' = [wifi EXCEPT !.link = "DISCONNECTED"]
  /\ wifi_step' = "STA_DISCONNECTED"
  /\ UNCHANGED <<adapterVars, built, lost>>

TakeScanDone ==
  /\ Takes("CB_SCAN_DONE")
  /\ wifi' = [wifi EXCEPT !.scan = FALSE]
  /\ UNCHANGED <<adapterVars, built, wifi_step, lost>>

TaskStep ==
  \/ TakeSetToAp \/ TakeSetToSta \/ TakeSetToIdle \/ TakeDisconnect \/ TakeScan
  \/ TakeConnected \/ TakeDisconnected \/ TakeScanDone
  \/ SetToAp \/ SetToSta \/ SetToIdle \/ MarkScan

\* eventCallback returned: the task waits for the next event.
CallbackDone ==
  /\ wifi_step \in Told /\ wifi_step' = "receive"
  /\ UNCHANGED <<built, wifi_queue, wifi, lost>>

\* The event thread brings the adapter's next Wi-Fi event to the queue.
EventToQueue ==
  /\ events # <<>> /\ Head(events) \in WifiEvents
  /\ TakeEvent(wifi_step = "mark_scan")
  /\ Post(CallbackOf[Head(events)])

-----------------------------------------------------------------------------
Occurs(s, e) == \E i \in 1 .. Len(s) : s[i] = e
Coming(e) == Occurs(events, e) \/ Occurs(wifi_queue, CallbackOf[e])

\* While the manager calls the station connected the radio is, or the word that
\* it is not is still on its way - or the queue has lost one.
LinkHonest ==
  wifi.link = "CONNECTED" => radio.link = "up" \/ Coming("STA_DISCONNECTED") \/ lost

\* The manager's scan flag ends with the scan unless the queue lost the word;
\* the adapter's unless the word came before the flag was set.
ScanHonest ==
  /\ wifi.scan => radio.scanning \/ Coming("SCAN_DONE") \/ lost
  /\ adapter.scan => radio.scanning \/ Occurs(events, "SCAN_DONE") \/ overtaken

\* Between two events the manager's mode is the adapter's, on the way to a mode
\* the adapter is ahead of it.
ModesAgree ==
  CASE wifi_step = "to_ap" -> adapter.mode = "AP"
    [] wifi_step = "to_sta" -> adapter.mode = "STA"
    [] wifi_step = "to_idle" -> adapter.mode = "NONE"
    [] OTHER -> wifi.mode = adapter.mode
=============================================================================
