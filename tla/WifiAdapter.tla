----------------------------- MODULE WifiAdapter -----------------------------
(***************************************************************************)
(* The Wi-Fi adapter (sonoff_wifi_adapter.c): which sides of the radio it  *)
(* has started, the mode it believes in, the scan flag, and the events the *)
(* SDK raises for it.  The SDK is external: a station link that comes and  *)
(* goes, a scan that ends, and one thread that hands out events in order.  *)
(*                                                                         *)
(* An operation of the adapter is an action with its result as parameter;  *)
(* the manager's task is the only caller of those that change state.  The  *)
(* manager asks for the modes NONE, STA and AP, never for AP_STA.          *)
(***************************************************************************)
EXTENDS Naturals, Sequences

CONSTANT EventLimit     \* events the SDK may have waiting when it raises one

VARIABLES
  adapter,       \* adapter_state: mode, sta_started, ap_started, scan_started
  radio,         \* the SDK: the station's link, and whether a scan runs
  events,        \* events raised by the SDK and not yet handled, in order
  failed_stops,  \* how often the SDK refused to stop a side, up to 3
  overtaken      \* a scan ended before scan_started was set for it

adapterVars == <<adapter, radio, events, failed_stops, overtaken>>

Modes == {"NONE", "STA", "AP"}
Links == {"off", "connecting", "up"}
WifiEvents == {"STA_CONNECTED", "STA_DISCONNECTED", "SCAN_DONE"}
NetifEvents == {"GOT_IP4", "DHCP_TIMEOUT"}

AdapterInit ==
  /\ adapter = [mode |-> "NONE", sta |-> FALSE, ap |-> FALSE, scan |-> FALSE]
  /\ radio = [link |-> "off", scanning |-> FALSE]
  /\ events = <<>>
  /\ failed_stops = 0
  /\ overtaken = FALSE

NeedsSta(m) == m = "STA"
NeedsAp(m) == m = "AP"

\* One more, or two more, failed stops; three is as many as any property counts.
CountFailedStops(n) == failed_stops' = IF failed_stops + n > 3 THEN 3 ELSE failed_stops + n

\* The link ends; the SDK says so when there was one.
EndLink(next) ==
  /\ radio' = [radio EXCEPT !.link = next]
  /\ events' = IF radio.link = "off" THEN events ELSE Append(events, "STA_DISCONNECTED")

\* snfStopSta disconnects before it stops, whatever becomes of the stop.
LeaveStation(leave) == IF leave THEN EndLink("off") ELSE UNCHANGED <<radio, events>>

-----------------------------------------------------------------------------
(***************************************************************************)
(* snfWifiAdapterSetMode: start what the mode needs, then stop what it     *)
(* does not need; a failed stop takes back the start made here, if it can. *)
(***************************************************************************)
ModeReached(m) ==
  /\ adapter' = [adapter EXCEPT !.mode = m, !.sta = NeedsSta(m), !.ap = NeedsAp(m)]
  /\ LeaveStation(adapter.sta /\ ~NeedsSta(m))
  /\ UNCHANGED failed_stops

\* Mutant: the mode is written before the side is started.
StartFailsAfterMode(m) ==
  /\ (NeedsSta(m) /\ ~adapter.sta) \/ (NeedsAp(m) /\ ~adapter.ap)
  /\ adapter' = [adapter EXCEPT !.mode = m]
  /\ UNCHANGED <<radio, events, failed_stops>>

StartFails(m) ==
  /\ (NeedsSta(m) /\ ~adapter.sta) \/ (NeedsAp(m) /\ ~adapter.ap)
  /\ UNCHANGED <<adapter, radio, events, failed_stops>>

StaStopFails(m) ==
  LET here == NeedsAp(m) /\ ~adapter.ap IN
  /\ ~NeedsSta(m) /\ adapter.sta
  /\ \E back \in BOOLEAN :
       /\ back \/ here
       /\ adapter' = [adapter EXCEPT !.ap = @ \/ ~back]
       /\ CountFailedStops(IF back THEN 1 ELSE 2)
  /\ LeaveStation(TRUE)

ApStopFails(m) ==
  LET here == NeedsSta(m) /\ ~adapter.sta IN
  /\ ~NeedsAp(m) /\ adapter.ap
  /\ \E back \in BOOLEAN :
       /\ back \/ here
       /\ adapter' = [adapter EXCEPT !.sta = NeedsSta(m) /\ ~(here /\ back)]
       /\ CountFailedStops(IF back THEN 1 ELSE 2)
  /\ LeaveStation(adapter.sta /\ ~NeedsSta(m))

SetMode(m, ok) ==
  /\ \/ ok /\ m = adapter.mode /\ UNCHANGED <<adapter, radio, events, failed_stops>>
     \/ ok /\ m # adapter.mode /\ ModeReached(m)
     \/ ~ok /\ m # adapter.mode /\ (StartFails(m) \/ StaStopFails(m) \/ ApStopFails(m))
  /\ UNCHANGED overtaken

\* snfWifiAdapterStaSetConfig and snfWifiAdapterApSetConfig check what they are
\* given and hand it to the SDK: either may refuse, neither changes this state.
StaConfigRefused == UNCHANGED adapterVars
ApConfigRefused == UNCHANGED adapterVars

\* snfWifiAdapterStaConnect: refused while the station is not started.  A
\* link that was up ends first.
StaConnect(ok) ==
  /\ \/ ok /\ adapter.sta
        /\ radio' = [radio EXCEPT !.link = "connecting"]
        /\ events' = IF radio.link = "up" THEN Append(events, "STA_DISCONNECTED") ELSE events
     \/ ~ok /\ UNCHANGED <<radio, events>>
  /\ UNCHANGED <<adapter, failed_stops, overtaken>>

StaDisconnect(ok) ==
  /\ IF ok THEN EndLink("off") ELSE UNCHANGED <<radio, events>>
  /\ UNCHANGED <<adapter, failed_stops, overtaken>>

\* snfWifiAdapterScan: the SDK starts the scan, and only then the flag is set.
ScanStart(ok) ==
  /\ ok => ~adapter.scan
  /\ radio' = [radio EXCEPT !.scanning = @ \/ ok]
  /\ UNCHANGED <<adapter, events, failed_stops, overtaken>>

ScanMark ==
  /\ adapter' = [adapter EXCEPT !.scan = TRUE]
  /\ UNCHANGED <<radio, events, failed_stops, overtaken>>

-----------------------------------------------------------------------------
(* What the SDK does by itself. *)

Raise(e) == Len(events) < EventLimit /\ events' = Append(events, e)

SdkConnected ==
  /\ radio.link = "connecting" /\ radio' = [radio EXCEPT !.link = "up"]
  /\ Raise("STA_CONNECTED")
  /\ UNCHANGED <<adapter, failed_stops, overtaken>>

\* The link is lost, or was never made; the SDK may try again by itself.
SdkDisconnected ==
  /\ radio.link # "off"
  /\ \E next \in {"off", "connecting"} : radio' = [radio EXCEPT !.link = next]
  /\ Raise("STA_DISCONNECTED")
  /\ UNCHANGED <<adapter, failed_stops, overtaken>>

SdkAddress(e) ==
  /\ radio.link = "up" /\ Raise(e)
  /\ UNCHANGED <<adapter, radio, failed_stops, overtaken>>

SdkScanDone ==
  /\ radio.scanning /\ radio' = [radio EXCEPT !.scanning = FALSE]
  /\ Raise("SCAN_DONE")
  /\ UNCHANGED <<adapter, failed_stops, overtaken>>

SdkStep == SdkConnected \/ SdkDisconnected \/ SdkScanDone \/ \E e \in NetifEvents : SdkAddress(e)

\* snfSdkEventHandler takes the next event; "marking" says the manager's task
\* stands between the start of a scan and the flag.
TakeEvent(marking) ==
  /\ events # <<>> /\ events' = Tail(events)
  /\ adapter' = [adapter EXCEPT !.scan = @ /\ Head(events) # "SCAN_DONE"]
  /\ overtaken' = (overtaken \/ (marking /\ Head(events) = "SCAN_DONE"))
  /\ UNCHANGED <<radio, failed_stops>>

\* snfWifiAdapterSetMode rolls back what it cannot finish: it takes two failed
\* stops to leave a side running that the mode does not need, and three to
\* leave a mode whose own side is stopped.
SidesFollowMode ==
  /\ failed_stops <= 2 => (NeedsSta(adapter.mode) => adapter.sta) /\ (NeedsAp(adapter.mode) => adapter.ap)
  /\ failed_stops <= 1 => (adapter.sta => NeedsSta(adapter.mode)) /\ (adapter.ap => NeedsAp(adapter.mode))
=============================================================================
