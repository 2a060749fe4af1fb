------------------------------- MODULE Device -------------------------------
(***************************************************************************)
(* The boot of the device (sonoff_entry.c) over store, console and plug.   *)
(* One pass through sonoffEntry decides between factory and normal mode    *)
(* from the licence, which it reads item by item while the console already *)
(* takes commands, and from a reply that only counts for three seconds.    *)
(* Power may fail at any time; flash is what is left.                      *)
(***************************************************************************)
EXTENDS Cli, Plug

CONSTANTS
  DisableLogRx,  \* SONOFF_DISABLE_LOG_RX: no console in normal mode
  MaxCuts        \* power cuts in a behaviour

ASSUME DeviceAssumption == DisableLogRx \in BOOLEAN /\ MaxCuts \in Nat

VARIABLES
  entry,      \* where sonoffEntry stands, and the licence items it has read
  ram_mac,    \* the address the SDK uses: the chip's or a licence's
  replied,    \* reply_sem was given
  disturbed,  \* history: the console changed the licence since the address was read
  mac_failed, \* history: the SDK refused the address
  cuts

entryVars == <<entry, ram_mac, replied, disturbed, mac_failed, cuts>>
vars == <<nvdmVars, configVars, cliVars, plugVars, entryVars>>

Places ==
  {"tables", "mac", "register", "check", "wait", "late", "over", "start", "plug", "run", "factory"}
At(p) == entry.at = p
Goes(p) == entry' = [at |-> p, read |-> <<>>]

Init ==
  /\ NvdmInit /\ ConfigInit /\ CliInit /\ PlugInit
  /\ entry = [at |-> "tables", read |-> <<>>] /\ ram_mac = "chip"
  /\ replied = FALSE /\ disturbed = FALSE /\ mac_failed = FALSE /\ cuts = 0

-----------------------------------------------------------------------------
(* sonoffEntry. *)

\* snfNvdmInit, item by item; its result is only logged.
NvdmTables ==
  /\ At("tables")
  /\ \/ CheckItem(TRUE) /\ UNCHANGED entry
     \/ CheckItem(FALSE) /\ Goes("mac")
     \/ Missing = {} /\ Goes("mac") /\ UNCHANGED nvdmVars
  /\ UNCHANGED <<configVars, cliVars, plugVars, ram_mac, replied, disturbed, mac_failed, cuts>>

\* snfBaseMacApply: nothing to do without a valid address.
BaseMacApply ==
  /\ At("mac") /\ Goes("register")
  /\ \/ ram_mac' = (IF Valid(flash["base_mac"]) THEN flash["base_mac"] ELSE "chip")
        /\ UNCHANGED mac_failed
     \/ mac_failed' = TRUE /\ UNCHANGED ram_mac
  /\ UNCHANGED <<nvdmVars, configVars, cliVars, plugVars, replied, disturbed, cuts>>

\* snfCliInit; without memory there are no commands.
RegisterCommands ==
  /\ At("register") /\ Goes("check") /\ console' \in BOOLEAN
  /\ UNCHANGED <<nvdmVars, configVars, cli, commands, workload, plugVars>>
  /\ UNCHANGED <<ram_mac, replied, disturbed, mac_failed, cuts>>

\* snfLicenseIsValid reads all items before it looks at them; with a licence the
\* entry asks for a reply and opens the window for it, if it has a semaphore.
CheckLicence ==
  /\ At("check")
  /\ IF Len(entry.read) < Len(LicenceItems)
     THEN entry' = [entry EXCEPT !.read = Append(@, flash[LicenceItems[Len(@) + 1]])]
     ELSE \/ Complete(entry.read) /\ (Goes("wait") \/ Goes("start"))
          \/ ~Complete(entry.read) /\ Goes("factory")
  /\ UNCHANGED <<nvdmVars, configVars, cliVars, plugVars>>
  /\ UNCHANGED <<ram_mac, replied, disturbed, mac_failed, cuts>>

\* Mutant: a reply counts as long as the semaphore is there.
ReplyAnyTime ==
  /\ entry.at \in {"wait", "late", "over"} /\ console /\ ~CliBusy
  /\ replied' = TRUE
  /\ UNCHANGED <<nvdmVars, configVars, cliVars, plugVars, entry, ram_mac, disturbed, mac_failed, cuts>>

\* The command factory! within the window, which closes before the wait ends
\* ("late") and before the semaphore is gone ("over").
FactoryReply ==
  /\ At("wait") /\ console /\ ~CliBusy
  /\ replied' = TRUE
  /\ UNCHANGED <<nvdmVars, configVars, cliVars, plugVars, entry, ram_mac, disturbed, mac_failed, cuts>>

\* snfCliWaitFactoryReply: the time runs out, then the wait, then the semaphore goes.
WaitFactoryReply ==
  /\ \/ At("wait") /\ Goes("late")
     \/ entry.at \in {"wait", "late"} /\ replied /\ Goes("factory")
     \/ At("late") /\ ~replied /\ Goes("over")
     \/ At("over") /\ Goes("start")
  /\ UNCHANGED <<nvdmVars, configVars, cliVars, plugVars>>
  /\ UNCHANGED <<ram_mac, replied, disturbed, mac_failed, cuts>>

\* Normal mode: the receiver is switched off, which ends no command in progress,
\* and the main task is started.
StartNormal ==
  /\ At("start") /\ Goes("plug")
  /\ console' = (console /\ ~DisableLogRx)
  /\ UNCHANGED <<nvdmVars, configVars, cli, commands, workload, plugVars>>
  /\ UNCHANGED <<ram_mac, replied, disturbed, mac_failed, cuts>>

\* snfPrivateDeviceStart, after which Matter starts.
StartDevice ==
  /\ At("plug") /\ Goes("run")
  /\ PlugHandleInit
  /\ UNCHANGED <<configVars, cliVars, ram_mac, replied, disturbed, mac_failed, cuts>>

Entry ==
  \/ NvdmTables \/ BaseMacApply \/ RegisterCommands \/ CheckLicence
  \/ WaitFactoryReply \/ StartNormal \/ StartDevice

-----------------------------------------------------------------------------
ConsoleStep ==
  /\ Command \/ CliStep
  /\ disturbed' = (disturbed \/ LicenceValues' # LicenceValues)
  /\ excused' = (excused \/ flash'["plug.onoff"] # flash["plug.onoff"])
  /\ UNCHANGED <<gpio, sets, report, entry, ram_mac, replied, mac_failed, cuts>>

PlugStep ==
  /\ At("run") /\ "plug" \in workload
  /\ HttpToggle \/ AttributeChange \/ InitServer \/ OnOffReportWork \/ RawSet
  /\ UNCHANGED <<configVars, cliVars, entryVars>>

PowerCut ==
  /\ cuts < MaxCuts /\ cuts' = cuts + 1
  /\ CliCut /\ PlugCut
  /\ entry' = [at |-> "tables", read |-> <<>>] /\ ram_mac' = "chip"
  /\ replied' = FALSE /\ disturbed' = FALSE /\ mac_failed' = FALSE
  /\ failed_now' = FALSE /\ UNCHANGED <<flash, fails>>

Next == Entry \/ FactoryReply \/ ConsoleStep \/ PlugStep \/ PowerCut

Spec == Init /\ [][Next]_vars

-----------------------------------------------------------------------------
TypeOK ==
  /\ flash \in [Items -> Contents] /\ fails \in 0 .. MaxFails /\ failed_now \in BOOLEAN
  /\ session \in [local : BOOLEAN, peer : BOOLEAN, own : 0 .. keys, seen : 0 .. keys, mixed : BOOLEAN]
  /\ keys \in 0 .. commands /\ tried \subseteq 0 .. keys /\ torn \in BOOLEAN
  /\ bypassed \subseteq Items
  /\ console \in BOOLEAN /\ commands \in 0 .. MaxCommands /\ workload \in Workloads
  /\ cli.next \in 1 .. Len(cli.plan) + 1
  /\ \A k \in DOMAIN cli.plan : cli.plan[k] \in [item : Items, value : Contents]
  /\ gpio \in {"off", "on"} /\ report \in {"none", "off", "on", "over"} /\ excused \in BOOLEAN
  /\ sets \in [Setters -> [at : {"rest", "gpio", "store"}, value : {"off", "on"}]]
  /\ entry.at \in Places /\ entry.read \in Seq(Contents) /\ ram_mac \in Inputs \union {"chip"}
  /\ replied \in BOOLEAN /\ disturbed \in BOOLEAN /\ mac_failed \in BOOLEAN /\ cuts \in 0 .. MaxCuts

\* The mode fits the licence and the address is the licence's, although the
\* address, each of the items and the reply were taken at different times -
\* unless the console changed the licence in between.
BootFitsLicence ==
  ~disturbed =>
    /\ entry.at \in {"wait", "late", "over", "start", "plug", "run"} =>
         /\ Complete(LicenceValues)
         /\ ram_mac = flash["base_mac"] \/ mac_failed
    /\ At("factory") => replied \/ ~Complete(LicenceValues)

\* A reply that was taken leads to factory mode: the window for it closes before
\* the wait can end without it.
ReplyHonoured == replied => entry.at \in {"wait", "late", "factory"}

\* After the boot no item is missing, whatever was cut before, unless a write has
\* failed since or the user group is being cleaned.
NothingMissing ==
  Gone \in {flash[i] : i \in Items} => At("tables") \/ failed_now \/ cli.name = "user"

\* RelayRemembered, as soon as the plug is in use.
RelayIsStored == At("run") => RelayRemembered
=============================================================================
