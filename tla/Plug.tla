-------------------------------- MODULE Plug --------------------------------
(***************************************************************************)
(* The relay (sonoff_plug_handle.c) and the tasks that set it: the HTTP    *)
(* server's with its toggle, and Matter's with attribute changes and the   *)
(* report of the start-up state.  snfPlugOnOffRawSet drives the GPIO and   *)
(* then stores the value, without a lock around the two.                   *)
(***************************************************************************)
EXTENDS Nvdm

VARIABLES
  gpio,     \* the output: "on" or "off"
  sets,     \* what each task is about to do to the relay
  report,   \* the state the start-up report will write
  excused   \* history: relay and store may differ, by an overlap or a failure

plugVars == <<gpio, sets, report, excused>>

Setters == {"http", "matter"}
NoSet == [at |-> "rest", value |-> "off"]
Opposite(v) == IF v = "on" THEN "off" ELSE "on"

\* What a reset leaves of the plug: the output is off until it is driven.
PlugInit ==
  /\ gpio = "off"
  /\ sets = [t \in Setters |-> NoSet]
  /\ report = "none" /\ excused = FALSE

Asks(t, v) ==
  /\ sets[t] = NoSet
  /\ sets' = [sets EXCEPT ![t] = [at |-> "gpio", value |-> v]]
  /\ UNCHANGED <<nvdmVars, gpio, excused>>

\* snfHttpCgiToggle looks at the output and asks for the opposite.
HttpToggle == Asks("http", Opposite(gpio)) /\ UNCHANGED report

\* OnOnOffPostAttributeChangeCallback.
AttributeChange == \E v \in {"off", "on"} : Asks("matter", v) /\ UNCHANGED report

\* InitServer reads the output and schedules a report of it, which the queue
\* may refuse.
InitServer ==
  /\ report = "none" /\ report' \in {gpio, "over"}
  /\ UNCHANGED <<nvdmVars, gpio, sets, excused>>

\* onOffReportWork: a value that is the attribute's already calls nobody.
OnOffReportWork ==
  /\ report \in {"off", "on"} /\ report' = "over"
  /\ Asks("matter", report) \/ UNCHANGED <<nvdmVars, gpio, sets, excused>>

-----------------------------------------------------------------------------
(* snfPlugOnOffRawSet. *)

SetGpio(t) ==
  /\ sets[t].at = "gpio"
  /\ \/ /\ gpio' = sets[t].value /\ sets' = [sets EXCEPT ![t].at = "store"]
        /\ excused' = \E o \in Setters \ {t} : sets[o].at = "store"
     \/ sets' = [sets EXCEPT ![t] = NoSet] /\ UNCHANGED <<gpio, excused>>
  /\ UNCHANGED <<nvdmVars, report>>

\* Mutant: the state is not stored.
SetStoreNever(t) ==
  /\ sets[t].at = "store" /\ sets' = [sets EXCEPT ![t] = NoSet]
  /\ UNCHANGED <<nvdmVars, gpio, report, excused>>

\* Whether it could be stored is not looked at.
SetStore(t) ==
  /\ sets[t].at = "store" /\ sets' = [sets EXCEPT ![t] = NoSet]
  /\ \E ok \in BOOLEAN : Store("plug.onoff", sets[t].value, ok) /\ excused' = (excused \/ ~ok)
  /\ UNCHANGED <<gpio, report>>

RawSet == \E t \in Setters : SetGpio(t) \/ SetStore(t)

-----------------------------------------------------------------------------
\* Mutant: whatever is stored drives the output.
PlugHandleInitAsStored ==
  /\ gpio' = flash["plug.onoff"] /\ excused' = FALSE
  /\ UNCHANGED <<nvdmVars, sets, report>>

\* snfPlugHandleInit: the stored state, or nothing when the pin cannot be set up.
PlugHandleInit ==
  /\ \/ gpio' = (IF flash["plug.onoff"] = "on" THEN "on" ELSE "off") /\ excused' = FALSE
     \/ UNCHANGED gpio /\ excused' = TRUE
  /\ UNCHANGED <<nvdmVars, sets, report>>

PlugCut == gpio' = "off" /\ sets' = [t \in Setters |-> NoSet] /\ report' = "none" /\ excused' = FALSE

PlugAtRest == \A t \in Setters : sets[t] = NoSet

\* At rest the relay is as it was stored, and so comes back after a power cut,
\* unless two sets overlapped, a write failed, or the console wrote the item.
RelayRemembered ==
  PlugAtRest /\ ~excused => (gpio = "on" <=> flash["plug.onoff"] = "on")
=============================================================================
