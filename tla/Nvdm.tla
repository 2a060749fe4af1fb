-------------------------------- MODULE Nvdm --------------------------------
(***************************************************************************)
(* The NVDM store (sonoff_nvdm.c, sonoff_nvdm_port.c): registered items in *)
(* flash, each written by itself and as a whole; EasyFlash below it is     *)
(* external.  An operation on several items is a list of single writes,    *)
(* and between any two of them another task may act or power may fail.     *)
(***************************************************************************)
EXTENDS Integers, Sequences, SequencesExt

CONSTANTS
  Inputs,         \* valid values an operator may enter
  FactoryFields,  \* the items of AT+MT_FACTORY_DATA_WRITE, in order
  MaxFails        \* flash writes that fail in a behaviour

VARIABLES
  flash,       \* what each item holds, Gone when it is not there
  fails,       \* failed writes so far
  failed_now   \* one of them since the last boot

nvdmVars == <<flash, fails, failed_now>>

UserItems == <<"wifi.ssid", "wifi.password", "plug.onoff">>
LicenceItems == <<"device_id", "apikey", "base_mac", "model", "uiid">>
CertItems == <<"dac_cert", "dac_key", "pai_cert">>
ItemTables ==
  UserItems \o <<"serial", "active_code">> \o LicenceItems \o FactoryFields \o <<"cd">> \o CertItems
Items == ToSet(ItemTables)

Gone == "gone"
Empty == ""
\* The tables' defaults; base_mac's is no valid address.
Default(i) ==
  CASE i = "plug.onoff" -> "off"
    [] i \in ToSet(UserItems) \union ToSet(FactoryFields) \union {"base_mac"} -> "default"
    [] OTHER -> Empty
Contents == Inputs \union {Gone, Empty, "default", "off", "on"}

ASSUME NvdmAssumption ==
  /\ Inputs \intersect {Gone, Empty, "default", "off", "on"} = {}
  /\ FactoryFields \in Seq(STRING)
  /\ ToSet(FactoryFields) \intersect ToSet(UserItems \o LicenceItems \o CertItems) = {}
  /\ MaxFails \in Nat

\* A chip fresh from production holds none of the items, one that left the
\* factory all that is written there and the user's defaults.
NvdmInit ==
  /\ \/ flash = [i \in Items |-> Gone]
     \/ \E l \in Inputs : flash = [i \in Items |-> IF i \in ToSet(UserItems) THEN Default(i) ELSE l]
  /\ fails = 0 /\ failed_now = FALSE

\* snfNvdmWriteStr, and snfNvdmPortDelete, which what is not there satisfies: done,
\* or failed and nothing changed.
Store(i, v, ok) ==
  /\ ok \/ fails < MaxFails
  /\ flash' = IF ok THEN [flash EXCEPT ![i] = v] ELSE flash
  /\ fails' = IF ok THEN fails ELSE fails + 1
  /\ failed_now' = (failed_now \/ ~ok)

-----------------------------------------------------------------------------
(* Lists of writes. *)

To(i, v) == [item |-> i, value |-> v]
Writing(items, v) == [k \in 1 .. Len(items) |-> To(items[k], v)]
Erasing(items) == Writing(items, Empty)

\* snfNvdmCleanUserGroup: each item is deleted and gets its default.
CleanUserGroup ==
  [k \in 1 .. 2 * Len(UserItems) |->
    LET i == UserItems[(k + 1) \div 2] IN To(i, IF k % 2 = 1 THEN Gone ELSE Default(i))]

-----------------------------------------------------------------------------
(* nvdmCheckDefaultValue at boot: each table's missing items get their     *)
(* defaults, up to the first write that fails.                             *)

\* Mutant: the user group is not checked.
MissingFactory == {k \in 4 .. Len(ItemTables) : flash[ItemTables[k]] = Gone}

Missing == {k \in 1 .. Len(ItemTables) : flash[ItemTables[k]] = Gone}
FirstMissing == ItemTables[CHOOSE k \in Missing : \A l \in Missing : k <= l]

CheckItem(ok) == Missing # {} /\ Store(FirstMissing, Default(FirstMissing), ok)
=============================================================================
