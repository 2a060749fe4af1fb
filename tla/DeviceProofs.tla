---------------------------- MODULE DeviceProofs ----------------------------
(***************************************************************************)
(* The device between power cuts, for any inputs and factory fields, and    *)
(* any number of commands, failed writes and cuts: groups of items against  *)
(* what the boot, the console and the relay make of them.                   *)
(***************************************************************************)
EXTENDS Device, SequenceTheorems, TLAPS

-----------------------------------------------------------------------------
(* Items and lists of writes. *)

UserSet == {"wifi.ssid", "wifi.password", "plug.onoff"}
LicenceSet == {"device_id", "apikey", "base_mac", "model", "uiid"}
CertSet == {"dac_cert", "dac_key", "pai_cert"}
FieldSet == ToSet(FactoryFields)
Singles == {"serial", "active_code", "cd"}
Named == UserSet \union LicenceSet \union CertSet \union FieldSet \union Singles

LEMMA Elements ==
  ASSUME NEW S, NEW s \in Seq(S)
  PROVE  ToSet(s) = {s[k] : k \in 1 .. Len(s)}
<1>1. DOMAIN s = 1 .. Len(s)
  OBVIOUS
<1> QED
  BY <1>1 DEF ToSet

LEMMA ConcatRange ==
  ASSUME NEW S, NEW s \in Seq(S), NEW t \in Seq(S)
  PROVE  ToSet(s \o t) = ToSet(s) \union ToSet(t)
<1> DEFINE u == s \o t
<1>1. /\ u \in Seq(S) /\ Len(u) = Len(s) + Len(t)
      /\ \A k \in 1 .. Len(s) : u[k] = s[k]
      /\ \A k \in 1 .. Len(t) : u[Len(s) + k] = t[k]
  OBVIOUS
<1>2. ToSet(u) = {u[k] : k \in 1 .. Len(u)}
  BY <1>1, Elements
<1>3. ToSet(s) = {s[k] : k \in 1 .. Len(s)} /\ ToSet(t) = {t[k] : k \in 1 .. Len(t)}
  BY Elements
<1>4. Len(s) \in Nat /\ Len(t) \in Nat
  OBVIOUS
<1> HIDE DEF u
<1>5. ASSUME NEW k \in 1 .. Len(u) PROVE u[k] \in ToSet(s) \union ToSet(t)
  <2>1. CASE k \in 1 .. Len(s)
    BY <1>1, <1>3, <2>1
  <2>2. CASE k \notin 1 .. Len(s)
    <3>1. k - Len(s) \in 1 .. Len(t) /\ k = Len(s) + (k - Len(s))
      BY <1>1, <1>4, <2>2
    <3> QED
      BY <1>1, <1>3, <3>1
  <2> QED
    BY <2>1, <2>2
<1>6. ASSUME NEW k \in 1 .. Len(s) PROVE s[k] \in ToSet(u)
  <2>1. k \in 1 .. Len(u) /\ u[k] = s[k]
    BY <1>1, <1>4
  <2> QED
    BY <1>2, <2>1
<1>7. ASSUME NEW k \in 1 .. Len(t) PROVE t[k] \in ToSet(u)
  <2>1. Len(s) + k \in 1 .. Len(u) /\ u[Len(s) + k] = t[k]
    BY <1>1, <1>4
  <2> QED
    BY <1>2, <2>1
<1>8. ToSet(u) = ToSet(s) \union ToSet(t)
  BY <1>2, <1>3, <1>5, <1>6, <1>7
<1> QED
  BY <1>8 DEF u

LEMMA ItemLists ==
  /\ UserItems \in Seq(Named) /\ Len(UserItems) = 3 /\ ToSet(UserItems) = UserSet
  /\ LicenceItems \in Seq(Named) /\ Len(LicenceItems) = 5 /\ ToSet(LicenceItems) = LicenceSet
  /\ CertItems \in Seq(Named) /\ Len(CertItems) = 3 /\ ToSet(CertItems) = CertSet
  /\ FactoryFields \in Seq(Named) /\ ToSet(FactoryFields) = FieldSet
<1>1. UserItems \in Seq(Named) /\ Len(UserItems) = 3
  BY DEF UserItems, Named, UserSet
<1>2. LicenceItems \in Seq(Named) /\ Len(LicenceItems) = 5
  BY DEF LicenceItems, Named, LicenceSet
<1>3. CertItems \in Seq(Named) /\ Len(CertItems) = 3
  BY DEF CertItems, Named, CertSet
<1>4. 1 .. 3 = {1, 2, 3} /\ 1 .. 5 = {1, 2, 3, 4, 5}
  OBVIOUS
<1>5. ToSet(UserItems) = UserSet
  <2>1. ToSet(UserItems) = {UserItems[k] : k \in {1, 2, 3}}
    BY <1>1, <1>4, Elements
  <2> QED
    BY <2>1 DEF UserItems, UserSet
<1>6. ToSet(LicenceItems) = LicenceSet
  <2>1. ToSet(LicenceItems) = {LicenceItems[k] : k \in {1, 2, 3, 4, 5}}
    BY <1>2, <1>4, Elements
  <2> QED
    BY <2>1 DEF LicenceItems, LicenceSet
<1>7. ToSet(CertItems) = CertSet
  <2>1. ToSet(CertItems) = {CertItems[k] : k \in {1, 2, 3}}
    BY <1>3, <1>4, Elements
  <2> QED
    BY <2>1 DEF CertItems, CertSet
<1>8. FactoryFields \in Seq(Named) /\ ToSet(FactoryFields) = FieldSet
  <2>1. FactoryFields \in Seq(STRING) /\ FieldSet = {FactoryFields[k] : k \in 1 .. Len(FactoryFields)}
    BY NvdmAssumption, Elements DEF FieldSet
  <2>2. \A k \in 1 .. Len(FactoryFields) : FactoryFields[k] \in Named
    BY <2>1 DEF Named
  <2>3. FactoryFields = [k \in 1 .. Len(FactoryFields) |-> FactoryFields[k]] /\ Len(FactoryFields) \in Nat
    BY <2>1
  <2>4. FactoryFields \in [1 .. Len(FactoryFields) -> Named]
    BY <2>2, <2>3
  <2> QED
    BY <2>3, <2>4, SeqDef DEF FieldSet
<1> QED
  BY <1>1, <1>2, <1>3, <1>5, <1>6, <1>7, <1>8

LEMMA FieldsApart == FieldSet \intersect (UserSet \union LicenceSet \union CertSet) = {}
<1> DEFINE two == UserItems \o LicenceItems
           three == two \o CertItems
<1>1. two \in Seq(Named) /\ ToSet(two) = ToSet(UserItems) \union ToSet(LicenceItems)
  BY ItemLists, ConcatRange
<1>2. three = UserItems \o LicenceItems \o CertItems
  OBVIOUS
<1> HIDE DEF two
<1>3. ToSet(three) = ToSet(two) \union ToSet(CertItems)
  BY <1>1, ItemLists, ConcatRange
<1>4. ToSet(FactoryFields) \intersect ToSet(three) = {}
  BY <1>2, NvdmAssumption
<1> HIDE DEF three
<1> QED
  BY <1>1, <1>3, <1>4, ItemLists

\* The tables hold the groups, the factory fields and the single items.
LEMMA AllItems == Items = Named /\ ItemTables \in Seq(Items)
<1> DEFINE pair == <<"serial", "active_code">>
           one == <<"cd">>
<1>1. pair \in Seq(Named) /\ one \in Seq(Named) /\ Len(pair) = 2 /\ Len(one) = 1
  BY DEF Named, Singles
<1>2. ToSet(pair) = {"serial", "active_code"} /\ ToSet(one) = {"cd"}
  <2>1. 1 .. 2 = {1, 2} /\ 1 .. 1 = {1}
    OBVIOUS
  <2>2. ToSet(pair) = {pair[k] : k \in {1, 2}} /\ ToSet(one) = {one[k] : k \in {1}}
    BY <1>1, <2>1, Elements
  <2>3. pair[1] = "serial" /\ pair[2] = "active_code" /\ one[1] = "cd"
    OBVIOUS
  <2> QED
    BY <2>2, <2>3
<1> HIDE DEF pair, one
<1>3. /\ UserItems \in Seq(Named) /\ LicenceItems \in Seq(Named) /\ FactoryFields \in Seq(Named)
      /\ CertItems \in Seq(Named)
  BY ItemLists
<1>4. UserItems \o pair \in Seq(Named) /\ ToSet(UserItems \o pair) = ToSet(UserItems) \union ToSet(pair)
  BY <1>1, <1>3, ConcatRange
<1>5. PICK u \in Seq(Named) : u = UserItems \o pair /\ ToSet(u) = ToSet(UserItems) \union ToSet(pair)
  BY <1>4
<1>6. u \o LicenceItems \in Seq(Named) /\ ToSet(u \o LicenceItems) = ToSet(u) \union ToSet(LicenceItems)
  BY <1>1, <1>3, ConcatRange
<1>7. PICK v \in Seq(Named) : v = u \o LicenceItems /\ ToSet(v) = ToSet(u) \union ToSet(LicenceItems)
  BY <1>6
<1>8. v \o FactoryFields \in Seq(Named) /\ ToSet(v \o FactoryFields) = ToSet(v) \union ToSet(FactoryFields)
  BY <1>1, <1>3, ConcatRange
<1>9. PICK w \in Seq(Named) : w = v \o FactoryFields /\ ToSet(w) = ToSet(v) \union ToSet(FactoryFields)
  BY <1>8
<1>10. w \o one \in Seq(Named) /\ ToSet(w \o one) = ToSet(w) \union ToSet(one)
  BY <1>1, <1>3, ConcatRange
<1>11. PICK x \in Seq(Named) : x = w \o one /\ ToSet(x) = ToSet(w) \union ToSet(one)
  BY <1>10
<1>12. x \o CertItems \in Seq(Named) /\ ToSet(x \o CertItems) = ToSet(x) \union ToSet(CertItems)
  BY <1>1, <1>3, ConcatRange
<1>13. PICK y \in Seq(Named) : y = x \o CertItems /\ ToSet(y) = ToSet(x) \union ToSet(CertItems)
  BY <1>12
<1>14. ItemTables = y
  BY <1>5, <1>7, <1>9, <1>11, <1>13 DEF ItemTables, pair, one
<1> QED
  BY <1>2, <1>5, <1>7, <1>9, <1>11, <1>13, <1>14, ItemLists DEF Items, Named, Singles

LEMMA TablesHoldItems == Items = {ItemTables[k] : k \in 1 .. Len(ItemTables)}
BY AllItems, Elements DEF Items

LEMMA GroupsApart ==
  /\ UserSet \intersect LicenceSet = {} /\ UserSet \intersect CertSet = {}
  /\ LicenceSet \intersect CertSet = {}
  /\ (FieldSet \union Singles) \intersect (UserSet \union LicenceSet \union CertSet) = {}
<1>1. Singles \intersect (UserSet \union LicenceSet \union CertSet) = {}
  BY DEF Singles, UserSet, LicenceSet, CertSet
<1> QED
  BY <1>1, FieldsApart DEF UserSet, LicenceSet, CertSet

\* A number of an item in its group, and the item.
LEMMA ItemNumbers ==
  /\ LicenceItems[1] = "device_id" /\ LicenceItems[2] = "apikey" /\ LicenceItems[3] = "base_mac"
  /\ LicenceItems[4] = "model" /\ LicenceItems[5] = "uiid"
  /\ CertItems[1] = "dac_cert" /\ CertItems[2] = "dac_key" /\ CertItems[3] = "pai_cert"
  /\ UserItems[1] = "wifi.ssid" /\ UserItems[2] = "wifi.password" /\ UserItems[3] = "plug.onoff"
BY DEF LicenceItems, CertItems, UserItems

LEMMA DefaultIsNoInput == \A i : Default(i) \in Contents /\ Default(i) \notin Inputs /\ Default(i) # Gone
BY NvdmAssumption DEF Default, Contents, Gone, Empty

LEMMA WritingShape ==
  ASSUME NEW S, NEW items \in Seq(S), NEW v
  PROVE  /\ Writing(items, v) \in Seq([item : S, value : {v}])
         /\ Len(Writing(items, v)) = Len(items)
         /\ \A k \in 1 .. Len(items) : Writing(items, v)[k] = To(items[k], v)
<1> DEFINE T == [item : S, value : {v}]
<1>1. Len(items) \in Nat /\ \A k \in 1 .. Len(items) : To(items[k], v) \in T
  BY DEF To
<1> HIDE DEF T
<1>2. Writing(items, v) \in [1 .. Len(items) -> T]
  BY <1>1 DEF Writing
<1>3. Writing(items, v) \in Seq(T)
  BY <1>1, <1>2, SeqDef
<1>4. Len(Writing(items, v)) = Len(items)
  BY <1>1 DEF Writing
<1>5. \A k \in 1 .. Len(items) : Writing(items, v)[k] = To(items[k], v)
  BY DEF Writing
<1> QED
  BY <1>3, <1>4, <1>5 DEF T

-----------------------------------------------------------------------------
(* What a command may be doing, and to which items. *)

Names == {"none", "licence_write", "licence_delete", "factory_data", "item",
          "cert_write", "cert_undo", "cert_delete", "user", "nvdm_write"}
CertNames == {"cert_write", "cert_undo", "cert_delete"}

Group(name) ==
  IF name \in LicenceCommands THEN LicenceSet
  ELSE IF name \in CertNames THEN CertSet
  ELSE IF name = "user" THEN UserSet
  ELSE IF name = "nvdm_write" THEN Items
  ELSE FieldSet \union Singles

LicencePlan(v) == LicenseClear \o Writing(LicenceItems, v)
SinglePlans == {<<To(i, v)>> : i \in Singles, v \in Inputs \union {Empty}}

Planned(name, plan) ==
  \/ plan = <<>>
  \/ name \in LicenceCommands /\ plan = LicenseClear
  \/ name = "licence_write" /\ \E v \in Inputs : plan = LicencePlan(v)
  \/ name = "factory_data" /\ \E v \in Inputs, good \in 0 .. Len(FactoryFields) : plan = FactoryData(v, good)
  \/ name = "item" /\ plan \in SinglePlans
  \/ name = "cert_write" /\ \E p \in Inputs : plan = SecureCertWrite(p)
  \/ name \in {"cert_undo", "cert_delete"} /\ plan = SecureCertClear
  \/ name = "user" /\ plan = CleanUserGroup
  \/ name = "nvdm_write" /\ \E i \in Items : \E v \in Typed(i) : plan = <<To(i, v)>>

CliInv ==
  /\ DOMAIN cli = {"name", "plan", "next"} /\ cli.name \in Names
  /\ Planned(cli.name, cli.plan)
  /\ cli.next \in 1 .. Len(cli.plan) + 1
  /\ cli.name = "none" => cli = NoCommand

\* The licence is cleared first, and then written.
LEMMA LicencePlanShape ==
  ASSUME NEW v \in Inputs
  PROVE  /\ LicencePlan(v) \in Seq([item : LicenceSet, value : Inputs \union {Empty}])
         /\ Len(LicencePlan(v)) = 10
         /\ \A k \in 1 .. 5 : LicencePlan(v)[k] = To(LicenceItems[k], Empty)
         /\ \A k \in 6 .. 10 : LicencePlan(v)[k] = To(LicenceItems[k - 5], v)
<1> DEFINE R == [item : LicenceSet, value : Inputs \union {Empty}]
<1>1. LicenceItems \in Seq(LicenceSet) /\ Len(LicenceItems) = 5
  BY DEF LicenceItems, LicenceSet
<1>2. \A u : /\ Writing(LicenceItems, u) \in Seq([item : LicenceSet, value : {u}])
             /\ Len(Writing(LicenceItems, u)) = 5
             /\ \A k \in 1 .. 5 : Writing(LicenceItems, u)[k] = To(LicenceItems[k], u)
  BY <1>1, WritingShape
<1>3. [item : LicenceSet, value : {Empty}] \subseteq R /\ [item : LicenceSet, value : {v}] \subseteq R
  OBVIOUS
<1> DEFINE c == LicenseClear
           w == Writing(LicenceItems, v)
<1>4. /\ c \in Seq([item : LicenceSet, value : {Empty}]) /\ Len(c) = 5
      /\ \A k \in 1 .. 5 : c[k] = To(LicenceItems[k], Empty)
  BY <1>2 DEF LicenseClear, Erasing
<1>5. /\ w \in Seq([item : LicenceSet, value : {v}]) /\ Len(w) = 5
      /\ \A k \in 1 .. 5 : w[k] = To(LicenceItems[k], v)
  BY <1>2
<1> HIDE DEF R, c, w
<1>6. c \in Seq(R) /\ w \in Seq(R)
  <2>1. \A S : [item : LicenceSet, value : {Empty}] \subseteq S => c \in Seq(S)
    BY <1>4, SeqMonotonic
  <2>2. \A S : [item : LicenceSet, value : {v}] \subseteq S => w \in Seq(S)
    BY <1>5, SeqMonotonic
  <2> QED
    BY <1>3, <2>1, <2>2
<1>7. /\ c \o w \in Seq(R) /\ Len(c \o w) = 10
      /\ \A k \in 1 .. 5 : (c \o w)[k] = c[k]
      /\ \A k \in 6 .. 10 : (c \o w)[k] = w[k - 5]
  <2>1. /\ c \o w \in Seq(R) /\ Len(c \o w) = Len(c) + Len(w)
        /\ \A k \in 1 .. Len(c) + Len(w) : (c \o w)[k] = IF k <= Len(c) THEN c[k] ELSE w[k - Len(c)]
    BY <1>6, ConcatProperties
  <2> QED
    BY <1>4, <1>5, <2>1
<1>8. LicencePlan(v) = c \o w
  BY DEF LicencePlan, c, w
<1> QED
  BY <1>4, <1>5, <1>7, <1>8 DEF R

\* Each item of the user's group is deleted and gets its default.
LEMMA CleanShape ==
  /\ CleanUserGroup \in Seq([item : UserSet, value : Contents]) /\ Len(CleanUserGroup) = 6
  /\ \A m \in 1 .. 3 : /\ CleanUserGroup[2 * m - 1] = To(UserItems[m], Gone)
                       /\ CleanUserGroup[2 * m] = To(UserItems[m], Default(UserItems[m]))
<1> DEFINE T == [item : UserSet, value : Contents]
           V(k) == LET i == UserItems[(k + 1) \div 2] IN To(i, IF k % 2 = 1 THEN Gone ELSE Default(i))
<1>1. Len(UserItems) = 3
  BY ItemLists
<1>2. CleanUserGroup = [k \in 1 .. 6 |-> V(k)]
  BY <1>1 DEF CleanUserGroup
<1>3. \A k \in 1 .. 6 : (k + 1) \div 2 \in 1 .. 3
  OBVIOUS
<1>4. \A m \in 1 .. 3 : UserItems[m] \in UserSet
  BY ItemNumbers DEF UserSet
<1>5. \A k \in 1 .. 6 : V(k) \in T
  BY <1>3, <1>4, DefaultIsNoInput DEF To, Contents
<1>6. \A m \in 1 .. 3 : /\ 2 * m - 1 \in 1 .. 6 /\ (2 * m - 1 + 1) \div 2 = m /\ (2 * m - 1) % 2 = 1
                        /\ 2 * m \in 1 .. 6 /\ (2 * m + 1) \div 2 = m /\ (2 * m) % 2 = 0
  OBVIOUS
<1>7. \A m \in 1 .. 3 : V(2 * m - 1) = To(UserItems[m], Gone) /\ V(2 * m) = To(UserItems[m], Default(UserItems[m]))
  BY <1>6
<1> HIDE DEF T, V
<1>8. CleanUserGroup \in [1 .. 6 -> T]
  BY <1>2, <1>5
<1>9. CleanUserGroup \in Seq(T) /\ Len(CleanUserGroup) = 6
  <2>1. CleanUserGroup \in Seq(T)
    BY <1>8, SeqDef
  <2> QED
    BY <1>2, <2>1
<1> QED
  BY <1>2, <1>6, <1>7, <1>9 DEF T

\* A text that is typed is no default that counts as an input, and deletes nothing.
LEMMA TypedValues == \A i : \A v \in Typed(i) : v \in Contents /\ v # Gone
BY NvdmAssumption DEF Typed, Contents, Gone

\* A command writes only to the items of its group, and only the cleaning of the
\* user's deletes any.
LEMMA PlanWrites ==
  ASSUME NEW name, NEW plan, Planned(name, plan)
  PROVE  /\ Len(plan) \in Nat /\ DOMAIN plan = 1 .. Len(plan)
         /\ \A k \in 1 .. Len(plan) : /\ plan[k] \in [item : Group(name), value : Contents]
                                      /\ name # "user" => plan[k].value # Gone
<1> DEFINE Good(S, V) == /\ Len(plan) \in Nat /\ DOMAIN plan = 1 .. Len(plan)
                         /\ \A k \in 1 .. Len(plan) : plan[k] \in [item : S, value : V]
<1>1. \A v : /\ v \in Inputs => v \in Contents /\ v # Gone
             /\ v \in {Empty, "off", "on"} => v \in Contents /\ v # Gone
  BY NvdmAssumption DEF Contents, Gone, Empty
<1>2. /\ LicenceItems \in Seq(LicenceSet) /\ Len(LicenceItems) = 5
      /\ CertItems \in Seq(CertSet) /\ Len(CertItems) = 3
  BY DEF LicenceItems, LicenceSet, CertItems, CertSet
<1>3. ASSUME NEW S, NEW items \in Seq(S), NEW v, plan = Writing(items, v)
      PROVE  Good(S, {v})
  <2>1. plan \in Seq([item : S, value : {v}])
    BY <1>3, WritingShape
  <2> QED
    BY <2>1, LenProperties, ElementOfSeq
<1>4. CASE plan = <<>>
  BY <1>4
<1>5. CASE name \in LicenceCommands /\ plan = LicenseClear
  <2>1. Good(LicenceSet, {Empty})
    BY <1>2, <1>3, <1>5 DEF LicenseClear, Erasing
  <2> QED
    BY <1>1, <1>5, <2>1 DEF Group, LicenceCommands
<1>6. CASE name = "licence_write" /\ \E v \in Inputs : plan = LicencePlan(v)
  <2>1. Good(LicenceSet, Inputs \union {Empty})
    <3>1. plan \in Seq([item : LicenceSet, value : Inputs \union {Empty}])
      BY <1>6, LicencePlanShape
    <3> QED
      BY <3>1, LenProperties, ElementOfSeq
  <2> QED
    BY <1>1, <1>6, <2>1 DEF Group, LicenceCommands
<1>7. CASE name = "factory_data" /\ \E v \in Inputs, good \in 0 .. Len(FactoryFields) : plan = FactoryData(v, good)
  <2>1. PICK v \in Inputs, good \in 0 .. Len(FactoryFields) : plan = FactoryData(v, good)
    BY <1>7
  <2>2. FactoryFields \in Seq(FieldSet)
    <3>1. FactoryFields \in [1 .. Len(FactoryFields) -> FieldSet] /\ Len(FactoryFields) \in Nat
      BY NvdmAssumption, Elements, LenProperties DEF FieldSet
    <3> QED
      BY <3>1, SeqDef
  <2>3. SubSeq(FactoryFields, 1, good) \in Seq(FieldSet)
    BY <2>2, SubSeqProperties, LenProperties
  <2>4. Good(FieldSet, {v})
    BY <1>3, <2>1, <2>3 DEF FactoryData
  <2> QED
    BY <1>1, <1>7, <2>4 DEF Group, LicenceCommands, CertNames
<1>8. CASE name = "item" /\ plan \in SinglePlans
  <2>1. Good(Singles, Inputs \union {Empty})
    BY <1>8 DEF SinglePlans, To
  <2> QED
    BY <1>1, <1>8, <2>1 DEF Group, LicenceCommands, CertNames
<1>9. CASE name = "cert_write" /\ \E p \in Inputs : plan = SecureCertWrite(p)
  <2>1. PICK p \in Inputs : plan = SecureCertWrite(p)
    BY <1>9
  <2>2. Good(CertSet, {p})
    BY <1>2, <1>3, <2>1 DEF SecureCertWrite
  <2> QED
    BY <1>1, <1>9, <2>2 DEF Group, LicenceCommands, CertNames
<1>10. CASE name \in {"cert_undo", "cert_delete"} /\ plan = SecureCertClear
  <2>1. Good(CertSet, {Empty})
    BY <1>2, <1>3, <1>10 DEF SecureCertClear, Erasing
  <2> QED
    BY <1>1, <1>10, <2>1 DEF Group, LicenceCommands, CertNames
<1>11. CASE name = "user" /\ plan = CleanUserGroup
  <2>1. Good(UserSet, Contents)
    <3>1. plan \in Seq([item : UserSet, value : Contents])
      BY <1>11, CleanShape
    <3> QED
      BY <3>1, LenProperties, ElementOfSeq
  <2> QED
    BY <1>11, <2>1 DEF Group, LicenceCommands, CertNames
<1>12. CASE name = "nvdm_write" /\ \E i \in Items : \E v \in Typed(i) : plan = <<To(i, v)>>
  <2>1. PICK i \in Items : \E v \in Typed(i) : plan = <<To(i, v)>>
    BY <1>12
  <2>2. PICK v \in Typed(i) : plan = <<To(i, v)>>
    BY <2>1
  <2>3. v \in Contents /\ v # Gone
    BY TypedValues
  <2>4. Good(Items, Contents \ {Gone})
    BY <2>2, <2>3 DEF To
  <2> QED
    BY <1>12, <2>4 DEF Group, LicenceCommands, CertNames
<1> QED
  BY <1>4, <1>5, <1>6, <1>7, <1>8, <1>9, <1>10, <1>11, <1>12, Planned(name, plan) DEF Planned

-----------------------------------------------------------------------------
(* The invariant. *)

DataTypes ==
  /\ flash \in [Items -> Contents] /\ fails \in 0 .. MaxFails /\ failed_now \in BOOLEAN
  /\ session \in [local : BOOLEAN, peer : BOOLEAN, own : 0 .. keys, seen : 0 .. keys, mixed : BOOLEAN]
  /\ keys \in 0 .. commands /\ tried \subseteq 0 .. keys /\ torn \in BOOLEAN
  /\ bypassed \subseteq Items
  /\ console \in BOOLEAN /\ commands \in 0 .. MaxCommands /\ workload \in Workloads
  /\ gpio \in {"off", "on"} /\ report \in {"none", "off", "on", "over"} /\ excused \in BOOLEAN
  /\ sets \in [Setters -> [at : {"rest", "gpio", "store"}, value : {"off", "on"}]]
  /\ entry \in [at : Places, read : Seq(Contents)] /\ ram_mac \in Inputs \union {"chip"}
  /\ replied \in BOOLEAN /\ disturbed \in BOOLEAN /\ mac_failed \in BOOLEAN /\ cuts \in 0 .. MaxCuts

\* The console takes no command before it is registered.
ConsoleInv == entry.at \in {"tables", "mac", "register"} => ~console /\ cli = NoCommand

\* What the address and the items that were read have to do with the flash, as
\* long as the console leaves the licence alone.
Mac == IF Valid(flash["base_mac"]) THEN flash["base_mac"] ELSE "chip"
BootInv ==
  /\ At("check") \/ entry.read = <<>>
  /\ Len(entry.read) \in 0 .. 5
  /\ ~disturbed =>
       /\ \A k \in 1 .. Len(entry.read) : entry.read[k] = flash[LicenceItems[k]]
       /\ entry.at \notin {"tables", "mac"} => mac_failed \/ ram_mac = Mac
       /\ entry.at \in {"wait", "late", "over", "start", "plug", "run"} => Complete(LicenceValues)
       /\ At("factory") => replied \/ ~Complete(LicenceValues)

\* The keys of a session are the last ones made, and unused unless a certificate
\* is being written.
SessionInv ==
  /\ session.local => session.own = keys
  /\ session.peer => session.seen = keys
  /\ session.local /\ cli.name \notin CertCommands => session.own \notin tried

\* Without an excuse at most one task is between relay and store, with the value
\* of the relay.
RelayInv ==
  /\ ~At("run") => \A t \in Setters : sets[t] = NoSet
  /\ At("run") /\ ~excused =>
       /\ ~(sets["http"].at = "store" /\ sets["matter"].at = "store")
       /\ \A t \in Setters : sets[t].at = "store" => gpio = sets[t].value
       /\ \/ \E t \in Setters : sets[t].at = "store"
          \/ gpio = "on" <=> flash["plug.onoff"] = "on"

\* What the business checks let into these items comes from one input, whether all
\* of it is there or not.
Agree(items) ==
  \A i, j \in items \ bypassed :
    flash[i] \in Inputs /\ flash[j] \in Inputs => flash[i] = flash[j]

\* A licence that is being written has been cleared: there is nothing of another
\* frame, and nothing that went around the checks, left.
LicenceInv ==
  /\ Agree(LicenceSet)
  /\ cli.name = "licence_write" /\ Len(cli.plan) = 10 =>
       \E v \in Inputs :
         /\ cli.plan = LicencePlan(v)
         /\ cli.next > 1 => \A k \in 1 .. 5 :
              /\ k + 5 < cli.next => flash[LicenceItems[k]] = v
              /\ k < cli.next /\ cli.next <= k + 5 => flash[LicenceItems[k]] = Empty

CertsGood == torn \/ Agree(CertSet)
CertInv ==
  /\ cli.name = "cert_write" /\ cli.plan # <<>> =>
       \E p \in Inputs : /\ cli.plan = SecureCertWrite(p)
                         /\ \A k \in 1 .. 3 : k < cli.next => flash[CertItems[k]] = p
  /\ cli.name \in {"cert_undo", "cert_delete"} /\ cli.plan # <<>> =>
       \A k \in 1 .. 3 : k < cli.next => flash[CertItems[k]] = Empty
  /\ \/ cli.name \notin {"cert_write", "cert_undo"} \/ cli.plan = <<>>
     \/ cli.name = "cert_write" /\ cli.next = 1
     => CertsGood

\* Nothing is missing but what the cleaning of the user's group has just deleted.
Cleaned(i) ==
  /\ cli.name = "user" /\ cli.plan = CleanUserGroup
  /\ \E m \in 1 .. 3 : cli.next = 2 * m /\ i = UserItems[m]
MissInv == At("tables") \/ failed_now \/ \A i \in Items : flash[i] = Gone => Cleaned(i)

DeviceInv ==
  /\ DataTypes /\ CliInv /\ ConsoleInv /\ BootInv /\ ReplyHonoured
  /\ SessionInv /\ RelayInv /\ LicenceInv /\ CertInv /\ MissInv

-----------------------------------------------------------------------------
(* What the steps do to the flash and to the command in progress. *)

LEMMA CliStarts ==
  ASSUME NEW name \in Names, NEW plan, Planned(name, plan), name # "none",
         cli' = [name |-> name, plan |-> plan, next |-> 1]
  PROVE  CliInv'
BY PlanWrites DEF CliInv

LEMMA ClearingShape ==
  /\ LicenseClear \in Seq([item : LicenceSet, value : {Empty}]) /\ Len(LicenseClear) = 5
  /\ \A k \in 1 .. 5 : LicenseClear[k] = To(LicenceItems[k], Empty)
<1>1. LicenceItems \in Seq(LicenceSet) /\ Len(LicenceItems) = 5
  BY DEF LicenceItems, LicenceSet
<1> QED
  BY <1>1, WritingShape DEF LicenseClear, Erasing

LEMMA CertShape ==
  ASSUME NEW v
  PROVE  /\ Len(Writing(CertItems, v)) = 3
         /\ \A k \in 1 .. 3 : Writing(CertItems, v)[k] = To(CertItems[k], v)
<1>1. CertItems \in Seq(CertSet) /\ Len(CertItems) = 3
  BY DEF CertItems, CertSet
<1> QED
  BY <1>1, WritingShape

\* A command begins with what it is going to write, and touches no item yet.
LEMMA CommandStarts ==
  ASSUME CliInv, Command
  PROVE  /\ cli = NoCommand /\ CliInv' /\ UNCHANGED <<nvdmVars, console, workload>>
         /\ commands < MaxCommands /\ commands' = commands + 1
         /\ \/ UNCHANGED configVars /\ cli'.name \notin CertCommands
            \/ (PubKeyGet \/ PubKeySet) /\ cli' = cli
            \/ \E good \in BOOLEAN : Decrypt(good) /\ cli'.name = "cert_write"
         /\ cli'.name = "licence_write" => ~Complete(LicenceValues)
         /\ cli'.next = 1
<1> USE DEF Given, CliBusy
<1>1. CASE AtLicenseWrite
  <2>1. PICK frame \in LicenseFrames :
          Run("licence_write", LicenseClear \o LicenseWrite(frame)) /\ UNCHANGED configVars
    BY <1>1 DEF AtLicenseWrite
  <2>2. Planned("licence_write", LicenseClear \o LicenseWrite(frame))
    <3>1. CASE frame.good
      BY <3>1 DEF LicenseFrames, LicenseWrite, LicencePlan, Planned
    <3>2. CASE ~frame.good
      <4>1. LicenseClear \o <<>> = LicenseClear
        BY ClearingShape, ConcatEmptySeq
      <4> QED
        BY <3>2, <4>1 DEF LicenseWrite, Planned, LicenceCommands
    <3> QED
      BY <3>1, <3>2
  <2>3. CliInv'
    BY <2>1, <2>2, CliStarts DEF Run, Names
  <2> QED
    BY <1>1, <2>1, <2>3 DEF AtLicenseWrite, Run, CertCommands
<1>2. CASE AtLicenseDelete
  <2>1. Planned("licence_delete", LicenseClear)
    BY DEF Planned, LicenceCommands
  <2>2. CliInv'
    BY <1>2, <2>1, CliStarts DEF AtLicenseDelete, Run, Names
  <2> QED
    BY <1>2, <2>2 DEF AtLicenseDelete, Run, CertCommands
<1>3. CASE AtMtFactoryDataWrite
  <2>1. PICK v \in Inputs, good \in 0 .. Len(FactoryFields) :
          Run("factory_data", FactoryData(v, good)) /\ UNCHANGED configVars
    BY <1>3 DEF AtMtFactoryDataWrite
  <2>2. Planned("factory_data", FactoryData(v, good))
    BY DEF Planned
  <2>3. CliInv'
    BY <2>1, <2>2, CliStarts DEF Run, Names
  <2> QED
    BY <2>1, <2>3 DEF Run, CertCommands
<1>4. CASE AtMtSerialNumSet \/ AtActiveCode \/ AtMtCdWrite \/ AtMtCdDelete
  <2>1. PICK plan : plan \in SinglePlans /\ Run("item", plan) /\ UNCHANGED configVars
    <3>1. \A i \in Singles, v \in Inputs \union {Empty} : <<To(i, v)>> \in SinglePlans
      BY DEF SinglePlans
    <3>2. /\ \A v \in Inputs : /\ SerialNumberSet(v) \in SinglePlans /\ ActiveCodeSet(v) \in SinglePlans
                               /\ MatterCdWrite(v) \in SinglePlans
          /\ MatterCdClear \in SinglePlans
      BY <3>1 DEF SerialNumberSet, ActiveCodeSet, MatterCdWrite, MatterCdClear, Singles
    <3> QED
      BY <1>4, <3>2 DEF AtMtSerialNumSet, AtActiveCode, AtMtCdWrite, AtMtCdDelete
  <2>2. CliInv'
    BY <2>1, CliStarts DEF Run, Names, Planned
  <2> QED
    BY <2>1, <2>2 DEF Run, CertCommands
<1>5. CASE AtPubKeyGet \/ AtPubKeySet
  BY <1>5 DEF AtPubKeyGet, AtPubKeySet, CliInv, NoCommand
<1>6. CASE AtSecureCertWrite
  <2>1. PICK package \in Inputs, good \in BOOLEAN :
          /\ Decrypt(good)
          /\ cli' = [name |-> "cert_write", next |-> 1,
                     plan |-> IF good THEN SecureCertWrite(package) ELSE <<>>]
    BY <1>6 DEF AtSecureCertWrite
  <2>2. Planned("cert_write", IF good THEN SecureCertWrite(package) ELSE <<>>)
    BY DEF Planned
  <2>3. CliInv'
    BY <2>1, <2>2, CliStarts DEF Names
  <2> QED
    BY <1>6, <2>1, <2>3 DEF AtSecureCertWrite
<1>7. CASE AtSecureCertDelete
  <2>1. Planned("cert_delete", SecureCertClear)
    BY DEF Planned
  <2>2. CliInv'
    BY <1>7, <2>1, CliStarts DEF AtSecureCertDelete, Names
  <2> QED
    BY <1>7, <2>2 DEF AtSecureCertDelete, CertCommands
<1>8. CASE SnfNvdmClean
  <2>1. CliInv'
    BY <1>8, CliStarts DEF SnfNvdmClean, Run, Names, Planned
  <2> QED
    BY <1>8, <2>1 DEF SnfNvdmClean, Run, CertCommands
<1>9. CASE SnfNvdmWrite
  <2>1. PICK i \in Items : \E v \in Typed(i) :
          Given(i) /\ cli' = [name |-> "nvdm_write", plan |-> <<To(i, v)>>, next |-> 1]
    BY <1>9 DEF SnfNvdmWrite
  <2>2. PICK v \in Typed(i) : cli' = [name |-> "nvdm_write", plan |-> <<To(i, v)>>, next |-> 1]
    BY <2>1
  <2>3. CliInv'
    BY <2>2, CliStarts DEF Names, Planned
  <2> QED
    BY <1>9, <2>1, <2>2, <2>3 DEF SnfNvdmWrite, CertCommands
<1> QED
  BY <1>1, <1>2, <1>3, <1>4, <1>5, <1>6, <1>7, <1>8, <1>9 DEF Command

\* A write that succeeds or fails, of whatever task.
LEMMA StoreTypes ==
  ASSUME DataTypes, NEW i, NEW v \in Contents, NEW ok \in BOOLEAN, Store(i, v, ok)
  PROVE  /\ flash' \in [Items -> Contents] /\ fails' \in 0 .. MaxFails /\ failed_now' \in BOOLEAN
         /\ \A j \in Items : flash'[j] = flash[j] \/ (j = i /\ ok /\ flash'[j] = v)
         /\ ok /\ i \in Items => flash'[i] = v
         /\ ok => failed_now' = failed_now
         /\ ~ok => failed_now' = TRUE /\ flash' = flash
<1>1. CASE ok
  <2>1. flash' = [flash EXCEPT ![i] = v] /\ fails' = fails /\ failed_now' = failed_now
    BY <1>1 DEF Store, DataTypes
  <2> QED
    BY <1>1, <2>1 DEF DataTypes
<1>2. CASE ~ok
  <2>1. flash' = flash /\ fails < MaxFails /\ fails' = fails + 1 /\ failed_now' = TRUE
    BY <1>2 DEF Store
  <2>2. fails' \in 0 .. MaxFails
    BY <2>1, NvdmAssumption DEF DataTypes
  <2>3. flash \in [Items -> Contents]
    BY DEF DataTypes
  <2> QED
    BY <1>2, <2>1, <2>2, <2>3
<1> QED
  BY <1>1, <1>2

\* The console's task goes on: it writes what the command is about to, or nothing.
LEMMA CommandGoesOn ==
  ASSUME DataTypes, CliInv, CliStep
  PROVE  /\ CliInv' /\ cli # NoCommand
         /\ UNCHANGED <<console, commands, workload, keys, tried>> /\ torn' \in BOOLEAN
         /\ flash' \in [Items -> Contents] /\ fails' \in 0 .. MaxFails /\ failed_now' \in BOOLEAN
         /\ CliWrite => /\ Write.item \in Group(cli.name) /\ Write.value \in Contents
                        /\ cli.name # "user" => Write.value # Gone
                        /\ \A j \in Items : flash'[j] = IF j = Write.item THEN Write.value ELSE flash[j]
                        /\ failed_now' = failed_now
         /\ ~CliWrite => flash' = flash
         /\ cli'.name \in LicenceCommands => cli.name \in LicenceCommands
         /\ cli'.name \in CertCommands <=> cli.name \in CertCommands /\ cli' # NoCommand
         /\ cli'.plan # <<>> => cli'.plan = cli.plan \/ cli'.name = "cert_undo"
         /\ bypassed' \subseteq Items
         /\ CliWrite => bypassed' = IF cli.name = "nvdm_write" THEN bypassed \union {Write.item}
                                                              ELSE bypassed \ {Write.item}
         /\ ~CliWrite => bypassed' = bypassed
<1>1. cli.name # "none" \/ cli = NoCommand
  BY DEF CliInv
<1>2. /\ Len(cli.plan) \in Nat
      /\ \A k \in 1 .. Len(cli.plan) : /\ cli.plan[k] \in [item : Group(cli.name), value : Contents]
                                       /\ cli.name # "user" => cli.plan[k].value # Gone
  BY PlanWrites DEF CliInv
<1>3. Writes => cli.next \in 1 .. Len(cli.plan)
  BY <1>2 DEF Writes, CliInv
<1>4. Writes => /\ Write.item \in Group(cli.name) /\ Write.value \in Contents
                /\ cli.name # "user" => Write.value # Gone
  BY <1>2, <1>3 DEF Write
<1>5. CASE CliWrite
  <2>1. Writes /\ Store(Write.item, Write.value, TRUE) /\ cli' = [cli EXCEPT !.next = @ + 1]
        /\ UNCHANGED <<console, commands, workload, keys, tried, torn>>
        /\ bypassed' = IF cli.name = "nvdm_write" THEN bypassed \union {Write.item}
                                                  ELSE bypassed \ {Write.item}
    BY <1>5 DEF CliWrite
  <2>2. cli # NoCommand
    BY <1>3, <2>1 DEF NoCommand
  <2>3. /\ DOMAIN cli' = {"name", "plan", "next"} /\ cli'.name = cli.name /\ cli'.plan = cli.plan
        /\ cli'.next = cli.next + 1
    BY <2>1 DEF CliInv
  <2>4. CliInv'
    BY <1>1, <1>2, <1>3, <2>1, <2>2, <2>3 DEF CliInv
  <2>5. /\ flash' \in [Items -> Contents] /\ fails' \in 0 .. MaxFails /\ failed_now' = failed_now
        /\ \A j \in Items : flash'[j] = IF j = Write.item THEN Write.value ELSE flash[j]
    <3>1. /\ flash' \in [Items -> Contents] /\ fails' \in 0 .. MaxFails /\ failed_now' = failed_now
          /\ \A j \in Items : flash'[j] = flash[j] \/ (j = Write.item /\ flash'[j] = Write.value)
          /\ Write.item \in Items => flash'[Write.item] = Write.value
      BY <1>4, <2>1, StoreTypes
    <3> QED
      BY <3>1
  <2>6. torn' \in BOOLEAN /\ UNCHANGED <<keys, tried>> /\ failed_now \in BOOLEAN
    BY <2>1 DEF DataTypes
  <2>7. bypassed' \subseteq Items
    <3>1. Write.item \in Items
      BY <1>4, <2>1, AllItems DEF Group, Named
    <3> QED
      BY <2>1, <3>1 DEF DataTypes
  <2> QED
    BY <1>4, <1>5, <2>1, <2>2, <2>3, <2>4, <2>5, <2>6, <2>7 DEF NoCommand, CertCommands
<1>6. CASE CliWriteFails
  <2>1. /\ Writes /\ UNCHANGED <<console, commands, workload, session, keys, tried, bypassed>>
        /\ torn' = (torn \/ cli.name = "cert_undo")
        /\ Store(Write.item, Write.value, FALSE)
        /\ \/ cli.name = "cert_write" /\ cli' = [name |-> "cert_undo", plan |-> SecureCertClear, next |-> 1]
           \/ cli' = [cli EXCEPT !.plan = <<>>, !.next = 1]
    BY <1>6 DEF CliWriteFails
  <2>2. cli # NoCommand /\ cli.name # "none"
    BY <1>1, <1>3, <2>1 DEF NoCommand
  <2>3. flash' = flash /\ fails' \in 0 .. MaxFails /\ failed_now' \in BOOLEAN
    BY <1>4, <2>1, StoreTypes
  <2>4. flash \in [Items -> Contents] /\ torn' \in BOOLEAN /\ bypassed \subseteq Items
    BY <2>1 DEF DataTypes
  <2>5. ASSUME CliWrite PROVE FALSE
    <3>1. cli' = [cli EXCEPT !.next = @ + 1] /\ cli.next \in Nat /\ cli.next > 0
      BY <1>3, <1>2, <2>1, <2>5 DEF CliWrite
    <3>2. cli'.next = cli.next + 1
      BY <3>1 DEF CliInv
    <3>3. cli'.next = 1
      <4>1. CASE cli' = [name |-> "cert_undo", plan |-> SecureCertClear, next |-> 1]
        BY <4>1
      <4>2. CASE cli' = [cli EXCEPT !.plan = <<>>, !.next = 1]
        BY <4>2 DEF CliInv
      <4> QED
        BY <2>1, <4>1, <4>2
    <3> QED
      BY <3>1, <3>2, <3>3
  <2>6. CASE cli.name = "cert_write" /\ cli' = [name |-> "cert_undo", plan |-> SecureCertClear, next |-> 1]
    <3>1. CliInv'
      BY <2>6, CliStarts DEF Planned, Names
    <3> QED
      BY <2>1, <2>2, <2>3, <2>4, <2>5, <2>6, <3>1 DEF LicenceCommands, CertCommands, NoCommand
  <2>7. CASE cli' = [cli EXCEPT !.plan = <<>>, !.next = 1]
    <3>1. /\ DOMAIN cli' = {"name", "plan", "next"} /\ cli'.name = cli.name /\ cli'.plan = <<>>
          /\ cli'.next = 1
      BY <2>7 DEF CliInv
    <3>2. CliInv'
      BY <2>2, <3>1 DEF CliInv, Planned
    <3> QED
      BY <2>1, <2>2, <2>3, <2>4, <2>5, <3>1, <3>2 DEF NoCommand
  <2> QED
    BY <2>1, <2>6, <2>7
<1>7. CASE ReadbackFails
  <2>1. /\ cli.name = "cert_write" /\ ~Writes
        /\ cli' = [name |-> "cert_undo", plan |-> SecureCertClear, next |-> 1]
        /\ UNCHANGED <<nvdmVars, console, commands, workload, configVars>>
    BY <1>7 DEF ReadbackFails
  <2>2. CliInv'
    BY <2>1, CliStarts DEF Planned, Names
  <2>3. cli # NoCommand /\ cli' # NoCommand /\ ~CliWrite
    <3>1. cli'.name = "cert_undo" /\ NoCommand.name = "none"
      BY <2>1 DEF NoCommand
    <3> QED
      BY <2>1, <3>1 DEF CliWrite
  <2>4. flash' = flash /\ fails' \in 0 .. MaxFails /\ failed_now' \in BOOLEAN /\ torn' \in BOOLEAN
        /\ UNCHANGED <<keys, tried, bypassed>> /\ flash' \in [Items -> Contents] /\ bypassed \subseteq Items
    BY <2>1 DEF DataTypes, nvdmVars, configVars
  <2> QED
    BY <2>1, <2>2, <2>3, <2>4 DEF LicenceCommands, CertCommands
<1>8. CASE Return
  <2>1. /\ cli # NoCommand /\ cli' = NoCommand /\ ~Writes /\ torn' \in BOOLEAN
        /\ UNCHANGED <<nvdmVars, console, commands, workload, keys, tried, bypassed>>
    BY <1>8 DEF Return, CliBusy, DataTypes
  <2>2. CliInv'
    BY <2>1 DEF CliInv, NoCommand, Names, Planned
  <2> QED
    BY <2>1, <2>2 DEF CliWrite, DataTypes, nvdmVars, NoCommand, LicenceCommands, CertCommands
<1> QED
  BY <1>5, <1>6, <1>7, <1>8 DEF CliStep

LEMMA CliStays ==
  ASSUME DataTypes, CliInv, [Next]_vars
  PROVE  CliInv'
<1>1. CASE Command
  BY <1>1, CommandStarts
<1>2. CASE CliStep
  BY <1>2, CommandGoesOn
<1>3. CASE UNCHANGED cli
  BY <1>3 DEF CliInv
<1>4. CASE cli' = NoCommand
  BY <1>4 DEF CliInv, NoCommand, Names, Planned
<1>5. CASE Entry \/ FactoryReply \/ PlugStep \/ UNCHANGED vars
  <2>1. UNCHANGED cli
    BY <1>5 DEF Entry, NvdmTables, BaseMacApply, RegisterCommands, CheckLicence, WaitFactoryReply,
                StartNormal, StartDevice, FactoryReply, PlugStep, vars, cliVars
  <2> QED
    BY <1>3, <2>1
<1>6. CASE PowerCut
  BY <1>4, <1>6 DEF PowerCut, CliCut
<1> QED
  BY <1>1, <1>2, <1>5, <1>6 DEF Next, ConsoleStep

-----------------------------------------------------------------------------
(* Types. *)

LEMMA TypesInit ==
  ASSUME Init
  PROVE  DataTypes
<1>1. flash \in [Items -> Contents]
  BY DefaultIsNoInput DEF Init, NvdmInit, Contents
<1>2. PlugInit /\ ConfigInit /\ CliInit
  BY DEF Init
<1>3. sets \in [Setters -> [at : {"rest", "gpio", "store"}, value : {"off", "on"}]]
  BY <1>2 DEF PlugInit, NoSet
<1>4. session \in [local : BOOLEAN, peer : BOOLEAN, own : 0 .. keys, seen : 0 .. keys, mixed : BOOLEAN]
  BY <1>2 DEF ConfigInit, NoSession
<1>5. entry \in [at : Places, read : Seq(Contents)]
  BY DEF Init, Places
<1>6. fails \in 0 .. MaxFails /\ commands \in 0 .. MaxCommands /\ cuts \in 0 .. MaxCuts
  BY <1>2, NvdmAssumption, CliAssumption, DeviceAssumption DEF Init, NvdmInit, CliInit
<1>7. keys \in 0 .. commands /\ tried \subseteq 0 .. keys /\ torn \in BOOLEAN /\ bypassed \subseteq Items
  <2>1. keys = 0 /\ commands = 0 /\ tried = {} /\ torn = FALSE /\ bypassed = {}
    BY <1>2 DEF ConfigInit, CliInit
  <2>2. keys \in 0 .. commands /\ tried \subseteq 0 .. keys
    BY <2>1
  <2> QED
    BY <2>1, <2>2
<1>8. /\ failed_now \in BOOLEAN /\ console \in BOOLEAN /\ workload \in Workloads
      /\ gpio \in {"off", "on"} /\ report \in {"none", "off", "on", "over"} /\ excused \in BOOLEAN
  BY <1>2 DEF Init, NvdmInit, CliInit, PlugInit
<1>9. /\ ram_mac \in Inputs \union {"chip"}
      /\ replied \in BOOLEAN /\ disturbed \in BOOLEAN /\ mac_failed \in BOOLEAN
  BY DEF Init
<1> QED
  BY <1>1, <1>3, <1>4, <1>5, <1>6, <1>7, <1>8, <1>9 DEF DataTypes

LEMMA EntryTypes ==
  ASSUME DataTypes, Entry \/ FactoryReply
  PROVE  DataTypes'
<1> DEFINE E == [at : Places, read : Seq(Contents)]
<1>1. \A p \in Places : [at |-> p, read |-> <<>>] \in E
  OBVIOUS
<1>2. entry \in E
  BY DEF DataTypes
<1>3. CASE NvdmTables
  <2>1. entry' \in E
    BY <1>1, <1>2, <1>3 DEF NvdmTables, Goes, Places
  <2>2. flash' \in [Items -> Contents] /\ fails' \in 0 .. MaxFails /\ failed_now' \in BOOLEAN
    <3>1. CASE CheckItem(TRUE) \/ CheckItem(FALSE)
      BY <3>1, StoreTypes, DefaultIsNoInput DEF CheckItem
    <3>2. CASE UNCHANGED nvdmVars
      BY <3>2 DEF nvdmVars, DataTypes
    <3> QED
      BY <1>3, <3>1, <3>2 DEF NvdmTables
  <2> QED
    BY <1>3, <2>1, <2>2 DEF NvdmTables, DataTypes, configVars, cliVars, plugVars
<1>4. CASE BaseMacApply
  <2>1. entry' \in E
    BY <1>1, <1>4 DEF BaseMacApply, Goes, Places
  <2>2. ram_mac' \in Inputs \union {"chip"} /\ mac_failed' \in BOOLEAN
    BY <1>4 DEF BaseMacApply, Valid, DataTypes
  <2> QED
    BY <1>4, <2>1, <2>2 DEF BaseMacApply, DataTypes, nvdmVars, configVars, cliVars, plugVars
<1>5. CASE RegisterCommands
  BY <1>1, <1>5 DEF RegisterCommands, Goes, Places, DataTypes, nvdmVars, configVars, plugVars
<1>6. CASE CheckLicence
  <2>1. entry' \in E
    <3>1. CASE /\ Len(entry.read) < Len(LicenceItems)
               /\ entry' = [entry EXCEPT !.read = Append(@, flash[LicenceItems[Len(@) + 1]])]
      <4>1. Len(entry.read) + 1 \in 1 .. 5
        BY <1>2, <3>1, ItemLists, LenProperties
      <4>2. LicenceItems[Len(entry.read) + 1] \in Items
        BY <4>1, ItemNumbers, AllItems DEF Named, LicenceSet
      <4>3. Append(entry.read, flash[LicenceItems[Len(entry.read) + 1]]) \in Seq(Contents)
        BY <1>2, <4>2, AppendProperties DEF DataTypes
      <4> QED
        BY <1>2, <3>1, <4>3
    <3>2. CASE \E p \in {"wait", "start", "factory"} : Goes(p)
      BY <1>1, <3>2 DEF Goes, Places
    <3> QED
      BY <1>6, <3>1, <3>2 DEF CheckLicence
  <2> QED
    BY <1>6, <2>1 DEF CheckLicence, DataTypes, nvdmVars, configVars, cliVars, plugVars
<1>7. CASE WaitFactoryReply
  <2>1. entry' \in E
    BY <1>1, <1>7 DEF WaitFactoryReply, Goes, Places
  <2> QED
    BY <1>7, <2>1 DEF WaitFactoryReply, DataTypes, nvdmVars, configVars, cliVars, plugVars
<1>8. CASE StartNormal
  BY <1>1, <1>8 DEF StartNormal, Goes, Places, DataTypes, nvdmVars, configVars, plugVars
<1>9. CASE StartDevice
  <2>1. entry' \in E
    BY <1>1, <1>9 DEF StartDevice, Goes, Places
  <2>2. gpio' \in {"off", "on"} /\ excused' \in BOOLEAN /\ UNCHANGED <<sets, report, nvdmVars>>
    BY <1>9 DEF StartDevice, PlugHandleInit, DataTypes
  <2> QED
    BY <1>9, <2>1, <2>2 DEF StartDevice, DataTypes, nvdmVars, configVars, cliVars
<1>10. CASE FactoryReply
  BY <1>10 DEF FactoryReply, DataTypes, nvdmVars, configVars, cliVars, plugVars
<1> QED
  BY <1>3, <1>4, <1>5, <1>6, <1>7, <1>8, <1>9, <1>10 DEF Entry

\* What a command does to the session and its keys.
LEMMA SessionTypes ==
  ASSUME DataTypes, commands' \in Nat, commands < commands',
         UNCHANGED configVars \/ PubKeyGet \/ PubKeySet \/ \E good \in BOOLEAN : Decrypt(good)
  PROVE  /\ session' \in [local : BOOLEAN, peer : BOOLEAN, own : 0 .. keys', seen : 0 .. keys', mixed : BOOLEAN]
         /\ keys' \in 0 .. commands' /\ tried' \subseteq 0 .. keys' /\ torn' \in BOOLEAN
         /\ bypassed' = bypassed
<1> DEFINE S(n) == [local : BOOLEAN, peer : BOOLEAN, own : 0 .. n, seen : 0 .. n, mixed : BOOLEAN]
<1>1. session \in S(keys) /\ keys \in Nat /\ commands \in Nat /\ keys <= commands
      /\ tried \subseteq 0 .. keys /\ torn \in BOOLEAN
  BY CliAssumption DEF DataTypes
<1>2. CASE PubKeyGet
  <2>1. torn' = torn /\ tried' = tried /\ bypassed' = bypassed /\ keys' \in {keys, keys + 1}
    BY <1>2 DEF PubKeyGet
  <2>2. session' \in S(keys')
    <3>1. session \in S(keys') /\ keys' \in Nat /\ keys + 1 \in Nat
      BY <1>1, <2>1
    <3>2. CASE session' = NoSession
      BY <3>1, <3>2 DEF NoSession
    <3>3. CASE session' = [[session EXCEPT !.peer = FALSE, !.mixed = FALSE] EXCEPT !.local = TRUE, !.own = keys + 1]
               /\ keys' = keys + 1
      <4>1. keys + 1 \in 0 .. keys' /\ DOMAIN session = {"local", "peer", "own", "seen", "mixed"}
        BY <3>1, <3>3, <1>1
      <4> QED
        BY <3>1, <3>3, <4>1
    <3>4. CASE session' = [[session EXCEPT !.peer = FALSE, !.mixed = FALSE] EXCEPT !.local = FALSE]
      BY <3>1, <3>4
    <3> QED
      BY <1>2, <3>2, <3>3, <3>4 DEF PubKeyGet
  <2> QED
    BY <1>1, <2>1, <2>2
<1>3. CASE PubKeySet
  <2>1. UNCHANGED <<keys, tried, torn, bypassed>>
    BY <1>3 DEF PubKeySet
  <2>2. session' \in S(keys)
    <3>1. CASE session' = [session EXCEPT !.peer = TRUE, !.seen = keys, !.mixed = FALSE]
      <4>1. keys \in 0 .. keys
        BY <1>1
      <4> QED
        BY <1>1, <3>1, <4>1
    <3>2. CASE session' = [session EXCEPT !.mixed = session.peer]
      BY <1>1, <3>2
    <3> QED
      BY <1>3, <3>1, <3>2 DEF PubKeySet
  <2> QED
    BY <1>1, <2>1, <2>2
<1>4. CASE \E good \in BOOLEAN : Decrypt(good)
  <2>1. UNCHANGED <<session, keys, torn, bypassed>> /\ tried' = tried \union {session.own}
    BY <1>4 DEF Decrypt
  <2>2. session.own \in 0 .. keys
    BY <1>1
  <2>3. keys \in 0 .. commands'
    BY <1>1
  <2> QED
    BY <1>1, <2>1, <2>2, <2>3
<1>5. CASE UNCHANGED configVars
  BY <1>1, <1>5 DEF configVars
<1> QED
  BY <1>2, <1>3, <1>4, <1>5

LEMMA ConsoleTypes ==
  ASSUME DataTypes, CliInv, ConsoleStep
  PROVE  DataTypes'
<1>1. /\ UNCHANGED <<gpio, sets, report, entry, ram_mac, replied, mac_failed, cuts>>
      /\ disturbed' \in BOOLEAN /\ excused' \in BOOLEAN
  BY DEF ConsoleStep, DataTypes
<1>2. CASE Command
  <2>1. /\ UNCHANGED <<nvdmVars, console, workload>>
        /\ commands < MaxCommands /\ commands' = commands + 1
        /\ UNCHANGED configVars \/ PubKeyGet \/ PubKeySet \/ \E good \in BOOLEAN : Decrypt(good)
    BY <1>2, CommandStarts
  <2>2. commands \in Nat /\ commands' \in 0 .. MaxCommands
    BY <2>1, CliAssumption DEF DataTypes
  <2>3. /\ session' \in [local : BOOLEAN, peer : BOOLEAN, own : 0 .. keys', seen : 0 .. keys', mixed : BOOLEAN]
        /\ keys' \in 0 .. commands' /\ tried' \subseteq 0 .. keys' /\ torn' \in BOOLEAN
        /\ bypassed' = bypassed
    BY <2>1, <2>2, SessionTypes
  <2> QED
    BY <1>1, <2>1, <2>2, <2>3 DEF DataTypes, nvdmVars
<1>3. CASE CliStep
  <2>1. /\ UNCHANGED <<console, commands, workload, keys, tried>> /\ torn' \in BOOLEAN
        /\ flash' \in [Items -> Contents] /\ fails' \in 0 .. MaxFails /\ failed_now' \in BOOLEAN
        /\ bypassed' \subseteq Items
    BY <1>3, CommandGoesOn
  <2>2. session' \in {session, NoSession}
    BY <1>3 DEF CliStep, CliWrite, CliWriteFails, ReadbackFails, Return, configVars
  <2>3. NoSession \in [local : BOOLEAN, peer : BOOLEAN, own : 0 .. keys, seen : 0 .. keys, mixed : BOOLEAN]
    BY CliAssumption DEF NoSession, DataTypes
  <2> QED
    BY <1>1, <2>1, <2>2, <2>3 DEF DataTypes
<1> QED
  BY <1>2, <1>3 DEF ConsoleStep

LEMMA PlugTypes ==
  ASSUME DataTypes, PlugStep
  PROVE  DataTypes'
<1> DEFINE R == [at : {"rest", "gpio", "store"}, value : {"off", "on"}]
<1>1. sets \in [Setters -> R] /\ gpio \in {"off", "on"} /\ excused \in BOOLEAN
  BY DEF DataTypes
<1>2. \A t \in Setters, v \in {"off", "on"} : Asks(t, v) =>
        sets' \in [Setters -> R] /\ UNCHANGED <<nvdmVars, gpio, excused>>
  BY <1>1 DEF Asks
<1>3. CASE HttpToggle \/ AttributeChange \/ InitServer \/ OnOffReportWork
  <2>1. report' \in {"none", "off", "on", "over"}
    BY <1>1, <1>3 DEF HttpToggle, AttributeChange, InitServer, OnOffReportWork, DataTypes
  <2>2. sets' \in [Setters -> R] /\ UNCHANGED <<nvdmVars, gpio, excused>>
    BY <1>1, <1>2, <1>3 DEF HttpToggle, AttributeChange, InitServer, OnOffReportWork, Opposite, Setters
  <2> QED
    BY <2>1, <2>2 DEF PlugStep, DataTypes, nvdmVars, configVars, cliVars, entryVars
<1>4. CASE RawSet
  <2>1. PICK t \in Setters : SetGpio(t) \/ SetStore(t)
    BY <1>4 DEF RawSet
  <2>2. sets' \in [Setters -> R] /\ gpio' \in {"off", "on"} /\ report' = report /\ excused' \in BOOLEAN
    <3>1. CASE SetGpio(t)
      <4>1. sets' \in {[sets EXCEPT ![t].at = "store"], [sets EXCEPT ![t] = NoSet]}
            /\ gpio' \in {gpio, sets[t].value} /\ report' = report
        BY <3>1 DEF SetGpio
      <4>2. excused' \in BOOLEAN
        BY <1>1, <3>1 DEF SetGpio
      <4> QED
        BY <1>1, <4>1, <4>2 DEF NoSet
    <3>2. CASE SetStore(t)
      BY <1>1, <3>2 DEF SetStore, NoSet
    <3> QED
      BY <2>1, <3>1, <3>2
  <2>3. flash' \in [Items -> Contents] /\ fails' \in 0 .. MaxFails /\ failed_now' \in BOOLEAN
    <3>1. CASE SetGpio(t)
      BY <3>1 DEF SetGpio, nvdmVars, DataTypes
    <3>2. CASE SetStore(t)
      <4>1. sets[t].value \in Contents
        BY <1>1 DEF Contents
      <4> QED
        BY <3>2, <4>1, StoreTypes DEF SetStore
    <3> QED
      BY <2>1, <3>1, <3>2
  <2> QED
    BY <2>2, <2>3 DEF PlugStep, DataTypes, configVars, cliVars, entryVars
<1> QED
  BY <1>3, <1>4 DEF PlugStep

LEMMA TypesStay ==
  ASSUME DataTypes, CliInv, [Next]_vars
  PROVE  DataTypes'
<1>1. CASE PowerCut
  <2>1. entry' \in [at : Places, read : Seq(Contents)]
    BY <1>1 DEF PowerCut, Places
  <2>2. session' \in [local : BOOLEAN, peer : BOOLEAN, own : 0 .. keys', seen : 0 .. keys', mixed : BOOLEAN]
    BY <1>1, CliAssumption DEF PowerCut, CliCut, NoSession, DataTypes
  <2>3. sets' \in [Setters -> [at : {"rest", "gpio", "store"}, value : {"off", "on"}]]
    BY <1>1 DEF PowerCut, PlugCut, NoSet
  <2>4. cuts' \in 0 .. MaxCuts
    BY <1>1, DeviceAssumption DEF PowerCut, DataTypes
  <2> QED
    BY <1>1, <2>1, <2>2, <2>3, <2>4 DEF PowerCut, CliCut, PlugCut, DataTypes
<1>2. CASE UNCHANGED vars
  BY <1>2 DEF vars, nvdmVars, configVars, cliVars, plugVars, entryVars, DataTypes
<1> QED
  BY <1>1, <1>2, EntryTypes, ConsoleTypes, PlugTypes DEF Next

LEMMA TypesAreOK ==
  ASSUME DataTypes, CliInv
  PROVE  TypeOK
<1>1. \A k \in DOMAIN cli.plan : cli.plan[k] \in [item : Group(cli.name), value : Contents]
  BY PlanWrites DEF CliInv
<1>2. Group(cli.name) \subseteq Items
  BY AllItems DEF Group, Named
<1>3. \A k \in DOMAIN cli.plan : cli.plan[k] \in [item : Items, value : Contents]
  BY <1>1, <1>2
<1> QED
  BY <1>3 DEF TypeOK, DataTypes, CliInv

-----------------------------------------------------------------------------
(* The console before it is registered, the reply, the keys. *)

LEMMA ConsoleStays ==
  ASSUME DataTypes, CliInv, ConsoleInv, [Next]_vars
  PROVE  ConsoleInv'
<1> DEFINE Early == {"tables", "mac", "register"}
<1>1. CASE NvdmTables
  <2>1. At("tables") /\ UNCHANGED <<console, cli>>
    BY <1>1 DEF NvdmTables, cliVars
  <2> QED
    BY <2>1 DEF ConsoleInv, At
<1>2. CASE BaseMacApply
  BY <1>2 DEF BaseMacApply, At, ConsoleInv, cliVars
<1>3. CASE RegisterCommands \/ CheckLicence \/ WaitFactoryReply \/ StartNormal \/ StartDevice
  <2>1. entry'.at \notin Early
    <3>1. CASE RegisterCommands \/ WaitFactoryReply \/ StartNormal \/ StartDevice
      BY <3>1 DEF RegisterCommands, WaitFactoryReply, StartNormal, StartDevice, Goes
    <3>2. CASE CheckLicence
      <4>1. At("check") /\ entry \in [at : Places, read : Seq(Contents)]
        BY <3>2 DEF CheckLicence, DataTypes
      <4> QED
        BY <3>2, <4>1 DEF CheckLicence, Goes, At
    <3> QED
      BY <1>3, <3>1, <3>2
  <2> QED
    BY <2>1 DEF ConsoleInv
<1>4. CASE FactoryReply \/ PlugStep \/ UNCHANGED vars
  BY <1>4 DEF FactoryReply, PlugStep, vars, cliVars, entryVars, ConsoleInv
<1>5. CASE ConsoleStep
  <2>1. entry' = entry /\ (Command => console) /\ (CliStep => cli # NoCommand)
    <3>1. Command => console
      BY DEF Command, AtLicenseWrite, AtLicenseDelete, AtMtFactoryDataWrite, AtMtSerialNumSet, AtActiveCode,
             AtMtCdWrite, AtMtCdDelete, AtPubKeyGet, AtPubKeySet, AtSecureCertWrite, AtSecureCertDelete,
             SnfNvdmClean, SnfNvdmWrite, Run, Given
    <3> QED
      BY <1>5, <3>1, CommandGoesOn DEF ConsoleStep
  <2> QED
    BY <1>5, <2>1 DEF ConsoleStep, ConsoleInv
<1>6. CASE PowerCut
  BY <1>6 DEF PowerCut, CliCut, ConsoleInv
<1> QED
  BY <1>1, <1>2, <1>3, <1>4, <1>5, <1>6 DEF Next, Entry

\* Only the window that is open takes the reply, and it is left for the factory.
LEMMA ReplyStays ==
  ASSUME DataTypes, ReplyHonoured, [Next]_vars
  PROVE  ReplyHonoured'
<1>1. CASE NvdmTables \/ BaseMacApply \/ RegisterCommands \/ CheckLicence \/ StartNormal \/ StartDevice
  BY <1>1 DEF NvdmTables, BaseMacApply, RegisterCommands, CheckLicence, StartNormal, StartDevice, At,
              ReplyHonoured
<1>2. CASE FactoryReply
  BY <1>2 DEF FactoryReply, At, ReplyHonoured
<1>3. CASE WaitFactoryReply
  BY <1>3 DEF WaitFactoryReply, At, Goes, ReplyHonoured
<1>4. CASE ConsoleStep \/ PlugStep \/ UNCHANGED vars
  BY <1>4 DEF ConsoleStep, PlugStep, vars, entryVars, ReplyHonoured
<1>5. CASE PowerCut
  BY <1>5 DEF PowerCut, ReplyHonoured
<1> QED
  BY <1>1, <1>2, <1>3, <1>4, <1>5 DEF Next, Entry

\* A key that is made is the only one, and decrypts within the command that
\* ends the session.
LEMMA SessionStays ==
  ASSUME DataTypes, CliInv, SessionInv, [Next]_vars
  PROVE  SessionInv'
<1>1. keys \in Nat /\ tried \subseteq 0 .. keys
      /\ session \in [local : BOOLEAN, peer : BOOLEAN, own : 0 .. keys, seen : 0 .. keys, mixed : BOOLEAN]
  BY CliAssumption DEF DataTypes
<1>2. NoCommand.name \notin CertCommands
  BY DEF NoCommand, CertCommands
<1>3. CASE UNCHANGED <<session, keys, tried>> /\ (cli'.name \in CertCommands \/ cli.name \notin CertCommands)
  BY <1>3 DEF SessionInv
<1>4. CASE session' = NoSession
  BY <1>4 DEF NoSession, SessionInv
<1>5. CASE Command
  <2>1. cli.name \notin CertCommands
    BY <1>2, <1>5, CommandStarts
  <2>2. CASE UNCHANGED configVars
    BY <1>3, <2>1, <2>2 DEF configVars
  <2>3. CASE PubKeyGet /\ cli' = cli
    <3>1. CASE /\ session' = [[session EXCEPT !.peer = FALSE, !.mixed = FALSE] EXCEPT !.local = TRUE, !.own = keys + 1]
               /\ keys' = keys + 1
      <4>1. session'.own = keys' /\ session'.peer = FALSE /\ tried' = tried /\ keys + 1 \notin 0 .. keys
        BY <1>1, <2>3, <3>1 DEF PubKeyGet
      <4> QED
        BY <1>1, <3>1, <4>1 DEF SessionInv
    <3>2. CASE session' = [[session EXCEPT !.peer = FALSE, !.mixed = FALSE] EXCEPT !.local = FALSE]
      <4>1. session'.peer = FALSE /\ session'.local = FALSE
        BY <1>1, <3>2
      <4> QED
        BY <4>1 DEF SessionInv
    <3> QED
      BY <1>4, <2>3, <3>1, <3>2 DEF PubKeyGet
  <2>4. CASE PubKeySet /\ cli' = cli
    <3>1. UNCHANGED <<keys, tried>> /\ session'.local = session.local /\ session'.own = session.own
          /\ (session'.peer => session'.seen = keys)
      BY <1>1, <2>4 DEF PubKeySet, SessionInv
    <3> QED
      BY <2>1, <2>4, <3>1 DEF SessionInv
  <2>5. CASE \E good \in BOOLEAN : Decrypt(good) /\ cli'.name = "cert_write"
    BY <2>5 DEF Decrypt, SessionInv, CertCommands
  <2> QED
    BY <1>5, <2>2, <2>3, <2>4, <2>5, CommandStarts
<1>6. CASE CliStep
  <2>1. UNCHANGED <<keys, tried>>
        /\ (cli'.name \in CertCommands <=> cli.name \in CertCommands /\ cli' # NoCommand)
    BY <1>6, CommandGoesOn
  <2>2. CASE CliWrite \/ CliWriteFails \/ ReadbackFails
    <3>1. session' = session /\ (cli.name \in CertCommands => cli'.name \in CertCommands)
      <4>1. DOMAIN cli = {"name", "plan", "next"}
        BY DEF CliInv
      <4>2. CASE CliWrite
        BY <4>1, <4>2 DEF CliWrite, configVars
      <4>3. CASE CliWriteFails
        <5>1. CASE cli' = [name |-> "cert_undo", plan |-> SecureCertClear, next |-> 1]
          BY <4>3, <5>1 DEF CliWriteFails, CertCommands
        <5>2. CASE cli' = [cli EXCEPT !.plan = <<>>, !.next = 1]
          BY <4>1, <4>3, <5>2 DEF CliWriteFails
        <5> QED
          BY <4>3, <5>1, <5>2 DEF CliWriteFails
      <4>4. CASE ReadbackFails
        BY <4>4 DEF ReadbackFails, configVars, CertCommands
      <4> QED
        BY <2>2, <4>2, <4>3, <4>4
    <3> QED
      BY <1>3, <2>1, <3>1
  <2>3. CASE Return
    BY <1>3, <1>4, <2>1, <2>3 DEF Return
  <2> QED
    BY <1>6, <2>2, <2>3 DEF CliStep
<1>7. CASE Entry \/ FactoryReply \/ PlugStep \/ UNCHANGED vars
  <2>1. UNCHANGED <<session, keys, tried, cli>>
    BY <1>7 DEF Entry, NvdmTables, BaseMacApply, RegisterCommands, CheckLicence, WaitFactoryReply,
                StartNormal, StartDevice, FactoryReply, PlugStep, vars, cliVars, configVars
  <2> QED
    BY <1>3, <2>1
<1>8. CASE PowerCut
  BY <1>4, <1>8 DEF PowerCut, CliCut
<1> QED
  BY <1>5, <1>6, <1>7, <1>8 DEF Next, ConsoleStep

-----------------------------------------------------------------------------
(* The boot and the licence it has read. *)

\* The console writes only the items of the group its command is about.
LEMMA ConsoleWrites ==
  ASSUME DataTypes, CliInv, ConsoleStep
  PROVE  \A i \in Items : \/ flash'[i] = flash[i]
                          \/ CliWrite /\ i \in Group(cli.name) /\ i = Write.item /\ flash'[i] = Write.value
<1>1. CASE Command
  BY <1>1, CommandStarts DEF nvdmVars
<1>2. CASE CliStep /\ ~CliWrite
  BY <1>2, CommandGoesOn
<1>3. CASE CliWrite
  <2>1. CliStep
    BY <1>3 DEF CliStep
  <2>2. /\ Write.item \in Group(cli.name)
        /\ \A j \in Items : flash'[j] = IF j = Write.item THEN Write.value ELSE flash[j]
    BY <1>3, <2>1, CommandGoesOn
  <2> QED
    BY <1>3, <2>2
<1> QED
  BY <1>1, <1>2, <1>3 DEF ConsoleStep

\* The tasks that set the relay write only its item.
LEMMA PlugWrites ==
  ASSUME DataTypes, PlugStep
  PROVE  \A i \in Items : flash'[i] = flash[i] \/ (i = "plug.onoff" /\ flash'[i] \in {"off", "on"})
<1>1. CASE HttpToggle \/ AttributeChange \/ InitServer \/ OnOffReportWork
  BY <1>1 DEF HttpToggle, AttributeChange, InitServer, OnOffReportWork, Asks, nvdmVars
<1>2. ASSUME NEW t \in Setters, SetGpio(t) PROVE flash' = flash
  BY <1>2 DEF SetGpio, nvdmVars
<1>3. ASSUME NEW t \in Setters, SetStore(t)
      PROVE  \A i \in Items : flash'[i] = flash[i] \/ (i = "plug.onoff" /\ flash'[i] \in {"off", "on"})
  <2>1. sets[t].value \in {"off", "on"}
    BY DEF DataTypes
  <2>2. sets[t].value \in Contents
    BY <2>1 DEF Contents
  <2>3. PICK ok \in BOOLEAN : Store("plug.onoff", sets[t].value, ok)
    BY <1>3 DEF SetStore
  <2>4. \A j \in Items : flash'[j] = flash[j] \/ (j = "plug.onoff" /\ ok /\ flash'[j] = sets[t].value)
    BY <2>2, <2>3, StoreTypes
  <2> QED
    BY <2>1, <2>4
<1> QED
  BY <1>1, <1>2, <1>3 DEF PlugStep, RawSet

\* A default counts as no input.
LEMMA TablesLose ==
  ASSUME DataTypes, NvdmTables
  PROVE  \A i \in Items : flash'[i] = flash[i] \/ flash'[i] \notin Inputs
<1>1. ASSUME NEW ok \in BOOLEAN, CheckItem(ok)
      PROVE  \A i \in Items : flash'[i] = flash[i] \/ flash'[i] \notin Inputs
  <2>1. /\ Store(FirstMissing, Default(FirstMissing), ok)
        /\ Default(FirstMissing) \in Contents /\ Default(FirstMissing) \notin Inputs
    BY <1>1, DefaultIsNoInput DEF CheckItem
  <2>2. \A j \in Items : flash'[j] = flash[j] \/ (j = FirstMissing /\ ok /\ flash'[j] = Default(FirstMissing))
    BY <2>1, StoreTypes
  <2> QED
    BY <2>1, <2>2
<1>2. CASE UNCHANGED nvdmVars
  BY <1>2 DEF nvdmVars
<1> QED
  BY <1>1, <1>2 DEF NvdmTables

LEMMA LicenceFacts ==
  /\ Complete(LicenceValues) <=> \A k \in 1 .. 5 : flash[LicenceItems[k]] \in Inputs
  /\ Complete(LicenceValues)' <=> \A k \in 1 .. 5 : flash'[LicenceItems[k]] \in Inputs
  /\ \A k \in 1 .. 5 : LicenceItems[k] \in LicenceSet /\ LicenceItems[k] \in Items
<1>1. Len(LicenceItems) = 5
  BY ItemLists
<1>2. \A k \in 1 .. 5 : LicenceItems[k] \in LicenceSet
  BY ItemNumbers DEF LicenceSet
<1>3. LicenceSet \subseteq Items
  BY AllItems DEF Named
<1> QED
  BY <1>1, <1>2, <1>3 DEF Complete, Valid, LicenceValues

\* As long as the licence's items stay, so does what the boot knows of them.
LEMMA BootKept ==
  ASSUME BootInv, \A i \in LicenceSet : flash'[i] = flash[i],
         UNCHANGED <<entry, ram_mac, replied, mac_failed>>,
         ~disturbed' => ~disturbed
  PROVE  BootInv'
<1>1. \A k \in 1 .. 5 : flash'[LicenceItems[k]] = flash[LicenceItems[k]]
  BY LicenceFacts
<1>2. Complete(LicenceValues)' <=> Complete(LicenceValues)
  BY <1>1, LicenceFacts
<1>3. Mac' = Mac
  BY DEF Mac, LicenceSet, Valid
<1>4. Len(entry.read) \in 0 .. 5
  BY DEF BootInv
<1>5. \A k \in 1 .. Len(entry.read) : flash'[LicenceItems[k]] = flash[LicenceItems[k]]
  <2>1. \A n \in 0 .. 5 : \A k \in 1 .. n : flash'[LicenceItems[k]] = flash[LicenceItems[k]]
    BY <1>1
  <2> QED
    BY <1>4, <2>1
<1> QED
  BY <1>2, <1>3, <1>4, <1>5 DEF BootInv, At

LEMMA BootStays ==
  ASSUME DataTypes, CliInv, ConsoleInv, BootInv, [Next]_vars
  PROVE  BootInv'
<1> DEFINE Normal == {"wait", "late", "over", "start", "plug", "run"}
<1>1. entry \in [at : Places, read : Seq(Contents)] /\ Len(entry.read) \in 0 .. 5
  BY DEF DataTypes, BootInv
<1>3. CASE NvdmTables
  <2>1. At("tables") /\ entry'.at \in {"tables", "mac"} /\ entry'.read = <<>> /\ cli' = NoCommand
    <3>1. At("tables") /\ entry.read = <<>> /\ cli' = NoCommand
      BY <1>3 DEF NvdmTables, At, ConsoleInv, BootInv, cliVars
    <3>2. UNCHANGED entry \/ Goes("mac")
      BY <1>3 DEF NvdmTables
    <3> QED
      BY <3>1, <3>2 DEF Goes, At
  <2> QED
    BY <2>1 DEF BootInv, At
<1>4. CASE BaseMacApply
  <2>1. entry'.at = "register" /\ entry'.read = <<>> /\ cli' = NoCommand /\ flash' = flash
    BY <1>4 DEF BaseMacApply, Goes, At, ConsoleInv, cliVars, nvdmVars
  <2>2. mac_failed' \/ ram_mac' = Mac'
    BY <1>4, <2>1 DEF BaseMacApply, Mac
  <2> QED
    BY <2>1, <2>2 DEF BootInv, At
<1>5. CASE RegisterCommands
  <2>1. /\ At("register") /\ entry'.at = "check" /\ entry'.read = <<>> /\ cli' = cli
        /\ UNCHANGED <<flash, ram_mac, replied, disturbed, mac_failed>>
    BY <1>5 DEF RegisterCommands, Goes, nvdmVars
  <2>2. Mac' = Mac
    BY <2>1 DEF Mac, Valid
  <2> QED
    BY <2>1, <2>2 DEF BootInv, At
<1>6. CASE CheckLicence
  <2>1. /\ At("check") /\ UNCHANGED <<flash, cli, ram_mac, replied, disturbed, mac_failed>>
    BY <1>6 DEF CheckLicence, nvdmVars, cliVars
  <2>2. Mac' = Mac /\ (Complete(LicenceValues)' <=> Complete(LicenceValues))
    BY <2>1, LicenceFacts DEF Mac, Valid
  <2>3. CASE Len(entry.read) < Len(LicenceItems)
    <3>1. entry' = [entry EXCEPT !.read = Append(@, flash[LicenceItems[Len(@) + 1]])]
      BY <1>6, <2>3 DEF CheckLicence
    <3>2. /\ Len(entry.read) + 1 \in 1 .. 5
          /\ entry'.at = entry.at /\ entry'.read = Append(entry.read, flash[LicenceItems[Len(entry.read) + 1]])
      BY <1>1, <2>3, <3>1, ItemLists
    <3>3. /\ Len(entry'.read) = Len(entry.read) + 1
          /\ \A k \in 1 .. Len(entry.read) : entry'.read[k] = entry.read[k]
          /\ entry'.read[Len(entry.read) + 1] = flash[LicenceItems[Len(entry.read) + 1]]
      BY <1>1, <3>2
    <3>4. ~disturbed => \A k \in 1 .. Len(entry'.read) : entry'.read[k] = flash[LicenceItems[k]]
      <4>1. ~disturbed => \A k \in 1 .. Len(entry.read) : entry.read[k] = flash[LicenceItems[k]]
        BY DEF BootInv
      <4>2. \A k \in 1 .. Len(entry'.read) : k \in 1 .. Len(entry.read) \/ k = Len(entry.read) + 1
        BY <1>1, <3>3
      <4> QED
        BY <3>3, <4>1, <4>2
    <3> QED
      BY <2>1, <2>2, <3>2, <3>3, <3>4 DEF BootInv, At
  <2>4. CASE ~(Len(entry.read) < Len(LicenceItems))
    <3>1. Len(entry.read) = 5
      BY <1>1, <2>4, ItemLists
    <3>2. ~disturbed => (Complete(entry.read) <=> Complete(LicenceValues))
      <4>1. DOMAIN entry.read = 1 .. 5
        BY <1>1, <3>1, LenProperties
      <4>2. Complete(entry.read) <=> \A k \in 1 .. 5 : entry.read[k] \in Inputs
        BY <4>1 DEF Complete, Valid
      <4> QED
        BY <3>1, <4>2, LicenceFacts DEF BootInv
    <3>3. /\ entry'.read = <<>>
          /\ \/ Complete(entry.read) /\ entry'.at \in {"wait", "start"}
             \/ ~Complete(entry.read) /\ entry'.at = "factory"
      BY <1>6, <2>4 DEF CheckLicence, Goes
    <3> QED
      BY <2>1, <2>2, <3>2, <3>3 DEF BootInv, At
  <2> QED
    BY <2>3, <2>4
<1>7. CASE WaitFactoryReply \/ StartNormal \/ StartDevice
  <2>1. UNCHANGED <<flash, cli, ram_mac, replied, disturbed, mac_failed>>
    BY <1>7 DEF WaitFactoryReply, StartNormal, StartDevice, PlugHandleInit, nvdmVars, cliVars
  <2>2. entry.at \in Normal /\ entry'.read = <<>>
    BY <1>7 DEF WaitFactoryReply, StartNormal, StartDevice, At, Goes
  <2>3. entry'.at \in Normal \/ (entry'.at = "factory" /\ replied)
    <3>1. CASE WaitFactoryReply
      <4>1. \/ \E p \in {"late", "over", "start"} : Goes(p)
            \/ Goes("factory") /\ replied
        BY <3>1 DEF WaitFactoryReply
      <4> QED
        BY <4>1 DEF Goes
    <3>2. CASE StartNormal \/ StartDevice
      BY <3>2 DEF StartNormal, StartDevice, Goes
    <3> QED
      BY <1>7, <3>1, <3>2
  <2>4. Mac' = Mac /\ (Complete(LicenceValues)' <=> Complete(LicenceValues))
    BY <2>1, LicenceFacts DEF Mac, Valid
  <2> QED
    BY <2>1, <2>2, <2>3, <2>4 DEF BootInv, At
<1>8. CASE FactoryReply
  <2>1. UNCHANGED <<flash, cli, ram_mac, entry, disturbed, mac_failed>> /\ entry.at = "wait"
    BY <1>8 DEF FactoryReply, At, nvdmVars, cliVars
  <2>2. Mac' = Mac /\ (Complete(LicenceValues)' <=> Complete(LicenceValues))
    BY <2>1, LicenceFacts DEF Mac, Valid
  <2> QED
    BY <2>1, <2>2 DEF BootInv, At
<1>9. CASE ConsoleStep
  <2>1. UNCHANGED <<entry, ram_mac, replied, mac_failed>>
        /\ disturbed' = (disturbed \/ LicenceValues' # LicenceValues)
    BY <1>9 DEF ConsoleStep
  <2>2. CASE disturbed'
    BY <2>1, <2>2 DEF BootInv, At
  <2>3. CASE ~disturbed'
    <3>1. ~disturbed /\ LicenceValues' = LicenceValues
      BY <2>1, <2>3
    <3>2. Len(LicenceItems) = 5
      BY ItemLists
    <3>3. \A k \in 1 .. 5 : flash'[LicenceItems[k]] = flash[LicenceItems[k]]
      <4>1. ASSUME NEW k \in 1 .. 5 PROVE flash'[LicenceItems[k]] = flash[LicenceItems[k]]
        <5>1. LicenceValues[k] = flash[LicenceItems[k]] /\ LicenceValues'[k] = flash'[LicenceItems[k]]
          BY <3>2 DEF LicenceValues
        <5> QED
          BY <3>1, <5>1
      <4> QED
        BY <4>1
    <3>4. \A i \in LicenceSet : flash'[i] = flash[i]
      <4>1. 1 \in 1 .. 5 /\ 2 \in 1 .. 5 /\ 3 \in 1 .. 5 /\ 4 \in 1 .. 5 /\ 5 \in 1 .. 5
        OBVIOUS
      <4> QED
        BY <3>3, <4>1, ItemNumbers DEF LicenceSet
    <3> QED
      BY <2>1, <3>1, <3>4, BootKept
  <2> QED
    BY <2>2, <2>3
<1>10. CASE PlugStep
  <2>1. At("run") /\ UNCHANGED <<entry, ram_mac, replied, mac_failed, disturbed, cli>>
    BY <1>10 DEF PlugStep, entryVars, cliVars
  <2>2. "plug.onoff" \notin LicenceSet /\ LicenceSet \subseteq Items
    BY AllItems DEF Named, LicenceSet
  <2>3. \A i \in LicenceSet : flash'[i] = flash[i]
    BY <1>10, <2>2, PlugWrites
  <2> QED
    BY <2>1, <2>3, BootKept DEF BootInv
<1>11. CASE PowerCut
  <2>1. entry'.at = "tables" /\ entry'.read = <<>> /\ cli' = NoCommand
    BY <1>11 DEF PowerCut, CliCut
  <2> QED
    BY <2>1 DEF BootInv, At
<1>12. CASE UNCHANGED vars
  BY <1>12, BootKept DEF vars, nvdmVars, cliVars, entryVars, BootInv
<1> QED
  BY <1>3, <1>4, <1>5, <1>6, <1>7, <1>8, <1>9, <1>10, <1>11, <1>12 DEF Next, Entry

-----------------------------------------------------------------------------
(* The relay. *)

\* What is about to be stored and what is stored, as far as it concerns the relay.
LEMMA RelayKept ==
  ASSUME RelayInv, At("run"), entry'.at = "run", gpio' = gpio,
         \A t \in Setters : (sets'[t].at = "store" <=> sets[t].at = "store")
                            /\ (sets[t].at = "store" => sets'[t].value = sets[t].value),
         ~excused' => ~excused /\ flash'["plug.onoff"] = flash["plug.onoff"]
  PROVE  RelayInv'
BY DEF RelayInv, At, Setters

LEMMA RelayStays ==
  ASSUME DataTypes, CliInv, RelayInv, [Next]_vars
  PROVE  RelayInv'
<1> DEFINE R == [at : {"rest", "gpio", "store"}, value : {"off", "on"}]
<1>1. sets \in [Setters -> R] /\ gpio \in {"off", "on"} /\ entry \in [at : Places, read : Seq(Contents)]
      /\ flash \in [Items -> Contents]
  BY DEF DataTypes
<1>2. "plug.onoff" \in Items
  BY AllItems DEF Named, UserSet
<1>3. CASE NvdmTables \/ BaseMacApply \/ RegisterCommands \/ CheckLicence \/ WaitFactoryReply \/ StartNormal
  <2>1. ~At("run") /\ sets' = sets
    BY <1>3 DEF NvdmTables, BaseMacApply, RegisterCommands, CheckLicence, WaitFactoryReply, StartNormal,
                At, plugVars
  <2>2. entry'.at # "run"
    <3>1. CASE entry' = entry
      BY <2>1, <3>1 DEF At
    <3>2. CASE \E p \in Places \ {"run"} : Goes(p)
      BY <3>2 DEF Goes
    <3>3. CASE CheckLicence
      BY <1>1, <3>3 DEF CheckLicence, Goes, At
    <3> QED
      BY <1>3, <3>1, <3>2, <3>3 DEF NvdmTables, BaseMacApply, RegisterCommands, WaitFactoryReply, StartNormal,
                                    Places
  <2> QED
    BY <2>1, <2>2 DEF RelayInv, At
<1>4. CASE StartDevice
  <2>1. /\ \A t \in Setters : sets[t] = NoSet
        /\ entry'.at = "run" /\ sets' = sets
    BY <1>4 DEF StartDevice, RelayInv, PlugHandleInit, At, Goes
  <2>2. ~excused' => (gpio' = "on" <=> flash'["plug.onoff"] = "on")
    BY <1>4 DEF StartDevice, PlugHandleInit, nvdmVars
  <2>3. NoSet.at # "store"
    BY DEF NoSet
  <2> QED
    BY <2>1, <2>2, <2>3 DEF RelayInv, At, Setters
<1>5. CASE FactoryReply \/ UNCHANGED vars
  <2>1. UNCHANGED <<entry, sets, gpio, excused, flash>>
    BY <1>5 DEF FactoryReply, vars, nvdmVars, plugVars, entryVars
  <2> QED
    BY <2>1 DEF RelayInv, At
<1>6. CASE ConsoleStep
  <2>1. /\ UNCHANGED <<entry, sets, gpio>>
        /\ excused' = (excused \/ flash'["plug.onoff"] # flash["plug.onoff"])
    BY <1>6 DEF ConsoleStep
  <2>2. ~excused' => ~excused /\ flash'["plug.onoff"] = flash["plug.onoff"]
    BY <2>1
  <2>3. CASE At("run")
    BY <2>1, <2>2, <2>3, RelayKept DEF At
  <2>4. CASE ~At("run")
    BY <2>1, <2>4 DEF RelayInv, At
  <2> QED
    BY <2>3, <2>4
<1>7. CASE PlugStep
  <2>1. At("run") /\ entry' = entry
    BY <1>7 DEF PlugStep, entryVars
  <2>2. \A t \in Setters, v \in {"off", "on"} : Asks(t, v) =>
          /\ UNCHANGED <<gpio, excused, flash>>
          /\ \A o \in Setters : (sets'[o].at = "store" <=> sets[o].at = "store")
                                /\ (sets[o].at = "store" => sets'[o].value = sets[o].value)
    BY <1>1 DEF Asks, nvdmVars, NoSet
  <2>3. CASE HttpToggle \/ AttributeChange \/ InitServer \/ OnOffReportWork
    <3>1. \/ \E t \in Setters, v \in {"off", "on"} : Asks(t, v)
          \/ UNCHANGED <<nvdmVars, gpio, sets, excused>>
      BY <2>3 DEF HttpToggle, AttributeChange, InitServer, OnOffReportWork, Opposite, Setters
    <3>2. /\ UNCHANGED <<gpio, excused, flash>>
          /\ \A o \in Setters : (sets'[o].at = "store" <=> sets[o].at = "store")
                                /\ (sets[o].at = "store" => sets'[o].value = sets[o].value)
      BY <2>2, <3>1 DEF nvdmVars
    <3> QED
      BY <2>1, <3>2, RelayKept DEF At
  <2>4. ASSUME NEW t \in Setters, SetGpio(t) PROVE RelayInv'
    <3>1. flash' = flash /\ sets[t].at = "gpio"
      BY <2>4 DEF SetGpio, nvdmVars
    <3>2. CASE /\ gpio' = sets[t].value /\ sets' = [sets EXCEPT ![t].at = "store"]
               /\ excused' = \E o \in Setters \ {t} : sets[o].at = "store"
      <4>1. /\ sets'[t].at = "store" /\ sets'[t].value = gpio'
            /\ \A o \in Setters \ {t} : sets'[o] = sets[o]
        BY <1>1, <3>2
      <4>2. ~excused' => \A o \in Setters \ {t} : sets'[o].at # "store"
        BY <3>2, <4>1
      <4>3. ~excused' => ~(sets'["http"].at = "store" /\ sets'["matter"].at = "store")
        BY <4>2 DEF Setters
      <4> QED
        BY <2>1, <4>1, <4>2, <4>3 DEF RelayInv, At
    <3>3. CASE sets' = [sets EXCEPT ![t] = NoSet] /\ UNCHANGED <<gpio, excused>>
      <4>1. \A o \in Setters : (sets'[o].at = "store" <=> sets[o].at = "store")
                               /\ (sets[o].at = "store" => sets'[o].value = sets[o].value)
        BY <1>1, <3>1, <3>3 DEF NoSet
      <4> QED
        BY <2>1, <3>1, <3>3, <4>1, RelayKept DEF At
    <3> QED
      BY <2>4, <3>2, <3>3 DEF SetGpio
  <2>5. ASSUME NEW t \in Setters, SetStore(t) PROVE RelayInv'
    <3>1. /\ sets[t].at = "store" /\ sets' = [sets EXCEPT ![t] = NoSet] /\ gpio' = gpio
      BY <2>5 DEF SetStore
    <3>2. sets'[t].at # "store" /\ \A o \in Setters \ {t} : sets'[o] = sets[o]
      BY <1>1, <3>1 DEF NoSet
    <3>3. PICK ok \in BOOLEAN : Store("plug.onoff", sets[t].value, ok) /\ excused' = (excused \/ ~ok)
      BY <2>5 DEF SetStore
    <3>4. CASE excused'
      BY <2>1, <3>4 DEF RelayInv, At
    <3>5. CASE ~excused'
      <4>1. ~excused /\ ok
        BY <3>3, <3>5
      <4>3. flash'["plug.onoff"] = sets[t].value
        BY <1>1, <1>2, <3>3, <4>1 DEF Store
      <4>4. /\ gpio = sets[t].value
            /\ ~(sets["http"].at = "store" /\ sets["matter"].at = "store")
        BY <2>1, <3>1, <4>1 DEF RelayInv
      <4>5. \A o \in Setters : sets'[o].at # "store"
        BY <3>1, <3>2, <4>4 DEF Setters
      <4> QED
        BY <2>1, <3>1, <4>3, <4>4, <4>5 DEF RelayInv, At, Setters
    <3> QED
      BY <3>4, <3>5
  <2> QED
    BY <1>7, <2>3, <2>4, <2>5 DEF PlugStep, RawSet
<1>8. CASE PowerCut
  BY <1>8 DEF PowerCut, PlugCut, RelayInv, At
<1> QED
  BY <1>3, <1>4, <1>5, <1>6, <1>7, <1>8 DEF Next, Entry

-----------------------------------------------------------------------------
(* The licence. *)

\* Nothing is let in: what the items hold is as before, or counts for nothing.
LEMMA AgreeKept ==
  ASSUME NEW S, Agree(S),
         \A i \in S : flash'[i] \in Inputs /\ i \notin bypassed' => i \notin bypassed /\ flash'[i] = flash[i]
  PROVE  Agree(S)'
BY DEF Agree

\* All that counts is one input's.
LEMMA AgreeOne ==
  ASSUME NEW S, NEW v, \A i \in S : flash'[i] \in Inputs => flash'[i] = v
  PROVE  Agree(S)'
BY DEF Agree

\* A group's items by their numbers.
LEMMA LicenceNumbers == \A i \in LicenceSet : \E k \in 1 .. 5 : i = LicenceItems[k]
<1>1. 1 \in 1 .. 5 /\ 2 \in 1 .. 5 /\ 3 \in 1 .. 5 /\ 4 \in 1 .. 5 /\ 5 \in 1 .. 5
  OBVIOUS
<1> QED
  BY <1>1, ItemNumbers DEF LicenceSet

LEMMA CertNumbers == \A i \in CertSet : \E k \in 1 .. 3 : i = CertItems[k]
<1>1. 1 \in 1 .. 3 /\ 2 \in 1 .. 3 /\ 3 \in 1 .. 3
  OBVIOUS
<1> QED
  BY <1>1, ItemNumbers DEF CertSet

\* A write around the checks marks its item.
LEMMA AgreeBypassed ==
  ASSUME NEW S, Agree(S), NEW item, \A i \in S : i # item => flash'[i] = flash[i],
         bypassed' = bypassed \union {item}
  PROVE  Agree(S)'
<1>1. ASSUME NEW i \in S, i \notin bypassed'
      PROVE  i \notin bypassed /\ flash'[i] = flash[i]
  BY <1>1
<1> QED
  BY <1>1, AgreeKept

\* A business command takes the mark away, with nothing that counts or elsewhere.
LEMMA AgreeWritten ==
  ASSUME NEW S, Agree(S), NEW item, \A i \in S : i # item => flash'[i] = flash[i],
         bypassed' = bypassed \ {item}, item \in S => flash'[item] \notin Inputs
  PROVE  Agree(S)'
<1>1. ASSUME NEW i \in S, flash'[i] \in Inputs, i \notin bypassed'
      PROVE  i \notin bypassed /\ flash'[i] = flash[i]
  <2>1. i # item
    BY <1>1
  <2> QED
    BY <1>1, <2>1
<1> QED
  BY <1>1, AgreeKept

\* What a write of the console leaves of it.
LEMMA AgreeConsole ==
  ASSUME DataTypes, CliInv, CliWrite, NEW S \in SUBSET Items, Agree(S),
         cli.name = "nvdm_write" \/ Write.item \notin S \/ Write.value \notin Inputs
  PROVE  Agree(S)'
<1>1. \A i \in Items : flash'[i] = IF i = Write.item THEN Write.value ELSE flash[i]
  BY CommandGoesOn DEF CliStep
<1>2. \A i \in S : i # Write.item => flash'[i] = flash[i]
  BY <1>1
<1>3. CASE cli.name = "nvdm_write"
  <2>1. bypassed' = bypassed \union {Write.item}
    BY <1>3 DEF CliWrite
  <2> QED
    BY <1>2, <2>1, AgreeBypassed
<1>4. CASE cli.name # "nvdm_write"
  <2>1. bypassed' = bypassed \ {Write.item}
    BY <1>4 DEF CliWrite
  <2>2. Write.item \in S => flash'[Write.item] \notin Inputs
    BY <1>1, <1>4
  <2> QED
    BY <1>2, <2>1, <2>2, AgreeWritten
<1> QED
  BY <1>3, <1>4

LEMMA LicenceKept ==
  ASSUME LicenceInv, \A i \in LicenceSet : flash'[i] = flash[i], bypassed' = bypassed,
         cli' = cli \/ ~(cli'.name = "licence_write" /\ Len(cli'.plan) = 10)
  PROVE  LicenceInv'
<1>1. \A k \in 1 .. 5 : flash'[LicenceItems[k]] = flash[LicenceItems[k]]
  BY LicenceFacts
<1>2. Agree(LicenceSet)'
  BY AgreeKept DEF LicenceInv
<1>3. CASE cli' = cli
  BY <1>1, <1>2, <1>3 DEF LicenceInv
<1>4. CASE ~(cli'.name = "licence_write" /\ Len(cli'.plan) = 10)
  BY <1>2, <1>4 DEF LicenceInv
<1> QED
  BY <1>3, <1>4

\* Which plan a command that writes the licence follows.
LEMMA LicencePlans ==
  ASSUME NEW name \in LicenceCommands, NEW plan, Planned(name, plan)
  PROVE  \/ plan = <<>>
         \/ plan = LicenseClear
         \/ name = "licence_write" /\ \E v \in Inputs : plan = LicencePlan(v)
BY DEF Planned, LicenceCommands

\* One item after the other of a frame, over a licence that has been cleared.
LEMMA LicenceWriteStays ==
  ASSUME DataTypes, CliInv, LicenceInv, CliWrite,
         cli.name = "licence_write", NEW v \in Inputs, cli.plan = LicencePlan(v)
  PROVE  LicenceInv'
<1>1. /\ Len(cli.plan) = 10
      /\ \A k \in 1 .. 5 : cli.plan[k] = To(LicenceItems[k], Empty)
      /\ \A k \in 6 .. 10 : cli.plan[k] = To(LicenceItems[k - 5], v)
  BY LicencePlanShape
<1>2. cli.next \in 1 .. 10 /\ cli' = [cli EXCEPT !.next = @ + 1]
  BY <1>1 DEF CliWrite, Writes, CliInv
<1>3. cli'.name = cli.name /\ cli'.plan = cli.plan /\ cli'.next = cli.next + 1
  BY <1>2 DEF CliInv
<1>4. \A i \in Items : flash'[i] = IF i = Write.item THEN Write.value ELSE flash[i]
  BY CommandGoesOn DEF CliStep
<1>5. \A k, l \in 1 .. 5 : LicenceItems[k] = LicenceItems[l] => k = l
  <2>1. \A k \in 1 .. 5 : k \in {1, 2, 3, 4, 5}
    OBVIOUS
  <2> QED
    BY <2>1, ItemNumbers
<1>6. Empty \notin Inputs
  BY NvdmAssumption
<1>7. \A w \in Inputs : cli.plan = LicencePlan(w) => w = v
  <2>1. 6 \in 6 .. 10 /\ \A w \in Inputs : LicencePlan(w)[6] = To(LicenceItems[6 - 5], w)
    BY LicencePlanShape
  <2>2. \A w \in Inputs : LicencePlan(w) = LicencePlan(v) => To(LicenceItems[6 - 5], w) = To(LicenceItems[6 - 5], v)
    BY <2>1
  <2>3. \A i, x, y : To(i, x) = To(i, y) => x = y
    BY DEF To
  <2> QED
    BY <2>2, <2>3
<1>8. cli.next > 1 => \A k \in 1 .. 5 :
         /\ k + 5 < cli.next => flash[LicenceItems[k]] = v
         /\ k < cli.next /\ cli.next <= k + 5 => flash[LicenceItems[k]] = Empty
  BY <1>1, <1>7 DEF LicenceInv
<1>9. CASE cli.next \in 1 .. 5
  <2>1. Write.item = LicenceItems[cli.next] /\ Write.value = Empty
    BY <1>1, <1>9 DEF Write, To
  <2>2. \A k \in 1 .. 5 : flash'[LicenceItems[k]] = IF k = cli.next THEN Empty ELSE flash[LicenceItems[k]]
    BY <1>4, <1>5, <1>9, <2>1, LicenceFacts
  <2>3. Agree(LicenceSet)'
    BY <1>6, <2>1, AllItems, AgreeConsole DEF LicenceInv, Named
  <2>4. \A k \in 1 .. 5 :
          /\ ~(k + 5 < cli'.next)
          /\ k < cli'.next => flash'[LicenceItems[k]] = Empty
    <3>1. \A k \in 1 .. 5 : /\ ~(k + 5 < cli.next + 1)
                            /\ k < cli.next + 1 => k = cli.next \/ (k < cli.next /\ cli.next > 1 /\ cli.next <= k + 5)
      BY <1>9
    <3> QED
      BY <1>3, <1>8, <2>2, <3>1
  <2> QED
    BY <1>3, <2>3, <2>4 DEF LicenceInv
<1>10. CASE cli.next \in 6 .. 10
  <2>1. Write.item = LicenceItems[cli.next - 5] /\ Write.value = v /\ cli.next - 5 \in 1 .. 5
    BY <1>1, <1>10 DEF Write, To
  <2>2. \A k \in 1 .. 5 : flash'[LicenceItems[k]] = IF k = cli.next - 5 THEN v ELSE flash[LicenceItems[k]]
    BY <1>4, <1>5, <2>1, LicenceFacts
  <2>3. \A k \in 1 .. 5 :
          /\ k + 5 < cli'.next => flash'[LicenceItems[k]] = v
          /\ k < cli'.next /\ cli'.next <= k + 5 => flash'[LicenceItems[k]] = Empty
    <3>1. \A k \in 1 .. 5 :
            /\ k + 5 < cli.next + 1 => k = cli.next - 5 \/ (k # cli.next - 5 /\ k + 5 < cli.next)
            /\ cli.next + 1 <= k + 5 => k # cli.next - 5 /\ k < cli.next /\ cli.next <= k + 5
      BY <1>10
    <3>2. cli.next > 1
      BY <1>10
    <3> QED
      BY <1>3, <1>8, <2>2, <3>1, <3>2
  <2>4. Agree(LicenceSet)'
    <3>1. \A k \in 1 .. 5 : flash'[LicenceItems[k]] = v \/ flash'[LicenceItems[k]] = Empty
      <4>1. \A k \in 1 .. 5 : k + 5 < cli'.next \/ (k < cli'.next /\ cli'.next <= k + 5)
        BY <1>3, <1>10
      <4> QED
        BY <2>3, <4>1
    <3>2. \A i \in LicenceSet : flash'[i] = v \/ flash'[i] = Empty
      BY <3>1, LicenceNumbers
    <3> QED
      BY <1>6, <3>2, AgreeOne
  <2> QED
    BY <1>3, <2>3, <2>4 DEF LicenceInv
<1>11. cli.next \in 1 .. 5 \/ cli.next \in 6 .. 10
  BY <1>2
<1> QED
  BY <1>9, <1>10, <1>11

LEMMA LicenceStays ==
  ASSUME DataTypes, CliInv, ConsoleInv, LicenceInv, [Next]_vars
  PROVE  LicenceInv'
<1>1. LicenceSet \subseteq Items /\ "plug.onoff" \notin LicenceSet /\ Empty \notin Inputs
  BY NvdmAssumption, AllItems DEF Named, LicenceSet
<1>2. NoCommand.name # "licence_write"
  BY DEF NoCommand
<1>3. CASE NvdmTables
  <2>1. cli' = NoCommand
    BY <1>3 DEF NvdmTables, At, ConsoleInv, cliVars
  <2>2. \A i \in Items : flash'[i] = flash[i] \/ flash'[i] \notin Inputs
    BY <1>3, TablesLose
  <2>3. bypassed' = bypassed
    BY <1>3 DEF NvdmTables, configVars
  <2>4. Agree(LicenceSet)'
    BY <1>1, <2>2, <2>3, AgreeKept DEF LicenceInv
  <2> QED
    BY <1>2, <2>1, <2>4 DEF LicenceInv
<1>4. CASE BaseMacApply \/ RegisterCommands \/ CheckLicence \/ WaitFactoryReply \/ StartNormal \/ StartDevice
           \/ FactoryReply \/ UNCHANGED vars
  <2>1. flash' = flash /\ cli' = cli /\ bypassed' = bypassed
    BY <1>4 DEF BaseMacApply, RegisterCommands, CheckLicence, WaitFactoryReply, StartNormal, StartDevice,
                PlugHandleInit, FactoryReply, vars, nvdmVars, cliVars, configVars
  <2> QED
    BY <2>1, LicenceKept
<1>5. CASE PlugStep
  <2>1. \A i \in LicenceSet : flash'[i] = flash[i]
    BY <1>1, <1>5, PlugWrites
  <2>2. cli' = cli /\ bypassed' = bypassed
    BY <1>5 DEF PlugStep, cliVars, configVars
  <2> QED
    BY <2>1, <2>2, LicenceKept
<1>6. CASE PowerCut
  <2>1. flash' = flash /\ cli' = NoCommand /\ bypassed' = bypassed
    BY <1>6 DEF PowerCut, CliCut
  <2> QED
    BY <1>2, <2>1, LicenceKept
<1>7. CASE Command
  <2>1. CliInv' /\ flash' = flash /\ cli'.next = 1
    BY <1>7, CommandStarts DEF nvdmVars
  <2>2. Agree(LicenceSet)'
    <3>1. bypassed' = bypassed
      BY <1>7, CommandStarts DEF configVars, PubKeyGet, PubKeySet, Decrypt
    <3> QED
      BY <2>1, <3>1, AgreeKept DEF LicenceInv
  <2>3. cli'.name = "licence_write" /\ Len(cli'.plan) = 10 => \E v \in Inputs : cli'.plan = LicencePlan(v)
    <3>1. Len(LicenseClear) = 5 /\ Len(<<>>) = 0
      BY ClearingShape
    <3>2. Planned(cli'.name, cli'.plan)
      BY <2>1 DEF CliInv
    <3>3. CASE cli'.name = "licence_write"
      <4>1. "licence_write" \in LicenceCommands
        BY DEF LicenceCommands
      <4>2. \/ cli'.plan = <<>> \/ cli'.plan = LicenseClear
            \/ \E v \in Inputs : cli'.plan = LicencePlan(v)
        BY <3>2, <3>3, <4>1, LicencePlans
      <4>3. cli'.plan = <<>> => Len(cli'.plan) = 0
        OBVIOUS
      <4>4. cli'.plan = LicenseClear => Len(cli'.plan) = 5
        BY <3>1
      <4> QED
        BY <4>2, <4>3, <4>4
    <3> QED
      BY <3>3
  <2> QED
    BY <2>1, <2>2, <2>3 DEF LicenceInv
<1>8. CASE CliStep /\ ~CliWrite
  <2>1. flash' = flash /\ bypassed' = bypassed
    BY <1>8, CommandGoesOn
  <2>2. cli'.name # "licence_write" \/ cli'.plan = <<>>
    <3>1. CASE CliWriteFails
      <4>1. CASE cli' = [name |-> "cert_undo", plan |-> SecureCertClear, next |-> 1]
        BY <4>1
      <4>2. CASE cli' = [cli EXCEPT !.plan = <<>>, !.next = 1]
        BY <4>2 DEF CliInv
      <4> QED
        BY <3>1, <4>1, <4>2 DEF CliWriteFails
    <3>2. CASE ReadbackFails
      BY <3>2 DEF ReadbackFails
    <3>3. CASE Return
      BY <1>2, <3>3 DEF Return
    <3> QED
      BY <1>8, <3>1, <3>2, <3>3 DEF CliStep
  <2>3. cli'.plan = <<>> => Len(cli'.plan) # 10
    OBVIOUS
  <2> QED
    BY <2>1, <2>2, <2>3, LicenceKept
<1>9. CASE CliWrite
  <2>1. CliStep /\ cli' = [cli EXCEPT !.next = @ + 1] /\ DOMAIN cli = {"name", "plan", "next"}
    BY <1>9 DEF CliStep, CliWrite, CliInv
  <2>2. /\ Write.item \in Group(cli.name)
        /\ \A i \in Items : flash'[i] = IF i = Write.item THEN Write.value ELSE flash[i]
    BY <1>9, <2>1, CommandGoesOn
  <2>3. cli'.name = cli.name /\ cli'.plan = cli.plan
    BY <2>1
  <2>4. ASSUME cli.name = "nvdm_write" \/ Write.item \notin LicenceSet \/ Write.value \notin Inputs
        PROVE  Agree(LicenceSet)'
    BY <1>1, <1>9, <2>4, AgreeConsole DEF LicenceInv
  <2>5. CASE cli.name \notin LicenceCommands
    <3>1. cli.name = "nvdm_write" \/ Write.item \notin LicenceSet
      BY <2>2, <2>5, GroupsApart DEF Group
    <3> QED
      BY <2>3, <2>5, <2>4, <3>1 DEF LicenceCommands, LicenceInv
  <2>6. CASE cli.name \in LicenceCommands /\ cli.plan = LicenseClear
    <3>1. Write.value = Empty
      <4>1. cli.next \in 1 .. 5
        BY <1>9, <2>6, ClearingShape DEF CliWrite, Writes, CliInv
      <4> QED
        BY <2>6, <4>1, ClearingShape DEF Write, To
    <3>2. Agree(LicenceSet)'
      BY <1>1, <2>4, <3>1
    <3> QED
      BY <2>3, <2>6, <3>2, ClearingShape DEF LicenceInv
  <2>7. CASE cli.name \in LicenceCommands /\ cli.plan = <<>>
    BY <1>9, <2>7 DEF CliWrite, Writes, CliInv
  <2> QED
    BY <1>9, <2>5, <2>6, <2>7, LicencePlans, LicenceWriteStays DEF CliInv
<1> QED
  BY <1>3, <1>4, <1>5, <1>6, <1>7, <1>8, <1>9 DEF Next, Entry, ConsoleStep

-----------------------------------------------------------------------------
(* The certificates. *)

LEMMA CertFacts ==
  /\ Complete(Held(CertItems)) <=> \A k \in 1 .. 3 : flash[CertItems[k]] \in Inputs
  /\ Complete(Held(CertItems))' <=> \A k \in 1 .. 3 : flash'[CertItems[k]] \in Inputs
  /\ \A k \in 1 .. 3 : CertItems[k] \in CertSet /\ CertItems[k] \in Items
  /\ \A k, l \in 1 .. 3 : CertItems[k] = CertItems[l] => k = l
<1>1. Len(CertItems) = 3
  BY ItemLists
<1>2. \A k \in 1 .. 3 : CertItems[k] \in CertSet
  BY ItemNumbers DEF CertSet
<1>3. CertSet \subseteq Items
  BY AllItems DEF Named
<1>4. \A k, l \in 1 .. 3 : CertItems[k] = CertItems[l] => k = l
  <2>1. \A k \in 1 .. 3 : k \in {1, 2, 3}
    OBVIOUS
  <2> QED
    BY <2>1, ItemNumbers
<1> QED
  BY <1>1, <1>2, <1>3, <1>4 DEF Complete, Valid, Held

LEMMA CertPlans ==
  ASSUME NEW name \in CertNames, NEW plan, Planned(name, plan)
  PROVE  \/ plan = <<>>
         \/ name = "cert_write" /\ \E p \in Inputs : plan = SecureCertWrite(p)
         \/ name \in {"cert_undo", "cert_delete"} /\ plan = SecureCertClear
BY DEF Planned, CertNames, LicenceCommands

\* They stay as they are, or one of them goes.
LEMMA CertsLose ==
  ASSUME CertsGood, torn => torn', bypassed' = bypassed,
         \A i \in CertSet : flash'[i] = flash[i] \/ flash'[i] \notin Inputs
  PROVE  CertsGood'
<1>1. CASE torn
  BY <1>1 DEF CertsGood
<1>2. CASE Agree(CertSet)
  <2>1. Agree(CertSet)'
    BY <1>2, AgreeKept
  <2> QED
    BY <2>1 DEF CertsGood
<1> QED
  BY <1>1, <1>2 DEF CertsGood

\* All three are one package's, or none is.
LEMMA CertsSame ==
  ASSUME NEW v, \A k \in 1 .. 3 : flash'[CertItems[k]] = v
  PROVE  CertsGood'
<1>1. \A i \in CertSet : flash'[i] = v
  BY CertNumbers
<1>2. Agree(CertSet)'
  BY <1>1, AgreeOne
<1> QED
  BY <1>2 DEF CertsGood

LEMMA CertKept ==
  ASSUME CertInv, \A i \in CertSet : flash'[i] = flash[i], torn' = torn, bypassed' = bypassed,
         \/ cli' = cli
         \/ cli.name \notin CertNames /\ cli'.name \notin CertNames
  PROVE  CertInv'
<1>1. \A k \in 1 .. 3 : flash'[CertItems[k]] = flash[CertItems[k]]
  BY CertFacts
<1>2. CertsGood => CertsGood'
  BY CertsLose
<1>3. CASE cli' = cli
  BY <1>1, <1>2, <1>3 DEF CertInv
<1>4. CASE cli.name \notin CertNames /\ cli'.name \notin CertNames
  BY <1>2, <1>4 DEF CertInv, CertNames
<1> QED
  BY <1>3, <1>4

LEMMA CertWriteStays ==
  ASSUME DataTypes, CliInv, CertInv, CliWrite
  PROVE  CertInv'
<1>1. /\ CliStep /\ Writes /\ torn' = torn /\ cli' = [cli EXCEPT !.next = @ + 1]
      /\ DOMAIN cli = {"name", "plan", "next"}
  BY DEF CliStep, CliWrite, configVars, CliInv
<1>2. /\ Write.item \in Group(cli.name)
      /\ \A i \in Items : flash'[i] = IF i = Write.item THEN Write.value ELSE flash[i]
  BY <1>1, CommandGoesOn
<1>3. ASSUME cli.name = "nvdm_write" \/ Write.item \notin CertSet \/ Write.value \notin Inputs
      PROVE  CertsGood => CertsGood'
  <2>1. Agree(CertSet) => Agree(CertSet)'
    BY <1>3, AllItems, AgreeConsole DEF Named
  <2> QED
    BY <1>1, <2>1 DEF CertsGood
<1>4. cli'.name = cli.name /\ cli'.plan = cli.plan /\ cli'.next = cli.next + 1
  BY <1>1
<1>5. CASE cli.name \notin CertNames
  <2>1. cli.name = "nvdm_write" \/ Write.item \notin CertSet
    BY <1>2, <1>5, GroupsApart DEF Group
  <2> QED
    BY <1>4, <1>5, <1>3, <2>1 DEF CertInv, CertNames
<1>6. ASSUME NEW v, cli.plan = Writing(CertItems, v)
      PROVE  /\ cli.next \in 1 .. 3 /\ cli'.plan # <<>>
             /\ \A k \in 1 .. 3 : flash'[CertItems[k]] = IF k = cli.next THEN v ELSE flash[CertItems[k]]
  <2>1. cli.next \in 1 .. 3 /\ Len(cli.plan) = 3
    <3>1. Len(Writing(CertItems, v)) = 3
      BY CertShape
    <3>2. Len(cli.plan) = 3
      BY <1>6, <3>1
    <3> QED
      BY <1>1, <3>2 DEF Writes, CliInv
  <2>2. cli'.plan # <<>>
    <3>1. cli.plan = <<>> => Len(cli.plan) = 0
      OBVIOUS
    <3> QED
      BY <1>4, <2>1, <3>1
  <2>3. Write.item = CertItems[cli.next] /\ Write.value = v
    <3>1. Writing(CertItems, v)[cli.next] = To(CertItems[cli.next], v)
      BY <2>1, CertShape
    <3> QED
      BY <1>6, <3>1 DEF Write, To
  <2> QED
    BY <1>2, <2>1, <2>2, <2>3, CertFacts
<1>7. CASE cli.name = "cert_write" /\ \E p \in Inputs : cli.plan = SecureCertWrite(p)
  <2>1. cli.plan # <<>>
    BY <1>6, <1>7, <1>4 DEF SecureCertWrite
  <2>2. PICK p \in Inputs : /\ cli.plan = SecureCertWrite(p)
                            /\ \A k \in 1 .. 3 : k < cli.next => flash[CertItems[k]] = p
    BY <1>7, <2>1 DEF CertInv
  <2>3. /\ cli.next \in 1 .. 3 /\ cli'.plan # <<>>
        /\ \A k \in 1 .. 3 : flash'[CertItems[k]] = IF k = cli.next THEN p ELSE flash[CertItems[k]]
    BY <1>6, <2>2 DEF SecureCertWrite
  <2>4. \A k \in 1 .. 3 : k < cli'.next => flash'[CertItems[k]] = p
    BY <1>4, <2>2, <2>3
  <2>5. cli'.next # 1
    BY <1>4, <2>3
  <2> QED
    BY <1>4, <1>7, <2>2, <2>3, <2>4, <2>5 DEF CertInv
<1>8. CASE cli.name \in {"cert_undo", "cert_delete"} /\ cli.plan = SecureCertClear
  <2>1. /\ cli.next \in 1 .. 3 /\ cli'.plan # <<>>
        /\ \A k \in 1 .. 3 : flash'[CertItems[k]] = IF k = cli.next THEN Empty ELSE flash[CertItems[k]]
    BY <1>6, <1>8 DEF SecureCertClear, Erasing
  <2>2. \A k \in 1 .. 3 : k < cli'.next => flash'[CertItems[k]] = Empty
    BY <1>4, <1>8, <2>1 DEF CertInv
  <2>3. cli.name = "cert_delete" => CertsGood'
    <3>1. Write.value = Empty /\ Empty \notin Inputs
      <4>1. Writing(CertItems, Empty)[cli.next] = To(CertItems[cli.next], Empty)
        BY <2>1, CertShape
      <4> QED
        BY <1>8, <4>1, NvdmAssumption DEF SecureCertClear, Erasing, Write, To
    <3>2. cli.name = "cert_delete" => CertsGood
      BY DEF CertInv
    <3> QED
      BY <1>3, <3>1, <3>2
  <2> QED
    BY <1>4, <1>8, <2>1, <2>2, <2>3 DEF CertInv
<1>9. CASE cli.plan = <<>>
  BY <1>1, <1>9 DEF Writes, CliInv
<1> QED
  BY <1>5, <1>7, <1>8, <1>9, CertPlans DEF CliInv

\* The clearing begins, whatever there is.
LEMMA UndoStarts ==
  ASSUME cli' = [name |-> "cert_undo", plan |-> SecureCertClear, next |-> 1]
  PROVE  CertInv'
<1>1. Len(SecureCertClear) = 3
  BY CertShape DEF SecureCertClear, Erasing
<1>2. SecureCertClear # <<>>
  BY <1>1
<1> QED
  BY <1>2 DEF CertInv

LEMMA CertFailStays ==
  ASSUME DataTypes, CliInv, CertInv, CliWriteFails
  PROVE  CertInv'
<1>1. CASE cli.name = "cert_write" /\ cli.next > 1
  BY <1>1, UndoStarts DEF CliWriteFails
<1>2. CASE ~(cli.name = "cert_write" /\ cli.next > 1)
  <2>1. /\ cli'.name = cli.name /\ cli'.plan = <<>> /\ cli'.next = 1
        /\ torn' = (torn \/ cli.name = "cert_undo")
    BY <1>2 DEF CliWriteFails, CliInv
  <2>2. flash' = flash /\ bypassed' = bypassed
    BY DEF CliWriteFails, Store
  <2>3. cli.name = "cert_write" => cli.next = 1
    BY <1>2, PlanWrites DEF CliInv
  <2>4. CertsGood'
    <3>1. CASE cli.name = "cert_undo"
      BY <2>1, <3>1 DEF CertsGood
    <3>2. CASE cli.name # "cert_undo"
      <4>1. CertsGood
        BY <2>3, <3>2 DEF CertInv
      <4> QED
        BY <2>1, <2>2, <4>1, CertsLose
    <3> QED
      BY <3>1, <3>2
  <2> QED
    BY <2>1, <2>4 DEF CertInv
<1> QED
  BY <1>1, <1>2

\* A command on the certificates that comes to its end leaves one package, or none.
LEMMA CertReturnStays ==
  ASSUME DataTypes, CliInv, CertInv, Return
  PROVE  CertInv'
<1>1. /\ flash' = flash /\ cli' = NoCommand /\ ~Writes /\ bypassed' = bypassed
      /\ torn' = (torn /\ ~(cli.name \in {"cert_write", "cert_delete"} /\ cli.plan # <<>>))
  BY DEF Return, nvdmVars
<1>2. NoCommand.name = "none"
  BY DEF NoCommand
<1>3. CASE cli.plan = <<>> \/ cli.name \notin CertNames
  <2>1. CertsGood /\ torn' = torn
    BY <1>1, <1>3 DEF CertInv, CertNames, DataTypes
  <2>2. CertsGood'
    BY <1>1, <2>1, CertsLose
  <2> QED
    BY <1>1, <1>2, <2>2 DEF CertInv
<1>4. CASE cli.plan # <<>> /\ cli.name \in CertNames
  <2>1. \E v : cli.plan = Writing(CertItems, v)
    BY <1>4, CertPlans DEF CliInv, SecureCertWrite, SecureCertClear, Erasing
  <2>2. cli.next = 4
    <3>1. \A v : Len(Writing(CertItems, v)) = 3
      BY CertShape
    <3>2. Len(cli.plan) = 3
      BY <2>1, <3>1
    <3> QED
      BY <1>1, <3>2 DEF Writes, CliInv
  <2>3. CASE cli.name = "cert_write"
    <3>1. \E p \in Inputs : \A k \in 1 .. 3 : flash[CertItems[k]] = p
      BY <1>4, <2>2, <2>3 DEF CertInv
    <3>2. CertsGood'
      BY <1>1, <3>1, CertsSame
    <3> QED
      BY <1>1, <1>2, <3>2 DEF CertInv
  <2>4. CASE cli.name \in {"cert_undo", "cert_delete"}
    <3>1. \A k \in 1 .. 3 : flash[CertItems[k]] = Empty
      BY <1>4, <2>2, <2>4 DEF CertInv
    <3>2. CertsGood'
      BY <1>1, <3>1, CertsSame
    <3> QED
      BY <1>1, <1>2, <3>2 DEF CertInv
  <2> QED
    BY <1>4, <2>3, <2>4 DEF CertNames
<1> QED
  BY <1>3, <1>4

LEMMA CertStays ==
  ASSUME DataTypes, CliInv, ConsoleInv, CertInv, [Next]_vars
  PROVE  CertInv'
<1>1. NoCommand.name = "none" /\ "none" \notin CertNames
  BY DEF NoCommand, CertNames
<1>2. CASE NvdmTables
  <2>1. cli = NoCommand /\ cli' = NoCommand /\ torn' = torn /\ bypassed' = bypassed
    BY <1>2 DEF NvdmTables, At, ConsoleInv, cliVars, configVars
  <2>2. \A i \in Items : flash'[i] = flash[i] \/ flash'[i] \notin Inputs
    BY <1>2, TablesLose
  <2>3. CertsGood
    BY <1>1, <2>1 DEF CertInv, CertNames
  <2>4. CertsGood'
    BY <2>1, <2>2, <2>3, AllItems, CertsLose DEF Named
  <2> QED
    BY <1>1, <2>1, <2>4 DEF CertInv
<1>3. CASE BaseMacApply \/ RegisterCommands \/ CheckLicence \/ WaitFactoryReply \/ StartNormal \/ StartDevice
           \/ FactoryReply \/ UNCHANGED vars
  <2>1. flash' = flash /\ cli' = cli /\ torn' = torn /\ bypassed' = bypassed
    BY <1>3 DEF BaseMacApply, RegisterCommands, CheckLicence, WaitFactoryReply, StartNormal, StartDevice,
                PlugHandleInit, FactoryReply, vars, nvdmVars, cliVars, configVars
  <2> QED
    BY <2>1, CertKept
<1>4. CASE PlugStep
  <2>1. "plug.onoff" \notin CertSet /\ CertSet \subseteq Items
    BY AllItems DEF Named, CertSet
  <2>2. \A i \in CertSet : flash'[i] = flash[i]
    BY <1>4, <2>1, PlugWrites
  <2>3. cli' = cli /\ torn' = torn /\ bypassed' = bypassed
    BY <1>4 DEF PlugStep, cliVars, configVars
  <2> QED
    BY <2>2, <2>3, CertKept
<1>5. CASE PowerCut
  <2>1. flash' = flash /\ cli' = NoCommand /\ torn' = (torn \/ cli.name \in CertCommands)
        /\ bypassed' = bypassed
    BY <1>5 DEF PowerCut, CliCut
  <2>2. CertsGood'
    <3>1. CASE cli.name \in CertCommands
      BY <2>1, <3>1 DEF CertsGood
    <3>2. CASE cli.name \notin CertCommands
      <4>1. CertsGood
        BY <3>2 DEF CertInv, CertCommands
      <4> QED
        BY <2>1, <4>1, CertsLose
    <3> QED
      BY <3>1, <3>2
  <2> QED
    BY <1>1, <2>1, <2>2 DEF CertInv
<1>6. CASE Command
  <2>1. cli = NoCommand /\ CliInv' /\ flash' = flash /\ cli'.next = 1
    BY <1>6, CommandStarts DEF nvdmVars
  <2>2. torn' = torn /\ bypassed' = bypassed
    BY <1>6, CommandStarts DEF configVars, PubKeyGet, PubKeySet, Decrypt
  <2>3. CertsGood
    BY <1>1, <2>1 DEF CertInv, CertNames
  <2>4. CertsGood'
    BY <2>1, <2>2, <2>3, CertsLose
  <2>5. cli'.name = "cert_write" /\ cli'.plan # <<>> => \E p \in Inputs : cli'.plan = SecureCertWrite(p)
    <3>1. "cert_write" \in CertNames /\ Planned(cli'.name, cli'.plan)
      BY <2>1 DEF CertNames, CliInv
    <3> QED
      BY <3>1, CertPlans
  <2>6. \A k \in 1 .. 3 : ~(k < cli'.next)
    BY <2>1
  <2> QED
    BY <2>4, <2>5, <2>6 DEF CertInv
<1>7. CASE CliStep
  <2>1. CASE ReadbackFails
    BY <2>1, UndoStarts DEF ReadbackFails
  <2> QED
    BY <1>7, <2>1, CertWriteStays, CertFailStays, CertReturnStays DEF CliStep
<1> QED
  BY <1>2, <1>3, <1>4, <1>5, <1>6, <1>7 DEF Next, Entry, ConsoleStep

-----------------------------------------------------------------------------
(* Missing items. *)

LEMMA MissKept ==
  ASSUME MissInv, flash' = flash, failed_now => failed_now', cli' = cli,
         entry'.at = entry.at \/ ~At("tables")
  PROVE  MissInv'
BY DEF MissInv, Cleaned, At

\* Where nothing is missing, nothing but a deletion changes that.
LEMMA MissNone ==
  ASSUME \A i \in Items : flash[i] # Gone, \A i \in Items : flash'[i] = flash[i] \/ flash'[i] # Gone
  PROVE  MissInv'
BY DEF MissInv

\* In the middle of the cleaning the next write is the default of what is gone.
LEMMA CleanWrites ==
  ASSUME DataTypes, CliInv, cli.plan = CleanUserGroup, Writes
  PROVE  \E m \in 1 .. 3 :
           \/ cli.next = 2 * m - 1 /\ Write.item = UserItems[m] /\ Write.value = Gone
           \/ cli.next = 2 * m /\ Write.item = UserItems[m] /\ Write.value # Gone
<1>1. cli.next \in 1 .. 6
  BY CleanShape DEF Writes, CliInv
<1>2. PICK m \in 1 .. 3 : cli.next = 2 * m - 1 \/ cli.next = 2 * m
  <2>1. cli.next \in {1, 2, 3, 4, 5, 6}
    BY <1>1
  <2>2. 1 \in 1 .. 3 /\ 2 \in 1 .. 3 /\ 3 \in 1 .. 3
    OBVIOUS
  <2>3. \/ cli.next = 2 * 1 - 1 \/ cli.next = 2 * 1
        \/ cli.next = 2 * 2 - 1 \/ cli.next = 2 * 2
        \/ cli.next = 2 * 3 - 1 \/ cli.next = 2 * 3
    BY <2>1
  <2> QED
    BY <2>2, <2>3
<1>3. CASE cli.next = 2 * m - 1
  <2>1. Write = To(UserItems[m], Gone)
    BY <1>3, CleanShape DEF Write
  <2> QED
    BY <1>3, <2>1 DEF To
<1>4. CASE cli.next = 2 * m
  <2>1. Write = To(UserItems[m], Default(UserItems[m]))
    BY <1>4, CleanShape DEF Write
  <2> QED
    BY <1>4, <2>1, DefaultIsNoInput DEF To
<1> QED
  BY <1>2, <1>3, <1>4

LEMMA UserPlans ==
  ASSUME NEW plan, Planned("user", plan)
  PROVE  plan = <<>> \/ plan = CleanUserGroup
BY DEF Planned, LicenceCommands

LEMMA MissWriteStays ==
  ASSUME DataTypes, CliInv, CliWrite, UNCHANGED entry,
         \A i \in Items : flash[i] = Gone => Cleaned(i)
  PROVE  MissInv'
<1>1. /\ CliStep /\ Writes /\ cli' = [cli EXCEPT !.next = @ + 1] /\ DOMAIN cli = {"name", "plan", "next"}
  BY DEF CliStep, CliWrite, CliInv
<1>2. /\ cli.name # "user" => Write.value # Gone
      /\ \A j \in Items : flash'[j] = IF j = Write.item THEN Write.value ELSE flash[j]
  BY <1>1, CommandGoesOn
<1>3. CASE cli.name # "user"
  BY <1>2, <1>3, MissNone DEF Cleaned
<1>4. CASE cli.name = "user" /\ cli.plan = CleanUserGroup
  <2>1. PICK m \in 1 .. 3 :
          \/ cli.next = 2 * m - 1 /\ Write.item = UserItems[m] /\ Write.value = Gone
          \/ cli.next = 2 * m /\ Write.item = UserItems[m] /\ Write.value # Gone
    BY <1>1, <1>4, CleanWrites
  <2>2. CASE cli.next = 2 * m - 1
    <3>1. \A i \in Items : flash[i] # Gone
      <4>1. \A n \in 1 .. 3 : 2 * m - 1 # 2 * n
        OBVIOUS
      <4> QED
        BY <2>2, <4>1 DEF Cleaned
    <3>2. cli'.name = "user" /\ cli'.plan = CleanUserGroup /\ cli'.next = 2 * m
      BY <1>1, <1>4, <2>2
    <3>3. Write.item = UserItems[m]
      BY <2>1
    <3> QED
      BY <1>2, <3>1, <3>2, <3>3 DEF MissInv, Cleaned
  <2>3. CASE cli.next = 2 * m
    <3>1. \A i \in Items : flash[i] = Gone => i = UserItems[m]
      <4>1. \A n \in 1 .. 3 : 2 * m = 2 * n => n = m
        OBVIOUS
      <4> QED
        BY <2>3, <4>1 DEF Cleaned
    <3>2. Write.item = UserItems[m] /\ Write.value # Gone
      <4>1. 2 * m # 2 * m - 1
        OBVIOUS
      <4> QED
        BY <2>1, <2>3, <4>1
    <3> QED
      BY <1>2, <3>1, <3>2 DEF MissInv
  <2> QED
    BY <2>1, <2>2, <2>3
<1>5. CASE cli.plan = <<>>
  BY <1>1, <1>5 DEF Writes, CliInv
<1> QED
  BY <1>3, <1>4, <1>5, UserPlans DEF CliInv

LEMMA MissConsoleStays ==
  ASSUME DataTypes, CliInv, MissInv, ConsoleStep
  PROVE  MissInv'
<1>1. UNCHANGED entry
  BY DEF ConsoleStep
<1>2. CASE At("tables")
  BY <1>1, <1>2 DEF MissInv, At
<1>3. CASE failed_now
  <2>1. CASE Command
    BY <1>3, <2>1, CommandStarts DEF nvdmVars, MissInv
  <2>2. CASE CliStep
    BY <1>3, <2>2 DEF CliStep, CliWrite, CliWriteFails, ReadbackFails, Return, Store, nvdmVars, MissInv
  <2> QED
    BY <2>1, <2>2 DEF ConsoleStep
<1>4. CASE ~At("tables") /\ ~failed_now
  <2>1. \A i \in Items : flash[i] = Gone => Cleaned(i)
    BY <1>4 DEF MissInv
  <2>2. CASE Command
    <3>1. cli.name = "none" /\ flash' = flash
      BY <2>2, CommandStarts DEF NoCommand, nvdmVars
    <3> QED
      BY <2>1, <3>1, MissNone DEF Cleaned
  <2>3. CASE CliWrite
    BY <1>1, <2>1, <2>3, MissWriteStays
  <2>4. CASE CliWriteFails
    BY <2>4 DEF CliWriteFails, Store, MissInv
  <2>5. CASE ReadbackFails \/ Return
    <3>1. ~Writes /\ flash' = flash /\ (cli.name = "cert_write" \/ Return)
      BY <2>5 DEF ReadbackFails, Return, nvdmVars
    <3>2. \A i \in Items : flash[i] # Gone
      <4>1. ASSUME NEW i \in Items, Cleaned(i) PROVE FALSE
        <5>1. PICK m \in 1 .. 3 : cli.next = 2 * m /\ cli.plan = CleanUserGroup
          BY <4>1 DEF Cleaned
        <5>2. Len(cli.plan) = 6
          BY <5>1, CleanShape
        <5> QED
          BY <3>1, <5>1, <5>2 DEF Writes
      <4> QED
        BY <2>1, <4>1
    <3> QED
      BY <3>1, <3>2, MissNone
  <2> QED
    BY <2>2, <2>3, <2>4, <2>5 DEF ConsoleStep, CliStep
<1> QED
  BY <1>2, <1>3, <1>4

LEMMA MissStays ==
  ASSUME DataTypes, CliInv, MissInv, [Next]_vars
  PROVE  MissInv'
<1>1. CASE NvdmTables
  <2>1. CASE CheckItem(TRUE) /\ UNCHANGED entry
    BY <1>1, <2>1 DEF NvdmTables, MissInv, At
  <2>2. CASE CheckItem(FALSE)
    BY <2>2 DEF CheckItem, Store, MissInv
  <2>3. CASE Missing = {} /\ UNCHANGED nvdmVars
    <3>1. Items = {ItemTables[k] : k \in 1 .. Len(ItemTables)}
      BY TablesHoldItems
    <3>2. \A i \in Items : flash[i] # Gone
      BY <2>3, <3>1 DEF Missing
    <3> QED
      BY <2>3, <3>2, MissNone DEF nvdmVars
  <2> QED
    BY <1>1, <2>1, <2>2, <2>3 DEF NvdmTables
<1>2. CASE BaseMacApply \/ RegisterCommands \/ CheckLicence \/ WaitFactoryReply \/ StartNormal \/ StartDevice
  <2>1. ~At("tables") /\ UNCHANGED <<flash, failed_now, cli>>
    BY <1>2 DEF BaseMacApply, RegisterCommands, CheckLicence, WaitFactoryReply, StartNormal, StartDevice,
                PlugHandleInit, At, nvdmVars, cliVars
  <2> QED
    BY <2>1, MissKept
<1>3. CASE FactoryReply \/ UNCHANGED vars
  <2>1. UNCHANGED <<flash, failed_now, cli, entry>>
    BY <1>3 DEF FactoryReply, vars, nvdmVars, cliVars, entryVars
  <2> QED
    BY <2>1, MissKept
<1>4. CASE PlugStep
  <2>1. ~At("tables") /\ UNCHANGED cli
    BY <1>4 DEF PlugStep, At, cliVars
  <2>2. failed_now => failed_now'
    BY <1>4 DEF PlugStep, HttpToggle, AttributeChange, InitServer, OnOffReportWork, RawSet, SetGpio, SetStore,
                Store, Asks, nvdmVars
  <2>3. \A i \in Items : flash'[i] = flash[i] \/ flash'[i] # Gone
    BY <1>4, PlugWrites DEF Gone
  <2> QED
    BY <2>1, <2>2, <2>3 DEF MissInv, Cleaned
<1>5. CASE PowerCut
  BY <1>5 DEF PowerCut, MissInv, At
<1> QED
  BY <1>1, <1>2, <1>3, <1>4, <1>5, MissConsoleStays DEF Next, Entry

-----------------------------------------------------------------------------
(* The invariant holds, and what follows from it. *)

LEMMA DeviceInit ==
  ASSUME Init
  PROVE  DeviceInv
<1>1. DataTypes
  BY TypesInit
<1>2. cli = NoCommand /\ ~console /\ At("tables") /\ entry.read = <<>>
  BY DEF Init, CliInit, At
<1>3. CliInv /\ ConsoleInv
  BY <1>2 DEF CliInv, NoCommand, Names, Planned, ConsoleInv
<1>4. NoCommand.name = "none" /\ "none" \notin LicenceCommands
  BY DEF NoCommand, LicenceCommands
<1>5. BootInv /\ ReplyHonoured
  <2>1. Len(entry.read) \in 0 .. 5 /\ \A k \in 1 .. Len(entry.read) : FALSE
    BY <1>2
  <2>2. ~replied
    BY DEF Init
  <2> QED
    BY <1>2, <1>4, <2>1, <2>2 DEF BootInv, ReplyHonoured, At
<1>6. SessionInv
  BY DEF Init, ConfigInit, NoSession, SessionInv
<1>7. RelayInv
  BY <1>2 DEF Init, PlugInit, RelayInv, At
<1>8. \/ \A i \in Items : flash[i] = Gone
      \/ \E l \in Inputs : \A i \in Items : i \notin UserSet => flash[i] = l
  BY ItemLists DEF Init, NvdmInit
<1>9. Gone \notin Inputs /\ UserSet \intersect LicenceSet = {} /\ UserSet \intersect CertSet = {}
  BY NvdmAssumption, GroupsApart
<1>10. LicenceInv
  <2>1. \/ \A k \in 1 .. 5 : flash[LicenceItems[k]] = Gone
        \/ \E l \in Inputs : \A k \in 1 .. 5 : flash[LicenceItems[k]] = l
    BY <1>8, <1>9, LicenceFacts
  <2>2. \/ \A i \in LicenceSet : flash[i] = Gone
        \/ \E l \in Inputs : \A i \in LicenceSet : flash[i] = l
    BY <2>1, LicenceNumbers
  <2> QED
    BY <1>2, <1>4, <1>9, <2>2 DEF LicenceInv, Agree
<1>11. CertInv
  <2>1. \/ \A k \in 1 .. 3 : flash[CertItems[k]] = Gone
        \/ \E l \in Inputs : \A k \in 1 .. 3 : flash[CertItems[k]] = l
    BY <1>8, <1>9, CertFacts
  <2>2. \/ \A i \in CertSet : flash[i] = Gone
        \/ \E l \in Inputs : \A i \in CertSet : flash[i] = l
    BY <2>1, CertNumbers
  <2>3. CertsGood
    BY <1>9, <2>2 DEF CertsGood, Agree
  <2> QED
    BY <1>2, <1>4, <2>3 DEF CertInv
<1>12. MissInv
  BY <1>2 DEF MissInv
<1> QED
  BY <1>1, <1>3, <1>5, <1>6, <1>7, <1>10, <1>11, <1>12 DEF DeviceInv

\* The groups of items, the boot, the console and the relay between power cuts.
THEOREM DeviceInvariant == Spec => []DeviceInv
<1>1. Init => DeviceInv
  BY DeviceInit
<1>2. DeviceInv /\ [Next]_vars => DeviceInv'
  BY TypesStay, CliStays, ConsoleStays, BootStays, ReplyStays, SessionStays, RelayStays, LicenceStays,
     CertStays, MissStays DEF DeviceInv
<1> QED
  BY <1>1, <1>2, PTL DEF Spec

\* Types of flash, session, console, plug and boot: a command writes only items
\* there are and values they may hold.
THEOREM DeviceTypeCorrect == Spec => []TypeOK
<1>1. DeviceInv => TypeOK
  BY TypesAreOK DEF DeviceInv
<1> QED
  BY <1>1, DeviceInvariant, PTL

\* snfLicenseRead never takes the parts of two frames for a licence, but for what
\* the generic sonoff nvdm write put there.
THEOREM LicenceIsWhole == Spec => []LicenceWhole
<1>1. DeviceInv => LicenceWhole
  <2>1. SUFFICES ASSUME DeviceInv, Complete(LicenceValues) PROVE OneSource(LicenceItems)
    BY DEF LicenceWhole
  <2>2. \A i \in LicenceSet : flash[i] \in Inputs
    BY <2>1, LicenceFacts, LicenceNumbers
  <2> QED
    BY <2>1, <2>2, ItemLists DEF DeviceInv, LicenceInv, Agree, OneSource
<1> QED
  BY <1>1, DeviceInvariant, PTL

\* sonoffEntry's mode and address are those of the licence in the flash.
THEOREM BootIsTheLicences == Spec => []BootFitsLicence
<1>1. DeviceInv => BootFitsLicence
  <2>1. Complete(LicenceValues) => Mac = flash["base_mac"]
    <3>1. LicenceItems[3] = "base_mac" /\ 3 \in 1 .. 5
      BY ItemNumbers
    <3>2. Complete(LicenceValues) => flash["base_mac"] \in Inputs
      BY <3>1, LicenceFacts
    <3> QED
      BY <3>2 DEF Mac, Valid
  <2> QED
    BY <2>1 DEF DeviceInv, BootInv, BootFitsLicence, At
<1> QED
  BY <1>1, DeviceInvariant, PTL

\* A reply that snfCliWaitFactoryReply's window took is never overlooked.
THEOREM ReplyCounts == Spec => []ReplyHonoured
<1>1. DeviceInv => ReplyHonoured
  BY DEF DeviceInv
<1> QED
  BY <1>1, DeviceInvariant, PTL

\* The certificates in the flash are of one package, if no write of them was cut
\* and no clearing of them failed, but for what the generic sonoff nvdm write put
\* there.
THEOREM CertsBelongTogether == Spec => []CertNotMixed
<1>1. DeviceInv => CertNotMixed
  <2>1. SUFFICES ASSUME DeviceInv, ~CliBusy, ~torn, Complete(Held(CertItems))
                 PROVE  OneSource(CertItems)
    BY DEF CertNotMixed
  <2>2. Agree(CertSet)
    BY <2>1 DEF DeviceInv, CertInv, CertsGood, CliBusy, NoCommand
  <2>3. \A i \in CertSet : flash[i] \in Inputs
    BY <2>1, CertFacts, CertNumbers
  <2> QED
    BY <2>2, <2>3, ItemLists DEF Agree, OneSource
<1> QED
  BY <1>1, DeviceInvariant, PTL

\* No key pair of the secure session decrypts twice.
THEOREM KeysAreFresh == Spec => []KeyUsedOnce
<1>1. DeviceInv => KeyUsedOnce
  BY DEF DeviceInv, SessionInv, KeyUsedOnce, SessionReady, CliBusy, NoCommand, CertCommands
<1> QED
  BY <1>1, DeviceInvariant, PTL

\* nvdmCheckDefaultValue leaves nothing missing that its writes could make good.
THEOREM NothingStaysMissing == Spec => []NothingMissing
<1>1. DeviceInv => NothingMissing
  BY DEF DeviceInv, MissInv, Cleaned, NothingMissing
<1> QED
  BY <1>1, DeviceInvariant, PTL

\* The relay at rest is what snfPlugHandleInit will make of it after a power cut.
THEOREM RelayComesBack == Spec => []RelayIsStored
<1>1. DeviceInv => RelayIsStored
  <2>1. NoSet.at # "store"
    BY DEF NoSet
  <2> QED
    BY <2>1 DEF DeviceInv, RelayInv, RelayIsStored, RelayRemembered, PlugAtRest
<1> QED
  BY <1>1, DeviceInvariant, PTL
=============================================================================
