------------------------ MODULE MatterContractProofs ------------------------
(***************************************************************************)
(* Proof that MatterFlash keeps the contract of MatterStore, for any       *)
(* numbers of namespaces, names, slots and entries, any sector size and    *)
(* any number of power cuts.  When a call begins, its plan is followed     *)
(* from the flash as it is then to the flash it leaves behind: a run, all  *)
(* of whose states a cut may leave, and whose last one the call may        *)
(* answer for.  The invariant is that such a run lies ahead of every call  *)
(* in progress; a flash operation is its first step.                       *)
(***************************************************************************)
EXTENDS MatterFlashProofs

-----------------------------------------------------------------------------
(* Everything in one place, as it is until something is doubled. *)

OneEntry(h) ==
  \A k, l \in Entries :
    h[k].flag = "using" /\ h[l].flag = "using" /\ h[k].name = h[l].name => k = l
OneSlot(tb) == \A j, l \in Slots : tb[j] = tb[l] /\ tb[j] # NoName => j = l

\* That is so when it is so of all names and of all namespaces.
LEMMA AllInOnePlace ==
  ASSUME NEW W
  PROVE  /\ Names \subseteq W =>
              \A h \in [Entries -> Headers \union {Free}] : OneEntryOf(h, W) => OneEntry(h)
         /\ Spaces \subseteq W => \A tb \in Tables : OneSlotOf(tb, W) => OneSlot(tb)
<1>1. ASSUME Names \subseteq W,
             NEW h \in [Entries -> Headers \union {Free}], OneEntryOf(h, W)
      PROVE  OneEntry(h)
  <2>1. \A k \in Entries : h[k].flag = "using" => h[k].name \in W
    BY <1>1, HeaderTypes DEF Free
  <2> QED
    BY <1>1, <2>1 DEF OneEntry, OneEntryOf
<1>2. ASSUME Spaces \subseteq W, NEW tb \in Tables, OneSlotOf(tb, W) PROVE OneSlot(tb)
  <2>1. \A j \in Slots : tb[j] # NoName => tb[j] \in W
    BY <1>2 DEF Tables
  <2> QED
    BY <1>2, <2>1 DEF OneSlot, OneSlotOf
<1> QED
  BY <1>1, <1>2

\* And then of any.
LEMMA AnyInOnePlace ==
  ASSUME NEW h, OneEntry(h), NEW W
  PROVE  OneEntryOf(h, W)
BY DEF OneEntry, OneEntryOf

-----------------------------------------------------------------------------
(* Flash as a value, and what it holds. *)

CellTables == [Slots -> [Offsets -> CellValues]]
Flashes == [table : Tables, heads : HeadTables, cells : CellTables]
Flash == [table |-> table, heads |-> heads, cells |-> cells]

Clean(d) == IF \E k \in 1 .. Len(d) : d[k] = Mixed THEN <<Mixed>> ELSE d
DataAs(c, e) == [k \in 1 .. e.len |-> c[e.off + k - 1]]
ReadAs(h, c, n) ==
  IF InUse(h, n) = {} THEN <<>> ELSE Clean(DataAs(c, h[Min(InUse(h, n))]))
DirtyAs(h, c) == \E o \in Offsets : o >= EndOfData(h) /\ c[o] # Blank
ContentAs(h, c) ==
  [there |-> TRUE, values |-> [n \in Names |-> ReadAs(h, c, n)], dirty |-> DirtyAs(h, c)]
SlotsAs(tb, s) == {j \in Slots : tb[j] = s}
StoreAs(f) ==
  [s \in Spaces |->
     IF SlotsAs(f.table, s) = {} THEN NoSpace
     ELSE ContentAs(f.heads[Min(SlotsAs(f.table, s))], f.cells[Min(SlotsAs(f.table, s))])]
OrphansAs(f) ==
  {ContentAs(f.heads[j], f.cells[j]) : j \in SlotsAs(f.table, NoName)}
    \ {[NoSpace EXCEPT !.there = TRUE]}
ContentsAs(f) == [store |-> StoreAs(f), orphans |-> OrphansAs(f)]

\* The store's contents are those of flash as a value.
LEMMA ContentsOfFlash == Contents = ContentsAs(Flash)
<1>1. Flash.table = table /\ Flash.heads = heads /\ Flash.cells = cells
  BY DEF Flash
<1>2. \A j : Content(j) = ContentAs(heads[j], cells[j])
  BY DEF Content, ContentAs, ReadIn, ReadAs, Clean, Data, DataAs, Dirty, DirtyAs
<1>3. \A s : SlotsAs(table, s) = SlotsOf(s)
  BY DEF SlotsAs, SlotsOf
<1>4. SlotsAs(table, NoName) = NewSlots
  BY DEF SlotsAs, NewSlots
<1>5. StoreAs(Flash) = [s \in Spaces |-> IF SlotsOf(s) = {} THEN NoSpace ELSE Content(Slot(s))]
  BY <1>1, <1>2, <1>3 DEF StoreAs, Slot
<1>6. OrphansAs(Flash) = {Content(j) : j \in NewSlots} \ {[NoSpace EXCEPT !.there = TRUE]}
  BY <1>1, <1>2, <1>4 DEF OrphansAs
<1> QED
  BY <1>5, <1>6 DEF Contents, ContentsAs

\* What is stored in a slot that has a namespace, and of one that has none.
Stores(f, t, l) == ContentsAs(f).store[t] = ContentAs(f.heads[l], f.cells[l])

\* A namespace in the table is stored as its slot has it, another one is not there.
LEMMA StoreAt ==
  ASSUME NEW f, OneSlot(f.table), NEW t \in Spaces
  PROVE  /\ \A l \in Slots : f.table[l] = t => Stores(f, t, l)
         /\ (\A l \in Slots : f.table[l] # t) => ContentsAs(f).store[t] = NoSpace
<1>1. ContentsAs(f).store = StoreAs(f)
  BY DEF ContentsAs
<1>2. ASSUME NEW l \in Slots, f.table[l] = t PROVE Stores(f, t, l)
  <2>1. l \in SlotsAs(f.table, t) /\ SlotsAs(f.table, t) \subseteq Nat
    BY <1>2 DEF SlotsAs, Slots
  <2>2. Min(SlotsAs(f.table, t)) \in SlotsAs(f.table, t)
    BY <2>1, MinLeast
  <2>3. Min(SlotsAs(f.table, t)) = l
    BY <1>2, <2>2, MatterFlashAssumption DEF SlotsAs, OneSlot
  <2>4. StoreAs(f)[t] = ContentAs(f.heads[l], f.cells[l])
    BY <2>1, <2>3 DEF StoreAs
  <2> QED
    BY <1>1, <2>4 DEF Stores
<1>3. ASSUME \A l \in Slots : f.table[l] # t PROVE ContentsAs(f).store[t] = NoSpace
  <2>1. SlotsAs(f.table, t) = {}
    BY <1>3 DEF SlotsAs
  <2>2. StoreAs(f)[t] = NoSpace
    BY <2>1 DEF StoreAs
  <2> QED
    BY <1>1, <2>2
<1> QED
  BY <1>2, <1>3

-----------------------------------------------------------------------------
(* What the contract allows of flash f, when call c began with contents H. *)

BasesIn(H, s) == IF H.store[s].there THEN {H.store[s]} ELSE {Contract!Empty} \union H.orphans
Becoming(H, N, s, x) == N.store = [H.store EXCEPT ![s] = x] /\ N.orphans \subseteq H.orphans
Losing(H, N, lost) ==
  /\ N.store = [s \in Spaces |-> IF s \in lost THEN NoSpace ELSE H.store[s]]
  /\ N.orphans \subseteq H.orphans \union {Contract!Holds(Contract!Nothing, TRUE)}
                           \union {H.store[s] : s \in {t \in lost : H.store[t].there}}

WriteCut(H, N, s, n, v) ==
  \E b \in BasesIn(H, s), dirty \in BOOLEAN, lost \in SUBSET Names :
    \E x \in Contract!Stored(b, v) \union {b.values[n], <<>>} :
      Becoming(H, N, s, Contract!Holds([m \in Names |->
        IF m = n THEN x ELSE IF m \in lost THEN <<>> ELSE b.values[m]], dirty))
ClearCut(H, N, s) ==
  \/ \E dirty \in BOOLEAN : Becoming(H, N, s, Contract!Holds(Contract!Nothing, dirty))
  \/ \E others \in SUBSET (Spaces \ {s}) : Losing(H, N, {s} \union others)

WriteDone(H, N, s, n, v) ==
  \E b \in BasesIn(H, s), dirty \in BOOLEAN : \E x \in Contract!Stored(b, v) :
    /\ dirty => b.dirty
    /\ Becoming(H, N, s, Contract!Holds([b.values EXCEPT ![n] = x], dirty))
WriteFailed(H, N, s, n) ==
  \E b \in BasesIn(H, s), dirty \in BOOLEAN : \E x \in {b.values[n], <<>>} :
    /\ dirty => b.dirty
    /\ Becoming(H, N, s, Contract!Holds([b.values EXCEPT ![n] = x], dirty))
CleanDone(H, N, s, n) ==
  /\ H.store[s].there /\ H.store[s].values[n] # <<>>
  /\ Becoming(H, N, s, [H.store[s] EXCEPT !.values[n] = <<>>])
EnsureDone(H, N, s) == \E b \in BasesIn(H, s) : Becoming(H, N, s, b)
ClearDone(H, N, s) == H.store[s].there /\ Becoming(H, N, s, NoSpace)
EraseDone(N) == N.store = [s \in Spaces |-> NoSpace] /\ N.orphans = {}

CutAllowed(f, c, H) ==
  \/ ContentsAs(f) = H
  \/ c.kind = "write" /\ WriteCut(H, ContentsAs(f), c.space, c.name, c.value)
  \/ c.kind = "clear" /\ ClearCut(H, ContentsAs(f), c.space)
  \/ c.kind = "erase" /\ Losing(H, ContentsAs(f), Spaces)
ReturnAllowed(f, c, H) ==
  IF c.ok
  THEN \/ c.kind = "write" /\ WriteDone(H, ContentsAs(f), c.space, c.name, c.value)
       \/ c.kind = "clean" /\ CleanDone(H, ContentsAs(f), c.space, c.name)
       \/ c.kind = "ensure" /\ EnsureDone(H, ContentsAs(f), c.space)
       \/ c.kind = "clear" /\ ClearDone(H, ContentsAs(f), c.space)
       \/ c.kind = "erase" /\ EraseDone(ContentsAs(f))
  ELSE \/ ContentsAs(f) = H
       \/ c.kind = "write" /\ WriteFailed(H, ContentsAs(f), c.space, c.name)

\* Contents made there, or not.
LEMMA ThereIs ==
  ASSUME NEW a, NEW b, NEW c, NEW d
  PROVE  [[there |-> a, values |-> b, dirty |-> c] EXCEPT !.there = d]
           = [there |-> d, values |-> b, dirty |-> c]
BY SMT

\* Nothing stored.
LEMMA NothingStored ==
  /\ NoSpace = Contract!NoSpace
  /\ Contract!Empty = [NoSpace EXCEPT !.there = TRUE]
  /\ \A dirty : Contract!Holds(Contract!Nothing, dirty)
                 = [there |-> TRUE, values |-> [n \in Names |-> <<>>], dirty |-> dirty]
<1>1. Contract!Nothing = [n \in Names |-> <<>>]
  BY DEF Contract!Nothing, Contract!Missing
<1>2. \A dirty : Contract!Holds(Contract!Nothing, dirty)
                  = [there |-> TRUE, values |-> [n \in Names |-> <<>>], dirty |-> dirty]
  BY <1>1 DEF Contract!Holds
<1>3. Contract!Empty = [there |-> TRUE, values |-> [n \in Names |-> <<>>], dirty |-> FALSE]
  BY <1>2 DEF Contract!Empty
<1>4. [NoSpace EXCEPT !.there = TRUE]
        = [there |-> TRUE, values |-> [n \in Names |-> <<>>], dirty |-> FALSE]
  BY ThereIs DEF NoSpace
<1>5. Contract!NoSpace = [there |-> FALSE, values |-> [n \in Names |-> <<>>], dirty |-> FALSE]
  BY ThereIs DEF Contract!NoSpace, Contract!Empty, Contract!Holds, Contract!Nothing,
                 Contract!Missing
<1> QED
  BY <1>2, <1>3, <1>4, <1>5 DEF NoSpace

\* A change to one namespace.
LEMMA BecomingIsContracts ==
  ASSUME NEW N, held'.store = N.store, held'.orphans = N.orphans, NEW s
  PROVE  \A x : Becoming(held, N, s, x) <=> Contract!Becomes(s, x)
BY DEF Becoming, Contract!Becomes

\* What is allowed so is what MatterStore allows.
LEMMA CutIsContracts ==
  ASSUME call \in Contract!Calls, call' = Idle, held' = ContentsAs(Flash), doubled' = doubled,
         held = [store |-> held.store, orphans |-> held.orphans], CutAllowed(Flash, call, held)
  PROVE  Contract!Cut
<1> DEFINE N == ContentsAs(Flash)
<1>1. held'.store = N.store /\ held'.orphans = N.orphans
  OBVIOUS
<1>2. call' = Contract!Idle /\ call # Contract!Idle
  <2>1. call.kind \in {"write", "clean", "ensure", "clear", "erase"}
    BY DEF Contract!Calls
  <2>2. Idle.kind = "idle" /\ Contract!Idle = Idle
    BY DEF Idle, Contract!Idle
  <2> QED
    BY <2>1, <2>2
<1> HIDE DEF N
<1>3. CASE N = held
  BY <1>1, <1>2, <1>3 DEF Contract!Cut, Contract!Unchanged
<1>4. CASE call.kind = "write" /\ WriteCut(held, N, call.space, call.name, call.value)
  <2> DEFINE s == call.space
             n == call.name
             v == call.value
  <2>1. Contract!Bases(s) = BasesIn(held, s)
    BY DEF BasesIn, Contract!Bases
  <2>2. \A x : Becoming(held, N, s, x) <=> Contract!Becomes(s, x)
    BY <1>1, BecomingIsContracts
  <2>3. PICK b \in BasesIn(held, s), dirty \in BOOLEAN, lost \in SUBSET Names :
          \E x \in Contract!Stored(b, v) \union {b.values[n], <<>>} :
            Becoming(held, N, s, Contract!Holds([m \in Names |->
              IF m = n THEN x ELSE IF m \in lost THEN <<>> ELSE b.values[m]], dirty))
    BY <1>4 DEF WriteCut
  <2>4. Contract!CutInWrite(s, n, v)
    BY <2>1, <2>2, <2>3 DEF Contract!CutInWrite, Contract!Missing
  <2> QED
    BY <1>2, <1>4, <2>4 DEF Contract!Cut
<1>5. CASE call.kind = "clear" /\ ClearCut(held, N, call.space)
  <2>1. Contract!CutInClear(call.space)
    BY <1>1, <1>5 DEF ClearCut, Contract!CutInClear, Becoming, Contract!Becomes, Losing,
                      Contract!Lose, NoSpace, Contract!NoSpace, Contract!Empty, Contract!Holds,
                      Contract!Nothing, Contract!Missing
  <2> QED
    BY <1>2, <1>5, <2>1 DEF Contract!Cut
<1>6. CASE call.kind = "erase" /\ Losing(held, N, Spaces)
  <2>1. Contract!Lose(Spaces)
    BY <1>1, <1>6 DEF Losing, Contract!Lose, NoSpace, Contract!NoSpace, Contract!Empty,
                      Contract!Holds, Contract!Nothing, Contract!Missing
  <2> QED
    BY <1>2, <1>6, <2>1 DEF Contract!Cut
<1> QED
  BY <1>3, <1>4, <1>5, <1>6 DEF CutAllowed, N

\* The same of an answer.
LEMMA ReturnIsContracts ==
  ASSUME call \in Contract!Calls, call' = Idle, held' = ContentsAs(Flash), doubled' = doubled,
         held = [store |-> held.store, orphans |-> held.orphans],
         ReturnAllowed(Flash, call, held)
  PROVE  Contract!Return
<1> DEFINE N == ContentsAs(Flash)
           s == call.space
           n == call.name
           v == call.value
<1>1. held'.store = N.store /\ held'.orphans = N.orphans
  OBVIOUS
<1>2. call' = Contract!Idle /\ call # Contract!Idle
  <2>1. call.kind \in {"write", "clean", "ensure", "clear", "erase"}
    BY DEF Contract!Calls
  <2>2. Idle.kind = "idle" /\ Contract!Idle = Idle
    BY DEF Idle, Contract!Idle
  <2> QED
    BY <2>1, <2>2
<1> HIDE DEF N
<1>3. Contract!Bases(s) = BasesIn(held, s)
  BY DEF BasesIn, Contract!Bases
<1>4. \A x : Becoming(held, N, s, x) <=> Contract!Becomes(s, x)
  BY <1>1, BecomingIsContracts
<1>5. NoSpace = Contract!NoSpace
  BY NothingStored
<1>6. N = held => Contract!Unchanged
  BY <1>1 DEF Contract!Unchanged
<1>7. WriteDone(held, N, s, n, v) => Contract!Write(s, n, v)
  BY <1>3, <1>4 DEF WriteDone, Contract!Write
<1>8. WriteFailed(held, N, s, n) => Contract!WriteFails(s, n)
  BY <1>3, <1>4 DEF WriteFailed, Contract!WriteFails, Contract!Missing
<1>9. CleanDone(held, N, s, n) => Contract!Clean(s, n)
  BY <1>4 DEF CleanDone, Contract!Clean, Contract!Missing
<1>10. EnsureDone(held, N, s) => Contract!Ensure(s)
  BY <1>3, <1>4 DEF EnsureDone, Contract!Ensure
<1>11. ClearDone(held, N, s) => Contract!Clear(s)
  BY <1>4, <1>5 DEF ClearDone, Contract!Clear
<1>12. EraseDone(N) => Contract!EraseAll
  BY <1>1, <1>5 DEF EraseDone, Contract!EraseAll
<1>13. CASE call.ok
  <2>1. \/ call.kind = "write" /\ WriteDone(held, N, s, n, v)
        \/ call.kind = "clean" /\ CleanDone(held, N, s, n)
        \/ call.kind = "ensure" /\ EnsureDone(held, N, s)
        \/ call.kind = "clear" /\ ClearDone(held, N, s)
        \/ call.kind = "erase" /\ EraseDone(N)
    BY <1>13 DEF ReturnAllowed, N
  <2> QED
    BY <1>2, <1>7, <1>9, <1>10, <1>11, <1>12, <1>13, <2>1 DEF Contract!Return
<1>14. CASE ~call.ok
  <2>1. N = held \/ (call.kind = "write" /\ WriteFailed(held, N, s, n))
    BY <1>14 DEF ReturnAllowed, N
  <2> QED
    BY <1>2, <1>6, <1>8, <1>14, <2>1 DEF Contract!Return
<1> QED
  BY <1>13, <1>14

-----------------------------------------------------------------------------
(* Flash that differs in one slot. *)

\* Flash f with headers h and data c in slot j.
In(f, j, h, c) ==
  [table |-> f.table, heads |-> [f.heads EXCEPT ![j] = h], cells |-> [f.cells EXCEPT ![j] = c]]

SlotHeads == [Entries -> Headers \union {Free}]
SlotCells == [Offsets -> CellValues]

\* Namespace s is in slot j of flash f, and the rest of f is as H says.
Based(f, H, s, j) ==
  /\ f \in Flashes /\ OneSlot(f.table) /\ f.table[j] = s
  /\ ContentAs(f.heads[j], f.cells[j]) \in BasesIn(H, s)
  /\ H.store = [t \in Spaces |-> H.store[t]]
  /\ \A t \in Spaces \ {s} : ContentsAs(f).store[t] = H.store[t]
  /\ ContentsAs(f).orphans \subseteq H.orphans

\* What changes in that slot changes what s holds and nothing else.
LEMMA SlotChange ==
  ASSUME NEW f, NEW H, NEW s \in Spaces, NEW j \in Slots, Based(f, H, s, j),
         NEW h \in SlotHeads, NEW c \in SlotCells
  PROVE  Becoming(H, ContentsAs(In(f, j, h, c)), s, ContentAs(h, c))
<1> DEFINE g == In(f, j, h, c)
<1>1. /\ f.table \in Tables /\ f.heads \in HeadTables /\ f.cells \in CellTables
      /\ OneSlot(f.table) /\ f.table[j] = s
  BY DEF Based, Flashes
<1>2. /\ g.table = f.table /\ g.heads[j] = h /\ g.cells[j] = c
      /\ \A l \in Slots : l # j => g.heads[l] = f.heads[l] /\ g.cells[l] = f.cells[l]
  BY <1>1 DEF In, HeadTables, CellTables
<1> HIDE DEF g
<1>3. ContentsAs(g).store[s] = ContentAs(h, c)
  <2>1. OneSlot(g.table) /\ g.table[j] = s
    BY <1>1, <1>2
  <2>2. Stores(g, s, j)
    BY <2>1, StoreAt
  <2> QED
    BY <1>2, <2>2 DEF Stores
<1>4. ASSUME NEW t \in Spaces, t # s PROVE ContentsAs(g).store[t] = ContentsAs(f).store[t]
  <2>1. OneSlot(g.table) /\ OneSlot(f.table)
    BY <1>1, <1>2
  <2>2. CASE \A l \in Slots : f.table[l] # t
    <3>1. \A l \in Slots : g.table[l] # t
      BY <1>2, <2>2
    <3>2. ContentsAs(g).store[t] = NoSpace /\ ContentsAs(f).store[t] = NoSpace
      BY <2>1, <2>2, <3>1, StoreAt
    <3> QED
      BY <3>2
  <2>3. ASSUME NEW l \in Slots, f.table[l] = t
        PROVE  ContentsAs(g).store[t] = ContentsAs(f).store[t]
    <3>1. l # j /\ g.table[l] = t
      BY <1>1, <1>2, <1>4, <2>3
    <3>2. Stores(g, t, l) /\ Stores(f, t, l)
      BY <2>1, <2>3, <3>1, StoreAt
    <3> QED
      BY <1>2, <3>1, <3>2 DEF Stores
  <2> QED
    BY <2>2, <2>3
<1>5. ContentsAs(g).store = [t \in Spaces |-> ContentsAs(g).store[t]]
  BY DEF ContentsAs, StoreAs
<1>6. ContentsAs(g).store = [H.store EXCEPT ![s] = ContentAs(h, c)]
  <2>1. H.store = [t \in Spaces |-> H.store[t]]
    BY DEF Based
  <2>2. \A t \in Spaces : t # s => ContentsAs(g).store[t] = H.store[t]
    BY <1>4 DEF Based
  <2> QED
    BY <1>3, <1>5, <2>1, <2>2
<1>7. ContentsAs(g).orphans = ContentsAs(f).orphans
  <2>1. \A l \in SlotsAs(f.table, NoName) : l # j /\ l \in Slots
    BY <1>1, MatterFlashAssumption DEF SlotsAs
  <2>2. SlotsAs(g.table, NoName) = SlotsAs(f.table, NoName)
    BY <1>2
  <2>3. \A l \in SlotsAs(f.table, NoName) :
          ContentAs(g.heads[l], g.cells[l]) = ContentAs(f.heads[l], f.cells[l])
    BY <1>2, <2>1
  <2>4. OrphansAs(g) = OrphansAs(f)
    BY <2>2, <2>3 DEF OrphansAs
  <2> QED
    BY <2>4 DEF ContentsAs
<1>8. ContentsAs(g).orphans \subseteq H.orphans
  BY <1>7 DEF Based
<1> QED
  BY <1>6, <1>8 DEF Becoming, g

\* Erased headers hold nothing, though there may be data behind them.
LEMMA ErasedContent ==
  ASSUME NEW c
  PROVE  /\ ContentAs(ErasedHeads, c)
              = Contract!Holds(Contract!Nothing, DirtyAs(ErasedHeads, c))
         /\ DirtyAs(ErasedHeads, c) \in BOOLEAN
         /\ ~DirtyAs(ErasedHeads, ErasedCells)
         /\ \A n : ReadAs(ErasedHeads, c, n) = <<>>
<1>1. \A n : InUse(ErasedHeads, n) = {}
  BY DEF InUse, ErasedHeads, Free
<1>2. \A n : ReadAs(ErasedHeads, c, n) = <<>>
  BY <1>1 DEF ReadAs
<1>3. [n \in Names |-> ReadAs(ErasedHeads, c, n)] = [n \in Names |-> <<>>]
  BY <1>2
<1>4. DirtyAs(ErasedHeads, c) \in BOOLEAN /\ ~DirtyAs(ErasedHeads, ErasedCells)
  BY DEF DirtyAs, ErasedCells
<1> QED
  BY <1>2, <1>3, <1>4, NothingStored DEF ContentAs

\* Namespaces that are no longer in the table are lost, and their contents remain
\* unless their headers were erased.
LEMMA Lost ==
  ASSUME NEW g \in Flashes, OneSlot(g.table), NEW H, H = ContentsAs(g),
         NEW f, f.table \in Tables,
         \A l \in Slots : f.table[l] \in {g.table[l], NoName},
         \A l \in Slots : \/ f.heads[l] = g.heads[l] /\ f.cells[l] = g.cells[l]
                          \/ f.table[l] = NoName /\ f.heads[l] = ErasedHeads
  PROVE  Losing(H, ContentsAs(f), {t \in Spaces : \A l \in Slots : f.table[l] # t})
<1> DEFINE lost == {t \in Spaces : \A l \in Slots : f.table[l] # t}
           N == ContentsAs(f)
<1>1. g.table \in Tables /\ \A t \in Spaces : t # NoName
  BY MatterFlashAssumption DEF Flashes
<1>2. OneSlot(f.table)
  BY DEF OneSlot
<1>3. \A t \in Spaces : N.store[t] = IF t \in lost THEN NoSpace ELSE H.store[t]
  <2> SUFFICES ASSUME NEW t \in Spaces
               PROVE  N.store[t] = IF t \in lost THEN NoSpace ELSE H.store[t]
    OBVIOUS
  <2>1. CASE t \in lost
    BY <1>2, <2>1, StoreAt
  <2>2. CASE t \notin lost
    <3>1. PICK l \in Slots : f.table[l] = t
      BY <2>2
    <3>2. g.table[l] = t /\ f.heads[l] = g.heads[l] /\ f.cells[l] = g.cells[l]
      BY <1>1, <3>1
    <3>3. Stores(f, t, l) /\ Stores(g, t, l)
      BY <1>2, <3>1, <3>2, StoreAt
    <3> QED
      BY <2>2, <3>2, <3>3 DEF Stores
  <2> QED
    BY <2>1, <2>2
<1>4. N.store = [t \in Spaces |-> IF t \in lost THEN NoSpace ELSE H.store[t]]
  <2>1. N.store = [t \in Spaces |-> N.store[t]]
    BY DEF ContentsAs, StoreAs
  <2> HIDE DEF N, lost
  <2> QED
    BY <1>3, <2>1
<1>5. ASSUME NEW x \in N.orphans
      PROVE  \/ x \in H.orphans \/ x = Contract!Holds(Contract!Nothing, TRUE)
             \/ \E t \in lost : H.store[t].there /\ x = H.store[t]
  <2>1. x \in OrphansAs(f)
    BY <1>5 DEF ContentsAs
  <2>2. PICK l \in SlotsAs(f.table, NoName) : x = ContentAs(f.heads[l], f.cells[l])
    BY <2>1 DEF OrphansAs
  <2>3. x # Contract!Empty /\ x # [NoSpace EXCEPT !.there = TRUE]
    BY <2>1, NothingStored DEF OrphansAs
  <2>4. l \in Slots /\ f.table[l] = NoName
    BY DEF SlotsAs
  <2>5. CASE f.heads[l] = ErasedHeads
    <3>1. x = Contract!Holds(Contract!Nothing, DirtyAs(ErasedHeads, f.cells[l]))
          /\ DirtyAs(ErasedHeads, f.cells[l]) \in BOOLEAN
      BY <2>2, <2>5, ErasedContent
    <3>2. DirtyAs(ErasedHeads, f.cells[l]) = TRUE
      BY <2>3, <3>1 DEF Contract!Empty
    <3> QED
      BY <3>1, <3>2
  <2>6. CASE f.heads[l] = g.heads[l] /\ f.cells[l] = g.cells[l]
    <3>1. CASE g.table[l] = NoName
      <4>1. x \in OrphansAs(g)
        BY <2>2, <2>3, <2>4, <2>6, <3>1 DEF OrphansAs, SlotsAs
      <4> QED
        BY <4>1 DEF ContentsAs
    <3>2. CASE g.table[l] # NoName
      <4> DEFINE t == g.table[l]
      <4>1. t \in Spaces
        BY <1>1, <2>4, <3>2 DEF Tables
      <4>2. t \in lost
        <5> SUFFICES ASSUME NEW k \in Slots, f.table[k] = t PROVE FALSE
          BY <4>1
        <5>1. g.table[k] = t
          BY <3>2
        <5>2. k = l
          BY <2>4, <3>2, <5>1 DEF OneSlot
        <5> QED
          BY <2>4, <3>2, <5>2
      <4>3. Stores(g, t, l)
        BY <2>4, <4>1, StoreAt
      <4>4. H.store[t] = x
        BY <2>2, <2>6, <4>3 DEF Stores
      <4>5. x.there
        BY <2>2 DEF ContentAs
      <4> QED
        BY <4>2, <4>4, <4>5
    <3> QED
      BY <3>1, <3>2
  <2> QED
    BY <2>4, <2>5, <2>6
<1> HIDE DEF N, lost
<1>6. N.orphans \subseteq H.orphans \union {Contract!Holds(Contract!Nothing, TRUE)}
                           \union {H.store[s] : s \in {t \in lost : H.store[t].there}}
  BY <1>5
<1>7. Losing(H, N, lost)
  BY <1>4, <1>6 DEF Losing
<1> QED
  BY <1>7 DEF N, lost

-----------------------------------------------------------------------------
(* Runs: from flash to flash, by a list of operations. *)

Written(c, o, d) ==
  [x \in Offsets |-> IF x \in o .. o + Len(d) - 1 THEN Programmed(c[x], d[x - o + 1]) ELSE c[x]]
CellsAfter(t, cs) ==
  CASE t.op = "data" -> [cs EXCEPT ![t.slot] = Written(cs[t.slot], t.off, t.data)]
    [] t.op = "erase data" -> [cs EXCEPT ![t.slot] = ErasedCells]
    [] OTHER -> cs
Apply(t, f) ==
  [table |-> TableAfter(t, f.table), heads |-> HeadsAfter(t, f.heads),
   cells |-> CellsAfter(t, f.cells)]

\* Power may be cut before each operation.
Trace(tr, f, td, g, c, H) ==
  /\ tr[0] = f /\ tr[Len(td)] = g
  /\ \A k \in 1 .. Len(td) : tr[k] = Apply(td[k], tr[k - 1]) /\ CutAllowed(tr[k - 1], c, H)
Runs(f, td, g, c, H) == \E tr : Trace(tr, f, td, g, c, H)

\* Nothing to do is a run.
LEMMA RunNone ==
  ASSUME NEW f, NEW td, Len(td) = 0, NEW c, NEW H
  PROVE  Runs(f, td, f, c, H)
<1> DEFINE tr == [k \in {0} |-> f]
<1>1. tr[0] = f /\ 1 .. Len(td) = {}
  OBVIOUS
<1>2. Trace(tr, f, td, f, c, H)
  BY <1>1 DEF Trace
<1> QED
  BY <1>2 DEF Runs

\* One operation.
LEMMA RunOne ==
  ASSUME NEW f, NEW t \in FlashOps, NEW td, td = <<t>>, NEW c, NEW H, CutAllowed(f, c, H)
  PROVE  Runs(f, td, Apply(t, f), c, H)
<1> DEFINE tr == [k \in {0, 1} |-> IF k = 0 THEN f ELSE Apply(t, f)]
<1>1. tr[0] = f /\ tr[1] = Apply(t, f) /\ Len(td) = 1 /\ td[1] = t
  OBVIOUS
<1> HIDE DEF tr
<1>2. \A k \in 1 .. Len(td) : k = 1 /\ k - 1 = 0
  BY <1>1
<1>3. \A k \in 1 .. Len(td) : tr[k] = Apply(td[k], tr[k - 1]) /\ CutAllowed(tr[k - 1], c, H)
  BY <1>1, <1>2
<1>4. Trace(tr, f, td, Apply(t, f), c, H)
  BY <1>1, <1>3 DEF Trace
<1> QED
  BY <1>4 DEF Runs

\* The list u is that of a and then that of b.
Both(u, a, b) ==
  /\ Len(a) \in Nat /\ Len(b) \in Nat /\ Len(u) = Len(a) + Len(b)
  /\ \A k \in 1 .. Len(a) : u[k] = a[k]
  /\ \A k \in 1 .. Len(b) : u[Len(a) + k] = b[k]

\* Two lists, one behind the other.
LEMMA BothLists ==
  ASSUME NEW a \in Seq(FlashOps), NEW b \in Seq(FlashOps), NEW u, u = a \o b
  PROVE  Both(u, a, b) /\ u \in Seq(FlashOps)
<1>1. Len(a) \in Nat /\ Len(b) \in Nat /\ Len(u) = Len(a) + Len(b) /\ u \in Seq(FlashOps)
  OBVIOUS
<1>2. \A k \in 1 .. Len(a) : u[k] = a[k]
  OBVIOUS
<1>3. \A k \in 1 .. Len(b) : u[Len(a) + k] = b[k]
  OBVIOUS
<1> QED
  BY <1>1, <1>2, <1>3 DEF Both

\* One run after the other.
LEMMA RunOn ==
  ASSUME NEW a, NEW b, NEW u, Both(u, a, b), NEW f, NEW g, NEW h, NEW c, NEW H,
         Runs(f, a, g, c, H), Runs(g, b, h, c, H)
  PROVE  Runs(f, u, h, c, H)
<1> DEFINE n == Len(a)
           m == Len(b)
<1>1. n \in Nat /\ m \in Nat /\ Len(u) = n + m
  BY DEF Both
<1>2. PICK r : Trace(r, f, a, g, c, H)
  BY DEF Runs
<1>3. PICK s : Trace(s, g, b, h, c, H)
  BY DEF Runs
<1> DEFINE tr == [k \in 0 .. n + m |-> IF k <= n THEN r[k] ELSE s[k - n]]
<1>4. /\ \A k \in 0 .. n : tr[k] = r[k]
      /\ \A k \in 1 .. m : tr[n + k] = s[k]
  BY <1>1
<1>5. r[n] = s[0]
  BY <1>2, <1>3 DEF Trace
<1>6. tr[0] = f /\ tr[Len(u)] = h
  <2>1. tr[0] = r[0] /\ r[0] = f
    BY <1>1, <1>2, <1>4 DEF Trace
  <2>2. CASE m = 0
    <3>1. tr[n + m] = r[n] /\ s[m] = s[0] /\ s[m] = h
      BY <1>1, <1>3, <1>4, <2>2 DEF Trace
    <3> QED
      BY <1>1, <1>5, <2>1, <3>1
  <2>3. CASE m # 0
    <3>1. tr[n + m] = s[m] /\ s[m] = h
      BY <1>1, <1>3, <1>4, <2>3 DEF Trace
    <3> QED
      BY <1>1, <2>1, <3>1
  <2> QED
    BY <2>2, <2>3
<1>7. ASSUME NEW k \in 1 .. n
      PROVE  tr[k] = Apply(u[k], tr[k - 1]) /\ CutAllowed(tr[k - 1], c, H)
  <2>1. tr[k] = r[k] /\ tr[k - 1] = r[k - 1]
    BY <1>1, <1>4
  <2>2. u[k] = a[k]
    BY DEF Both
  <2> HIDE DEF tr
  <2>3. r[k] = Apply(a[k], r[k - 1]) /\ CutAllowed(r[k - 1], c, H)
    BY <1>2 DEF Trace
  <2> QED
    BY <2>1, <2>2, <2>3
<1>8. ASSUME NEW k \in 1 .. m
      PROVE  tr[n + k] = Apply(u[n + k], tr[(n + k) - 1]) /\ CutAllowed(tr[(n + k) - 1], c, H)
  <2>1. tr[n + k] = s[k] /\ tr[(n + k) - 1] = s[k - 1]
    <3>1. CASE k = 1
      <4>1. (n + k) - 1 = n /\ k - 1 = 0
        BY <1>1, <3>1
      <4>2. tr[(n + k) - 1] = r[n]
        BY <1>1, <1>4, <4>1
      <4> QED
        BY <1>4, <1>5, <4>1, <4>2
    <3>2. CASE k # 1
      <4>1. (n + k) - 1 = n + (k - 1) /\ k - 1 \in 1 .. m
        BY <1>1, <3>2
      <4> QED
        BY <1>4, <4>1
    <3> QED
      BY <3>1, <3>2
  <2>2. u[n + k] = b[k]
    BY DEF Both
  <2> HIDE DEF tr
  <2>3. s[k] = Apply(b[k], s[k - 1]) /\ CutAllowed(s[k - 1], c, H)
    BY <1>3 DEF Trace
  <2> QED
    BY <2>1, <2>2, <2>3
<1> HIDE DEF tr
<1>9. ASSUME NEW k \in 1 .. Len(u)
      PROVE  tr[k] = Apply(u[k], tr[k - 1]) /\ CutAllowed(tr[k - 1], c, H)
  <2>1. CASE k <= n
    <3>1. k \in 1 .. n
      BY <1>1, <2>1
    <3> QED
      BY <1>7, <3>1
  <2>2. CASE ~(k <= n)
    <3>1. k - n \in 1 .. m /\ n + (k - n) = k
      BY <1>1, <2>2
    <3> QED
      BY <1>8, <3>1
  <2> QED
    BY <2>1, <2>2
<1>10. Trace(tr, f, u, h, c, H)
  BY <1>6, <1>9 DEF Trace
<1> QED
  BY <1>10 DEF Runs

\* The first step of a run, and what is left of it.
LEMMA RunRest ==
  ASSUME NEW td \in Seq(FlashOps), td # <<>>, NEW f, NEW g, NEW c, NEW H, Runs(f, td, g, c, H)
  PROVE  CutAllowed(f, c, H) /\ Runs(Apply(td[1], f), Tail(td), g, c, H)
<1> DEFINE u == Tail(td)
<1>1. /\ Len(td) \in Nat \ {0} /\ Len(u) = Len(td) - 1
      /\ \A p \in 1 .. Len(u) : u[p] = td[p + 1] /\ p + 1 \in 1 .. Len(td)
  BY Rest
<1> HIDE DEF u
<1>2. PICK r : Trace(r, f, td, g, c, H)
  BY DEF Runs
<1> DEFINE tr == [k \in 0 .. Len(u) |-> r[k + 1]]
<1>3. \A k \in 0 .. Len(u) : tr[k] = r[k + 1]
  OBVIOUS
<1>4. 0 \in 0 .. Len(u) /\ Len(u) \in 0 .. Len(u) /\ 1 \in 1 .. Len(td) /\ 1 - 1 = 0
      /\ Len(u) + 1 = Len(td)
  BY <1>1
<1> HIDE DEF tr
<1>5. CutAllowed(f, c, H) /\ tr[0] = Apply(td[1], f) /\ tr[Len(u)] = g
  <2>1. r[1] = Apply(td[1], r[1 - 1]) /\ CutAllowed(r[1 - 1], c, H) /\ r[0] = f
        /\ r[Len(td)] = g
    BY <1>2, <1>4 DEF Trace
  <2>2. tr[0] = r[0 + 1] /\ tr[Len(u)] = r[Len(u) + 1] /\ 0 + 1 = 1
    BY <1>3, <1>4
  <2> QED
    BY <1>4, <2>1, <2>2
<1>6. ASSUME NEW k \in 1 .. Len(u)
      PROVE  tr[k] = Apply(u[k], tr[k - 1]) /\ CutAllowed(tr[k - 1], c, H)
  <2>1. k \in 0 .. Len(u) /\ k - 1 \in 0 .. Len(u) /\ (k - 1) + 1 = k /\ (k + 1) - 1 = k
    BY <1>1
  <2>2. tr[k] = r[k + 1] /\ tr[k - 1] = r[k]
    BY <1>3, <2>1
  <2>3. u[k] = td[k + 1] /\ k + 1 \in 1 .. Len(td)
    BY <1>1
  <2>4. r[k + 1] = Apply(td[k + 1], r[(k + 1) - 1]) /\ CutAllowed(r[(k + 1) - 1], c, H)
    BY <1>2, <2>3 DEF Trace
  <2> QED
    BY <2>1, <2>2, <2>3, <2>4
<1>7. Trace(tr, Apply(td[1], f), u, g, c, H)
  BY <1>5, <1>6 DEF Trace
<1> QED
  BY <1>5, <1>7 DEF Runs, u

-----------------------------------------------------------------------------
(* Operations in one slot. *)

\* What may be done to flash f in slot j stays flash.
LEMMA InSlot ==
  ASSUME NEW f \in Flashes, NEW j \in Slots, NEW h \in SlotHeads, NEW c \in SlotCells
  PROVE  /\ In(f, j, h, c) \in Flashes
         /\ In(f, j, h, c).heads[j] = h /\ In(f, j, h, c).cells[j] = c
         /\ In(f, j, f.heads[j], f.cells[j]) = f
<1>1. /\ f.table \in Tables /\ f.heads \in HeadTables /\ f.cells \in CellTables
      /\ f = [table |-> f.table, heads |-> f.heads, cells |-> f.cells]
  BY DEF Flashes
<1>2. /\ [f.heads EXCEPT ![j] = h] \in HeadTables /\ [f.cells EXCEPT ![j] = c] \in CellTables
      /\ [f.heads EXCEPT ![j] = h][j] = h /\ [f.cells EXCEPT ![j] = c][j] = c
      /\ [f.heads EXCEPT ![j] = f.heads[j]] = f.heads
      /\ [f.cells EXCEPT ![j] = f.cells[j]] = f.cells
  BY <1>1 DEF HeadTables, CellTables, SlotHeads, SlotCells
<1>3. In(f, j, f.heads[j], f.cells[j]) = f
  BY <1>1, <1>2 DEF In
<1>4. In(f, j, h, c) \in Flashes
  BY <1>1, <1>2 DEF In, Flashes
<1> QED
  BY <1>2, <1>3, <1>4 DEF In

\* A change after a change in the same slot.
LEMMA Twice ==
  ASSUME NEW S, NEW T, NEW F \in [S -> T], NEW j \in S, NEW a \in T, NEW b \in T
  PROVE  [[F EXCEPT ![j] = a] EXCEPT ![j] = b] = [F EXCEPT ![j] = b]
OBVIOUS

\* A header is written.
LEMMA ApplyHead ==
  ASSUME NEW f \in Flashes, NEW j \in Slots, NEW h \in SlotHeads, NEW c \in SlotCells,
         NEW i \in Entries, NEW e \in Headers
  PROVE  Apply(WriteHead(j, i, e), In(f, j, h, c)) = In(f, j, [h EXCEPT ![i] = e], c)
<1> DEFINE t == WriteHead(j, i, e)
           hs == [f.heads EXCEPT ![j] = h]
           g == [h EXCEPT ![i] = e]
<1>1. t.op = "head" /\ t.slot = j /\ t.entry = i /\ t.head = e
  BY DEF WriteHead
<1>2. f.heads \in HeadTables /\ hs[j] = h /\ g \in SlotHeads
  BY DEF Flashes, HeadTables, SlotHeads
<1> HIDE DEF t
<1>3. HeadsAfter(t, hs) = [hs EXCEPT ![j] = [hs[j] EXCEPT ![i] = e]]
  BY <1>1 DEF HeadsAfter
<1>4. [hs EXCEPT ![j] = g] = [f.heads EXCEPT ![j] = g]
  <2> HIDE DEF g
  <2> QED
    BY <1>2, Twice DEF HeadTables, SlotHeads
<1>5. \A tb, cs : TableAfter(t, tb) = tb /\ CellsAfter(t, cs) = cs
  BY <1>1 DEF TableAfter, CellsAfter
<1> QED
  BY <1>2, <1>3, <1>4, <1>5 DEF Apply, In, t

\* The headers are erased.
LEMMA ApplyEraseNames ==
  ASSUME NEW f \in Flashes, NEW j \in Slots, NEW h \in SlotHeads, NEW c \in SlotCells
  PROVE  Apply(EraseNames(j), In(f, j, h, c)) = In(f, j, ErasedHeads, c)
<1> DEFINE t == EraseNames(j)
           hs == [f.heads EXCEPT ![j] = h]
<1>1. t.op = "erase names" /\ t.slot = j
  BY DEF EraseNames
<1>2. f.heads \in HeadTables /\ ErasedHeads \in SlotHeads
  BY DEF Flashes, SlotHeads, ErasedHeads
<1> HIDE DEF t
<1>3. HeadsAfter(t, hs) = [hs EXCEPT ![j] = ErasedHeads]
  BY <1>1 DEF HeadsAfter
<1>4. [hs EXCEPT ![j] = ErasedHeads] = [f.heads EXCEPT ![j] = ErasedHeads]
  BY <1>2, Twice DEF HeadTables, SlotHeads
<1>5. \A tb, cs : TableAfter(t, tb) = tb /\ CellsAfter(t, cs) = cs
  BY <1>1 DEF TableAfter, CellsAfter
<1> QED
  BY <1>3, <1>4, <1>5 DEF Apply, In, t

\* The data is erased.
LEMMA ApplyEraseData ==
  ASSUME NEW f \in Flashes, NEW j \in Slots, NEW h \in SlotHeads, NEW c \in SlotCells
  PROVE  Apply(EraseData(j), In(f, j, h, c)) = In(f, j, h, ErasedCells)
<1> DEFINE t == EraseData(j)
           cs == [f.cells EXCEPT ![j] = c]
<1>1. t.op = "erase data" /\ t.slot = j
  BY DEF EraseData
<1>2. f.cells \in CellTables /\ ErasedCells \in SlotCells
  BY DEF Flashes, SlotCells, ErasedCells, CellValues, Blank, Mixed
<1> HIDE DEF t
<1>3. CellsAfter(t, cs) = [cs EXCEPT ![j] = ErasedCells]
  BY <1>1 DEF CellsAfter
<1>4. [cs EXCEPT ![j] = ErasedCells] = [f.cells EXCEPT ![j] = ErasedCells]
  BY <1>2, Twice DEF CellTables, SlotCells
<1>5. \A tb, hs : TableAfter(t, tb) = tb /\ HeadsAfter(t, hs) = hs
  BY <1>1 DEF TableAfter, HeadsAfter
<1> QED
  BY <1>3, <1>4, <1>5 DEF Apply, In, t

\* Data is written.
LEMMA ApplyData ==
  ASSUME NEW f \in Flashes, NEW j \in Slots, NEW h \in SlotHeads, NEW c \in SlotCells,
         NEW o \in Nat, NEW d \in Seq(CellValues), o + Len(d) < SectorSize
  PROVE  /\ Written(c, o, d) \in SlotCells
         /\ Apply(WriteData(j, o, d), In(f, j, h, c)) = In(f, j, h, Written(c, o, d))
<1> DEFINE t == WriteData(j, o, d)
           cs == [f.cells EXCEPT ![j] = c]
           w == Written(c, o, d)
<1>1. t.op = "data" /\ t.slot = j /\ t.off = o /\ t.data = d
  BY DEF WriteData
<1>2. f.cells \in CellTables /\ cs[j] = c
  BY DEF Flashes, CellTables, SlotCells
<1>3. w \in SlotCells
  <2>1. t \in FlashOps
    BY DEF WriteData, FlashOps
  <2>2. cs \in CellTables
    BY <1>2 DEF CellTables, SlotCells
  <2> SUFFICES ASSUME NEW x \in Offsets
               PROVE  (IF x \in o .. o + Len(d) - 1 THEN Programmed(c[x], d[x - o + 1]) ELSE c[x])
                        \in CellValues
    BY DEF Written, SlotCells
  <2>3. c[x] \in CellValues
    BY DEF SlotCells
  <2>4. ASSUME x \in o .. o + Len(d) - 1 PROVE d[x - o + 1] \in CellValues
    <3>1. Len(d) \in Nat /\ x \in Int
      BY <2>4
    <3>2. x - o + 1 \in 1 .. Len(d)
      BY <2>4, <3>1
    <3> QED
      BY <3>2
  <2>5. Mixed \in CellValues
    BY DEF CellValues, Mixed
  <2> QED
    BY <2>3, <2>4, <2>5 DEF Programmed
<1> HIDE DEF t, w
<1>4. CellsAfter(t, cs) = [cs EXCEPT ![j] = w]
  BY <1>1, <1>2 DEF CellsAfter, w
<1>5. [cs EXCEPT ![j] = w] = [f.cells EXCEPT ![j] = w]
  BY <1>2, <1>3, Twice DEF CellTables, SlotCells
<1>6. \A tb, hs : TableAfter(t, tb) = tb /\ HeadsAfter(t, hs) = hs
  BY <1>1 DEF TableAfter, HeadsAfter
<1> QED
  BY <1>3, <1>4, <1>5, <1>6 DEF Apply, In, t, w

-----------------------------------------------------------------------------
(* What is read after a write. *)

\* A value's name is in use in one entry at most, and its data lies in the sector.
LEMMA FirstInUse ==
  ASSUME NEW h \in SlotHeads, NEW m, InUse(h, m) # {}
  PROVE  /\ Min(InUse(h, m)) \in InUse(h, m) /\ Min(InUse(h, m)) \in Entries
         /\ h[Min(InUse(h, m))] \in Headers /\ h[Min(InUse(h, m))] # Free
<1>1. InUse(h, m) \subseteq Nat /\ InUse(h, m) \subseteq Entries
  BY DEF InUse, Entries
<1>2. Min(InUse(h, m)) \in InUse(h, m)
  BY <1>1, MinLeast
<1>3. h[Min(InUse(h, m))].flag = "using"
  BY <1>2 DEF InUse
<1>4. h[Min(InUse(h, m))] # Free
  BY <1>3 DEF Free
<1> QED
  BY <1>1, <1>2, <1>4 DEF SlotHeads

\* A write behind all data in use changes no value.
LEMMA BehindRead ==
  ASSUME NEW h \in SlotHeads, NEW c \in SlotCells, NEW o \in Nat, NEW d \in Seq(CellValues),
         \A k \in Entries : h[k] # Free => End(h[k]) <= o, NEW m
  PROVE  ReadAs(h, Written(c, o, d), m) = ReadAs(h, c, m)
<1> DEFINE e == Written(c, o, d)
           x == h[Min(InUse(h, m))]
<1>1. CASE InUse(h, m) = {}
  BY <1>1 DEF ReadAs
<1>2. CASE InUse(h, m) # {}
  <2>1. x \in Headers /\ End(x) <= o
    BY <1>2, FirstInUse
  <2>2. x.off \in Nat /\ x.len \in Nat /\ End(x) = x.off + x.len /\ End(x) < SectorSize
    BY <2>1, HeaderTypes DEF End
  <2> HIDE DEF x
  <2>3. ASSUME NEW k \in 1 .. x.len PROVE e[x.off + k - 1] = c[x.off + k - 1]
    <3>1. x.off + k - 1 \in Offsets /\ x.off + k - 1 < o
      BY <2>1, <2>2, MatterFlashAssumption DEF Offsets
    <3>2. x.off + k - 1 \notin o .. o + Len(d) - 1
      BY <3>1
    <3> QED
      BY <3>1, <3>2 DEF Written
  <2>4. DataAs(e, x) = DataAs(c, x)
    BY <2>3 DEF DataAs
  <2> QED
    BY <1>2, <2>4 DEF ReadAs, x
<1> QED
  BY <1>1, <1>2

\* What is written into the cells that lie at o.
Put(c, o, d) == [k \in 1 .. Len(d) |-> Programmed(c[o + k - 1], d[k])]

\* An entry's name has what was put there, the other names what they had.
NewReads(h, c, g, n, o, d) ==
  /\ \A m : m # n => ReadAs(g, Written(c, o, d), m) = ReadAs(h, c, m)
  /\ ReadAs(g, Written(c, o, d), n) = Clean(Put(c, o, d))

\* That is so of a new entry behind all others.
LEMMA NewRead ==
  ASSUME NEW h \in SlotHeads, NEW c \in SlotCells, NEW i \in Entries, h[i] = Free,
         NEW n, InUse(h, n) = {}, NEW o \in Nat, NEW d \in Seq(CellValues), d # <<>>,
         o + Len(d) < SectorSize,
         \A k \in Entries : h[k] # Free => End(h[k]) <= o,
         NEW x, x = Using(n, o, d), NEW g, g = [h EXCEPT ![i] = x]
  PROVE  NewReads(h, c, g, n, o, d)
<1> DEFINE e == Written(c, o, d)
<1>1. x.flag = "using" /\ x.name = n /\ x.off = o /\ x.len = Len(d) /\ Len(d) \in Nat
  BY DEF Using
<1>2. g[i] = x /\ \A k \in Entries : k # i => g[k] = h[k]
  BY DEF SlotHeads
<1>3. h[i].flag # "using"
  BY DEF Free
<1>4. ASSUME NEW m, m # n PROVE ReadAs(g, e, m) = ReadAs(h, c, m)
  <2>1. InUse(g, m) = InUse(h, m)
    BY <1>1, <1>2, <1>3, <1>4 DEF InUse
  <2>2. ReadAs(g, e, m) = ReadAs(h, e, m)
    <3>1. CASE InUse(h, m) = {}
      BY <2>1, <3>1 DEF ReadAs
    <3>2. CASE InUse(h, m) # {}
      <4>1. Min(InUse(h, m)) \in InUse(h, m) /\ Min(InUse(h, m)) \in Entries
        BY <3>2, FirstInUse
      <4>2. Min(InUse(h, m)) # i
        BY <1>3, <4>1 DEF InUse
      <4>3. g[Min(InUse(h, m))] = h[Min(InUse(h, m))]
        BY <1>2, <4>1, <4>2
      <4>4. g[Min(InUse(g, m))] = h[Min(InUse(h, m))]
        BY <2>1, <4>3
      <4> HIDE DEF e
      <4>5. ReadAs(g, e, m) = Clean(DataAs(e, g[Min(InUse(g, m))]))
        BY <2>1, <3>2 DEF ReadAs
      <4>6. ReadAs(h, e, m) = Clean(DataAs(e, h[Min(InUse(h, m))]))
        BY <3>2 DEF ReadAs
      <4> QED
        BY <4>4, <4>5, <4>6
    <3> QED
      BY <3>1, <3>2
  <2>3. ReadAs(h, e, m) = ReadAs(h, c, m)
    BY BehindRead
  <2> QED
    BY <2>2, <2>3
<1>5. ReadAs(g, e, n) = Clean(Put(c, o, d))
  <2>1. InUse(g, n) = {i}
    BY <1>1, <1>2 DEF InUse
  <2>2. Min({i}) = i
    <3>1. {i} \subseteq Nat /\ {i} # {}
      BY DEF Entries
    <3> QED
      BY <3>1, MinLeast
  <2>3. ASSUME NEW k \in 1 .. Len(d) PROVE e[o + k - 1] = Programmed(c[o + k - 1], d[k])
    <3>1. o + k - 1 \in Offsets /\ o + k - 1 \in o .. o + Len(d) - 1 /\ (o + k - 1) - o + 1 = k
      BY <1>1, MatterFlashAssumption DEF Offsets
    <3> QED
      BY <3>1 DEF Written
  <2>4. DataAs(e, x) = Put(c, o, d)
    BY <1>1, <2>3 DEF DataAs, Put
  <2> QED
    BY <1>2, <2>1, <2>2, <2>4 DEF ReadAs
<1> QED
  BY <1>4, <1>5 DEF NewReads

\* The entries before i are taken and the others are not.
Upto(h, i) ==
  /\ i \in 1 .. NameSlots + 1
  /\ \A k \in Entries : k < i => h[k] # Free
  /\ \A k \in Entries : k >= i => h[k] = Free

\* Data ends behind the last entry that is taken.
LEMMA EndAt ==
  ASSUME NEW h \in SlotHeads, NEW i, Upto(h, i)
  PROVE  EndOfData(h) = Behind(h, i)
<1>1. \A k \in Entries : k \in FreeEntries(h) <=> h[k] = Free
  <2>1. ASSUME NEW k \in Entries, h[k] # Free PROVE h[k].flag # "unused"
    <3>1. h[k] \in Headers
      BY <2>1 DEF SlotHeads
    <3> QED
      BY <3>1 DEF Headers
  <2> QED
    BY <2>1 DEF FreeEntries, Free
<1>2. FreeEntries(h) \subseteq Entries
  BY DEF FreeEntries
<1>3. CASE i = NameSlots + 1
  <2>1. \A k \in Entries : k < i
    BY <1>3, MatterFlashAssumption DEF Entries
  <2>2. FreeEntries(h) = {}
    BY <1>1, <1>2, <2>1 DEF Upto
  <2> QED
    BY <1>3, <2>2 DEF EndOfData
<1>4. CASE i # NameSlots + 1
  <2>1. i \in Entries /\ i >= i
    BY <1>4, MatterFlashAssumption DEF Upto, Entries
  <2>2. i \in FreeEntries(h)
    BY <1>1, <2>1 DEF Upto
  <2>3. \A k \in FreeEntries(h) : i <= k
    <3> SUFFICES ASSUME NEW k \in FreeEntries(h), ~(i <= k) PROVE FALSE
      OBVIOUS
    <3>1. k \in Entries /\ k < i
      BY <1>2, <2>1, MatterFlashAssumption DEF Entries
    <3> QED
      BY <1>1, <3>1 DEF Upto
  <2>4. FreeEntries(h) \subseteq Nat
    BY <1>2 DEF Entries
  <2>5. Min(FreeEntries(h)) \in FreeEntries(h) /\ Min(FreeEntries(h)) <= i
    BY <2>2, <2>4, MinLeast
  <2>6. Min(FreeEntries(h)) = i
    <3>1. i <= Min(FreeEntries(h)) /\ Min(FreeEntries(h)) <= i
      BY <2>3, <2>5
    <3>2. i \in Nat /\ Min(FreeEntries(h)) \in Nat
      BY <2>1, <2>4, <2>5 DEF Entries
    <3> QED
      BY <3>1, <3>2
  <2> QED
    BY <2>2, <2>6 DEF EndOfData
<1> QED
  BY <1>3, <1>4

\* With a new entry data ends behind that one.
LEMMA EndAfter ==
  ASSUME NEW h \in SlotHeads, NEW i \in Entries, Upto(h, i), NEW x \in Headers,
         NEW g, g = [h EXCEPT ![i] = x]
  PROVE  g \in SlotHeads /\ Upto(g, i + 1) /\ Behind(g, i + 1) = End(x) /\ EndOfData(g) = End(x)
<1>1. g \in SlotHeads /\ g[i] = x /\ \A k \in Entries : k # i => g[k] = h[k]
  BY DEF SlotHeads
<1>2. i \in Nat /\ i + 1 \in 1 .. NameSlots + 1 /\ i + 1 # 1 /\ (i + 1) - 1 = i
  BY MatterFlashAssumption DEF Entries
<1>3. x # Free
  BY HeaderTypes
<1>4. ASSUME NEW k \in Entries PROVE (k < i + 1 => g[k] # Free) /\ (k >= i + 1 => g[k] = Free)
  <2>1. k \in Nat
    BY DEF Entries
  <2>2. CASE k = i
    BY <1>1, <1>2, <1>3, <2>2
  <2>3. CASE k # i
    <3>1. (k < i + 1 => k < i) /\ (k >= i + 1 => k >= i)
      BY <1>2, <2>1, <2>3
    <3> QED
      BY <1>1, <2>3, <3>1 DEF Upto
  <2> QED
    BY <2>2, <2>3
<1>5. Upto(g, i + 1)
  BY <1>2, <1>4 DEF Upto
<1>6. Behind(g, i + 1) = End(x)
  BY <1>1, <1>2 DEF Behind, End
<1> QED
  BY <1>1, <1>5, <1>6, EndAt

\* What is put into erased cells is there afterwards; what is put into others is
\* there or is garbled.
LEMMA PutRead ==
  ASSUME NEW c \in SlotCells, NEW o \in Nat, NEW d \in Seq(CellValues), o + Len(d) < SectorSize
  PROVE  /\ (\A x \in Offsets : x >= o => c[x] = Blank) => Put(c, o, d) = d
         /\ d \in Values => Clean(Put(c, o, d)) \in {d, <<Mixed>>}
         /\ d \in Values => Clean(d) = d
<1>1. Len(d) \in Nat /\ DOMAIN d = 1 .. Len(d) /\ d = [k \in 1 .. Len(d) |-> d[k]]
  OBVIOUS
<1>2. ASSUME \A x \in Offsets : x >= o => c[x] = Blank PROVE Put(c, o, d) = d
  <2>1. ASSUME NEW k \in 1 .. Len(d) PROVE Programmed(c[o + k - 1], d[k]) = d[k]
    <3>1. o + k - 1 \in Offsets /\ o + k - 1 >= o
      BY <1>1, MatterFlashAssumption DEF Offsets
    <3>2. c[o + k - 1] = Blank
      BY <1>2, <3>1
    <3> QED
      BY <3>2 DEF Programmed
  <2> QED
    BY <1>1, <2>1 DEF Put
<1>3. ASSUME d \in Values PROVE \A k \in 1 .. Len(d) : d[k] # Mixed
  <2>1. d \in Seq(Nat \ {0})
    BY <1>3, MatterFlashAssumption
  <2> QED
    BY <2>1 DEF Mixed
<1>4. ASSUME d \in Values PROVE Clean(d) = d
  BY <1>3, <1>4 DEF Clean
<1>5. ASSUME d \in Values PROVE Clean(Put(c, o, d)) \in {d, <<Mixed>>}
  <2> DEFINE w == Put(c, o, d)
  <2>1. DOMAIN w = 1 .. Len(d) /\ Len(w) = Len(d)
    BY <1>1 DEF Put
  <2>2. \A k \in 1 .. Len(d) : w[k] = d[k] \/ w[k] = Mixed
    BY DEF Put, Programmed
  <2>3. w = [k \in 1 .. Len(d) |-> w[k]]
    BY DEF Put
  <2> HIDE DEF w
  <2>4. CASE \E k \in 1 .. Len(d) : w[k] = Mixed
    <3>1. \E k \in 1 .. Len(w) : w[k] = Mixed
      BY <2>1, <2>4
    <3>2. Clean(w) = <<Mixed>>
      BY <3>1 DEF Clean
    <3> QED
      BY <3>2 DEF w
  <2>5. CASE ~\E k \in 1 .. Len(d) : w[k] = Mixed
    <3>1. w = d
      BY <1>1, <2>2, <2>3, <2>5
    <3>2. Clean(w) = d
      BY <1>4, <1>5, <3>1
    <3> QED
      BY <3>2 DEF w
  <2> QED
    BY <2>4, <2>5
<1> QED
  BY <1>2, <1>4, <1>5

\* Headers g and data e are h and c with an entry for d more, called n.
Entered(h, c, g, e, n, d) ==
  /\ g \in SlotHeads /\ e \in SlotCells
  /\ \A m : ReadAs(h, e, m) = ReadAs(h, c, m)
  /\ \A m : m # n => ReadAs(g, e, m) = ReadAs(h, c, m)
  /\ DirtyAs(g, e) => DirtyAs(h, c)
  /\ ~DirtyAs(h, c) => ReadAs(g, e, n) = Clean(d)
  /\ d \in Values => ReadAs(g, e, n) \in {d} \union IF DirtyAs(h, c) THEN {<<Mixed>>} ELSE {}

\* That is so of a new entry behind the last one.
LEMMA EntryEntered ==
  ASSUME NEW h \in SlotHeads, NEW c \in SlotCells, NEW i \in Entries, Upto(h, i),
         NEW n \in Names, InUse(h, n) = {}, NEW o \in Nat, o = Behind(h, i),
         NEW d \in Seq(CellValues), d # <<>>, o + Len(d) < SectorSize, Len(d) <= DataBuffer,
         \A k \in Entries : h[k] # Free => End(h[k]) <= o,
         Written(c, o, d) \in SlotCells,
         NEW g, g = [h EXCEPT ![i] = Using(n, o, d)]
  PROVE  Entered(h, c, g, Written(c, o, d), n, d)
<1> DEFINE e == Written(c, o, d)
           x == Using(n, o, d)
<1>1. x \in Headers /\ End(x) = o + Len(d)
  <2>1. Len(d) \in Nat \ {0}
    OBVIOUS
  <2> QED
    BY <2>1 DEF Using, Headers, End
<1>2. h[i] = Free
  <2>1. i >= i
    BY DEF Entries
  <2> QED
    BY <2>1 DEF Upto
<1> HIDE DEF x
<1>3. g \in SlotHeads /\ EndOfData(g) = o + Len(d) /\ EndOfData(h) = o
  BY <1>1, EndAfter, EndAt DEF x
<1>4. /\ \A m : m # n => ReadAs(g, e, m) = ReadAs(h, c, m)
      /\ ReadAs(g, e, n) = Clean(Put(c, o, d))
  <2>1. g = [h EXCEPT ![i] = x]
    BY DEF x
  <2>2. x = Using(n, o, d)
    BY DEF x
  <2> HIDE DEF x
  <2>3. NewReads(h, c, g, n, o, d)
    BY <1>2, <2>1, <2>2, NewRead
  <2> QED
    BY <2>3 DEF NewReads
<1>5. \A m : ReadAs(h, e, m) = ReadAs(h, c, m)
  BY BehindRead
<1>6. DirtyAs(g, e) => DirtyAs(h, c)
  <2> SUFFICES ASSUME NEW y \in Offsets, y >= o + Len(d), e[y] # Blank PROVE DirtyAs(h, c)
    BY <1>3 DEF DirtyAs
  <2>1. y >= o /\ y \notin o .. o + Len(d) - 1
    <3>1. Len(d) \in Nat /\ y \in Int
      BY DEF Offsets
    <3> QED
      BY <3>1
  <2>2. e[y] = c[y]
    BY <2>1 DEF Written
  <2> QED
    BY <1>3, <2>1, <2>2 DEF DirtyAs
<1>7. ~DirtyAs(h, c) => \A y \in Offsets : y >= o => c[y] = Blank
  BY <1>3 DEF DirtyAs
<1>8. ~DirtyAs(h, c) => ReadAs(g, e, n) = Clean(d)
  <2> SUFFICES ASSUME ~DirtyAs(h, c) PROVE Put(c, o, d) = d
    BY <1>4
  <2> QED
    BY <1>7, PutRead
<1>9. d \in Values => ReadAs(g, e, n) \in {d} \union IF DirtyAs(h, c) THEN {<<Mixed>>} ELSE {}
  <2> SUFFICES ASSUME d \in Values
               PROVE  ReadAs(g, e, n) \in {d} \union IF DirtyAs(h, c) THEN {<<Mixed>>} ELSE {}
    OBVIOUS
  <2>1. Clean(d) = d /\ ReadAs(g, e, n) \in {d, <<Mixed>>}
    BY <1>4, PutRead
  <2> HIDE DEF e
  <2> QED
    BY <1>8, <2>1
<1> HIDE DEF e
<1>10. e \in SlotCells
  BY DEF e
<1> QED
  BY <1>3, <1>4, <1>5, <1>6, <1>8, <1>9, <1>10 DEF Entered, e

\* Headers g are h without the value n.
Removed(h, c, g, n) ==
  /\ g \in SlotHeads
  /\ \A m : m # n => ReadAs(g, c, m) = ReadAs(h, c, m)
  /\ ReadAs(g, c, n) = <<>>
  /\ DirtyAs(g, c) <=> DirtyAs(h, c)

\* That is so when its header is masked.
LEMMA MaskRemoves ==
  ASSUME NEW h \in SlotHeads, OneEntry(h), NEW c, NEW n, NEW i \in InUse(h, n),
         NEW x \in Headers, x = [h[i] EXCEPT !.flag = "mask"], NEW g, g = [h EXCEPT ![i] = x]
  PROVE  Removed(h, c, g, n)
<1>1. i \in Entries /\ h[i].flag = "using" /\ h[i].name = n /\ h[i] # Free
  BY DEF InUse, Free
<1>2. h[i] \in Headers
  BY <1>1 DEF SlotHeads
<1>3. x.flag = "mask" /\ x.off = h[i].off /\ x.len = h[i].len
  BY <1>2 DEF Headers
<1>4. g \in SlotHeads /\ g[i] = x /\ \A k \in Entries : k # i => g[k] = h[k]
  BY <1>1 DEF SlotHeads
<1>5. ReadAs(g, c, n) = <<>>
  <2>1. \A k \in Entries : h[k].flag = "using" /\ h[k].name = n => k = i
    BY <1>1 DEF OneEntry
  <2>2. InUse(g, n) = {}
    BY <1>3, <1>4, <2>1 DEF InUse
  <2> QED
    BY <2>2 DEF ReadAs
<1>6. ASSUME NEW m, m # n PROVE ReadAs(g, c, m) = ReadAs(h, c, m)
  <2>1. InUse(g, m) = InUse(h, m)
    BY <1>1, <1>3, <1>4, <1>6 DEF InUse
  <2>2. CASE InUse(h, m) = {}
    BY <2>1, <2>2 DEF ReadAs
  <2>3. CASE InUse(h, m) # {}
    <3>1. Min(InUse(h, m)) \in InUse(h, m) /\ Min(InUse(h, m)) \in Entries
      BY <2>3, FirstInUse
    <3>2. Min(InUse(h, m)) # i
      BY <1>1, <1>6, <3>1 DEF InUse
    <3>3. g[Min(InUse(h, m))] = h[Min(InUse(h, m))]
      BY <1>4, <3>1, <3>2
    <3>4. g[Min(InUse(g, m))] = h[Min(InUse(h, m))]
      BY <2>1, <3>3
    <3>5. ReadAs(g, c, m) = Clean(DataAs(c, g[Min(InUse(g, m))]))
      BY <2>1, <2>3 DEF ReadAs
    <3>6. ReadAs(h, c, m) = Clean(DataAs(c, h[Min(InUse(h, m))]))
      BY <2>3 DEF ReadAs
    <3> QED
      BY <3>4, <3>5, <3>6
  <2> QED
    BY <2>2, <2>3
<1>7. EndOfData(g) = EndOfData(h)
  <2>1. h[i].flag # "unused" /\ x.flag # "unused"
    BY <1>1, <1>3
  <2>2. FreeEntries(g) = FreeEntries(h)
    BY <1>4, <2>1 DEF FreeEntries
  <2>3. \A k \in Entries : g[k].off = h[k].off /\ g[k].len = h[k].len
    BY <1>3, <1>4
  <2>4. ASSUME NEW p \in 1 .. NameSlots + 1 PROVE Behind(g, p) = Behind(h, p)
    <3>1. p # 1 => p - 1 \in Entries
      BY MatterFlashAssumption DEF Entries
    <3> QED
      BY <2>3, <3>1 DEF Behind
  <2>5. CASE FreeEntries(h) = {}
    <3>1. NameSlots + 1 \in 1 .. NameSlots + 1
      BY MatterFlashAssumption
    <3> QED
      BY <2>2, <2>4, <2>5, <3>1 DEF EndOfData
  <2>6. CASE FreeEntries(h) # {}
    <3>1. FreeEntries(h) \subseteq Nat /\ FreeEntries(h) \subseteq Entries
      BY DEF FreeEntries, Entries
    <3>2. Min(FreeEntries(h)) \in Entries
      BY <2>6, <3>1, MinLeast
    <3>3. Min(FreeEntries(h)) \in 1 .. NameSlots + 1
      BY <3>2, MatterFlashAssumption DEF Entries
    <3>4. Behind(g, Min(FreeEntries(h))) = Behind(h, Min(FreeEntries(h)))
      BY <2>4, <3>3
    <3>5. EndOfData(g) = Behind(g, Min(FreeEntries(g)))
      BY <2>2, <2>6 DEF EndOfData
    <3>6. EndOfData(h) = Behind(h, Min(FreeEntries(h)))
      BY <2>6 DEF EndOfData
    <3> QED
      BY <2>2, <3>4, <3>5, <3>6
  <2> QED
    BY <2>5, <2>6
<1>8. DirtyAs(g, c) <=> DirtyAs(h, c)
  BY <1>7 DEF DirtyAs
<1> QED
  BY <1>4, <1>5, <1>6, <1>8 DEF Removed

-----------------------------------------------------------------------------
(* What a write may leave behind. *)

WriteCall(s, n, v, ok) == [kind |-> "write", space |-> s, name |-> n, value |-> v, ok |-> ok]
MaybeGarbled(h, c) == IF DirtyAs(h, c) THEN {<<Mixed>>} ELSE {}

\* The slot has h and c, where h0 and c0 were, and value v is being written for n:
\* other values are there or lost.
Near(h, c, h0, c0, n, v) ==
  /\ h \in SlotHeads /\ c \in SlotCells
  /\ \A m \in Names : m # n => ReadAs(h, c, m) \in {ReadAs(h0, c0, m), <<>>}
  /\ ReadAs(h, c, n) \in {v, ReadAs(h0, c0, n), <<>>} \union MaybeGarbled(h0, c0)

\* Other values are as they were, and nothing new is behind the last one.
Kept(h, c, h0, c0, n) ==
  /\ h \in SlotHeads /\ c \in SlotCells
  /\ \A m \in Names : m # n => ReadAs(h, c, m) = ReadAs(h0, c0, m)
  /\ DirtyAs(h, c) => DirtyAs(h0, c0)

\* What a namespace holds whose slot has h and c.
LEMMA ContentParts ==
  ASSUME NEW h, NEW c
  PROVE  /\ ContentAs(h, c)
              = Contract!Holds([m \in Names |-> ReadAs(h, c, m)], DirtyAs(h, c))
         /\ ContentAs(h, c).values = [m \in Names |-> ReadAs(h, c, m)]
         /\ ContentAs(h, c).dirty = DirtyAs(h, c)
         /\ DirtyAs(h, c) \in BOOLEAN
         /\ \A v : Contract!Stored(ContentAs(h, c), v) = {v} \union MaybeGarbled(h, c)
<1>1. ContentAs(h, c) = Contract!Holds([m \in Names |-> ReadAs(h, c, m)], DirtyAs(h, c))
  BY DEF ContentAs, Contract!Holds
<1>2. ContentAs(h, c).values = [m \in Names |-> ReadAs(h, c, m)]
  BY DEF ContentAs
<1>3. ContentAs(h, c).dirty = DirtyAs(h, c)
  BY Zenon DEF ContentAs
<1>4. DirtyAs(h, c) \in BOOLEAN
  BY DEF DirtyAs
<1>5. Contract!Garbled = <<Mixed>>
  BY DEF Contract!Garbled, Mixed
<1>6. \A v : Contract!Stored(ContentAs(h, c), v) = {v} \union MaybeGarbled(h, c)
  <2> SUFFICES ASSUME NEW v
               PROVE  Contract!Stored(ContentAs(h, c), v) = {v} \union MaybeGarbled(h, c)
    OBVIOUS
  <2> QED
    BY <1>3, <1>5 DEF Contract!Stored, MaybeGarbled
<1> QED
  BY <1>1, <1>2, <1>3, <1>4, <1>6

\* Such a slot may be left by a power cut.
LEMMA NearMayBeCut ==
  ASSUME NEW f, NEW H, NEW s \in Spaces, NEW j \in Slots, Based(f, H, s, j),
         NEW h, NEW c, NEW n \in Names, NEW v, NEW ok,
         Near(h, c, f.heads[j], f.cells[j], n, v)
  PROVE  CutAllowed(In(f, j, h, c), WriteCall(s, n, v, ok), H)
<1> DEFINE b == ContentAs(f.heads[j], f.cells[j])
           N == ContentsAs(In(f, j, h, c))
           k == WriteCall(s, n, v, ok)
           lost == {m \in Names : ReadAs(h, c, m) = <<>>}
           x == ReadAs(h, c, n)
           old(m) == ReadAs(f.heads[j], f.cells[j], m)
           dirty == DirtyAs(h, c)
           vals == [m \in Names |-> IF m = n THEN x ELSE IF m \in lost THEN <<>> ELSE b.values[m]]
<1>1. b \in BasesIn(H, s) /\ h \in SlotHeads /\ c \in SlotCells
  BY DEF Based, Near
<1>2. Becoming(H, N, s, ContentAs(h, c))
  BY <1>1, SlotChange
<1>3. b.values = [m \in Names |-> old(m)]
  BY ContentParts
<1>4. Contract!Stored(b, v) = {v} \union MaybeGarbled(f.heads[j], f.cells[j])
  BY ContentParts
<1>5. x \in Contract!Stored(b, v) \union {b.values[n], <<>>}
  <2>1. b.values[n] = old(n)
    BY <1>3
  <2>2. x \in {v, old(n), <<>>} \union MaybeGarbled(f.heads[j], f.cells[j])
    BY DEF Near
  <2> HIDE DEF x, b, old
  <2> QED
    BY <1>4, <2>1, <2>2
<1>6. ASSUME NEW m \in Names
      PROVE  ReadAs(h, c, m) = IF m = n THEN x ELSE IF m \in lost THEN <<>> ELSE b.values[m]
  <2>1. m # n => ReadAs(h, c, m) \in {old(m), <<>>}
    BY DEF Near
  <2>2. b.values[m] = old(m)
    BY <1>3
  <2>3. m \in lost <=> ReadAs(h, c, m) = <<>>
    OBVIOUS
  <2>4. m = n => ReadAs(h, c, m) = x
    OBVIOUS
  <2> HIDE DEF x, b, old, lost
  <2> QED
    BY <2>1, <2>2, <2>3, <2>4
<1>7. [m \in Names |-> ReadAs(h, c, m)] = vals
  <2> HIDE DEF x, b, old, lost
  <2> QED
    BY <1>6
<1>8. ContentAs(h, c) = Contract!Holds(vals, dirty) /\ dirty \in BOOLEAN
  <2>1. ContentAs(h, c) = Contract!Holds([m \in Names |-> ReadAs(h, c, m)], dirty)
    BY ContentParts
  <2>2. dirty \in BOOLEAN
    BY ContentParts
  <2> HIDE DEF vals, dirty
  <2> QED
    BY <1>7, <2>1, <2>2
<1>9. lost \in SUBSET Names
  OBVIOUS
<1>10. WriteCut(H, N, s, n, v)
  <2>1. Becoming(H, N, s, Contract!Holds(vals, dirty))
    BY <1>2, <1>8
  <2> HIDE DEF x, b, old, lost, dirty, N
  <2> QED
    BY <1>1, <1>5, <1>8, <1>9, <2>1 DEF WriteCut
<1>11. k.kind = "write" /\ k.space = s /\ k.name = n /\ k.value = v
  BY DEF WriteCall
<1> HIDE DEF N, k
<1>12. CutAllowed(In(f, j, h, c), k, H)
  BY <1>10, <1>11 DEF CutAllowed, N
<1> QED
  BY <1>12 DEF k

\* What a write may answer for.
LEMMA KeptMayReturn ==
  ASSUME NEW f, NEW H, NEW s \in Spaces, NEW j \in Slots, Based(f, H, s, j),
         NEW h, NEW c, NEW n \in Names, NEW v, NEW ok \in BOOLEAN,
         Kept(h, c, f.heads[j], f.cells[j], n),
         ok => ReadAs(h, c, n) \in {v} \union MaybeGarbled(f.heads[j], f.cells[j]),
         ~ok => ReadAs(h, c, n) \in {ReadAs(f.heads[j], f.cells[j], n), <<>>}
  PROVE  ReturnAllowed(In(f, j, h, c), WriteCall(s, n, v, ok), H)
<1> DEFINE b == ContentAs(f.heads[j], f.cells[j])
           N == ContentsAs(In(f, j, h, c))
           k == WriteCall(s, n, v, ok)
           x == ReadAs(h, c, n)
           old(m) == ReadAs(f.heads[j], f.cells[j], m)
           dirty == DirtyAs(h, c)
<1>1. b \in BasesIn(H, s) /\ h \in SlotHeads /\ c \in SlotCells
  BY DEF Based, Kept
<1>2. Becoming(H, N, s, ContentAs(h, c))
  BY <1>1, SlotChange
<1>3. b.values = [m \in Names |-> old(m)] /\ b.dirty = DirtyAs(f.heads[j], f.cells[j])
  BY ContentParts
<1>4. Contract!Stored(b, v) = {v} \union MaybeGarbled(f.heads[j], f.cells[j])
  BY ContentParts
<1>5. dirty => b.dirty
  BY <1>3 DEF Kept
<1>6. \A m \in Names : m # n => ReadAs(h, c, m) = old(m)
  BY DEF Kept
<1>7. [m \in Names |-> ReadAs(h, c, m)] = [b.values EXCEPT ![n] = x]
  <2>1. \A m \in Names : m = n => ReadAs(h, c, m) = x
    OBVIOUS
  <2> HIDE DEF x, b, old
  <2> QED
    BY <1>3, <1>6, <2>1
<1>8. ContentAs(h, c) = Contract!Holds([b.values EXCEPT ![n] = x], dirty) /\ dirty \in BOOLEAN
  <2>1. ContentAs(h, c) = Contract!Holds([m \in Names |-> ReadAs(h, c, m)], dirty)
    BY ContentParts
  <2>2. dirty \in BOOLEAN
    BY ContentParts
  <2> HIDE DEF dirty, b, x
  <2> QED
    BY <1>7, <2>1, <2>2
<1>9. /\ k.kind = "write" /\ k.space = s /\ k.name = n /\ k.value = v
      /\ k.ok = ok
  BY DEF WriteCall
<1> HIDE DEF N, k, dirty, b
<1>10. CASE ok
  <2>1. x \in Contract!Stored(b, v)
    BY <1>4, <1>10
  <2>2. WriteDone(H, N, s, n, v)
    BY <1>1, <1>2, <1>5, <1>8, <2>1 DEF WriteDone
  <2>3. ReturnAllowed(In(f, j, h, c), k, H)
    BY <1>9, <1>10, <2>2 DEF ReturnAllowed, N
  <2> QED
    BY <2>3 DEF k
<1>11. CASE ~ok
  <2>1. x \in {b.values[n], <<>>}
    BY <1>3, <1>11
  <2>2. WriteFailed(H, N, s, n)
    BY <1>1, <1>2, <1>5, <1>8, <2>1 DEF WriteFailed
  <2>3. ReturnAllowed(In(f, j, h, c), k, H)
    BY <1>9, <1>11, <2>2 DEF ReturnAllowed, N
  <2> QED
    BY <2>3 DEF k
<1> QED
  BY <1>10, <1>11

-----------------------------------------------------------------------------
(* The run of a write. *)

\* An entry is written: its data, then its header.
LEMMA EntryRuns ==
  ASSUME NEW f \in Flashes, NEW j \in Slots, NEW h \in SlotHeads, NEW c \in SlotCells,
         NEW i \in Entries, NEW n \in Names, NEW o \in Nat, NEW d \in Seq(CellValues), d # <<>>,
         o + Len(d) < SectorSize, Len(d) <= DataBuffer, NEW k, NEW H,
         CutAllowed(In(f, j, h, c), k, H), CutAllowed(In(f, j, h, Written(c, o, d)), k, H)
  PROVE  Runs(In(f, j, h, c), WriteEntry(j, i, n, o, d),
              In(f, j, [h EXCEPT ![i] = Using(n, o, d)], Written(c, o, d)), k, H)
<1> DEFINE e == Written(c, o, d)
           x == Using(n, o, d)
           f1 == In(f, j, h, c)
           f2 == In(f, j, h, e)
           f3 == In(f, j, [h EXCEPT ![i] = x], e)
           t1 == WriteData(j, o, d)
           t2 == WriteHead(j, i, x)
           a == <<t1>>
           b == <<t2>>
           u == WriteEntry(j, i, n, o, d)
<1>1. u = <<t1, t2>> /\ t1 \in FlashOps /\ t2 \in FlashOps /\ x \in Headers
  BY EntryOps
<1>2. e \in SlotCells /\ Apply(t1, f1) = f2
  BY ApplyData
<1>3. Apply(t2, f2) = f3
  <2> HIDE DEF x, e
  <2> QED
    BY <1>1, <1>2, ApplyHead
<1> HIDE DEF f1, f2, f3, t1, t2, e, x
<1>4. Runs(f1, a, f2, k, H)
  <2>1. CutAllowed(f1, k, H)
    BY DEF f1
  <2>2. Runs(f1, a, Apply(t1, f1), k, H)
    BY <1>1, <2>1, RunOne
  <2> QED
    BY <1>2, <2>2
<1>5. Runs(f2, b, f3, k, H)
  <2>1. CutAllowed(f2, k, H)
    BY DEF f2, e
  <2>2. Runs(f2, b, Apply(t2, f2), k, H)
    BY <1>1, <2>1, RunOne
  <2> QED
    BY <1>3, <2>2
<1>6. Both(u, a, b)
  <2>1. Len(a) = 1 /\ Len(b) = 1 /\ a[1] = t1 /\ b[1] = t2
    OBVIOUS
  <2>2. Len(<<t1, t2>>) = 2 /\ <<t1, t2>>[1] = t1 /\ <<t1, t2>>[2] = t2
    OBVIOUS
  <2> HIDE DEF a, b, u
  <2> QED
    BY <1>1, <2>1, <2>2 DEF Both
<1> HIDE DEF a, b, u
<1>7. Runs(f1, u, f3, k, H)
  BY <1>4, <1>5, <1>6, RunOn
<1> QED
  BY <1>7 DEF f1, f3, u, e, x

\* The slot has h and c, where h0 and c0 were: n is removed, other values are there
\* or lost.
Partly(h, c, h0, c0, n) ==
  /\ h \in SlotHeads /\ c \in SlotCells
  /\ \A m \in Names : m # n => ReadAs(h, c, m) \in {ReadAs(h0, c0, m), <<>>}
  /\ ReadAs(h, c, n) = <<>>

\* Such a slot may be left by a power cut.
LEMMA PartlyMayBeCut ==
  ASSUME NEW f, NEW H, NEW s \in Spaces, NEW j \in Slots, Based(f, H, s, j),
         NEW h, NEW c, NEW n \in Names, NEW v, NEW ok,
         Partly(h, c, f.heads[j], f.cells[j], n)
  PROVE  CutAllowed(In(f, j, h, c), WriteCall(s, n, v, ok), H)
<1>1. Near(h, c, f.heads[j], f.cells[j], n, v)
  BY DEF Partly, Near
<1> QED
  BY <1>1, NearMayBeCut

\* The slot of h and c0 has been packed into hh and cc, as far as entry i.
Packs(p, i, h, c0, hh, cc) ==
  /\ hh \in SlotHeads /\ cc \in SlotCells
  /\ Upto(hh, p.entry) /\ Behind(hh, p.entry) = p.off
  /\ \A k \in Entries : hh[k] # Free => End(hh[k]) <= p.off
  /\ ~DirtyAs(hh, cc)
  /\ \A m : (\E k \in 1 .. i : h[k].flag = "using" /\ h[k].name = m)
              => ReadAs(hh, cc, m) = ReadAs(h, c0, m)
  /\ \A m : ~(\E k \in 1 .. i : h[k].flag = "using" /\ h[k].name = m) => InUse(hh, m) = {}

\* Nothing packed yet: both sectors are erased.
LEMMA PacksStart ==
  ASSUME NEW j, NEW h, NEW c0
  PROVE  Packs(PackNone(j), 0, h, c0, ErasedHeads, ErasedCells)
<1>1. ErasedHeads \in SlotHeads /\ ErasedCells \in SlotCells
  BY DEF SlotHeads, SlotCells, ErasedHeads, ErasedCells, CellValues, Blank, Mixed
<1>2. PackNone(j).entry = 1 /\ PackNone(j).off = 0
  BY DEF PackNone
<1>3. \A k \in Entries : ErasedHeads[k] = Free /\ ~(k < 1)
  BY DEF ErasedHeads, Entries
<1>4. Upto(ErasedHeads, 1) /\ Behind(ErasedHeads, 1) = 0
  BY <1>3, MatterFlashAssumption DEF Upto, Behind
<1>5. \A m : InUse(ErasedHeads, m) = {}
  BY DEF ErasedHeads, InUse, Free
<1>6. ~DirtyAs(ErasedHeads, ErasedCells)
  BY ErasedContent
<1>7. 1 .. 0 = {}
  OBVIOUS
<1> HIDE DEF Free
<1> QED
  BY <1>1, <1>2, <1>3, <1>4, <1>5, <1>6, <1>7 DEF Packs

\* A run that leaves flash f with the slot packed.
PackRun(p, i, f, j, h, c0, k, H) ==
  \E hh, cc :
    Packs(p, i, h, c0, hh, cc) /\ Runs(In(f, j, h, c0), p.todo, In(f, j, hh, cc), k, H)

\* An entry that is not in use is left out.
LEMMA PacksSkip ==
  ASSUME NEW p, NEW i \in Nat, NEW h, NEW c0, NEW hh, NEW cc, Packs(p, i, h, c0, hh, cc),
         h[i + 1].flag # "using"
  PROVE  Packs(p, i + 1, h, c0, hh, cc)
<1>1. \A k \in 1 .. i + 1 : k \in 1 .. i \/ k = i + 1
  OBVIOUS
<1>2. \A k \in 1 .. i : k \in 1 .. i + 1
  OBVIOUS
<1>3. \A m : (\E k \in 1 .. i + 1 : h[k].flag = "using" /\ h[k].name = m)
               <=> (\E k \in 1 .. i : h[k].flag = "using" /\ h[k].name = m)
  BY <1>1, <1>2
<1> QED
  BY <1>3 DEF Packs

\* While a slot is being packed, its values are there or lost.
LEMMA PacksPartly ==
  ASSUME NEW p, NEW i \in 0 .. NameSlots, NEW h, NEW c0, NEW hh, NEW cc,
         Packs(p, i, h, c0, hh, cc),
         NEW h0, NEW n, Kept(h, c0, h0, c0, n), InUse(h, n) = {},
         NEW c, c \in SlotCells, \A m : ReadAs(hh, c, m) = ReadAs(hh, cc, m)
  PROVE  Partly(hh, c, h0, c0, n)
<1>1. hh \in SlotHeads
  BY DEF Packs
<1>2. \A m : InUse(hh, m) = {} => ReadAs(hh, cc, m) = <<>>
  BY DEF ReadAs
<1>3. ASSUME NEW m \in Names, m # n PROVE ReadAs(hh, c, m) \in {ReadAs(h0, c0, m), <<>>}
  <2>1. ReadAs(hh, cc, m) \in {ReadAs(h, c0, m), <<>>}
    BY <1>2 DEF Packs
  <2>2. ReadAs(h, c0, m) = ReadAs(h0, c0, m)
    BY <1>3 DEF Kept
  <2> QED
    BY <2>1, <2>2
<1>4. ReadAs(hh, c, n) = <<>>
  <2>1. ~(\E k \in 1 .. i : h[k].flag = "using" /\ h[k].name = n)
    <3>1. 1 .. i \subseteq Entries
      BY MatterFlashAssumption DEF Entries
    <3> QED
      BY <3>1 DEF InUse
  <2>2. InUse(hh, n) = {}
    BY <2>1 DEF Packs
  <2> QED
    BY <1>2, <2>2
<1> QED
  BY <1>1, <1>3, <1>4 DEF Partly

\* An entry in use is packed: its name has what it had.
LEMMA PacksEntry ==
  ASSUME NEW p, NEW i \in Nat, i + 1 \in Entries, NEW h \in SlotHeads, OneEntry(h),
         NEW c0 \in SlotCells, NEW hh, NEW cc, Packs(p, i, h, c0, hh, cc), p.entry \in Entries,
         NEW x, x = h[i + 1], x.flag = "using", NEW d, d = DataAs(c0, x),
         NEW q, q.entry = p.entry + 1, q.off = p.off + x.len, p.off \in Nat,
         NEW y \in Headers, End(y) = q.off, y.flag = "using", y.name = x.name,
         NEW g, g = [hh EXCEPT ![p.entry] = y], NEW e, Entered(hh, cc, g, e, x.name, d)
  PROVE  Packs(q, i + 1, h, c0, g, e)
<1>1. /\ hh \in SlotHeads /\ cc \in SlotCells /\ Upto(hh, p.entry) /\ ~DirtyAs(hh, cc)
      /\ \A k \in Entries : hh[k] # Free => End(hh[k]) <= p.off
  BY DEF Packs
<1>2. g \in SlotHeads /\ e \in SlotCells /\ ~DirtyAs(g, e)
      /\ ReadAs(g, e, x.name) = Clean(d) /\ \A m : m # x.name => ReadAs(g, e, m) = ReadAs(hh, cc, m)
  BY <1>1 DEF Entered
<1>3. Upto(g, p.entry + 1) /\ Behind(g, p.entry + 1) = End(y)
  BY <1>1, EndAfter
<1>4. x \in Headers
  <2>1. x # Free
    BY DEF Free
  <2> QED
    BY <2>1 DEF SlotHeads
<1>5. g[p.entry] = y /\ \A k \in Entries : k # p.entry => g[k] = hh[k]
  BY <1>1 DEF SlotHeads
<1>6. ASSUME NEW k \in Entries, g[k] # Free PROVE End(g[k]) <= q.off
  <2>1. CASE k = p.entry
    <3>1. q.off \in Nat
      BY <1>4, HeaderTypes
    <3> QED
      BY <1>5, <2>1, <3>1
  <2>2. CASE k # p.entry
    <3>1. g[k] = hh[k] /\ End(hh[k]) <= p.off
      BY <1>1, <1>5, <1>6, <2>2
    <3>2. hh[k] \in Headers
      BY <1>1, <1>6, <3>1 DEF SlotHeads
    <3>3. End(hh[k]) \in Nat /\ x.len \in Nat
      BY <1>4, <3>2, HeaderTypes
    <3> QED
      BY <3>1, <3>3
  <2> QED
    BY <2>1, <2>2
<1>7. \A k \in 1 .. i + 1 : k \in 1 .. i \/ k = i + 1
  OBVIOUS
<1>8. 1 .. i \subseteq 1 .. i + 1 /\ i + 1 \in 1 .. i + 1
  OBVIOUS
<1>9. ReadAs(h, c0, x.name) = Clean(d)
  <2>1. i + 1 \in InUse(h, x.name) /\ \A k \in InUse(h, x.name) : k = i + 1
    BY DEF InUse, OneEntry
  <2>2. InUse(h, x.name) = {i + 1}
    BY <2>1
  <2>3. Min({i + 1}) = i + 1
    <3>1. {i + 1} \subseteq Nat /\ {i + 1} # {}
      OBVIOUS
    <3> QED
      BY <3>1, MinLeast
  <2>4. ReadAs(h, c0, x.name) = Clean(DataAs(c0, h[Min(InUse(h, x.name))]))
    BY <2>2 DEF ReadAs
  <2> QED
    BY <2>2, <2>3, <2>4
<1>10. ASSUME NEW m, \E k \in 1 .. i + 1 : h[k].flag = "using" /\ h[k].name = m
       PROVE  ReadAs(g, e, m) = ReadAs(h, c0, m)
  <2>1. CASE m = x.name
    BY <1>2, <1>9, <2>1
  <2>2. CASE m # x.name
    <3>1. \E k \in 1 .. i : h[k].flag = "using" /\ h[k].name = m
      BY <1>7, <1>10, <2>2
    <3> QED
      BY <1>2, <2>2, <3>1 DEF Packs
  <2> QED
    BY <2>1, <2>2
<1>11. ASSUME NEW m, ~\E k \in 1 .. i + 1 : h[k].flag = "using" /\ h[k].name = m
       PROVE  InUse(g, m) = {}
  <2>1. m # x.name /\ ~\E k \in 1 .. i : h[k].flag = "using" /\ h[k].name = m
    BY <1>8, <1>11
  <2>2. InUse(hh, m) = {}
    BY <2>1 DEF Packs
  <2> QED
    BY <1>5, <2>1, <2>2 DEF InUse
<1> QED
  BY <1>2, <1>3, <1>6, <1>10, <1>11 DEF Packs

\* What a write finds in slot j of flash f, with headers h: value n is removed from it.
Cleared(f, j, h, n) ==
  /\ f \in Flashes /\ f.cells[j] = cells[j] /\ cells \in CellTables
  /\ h \in SlotHeads /\ Apart(h) /\ OneEntry(h) /\ InUse(h, n) = {}
  /\ Kept(h, f.cells[j], f.heads[j], f.cells[j], n)

\* One turn of a reorganisation: what it writes leads on.
LEMMA PackTurnRuns ==
  ASSUME NEW f, NEW H, NEW s \in Spaces, NEW j \in Slots, Based(f, H, s, j),
         NEW h, NEW n \in Names, Cleared(f, j, h, n), NEW v, NEW ok,
         NEW k, k = WriteCall(s, n, v, ok), NEW i \in Nat, i < NameSlots,
         NEW p, Packed(p, j, h, i, Names), PackRun(p, i, f, j, h, f.cells[j], k, H)
  PROVE  PackRun(PackEntry(p, j, h[i + 1]), i + 1, f, j, h, f.cells[j], k, H)
<1> DEFINE c0 == f.cells[j]
           x == h[i + 1]
           q == PackEntry(p, j, x)
<1>1. /\ f \in Flashes /\ c0 = cells[j] /\ cells \in CellTables /\ h \in SlotHeads
      /\ Apart(h) /\ OneEntry(h) /\ InUse(h, n) = {} /\ Kept(h, c0, f.heads[j], c0, n)
  BY DEF Cleared
<1>2. PICK hh, cc :
        Packs(p, i, h, c0, hh, cc) /\ Runs(In(f, j, h, c0), p.todo, In(f, j, hh, cc), k, H)
  BY DEF PackRun
<1>3. i + 1 \in Entries /\ i \in 0 .. NameSlots /\ i + 1 \in i + 1 .. NameSlots
  BY MatterFlashAssumption DEF Entries
<1>4. c0 \in SlotCells
  BY <1>1 DEF CellTables, SlotCells
<1> HIDE DEF c0, x
<1>5. CASE x.flag # "using"
  <2>1. q = p
    BY <1>5 DEF PackEntry
  <2>2. Packs(p, i + 1, h, c0, hh, cc)
    BY <1>2, <1>5, PacksSkip DEF x
  <2>3. PackRun(q, i + 1, f, j, h, c0, k, H)
    BY <1>2, <2>1, <2>2 DEF PackRun
  <2> QED
    BY <2>3 DEF c0, x
<1>6. CASE x.flag = "using"
  <2> DEFINE d == Data(j, x)
             y == Using(x.name, p.off, d)
             g == [hh EXCEPT ![p.entry] = y]
             e == Written(cc, p.off, d)
             w == WriteEntry(j, p.entry, x.name, p.off, d)
  <2>1. x \in Headers /\ x # Free
    <3>1. x # Free
      BY <1>6 DEF Free
    <3> QED
      BY <1>1, <1>3, <3>1 DEF SlotHeads, x
  <2>2. /\ p.entry \in 1 .. i + 1 /\ p.off \in Nat /\ p.todo \in Seq(FlashOps) /\ p.off <= x.off
    BY <1>3, <2>1 DEF Packed, Arranged, x
  <2>3. x.name \in Names /\ x.off \in Nat /\ x.len \in Nat \ {0} /\ x.off + x.len < SectorSize
    BY <2>1, HeaderTypes DEF End
  <2>4. /\ d \in Seq(CellValues) /\ Len(d) = x.len /\ d # <<>> /\ d = DataAs(c0, x)
        /\ Len(d) <= DataBuffer
    <3>1. d = DataAs(c0, x)
      BY <1>1 DEF Data, DataAs
    <3>2. d \in Seq(CellValues) /\ Len(d) = x.len /\ d # <<>>
      BY <1>1, <2>1, DataRead DEF CellTables
    <3>3. x.len <= DataBuffer
      BY <2>1, HeaderTypes
    <3> HIDE DEF d, x
    <3> QED
      BY <3>1, <3>2, <3>3
  <2>5. /\ q.todo = p.todo \o w /\ q.entry = p.entry + 1 /\ q.off = p.off + x.len
    BY <1>6 DEF PackEntry
  <2>6. p.entry \in Entries /\ p.off + Len(d) < SectorSize
    <3>1. p.entry \in Entries
      BY <1>3, <2>2, MatterFlashAssumption DEF Entries
    <3>2. p.off + x.len < SectorSize
      BY <2>2, <2>3, MatterFlashAssumption
    <3> QED
      BY <2>4, <3>1, <3>2
  <2> HIDE DEF d, q, w
  <2>7. y \in Headers /\ End(y) = p.off + Len(d) /\ y.flag = "using" /\ y.name = x.name
        /\ w \in Seq(FlashOps)
    <3>1. /\ w = <<WriteData(j, p.off, d), WriteHead(j, p.entry, y)>>
          /\ WriteData(j, p.off, d) \in FlashOps /\ WriteHead(j, p.entry, y) \in FlashOps
          /\ y \in Headers /\ End(y) = p.off + Len(d)
      BY <2>2, <2>3, <2>4, <2>6, EntryOps DEF w
    <3>2. y.flag = "using" /\ y.name = x.name
      BY DEF Using
    <3>3. w \in Seq(FlashOps)
      BY <3>1
    <3> QED
      BY <3>1, <3>2, <3>3
  <2>8. /\ hh \in SlotHeads /\ cc \in SlotCells /\ Upto(hh, p.entry) /\ Behind(hh, p.entry) = p.off
        /\ \A l \in Entries : hh[l] # Free => End(hh[l]) <= p.off
    BY <1>2 DEF Packs
  <2>9. InUse(hh, x.name) = {}
    <3>1. ~\E l \in 1 .. i : h[l].flag = "using" /\ h[l].name = x.name
      <4> SUFFICES ASSUME NEW l \in 1 .. i, h[l].flag = "using", h[l].name = x.name PROVE FALSE
        OBVIOUS
      <4>1. l \in Entries /\ l # i + 1
        BY <1>3, MatterFlashAssumption DEF Entries
      <4> QED
        BY <1>1, <1>3, <1>6, <4>1 DEF OneEntry, x
    <3> QED
      BY <1>2, <3>1 DEF Packs
  <2>10. e \in SlotCells
    BY <1>1, <2>2, <2>4, <2>6, <2>8, ApplyData
  <2>11. Entered(hh, cc, g, e, x.name, d)
    <3> HIDE DEF e
    <3>1. Written(cc, p.off, d) \in SlotCells
      BY <2>10 DEF e
    <3> QED
      BY <2>2, <2>3, <2>4, <2>6, <2>8, <2>9, <3>1, EntryEntered DEF e
  <2> HIDE DEF y, g, e
  <2>12. Packs(q, i + 1, h, c0, g, e)
    <3>1. End(y) = q.off
      BY <2>4, <2>5, <2>7
    <3>2. g = [hh EXCEPT ![p.entry] = y] /\ x = h[i + 1]
      BY DEF g, x
    <3> QED
      BY <1>1, <1>2, <1>3, <1>4, <1>6, <2>2, <2>4, <2>5, <2>6, <2>7, <2>11, <3>1, <3>2, PacksEntry
  <2>13. CutAllowed(In(f, j, hh, cc), k, H)
    <3>1. Partly(hh, cc, f.heads[j], c0, n)
      BY <1>1, <1>2, <1>3, <2>8, PacksPartly
    <3> QED
      BY <3>1, PartlyMayBeCut DEF c0
  <2>14. CutAllowed(In(f, j, hh, e), k, H)
    <3>1. \A m : ReadAs(hh, e, m) = ReadAs(hh, cc, m)
      BY <2>11 DEF Entered
    <3>2. Partly(hh, e, f.heads[j], c0, n)
      BY <1>1, <1>2, <1>3, <2>10, <3>1, PacksPartly DEF e
    <3> QED
      BY <3>2, PartlyMayBeCut DEF c0
  <2>15. Runs(In(f, j, hh, cc), w, In(f, j, g, e), k, H)
    <3>1. CutAllowed(In(f, j, hh, Written(cc, p.off, d)), k, H)
      BY <2>14 DEF e
    <3> QED
      BY <1>1, <2>2, <2>3, <2>4, <2>6, <2>8, <2>13, <3>1, EntryRuns DEF w, g, y, e
  <2>16. Both(q.todo, p.todo, w)
    BY <2>2, <2>5, <2>7, BothLists
  <2>17. Runs(In(f, j, h, c0), q.todo, In(f, j, g, e), k, H)
    BY <1>2, <2>15, <2>16, RunOn
  <2>18. PackRun(q, i + 1, f, j, h, c0, k, H)
    BY <2>12, <2>17 DEF PackRun
  <2> QED
    BY <2>18 DEF c0, q, x
<1> QED
  BY <1>5, <1>6

\* Before the first turn: both sectors are erased.
LEMMA PackFirstRuns ==
  ASSUME NEW f, NEW H, NEW s \in Spaces, NEW j \in Slots, Based(f, H, s, j),
         NEW h, NEW n \in Names, Cleared(f, j, h, n), NEW v, NEW ok,
         NEW k, k = WriteCall(s, n, v, ok)
  PROVE  PackRun(PackNone(j), 0, f, j, h, f.cells[j], k, H)
<1> DEFINE c0 == f.cells[j]
           f1 == In(f, j, h, c0)
           f2 == In(f, j, ErasedHeads, c0)
           f3 == In(f, j, ErasedHeads, ErasedCells)
           t1 == EraseNames(j)
           t2 == EraseData(j)
           a == <<t1>>
           b == <<t2>>
           u == PackNone(j).todo
<1>1. /\ f \in Flashes /\ c0 = cells[j] /\ cells \in CellTables /\ h \in SlotHeads
      /\ InUse(h, n) = {} /\ Kept(h, c0, f.heads[j], c0, n)
  BY DEF Cleared
<1>2. c0 \in SlotCells /\ ErasedHeads \in SlotHeads
  BY <1>1 DEF CellTables, SlotCells, SlotHeads, ErasedHeads
<1>3. Packs(PackNone(j), 0, h, c0, ErasedHeads, ErasedCells)
  BY PacksStart
<1> HIDE DEF c0
<1>4. u = <<t1, t2>> /\ t1 \in FlashOps /\ t2 \in FlashOps
  BY DEF PackNone, EraseNames, EraseData, FlashOps
<1>5. Apply(t1, f1) = f2 /\ Apply(t2, f2) = f3
  BY <1>1, <1>2, ApplyEraseNames, ApplyEraseData
<1>6. CutAllowed(f1, k, H)
  <2>1. ReadAs(h, c0, n) = <<>>
    BY <1>1 DEF ReadAs
  <2>2. Partly(h, c0, f.heads[j], c0, n)
    BY <1>1, <1>2, <2>1 DEF Partly, Kept
  <2> QED
    BY <2>2, PartlyMayBeCut DEF c0
<1>7. CutAllowed(f2, k, H)
  <2>1. \A m : ReadAs(ErasedHeads, c0, m) = <<>>
    BY ErasedContent
  <2>2. Partly(ErasedHeads, c0, f.heads[j], c0, n)
    BY <1>2, <2>1 DEF Partly
  <2> QED
    BY <2>2, PartlyMayBeCut DEF c0
<1> HIDE DEF f1, f2, f3, t1, t2
<1>8. Runs(f1, a, f2, k, H)
  <2>1. Runs(f1, a, Apply(t1, f1), k, H)
    BY <1>4, <1>6, RunOne
  <2> QED
    BY <1>5, <2>1
<1>9. Runs(f2, b, f3, k, H)
  <2>1. Runs(f2, b, Apply(t2, f2), k, H)
    BY <1>4, <1>7, RunOne
  <2> QED
    BY <1>5, <2>1
<1>10. Both(u, a, b)
  <2>1. Len(a) = 1 /\ Len(b) = 1 /\ a[1] = t1 /\ b[1] = t2
    OBVIOUS
  <2>2. Len(<<t1, t2>>) = 2 /\ <<t1, t2>>[1] = t1 /\ <<t1, t2>>[2] = t2
    OBVIOUS
  <2> HIDE DEF a, b, u
  <2> QED
    BY <1>4, <2>1, <2>2 DEF Both
<1> HIDE DEF a, b, u
<1>11. Runs(f1, u, f3, k, H)
  BY <1>8, <1>9, <1>10, RunOn
<1>12. PackRun(PackNone(j), 0, f, j, h, c0, k, H)
  BY <1>3, <1>11 DEF PackRun, u, f1, f3
<1> QED
  BY <1>12 DEF c0

\* All turns.
LEMMA PackAllRuns ==
  ASSUME NEW f, NEW H, NEW s \in Spaces, NEW j \in Slots, Based(f, H, s, j),
         NEW h, NEW n \in Names, Cleared(f, j, h, n), NEW v, NEW ok,
         NEW k, k = WriteCall(s, n, v, ok), NEW p, p = Packing(j, h)[NameSlots]
  PROVE  Packed(p, j, h, NameSlots, Names) /\ PackRun(p, NameSlots, f, j, h, f.cells[j], k, H)
<1> DEFINE P == Packing(j, h)
           c0 == f.cells[j]
           S == {i \in Nat : i <= NameSlots =>
                   Packed(P[i], j, h, i, Names) /\ PackRun(P[i], i, f, j, h, c0, k, H)}
<1>1. /\ h \in [Entries -> Headers \union {Free}] /\ Apart(h) /\ OneEntryOf(h, Names)
      /\ cells \in [Slots -> [Offsets -> CellValues]]
  BY AnyInOnePlace DEF Cleared, SlotHeads, CellTables
<1>2. P[0] = PackNone(j) /\ \A i \in Entries : P[i] = PackEntry(P[i - 1], j, h[i])
  BY PackingTurns
<1> HIDE DEF P
<1>3. 0 \in S
  <2>1. Packed(PackNone(j), j, h, 0, Names)
    BY <1>1, PackStart
  <2>2. PackRun(PackNone(j), 0, f, j, h, c0, k, H)
    BY PackFirstRuns
  <2> QED
    BY <1>2, <2>1, <2>2
<1>4. ASSUME NEW i \in Nat, i \in S PROVE i + 1 \in S
  <2> SUFFICES ASSUME i + 1 <= NameSlots
               PROVE  /\ Packed(P[i + 1], j, h, i + 1, Names)
                      /\ PackRun(P[i + 1], i + 1, f, j, h, c0, k, H)
    OBVIOUS
  <2>1. i < NameSlots /\ i <= NameSlots /\ i + 1 \in Entries /\ (i + 1) - 1 = i
    BY MatterFlashAssumption DEF Entries
  <2>2. Packed(P[i], j, h, i, Names) /\ PackRun(P[i], i, f, j, h, c0, k, H)
    BY <1>4, <2>1
  <2>3. P[i + 1] = PackEntry(P[i], j, h[i + 1])
    BY <1>2, <2>1
  <2>4. Packed(PackEntry(P[i], j, h[i + 1]), j, h, i + 1, Names)
    BY <1>1, <2>1, <2>2, PackTurn
  <2>5. PackRun(PackEntry(P[i], j, h[i + 1]), i + 1, f, j, h, c0, k, H)
    BY <2>1, <2>2, PackTurnRuns
  <2> QED
    BY <2>3, <2>4, <2>5
<1> HIDE DEF S
<1>5. NameSlots \in S
  BY <1>3, <1>4, Induction, MatterFlashAssumption
<1> QED
  BY <1>5, MatterFlashAssumption DEF S, P

\* The list td leads flash f to what call k may answer for.
Leads(f, td, k, H) == \E g : Runs(f, td, g, k, H) /\ ReturnAllowed(g, k, H)

\* The new value's entry leads there, behind all others.
LEMMA ValueRuns ==
  ASSUME NEW f \in Flashes, NEW H, NEW s \in Spaces, NEW j \in Slots, Based(f, H, s, j),
         NEW n \in Names, NEW v \in Values, NEW ok \in BOOLEAN, ok,
         NEW k, k = WriteCall(s, n, v, ok),
         NEW h, NEW c, Kept(h, c, f.heads[j], f.cells[j], n), InUse(h, n) = {},
         NEW i \in Entries, Upto(h, i), NEW o \in Nat, o = Behind(h, i),
         \A l \in Entries : h[l] # Free => End(h[l]) <= o, o + Len(v) < SectorSize
  PROVE  Leads(In(f, j, h, c), WriteEntry(j, i, n, o, v), k, H)
<1> DEFINE g == [h EXCEPT ![i] = Using(n, o, v)]
           e == Written(c, o, v)
           h0 == f.heads[j]
           c0 == f.cells[j]
           ops == WriteEntry(j, i, n, o, v)
<1>1. h \in SlotHeads /\ c \in SlotCells
  BY DEF Kept
<1>2. v \in Seq(CellValues) /\ v # <<>> /\ Len(v) <= DataBuffer
  BY ValueData
<1>3. e \in SlotCells
  BY <1>1, <1>2, ApplyData
<1>4. Entered(h, c, g, e, n, v)
  BY <1>1, <1>2, <1>3, EntryEntered
<1> HIDE DEF g, e, h0, c0
<1>5. ReadAs(h, c, n) = <<>>
  BY DEF ReadAs
<1>6. Kept(h, c, h0, c0, n)
  BY DEF h0, c0
<1>7. CutAllowed(In(f, j, h, c), k, H)
  <2>1. Partly(h, c, h0, c0, n)
    BY <1>1, <1>5, <1>6 DEF Partly, Kept
  <2> QED
    BY <2>1, PartlyMayBeCut DEF h0, c0
<1>8. CutAllowed(In(f, j, h, e), k, H)
  <2>1. \A m : ReadAs(h, e, m) = ReadAs(h, c, m)
    BY <1>4 DEF Entered
  <2>2. Partly(h, e, h0, c0, n)
    BY <1>1, <1>3, <1>5, <1>6, <2>1 DEF Partly, Kept
  <2> QED
    BY <2>2, PartlyMayBeCut DEF h0, c0
<1>9. Runs(In(f, j, h, c), ops, In(f, j, g, e), k, H)
  <2>1. CutAllowed(In(f, j, h, Written(c, o, v)), k, H)
    BY <1>8 DEF e
  <2> QED
    BY <1>1, <1>2, <1>7, <2>1, EntryRuns DEF g, e
<1>10. Kept(g, e, h0, c0, n)
  BY <1>4, <1>6 DEF Entered, Kept
<1>11. ReadAs(g, e, n) \in {v} \union MaybeGarbled(h0, c0)
  <2>1. ReadAs(g, e, n) \in {v} \union IF DirtyAs(h, c) THEN {<<Mixed>>} ELSE {}
    BY <1>4 DEF Entered
  <2>2. DirtyAs(h, c) => DirtyAs(h0, c0)
    BY <1>6 DEF Kept
  <2> QED
    BY <2>1, <2>2 DEF MaybeGarbled
<1>12. ReturnAllowed(In(f, j, g, e), k, H)
  BY <1>10, <1>11, KeptMayReturn DEF h0, c0
<1> QED
  BY <1>9, <1>12 DEF Leads

\* One run, and then on to what the call may answer for.
LEMMA LeadsOn ==
  ASSUME NEW a, NEW b, NEW u, Both(u, a, b), NEW f, NEW g, NEW k, NEW H,
         Runs(f, a, g, k, H), Leads(g, b, k, H)
  PROVE  Leads(f, u, k, H)
<1>1. PICK h : Runs(g, b, h, k, H) /\ ReturnAllowed(h, k, H)
  BY DEF Leads
<1>2. Runs(f, u, h, k, H)
  BY <1>1, RunOn
<1> QED
  BY <1>1, <1>2 DEF Leads

\* A slot all of whose values are packed is as it was.
LEMMA PackedKept ==
  ASSUME NEW p, NEW h, NEW c0, NEW hh, NEW cc, Packs(p, NameSlots, h, c0, hh, cc),
         NEW h0, NEW n, Kept(h, c0, h0, c0, n), InUse(h, n) = {}
  PROVE  Kept(hh, cc, h0, c0, n) /\ InUse(hh, n) = {}
<1>1. ~\E l \in 1 .. NameSlots : h[l].flag = "using" /\ h[l].name = n
  BY DEF InUse, Entries
<1>2. InUse(hh, n) = {}
  BY <1>1 DEF Packs
<1>3. \A m : ReadAs(hh, cc, m) = ReadAs(h, c0, m)
  <2> SUFFICES ASSUME NEW m PROVE ReadAs(hh, cc, m) = ReadAs(h, c0, m)
    OBVIOUS
  <2>1. CASE \E l \in 1 .. NameSlots : h[l].flag = "using" /\ h[l].name = m
    BY <2>1 DEF Packs
  <2>2. CASE ~\E l \in 1 .. NameSlots : h[l].flag = "using" /\ h[l].name = m
    <3>1. InUse(hh, m) = {}
      BY <2>2 DEF Packs
    <3>2. InUse(h, m) = {}
      BY <2>2 DEF InUse, Entries
    <3> QED
      BY <3>1, <3>2 DEF ReadAs
  <2> QED
    BY <2>1, <2>2
<1> QED
  BY <1>2, <1>3 DEF Kept, Packs

\* A reorganisation leads there: with the new value if it fits, else without it.
LEMMA ReorganizeRuns ==
  ASSUME NEW f, NEW H, NEW s \in Spaces, NEW j \in Slots, Based(f, H, s, j),
         NEW h, NEW n \in Names, NEW v \in Values, Cleared(f, j, h, n),
         \E l \in Entries : h[l].flag # "using",
         NEW plan, plan = Reorganize(j, h, n, v), NEW k, k = WriteCall(s, n, v, plan.ok)
  PROVE  Leads(In(f, j, h, f.cells[j]), plan.todo, k, H)
<1> DEFINE p == Packing(j, h)[NameSlots]
           c0 == f.cells[j]
           h0 == f.heads[j]
           ok == plan.ok
<1>1. f \in Flashes /\ InUse(h, n) = {} /\ Kept(h, c0, h0, c0, n)
  BY DEF Cleared
<1>2. Packed(p, j, h, NameSlots, Names) /\ PackRun(p, NameSlots, f, j, h, c0, k, H)
  BY PackAllRuns
<1> HIDE DEF p
<1>3. PICK hh, cc : /\ Packs(p, NameSlots, h, c0, hh, cc)
                    /\ Runs(In(f, j, h, c0), p.todo, In(f, j, hh, cc), k, H)
  BY <1>2 DEF PackRun
<1>4. Kept(hh, cc, h0, c0, n) /\ InUse(hh, n) = {}
  BY <1>1, <1>3, PackedKept
<1>5. p.entry \in Entries /\ p.off \in Nat /\ p.todo \in Seq(FlashOps)
  BY <1>2, MatterFlashAssumption DEF Packed, Arranged, Entries
<1>6. v \in Seq(CellValues) /\ v # <<>> /\ Len(v) \in Nat /\ Len(v) <= DataBuffer
  BY ValueData
<1>7. CASE p.off + Len(v) < SectorSize
  <2> DEFINE w == WriteEntry(j, p.entry, n, p.off, v)
             td == plan.todo
  <2>1. td = p.todo \o w /\ ok = TRUE
    BY <1>7 DEF Reorganize, p
  <2>2. w \in Seq(FlashOps)
    <3>1. /\ w = <<WriteData(j, p.off, v), WriteHead(j, p.entry, Using(n, p.off, v))>>
          /\ WriteData(j, p.off, v) \in FlashOps
          /\ WriteHead(j, p.entry, Using(n, p.off, v)) \in FlashOps
      BY <1>5, <1>6, <1>7, EntryOps
    <3> QED
      BY <3>1
  <2> HIDE DEF w, td, ok, h0, c0
  <2>3. Both(td, p.todo, w)
    BY <1>5, <2>1, <2>2, BothLists
  <2>4. ok \in BOOLEAN /\ ok /\ k = WriteCall(s, n, v, ok)
    BY <2>1 DEF ok
  <2>5. /\ Upto(hh, p.entry) /\ p.off = Behind(hh, p.entry)
        /\ \A l \in Entries : hh[l] # Free => End(hh[l]) <= p.off
    BY <1>3 DEF Packs
  <2>6. Leads(In(f, j, hh, cc), w, k, H)
    <3>1. Kept(hh, cc, f.heads[j], f.cells[j], n)
      BY <1>4 DEF h0, c0
    <3> QED
      BY <1>1, <1>4, <1>5, <1>7, <2>4, <2>5, <3>1, ValueRuns DEF w
  <2>7. Leads(In(f, j, h, c0), td, k, H)
    BY <1>3, <2>3, <2>6, LeadsOn
  <2> QED
    BY <2>7 DEF td, c0
<1>8. CASE ~(p.off + Len(v) < SectorSize)
  <2>1. plan.todo = p.todo \o <<>> /\ ok \in BOOLEAN /\ ~ok
    <3>1. Reorganize(j, h, n, v).todo = p.todo \o <<>>
      BY <1>8 DEF Reorganize, p
    <3>2. ok <=> p.off + Len(v) < SectorSize
      BY DEF Reorganize, p
    <3>3. ok \in BOOLEAN
      BY DEF Reorganize
    <3> HIDE DEF p, ok
    <3>4. plan.todo = p.todo \o <<>>
      BY <3>1
    <3> QED
      BY <1>8, <3>2, <3>3, <3>4
  <2>2. plan.todo = p.todo
    BY <1>5, <2>1
  <2> HIDE DEF ok
  <2>3. k = WriteCall(s, n, v, ok)
    BY DEF ok
  <2>4. ReadAs(hh, cc, n) = <<>>
    BY <1>4 DEF ReadAs
  <2>5. ReturnAllowed(In(f, j, hh, cc), k, H)
    BY <1>4, <2>1, <2>3, <2>4, KeptMayReturn
  <2> QED
    BY <1>3, <2>2, <2>5 DEF Leads
<1> QED
  BY <1>7, <1>8

\* Nothing is done, and the write fails.
LEMMA NothingLeads ==
  ASSUME NEW f, NEW H, NEW s \in Spaces, NEW j \in Slots, Based(f, H, s, j),
         NEW h, NEW n \in Names, Cleared(f, j, h, n), NEW v, NEW ok \in BOOLEAN, ~ok,
         NEW k, k = WriteCall(s, n, v, ok), NEW td, Len(td) = 0
  PROVE  Leads(In(f, j, h, f.cells[j]), td, k, H)
<1> DEFINE g == In(f, j, h, f.cells[j])
<1>1. Kept(h, f.cells[j], f.heads[j], f.cells[j], n) /\ ReadAs(h, f.cells[j], n) = <<>>
  BY DEF Cleared, ReadAs
<1>2. ReturnAllowed(g, k, H)
  BY <1>1, KeptMayReturn
<1> HIDE DEF g
<1>3. Runs(g, td, g, k, H)
  BY RunNone
<1>4. Leads(g, td, k, H)
  BY <1>2, <1>3 DEF Leads
<1> QED
  BY <1>4 DEF g

\* bk_set_name_data_new_addr leads there, whatever room it finds.
LEMMA NewEntryRuns ==
  ASSUME NEW f, NEW H, NEW s \in Spaces, NEW j \in Slots, Based(f, H, s, j),
         NEW h, NEW n \in Names, NEW v \in Values, Cleared(f, j, h, n),
         NEW plan, plan = NewEntry(j, h, n, v), NEW k, k = WriteCall(s, n, v, plan.ok)
  PROVE  Leads(In(f, j, h, f.cells[j]), plan.todo, k, H)
<1> DEFINE i == Min(FreeEntries(h))
           o == Behind(h, i)
           fits == o + Len(v) < SectorSize
           masks == \E l \in Entries : h[l].flag = "mask"
           goal == Leads(In(f, j, h, f.cells[j]), plan.todo, k, H)
<1>1. /\ f \in Flashes /\ h \in SlotHeads /\ h \in [Entries -> Headers \union {Free}] /\ Apart(h)
      /\ InUse(h, n) = {} /\ Kept(h, f.cells[j], f.heads[j], f.cells[j], n)
  BY DEF Cleared, SlotHeads
<1>2. CASE FreeEntries(h) # {} /\ fits
  <2> DEFINE ok == plan.ok
             td == plan.todo
  <2>1. FreeEntries(h) \subseteq Nat /\ FreeEntries(h) # {}
    BY <1>2 DEF FreeEntries, Entries
  <2>2. i \in FreeEntries(h) /\ \A l \in FreeEntries(h) : i <= l
    BY <2>1, MinLeast
  <2>3. NewEntry(j, h, n, v) = [ok |-> TRUE, todo |-> WriteEntry(j, i, n, o, v)]
    BY <1>2 DEF NewEntry
  <2>4. td = WriteEntry(j, i, n, o, v) /\ ok = TRUE
    <3> DEFINE w == WriteEntry(j, i, n, o, v)
    <3> HIDE DEF w
    <3>1. plan = [ok |-> TRUE, todo |-> w]
      BY <2>3 DEF w
    <3>2. td = w /\ ok = TRUE
      BY <3>1
    <3> QED
      BY <3>2 DEF w
  <2> HIDE DEF i, ok, td
  <2>5. Filled(h, i)
    BY <1>1, <2>2, FirstFree
  <2> HIDE DEF o
  <2>6. i \in Entries /\ Upto(h, i) /\ o \in Nat /\ o = Behind(h, i)
        /\ \A l \in Entries : h[l] # Free => End(h[l]) <= o
    <3>1. o = Behind(h, i)
      BY DEF o
    <3>2. i \in Entries /\ o \in Nat
      BY <2>5, <3>1 DEF Filled
    <3>3. \A l \in Entries : l < i => l \in 1 .. i - 1
      BY <3>2 DEF Entries
    <3>4. \A l \in Entries : l >= i => l \in i .. NameSlots
      BY <3>2, MatterFlashAssumption DEF Entries
    <3>5. Upto(h, i)
      <4>1. i \in 1 .. NameSlots + 1
        BY <3>2, MatterFlashAssumption DEF Entries
      <4> QED
        BY <2>5, <3>3, <3>4, <4>1 DEF Upto, Filled
    <3>6. \A l \in Entries : h[l] # Free => l < i
      <4> SUFFICES ASSUME NEW l \in Entries, ~(l < i) PROVE h[l] = Free
        OBVIOUS
      <4>1. l >= i
        BY <3>2 DEF Entries
      <4> QED
        BY <3>5, <4>1 DEF Upto
    <3>7. \A l \in Entries : h[l] # Free => End(h[l]) <= o
      BY <2>5, <3>1, <3>3, <3>6 DEF Filled
    <3> QED
      BY <3>1, <3>2, <3>5, <3>7
  <2>7. ok \in BOOLEAN /\ ok /\ k = WriteCall(s, n, v, ok)
    BY <2>4 DEF ok
  <2>8. Leads(In(f, j, h, f.cells[j]), WriteEntry(j, i, n, o, v), k, H)
    BY <1>1, <1>2, <2>6, <2>7, ValueRuns
  <2> QED
    BY <2>4, <2>8 DEF td
<1>3. CASE ~(FreeEntries(h) # {} /\ fits) /\ (FreeEntries(h) # {} \/ masks)
  <2>1. plan = Reorganize(j, h, n, v)
    BY <1>3 DEF NewEntry
  <2>2. \E l \in Entries : h[l].flag # "using"
    BY <1>3 DEF FreeEntries
  <2> HIDE DEF i, o
  <2> QED
    BY <2>1, <2>2, ReorganizeRuns
<1>4. CASE ~(FreeEntries(h) # {} /\ fits) /\ ~(FreeEntries(h) # {} \/ masks)
  <2> DEFINE ok == plan.ok
             td == plan.todo
  <2>1. NewEntry(j, h, n, v) = [ok |-> FALSE, todo |-> <<>>]
    BY <1>4 DEF NewEntry, Nothing
  <2>2. ok = FALSE /\ td = <<>>
    BY <2>1
  <2>3. Len(td) = 0 /\ ok \in BOOLEAN /\ ~ok
    BY <2>2
  <2> HIDE DEF ok, td, i, o
  <2>4. k = WriteCall(s, n, v, ok)
    BY DEF ok
  <2>5. Leads(In(f, j, h, f.cells[j]), td, k, H)
    BY <2>3, <2>4, NothingLeads
  <2> QED
    BY <2>5 DEF td
<1> QED
  BY <1>2, <1>3, <1>4

\* The same without memory for it.
LEMMA NewOrNothingRuns ==
  ASSUME NEW f, NEW H, NEW s \in Spaces, NEW j \in Slots, Based(f, H, s, j),
         NEW h, NEW n \in Names, NEW v \in Values, Cleared(f, j, h, n), NEW fails,
         NEW plan, plan = IF "bk_set_name_data_new_addr" \in fails THEN Nothing(FALSE)
                          ELSE NewEntry(j, h, n, v),
         NEW k, k = WriteCall(s, n, v, plan.ok)
  PROVE  Leads(In(f, j, h, f.cells[j]), plan.todo, k, H)
<1>1. CASE "bk_set_name_data_new_addr" \notin fails
  BY <1>1, NewEntryRuns
<1>2. CASE "bk_set_name_data_new_addr" \in fails
  <2> DEFINE ok == plan.ok
             td == plan.todo
  <2>1. ok = FALSE /\ td = <<>>
    BY <1>2 DEF Nothing
  <2>2. Len(td) = 0 /\ ok \in BOOLEAN /\ ~ok
    BY <2>1
  <2> HIDE DEF ok, td
  <2>3. k = WriteCall(s, n, v, ok)
    BY DEF ok
  <2>4. Leads(In(f, j, h, f.cells[j]), td, k, H)
    BY <2>2, <2>3, NothingLeads
  <2> QED
    BY <2>4 DEF td
<1> QED
  BY <1>1, <1>2

\* bk_set_name_data leads there: an old entry is masked first.
LEMMA SetNameDataRuns ==
  ASSUME NEW f \in Flashes, f.heads = heads, f.cells = cells,
         NEW H, NEW s \in Spaces, NEW j \in Slots, Based(f, H, s, j),
         Apart(heads[j]), OneEntry(heads[j]),
         NEW n \in Names, NEW v \in Values, NEW fails, LooksWell(j, n, Names, fails),
         NEW plan, plan = SetNameData(j, n, v, fails), NEW k, k = WriteCall(s, n, v, plan.ok)
  PROVE  Leads(f, plan.todo, k, H) /\ CutAllowed(f, k, H)
<1> DEFINE h == heads[j]
           c == cells[j]
           i == Min(InUse(h, n))
           e == [h[i] EXCEPT !.flag = "mask"]
           g == [h EXCEPT ![i] = e]
           memory == "bk_set_name_data_new_addr" \notin fails
           found == EntriesFound(j, n, fails)
           new(x) == IF "bk_set_name_data_new_addr" \in fails THEN Nothing(FALSE)
                     ELSE NewEntry(j, x, n, v)
           goal == Leads(f, plan.todo, k, H)
<1>1. /\ f.heads[j] = h /\ f.cells[j] = c /\ cells \in CellTables /\ heads \in HeadTables
      /\ h \in SlotHeads /\ h \in [Entries -> Headers \union {Free}] /\ c \in SlotCells
  BY DEF Flashes, HeadTables, CellTables, SlotHeads, SlotCells
<1>2. In(f, j, h, c) = f
  BY <1>1, InSlot
<1>3. Kept(h, c, h, c, n)
  BY <1>1 DEF Kept
<1>4. CutAllowed(f, k, H)
  <2>1. Near(h, c, h, c, n, v)
    BY <1>1 DEF Near
  <2>2. CutAllowed(In(f, j, h, c), k, H)
    BY <1>1, <2>1, NearMayBeCut
  <2> QED
    BY <1>2, <2>2
<1>5. ASSUME found = {}, memory PROVE goal
  <2>1. Cleared(f, j, h, n)
    BY <1>1, <1>3, <1>5 DEF Cleared, LooksWell
  <2>2. plan = new(h)
    BY <1>5 DEF SetNameData
  <2> HIDE DEF h, c, memory, found
  <2>3. Leads(In(f, j, h, f.cells[j]), plan.todo, k, H)
    BY <2>1, <2>2, NewOrNothingRuns
  <2> QED
    BY <1>1, <1>2, <2>3
<1>8. ASSUME found = {}, ~memory PROVE goal
  <2> DEFINE ok == plan.ok
             td == plan.todo
  <2>1. plan = [ok |-> FALSE, todo |-> <<>>]
    BY <1>8 DEF SetNameData, Nothing
  <2>2. ok = FALSE /\ td = <<>>
    BY <2>1
  <2>3. Len(td) = 0 /\ ok \in BOOLEAN /\ ~ok
    BY <2>2
  <2>4. k = WriteCall(s, n, v, ok)
    OBVIOUS
  <2> HIDE DEF ok, td, h, c, i, memory, found
  <2>5. ReadAs(h, c, n) \in {ReadAs(f.heads[j], f.cells[j], n), <<>>}
    BY <1>1
  <2>6. ReturnAllowed(f, k, H)
    <3>1. ReturnAllowed(In(f, j, h, c), k, H)
      BY <1>1, <1>3, <2>3, <2>4, <2>5, KeptMayReturn
    <3> QED
      BY <1>2, <3>1
  <2>7. Runs(f, td, f, k, H)
    BY <2>3, RunNone
  <2> QED
    BY <2>6, <2>7 DEF Leads, td
<1>9. found # {} => InUse(h, n) # {}
  BY DEF EntriesFound
<1>6. ASSUME found # {}, Data(j, h[i]) = v PROVE goal
  <2> DEFINE ok == plan.ok
             td == plan.todo
  <2>1. plan = [ok |-> TRUE, todo |-> <<>>]
    BY <1>6 DEF SetNameData
  <2>2. ok = TRUE /\ td = <<>>
    BY <2>1
  <2>3. Len(td) = 0 /\ ok \in BOOLEAN /\ ok
    BY <2>2
  <2>4. ReadAs(h, c, n) = v
    <3>1. DataAs(c, h[i]) = Data(j, h[i])
      BY DEF DataAs, Data
    <3>2. ReadAs(h, c, n) = Clean(DataAs(c, h[i]))
      BY <1>6, <1>9 DEF ReadAs
    <3>3. Clean(v) = v
      <4>1. \A x \in 1 .. Len(v) : v[x] # Mixed
        <5>1. v \in Seq(Nat \ {0})
          BY MatterFlashAssumption
        <5> QED
          BY <5>1 DEF Mixed
      <4> QED
        BY <4>1 DEF Clean
    <3> QED
      BY <1>6, <3>1, <3>2, <3>3
  <2> HIDE DEF ok, td, h, c, i, memory, found
  <2>5. k = WriteCall(s, n, v, ok)
    BY DEF ok
  <2>6. ReturnAllowed(f, k, H)
    <3>1. ReturnAllowed(In(f, j, h, c), k, H)
      BY <1>1, <1>3, <2>3, <2>4, <2>5, KeptMayReturn
    <3> QED
      BY <1>2, <3>1
  <2>7. Runs(f, td, f, k, H)
    BY <2>3, RunNone
  <2> QED
    BY <2>6, <2>7 DEF Leads, td
<1>7. ASSUME found # {}, Data(j, h[i]) # v PROVE goal
  <2>1. i \in InUse(h, n) /\ i \in Entries /\ h[i].flag = "using" /\ h[i].name = n
    <3>1. i \in InUse(h, n)
      BY <1>1, <1>7, <1>9, FirstInUse
    <3> QED
      BY <3>1 DEF InUse
  <2> DEFINE new1 == new(g)
             td == new1.todo
             u == plan.todo
             t == WriteHead(j, i, e)
             a == <<t>>
  <2>2. e \in Headers /\ HeadersOf(g, n, Names)
    <3>1. e \in Headers /\ HeadersOf(g, h[i].name, Names)
      <4>1. OneEntryOf(h, Names)
        BY AnyInOnePlace
      <4> HIDE DEF i
      <4> QED
        BY <1>1, <2>1, <4>1, MaskedHeaders
    <3> QED
      BY <2>1, <3>1
  <2>3. Removed(h, c, g, n)
    <3>1. OneEntry(h) /\ e = [h[i] EXCEPT !.flag = "mask"] /\ g = [h EXCEPT ![i] = e]
      OBVIOUS
    <3> HIDE DEF h, c, e, g, i
    <3> QED
      BY <1>1, <2>1, <2>2, <3>1, MaskRemoves
  <2>4. plan = [new1 EXCEPT !.todo = <<Mask(j, i)>> \o new1.todo]
    BY <1>7 DEF SetNameData
  <2>5. Mask(j, i) = t
    BY DEF Mask
  <2>6. new1 = [ok |-> new1.ok, todo |-> td] /\ td \in Seq(FlashOps)
    <3>1. CASE memory
      <4>1. new1 = NewEntry(j, g, n, v)
        BY <3>1
      <4>2. NewEntry(j, g, n, v)
              = [ok |-> NewEntry(j, g, n, v).ok, todo |-> NewEntry(j, g, n, v).todo]
        BY NewEntryForm
      <4>3. NewEntry(j, g, n, v).todo \in Seq(FlashOps)
        <5> DEFINE hs2 == [heads EXCEPT ![j] = g]
        <5> HIDE DEF g
        <5>1. hs2[j] = g
          BY <1>1 DEF HeadTables
        <5> HIDE DEF hs2
        <5>2. Good(NewEntry(j, g, n, v).todo, j, hs2, table, Names)
          BY <1>1, <2>2, <5>1, NewEntryGood DEF CellTables
        <5> QED
          BY <5>2 DEF Good
      <4> QED
        BY <4>1, <4>2, <4>3
    <3>2. CASE ~memory
      <4>1. new1 = [ok |-> FALSE, todo |-> <<>>]
        BY <3>2 DEF Nothing
      <4> HIDE DEF new1
      <4> QED
        BY <4>1
    <3> QED
      BY <3>1, <3>2
  <2>7. g \in SlotHeads
    BY <2>3 DEF Removed
  <2> HIDE DEF new1, g, e, i, h, c
  <2>8. u = <<t>> \o td /\ plan.ok = new1.ok
    BY <2>4, <2>5, <2>6
  <2>9. t \in FlashOps
    BY <2>1, <2>2 DEF WriteHead, FlashOps
  <2>10. Cleared(f, j, g, n)
    <3>1. Kept(g, c, h, c, n)
      BY <1>1, <2>3 DEF Removed, Kept
    <3>2. Apart(g) /\ OneEntry(g)
      BY <2>2, AllInOnePlace DEF HeadersOf
    <3>3. InUse(g, n) = {}
      BY <2>2 DEF HeadersOf, InUse
    <3>4. f.cells[j] = cells[j]
      OBVIOUS
    <3> QED
      BY <1>1, <2>7, <3>1, <3>2, <3>3, <3>4 DEF Cleared
  <2>11. Leads(In(f, j, g, f.cells[j]), td, k, H)
    <3>1. new1 = IF "bk_set_name_data_new_addr" \in fails THEN Nothing(FALSE)
                 ELSE NewEntry(j, g, n, v)
      BY DEF new1
    <3>2. k = WriteCall(s, n, v, new1.ok)
      BY <2>8
    <3> QED
      BY <2>10, <3>1, <3>2, NewOrNothingRuns
  <2>12. Apply(t, f) = In(f, j, g, f.cells[j])
    <3>1. h \in SlotHeads /\ c \in SlotCells /\ i \in Entries /\ e \in Headers
      BY <1>1, <2>1, <2>2
    <3>2. Apply(t, In(f, j, h, c)) = In(f, j, [h EXCEPT ![i] = e], c)
      BY <3>1, ApplyHead
    <3> QED
      BY <1>1, <1>2, <3>2 DEF g
  <2> HIDE DEF t, td, u, a
  <2>13. Runs(f, a, Apply(t, f), k, H)
    <3>1. a = <<t>>
      BY DEF a
    <3> QED
      BY <1>4, <2>9, <3>1, RunOne
  <2>14. Both(u, a, td)
    <3>1. a \in Seq(FlashOps) /\ u = a \o td
      BY <2>8, <2>9 DEF a
    <3> QED
      BY <2>6, <3>1, BothLists
  <2> QED
    BY <2>11, <2>12, <2>13, <2>14, LeadsOn DEF u
<1> QED
  BY <1>4, <1>5, <1>6, <1>7, <1>8

-----------------------------------------------------------------------------
(* The runs of the calls. *)

\* What is known when a call begins.
Ready ==
  /\ table \in Tables /\ heads \in HeadTables /\ cells \in CellTables /\ OneSlot(table)
  /\ \A j \in Slots : Apart(heads[j]) /\ OneEntry(heads[j])

\* Flash as a value.
LEMMA FlashParts ==
  ASSUME Ready
  PROVE  /\ Flash \in Flashes /\ Flash.table = table /\ Flash.heads = heads /\ Flash.cells = cells
         /\ Contents.store = [t \in Spaces |-> Contents.store[t]]
         /\ \A s : SlotsAs(table, s) = SlotsOf(s)
BY DEF Ready, Flash, Flashes, Contents, SlotsAs, SlotsOf

\* A namespace that is there.
LEMMA BasedThere ==
  ASSUME Ready, NEW s \in Spaces, NEW j \in Slots, table[j] = s
  PROVE  Based(Flash, Contents, s, j)
<1>1. /\ Flash \in Flashes /\ Flash.table = table /\ OneSlot(table)
      /\ Contents.store = [t \in Spaces |-> Contents.store[t]] /\ Contents = ContentsAs(Flash)
  BY FlashParts, ContentsOfFlash DEF Ready
<1>2. Contents.store[s] = ContentAs(Flash.heads[j], Flash.cells[j])
  <2>1. Stores(Flash, s, j)
    BY <1>1, StoreAt
  <2> QED
    BY <1>1, <2>1 DEF Stores
<1>3. Contents.store[s].there
  BY <1>2 DEF ContentAs
<1> QED
  BY <1>1, <1>2, <1>3 DEF Based, BasesIn

\* A namespace that is made, in a slot of the table that was erased.
LEMMA BasedNew ==
  ASSUME Ready, NEW s \in Spaces, SlotsOf(s) = {}, NEW j \in NewSlots,
         NEW f, f = Apply(WriteSpace(j, s), Flash)
  PROVE  /\ Based(f, Contents, s, j)
         /\ f \in Flashes /\ f.heads = heads /\ f.cells = cells
<1> DEFINE H == Contents
           t0 == WriteSpace(j, s)
<1>1. /\ Flash \in Flashes /\ Flash.table = table /\ OneSlot(table) /\ table \in Tables
      /\ Flash.heads = heads /\ Flash.cells = cells
      /\ H.store = [t \in Spaces |-> H.store[t]] /\ H = ContentsAs(Flash)
  BY FlashParts, ContentsOfFlash DEF Ready
<1>2. j \in Slots /\ table[j] = NoName /\ NoName \notin Spaces /\ \A l \in Slots : table[l] # s
  BY MatterFlashAssumption DEF NewSlots, SlotsOf
<1>3. /\ f.table = [table EXCEPT ![j] = s] /\ f.heads = heads /\ f.cells = cells
      /\ f = [table |-> f.table, heads |-> f.heads, cells |-> f.cells]
  <2>1. t0.op = "space" /\ t0.slot = j /\ t0.name = s
    BY DEF WriteSpace
  <2> HIDE DEF t0
  <2>2. /\ TableAfter(t0, table) = [table EXCEPT ![j] = s] /\ HeadsAfter(t0, heads) = heads
        /\ CellsAfter(t0, cells) = cells
    BY <2>1 DEF TableAfter, HeadsAfter, CellsAfter
  <2> QED
    BY <1>1, <2>2 DEF Apply, t0
<1>4. f \in Flashes
  <2>1. [table EXCEPT ![j] = s] \in Tables
    BY <1>1 DEF Tables
  <2> QED
    BY <1>1, <1>3, <2>1 DEF Flashes
<1>5. f.table[j] = s /\ \A l \in Slots : l # j => f.table[l] = table[l]
  BY <1>1, <1>2, <1>3 DEF Tables
<1>6. OneSlot(f.table)
  BY <1>1, <1>2, <1>5 DEF OneSlot
<1> HIDE DEF H
<1>7. ASSUME NEW t \in Spaces, t # s PROVE ContentsAs(f).store[t] = H.store[t]
  <2>1. CASE \A l \in Slots : table[l] # t
    <3>1. \A l \in Slots : f.table[l] # t
      BY <1>5, <1>7, <2>1
    <3>2. ContentsAs(f).store[t] = NoSpace
      BY <1>6, <3>1, StoreAt
    <3>3. ContentsAs(Flash).store[t] = NoSpace
      BY <1>1, <2>1, StoreAt
    <3> QED
      BY <1>1, <3>2, <3>3
  <2>2. ASSUME NEW l \in Slots, table[l] = t PROVE ContentsAs(f).store[t] = H.store[t]
    <3>1. f.table[l] = t
      BY <1>2, <1>5, <2>2
    <3>2. Stores(f, t, l)
      BY <1>6, <3>1, StoreAt
    <3>3. Stores(Flash, t, l)
      BY <1>1, <2>2, StoreAt
    <3> QED
      BY <1>1, <1>3, <3>2, <3>3 DEF Stores
  <2> QED
    BY <2>1, <2>2
<1>8. ContentsAs(f).orphans \subseteq H.orphans
  <2>1. SlotsAs(f.table, NoName) \subseteq SlotsAs(table, NoName)
    BY <1>2, <1>5 DEF SlotsAs
  <2>2. OrphansAs(f) \subseteq OrphansAs(Flash)
    <3> SUFFICES ASSUME NEW x \in OrphansAs(f) PROVE x \in OrphansAs(Flash)
      OBVIOUS
    <3>1. x # [NoSpace EXCEPT !.there = TRUE]
      BY DEF OrphansAs
    <3>2. PICK l \in SlotsAs(f.table, NoName) : x = ContentAs(f.heads[l], f.cells[l])
      BY DEF OrphansAs
    <3>3. l \in SlotsAs(Flash.table, NoName) /\ x = ContentAs(Flash.heads[l], Flash.cells[l])
      BY <1>1, <1>3, <2>1, <3>2
    <3> QED
      BY <3>1, <3>3 DEF OrphansAs
  <2> QED
    BY <1>1, <2>2 DEF ContentsAs
<1>9. ContentAs(f.heads[j], f.cells[j]) \in BasesIn(H, s)
  <2> DEFINE x == ContentAs(f.heads[j], f.cells[j])
  <2>1. ~H.store[s].there
    <3>1. ContentsAs(Flash).store[s] = NoSpace
      BY <1>1, <1>2, StoreAt
    <3> QED
      BY <1>1, <3>1 DEF NoSpace
  <2>2. x \in {ContentAs(Flash.heads[l], Flash.cells[l]) : l \in SlotsAs(table, NoName)}
    BY <1>1, <1>2, <1>3 DEF SlotsAs
  <2> HIDE DEF x
  <2>3. x \in OrphansAs(Flash) \/ x = [NoSpace EXCEPT !.there = TRUE]
    BY <1>1, <2>2 DEF OrphansAs
  <2>4. x \in H.orphans \/ x = Contract!Empty
    BY <1>1, <2>3, NothingStored DEF ContentsAs
  <2> QED
    BY <2>1, <2>4 DEF BasesIn, x
<1>10. Based(f, H, s, j)
  BY <1>1, <1>4, <1>5, <1>6, <1>7, <1>8, <1>9 DEF Based
<1> QED
  BY <1>3, <1>4, <1>10 DEF H

\* A power cut may leave flash as it was, and so may a call that fails.
LEMMA Unchanged ==
  ASSUME NEW k
  PROVE  /\ CutAllowed(Flash, k, Contents)
         /\ \A td : Len(td) = 0 /\ ~k.ok => Leads(Flash, td, k, Contents)
<1>1. ContentsAs(Flash) = Contents
  BY ContentsOfFlash
<1>2. CutAllowed(Flash, k, Contents)
  BY <1>1 DEF CutAllowed
<1>3. ASSUME NEW td, Len(td) = 0, ~k.ok PROVE Leads(Flash, td, k, Contents)
  <2>1. ReturnAllowed(Flash, k, Contents)
    BY <1>1, <1>3 DEF ReturnAllowed
  <2>2. Runs(Flash, td, Flash, k, Contents)
    BY <1>3, RunNone
  <2> QED
    BY <2>1, <2>2 DEF Leads
<1> QED
  BY <1>2, <1>3

EnsureCall(s, ok) == [kind |-> "ensure", space |-> s, ok |-> ok]
CleanCall(s, n, ok) == [kind |-> "clean", space |-> s, name |-> n, ok |-> ok]

\* A namespace in its slot is what bk_ensure_namespace may answer for.
LEMMA EnsuredMayReturn ==
  ASSUME NEW f, NEW H, NEW s \in Spaces, NEW j \in Slots, Based(f, H, s, j),
         NEW ok, ok, NEW k, k = EnsureCall(s, ok)
  PROVE  ReturnAllowed(f, k, H)
<1> DEFINE b == ContentAs(f.heads[j], f.cells[j])
<1>1. f \in Flashes /\ b \in BasesIn(H, s)
  BY DEF Based
<1>2. f.heads[j] \in SlotHeads /\ f.cells[j] \in SlotCells
  BY <1>1 DEF Flashes, HeadTables, CellTables, SlotHeads, SlotCells
<1>3. In(f, j, f.heads[j], f.cells[j]) = f
  BY <1>1, <1>2, InSlot
<1>4. Becoming(H, ContentsAs(In(f, j, f.heads[j], f.cells[j])), s, b)
  BY <1>2, SlotChange
<1> HIDE DEF b
<1>5. EnsureDone(H, ContentsAs(f), s)
  BY <1>1, <1>3, <1>4 DEF EnsureDone
<1>6. k.kind = "ensure" /\ k.space = s /\ k.ok = ok
  BY DEF EnsureCall
<1> QED
  BY <1>5, <1>6 DEF ReturnAllowed

\* bk_ensure_namespace, unless it makes a namespace twice.
LEMMA PlanEnsureRuns ==
  ASSUME Ready, NEW s \in Spaces, NEW fails, ~SpaceTwice(s, fails),
         NEW plan, plan = PlanEnsure(s, fails), NEW k, k = EnsureCall(s, plan.ok)
  PROVE  Leads(Flash, plan.todo, k, Contents)
<1> DEFINE ok == plan.ok
           td == plan.todo
           t == WriteSpace(Min(NewSlots), s)
           none == NewSlots = {} \/ "bk_set_namespace" \in fails
<1>1. k.ok = ok
  BY DEF EnsureCall
<1>2. CASE SlotsFound(s, fails) # {}
  <2>1. Slot(s) \in Slots /\ table[Slot(s)] = s
    BY <1>2, SlotFound, FoundOrNot
  <2>2. PlanEnsure(s, fails) = [ok |-> TRUE, todo |-> <<>>]
    BY <1>2 DEF PlanEnsure, Nothing
  <2>3. ok = TRUE /\ td = <<>>
    BY <2>2
  <2>4. Len(td) = 0 /\ ok
    BY <2>3
  <2> HIDE DEF td, ok
  <2>5. Based(Flash, Contents, s, Slot(s))
    BY <2>1, BasedThere
  <2>6. k = EnsureCall(s, ok)
    BY DEF ok
  <2>7. ReturnAllowed(Flash, k, Contents)
    BY <2>1, <2>4, <2>5, <2>6, EnsuredMayReturn
  <2>8. Runs(Flash, td, Flash, k, Contents)
    BY <2>4, RunNone
  <2> QED
    BY <2>7, <2>8 DEF Leads, td
<1>3. CASE SlotsFound(s, fails) = {} /\ none
  <2>1. PlanEnsure(s, fails) = [ok |-> FALSE, todo |-> <<>>]
    BY <1>3 DEF PlanEnsure, Nothing
  <2>2. ok = FALSE /\ td = <<>>
    BY <2>1
  <2>3. Len(td) = 0 /\ ~ok
    BY <2>2
  <2> HIDE DEF td, ok
  <2>4. Leads(Flash, td, k, Contents)
    BY <1>1, <2>3, Unchanged
  <2> QED
    BY <2>4 DEF td
<1>4. CASE SlotsFound(s, fails) = {} /\ ~none
  <2>1. PlanEnsure(s, fails) = [ok |-> TRUE, todo |-> <<t>>]
    BY <1>4 DEF PlanEnsure
  <2>2. ok = TRUE /\ td = <<t>>
    BY <2>1
  <2>3. NewSlots \subseteq Nat /\ NewSlots \subseteq Slots
    BY DEF NewSlots, Slots
  <2>4. Min(NewSlots) \in NewSlots /\ Min(NewSlots) \in Slots
    BY <1>4, <2>3, MinLeast
  <2>5. t \in FlashOps
    BY <2>4 DEF WriteSpace, FlashOps
  <2>6. SlotsOf(s) = {}
    BY <1>4, <2>2 DEF SpaceTwice
  <2> DEFINE g == Apply(t, Flash)
  <2> HIDE DEF td, ok
  <2>7. Based(g, Contents, s, Min(NewSlots))
    BY <2>4, <2>6, BasedNew
  <2>8. k = EnsureCall(s, ok) /\ ok
    BY <2>2 DEF ok
  <2>9. ReturnAllowed(g, k, Contents)
    BY <2>4, <2>7, <2>8, EnsuredMayReturn
  <2> HIDE DEF t
  <2>10. Runs(Flash, td, g, k, Contents)
    BY <2>2, <2>5, Unchanged, RunOne
  <2> QED
    BY <2>9, <2>10 DEF Leads, td
<1> QED
  BY <1>2, <1>3, <1>4

\* bk_write_data, unless it makes a namespace or a name twice.
LEMMA PlanWriteRuns ==
  ASSUME Ready, NEW s \in Spaces, NEW n \in Names, NEW v \in Values, NEW fails,
         ~SpaceTwice(s, fails), ~NameTwice(s, n, fails),
         NEW plan, plan = PlanWrite(s, n, v, fails), NEW k, k = WriteCall(s, n, v, plan.ok)
  PROVE  Leads(Flash, plan.todo, k, Contents)
<1> DEFINE space == PlanEnsure(s, fails)
           j == SlotFor(s, fails)
           set == SetNameData(j, n, v, fails)
           t == WriteSpace(j, s)
           ok == plan.ok
           td == plan.todo
<1>1. k.ok = ok
  BY DEF WriteCall
<1>2. CASE ~space.ok
  <2>1. space = [ok |-> FALSE, todo |-> <<>>]
    BY <1>2 DEF PlanEnsure, Nothing
  <2>2. plan = space
    BY <1>2 DEF PlanWrite
  <2>3. ok = FALSE /\ td = <<>>
    BY <2>1, <2>2
  <2>4. Len(td) = 0 /\ ~ok
    BY <2>3
  <2> HIDE DEF td, ok
  <2>5. Leads(Flash, td, k, Contents)
    BY <1>1, <2>4, Unchanged
  <2> QED
    BY <2>5 DEF td
<1>3. CASE space.ok
  <2>1. \/ SlotsFound(s, fails) # {} /\ space = Nothing(TRUE)
        \/ SlotsFound(s, fails) = {} /\ NewSlots # {} /\ space = [ok |-> TRUE, todo |-> <<t>>]
    BY <1>3 DEF PlanEnsure, Nothing, SlotFor
  <2>2. j \in Slots
    BY <2>1, FoundOrNot, SlotFound DEF SlotFor
  <2>3. LooksWell(j, n, Names, fails)
    BY <1>3 DEF LooksWell, NameTwice
  <2>4. /\ Apart(heads[j]) /\ OneEntry(heads[j])
        /\ heads \in HeadTables /\ cells \in [Slots -> [Offsets -> CellValues]]
    <3> HIDE DEF j
    <3> QED
      BY <2>2 DEF Ready, CellTables
  <2>5. Sound(set, heads, table, Names)
    <3> HIDE DEF j
    <3> QED
      BY <2>2, <2>3, <2>4, AnyInOnePlace, SetNameDataSound
  <2>6. plan = [set EXCEPT !.todo = space.todo \o set.todo]
    BY <1>3 DEF PlanWrite
  <2>7. CASE SlotsFound(s, fails) # {}
    <3>1. space.todo = <<>>
      BY <2>1, <2>7 DEF Nothing
    <3>2. table[j] = s
      BY <2>7, FoundOrNot, SlotFound DEF SlotFor
    <3> HIDE DEF space, set, j
    <3>3. space.todo \o set.todo = set.todo
      BY <2>5, <3>1 DEF Sound
    <3>4. plan = [set EXCEPT !.todo = set.todo]
      BY <2>6, <3>3
    <3>5. plan = set
      BY <2>5, <3>4, SamePlan
    <3>6. Based(Flash, Contents, s, j)
      BY <2>2, <3>2, BasedThere
    <3>7. Flash \in Flashes /\ Flash.heads = heads /\ Flash.cells = cells
      BY FlashParts
    <3>8. plan = SetNameData(j, n, v, fails)
      BY <3>5 DEF set
    <3> QED
      BY <2>2, <2>3, <2>4, <3>6, <3>7, <3>8, SetNameDataRuns
  <2>8. CASE SlotsFound(s, fails) = {}
    <3> DEFINE g == Apply(t, Flash)
               a == <<t>>
               rest == set.todo
    <3>1. plan = [set EXCEPT !.todo = <<t>> \o set.todo]
      <4>1. space.todo = <<t>>
        BY <2>1, <2>8
      <4> QED
        BY <2>6, <4>1
    <3>2. j \in NewSlots
      <4>1. NewSlots \subseteq Nat
        BY DEF NewSlots, Slots
      <4> QED
        BY <2>1, <2>8, <4>1, MinLeast DEF SlotFor
    <3>3. SlotsOf(s) = {}
      BY <1>3, <2>8 DEF SpaceTwice
    <3> HIDE DEF j, set
    <3>4. td = a \o rest /\ plan.ok = set.ok /\ rest \in Seq(FlashOps)
      BY <2>5, <3>1 DEF Sound
    <3>5. t \in FlashOps
      BY <2>2 DEF WriteSpace, FlashOps
    <3>6. Based(g, Contents, s, j) /\ g \in Flashes /\ g.heads = heads /\ g.cells = cells
      BY <3>2, <3>3, BasedNew
    <3> HIDE DEF g, rest
    <3>7. Leads(g, rest, k, Contents)
      <4>1. k = WriteCall(s, n, v, set.ok) /\ set = SetNameData(j, n, v, fails)
        BY <3>4 DEF set
      <4> QED
        BY <2>2, <2>3, <2>4, <3>6, <4>1, SetNameDataRuns DEF rest
    <3>8. Runs(Flash, a, g, k, Contents)
      <4> HIDE DEF t
      <4>1. Runs(Flash, a, Apply(t, Flash), k, Contents)
        BY <3>5, Unchanged, RunOne
      <4> QED
        BY <4>1 DEF g
    <3>9. Both(td, a, rest)
      <4>1. a \in Seq(FlashOps)
        BY <3>5
      <4> HIDE DEF a, td
      <4> QED
        BY <3>4, <4>1, BothLists
    <3> QED
      BY <3>7, <3>8, <3>9, LeadsOn
  <2> QED
    BY <2>7, <2>8
<1> QED
  BY <1>2, <1>3

\* Contents with another value.
LEMMA OtherValue ==
  ASSUME NEW a, NEW b, NEW c, NEW n, NEW d
  PROVE  [[there |-> a, values |-> b, dirty |-> c] EXCEPT !.values[n] = d]
           = [there |-> a, values |-> [b EXCEPT ![n] = d], dirty |-> c]
BY SMT

\* A value in use is not missing.
LEMMA ReadSomething ==
  ASSUME NEW h \in SlotHeads, NEW c, NEW n, InUse(h, n) # {}
  PROVE  ReadAs(h, c, n) # <<>>
<1> DEFINE x == h[Min(InUse(h, n))]
           d == DataAs(c, x)
<1>1. x \in Headers
  BY FirstInUse
<1>2. x.len \in Nat \ {0}
  BY <1>1, HeaderTypes
<1>3. ReadAs(h, c, n) = Clean(d)
  BY DEF ReadAs
<1> HIDE DEF x
<1>4. Len(d) = x.len /\ Len(<<>>) = 0
  BY <1>2 DEF DataAs
<1> HIDE DEF d
<1>5. Clean(d) = d \/ Clean(d) = <<Mixed>>
  BY DEF Clean
<1>6. d # <<>>
  BY <1>2, <1>4
<1>7. <<Mixed>> # <<>>
  OBVIOUS
<1> QED
  BY <1>3, <1>5, <1>6, <1>7

\* bk_clean_data.
LEMMA PlanCleanRuns ==
  ASSUME Ready, NEW s \in Spaces, NEW n \in Names,
         NEW fails, NEW plan, plan = PlanClean(s, n, fails), NEW k, k = CleanCall(s, n, plan.ok)
  PROVE  Leads(Flash, plan.todo, k, Contents)
<1> DEFINE ok == plan.ok
           td == plan.todo
           j == Slot(s)
           h == heads[j]
           c == cells[j]
           i == Min(InUse(h, n))
           e == [h[i] EXCEPT !.flag = "mask"]
           g == [h EXCEPT ![i] = e]
           t == Mask(j, i)
<1>1. k.kind = "clean" /\ k.space = s /\ k.name = n /\ k.ok = ok
  BY DEF CleanCall
<1>2. CASE SlotsFound(s, fails) = {} \/ EntriesFound(j, n, fails) = {}
  <2>1. PlanClean(s, n, fails) = [ok |-> FALSE, todo |-> <<>>]
    BY <1>2 DEF PlanClean, Nothing
  <2>2. ok = FALSE /\ td = <<>>
    BY <2>1
  <2>3. Len(td) = 0 /\ ~ok
    BY <2>2
  <2> HIDE DEF td, ok
  <2>4. Leads(Flash, td, k, Contents)
    BY <1>1, <2>3, Unchanged
  <2> QED
    BY <2>4 DEF td
<1>3. CASE ~(SlotsFound(s, fails) = {} \/ EntriesFound(j, n, fails) = {})
  <2>0. SlotsOf(s) # {} /\ InUse(h, n) # {}
    BY <1>3, FoundOrNot
  <2>1. j \in Slots /\ table[j] = s
    BY <2>0, SlotFound
  <2>2. PlanClean(s, n, fails) = [ok |-> TRUE, todo |-> <<t>>]
    BY <1>3 DEF PlanClean
  <2>3. ok = TRUE /\ td = <<t>>
    BY <2>2
  <2>4. t = WriteHead(j, i, e)
    BY DEF Mask
  <2> HIDE DEF j, td, ok, t
  <2>5. /\ h \in SlotHeads /\ c \in SlotCells /\ Apart(h) /\ OneEntry(h)
        /\ h \in [Entries -> Headers \union {Free}]
    BY <2>1 DEF Ready, HeadTables, CellTables, SlotHeads, SlotCells
  <2>6. /\ Flash \in Flashes /\ Flash.heads[j] = h /\ Flash.cells[j] = c
        /\ In(Flash, j, h, c) = Flash
    <3>1. Flash \in Flashes /\ Flash.heads = heads /\ Flash.cells = cells
      BY FlashParts
    <3>2. In(Flash, j, Flash.heads[j], Flash.cells[j]) = Flash
      BY <2>1, <2>5, <3>1, InSlot
    <3> QED
      BY <3>1, <3>2
  <2>7. Based(Flash, Contents, s, j)
    BY <2>1, BasedThere
  <2>8. InUse(h, n) # {}
    BY <2>0
  <2> HIDE DEF h, c
  <2>9. i \in InUse(h, n) /\ i \in Entries /\ h[i].flag = "using" /\ h[i].name = n
    <3>1. i \in InUse(h, n)
      BY <2>5, <2>8, FirstInUse
    <3> QED
      BY <3>1 DEF InUse
  <2> HIDE DEF i
  <2>10. e \in Headers
    <3>1. OneEntryOf(h, Names)
      BY <2>5, AnyInOnePlace
    <3> QED
      BY <2>5, <2>9, <3>1, MaskedHeaders
  <2>11. Removed(h, c, g, n)
    <3>1. e = [h[i] EXCEPT !.flag = "mask"] /\ g = [h EXCEPT ![i] = e]
      OBVIOUS
    <3> HIDE DEF e, g
    <3> QED
      BY <2>5, <2>9, <2>10, <3>1, MaskRemoves
  <2>12. Apply(t, Flash) = In(Flash, j, g, c)
    <3> HIDE DEF e
    <3>1. /\ Flash \in Flashes /\ j \in Slots /\ h \in SlotHeads /\ c \in SlotCells
          /\ i \in Entries /\ e \in Headers
      BY <2>1, <2>5, <2>6, <2>9, <2>10
    <3>2. Apply(WriteHead(j, i, e), In(Flash, j, h, c)) = In(Flash, j, [h EXCEPT ![i] = e], c)
      BY <3>1, ApplyHead
    <3> QED
      BY <2>4, <2>6, <3>2
  <2>13. t \in FlashOps
    BY <2>1, <2>4, <2>9, <2>10 DEF WriteHead, FlashOps
  <2> DEFINE N == ContentsAs(In(Flash, j, g, c))
  <2> HIDE DEF g, e
  <2>14. g \in SlotHeads
    BY <2>11 DEF Removed
  <2>15. Becoming(Contents, N, s, ContentAs(g, c))
    BY <2>1, <2>5, <2>7, <2>14, SlotChange
  <2>16. Contents.store[s] = ContentAs(h, c)
    <3>1. Flash.table = table /\ OneSlot(table)
      BY FlashParts DEF Ready
    <3>2. Stores(Flash, s, j)
      BY <2>1, <3>1, StoreAt
    <3> QED
      BY <2>6, <3>2, ContentsOfFlash DEF Stores
  <2>17. ContentAs(g, c) = [ContentAs(h, c) EXCEPT !.values[n] = <<>>]
    <3> DEFINE vals == [m \in Names |-> ReadAs(h, c, m)]
               dirty == DirtyAs(h, c)
    <3>1. [m \in Names |-> ReadAs(g, c, m)] = [vals EXCEPT ![n] = <<>>]
      BY <2>11 DEF Removed
    <3>2. DirtyAs(g, c) = dirty
      <4>1. DirtyAs(g, c) \in BOOLEAN /\ dirty \in BOOLEAN
        BY ContentParts
      <4>2. DirtyAs(g, c) <=> dirty
        BY <2>11 DEF Removed
      <4> HIDE DEF dirty
      <4> QED
        BY <4>1, <4>2
    <3>3. ContentAs(h, c) = [there |-> TRUE, values |-> vals, dirty |-> dirty]
      BY DEF ContentAs
    <3>4. ContentAs(g, c) = [there |-> TRUE, values |-> [m \in Names |-> ReadAs(g, c, m)],
                             dirty |-> DirtyAs(g, c)]
      BY DEF ContentAs
    <3> HIDE DEF vals, dirty
    <3> DEFINE tt == TRUE
               nothing == <<>>
    <3>5. ContentAs(h, c) = [there |-> tt, values |-> vals, dirty |-> dirty]
      BY <3>3
    <3>6. ContentAs(g, c) = [there |-> tt, values |-> [vals EXCEPT ![n] = nothing],
                             dirty |-> dirty]
      BY <3>1, <3>2, <3>4
    <3> HIDE DEF tt, nothing
    <3>7. [ContentAs(h, c) EXCEPT !.values[n] = nothing]
            = [there |-> tt, values |-> [vals EXCEPT ![n] = nothing], dirty |-> dirty]
      BY <3>5, OtherValue
    <3> QED
      BY <3>6, <3>7 DEF nothing
  <2>18. Contents.store[s].there /\ Contents.store[s].values[n] # <<>>
    <3>1. ContentAs(h, c).there
      BY DEF ContentAs
    <3>2. ContentAs(h, c).values[n] = ReadAs(h, c, n)
      <4>1. ContentAs(h, c).values = [m \in Names |-> ReadAs(h, c, m)]
        BY ContentParts
      <4> QED
        BY <4>1
    <3>3. ReadAs(h, c, n) # <<>>
      BY <2>5, <2>8, ReadSomething
    <3> QED
      BY <2>16, <3>1, <3>2, <3>3
  <2>19. CleanDone(Contents, N, s, n)
    <3>1. Becoming(Contents, N, s, [Contents.store[s] EXCEPT !.values[n] = <<>>])
      BY <2>15, <2>16, <2>17
    <3> QED
      BY <2>18, <3>1 DEF CleanDone
  <2>20. ReturnAllowed(Apply(t, Flash), k, Contents)
    BY <1>1, <2>3, <2>12, <2>19 DEF ReturnAllowed
  <2>21. Runs(Flash, td, Apply(t, Flash), k, Contents)
    BY <2>3, <2>13, Unchanged, RunOne
  <2> QED
    BY <2>20, <2>21 DEF Leads, td
<1> QED
  BY <1>2, <1>3

ClearCall(s, ok) == [kind |-> "clear", space |-> s, ok |-> ok]

\* One more operation at the end.
LEMMA OneMore ==
  ASSUME NEW a \in Seq(FlashOps), NEW t \in FlashOps
  PROVE  Both(Append(a, t), a, <<t>>) /\ Append(a, t) \in Seq(FlashOps)
<1>1. Len(a) \in Nat /\ Len(Append(a, t)) = Len(a) + 1 /\ Append(a, t) \in Seq(FlashOps)
  OBVIOUS
<1>2. Append(a, t)[Len(a) + 1] = t /\ \A k \in 1 .. Len(a) : Append(a, t)[k] = a[k]
  OBVIOUS
<1> DEFINE u == Append(a, t)
           b == <<t>>
<1>3. Len(b) = 1 /\ b[1] = t
  OBVIOUS
<1> HIDE DEF u, b
<1>4. Len(u) = Len(a) + 1 /\ u[Len(a) + 1] = t /\ \A k \in 1 .. Len(a) : u[k] = a[k]
  BY <1>1, <1>2 DEF u
<1>5. \A k \in 1 .. Len(b) : k = 1
  BY <1>3
<1>6. Both(u, a, b)
  BY <1>1, <1>3, <1>4, <1>5 DEF Both
<1> QED
  BY <1>1, <1>6 DEF u, b

\* What a clear of the namespace in slot j has written back of the table.
TableFrom(j, i) == [l \in Slots |-> IF l <= i /\ l # j THEN table[l] ELSE NoName]
Restored(j, i) ==
  [table |-> TableFrom(j, i), heads |-> [heads EXCEPT ![j] = ErasedHeads],
   cells |-> [cells EXCEPT ![j] = ErasedCells]]

\* Then other namespaces may be lost.
LEMMA RestoredMayBeCut ==
  ASSUME Ready, NEW s \in Spaces, NEW j \in Slots, table[j] = s, NEW i, NEW ok,
         NEW k, k = ClearCall(s, ok)
  PROVE  CutAllowed(Restored(j, i), k, Contents)
<1> DEFINE f == Restored(j, i)
           lost == {t \in Spaces : \A l \in Slots : f.table[l] # t}
           N == ContentsAs(f)
<1>1. /\ Flash \in Flashes /\ Flash.table = table /\ Flash.heads = heads /\ Flash.cells = cells
      /\ OneSlot(table) /\ table \in Tables /\ heads \in HeadTables /\ cells \in CellTables
  BY FlashParts DEF Ready
<1>2. f.table = TableFrom(j, i) /\ f.table \in Tables
  BY <1>1 DEF Restored, TableFrom, Tables
<1>3. \A l \in Slots : f.table[l] \in {table[l], NoName}
  BY <1>2 DEF TableFrom
<1>4. f.table[j] = NoName
  BY <1>2 DEF TableFrom
<1>5. ASSUME NEW l \in Slots
      PROVE  \/ f.heads[l] = heads[l] /\ f.cells[l] = cells[l]
             \/ f.table[l] = NoName /\ f.heads[l] = ErasedHeads
  <2>1. CASE l = j
    BY <1>1, <1>4, <2>1 DEF Restored, HeadTables
  <2>2. CASE l # j
    BY <1>1, <2>2 DEF Restored, HeadTables, CellTables
  <2> QED
    BY <2>1, <2>2
<1>6. s \in lost
  <2> SUFFICES ASSUME NEW l \in Slots, f.table[l] = s PROVE FALSE
    OBVIOUS
  <2>1. s # NoName
    BY MatterFlashAssumption
  <2>2. table[l] = s
    BY <1>3, <2>1
  <2>3. l = j
    BY <1>1, <2>1, <2>2 DEF OneSlot
  <2> QED
    BY <1>4, <2>1, <2>3
<1> HIDE DEF f
<1>7. Losing(Contents, N, lost)
  BY <1>1, <1>2, <1>3, <1>5, Lost, ContentsOfFlash
<1> DEFINE others == lost \ {s}
<1>8. lost = {s} \union others /\ others \in SUBSET (Spaces \ {s})
  BY <1>6
<1> HIDE DEF lost, others
<1>9. Losing(Contents, N, {s} \union others)
  BY <1>7, <1>8
<1>10. ClearCut(Contents, N, s)
  BY <1>8, <1>9 DEF ClearCut
<1>11. k.kind = "clear" /\ k.space = s
  BY DEF ClearCall
<1>12. CutAllowed(f, k, Contents)
  BY <1>10, <1>11 DEF CutAllowed
<1> QED
  BY <1>12 DEF f

\* When all is written back, one namespace is gone and all else is as it was.
LEMMA RestoredMayReturn ==
  ASSUME Ready, NEW s \in Spaces, NEW j \in Slots, table[j] = s, NEW ok, ok,
         NEW k, k = ClearCall(s, ok)
  PROVE  ReturnAllowed(Restored(j, SpaceSlots), k, Contents)
<1> DEFINE f == Restored(j, SpaceSlots)
           H == Contents
           N == ContentsAs(f)
<1>1. /\ Flash \in Flashes /\ Flash.table = table /\ Flash.heads = heads /\ Flash.cells = cells
      /\ OneSlot(table) /\ table \in Tables /\ heads \in HeadTables /\ cells \in CellTables
      /\ H.store = [t \in Spaces |-> H.store[t]] /\ H = ContentsAs(Flash)
  BY FlashParts, ContentsOfFlash DEF Ready
<1>2. f.table = TableFrom(j, SpaceSlots)
  BY DEF Restored
<1>3. f.table[j] = NoName /\ \A l \in Slots : l # j => f.table[l] = table[l]
  <2>1. \A l \in Slots : l <= SpaceSlots
    BY MatterFlashAssumption DEF Slots
  <2> QED
    BY <1>2, <2>1 DEF TableFrom
<1>4. /\ f.heads[j] = ErasedHeads /\ f.cells[j] = ErasedCells
      /\ \A l \in Slots : l # j => f.heads[l] = heads[l] /\ f.cells[l] = cells[l]
  BY <1>1 DEF Restored, HeadTables, CellTables
<1> HIDE DEF f, H
<1>5. s # NoName /\ NoName \notin Spaces
  BY MatterFlashAssumption
<1>6. OneSlot(f.table)
  BY <1>1, <1>3 DEF OneSlot
<1>7. N.store[s] = NoSpace
  <2>1. \A l \in Slots : f.table[l] # s
    <3> SUFFICES ASSUME NEW l \in Slots, f.table[l] = s PROVE FALSE
      OBVIOUS
    <3>1. l # j /\ table[l] = s
      BY <1>3, <1>5
    <3> QED
      BY <1>1, <1>5, <3>1 DEF OneSlot
  <2> QED
    BY <1>6, <2>1, StoreAt
<1>8. ASSUME NEW t \in Spaces, t # s PROVE N.store[t] = H.store[t]
  <2>1. CASE \A l \in Slots : table[l] # t
    <3>1. \A l \in Slots : f.table[l] # t
      BY <1>3, <1>5, <2>1
    <3>2. N.store[t] = NoSpace
      BY <1>6, <3>1, StoreAt
    <3>3. ContentsAs(Flash).store[t] = NoSpace
      BY <1>1, <2>1, StoreAt
    <3> QED
      BY <1>1, <3>2, <3>3
  <2>2. ASSUME NEW l \in Slots, table[l] = t PROVE N.store[t] = H.store[t]
    <3>1. l # j /\ f.table[l] = t
      BY <1>3, <1>8, <2>2
    <3>2. Stores(f, t, l)
      BY <1>6, <3>1, StoreAt
    <3>3. Stores(Flash, t, l)
      BY <1>1, <2>2, StoreAt
    <3> QED
      BY <1>1, <1>4, <3>1, <3>2, <3>3 DEF Stores
  <2> QED
    BY <2>1, <2>2
<1>9. N.store = [H.store EXCEPT ![s] = NoSpace]
  <2>1. N.store = [t \in Spaces |-> N.store[t]]
    BY DEF ContentsAs, StoreAs
  <2> HIDE DEF N
  <2> QED
    BY <1>1, <1>7, <1>8, <2>1
<1>10. ASSUME NEW x \in OrphansAs(f) PROVE x \in OrphansAs(Flash)
  <2>1. x # [NoSpace EXCEPT !.there = TRUE]
    BY DEF OrphansAs
  <2>2. PICK l \in SlotsAs(f.table, NoName) : x = ContentAs(f.heads[l], f.cells[l])
    BY DEF OrphansAs
  <2>3. l \in Slots /\ f.table[l] = NoName
    BY DEF SlotsAs
  <2>4. l # j
    <3> SUFFICES ASSUME l = j PROVE x = [NoSpace EXCEPT !.there = TRUE]
      BY <2>1
    <3>1. x = ContentAs(ErasedHeads, ErasedCells)
      BY <1>4, <2>2
    <3>2. x = Contract!Holds(Contract!Nothing, DirtyAs(ErasedHeads, ErasedCells))
      BY <3>1, ErasedContent
    <3>3. DirtyAs(ErasedHeads, ErasedCells) = FALSE
      BY ErasedContent
    <3> QED
      BY <3>2, <3>3, NothingStored DEF Contract!Empty
  <2>5. l \in SlotsAs(Flash.table, NoName) /\ x = ContentAs(Flash.heads[l], Flash.cells[l])
    BY <1>1, <1>3, <1>4, <2>2, <2>3, <2>4 DEF SlotsAs
  <2> QED
    BY <2>1, <2>5 DEF OrphansAs
<1>11. N.orphans \subseteq H.orphans
  BY <1>1, <1>10 DEF ContentsAs
<1>12. H.store[s].there
  <2>1. Stores(Flash, s, j)
    BY <1>1, StoreAt
  <2>2. H.store[s] = ContentAs(heads[j], cells[j])
    BY <1>1, <2>1 DEF Stores
  <2> QED
    BY <2>2 DEF ContentAs
<1> HIDE DEF N
<1>13. ClearDone(H, N, s)
  BY <1>9, <1>11, <1>12 DEF ClearDone, Becoming
<1>14. k.kind = "clear" /\ k.space = s /\ k.ok = ok
  BY DEF ClearCall
<1>15. ReturnAllowed(f, k, H)
  BY <1>13, <1>14 DEF ReturnAllowed, N
<1> QED
  BY <1>15 DEF f, H

\* One slot of the table written back.
LEMMA ApplyRestore ==
  ASSUME NEW j \in Slots, NEW i \in Nat, i + 1 \in Slots
  PROVE  /\ i + 1 # j => Apply(WriteSpace(i + 1, table[i + 1]), Restored(j, i)) = Restored(j, i + 1)
         /\ i + 1 = j \/ table[i + 1] = NoName => Restored(j, i) = Restored(j, i + 1)
<1> DEFINE t == WriteSpace(i + 1, table[i + 1])
           tb == TableFrom(j, i)
<1>1. \A l \in Slots : l # i + 1 => (l <= i <=> l <= i + 1)
  BY DEF Slots
<1>2. ~(i + 1 <= i) /\ i + 1 <= i + 1
  OBVIOUS
<1>3. t.op = "space" /\ t.slot = i + 1 /\ t.name = table[i + 1]
  BY DEF WriteSpace
<1>4. ASSUME i + 1 # j PROVE [tb EXCEPT ![i + 1] = table[i + 1]] = TableFrom(j, i + 1)
  BY <1>1, <1>2, <1>4 DEF TableFrom
<1>5. ASSUME i + 1 = j \/ table[i + 1] = NoName PROVE tb = TableFrom(j, i + 1)
  BY <1>1, <1>2, <1>5 DEF TableFrom
<1> HIDE DEF t
<1>6. ASSUME i + 1 # j PROVE Apply(t, Restored(j, i)) = Restored(j, i + 1)
  <2>1. TableAfter(t, tb) = [tb EXCEPT ![i + 1] = table[i + 1]]
    BY <1>3 DEF TableAfter
  <2>2. \A hs, cs : HeadsAfter(t, hs) = hs /\ CellsAfter(t, cs) = cs
    BY <1>3 DEF HeadsAfter, CellsAfter
  <2> HIDE DEF tb
  <2>3. /\ Restored(j, i).table = tb /\ Restored(j, i).heads = [heads EXCEPT ![j] = ErasedHeads]
        /\ Restored(j, i).cells = [cells EXCEPT ![j] = ErasedCells]
    BY DEF Restored, tb
  <2> QED
    BY <1>4, <1>6, <2>1, <2>2, <2>3 DEF Apply, Restored
<1> HIDE DEF tb
<1>7. ASSUME i + 1 = j \/ table[i + 1] = NoName PROVE Restored(j, i) = Restored(j, i + 1)
  BY <1>5, <1>7 DEF Restored, tb
<1> QED
  BY <1>6, <1>7 DEF t

\* One turn of the loop that writes the table back.
LEMMA BackTurnRuns ==
  ASSUME Ready, NEW s \in Spaces, NEW j \in Slots, j = Slot(s), table[j] = s, NEW ok,
         NEW k, k = ClearCall(s, ok), NEW i \in Nat, i + 1 \in Slots,
         NEW b \in Seq(FlashOps), Runs(Restored(j, 0), b, Restored(j, i), k, Contents)
  PROVE  /\ BackTurn(b, s, i + 1) \in Seq(FlashOps)
         /\ Runs(Restored(j, 0), BackTurn(b, s, i + 1), Restored(j, i + 1), k, Contents)
<1> DEFINE t == WriteSpace(i + 1, table[i + 1])
<1>1. CASE i + 1 = j \/ table[i + 1] = NoName
  <2>1. BackTurn(b, s, i + 1) = b
    BY <1>1 DEF BackTurn
  <2>2. Restored(j, i) = Restored(j, i + 1)
    BY <1>1, ApplyRestore
  <2> QED
    BY <2>1, <2>2
<1>2. CASE ~(i + 1 = j \/ table[i + 1] = NoName)
  <2>1. BackTurn(b, s, i + 1) = Append(b, t)
    BY <1>2 DEF BackTurn
  <2>2. t \in FlashOps
    <3>1. table[i + 1] \in Spaces
      BY <1>2 DEF Ready, Tables
    <3> QED
      BY <3>1 DEF WriteSpace, FlashOps
  <2>3. Apply(t, Restored(j, i)) = Restored(j, i + 1)
    BY <1>2, ApplyRestore
  <2> DEFINE a == <<t>>
             u == Append(b, t)
  <2> HIDE DEF t
  <2>4. Both(u, b, a) /\ u \in Seq(FlashOps)
    BY <2>2, OneMore
  <2>5. CutAllowed(Restored(j, i), k, Contents)
    BY RestoredMayBeCut
  <2>6. Runs(Restored(j, i), a, Restored(j, i + 1), k, Contents)
    <3>1. Runs(Restored(j, i), a, Apply(t, Restored(j, i)), k, Contents)
      BY <2>2, <2>5, RunOne
    <3> QED
      BY <2>3, <3>1
  <2> HIDE DEF a, u
  <2>7. Runs(Restored(j, 0), u, Restored(j, i + 1), k, Contents)
    BY <2>4, <2>6, RunOn
  <2> QED
    BY <2>1, <2>4, <2>7 DEF u
<1> QED
  BY <1>1, <1>2

\* All turns.
LEMMA BackAllRuns ==
  ASSUME Ready, NEW s \in Spaces, NEW j \in Slots, j = Slot(s), table[j] = s, NEW ok,
         NEW k, k = ClearCall(s, ok), NEW b, b = WriteBack(s)[SpaceSlots]
  PROVE  b \in Seq(FlashOps) /\ Runs(Restored(j, 0), b, Restored(j, SpaceSlots), k, Contents)
<1> DEFINE W == WriteBack(s)
           S == {i \in Nat : i <= SpaceSlots =>
                   /\ W[i] \in Seq(FlashOps)
                   /\ Runs(Restored(j, 0), W[i], Restored(j, i), k, Contents)}
<1>1. W[0] = <<>> /\ \A i \in Slots : W[i] = BackTurn(W[i - 1], s, i)
  BY BackTurnsAll
<1> HIDE DEF W
<1>2. 0 \in S
  <2> DEFINE w == W[0]
  <2>1. w \in Seq(FlashOps) /\ Len(w) = 0
    BY <1>1
  <2> HIDE DEF w
  <2>2. Runs(Restored(j, 0), w, Restored(j, 0), k, Contents)
    BY <2>1, RunNone
  <2> QED
    BY <2>1, <2>2 DEF w
<1>3. ASSUME NEW i \in Nat, i \in S PROVE i + 1 \in S
  <2> SUFFICES ASSUME i + 1 <= SpaceSlots
               PROVE  /\ W[i + 1] \in Seq(FlashOps)
                      /\ Runs(Restored(j, 0), W[i + 1], Restored(j, i + 1), k, Contents)
    OBVIOUS
  <2>1. i <= SpaceSlots /\ i + 1 \in Slots /\ (i + 1) - 1 = i
    BY MatterFlashAssumption DEF Slots
  <2>2. W[i] \in Seq(FlashOps) /\ Runs(Restored(j, 0), W[i], Restored(j, i), k, Contents)
    BY <1>3, <2>1
  <2>3. W[i + 1] = BackTurn(W[i], s, i + 1)
    BY <1>1, <2>1
  <2> QED
    BY <2>1, <2>2, <2>3, BackTurnRuns
<1> HIDE DEF S
<1>4. SpaceSlots \in S
  BY <1>2, <1>3, Induction, MatterFlashAssumption
<1> QED
  BY <1>4, MatterFlashAssumption DEF S, W

\* Three operations.
LEMMA RunThree ==
  ASSUME NEW f, NEW x \in FlashOps, NEW y \in FlashOps, NEW z \in FlashOps, NEW k, NEW H,
         NEW f1, f1 = Apply(x, f), NEW f2, f2 = Apply(y, f1), NEW f3, f3 = Apply(z, f2),
         CutAllowed(f, k, H), CutAllowed(f1, k, H), CutAllowed(f2, k, H),
         NEW td, td = <<x, y, z>>
  PROVE  Runs(f, td, f3, k, H)
<1> DEFINE tr == [i \in 0 .. 3 |->
                    IF i = 0 THEN f ELSE IF i = 1 THEN f1 ELSE IF i = 2 THEN f2 ELSE f3]
<1>1. tr[0] = f /\ tr[1] = f1 /\ tr[2] = f2 /\ tr[3] = f3
  OBVIOUS
<1>2. Len(td) = 3 /\ td[1] = x /\ td[2] = y /\ td[3] = z
  OBVIOUS
<1> HIDE DEF tr
<1>3. 1 - 1 = 0 /\ 2 - 1 = 1 /\ 3 - 1 = 2
  OBVIOUS
<1>4. \A i \in 1 .. Len(td) : tr[i] = Apply(td[i], tr[i - 1]) /\ CutAllowed(tr[i - 1], k, H)
  <2> SUFFICES ASSUME NEW i \in 1 .. 3
               PROVE  tr[i] = Apply(td[i], tr[i - 1]) /\ CutAllowed(tr[i - 1], k, H)
    BY <1>2
  <2>1. CASE i = 1
    BY <1>1, <1>2, <1>3, <2>1
  <2>2. CASE i = 2
    BY <1>1, <1>2, <1>3, <2>2
  <2>3. CASE i = 3
    BY <1>1, <1>2, <1>3, <2>3
  <2> QED
    BY <2>1, <2>2, <2>3
<1>5. Trace(tr, f, td, f3, k, H)
  BY <1>1, <1>2, <1>4 DEF Trace
<1> QED
  BY <1>5 DEF Runs

\* bK_clear_namespace.
LEMMA PlanClearRuns ==
  ASSUME Ready, NEW s \in Spaces, NEW fails, NEW plan, plan = PlanClear(s, fails),
         NEW k, k = ClearCall(s, plan.ok)
  PROVE  Leads(Flash, plan.todo, k, Contents)
<1> DEFINE ok == plan.ok
           td == plan.todo
           j == Slot(s)
           b == WriteBack(s)[SpaceSlots]
           x == EraseNames(j)
           y == EraseData(j)
           z == EraseTable
           c == cells[j]
           f1 == In(Flash, j, ErasedHeads, c)
           f2 == In(Flash, j, ErasedHeads, ErasedCells)
           f3 == Restored(j, 0)
           a == <<x, y, z>>
<1>1. k.kind = "clear" /\ k.space = s /\ k.ok = ok
  BY DEF ClearCall
<1>2. CASE SlotsFound(s, fails) = {}
  <2>1. PlanClear(s, fails) = [ok |-> FALSE, todo |-> <<>>]
    BY <1>2 DEF PlanClear, Nothing
  <2>2. ok = FALSE /\ td = <<>>
    BY <2>1
  <2>3. Len(td) = 0 /\ ~ok
    BY <2>2
  <2> HIDE DEF td, ok
  <2>4. Leads(Flash, td, k, Contents)
    BY <1>1, <2>3, Unchanged
  <2> QED
    BY <2>4 DEF td
<1>3. CASE SlotsFound(s, fails) # {}
  <2>1. j \in Slots /\ table[j] = s
    BY <1>3, SlotFound, FoundOrNot
  <2>2. PlanClear(s, fails) = [ok |-> TRUE, todo |-> a \o b]
    BY <1>3 DEF PlanClear
  <2>3. ok = TRUE /\ td = a \o b
    <3> HIDE DEF a, b
    <3> QED
      BY <2>2
  <2>4. x \in FlashOps /\ y \in FlashOps /\ z \in FlashOps
    BY <2>1 DEF EraseNames, EraseData, EraseTable, FlashOps
  <2>5. j = Slot(s)
    OBVIOUS
  <2> HIDE DEF b, ok, td, j
  <2>6. ok /\ k = ClearCall(s, ok)
    BY <2>3 DEF ok
  <2>7. /\ Flash \in Flashes /\ Flash.table = table /\ Flash.heads = heads /\ Flash.cells = cells
        /\ table \in Tables /\ heads \in HeadTables /\ cells \in CellTables
    BY FlashParts DEF Ready
  <2>8. heads[j] \in SlotHeads /\ c \in SlotCells
        /\ ErasedHeads \in SlotHeads /\ ErasedCells \in SlotCells
    BY <2>1, <2>7 DEF HeadTables, CellTables, SlotHeads, SlotCells, ErasedHeads, ErasedCells,
                      CellValues, Blank, Mixed
  <2>9. Apply(x, Flash) = f1
    <3>1. In(Flash, j, Flash.heads[j], Flash.cells[j]) = Flash
      BY <2>1, <2>7, <2>8, InSlot
    <3>2. Apply(EraseNames(j), In(Flash, j, heads[j], c)) = In(Flash, j, ErasedHeads, c)
      BY <2>1, <2>7, <2>8, ApplyEraseNames
    <3> QED
      BY <2>7, <3>1, <3>2
  <2>10. Apply(y, f1) = f2
    BY <2>1, <2>7, <2>8, ApplyEraseData
  <2>11. Apply(z, f2) = f3
    <3>1. z.op = "erase table"
      BY DEF EraseTable
    <3> HIDE DEF z
    <3>2. \A tb, hs, cs : /\ TableAfter(z, tb) = [l \in Slots |-> NoName]
                          /\ HeadsAfter(z, hs) = hs /\ CellsAfter(z, cs) = cs
      BY <3>1 DEF TableAfter, HeadsAfter, CellsAfter
    <3>3. [l \in Slots |-> NoName] = TableFrom(j, 0)
      <4>1. \A l \in Slots : ~(l <= 0)
        BY DEF Slots
      <4> QED
        BY <4>1 DEF TableFrom
    <3> QED
      BY <2>7, <3>2, <3>3 DEF Apply, In, Restored
  <2>12. CutAllowed(Flash, k, Contents)
    BY Unchanged
  <2>13. ASSUME NEW e \in SlotCells PROVE CutAllowed(In(Flash, j, ErasedHeads, e), k, Contents)
    <3> DEFINE N == ContentsAs(In(Flash, j, ErasedHeads, e))
               dirty == DirtyAs(ErasedHeads, e)
    <3>1. Based(Flash, Contents, s, j)
      BY <2>1, BasedThere
    <3>2. Becoming(Contents, N, s, ContentAs(ErasedHeads, e))
      BY <2>1, <2>8, <3>1, SlotChange
    <3>3. ContentAs(ErasedHeads, e) = Contract!Holds(Contract!Nothing, dirty) /\ dirty \in BOOLEAN
      BY ErasedContent
    <3> HIDE DEF N, dirty
    <3>4. ClearCut(Contents, N, s)
      BY <3>2, <3>3 DEF ClearCut
    <3> QED
      BY <1>1, <3>4 DEF CutAllowed, N
  <2>14. CutAllowed(f1, k, Contents) /\ CutAllowed(f2, k, Contents)
    BY <2>8, <2>13
  <2>15. a = <<x, y, z>>
    OBVIOUS
  <2> HIDE DEF x, y, z, f1, f2, f3
  <2>16. Runs(Flash, a, f3, k, Contents)
    <3> HIDE DEF a
    <3> QED
      BY <2>4, <2>9, <2>10, <2>11, <2>12, <2>14, <2>15, RunThree
  <2>17. b \in Seq(FlashOps) /\ Runs(f3, b, Restored(j, SpaceSlots), k, Contents)
    BY <2>1, <2>5, <2>6, BackAllRuns DEF b, f3
  <2>18. Both(td, a, b)
    <3>1. a \in Seq(FlashOps)
      BY <2>4
    <3> HIDE DEF a
    <3> QED
      BY <2>3, <2>17, <3>1, BothLists
  <2> HIDE DEF a
  <2>19. Runs(Flash, td, Restored(j, SpaceSlots), k, Contents)
    BY <2>16, <2>17, <2>18, RunOn
  <2>20. ReturnAllowed(Restored(j, SpaceSlots), k, Contents)
    BY <2>1, <2>6, RestoredMayReturn
  <2> QED
    BY <2>19, <2>20 DEF Leads, td
<1> QED
  BY <1>2, <1>3

EraseCall(ok) == [kind |-> "erase", ok |-> ok]

\* The table and the first m sectors of names and d of data are erased.
Wiped(m, d) ==
  [table |-> [l \in Slots |-> NoName],
   heads |-> [l \in Slots |-> IF l <= m THEN ErasedHeads ELSE heads[l]],
   cells |-> [l \in Slots |-> IF l <= d THEN ErasedCells ELSE cells[l]]]

\* Then every namespace is lost.
LEMMA WipedMayBeCut ==
  ASSUME Ready, NEW m, NEW d, \A l \in Slots : l <= d => l <= m, NEW ok, NEW k, k = EraseCall(ok)
  PROVE  CutAllowed(Wiped(m, d), k, Contents)
<1> DEFINE f == Wiped(m, d)
           lost == {t \in Spaces : \A l \in Slots : f.table[l] # t}
           N == ContentsAs(f)
<1>1. /\ Flash \in Flashes /\ Flash.table = table /\ Flash.heads = heads /\ Flash.cells = cells
      /\ OneSlot(table)
  BY FlashParts DEF Ready
<1>2. f.table \in Tables /\ \A l \in Slots : f.table[l] = NoName
  BY DEF Wiped, Tables
<1>3. ASSUME NEW l \in Slots
      PROVE  f.heads[l] = ErasedHeads \/ (f.heads[l] = heads[l] /\ f.cells[l] = cells[l])
  BY DEF Wiped
<1>4. lost = Spaces
  BY <1>2, MatterFlashAssumption
<1> HIDE DEF f
<1>5. Losing(Contents, N, lost)
  BY <1>1, <1>2, <1>3, Lost, ContentsOfFlash
<1> HIDE DEF lost
<1>6. Losing(Contents, N, Spaces)
  BY <1>4, <1>5
<1>7. k.kind = "erase"
  BY DEF EraseCall
<1>8. CutAllowed(f, k, Contents)
  BY <1>6, <1>7 DEF CutAllowed
<1> QED
  BY <1>8 DEF f

\* When all is erased nothing is stored.
LEMMA WipedMayReturn ==
  ASSUME NEW ok, ok, NEW k, k = EraseCall(ok)
  PROVE  ReturnAllowed(Wiped(SpaceSlots, SpaceSlots), k, Contents)
<1> DEFINE f == Wiped(SpaceSlots, SpaceSlots)
           N == ContentsAs(f)
<1>1. \A l \in Slots : l <= SpaceSlots
  BY MatterFlashAssumption DEF Slots
<1>2. /\ \A l \in Slots : f.table[l] = NoName
      /\ \A l \in Slots : f.heads[l] = ErasedHeads /\ f.cells[l] = ErasedCells
  BY <1>1 DEF Wiped
<1> HIDE DEF f
<1>3. \A s \in Spaces : SlotsAs(f.table, s) = {}
  BY <1>2, MatterFlashAssumption DEF SlotsAs
<1>4. N.store = [s \in Spaces |-> NoSpace]
  BY <1>3 DEF ContentsAs, StoreAs
<1>5. N.orphans = {}
  <2> SUFFICES ASSUME NEW x \in OrphansAs(f) PROVE FALSE
    BY DEF ContentsAs
  <2>1. x # [NoSpace EXCEPT !.there = TRUE]
    BY DEF OrphansAs
  <2>2. PICK l \in SlotsAs(f.table, NoName) : x = ContentAs(f.heads[l], f.cells[l])
    BY DEF OrphansAs
  <2>3. l \in Slots
    BY DEF SlotsAs
  <2>4. x = ContentAs(ErasedHeads, ErasedCells)
    BY <1>2, <2>2, <2>3
  <2>5. x = Contract!Holds(Contract!Nothing, DirtyAs(ErasedHeads, ErasedCells))
    BY <2>4, ErasedContent
  <2>6. DirtyAs(ErasedHeads, ErasedCells) = FALSE
    BY ErasedContent
  <2> QED
    BY <2>1, <2>5, <2>6, NothingStored DEF Contract!Empty
<1> HIDE DEF N
<1>6. k.kind = "erase" /\ k.ok = ok
  BY DEF EraseCall
<1>7. EraseDone(N)
  BY <1>4, <1>5 DEF EraseDone
<1>8. ReturnAllowed(f, k, Contents)
  BY <1>6, <1>7 DEF ReturnAllowed, N
<1> QED
  BY <1>8 DEF f

\* One more sector erased.
LEMMA ApplyWipe ==
  ASSUME Ready, NEW i \in Slots, NEW m
  PROVE  /\ Wiped(i, m) = Apply(EraseNames(i), Wiped(i - 1, m))
         /\ Wiped(m, i) = Apply(EraseData(i), Wiped(m, i - 1))
<1>1. \A l \in Slots : l # i => (l <= i <=> l <= i - 1)
  BY DEF Slots
<1>2. i <= i /\ ~(i <= i - 1)
  BY DEF Slots
<1> DEFINE H(p) == [l \in Slots |-> IF l <= p THEN ErasedHeads ELSE heads[l]]
           C(p) == [l \in Slots |-> IF l <= p THEN ErasedCells ELSE cells[l]]
           t == EraseNames(i)
           u == EraseData(i)
<1>3. H(i) = [H(i - 1) EXCEPT ![i] = ErasedHeads] /\ C(i) = [C(i - 1) EXCEPT ![i] = ErasedCells]
  BY <1>1, <1>2
<1>4. t.op = "erase names" /\ t.slot = i /\ u.op = "erase data" /\ u.slot = i
  BY DEF EraseNames, EraseData
<1> HIDE DEF t, u
<1>5. \A tb, hs, cs : /\ TableAfter(t, tb) = tb
                      /\ HeadsAfter(t, hs) = [hs EXCEPT ![i] = ErasedHeads]
                      /\ CellsAfter(t, cs) = cs
  BY <1>4 DEF TableAfter, HeadsAfter, CellsAfter
<1>6. \A tb, hs, cs : /\ TableAfter(u, tb) = tb /\ HeadsAfter(u, hs) = hs
                      /\ CellsAfter(u, cs) = [cs EXCEPT ![i] = ErasedCells]
  BY <1>4 DEF TableAfter, HeadsAfter, CellsAfter
<1>7. \A p, q : /\ Wiped(p, q)
                     = [table |-> [l \in Slots |-> NoName], heads |-> H(p), cells |-> C(q)]
                /\ Wiped(p, q).table = [l \in Slots |-> NoName]
                /\ Wiped(p, q).heads = H(p) /\ Wiped(p, q).cells = C(q)
  BY DEF Wiped
<1> HIDE DEF H, C
<1>8. Wiped(i, m) = Apply(t, Wiped(i - 1, m))
  BY <1>3, <1>5, <1>7 DEF Apply
<1>9. Wiped(m, i) = Apply(u, Wiped(m, i - 1))
  BY <1>3, <1>6, <1>7 DEF Apply
<1> QED
  BY <1>8, <1>9 DEF t, u

\* bk_erase_all.
LEMMA PlanEraseAllRuns ==
  ASSUME Ready, NEW plan, plan = PlanEraseAll, NEW k, k = EraseCall(plan.ok)
  PROVE  Leads(Flash, plan.todo, k, Contents)
<1> DEFINE M == SpaceSlots
           t == EraseTable
           a == <<t>>
           A == [j \in Slots |-> EraseNames(j)]
           B == [j \in Slots |-> EraseData(j)]
           ok == plan.ok
           td == plan.todo
<1>1. ok = TRUE /\ td = (a \o A) \o B
  <2> HIDE DEF A, B
  <2> QED
    BY DEF PlanEraseAll, A, B
<1>2. M \in Nat \ {0} /\ Slots = 1 .. M
  BY MatterFlashAssumption DEF Slots
<1>3. /\ A \in Seq(FlashOps) /\ Len(A) = M /\ \A i \in Slots : A[i] = EraseNames(i)
      /\ B \in Seq(FlashOps) /\ Len(B) = M /\ \A i \in Slots : B[i] = EraseData(i)
  <2>1. \A i \in Slots : EraseNames(i) \in FlashOps /\ EraseData(i) \in FlashOps
    BY DEF EraseNames, EraseData, FlashOps
  <2> QED
    BY <1>2, <2>1
<1>4. t \in FlashOps /\ a \in Seq(FlashOps)
  <2>1. t \in FlashOps
    BY DEF EraseTable, FlashOps
  <2> HIDE DEF t
  <2> QED
    BY <2>1
<1>5. Apply(t, Flash) = Wiped(0, 0)
  <2>1. t.op = "erase table"
    BY DEF EraseTable
  <2> HIDE DEF t
  <2>2. \A tb, hs, cs : /\ TableAfter(t, tb) = [l \in Slots |-> NoName]
                        /\ HeadsAfter(t, hs) = hs /\ CellsAfter(t, cs) = cs
    BY <2>1 DEF TableAfter, HeadsAfter, CellsAfter
  <2>3. \A l \in Slots : ~(l <= 0)
    BY DEF Slots
  <2>4. /\ Flash.table = table /\ Flash.heads = heads /\ Flash.cells = cells
        /\ heads = [l \in Slots |-> heads[l]] /\ cells = [l \in Slots |-> cells[l]]
    BY FlashParts DEF Ready, HeadTables, CellTables
  <2>5. /\ [l \in Slots |-> IF l <= 0 THEN ErasedHeads ELSE heads[l]] = heads
        /\ [l \in Slots |-> IF l <= 0 THEN ErasedCells ELSE cells[l]] = cells
    BY <2>3, <2>4
  <2> QED
    BY <2>2, <2>4, <2>5 DEF Apply, Wiped
<1>6. \A i \in Slots : ~(i <= 0)
  BY <1>2
<1> HIDE DEF t, A, B, ok, td
<1>7. Runs(Flash, a, Wiped(0, 0), k, Contents)
  <2>1. Runs(Flash, a, Apply(t, Flash), k, Contents)
    BY <1>4, Unchanged, RunOne
  <2> QED
    BY <1>5, <2>1
<1>8. Runs(Wiped(0, 0), A, Wiped(M, 0), k, Contents)
  <2> DEFINE tr == [i \in 0 .. M |-> Wiped(i, 0)]
  <2>1. \A i \in 0 .. M : tr[i] = Wiped(i, 0)
    OBVIOUS
  <2> HIDE DEF tr
  <2>2. tr[0] = Wiped(0, 0) /\ tr[M] = Wiped(M, 0)
    BY <1>2, <2>1
  <2>3. ASSUME NEW i \in 1 .. M
        PROVE  tr[i] = Apply(A[i], tr[i - 1]) /\ CutAllowed(tr[i - 1], k, Contents)
    <3>1. i \in Slots /\ i \in 0 .. M /\ i - 1 \in 0 .. M
      BY <1>2
    <3>2. Wiped(i, 0) = Apply(EraseNames(i), Wiped(i - 1, 0))
      BY <3>1, ApplyWipe
    <3>3. CutAllowed(Wiped(i - 1, 0), k, Contents)
      <4>1. k = EraseCall(ok) /\ \A l \in Slots : l <= 0 => l <= i - 1
        BY <1>6 DEF ok
      <4> QED
        BY <4>1, WipedMayBeCut
    <3> QED
      BY <1>3, <2>1, <3>1, <3>2, <3>3
  <2>4. Trace(tr, Wiped(0, 0), A, Wiped(M, 0), k, Contents)
    BY <1>3, <2>2, <2>3 DEF Trace
  <2> QED
    BY <2>4 DEF Runs
<1>9. Runs(Wiped(M, 0), B, Wiped(M, M), k, Contents)
  <2> DEFINE tr == [i \in 0 .. M |-> Wiped(M, i)]
  <2>1. \A i \in 0 .. M : tr[i] = Wiped(M, i)
    OBVIOUS
  <2> HIDE DEF tr
  <2>2. tr[0] = Wiped(M, 0) /\ tr[M] = Wiped(M, M)
    BY <1>2, <2>1
  <2>3. ASSUME NEW i \in 1 .. M
        PROVE  tr[i] = Apply(B[i], tr[i - 1]) /\ CutAllowed(tr[i - 1], k, Contents)
    <3>1. i \in Slots /\ i \in 0 .. M /\ i - 1 \in 0 .. M
      BY <1>2
    <3>2. Wiped(M, i) = Apply(EraseData(i), Wiped(M, i - 1))
      BY <3>1, ApplyWipe
    <3>3. CutAllowed(Wiped(M, i - 1), k, Contents)
      <4>1. k = EraseCall(ok) /\ \A l \in Slots : l <= i - 1 => l <= M
        BY <1>2 DEF ok
      <4> QED
        BY <4>1, WipedMayBeCut
    <3> QED
      BY <1>3, <2>1, <3>1, <3>2, <3>3
  <2>4. Trace(tr, Wiped(M, 0), B, Wiped(M, M), k, Contents)
    BY <1>3, <2>2, <2>3 DEF Trace
  <2> QED
    BY <2>4 DEF Runs
<1> HIDE DEF a
<1> DEFINE aA == a \o A
<1>10. Both(aA, a, A) /\ aA \in Seq(FlashOps)
  BY <1>3, <1>4, BothLists
<1> HIDE DEF aA
<1>11. Both(td, aA, B)
  <2>1. td = aA \o B
    BY <1>1 DEF aA
  <2> QED
    BY <1>3, <1>10, <2>1, BothLists
<1>12. Runs(Flash, aA, Wiped(M, 0), k, Contents)
  BY <1>7, <1>8, <1>10, RunOn
<1>13. Runs(Flash, td, Wiped(M, M), k, Contents)
  BY <1>9, <1>11, <1>12, RunOn
<1>14. ReturnAllowed(Wiped(M, M), k, Contents)
  <2>1. k = EraseCall(ok) /\ ok
    BY <1>1 DEF ok
  <2> QED
    BY <2>1, WipedMayReturn
<1> QED
  BY <1>13, <1>14 DEF Leads, td

-----------------------------------------------------------------------------
(* The invariant, and the contract. *)

\* What the store held when the last call ended is what flash held when the call in
\* progress began, and a run that its promise allows is still ahead of it.
Promised ==
  /\ held = [store |-> held.store, orphans |-> held.orphans]
  /\ call = Idle => Len(todo) = 0 /\ held = Contents
  /\ call # Idle => Leads(Flash, todo, call, held)

\* All that until something is doubled.
ContractInvariant == MatterInvariant /\ (doubled = {} => Promised)

\* The invariant gives what the calls need to know of flash.
LEMMA InvariantReady ==
  ASSUME ContractInvariant, doubled = {}
  PROVE  Ready /\ Promised /\ todo \in Seq(FlashOps)
<1>1. Once = Spaces \union Names
  BY DEF Once
<1>2. /\ table \in Tables /\ heads \in HeadTables /\ cells \in CellTables
      /\ todo \in Seq(FlashOps) /\ OneSlotOf(table, Once)
      /\ \A j \in Slots : /\ heads[j] \in [Entries -> Headers \union {Free}]
                          /\ OneEntryOf(heads[j], Once) /\ Apart(heads[j])
  BY DEF ContractInvariant, MatterInvariant, Types, HeadTables, CellTables, Tables
<1>3. OneSlot(table) /\ \A j \in Slots : OneEntry(heads[j])
  BY <1>1, <1>2, AllInOnePlace
<1> QED
  BY <1>2, <1>3 DEF Ready, ContractInvariant

\* What flash holds has the form that the contract speaks of.
LEMMA ContentsForm == Contents = [store |-> Contents.store, orphans |-> Contents.orphans]
BY DEF Contents

\* Erased flash holds nothing.
LEMMA PromisedInit == Init => Promised /\ Contract!Init
<1> SUFFICES ASSUME Init PROVE Promised /\ Contract!Init
  OBVIOUS
<1>1. /\ table = [j \in Slots |-> NoName] /\ heads = [j \in Slots |-> ErasedHeads]
      /\ cells = [j \in Slots |-> ErasedCells] /\ call = Idle /\ Len(todo) = 0
      /\ held = NoContents /\ doubled = {}
  BY DEF Init
<1> DEFINE N == ContentsAs(Flash)
<1>2. \A s \in Spaces : SlotsAs(Flash.table, s) = {}
  BY <1>1, MatterFlashAssumption DEF SlotsAs, Flash
<1>3. N.store = [s \in Spaces |-> NoSpace]
  BY <1>2 DEF ContentsAs, StoreAs
<1>4. N.orphans = {}
  <2> SUFFICES ASSUME NEW x \in OrphansAs(Flash) PROVE FALSE
    BY DEF ContentsAs
  <2>1. x # [NoSpace EXCEPT !.there = TRUE]
    BY DEF OrphansAs
  <2>2. PICK l \in SlotsAs(Flash.table, NoName) : x = ContentAs(Flash.heads[l], Flash.cells[l])
    BY DEF OrphansAs
  <2>3. l \in Slots
    BY DEF SlotsAs
  <2>4. x = ContentAs(ErasedHeads, ErasedCells)
    BY <1>1, <2>2, <2>3 DEF Flash
  <2>5. x = Contract!Holds(Contract!Nothing, DirtyAs(ErasedHeads, ErasedCells))
    BY <2>4, ErasedContent
  <2>6. DirtyAs(ErasedHeads, ErasedCells) = FALSE
    BY ErasedContent
  <2> QED
    BY <2>1, <2>5, <2>6, NothingStored DEF Contract!Empty
<1> HIDE DEF N
<1>5. Contents = [store |-> N.store, orphans |-> N.orphans]
  BY ContentsOfFlash, ContentsForm DEF N
<1>6. held.store = [s \in Spaces |-> NoSpace] /\ held.orphans = {} /\ held = Contents
  BY <1>1, <1>3, <1>4, <1>5 DEF NoContents
<1>7. Promised
  BY <1>1, <1>6, ContentsForm DEF Promised
<1>8. Contract!Idle = Idle /\ Contract!NoSpace = NoSpace
  BY NothingStored DEF Idle, Contract!Idle
<1>9. Contract!Init
  BY <1>1, <1>6, <1>8 DEF Contract!Init
<1> QED
  BY <1>7, <1>9

\* A call that begins changes nothing yet, and its plan is a run that its promise
\* allows.
LEMMA BeginPromised ==
  ASSUME Promised, NEW c \in Contract!Calls, NEW plan, Begin(c, plan, {}),
         Leads(Flash, plan.todo, c, Contents)
  PROVE  Promised' /\ Contract!Begin
<1>1. /\ call = Idle /\ call' = c /\ todo' = plan.todo /\ table' = table /\ heads' = heads
      /\ cells' = cells /\ held' = held /\ doubled' = doubled
  BY DEF Begin, flashVars
<1>2. held = Contents /\ held = [store |-> held.store, orphans |-> held.orphans]
  BY <1>1 DEF Promised
<1>3. c # Idle
  <2>1. c.kind \in {"write", "clean", "ensure", "clear", "erase"}
    BY DEF Contract!Calls
  <2>2. Idle.kind = "idle"
    BY DEF Idle
  <2> QED
    BY <2>1, <2>2
<1>4. Flash' = Flash
  BY <1>1 DEF Flash
<1>5. Leads(Flash', todo', call', held')
  BY <1>1, <1>2, <1>4
<1>6. Promised'
  BY <1>1, <1>2, <1>3, <1>5 DEF Promised
<1>7. Contract!Idle = Idle
  BY DEF Idle, Contract!Idle
<1>8. Contract!Begin
  BY <1>1, <1>7 DEF Contract!Begin, Contract!Unchanged
<1> QED
  BY <1>6, <1>8

\* What a write makes twice is there: the namespace, or a value in the slot that
\* the namespace is going to get.
LEMMA TwiceThere ==
  ASSUME Ready, NEW s \in Spaces, NEW n \in Names, NEW fails,
         SpaceTwice(s, fails) \/ NameTwice(s, n, fails)
  PROVE  Contents.store[s].there \/ Contents.orphans # {}
<1>1. CASE SlotsOf(s) # {}
  BY <1>1 DEF Contents, Content
<1>2. CASE SlotsOf(s) = {}
  <2> DEFINE j == Min(NewSlots)
             h == heads[j]
             c == cells[j]
  <2>1. SlotsFound(s, fails) = {} /\ NameTwice(s, n, fails)
    BY <1>2, FoundOrNot DEF SpaceTwice
  <2>2. PlanEnsure(s, fails).ok /\ InUse(heads[SlotFor(s, fails)], n) # {}
    BY <2>1 DEF NameTwice
  <2>3. NewSlots # {} /\ InUse(h, n) # {}
    BY <2>1, <2>2 DEF PlanEnsure, Nothing, SlotFor
  <2>4. NewSlots \subseteq Nat /\ NewSlots \subseteq Slots
    BY DEF NewSlots, Slots
  <2>5. j \in NewSlots /\ j \in Slots
    BY <2>3, <2>4, MinLeast
  <2>6. h \in SlotHeads
    BY <2>5 DEF Ready, HeadTables, SlotHeads
  <2>7. Content(j) = ContentAs(h, c)
    BY DEF Content, ContentAs, ReadIn, ReadAs, Clean, Data, DataAs, Dirty, DirtyAs
  <2> HIDE DEF h, c, j
  <2>8. ContentAs(h, c).values[n] # <<>>
    <3>1. ContentAs(h, c).values = [m \in Names |-> ReadAs(h, c, m)]
      BY ContentParts
    <3>2. ReadAs(h, c, n) # <<>>
      BY <2>3, <2>6, ReadSomething
    <3> QED
      BY <3>1, <3>2
  <2> DEFINE none == [NoSpace EXCEPT !.there = TRUE]
  <2>9. none.values[n] = <<>>
    BY DEF NoSpace
  <2>10. Content(j) \in {Content(l) : l \in NewSlots} \ {none}
    <3> HIDE DEF none
    <3> QED
      BY <2>5, <2>7, <2>8, <2>9
  <2> QED
    BY <2>10 DEF Contents
<1> QED
  BY <1>1, <1>2

\* A call that makes something twice gives the contract up.
LEMMA BeginTwice ==
  ASSUME Promised, NEW s, NEW c \in Contract!Calls, c.kind \in {"write", "ensure"}, c.space = s,
         NEW plan, NEW twice, twice # {}, Begin(c, plan, twice),
         Contents.store[s].there \/ Contents.orphans # {}
  PROVE  doubled' # {} /\ Contract!GiveUp
<1>1. call = Idle /\ call' = c /\ held' = held /\ doubled' = doubled \union twice
  BY DEF Begin
<1>2. held = Contents
  BY <1>1 DEF Promised
<1>3. Contract!Idle = Idle
  BY DEF Idle, Contract!Idle
<1>4. doubled' # {}
  BY <1>1
<1> QED
  BY <1>1, <1>2, <1>3, <1>4 DEF Contract!GiveUp, Contract!Unchanged

\* A call begins as the contract has it, or gives it up.
Begun ==
  \/ doubled' = {} /\ Promised' /\ Contract!Begin
  \/ doubled' # {} /\ Contract!GiveUp

\* The calls that take a namespace.
LEMMA CallsPromised ==
  ASSUME ContractInvariant, doubled = {}, NEW s \in Spaces
  PROVE  /\ BkEnsureNamespace(s) => Begun
         /\ BkClearNamespace(s) => Begun
         /\ \A n \in Names : BkWriteData(s, n) => Begun
         /\ \A n \in Names : BkCleanData(s, n) => Begun
<1>1. /\ Ready /\ Promised
      /\ heads \in HeadTables /\ cells \in [Slots -> [Offsets -> CellValues]] /\ table \in Tables
      /\ \A j \in Slots : Apart(heads[j])
  BY InvariantReady DEF Ready, CellTables
<1>2. ASSUME NEW W
      PROVE  OneSlotOf(table, W) /\ \A j \in Slots : OneEntryOf(heads[j], W)
  BY <1>1, AnyInOnePlace DEF Ready, OneSlot, OneSlotOf
<1>3. ASSUME NEW c, NEW plan, Begin(c, plan, {}) PROVE doubled' = {}
  BY <1>3 DEF Begin
<1>4. ASSUME BkEnsureNamespace(s) PROVE Begun
  <2>1. PICK fails \in Failures :
          Begin(EnsureCall(s, PlanEnsure(s, fails).ok), PlanEnsure(s, fails),
                {x \in {s} : SpaceTwice(s, fails)})
    BY <1>4 DEF BkEnsureNamespace, EnsureCall
  <2> DEFINE plan == PlanEnsure(s, fails)
             c == EnsureCall(s, plan.ok)
             twice == {x \in {s} : SpaceTwice(s, fails)}
  <2>2. plan.ok \in BOOLEAN
    <3>1. Sound(plan, heads, table, {})
      <4>1. s \in {} => ~SpaceTwice(s, fails)
        OBVIOUS
      <4> QED
        BY <4>1, PlanEnsureSound
    <3> QED
      BY <3>1 DEF Sound
  <2>3. c \in Contract!Calls /\ c.kind = "ensure" /\ c.space = s
    <3> HIDE DEF plan
    <3> QED
      BY <2>2 DEF Contract!Calls, EnsureCall
  <2>4. Begin(c, plan, twice)
    BY <2>1
  <2>5. CASE SpaceTwice(s, fails)
    <3>1. twice # {}
      BY <2>5
    <3>2. Contents.store[s].there
      BY <2>5 DEF SpaceTwice, Contents, Content
    <3> HIDE DEF c, plan, twice
    <3> QED
      BY <1>1, <2>3, <2>4, <3>1, <3>2, BeginTwice DEF Begun
  <2>6. CASE ~SpaceTwice(s, fails)
    <3>1. twice = {}
      BY <2>6
    <3>2. Leads(Flash, plan.todo, c, Contents)
      BY <1>1, <2>6, PlanEnsureRuns
    <3> HIDE DEF c, plan, twice
    <3> QED
      BY <1>1, <1>3, <2>3, <2>4, <3>1, <3>2, BeginPromised DEF Begun
  <2> QED
    BY <2>5, <2>6
<1>5. ASSUME BkClearNamespace(s) PROVE Begun
  <2>1. PICK fails \in Failures :
          Begin(ClearCall(s, PlanClear(s, fails).ok), PlanClear(s, fails), {})
    BY <1>5 DEF BkClearNamespace, ClearCall
  <2> DEFINE plan == PlanClear(s, fails)
             c == ClearCall(s, plan.ok)
  <2>2. Sound(plan, heads, table, {})
    BY <1>1, <1>2, PlanClearSound
  <2>3. Begin(c, plan, {})
    BY <2>1
  <2>4. Leads(Flash, plan.todo, c, Contents)
    BY <1>1, PlanClearRuns
  <2> HIDE DEF plan
  <2>5. c \in Contract!Calls
    BY <2>2 DEF Sound, Contract!Calls, ClearCall
  <2> QED
    BY <1>1, <1>3, <2>3, <2>4, <2>5, BeginPromised DEF Begun
<1>6. ASSUME NEW n \in Names, BkWriteData(s, n) PROVE Begun
  <2>1. PICK v \in Values, fails \in Failures :
          Begin(WriteCall(s, n, v, PlanWrite(s, n, v, fails).ok), PlanWrite(s, n, v, fails),
                {x \in {s} : SpaceTwice(s, fails)} \union {x \in {n} : NameTwice(s, n, fails)})
    BY <1>6 DEF BkWriteData, WriteCall
  <2> DEFINE plan == PlanWrite(s, n, v, fails)
             c == WriteCall(s, n, v, plan.ok)
             twice == {x \in {s} : SpaceTwice(s, fails)}
                        \union {x \in {n} : NameTwice(s, n, fails)}
  <2>2. plan.ok \in BOOLEAN
    <3>1. Sound(plan, heads, table, {})
      <4>1. (s \in {} => ~SpaceTwice(s, fails)) /\ (n \in {} => ~NameTwice(s, n, fails))
        OBVIOUS
      <4> QED
        BY <1>1, <1>2, <4>1, PlanWriteSound
    <3> QED
      BY <3>1 DEF Sound
  <2>3. c \in Contract!Calls /\ c.kind = "write" /\ c.space = s
    <3> HIDE DEF plan
    <3> QED
      BY <2>2 DEF Contract!Calls, WriteCall
  <2>4. Begin(c, plan, twice)
    BY <2>1
  <2>5. CASE SpaceTwice(s, fails) \/ NameTwice(s, n, fails)
    <3>1. twice # {}
      BY <2>5
    <3>2. Contents.store[s].there \/ Contents.orphans # {}
      BY <1>1, <2>5, TwiceThere
    <3> HIDE DEF c, plan, twice
    <3> QED
      BY <1>1, <2>3, <2>4, <3>1, <3>2, BeginTwice DEF Begun
  <2>6. CASE ~SpaceTwice(s, fails) /\ ~NameTwice(s, n, fails)
    <3>1. twice = {}
      BY <2>6
    <3>2. Leads(Flash, plan.todo, c, Contents)
      BY <1>1, <2>6, PlanWriteRuns
    <3> HIDE DEF c, plan, twice
    <3> QED
      BY <1>1, <1>3, <2>3, <2>4, <3>1, <3>2, BeginPromised DEF Begun
  <2> QED
    BY <2>5, <2>6
<1>7. ASSUME NEW n \in Names, BkCleanData(s, n) PROVE Begun
  <2>1. PICK fails \in Failures :
          Begin(CleanCall(s, n, PlanClean(s, n, fails).ok), PlanClean(s, n, fails), {})
    BY <1>7 DEF BkCleanData, CleanCall
  <2> DEFINE plan == PlanClean(s, n, fails)
             c == CleanCall(s, n, plan.ok)
  <2>2. Sound(plan, heads, table, {})
    BY <1>1, <1>2, PlanCleanSound
  <2>3. Begin(c, plan, {})
    BY <2>1
  <2>4. Leads(Flash, plan.todo, c, Contents)
    BY <1>1, PlanCleanRuns
  <2> HIDE DEF plan
  <2>5. c \in Contract!Calls
    BY <2>2 DEF Sound, Contract!Calls, CleanCall
  <2> QED
    BY <1>1, <1>3, <2>3, <2>4, <2>5, BeginPromised DEF Begun
<1> QED
  BY <1>4, <1>5, <1>6, <1>7

\* A flash operation is the next one of the run, and nothing that the contract knows
\* of changes.
LEMMA FlashStepPromised ==
  ASSUME ContractInvariant, doubled = {}, FlashStep
  PROVE  Promised' /\ UNCHANGED Contract!vars
<1> DEFINE t == todo[1]
<1>1. /\ todo \in Seq(FlashOps) /\ todo # <<>> /\ todo' = Tail(todo) /\ Head(todo) = t
      /\ Len(todo) # 0
  BY InvariantReady, Rest DEF FlashStep
<1>2. call' = call /\ held' = held /\ doubled' = doubled
  BY DEF FlashStep
<1>3. call # Idle /\ Leads(Flash, todo, call, held)
  BY <1>1 DEF ContractInvariant, Promised
<1>4. /\ table' = TableAfter(t, table) /\ heads' = HeadsAfter(t, heads)
      /\ cells' = CellsAfter(t, cells)
  <2>1. table' = TableAfter(t, table) /\ heads' = HeadsAfter(t, heads)
    BY <1>1 DEF FlashStep, HeadsAfter, TableAfter
  <2>2. t \in FlashOps /\ cells \in CellTables
    BY <1>1, Rest, InvariantReady DEF Ready
  <2>3. cells' = CASE t.op = "data" ->
                          [cells EXCEPT ![t.slot] = Written(cells[t.slot], t.off, t.data)]
                     [] t.op = "erase data" -> [cells EXCEPT ![t.slot] = ErasedCells]
                     [] OTHER -> cells
    BY <1>1 DEF FlashStep, Written
  <2> QED
    BY <2>1, <2>3 DEF CellsAfter
<1>5. Flash' = Apply(t, Flash)
  BY <1>4 DEF Flash, Apply
<1>6. PICK g : Runs(Flash, todo, g, call, held) /\ ReturnAllowed(g, call, held)
  BY <1>3 DEF Leads
<1>7. Runs(Apply(t, Flash), Tail(todo), g, call, held)
  BY <1>1, <1>6, RunRest
<1>8. Runs(Flash', todo', g, call', held') /\ ReturnAllowed(g, call', held')
  BY <1>1, <1>2, <1>5, <1>6, <1>7
<1>9. Leads(Flash', todo', call', held')
  BY <1>8 DEF Leads
<1>10. Promised'
  BY <1>2, <1>3, <1>9 DEF ContractInvariant, Promised
<1> QED
  BY <1>2, <1>10 DEF Contract!vars

\* When a call ends, what flash holds becomes what the store held.
LEMMA EndPromised ==
  ASSUME UNCHANGED flashVars, call' = Idle, held' = Contents, Len(todo') = 0
  PROVE  Promised' /\ held' = ContentsAs(Flash)
<1>1. table' = table /\ heads' = heads /\ cells' = cells
  BY DEF flashVars
<1>2. Flash' = Flash
  BY <1>1 DEF Flash
<1>3. Contents' = Contents
  <2>1. Contents = ContentsAs(Flash)
    BY ContentsOfFlash
  <2>2. (Contents = ContentsAs(Flash))'
    BY ContentsOfFlash, PTL
  <2> QED
    BY <2>2, <1>2, <2>1
<1> QED
  BY <1>3, ContentsOfFlash, ContentsForm DEF Promised

\* A call returns with the answer that the contract allows.
LEMMA ReturnPromised ==
  ASSUME ContractInvariant, doubled = {}, Return
  PROVE  Promised' /\ Contract!Return
<1>1. /\ call # Idle /\ Len(todo) = 0 /\ call' = Idle /\ held' = Contents /\ todo' = todo
      /\ UNCHANGED flashVars /\ doubled' = doubled
  BY DEF Return
<1>2. /\ Leads(Flash, todo, call, held) /\ call \in Contract!Calls
      /\ held = [store |-> held.store, orphans |-> held.orphans]
  BY <1>1 DEF ContractInvariant, MatterInvariant, Types, Promised
<1>3. PICK g : Runs(Flash, todo, g, call, held) /\ ReturnAllowed(g, call, held)
  BY <1>2 DEF Leads
<1>4. g = Flash
  BY <1>1, <1>3 DEF Runs, Trace
<1>5. Promised' /\ held' = ContentsAs(Flash)
  BY <1>1, EndPromised
<1>6. Contract!Return
  BY <1>1, <1>2, <1>3, <1>4, <1>5, ReturnIsContracts
<1> QED
  BY <1>5, <1>6

\* A power cut leaves what the contract allows.
LEMMA PowerCutPromised ==
  ASSUME ContractInvariant, doubled = {}, PowerCut
  PROVE  Promised' /\ Contract!Cut
<1>1. /\ todo # <<>> /\ call' = Idle /\ held' = Contents /\ Len(todo') = 0
      /\ UNCHANGED flashVars /\ doubled' = doubled
  BY DEF PowerCut
<1>2. todo \in Seq(FlashOps) /\ Len(todo) # 0
  BY <1>1, InvariantReady, Rest
<1>3. call # Idle
  BY <1>2 DEF ContractInvariant, Promised
<1>4. /\ Leads(Flash, todo, call, held) /\ call \in Contract!Calls
      /\ held = [store |-> held.store, orphans |-> held.orphans]
  BY <1>3 DEF ContractInvariant, MatterInvariant, Types, Promised
<1>5. PICK g : Runs(Flash, todo, g, call, held)
  BY <1>4 DEF Leads
<1>6. CutAllowed(Flash, call, held)
  BY <1>1, <1>2, <1>5, RunRest
<1>7. Promised' /\ held' = ContentsAs(Flash)
  BY <1>1, EndPromised
<1>8. Contract!Cut
  BY <1>1, <1>4, <1>6, <1>7, CutIsContracts
<1> QED
  BY <1>7, <1>8

\* What is doubled stays so.
LEMMA DoubledStays == [Next]_vars => doubled \subseteq doubled'
<1> SUFFICES ASSUME [Next]_vars PROVE doubled \subseteq doubled'
  OBVIOUS
<1>1. ASSUME NEW c, NEW plan, NEW twice, Begin(c, plan, twice) PROVE doubled \subseteq doubled'
  BY <1>1 DEF Begin
<1>2. ASSUME NEW s \in Spaces, BkEnsureNamespace(s) PROVE doubled \subseteq doubled'
  BY <1>1, <1>2 DEF BkEnsureNamespace
<1>3. ASSUME NEW s \in Spaces, BkClearNamespace(s) PROVE doubled \subseteq doubled'
  BY <1>1, <1>3 DEF BkClearNamespace
<1>4. ASSUME NEW s \in Spaces, NEW n \in Names, BkWriteData(s, n)
      PROVE  doubled \subseteq doubled'
  BY <1>1, <1>4 DEF BkWriteData
<1>5. ASSUME NEW s \in Spaces, NEW n \in Names, BkCleanData(s, n)
      PROVE  doubled \subseteq doubled'
  BY <1>1, <1>5 DEF BkCleanData
<1>6. ASSUME BkEraseAll PROVE doubled \subseteq doubled'
  BY <1>1, <1>6 DEF BkEraseAll
<1>7. ASSUME FlashStep \/ Return \/ PowerCut \/ UNCHANGED vars PROVE doubled \subseteq doubled'
  BY <1>7 DEF FlashStep, Return, PowerCut, vars
<1> QED
  BY <1>2, <1>3, <1>4, <1>5, <1>6, <1>7 DEF Next

\* Until then every step keeps the promise and is a step of the contract or none at
\* all.
LEMMA PromisedNext ==
  ASSUME ContractInvariant, doubled = {}, [Next]_vars
  PROVE  (doubled' = {} => Promised') /\ [Contract!Next]_(Contract!vars)
<1>1. Begun => (doubled' = {} => Promised') /\ Contract!Next
  BY DEF Begun, Contract!Next, Contract!Promises
<1>2. ASSUME NEW s \in Spaces, BkEnsureNamespace(s) \/ BkClearNamespace(s) PROVE Begun
  BY <1>2, CallsPromised
<1>3. ASSUME NEW s \in Spaces, NEW n \in Names, BkWriteData(s, n) \/ BkCleanData(s, n)
      PROVE  Begun
  BY <1>3, CallsPromised
<1>4. ASSUME BkEraseAll PROVE Begun
  <2> DEFINE plan == PlanEraseAll
             c == EraseCall(plan.ok)
  <2>1. Begin(c, plan, {})
    BY <1>4 DEF BkEraseAll, EraseCall
  <2>2. c \in Contract!Calls
    BY DEF PlanEraseAll, Contract!Calls, EraseCall
  <2>3. Ready /\ Promised
    BY InvariantReady
  <2>4. Leads(Flash, plan.todo, c, Contents)
    BY <2>3, PlanEraseAllRuns
  <2> HIDE DEF c, plan
  <2>5. doubled' = {}
    BY <2>1 DEF Begin
  <2> QED
    BY <2>1, <2>2, <2>3, <2>4, <2>5, BeginPromised DEF Begun
<1>5. CASE FlashStep
  BY <1>5, FlashStepPromised
<1>6. CASE Return
  BY <1>6, ReturnPromised DEF Contract!Next, Contract!Promises
<1>7. CASE PowerCut
  BY <1>7, PowerCutPromised DEF Contract!Next, Contract!Promises
<1>8. CASE UNCHANGED vars
  <2>1. /\ table' = table /\ heads' = heads /\ cells' = cells /\ call' = call /\ todo' = todo
        /\ held' = held /\ doubled' = doubled
    BY <1>8 DEF vars, flashVars
  <2>2. Flash' = Flash
    BY <2>1 DEF Flash
  <2>3. Contents' = Contents
    <3>1. Contents = ContentsAs(Flash)
      BY ContentsOfFlash
    <3>2. (Contents = ContentsAs(Flash))'
      BY ContentsOfFlash, PTL
    <3> QED
      BY <3>2, <2>2, <3>1
  <2>4. call # Idle => Leads(Flash', todo', call', held')
    BY <2>1, <2>2 DEF ContractInvariant, Promised
  <2>5. Promised'
    BY <2>1, <2>3, <2>4 DEF ContractInvariant, Promised
  <2> QED
    BY <2>1, <2>5 DEF Contract!vars
<1> QED
  BY <1>1, <1>2, <1>3, <1>4, <1>5, <1>6, <1>7, <1>8 DEF Next

\* From then on the contract says nothing.
LEMMA GivenUpNext ==
  ASSUME doubled # {}, [Next]_vars
  PROVE  doubled' # {} /\ [Contract!Next]_(Contract!vars)
<1>1. doubled' # {}
  BY DoubledStays
<1> QED
  BY <1>1 DEF Contract!Next

\* The invariant holds at every moment, and each step is the contract's: the store
\* keeps what MatterStore promises, however small or full it is, wherever in a call
\* power fails and whichever allocations fail; the promise ends, as MatterStore says,
\* with a write that makes twice what its lookup had no memory to find.
THEOREM ContractKept == Spec => KeepsContract
<1>1. ContractInvariant /\ [Next]_vars => ContractInvariant' /\ [Contract!Next]_(Contract!vars)
  BY MatterNext, PromisedNext, GivenUpNext DEF ContractInvariant
<1>2. Init => ContractInvariant /\ Contract!Init
  BY MatterInit, PromisedInit DEF ContractInvariant
<1>3. Spec => Contract!Init /\ [][Contract!Next]_(Contract!vars)
  BY <1>1, <1>2, PTL DEF Spec
<1> QED
  BY <1>3 DEF KeepsContract, Contract!Spec
=============================================================================
