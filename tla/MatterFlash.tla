----------------------------- MODULE MatterFlash -----------------------------
(***************************************************************************)
(* The Matter flash store (flash_namespace_value.c).  Sector 0 is a table  *)
(* of namespaces; the namespace in slot j of it has a sector of names and  *)
(* a sector of data.  A name's header says where its data begins and how   *)
(* long it is; a header is masked, never rewritten, and the data of a new  *)
(* one begins behind the last header's.  When there is no room left both   *)
(* sectors are erased and what is still in use is written again.           *)
(*                                                                         *)
(* A call reads flash first and then issues flash operations, which its    *)
(* reads decide: it is modelled as the list of these operations, carried   *)
(* out one at a time.  Power may fail between any two of them; flash is    *)
(* what survives.  Each single write and erase is taken to be atomic.      *)
(*                                                                         *)
(* Every step of a call that reads a table allocates a copy of it.  A      *)
(* lookup that has no memory for its copy answers as if nothing were       *)
(* there, and the write that asked goes on to make it: doubled remembers   *)
(* what was given a second place in this way.                              *)
(*                                                                         *)
(* Flash is NOR flash: a write into a cell that is not erased leaves a     *)
(* mixture of both, here Mixed.                                            *)
(***************************************************************************)
EXTENDS Integers, Sequences, FiniteSets, FiniteSetsExt

CONSTANTS
  Spaces, Names,  \* names of namespaces and of values
  Values,         \* what may be written: sequences of positive numbers
  DataBuffer,     \* size of data_buf, into which bk_set_name_data reads a value back
  SpaceSlots,     \* FLASH_NAME_SPACE_MAX_ARRAY
  NameSlots,      \* FLASH_NAME_MAX_ARRAY
  SectorSize,     \* FLASH_SECTOR_SIZE
  MaxMishaps,     \* power cuts, and calls that double something, in a behaviour
  MaxFails        \* allocations that fail in one call

NoName == "no name"

ASSUME MatterFlashAssumption ==
  /\ SpaceSlots \in Nat \ {0} /\ NameSlots \in Nat \ {0} /\ SectorSize \in Nat \ {0}
  /\ MaxMishaps \in Nat /\ MaxFails \in Nat /\ DataBuffer \in Nat
  /\ Values \subseteq Seq(Nat \ {0}) /\ <<>> \notin Values
  /\ \A v \in Values : Len(v) <= DataBuffer
  /\ NoName \notin Spaces

VARIABLES
  table,   \* sector 0: the namespace in each slot, NoName where erased
  heads,   \* the headers of each namespace slot
  cells,   \* its data
  call,    \* the call in progress
  todo,    \* the flash operations it still has to issue
  held,    \* history: what the store held when the last call ended
  doubled, \* history: names and namespaces a write has set out to make twice
  mishaps

flashVars == <<table, heads, cells>>
vars == <<flashVars, call, todo, held, doubled, mishaps>>

Blank == 0
Mixed == -1
Slots == 1 .. SpaceSlots
Entries == 1 .. NameSlots
Offsets == 0 .. SectorSize - 1
Free == [flag |-> "unused", name |-> NoName, off |-> 0, len |-> 0]
ErasedHeads == [i \in Entries |-> Free]
ErasedCells == [o \in Offsets |-> Blank]
Idle == [kind |-> "idle"]

NoSpace == [there |-> FALSE, values |-> [n \in Names |-> <<>>], dirty |-> FALSE]
NoContents == [store |-> [s \in Spaces |-> NoSpace], orphans |-> {}]

Init ==
  /\ table = [j \in Slots |-> NoName]
  /\ heads = [j \in Slots |-> ErasedHeads]
  /\ cells = [j \in Slots |-> ErasedCells]
  /\ call = Idle /\ todo = <<>> /\ held = NoContents /\ doubled = {} /\ mishaps = 0

-----------------------------------------------------------------------------
(* Lookups: get_namespace_addr and get_name_addr take the first match.     *)

SlotsOf(s) == {j \in Slots : table[j] = s}
Slot(s) == Min(SlotsOf(s))
InUse(h, n) == {i \in Entries : h[i].flag = "using" /\ h[i].name = n}

\* The functions that allocate, and which of them fail in a call.
Allocations ==
  {"get_namespace_addr", "get_name_addr", "bk_set_namespace", "bk_set_name_data_new_addr"}
Failures == {fails \in SUBSET Allocations : Cardinality(fails) <= MaxFails}

\* What the lookups answer: without memory, that there is nothing.
SlotsFound(s, fails) == IF "get_namespace_addr" \in fails THEN {} ELSE SlotsOf(s)
EntriesFound(j, n, fails) == IF "get_name_addr" \in fails THEN {} ELSE InUse(heads[j], n)

Data(j, e) == [k \in 1 .. e.len |-> cells[j][e.off + k - 1]]

\* bk_read_data: what a name holds, nothing when it is not there.
ReadIn(j, n) ==
  IF InUse(heads[j], n) = {} THEN <<>>
  ELSE LET d == Data(j, heads[j][Min(InUse(heads[j], n))])
       IN  IF \E k \in 1 .. Len(d) : d[k] = Mixed THEN <<Mixed>> ELSE d

-----------------------------------------------------------------------------
(* The flash operations of a call. *)

WriteSpace(j, s) == [op |-> "space", slot |-> j, name |-> s]
EraseTable == [op |-> "erase table"]
EraseNames(j) == [op |-> "erase names", slot |-> j]
EraseData(j) == [op |-> "erase data", slot |-> j]
WriteHead(j, i, e) == [op |-> "head", slot |-> j, entry |-> i, head |-> e]
WriteData(j, o, d) == [op |-> "data", slot |-> j, off |-> o, data |-> d]
Mask(j, i) == WriteHead(j, i, [heads[j][i] EXCEPT !.flag = "mask"])
Nothing(ok) == [ok |-> ok, todo |-> <<>>]
Using(n, o, d) == [flag |-> "using", name |-> n, off |-> o, len |-> Len(d)]
\* Mutant: the header first.
WriteEntryHeadFirst(j, i, n, o, d) == <<WriteHead(j, i, Using(n, o, d)), WriteData(j, o, d)>>
\* Data first: a header that a cut left behind always has its data.
WriteEntry(j, i, n, o, d) == <<WriteData(j, o, d), WriteHead(j, i, Using(n, o, d))>>

\* Mutant: a masked entry's data may be overwritten.
BehindUsing(h, i) ==
  LET last == {k \in 1 .. i - 1 : h[k].flag = "using"}
  IN  IF last = {} THEN 0 ELSE h[Max(last)].off + h[Max(last)].len
\* Where the data of entry i would begin: behind the entry before it.
Behind(h, i) == IF i = 1 THEN 0 ELSE h[i - 1].off + h[i - 1].len
FreeEntries(h) == {i \in Entries : h[i].flag = "unused"}

\* One turn of the loop of bk_reorganize_name_data: an entry in use is written
\* behind those already written, its data too.
PackEntry(p, j, e) ==
  IF e.flag # "using" THEN p
  ELSE [todo |-> p.todo \o WriteEntry(j, p.entry, e.name, p.off, Data(j, e)),
        entry |-> p.entry + 1, off |-> p.off + e.len]

\* The loop, after each number of turns: what it has to write, and where the next
\* entry and its data would go.
Packing(j, h) ==
  LET packed[i \in 0 .. NameSlots] ==
        IF i = 0 THEN [todo |-> <<EraseNames(j), EraseData(j)>>, entry |-> 1, off |-> 0]
        ELSE PackEntry(packed[i - 1], j, h[i])
  IN  packed

\* bk_reorganize_name_data: both sectors again, with what is in use packed, and
\* the new value if it fits behind that.
Reorganize(j, h, n, v) ==
  LET all == Packing(j, h)[NameSlots]
      fits == all.off + Len(v) < SectorSize
  IN  [ok |-> fits,
       todo |-> all.todo \o IF fits THEN WriteEntry(j, all.entry, n, all.off, v) ELSE <<>>]

\* Mutant: no look at the room that is left.
NewEntryAnywhere(j, h, n, v) ==
  LET i == Min(FreeEntries(h))
  IN  IF FreeEntries(h) # {} THEN [ok |-> TRUE, todo |-> WriteEntry(j, i, n, Behind(h, i), v)]
      ELSE Reorganize(j, h, n, v)

\* bk_set_name_data_new_addr on the headers h, without memory for its copy of
\* them it does nothing.
NewEntry(j, h, n, v) ==
  LET i == Min(FreeEntries(h))
      o == Behind(h, i)
  IN  IF FreeEntries(h) # {} /\ o + Len(v) < SectorSize
      THEN [ok |-> TRUE, todo |-> WriteEntry(j, i, n, o, v)]
      ELSE IF FreeEntries(h) # {} \/ \E e \in Entries : h[e].flag = "mask"
           THEN Reorganize(j, h, n, v)
           ELSE Nothing(FALSE)

\* Mutant: the old entry is masked when the new one is written.
SetNameDataMaskLast(j, n, v, fails) ==
  LET h == heads[j]
      i == Min(InUse(h, n))
      new == NewEntry(j, h, n, v)
  IN  IF EntriesFound(j, n, fails) = {} THEN new
      ELSE [new EXCEPT !.todo = @ \o <<Mask(j, i)>>]

\* bk_set_name_data: an entry with another value is masked before the new one
\* is looked for.
SetNameData(j, n, v, fails) ==
  LET h == heads[j]
      i == Min(InUse(h, n))
      new(g) == IF "bk_set_name_data_new_addr" \in fails THEN Nothing(FALSE)
                ELSE NewEntry(j, g, n, v)
      masked == new([h EXCEPT ![i].flag = "mask"])
  IN  IF EntriesFound(j, n, fails) = {} THEN new(h)
      ELSE IF Data(j, h[i]) = v THEN [ok |-> TRUE, todo |-> <<>>]
           ELSE [masked EXCEPT !.todo = <<Mask(j, i)>> \o @]

\* bk_set_namespace: the first slot that is not in use, whatever its sectors hold.
NewSlots == {j \in Slots : table[j] = NoName}

\* bk_ensure_namespace.
PlanEnsure(s, fails) ==
  IF SlotsFound(s, fails) # {} THEN Nothing(TRUE)
  ELSE IF NewSlots = {} \/ "bk_set_namespace" \in fails THEN Nothing(FALSE)
  ELSE [ok |-> TRUE, todo |-> <<WriteSpace(Min(NewSlots), s)>>]

\* bk_write_data.
SlotFor(s, fails) == IF SlotsFound(s, fails) # {} THEN Slot(s) ELSE Min(NewSlots)
PlanWrite(s, n, v, fails) ==
  LET space == PlanEnsure(s, fails)
      set == SetNameData(SlotFor(s, fails), n, v, fails)
  IN  IF ~space.ok THEN space ELSE [set EXCEPT !.todo = space.todo \o @]

\* A lookup did not find what is there, and the write goes on.
SpaceTwice(s, fails) ==
  SlotsOf(s) # {} /\ SlotsFound(s, fails) = {} /\ PlanEnsure(s, fails).ok
NameTwice(s, n, fails) ==
  LET j == SlotFor(s, fails)
  IN  /\ PlanEnsure(s, fails).ok
      /\ InUse(heads[j], n) # {} /\ EntriesFound(j, n, fails) = {}
      /\ "bk_set_name_data_new_addr" \notin fails

\* bk_clean_data.
PlanClean(s, n, fails) ==
  IF SlotsFound(s, fails) = {} \/ EntriesFound(Slot(s), n, fails) = {} THEN Nothing(FALSE)
  ELSE [ok |-> TRUE, todo |-> <<Mask(Slot(s), Min(InUse(heads[Slot(s)], n)))>>]

\* What bK_clear_namespace writes back of the first slots of the table.
WriteBack(s) ==
  LET back[i \in 0 .. SpaceSlots] ==
        IF i = 0 THEN <<>>
        ELSE IF i = Slot(s) \/ table[i] = NoName THEN back[i - 1]
        ELSE Append(back[i - 1], WriteSpace(i, table[i]))
  IN  back

\* bK_clear_namespace: the namespace's sectors, then the whole table, and the
\* other namespaces written back where they were.  Its own copy of the table and
\* the lookup's fail alike.
PlanClear(s, fails) ==
  IF SlotsFound(s, fails) = {} THEN Nothing(FALSE)
  ELSE [ok |-> TRUE,
        todo |-> <<EraseNames(Slot(s)), EraseData(Slot(s)), EraseTable>>
                 \o WriteBack(s)[SpaceSlots]]

\* bk_erase_all on the Matter partition: sector after sector.
PlanEraseAll ==
  [ok |-> TRUE,
   todo |-> <<EraseTable>> \o [j \in Slots |-> EraseNames(j)] \o [j \in Slots |-> EraseData(j)]]

-----------------------------------------------------------------------------
(* What the store holds, as the calls would read it.                       *)

EndOfData(h) == Behind(h, IF FreeEntries(h) = {} THEN NameSlots + 1 ELSE Min(FreeEntries(h)))
Dirty(j) == \E o \in Offsets : o >= EndOfData(heads[j]) /\ cells[j][o] # Blank
Content(j) ==
  [there |-> TRUE, values |-> [n \in Names |-> ReadIn(j, n)], dirty |-> Dirty(j)]
Contents ==
  [store |-> [s \in Spaces |-> IF SlotsOf(s) = {} THEN NoSpace ELSE Content(Slot(s))],
   orphans |-> {Content(j) : j \in NewSlots} \ {[NoSpace EXCEPT !.there = TRUE]}]

-----------------------------------------------------------------------------
\* A call reads flash, then carries out what it planned.
Begin(c, plan, twice) ==
  /\ call = Idle /\ (twice = {} \/ mishaps < MaxMishaps)
  /\ call' = c /\ todo' = plan.todo /\ doubled' = doubled \union twice
  /\ mishaps' = IF twice = {} THEN mishaps ELSE mishaps + 1
  /\ UNCHANGED <<flashVars, held>>

BkWriteData(s, n) ==
  \E v \in Values, fails \in Failures :
    LET plan == PlanWrite(s, n, v, fails)
    IN  Begin([kind |-> "write", space |-> s, name |-> n, value |-> v, ok |-> plan.ok], plan,
              {x \in {s} : SpaceTwice(s, fails)} \union {x \in {n} : NameTwice(s, n, fails)})
BkCleanData(s, n) ==
  \E fails \in Failures :
    LET plan == PlanClean(s, n, fails)
    IN  Begin([kind |-> "clean", space |-> s, name |-> n, ok |-> plan.ok], plan, {})
BkEnsureNamespace(s) ==
  \E fails \in Failures :
    LET plan == PlanEnsure(s, fails)
    IN  Begin([kind |-> "ensure", space |-> s, ok |-> plan.ok], plan,
              {x \in {s} : SpaceTwice(s, fails)})
BkClearNamespace(s) ==
  \E fails \in Failures :
    LET plan == PlanClear(s, fails)
    IN  Begin([kind |-> "clear", space |-> s, ok |-> plan.ok], plan, {})
BkEraseAll == Begin([kind |-> "erase", ok |-> PlanEraseAll.ok], PlanEraseAll, {})

Programmed(old, new) == IF old \in {Blank, new} THEN new ELSE Mixed

FlashStep ==
  /\ todo # <<>> /\ todo' = Tail(todo)
  /\ LET t == Head(todo) IN
       /\ table' = CASE t.op = "space" -> [table EXCEPT ![t.slot] = t.name]
                     [] t.op = "erase table" -> [j \in Slots |-> NoName]
                     [] OTHER -> table
       /\ heads' = CASE t.op = "head" -> [heads EXCEPT ![t.slot][t.entry] = t.head]
                     [] t.op = "erase names" -> [heads EXCEPT ![t.slot] = ErasedHeads]
                     [] OTHER -> heads
       /\ cells' = CASE t.op = "data" ->
                          [cells EXCEPT ![t.slot] = [o \in Offsets |->
                             IF o \in t.off .. t.off + Len(t.data) - 1
                             THEN Programmed(@[o], t.data[o - t.off + 1]) ELSE @[o]]]
                     [] t.op = "erase data" -> [cells EXCEPT ![t.slot] = ErasedCells]
                     [] OTHER -> cells
  /\ UNCHANGED <<call, held, doubled, mishaps>>

Return ==
  /\ call # Idle /\ todo = <<>>
  /\ call' = Idle /\ held' = Contents
  /\ UNCHANGED <<flashVars, todo, doubled, mishaps>>

PowerCut ==
  /\ todo # <<>> /\ mishaps < MaxMishaps
  /\ call' = Idle /\ todo' = <<>> /\ held' = Contents /\ mishaps' = mishaps + 1
  /\ UNCHANGED <<flashVars, doubled>>

Next ==
  \/ \E s \in Spaces : BkEnsureNamespace(s) \/ BkClearNamespace(s)
  \/ \E s \in Spaces, n \in Names : BkWriteData(s, n) \/ BkCleanData(s, n)
  \/ BkEraseAll \/ FlashStep \/ Return \/ PowerCut

Spec == Init /\ [][Next]_vars

-----------------------------------------------------------------------------
Contract == INSTANCE MatterStore
  WITH store <- held.store, orphans <- held.orphans, givenUp <- doubled # {}

\* Types of all state: every header in use lies inside its sector, also when a
\* reorganisation was cut or a lookup had no memory, and its value fits the buffer
\* it is read back into.
TypeOK ==
  /\ table \in [Slots -> Spaces \union {NoName}]
  /\ \A j \in Slots, i \in Entries :
       LET e == heads[j][i] IN
         \/ e = Free
         \/ e.flag \in {"using", "mask"} /\ e.name \in Names /\ e.len > 0
            /\ e.off >= 0 /\ e.off + e.len < SectorSize /\ e.len <= DataBuffer
  /\ \A j \in Slots, o \in Offsets : cells[j][o] >= Mixed
  /\ call \in {Idle} \union Contract!Calls
  /\ doubled \subseteq Spaces \union Names /\ mishaps \in 0 .. MaxMishaps

\* A name has one entry in use at most and a namespace one slot, at every
\* moment of a write, a reorganisation or a clear and after every cut: the
\* lookups take the first match, a second entry would hide later writes.  The one
\* exception is what a write doubled because its lookup had no memory; every other
\* name and namespace keeps its one place among those that are doubled.
OnePlace ==
  /\ \A j \in Slots, n \in Names \ doubled : Cardinality(InUse(heads[j], n)) <= 1
  /\ \A s \in Spaces \ doubled : Cardinality(SlotsOf(s)) <= 1

\* No two entries of a namespace share a cell, masked ones included: each begins
\* behind the one before it, which is how the place of a new one is found.
EntriesApart ==
  \A j \in Slots : \A i \in Entries : heads[j][i] # Free =>
    \A k \in 1 .. i - 1 :
      heads[j][k] # Free /\ heads[j][k].off + heads[j][k].len <= heads[j][i].off

\* Every call does what MatterStore promises of its answer, and a power cut
\* anywhere in it loses no more than that promise gives up: no other namespace,
\* no other name of the namespace unless both of its sectors were being
\* rewritten, no value that was never written unless a cut came before.  All of it
\* until a write, for want of memory in a lookup, makes what is there once more.
KeepsContract == Contract!Spec
=============================================================================
