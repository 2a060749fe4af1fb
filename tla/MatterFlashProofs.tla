-------------------------- MODULE MatterFlashProofs --------------------------
(***************************************************************************)
(* Proofs about MatterFlash for any numbers of namespaces, names, slots    *)
(* and entries and any sector size.  The invariants of flash hold between  *)
(* any two flash operations because of what the operations still to be     *)
(* done are: the inductive invariant says which ones a call may have left, *)
(* relative to what flash holds by then (Orderly).  That the loop of       *)
(* bk_reorganize_name_data plans such operations is shown by induction on  *)
(* the number of its turns.                                                *)
(*                                                                         *)
(* What a write doubles for want of memory has several places from then    *)
(* on.  The parts of the invariant that say that something has one place   *)
(* only say it of a set W of names and namespaces, those that nothing has  *)
(* doubled; the others hold of all.                                        *)
(***************************************************************************)
EXTENDS MatterFlash, FiniteSetTheorems, WellFoundedInduction, TLAPS

-----------------------------------------------------------------------------
(* The inductive invariant. *)

CellValues == {c \in Int : c >= Mixed}
Headers ==
  {e \in [flag : {"using", "mask"}, name : Names, off : Nat, len : Nat \ {0}] :
     e.off + e.len < SectorSize /\ e.len <= DataBuffer}
FlashOps ==
  [op : {"space"}, slot : Slots, name : Spaces]
    \union [op : {"erase table"}]
    \union [op : {"erase names", "erase data"}, slot : Slots]
    \union [op : {"head"}, slot : Slots, entry : Entries, head : Headers]
    \union {t \in [op : {"data"}, slot : Slots, off : Nat, data : Seq(CellValues)] :
              t.off + Len(t.data) < SectorSize}

Types ==
  /\ table \in [Slots -> Spaces \union {NoName}]
  /\ heads \in [Slots -> [Entries -> Headers \union {Free}]]
  /\ cells \in [Slots -> [Offsets -> CellValues]]
  /\ todo \in Seq(FlashOps)
  /\ call \in {Idle} \union Contract!Calls
  /\ doubled \subseteq Spaces \union Names /\ mishaps \in 0 .. MaxMishaps

\* The names and namespaces that are in one place.
Once == (Spaces \union Names) \ doubled

End(e) == e.off + e.len
NewAt(td, p) == td[p].op = "head" /\ td[p].head.flag = "using"
MaskAt(td, p) == td[p].op = "head" /\ td[p].head.flag = "mask"
EraseAt(td, p, j) == td[p].op = "erase names" /\ td[p].slot = j
NoErase(td, j) == \A p \in 1 .. Len(td) : ~EraseAt(td, p, j)

\* An entry is masked before anything else is done in its namespace.
MasksFirst(td, hs) ==
  \A p \in 1 .. Len(td) : MaskAt(td, p) =>
    /\ hs[td[p].slot][td[p].entry].flag = "using"
    /\ td[p].head = [hs[td[p].slot][td[p].entry] EXCEPT !.flag = "mask"]
    /\ \A q \in 1 .. p - 1 : td[q].op = "space"

\* Headers are erased before new ones are written.
ErasedFirst(td) ==
  \A p, e \in 1 .. Len(td) : NewAt(td, p) /\ EraseAt(td, e, td[p].slot) => e < p

\* New headers are written from the first to the last, their data one behind the
\* other, and with other names.
NewApart(td, W) ==
  \A p \in 1 .. Len(td) : \A q \in 1 .. p - 1 :
    NewAt(td, p) /\ NewAt(td, q) /\ td[q].slot = td[p].slot =>
      /\ td[q].entry < td[p].entry
      /\ End(td[q].head) <= td[p].head.off
      /\ td[p].head.name \in W => td[q].head.name # td[p].head.name

\* Every entry before a new one is written by then, with its data before that of
\* the new one.
NewBehind(td, hs) ==
  \A p \in 1 .. Len(td) : NewAt(td, p) =>
    \A k \in 1 .. td[p].entry - 1 :
      \/ \E q \in 1 .. p - 1 : NewAt(td, q) /\ td[q].slot = td[p].slot /\ td[q].entry = k
      \/ /\ NoErase(td, td[p].slot)
         /\ hs[td[p].slot][k] # Free /\ End(hs[td[p].slot][k]) <= td[p].head.off

\* No entry from the new one on is in flash, unless it is going to be erased.
NewFree(td, hs) ==
  \A p \in 1 .. Len(td) : NewAt(td, p) /\ NoErase(td, td[p].slot) =>
    \A k \in td[p].entry .. NameSlots : hs[td[p].slot][k] = Free

\* Nor is another one with its name in use, unless it is going to be masked.
NewAlone(td, hs, W) ==
  \A p \in 1 .. Len(td) :
    NewAt(td, p) /\ NoErase(td, td[p].slot) /\ td[p].head.name \in W =>
      \A k \in InUse(hs[td[p].slot], td[p].head.name) :
        \E q \in 1 .. p - 1 : MaskAt(td, q) /\ td[q].slot = td[p].slot /\ td[q].entry = k

\* A namespace is written into a table that does not hold it.
SpacesApart(td, tb, W) ==
  \A p \in 1 .. Len(td) : td[p].op = "space" /\ td[p].name \in W =>
    /\ \A q \in 1 .. p - 1 : td[q].op = "space" => td[q].name # td[p].name
    /\ \/ \E q \in 1 .. p - 1 : td[q].op = "erase table"
       \/ \A j \in Slots : tb[j] # td[p].name

Orderly(td, hs, tb, W) ==
  /\ MasksFirst(td, hs)
  /\ ErasedFirst(td)
  /\ NewApart(td, W)
  /\ NewBehind(td, hs)
  /\ NewFree(td, hs)
  /\ NewAlone(td, hs, W)
  /\ SpacesApart(td, tb, W)

\* OnePlace and EntriesApart about any headers.
OneEntryOf(h, W) ==
  \A k, l \in Entries :
    h[k].flag = "using" /\ h[l].flag = "using" /\ h[k].name = h[l].name /\ h[k].name \in W => k = l
Apart(h) ==
  \A i \in Entries : h[i] # Free =>
    \A k \in 1 .. i - 1 : h[k] # Free /\ End(h[k]) <= h[i].off
OneSlotOf(tb, W) ==
  \A j, l \in Slots : tb[j] = tb[l] /\ tb[j] # NoName /\ tb[j] \in W => j = l

MatterInvariant ==
  /\ Types
  /\ \A j \in Slots : OneEntryOf(heads[j], Once) /\ Apart(heads[j])
  /\ OneSlotOf(table, Once)
  /\ Orderly(todo, heads, table, Once)

-----------------------------------------------------------------------------
(* Numbers, sets and sequences. *)

Less == {pair \in Nat \X Nat : pair[1] < pair[2]}

\* The order of the natural numbers is well-founded.
LEMMA LessWellFounded == IsWellFoundedOn(Less, Nat)
<1>1. Less = OpToRel(<, Nat)
  BY DEF Less, OpToRel
<1> QED
  BY <1>1, NatLessThanWellFounded

\* A set of natural numbers that is not empty has a least one.
LEMMA Least ==
  ASSUME NEW S, S \subseteq Nat, S # {}
  PROVE  \E x \in S : \A y \in S : x <= y
<1>1. PICK x \in S : \A y \in S : ~(<<y, x>> \in Less)
  BY LessWellFounded, WFMin
<1>2. ASSUME NEW y \in S PROVE x <= y
  <2>1. x \in Nat /\ y \in Nat
    BY <1>2
  <2>2. ~(y < x)
    BY <1>1, <1>2, <2>1 DEF Less
  <2> QED
    BY <2>1, <2>2
<1> QED
  BY <1>2

\* Induction: a set that has 0 and with each number the next one has them all.
LEMMA Induction ==
  ASSUME NEW S, 0 \in S, \A n \in Nat : n \in S => n + 1 \in S
  PROVE  Nat \subseteq S
<1> SUFFICES ASSUME Nat \ S # {} PROVE FALSE
  OBVIOUS
<1>1. PICK x \in Nat \ S : \A y \in Nat \ S : x <= y
  BY Least
<1>2. x # 0 /\ x - 1 \in Nat
  BY <1>1
<1>3. x - 1 \in S
  BY <1>1, <1>2
<1>4. (x - 1) + 1 \in S
  BY <1>2, <1>3
<1>5. (x - 1) + 1 = x
  BY <1>2
<1> QED
  BY <1>1, <1>4, <1>5

\* Min gives the least number of a set, as the lookups use it.
LEMMA MinLeast ==
  ASSUME NEW S, S \subseteq Nat, S # {}
  PROVE  Min(S) \in S /\ \A y \in S : Min(S) <= y
BY Least DEF Min

\* A set has one element at most exactly when all its elements are equal.
LEMMA AtMostOne ==
  ASSUME NEW S, IsFiniteSet(S), \A x, y \in S : x = y
  PROVE  Cardinality(S) <= 1
<1>1. CASE S = {}
  BY <1>1, FS_EmptySet
<1>2. CASE S # {}
  <2>1. PICK x \in S : TRUE
    BY <1>2
  <2>2. S = {x}
    BY <2>1
  <2> QED
    BY <2>2, FS_Singleton
<1> QED
  BY <1>1, <1>2

\* The rest of a list of operations is the list, one position on.
LEMMA Rest ==
  ASSUME NEW td \in Seq(FlashOps), td # <<>>
  PROVE  /\ Tail(td) \in Seq(FlashOps) /\ Len(td) \in Nat \ {0}
         /\ Len(Tail(td)) = Len(td) - 1 /\ Head(td) = td[1] /\ td[1] \in FlashOps
         /\ \A p \in 1 .. Len(Tail(td)) : Tail(td)[p] = td[p + 1] /\ p + 1 \in 1 .. Len(td)
<1> Len(td) \in Nat \ {0}
  OBVIOUS
<1> QED
  OBVIOUS

-----------------------------------------------------------------------------
(* One flash operation. *)

HeadsAfter(t, hs) ==
  CASE t.op = "head" -> [hs EXCEPT ![t.slot][t.entry] = t.head]
    [] t.op = "erase names" -> [hs EXCEPT ![t.slot] = ErasedHeads]
    [] OTHER -> hs
TableAfter(t, tb) ==
  CASE t.op = "space" -> [tb EXCEPT ![t.slot] = t.name]
    [] t.op = "erase table" -> [j \in Slots |-> NoName]
    [] OTHER -> tb

HeadTables == [Slots -> [Entries -> Headers \union {Free}]]
Tables == [Slots -> Spaces \union {NoName}]

\* What an operation is, by its kind.
LEMMA OpTypes ==
  ASSUME NEW t \in FlashOps
  PROVE  /\ t.op \in {"space", "erase table", "erase names", "erase data", "head", "data"}
         /\ t.op = "space" => t.slot \in Slots /\ t.name \in Spaces
         /\ t.op = "erase names" => t.slot \in Slots
         /\ t.op = "erase data" => t.slot \in Slots
         /\ t.op = "head" => t.slot \in Slots /\ t.entry \in Entries /\ t.head \in Headers
         /\ t.op = "data" => /\ t.slot \in Slots /\ t.off \in Nat
                             /\ t.data \in Seq(CellValues) /\ t.off + Len(t.data) < SectorSize
BY DEF FlashOps

\* What a header is.
LEMMA HeaderTypes ==
  ASSUME NEW e \in Headers
  PROVE  /\ e.flag \in {"using", "mask"} /\ e.name \in Names /\ e.off \in Nat
         /\ e.len \in Nat \ {0} /\ End(e) \in Nat /\ End(e) < SectorSize /\ e.off < End(e)
         /\ e.len <= DataBuffer /\ e # Free
BY MatterFlashAssumption DEF Headers, Free, End

\* The headers after an operation, entry by entry.
LEMMA HeadsAfterOp ==
  ASSUME NEW hs \in HeadTables, NEW t \in FlashOps
  PROVE  /\ HeadsAfter(t, hs) \in HeadTables
         /\ \A j \in Slots, k \in Entries :
              HeadsAfter(t, hs)[j][k] =
                IF t.op = "head" /\ t.slot = j /\ t.entry = k THEN t.head
                ELSE IF t.op = "erase names" /\ t.slot = j THEN Free ELSE hs[j][k]
<1>1. CASE t.op = "head"
  <2>1. HeadsAfter(t, hs) = [hs EXCEPT ![t.slot] = [hs[t.slot] EXCEPT ![t.entry] = t.head]]
    BY <1>1 DEF HeadsAfter
  <2>2. t.slot \in Slots /\ t.entry \in Entries /\ t.head \in Headers
    BY <1>1, OpTypes
  <2>3. [hs[t.slot] EXCEPT ![t.entry] = t.head] \in [Entries -> Headers \union {Free}]
    BY <2>2 DEF HeadTables
  <2>4. HeadsAfter(t, hs) \in HeadTables
    BY <2>1, <2>2, <2>3 DEF HeadTables
  <2> QED
    BY <1>1, <2>1, <2>2, <2>4 DEF HeadTables
<1>2. CASE t.op = "erase names"
  <2>1. HeadsAfter(t, hs) = [hs EXCEPT ![t.slot] = ErasedHeads]
    BY <1>2 DEF HeadsAfter
  <2>2. ErasedHeads \in [Entries -> Headers \union {Free}] /\ t.slot \in Slots
    BY <1>2, OpTypes DEF ErasedHeads
  <2>3. \A k \in Entries : ErasedHeads[k] = Free
    BY DEF ErasedHeads
  <2>4. HeadsAfter(t, hs) \in HeadTables
    BY <2>1, <2>2 DEF HeadTables
  <2> QED
    BY <1>2, <2>1, <2>2, <2>3, <2>4 DEF HeadTables
<1>3. CASE t.op # "head" /\ t.op # "erase names"
  BY <1>3 DEF HeadsAfter
<1> QED
  BY <1>1, <1>2, <1>3

\* The last operation of a name is not overtaken by an erase of its headers.
LEMMA NoEraseAfterNew ==
  ASSUME NEW td \in Seq(FlashOps), td # <<>>, ErasedFirst(td), NewAt(td, 1)
  PROVE  NoErase(td, td[1].slot)
BY Rest DEF ErasedFirst, NoErase

\* An erase is still to come when it was to come and is not the first operation.
LEMMA RestNoErase ==
  ASSUME NEW td \in Seq(FlashOps), td # <<>>, NEW j
  PROVE  /\ NoErase(td, j) => NoErase(Tail(td), j)
         /\ NoErase(Tail(td), j) /\ ~EraseAt(td, 1, j) => NoErase(td, j)
<1> DEFINE u == Tail(td)
<1>1. \A p \in 1 .. Len(u) : EraseAt(u, p, j) <=> EraseAt(td, p + 1, j)
  BY Rest DEF EraseAt
<1>2. ASSUME NoErase(td, j) PROVE NoErase(u, j)
  BY <1>1, <1>2, Rest DEF NoErase
<1>3. ASSUME NoErase(u, j), ~EraseAt(td, 1, j) PROVE NoErase(td, j)
  <2> SUFFICES ASSUME NEW p \in 1 .. Len(td), EraseAt(td, p, j) PROVE FALSE
    BY DEF NoErase
  <2>1. p - 1 \in 1 .. Len(u) /\ (p - 1) + 1 = p
    BY <1>3, Rest
  <2> QED
    BY <1>1, <1>3, <2>1 DEF NoErase
<1> QED
  BY <1>2, <1>3

\* Each part of the order is kept when the first operation has been done: masks
\* come first.
LEMMA MasksFirstKept ==
  ASSUME NEW td \in Seq(FlashOps), td # <<>>, NEW hs \in HeadTables, MasksFirst(td, hs)
  PROVE  MasksFirst(Tail(td), HeadsAfter(td[1], hs))
<1> DEFINE u == Tail(td)
<1> SUFFICES ASSUME NEW p \in 1 .. Len(u), MaskAt(u, p)
             PROVE  /\ HeadsAfter(td[1], hs) = hs
                    /\ hs[u[p].slot][u[p].entry].flag = "using"
                    /\ u[p].head = [hs[u[p].slot][u[p].entry] EXCEPT !.flag = "mask"]
                    /\ \A q \in 1 .. p - 1 : u[q].op = "space"
  BY DEF MasksFirst
<1>1. u[p] = td[p + 1] /\ p + 1 \in 1 .. Len(td) /\ p \in Nat
  BY Rest
<1>2. MaskAt(td, p + 1)
  BY <1>1 DEF MaskAt
<1>3. \A q \in 1 .. p : td[q].op = "space"
  <2>1. \A q \in 1 .. (p + 1) - 1 : td[q].op = "space"
    BY <1>1, <1>2 DEF MasksFirst
  <2>2. (p + 1) - 1 = p
    BY <1>1
  <2> QED
    BY <2>1, <2>2
<1>4. \A q \in 1 .. p - 1 : u[q].op = "space"
  BY <1>1, <1>3, Rest
<1>5. td[1].op = "space"
  BY <1>1, <1>3, Rest
<1>6. HeadsAfter(td[1], hs) = hs
  BY <1>5 DEF HeadsAfter
<1> QED
  BY <1>1, <1>2, <1>4, <1>6 DEF MasksFirst

\* New headers stay apart and behind the erase.
LEMMA NewApartKept ==
  ASSUME NEW W, NEW td \in Seq(FlashOps), td # <<>>, NewApart(td, W), ErasedFirst(td)
  PROVE  NewApart(Tail(td), W) /\ ErasedFirst(Tail(td))
<1> DEFINE u == Tail(td)
<1>1. \A p \in 1 .. Len(u) : u[p] = td[p + 1] /\ p + 1 \in 1 .. Len(td) /\ p \in Nat
  BY Rest
<1>2. \A p \in 1 .. Len(u) : NewAt(u, p) <=> NewAt(td, p + 1)
  BY <1>1 DEF NewAt
<1>3. \A p \in 1 .. Len(u) : \A j : EraseAt(u, p, j) <=> EraseAt(td, p + 1, j)
  BY <1>1 DEF EraseAt
<1>4. ErasedFirst(u)
  BY <1>1, <1>2, <1>3 DEF ErasedFirst
<1>5. ASSUME NEW p \in 1 .. Len(u), NEW q \in 1 .. p - 1,
             NewAt(u, p), NewAt(u, q), u[q].slot = u[p].slot
      PROVE  /\ u[q].entry < u[p].entry
             /\ End(u[q].head) <= u[p].head.off
             /\ u[p].head.name \in W => u[q].head.name # u[p].head.name
  <2>1. q \in 1 .. Len(u) /\ q + 1 \in 1 .. (p + 1) - 1
    BY <1>1, <1>5
  <2>2. NewAt(td, p + 1) /\ NewAt(td, q + 1) /\ td[q + 1].slot = td[p + 1].slot
    BY <1>1, <1>2, <1>5, <2>1
  <2> QED
    BY <1>1, <2>1, <2>2 DEF NewApart
<1> QED
  BY <1>4, <1>5 DEF NewApart

\* What is in flash or written by then stays before a new entry.
LEMMA NewBehindKept ==
  ASSUME NEW W, NEW td \in Seq(FlashOps), td # <<>>, NEW hs \in HeadTables,
         MasksFirst(td, hs), ErasedFirst(td), NewApart(td, W), NewBehind(td, hs)
  PROVE  NewBehind(Tail(td), HeadsAfter(td[1], hs))
<1> DEFINE u == Tail(td)
           after == HeadsAfter(td[1], hs)
<1> SUFFICES ASSUME NEW p \in 1 .. Len(u), NewAt(u, p), NEW k \in 1 .. u[p].entry - 1,
                    ~\E q \in 1 .. p - 1 :
                       NewAt(u, q) /\ u[q].slot = u[p].slot /\ u[q].entry = k
             PROVE  /\ NoErase(u, u[p].slot)
                    /\ after[u[p].slot][k] # Free /\ End(after[u[p].slot][k]) <= u[p].head.off
  BY DEF NewBehind
<1>1. \A q \in 1 .. Len(u) : u[q] = td[q + 1] /\ q + 1 \in 1 .. Len(td) /\ q \in Nat
  BY Rest
<1>2. NewAt(td, p + 1) /\ td[p + 1] = u[p]
  BY <1>1 DEF NewAt
<1>3. td[1] \in FlashOps /\ td[p + 1] \in FlashOps /\ td[p + 1].op = "head"
  BY <1>1, <1>2, Rest DEF NewAt
<1>4. u[p].slot \in Slots /\ u[p].entry \in Entries /\ k \in Entries
  <2>1. u[p].slot \in Slots /\ u[p].entry \in Entries
    BY <1>2, <1>3, OpTypes
  <2> QED
    BY <2>1, MatterFlashAssumption DEF Entries
<1>5. /\ after \in HeadTables
      /\ \A j \in Slots, i \in Entries :
           after[j][i] = IF td[1].op = "head" /\ td[1].slot = j /\ td[1].entry = i THEN td[1].head
                         ELSE IF td[1].op = "erase names" /\ td[1].slot = j THEN Free ELSE hs[j][i]
  BY <1>3, HeadsAfterOp
<1>6. 1 \in 1 .. Len(td)
  BY Rest
<1>7. CASE NewAt(td, 1) /\ td[1].slot = u[p].slot /\ td[1].entry = k
  <2>1. NoErase(td, td[1].slot)
    BY <1>7, NoEraseAfterNew
  <2>2. NoErase(u, u[p].slot)
    BY <1>7, <2>1, RestNoErase
  <2>3. after[u[p].slot][k] = td[1].head
    BY <1>4, <1>7, <1>5 DEF NewAt
  <2>4. 1 \in 1 .. (p + 1) - 1
    BY <1>1
  <2>5. End(td[1].head) <= td[p + 1].head.off
    BY <1>1, <1>2, <1>7, <2>4 DEF NewApart
  <2>6. td[1].head # Free
    BY <1>7 DEF NewAt, Free
  <2> QED
    BY <1>2, <2>2, <2>3, <2>5, <2>6
<1>8. CASE ~(NewAt(td, 1) /\ td[1].slot = u[p].slot /\ td[1].entry = k)
  <2>1. ~\E q \in 1 .. (p + 1) - 1 :
          NewAt(td, q) /\ td[q].slot = td[p + 1].slot /\ td[q].entry = k
    <3> SUFFICES ASSUME NEW q \in 1 .. (p + 1) - 1, NewAt(td, q),
                        td[q].slot = td[p + 1].slot, td[q].entry = k
                 PROVE  FALSE
      OBVIOUS
    <3>1. q # 1
      BY <1>2, <1>8
    <3>2. q - 1 \in 1 .. p - 1 /\ q - 1 \in 1 .. Len(u) /\ (q - 1) + 1 = q
      BY <1>1, <3>1
    <3>3. u[q - 1] = td[q]
      BY <1>1, <3>2
    <3>4. NewAt(u, q - 1)
      BY <3>3 DEF NewAt
    <3> QED
      BY <1>2, <3>2, <3>3, <3>4
  <2>2. /\ NoErase(td, td[p + 1].slot)
        /\ hs[td[p + 1].slot][k] # Free /\ End(hs[td[p + 1].slot][k]) <= td[p + 1].head.off
    BY <1>1, <1>2, <2>1 DEF NewBehind
  <2>3. NoErase(u, u[p].slot)
    BY <1>2, <2>2, RestNoErase
  <2>4. CASE td[1].op = "head" /\ td[1].slot = u[p].slot /\ td[1].entry = k
    <3>1. td[1].head \in Headers
      BY <1>3, <2>4, OpTypes
    <3>2. MaskAt(td, 1)
      BY <1>8, <2>4, <3>1, HeaderTypes DEF MaskAt, NewAt
    <3>3. td[1].head = [hs[u[p].slot][k] EXCEPT !.flag = "mask"]
      BY <1>6, <2>4, <3>2 DEF MasksFirst
    <3>4. after[u[p].slot][k] = td[1].head
      BY <1>4, <1>5, <2>4
    <3>5. hs[u[p].slot][k] \in Headers
      BY <1>2, <1>4, <2>2 DEF HeadTables
    <3>6. End(td[1].head) = End(hs[u[p].slot][k])
      BY <3>3, <3>5 DEF End, Headers
    <3> QED
      BY <1>2, <2>2, <2>3, <3>1, <3>4, <3>6, HeaderTypes
  <2>5. CASE ~(td[1].op = "head" /\ td[1].slot = u[p].slot /\ td[1].entry = k)
    <3>1. ~EraseAt(td, 1, u[p].slot)
      BY <1>2, <2>2, Rest DEF NoErase
    <3>2. after[u[p].slot][k] = hs[u[p].slot][k]
      BY <1>4, <1>5, <2>5, <3>1 DEF EraseAt
    <3> QED
      BY <1>2, <2>2, <2>3, <3>2
  <2> QED
    BY <2>4, <2>5
<1> QED
  BY <1>7, <1>8

\* The entries from a new one on stay free, and its name alone.
LEMMA NewFreeKept ==
  ASSUME NEW W, NEW td \in Seq(FlashOps), td # <<>>, NEW hs \in HeadTables,
         MasksFirst(td, hs), NewApart(td, W), NewFree(td, hs)
  PROVE  NewFree(Tail(td), HeadsAfter(td[1], hs))
<1> DEFINE u == Tail(td)
           after == HeadsAfter(td[1], hs)
<1> SUFFICES ASSUME NEW p \in 1 .. Len(u), NewAt(u, p), NoErase(u, u[p].slot),
                    NEW k \in u[p].entry .. NameSlots
             PROVE  after[u[p].slot][k] = Free
  BY DEF NewFree
<1>1. \A q \in 1 .. Len(u) : u[q] = td[q + 1] /\ q + 1 \in 1 .. Len(td) /\ q \in Nat
  BY Rest
<1>2. NewAt(td, p + 1) /\ td[p + 1] = u[p]
  BY <1>1 DEF NewAt
<1>3. td[1] \in FlashOps /\ td[p + 1] \in FlashOps /\ td[p + 1].op = "head"
  BY <1>1, <1>2, Rest DEF NewAt
<1>4. u[p].slot \in Slots /\ u[p].entry \in Entries /\ k \in Entries
  <2>1. u[p].slot \in Slots /\ u[p].entry \in Entries
    BY <1>2, <1>3, OpTypes
  <2> QED
    BY <2>1, MatterFlashAssumption DEF Entries
<1>5. /\ after \in HeadTables
      /\ \A j \in Slots, i \in Entries :
           after[j][i] = IF td[1].op = "head" /\ td[1].slot = j /\ td[1].entry = i THEN td[1].head
                         ELSE IF td[1].op = "erase names" /\ td[1].slot = j THEN Free ELSE hs[j][i]
  BY <1>3, HeadsAfterOp
<1>6. 1 \in 1 .. Len(td)
  BY Rest
<1>7. CASE EraseAt(td, 1, u[p].slot)
  BY <1>4, <1>7, <1>5 DEF EraseAt
<1>8. CASE ~EraseAt(td, 1, u[p].slot)
  <2>1. NoErase(td, td[p + 1].slot)
    BY <1>2, <1>8, RestNoErase
  <2>2. hs[u[p].slot][k] = Free
    BY <1>1, <1>2, <2>1 DEF NewFree
  <2>3. ASSUME td[1].op = "head", td[1].slot = u[p].slot, td[1].entry = k PROVE FALSE
    <3>1. NewAt(td, 1) \/ MaskAt(td, 1)
      BY <1>3, <2>3, OpTypes, HeaderTypes DEF NewAt, MaskAt
    <3>2. CASE NewAt(td, 1)
      <4>1. 1 \in 1 .. (p + 1) - 1
        BY <1>1
      <4>2. td[1].entry < td[p + 1].entry
        BY <1>1, <1>2, <2>3, <3>2, <4>1 DEF NewApart
      <4> QED
        BY <1>2, <1>4, <2>3, <4>2, MatterFlashAssumption DEF Entries
    <3>3. CASE MaskAt(td, 1)
      <4>1. hs[td[1].slot][td[1].entry].flag = "using"
        BY <3>3, <1>6 DEF MasksFirst
      <4> QED
        BY <2>2, <2>3, <4>1 DEF Free
    <3> QED
      BY <3>1, <3>2, <3>3
  <2> QED
    BY <1>4, <1>8, <1>5, <2>2, <2>3 DEF EraseAt
<1> QED
  BY <1>7, <1>8

\* Another entry in use with the name of a new one is masked before it.
LEMMA NewAloneKept ==
  ASSUME NEW W, NEW td \in Seq(FlashOps), td # <<>>, NEW hs \in HeadTables,
         NewApart(td, W), NewAlone(td, hs, W)
  PROVE  NewAlone(Tail(td), HeadsAfter(td[1], hs), W)
<1> DEFINE u == Tail(td)
           after == HeadsAfter(td[1], hs)
<1> SUFFICES ASSUME NEW p \in 1 .. Len(u), NewAt(u, p), NoErase(u, u[p].slot),
                    u[p].head.name \in W,
                    NEW k \in InUse(after[u[p].slot], u[p].head.name)
             PROVE  \E q \in 1 .. p - 1 :
                      MaskAt(u, q) /\ u[q].slot = u[p].slot /\ u[q].entry = k
  BY DEF NewAlone
<1>1. \A q \in 1 .. Len(u) : u[q] = td[q + 1] /\ q + 1 \in 1 .. Len(td) /\ q \in Nat
  BY Rest
<1>2. NewAt(td, p + 1) /\ td[p + 1] = u[p]
  BY <1>1 DEF NewAt
<1>3. td[1] \in FlashOps /\ td[p + 1] \in FlashOps /\ td[p + 1].op = "head"
  BY <1>1, <1>2, Rest DEF NewAt
<1>4. /\ u[p].slot \in Slots /\ k \in Entries
      /\ after[u[p].slot][k].flag = "using" /\ after[u[p].slot][k].name = u[p].head.name
  BY <1>2, <1>3, OpTypes DEF InUse
<1>5. /\ after \in HeadTables
      /\ \A j \in Slots, i \in Entries :
           after[j][i] = IF td[1].op = "head" /\ td[1].slot = j /\ td[1].entry = i THEN td[1].head
                         ELSE IF td[1].op = "erase names" /\ td[1].slot = j THEN Free ELSE hs[j][i]
  BY <1>3, HeadsAfterOp
<1>6. ~EraseAt(td, 1, u[p].slot)
  <2> SUFFICES ASSUME EraseAt(td, 1, u[p].slot) PROVE FALSE
    OBVIOUS
  <2>1. td[1].op = "erase names" /\ td[1].slot = u[p].slot
    BY DEF EraseAt
  <2>2. after[u[p].slot][k] = Free
    BY <1>4, <1>5, <2>1
  <2> QED
    BY <1>4, <2>2 DEF Free
<1>7. NoErase(td, td[p + 1].slot)
  BY <1>2, <1>6, RestNoErase
<1>8. ~(td[1].op = "head" /\ td[1].slot = u[p].slot /\ td[1].entry = k)
  <2> SUFFICES ASSUME td[1].op = "head", td[1].slot = u[p].slot, td[1].entry = k PROVE FALSE
    OBVIOUS
  <2>1. NewAt(td, 1) /\ td[1].head.name = u[p].head.name
    BY <1>4, <1>5 DEF NewAt
  <2>2. 1 \in 1 .. (p + 1) - 1
    BY <1>1
  <2> QED
    BY <1>1, <1>2, <2>1, <2>2 DEF NewApart
<1>9. k \in InUse(hs[td[p + 1].slot], td[p + 1].head.name)
  <2>1. after[u[p].slot][k] = hs[u[p].slot][k]
    BY <1>4, <1>5, <1>6, <1>8 DEF EraseAt
  <2> QED
    BY <1>2, <1>4, <2>1 DEF InUse
<1>10. PICK q \in 1 .. (p + 1) - 1 :
         MaskAt(td, q) /\ td[q].slot = td[p + 1].slot /\ td[q].entry = k
  BY <1>1, <1>2, <1>7, <1>9 DEF NewAlone
<1>11. q # 1
  BY <1>2, <1>8, <1>10 DEF MaskAt
<1>12. q - 1 \in 1 .. p - 1 /\ q - 1 \in 1 .. Len(u) /\ (q - 1) + 1 = q
  BY <1>1, <1>11
<1>13. u[q - 1] = td[q]
  BY <1>1, <1>12
<1> QED
  BY <1>2, <1>10, <1>12, <1>13 DEF MaskAt

\* A namespace still to be written is not in the table, or the table is erased.
LEMMA SpacesApartKept ==
  ASSUME NEW W, NEW td \in Seq(FlashOps), td # <<>>, NEW tb \in Tables, SpacesApart(td, tb, W)
  PROVE  SpacesApart(Tail(td), TableAfter(td[1], tb), W)
<1> DEFINE u == Tail(td)
           after == TableAfter(td[1], tb)
<1> SUFFICES ASSUME NEW p \in 1 .. Len(u), u[p].op = "space", u[p].name \in W
             PROVE  /\ \A q \in 1 .. p - 1 : u[q].op = "space" => u[q].name # u[p].name
                    /\ \/ \E q \in 1 .. p - 1 : u[q].op = "erase table"
                       \/ \A j \in Slots : after[j] # u[p].name
  BY DEF SpacesApart
<1>1. \A q \in 1 .. Len(u) : u[q] = td[q + 1] /\ q + 1 \in 1 .. Len(td) /\ q \in Nat
  BY Rest
<1>2. td[1] \in FlashOps /\ u[p] \in FlashOps /\ td[p + 1] = u[p] /\ p + 1 \in 1 .. Len(td)
  BY <1>1, Rest
<1>3. u[p].name \in Spaces
  BY <1>2, OpTypes
<1>4. /\ \A q \in 1 .. (p + 1) - 1 : td[q].op = "space" => td[q].name # u[p].name
      /\ \/ \E q \in 1 .. (p + 1) - 1 : td[q].op = "erase table"
         \/ \A j \in Slots : tb[j] # u[p].name
  BY <1>2 DEF SpacesApart
<1>5. \A q \in 1 .. p - 1 : q \in 1 .. Len(u) /\ q + 1 \in 1 .. (p + 1) - 1
  BY <1>1
<1>6. \A q \in 1 .. p - 1 : u[q].op = "space" => u[q].name # u[p].name
  BY <1>1, <1>4, <1>5
<1>7. CASE td[1].op = "erase table"
  <2>1. \A j \in Slots : after[j] = NoName
    BY <1>7 DEF TableAfter
  <2> QED
    BY <1>3, <1>6, <2>1, MatterFlashAssumption
<1>8. CASE td[1].op # "erase table"
  <2>1. ASSUME NEW q \in 1 .. (p + 1) - 1, td[q].op = "erase table"
        PROVE  \E r \in 1 .. p - 1 : u[r].op = "erase table"
    <3>1. q # 1
      BY <1>8, <2>1
    <3>2. q - 1 \in 1 .. p - 1 /\ q - 1 \in 1 .. Len(u) /\ (q - 1) + 1 = q
      BY <1>1, <3>1
    <3> QED
      BY <1>1, <2>1, <3>2
  <2>2. ASSUME \A j \in Slots : tb[j] # u[p].name
        PROVE  \A j \in Slots : after[j] # u[p].name
    <3>1. CASE td[1].op = "space"
      <4>1. 1 \in 1 .. (p + 1) - 1
        BY <1>1
      <4>2. td[1].name # u[p].name
        BY <1>4, <3>1, <4>1
      <4> QED
        BY <2>2, <3>1, <4>2 DEF TableAfter, Tables
    <3>2. CASE td[1].op # "space"
      BY <1>8, <2>2, <3>2 DEF TableAfter
    <3> QED
      BY <3>1, <3>2
  <2> QED
    BY <1>4, <1>6, <2>1, <2>2
<1> QED
  BY <1>7, <1>8

\* So the operations that are left are in order with what flash holds by then.
LEMMA OrderlyKept ==
  ASSUME NEW W, NEW td \in Seq(FlashOps), td # <<>>, NEW hs \in HeadTables, NEW tb \in Tables,
         Orderly(td, hs, tb, W)
  PROVE  Orderly(Tail(td), HeadsAfter(td[1], hs), TableAfter(td[1], tb), W)
BY MasksFirstKept, NewApartKept, NewBehindKept, NewFreeKept, NewAloneKept, SpacesApartKept
   DEF Orderly

\* The first operation leaves the entries of each namespace one behind the other.
LEMMA ApartKept ==
  ASSUME NEW W, NEW td \in Seq(FlashOps), td # <<>>, NEW hs \in HeadTables, NEW tb \in Tables,
         Orderly(td, hs, tb, W), NEW j \in Slots, Apart(hs[j])
  PROVE  Apart(HeadsAfter(td[1], hs)[j])
<1> DEFINE t == td[1]
           after == HeadsAfter(t, hs)
<1>1. t \in FlashOps /\ 1 \in 1 .. Len(td)
  BY Rest
<1>2. /\ after \in HeadTables
      /\ \A l \in Slots, i \in Entries :
           after[l][i] = IF t.op = "head" /\ t.slot = l /\ t.entry = i THEN t.head
                         ELSE IF t.op = "erase names" /\ t.slot = l THEN Free ELSE hs[l][i]
  BY <1>1, HeadsAfterOp
<1>3. \A i \in Entries : \A k \in 1 .. i - 1 : k \in Entries
  BY MatterFlashAssumption DEF Entries
<1>4. CASE ~(t.op = "head" /\ t.slot = j)
  BY <1>2, <1>3, <1>4 DEF Apart
<1>5. CASE t.op = "head" /\ t.slot = j
  <2>1. t.entry \in Entries /\ t.head \in Headers /\ hs[j] \in [Entries -> Headers \union {Free}]
    BY <1>1, <1>5, OpTypes DEF HeadTables
  <2>2. \A i \in Entries : after[j][i] = IF t.entry = i THEN t.head ELSE hs[j][i]
    BY <1>2, <1>5
  <2>3. CASE MaskAt(td, 1)
    <3>1. t.head = [hs[j][t.entry] EXCEPT !.flag = "mask"] /\ hs[j][t.entry].flag = "using"
      BY <1>1, <1>5, <2>3 DEF Orderly, MasksFirst
    <3>2. hs[j][t.entry] \in Headers
      BY <2>1, <3>1 DEF Free
    <3>3. t.head.off = hs[j][t.entry].off /\ End(t.head) = End(hs[j][t.entry])
      BY <3>1, <3>2 DEF End, Headers
    <3>4. \A i \in Entries :
            /\ after[j][i] # Free <=> hs[j][i] # Free
            /\ after[j][i].off = hs[j][i].off /\ End(after[j][i]) = End(hs[j][i])
      BY <2>1, <2>2, <3>2, <3>3, HeaderTypes
    <3> QED
      BY <1>3, <3>4 DEF Apart
  <2>4. CASE NewAt(td, 1)
    <3>1. NoErase(td, j)
      BY <1>5, <2>4, NoEraseAfterNew DEF Orderly
    <3>2. \A k \in 1 .. t.entry - 1 : hs[j][k] # Free /\ End(hs[j][k]) <= t.head.off
      BY <1>1, <1>5, <2>4 DEF Orderly, NewBehind
    <3>3. \A k \in t.entry .. NameSlots : hs[j][k] = Free
      BY <1>1, <1>5, <2>4, <3>1 DEF Orderly, NewFree
    <3> SUFFICES ASSUME NEW i \in Entries, after[j][i] # Free, NEW k \in 1 .. i - 1
                 PROVE  after[j][k] # Free /\ End(after[j][k]) <= after[j][i].off
      BY DEF Apart
    <3>4. k \in Entries
      BY <1>3
    <3>5. CASE i = t.entry
      BY <2>1, <2>2, <3>2, <3>4, <3>5 DEF Entries
    <3>6. CASE i # t.entry
      <4>1. after[j][i] = hs[j][i]
        BY <2>2, <3>6
      <4>2. i < t.entry
        BY <2>1, <3>3, <3>6, <4>1 DEF Entries
      <4>3. after[j][k] = hs[j][k]
        BY <2>1, <2>2, <3>4, <4>2 DEF Entries
      <4> QED
        BY <4>1, <4>3 DEF Apart
    <3> QED
      BY <3>5, <3>6
  <2> QED
    BY <1>5, <2>1, <2>3, <2>4, HeaderTypes DEF NewAt, MaskAt
<1> QED
  BY <1>4, <1>5

\* The first operation leaves a name one entry in use at most.
LEMMA OneEntryKept ==
  ASSUME NEW W, NEW td \in Seq(FlashOps), td # <<>>, NEW hs \in HeadTables, NEW tb \in Tables,
         Orderly(td, hs, tb, W), NEW j \in Slots, OneEntryOf(hs[j], W)
  PROVE  OneEntryOf(HeadsAfter(td[1], hs)[j], W)
<1> DEFINE t == td[1]
           after == HeadsAfter(t, hs)
<1>1. t \in FlashOps /\ 1 \in 1 .. Len(td)
  BY Rest
<1>2. /\ after \in HeadTables
      /\ \A l \in Slots, i \in Entries :
           after[l][i] = IF t.op = "head" /\ t.slot = l /\ t.entry = i THEN t.head
                         ELSE IF t.op = "erase names" /\ t.slot = l THEN Free ELSE hs[l][i]
  BY <1>1, HeadsAfterOp
<1>3. CASE ~(t.op = "head" /\ t.slot = j)
  <2>1. \A i \in Entries : after[j][i] = Free \/ after[j][i] = hs[j][i]
    BY <1>2, <1>3
  <2>2. \A i \in Entries : after[j][i].flag = "using" => after[j][i] = hs[j][i]
    BY <2>1 DEF Free
  <2> QED
    BY <2>2 DEF OneEntryOf
<1>4. CASE t.op = "head" /\ t.slot = j
  <2>1. t.entry \in Entries /\ t.head \in Headers
    BY <1>1, <1>4, OpTypes
  <2>2. \A i \in Entries : after[j][i] = IF t.entry = i THEN t.head ELSE hs[j][i]
    BY <1>2, <1>4
  <2>3. CASE MaskAt(td, 1)
    BY <2>2, <2>3 DEF OneEntryOf, MaskAt
  <2>4. CASE NewAt(td, 1)
    <3>1. NoErase(td, j)
      BY <1>4, <2>4, NoEraseAfterNew DEF Orderly
    <3>2. t.head.name \in W => \A k \in InUse(hs[j], t.head.name) : FALSE
      <4>1. ~\E q \in 1 .. 1 - 1 : MaskAt(td, q)
        OBVIOUS
      <4> QED
        BY <1>1, <1>4, <2>4, <3>1, <4>1 DEF Orderly, NewAlone
    <3>3. t.head.name \in W =>
            \A k \in Entries : ~(hs[j][k].flag = "using" /\ hs[j][k].name = t.head.name)
      BY <3>2 DEF InUse
    <3> QED
      BY <2>1, <2>2, <3>3 DEF OneEntryOf
  <2> QED
    BY <1>4, <2>1, <2>3, <2>4, HeaderTypes DEF NewAt, MaskAt
<1> QED
  BY <1>3, <1>4

\* And a namespace one slot of the table at most.
LEMMA OneSlotKept ==
  ASSUME NEW W, NEW td \in Seq(FlashOps), td # <<>>, NEW tb \in Tables,
         SpacesApart(td, tb, W), OneSlotOf(tb, W)
  PROVE  OneSlotOf(TableAfter(td[1], tb), W) /\ TableAfter(td[1], tb) \in Tables
<1> DEFINE t == td[1]
<1>1. t \in FlashOps /\ 1 \in 1 .. Len(td)
  BY Rest
<1>2. CASE t.op = "space"
  <2>1. t.slot \in Slots /\ t.name \in Spaces
    BY <1>1, <1>2, OpTypes
  <2>2. t.name \in W => \A l \in Slots : tb[l] # t.name
    <3>1. ~\E q \in 1 .. 1 - 1 : td[q].op = "erase table"
      OBVIOUS
    <3> QED
      BY <1>1, <1>2, <3>1 DEF SpacesApart
  <2>3. TableAfter(t, tb) = [tb EXCEPT ![t.slot] = t.name]
    BY <1>2 DEF TableAfter
  <2> QED
    BY <2>1, <2>2, <2>3 DEF OneSlotOf, Tables
<1>3. CASE t.op = "erase table"
  BY <1>3 DEF TableAfter, OneSlotOf, Tables
<1>4. CASE t.op # "space" /\ t.op # "erase table"
  BY <1>4 DEF TableAfter
<1> QED
  BY <1>2, <1>3, <1>4

\* What a write leaves in a cell is what was written, or a mixture.
LEMMA CellsKept ==
  ASSUME NEW t \in FlashOps, t.op = "data", NEW old \in [Offsets -> CellValues]
  PROVE  [o \in Offsets |->
            IF o \in t.off .. t.off + Len(t.data) - 1
            THEN Programmed(old[o], t.data[o - t.off + 1]) ELSE old[o]] \in [Offsets -> CellValues]
<1>1. t.off \in Nat /\ t.data \in Seq(CellValues) /\ Len(t.data) \in Nat
  <2>1. t.off \in Nat /\ t.data \in Seq(CellValues)
    BY OpTypes
  <2> QED
    BY <2>1
<1>2. Mixed \in CellValues
  BY DEF CellValues, Mixed
<1>3. \A o \in Offsets :
        o \in t.off .. t.off + Len(t.data) - 1 => o - t.off + 1 \in 1 .. Len(t.data)
  BY <1>1, MatterFlashAssumption DEF Offsets
<1>4. \A o \in Offsets :
        o \in t.off .. t.off + Len(t.data) - 1 => t.data[o - t.off + 1] \in CellValues
  BY <1>1, <1>3
<1> QED
  BY <1>2, <1>4 DEF Programmed

-----------------------------------------------------------------------------
(* The actions that begin nothing. *)

\* A flash operation keeps the invariant.
LEMMA FlashStepKept == MatterInvariant /\ FlashStep => MatterInvariant'
<1> SUFFICES ASSUME MatterInvariant, FlashStep PROVE MatterInvariant'
  OBVIOUS
<1> DEFINE t == todo[1]
<1>1. todo \in Seq(FlashOps) /\ todo # <<>> /\ todo' = Tail(todo) /\ Head(todo) = t
  BY Rest DEF MatterInvariant, Types, FlashStep
<1>2. t \in FlashOps /\ Tail(todo) \in Seq(FlashOps)
  BY <1>1, Rest
<1>3. heads \in HeadTables /\ table \in Tables
  BY DEF MatterInvariant, Types, HeadTables, Tables
<1>4. heads' = HeadsAfter(t, heads) /\ table' = TableAfter(t, table)
  BY <1>1 DEF FlashStep, HeadsAfter, TableAfter
<1>5. Orderly(todo', heads', table', Once)
  BY <1>1, <1>3, <1>4, OrderlyKept DEF MatterInvariant
<1>6. \A j \in Slots : OneEntryOf(heads'[j], Once) /\ Apart(heads'[j])
  BY <1>1, <1>3, <1>4, OneEntryKept, ApartKept DEF MatterInvariant
<1>7. OneSlotOf(table', Once) /\ table' \in Tables
  BY <1>1, <1>3, <1>4, OneSlotKept DEF MatterInvariant, Orderly
<1>8. heads' \in HeadTables
  BY <1>2, <1>3, <1>4, HeadsAfterOp
<1>9. cells' \in [Slots -> [Offsets -> CellValues]]
  <2>1. cells \in [Slots -> [Offsets -> CellValues]]
    BY DEF MatterInvariant, Types
  <2>2. CASE t.op = "data"
    <3>1. t.slot \in Slots
      BY <1>2, <2>2, OpTypes
    <3> DEFINE written == [o \in Offsets |->
                 IF o \in t.off .. t.off + Len(t.data) - 1
                 THEN Programmed(cells[t.slot][o], t.data[o - t.off + 1]) ELSE cells[t.slot][o]]
    <3>2. written \in [Offsets -> CellValues]
      BY <1>2, <2>1, <2>2, <3>1, CellsKept
    <3>3. cells' = [cells EXCEPT ![t.slot] = written]
      BY <1>1, <2>2 DEF FlashStep
    <3> QED
      BY <2>1, <3>2, <3>3
  <2>3. CASE t.op = "erase data"
    <3>1. cells' = [cells EXCEPT ![t.slot] = ErasedCells] /\ t.slot \in Slots
      BY <1>1, <1>2, <2>3, OpTypes DEF FlashStep
    <3>2. ErasedCells \in [Offsets -> CellValues]
      BY DEF ErasedCells, CellValues, Blank, Mixed
    <3> QED
      BY <2>1, <3>1, <3>2
  <2>4. CASE t.op # "data" /\ t.op # "erase data"
    BY <1>1, <2>1, <2>4 DEF FlashStep
  <2> QED
    BY <2>2, <2>3, <2>4
<1>10. UNCHANGED <<call, held, doubled, mishaps>> /\ Once' = Once
  BY DEF FlashStep, Once
<1>11. Types'
  BY <1>1, <1>2, <1>7, <1>8, <1>9, <1>10 DEF MatterInvariant, Types, HeadTables, Tables
<1> QED
  BY <1>5, <1>6, <1>7, <1>10, <1>11 DEF MatterInvariant

-----------------------------------------------------------------------------
(* Both sectors written again, one entry behind the other. *)

\* Where such a list has the data and the header of an entry.
DataPos(e) == 2 * e + 1
HeadPos(e) == 2 * e + 2

Arranged(td, j, m, off, W) ==
  /\ td \in Seq(FlashOps) /\ Len(td) = 2 * m
  /\ td[1] = EraseNames(j) /\ td[2] = EraseData(j)
  /\ \A e \in 1 .. m - 1 :
       /\ td[DataPos(e)].op = "data"
       /\ NewAt(td, HeadPos(e)) /\ td[HeadPos(e)].slot = j /\ td[HeadPos(e)].entry = e
       /\ End(td[HeadPos(e)].head) <= off
  /\ \A e \in 1 .. m - 1 : \A f \in 1 .. e - 1 :
       /\ End(td[HeadPos(f)].head) <= td[HeadPos(e)].head.off
       /\ td[HeadPos(e)].head.name \in W => td[HeadPos(f)].head.name # td[HeadPos(e)].head.name

\* Where the operations of such a list are.
LEMMA ArrangedAt ==
  ASSUME NEW m \in Nat \ {0}, NEW p \in 1 .. 2 * m
  PROVE  p = 1 \/ p = 2 \/ \E e \in 1 .. m - 1 : p = DataPos(e) \/ p = HeadPos(e)
<1> DEFINE e == (p - 1) \div 2
<1>1. e \in Nat /\ (p = 2 * e + 1 \/ p = 2 * e + 2)
  OBVIOUS
<1>2. CASE e = 0
  BY <1>1, <1>2
<1>3. CASE e # 0
  <2>1. e \in 1 .. m - 1
    BY <1>1, <1>3
  <2> QED
    BY <1>1, <2>1 DEF DataPos, HeadPos
<1> QED
  BY <1>2, <1>3

\* What is written by then is an entry of the list.
LEMMA ArrangedNew ==
  ASSUME NEW W, NEW j, NEW m \in Nat \ {0}, NEW off, NEW td, Arranged(td, j, m, off, W),
         NEW p \in 1 .. Len(td)
  PROVE  /\ NewAt(td, p) => \E e \in 1 .. m - 1 : p = HeadPos(e)
         /\ EraseAt(td, p, j) => p = 1
         /\ ~MaskAt(td, p) /\ td[p].op \notin {"space", "erase table"}
<1>1. p = 1 \/ p = 2 \/ \E e \in 1 .. m - 1 : p = DataPos(e) \/ p = HeadPos(e)
  <2>1. p \in 1 .. 2 * m
    BY DEF Arranged
  <2> QED
    BY <2>1, ArrangedAt
<1>2. CASE p = 1 \/ p = 2
  <2>1. td[1] = EraseNames(j) /\ td[2] = EraseData(j)
    BY DEF Arranged
  <2>2. EraseNames(j).op = "erase names" /\ EraseData(j).op = "erase data"
    BY DEF EraseNames, EraseData
  <2>3. td[1].op = "erase names" /\ td[2].op = "erase data"
    BY <2>1, <2>2
  <2> QED
    BY <1>2, <2>3 DEF NewAt, EraseAt, MaskAt
<1>3. ASSUME NEW e \in 1 .. m - 1, p = DataPos(e) \/ p = HeadPos(e)
      PROVE  /\ NewAt(td, p) => p = HeadPos(e)
             /\ ~EraseAt(td, p, j)
             /\ ~MaskAt(td, p) /\ td[p].op \notin {"space", "erase table"}
  BY <1>3 DEF Arranged, NewAt, EraseAt, MaskAt
<1> QED
  BY <1>1, <1>2, <1>3

\* New headers are those of one namespace, nothing is masked and the table is not
\* touched.
OneNamespace(td, j) ==
  \A p \in 1 .. Len(td) :
    /\ ~MaskAt(td, p) /\ td[p].op \notin {"space", "erase table"}
    /\ NewAt(td, p) => td[p].slot = j

\* And the list is about one namespace.
LEMMA ArrangedSlot ==
  ASSUME NEW W, NEW j, NEW m \in Nat \ {0}, NEW off, NEW td, Arranged(td, j, m, off, W)
  PROVE  OneNamespace(td, j)
<1>1. \A e \in 1 .. m - 1 : td[HeadPos(e)].slot = j
  BY DEF Arranged
<1>2. \A p \in 1 .. Len(td) :
        /\ NewAt(td, p) => \E e \in 1 .. m - 1 : p = HeadPos(e)
        /\ EraseAt(td, p, j) => p = 1
        /\ ~MaskAt(td, p) /\ td[p].op \notin {"space", "erase table"}
  BY ArrangedNew
<1> QED
  BY <1>1, <1>2 DEF OneNamespace

\* Such a list is in order whatever flash holds, since it erases first.
LEMMA ArrangedOrderly ==
  ASSUME NEW W, NEW j, NEW m \in Nat \ {0}, NEW off, NEW td, Arranged(td, j, m, off, W),
         NEW hs, NEW tb
  PROVE  Orderly(td, hs, tb, W)
<1>1. \A p \in 1 .. Len(td) :
        /\ NewAt(td, p) => \E e \in 1 .. m - 1 : p = HeadPos(e)
        /\ EraseAt(td, p, j) => p = 1
        /\ ~MaskAt(td, p) /\ td[p].op \notin {"space", "erase table"}
  BY ArrangedNew
<1>2. MasksFirst(td, hs) /\ SpacesApart(td, tb, W)
  BY <1>1 DEF MasksFirst, SpacesApart
<1>3. 1 \in 1 .. Len(td) /\ ~NoErase(td, j)
  <2>1. td[1] = EraseNames(j) /\ Len(td) = 2 * m
    BY DEF Arranged
  <2>2. 1 \in 1 .. Len(td)
    BY <2>1
  <2>3. EraseNames(j).op = "erase names" /\ EraseNames(j).slot = j
    BY DEF EraseNames
  <2> QED
    BY <2>1, <2>2, <2>3 DEF NoErase, EraseAt
<1>4. \A p \in 1 .. Len(td) : NewAt(td, p) => td[p].slot = j
  <2>1. \A e \in 1 .. m - 1 : td[HeadPos(e)].slot = j
    BY DEF Arranged
  <2> QED
    BY <1>1, <2>1
<1>5. NewFree(td, hs) /\ NewAlone(td, hs, W)
  BY <1>3, <1>4 DEF NewFree, NewAlone
<1>6. ErasedFirst(td)
  <2> SUFFICES ASSUME NEW p \in 1 .. Len(td), NEW e \in 1 .. Len(td),
                      NewAt(td, p), EraseAt(td, e, td[p].slot)
               PROVE  e < p
    BY DEF ErasedFirst
  <2>1. e = 1
    BY <1>1, <1>4
  <2>2. PICK l \in 1 .. m - 1 : p = HeadPos(l)
    BY <1>1
  <2> QED
    BY <2>1, <2>2 DEF HeadPos
<1>7. NewApart(td, W)
  <2> SUFFICES ASSUME NEW p \in 1 .. Len(td), NEW q \in 1 .. p - 1,
                      NewAt(td, p), NewAt(td, q), td[q].slot = td[p].slot
               PROVE  /\ td[q].entry < td[p].entry
                      /\ End(td[q].head) <= td[p].head.off
                      /\ td[p].head.name \in W => td[q].head.name # td[p].head.name
    BY DEF NewApart
  <2>1. PICK e \in 1 .. m - 1 : p = HeadPos(e)
    BY <1>1
  <2>2. q \in 1 .. Len(td)
    BY DEF Arranged
  <2>3. PICK f \in 1 .. m - 1 : q = HeadPos(f)
    BY <1>1, <2>2
  <2>4. f \in 1 .. e - 1
    BY <2>1, <2>3 DEF HeadPos
  <2> QED
    BY <2>1, <2>3, <2>4 DEF Arranged
<1>8. NewBehind(td, hs)
  <2> SUFFICES ASSUME NEW p \in 1 .. Len(td), NewAt(td, p), NEW k \in 1 .. td[p].entry - 1
               PROVE  \E q \in 1 .. p - 1 :
                        NewAt(td, q) /\ td[q].slot = td[p].slot /\ td[q].entry = k
    BY DEF NewBehind
  <2>1. PICK e \in 1 .. m - 1 : p = HeadPos(e)
    BY <1>1
  <2>2. td[p].entry = e /\ td[p].slot = j
    BY <2>1 DEF Arranged
  <2>3. k \in 1 .. m - 1 /\ HeadPos(k) \in 1 .. p - 1
    BY <2>1, <2>2 DEF HeadPos
  <2>4. NewAt(td, HeadPos(k)) /\ td[HeadPos(k)].slot = j /\ td[HeadPos(k)].entry = k
    BY <2>3 DEF Arranged
  <2> QED
    BY <2>2, <2>3, <2>4
<1> QED
  BY <1>2, <1>5, <1>6, <1>7, <1>8 DEF Orderly

\* Two more operations at the end of a list.
LEMMA TwoMore ==
  ASSUME NEW S, NEW td \in Seq(S), NEW x \in S, NEW y \in S
  PROVE  /\ td \o <<x, y>> \in Seq(S) /\ Len(td \o <<x, y>>) = Len(td) + 2
         /\ (td \o <<x, y>>)[Len(td) + 1] = x /\ (td \o <<x, y>>)[Len(td) + 2] = y
         /\ \A p \in 1 .. Len(td) : (td \o <<x, y>>)[p] = td[p]
OBVIOUS

\* An entry is two operations: its data, then its header.
LEMMA EntryOps ==
  ASSUME NEW j \in Slots, NEW i \in Entries, NEW n \in Names, NEW o \in Nat,
         NEW d \in Seq(CellValues), d # <<>>, o + Len(d) < SectorSize, Len(d) <= DataBuffer
  PROVE  /\ WriteEntry(j, i, n, o, d) = <<WriteData(j, o, d), WriteHead(j, i, Using(n, o, d))>>
         /\ WriteData(j, o, d) \in FlashOps /\ WriteHead(j, i, Using(n, o, d)) \in FlashOps
         /\ Using(n, o, d) \in Headers /\ End(Using(n, o, d)) = o + Len(d)
<1>1. Len(d) \in Nat \ {0}
  OBVIOUS
<1>2. Using(n, o, d) \in Headers /\ End(Using(n, o, d)) = o + Len(d)
  BY <1>1 DEF Using, Headers, End
<1>3. WriteData(j, o, d) \in FlashOps
  BY DEF WriteData, FlashOps
<1>4. WriteHead(j, i, Using(n, o, d)) \in FlashOps
  BY <1>2 DEF WriteHead, FlashOps
<1> QED
  BY <1>2, <1>3, <1>4 DEF WriteEntry

\* The list u has one more entry than td, named n.
Added(td, u, m, n) ==
  /\ u[HeadPos(m)].head.name = n
  /\ \A e \in 1 .. m - 1 : u[HeadPos(e)] = td[HeadPos(e)]

\* One more entry at the end of such a list.
LEMMA ArrangedMore ==
  ASSUME NEW W, NEW j \in Slots, NEW m \in Entries, NEW off \in Nat, NEW td,
         Arranged(td, j, m, off, W),
         NEW n \in Names, NEW d \in Seq(CellValues), d # <<>>, off + Len(d) < SectorSize,
         Len(d) <= DataBuffer,
         n \in W => \A e \in 1 .. m - 1 : td[HeadPos(e)].head.name # n,
         NEW u, u = td \o WriteEntry(j, m, n, off, d)
  PROVE  Arranged(u, j, m + 1, off + Len(d), W) /\ Added(td, u, m, n)
<1> DEFINE x == WriteData(j, off, d)
           y == WriteHead(j, m, Using(n, off, d))
<1>1. /\ WriteEntry(j, m, n, off, d) = <<x, y>> /\ x \in FlashOps /\ y \in FlashOps
      /\ End(Using(n, off, d)) = off + Len(d) /\ Len(d) \in Nat
  BY EntryOps
<1>2. m \in Nat \ {0} /\ td \in Seq(FlashOps) /\ Len(td) = 2 * m
  BY DEF Arranged, Entries
<1>3. /\ u \in Seq(FlashOps) /\ Len(u) = 2 * m + 2 /\ u[2 * m + 1] = x /\ u[2 * m + 2] = y
      /\ \A p \in 1 .. 2 * m : u[p] = td[p]
  <2>1. td \in Seq(FlashOps) /\ x \in FlashOps /\ y \in FlashOps /\ u = td \o <<x, y>>
    BY <1>1, <1>2
  <2>2. /\ u \in Seq(FlashOps) /\ Len(u) = Len(td) + 2
        /\ u[Len(td) + 1] = x /\ u[Len(td) + 2] = y
        /\ \A p \in 1 .. Len(td) : u[p] = td[p]
    BY <2>1, TwoMore
  <2> QED
    BY <1>2, <2>2
<1>4. /\ x.op = "data" /\ y.op = "head" /\ y.slot = j /\ y.entry = m
      /\ y.head.flag = "using" /\ y.head.name = n /\ y.head.off = off
      /\ End(y.head) = off + Len(d)
  <2>1. /\ x = [op |-> "data", slot |-> j, off |-> off, data |-> d]
        /\ y = [op |-> "head", slot |-> j, entry |-> m, head |-> Using(n, off, d)]
        /\ Using(n, off, d) = [flag |-> "using", name |-> n, off |-> off, len |-> Len(d)]
    BY DEF WriteData, WriteHead, Using
  <2>2. y.head = Using(n, off, d)
    BY <2>1
  <2> QED
    BY <1>1, <2>1, <2>2
<1>5. u[1] = EraseNames(j) /\ u[2] = EraseData(j)
  <2>1. td[1] = EraseNames(j) /\ td[2] = EraseData(j)
    BY DEF Arranged
  <2> QED
    BY <1>2, <1>3, <2>1
<1>6. \A e \in 1 .. m - 1 : u[DataPos(e)] = td[DataPos(e)] /\ u[HeadPos(e)] = td[HeadPos(e)]
  <2>1. \A e \in 1 .. m - 1 : DataPos(e) \in 1 .. 2 * m /\ HeadPos(e) \in 1 .. 2 * m
    BY <1>2 DEF DataPos, HeadPos
  <2> QED
    BY <1>3, <2>1
<1>10. u[DataPos(m)] = x /\ u[HeadPos(m)] = y
  BY <1>3 DEF DataPos, HeadPos
<1>7. ASSUME NEW e \in 1 .. m
      PROVE  /\ u[DataPos(e)].op = "data"
             /\ NewAt(u, HeadPos(e)) /\ u[HeadPos(e)].slot = j /\ u[HeadPos(e)].entry = e
             /\ End(u[HeadPos(e)].head) <= off + Len(d)
             /\ \A f \in 1 .. e - 1 :
                  /\ End(u[HeadPos(f)].head) <= u[HeadPos(e)].head.off
                  /\ u[HeadPos(e)].head.name \in W =>
                       u[HeadPos(f)].head.name # u[HeadPos(e)].head.name
  <2>1. CASE e = m
    <3>1. \A f \in 1 .. m - 1 : End(u[HeadPos(f)].head) <= off
      BY <1>6 DEF Arranged
    <3>2. n \in W => \A f \in 1 .. m - 1 : u[HeadPos(f)].head.name # n
      BY <1>6
    <3>3. NewAt(u, HeadPos(m)) /\ u[HeadPos(m)].slot = j /\ u[HeadPos(m)].entry = m
      BY <1>4, <1>10 DEF NewAt
    <3>4. /\ End(u[HeadPos(m)].head) = off + Len(d) /\ u[HeadPos(m)].head.off = off
          /\ u[HeadPos(m)].head.name = n /\ u[DataPos(m)].op = "data"
      BY <1>4, <1>10
    <3>5. End(u[HeadPos(m)].head) <= off + Len(d)
      <4>1. Len(d) \in Nat
        BY <1>1
      <4>2. off + Len(d) <= off + Len(d)
        BY <4>1
      <4> QED
        BY <3>4, <4>2
    <3> QED
      BY <2>1, <3>1, <3>2, <3>3, <3>4, <3>5
  <2>2. CASE e # m
    <3>1. e \in 1 .. m - 1 /\ \A f \in 1 .. e - 1 : f \in 1 .. m - 1
      BY <1>2, <2>2
    <3>2. td[HeadPos(e)] \in FlashOps /\ NewAt(td, HeadPos(e))
      <4>1. HeadPos(e) \in 1 .. Len(td)
        BY <1>2, <3>1 DEF HeadPos
      <4> QED
        BY <1>2, <3>1, <4>1 DEF Arranged
    <3>3. End(td[HeadPos(e)].head) \in Nat
      BY <3>2, OpTypes, HeaderTypes DEF NewAt
    <3>4. End(td[HeadPos(e)].head) <= off
      BY <3>1 DEF Arranged
    <3>5. End(td[HeadPos(e)].head) <= off + Len(d)
      BY <1>1, <3>3, <3>4
    <3> QED
      <4>1. /\ td[DataPos(e)].op = "data"
            /\ NewAt(td, HeadPos(e)) /\ td[HeadPos(e)].slot = j /\ td[HeadPos(e)].entry = e
            /\ \A f \in 1 .. e - 1 :
                 /\ End(td[HeadPos(f)].head) <= td[HeadPos(e)].head.off
                 /\ td[HeadPos(e)].head.name \in W =>
                      td[HeadPos(f)].head.name # td[HeadPos(e)].head.name
        BY <3>1 DEF Arranged
      <4>2. NewAt(u, HeadPos(e)) <=> NewAt(td, HeadPos(e))
        BY <1>6, <3>1 DEF NewAt
      <4> QED
        BY <1>6, <3>1, <3>5, <4>1, <4>2
  <2> QED
    BY <2>1, <2>2
<1>8. (m + 1) - 1 = m /\ 2 * (m + 1) = 2 * m + 2
  BY <1>2
<1>9. Arranged(u, j, m + 1, off + Len(d), W)
  BY <1>3, <1>5, <1>7, <1>8 DEF Arranged
<1> QED
  BY <1>1, <1>4, <1>6, <1>9, <1>10 DEF Added

-----------------------------------------------------------------------------
(* The loop of bk_reorganize_name_data. *)

PackNone(j) == [todo |-> <<EraseNames(j), EraseData(j)>>, entry |-> 1, off |-> 0]

Turned(f, j, h) ==
  [i \in 0 .. NameSlots |-> IF i = 0 THEN PackNone(j) ELSE PackEntry(f[i - 1], j, h[i])]

\* The loop is defined: there is a record of what it did for each number of turns.
LEMMA PackingExists ==
  ASSUME NEW j, NEW h
  PROVE  \E f : f = Turned(f, j, h)
<1> DEFINE Turns(f, n) ==
             f = [i \in 0 .. n |-> IF i = 0 THEN PackNone(j) ELSE PackEntry(f[i - 1], j, h[i])]
           S == {n \in Nat : \E f : Turns(f, n)}
<1>1. 0 \in S
  <2>1. Turns([i \in 0 .. 0 |-> PackNone(j)], 0)
    <3>1. \A i \in 0 .. 0 : i = 0
      OBVIOUS
    <3> QED
      BY <3>1
  <2> QED
    BY <2>1
<1>2. ASSUME NEW n \in Nat, n \in S PROVE n + 1 \in S
  <2>1. PICK f : Turns(f, n)
    BY <1>2
  <2> DEFINE g == [i \in 0 .. n + 1 |-> IF i <= n THEN f[i] ELSE PackEntry(f[n], j, h[n + 1])]
  <2>2. \A i \in 0 .. n + 1 :
          g[i] = IF i = 0 THEN PackNone(j) ELSE PackEntry(g[i - 1], j, h[i])
    <3> SUFFICES ASSUME NEW i \in 0 .. n + 1
                 PROVE  g[i] = IF i = 0 THEN PackNone(j) ELSE PackEntry(g[i - 1], j, h[i])
      OBVIOUS
    <3>1. CASE i = 0
      <4>1. f[0] = PackNone(j)
        BY <2>1
      <4> QED
        BY <3>1, <4>1
    <3>2. CASE i # 0 /\ i <= n
      <4>1. f[i] = PackEntry(f[i - 1], j, h[i])
        BY <2>1, <3>2
      <4>2. g[i] = f[i] /\ g[i - 1] = f[i - 1]
        BY <3>2
      <4> QED
        BY <3>2, <4>1, <4>2
    <3>3. CASE i = n + 1
      <4>1. g[i] = PackEntry(f[n], j, h[n + 1]) /\ g[i - 1] = f[n] /\ i # 0
        BY <3>3
      <4> QED
        BY <3>3, <4>1
    <3> QED
      BY <3>1, <3>2, <3>3
  <2> HIDE DEF g
  <2>3. g = [i \in 0 .. n + 1 |-> g[i]]
    BY DEF g
  <2>4. Turns(g, n + 1)
    BY <2>2, <2>3
  <2> QED
    BY <2>4
<1>3. NameSlots \in S
  BY <1>1, <1>2, Induction, MatterFlashAssumption
<1>4. PICK f : Turns(f, NameSlots)
  BY <1>3
<1> QED
  BY <1>4 DEF Turned

\* So each turn of it does what PackEntry says.
LEMMA PackingTurns ==
  ASSUME NEW j, NEW h
  PROVE  /\ Packing(j, h)[0] = PackNone(j)
         /\ \A i \in Entries : Packing(j, h)[i] = PackEntry(Packing(j, h)[i - 1], j, h[i])
<1>1. \E f : f = Turned(f, j, h)
  BY PackingExists
<1>2. Packing(j, h) = CHOOSE f : f = Turned(f, j, h)
  BY DEF Packing, PackNone, Turned
<1>3. Packing(j, h) = Turned(Packing(j, h), j, h)
  BY <1>1, <1>2
<1>4. Packing(j, h)[0] = PackNone(j)
  <2>1. Turned(Packing(j, h), j, h)[0] = PackNone(j)
    BY MatterFlashAssumption DEF Turned
  <2> QED
    BY <1>3, <2>1
<1>5. ASSUME NEW i \in Entries
      PROVE  Packing(j, h)[i] = PackEntry(Packing(j, h)[i - 1], j, h[i])
  <2>1. Turned(Packing(j, h), j, h)[i] = PackEntry(Packing(j, h)[i - 1], j, h[i])
    BY MatterFlashAssumption DEF Turned, Entries
  <2> QED
    BY <1>3, <2>1
<1> QED
  BY <1>4, <1>5

\* What a call reads of an entry: as many cells as its header says.
LEMMA DataRead ==
  ASSUME NEW j \in Slots, NEW e \in Headers, cells \in [Slots -> [Offsets -> CellValues]]
  PROVE  Data(j, e) \in Seq(CellValues) /\ Len(Data(j, e)) = e.len /\ Data(j, e) # <<>>
<1>1. e.off \in Nat /\ e.len \in Nat \ {0} /\ e.off + e.len < SectorSize
  BY HeaderTypes DEF Headers
<1>2. \A k \in 1 .. e.len : e.off + k - 1 \in Offsets
  BY <1>1, MatterFlashAssumption DEF Offsets
<1>3. \A k \in 1 .. e.len : cells[j][e.off + k - 1] \in CellValues
  BY <1>2
<1> QED
  BY <1>1, <1>3 DEF Data

\* What the loop has done after i turns: what was in use among the first i entries
\* is packed, before everything that is still to be packed.
Packed(p, j, h, i, W) ==
  /\ p.entry \in 1 .. i + 1 /\ p.off \in Nat
  /\ Arranged(p.todo, j, p.entry, p.off, W)
  /\ \A e \in 1 .. p.entry - 1 : \E k \in 1 .. i :
       h[k].flag = "using" /\ h[k].name = p.todo[HeadPos(e)].head.name
  /\ \A k \in i + 1 .. NameSlots : h[k] # Free => p.off <= h[k].off
  /\ (\E k \in 1 .. i : h[k].flag # "using") => p.entry <= i

\* One turn: an entry in use goes behind those before it, which moves it towards
\* the start of the sector, if anywhere.
LEMMA PackTurn ==
  ASSUME NEW W, NEW j \in Slots, NEW h \in [Entries -> Headers \union {Free}],
         Apart(h), OneEntryOf(h, W), cells \in [Slots -> [Offsets -> CellValues]],
         NEW i \in Nat, i < NameSlots, NEW p, Packed(p, j, h, i, W)
  PROVE  Packed(PackEntry(p, j, h[i + 1]), j, h, i + 1, W)
<1> DEFINE e == h[i + 1]
<1>1. i + 1 \in Entries /\ \A k \in 1 .. i : k \in Entries /\ k # i + 1
  BY MatterFlashAssumption DEF Entries
<1>2. e \in Headers \union {Free} /\ p.entry \in 1 .. i + 1 /\ p.off \in Nat
  BY <1>1 DEF Packed
<1>3. CASE e.flag # "using"
  <2>1. PackEntry(p, j, e) = p
    BY <1>3 DEF PackEntry
  <2>2. p.entry \in 1 .. (i + 1) + 1 /\ p.entry <= i + 1
    BY <1>2
  <2>3. \A k \in 1 .. i : k \in 1 .. i + 1
    OBVIOUS
  <2>4. \A k \in (i + 1) + 1 .. NameSlots : k \in i + 1 .. NameSlots
    OBVIOUS
  <2>5. \A f \in 1 .. p.entry - 1 : \E k \in 1 .. i + 1 :
          h[k].flag = "using" /\ h[k].name = p.todo[HeadPos(f)].head.name
    BY <2>3 DEF Packed
  <2> QED
    BY <2>1, <2>2, <2>4, <2>5 DEF Packed
<1>4. CASE e.flag = "using"
  <2> DEFINE d == Data(j, e)
             td == p.todo \o WriteEntry(j, p.entry, e.name, p.off, d)
             q == [todo |-> td, entry |-> p.entry + 1, off |-> p.off + e.len]
  <2>1. e \in Headers /\ e # Free
    BY <1>2, <1>4 DEF Free
  <2>2. /\ e.name \in Names /\ e.off \in Nat /\ e.len \in Nat \ {0} /\ End(e) = e.off + e.len
        /\ e.off + e.len < SectorSize /\ e.len <= DataBuffer
    BY <2>1, HeaderTypes DEF End
  <2>3. d \in Seq(CellValues) /\ Len(d) = e.len /\ d # <<>>
    BY <2>1, DataRead
  <2>4. p.off <= e.off
    <3>1. i + 1 \in i + 1 .. NameSlots
      BY MatterFlashAssumption
    <3> QED
      BY <2>1, <3>1 DEF Packed
  <2>5. /\ p.off + Len(d) < SectorSize /\ p.off + e.len <= End(e) /\ p.off + e.len \in Nat
        /\ Len(d) <= DataBuffer
    BY <1>2, <2>2, <2>3, <2>4, MatterFlashAssumption
  <2>6. e.name \in W => \A f \in 1 .. p.entry - 1 : p.todo[HeadPos(f)].head.name # e.name
    <3> SUFFICES ASSUME e.name \in W,
                        NEW f \in 1 .. p.entry - 1, p.todo[HeadPos(f)].head.name = e.name
                 PROVE  FALSE
      OBVIOUS
    <3>1. PICK k \in 1 .. i : h[k].flag = "using" /\ h[k].name = e.name
      BY DEF Packed
    <3> QED
      BY <1>1, <1>4, <3>1 DEF OneEntryOf
  <2>7. p.entry \in Entries /\ Arranged(p.todo, j, p.entry, p.off, W)
    BY <1>2, MatterFlashAssumption DEF Packed, Entries
  <2>8. /\ Arranged(td, j, p.entry + 1, p.off + Len(d), W)
        /\ td[HeadPos(p.entry)].head.name = e.name
        /\ \A f \in 1 .. p.entry - 1 : td[HeadPos(f)] = p.todo[HeadPos(f)]
    <3>1. /\ e.name \in Names /\ d \in Seq(CellValues) /\ d # <<>> /\ p.off + Len(d) < SectorSize
          /\ Len(d) <= DataBuffer
      BY <2>2, <2>3, <2>5
    <3>2. p.off \in Nat
      BY <1>2
    <3>3. td = p.todo \o WriteEntry(j, p.entry, e.name, p.off, d)
      OBVIOUS
    <3> HIDE DEF d, e, td
    <3>4. Arranged(td, j, p.entry + 1, p.off + Len(d), W) /\ Added(p.todo, td, p.entry, e.name)
      BY <2>6, <2>7, <3>1, <3>2, <3>3, ArrangedMore
    <3> QED
      BY <3>4 DEF Added
  <2>9. PackEntry(p, j, e) = q
    BY <1>4 DEF PackEntry
  <2>10. q.todo = td /\ q.entry = p.entry + 1 /\ q.off = p.off + e.len
    OBVIOUS
  <2> HIDE DEF q, td
  <2>11. \A f \in 1 .. q.entry - 1 : \E k \in 1 .. i + 1 :
           h[k].flag = "using" /\ h[k].name = q.todo[HeadPos(f)].head.name
    <3> SUFFICES ASSUME NEW f \in 1 .. q.entry - 1
                 PROVE  \E k \in 1 .. i + 1 :
                          h[k].flag = "using" /\ h[k].name = td[HeadPos(f)].head.name
      BY <2>10
    <3>1. CASE f = p.entry
      <4>1. i + 1 \in 1 .. i + 1
        OBVIOUS
      <4> QED
        BY <1>4, <2>8, <3>1, <4>1
    <3>2. CASE f # p.entry
      <4>1. f \in 1 .. p.entry - 1
        BY <1>2, <2>10, <3>2
      <4>2. PICK k \in 1 .. i : h[k].flag = "using" /\ h[k].name = p.todo[HeadPos(f)].head.name
        BY <4>1 DEF Packed
      <4>3. k \in 1 .. i + 1
        OBVIOUS
      <4> QED
        BY <2>8, <4>1, <4>2, <4>3
    <3> QED
      BY <3>1, <3>2
  <2>12. \A k \in (i + 1) + 1 .. NameSlots : h[k] # Free => q.off <= h[k].off
    <3> SUFFICES ASSUME NEW k \in (i + 1) + 1 .. NameSlots, h[k] # Free
                 PROVE  p.off + e.len <= h[k].off
      BY <2>10
    <3>1. k \in Entries /\ i + 1 \in 1 .. k - 1
      BY MatterFlashAssumption DEF Entries
    <3>2. End(e) <= h[k].off
      BY <3>1 DEF Apart
    <3>3. h[k].off \in Nat
      BY <3>1, HeaderTypes
    <3> QED
      BY <1>2, <2>2, <2>5, <3>2, <3>3
  <2>13. (\E k \in 1 .. i + 1 : h[k].flag # "using") => q.entry <= i + 1
    <3> SUFFICES ASSUME NEW k \in 1 .. i + 1, h[k].flag # "using" PROVE p.entry <= i
      BY <1>2, <2>10
    <3>1. k \in 1 .. i
      BY <1>4
    <3> QED
      BY <3>1 DEF Packed
  <2>14. q.entry \in 1 .. (i + 1) + 1 /\ q.off \in Nat
    BY <1>2, <2>5, <2>10
  <2>15. Arranged(q.todo, j, q.entry, q.off, W)
    BY <2>3, <2>8, <2>10
  <2>16. Packed(q, j, h, i + 1, W)
    BY <2>11, <2>12, <2>13, <2>14, <2>15 DEF Packed
  <2> QED
    BY <2>9, <2>16
<1> QED
  BY <1>3, <1>4

\* Before the first turn only the erases are planned.
LEMMA PackStart ==
  ASSUME NEW W, NEW j \in Slots, NEW h \in [Entries -> Headers \union {Free}]
  PROVE  Packed(PackNone(j), j, h, 0, W)
<1> DEFINE p == PackNone(j)
<1>1. p.todo = <<EraseNames(j), EraseData(j)>> /\ p.entry = 1 /\ p.off = 0
  BY DEF PackNone
<1>2. EraseNames(j) \in FlashOps /\ EraseData(j) \in FlashOps
  BY DEF EraseNames, EraseData, FlashOps
<1>3. p.todo \in Seq(FlashOps) /\ Len(p.todo) = 2 /\ p.todo[1] = EraseNames(j)
      /\ p.todo[2] = EraseData(j)
  BY <1>1, <1>2
<1>4. Arranged(p.todo, j, 1, 0, W)
  BY <1>3 DEF Arranged
<1>5. \A k \in Entries : h[k] # Free => 0 <= h[k].off
  BY HeaderTypes
<1> QED
  BY <1>1, <1>4, <1>5 DEF Packed, Entries

\* So the whole loop packs all that is in use.
LEMMA PackingPacks ==
  ASSUME NEW W, NEW j \in Slots, NEW h \in [Entries -> Headers \union {Free}],
         Apart(h), OneEntryOf(h, W), cells \in [Slots -> [Offsets -> CellValues]]
  PROVE  Packed(Packing(j, h)[NameSlots], j, h, NameSlots, W)
<1> DEFINE S == {i \in Nat : i <= NameSlots => Packed(Packing(j, h)[i], j, h, i, W)}
<1>1. 0 \in S
  BY PackStart, PackingTurns
<1>2. ASSUME NEW i \in Nat, i \in S PROVE i + 1 \in S
  <2> SUFFICES ASSUME i + 1 <= NameSlots PROVE Packed(Packing(j, h)[i + 1], j, h, i + 1, W)
    OBVIOUS
  <2>1. i + 1 \in Entries /\ i < NameSlots /\ (i + 1) - 1 = i
    BY MatterFlashAssumption DEF Entries
  <2>2. Packed(Packing(j, h)[i], j, h, i, W)
    BY <1>2, <2>1, MatterFlashAssumption
  <2>3. Packing(j, h)[i + 1] = PackEntry(Packing(j, h)[i], j, h[i + 1])
    BY <2>1, PackingTurns
  <2> QED
    BY <2>1, <2>2, <2>3, PackTurn
<1>3. NameSlots \in S
  BY <1>1, <1>2, Induction, MatterFlashAssumption
<1> QED
  BY <1>3, MatterFlashAssumption

-----------------------------------------------------------------------------
(* What the calls plan. *)

\* A plan is in order, masks nothing, does not write the table, and writes headers
\* of one namespace.
Good(td, j, hs, tb, W) ==
  /\ td \in Seq(FlashOps) /\ Orderly(td, hs, tb, W) /\ OneNamespace(td, j)

\* What is written into a namespace whose headers are h.
HeadersOf(h, n, W) ==
  /\ h \in [Entries -> Headers \union {Free}] /\ Apart(h) /\ OneEntryOf(h, W)
  /\ n \in W => \A k \in Entries : ~(h[k].flag = "using" /\ h[k].name = n)

\* A plan that leaves the table alone.
TableKept(td) == \A p \in 1 .. Len(td) : td[p].op \notin {"space", "erase table"}

\* Nothing to do is in order.
LEMMA NothingGood ==
  ASSUME NEW W, NEW td \in Seq(FlashOps), Len(td) = 0, NEW j, NEW hs, NEW tb
  PROVE  Good(td, j, hs, tb, W)
<1>1. 1 .. Len(td) = {}
  OBVIOUS
<1> QED
  BY <1>1 DEF Good, OneNamespace, Orderly, MasksFirst, ErasedFirst, NewApart, NewBehind,
              NewFree, NewAlone, SpacesApart

\* A value in Values is data.
LEMMA ValueData ==
  ASSUME NEW v \in Values
  PROVE  v \in Seq(CellValues) /\ v # <<>> /\ Len(v) \in Nat \ {0} /\ Len(v) <= DataBuffer
<1>1. v \in Seq(Nat \ {0}) /\ v # <<>> /\ Len(v) <= DataBuffer
  BY MatterFlashAssumption
<1>2. Nat \ {0} \subseteq CellValues
  BY DEF CellValues, Mixed
<1> QED
  BY <1>1, <1>2

\* bk_reorganize_name_data plans operations that are in order, provided an entry is
\* not in use: else the new header would be written behind the sector of headers.
LEMMA ReorganizeGood ==
  ASSUME NEW W, NEW j \in Slots, NEW h, NEW n \in Names, NEW v \in Values, HeadersOf(h, n, W),
         cells \in [Slots -> [Offsets -> CellValues]],
         \E k \in Entries : h[k].flag # "using", NEW hs, NEW tb
  PROVE  /\ Good(Reorganize(j, h, n, v).todo, j, hs, tb, W)
         /\ Reorganize(j, h, n, v).ok \in BOOLEAN
<1> DEFINE p == Packing(j, h)[NameSlots]
<1>1. Packed(p, j, h, NameSlots, W)
  BY PackingPacks DEF HeadersOf
<1> HIDE DEF p
<1>2. p.entry \in Entries /\ p.entry \in Nat \ {0} /\ p.off \in Nat
  BY <1>1, MatterFlashAssumption DEF Packed, Entries
<1>3. Arranged(p.todo, j, p.entry, p.off, W) /\ p.todo \in Seq(FlashOps)
  BY <1>1 DEF Packed, Arranged
<1>4. v \in Seq(CellValues) /\ v # <<>> /\ Len(v) \in Nat /\ Len(v) <= DataBuffer
  BY ValueData
<1>5. Reorganize(j, h, n, v).ok \in BOOLEAN
  BY DEF Reorganize
<1>6. CASE p.off + Len(v) < SectorSize
  <2> DEFINE td == p.todo \o WriteEntry(j, p.entry, n, p.off, v)
  <2>1. Reorganize(j, h, n, v).todo = td
    BY <1>6 DEF Reorganize, p
  <2>2. n \in W => \A e \in 1 .. p.entry - 1 : p.todo[HeadPos(e)].head.name # n
    <3> SUFFICES ASSUME n \in W, NEW e \in 1 .. p.entry - 1, p.todo[HeadPos(e)].head.name = n
                 PROVE  FALSE
      OBVIOUS
    <3>1. PICK k \in 1 .. NameSlots : h[k].flag = "using" /\ h[k].name = n
      BY <1>1 DEF Packed
    <3> QED
      BY <3>1 DEF HeadersOf, Entries
  <2> HIDE DEF td
  <2>3. Arranged(td, j, p.entry + 1, p.off + Len(v), W)
    BY <1>2, <1>3, <1>4, <1>6, <2>2, ArrangedMore DEF td
  <2>4. p.entry + 1 \in Nat \ {0} /\ td \in Seq(FlashOps)
    <3>1. td \in Seq(FlashOps)
      BY <2>3 DEF Arranged
    <3> QED
      BY <1>2, <3>1
  <2>5. Orderly(td, hs, tb, W)
    BY <2>3, <2>4, ArrangedOrderly
  <2>6. OneNamespace(td, j)
    BY <2>3, <2>4, ArrangedSlot
  <2> QED
    BY <1>5, <2>1, <2>4, <2>5, <2>6 DEF Good
<1>7. CASE ~(p.off + Len(v) < SectorSize)
  <2>1. Reorganize(j, h, n, v).todo = p.todo \o <<>>
    BY <1>7 DEF Reorganize, p
  <2>2. Reorganize(j, h, n, v).todo = p.todo
    BY <1>3, <2>1
  <2>3. Orderly(p.todo, hs, tb, W)
    BY <1>2, <1>3, ArrangedOrderly
  <2>4. OneNamespace(p.todo, j)
    BY <1>2, <1>3, ArrangedSlot
  <2> QED
    BY <1>3, <1>5, <2>2, <2>3, <2>4 DEF Good
<1> QED
  BY <1>6, <1>7

\* The entries before i are taken, with their data before where that of entry i
\* would begin, and those from i on are free.
Filled(h, i) ==
  /\ i \in Entries /\ h[i] = Free
  /\ \A k \in 1 .. i - 1 : k \in Entries /\ h[k] # Free /\ h[k] \in Headers
  /\ Behind(h, i) \in Nat /\ \A k \in 1 .. i - 1 : End(h[k]) <= Behind(h, i)
  /\ \A k \in i .. NameSlots : h[k] = Free

\* So it is with the first free entry.
LEMMA FirstFree ==
  ASSUME NEW h \in [Entries -> Headers \union {Free}], Apart(h),
         NEW i \in FreeEntries(h), \A k \in FreeEntries(h) : i <= k
  PROVE  Filled(h, i)
<1> DEFINE o == Behind(h, i)
<1>1. i \in Entries /\ h[i] = Free
  BY HeaderTypes DEF FreeEntries
<1>2. \A k \in 1 .. i - 1 : k \in Entries /\ h[k] # Free /\ h[k] \in Headers
  <2> SUFFICES ASSUME NEW k \in 1 .. i - 1 PROVE k \in Entries /\ h[k] # Free
    OBVIOUS
  <2>1. k \in Entries /\ k < i
    BY <1>1, MatterFlashAssumption DEF Entries
  <2>2. k \notin FreeEntries(h)
    BY <1>1, <2>1 DEF Entries
  <2> QED
    BY <2>1, <2>2 DEF FreeEntries, Free
<1>3. o \in Nat /\ \A k \in 1 .. i - 1 : End(h[k]) <= o
  <2>1. CASE i = 1
    BY <2>1 DEF Behind
  <2>2. CASE i # 1
    <3>1. i - 1 \in 1 .. i - 1 /\ i - 1 \in Entries
      BY <1>1, <2>2, MatterFlashAssumption DEF Entries
    <3>2. o = End(h[i - 1]) /\ h[i - 1] \in Headers /\ h[i - 1] # Free
      BY <1>2, <2>2, <3>1 DEF Behind, End
    <3>3. o \in Nat /\ h[i - 1].off \in Nat /\ h[i - 1].off < o
      BY <3>2, HeaderTypes
    <3> SUFFICES ASSUME NEW k \in 1 .. i - 1 PROVE End(h[k]) <= o
      BY <3>3
    <3>4. CASE k = i - 1
      BY <3>2, <3>3, <3>4
    <3>5. CASE k # i - 1
      <4>1. k \in 1 .. (i - 1) - 1
        BY <1>1, <3>5 DEF Entries
      <4>2. End(h[k]) <= h[i - 1].off /\ End(h[k]) \in Nat
        BY <1>2, <3>1, <3>2, <4>1, HeaderTypes DEF Apart
      <4> QED
        BY <3>3, <4>2
    <3> QED
      BY <3>4, <3>5
  <2> QED
    BY <2>1, <2>2
<1>4. \A k \in i .. NameSlots : h[k] = Free
  <2> SUFFICES ASSUME NEW k \in i .. NameSlots, h[k] # Free PROVE FALSE
    OBVIOUS
  <2>1. k \in Entries /\ k # i
    BY <1>1, MatterFlashAssumption DEF Entries
  <2>2. i \in 1 .. k - 1
    BY <1>1, <2>1 DEF Entries
  <2> QED
    BY <1>1, <2>1, <2>2 DEF Apart
<1> QED
  BY <1>1, <1>2, <1>3, <1>4 DEF Filled

\* A new entry behind the last header, as bk_set_name_data_new_addr plans it.
LEMMA WriteEntryGood ==
  ASSUME NEW W, NEW j \in Slots, NEW h, NEW n \in Names, NEW v \in Values, HeadersOf(h, n, W),
         NEW i \in FreeEntries(h), \A k \in FreeEntries(h) : i <= k,
         Behind(h, i) + Len(v) < SectorSize,
         NEW hs, hs[j] = h, NEW tb
  PROVE  Good(WriteEntry(j, i, n, Behind(h, i), v), j, hs, tb, W)
<1> DEFINE o == Behind(h, i)
           x == WriteData(j, o, v)
           y == WriteHead(j, i, Using(n, o, v))
           td == <<x, y>>
<1>1. Filled(h, i)
  BY FirstFree DEF HeadersOf
<1>2. /\ i \in Entries /\ h[i] = Free
      /\ \A k \in 1 .. i - 1 : k \in Entries /\ h[k] # Free /\ h[k] \in Headers
      /\ o \in Nat /\ \A k \in 1 .. i - 1 : End(h[k]) <= o
  BY <1>1 DEF Filled
<1>3. \A k \in i .. NameSlots : h[k] = Free
  BY <1>1 DEF Filled
<1>5. v \in Seq(CellValues) /\ v # <<>> /\ Len(v) \in Nat /\ Len(v) <= DataBuffer
  BY ValueData
<1>6. /\ WriteEntry(j, i, n, o, v) = td /\ x \in FlashOps /\ y \in FlashOps
      /\ Using(n, o, v) \in Headers
  BY <1>2, <1>5, EntryOps
<1>7. /\ x.op = "data" /\ y.op = "head" /\ y.slot = j /\ y.entry = i
      /\ y.head = Using(n, o, v) /\ y.head.flag = "using" /\ y.head.name = n /\ y.head.off = o
  BY DEF WriteData, WriteHead, Using
<1> HIDE DEF x, y, o
<1>8. td \in Seq(FlashOps) /\ Len(td) = 2 /\ td[1] = x /\ td[2] = y
  BY <1>6
<1> HIDE DEF td
<1>9. \A p \in 1 .. Len(td) : p = 1 \/ p = 2
  BY <1>8
<1>10. \A p \in 1 .. Len(td) :
         /\ NewAt(td, p) => p = 2
         /\ ~MaskAt(td, p) /\ (\A l : ~EraseAt(td, p, l))
         /\ td[p].op \notin {"space", "erase table"}
         /\ NewAt(td, p) => td[p].slot = j
  BY <1>7, <1>8, <1>9 DEF NewAt, MaskAt, EraseAt
<1>11. MasksFirst(td, hs) /\ ErasedFirst(td) /\ SpacesApart(td, tb, W)
  BY <1>10 DEF MasksFirst, ErasedFirst, SpacesApart
<1>12. NewApart(td, W)
  <2>1. \A p \in 1 .. Len(td) : \A q \in 1 .. p - 1 : q = 1 /\ q \in 1 .. Len(td)
    BY <1>8, <1>9
  <2>2. ~NewAt(td, 1)
    BY <1>7, <1>8 DEF NewAt
  <2> QED
    BY <2>1, <2>2 DEF NewApart
<1>13. NewBehind(td, hs)
  <2>1. NoErase(td, j)
    BY <1>10 DEF NoErase
  <2> QED
    BY <1>2, <1>7, <1>8, <1>10, <2>1 DEF NewBehind
<1>14. NewFree(td, hs)
  BY <1>3, <1>7, <1>8, <1>10 DEF NewFree
<1>15. NewAlone(td, hs, W)
  BY <1>7, <1>8, <1>10 DEF NewAlone, InUse, HeadersOf
<1> QED
  BY <1>6, <1>8, <1>10, <1>11, <1>12, <1>13, <1>14, <1>15 DEF Good, OneNamespace, Orderly, o

\* bk_set_name_data_new_addr: behind the last header, packed, or not at all.
LEMMA NewEntryGood ==
  ASSUME NEW W, NEW j \in Slots, NEW h, NEW n \in Names, NEW v \in Values, HeadersOf(h, n, W),
         cells \in [Slots -> [Offsets -> CellValues]],
         NEW hs, hs[j] = h, NEW tb
  PROVE  Good(NewEntry(j, h, n, v).todo, j, hs, tb, W) /\ NewEntry(j, h, n, v).ok \in BOOLEAN
<1> DEFINE i == Min(FreeEntries(h))
<1>1. FreeEntries(h) \subseteq Nat
  BY DEF FreeEntries, Entries
<1>2. CASE FreeEntries(h) # {} /\ Behind(h, i) + Len(v) < SectorSize
  <2>1. i \in FreeEntries(h) /\ \A k \in FreeEntries(h) : i <= k
    BY <1>1, <1>2, MinLeast
  <2> HIDE DEF i
  <2>2. Good(WriteEntry(j, i, n, Behind(h, i), v), j, hs, tb, W)
    BY <1>2, <2>1, WriteEntryGood
  <2>3. NewEntry(j, h, n, v) = [ok |-> TRUE, todo |-> WriteEntry(j, i, n, Behind(h, i), v)]
    BY <1>2 DEF NewEntry, i
  <2> QED
    BY <2>2, <2>3
<1>3. CASE /\ ~(FreeEntries(h) # {} /\ Behind(h, i) + Len(v) < SectorSize)
           /\ FreeEntries(h) # {} \/ \E e \in Entries : h[e].flag = "mask"
  <2>1. \E k \in Entries : h[k].flag # "using"
    BY <1>3 DEF FreeEntries
  <2>2. NewEntry(j, h, n, v) = Reorganize(j, h, n, v)
    BY <1>3 DEF NewEntry
  <2> QED
    BY <2>1, <2>2, ReorganizeGood
<1>4. CASE /\ ~(FreeEntries(h) # {} /\ Behind(h, i) + Len(v) < SectorSize)
           /\ ~(FreeEntries(h) # {} \/ \E e \in Entries : h[e].flag = "mask")
  <2>1. NewEntry(j, h, n, v) = [ok |-> FALSE, todo |-> <<>>]
    BY <1>4 DEF NewEntry, Nothing
  <2> DEFINE td == NewEntry(j, h, n, v).todo
  <2>2. td \in Seq(FlashOps) /\ Len(td) = 0 /\ NewEntry(j, h, n, v).ok \in BOOLEAN
    BY <2>1
  <2> HIDE DEF td
  <2>3. Good(td, j, hs, tb, W)
    BY <2>2, NothingGood
  <2> QED
    BY <2>2, <2>3 DEF td
<1> QED
  BY <1>2, <1>3, <1>4

\* The list u is the operation t before those of td: where each operation is.
Before(u, t, td) ==
  /\ u \in Seq(FlashOps) /\ Len(u) = Len(td) + 1 /\ u[1] = t /\ Len(td) \in Nat
  /\ \A p \in 1 .. Len(td) : p + 1 \in 1 .. Len(u) /\ u[p + 1] = td[p]
  /\ \A p \in 1 .. Len(u) : p # 1 => p - 1 \in 1 .. Len(td) /\ u[p] = td[p - 1]

\* Their lengths are numbers.
LEMMA BeforeLen ==
  ASSUME NEW u, NEW t, NEW td, Before(u, t, td)
  PROVE  Len(u) \in Nat /\ Len(td) \in Nat /\ Len(u) = Len(td) + 1
<1>1. Len(td) \in Nat /\ Len(u) = Len(td) + 1
  BY DEF Before
<1> QED
  BY <1>1

\* One operation before a list of them.
LEMMA OneBefore ==
  ASSUME NEW t \in FlashOps, NEW td \in Seq(FlashOps), NEW u, u = <<t>> \o td
  PROVE  Before(u, t, td)
<1>1. u \in Seq(FlashOps) /\ Len(u) = Len(td) + 1 /\ u[1] = t /\ Len(td) \in Nat
  OBVIOUS
<1>2. \A p \in 1 .. Len(td) : p + 1 \in 1 .. Len(u) /\ u[p + 1] = td[p]
  OBVIOUS
<1>3. ASSUME NEW p \in 1 .. Len(u), p # 1
      PROVE  p - 1 \in 1 .. Len(td) /\ u[p] = td[p - 1]
  <2>1. p - 1 \in 1 .. Len(td) /\ (p - 1) + 1 = p
    BY <1>1, <1>3
  <2> QED
    BY <1>2, <2>1
<1> QED
  BY <1>1, <1>2, <1>3 DEF Before

\* An operation that neither erases headers nor writes a new one.
KeepsNew(t) == t.op # "erase names" /\ ~(t.op = "head" /\ t.head.flag = "using")

\* The new headers of u are those of td, one position on, and in order.
SameNew(u, td, W) ==
  /\ \A p \in 1 .. Len(u) : NewAt(u, p) => p - 1 \in 1 .. Len(td) /\ NewAt(td, p - 1)
  /\ \A k : NoErase(u, k) <=> NoErase(td, k)
  /\ NewApart(u, W) /\ ErasedFirst(u)

\* A mask or a namespace may be written before a plan: new headers keep their
\* order.
LEMMA BeforeNew ==
  ASSUME NEW W, NEW t \in FlashOps, NEW td \in Seq(FlashOps), NEW u \in Seq(FlashOps),
         Before(u, t, td),
         NewApart(td, W), ErasedFirst(td),
         KeepsNew(t)
  PROVE  SameNew(u, td, W)
<1>1. /\ u \in Seq(FlashOps) /\ Len(u) = Len(td) + 1 /\ u[1] = t /\ Len(td) \in Nat
      /\ \A p \in 1 .. Len(td) : p + 1 \in 1 .. Len(u) /\ u[p + 1] = td[p]
      /\ \A p \in 1 .. Len(u) : p # 1 => p - 1 \in 1 .. Len(td) /\ u[p] = td[p - 1]
  BY DEF Before
<1>2. Len(u) \in Nat /\ Len(td) \in Nat /\ Len(u) = Len(td) + 1
  BY DEF Before
<1>3. ~NewAt(u, 1) /\ \A k : ~EraseAt(u, 1, k)
  BY <1>1 DEF NewAt, EraseAt, KeepsNew
<1>4. \A p \in 1 .. Len(u) :
        NewAt(u, p) => p - 1 \in 1 .. Len(td) /\ u[p] = td[p - 1] /\ NewAt(td, p - 1)
  BY <1>1, <1>3 DEF NewAt
<1>5. \A p \in 1 .. Len(u) : \A k :
        EraseAt(u, p, k) => p - 1 \in 1 .. Len(td) /\ EraseAt(td, p - 1, k)
  BY <1>1, <1>3 DEF EraseAt
<1>6. \A p \in 1 .. Len(td) : \A k : EraseAt(td, p, k) => EraseAt(u, p + 1, k)
  BY <1>1 DEF EraseAt
<1>7. \A k : NoErase(u, k) <=> NoErase(td, k)
  BY <1>1, <1>5, <1>6 DEF NoErase
<1>8. ErasedFirst(u)
  <2> SUFFICES ASSUME NEW p \in 1 .. Len(u), NEW e \in 1 .. Len(u),
                      NewAt(u, p), EraseAt(u, e, u[p].slot)
               PROVE  e < p
    BY DEF ErasedFirst
  <2>1. p - 1 \in 1 .. Len(td) /\ u[p] = td[p - 1] /\ NewAt(td, p - 1)
    BY <1>4
  <2>2. e - 1 \in 1 .. Len(td) /\ EraseAt(td, e - 1, td[p - 1].slot)
    BY <1>5, <2>1
  <2>3. e - 1 < p - 1
    BY <2>1, <2>2 DEF ErasedFirst
  <2>4. e \in Int /\ p \in Int
    BY <1>2
  <2>5. \A x, y \in Int : x - 1 < y - 1 => x < y
    OBVIOUS
  <2> QED
    BY <2>3, <2>4, <2>5
<1>9. NewApart(u, W)
  <2> SUFFICES ASSUME NEW p \in 1 .. Len(u), NEW q \in 1 .. p - 1,
                      NewAt(u, p), NewAt(u, q), u[q].slot = u[p].slot
               PROVE  /\ u[q].entry < u[p].entry
                      /\ End(u[q].head) <= u[p].head.off
                      /\ u[p].head.name \in W => u[q].head.name # u[p].head.name
    BY DEF NewApart
  <2>1. p - 1 \in 1 .. Len(td) /\ u[p] = td[p - 1] /\ NewAt(td, p - 1)
    BY <1>4
  <2>2. q \in 1 .. Len(u)
    BY <1>2
  <2>3. q - 1 \in 1 .. Len(td) /\ u[q] = td[q - 1] /\ NewAt(td, q - 1)
    BY <1>4, <2>2
  <2>4. q - 1 \in 1 .. (p - 1) - 1
    BY <1>2, <2>3
  <2> QED
    BY <2>1, <2>3, <2>4 DEF NewApart
<1> QED
  BY <1>4, <1>7, <1>8, <1>9 DEF SameNew

\* An entry in use is masked before a plan for the headers with it masked.
LEMMA MaskGood ==
  ASSUME NEW W, NEW j \in Slots, NEW i \in Entries, NEW e \in Headers,
         NEW hs \in HeadTables, hs[j][i].flag = "using", e = [hs[j][i] EXCEPT !.flag = "mask"],
         NEW hs2 \in HeadTables, hs2[j] = [hs[j] EXCEPT ![i] = e],
         NEW tb, NEW td, Good(td, j, hs2, tb, W), NEW u, Before(u, WriteHead(j, i, e), td)
  PROVE  u \in Seq(FlashOps) /\ Orderly(u, hs, tb, W) /\ TableKept(u)
<1> DEFINE t == WriteHead(j, i, e)
<1>1. t.op = "head" /\ t.slot = j /\ t.entry = i /\ t.head = e /\ t \in FlashOps
  BY DEF WriteHead, FlashOps
<1>2. e.flag = "mask" /\ hs[j][i] \in Headers /\ e.name = hs[j][i].name
      /\ e.off = hs[j][i].off /\ End(e) = End(hs[j][i]) /\ hs[j][i] # Free /\ e # Free
  <2>1. hs[j][i] \in Headers
    BY DEF HeadTables, Free
  <2> QED
    BY <2>1, HeaderTypes DEF Headers, End
<1> HIDE DEF t
<1>3. Before(u, t, td) /\ td \in Seq(FlashOps)
  BY DEF t, Good
<1>4. /\ u \in Seq(FlashOps) /\ Len(u) = Len(td) + 1 /\ u[1] = t /\ Len(td) \in Nat
      /\ \A p \in 1 .. Len(td) : p + 1 \in 1 .. Len(u) /\ u[p + 1] = td[p]
      /\ \A p \in 1 .. Len(u) : p # 1 => p - 1 \in 1 .. Len(td) /\ u[p] = td[p - 1]
  BY <1>3 DEF Before
<1>5. KeepsNew(t)
  BY <1>1, <1>2 DEF KeepsNew
<1>6. NewApart(td, W) /\ ErasedFirst(td)
  BY DEF Good, Orderly
<1>7. /\ \A p \in 1 .. Len(u) : NewAt(u, p) => p - 1 \in 1 .. Len(td) /\ NewAt(td, p - 1)
      /\ \A k : NoErase(u, k) <=> NoErase(td, k)
      /\ NewApart(u, W) /\ ErasedFirst(u)
  <2>1. SameNew(u, td, W)
    BY <1>1, <1>3, <1>4, <1>5, <1>6, BeforeNew
  <2> QED
    BY <2>1 DEF SameNew
<1>8. \A p \in 1 .. Len(u) : u[p].op \notin {"space", "erase table"}
  <2>1. \A p \in 1 .. Len(td) : td[p].op \notin {"space", "erase table"}
    BY DEF Good, OneNamespace
  <2>2. u[1].op \notin {"space", "erase table"}
    BY <1>1, <1>4
  <2> QED
    BY <1>4, <2>1, <2>2
<1>9. \A p \in 1 .. Len(u) : MaskAt(u, p) => p = 1
  <2>1. \A p \in 1 .. Len(td) : ~MaskAt(td, p)
    BY DEF Good, OneNamespace
  <2> QED
    BY <1>4, <2>1 DEF MaskAt
<1>10. MasksFirst(u, hs)
  <2>1. /\ u[1].slot = j /\ u[1].entry = i /\ u[1].head = [hs[j][i] EXCEPT !.flag = "mask"]
        /\ \A q \in 1 .. 1 - 1 : FALSE
    BY <1>1, <1>4
  <2> QED
    BY <1>9, <2>1 DEF MasksFirst
<1>11. SpacesApart(u, tb, W)
  BY <1>8 DEF SpacesApart
<1>12. /\ \A k \in Entries : k # i => hs2[j][k] = hs[j][k]
       /\ hs2[j][i] = e
  BY DEF HeadTables
<1>13. \A p \in 1 .. Len(u) : NewAt(u, p) =>
         p - 1 \in 1 .. Len(td) /\ NewAt(td, p - 1) /\ u[p] = td[p - 1] /\ u[p].slot = j
         /\ u[p].entry \in Entries
  <2> SUFFICES ASSUME NEW p \in 1 .. Len(u), NewAt(u, p)
               PROVE  p - 1 \in 1 .. Len(td) /\ NewAt(td, p - 1) /\ u[p] = td[p - 1]
                      /\ u[p].slot = j /\ u[p].entry \in Entries
    OBVIOUS
  <2>1. p - 1 \in 1 .. Len(td) /\ NewAt(td, p - 1)
    BY <1>7
  <2>2. (p - 1) + 1 = p
    OBVIOUS
  <2>3. u[p] = td[p - 1]
    BY <1>4, <2>1, <2>2
  <2>4. u[p] \in FlashOps /\ u[p].op = "head"
    BY <1>4 DEF NewAt
  <2>5. td[p - 1].slot = j
    BY <2>1 DEF Good, OneNamespace
  <2> QED
    BY <2>1, <2>3, <2>4, <2>5, OpTypes
<1>14. NewFree(u, hs)
  <2> SUFFICES ASSUME NEW p \in 1 .. Len(u), NewAt(u, p), NoErase(u, u[p].slot),
                      NEW k \in u[p].entry .. NameSlots
               PROVE  hs[u[p].slot][k] = Free
    BY DEF NewFree
  <2>1. NoErase(td, j) /\ k \in td[p - 1].entry .. NameSlots
    BY <1>7, <1>13
  <2>2. NewFree(td, hs2) /\ td[p - 1].slot = j /\ p - 1 \in 1 .. Len(td) /\ NewAt(td, p - 1)
    BY <1>13 DEF Good, Orderly
  <2>3. hs2[j][k] = Free
    BY <2>1, <2>2 DEF NewFree
  <2>4. k \in Entries
    BY <1>13, MatterFlashAssumption DEF Entries
  <2> QED
    BY <1>2, <1>12, <1>13, <2>3, <2>4
<1>15. NewAlone(u, hs, W)
  <2> SUFFICES ASSUME NEW p \in 1 .. Len(u), NewAt(u, p), NoErase(u, u[p].slot),
                      u[p].head.name \in W,
                      NEW k \in InUse(hs[u[p].slot], u[p].head.name)
               PROVE  \E q \in 1 .. p - 1 :
                        MaskAt(u, q) /\ u[q].slot = u[p].slot /\ u[q].entry = k
    BY DEF NewAlone
  <2>1. k = i
    <3> SUFFICES ASSUME k # i PROVE FALSE
      OBVIOUS
    <3>1. k \in InUse(hs2[j], td[p - 1].head.name)
      BY <1>12, <1>13 DEF InUse
    <3>2. NoErase(td, td[p - 1].slot) /\ td[p - 1].slot = j
      BY <1>7, <1>13
    <3>3. \E q \in 1 .. (p - 1) - 1 : MaskAt(td, q)
      BY <1>13, <3>1, <3>2 DEF Good, Orderly, NewAlone
    <3>4. \A q \in 1 .. (p - 1) - 1 : q \in 1 .. Len(td)
      BY <1>13
    <3> QED
      BY <3>3, <3>4 DEF Good, OneNamespace
  <2>2. 1 \in 1 .. p - 1 /\ u[p].slot = j
    BY <1>13
  <2>3. MaskAt(u, 1) /\ u[1].slot = j /\ u[1].entry = i
    BY <1>1, <1>2, <1>4 DEF MaskAt
  <2> QED
    BY <2>1, <2>2, <2>3
<1>16. NewBehind(u, hs)
  <2> SUFFICES ASSUME NEW p \in 1 .. Len(u), NewAt(u, p), NEW k \in 1 .. u[p].entry - 1
               PROVE  \/ \E q \in 1 .. p - 1 :
                           NewAt(u, q) /\ u[q].slot = u[p].slot /\ u[q].entry = k
                      \/ /\ NoErase(u, u[p].slot)
                         /\ hs[u[p].slot][k] # Free /\ End(hs[u[p].slot][k]) <= u[p].head.off
    BY DEF NewBehind
  <2>1. CASE \E q \in 1 .. (p - 1) - 1 :
               NewAt(td, q) /\ td[q].slot = td[p - 1].slot /\ td[q].entry = k
    <3>1. PICK q \in 1 .. (p - 1) - 1 :
            NewAt(td, q) /\ td[q].slot = td[p - 1].slot /\ td[q].entry = k
      BY <2>1
    <3>2. q \in 1 .. Len(td) /\ q + 1 \in 1 .. p - 1
      BY <1>13
    <3>3. u[q + 1] = td[q] /\ NewAt(u, q + 1)
      BY <1>4, <3>1, <3>2 DEF NewAt
    <3> QED
      BY <1>13, <3>1, <3>2, <3>3
  <2>2. CASE ~\E q \in 1 .. (p - 1) - 1 :
               NewAt(td, q) /\ td[q].slot = td[p - 1].slot /\ td[q].entry = k
    <3>1. /\ NoErase(td, td[p - 1].slot)
          /\ hs2[td[p - 1].slot][k] # Free
          /\ End(hs2[td[p - 1].slot][k]) <= td[p - 1].head.off
      BY <1>13, <2>2 DEF Good, Orderly, NewBehind
    <3>2. k \in Entries
      BY <1>13, MatterFlashAssumption DEF Entries
    <3>3. hs[j][k] # Free /\ End(hs[j][k]) = End(hs2[j][k])
      BY <1>2, <1>12, <1>13, <3>1, <3>2
    <3> QED
      BY <1>7, <1>13, <3>1, <3>3
  <2> QED
    BY <2>1, <2>2
<1> QED
  BY <1>4, <1>7, <1>8, <1>10, <1>11, <1>14, <1>15, <1>16 DEF Orderly, TableKept

\* A namespace is written before a plan for it when the table does not hold it.
LEMMA SpaceGood ==
  ASSUME NEW W, NEW j \in Slots, NEW s \in Spaces, NEW hs, NEW tb,
         s \in W => \A l \in Slots : tb[l] # s,
         NEW td \in Seq(FlashOps), Orderly(td, hs, tb, W),
         TableKept(td), NEW u, Before(u, WriteSpace(j, s), td)
  PROVE  u \in Seq(FlashOps) /\ Orderly(u, hs, tb, W)
<1> DEFINE t == WriteSpace(j, s)
<1>1. t.op = "space" /\ t.name = s /\ t \in FlashOps
  BY DEF WriteSpace, FlashOps
<1> HIDE DEF t
<1>2. /\ u \in Seq(FlashOps) /\ Len(u) = Len(td) + 1 /\ u[1] = t /\ Len(td) \in Nat
      /\ \A p \in 1 .. Len(td) : p + 1 \in 1 .. Len(u) /\ u[p + 1] = td[p]
      /\ \A p \in 1 .. Len(u) : p # 1 => p - 1 \in 1 .. Len(td) /\ u[p] = td[p - 1]
  BY DEF Before, t
<1>3. SameNew(u, td, W)
  <2>1. Before(u, t, td) /\ KeepsNew(t) /\ NewApart(td, W) /\ ErasedFirst(td)
    BY <1>1 DEF t, KeepsNew, Orderly
  <2> QED
    BY <1>1, <1>2, <2>1, BeforeNew
<1>4. NewApart(u, W) /\ ErasedFirst(u) /\ \A k : NoErase(u, k) <=> NoErase(td, k)
  BY <1>3 DEF SameNew
<1>5. \A p \in 1 .. Len(u) :
        NewAt(u, p) => p - 1 \in 1 .. Len(td) /\ NewAt(td, p - 1) /\ u[p] = td[p - 1]
  BY <1>1, <1>2 DEF NewAt
<1>6. \A p \in 1 .. Len(u) :
        MaskAt(u, p) => p - 1 \in 1 .. Len(td) /\ MaskAt(td, p - 1) /\ u[p] = td[p - 1]
  BY <1>1, <1>2 DEF MaskAt
<1>7. \A p \in 1 .. Len(u) : u[p].op = "space" => p = 1
  BY <1>2 DEF TableKept
<1>8. \A q \in 1 .. Len(td) :
        /\ NewAt(td, q) => NewAt(u, q + 1)
        /\ MaskAt(td, q) => MaskAt(u, q + 1)
        /\ u[q + 1] = td[q]
  BY <1>2 DEF NewAt, MaskAt
<1>9. SpacesApart(u, tb, W)
  <2>0. 1 .. 1 - 1 = {}
    OBVIOUS
  <2> SUFFICES ASSUME NEW p \in 1 .. Len(u), u[p].op = "space", u[p].name \in W
               PROVE  /\ 1 .. p - 1 = {}
                      /\ \A l \in Slots : tb[l] # u[p].name
    BY DEF SpacesApart
  <2>1. p = 1
    BY <1>7
  <2>2. 1 .. p - 1 = {}
    BY <2>0, <2>1
  <2>3. u[p].name = s
    BY <1>1, <1>2, <2>1
  <2> QED
    BY <2>2, <2>3
<1>14. Len(u) \in Nat /\ Len(td) \in Nat /\ Len(u) = Len(td) + 1
  BY BeforeLen
<1>10. MasksFirst(u, hs)
  <2> SUFFICES ASSUME NEW p \in 1 .. Len(u), MaskAt(u, p)
               PROVE  /\ hs[u[p].slot][u[p].entry].flag = "using"
                      /\ u[p].head = [hs[u[p].slot][u[p].entry] EXCEPT !.flag = "mask"]
                      /\ \A q \in 1 .. p - 1 : u[q].op = "space"
    BY DEF MasksFirst
  <2>1. p - 1 \in 1 .. Len(td) /\ MaskAt(td, p - 1) /\ u[p] = td[p - 1]
    BY <1>6
  <2>2. /\ hs[u[p].slot][u[p].entry].flag = "using"
        /\ u[p].head = [hs[u[p].slot][u[p].entry] EXCEPT !.flag = "mask"]
        /\ \A q \in 1 .. (p - 1) - 1 : td[q].op = "space"
    BY <2>1 DEF Orderly, MasksFirst
  <2>3. ASSUME NEW q \in 1 .. p - 1 PROVE u[q].op = "space"
    <3>1. CASE q = 1
      BY <1>1, <1>2, <3>1
    <3>2. CASE q # 1
      <4>1. q - 1 \in 1 .. (p - 1) - 1 /\ q \in 1 .. Len(u)
        BY <1>14, <2>1, <3>2
      <4> QED
        BY <1>2, <2>2, <3>2, <4>1
    <3> QED
      BY <3>1, <3>2
  <2> QED
    BY <2>2, <2>3
<1>11. NewFree(u, hs)
  <2> SUFFICES ASSUME NEW p \in 1 .. Len(u), NewAt(u, p), NoErase(u, u[p].slot),
                      NEW k \in u[p].entry .. NameSlots
               PROVE  hs[u[p].slot][k] = Free
    BY DEF NewFree
  <2>1. p - 1 \in 1 .. Len(td) /\ NewAt(td, p - 1) /\ u[p] = td[p - 1]
    BY <1>5
  <2>2. NewFree(td, hs) /\ NoErase(td, td[p - 1].slot)
    BY <1>4, <2>1 DEF Orderly
  <2> QED
    BY <2>1, <2>2 DEF NewFree
<1>12. NewAlone(u, hs, W)
  <2> SUFFICES ASSUME NEW p \in 1 .. Len(u), NewAt(u, p), NoErase(u, u[p].slot),
                      u[p].head.name \in W,
                      NEW k \in InUse(hs[u[p].slot], u[p].head.name)
               PROVE  \E q \in 1 .. p - 1 :
                        MaskAt(u, q) /\ u[q].slot = u[p].slot /\ u[q].entry = k
    BY DEF NewAlone
  <2>1. p - 1 \in 1 .. Len(td) /\ NewAt(td, p - 1) /\ u[p] = td[p - 1]
    BY <1>5
  <2>2. NewAlone(td, hs, W) /\ NoErase(td, td[p - 1].slot)
        /\ k \in InUse(hs[td[p - 1].slot], td[p - 1].head.name)
    BY <1>4, <2>1 DEF Orderly
  <2>3. PICK q \in 1 .. (p - 1) - 1 :
          MaskAt(td, q) /\ td[q].slot = td[p - 1].slot /\ td[q].entry = k
    BY <2>1, <2>2 DEF NewAlone
  <2>4. q \in 1 .. Len(td) /\ q + 1 \in 1 .. p - 1
    BY <1>14, <2>1
  <2> QED
    BY <1>8, <2>1, <2>3, <2>4
<1>13. NewBehind(u, hs)
  <2> SUFFICES ASSUME NEW p \in 1 .. Len(u), NewAt(u, p), NEW k \in 1 .. u[p].entry - 1
               PROVE  \/ \E q \in 1 .. p - 1 :
                           NewAt(u, q) /\ u[q].slot = u[p].slot /\ u[q].entry = k
                      \/ /\ NoErase(u, u[p].slot)
                         /\ hs[u[p].slot][k] # Free /\ End(hs[u[p].slot][k]) <= u[p].head.off
    BY DEF NewBehind
  <2>1. p - 1 \in 1 .. Len(td) /\ NewAt(td, p - 1) /\ u[p] = td[p - 1]
    BY <1>5
  <2>2. NewBehind(td, hs) /\ k \in 1 .. td[p - 1].entry - 1
    BY <2>1 DEF Orderly
  <2>3. CASE \E q \in 1 .. (p - 1) - 1 :
               NewAt(td, q) /\ td[q].slot = td[p - 1].slot /\ td[q].entry = k
    <3>1. PICK q \in 1 .. (p - 1) - 1 :
            NewAt(td, q) /\ td[q].slot = td[p - 1].slot /\ td[q].entry = k
      BY <2>3
    <3>2. q \in 1 .. Len(td) /\ q + 1 \in 1 .. p - 1
      BY <1>14, <2>1
    <3> QED
      BY <1>8, <2>1, <3>1, <3>2
  <2>4. CASE ~\E q \in 1 .. (p - 1) - 1 :
               NewAt(td, q) /\ td[q].slot = td[p - 1].slot /\ td[q].entry = k
    <3>1. /\ NoErase(td, td[p - 1].slot)
          /\ hs[td[p - 1].slot][k] # Free
          /\ End(hs[td[p - 1].slot][k]) <= td[p - 1].head.off
      BY <2>1, <2>2, <2>4 DEF NewBehind
    <3> QED
      BY <1>4, <2>1, <3>1
  <2> QED
    BY <2>3, <2>4
<1> QED
  BY <1>2, <1>4, <1>9, <1>10, <1>11, <1>12, <1>13 DEF Orderly

\* Masking an entry leaves headers that a new one of its name can join.
LEMMA MaskedHeaders ==
  ASSUME NEW W, NEW h \in [Entries -> Headers \union {Free}], Apart(h), OneEntryOf(h, W),
         NEW i \in Entries, h[i].flag = "using",
         NEW e, e = [h[i] EXCEPT !.flag = "mask"], NEW g, g = [h EXCEPT ![i] = e]
  PROVE  e \in Headers /\ HeadersOf(g, h[i].name, W)
<1>1. h[i] \in Headers
  BY DEF Free
<1>2. /\ e \in Headers /\ e.flag = "mask" /\ e.name = h[i].name /\ e.off = h[i].off
      /\ End(e) = End(h[i]) /\ e # Free /\ h[i] # Free
  <2>1. e \in Headers /\ e.flag = "mask" /\ e.off = h[i].off /\ e.len = h[i].len
        /\ e.name = h[i].name
    BY <1>1 DEF Headers
  <2> QED
    BY <1>1, <2>1, HeaderTypes DEF End
<1>3. /\ g \in [Entries -> Headers \union {Free}] /\ g[i] = e
      /\ \A k \in Entries : k # i => g[k] = h[k]
  BY <1>2
<1>4. Apart(g)
  <2>1. \A k \in Entries : \A l \in 1 .. k - 1 : l \in Entries
    BY MatterFlashAssumption DEF Entries
  <2>2. \A k \in Entries :
          /\ g[k] # Free <=> h[k] # Free
          /\ h[k] # Free => g[k].off = h[k].off /\ End(g[k]) = End(h[k])
    BY <1>2, <1>3
  <2> QED
    BY <2>1, <2>2 DEF Apart
<1>5. \A k \in Entries : g[k].flag = "using" => k # i /\ g[k] = h[k]
  BY <1>2, <1>3
<1>6. OneEntryOf(g, W)
  BY <1>5 DEF OneEntryOf
<1>7. h[i].name \in W => \A k \in Entries : ~(g[k].flag = "using" /\ g[k].name = h[i].name)
  BY <1>5 DEF OneEntryOf
<1> QED
  BY <1>2, <1>3, <1>4, <1>6, <1>7 DEF HeadersOf

\* A plan is the answer it will give and what it has to do.
LEMMA NewEntryForm ==
  ASSUME NEW j, NEW h, NEW n, NEW v
  PROVE  NewEntry(j, h, n, v) = [ok |-> NewEntry(j, h, n, v).ok, todo |-> NewEntry(j, h, n, v).todo]
BY DEF NewEntry, Reorganize, Nothing

\* A plan that does nothing to flash but what the invariant allows.
Sound(p, hs, tb, W) ==
  /\ p = [ok |-> p.ok, todo |-> p.todo]
  /\ p.todo \in Seq(FlashOps) /\ Orderly(p.todo, hs, tb, W) /\ p.ok \in BOOLEAN

\* A plan with its own operations is itself.
LEMMA SamePlan ==
  ASSUME NEW p, NEW hs, NEW tb, NEW W, Sound(p, hs, tb, W)
  PROVE  p = [p EXCEPT !.todo = p.todo]
BY DEF Sound

\* Nothing to do is such a plan.
LEMMA NothingSound ==
  ASSUME NEW W, NEW ok \in BOOLEAN, NEW p, p = [ok |-> ok, todo |-> <<>>], NEW hs, NEW tb
  PROVE  Sound(p, hs, tb, W) /\ TableKept(p.todo)
<1> DEFINE td == p.todo
<1>1. td \in Seq(FlashOps) /\ Len(td) = 0 /\ p = [ok |-> p.ok, todo |-> td] /\ p.ok \in BOOLEAN
  OBVIOUS
<1> HIDE DEF td
<1>2. Good(td, 1, hs, tb, W)
  BY <1>1, NothingGood
<1> QED
  BY <1>1, <1>2 DEF Good, OneNamespace, TableKept, Sound, td

\* What a lookup without memory leaves to be found, and what it finds otherwise.
LEMMA FoundOrNot ==
  ASSUME NEW fails, NEW s, NEW j, NEW n
  PROVE  /\ SlotsFound(s, fails) = {} \/ SlotsFound(s, fails) = SlotsOf(s)
         /\ EntriesFound(j, n, fails) = {} \/ EntriesFound(j, n, fails) = InUse(heads[j], n)
BY DEF SlotsFound, EntriesFound

\* A new entry that a lookup without memory leads to is for a name that W leaves out.
LooksWell(j, n, W, fails) ==
  \/ "bk_set_name_data_new_addr" \in fails
  \/ EntriesFound(j, n, fails) = {} /\ n \in W => InUse(heads[j], n) = {}

\* bk_set_name_data: an entry with another value is masked, then a new one is
\* planned as if it were.
LEMMA SetNameDataSound ==
  ASSUME NEW W, heads \in HeadTables, cells \in [Slots -> [Offsets -> CellValues]],
         NEW j \in Slots, Apart(heads[j]), OneEntryOf(heads[j], W),
         NEW n \in Names, NEW v \in Values, NEW fails, LooksWell(j, n, W, fails), NEW tb
  PROVE  /\ Sound(SetNameData(j, n, v, fails), heads, tb, W)
         /\ TableKept(SetNameData(j, n, v, fails).todo)
<1> DEFINE h == heads[j]
           i == Min(InUse(h, n))
           e == [h[i] EXCEPT !.flag = "mask"]
           g == [h EXCEPT ![i] = e]
           hs2 == [heads EXCEPT ![j] = g]
           memory == "bk_set_name_data_new_addr" \notin fails
           new(k) == IF "bk_set_name_data_new_addr" \in fails THEN Nothing(FALSE)
                     ELSE NewEntry(j, k, n, v)
           p == SetNameData(j, n, v, fails)
<1>1. h \in [Entries -> Headers \union {Free}]
  BY DEF HeadTables
<1>2. ASSUME NEW k, memory => HeadersOf(k, n, W), NEW hs, hs[j] = k
      PROVE  /\ Good(new(k).todo, j, hs, tb, W) /\ new(k).ok \in BOOLEAN
             /\ new(k) = [ok |-> new(k).ok, todo |-> new(k).todo]
  <2>1. CASE memory
    <3>1. new(k) = NewEntry(j, k, n, v)
      BY <2>1
    <3>2. Good(NewEntry(j, k, n, v).todo, j, hs, tb, W) /\ NewEntry(j, k, n, v).ok \in BOOLEAN
      BY <1>2, <2>1, NewEntryGood
    <3>3. NewEntry(j, k, n, v)
            = [ok |-> NewEntry(j, k, n, v).ok, todo |-> NewEntry(j, k, n, v).todo]
      BY NewEntryForm
    <3> QED
      BY <3>1, <3>2, <3>3
  <2>2. CASE ~memory
    <3> DEFINE none == new(k)
    <3>1. none = [ok |-> FALSE, todo |-> <<>>]
      BY <2>2 DEF Nothing
    <3> HIDE DEF none
    <3>2. none.todo \in Seq(FlashOps) /\ Len(none.todo) = 0 /\ none.ok \in BOOLEAN
          /\ none = [ok |-> none.ok, todo |-> none.todo]
      BY <3>1
    <3>3. Good(none.todo, j, hs, tb, W)
      BY <3>2, NothingGood
    <3> QED
      BY <3>2, <3>3 DEF none
  <2> QED
    BY <2>1, <2>2
<1>3. CASE EntriesFound(j, n, fails) = {}
  <2>1. memory => HeadersOf(h, n, W)
    BY <1>1, <1>3 DEF HeadersOf, InUse, LooksWell
  <2>2. p = new(h)
    BY <1>3 DEF SetNameData
  <2>3. Good(new(h).todo, j, heads, tb, W) /\ new(h).ok \in BOOLEAN
        /\ new(h) = [ok |-> new(h).ok, todo |-> new(h).todo]
    BY <1>2, <2>1
  <2> QED
    BY <2>2, <2>3 DEF Good, OneNamespace, TableKept, Sound
<1>4. CASE EntriesFound(j, n, fails) # {} /\ Data(j, h[i]) = v
  <2>1. p = [ok |-> TRUE, todo |-> <<>>]
    BY <1>4 DEF SetNameData
  <2> QED
    BY <2>1, NothingSound
<1>5. CASE EntriesFound(j, n, fails) # {} /\ Data(j, h[i]) # v
  <2>1. i \in Entries /\ h[i].flag = "using" /\ h[i].name = n
    <3>0. InUse(h, n) # {}
      BY <1>5 DEF EntriesFound
    <3>1. InUse(h, n) \subseteq Nat
      BY DEF InUse, Entries
    <3>2. i \in InUse(h, n)
      BY <3>0, <3>1, MinLeast
    <3> QED
      BY <3>2 DEF InUse
  <2>2. e \in Headers /\ HeadersOf(g, n, W)
    <3>1. e \in Headers /\ HeadersOf(g, h[i].name, W)
      <4> HIDE DEF i
      <4> QED
        BY <1>1, <2>1, MaskedHeaders
    <3> QED
      BY <2>1, <3>1
  <2>3. hs2 \in HeadTables /\ hs2[j] = g
    BY <2>2 DEF HeadTables, HeadersOf
  <2> DEFINE m == new(g)
             td == m.todo
             u == p.todo
  <2>4. Good(td, j, hs2, tb, W) /\ m.ok \in BOOLEAN /\ m = [ok |-> m.ok, todo |-> td]
    BY <1>2, <2>2, <2>3
  <2>5. p = [m EXCEPT !.todo = <<Mask(j, i)>> \o m.todo]
    BY <1>5 DEF SetNameData
  <2>6. Mask(j, i) = WriteHead(j, i, e)
    BY DEF Mask
  <2> HIDE DEF m, e, i, g, hs2, p
  <2>7. u = <<WriteHead(j, i, e)>> \o td /\ p = [ok |-> p.ok, todo |-> u] /\ p.ok \in BOOLEAN
    BY <2>4, <2>5, <2>6
  <2>8. WriteHead(j, i, e) \in FlashOps /\ td \in Seq(FlashOps)
    BY <2>1, <2>2, <2>4 DEF WriteHead, FlashOps, Good
  <2> HIDE DEF td, u
  <2>9. Before(u, WriteHead(j, i, e), td)
    BY <2>7, <2>8, OneBefore
  <2>10. /\ heads[j][i].flag = "using" /\ e = [heads[j][i] EXCEPT !.flag = "mask"]
         /\ hs2[j] = [heads[j] EXCEPT ![i] = e]
    BY <2>1, <2>3 DEF e, g
  <2>11. u \in Seq(FlashOps) /\ Orderly(u, heads, tb, W) /\ TableKept(u)
    BY <2>1, <2>2, <2>3, <2>4, <2>9, <2>10, MaskGood
  <2> QED
    BY <2>7, <2>11 DEF Sound, u, p
<1> QED
  BY <1>3, <1>4, <1>5

\* The slot found for a namespace, and the one taken for a new one.
LEMMA SlotFound ==
  /\ \A s : SlotsOf(s) # {} => Slot(s) \in Slots /\ table[Slot(s)] = s
  /\ NewSlots # {} => Min(NewSlots) \in Slots
<1>1. /\ \A s : SlotsOf(s) \subseteq Slots
      /\ Slots \subseteq Nat /\ NewSlots \subseteq Slots
  BY DEF SlotsOf, NewSlots, Slots
<1>2. ASSUME NEW s, SlotsOf(s) # {} PROVE Slot(s) \in SlotsOf(s)
  <2>1. SlotsOf(s) \subseteq Nat
    BY <1>1
  <2> QED
    BY <1>2, <2>1, MinLeast DEF Slot
<1>3. ASSUME NewSlots # {} PROVE Min(NewSlots) \in NewSlots
  <2>1. NewSlots \subseteq Nat
    BY <1>1
  <2> QED
    BY <1>3, <2>1, MinLeast
<1> QED
  BY <1>1, <1>2, <1>3 DEF SlotsOf

\* bk_ensure_namespace writes a namespace of W only if the table does not hold it.
LEMMA PlanEnsureSound ==
  ASSUME NEW W, NEW s \in Spaces, NEW fails, s \in W => ~SpaceTwice(s, fails)
  PROVE  Sound(PlanEnsure(s, fails), heads, table, W)
<1> DEFINE p == PlanEnsure(s, fails)
           t == WriteSpace(Min(NewSlots), s)
           none == NewSlots = {} \/ "bk_set_namespace" \in fails
<1>1. CASE SlotsFound(s, fails) # {} \/ none
  <2>1. p = [ok |-> TRUE, todo |-> <<>>] \/ p = [ok |-> FALSE, todo |-> <<>>]
    BY <1>1 DEF PlanEnsure, Nothing
  <2> HIDE DEF p
  <2>2. Sound(p, heads, table, W)
    BY <2>1, NothingSound
  <2> QED
    BY <2>2 DEF p
<1>2. CASE SlotsFound(s, fails) = {} /\ ~none
  <2>1. p = [ok |-> TRUE, todo |-> <<t>>]
    BY <1>2 DEF PlanEnsure
  <2>2. Min(NewSlots) \in Slots /\ (s \in W => \A l \in Slots : table[l] # s)
    <3>1. PlanEnsure(s, fails).ok
      BY <2>1
    <3> HIDE DEF p
    <3> QED
      BY <1>2, <3>1, SlotFound DEF SlotsOf, SpaceTwice
  <2>3. t \in FlashOps
    BY <2>2 DEF WriteSpace, FlashOps
  <2> DEFINE td == <<>>
             u == p.todo
  <2> HIDE DEF p
  <2>4. td \in Seq(FlashOps) /\ Len(td) = 0 /\ u = <<t>> \o td
    BY <2>1, <2>3
  <2>5. p = [ok |-> p.ok, todo |-> u] /\ p.ok \in BOOLEAN
    BY <2>1
  <2> HIDE DEF td, u, t
  <2>6. Before(u, t, td)
    BY <2>3, <2>4, OneBefore
  <2>7. Good(td, 1, heads, table, W)
    BY <2>4, NothingGood
  <2>8. Orderly(td, heads, table, W) /\ TableKept(td)
    BY <2>7 DEF Good, OneNamespace, TableKept
  <2>9. u \in Seq(FlashOps) /\ Orderly(u, heads, table, W)
    BY <2>2, <2>4, <2>6, <2>8, SpaceGood DEF t
  <2> QED
    BY <2>5, <2>9 DEF Sound, u, p
<1> QED
  BY <1>1, <1>2

\* bk_write_data: the namespace if there is none, then the value.
LEMMA PlanWriteSound ==
  ASSUME NEW W, heads \in HeadTables, cells \in [Slots -> [Offsets -> CellValues]],
         \A j \in Slots : Apart(heads[j]) /\ OneEntryOf(heads[j], W),
         NEW s \in Spaces, NEW n \in Names, NEW v \in Values, NEW fails,
         s \in W => ~SpaceTwice(s, fails), n \in W => ~NameTwice(s, n, fails)
  PROVE  Sound(PlanWrite(s, n, v, fails), heads, table, W)
<1> DEFINE p == PlanWrite(s, n, v, fails)
           space == PlanEnsure(s, fails)
           j == SlotFor(s, fails)
           set == SetNameData(j, n, v, fails)
           t == WriteSpace(j, s)
<1>1. CASE ~space.ok
  <2>1. p = space
    BY <1>1 DEF PlanWrite
  <2> QED
    BY <2>1, PlanEnsureSound
<1>2. CASE space.ok
  <2>0. \/ SlotsFound(s, fails) # {} /\ space = Nothing(TRUE)
        \/ SlotsFound(s, fails) = {} /\ NewSlots # {} /\ space = [ok |-> TRUE, todo |-> <<t>>]
    BY <1>2 DEF PlanEnsure, Nothing, SlotFor
  <2>1. j \in Slots
    BY <2>0, FoundOrNot, SlotFound DEF SlotFor
  <2>2. LooksWell(j, n, W, fails)
    BY <1>2 DEF LooksWell, NameTwice
  <2>3. Sound(set, heads, table, W) /\ TableKept(set.todo)
    <3> HIDE DEF j
    <3> QED
      BY <2>1, <2>2, SetNameDataSound
  <2>4. p = [set EXCEPT !.todo = space.todo \o set.todo]
    BY <1>2 DEF PlanWrite
  <2>5. CASE SlotsFound(s, fails) # {}
    <3>1. space.todo = <<>>
      BY <2>0, <2>5 DEF Nothing
    <3> HIDE DEF space, p, set
    <3>2. space.todo \o set.todo = set.todo
      BY <2>3, <3>1 DEF Sound
    <3>3. p = [set EXCEPT !.todo = set.todo]
      BY <2>4, <3>2
    <3>4. p = set
      BY <2>3, <3>3, SamePlan
    <3> QED
      BY <2>3, <3>4 DEF p
  <2>6. CASE SlotsFound(s, fails) = {}
    <3> DEFINE td == set.todo
               u == p.todo
    <3>0. space.todo = <<t>>
      BY <2>0, <2>6
    <3>1. p = [set EXCEPT !.todo = <<t>> \o set.todo]
      BY <2>4, <3>0
    <3>2. t \in FlashOps
      BY <2>1 DEF WriteSpace, FlashOps
    <3>3. s \in W => \A l \in Slots : table[l] # s
      BY <1>2, <2>6 DEF SpaceTwice, SlotsOf
    <3> HIDE DEF j, p, set
    <3>4. p = [ok |-> p.ok, todo |-> u] /\ p.ok \in BOOLEAN /\ u = <<t>> \o td
      BY <2>3, <3>1 DEF Sound
    <3>5. td \in Seq(FlashOps) /\ Orderly(td, heads, table, W) /\ TableKept(td)
      BY <2>3 DEF Sound
    <3> HIDE DEF td, u, t
    <3>6. Before(u, t, td)
      BY <3>2, <3>4, <3>5, OneBefore
    <3>7. u \in Seq(FlashOps) /\ Orderly(u, heads, table, W)
      BY <2>1, <3>3, <3>5, <3>6, SpaceGood DEF t
    <3> QED
      BY <3>4, <3>7 DEF Sound, u, p
  <2> QED
    BY <2>5, <2>6
<1> QED
  BY <1>1, <1>2

\* bk_clean_data masks an entry in use.
LEMMA PlanCleanSound ==
  ASSUME NEW W, heads \in HeadTables, \A j \in Slots : Apart(heads[j]) /\ OneEntryOf(heads[j], W),
         NEW s \in Spaces, NEW n \in Names, NEW fails
  PROVE  Sound(PlanClean(s, n, fails), heads, table, W)
<1> DEFINE p == PlanClean(s, n, fails)
           j == Slot(s)
           h == heads[j]
           i == Min(InUse(h, n))
           e == [h[i] EXCEPT !.flag = "mask"]
           hs2 == [heads EXCEPT ![j] = [h EXCEPT ![i] = e]]
           t == WriteHead(j, i, e)
<1>1. CASE SlotsFound(s, fails) = {} \/ EntriesFound(j, n, fails) = {}
  <2>1. p = [ok |-> FALSE, todo |-> <<>>]
    BY <1>1 DEF PlanClean, Nothing
  <2> QED
    BY <2>1, NothingSound
<1>2. CASE SlotsFound(s, fails) # {} /\ EntriesFound(j, n, fails) # {}
  <2>0. SlotsOf(s) # {} /\ InUse(h, n) # {}
    BY <1>2, FoundOrNot
  <2>1. j \in Slots
    BY <2>0, SlotFound
  <2>2. i \in Entries /\ h[i].flag = "using"
    <3>1. InUse(h, n) \subseteq Nat
      BY DEF InUse, Entries
    <3>2. i \in InUse(h, n)
      BY <2>0, <3>1, MinLeast
    <3> QED
      BY <3>2 DEF InUse
  <2>3. p = [ok |-> TRUE, todo |-> <<t>>]
    BY <1>2 DEF PlanClean, Mask
  <2>4. e \in Headers /\ h \in [Entries -> Headers \union {Free}]
    <3>1. h \in [Entries -> Headers \union {Free}] /\ Apart(h) /\ OneEntryOf(h, W)
      BY <2>1 DEF HeadTables
    <3> HIDE DEF h, i
    <3> QED
      BY <2>2, <3>1, MaskedHeaders
  <2>5. hs2 \in HeadTables /\ hs2[j] = [heads[j] EXCEPT ![i] = e]
    BY <2>1, <2>4 DEF HeadTables
  <2>6. t \in FlashOps
    BY <2>1, <2>2, <2>4 DEF WriteHead, FlashOps
  <2> DEFINE td == <<>>
             u == p.todo
  <2>7. heads[j][i].flag = "using" /\ e = [heads[j][i] EXCEPT !.flag = "mask"]
    BY <2>2
  <2> HIDE DEF p, h, i, e, hs2, t
  <2>8. td \in Seq(FlashOps) /\ Len(td) = 0 /\ u = <<t>> \o td
    BY <2>3, <2>6
  <2>9. p = [ok |-> p.ok, todo |-> u] /\ p.ok \in BOOLEAN
    BY <2>3
  <2> HIDE DEF td, u
  <2>10. Before(u, WriteHead(j, i, e), td)
    BY <2>6, <2>8, OneBefore DEF t
  <2>11. Good(td, j, hs2, table, W)
    BY <2>8, NothingGood
  <2>12. u \in Seq(FlashOps) /\ Orderly(u, heads, table, W)
    BY <2>1, <2>2, <2>4, <2>5, <2>7, <2>10, <2>11, MaskGood
  <2> QED
    BY <2>9, <2>12 DEF Sound, u, p
<1> QED
  BY <1>1, <1>2

-----------------------------------------------------------------------------
(* Plans that write no header. *)

NoHeads(td) == \A p \in 1 .. Len(td) : ~NewAt(td, p) /\ ~MaskAt(td, p)

\* Such a plan is in order if the namespaces it writes are.
LEMMA NoHeadsOrderly ==
  ASSUME NEW W, NEW td \in Seq(FlashOps), NoHeads(td), NEW hs, NEW tb, SpacesApart(td, tb, W)
  PROVE  Orderly(td, hs, tb, W)
BY DEF Orderly, NoHeads, MasksFirst, ErasedFirst, NewApart, NewBehind, NewFree, NewAlone

\* Erases, and what a clear writes back.
Erases == {t \in FlashOps : t.op \in {"erase table", "erase names", "erase data"}}
TableWrites == {t \in FlashOps : t.op = "space"}

\* bk_erase_all does nothing but erase.
LEMMA PlanEraseAllSound ==
  ASSUME NEW W
  PROVE  Sound(PlanEraseAll, heads, table, W)
<1> DEFINE td == PlanEraseAll.todo
           a == [j \in Slots |-> EraseNames(j)]
           b == [j \in Slots |-> EraseData(j)]
<1>1. EraseTable \in Erases
  BY DEF EraseTable, Erases, FlashOps
<1>2. \A j \in Slots : EraseNames(j) \in Erases /\ EraseData(j) \in Erases
  BY DEF EraseNames, EraseData, Erases, FlashOps
<1>3. a \in Seq(Erases) /\ b \in Seq(Erases)
  BY <1>2, MatterFlashAssumption DEF Slots
<1>4. td = <<EraseTable>> \o a \o b /\ PlanEraseAll.ok \in BOOLEAN
      /\ PlanEraseAll = [ok |-> PlanEraseAll.ok, todo |-> td]
  BY DEF PlanEraseAll
<1> HIDE DEF a, b, td
<1>5. td \in Seq(Erases)
  BY <1>1, <1>3, <1>4
<1>6. \A p \in 1 .. Len(td) : td[p] \in Erases
  BY <1>5
<1>7. td \in Seq(FlashOps)
  <2>1. Erases \subseteq FlashOps
    BY DEF Erases
  <2> QED
    BY <1>5, <2>1
<1>8. NoHeads(td) /\ SpacesApart(td, table, W)
  BY <1>6 DEF Erases, NoHeads, NewAt, MaskAt, SpacesApart
<1>9. Orderly(td, heads, table, W)
  BY <1>7, <1>8, NoHeadsOrderly
<1> QED
  BY <1>4, <1>7, <1>9 DEF Sound, td

\* One slot of the table, as bK_clear_namespace's loop deals with it.
BackTurn(b, s, i) ==
  IF i = Slot(s) \/ table[i] = NoName THEN b ELSE Append(b, WriteSpace(i, table[i]))
BackTurned(f, s) == [i \in 0 .. SpaceSlots |-> IF i = 0 THEN <<>> ELSE BackTurn(f[i - 1], s, i)]

\* This loop is defined too.
LEMMA BackExists ==
  ASSUME NEW s
  PROVE  \E f : f = BackTurned(f, s)
<1> DEFINE Turns(f, n) == f = [i \in 0 .. n |-> IF i = 0 THEN <<>> ELSE BackTurn(f[i - 1], s, i)]
           S == {n \in Nat : \E f : Turns(f, n)}
<1>1. 0 \in S
  <2>1. Turns([i \in 0 .. 0 |-> <<>>], 0)
    <3>1. \A i \in 0 .. 0 : i = 0
      OBVIOUS
    <3> QED
      BY <3>1
  <2> QED
    BY <2>1
<1>2. ASSUME NEW n \in Nat, n \in S PROVE n + 1 \in S
  <2>1. PICK f : Turns(f, n)
    BY <1>2
  <2> DEFINE g == [i \in 0 .. n + 1 |-> IF i <= n THEN f[i] ELSE BackTurn(f[n], s, n + 1)]
  <2>2. \A i \in 0 .. n + 1 : g[i] = IF i = 0 THEN <<>> ELSE BackTurn(g[i - 1], s, i)
    <3> SUFFICES ASSUME NEW i \in 0 .. n + 1
                 PROVE  g[i] = IF i = 0 THEN <<>> ELSE BackTurn(g[i - 1], s, i)
      OBVIOUS
    <3>1. CASE i = 0
      <4>1. f[0] = <<>>
        BY <2>1
      <4> QED
        BY <3>1, <4>1
    <3>2. CASE i # 0 /\ i <= n
      <4>1. f[i] = BackTurn(f[i - 1], s, i)
        BY <2>1, <3>2
      <4>2. g[i] = f[i] /\ g[i - 1] = f[i - 1]
        BY <3>2
      <4> QED
        BY <3>2, <4>1, <4>2
    <3>3. CASE i = n + 1
      <4>1. g[i] = BackTurn(f[n], s, n + 1) /\ g[i - 1] = f[n] /\ i # 0
        BY <3>3
      <4> QED
        BY <3>3, <4>1
    <3> QED
      BY <3>1, <3>2, <3>3
  <2> HIDE DEF g
  <2>3. g = [i \in 0 .. n + 1 |-> g[i]]
    BY DEF g
  <2>4. Turns(g, n + 1)
    BY <2>2, <2>3
  <2> QED
    BY <2>4
<1>3. SpaceSlots \in S
  BY <1>1, <1>2, Induction, MatterFlashAssumption
<1>4. PICK f : Turns(f, SpaceSlots)
  BY <1>3
<1> QED
  BY <1>4 DEF BackTurned

\* And each turn of it does what BackTurn says.
LEMMA BackTurnsAll ==
  ASSUME NEW s
  PROVE  /\ WriteBack(s)[0] = <<>>
         /\ \A i \in Slots : WriteBack(s)[i] = BackTurn(WriteBack(s)[i - 1], s, i)
<1>1. \E f : f = BackTurned(f, s)
  BY BackExists
<1>2. WriteBack(s) = CHOOSE f : f = BackTurned(f, s)
  BY DEF WriteBack, BackTurned, BackTurn
<1>3. WriteBack(s) = BackTurned(WriteBack(s), s)
  BY <1>1, <1>2
<1>4. WriteBack(s)[0] = <<>>
  <2>1. BackTurned(WriteBack(s), s)[0] = <<>>
    BY MatterFlashAssumption DEF BackTurned
  <2> QED
    BY <1>3, <2>1
<1>5. ASSUME NEW i \in Slots PROVE WriteBack(s)[i] = BackTurn(WriteBack(s)[i - 1], s, i)
  <2>1. BackTurned(WriteBack(s), s)[i] = BackTurn(WriteBack(s)[i - 1], s, i)
    BY MatterFlashAssumption DEF BackTurned, Slots
  <2> QED
    BY <1>3, <2>1
<1> QED
  BY <1>4, <1>5

\* What it has to write after i slots: some of the first i namespaces, each once.
Back(b, i) ==
  /\ b \in Seq(TableWrites)
  /\ \A p \in 1 .. Len(b) : b[p].slot \in 1 .. i /\ b[p].name = table[b[p].slot]
  /\ \A p \in 1 .. Len(b) : \A q \in 1 .. p - 1 : b[q].slot # b[p].slot

\* One slot more.
LEMMA BackMore ==
  ASSUME table \in Tables, NEW s, NEW i \in Nat, i < SpaceSlots, NEW b, Back(b, i)
  PROVE  Back(BackTurn(b, s, i + 1), i + 1)
<1>1. b \in Seq(TableWrites) /\ Len(b) \in Nat /\ i + 1 \in Slots
  BY MatterFlashAssumption DEF Back, Slots
<1>2. CASE BackTurn(b, s, i + 1) = b
  <2>1. \A x \in 1 .. i : x \in 1 .. i + 1
    OBVIOUS
  <2> QED
    BY <1>2, <2>1 DEF Back
<1>3. CASE BackTurn(b, s, i + 1) # b
  <2> DEFINE t == WriteSpace(i + 1, table[i + 1])
             u == BackTurn(b, s, i + 1)
  <2>1. u = Append(b, t) /\ table[i + 1] # NoName
    BY <1>3 DEF BackTurn
  <2>2. t.op = "space" /\ t.slot = i + 1 /\ t.name = table[i + 1] /\ t \in TableWrites
    <3>1. table[i + 1] \in Spaces
      BY <1>1, <2>1 DEF Tables
    <3> QED
      BY <1>1, <3>1 DEF WriteSpace, TableWrites, FlashOps
  <2> HIDE DEF t, u
  <2>3. /\ u \in Seq(TableWrites) /\ Len(u) = Len(b) + 1 /\ u[Len(b) + 1] = t
        /\ \A p \in 1 .. Len(b) : u[p] = b[p]
    BY <1>1, <2>1, <2>2
  <2>4. \A p \in 1 .. Len(u) : p \in 1 .. Len(b) \/ p = Len(b) + 1
    BY <1>1, <2>3
  <2>5. \A p \in 1 .. Len(b) : u[p].slot \in 1 .. i /\ u[p].name = table[u[p].slot]
    BY <2>3 DEF Back
  <2>6. u[Len(b) + 1].slot = i + 1 /\ u[Len(b) + 1].name = table[i + 1]
    BY <2>2, <2>3
  <2>7. \A x \in 1 .. i : x \in 1 .. i + 1 /\ x # i + 1
    OBVIOUS
  <2>8. \A p \in 1 .. Len(u) : u[p].slot \in 1 .. i + 1 /\ u[p].name = table[u[p].slot]
    <3>1. i + 1 \in 1 .. i + 1
      OBVIOUS
    <3> QED
      BY <2>4, <2>5, <2>6, <2>7, <3>1
  <2>9. ASSUME NEW p \in 1 .. Len(u), NEW q \in 1 .. p - 1 PROVE u[q].slot # u[p].slot
    <3>1. q \in 1 .. Len(b)
      BY <1>1, <2>3
    <3>2. CASE p = Len(b) + 1
      BY <2>5, <2>6, <2>7, <3>1, <3>2
    <3>3. CASE p \in 1 .. Len(b)
      BY <2>3, <3>1, <3>3 DEF Back
    <3> QED
      BY <2>4, <3>2, <3>3
  <2> QED
    BY <2>3, <2>8, <2>9 DEF Back, u
<1> QED
  BY <1>2, <1>3

\* So the whole loop writes namespaces of the table, each once.
LEMMA BackAll ==
  ASSUME table \in Tables, NEW s
  PROVE  Back(WriteBack(s)[SpaceSlots], SpaceSlots)
<1> DEFINE S == {i \in Nat : i <= SpaceSlots => Back(WriteBack(s)[i], i)}
<1>1. 0 \in S
  <2> DEFINE b == WriteBack(s)[0]
  <2>1. b = <<>>
    BY BackTurnsAll
  <2> HIDE DEF b
  <2>2. b \in Seq(TableWrites) /\ Len(b) = 0
    BY <2>1
  <2>3. 1 .. Len(b) = {}
    BY <2>2
  <2>4. Back(b, 0)
    BY <2>2, <2>3 DEF Back
  <2> QED
    BY <2>4 DEF b
<1>2. ASSUME NEW i \in Nat, i \in S PROVE i + 1 \in S
  <2> SUFFICES ASSUME i + 1 <= SpaceSlots PROVE Back(WriteBack(s)[i + 1], i + 1)
    OBVIOUS
  <2>1. i + 1 \in Slots /\ i < SpaceSlots /\ (i + 1) - 1 = i
    BY MatterFlashAssumption DEF Slots
  <2>2. Back(WriteBack(s)[i], i)
    BY <1>2, <2>1, MatterFlashAssumption
  <2>3. WriteBack(s)[i + 1] = BackTurn(WriteBack(s)[i], s, i + 1)
    BY <2>1, BackTurnsAll
  <2> QED
    BY <2>1, <2>2, <2>3, BackMore
<1>3. SpaceSlots \in S
  BY <1>1, <1>2, Induction, MatterFlashAssumption
<1> QED
  BY <1>3, MatterFlashAssumption

\* The list u is b after three operations.
AfterThree(u, x, y, z, b) ==
  /\ u \in Seq(FlashOps) /\ Len(b) \in Nat /\ Len(u) = Len(b) + 3
  /\ u[1] = x /\ u[2] = y /\ u[3] = z
  /\ \A p \in 1 .. Len(b) : u[p + 3] = b[p]

\* Three operations before a list.
LEMMA ThreeBefore ==
  ASSUME NEW x \in FlashOps, NEW y \in FlashOps, NEW z \in FlashOps,
         NEW b \in Seq(FlashOps), NEW u, u = <<x, y, z>> \o b
  PROVE  AfterThree(u, x, y, z, b)
BY DEF AfterThree

\* bK_clear_namespace erases the table before it writes what was in it.
LEMMA PlanClearSound ==
  ASSUME NEW W, table \in Tables, OneSlotOf(table, W), NEW s \in Spaces, NEW fails
  PROVE  Sound(PlanClear(s, fails), heads, table, W)
<1> DEFINE p == PlanClear(s, fails)
           j == Slot(s)
           b == WriteBack(s)[SpaceSlots]
<1>1. CASE SlotsFound(s, fails) = {}
  <2>1. p = [ok |-> FALSE, todo |-> <<>>]
    BY <1>1 DEF PlanClear, Nothing
  <2> QED
    BY <2>1, NothingSound
<1>2. CASE SlotsFound(s, fails) # {}
  <2> DEFINE u == p.todo
             x == EraseNames(j)
             y == EraseData(j)
             z == EraseTable
  <2>1. j \in Slots
    BY <1>2, SlotFound, FoundOrNot
  <2>2. p = [ok |-> TRUE, todo |-> <<x, y, z>> \o b]
    BY <1>2 DEF PlanClear
  <2>3. /\ x \in FlashOps /\ y \in FlashOps /\ z \in FlashOps
        /\ x.op = "erase names" /\ y.op = "erase data" /\ z.op = "erase table"
    BY <2>1 DEF EraseNames, EraseData, EraseTable, FlashOps
  <2>4. Back(b, SpaceSlots)
    BY BackAll
  <2> HIDE DEF p, b, x, y, z, j
  <2>5. u = <<x, y, z>> \o b /\ p = [ok |-> p.ok, todo |-> u] /\ p.ok \in BOOLEAN
    BY <2>2
  <2>6. b \in Seq(TableWrites) /\ b \in Seq(FlashOps)
    BY <2>4 DEF Back, TableWrites
  <2> HIDE DEF u
  <2>7. /\ u \in Seq(FlashOps) /\ Len(b) \in Nat /\ Len(u) = Len(b) + 3
        /\ u[1] = x /\ u[2] = y /\ u[3] = z
        /\ \A q \in 1 .. Len(b) : u[q + 3] = b[q]
    <3>1. AfterThree(u, x, y, z, b)
      BY <2>3, <2>5, <2>6, ThreeBefore
    <3> QED
      BY <3>1 DEF AfterThree
  <2>8. \A q \in 1 .. Len(u) : q \in {1, 2, 3} \/ (q - 3 \in 1 .. Len(b) /\ u[q] = b[q - 3])
    <3> SUFFICES ASSUME NEW q \in 1 .. Len(u), q \notin {1, 2, 3}
                 PROVE  q - 3 \in 1 .. Len(b) /\ u[q] = b[q - 3]
      OBVIOUS
    <3>1. q - 3 \in 1 .. Len(b) /\ (q - 3) + 3 = q
      BY <2>7
    <3> QED
      BY <2>7, <3>1
  <2>9. \A q \in 1 .. Len(b) : b[q].op = "space"
    BY <2>6 DEF TableWrites
  <2>10. NoHeads(u)
    BY <2>3, <2>7, <2>8, <2>9 DEF NoHeads, NewAt, MaskAt
  <2>11. SpacesApart(u, table, W)
    <3> SUFFICES ASSUME NEW q \in 1 .. Len(u), u[q].op = "space", u[q].name \in W
                 PROVE  /\ \A r \in 1 .. q - 1 : u[r].op = "space" => u[r].name # u[q].name
                        /\ \E r \in 1 .. q - 1 : u[r].op = "erase table"
      BY DEF SpacesApart
    <3>1. q - 3 \in 1 .. Len(b) /\ u[q] = b[q - 3]
      BY <2>3, <2>7, <2>8
    <3>2. 3 \in 1 .. q - 1
      BY <2>7, <3>1
    <3>3. ASSUME NEW r \in 1 .. q - 1, u[r].op = "space" PROVE u[r].name # u[q].name
      <4>1. r \in 1 .. Len(u)
        BY <2>7
      <4>2. r - 3 \in 1 .. Len(b) /\ u[r] = b[r - 3]
        BY <2>3, <2>7, <2>8, <3>3, <4>1
      <4>3. r - 3 \in 1 .. (q - 3) - 1
        BY <2>7, <4>2
      <4>4. /\ b[r - 3].slot # b[q - 3].slot
            /\ b[r - 3].name = table[b[r - 3].slot] /\ b[q - 3].name = table[b[q - 3].slot]
        BY <2>4, <3>1, <4>2, <4>3 DEF Back
      <4>5. b[r - 3] \in TableWrites /\ b[q - 3] \in TableWrites
        BY <2>6, <3>1, <4>2
      <4>6. b[r - 3].slot \in Slots /\ b[q - 3].slot \in Slots /\ b[q - 3].name # NoName
        BY <4>5, OpTypes, MatterFlashAssumption DEF TableWrites
      <4> QED
        BY <3>1, <4>2, <4>4, <4>6 DEF OneSlotOf
    <3> QED
      BY <2>3, <2>7, <3>2, <3>3
  <2>12. Orderly(u, heads, table, W)
    BY <2>7, <2>10, <2>11, NoHeadsOrderly
  <2> QED
    BY <2>5, <2>7, <2>12 DEF Sound, u, p
<1> QED
  BY <1>1, <1>2

-----------------------------------------------------------------------------
(* The invariant. *)

\* The erased flash is in order.
LEMMA MatterInit == Init => MatterInvariant
<1> SUFFICES ASSUME Init PROVE MatterInvariant
  OBVIOUS
<1>1. /\ table = [j \in Slots |-> NoName] /\ heads = [j \in Slots |-> ErasedHeads]
      /\ cells = [j \in Slots |-> ErasedCells] /\ call = Idle /\ mishaps = 0 /\ doubled = {}
      /\ todo \in Seq(FlashOps) /\ Len(todo) = 0
  BY DEF Init
<1>2. ErasedHeads \in [Entries -> Headers \union {Free}] /\ \A k \in Entries : ErasedHeads[k] = Free
  BY DEF ErasedHeads
<1>3. ErasedCells \in [Offsets -> CellValues]
  BY DEF ErasedCells, CellValues, Blank, Mixed
<1>4. Types
  BY <1>1, <1>2, <1>3, MatterFlashAssumption DEF Types
<1>5. OneEntryOf(ErasedHeads, Once) /\ Apart(ErasedHeads)
  BY <1>2 DEF OneEntryOf, Apart, Free
<1>6. OneSlotOf(table, Once)
  BY <1>1 DEF OneSlotOf
<1>7. Good(todo, 1, heads, table, Once)
  BY <1>1, NothingGood
<1> QED
  BY <1>1, <1>4, <1>5, <1>6, <1>7 DEF MatterInvariant, Good

\* What is in one place of a set is so of a smaller one.
LEMMA FewerInOnePlace ==
  ASSUME NEW W, NEW V, V \subseteq W
  PROVE  /\ \A h : OneEntryOf(h, W) => OneEntryOf(h, V)
         /\ \A tb : OneSlotOf(tb, W) => OneSlotOf(tb, V)
BY DEF OneEntryOf, OneSlotOf

\* A call that begins has planned what the invariant allows, once what it doubles
\* is left out.
LEMMA BeginKept ==
  ASSUME MatterInvariant, NEW c \in Contract!Calls, NEW plan,
         NEW twice, twice \subseteq Spaces \union Names,
         Sound(plan, heads, table, Once \ twice), Begin(c, plan, twice)
  PROVE  MatterInvariant'
<1>1. /\ call' = c /\ todo' = plan.todo /\ table' = table /\ heads' = heads /\ cells' = cells
      /\ doubled' = doubled \union twice
  BY DEF Begin, flashVars
<1>2. mishaps' \in 0 .. MaxMishaps
  BY MatterFlashAssumption DEF Begin, MatterInvariant, Types
<1>3. Types'
  BY <1>1, <1>2 DEF MatterInvariant, Types, Sound
<1>4. Once' = Once \ twice /\ Once' \subseteq Once
  BY <1>1 DEF Once
<1>5. Orderly(todo', heads', table', Once')
  BY <1>1, <1>4 DEF Sound
<1>6. OneSlotOf(table', Once') /\ \A j \in Slots : OneEntryOf(heads'[j], Once')
  BY <1>1, <1>4, FewerInOnePlace DEF MatterInvariant
<1> QED
  BY <1>1, <1>3, <1>5, <1>6 DEF MatterInvariant

\* Nothing is left to do when a call returns or power fails.
LEMMA EndKept ==
  ASSUME MatterInvariant, UNCHANGED flashVars, todo' \in Seq(FlashOps), Len(todo') = 0,
         call' = Idle, mishaps' \in 0 .. MaxMishaps, doubled' = doubled
  PROVE  MatterInvariant'
<1>1. table' = table /\ heads' = heads /\ cells' = cells /\ Once' = Once
  BY DEF flashVars, Once
<1>2. Good(todo', 1, heads', table', Once)
  BY NothingGood
<1>3. Types'
  BY <1>1 DEF MatterInvariant, Types
<1> QED
  BY <1>1, <1>2, <1>3 DEF MatterInvariant, Good

\* Every call begins with a plan that the invariant allows.
LEMMA CallsKept ==
  ASSUME MatterInvariant, NEW s \in Spaces
  PROVE  /\ BkEnsureNamespace(s) => MatterInvariant'
         /\ BkClearNamespace(s) => MatterInvariant'
         /\ \A n \in Names : BkWriteData(s, n) => MatterInvariant'
         /\ \A n \in Names : BkCleanData(s, n) => MatterInvariant'
<1>1. /\ heads \in HeadTables /\ cells \in [Slots -> [Offsets -> CellValues]] /\ table \in Tables
      /\ \A j \in Slots : Apart(heads[j])
  BY DEF MatterInvariant, Types, HeadTables, Tables
<1>2. ASSUME NEW twice
      PROVE  /\ OneSlotOf(table, Once \ twice)
             /\ \A j \in Slots : OneEntryOf(heads[j], Once \ twice)
  BY FewerInOnePlace DEF MatterInvariant
<1>3. Once \ {} = Once /\ {} \subseteq Spaces \union Names
  OBVIOUS
<1>4. ASSUME BkEnsureNamespace(s) PROVE MatterInvariant'
  <2>1. PICK fails \in Failures :
          Begin([kind |-> "ensure", space |-> s, ok |-> PlanEnsure(s, fails).ok],
                PlanEnsure(s, fails), {x \in {s} : SpaceTwice(s, fails)})
    BY <1>4 DEF BkEnsureNamespace
  <2> DEFINE plan == PlanEnsure(s, fails)
             c == [kind |-> "ensure", space |-> s, ok |-> plan.ok]
             twice == {x \in {s} : SpaceTwice(s, fails)}
  <2>2. s \in Once \ twice => ~SpaceTwice(s, fails)
    OBVIOUS
  <2>3. twice \subseteq Spaces \union Names
    OBVIOUS
  <2>4. Begin(c, plan, twice)
    BY <2>1
  <2> HIDE DEF plan, twice
  <2>5. Sound(plan, heads, table, Once \ twice)
    BY <2>2, PlanEnsureSound DEF plan
  <2>6. c \in Contract!Calls
    BY <2>5 DEF Sound, Contract!Calls
  <2> QED
    BY <2>3, <2>4, <2>5, <2>6, BeginKept
<1>5. ASSUME BkClearNamespace(s) PROVE MatterInvariant'
  <2>1. PICK fails \in Failures :
          Begin([kind |-> "clear", space |-> s, ok |-> PlanClear(s, fails).ok],
                PlanClear(s, fails), {})
    BY <1>5 DEF BkClearNamespace
  <2> DEFINE plan == PlanClear(s, fails)
             c == [kind |-> "clear", space |-> s, ok |-> plan.ok]
  <2>2. Sound(plan, heads, table, Once \ {})
    BY <1>1, <1>2, PlanClearSound
  <2>3. Begin(c, plan, {})
    BY <2>1
  <2> HIDE DEF plan
  <2>4. c \in Contract!Calls
    BY <2>2 DEF Sound, Contract!Calls
  <2> QED
    BY <1>3, <2>2, <2>3, <2>4, BeginKept
<1>6. ASSUME NEW n \in Names, BkWriteData(s, n) PROVE MatterInvariant'
  <2>1. PICK v \in Values, fails \in Failures :
          Begin([kind |-> "write", space |-> s, name |-> n, value |-> v,
                 ok |-> PlanWrite(s, n, v, fails).ok], PlanWrite(s, n, v, fails),
                {x \in {s} : SpaceTwice(s, fails)} \union {x \in {n} : NameTwice(s, n, fails)})
    BY <1>6 DEF BkWriteData
  <2> DEFINE plan == PlanWrite(s, n, v, fails)
             c == [kind |-> "write", space |-> s, name |-> n, value |-> v, ok |-> plan.ok]
             twice == {x \in {s} : SpaceTwice(s, fails)}
                        \union {x \in {n} : NameTwice(s, n, fails)}
  <2>2. /\ s \in Once \ twice => ~SpaceTwice(s, fails)
        /\ n \in Once \ twice => ~NameTwice(s, n, fails)
    OBVIOUS
  <2>3. twice \subseteq Spaces \union Names
    OBVIOUS
  <2>4. Begin(c, plan, twice)
    BY <2>1
  <2> HIDE DEF plan, twice
  <2>5. Sound(plan, heads, table, Once \ twice)
    BY <1>1, <1>2, <2>2, PlanWriteSound DEF plan
  <2>6. c \in Contract!Calls
    BY <2>5 DEF Sound, Contract!Calls
  <2> QED
    BY <2>3, <2>4, <2>5, <2>6, BeginKept
<1>7. ASSUME NEW n \in Names, BkCleanData(s, n) PROVE MatterInvariant'
  <2>1. PICK fails \in Failures :
          Begin([kind |-> "clean", space |-> s, name |-> n, ok |-> PlanClean(s, n, fails).ok],
                PlanClean(s, n, fails), {})
    BY <1>7 DEF BkCleanData
  <2> DEFINE plan == PlanClean(s, n, fails)
             c == [kind |-> "clean", space |-> s, name |-> n, ok |-> plan.ok]
  <2>2. Sound(plan, heads, table, Once \ {})
    BY <1>1, <1>2, PlanCleanSound
  <2>3. Begin(c, plan, {})
    BY <2>1
  <2> HIDE DEF plan
  <2>4. c \in Contract!Calls
    BY <2>2 DEF Sound, Contract!Calls
  <2> QED
    BY <1>3, <2>2, <2>3, <2>4, BeginKept
<1> QED
  BY <1>4, <1>5, <1>6, <1>7

\* Every step keeps the invariant.
LEMMA MatterNext == MatterInvariant /\ [Next]_vars => MatterInvariant'
<1> SUFFICES ASSUME MatterInvariant, [Next]_vars PROVE MatterInvariant'
  OBVIOUS
<1>1. ASSUME NEW s \in Spaces, BkEnsureNamespace(s) \/ BkClearNamespace(s) PROVE MatterInvariant'
  BY <1>1, CallsKept
<1>2. ASSUME NEW s \in Spaces, NEW n \in Names, BkWriteData(s, n) \/ BkCleanData(s, n)
      PROVE  MatterInvariant'
  BY <1>2, CallsKept
<1>3. CASE BkEraseAll
  <2> DEFINE plan == PlanEraseAll
             c == [kind |-> "erase", ok |-> plan.ok]
  <2>1. Begin(c, plan, {})
    BY <1>3 DEF BkEraseAll
  <2>2. c \in Contract!Calls
    BY DEF PlanEraseAll, Contract!Calls
  <2>3. {} \subseteq Spaces \union Names
    OBVIOUS
  <2> HIDE DEF c, plan
  <2>4. Sound(plan, heads, table, Once \ {})
    BY PlanEraseAllSound DEF plan
  <2> QED
    BY <2>1, <2>2, <2>3, <2>4, BeginKept
<1>4. CASE FlashStep
  BY <1>4, FlashStepKept
<1>5. CASE Return
  <2>1. /\ UNCHANGED flashVars /\ todo' = todo /\ todo = <<>> /\ call' = Idle
        /\ mishaps' = mishaps /\ doubled' = doubled
    BY <1>5 DEF Return
  <2>2. mishaps' \in 0 .. MaxMishaps
    BY <2>1 DEF MatterInvariant, Types
  <2>3. todo' \in Seq(FlashOps) /\ Len(todo') = 0
    BY <2>1
  <2> QED
    BY <2>1, <2>2, <2>3, EndKept
<1>6. CASE PowerCut
  <2>1. /\ UNCHANGED flashVars /\ todo' = <<>> /\ call' = Idle /\ doubled' = doubled
        /\ mishaps' = mishaps + 1 /\ mishaps < MaxMishaps
    BY <1>6 DEF PowerCut
  <2>2. mishaps' \in 0 .. MaxMishaps
    BY <2>1, MatterFlashAssumption DEF MatterInvariant, Types
  <2>3. todo' \in Seq(FlashOps) /\ Len(todo') = 0
    BY <2>1
  <2> QED
    BY <2>1, <2>2, <2>3, EndKept
<1>7. CASE UNCHANGED vars
  <2>1. table' = table /\ heads' = heads /\ cells' = cells /\ call' = call /\ todo' = todo
        /\ mishaps' = mishaps /\ doubled' = doubled
    BY <1>7 DEF vars, flashVars
  <2>2. Once' = Once
    BY <2>1 DEF Once
  <2> QED
    BY <2>1, <2>2 DEF MatterInvariant, Types
<1> QED
  BY <1>1, <1>2, <1>3, <1>4, <1>5, <1>6, <1>7 DEF Next

\* The invariant holds at every moment: between any two flash operations of a call
\* and after every power cut.
THEOREM MatterInvariantHolds == Spec => []MatterInvariant
<1> QED
  BY MatterInit, MatterNext, PTL DEF Spec

-----------------------------------------------------------------------------
(* What the runs check. *)

\* Every header in use lies inside its sector of data, also when the call that
\* rewrites the sector was cut, and its value fits the buffer it is read into.
THEOREM TypesHold == Spec => []TypeOK
<1>1. MatterInvariant => TypeOK
  <2> SUFFICES ASSUME MatterInvariant PROVE TypeOK
    OBVIOUS
  <2>1. ASSUME NEW j \in Slots, NEW i \in Entries, heads[j][i] # Free
        PROVE  /\ heads[j][i].flag \in {"using", "mask"} /\ heads[j][i].name \in Names
               /\ heads[j][i].len > 0 /\ heads[j][i].off >= 0
               /\ heads[j][i].off + heads[j][i].len < SectorSize
               /\ heads[j][i].len <= DataBuffer
    <3>1. heads[j][i] \in Headers
      BY <2>1 DEF MatterInvariant, Types
    <3> QED
      BY <3>1 DEF Headers
  <2>2. \A j \in Slots, o \in Offsets : cells[j][o] >= Mixed
    BY DEF MatterInvariant, Types, CellValues
  <2>3. /\ table \in [Slots -> Spaces \union {NoName}]
        /\ call \in {Idle} \union Contract!Calls
        /\ doubled \subseteq Spaces \union Names /\ mishaps \in 0 .. MaxMishaps
    BY DEF MatterInvariant, Types
  <2> QED
    BY <2>1, <2>2, <2>3 DEF TypeOK
<1> QED
  BY <1>1, MatterInvariantHolds, PTL

\* A name has one entry in use at most and a namespace one slot, unless a write has
\* doubled it for want of memory: the lookups take the first match.
THEOREM OnePlaceHolds == Spec => []OnePlace
<1>1. MatterInvariant => OnePlace
  <2> SUFFICES ASSUME MatterInvariant PROVE OnePlace
    OBVIOUS
  <2>1. IsFiniteSet(Entries) /\ IsFiniteSet(Slots)
    BY FS_Interval, MatterFlashAssumption DEF Entries, Slots
  <2>2. ASSUME NEW j \in Slots, NEW n \in Names \ doubled
        PROVE  Cardinality(InUse(heads[j], n)) <= 1
    <3>1. IsFiniteSet(InUse(heads[j], n))
      BY <2>1, FS_Subset DEF InUse
    <3>2. \A k, l \in InUse(heads[j], n) : k = l
      BY DEF InUse, MatterInvariant, OneEntryOf, Once
    <3> QED
      BY <3>1, <3>2, AtMostOne
  <2>3. ASSUME NEW s \in Spaces \ doubled PROVE Cardinality(SlotsOf(s)) <= 1
    <3>1. IsFiniteSet(SlotsOf(s))
      BY <2>1, FS_Subset DEF SlotsOf
    <3>2. \A j, l \in SlotsOf(s) : j = l
      BY MatterFlashAssumption DEF SlotsOf, MatterInvariant, OneSlotOf, Once
    <3> QED
      BY <3>1, <3>2, AtMostOne
  <2> QED
    BY <2>2, <2>3 DEF OnePlace
<1> QED
  BY <1>1, MatterInvariantHolds, PTL

\* No two entries of a namespace share a cell, masked ones included.
THEOREM EntriesApartHold == Spec => []EntriesApart
<1>1. MatterInvariant => EntriesApart
  BY DEF MatterInvariant, Apart, EntriesApart, End
<1> QED
  BY <1>1, MatterInvariantHolds, PTL
=============================================================================
