----------------------------- MODULE MatterStore -----------------------------
(***************************************************************************)
(* What the Matter flash store promises: named values in namespaces.  A    *)
(* call takes effect at once when it returns, according to what it         *)
(* answers; when power fails inside it, what is left is bounded.  The      *)
(* promise is weaker than one would wish in six places, all of them the    *)
(* code's:                                                                 *)
(*   - a write that fails takes the old value with it;                     *)
(*   - a cut in a write may lose every value of that namespace;            *)
(*   - after a cut in a write the next one may store something else and    *)
(*     still answer that it succeeded;                                     *)
(*   - a cut while one namespace is cleared may lose the others;           *)
(*   - a lost namespace's values may turn up in one that is made later;    *)
(*   - a write or an ensure of what is there may give the promise up: when *)
(*     it has no memory to look it up it makes it a second time, and what  *)
(*     is read or written from then on may be either.                      *)
(***************************************************************************)
EXTENDS Integers

CONSTANTS Spaces, Names, Values

VARIABLES
  store,     \* what each namespace holds
  orphans,   \* contents that no namespace has any more, still in flash
  givenUp,   \* something was made a second time
  call       \* the call in progress and what it is going to answer

vars == <<store, orphans, givenUp, call>>

Idle == [kind |-> "idle"]
Calls ==
  [kind : {"write"}, space : Spaces, name : Names, value : Values, ok : BOOLEAN]
    \union [kind : {"clean"}, space : Spaces, name : Names, ok : BOOLEAN]
    \union [kind : {"ensure", "clear"}, space : Spaces, ok : BOOLEAN]
    \union [kind : {"erase"}, ok : {TRUE}]

Missing == <<>>
Garbled == <<-1>>
Nothing == [n \in Names |-> Missing]
Holds(values, dirty) == [there |-> TRUE, values |-> values, dirty |-> dirty]
Empty == Holds(Nothing, FALSE)
NoSpace == [Empty EXCEPT !.there = FALSE]

Init ==
  /\ store = [s \in Spaces |-> NoSpace] /\ orphans = {}
  /\ givenUp = FALSE /\ call = Idle

-----------------------------------------------------------------------------
\* What a namespace holds when a call has made sure that it is there.
Bases(s) == IF store[s].there THEN {store[s]} ELSE {Empty} \union orphans

Becomes(s, c) == store' = [store EXCEPT ![s] = c] /\ orphans' \subseteq orphans
Unchanged == UNCHANGED <<store, orphans>>

Ensure(s) == \E b \in Bases(s) : Becomes(s, b)

\* What flash holds behind the last value is mixed into the next one.
Stored(b, v) == {v} \union (IF b.dirty THEN {Garbled} ELSE {})

Write(s, n, v) ==
  \E b \in Bases(s), dirty \in BOOLEAN : \E x \in Stored(b, v) :
    /\ dirty => b.dirty
    /\ Becomes(s, Holds([b.values EXCEPT ![n] = x], dirty))

WriteFails(s, n) ==
  \E b \in Bases(s), dirty \in BOOLEAN : \E x \in {b.values[n], Missing} :
    /\ dirty => b.dirty
    /\ Becomes(s, Holds([b.values EXCEPT ![n] = x], dirty))

Clean(s, n) ==
  /\ store[s].there /\ store[s].values[n] # Missing
  /\ Becomes(s, [store[s] EXCEPT !.values[n] = Missing])

Clear(s) == store[s].there /\ Becomes(s, NoSpace)

EraseAll == store' = [s \in Spaces |-> NoSpace] /\ orphans' = {}

-----------------------------------------------------------------------------
(* What a power cut may leave, besides what was there before. *)

CutInWrite(s, n, v) ==
  \E b \in Bases(s), dirty \in BOOLEAN, lost \in SUBSET Names :
    \E x \in Stored(b, v) \union {b.values[n], Missing} :
      Becomes(s, Holds([m \in Names |->
        IF m = n THEN x ELSE IF m \in lost THEN Missing ELSE b.values[m]], dirty))

\* The lost namespaces are no longer in the table, what they held still is there.
Lose(lost) ==
  /\ store' = [s \in Spaces |-> IF s \in lost THEN NoSpace ELSE store[s]]
  /\ orphans' \subseteq orphans \union {Holds(Nothing, TRUE)}
                  \union {store[s] : s \in {t \in lost : store[t].there}}

CutInClear(s) ==
  \/ \E dirty \in BOOLEAN : Becomes(s, Holds(Nothing, dirty))
  \/ \E others \in SUBSET (Spaces \ {s}) : Lose({s} \union others)

-----------------------------------------------------------------------------
Begin == call = Idle /\ call' \in Calls /\ Unchanged /\ UNCHANGED givenUp

\* A call that may make something a second time: what is there is the namespace,
\* or a value in the one it is going to get.
GiveUp ==
  /\ call = Idle /\ call' \in Calls /\ Unchanged /\ givenUp'
  /\ call'.kind \in {"write", "ensure"}
  /\ store[call'.space].there \/ orphans # {}

Return ==
  /\ call # Idle /\ call' = Idle /\ UNCHANGED givenUp
  /\ IF call.ok
     THEN \/ call.kind = "write" /\ Write(call.space, call.name, call.value)
          \/ call.kind = "clean" /\ Clean(call.space, call.name)
          \/ call.kind = "ensure" /\ Ensure(call.space)
          \/ call.kind = "clear" /\ Clear(call.space)
          \/ call.kind = "erase" /\ EraseAll
     ELSE \/ Unchanged
          \/ call.kind = "write" /\ WriteFails(call.space, call.name)

Cut ==
  /\ call # Idle /\ call' = Idle /\ UNCHANGED givenUp
  /\ \/ Unchanged
     \/ call.kind = "write" /\ CutInWrite(call.space, call.name, call.value)
     \/ call.kind = "clear" /\ CutInClear(call.space)
     \/ call.kind = "erase" /\ Lose(Spaces)

Promises == Begin \/ Return \/ Cut

Next == (~givenUp /\ (Promises \/ GiveUp)) \/ (givenUp /\ givenUp')

Spec == Init /\ [][Next]_vars
=============================================================================
