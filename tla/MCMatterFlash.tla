---------------------------- MODULE MCMatterFlash ----------------------------
(* Two values of different length, so that the data of a name moves and the  *)
(* sector fills before the table of names does, and the other way round.     *)
(* Namespaces and names are interchangeable: what tells slots and entries    *)
(* apart is their number.                                                    *)
EXTENDS MatterFlash, TLC

MCValues == {<<1>>, <<2, 2>>}
MCSymmetry == Permutations(Spaces) \union Permutations(Names)
=============================================================================
