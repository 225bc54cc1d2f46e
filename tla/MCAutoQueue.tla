---------------------------- MODULE MCAutoQueue -----------------------------
(* Instances of AutoQueue for TLC. *)
EXTENDS AutoQueue

CONSTANTS a, b, c, d, ann, bob

MCIds == {a, b, c, d}
MCUrlOf == [id \in MCIds |-> id]
MCInitialOrder == <<>>
MCListeners == {ann, bob}
MCDepths == {2}

IdSymmetry == Permutations(Ids)
=============================================================================
