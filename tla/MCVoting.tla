------------------------------ MODULE MCVoting ------------------------------
(* Instances of Voting for TLC. *)
EXTENDS Voting

CONSTANTS a, b, ann, bob, q1, q2

MCIds == {a, b}
MCUrlOf == [id \in MCIds |-> id]
MCInitialOrder == <<a, b>>
MCOwnerOf == [id \in MCIds |-> IF id = b THEN bob ELSE None]
MCListeners == {ann, bob}
TwoRequests == {q1, q2}
SkipWishes == {"skip"}
MostWishes == {"skip", "unskip", "remove"}
NoAdmins == {}

RequestSymmetry == Permutations(Requests)
=============================================================================
