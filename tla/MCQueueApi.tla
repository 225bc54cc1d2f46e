----------------------------- MODULE MCQueueApi -----------------------------
(* Instances of QueueApi for TLC. *)
EXTENDS QueueApi

CONSTANTS a, b, x, c1, c2

\* x is a second submission of the URL of a: it is refused while a is queued.
MCIds == {a, b, x}
MCUrlOf == [id \in MCIds |-> IF id = x THEN a ELSE id]
MCClients == {c1, c2}
MCInitialOrder == <<a, b>>
MCReported ==
  {[status |-> "playing", paused |-> FALSE, buffering |-> FALSE, volume |-> 100]}

ClientSymmetry == Permutations(MCClients)
=============================================================================
