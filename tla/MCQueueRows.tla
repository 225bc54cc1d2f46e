---------------------------- MODULE MCQueueRows -----------------------------
(* Instances of QueueRows for TLC. *)
EXTENDS QueueRows

CONSTANTS a, b, d, x

\* x is a second submission of the URL of a.
MCIds == {a, b, d, x}
MCUrlOf == [id \in MCIds |-> IF id = x THEN a ELSE id]
MCInitialOrder == <<a, b, d>>
=============================================================================
