----------------------------- MODULE MCPlayback -----------------------------
(* Instances of Playback for TLC. *)
EXTENDS Playback

CONSTANTS a, b, w1

MCIds == {a, b}
OneId == {a}
MCUrlOf == [id \in Ids |-> id]
AB == <<a, b>>
JustA == <<a>>

NoActs == [key \in BudgetKeys |-> 0]
Acts(keys) == [key \in BudgetKeys |-> IF key \in keys THEN 1 ELSE 0]
Commands(n) == [NoActs EXCEPT !.commands = n]

Unattended == {Acts({"stalls", "restarts"}), Acts({"commands"})}
Disturbed ==
  {Acts({"edits", "crashes"}), Acts({"edits", "restarts"}), Acts({"edits", "errors"}),
   Acts({"errors", "crashes"}), Acts({"errors", "restarts"}),
   Commands(2), Acts({"commands", "errors"})}
Pausing == {Commands(3), [Acts({"edits"}) EXCEPT !.commands = 2],
            [Acts({"stalls"}) EXCEPT !.commands = 2]}
OneCommand == {Commands(1)}
One == {w1}
=============================================================================
