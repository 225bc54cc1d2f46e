------------------------------- MODULE Items --------------------------------
(* The names that the queue store and the player share.                    *)

CONSTANTS
  Ids,      \* the ids newID() may return, each for one queue item; to the
            \* player, the URL of that item
  None      \* NULL, and the empty Go string

ASSUME NoneAssumption == None \notin Ids
=============================================================================
