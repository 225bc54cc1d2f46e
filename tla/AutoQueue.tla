----------------------------- MODULE AutoQueue ------------------------------
(***************************************************************************)
(* The auto-queue engine (internal/autoqueue/engine.go): a loop that tops  *)
(* up the queue with songs found for the listeners who are around.         *)
(*                                                                         *)
(* A refill counts the queued rows once and decides how many songs are     *)
(* missing. For each song it reads who is active, gives the turn to the    *)
(* one whose last turn is oldest, searches (a yt-dlp process, seconds      *)
(* long), adds what it found in a transaction of its own and stamps the    *)
(* turn in another one. Listeners, the API and the playback controller go  *)
(* on in between.                                                          *)
(*                                                                         *)
(* Turns are stamped with the wall clock, stored as RFC3339Nano text and   *)
(* compared as text. The texts of different seconds are ordered as the     *)
(* seconds are. Those of one second are not ordered as time goes: 05Z is   *)
(* behind 05.9Z, and 05.1Z behind 05.12Z. So a stamp is the place of its   *)
(* text in the order of all texts, and within a second it may be any       *)
(* place of that second. The clock promises nothing: it may read the same  *)
(* twice, jump, and be set back.                                           *)
(***************************************************************************)
EXTENDS QueueDb

CONSTANTS
  Listeners,     \* accounts
  Watched,       \* the listener whose turns "passed" counts
  Depths,        \* values auto_queue_depth may have when it is read
  Tries,         \* searches per missing song, 6 in the code
  MaxSecond,     \* bound: the latest second that the clock can read
  Fractions,     \* bound: the different texts within one second
  Disturbances   \* bound: comings, goings and edits of everybody else

ASSUME ListenersAssumption ==
  IsFiniteSet(Listeners) /\ Watched \in Listeners /\ None \notin Listeners
ASSUME BoundsAssumption ==
  IsFiniteSet(Depths) /\ Depths # {} /\ Depths \subseteq 1..20
  /\ Tries \in Nat /\ MaxSecond \in Nat \ {0} /\ Fractions \in Nat \ {0}
  /\ Disturbances \in Nat

VARIABLES
  around,   \* the listeners with a live session seen within the window
  taste,    \* the listeners with usable history or likes
  turn,     \* auto_queue_user_turns.last_selected_at, 0 for no row
  r,        \* the refill under way
  auto,     \* the ids that the engine has added
  passed,   \* history: turns of each listener that passed over the watched
            \* one, since that one had a turn itself, or had no claim to one
  left      \* disturbances still to come

engineVars == <<around, taste, turn, r, auto, passed, left>>
autoVars == <<db, engineVars>>

NoRefill ==
  [pc |-> "idle", needed |-> 0, added |-> 0, attempts |-> 0, fair |-> FALSE,
   users |-> {}, rounds |-> 0, user |-> None]

AutoInit ==
  /\ DbInit
  /\ around = Listeners /\ taste \in SUBSET Listeners
  /\ turn = [l \in Listeners |-> 0]
  /\ r = NoRefill
  /\ auto = {}
  /\ passed = [l \in Listeners |-> 0]
  /\ left = Disturbances
-----------------------------------------------------------------------------
(* The refill.                                                             *)

At(pc) == r.pc = pc
Finish == r' = NoRefill
NextAttempt ==
  r' = [r EXCEPT !.pc = "choose", !.attempts = @ + 1, !.user = None, !.users = {}]

Rows(status) == {id \in Ids : db.st[id] = status}

\* Mutant: failed rows count as well.
MissingOfAll(depth) == depth - Cardinality(Rows("failed"))

Missing(depth) == depth - Cardinality(Rows("queued"))

\* Enabled, with a search, and short of songs: the snapshot of Refill, and the
\* settings as they are now. Turning the auto-queue off later stops no refill.
Begin ==
  /\ At("idle")
  /\ \E depth \in Depths, fair \in BOOLEAN :
       /\ Missing(depth) > 0
       /\ r' = [NoRefill EXCEPT !.pc = "choose", !.needed = Missing(depth),
                                !.fair = fair]
  /\ UNCHANGED <<db, around, taste, turn, auto, passed, left>>

More == r.added < r.needed /\ r.attempts < r.needed * Tries

\* The head of the loop. Seeds, and the artists related to the last row, may be
\* none at all; active listeners are read from the sessions.
Choose ==
  /\ At("choose")
  /\ \/ ~More /\ Finish
     \/ More /\ ~r.fair /\ (Finish \/ r' = [r EXCEPT !.pc = "search"])
     \/ /\ More /\ r.fair
        /\ IF around = {} THEN Finish
           ELSE r' = [r EXCEPT !.pc = "turn", !.users = around,
                               !.rounds = Cardinality(around)]
  /\ UNCHANGED <<db, around, taste, turn, auto, passed, left>>

\* Mutant: the latest turn.
NewestTurn == {l \in r.users : \A m \in r.users : turn[m] <= turn[l]}

OldestTurn == {l \in r.users : \A m \in r.users : turn[l] <= turn[m]}

HasClaim(l) == l \in around /\ l \in taste

Second(stamp) == stamp \div Fractions

\* A turn that went to l although the watched listener was on the same list,
\* with a claim, and had its last turn in an earlier second.
PassesOver(l, stamp) ==
  Watched \in r.users /\ l # Watched /\ Second(stamp) > Second(turn[Watched])

\* markUserSelected, at whatever the wall clock reads.
Stamp(l, since) ==
  \E stamp \in Fractions..(Fractions * (MaxSecond + 1) - 1) :
    /\ turn' = [turn EXCEPT ![l] = stamp]
    /\ passed' = IF l = Watched \/ ~HasClaim(Watched)
                 THEN [m \in Listeners |-> 0]
                 ELSE IF PassesOver(l, stamp) THEN [since EXCEPT ![l] = @ + 1]
                                              ELSE since

Disturb == left > 0 /\ left' = left - 1

\* fairUser. Its loop over the turns does not ask rows.Err(): if reading ends
\* early, anybody may seem never to have had one. Who is picked for that only
\* starts afresh in the count.
Picked(l) ==
  \/ l \in OldestTurn /\ UNCHANGED left
  \/ l \in r.users /\ Disturb
Since(l) == IF l \in OldestTurn THEN passed ELSE [passed EXCEPT ![l] = 0]

\* fairUser and userPreferences: a listener without history uses up the turn,
\* and the next one of the same list is tried.
Turn ==
  /\ At("turn")
  /\ \E l \in Listeners :
       /\ Picked(l)
       /\ IF l \in taste
          THEN /\ r' = [r EXCEPT !.pc = "search", !.user = l, !.rounds = 0]
               /\ passed' = Since(l) /\ UNCHANGED turn
          ELSE /\ Stamp(l, Since(l))
               /\ IF r.rounds = 1 THEN Finish
                  ELSE r' = [r EXCEPT !.rounds = @ - 1]
  /\ UNCHANGED <<db, around, taste, auto>>

\* The search fails, finds nothing, or finds a URL that is queued already.
Fruitless ==
  /\ At("search")
  /\ NextAttempt
  /\ UNCHANGED <<db, around, taste, turn, auto, passed, left>>

Full == At("search") /\ Len(db.order) >= QueueLimit /\ Finish
        /\ UNCHANGED <<db, around, taste, turn, auto, passed, left>>

Add ==
  /\ At("search")
  /\ \E id \in Ids : DbAdd(id) /\ auto' = auto \cup {id}
  /\ r' = IF r.user = None
          THEN [r EXCEPT !.pc = "choose", !.added = @ + 1, !.attempts = @ + 1]
          ELSE [r EXCEPT !.pc = "mark", !.added = @ + 1]
  /\ UNCHANGED <<around, taste, turn, passed, left>>

Mark ==
  /\ At("mark")
  /\ Stamp(r.user, passed)
  /\ NextAttempt
  /\ UNCHANGED <<db, around, taste, auto, left>>

\* A database error ends the refill (also the error of the snapshot that
\* follows a committed addition), and so does a restart of the process.
Interrupted ==
  /\ ~At("idle") /\ Disturb
  /\ Finish
  /\ UNCHANGED <<db, around, taste, turn, auto, passed>>
-----------------------------------------------------------------------------
(* Everybody else.                                                         *)

\* A session is seen again or goes quiet; a history grows or is erased.
Listener(l) ==
  /\ Disturb
  /\ \/ around' = (around \ {l}) \cup ({l} \ around) /\ UNCHANGED taste
     \/ taste' = (taste \ {l}) \cup ({l} \ taste) /\ UNCHANGED around
  /\ passed' = IF HasClaim(Watched)' THEN passed ELSE [m \in Listeners |-> 0]
  /\ UNCHANGED <<db, turn, r, auto>>

\* The controller starts the first item that has not failed, and ends it.
Play ==
  /\ \/ \E i \in DOMAIN db.order :
          /\ \A j \in 1..(i - 1) : db.st[db.order[j]] = "failed"
          /\ db.st[db.order[i]] = "queued"
          /\ Rows("current") = {}
          /\ DbSetCurrent(db.order[i])
     \/ \E id \in Ids, failed \in BOOLEAN : DbFinishCurrent(id, failed)
     \/ \E id \in Ids : DbRetryCurrent(id)
  /\ UNCHANGED engineVars

\* The rest of the API.
OtherTransaction ==
  /\ Disturb
  /\ \/ \E id \in Ids : DbAdd(id) \/ DbRemove(id)
     \/ DbSkip \/ DbClear
     \/ DbReconcilePlayback
  /\ UNCHANGED <<around, taste, turn, r, auto, passed>>

Refill == Begin \/ Choose \/ Turn \/ Fruitless \/ Full \/ Add \/ Mark \/ Interrupted

AutoNext ==
  \/ Refill
  \/ \E l \in Listeners : Listener(l)
  \/ Play \/ OtherTransaction

AutoSpec == AutoInit /\ [][AutoNext]_autoVars
-----------------------------------------------------------------------------
\* What the engine has added and nobody has played or removed yet.
Ahead == {id \in auto : db.st[id] \in {"queued", "current"}}

\* However long a refill's snapshot is out of date, and whatever is added,
\* retried, failed and put back meanwhile, the engine never has more songs of
\* its own waiting than the depth asks for, besides the one that plays.
NeverTooFarAhead == \E depth \in Depths : Cardinality(Ahead) <= depth + 1

\* A listener who stays around, with a taste, is not passed over, whatever the
\* clock does: from the lists which that listener is on, nobody else is given a
\* second turn before that listener has one. Turns stamped in the very second of
\* the listener's last one, or with the clock set back, are not counted (their
\* texts may be the older ones), nor are those before a turn that was picked from
\* an incomplete read.
NobodyPassedOver == \A l \in Listeners : passed[l] <= 1
=============================================================================
