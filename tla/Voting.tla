------------------------------- MODULE Voting --------------------------------
(***************************************************************************)
(* Household votes to skip the current item or to remove an item           *)
(* (internal/app/voting.go, and the removal handlers of queue.go).         *)
(*                                                                         *)
(* A listener sends a request from a page that shows the queue; it carries *)
(* the revision shown (a page that lags is a request that is long on its   *)
(* way). The handler takes a snapshot of its own (two queries), finds out  *)
(* whether a vote is needed, records it, counts the votes and, when they   *)
(* suffice, edits with the revision of the request. Votes and presence are *)
(* in memory under one mutex, which is released between recording and      *)
(* counting; the edit is a transaction of QueueDb. Other requests, the     *)
(* rest of the API and the playback controller come in between any two     *)
(* steps.                                                                  *)
(*                                                                         *)
(* Time is counted in ticks. Only ages matter, so each saturates just      *)
(* beyond its limit. An entry older than its limit counts as absent: the   *)
(* code deletes it in the critical section that counts.                    *)
(***************************************************************************)
EXTENDS QueueDb

CONSTANTS
  Listeners,       \* accounts and browsers, as listenerID names them
  Admins,          \* those among them with administrator accounts
  OwnerOf,         \* per id, the listener who submitted it, or None
  ActiveWindow,    \* vote_active_seconds, in ticks
  Timeout,         \* vote_timeout_seconds, in ticks
  Percent,         \* vote_percent
  Requests,        \* bound: the requests of a behaviour, each made once
  Wishes,          \* what they may ask
  Disturbances     \* bound: the transactions and settings of everybody else

ASSUME ListenersAssumption ==
  IsFiniteSet(Listeners) /\ Admins \subseteq Listeners /\ None \notin Listeners
ASSUME OwnerAssumption == OwnerOf \in [Ids -> Listeners \cup {None}]
ASSUME PolicyAssumption ==
  /\ ActiveWindow \in Nat /\ Timeout \in Nat
  /\ Percent \in 1..100 /\ Disturbances \in Nat
ASSUME WishesAssumption == Wishes \subseteq {"skip", "unskip", "remove", "unremove"}

VARIABLES
  enabled,   \* vote_enabled
  idle,      \* per listener, the age of active[listener]
  age,       \* per target and listener, the age of votes[target][listener]
  req,       \* per request, where it is and what it has read
  left       \* disturbances still to come

voteVars == <<enabled, idle, age, req, left>>
vars == <<db, voteVars>>

Targets == {"skip", "remove"} \X Ids
Unseen == ActiveWindow + 2      \* no entry, never had one
Gone == Timeout + 1             \* no vote
NewRequest ==
  [pc |-> "new", wish |-> "skip", by |-> None, rev |-> 0, wanted |-> None,
   current |-> None, order |-> <<>>, target |-> None, voted |-> FALSE]

Init ==
  /\ DbInit
  /\ enabled = TRUE
  /\ idle = [l \in Listeners |-> Unseen]
  /\ age = [t \in Targets |-> [l \in Listeners |-> Gone]]
  /\ req = [q \in Requests |-> NewRequest]
  /\ left = Disturbances
-----------------------------------------------------------------------------
(* The vote manager.                                                       *)

Active == {l \in Listeners : idle[l] <= ActiveWindow}
VotesFor(target) == {l \in Listeners : age[target][l] <= Timeout}

\* ceil(n * percent / 100), of at least one listener, and at least one vote.
Threshold(n) == Max({1, (Max({1, n}) * Percent + 99) \div 100})

\* Mutant: more than the threshold.
CarriedByMore(target) ==
  ~enabled \/ Cardinality(VotesFor(target)) > Threshold(Cardinality(Active))

\* state: without a policy it is 0 votes of 0 required.
Carried(target) ==
  ~enabled \/ Cardinality(VotesFor(target)) >= Threshold(Cardinality(Active))

Touch(l) == idle' = [idle EXCEPT ![l] = 0]

\* What a skip is about: the current item, or else the first of the list.
SkipTarget(current, order) ==
  IF current # None \/ order = <<>> THEN current ELSE order[1]
-----------------------------------------------------------------------------
(* The requests.                                                           *)

Skips(q) == req[q].wish \in {"skip", "unskip"}
TargetOf(q) == <<IF Skips(q) THEN "skip" ELSE "remove", req[q].target>>
At(q, pc) == req[q].pc = pc
Goto(q, pc) == req' = [req EXCEPT ![q].pc = pc]

\* The button is pressed on a page that shows the queue as it is now.
Send(q, l, wish) ==
  /\ At(q, "new")
  /\ \E wanted \in IF wish \in {"skip", "unskip"}
                   THEN {SkipTarget(db.current, db.order)} ELSE Listed(db) :
       req' = [req EXCEPT ![q] = [NewRequest EXCEPT
                 !.pc = "sent", !.wish = wish, !.by = l, !.rev = db.rev,
                 !.wanted = wanted]]
  /\ UNCHANGED <<db, enabled, idle, age, left>>

\* The request arrives: the first query of the handler's own snapshot.
ReadState(q) ==
  /\ At(q, "sent")
  /\ req' = [req EXCEPT ![q].pc = "items", ![q].current = db.current]
  /\ UNCHANGED <<db, enabled, idle, age, left>>

\* Administrators, owners and a household that does not vote edit directly;
\* so does an administrator who withdraws a skip vote.
Entitled(q, target) ==
  /\ req[q].wish # "unremove"
  /\ \/ ~enabled
     \/ req[q].by \in Admins
     \/ ~Skips(q) /\ OwnerOf[target] = req[q].by

\* Mutant: a skip vote with nothing in the queue.
NextPcEmptyHanded(q, target) ==
  IF ~Skips(q) /\ target \notin Listed(db) THEN "refused"
  ELSE IF Entitled(q, target) THEN "edit" ELSE "record"

NextPc(q, target) ==
  IF ~Skips(q) /\ target \notin Listed(db) THEN "refused"
  ELSE IF Entitled(q, target) THEN "edit"
  ELSE IF target = None THEN "refused" ELSE "record"

\* The second query, and what the handler concludes from it and the policy.
ReadItems(q) ==
  /\ At(q, "items")
  /\ LET target == IF Skips(q) THEN SkipTarget(req[q].current, db.order)
                               ELSE req[q].wanted
     IN req' = [req EXCEPT ![q].pc = NextPc(q, target), ![q].order = db.order,
                           ![q].target = target, ![q].current = None]
  /\ UNCHANGED <<db, enabled, idle, age, left>>

\* setVote, up to the second unlock. (Between the touch and the vote its
\* listener is merely present, as after a Show.)
Record(q) ==
  /\ At(q, "record")
  /\ Touch(req[q].by)
  /\ age' = [age EXCEPT ![TargetOf(q)][req[q].by] =
               IF req[q].wish \in {"skip", "remove"} THEN 0 ELSE Gone]
  /\ req' = [req EXCEPT ![q].pc = "count", ![q].voted = TRUE]
  /\ UNCHANGED <<db, enabled, left>>

\* The handler returns. A refusal says what was refused.
Answered(q, pc) ==
  req' = [req EXCEPT ![q] =
            IF pc = "done" THEN [NewRequest EXCEPT !.pc = pc]
            ELSE [NewRequest EXCEPT !.pc = pc, !.wish = req[q].wish,
                                    !.by = req[q].by, !.target = req[q].target]]

Count(q) ==
  /\ At(q, "count")
  /\ IF req[q].wish \in {"skip", "remove"} /\ Carried(TargetOf(q))
     THEN Goto(q, "edit") /\ UNCHANGED idle
     ELSE /\ Answered(q, "done")
          /\ IF Skips(q) THEN UNCHANGED idle ELSE Touch(req[q].by)
  /\ UNCHANGED <<db, enabled, age, left>>

\* Mutant: an older revision will do.
MatchesAtMost(q) == req[q].rev <= db.rev

\* The check of Store.mutate.
Matches(q) == req[q].rev = db.rev

Commit(q) ==
  /\ At(q, "edit") /\ Matches(q)
  /\ IF Skips(q) THEN DbSkip ELSE DbRemove(req[q].target)
  /\ Goto(q, "clear")
  /\ UNCHANGED <<enabled, idle, age, left>>

\* Conflict, or nothing there to skip or remove.
Refuse(q) ==
  /\ At(q, "edit")
  /\ ~Matches(q) \/ ~(IF Skips(q) THEN SkipOK(db) ELSE RemoveItemOK(db, req[q].target))
  /\ Answered(q, "refused")
  /\ UNCHANGED <<db, enabled, idle, age, left>>

\* clear, and the touch of attachVote.
ClearVotes(q) ==
  /\ At(q, "clear")
  /\ age' = [t \in Targets |-> IF t = TargetOf(q) THEN [l \in Listeners |-> Gone]
                                                 ELSE age[t]]
  /\ IF Skips(q) /\ ~req[q].voted THEN UNCHANGED idle ELSE Touch(req[q].by)
  /\ Answered(q, "done")
  /\ UNCHANGED <<db, enabled, left>>
-----------------------------------------------------------------------------
(* Everybody else.                                                         *)

\* GET /queue, and each snapshot of an open event stream.
Show(l) ==
  /\ Touch(l)
  /\ UNCHANGED <<db, enabled, age, req, left>>

\* Whoever is not touched grows older.
Tick ==
  /\ idle' = [l \in Listeners |->
                IF idle[l] <= ActiveWindow THEN idle[l] + 1 ELSE idle[l]]
  /\ age' = [t \in Targets |-> [l \in Listeners |->
               IF age[t][l] <= Timeout THEN age[t][l] + 1 ELSE age[t][l]]]
  /\ UNCHANGED <<db, enabled, req, left>>

Disturb == left > 0 /\ left' = left - 1

Configure ==
  /\ Disturb
  /\ enabled' = ~enabled
  /\ UNCHANGED <<db, idle, age, req>>

\* The controller starts the first item that has not failed.
Claim ==
  /\ \E i \in DOMAIN db.order :
       /\ \A j \in 1..(i - 1) : db.st[db.order[j]] = "failed"
       /\ db.st[db.order[i]] = "queued"
       /\ DbSetCurrent(db.order[i])
  /\ UNCHANGED voteVars

\* The rest of the API, and the controller as its items end and fail.
OtherTransaction ==
  /\ Disturb
  /\ \/ \E id \in Ids : \/ DbAdd(id)
                       \/ DbRetryCurrent(id)
                       \/ \E failed \in BOOLEAN : DbFinishCurrent(id, failed)
     \/ \E ids \in [DOMAIN db.order -> Ids] : DbReorder(ids)
     \/ DbClear
     \/ DbResetPlayback("stopped")
  /\ UNCHANGED <<enabled, idle, age, req>>

RequestStep(q) ==
  \/ \E l \in Listeners, wish \in Wishes : Send(q, l, wish)
  \/ ReadState(q) \/ ReadItems(q) \/ Record(q) \/ Count(q)
  \/ Commit(q) \/ Refuse(q) \/ ClearVotes(q)

Next ==
  \/ \E q \in Requests : RequestStep(q)
  \/ \E l \in Listeners : Show(l)
  \/ Tick
  \/ Configure \/ Claim \/ OtherTransaction

Spec == Init /\ [][Next]_vars
-----------------------------------------------------------------------------
RequestType ==
  [pc: {"new", "sent", "items", "record", "count", "edit", "clear", "refused",
        "done"},
   wish: {"skip", "unskip", "remove", "unremove"}, by: Listeners \cup {None},
   rev: Nat, wanted: Ids \cup {None}, current: Ids \cup {None}, order: Seq(Ids),
   target: Ids \cup {None}, voted: BOOLEAN]

\* A vote that is recorded or counted has a voter and an item.
VotingTypeOK ==
  /\ DbTypeOK
  /\ enabled \in BOOLEAN /\ left \in Nat
  /\ idle \in [Listeners -> 0..Unseen]
  /\ age \in [Targets -> [Listeners -> 0..Gone]]
  /\ req \in [Requests -> RequestType]
  /\ \A q \in Requests :
       /\ req[q].pc \notin {"new", "done"} => req[q].by \in Listeners
       /\ req[q].pc \in {"record", "count"} => req[q].target \in Ids
       /\ req[q].pc \in {"record", "count", "edit", "clear"} /\ ~Skips(q) =>
            req[q].target \in Ids

\* One song per round: when the item voted on heads the list that the handler
\* read, an accepted skip takes that item, and never the one behind it. Two
\* requests that count the same votes do not take two songs, whatever happened
\* between the snapshot, the count and the edit.
OneSongPerRound ==
  [][\A q \in Requests :
       Commit(q) /\ Skips(q) /\ req[q].order # <<>>
         /\ req[q].target = req[q].order[1] =>
       /\ db.st[req[q].target] # "deleted"
       /\ db'.st[req[q].target] = "deleted"]_vars

\* No majority goes unheard between two critical sections: when an item has
\* enough votes even if everybody ever seen were still there, then a request
\* that voted for it has yet to count or to act on it, or was refused its edit.
MajorityIsHeard ==
  \A target \in Targets :
    enabled /\ Cardinality(VotesFor(target))
                 >= Threshold(Cardinality({l \in Listeners : idle[l] # Unseen})) =>
    \E q \in Requests :
      /\ req[q].wish \in {"skip", "remove"} /\ TargetOf(q) = target
      /\ req[q].pc \in {"count", "edit", "clear", "refused"}

\* A vote to skip a song that is over by the time the request is handled is
\* not recorded for another one.
VotesDoNotCarryOver ==
  [][\A q \in Requests :
       Record(q) /\ Skips(q) /\ req[q].target # req[q].wanted =>
         db.st[req[q].wanted] # "deleted"]_vars
=============================================================================
