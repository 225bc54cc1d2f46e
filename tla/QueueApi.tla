------------------------------ MODULE QueueApi ------------------------------
(***************************************************************************)
(* The clients of the queue API and their optimistic concurrency.          *)
(*                                                                         *)
(* A client holds a snapshot: a revision (the ETag) and the ids it lists.  *)
(* Store.Snapshot reads it with two queries and no transaction, first the  *)
(* row of queue_state and then the rows of queue_items, so any transaction *)
(* may commit in between. An edit sends the held revision as If-Match, and *)
(* Store.mutate rejects it unless the revision is still the same.         *)
(*                                                                         *)
(* The playback controller is represented by all the transactions it can   *)
(* issue, at any time; Playback models when it really issues them.         *)
(***************************************************************************)
EXTENDS QueueDb

CONSTANTS
  Clients,     \* browsers, API users and request handlers that hold snapshots
  Reported,    \* the playback columns the controller may store
  MaxRev       \* bound: no edit is made at this revision or beyond

ASSUME MaxRevAssumption == MaxRev \in Nat
ASSUME ReportedAssumption ==
  Reported \subseteq [status: Statuses, paused: BOOLEAN, buffering: BOOLEAN,
                      volume: Volumes]

VARIABLES
  rev,      \* per client, the revision of the snapshot it holds
  order,    \* per client, the list of that snapshot
  reading   \* per client, the revision already read by a snapshot under way,
            \* or NotReading

vars == <<db, rev, order, reading>>
clientVars == <<rev, order, reading>>

NotReading == -1

\* Every client has loaded the page.
Init ==
  /\ DbInit
  /\ rev = [c \in Clients |-> db.rev]
  /\ order = [c \in Clients |-> db.order]
  /\ reading = [c \in Clients |-> NotReading]

\* The first query of Snapshot.
ReadState(c) ==
  /\ reading[c] = NotReading
  /\ reading' = [reading EXCEPT ![c] = db.rev]
  /\ UNCHANGED <<db, rev, order>>

\* The second query; the snapshot is complete and replaces the one held.
ReadItems(c) ==
  /\ reading[c] # NotReading
  /\ rev' = [rev EXCEPT ![c] = reading[c]]
  /\ order' = [order EXCEPT ![c] = db.order]
  /\ reading' = [reading EXCEPT ![c] = NotReading]
  /\ UNCHANGED db

\* Mutant: an older revision will do.
MatchesAtMost(c) == rev[c] <= db.rev

\* The check of Store.mutate. A mismatch is answered with a conflict.
Matches(c) == rev[c] = db.rev

\* An edit that is accepted. The client may have any snapshot under way: it
\* polls, and it sends the revision it has shown to its user.
Edit(c) ==
  /\ db.rev < MaxRev
  /\ Matches(c)
  /\ \/ \E id \in Ids : DbRemove(id)
     \/ DbSkip
     \/ DbClear
     \/ \E ids \in [DOMAIN db.order -> Ids] : DbReorder(ids)
  /\ UNCHANGED clientVars

Submit(id) ==
  /\ db.rev < MaxRev
  /\ DbAdd(id)
  /\ UNCHANGED clientVars

Controller ==
  /\ \/ \E id \in Ids :
          \/ DbSetCurrent(id)
          \/ \E failed \in BOOLEAN : db.rev < MaxRev /\ DbFinishCurrent(id, failed)
          \/ DbRetryCurrent(id)
     \/ \E status \in {"idle", "stopped", "unavailable"} : DbResetPlayback(status)
     \/ DbReconcilePlayback
     \/ \E r \in Reported :
          \/ DbUpdatePlayback(r.status, r.paused, r.buffering, r.volume)
          \/ DbSetVolume(r.volume)
          \/ DbSetPaused(r.paused)
  /\ UNCHANGED clientVars

Next ==
  \/ \E c \in Clients : ReadState(c) \/ ReadItems(c) \/ Edit(c)
  \/ \E id \in Ids : Submit(id)
  \/ Controller

Spec == Init /\ [][Next]_vars
-----------------------------------------------------------------------------
TypeOK ==
  /\ DbTypeOK
  /\ rev \in [Clients -> Nat]
  /\ order \in [Clients -> Seq(Ids)]
  /\ reading \in [Clients -> Nat \cup {NotReading}]

\* A snapshot may be torn: an old revision with a newer list. But a snapshot
\* whose revision is still the database's lists exactly the queue, whatever
\* committed between its two queries and since.
SnapshotsSound ==
  \A c \in Clients : Matches(c) => order[c] = db.order

\* No client is ever ahead of the database, nor is a snapshot under way.
NeverAhead ==
  \A c \in Clients : rev[c] <= db.rev /\ reading[c] <= db.rev

\* An edit that changes the queue was made by a client that held the very list
\* it changed: nobody overwrites a change they have not seen.
EditsActOnWhatWasSeen ==
  [][\A c \in Clients : Edit(c) => order[c] = db.order]_vars
=============================================================================
