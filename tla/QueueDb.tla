------------------------------ MODULE QueueDb -------------------------------
(***************************************************************************)
(* The queue database as the rest of the program sees it: one record that  *)
(* changes by whole transactions, in any order the callers choose. The     *)
(* pool has a single connection (internal/database/database.go), so two    *)
(* transactions never overlap.                                             *)
(*                                                                         *)
(* This is the abstract specification. QueueApi and Playback add the       *)
(* callers, whose db steps are steps of this module; QueueRows shows that  *)
(* the SQL statements of the edits implement it.                           *)
(***************************************************************************)
EXTENDS QueueStore

CONSTANTS
  QueueLimit,    \* RASPI_MEDIA_PLAYER_QUEUE_LIMIT
  InitialOrder   \* the items already queued when the behaviour starts

ASSUME QueueLimitAssumption == QueueLimit \in Nat
ASSUME InitialOrderAssumption ==
  /\ InitialOrder \in Seq(Ids)
  /\ \A i, j \in DOMAIN InitialOrder :
       UrlOf[InitialOrder[i]] = UrlOf[InitialOrder[j]] => i = j

VARIABLE db

InitialDb ==
  [rev |-> Len(InitialOrder), order |-> InitialOrder,
   st |-> [id \in Ids |-> IF \E i \in DOMAIN InitialOrder : InitialOrder[i] = id
                          THEN "queued" ELSE "absent"],
   current |-> None, status |-> "idle", paused |-> FALSE, buffering |-> FALSE,
   volume |-> 100]

DbInit == db = InitialDb

\* POST /queue/items, the auto-queue engine and the library: no revision asked.
DbAdd(id) == AddItemOK(db, id, QueueLimit) /\ db' = AddItem(db, id)

\* The edits that Store.mutate runs, once the revision was found to match.
DbRemove(id) == RemoveItemOK(db, id) /\ db' = RemoveItem(db, id)
DbSkip == SkipOK(db) /\ db' = Skip(db)
DbClear == db' = Clear(db)
DbReorder(ids) == ReorderOK(db, ids) /\ db' = Reorder(db, ids)

DbSetCurrent(id) == SetCurrentOK(db, id) /\ db' = SetCurrent(db, id)
DbFinishCurrent(id, failed) ==
  FinishCurrentOK(db, id) /\ db' = FinishCurrent(db, id, failed)
DbRetryCurrent(id) == RetryCurrentOK(db, id) /\ db' = RetryCurrent(db, id)
DbResetPlayback(status) == db' = ResetPlayback(db, status)
DbReconcilePlayback == db' = ReconcilePlayback(db)
DbUpdatePlayback(status, paused, buffering, volume) ==
  db' = UpdatePlayback(db, status, paused, buffering, volume)
DbSetVolume(volume) == db' = SetVolume(db, volume)
DbSetPaused(paused) == db' = SetPaused(db, paused)

DbNext ==
  \/ \E id \in Ids :
       \/ DbAdd(id)
       \/ DbRemove(id)
       \/ DbSetCurrent(id)
       \/ \E failed \in BOOLEAN : DbFinishCurrent(id, failed)
       \/ DbRetryCurrent(id)
  \/ DbSkip
  \/ DbClear
  \/ \E ids \in [DOMAIN db.order -> Ids] : DbReorder(ids)
  \/ \E status \in Statuses : DbResetPlayback(status)
  \/ DbReconcilePlayback
  \/ \E status \in Statuses, paused, buffering \in BOOLEAN, volume \in Volumes :
       DbUpdatePlayback(status, paused, buffering, volume)
  \/ \E volume \in Volumes : DbSetVolume(volume)
  \/ \E paused \in BOOLEAN : DbSetPaused(paused)

DbSpec == DbInit /\ [][DbNext]_db
-----------------------------------------------------------------------------
DbTypeOK == db \in DbType

\* The rows of the table are exactly the listed ones, each listed once, and no
\* two of them play the same URL (the UNIQUE index on source_url).
RowsListedOnce == ListedOnce(db)

\* At most one row is 'current', and the current_item_id that clients see never
\* points at a row that the controller has put back, failed or replaced: it is
\* that row, a row a user has just deleted, or NULL.
CurrentAgrees == Agrees(db)

\* The revision never goes back, and the list of ids never changes without a
\* new revision: an ETag names one list.
RevisionNamesList ==
  [][/\ db'.rev >= db.rev
     /\ db'.order # db.order => db'.rev > db.rev]_db

\* A row marked failed is never handed to the player again.
FailedStays ==
  [][\A id \in Ids :
       db.st[id] = "failed" => db'.st[id] \in {"failed", "deleted"}]_db
=============================================================================
