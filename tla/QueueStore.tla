----------------------------- MODULE QueueStore -----------------------------
(***************************************************************************)
(* The transactions of the queue store (internal/queue/store.go), as       *)
(* operators from one committed database state to the next.                *)
(*                                                                         *)
(* A database state is a record:                                           *)
(*   rev        queue_state.revision                                       *)
(*   order      the ids of queue_items in ORDER BY position                *)
(*   st         per id, queue_items.playback_status, or "absent" before    *)
(*              the row is inserted and "deleted" after it is gone         *)
(*   current    queue_state.current_item_id (None for NULL)                *)
(*   status, paused, buffering, volume   the columns of queue_state        *)
(* Titles, positions in the media, errors and timestamps are left out.     *)
(* The positions 0..n-1 behind "order", and the statements that maintain   *)
(* them, are the subject of QueueRows.                                     *)
(*                                                                         *)
(* XOK(d, ..) says that transaction X commits; otherwise it rolls back and *)
(* the database is unchanged. X(d, ..) is the state it commits.            *)
(***************************************************************************)
EXTENDS Items, Integers, SequencesExt

CONSTANT
  UrlOf     \* the source URL submitted with the item that gets this id

ASSUME UrlOfAssumption == DOMAIN UrlOf = Ids

RowStatus == {"queued", "current", "failed"}
Statuses == {"idle", "loading", "playing", "paused", "buffering", "retrying",
             "stopped", "unavailable"}
Volumes == 0..100

DbType == [rev: Nat, order: Seq(Ids),
           st: [Ids -> RowStatus \cup {"absent", "deleted"}],
           current: Ids \cup {None}, status: Statuses,
           paused: BOOLEAN, buffering: BOOLEAN, volume: Volumes]

\* The playback columns after a transaction that clears current_item_id.
Cleared(d, status) ==
  [d EXCEPT !.current = None, !.status = status, !.paused = FALSE,
            !.buffering = FALSE]

Bump(d) == [d EXCEPT !.rev = @ + 1]

Listed(d) == {d.order[i] : i \in DOMAIN d.order}

PlaceOf(d, id) == CHOOSE i \in DOMAIN d.order : d.order[i] = id

DeleteRow(d, id) ==
  [d EXCEPT !.order = RemoveAt(d.order, PlaceOf(d, id)), !.st[id] = "deleted"]

\* Every 'current' row goes back to 'queued'.
Demoted(d) ==
  [i \in Ids |-> IF d.st[i] = "current" THEN "queued" ELSE d.st[i]]

\* The ids with a row are those that are listed, and no URL is listed twice.
ListedOnce(d) ==
  /\ \A id \in Ids : d.st[id] \in RowStatus <=> id \in Listed(d)
  /\ \A i, j \in DOMAIN d.order : UrlOf[d.order[i]] = UrlOf[d.order[j]] => i = j

\* current_item_id and the rows' statuses tell the same story.
Agrees(d) ==
  /\ \A id \in Ids : d.st[id] = "current" => d.current \in {id, None}
  /\ \A p, q \in Ids : d.st[p] = "current" /\ d.st[q] = "current" => p = q
  /\ d.current # None => d.st[d.current] \in {"current", "deleted"}
-----------------------------------------------------------------------------
(* Edits of the list.                                                      *)

\* Mutant: without the UNIQUE index on source_url.
AddItemOKAnyUrl(d, id, limit) == Len(d.order) < limit /\ d.st[id] = "absent"

AddItemOK(d, id, limit) ==
  /\ Len(d.order) < limit
  /\ d.st[id] = "absent"
  /\ \A other \in Listed(d) : UrlOf[other] # UrlOf[id]

AddItem(d, id) ==
  Bump([d EXCEPT !.order = Append(@, id), !.st[id] = "queued"])

RemoveItemOK(d, id) == d.st[id] \in RowStatus
RemoveItem(d, id) == Bump(DeleteRow(d, id))

\* Mutant: without revision = revision + 1.
SkipSilently(d) == DeleteRow(d, d.order[1])

SkipOK(d) == d.order # <<>>
Skip(d) == Bump(DeleteRow(d, d.order[1]))

Clear(d) ==
  Bump([d EXCEPT !.order = <<>>,
                 !.st = [i \in Ids |-> IF d.st[i] \in RowStatus
                                       THEN "deleted" ELSE d.st[i]]])

\* ids names every row exactly once.
ReorderOK(d, ids) ==
  /\ \A i, j \in DOMAIN ids : ids[i] = ids[j] => i = j
  /\ Len(ids) = Len(d.order)
  /\ \A i \in DOMAIN ids : d.st[ids[i]] \in RowStatus
Reorder(d, ids) == Bump([d EXCEPT !.order = ids])
-----------------------------------------------------------------------------
(* What the playback controller stores.                                    *)

\* Mutant: any row may be claimed.
SetCurrentOKAnyRow(d, id) == d.st[id] \in RowStatus

SetCurrentOK(d, id) == Demoted(d)[id] = "queued"
SetCurrent(d, id) ==
  [Cleared(d, "loading") EXCEPT !.st = [Demoted(d) EXCEPT ![id] = "current"],
                                !.current = id]

\* Mutant: without revision = revision + 1.
FinishCurrentSilently(d, id, failed) ==
  Cleared(IF failed THEN [d EXCEPT !.st[id] = "failed"] ELSE DeleteRow(d, id), "idle")

FinishCurrentOK(d, id) == d.st[id] = "current"
FinishCurrent(d, id, failed) ==
  Bump(Cleared(IF failed THEN [d EXCEPT !.st[id] = "failed"]
                         ELSE DeleteRow(d, id), "idle"))

\* Mutants: a status outside the schema; current_item_id is not cleared.
RetryCurrentMisnamed(d, id) == Cleared([d EXCEPT !.st[id] = "queued"], "retry")
RetryCurrentKeepsCurrent(d, id) ==
  [d EXCEPT !.st[id] = "queued", !.status = "retrying"]

RetryCurrentOK(d, id) == d.st[id] = "current"
RetryCurrent(d, id) ==
  Cleared([d EXCEPT !.st[id] = "queued"], "retrying")

ResetPlayback(d, status) == Cleared(d, status)

ReconcilePlayback(d) == Cleared([d EXCEPT !.st = Demoted(d)], "idle")

UpdatePlayback(d, status, paused, buffering, volume) ==
  [d EXCEPT !.status = status, !.paused = paused, !.buffering = buffering,
            !.volume = volume]

SetVolume(d, volume) == [d EXCEPT !.volume = volume]

SetPaused(d, paused) ==
  [d EXCEPT !.paused = paused,
            !.status = CASE d.buffering -> "buffering"
                         [] ~d.buffering /\ paused -> "paused"
                         [] ~d.buffering /\ ~paused /\ d.status = "paused"
                              -> "playing"
                         [] OTHER -> d.status]
=============================================================================
