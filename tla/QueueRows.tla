----------------------------- MODULE QueueRows ------------------------------
(***************************************************************************)
(* How the queue store keeps the list in rows: every row of queue_items    *)
(* has a position, UNIQUE in the table, and the transactions that add,     *)
(* delete and reorder rows maintain the positions statement by statement   *)
(* (internal/queue/store.go: AddSourceTitled, mutate, compact, Reorder).   *)
(*                                                                         *)
(* SQLite enforces UNIQUE row by row, in an order it does not promise, so  *)
(* a statement that moves several rows must not move one onto the old or   *)
(* the new position of another. A statement can fail for other reasons at  *)
(* any time (a cancelled request, a full disk, the end of the process):    *)
(* the transaction then rolls back. The one connection of the pool keeps   *)
(* everyone else waiting until the transaction is over. One read is not    *)
(* checked: compact does not ask rows.Err(), so if reading the ids ends    *)
(* early, it goes on with those it has, and commits the rest of the rows   *)
(* with the negated positions.                                             *)
(*                                                                         *)
(* The transactions that touch no position are one step here; what they    *)
(* commit is taken from QueueStore. The revision that mutate compares is   *)
(* the subject of QueueApi.                                                *)
(***************************************************************************)
EXTENDS QueueStore

CONSTANTS
  QueueLimit,    \* RASPI_MEDIA_PLAYER_QUEUE_LIMIT
  InitialOrder,  \* the items already queued when the behaviour starts
  MaxRev         \* bound of the model: no transaction begins at this revision

ASSUME RowsAssumption ==
  /\ QueueLimit \in Nat /\ MaxRev \in Nat
  /\ InitialOrder \in Seq(Ids)
  /\ \A i, j \in DOMAIN InitialOrder :
       UrlOf[InitialOrder[i]] = UrlOf[InitialOrder[j]] => i = j

VARIABLES
  disk,   \* the committed database: the columns of QueueStore's records, with
          \* pos, the position of each listed id, in place of order
  tx,     \* the open transaction: its kind (op), the next statement (pc), its
          \* argument (id), the ids of its loop and how far the loop is (ids,
          \* at), and the database as it sees it (work)
  cutShort \* history: the positions are those of a compaction that read some
           \* of the ids only, and of what was added since

vars == <<disk, tx, cutShort>>

\* SELECT .. ORDER BY position: the lists of all rows with ascending positions.
Ordered(pos) ==
  {ids \in [1..Cardinality(DOMAIN pos) -> DOMAIN pos] :
     \A i, j \in DOMAIN ids : i < j => pos[ids[i]] < pos[ids[j]]}
OrderOf(pos) == CHOOSE ids \in Ordered(pos) : TRUE

\* The record of QueueStore that a database with positions stands for.
Seen(d) ==
  [rev |-> d.rev, order |-> OrderOf(d.pos), st |-> d.st, current |-> d.current,
   status |-> d.status, paused |-> d.paused, buffering |-> d.buffering,
   volume |-> d.volume]

Db == INSTANCE QueueDb WITH db <- Seen(disk)

InitialDisk ==
  [pos |-> [id \in Range(InitialOrder) |->
              (CHOOSE i \in DOMAIN InitialOrder : InitialOrder[i] = id) - 1],
   rev |-> Len(InitialOrder),
   st |-> [id \in Ids |-> IF id \in Range(InitialOrder) THEN "queued" ELSE "absent"],
   current |-> None, status |-> "idle", paused |-> FALSE, buffering |-> FALSE,
   volume |-> 100]

\* In the middle of a transaction positions may be negative.
PositionsOK(pos) == DOMAIN pos \in SUBSET Ids /\ pos \in [DOMAIN pos -> Int]
DiskOK(d) ==
  /\ PositionsOK(d.pos)
  /\ d \in [pos: {d.pos}, rev: Nat, st: [Ids -> RowStatus \cup {"absent", "deleted"}],
            current: Ids \cup {None}, status: Statuses,
            paused: BOOLEAN, buffering: BOOLEAN, volume: Volumes]
TxOK(t) ==
  /\ DiskOK(t.work)
  /\ t \in [op: {"none", "add", "remove", "finish", "skip", "clear", "reorder"},
            pc: {"none", "insert", "delete", "list", "negate", "number", "count",
                 "place", "bump", "commit", "clash"},
            id: Ids \cup {None}, ids: Seq(Ids), at: Nat, work: {t.work}]

NoTx(work) ==
  [op |-> "none", pc |-> "none", id |-> None, ids |-> <<>>, at |-> 0, work |-> work]
Idle == tx.pc = "none"

Init == disk = InitialDisk /\ tx = NoTx(InitialDisk) /\ cutShort = FALSE

\* Moving rows from old to new may find a position taken.
Clashes(old, new) ==
  \E p \in DOMAIN old, q \in DOMAIN new :
    p # q /\ (new[q] = old[p] \/ (p \in DOMAIN new /\ new[q] = new[p]))

\* A statement that writes positions, after which the transaction is at next.
Write(pos, next) ==
  tx' = IF Clashes(tx.work.pos, pos) THEN [tx EXCEPT !.pc = "clash"]
        ELSE [next EXCEPT !.work.pos = pos]

Negated(pos) == [id \in DOMAIN pos |-> -pos[id] - 1]
At(pc) == tx.pc = pc /\ UNCHANGED <<disk, cutShort>>
Goto(pc) == [tx EXCEPT !.pc = pc]
-----------------------------------------------------------------------------
(* The transactions begin.                                                 *)

Begin(op, pc, id, ids) ==
  /\ Idle /\ disk.rev < MaxRev
  /\ tx' = [op |-> op, pc |-> pc, id |-> id, ids |-> ids, at |-> 0, work |-> disk]
  /\ UNCHANGED <<disk, cutShort>>

BeginAdd(id) == disk.st[id] = "absent" /\ Begin("add", "insert", id, <<>>)
BeginRemove(id) == Begin("remove", "delete", id, <<>>)
BeginFinish(id) == Begin("finish", "delete", id, <<>>)
BeginSkip == Begin("skip", "delete", None, <<>>)
BeginClear == Begin("clear", "delete", None, <<>>)

\* Ids that are named twice are refused before the transaction.
BeginReorder(ids) ==
  /\ \A i, j \in DOMAIN ids : ids[i] = ids[j] => i = j
  /\ Begin("reorder", "count", None, ids)
-----------------------------------------------------------------------------
(* Their statements. One whose guard is false rolls back.                  *)

\* Mutant: a status outside the schema.
InsertMisnamed ==
  /\ At("insert")
  /\ Cardinality(DOMAIN tx.work.pos) < QueueLimit
  /\ Write(tx.work.pos @@ (tx.id :> Cardinality(DOMAIN tx.work.pos)),
           [Goto("bump") EXCEPT !.work.st[tx.id] = "new"])

\* SELECT COUNT(*), COALESCE(MAX(position), -1) + 1 and the INSERT.
Insert ==
  /\ At("insert")
  /\ LET pos == tx.work.pos
         position == IF DOMAIN pos = {} THEN 0 ELSE Max({pos[p] : p \in DOMAIN pos}) + 1
     IN  /\ Cardinality(DOMAIN pos) < QueueLimit
         /\ \A p \in DOMAIN pos : UrlOf[p] # UrlOf[tx.id]
         /\ Write([p \in DOMAIN pos \cup {tx.id} |->
                     IF p = tx.id THEN position ELSE pos[p]],
                  [Goto("bump") EXCEPT !.work.st[tx.id] = "queued"])

\* The rows that the DELETE finds.
Doomed ==
  {p \in DOMAIN tx.work.pos :
     \/ tx.op = "clear"
     \/ tx.op = "skip" /\ tx.work.pos[p] = 0
     \/ tx.op = "remove" /\ p = tx.id
     \/ tx.op = "finish" /\ p = tx.id /\ tx.work.st[p] = "current"}

Delete ==
  /\ At("delete")
  /\ Doomed # {} \/ tx.op = "clear"
  /\ tx' = [Goto("list") EXCEPT
              !.work.pos = [p \in DOMAIN @ \ Doomed |-> @[p]],
              !.work.st = [p \in Ids |-> IF p \in Doomed THEN "deleted" ELSE @[p]]]

\* Mutant: without ORDER BY.
ListUnordered ==
  At("list") /\ tx' = [Goto("negate") EXCEPT !.ids = SetToSeq(DOMAIN tx.work.pos)]

\* compact: the ids in order, or as many as could be read; then all positions
\* are negated, and those ids get 0, 1, 2, ...
List ==
  /\ At("list")
  /\ \E ids \in Ordered(tx.work.pos), n \in 0..Cardinality(DOMAIN tx.work.pos) :
       tx' = [Goto("negate") EXCEPT !.ids = SubSeq(ids, 1, n)]

Negate == At("negate") /\ Write(Negated(tx.work.pos), Goto("number"))

\* Mutant: positions from 1.
NumberFromOne ==
  /\ At("number") /\ tx.at < Len(tx.ids)
  /\ Write([tx.work.pos EXCEPT ![tx.ids[tx.at + 1]] = tx.at + 1],
           [tx EXCEPT !.at = @ + 1])

Number ==
  /\ At("number") /\ tx.at < Len(tx.ids)
  /\ Write([tx.work.pos EXCEPT ![tx.ids[tx.at + 1]] = tx.at],
           [tx EXCEPT !.at = @ + 1])

\* Reorder: the rows move out of the way one by one, in their new order.
Count ==
  /\ At("count")
  /\ Len(tx.ids) = Cardinality(DOMAIN tx.work.pos)
  /\ tx' = Goto("place")

\* Mutant: straight to the new position.
PlaceDirectly ==
  /\ At("place") /\ tx.at < Len(tx.ids)
  /\ tx.ids[tx.at + 1] \in DOMAIN tx.work.pos
  /\ Write([tx.work.pos EXCEPT ![tx.ids[tx.at + 1]] = tx.at],
           [tx EXCEPT !.at = @ + 1])

Place ==
  /\ At("place") /\ tx.at < Len(tx.ids)
  /\ tx.ids[tx.at + 1] \in DOMAIN tx.work.pos
  /\ Write([tx.work.pos EXCEPT ![tx.ids[tx.at + 1]] = -(tx.at + 1)],
           [tx EXCEPT !.at = @ + 1])

Flip ==
  /\ At("place") /\ tx.at = Len(tx.ids)
  /\ Write(Negated(tx.work.pos), Goto("bump"))

\* UPDATE queue_state.
Revise ==
  /\ \/ At("bump")
     \/ At("number") /\ tx.at = Len(tx.ids)
  /\ tx' = [Goto("commit") EXCEPT
              !.work = IF tx.op = "finish"
                       THEN Bump(Cleared(@, "idle")) ELSE Bump(@)]

\* An addition keeps what the others have left; they number all rows, or not.
Commit ==
  /\ tx.pc = "commit"
  /\ disk' = tx.work
  /\ tx' = NoTx(tx.work)
  /\ cutShort' = IF tx.op = "add" THEN cutShort
                 ELSE Len(tx.ids) # Cardinality(DOMAIN tx.work.pos)

Rollback == ~Idle /\ tx' = NoTx(disk) /\ UNCHANGED <<disk, cutShort>>
-----------------------------------------------------------------------------
(* The transactions of the playback controller that touch no position.     *)

Stored(seen) ==
  /\ disk' = [f \in DOMAIN disk |-> IF f = "pos" THEN disk.pos ELSE seen[f]]
  /\ tx' = [tx EXCEPT !.work = disk']
  /\ UNCHANGED cutShort

Columns ==
  /\ Idle
  /\ LET seen == Seen(disk)
     IN  \/ \E id \in Ids :
              \/ SetCurrentOK(seen, id) /\ Stored(SetCurrent(seen, id))
              \/ /\ FinishCurrentOK(seen, id) /\ disk.rev < MaxRev
                 /\ Stored(FinishCurrent(seen, id, TRUE))
              \/ RetryCurrentOK(seen, id) /\ Stored(RetryCurrent(seen, id))
         \/ Stored(ReconcilePlayback(seen))

Statement ==
  Insert \/ Delete \/ List \/ Negate \/ Number \/ Count \/ Place \/ Flip \/ Revise

Next ==
  \/ \E id \in Ids : BeginAdd(id) \/ BeginRemove(id) \/ BeginFinish(id)
  \/ BeginSkip \/ BeginClear
  \/ \E n \in 0..(Cardinality(DOMAIN disk.pos) + 1) :   \* longer ones fail alike
       \E ids \in [1..n -> Ids] : BeginReorder(ids)
  \/ Statement \/ Commit \/ Rollback \/ Columns

Spec == Init /\ [][Next]_vars
-----------------------------------------------------------------------------
RowsTypeOK == DiskOK(disk) /\ TxOK(tx)

\* Positions of the committed rows are 0, 1, .., n-1: Skip finds the first row
\* at 0, and MAX(position) + 1 is the number of rows. Nothing but a compaction
\* that was cut short breaks that, and the next complete one, or a reordering,
\* restores it.
Dense ==
  ~cutShort =>
    {disk.pos[p] : p \in DOMAIN disk.pos} = 0..(Cardinality(DOMAIN disk.pos) - 1)

\* No statement of an edit fails because a position is taken, in whatever order
\* SQLite visits the rows, unless a compaction was cut short before.
PositionsFree == tx.pc = "clash" => cutShort

\* Statement by statement, and wherever they fail, the edits do what QueueDb
\* says each of them does in one step, or nothing: from positions that no
\* compaction has left cut short, to such positions.
RowsImplementDb ==
  Db!DbInit /\ [][cutShort \/ cutShort' \/ Db!DbNext]_(Seen(disk))
=============================================================================
