--------------------------- MODULE QueueDb_proofs ---------------------------
(***************************************************************************)
(* The database invariants hold after any sequence of transactions.        *)
(***************************************************************************)
EXTENDS QueueDb, SequenceTheorems, FiniteSetTheorems, FunctionTheorems, TLAPS

\* What removing one element of a sequence leaves.
LEMMA RemoveAtProperties ==
  ASSUME NEW S, NEW s \in Seq(S), NEW k \in DOMAIN s
  PROVE  /\ RemoveAt(s, k) \in Seq(S)
         /\ Len(RemoveAt(s, k)) = Len(s) - 1
         /\ \A i \in 1..(Len(s) - 1) :
              RemoveAt(s, k)[i] = IF i < k THEN s[i] ELSE s[i + 1]
<1> DEFINE front == SubSeq(s, 1, k - 1)
           back == SubSeq(s, k + 1, Len(s))
<1>1. /\ k \in 1..Len(s)
      /\ Len(s) \in Nat
  OBVIOUS
<1>2. /\ front \in Seq(S)
      /\ Len(front) = k - 1
      /\ \A i \in 1..(k - 1) : front[i] = s[i]
  BY <1>1, SubSeqProperties
<1>3. /\ back \in Seq(S)
      /\ Len(back) = Len(s) - k
      /\ \A i \in 1..(Len(s) - k) : back[i] = s[i + k]
  BY <1>1, SubSeqProperties
<1> HIDE DEF front, back
<1>4. /\ front \o back \in Seq(S)
      /\ Len(front \o back) = Len(s) - 1
      /\ \A i \in 1..(Len(s) - 1) :
           (front \o back)[i] = IF i <= k - 1 THEN front[i] ELSE back[i - (k - 1)]
  <2>1. Len(front) + Len(back) = Len(s) - 1 /\ k \in Nat
    BY <1>1, <1>2, <1>3
  <2>2. /\ front \o back \in Seq(S)
        /\ Len(front \o back) = Len(front) + Len(back)
        /\ \A i \in 1..(Len(front) + Len(back)) :
             (front \o back)[i] = IF i <= Len(front) THEN front[i]
                                   ELSE back[i - Len(front)]
    BY <1>2, <1>3, ConcatProperties
  <2>3. QED BY <1>2, <2>1, <2>2
<1>5. RemoveAt(s, k) = front \o back
  BY DEF RemoveAt, front, back
<1>6. ASSUME NEW i \in 1..(Len(s) - 1)
      PROVE (front \o back)[i] = IF i < k THEN s[i] ELSE s[i + 1]
  <2>1. CASE i < k
    <3>1. i <= k - 1 /\ i \in 1..(k - 1)
      BY <1>1, <2>1
    <3>2. QED BY <1>2, <1>4, <2>1, <3>1
  <2>2. CASE ~(i < k)
    <3>1. ~(i <= k - 1) /\ i - (k - 1) \in 1..(Len(s) - k)
      BY <1>1, <2>2
    <3>2. i - (k - 1) + k = i + 1
      BY <1>1
    <3>3. QED BY <1>3, <1>4, <2>2, <3>1, <3>2
  <2>3. QED BY <2>1, <2>2
<1>7. QED
  BY <1>4, <1>5, <1>6

\* Deleting a listed row takes that id, and no other, off the list.
LEMMA DeleteRowProperties ==
  ASSUME NEW d \in DbType, ListedOnce(d), NEW id \in Ids, d.st[id] \in RowStatus
  PROVE  /\ DeleteRow(d, id) \in DbType
         /\ ListedOnce(DeleteRow(d, id))
         /\ Agrees(d) => Agrees(DeleteRow(d, id))
<1> DEFINE k == PlaceOf(d, id)
           e == DeleteRow(d, id)
<1>1. d.order \in Seq(Ids)
  BY DEF DbType
<1>2. k \in DOMAIN d.order /\ d.order[k] = id
  BY DEF ListedOnce, Listed, PlaceOf
<1>3. /\ e.order \in Seq(Ids)
      /\ Len(e.order) = Len(d.order) - 1
      /\ \A i \in 1..(Len(d.order) - 1) :
           e.order[i] = IF i < k THEN d.order[i] ELSE d.order[i + 1]
      /\ e.st = [d.st EXCEPT ![id] = "deleted"]
  BY <1>1, <1>2, RemoveAtProperties DEF DeleteRow, DbType
<1>4. e \in DbType
  BY <1>3 DEF DeleteRow, DbType
<1>5. /\ DOMAIN d.order = 1..Len(d.order)
      /\ DOMAIN e.order = 1..(Len(d.order) - 1)
      /\ Len(d.order) \in Nat
      /\ k \in 1..Len(d.order)
  BY <1>1, <1>2, <1>3
<1> HIDE DEF k, e
\* Position i of the shorter list holds what was at position up(i).
<1> DEFINE up(i) == IF i < k THEN i ELSE i + 1
<1>6. ASSUME NEW i \in DOMAIN e.order
      PROVE up(i) \in DOMAIN d.order /\ up(i) # k /\ e.order[i] = d.order[up(i)]
  <2>1. CASE i < k
    BY <1>3, <1>5, <2>1
  <2>2. CASE ~(i < k)
    <3>1. i + 1 \in DOMAIN d.order /\ i + 1 # k /\ e.order[i] = d.order[i + 1]
      BY <1>3, <1>5, <2>2
    <3>2. QED BY <2>2, <3>1
  <2>3. QED BY <2>1, <2>2
<1> HIDE DEF up
<1>7. \A j \in DOMAIN d.order :
        j # k => \E i \in DOMAIN e.order : e.order[i] = d.order[j]
  <2>1. SUFFICES ASSUME NEW j \in DOMAIN d.order, j # k
                 PROVE \E i \in DOMAIN e.order : e.order[i] = d.order[j]
    OBVIOUS
  <2>2. CASE j < k
    BY <1>3, <1>5, <2>2
  <2>3. CASE j > k
    <3>1. j - 1 \in DOMAIN e.order /\ e.order[j - 1] = d.order[j]
      BY <1>3, <1>5, <2>3
    <3>2. QED BY <3>1
  <2>4. QED BY <1>5, <2>1, <2>2, <2>3
<1>8. \A i, j \in DOMAIN d.order : d.order[i] = d.order[j] => i = j
  BY DEF ListedOnce
<1>9. Listed(e) = Listed(d) \ {id}
  <2>1. \A other : other \in Listed(e) => other \in Listed(d) \ {id}
    BY <1>2, <1>6, <1>8 DEF Listed
  <2>2. \A other : other \in Listed(d) \ {id} => other \in Listed(e)
    BY <1>2, <1>7 DEF Listed
  <2>3. QED BY <2>1, <2>2
<1>10. \A other \in Ids : e.st[other] \in RowStatus <=> other \in Listed(e)
  BY <1>3, <1>9 DEF ListedOnce, RowStatus, DbType
<1>11. \A i, j \in DOMAIN e.order : UrlOf[e.order[i]] = UrlOf[e.order[j]] => i = j
  <2>1. SUFFICES ASSUME NEW i \in DOMAIN e.order, NEW j \in DOMAIN e.order,
                        UrlOf[e.order[i]] = UrlOf[e.order[j]]
                 PROVE i = j
    OBVIOUS
  <2>2. up(i) = up(j)
    BY <1>6, <2>1 DEF ListedOnce
  <2>3. i \in Nat /\ j \in Nat /\ k \in Nat
    BY <1>5, <2>1
  <2>4. QED BY <2>2, <2>3 DEF up
<1>12. Agrees(d) => Agrees(e)
  <2>1. e.current = d.current
    BY DEF e, DeleteRow, DbType
  <2>2. QED BY <1>3, <2>1 DEF Agrees, DbType
<1>13. QED
  BY <1>4, <1>10, <1>11, <1>12 DEF ListedOnce, e

\* The strengthening that each transaction preserves.
Good(d) == d \in DbType /\ ListedOnce(d) /\ Agrees(d)

\* A new revision disturbs nothing else.
LEMMA BumpGood ==
  ASSUME NEW d, Good(d)
  PROVE  Good(Bump(d))
BY DEF Good, Bump, DbType, ListedOnce, Listed, Agrees

\* An appended item is new, and so is its URL.
LEMMA AddItemGood ==
  ASSUME NEW d, Good(d), NEW id \in Ids, NEW limit, AddItemOK(d, id, limit)
  PROVE  Good(AddItem(d, id))
<1> DEFINE e == [d EXCEPT !.order = Append(@, id), !.st[id] = "queued"]
           n == Len(d.order)
<1>1. d.order \in Seq(Ids) /\ n \in Nat
  BY DEF Good, DbType
<1>2. /\ e.order \in Seq(Ids)
      /\ DOMAIN e.order = 1..(n + 1)
      /\ e.order[n + 1] = id
      /\ \A i \in 1..n : e.order[i] = d.order[i]
      /\ DOMAIN d.order = 1..n
      /\ e.st = [d.st EXCEPT ![id] = "queued"]
      /\ e.current = d.current
  BY <1>1, AppendProperties DEF Good, DbType
<1>3. e \in DbType
  BY <1>2 DEF Good, DbType, RowStatus
<1> HIDE DEF e
<1>4. Listed(e) = Listed(d) \cup {id}
  <2>1. \A i \in DOMAIN e.order : e.order[i] \in Listed(d) \cup {id}
    BY <1>1, <1>2 DEF Listed
  <2>2. \A i \in DOMAIN d.order : i \in DOMAIN e.order /\ e.order[i] = d.order[i]
    BY <1>1, <1>2
  <2>3. n + 1 \in DOMAIN e.order
    BY <1>1, <1>2
  <2>4. QED BY <1>2, <2>1, <2>2, <2>3 DEF Listed
<1>5. ListedOnce(e)
  <2>1. \A other \in Ids : e.st[other] \in RowStatus <=> other \in Listed(e)
    BY <1>2, <1>4 DEF Good, ListedOnce, DbType, RowStatus
  <2>2. ASSUME NEW i \in DOMAIN e.order, NEW j \in DOMAIN e.order,
               UrlOf[e.order[i]] = UrlOf[e.order[j]]
        PROVE  i = j
    <3>1. \A m \in 1..n : UrlOf[e.order[m]] # UrlOf[id]
      BY <1>2 DEF AddItemOK, Listed
    <3>2. CASE i \in 1..n /\ j \in 1..n
      BY <1>2, <2>2, <3>2 DEF Good, ListedOnce
    <3>3. CASE i = n + 1 \/ j = n + 1
      BY <1>1, <1>2, <2>2, <3>1, <3>3
    <3>4. QED BY <1>1, <1>2, <2>2, <3>2, <3>3
  <2>3. QED BY <2>1, <2>2 DEF ListedOnce
<1>6. Agrees(e)
  BY <1>2 DEF Good, Agrees, AddItemOK, DbType
<1>7. Good(e)
  BY <1>3, <1>5, <1>6 DEF Good
<1>8. QED
  BY <1>7, BumpGood DEF AddItem, e

LEMMA ClearGood ==
  ASSUME NEW d, Good(d)
  PROVE  Good(Clear(d))
<1> DEFINE e == [d EXCEPT !.order = <<>>,
                          !.st = [i \in Ids |-> IF d.st[i] \in RowStatus
                                                THEN "deleted" ELSE d.st[i]]]
<1>1. /\ e.order = <<>>
      /\ e.current = d.current
      /\ \A i \in Ids :
           e.st[i] = IF d.st[i] \in RowStatus THEN "deleted" ELSE d.st[i]
  BY DEF Good, DbType
<1>2. e \in DbType
  BY EmptySeq DEF Good, DbType, RowStatus
<1> HIDE DEF e
<1>3. ListedOnce(e)
  BY <1>1 DEF ListedOnce, Listed, RowStatus
<1>4. Agrees(e)
  BY <1>1 DEF Good, Agrees, RowStatus, DbType
<1>5. QED
  BY <1>2, <1>3, <1>4, BumpGood DEF Clear, Good, e

\* There are as many rows as places in the list.
LEMMA ListedCount ==
  ASSUME NEW d, Good(d)
  PROVE  /\ Len(d.order) \in Nat
         /\ d.order \in Bijection(1..Len(d.order), Listed(d))
         /\ IsFiniteSet(Listed(d)) /\ Cardinality(Listed(d)) = Len(d.order)
<1> DEFINE n == Len(d.order)
<1>1. d.order \in Seq(Ids)
  BY DEF Good, DbType
<1>2. n \in Nat /\ d.order \in [1..n -> Ids]
  BY <1>1, LenProperties, ElementOfSeq
<1>3. d.order \in Bijection(1..n, Listed(d))
  <2>1. d.order \in [1..n -> Listed(d)]
    BY <1>2 DEF Listed
  <2>2. \A i, j \in 1..n : d.order[i] = d.order[j] => i = j
    BY <1>2 DEF Good, ListedOnce
  <2>3. \A row \in Listed(d) : \E i \in 1..n : d.order[i] = row
    BY <1>2 DEF Listed
  <2>4. QED BY <2>1, <2>2, <2>3, Fun_IsBij
<1>4. IsFiniteSet(1..n) /\ Cardinality(1..n) = n
  <2>1. n \in Nat
    BY <1>2
  <2> HIDE DEF n
  <2>2. QED BY <2>1, FS_Interval
<1>5. IsFiniteSet(Listed(d)) /\ Cardinality(Listed(d)) = n
  <2>1. ExistsBijection(1..n, Listed(d))
    BY <1>3 DEF ExistsBijection
  <2>2. QED BY <1>4, <2>1, FS_Bijection
<1>6. QED BY <1>2, <1>3, <1>5

\* A reordering that names as many rows as there are, each at most once, names
\* them all: Store.Reorder need not look for the missing ones.
LEMMA ReorderGood ==
  ASSUME NEW d, Good(d), NEW ids \in Seq(Ids), ReorderOK(d, ids)
  PROVE  Good(Reorder(d, ids))
<1> DEFINE e == [d EXCEPT !.order = ids]
           n == Len(d.order)
           Rows == Listed(d)
<1>1. /\ n \in Nat
      /\ d.order \in [1..n -> Ids]
      /\ ids \in [1..n -> Ids]
  <2>1. d.order \in Seq(Ids)
    BY DEF Good, DbType
  <2>2. QED BY <2>1, LenProperties, ElementOfSeq DEF ReorderOK
<1>2. d.order \in Bijection(1..n, Rows)
  BY ListedCount
<1>3. IsFiniteSet(Rows) /\ Cardinality(Rows) = n
  BY ListedCount
<1>4. ids \in Injection(1..n, Rows)
  <2>1. ids \in [1..n -> Rows]
    BY <1>1 DEF ReorderOK, Good, ListedOnce
  <2>2. QED BY <1>1, <2>1, Fun_IsInj DEF ReorderOK
<1>5. ids \in Surjection(1..n, Rows)
  <2>1. IsFiniteSet(1..n) /\ Cardinality(1..n) = n
    BY <1>1, FS_Interval
  <2>2. QED BY <1>3, <1>4, <2>1, FS_Injection
<1>6. {ids[i] : i \in DOMAIN ids} = Rows
  BY <1>1, <1>5, Fun_SurjectionProperties
<1>7. e \in DbType /\ e.order = ids /\ e.st = d.st /\ e.current = d.current
  BY DEF Good, DbType
<1> HIDE DEF e
<1>8. ListedOnce(e)
  <2>1. Listed(e) = Rows
    BY <1>6, <1>7 DEF Listed
  <2>2. ASSUME NEW i \in DOMAIN ids, NEW j \in DOMAIN ids,
               UrlOf[ids[i]] = UrlOf[ids[j]]
        PROVE  i = j
    <3>1. PICK p \in DOMAIN d.order : d.order[p] = ids[i]
      BY <1>1, <1>4, <2>2 DEF Injection, Listed
    <3>2. PICK q \in DOMAIN d.order : d.order[q] = ids[j]
      BY <1>1, <1>4, <2>2 DEF Injection, Listed
    <3>3. p = q
      BY <2>2, <3>1, <3>2 DEF Good, ListedOnce
    <3>4. ids[i] = ids[j]
      BY <3>1, <3>2, <3>3
    <3>5. QED BY <3>4 DEF ReorderOK
  <2>3. QED BY <1>7, <2>1, <2>2 DEF Good, ListedOnce
<1>9. Agrees(e)
  BY <1>7 DEF Good, Agrees
<1>10. QED
  BY <1>7, <1>8, <1>9, BumpGood DEF Reorder, Good, e

LEMMA DeleteRowGood ==
  ASSUME NEW d, Good(d), NEW id \in Ids, d.st[id] \in RowStatus
  PROVE  Good(DeleteRow(d, id))
BY DeleteRowProperties DEF Good

\* The first row exists whenever the list is not empty.
LEMMA SkipGood ==
  ASSUME NEW d, Good(d), SkipOK(d)
  PROVE  Good(Skip(d))
<1>1. d.order \in Seq(Ids) /\ d.order # <<>>
  BY DEF Good, DbType, SkipOK
<1>2. 1 \in DOMAIN d.order /\ d.order[1] \in Ids
  BY <1>1
<1>3. d.st[d.order[1]] \in RowStatus
  BY <1>2 DEF Good, ListedOnce, Listed
<1>4. QED
  BY <1>2, <1>3, DeleteRowGood, BumpGood DEF Skip

\* The transactions that rewrite statuses keep the list: it is enough that each
\* row keeps a row status and that the new statuses agree with current_item_id.
LEMMA StatusesGood ==
  ASSUME NEW d, Good(d), NEW e \in DbType, e.order = d.order,
         \A id \in Ids : e.st[id] \in RowStatus <=> d.st[id] \in RowStatus,
         Agrees(e)
  PROVE  Good(e)
BY DEF Good, ListedOnce, Listed

LEMMA SetCurrentGood ==
  ASSUME NEW d, Good(d), NEW id \in Ids, SetCurrentOK(d, id)
  PROVE  Good(SetCurrent(d, id))
<1> DEFINE e == SetCurrent(d, id)
<1>1. /\ e.order = d.order
      /\ e.current = id
      /\ e.st = [Demoted(d) EXCEPT ![id] = "current"]
      /\ \A i \in Ids : Demoted(d)[i] = IF d.st[i] = "current" THEN "queued" ELSE d.st[i]
  BY DEF Good, DbType, SetCurrent, Cleared, Demoted
<1>2. e \in DbType
  BY DEF Good, DbType, SetCurrent, Cleared, Demoted, RowStatus, Statuses
<1> HIDE DEF e
<1>3. \A i \in Ids : e.st[i] = IF i = id THEN "current"
                               ELSE IF d.st[i] = "current" THEN "queued" ELSE d.st[i]
  BY <1>1 DEF Demoted
<1>4. d.st[id] \in {"queued", "current"}
  BY <1>1 DEF SetCurrentOK
<1>5. Agrees(e)
  BY <1>1, <1>3 DEF Agrees
<1>6. \A i \in Ids : e.st[i] \in RowStatus <=> d.st[i] \in RowStatus
  BY <1>3, <1>4 DEF RowStatus
<1>7. QED
  BY <1>1, <1>2, <1>5, <1>6, StatusesGood DEF e

LEMMA ReconcilePlaybackGood ==
  ASSUME NEW d, Good(d)
  PROVE  Good(ReconcilePlayback(d))
<1> DEFINE e == ReconcilePlayback(d)
<1>1. /\ e.order = d.order
      /\ e.current = None
      /\ \A i \in Ids : e.st[i] = IF d.st[i] = "current" THEN "queued" ELSE d.st[i]
  BY DEF Good, DbType, ReconcilePlayback, Cleared, Demoted
<1>2. e \in DbType
  BY DEF Good, DbType, ReconcilePlayback, Cleared, Demoted, RowStatus, Statuses
<1> HIDE DEF e
<1>3. Agrees(e)
  BY <1>1 DEF Agrees
<1>4. \A i \in Ids : e.st[i] \in RowStatus <=> d.st[i] \in RowStatus
  BY <1>1 DEF RowStatus
<1>5. QED
  BY <1>1, <1>2, <1>3, <1>4, StatusesGood DEF e

\* The transactions that touch no row may also clear current_item_id.
LEMMA SameRowsGood ==
  ASSUME NEW d, Good(d), NEW e \in DbType, e.order = d.order, e.st = d.st,
         e.current \in {d.current, None}
  PROVE  Good(e)
BY DEF Good, ListedOnce, Listed, Agrees

LEMMA ClearedGood ==
  ASSUME NEW d, Good(d), NEW status \in Statuses
  PROVE  Good(Cleared(d, status))
<1> DEFINE e == Cleared(d, status)
<1>1. e \in DbType /\ e.order = d.order /\ e.st = d.st /\ e.current = None
  BY DEF Good, DbType, Cleared
<1> HIDE DEF e
<1>2. QED BY <1>1, SameRowsGood DEF e

\* Failing or retrying the current row, then clearing current_item_id.
LEMMA CurrentRowGood ==
  ASSUME NEW d, Good(d), NEW id \in Ids, d.st[id] = "current",
         NEW st \in {"queued", "failed"}, NEW status \in Statuses
  PROVE  Good(Cleared([d EXCEPT !.st[id] = st], status))
<1> DEFINE e == Cleared([d EXCEPT !.st[id] = st], status)
<1>1. /\ e.order = d.order
      /\ e.current = None
      /\ \A i \in Ids : e.st[i] = IF i = id THEN st ELSE d.st[i]
  BY DEF Good, DbType, Cleared
<1>2. e \in DbType
  BY DEF Good, DbType, Cleared, RowStatus
<1> HIDE DEF e
<1>3. Agrees(e)
  BY <1>1 DEF Agrees, Good
<1>4. \A i \in Ids : e.st[i] \in RowStatus <=> d.st[i] \in RowStatus
  BY <1>1 DEF RowStatus
<1>5. QED
  BY <1>1, <1>2, <1>3, <1>4, StatusesGood DEF e

LEMMA FinishCurrentGood ==
  ASSUME NEW d, Good(d), NEW id \in Ids, NEW failed \in BOOLEAN,
         FinishCurrentOK(d, id)
  PROVE  Good(FinishCurrent(d, id, failed))
<1>1. "idle" \in Statuses
  BY DEF Statuses
<1>2. CASE failed
  BY <1>1, <1>2, CurrentRowGood, BumpGood DEF FinishCurrent, FinishCurrentOK
<1>3. CASE ~failed
  BY <1>1, <1>3, DeleteRowGood, ClearedGood, BumpGood
     DEF FinishCurrent, FinishCurrentOK, RowStatus
<1>4. QED BY <1>2, <1>3

LEMMA RetryCurrentGood ==
  ASSUME NEW d, Good(d), NEW id \in Ids, RetryCurrentOK(d, id)
  PROVE  Good(RetryCurrent(d, id))
BY CurrentRowGood DEF RetryCurrent, RetryCurrentOK, Statuses

\* The columns that only report playback.
LEMMA ReportGood ==
  ASSUME NEW d, Good(d), NEW status \in Statuses, NEW paused \in BOOLEAN,
         NEW buffering \in BOOLEAN, NEW volume \in Volumes
  PROVE  /\ Good(UpdatePlayback(d, status, paused, buffering, volume))
         /\ Good(SetVolume(d, volume))
         /\ Good(SetPaused(d, paused))
<1>1. Good(UpdatePlayback(d, status, paused, buffering, volume))
  <2> DEFINE e == UpdatePlayback(d, status, paused, buffering, volume)
  <2>1. e \in DbType /\ e.order = d.order /\ e.st = d.st /\ e.current = d.current
    BY DEF Good, DbType, UpdatePlayback
  <2> HIDE DEF e
  <2>2. QED BY <2>1, SameRowsGood DEF e
<1>2. Good(SetVolume(d, volume))
  <2> DEFINE e == SetVolume(d, volume)
  <2>1. e \in DbType /\ e.order = d.order /\ e.st = d.st /\ e.current = d.current
    BY DEF Good, DbType, SetVolume
  <2> HIDE DEF e
  <2>2. QED BY <2>1, SameRowsGood DEF e
<1>3. Good(SetPaused(d, paused))
  <2> DEFINE e == SetPaused(d, paused)
  <2>1. e.status \in Statuses
    BY DEF Good, DbType, SetPaused, Statuses
  <2>2. e.order = d.order /\ e.st = d.st /\ e.current = d.current
    BY DEF Good, DbType, SetPaused
  <2>3. e \in DbType
    BY <2>1 DEF Good, DbType, SetPaused
  <2> HIDE DEF e
  <2>4. QED BY <2>2, <2>3, SameRowsGood DEF e
<1>4. QED BY <1>1, <1>2, <1>3
-----------------------------------------------------------------------------
DbInvariant == DbTypeOK /\ RowsListedOnce /\ CurrentAgrees

LEMMA DbInvariantIsGood == DbInvariant <=> Good(db)
BY DEF DbInvariant, Good, DbTypeOK, RowsListedOnce, CurrentAgrees

LEMMA DbInitGood == DbInit => DbInvariant
<1> SUFFICES ASSUME DbInit PROVE Good(db)
  BY DbInvariantIsGood
<1>1. /\ db.order = InitialOrder /\ InitialOrder \in Seq(Ids)
      /\ db.current = None
      /\ \A id \in Ids : db.st[id] =
           IF \E i \in DOMAIN InitialOrder : InitialOrder[i] = id
           THEN "queued" ELSE "absent"
  BY InitialOrderAssumption DEF DbInit, InitialDb
<1>2. db \in DbType
  BY InitialOrderAssumption DEF DbInit, InitialDb, DbType, Statuses, Volumes, RowStatus
<1>3. ListedOnce(db)
  BY <1>1, InitialOrderAssumption DEF ListedOnce, Listed, RowStatus
<1>4. Agrees(db)
  BY <1>1 DEF Agrees
<1>5. QED BY <1>2, <1>3, <1>4 DEF Good

\* One case per transaction.
LEMMA DbStepGood == DbInvariant /\ [DbNext]_db => DbInvariant'
<1> SUFFICES ASSUME Good(db), [DbNext]_db PROVE Good(db')
  <2>1. DbInvariant' <=> Good(db')
    BY DEF DbInvariant, Good, DbTypeOK, RowsListedOnce, CurrentAgrees
  <2>2. QED BY <2>1, DbInvariantIsGood
<1>1. ASSUME NEW id \in Ids, DbAdd(id) PROVE Good(db')
  BY <1>1, AddItemGood DEF DbAdd
<1>2. ASSUME NEW id \in Ids, DbRemove(id) PROVE Good(db')
  BY <1>2, DeleteRowGood, BumpGood DEF DbRemove, RemoveItem, RemoveItemOK
<1>3. ASSUME NEW id \in Ids, DbSetCurrent(id) PROVE Good(db')
  BY <1>3, SetCurrentGood DEF DbSetCurrent
<1>4. ASSUME NEW id \in Ids, NEW failed \in BOOLEAN, DbFinishCurrent(id, failed)
      PROVE  Good(db')
  BY <1>4, FinishCurrentGood DEF DbFinishCurrent
<1>5. ASSUME NEW id \in Ids, DbRetryCurrent(id) PROVE Good(db')
  BY <1>5, RetryCurrentGood DEF DbRetryCurrent
<1>6. CASE DbSkip
  BY <1>6, SkipGood DEF DbSkip
<1>7. CASE DbClear
  BY <1>7, ClearGood DEF DbClear
<1>8. ASSUME NEW ids \in [DOMAIN db.order -> Ids], DbReorder(ids)
      PROVE  Good(db')
  <2>1. ids \in Seq(Ids)
    BY DEF Good, DbType
  <2>2. QED BY <1>8, <2>1, ReorderGood DEF DbReorder
<1>9. ASSUME NEW status \in Statuses, DbResetPlayback(status) PROVE Good(db')
  BY <1>9, ClearedGood DEF DbResetPlayback, ResetPlayback
<1>10. CASE DbReconcilePlayback
  BY <1>10, ReconcilePlaybackGood DEF DbReconcilePlayback
<1>11. ASSUME NEW status \in Statuses, NEW paused \in BOOLEAN,
              NEW buffering \in BOOLEAN, NEW volume \in Volumes,
              DbUpdatePlayback(status, paused, buffering, volume)
       PROVE  Good(db')
  BY <1>11, ReportGood DEF DbUpdatePlayback
<1>12. ASSUME NEW volume \in Volumes, DbSetVolume(volume) PROVE Good(db')
  <2>1. "idle" \in Statuses /\ TRUE \in BOOLEAN
    BY DEF Statuses
  <2>2. QED BY <1>12, <2>1, ReportGood DEF DbSetVolume
<1>13. ASSUME NEW paused \in BOOLEAN, DbSetPaused(paused) PROVE Good(db')
  <2>1. "idle" \in Statuses /\ 0 \in Volumes
    BY DEF Statuses, Volumes
  <2>2. QED BY <1>13, <2>1, ReportGood DEF DbSetPaused
<1>14. CASE UNCHANGED db
  BY <1>14
<1>15. QED
  BY <1>1, <1>2, <1>3, <1>4, <1>5, <1>6, <1>7, <1>8, <1>9, <1>10, <1>11, <1>12,
     <1>13, <1>14 DEF DbNext

\* After any sequence of transactions, by whoever: the record is well formed,
\* the rows are the listed ids with no URL twice, and the row that is current
\* agrees with current_item_id.
THEOREM DbSafe == DbSpec => []DbInvariant
BY DbInitGood, DbStepGood, PTL DEF DbSpec
-----------------------------------------------------------------------------
\* What a transaction may do to the revision, and to a row.
RevisionStep ==
  /\ db'.rev >= db.rev
  /\ db'.order # db.order => db'.rev > db.rev

StatusMayBecome(old, new) ==
  /\ old = "failed" => new \in {"failed", "deleted"}
  /\ old = "deleted" => new = "deleted"
  /\ old # "absent" => new # "absent"
  /\ old = "absent" => new \in {"absent", "queued"}
StatusStep == \A id \in Ids : StatusMayBecome(db.st[id], db'.st[id])

\* Each transaction that touches the list raises the revision by one, and no
\* transaction lowers it.
LEMMA DbStepRevision == DbInvariant /\ [DbNext]_db => RevisionStep
<1> SUFFICES ASSUME db \in DbType, [DbNext]_db PROVE RevisionStep
  BY DEF DbInvariant, DbTypeOK
<1>1. db.rev \in Nat
  BY DEF DbType
<1>2. \/ db'.rev = db.rev + 1
      \/ db'.rev = db.rev /\ db'.order = db.order
  <2>1. CASE \E id \in Ids : DbAdd(id)
    BY <2>1 DEF DbAdd, AddItem, Bump, DbType
  <2>2. CASE \E id \in Ids : DbRemove(id)
    BY <2>2 DEF DbRemove, RemoveItem, DeleteRow, Bump, DbType
  <2>3. CASE DbSkip
    BY <2>3 DEF DbSkip, Skip, DeleteRow, Bump, DbType
  <2>4. CASE DbClear
    BY <2>4 DEF DbClear, Clear, Bump, DbType
  <2>5. CASE \E ids \in [DOMAIN db.order -> Ids] : DbReorder(ids)
    BY <2>5 DEF DbReorder, Reorder, Bump, DbType
  <2>6. CASE \E id \in Ids : DbSetCurrent(id)
    BY <2>6 DEF DbSetCurrent, SetCurrent, Cleared, DbType
  <2>7. CASE \E id \in Ids, failed \in BOOLEAN : DbFinishCurrent(id, failed)
    BY <2>7 DEF DbFinishCurrent, FinishCurrent, Bump, Cleared, DeleteRow, DbType
  <2>8. CASE \E id \in Ids : DbRetryCurrent(id)
    BY <2>8 DEF DbRetryCurrent, RetryCurrent, Cleared, DbType
  <2>9. CASE \E status \in Statuses : DbResetPlayback(status)
    BY <2>9 DEF DbResetPlayback, ResetPlayback, Cleared, DbType
  <2>10. CASE DbReconcilePlayback
    BY <2>10 DEF DbReconcilePlayback, ReconcilePlayback, Cleared, DbType
  <2>11. CASE \E status \in Statuses, paused, buffering \in BOOLEAN, volume \in Volumes :
                DbUpdatePlayback(status, paused, buffering, volume)
    BY <2>11 DEF DbUpdatePlayback, UpdatePlayback, DbType
  <2>12. CASE \E volume \in Volumes : DbSetVolume(volume)
    BY <2>12 DEF DbSetVolume, SetVolume, DbType
  <2>13. CASE \E paused \in BOOLEAN : DbSetPaused(paused)
    BY <2>13 DEF DbSetPaused, SetPaused, DbType
  <2>14. QED
    BY <2>1, <2>2, <2>3, <2>4, <2>5, <2>6, <2>7, <2>8, <2>9, <2>10, <2>11,
       <2>12, <2>13 DEF DbNext
<1>3. QED BY <1>1, <1>2 DEF RevisionStep

\* An ETag names one list: the revision never goes back, and no list is ever
\* published under the revision of another.
THEOREM DbRevisionNamesList == DbSpec => RevisionNamesList
<1>1. DbInvariant /\ [DbNext]_db =>
        [/\ db'.rev >= db.rev /\ (db'.order # db.order => db'.rev > db.rev)]_db
  BY DbStepRevision DEF RevisionStep
<1>2. QED
  BY <1>1, DbSafe, PTL DEF DbSpec, RevisionNamesList

\* No transaction brings a row back: SetCurrent asks for a queued one, and the
\* transactions that put rows back only put back current ones.
LEMMA DbStepStatus == DbInvariant /\ [DbNext]_db => StatusStep
<1> SUFFICES ASSUME db \in DbType, DbInvariant, [DbNext]_db, NEW id \in Ids
             PROVE  StatusMayBecome(db.st[id], db'.st[id])
  BY DEF DbInvariant, DbTypeOK, StatusStep
<1> USE DEF StatusMayBecome
<1>1. CASE \E other \in Ids : DbAdd(other)
  BY <1>1 DEF DbAdd, AddItemOK, AddItem, Bump, DbType
<1>2. CASE \E other \in Ids : DbRemove(other)
  BY <1>2 DEF DbRemove, RemoveItemOK, RowStatus, RemoveItem, DeleteRow, Bump, DbType
<1>3. CASE DbSkip
  <2>1. db.order \in Seq(Ids) /\ db.order # <<>>
    BY <1>3 DEF DbSkip, SkipOK, DbType
  <2>2. 1 \in DOMAIN db.order /\ db.order[1] \in Ids
    BY <2>1
  <2>3. db.st[db.order[1]] \in RowStatus
    BY <2>2 DEF DbInvariant, RowsListedOnce, ListedOnce, Listed
  <2>4. QED BY <1>3, <2>2, <2>3 DEF DbSkip, Skip, DeleteRow, Bump, DbType, RowStatus
<1>4. CASE DbClear
  BY <1>4 DEF DbClear, Clear, Bump, DbType, RowStatus
<1>5. CASE \E ids \in [DOMAIN db.order -> Ids] : DbReorder(ids)
  BY <1>5 DEF DbReorder, Reorder, Bump, DbType
<1>6. CASE \E other \in Ids : DbSetCurrent(other)
  BY <1>6 DEF DbSetCurrent, SetCurrentOK, SetCurrent, Demoted, Cleared, DbType
<1>7. CASE \E other \in Ids, failed \in BOOLEAN : DbFinishCurrent(other, failed)
  BY <1>7 DEF DbFinishCurrent, FinishCurrentOK, FinishCurrent, Bump, Cleared,
              DeleteRow, DbType
<1>8. CASE \E other \in Ids : DbRetryCurrent(other)
  BY <1>8 DEF DbRetryCurrent, RetryCurrentOK, RetryCurrent, Cleared, DbType
<1>9. CASE \E status \in Statuses : DbResetPlayback(status)
  BY <1>9 DEF DbResetPlayback, ResetPlayback, Cleared, DbType
<1>10. CASE DbReconcilePlayback
  BY <1>10 DEF DbReconcilePlayback, ReconcilePlayback, Demoted, Cleared, DbType
<1>11. CASE \E status \in Statuses, paused, buffering \in BOOLEAN, volume \in Volumes :
              DbUpdatePlayback(status, paused, buffering, volume)
  BY <1>11 DEF DbUpdatePlayback, UpdatePlayback, DbType
<1>12. CASE \E volume \in Volumes : DbSetVolume(volume)
  BY <1>12 DEF DbSetVolume, SetVolume, DbType
<1>13. CASE \E paused \in BOOLEAN : DbSetPaused(paused)
  BY <1>13 DEF DbSetPaused, SetPaused, DbType
<1>14. CASE UNCHANGED db
  BY <1>14
<1>15. QED
  BY <1>1, <1>2, <1>3, <1>4, <1>5, <1>6, <1>7, <1>8, <1>9, <1>10, <1>11, <1>12,
     <1>13, <1>14 DEF DbNext

\* A row marked failed is never played again, whatever the callers do.
THEOREM DbFailedStays == DbSpec => FailedStays
<1>1. DbInvariant /\ [DbNext]_db =>
        [\A id \in Ids :
           db.st[id] = "failed" => db'.st[id] \in {"failed", "deleted"}]_db
  BY DbStepStatus DEF StatusStep, StatusMayBecome
<1>2. QED
  BY <1>1, DbSafe, PTL DEF DbSpec, FailedStays
=============================================================================
