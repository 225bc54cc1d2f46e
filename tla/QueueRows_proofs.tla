-------------------------- MODULE QueueRows_proofs --------------------------
(***************************************************************************)
(* As long as no compaction has been cut short, the positions between two  *)
(* transactions are 0, 1, .., n-1, and no statement of a transaction ever  *)
(* meets a position that is taken: for any number of rows, and in whatever *)
(* order SQLite visits them. A later compaction of all rows, or a          *)
(* reordering, gets there from any positions.                              *)
(*                                                                         *)
(* There are two invariants, then. What holds of every transaction         *)
(* (BaseInvariant) says how far the loops have brought the rows that they  *)
(* name, from which it follows that whoever numbers all rows leaves them   *)
(* at 0, 1, .., n-1. What holds from dense positions (RowsInvariant) says  *)
(* besides, for each statement that can come next, where all the other     *)
(* rows are: below zero while some have been numbered, at zero or above    *)
(* while some have been moved out of the way.                              *)
(*                                                                         *)
(* The rows implement QueueDb: a third invariant says what an open         *)
(* transaction has made of the committed database so far, so that what it  *)
(* commits is one edit of QueueDb, whatever its statements went through.   *)
(***************************************************************************)
EXTENDS QueueRows, SequenceTheorems, FiniteSetTheorems, FunctionTheorems,
        WellFoundedInduction, TLAPS

Size(pos) == Cardinality(DOMAIN pos)
Apart(pos) == \A p, q \in DOMAIN pos : pos[p] = pos[q] => p = q

\* The positions are 0, 1, .., n-1.
Numbered(pos) ==
  /\ Apart(pos)
  /\ {pos[p] : p \in DOMAIN pos} = 0..(Size(pos) - 1)

\* ids lists some rows, none of them twice; or every row once.
Listing(ids, pos) ==
  /\ \A i, j \in 1..Len(ids) : ids[i] = ids[j] => i = j
  /\ \A i \in 1..Len(ids) : ids[i] \in DOMAIN pos
Lists(ids, pos) ==
  /\ Len(ids) = Size(pos)
  /\ \A i, j \in 1..Len(ids) : ids[i] = ids[j] => i = j
  /\ \A i \in 1..Len(ids) : ids[i] \in DOMAIN pos
  /\ \A p \in DOMAIN pos : \E i \in 1..Len(ids) : ids[i] = p

\* How far the loops are when the statement named by pc comes next.
MendedAt(pos, pc, op, ids, at) ==
  /\ pc \in {"insert", "delete", "list", "count", "negate"} => at = 0
  /\ pc \in {"count", "place"} =>
       \A i, j \in 1..Len(ids) : ids[i] = ids[j] => i = j
  /\ pc \in {"negate", "number"} => Listing(ids, pos)
  /\ pc = "number" => at <= Len(ids) /\ \A i \in 1..at : pos[ids[i]] = i - 1
  /\ pc = "place" =>
       /\ Len(ids) = Size(pos) /\ at <= Len(ids)
       /\ \A i \in 1..at : ids[i] \in DOMAIN pos /\ pos[ids[i]] = -i
  /\ pc \in {"bump", "commit"} /\ op # "add" /\ Len(ids) = Size(pos) => Numbered(pos)
  /\ pc \in {"delete", "list", "negate", "number", "count", "place"} => op # "add"
  /\ pc = "insert" => op = "add"

\* Where the rows are then, if they were at 0, 1, .., n-1 before.
RowsAt(pos, pc, op, ids, at) ==
  /\ pc \in {"none", "insert", "delete", "count"} => Numbered(pos)
  /\ pc \in {"bump", "commit"} /\ (op = "add" \/ Len(ids) = Size(pos)) => Numbered(pos)
  /\ pc \in {"list", "negate", "number", "place"} => Apart(pos)
  /\ pc \in {"list", "negate"} => \A p \in DOMAIN pos : pos[p] >= 0
  /\ pc = "number" =>
       \A p \in DOMAIN pos : (\A i \in 1..at : ids[i] # p) => pos[p] < 0
  /\ pc = "place" =>
       \A p \in DOMAIN pos : (\A i \in 1..at : ids[i] # p) => pos[p] >= 0
  /\ pc # "clash"

\* The ids with a row are those with a position.
Tabled(d) == \A id \in Ids : d.st[id] \in RowStatus <=> id \in DOMAIN d.pos

BaseInvariant ==
  /\ RowsTypeOK /\ cutShort \in BOOLEAN
  /\ IsFiniteSet(DOMAIN disk.pos) /\ IsFiniteSet(DOMAIN tx.work.pos)
  /\ Tabled(disk) /\ Tabled(tx.work)
  /\ MendedAt(tx.work.pos, tx.pc, tx.op, tx.ids, tx.at)
  /\ tx.pc = "insert" => tx.id \in Ids

RowsInvariant ==
  /\ BaseInvariant
  /\ Numbered(disk.pos)
  /\ RowsAt(tx.work.pos, tx.pc, tx.op, tx.ids, tx.at)
-----------------------------------------------------------------------------
(* Sets of positions.                                                      *)

LEMMA PositionsOKProperties ==
  ASSUME NEW pos, PositionsOK(pos)
  PROVE  /\ DOMAIN pos \in SUBSET Ids
         /\ \A p \in DOMAIN pos : pos[p] \in Int /\ p \in Ids
BY DEF PositionsOK

\* An injective listing of as many ids as there are rows lists all of them.
LEMMA ListsAll ==
  ASSUME NEW pos, IsFiniteSet(DOMAIN pos), NEW ids \in Seq(Ids),
         Len(ids) = Size(pos),
         \A i, j \in 1..Len(ids) : ids[i] = ids[j] => i = j,
         \A i \in 1..Len(ids) : ids[i] \in DOMAIN pos
  PROVE  Lists(ids, pos)
<1>1. /\ Len(ids) \in Nat
      /\ ids \in [1..Len(ids) -> DOMAIN pos]
  <2>1. ids \in [1..Len(ids) -> Ids] /\ Len(ids) \in Nat
    BY LenProperties
  <2>2. QED BY <2>1
<1>2. ids \in Injection(1..Len(ids), DOMAIN pos)
  BY <1>1 DEF Injection, IsInjective
<1>3. Cardinality(1..Len(ids)) = Len(ids)
  BY <1>1, FS_Interval
<1>4. ids \in Surjection(1..Len(ids), DOMAIN pos)
  BY <1>2, <1>3, FS_Injection DEF Size
<1>5. \A p \in DOMAIN pos : \E i \in 1..Len(ids) : ids[i] = p
  BY <1>4 DEF Surjection
<1>6. QED
  BY <1>5 DEF Lists

\* SELECT .. ORDER BY position lists every row once.
LEMMA OrderedLists ==
  ASSUME NEW pos, PositionsOK(pos), IsFiniteSet(DOMAIN pos), NEW ids \in Ordered(pos)
  PROVE  ids \in Seq(Ids) /\ Lists(ids, pos)
<1>1. Size(pos) \in Nat
  BY FS_CardinalityType DEF Size
<1>2. ids \in [1..Size(pos) -> DOMAIN pos]
  BY DEF Ordered, Size
<1>3. DOMAIN pos \subseteq Ids
  BY PositionsOKProperties
<1>4. ids \in [1..Size(pos) -> Ids]
  BY <1>2, <1>3
<1>5. ids \in Seq(Ids) /\ Len(ids) = Size(pos)
  BY <1>1, <1>4, SeqDef, LenProperties
<1>6. ASSUME NEW i \in 1..Len(ids), NEW j \in 1..Len(ids), ids[i] = ids[j]
      PROVE  i = j
  <2>1. \A k \in 1..Size(pos) : pos[ids[k]] \in Int
    BY <1>2, PositionsOKProperties
  <2>2. \A k, l \in 1..Size(pos) : k < l => pos[ids[k]] < pos[ids[l]]
    BY <1>2 DEF Ordered
  <2>3. ~(i < j)
    BY <1>5, <1>6, <2>1, <2>2
  <2>4. ~(j < i)
    BY <1>5, <1>6, <2>1, <2>2
  <2>5. QED BY <1>1, <1>5, <2>3, <2>4
<1>7. QED
  BY <1>2, <1>5, <1>6, ListsAll

\* Rows listed at i - 1 for every i are numbered.
LEMMA ListedInOrderNumbered ==
  ASSUME NEW pos, PositionsOK(pos), IsFiniteSet(DOMAIN pos),
         NEW ids \in Seq(Ids), Lists(ids, pos),
         \A i \in 1..Len(ids) : pos[ids[i]] = i - 1
  PROVE  Numbered(pos)
<1>1. Len(ids) \in Nat /\ Len(ids) = Size(pos)
  BY DEF Lists
<1>2. Apart(pos)
  <2>1. SUFFICES ASSUME NEW p \in DOMAIN pos, NEW q \in DOMAIN pos, pos[p] = pos[q]
                 PROVE  p = q
    BY DEF Apart
  <2>2. PICK i \in 1..Len(ids) : ids[i] = p
    BY DEF Lists
  <2>3. PICK j \in 1..Len(ids) : ids[j] = q
    BY DEF Lists
  <2>4. i - 1 = j - 1
    BY <2>1, <2>2, <2>3
  <2>5. QED BY <1>1, <2>2, <2>3, <2>4
<1>3. ASSUME NEW v, v \in {pos[p] : p \in DOMAIN pos}
      PROVE  v \in 0..(Size(pos) - 1)
  <2>1. PICK p \in DOMAIN pos : v = pos[p]
    BY <1>3
  <2>2. PICK i \in 1..Len(ids) : ids[i] = p
    BY DEF Lists
  <2>3. v = i - 1
    BY <2>1, <2>2
  <2>4. QED BY <1>1, <2>3
<1>4. ASSUME NEW v \in 0..(Size(pos) - 1)
      PROVE  v \in {pos[p] : p \in DOMAIN pos}
  <2>1. v + 1 \in 1..Len(ids) /\ (v + 1) - 1 = v
    BY <1>1
  <2>2. ids[v + 1] \in DOMAIN pos /\ pos[ids[v + 1]] = v
    BY <2>1 DEF Lists
  <2>3. QED BY <2>2
<1>5. QED
  BY <1>2, <1>3, <1>4 DEF Numbered
-----------------------------------------------------------------------------
(* The list that the positions stand for.                                  *)

\* As many rows stand before the i-th one as the list has before place i.
LEMMA OrderedRank ==
  ASSUME NEW pos, PositionsOK(pos), IsFiniteSet(DOMAIN pos), NEW ids \in Ordered(pos),
         NEW i \in 1..Len(ids)
  PROVE  Cardinality({q \in DOMAIN pos : pos[q] < pos[ids[i]]}) = i - 1
<1> DEFINE before == {q \in DOMAIN pos : pos[q] < pos[ids[i]]}
           list == [j \in 1..(i - 1) |-> ids[j]]
<1>1. ids \in Seq(Ids) /\ Lists(ids, pos)
  BY OrderedLists
<1>2. /\ Len(ids) \in Nat /\ DOMAIN ids = 1..Len(ids) /\ i \in Nat /\ i - 1 \in Nat
      /\ \A j \in 1..(i - 1) : j \in 1..Len(ids) /\ j < i
  BY <1>1
<1>3. \A j, k \in 1..Len(ids) : j < k => pos[ids[j]] < pos[ids[k]]
  BY <1>2 DEF Ordered
<1>4. \A j \in 1..Len(ids) : ids[j] \in DOMAIN pos /\ pos[ids[j]] \in Int
  BY <1>1, PositionsOKProperties DEF Lists
<1>5. list \in [1..(i - 1) -> before]
  BY <1>2, <1>3, <1>4
<1>6. \A j, k \in 1..(i - 1) : list[j] = list[k] => j = k
  BY <1>1, <1>2 DEF Lists
<1>7. \A q \in before : \E j \in 1..(i - 1) : list[j] = q
  <2>1. SUFFICES ASSUME NEW q \in before PROVE \E j \in 1..(i - 1) : list[j] = q
    OBVIOUS
  <2>2. PICK j \in 1..Len(ids) : ids[j] = q
    BY <1>1, <2>1 DEF Lists
  <2>3. pos[ids[j]] < pos[ids[i]] /\ j # i
    BY <1>4, <2>1, <2>2
  <2>4. ~(i < j)
    BY <1>3, <1>4, <2>3
  <2>5. j \in 1..(i - 1)
    BY <1>2, <2>3, <2>4
  <2>6. QED BY <2>2, <2>5
<1> HIDE DEF list, before
<1>8. list \in Bijection(1..(i - 1), before)
  BY <1>5, <1>6, <1>7, Fun_IsBij
<1>9. IsFiniteSet(1..(i - 1)) /\ Cardinality(1..(i - 1)) = i - 1
  <2>1. \A n \in Nat : IsFiniteSet(1..n) /\ Cardinality(1..n) = n
    BY FS_Interval
  <2>2. QED BY <1>2, <2>1
<1>10. Cardinality(before) = i - 1
  BY <1>8, <1>9, FS_Bijection DEF ExistsBijection
<1>11. QED BY <1>10 DEF before

\* There is one list of the rows with ascending positions.
LEMMA OrderedUnique ==
  ASSUME NEW pos, PositionsOK(pos), IsFiniteSet(DOMAIN pos),
         NEW a \in Ordered(pos), NEW b \in Ordered(pos)
  PROVE  a = b
<1>1. /\ a \in Seq(Ids) /\ Lists(a, pos)
      /\ b \in Seq(Ids) /\ Lists(b, pos)
  BY OrderedLists
<1>2. Len(a) = Len(b) /\ DOMAIN a = 1..Len(a) /\ DOMAIN b = 1..Len(b)
  BY <1>1 DEF Lists
<1>3. ASSUME NEW i \in 1..Len(a) PROVE a[i] = b[i]
  <2>1. PICK j \in 1..Len(b) : b[j] = a[i]
    BY <1>1 DEF Lists
  <2>2. /\ Cardinality({q \in DOMAIN pos : pos[q] < pos[a[i]]}) = i - 1
        /\ Cardinality({q \in DOMAIN pos : pos[q] < pos[b[j]]}) = j - 1
    BY OrderedRank
  <2>3. i - 1 = j - 1
    BY <2>1, <2>2
  <2>4. i = j
    BY <2>3
  <2>5. QED BY <2>1, <2>4
<1>4. \A s, t \in Seq(Ids) : Len(s) = Len(t) /\ (\A i \in 1..Len(s) : s[i] = t[i]) => s = t
  BY SeqEqual
<1>5. QED BY <1>1, <1>2, <1>3, <1>4

\* As many of the rows as there are, with ascending positions, are that list.
LEMMA ListedAscending ==
  ASSUME NEW pos, NEW ids \in Seq(Ids), Len(ids) = Size(pos),
         \A i \in 1..Len(ids) : ids[i] \in DOMAIN pos,
         \A i, j \in 1..Len(ids) : i < j => pos[ids[i]] < pos[ids[j]]
  PROVE  ids \in Ordered(pos)
<1>1. ids \in [1..Len(ids) -> Ids] /\ DOMAIN ids = 1..Len(ids)
  BY LenProperties
<1>2. ids \in [1..Len(ids) -> DOMAIN pos]
  BY <1>1
<1>3. QED BY <1>1, <1>2 DEF Ordered, Size

LEMMA OrderIs ==
  ASSUME NEW pos, PositionsOK(pos), IsFiniteSet(DOMAIN pos), NEW ids \in Ordered(pos)
  PROVE  OrderOf(pos) = ids
<1>1. OrderOf(pos) \in Ordered(pos)
  BY DEF OrderOf
<1>2. QED BY <1>1, OrderedUnique

\* A listing of the rows with row i at position i - 1 is the list.
LEMMA NumberedOrder ==
  ASSUME NEW pos, PositionsOK(pos), IsFiniteSet(DOMAIN pos),
         NEW ids \in Seq(Ids), Lists(ids, pos),
         \A i \in 1..Len(ids) : pos[ids[i]] = i - 1
  PROVE  OrderOf(pos) = ids
<1>1. \A i, j \in 1..Len(ids) : i < j => pos[ids[i]] < pos[ids[j]]
  <2>1. TAKE i, j \in 1..Len(ids)
  <2>2. i - 1 < j - 1 <=> i < j
    OBVIOUS
  <2>3. QED BY <2>2
<1>2. ids \in Ordered(pos)
  BY <1>1, ListedAscending DEF Lists
<1>3. QED BY <1>2, OrderIs

\* What the committed rows list.
LEMMA OrderOfNumbered ==
  ASSUME NEW pos, PositionsOK(pos), IsFiniteSet(DOMAIN pos), Numbered(pos)
  PROVE  /\ OrderOf(pos) \in Seq(Ids) /\ Lists(OrderOf(pos), pos)
         /\ \A i \in 1..Len(OrderOf(pos)) : pos[OrderOf(pos)[i]] = i - 1
<1> DEFINE n == Size(pos)
           ids == [i \in 1..n |-> CHOOSE p \in DOMAIN pos : pos[p] = i - 1]
<1>1. n \in Nat
  BY FS_CardinalityType DEF Size
<1>2. \A i \in 1..n : ids[i] \in DOMAIN pos /\ pos[ids[i]] = i - 1
  <2>1. TAKE i \in 1..n
  <2>2. i - 1 \in 0..(n - 1)
    BY <1>1
  <2>3. i - 1 \in {pos[p] : p \in DOMAIN pos}
    BY <2>2 DEF Numbered
  <2>4. \E p \in DOMAIN pos : pos[p] = i - 1
    BY <2>3
  <2>5. QED BY <2>4
<1>3. ids \in [1..n -> DOMAIN pos] /\ DOMAIN ids = 1..n
  BY <1>2
<1> HIDE DEF ids
<1>4. ids \in Seq(Ids) /\ Len(ids) = n
  <2>1. ids \in [1..n -> Ids]
    BY <1>3, PositionsOKProperties
  <2>2. QED BY <1>1, <2>1, SeqDef, LenProperties
<1>5. \A i, j \in 1..n : ids[i] = ids[j] => i = j
  <2>1. TAKE i, j \in 1..n
  <2>2. i - 1 = j - 1 => i = j
    BY <1>1
  <2>3. QED BY <1>2, <2>2
<1>6. Lists(ids, pos)
  BY <1>2, <1>4, <1>5, ListsAll
<1>7. OrderOf(pos) = ids
  BY <1>2, <1>4, <1>6, NumberedOrder
<1>8. QED BY <1>2, <1>4, <1>6, <1>7
-----------------------------------------------------------------------------
(* The initial state.                                                      *)

\* The initial list has its items at 0, 1, .., n-1.
LEMMA InitialPositions ==
  LET pos == InitialDisk.pos
  IN  /\ InitialOrder \in Seq(Ids) /\ Lists(InitialOrder, pos)
      /\ \A i \in 1..Len(InitialOrder) : pos[InitialOrder[i]] = i - 1
      /\ PositionsOK(pos) /\ DOMAIN pos = Range(InitialOrder)
      /\ IsFiniteSet(DOMAIN pos) /\ Numbered(pos)
<1> DEFINE rows == Range(InitialOrder)
           pos == InitialDisk.pos
           n == Len(InitialOrder)
<1>1. /\ InitialOrder \in Seq(Ids) /\ n \in Nat
      /\ DOMAIN InitialOrder = 1..n
      /\ \A i \in 1..n : InitialOrder[i] \in Ids
  BY RowsAssumption, LenProperties
<1>2. \A i, j \in 1..n : InitialOrder[i] = InitialOrder[j] => i = j
  BY <1>1, RowsAssumption
<1>3. /\ rows \in SUBSET Ids
      /\ \A i \in 1..n : InitialOrder[i] \in rows
      /\ \A p \in rows : \E i \in 1..n : InitialOrder[i] = p
  BY <1>1 DEF Range
<1> HIDE DEF rows, n
<1>4. \A p \in rows : pos[p] \in Int
  BY <1>1, <1>3 DEF InitialDisk, rows
<1>5. pos = [p \in rows |-> pos[p]]
  BY DEF InitialDisk, rows
<1>6. pos \in [rows -> Int]
  BY <1>4, <1>5
<1>7. PositionsOK(pos) /\ DOMAIN pos = rows
  BY <1>3, <1>6 DEF PositionsOK
<1>8. InitialOrder \in Injection(1..n, rows)
  BY <1>1, <1>2, <1>3 DEF Injection, IsInjective
<1>9. InitialOrder \in Surjection(1..n, rows)
  BY <1>1, <1>3 DEF Surjection
<1>10. IsFiniteSet(rows) /\ Cardinality(rows) = n
  <2>1. IsFiniteSet(1..n) /\ Cardinality(1..n) = n
    BY <1>1, FS_Interval
  <2>2. QED BY <1>8, <1>9, <2>1, FS_Surjection
<1>11. Lists(InitialOrder, pos)
  BY <1>1, <1>2, <1>3, <1>7, <1>10 DEF Lists, Size, n
<1>12. \A i \in 1..n : pos[InitialOrder[i]] = i - 1
  <2>1. TAKE i \in 1..n
  <2>2. pos[InitialOrder[i]] =
          (CHOOSE j \in DOMAIN InitialOrder : InitialOrder[j] = InitialOrder[i]) - 1
    BY <1>3 DEF InitialDisk, rows
  <2>3. (CHOOSE j \in DOMAIN InitialOrder : InitialOrder[j] = InitialOrder[i]) = i
    BY <1>1, <1>2
  <2>4. QED BY <2>2, <2>3
<1>13. Numbered(pos)
  BY <1>1, <1>7, <1>10, <1>11, <1>12, ListedInOrderNumbered DEF n
<1>14. QED BY <1>1, <1>7, <1>10, <1>11, <1>12, <1>13 DEF rows, n

\* Nothing is open.
LEMMA NoTxOK ==
  ASSUME NEW d, DiskOK(d)
  PROVE  /\ TxOK(NoTx(d)) /\ MendedAt(d.pos, "none", "none", <<>>, 0)
         /\ NoTx(d).work = d /\ NoTx(d).pc = "none" /\ NoTx(d).op = "none"
         /\ NoTx(d).ids = <<>> /\ NoTx(d).at = 0
BY EmptySeq DEF NoTx, TxOK, MendedAt

LEMMA RowsInit == Init => RowsInvariant
<1> SUFFICES ASSUME Init PROVE RowsInvariant
  OBVIOUS
<1> DEFINE pos == InitialDisk.pos
<1>1. /\ PositionsOK(pos) /\ IsFiniteSet(DOMAIN pos) /\ Numbered(pos)
      /\ DOMAIN pos = Range(InitialOrder)
  BY InitialPositions
<1>2. DiskOK(InitialDisk)
  BY <1>1, RowsAssumption, LenProperties
     DEF InitialDisk, DiskOK, RowStatus, Statuses, Volumes
<1>3. Tabled(InitialDisk)
  <2>1. \A id \in Ids : InitialDisk.st[id] = IF id \in Range(InitialOrder)
                                            THEN "queued" ELSE "absent"
    BY DEF InitialDisk
  <2>2. QED BY <1>1, <2>1 DEF Tabled, RowStatus
<1>4. disk = InitialDisk /\ tx = NoTx(InitialDisk) /\ cutShort = FALSE
  BY DEF Init
<1> HIDE DEF pos
<1>5. /\ TxOK(tx) /\ MendedAt(tx.work.pos, tx.pc, tx.op, tx.ids, tx.at)
      /\ tx.work = InitialDisk /\ tx.pc = "none"
  BY <1>2, <1>4, NoTxOK
<1>6. BaseInvariant
  BY <1>1, <1>2, <1>3, <1>4, <1>5 DEF BaseInvariant, RowsTypeOK, pos
<1>7. RowsAt(tx.work.pos, tx.pc, tx.op, tx.ids, tx.at) /\ Numbered(disk.pos)
  BY <1>1, <1>4, <1>5 DEF RowsAt, pos
<1>8. QED BY <1>6, <1>7 DEF RowsInvariant
-----------------------------------------------------------------------------
(* What holds of every transaction, after a cut-short compaction too.      *)

\* A set of natural numbers has a least one.
LEMMA Least ==
  ASSUME NEW S \in SUBSET Nat, S # {}
  PROVE  \E x \in S : \A y \in S : x <= y
<1>1. \E x \in S : \A y \in S : ~(<<y, x>> \in OpToRel(<, Nat))
  BY NatLessThanWellFounded, WFMin
<1>2. \A x, y \in Nat : <<y, x>> \in OpToRel(<, Nat) <=> y < x
  BY DEF OpToRel
<1>3. PICK x \in S : \A y \in S : ~(<<y, x>> \in OpToRel(<, Nat))
  BY <1>1
<1>4. \A y \in S : ~(y < x)
  BY <1>2, <1>3
<1>5. QED BY <1>4

\* A finite set of integers has a greatest one: the one with the fewest above.
LEMMA Greatest ==
  ASSUME NEW S \in SUBSET Int, IsFiniteSet(S), S # {}
  PROVE  /\ Max(S) \in S
         /\ \A y \in S : y <= Max(S)
<1> DEFINE Above(x) == {y \in S : y > x}
           counts == {Cardinality(Above(x)) : x \in S}
<1>1. \A x \in S : IsFiniteSet(Above(x)) /\ Cardinality(Above(x)) \in Nat
  BY FS_Subset, FS_CardinalityType
<1>2. counts \in SUBSET Nat /\ counts # {}
  BY <1>1
<1>3. PICK c \in counts : \A d \in counts : c <= d
  <2> HIDE DEF counts
  <2> QED BY <1>2, Least
<1>4. PICK x \in S : c = Cardinality(Above(x))
  BY <1>3
<1>5. ASSUME NEW y \in S, y > x PROVE FALSE
  <2>1. Above(y) \in SUBSET Above(x) /\ y \in Above(x) /\ y \notin Above(y)
    BY <1>4, <1>5
  <2>2. /\ Cardinality(Above(y)) <= Cardinality(Above(x))
        /\ Cardinality(Above(y)) # Cardinality(Above(x))
    <3> HIDE DEF Above
    <3> QED BY <1>1, <1>4, <2>1, FS_Subset
  <2>3. Cardinality(Above(x)) <= Cardinality(Above(y))
    BY <1>3, <1>4
  <2>4. QED BY <1>1, <1>4, <2>2, <2>3
<1>6. \A y \in S : x >= y
  BY <1>4, <1>5
<1>7. Max(S) \in S /\ \A y \in S : Max(S) >= y
  BY <1>4, <1>6 DEF Max
<1>8. QED BY <1>7

\* The position after which an addition goes is the last one.
LEMMA LastPosition ==
  ASSUME NEW pos, PositionsOK(pos), IsFiniteSet(DOMAIN pos), DOMAIN pos # {}
  PROVE  LET last == {pos[p] : p \in DOMAIN pos}
         IN  Max(last) \in last /\ \A y \in last : y <= Max(last)
<1> DEFINE last == {pos[p] : p \in DOMAIN pos}
<1>1. last \in SUBSET Int /\ last # {}
  BY PositionsOKProperties
<1>2. IsFiniteSet(last)
  <2>1. pos \in Surjection(DOMAIN pos, last)
    BY DEF Surjection, PositionsOK
  <2>2. QED BY <2>1, FS_Surjection
<1> HIDE DEF last
<1>3. QED BY <1>1, <1>2, Greatest DEF last

\* The parts of the invariant that every statement starts from.
LEMMA BaseProperties ==
  ASSUME BaseInvariant
  PROVE  /\ TxOK(tx) /\ DiskOK(tx.work) /\ PositionsOK(tx.work.pos)
         /\ DiskOK(disk) /\ PositionsOK(disk.pos)
         /\ IsFiniteSet(DOMAIN tx.work.pos) /\ IsFiniteSet(DOMAIN disk.pos)
         /\ Tabled(disk) /\ Tabled(tx.work)
         /\ MendedAt(tx.work.pos, tx.pc, tx.op, tx.ids, tx.at)
         /\ tx.at \in Nat /\ tx.ids \in Seq(Ids) /\ Len(tx.ids) \in Nat
BY DEF BaseInvariant, RowsTypeOK, TxOK, DiskOK

\* A statement that writes positions either meets one that is taken, and
\* changes nothing, or writes them.
LEMMA WriteCases ==
  ASSUME TxOK(tx), NEW next, TxOK(next), NEW pos, PositionsOK(pos), Write(pos, next)
  PROVE  /\ TxOK(tx')
         /\ \/ tx'.pc = "clash" /\ tx'.work = tx.work
            \/ /\ tx'.pc = next.pc /\ tx'.op = next.op /\ tx'.ids = next.ids
               /\ tx'.at = next.at /\ tx'.id = next.id
               /\ tx'.work.pos = pos /\ tx'.work.st = next.work.st
<1>1. CASE Clashes(tx.work.pos, pos)
  <2>1. tx' = [tx EXCEPT !.pc = "clash"]
    BY <1>1 DEF Write
  <2>2. QED BY <2>1 DEF TxOK
<1>2. CASE ~Clashes(tx.work.pos, pos)
  <2>1. tx' = [next EXCEPT !.work.pos = pos]
    BY <1>2 DEF Write
  <2>2. QED BY <2>1 DEF TxOK, DiskOK
<1>3. QED BY <1>1, <1>2

\* A transaction that is at next' with the rows pos' keeps what always holds.
LEMMA BaseKept ==
  ASSUME BaseInvariant, UNCHANGED <<disk, cutShort>>, TxOK(tx'),
         IsFiniteSet(DOMAIN tx'.work.pos), Tabled(tx'.work),
         MendedAt(tx'.work.pos, tx'.pc, tx'.op, tx'.ids, tx'.at), tx'.pc # "insert"
  PROVE  BaseInvariant'
<1>1. RowsTypeOK'
  BY DEF BaseInvariant, RowsTypeOK, DiskOK, PositionsOK
<1>2. IsFiniteSet(DOMAIN disk'.pos) /\ Tabled(disk') /\ cutShort' \in BOOLEAN
  BY DEF BaseInvariant, Tabled
<1>3. Tabled(tx.work)'
  BY DEF Tabled
<1>4. MendedAt(tx.work.pos, tx.pc, tx.op, tx.ids, tx.at)'
  BY DEF MendedAt, Listing, Size, Numbered, Apart
<1>5. QED
  BY <1>1, <1>2, <1>3, <1>4 DEF BaseInvariant, Tabled

\* The transaction of a clash is as it was.
LEMMA ClashBase ==
  ASSUME BaseInvariant, UNCHANGED <<disk, cutShort>>, TxOK(tx'),
         tx'.pc = "clash", tx'.work = tx.work
  PROVE  BaseInvariant'
<1>1. IsFiniteSet(DOMAIN tx'.work.pos) /\ Tabled(tx'.work)
  BY BaseProperties DEF Tabled
<1>2. MendedAt(tx'.work.pos, tx'.pc, tx'.op, tx'.ids, tx'.at)
  BY DEF MendedAt
<1>3. QED BY <1>1, <1>2, BaseKept

\* A statement that moves rows, and changes none.
LEMMA MoveBase ==
  ASSUME BaseInvariant, UNCHANGED <<disk, cutShort>>,
         NEW next, TxOK(next), NEW pos, PositionsOK(pos), Write(pos, next),
         DOMAIN pos = DOMAIN tx.work.pos, next.work.st = tx.work.st,
         next.pc # "insert", MendedAt(pos, next.pc, next.op, next.ids, next.at)
  PROVE  BaseInvariant'
<1>1. /\ TxOK(tx')
      /\ \/ tx'.pc = "clash" /\ tx'.work = tx.work
         \/ /\ tx'.pc = next.pc /\ tx'.op = next.op /\ tx'.ids = next.ids
            /\ tx'.at = next.at /\ tx'.id = next.id
            /\ tx'.work.pos = pos /\ tx'.work.st = next.work.st
  BY BaseProperties, WriteCases
<1>2. CASE tx'.pc = "clash" /\ tx'.work = tx.work
  BY <1>1, <1>2, ClashBase
<1>3. CASE /\ tx'.pc = next.pc /\ tx'.op = next.op /\ tx'.ids = next.ids
           /\ tx'.at = next.at /\ tx'.id = next.id
           /\ tx'.work.pos = pos /\ tx'.work.st = next.work.st
  <2>1. IsFiniteSet(DOMAIN tx'.work.pos) /\ Tabled(tx'.work)
    BY <1>3, BaseProperties DEF Tabled
  <2>2. QED BY <1>1, <1>3, <2>1, BaseKept
<1>4. QED BY <1>1, <1>2, <1>3

LEMMA BeginBase ==
  ASSUME BaseInvariant,
         NEW op \in {"add", "remove", "finish", "skip", "clear", "reorder"},
         NEW pc \in {"insert", "delete", "count"}, NEW id \in Ids \cup {None},
         NEW ids \in Seq(Ids), Begin(op, pc, id, ids),
         pc = "insert" <=> op = "add", pc = "insert" => id \in Ids,
         pc = "count" => \A i, j \in 1..Len(ids) : ids[i] = ids[j] => i = j
  PROVE  BaseInvariant'
<1>1. /\ tx' = [op |-> op, pc |-> pc, id |-> id, ids |-> ids, at |-> 0, work |-> disk]
      /\ disk' = disk /\ cutShort' = cutShort
  BY DEF Begin
<1>2. DiskOK(disk) /\ IsFiniteSet(DOMAIN disk.pos) /\ Tabled(disk)
  BY BaseProperties
<1>3. TxOK(tx')
  BY <1>1, <1>2 DEF TxOK
<1>4. MendedAt(disk.pos, pc, op, ids, 0)
  BY DEF MendedAt
<1>5. QED
  BY <1>1, <1>2, <1>3, <1>4 DEF BaseInvariant, RowsTypeOK, Tabled

LEMMA InsertBase ==
  ASSUME BaseInvariant, Insert
  PROVE  BaseInvariant'
<1> DEFINE pos == tx.work.pos
           position == IF DOMAIN pos = {} THEN 0
                       ELSE Max({pos[p] : p \in DOMAIN pos}) + 1
           new == [p \in DOMAIN pos \cup {tx.id} |->
                     IF p = tx.id THEN position ELSE pos[p]]
           next == [Goto("bump") EXCEPT !.work.st[tx.id] = "queued"]
<1>1. /\ tx.pc = "insert" /\ disk' = disk /\ cutShort' = cutShort /\ tx.id \in Ids
      /\ tx.op = "add" /\ Write(new, next)
  BY BaseProperties DEF Insert, At, BaseInvariant, MendedAt
<1>2. position \in Int
  <2>1. CASE DOMAIN pos = {}
    BY <2>1
  <2>2. CASE DOMAIN pos # {}
    <3>1. Max({pos[p] : p \in DOMAIN pos}) \in {pos[p] : p \in DOMAIN pos}
      BY <2>2, BaseProperties, LastPosition
    <3>2. Max({pos[p] : p \in DOMAIN pos}) \in Int
      BY <3>1, BaseProperties, PositionsOKProperties
    <3>3. QED BY <2>2, <3>2
  <2>3. QED BY <2>1, <2>2
<1> HIDE DEF position
<1>3. PositionsOK(new) /\ DOMAIN new = DOMAIN pos \cup {tx.id}
  <2>1. \A p \in DOMAIN pos : pos[p] \in Int /\ p \in Ids
    BY BaseProperties, PositionsOKProperties
  <2>2. QED BY <1>1, <1>2, <2>1 DEF PositionsOK
<1> HIDE DEF new
<1>4. /\ TxOK(next) /\ next.pc = "bump" /\ next.op = "add"
      /\ next.work.st = [tx.work.st EXCEPT ![tx.id] = "queued"]
  BY <1>1, BaseProperties DEF Goto, TxOK, DiskOK, RowStatus
<1> HIDE DEF next
<1>5. /\ TxOK(tx')
      /\ \/ tx'.pc = "clash" /\ tx'.work = tx.work
         \/ /\ tx'.pc = "bump" /\ tx'.op = "add"
            /\ tx'.work.pos = new /\ tx'.work.st = next.work.st
  BY <1>1, <1>3, <1>4, BaseProperties, WriteCases
<1>6. CASE tx'.pc = "clash" /\ tx'.work = tx.work
  BY <1>1, <1>5, <1>6, ClashBase
<1>7. CASE /\ tx'.pc = "bump" /\ tx'.op = "add"
           /\ tx'.work.pos = new /\ tx'.work.st = next.work.st
  <2>1. IsFiniteSet(DOMAIN tx'.work.pos)
    <3>1. IsFiniteSet(DOMAIN pos \cup {tx.id})
      BY BaseProperties, FS_AddElement
    <3>2. QED BY <1>3, <1>7, <3>1
  <2>2. Tabled(tx'.work)
    BY <1>1, <1>3, <1>4, <1>7, BaseProperties DEF Tabled, RowStatus, DiskOK
  <2>3. MendedAt(tx'.work.pos, tx'.pc, tx'.op, tx'.ids, tx'.at)
    BY <1>7 DEF MendedAt
  <2>4. QED BY <1>1, <1>5, <1>7, <2>1, <2>2, <2>3, BaseKept
<1>8. QED BY <1>5, <1>6, <1>7

LEMMA DeleteBase ==
  ASSUME BaseInvariant, Delete
  PROVE  BaseInvariant'
<1> DEFINE pos == tx.work.pos
           new == [p \in DOMAIN pos \ Doomed |-> pos[p]]
           st == [p \in Ids |-> IF p \in Doomed THEN "deleted" ELSE tx.work.st[p]]
<1>1. /\ tx.pc = "delete" /\ disk' = disk /\ cutShort' = cutShort
      /\ tx.op # "add" /\ tx.at = 0
  BY BaseProperties DEF Delete, At, MendedAt
<1>2. PositionsOK(new) /\ DOMAIN new = DOMAIN pos \ Doomed
  BY BaseProperties, PositionsOKProperties DEF PositionsOK
<1>3. IsFiniteSet(DOMAIN new)
  BY <1>2, BaseProperties, FS_Difference
<1>4. tx' = [Goto("list") EXCEPT !.work.pos = new, !.work.st = st]
  BY BaseProperties DEF Delete, Goto, TxOK, DiskOK
<1> HIDE DEF new
<1>5. st \in [Ids -> RowStatus \cup {"absent", "deleted"}]
  BY BaseProperties DEF DiskOK
<1>6. \A p \in Ids : st[p] = IF p \in Doomed THEN "deleted" ELSE tx.work.st[p]
  OBVIOUS
<1> HIDE DEF st
<1>7. /\ tx'.pc = "list" /\ tx'.op = tx.op /\ tx'.at = 0
      /\ tx'.work.pos = new /\ tx'.work.st = st /\ TxOK(tx')
  BY <1>1, <1>2, <1>4, <1>5, BaseProperties DEF Goto, TxOK, DiskOK
<1>8. Tabled(tx'.work)
  BY <1>2, <1>6, <1>7, BaseProperties DEF Tabled, RowStatus
<1>9. MendedAt(tx'.work.pos, tx'.pc, tx'.op, tx'.ids, tx'.at)
  BY <1>1, <1>7 DEF MendedAt
<1>10. QED BY <1>1, <1>3, <1>7, <1>8, <1>9, BaseKept

\* What compact has read are some of the rows, none of them twice, in order.
LEMMA ListRead ==
  ASSUME BaseInvariant, List
  PROVE  /\ tx.pc = "list" /\ disk' = disk /\ cutShort' = cutShort
         /\ tx'.pc = "negate" /\ tx'.op = tx.op /\ tx'.id = tx.id /\ tx'.at = tx.at
         /\ tx'.work = tx.work /\ TxOK(tx')
         /\ Listing(tx'.ids, tx.work.pos)
         /\ \A i, j \in 1..Len(tx'.ids) :
              i < j => tx.work.pos[tx'.ids[i]] < tx.work.pos[tx'.ids[j]]
<1> DEFINE pos == tx.work.pos
<1>1. PICK ids \in Ordered(pos), n \in 0..Cardinality(DOMAIN pos) :
        tx' = [Goto("negate") EXCEPT !.ids = SubSeq(ids, 1, n)]
  BY DEF List
<1>2. ids \in Seq(Ids) /\ Lists(ids, pos)
  BY BaseProperties, OrderedLists
<1>3. \A i, j \in 1..Len(ids) : i < j => pos[ids[i]] < pos[ids[j]]
  BY <1>2, LenProperties DEF Ordered
<1> DEFINE read == SubSeq(ids, 1, n)
<1>4. n \in Nat /\ n <= Len(ids) /\ Len(ids) \in Nat
  <2>1. Cardinality(DOMAIN pos) \in Nat /\ Len(ids) = Cardinality(DOMAIN pos)
    BY <1>2, BaseProperties, FS_CardinalityType DEF Lists, Size
  <2>2. QED BY <1>1, <2>1
<1>5. /\ read \in Seq(Ids) /\ Len(read) = n
      /\ \A i \in 1..n : read[i] = ids[i]
  BY <1>2, <1>4, SubSeqProperties
<1>6. \A i \in 1..n : i \in 1..Len(ids)
  BY <1>4
<1> HIDE DEF read
<1>7. Listing(read, pos)
  BY <1>2, <1>5, <1>6 DEF Listing, Lists
<1>8. /\ tx'.pc = "negate" /\ tx'.op = tx.op /\ tx'.id = tx.id /\ tx'.at = tx.at
      /\ tx'.work = tx.work /\ TxOK(tx') /\ tx'.ids = read
  <2>1. tx' = [Goto("negate") EXCEPT !.ids = read]
    BY <1>1 DEF read
  <2>2. QED BY <1>5, <2>1, BaseProperties DEF Goto, TxOK
<1>9. \A i, j \in 1..Len(read) : i < j => pos[read[i]] < pos[read[j]]
  BY <1>3, <1>5, <1>6
<1>10. QED BY <1>7, <1>8, <1>9 DEF List, At

LEMMA ListBase ==
  ASSUME BaseInvariant, List
  PROVE  BaseInvariant'
<1>1. tx.op # "add" /\ tx.at = 0
  BY BaseProperties, ListRead DEF MendedAt
<1>2. MendedAt(tx'.work.pos, tx'.pc, tx'.op, tx'.ids, tx'.at)
  BY <1>1, ListRead DEF MendedAt
<1>3. IsFiniteSet(DOMAIN tx'.work.pos) /\ Tabled(tx'.work)
  BY BaseProperties, ListRead DEF Tabled
<1>4. QED BY <1>2, <1>3, ListRead, BaseKept

LEMMA GotoOK ==
  ASSUME TxOK(tx), NEW pc \in {"list", "negate", "number", "place", "bump", "commit"}
  PROVE  /\ TxOK(Goto(pc)) /\ Goto(pc).pc = pc /\ Goto(pc).op = tx.op
         /\ Goto(pc).id = tx.id /\ Goto(pc).ids = tx.ids /\ Goto(pc).at = tx.at
         /\ Goto(pc).work = tx.work
BY DEF Goto, TxOK

\* Negated positions are positions of the same rows.
LEMMA NegatedOK ==
  ASSUME NEW pos, PositionsOK(pos)
  PROVE  /\ PositionsOK(Negated(pos)) /\ DOMAIN Negated(pos) = DOMAIN pos
         /\ \A p \in DOMAIN pos : Negated(pos)[p] = -pos[p] - 1
<1> DEFINE new == Negated(pos)
<1>1. DOMAIN new = DOMAIN pos /\ \A p \in DOMAIN pos : new[p] = -pos[p] - 1
  BY DEF Negated
<1>2. \A p \in DOMAIN pos : pos[p] \in Int /\ new[p] \in Int
  BY <1>1, PositionsOKProperties
<1>3. new = [p \in DOMAIN pos |-> new[p]]
  BY DEF Negated
<1>4. QED BY <1>1, <1>2, <1>3, PositionsOKProperties DEF PositionsOK

LEMMA NegateBase ==
  ASSUME BaseInvariant, Negate
  PROVE  BaseInvariant'
<1> DEFINE new == Negated(tx.work.pos)
<1>1. /\ tx.pc = "negate" /\ disk' = disk /\ cutShort' = cutShort
      /\ tx.op # "add" /\ tx.at = 0 /\ Listing(tx.ids, tx.work.pos)
      /\ Write(new, Goto("number"))
  BY BaseProperties DEF Negate, At, MendedAt
<1>2. PositionsOK(new) /\ DOMAIN new = DOMAIN tx.work.pos
  BY BaseProperties, NegatedOK
<1> HIDE DEF new
<1>3. Listing(tx.ids, new)
  BY <1>1, <1>2 DEF Listing
<1>4. MendedAt(new, "number", tx.op, tx.ids, 0)
  BY <1>1, <1>3, BaseProperties DEF MendedAt
<1>5. QED BY <1>1, <1>2, <1>4, BaseProperties, GotoOK, MoveBase

\* Moving one row, to a free place or not.
LEMMA MovedOK ==
  ASSUME NEW pos, PositionsOK(pos), NEW id \in DOMAIN pos, NEW v \in Int
  PROVE  LET new == [pos EXCEPT ![id] = v]
         IN  /\ PositionsOK(new) /\ DOMAIN new = DOMAIN pos
             /\ new[id] = v /\ \A p \in DOMAIN pos : p # id => new[p] = pos[p]
BY DEF PositionsOK

\* The loops advance.
LEMMA AdvanceOK ==
  ASSUME TxOK(tx)
  PROVE  LET next == [tx EXCEPT !.at = @ + 1]
         IN  /\ TxOK(next) /\ next.pc = tx.pc /\ next.ids = tx.ids
             /\ next.op = tx.op /\ next.id = tx.id /\ next.work = tx.work
             /\ next.at = tx.at + 1
<1> DEFINE next == [tx EXCEPT !.at = @ + 1]
<1>1. /\ next.work = tx.work /\ next.pc = tx.pc /\ next.ids = tx.ids
      /\ next.op = tx.op /\ next.id = tx.id
  BY DEF TxOK
<1>2. next.at = tx.at + 1 /\ tx.at + 1 \in Nat
  BY DEF TxOK
<1>3. TxOK(next)
  BY <1>1, <1>2 DEF TxOK
<1>4. QED
  BY <1>1, <1>2, <1>3

LEMMA NumberBase ==
  ASSUME BaseInvariant, Number
  PROVE  BaseInvariant'
<1> DEFINE pos == tx.work.pos
           ids == tx.ids
           k == tx.at + 1
           id == ids[k]
           new == [pos EXCEPT ![id] = tx.at]
           next == [tx EXCEPT !.at = @ + 1]
<1>1. /\ tx.pc = "number" /\ disk' = disk /\ cutShort' = cutShort
      /\ tx.op # "add" /\ tx.at < Len(ids) /\ Listing(ids, pos)
      /\ \A i \in 1..tx.at : pos[ids[i]] = i - 1
      /\ Write(new, next)
  BY BaseProperties DEF Number, At, MendedAt
<1>2. /\ tx.at \in Nat /\ Len(ids) \in Nat /\ k \in 1..Len(ids) /\ id \in DOMAIN pos
  BY <1>1, BaseProperties DEF Listing
<1>3. /\ PositionsOK(new) /\ DOMAIN new = DOMAIN pos
      /\ new[id] = tx.at /\ \A p \in DOMAIN pos : p # id => new[p] = pos[p]
  BY <1>2, BaseProperties, MovedOK
<1>4. /\ TxOK(next) /\ next.pc = "number" /\ next.ids = ids /\ next.at = k
      /\ next.op = tx.op /\ next.work = tx.work
  BY <1>1, BaseProperties, AdvanceOK
<1> HIDE DEF new, next
<1>5. Listing(ids, new)
  BY <1>1, <1>3 DEF Listing
<1>6. ASSUME NEW i \in 1..k PROVE new[ids[i]] = i - 1
  <2>1. CASE i = k
    BY <1>2, <1>3, <2>1
  <2>2. CASE i # k
    <3>1. i \in 1..tx.at /\ i \in 1..Len(ids)
      BY <1>2, <2>2
    <3>2. ids[i] # id /\ ids[i] \in DOMAIN pos /\ pos[ids[i]] = i - 1
      BY <1>1, <1>2, <2>2, <3>1 DEF Listing
    <3>3. QED BY <1>3, <3>2
  <2>3. QED BY <2>1, <2>2
<1>7. k <= Len(ids)
  BY <1>2
<1>8. MendedAt(new, next.pc, next.op, next.ids, next.at)
  <2> HIDE DEF id, k, ids, pos
  <2>1. MendedAt(new, "number", tx.op, ids, k)
    BY <1>1, <1>5, <1>6, <1>7 DEF MendedAt
  <2>2. QED BY <1>4, <2>1
<1>9. QED BY <1>1, <1>3, <1>4, <1>8, MoveBase

LEMMA CountBase ==
  ASSUME BaseInvariant, Count
  PROVE  BaseInvariant'
<1>1. /\ tx.pc = "count" /\ disk' = disk /\ cutShort' = cutShort
      /\ tx.op # "add" /\ tx.at = 0 /\ Len(tx.ids) = Size(tx.work.pos)
      /\ \A i, j \in 1..Len(tx.ids) : tx.ids[i] = tx.ids[j] => i = j
      /\ tx' = Goto("place")
  BY BaseProperties DEF Count, At, MendedAt, Size
<1>2. /\ tx'.pc = "place" /\ tx'.work = tx.work /\ tx'.ids = tx.ids
      /\ tx'.op = tx.op /\ tx'.at = 0 /\ TxOK(tx')
  BY <1>1, BaseProperties, GotoOK
<1>3. MendedAt(tx'.work.pos, tx'.pc, tx'.op, tx'.ids, tx'.at)
  BY <1>1, <1>2, BaseProperties DEF MendedAt
<1>4. IsFiniteSet(DOMAIN tx'.work.pos) /\ Tabled(tx'.work)
  BY <1>2, BaseProperties DEF Tabled
<1>5. QED BY <1>1, <1>2, <1>3, <1>4, BaseKept

LEMMA PlaceBase ==
  ASSUME BaseInvariant, Place
  PROVE  BaseInvariant'
<1> DEFINE pos == tx.work.pos
           ids == tx.ids
           k == tx.at + 1
           id == ids[k]
           new == [pos EXCEPT ![id] = -k]
           next == [tx EXCEPT !.at = @ + 1]
<1>1. /\ tx.pc = "place" /\ disk' = disk /\ cutShort' = cutShort
      /\ tx.op # "add" /\ tx.at < Len(ids) /\ Len(ids) = Size(pos)
      /\ \A i, j \in 1..Len(ids) : ids[i] = ids[j] => i = j
      /\ \A i \in 1..tx.at : ids[i] \in DOMAIN pos /\ pos[ids[i]] = -i
      /\ id \in DOMAIN pos
      /\ Write(new, next)
  BY BaseProperties DEF Place, At, MendedAt
<1>2. tx.at \in Nat /\ Len(ids) \in Nat /\ k \in 1..Len(ids) /\ -k \in Int
  BY <1>1, BaseProperties
<1>3. /\ PositionsOK(new) /\ DOMAIN new = DOMAIN pos
      /\ new[id] = -k /\ \A p \in DOMAIN pos : p # id => new[p] = pos[p]
  BY <1>1, <1>2, BaseProperties, MovedOK
<1>4. /\ TxOK(next) /\ next.pc = "place" /\ next.ids = ids /\ next.at = k
      /\ next.op = tx.op /\ next.work = tx.work
  BY <1>1, BaseProperties, AdvanceOK
<1> HIDE DEF new, next
<1>5. ASSUME NEW i \in 1..k PROVE ids[i] \in DOMAIN new /\ new[ids[i]] = -i
  <2>1. CASE i = k
    BY <1>1, <1>3, <2>1
  <2>2. CASE i # k
    <3>1. i \in 1..tx.at /\ i \in 1..Len(ids)
      BY <1>2, <2>2
    <3>2. ids[i] # id /\ ids[i] \in DOMAIN pos /\ pos[ids[i]] = -i
      BY <1>1, <1>2, <2>2, <3>1
    <3>3. QED BY <1>3, <3>2
  <2>3. QED BY <2>1, <2>2
<1>6. k <= Len(ids) /\ Len(ids) = Size(new)
  BY <1>1, <1>2, <1>3 DEF Size
<1>7. MendedAt(new, next.pc, next.op, next.ids, next.at)
  <2>1. \A i, j \in 1..Len(ids) : ids[i] = ids[j] => i = j
    BY <1>1
  <2> HIDE DEF id, k, ids, pos
  <2>2. MendedAt(new, "place", tx.op, ids, k)
    BY <1>1, <1>5, <1>6, <2>1 DEF MendedAt
  <2>3. QED BY <1>4, <2>2
<1>8. QED BY <1>1, <1>3, <1>4, <1>7, MoveBase

LEMMA FlipBase ==
  ASSUME BaseInvariant, Flip
  PROVE  BaseInvariant'
<1> DEFINE pos == tx.work.pos
           ids == tx.ids
           new == Negated(pos)
<1>1. /\ tx.pc = "place" /\ disk' = disk /\ cutShort' = cutShort
      /\ tx.op # "add" /\ tx.at = Len(ids) /\ Len(ids) = Size(pos)
      /\ \A i, j \in 1..Len(ids) : ids[i] = ids[j] => i = j
      /\ \A i \in 1..tx.at : ids[i] \in DOMAIN pos /\ pos[ids[i]] = -i
      /\ Write(new, Goto("bump"))
  BY BaseProperties DEF Flip, At, MendedAt
<1>2. Len(ids) \in Nat /\ ids \in Seq(Ids)
  BY BaseProperties
<1>3. Lists(ids, pos)
  BY <1>1, <1>2, BaseProperties, ListsAll
<1>4. /\ PositionsOK(new) /\ DOMAIN new = DOMAIN pos
      /\ \A p \in DOMAIN pos : new[p] = -pos[p] - 1
  BY BaseProperties, NegatedOK
<1> HIDE DEF new
<1>5. Numbered(new)
  <2>1. Lists(ids, new)
    BY <1>3, <1>4 DEF Lists, Size
  <2>2. \A i \in 1..Len(ids) : new[ids[i]] = i - 1
    <3>1. TAKE i \in 1..Len(ids)
    <3>2. ids[i] \in DOMAIN pos /\ pos[ids[i]] = -i
      BY <1>1
    <3>3. new[ids[i]] = -(-i) - 1
      BY <1>4, <3>2
    <3>4. QED BY <1>2, <3>3
  <2>3. QED BY <1>2, <1>4, <2>1, <2>2, BaseProperties, ListedInOrderNumbered
<1>6. MendedAt(new, "bump", tx.op, tx.ids, tx.at)
  BY <1>5 DEF MendedAt
<1>7. QED BY <1>1, <1>4, <1>6, BaseProperties, GotoOK, MoveBase

\* What the last statement writes.
LEMMA ReviseWrites ==
  ASSUME BaseInvariant, Revise
  PROVE  /\ tx.pc \in {"bump", "number"} /\ disk' = disk /\ cutShort' = cutShort
         /\ tx'.pc = "commit" /\ tx'.op = tx.op /\ tx'.ids = tx.ids
         /\ tx'.work.pos = tx.work.pos /\ tx'.work.st = tx.work.st
         /\ TxOK(tx')
<1> DEFINE work == IF tx.op = "finish" THEN Bump(Cleared(tx.work, "idle"))
                   ELSE Bump(tx.work)
<1>1. tx.pc \in {"bump", "number"} /\ disk' = disk /\ cutShort' = cutShort
  BY DEF Revise, At
<1>2. DiskOK(work) /\ work.pos = tx.work.pos /\ work.st = tx.work.st
  <2>1. /\ DiskOK(Bump(tx.work)) /\ Bump(tx.work).pos = tx.work.pos
        /\ Bump(tx.work).st = tx.work.st
    BY BaseProperties DEF DiskOK, Bump
  <2>2. /\ DiskOK(Cleared(tx.work, "idle")) /\ Cleared(tx.work, "idle").pos = tx.work.pos
        /\ Cleared(tx.work, "idle").st = tx.work.st
    BY BaseProperties DEF DiskOK, Cleared, Statuses
  <2>3. /\ DiskOK(Bump(Cleared(tx.work, "idle")))
        /\ Bump(Cleared(tx.work, "idle")).pos = tx.work.pos
        /\ Bump(Cleared(tx.work, "idle")).st = tx.work.st
    BY <2>2 DEF DiskOK, Bump
  <2>4. QED BY <2>1, <2>3
<1>3. tx' = [Goto("commit") EXCEPT !.work = work]
  BY BaseProperties DEF Revise, Goto, TxOK
<1> HIDE DEF work
<1>4. /\ tx'.pc = "commit" /\ tx'.work = work /\ tx'.op = tx.op /\ tx'.ids = tx.ids
      /\ TxOK(tx')
  BY <1>2, <1>3, BaseProperties DEF Goto, TxOK
<1>5. QED BY <1>1, <1>2, <1>4

\* All rows numbered in the order of their list.
LEMMA AllNumbered ==
  ASSUME BaseInvariant, tx.pc = "number", tx.at = Len(tx.ids),
         Len(tx.ids) = Size(tx.work.pos)
  PROVE  /\ Lists(tx.ids, tx.work.pos) /\ Numbered(tx.work.pos)
         /\ \A i \in 1..Len(tx.ids) : tx.work.pos[tx.ids[i]] = i - 1
<1>1. /\ Listing(tx.ids, tx.work.pos)
      /\ \A i \in 1..Len(tx.ids) : tx.work.pos[tx.ids[i]] = i - 1
  BY BaseProperties DEF MendedAt
<1>2. Lists(tx.ids, tx.work.pos)
  BY <1>1, BaseProperties, ListsAll DEF Listing
<1>3. QED BY <1>1, <1>2, BaseProperties, ListedInOrderNumbered

LEMMA ReviseBase ==
  ASSUME BaseInvariant, Revise
  PROVE  BaseInvariant'
<1>1. tx.op # "add" /\ Len(tx.ids) = Size(tx.work.pos) => Numbered(tx.work.pos)
  <2>1. CASE tx.pc = "bump"
    BY <2>1, BaseProperties DEF MendedAt
  <2>2. CASE tx.pc = "number"
    BY <2>2, AllNumbered DEF Revise, At
  <2>3. QED BY <2>1, <2>2, ReviseWrites
<1>2. Numbered(tx.work.pos) => Numbered(tx'.work.pos)
  BY ReviseWrites DEF Numbered, Apart, Size
<1>3. MendedAt(tx'.work.pos, tx'.pc, tx'.op, tx'.ids, tx'.at)
  BY <1>1, <1>2, ReviseWrites DEF MendedAt, Size
<1>4. IsFiniteSet(DOMAIN tx'.work.pos) /\ Tabled(tx'.work)
  BY BaseProperties, ReviseWrites DEF Tabled
<1>5. QED BY <1>3, <1>4, ReviseWrites, BaseKept

LEMMA EndBase ==
  ASSUME BaseInvariant, Commit \/ Rollback
  PROVE  BaseInvariant'
<1>1. CASE Commit
  <2>1. disk' = tx.work /\ tx' = NoTx(tx.work) /\ cutShort' \in BOOLEAN
    BY <1>1 DEF Commit, BaseInvariant
  <2>2. QED
    BY <2>1, BaseProperties, NoTxOK DEF BaseInvariant, RowsTypeOK, Tabled
<1>2. CASE Rollback
  <2>1. disk' = disk /\ tx' = NoTx(disk) /\ cutShort' = cutShort
    BY <1>2 DEF Rollback
  <2>2. QED
    BY <2>1, BaseProperties, NoTxOK DEF BaseInvariant, RowsTypeOK, Tabled
<1>3. QED BY <1>1, <1>2

\* The other transactions leave the rows and their positions alone.
LEMMA StoredBase ==
  ASSUME BaseInvariant, Idle, NEW seen, Stored(seen), seen.rev \in Nat,
         seen.st \in [Ids -> RowStatus \cup {"absent", "deleted"}],
         \A id \in Ids : seen.st[id] \in RowStatus <=> disk.st[id] \in RowStatus,
         seen.current \in Ids \cup {None}, seen.status \in Statuses,
         seen.paused \in BOOLEAN, seen.buffering \in BOOLEAN, seen.volume \in Volumes
  PROVE  BaseInvariant' /\ disk'.pos = disk.pos /\ tx'.pc = "none"
         /\ tx'.work = disk' /\ cutShort' = cutShort
<1>1. tx.pc = "none" /\ cutShort' = cutShort
  BY DEF Idle, Stored
<1>2. disk' = [pos |-> disk.pos, rev |-> seen.rev, st |-> seen.st,
               current |-> seen.current, status |-> seen.status,
               paused |-> seen.paused, buffering |-> seen.buffering,
               volume |-> seen.volume]
  BY BaseProperties DEF Stored, DiskOK
<1>3. DiskOK(disk') /\ disk'.pos = disk.pos /\ disk'.st = seen.st
  BY <1>2, BaseProperties DEF DiskOK
<1>4. tx' = [tx EXCEPT !.work = disk']
  BY DEF Stored
<1>5. tx'.work = disk' /\ tx'.pc = "none" /\ TxOK(tx')
  BY <1>1, <1>3, <1>4, BaseProperties DEF TxOK
<1>6. MendedAt(tx'.work.pos, tx'.pc, tx'.op, tx'.ids, tx'.at)
  BY <1>5 DEF MendedAt
<1>7. Tabled(disk')
  BY <1>3, BaseProperties DEF Tabled
<1>8. QED
  BY <1>1, <1>3, <1>5, <1>6, <1>7, BaseProperties
     DEF BaseInvariant, RowsTypeOK, Tabled

LEMMA ColumnsBase ==
  ASSUME BaseInvariant, Columns
  PROVE  BaseInvariant' /\ disk'.pos = disk.pos /\ tx'.pc = "none"
         /\ tx'.work = disk' /\ cutShort' = cutShort
<1> DEFINE seen == Seen(disk)
           St == [Ids -> RowStatus \cup {"absent", "deleted"}]
           Columned == [rev: Nat, order: {OrderOf(disk.pos)}, st: St,
                        current: Ids \cup {None}, status: Statuses,
                        paused: BOOLEAN, buffering: BOOLEAN, volume: Volumes]
           Rows(st) == \A id \in Ids : st[id] \in RowStatus <=> disk.st[id] \in RowStatus
<1>1. DiskOK(disk) /\ Idle
  BY BaseProperties DEF Columns
<1>2. seen \in Columned /\ seen.st = disk.st /\ Rows(seen.st)
  BY <1>1 DEF Seen, DiskOK
<1> HIDE DEF seen
<1>3. ASSUME NEW d \in Columned, Rows(d.st), Stored(d)
      PROVE  BaseInvariant' /\ disk'.pos = disk.pos /\ tx'.pc = "none"
             /\ tx'.work = disk' /\ cutShort' = cutShort
  BY <1>1, <1>3, StoredBase
<1>4. ASSUME NEW d \in Columned, NEW status \in Statuses
      PROVE  Cleared(d, status) \in Columned /\ Cleared(d, status).st = d.st
  BY DEF Cleared
<1>5. /\ Demoted(seen) \in St /\ seen.st \in St
      /\ \A i \in Ids : Demoted(seen)[i] \in RowStatus <=> seen.st[i] \in RowStatus
  BY <1>2 DEF Demoted, RowStatus
<1>6. ASSUME NEW id \in Ids, NEW status \in RowStatus, seen.st[id] \in RowStatus
      PROVE  LET d == [seen EXCEPT !.st[id] = status]
             IN  d \in Columned /\ Rows(d.st)
  <2> DEFINE st == [seen.st EXCEPT ![id] = status]
  <2>1. st \in St /\ Rows(st)
    BY <1>2, <1>5, <1>6
  <2> HIDE DEF st
  <2>2. [seen EXCEPT !.st = st] \in Columned /\ [seen EXCEPT !.st = st].st = st
    BY <1>2, <2>1
  <2>3. QED BY <2>1, <2>2 DEF st
<1>7. ASSUME NEW id \in Ids, SetCurrentOK(seen, id)
      PROVE  SetCurrent(seen, id) \in Columned /\ Rows(SetCurrent(seen, id).st)
  <2> DEFINE st == [Demoted(seen) EXCEPT ![id] = "current"]
  <2>1. st \in St /\ Rows(st)
    BY <1>2, <1>5, <1>7 DEF RowStatus, SetCurrentOK
  <2> HIDE DEF st
  <2>2. Cleared(seen, "loading") \in Columned
    BY <1>2, <1>4 DEF Statuses
  <2>3. SetCurrent(seen, id) \in Columned /\ SetCurrent(seen, id).st = st
    BY <2>1, <2>2 DEF SetCurrent, st
  <2>4. QED BY <2>1, <2>3
<1>8. ASSUME NEW id \in Ids, FinishCurrentOK(seen, id)
      PROVE  FinishCurrent(seen, id, TRUE) \in Columned
             /\ Rows(FinishCurrent(seen, id, TRUE).st)
  <2> DEFINE d == [seen EXCEPT !.st[id] = "failed"]
             e == Cleared(d, "idle")
  <2>1. d \in Columned /\ Rows(d.st)
    BY <1>6, <1>8 DEF RowStatus, FinishCurrentOK
  <2>2. FinishCurrent(seen, id, TRUE) = Bump(e)
    BY DEF FinishCurrent
  <2> HIDE DEF d
  <2>3. e \in Columned /\ e.st = d.st
    BY <1>4, <2>1 DEF Statuses
  <2> HIDE DEF e
  <2>4. Bump(e) \in Columned /\ Bump(e).st = e.st
    BY <2>3 DEF Bump
  <2>5. QED BY <2>1, <2>2, <2>3, <2>4
<1>9. ASSUME NEW id \in Ids, RetryCurrentOK(seen, id)
      PROVE  RetryCurrent(seen, id) \in Columned /\ Rows(RetryCurrent(seen, id).st)
  <2> DEFINE d == [seen EXCEPT !.st[id] = "queued"]
  <2>1. d \in Columned /\ Rows(d.st)
    BY <1>6, <1>9 DEF RowStatus, RetryCurrentOK
  <2>2. RetryCurrent(seen, id) = Cleared(d, "retrying")
    BY DEF RetryCurrent
  <2> HIDE DEF d
  <2>3. QED BY <1>4, <2>1, <2>2 DEF Statuses
<1>10. ReconcilePlayback(seen) \in Columned /\ Rows(ReconcilePlayback(seen).st)
  <2> DEFINE d == [seen EXCEPT !.st = Demoted(seen)]
  <2>1. d \in Columned /\ d.st = Demoted(seen)
    BY <1>2, <1>5
  <2>2. ReconcilePlayback(seen) = Cleared(d, "idle")
    BY DEF ReconcilePlayback
  <2> HIDE DEF d
  <2>3. QED BY <1>2, <1>4, <1>5, <2>1, <2>2 DEF Statuses
<1> HIDE DEF Columned, St, Rows
<1>11. QED
  BY <1>3, <1>7, <1>8, <1>9, <1>10 DEF Columns, seen

LEMMA BaseStep == BaseInvariant /\ [Next]_vars => BaseInvariant'
<1> SUFFICES ASSUME BaseInvariant, [Next]_vars PROVE BaseInvariant'
  OBVIOUS
<1>1. ASSUME NEW id \in Ids, BeginAdd(id) \/ BeginRemove(id) \/ BeginFinish(id)
      PROVE  BaseInvariant'
  BY <1>1, EmptySeq, BeginBase DEF BeginAdd, BeginRemove, BeginFinish
<1>2. CASE BeginSkip \/ BeginClear
  BY <1>2, EmptySeq, BeginBase DEF BeginSkip, BeginClear
<1>3. ASSUME NEW n \in 0..(Cardinality(DOMAIN disk.pos) + 1),
             NEW ids \in [1..n -> Ids], BeginReorder(ids)
      PROVE  BaseInvariant'
  <2>1. Cardinality(DOMAIN disk.pos) \in Nat
    BY BaseProperties, FS_CardinalityType
  <2>2. n \in Nat
    BY <2>1
  <2>3. ids \in Seq(Ids) /\ DOMAIN ids = 1..Len(ids)
    BY <2>2, SeqDef, LenProperties
  <2>4. \A i, j \in 1..Len(ids) : ids[i] = ids[j] => i = j
    BY <1>3, <2>3 DEF BeginReorder
  <2>5. Begin("reorder", "count", None, ids)
    BY <1>3 DEF BeginReorder
  <2>6. QED BY <2>3, <2>4, <2>5, BeginBase
<1>4. CASE Statement
  BY <1>4, InsertBase, DeleteBase, ListBase, NegateBase, NumberBase, CountBase,
     PlaceBase, FlipBase, ReviseBase DEF Statement
<1>5. CASE Commit \/ Rollback
  BY <1>5, EndBase
<1>6. CASE Columns
  BY <1>6, ColumnsBase
<1>7. CASE UNCHANGED vars
  BY <1>7 DEF vars, BaseInvariant, RowsTypeOK, MendedAt, DiskOK, TxOK, PositionsOK,
              Numbered, Apart, Size, Listing, Tabled
<1>8. QED
  BY <1>1, <1>2, <1>3, <1>4, <1>5, <1>6, <1>7 DEF Next

-----------------------------------------------------------------------------
(* From dense positions.                                                   *)

\* A statement that writes positions and meets none that is taken.
LEMMA WriteProperties ==
  ASSUME TxOK(tx), NEW next, TxOK(next), NEW pos, PositionsOK(pos),
         Write(pos, next), ~Clashes(tx.work.pos, pos)
  PROVE  /\ tx'.pc = next.pc /\ tx'.op = next.op /\ tx'.ids = next.ids
         /\ tx'.at = next.at /\ tx'.id = next.id /\ tx'.work.pos = pos
<1>1. tx' = [next EXCEPT !.work.pos = pos]
  BY DEF Write
<1>2. QED
  BY <1>1 DEF TxOK, DiskOK

\* A transaction that is at next' with the rows pos' keeps the invariant.
LEMMA StatementKeepsInvariant ==
  ASSUME RowsInvariant, BaseInvariant', UNCHANGED disk,
         RowsAt(tx'.work.pos, tx'.pc, tx'.op, tx'.ids, tx'.at)
  PROVE  RowsInvariant'
<1>1. Numbered(disk'.pos)
  BY DEF RowsInvariant
<1>2. Numbered(disk.pos)'
  BY <1>1 DEF Numbered, Apart, Size
<1>3. RowsAt(tx.work.pos, tx.pc, tx.op, tx.ids, tx.at)'
  BY DEF RowsAt, Numbered, Apart, Size
<1>4. QED
  BY <1>2, <1>3 DEF RowsInvariant

LEMMA RowsProperties ==
  ASSUME RowsInvariant
  PROVE  /\ BaseInvariant /\ Numbered(disk.pos)
         /\ RowsAt(tx.work.pos, tx.pc, tx.op, tx.ids, tx.at)
BY DEF RowsInvariant

LEMMA BeginKeeps ==
  ASSUME RowsInvariant, BaseInvariant', NEW op, NEW pc \in {"insert", "delete", "count"},
         NEW id, NEW ids, Begin(op, pc, id, ids)
  PROVE  RowsInvariant'
<1>1. /\ tx' = [op |-> op, pc |-> pc, id |-> id, ids |-> ids, at |-> 0, work |-> disk]
      /\ disk' = disk
  BY DEF Begin
<1>2. RowsAt(disk.pos, pc, op, ids, 0)
  BY RowsProperties DEF RowsAt
<1>3. QED BY <1>1, <1>2, StatementKeepsInvariant

\* The position of an addition is the number of rows.
LEMMA NextPosition ==
  ASSUME NEW pos, IsFiniteSet(DOMAIN pos), Numbered(pos)
  PROVE  (IF DOMAIN pos = {} THEN 0 ELSE Max({pos[p] : p \in DOMAIN pos}) + 1) = Size(pos)
<1> DEFINE n == Size(pos)
           last == {pos[p] : p \in DOMAIN pos}
<1>1. n \in Nat /\ (n = 0 <=> DOMAIN pos = {})
  BY FS_CardinalityType, FS_EmptySet DEF Size
<1>2. CASE DOMAIN pos = {}
  BY <1>1, <1>2
<1>3. CASE DOMAIN pos # {}
  <2>1. last = 0..(n - 1) /\ n >= 1
    BY <1>1, <1>3 DEF Numbered
  <2> HIDE DEF last, n
  <2>2. n - 1 \in last /\ \A v \in last : v \in Int /\ n - 1 >= v
    BY <1>1, <2>1
  <2>3. Max(last) \in last /\ \A v \in last : Max(last) >= v
    BY <2>2 DEF Max
  <2>4. Max(last) \in Int /\ Max(last) >= n - 1 /\ n - 1 >= Max(last)
    BY <2>2, <2>3
  <2>5. Max(last) + 1 = n
    BY <1>1, <2>4
  <2>6. QED BY <1>3, <2>5 DEF last, n
<1>4. QED BY <1>2, <1>3


LEMMA InsertKeeps ==
  ASSUME RowsInvariant, BaseInvariant', Insert
  PROVE  RowsInvariant'
<1> DEFINE pos == tx.work.pos
           n == Size(pos)
           position == IF DOMAIN pos = {} THEN 0
                       ELSE Max({pos[p] : p \in DOMAIN pos}) + 1
           new == [p \in DOMAIN pos \cup {tx.id} |-> IF p = tx.id THEN n ELSE pos[p]]
           next == [Goto("bump") EXCEPT !.work.st[tx.id] = "queued"]
<1>1. /\ tx.pc = "insert" /\ disk' = disk /\ TxOK(tx) /\ DiskOK(tx.work)
      /\ tx.id \in Ids
      /\ IsFiniteSet(DOMAIN pos) /\ Numbered(pos) /\ PositionsOK(pos) /\ Tabled(tx.work)
  BY RowsProperties, BaseProperties DEF Insert, At, RowsAt, BaseInvariant
<1>2. n \in Nat
  BY <1>1, FS_CardinalityType DEF Size
<1>3. position = n
  BY <1>1, NextPosition
<1> HIDE DEF position
<1>4. tx.id \notin DOMAIN pos
  BY DEF Insert
<1>5. /\ DOMAIN new = DOMAIN pos \cup {tx.id}
      /\ \A p \in DOMAIN pos : new[p] = pos[p]
      /\ new[tx.id] = n
  BY <1>4
<1>6. PositionsOK(new)
  <2>1. \A p \in DOMAIN pos \cup {tx.id} : new[p] \in Int
    BY <1>1, <1>2, <1>5, PositionsOKProperties
  <2>2. DOMAIN new \in SUBSET Ids
    BY <1>1, <1>5, PositionsOKProperties
  <2>3. QED BY <1>5, <2>1, <2>2 DEF PositionsOK
<1>7. Size(new) = n + 1
  BY <1>1, <1>4, <1>5, FS_AddElement DEF Size
<1>8. \A p \in DOMAIN pos : pos[p] \in 0..(n - 1)
  BY <1>1 DEF Numbered
<1>9. ~Clashes(pos, new)
  <2>1. \A p, q \in DOMAIN pos : p # q => new[q] # pos[p]
    BY <1>1, <1>5 DEF Numbered, Apart
  <2>2. \A p \in DOMAIN pos : new[tx.id] # pos[p]
    BY <1>2, <1>5, <1>8
  <2> HIDE DEF new
  <2>3. QED BY <1>5, <2>1, <2>2 DEF Clashes
<1>10. Numbered(new)
  <2>1. Apart(new)
    BY <1>1, <1>2, <1>5, <1>8 DEF Numbered, Apart
  <2>2. {new[p] : p \in DOMAIN new} = {pos[p] : p \in DOMAIN pos} \cup {n}
    BY <1>5
  <2>3. {pos[p] : p \in DOMAIN pos} = 0..(n - 1)
    BY <1>1 DEF Numbered
  <2>4. 0..(n - 1) \cup {n} = 0..((n + 1) - 1)
    BY <1>2
  <2>5. QED BY <1>7, <2>1, <2>2, <2>3, <2>4 DEF Numbered
<1>11. Write(new, next)
  BY <1>3 DEF Insert, position
<1> HIDE DEF new
<1>12. TxOK(next) /\ next.pc = "bump"
  BY <1>1 DEF Goto, TxOK, DiskOK, RowStatus
<1> HIDE DEF next
<1>13. tx'.pc = "bump" /\ tx'.work.pos = new
  BY <1>1, <1>6, <1>9, <1>11, <1>12, WriteProperties
<1>14. RowsAt(tx'.work.pos, tx'.pc, tx'.op, tx'.ids, tx'.at)
  BY <1>10, <1>13 DEF RowsAt
<1>15. QED
  BY <1>1, <1>14, StatementKeepsInvariant

LEMMA DeleteKeeps ==
  ASSUME RowsInvariant, BaseInvariant', Delete
  PROVE  RowsInvariant'
<1> DEFINE pos == tx.work.pos
           new == [p \in DOMAIN pos \ Doomed |-> pos[p]]
<1>1. /\ tx.pc = "delete" /\ disk' = disk /\ TxOK(tx)
      /\ IsFiniteSet(DOMAIN pos) /\ Numbered(pos)
  BY RowsProperties, BaseProperties DEF Delete, At, RowsAt
<1>2. Size(pos) \in Nat
  BY <1>1, FS_CardinalityType DEF Size
<1>3. Apart(new) /\ \A p \in DOMAIN new : new[p] >= 0
  BY <1>1, <1>2 DEF Apart, Numbered
<1>4. tx'.pc = "list" /\ tx'.work.pos = new
  BY <1>1 DEF Delete, Goto, TxOK, DiskOK
<1>5. RowsAt(tx'.work.pos, tx'.pc, tx'.op, tx'.ids, tx'.at)
  BY <1>3, <1>4 DEF RowsAt
<1>6. QED
  BY <1>1, <1>5, StatementKeepsInvariant

LEMMA ListKeeps ==
  ASSUME RowsInvariant, BaseInvariant', List
  PROVE  RowsInvariant'
<1>1. /\ tx.pc = "list" /\ disk' = disk /\ tx'.pc = "negate" /\ tx'.work = tx.work
  BY RowsProperties, ListRead
<1>2. RowsAt(tx'.work.pos, tx'.pc, tx'.op, tx'.ids, tx'.at)
  BY <1>1, RowsProperties DEF RowsAt
<1>3. QED
  BY <1>1, <1>2, StatementKeepsInvariant

\* Rows that are apart are so on the other side of zero, and meet none there.
LEMMA NegatedProperties ==
  ASSUME NEW pos, PositionsOK(pos), Apart(pos)
  PROVE  /\ PositionsOK(Negated(pos)) /\ DOMAIN Negated(pos) = DOMAIN pos
         /\ Apart(Negated(pos))
         /\ \A p \in DOMAIN pos : Negated(pos)[p] = -pos[p] - 1
         /\ \/ \A p \in DOMAIN pos : pos[p] >= 0
            \/ \A p \in DOMAIN pos : pos[p] < 0
            => ~Clashes(pos, Negated(pos))
<1> DEFINE new == Negated(pos)
<1>1. DOMAIN new = DOMAIN pos /\ \A p \in DOMAIN pos : new[p] = -pos[p] - 1
  BY DEF Negated
<1>2. \A p \in DOMAIN pos : pos[p] \in Int /\ new[p] \in Int
  BY <1>1, PositionsOKProperties
<1>3. PositionsOK(new)
  <2>1. new = [p \in DOMAIN pos |-> new[p]]
    BY DEF Negated
  <2>2. QED BY <1>1, <1>2, <2>1, PositionsOKProperties DEF PositionsOK
<1>4. Apart(new)
  BY <1>1, <1>2 DEF Apart
<1>5. ASSUME \/ \A p \in DOMAIN pos : pos[p] >= 0
             \/ \A p \in DOMAIN pos : pos[p] < 0
      PROVE  ~Clashes(pos, new)
  <2>1. \A p, q \in DOMAIN pos : new[q] # pos[p]
    BY <1>1, <1>2, <1>5
  <2> HIDE DEF new
  <2>2. QED BY <1>1, <1>4, <2>1 DEF Clashes, Apart
<1>6. QED
  BY <1>1, <1>3, <1>4, <1>5

LEMMA NegateKeeps ==
  ASSUME RowsInvariant, BaseInvariant', Negate
  PROVE  RowsInvariant'
<1> DEFINE pos == tx.work.pos
           new == Negated(pos)
<1>1. /\ tx.pc = "negate" /\ disk' = disk /\ TxOK(tx) /\ PositionsOK(pos) /\ Apart(pos)
      /\ \A p \in DOMAIN pos : pos[p] >= 0
  BY RowsProperties, BaseProperties DEF Negate, At, RowsAt
<1>2. /\ PositionsOK(new) /\ DOMAIN new = DOMAIN pos /\ Apart(new)
      /\ ~Clashes(pos, new)
      /\ \A p \in DOMAIN pos : new[p] < 0
  BY <1>1, NegatedProperties, PositionsOKProperties
<1> HIDE DEF new
<1>3. TxOK(Goto("number")) /\ Goto("number").pc = "number"
  BY <1>1, GotoOK
<1>4. Write(new, Goto("number"))
  BY DEF Negate, new
<1>5. tx'.pc = "number" /\ tx'.work.pos = new
  BY <1>1, <1>2, <1>3, <1>4, WriteProperties
<1>6. RowsAt(tx'.work.pos, tx'.pc, tx'.op, tx'.ids, tx'.at)
  BY <1>2, <1>5 DEF RowsAt
<1>7. QED
  BY <1>1, <1>6, StatementKeepsInvariant

\* Moving one row to a free place.
LEMMA MoveProperties ==
  ASSUME NEW pos, PositionsOK(pos), Apart(pos), NEW id \in DOMAIN pos,
         NEW v \in Int, \A p \in DOMAIN pos : p # id => pos[p] # v
  PROVE  LET new == [pos EXCEPT ![id] = v]
         IN  Apart(new) /\ ~Clashes(pos, new)
<1> DEFINE new == [pos EXCEPT ![id] = v]
<1>1. /\ DOMAIN new = DOMAIN pos
      /\ new[id] = v /\ \A p \in DOMAIN pos : p # id => new[p] = pos[p]
  BY MovedOK
<1> HIDE DEF new
<1>2. Apart(new)
  BY <1>1 DEF Apart
<1>3. ~Clashes(pos, new)
  BY <1>1 DEF Clashes, Apart
<1>4. QED
  BY <1>2, <1>3 DEF new

LEMMA NumberKeeps ==
  ASSUME RowsInvariant, BaseInvariant', Number
  PROVE  RowsInvariant'
<1> DEFINE pos == tx.work.pos
           ids == tx.ids
           k == tx.at + 1
           id == ids[k]
           new == [pos EXCEPT ![id] = tx.at]
           next == [tx EXCEPT !.at = @ + 1]
<1>1. /\ tx.pc = "number" /\ disk' = disk /\ TxOK(tx) /\ tx.at < Len(ids)
      /\ PositionsOK(pos) /\ Apart(pos) /\ Listing(ids, pos)
      /\ \A i \in 1..tx.at : pos[ids[i]] = i - 1
      /\ \A p \in DOMAIN pos : (\A i \in 1..tx.at : ids[i] # p) => pos[p] < 0
      /\ Write(new, next)
  BY RowsProperties, BaseProperties DEF Number, At, RowsAt, MendedAt
<1>2. /\ tx.at \in Nat /\ Len(ids) \in Nat /\ k \in 1..Len(ids)
      /\ id \in DOMAIN pos
  BY <1>1, RowsProperties, BaseProperties DEF Listing
<1>3. ASSUME NEW p \in DOMAIN pos, p # id PROVE pos[p] # tx.at
  <2>1. CASE \E i \in 1..tx.at : ids[i] = p
    <3>1. PICK i \in 1..tx.at : ids[i] = p
      BY <2>1
    <3>2. pos[p] = i - 1
      BY <1>1, <3>1
    <3>3. QED BY <1>2, <3>2
  <2>2. CASE \A i \in 1..tx.at : ids[i] # p
    <3>1. pos[p] < 0 /\ pos[p] \in Int
      BY <1>1, <2>2, PositionsOKProperties
    <3>2. QED BY <1>2, <3>1
  <2>3. QED BY <2>1, <2>2
<1>4. /\ PositionsOK(new) /\ DOMAIN new = DOMAIN pos
      /\ new[id] = tx.at /\ \A p \in DOMAIN pos : p # id => new[p] = pos[p]
  BY <1>1, <1>2, MovedOK
<1>5. Apart(new) /\ ~Clashes(pos, new)
  BY <1>1, <1>2, <1>3, MoveProperties
<1>6. TxOK(next) /\ next.pc = "number" /\ next.ids = ids /\ next.at = k
  BY <1>1, AdvanceOK
<1> HIDE DEF new, next
<1>7. tx'.pc = "number" /\ tx'.ids = ids /\ tx'.at = k /\ tx'.work.pos = new
  BY <1>1, <1>4, <1>5, <1>6, WriteProperties
<1>8. ASSUME NEW p \in DOMAIN new, \A i \in 1..k : ids[i] # p
      PROVE  new[p] < 0
  <2>1. p # id /\ \A i \in 1..tx.at : ids[i] # p
    BY <1>2, <1>8
  <2>2. QED BY <1>1, <1>4, <1>8, <2>1
<1>9. RowsAt(tx'.work.pos, tx'.pc, tx'.op, tx'.ids, tx'.at)
  <2> HIDE DEF ids, id, pos, k
  <2>1. RowsAt(new, "number", tx'.op, ids, k)
    BY <1>5, <1>8 DEF RowsAt
  <2>2. QED BY <1>7, <2>1
<1>10. QED
  BY <1>1, <1>9, StatementKeepsInvariant

LEMMA CountKeeps ==
  ASSUME RowsInvariant, BaseInvariant', Count
  PROVE  RowsInvariant'
<1> DEFINE pos == tx.work.pos
<1>1. /\ tx.pc = "count" /\ tx.at = 0 /\ disk' = disk /\ TxOK(tx)
      /\ IsFiniteSet(DOMAIN pos) /\ Numbered(pos)
  BY RowsProperties, BaseProperties DEF Count, At, RowsAt, MendedAt
<1>2. tx'.pc = "place" /\ tx'.work = tx.work /\ tx'.at = 0
  BY <1>1, GotoOK DEF Count
<1>3. Size(pos) \in Nat
  BY <1>1, FS_CardinalityType DEF Size
<1>4. \A p \in DOMAIN pos : pos[p] >= 0
  BY <1>1, <1>3 DEF Numbered
<1>5. RowsAt(tx'.work.pos, tx'.pc, tx'.op, tx'.ids, tx'.at)
  BY <1>1, <1>2, <1>4 DEF RowsAt, Numbered
<1>6. QED
  BY <1>1, <1>5, StatementKeepsInvariant

LEMMA PlaceKeeps ==
  ASSUME RowsInvariant, BaseInvariant', Place
  PROVE  RowsInvariant'
<1> DEFINE pos == tx.work.pos
           ids == tx.ids
           k == tx.at + 1
           id == ids[k]
           new == [pos EXCEPT ![id] = -k]
           next == [tx EXCEPT !.at = @ + 1]
<1>1. /\ tx.pc = "place" /\ disk' = disk /\ TxOK(tx) /\ tx.at < Len(ids)
      /\ id \in DOMAIN pos /\ PositionsOK(pos) /\ Apart(pos)
      /\ \A i \in 1..tx.at : ids[i] \in DOMAIN pos /\ pos[ids[i]] = -i
      /\ \A p \in DOMAIN pos : (\A i \in 1..tx.at : ids[i] # p) => pos[p] >= 0
      /\ Write(new, next)
  BY RowsProperties, BaseProperties DEF Place, At, RowsAt, MendedAt
<1>2. /\ tx.at \in Nat /\ Len(ids) \in Nat /\ k \in 1..Len(ids) /\ -k \in Int
      /\ -k < 0
  BY <1>1, RowsProperties, BaseProperties
<1>3. ASSUME NEW p \in DOMAIN pos, p # id PROVE pos[p] # -k
  <2>1. CASE \E i \in 1..tx.at : ids[i] = p
    <3>1. PICK i \in 1..tx.at : ids[i] = p
      BY <2>1
    <3>2. pos[p] = -i /\ i # k
      BY <1>1, <1>2, <3>1
    <3>3. QED BY <1>2, <3>2
  <2>2. CASE \A i \in 1..tx.at : ids[i] # p
    <3>1. pos[p] >= 0 /\ pos[p] \in Int
      BY <1>1, <2>2, PositionsOKProperties
    <3>2. QED BY <1>2, <3>1
  <2>3. QED BY <2>1, <2>2
<1>4. /\ PositionsOK(new) /\ DOMAIN new = DOMAIN pos
      /\ new[id] = -k /\ \A p \in DOMAIN pos : p # id => new[p] = pos[p]
  BY <1>1, <1>2, MovedOK
<1>5. Apart(new) /\ ~Clashes(pos, new)
  BY <1>1, <1>2, <1>3, MoveProperties
<1>6. TxOK(next) /\ next.pc = "place" /\ next.ids = ids /\ next.at = k
  BY <1>1, AdvanceOK
<1> HIDE DEF new, next
<1>7. tx'.pc = "place" /\ tx'.ids = ids /\ tx'.at = k /\ tx'.work.pos = new
  BY <1>1, <1>4, <1>5, <1>6, WriteProperties
<1>8. ASSUME NEW p \in DOMAIN new, \A i \in 1..k : ids[i] # p
      PROVE  new[p] >= 0
  <2>1. p # id /\ \A i \in 1..tx.at : ids[i] # p
    BY <1>2, <1>8
  <2>2. QED BY <1>1, <1>4, <1>8, <2>1
<1>9. RowsAt(tx'.work.pos, tx'.pc, tx'.op, tx'.ids, tx'.at)
  <2> HIDE DEF ids, id, pos, k
  <2>1. RowsAt(new, "place", tx'.op, ids, k)
    BY <1>5, <1>8 DEF RowsAt
  <2>2. QED BY <1>7, <2>1
<1>10. QED
  BY <1>1, <1>9, StatementKeepsInvariant

LEMMA FlipKeeps ==
  ASSUME RowsInvariant, BaseInvariant', Flip
  PROVE  RowsInvariant'
<1> DEFINE pos == tx.work.pos
           ids == tx.ids
           new == Negated(pos)
<1>1. /\ tx.pc = "place" /\ disk' = disk /\ TxOK(tx) /\ tx.op # "add"
      /\ IsFiniteSet(DOMAIN pos) /\ PositionsOK(pos) /\ Apart(pos)
      /\ tx.at = Len(ids) /\ Len(ids) = Size(pos)
      /\ \A i, j \in 1..Len(ids) : ids[i] = ids[j] => i = j
      /\ \A i \in 1..tx.at : ids[i] \in DOMAIN pos /\ pos[ids[i]] = -i
      /\ Write(new, Goto("bump"))
  BY RowsProperties, BaseProperties DEF Flip, At, RowsAt, MendedAt
<1>2. Len(ids) \in Nat /\ ids \in Seq(Ids)
  BY RowsProperties, BaseProperties
<1>3. Lists(ids, pos)
  BY <1>1, <1>2, ListsAll
<1>4. \A p \in DOMAIN pos : pos[p] < 0
  <2>1. TAKE p \in DOMAIN pos
  <2>2. PICK i \in 1..Len(ids) : ids[i] = p
    BY <1>3 DEF Lists
  <2>3. pos[p] = -i
    BY <1>1, <2>2
  <2>4. QED BY <1>2, <2>3
<1>5. PositionsOK(new) /\ DOMAIN new = DOMAIN pos /\ ~Clashes(pos, new)
  BY <1>1, <1>4, NegatedProperties
<1> HIDE DEF new
<1>6. /\ TxOK(Goto("bump")) /\ Goto("bump").pc = "bump"
      /\ Goto("bump").ids = tx.ids /\ Goto("bump").op = tx.op
  BY <1>1, GotoOK
<1>7. tx'.pc = "bump" /\ tx'.work.pos = new /\ tx'.ids = tx.ids /\ tx'.op = tx.op
  BY <1>1, <1>5, <1>6, WriteProperties
<1>8. Size(new) = Size(pos)
  BY <1>5 DEF Size
<1>9. Numbered(tx'.work.pos)
  <2>1. MendedAt(tx.work.pos, tx.pc, tx.op, tx.ids, tx.at)'
    BY DEF BaseInvariant
  <2>2. /\ tx'.pc \in {"bump", "commit"} /\ tx'.op # "add"
        /\ Len(tx'.ids) = Size(tx'.work.pos)
    BY <1>1, <1>7, <1>8
  <2>3. QED BY <2>1, <2>2 DEF MendedAt, Size, Numbered, Apart
<1>10. RowsAt(tx'.work.pos, tx'.pc, tx'.op, tx'.ids, tx'.at)
  BY <1>7, <1>9 DEF RowsAt
<1>11. QED
  BY <1>1, <1>10, StatementKeepsInvariant

LEMMA ReviseKeeps ==
  ASSUME RowsInvariant, BaseInvariant', Revise
  PROVE  RowsInvariant'
<1>1. /\ tx.pc \in {"bump", "number"} /\ disk' = disk /\ tx'.pc = "commit"
      /\ tx'.op = tx.op /\ tx'.ids = tx.ids /\ tx'.work.pos = tx.work.pos
  BY RowsProperties, ReviseWrites
<1>2. tx.op = "add" \/ Len(tx.ids) = Size(tx.work.pos) => Numbered(tx.work.pos)
  <2>1. CASE tx.pc = "bump"
    BY <2>1, RowsProperties DEF RowsAt
  <2>2. CASE tx.pc = "number"
    <3>1. tx.at = Len(tx.ids) /\ tx.op # "add"
      BY <2>2, RowsProperties, BaseProperties DEF Revise, At, MendedAt
    <3>2. QED BY <2>2, <3>1, RowsProperties, AllNumbered
  <2>3. QED BY <1>1, <2>1, <2>2
<1>3. RowsAt(tx'.work.pos, tx'.pc, tx'.op, tx'.ids, tx'.at)
  <2> DEFINE pos == tx.work.pos
  <2> HIDE DEF pos
  <2>1. RowsAt(pos, "commit", tx.op, tx.ids, tx'.at)
    BY <1>2 DEF RowsAt, pos
  <2>2. QED BY <1>1, <2>1 DEF pos
<1>4. QED
  BY <1>1, <1>3, StatementKeepsInvariant

\* Whatever went before, a commit that is not cut short leaves dense positions:
\* an addition only if they were dense already.
LEMMA CommitMends ==
  ASSUME BaseInvariant, cutShort = FALSE => RowsInvariant, BaseInvariant',
         Commit, cutShort' = FALSE
  PROVE  RowsInvariant' /\ Numbered(tx.work.pos)
<1>1. /\ tx.pc = "commit" /\ disk' = tx.work /\ tx' = NoTx(tx.work)
      /\ cutShort' = IF tx.op = "add" THEN cutShort
                     ELSE Len(tx.ids) # Size(tx.work.pos)
  BY DEF Commit, Size
<1>2. Numbered(tx.work.pos)
  <2>1. CASE tx.op = "add"
    <3>1. RowsInvariant
      BY <1>1, <2>1
    <3>2. QED BY <1>1, <2>1, <3>1, RowsProperties DEF RowsAt
  <2>2. CASE tx.op # "add"
    <3>1. Len(tx.ids) = Size(tx.work.pos)
      BY <1>1, <2>2
    <3>2. QED BY <1>1, <2>2, <3>1, BaseProperties DEF MendedAt
  <2>3. QED BY <2>1, <2>2
<1>3. tx'.work = tx.work /\ tx'.pc = "none"
  BY <1>1 DEF NoTx
<1>4. RowsAt(tx'.work.pos, tx'.pc, tx'.op, tx'.ids, tx'.at)
  BY <1>2, <1>3 DEF RowsAt
<1>5. Numbered(disk.pos)'
  BY <1>1, <1>2 DEF Numbered, Apart, Size
<1>6. RowsAt(tx.work.pos, tx.pc, tx.op, tx.ids, tx.at)'
  BY <1>4 DEF RowsAt, Numbered, Apart, Size
<1>7. QED BY <1>2, <1>5, <1>6 DEF RowsInvariant

LEMMA RollbackKeeps ==
  ASSUME RowsInvariant, BaseInvariant', Rollback
  PROVE  RowsInvariant'
<1>1. disk' = disk /\ tx'.work = disk /\ tx'.pc = "none"
  BY DEF Rollback, NoTx
<1>2. RowsAt(tx'.work.pos, tx'.pc, tx'.op, tx'.ids, tx'.at)
  BY <1>1, RowsProperties DEF RowsAt
<1>3. QED
  BY <1>1, <1>2, StatementKeepsInvariant

\* The other transactions leave the positions alone.
LEMMA ColumnsKeeps ==
  ASSUME RowsInvariant, Columns
  PROVE  RowsInvariant'
<1>1. /\ BaseInvariant' /\ disk'.pos = disk.pos /\ tx'.pc = "none" /\ tx'.work = disk'
  BY RowsProperties, ColumnsBase
<1>2. Numbered(disk'.pos)
  BY <1>1, RowsProperties
<1>3. Numbered(disk.pos)'
  BY <1>2 DEF Numbered, Apart, Size
<1>4. RowsAt(tx.work.pos, tx.pc, tx.op, tx.ids, tx.at)'
  BY <1>1, <1>2 DEF RowsAt, Numbered, Apart, Size
<1>5. QED BY <1>1, <1>3, <1>4 DEF RowsInvariant
-----------------------------------------------------------------------------
(* All steps.                                                              *)

\* Dense positions, unless a compaction was cut short.
Mending == BaseInvariant /\ (cutShort = FALSE => RowsInvariant)

LEMMA RowsStep == Mending /\ [Next]_vars => Mending'
<1> SUFFICES ASSUME Mending, [Next]_vars, cutShort' = FALSE
             PROVE  BaseInvariant' /\ RowsInvariant'
  BY BaseStep DEF Mending
<1>1. BaseInvariant /\ BaseInvariant'
  BY BaseStep DEF Mending
<1>2. CASE Commit
  BY <1>1, <1>2, CommitMends DEF Mending
<1>3. CASE ~Commit
  <2>1. cutShort = FALSE
    BY <1>3 DEF Next, Statement, Insert, Delete, List, Negate, Number, Count, Place,
                Flip, Revise, At, Rollback, Columns, Stored, Begin, BeginAdd,
                BeginRemove, BeginFinish, BeginSkip, BeginClear, BeginReorder, vars
  <2>2. RowsInvariant
    BY <2>1 DEF Mending
  <2>3. ASSUME NEW id \in Ids, BeginAdd(id) \/ BeginRemove(id) \/ BeginFinish(id)
        PROVE  RowsInvariant'
    BY <1>1, <2>2, <2>3, BeginKeeps DEF BeginAdd, BeginRemove, BeginFinish
  <2>4. CASE BeginSkip \/ BeginClear
    BY <1>1, <2>2, <2>4, BeginKeeps DEF BeginSkip, BeginClear
  <2>5. ASSUME NEW ids, BeginReorder(ids)
        PROVE  RowsInvariant'
    BY <1>1, <2>2, <2>5, BeginKeeps DEF BeginReorder
  <2>6. CASE Statement
    BY <1>1, <2>2, <2>6, InsertKeeps, DeleteKeeps, ListKeeps, NegateKeeps, NumberKeeps,
       CountKeeps, PlaceKeeps, FlipKeeps, ReviseKeeps DEF Statement
  <2>7. CASE Rollback
    BY <1>1, <2>2, <2>7, RollbackKeeps
  <2>8. CASE Columns
    BY <1>1, <2>2, <2>8, ColumnsKeeps
  <2>9. CASE UNCHANGED vars
    <3>1. disk' = disk /\ tx' = tx
      BY <2>9 DEF vars
    <3>2. Numbered(disk.pos)'
      BY <2>2, <3>1 DEF RowsInvariant, Numbered, Apart, Size
    <3>3. RowsAt(tx.work.pos, tx.pc, tx.op, tx.ids, tx.at)'
      BY <2>2, <3>1 DEF RowsInvariant, RowsAt, Numbered, Apart, Size
    <3>4. QED BY <1>1, <3>2, <3>3 DEF RowsInvariant
  <2>10. RowsInvariant'
    BY <1>3, <2>3, <2>4, <2>5, <2>6, <2>7, <2>8, <2>9 DEF Next
  <2>11. QED BY <1>1, <2>10
<1>4. QED BY <1>2, <1>3

LEMMA RowsSafe == Spec => []Mending
<1>1. Init => Mending
  BY RowsInit DEF Mending, RowsInvariant
<1>2. QED BY <1>1, RowsStep, PTL DEF Spec

\* Positions between transactions are 0, 1, .., n-1, for any number of rows,
\* from the start and after every complete compaction or reordering: only one
\* that was cut short, and additions after it, leave others.
THEOREM RowsDense == Spec => []Dense
<1>1. Mending => Dense
  BY DEF Mending, BaseInvariant, RowsInvariant, Numbered, Dense, Size
<1>2. QED BY <1>1, RowsSafe, PTL

\* As long as no compaction was cut short, no statement of an edit, compaction
\* and reordering included, fails because a position is taken, in whatever order
\* SQLite visits the rows.
THEOREM RowsPositionsFree == Spec => []PositionsFree
<1>1. Mending => PositionsFree
  BY DEF Mending, BaseInvariant, RowsInvariant, RowsAt, PositionsFree
<1>2. QED BY <1>1, RowsSafe, PTL

\* The database and the open transaction keep their types.
THEOREM RowsTypeCorrect == Spec => []RowsTypeOK
<1>1. Mending => RowsTypeOK
  BY DEF Mending, BaseInvariant
<1>2. QED BY <1>1, RowsSafe, PTL
-----------------------------------------------------------------------------
(* The refinement: what an open transaction has done so far.               *)

QDb == INSTANCE QueueDb_proofs WITH db <- Seen(disk)

SameColumns(w, d) ==
  /\ w.rev = d.rev /\ w.current = d.current /\ w.status = d.status
  /\ w.paused = d.paused /\ w.buffering = d.buffering /\ w.volume = d.volume

\* The rows that the DELETE of this transaction finds in d.
Gone(d, op, id) ==
  {p \in DOMAIN d.pos :
     \/ op = "clear"
     \/ op = "skip" /\ d.pos[p] = 0
     \/ op = "remove" /\ p = id
     \/ op = "finish" /\ p = id /\ d.st[p] = "current"}

\* w is d without those rows, wherever the others are.
Thinned(w, d, op, id) ==
  /\ op \in {"remove", "finish"} => id \in Ids
  /\ Gone(d, op, id) # {} \/ op = "clear"
  /\ DOMAIN w.pos = DOMAIN d.pos \ Gone(d, op, id)
  /\ w.st = [p \in Ids |-> IF p \in Gone(d, op, id) THEN "deleted" ELSE d.st[p]]

\* One edit of the list, as QueueDb has it.
Edited(old, new) ==
  \/ \E id \in Ids :
       \/ AddItemOK(old, id, QueueLimit) /\ new = AddItem(old, id)
       \/ RemoveItemOK(old, id) /\ new = RemoveItem(old, id)
       \/ FinishCurrentOK(old, id) /\ new = FinishCurrent(old, id, FALSE)
  \/ SkipOK(old) /\ new = Skip(old)
  \/ new = Clear(old)
  \/ \E ids \in [DOMAIN old.order -> Ids] : ReorderOK(old, ids) /\ new = Reorder(old, ids)

\* Rows that stand at 0, 1, .., n-1.
Kept(d) == DiskOK(d) /\ IsFiniteSet(DOMAIN d.pos) /\ Numbered(d.pos)

\* What the transaction t has made of the database d when its next statement
\* is t.pc: of the rows and the other columns, and of the order that is left.
TracksAt(d, t) ==
  /\ t.pc \in {"insert", "delete", "count"} => t.work = d
  /\ t.pc = "insert" => d.st[t.id] = "absent"
  /\ t.pc \in {"delete", "list", "negate", "number"} =>
       t.op \in {"remove", "finish", "skip", "clear"}
  /\ t.pc = "delete" => (t.op \in {"remove", "finish"} => t.id \in Ids)
  /\ t.pc \in {"insert", "count", "place", "bump"} => t.op # "finish"
  /\ t.pc \in {"list", "negate", "number", "place"} => SameColumns(t.work, d)
  /\ t.pc \in {"list", "negate", "number"} => Thinned(t.work, d, t.op, t.id)
  /\ t.pc = "list" => \A p \in DOMAIN t.work.pos : t.work.pos[p] = d.pos[p]
  /\ t.pc \in {"negate", "number"} =>
       \A i, j \in 1..Len(t.ids) : i < j => d.pos[t.ids[i]] < d.pos[t.ids[j]]
  /\ t.pc = "place" => DOMAIN t.work.pos = DOMAIN d.pos /\ t.work.st = d.st
  /\ t.pc = "bump" => Kept(t.work) /\ Edited(Seen(d), Bump(Seen(t.work)))
  /\ t.pc = "commit" /\ (t.op = "add" \/ Len(t.ids) = Size(t.work.pos)) =>
       Edited(Seen(d), Seen(t.work))

TracksInvariant == TracksAt(disk, tx)

\* What removing one element of a sequence leaves.
LEMMA RemovedOne ==
  ASSUME NEW s \in Seq(Ids), NEW k \in DOMAIN s
  PROVE  /\ RemoveAt(s, k) \in Seq(Ids)
         /\ Len(RemoveAt(s, k)) = Len(s) - 1
         /\ \A i \in 1..(Len(s) - 1) :
              RemoveAt(s, k)[i] = IF i < k THEN s[i] ELSE s[i + 1]
<1>1. RemoveAt(s, k) = QDb!RemoveAt(s, k)
  BY DEF QDb!RemoveAt, RemoveAt
<1>2. QED
  BY <1>1, QDb!RemoveAtProperties, NoneAssumption, UrlOfAssumption, RowsAssumption

\* Records with the same columns are the same.
LEMMA DbTypeEqual ==
  ASSUME NEW r \in DbType, NEW s \in DbType,
         r.rev = s.rev, r.order = s.order, r.st = s.st, r.current = s.current,
         r.status = s.status, r.paused = s.paused, r.buffering = s.buffering,
         r.volume = s.volume
  PROVE  r = s
BY DEF DbType

\* What the rest of the program sees of them.
LEMMA SeenProperties ==
  ASSUME NEW d, Kept(d)
  PROVE  /\ Seen(d) \in DbType /\ SameColumns(Seen(d), d)
         /\ Seen(d).order = OrderOf(d.pos) /\ Seen(d).st = d.st
         /\ OrderOf(d.pos) \in Seq(Ids) /\ Lists(OrderOf(d.pos), d.pos)
         /\ \A i \in 1..Len(OrderOf(d.pos)) : d.pos[OrderOf(d.pos)[i]] = i - 1
         /\ Listed(Seen(d)) = DOMAIN d.pos
<1> DEFINE a == OrderOf(d.pos)
<1>1. PositionsOK(d.pos)
  BY DEF Kept, DiskOK
<1>2. /\ a \in Seq(Ids) /\ Lists(a, d.pos)
      /\ \A i \in 1..Len(a) : d.pos[a[i]] = i - 1
  BY <1>1, OrderOfNumbered DEF Kept
<1>3. SameColumns(Seen(d), d) /\ Seen(d).order = a /\ Seen(d).st = d.st
  BY DEF Seen, SameColumns
<1> HIDE DEF a
<1>4. Seen(d) \in DbType
  BY <1>2 DEF Kept, DiskOK, Seen, DbType, a
<1>5. Listed(Seen(d)) = DOMAIN d.pos
  <2>1. Listed(Seen(d)) = {a[i] : i \in 1..Len(a)}
    BY <1>2, <1>3 DEF Listed
  <2>2. \A p \in DOMAIN d.pos : \E i \in 1..Len(a) : a[i] = p
    BY <1>2 DEF Lists
  <2>3. \A i \in 1..Len(a) : a[i] \in DOMAIN d.pos
    BY <1>2 DEF Lists
  <2>4. QED BY <2>1, <2>2, <2>3
<1>6. QED BY <1>2, <1>3, <1>4, <1>5 DEF a

\* A new revision and the columns of playback touch no row.
LEMMA SeenBump ==
  ASSUME NEW d, Kept(d)
  PROVE  Kept(Bump(d)) /\ Bump(d).pos = d.pos /\ Seen(Bump(d)) = Bump(Seen(d))
<1>1. Kept(Bump(d)) /\ Bump(d).pos = d.pos
  <2>1. Bump(d).pos = d.pos /\ DiskOK(Bump(d))
    BY DEF Kept, DiskOK, Bump
  <2>2. QED BY <2>1 DEF Kept
<1>2. /\ Bump(d).rev = d.rev + 1 /\ Bump(d).st = d.st /\ Bump(d).current = d.current
      /\ Bump(d).status = d.status /\ Bump(d).paused = d.paused
      /\ Bump(d).buffering = d.buffering /\ Bump(d).volume = d.volume
  BY DEF Kept, DiskOK, Bump
<1>3. Seen(Bump(d)) = [Seen(d) EXCEPT !.rev = @ + 1]
  BY <1>1, <1>2 DEF Seen
<1>4. QED BY <1>1, <1>3 DEF Bump

LEMMA SeenCleared ==
  ASSUME NEW d, Kept(d)
  PROVE  /\ Kept(Cleared(d, "idle")) /\ Cleared(d, "idle").pos = d.pos
         /\ Seen(Cleared(d, "idle")) = Cleared(Seen(d), "idle")
<1> DEFINE e == Cleared(d, "idle")
<1>1. DiskOK(e) /\ e.pos = d.pos
  BY DEF Kept, DiskOK, Cleared, Statuses
<1>2. /\ e.rev = d.rev /\ e.st = d.st /\ e.current = None
      /\ e.status = "idle" /\ e.paused = FALSE
      /\ e.buffering = FALSE /\ e.volume = d.volume
  BY DEF Kept, DiskOK, Cleared
<1> HIDE DEF e
<1>3. Kept(e)
  BY <1>1 DEF Kept
<1>4. /\ Seen(d) \in DbType /\ Seen(e) \in DbType
      /\ Seen(d).order = Seen(e).order /\ Seen(d).st = Seen(e).st
      /\ SameColumns(Seen(d), d) /\ SameColumns(Seen(e), e)
  BY <1>1, <1>2, <1>3, SeenProperties
<1>5. ASSUME NEW s \in DbType
      PROVE  LET c == Cleared(s, "idle")
             IN  /\ c \in DbType
                 /\ c.rev = s.rev /\ c.order = s.order /\ c.st = s.st
                 /\ c.current = None /\ c.status = "idle" /\ c.paused = FALSE
                 /\ c.buffering = FALSE /\ c.volume = s.volume
  BY DEF DbType, Cleared, Statuses
<1> DEFINE c == Cleared(Seen(d), "idle")
<1>6. /\ c \in DbType
      /\ c.rev = Seen(d).rev /\ c.order = Seen(d).order /\ c.st = Seen(d).st
      /\ c.current = None /\ c.status = "idle" /\ c.paused = FALSE
      /\ c.buffering = FALSE /\ c.volume = Seen(d).volume
  BY <1>4, <1>5
<1> HIDE DEF c
<1>7. Seen(e) = c
  <2>1. /\ Seen(e).rev = c.rev /\ Seen(e).order = c.order /\ Seen(e).st = c.st
        /\ Seen(e).current = c.current /\ Seen(e).status = c.status
        /\ Seen(e).paused = c.paused /\ Seen(e).buffering = c.buffering
        /\ Seen(e).volume = c.volume
    BY <1>2, <1>4, <1>6 DEF SameColumns
  <2>2. QED BY <1>4, <1>6, <2>1, DbTypeEqual
<1>8. QED BY <1>1, <1>3, <1>7 DEF c, e

\* Rows and columns that agree with a record of QueueStore stand for it.
LEMMA SeenIs ==
  ASSUME NEW w, Kept(w), NEW e \in DbType, SameColumns(w, e),
         OrderOf(w.pos) = e.order, w.st = e.st
  PROVE  Seen(w) = e
BY SeenProperties, DbTypeEqual DEF SameColumns

\* One row less, the others in their order: what DeleteRow makes of the record.
LEMMA RowDeleted ==
  ASSUME NEW d, Kept(d), NEW w, Kept(w), SameColumns(w, d), NEW id \in DOMAIN d.pos,
         DOMAIN w.pos = DOMAIN d.pos \ {id},
         w.st = [d.st EXCEPT ![id] = "deleted"],
         \A i, j \in 1..Len(OrderOf(w.pos)) :
           i < j => d.pos[OrderOf(w.pos)[i]] < d.pos[OrderOf(w.pos)[j]]
  PROVE  DeleteRow(Seen(d), id) = Seen(w)
<1> DEFINE a == OrderOf(d.pos)
           b == OrderOf(w.pos)
           k == PlaceOf(Seen(d), id)
           short == RemoveAt(a, k)
           rest == [p \in DOMAIN d.pos \ {id} |-> d.pos[p]]
<1>1. /\ a \in Seq(Ids) /\ Lists(a, d.pos) /\ Len(a) \in Nat /\ DOMAIN a = 1..Len(a)
      /\ \A i \in 1..Len(a) : d.pos[a[i]] = i - 1
      /\ Seen(d).order = a /\ Seen(d).st = d.st /\ Seen(d) \in DbType
      /\ SameColumns(Seen(d), d)
  BY SeenProperties
<1>2. b \in Seq(Ids) /\ Lists(b, w.pos)
  BY SeenProperties
<1>3. k \in 1..Len(a) /\ a[k] = id
  <2>1. \E i \in DOMAIN Seen(d).order : Seen(d).order[i] = id
    BY <1>1 DEF Lists
  <2>2. k \in DOMAIN Seen(d).order /\ Seen(d).order[k] = id
    BY <2>1 DEF PlaceOf
  <2>3. QED BY <1>1, <2>2
<1>4. PositionsOK(d.pos) /\ IsFiniteSet(DOMAIN d.pos)
  BY DEF Kept, DiskOK
<1> HIDE DEF a, b, k
<1>5. /\ short \in Seq(Ids) /\ Len(short) = Len(a) - 1
      /\ \A i \in 1..(Len(a) - 1) : short[i] = IF i < k THEN a[i] ELSE a[i + 1]
  <2>1. k \in DOMAIN a
    BY <1>1, <1>3
  <2>2. a \in Seq(Ids)
    BY <1>1
  <2>3. QED BY <2>1, <2>2, RemovedOne
<1> HIDE DEF short
<1>6. /\ PositionsOK(rest) /\ IsFiniteSet(DOMAIN rest) /\ DOMAIN rest = DOMAIN d.pos \ {id}
      /\ Size(rest) = Size(d.pos) - 1
      /\ \A p \in DOMAIN rest : rest[p] = d.pos[p]
  <2>1. DOMAIN rest = DOMAIN d.pos \ {id} /\ \A p \in DOMAIN rest : rest[p] = d.pos[p]
    OBVIOUS
  <2>2. PositionsOK(rest)
    BY <1>4, PositionsOKProperties DEF PositionsOK
  <2> HIDE DEF rest
  <2>3. IsFiniteSet(DOMAIN rest) /\ Cardinality(DOMAIN rest) = Cardinality(DOMAIN d.pos) - 1
    BY <1>4, <2>1, FS_RemoveElement
  <2>4. QED BY <2>1, <2>2, <2>3 DEF Size
<1> HIDE DEF rest
<1>7. b \in Ordered(rest)
  <2>1. Len(b) = Size(rest) /\ \A i \in 1..Len(b) : b[i] \in DOMAIN rest
    BY <1>2, <1>6 DEF Lists, Size
  <2>2. \A i, j \in 1..Len(b) : i < j => rest[b[i]] < rest[b[j]]
    BY <1>6, <2>1 DEF b
  <2>3. QED BY <1>2, <2>1, <2>2, ListedAscending
<1>8. ASSUME NEW i \in 1..Len(short)
      PROVE  /\ short[i] \in DOMAIN rest
             /\ rest[short[i]] = IF i < k THEN i - 1 ELSE i
  <2>1. Len(short) \in Nat /\ i \in 1..(Len(a) - 1) /\ k \in Nat
    BY <1>1, <1>3, <1>5
  <2>2. CASE i < k
    <3>1. i \in 1..Len(a) /\ i # k
      BY <1>1, <2>1, <2>2
    <3>2. short[i] = a[i] /\ a[i] \in DOMAIN d.pos /\ a[i] # id /\ d.pos[a[i]] = i - 1
      BY <1>1, <1>3, <1>5, <2>1, <2>2, <3>1 DEF Lists
    <3>3. QED BY <1>6, <2>2, <3>2
  <2>3. CASE ~(i < k)
    <3>1. i + 1 \in 1..Len(a) /\ i + 1 # k /\ (i + 1) - 1 = i
      BY <1>1, <2>1, <2>3
    <3>2. short[i] = a[i + 1] /\ a[i + 1] \in DOMAIN d.pos /\ a[i + 1] # id
      BY <1>1, <1>3, <1>5, <2>1, <2>3, <3>1 DEF Lists
    <3>3. d.pos[a[i + 1]] = i
      BY <1>1, <3>1
    <3>4. QED BY <1>6, <2>3, <3>2, <3>3
  <2>4. QED BY <2>2, <2>3
<1>9. short \in Ordered(rest)
  <2>1. Len(short) = Size(rest)
    BY <1>1, <1>5, <1>6 DEF Lists
  <2>2. \A i, j \in 1..Len(short) : i < j => rest[short[i]] < rest[short[j]]
    <3>1. TAKE i, j \in 1..Len(short)
    <3>2. Len(short) \in Nat /\ k \in Nat
      BY <1>3, <1>5
    <3>3. QED BY <1>8, <3>2
  <2>3. QED BY <1>5, <1>8, <2>1, <2>2, ListedAscending
<1>10. short = b
  BY <1>6, <1>7, <1>9, OrderedUnique
<1> DEFINE e == DeleteRow(Seen(d), id)
<1>11. /\ e \in DbType /\ e.order = b /\ e.st = w.st /\ SameColumns(e, d)
  <2> DEFINE st == [Seen(d).st EXCEPT ![id] = "deleted"]
  <2>1. e = [Seen(d) EXCEPT !.order = short, !.st = st]
    BY <1>1 DEF DeleteRow, short, k
  <2>2. st = w.st /\ st \in [Ids -> RowStatus \cup {"absent", "deleted"}]
    BY <1>1 DEF DbType
  <2> HIDE DEF st, e
  <2>3. short \in Seq(Ids) /\ Seen(d) \in DbType
    BY <1>1, <1>5
  <2>4. /\ e \in DbType /\ e.order = short /\ e.st = st /\ SameColumns(e, Seen(d))
    <3>1. e \in DbType
      BY <2>1, <2>2, <2>3 DEF DbType
    <3>2. e.order = short /\ e.st = st /\ SameColumns(e, Seen(d))
      BY <2>1, <2>3 DEF DbType, SameColumns
    <3>3. QED BY <3>1, <3>2
  <2>5. QED BY <1>1, <1>10, <2>2, <2>4 DEF SameColumns
<1> HIDE DEF e
<1>12. Seen(w) = e
  <2>1. SameColumns(w, e) /\ OrderOf(w.pos) = e.order
    BY <1>11 DEF SameColumns, b
  <2>2. QED BY <1>11, <2>1, SeenIs
<1>13. QED BY <1>12 DEF e
\* A compacted deletion is one of the edits that delete.
LEMMA ThinnedIsEdit ==
  ASSUME NEW d, Kept(d), Tabled(d), NEW w, Kept(w), SameColumns(w, d),
         NEW op \in {"remove", "finish", "skip", "clear"}, NEW id,
         Thinned(w, d, op, id),
         \A i, j \in 1..Len(OrderOf(w.pos)) :
           i < j => d.pos[OrderOf(w.pos)[i]] < d.pos[OrderOf(w.pos)[j]]
  PROVE  /\ op = "finish" => Edited(Seen(d), Bump(Cleared(Seen(w), "idle")))
         /\ op # "finish" => Edited(Seen(d), Bump(Seen(w)))
<1> DEFINE gone == Gone(d, op, id)
<1>1. /\ DOMAIN d.pos \subseteq Ids /\ Apart(d.pos) /\ PositionsOK(d.pos)
      /\ d.st \in [Ids -> RowStatus \cup {"absent", "deleted"}]
  BY PositionsOKProperties DEF Kept, DiskOK, Numbered
<1>2. /\ Seen(d).order = OrderOf(d.pos) /\ Seen(d).st = d.st
      /\ OrderOf(d.pos) \in Seq(Ids) /\ Lists(OrderOf(d.pos), d.pos)
      /\ \A i \in 1..Len(OrderOf(d.pos)) : d.pos[OrderOf(d.pos)[i]] = i - 1
      /\ Seen(d) \in DbType /\ SameColumns(Seen(d), d)
  BY SeenProperties
<1>3. ASSUME op # "clear"
      PROVE  \E p \in DOMAIN d.pos : p \in gone /\ DeleteRow(Seen(d), p) = Seen(w)
  <2>1. PICK p \in DOMAIN d.pos : p \in gone
    BY <1>3 DEF Thinned, Gone
  <2>2. gone = {p}
    <3>1. ASSUME NEW q \in gone PROVE q = p
      <4>1. CASE op = "skip"
        BY <1>1, <2>1, <3>1, <4>1 DEF Gone, Apart
      <4>2. CASE op \in {"remove", "finish"}
        BY <2>1, <3>1, <4>2 DEF Gone
      <4>3. QED BY <1>3, <4>1, <4>2
    <3>2. QED BY <2>1, <3>1
  <2>3. DOMAIN w.pos = DOMAIN d.pos \ {p}
    BY <2>2 DEF Thinned
  <2>4. w.st = [d.st EXCEPT ![p] = "deleted"]
    <3>1. w.st = [q \in Ids |-> IF q \in {p} THEN "deleted" ELSE d.st[q]]
      BY <2>2 DEF Thinned
    <3>2. QED BY <1>1, <3>1
  <2>5. QED BY <2>1, <2>3, <2>4, RowDeleted
<1>4. CASE op \in {"remove", "finish"}
  <2>1. PICK p \in DOMAIN d.pos : p \in gone /\ DeleteRow(Seen(d), p) = Seen(w)
    BY <1>3, <1>4
  <2>2. p \in Ids /\ Seen(d).st[p] \in RowStatus
    BY <1>1, <1>2 DEF Tabled
  <2>3. CASE op = "remove"
    <3>1. RemoveItemOK(Seen(d), p) /\ Bump(Seen(w)) = RemoveItem(Seen(d), p)
      BY <2>1, <2>2 DEF RemoveItemOK, RemoveItem
    <3>2. QED BY <2>2, <2>3, <3>1 DEF Edited
  <2>4. CASE op = "finish"
    <3>1. FinishCurrentOK(Seen(d), p)
      BY <1>2, <2>1, <2>4 DEF FinishCurrentOK, Gone
    <3>2. Bump(Cleared(Seen(w), "idle")) = FinishCurrent(Seen(d), p, FALSE)
      BY <2>1 DEF FinishCurrent
    <3>3. QED BY <2>2, <2>4, <3>1, <3>2 DEF Edited
  <2>5. QED BY <1>4, <2>3, <2>4
<1>5. CASE op = "skip"
  <2>1. PICK p \in DOMAIN d.pos : p \in gone /\ DeleteRow(Seen(d), p) = Seen(w)
    BY <1>3, <1>5
  <2>2. d.pos[p] = 0
    BY <1>5, <2>1 DEF Gone
  <2>3. PICK i \in 1..Len(OrderOf(d.pos)) : OrderOf(d.pos)[i] = p
    BY <1>2 DEF Lists
  <2>4. i - 1 = 0
    BY <1>2, <2>2, <2>3
  <2>5. Seen(d).order[1] = p /\ Seen(d).order # <<>>
    BY <1>2, <2>3, <2>4
  <2>6. SkipOK(Seen(d)) /\ Bump(Seen(w)) = Skip(Seen(d))
    BY <2>1, <2>5 DEF SkipOK, Skip
  <2>7. QED BY <1>5, <2>6 DEF Edited
<1>6. CASE op = "clear"
  <2>1. gone = DOMAIN d.pos
    BY <1>6 DEF Gone
  <2> DEFINE st == [q \in Ids |-> IF q \in DOMAIN d.pos THEN "deleted" ELSE d.st[q]]
             e == [Seen(d) EXCEPT !.order = <<>>, !.st = st]
  <2>2. DOMAIN w.pos = {} /\ w.st = st
    BY <2>1 DEF Thinned
  <2>3. OrderOf(w.pos) = <<>>
    <3>1. Size(w.pos) = 0
      BY <2>2, FS_EmptySet DEF Size
    <3>2. OrderOf(w.pos) \in Seq(Ids) /\ Len(OrderOf(w.pos)) = 0
      BY <3>1, SeenProperties DEF Lists
    <3>3. QED BY <3>2, EmptySeq
  <2>4. st = [q \in Ids |-> IF Seen(d).st[q] \in RowStatus THEN "deleted"
                                                        ELSE Seen(d).st[q]]
    BY <1>2 DEF Tabled
  <2>5. st \in [Ids -> RowStatus \cup {"absent", "deleted"}]
    BY <1>1
  <2>6. Clear(Seen(d)) = Bump(e)
    BY <2>4 DEF Clear
  <2> HIDE DEF st
  <2>7. e \in DbType /\ e.order = <<>> /\ e.st = st /\ SameColumns(e, Seen(d))
    <3>1. <<>> \in Seq(Ids)
      BY EmptySeq
    <3>2. e \in DbType
      BY <1>2, <2>5, <3>1 DEF DbType
    <3>3. e.order = <<>> /\ e.st = st /\ SameColumns(e, Seen(d))
      BY <1>2 DEF DbType, SameColumns
    <3>4. QED BY <3>2, <3>3
  <2> HIDE DEF e
  <2>8. Seen(w) = e
    <3>1. SameColumns(w, e)
      BY <1>2, <2>7 DEF SameColumns
    <3>2. QED BY <2>2, <2>3, <2>7, <3>1, SeenIs
  <2>9. Bump(Seen(w)) = Clear(Seen(d))
    BY <2>6, <2>8
  <2>10. QED BY <1>6, <2>9 DEF Edited
<1>7. QED BY <1>4, <1>5, <1>6

\* The row that Insert adds is the last of the list.
LEMMA InsertedIsEdit ==
  ASSUME NEW d, Kept(d), Tabled(d), NEW w, Kept(w), SameColumns(w, d),
         NEW id \in Ids, d.st[id] = "absent", Size(d.pos) < QueueLimit,
         \A p \in DOMAIN d.pos : UrlOf[p] # UrlOf[id],
         DOMAIN w.pos = DOMAIN d.pos \cup {id},
         \A p \in DOMAIN d.pos : w.pos[p] = d.pos[p],
         w.pos[id] = Size(d.pos),
         w.st = [d.st EXCEPT ![id] = "queued"]
  PROVE  Edited(Seen(d), Bump(Seen(w)))
<1> DEFINE a == OrderOf(d.pos)
           n == Len(a)
           b == Append(a, id)
           e == [Seen(d) EXCEPT !.order = b, !.st = w.st]
<1>1. /\ Seen(d).order = a /\ Seen(d).st = d.st
      /\ a \in Seq(Ids) /\ Lists(a, d.pos)
      /\ \A i \in 1..n : d.pos[a[i]] = i - 1
      /\ Seen(d) \in DbType /\ SameColumns(Seen(d), d)
      /\ Listed(Seen(d)) = DOMAIN d.pos
  BY SeenProperties
<1>2. n \in Nat /\ n = Size(d.pos)
  BY <1>1 DEF Lists
<1>3. id \notin DOMAIN d.pos
  BY DEF Tabled, RowStatus
<1>4. /\ b \in Seq(Ids) /\ Len(b) = n + 1 /\ b[n + 1] = id
      /\ \A i \in 1..n : b[i] = a[i]
  BY <1>1, AppendProperties
<1> HIDE DEF a, b
<1>5. PositionsOK(w.pos) /\ IsFiniteSet(DOMAIN w.pos)
  BY DEF Kept, DiskOK
<1>6. Size(w.pos) = n + 1
  BY <1>2, <1>3, FS_AddElement DEF Size, Kept
<1>7. \A i \in 1..n : a[i] \in DOMAIN d.pos
  BY <1>1 DEF Lists
<1>8. ASSUME NEW i \in 1..Len(b)
      PROVE  b[i] \in DOMAIN w.pos /\ w.pos[b[i]] = i - 1
  <2>1. CASE i \in 1..n
    BY <1>1, <1>4, <1>7, <2>1
  <2>2. CASE i = n + 1
    BY <1>2, <1>4, <2>2
  <2>3. QED BY <1>2, <1>4, <2>1, <2>2
<1>9. \A i, j \in 1..Len(b) : b[i] = b[j] => i = j
  <2>1. TAKE i, j \in 1..Len(b)
  <2>2. i - 1 = j - 1 => i = j
    OBVIOUS
  <2>3. QED BY <1>8, <2>2
<1>10. Lists(b, w.pos)
  <2>1. Len(b) = Size(w.pos) /\ \A i \in 1..Len(b) : b[i] \in DOMAIN w.pos
    BY <1>4, <1>6, <1>8
  <2>2. QED BY <1>4, <1>5, <1>9, <2>1, ListsAll
<1>11. OrderOf(w.pos) = b
  <2>1. \A i \in 1..Len(b) : w.pos[b[i]] = i - 1
    BY <1>8
  <2>2. QED BY <1>4, <1>5, <1>10, <2>1, NumberedOrder
<1>12. e \in DbType /\ e.order = b /\ e.st = w.st /\ SameColumns(e, Seen(d))
  <2>1. w.st \in [Ids -> RowStatus \cup {"absent", "deleted"}]
    BY DEF Kept, DiskOK
  <2>2. e \in DbType
    BY <1>1, <1>4, <2>1 DEF DbType
  <2>3. e.order = b /\ e.st = w.st /\ SameColumns(e, Seen(d))
    BY <1>1 DEF DbType, SameColumns
  <2>4. QED BY <2>2, <2>3
<1>13. AddItem(Seen(d), id) = Bump(e)
  <2>1. w.st = [Seen(d).st EXCEPT ![id] = "queued"]
    BY <1>1
  <2>2. e = [Seen(d) EXCEPT !.order = Append(@, id), !.st[id] = "queued"]
    BY <1>1, <2>1 DEF b
  <2> HIDE DEF e
  <2>3. QED BY <2>2 DEF AddItem
<1> HIDE DEF e
<1>14. Seen(w) = e
  <2>1. SameColumns(w, e)
    BY <1>1, <1>12 DEF SameColumns
  <2>2. QED BY <1>11, <1>12, <2>1, SeenIs
<1>15. AddItemOK(Seen(d), id, QueueLimit)
  BY <1>1, <1>2 DEF AddItemOK
<1>16. QED BY <1>13, <1>14, <1>15 DEF Edited

\* Rows that now stand in the order of ids are reordered.
LEMMA ReplacedIsEdit ==
  ASSUME NEW d, Kept(d), Tabled(d), NEW w, Kept(w), SameColumns(w, d),
         DOMAIN w.pos = DOMAIN d.pos, w.st = d.st,
         NEW ids \in Seq(Ids), Lists(ids, w.pos),
         \A i \in 1..Len(ids) : w.pos[ids[i]] = i - 1
  PROVE  Edited(Seen(d), Bump(Seen(w)))
<1> DEFINE e == [Seen(d) EXCEPT !.order = ids]
<1>1. /\ Seen(d).order \in Seq(Ids) /\ Len(Seen(d).order) = Size(d.pos)
      /\ Seen(d).st = d.st
      /\ Seen(d) \in DbType /\ SameColumns(Seen(d), d)
  BY SeenProperties DEF Lists
<1>2. OrderOf(w.pos) = ids
  BY NumberedOrder DEF Kept, DiskOK
<1>3. e \in DbType /\ e.order = ids /\ e.st = d.st /\ SameColumns(e, Seen(d))
  <2>1. e \in DbType
    BY <1>1 DEF DbType
  <2>2. e.order = ids /\ e.st = d.st /\ SameColumns(e, Seen(d))
    BY <1>1 DEF DbType, SameColumns
  <2>3. QED BY <2>1, <2>2
<1>4. Reorder(Seen(d), ids) = Bump(e)
  BY DEF Reorder
<1> HIDE DEF e
<1>5. Seen(w) = e
  <2>1. SameColumns(w, e)
    BY <1>1, <1>3 DEF SameColumns
  <2>2. QED BY <1>2, <1>3, <2>1, SeenIs
<1>6. Len(ids) = Len(Seen(d).order) /\ DOMAIN ids = 1..Len(ids)
  BY <1>1 DEF Lists, Size
<1>7. \A i, j \in DOMAIN ids : ids[i] = ids[j] => i = j
  BY <1>6 DEF Lists
<1>8. \A i \in DOMAIN ids : ids[i] \in Ids /\ ids[i] \in DOMAIN d.pos
  BY <1>6 DEF Lists
<1>9. ReorderOK(Seen(d), ids)
  BY <1>1, <1>6, <1>7, <1>8 DEF ReorderOK, Tabled
<1>10. ids \in [DOMAIN Seen(d).order -> Ids]
  BY <1>1, <1>6
<1>11. QED BY <1>4, <1>5, <1>9, <1>10 DEF Edited

Watched == RowsInvariant /\ TracksInvariant

\* The parts of the invariants that every statement starts from.
LEMMA WatchedProperties ==
  ASSUME Watched
  PROVE  /\ TxOK(tx) /\ DiskOK(tx.work) /\ PositionsOK(tx.work.pos) /\ Kept(disk)
         /\ IsFiniteSet(DOMAIN tx.work.pos)
         /\ Tabled(disk) /\ Tabled(tx.work) /\ TracksAt(disk, tx)
BY DEF Watched, RowsInvariant, BaseInvariant, RowsTypeOK, TracksInvariant, TxOK, DiskOK,
       Kept

\* A statement that did write its positions.
LEMMA Written ==
  ASSUME TxOK(tx), NEW next, TxOK(next), NEW pos, Write(pos, next), tx'.pc # "clash"
  PROVE  /\ tx'.op = next.op /\ tx'.pc = next.pc /\ tx'.id = next.id
         /\ tx'.ids = next.ids /\ tx'.at = next.at
         /\ tx'.work.pos = pos /\ tx'.work.st = next.work.st
         /\ SameColumns(tx'.work, next.work)
<1>1. tx' = [next EXCEPT !.work.pos = pos]
  BY DEF Write, TxOK
<1>2. QED BY <1>1 DEF TxOK, DiskOK, SameColumns

LEMMA NotClashed == RowsInvariant' => tx'.pc # "clash" /\ TxOK(tx')
BY DEF RowsInvariant, RowsAt, BaseInvariant, RowsTypeOK

\* The rows of an addition, or of all that a loop has gone through.
LEMMA NumberedAtBump ==
  ASSUME RowsInvariant', tx'.pc \in {"bump", "commit"},
         tx'.op = "add" \/ Len(tx'.ids) = Size(tx'.work.pos)
  PROVE  Numbered(tx'.work.pos)
<1>1. RowsAt(tx.work.pos, tx.pc, tx.op, tx.ids, tx.at)'
  BY DEF RowsInvariant
<1>2. QED BY <1>1 DEF RowsAt, Size, Numbered, Apart

\* Statements that only move rows: deletions and reorderings stay what they are.
LEMMA MoveTracks ==
  ASSUME Watched, UNCHANGED disk, tx.pc \in {"negate", "number", "place"},
         tx'.pc \in {tx.pc, "number"}, tx.pc = "place" => tx'.pc = "place",
         tx'.op = tx.op, tx'.id = tx.id, tx'.ids = tx.ids,
         DOMAIN tx'.work.pos = DOMAIN tx.work.pos, tx'.work.st = tx.work.st,
         SameColumns(tx'.work, tx.work)
  PROVE  TracksInvariant'
<1>1. SameColumns(tx'.work, disk)
  BY WatchedProperties DEF TracksAt, SameColumns
<1>2. CASE tx.pc \in {"negate", "number"}
  <2>1. tx'.pc = "number" \/ tx'.pc = "negate"
    BY <1>2
  <2>2. /\ tx.op \in {"remove", "finish", "skip", "clear"}
        /\ Thinned(tx.work, disk, tx.op, tx.id)
        /\ \A i, j \in 1..Len(tx.ids) : i < j => disk.pos[tx.ids[i]] < disk.pos[tx.ids[j]]
    BY <1>2, WatchedProperties DEF TracksAt
  <2>3. Thinned(tx'.work, disk, tx.op, tx.id)
    BY <2>2 DEF Thinned
  <2>4. TracksAt(disk, tx')
    BY <1>1, <2>1, <2>2, <2>3 DEF TracksAt
  <2>5. QED BY <2>4 DEF TracksInvariant
<1>3. CASE tx.pc = "place"
  <2>1. /\ DOMAIN tx.work.pos = DOMAIN disk.pos /\ tx.work.st = disk.st
        /\ tx.op # "finish"
    BY <1>3, WatchedProperties DEF TracksAt
  <2>2. TracksAt(disk, tx')
    BY <1>1, <1>3, <2>1 DEF TracksAt
  <2>3. QED BY <2>2 DEF TracksInvariant
<1>4. QED BY <1>2, <1>3

LEMMA BeginTracks ==
  ASSUME Watched,
         NEW op \in {"add", "remove", "finish", "skip", "clear", "reorder"},
         NEW pc \in {"insert", "delete", "count"}, NEW id, NEW ids,
         Begin(op, pc, id, ids),
         pc = "insert" => op # "finish" /\ disk.st[id] = "absent",
         pc = "delete" => /\ op \in {"remove", "finish", "skip", "clear"}
                          /\ op \in {"remove", "finish"} => id \in Ids,
         pc = "count" => op # "finish"
  PROVE  TracksInvariant'
<1>1. /\ tx' = [op |-> op, pc |-> pc, id |-> id, ids |-> ids, at |-> 0, work |-> disk]
      /\ disk' = disk
  BY DEF Begin
<1>2. TracksAt(disk, tx')
  BY <1>1 DEF TracksAt
<1>3. QED BY <1>1, <1>2 DEF TracksInvariant

LEMMA InsertTracks ==
  ASSUME Watched, RowsInvariant', Insert
  PROVE  TracksInvariant'
<1> DEFINE n == Size(disk.pos)
           position == IF DOMAIN disk.pos = {} THEN 0
                       ELSE Max({disk.pos[p] : p \in DOMAIN disk.pos}) + 1
           new == [p \in DOMAIN disk.pos \cup {tx.id} |->
                     IF p = tx.id THEN n ELSE disk.pos[p]]
           next == [Goto("bump") EXCEPT !.work.st[tx.id] = "queued"]
<1>1. /\ tx.pc = "insert" /\ disk' = disk /\ tx.id \in Ids /\ TxOK(tx) /\ Kept(disk)
      /\ tx.op # "finish" /\ tx.work = disk /\ disk.st[tx.id] = "absent"
      /\ Tabled(disk)
  BY WatchedProperties DEF Insert, At, Watched, RowsInvariant, BaseInvariant, TracksAt
<1>2. position = n
  BY <1>1, NextPosition DEF Kept
<1> HIDE DEF position
<1>3. /\ n < QueueLimit
      /\ \A p \in DOMAIN disk.pos : UrlOf[p] # UrlOf[tx.id]
      /\ Write(new, next)
  BY <1>1, <1>2 DEF Insert, Size, position
<1>4. /\ TxOK(next) /\ next.pc = "bump" /\ next.op = tx.op
      /\ next.work.st = [disk.st EXCEPT ![tx.id] = "queued"]
      /\ SameColumns(next.work, disk)
  BY <1>1 DEF Goto, TxOK, DiskOK, RowStatus, SameColumns
<1>5. tx.id \notin DOMAIN disk.pos
  BY <1>1 DEF Tabled, RowStatus
<1>6. /\ DOMAIN new = DOMAIN disk.pos \cup {tx.id}
      /\ \A p \in DOMAIN disk.pos : new[p] = disk.pos[p]
      /\ new[tx.id] = n
  BY <1>5
<1> HIDE DEF next, new, n
<1>7. /\ tx'.pc = "bump" /\ tx'.op = tx.op /\ tx'.work.pos = new
      /\ tx'.work.st = [disk.st EXCEPT ![tx.id] = "queued"]
      /\ SameColumns(tx'.work, disk)
  BY <1>1, <1>3, <1>4, NotClashed, Written DEF SameColumns
<1>8. Kept(tx'.work)
  <2>1. tx.op = "add"
    BY <1>1, BaseProperties DEF Watched, RowsInvariant, MendedAt
  <2>2. Numbered(tx'.work.pos)
    BY <1>7, <2>1, NumberedAtBump
  <2>3. QED BY <1>7, <2>2 DEF RowsInvariant, BaseInvariant, RowsTypeOK, TxOK, Kept
<1>9. Edited(Seen(disk), Bump(Seen(tx'.work)))
  BY <1>1, <1>3, <1>6, <1>7, <1>8, InsertedIsEdit DEF n
<1>10. TracksAt(disk, tx')
  BY <1>1, <1>7, <1>8, <1>9 DEF TracksAt
<1>11. QED BY <1>1, <1>10 DEF TracksInvariant

LEMMA DeleteTracks ==
  ASSUME Watched, RowsInvariant', Delete
  PROVE  TracksInvariant'
<1> DEFINE st == [p \in Ids |-> IF p \in Doomed THEN "deleted" ELSE disk.st[p]]
           new == [p \in DOMAIN disk.pos \ Doomed |-> disk.pos[p]]
<1>1. /\ tx.pc = "delete" /\ disk' = disk /\ TxOK(tx) /\ Kept(disk) /\ tx.work = disk
      /\ tx.op \in {"remove", "finish", "skip", "clear"}
      /\ tx.op \in {"remove", "finish"} => tx.id \in Ids
      /\ Tabled(disk)
  BY WatchedProperties DEF Delete, At, TracksAt
<1>2. Doomed = Gone(disk, tx.op, tx.id)
  BY <1>1 DEF Doomed, Gone
<1>3. Doomed # {} \/ tx.op = "clear"
  BY DEF Delete
<1>4. tx' = [Goto("list") EXCEPT !.work.pos = new, !.work.st = st]
  <2>1. Goto("list").work = disk
    BY <1>1 DEF Goto, TxOK
  <2>2. QED BY <2>1 DEF Delete
<1>5. DOMAIN new = DOMAIN disk.pos \ Doomed /\ \A p \in DOMAIN new : new[p] = disk.pos[p]
  OBVIOUS
<1> HIDE DEF new
<1> HIDE DEF st
<1>6. /\ tx'.pc = "list" /\ tx'.op = tx.op /\ tx'.id = tx.id
      /\ tx'.work.pos = new /\ tx'.work.st = st /\ SameColumns(tx'.work, disk)
  BY <1>1, <1>4 DEF Goto, TxOK, DiskOK, SameColumns
<1>7. Thinned(tx'.work, disk, tx.op, tx.id)
  BY <1>1, <1>2, <1>3, <1>5, <1>6 DEF Thinned, st
<1>8. TracksAt(disk, tx')
  BY <1>1, <1>5, <1>6, <1>7 DEF TracksAt
<1>9. QED BY <1>1, <1>8 DEF TracksInvariant

LEMMA ListTracks ==
  ASSUME Watched, List
  PROVE  TracksInvariant'
<1>1. /\ tx.pc = "list" /\ disk' = disk /\ tx'.pc = "negate" /\ tx'.op = tx.op
      /\ tx'.id = tx.id /\ tx'.work = tx.work /\ Listing(tx'.ids, tx.work.pos)
      /\ \A i, j \in 1..Len(tx'.ids) :
           i < j => tx.work.pos[tx'.ids[i]] < tx.work.pos[tx'.ids[j]]
  BY ListRead DEF Watched, RowsInvariant
<1>2. /\ tx.op \in {"remove", "finish", "skip", "clear"}
      /\ SameColumns(tx.work, disk) /\ Thinned(tx.work, disk, tx.op, tx.id)
      /\ \A p \in DOMAIN tx.work.pos : tx.work.pos[p] = disk.pos[p]
  BY <1>1, WatchedProperties DEF TracksAt
<1>3. \A i, j \in 1..Len(tx'.ids) : i < j => disk.pos[tx'.ids[i]] < disk.pos[tx'.ids[j]]
  BY <1>1, <1>2 DEF Listing
<1>4. TracksAt(disk, tx')
  BY <1>1, <1>2, <1>3 DEF TracksAt
<1>5. QED BY <1>1, <1>4 DEF TracksInvariant

LEMMA NegateTracks ==
  ASSUME Watched, RowsInvariant', Negate
  PROVE  TracksInvariant'
<1>1. tx.pc = "negate" /\ disk' = disk /\ TxOK(tx)
  BY WatchedProperties DEF Negate, At
<1>2. /\ TxOK(Goto("number")) /\ Goto("number").pc = "number"
      /\ Goto("number").op = tx.op /\ Goto("number").id = tx.id
      /\ Goto("number").ids = tx.ids /\ Goto("number").work = tx.work
  BY <1>1 DEF Goto, TxOK
<1> DEFINE new == Negated(tx.work.pos)
<1>3. DOMAIN new = DOMAIN tx.work.pos
  BY DEF Negated
<1>4. Write(new, Goto("number"))
  BY DEF Negate
<1> HIDE DEF new
<1>5. /\ tx'.pc = "number" /\ tx'.op = tx.op /\ tx'.id = tx.id /\ tx'.ids = tx.ids
      /\ DOMAIN tx'.work.pos = DOMAIN tx.work.pos
      /\ tx'.work.st = tx.work.st /\ SameColumns(tx'.work, tx.work)
  BY <1>1, <1>2, <1>3, <1>4, NotClashed, Written
<1>6. QED BY <1>1, <1>5, MoveTracks

\* A step of one of the two loops.
LEMMA LoopTracks ==
  ASSUME Watched, RowsInvariant', UNCHANGED disk, tx.pc \in {"number", "place"},
         NEW p, NEW v, Write([tx.work.pos EXCEPT ![p] = v], [tx EXCEPT !.at = @ + 1])
  PROVE  TracksInvariant'
<1> DEFINE new == [tx.work.pos EXCEPT ![p] = v]
           next == [tx EXCEPT !.at = @ + 1]
<1>1. TxOK(tx)
  BY WatchedProperties
<1>2. /\ TxOK(next) /\ next.pc = tx.pc /\ next.op = tx.op /\ next.id = tx.id
      /\ next.ids = tx.ids /\ next.work = tx.work
  <2>1. TxOK(next)
    BY <1>1, AdvanceOK
  <2>2. QED BY <1>1, <2>1 DEF TxOK
<1>3. DOMAIN new = DOMAIN tx.work.pos
  OBVIOUS
<1> HIDE DEF new, next
<1>4. Write(new, next)
  BY DEF new, next
<1>5. /\ tx'.pc = tx.pc /\ tx'.op = tx.op /\ tx'.id = tx.id /\ tx'.ids = tx.ids
      /\ DOMAIN tx'.work.pos = DOMAIN tx.work.pos
      /\ tx'.work.st = tx.work.st /\ SameColumns(tx'.work, tx.work)
  BY <1>1, <1>2, <1>3, <1>4, NotClashed, Written
<1>6. QED BY <1>5, MoveTracks

LEMMA CountTracks ==
  ASSUME Watched, Count
  PROVE  TracksInvariant'
<1>1. /\ tx.pc = "count" /\ disk' = disk /\ TxOK(tx) /\ tx.work = disk
      /\ tx.op # "finish" /\ Tabled(disk)
  BY WatchedProperties DEF Count, At, TracksAt
<1>2. tx'.pc = "place" /\ tx'.op = tx.op /\ tx'.work = disk
  BY <1>1 DEF Count, Goto, TxOK
<1>3. TracksAt(disk, tx')
  BY <1>1, <1>2 DEF TracksAt, SameColumns
<1>4. QED BY <1>1, <1>3 DEF TracksInvariant

LEMMA FlipTracks ==
  ASSUME Watched, RowsInvariant', Flip
  PROVE  TracksInvariant'
<1> DEFINE pos == tx.work.pos
           new == Negated(pos)
           ids == tx.ids
<1>1. /\ tx.pc = "place" /\ disk' = disk /\ TxOK(tx) /\ tx.at = Len(ids)
      /\ Kept(disk) /\ Tabled(disk) /\ tx.op # "finish"
      /\ SameColumns(tx.work, disk) /\ DOMAIN pos = DOMAIN disk.pos /\ tx.work.st = disk.st
      /\ ids \in Seq(Ids)
  BY WatchedProperties DEF Flip, At, TracksAt, TxOK
<1>2. /\ \A i, j \in 1..Len(ids) : ids[i] = ids[j] => i = j
      /\ Len(ids) = Size(pos)
      /\ \A i \in 1..Len(ids) : ids[i] \in DOMAIN pos /\ pos[ids[i]] = -i
  BY <1>1, BaseProperties DEF Watched, RowsInvariant, MendedAt
<1>3. /\ TxOK(Goto("bump")) /\ Goto("bump").pc = "bump"
      /\ Goto("bump").op = tx.op /\ Goto("bump").work = tx.work
      /\ Goto("bump").ids = tx.ids
  BY <1>1 DEF Goto, TxOK
<1>4. DOMAIN new = DOMAIN pos /\ \A p \in DOMAIN pos : new[p] = -pos[p] - 1
  BY DEF Negated
<1>5. Write(new, Goto("bump"))
  BY DEF Flip
<1> HIDE DEF new
<1>6. /\ tx'.pc = "bump" /\ tx'.op = tx.op /\ tx'.work.pos = new /\ tx'.ids = tx.ids
      /\ tx'.work.st = disk.st /\ SameColumns(tx'.work, disk)
  BY <1>1, <1>3, <1>5, NotClashed, Written DEF SameColumns
<1>7. Kept(tx'.work)
  <2>1. Len(tx'.ids) = Size(tx'.work.pos)
    BY <1>2, <1>4, <1>6 DEF Size
  <2>2. Numbered(tx'.work.pos)
    BY <1>6, <2>1, NumberedAtBump
  <2>3. QED BY <1>6, <2>2 DEF RowsInvariant, BaseInvariant, RowsTypeOK, TxOK, Kept
<1>8. ASSUME NEW i \in 1..Len(ids) PROVE new[ids[i]] = i - 1
  <2>1. new[ids[i]] = -(-i) - 1
    BY <1>2, <1>4
  <2>2. QED BY <2>1
<1>9. Lists(ids, new)
  <2>1. Len(ids) = Size(new) /\ IsFiniteSet(DOMAIN new)
    BY <1>2, <1>4, WatchedProperties DEF Size
  <2>2. \A i \in 1..Len(ids) : ids[i] \in DOMAIN new
    BY <1>2, <1>4
  <2> HIDE DEF ids
  <2>3. QED BY <1>1, <1>2, <2>1, <2>2, ListsAll
<1>10. Edited(Seen(disk), Bump(Seen(tx'.work)))
  <2>1. DOMAIN tx'.work.pos = DOMAIN disk.pos
    BY <1>1, <1>4, <1>6
  <2> HIDE DEF ids, pos
  <2>2. QED BY <1>1, <1>6, <1>7, <1>8, <1>9, <2>1, ReplacedIsEdit
<1>11. TracksAt(disk, tx')
  BY <1>1, <1>6, <1>7, <1>10 DEF TracksAt
<1>12. QED BY <1>1, <1>11 DEF TracksInvariant

LEMMA ReviseTracks ==
  ASSUME Watched, RowsInvariant', Revise
  PROVE  TracksInvariant'
<1> DEFINE work == IF tx.op = "finish" THEN Bump(Cleared(tx.work, "idle"))
                   ELSE Bump(tx.work)
<1>1. /\ tx.pc \in {"bump", "number"} /\ disk' = disk /\ TxOK(tx)
      /\ Kept(disk) /\ Tabled(disk) /\ Tabled(tx.work) /\ DiskOK(tx.work)
  BY WatchedProperties DEF Revise, At
<1>2. /\ tx'.pc = "commit" /\ tx'.work = work /\ tx'.op = tx.op /\ tx'.ids = tx.ids
  BY <1>1 DEF Revise, Goto, TxOK
<1>3. work.pos = tx.work.pos /\ work.st = tx.work.st
  <2>1. Bump(tx.work).pos = tx.work.pos /\ Bump(tx.work).st = tx.work.st
    BY <1>1 DEF DiskOK, Bump
  <2>2. /\ Bump(Cleared(tx.work, "idle")).pos = tx.work.pos
        /\ Bump(Cleared(tx.work, "idle")).st = tx.work.st
    BY <1>1 DEF DiskOK, Bump, Cleared
  <2>3. QED BY <2>1, <2>2
<1> HIDE DEF work
<1>4. Kept(tx.work) => /\ Seen(Bump(tx.work)) = Bump(Seen(tx.work))
                      /\ Seen(Bump(Cleared(tx.work, "idle")))
                           = Bump(Cleared(Seen(tx.work), "idle"))
  BY SeenBump, SeenCleared
<1>5. ASSUME tx.op = "add" \/ Len(tx.ids) = Size(tx.work.pos)
      PROVE  Edited(Seen(disk), Seen(work))
  <2>1. CASE tx.pc = "bump"
    <3>1. tx.op # "finish" /\ Kept(tx.work) /\ Edited(Seen(disk), Bump(Seen(tx.work)))
      BY <2>1, WatchedProperties DEF TracksAt
    <3>2. QED BY <1>4, <3>1 DEF work
  <2>2. CASE tx.pc = "number"
    <3>1. /\ tx.op \in {"remove", "finish", "skip", "clear"}
          /\ SameColumns(tx.work, disk) /\ Thinned(tx.work, disk, tx.op, tx.id)
          /\ \A i, j \in 1..Len(tx.ids) : i < j => disk.pos[tx.ids[i]] < disk.pos[tx.ids[j]]
      BY <2>2, WatchedProperties DEF TracksAt
    <3>2. /\ tx.at = Len(tx.ids) /\ tx.ids \in Seq(Ids)
          /\ Len(tx.ids) = Size(tx.work.pos)
      BY <1>1, <1>5, <2>2, <3>1 DEF Revise, At, TxOK
    <3>3. /\ Lists(tx.ids, tx.work.pos) /\ Numbered(tx.work.pos)
          /\ \A i \in 1..Len(tx.ids) : tx.work.pos[tx.ids[i]] = i - 1
      BY <2>2, <3>2, AllNumbered DEF Watched, RowsInvariant
    <3>4. OrderOf(tx.work.pos) = tx.ids
      BY <3>2, <3>3, NumberedOrder, WatchedProperties
    <3>5. Kept(tx.work)
      BY <1>1, <3>3, WatchedProperties DEF Kept
    <3>6. /\ tx.op = "finish" => Edited(Seen(disk), Bump(Cleared(Seen(tx.work), "idle")))
          /\ tx.op # "finish" => Edited(Seen(disk), Bump(Seen(tx.work)))
      BY <1>1, <3>1, <3>4, <3>5, ThinnedIsEdit
    <3>7. QED BY <1>4, <3>5, <3>6 DEF work
  <2>3. QED BY <1>1, <2>1, <2>2
<1>6. TracksAt(disk, tx')
  BY <1>2, <1>3, <1>5 DEF TracksAt, Size
<1>7. QED BY <1>1, <1>6 DEF TracksInvariant

LEMMA CommitTracks ==
  ASSUME Watched, Commit, cutShort = FALSE, cutShort' = FALSE
  PROVE  Edited(Seen(disk), Seen(disk'))
<1>1. /\ tx.pc = "commit" /\ disk' = tx.work
      /\ cutShort' = IF tx.op = "add" THEN cutShort
                     ELSE Len(tx.ids) # Size(tx.work.pos)
  BY DEF Commit, Size
<1>2. tx.op = "add" \/ Len(tx.ids) = Size(tx.work.pos)
  BY <1>1
<1>3. Edited(Seen(disk), Seen(tx.work))
  BY <1>1, <1>2, WatchedProperties DEF TracksAt
<1>4. QED BY <1>1, <1>3

\* Nothing is open.
LEMMA EndTracks ==
  ASSUME Commit \/ Rollback
  PROVE  TracksInvariant'
<1>1. tx'.pc = "none"
  BY DEF Commit, Rollback, NoTx
<1>2. TracksAt(disk', tx')
  BY <1>1 DEF TracksAt
<1>3. QED BY <1>2 DEF TracksInvariant

\* The transactions of the controller change which rows are current or failed,
\* but not which rows there are.
SameRows(old, new) ==
  /\ new \in DbType /\ new.order = old.order
  /\ \A id \in Ids : new.st[id] \in RowStatus <=> old.st[id] \in RowStatus

LEMMA ColumnsSameRows ==
  ASSUME NEW d \in DbType
  PROVE  /\ SameRows(d, ReconcilePlayback(d))
         /\ \A id \in Ids :
              /\ SetCurrentOK(d, id) => SameRows(d, SetCurrent(d, id))
              /\ FinishCurrentOK(d, id) => SameRows(d, FinishCurrent(d, id, TRUE))
              /\ RetryCurrentOK(d, id) => SameRows(d, RetryCurrent(d, id))
<1>1. /\ d.st \in [Ids -> RowStatus \cup {"absent", "deleted"}]
      /\ Demoted(d) \in [Ids -> RowStatus \cup {"absent", "deleted"}]
      /\ \A i \in Ids : Demoted(d)[i] = IF d.st[i] = "current" THEN "queued" ELSE d.st[i]
  BY DEF DbType, Demoted, RowStatus
<1>2. SameRows(d, ReconcilePlayback(d))
  <2> DEFINE e == ReconcilePlayback(d)
  <2>1. e \in DbType /\ e.order = d.order /\ e.st = Demoted(d)
    BY <1>1 DEF DbType, ReconcilePlayback, Cleared, Statuses
  <2> HIDE DEF e
  <2>2. QED BY <1>1, <2>1 DEF SameRows, RowStatus, e
<1>3. ASSUME NEW id \in Ids, SetCurrentOK(d, id)
      PROVE  SameRows(d, SetCurrent(d, id))
  <2> DEFINE e == SetCurrent(d, id)
             st == [Demoted(d) EXCEPT ![id] = "current"]
  <2>1. st \in [Ids -> RowStatus \cup {"absent", "deleted"}]
    BY <1>1 DEF RowStatus
  <2>2. \A i \in Ids : st[i] = IF i = id THEN "current" ELSE Demoted(d)[i]
    BY <1>1
  <2> HIDE DEF st
  <2>3. e \in DbType /\ e.order = d.order /\ e.st = st
    BY <1>1, <2>1 DEF DbType, SetCurrent, Cleared, Statuses, st
  <2> HIDE DEF e
  <2>4. d.st[id] \in {"queued", "current"}
    BY <1>1, <1>3 DEF SetCurrentOK
  <2>5. QED BY <1>1, <2>2, <2>3, <2>4 DEF SameRows, RowStatus, e
<1>4. ASSUME NEW id \in Ids, NEW to \in {"failed", "queued"}, d.st[id] = "current"
      PROVE  LET st == [d.st EXCEPT ![id] = to]
             IN  /\ st \in [Ids -> RowStatus \cup {"absent", "deleted"}]
                 /\ \A i \in Ids : st[i] \in RowStatus <=> d.st[i] \in RowStatus
  BY <1>1, <1>4 DEF RowStatus
<1>5. ASSUME NEW id \in Ids, FinishCurrentOK(d, id)
      PROVE  SameRows(d, FinishCurrent(d, id, TRUE))
  <2> DEFINE e == FinishCurrent(d, id, TRUE)
             st == [d.st EXCEPT ![id] = "failed"]
  <2>1. /\ st \in [Ids -> RowStatus \cup {"absent", "deleted"}]
        /\ \A i \in Ids : st[i] \in RowStatus <=> d.st[i] \in RowStatus
    BY <1>4, <1>5 DEF FinishCurrentOK
  <2> DEFINE c == Cleared([d EXCEPT !.st = st], "idle")
  <2>2. e = Bump(c)
    BY DEF FinishCurrent
  <2> HIDE DEF st, e
  <2>3. e \in DbType /\ e.order = d.order /\ e.st = st
    <3>1. [d EXCEPT !.st = st] \in DbType
      BY <2>1 DEF DbType
    <3>2. c \in DbType
      BY <3>1 DEF DbType, Cleared, Statuses
    <3>3. c.order = d.order /\ c.st = st
      BY DEF DbType, Cleared
    <3> HIDE DEF c
    <3>4. QED BY <2>2, <3>2, <3>3 DEF DbType, Bump
  <2>4. QED BY <2>1, <2>3 DEF SameRows, e
<1>6. ASSUME NEW id \in Ids, RetryCurrentOK(d, id)
      PROVE  SameRows(d, RetryCurrent(d, id))
  <2> DEFINE e == RetryCurrent(d, id)
             st == [d.st EXCEPT ![id] = "queued"]
  <2>1. /\ st \in [Ids -> RowStatus \cup {"absent", "deleted"}]
        /\ \A i \in Ids : st[i] \in RowStatus <=> d.st[i] \in RowStatus
    BY <1>4, <1>6 DEF RetryCurrentOK
  <2>2. e = Cleared([d EXCEPT !.st = st], "retrying")
    BY DEF RetryCurrent
  <2> HIDE DEF st, e
  <2>3. e \in DbType /\ e.order = d.order /\ e.st = st
    <3>1. [d EXCEPT !.st = st] \in DbType
      BY <2>1 DEF DbType
    <3>2. e \in DbType
      BY <2>2, <3>1 DEF DbType, Cleared, Statuses
    <3>3. e.order = d.order /\ e.st = st
      BY <2>2 DEF DbType, Cleared
    <3>4. QED BY <3>2, <3>3
  <2>4. QED BY <2>1, <2>3 DEF SameRows, e
<1>7. QED BY <1>2, <1>3, <1>5, <1>6

LEMMA StoredTracks ==
  ASSUME Watched, Idle, NEW seen, SameRows(Seen(disk), seen), Stored(seen)
  PROVE  TracksInvariant' /\ Seen(disk') = seen
<1>1. Kept(disk) /\ Tabled(disk) /\ TxOK(tx) /\ tx.pc = "none"
  BY WatchedProperties DEF Idle
<1>2. /\ seen \in DbType /\ seen.order = OrderOf(disk.pos)
      /\ \A id \in Ids : seen.st[id] \in RowStatus <=> disk.st[id] \in RowStatus
  BY <1>1, SeenProperties DEF SameRows
<1>3. disk' = [pos |-> disk.pos, rev |-> seen.rev, st |-> seen.st,
               current |-> seen.current, status |-> seen.status,
               paused |-> seen.paused, buffering |-> seen.buffering,
               volume |-> seen.volume]
  BY <1>1 DEF Stored, Kept, DiskOK
<1>4. tx' = [tx EXCEPT !.work = disk']
  BY DEF Stored
<1>5. /\ disk'.pos = disk.pos /\ disk'.st = seen.st /\ SameColumns(disk', seen)
  BY <1>3 DEF SameColumns
<1>6. DiskOK(disk')
  BY <1>1, <1>2, <1>3 DEF DiskOK, Kept, DbType
<1>7. Seen(disk') = seen
  <2>1. Kept(disk')
    BY <1>1, <1>5, <1>6 DEF Kept
  <2>2. QED BY <1>2, <1>5, <2>1, SeenIs
<1>8. tx'.work = disk' /\ tx'.pc = "none"
  BY <1>1, <1>4 DEF TxOK
<1>9. TracksAt(disk', tx')
  BY <1>8 DEF TracksAt
<1>10. QED BY <1>7, <1>9 DEF TracksInvariant

\* A transaction of the controller, as QueueDb has it.
Controlled(old, new) ==
  \/ \E id \in Ids :
       \/ SetCurrentOK(old, id) /\ new = SetCurrent(old, id)
       \/ FinishCurrentOK(old, id) /\ new = FinishCurrent(old, id, TRUE)
       \/ RetryCurrentOK(old, id) /\ new = RetryCurrent(old, id)
  \/ new = ReconcilePlayback(old)

LEMMA ColumnsTracks ==
  ASSUME Watched, Columns
  PROVE  TracksInvariant' /\ Controlled(Seen(disk), Seen(disk'))
<1>1. Seen(disk) \in DbType /\ Idle
  BY WatchedProperties, SeenProperties DEF Columns
<1>2. ASSUME NEW id \in Ids, SetCurrentOK(Seen(disk), id), Stored(SetCurrent(Seen(disk), id))
      PROVE  TracksInvariant' /\ Controlled(Seen(disk), Seen(disk'))
  <2>1. SameRows(Seen(disk), SetCurrent(Seen(disk), id))
    BY <1>1, <1>2, ColumnsSameRows
  <2>2. TracksInvariant' /\ Seen(disk') = SetCurrent(Seen(disk), id)
    BY <1>1, <1>2, <2>1, StoredTracks
  <2>3. QED BY <1>2, <2>2 DEF Controlled
<1>3. ASSUME NEW id \in Ids, FinishCurrentOK(Seen(disk), id),
             Stored(FinishCurrent(Seen(disk), id, TRUE))
      PROVE  TracksInvariant' /\ Controlled(Seen(disk), Seen(disk'))
  <2>1. SameRows(Seen(disk), FinishCurrent(Seen(disk), id, TRUE))
    BY <1>1, <1>3, ColumnsSameRows
  <2>2. TracksInvariant' /\ Seen(disk') = FinishCurrent(Seen(disk), id, TRUE)
    BY <1>1, <1>3, <2>1, StoredTracks
  <2>3. QED BY <1>3, <2>2 DEF Controlled
<1>4. ASSUME NEW id \in Ids, RetryCurrentOK(Seen(disk), id),
             Stored(RetryCurrent(Seen(disk), id))
      PROVE  TracksInvariant' /\ Controlled(Seen(disk), Seen(disk'))
  <2>1. SameRows(Seen(disk), RetryCurrent(Seen(disk), id))
    BY <1>1, <1>4, ColumnsSameRows
  <2>2. TracksInvariant' /\ Seen(disk') = RetryCurrent(Seen(disk), id)
    BY <1>1, <1>4, <2>1, StoredTracks
  <2>3. QED BY <1>4, <2>2 DEF Controlled
<1>5. ASSUME Stored(ReconcilePlayback(Seen(disk)))
      PROVE  TracksInvariant' /\ Controlled(Seen(disk), Seen(disk'))
  <2>1. SameRows(Seen(disk), ReconcilePlayback(Seen(disk)))
    BY <1>1, <1>5, ColumnsSameRows
  <2>2. TracksInvariant' /\ Seen(disk') = ReconcilePlayback(Seen(disk))
    BY <1>1, <1>5, <2>1, StoredTracks
  <2>3. QED BY <1>5, <2>2 DEF Controlled
<1>6. QED BY <1>2, <1>3, <1>4, <1>5 DEF Columns

\* What a transaction writes is what the transaction of QueueDb writes.
LEMMA EditIsDbStep ==
  ASSUME Edited(Seen(disk), Seen(disk'))
  PROVE  Db!DbNext
<1>1. ASSUME NEW id \in Ids, AddItemOK(Seen(disk), id, QueueLimit),
             Seen(disk') = AddItem(Seen(disk), id)
      PROVE  Db!DbAdd(id)
  BY <1>1 DEF Db!DbAdd, Db!AddItemOK, Db!AddItem, Db!Listed, Db!Bump,
              AddItemOK, AddItem, Listed, Bump
<1>2. ASSUME NEW id \in Ids, RemoveItemOK(Seen(disk), id),
             Seen(disk') = RemoveItem(Seen(disk), id)
      PROVE  Db!DbRemove(id)
  BY <1>2 DEF Db!DbRemove, Db!RemoveItemOK, Db!RemoveItem, Db!DeleteRow, Db!RemoveAt,
              Db!PlaceOf, Db!RowStatus, Db!Bump, RemoveItemOK, RemoveItem, DeleteRow,
              RemoveAt, PlaceOf, RowStatus, Bump
<1>3. ASSUME NEW id \in Ids, FinishCurrentOK(Seen(disk), id),
             Seen(disk') = FinishCurrent(Seen(disk), id, FALSE)
      PROVE  Db!DbFinishCurrent(id, FALSE)
  BY <1>3 DEF Db!DbFinishCurrent, Db!FinishCurrentOK, Db!FinishCurrent, Db!DeleteRow,
              Db!RemoveAt, Db!PlaceOf, Db!Cleared, Db!Bump, FinishCurrentOK,
              FinishCurrent, DeleteRow, RemoveAt, PlaceOf, Cleared, Bump
<1>4. ASSUME SkipOK(Seen(disk)), Seen(disk') = Skip(Seen(disk))
      PROVE  Db!DbSkip
  BY <1>4 DEF Db!DbSkip, Db!SkipOK, Db!Skip, Db!DeleteRow, Db!RemoveAt, Db!PlaceOf,
              Db!Bump, SkipOK, Skip, DeleteRow, RemoveAt, PlaceOf, Bump
<1>5. ASSUME Seen(disk') = Clear(Seen(disk))
      PROVE  Db!DbClear
  BY <1>5 DEF Db!DbClear, Db!Clear, Db!Bump, Db!RowStatus, Clear, Bump, RowStatus
<1>6. ASSUME NEW ids \in [DOMAIN Seen(disk).order -> Ids], ReorderOK(Seen(disk), ids),
             Seen(disk') = Reorder(Seen(disk), ids)
      PROVE  Db!DbReorder(ids)
  BY <1>6 DEF Db!DbReorder, Db!ReorderOK, Db!Reorder, Db!Bump, Db!RowStatus,
              ReorderOK, Reorder, Bump, RowStatus
<1>7. QED
  BY <1>1, <1>2, <1>3, <1>4, <1>5, <1>6 DEF Edited, Db!DbNext

LEMMA ControlIsDbStep ==
  ASSUME Controlled(Seen(disk), Seen(disk'))
  PROVE  Db!DbNext
<1>1. ASSUME NEW id \in Ids, SetCurrentOK(Seen(disk), id),
             Seen(disk') = SetCurrent(Seen(disk), id)
      PROVE  Db!DbSetCurrent(id)
  BY <1>1 DEF Db!DbSetCurrent, Db!SetCurrentOK, Db!SetCurrent, Db!Cleared, Db!Demoted,
              SetCurrentOK, SetCurrent, Cleared, Demoted
<1>2. ASSUME NEW id \in Ids, FinishCurrentOK(Seen(disk), id),
             Seen(disk') = FinishCurrent(Seen(disk), id, TRUE)
      PROVE  Db!DbFinishCurrent(id, TRUE)
  BY <1>2 DEF Db!DbFinishCurrent, Db!FinishCurrentOK, Db!FinishCurrent, Db!Cleared,
              Db!Bump, FinishCurrentOK, FinishCurrent, Cleared, Bump
<1>3. ASSUME NEW id \in Ids, RetryCurrentOK(Seen(disk), id),
             Seen(disk') = RetryCurrent(Seen(disk), id)
      PROVE  Db!DbRetryCurrent(id)
  BY <1>3 DEF Db!DbRetryCurrent, Db!RetryCurrentOK, Db!RetryCurrent, Db!Cleared,
              RetryCurrentOK, RetryCurrent, Cleared
<1>4. ASSUME Seen(disk') = ReconcilePlayback(Seen(disk))
      PROVE  Db!DbReconcilePlayback
  BY <1>4 DEF Db!DbReconcilePlayback, Db!ReconcilePlayback, Db!Cleared, Db!Demoted,
              ReconcilePlayback, Cleared, Demoted
<1>5. QED
  BY <1>1, <1>2, <1>3, <1>4 DEF Controlled, Db!DbNext

LEMMA InitTracks ==
  ASSUME Init
  PROVE  TracksInvariant /\ Db!DbInit
<1>1. /\ disk = InitialDisk /\ tx = NoTx(InitialDisk)
      /\ tx.pc = "none" /\ tx.work = disk
  BY DEF Init, NoTx
<1>2. Kept(disk)
  BY <1>1, RowsInit DEF RowsInvariant, BaseInvariant, RowsTypeOK, Kept
<1>3. /\ OrderOf(disk.pos) = InitialOrder
      /\ DOMAIN disk.pos = Range(InitialOrder)
      /\ InitialOrder \in Seq(Ids)
  BY <1>1, InitialPositions, NumberedOrder
<1>4. TracksInvariant
  BY <1>1 DEF TracksInvariant, TracksAt
<1>5. Db!InitialDb = Seen(disk)
  <2> DEFINE e == Db!InitialDb
  <2>1. /\ e.rev = Len(InitialOrder) /\ e.order = InitialOrder /\ e.current = None
        /\ e.status = "idle" /\ e.paused = FALSE /\ e.buffering = FALSE
        /\ e.volume = 100
        /\ e.st = [id \in Ids |-> IF \E i \in DOMAIN InitialOrder : InitialOrder[i] = id
                                  THEN "queued" ELSE "absent"]
    BY DEF Db!InitialDb
  <2>2. \A id \in Ids : id \in Range(InitialOrder)
                          <=> \E i \in DOMAIN InitialOrder : InitialOrder[i] = id
    BY DEF Range
  <2>3. e.st = disk.st
    BY <1>1, <2>1, <2>2 DEF InitialDisk
  <2>4. e \in DbType
    BY <1>3, LenProperties DEF Db!InitialDb, DbType, RowStatus, Statuses, Volumes
  <2> HIDE DEF e
  <2>5. SameColumns(disk, e)
    <3>1. /\ InitialDisk.rev = Len(InitialOrder) /\ InitialDisk.current = None
          /\ InitialDisk.status = "idle" /\ InitialDisk.volume = 100
          /\ InitialDisk.paused = FALSE /\ InitialDisk.buffering = FALSE
      BY DEF InitialDisk
    <3>2. QED BY <1>1, <2>1, <3>1 DEF SameColumns
  <2>6. QED BY <1>2, <1>3, <2>1, <2>3, <2>4, <2>5, SeenIs DEF e
<1>6. QED BY <1>4, <1>5 DEF Db!DbInit

\* While no compaction is cut short, a step that leaves the disk alone is a
\* stutter; the two that do not are the commit and the controller's.
LEMMA StepTracks ==
  ASSUME Watched, cutShort = FALSE, [Next]_vars, cutShort' = FALSE
  PROVE  TracksInvariant' /\ [Db!DbNext]_(Seen(disk))
<1>1. RowsInvariant'
  BY RowsStep DEF Watched, Mending, RowsInvariant
<1>2. ASSUME NEW id \in Ids, BeginAdd(id) \/ BeginRemove(id) \/ BeginFinish(id)
      PROVE  TracksInvariant' /\ disk' = disk
  <2>1. ASSUME BeginAdd(id) PROVE TracksInvariant'
    <3>1. disk.st[id] = "absent" /\ Begin("add", "insert", id, <<>>)
      BY <2>1 DEF BeginAdd
    <3>2. QED BY <3>1, BeginTracks
  <2>2. ASSUME BeginRemove(id) PROVE TracksInvariant'
    <3>1. Begin("remove", "delete", id, <<>>)
      BY <2>2 DEF BeginRemove
    <3>2. QED BY <3>1, BeginTracks
  <2>3. ASSUME BeginFinish(id) PROVE TracksInvariant'
    <3>1. Begin("finish", "delete", id, <<>>)
      BY <2>3 DEF BeginFinish
    <3>2. QED BY <3>1, BeginTracks
  <2>4. disk' = disk
    BY <1>2 DEF BeginAdd, BeginRemove, BeginFinish, Begin
  <2>5. QED BY <1>2, <2>1, <2>2, <2>3, <2>4
<1>3. ASSUME BeginSkip
      PROVE  TracksInvariant' /\ disk' = disk
  <2>1. Begin("skip", "delete", None, <<>>)
    BY <1>3 DEF BeginSkip
  <2>2. QED BY <2>1, BeginTracks DEF Begin
<1>4. ASSUME BeginClear
      PROVE  TracksInvariant' /\ disk' = disk
  <2>1. Begin("clear", "delete", None, <<>>)
    BY <1>4 DEF BeginClear
  <2>2. QED BY <2>1, BeginTracks DEF Begin
<1>5. ASSUME NEW n \in 0..(Cardinality(DOMAIN disk.pos) + 1),
             NEW ids \in [1..n -> Ids], BeginReorder(ids)
      PROVE  TracksInvariant' /\ disk' = disk
  <2>1. Begin("reorder", "count", None, ids)
    BY <1>5 DEF BeginReorder
  <2>2. QED BY <2>1, BeginTracks DEF Begin
<1>6. ASSUME Statement
      PROVE  TracksInvariant' /\ disk' = disk
  <2>1. ASSUME Number PROVE TracksInvariant'
    BY <1>1, <2>1, LoopTracks DEF Number, At
  <2>2. ASSUME Place PROVE TracksInvariant'
    BY <1>1, <2>2, LoopTracks DEF Place, At
  <2>3. TracksInvariant'
    BY <1>1, <1>6, <2>1, <2>2, InsertTracks, DeleteTracks, ListTracks, NegateTracks,
       CountTracks, FlipTracks, ReviseTracks DEF Statement
  <2>4. disk' = disk
    BY <1>6 DEF Statement, Insert, Delete, List, Negate, Number, Count, Place, Flip,
                Revise, At
  <2>5. QED BY <2>3, <2>4
<1>7. ASSUME Rollback
      PROVE  TracksInvariant' /\ disk' = disk
  BY <1>7, EndTracks DEF Rollback
<1>8. ASSUME Commit
      PROVE  TracksInvariant' /\ Db!DbNext
  BY <1>8, EndTracks, CommitTracks, EditIsDbStep
<1>9. ASSUME Columns
      PROVE  TracksInvariant' /\ Db!DbNext
  BY <1>9, ColumnsTracks, ControlIsDbStep
<1>10. ASSUME UNCHANGED vars
       PROVE  TracksInvariant' /\ disk' = disk
  BY <1>10 DEF vars, Watched, TracksInvariant
<1>11. QED
  <2>1. TracksInvariant' /\ (disk' = disk \/ Db!DbNext)
    BY <1>2, <1>3, <1>4, <1>5, <1>6, <1>7, <1>8, <1>9, <1>10 DEF Next
  <2>2. disk' = disk => Seen(disk)' = Seen(disk)
    OBVIOUS
  <2>3. QED BY <2>1, <2>2

\* From dense positions the transaction is known, and a commit that mends them
\* leaves none open.
Tracking == Mending /\ (cutShort = FALSE => TracksInvariant)

LEMMA TrackingStep ==
  ASSUME Tracking, [Next]_vars
  PROVE  Tracking' /\ [cutShort \/ cutShort' \/ Db!DbNext]_(Seen(disk))
<1>1. Mending' /\ cutShort \in BOOLEAN /\ cutShort' \in BOOLEAN
  BY RowsStep DEF Tracking, Mending, BaseInvariant
<1>2. CASE cutShort = FALSE /\ cutShort' = FALSE
  <2>1. Watched
    BY <1>2 DEF Tracking, Mending, Watched
  <2>2. TracksInvariant' /\ [Db!DbNext]_(Seen(disk))
    BY <1>2, <2>1, StepTracks
  <2>3. QED BY <1>1, <2>2 DEF Tracking
<1>3. CASE cutShort = TRUE /\ cutShort' = FALSE
  <2>1. Commit
    BY <1>3 DEF Next, Statement, Insert, Delete, List, Negate, Number, Count, Place,
                Flip, Revise, At, Rollback, Columns, Stored, Begin, BeginAdd,
                BeginRemove, BeginFinish, BeginSkip, BeginClear, BeginReorder, vars
  <2>2. TracksInvariant'
    BY <2>1, EndTracks
  <2>3. QED BY <1>1, <1>3, <2>2 DEF Tracking
<1>4. CASE cutShort' = TRUE
  BY <1>1, <1>4 DEF Tracking
<1>5. QED BY <1>1, <1>2, <1>3, <1>4

\* Statement by statement, and wherever they fail, the transactions do what
\* QueueDb says each of them does in one step, or nothing: for any number of
\* rows and any order in which the database visits them, from positions that no
\* compaction has left cut short to such positions.
THEOREM RowsRefineDb == Spec => RowsImplementDb
<1>1. Init => Tracking /\ Db!DbInit
  BY RowsInit, InitTracks DEF Tracking, Mending, RowsInvariant
<1>2. Tracking /\ [Next]_vars
        => Tracking' /\ [cutShort \/ cutShort' \/ Db!DbNext]_(Seen(disk))
  BY TrackingStep
<1>3. QED BY <1>1, <1>2, PTL DEF Spec, RowsImplementDb
=============================================================================
