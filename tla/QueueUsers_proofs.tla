------------------------- MODULE QueueUsers_proofs --------------------------
(***************************************************************************)
(* Those who edit the queue by its transactions: the clients of the API    *)
(* (QueueApi) and the auto-queue engine (AutoQueue). Both inherit the      *)
(* invariants of QueueDb, because they change the database in no other way. *)
(*                                                                         *)
(* Optimistic concurrency over torn snapshots is safe. SnapshotsSound is   *)
(* not inductive by itself: a snapshot ahead of the database would become  *)
(* a current one when the database catches up, with the wrong list.        *)
(* NeverAhead excludes it, and RevisionStep (a new list has a new          *)
(* revision) does the rest.                                                *)
(*                                                                         *)
(* The engine is within its depth because a refill owes, in every state,   *)
(* no more songs than the depth leaves room for (AheadBounded), and it is  *)
(* fair because a listener with a turn in a later second than another one  *)
(* is never the oldest of a list that both are on (TurnsFair).             *)
(***************************************************************************)
EXTENDS QueueApi, AutoQueue, QueueDb_proofs

\* Every step of the API is a transaction or leaves the database alone.
LEMMA ApiStepIsDbStep == [Next]_vars => [DbNext]_db
<1> SUFFICES ASSUME Next PROVE [DbNext]_db
  BY DEF vars
<1>1. CASE \E c \in Clients : ReadState(c) \/ ReadItems(c)
  BY <1>1 DEF ReadState, ReadItems
<1>2. ASSUME NEW c \in Clients, Edit(c) PROVE DbNext
  BY <1>2 DEF Edit, DbNext
<1>3. CASE \E id \in Ids : Submit(id)
  BY <1>3 DEF Submit, DbNext
<1>4. CASE Controller
  <2>1. {"idle", "stopped", "unavailable"} \subseteq Statuses
    BY DEF Statuses
  <2>2. \A report \in Reported :
          /\ report.status \in Statuses /\ report.paused \in BOOLEAN
          /\ report.buffering \in BOOLEAN /\ report.volume \in Volumes
    BY ReportedAssumption
  <2>3. QED BY <1>4, <2>1, <2>2 DEF Controller, DbNext
<1>5. QED BY <1>1, <1>2, <1>3, <1>4 DEF Next

\* The database of the API behaves as QueueDb specifies.
THEOREM ApiImplementsDb == Spec => DbSpec
BY ApiStepIsDbStep, PTL DEF Spec, Init, DbSpec

ApiInvariant == DbInvariant /\ TypeOK /\ NeverAhead /\ SnapshotsSound

LEMMA ApiInit == Init => ApiInvariant
BY DbInitGood
   DEF Init, ApiInvariant, DbInvariant, DbTypeOK, DbType, TypeOK, NeverAhead,
       SnapshotsSound, Matches, NotReading

LEMMA ApiStep == ApiInvariant /\ [Next]_vars => ApiInvariant'
<1> SUFFICES ASSUME ApiInvariant, [Next]_vars PROVE ApiInvariant'
  OBVIOUS
<1>1. DbInvariant' /\ RevisionStep
  BY ApiStepIsDbStep, DbStepGood, DbStepRevision DEF ApiInvariant
<1>2. /\ db.rev \in Nat /\ db'.rev \in Nat
      /\ db'.order \in Seq(Ids) /\ db.order \in Seq(Ids)
  BY <1>1 DEF ApiInvariant, DbInvariant, DbTypeOK, DbType
<1>3. ASSUME UNCHANGED clientVars
      PROVE  TypeOK' /\ NeverAhead' /\ SnapshotsSound'
  <2>1. TypeOK'
    BY <1>1, <1>3 DEF TypeOK, ApiInvariant, DbInvariant, clientVars
  <2>2. NeverAhead'
    BY <1>1, <1>2, <1>3 DEF NeverAhead, ApiInvariant, TypeOK, RevisionStep,
                            clientVars, NotReading
  <2>3. SnapshotsSound'
    <3> SUFFICES ASSUME NEW c \in Clients, rev[c] = db'.rev
                 PROVE  order[c] = db'.order
      BY <1>3 DEF SnapshotsSound, Matches, clientVars
    <3>1. db'.rev = db.rev
      BY <1>1, <1>2 DEF RevisionStep, ApiInvariant, NeverAhead, TypeOK
    <3>2. db'.order = db.order
      BY <1>1, <1>2, <3>1 DEF RevisionStep
    <3>3. QED BY <3>1, <3>2 DEF ApiInvariant, SnapshotsSound, Matches
  <2>4. QED BY <2>1, <2>2, <2>3
<1>4. ASSUME NEW c \in Clients, ReadState(c)
      PROVE  TypeOK' /\ NeverAhead' /\ SnapshotsSound'
  BY <1>1, <1>2, <1>4
     DEF ReadState, ApiInvariant, DbInvariant, TypeOK, NeverAhead, SnapshotsSound,
         Matches, NotReading
<1>5. ASSUME NEW c \in Clients, ReadItems(c)
      PROVE  TypeOK' /\ NeverAhead' /\ SnapshotsSound'
  <2>1. TypeOK'
    BY <1>1, <1>2, <1>5 DEF ReadItems, ApiInvariant, DbInvariant, TypeOK, NotReading
  <2>2. NeverAhead'
    BY <1>2, <1>5 DEF ReadItems, ApiInvariant, TypeOK, NeverAhead, NotReading
  <2>3. SnapshotsSound'
    BY <1>5 DEF ReadItems, ApiInvariant, TypeOK, SnapshotsSound, Matches
  <2>4. QED BY <2>1, <2>2, <2>3
<1>6. QED
  <2>1. Next => \/ UNCHANGED clientVars
                \/ \E c \in Clients : ReadState(c) \/ ReadItems(c)
    BY DEF Next, Edit, Submit, Controller
  <2>2. vars' = vars => UNCHANGED clientVars
    BY DEF vars, clientVars
  <2>3. QED BY <1>1, <1>3, <1>4, <1>5, <2>1, <2>2 DEF ApiInvariant

\* The record and the snapshots are well formed in every reachable state.
THEOREM ApiTypeCorrect == Spec => []TypeOK
BY ApiInit, ApiStep, PTL DEF Spec, ApiInvariant

\* A snapshot whose revision is current lists exactly the queue, however its
\* two queries interleaved with other transactions.
THEOREM ApiSnapshotsSound == Spec => []SnapshotsSound
BY ApiInit, ApiStep, PTL DEF Spec, ApiInvariant

\* An accepted edit was decided on the very list it changes.
THEOREM ApiEditsActOnWhatWasSeen == Spec => EditsActOnWhatWasSeen
<1>1. ApiInvariant /\ [Next]_vars =>
        [\A c \in Clients : Edit(c) => order[c] = db.order]_vars
  BY DEF ApiInvariant, SnapshotsSound, Edit
<1>2. QED
  BY <1>1, ApiInit, ApiStep, PTL DEF Spec, EditsActOnWhatWasSeen

\* The rows are exactly the listed ids, and no URL is listed twice, under any
\* interleaving of clients and controller.
THEOREM ApiRowsListedOnce == Spec => []RowsListedOnce
BY ApiInit, ApiStep, PTL DEF Spec, ApiInvariant, DbInvariant

\* Nor do the rows' statuses and current_item_id ever contradict each other.
THEOREM ApiCurrentAgrees == Spec => []CurrentAgrees
BY ApiInit, ApiStep, PTL DEF Spec, ApiInvariant, DbInvariant

\* ETags are monotonic and name one list.
THEOREM ApiRevisionNamesList == Spec => RevisionNamesList
BY ApiImplementsDb, DbRevisionNamesList

\* Failed items are never replayed.
THEOREM ApiFailedStays == Spec => FailedStays
BY ApiImplementsDb, DbFailedStays
-----------------------------------------------------------------------------
(* The auto-queue engine.                                                  *)

RefillType ==
  [pc: {"idle", "choose", "turn", "search", "mark"}, needed: Nat, added: Nat,
   attempts: Nat, fair: BOOLEAN, users: SUBSET Listeners, rounds: Nat,
   user: Listeners \cup {None}]

EngineType ==
  /\ r \in RefillType
  /\ around \in SUBSET Listeners /\ taste \in SUBSET Listeners
  /\ turn \in [Listeners -> Nat]
  /\ passed \in [Listeners -> Nat]
  /\ r.pc = "mark" => r.user \in Listeners
  /\ r.pc = "turn" => r.rounds >= 1
  /\ r.pc = "choose" => r.user = None

\* What waits, and what the refill may still add, fit into some depth.
AheadBounded ==
  /\ auto \in SUBSET Ids /\ IsFiniteSet(auto)
  /\ \A id \in auto : db.st[id] # "absent"
  /\ r.added <= r.needed
  /\ r.pc \in {"turn", "search"} => r.added < r.needed
  /\ \E depth \in Depths : Cardinality(Ahead) + (r.needed - r.added) <= depth + 1

\* The refill has a list of listeners to choose from, or has chosen.
Listing ==
  \/ r.pc = "turn"
  \/ r.pc \in {"search", "mark"} /\ r.user # None

\* Whoever passed over the watched listener did so once, and has the younger
\* text since; the list under way has the watched listener on it then; and the
\* one chosen has not done so yet.
TurnsFair ==
  /\ NobodyPassedOver
  /\ \A l \in Listeners : passed[l] # 0 =>
       /\ HasClaim(Watched)
       /\ turn[l] > turn[Watched]
       /\ Listing => Watched \in r.users
  /\ r.pc \in {"search", "mark"} /\ r.user # None => passed[r.user] = 0

AutoInvariant == DbInvariant /\ EngineType /\ AheadBounded /\ TurnsFair

\* Every step of the engine, and of everybody else around it, is a transaction
\* or leaves the database alone.
LEMMA AutoStepIsDbStep ==
  ASSUME DbInvariant, [AutoNext]_autoVars
  PROVE  [DbNext]_db
<1>1. CASE Add
  BY <1>1 DEF Add, DbNext
<1>2. CASE Begin \/ Choose \/ Turn \/ Fruitless \/ Full \/ Mark \/ Interrupted
  BY <1>2 DEF Begin, Choose, Turn, Fruitless, Full, Mark, Interrupted
<1>3. CASE \E l \in Listeners : Listener(l)
  BY <1>3 DEF Listener
<1>4. CASE Play
  <2>1. \A i \in DOMAIN db.order : db.order[i] \in Ids
    BY DEF DbInvariant, DbTypeOK, DbType
  <2>2. QED BY <1>4, <2>1 DEF Play, DbNext
<1>5. CASE OtherTransaction
  BY <1>5 DEF OtherTransaction, DbNext
<1>6. CASE UNCHANGED autoVars
  BY <1>6 DEF autoVars
<1>7. QED
  BY <1>1, <1>2, <1>3, <1>4, <1>5, <1>6 DEF AutoNext, Refill

\* What a step of the others leaves alone.
LEMMA OthersStep ==
  ASSUME NEW l \in Listeners, Listener(l) \/ Play \/ OtherTransaction
  PROVE  UNCHANGED <<turn, r, auto>>
BY DEF Listener, Play, OtherTransaction, engineVars
-----------------------------------------------------------------------------
(* How far ahead the engine is.                                            *)

\* One row at most is current, so one song more than the queued ones waits.
LEMMA AheadOfQueued ==
  ASSUME DbInvariant, auto \in SUBSET Ids
  PROVE  /\ IsFiniteSet(Rows("queued")) /\ Cardinality(Rows("queued")) \in Nat
         /\ IsFiniteSet(Ahead)
         /\ Cardinality(Ahead) <= Cardinality(Rows("queued")) + 1
<1>1. Good(db)
  BY DbInvariantIsGood
<1>2. Rows("queued") \subseteq Listed(db)
  BY <1>1 DEF Rows, Good, ListedOnce, RowStatus
<1>3. IsFiniteSet(Rows("queued")) /\ Cardinality(Rows("queued")) \in Nat
  BY <1>1, <1>2, ListedCount, FS_Subset, FS_CardinalityType
<1>4. PICK x : Rows("current") \subseteq {x}
  BY <1>1 DEF Rows, Good, Agrees
<1>5. Ahead \in SUBSET (Rows("queued") \cup {x})
  BY <1>4 DEF Ahead, Rows
<1>6. /\ IsFiniteSet(Rows("queued") \cup {x})
      /\ Cardinality(Rows("queued") \cup {x}) <= Cardinality(Rows("queued")) + 1
      /\ Cardinality(Rows("queued") \cup {x}) \in Nat
  BY <1>3, FS_AddElement, FS_CardinalityType
<1>7. /\ IsFiniteSet(Ahead) /\ Cardinality(Ahead) \in Nat
      /\ Cardinality(Ahead) <= Cardinality(Rows("queued") \cup {x})
  BY <1>5, <1>6, FS_Subset, FS_CardinalityType
<1>8. QED BY <1>3, <1>6, <1>7

\* Nothing but an addition of the engine puts one more song of its own ahead.
LEMMA AheadShrinks ==
  ASSUME DbInvariant, AheadBounded, [DbNext]_db, UNCHANGED auto
  PROVE  /\ Ahead' \subseteq Ahead
         /\ Cardinality(Ahead') \in Nat /\ Cardinality(Ahead) \in Nat
         /\ Cardinality(Ahead') <= Cardinality(Ahead)
         /\ \A id \in auto' : db'.st[id] # "absent"
<1>1. StatusStep
  BY DbStepStatus
<1>2. \A id \in auto : /\ db'.st[id] # "absent"
                       /\ db'.st[id] \in {"queued", "current"} =>
                            db.st[id] \in {"queued", "current"}
  <2>1. db.st \in [Ids -> RowStatus \cup {"absent", "deleted"}]
    BY DEF DbInvariant, DbTypeOK, DbType
  <2>2. QED BY <1>1, <2>1 DEF AheadBounded, StatusStep, StatusMayBecome, RowStatus
<1>3. Ahead' \in SUBSET Ahead
  BY <1>2 DEF Ahead
<1>4. IsFiniteSet(Ahead)
  BY AheadOfQueued DEF AheadBounded
<1>5. QED BY <1>2, <1>3, <1>4, FS_Subset, FS_CardinalityType

LEMMA AheadBoundedStep ==
  ASSUME DbInvariant, DbInvariant', EngineType, AheadBounded, [AutoNext]_autoVars
  PROVE  AheadBounded'
<1>1. [DbNext]_db
  BY AutoStepIsDbStep
<1>2. PICK depth \in Depths : Cardinality(Ahead) + (r.needed - r.added) <= depth + 1
  BY DEF AheadBounded
<1>3. Depths \subseteq Nat /\ depth \in Nat
  BY BoundsAssumption
<1>4. /\ r.needed \in Nat /\ r.added \in Nat /\ r.added <= r.needed
      /\ r.pc \in {"turn", "search"} => r.added < r.needed
      /\ auto \in SUBSET Ids /\ IsFiniteSet(auto)
      /\ r \in RefillType
  BY DEF EngineType, RefillType, AheadBounded
\* A step that adds nothing keeps the bound, if it lets the refill owe no more.
<1>5. ASSUME UNCHANGED auto,
             r'.needed \in Nat, r'.added \in Nat, r'.added <= r'.needed,
             r'.needed - r'.added <= r.needed - r.added,
             r'.pc \in {"turn", "search"} => r'.added < r'.needed
      PROVE  AheadBounded'
  <2>1. /\ Cardinality(Ahead') \in Nat /\ Cardinality(Ahead) \in Nat
        /\ Cardinality(Ahead') <= Cardinality(Ahead)
        /\ \A id \in auto' : db'.st[id] # "absent"
    BY <1>1, <1>5, AheadShrinks
  <2>2. Cardinality(Ahead') + (r'.needed - r'.added) <= depth + 1
    BY <1>2, <1>3, <1>4, <1>5, <2>1
  <2>3. QED BY <1>4, <1>5, <2>1, <2>2 DEF AheadBounded
<1>6. CASE UNCHANGED r /\ UNCHANGED auto
  BY <1>4, <1>5, <1>6
<1>7. CASE Finish /\ UNCHANGED auto
  BY <1>4, <1>5, <1>7 DEF Finish, NoRefill
<1>8. CASE Begin
  <2>1. PICK missing \in Depths :
          /\ Missing(missing) > 0
          /\ r'.needed = Missing(missing) /\ r'.added = 0 /\ r'.pc = "choose"
    BY <1>8 DEF Begin, NoRefill
  <2>2. UNCHANGED <<db, auto>>
    BY <1>8 DEF Begin
  <2>3. /\ Cardinality(Rows("queued")) \in Nat /\ IsFiniteSet(Ahead)
        /\ Cardinality(Ahead) <= Cardinality(Rows("queued")) + 1
    BY <1>4, AheadOfQueued
  <2>4. Cardinality(Ahead) \in Nat /\ missing \in Nat
    BY <1>3, <2>3, FS_CardinalityType
  <2>5. /\ r'.needed \in Nat /\ r'.added <= r'.needed
        /\ Cardinality(Ahead) + (r'.needed - r'.added) <= missing + 1
    BY <2>1, <2>3, <2>4 DEF Missing
  <2>6. Ahead' = Ahead
    BY <2>2 DEF Ahead
  <2>7. QED BY <1>4, <2>1, <2>2, <2>5, <2>6 DEF AheadBounded
<1>9. CASE Choose
  <2>1. UNCHANGED auto
    BY <1>9 DEF Choose
  <2>2. \/ Finish
        \/ /\ r.added < r.needed
           /\ r'.needed = r.needed /\ r'.added = r.added
    BY <1>4, <1>9 DEF Choose, More, RefillType
  <2>3. QED BY <1>4, <1>5, <1>7, <2>1, <2>2
<1>10. CASE Turn
  <2>1. UNCHANGED auto
    BY <1>10 DEF Turn
  <2>2. \/ Finish
        \/ /\ r.added < r.needed
           /\ r'.needed = r.needed /\ r'.added = r.added
    BY <1>4, <1>10 DEF Turn, At, RefillType
  <2>3. QED BY <1>4, <1>5, <1>7, <2>1, <2>2
<1>11. CASE Fruitless \/ Mark
  <2>1. UNCHANGED auto /\ NextAttempt
    BY <1>11 DEF Fruitless, Mark
  <2>2. r'.needed = r.needed /\ r'.added = r.added /\ r'.pc = "choose"
    BY <1>4, <2>1 DEF NextAttempt, RefillType
  <2>3. QED BY <1>4, <1>5, <2>1, <2>2
<1>12. CASE Full \/ Interrupted
  BY <1>7, <1>12 DEF Full, Interrupted
<1>13. CASE Add
  <2>1. PICK id \in Ids : DbAdd(id) /\ auto' = auto \cup {id}
    BY <1>13 DEF Add
  <2>2. /\ r.pc = "search" /\ r.added < r.needed
        /\ r'.needed = r.needed /\ r'.added = r.added + 1
        /\ r'.pc \in {"choose", "mark"}
    BY <1>4, <1>13 DEF Add, At, RefillType
  <2>3. db.st[id] = "absent" /\ db'.st = [db.st EXCEPT ![id] = "queued"]
    BY <2>1 DEF DbAdd, AddItemOK, AddItem, Bump, DbInvariant, DbTypeOK, DbType
  <2>4. auto' \in SUBSET Ids /\ IsFiniteSet(auto')
    BY <1>4, <2>1, FS_AddElement
  <2>5. \A other \in auto' : db'.st[other] # "absent"
    BY <2>1, <2>3 DEF AheadBounded, DbInvariant, DbTypeOK, DbType
  <2>6. Ahead' = Ahead \cup {id}
    BY <1>4, <2>1, <2>3 DEF Ahead, DbInvariant, DbTypeOK, DbType
  <2>7. /\ IsFiniteSet(Ahead) /\ Cardinality(Ahead) \in Nat
        /\ Cardinality(Ahead') <= Cardinality(Ahead) + 1
        /\ Cardinality(Ahead') \in Nat
    <3>1. IsFiniteSet(Ahead) /\ Cardinality(Ahead) \in Nat
      BY <1>4, AheadOfQueued, FS_CardinalityType
    <3>2. /\ IsFiniteSet(Ahead \cup {id})
          /\ Cardinality(Ahead \cup {id}) <= Cardinality(Ahead) + 1
      BY <3>1, FS_AddElement
    <3>3. QED BY <2>6, <3>1, <3>2, FS_CardinalityType
  <2>8. Cardinality(Ahead') + (r'.needed - r'.added) <= depth + 1
    BY <1>2, <1>3, <1>4, <2>2, <2>7
  <2>9. QED BY <1>4, <2>2, <2>4, <2>5, <2>8 DEF AheadBounded
<1>14. CASE (\E l \in Listeners : Listener(l)) \/ Play \/ OtherTransaction
  BY <1>6, <1>14, ListenersAssumption, OthersStep
<1>15. CASE UNCHANGED autoVars
  BY <1>6, <1>15 DEF autoVars, engineVars
<1>16. QED
  BY <1>8, <1>9, <1>10, <1>11, <1>12, <1>13, <1>14, <1>15 DEF AutoNext, Refill
-----------------------------------------------------------------------------
(* Whose turn it is.                                                       *)

\* An earlier text is of no later second.
LEMMA SecondOrder ==
  ASSUME NEW p \in Nat, NEW q \in Nat, Second(q) > Second(p)
  PROVE  q > p
<1>1. Fractions \in Nat /\ Fractions > 0
  BY BoundsAssumption
<1> DEFINE i == p \div Fractions
           j == q \div Fractions
<1>2. /\ i \in Nat /\ j \in Nat
      /\ p < Fractions * (i + 1) /\ Fractions * j <= q
  BY <1>1
<1>3. j >= i + 1
  BY <1>2 DEF Second
<1>4. Fractions * j >= Fractions * (i + 1)
  <2> HIDE DEF i, j
  <2> QED BY <1>1, <1>2, <1>3
<1>5. Fractions * j \in Nat /\ Fractions * (i + 1) \in Nat
  <2> HIDE DEF i, j
  <2> QED BY <1>1, <1>2
<1> HIDE DEF i, j
<1>6. QED BY <1>2, <1>4, <1>5

\* What a stamp changes.
LEMMA StampType ==
  ASSUME EngineType, NEW l \in Listeners, NEW since \in [Listeners -> Nat], Stamp(l, since)
  PROVE  /\ turn' \in [Listeners -> Nat] /\ passed' \in [Listeners -> Nat]
         /\ \A m \in Listeners : m # l => turn'[m] = turn[m]
<1>1. PICK stamp \in Fractions..(Fractions * (MaxSecond + 1) - 1) :
        turn' = [turn EXCEPT ![l] = stamp]
  BY DEF Stamp
<1>2. stamp \in Nat
  BY <1>1, BoundsAssumption
<1>3. turn' \in [Listeners -> Nat] /\ \A m \in Listeners : m # l => turn'[m] = turn[m]
  BY <1>1, <1>2 DEF EngineType
<1>4. passed' \in [Listeners -> Nat]
  BY DEF Stamp, EngineType
<1>5. QED BY <1>3, <1>4

LEMMA SinceType ==
  ASSUME EngineType, NEW l \in Listeners
  PROVE  /\ Since(l) \in [Listeners -> Nat]
         /\ \A m \in Listeners : Since(l)[m] \in {0, passed[m]}
         /\ l \notin OldestTurn => Since(l)[l] = 0
BY DEF Since, EngineType

LEMMA EngineTypeStep ==
  ASSUME EngineType, DbInvariant, [AutoNext]_autoVars
  PROVE  EngineType'
<1>1. /\ r \in RefillType
      /\ around \in SUBSET Listeners /\ taste \in SUBSET Listeners
      /\ IsFiniteSet(around) /\ Cardinality(around) \in Nat
  BY ListenersAssumption, FS_Subset, FS_CardinalityType DEF EngineType
<1>2. CASE UNCHANGED <<around, taste, turn, passed>> /\ Finish
  BY <1>2 DEF EngineType, Finish, NoRefill, RefillType
<1>3. CASE Begin
  <2>1. PICK depth \in Depths, fair \in BOOLEAN :
          /\ Missing(depth) > 0
          /\ r' = [NoRefill EXCEPT !.pc = "choose", !.needed = Missing(depth),
                                   !.fair = fair]
    BY <1>3 DEF Begin
  <2>2. Missing(depth) \in Nat
    <3>1. Good(db) /\ Rows("queued") \subseteq Listed(db)
      BY DbInvariantIsGood DEF Rows, Good, ListedOnce, RowStatus
    <3>2. Cardinality(Rows("queued")) \in Nat
      BY <3>1, ListedCount, FS_Subset, FS_CardinalityType
    <3>3. depth \in Nat
      BY BoundsAssumption
    <3>4. QED BY <2>1, <3>2, <3>3 DEF Missing
  <2>3. r' \in RefillType /\ r'.pc = "choose" /\ r'.user = None
    BY <2>1, <2>2 DEF NoRefill, RefillType
  <2>4. QED BY <1>3, <2>3 DEF Begin, EngineType
<1>4. CASE Choose
  <2>1. CASE Finish
    BY <1>2, <1>4, <2>1 DEF Choose
  <2>2. CASE ~Finish
    <3>1. around # {} => Cardinality(around) >= 1
      BY <1>1, FS_EmptySet
    <3>2. \/ r' = [r EXCEPT !.pc = "search"]
          \/ around # {} /\ r' = [r EXCEPT !.pc = "turn", !.users = around,
                                          !.rounds = Cardinality(around)]
      BY <1>4, <2>2 DEF Choose
    <3>3. /\ r' \in RefillType /\ r'.pc \in {"search", "turn"}
          /\ r'.pc = "turn" => r'.rounds >= 1
      BY <1>1, <3>1, <3>2 DEF RefillType
    <3>4. QED BY <1>4, <3>3 DEF Choose, EngineType
  <2>3. QED BY <2>1, <2>2
<1>5. CASE Turn
  <2>1. PICK l \in Listeners :
          /\ Picked(l)
          /\ IF l \in taste
             THEN /\ r' = [r EXCEPT !.pc = "search", !.user = l, !.rounds = 0]
                  /\ passed' = Since(l) /\ UNCHANGED turn
             ELSE /\ Stamp(l, Since(l))
                  /\ IF r.rounds = 1 THEN Finish
                     ELSE r' = [r EXCEPT !.rounds = @ - 1]
    BY <1>5 DEF Turn
  <2>2. Since(l) \in [Listeners -> Nat]
    BY SinceType
  <2>3. UNCHANGED <<around, taste>> /\ r.pc = "turn"
    BY <1>5 DEF Turn, At
  <2>4. CASE l \in taste
    <3>1. r' \in RefillType /\ r'.pc = "search"
      <4>1. r' = [r EXCEPT !.pc = "search", !.user = l, !.rounds = 0]
        BY <2>1, <2>4
      <4>2. QED BY <1>1, <4>1 DEF RefillType
    <3>2. QED BY <2>1, <2>2, <2>3, <2>4, <3>1 DEF EngineType
  <2>5. CASE l \notin taste
    <3>1. /\ r' \in RefillType /\ r'.pc \in {"idle", "turn"}
          /\ r'.pc = "turn" => r'.rounds >= 1
      <4>1. CASE r.rounds = 1
        <5>1. r' = NoRefill
          BY <2>1, <2>5, <4>1 DEF Finish
        <5>2. QED BY <5>1 DEF NoRefill, RefillType
      <4>2. CASE r.rounds # 1
        <5>1. r' = [r EXCEPT !.rounds = r.rounds - 1]
          BY <2>1, <2>5, <4>2
        <5>2. r.rounds - 1 \in Nat /\ r.rounds - 1 >= 1
          BY <1>1, <2>3, <4>2 DEF EngineType, RefillType
        <5>3. QED BY <1>1, <2>3, <5>1, <5>2 DEF RefillType
      <4>3. QED BY <4>1, <4>2
    <3>2. QED BY <1>1, <2>1, <2>2, <2>3, <2>5, <3>1, StampType DEF EngineType
  <2>6. QED BY <2>4, <2>5
<1>12. r.attempts + 1 \in Nat /\ r.added + 1 \in Nat
  BY <1>1 DEF RefillType
<1>13. NextAttempt => r' \in RefillType /\ r'.pc = "choose" /\ r'.user = None
  <2>1. NextAttempt =>
          r' = [r EXCEPT !.pc = "choose", !.attempts = r.attempts + 1, !.user = None,
                         !.users = {}]
    BY DEF NextAttempt
  <2>2. QED BY <1>1, <1>12, <2>1 DEF RefillType
<1>6. CASE Fruitless
  BY <1>6, <1>13 DEF Fruitless, EngineType
<1>7. CASE Full \/ Interrupted
  BY <1>2, <1>7 DEF Full, Interrupted
<1>8. CASE Add
  <2>1. /\ r' \in RefillType /\ r'.pc # "turn"
        /\ r'.pc = "mark" => r'.user \in Listeners
        /\ r'.pc = "choose" => r'.user = None
    <3>1. CASE r.user = None
      <4>1. r' = [r EXCEPT !.pc = "choose", !.added = r.added + 1,
                           !.attempts = r.attempts + 1]
        BY <1>8, <3>1 DEF Add
      <4>2. r' \in RefillType
        BY <1>1, <1>12, <4>1 DEF RefillType
      <4>3. r'.pc = "choose" /\ r'.user = r.user
        BY <1>1, <4>1 DEF RefillType
      <4>4. QED BY <3>1, <4>2, <4>3
    <3>2. CASE r.user # None
      <4>1. r' = [r EXCEPT !.pc = "mark", !.added = r.added + 1]
        BY <1>8, <3>2 DEF Add
      <4>2. r' \in RefillType /\ r'.pc = "mark" /\ r'.user = r.user
        BY <1>1, <1>12, <4>1 DEF RefillType
      <4>3. r.user \in Listeners
        BY <1>1, <3>2 DEF RefillType
      <4>4. QED BY <4>2, <4>3
    <3>3. QED BY <3>1, <3>2
  <2>2. QED BY <1>8, <2>1 DEF Add, EngineType
<1>9. CASE Mark
  <2>1. r.user \in Listeners /\ Stamp(r.user, passed) /\ passed \in [Listeners -> Nat]
    BY <1>9 DEF Mark, At, EngineType
  <2>2. r' \in RefillType /\ r'.pc = "choose" /\ r'.user = None
    BY <1>9, <1>13 DEF Mark
  <2>3. UNCHANGED <<around, taste>>
    BY <1>9 DEF Mark
  <2>4. QED BY <1>1, <2>1, <2>2, <2>3, StampType DEF EngineType
<1>10. ASSUME NEW l \in Listeners, Listener(l) PROVE EngineType'
  <2>1. around' \in SUBSET Listeners /\ taste' \in SUBSET Listeners
    BY <1>1, <1>10 DEF Listener
  <2>2. passed' \in [Listeners -> Nat]
    BY <1>10 DEF Listener, EngineType
  <2>3. QED BY <1>10, <2>1, <2>2 DEF Listener, EngineType
<1>11. CASE Play \/ OtherTransaction \/ UNCHANGED autoVars
  BY <1>11 DEF Play, OtherTransaction, autoVars, engineVars, EngineType
<1>14. QED
  BY <1>3, <1>4, <1>5, <1>6, <1>7, <1>8, <1>9, <1>10, <1>11 DEF AutoNext, Refill
-----------------------------------------------------------------------------
\* Whoever has the oldest turn of a list has not passed over the watched one, and
\* who is picked without having it starts afresh.
LEMMA OldestBehind ==
  ASSUME EngineType, TurnsFair, r.pc = "turn", NEW l \in OldestTurn
  PROVE  passed[l] = 0
<1>1. r.users \subseteq Listeners /\ l \in r.users /\ l \in Listeners
  BY DEF OldestTurn, EngineType, RefillType
<1>2. ASSUME passed[l] # 0 PROVE FALSE
  <2>1. turn[l] > turn[Watched] /\ Watched \in r.users
    BY <1>1, <1>2 DEF TurnsFair, Listing
  <2>2. turn[l] <= turn[Watched]
    BY <2>1 DEF OldestTurn
  <2>3. turn[l] \in Nat /\ turn[Watched] \in Nat
    BY <1>1, ListenersAssumption DEF EngineType
  <2>4. QED BY <2>1, <2>2, <2>3
<1>3. QED BY <1>2

LEMMA PickedBehind ==
  ASSUME EngineType, TurnsFair, r.pc = "turn", NEW l \in Listeners
  PROVE  Since(l)[l] = 0
BY OldestBehind, SinceType DEF Since

\* A stamp for somebody who has not passed over the watched one, from the list
\* that somebody is on: at most one turn more than none, and the younger text.
LEMMA StampFair ==
  ASSUME EngineType, TurnsFair, NEW l \in Listeners,
         NEW since \in [Listeners -> Nat], since[l] = 0,
         \A m \in Listeners : since[m] \in {0, passed[m]},
         Stamp(l, since), UNCHANGED <<around, taste>>, Listing
  PROVE  /\ NobodyPassedOver'
         /\ \A m \in Listeners : passed'[m] # 0 =>
              /\ HasClaim(Watched)'
              /\ turn'[m] > turn'[Watched]
              /\ Watched \in r.users
<1>1. PICK stamp \in Fractions..(Fractions * (MaxSecond + 1) - 1) :
        /\ turn' = [turn EXCEPT ![l] = stamp]
        /\ passed' = IF l = Watched \/ ~HasClaim(Watched)
                     THEN [m \in Listeners |-> 0]
                     ELSE IF PassesOver(l, stamp) THEN [since EXCEPT ![l] = @ + 1]
                                                  ELSE since
  BY DEF Stamp
<1>2. /\ stamp \in Nat /\ Watched \in Listeners
      /\ turn \in [Listeners -> Nat] /\ passed \in [Listeners -> Nat]
  BY <1>1, BoundsAssumption, ListenersAssumption DEF EngineType
<1>3. CASE l = Watched \/ ~HasClaim(Watched)
  <2>1. passed' = [m \in Listeners |-> 0]
    BY <1>1, <1>3
  <2>2. QED BY <2>1 DEF NobodyPassedOver
<1>4. CASE l # Watched /\ HasClaim(Watched)
  <2>1. HasClaim(Watched)' /\ turn'[Watched] = turn[Watched]
    BY <1>1, <1>2, <1>4 DEF HasClaim
  <2>2. \A m \in Listeners : m # l => passed'[m] \in {0, passed[m]} /\ turn'[m] = turn[m]
    BY <1>1, <1>2, <1>4
  <2>3. \A m \in Listeners : m # l /\ passed'[m] # 0 =>
          turn'[m] > turn'[Watched] /\ Watched \in r.users /\ passed'[m] <= 1
    BY <2>1, <2>2 DEF TurnsFair, NobodyPassedOver
  <2>4. passed'[l] # 0 =>
          turn'[l] > turn'[Watched] /\ Watched \in r.users /\ passed'[l] = 1
    <3> SUFFICES ASSUME passed'[l] # 0
                 PROVE  turn'[l] > turn'[Watched] /\ Watched \in r.users /\ passed'[l] = 1
      OBVIOUS
    <3>1. PassesOver(l, stamp) /\ passed' = [since EXCEPT ![l] = since[l] + 1]
      BY <1>1, <1>2, <1>4
    <3>2. stamp > turn[Watched]
      BY <1>2, <3>1, SecondOrder DEF PassesOver
    <3>3. QED BY <1>1, <1>2, <2>1, <3>1, <3>2 DEF PassesOver
  <2>5. passed' \in [Listeners -> Nat]
    BY StampType
  <2>6. NobodyPassedOver'
    <3>1. \A m \in Listeners : passed'[m] = 0 \/ passed'[m] <= 1
      BY <2>3, <2>4
    <3>2. QED BY <3>1 DEF NobodyPassedOver
  <2>7. QED BY <2>1, <2>3, <2>4, <2>6
<1>5. QED BY <1>3, <1>4

LEMMA TurnsFairStep ==
  ASSUME EngineType, EngineType', TurnsFair, DbInvariant, [AutoNext]_autoVars
  PROVE  TurnsFair'
<1>1. r \in RefillType /\ around \in SUBSET Listeners /\ passed \in [Listeners -> Nat]
  BY DEF EngineType
\* A step without a stamp, that ends the list or goes on with it.
<1>2. ASSUME UNCHANGED <<around, taste, turn, passed>>,
             Listing' => (Listing /\ r'.users = r.users),
             r'.pc \in {"search", "mark"} /\ r'.user # None => passed[r'.user] = 0
      PROVE  TurnsFair'
  BY <1>2 DEF TurnsFair, NobodyPassedOver, HasClaim
<1>3. CASE UNCHANGED <<around, taste, turn, passed>> /\ Finish
  BY <1>2, <1>3 DEF Finish, NoRefill, Listing
<1>4. CASE Begin
  BY <1>2, <1>4 DEF Begin, NoRefill, Listing
<1>5. CASE Choose
  <2>1. UNCHANGED <<around, taste, turn, passed>>
    BY <1>5 DEF Choose
  <2>2. \/ Finish
        \/ r' = [r EXCEPT !.pc = "search"] /\ r.pc = "choose" /\ ~r.fair
        \/ r' = [r EXCEPT !.pc = "turn", !.users = around,
                          !.rounds = Cardinality(around)]
    BY <1>5 DEF Choose, At
  <2>3. CASE r' = [r EXCEPT !.pc = "search"] /\ r.pc = "choose" /\ ~r.fair
    <3>1. r'.pc = "search" /\ r'.user = None
      BY <1>1, <2>3 DEF RefillType, EngineType
    <3>2. QED BY <1>2, <2>1, <3>1 DEF Listing
  <2>4. CASE r' = [r EXCEPT !.pc = "turn", !.users = around,
                            !.rounds = Cardinality(around)]
    <3>1. r'.pc = "turn" /\ r'.users = around
      BY <1>1, <2>4 DEF RefillType
    <3>2. \A l \in Listeners : passed[l] # 0 => Watched \in around
      BY DEF TurnsFair, HasClaim
    <3>3. QED BY <2>1, <3>1, <3>2 DEF TurnsFair, NobodyPassedOver, HasClaim
  <2>5. QED BY <1>3, <2>1, <2>2, <2>3, <2>4
<1>6. CASE Turn
  <2>1. PICK l \in Listeners :
          /\ Picked(l)
          /\ IF l \in taste
             THEN /\ r' = [r EXCEPT !.pc = "search", !.user = l, !.rounds = 0]
                  /\ passed' = Since(l) /\ UNCHANGED turn
             ELSE /\ Stamp(l, Since(l))
                  /\ IF r.rounds = 1 THEN Finish
                     ELSE r' = [r EXCEPT !.rounds = @ - 1]
    BY <1>6 DEF Turn
  <2>2. UNCHANGED <<around, taste>> /\ r.pc = "turn" /\ Listing
    BY <1>6 DEF Turn, At, Listing
  <2>3. /\ Since(l) \in [Listeners -> Nat] /\ Since(l)[l] = 0
        /\ \A m \in Listeners : Since(l)[m] \in {0, passed[m]}
    BY <2>2, SinceType, PickedBehind
  <2>4. CASE l \in taste
    <3>1. /\ r'.pc = "search" /\ r'.user = l /\ r'.users = r.users
          /\ UNCHANGED turn /\ passed' = Since(l)
      BY <1>1, <2>1, <2>4 DEF RefillType
    <3>2. \A m \in Listeners : passed'[m] = 0 \/ passed'[m] = passed[m]
      BY <2>3, <3>1
    <3>3. passed'[r'.user] = 0
      BY <2>3, <3>1
    <3>4. NobodyPassedOver'
      BY <3>2 DEF TurnsFair, NobodyPassedOver
    <3>5. QED BY <2>2, <3>1, <3>2, <3>3, <3>4 DEF TurnsFair, HasClaim, Listing
  <2>5. CASE l \notin taste
    <3>1. /\ NobodyPassedOver'
          /\ \A m \in Listeners : passed'[m] # 0 =>
               /\ HasClaim(Watched)'
               /\ turn'[m] > turn'[Watched]
               /\ Watched \in r.users
      BY <2>1, <2>2, <2>3, <2>5, StampFair
    <3>2. \/ r'.pc = "idle"
          \/ r'.pc = "turn" /\ r'.users = r.users
      <4>1. CASE r.rounds = 1
        BY <2>1, <2>5, <4>1 DEF Finish, NoRefill
      <4>2. CASE r.rounds # 1
        <5>1. r' = [r EXCEPT !.rounds = r.rounds - 1]
          BY <2>1, <2>5, <4>2
        <5>2. QED BY <1>1, <2>2, <5>1 DEF RefillType
      <4>3. QED BY <4>1, <4>2
    <3>3. QED BY <3>1, <3>2 DEF TurnsFair, Listing
  <2>6. QED BY <2>4, <2>5
<1>7. CASE Fruitless
  <2>1. r'.pc = "choose" /\ UNCHANGED <<around, taste, turn, passed>>
    BY <1>1, <1>7 DEF Fruitless, NextAttempt, RefillType
  <2>2. QED BY <1>2, <2>1 DEF Listing
<1>8. CASE Full \/ Interrupted
  BY <1>3, <1>8 DEF Full, Interrupted
<1>9. CASE Add
  <2>1. /\ r'.pc \in {"choose", "mark"} /\ r'.user = r.user /\ r.pc = "search"
        /\ r'.users = r.users /\ UNCHANGED <<around, taste, turn, passed>>
    BY <1>1, <1>9 DEF Add, At, RefillType
  <2>2. QED BY <1>2, <2>1 DEF Listing, TurnsFair
<1>10. CASE Mark
  <2>1. r.pc = "mark" /\ r.user \in Listeners /\ r.user # None /\ Listing
    BY <1>10, ListenersAssumption DEF Mark, At, EngineType, Listing
  <2>2. passed[r.user] = 0
    BY <2>1 DEF TurnsFair
  <2>3. Stamp(r.user, passed) /\ UNCHANGED <<around, taste>>
    BY <1>10 DEF Mark
  <2>4. r'.pc = "choose"
    BY <1>1, <1>10 DEF Mark, NextAttempt, RefillType
  <2>5. /\ NobodyPassedOver'
        /\ \A m \in Listeners : passed'[m] # 0 =>
             HasClaim(Watched)' /\ turn'[m] > turn'[Watched]
    BY <1>1, <2>1, <2>2, <2>3, StampFair
  <2>6. QED BY <2>4, <2>5 DEF TurnsFair, Listing
<1>11. ASSUME NEW l \in Listeners, Listener(l) PROVE TurnsFair'
  <2>1. UNCHANGED <<r, turn>>
    BY <1>11 DEF Listener
  <2>2. CASE passed' = passed /\ HasClaim(Watched)'
    BY <2>1, <2>2 DEF TurnsFair, NobodyPassedOver, Listing
  <2>3. CASE passed' = [m \in Listeners |-> 0]
    <3>1. \A m \in Listeners : passed'[m] = 0
      BY <2>3
    <3>2. r'.user \in Listeners \cup {None}
      BY <1>1, <2>1 DEF RefillType
    <3>3. QED BY <2>1, <3>1, <3>2 DEF TurnsFair, NobodyPassedOver
  <2>4. QED BY <1>11, <2>2, <2>3 DEF Listener
<1>12. CASE Play \/ OtherTransaction \/ UNCHANGED autoVars
  <2>1. UNCHANGED <<around, taste, turn, passed, r>>
    BY <1>12 DEF Play, OtherTransaction, autoVars, engineVars
  <2>2. QED BY <2>1 DEF TurnsFair, NobodyPassedOver, HasClaim, Listing
<1>13. QED
  BY <1>4, <1>5, <1>6, <1>7, <1>8, <1>9, <1>10, <1>11, <1>12 DEF AutoNext, Refill

LEMMA AutoInitGood == AutoInit => AutoInvariant
<1> SUFFICES ASSUME AutoInit PROVE AutoInvariant
  OBVIOUS
<1>1. DbInvariant
  BY DbInitGood DEF AutoInit
<1>2. EngineType
  BY ListenersAssumption DEF AutoInit, EngineType, NoRefill, RefillType
<1>3. AheadBounded
  <2>1. PICK depth \in Depths : TRUE
    BY BoundsAssumption
  <2>6. depth \in Nat
    BY BoundsAssumption
  <2>2. IsFiniteSet({}) /\ Cardinality({}) = 0
    BY FS_EmptySet
  <2>3. auto = {} /\ Ahead = {}
    BY DEF AutoInit, Ahead
  <2>4. r.pc = "idle" /\ r.added = 0 /\ r.needed = 0
    BY DEF AutoInit, NoRefill
  <2>5. QED BY <2>2, <2>3, <2>4, <2>6 DEF AheadBounded
<1>4. TurnsFair
  BY ListenersAssumption
     DEF AutoInit, TurnsFair, NobodyPassedOver, NoRefill
<1>5. QED BY <1>1, <1>2, <1>3, <1>4 DEF AutoInvariant

LEMMA AutoStep == AutoInvariant /\ [AutoNext]_autoVars => AutoInvariant' /\ [DbNext]_db
<1> SUFFICES ASSUME AutoInvariant, [AutoNext]_autoVars
             PROVE  AutoInvariant' /\ [DbNext]_db
  OBVIOUS
<1>1. [DbNext]_db /\ DbInvariant'
  BY AutoStepIsDbStep, DbStepGood DEF AutoInvariant
<1>2. EngineType'
  BY EngineTypeStep DEF AutoInvariant
<1>3. AheadBounded'
  BY <1>1, AheadBoundedStep DEF AutoInvariant
<1>4. TurnsFair'
  BY <1>2, TurnsFairStep DEF AutoInvariant
<1>5. QED BY <1>1, <1>2, <1>3, <1>4 DEF AutoInvariant

\* The database under the engine behaves as QueueDb specifies.
THEOREM AutoImplementsDb == AutoSpec => DbSpec
<1>1. AutoInit => DbInit
  BY DEF AutoInit
<1>2. QED BY <1>1, AutoInitGood, AutoStep, PTL DEF AutoSpec, DbSpec

\* However a refill's snapshot is out of date, the songs that the engine has
\* waiting fit into the depth, besides the one that plays.
THEOREM AutoNeverTooFarAhead == AutoSpec => []NeverTooFarAhead
<1>1. AutoInvariant => NeverTooFarAhead
  <2> SUFFICES ASSUME AutoInvariant PROVE NeverTooFarAhead
    OBVIOUS
  <2>1. PICK depth \in Depths : Cardinality(Ahead) + (r.needed - r.added) <= depth + 1
    BY DEF AutoInvariant, AheadBounded
  <2>2. r.needed \in Nat /\ r.added \in Nat /\ r.added <= r.needed
    BY DEF AutoInvariant, AheadBounded, EngineType, RefillType
  <2>3. Cardinality(Ahead) \in Nat
    BY AheadOfQueued, FS_CardinalityType DEF AutoInvariant, AheadBounded
  <2>4. depth \in Nat
    BY BoundsAssumption
  <2>5. QED BY <2>1, <2>2, <2>3, <2>4 DEF NeverTooFarAhead
<1>2. QED BY <1>1, AutoInitGood, AutoStep, PTL DEF AutoSpec

\* From lists which a listener with a claim is on, nobody else has a second turn,
\* in a second later than that listener's last, before that listener has one:
\* whatever refills fail, lists are out of date and the clock reads.
THEOREM AutoNobodyPassedOver == AutoSpec => []NobodyPassedOver
<1>1. AutoInvariant => NobodyPassedOver
  BY DEF AutoInvariant, TurnsFair
<1>2. QED BY <1>1, AutoInitGood, AutoStep, PTL DEF AutoSpec
=============================================================================
