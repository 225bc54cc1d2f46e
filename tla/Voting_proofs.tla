---------------------------- MODULE Voting_proofs ----------------------------
(***************************************************************************)
(* Votes only ever change the queue by its transactions, and a round of    *)
(* skip votes takes at most the song it is about, for any number of        *)
(* listeners and requests, whatever the policy.                            *)
(*                                                                         *)
(* OneSongPerRound rests on the revision: no request is ahead of the       *)
(* database, and one whose revision is still the database's has read the   *)
(* list as it is now. The two together are inductive, by RevisionStep: a   *)
(* new list has a new revision.                                            *)
(***************************************************************************)
EXTENDS Voting, QueueDb_proofs

\* The item, the voter and the revision of a request, when the database is d:
\* it is not ahead, and its list is not old unless its revision is.
RequestOK(r, d) ==
  /\ r \in RequestType
  /\ r.pc \notin {"new", "done"} => r.by \in Listeners
  /\ r.pc \in {"record", "count"} => r.target \in Ids
  /\ r.pc \in {"record", "count", "edit", "clear"}
       /\ r.wish \notin {"skip", "unskip"} => r.target \in Ids
  /\ r.pc \in {"sent", "items", "record", "count", "edit"} => r.rev <= d.rev
  /\ r.pc \in {"record", "count", "edit"} /\ r.rev = d.rev => r.order = d.order

TimesOK ==
  /\ enabled \in BOOLEAN /\ left \in Nat
  /\ idle \in [Listeners -> 0..Unseen]
  /\ age \in [Targets -> [Listeners -> 0..Gone]]

RequestsOK ==
  /\ DOMAIN req = Requests
  /\ req = [q \in Requests |-> req[q]]
  /\ \A q \in Requests : RequestOK(req[q], db)

VotingInvariant == DbInvariant /\ TimesOK /\ RequestsOK

\* A commit of a removal removes an item; every other step of a request
\* leaves the database alone.
LEMMA VotingStepIsDbStep == VotingInvariant /\ [Next]_vars => [DbNext]_db
<1> SUFFICES ASSUME VotingInvariant, Next PROVE [DbNext]_db
  BY DEF vars
<1>1. ASSUME NEW q \in Requests, RequestStep(q) PROVE [DbNext]_db
  <2>1. CASE Commit(q)
    <3>1. CASE Skips(q)
      BY <2>1, <3>1 DEF Commit, DbNext
    <3>2. CASE ~Skips(q)
      <4>1. req[q].target \in Ids
        BY <2>1, <3>2 DEF Commit, At, Skips, VotingInvariant, RequestsOK, RequestOK
      <4>2. DbRemove(req[q].target)
        BY <2>1, <3>2 DEF Commit
      <4>3. QED BY <4>1, <4>2 DEF DbNext
    <3>3. QED BY <3>1, <3>2
  <2>2. CASE ~Commit(q)
    BY <1>1, <2>2 DEF RequestStep, Send, ReadState, ReadItems, Record, Count, Refuse,
                      ClearVotes
  <2>3. QED BY <2>1, <2>2
<1>2. CASE Claim
  <2>1. \A i \in DOMAIN db.order : db.order[i] \in Ids
    BY DEF VotingInvariant, DbInvariant, DbTypeOK, DbType
  <2>2. QED BY <1>2, <2>1 DEF Claim, DbNext
<1>3. CASE OtherTransaction
  <2>1. "stopped" \in Statuses
    BY DEF Statuses
  <2>2. QED BY <1>3, <2>1 DEF OtherTransaction, DbNext
<1>4. CASE (\E l \in Listeners : Show(l)) \/ Tick \/ Configure
  BY <1>4 DEF Show, Tick, Configure
<1>5. QED
  BY <1>1, <1>2, <1>3, <1>4 DEF Next

-----------------------------------------------------------------------------
(* The requests.                                                           *)

\* A transaction leaves the requests as sound as they were.
LEMMA StaysOK ==
  ASSUME DbInvariant, DbInvariant', RevisionStep, NEW r, RequestOK(r, db)
  PROVE  RequestOK(r, db')
<1>1. /\ db.rev \in Nat /\ db'.rev \in Nat
      /\ r \in RequestType => r.rev \in Nat
  BY DEF DbInvariant, DbTypeOK, DbType, RequestType
<1>2. QED
  BY <1>1 DEF RequestOK, RevisionStep

\* A step of one request.
LEMMA OneRequestMoves ==
  ASSUME VotingInvariant, DbInvariant', RevisionStep,
         NEW q \in Requests, NEW r, req' = [req EXCEPT ![q] = r], RequestOK(r, db')
  PROVE  RequestsOK'
<1>1. req' = [p \in Requests |-> IF p = q THEN r ELSE req[p]]
  BY DEF VotingInvariant, RequestsOK
<1>2. \A p \in Requests : RequestOK(req[p], db')
  BY StaysOK DEF VotingInvariant, RequestsOK
<1>3. QED
  BY <1>1, <1>2 DEF RequestsOK

\* The answer to a request forgets what it has read.
LEMMA AnswerOK ==
  ASSUME NEW r, RequestOK(r, db), r.pc \notin {"new", "done"}, NEW d
  PROVE  /\ RequestOK([NewRequest EXCEPT !.pc = "done"], d)
         /\ RequestOK([NewRequest EXCEPT !.pc = "refused", !.wish = r.wish,
                                         !.by = r.by, !.target = r.target], d)
<1>1. <<>> \in Seq(Ids)
  OBVIOUS
<1>2. RequestOK([NewRequest EXCEPT !.pc = "done"], d)
  BY <1>1 DEF NewRequest, RequestType, RequestOK
<1>3. /\ r.wish \in {"skip", "unskip", "remove", "unremove"}
      /\ r.by \in Listeners /\ r.target \in Ids \cup {None}
  BY DEF RequestOK, RequestType
<1> DEFINE a == [NewRequest EXCEPT !.pc = "refused", !.wish = r.wish,
                                   !.by = r.by, !.target = r.target]
<1>4. a \in RequestType /\ a.pc = "refused" /\ a.by = r.by
  BY <1>1, <1>3 DEF NewRequest, RequestType
<1> HIDE DEF a
<1>5. RequestOK(a, d)
  BY <1>3, <1>4 DEF RequestOK
<1>6. QED
  BY <1>2, <1>5 DEF a

LEMMA AnsweredKeeps ==
  ASSUME VotingInvariant, UNCHANGED db, NEW q \in Requests,
         req[q].pc \notin {"new", "done"}, NEW pc \in {"done", "refused"},
         Answered(q, pc)
  PROVE  RequestsOK'
<1>1. DbInvariant' /\ RevisionStep
  BY DEF VotingInvariant, DbInvariant, DbTypeOK, DbType, RevisionStep, RowsListedOnce,
         CurrentAgrees
<1>2. RequestOK(req[q], db)
  BY DEF VotingInvariant, RequestsOK
<1>3. QED
  BY <1>1, <1>2, AnswerOK, OneRequestMoves DEF Answered

LEMMA SendKeeps ==
  ASSUME VotingInvariant, NEW q \in Requests, NEW l \in Listeners, NEW wish \in Wishes,
         Send(q, l, wish)
  PROVE  RequestsOK'
<1>1. DbInvariant' /\ RevisionStep /\ db' = db
  BY DEF VotingInvariant, DbInvariant, DbTypeOK, DbType, RevisionStep, RowsListedOnce,
         CurrentAgrees, Send
<1>2. /\ db.rev \in Nat /\ db.order \in Seq(Ids) /\ db.current \in Ids \cup {None}
  BY DEF VotingInvariant, DbInvariant, DbTypeOK, DbType
<1>3. /\ SkipTarget(db.current, db.order) \in Ids \cup {None}
      /\ \A id \in Listed(db) : id \in Ids
  BY <1>2 DEF SkipTarget, Listed
<1>4. PICK wanted \in Ids \cup {None} :
        req' = [req EXCEPT ![q] = [NewRequest EXCEPT
                 !.pc = "sent", !.wish = wish, !.by = l, !.rev = db.rev,
                 !.wanted = wanted]]
  BY <1>3 DEF Send
<1> DEFINE r == [NewRequest EXCEPT !.pc = "sent", !.wish = wish, !.by = l,
                                   !.rev = db.rev, !.wanted = wanted]
<1>5. RequestOK(r, db')
  <2>1. <<>> \in Seq(Ids)
    OBVIOUS
  <2>2. r \in RequestType
    BY <1>2, <2>1, WishesAssumption DEF NewRequest, RequestType
  <2>3. r.pc = "sent" /\ r.by = l /\ r.rev = db.rev
    BY DEF NewRequest
  <2> HIDE DEF r
  <2>4. QED BY <1>1, <1>2, <2>2, <2>3 DEF RequestOK
<1>6. QED
  BY <1>1, <1>4, <1>5, OneRequestMoves

LEMMA ReadItemsKeeps ==
  ASSUME VotingInvariant, NEW q \in Requests, ReadItems(q)
  PROVE  RequestsOK'
<1> DEFINE target == IF Skips(q) THEN SkipTarget(req[q].current, db.order)
                                 ELSE req[q].wanted
           pc == NextPc(q, target)
           r == [req[q] EXCEPT !.pc = pc, !.order = db.order, !.target = target,
                               !.current = None]
<1>1. DbInvariant' /\ RevisionStep /\ db' = db
  BY DEF VotingInvariant, DbInvariant, DbTypeOK, DbType, RevisionStep, RowsListedOnce,
         CurrentAgrees, ReadItems
<1>2. /\ RequestOK(req[q], db) /\ req[q].pc = "items"
      /\ db.order \in Seq(Ids)
  BY DEF ReadItems, At, VotingInvariant, RequestsOK, DbInvariant, DbTypeOK, DbType
<1>3. target \in Ids \cup {None}
  BY <1>2 DEF SkipTarget, RequestOK, RequestType
<1>4. /\ pc \in {"refused", "edit", "record"}
      /\ pc = "record" => target # None
      /\ pc # "refused" /\ ~Skips(q) => target \in Ids
  <2>1. Skips(q) \/ target \in Listed(db) => Skips(q) \/ target \in Ids
    BY <1>2 DEF Listed
  <2>2. pc = "record" => target # None
    <3>1. \A i \in DOMAIN db.order : db.order[i] # None
      BY <1>2, NoneAssumption
    <3>2. None \notin Listed(db)
      BY <3>1 DEF Listed
    <3>3. QED BY <3>2 DEF NextPc
  <2>3. QED BY <2>1, <2>2 DEF NextPc
<1>5. req' = [req EXCEPT ![q] = r]
  BY DEF ReadItems, VotingInvariant, RequestsOK
<1>6. r \in RequestType /\ r.pc = pc /\ r.target = target /\ r.order = db.order
      /\ r.by = req[q].by /\ r.rev = req[q].rev /\ r.wish = req[q].wish
  <2> HIDE DEF pc, target
  <2>1. QED BY <1>2, <1>3, <1>4 DEF RequestOK, RequestType
<1>7. RequestOK(r, db')
  <2> HIDE DEF r, pc, target
  <2>1. QED BY <1>1, <1>2, <1>3, <1>4, <1>6 DEF RequestOK, Skips
<1>8. QED
  BY <1>1, <1>5, <1>7, OneRequestMoves

\* The other steps of a request, one or two fields at a time.
LEMMA RequestStepKeeps ==
  ASSUME VotingInvariant, DbInvariant', RevisionStep, NEW q \in Requests, RequestStep(q)
  PROVE  RequestsOK'
<1>1. RequestOK(req[q], db) /\ req[q] \in RequestType
  BY DEF VotingInvariant, RequestsOK, RequestOK
<1>2. CASE \E l \in Listeners, wish \in Wishes : Send(q, l, wish)
  BY <1>2, SendKeeps
<1>3. CASE ReadItems(q)
  BY <1>3, ReadItemsKeeps
<1>4. CASE ReadState(q)
  <2> DEFINE r == [req[q] EXCEPT !.pc = "items", !.current = db.current]
  <2>1. req' = [req EXCEPT ![q] = r] /\ db' = db /\ req[q].pc = "sent"
    BY <1>4 DEF ReadState, At, VotingInvariant, RequestsOK
  <2>2. db.current \in Ids \cup {None}
    BY DEF VotingInvariant, DbInvariant, DbTypeOK, DbType
  <2>3. RequestOK(r, db')
    BY <1>1, <2>1, <2>2 DEF RequestOK, RequestType
  <2>4. QED BY <2>1, <2>3, OneRequestMoves
<1>5. CASE Record(q)
  <2> DEFINE r == [req[q] EXCEPT !.pc = "count", !.voted = TRUE]
  <2>1. req' = [req EXCEPT ![q] = r] /\ db' = db /\ req[q].pc = "record"
    BY <1>5 DEF Record, At, VotingInvariant, RequestsOK
  <2>2. RequestOK(r, db')
    BY <1>1, <2>1 DEF RequestOK, RequestType
  <2>3. QED BY <2>1, <2>2, OneRequestMoves
<1>6. CASE Count(q)
  <2> DEFINE r == [req[q] EXCEPT !.pc = "edit"]
  <2>1. db' = db /\ req[q].pc = "count"
    BY <1>6 DEF Count, At
  <2>2. CASE req' = [req EXCEPT ![q].pc = "edit"]
    <3>1. req' = [req EXCEPT ![q] = r]
      BY <2>2 DEF VotingInvariant, RequestsOK
    <3>2. RequestOK(r, db')
      BY <1>1, <2>1 DEF RequestOK, RequestType
    <3>3. QED BY <3>1, <3>2, OneRequestMoves
  <2>3. CASE Answered(q, "done")
    BY <2>1, <2>3, AnsweredKeeps
  <2>4. QED BY <1>6, <2>2, <2>3 DEF Count, Goto
<1>7. CASE Commit(q)
  <2> DEFINE r == [req[q] EXCEPT !.pc = "clear"]
  <2>1. req' = [req EXCEPT ![q] = r] /\ req[q].pc = "edit"
    BY <1>7 DEF Commit, Goto, At, VotingInvariant, RequestsOK
  <2>2. RequestOK(r, db')
    BY <1>1, <2>1 DEF RequestOK, RequestType
  <2>3. QED BY <2>1, <2>2, OneRequestMoves
<1>8. CASE Refuse(q) \/ ClearVotes(q)
  <2>1. /\ db' = db /\ req[q].pc \in {"edit", "clear"}
        /\ Answered(q, "refused") \/ Answered(q, "done")
    BY <1>8 DEF Refuse, ClearVotes, At
  <2>2. QED BY <2>1, AnsweredKeeps
<1>9. QED
  BY <1>2, <1>3, <1>4, <1>5, <1>6, <1>7, <1>8 DEF RequestStep
-----------------------------------------------------------------------------
(* The ages and the policy.                                                *)

LEMMA TimesStep ==
  ASSUME VotingInvariant, [Next]_vars
  PROVE  TimesOK'
<1>1. /\ enabled \in BOOLEAN /\ left \in Nat
      /\ idle \in [Listeners -> 0..Unseen]
      /\ age \in [Targets -> [Listeners -> 0..Gone]]
      /\ ActiveWindow \in Nat /\ Timeout \in Nat
  BY PolicyAssumption DEF VotingInvariant, TimesOK
<1>2. Unseen \in Nat /\ Gone \in Nat /\ 0 \in 0..Unseen /\ 0 \in 0..Gone /\ Gone \in 0..Gone
  BY <1>1 DEF Unseen, Gone
<1>3. ASSUME NEW l \in Listeners, Touch(l) PROVE idle' \in [Listeners -> 0..Unseen]
  BY <1>1, <1>2, <1>3 DEF Touch
<1>4. ASSUME NEW q \in Requests, RequestStep(q)
      PROVE  TimesOK'
  <2>1. req[q].pc \notin {"new", "done"} => req[q].by \in Listeners
    BY DEF VotingInvariant, RequestsOK, RequestOK
  <2>2. CASE Record(q)
    <3>1. idle' \in [Listeners -> 0..Unseen]
      BY <1>3, <2>1, <2>2 DEF Record, At
    <3>2. PICK n \in {0, Gone} : age' = [age EXCEPT ![TargetOf(q)][req[q].by] = n]
      BY <2>2 DEF Record
    <3>3. age' \in [Targets -> [Listeners -> 0..Gone]]
      BY <1>1, <1>2, <3>2
    <3>4. QED BY <1>1, <2>2, <3>1, <3>3 DEF Record, TimesOK
  <2>3. CASE ClearVotes(q)
    <3>1. idle' \in [Listeners -> 0..Unseen]
      BY <1>1, <1>3, <2>1, <2>3 DEF ClearVotes, At
    <3>2. age' \in [Targets -> [Listeners -> 0..Gone]]
      BY <1>1, <1>2, <2>3 DEF ClearVotes
    <3>3. QED BY <1>1, <2>3, <3>1, <3>2 DEF ClearVotes, TimesOK
  <2>4. CASE Count(q)
    <3>1. idle' \in [Listeners -> 0..Unseen]
      BY <1>1, <1>3, <2>1, <2>4 DEF Count, At
    <3>2. QED BY <1>1, <2>4, <3>1 DEF Count, TimesOK
  <2>5. CASE UNCHANGED <<enabled, idle, age, left>>
    BY <1>1, <2>5 DEF TimesOK
  <2>6. QED
    BY <1>4, <2>2, <2>3, <2>4, <2>5
       DEF RequestStep, Send, ReadState, ReadItems, Commit, Refuse
<1>5. CASE \E l \in Listeners : Show(l)
  BY <1>1, <1>3, <1>5 DEF Show, TimesOK
<1>6. CASE Tick
  <2>1. idle' \in [Listeners -> 0..Unseen]
    BY <1>1, <1>6 DEF Tick, Unseen
  <2>2. age' \in [Targets -> [Listeners -> 0..Gone]]
    <3>1. ASSUME NEW t \in Targets, NEW l \in Listeners
          PROVE  (IF age[t][l] <= Timeout THEN age[t][l] + 1 ELSE age[t][l]) \in 0..Gone
      <4>1. age[t][l] \in 0..Gone
        BY <1>1
      <4>2. QED BY <1>1, <4>1 DEF Gone
    <3>2. QED BY <1>6, <3>1 DEF Tick
  <2>3. QED BY <1>1, <1>6, <2>1, <2>2 DEF Tick, TimesOK
<1>7. CASE Configure \/ OtherTransaction
  <2>1. left > 0 /\ left' = left - 1
    BY <1>7 DEF Configure, OtherTransaction, Disturb
  <2>2. UNCHANGED <<idle, age>> /\ enabled' \in BOOLEAN
    BY <1>1, <1>7 DEF Configure, OtherTransaction
  <2>3. left' \in Nat
    BY <1>1, <2>1
  <2>4. QED BY <1>1, <2>2, <2>3 DEF TimesOK
<1>8. CASE Claim \/ UNCHANGED vars
  BY <1>1, <1>8 DEF Claim, vars, voteVars, TimesOK
<1>9. CASE Next
  <2>1. CASE \E q \in Requests : RequestStep(q)
    BY <1>4, <2>1
  <2>2. QED BY <1>5, <1>6, <1>7, <1>8, <1>9, <2>1 DEF Next
<1>10. QED
  BY <1>8, <1>9
-----------------------------------------------------------------------------
LEMMA VotingInit == Init => VotingInvariant
<1> SUFFICES ASSUME Init PROVE VotingInvariant
  OBVIOUS
<1>1. DbInvariant
  BY DbInitGood DEF Init
<1>2. TimesOK
  BY PolicyAssumption DEF Init, TimesOK, Unseen, Gone
<1>3. RequestOK(NewRequest, db)
  <2>1. <<>> \in Seq(Ids)
    OBVIOUS
  <2>2. QED BY <2>1 DEF RequestOK, NewRequest, RequestType
<1>4. RequestsOK
  BY <1>3 DEF Init, RequestsOK
<1>5. QED BY <1>1, <1>2, <1>4 DEF VotingInvariant

LEMMA VotingStep == VotingInvariant /\ [Next]_vars => VotingInvariant'
<1> SUFFICES ASSUME VotingInvariant, [Next]_vars PROVE VotingInvariant'
  OBVIOUS
<1>1. DbInvariant' /\ RevisionStep
  BY VotingStepIsDbStep, DbStepGood, DbStepRevision DEF VotingInvariant
<1>2. TimesOK'
  BY TimesStep
<1>3. RequestsOK'
  <2>1. CASE \E q \in Requests : RequestStep(q)
    BY <1>1, <2>1, RequestStepKeeps
  <2>2. CASE UNCHANGED req
    BY <1>1, <2>2, StaysOK DEF VotingInvariant, RequestsOK
  <2>3. QED
    BY <2>1, <2>2 DEF Next, Show, Tick, Configure, Claim, OtherTransaction, vars, voteVars
<1>4. QED BY <1>1, <1>2, <1>3 DEF VotingInvariant

LEMMA VotingSafe == Spec => []VotingInvariant
BY VotingInit, VotingStep, PTL DEF Spec

\* Votes, their expiry and the edits they carry leave every variable well formed,
\* and no vote is recorded or counted without a voter and an item.
THEOREM VotingTypeCorrect == Spec => []VotingTypeOK
<1>1. VotingInvariant => VotingTypeOK
  BY DEF VotingInvariant, DbInvariant, TimesOK, RequestsOK, RequestOK, VotingTypeOK, Skips
<1>2. QED BY <1>1, VotingSafe, PTL

\* A household that votes changes the queue only by the transactions of QueueDb.
THEOREM VotingImplementsDb == Spec => DbSpec
<1>1. Init => DbInit
  BY DEF Init
<1>2. QED
  BY <1>1, VotingSafe, VotingStepIsDbStep, PTL DEF Spec, DbSpec

\* Hence failed items stay failed.
THEOREM VotingFailedStays == Spec => FailedStays
BY VotingImplementsDb, DbFailedStays

\* An accepted skip takes the song that was voted on, when it headed the list:
\* however many requests count the same votes, one of them takes it and the
\* others are refused.
THEOREM VotingOneSongPerRound == Spec => OneSongPerRound
<1>1. ASSUME VotingInvariant, NEW q \in Requests, Commit(q), Skips(q),
             req[q].order # <<>>, req[q].target = req[q].order[1]
      PROVE  /\ db.st[req[q].target] # "deleted"
             /\ db'.st[req[q].target] = "deleted"
  <2>1. req[q].order = db.order
    BY <1>1 DEF Commit, Matches, At, VotingInvariant, RequestsOK, RequestOK
  <2>2. db \in DbType /\ ListedOnce(db)
    BY <1>1 DEF VotingInvariant, DbInvariant, DbTypeOK, RowsListedOnce
  <2>3. 1 \in DOMAIN db.order /\ db.order[1] \in Ids
    BY <1>1, <2>1, <2>2 DEF DbType
  <2>4. db.st[db.order[1]] \in RowStatus
    BY <2>2, <2>3 DEF ListedOnce, Listed
  <2>5. db' = Bump(DeleteRow(db, db.order[1]))
    BY <1>1 DEF Commit, DbSkip, Skip
  <2>6. db'.st = [db.st EXCEPT ![db.order[1]] = "deleted"]
    BY <2>2, <2>5 DEF Bump, DeleteRow, DbType
  <2>7. db.st \in [Ids -> RowStatus \cup {"absent", "deleted"}]
    BY <2>2 DEF DbType
  <2>8. QED
    BY <1>1, <2>1, <2>3, <2>4, <2>6, <2>7 DEF RowStatus
<1>2. VotingInvariant /\ [Next]_vars =>
        [\A q \in Requests :
           Commit(q) /\ Skips(q) /\ req[q].order # <<>>
             /\ req[q].target = req[q].order[1] =>
           /\ db.st[req[q].target] # "deleted"
           /\ db'.st[req[q].target] = "deleted"]_vars
  BY <1>1
<1>3. QED
  BY <1>2, VotingSafe, PTL DEF Spec, OneSongPerRound
-----------------------------------------------------------------------------
(* Majorities.                                                             *)

LEMMA MaxWithOne ==
  ASSUME NEW n \in Int
  PROVE  Max({1, n}) = IF n >= 1 THEN n ELSE 1
<1> DEFINE m == IF n >= 1 THEN n ELSE 1
<1>1. m \in {1, n} /\ \A y \in {1, n} : m >= y
  OBVIOUS
<1>2. \A x \in {1, n} : (\A y \in {1, n} : x >= y) => x = m
  OBVIOUS
<1>3. QED
  BY <1>1, <1>2 DEF Max

\* More listeners never need fewer votes, and no edit needs none.
LEMMA ThresholdGrows ==
  ASSUME NEW m \in Nat, NEW n \in Nat, m <= n
  PROVE  /\ Threshold(m) \in Nat /\ Threshold(n) \in Nat
         /\ 1 <= Threshold(m) /\ Threshold(m) <= Threshold(n)
<1> DEFINE big(k) == IF k >= 1 THEN k ELSE 1
           votes(k) == (big(k) * Percent + 99) \div 100
<1>1. Percent \in Nat
  BY PolicyAssumption
<1>2. big(m) \in Nat /\ big(n) \in Nat /\ big(m) <= big(n)
  OBVIOUS
<1>3. /\ big(m) * Percent \in Nat /\ big(n) * Percent \in Nat
      /\ big(m) * Percent <= big(n) * Percent
  <2> HIDE DEF big
  <2>1. PICK k \in Nat : big(n) = big(m) + k
    <3>1. big(n) - big(m) \in Nat /\ big(n) = big(m) + (big(n) - big(m))
      BY <1>2
    <3>2. QED BY <3>1
  <2>2. /\ big(m) * Percent \in Nat /\ k * Percent \in Nat
        /\ (big(m) + k) * Percent = big(m) * Percent + k * Percent
    BY <1>1, <1>2
  <2>3. QED BY <2>1, <2>2
<1>4. votes(m) \in Int /\ votes(n) \in Int /\ votes(m) <= votes(n)
  <2> HIDE DEF big
  <2>1. QED BY <1>3
<1>5. \A k \in {m, n} : Threshold(k) = IF votes(k) >= 1 THEN votes(k) ELSE 1
  <2> SUFFICES ASSUME NEW k \in {m, n}
               PROVE  Threshold(k) = IF votes(k) >= 1 THEN votes(k) ELSE 1
    OBVIOUS
  <2>1. Max({1, k}) = big(k)
    BY MaxWithOne
  <2>2. Threshold(k) = Max({1, votes(k)})
    BY <2>1 DEF Threshold
  <2>3. QED BY <1>4, <2>2, MaxWithOne
<1> HIDE DEF big, votes
<1>6. QED
  BY <1>4, <1>5

Seen == {l \in Listeners : idle[l] # Unseen}

\* Request r has recorded a vote for the target, and has not returned unless
\* its edit was refused.
Speaks(r, target) ==
  /\ r.wish \in {"skip", "remove"}
  /\ target = <<IF r.wish \in {"skip", "unskip"} THEN "skip" ELSE "remove", r.target>>
  /\ r.pc \in {"count", "edit", "clear", "refused"}

\* MajorityIsHeard, also of a household that has its voting switched off.
MajoritiesHeard ==
  \A target \in Targets :
    Cardinality(VotesFor(target)) >= Threshold(Cardinality(Seen)) =>
      \E q \in Requests : Speaks(req[q], target)

LEMMA NoMoreVotes ==
  ASSUME NEW S \in SUBSET Listeners, NEW T \in SUBSET S
  PROVE  Cardinality(T) \in Nat /\ Cardinality(S) \in Nat
         /\ Cardinality(T) <= Cardinality(S)
BY ListenersAssumption, FS_Subset, FS_CardinalityType

\* Fewer votes of more listeners carry no more than before.
LEMMA CarriesLess ==
  ASSUME NEW V \in SUBSET Listeners, NEW W \in SUBSET V,
         NEW S \in SUBSET Listeners, NEW T \in SUBSET S,
         Cardinality(W) >= Threshold(Cardinality(S))
  PROVE  Cardinality(V) >= Threshold(Cardinality(T))
<1>1. /\ Cardinality(W) \in Nat /\ Cardinality(V) \in Nat
      /\ Cardinality(W) <= Cardinality(V)
  BY NoMoreVotes
<1>2. /\ Cardinality(T) \in Nat /\ Cardinality(S) \in Nat
      /\ Cardinality(T) <= Cardinality(S)
  BY NoMoreVotes
<1>3. /\ Threshold(Cardinality(T)) \in Nat /\ Threshold(Cardinality(S)) \in Nat
      /\ Threshold(Cardinality(T)) <= Threshold(Cardinality(S))
  BY <1>2, ThresholdGrows
<1>4. QED BY <1>1, <1>3

\* Nobody is unseen again.
LEMMA SeenGrows ==
  ASSUME VotingInvariant, [Next]_vars
  PROVE  Seen \subseteq Seen'
<1>1. ActiveWindow \in Nat /\ idle \in [Listeners -> 0..Unseen]
  BY PolicyAssumption DEF VotingInvariant, TimesOK
<1>2. ASSUME NEW l, Touch(l) PROVE Seen \subseteq Seen'
  BY <1>1, <1>2 DEF Touch, Seen, Unseen
<1>3. CASE UNCHANGED idle
  BY <1>3 DEF Seen
<1>4. CASE Tick
  BY <1>1, <1>4 DEF Tick, Seen, Unseen
<1>5. CASE \E q \in Requests : RequestStep(q)
  BY <1>2, <1>3, <1>5
     DEF RequestStep, Send, ReadState, ReadItems, Record, Count, Commit, Refuse, ClearVotes
<1>6. QED
  BY <1>2, <1>3, <1>4, <1>5
     DEF Next, Show, Configure, Claim, OtherTransaction, vars, voteVars

\* Only Record adds a vote.
LEMMA VotesGrowInRecord ==
  ASSUME VotingInvariant, [Next]_vars, NEW target \in Targets,
         ~(\E q \in Requests : /\ Record(q) /\ req[q].wish \in {"skip", "remove"}
                               /\ TargetOf(q) = target)
  PROVE  VotesFor(target)' \subseteq VotesFor(target)
<1>1. Timeout \in Nat /\ age \in [Targets -> [Listeners -> 0..Gone]]
  BY PolicyAssumption DEF VotingInvariant, TimesOK
<1>2. CASE UNCHANGED age
  BY <1>2 DEF VotesFor
<1>3. CASE Tick
  BY <1>1, <1>3 DEF Tick, VotesFor, Gone
<1>4. ASSUME NEW q \in Requests, Record(q) PROVE VotesFor(target)' \subseteq VotesFor(target)
  <2>1. PICK n \in {0, Gone} :
          /\ age' = [age EXCEPT ![TargetOf(q)][req[q].by] = n]
          /\ TargetOf(q) = target => n = Gone
    BY <1>4 DEF Record
  <2>2. CASE TargetOf(q) = target
    BY <1>1, <2>1, <2>2 DEF VotesFor, Gone
  <2>3. CASE TargetOf(q) # target
    BY <1>1, <2>1, <2>3 DEF VotesFor
  <2>4. QED BY <2>2, <2>3
<1>5. ASSUME NEW q \in Requests, ClearVotes(q)
      PROVE  VotesFor(target)' \subseteq VotesFor(target)
  BY <1>1, <1>5 DEF ClearVotes, VotesFor, Gone
<1>6. CASE \E q \in Requests : RequestStep(q)
  BY <1>2, <1>4, <1>5, <1>6
     DEF RequestStep, Send, ReadState, ReadItems, Count, Commit, Refuse
<1>7. QED
  BY <1>2, <1>3, <1>6
     DEF Next, Show, Configure, Claim, OtherTransaction, vars, voteVars

\* A request stops speaking for an item only when the votes do not suffice or
\* have been cleared.
LEMMA SpeaksOn ==
  ASSUME VotingInvariant, [Next]_vars, NEW target \in Targets,
         NEW q \in Requests, Speaks(req[q], target),
         Cardinality(VotesFor(target)') >= Threshold(Cardinality(Seen'))
  PROVE  Speaks(req'[q], target)
<1>1. req[q] \in RequestType /\ req = [p \in Requests |-> req[p]]
  BY DEF VotingInvariant, RequestsOK, RequestOK
<1>2. TargetOf(q) = target
  BY DEF Speaks, TargetOf, Skips
<1>3. CASE req'[q] = req[q]
  BY <1>3
<1>4. CASE Count(q)
  <2>1. CASE req' = [req EXCEPT ![q].pc = "edit"]
    BY <1>1, <2>1 DEF Speaks, RequestType
  <2>2. CASE ~(req' = [req EXCEPT ![q].pc = "edit"])
    <3>1. ~Carried(target) /\ age' = age
      BY <1>2, <1>4, <2>2 DEF Count, Goto, Speaks
    <3>2. ~(Cardinality(VotesFor(target)) >= Threshold(Cardinality(Active)))
      BY <3>1 DEF Carried
    <3>3. VotesFor(target)' = VotesFor(target)
      BY <3>1 DEF VotesFor
    <3>4. Active \subseteq Seen /\ Seen \subseteq Seen' /\ Seen' \subseteq Listeners
      BY SeenGrows, PolicyAssumption DEF Active, Seen, Unseen, VotingInvariant, TimesOK
    <3>5. VotesFor(target) \subseteq Listeners
      BY DEF VotesFor
    <3>6. QED BY <3>2, <3>3, <3>4, <3>5, CarriesLess
  <2>3. QED BY <2>1, <2>2
<1>5. CASE ClearVotes(q)
  <2>1. VotesFor(target)' = {}
    BY <1>2, <1>5, PolicyAssumption DEF ClearVotes, VotesFor, Gone
  <2>2. Seen' \in SUBSET Listeners
    BY DEF Seen
  <2>3. Cardinality(Seen') \in Nat
    BY <2>2, NoMoreVotes
  <2>4. Threshold(Cardinality(Seen')) \in Nat /\ 1 <= Threshold(Cardinality(Seen'))
    BY <2>3, ThresholdGrows
  <2>5. Cardinality(VotesFor(target)') = 0
    BY <2>1, FS_EmptySet
  <2>6. QED BY <2>4, <2>5
<1>6. CASE Commit(q)
  BY <1>1, <1>6 DEF Commit, Goto, Speaks, RequestType
<1>7. CASE Refuse(q)
  BY <1>1, <1>7 DEF Refuse, Answered, NewRequest, Speaks, RequestType
<1>8. ASSUME NEW p \in Requests, RequestStep(p), p # q PROVE req'[q] = req[q]
  BY <1>1, <1>8
     DEF RequestStep, Send, ReadState, ReadItems, Record, Count, Commit, Refuse,
         ClearVotes, Goto, Answered
<1>9. CASE RequestStep(q)
  BY <1>4, <1>5, <1>6, <1>7, <1>9
     DEF RequestStep, Send, ReadState, ReadItems, Record, At, Speaks
<1>10. QED
  BY <1>3, <1>8, <1>9
     DEF Next, Show, Tick, Configure, Claim, OtherTransaction, vars, voteVars

LEMMA MajoritiesHeardStep ==
  VotingInvariant /\ MajoritiesHeard /\ [Next]_vars => MajoritiesHeard'
<1> SUFFICES ASSUME VotingInvariant, MajoritiesHeard, [Next]_vars,
                    NEW target \in Targets,
                    Cardinality(VotesFor(target)') >= Threshold(Cardinality(Seen'))
             PROVE  \E q \in Requests : Speaks(req'[q], target)
  BY DEF MajoritiesHeard
<1>1. CASE \E q \in Requests : /\ Record(q) /\ req[q].wish \in {"skip", "remove"}
                               /\ TargetOf(q) = target
  <2>1. PICK q \in Requests : /\ Record(q) /\ req[q].wish \in {"skip", "remove"}
                              /\ TargetOf(q) = target
    BY <1>1
  <2>2. req[q] \in RequestType /\ req = [p \in Requests |-> req[p]]
    BY DEF VotingInvariant, RequestsOK, RequestOK
  <2>3. req'[q].pc = "count" /\ req'[q].wish = req[q].wish
        /\ req'[q].target = req[q].target
    BY <2>1, <2>2 DEF Record, RequestType
  <2>4. QED BY <2>1, <2>3 DEF Speaks, TargetOf, Skips
<1>2. CASE ~(\E q \in Requests : /\ Record(q) /\ req[q].wish \in {"skip", "remove"}
                                 /\ TargetOf(q) = target)
  <2>1. VotesFor(target)' \subseteq VotesFor(target)
    BY <1>2, VotesGrowInRecord
  <2>2. Seen \subseteq Seen' /\ Seen' \subseteq Listeners
        /\ VotesFor(target) \subseteq Listeners
    BY SeenGrows DEF Seen, VotesFor
  <2>3. Cardinality(VotesFor(target)) >= Threshold(Cardinality(Seen))
    BY <2>1, <2>2, CarriesLess
  <2>4. QED BY <2>3, SpeaksOn DEF MajoritiesHeard
<1>3. QED BY <1>1, <1>2

\* No majority goes unheard between the critical sections that record and count,
\* for any household, policy and number of requests.
THEOREM VotingMajorityIsHeard == Spec => []MajorityIsHeard
<1>1. Init => MajoritiesHeard
  <2> SUFFICES ASSUME Init, NEW target \in Targets
               PROVE  ~(Cardinality(VotesFor(target)) >= Threshold(Cardinality(Seen)))
    BY DEF MajoritiesHeard
  <2>1. VotesFor(target) = {}
    BY PolicyAssumption DEF Init, VotesFor, Gone
  <2>2. Seen \in SUBSET Listeners
    BY DEF Seen
  <2>3. Cardinality(Seen) \in Nat
    BY <2>2, NoMoreVotes
  <2>4. Threshold(Cardinality(Seen)) \in Nat /\ 1 <= Threshold(Cardinality(Seen))
    BY <2>3, ThresholdGrows
  <2>5. Cardinality(VotesFor(target)) = 0
    BY <2>1, FS_EmptySet
  <2>6. QED BY <2>4, <2>5
<1>2. MajoritiesHeard => MajorityIsHeard
  BY DEF MajoritiesHeard, MajorityIsHeard, Seen, Speaks, TargetOf, Skips
<1>3. QED
  BY <1>1, <1>2, VotingSafe, MajoritiesHeardStep, PTL DEF Spec
=============================================================================
