------------------------- MODULE Enrichment_proofs --------------------------
(***************************************************************************)
(* Proofs about Enrichment, for any number of songs, lookups, goroutines   *)
(* and slots. The three invariants are inductive together; the step that a *)
(* result is replaced by 'pending' needs one more fact, what a lookup that *)
(* is about to write knows of the row.                                     *)
(***************************************************************************)
EXTENDS Enrichment, FiniteSetTheorems, TLAPS

LookupPcs == {"none", "put", "register"}
SlotPcs == {"ask", "found", "missed", "release"}
FetchPcs == {"none", "slot", "forget"} \cup SlotPcs

RowType == [status: {"none", "pending"} \cup Results, fresh: BOOLEAN]
LookupType == [pc: LookupPcs, key: Keys \cup {None}, late: BOOLEAN]
FetchType == [pc: FetchPcs, key: Keys \cup {None}]

\* What EnrichmentTypeOK says of each table, with the keys that a busy lookup
\* or goroutine has.
RowsOK == row \in [Keys -> RowType]
LookupsOK ==
  /\ lookup \in [Lookups -> LookupType]
  /\ \A l \in Lookups : lookup[l].pc # "none" => lookup[l].key \in Keys
FetchesOK ==
  /\ fetch \in [Fetches -> FetchType]
  /\ \A f \in Fetches : fetch[f].pc # "none" => fetch[f].key \in Keys
CountersOK == inflight \subseteq Keys /\ left \in Nat /\ slots \in Nat

\* A lookup about to write 'pending' found no result that is still valid, unless
\* one was stored since.
NothingOverlooked ==
  \A l \in Lookups :
    LET r == row[lookup[l].key]
    IN  lookup[l].pc = "put" /\ ~lookup[l].late => ~(r.status \in Results /\ r.fresh)

Types == RowsOK /\ LookupsOK /\ FetchesOK /\ CountersOK
Inv == Types /\ OneFetchPerKey /\ SlotsAccounted /\ NothingOverlooked

LEMMA TypesAreTypeOK == Types => EnrichmentTypeOK
BY DEF Types, RowsOK, LookupsOK, FetchesOK, CountersOK, EnrichmentTypeOK, RowType,
       LookupType, FetchType, LookupPcs, FetchPcs, SlotPcs, Working

LEMMA InitInv == Init => Inv
<1> SUFFICES ASSUME Init PROVE Inv
  OBVIOUS
<1>1. Types
  BY EnrichmentAssumption
  DEF Init, Types, RowsOK, LookupsOK, FetchesOK, CountersOK, RowType, LookupType,
      FetchType, LookupPcs, FetchPcs, SlotPcs, NoRow, NoLookup, NoFetch
<1>2. Working = {} /\ HoldingSlot = {}
  BY DEF Init, Working, HoldingSlot, NoFetch
<1>3. OneFetchPerKey
  BY <1>2 DEF OneFetchPerKey, Init
<1>4. SlotsAccounted
  BY <1>2, FS_EmptySet, EnrichmentAssumption DEF SlotsAccounted, Init
<1>5. NothingOverlooked
  BY DEF Init, NothingOverlooked, NoLookup
<1> QED
  BY <1>1, <1>3, <1>4, <1>5 DEF Inv
-----------------------------------------------------------------------------
(* What a step does to the goroutine that takes it.                        *)

OthersWork(f) == \A g \in Fetches \ {f} : fetch'[g] = fetch[g]

LEMMA StepEffect ==
  ASSUME NEW f \in Fetches, NEW pc \in FetchPcs \ {"none"}, FetchesOK,
         ~FetchAt(f, "none"), Step(f, pc)
  PROVE  /\ FetchesOK' /\ OthersWork(f)
         /\ fetch'[f].pc = pc /\ fetch'[f].key = fetch[f].key
BY DEF Step, FetchAt, FetchesOK, FetchType, OthersWork, FetchPcs

\* A goroutine that goes on with its key keeps every key with one goroutine.
LEMMA StepKeepsKeys ==
  ASSUME NEW f \in Fetches, OneFetchPerKey, UNCHANGED inflight, OthersWork(f),
         fetch[f].pc # "none", fetch'[f].pc # "none", fetch'[f].key = fetch[f].key
  PROVE  OneFetchPerKey'
<1>1. Working' = Working
  BY DEF Working, OthersWork
<1>2. \A g \in Working : fetch'[g].key = fetch[g].key
  BY DEF Working, OthersWork
<1> QED
  BY <1>1, <1>2 DEF OneFetchPerKey

LEMMA HoldersFinite ==
  IsFiniteSet(HoldingSlot) /\ Cardinality(HoldingSlot) \in Nat
BY FS_Subset, FS_CardinalityType, EnrichmentAssumption DEF HoldingSlot

\* Nobody takes or frees a slot.
LEMMA SameHolders ==
  ASSUME NEW f \in Fetches, SlotsAccounted, UNCHANGED slots, OthersWork(f),
         fetch'[f].pc \in SlotPcs <=> fetch[f].pc \in SlotPcs
  PROVE  SlotsAccounted'
<1>1. HoldingSlot' = HoldingSlot
  BY DEF HoldingSlot, OthersWork, SlotPcs
<1> QED
  BY <1>1 DEF SlotsAccounted

LEMMA OneMoreHolder ==
  ASSUME NEW f \in Fetches, SlotsAccounted, slots < MaxInflight, slots' = slots + 1,
         OthersWork(f), fetch'[f].pc \in SlotPcs, fetch[f].pc \notin SlotPcs
  PROVE  SlotsAccounted'
<1>1. HoldingSlot' = HoldingSlot \cup {f} /\ f \notin HoldingSlot
  BY DEF HoldingSlot, OthersWork, SlotPcs
<1>2. Cardinality(HoldingSlot') = Cardinality(HoldingSlot) + 1
  BY <1>1, HoldersFinite, FS_AddElement
<1> QED
  BY <1>2, HoldersFinite, EnrichmentAssumption DEF SlotsAccounted

LEMMA OneHolderLess ==
  ASSUME NEW f \in Fetches, SlotsAccounted, slots' = slots - 1,
         OthersWork(f), fetch[f].pc \in SlotPcs, fetch'[f].pc \notin SlotPcs
  PROVE  SlotsAccounted' /\ slots' \in Nat
<1>1. HoldingSlot' = HoldingSlot \ {f} /\ f \in HoldingSlot
  BY DEF HoldingSlot, OthersWork, SlotPcs
<1>2. Cardinality(HoldingSlot') = Cardinality(HoldingSlot) - 1
  BY <1>1, HoldersFinite, FS_RemoveElement
<1>3. Cardinality(HoldingSlot) # 0
  BY <1>1, HoldersFinite, FS_EmptySet
<1> QED
  BY <1>2, <1>3, HoldersFinite, EnrichmentAssumption DEF SlotsAccounted
-----------------------------------------------------------------------------
(* Lookups.                                                                *)

OthersLookUp(l) == \A m \in Lookups \ {l} : lookup'[m] = lookup[m]

LEMMA ReadKeeps ==
  ASSUME Inv, NEW l \in Lookups, NEW k \in Keys, Read(l, k)
  PROVE  Inv'
<1>1. UNCHANGED <<row, inflight, slots, fetch, left>>
  BY DEF Read
<1>2. LookupsOK' /\ NothingOverlooked'
  <2>1. CASE UNCHANGED lookup
    BY <1>1, <2>1 DEF Inv, Types, LookupsOK, NothingOverlooked
  <2>2. CASE /\ ~Usable(k)
             /\ lookup' = [lookup EXCEPT ![l] = [pc |-> "put", key |-> k, late |-> FALSE]]
    <3>1. lookup'[l] = [pc |-> "put", key |-> k, late |-> FALSE] /\ OthersLookUp(l)
      BY <2>2 DEF Inv, Types, LookupsOK, OthersLookUp
    <3>2. LookupsOK'
      BY <2>2 DEF Inv, Types, LookupsOK, LookupType, LookupPcs
    <3>3. ~row'[k].fresh
      BY <1>1, <2>2 DEF Usable
    <3>4. NothingOverlooked'
      BY <1>1, <3>1, <3>3 DEF Inv, NothingOverlooked, OthersLookUp
    <3> QED
      BY <3>2, <3>4
  <2> QED
    BY <2>1, <2>2 DEF Read
<1>3. (RowsOK /\ FetchesOK /\ CountersOK /\ OneFetchPerKey /\ SlotsAccounted)'
  BY <1>1 DEF Inv, Types, RowsOK, FetchesOK, CountersOK, OneFetchPerKey,
              SlotsAccounted, Working, HoldingSlot
<1> QED
  BY <1>2, <1>3 DEF Inv, Types

LEMMA PutPendingKeeps ==
  ASSUME Inv, NEW l \in Lookups, PutPending(l)
  PROVE  Inv'
<1> DEFINE k == lookup[l].key
<1>1. /\ UNCHANGED <<inflight, slots, fetch, left>> /\ lookup[l].pc = "put"
      /\ row' = [row EXCEPT ![k] = [status |-> "pending", fresh |-> TRUE]]
  BY DEF PutPending, LookupAt
<1>2. k \in Keys
  BY <1>1 DEF Inv, Types, LookupsOK
<1>3. RowsOK'
  BY <1>1, <1>2 DEF Inv, Types, RowsOK, RowType
<1>4. LookupsOK' /\ OthersLookUp(l) /\ lookup'[l].pc = "register"
  BY <1>1 DEF PutPending, Goto, Inv, Types, LookupsOK, LookupType, LookupPcs, OthersLookUp
<1>5. row'[k].status = "pending" /\ \A j \in Keys \ {k} : row'[j] = row[j]
  BY <1>1, <1>2 DEF Inv, Types, RowsOK
<1> HIDE DEF k
<1>6. NothingOverlooked'
  <2> SUFFICES ASSUME NEW m \in Lookups, lookup'[m].pc = "put", ~lookup'[m].late
               PROVE  ~(row'[lookup'[m].key].status \in Results /\ row'[lookup'[m].key].fresh)
    BY DEF NothingOverlooked
  <2>1. lookup'[m] = lookup[m] /\ lookup[m].key \in Keys
    BY <1>4 DEF OthersLookUp, Inv, Types, LookupsOK
  <2>2. CASE lookup[m].key = k
    BY <1>5, <2>1, <2>2 DEF Results
  <2>3. CASE lookup[m].key # k
    BY <1>5, <2>1, <2>3 DEF Inv, NothingOverlooked
  <2> QED
    BY <2>2, <2>3
<1>7. (FetchesOK /\ CountersOK /\ OneFetchPerKey /\ SlotsAccounted)'
  BY <1>1 DEF Inv, Types, FetchesOK, CountersOK, OneFetchPerKey, SlotsAccounted,
              Working, HoldingSlot
<1> QED
  BY <1>3, <1>4, <1>6, <1>7 DEF Inv, Types

\* The lookup is answered; only Start does more than that.
LEMMA AnsweredKeeps ==
  ASSUME Inv, NEW l \in Lookups, Answered(l), UNCHANGED row
  PROVE  LookupsOK' /\ RowsOK' /\ NothingOverlooked'
<1>1. LookupsOK' /\ OthersLookUp(l) /\ lookup'[l] = NoLookup
  BY DEF Answered, NoLookup, Inv, Types, LookupsOK, LookupType, LookupPcs, OthersLookUp
<1>2. NothingOverlooked'
  BY <1>1 DEF Inv, NothingOverlooked, OthersLookUp, NoLookup
<1> QED
  BY <1>1, <1>2 DEF Inv, Types, RowsOK

LEMMA LeaveKeeps ==
  ASSUME Inv, NEW l \in Lookups, LeaveToOther(l)
  PROVE  Inv'
<1>1. Answered(l) /\ UNCHANGED <<row, inflight, slots, fetch, left>>
  BY DEF LeaveToOther
<1>2. (FetchesOK /\ CountersOK /\ OneFetchPerKey /\ SlotsAccounted)'
  BY <1>1 DEF Inv, Types, FetchesOK, CountersOK, OneFetchPerKey, SlotsAccounted,
              Working, HoldingSlot
<1> QED
  BY <1>1, <1>2, AnsweredKeeps DEF Inv, Types

LEMMA LookupFailsKeeps ==
  ASSUME Inv, NEW l \in Lookups, LookupFails(l)
  PROVE  Inv'
<1>1. /\ Answered(l) /\ UNCHANGED <<row, inflight, slots, fetch>>
      /\ left > 0 /\ left' = left - 1
  BY DEF LookupFails
<1>2. CountersOK'
  BY <1>1 DEF Inv, Types, CountersOK
<1>3. (FetchesOK /\ OneFetchPerKey /\ SlotsAccounted)'
  BY <1>1 DEF Inv, Types, FetchesOK, OneFetchPerKey, SlotsAccounted, Working,
              HoldingSlot
<1> QED
  BY <1>1, <1>2, <1>3, AnsweredKeeps DEF Inv, Types

LEMMA StartKeeps ==
  ASSUME Inv, NEW l \in Lookups, Start(l)
  PROVE  Inv'
<1> DEFINE k == lookup[l].key
<1>1. /\ Answered(l) /\ UNCHANGED <<row, slots, left>> /\ lookup[l].pc # "none"
      /\ k \notin inflight /\ inflight' = inflight \cup {k}
  BY DEF Start, LookupAt
<1>2. PICK f \in Fetches :
        /\ fetch[f].pc = "none"
        /\ fetch' = [fetch EXCEPT ![f] = [pc |-> "slot", key |-> k]]
  BY DEF Start
<1>3. k \in Keys
  BY <1>1 DEF Inv, Types, LookupsOK
<1>4. FetchesOK' /\ OthersWork(f) /\ fetch'[f].pc = "slot" /\ fetch'[f].key = k
  BY <1>2, <1>3 DEF Inv, Types, FetchesOK, FetchType, FetchPcs, OthersWork
<1>5. CountersOK'
  BY <1>1, <1>3 DEF Inv, Types, CountersOK
<1> HIDE DEF k
<1>6. OneFetchPerKey'
  <2>1. Working' = Working \cup {f} /\ f \notin Working
    BY <1>2, <1>4 DEF Working, OthersWork
  <2>2. \A g \in Working : fetch'[g].key = fetch[g].key /\ fetch[g].key # k
    BY <1>1, <1>4, <2>1 DEF OthersWork, Working, Inv, OneFetchPerKey
  <2>3. inflight' = {fetch'[g].key : g \in Working'}
    BY <1>1, <1>4, <2>1, <2>2 DEF Inv, OneFetchPerKey
  <2>4. \A g, h \in Working' : fetch'[g].key = fetch'[h].key => g = h
    BY <1>4, <2>1, <2>2 DEF Inv, OneFetchPerKey
  <2> QED
    BY <2>3, <2>4 DEF OneFetchPerKey
<1>7. SlotsAccounted'
  BY <1>1, <1>2, <1>4, SameHolders DEF Inv, SlotPcs
<1> QED
  BY <1>1, <1>4, <1>5, <1>6, <1>7, AnsweredKeeps DEF Inv, Types
-----------------------------------------------------------------------------
(* Goroutines.                                                             *)

LEMMA LookupsStay ==
  ASSUME Inv, UNCHANGED <<row, lookup>>
  PROVE  RowsOK' /\ LookupsOK' /\ NothingOverlooked'
BY DEF Inv, Types, RowsOK, LookupsOK, NothingOverlooked

LEMMA TakeSlotKeeps ==
  ASSUME Inv, NEW f \in Fetches, TakeSlot(f)
  PROVE  Inv'
<1>1. /\ fetch[f].pc = "slot" /\ slots < MaxInflight /\ slots' = slots + 1
      /\ Step(f, "ask") /\ UNCHANGED <<row, inflight, lookup, left>>
  BY DEF TakeSlot, FetchAt
<1>2. /\ FetchesOK' /\ OthersWork(f)
      /\ fetch'[f].pc = "ask" /\ fetch'[f].key = fetch[f].key
  BY <1>1, StepEffect DEF FetchAt, Inv, Types, FetchPcs, SlotPcs
<1>3. CountersOK'
  BY <1>1 DEF Inv, Types, CountersOK
<1>4. OneFetchPerKey'
  BY <1>1, <1>2, StepKeepsKeys DEF Inv
<1>5. SlotsAccounted'
  BY <1>1, <1>2, OneMoreHolder DEF Inv, SlotPcs
<1> QED
  BY <1>1, <1>2, <1>3, <1>4, <1>5, LookupsStay DEF Inv, Types

LEMMA AskKeeps ==
  ASSUME Inv, NEW f \in Fetches, Ask(f)
  PROVE  Inv'
<1>1. fetch[f].pc = "ask" /\ UNCHANGED <<row, inflight, slots, lookup, left>>
  BY DEF Ask, FetchAt
<1>2. PICK pc \in {"found", "missed"} : Step(f, pc)
  BY DEF Ask
<1>3. /\ FetchesOK' /\ OthersWork(f)
      /\ fetch'[f].pc = pc /\ fetch'[f].key = fetch[f].key
  BY <1>1, <1>2, StepEffect DEF FetchAt, Inv, Types, FetchPcs, SlotPcs
<1>4. CountersOK'
  BY <1>1 DEF Inv, Types, CountersOK
<1>5. OneFetchPerKey'
  BY <1>1, <1>3, StepKeepsKeys DEF Inv
<1>6. SlotsAccounted'
  BY <1>1, <1>3, SameHolders DEF Inv, SlotPcs
<1> QED
  BY <1>1, <1>3, <1>4, <1>5, <1>6, LookupsStay DEF Inv, Types

\* Who has read the row of a key whose result is stored now, and is about to
\* write, is late.
LEMMA ResultIsNoticed ==
  ASSUME Inv, NEW k \in Keys, NEW r \in RowType, row' = [row EXCEPT ![k] = r],
         lookup' = [l \in Lookups |->
                      IF lookup[l].pc = "put" /\ lookup[l].key = k
                      THEN [lookup[l] EXCEPT !.late = TRUE] ELSE lookup[l]]
  PROVE  RowsOK' /\ LookupsOK' /\ NothingOverlooked'
<1>1. RowsOK' /\ \A j \in Keys \ {k} : row'[j] = row[j]
  BY DEF Inv, Types, RowsOK
<1>2. LookupsOK'
  BY DEF Inv, Types, LookupsOK, LookupType
<1>3. NothingOverlooked'
  <2> SUFFICES ASSUME NEW l \in Lookups, lookup'[l].pc = "put", ~lookup'[l].late
               PROVE  ~(row'[lookup'[l].key].status \in Results /\ row'[lookup'[l].key].fresh)
    BY DEF NothingOverlooked
  <2>1. lookup[l] \in LookupType
    BY DEF Inv, Types, LookupsOK
  <2>2. ~(lookup[l].pc = "put" /\ lookup[l].key = k)
    BY <2>1 DEF LookupType
  <2>3. lookup'[l] = lookup[l] /\ lookup[l].key \in Keys \ {k}
    BY <2>2 DEF Inv, Types, LookupsOK
  <2> QED
    BY <1>1, <2>3 DEF Inv, NothingOverlooked
<1> QED
  BY <1>1, <1>2, <1>3

LEMMA PutResultKeeps ==
  ASSUME Inv, NEW f \in Fetches, PutResult(f)
  PROVE  Inv'
<1> DEFINE k == fetch[f].key
           r == [status |-> Outcome(f), fresh |-> TRUE]
<1>1. /\ fetch[f].pc \in {"found", "missed"} /\ Step(f, "release")
      /\ UNCHANGED <<inflight, slots>>
  BY DEF PutResult, FetchAt
<1>2. k \in Keys /\ r \in RowType
  BY <1>1 DEF Inv, Types, FetchesOK, Outcome, RowType, Results
<1>3. /\ FetchesOK' /\ OthersWork(f)
      /\ fetch'[f].pc = "release" /\ fetch'[f].key = fetch[f].key
  BY <1>1, StepEffect DEF FetchAt, Inv, Types, FetchPcs, SlotPcs
<1>4. RowsOK' /\ LookupsOK' /\ NothingOverlooked' /\ CountersOK'
  <2>1. CASE /\ row' = [row EXCEPT ![k] = r] /\ UNCHANGED left
             /\ lookup' = [l \in Lookups |->
                             IF lookup[l].pc = "put" /\ lookup[l].key = k
                             THEN [lookup[l] EXCEPT !.late = TRUE] ELSE lookup[l]]
    <3>1. CountersOK'
      BY <1>1, <2>1 DEF Inv, Types, CountersOK
    <3> HIDE DEF k, r
    <3> QED
      BY <1>2, <2>1, <3>1, ResultIsNoticed
  <2>2. CASE left > 0 /\ left' = left - 1 /\ UNCHANGED <<row, lookup>>
    <3>1. CountersOK'
      BY <1>1, <2>2 DEF Inv, Types, CountersOK
    <3> QED
      BY <2>2, <3>1, LookupsStay
  <2> QED
    BY <2>1, <2>2 DEF PutResult
<1>5. OneFetchPerKey'
  BY <1>1, <1>3, StepKeepsKeys DEF Inv
<1>6. SlotsAccounted'
  BY <1>1, <1>3, SameHolders DEF Inv, SlotPcs
<1> QED
  BY <1>3, <1>4, <1>5, <1>6 DEF Inv, Types

LEMMA ReleaseSlotKeeps ==
  ASSUME Inv, NEW f \in Fetches, ReleaseSlot(f)
  PROVE  Inv'
<1>1. /\ fetch[f].pc = "release" /\ slots' = slots - 1 /\ Step(f, "forget")
      /\ UNCHANGED <<row, inflight, lookup, left>>
  BY DEF ReleaseSlot, FetchAt
<1>2. /\ FetchesOK' /\ OthersWork(f)
      /\ fetch'[f].pc = "forget" /\ fetch'[f].key = fetch[f].key
  BY <1>1, StepEffect DEF FetchAt, Inv, Types, FetchPcs, SlotPcs
<1>3. SlotsAccounted' /\ slots' \in Nat
  BY <1>1, <1>2, OneHolderLess DEF Inv, SlotPcs
<1>4. CountersOK'
  BY <1>1, <1>3 DEF Inv, Types, CountersOK
<1>5. OneFetchPerKey'
  BY <1>1, <1>2, StepKeepsKeys DEF Inv
<1> QED
  BY <1>1, <1>2, <1>3, <1>4, <1>5, LookupsStay DEF Inv, Types

\* The key was this goroutine's alone, so that it leaves the set for good.
LEMMA ForgetKeeps ==
  ASSUME Inv, NEW f \in Fetches, Forget(f)
  PROVE  Inv'
<1> DEFINE k == fetch[f].key
<1>1. /\ fetch[f].pc = "forget" /\ inflight' = inflight \ {k}
      /\ fetch' = [fetch EXCEPT ![f] = NoFetch]
      /\ UNCHANGED <<row, slots, lookup, left>>
  BY DEF Forget, FetchAt
<1>2. FetchesOK' /\ OthersWork(f) /\ fetch'[f].pc = "none"
  BY <1>1 DEF Inv, Types, FetchesOK, FetchType, FetchPcs, NoFetch, OthersWork
<1>3. CountersOK'
  BY <1>1 DEF Inv, Types, CountersOK
<1>4. OneFetchPerKey'
  <2>1. Working' = Working \ {f} /\ f \in Working
    BY <1>1, <1>2 DEF Working, OthersWork
  <2>2. \A g \in Working' : fetch'[g].key = fetch[g].key /\ fetch[g].key # k
    BY <1>2, <2>1 DEF OthersWork, Working, Inv, OneFetchPerKey
  <2> HIDE DEF k
  <2>3. \A j \in inflight \ {k} : \E g \in Working' : j = fetch'[g].key
    <3> SUFFICES ASSUME NEW j \in inflight \ {k}
                 PROVE  \E g \in Working' : j = fetch'[g].key
      OBVIOUS
    <3>1. PICK g \in Working : j = fetch[g].key
      BY DEF Inv, OneFetchPerKey
    <3>2. g # f
      BY <3>1 DEF k
    <3> QED
      BY <2>1, <2>2, <3>1, <3>2
  <2>4. inflight' = {fetch'[g].key : g \in Working'}
    <3>1. \A g \in Working' : fetch'[g].key \in inflight'
      BY <1>1, <2>1, <2>2 DEF Inv, OneFetchPerKey
    <3> QED
      BY <1>1, <2>3, <3>1
  <2>5. \A g, h \in Working' : fetch'[g].key = fetch'[h].key => g = h
    BY <2>1, <2>2 DEF Inv, OneFetchPerKey
  <2> QED
    BY <2>4, <2>5 DEF OneFetchPerKey
<1>5. SlotsAccounted'
  BY <1>1, <1>2, SameHolders DEF Inv, SlotPcs
<1> QED
  BY <1>1, <1>2, <1>3, <1>4, <1>5, LookupsStay DEF Inv, Types
-----------------------------------------------------------------------------
(* Time, faults, and every step.                                           *)

LEMMA ExpireKeeps ==
  ASSUME Inv, NEW k \in Keys, Expire(k)
  PROVE  Inv'
<1>1. /\ UNCHANGED <<inflight, slots, lookup, fetch, left>>
      /\ row' = [row EXCEPT ![k].fresh = FALSE]
  BY DEF Expire
<1>2. RowsOK' /\ ~row'[k].fresh /\ \A j \in Keys \ {k} : row'[j] = row[j]
  BY <1>1 DEF Inv, Types, RowsOK, RowType
<1>3. LookupsOK' /\ NothingOverlooked'
  BY <1>1, <1>2 DEF Inv, Types, LookupsOK, NothingOverlooked
<1>4. (FetchesOK /\ CountersOK /\ OneFetchPerKey /\ SlotsAccounted)'
  BY <1>1 DEF Inv, Types, FetchesOK, CountersOK, OneFetchPerKey, SlotsAccounted,
              Working, HoldingSlot
<1> QED
  BY <1>2, <1>3, <1>4 DEF Inv, Types

LEMMA RestartKeeps ==
  ASSUME Inv, Restart
  PROVE  Inv'
<1>1. /\ left > 0 /\ left' = left - 1 /\ inflight' = {} /\ slots' = 0
      /\ row' = [k \in Keys |-> IF row[k].fresh THEN row[k] ELSE NoRow]
      /\ lookup' = [l \in Lookups |-> NoLookup]
      /\ fetch' = [f \in Fetches |-> NoFetch]
  BY DEF Restart
<1>2. RowsOK' /\ LookupsOK' /\ FetchesOK'
  BY <1>1 DEF Inv, Types, RowsOK, LookupsOK, FetchesOK, RowType, LookupType, FetchType,
              LookupPcs, FetchPcs, NoRow, NoLookup, NoFetch
<1>3. CountersOK'
  BY <1>1 DEF Inv, Types, CountersOK
<1>4. Working' = {} /\ HoldingSlot' = {}
  BY <1>1 DEF Working, HoldingSlot, NoFetch
<1>5. OneFetchPerKey'
  BY <1>1, <1>4 DEF OneFetchPerKey
<1>6. SlotsAccounted'
  BY <1>1, <1>4, FS_EmptySet, EnrichmentAssumption DEF SlotsAccounted
<1>7. NothingOverlooked'
  BY <1>1 DEF NothingOverlooked, NoLookup
<1> QED
  BY <1>2, <1>3, <1>5, <1>6, <1>7 DEF Inv, Types

LEMMA Invariance == Inv /\ [Next]_vars => Inv'
<1> SUFFICES ASSUME Inv, [Next]_vars PROVE Inv'
  OBVIOUS
<1>1. ASSUME NEW l \in Lookups, LookupStep(l) \/ LookupFails(l) PROVE Inv'
  BY <1>1, PutPendingKeeps, LeaveKeeps, StartKeeps, LookupFailsKeeps DEF LookupStep
<1>2. ASSUME NEW f \in Fetches, FetchStep(f) PROVE Inv'
  BY <1>2, TakeSlotKeeps, AskKeeps, PutResultKeeps, ReleaseSlotKeeps, ForgetKeeps
  DEF FetchStep
<1>3. ASSUME NEW k \in Keys, AskFor(k) \/ Expire(k) PROVE Inv'
  BY <1>3, ReadKeeps, ExpireKeeps DEF AskFor
<1>4. CASE Restart
  BY <1>4, RestartKeeps
<1>5. CASE UNCHANGED vars
  BY <1>5 DEF vars, Inv, Types, RowsOK, LookupsOK, FetchesOK, CountersOK,
              OneFetchPerKey, SlotsAccounted, NothingOverlooked, Working, HoldingSlot
<1> QED
  BY <1>1, <1>2, <1>3, <1>4, <1>5 DEF Next

LEMMA Invariant == Spec => []Inv
BY InitInv, Invariance, PTL DEF Spec
-----------------------------------------------------------------------------
(* The results.                                                            *)

\* The coordinator's table, sets and goroutines keep their types; who is busy
\* has a key.
THEOREM EnrichmentTypeCorrect == Spec => []EnrichmentTypeOK
<1>1. Inv => EnrichmentTypeOK
  BY TypesAreTypeOK DEF Inv
<1> QED
  BY Invariant, <1>1, PTL

\* The keys in flight are those that goroutines work on, each one of its own.
THEOREM EnrichmentOneFetchPerKey == Spec => []OneFetchPerKey
<1>1. Inv => OneFetchPerKey
  BY DEF Inv
<1> QED
  BY Invariant, <1>1, PTL

\* The slots that are taken are held by fetches, at most MaxInflight of them.
THEOREM EnrichmentSlotsAccounted == Spec => []SlotsAccounted
<1>1. Inv => SlotsAccounted
  BY DEF Inv
<1> QED
  BY Invariant, <1>1, PTL

\* Nothing but PutPending makes a row pending.
LEMMA PendingIsPut ==
  ASSUME Types, [Next]_vars, NEW k \in Keys,
         row[k].status \in Results, row'[k].status = "pending"
  PROVE  \E l \in Lookups : PutPending(l) /\ lookup[l].key = k
<1> USE DEF Types, RowsOK, Results
<1>1. row' # row
  BY DEF RowType
<1>2. ASSUME NEW l \in Lookups, LookupStep(l) \/ LookupFails(l)
      PROVE  PutPending(l) /\ lookup[l].key = k
  <2>1. PutPending(l)
    BY <1>1, <1>2 DEF LookupStep, LookupFails, LeaveToOther, Start
  <2> QED
    BY <2>1 DEF PutPending, RowType
<1>3. ASSUME NEW f \in Fetches, FetchStep(f) PROVE FALSE
  <2>1. PutResult(f)
    BY <1>1, <1>3 DEF FetchStep, TakeSlot, Ask, ReleaseSlot, Forget
  <2>2. row' = [row EXCEPT ![fetch[f].key] = [status |-> Outcome(f), fresh |-> TRUE]]
    BY <1>1, <2>1 DEF PutResult
  <2> QED
    BY <2>2 DEF Outcome, RowType
<1>4. ASSUME NEW j \in Keys, AskFor(j) \/ Expire(j) PROVE FALSE
  <2>1. Expire(j)
    BY <1>1, <1>4 DEF AskFor, Read
  <2> QED
    BY <2>1 DEF Expire, RowType
<1>5. ~Restart
  BY DEF Restart, RowType, NoRow
<1> QED
  BY <1>1, <1>2, <1>3, <1>4, <1>5 DEF Next, vars

\* A valid result is replaced by 'pending' only by a lookup that read the row
\* before the result was there.
THEOREM EnrichmentResultsAreKept == Spec => ResultsAreKept
<1>1. Inv /\ [Next]_vars =>
        \A k \in Keys :
          row[k].status \in Results /\ row[k].fresh /\ row'[k].status = "pending" =>
            \E l \in Lookups : PutPending(l) /\ lookup[l].key = k /\ lookup[l].late
  <2> SUFFICES ASSUME Inv, [Next]_vars, NEW k \in Keys,
                      row[k].status \in Results, row[k].fresh, row'[k].status = "pending"
               PROVE  \E l \in Lookups : PutPending(l) /\ lookup[l].key = k /\ lookup[l].late
    OBVIOUS
  <2>1. PICK l \in Lookups : PutPending(l) /\ lookup[l].key = k
    BY PendingIsPut DEF Inv, Types, Results
  <2>2. lookup[l].late
    BY <2>1 DEF PutPending, LookupAt, Inv, NothingOverlooked
  <2> QED
    BY <2>1, <2>2
<1>2. Inv /\ [Next]_vars =>
        [\A k \in Keys :
           row[k].status \in Results /\ row[k].fresh /\ row'[k].status = "pending" =>
             \E l \in Lookups : PutPending(l) /\ lookup[l].key = k /\ lookup[l].late]_vars
  BY <1>1
<1> QED
  BY Invariant, <1>2, PTL DEF Spec, ResultsAreKept
=============================================================================
