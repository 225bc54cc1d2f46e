----------------------------- MODULE Enrichment -----------------------------
(***************************************************************************)
(* The metadata coordinator (internal/enrichment/coordinator.go) over its  *)
(* cache table: a lookup answers from a row that has not expired, and      *)
(* otherwise writes 'pending' and sees to it that one goroutine fetches    *)
(* the key. The row is read and written outside the mutex that guards the  *)
(* set of keys in flight, so lookups and fetches interleave between the    *)
(* two; the set is lost in a restart, the rows are not.                    *)
(*                                                                         *)
(* What the providers said is abstracted to whether any of them answered.  *)
(***************************************************************************)
EXTENDS Integers, FiniteSets

CONSTANTS
  Keys,          \* artist and title, hashed
  Lookups,       \* bound: lookups at a time (requests, the title observer)
  Fetches,       \* bound: goroutines at a time
  MaxInflight,   \* RASPI_MEDIA_PLAYER_METADATA_MAX_INFLIGHT
  Disturbances,  \* bound: restarts and failures of the database
  None

ASSUME EnrichmentAssumption ==
  /\ IsFiniteSet(Fetches)
  /\ MaxInflight \in Nat \ {0} /\ Disturbances \in Nat
  /\ None \notin Keys

VARIABLES
  row,        \* per key, media_enrichments: its status, and whether
              \* expires_at is still to come
  inflight,   \* keys, under the mutex
  slots,      \* messages in the channel of slots
  lookup,     \* per lookup, where it is; "late" is history: a result was
              \* stored after it read the row
  fetch,      \* per goroutine, where it is
  left        \* disturbances still to come

vars == <<row, inflight, slots, lookup, fetch, left>>

Results == {"ready", "not_found"}
NoRow == [status |-> "none", fresh |-> FALSE]
NoLookup == [pc |-> "none", key |-> None, late |-> FALSE]
NoFetch == [pc |-> "none", key |-> None]

Init ==
  /\ row = [k \in Keys |-> NoRow]
  /\ inflight = {}
  /\ slots = 0
  /\ lookup = [l \in Lookups |-> NoLookup]
  /\ fetch = [f \in Fetches |-> NoFetch]
  /\ left = Disturbances
-----------------------------------------------------------------------------
(* Lookup.                                                                 *)

LookupAt(l, pc) == lookup[l].pc = pc
Goto(l, pc) == lookup' = [lookup EXCEPT ![l].pc = pc]
Answered(l) == lookup' = [lookup EXCEPT ![l] = NoLookup]

\* Mutants: any row will do, however old; a result is asked for again.
UsableForever(k) == row[k].status # "none"
UsablePending(k) == row[k].fresh /\ row[k].status = "pending"

Usable(k) == row[k].fresh

\* The row answers the lookup, or is missing or has expired.
Read(l, k) ==
  /\ LookupAt(l, "none")
  /\ IF Usable(k) THEN UNCHANGED lookup
     ELSE lookup' = [lookup EXCEPT ![l] = [pc |-> "put", key |-> k, late |-> FALSE]]
  /\ UNCHANGED <<row, inflight, slots, fetch, left>>

\* Valid for ten minutes, over whatever the row holds by now.
PutPending(l) ==
  /\ LookupAt(l, "put")
  /\ row' = [row EXCEPT ![lookup[l].key] = [status |-> "pending", fresh |-> TRUE]]
  /\ Goto(l, "register")
  /\ UNCHANGED <<inflight, slots, fetch, left>>

\* The first critical section finds the key in flight.
LeaveToOther(l) ==
  /\ LookupAt(l, "register") /\ lookup[l].key \in inflight
  /\ Answered(l)
  /\ UNCHANGED <<row, inflight, slots, fetch, left>>

\* Mutant: nobody looks whether the key is in flight.
StartAnyway(l) ==
  /\ LookupAt(l, "register")
  /\ \E f \in Fetches :
       /\ fetch[f].pc = "none"
       /\ fetch' = [fetch EXCEPT ![f] = [pc |-> "slot", key |-> lookup[l].key]]
  /\ inflight' = inflight \cup {lookup[l].key}
  /\ Answered(l)
  /\ UNCHANGED <<row, slots, left>>

\* It does not: the same critical section registers it, and go c.fetch.
Start(l) ==
  /\ LookupAt(l, "register") /\ lookup[l].key \notin inflight
  /\ \E f \in Fetches :
       /\ fetch[f].pc = "none"
       /\ fetch' = [fetch EXCEPT ![f] = [pc |-> "slot", key |-> lookup[l].key]]
  /\ inflight' = inflight \cup {lookup[l].key}
  /\ Answered(l)
  /\ UNCHANGED <<row, slots, left>>
-----------------------------------------------------------------------------
(* fetch.                                                                  *)

FetchAt(f, pc) == fetch[f].pc = pc
Step(f, pc) == fetch' = [fetch EXCEPT ![f].pc = pc]

TakeSlot(f) ==
  /\ FetchAt(f, "slot") /\ slots < MaxInflight
  /\ slots' = slots + 1
  /\ Step(f, "ask")
  /\ UNCHANGED <<row, inflight, lookup, left>>

\* Every provider answers, fails or runs into the deadline of 15 seconds; an
\* image that cannot be cached keeps its URL. A failure of all of them, of
\* whatever kind, is a result too: nothing found.
Ask(f) ==
  /\ FetchAt(f, "ask")
  /\ Step(f, "found") \/ Step(f, "missed")
  /\ UNCHANGED <<row, inflight, slots, lookup, left>>

Outcome(f) == IF FetchAt(f, "found") THEN "ready" ELSE "not_found"

\* The write of the result, whose error is ignored.
PutResult(f) ==
  /\ FetchAt(f, "found") \/ FetchAt(f, "missed")
  /\ \/ /\ row' = [row EXCEPT ![fetch[f].key] =
                     [status |-> Outcome(f), fresh |-> TRUE]]
        /\ lookup' = [l \in Lookups |->
                        IF lookup[l].pc = "put" /\ lookup[l].key = fetch[f].key
                        THEN [lookup[l] EXCEPT !.late = TRUE] ELSE lookup[l]]
        /\ UNCHANGED left
     \/ left > 0 /\ left' = left - 1 /\ UNCHANGED <<row, lookup>>
  /\ Step(f, "release")
  /\ UNCHANGED <<inflight, slots>>

\* Mutant: the slot is freed only when something was found.
KeepSlot(f) ==
  /\ FetchAt(f, "release")
  /\ slots' = IF row[fetch[f].key].status = "ready" THEN slots - 1 ELSE slots
  /\ Step(f, "forget")
  /\ UNCHANGED <<row, inflight, lookup, left>>

\* The deferred functions, last one first.
ReleaseSlot(f) ==
  /\ FetchAt(f, "release")
  /\ slots' = slots - 1
  /\ Step(f, "forget")
  /\ UNCHANGED <<row, inflight, lookup, left>>

Forget(f) ==
  /\ FetchAt(f, "forget")
  /\ inflight' = inflight \ {fetch[f].key}
  /\ fetch' = [fetch EXCEPT ![f] = NoFetch]
  /\ UNCHANGED <<row, slots, lookup, left>>
-----------------------------------------------------------------------------
(* Time and faults.                                                        *)

Expire(k) ==
  /\ row[k].fresh
  /\ row' = [row EXCEPT ![k].fresh = FALSE]
  /\ UNCHANGED <<inflight, slots, lookup, fetch, left>>

\* The request is cancelled or the database fails before 'pending' is written.
LookupFails(l) ==
  /\ LookupAt(l, "put") /\ left > 0 /\ left' = left - 1
  /\ Answered(l)
  /\ UNCHANGED <<row, inflight, slots, fetch>>

\* The process starts again and prunes what has expired.
Restart ==
  /\ left > 0 /\ left' = left - 1
  /\ row' = [k \in Keys |-> IF row[k].fresh THEN row[k] ELSE NoRow]
  /\ inflight' = {} /\ slots' = 0
  /\ lookup' = [l \in Lookups |-> NoLookup]
  /\ fetch' = [f \in Fetches |-> NoFetch]

LookupStep(l) == PutPending(l) \/ LeaveToOther(l) \/ Start(l)
FetchStep(f) == TakeSlot(f) \/ Ask(f) \/ PutResult(f) \/ ReleaseSlot(f) \/ Forget(f)
AskFor(k) == \E l \in Lookups : Read(l, k)

Next ==
  \/ \E l \in Lookups : LookupStep(l) \/ LookupFails(l)
  \/ \E f \in Fetches : FetchStep(f)
  \/ \E k \in Keys : AskFor(k) \/ Expire(k)
  \/ Restart

Spec == Init /\ [][Next]_vars

\* Goroutines run; rows age; a title on display is asked for again and again,
\* whatever else is asked for. A slot is a channel: who waits gets one in turn.
Fairness ==
  /\ \A l \in Lookups : WF_vars(LookupStep(l))
  /\ \A f \in Fetches : WF_vars(FetchStep(f)) /\ SF_vars(TakeSlot(f))
  /\ \A k \in Keys : SF_vars(AskFor(k)) /\ WF_vars(Expire(k))

FairSpec == Spec /\ Fairness
-----------------------------------------------------------------------------
Working == {f \in Fetches : fetch[f].pc # "none"}
HoldingSlot == {f \in Fetches : fetch[f].pc \in {"ask", "found", "missed", "release"}}

EnrichmentTypeOK ==
  /\ row \in [Keys -> [status: {"none", "pending"} \cup Results, fresh: BOOLEAN]]
  /\ inflight \subseteq Keys /\ left \in Nat
  /\ lookup \in [Lookups -> [pc: {"none", "put", "register"}, key: Keys \cup {None},
                             late: BOOLEAN]]
  /\ fetch \in [Fetches -> [pc: {"none", "slot", "ask", "found", "missed", "release",
                                 "forget"}, key: Keys \cup {None}]]
  /\ \A l \in Lookups : lookup[l].pc # "none" => lookup[l].key \in Keys
  /\ \A f \in Working : fetch[f].key \in Keys

\* A slot taken is a slot some fetch still holds, and no more are taken than
\* the administrator allows: none is lost to a fetch that failed.
SlotsAccounted == slots = Cardinality(HoldingSlot) /\ slots <= MaxInflight

\* The keys in flight are those that a goroutine works on, each one of its own:
\* however lookups interleave, the providers are never asked twice at a time
\* for one song, and no key stays in flight with nobody to take it out.
OneFetchPerKey ==
  /\ inflight = {fetch[f].key : f \in Working}
  /\ \A f, g \in Working : fetch[f].key = fetch[g].key => f = g

\* A result is replaced while it is valid only by a lookup that read the row
\* before the result was stored, or by a fetch.
ResultsAreKept ==
  [][\A k \in Keys :
       row[k].status \in Results /\ row[k].fresh /\ row'[k].status = "pending" =>
         \E l \in Lookups : PutPending(l) /\ lookup[l].key = k /\ lookup[l].late]_vars

\* A song that is still asked for gets its answer: through full slots, results
\* overwritten by 'pending', writes that fail and restarts that forget the
\* fetch, which leave a row that nobody works on until it expires.
PendingIsAnswered ==
  \A k \in Keys : row[k].status = "pending" ~> row[k].status \in Results
=============================================================================
