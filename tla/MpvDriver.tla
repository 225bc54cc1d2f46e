----------------------------- MODULE MpvDriver ------------------------------
(***************************************************************************)
(* The connection between the driver and mpv (internal/player/mpv.go):     *)
(* send, readLoop, clearConnection and the goroutine that supervises the   *)
(* process. What a reply or an event means is the subject of Player; here  *)
(* it matters whose reply it is.                                           *)
(*                                                                         *)
(* A call registers a buffered channel under a fresh request id and writes *)
(* its command, in one critical section; then it waits for the channel,    *)
(* its context or five seconds. The reader takes the channel out of the    *)
(* map in a critical section, and sends and closes outside of it. When the *)
(* process ends, every channel left in the map is closed.                  *)
(*                                                                         *)
(* Request ids are never used twice; an id that nothing refers to any more *)
(* stands for the next one.                                                *)
(***************************************************************************)
EXTENDS Integers, FiniteSets

CONSTANTS
  Calls,       \* bound: callers at a time (reconcile, the handlers)
  Ids,         \* bound: request ids referred to at a time
  Observed,    \* properties observed after a connection, 7 in the code
  Timeouts,    \* bound: calls that give up although mpv lives
  None

\* The supervisor makes calls of its own.
Supervisor == "supervisor"
Callers == Calls \cup {Supervisor}

ASSUME MpvDriverAssumption ==
  /\ Supervisor \notin Calls /\ None \notin Ids
  /\ Observed \in Nat /\ Timeouts \in Nat

VARIABLES
  alive,     \* the mpv process runs, with the socket open
  conn,      \* MPV.conn is not nil
  sup,       \* where runOnce is
  observe,   \* properties still to observe
  closing,   \* MPV.ctx is cancelled
  call,      \* per caller, the id it waits for
  pending,   \* the ids in MPV.pending
  chan,      \* per id, its channel; garbage once nobody waits for it
  wire,      \* commands written and not yet executed
  replies,   \* per id, the reply that mpv has written and nobody has read
  held,      \* ids taken out of the map by a reader that is about to send
  executed,  \* history: of the awaited commands, those that mpv executed
  left       \* timeouts still to come

vars == <<alive, conn, sup, observe, closing, call, pending, chan, wire, replies,
          held, executed, left>>
mpvSide == <<alive, wire, replies, executed>>
supSide == <<conn, sup, observe, closing>>

Init ==
  /\ alive = FALSE /\ conn = FALSE
  /\ sup = "start" /\ observe = 0 /\ closing = FALSE
  /\ call = [c \in Callers |-> None]
  /\ pending = {} /\ chan = [i \in Ids |-> "none"]
  /\ wire = {} /\ replies = [i \in Ids |-> "none"]
  /\ held = {} /\ executed = {}
  /\ left = Timeouts
-----------------------------------------------------------------------------
(* send.                                                                   *)

Waits(c) == call[c] # None
Return(c) ==
  /\ call' = [call EXCEPT ![c] = None]
  /\ executed' = executed \ {call[c]}
Awaited(i) == \E c \in Callers : call[c] = i

Unused(i) == i \notin pending \cup wire \cup held /\ replies[i] = "none" /\ ~Awaited(i)
NextId(i) == Unused(i) /\ \A j \in Ids : Unused(j) => i <= j

Ready(c) ==
  IF c = Supervisor THEN sup = "observe" /\ observe > 0 /\ ~Waits(c)
                    ELSE ~Waits(c)

Observing(c) == observe' = IF c = Supervisor THEN observe - 1 ELSE observe

\* The critical section without a connection, or with one whose other end is
\* gone: the entry is taken back and the call returns an error.
SendFails(c) ==
  /\ Ready(c) /\ ~alive
  /\ Observing(c)
  /\ UNCHANGED <<mpvSide, conn, sup, closing, call, pending, chan, held, left>>

\* The critical section with one. What is written to a process that is just
\* gone is lost.
Send(c) ==
  /\ Ready(c) /\ conn
  /\ \E i \in Ids :
       /\ NextId(i)
       /\ pending' = pending \cup {i}
       /\ chan' = [chan EXCEPT ![i] = "empty"]
       /\ wire' = IF alive THEN wire \cup {i} ELSE wire
       /\ call' = [call EXCEPT ![c] = i]
  /\ Observing(c)
  /\ UNCHANGED <<alive, replies, executed, conn, sup, closing, held, left>>

\* Mutant: a closed channel yields the zero message, whose error is empty.
MeaningUnchecked(value) == IF value = "closed" THEN "ok" ELSE value

\* What send returns for what it received.
Meaning(value) == IF value = "closed" THEN "unavailable" ELSE value

Receive(c) ==
  /\ Waits(c) /\ chan[call[c]] # "empty"
  /\ Return(c) /\ chan' = [chan EXCEPT ![call[c]] = "none"]
  /\ UNCHANGED <<alive, wire, replies, supSide, pending, held, left>>

\* The context of the request or five seconds. The map keeps the entry.
GiveUp(c) ==
  /\ Waits(c) /\ left > 0 /\ left' = left - 1
  /\ Return(c)
  /\ UNCHANGED <<alive, wire, replies, supSide, pending, chan, held>>

\* Five seconds without an answer that nobody will send any more, or the
\* cancelled context of the driver.
ObserveGivesUp ==
  /\ Waits(Supervisor) /\ (~alive \/ closing)
  /\ Return(Supervisor)
  /\ UNCHANGED <<alive, wire, replies, supSide, pending, chan, held, left>>
-----------------------------------------------------------------------------
(* mpv and the reader.                                                     *)

\* mpv executes a command, or refuses it, and replies with the request's id.
Execute(i) ==
  /\ alive /\ i \in wire
  /\ wire' = wire \ {i}
  /\ \/ /\ replies' = [replies EXCEPT ![i] = "ok"]
        /\ executed' = IF Awaited(i) THEN executed \cup {i} ELSE executed
     \/ replies' = [replies EXCEPT ![i] = "error"] /\ UNCHANGED executed
  /\ UNCHANGED <<alive, supSide, call, pending, chan, held, left>>

\* The process dies, or is killed because the reader found an unreadable line.
Die ==
  /\ alive
  /\ alive' = FALSE /\ wire' = {}
  /\ UNCHANGED <<replies, executed, supSide, call, pending, chan, held, left>>

\* Mutant: the entry stays in the map while the reader sends.
TakeLooking(i) ==
  /\ replies[i] # "none" /\ i \notin held
  /\ held' = IF i \in pending THEN held \cup {i} ELSE held
  /\ replies' = IF i \in pending THEN replies ELSE [replies EXCEPT ![i] = "none"]
  /\ UNCHANGED <<alive, wire, executed, supSide, call, pending, chan, left>>

\* The reader finds a reply; nobody may be waiting for it any more. A reader
\* of an earlier connection may still be at work on what it has buffered.
Take(i) ==
  /\ replies[i] # "none" /\ i \notin held
  /\ pending' = pending \ {i}
  /\ held' = IF i \in pending THEN held \cup {i} ELSE held
  /\ replies' = IF i \in pending THEN replies ELSE [replies EXCEPT ![i] = "none"]
  /\ UNCHANGED <<alive, wire, executed, supSide, call, chan, left>>

\* response <- message; close(response). The channel has room for one.
Deliver(i) ==
  /\ i \in held
  /\ held' = held \ {i}
  /\ chan' = [chan EXCEPT ![i] = IF Awaited(i) THEN replies[i] ELSE "none"]
  /\ replies' = [replies EXCEPT ![i] = "none"]
  /\ UNCHANGED <<alive, wire, executed, supSide, call, pending, left>>
-----------------------------------------------------------------------------
(* supervise and runOnce.                                                  *)

Connect ==
  /\ sup = "start" /\ ~closing
  /\ alive' = TRUE /\ conn' = TRUE
  /\ sup' = "observe" /\ observe' = Observed
  /\ UNCHANGED <<wire, replies, executed, closing, call, pending, chan, held, left>>

\* Only now does runOnce look at the process and at its context.
Watch ==
  /\ sup = "observe" /\ observe = 0 /\ ~Waits(Supervisor)
  /\ sup' = "watch"
  /\ UNCHANGED <<mpvSide, conn, observe, closing, call, pending, chan, held, left>>

\* Mutant: the cancelled context is looked at between two processes only.
NoticeExit ==
  /\ sup = "watch" /\ ~alive
  /\ sup' = "clear"
  /\ UNCHANGED <<mpvSide, conn, observe, closing, call, pending, chan, held, left>>

\* The process is gone, or is killed for shutdown.
Notice ==
  /\ sup = "watch" /\ (~alive \/ closing)
  /\ alive' = FALSE /\ wire' = {}
  /\ sup' = "clear"
  /\ UNCHANGED <<replies, executed, conn, observe, closing, call, pending, chan,
                 held, left>>

\* Mutant: the entries are dropped and their channels left open.
ClearConnectionOnly ==
  /\ sup = "clear"
  /\ conn' = FALSE /\ pending' = {}
  /\ sup' = "start"
  /\ UNCHANGED <<mpvSide, observe, closing, call, chan, held, left>>

\* clearConnection, and the delay before the next attempt.
ClearConnection ==
  /\ sup = "clear"
  /\ conn' = FALSE /\ pending' = {}
  /\ chan' = [i \in Ids |-> IF i \in pending
                             THEN IF Awaited(i) THEN "closed" ELSE "none"
                             ELSE chan[i]]
  /\ sup' = "start"
  /\ UNCHANGED <<mpvSide, observe, closing, call, held, left>>

\* Close.
Cancel ==
  /\ ~closing /\ closing' = TRUE
  /\ UNCHANGED <<mpvSide, conn, sup, observe, call, pending, chan, held, left>>

Finish ==
  /\ sup = "start" /\ closing /\ sup' = "done"
  /\ UNCHANGED <<mpvSide, conn, observe, closing, call, pending, chan, held, left>>

Supervise ==
  \/ Connect \/ Watch \/ Notice \/ ClearConnection \/ Finish \/ ObserveGivesUp
  \/ Send(Supervisor) \/ SendFails(Supervisor)
Reader(i) == Take(i) \/ Deliver(i)

Next ==
  \/ \E c \in Calls : Send(c) \/ SendFails(c)
  \/ \E c \in Callers : Receive(c) \/ GiveUp(c)
  \/ \E i \in Ids : Execute(i) \/ Reader(i)
  \/ Supervise
  \/ Die \/ Cancel

Spec == Init /\ [][Next]_vars

\* Goroutines run, and a living mpv answers. Nothing is assumed of the timeout
\* of a call, only of the supervisor's own calls to an mpv that is gone.
Fairness ==
  /\ \A c \in Callers : WF_vars(Receive(c))
  /\ \A i \in Ids : WF_vars(Execute(i)) /\ WF_vars(Reader(i))
  /\ WF_vars(Supervise)

FairSpec == Spec /\ Fairness
-----------------------------------------------------------------------------
Values == {"ok", "error"}

\* Without a connection nobody is registered.
MpvDriverTypeOK ==
  /\ alive \in BOOLEAN /\ conn \in BOOLEAN /\ closing \in BOOLEAN
  /\ sup \in {"start", "observe", "watch", "clear", "done"}
  /\ observe \in 0..Observed /\ left \in Nat
  /\ call \in [Callers -> Ids \cup {None}]
  /\ chan \in [Ids -> Values \cup {"none", "empty", "closed"}]
  /\ replies \in [Ids -> Values \cup {"none"}]
  /\ pending \subseteq Ids /\ wire \subseteq Ids /\ held \subseteq Ids
  /\ executed \subseteq Ids
  /\ ~conn => pending = {}

\* Nobody ever sends on a closed channel, closes one twice, or finds a channel
\* full: each of these would take the whole process down, or the reader. When a
\* reply, a timeout, the end of the process and the next connection race for
\* one channel, whoever takes it out of the map is its only writer.
OneWriterPerChannel ==
  /\ \A i \in pending \cup held : chan[i] = "empty"
  /\ pending \cap held = {}

\* A call that succeeds was executed by mpv: this very command, not an earlier
\* one whose caller gave up, and not one that died with its connection.
SuccessIsMpvs ==
  \A c \in Callers : Waits(c) /\ Meaning(chan[call[c]]) = "ok" => call[c] \in executed

\* No call needs its timeout: mpv answers it, or the supervisor finds out that
\* mpv is gone.
EveryCallReturns == \A c \in Calls : Waits(c) ~> ~Waits(c)

\* A driver that is closed comes to its end, whatever mpv was doing.
CloseFinishes == closing ~> sup = "done"
=============================================================================
