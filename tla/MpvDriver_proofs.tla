-------------------------- MODULE MpvDriver_proofs --------------------------
(***************************************************************************)
(* Proofs about MpvDriver, for any number of callers, request ids and      *)
(* timeouts: types, one writer per channel, and a success that is mpv's.   *)
(* The last one needs to know that two calls never wait for one id and     *)
(* that a reply on its way to a call says what mpv did with that call.     *)
(***************************************************************************)
EXTENDS MpvDriver, TLAPS

FlagsOK == alive \in BOOLEAN /\ conn \in BOOLEAN /\ closing \in BOOLEAN
SupervisorOK ==
  /\ sup \in {"start", "observe", "watch", "clear", "done"}
  /\ observe \in 0..Observed /\ left \in Nat
CallsOK == call \in [Callers -> Ids \cup {None}]
ChannelsOK == chan \in [Ids -> Values \cup {"none", "empty", "closed"}]
WireOK ==
  /\ replies \in [Ids -> Values \cup {"none"}]
  /\ wire \subseteq Ids /\ executed \subseteq Ids
MapOK == pending \subseteq Ids /\ held \subseteq Ids /\ (~conn => pending = {})

Types == FlagsOK /\ SupervisorOK /\ CallsOK /\ ChannelsOK /\ WireOK /\ MapOK

\* Nobody waits for the channel of another call.
OwnIds == \A c, d \in Callers : Waits(c) /\ call[c] = call[d] => c = d

\* A success in a channel, or on its way to it, is mpv's.
Honest ==
  \A c \in Callers : Waits(c) /\ (chan[call[c]] = "ok" \/ replies[call[c]] = "ok") =>
    call[c] \in executed

Inv == Types /\ OneWriterPerChannel /\ OwnIds /\ Honest

LEMMA InitInv == Init => Inv
<1> SUFFICES ASSUME Init PROVE Inv
  OBVIOUS
<1> USE DEF Init
<1>1. FlagsOK
  BY Zenon DEF FlagsOK
<1>2. SupervisorOK /\ CallsOK /\ ChannelsOK /\ WireOK /\ MapOK
  BY MpvDriverAssumption DEF SupervisorOK, CallsOK, ChannelsOK, WireOK, MapOK, Values
<1>3. OneWriterPerChannel /\ OwnIds /\ Honest
  BY DEF OneWriterPerChannel, OwnIds, Honest, Waits
<1> QED
  BY <1>1, <1>2, <1>3 DEF Inv, Types
-----------------------------------------------------------------------------
(* Calls.                                                                  *)

\* The call returns; its channel may change, the others wait as before.
LEMMA ReturnKeeps ==
  ASSUME Inv, NEW c \in Callers, Waits(c), Return(c), UNCHANGED <<alive, wire, replies>>,
         \/ UNCHANGED chan
         \/ chan' = [chan EXCEPT ![call[c]] = "none"]
  PROVE  CallsOK' /\ WireOK' /\ ChannelsOK' /\ OwnIds' /\ Honest'
<1>1. call[c] \in Ids /\ executed' = executed \ {call[c]} /\ call' = [call EXCEPT ![c] = None]
  BY DEF Return, Waits, Inv, Types, CallsOK
<1>2. CallsOK' /\ call'[c] = None /\ \A d \in Callers \ {c} : call'[d] = call[d]
  BY <1>1 DEF Inv, Types, CallsOK
<1>3. WireOK'
  BY <1>1 DEF Inv, Types, WireOK
<1>4. ChannelsOK'
  BY <1>1 DEF Inv, Types, ChannelsOK
<1>5. OwnIds'
  BY <1>2 DEF Inv, OwnIds, Waits
<1>6. Honest'
  <2> SUFFICES ASSUME NEW d \in Callers, call'[d] # None,
                      chan'[call'[d]] = "ok" \/ replies'[call'[d]] = "ok"
               PROVE  call'[d] \in executed'
    BY DEF Honest, Waits
  <2>1. d # c /\ call'[d] = call[d]
    BY <1>2
  <2>2. call[d] # call[c] /\ call[d] \in Ids
    BY <2>1 DEF Inv, OwnIds, Waits, Types, CallsOK
  <2>3. chan'[call[d]] = chan[call[d]] /\ replies'[call[d]] = replies[call[d]]
    BY <1>1, <2>2 DEF Inv, Types, ChannelsOK
  <2> QED
    BY <1>1, <2>1, <2>2, <2>3 DEF Inv, Honest, Waits
<1> QED
  BY <1>2, <1>3, <1>4, <1>5, <1>6

LEMMA ReceiveKeeps ==
  ASSUME Inv, NEW c \in Callers, Receive(c)
  PROVE  Inv'
<1>1. /\ Waits(c) /\ chan[call[c]] # "empty" /\ Return(c)
      /\ chan' = [chan EXCEPT ![call[c]] = "none"]
      /\ UNCHANGED <<alive, wire, replies>> /\ UNCHANGED <<pending, held, left>>
      /\ UNCHANGED supSide
  BY DEF Receive
<1>2. CallsOK' /\ WireOK' /\ ChannelsOK' /\ OwnIds' /\ Honest'
  BY <1>1, ReturnKeeps
<1>3. OneWriterPerChannel'
  BY <1>1 DEF Inv, Types, MapOK, ChannelsOK, OneWriterPerChannel
<1>4. (FlagsOK /\ SupervisorOK /\ MapOK)'
  BY <1>1 DEF Inv, Types, FlagsOK, SupervisorOK, MapOK, supSide
<1> QED
  BY <1>2, <1>3, <1>4 DEF Inv, Types

LEMMA GivesUpKeeps ==
  ASSUME Inv, NEW c \in Callers, GiveUp(c) \/ (c = Supervisor /\ ObserveGivesUp)
  PROVE  Inv'
<1>1. /\ Waits(c) /\ Return(c) /\ UNCHANGED chan
      /\ UNCHANGED <<alive, wire, replies>> /\ UNCHANGED <<pending, held>>
      /\ UNCHANGED supSide
  BY DEF GiveUp, ObserveGivesUp
<1>2. CallsOK' /\ WireOK' /\ ChannelsOK' /\ OwnIds' /\ Honest'
  BY <1>1, ReturnKeeps
<1>3. OneWriterPerChannel'
  BY <1>1 DEF Inv, OneWriterPerChannel
<1>4. (FlagsOK /\ MapOK)' /\ UNCHANGED <<sup, observe>>
  BY <1>1 DEF Inv, Types, FlagsOK, MapOK, supSide
<1>5. left' \in Nat
  <2>1. left' = left \/ (left > 0 /\ left' = left - 1)
    BY DEF GiveUp, ObserveGivesUp
  <2> QED
    BY <2>1 DEF Inv, Types, SupervisorOK
<1>6. SupervisorOK'
  BY <1>4, <1>5 DEF Inv, Types, SupervisorOK
<1> QED
  BY <1>2, <1>3, <1>4, <1>6 DEF Inv, Types

\* The supervisor counts what it has observed.
LEMMA ObservingKeeps ==
  ASSUME Inv, NEW c \in Callers, Ready(c), Observing(c), UNCHANGED <<sup, left>>
  PROVE  SupervisorOK'
BY MpvDriverAssumption DEF Ready, Observing, Inv, Types, SupervisorOK

LEMMA SendFailsKeeps ==
  ASSUME Inv, NEW c \in Callers, SendFails(c)
  PROVE  Inv'
<1>1. /\ Ready(c) /\ Observing(c) /\ UNCHANGED mpvSide
      /\ UNCHANGED <<conn, sup, closing, call, pending, chan, held, left>>
  BY DEF SendFails
<1>2. SupervisorOK'
  BY <1>1, ObservingKeeps
<1>3. (FlagsOK /\ CallsOK /\ ChannelsOK /\ WireOK /\ MapOK)'
  BY <1>1 DEF Inv, Types, FlagsOK, CallsOK, ChannelsOK, WireOK, MapOK, mpvSide
<1>4. (OneWriterPerChannel /\ OwnIds /\ Honest)'
  BY <1>1 DEF Inv, OneWriterPerChannel, OwnIds, Honest, Waits, mpvSide
<1> QED
  BY <1>2, <1>3, <1>4 DEF Inv, Types

\* A fresh id is nobody else's, and nothing of it is left in mpv.
LEMMA SendKeeps ==
  ASSUME Inv, NEW c \in Callers, Send(c)
  PROVE  Inv'
<1>1. PICK i \in Ids :
        /\ Unused(i) /\ pending' = pending \cup {i}
        /\ chan' = [chan EXCEPT ![i] = "empty"]
        /\ call' = [call EXCEPT ![c] = i]
        /\ wire' = wire \cup {i} \/ UNCHANGED wire
  BY DEF Send, NextId
<1>2. /\ Ready(c) /\ Observing(c) /\ conn
      /\ UNCHANGED <<alive, replies, executed, conn, sup, closing, held, left>>
  BY DEF Send
<1>3. SupervisorOK'
  BY <1>2, ObservingKeeps
<1>4. (FlagsOK /\ ChannelsOK /\ WireOK /\ MapOK)'
  BY <1>1, <1>2 DEF Inv, Types, FlagsOK, ChannelsOK, WireOK, MapOK
<1>5. CallsOK' /\ call'[c] = i /\ \A d \in Callers \ {c} : call'[d] = call[d]
  BY <1>1 DEF Inv, Types, CallsOK
<1>6. /\ i \notin held /\ replies[i] = "none"
      /\ \A d \in Callers : call[d] # i
  BY <1>1 DEF Unused, Awaited
<1>7. chan'[i] = "empty" /\ \A j \in Ids \ {i} : chan'[j] = chan[j]
  BY <1>1 DEF Inv, Types, ChannelsOK
<1>8. OneWriterPerChannel'
  BY <1>1, <1>2, <1>6, <1>7 DEF Inv, Types, MapOK, OneWriterPerChannel
<1>9. OwnIds'
  BY <1>5, <1>6 DEF Inv, OwnIds, Waits
<1>10. Honest'
  <2> SUFFICES ASSUME NEW d \in Callers, call'[d] # None,
                      chan'[call'[d]] = "ok" \/ replies'[call'[d]] = "ok"
               PROVE  call'[d] \in executed'
    BY DEF Honest, Waits
  <2>1. d # c
    BY <1>2, <1>5, <1>6, <1>7
  <2>2. call'[d] = call[d] /\ call[d] \in Ids \ {i}
    BY <1>5, <1>6, <2>1 DEF Inv, Types, CallsOK
  <2> QED
    BY <1>2, <1>7, <2>2 DEF Inv, Honest, Waits
<1> QED
  BY <1>3, <1>4, <1>5, <1>8, <1>9, <1>10 DEF Inv, Types
-----------------------------------------------------------------------------
(* mpv and the reader.                                                     *)

LEMMA ExecuteKeeps ==
  ASSUME Inv, NEW i \in Ids, Execute(i)
  PROVE  Inv'
<1>1. /\ wire' = wire \ {i}
      /\ UNCHANGED supSide /\ UNCHANGED <<alive, call, pending, chan, held, left>>
  BY DEF Execute
<1>2. \/ /\ replies' = [replies EXCEPT ![i] = "ok"]
         /\ executed' = IF Awaited(i) THEN executed \cup {i} ELSE executed
      \/ replies' = [replies EXCEPT ![i] = "error"] /\ executed' = executed
  BY DEF Execute
<1>3. WireOK'
  BY <1>1, <1>2 DEF Inv, Types, WireOK, Values
<1>4. (FlagsOK /\ SupervisorOK /\ CallsOK /\ ChannelsOK /\ MapOK)'
  BY <1>1 DEF Inv, Types, FlagsOK, SupervisorOK, CallsOK, ChannelsOK, MapOK, supSide
<1>5. (OneWriterPerChannel /\ OwnIds)'
  BY <1>1 DEF Inv, OneWriterPerChannel, OwnIds, Waits
<1>6. Honest'
  <2> SUFFICES ASSUME NEW d \in Callers, call[d] # None,
                      chan[call[d]] = "ok" \/ replies'[call[d]] = "ok"
               PROVE  call[d] \in executed'
    BY <1>1 DEF Honest, Waits
  <2>1. executed \subseteq executed'
    BY <1>2
  <2>2. CASE call[d] = i /\ replies'[i] = "ok" /\ chan[i] # "ok"
    BY <1>2, <2>2 DEF Awaited, Inv, Types, WireOK
  <2>3. CASE chan[call[d]] = "ok" \/ call[d] # i
    <3>1. chan[call[d]] = "ok" \/ replies[call[d]] = "ok"
      BY <1>2, <2>3 DEF Inv, Types, WireOK, CallsOK
    <3> QED
      BY <2>1, <3>1 DEF Inv, Honest, Waits
  <2> QED
    BY <2>2, <2>3
<1> QED
  BY <1>3, <1>4, <1>5, <1>6 DEF Inv, Types

\* Replies only go; the calls and what they rely on stay.
LEMMA TakeKeeps ==
  ASSUME Inv, NEW i \in Ids, Take(i)
  PROVE  Inv'
<1>1. /\ i \notin held /\ pending' = pending \ {i}
      /\ held' = IF i \in pending THEN held \cup {i} ELSE held
      /\ replies' = IF i \in pending THEN replies ELSE [replies EXCEPT ![i] = "none"]
      /\ UNCHANGED supSide /\ UNCHANGED <<alive, wire, executed, call, chan, left>>
  BY DEF Take
<1>2. WireOK' /\ \A j \in Ids : replies'[j] = replies[j] \/ replies'[j] = "none"
  BY <1>1 DEF Inv, Types, WireOK
<1>3. (FlagsOK /\ SupervisorOK /\ CallsOK /\ ChannelsOK)'
  BY <1>1 DEF Inv, Types, FlagsOK, SupervisorOK, CallsOK, ChannelsOK, supSide
<1>4. MapOK'
  BY <1>1 DEF Inv, Types, MapOK, supSide
<1>5. OneWriterPerChannel'
  BY <1>1 DEF Inv, OneWriterPerChannel
<1>6. OwnIds'
  BY <1>1 DEF Inv, OwnIds, Waits
<1>7. Honest'
  BY <1>1, <1>2 DEF Inv, Types, CallsOK, Honest, Waits
<1> QED
  BY <1>2, <1>3, <1>4, <1>5, <1>6, <1>7 DEF Inv, Types

LEMMA DeliverKeeps ==
  ASSUME Inv, NEW i \in Ids, Deliver(i)
  PROVE  Inv'
<1>1. /\ i \in held /\ held' = held \ {i}
      /\ chan' = [chan EXCEPT ![i] = IF Awaited(i) THEN replies[i] ELSE "none"]
      /\ replies' = [replies EXCEPT ![i] = "none"]
      /\ UNCHANGED supSide /\ UNCHANGED <<alive, wire, executed, call, pending, left>>
  BY DEF Deliver
<1>2. WireOK' /\ ChannelsOK'
  BY <1>1 DEF Inv, Types, WireOK, ChannelsOK
<1>3. (FlagsOK /\ SupervisorOK /\ CallsOK)'
  BY <1>1 DEF Inv, Types, FlagsOK, SupervisorOK, CallsOK, supSide
<1>4. MapOK'
  BY <1>1 DEF Inv, Types, MapOK, supSide
<1>5. OneWriterPerChannel'
  BY <1>1 DEF Inv, Types, MapOK, ChannelsOK, OneWriterPerChannel
<1>6. OwnIds'
  BY <1>1 DEF Inv, OwnIds, Waits
<1>7. Honest'
  <2> SUFFICES ASSUME NEW d \in Callers, call[d] # None,
                      chan'[call[d]] = "ok" \/ replies'[call[d]] = "ok"
               PROVE  call[d] \in executed
    BY <1>1 DEF Honest, Waits
  <2>1. call[d] \in Ids
    BY DEF Inv, Types, CallsOK
  <2>2. chan[call[d]] = "ok" \/ replies[call[d]] = "ok"
    BY <1>1, <2>1 DEF Inv, Types, ChannelsOK, WireOK
  <2> QED
    BY <2>2 DEF Inv, Honest, Waits
<1> QED
  BY <1>2, <1>3, <1>4, <1>5, <1>6, <1>7 DEF Inv, Types
-----------------------------------------------------------------------------
(* The supervisor, the end of mpv, and every step.                         *)

\* Steps that leave the calls, their channels and their replies alone.
LEMMA SupervisionKeeps ==
  ASSUME Inv, UNCHANGED <<replies, executed, call, pending, chan, held, left>>,
         FlagsOK', sup' \in {"start", "observe", "watch", "clear", "done"},
         observe' \in 0..Observed, wire' \subseteq wire, ~conn' => ~conn
  PROVE  Inv'
<1>1. (SupervisorOK /\ CallsOK /\ ChannelsOK /\ WireOK /\ MapOK)'
  BY DEF Inv, Types, SupervisorOK, CallsOK, ChannelsOK, WireOK, MapOK
<1>2. (OneWriterPerChannel /\ OwnIds /\ Honest)'
  BY DEF Inv, OneWriterPerChannel, OwnIds, Honest, Waits
<1> QED
  BY <1>1, <1>2 DEF Inv, Types

LEMMA SupervisorKeeps ==
  ASSUME Inv, Connect \/ Watch \/ Notice \/ Finish \/ Die \/ Cancel
  PROVE  Inv'
<1>1. /\ UNCHANGED <<replies, executed, call, pending, chan, held, left>>
      /\ wire' \subseteq wire /\ (~conn' => ~conn)
  BY DEF Connect, Watch, Notice, Finish, Die, Cancel, mpvSide, supSide
<1>2. FlagsOK'
  <2>1. FlagsOK
    BY DEF Inv, Types
  <2>2. (alive' = TRUE \/ alive' = FALSE \/ alive' = alive)
    BY Zenon DEF Connect, Watch, Notice, Finish, Die, Cancel, mpvSide, supSide
  <2>3. (conn' = TRUE \/ conn' = conn) /\ (closing' = TRUE \/ closing' = closing)
    BY Zenon DEF Connect, Watch, Notice, Finish, Die, Cancel, mpvSide, supSide
  <2> QED
    BY <2>1, <2>2, <2>3, Zenon DEF FlagsOK
<1>3. sup' \in {"start", "observe", "watch", "clear", "done"} /\ observe' \in 0..Observed
  <2>1. sup' = sup \/ sup' \in {"observe", "watch", "clear", "done"}
    BY DEF Connect, Watch, Notice, Finish, Die, Cancel, mpvSide, supSide
  <2>2. observe' = observe \/ observe' = Observed
    BY DEF Connect, Watch, Notice, Finish, Die, Cancel, mpvSide, supSide
  <2> QED
    BY <2>1, <2>2, MpvDriverAssumption DEF Inv, Types, SupervisorOK
<1> QED
  BY <1>1, <1>2, <1>3, SupervisionKeeps

LEMMA ClearConnectionKeeps ==
  ASSUME Inv, ClearConnection
  PROVE  Inv'
<1>1. /\ conn' = FALSE /\ pending' = {} /\ sup' = "start"
      /\ chan' = [i \in Ids |-> IF i \in pending
                                THEN IF Awaited(i) THEN "closed" ELSE "none"
                                ELSE chan[i]]
      /\ UNCHANGED mpvSide /\ UNCHANGED <<observe, closing, call, held, left>>
  BY DEF ClearConnection
<1>2. FlagsOK'
  BY <1>1, Zenon DEF Inv, Types, FlagsOK, mpvSide
<1>3. (SupervisorOK /\ CallsOK /\ WireOK /\ MapOK)'
  BY <1>1 DEF Inv, Types, SupervisorOK, CallsOK, WireOK, MapOK, mpvSide
<1>4. ChannelsOK' /\ \A i \in Ids : chan'[i] = chan[i] \/ (i \in pending /\ chan'[i] # "ok")
  BY <1>1 DEF Inv, Types, ChannelsOK
<1>5. OneWriterPerChannel'
  BY <1>1, <1>4 DEF Inv, Types, MapOK, OneWriterPerChannel
<1>6. OwnIds'
  BY <1>1 DEF Inv, OwnIds, Waits
<1>7. Honest'
  BY <1>1, <1>4 DEF Inv, Types, CallsOK, Honest, Waits, mpvSide
<1> QED
  BY <1>2, <1>3, <1>4, <1>5, <1>6, <1>7 DEF Inv, Types

LEMMA Invariance == Inv /\ [Next]_vars => Inv'
<1> SUFFICES ASSUME Inv, [Next]_vars PROVE Inv'
  OBVIOUS
<1>1. ASSUME NEW c \in Calls, Send(c) \/ SendFails(c) PROVE Inv'
  BY <1>1, SendKeeps, SendFailsKeeps DEF Callers
<1>2. ASSUME NEW c \in Callers, Receive(c) \/ GiveUp(c) PROVE Inv'
  BY <1>2, ReceiveKeeps, GivesUpKeeps
<1>3. ASSUME NEW i \in Ids, Execute(i) \/ Reader(i) PROVE Inv'
  BY <1>3, ExecuteKeeps, TakeKeeps, DeliverKeeps DEF Reader
<1>4. ASSUME Supervise PROVE Inv'
  <2>1. Supervisor \in Callers
    BY DEF Callers
  <2> QED
    BY <1>4, <2>1, SupervisorKeeps, ClearConnectionKeeps, GivesUpKeeps, SendKeeps,
       SendFailsKeeps DEF Supervise
<1>5. ASSUME Die \/ Cancel PROVE Inv'
  BY <1>5, SupervisorKeeps
<1>6. CASE UNCHANGED vars
  <2>1. UNCHANGED <<replies, executed, call, pending, chan, held, left>>
    BY <1>6 DEF vars
  <2>2. UNCHANGED <<alive, conn, closing, sup, observe, wire>>
    BY <1>6 DEF vars
  <2>3. FlagsOK'
    BY <2>2, Zenon DEF Inv, Types, FlagsOK
  <2> QED
    BY <2>1, <2>2, <2>3, SupervisionKeeps DEF Inv, Types, SupervisorOK
<1> QED
  BY <1>1, <1>2, <1>3, <1>4, <1>5, <1>6 DEF Next

LEMMA Invariant == Spec => []Inv
BY InitInv, Invariance, PTL DEF Spec
-----------------------------------------------------------------------------
(* The results.                                                            *)

\* The driver's fields keep their types, and without a connection nobody is
\* registered.
THEOREM MpvDriverTypeCorrect == Spec => []MpvDriverTypeOK
<1>1. Inv => MpvDriverTypeOK
  BY DEF Inv, Types, FlagsOK, SupervisorOK, CallsOK, ChannelsOK, WireOK, MapOK,
         MpvDriverTypeOK
<1> QED
  BY Invariant, <1>1, PTL

\* No channel is sent on after it was closed, closed twice or filled twice.
THEOREM MpvDriverOneWriter == Spec => []OneWriterPerChannel
<1>1. Inv => OneWriterPerChannel
  BY DEF Inv
<1> QED
  BY Invariant, <1>1, PTL

\* A call that returns without an error was executed by mpv.
THEOREM MpvDriverSuccessIsMpvs == Spec => []SuccessIsMpvs
<1>1. Inv => SuccessIsMpvs
  BY DEF Inv, Honest, SuccessIsMpvs, Meaning
<1> QED
  BY Invariant, <1>1, PTL
=============================================================================
