-------------------------- MODULE Playback_proofs ---------------------------
(***************************************************************************)
(* The playback controller keeps its types, and all it does to the         *)
(* database are transactions of the queue store: whatever the              *)
(* interleaving of the run goroutine, the handlers, the users and mpv, the *)
(* database keeps the invariants of QueueDb.                               *)
(*                                                                         *)
(* The type of what was read (run.status, run.volume, run.item) depends on *)
(* the type of the database, and that a step is a transaction depends on   *)
(* the type of what was read; so the two are proved as one invariant.      *)
(*                                                                         *)
(* After these come the results on what is played and published: what      *)
(* follows a stop, whether the controller keeps track of mpv's file        *)
(* (Stopping), the pause, and the ends, titles and entries of undisturbed  *)
(* playback (History). Each has its inductive invariant in the section     *)
(* before it, which says what is still on its way: in run, in a handler,   *)
(* or in the channel.                                                      *)
(***************************************************************************)
EXTENDS History, Stopping, QueueDb_proofs

ControllerType ==
  [loadedID: Ids \cup {None}, stopped: BOOLEAN, desiredVolume: Volumes,
   commandedPause: BOOLEAN \cup {None},
   retries: [Ids -> 0..RetryLimit], backoff: BOOLEAN]
RunType == [pc: RunPCs, item: Ids \cup {None}, volume: Volumes,
            status: Statuses, ev: EventType]
CmdType == [pc: CmdPCs, paused: BOOLEAN, volume: Volumes, previous: Volumes]

ControllerOK ==
  /\ c \in ControllerType
  /\ run \in RunType
  /\ cmd \in [Workers -> CmdType]
  /\ left \in [BudgetKeys -> Nat]

\* The steps after the claim have an item in hand.
ItemInHand ==
  run.pc \in {"claim", "resolve", "reject", "load", "send", "volume", "commit",
              "retry", "finish", "fail"} => run.item \in Ids

PlaybackInvariant == DbInvariant /\ PlayerTypeOK /\ ControllerOK /\ ItemInHand

LEMMA PlaybackInvariantImpliesType == PlaybackInvariant => PlaybackTypeOK
BY DEF PlaybackInvariant, PlaybackTypeOK, DbInvariant, ControllerOK,
       ControllerType, RunType, CmdType

LEMMA FirstPlayableType ==
  ASSUME db \in DbType
  PROVE  FirstPlayable \in Ids \cup {None}
<1> DEFINE first == {i \in DOMAIN db.order :
                       Playable(i) /\ \A j \in 1..(i - 1) : ~Playable(j)}
<1>1. CASE first = {}
  <2>1. FirstPlayable = None
    BY <1>1 DEF FirstPlayable
  <2>2. QED BY <2>1
<1>2. CASE first # {}
  <2>1. (CHOOSE i \in first : TRUE) \in DOMAIN db.order
    BY <1>2
  <2>2. db.order \in Seq(Ids)
    BY DEF DbType
  <2>3. FirstPlayable = db.order[CHOOSE i \in first : TRUE]
    BY <1>2 DEF FirstPlayable
  <2>4. \A k \in DOMAIN db.order : db.order[k] \in Ids
    BY <2>2
  <2>5. QED BY <2>1, <2>3, <2>4
<1>3. QED BY <1>1, <1>2

StateType == [status: PlayerStatuses, paused: BOOLEAN, buffering: BOOLEAN]

\* The driver's events are well formed.
LEMMA EndEventType ==
  ASSUME NEW type \in {"ended", "failed"}, NEW id \in Ids \cup {None}
  PROVE  EndEvent(type, id) \in EventType
BY DEF EndEvent, EventType, PlayerStatuses

LEMMA StateEventType ==
  ASSUME NEW s \in StateType
  PROVE  StateEvent(s) \in EventType
BY DEF StateEvent, EventType, StateType

LEMMA DerivedType ==
  ASSUME NEW s \in StateType
  PROVE  Derived(s) \in StateType
<1>1. DerivedStatus(s) \in PlayerStatuses
  BY DEF DerivedStatus, PlayerStatuses
<1>2. QED BY <1>1 DEF Derived, StateType

LEMMA PublishedType ==
  ASSUME c \in ControllerType, NEW e \in EventType
  PROVE  Published(e) \in EventType
<1>1. CASE c.commandedPause = None
  BY <1>1 DEF Published
<1>2. CASE c.commandedPause # None
  <2>1. c.commandedPause \in BOOLEAN
    BY <1>2 DEF ControllerType
  <2>2. PublishedStatus(e, c.commandedPause) \in PlayerStatuses
    BY <2>1 DEF PublishedStatus, EventType, PlayerStatuses
  <2>3. QED BY <1>2, <2>1, <2>2 DEF Published, EventType
<1>3. QED BY <1>1, <1>2

LEMMA EmitType ==
  ASSUME PlayerTypeOK, NEW e \in EventType, Emit(e)
  PROVE  events' \in Seq(EventType) /\ Len(events') <= ChanCap
BY ChanCapAssumption DEF PlayerTypeOK, Emit
-----------------------------------------------------------------------------
\* Every step is a transaction of the store or leaves the database alone.
LEMMA PlaybackStepIsDbStep ==
  ASSUME PlaybackInvariant, [Next]_vars
  PROVE  [DbNext]_db
<1>1. /\ run.item \in Ids \cup {None}
      /\ run.pc \in {"claim", "reject", "retry", "finish", "fail"} => run.item \in Ids
      /\ run.volume \in Volumes
      /\ run.ev.status \in Statuses /\ run.ev.paused \in BOOLEAN
      /\ run.ev.buffering \in BOOLEAN
  BY DEF PlaybackInvariant, ControllerOK, RunType, ItemInHand, EventType,
         PlayerStatuses, Statuses
<1>2. {"idle", "stopped", "unavailable"} \subseteq Statuses
  BY DEF Statuses
<1>3. CASE RunStep
  <2>1. CASE ReadItems \/ Decide \/ Halt \/ Unload \/ Resolve \/ BeginLoad
             \/ SendLoad \/ LoadTimesOut \/ RestoreVolume \/ Commit \/ Forget
    BY <2>1 DEF ReadItems, Decide, Halt, Unload, Resolve, BeginLoad, SendLoad,
                LoadTimesOut, RestoreVolume, Commit, Forget
  <2>2. CASE Rest \/ LoadUnavailable \/ PlayerDown
    BY <1>2, <2>2 DEF Rest, LoadUnavailable, PlayerDown, DbNext
  <2>3. CASE Claim
    BY <1>1, <2>3 DEF Claim, RunAt, DbNext
  <2>4. CASE Reject
    BY <1>1, <2>4 DEF Reject, RunAt, DbNext
  <2>5. CASE Publish
    BY <1>1, <2>5 DEF Publish, DbNext
  <2>6. CASE Retry
    BY <1>1, <2>6 DEF Retry, RunAt, DbNext
  <2>7. ASSUME NEW pc \in {"finish", "fail"}, Finish(pc) PROVE [DbNext]_db
    BY <1>1, <2>7 DEF Finish, RunAt, DbNext
  <2>8. QED BY <1>3, <2>1, <2>2, <2>3, <2>4, <2>5, <2>6, <2>7 DEF RunStep
<1>4. ASSUME NEW w \in Workers, Calls(w) \/ CommandStep(w) PROVE [DbNext]_db
  <2>1. CASE Calls(w)
    BY <2>1 DEF Calls, CallPause, CallResume, CallStop, CallSetVolume
  <2>2. cmd[w].paused \in BOOLEAN /\ cmd[w].volume \in Volumes
    BY DEF PlaybackInvariant, ControllerOK, CmdType
  <2>3. CASE CommandStep(w)
    BY <1>2, <2>2, <2>3
       DEF CommandStep, Unstop, SaveUnstop, LockPause, SendPause, SavePause,
           SendStop, LockStop, SaveStop, SendVolume, SaveVolume, DbNext
  <2>4. QED BY <1>4, <2>1, <2>3
<1>5. CASE UserEdits
  BY <1>5 DEF UserEdits, DbNext
<1>6. CASE ProcessRestarts
  BY <1>6 DEF ProcessRestarts, DbNext
<1>7. CASE \/ Tick \/ HandleEvent \/ BackoffExpires \/ PlayerReports
           \/ PlayerCrashes \/ PlayerRestarts
           \/ \E type \in {"ended", "failed"} : MediaEndsAs(type)
  BY <1>7 DEF Tick, HandleEvent, BackoffExpires, PlayerReports, PlayerCrashes,
              PlayerRestarts, MediaEndsAs
<1>8. CASE UNCHANGED vars
  BY <1>8 DEF vars
<1>9. QED BY <1>3, <1>4, <1>5, <1>6, <1>7, <1>8 DEF Next
-----------------------------------------------------------------------------
\* mpv, the driver's copy of its state and the channel keep their types.
LEMMA PlayerStepType ==
  ASSUME PlaybackInvariant, [Next]_vars
  PROVE  PlayerTypeOK'
<1> DEFINE MpvType == [up: BOOLEAN, media: Ids \cup {None}, paused: BOOLEAN,
                       volume: 0..100, note: BOOLEAN]
<1>1. /\ mpv \in MpvType /\ state \in StateType
      /\ events \in Seq(EventType) /\ Len(events) <= ChanCap
      /\ ChanCap \in Nat
  BY ChanCapAssumption DEF PlaybackInvariant, PlayerTypeOK, StateType
<1>2. SUFFICES /\ mpv' \in MpvType /\ state' \in StateType
               /\ events' \in Seq(EventType) /\ Len(events') <= ChanCap
  BY DEF PlayerTypeOK, StateType
<1>3. ASSUME NEW e \in EventType, Emit(e)
      PROVE  events' \in Seq(EventType) /\ Len(events') <= ChanCap
  BY <1>3, EmitType DEF PlaybackInvariant
<1>4. ASSUME NEW s \in StateType, Report(s)
      PROVE  /\ state' \in StateType
             /\ events' \in Seq(EventType) /\ Len(events') <= ChanCap
  BY <1>3, <1>4, DerivedType, StateEventType DEF Report
<1>5. CASE RunStep
  <2>1. CASE BeginLoad
    <3>1. state' \in StateType
      BY <2>1 DEF BeginLoad, LoadResetsState, StateType, PlayerStatuses
    <3>2. Emit(StateEvent(state')) /\ UNCHANGED mpv
      BY <2>1 DEF BeginLoad, LoadResetsState
    <3>3. QED BY <1>1, <1>3, <3>1, <3>2, StateEventType
  <2>2. CASE Halt \/ SendLoad \/ LoadTimesOut \/ RestoreVolume
    <3>1. /\ run.pc = "send" => run.item \in Ids
          /\ run.volume \in 0..100
      BY DEF PlaybackInvariant, ItemInHand, ControllerOK, RunType, Volumes
    <3>2. mpv' \in MpvType
      <4>1. CASE Halt \/ RestoreVolume
        <5>1. \/ mpv' = mpv
              \/ mpv' = [mpv EXCEPT !.media = None]
              \/ mpv' = [mpv EXCEPT !.volume = run.volume]
          BY <4>1 DEF Halt, RestoreVolume, GivenUp, MpvStops, MpvSetsVolume
        <5>2. QED BY <1>1, <3>1, <5>1
      <4>2. CASE SendLoad \/ LoadTimesOut
        BY <1>1, <3>1, <4>2 DEF SendLoad, LoadTimesOut, RunAt, MpvLoads
      <4>3. QED BY <2>2, <4>1, <4>2
    <3>3. UNCHANGED <<state, events>>
      BY <2>2 DEF Halt, SendLoad, LoadTimesOut, RestoreVolume
    <3>4. QED BY <1>1, <3>2, <3>3
  <2>3. CASE UNCHANGED playerVars
    BY <1>1, <2>3 DEF playerVars
  <2>4. QED
    BY <1>5, <2>1, <2>2, <2>3
       DEF RunStep, ReadItems, Decide, Unload, Rest, Claim, Resolve, Reject,
           LoadUnavailable, Commit, PlayerDown, Publish, Retry, Finish, Forget
<1>6. ASSUME NEW w \in Workers, Calls(w) \/ CommandStep(w)
      PROVE  mpv' \in MpvType /\ UNCHANGED <<state, events>>
  <2>1. cmd[w].paused \in BOOLEAN /\ cmd[w].volume \in 0..100
    BY DEF PlaybackInvariant, ControllerOK, CmdType, Volumes
  <2>2. CASE SendStop(w) \/ SendPause(w) \/ SendVolume(w)
    <3>1. \/ mpv' = mpv
          \/ mpv' = [mpv EXCEPT !.media = None]
          \/ mpv' = [mpv EXCEPT !.volume = cmd[w].volume]
          \/ \E note \in BOOLEAN : mpv' = [mpv EXCEPT !.paused = cmd[w].paused, !.note = note]
      BY <1>1, <2>1, <2>2
         DEF SendStop, SendPause, SendVolume, GivenUp, MpvStops, MpvSetsPaused, MpvSetsVolume
    <3>2. mpv' \in MpvType
      BY <1>1, <2>1, <3>1
    <3>3. QED BY <2>2, <3>2 DEF SendStop, SendPause, SendVolume
  <2>3. CASE UNCHANGED playerVars
    BY <1>1, <2>3 DEF playerVars
  <2>4. QED
    BY <1>6, <2>2, <2>3
       DEF Calls, CommandStep, CallPause, CallResume, CallStop, CallSetVolume, Unstop,
           SaveUnstop, LockPause, SavePause, LockStop, SaveStop, SaveVolume
<1>7. CASE HandleEvent
  BY <1>1, <1>7 DEF HandleEvent
<1>8. CASE PlayerReports
  <2>1. /\ [state EXCEPT !.paused = mpv.paused] \in StateType
        /\ [state EXCEPT !.buffering = ~@] \in StateType
        /\ [state EXCEPT !.status = "idle"] \in StateType
    BY <1>1 DEF StateType, PlayerStatuses
  <2>2. mpv' \in MpvType
    BY <1>1, <1>8
       DEF PlayerReports, ReportProgress, ReportPause, ReportIdle, ReportBuffering
  <2>3. \E s \in StateType : Report(s)
    BY <1>1, <1>8, <2>1
       DEF PlayerReports, ReportProgress, ReportPause, ReportIdle, ReportBuffering
  <2>4. QED BY <1>4, <2>2, <2>3
<1>9. ASSUME NEW type \in {"ended", "failed"}, MediaEndsAs(type)
      PROVE  /\ mpv' \in MpvType /\ UNCHANGED state
             /\ events' \in Seq(EventType) /\ Len(events') <= ChanCap
  <2>1. mpv' \in MpvType /\ UNCHANGED state /\ Emit(EndEvent(type, mpv.media))
    BY <1>1, <1>9 DEF MediaEndsAs, MediaEnds
  <2>2. EndEvent(type, mpv.media) \in EventType
    BY <1>1, EndEventType
  <2>3. QED BY <1>3, <2>1, <2>2
<1>10. FreshState \in StateType /\ FreshMpv \in MpvType
  BY DEF FreshState, FreshMpv, StateType, PlayerStatuses
<1>11. CASE PlayerCrashes
  <2>1. Unavailable \in StateType
    BY <1>10 DEF Unavailable, StateType, PlayerStatuses
  <2>2. mpv' \in MpvType /\ UNCHANGED state /\ Emit(StateEvent(Unavailable))
    BY <1>1, <1>11 DEF PlayerCrashes, MpvCrashes
  <2>3. QED BY <1>1, <1>3, <2>1, <2>2, StateEventType
<1>12. CASE PlayerRestarts
  <2>1. \A buffering \in BOOLEAN :
          [FreshState EXCEPT !.buffering = buffering] \in StateType
    BY <1>10 DEF StateType
  <2>2. \E s \in StateType : Report(s)
    BY <1>1, <1>12, <2>1 DEF PlayerRestarts, MpvRestarts, StateType
  <2>3. mpv' \in MpvType
    BY <1>10, <1>12 DEF PlayerRestarts, MpvRestarts
  <2>4. QED BY <1>4, <2>2, <2>3
<1>13. CASE ProcessRestarts
  BY <1>1, <1>10, <1>13 DEF ProcessRestarts
<1>14. CASE Tick \/ UserEdits \/ BackoffExpires \/ UNCHANGED vars
  BY <1>1, <1>14 DEF Tick, UserEdits, BackoffExpires, playerVars, vars
<1>15. QED
  BY <1>1, <1>5, <1>6, <1>7, <1>8, <1>9, <1>11, <1>12, <1>13, <1>14 DEF Next
-----------------------------------------------------------------------------
\* What the goroutines keep has its type, and an item is in hand where one is
\* needed.
LEMMA ControllerStepType ==
  ASSUME PlaybackInvariant, [Next]_vars
  PROVE  ControllerOK' /\ ItemInHand'
<1> DEFINE HandOK(r) ==
             r.pc \in {"claim", "resolve", "reject", "load", "send", "volume",
                       "commit", "retry", "finish", "fail"} => r.item \in Ids
<1>1. /\ c \in ControllerType /\ run \in RunType
      /\ cmd \in [Workers -> CmdType] /\ left \in [BudgetKeys -> Nat]
      /\ HandOK(run)
  BY DEF PlaybackInvariant, ControllerOK, ItemInHand
<1>2. SUFFICES /\ c' \in ControllerType /\ run' \in RunType
               /\ cmd' \in [Workers -> CmdType] /\ left' \in [BudgetKeys -> Nat]
               /\ HandOK(run')
  BY DEF ControllerOK, ItemInHand
<1>3. /\ db \in DbType /\ db.volume \in Volumes /\ db.status \in Statuses
      /\ FirstPlayable \in Ids \cup {None}
  BY FirstPlayableType DEF PlaybackInvariant, DbInvariant, DbTypeOK, DbType
<1>4. /\ AtSelect \in RunType /\ HandOK(AtSelect)
      /\ NoCommand \in CmdType /\ NewController \in ControllerType
  <2>1. NoEvent \in EventType
    BY EndEventType DEF NoEvent
  <2>2. QED
    BY <2>1, RetryLimitAssumption
       DEF AtSelect, NoCommand, NewController, RunType, CmdType, ControllerType,
           RunPCs, CmdPCs, Volumes, Statuses
<1>5. ASSUME NEW key \in BudgetKeys, Spend(key)
      PROVE  left' \in [BudgetKeys -> Nat]
  BY <1>1, <1>5 DEF Spend
<1>6. ASSUME NEW pc \in RunPCs, Goto(pc), HandOK([run EXCEPT !.pc = pc])
      PROVE  run' \in RunType /\ HandOK(run')
  BY <1>1, <1>6 DEF Goto, RunType
<1>7. ASSUME NEW id \in Ids \cup {None}, Set("loadedID", id)
      PROVE  c' \in ControllerType
  BY <1>1, <1>7 DEF Set, ControllerType
<1>8. CASE Tick
  <2>1. run' \in RunType /\ HandOK(run')
    BY <1>1, <1>3, <1>8 DEF Tick, RunType, RunPCs
  <2>2. QED BY <1>1, <1>8, <2>1 DEF Tick, RunAt
<1>9. CASE RunStep
  <2>1. CASE ReadItems
    <3>1. run' \in RunType /\ HandOK(run')
      BY <1>1, <1>3, <2>1 DEF ReadItems, RunType, RunPCs
    <3>2. QED BY <1>1, <2>1, <3>1 DEF ReadItems, RunAt
  <2>2. CASE Decide
    <3>1. c' \in ControllerType
      BY <1>1, <2>2 DEF Decide, Set, ControllerType, RunType
    <3>2. run' \in RunType /\ HandOK(run')
      BY <1>1, <1>4, <2>2 DEF Decide, Return, Goto, RunType, RunPCs
    <3>3. QED BY <1>1, <2>2, <3>1, <3>2 DEF Decide, RunAt
  <2>3. CASE Unload \/ Commit \/ Forget
    <3>1. c' \in ControllerType
      BY <1>1, <1>7, <2>3 DEF Unload, Commit, Forget, RunType
    <3>2. run' \in RunType /\ HandOK(run')
      BY <1>1, <1>4, <2>3 DEF Unload, Commit, Forget, Return, Goto, RunType, RunPCs
    <3>3. QED BY <1>1, <2>3, <3>1, <3>2 DEF Unload, Commit, Forget, RunAt
  <2>4. CASE LoadTimesOut
    <3>1. run' \in RunType /\ HandOK(run')
      BY <1>1, <2>4 DEF LoadTimesOut, Goto, RunType, RunPCs
    <3>2. left' \in [BudgetKeys -> Nat]
      BY <1>5, <2>4 DEF LoadTimesOut, BudgetKeys
    <3>3. QED BY <1>1, <2>4, <3>1, <3>2 DEF LoadTimesOut
  <2>5. CASE Halt \/ Rest \/ LoadUnavailable \/ PlayerDown \/ Publish \/ Reject \/ Retry
    <3>1. run' \in RunType /\ HandOK(run')
      <4>1. CASE Halt \/ Rest \/ LoadUnavailable \/ PlayerDown
        BY <1>1, <1>4, <4>1
           DEF Halt, Rest, LoadUnavailable, PlayerDown, Return, Goto, RunType, RunPCs
      <4>2. CASE Publish \/ Reject \/ Retry
        BY <1>1, <1>4, <4>2
           DEF Publish, Reject, Retry, Return, Goto, RunType, RunPCs
      <4>3. QED BY <2>5, <4>1, <4>2
    <3>2. left' \in [BudgetKeys -> Nat]
      BY <1>1, <1>5, <2>5
         DEF Halt, Rest, LoadUnavailable, PlayerDown, Publish, Reject, Retry, RunAt,
             GivenUp, BudgetKeys
    <3>3. QED
      BY <1>1, <2>5, <3>1, <3>2
         DEF Halt, Rest, LoadUnavailable, PlayerDown, Publish, Reject, Retry, RunAt
  <2>6. CASE Claim \/ Resolve \/ BeginLoad \/ SendLoad \/ RestoreVolume
    <3>1. run' \in RunType /\ HandOK(run')
      <4>1. CASE Claim \/ Resolve
        BY <1>1, <1>4, <4>1 DEF Claim, Resolve, RunAt, Return, Goto, RunType, RunPCs
      <4>2. CASE BeginLoad \/ SendLoad \/ RestoreVolume
        BY <1>1, <1>4, <4>2
           DEF BeginLoad, SendLoad, RestoreVolume, RunAt, Goto, RunType, RunPCs
      <4>3. QED BY <2>6, <4>1, <4>2
    <3>2. left' \in [BudgetKeys -> Nat]
      BY <1>1, <1>5, <2>6
         DEF Claim, Resolve, BeginLoad, SendLoad, RestoreVolume, RunAt, GivenUp, BudgetKeys
    <3>3. QED
      BY <1>1, <2>6, <3>1, <3>2
         DEF Claim, Resolve, BeginLoad, SendLoad, RestoreVolume, RunAt
  <2>7. ASSUME NEW pc \in {"finish", "fail"}, Finish(pc)
        PROVE  /\ c' \in ControllerType /\ run' \in RunType
               /\ cmd' \in [Workers -> CmdType] /\ left' \in [BudgetKeys -> Nat]
               /\ HandOK(run')
    BY <1>1, <2>7 DEF Finish, RunAt, Goto, RunType, RunPCs
  <2>8. QED
    BY <1>9, <2>1, <2>2, <2>3, <2>4, <2>5, <2>6, <2>7 DEF RunStep
<1>10. CASE HandleEvent
  <2>1. Head(events) \in EventType
    BY <1>10 DEF HandleEvent, PlaybackInvariant, PlayerTypeOK
  <2>2. ASSUME NEW e \in EventType, HandleState(e)
        PROVE  c' \in ControllerType /\ run' \in RunType /\ HandOK(run')
    <3>1. c' \in ControllerType
      BY <1>1, <2>2 DEF HandleState, Set, ControllerType
    <3>2. CASE e.status # "unavailable" /\ c.loadedID # None
      <4>1. Published(e) \in EventType /\ c.desiredVolume \in Volumes
        BY <1>1, PublishedType DEF ControllerType
      <4>2. run' = [run EXCEPT !.pc = "publish", !.ev = Published(e),
                               !.volume = c.desiredVolume]
        BY <2>2, <3>2 DEF HandleState
      <4>3. QED BY <1>1, <3>1, <4>1, <4>2 DEF RunType, RunPCs
    <3>3. CASE ~(e.status # "unavailable" /\ c.loadedID # None)
      <4>1. run' \in RunType /\ HandOK(run')
        BY <1>1, <1>4, <2>2, <3>3 DEF HandleState, Goto, Return, RunType, RunPCs
      <4>2. QED BY <3>1, <4>1
    <3>4. QED BY <3>2, <3>3
  <2>3. ASSUME NEW e \in EventType, c.loadedID # None, HandleEnd(e)
        PROVE  c' \in ControllerType /\ run' \in RunType /\ HandOK(run')
    <3>1. c.loadedID \in Ids /\ c.retries \in [Ids -> 0..RetryLimit]
      BY <1>1, <2>3 DEF ControllerType
    <3>2. run' \in RunType /\ HandOK(run')
      BY <1>1, <2>3, <3>1 DEF HandleEnd, RunType, RunPCs
    <3>3. c' \in ControllerType
      <4>1. CASE e.type = "failed" /\ c.retries[c.loadedID] < RetryLimit
        <5>1. c.retries[c.loadedID] + 1 \in 0..RetryLimit
          BY <3>1, <4>1, RetryLimitAssumption
        <5>2. c' = [c EXCEPT !.retries[c.loadedID] = c.retries[c.loadedID] + 1,
                             !.loadedID = None, !.backoff = TRUE]
          BY <2>3, <4>1 DEF HandleEnd
        <5>3. QED BY <1>1, <3>1, <5>1, <5>2 DEF ControllerType
      <4>2. CASE ~(e.type = "failed" /\ c.retries[c.loadedID] < RetryLimit)
        <5>1. c' = [c EXCEPT !.retries[c.loadedID] = 0]
          BY <2>3, <4>2 DEF HandleEnd
        <5>2. QED BY <1>1, <3>1, <5>1, RetryLimitAssumption DEF ControllerType
      <4>3. QED BY <4>1, <4>2
    <3>4. QED BY <3>2, <3>3
  <2>4. c' \in ControllerType /\ run' \in RunType /\ HandOK(run')
    BY <1>1, <1>4, <1>10, <2>1, <2>2, <2>3 DEF HandleEvent, Return
  <2>5. QED BY <1>1, <1>10, <2>4 DEF HandleEvent, RunAt
<1>11. ASSUME NEW w \in Workers, Calls(w) \/ CommandStep(w)
       PROVE  /\ c' \in ControllerType /\ UNCHANGED run
              /\ cmd' \in [Workers -> CmdType] /\ left' \in [BudgetKeys -> Nat]
  <2>1. /\ cmd[w] \in CmdType /\ TRUE \in BOOLEAN
        /\ c.desiredVolume \in Volumes
    BY <1>1 DEF ControllerType
  <2>2. CASE Calls(w)
    <3>1. UNCHANGED run /\ left' \in [BudgetKeys -> Nat]
      BY <1>5, <2>2 DEF Calls, CallPause, CallResume, CallStop, CallSetVolume, Call,
                        BudgetKeys
    <3>2. c' \in ControllerType
      BY <1>1, <2>2, VolumesAssumption
         DEF Calls, CallPause, CallResume, CallStop, CallSetVolume, Set, ControllerType
    <3>3. cmd' \in [Workers -> CmdType]
      <4>1. CASE CallPause(w)
        BY <1>1, <1>4, <4>1 DEF CallPause, CmdType, CmdPCs
      <4>2. CASE CallResume(w) \/ CallStop(w)
        <5>1. PICK pc \in CmdPCs : CmdGoto(w, pc)
          BY <4>2 DEF CallResume, CallStop, CmdPCs
        <5>2. cmd' = [cmd EXCEPT ![w] = [cmd[w] EXCEPT !.pc = pc]]
          BY <5>1 DEF CmdGoto
        <5>3. [cmd[w] EXCEPT !.pc = pc] \in CmdType
          BY <2>1 DEF CmdType
        <5>4. QED BY <1>1, <5>2, <5>3
      <4>3. CASE CallSetVolume(w)
        <5>1. PICK v \in Volumes :
                cmd' = [cmd EXCEPT ![w] =
                          [NoCommand EXCEPT !.pc = "volume", !.volume = v,
                                            !.previous = c.desiredVolume]]
          BY <4>3, VolumesAssumption DEF CallSetVolume
        <5>2. [NoCommand EXCEPT !.pc = "volume", !.volume = v,
                                !.previous = c.desiredVolume] \in CmdType
          BY <1>4, <2>1 DEF CmdType, CmdPCs
        <5>3. QED BY <1>1, <5>1, <5>2
      <4>4. QED BY <2>2, <4>1, <4>2, <4>3 DEF Calls
    <3>4. QED BY <3>1, <3>2, <3>3
  <2>3. CASE CommandStep(w)
    <3>1. UNCHANGED run /\ left' \in [BudgetKeys -> Nat]
      <4>1. CASE SendPause(w) \/ SendStop(w) \/ SendVolume(w)
        BY <1>1, <1>5, <4>1 DEF SendPause, SendStop, SendVolume, GivenUp, BudgetKeys
      <4>2. CASE UNCHANGED <<run, left>>
        BY <1>1, <4>2
      <4>3. QED
        BY <2>3, <4>1, <4>2
           DEF CommandStep, Unstop, SaveUnstop, LockPause, SavePause, LockStop, SaveStop,
               SaveVolume, CmdAt
    <3>2. c' \in ControllerType
      BY <1>1, <2>1, <2>3
         DEF CommandStep, Unstop, SaveUnstop, LockPause, SendPause, SavePause,
             SendStop, LockStop, SaveStop, SendVolume, SaveVolume, Set, ControllerType, CmdType
    <3>3. cmd' \in [Workers -> CmdType]
      BY <1>1, <1>4, <2>3
         DEF CommandStep, Unstop, SaveUnstop, LockPause, SendPause, SavePause,
             SendStop, LockStop, SaveStop, SendVolume, SaveVolume, CmdGoto, CmdReturn,
             CmdType, CmdPCs
    <3>4. QED BY <3>1, <3>2, <3>3
  <2>4. QED BY <1>11, <2>2, <2>3
<1>12. CASE UserEdits \/ PlayerReports \/ PlayerCrashes
  BY <1>1, <1>5, <1>12 DEF UserEdits, PlayerReports, PlayerCrashes, BudgetKeys
<1>13. CASE BackoffExpires
  BY <1>1, <1>13 DEF BackoffExpires, Set, ControllerType
<1>14. CASE ProcessRestarts
  BY <1>4, <1>5, <1>14 DEF ProcessRestarts, BudgetKeys
<1>15. CASE PlayerRestarts \/ \E type \in {"ended", "failed"} : MediaEndsAs(type)
  BY <1>1, <1>15 DEF PlayerRestarts, MediaEndsAs
<1>16. CASE UNCHANGED vars
  BY <1>1, <1>16 DEF vars
<1>17. QED
  BY <1>1, <1>8, <1>9, <1>10, <1>11, <1>12, <1>13, <1>14, <1>15, <1>16 DEF Next
-----------------------------------------------------------------------------
LEMMA PlaybackInit == Init => PlaybackInvariant
<1> SUFFICES ASSUME Init PROVE PlaybackInvariant
  OBVIOUS
<1>1. DbInvariant
  BY DbInitGood DEF Init
<1>2. PlayerTypeOK
  BY ChanCapAssumption
     DEF Init, PlayerInit, PlayerTypeOK, FreshMpv, FreshState, PlayerStatuses
<1>3. NoEvent \in EventType
  BY EndEventType DEF NoEvent
<1>4. ControllerOK /\ ItemInHand
  BY <1>3, RetryLimitAssumption, BudgetAssumption
     DEF Init, ControllerOK, ItemInHand, AtSelect, NoCommand, NewController,
         RunType, CmdType, ControllerType, RunPCs, CmdPCs, Volumes, Statuses
<1>5. QED BY <1>1, <1>2, <1>4 DEF PlaybackInvariant

LEMMA PlaybackStep == PlaybackInvariant /\ [Next]_vars => PlaybackInvariant'
BY PlaybackStepIsDbStep, DbStepGood, PlayerStepType, ControllerStepType
   DEF PlaybackInvariant

LEMMA PlaybackSafe == Spec => []PlaybackInvariant
BY PlaybackInit, PlaybackStep, PTL DEF Spec

\* Every variable keeps its type.
THEOREM PlaybackTypeCorrect == Spec => []PlaybackTypeOK
BY PlaybackSafe, PlaybackInvariantImpliesType, PTL

\* The controller, the handlers and the users together change the database
\* only as the queue store allows: Playback implements QueueDb.
THEOREM PlaybackImplementsDb == Spec => DbSpec
<1>1. Init => DbInit
  BY DEF Init
<1>2. PlaybackInvariant /\ [Next]_vars => [DbNext]_db
  BY PlaybackStepIsDbStep
<1>3. QED BY <1>1, <1>2, PlaybackSafe, PTL DEF Spec, DbSpec

\* So the list, its rows and the current row stay consistent under playback.
THEOREM PlaybackDbSafe == Spec => []DbInvariant
BY PlaybackImplementsDb, DbSafe, PTL

\* And an item that was marked failed is never claimed again.
THEOREM PlaybackFailedStays == Spec => FailedStays
BY PlaybackImplementsDb, DbFailedStays, PTL
-----------------------------------------------------------------------------
(* What single steps can do.                                               *)

LEMMA WhoCommands ==
  ASSUME [Next]_vars
  PROVE  \/ UNCHANGED cmd
         \/ UNCHANGED run /\ \E w \in Workers : Calls(w) \/ CommandStep(w)
         \/ ProcessRestarts
<1>1. CASE RunStep
  BY <1>1
     DEF RunStep, ReadItems, Decide, Halt, Unload, Rest, Claim, Resolve, Reject,
         BeginLoad, SendLoad, LoadTimesOut, LoadUnavailable, RestoreVolume, Commit,
         PlayerDown, Publish, Retry, Forget, Finish, RunAt
<1>2. ASSUME NEW w \in Workers, Calls(w) \/ CommandStep(w) PROVE UNCHANGED run
  BY <1>2
     DEF Calls, CallPause, CallResume, CallStop, CallSetVolume, Call, CommandStep,
         Unstop, SaveUnstop, LockPause, SendPause, SavePause, SendStop, LockStop, SaveStop,
         SendVolume, SaveVolume, CmdAt
<1>3. CASE \/ Tick \/ HandleEvent \/ UserEdits \/ BackoffExpires \/ PlayerReports
           \/ PlayerCrashes \/ PlayerRestarts \/ UNCHANGED vars
           \/ \E type \in {"ended", "failed"} : MediaEndsAs(type)
  BY <1>3
     DEF Tick, HandleEvent, RunAt, UserEdits, BackoffExpires, PlayerReports,
         PlayerCrashes, PlayerRestarts, MediaEndsAs, vars
<1>4. QED BY <1>1, <1>2, <1>3 DEF Next

\* mpv gets a file only from the step that sends it the command.
LEMMA WhoLoads ==
  ASSUME PlaybackInvariant, [Next]_vars
  PROVE  \/ mpv'.media = mpv.media
         \/ mpv'.media = None
         \/ SendLoad /\ mpv.up /\ mpv' = [mpv EXCEPT !.media = run.item]
         \/ LoadTimesOut /\ mpv.up /\ mpv' = [mpv EXCEPT !.media = run.item]
<1>1. /\ mpv \in [up: BOOLEAN, media: Ids \cup {None}, paused: BOOLEAN,
                  volume: 0..100, note: BOOLEAN]
      /\ FreshMpv.media = None
  BY DEF PlaybackInvariant, PlayerTypeOK, FreshMpv
<1>2. CASE RunStep
  <2>1. CASE SendLoad \/ LoadTimesOut
    BY <2>1 DEF SendLoad, LoadTimesOut, MpvLoads
  <2>2. CASE Halt \/ RestoreVolume
    BY <1>1, <2>2 DEF Halt, RestoreVolume, GivenUp, MpvStops, MpvSetsVolume
  <2>3. CASE UNCHANGED mpv
    BY <2>3
  <2>4. QED
    BY <1>2, <2>1, <2>2, <2>3
       DEF RunStep, ReadItems, Decide, Unload, Rest, Claim, Resolve, Reject, BeginLoad,
           LoadUnavailable, Commit, PlayerDown, Publish, Retry, Forget, Finish, playerVars
<1>3. ASSUME NEW w \in Workers, Calls(w) \/ CommandStep(w)
      PROVE  mpv'.media \in {mpv.media, None}
  BY <1>1, <1>3
     DEF Calls, CallPause, CallResume, CallStop, CallSetVolume, CommandStep,
         Unstop, SaveUnstop, LockPause, SendPause, SavePause, SendStop, LockStop, SaveStop,
         SendVolume, SaveVolume, GivenUp, MpvStops, MpvSetsPaused, MpvSetsVolume, playerVars
<1>4. CASE \/ Tick \/ HandleEvent \/ UserEdits \/ BackoffExpires \/ PlayerReports
           \/ PlayerCrashes \/ PlayerRestarts \/ UNCHANGED vars
           \/ \E type \in {"ended", "failed"} : MediaEndsAs(type)
  BY <1>1, <1>4
     DEF Tick, HandleEvent, UserEdits, BackoffExpires, PlayerReports, ReportProgress,
         ReportPause, ReportIdle, ReportBuffering, PlayerCrashes, MpvCrashes,
         PlayerRestarts, MpvRestarts, MediaEndsAs, MediaEnds, playerVars, vars
<1>5. CASE ProcessRestarts
  BY <1>1, <1>5 DEF ProcessRestarts
<1>6. QED BY <1>2, <1>3, <1>4, <1>5 DEF Next

\* Only the handler of Stop sets stopped.
LEMMA WhoStops ==
  ASSUME PlaybackInvariant, [Next]_vars, c'.stopped, ~c.stopped
  PROVE  \E w \in Workers : LockStop(w)
<1>1. c \in ControllerType
  BY DEF PlaybackInvariant, ControllerOK
<1>2. CASE RunStep
  BY <1>1, <1>2
     DEF RunStep, ReadItems, Decide, Halt, Unload, Rest, Claim, Resolve, Reject,
         BeginLoad, SendLoad, LoadTimesOut, LoadUnavailable, RestoreVolume, Commit,
         PlayerDown, Publish, Retry, Forget, Finish, Set, ControllerType
<1>3. CASE HandleEvent
  BY <1>1, <1>3 DEF HandleEvent, HandleState, HandleEnd, Set, ControllerType
<1>4. ASSUME NEW w \in Workers, Calls(w) \/ CommandStep(w), ~LockStop(w)
      PROVE  FALSE
  BY <1>1, <1>4
     DEF Calls, CallPause, CallResume, CallStop, CallSetVolume, CommandStep,
         Unstop, SaveUnstop, LockPause, SendPause, SavePause, SendStop, SaveStop,
         SendVolume, SaveVolume, Set, ControllerType
<1>5. CASE \/ Tick \/ UserEdits \/ BackoffExpires \/ PlayerReports
           \/ PlayerCrashes \/ PlayerRestarts \/ UNCHANGED vars
           \/ \E type \in {"ended", "failed"} : MediaEndsAs(type)
  BY <1>1, <1>5
     DEF Tick, UserEdits, BackoffExpires, PlayerReports, PlayerCrashes,
         PlayerRestarts, MediaEndsAs, vars, Set, ControllerType
<1>6. CASE ProcessRestarts
  BY <1>6 DEF ProcessRestarts, NewController
<1>7. QED BY <1>2, <1>3, <1>4, <1>5, <1>6 DEF Next

\* Edits of the list leave the playback columns alone.
LEMMA EditsKeepPlayback ==
  ASSUME PlaybackInvariant, UserEdits
  PROVE  /\ db'.status = db.status /\ db'.volume = db.volume
         /\ db'.paused = db.paused /\ db'.buffering = db.buffering
<1>1. db \in DbType
  BY DEF PlaybackInvariant, DbInvariant, DbTypeOK
<1>2. QED
  BY <1>1, Zenon
     DEF UserEdits, DbAdd, DbRemove, DbSkip, DbClear, DbReorder, AddItem, RemoveItem,
         Skip, Clear, Reorder, Bump, DeleteRow, DbType

\* An mpv without a connection plays nothing.
DownIsSilent == ~mpv.up => mpv.media = None

LEMMA DownIsSilentStep ==
  ASSUME PlaybackInvariant, DownIsSilent, [Next]_vars
  PROVE  DownIsSilent'
<1>1. /\ mpv \in [up: BOOLEAN, media: Ids \cup {None}, paused: BOOLEAN,
                  volume: 0..100, note: BOOLEAN]
      /\ FreshMpv.up
  BY DEF PlaybackInvariant, PlayerTypeOK, FreshMpv
<1>2. mpv'.up = mpv.up \/ mpv'.up \/ mpv'.media = None
  <2>1. CASE RunStep
    BY <1>1, <2>1
       DEF RunStep, ReadItems, Decide, Halt, Unload, Rest, Claim, Resolve, Reject, BeginLoad,
           SendLoad, LoadTimesOut, LoadUnavailable, RestoreVolume, Commit, PlayerDown,
           Publish, Retry, Forget, Finish, GivenUp, MpvStops, MpvLoads, MpvSetsVolume, playerVars
  <2>2. ASSUME NEW w \in Workers, Calls(w) \/ CommandStep(w) PROVE mpv'.up = mpv.up
    BY <1>1, <2>2
       DEF Calls, CallPause, CallResume, CallStop, CallSetVolume, CommandStep,
           Unstop, SaveUnstop, LockPause, SendPause, SavePause, SendStop, LockStop, SaveStop,
           SendVolume, SaveVolume, GivenUp, MpvStops, MpvSetsPaused, MpvSetsVolume, playerVars
  <2>3. CASE \/ Tick \/ HandleEvent \/ UserEdits \/ BackoffExpires \/ PlayerReports
             \/ PlayerCrashes \/ PlayerRestarts \/ UNCHANGED vars
             \/ \E type \in {"ended", "failed"} : MediaEndsAs(type)
    BY <1>1, <2>3
       DEF Tick, HandleEvent, UserEdits, BackoffExpires, PlayerReports, ReportProgress,
           ReportPause, ReportIdle, ReportBuffering, PlayerCrashes, MpvCrashes,
           PlayerRestarts, MpvRestarts, MediaEndsAs, MediaEnds, playerVars, vars
  <2>4. CASE ProcessRestarts
    BY <1>1, <2>4 DEF ProcessRestarts
  <2>5. QED BY <2>1, <2>2, <2>3, <2>4 DEF Next
<1>3. QED BY <1>2, WhoLoads DEF DownIsSilent

\* The two halves of handleEvent.
LEMMA StateHandled ==
  ASSUME PlaybackInvariant, NEW e, HandleState(e)
  PROVE  \/ Return /\ UNCHANGED c
         \/ run'.pc = "down" /\ e.status = "unavailable" /\ UNCHANGED c
         \/ run'.pc = "rest" /\ c.loadedID = None /\ UNCHANGED c
         \/ /\ run'.pc = "publish" /\ run'.volume = c.desiredVolume
            /\ c.loadedID # None /\ c'.loadedID = c.loadedID
<1>1. c \in ControllerType /\ run \in RunType
  BY DEF PlaybackInvariant, ControllerOK
<1>2. ASSUME NEW ev, run' = [run EXCEPT !.pc = "publish", !.ev = ev,
                                        !.volume = c.desiredVolume]
      PROVE  run'.pc = "publish" /\ run'.volume = c.desiredVolume
  BY <1>1, <1>2 DEF RunType
<1>3. CASE e.status = "unavailable" \/ c.loadedID = None
  BY <1>1, <1>3 DEF HandleState, Goto, RunType
<1>4. CASE e.status # "unavailable" /\ c.loadedID # None
  <2>1. c'.loadedID = c.loadedID
    BY <1>1, <1>4 DEF HandleState, Set, ControllerType
  <2>2. QED BY <1>2, <1>4, <2>1 DEF HandleState
<1>5. QED BY <1>3, <1>4

LEMMA EndHandled ==
  ASSUME PlaybackInvariant, NEW e, HandleEnd(e)
  PROVE  /\ run'.item = c.loadedID /\ run'.ev = e
         /\ \/ /\ run'.pc = "retry" /\ e.type = "failed" /\ c'.loadedID = None
               /\ c'.retries = [c.retries EXCEPT ![c.loadedID] = @ + 1]
            \/ /\ run'.pc = IF e.type = "failed" THEN "fail" ELSE "finish"
               /\ c'.loadedID = c.loadedID
               /\ c'.retries = [c.retries EXCEPT ![c.loadedID] = 0]
<1>1. c \in ControllerType /\ run \in RunType
  BY DEF PlaybackInvariant, ControllerOK
<1>2. run'.item = c.loadedID /\ run'.ev = e
  BY <1>1 DEF HandleEnd, RunType
<1>3. CASE e.type = "failed" /\ c.retries[c.loadedID] < RetryLimit
  BY <1>1, <1>2, <1>3 DEF HandleEnd, RunType, ControllerType
<1>4. CASE ~(e.type = "failed" /\ c.retries[c.loadedID] < RetryLimit)
  BY <1>1, <1>2, <1>4 DEF HandleEnd, RunType, ControllerType
<1>5. QED BY <1>3, <1>4

\* Where the run goroutine goes from a step of its own.
LEMMA RunTargets ==
  ASSUME PlaybackInvariant, Tick \/ HandleEvent \/ RunStep
  PROVE  \/ /\ Return
            /\ run.pc \in {"select", "decide", "unload", "rest", "claim", "reject",
                          "unavailable", "commit", "publish", "retry", "forget"}
         \/ Tick /\ run.pc = "select" /\ run'.pc = "items"
         \/ /\ HandleEvent /\ run.pc = "select"
            /\ run'.pc \in {"down", "rest", "publish", "retry", "finish", "fail"}
         \/ ReadItems /\ run.pc = "items" /\ run'.pc = "decide"
         \/ Decide /\ run.pc = "decide" /\ run'.pc \in {"halt", "rest", "claim"}
         \/ Halt /\ run.pc = "halt" /\ run'.pc = "unload"
         \/ Unload /\ run.pc = "unload" /\ run'.pc = "rest"
         \/ /\ Claim /\ DbSetCurrent(run.item)
            /\ run.pc = "claim" /\ run'.pc = "resolve"
         \/ Resolve /\ run.pc = "resolve" /\ run'.pc \in {"load", "reject"}
         \/ BeginLoad /\ run.pc = "load" /\ run'.pc = "send"
         \/ /\ SendLoad /\ MpvLoads(run.item)
            /\ run.pc = "send" /\ run'.pc = "volume"
         \/ SendLoad /\ ~mpv.up /\ run.pc = "send" /\ run'.pc = "unavailable"
         \/ LoadTimesOut /\ run.pc = "send" /\ run'.pc = "reject"
         \/ RestoreVolume /\ run.pc = "volume" /\ run'.pc = "commit"
         \/ /\ run.pc \in {"down", "finish", "fail"} /\ run'.pc = "forget"
            /\ PlayerDown \/ \E pc \in {"finish", "fail"} : Finish(pc)
<1>1. run \in RunType
  BY DEF PlaybackInvariant, ControllerOK
<1>2. \A pc \in RunPCs : Goto(pc) => run'.pc = pc
  BY <1>1 DEF Goto, RunType
<1>3. CASE Tick
  BY <1>1, <1>3 DEF Tick, RunAt, RunType
<1>4. CASE HandleEvent
  <2>1. CASE HandleState(Head(events))
    <3>1. ASSUME NEW e, run' = [run EXCEPT !.pc = "publish", !.ev = e,
                                           !.volume = c.desiredVolume]
          PROVE  run'.pc = "publish"
      BY <1>1, <3>1 DEF RunType
    <3>2. QED BY <1>2, <1>4, <2>1, <3>1 DEF HandleState, HandleEvent, RunAt, RunPCs
  <2>2. CASE HandleEnd(Head(events))
    BY <1>1, <1>4, <2>2 DEF HandleEnd, HandleEvent, RunAt, RunType
  <2>3. QED BY <1>4, <2>1, <2>2 DEF HandleEvent, RunAt
<1>5. CASE RunStep
  <2>1. CASE ReadItems
    BY <1>1, <2>1 DEF ReadItems, RunAt, RunType
  <2>2. CASE Decide
    BY <1>2, <2>2 DEF Decide, RunAt, RunPCs
  <2>3. CASE Halt \/ Unload \/ Claim \/ Resolve
    BY <1>2, <2>3 DEF Halt, Unload, Claim, Resolve, RunAt, RunPCs
  <2>4. CASE BeginLoad \/ SendLoad \/ LoadTimesOut \/ RestoreVolume
    BY <1>2, <2>4 DEF BeginLoad, SendLoad, LoadTimesOut, RestoreVolume, RunAt, RunPCs
  <2>5. CASE PlayerDown \/ \E pc \in {"finish", "fail"} : Finish(pc)
    BY <1>2, <2>5 DEF PlayerDown, Finish, RunAt, RunPCs
  <2>6. QED
    BY <1>5, <2>1, <2>2, <2>3, <2>4, <2>5
       DEF RunStep, Rest, Reject, LoadUnavailable, Commit, Publish, Retry, Forget, RunAt
<1>6. QED BY <1>3, <1>4, <1>5

\* What the run goroutine does to what it has in hand and to the wanted volume.
LEMMA RunInHand ==
  ASSUME PlaybackInvariant, Tick \/ HandleEvent \/ RunStep
  PROVE  /\ UNCHANGED cmd
         /\ \/ c'.desiredVolume = c.desiredVolume
            \/ Decide /\ c'.desiredVolume = run.volume
         /\ c'.loadedID \in {c.loadedID, None} \/ Commit
         /\ \/ run'.pc = "select"
            \/ run.pc = "select"
            \/ run'.volume = run.volume /\ (run'.item = run.item \/ run.pc = "items")
         /\ run'.pc \in Loading => run.pc \in Loading \/ Decide
<1>1. c \in ControllerType /\ run \in RunType
  BY DEF PlaybackInvariant, ControllerOK
<1>2. UNCHANGED cmd
  BY DEF Tick, HandleEvent, RunStep, ReadItems, Decide, Halt, Unload, Rest, Claim, Resolve,
         Reject, BeginLoad, SendLoad, LoadTimesOut, LoadUnavailable, RestoreVolume, Commit,
         PlayerDown, Publish, Retry, Forget, Finish, RunAt
<1>3. /\ \/ c'.desiredVolume = c.desiredVolume
         \/ Decide /\ c'.desiredVolume = run.volume
      /\ c'.loadedID \in {c.loadedID, None} \/ Commit
  <2>1. CASE HandleEvent
    <3>1. UNCHANGED c \/ HandleState(Head(events)) \/ HandleEnd(Head(events))
      BY <2>1 DEF HandleEvent
    <3>2. CASE HandleState(Head(events))
      BY <1>1, <3>2 DEF HandleState, Set, ControllerType
    <3>3. CASE HandleEnd(Head(events))
      BY <1>1, <3>3 DEF HandleEnd, ControllerType
    <3>4. QED BY <3>1, <3>2, <3>3
  <2>2. CASE Decide
    BY <1>1, <2>2 DEF Decide, Set, ControllerType
  <2>3. CASE Unload \/ Commit \/ Forget
    <3>1. \E id \in Ids \cup {None} : Set("loadedID", id) /\ (id = None \/ Commit)
      BY <1>1, <2>3 DEF Unload, Commit, Forget, RunType
    <3>2. QED BY <1>1, <3>1 DEF Set, ControllerType
  <2>4. CASE UNCHANGED c
    BY <2>4
  <2>5. QED
    BY <2>1, <2>2, <2>3, <2>4
       DEF Tick, RunStep, ReadItems, Halt, Rest, Claim, Resolve, Reject, BeginLoad,
           SendLoad, LoadTimesOut, LoadUnavailable, RestoreVolume, PlayerDown, Publish,
           Retry, Finish
<1>4. /\ \/ run'.pc = "select"
         \/ run.pc = "select"
         \/ run'.volume = run.volume /\ (run'.item = run.item \/ run.pc = "items")
      /\ run'.pc \in Loading => run.pc \in Loading \/ Decide
  <2>1. CASE Tick
    BY <1>1, <2>1 DEF Tick, RunAt, RunType, Loading
  <2>2. CASE HandleEvent
    <3>1. run.pc = "select" /\ run'.pc \notin Loading
      BY <2>2, RunTargets DEF HandleEvent, RunAt, Return, AtSelect, Loading
    <3>2. QED BY <3>1
  <2>3. CASE ReadItems
    BY <1>1, <2>3 DEF ReadItems, RunAt, RunType, Loading
  <2>4. CASE Decide \/ run.pc \in Loading
    <3>1. Return \/ \E pc \in RunPCs : Goto(pc)
      BY <1>1, <2>4
         DEF Decide, RunStep, Tick, HandleEvent, ReadItems, Halt, Unload, Rest, Claim,
             Resolve, Reject, BeginLoad, SendLoad, LoadTimesOut, LoadUnavailable,
             RestoreVolume, Commit, PlayerDown, Publish, Retry, Forget, Finish, RunAt,
             Loading, RunPCs
    <3>2. QED BY <1>1, <2>4, <3>1 DEF Return, AtSelect, Goto, RunType
  <2>5. CASE \/ Halt \/ Unload \/ Rest \/ Reject \/ LoadUnavailable \/ PlayerDown
             \/ Publish \/ Retry \/ Forget \/ \E pc \in {"finish", "fail"} : Finish(pc)
    <3>1. Return \/ \E pc \in {"unload", "rest", "forget"} : Goto(pc)
      BY <2>5 DEF Halt, Unload, Rest, Reject, LoadUnavailable, PlayerDown, Publish, Retry,
                  Forget, Finish
    <3>2. QED BY <1>1, <3>1 DEF Return, AtSelect, Goto, RunType, Loading
  <2>6. QED
    BY <2>1, <2>2, <2>3, <2>4, <2>5
       DEF RunStep, Claim, Resolve, BeginLoad, SendLoad, LoadTimesOut, RestoreVolume,
           Commit, RunAt, Loading
<1>5. QED BY <1>2, <1>3, <1>4

LEMMA CommandsMove ==
  ASSUME PlaybackInvariant, NEW w \in Workers, Calls(w) \/ CommandStep(w)
  PROVE  /\ UNCHANGED run /\ cmd' # cmd
         /\ \A v \in Workers : v # w => cmd'[v] = cmd[v]
<1>1. cmd \in [Workers -> CmdType]
  BY DEF PlaybackInvariant, ControllerOK
<1>2. UNCHANGED run
  BY DEF Calls, CallPause, CallResume, CallStop, CallSetVolume, Call, CommandStep,
         Unstop, SaveUnstop, LockPause, SendPause, SavePause, SendStop, LockStop, SaveStop,
         SendVolume, SaveVolume, CmdAt
<1>3. CASE Calls(w)
  <2>1. cmd[w].pc = "none"
    <3>1. cmd[w] = NoCommand
      BY <1>3 DEF Calls, CallPause, CallResume, CallStop, CallSetVolume, Call
    <3>2. QED BY <3>1 DEF NoCommand
  <2>2. \E command \in CmdType : command.pc # "none" /\ cmd' = [cmd EXCEPT ![w] = command]
    <3>1. CASE CallPause(w)
      <4>1. /\ [NoCommand EXCEPT !.pc = "pause", !.paused = TRUE] \in CmdType
            /\ [NoCommand EXCEPT !.pc = "pause", !.paused = TRUE].pc = "pause"
        <5>1. 0 \in Volumes /\ "pause" \in CmdPCs
          BY DEF Volumes, CmdPCs
        <5>2. NoCommand \in CmdType
          BY <5>1 DEF NoCommand, CmdType, CmdPCs
        <5>3. QED BY <5>1, <5>2 DEF CmdType
      <4>2. cmd' = [cmd EXCEPT ![w] = [NoCommand EXCEPT !.pc = "pause", !.paused = TRUE]]
        BY <3>1 DEF CallPause
      <4>3. QED BY <4>1, <4>2, Zenon
    <3>2. ASSUME NEW pc \in CmdPCs \ {"none"}, CmdGoto(w, pc)
          PROVE  \E command \in CmdType :
                   command.pc # "none" /\ cmd' = [cmd EXCEPT ![w] = command]
      <4>1. [cmd[w] EXCEPT !.pc = pc] \in CmdType
        BY <1>1, <3>2 DEF CmdType
      <4>2. QED BY <1>1, <3>2, <4>1 DEF CmdGoto, CmdType
    <3>3. CASE CallResume(w) \/ CallStop(w)
      BY <3>2, <3>3 DEF CallResume, CallStop, CmdPCs
    <3>4. CASE CallSetVolume(w)
      <4>1. PICK volume \in CmdVolumes :
              cmd' = [cmd EXCEPT ![w] = [NoCommand EXCEPT !.pc = "volume", !.volume = volume,
                                                          !.previous = c.desiredVolume]]
        BY <3>4 DEF CallSetVolume
      <4>2. volume \in Volumes /\ c.desiredVolume \in Volumes
        BY VolumesAssumption DEF PlaybackInvariant, ControllerOK, ControllerType
      <4>3. [NoCommand EXCEPT !.pc = "volume", !.volume = volume,
                              !.previous = c.desiredVolume] \in CmdType
        BY <4>2 DEF NoCommand, CmdType, CmdPCs
      <4>4. QED BY <4>1, <4>3 DEF NoCommand
    <3>5. QED BY <1>3, <3>1, <3>3, <3>4 DEF Calls
  <2>3. QED BY <1>1, <1>2, <2>1, <2>2
<1>4. CASE CommandStep(w)
  BY <1>1, <1>2, <1>4
     DEF CommandStep, Unstop, SaveUnstop, LockPause, SendPause, SavePause, SendStop, LockStop,
         SaveStop, SendVolume, SaveVolume, CmdAt, CmdGoto, CmdReturn, NoCommand, CmdType
<1>5. QED BY <1>3, <1>4

\* What reaches the channel.
LEMMA EventStep ==
  ASSUME PlaybackInvariant, [Next]_vars
  PROVE  \/ UNCHANGED events
         \/ HandleEvent /\ events # <<>> /\ events' = Tail(events)
         \/ ProcessRestarts
         \/ \E e \in EventType :
              /\ Emit(e)
              /\ \/ /\ BeginLoad \/ PlayerReports \/ PlayerRestarts
                    /\ e.type = "state" /\ e.status # "unavailable"
                 \/ PlayerCrashes /\ e = StateEvent(Unavailable)
                 \/ \E type \in {"ended", "failed"} :
                      MediaEndsAs(type) /\ e = EndEvent(type, mpv.media)
<1>1. /\ mpv.media \in Ids \cup {None} /\ state \in StateType
      /\ mpv.paused \in BOOLEAN /\ FreshState \in StateType
  BY DEF PlaybackInvariant, PlayerTypeOK, StateType, FreshState, PlayerStatuses
<1>2. ASSUME NEW s \in StateType, Report(s),
             BeginLoad \/ PlayerReports \/ PlayerRestarts
      PROVE  \E e \in EventType :
               /\ Emit(e) /\ e.type = "state" /\ e.status # "unavailable"
               /\ BeginLoad \/ PlayerReports \/ PlayerRestarts
  <2>1. Derived(s) \in StateType /\ StateEvent(Derived(s)) \in EventType
    BY DerivedType, StateEventType
  <2>2. Derived(s).status # "unavailable"
    BY DEF Derived, DerivedStatus, StateType
  <2>3. /\ StateEvent(Derived(s)).type = "state"
        /\ StateEvent(Derived(s)).status # "unavailable"
    BY <2>2 DEF StateEvent
  <2>4. QED BY <1>2, <2>1, <2>3 DEF Report
<1>3. CASE RunStep
  <2>1. CASE BeginLoad
    <3>1. /\ state' \in StateType /\ state'.status = "loading"
          /\ Emit(StateEvent(state'))
      BY <2>1 DEF BeginLoad, LoadResetsState, StateType, PlayerStatuses
    <3>2. /\ StateEvent(state') \in EventType
          /\ StateEvent(state').type = "state"
          /\ StateEvent(state').status = "loading"
      BY <3>1, StateEventType DEF StateEvent
    <3>3. QED BY <2>1, <3>1, <3>2
  <2>2. CASE ~BeginLoad
    BY <1>3, <2>2
       DEF RunStep, ReadItems, Decide, Halt, Unload, Rest, Claim, Resolve, Reject, SendLoad,
           LoadTimesOut, LoadUnavailable, RestoreVolume, Commit, PlayerDown, Publish, Retry,
           Forget, Finish, playerVars
  <2>3. QED BY <2>1, <2>2
<1>4. CASE PlayerReports
  <2>1. CASE ReportProgress
    BY <1>1, <1>2, <1>4, <2>1 DEF ReportProgress
  <2>2. CASE ReportPause
    <3>1. [state EXCEPT !.paused = mpv.paused] \in StateType
      BY <1>1 DEF StateType
    <3>2. QED BY <1>2, <1>4, <2>2, <3>1 DEF ReportPause
  <2>3. CASE ReportBuffering
    <3>1. [state EXCEPT !.buffering = ~@] \in StateType
      BY <1>1 DEF StateType
    <3>2. QED BY <1>2, <1>4, <2>3, <3>1 DEF ReportBuffering
  <2>4. CASE ReportIdle
    <3>1. [state EXCEPT !.status = "idle"] \in StateType
      BY <1>1 DEF StateType, PlayerStatuses
    <3>2. QED BY <1>2, <1>4, <2>4, <3>1 DEF ReportIdle
  <2>5. QED BY <1>4, <2>1, <2>2, <2>3, <2>4 DEF PlayerReports
<1>5. CASE PlayerRestarts
  <2>1. PICK buffering \in {FALSE, state.buffering} :
          Report([FreshState EXCEPT !.buffering = buffering])
    BY <1>5 DEF PlayerRestarts, MpvRestarts
  <2>2. [FreshState EXCEPT !.buffering = buffering] \in StateType
    BY <1>1, <2>1 DEF StateType
  <2>3. QED BY <1>2, <1>5, <2>1, <2>2
<1>6. CASE PlayerCrashes
  <2>1. Unavailable \in StateType
    BY DEF Unavailable, FreshState, StateType, PlayerStatuses
  <2>2. StateEvent(Unavailable) \in EventType /\ Emit(StateEvent(Unavailable))
    BY <1>6, <2>1, StateEventType DEF PlayerCrashes, MpvCrashes
  <2>3. QED BY <1>6, <2>2
<1>7. CASE \E type \in {"ended", "failed"} : MediaEndsAs(type)
  BY <1>1, <1>7, EndEventType DEF MediaEndsAs, MediaEnds
<1>8. CASE HandleEvent
  BY <1>8 DEF HandleEvent
<1>9. ASSUME NEW w \in Workers, Calls(w) \/ CommandStep(w) PROVE UNCHANGED events
  BY <1>9
     DEF Calls, CallPause, CallResume, CallStop, CallSetVolume, CommandStep,
         Unstop, SaveUnstop, LockPause, SendPause, SavePause, SendStop, LockStop, SaveStop,
         SendVolume, SaveVolume, playerVars
<1>10. CASE Tick \/ UserEdits \/ BackoffExpires \/ UNCHANGED vars
  BY <1>10 DEF Tick, UserEdits, BackoffExpires, playerVars, vars
<1>11. QED BY <1>3, <1>4, <1>5, <1>6, <1>7, <1>8, <1>9, <1>10 DEF Next
-----------------------------------------------------------------------------
-----------------------------------------------------------------------------
(* Whether mpv has the file that the controller takes it to have.          *)

Warned == \E i \in DOMAIN events : WillForget(events[i])

\* A stop that the controller has not been told of, and one that it has, leave mpv
\* silent; what is still loaded then was being loaded already.
StopHeld == StopUnderWay => mpv.media = None \/ astray
StoppedHeld ==
  c.stopped => /\ mpv.media = None \/ astray
               /\ run.pc \in Loading => astray
               /\ c.loadedID = None \/ astray \/ StopUnderWay

\* mpv has what is being loaded, and nothing of which the controller knows nothing.
LoadHeld ==
  run.pc \in {"volume", "commit"} =>
    mpv.media = run.item \/ Warned \/ StopUnderWay \/ astray
NoneForgotten ==
  c.loadedID = None /\ mpv.media # None => run.pc \in {"volume", "commit"} \/ astray

Tracking ==
  DownIsSilent /\ StopHeld /\ StoppedHeld /\ LoadHeld /\ NoneForgotten /\ KeepsTrack

\* What was in the channel is there until the controller has taken it, and so is
\* what finds room.
LEMMA EmitKeeps ==
  ASSUME events \in Seq(EventType), NEW e \in EventType, Emit(e)
  PROVE  /\ DOMAIN events \subseteq DOMAIN events'
         /\ \A i \in DOMAIN events : events'[i] = events[i]
         /\ Len(events) < ChanCap =>
              Len(events) + 1 \in DOMAIN events' /\ events'[Len(events) + 1] = e
BY DEF Emit

LEMMA TailKeeps ==
  ASSUME events \in Seq(EventType), events # <<>>, events' = Tail(events),
         NEW i \in DOMAIN events, i # 1
  PROVE  i - 1 \in DOMAIN events' /\ events'[i - 1] = events[i]
OBVIOUS

LEMMA WarnedStays ==
  ASSUME PlaybackInvariant, [Next]_vars, Warned,
         ~ProcessRestarts, HandleEvent => ~WillForget(Head(events))
  PROVE  Warned'
<1>1. events \in Seq(EventType)
  BY DEF PlaybackInvariant, PlayerTypeOK
<1>2. PICK i \in DOMAIN events : WillForget(events[i])
  BY DEF Warned
<1>3. CASE UNCHANGED events
  BY <1>3 DEF Warned
<1>4. CASE HandleEvent /\ events # <<>> /\ events' = Tail(events)
  <2>1. i # 1
    BY <1>1, <1>2, <1>4
  <2>2. i - 1 \in DOMAIN events' /\ events'[i - 1] = events[i]
    BY <1>1, <1>4, <2>1, TailKeeps
  <2>3. QED BY <1>2, <2>2 DEF Warned
<1>5. ASSUME NEW e \in EventType, Emit(e) PROVE Warned'
  BY <1>1, <1>2, <1>5, EmitKeeps DEF Warned
<1>6. QED BY <1>3, <1>4, <1>5, EventStep

LEMMA WarnedByEmit ==
  ASSUME PlaybackInvariant, NEW e \in EventType, Emit(e), WillForget(e),
         Len(events) < ChanCap
  PROVE  Warned'
<1>1. events \in Seq(EventType)
  BY DEF PlaybackInvariant, PlayerTypeOK
<1>2. QED BY <1>1, EmitKeeps DEF Warned

\* What is known of every step that neither loads a file, nor sends a stop, nor
\* takes the lock for it.
Quiet ==
  /\ Next /\ ~ProcessRestarts
  /\ ~(SendLoad /\ run'.pc = "volume")
  /\ \A w \in Workers : ~SendStop(w) /\ ~LockStop(w)

\* Stops come and go with SendStop and LockStop.
LEMMA QuietStops ==
  ASSUME PlaybackInvariant, Quiet
  PROVE  StopUnderWay' <=> StopUnderWay
<1>1. cmd \in [Workers -> CmdType]
  BY DEF PlaybackInvariant, ControllerOK
<1>2. CASE UNCHANGED cmd
  BY <1>2 DEF StopUnderWay
<1>3. ASSUME NEW w \in Workers, Calls(w) \/ CommandStep(w)
      PROVE  StopUnderWay' <=> StopUnderWay
  <2>1. \A v \in Workers : v # w => cmd'[v] = cmd[v]
    BY <1>3, CommandsMove
  <2>2. cmd[w].pc # "stop"
    <3>1. CASE Calls(w)
      <4>1. cmd[w] = NoCommand
        BY <3>1 DEF Calls, CallPause, CallResume, CallStop, CallSetVolume, Call
      <4>2. QED BY <4>1 DEF NoCommand
    <3>2. CASE CommandStep(w)
      BY <3>2
         DEF Quiet, CommandStep, Unstop, SaveUnstop, LockPause, SendPause, SavePause,
             SaveStop, SendVolume, SaveVolume, CmdAt
    <3>3. QED BY <1>3, <3>1, <3>2
  <2>3. cmd'[w].pc # "stop"
    <3>1. CASE CallPause(w) \/ CallSetVolume(w)
      BY <1>1, <3>1 DEF CallPause, CallSetVolume, NoCommand
    <3>2. CASE CallResume(w) \/ CallStop(w)
      BY <1>1, <3>2 DEF CallResume, CallStop, CmdGoto, CmdType
    <3>3. CASE CommandStep(w)
      BY <1>1, <3>3
         DEF Quiet, CommandStep, Unstop, SaveUnstop, LockPause, SendPause, SavePause,
             SaveStop, SendVolume, SaveVolume, CmdGoto, CmdReturn, NoCommand, CmdType
    <3>4. QED BY <1>3, <3>1, <3>2, <3>3 DEF Calls
  <2>4. QED BY <2>1, <2>2, <2>3 DEF StopUnderWay
<1>4. QED BY <1>2, <1>3, WhoCommands DEF Quiet

\* What the steps that are not the run goroutine's leave alone.
LEMMA OthersRun ==
  ASSUME PlaybackInvariant, Next, ~ProcessRestarts, ~(Tick \/ HandleEvent \/ RunStep)
  PROVE  UNCHANGED run /\ c'.loadedID \in {c.loadedID, None}
<1>1. c \in ControllerType
  BY DEF PlaybackInvariant, ControllerOK
<1>2. ASSUME NEW w \in Workers, Calls(w) \/ CommandStep(w)
      PROVE  UNCHANGED run /\ c'.loadedID \in {c.loadedID, None}
  <2>1. UNCHANGED run
    BY <1>2, CommandsMove
  <2>2. c'.loadedID \in {c.loadedID, None}
    BY <1>1, <1>2
       DEF Calls, CallPause, CallResume, CallStop, CallSetVolume, CommandStep, Unstop,
           SaveUnstop, LockPause, SendPause, SavePause, SendStop, LockStop, SaveStop,
           SendVolume, SaveVolume, Set, ControllerType
  <2>3. QED BY <2>1, <2>2
<1>3. CASE \/ UserEdits \/ BackoffExpires \/ PlayerReports \/ PlayerCrashes
           \/ PlayerRestarts \/ \E type \in {"ended", "failed"} : MediaEndsAs(type)
  BY <1>1, <1>3
     DEF UserEdits, BackoffExpires, PlayerReports, PlayerCrashes, PlayerRestarts,
         MediaEndsAs, Set, ControllerType
<1>4. QED BY <1>2, <1>3 DEF Next

\* What a quiet step does to what mpv has loaded.
LEMMA QuietMedia ==
  ASSUME PlaybackInvariant, DownIsSilent, Quiet
  PROVE  \/ mpv'.media = mpv.media
         \/ Misreported
         \/ mpv'.media = None /\ (Halt \/ Lost \/ Warned')
<1>1. /\ mpv \in [up: BOOLEAN, media: Ids \cup {None}, paused: BOOLEAN,
                  volume: 0..100, note: BOOLEAN]
      /\ events \in Seq(EventType) /\ Len(events) <= ChanCap /\ ChanCap \in Nat
  BY ChanCapAssumption DEF PlaybackInvariant, PlayerTypeOK
<1>2. CASE PlayerCrashes
  <2>1. mpv'.media = None
    BY <1>1, <1>2 DEF PlayerCrashes, MpvCrashes
  <2>2. PICK e \in EventType : Emit(e) /\ e = StateEvent(Unavailable)
    BY <1>2, StateEventType
       DEF PlayerCrashes, MpvCrashes, Unavailable, FreshState, StateType, PlayerStatuses
  <2>3. WillForget(e)
    BY <2>2 DEF WillForget, StateEvent, Unavailable, FreshState
  <2>4. Len(events) < ChanCap \/ Len(events) = ChanCap
    BY <1>1
  <2>5. QED BY <1>2, <2>1, <2>2, <2>3, <2>4, WarnedByEmit DEF Lost
<1>3. ASSUME NEW type \in {"ended", "failed"}, MediaEndsAs(type)
      PROVE  mpv'.media = None /\ (Lost \/ Warned')
  <2>1. mpv'.media = None
    BY <1>1, <1>3 DEF MediaEndsAs, MediaEnds
  <2>2. EndEvent(type, mpv.media) \in EventType /\ Emit(EndEvent(type, mpv.media))
    BY <1>1, <1>3, EndEventType DEF MediaEndsAs, MediaEnds
  <2>3. WillForget(EndEvent(type, mpv.media))
    BY DEF WillForget, EndEvent
  <2>4. Len(events) < ChanCap \/ Len(events) = ChanCap
    BY <1>1
  <2>5. QED BY <1>3, <2>1, <2>2, <2>3, <2>4, WarnedByEmit DEF Lost
<1>4. CASE PlayerRestarts
  BY <1>4 DEF PlayerRestarts, MpvRestarts, FreshMpv, DownIsSilent
<1>5. CASE PlayerReports
  BY <1>1, <1>5 DEF PlayerReports, ReportProgress, ReportPause, ReportIdle, ReportBuffering
<1>6. ASSUME NEW w \in Workers, Calls(w) \/ CommandStep(w)
      PROVE  mpv'.media = mpv.media
  BY <1>1, <1>6
     DEF Quiet, Calls, CallPause, CallResume, CallStop, CallSetVolume, CommandStep, Unstop,
         SaveUnstop, LockPause, SendPause, SavePause, SaveStop, SendVolume, SaveVolume,
         GivenUp, MpvSetsPaused, MpvSetsVolume, playerVars
<1>7. CASE Tick \/ HandleEvent \/ UserEdits \/ BackoffExpires
  BY <1>7 DEF Tick, HandleEvent, UserEdits, BackoffExpires, playerVars
<1>8. CASE RunStep
  <2>1. CASE LoadTimesOut
    BY <2>1 DEF Misreported
  <2>2. CASE SendLoad
    <3>1. run'.pc = "volume" \/ UNCHANGED mpv
      <4>1. run \in RunType
        BY DEF PlaybackInvariant, ControllerOK
      <4>2. QED BY <2>2, <4>1 DEF SendLoad, Goto, RunType
    <3>2. QED BY <2>2, <3>1 DEF Quiet
  <2>3. CASE Halt
    BY <1>1, <2>3 DEF Halt, GivenUp, MpvStops
  <2>4. CASE RestoreVolume
    BY <1>1, <2>4 DEF RestoreVolume, GivenUp, MpvSetsVolume
  <2>5. QED
    BY <1>8, <2>1, <2>2, <2>3, <2>4
       DEF RunStep, ReadItems, Decide, Unload, Rest, Claim, Resolve, Reject, BeginLoad,
           LoadUnavailable, Commit, PlayerDown, Publish, Retry, Forget, Finish, playerVars
<1>9. QED BY <1>2, <1>3, <1>4, <1>5, <1>6, <1>7, <1>8 DEF Quiet, Next

\* A quiet step keeps track of what mpv has, or has gone astray.
LEMMA QuietTracks ==
  ASSUME PlaybackInvariant, Tracking, Quiet,
         astray => astray', GoesAstray => astray'
  PROVE  Tracking'
<1>1. /\ c \in ControllerType /\ run \in RunType
      /\ events \in Seq(EventType)
  BY DEF PlaybackInvariant, ControllerOK, PlayerTypeOK
<1>2. Next /\ ~ProcessRestarts /\ (StopUnderWay' <=> StopUnderWay)
  BY QuietStops DEF Quiet
<1>3. DownIsSilent'
  BY <1>2, DownIsSilentStep DEF Tracking
<1>4. c'.stopped => c.stopped
  BY WhoStops DEF Quiet
<1>5. \/ mpv'.media = mpv.media
      \/ astray'
      \/ mpv'.media = None /\ (Halt \/ Warned')
  BY QuietMedia DEF Tracking, GoesAstray
<1>6. StopHeld'
  BY <1>2, <1>5 DEF Tracking, StopHeld
<1>7. /\ c'.loadedID \in {c.loadedID, None} \/ Commit
      /\ run'.pc \in Loading => run.pc \in Loading \/ (Decide /\ ~c.stopped)
  <2>1. CASE Tick \/ HandleEvent \/ RunStep
    <3>1. Decide /\ run'.pc \in Loading => ~c.stopped
      BY <1>1 DEF Decide, Return, AtSelect, Goto, Loading, RunType
    <3>2. QED BY <2>1, <3>1, RunInHand
  <2>2. CASE ~(Tick \/ HandleEvent \/ RunStep)
    BY <1>2, <2>2, OthersRun
  <2>3. QED BY <2>1, <2>2
<1>8. StoppedHeld'
  <2>1. Commit => run.pc \in Loading
    BY DEF Commit, RunAt, Loading
  <2>2. QED BY <1>2, <1>4, <1>5, <1>7, <2>1 DEF Tracking, StoppedHeld
<1>9. Commit => c'.loadedID = run.item /\ run.item # None /\ UNCHANGED mpv /\ run.pc = "commit"
  <2>1. Commit => run.pc = "commit" /\ UNCHANGED mpv /\ Set("loadedID", run.item)
    BY DEF Commit, RunAt, playerVars
  <2>2. run.pc = "commit" => run.item # None
    BY NoneAssumption DEF PlaybackInvariant, ItemInHand
  <2>3. QED BY <1>1, <2>1, <2>2 DEF Set, ControllerType, RunType
<1>10. \/ run'.pc \notin {"volume", "commit"} /\ (run.pc \in {"volume", "commit"} => Commit)
       \/ UNCHANGED run /\ ~Halt
       \/ RestoreVolume /\ run'.pc = "commit" /\ run'.item = run.item /\ UNCHANGED events
  <2>1. CASE Tick \/ HandleEvent \/ RunStep
    <3>1. RestoreVolume => run'.item = run.item /\ run'.pc = "commit" /\ UNCHANGED events
      BY <1>1 DEF RestoreVolume, Goto, RunType
    <3>2. CASE Return
      <4>1. run'.pc = "select"
        BY <3>2 DEF Return, AtSelect
      <4>2. run.pc = "volume" => FALSE
        BY <2>1, <4>1, RunTargets DEF Tick, HandleEvent, RunAt
      <4>3. run.pc = "commit" => Commit
        BY <2>1
           DEF Tick, HandleEvent, RunStep, ReadItems, Decide, Halt, Unload, Rest, Claim,
               Resolve, Reject, BeginLoad, SendLoad, LoadTimesOut, LoadUnavailable,
               RestoreVolume, PlayerDown, Publish, Retry, Forget, Finish, RunAt
      <4>4. QED BY <4>1, <4>2, <4>3
    <3>3. CASE ~Return
      BY <2>1, <3>1, <3>3, RunTargets DEF Quiet
    <3>4. QED BY <3>2, <3>3
  <2>2. CASE ~(Tick \/ HandleEvent \/ RunStep)
    BY <1>2, <2>2, OthersRun DEF RunStep
  <2>3. QED BY <2>1, <2>2
<1>11. NoneForgotten'
  <2>1. CASE c.loadedID # None
    BY <2>1 DEF NoneForgotten, GoesAstray, Forgotten
  <2>2. CASE c.loadedID = None /\ mpv.media # None
    BY <1>5, <1>9, <1>10, <2>2 DEF Tracking, NoneForgotten
  <2>3. CASE mpv.media = None
    BY <1>5, <2>3 DEF NoneForgotten
  <2>4. QED BY <2>1, <2>2, <2>3
<1>12. Warned => Warned' \/ (HandleEvent /\ WillForget(Head(events)))
  BY <1>2, WarnedStays
<1>13. HandleEvent => run.pc = "select" /\ UNCHANGED mpv
  BY DEF HandleEvent, RunAt
<1>14. LoadHeld'
  <2>1. CASE UNCHANGED run /\ ~Halt
    BY <1>2, <1>5, <1>12, <1>13, <2>1 DEF Tracking, LoadHeld
  <2>2. CASE RestoreVolume /\ run'.pc = "commit" /\ run'.item = run.item /\ UNCHANGED events
    <3>1. run.pc = "volume" /\ mpv'.media = mpv.media
      <4>1. mpv \in [up: BOOLEAN, media: Ids \cup {None}, paused: BOOLEAN,
                     volume: 0..100, note: BOOLEAN]
        BY DEF PlaybackInvariant, PlayerTypeOK
      <4>2. QED BY <2>2, <4>1 DEF RestoreVolume, GivenUp, MpvSetsVolume
    <3>2. QED BY <1>2, <2>2, <3>1 DEF Tracking, LoadHeld, Warned
  <2>3. QED BY <1>10, <2>1, <2>2 DEF LoadHeld
<1>15. KeepsTrack'
  <2>1. CASE c'.loadedID = None
    BY <1>11, <2>1 DEF NoneForgotten, KeepsTrack, Reloading
  <2>2. CASE Commit
    BY <1>2, <1>9, <1>12, <1>13, <2>2 DEF Tracking, LoadHeld, KeepsTrack, Warned
  <2>3. CASE c'.loadedID # None /\ c'.loadedID = c.loadedID /\ ~Commit
    <3>1. CASE HandleEvent /\ WillForget(Head(events))
      <4>1. CASE Head(events).type # "state"
        <5>1. HandleEnd(Head(events))
          BY <2>3, <3>1, <4>1 DEF HandleEvent
        <5>2. run'.pc \in {"finish", "fail"}
          BY <2>3, <5>1, EndHandled
        <5>3. QED BY <5>2 DEF KeepsTrack, Reloading
      <4>2. CASE Head(events).type = "state" /\ ~c.stopped
        <5>1. HandleState(Head(events)) /\ Head(events).status = "unavailable"
          BY <3>1, <4>2 DEF HandleEvent, WillForget
        <5>2. run'.pc = "down"
          BY <1>1, <5>1 DEF HandleState, Goto, RunType
        <5>3. QED BY <5>2 DEF KeepsTrack, Reloading
      <4>3. CASE c.stopped
        BY <1>2, <2>3, <4>3 DEF Tracking, StoppedHeld, KeepsTrack
      <4>4. QED BY <4>1, <4>2, <4>3
    <3>2. CASE Reloading /\ ~HandleEvent
      <4>1. Reloading'
        <5>1. CASE RunStep
          <6>1. run.pc \notin {"unload", "forget", "commit"}
            <7>1. ASSUME run.pc \in {"unload", "forget", "commit"} PROVE FALSE
              <8>1. Commit \/ Set("loadedID", None)
                BY <5>1, <7>1
                   DEF RunStep, ReadItems, Decide, Halt, Unload, Rest, Claim, Resolve, Reject,
                       BeginLoad, SendLoad, LoadTimesOut, LoadUnavailable, RestoreVolume,
                       PlayerDown, Publish, Retry, Forget, Finish, RunAt
              <8>2. QED BY <1>1, <2>3, <8>1 DEF Set, ControllerType
            <7>2. QED BY <7>1
          <6>2. run'.pc \in {"commit", "forget"}
            BY <3>2, <5>1, <6>1, RunTargets DEF Reloading, Tick, RunAt
          <6>3. QED BY <6>2 DEF Reloading
        <5>2. CASE ~(Tick \/ HandleEvent \/ RunStep)
          BY <1>2, <3>2, <5>2, OthersRun DEF Reloading
        <5>3. CASE Tick
          BY <3>2, <5>3 DEF Tick, RunAt, Reloading
        <5>4. QED BY <3>2, <5>1, <5>2, <5>3
      <4>2. QED BY <4>1 DEF KeepsTrack
    <3>3. CASE Halt
      <4>1. run'.pc = "unload"
        BY <1>1, <3>3 DEF Halt, Goto, RunType
      <4>2. QED BY <4>1 DEF KeepsTrack, Reloading
    <3>4. CASE ~Reloading /\ ~Halt /\ ~(HandleEvent /\ WillForget(Head(events)))
      BY <1>2, <1>5, <1>12, <2>3, <3>4 DEF Tracking, KeepsTrack, Warned
    <3>5. QED
      BY <1>13, <3>1, <3>2, <3>3, <3>4 DEF Reloading
  <2>4. QED BY <1>7, <2>1, <2>2, <2>3
<1>16. QED BY <1>3, <1>6, <1>8, <1>11, <1>14, <1>15 DEF Tracking

\* The three steps that put the controller on the right track again.
LEMMA LoadTracks ==
  ASSUME PlaybackInvariant, Tracking, SNext, SendLoad, run'.pc = "volume", ~ProcessRestarts
  PROVE  Tracking'
<1>1. c \in ControllerType /\ run \in RunType
  BY DEF PlaybackInvariant, ControllerOK
<1>2. /\ run.pc = "send" /\ UNCHANGED <<c, cmd>>
      /\ run' = [run EXCEPT !.pc = "volume"]
      /\ mpv.up /\ mpv' = [mpv EXCEPT !.media = run.item]
  BY <1>1 DEF SendLoad, RunAt, MpvLoads, Goto, RunType
<1>3. mpv'.media = run.item /\ mpv'.up /\ run'.item = run.item
  <2>1. mpv \in [up: BOOLEAN, media: Ids \cup {None}, paused: BOOLEAN,
                 volume: 0..100, note: BOOLEAN]
    BY DEF PlaybackInvariant, PlayerTypeOK
  <2>2. QED BY <1>1, <1>2, <2>1 DEF RunType
<1>4. StopUnderWay' <=> StopUnderWay
  BY <1>2 DEF StopUnderWay
<1>5. c.stopped \/ StopUnderWay => astray'
  <2>1. ASSUME c.stopped \/ StopUnderWay PROVE ~Recovers
    <3>1. \A w \in Workers : ~SendStop(w)
      BY <1>1, <1>2 DEF SendStop, RunType
    <3>2. QED BY <2>1, <3>1 DEF Recovers
  <2>2. StopUnderWay => GoesAstray
    BY DEF GoesAstray, Crossing
  <2>3. c.stopped => astray
    BY <1>2 DEF Tracking, StoppedHeld, Loading
  <2>4. QED BY <2>1, <2>2, <2>3, Zenon DEF SNext
<1>6. QED
  BY <1>2, <1>3, <1>4, <1>5
     DEF Tracking, DownIsSilent, StopHeld, StoppedHeld, LoadHeld, NoneForgotten, KeepsTrack,
         Reloading

LEMMA StopTracks ==
  ASSUME PlaybackInvariant, Tracking, SNext, NEW w \in Workers, SendStop(w), ~ProcessRestarts
  PROVE  Tracking'
<1>1. /\ cmd \in [Workers -> CmdType]
      /\ mpv \in [up: BOOLEAN, media: Ids \cup {None}, paused: BOOLEAN,
                  volume: 0..100, note: BOOLEAN]
  BY DEF PlaybackInvariant, ControllerOK, PlayerTypeOK
<1>2. /\ cmd[w].pc = "stop_send" /\ UNCHANGED <<run, c, events>>
      /\ ~(SendLoad /\ run'.pc = "volume")
  BY DEF SendStop, SendLoad, RunAt
<1>3. Warned' <=> Warned
  BY <1>2 DEF Warned
<1>4. CASE MpvStops /\ CmdGoto(w, "stop")
  <2>1. mpv'.media = None /\ mpv'.up
    BY <1>1, <1>4 DEF MpvStops
  <2>2. cmd'[w].pc = "stop"
    BY <1>1, <1>4 DEF CmdGoto, CmdType
  <2>3. StopUnderWay'
    BY <2>2 DEF StopUnderWay
  <2>4. c.stopped /\ run.pc \in Loading => astray'
    <3>1. run.pc \in Loading => ~Recovers
      BY <1>2 DEF Recovers
    <3>2. c.stopped /\ run.pc \in Loading => astray
      BY DEF Tracking, StoppedHeld
    <3>3. QED BY <3>1, <3>2, Zenon DEF SNext
  <2>5. QED
    BY <1>2, <2>1, <2>3, <2>4
       DEF Tracking, DownIsSilent, StopHeld, StoppedHeld, LoadHeld, NoneForgotten, KeepsTrack
<1>5. CASE GivenUp(MpvStops) /\ CmdReturn(w)
  <2>1. cmd' = [cmd EXCEPT ![w] = NoCommand]
    BY <1>5 DEF CmdReturn
  <2>2. StopUnderWay' <=> StopUnderWay
    BY <1>1, <1>2, <2>1 DEF StopUnderWay, NoCommand
  <2>3. ~Recovers
    <3>1. \A v \in Workers : SendStop(v) => cmd'[v].pc # "stop"
      BY <1>1, <2>1 DEF SendStop, NoCommand
    <3>2. QED BY <1>2, <3>1 DEF Recovers
  <2>4. mpv'.media # mpv.media => astray'
    <3>1. cmd'[w] = NoCommand
      BY <1>1, <2>1
    <3>2. mpv'.media # mpv.media => GoesAstray
      BY <3>1 DEF GoesAstray, Misreported
    <3>3. QED BY <2>3, <3>2, Zenon DEF SNext
  <2>5. astray => astray'
    BY <2>3, Zenon DEF SNext
  <2>6. mpv'.media \in {mpv.media, None} /\ mpv'.up = mpv.up
    BY <1>1, <1>5 DEF GivenUp, MpvStops
  <2>7. QED
    BY <1>2, <1>3, <2>2, <2>4, <2>5, <2>6
       DEF Tracking, DownIsSilent, StopHeld, StoppedHeld, LoadHeld, NoneForgotten, KeepsTrack,
           Reloading, Warned
<1>6. QED BY <1>4, <1>5 DEF SendStop

LEMMA LockTracks ==
  ASSUME PlaybackInvariant, Tracking, SNext, NEW w \in Workers, LockStop(w), ~ProcessRestarts
  PROVE  Tracking'
<1>1. c \in ControllerType /\ cmd \in [Workers -> CmdType]
  BY DEF PlaybackInvariant, ControllerOK
<1>2. cmd[w].pc = "stop" /\ UNCHANGED <<run, mpv>>
  BY DEF LockStop, CmdAt, playerVars
<1>3. c'.loadedID = None
  BY <1>1 DEF LockStop, ControllerType
<1>4. ~Recovers
  <2>1. ~(SendLoad /\ run'.pc = "volume")
    BY <1>2 DEF SendLoad, RunAt
  <2>2. \A v \in Workers : ~SendStop(v)
    <3>1. ASSUME NEW v \in Workers, SendStop(v) PROVE FALSE
      <4>1. cmd[v].pc = "stop_send" /\ v # w
        BY <1>2, <3>1 DEF SendStop
      <4>2. cmd'[v] = cmd[v]
        BY <1>1, <4>1 DEF LockStop, CmdGoto
      <4>3. cmd'[v].pc # "stop_send"
        BY <1>1, <3>1 DEF SendStop, CmdGoto, CmdReturn, NoCommand, CmdType
      <4>4. QED BY <4>1, <4>2, <4>3
    <3>2. QED BY <3>1
  <2>3. QED BY <2>1, <2>2 DEF Recovers
<1>5. mpv.media = None \/ astray
  BY <1>2 DEF Tracking, StopHeld, StopUnderWay
<1>6. astray => astray'
  BY <1>4, Zenon DEF SNext
<1>7. run.pc \in Loading => astray'
  BY <1>4, Zenon DEF SNext, GoesAstray, Crossing
<1>8. QED
  BY <1>2, <1>3, <1>5, <1>6, <1>7
     DEF Tracking, DownIsSilent, StopHeld, StoppedHeld, LoadHeld, NoneForgotten, KeepsTrack,
         Loading

LEMMA TrackingStep == PlaybackInvariant /\ Tracking /\ [SNext]_svars => Tracking'
<1> SUFFICES ASSUME PlaybackInvariant, Tracking, [SNext]_svars PROVE Tracking'
  OBVIOUS
<1>1. CASE UNCHANGED svars
  BY <1>1
     DEF svars, vars, playerVars, Tracking, DownIsSilent, StopHeld, StoppedHeld, LoadHeld,
         NoneForgotten, KeepsTrack, Reloading, Warned, StopUnderWay
<1>2. CASE SNext /\ ProcessRestarts
  <2>1. ~c'.stopped /\ c'.loadedID = None /\ mpv'.media = None /\ mpv'.up
        /\ run'.pc = "select" /\ \A w \in Workers : cmd'[w].pc # "stop"
    BY <1>2 DEF ProcessRestarts, NewController, FreshMpv, AtSelect, NoCommand
  <2>2. QED
    BY <2>1
       DEF Tracking, DownIsSilent, StopHeld, StoppedHeld, LoadHeld, NoneForgotten, KeepsTrack,
           StopUnderWay
<1>3. CASE SNext /\ Quiet
  <2>1. ~Recovers
    BY <1>3 DEF Quiet, Recovers
  <2>2. (astray => astray') /\ (GoesAstray => astray')
    BY <1>3, <2>1, Zenon DEF SNext
  <2>3. QED BY <1>3, <2>2, QuietTracks
<1>4. QED
  BY <1>1, <1>2, <1>3, LoadTracks, StopTracks, LockTracks DEF SNext, Quiet

LEMMA TracksPlayback == SSpec => Spec /\ []PlaybackInvariant
<1>1. SInit => Init
  BY DEF SInit
<1>2. [SNext]_svars => [Next]_vars
  BY DEF SNext, svars
<1>3. QED BY <1>1, <1>2, PlaybackSafe, PTL DEF SSpec, Spec

LEMMA TrackingSafe == SSpec => []Tracking
<1>1. SInit => Tracking
  BY DEF SInit, Init, PlayerInit, FreshMpv, NewController, AtSelect, NoCommand, Tracking,
         DownIsSilent, StopHeld, StoppedHeld, LoadHeld, NoneForgotten, KeepsTrack, StopUnderWay
<1>2. QED BY <1>1, TrackingStep, TracksPlayback, PTL DEF SSpec

\* Whatever handlers, passes of reconcile, edits, crashes, failed commands and
\* restarts interleave: while the controller is stopped mpv plays nothing, but for
\* the accidents that Stopping names.
THEOREM PlaybackStopSilences == SSpec => []StopSilences
<1>1. Tracking => StopSilences
  BY DEF Tracking, StoppedHeld, StopSilences
<1>2. QED BY <1>1, TrackingSafe, PTL

\* And mpv has what the controller believes, or the controller is about to learn
\* the truth, or one of those accidents has happened since the last load or stop.
THEOREM PlaybackKeepsTrack == SSpec => []KeepsTrack
<1>1. Tracking => KeepsTrack
  BY DEF Tracking
<1>2. QED BY <1>1, TrackingSafe, PTL
-----------------------------------------------------------------------------
(* What is published about the pause.                                      *)

\* Nobody stops and mpv lives: no report tells of another status.
Obeyed ==
  /\ mpv.up /\ ~c.stopped /\ db.status # "stopped"
  /\ run.pc \notin {"unavailable", "down"}
  /\ \A i \in DOMAIN events : events[i].status # "unavailable"
  /\ \A w \in Workers : cmd[w].pc \notin {"unstop", "unstopped", "stop_send", "stop", "stop_save"}

\* Wherever a status goes with a pause flag, it says the same.
SaysPaused(s) == (s.status = "paused") <=> (s.paused = TRUE /\ s.buffering = FALSE)
StatusTells ==
  /\ SaysPaused(db)
  /\ run.pc = "publish" => SaysPaused(run.ev)
  /\ \A i \in DOMAIN events : SaysPaused(events[i])

\* The driver knows mpv's flag or is about to be notified, and the last report in
\* the channel has what the driver knows.
IsReport(e) == e.type = "state"
Told == \E i \in DOMAIN events : IsReport(events[i])
DriverTells ==
  /\ mpv.note = TRUE \/ state.paused = mpv.paused
  /\ \A i \in DOMAIN events :
       IsReport(events[i]) =>
         \/ events[i].paused = state.paused
         \/ \E j \in DOMAIN events : j > i /\ IsReport(events[j])

\* The pause that is commanded is mpv's, or a handler is about to send it.
CommandTells ==
  /\ c.commandedPause # None =>
       \/ c.commandedPause = mpv.paused
       \/ \E w \in Workers : cmd[w].pc = "pause_send" /\ cmd[w].paused = c.commandedPause
  /\ \A w \in Workers :
       /\ cmd[w].pc = "pause_send" => c.commandedPause \in {cmd[w].paused, None}
       /\ cmd[w].pc = "pause_save" => cmd[w].paused = mpv.paused

\* A load leaves a report behind it, and what is claimed is not paused unless a
\* report is to come.
LoadTells ==
  /\ run.pc \in {"send", "volume", "commit"} => Told
  /\ run.pc \in {"resolve", "reject"} => mpv.paused = FALSE \/ mpv.note = TRUE \/ Told
  /\ run.pc \in {"rest", "retry"} => c.loadedID = None

\* Whatever is stored, or about to be, is true unless the truth is on its way.
OnItsWay ==
  \/ mpv.note = TRUE \/ Told
  \/ \E w \in Workers : cmd[w].pc = "pause_send" /\ cmd[w].paused # mpv.paused
SeenPause == IF run.pc = "publish" THEN run.ev.paused ELSE db.paused
PauseSeen ==
  c.loadedID # None /\ run.pc # "forget" /\ ~OnItsWay => SeenPause = mpv.paused

PauseInvariant ==
  Obeyed /\ StatusTells /\ DriverTells /\ CommandTells /\ LoadTells /\ PauseSeen

\* The run goroutine moves by its own steps.
LEMMA WhoRuns ==
  ASSUME PlaybackInvariant, [Next]_vars
  PROVE  \/ UNCHANGED run
         \/ Tick \/ HandleEvent \/ RunStep
         \/ ProcessRestarts /\ run'.pc = "select"
<1>1. CASE \E w \in Workers : Calls(w) \/ CommandStep(w)
  BY <1>1, CommandsMove
<1>2. CASE ProcessRestarts
  BY <1>2 DEF ProcessRestarts, AtSelect
<1>3. CASE \/ UserEdits \/ BackoffExpires \/ PlayerReports
           \/ PlayerCrashes \/ PlayerRestarts \/ UNCHANGED vars
           \/ \E type \in {"ended", "failed"} : MediaEndsAs(type)
  BY <1>3 DEF UserEdits, BackoffExpires, PlayerReports, PlayerCrashes, PlayerRestarts,
              MediaEndsAs, vars
<1>4. QED BY <1>1, <1>2, <1>3 DEF Next

\* What mpv is sent.
LEMMA PauseSent ==
  ASSUME PlaybackInvariant, NEW w \in Workers, SendPause(w), mpv.up, UNCHANGED left
  PROVE  /\ cmd'[w].pc = "pause_save" /\ mpv'.up /\ mpv'.paused = cmd[w].paused
         /\ mpv.note = TRUE \/ mpv.paused # cmd[w].paused => mpv'.note = TRUE
         /\ UNCHANGED <<db, state, events, c>>
<1>1. /\ mpv \in [up: BOOLEAN, media: Ids \cup {None}, paused: BOOLEAN,
                  volume: 0..100, note: BOOLEAN]
      /\ cmd \in [Workers -> CmdType]
  BY DEF PlaybackInvariant, PlayerTypeOK, ControllerOK
<1>2. /\ MpvSetsPaused(cmd[w].paused) /\ CmdGoto(w, "pause_save")
      /\ UNCHANGED <<db, state, events, c>>
  <2>1. ~Spend("errors")
    BY DEF Spend, PlaybackInvariant, ControllerOK, BudgetKeys
  <2>2. QED BY <2>1 DEF SendPause, GivenUp
<1>3. cmd'[w].pc = "pause_save"
  BY <1>1, <1>2 DEF CmdGoto, CmdType
<1>4. /\ mpv'.paused = cmd[w].paused /\ mpv'.up = mpv.up
      /\ mpv'.note = (mpv.note \/ mpv.paused # cmd[w].paused)
  BY <1>1, <1>2 DEF MpvSetsPaused
<1>5. QED BY <1>1, <1>2, <1>3, <1>4

\* Who touches mpv's flag and the driver's copy of it.
LEMMA WhoPauses ==
  ASSUME PlaybackInvariant, [Next]_vars, mpv.up, ~PlayerCrashes
  PROVE  /\ mpv'.up
         /\ \/ ProcessRestarts
            \/ /\ mpv'.paused = mpv.paused /\ mpv'.note = mpv.note
               /\ state'.paused = state.paused
            \/ BeginLoad /\ UNCHANGED mpv /\ state'.paused = FALSE
            \/ /\ PlayerReports /\ mpv'.paused = mpv.paused
               /\ state'.paused = mpv.paused
            \/ \E w \in Workers : SendPause(w)
<1>1. /\ mpv \in [up: BOOLEAN, media: Ids \cup {None}, paused: BOOLEAN,
                  volume: 0..100, note: BOOLEAN]
      /\ state \in StateType /\ FreshMpv.up /\ cmd \in [Workers -> CmdType]
  BY DEF PlaybackInvariant, PlayerTypeOK, FreshMpv, StateType, ControllerOK
<1>2. ASSUME NEW s, Report(s) PROVE state'.paused = s.paused \/ s \notin StateType
  BY <1>2 DEF Report, Derived, StateType
<1>3. CASE RunStep
  <2>1. CASE BeginLoad
    BY <2>1 DEF BeginLoad, LoadResetsState
  <2>2. CASE Halt \/ SendLoad \/ LoadTimesOut \/ RestoreVolume
    BY <1>1, <2>2 DEF Halt, SendLoad, LoadTimesOut, RestoreVolume, GivenUp, MpvStops, MpvLoads,
                      MpvSetsVolume
  <2>3. QED
    BY <1>3, <2>1, <2>2
       DEF RunStep, ReadItems, Decide, Unload, Rest, Claim, Resolve, Reject,
           LoadUnavailable, Commit, PlayerDown, Publish, Retry, Forget, Finish, playerVars
<1>4. ASSUME NEW w \in Workers, Calls(w) \/ CommandStep(w)
      PROVE  /\ mpv'.up
             /\ \/ /\ mpv'.paused = mpv.paused /\ mpv'.note = mpv.note
                   /\ state'.paused = state.paused
                \/ SendPause(w)
  <2>1. CASE SendPause(w)
    BY <1>1, <2>1 DEF SendPause, GivenUp, MpvSetsPaused
  <2>2. CASE SendStop(w) \/ SendVolume(w)
    BY <1>1, <2>2 DEF SendStop, SendVolume, GivenUp, MpvStops, MpvSetsVolume
  <2>3. QED
    BY <1>4, <2>1, <2>2
       DEF Calls, CallPause, CallResume, CallStop, CallSetVolume, CommandStep, Unstop,
           SaveUnstop, LockPause, SavePause, LockStop, SaveStop, SaveVolume, playerVars
<1>5. CASE PlayerReports
  <2>1. /\ [state EXCEPT !.paused = mpv.paused] \in StateType
        /\ [state EXCEPT !.paused = mpv.paused].paused = mpv.paused
        /\ [state EXCEPT !.buffering = ~@] \in StateType
        /\ [state EXCEPT !.buffering = ~@].paused = state.paused
        /\ [state EXCEPT !.status = "idle"] \in StateType
        /\ [state EXCEPT !.status = "idle"].paused = state.paused
    BY <1>1 DEF StateType, PlayerStatuses
  <2>2. CASE ReportPause
    BY <1>1, <1>2, <1>5, <2>1, <2>2 DEF ReportPause
  <2>3. CASE ReportProgress \/ ReportBuffering \/ ReportIdle
    BY <1>1, <1>2, <2>1, <2>3 DEF ReportProgress, ReportBuffering, ReportIdle
  <2>4. QED BY <1>5, <2>2, <2>3 DEF PlayerReports
<1>6. CASE \E type \in {"ended", "failed"} : MediaEndsAs(type)
  BY <1>1, <1>6 DEF MediaEndsAs, MediaEnds
<1>7. CASE ProcessRestarts
  BY <1>1, <1>7 DEF ProcessRestarts
<1>8. CASE Tick \/ HandleEvent \/ UserEdits \/ BackoffExpires \/ PlayerRestarts
           \/ UNCHANGED vars
  BY <1>8 DEF Tick, HandleEvent, UserEdits, BackoffExpires, PlayerRestarts, MpvRestarts,
              playerVars, vars
<1>9. QED BY <1>3, <1>4, <1>5, <1>6, <1>7, <1>8 DEF Next

\* What the driver sends agrees with what it knows.
LEMMA ReportsTell ==
  ASSUME PlaybackInvariant, [Next]_vars, ~PlayerCrashes
  PROVE  \/ \E e \in EventType :
              /\ Emit(e) /\ e.status # "unavailable" /\ SaysPaused(e)
              /\ IsReport(e) /\ e.paused = state'.paused
         \/ /\ ~BeginLoad /\ ~PlayerReports
            /\ \/ UNCHANGED <<events, state>>
               \/ HandleEvent /\ events # <<>> /\ events' = Tail(events) /\ UNCHANGED state
               \/ ProcessRestarts
               \/ \E e \in EventType :
                    /\ Emit(e) /\ e.status # "unavailable" /\ SaysPaused(e)
                    /\ ~IsReport(e) /\ UNCHANGED state
<1>1. /\ mpv.media \in Ids \cup {None} /\ state \in StateType
      /\ mpv.paused \in BOOLEAN /\ FreshState \in StateType
  BY DEF PlaybackInvariant, PlayerTypeOK, StateType, FreshState, PlayerStatuses
<1>2. ASSUME NEW s \in StateType, Report(s)
      PROVE  \E e \in EventType :
               /\ Emit(e) /\ e.status # "unavailable" /\ SaysPaused(e)
               /\ IsReport(e) /\ e.paused = state'.paused
  <2>1. /\ Derived(s) \in StateType /\ StateEvent(Derived(s)) \in EventType
        /\ state' = Derived(s) /\ Emit(StateEvent(Derived(s)))
    BY <1>2, DerivedType, StateEventType DEF Report
  <2>2. Derived(s).status # "unavailable" /\ SaysPaused(Derived(s))
    BY DEF Derived, DerivedStatus, StateType, SaysPaused
  <2>3. /\ StateEvent(Derived(s)).status # "unavailable"
        /\ SaysPaused(StateEvent(Derived(s)))
        /\ IsReport(StateEvent(Derived(s)))
        /\ StateEvent(Derived(s)).paused = state'.paused
    BY <2>1, <2>2 DEF StateEvent, SaysPaused, IsReport
  <2>4. QED BY <2>1, <2>3
<1>3. CASE BeginLoad
  <2>1. /\ state' = [status |-> "loading", paused |-> FALSE, buffering |-> FALSE]
        /\ state' \in StateType /\ Emit(StateEvent(state'))
    BY <1>3 DEF BeginLoad, LoadResetsState, StateType, PlayerStatuses
  <2>2. /\ StateEvent(state') \in EventType /\ IsReport(StateEvent(state'))
        /\ StateEvent(state').status # "unavailable" /\ SaysPaused(StateEvent(state'))
        /\ StateEvent(state').paused = state'.paused
    BY <2>1, StateEventType DEF StateEvent, IsReport, SaysPaused
  <2>3. QED BY <2>1, <2>2
<1>4. CASE PlayerReports
  <2>1. \E s \in StateType : Report(s)
    <3>1. /\ [state EXCEPT !.paused = mpv.paused] \in StateType
          /\ [state EXCEPT !.buffering = ~@] \in StateType
          /\ [state EXCEPT !.status = "idle"] \in StateType
      BY <1>1 DEF StateType, PlayerStatuses
    <3>2. QED
      BY <1>1, <1>4, <3>1
         DEF PlayerReports, ReportProgress, ReportPause, ReportIdle, ReportBuffering
  <2>2. QED BY <1>2, <2>1
<1>5. CASE PlayerRestarts
  <2>1. \A buffering \in BOOLEAN :
          [FreshState EXCEPT !.buffering = buffering] \in StateType
    BY <1>1 DEF StateType
  <2>2. \E s \in StateType : Report(s)
    BY <1>1, <1>5, <2>1 DEF PlayerRestarts, MpvRestarts, StateType
  <2>3. QED BY <1>2, <2>2
<1>6. CASE RunStep /\ ~BeginLoad /\ ~PlayerReports
  BY <1>6
     DEF RunStep, ReadItems, Decide, Halt, Unload, Rest, Claim, Resolve, Reject, SendLoad,
         LoadTimesOut, LoadUnavailable, RestoreVolume, Commit, PlayerDown, Publish, Retry,
         Forget, Finish, playerVars
<1>7. ASSUME NEW type \in {"ended", "failed"}, MediaEndsAs(type)
      PROVE  \E e \in EventType :
               /\ Emit(e) /\ e.status # "unavailable" /\ SaysPaused(e)
               /\ ~IsReport(e) /\ UNCHANGED state
  <2>1. /\ EndEvent(type, mpv.media) \in EventType /\ Emit(EndEvent(type, mpv.media))
        /\ UNCHANGED state
    BY <1>1, <1>7, EndEventType DEF MediaEndsAs, MediaEnds
  <2>2. /\ EndEvent(type, mpv.media).status # "unavailable"
        /\ SaysPaused(EndEvent(type, mpv.media)) /\ ~IsReport(EndEvent(type, mpv.media))
    BY DEF EndEvent, IsReport, SaysPaused
  <2>3. QED BY <2>1, <2>2
<1>8. CASE HandleEvent /\ ~BeginLoad /\ ~PlayerReports
  BY <1>8 DEF HandleEvent
<1>9. ASSUME NEW w \in Workers, Calls(w) \/ CommandStep(w) PROVE UNCHANGED <<events, state>>
  BY <1>9
     DEF Calls, CallPause, CallResume, CallStop, CallSetVolume, CommandStep,
         Unstop, SaveUnstop, LockPause, SendPause, SavePause, SendStop, LockStop, SaveStop,
         SendVolume, SaveVolume, playerVars
<1>10. CASE /\ ~BeginLoad /\ ~PlayerReports
            /\ Tick \/ UserEdits \/ BackoffExpires \/ UNCHANGED vars
  BY <1>10 DEF Tick, UserEdits, BackoffExpires, playerVars, vars
<1>11. QED BY <1>3, <1>4, <1>5, <1>6, <1>7, <1>8, <1>9, <1>10 DEF Next

\* A report in the channel stays there until it is handled.
LEMMA ToldStays ==
  ASSUME PlaybackInvariant, [Next]_vars, Told,
         ~ProcessRestarts, HandleEvent => ~IsReport(Head(events))
  PROVE  Told'
<1>1. events \in Seq(EventType)
  BY DEF PlaybackInvariant, PlayerTypeOK
<1>2. PICK i \in DOMAIN events : IsReport(events[i])
  BY DEF Told
<1>3. CASE UNCHANGED events
  BY <1>3 DEF Told
<1>4. CASE HandleEvent /\ events # <<>> /\ events' = Tail(events)
  <2>1. i # 1
    BY <1>1, <1>2, <1>4
  <2>2. i - 1 \in DOMAIN events' /\ events'[i - 1] = events[i]
    BY <1>1, <1>4, <2>1, TailKeeps
  <2>3. QED BY <1>2, <2>2 DEF Told
<1>5. ASSUME NEW e \in EventType, Emit(e) PROVE Told'
  BY <1>1, <1>2, <1>5, EmitKeeps DEF Told
<1>6. QED BY <1>3, <1>4, <1>5, EventStep

LEMMA ToldByReport ==
  ASSUME PlaybackInvariant, [Next]_vars, ~PlayerCrashes, Len(events) < ChanCap,
         BeginLoad \/ PlayerReports
  PROVE  Told'
<1>1. events \in Seq(EventType)
  BY DEF PlaybackInvariant, PlayerTypeOK
<1>2. QED BY <1>1, ReportsTell, EmitKeeps DEF Told

\* What each transaction does to the playback columns.
LEMMA WhoStoresPause ==
  ASSUME PlaybackInvariant, [Next]_vars
  PROVE  \/ db'.status = db.status /\ db'.paused = db.paused /\ db'.buffering = db.buffering
         \/ /\ db'.paused = FALSE /\ db'.buffering = FALSE
            /\ \/ /\ \/ Rest \/ Claim \/ Reject \/ Retry \/ LoadUnavailable \/ PlayerDown
                     \/ ProcessRestarts \/ \E pc \in {"finish", "fail"} : Finish(pc)
                     \/ \E w \in Workers : SaveUnstop(w)
                  /\ db'.status \notin {"paused", "stopped"}
               \/ db'.status = "stopped" /\ \E w \in Workers : SaveStop(w)
         \/ /\ Publish /\ db'.status = run.ev.status
            /\ db'.paused = run.ev.paused /\ db'.buffering = run.ev.buffering
         \/ /\ \E w \in Workers : SavePause(w) /\ db'.paused = cmd[w].paused
            /\ SaysPaused(db') /\ db'.status \in {db.status, "paused", "playing", "buffering"}
<1>1. db \in DbType /\ cmd \in [Workers -> CmdType]
  BY DEF PlaybackInvariant, DbInvariant, DbTypeOK, ControllerOK
<1>2. CASE RunStep
  <2>1. CASE Claim
    <3>1. CASE DbSetCurrent(run.item)
      <4>1. db'.paused = FALSE /\ db'.buffering = FALSE /\ db'.status = "loading"
        BY <1>1, <3>1 DEF DbSetCurrent, SetCurrent, Cleared, DbType
      <4>2. QED BY <2>1, <4>1
    <3>2. QED BY <2>1, <3>1 DEF Claim
  <2>2. CASE \/ Reject \/ \E pc \in {"finish", "fail"} : Finish(pc)
    <3>1. UNCHANGED db \/ \E failed \in BOOLEAN : DbFinishCurrent(run.item, failed)
      BY <2>2 DEF Reject, Finish
    <3>2. ASSUME NEW failed \in BOOLEAN, DbFinishCurrent(run.item, failed)
          PROVE  db'.paused = FALSE /\ db'.buffering = FALSE /\ db'.status = "idle"
      BY <1>1, <3>2 DEF DbFinishCurrent, FinishCurrent, Bump, Cleared, DeleteRow, DbType
    <3>3. QED BY <2>2, <3>1, <3>2
  <2>3. CASE Retry
    <3>1. CASE DbRetryCurrent(run.item)
      <4>1. db'.paused = FALSE /\ db'.buffering = FALSE /\ db'.status = "retrying"
        BY <1>1, <3>1 DEF DbRetryCurrent, RetryCurrent, Cleared, DbType
      <4>2. QED BY <2>3, <4>1
    <3>2. QED BY <2>3, <3>1 DEF Retry
  <2>4. CASE Rest \/ LoadUnavailable \/ PlayerDown
    <3>1. \E status \in {"idle", "unavailable"} : db' = Cleared(db, status)
      BY <2>4 DEF Rest, LoadUnavailable, PlayerDown, DbResetPlayback, ResetPlayback
    <3>2. db'.paused = FALSE /\ db'.buffering = FALSE /\ db'.status \in {"idle", "unavailable"}
      BY <1>1, <3>1 DEF Cleared, DbType
    <3>3. QED BY <2>4, <3>2
  <2>5. CASE Publish
    BY <1>1, <2>5 DEF Publish, DbUpdatePlayback, UpdatePlayback, DbType
  <2>6. QED
    BY <1>2, <2>1, <2>2, <2>3, <2>4, <2>5
       DEF RunStep, ReadItems, Decide, Halt, Unload, Resolve, BeginLoad, SendLoad,
           LoadTimesOut, RestoreVolume, Commit, Forget
<1>3. db' = ReconcilePlayback(db) =>
        db'.paused = FALSE /\ db'.buffering = FALSE /\ db'.status = "idle"
  BY <1>1 DEF ReconcilePlayback, Cleared, DbType
<1>4. ASSUME NEW w \in Workers, CommandStep(w), ~SaveUnstop(w), ~SaveStop(w), ~SavePause(w)
      PROVE  db'.status = db.status /\ db'.paused = db.paused /\ db'.buffering = db.buffering
  BY <1>1, <1>4
     DEF CommandStep, Unstop, LockPause, SendPause, SendStop, LockStop, SendVolume,
         SaveVolume, DbSetVolume, SetVolume, DbType
<1>5. ASSUME NEW w \in Workers, SavePause(w)
      PROVE  /\ db'.paused = cmd[w].paused
             /\ SaysPaused(db') /\ db'.status \in {db.status, "paused", "playing", "buffering"}
  <2>1. /\ cmd[w].paused \in BOOLEAN /\ db.buffering \in BOOLEAN
        /\ db'.paused = cmd[w].paused /\ db'.buffering = db.buffering
        /\ db'.status = CASE db.buffering -> "buffering"
                          [] ~db.buffering /\ cmd[w].paused -> "paused"
                          [] ~db.buffering /\ ~cmd[w].paused /\ db.status = "paused"
                               -> "playing"
                          [] OTHER -> db.status
    BY <1>1, <1>5 DEF SavePause, DbSetPaused, SetPaused, DbType, CmdType
  <2>2. QED BY <2>1 DEF SaysPaused
<1>6. ASSUME NEW w \in Workers, Calls(w) PROVE UNCHANGED db
  BY <1>6 DEF Calls, CallPause, CallResume, CallStop, CallSetVolume
<1>7. ASSUME NEW w \in Workers, SaveStop(w)
      PROVE  db'.paused = FALSE /\ db'.buffering = FALSE /\ db'.status = "stopped"
  BY <1>1, <1>7 DEF SaveStop, DbResetPlayback, ResetPlayback, Cleared, DbType
<1>8. CASE ProcessRestarts
  BY <1>3, <1>8 DEF ProcessRestarts, DbReconcilePlayback
<1>9. ASSUME NEW w \in Workers, SaveUnstop(w)
       PROVE  db'.paused = FALSE /\ db'.buffering = FALSE /\ db'.status = "idle"
  BY <1>3, <1>9 DEF SaveUnstop, DbReconcilePlayback
<1>10. CASE \/ Tick \/ HandleEvent \/ BackoffExpires \/ PlayerReports
            \/ PlayerCrashes \/ PlayerRestarts \/ UNCHANGED vars
            \/ \E type \in {"ended", "failed"} : MediaEndsAs(type)
  BY <1>10
     DEF Tick, HandleEvent, BackoffExpires, PlayerReports, PlayerCrashes, PlayerRestarts,
         MediaEndsAs, vars
<1>11. ASSUME NEW w \in Workers, Calls(w) \/ CommandStep(w)
       PROVE  \/ db'.status = db.status /\ db'.paused = db.paused /\ db'.buffering = db.buffering
              \/ SaveUnstop(w) \/ SaveStop(w) \/ SavePause(w)
  BY <1>4, <1>6, <1>11
<1>12. QED
  BY <1>2, <1>5, <1>7, <1>8, <1>9, <1>10, <1>11, EditsKeepPlayback DEF Next

\* The parts of the invariant, each kept by every step.
LEMMA ObeyedStep ==
  ASSUME PlaybackInvariant, Obeyed, [Next]_vars, ~PlayerCrashes, "stop" \notin Kinds
  PROVE  Obeyed'
<1>1. /\ run \in RunType /\ cmd \in [Workers -> CmdType] /\ events \in Seq(EventType)
      /\ run.pc = "publish" => run.ev.status # "stopped"
  BY DEF PlaybackInvariant, ControllerOK, PlayerTypeOK, RunType, EventType, PlayerStatuses
<1>2. \A w \in Workers : /\ ~CallStop(w) /\ ~SendStop(w) /\ ~LockStop(w) /\ ~SaveStop(w)
                         /\ ~Unstop(w) /\ ~SaveUnstop(w)
  BY DEF CallStop, Call, SendStop, LockStop, SaveStop, Unstop, SaveUnstop, CmdAt, Obeyed
<1>3. \A w \in Workers : cmd'[w].pc \notin {"unstop", "unstopped", "stop_send", "stop", "stop_save"}
  <2>1. CASE UNCHANGED cmd
    BY <2>1 DEF Obeyed
  <2>2. ASSUME NEW w \in Workers, Calls(w) \/ CommandStep(w)
        PROVE  cmd'[w].pc \notin {"unstop", "unstopped", "stop_send", "stop", "stop_save"}
    <3>1. CASE CallPause(w)
      BY <1>1, <3>1 DEF CallPause, NoCommand
    <3>2. CASE CallResume(w)
      BY <1>1, <3>2 DEF CallResume, CmdGoto, CmdType, Obeyed
    <3>3. CASE CallSetVolume(w)
      BY <1>1, <3>3 DEF CallSetVolume, NoCommand
    <3>4. CASE CommandStep(w)
      BY <1>1, <1>2, <3>4
         DEF CommandStep, LockPause, SendPause, SavePause, SendVolume, SaveVolume,
             CmdGoto, CmdReturn, NoCommand, CmdType
    <3>5. QED BY <1>2, <2>2, <3>1, <3>2, <3>3, <3>4 DEF Calls
  <2>3. CASE ProcessRestarts
    BY <2>3 DEF ProcessRestarts, NoCommand
  <2>4. QED BY <2>1, <2>2, <2>3, WhoCommands, CommandsMove DEF Obeyed
<1>4. ~c'.stopped
  BY <1>2, WhoStops DEF Obeyed
<1>5. mpv'.up
  BY WhoPauses DEF Obeyed
<1>6. db'.status # "stopped"
  BY <1>1, <1>2, WhoStoresPause DEF Publish, RunAt, Obeyed
<1>7. \A i \in DOMAIN events' : events'[i].status # "unavailable"
  BY <1>1, ReportsTell DEF Emit, ProcessRestarts, Obeyed
<1>8. run'.pc \notin {"unavailable", "down"}
  <2>1. CASE UNCHANGED run \/ run'.pc = "select"
    BY <2>1 DEF Obeyed
  <2>2. CASE (Tick \/ RunStep) /\ ~HandleEvent
    BY <2>2, RunTargets DEF Return, AtSelect, Obeyed
  <2>3. CASE HandleEvent
    <3>1. events # <<>> /\ Head(events).status # "unavailable"
      BY <1>1, <2>3 DEF HandleEvent, Obeyed
    <3>2. CASE HandleState(Head(events))
      BY <3>1, <3>2, StateHandled DEF Return, AtSelect
    <3>3. CASE HandleEnd(Head(events))
      BY <3>3, EndHandled
    <3>4. QED BY <2>3, <3>2, <3>3 DEF HandleEvent, Return, AtSelect
  <2>4. QED BY <2>1, <2>2, <2>3, WhoRuns
<1>9. QED BY <1>3, <1>4, <1>5, <1>6, <1>7, <1>8 DEF Obeyed

\* What handleEvent makes of a report.
LEMMA ReportHandled ==
  ASSUME PlaybackInvariant, NEW e \in EventType, HandleState(e), e.status # "unavailable"
  PROVE  \/ Return /\ c.loadedID = None /\ UNCHANGED c
         \/ run'.pc = "rest" /\ c.loadedID = None /\ UNCHANGED c
         \/ /\ run'.pc = "publish" /\ run'.ev = Published(e)
            /\ c'.loadedID = c.loadedID /\ c'.commandedPause \in {c.commandedPause, None}
<1>1. c \in ControllerType /\ run \in RunType
  BY DEF PlaybackInvariant, ControllerOK
<1>2. CASE c.loadedID = None
  BY <1>1, <1>2 DEF HandleState, Goto, RunType
<1>3. CASE c.loadedID # None
  <2>1. c'.loadedID = c.loadedID /\ c'.commandedPause \in {c.commandedPause, None}
    BY <1>1, <1>3 DEF HandleState, Set, ControllerType
  <2>2. run' = [run EXCEPT !.pc = "publish", !.ev = Published(e), !.volume = c.desiredVolume]
    BY <1>3 DEF HandleState
  <2>3. QED BY <1>1, <2>1, <2>2 DEF RunType
<1>4. QED BY <1>2, <1>3

\* A commanded pause overrides the report, and its status with it.
LEMMA PublishedTells ==
  ASSUME c \in ControllerType, NEW e \in EventType, SaysPaused(e)
  PROVE  /\ SaysPaused(Published(e))
         /\ Published(e).paused = IF c.commandedPause = None THEN e.paused
                                  ELSE c.commandedPause
<1>1. CASE c.commandedPause = None
  BY <1>1 DEF Published
<1>2. CASE c.commandedPause # None
  <2>1. c.commandedPause \in BOOLEAN /\ e.buffering \in BOOLEAN
    BY <1>2 DEF ControllerType, EventType
  <2>2. /\ Published(e).paused = c.commandedPause /\ Published(e).buffering = e.buffering
        /\ Published(e).status = PublishedStatus(e, c.commandedPause)
    BY <1>2 DEF Published, EventType
  <2>3. PublishedStatus(e, c.commandedPause) = "paused"
          <=> c.commandedPause = TRUE /\ e.buffering = FALSE
    BY <2>1 DEF PublishedStatus, SaysPaused
  <2>4. QED BY <1>2, <2>2, <2>3 DEF SaysPaused
<1>3. QED BY <1>1, <1>2

LEMMA StatusTellsStep ==
  ASSUME PlaybackInvariant, Obeyed, StatusTells, [Next]_vars, ~PlayerCrashes
  PROVE  StatusTells'
<1>1. /\ c \in ControllerType /\ run \in RunType /\ events \in Seq(EventType)
  BY DEF PlaybackInvariant, ControllerOK, PlayerTypeOK
<1>2. SaysPaused(db')
  <2>1. CASE Publish
    BY <2>1, WhoStoresPause DEF Publish, RunAt, StatusTells, SaysPaused
  <2>2. CASE ~Publish
    BY <2>2, WhoStoresPause DEF StatusTells, SaysPaused
  <2>3. QED BY <2>1, <2>2
<1>3. \A i \in DOMAIN events' : SaysPaused(events'[i])
  BY <1>1, ReportsTell DEF Emit, ProcessRestarts, StatusTells
<1>4. run'.pc = "publish" => SaysPaused(run'.ev)
  <2> SUFFICES ASSUME run'.pc = "publish" PROVE SaysPaused(run'.ev)
    OBVIOUS
  <2>1. CASE UNCHANGED run
    BY <2>1 DEF StatusTells
  <2>2. CASE HandleEvent
    <3>1. /\ Head(events) \in EventType /\ SaysPaused(Head(events))
          /\ Head(events).status # "unavailable"
      BY <1>1, <2>2 DEF HandleEvent, StatusTells, Obeyed
    <3>2. HandleState(Head(events))
      BY <2>2, EndHandled DEF HandleEvent, Return, AtSelect
    <3>3. run'.ev = Published(Head(events))
      BY <3>1, <3>2, ReportHandled DEF Return, AtSelect
    <3>4. QED BY <1>1, <3>1, <3>3, PublishedTells
  <2>3. CASE (Tick \/ RunStep) /\ ~HandleEvent
    BY <2>3, RunTargets DEF Return, AtSelect
  <2>4. QED BY <2>1, <2>2, <2>3, WhoRuns
<1>5. QED BY <1>2, <1>3, <1>4 DEF StatusTells

LEMMA DriverTellsStep ==
  ASSUME PlaybackInvariant, Obeyed, DriverTells, [Next]_vars, ~PlayerCrashes,
         LoadsUnpaused, PausesSucceed, Len(events) < ChanCap
  PROVE  DriverTells'
<1>1. /\ events \in Seq(EventType) /\ mpv.paused \in BOOLEAN /\ mpv.up
  BY DEF PlaybackInvariant, PlayerTypeOK, Obeyed
<1>2. mpv'.note = TRUE \/ state'.paused = mpv'.paused
  <2>1. CASE ProcessRestarts
    BY <2>1 DEF ProcessRestarts, FreshState, FreshMpv
  <2>2. CASE BeginLoad /\ UNCHANGED mpv /\ state'.paused = FALSE
    BY <1>1, <2>2 DEF LoadsUnpaused
  <2>3. CASE \E w \in Workers : SendPause(w)
    BY <1>1, <2>3, PauseSent DEF DriverTells, PausesSucceed
  <2>4. QED BY <1>1, <2>1, <2>2, <2>3, WhoPauses DEF DriverTells
<1>3. ASSUME NEW i \in DOMAIN events', IsReport(events'[i])
      PROVE  \/ events'[i].paused = state'.paused
             \/ \E j \in DOMAIN events' : j > i /\ IsReport(events'[j])
  <2>1. ASSUME NEW e \in EventType, Emit(e), IsReport(e), e.paused = state'.paused
        PROVE  \/ events'[i].paused = state'.paused
               \/ \E j \in DOMAIN events' : j > i /\ IsReport(events'[j])
    <3>1. events' = Append(events, e)
      BY <2>1 DEF Emit
    <3>2. CASE i = Len(events) + 1
      BY <1>1, <2>1, <3>1, <3>2
    <3>3. CASE i # Len(events) + 1
      <4>1. Len(events) + 1 > i /\ Len(events) + 1 \in DOMAIN events'
        BY <1>1, <1>3, <3>1, <3>3
      <4>2. events'[Len(events) + 1] = e
        BY <1>1, <3>1
      <4>3. QED BY <2>1, <4>1, <4>2
    <3>4. QED BY <3>2, <3>3
  <2>2. CASE UNCHANGED <<events, state>>
    BY <1>3, <2>2 DEF DriverTells
  <2>3. CASE events # <<>> /\ events' = Tail(events) /\ UNCHANGED state
    <3>1. i + 1 \in DOMAIN events /\ events'[i] = events[i + 1] /\ i \in Nat
      BY <1>1, <1>3, <2>3
    <3>2. CASE events[i + 1].paused = state.paused
      BY <2>3, <3>1, <3>2
    <3>3. CASE \E j \in DOMAIN events : j > i + 1 /\ IsReport(events[j])
      <4>1. PICK j \in DOMAIN events : j > i + 1 /\ IsReport(events[j])
        BY <3>3
      <4>2. j - 1 \in DOMAIN events' /\ events'[j - 1] = events[j] /\ j - 1 > i
        BY <1>1, <2>3, <3>1, <4>1
      <4>3. QED BY <4>1, <4>2
    <3>4. QED BY <1>3, <3>1, <3>2, <3>3 DEF DriverTells
  <2>4. ASSUME NEW e \in EventType, Emit(e), ~IsReport(e), UNCHANGED state
        PROVE  \/ events'[i].paused = state'.paused
               \/ \E j \in DOMAIN events' : j > i /\ IsReport(events'[j])
    <3>1. events' = Append(events, e)
      BY <2>4 DEF Emit
    <3>2. i \in DOMAIN events /\ events'[i] = events[i]
      BY <1>1, <1>3, <2>4, <3>1
    <3>3. \A j \in DOMAIN events : j \in DOMAIN events' /\ events'[j] = events[j]
      BY <1>1, <3>1
    <3>4. QED BY <1>3, <2>4, <3>2, <3>3 DEF DriverTells
  <2>5. CASE ProcessRestarts
    BY <1>3, <2>5 DEF ProcessRestarts
  <2>6. QED BY <2>1, <2>2, <2>3, <2>4, <2>5, ReportsTell
<1>4. QED BY <1>2, <1>3 DEF DriverTells

\* Who changes the pause that is commanded.
LEMMA WhoCommandsPause ==
  ASSUME PlaybackInvariant, [Next]_vars
  PROVE  \/ c'.commandedPause \in {c.commandedPause, None}
         \/ \E w \in Workers : LockPause(w)
<1>1. c \in ControllerType
  BY DEF PlaybackInvariant, ControllerOK
<1>2. CASE RunStep
  BY <1>1, <1>2
     DEF RunStep, ReadItems, Decide, Halt, Unload, Rest, Claim, Resolve, Reject,
         BeginLoad, SendLoad, LoadTimesOut, LoadUnavailable, RestoreVolume, Commit,
         PlayerDown, Publish, Retry, Forget, Finish, Set, ControllerType
<1>3. CASE HandleEvent
  <2>1. CASE UNCHANGED c \/ HandleState(Head(events))
    BY <1>1, <2>1 DEF HandleState, Set, ControllerType
  <2>2. CASE HandleEnd(Head(events))
    BY <1>1, <2>2 DEF HandleEnd, ControllerType
  <2>3. QED BY <1>3, <2>1, <2>2 DEF HandleEvent
<1>4. ASSUME NEW w \in Workers, Calls(w) \/ CommandStep(w), ~LockPause(w)
      PROVE  c'.commandedPause \in {c.commandedPause, None}
  BY <1>1, <1>4
     DEF Calls, CallPause, CallResume, CallStop, CallSetVolume, CommandStep,
         Unstop, SaveUnstop, SendPause, SavePause, SendStop, LockStop, SaveStop,
         SendVolume, SaveVolume, Set, ControllerType
<1>5. CASE \/ Tick \/ UserEdits \/ BackoffExpires \/ PlayerReports
           \/ PlayerCrashes \/ PlayerRestarts \/ UNCHANGED vars
           \/ \E type \in {"ended", "failed"} : MediaEndsAs(type)
  BY <1>1, <1>5
     DEF Tick, UserEdits, BackoffExpires, PlayerReports, PlayerCrashes,
         PlayerRestarts, MediaEndsAs, vars, Set, ControllerType
<1>6. CASE ProcessRestarts
  BY <1>6 DEF ProcessRestarts, NewController
<1>7. QED BY <1>2, <1>3, <1>4, <1>5, <1>6 DEF Next

\* A handler's way through Pause and Resume.
LEMMA PauseHandlers ==
  ASSUME PlaybackInvariant, NEW w \in Workers, Calls(w) \/ CommandStep(w)
  PROVE  /\ cmd'[w].pc = "pause_send" =>
              LockPause(w) /\ cmd[w].pc = "pause" /\ cmd'[w].paused = cmd[w].paused
         /\ cmd'[w].pc = "pause_save" =>
              SendPause(w) /\ cmd[w].pc = "pause_send" /\ cmd'[w].paused = cmd[w].paused
         /\ LockPause(w) => cmd'[w].pc = "pause_send" /\ c'.commandedPause = cmd[w].paused
         /\ cmd[w].pc = "pause_send" =>
              SendPause(w) /\ (cmd'[w].pc = "pause_save" \/ cmd'[w].pc = "none")
<1>1. cmd \in [Workers -> CmdType] /\ c \in ControllerType
  BY DEF PlaybackInvariant, ControllerOK
<1>2. CASE CallPause(w)
  <2>1. cmd'[w].pc = "pause" /\ cmd[w].pc = "none"
    BY <1>1, <1>2 DEF CallPause, Call, NoCommand
  <2>2. QED BY <2>1 DEF LockPause, CmdAt
<1>3. CASE CallSetVolume(w)
  <2>1. cmd'[w].pc = "volume" /\ cmd[w].pc = "none"
    BY <1>1, <1>3 DEF CallSetVolume, Call, NoCommand
  <2>2. QED BY <2>1 DEF LockPause, CmdAt
<1>4. CASE CallResume(w) \/ CallStop(w)
  <2>1. cmd'[w].pc \in {"unstop", "pause", "stop_send"} /\ cmd[w].pc = "none"
    BY <1>1, <1>4 DEF CallResume, CallStop, Call, CmdGoto, NoCommand, CmdType
  <2>2. QED BY <2>1 DEF LockPause, CmdAt
<1>5. CASE LockPause(w)
  <2>1. /\ cmd'[w].pc = "pause_send" /\ cmd[w].pc = "pause"
        /\ cmd'[w].paused = cmd[w].paused /\ c'.commandedPause = cmd[w].paused
    BY <1>1, <1>5 DEF LockPause, CmdAt, CmdGoto, Set, CmdType, ControllerType
  <2>2. QED BY <1>5, <2>1
<1>6. CASE SendPause(w)
  <2>1. /\ cmd[w].pc = "pause_send"
        /\ \/ cmd'[w].pc = "pause_save" /\ cmd'[w].paused = cmd[w].paused
           \/ cmd'[w].pc = "none"
    BY <1>1, <1>6 DEF SendPause, CmdAt, CmdGoto, CmdReturn, NoCommand, CmdType
  <2>2. QED BY <1>6, <2>1 DEF LockPause, CmdAt
<1>7. CASE CommandStep(w) /\ ~LockPause(w) /\ ~SendPause(w)
  <2>1. /\ cmd[w].pc \in {"unstop", "unstopped", "pause_save", "stop_send", "stop",
                          "stop_save", "volume", "volume_save"}
        /\ cmd'[w].pc \in {"unstopped", "none", "stop", "stop_save", "volume_save"}
    BY <1>1, <1>7
       DEF CommandStep, Unstop, SaveUnstop, SavePause, SendStop, LockStop, SaveStop, SendVolume,
           SaveVolume, CmdAt, CmdGoto, CmdReturn, NoCommand, CmdType
  <2>2. QED BY <1>7, <2>1
<1>8. QED BY <1>2, <1>3, <1>4, <1>5, <1>6, <1>7 DEF Calls

LEMMA CommandTellsStep ==
  ASSUME PlaybackInvariant, Obeyed, CommandTells, [Next]_vars, ~PlayerCrashes, PausesSucceed,
         \A v, w \in Workers : v = w
  PROVE  CommandTells'
<1>1. mpv.up
  BY DEF Obeyed
<1>2. CASE UNCHANGED cmd /\ ~ProcessRestarts
  <2>1. \A w \in Workers : ~LockPause(w) /\ ~SendPause(w)
    BY <1>2, CommandsMove DEF CommandStep
  <2>2. mpv'.paused = mpv.paused /\ c'.commandedPause \in {c.commandedPause, None}
    BY <1>1, <1>2, <2>1, WhoPauses, WhoCommandsPause
  <2>3. QED BY <1>2, <2>2 DEF CommandTells
<1>3. ASSUME NEW w \in Workers, Calls(w) \/ CommandStep(w) PROVE CommandTells'
  <2>1. \A v \in Workers : v = w
    OBVIOUS
  <2>2. CASE LockPause(w)
    <3>1. cmd'[w].pc = "pause_send" /\ c'.commandedPause = cmd[w].paused
          /\ cmd'[w].paused = cmd[w].paused
      BY <1>3, <2>2, PauseHandlers
    <3>2. QED BY <2>1, <3>1 DEF CommandTells
  <2>3. CASE SendPause(w)
    <3>1. /\ cmd'[w].pc = "pause_save" /\ mpv'.paused = cmd[w].paused
          /\ c'.commandedPause = c.commandedPause
      BY <1>1, <2>3, PauseSent DEF PausesSucceed
    <3>2. cmd'[w].paused = cmd[w].paused /\ cmd[w].pc = "pause_send"
      BY <1>3, <3>1, PauseHandlers
    <3>3. c.commandedPause # None => c.commandedPause = cmd[w].paused
      BY <3>2 DEF CommandTells
    <3>4. QED BY <2>1, <3>1, <3>2, <3>3 DEF CommandTells
  <2>4. CASE ~LockPause(w) /\ ~SendPause(w)
    <3>1. /\ cmd'[w].pc \notin {"pause_send", "pause_save"}
          /\ cmd[w].pc # "pause_send"
      BY <1>3, <2>4, PauseHandlers
    <3>2. ~ProcessRestarts \/ c'.commandedPause = None
      BY DEF ProcessRestarts, NewController
    <3>3. c'.commandedPause \in {c.commandedPause, None}
      BY <2>1, <2>4, WhoCommandsPause
    <3>4. c'.commandedPause = None \/ mpv'.paused = mpv.paused
      BY <1>1, <2>1, <2>4, <3>2, WhoPauses
    <3>5. QED BY <2>1, <3>1, <3>3, <3>4 DEF CommandTells
  <2>5. QED BY <2>2, <2>3, <2>4
<1>4. CASE ProcessRestarts
  BY <1>4 DEF ProcessRestarts, NewController, NoCommand, CommandTells
<1>5. QED BY <1>2, <1>3, <1>4, WhoCommands

\* Only a load that has succeeded makes the controller believe in an item.
LEMMA WhoCommits ==
  ASSUME PlaybackInvariant, [Next]_vars
  PROVE  c'.loadedID \in {c.loadedID, None} \/ Commit
<1>1. c \in ControllerType
  BY DEF PlaybackInvariant, ControllerOK
<1>2. ASSUME NEW w \in Workers, Calls(w) \/ CommandStep(w)
      PROVE  c'.loadedID \in {c.loadedID, None}
  BY <1>1, <1>2
     DEF Calls, CallPause, CallResume, CallStop, CallSetVolume, CommandStep, Unstop,
         SaveUnstop, LockPause, SendPause, SavePause, SendStop, LockStop, SaveStop, SendVolume,
         SaveVolume, Set, ControllerType
<1>3. CASE \/ UserEdits \/ BackoffExpires \/ PlayerReports
           \/ PlayerCrashes \/ PlayerRestarts \/ UNCHANGED vars
           \/ \E type \in {"ended", "failed"} : MediaEndsAs(type)
  BY <1>1, <1>3
     DEF UserEdits, BackoffExpires, PlayerReports, PlayerCrashes, PlayerRestarts,
         MediaEndsAs, vars, Set, ControllerType
<1>4. CASE ProcessRestarts
  BY <1>4 DEF ProcessRestarts, NewController
<1>5. QED BY <1>2, <1>3, <1>4, RunInHand DEF Next

LEMMA LoadTellsStep ==
  ASSUME PlaybackInvariant, Obeyed, LoadTells, [Next]_vars, ~PlayerCrashes,
         LoadsUnpaused, PausesSucceed, Len(events) < ChanCap
  PROVE  LoadTells'
<1>1. /\ mpv.up /\ mpv.paused \in BOOLEAN
      /\ c \in ControllerType /\ run \in RunType /\ events \in Seq(EventType)
  BY DEF PlaybackInvariant, ControllerOK, PlayerTypeOK, Obeyed
<1>2. ASSUME Told, ~HandleEvent, ~ProcessRestarts PROVE Told'
  BY <1>2, ToldStays
<1>3. run.pc = "select" /\ (Tick \/ HandleEvent) =>
        run'.pc \notin {"send", "volume", "commit", "resolve", "reject"}
  BY RunTargets DEF Return, AtSelect
<1>4. HandleEvent => run.pc = "select"
  BY DEF HandleEvent, RunAt
<1>5. run'.pc \in {"send", "volume", "commit"} => Told'
  <2> SUFFICES ASSUME run'.pc \in {"send", "volume", "commit"} PROVE Told'
    OBVIOUS
  <2>1. ~HandleEvent /\ ~ProcessRestarts
    BY <1>3, <1>4 DEF ProcessRestarts, AtSelect
  <2>2. CASE UNCHANGED run
    BY <1>2, <2>1, <2>2 DEF LoadTells
  <2>3. CASE BeginLoad
    BY <2>3, ToldByReport
  <2>4. CASE Tick \/ RunStep
    BY <1>2, <2>1, <2>3, <2>4, RunTargets DEF LoadTells, Return, AtSelect
  <2>5. QED BY <2>1, <2>2, <2>4, WhoRuns
<1>6. run'.pc \in {"resolve", "reject"} =>
        mpv'.paused = FALSE \/ mpv'.note = TRUE \/ Told'
  <2> SUFFICES ASSUME run'.pc \in {"resolve", "reject"}
               PROVE  mpv'.paused = FALSE \/ mpv'.note = TRUE \/ Told'
    OBVIOUS
  <2>1. ~HandleEvent /\ ~ProcessRestarts
    BY <1>3, <1>4 DEF ProcessRestarts, AtSelect
  <2>2. ASSUME mpv.paused = FALSE \/ mpv.note = TRUE \/ Told
        PROVE  mpv'.paused = FALSE \/ mpv'.note = TRUE \/ Told'
    <3>1. CASE Told
      BY <1>2, <2>1, <3>1
    <3>2. CASE \E w \in Workers : SendPause(w)
      BY <1>1, <1>2, <2>1, <2>2, <3>2, PauseSent DEF PausesSucceed
    <3>3. CASE PlayerReports
      BY <3>3, ToldByReport
    <3>4. QED BY <1>1, <2>1, <2>2, <3>1, <3>2, <3>3, WhoPauses
  <2>3. CASE UNCHANGED run
    BY <2>2, <2>3 DEF LoadTells
  <2>4. CASE Claim
    BY <1>1, <2>4 DEF LoadsUnpaused, Claim, playerVars
  <2>5. CASE LoadTimesOut
    BY <1>2, <2>1, <2>5 DEF LoadTimesOut, LoadTells
  <2>6. CASE (Tick \/ RunStep) /\ ~Claim /\ ~LoadTimesOut
    <3>1. run.pc = "resolve"
      BY <2>1, <2>6, RunTargets DEF Return, AtSelect
    <3>2. QED BY <2>2, <3>1 DEF LoadTells
  <2>7. QED BY <2>1, <2>3, <2>4, <2>5, <2>6, WhoRuns
<1>7. run'.pc \in {"rest", "retry"} => c'.loadedID = None
  <2> SUFFICES ASSUME run'.pc \in {"rest", "retry"} PROVE c'.loadedID = None
    OBVIOUS
  <2>1. CASE UNCHANGED run
    <3>1. ~Commit
      BY <2>1 DEF Commit, RunAt
    <3>2. QED BY <2>1, <3>1, WhoCommits DEF LoadTells
  <2>2. CASE HandleEvent
    <3>1. Head(events) \in EventType /\ Head(events).status # "unavailable"
      BY <1>1, <2>2 DEF HandleEvent, Obeyed
    <3>2. CASE HandleState(Head(events))
      BY <3>1, <3>2, ReportHandled DEF Return, AtSelect
    <3>3. CASE HandleEnd(Head(events))
      BY <3>3, EndHandled
    <3>4. QED BY <2>2, <3>2, <3>3 DEF HandleEvent, Return, AtSelect
  <2>3. CASE Decide /\ run'.pc = "rest"
    <3>1. c.loadedID = None
      BY <1>1, <2>3 DEF Decide, Return, AtSelect, Goto, RunType
    <3>2. QED BY <2>3, <3>1, <1>1 DEF Decide, Set, ControllerType
  <2>4. CASE Unload
    BY <1>1, <2>4 DEF Unload, Set, ControllerType
  <2>5. CASE (Tick \/ RunStep) /\ ~HandleEvent /\ ~Decide /\ ~Unload
    BY <2>5, RunTargets DEF Return, AtSelect
  <2>6. CASE Decide /\ ~HandleEvent /\ run'.pc = "retry"
    BY <2>6, RunTargets DEF Return, AtSelect, RunStep, Decide, RunAt
  <2>7. QED BY <2>1, <2>2, <2>3, <2>4, <2>5, <2>6, WhoRuns DEF ProcessRestarts
<1>8. QED BY <1>5, <1>6, <1>7 DEF LoadTells

\* The report that is handled last says what mpv does, or the command it has not
\* confirmed yet does.
LEMMA LastReportSeen ==
  ASSUME PlaybackInvariant, PauseInvariant, [Next]_vars,
         HandleEvent, IsReport(Head(events)), c'.loadedID # None, ~OnItsWay'
  PROVE  SeenPause' = mpv'.paused
<1>1. /\ c \in ControllerType /\ events \in Seq(EventType) /\ events # <<>>
      /\ UNCHANGED <<mpv, state, cmd>> /\ events' = Tail(events)
  BY DEF PlaybackInvariant, ControllerOK, PlayerTypeOK, HandleEvent, RunAt
<1>2. /\ 1 \in DOMAIN events /\ events[1] = Head(events)
      /\ Head(events) \in EventType /\ Head(events).status # "unavailable"
      /\ SaysPaused(Head(events))
  BY <1>1 DEF PauseInvariant, Obeyed, StatusTells
<1>3. HandleState(Head(events))
  BY DEF HandleEvent, PauseInvariant, Obeyed, IsReport
<1>4. run'.pc = "publish" /\ run'.ev = Published(Head(events))
  BY <1>2, <1>3, ReportHandled
<1>5. Head(events).paused = mpv.paused
  <2>1. ~\E j \in DOMAIN events : j > 1 /\ IsReport(events[j])
    <3> SUFFICES ASSUME NEW j \in DOMAIN events, j > 1, IsReport(events[j]) PROVE FALSE
      OBVIOUS
    <3>1. j - 1 \in DOMAIN events' /\ events'[j - 1] = events[j]
      BY <1>1, TailKeeps
    <3>2. QED BY <3>1 DEF OnItsWay, Told
  <2>2. Head(events).paused = state.paused
    BY <1>2, <2>1 DEF PauseInvariant, DriverTells
  <2>3. mpv.note # TRUE
    BY <1>1 DEF OnItsWay
  <2>4. QED BY <2>2, <2>3 DEF PauseInvariant, DriverTells
<1>6. c.commandedPause # None => c.commandedPause = mpv.paused
  <2>1. ~\E w \in Workers : cmd[w].pc = "pause_send" /\ cmd[w].paused # mpv.paused
    BY <1>1 DEF OnItsWay
  <2>2. QED BY <2>1 DEF PauseInvariant, CommandTells
<1>7. run'.ev.paused = mpv.paused
  BY <1>1, <1>2, <1>4, <1>5, <1>6, PublishedTells
<1>8. QED BY <1>1, <1>4, <1>7 DEF SeenPause

\* What was on its way has arrived or still is.
LEMMA StillOnItsWay ==
  ASSUME PlaybackInvariant, PauseInvariant, [Next]_vars, ~PlayerCrashes, PausesSucceed,
         Len(events) < ChanCap, \A v, w \in Workers : v = w,
         ~ProcessRestarts, HandleEvent => ~IsReport(Head(events)), ~OnItsWay'
  PROVE  ~OnItsWay /\ mpv'.paused = mpv.paused
<1>1. mpv.up /\ ~BeginLoad /\ ~PlayerReports /\ ~Told
  BY ToldByReport, ToldStays DEF OnItsWay, PauseInvariant, Obeyed
<1>2. CASE \E w \in Workers : SendPause(w)
  <2>1. PICK w \in Workers : SendPause(w)
    BY <1>2
  <2>2. mpv.note # TRUE /\ mpv.paused = cmd[w].paused /\ mpv'.paused = cmd[w].paused
    BY <1>1, <2>1, PauseSent DEF OnItsWay, PausesSucceed
  <2>3. \A v \in Workers : v = w
    OBVIOUS
  <2>4. QED BY <1>1, <2>2, <2>3 DEF OnItsWay
<1>3. CASE ~\E w \in Workers : SendPause(w)
  <2>1. mpv'.paused = mpv.paused /\ mpv.note # TRUE
    BY <1>1, <1>3, WhoPauses DEF OnItsWay
  <2>2. ASSUME NEW w \in Workers, cmd[w].pc = "pause_send", cmd[w].paused # mpv.paused
        PROVE  FALSE
    <3>1. \A v \in Workers : ~(Calls(v) \/ CommandStep(v))
      <4>1. \A v \in Workers : v = w
        OBVIOUS
      <4>2. ~(Calls(w) \/ CommandStep(w))
        BY <1>3, <2>2, PauseHandlers
      <4>3. QED BY <4>1, <4>2
    <3>2. UNCHANGED cmd
      BY <3>1, WhoCommands
    <3>3. QED BY <2>1, <2>2, <3>2 DEF OnItsWay
  <2>3. QED BY <1>1, <2>1, <2>2 DEF OnItsWay
<1>4. QED BY <1>2, <1>3

LEMMA PauseSeenStep ==
  ASSUME PlaybackInvariant, PauseInvariant, [Next]_vars, ~PlayerCrashes,
         LoadsUnpaused, PausesSucceed, Len(events) < ChanCap,
         \A v, w \in Workers : v = w
  PROVE  PauseSeen'
<1> SUFFICES ASSUME c'.loadedID # None, run'.pc # "forget", ~OnItsWay'
             PROVE  SeenPause' = mpv'.paused
  BY DEF PauseSeen
<1>1. /\ c \in ControllerType /\ run \in RunType /\ mpv.paused \in BOOLEAN
  BY DEF PlaybackInvariant, ControllerOK, PlayerTypeOK
<1>2. ~ProcessRestarts
  BY DEF ProcessRestarts, NewController
<1>3. CASE HandleEvent /\ IsReport(Head(events))
  BY <1>3, LastReportSeen
<1>4. CASE HandleEvent => ~IsReport(Head(events))
  <2>1. ~OnItsWay /\ mpv'.paused = mpv.paused
    BY <1>2, <1>4, StillOnItsWay
  <2>2. ~Told /\ ~Told' /\ mpv.note # TRUE
    BY <2>1 DEF OnItsWay
  <2>3. c.loadedID # None
    <3>1. ~Commit
      BY <2>2 DEF Commit, RunAt, PauseInvariant, LoadTells
    <3>2. QED BY <3>1, WhoCommits
  <2>4. run.pc # "forget"
    <3>1. CASE Forget
      BY <1>1, <3>1 DEF Forget, Set, ControllerType
    <3>2. CASE UNCHANGED run
      BY <3>2
    <3>3. CASE (Tick \/ HandleEvent \/ RunStep) /\ ~Forget
      BY <3>3 DEF Tick, HandleEvent, RunStep, ReadItems, Decide, Halt, Unload, Rest, Claim,
                  Resolve, Reject, BeginLoad, SendLoad, LoadTimesOut, LoadUnavailable,
                  RestoreVolume, Commit, PlayerDown, Publish, Retry, Finish, RunAt
    <3>4. QED BY <1>2, <3>1, <3>2, <3>3, WhoRuns
  <2>5. SeenPause = mpv.paused
    BY <2>1, <2>3, <2>4 DEF PauseInvariant, PauseSeen
  <2>6. CASE run.pc = "publish"
    <3>1. CASE Publish
      <4>1. db'.paused = run.ev.paused /\ run'.pc = "select"
        <5>1. db \in DbType
          BY DEF PlaybackInvariant, DbInvariant, DbTypeOK
        <5>2. QED BY <3>1, <5>1 DEF Publish, DbUpdatePlayback, UpdatePlayback, DbType,
                                    Return, AtSelect
      <4>2. QED BY <2>1, <2>5, <2>6, <4>1 DEF SeenPause
    <3>2. CASE UNCHANGED run
      BY <2>1, <2>5, <2>6, <3>2 DEF SeenPause
    <3>3. CASE (Tick \/ HandleEvent \/ RunStep) /\ ~Publish
      BY <2>6, <3>3 DEF Tick, HandleEvent, RunStep, ReadItems, Decide, Halt, Unload, Rest,
                        Claim, Resolve, Reject, BeginLoad, SendLoad, LoadTimesOut,
                        LoadUnavailable, RestoreVolume, Commit, PlayerDown, Retry, Forget,
                        Finish, RunAt
    <3>4. QED BY <1>2, <3>1, <3>2, <3>3, WhoRuns
  <2>7. CASE run.pc # "publish"
    <3>1. run'.pc # "publish"
      <4>1. CASE HandleEvent
        BY <1>4, <4>1, EndHandled DEF HandleEvent, IsReport, Return, AtSelect
      <4>2. CASE (Tick \/ RunStep) /\ ~HandleEvent
        BY <4>2, RunTargets DEF Return, AtSelect
      <4>3. QED BY <1>2, <2>7, <4>1, <4>2, WhoRuns
    <3>2. db'.paused = mpv.paused
      <4>1. db.paused = mpv.paused
        BY <2>5, <2>7 DEF SeenPause
      <4>2. ~Publish
        BY <2>7 DEF Publish, RunAt
      <4>3. ~Rest /\ ~Retry
        BY <2>3 DEF Rest, Retry, RunAt, PauseInvariant, LoadTells
      <4>4. /\ ~LoadUnavailable /\ ~PlayerDown
            /\ \A w \in Workers : ~SaveUnstop(w) /\ ~SaveStop(w)
        BY DEF LoadUnavailable, PlayerDown, SaveUnstop, SaveStop, RunAt, CmdAt,
               PauseInvariant, Obeyed
      <4>5. \A pc \in {"finish", "fail"} : ~Finish(pc)
        BY <1>1 DEF Finish, Goto, RunType
      <4>6. CASE Claim \/ Reject
        <5>1. mpv.paused = FALSE
          BY <1>1, <2>2, <4>6 DEF LoadsUnpaused, Reject, RunAt, PauseInvariant, LoadTells
        <5>2. db'.paused = db.paused \/ db'.paused = FALSE
          <6>1. \A w \in Workers : ~SavePause(w)
            <7>1. UNCHANGED cmd
              BY <4>6 DEF Claim, Reject, RunAt
            <7>2. QED BY <7>1, CommandsMove DEF CommandStep
          <6>2. QED BY <4>2, <6>1, WhoStoresPause
        <5>3. QED BY <4>1, <5>1, <5>2
      <4>7. ASSUME NEW w \in Workers, SavePause(w) PROVE cmd[w].paused = mpv.paused
        BY <4>7 DEF SavePause, CmdAt, PauseInvariant, CommandTells
      <4>8. QED
        BY <1>2, <4>1, <4>2, <4>3, <4>4, <4>5, <4>6, <4>7, WhoStoresPause
    <3>3. QED BY <2>1, <3>1, <3>2 DEF SeenPause
  <2>8. QED BY <2>6, <2>7
<1>5. QED BY <1>3, <1>4

LEMMA PauseStep ==
  ASSUME PlaybackInvariant, PauseInvariant, [Next]_vars, ~PlayerCrashes,
         LoadsUnpaused, PausesSucceed, Len(events) < ChanCap,
         \A v, w \in Workers : v = w, "stop" \notin Kinds
  PROVE  PauseInvariant'
BY ObeyedStep, StatusTellsStep, DriverTellsStep, CommandTellsStep, LoadTellsStep, PauseSeenStep
   DEF PauseInvariant

LEMMA PauseStays ==
  ASSUME PauseInvariant, UNCHANGED vars
  PROVE  PauseInvariant'
BY DEF PauseInvariant, Obeyed, StatusTells, DriverTells, CommandTells, LoadTells, PauseSeen,
       Told, OnItsWay, SeenPause, vars

\* With one handler at a time, no Stop, no crash of mpv, no report lost, no pause
\* command that mpv refuses or answers too late and no load of a new item while mpv
\* is paused, what listeners see of the pause is true
\* whenever nothing is under way: however the reports that were queued before a
\* command mix with it, whatever users edit, and whichever loads fail.
THEOREM PlaybackPublishedPause ==
  ASSUME "stop" \notin Kinds, \A v, w \in Workers : v = w
  PROVE  UnpausedSpec /\ [](Len(events) < ChanCap) /\ [][~PlayerCrashes]_vars
           => []PublishedPause
<1>1. Init => PauseInvariant
  <2> SUFFICES ASSUME Init PROVE PauseInvariant
    OBVIOUS
  <2>1. /\ mpv = FreshMpv /\ state = FreshState /\ events = <<>>
        /\ c = NewController /\ run = AtSelect
        /\ \A w \in Workers : cmd[w] = NoCommand
        /\ db.status = "idle" /\ db.paused = FALSE /\ db.buffering = FALSE
    BY DEF Init, DbInit, InitialDb, PlayerInit
  <2>2. Obeyed /\ StatusTells
    BY <2>1 DEF FreshMpv, NewController, AtSelect, NoCommand, Obeyed, StatusTells, SaysPaused
  <2>3. DriverTells /\ CommandTells
    <3>1. mpv.paused = FALSE /\ state.paused = FALSE /\ DOMAIN events = {}
      BY <2>1 DEF FreshMpv, FreshState
    <3>2. c.commandedPause = None /\ \A w \in Workers : cmd[w].pc = "none"
      BY <2>1 DEF NewController, NoCommand
    <3>3. QED BY <3>1, <3>2 DEF DriverTells, CommandTells
  <2>4. LoadTells /\ PauseSeen
    BY <2>1 DEF NewController, AtSelect, LoadTells, PauseSeen
  <2>5. QED BY <2>2, <2>3, <2>4 DEF PauseInvariant
<1>2. PauseInvariant => PublishedPause
  <2> SUFFICES ASSUME PauseInvariant, Steady
               PROVE  /\ db.paused = mpv.paused
                      /\ db.status = "paused" <=> mpv.paused /\ ~db.buffering
    BY DEF PublishedPause
  <2>1. ~OnItsWay /\ c.loadedID # None /\ run.pc = "select"
    BY DEF Steady, OnItsWay, Told, NoCommand
  <2>2. db.paused = mpv.paused
    BY <2>1 DEF PauseInvariant, PauseSeen, SeenPause
  <2>3. QED BY <2>2 DEF PauseInvariant, StatusTells, SaysPaused
<1>3. /\ PlaybackInvariant /\ PauseInvariant /\ Len(events) < ChanCap
      /\ [Next /\ LoadsUnpaused /\ PausesSucceed]_vars /\ [~PlayerCrashes]_vars
      => PauseInvariant'
  BY PauseStep, PauseStays
<1>4. UnpausedSpec => Spec
  <2>1. [Next /\ LoadsUnpaused /\ PausesSucceed]_vars => [Next]_vars
    OBVIOUS
  <2>2. QED BY <2>1, PTL DEF UnpausedSpec, Spec
<1>5. QED
  BY <1>1, <1>2, <1>3, <1>4, PlaybackSafe, PTL DEF UnpausedSpec
-----------------------------------------------------------------------------
(* Undisturbed playback.                                                   *)

\* Nobody edits, commands or kills mpv, and mpv answers in time.
LeftAlone ==
  \A budget \in Budgets :
    \A key \in {"edits", "commands", "crashes", "errors"} : budget[key] = 0

\* The item whose file mpv was told to load.
Target == IF run.pc \in {"volume", "commit"} THEN run.item ELSE c.loadedID

IsEnd(e) == e.type # "state"

Calm ==
  /\ \A key \in {"edits", "commands", "crashes", "errors"} : left[key] = 0
  /\ \A w \in Workers : cmd[w] = NoCommand
  /\ ~c.stopped /\ mpv.up
  /\ \A i \in DOMAIN events : events[i].status # "unavailable"
  /\ run.pc \notin {"halt", "unload", "down", "unavailable"}

\* The item that is loaded, or being loaded, is the first playable one.
InOrder ==
  /\ run.pc \in {"decide"} \cup Loading => run.item = FirstPlayable
  /\ run.pc \in Loading \cup {"reject", "retry"} => c.loadedID = None
  /\ c.loadedID # None /\ run.pc \notin {"finish", "fail", "forget"} =>
       c.loadedID = FirstPlayable

\* At most one end is on its way, and mpv, silent since then, had the item that
\* the controller believes in.
OneEnd ==
  /\ mpv.media # None => mpv.media = Target
  /\ \A i \in DOMAIN events :
       IsEnd(events[i]) => /\ events[i].of # None /\ events[i].of = Target
                           /\ mpv.media = None
  /\ \A i, j \in DOMAIN events : IsEnd(events[i]) /\ IsEnd(events[j]) => i = j
  /\ run.pc \in {"finish", "fail", "forget"} =>
       mpv.media = None /\ \A i \in DOMAIN events : ~IsEnd(events[i])

AttributionInvariant == Calm /\ InOrder /\ OneEnd /\ EndsAreAttributed

\* What reconcile would play depends on the order and on which rows have failed.
LEMMA SameFirstPlayable ==
  ASSUME PlaybackInvariant, db'.order = db.order,
         \A id \in Ids : db'.st[id] = "failed" <=> db.st[id] = "failed"
  PROVE  FirstPlayable' = FirstPlayable
<1> DEFINE first(d) == {i \in DOMAIN db.order :
                          /\ d.st[db.order[i]] # "failed"
                          /\ \A j \in 1..(i - 1) : d.st[db.order[j]] = "failed"}
<1>1. db.order \in Seq(Ids)
  BY DEF PlaybackInvariant, DbInvariant, DbTypeOK, DbType
<1>2. \A i \in DOMAIN db.order :
        db'.st[db.order[i]] = "failed" <=> db.st[db.order[i]] = "failed"
  BY <1>1
<1>3. \A i \in DOMAIN db.order : \A j \in 1..(i - 1) : j \in DOMAIN db.order
  BY <1>1
<1>4. \A i \in DOMAIN db.order : i \in first(db') <=> i \in first(db)
  BY <1>2, <1>3
<1>5. first(db') = first(db)
  BY <1>4
<1>6. FirstPlayable = IF first(db) = {} THEN None
                      ELSE db.order[CHOOSE i \in first(db) : TRUE]
  BY DEF FirstPlayable, Playable
<1>7. FirstPlayable' = IF first(db') = {} THEN None
                       ELSE db.order[CHOOSE i \in first(db') : TRUE]
  BY DEF FirstPlayable, Playable
<1> HIDE DEF first
<1>8. QED BY <1>5, <1>6, <1>7

LEMMA WhoReorders ==
  ASSUME PlaybackInvariant, [Next]_vars,
         ~UserEdits, ~Reject, \A pc \in {"finish", "fail"} : ~Finish(pc)
  PROVE  FirstPlayable' = FirstPlayable
<1>1. db \in DbType
  BY DEF PlaybackInvariant, DbInvariant, DbTypeOK
<1> SUFFICES /\ db'.order = db.order
             /\ \A id \in Ids : db'.st[id] = "failed" <=> db.st[id] = "failed"
  BY SameFirstPlayable
<1>2. CASE RunStep
  <2>1. CASE Claim
    <3>1. CASE DbSetCurrent(run.item)
      BY <1>1, <3>1
         DEF DbSetCurrent, SetCurrentOK, SetCurrent, Cleared, Demoted, DbType
    <3>2. QED BY <2>1, <3>1 DEF Claim
  <2>2. CASE Retry
    <3>1. CASE DbRetryCurrent(run.item)
      BY <1>1, <3>1 DEF DbRetryCurrent, RetryCurrentOK, RetryCurrent, Cleared, DbType
    <3>2. QED BY <2>2, <3>1 DEF Retry
  <2>3. CASE Publish
    BY <1>1, <2>3 DEF Publish, DbUpdatePlayback, UpdatePlayback, DbType
  <2>4. CASE Rest \/ LoadUnavailable \/ PlayerDown
    BY <1>1, <2>4 DEF Rest, LoadUnavailable, PlayerDown, DbResetPlayback, ResetPlayback,
                      Cleared, DbType
  <2>5. QED
    BY <1>2, <2>1, <2>2, <2>3, <2>4
       DEF RunStep, ReadItems, Decide, Halt, Unload, Resolve, BeginLoad, SendLoad,
           LoadTimesOut, RestoreVolume, Commit, Forget
<1>3. ASSUME NEW w \in Workers, Calls(w) \/ CommandStep(w)
      PROVE  /\ db'.order = db.order
             /\ \A id \in Ids : db'.st[id] = "failed" <=> db.st[id] = "failed"
  <2>1. CASE SaveUnstop(w)
    BY <1>1, <2>1
       DEF SaveUnstop, DbReconcilePlayback, ReconcilePlayback, Demoted, Cleared, DbType
  <2>2. CASE SavePause(w)
    BY <1>1, <2>2 DEF SavePause, DbSetPaused, SetPaused, DbType
  <2>3. CASE SaveStop(w)
    BY <1>1, <2>3 DEF SaveStop, DbResetPlayback, ResetPlayback, Cleared, DbType
  <2>4. CASE SaveVolume(w)
    BY <1>1, <2>4 DEF SaveVolume, DbSetVolume, SetVolume, DbType
  <2>5. QED
    BY <1>3, <2>1, <2>2, <2>3, <2>4
       DEF Calls, CallPause, CallResume, CallStop, CallSetVolume, CommandStep,
           Unstop, LockPause, SendPause, SendStop, LockStop, SendVolume
<1>4. CASE ProcessRestarts
  BY <1>1, <1>4
     DEF ProcessRestarts, DbReconcilePlayback, ReconcilePlayback, Demoted, Cleared, DbType
<1>5. CASE \/ Tick \/ HandleEvent \/ BackoffExpires \/ PlayerReports
           \/ PlayerCrashes \/ PlayerRestarts \/ UNCHANGED vars
           \/ \E type \in {"ended", "failed"} : MediaEndsAs(type)
  BY <1>5
     DEF Tick, HandleEvent, BackoffExpires, PlayerReports, PlayerCrashes, PlayerRestarts,
         MediaEndsAs, vars
<1>6. QED BY <1>2, <1>3, <1>4, <1>5 DEF Next

\* All that may still happen.
LEMMA CalmNext ==
  ASSUME PlaybackInvariant, Calm, [Next]_vars
  PROVE  \/ Tick \/ HandleEvent
         \/ /\ RunStep /\ ~Halt /\ ~Unload /\ ~LoadUnavailable /\ ~PlayerDown
            /\ ~LoadTimesOut
         \/ BackoffExpires \/ PlayerReports \/ ProcessRestarts \/ UNCHANGED vars
         \/ \E type \in {"ended", "failed"} : MediaEndsAs(type)
<1>1. /\ \A key \in {"edits", "commands", "crashes", "errors"} : ~Spend(key)
      /\ \A w \in Workers : cmd[w].pc = "none" /\ mpv.up
      /\ run.pc \notin {"halt", "unload", "down", "unavailable"}
  BY DEF Calm, Spend, NoCommand
<1>2. ~UserEdits /\ ~PlayerCrashes /\ ~LoadTimesOut /\ ~PlayerRestarts
  BY <1>1 DEF UserEdits, PlayerCrashes, LoadTimesOut, PlayerRestarts, MpvRestarts, Calm
<1>3. ~Halt /\ ~Unload /\ ~LoadUnavailable /\ ~PlayerDown
  BY <1>1 DEF Halt, Unload, LoadUnavailable, PlayerDown, RunAt
<1>4. \A w \in Workers : ~Calls(w)
  BY <1>1 DEF Calls, CallPause, CallResume, CallStop, CallSetVolume, Call
<1>5. \A w \in Workers : ~CommandStep(w)
  BY <1>1
     DEF CommandStep, Unstop, SaveUnstop, LockPause, SendPause, SavePause, SendStop,
         LockStop, SaveStop, SendVolume, SaveVolume, CmdAt
<1>6. QED BY <1>2, <1>3, <1>4, <1>5 DEF Next

LEMMA CalmStep ==
  ASSUME PlaybackInvariant, Calm, InOrder, [Next]_vars
  PROVE  Calm'
<1>1. /\ c \in ControllerType /\ run \in RunType /\ left \in [BudgetKeys -> Nat]
      /\ mpv \in [up: BOOLEAN, media: Ids \cup {None}, paused: BOOLEAN,
                  volume: 0..100, note: BOOLEAN]
      /\ events \in Seq(EventType)
  BY DEF PlaybackInvariant, ControllerOK, PlayerTypeOK
<1>2. \A key \in {"edits", "commands", "crashes", "errors"} : left'[key] = 0
  <2>1. UNCHANGED left \/ Spend("stalls") \/ Spend("restarts") \/ Spend("errors")
    BY CalmNext
       DEF Tick, HandleEvent, RunStep, ReadItems, Decide, Rest, Claim,
           Resolve, Reject, BeginLoad, SendLoad, RestoreVolume, Commit,
           Publish, Retry, Forget, Finish, RunAt, GivenUp, BackoffExpires, PlayerReports,
           ProcessRestarts, vars, MediaEndsAs
  <2>2. QED BY <1>1, <2>1 DEF Calm, Spend, BudgetKeys
<1>3. \A w \in Workers : cmd'[w] = NoCommand
  <2>1. UNCHANGED cmd \/ ProcessRestarts
    BY CalmNext
       DEF Tick, HandleEvent, RunStep, ReadItems, Decide, Rest, Claim,
           Resolve, Reject, BeginLoad, SendLoad, RestoreVolume, Commit,
           Publish, Retry, Forget, Finish, RunAt, BackoffExpires, PlayerReports,
           vars, MediaEndsAs
  <2>2. QED BY <2>1 DEF Calm, ProcessRestarts
<1>4. ~c'.stopped
  BY WhoStops DEF LockStop, CmdAt, NoCommand, Calm
<1>5. mpv'.up
  <2>1. CASE RunStep
    BY <1>1, <2>1
       DEF RunStep, ReadItems, Decide, Halt, Unload, Rest, Claim, Resolve, Reject, BeginLoad,
           SendLoad, LoadTimesOut, LoadUnavailable, RestoreVolume, Commit, PlayerDown,
           Publish, Retry, Forget, Finish, GivenUp, MpvStops, MpvLoads, MpvSetsVolume, playerVars,
           Calm
  <2>2. CASE PlayerReports \/ \E type \in {"ended", "failed"} : MediaEndsAs(type)
    BY <1>1, <2>2
       DEF PlayerReports, ReportProgress, ReportPause, ReportIdle, ReportBuffering,
           MediaEndsAs, MediaEnds, Calm
  <2>3. CASE UNCHANGED mpv
    BY <2>3 DEF Calm
  <2>4. CASE ProcessRestarts
    BY <2>4 DEF ProcessRestarts, FreshMpv
  <2>5. QED
    BY <2>1, <2>2, <2>3, <2>4, CalmNext
       DEF Tick, HandleEvent, BackoffExpires, playerVars, vars
<1>6. ~PlayerCrashes
  BY DEF PlayerCrashes, Spend, Calm
<1>7. \A i \in DOMAIN events' : events'[i].status # "unavailable"
  <2>1. CASE UNCHANGED events \/ (events # <<>> /\ events' = Tail(events))
    <3>1. CASE events # <<>> /\ events' = Tail(events)
      <4>1. \A i \in DOMAIN events' : i + 1 \in DOMAIN events /\ events'[i] = events[i + 1]
        BY <1>1, <3>1
      <4>2. QED BY <4>1 DEF Calm
    <3>2. QED BY <2>1, <3>1 DEF Calm
  <2>2. ASSUME NEW e \in EventType, Emit(e), e.status # "unavailable"
        PROVE  \A i \in DOMAIN events' : events'[i].status # "unavailable"
    BY <1>1, <2>2 DEF Emit, Calm
  <2>3. \A type \in {"ended", "failed"} : EndEvent(type, mpv.media).status # "unavailable"
    BY DEF EndEvent
  <2>4. CASE ProcessRestarts
    BY <2>4 DEF ProcessRestarts
  <2>5. QED BY <1>6, <2>1, <2>2, <2>3, <2>4, EventStep
<1>8. run'.pc \notin {"halt", "unload", "down", "unavailable"}
  <2>1. CASE Tick \/ HandleEvent \/ RunStep
    <3>1. CASE run'.pc = "halt"
      <4>1. Decide /\ run.pc = "decide"
        BY <2>1, <3>1, RunTargets DEF Return, AtSelect
      <4>2. run.item = None /\ c.loadedID # None
        BY <1>1, <3>1, <4>1 DEF Decide, Goto, Return, AtSelect, RunType
      <4>3. QED BY <4>1, <4>2 DEF InOrder
    <3>2. CASE run'.pc = "down"
      <4>1. HandleEvent /\ run.pc = "select"
        BY <2>1, <3>2, RunTargets DEF Return, AtSelect
      <4>2. ~HandleEnd(Head(events)) /\ events # <<>>
        BY <1>1, <3>2, <4>1 DEF HandleEnd, RunType, HandleEvent
      <4>3. HandleState(Head(events)) /\ Head(events).status # "unavailable"
        BY <1>1, <3>2, <4>1, <4>2 DEF HandleEvent, Return, AtSelect, Calm
      <4>4. QED BY <3>2, <4>3, StateHandled DEF Return, AtSelect
    <3>3. run'.pc \notin {"unload", "unavailable"}
      BY <2>1, RunTargets DEF Return, AtSelect, Calm
    <3>4. QED BY <3>1, <3>2, <3>3
  <2>2. CASE UNCHANGED run
    BY <2>2 DEF Calm
  <2>3. CASE ProcessRestarts
    BY <2>3 DEF ProcessRestarts, AtSelect
  <2>4. QED
    BY <2>1, <2>2, <2>3, CalmNext DEF BackoffExpires, PlayerReports, MediaEndsAs, vars
<1>9. QED BY <1>2, <1>3, <1>4, <1>5, <1>7, <1>8 DEF Calm

LEMMA InOrderStep ==
  ASSUME PlaybackInvariant, Calm, InOrder, [Next]_vars
  PROVE  InOrder'
<1>1. c \in ControllerType /\ run \in RunType
  BY DEF PlaybackInvariant, ControllerOK
<1>2. CASE ProcessRestarts
  BY <1>2 DEF ProcessRestarts, NewController, AtSelect, InOrder, Loading
<1>3. CASE \/ BackoffExpires \/ PlayerReports \/ UNCHANGED vars
           \/ \E type \in {"ended", "failed"} : MediaEndsAs(type)
  <2>1. UNCHANGED <<run, db>> /\ c'.loadedID = c.loadedID
    BY <1>1, <1>3 DEF BackoffExpires, PlayerReports, MediaEndsAs, vars, Set, ControllerType
  <2>2. FirstPlayable' = FirstPlayable
    BY <2>1 DEF FirstPlayable, Playable
  <2>3. QED BY <2>1, <2>2 DEF InOrder
<1>4. CASE Tick \/ HandleEvent \/ RunStep
  <2>1. c.loadedID # None /\ run.pc \notin {"finish", "fail", "forget"} =>
          c.loadedID = FirstPlayable
    BY DEF InOrder
  <2>2. CASE Reject
    <3>1. run'.pc = "select" /\ c'.loadedID = None
      BY <2>2 DEF Reject, RunAt, Return, AtSelect, InOrder
    <3>2. QED BY <3>1 DEF InOrder, Loading
  <2>3. CASE \E pc \in {"finish", "fail"} : Finish(pc)
    <3>1. run'.pc = "forget"
      BY <1>1, <2>3 DEF Finish, Goto, RunType
    <3>2. QED BY <3>1 DEF InOrder, Loading
  <2>4. CASE ReadItems
    <3>1. run'.pc = "decide" /\ run'.item = FirstPlayable /\ UNCHANGED <<c, db>>
      BY <1>1, <2>4, FirstPlayableType
         DEF ReadItems, RunType, PlaybackInvariant, DbInvariant, DbTypeOK
    <3>2. FirstPlayable' = FirstPlayable
      BY <3>1 DEF FirstPlayable, Playable
    <3>3. QED BY <2>1, <2>4, <3>1, <3>2 DEF InOrder, Loading, ReadItems, RunAt
  <2>5. CASE ~Reject /\ ~ReadItems /\ \A pc \in {"finish", "fail"} : ~Finish(pc)
    <3>1. ~UserEdits
      BY DEF UserEdits, Spend, Calm
    <3>2. FirstPlayable' = FirstPlayable
      BY <2>5, <3>1, WhoReorders
    <3>3. CASE Decide
      <4>1. c'.loadedID = c.loadedID /\ run.pc = "decide"
        BY <1>1, <3>3 DEF Decide, Set, ControllerType, RunAt
      <4>2. run'.pc = "claim" => run.item \notin {None, c.loadedID}
        BY <1>1, <3>3 DEF Decide, Goto, Return, AtSelect, RunType
      <4>3. run'.pc = "claim" => run'.item = run.item
        BY <1>4, <4>1, RunInHand
      <4>4. run'.pc \in {"select", "halt", "rest", "claim"}
        BY <1>4, <4>1, RunTargets DEF Return, AtSelect
      <4>5. QED BY <3>2, <4>1, <4>2, <4>3, <4>4 DEF InOrder, Loading
    <3>4. CASE Commit
      <4>1. c'.loadedID = run.item /\ run.pc = "commit" /\ run'.pc = "select"
        BY <1>1, <3>4 DEF Commit, Set, ControllerType, RunType, RunAt, Return, AtSelect
      <4>2. QED BY <3>2, <4>1 DEF InOrder, Loading
    <3>5. CASE HandleEvent
      <4>1. run.pc = "select" /\ c'.loadedID \in {c.loadedID, None}
        BY <3>5, RunInHand DEF HandleEvent, RunAt, Commit
      <4>2. run'.pc = "retry" => c'.loadedID = None
        <5>1. CASE HandleEnd(Head(events))
          BY <1>1, <5>1 DEF HandleEnd, ControllerType, RunType
        <5>2. CASE HandleState(Head(events))
          BY <5>2, StateHandled DEF Return, AtSelect
        <5>3. QED BY <3>5, <5>1, <5>2 DEF HandleEvent, Return, AtSelect
      <4>3. run'.pc \notin {"decide", "reject"} \cup Loading
        BY <3>5, <4>1, RunTargets DEF Return, AtSelect, Loading
      <4>4. QED BY <2>1, <3>2, <4>1, <4>2, <4>3 DEF InOrder
    <3>6. CASE ~Decide /\ ~Commit /\ ~HandleEvent
      <4>1. c'.loadedID \in {c.loadedID, None}
        BY <1>4, <3>6, RunInHand
      <4>2. CASE Forget
        BY <1>1, <4>2 DEF Forget, Set, ControllerType, Return, AtSelect, InOrder, Loading
      <4>3. CASE ~Forget
        <5>1. run.pc \notin {"finish", "fail", "forget"}
          BY <1>4, <2>5, <3>6, <4>3
             DEF Tick, RunStep, ReadItems, Halt, Unload, Rest, Claim, Resolve, Reject,
                 BeginLoad, SendLoad, LoadTimesOut, LoadUnavailable, RestoreVolume,
                 PlayerDown, Publish, Retry, RunAt
        <5>2. run'.pc \in Loading \cup {"reject"} =>
                run.pc \in Loading /\ run'.item = run.item
          BY <1>4, <3>6, <5>1, RunTargets, RunInHand DEF Return, AtSelect, Loading
        <5>3. run'.pc \notin {"decide", "retry"}
          BY <1>4, <2>5, <3>6, <5>1, RunTargets DEF Return, AtSelect
        <5>4. QED BY <2>1, <3>2, <4>1, <5>1, <5>2, <5>3 DEF InOrder
      <4>4. QED BY <4>2, <4>3
    <3>7. QED BY <3>3, <3>4, <3>5, <3>6
  <2>6. QED BY <2>2, <2>3, <2>4, <2>5
<1>5. QED BY <1>2, <1>3, <1>4, CalmNext

LEMMA OneEndStep ==
  ASSUME PlaybackInvariant, AttributionInvariant, [Next]_vars
  PROVE  OneEnd' /\ EndsAreAttributed'
<1>1. /\ c \in ControllerType /\ run \in RunType
      /\ mpv \in [up: BOOLEAN, media: Ids \cup {None}, paused: BOOLEAN,
                  volume: 0..100, note: BOOLEAN]
      /\ events \in Seq(EventType)
  BY DEF PlaybackInvariant, ControllerOK, PlayerTypeOK
<1>2. Calm /\ InOrder /\ OneEnd /\ EndsAreAttributed
  BY DEF AttributionInvariant
<1> DEFINE Kept == \A i \in DOMAIN events' :
                     IsEnd(events'[i]) => i \in DOMAIN events /\ events'[i] = events[i]
\* A step that neither loads nor ends anything.
<1>3. ASSUME Kept, Target' = Target, mpv'.media = mpv.media,
             run'.pc \in {"finish", "fail", "forget"} => run.pc \in {"finish", "fail"} \/ UNCHANGED run,
             run'.pc \in {"retry", "finish", "fail"} => UNCHANGED run
      PROVE  OneEnd' /\ EndsAreAttributed'
  <2>1. \A i \in DOMAIN events' : IsEnd(events'[i]) =>
          events'[i].of # None /\ events'[i].of = Target /\ mpv.media = None
    BY <1>2, <1>3 DEF OneEnd
  <2>2. \A i, j \in DOMAIN events' : IsEnd(events'[i]) /\ IsEnd(events'[j]) => i = j
    BY <1>2, <1>3 DEF OneEnd
  <2>3. run'.pc \in {"finish", "fail", "forget"} =>
          mpv.media = None /\ \A i \in DOMAIN events' : ~IsEnd(events'[i])
    BY <1>2, <1>3 DEF OneEnd
  <2>4. mpv'.media # None => mpv'.media = Target'
    BY <1>2, <1>3 DEF OneEnd
  <2>5. OneEnd'
    BY <1>3, <2>1, <2>2, <2>3, <2>4 DEF OneEnd, IsEnd
  <2>6. EndsAreAttributed'
    BY <1>2, <1>3 DEF EndsAreAttributed
  <2>7. QED BY <2>5, <2>6
<1>4. UNCHANGED events => Kept
  OBVIOUS
<1>5. ASSUME NEW e \in EventType, Emit(e), e.type = "state" PROVE Kept
  BY <1>1, <1>5 DEF Emit, IsEnd
<1> HIDE DEF Kept
<1>6. CASE ProcessRestarts
  BY <1>6 DEF ProcessRestarts, FreshMpv, AtSelect, OneEnd, EndsAreAttributed
<1>7. CASE HandleEvent
  <2>1. /\ run.pc = "select" /\ events # <<>> /\ events' = Tail(events) /\ UNCHANGED mpv
    BY <1>7 DEF HandleEvent, RunAt
  <2>2. /\ \A i \in DOMAIN events' : i + 1 \in DOMAIN events /\ events'[i] = events[i + 1]
        /\ 1 \in DOMAIN events /\ Head(events) = events[1]
        /\ \A i \in DOMAIN events' : i + 1 # 1
    BY <1>1, <2>1
  <2>3. Target = c.loadedID
    BY <2>1 DEF Target
  <2>4. CASE Head(events).type = "state"
    <3>1. /\ c'.loadedID = c.loadedID
          /\ run'.pc \in {"select", "rest", "publish", "down"}
      <4>1. HandleState(Head(events)) \/ (Return /\ UNCHANGED c)
        BY <1>7, <2>4 DEF HandleEvent
      <4>2. QED BY <4>1, StateHandled DEF Return, AtSelect
    <3>2. Target' = Target
      BY <2>3, <3>1 DEF Target
    <3>3. \A i \in DOMAIN events' : IsEnd(events'[i]) =>
            events'[i].of # None /\ events'[i].of = Target /\ mpv.media = None
      BY <1>2, <2>2 DEF OneEnd
    <3>4. \A i, j \in DOMAIN events' : IsEnd(events'[i]) /\ IsEnd(events'[j]) => i = j
      <4> SUFFICES ASSUME NEW i \in DOMAIN events', NEW j \in DOMAIN events',
                          IsEnd(events'[i]), IsEnd(events'[j])
                   PROVE  i = j
        OBVIOUS
      <4>1. i + 1 = j + 1
        BY <1>2, <2>2 DEF OneEnd
      <4>2. i \in Int /\ j \in Int
        BY <1>1, <2>1
      <4>3. QED BY <4>1, <4>2
    <3>5. mpv'.media # None => mpv'.media = Target'
      BY <1>2, <2>1, <3>2 DEF OneEnd
    <3>6. OneEnd'
      BY <2>1, <3>1, <3>2, <3>3, <3>4, <3>5 DEF OneEnd, IsEnd
    <3>7. QED BY <3>1, <3>6 DEF EndsAreAttributed
  <2>5. CASE Head(events).type # "state"
    <3>1. /\ IsEnd(events[1])
          /\ events[1].of # None /\ events[1].of = c.loadedID /\ mpv.media = None
      BY <1>2, <2>2, <2>3, <2>5 DEF OneEnd, IsEnd
    <3>2. HandleEnd(Head(events))
      BY <1>7, <2>2, <2>5, <3>1 DEF HandleEvent
    <3>3. /\ run'.item = c.loadedID /\ run'.ev = events[1]
          /\ run'.pc \in {"retry", "finish", "fail"}
      BY <2>2, <3>2, EndHandled
    <3>4. \A i \in DOMAIN events' : ~IsEnd(events'[i])
      BY <1>2, <2>2, <3>1 DEF OneEnd
    <3>5. OneEnd'
      BY <2>1, <3>1, <3>4 DEF OneEnd, IsEnd
    <3>6. EndsAreAttributed'
      BY <3>1, <3>3 DEF EndsAreAttributed
    <3>7. QED BY <3>5, <3>6
  <2>6. QED BY <2>4, <2>5
<1>8. CASE RunStep /\ ~Halt /\ ~Unload /\ ~LoadUnavailable /\ ~PlayerDown /\ ~LoadTimesOut
  <2>1. CASE SendLoad
    <3>1. run.pc = "send" /\ MpvLoads(run.item) /\ Goto("volume") /\ UNCHANGED events
      BY <1>2, <2>1 DEF SendLoad, RunAt, Calm
    <3>2. run'.pc = "volume" /\ run'.item = run.item /\ mpv'.media = run.item
      BY <1>1, <3>1 DEF Goto, RunType, MpvLoads
    <3>3. c.loadedID = None /\ Target = None /\ Target' = run.item
      BY <1>2, <3>1, <3>2 DEF InOrder, Loading, Target
    <3>4. \A i \in DOMAIN events' : ~IsEnd(events'[i])
      BY <1>2, <3>1, <3>3 DEF OneEnd
    <3>5. OneEnd'
      BY <3>2, <3>3, <3>4 DEF OneEnd, IsEnd
    <3>6. QED BY <3>2, <3>5 DEF EndsAreAttributed
  <2>2. CASE Forget
    <3>1. /\ run.pc = "forget" /\ run'.pc = "select" /\ UNCHANGED <<mpv, events>>
          /\ Set("loadedID", None)
      BY <2>2 DEF Forget, RunAt, Return, AtSelect, playerVars
    <3>2. OneEnd'
      BY <1>2, <3>1 DEF OneEnd, IsEnd
    <3>3. QED BY <3>1, <3>2 DEF EndsAreAttributed
  <2>3. CASE Commit
    <3>1. /\ run.pc = "commit" /\ run'.pc = "select" /\ UNCHANGED <<mpv, events>>
          /\ c'.loadedID = run.item
      BY <1>1, <2>3 DEF Commit, RunAt, Return, AtSelect, playerVars, Set, ControllerType,
                        RunType
    <3>2. Target' = Target
      BY <3>1 DEF Target
    <3>3. QED BY <1>3, <1>4, <3>1, <3>2
  <2>4. CASE RestoreVolume
    <3>1. /\ run.pc = "volume" /\ run'.pc = "commit" /\ run'.item = run.item
          /\ mpv'.media = mpv.media /\ UNCHANGED <<c, events>>
      BY <1>1, <2>4 DEF RestoreVolume, GivenUp, Goto, RunType, MpvSetsVolume
    <3>2. Target' = Target
      BY <3>1 DEF Target
    <3>3. QED BY <1>3, <1>4, <3>1, <3>2
  <2>5. CASE ~SendLoad /\ ~Forget /\ ~Commit /\ ~RestoreVolume
    <3>1. /\ UNCHANGED mpv /\ c'.loadedID = c.loadedID
          /\ run.pc \notin {"select", "volume", "commit"}
      BY <1>1, <1>8, <2>5
         DEF RunStep, ReadItems, Decide, Rest, Claim, Resolve, Reject, BeginLoad, Publish,
             Retry, Finish, playerVars, Set, ControllerType, RunAt
    <3>2. run'.pc \notin {"volume", "commit", "retry", "finish", "fail"}
      BY <1>8, <2>5, <3>1, RunTargets DEF Return, AtSelect
    <3>3. run'.pc = "forget" => run.pc \in {"finish", "fail"}
      BY <1>2, <1>8, RunTargets DEF Return, AtSelect, Calm
    <3>4. Target' = Target
      BY <3>1, <3>2 DEF Target
    <3>5. Kept
      <4>1. CASE BeginLoad
        <5>1. state' \in StateType /\ Emit(StateEvent(state'))
          BY <4>1 DEF BeginLoad, LoadResetsState, StateType, PlayerStatuses
        <5>2. StateEvent(state') \in EventType /\ StateEvent(state').type = "state"
          BY <5>1, StateEventType DEF StateEvent
        <5>3. QED BY <1>5, <5>1, <5>2
      <4>2. CASE ~BeginLoad
        BY <1>4, <1>8, <2>5, <4>2
           DEF RunStep, ReadItems, Decide, Rest, Claim, Resolve, Reject, Publish, Retry,
               Finish, playerVars
      <4>3. QED BY <4>1, <4>2
    <3>6. QED BY <1>3, <3>1, <3>2, <3>3, <3>4, <3>5
  <2>6. QED BY <2>1, <2>2, <2>3, <2>4, <2>5
<1>9. CASE Tick
  <2>1. /\ run.pc = "select" /\ run'.pc = "items" /\ UNCHANGED <<mpv, events, c>>
    BY <1>1, <1>9 DEF Tick, RunAt, RunType, playerVars
  <2>2. QED BY <1>3, <1>4, <2>1 DEF Target
<1>10. CASE BackoffExpires \/ UNCHANGED vars
  <2>1. UNCHANGED <<run, mpv, events>> /\ c'.loadedID = c.loadedID
    BY <1>1, <1>10 DEF BackoffExpires, vars, playerVars, Set, ControllerType
  <2>2. QED BY <1>3, <1>4, <2>1 DEF Target
<1>11. CASE PlayerReports
  <2>1. UNCHANGED <<run, c>> /\ mpv'.media = mpv.media
    BY <1>1, <1>11
       DEF PlayerReports, ReportProgress, ReportPause, ReportIdle, ReportBuffering
  <2>2. PICK s \in StateType : Emit(StateEvent(s))
    <3>1. state \in StateType /\ mpv.paused \in BOOLEAN
      BY DEF PlaybackInvariant, PlayerTypeOK, StateType
    <3>2. \A s \in StateType : Report(s) => Derived(s) \in StateType /\ Emit(StateEvent(Derived(s)))
      BY DerivedType DEF Report
    <3>3. /\ [state EXCEPT !.paused = mpv.paused] \in StateType
          /\ [state EXCEPT !.buffering = ~@] \in StateType
          /\ [state EXCEPT !.status = "idle"] \in StateType
      BY <3>1 DEF StateType, PlayerStatuses
    <3>4. QED
      BY <1>11, <3>1, <3>2, <3>3
         DEF PlayerReports, ReportProgress, ReportPause, ReportIdle, ReportBuffering
  <2>3. StateEvent(s) \in EventType /\ StateEvent(s).type = "state"
    BY StateEventType DEF StateEvent
  <2>4. QED BY <1>3, <1>5, <2>1, <2>2, <2>3 DEF Target
<1>12. ASSUME NEW type \in {"ended", "failed"}, MediaEndsAs(type)
       PROVE  OneEnd' /\ EndsAreAttributed'
  <2>1. /\ mpv.media # None /\ mpv.media = Target /\ mpv'.media = None
        /\ Emit(EndEvent(type, mpv.media)) /\ UNCHANGED <<run, c>>
    BY <1>1, <1>2, <1>12 DEF MediaEndsAs, MediaEnds, OneEnd
  <2>2. \A i \in DOMAIN events : ~IsEnd(events[i])
    BY <1>2, <2>1 DEF OneEnd
  <2>3. EndEvent(type, mpv.media).of = Target /\ Target' = Target
    BY <2>1 DEF EndEvent, Target
  <2>4. \A i \in DOMAIN events' : IsEnd(events'[i]) =>
          i = Len(events) + 1 /\ events'[i] = EndEvent(type, mpv.media)
    BY <1>1, <2>1, <2>2 DEF Emit
  <2>5. run'.pc \notin {"finish", "fail", "forget"}
    BY <1>2, <2>1 DEF OneEnd
  <2>6. OneEnd'
    BY <2>1, <2>3, <2>4, <2>5 DEF OneEnd, IsEnd
  <2>7. QED BY <1>2, <2>1, <2>6 DEF EndsAreAttributed
<1>13. QED BY <1>2, <1>6, <1>7, <1>8, <1>9, <1>10, <1>11, <1>12, CalmNext

LEMMA AttributionStep ==
  ASSUME PlaybackInvariant, AttributionInvariant, [Next]_vars
  PROVE  AttributionInvariant'
BY CalmStep, InOrderStep, OneEndStep DEF AttributionInvariant

LEMMA AttributionInit ==
  ASSUME LeftAlone, Init
  PROVE  AttributionInvariant
BY DEF Init, LeftAlone, PlayerInit, FreshMpv, NewController, AtSelect, Loading,
       AttributionInvariant, Calm, InOrder, OneEnd, EndsAreAttributed

\* When nobody edits, commands or kills, and mpv answers in time, the end of a
\* file is always booked on the item whose file it was: however many files fail,
\* stall or are retried, whatever events are lost, and wherever the process dies.
THEOREM PlaybackEndsAreAttributed ==
  ASSUME LeftAlone
  PROVE  Spec => []EndsAreAttributed
<1>1. Init => AttributionInvariant
  BY AttributionInit
<1>2. AttributionInvariant => EndsAreAttributed
  BY DEF AttributionInvariant
<1>3. PlaybackInvariant /\ AttributionInvariant /\ [Next]_vars => AttributionInvariant'
  BY AttributionStep
<1>4. QED
  BY <1>1, <1>2, <1>3, PlaybackSafe, PTL DEF Spec

\* The row of what is loaded.
RowInHand ==
  /\ run.pc \in {"resolve", "reject", "load", "send", "volume", "commit"} =>
       db.st[run.item] = "current"
  /\ c.loadedID # None /\ run.pc # "forget" => db.st[c.loadedID] = "current"
  /\ run.pc \in {"finish", "fail"} => run.item = c.loadedID
  /\ run.pc = "forget" => db.st[c.loadedID] \in {"failed", "deleted"}

LEMMA WhoChangesRows ==
  ASSUME PlaybackInvariant, Calm, [Next]_vars
  PROVE  \/ db'.st = db.st
         \/ ProcessRestarts /\ db'.st = Demoted(db)
         \/ /\ Claim /\ run'.pc = "resolve" /\ Demoted(db)[run.item] = "queued"
            /\ db'.st = [Demoted(db) EXCEPT ![run.item] = "current"]
         \/ /\ db.st[run.item] = "current"
            /\ \/ Reject /\ db'.st = [db.st EXCEPT ![run.item] = "failed"]
               \/ Retry /\ db'.st = [db.st EXCEPT ![run.item] = "queued"]
               \/ Finish("finish") /\ db'.st = [db.st EXCEPT ![run.item] = "deleted"]
               \/ Finish("fail") /\ db'.st = [db.st EXCEPT ![run.item] = "failed"]
<1>1. db \in DbType /\ run \in RunType
  BY DEF PlaybackInvariant, DbInvariant, DbTypeOK, ControllerOK
<1>2. CASE Claim
  <2>1. CASE DbSetCurrent(run.item) /\ Goto("resolve")
    <3>1. run'.pc = "resolve"
      BY <1>1, <2>1 DEF Goto, RunType
    <3>2. db'.st = [Demoted(db) EXCEPT ![run.item] = "current"]
      BY <1>1, <2>1 DEF DbSetCurrent, SetCurrent, Cleared, DbType
    <3>3. QED BY <1>2, <2>1, <3>1, <3>2 DEF DbSetCurrent, SetCurrentOK
  <2>2. QED BY <1>2, <2>1 DEF Claim
<1>3. CASE Retry
  <2>1. CASE DbRetryCurrent(run.item)
    BY <1>1, <1>3, <2>1 DEF DbRetryCurrent, RetryCurrentOK, RetryCurrent, Cleared, DbType
  <2>2. QED BY <1>3, <2>1 DEF Retry
<1>4. ASSUME NEW failed \in BOOLEAN, DbFinishCurrent(run.item, failed)
      PROVE  /\ db.st[run.item] = "current"
             /\ db'.st = [db.st EXCEPT ![run.item] = IF failed THEN "failed" ELSE "deleted"]
  BY <1>1, <1>4
     DEF DbFinishCurrent, FinishCurrentOK, FinishCurrent, Bump, Cleared, DeleteRow, DbType
<1>5. CASE Reject
  <2>1. UNCHANGED db \/ DbFinishCurrent(run.item, TRUE)
    BY <1>5 DEF Reject
  <2>2. QED BY <1>4, <1>5, <2>1
<1>6. CASE Finish("finish")
  <2>1. UNCHANGED db \/ DbFinishCurrent(run.item, FALSE)
    BY <1>6 DEF Finish
  <2>2. QED BY <1>4, <1>6, <2>1
<1>7. CASE Finish("fail")
  <2>1. UNCHANGED db \/ DbFinishCurrent(run.item, TRUE)
    BY <1>7 DEF Finish
  <2>2. QED BY <1>4, <1>7, <2>1
<1>8. CASE Rest \/ Publish
  BY <1>1, <1>8
     DEF Rest, DbResetPlayback, ResetPlayback, Cleared, Publish, DbUpdatePlayback,
         UpdatePlayback, DbType
<1>9. CASE ProcessRestarts
  BY <1>1, <1>9 DEF ProcessRestarts, DbReconcilePlayback, ReconcilePlayback, Cleared, DbType
<1>10. CASE UNCHANGED db
  BY <1>10
<1>11. CASE RunStep
  BY <1>2, <1>3, <1>5, <1>6, <1>7, <1>8, <1>10, <1>11, CalmNext
     DEF RunStep, ReadItems, Decide, Halt, Unload, Resolve, BeginLoad, SendLoad,
         LoadTimesOut, RestoreVolume, Commit, Forget, LoadUnavailable, RunAt, Calm, PlayerDown
<1>12. QED
  BY <1>9, <1>10, <1>11, CalmNext
     DEF Tick, HandleEvent, BackoffExpires, PlayerReports, MediaEndsAs, vars

LEMMA RowInHandStep ==
  ASSUME PlaybackInvariant, AttributionInvariant, RowInHand, [Next]_vars
  PROVE  RowInHand'
<1>1. /\ c \in ControllerType /\ run \in RunType /\ Calm /\ InOrder
      /\ db.st \in [Ids -> RowStatus \cup {"absent", "deleted"}]
  BY DEF PlaybackInvariant, ControllerOK, DbInvariant, DbTypeOK, DbType,
         AttributionInvariant
<1>2. CASE ProcessRestarts
  BY <1>2 DEF ProcessRestarts, NewController, AtSelect, RowInHand
<1>3. CASE \/ BackoffExpires \/ PlayerReports \/ UNCHANGED vars
           \/ \E type \in {"ended", "failed"} : MediaEndsAs(type)
  <2>1. UNCHANGED <<run, db>> /\ c'.loadedID = c.loadedID
    BY <1>1, <1>3 DEF BackoffExpires, PlayerReports, MediaEndsAs, vars, Set, ControllerType
  <2>2. QED BY <2>1 DEF RowInHand
<1>4. CASE Tick
  <2>1. /\ run.pc = "select" /\ run'.pc = "items" /\ UNCHANGED <<c, db>>
    BY <1>1, <1>4 DEF Tick, RunAt, RunType
  <2>2. QED BY <2>1 DEF RowInHand
<1>5. CASE HandleEvent
  <2>1. run.pc = "select" /\ UNCHANGED db
    BY <1>5 DEF HandleEvent, RunAt
  <2>2. CASE HandleEnd(Head(events))
    BY <2>1, <2>2, EndHandled DEF RowInHand
  <2>3. CASE HandleState(Head(events)) \/ (Return /\ UNCHANGED c)
    <3>1. /\ run'.pc \in {"select", "down", "rest", "publish"}
          /\ c'.loadedID = c.loadedID
      BY <2>3, StateHandled DEF Return, AtSelect
    <3>2. QED BY <2>1, <3>1 DEF RowInHand
  <2>4. QED BY <1>5, <2>2, <2>3 DEF HandleEvent
<1>6. CASE RunStep /\ ~Halt /\ ~Unload /\ ~LoadUnavailable /\ ~PlayerDown /\ ~LoadTimesOut
  <2>2. CASE Claim
    <3>1. c.loadedID = None /\ UNCHANGED c /\ run.item \in Ids
      BY <1>1, <2>2 DEF Claim, RunAt, InOrder, Loading, PlaybackInvariant, ItemInHand
    <3>2. CASE DbSetCurrent(run.item) /\ Goto("resolve")
      <4>1. run'.pc = "resolve" /\ run'.item = run.item
        BY <1>1, <3>2 DEF Goto, RunType
      <4>2. db'.st[run.item] = "current"
        BY <1>1, <3>1, <3>2
           DEF DbSetCurrent, SetCurrent, Cleared, Demoted, PlaybackInvariant, DbInvariant,
               DbTypeOK, DbType
      <4>3. QED BY <3>1, <4>1, <4>2 DEF RowInHand
    <3>3. CASE Return
      BY <3>1, <3>3 DEF Return, AtSelect, RowInHand
    <3>4. QED BY <2>2, <3>2, <3>3 DEF Claim
  <2>3. CASE Reject \/ Retry
    <3>1. run.pc \in {"reject", "retry"} /\ c' = c /\ Return
      BY <2>3 DEF Reject, Retry, RunAt
    <3>2. c.loadedID = None
      BY <1>1, <3>1 DEF InOrder
    <3>3. run'.pc = "select"
      BY <3>1 DEF Return, AtSelect
    <3>4. QED BY <3>1, <3>2, <3>3 DEF RowInHand
  <2>4. CASE \E pc \in {"finish", "fail"} : Finish(pc)
    <3>1. /\ run.pc \in {"finish", "fail"} /\ run'.pc = "forget" /\ UNCHANGED c
          /\ run.item \in Ids
      BY <1>1, <2>4 DEF Finish, RunAt, Goto, RunType, PlaybackInvariant, ItemInHand
    <3>2. run.item = c.loadedID /\ FinishCurrentOK(db, run.item)
      BY <3>1, NoneAssumption DEF RowInHand, FinishCurrentOK
    <3>3. PICK failed \in BOOLEAN : DbFinishCurrent(run.item, failed)
      BY <2>4, <3>2 DEF Finish
    <3>4. db'.st[run.item] \in {"failed", "deleted"}
      BY <1>1, <3>1, <3>3
         DEF DbFinishCurrent, FinishCurrent, Bump, Cleared, DeleteRow, PlaybackInvariant,
             DbInvariant, DbTypeOK, DbType
    <3>5. QED BY <3>1, <3>2, <3>4 DEF RowInHand
  <2>5. CASE Forget
    BY <1>1, <2>5 DEF Forget, Set, ControllerType, Return, AtSelect, RowInHand
  <2>6. CASE Commit
    <3>1. /\ run.pc = "commit" /\ run'.pc = "select" /\ c'.loadedID = run.item /\ UNCHANGED db
      BY <1>1, <2>6 DEF Commit, RunAt, Return, AtSelect, Set, ControllerType, RunType
    <3>2. QED BY <3>1 DEF RowInHand
  <2>7. CASE \/ ReadItems \/ Decide \/ Rest \/ Resolve \/ BeginLoad \/ SendLoad
             \/ RestoreVolume \/ Publish
    <3>1. db'.st = db.st
      BY <1>1, <2>7
         DEF ReadItems, Decide, Rest, Resolve, BeginLoad, SendLoad, RestoreVolume, Publish,
             DbResetPlayback, ResetPlayback, Cleared, DbUpdatePlayback, UpdatePlayback,
             PlaybackInvariant, DbInvariant, DbTypeOK, DbType
    <3>2. c'.loadedID = c.loadedID
      BY <1>1, <2>7
         DEF ReadItems, Decide, Rest, Resolve, BeginLoad, SendLoad, RestoreVolume, Publish,
             Set, ControllerType
    <3>3. run.pc \in {"items", "decide", "rest", "resolve", "load", "send", "volume", "publish"}
      BY <2>7
         DEF ReadItems, Decide, Rest, Resolve, BeginLoad, SendLoad, RestoreVolume, Publish,
             RunAt
    <3>4. /\ run'.pc \notin {"finish", "fail", "forget"}
          /\ run'.pc \in {"resolve", "reject", "load", "send", "volume", "commit"} =>
               /\ run'.item = run.item
               /\ run.pc \in {"resolve", "load", "send", "volume"}
      BY <1>6, <3>3, RunTargets, RunInHand DEF Return, AtSelect
    <3>5. QED BY <3>1, <3>2, <3>3, <3>4 DEF RowInHand
  <2>8. QED BY <1>6, <2>2, <2>3, <2>4, <2>5, <2>6, <2>7 DEF RunStep
<1>7. QED BY <1>1, <1>2, <1>3, <1>4, <1>5, <1>6, CalmNext

\* The item whose titles the driver collects, once the load has emptied them.
Announcing == IF run.pc \in {"send", "volume", "commit"} THEN run.item ELSE c.loadedID

\* A title of another file is followed by the empty one of the load.
Overtaken(t, i) == t # None /\ t[1] # Announcing => \E j \in DOMAIN titles : j > i /\ titles[j] = None

TitlesOK ==
  /\ titles \in Seq(Titles \cup {None})
  /\ title \in Titles \cup {None}
  /\ Announcing # None =>
       /\ title # None => title[1] = Announcing
       /\ \A i \in DOMAIN titles : Overtaken(titles[i], i)

TitlesInvariant ==
  /\ TitlesOK
  /\ Len(titles) = Len(events)
  /\ LateTitlesOnly

\* Every step of History is a step of Playback.
LEMMA HistoryStep ==
  ASSUME [HNext]_hvars
  PROVE  [Next]_vars
<1>1. CASE Emits
  BY <1>1 DEF Emits, Next
<1>2. CASE Silent
  BY <1>2 DEF Silent, Next
<1>3. CASE \/ BeginLoadUntitled \/ ReportTitled \/ CommitStarted \/ Hear \/ PublishTitled
           \/ ForgetTitle \/ Restart
  BY <1>3
     DEF BeginLoadUntitled, ReportTitled, CommitStarted, Hear, PublishTitled, ForgetTitle,
         Restart, RunStep, Next
<1>4. CASE UNCHANGED hvars
  BY <1>4 DEF hvars
<1>5. QED BY <1>1, <1>2, <1>3, <1>4 DEF HNext

LEMMA HistoryIsPlayback == HSpec => Spec
<1>1. HInit => Init
  BY DEF HInit
<1>2. [HNext]_hvars => [Next]_vars
  BY HistoryStep
<1>3. QED BY <1>1, <1>2, PTL DEF HSpec, Spec

\* The titles keep pace with the events.
LEMMA TitlesKeepPace ==
  ASSUME PlayerTypeOK, TitlesOK, Len(titles) = Len(events), TitlesFollow
  PROVE  /\ \A e \in EventType :
              Len(events) < ChanCap /\ Emit(e) => titles' = Append(titles, title')
         /\ events # <<>> /\ events' = Tail(events) => titles' = Tail(titles)
         /\ UNCHANGED events => titles' = titles
<1>1. events \in Seq(EventType) /\ titles \in Seq(Titles \cup {None})
  BY DEF PlayerTypeOK, TitlesOK
<1>2. ASSUME NEW e \in EventType, Len(events) < ChanCap, Emit(e)
      PROVE  titles' = Append(titles, title')
  <2>1. events' = Append(events, e)
    BY <1>2 DEF Emit
  <2>2. events' # <<>> /\ Len(events') > Len(events)
    BY <1>1, <2>1
  <2>3. QED BY <1>1, <2>1, <2>2 DEF TitlesFollow
<1>3. ASSUME events # <<>>, events' = Tail(events)
      PROVE  titles' = Tail(titles)
  <2>1. Len(events') = Len(events) - 1 /\ Len(events) > 0
    BY <1>1, <1>3
  <2>2. CASE events' = <<>>
    <3>1. Len(titles) = 1
      BY <1>1, <1>3, <2>1, <2>2
    <3>2. Tail(titles) \in Seq(Titles \cup {None}) /\ Len(Tail(titles)) = 0
      BY <1>1, <3>1
    <3>3. titles' = <<>>
      BY <2>2 DEF TitlesFollow
    <3>4. QED BY <3>2, <3>3, EmptySeq
  <2>3. CASE events' # <<>>
    BY <1>1, <2>1, <2>3 DEF TitlesFollow
  <2>4. QED BY <2>2, <2>3
<1>4. ASSUME UNCHANGED events
      PROVE  titles' = titles
  <2>1. CASE events = <<>>
    <3>1. titles = <<>>
      BY <1>1, <2>1
    <3>2. QED BY <1>4, <2>1, <3>1 DEF TitlesFollow
  <2>2. CASE events # <<>>
    BY <1>1, <1>4, <2>2 DEF TitlesFollow
  <2>3. QED BY <2>1, <2>2
<1>5. QED BY <1>2, <1>3, <1>4

LEMMA AnnouncingStays ==
  ASSUME PlaybackInvariant, AttributionInvariant, [Next]_vars, ~BeginLoad
  PROVE  Announcing' \in {Announcing, None}
<1>1. /\ c \in ControllerType /\ run \in RunType /\ Calm /\ InOrder
  BY DEF PlaybackInvariant, ControllerOK, AttributionInvariant
<1>2. CASE ProcessRestarts
  BY <1>2 DEF ProcessRestarts, NewController, AtSelect, Announcing
<1>3. CASE \/ BackoffExpires \/ PlayerReports \/ UNCHANGED vars
           \/ \E type \in {"ended", "failed"} : MediaEndsAs(type)
  <2>1. UNCHANGED run /\ c'.loadedID = c.loadedID
    BY <1>1, <1>3 DEF BackoffExpires, PlayerReports, MediaEndsAs, vars, Set, ControllerType
  <2>2. QED BY <2>1 DEF Announcing
<1>4. CASE Tick \/ HandleEvent \/ RunStep
  <2>1. CASE Commit
    BY <1>1, <2>1 DEF Commit, RunAt, Set, Return, AtSelect, ControllerType, Announcing
  <2>2. CASE ~Commit
    <3>1. c'.loadedID \in {c.loadedID, None}
      BY <1>4, <2>2, RunInHand
    <3>2. CASE run'.pc \in {"send", "volume", "commit"}
      <4>1. run.pc \in {"send", "volume"} /\ run'.pc \in {"volume", "commit"}
        BY <1>4, <3>2, RunTargets DEF Return, AtSelect
      <4>2. run'.item = run.item
        BY <1>4, <4>1, RunInHand
      <4>3. QED BY <3>2, <4>1, <4>2 DEF Announcing
    <3>3. CASE run'.pc \notin {"send", "volume", "commit"}
      <4>1. run.pc \in {"send", "volume", "commit"} => c.loadedID = None
        BY <1>1 DEF InOrder, Loading
      <4>2. QED BY <3>1, <3>3, <4>1 DEF Announcing
    <3>4. QED BY <3>2, <3>3
  <2>3. QED BY <2>1, <2>2
<1>5. QED BY <1>1, <1>2, <1>3, <1>4, CalmNext

\* A title that reaches the channel is of what is announced, or the empty one.
LEMMA TitlesSent ==
  ASSUME TitlesOK, Announcing' \in {Announcing, None}, title' \in Titles \cup {None},
         Announcing # None /\ title' # None => title'[1] = Announcing,
         titles' \in {titles, Append(titles, title')}
  PROVE  TitlesOK'
<1>1. titles \in Seq(Titles \cup {None}) /\ titles' \in Seq(Titles \cup {None})
  BY DEF TitlesOK
<1>2. ASSUME Announcing' # None, NEW i \in DOMAIN titles'
      PROVE  Overtaken(titles[i], i)'
  <2>1. Announcing' = Announcing /\ Announcing # None
    BY <1>2
  <2>2. CASE i \in DOMAIN titles
    <3>1. titles'[i] = titles[i] /\ \A j \in DOMAIN titles : j \in DOMAIN titles' /\ titles'[j] = titles[j]
      BY <1>1, <2>2
    <3>2. Overtaken(titles[i], i)
      BY <2>1, <2>2 DEF TitlesOK
    <3>3. QED BY <2>1, <3>1, <3>2 DEF Overtaken
  <2>3. CASE i \notin DOMAIN titles
    <3>1. titles'[i] = title'
      BY <1>1, <1>2, <2>3
    <3>2. QED BY <2>1, <3>1 DEF Overtaken
  <2>4. QED BY <2>2, <2>3
<1>3. Announcing' # None /\ title' # None => title'[1] = Announcing'
  OBVIOUS
<1>4. QED BY <1>1, <1>2, <1>3 DEF TitlesOK

LEMMA LoadMoves ==
  ASSUME run \in RunType, BeginLoad
  PROVE  run' # run
BY DEF BeginLoad, RunAt, Goto, RunType

LEMMA CommitMoves ==
  ASSUME Commit
  PROVE  run' # run
BY DEF Commit, RunAt, Return, AtSelect

\* What History calls silent neither sends nor takes an event.
LEMMA SilentIsQuiet ==
  ASSUME run \in RunType, Silent
  PROVE  UNCHANGED events /\ ~BeginLoad /\ ~Commit
<1>1. CASE Tick \/ UserEdits \/ BackoffExpires
  BY <1>1, LoadMoves, CommitMoves
     DEF Tick, RunAt, UserEdits, BackoffExpires, BeginLoad, Commit, playerVars
<1>2. CASE \E w \in Workers : Calls(w) \/ CommandStep(w)
  <2>1. UNCHANGED <<run, events>>
    BY <1>2
       DEF Calls, CallPause, CallResume, CallStop, CallSetVolume, Call, CommandStep,
           Unstop, SaveUnstop, LockPause, SendPause, SavePause, SendStop, LockStop, SaveStop,
           SendVolume, SaveVolume, CmdAt, playerVars
  <2>2. QED BY <2>1, LoadMoves, CommitMoves
<1>3. CASE run.pc \notin {"load", "commit", "publish", "forget"} /\ RunStep
  BY <1>3
     DEF RunStep, ReadItems, Decide, Halt, Unload, Rest, Claim, Resolve, Reject, BeginLoad,
         SendLoad, LoadTimesOut, LoadUnavailable, RestoreVolume, Commit, PlayerDown,
         Publish, Retry, Forget, Finish, RunAt, playerVars
<1>4. QED BY <1>1, <1>2, <1>3 DEF Silent

\* A report, the end of a file and a load are no event handled and no restart.
LEMMA OnlyEmits ==
  ASSUME PlaybackInvariant,
         BeginLoad \/ PlayerReports \/ \E type \in {"ended", "failed"} : MediaEndsAs(type)
  PROVE  ~HandleEvent /\ ~ProcessRestarts
<1>1. events \in Seq(EventType) /\ left \in [BudgetKeys -> Nat]
  BY DEF PlaybackInvariant, PlayerTypeOK, ControllerOK
<1>2. PICK e : Emit(e)
  BY DEF BeginLoad, LoadResetsState, PlayerReports, ReportProgress, ReportPause,
         ReportBuffering, ReportIdle, Report, MediaEndsAs, MediaEnds
<1>3. ~HandleEvent
  <2>1. Len(events') >= Len(events)
    BY <1>1, <1>2 DEF Emit
  <2>2. HandleEvent => Len(events') < Len(events)
    BY <1>1 DEF HandleEvent
  <2>3. QED BY <1>1, <2>1, <2>2
<1>4. ~ProcessRestarts
  <2>1. left'["restarts"] = left["restarts"]
    BY <1>1 DEF BeginLoad, RunAt, PlayerReports, Spend, MediaEndsAs, BudgetKeys
  <2>2. ProcessRestarts => left'["restarts"] = left["restarts"] - 1
    BY <1>1 DEF ProcessRestarts, Spend, BudgetKeys
  <2>3. left["restarts"] \in Nat
    BY <1>1 DEF BudgetKeys
  <2>4. QED BY <2>1, <2>2, <2>3
<1>5. QED BY <1>3, <1>4

LEMMA TitlesMoveOn ==
  ASSUME PlaybackInvariant, TitlesOK, Len(titles) = Len(events), TitlesFollow,
         Len(events) < ChanCap, [Next]_vars, ~HandleEvent, ~ProcessRestarts
  PROVE  /\ titles' \in {titles, Append(titles, title')}
         /\ title' \in Titles \cup {None} => Len(titles') = Len(events')
<1>1. /\ events \in Seq(EventType) /\ PlayerTypeOK
      /\ titles \in Seq(Titles \cup {None})
  BY DEF PlaybackInvariant, PlayerTypeOK, TitlesOK
<1>2. CASE UNCHANGED events
  BY <1>1, <1>2, TitlesKeepPace
<1>3. ASSUME NEW e \in EventType, Emit(e)
      PROVE  /\ titles' = Append(titles, title')
             /\ title' \in Titles \cup {None} => Len(titles') = Len(events')
  <2>1. titles' = Append(titles, title')
    BY <1>1, <1>3, TitlesKeepPace
  <2>2. Len(events') = Len(events) + 1
    BY <1>1, <1>3 DEF Emit
  <2>3. QED BY <1>1, <2>1, <2>2
<1>4. QED BY <1>2, <1>3, EventStep

\* The only steps that touch the recorded titles, in the calm behaviours.
LEMMA TitlesStep ==
  ASSUME PlaybackInvariant, AttributionInvariant, TitlesInvariant, [HNext]_hvars,
         Len(events) < ChanCap
  PROVE  TitlesInvariant'
<1>1. /\ c \in ControllerType /\ run \in RunType /\ PlayerTypeOK
      /\ Calm /\ InOrder /\ OneEnd /\ TitlesOK /\ Len(titles) = Len(events)
      /\ LateTitlesOnly /\ [Next]_vars
      /\ events \in Seq(EventType) /\ titles \in Seq(Titles \cup {None})
      /\ title \in Titles \cup {None}
  BY HistoryStep
     DEF PlaybackInvariant, ControllerOK, AttributionInvariant, PlayerTypeOK,
         TitlesInvariant, TitlesOK
<1>2. ASSUME titles' \in {titles, Append(titles, title')}, title' \in Titles \cup {None},
             heard' \in {heard, Nothing}
      PROVE  LateTitlesOnly'
  <2>1. \A i \in DOMAIN titles : i \in DOMAIN titles' /\ titles'[i] = titles[i]
    BY <1>1, <1>2
  <2>2. Nothing.title = None
    BY DEF Nothing
  <2>3. QED BY <1>1, <1>2, <2>1, <2>2 DEF LateTitlesOnly
<1>3. CASE BeginLoadUntitled
  <2>1. ~HandleEvent /\ ~ProcessRestarts /\ TitlesFollow /\ title' = None /\ heard' = heard
    BY <1>3, OnlyEmits DEF BeginLoadUntitled
  <2>2. /\ StateEvent(state') \in EventType
        /\ Emit(StateEvent(state'))
    <3>1. state' \in StateType /\ Emit(StateEvent(state'))
      BY <1>3 DEF BeginLoadUntitled, BeginLoad, LoadResetsState, StateType, PlayerStatuses
    <3>2. QED BY <3>1, StateEventType
  <2>3. titles' = Append(titles, None) /\ Len(titles') = Len(events')
    BY <1>1, <2>1, <2>2, TitlesKeepPace, TitlesMoveOn
  <2>4. LateTitlesOnly'
    BY <1>2, <2>1, <2>3
  <2>5. \A i \in DOMAIN titles' : Overtaken(titles[i], i)'
    <3>1. /\ titles'[Len(titles')] = None /\ Len(titles') \in DOMAIN titles'
          /\ \A i \in DOMAIN titles' : i = Len(titles') \/ Len(titles') > i
      BY <1>1, <2>3
    <3>2. QED BY <3>1 DEF Overtaken
  <2>6. TitlesOK'
    BY <1>1, <2>1, <2>3, <2>5 DEF TitlesOK
  <2>7. QED BY <2>3, <2>4, <2>6 DEF TitlesInvariant
<1>4. CASE ReportTitled \/ \E type \in {"ended", "failed"} :
             MediaEndsAs(type) /\ UNCHANGED <<title, heard>> /\ TitlesFollow
  <2>1. /\ ~HandleEvent /\ ~ProcessRestarts /\ TitlesFollow /\ heard' = heard
        /\ ~BeginLoad
    <3>1. UNCHANGED run
      BY <1>4 DEF ReportTitled, PlayerReports, MediaEndsAs
    <3>2. QED BY <1>1, <1>4, <3>1, OnlyEmits, LoadMoves DEF ReportTitled
  <2>2. /\ title' \in Titles \cup {None}
        /\ Announcing # None /\ title' # None => title'[1] = Announcing
    <3>1. CASE title' = title
      BY <1>1, <3>1 DEF TitlesOK
    <3>2. CASE title' # title
      <4>1. title' \in Titles /\ title'[1] = mpv.media
        BY <1>4, <3>2 DEF ReportTitled, Announced
      <4>2. mpv.media # None
        BY <4>1, NoneAssumption DEF Titles
      <4>3. mpv.media = Announcing \/ Announcing = None
        BY <1>1, <4>2 DEF OneEnd, Target, Announcing, InOrder, Loading
      <4>4. QED BY <4>1, <4>3
    <3>3. QED BY <3>1, <3>2
  <2>3. titles' \in {titles, Append(titles, title')} /\ Len(titles') = Len(events')
    BY <1>1, <2>1, <2>2, TitlesMoveOn
  <2>4. Announcing' \in {Announcing, None}
    BY <1>1, <2>1, AnnouncingStays
  <2>5. QED BY <1>1, <1>2, <2>1, <2>2, <2>3, <2>4, TitlesSent DEF TitlesInvariant
<1>5. CASE Hear
  <2>1. /\ run.pc = "select" /\ events # <<>> /\ events' = Tail(events)
        /\ TitlesFollow /\ title' = title /\ ~BeginLoad
    BY <1>5 DEF Hear, HandleEvent, RunAt, BeginLoad
  <2>2. titles' = Tail(titles) /\ titles # <<>>
    BY <1>1, <2>1, TitlesKeepPace
  <2>3. \A i \in DOMAIN titles' : i + 1 \in DOMAIN titles /\ titles'[i] = titles[i + 1]
    BY <1>1, <2>2
  <2>4. \A i \in DOMAIN titles : i # 1 => i - 1 \in DOMAIN titles' /\ titles'[i - 1] = titles[i]
    BY <1>1, <2>2
  <2>5. Announcing' \in {Announcing, None} /\ Announcing = c.loadedID
    BY <1>1, <2>1, AnnouncingStays DEF Announcing
  <2>6. DOMAIN titles \subseteq Nat /\ DOMAIN titles' \subseteq Nat
    BY <1>1, <2>2
  <2>7. TitlesOK'
    <3>1. ASSUME Announcing' # None, NEW i \in DOMAIN titles'
          PROVE  Overtaken(titles[i], i)'
      <4>1. Overtaken(titles[i + 1], i + 1) /\ Announcing' = Announcing
        BY <1>1, <2>3, <2>5, <3>1 DEF TitlesOK
      <4>2. CASE titles'[i] = None \/ titles'[i][1] = Announcing
        BY <4>1, <4>2 DEF Overtaken
      <4>3. CASE titles'[i] # None /\ titles'[i][1] # Announcing
        <5>1. PICK j \in DOMAIN titles : j > i + 1 /\ titles[j] = None
          BY <2>3, <3>1, <4>1, <4>3 DEF Overtaken
        <5>2. j # 1 /\ j - 1 > i
          BY <2>6, <3>1, <5>1
        <5>3. j - 1 \in DOMAIN titles' /\ titles'[j - 1] = None
          BY <2>4, <5>1, <5>2
        <5>4. QED BY <5>2, <5>3 DEF Overtaken
      <4>4. QED BY <4>2, <4>3
    <3>2. titles' \in Seq(Titles \cup {None})
      BY <1>1, <2>2
    <3>3. QED BY <1>1, <2>1, <2>5, <3>1, <3>2 DEF TitlesOK
  <2>8. Len(titles') = Len(events')
    BY <1>1, <2>1, <2>2
  <2>9. LateTitlesOnly'
    <3>1. CASE run'.pc = "publish"
      <4>1. heard' = [title |-> titles[1], for |-> Announcing] /\ Announcing # None
        <5>1. c.loadedID # None
          <6>1. CASE HandleState(Head(events))
            BY <3>1, <6>1, StateHandled DEF Return, AtSelect
          <6>2. CASE HandleEnd(Head(events))
            BY <3>1, <6>2, EndHandled
          <6>3. QED BY <1>5, <3>1, <6>1, <6>2 DEF Hear, HandleEvent, Return, AtSelect
        <5>2. Head(titles) = titles[1]
          BY <1>1, <2>2
        <5>3. QED BY <1>5, <2>5, <3>1, <5>1, <5>2 DEF Hear
      <4>2. ASSUME titles[1] # None, titles[1][1] # Announcing
            PROVE  \E i \in DOMAIN titles' : titles'[i] = None
        <5>1. 1 \in DOMAIN titles
          BY <1>1, <2>2
        <5>2. Overtaken(titles[1], 1)
          BY <1>1, <4>1, <5>1 DEF TitlesOK
        <5>3. PICK j \in DOMAIN titles : j > 1 /\ titles[j] = None
          BY <4>2, <5>2 DEF Overtaken
        <5>4. QED BY <2>4, <2>6, <5>3
      <4>3. QED BY <4>1, <4>2 DEF LateTitlesOnly
    <3>2. CASE run'.pc # "publish"
      BY <1>5, <3>2 DEF Hear, Nothing, LateTitlesOnly
    <3>3. QED BY <3>1, <3>2
  <2>10. QED BY <2>7, <2>8, <2>9 DEF TitlesInvariant
<1>6. CASE Restart
  <2>1. /\ titles' = <<>> /\ events' = <<>> /\ title' = None /\ heard' = Nothing
        /\ Announcing' = None
    BY <1>6 DEF Restart, ProcessRestarts, NewController, AtSelect, Announcing
  <2>2. QED BY <2>1 DEF TitlesInvariant, TitlesOK, LateTitlesOnly, Nothing
<1>7. ASSUME UNCHANGED <<title, titles, events>>, heard' \in {heard, Nothing}, ~BeginLoad
      PROVE  TitlesInvariant'
  <2>1. Announcing' \in {Announcing, None}
    BY <1>1, <1>7, AnnouncingStays
  <2>2. Announcing # None /\ title' # None => title'[1] = Announcing
    BY <1>1, <1>7 DEF TitlesOK
  <2>3. QED BY <1>1, <1>2, <1>7, <2>1, <2>2, TitlesSent DEF TitlesInvariant
<1>8. CASE CommitStarted \/ PublishTitled \/ ForgetTitle
  BY <1>7, <1>8
     DEF CommitStarted, PublishTitled, ForgetTitle, Commit, Publish, Forget, RunAt,
         BeginLoad, playerVars
<1>9. CASE Silent /\ UNCHANGED recorded
  <2>1. UNCHANGED events /\ ~BeginLoad
    BY <1>1, <1>9, SilentIsQuiet
  <2>2. QED BY <1>7, <1>9, <2>1 DEF recorded
<1>10. CASE UNCHANGED hvars
  BY <1>1, <1>7, <1>10, LoadMoves DEF hvars, vars, recorded
<1>11. ~PlayerCrashes /\ ~PlayerRestarts
  BY <1>1 DEF Calm, PlayerCrashes, PlayerRestarts, MpvRestarts, Spend
<1>12. QED
  BY <1>3, <1>4, <1>5, <1>6, <1>8, <1>9, <1>10, <1>11 DEF HNext, Emits

\* When nobody edits, commands or kills, and the channel never fills, a title is
\* written to another item's history only if it was on its way when that item
\* was loaded: it is the driver's empty report of every load that keeps the
\* titles of two files apart.
THEOREM HistoryLateTitlesOnly ==
  ASSUME LeftAlone
  PROVE  HSpec /\ [](Len(events) < ChanCap) => []LateTitlesOnly
<1>1. HInit => TitlesInvariant
  BY DEF HInit, Init, PlayerInit, NewController, AtSelect, TitlesInvariant, TitlesOK,
         Announcing, LateTitlesOnly, Nothing
<1>2. Init => AttributionInvariant
  BY AttributionInit
<1>3. PlaybackInvariant /\ AttributionInvariant /\ [Next]_vars => AttributionInvariant'
  BY AttributionStep
<1>4. PlaybackInvariant /\ AttributionInvariant /\ TitlesInvariant /\ [HNext]_hvars
        /\ Len(events) < ChanCap
      => TitlesInvariant'
  BY TitlesStep
<1>5. TitlesInvariant => LateTitlesOnly
  BY DEF TitlesInvariant
<1>6. QED
  BY <1>1, <1>2, <1>3, <1>4, <1>5, HistoryIsPlayback, PlaybackSafe, PTL DEF Spec, HSpec

OutcomesOK ==
  /\ DOMAIN latest = Ids /\ behind = {}
  /\ \A id \in Ids : latest[id] = NoEntry <=> latest[id].outcome = "none"

\* In the life of the process before the first restart, the entry of an item
\* follows its attempts: it is open exactly while the item is loaded or waits for
\* its retry, and there is none before the first load.
FirstLife ==
  /\ run.pc = "fail" => latest[run.item].outcome = "failed" /\ c.retries[run.item] = 0
  /\ \A id \in Ids :
       /\ c.retries[id] > 0 => Open(id)
       /\ /\ db.st[id] \in {"queued", "current"} /\ id # c.loadedID
          /\ c.retries[id] = 0
          => latest[id].outcome = "none"
       /\ db.st[id] = "failed" /\ latest[id].outcome # "none" =>
            latest[id].outcome = IF c.retries[id] > 0 THEN "playing" ELSE "failed"

EntriesInvariant ==
  /\ OutcomesOK
  /\ \A id \in Ids : db.st[id] = "deleted" => latest[id].outcome = "completed"
  /\ c.loadedID # None /\ run.pc \notin {"finish", "fail", "forget"} => Open(c.loadedID)
  /\ run.pc = "finish" => latest[run.item].outcome = "completed"
  /\ left["restarts"] \in {0, 1}
  /\ left["restarts"] > 0 => FirstLife

OutcomeSet(id, outcome) ==
  \A other \in Ids :
    latest'[other].outcome = IF other = id THEN outcome ELSE latest[other].outcome
OutcomesKept == \A id \in Ids : latest'[id].outcome = latest[id].outcome

\* Entries are opened by Commit and closed by the handling of an end.
LEMMA WhoWrites ==
  ASSUME PlaybackInvariant, AttributionInvariant, RowInHand, EntriesInvariant,
         [HNext]_hvars
  PROVE  /\ OutcomesOK'
         /\ \/ Commit /\ OutcomeSet(run.item, "playing")
            \/ /\ HandleEvent /\ run'.pc = "finish" /\ c.loadedID \in Ids
               /\ OutcomeSet(c.loadedID, "completed")
            \/ /\ HandleEvent /\ run'.pc = "fail" /\ c.loadedID \in Ids
               /\ OutcomeSet(c.loadedID, "failed")
            \/ /\ OutcomesKept /\ ~Commit
               /\ HandleEvent => run'.pc \notin {"finish", "fail"}
<1>1. /\ c \in ControllerType /\ run \in RunType /\ events \in Seq(EventType)
      /\ left \in [BudgetKeys -> Nat]
      /\ Calm /\ OutcomesOK /\ DOMAIN latest = Ids
  BY DEF PlaybackInvariant, ControllerOK, PlayerTypeOK, AttributionInvariant,
         EntriesInvariant, OutcomesOK
<1>2. HandleEvent => run.pc = "select" /\ events # <<>> /\ events' = Tail(events) /\ UNCHANGED left
  BY DEF HandleEvent, RunAt
<1>3. UNCHANGED events => ~HandleEvent
  BY <1>1, <1>2
<1>4. ASSUME UNCHANGED entries PROVE OutcomesOK' /\ OutcomesKept
  BY <1>1, <1>4 DEF entries, OutcomesOK, OutcomesKept, Open
<1>5. CASE CommitStarted
  <2>1. /\ run.item \in Ids /\ Commit
        /\ latest' = [latest EXCEPT ![run.item] = Entry(None)] /\ behind' = {}
    BY <1>1, <1>5
       DEF CommitStarted, Commit, RunAt, RecordStarted, PlaybackInvariant, ItemInHand,
           OutcomesOK
  <2>2. Entry(None).outcome = "playing" /\ NoEntry.outcome = "none"
    BY DEF Entry, NoEntry
  <2>3. OutcomesOK' /\ OutcomeSet(run.item, "playing")
    BY <1>1, <2>1, <2>2 DEF OutcomesOK, OutcomeSet
  <2>4. QED BY <2>1, <2>3
<1>6. CASE Hear
  <2>1. run.pc = "select" /\ HandleEvent /\ ~Commit
    BY <1>2, <1>6 DEF Hear, Commit, RunAt
  <2>2. CASE run'.pc \notin {"finish", "fail"}
    <3>1. UNCHANGED entries
      BY <1>6, <2>2 DEF Hear
    <3>2. QED BY <1>4, <2>1, <2>2, <3>1
  <2>3. CASE run'.pc \in {"finish", "fail"}
    <3>1. run'.item = c.loadedID /\ c.loadedID # None
      <4>1. HandleEnd(Head(events)) /\ c.loadedID # None
        BY <2>1, <2>3, StateHandled DEF HandleEvent, Return, AtSelect
      <4>2. QED BY <4>1, EndHandled
    <3>2. c.loadedID \in Ids /\ Open(c.loadedID)
      BY <1>1, <2>1, <3>1 DEF ControllerType, EntriesInvariant
    <3>3. PICK outcome \in {"failed", "completed"} :
            /\ RecordFinished(run'.item, outcome)
            /\ outcome = IF run'.pc = "fail" THEN "failed" ELSE "completed"
      BY <1>6, <2>3 DEF Hear
    <3>4. /\ latest' = [latest EXCEPT ![c.loadedID] = [outcome |-> outcome, title |-> None]]
          /\ behind' = {}
      BY <1>1, <3>1, <3>2, <3>3 DEF RecordFinished, Close, OutcomesOK
    <3>5. OutcomeSet(c.loadedID, outcome)
      BY <1>1, <3>2, <3>4 DEF OutcomeSet
    <3>6. OutcomesOK'
      <4>1. NoEntry.outcome = "none" /\ [outcome |-> outcome, title |-> None].outcome # "none"
        BY DEF NoEntry
      <4>2. QED BY <1>1, <3>2, <3>4, <4>1 DEF OutcomesOK
    <3>7. QED BY <2>1, <2>3, <3>2, <3>3, <3>5, <3>6
  <2>4. QED BY <2>2, <2>3
<1>7. CASE PublishTitled
  <2>1. ~Commit /\ ~HandleEvent
    BY <1>2, <1>7 DEF PublishTitled, Publish, Commit, RunAt
  <2>2. CASE UNCHANGED latest
    BY <1>4, <1>7, <2>1, <2>2 DEF PublishTitled, RecordTitleChanged, entries
  <2>3. ASSUME NEW id, NEW t, Open(id), latest' = [latest EXCEPT ![id] = Entry(t)],
               UNCHANGED behind
        PROVE  OutcomesOK' /\ OutcomesKept
    <3>1. Entry(t).outcome = "playing" /\ NoEntry.outcome = "none"
      BY DEF Entry, NoEntry
    <3>2. QED BY <1>1, <2>3, <3>1 DEF OutcomesOK, OutcomesKept, Open
  <2>4. QED BY <1>7, <2>1, <2>2, <2>3 DEF PublishTitled, RecordTitleChanged, entries
<1>8. CASE UNCHANGED entries /\ ~Commit /\ ~HandleEvent
  BY <1>4, <1>8
<1>9. CASE BeginLoadUntitled \/ ReportTitled
  <2>1. UNCHANGED run \/ run.pc = "load"
    BY <1>9 DEF BeginLoadUntitled, BeginLoad, ReportTitled, PlayerReports, RunAt
  <2>2. ~Commit /\ ~HandleEvent
    BY <1>9, <2>1, CommitMoves, OnlyEmits DEF BeginLoadUntitled, ReportTitled, Commit, RunAt
  <2>3. QED BY <1>8, <1>9, <2>2 DEF BeginLoadUntitled, ReportTitled
<1>10. CASE Emits /\ UNCHANGED entries
  <2>1. \E type \in {"ended", "failed"} : MediaEndsAs(type)
    BY <1>1, <1>10
       DEF Emits, Calm, PlayerCrashes, PlayerRestarts, MpvRestarts, Spend
  <2>2. UNCHANGED run
    BY <2>1 DEF MediaEndsAs
  <2>3. QED BY <1>8, <1>10, <2>1, <2>2, CommitMoves, OnlyEmits
<1>11. CASE ForgetTitle
  BY <1>2, <1>8, <1>11 DEF ForgetTitle, Forget, Commit, RunAt
<1>12. CASE Restart
  <2>1. left' # left
    BY <1>1, <1>12 DEF Restart, ProcessRestarts, Spend, BudgetKeys
  <2>2. QED BY <1>2, <1>8, <1>12, <2>1 DEF Restart, Commit, RunAt
<1>13. CASE Silent /\ UNCHANGED recorded
  BY <1>1, <1>3, <1>8, <1>13, SilentIsQuiet DEF recorded
<1>14. CASE UNCHANGED hvars
  BY <1>3, <1>8, <1>14, CommitMoves DEF hvars, vars, recorded
<1>15. QED
  BY <1>5, <1>6, <1>7, <1>9, <1>10, <1>11, <1>12, <1>13, <1>14 DEF HNext

\* Only a restart of the process uses up the restarts.
LEMMA RestartsLeft ==
  ASSUME PlaybackInvariant, Calm, [Next]_vars, ~ProcessRestarts
  PROVE  left'["restarts"] = left["restarts"]
<1>1. left \in [BudgetKeys -> Nat]
  BY DEF PlaybackInvariant, ControllerOK
<1>2. CASE Tick \/ HandleEvent
  BY <1>2 DEF Tick, HandleEvent, RunAt
<1>3. CASE RunStep /\ ~LoadTimesOut
  <2>1. CASE Halt \/ RestoreVolume
    BY <1>1, <2>1 DEF Halt, RestoreVolume, GivenUp, Calm, Spend, BudgetKeys
  <2>2. CASE UNCHANGED left
    BY <2>2
  <2>3. QED
    BY <1>3, <2>1, <2>2
       DEF RunStep, ReadItems, Decide, Unload, Rest, Claim, Resolve, Reject, BeginLoad,
           SendLoad, LoadUnavailable, Commit, PlayerDown, Publish, Retry, Forget, Finish,
           RunAt
<1>4. CASE \/ BackoffExpires \/ PlayerReports \/ UNCHANGED vars
           \/ \E type \in {"ended", "failed"} : MediaEndsAs(type)
  BY <1>1, <1>4
     DEF BackoffExpires, PlayerReports, Spend, BudgetKeys, vars, MediaEndsAs
<1>5. QED BY <1>2, <1>3, <1>4, CalmNext

\* What the controller believes and counts, step by step.
LEMMA WhoCounts ==
  ASSUME PlaybackInvariant, Calm, [Next]_vars, ~ProcessRestarts
  PROVE  \/ c'.retries = c.retries /\ c'.loadedID = c.loadedID
         \/ Commit /\ c'.retries = c.retries /\ c'.loadedID = run.item
         \/ Forget /\ c'.retries = c.retries /\ c'.loadedID = None
         \/ /\ HandleEvent /\ c.loadedID \in Ids /\ run'.pc = "retry"
            /\ c'.retries[c.loadedID] > 0 /\ c'.loadedID = None
            /\ \A id \in Ids \ {c.loadedID} : c'.retries[id] = c.retries[id]
         \/ /\ HandleEvent /\ c.loadedID \in Ids /\ run'.pc \in {"finish", "fail"}
            /\ c'.retries[c.loadedID] = 0 /\ c'.loadedID = c.loadedID
            /\ run'.item = c.loadedID
            /\ \A id \in Ids \ {c.loadedID} : c'.retries[id] = c.retries[id]
<1>1. c \in ControllerType /\ run \in RunType
  BY DEF PlaybackInvariant, ControllerOK
<1>2. CASE HandleEvent
  <2>1. CASE HandleState(Head(events))
    <3>1. c'.loadedID = c.loadedID /\ c'.retries = c.retries
      BY <1>1, <2>1 DEF HandleState, Set, ControllerType
    <3>2. QED BY <3>1
  <2>2. CASE HandleEnd(Head(events)) /\ c.loadedID # None
    <3>1. c.loadedID \in Ids
      BY <1>1, <2>2 DEF ControllerType
    <3>2. c.retries \in [Ids -> Nat]
      BY <1>1, RetryLimitAssumption DEF ControllerType
    <3>3. CASE c'.retries = [c.retries EXCEPT ![c.loadedID] = @ + 1]
      BY <1>2, <2>2, <3>1, <3>2, <3>3, EndHandled
    <3>4. CASE c'.retries = [c.retries EXCEPT ![c.loadedID] = 0]
      BY <1>2, <2>2, <3>1, <3>2, <3>4, EndHandled
    <3>5. QED BY <2>2, <3>3, <3>4, EndHandled
  <2>3. QED BY <1>2, <2>1, <2>2 DEF HandleEvent
<1>3. CASE Commit \/ Forget
  BY <1>1, <1>3 DEF Commit, Forget, Set, ControllerType
<1>4. CASE Decide \/ BackoffExpires
  BY <1>1, <1>4 DEF Decide, BackoffExpires, Set, ControllerType
<1>5. CASE UNCHANGED c
  BY <1>5
<1>6. QED
  BY <1>2, <1>3, <1>4, <1>5, CalmNext
     DEF Tick, RunStep, ReadItems, Halt, Rest, Claim, Resolve, Reject, BeginLoad, SendLoad,
         LoadTimesOut, RestoreVolume, Publish, Retry, Finish, PlayerReports, vars,
         MediaEndsAs

LEMMA EntriesStep ==
  ASSUME PlaybackInvariant, AttributionInvariant, RowInHand, EntriesInvariant,
         [HNext]_hvars
  PROVE  EntriesInvariant'
<1>1. /\ c \in ControllerType /\ run \in RunType /\ c.retries \in [Ids -> Nat]
      /\ db.st \in [Ids -> RowStatus \cup {"absent", "deleted"}]
      /\ left \in [BudgetKeys -> Nat] /\ left["restarts"] \in {0, 1}
      /\ c.loadedID \in Ids \cup {None} /\ run.item \in Ids \cup {None}
  BY RetryLimitAssumption
     DEF PlaybackInvariant, ControllerOK, ControllerType, RunType, DbInvariant, DbTypeOK,
         DbType, EntriesInvariant
<1>2. Calm /\ InOrder /\ [Next]_vars
  BY HistoryStep DEF AttributionInvariant
<1>3. OutcomesOK'
  BY WhoWrites
<1>4. CASE ProcessRestarts
  <2>1. left'["restarts"] = 0 /\ left' # left
    BY <1>1, <1>4 DEF ProcessRestarts, Spend, BudgetKeys
  <2>2. run'.pc = "select" /\ c'.loadedID = None /\ ~HandleEvent /\ ~Commit
    <3>1. run'.pc = "select" /\ c'.loadedID = None
      BY <1>4 DEF ProcessRestarts, AtSelect, NewController
    <3>2. QED BY <2>1, <3>1 DEF HandleEvent, Commit, RunAt
  <2>3. OutcomesKept
    BY <2>2, WhoWrites
  <2>4. \A id \in Ids : db'.st[id] = "deleted" => db.st[id] = "deleted"
    BY <1>1, <1>4
       DEF ProcessRestarts, DbReconcilePlayback, ReconcilePlayback, Cleared, Demoted,
           PlaybackInvariant, DbInvariant, DbTypeOK, DbType
  <2>5. QED BY <1>3, <2>1, <2>2, <2>3, <2>4 DEF EntriesInvariant, OutcomesKept
<1>5. CASE ~ProcessRestarts
  <2>1. left'["restarts"] = left["restarts"]
    BY <1>2, <1>5, RestartsLeft
  <2>2. CASE HandleEvent /\ run'.pc \in {"retry", "finish", "fail"}
    <3>1. /\ run.pc = "select" /\ UNCHANGED db /\ ~Commit /\ ~Forget
      BY <2>2 DEF HandleEvent, RunAt, Commit, Forget
    <3>2. HandleEnd(Head(events)) /\ c.loadedID # None
      BY <2>2, <3>1, StateHandled DEF HandleEvent, Return, AtSelect
    <3>3. /\ c.loadedID \in Ids /\ db.st[c.loadedID] = "current" /\ Open(c.loadedID)
          /\ run'.item = c.loadedID
      BY <1>1, <3>1, <3>2, EndHandled DEF RowInHand, EntriesInvariant
    <3>4. CASE run'.pc = "retry"
      <4>1. /\ c'.retries[c.loadedID] > 0 /\ c'.loadedID = None
            /\ \A id \in Ids \ {c.loadedID} : c'.retries[id] = c.retries[id]
        <5>1. /\ c'.retries = [c.retries EXCEPT ![c.loadedID] = @ + 1]
              /\ c'.loadedID = None
          BY <3>2, <3>4, EndHandled
        <5>2. QED BY <1>1, <3>3, <5>1
      <4>2. OutcomesKept
        BY <3>1, <3>4, WhoWrites
      <4>3. FirstLife => FirstLife'
        BY <3>1, <3>3, <3>4, <4>1, <4>2 DEF FirstLife, OutcomesKept, Open
      <4>4. QED
        BY <1>3, <2>1, <3>1, <3>4, <4>1, <4>2, <4>3 DEF EntriesInvariant, OutcomesKept
    <3>5. CASE run'.pc \in {"finish", "fail"}
      <4>1. /\ c'.retries[c.loadedID] = 0 /\ c'.loadedID = c.loadedID
            /\ \A id \in Ids \ {c.loadedID} : c'.retries[id] = c.retries[id]
        <5>1. /\ c'.retries = [c.retries EXCEPT ![c.loadedID] = 0]
              /\ c'.loadedID = c.loadedID
          BY <3>2, <3>5, EndHandled
        <5>2. QED BY <1>1, <3>3, <5>1
      <4>2. OutcomeSet(c.loadedID, IF run'.pc = "fail" THEN "failed" ELSE "completed")
        BY <2>2, <3>1, <3>5, WhoWrites
      <4>3. FirstLife => FirstLife'
        BY <3>1, <3>3, <3>5, <4>1, <4>2 DEF FirstLife, OutcomeSet, Open
      <4>4. QED
        BY <1>3, <2>1, <3>1, <3>3, <3>5, <4>1, <4>2, <4>3 DEF EntriesInvariant, OutcomeSet
    <3>6. QED BY <2>2, <3>4, <3>5
  <2>3. CASE Commit
    <3>1. /\ run.pc = "commit" /\ run'.pc = "select" /\ UNCHANGED db /\ ~HandleEvent
          /\ run.item \in Ids /\ c.loadedID = None
      BY <1>2, <2>3
         DEF Commit, RunAt, Return, AtSelect, HandleEvent, InOrder, Loading,
             PlaybackInvariant, ItemInHand
    <3>2. c'.loadedID = run.item /\ c'.retries = c.retries
      BY <1>1, <2>3 DEF Commit, Set, ControllerType
    <3>3. OutcomeSet(run.item, "playing") /\ db.st[run.item] = "current"
      BY <2>3, <3>1, WhoWrites DEF RowInHand
    <3>4. FirstLife => FirstLife'
      BY <3>1, <3>2, <3>3, NoneAssumption DEF FirstLife, OutcomeSet, Open
    <3>5. QED
      BY <1>3, <2>1, <3>1, <3>2, <3>3, <3>4 DEF EntriesInvariant, OutcomeSet, Open
  <2>4. CASE Forget
    <3>1. /\ run.pc = "forget" /\ run'.pc = "select" /\ UNCHANGED db /\ ~HandleEvent
          /\ ~Commit
      BY <2>4 DEF Forget, RunAt, Return, AtSelect, HandleEvent, Commit
    <3>2. c'.loadedID = None /\ c'.retries = c.retries
      BY <1>1, <2>4 DEF Forget, Set, ControllerType
    <3>3. OutcomesKept /\ db.st[c.loadedID] \in {"failed", "deleted"}
      BY <3>1, WhoWrites DEF RowInHand
    <3>4. FirstLife => FirstLife'
      BY <3>1, <3>2, <3>3 DEF FirstLife, OutcomesKept, Open
    <3>5. QED
      BY <1>3, <2>1, <3>1, <3>2, <3>3, <3>4 DEF EntriesInvariant, OutcomesKept
  <2>5. CASE ~Commit /\ ~Forget /\ ~(HandleEvent /\ run'.pc \in {"retry", "finish", "fail"})
    <3>1. OutcomesKept /\ c'.retries = c.retries /\ c'.loadedID = c.loadedID
      BY <1>2, <1>5, <2>5, WhoWrites, WhoCounts
    <3>2. run'.pc \in {"finish", "fail"} => run.pc = run'.pc /\ run'.item = run.item /\ UNCHANGED db
      <4>1. CASE Tick \/ HandleEvent \/ RunStep
        BY <2>5, <4>1, RunTargets DEF Return, AtSelect
      <4>2. CASE \/ BackoffExpires \/ PlayerReports \/ UNCHANGED vars
                 \/ \E type \in {"ended", "failed"} : MediaEndsAs(type)
        BY <4>2 DEF BackoffExpires, PlayerReports, vars, MediaEndsAs
      <4>3. QED BY <1>2, <1>5, <4>1, <4>2, CalmNext
    <3>3. c.loadedID # None /\ run.pc \in {"finish", "fail", "forget"} =>
            run'.pc \in {"finish", "fail", "forget"}
      <4>1. CASE Tick \/ HandleEvent \/ RunStep
        <5>1. run.pc \in {"finish", "fail", "forget"} =>
                Forget \/ \E pc \in {"finish", "fail"} : Finish(pc)
          BY <4>1
             DEF Tick, HandleEvent, RunStep, ReadItems, Decide, Halt, Unload, Rest, Claim,
                 Resolve, Reject, BeginLoad, SendLoad, LoadTimesOut, LoadUnavailable,
                 RestoreVolume, Commit, PlayerDown, Publish, Retry, RunAt
        <5>2. QED BY <1>1, <2>5, <5>1 DEF Finish, Goto, RunType
      <4>2. CASE \/ BackoffExpires \/ PlayerReports \/ UNCHANGED vars
                 \/ \E type \in {"ended", "failed"} : MediaEndsAs(type)
        BY <4>2 DEF BackoffExpires, PlayerReports, vars, MediaEndsAs
      <4>3. QED BY <1>2, <1>5, <4>1, <4>2, CalmNext
    <3>4. c'.loadedID # None /\ run'.pc \notin {"finish", "fail", "forget"} => Open(c.loadedID)'
      BY <1>1, <3>1, <3>3 DEF EntriesInvariant, Open, OutcomesKept
    <3>5. run'.pc = "finish" => latest'[run'.item].outcome = "completed"
      BY <1>1, <3>1, <3>2 DEF EntriesInvariant, OutcomesKept, PlaybackInvariant, ItemInHand
    <3> DEFINE RowsFit ==
          /\ \A id \in Ids : db'.st[id] = "deleted" => latest[id].outcome = "completed"
          /\ FirstLife =>
               \A id \in Ids :
                 /\ db'.st[id] \in {"queued", "current"} =>
                      db.st[id] \in {"queued", "current"}
                 /\ db'.st[id] = "failed" /\ latest[id].outcome # "none" =>
                      latest[id].outcome = IF c.retries[id] > 0 THEN "playing" ELSE "failed"
    <3>6. RowsFit
      <4>1. CASE db'.st = db.st
        BY <4>1 DEF EntriesInvariant, FirstLife
      <4>2. CASE Claim /\ db'.st = [Demoted(db) EXCEPT ![run.item] = "current"]
                 /\ Demoted(db)[run.item] = "queued"
        <5>1. run.item \in Ids
          BY <4>2 DEF Claim, RunAt, PlaybackInvariant, ItemInHand
        <5>2. \A id \in Ids :
                \/ db'.st[id] = db.st[id]
                \/ {db'.st[id], db.st[id]} \subseteq {"queued", "current"}
          BY <1>1, <4>2, <5>1 DEF Demoted
        <5>3. QED BY <5>2 DEF EntriesInvariant, FirstLife
      <4>3. ASSUME NEW status \in {"queued", "failed", "deleted"},
                   db'.st = [db.st EXCEPT ![run.item] = status], db.st[run.item] = "current",
                   run.item \in Ids,
                   status = "deleted" => latest[run.item].outcome = "completed",
                   FirstLife /\ status = "failed" /\ latest[run.item].outcome # "none" =>
                     latest[run.item].outcome =
                       IF c.retries[run.item] > 0 THEN "playing" ELSE "failed"
            PROVE  RowsFit
        <5>1. \A id \in Ids : (id = run.item /\ db'.st[id] = status) \/ db'.st[id] = db.st[id]
          BY <1>1, <4>3
        <5>2. QED BY <4>3, <5>1 DEF EntriesInvariant, FirstLife
      <4>4. CASE Reject /\ db.st[run.item] = "current"
                 /\ db'.st = [db.st EXCEPT ![run.item] = "failed"]
        <5>1. c.loadedID = None /\ run.item \in Ids
          BY <1>2, <4>4 DEF Reject, RunAt, InOrder, PlaybackInvariant, ItemInHand
        <5>2. FirstLife /\ latest[run.item].outcome # "none" =>
                c.retries[run.item] > 0 /\ latest[run.item].outcome = "playing"
          BY <1>1, <4>4, <5>1, NoneAssumption DEF FirstLife, Open
        <5>3. QED BY <4>3, <4>4, <5>1, <5>2
      <4>5. CASE Retry /\ db.st[run.item] = "current"
                 /\ db'.st = [db.st EXCEPT ![run.item] = "queued"]
        BY <4>3, <4>5 DEF Retry, RunAt, PlaybackInvariant, ItemInHand
      <4>6. CASE Finish("finish") /\ db.st[run.item] = "current"
                 /\ db'.st = [db.st EXCEPT ![run.item] = "deleted"]
        BY <4>3, <4>6 DEF Finish, RunAt, PlaybackInvariant, ItemInHand, EntriesInvariant
      <4>7. CASE Finish("fail") /\ db.st[run.item] = "current"
                 /\ db'.st = [db.st EXCEPT ![run.item] = "failed"]
        <5>1. run.pc = "fail" /\ run.item \in Ids
          BY <4>7 DEF Finish, RunAt, PlaybackInvariant, ItemInHand
        <5>2. FirstLife => latest[run.item].outcome = "failed" /\ c.retries[run.item] = 0
          BY <5>1 DEF FirstLife
        <5>3. QED BY <4>3, <4>7, <5>1, <5>2
      <4>8. QED
        BY <1>2, <1>5, <4>1, <4>2, <4>4, <4>5, <4>6, <4>7, WhoChangesRows
    <3>7. FirstLife => FirstLife'
      <4>1. ASSUME FirstLife, run'.pc = "fail"
            PROVE  latest'[run'.item].outcome = "failed" /\ c'.retries[run'.item] = 0
        BY <1>1, <3>1, <3>2, <4>1 DEF FirstLife, OutcomesKept, PlaybackInvariant, ItemInHand
      <4>2. QED BY <3>1, <3>6, <4>1 DEF FirstLife, OutcomesKept, Open
    <3>8. QED
      BY <1>1, <1>3, <2>1, <3>1, <3>4, <3>5, <3>6, <3>7 DEF EntriesInvariant, OutcomesKept
  <2>6. QED BY <2>2, <2>3, <2>4, <2>5
<1>6. QED BY <1>4, <1>5

\* An entry is true to what became of its item: where it was played to its end it
\* says so, also after a restart, and until the first restart an entry is open
\* only while its item can still be played.
THEOREM HistoryStaysTrue ==
  ASSUME LeftAlone, \A budget \in Budgets : budget["restarts"] \in {0, 1}
  PROVE  HSpec => []HistoryIsTrue
<1>1. HInit => EntriesInvariant /\ RowInHand
  <2>1. SUFFICES ASSUME HInit PROVE EntriesInvariant /\ RowInHand
    OBVIOUS
  <2>2. /\ latest = [id \in Ids |-> NoEntry] /\ behind = {} /\ NoEntry.outcome = "none"
        /\ run.pc = "select" /\ c.loadedID = None
        /\ c.retries = [id \in Ids |-> 0]
    BY <2>1 DEF HInit, Init, AtSelect, NewController, NoEntry
  <2>3. left["restarts"] \in {0, 1}
    BY <2>1 DEF HInit, Init
  <2>4. \A id \in Ids : db.st[id] \in {"queued", "absent"}
    BY <2>1 DEF HInit, Init, DbInit, InitialDb
  <2>5. OutcomesOK
    BY <2>2 DEF OutcomesOK
  <2>6. FirstLife
    BY <2>2, <2>4 DEF FirstLife
  <2>7. QED BY <2>2, <2>3, <2>4, <2>5, <2>6 DEF EntriesInvariant, RowInHand
<1>2. Init => AttributionInvariant
  BY AttributionInit
<1>3. PlaybackInvariant /\ AttributionInvariant /\ [Next]_vars => AttributionInvariant'
  BY AttributionStep
<1>4. PlaybackInvariant /\ AttributionInvariant /\ RowInHand /\ [Next]_vars => RowInHand'
  BY RowInHandStep
<1>5. PlaybackInvariant /\ AttributionInvariant /\ RowInHand /\ EntriesInvariant /\ [HNext]_hvars
      => EntriesInvariant'
  BY EntriesStep
<1>6. EntriesInvariant => HistoryIsTrue
  <2>1. SUFFICES ASSUME EntriesInvariant PROVE HistoryIsTrue
    OBVIOUS
  <2>2. left.restarts = left["restarts"]
    OBVIOUS
  <2>3. QED BY <2>1, <2>2 DEF EntriesInvariant, OutcomesOK, FirstLife, HistoryIsTrue
<1>7. QED
  BY <1>1, <1>2, <1>3, <1>4, <1>5, <1>6, HistoryIsPlayback, PlaybackSafe, PTL
     DEF Spec, HSpec
=============================================================================
