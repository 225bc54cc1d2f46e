------------------------------ MODULE Playback ------------------------------
(***************************************************************************)
(* The playback controller (internal/playback/controller.go) between the   *)
(* queue database and the player.                                          *)
(*                                                                         *)
(* One goroutine, run, alternates between ticks (reconcile) and events     *)
(* (handleEvent); Go's select picks either when both are ready. HTTP       *)
(* handlers call Pause, Resume, Stop and SetVolume concurrently with it,   *)
(* and users edit the queue in the database. Every section that holds      *)
(* Controller.mu, every transaction and every command to the player is one *)
(* step; what a goroutine read earlier it keeps in run or cmd[w].          *)
(*                                                                         *)
(* Request contexts are left out; stream titles and the listening history   *)
(* are the subject of History.                                             *)
(***************************************************************************)
EXTENDS QueueDb, Player

CONSTANTS
  Workers,     \* HTTP handlers that may run at once
  Kinds,       \* the commands the handlers issue: pause, resume, stop, volume
  CmdVolumes,  \* the volumes they ask for
  RetryLimit,  \* RASPI_MEDIA_PLAYER_PLAYER_RETRIES
  Backlog,     \* bound of the model: select takes no tick while more events wait
  Budgets      \* bounds of the model: how often the environment may act

ASSUME RetryLimitAssumption == RetryLimit \in Nat
ASSUME BacklogAssumption == Backlog \in Nat
ASSUME VolumesAssumption == CmdVolumes \subseteq Volumes
ASSUME KindsAssumption == Kinds \subseteq {"pause", "resume", "stop", "volume"}

BudgetKeys == {"edits", "commands", "crashes", "restarts", "stalls", "errors"}
ASSUME BudgetAssumption == Budgets \subseteq [BudgetKeys -> Nat]

VARIABLES
  c,      \* the fields of Controller that mu protects
  run,    \* the run goroutine: where it is and what it has read
  cmd,    \* per handler, the same
  left    \* what is left of the behaviour's budget

vars == <<db, mpv, state, events, c, run, cmd, left>>

NewController ==
  [loadedID |-> None, stopped |-> FALSE, desiredVolume |-> 0,
   commandedPause |-> None, retries |-> [id \in Ids |-> 0], backoff |-> FALSE]

NoEvent == EndEvent("ended", None)
AtSelect == [pc |-> "select", item |-> None, volume |-> 0, status |-> "idle",
             ev |-> NoEvent]
NoCommand == [pc |-> "none", paused |-> FALSE, volume |-> 0, previous |-> 0]

Init ==
  /\ DbInit /\ PlayerInit
  /\ c = NewController
  /\ run = AtSelect
  /\ cmd = [w \in Workers |-> NoCommand]
  /\ left \in Budgets

Spend(key) == left[key] > 0 /\ left' = [left EXCEPT ![key] = @ - 1]
RunAt(pc) == run.pc = pc /\ UNCHANGED <<cmd, left>>
Goto(pc) == run' = [run EXCEPT !.pc = pc]
Return == run' = AtSelect
Set(field, value) == c' = [c EXCEPT ![field] = value]

\* A command that mpv carries out, if Done, but that the caller sees fail: there
\* is no connection, or (bounded by "errors") mpv refuses it, or its answer does
\* not come in time, whether or not mpv has carried it out.
GivenUp(Done) ==
  \/ ~mpv.up /\ UNCHANGED <<mpv, left>>
  \/ Spend("errors") /\ (Done \/ UNCHANGED mpv)

Playable(i) == db.st[db.order[i]] # "failed"
FirstPlayable ==
  LET first == {i \in DOMAIN db.order :
                  Playable(i) /\ \A j \in 1..(i - 1) : ~Playable(j)}
  IN  IF first = {} THEN None ELSE db.order[CHOOSE i \in first : TRUE]
-----------------------------------------------------------------------------
(* reconcile                                                               *)

\* The ticker fires; Snapshot reads queue_state ...
Tick ==
  /\ RunAt("select") /\ ~c.backoff /\ Len(events) <= Backlog
  /\ run' = [run EXCEPT !.pc = "items", !.volume = db.volume,
                        !.status = db.status]
  /\ UNCHANGED <<db, playerVars, c>>

\* ... and then queue_items, on the same connection but in no transaction.
ReadItems ==
  /\ RunAt("items")
  /\ run' = [run EXCEPT !.pc = "decide", !.item = FirstPlayable]
  /\ UNCHANGED <<db, playerVars, c>>

\* Mutants: stopped is not looked at; a loaded item is never left for another.
DecideUnless(settled) ==
  /\ RunAt("decide")
  /\ Set("desiredVolume", run.volume)
  /\ IF settled THEN Return ELSE Goto("claim")
  /\ UNCHANGED <<db, playerVars>>
DecideWhileStopped == DecideUnless(run.item \in {None, c.loadedID})
DecideNeverLeaves ==
  DecideUnless(c.stopped \/ run.item = None \/ c.loadedID # None)

Decide ==
  /\ RunAt("decide")
  /\ Set("desiredVolume", run.volume)
  /\ LET rest == run.status \notin {"idle", "stopped"}
     IN  \/ /\ \/ c.stopped
               \/ (run.item = None /\ c.loadedID = None /\ ~rest)
               \/ (run.item # None /\ run.item = c.loadedID)
            /\ Return
         \/ ~c.stopped /\ run.item = None /\ c.loadedID # None /\ Goto("halt")
         \/ ~c.stopped /\ run.item = None /\ c.loadedID = None /\ rest /\ Goto("rest")
         \/ ~c.stopped /\ run.item \notin {None, c.loadedID} /\ Goto("claim")
  /\ UNCHANGED <<db, playerVars>>

\* Nothing is left to play: player.Stop, whose error is ignored.
Halt ==
  /\ run.pc = "halt" /\ UNCHANGED cmd
  /\ (MpvStops /\ UNCHANGED left) \/ GivenUp(MpvStops)
  /\ Goto("unload")
  /\ UNCHANGED <<db, state, events, c>>

Unload ==
  /\ RunAt("unload")
  /\ Set("loadedID", None)
  /\ IF run.status \in {"idle", "stopped"} THEN Return ELSE Goto("rest")
  /\ UNCHANGED <<db, playerVars>>

Rest ==
  /\ RunAt("rest")
  /\ DbResetPlayback("idle")
  /\ Return
  /\ UNCHANGED <<playerVars, c>>

Claim ==
  /\ RunAt("claim")
  /\ \/ DbSetCurrent(run.item) /\ Goto("resolve")
     \/ ~SetCurrentOK(db, run.item) /\ UNCHANGED db /\ Return
  /\ UNCHANGED <<playerVars, c>>

Resolve ==
  /\ RunAt("resolve")
  /\ \E next \in {"load", "reject"} : Goto(next)
  /\ UNCHANGED <<db, playerVars, c>>

\* The source did not resolve, or Load failed other than by ErrUnavailable.
Reject ==
  /\ RunAt("reject")
  /\ \/ DbFinishCurrent(run.item, TRUE)
     \/ ~FinishCurrentOK(db, run.item) /\ UNCHANGED db
  /\ Return
  /\ UNCHANGED <<playerVars, c>>

BeginLoad ==
  /\ RunAt("load")
  /\ LoadResetsState
  /\ Goto("send")
  /\ UNCHANGED <<db, mpv, c>>

SendLoad ==
  /\ RunAt("send")
  /\ \/ MpvLoads(run.item) /\ Goto("volume")
     \/ ~mpv.up /\ UNCHANGED mpv /\ Goto("unavailable")
  /\ UNCHANGED <<db, state, events, c>>

\* Any other error: no answer within five seconds, or a refusal.
LoadTimesOut ==
  /\ run.pc = "send" /\ Spend("errors")
  /\ MpvLoads(run.item) \/ UNCHANGED mpv
  /\ Goto("reject")
  /\ UNCHANGED <<db, state, events, c, cmd>>

LoadUnavailable ==
  /\ RunAt("unavailable")
  /\ DbResetPlayback("unavailable")
  /\ Return
  /\ UNCHANGED <<playerVars, c>>

\* An error of SetVolume is only logged.
RestoreVolume ==
  /\ run.pc = "volume" /\ UNCHANGED cmd
  /\ (MpvSetsVolume(run.volume) /\ UNCHANGED left) \/ GivenUp(MpvSetsVolume(run.volume))
  /\ Goto("commit")
  /\ UNCHANGED <<db, state, events, c>>

Commit ==
  /\ RunAt("commit")
  /\ Set("loadedID", run.item)
  /\ Return
  /\ UNCHANGED <<db, playerVars>>
-----------------------------------------------------------------------------
(* handleEvent                                                             *)

\* What UpdatePlayback stores: a pause that was commanded but not reported yet
\* overrides the report.
PublishedStatus(e, paused) ==
  CASE e.buffering -> "buffering"
    [] ~e.buffering /\ paused -> "paused"
    [] ~e.buffering /\ ~paused /\ e.status = "paused" -> "playing"
    [] OTHER -> e.status
Published(e) ==
  IF c.commandedPause = None THEN e
  ELSE [e EXCEPT !.paused = c.commandedPause,
                 !.status = PublishedStatus(e, c.commandedPause)]

\* Mutant: the report that confirms a command is not published.
HandleStateSilently(e) ==
  /\ c.loadedID # None /\ e.status # "unavailable"
  /\ IF e.paused = c.commandedPause
     THEN Return /\ Set("commandedPause", None)
     ELSE /\ run' = [run EXCEPT !.pc = "publish", !.ev = Published(e),
                                !.volume = c.desiredVolume]
          /\ UNCHANGED c

HandleState(e) ==
  LET idle == c.loadedID = None /\ e.status = "idle"
  IN  \/ /\ e.status = "unavailable"
         /\ Goto("down") /\ UNCHANGED c
      \/ e.status # "unavailable" /\ idle /\ Goto("rest") /\ UNCHANGED c
      \/ /\ e.status # "unavailable" /\ c.loadedID = None /\ ~idle
         /\ Return /\ UNCHANGED c
      \/ /\ e.status # "unavailable" /\ c.loadedID # None
         /\ run' = [run EXCEPT !.pc = "publish", !.ev = Published(e),
                               !.volume = c.desiredVolume]
         /\ IF e.paused = c.commandedPause THEN Set("commandedPause", None)
                                           ELSE UNCHANGED c

\* Mutants: one attempt too many; the file that failed stays the loaded one.
HandleEndOnceMore(e) ==
  LET id == c.loadedID
  IN  /\ run' = [run EXCEPT !.item = id, !.ev = e,
                   !.pc = IF e.type = "failed" THEN "retry" ELSE "finish"]
      /\ IF e.type = "failed" /\ c.retries[id] <= RetryLimit
         THEN c' = [c EXCEPT !.retries[id] = @ + 1, !.loadedID = None]
         ELSE UNCHANGED c
HandleEndStillLoaded(e) ==
  LET id == c.loadedID
      attempt == e.type = "failed" /\ c.retries[id] < RetryLimit
  IN  /\ run' = [run EXCEPT !.item = id, !.ev = e,
                   !.pc = IF attempt THEN "retry"
                          ELSE IF e.type = "failed" THEN "fail" ELSE "finish"]
      /\ c' = IF attempt
              THEN [c EXCEPT !.retries[id] = @ + 1, !.backoff = TRUE]
              ELSE [c EXCEPT !.retries[id] = 0]

HandleEnd(e) ==
  LET id == c.loadedID
      attempt == e.type = "failed" /\ c.retries[id] < RetryLimit
  IN  /\ run' = [run EXCEPT !.item = id, !.ev = e,
                   !.pc = IF attempt THEN "retry"
                          ELSE IF e.type = "failed" THEN "fail" ELSE "finish"]
      /\ c' = IF attempt
              THEN [c EXCEPT !.retries[id] = @ + 1, !.loadedID = None,
                             !.backoff = TRUE]
              ELSE [c EXCEPT !.retries[id] = 0]

\* The reads of loadedID and stopped are one step: no write of another
\* goroutine between them makes a difference to what follows.
HandleEvent ==
  /\ RunAt("select") /\ events # <<>>
  /\ events' = Tail(events)
  /\ LET e == Head(events)
     IN  \/ e.type = "state" /\ ~c.stopped /\ HandleState(e)
         \/ e.type # "state" /\ c.loadedID # None /\ HandleEnd(e)
         \/ /\ IF e.type = "state" THEN c.stopped ELSE c.loadedID = None
            /\ Return /\ UNCHANGED c
  /\ UNCHANGED <<db, mpv, state>>

\* Mutant: the controller still believes in the file.
PlayerDownUnnoticed ==
  /\ RunAt("down")
  /\ DbResetPlayback("unavailable")
  /\ Return
  /\ UNCHANGED <<playerVars, c>>

PlayerDown ==
  /\ RunAt("down")
  /\ DbResetPlayback("unavailable")
  /\ Goto("forget")
  /\ UNCHANGED <<playerVars, c>>

Publish ==
  /\ RunAt("publish")
  /\ DbUpdatePlayback(run.ev.status, run.ev.paused, run.ev.buffering, run.volume)
  /\ Return
  /\ UNCHANGED <<playerVars, c>>

Retry ==
  /\ RunAt("retry")
  /\ \/ DbRetryCurrent(run.item)
     \/ ~RetryCurrentOK(db, run.item) /\ UNCHANGED db
  /\ Return
  /\ UNCHANGED <<playerVars, c>>

\* The item has ended ("finish") or failed too often ("fail").
Finish(pc) ==
  /\ RunAt(pc)
  /\ \/ DbFinishCurrent(run.item, pc = "fail")
     \/ ~FinishCurrentOK(db, run.item) /\ UNCHANGED db
  /\ Goto("forget")
  /\ UNCHANGED <<playerVars, c>>

Forget ==
  /\ RunAt("forget")
  /\ Set("loadedID", None)
  /\ Return
  /\ UNCHANGED <<db, playerVars>>
-----------------------------------------------------------------------------
(* Pause, Resume, Stop and SetVolume, each called by a handler w.          *)

CmdAt(w, pc) == cmd[w].pc = pc /\ UNCHANGED <<run, left>>
CmdGoto(w, pc) == cmd' = [cmd EXCEPT ![w].pc = pc]
CmdReturn(w) == cmd' = [cmd EXCEPT ![w] = NoCommand]

Call(w, kind) ==
  /\ kind \in Kinds /\ cmd[w] = NoCommand
  /\ Spend("commands")
  /\ UNCHANGED run

\* Resume of a playback that is not stopped is a pause command too.
CallPause(w) ==
  /\ Call(w, "pause")
  /\ cmd' = [cmd EXCEPT ![w] = [NoCommand EXCEPT !.pc = "pause", !.paused = TRUE]]
  /\ UNCHANGED <<db, playerVars, c>>

CallResume(w) ==
  /\ Call(w, "resume")
  /\ CmdGoto(w, IF db.status = "stopped" THEN "unstop" ELSE "pause")
  /\ UNCHANGED <<db, playerVars, c>>

Unstop(w) ==
  /\ CmdAt(w, "unstop")
  /\ c' = [c EXCEPT !.loadedID = None, !.stopped = FALSE]
  /\ CmdGoto(w, "unstopped")
  /\ UNCHANGED <<db, playerVars>>

SaveUnstop(w) ==
  /\ CmdAt(w, "unstopped")
  /\ DbReconcilePlayback
  /\ CmdReturn(w)
  /\ UNCHANGED <<playerVars, c>>

LockPause(w) ==
  /\ CmdAt(w, "pause")
  /\ Set("commandedPause", cmd[w].paused)
  /\ CmdGoto(w, "pause_send")
  /\ UNCHANGED <<db, playerVars>>

SendPause(w) ==
  /\ cmd[w].pc = "pause_send" /\ UNCHANGED run
  /\ \/ /\ MpvSetsPaused(cmd[w].paused) /\ UNCHANGED left
        /\ CmdGoto(w, "pause_save") /\ UNCHANGED c
     \/ /\ GivenUp(MpvSetsPaused(cmd[w].paused))
        /\ Set("commandedPause", None) /\ CmdReturn(w)
  /\ UNCHANGED <<db, state, events>>

SavePause(w) ==
  /\ CmdAt(w, "pause_save")
  /\ DbSetPaused(cmd[w].paused)
  /\ CmdReturn(w)
  /\ UNCHANGED <<playerVars, c>>

CallStop(w) ==
  /\ Call(w, "stop")
  /\ CmdGoto(w, "stop_send")
  /\ UNCHANGED <<db, playerVars, c>>

\* A Stop that fails changes nothing but, perhaps, what mpv plays.
SendStop(w) ==
  /\ cmd[w].pc = "stop_send" /\ UNCHANGED run
  /\ \/ MpvStops /\ UNCHANGED left /\ CmdGoto(w, "stop")
     \/ GivenUp(MpvStops) /\ CmdReturn(w)
  /\ UNCHANGED <<db, state, events, c>>

LockStop(w) ==
  /\ CmdAt(w, "stop")
  /\ c' = [c EXCEPT !.loadedID = None, !.stopped = TRUE]
  /\ CmdGoto(w, "stop_save")
  /\ UNCHANGED <<db, playerVars>>

SaveStop(w) ==
  /\ CmdAt(w, "stop_save")
  /\ DbResetPlayback("stopped")
  /\ CmdReturn(w)
  /\ UNCHANGED <<playerVars, c>>

CallSetVolume(w) ==
  /\ Call(w, "volume")
  /\ \E v \in CmdVolumes :
       /\ cmd' = [cmd EXCEPT ![w] =
                    [NoCommand EXCEPT !.pc = "volume", !.volume = v,
                                      !.previous = c.desiredVolume]]
       /\ Set("desiredVolume", v)
  /\ UNCHANGED <<db, playerVars>>

SendVolume(w) ==
  /\ cmd[w].pc = "volume" /\ UNCHANGED run
  /\ \/ /\ MpvSetsVolume(cmd[w].volume) /\ UNCHANGED left
        /\ CmdGoto(w, "volume_save") /\ UNCHANGED c
     \/ /\ GivenUp(MpvSetsVolume(cmd[w].volume))
        /\ Set("desiredVolume", cmd[w].previous) /\ CmdReturn(w)
  /\ UNCHANGED <<db, state, events>>

SaveVolume(w) ==
  /\ CmdAt(w, "volume_save")
  /\ DbSetVolume(cmd[w].volume)
  /\ CmdReturn(w)
  /\ UNCHANGED <<playerVars, c>>
-----------------------------------------------------------------------------
(* Everything else.                                                        *)

\* A user, a vote or the auto-queue changes the list.
UserEdits ==
  /\ Spend("edits")
  /\ \/ \E id \in Ids : DbAdd(id) \/ DbRemove(id)
     \/ DbSkip
     \/ DbClear
     \/ \E ids \in [DOMAIN db.order -> Ids] : DbReorder(ids)
  /\ UNCHANGED <<playerVars, c, run, cmd>>

BackoffExpires ==
  /\ c.backoff
  /\ Set("backoff", FALSE)
  /\ UNCHANGED <<db, playerVars, run, cmd, left>>

PlayerReports ==
  /\ \/ (ReportProgress \/ ReportPause \/ ReportIdle) /\ UNCHANGED left
     \/ ReportBuffering /\ Spend("stalls")
  /\ UNCHANGED <<db, c, run, cmd>>

MediaEndsAs(type) == MediaEnds(type) /\ UNCHANGED <<db, c, run, cmd, left>>

PlayerCrashes ==
  /\ MpvCrashes /\ Spend("crashes")
  /\ UNCHANGED <<db, c, run, cmd>>

PlayerRestarts == MpvRestarts /\ UNCHANGED <<db, c, run, cmd, left>>

\* The jukebox process dies and is started again; mpv dies with it.
ProcessRestarts ==
  /\ Spend("restarts")
  /\ DbReconcilePlayback
  /\ mpv' = FreshMpv /\ state' = FreshState /\ events' = <<>>
  /\ c' = NewController
  /\ run' = AtSelect
  /\ cmd' = [w \in Workers |-> NoCommand]

RunStep ==
  \/ ReadItems \/ Decide \/ Halt \/ Unload \/ Rest \/ Claim \/ Resolve \/ Reject
  \/ BeginLoad \/ SendLoad \/ LoadTimesOut \/ LoadUnavailable \/ RestoreVolume
  \/ Commit \/ PlayerDown \/ Publish \/ Retry \/ Forget
  \/ \E pc \in {"finish", "fail"} : Finish(pc)

Calls(w) == CallPause(w) \/ CallResume(w) \/ CallStop(w) \/ CallSetVolume(w)

CommandStep(w) ==
  \/ Unstop(w) \/ SaveUnstop(w)
  \/ LockPause(w) \/ SendPause(w) \/ SavePause(w)
  \/ SendStop(w) \/ LockStop(w) \/ SaveStop(w)
  \/ SendVolume(w) \/ SaveVolume(w)

Next ==
  \/ Tick \/ HandleEvent \/ RunStep
  \/ \E w \in Workers : Calls(w) \/ CommandStep(w)
  \/ UserEdits \/ BackoffExpires
  \/ PlayerReports \/ PlayerCrashes \/ PlayerRestarts
  \/ \E type \in {"ended", "failed"} : MediaEndsAs(type)
  \/ ProcessRestarts

Spec == Init /\ [][Next]_vars

\* The goroutines and the handlers keep going, select is fair to the ticker and
\* to the channel, the back-off ends and supervise restarts mpv.
Fairness ==
  /\ WF_vars(RunStep) /\ SF_vars(Tick) /\ SF_vars(HandleEvent)
  /\ WF_vars(BackoffExpires) /\ WF_vars(PlayerRestarts)
  /\ \A w \in Workers : WF_vars(CommandStep(w))

FairSpec == Spec /\ Fairness

\* A paused mpv is resumed before the next item is claimed or loaded, and a
\* pause command fails only for want of a connection.
LoadsUnpaused == Claim \/ BeginLoad => ~mpv.paused
PausesSucceed == (\E w \in Workers : SendPause(w)) => UNCHANGED left
UnpausedSpec == Init /\ [][Next /\ LoadsUnpaused /\ PausesSucceed]_vars
-----------------------------------------------------------------------------
(* Properties.                                                             *)

RunPCs == {"select", "items", "decide", "halt", "unload", "rest", "claim",
           "resolve", "reject", "load", "send", "unavailable", "volume",
           "commit", "down", "publish", "retry", "finish", "fail", "forget"}
CmdPCs == {"none", "pause", "pause_send", "pause_save", "unstop", "unstopped",
           "stop_send", "stop", "stop_save", "volume", "volume_save"}

\* From the decision to load an item to the assignment of loadedID.
Loading == {"claim", "resolve", "load", "send", "volume", "commit"}

\* The type invariant of the controller, the player and the database together.
PlaybackTypeOK ==
  /\ DbTypeOK /\ PlayerTypeOK
  /\ c \in [loadedID: Ids \cup {None}, stopped: BOOLEAN, desiredVolume: Volumes,
            commandedPause: BOOLEAN \cup {None},
            retries: [Ids -> 0..RetryLimit], backoff: BOOLEAN]
  /\ run \in [pc: RunPCs, item: Ids \cup {None}, volume: Volumes,
              status: Statuses, ev: EventType]
  /\ cmd \in [Workers -> [pc: CmdPCs, paused: BOOLEAN, volume: Volumes,
                          previous: Volumes]]
  /\ left \in [BudgetKeys -> Nat]

\* The end or the failure of a file is booked on the item whose file it was.
EndsAreAttributed ==
  run.pc \in {"retry", "finish", "fail"} => run.ev.of = run.item

\* Nothing is under way, and mpv plays the item it should: no tick and no event
\* will change anything any more.
Steady ==
  /\ run.pc = "select" /\ events = <<>>
  /\ \A w \in Workers : cmd[w] = NoCommand
  /\ mpv.up /\ ~mpv.note
  /\ c.loadedID # None /\ c.loadedID = mpv.media /\ c.loadedID = FirstPlayable

\* The snapshot tells listeners whether the music is paused: late and repeated
\* reports of the player never leave a pause or a resume published wrongly.
PublishedPause ==
  Steady => /\ db.paused = mpv.paused
            /\ db.status = "paused" <=> mpv.paused /\ ~db.buffering

\* Once Stop has returned and the run goroutine is idle, nothing plays: "stopped
\* item reloaded" is a failure of TestControllerControlsAndStopResume. Violated: a
\* load that is under way when Stop comes is not taken back.
StoppedIsSilent ==
  /\ c.stopped /\ run.pc = "select"
  /\ \A w \in Workers : cmd[w] = NoCommand
  => mpv.media = None

\* "Finite media advances on end-of-file" and failures advance "after the
\* configured retry count" (docs/playback.md): if every file ends some time, the
\* playable items are all played out and the player comes to rest.
Drains == <>(FirstPlayable = None /\ c.loadedID = None /\ mpv.media = None)
=============================================================================
