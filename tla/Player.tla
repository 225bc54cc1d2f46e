------------------------------- MODULE Player -------------------------------
(***************************************************************************)
(* The player as its only user, the playback controller, meets it: the mpv *)
(* process, the driver's copy of mpv's state (internal/player/mpv.go) and  *)
(* the channel of events from the driver to the controller.                *)
(*                                                                         *)
(* mpv itself is not part of the repository; what it does here is what     *)
(* mpv.go relies on. The pause property survives loadfile and is notified  *)
(* only when it changes; a replaced or stopped file ends with a reason the *)
(* driver ignores. The seven notifications that follow a reconnection are  *)
(* represented by the state they end in. Titles are added by History; times *)
(* are left out.                                                           *)
(***************************************************************************)
EXTENDS Items, Integers, Sequences

CONSTANTS
  ChanCap,       \* capacity of the events channel (128 in the code)
  ProgressRoom   \* time-pos reports are sent while the channel is shorter

ASSUME ChanCapAssumption == ChanCap \in Nat /\ ProgressRoom \in Nat

VARIABLES
  mpv,      \* the process: up (connected), media (loaded and not ended),
            \* paused and volume (its properties), note (pause not yet notified)
  state,    \* MPV.state: status, paused, buffering
  events    \* MPV.events

playerVars == <<mpv, state, events>>

PlayerStatuses == {"idle", "loading", "playing", "paused", "buffering", "unavailable"}
EventType ==
  [type: {"state", "ended", "failed"},
   of: Ids \cup {None},           \* the media that ended: not a field of Event
   status: PlayerStatuses, paused: BOOLEAN, buffering: BOOLEAN]

PlayerTypeOK ==
  /\ mpv \in [up: BOOLEAN, media: Ids \cup {None}, paused: BOOLEAN,
              volume: 0..100, note: BOOLEAN]
  /\ state \in [status: PlayerStatuses, paused: BOOLEAN, buffering: BOOLEAN]
  /\ events \in Seq(EventType)
  /\ Len(events) <= ChanCap

FreshMpv == [up |-> TRUE, media |-> None, paused |-> FALSE, volume |-> 100,
             note |-> FALSE]
FreshState == [status |-> "idle", paused |-> FALSE, buffering |-> FALSE]

PlayerInit == mpv = FreshMpv /\ state = FreshState /\ events = <<>>

StateEvent(s) == [type |-> "state", of |-> None, status |-> s.status,
                  paused |-> s.paused, buffering |-> s.buffering]
EndEvent(type, id) == [type |-> type, of |-> id, status |-> "idle",
                       paused |-> FALSE, buffering |-> FALSE]
Unavailable == [FreshState EXCEPT !.status = "unavailable"]

\* emit never blocks: an event that finds the channel full is lost.
Emit(e) == events' = IF Len(events) < ChanCap THEN Append(events, e) ELSE events

\* The status that handleEvent derives after any property change.
DerivedStatus(s) ==
  CASE s.buffering -> "buffering"
    [] ~s.buffering /\ s.paused -> "paused"
    [] ~s.buffering /\ ~s.paused /\ s.status # "idle" -> "playing"
    [] OTHER -> "idle"
Derived(s) == [s EXCEPT !.status = DerivedStatus(s)]

Report(s) == state' = Derived(s) /\ Emit(StateEvent(Derived(s)))
-----------------------------------------------------------------------------
(* What mpv does by itself.                                                *)

ReportProgress ==
  /\ mpv.up /\ mpv.media # None
  /\ Len(events) < ProgressRoom
  /\ Report(state)
  /\ UNCHANGED mpv

ReportPause ==
  /\ mpv.up /\ mpv.note
  /\ Report([state EXCEPT !.paused = mpv.paused])
  /\ mpv' = [mpv EXCEPT !.note = FALSE]

ReportBuffering ==
  /\ mpv.up /\ mpv.media # None
  /\ Report([state EXCEPT !.buffering = ~@])
  /\ UNCHANGED mpv

\* core-idle turns true when nothing is loaded any more.
ReportIdle ==
  /\ mpv.up /\ mpv.media = None
  /\ Derived([state EXCEPT !.status = "idle"]) # state
  /\ Report([state EXCEPT !.status = "idle"])
  /\ UNCHANGED mpv

\* Mutant: a failure that mpv recovers from is reported as an end, too.
MediaEndsAgain(type) ==
  /\ mpv.up /\ mpv.media # None
  /\ type = "ended" => ~mpv.paused
  /\ Emit(EndEvent(type, mpv.media))
  /\ mpv' = IF type = "ended" THEN [mpv EXCEPT !.media = None] ELSE mpv
  /\ UNCHANGED state

\* end-file with reason eof or error. A paused file does not reach its end.
MediaEnds(type) ==
  /\ mpv.up /\ mpv.media # None
  /\ type = "ended" => ~mpv.paused
  /\ Emit(EndEvent(type, mpv.media))
  /\ mpv' = [mpv EXCEPT !.media = None]
  /\ UNCHANGED state

\* The process or the connection is lost; supervise tells the controller.
MpvCrashes ==
  /\ mpv.up
  /\ mpv' = [mpv EXCEPT !.up = FALSE, !.media = None, !.note = FALSE]
  /\ Emit(StateEvent(Unavailable))
  /\ UNCHANGED state

\* After the back-off, a new process and a new connection. paused-for-cache has
\* no value while nothing is loaded, so the driver may keep the old one.
MpvRestarts ==
  /\ ~mpv.up
  /\ mpv' = FreshMpv
  /\ \E buffering \in {FALSE, state.buffering} :
       Report([FreshState EXCEPT !.buffering = buffering])
-----------------------------------------------------------------------------
(* Commands. They fail with ErrUnavailable when there is no connection.    *)

\* MPV.Load resets the driver's state before it sends anything.
LoadResetsState ==
  /\ state' = [status |-> "loading", paused |-> FALSE, buffering |-> FALSE]
  /\ Emit(StateEvent(state'))

MpvLoads(id) == mpv.up /\ mpv' = [mpv EXCEPT !.media = id]
MpvStops == mpv.up /\ mpv' = [mpv EXCEPT !.media = None]
MpvSetsPaused(paused) ==
  /\ mpv.up
  /\ mpv' = [mpv EXCEPT !.paused = paused, !.note = @ \/ mpv.paused # paused]
MpvSetsVolume(volume) == mpv.up /\ mpv' = [mpv EXCEPT !.volume = volume]
=============================================================================
