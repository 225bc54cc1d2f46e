------------------------------ MODULE Stopping ------------------------------
(***************************************************************************)
(* Playback with the question whether mpv has the file that the controller *)
(* takes it to have: after Stop, which no pass of reconcile waits for,     *)
(* after commands that fail although mpv carries them out, and after ends  *)
(* and crashes that are handled late.                                      *)
(*                                                                         *)
(* Every step is a step of Playback. The history variable astray names the *)
(* accidents that the code does not repair by itself, from the step where  *)
(* one happens to the next load or stop that succeeds.                     *)
(***************************************************************************)
EXTENDS Playback

VARIABLE astray

svars == <<vars, astray>>

SInit == Init /\ astray = FALSE

\* A Stop has silenced mpv but not told the controller yet.
StopUnderWay == \E w \in Workers : cmd[w].pc = "stop"

\* The load that run is about to send, or has sent, does not take notice of a stop.
Crossing ==
  \/ run.pc \in Loading /\ \E w \in Workers : LockStop(w)
  \/ SendLoad /\ run'.pc = "volume" /\ StopUnderWay

\* The caller was told that the command failed, and mpv has carried it out.
Misreported ==
  /\ LoadTimesOut \/ \E w \in Workers : SendStop(w) /\ cmd'[w] = NoCommand
  /\ mpv'.media # mpv.media

\* An end that belongs to the file before, a crash that is over or a stop that
\* has failed makes the controller forget a file that mpv has.
Forgotten == c.loadedID # None /\ c'.loadedID = None /\ mpv'.media # None

\* The channel is full when mpv ends a file or dies.
Lost ==
  /\ Len(events) = ChanCap
  /\ PlayerCrashes \/ \E type \in {"ended", "failed"} : MediaEndsAs(type)

GoesAstray == Crossing \/ Misreported \/ Forgotten \/ Lost

Recovers ==
  \/ SendLoad /\ run'.pc = "volume" /\ ~c.stopped /\ ~StopUnderWay
  \/ run.pc \notin Loading /\ \E w \in Workers : SendStop(w) /\ cmd'[w].pc = "stop"
  \/ ProcessRestarts

SNext ==
  /\ Next
  /\ astray' = (~Recovers /\ (astray \/ GoesAstray))

SSpec == SInit /\ [][SNext]_svars
FairSSpec == SSpec /\ Fairness
-----------------------------------------------------------------------------
\* Stop silences mpv until Resume, although reconcile and the handlers
\* interleave at every step: only a load that was under way when Stop came, or
\* an earlier accident that Stop did not undo, plays on.
StopSilences == c.stopped => mpv.media = None \/ astray

\* An event in the channel that makes handleEvent forget what is loaded.
WillForget(e) == e.type # "state" \/ e.status = "unavailable"

\* The run goroutine is between a command that changes what mpv has loaded, or
\* the event that says so, and the assignment of loadedID that follows it.
Reloading == run.pc \in {"volume", "commit", "unload", "down", "finish", "fail", "forget"}

\* The controller knows what mpv has loaded, or is about to learn it. Otherwise
\* reconcile would find next.ID == loadedID on every tick and the house would
\* stay silent with a full queue, or mpv would play on with an empty one.
KeepsTrack ==
  \/ c.loadedID = mpv.media
  \/ Reloading
  \/ \E i \in DOMAIN events : WillForget(events[i])
  \/ StopUnderWay
  \/ astray

\* Edits, commands, crashes and failures end with the first playable item in
\* mpv, or with silence when there is none: "The first playable queued item
\* loads automatically". Only Stop, or an accident after the last load and the
\* last stop, keeps it from doing so.
Settles == <>[](c.stopped \/ astray \/ (c.loadedID = FirstPlayable /\ mpv.media = FirstPlayable))
=============================================================================
