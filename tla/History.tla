------------------------------- MODULE History ------------------------------
(***************************************************************************)
(* What the playback controller writes down: the listening history         *)
(* (RecordStarted, RecordTitleChanged and RecordFinished of                *)
(* internal/library/store.go, called by internal/playback/controller.go).  *)
(* Every step is a step of Playback with what it does to the titles on     *)
(* their way from mpv to the controller and to the entries.                *)
(*                                                                         *)
(* Only the run goroutine writes entries and lastTitle, so a call of the   *)
(* recorder and the statement before it that nobody else depends on are    *)
(* one step. An error of the recorder is only logged and is left out, as   *)
(* are attribution to a user, pruning by age, and the title of an entry    *)
(* once it is closed.                                                      *)
(***************************************************************************)
EXTENDS Playback

CONSTANTS
  Songs    \* what one stream announces, in this order

ASSUME SongsAssumption == Songs \subseteq Nat

VARIABLES
  title,      \* MPV.state.Title
  titles,     \* the titles in the channel, event by event
  heard,      \* the title that handleEvent publishes, and its loadedID
  lastTitle,  \* Controller.lastTitle
  latest,     \* per item, its latest row of playback_history
  behind      \* items with a row behind the latest that is still open

entries == <<latest, behind>>
recorded == <<title, titles, heard, lastTitle, entries>>
hvars == <<vars, recorded>>

Titles == Ids \X Songs
Nothing == [title |-> None, for |-> None]
NoEntry == [outcome |-> "none", title |-> None]

HInit ==
  /\ Init
  /\ title = None /\ titles = <<>> /\ heard = Nothing /\ lastTitle = None
  /\ latest = [id \in Ids |-> NoEntry] /\ behind = {}
-----------------------------------------------------------------------------
(* The recorder.                                                           *)

Entry(t) == [outcome |-> "playing", title |-> t]

\* The finished_at of the latest entry is NULL.
Open(id) == latest[id].outcome = "playing"
Close(id, outcome) == latest' = [latest EXCEPT ![id] = [outcome |-> outcome, title |-> None]]

\* Mutant: the entry of an attempt that failed is left as it is.
RecordStartedOnly(id) ==
  /\ latest' = [latest EXCEPT ![id] = Entry(None)]
  /\ behind' = IF Open(id) THEN behind \cup {id} ELSE behind

\* Every open entry of the item is closed first.
RecordStarted(id) ==
  /\ latest' = [latest EXCEPT ![id] = Entry(None)]
  /\ behind' = behind \ {id}

RecordFinished(id, outcome) ==
  /\ IF Open(id) THEN Close(id, outcome) ELSE UNCHANGED latest
  /\ UNCHANGED behind

\* The first title names the entry; another one closes it as completed and
\* starts a new one, or is dropped within five seconds of its start.
RecordTitleChanged(id, t) ==
  /\ \/ /\ Open(id) /\ latest[id].title \in {None} \cup (Titles \ {t})
        /\ latest' = [latest EXCEPT ![id] = Entry(t)]
     \/ /\ ~Open(id) \/ latest[id].title # None
        /\ UNCHANGED latest
  /\ UNCHANGED behind
-----------------------------------------------------------------------------
(* Titles on their way from mpv to the controller.                         *)

\* Each event carries the driver's title as it was when the event was emitted.
TitlesFollow ==
  titles' = CASE events' = <<>> -> <<>>
              [] events' # <<>> /\ Len(events') < Len(events) -> Tail(titles)
              [] Len(events') > Len(events) -> Append(titles, title')
              [] OTHER -> titles

\* Mutant: the driver keeps the title of the file before.
BeginLoadTitled ==
  /\ BeginLoad
  /\ UNCHANGED <<title, heard, lastTitle, entries>>
  /\ TitlesFollow

\* Load starts from an empty state.
BeginLoadUntitled ==
  /\ BeginLoad
  /\ title' = None /\ TitlesFollow
  /\ UNCHANGED <<heard, lastTitle, entries>>

\* What mpv may announce: its file, and never a song that is over.
Announced ==
  {t \in Titles : t[1] = mpv.media /\ (title # None /\ title[1] = t[1] => t[2] >= title[2])}

\* media-title changes, or something else does.
ReportTitled ==
  /\ PlayerReports
  /\ title' \in {title} \cup Announced
  /\ TitlesFollow
  /\ UNCHANGED <<heard, lastTitle, entries>>

CommitStarted ==
  /\ Commit
  /\ lastTitle' = None
  /\ RecordStarted(run.item)
  /\ UNCHANGED <<title, titles, heard>>

\* An end is recorded before the queue moves on.
Hear ==
  /\ HandleEvent
  /\ heard' = IF run'.pc = "publish"
              THEN [title |-> Head(titles), for |-> c.loadedID] ELSE Nothing
  /\ IF run'.pc \in {"finish", "fail"}
     THEN RecordFinished(run'.item, IF run'.pc = "fail" THEN "failed" ELSE "completed")
     ELSE UNCHANGED entries
  /\ UNCHANGED <<title, lastTitle>>
  /\ TitlesFollow

PublishTitled ==
  /\ Publish
  /\ IF heard.title \in {None, lastTitle}
     THEN UNCHANGED <<lastTitle, entries>>
     ELSE lastTitle' = heard.title /\ RecordTitleChanged(heard.for, heard.title)
  /\ heard' = Nothing
  /\ UNCHANGED <<title, titles>>

\* After an end, not after a crash of mpv.
ForgetTitle ==
  /\ Forget
  /\ lastTitle' = IF run.item # None THEN None ELSE lastTitle
  /\ UNCHANGED <<title, titles, heard, entries>>

Emits ==
  \/ \E type \in {"ended", "failed"} : MediaEndsAs(type)
  \/ PlayerCrashes \/ PlayerRestarts

Restart ==
  /\ ProcessRestarts
  /\ title' = None /\ titles' = <<>> /\ heard' = Nothing /\ lastTitle' = None
  /\ UNCHANGED entries

Silent ==
  \/ Tick
  \/ run.pc \notin {"load", "commit", "publish", "forget"} /\ RunStep
  \/ \E w \in Workers : Calls(w) \/ CommandStep(w)
  \/ UserEdits \/ BackoffExpires

HNext ==
  \/ BeginLoadUntitled \/ ReportTitled \/ CommitStarted \/ Hear \/ PublishTitled
  \/ ForgetTitle \/ Restart
  \/ Emits /\ UNCHANGED <<title, heard, lastTitle, entries>> /\ TitlesFollow
  \/ Silent /\ UNCHANGED recorded

HSpec == HInit /\ [][HNext]_hvars

\* As in Playback, and every file that plays ends some time: no live streams in
\* the queue.
FiniteHSpec == HSpec /\ Fairness /\ WF_vars(MediaEndsAs("ended"))
-----------------------------------------------------------------------------
\* An item that has left the queue was played to its end, and its history says
\* so in its latest entry, also if the process died between the two; every
\* earlier attempt is closed. As long as no restart has come between, the entry
\* of an item that failed is closed as well, unless its retry could not even be
\* loaded: then the entry of the attempt before stays open for good.
HistoryIsTrue ==
  /\ behind = {}
  /\ \A id \in Ids : db.st[id] = "deleted" => latest[id].outcome = "completed"
  /\ \A id \in Ids : db.st[id] = "failed" /\ latest[id] # NoEntry /\ left.restarts > 0 =>
       latest[id].outcome = IF c.retries[id] > 0 THEN "playing" ELSE "failed"

\* What a stream announces is written on its own row and into its own history,
\* but for titles that were on their way when it was loaded: a report carries
\* the title of another file only while the report of the load itself, which
\* has none, is still behind it in the channel.
LateTitlesOnly ==
  heard.title # None /\ heard.title[1] # heard.for =>
    \E i \in DOMAIN titles : titles[i] = None
=============================================================================
