# The jukebox in TLA+

Models, model-checking configurations and proofs for `raspi-media-player`: a
house-wide music player, one Go process that keeps a queue in SQLite, drives one
mpv process, and is edited by everybody in the house over HTTP.

Paths below are relative to the repository (`internal/...`). Properties are
named as in the modules; each carries a comment that says what it promises.

## 1. Inventory

| Component | State | Operations | Interacts with |
|---|---|---|---|
| queue store, `internal/queue/store.go` | rows of `queue_items` (id, URL, position, playback status), one row of `queue_state` (revision, current item, published playback state) | AddSourceTitled, Remove, Skip, Clear, Reorder; SetCurrent, FinishCurrent, RetryCurrent, ResetPlayback, ReconcilePlayback, UpdatePlayback, SetVolume, SetPaused; Snapshot | everything below, through one SQLite connection (`internal/database/database.go`) |
| queue API, `internal/app/queue.go` | none of its own but the rate limiter; the client holds a snapshot | add, remove, skip, clear, reorder with `If-Match` | queue store |
| votes, `internal/app/voting.go` | removal votes per item, skip votes, who was seen when | vote, prune, decide | queue store, sessions |
| playback controller, `internal/playback/controller.go` | loadedID, stopped, desiredVolume, commandedPause, retries, back-off | reconcile (every tick), handleEvent, Pause, Resume, Stop, SetVolume, Seek, Close | queue store, mpv driver, listening history |
| mpv driver, `internal/player/mpv.go` | the derived playback state, the pending requests, the events channel | supervise, runOnce, readLoop, handleEvent, send, emit | mpv over its IPC socket; the controller |
| auto-queue, `internal/autoqueue/engine.go` | the users' turns, the settings it reads | Refill: choose, search, add, stamp | queue store, sessions, history, yt-dlp |
| library and history, `internal/library/store.go` | listening history; favourites, playlists, stations, likes | RecordStarted, RecordFinished, RecordTitleChanged | the controller, auto-queue |
| metadata enrichment, `internal/enrichment` | `media_enrichments`, the keys in flight, the slots, the image files | Lookup, fetch, Prune | providers over HTTP, the controller's titles |
| accounts, sessions, settings, `internal/auth`, `internal/settings`, `internal/app/auth.go`, `internal/app/admin.go` | users, sessions, `installation_state`, settings; copies of two of them in memory | first-run set-up, sign up, log in and out, change of role, settings | every handler |
| sources and search, `internal/source`, `internal/youtube` | none | resolve a URL, search | the controller, auto-queue |
| the rest: HTTP server, event stream, web page, wiring, scripts | none that outlives a request (the page holds a snapshot) | | |

What is hard in this program is that nobody owns the playback. The queue may
change at any moment under the controller; the controller learns what mpv did
from a bounded channel of events that name no item; HTTP handlers call into the
controller while it is in the middle of loading; the database is read by two
separate queries; mpv, and the whole process, may die and be restarted at any
step. The properties that make the parts correct:

* store: a row is listed once, positions are 0, 1, 2, ..., `current_item_id`
  and the rows' statuses agree, the revision names one list, a transaction that
  fails half-way leaves nothing behind;
* API: an accepted edit changes exactly the list its author has seen;
* controller and player: the controller knows what mpv has loaded; an end is booked on
  the item that ended; failed items are retried so often and then left; stop means
  silence until resume; what is published is what is heard; in the end the first
  playable item is in mpv, and a queue of finite media plays out;
* votes: a majority is heard, a round takes the song it is about and only that one,
  a vote counts for what its voter saw;
* auto-queue: no more songs ahead than the depth asks for, listeners take turns;
* history: an item that left the queue was played to its end and its latest entry says
  so; what a stream announces is written on its own row;
* enrichment: one fetch per song at a time, no slot is lost, a valid result is not
  replaced by a lookup that had seen it, a song that is asked for is answered;
* accounts: one installation, always an administrator, the access mode that was chosen;
* driver: a reply reaches the call it answers, no channel has two writers, every call
  returns, a driver that is closed comes to its end.

Every place where one of these could go wrong is in `PROJECT.json` under
"hazards", with its line.

## 2. Modules

```
Items ── QueueStore ──┬── QueueDb ──┬── QueueApi ── MCQueueApi
  │                   │             ├── Voting ── MCVoting
  │                   │             ├── AutoQueue ── MCAutoQueue
  │                   │             └── Playback ──┬── MCPlayback ──┬── MCStopping
  │                   │                            ├── Stopping ────┤
  │                   └── QueueRows ── MCQueueRows └── History ─────┴── MCHistory
  └── Player ── (Playback composes QueueDb and Player)

Enrichment ── MCEnrichment    Accounts ── MCAccounts    MpvDriver ── MCMpvDriver
```

MCStopping extends Stopping and MCPlayback, MCHistory extends History and MCPlayback.
QueueApi, Voting, AutoQueue and Playback implement QueueDb (proved), and so does
QueueRows, except where a compaction is cut short. The last line has components that
share no state with the queue. `X_proofs` has the proofs of module X, with two
exceptions: `QueueUsers_proofs` has those of QueueApi and AutoQueue, and
`Playback_proofs` those of Playback, Stopping and History.

* **QueueStore** has the store's transactions as operators on a record: `XOK(d, ..)`
  says that transaction X commits, `X(d, ..)` is what it commits. No variables.
* **QueueDb** is the abstract specification of the database: any transaction, in
  any order, one at a time (`SetMaxOpenConns(1)`).
* **QueueRows** opens the transactions that add, delete and reorder rows: one step
  per SQL statement, on a copy of the database that becomes the database at COMMIT.
  The order is no longer a sequence but the UNIQUE column `position`, with
  `compact`'s and `Reorder`'s detour through negative numbers. `Rollback` may happen
  at any statement. `List` may read some of the ids only: `compact` does not ask
  `rows.Err()`, and then commits a renumbering of those (store.go:389-397). The history
  variable `cutShort` says that the last one did. The refinement mapping is
  `Seen(disk)`: the rows in the order of their positions. The modules that build on
  QueueDb have complete compactions.
* **QueueApi** has the clients: `ReadState` and `ReadItems` are the two queries of
  `Snapshot`, `Edit` is `mutate` with its comparison of revisions, `Submit` the add
  handler, and `Controller` every transaction that the playback side may issue.
* **Voting** has the vote handlers as processes (`ReadState`, `ReadItems` with the
  policy, `Record` and `Count` for the two critical sections of `setVote`, `Commit` or
  `Refuse` for the transaction, `ClearVotes`), and the vote manager's two maps as ages
  in ticks. An entry older than its limit counts as absent, which is what `state`
  makes of it before it counts. A listener presses a button on a page that is fresh
  (`Send`); a stale page is a request that takes long to arrive. Everybody else is
  `Show`, `Tick`, `Configure`, `Claim` and `OtherTransaction`.
* **AutoQueue** has one refill at a time as a process over the database: `Begin` is the
  snapshot that decides how many songs are missing, `Choose` the head of the loop,
  `Turn` is `fairUser` with `userPreferences`, `Add` and `Fruitless` are what a search
  leads to, `Mark` stamps the turn. Turns are compared as the code compares them, as
  RFC3339Nano text. The texts of different seconds are ordered as the seconds are, those
  of one second are not ordered as time goes (05Z is behind 05.9Z, 05.1Z behind 05.12Z):
  a stamp is the place of its text among all texts, and `Stamp` takes any, because the
  wall clock may read the same twice and be set back. `fairUser` does not ask
  `rows.Err()` either (engine.go:215): `Picked` is the listener with the oldest turn or,
  when reading ends early, anybody on the list. `Listener`, `Play` and
  `OtherTransaction` are everybody else.
* **Player** is mpv, the driver's state and the events channel as the controller
  meets them. What mpv does is external to the repository and modelled from what
  `mpv.go` relies on: pause survives `loadfile`, is notified when it changes, and a
  replaced file ends with a reason that the driver ignores.
* **Playback** composes the database, the player, the goroutine `run` and the HTTP
  handlers. A step is what happens without anybody else being able to look: a
  section under `Controller.mu`, a transaction, a command to mpv. `run.pc` is the
  place in `reconcile` or `handleEvent`, named after what comes next; the rest of
  `run` is what the goroutine has read and still uses (`item`, `volume`, `status` of
  the snapshot; `ev`, the event with `Event.State` merged in). `cmd[w]` is the same
  for a handler.
  Which file an event is about (`ev.of`) is a history variable: the code's `Event`
  has no such field, and no guard looks at it. `GivenUp` is how a command fails
  (mpv.go:301-313): without a connection, or with mpv up, which refuses it or is too
  late with its answer, and which has then carried it out or not. A command that is
  answered too late takes effect before its caller gives up, or never.
* **Stopping** extends Playback by a history variable, `astray`, and changes no step. It
  becomes true with an accident that the code does not repair by itself, and false with
  the next load or stop that succeeds. The accidents are: a stop that crosses a load
  (`Crossing`); a load or stop that was reported as failed and carried out
  (`Misreported`); an end, a crash or a stop of which the controller learns, or which it
  gives up, when mpv already has another file (`Forgotten`); and an end or a crash that
  finds the channel full (`Lost`). Everything else, in any interleaving, is what the
  properties are about.
* **History** extends Playback: every step is a step of Playback together with what it
  does to the titles on their way (`MPV.state.Title`, the title each event in the channel
  carries, `lastTitle`) and to the rows of `playback_history`. The recorder is called by
  the `run` goroutine only, so its transaction is part of the step before it.
* **MpvDriver** opens what Player takes for granted, the correlation of calls and replies:
  request ids, `MPV.pending`, the buffered channel of each call, the reader that takes a
  channel out of the map under the mutex and sends outside of it, `clearConnection`, and
  `runOnce` with the supervisor's own seven calls. Player has what a reply or an event
  means; MpvDriver has whose reply it is.
* **Enrichment** has lookups (`Read`, `PutPending`, then `Start` or `LeaveToOther`, the
  section under the mutex) and the goroutine `fetch` (slot, providers, result, and the
  deferred functions last to first). The row of the cache is read and written outside of
  the mutex. Time is `Expire`; a restart keeps rows and forgets goroutines.
* **Accounts** has requests in three steps, as the code makes three separate queries:
  `Arrive` (authenticate), `Check` (middleware and the handler's first questions) and the
  transaction. The set-up has two more, `SaveChoice` (settings.Set) and `Open` (the copies
  in memory). SETUP_REQUIRED is true, its default.

Correspondence of `Playback` with the code:

| Code | Actions |
|---|---|
| `reconcile`: snapshot, first playable, decision | Tick, ReadItems, Decide |
| nothing to play | Halt, Unload, Rest |
| load | Claim, Resolve, BeginLoad, SendLoad, RestoreVolume, Commit; the error paths Reject, LoadTimesOut, LoadUnavailable |
| `handleEvent` | HandleEvent (HandleState, HandleEnd), then Publish, PlayerDown, Retry, Finish, Forget |
| `Pause`, `Resume` | CallPause, CallResume, LockPause, SendPause, SavePause, Unstop, SaveUnstop |
| `Stop`, `SetVolume` | CallStop, SendStop, LockStop, SaveStop; CallSetVolume, SendVolume, SaveVolume |
| everybody else | UserEdits, BackoffExpires, PlayerReports, MediaEndsAs, PlayerCrashes, PlayerRestarts, ProcessRestarts |

## 3. Runs

| Run | Instance | Shows |
|---|---|---|
| `queue_api` | two clients, three items of which two have the same URL, limit 3, revision up to 6 | with torn snapshots, anyone's edits and the controller's transactions: types, snapshots that are current are right, rows and `current_item_id` agree, an edit acts on what was seen, the revision names the list, a failed row stays failed |
| `queue_rows` | three rows of four ids, two with the same URL, up to two edits, rolled back at any statement, with compactions that read as many ids as they like (15,307 states) | unless a compaction was cut short: positions are dense, no statement meets a taken position in whatever order SQLite visits the rows, and each edit is the one step that QueueDb says, or none; and the next complete one makes up for it |
| `voting` | two listeners, one of them the owner of an item; two requests to skip, to withdraw that vote, or to remove; presence lasts one tick and votes two; the controller starts items, and one other transaction or change of the policy comes at any step | an accepted skip takes the song voted on, however many requests counted its votes; no majority goes unheard |
| `auto_queue` | two listeners, four songs, a depth of 2, two searches per song, two seconds with two texts each, one disturbance (2,927,781 states) | whatever is played, failed, retried, added or removed during a refill, no more of the engine's songs wait than the depth says; nobody has a second turn, stamped in a later second, before a listener with a claim has one |
| `playback_unattended` | History: two finite items with two titles each, one retry; one stall of the cache and one restart of the process, or one change of the volume (699,462 states) | every end is booked on its item; the history says what was heard; only titles that were on their way at a load can miss their row; everything is played out (liveness) |
| `playback_disturbed` | Stopping: two items, one retry, a channel of three events; at any steps two stops or resumes, or an edit with a crash of mpv, a restart of the process or a command that fails with mpv up, or such a failure with a crash, a restart, a stop or a resume (869,276 states) | stop silences; the controller keeps track of what mpv has loaded, and the first playable item ends up in mpv (liveness), all of it but for the accidents that Stopping names |
| `playback_pause` | two items, three pauses and resumes, or two with an edit or a stall of the cache; nothing is claimed or loaded while mpv is paused, and pause commands are answered while mpv is up (2,090,254 states) | what is published about the pause becomes true once the events are handled |
| `mpv_driver` | one caller besides the supervisor, three ids in use at a time, one property observed, one call that gives up although mpv lives | every channel has one writer; a success was mpv's; every call returns without needing its timeout and a closed driver finishes (liveness) |
| `enrichment` | two songs, two lookups, two goroutines, one slot, one restart or failure of the database | slots and keys in flight are accounted for; only a lookup that was late replaces a result; what is asked for is answered (liveness) |
| `accounts` | two accounts, sessions and requests, two access modes, two restarts or failed writes of a setting | one installation, roles only from administrators, always an administrator, the chosen mode in force |

Two more runs end in a counterexample, `vote_carried_over` against a sentence of the
docs and `stop_overtaken` against a test; section 6 explains them.

**Bounds.** `Budgets` says how often the environment may act (edits, commands,
crashes, restarts of the process, stalls, timeouts); the program itself is not
bounded. The events channel holds 8 entries instead of 128 and 16 in `playback_pause`,
where it is never full: `ProgressRoom` and `Backlog` keep the backlog short (a periodic
`time-pos` report adds nothing to the ones that wait already, and `select`, which is
random, takes a tick while at most `Backlog` events wait). In `playback_disturbed` it
holds 3, and overflows. The budgets of that run are pairs, which meet at any two steps;
the pairs that are missing (an edit and a stop, a crash and a restart), and any number of
everything, are in the proofs of its two invariants, but not in `Settles`. Two items are enough for "the wrong
item" and for the one behind a failure. One handler is
enough for what a handler does to `run`; the proofs are for any number of them, except
`PlaybackPublishedPause`, which has a single one. In `playback_pause` a queue that is
paused between two items loads nothing more, which is why that run does not ask for
deadlocks.
`MaxRev` bounds the edits of `queue_api` and `queue_rows`. In `voting`, `Requests`
bounds the requests and `Disturbances` what others do besides starting items; two
votes reach the threshold of two listeners at 75 %, so that two requests can meet in
every step between a vote and its edit. "unremove" differs from "unskip" only in the
key of the vote and is left to the proof. In `auto_queue` the clock reads any of
`MaxSecond` seconds, with `Fractions` different texts in each: two seconds are an earlier
and a later one, and two texts can be equal, in the order of time, and against it. Four
songs are two more than the depth. In `mpv_driver` three ids are one for each of the two callers
and one for a late reply to a call that gave up; a driver that was closed may stop, so
that run does not ask for deadlocks either. One slot for two goroutines is the limit at
its tightest, and two lookups per song are what it takes to write over a result.

**Specifications other than `Spec`.** `FairSpec` adds fairness. `FiniteHSpec` (History)
adds that files end by themselves (no radio). `SSpec` and `FairSSpec` (Stopping) only add the
history variable. `UnpausedSpec` (Playback) restricts the code: nothing is claimed or
loaded while mpv is paused, and a pause command fails only for want of a connection.
Without either, what is published of the pause may stay wrong, and section 6 shows how;
the restrictions delimit what the code does guarantee.

**Fairness.** The goroutines are always scheduled (`WF` of every step of `run` and of
the handlers). Go's `select` chooses among ready cases at random, so that with
probability 1 neither the ticker nor the channel is passed over forever: `SF` of
`Tick` and of `HandleEvent`, each of which is disabled whenever `run` is busy. The
back-off has a deadline, and `supervise` restarts mpv in a loop until the process
stops. No fairness is assumed of users, failures, or mpv's reports.

In `mpv_driver` the goroutines run and a living mpv executes and answers (`WF`); nothing
is assumed of a caller's five seconds, so that `EveryCallReturns` says that they are not
needed. Only the supervisor's own calls may need them, when mpv has died before
`runOnce` watches it. In `enrichment` lookups and goroutines run, rows age (`WF` of
`Expire`), a title on display is asked for again and again whatever else is (`SF` of
`AskFor`: the controller observes the title with every state event), and who waits for
a slot gets one in turn, which is what a channel does (`SF` of `TakeSlot`).

## 4. Proofs

tlapm checks these for every set of items, clients and handlers, every limit, retry
limit, channel capacity and budget. The assumptions are the ones named in the
modules (limits are natural numbers, the initial queue lists no URL twice).

* **QueueDb_proofs.** `DbSafe`: in every behaviour of the database, types,
  `RowsListedOnce` and `CurrentAgrees`. `DbInv` is inductive as it stands; the
  lemmas, one per transaction, show that a record that satisfies it is taken to one
  that does (the core is that `RemoveAt` deletes exactly one listing). From it,
  `DbRevisionNamesList` and `DbFailedStays`.
* **QueueUsers_proofs**, the clients. `ApiImplementsDb`: every step of the clients and the
  controller is a step of `QueueDb` or leaves the database alone, so that the facts
  about the database carry over. `ApiSnapshotsSound` needs a strengthening: besides
  "a snapshot with the database's revision lists the queue", no client is ahead of
  the database (`NeverAhead`); with `RevisionNamesList` for one step the pair is
  inductive. `ApiEditsActOnWhatWasSeen` follows.
* **QueueUsers_proofs**, the auto-queue. `AutoImplementsDb`. `AutoNeverTooFarAhead`: a
  refill adds one song at a time, so that what must be bounded at every step is the
  engine's songs that wait plus those the refill still means to add (`AheadBounded`); the
  one song more is the one that plays. `AutoNobodyPassedOver`, for any readings of the
  clock and any incomplete reads of the turns: a listener who has passed over the watched
  one has the younger text since, is not picked before it from a list that both are on,
  and has not passed over it when picked (`TurnsFair`); the one who is picked without
  having the oldest turn starts afresh in the count.
* **QueueRows_proofs.** `RowsDense` and `RowsPositionsFree`, for any number of rows, as
  long as no compaction was cut short (`cutShort`); what such a one commits is in
  section 6. Neither is inductive: a transaction is half done most of the time.
  `RowsInvariant` says, for each statement that can come next, where the rows are
  (`RowsAt`): after
  the rows were made negative, those already numbered are at 0, 1, .. and the others
  below zero; while rows are placed in a new order, those placed are at -1, -2, .. and
  the others at zero or above. The two facts the steps rest on are that a listing
  without repetition of as many ids as there are rows lists every row (`ListsAll`),
  and that numbering such a listing leaves the positions dense.
  `RowsRefineDb`: from dense positions to dense positions the transactions implement
  `QueueDb`, under the mapping `Seen(disk)`.
  Only COMMIT changes `disk`, and what it commits must be one edit of the list that was
  there at BEGIN: `TracksInvariant` says what the open transaction has made of it so far
  (which rows are gone, that the rest keep their order, that the other columns are
  untouched), until at `bump` and `commit` the copy is the result of an edit of `QueueDb`.
  The order of a table is a choice (`OrderOf`); that rows numbered 0, 1, .. have just one
  (`OrderedUnique`, `NumberedOrder`) is what makes the mapping a function of the rows.
* **Playback_proofs**, for every behaviour. `PlaybackTypeCorrect`, including
  `retries <= RetryLimit` and the capacity of the channel. It needs two more facts to be
  inductive: the item in hand is not `None` wherever a transaction on it comes next, and so
  is `loadedID` at `forget`. `PlaybackImplementsDb` (a step and its stutterings), hence
  `PlaybackDbSafe` and `PlaybackFailedStays`. And `PlaybackStopSilences` and
  `PlaybackKeepsTrack`, of `SSpec`, for any number of handlers, commands, edits, failures
  and crashes, and any capacity of the channel. `Tracking` is what makes them inductive:
  as long as nothing is astray, a stop under way and a stopped controller have mpv silent
  and no load under way (`StopHeld`, `StoppedHeld`), mpv has what a load is about to
  commit, unless an event that says otherwise is in the channel (`LoadHeld`), and it has
  nothing when the controller takes it to have nothing (`NoneForgotten`).
* **Playback_proofs**, under the conditions that the runs have as well, each of which is
  needed (section 6 has what happens without it), and otherwise for any queue, budget,
  retry limit and capacity:
  - `PlaybackPublishedPause`, for `UnpausedSpec` with a single handler, without "stop", as
    long as the channel has room, mpv does not crash and no pause command fails with mpv
    up; loads may fail or time out, items be edited, retried and resumed after a restart of the process. `PauseInvariant`: what is
    stored about the pause, or about to be (in the driver's copy, in `run`'s, in the
    handler's), is true unless the truth is on its way, which is mpv's notification, a
    report in the channel, or a handler that is about to send a command.
  - `PlaybackEndsAreAttributed`, `HistoryLateTitlesOnly` and `HistoryStaysTrue`, for
    playback that is left alone (`LeftAlone`: no edits, commands, crashes, or loads that
    time out; failures, stalls, retries and restarts as many as there are). The titles
    need room in the channel; the history has at most one restart, because an entry that a
    restart leaves open is closed by nothing but another attempt. `AttributionInvariant`:
    at most one end is in the channel, and it is the end of the file mpv was told to load
    last (`OneEnd`); nobody jumps the queue (`InOrder`). `TitlesInvariant`: a title of
    another file in the channel has the empty report of the load behind it.
    `EntriesInvariant` relates the latest entry of each item to its row.

* **Voting_proofs.** `VotingTypeCorrect`, `VotingImplementsDb` and
  `VotingFailedStays` for any household, `VotingOneSongPerRound` and
  `VotingMajorityIsHeard`. The invariant behind the former of these says of each request
  that it is not ahead of the database and that, if its revision is still the database's,
  the list it has read is the queue. That the transactions stay within `QueueDb` needs
  the type invariant (what is removed is an item), and the type of the database needs the
  transactions: they are proved together, `VotingStepIsDbStep` first. A majority is heard
  because the request that recorded the vote that makes it is still on its way to count,
  to edit, or to be told no (`MajoritiesHeard`), and what ages are only votes that go.

* **Accounts_proofs.** `AccountsTypeCorrect`, `AccountsKeepAnAdmin`,
  `AccountsChoiceInForce` and `AccountsInstalledOnce`, for any number of accounts,
  sessions, requests and restarts. The strengthening is what a request knows when it
  acts (`Rights`: whoever acts does so after the installation, unless it is the set-up;
  who gives roles came as an administrator) and where the choice of the wizard is
  between its steps (`Choice`: stored, or still with its request).
* **Enrichment_proofs.** `EnrichmentOneFetchPerKey`, `EnrichmentSlotsAccounted` and
  `EnrichmentTypeCorrect`, for any number of songs, lookups, goroutines and slots. They
  are inductive together; the counting rests on the library's facts about cardinalities.
  `EnrichmentResultsAreKept` needs `NothingOverlooked`: a lookup that is about to write
  found no valid result, or is late.
* **MpvDriver_proofs.** `MpvDriverTypeCorrect`, `MpvDriverOneWriter` (inductive as it
  stands) and `MpvDriverSuccessIsMpvs`, for any number of callers, ids and timeouts. The
  last needs that two calls never wait for one id (`OwnIds`) and that not only a channel
  but also a reply on its way to it tells the truth (`Honest`).

TLC only: what is liveness (`Drains`, `Settles`, `PendingIsAnswered`, `EveryCallReturns`,
`CloseFinishes`), which needs fairness and ENABLED.

## 5. Not modelled

* Seek changes no state of the controller; to the driver it is a call like any other.
* The context of a request in the playback handlers: a client that leaves between the
  command to mpv and the transaction makes the latter fail, so that, for one, Stop leaves
  `stopped` set without "stopped" in the database, which Resume then does not undo.
* Media positions, error texts and the wording of titles. Titles exist in History only,
  as what a file announces in its order.
* Framing of JSON lines between mpv and the driver; a line that cannot be read is `Die`.
* The search of the auto-queue: which artist, which song. It is found or not. Likes,
  favourites, playlists and stations are single statements on rows of one's own.
* The image cache on disk, the parsing of titles and the merging of what providers say.
* Passwords, the CSRF value, encryption of settings, validation, and the rate limiters.
* HTTP routing, the event stream (it sends the snapshot whose tearing QueueApi has),
  logging, the web page's rendering, the wiring in `cmd/raspi-media-player`, scripts.
* A data race: the set-up writes `options.AccessMode` without a lock while handlers read
  it (admin.go:84). Accounts has the write as one step: a string header
  torn between two constants is not modelled.

## 6. Where the code does less than the docs say

Checked by a run that ends in a violation:

* `vote_carried_over`. voteToSkip records the vote on what is current when the request
  is handled, and compares the revision only in Skip (voting.go:173, 191, 193). A vote
  for a song that has just ended counts for the next one, which nobody has asked to
  skip; a lone listener is then refused (conflict), and the vote stands.

* `stop_overtaken`. reconcile looks at `stopped` once (controller.go:112), then claims,
  resolves (which may take seconds of yt-dlp), loads and assigns `loadedID` (165). A Stop
  in between returns and is followed by the load: status "stopped", music on. The test of
  stop takes that for a failure ("stopped item reloaded", controller_test.go:167).
  `StopSilences` says that it takes such a load, or one of the other accidents.

Found with the same models, by changing the instance, or in their exceptions; not kept
as runs:

* *Stop, Pause, Resume.* Resume restarts only if the stored status is "stopped"
  (controller.go:310), and Pause stores "paused" over it: then `stopped` stays set and
  nothing plays (compare controller_test.go:169-172). So does a state event or an
  end whose handling is under way when Stop comes.
* *An end booked on the wrong item.* An event names no item (controller.go:178). With an
  edit, the end of the replaced file is booked on the one that replaced it, which is
  removed unplayed: `EndsAreAttributed` fails with one edit in the budget.
* *Skip behind a failed row.* Skip deletes the row at position 0 (store.go:177). Failed
  rows stay in front, so that this may be a failed row while the playing item goes on
  (playback.md:26: "Live radio continues until stopped or skipped").
* *The published volume is not mpv's.* reconcile assigns the volume of an older snapshot
  to `desiredVolume` (controller.go:113) over the one SetVolume has just set, and the next
  state event stores it, while mpv has the new one. And a `set_property` that timed out
  (mpv.go:311) may have been carried out: SetVolume then goes back to the previous value,
  and RestoreVolume ignores the error. No property of the volume holds without excluding
  both, so there is none.
* *The pause flag is lost at a load.* `Spec`, one item and one pause that comes while the
  item is being loaded: Load clears the driver's flag (mpv.go:318) after mpv has
  reported the pause, and mpv notifies only changes. "playing" is published and mpv stays
  paused; `PublishedPause` fails. So it does between items, after a pause and an edit.
* *A pause is published that mpv has forgotten.* `UnpausedSpec` with one crash of mpv: the
  new mpv is not paused, but `commandedPause` still says so and nothing is sent again.
* *A failed pause or resume.* `UnpausedSpec` without `PausesSucceed`: while a resume waits
  for its answer, `commandedPause` turns mpv's reports of a pause into "playing"
  (controller.go:209-224). If the command then fails with mpv up, `commandedPause` is
  withdrawn and the reports are not repeated: "playing" is published and mpv is paused.
  The same goes for a pause that fails.
* *Pause and Resume at once.* `UnpausedSpec` with two handlers: one sends the pause, the
  other sends and stores the resume, and then the first stores "paused", while mpv plays.
  The command and what is stored of it are not one step (controller.go:326-333).
* *An item is played twice.* `Spec` with two items and one reorder: claiming the new
  first item demotes the row that plays; if the new one does not resolve, the old file
  plays on, its end finds no 'current' row (`ErrNotFound`, ignored at
  controller.go:256), and it stays queued to be played again.
* *A lost end* (`Lost`). `emit` drops an event when the channel is full (mpv.go:338), and
  an "ended" is never repeated: the controller waits for a file that is over, until the
  first playable item changes. With 128 entries this takes a goroutine that is busy for
  many seconds, such as a slow resolve while a stream reports its position.
* *A load that timed out but happened* (`Misreported`; mpv.go:311, controller.go:157). The
  item is rejected and plays; the controller believes in the previous one, or, with nothing
  else playable, in none.
* *A stop that timed out but happened* (`Misreported`; controller.go:336). Stop returns the
  error and leaves `loadedID`; mpv is silent, and reconcile finds nothing to do.
* *An end that comes late* (`Forgotten`; controller.go:178, 188). The end of the replaced
  file, or a crash, is handled when the next one is loaded: `loadedID` becomes None. With
  something in the queue the next pass loads it (again); if the queue has been emptied
  meanwhile, nobody stops mpv, since reconcile stops it only for a `loadedID` (126).

Read in the code of the queue while modelling it:

* *Half a compaction.* `compact` leaves the loop over the ids without asking `rows.Err()`
  (store.go:389-397). If reading ends early, all positions are negated, only the ids that
  were read get 0, 1, ..., and the others are committed with negative positions, in front
  of all and in reverse. Skip, which removes position 0 (store.go:177), does not find the
  first row then. An addition still goes to the end; the next complete compaction or a
  reordering makes up for it.
* The same loop is in the auto-queue, where a listener whose turn was not read seems never
  to have had one (engine.go:215), and in the playlists (library/store.go:242), which are
  not modelled.

Read in the code of the votes while modelling them:

* Votes are keyed by item and cleared only after an edit they carry (voting.go:183,
  198, queue.go:126); a stop or a song that is put back keeps them, although
  milestones.md:433 has them cleared "on item change, stop, or successful skip".
* When a listener leaves, the threshold falls, but only a further POST counts again:
  the page may show 1 of 1 votes and nothing happens. `MajorityIsHeard` is therefore
  stated for the threshold of everybody ever seen.
* With the voting switched off between vote and count, 0 of 0 votes carry the edit
  (voting.go:73, 192): what anybody may do then anyway.

Read or found while modelling the other components:

* *Late titles.* Load starts from an empty title, but an event that was in the channel
  before it carries the old one, and handleEvent takes it for the item that is loaded by
  then: the title of `a` is written on the row of `b` and, being its first, names the
  entry of `b` in the history. For a file that announces nothing this is for good.
  `LateTitlesOnly` says that this is the only way.
* *Quick changes.* A title that changes within five seconds of the entry's start is
  dropped (library/store.go:338), and lastTitle keeps it from being tried again
  (controller.go:233), although user-guide.md has "each changing metadata title ...
  treated as a distinct track".
* *Open entries.* Only an end closes an entry, or a new start of the same item. One that
  was skipped, removed or stopped stays 'playing', and so does the entry of an attempt
  whose retry could not be loaded: the exception in `HistoryIsTrue`. A restart between
  RecordFinished and FinishCurrent plays the song again; if it cannot be loaded then, its
  latest entry says completed and its row failed.
* *Asked twice.* enrichment.md has the providers asked "only when a cached entry is
  missing or expired". A lookup that read the row before a fetch stored its result and
  registers after the fetch has left writes 'pending' over it and asks again
  (coordinator.go:61). `ResultsAreKept` says that it takes such a lookup.
* *Turns.* auto-queue.md:24 selects the user whose last *successful* turn is oldest. A
  listener without history uses up a turn too, one whose searches all fail is never
  stamped and keeps the oldest one, and stamps are compared as text, so that within a
  second a later one may count as the older one, any number of times. Hence
  `NobodyPassedOver` counts the turns of later seconds.
* *More songs than the depth.* What others add during a refill does not make it shorter
  (engine.go:87): the queue may end up longer than the depth, though not by songs of the
  engine's own (`NeverTooFarAhead`).
* *Half of a request's settings.* The auto-queue's settings are saved one by one in the
  order of a map; a failure leaves some of them. A setting that an administrator deletes
  is stored as "" without validation; app.New takes that for "open".
* *The set-up that loses its choice.* The administrator is committed before the access
  mode is stored (admin.go:63), and a failure of the latter is only logged. After a
  restart the default is in force. `ChoiceInForce` excludes it by `faithful`.
* administration.md:11 has databases "upgraded from an earlier release ... marked
  installed automatically"; Accounts starts from an empty database.

## 7. Plan

Done: the queue (QueueStore, QueueDb, QueueRows, QueueApi), the playback (Player,
Playback), the votes (Voting), the history (History), the driver's calls (MpvDriver),
the auto-queue (AutoQueue), the enrichment (Enrichment) and the accounts (Accounts), all
with proofs; every safety property of a passing run is a theorem.

Left, in this order:

1. That a transaction on rows, seen from the API, is a transaction of QueueApi's database:
   the theorems on snapshots and revisions over QueueRows instead of QueueDb.
2. What holds of the published pause with several handlers at a time.
3. `Settles` with three disturbances at a time, on a machine with more memory.
