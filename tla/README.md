# Verification of boxincloud

boxincloud is a self-hosted comics library: a Go server (`src/apps/server`), a
web client (`src/apps/web`) and a Flutter application that also reads offline
(`src/apps/mobile`).  This directory holds TLA+ specifications of the parts of
it that are hard to test, the TLC configurations that check them on small
instances, and theorems checked by TLAPS for every value of the constants.

Run, in this directory, `tlc -config MCProgressServer_rule.cfg MCProgressServer`
(and likewise for the other configurations, whose name begins with the name of
their module) and `tlapm ProgressServer_proofs.tla` (and likewise for the other
modules of proofs).

## 1. Inventory

| Part | State it keeps | Operations | What is hard | What makes it correct |
|---|---|---|---|---|
| Progress service (`internal/progress`, `queries/progress.sql`) | `reading_progress`: one row per user and comic | Record, Push (a batch), Pull (a page of changes), Delete; bulk marks from `catalog` | several devices, replays, batches that stop half-way, stamps and commits in different orders | the furthest page wins since the last reset; a reading is counted once; a pull skips nothing |
| Phone progress (`core/sync`, `core/db`, `library_controller`, `reader_screen`) | a local row per comic with a pending mark, a cursor | record, push, pull, resumePage, mergeRemote | coroutines that interleave at each await, lost and late answers, a killed application, overlapping loads | a position ahead of the server is pending; everyone ends in step; the cursor skips nothing |
| Phone downloads (`core/offline`, the table `downloads`) | a row per downloaded comic, files, one drain loop, a flag that stops it | enqueue, start, pause, drain, remove | rows read before an await and written after it, removal and eviction while a page is on its way, a killed application | a complete comic has all its pages; what is asked for is one day held or refused; the budget is kept |
| Web saver (`lib/reader/progress.ts`) | pending, lastSent, a timer | record, flush, beacon | failures after an optimistic update | the last page is sent |
| eD2k loop (`amule/poller.go`, `session.go`) | session, snapshot, state, count of watchers, wake-up channel | run, pollLoop, wait, setState, Nudge, Start, Stop | lost wake-ups, departures and stops during any wait | no traffic when nobody watches, snapshots when somebody does |
| SSE hub (`platform/sse`) | subscribers and their buffers | Publish, Serve, subscribe, unsubscribe | slow browsers, the initial state before the subscription | a stream never misses an event and stays open |
| eD2k events (`amule/events.go`) | none: compares two snapshots | diff | an end seen in two ways, or not at all | one announcement for one end |
| eD2k bridge (`amule/bridge.go`) | `ed2k_publications`, `ed2k_destinations` | publishCompleted, publish, copyToLibrary, failPublication | goroutines of successive snapshots, crashes, failures between steps | one publication per file, a truthful journal |
| eD2k commands, search, daemon settings | `ed2k_daemon` | exchanges followed by Nudge | settings changed under an open session | — |
| External Connections (`amule/ec`) | a TCP connection | Open, Do, Close | a timeout leaves an answer to come, there is no correlation identifier | an answer goes to its request |
| Authentication (`auth`, the token store of the clients) | sessions, devices, a liveness cache, one refresh token per browser | login, refresh, logout, revoke | rotation without a transaction, exchanges of several screens at once, lost answers, a cache filled after it was invalidated | one live token per login; a good client stays logged in; a stale answer is bounded |
| Accounts (`accounts`) | `users` | promote, demote, delete | a count made before a write, actors whose role comes from the cache | an administrator remains |
| Indexing (`indexer`, `platform/jobs`) | `comics`, `comic_pages`, jobs | scan, index, hydrate | a scan during an indexing or an upload, workers killed, jobs lost or doubled | a modified file is indexed again; a present file is listed; an exclusion holds |
| Ingestion (`ingest`) | objects and `comics` | upload, move, delete | two stores and no transaction | catalogue and storage agree in the end |
| Derived cache (`cache`) | objects and an inventory | get, put, evict, purge | two stores and no transaction | an eviction frees what it must; what is asked for ends stored and counted |
| Folders (`folders`) | `folders`, locks, unlocks | relocate, delete, access codes | operations that stop half-way | — |
| Catalogue, libraries, reader, archive, imaging, storage, HTTP, configuration, wiring, clients | — | reads, conversions, routing | little | — |

How they interact.  A page turned on a phone becomes a local row and a PUT; the
queue of a phone becomes one POST /sync; a load of the library is a push then a
pull.  All of it meets in the rows of the progress service, which a purge of
the catalogue deletes by foreign key and whose visibility the catalogue
decides.  The browsers of the eD2k page are subscribers of the hub; the hub
calls the polling loop back, under its own lock, when their number changes; the
loop publishes through the hub, persists its state through the service, and
starts a goroutine of the bridge after each snapshot; the bridge writes comics
through ingestion.  Scans, index jobs, uploads, moves and deletions meet in the
rows of the catalogue and the objects of the storage; a page read through the
server meets an eviction, a purge and other readers in the derived cache.  Every
request asks the liveness cache for the role of its account, which
administrators change meanwhile.

The hazards of this code, each at its line, are in `PROJECT.json` with the
properties that would catch them going wrong.

## 2. Plan

Order: what loses a reader's position first, what runs unattended next, the
rest of the storage after.

1. *Done.* `ProgressRule`, `ProgressServer` and its proofs: the conflict rule.
2. *Done.* `PhoneSync`, `SyncCursor`, `OfflineQueue`: the protocol around it.
3. *Done.* `SseHub` with `Ed2kPoller`; `Ed2kEvents` with `Ed2kBridge`.
4. *Done.* `Downloads`, and the abstract specification `Shelf` that it implements.
5. *Done.* `Catalogue`: the scan, the index jobs and the file operations.
6. *Done.* `DerivedCache`: objects, inventory, eviction, purge.
7. *Done.* `Sessions`: rotation and chains, the liveness cache, administrators.
8. `EcConnection` (an answer that comes after its request has timed out),
   `WebSaver` (a position sent once), `Folders` (a relocation that stops half-way).

A composition still to write: the progress of `PhoneSync` implementing an
abstract shared position (per comic, the furthest stop since the last reset).

Theorems.  Done: every safety property that a run checks, invariants and action
properties alike, and the safety part of the refinement of `Shelf` (section 6).
Left: the shared position above, once it is written, and what `EcConnection`,
`WebSaver` and `Folders` will promise.

## 3. Modules

### ProgressRule — the conflict rule as operators

`Upsert` is the `INSERT ... ON CONFLICT` of `UpsertReadingProgress`, one operator
per SET clause; `Normalise` is `Service.Record` before it; `BulkRead` is
`BulkMarkRead` for one comic; `DeriveStatus` and `StatusFor` are the statuses the
server and the phone derive.  `started_at` and `finished_at` are reduced to "set
or NULL".

### ProgressServer — every writer of the rows

| Variable | Code |
|---|---|
| `rows` | `reading_progress` of one user |
| `shelf`, `pageCount` | `comics`: listed, hidden (`deleted_at`), purged; `page_count` |
| `conn` | the loop of `Service.Push` in each request: what is left of its batch |
| `since`, `resets` | history: writes applied since the row was created or reset |

`Put` is `Progress.Update`; `PushBegin`, `PushStep`, `PushAbort` are `SyncPush` and
one iteration of `Push` (each statement is its own transaction, so requests
interleave between them); `PushReplay` is a client that got no answer; `Delete`,
`BulkMarkRead`, `BulkMarkUnread` as named.  `Hide`, `Relist`, `Purge`, `Reindex` are
what the indexer and the file operations do to the catalogue.

### PhoneSync — phones and server

Each action is the code between two awaits.  `Turn` is `record` up to the call; `Apply`,
`Ack`, `Lose`, `Refuse` are what may happen to a call, among which a request that the
phone gave up on and that the server applies later (step `"orphan"`); `SyncStart`,
`PullFetch`, `MergeRead`, `MergeWrite`, `PullDone` are `push` and `pull` of one library
load; `OpenFetch`, `OpenRead`, `OpenWrite` are `resumePage`; `Kill` ends the
application.  A page may be recorded at any moment, under a call or a merge of the same
comic.  Two histories record where the code gives something up: `wiped`, the comics that
the server was told to take back, and `dropped`, the rows whose mark the answer for an
older page has cleared.  `resumePage` reads the local row twice, once before its call,
for the page it returns; that first value writes nothing and is left out.  `WebRead` and
`MarkUnread` are the web client.  The batch of a push is applied by `Apply` one comic at
a time, in any order.

### SyncCursor — the cursor of a pull

`Begin` and `Commit` separate the instant that `updated_at` records (`now()` is
the start of the transaction) from the one at which rows become visible;
`Fetch` is `Service.Pull`, whose limit may fall between equal stamps;
`MergeOne`, `SaveCursor` are the loop of `ProgressSync.pull`.  Transactions overlap and
one of them may write several rows; the histories `late` and `cut` record the rows
that a write committed below a cursor already `given`, and those that a page left
out beside a row of the same stamp.

### OfflineQueue — the queue and its refusals

What `PhoneSync` leaves out: a batch that is too large, a comic purged while its
position is queued, an `ApiException` that ends the load before its pull.  `Read`
is `record` up to its call, whatever is in flight: `aged` says which calls carry a
position left behind since, and `MarkSynced` is `markSynced`, which knows comics
and not positions (`unmarked` records the marks it clears in error).  `PutApplied`,
`PutConfirmed` and `PutFailed` are the PUT of one page; `LoadStart` to `PullLost` the
push and the pull of a load.

### SseHub and Ed2kPoller — the hub, the browsers, the loop

`Ed2kPoller` extends `SseHub`: every action that goes through the hub ends with
`SubscribersChanged`, the callback made under the hub's lock.  `pc` is where the
goroutine `run` is; `SetState` is `setState` up to `onState`, which is `Persist`.
`Greet` and `Subscribe` are the two halves of `Serve`: the initial state is sent before
the stream is registered.  A late subscriber is dropped by `Publish`.  `declared` and
`stored` are the row `ed2k_daemon` and its `last_state`: `SetDaemon` and `ForgetDaemon`
are the requests of an administrator, beside the loop and even under its session,
`PublishStatus` their end; `Persist` is an UPDATE that finds no row when there is none.
What the status says and what a page shows are left out.

### Ed2kEvents and Ed2kBridge — snapshots, notifications, publications

`FileEvent` is the comparison of two snapshots for one file.  `Snapshot` starts a
goroutine in a slot of `Tasks`; `Claim`, `Route`, `Copy`, `Skip`, `Record`, `Fail` are
the statements of `publish`, `copyToLibrary` and `failPublication`, each of which
may fail.  The daemon (`Enqueue`, `Transfer`, `Assemble`, `Remove`) is external:
it is modelled as the mapping of its packets sees it.

### Downloads and Shelf — what a phone keeps for reading offline

| Variable | Code |
|---|---|
| `row` | the table `downloads` (`core/db/database.dart`): state, `pagesDone`, `requestedAt` |
| `files` | the pages on disk |
| `drain` | where `_drain`, `_process` and `_ensureRoom` are, and the locals they hold across an await |
| `cancelled` | `_cancelled` |
| `op` | what `enqueue` or `remove` holds across its await |
| `torn` | history: comics whose removal the end of the application cut short |
| `lapses` | history: how often `enqueue` wrote back a count that the drain had passed |

`Settle` to `Thrown` are the drain between two awaits: `NextComic` is
`nextQueuedDownload`, `Page` is the head of the loop of `_process`, `List`, `Evict`,
`EvictRow` and `Evicted` are `_ensureRoom`, `Fetch` and `Count` the page and its
number, the last three the ways in which a page fails.  `AskRead` and `AskWrite`,
`Remove` and `RemoveRow` are the taps; `Start` is also what happens when the
application opens again.  `Shelf` is what the user can count on, in terms of
nothing else: a comic is absent, wanted, held or refused.

### Catalogue — the storage, the rows and what keeps them in step

`object` is the storage of a library, `row` the table `comics`, with the content that
`comic_pages` were read from in `pages`; `queue` and `worker` are the index jobs,
waiting and running; `scan` and `op` the scans, which nothing keeps from running side by
side, and the requests, between two of their calls.  `UpsertComic`, `Missing`,
`StillDeleted`, `StateAfter` are the clauses of the SQL; `ScanStart` to `ScanFail` are
`Scanner.Scan`; `JobStart` to `JobFail` are `Indexer.IndexComic` in its River worker,
which may give a job up; `Upload...`, `Exclude`, `DeleteObject`, `PurgeRow`,
`MoveObject`, `MoveRow` are `ingest`.  `FileWritten` and `FileRemoved` are somebody else
on the disk.  `Crash` keeps the database and the storage: River runs again what it was
running, requests are not resumed.

### Sift — what stays of a table when rows leave it

One function, `Without`, which `OfflineQueue` (rows marked as sent) and
`DerivedCache` (rows deleted) share.

### DerivedCache — objects, inventory, eviction

`files` is the provider, `lru` the table of entries in the order of their last hit.
A request goes through `Touch`, `Stat`, `Foster` (`Get` and its readoption) or
`Write`, `Record`, `Measure`, `List`, `EvictFile`, `EvictRow`, `EvictDone` (`Put`, then
`evictIfNeeded` under its try-lock).  `PurgeEntries` and `PurgeFile` are `Purge`,
`ComicPurged` the foreign key.  `SizeOf` is the SUM of the sizes, counted as the
bytes themselves, one by one: a cardinality is what the prover can reason about.

### Sessions — tokens, the liveness cache, administrators

`account` and `session` are tables, `cache` the liveness cache of `auth`, `stored`
the refresh token of one browser, `call`, `op` and `check` the requests between two
of their statements.  `Refresh...` are the statements of `Service.Refresh`,
`Answered` and `Lost` what the client makes of the answer or of its absence;
`OpFind`, `OpCount`, `OpWrite`, `OpForget`, `OpLogout` are `SetRole` and `Delete` of
`accounts`; `CheckStart`, `CheckRead`, `CheckPut` are `AccountState`.  `stuck` is the
tabs in which `refreshInFlight` stays at the answer of an exchange that had no token
to send (`RefreshNone`): such a tab forgets the tokens of the browser without an
exchange (`Unrefreshed`), until it is loaded again.

## 4. Runs

| Run | Configuration | Question | States |
|---|---|---|---|
| `rule` | `MCProgressServer_rule` | Does the row hold the furthest page since the last reset, counted once, whatever the writers, the replays and the catalogue do? | 141 k |
| `phone` | `MCPhoneSync_phone` | On a phone that records at any moment: nothing made up, a cursor that skips nothing, in spite of one reading elsewhere, one reset, one opening and one fault anywhere. | 1.79 M |
| `converge` | `MCPhoneSync_converge` | Is there a mark on whatever is ahead, unless the answer for an older page cleared it? Do two phones end in step with the server, if their readers stop? | 215 k |
| `cursor` | `MCSyncCursor_cursor` | With two transactions side by side, one of which may write two rows, two loads at once and failures, does a pull skip nothing but the rows `late` and `cut`? | 383 k |
| `queue` | `MCOfflineQueue_queue` | Is a position recorded on the server or queued, whatever was in flight? Is what is queued sent one day, what is read elsewhere heard of, as long as the server does not refuse the queue? | 206 k |
| `downloads` | `MCDownloads_downloads` | Does a complete comic have its pages, does the budget hold, does the manager keep the promise of `Shelf`, whatever the taps, the faults and the kills? | 459 k |
| `scan` | `MCCatalogue_scan` | Is a stale comic noticed, an exclusion respected, does an undisturbed scan tell the truth, does everything settle, but for jobs given up? | 639 k |
| `pages` | `MCDerivedCache_pages` | Does an eviction free what it must, do the two stores heal? | 242 k |
| `sessions` | `MCSessions_sessions` | Is a stale answer bounded, does an administrator remain, is there one live token per login, does a good client stay logged in? | 1.96 M |
| `watch` | `MCEd2kPoller_watch` | Is the loop quiet when nobody watches and alive when somebody does; is what the row stores what was announced, with a daemon declared and forgotten beside it; is an open stream current? | 521 k |
| `bridge` | `MCEd2kBridge_bridge` | One publication per file, a truthful journal, one announcement, a decision for every claim? | 91 k |
| `holes` | `MCDownloads_holes`, violated | A comic removed and asked for again while the drain still holds its old row ends complete without all its pages. | |

### Bounds, and why they are enough

- `rule`: one comic (rows do not interact: each clause reads one row), two
  requests (a race needs two), six writes that cover every status, first, middle
  and last page, a negative page and a stale page count, four batches that mix a
  reading and a reset, one reset per row.  The theorems below remove the bounds.
- `phone`: two comics so that a batch can be applied in part, pages 0 to 2 with
  stops on each (the first page, a middle one, the last), one event of each kind
  in every order.
- `converge`: two stops, on two phones or twice on one, so that a page is recorded
  under a call that holds the one before it; no fault nor reset, which the theorem
  about marks covers for any number.  Stops on the first page only make it longer.
- `cursor`: three rows, two of which one statement may write, and a limit of two,
  so that `has_more` is true and false and a page may be cut between equal stamps;
  two transactions, two loads, three writes.
- `queue`: three comics against a limit of two, one of them purgeable, two that are
  read with a network; one PUT of each comic in flight at a time, which is a bound
  of the module.
- `watch`: one browser that comes and goes at will (the loop asks only whether
  there is one; the theorems are for any set of them), a buffer of two frames, one
  restart, two changes to the declared daemon (one that forgets it, one that
  declares it again).
- `bridge`: one file queued twice, two goroutines, one crash.  Files do not
  interact but for the order in which a goroutine takes them.
- `downloads`: two comics of three pages against a budget of three, so that one
  must be given up for the other, and the budget can be passed by two pages; five
  taps, one fault.  `Reask` FALSE is the hypothesis of the run: a comic is not asked for again while the drain still
  acts on the row it had; `holes` drops it.  Three taps without faults are
  enough there.  The module has one tap under way at a time, where the application
  lets `enqueue` and `remove` overlap: an `enqueue` that reads the row before a
  removal and writes it after counts pages that have gone, which is what `holes`
  shows by another way.
- `scan`: two keys, two comics, one scan, two workers and one user (two scans with
  one worker and a budget of one are in `MCCatalogue_scans`, which passes, 116 k
  states; the theorems are for any number of scans); what happens behind the
  server's back, uploads, moves, deletions, faults and crashes share a budget of
  two, in which an event that matters only with others costs one and the rest
  two (`Cost`).  `Reuse` FALSE: no file appears at a key that a comic has not
  quite left, and none is moved to a key that a comic still names, where the code
  could not tell the two apart (section 5).
- `pages`: a hot variant and one of a comic that may be purged, each of which fits
  alone in a cache where both do not; two requests, so that an eviction meets a
  write; two faults, purges or crashes.
- `sessions`: two administrators, two tabs, two exchanges and two operations of
  administrators at once, one request whose account is looked up, a lifetime of
  one tick out of two, three events.  Tokens are only compared, so four are
  enough for two exchanges on top of two logins.  Tabs, exchanges and operations are
  symmetric.

`CHECK_DEADLOCK` is left on everywhere but in `sessions`, whose events, ticks and
tokens are bounded and where nobody is obliged to do anything.

`TypeOK` is in the configurations of `rule`, `watch` and `bridge`; the other modules
define theirs, which can be added to their runs, and those of `Downloads`,
`Sessions`, `PhoneSync` and `Catalogue` are proved with the invariants of section 6.

### Fairness

- `PhoneSync`: a request in flight is applied and answered, a coroutine runs on,
  and libraries are loaded again and again — at every launch and pull to
  refresh (`libraryProvider`).  A load needs a request slot, a bound of the
  model, hence strong fairness on its start.
- `SyncCursor`, `OfflineQueue`: loads go on, transactions commit, and failures
  stop one day: a phone that never has the network never learns anything.  A
  failure that leaves the state a success would have left is not forbidden, or
  loads that bring nothing would be too.
- `Ed2kPoller`: the goroutine runs on, its waits end by their timers.  Nothing is
  assumed of browsers, of the daemon or of the administrators; `Serves` and `Sleeps`
  have what they need of them as hypotheses.
- `Downloads`: the drain goes on, what a tap awaits ends, and the application is
  opened again.  The network and the server may fail only so many times.
- `Catalogue`: what runs goes on; a waiting job is run one day, even behind others
  that fail and come back (strong fairness: workers are taken and freed); and the
  library is scanned again.  Faults are bounded, and each may be the last attempt
  of its job.
- `DerivedCache`: requests and purges that run go on; a hot variant is asked for
  again and again (strong fairness, as requests are bounded).
- `Sessions` has no liveness property: a client that does nothing is not wrong.
- `Ed2kBridge`: snapshots go on (somebody watches) and a goroutine runs to its end
  unless the server is killed.

### Properties, in short

`PositionIsFurthest`, `CountedOncePerReset`, `FinishedIffRead`, `PurgedStaysForgotten`
(server); `NothingInvented`, `CursorSkipsNothing`, `AheadIsPending`, `Converges`
(phone); `NothingSkipped`, `DrainedIsComplete`, `CatchesUp` (cursor); `NothingLost`,
`Drains`, `HearsNews` (queue); `Whole`, `WithinBudget`, `ShelfKept` (downloads);
`StaleIsNoticed`, `ExclusionHolds`, `ScanTellsTruth`, `Settles` (catalogue);
`EvictionSuffices`, `Heals` (cache); `StaleIsBounded`, `AdminRemains`,
`OneLivePerLogin`, `NobodyLoggedOut` (sessions); `QuietWhenUnwatched`, `Sleeps`,
`Serves`, `StoredFollows`, `OpenStreamIsCurrent` (loop and hub); `PublishedOnce`,
`JournalIsTrue`, `EndedOnce`, `Decided` (bridge).  Each is stated in words above its
definition.  The mutated operators that stand next to some definitions, under a comment
that begins with "Mutant", are plausible bugs used to check that a property can fail.

## 5. What the code does not do

One disagreement between the code and what the repository says of it has a run,
`holes`: a page counted after its comic was removed and asked for again writes the
old count over the new row, and the download ends complete with pages missing,
though `database.dart:146` says that files 0 to `pagesDone - 1` exist.

Seven have a formula and a configuration, which TLC finds violated:

| Formula, configuration | What the code does | What the repository says |
|---|---|---|
| `ReplayHarmless`, `MCProgressServer_replay` | a batch that holds a reset, sent again, moves a position back (`progress.sql:30`) | `openapi.yaml:2416`: "Rejouer un lot … ne peut donc pas faire régresser la position ni compter une lecture deux fois" |
| `PendingUntilConfirmed`, `MCPhoneSync_hurried` | a page turned while a call that holds the one before it is in flight loses its mark, and is never sent (`progress_sync.dart:66`, `:202`, `database.dart:576`; `dropped`, and `unmarked` in `OfflineQueue`, where the same formula fails) | `database.dart:106`: "Vrai tant que le serveur n'a pas confirmé cette progression" |
| `CursorIsComplete`, `MCSyncCursor_concurrent` | with two writers, a row committed late is skipped for ever (`service.go:209`; `late`) | `service.go:204`: "le client ne doit pas avancer dans le temps sans avoir rien reçu, sinon une écriture concurrente arrivée entre-temps serait sautée" |
| `QueueDecided`, `MCOfflineQueue_poison` | one purged comic in the queue holds back every other (`service.go:225`) | `progress_sync.dart:70`: "La ligne reste en attente et sera rejouée à la prochaine synchronisation complète, qui décidera" |
| `EveryArrivalTaken`, `MCEd2kBridge_missed` | a file that leaves the queue between two snapshots is never published (`bridge.go:134`) | ADR 005, line 67, and `events.go:256`, where that departure is an end like another |
| `RowExplains`, `MCEd2kPoller_redeclared` | the state of a daemon is stored by an UPDATE when it changes: the failure announced before a daemon is declared is stored nowhere (`ed2k.sql:24`), and is no change any more once it is (`poller.go:641`); a daemon forgotten and declared again under an open session has no state either (`service.go:255`, `:279`; `fresh`) | `session.go:99`: "L'état constaté par la boucle est persisté par le service. C'est ce qui permet à l'interface de dire, après un redémarrage, « la dernière connexion a échoué, voici pourquoi »" |
| `RefreshesFirst`, `MCSessions_stuck` | an exchange begun without a token returns before the `try` whose `finally` clears `refreshInFlight`: the tab refreshes no more, even after a login, and its next 401 forgets the tokens of the browser (`client.ts:145`, `:218`; `stuck`) | `client.ts:203`: "on rafraîchit une fois et on rejoue, de façon invisible" |

Others were met while modelling.  Where a property has an exception for one, the
name of the variable that records it is given: without the exception TLC finds
the property violated.

- Two jobs of one comic at once, with several workers, let the older end last:
  `SetComicIndexed` overwrites the "pending" that a scan has set, though
  `comics.sql:14` says that a modified object must be indexed again (`overlap`).
  A comic whose job could not be inserted, or was given up by River after its last
  attempt, waits for a change of its file: a scan only enqueues what is pending
  (`indexer.go:154`; `orphan`).
- Two scans of a library may run side by side (`jobs.go:147`): the one that ends
  marks as missing what the other has just found, if it had listed it before
  (`indexer.go:173`); the next scan repairs that.  `ScanTellsTruth` is about a scan
  during which no other ended (`calm`).
- An ETag tells a content from the one before it, not from one that was there
  earlier.  A comic is moved away, a scan gives the new key a row before the move
  does (whose own update the unique key then refuses, `manage.go:259`), another
  file appears at the old key, is indexed and removed, and the first object is
  moved back: it has the ETag that its row never lost, and the pages are those of
  the other file.  No scan sees a change.  `StaleIsNoticed` is violated when
  `Reuse` is TRUE.
- Variants of a purged comic stay in the provider, uncounted; and a key names no
  content, so a page of a comic that has changed is served as it was
  (`reader/service.go:146`).  A `Put` that finds an eviction under way does not
  evict: the total may stay above the limit until the next one.
- Two administrators who demote or close each other at once leave none
  (`accounts.go:168-203`; `raced`).
- A failure or a lost answer between the revocation of a token and the answer
  logs the client out: its next attempt is taken for a token that came back
  (`auth/service.go:287-296`; `excused`).
- An application killed between the files and the row of a removal leaves a
  complete row without files (`download_manager.dart:230-233`; `torn`).
- `enqueue` writes back a count that the drain has passed (`download_manager.dart:66-79`;
  `:62` says it does nothing to a comic in the queue).  Each request that does so
  while there is room lets the rows count one page more than the budget, and
  they add up: whence `lapses` in `WithinBudget`.
- What is asked for while a drain told to stop still runs waits for the next
  opening (`:91`).
- The remaining pages of a comic that was removed are still written, without
  being counted (`:126-207`); a change of session makes a second manager while the
  first one drains (`downloads_controller.dart:12`); a comic partly downloaded is
  marked read at its last page on the phone (`reader_screen.dart:290`).
- The web saver updates what it has sent before the answer: a failure leaves
  nothing to send (`progress.ts:39`).
- An exchange with the eD2k daemon that times out leaves its answer in the
  connection, where the next request reads it (`ec/conn.go:313`); the loop closes
  its session on an error, a command that borrowed it does not (`commands.go:79`).
- An event published between the initial state and the subscription (`sse.go:200-209`)
  reaches nobody; what the page shows stays behind until the next one.  So it does when
  the status is asked for before the new state is persisted or the session exposed
  (`poller.go:655`).
- `mergeRemote` (`progress_sync.dart:238-241`) overwrites a page recorded between
  its read and its write, though `library_controller.dart:123` says the pull
  cannot overwrite anything: a local page can move back, the position is one that
  the server has.
- A reader who turns back to the first page and stops there resets the row: the
  status of page 0 comes out "unread" (`service.go:115`, `progress_sync.dart:218`)
  and `progress.sql:30` takes that for an explicit reset, though `service.go:8` says
  that progress is never lost.  The position is then behind the phones that read
  further, whose rows are no longer pending (`wiped`): without that exception
  `AheadIsPending` is violated when `Stops` holds 0, even with one phone, by a
  page recorded while the first one is in flight.
- A phone that has an older position pushes it over a reset made on the web,
  which leaves no row to say so (`progress.sql:79`).
- Rows of one bulk mark share their stamp; beyond the limit of a pull, the
  strict comparison of `progress.sql:63` passes over them (`cut`).
- `BulkMarkRead` sets the last page (`tools.sql:78`) where the rule of `service.go:12`
  would keep a further one, and marks read a comic whose page count is unknown.
- `page_count` is overwritten by each write (`progress.sql:34`): a stored page may
  exceed it.
- A queue of more than 500 comics is refused whole at each load
  (`handlers/progress.go:236`, `progress_sync.dart:191`), and a refused push skips the
  pull that follows it.
- A failed publication is never tried again, and one whose goroutine died stays
  "pending" (`bridge.go:154-168`).

## 6. Proofs

### ProgressServer_proofs

For any comics, requests, writes, batches and page counts, and any bound on
resets: `TypeCorrect`, `FurthestPageWins`, `ReadingsCountedOnce`,
`FinishedFollowsStatus` and `PurgedForgotten`, that is `Spec => []P` for the five
invariants of the run `rule`; and `UpsertIdempotent`, that a write applied twice
in a row changes nothing the second time (what a replay of one write has in
its favour; `ReplayHarmless`, in section 5, is what a batch does not have).

The invariants are not inductive one by one.  `IInv` is `TypeOK`,
`PurgedStaysForgotten` and, for each comic, `Good(rows[c], since[c], resets[c])`:
the other three properties of one row, and that a row which does not exist has
no history.  The last part is the strengthening: without it a first write after
a deletion would inherit the marks of the row before, and the position would
not be the furthest of them.  The argument goes from the rows to the system:
`WriteKeepsGood` and `BulkKeepsGood` are the two ways in which a row changes, by
cases on whether it exists and whether the write is a reset; `RecordKeepsIInv`,
`ForgetKeepsIInv` and `BulkMarkReadKeepsIInv` carry them to all the rows;
`NextIInv` has a step per action, where the catalogue and the requests leave the
rows alone (`RowsUntouched`).  Assumptions: `NoRowAssumption` (the constant that
stands for no row is not a row) and `InputsAssumption` (writes and batches have
the shape the handlers decode), both evaluated by TLC in the runs.

### Ed2kPoller_proofs

For any set of browsers, any buffer, any number of restarts and of changes to the
declared daemon:

- `TypeTheorem`: `TypeOK`.
- `QuietTheorem`: at most one exchange with the daemon begins after the last
  browser has left.  `unseen <= 1` is not inductive.  `Quiet` adds that the count
  the loop reads is the hub's (`CallbackCounts`: every action that goes through
  the hub ends with the callback), that nothing is counted while somebody
  watches, that the loop is about to begin an exchange only when none has begun
  since the last departure, and that no announcement returns to one.
- `StoredTheorem`: `StoredFollows`.  `Settled` adds where the loop may be when a
  session is open, when it is exposed, and when the last state announced is
  "connected", and where it goes from an announcement (`Control`).  The requests
  move the row and nothing of the loop; a row made since the last persist stores
  nothing, and so does the absence of a row.
- `CurrentTheorem`: `OpenStreamIsCurrent`.  `Current` says the same with
  `EndsWith`, which has no CHOOSE in it (`TheLastOne` is the bridge), and that a
  stream which is not registered yet has nothing waiting: what the browser was
  greeted with is then all it knows.  A stream that cannot keep up is dropped in
  the very announcement it would have missed, so it is no longer an open one.

Assumptions: `HubAssumption` and `PollerAssumption`, evaluated in the run `watch`.

### Ed2kBridge_proofs

For any files, any number of goroutines side by side, any number of downloads
and restarts: `BridgeTypes`, `PublishedOnceTheorem`, `JournalTheorem` and
`EndedOnceTheorem`, that is `Spec => []P` for `TypeOK`, `PublishedOnce`,
`JournalIsTrue` and `EndedOnce`.

Neither `PublishedOnce` nor `JournalIsTrue` says who may still make a comic, so neither
is inductive.  `IInv` adds that a goroutine has one file at hand or is between two
(`Shape`), that no two have the same (`Sole`), and that the row of a file at hand is
pending and its comic made or not according to the step (`Known`).  The claim is what
establishes `Sole` and `Known`: only a free row is taken, and the journal says a free
row has no comic.  `OneGoroutine` says what a step of a goroutine owes the invariant,
`MovesOn` and `LetsGo` are its two forms, and each action is an instance of one of them;
a restart leaves nothing at hand, and the row that stays pending is what keeps the file
from being taken again.

`EndedOnce` rests on another invariant, `Told`: once the end of a download is
told, the download is complete in the queue or gone from it, and so it is in the
snapshot that the next one will be compared with.  A lost session and a restart
forget that snapshot, and the first one after them is compared with nothing,
which is why `Told` speaks of `previous` only when there is one.  Assumption: `BridgeAssumption`,
evaluated in the run `bridge`.

### Downloads_proofs

For any comics, number of pages, budget, taps and faults, under `Reask = FALSE`
(section 5 has what happens otherwise): `WholeTheorem`, a complete comic has all
its pages.  The number of pages that a row holds is copied twice, by the drain
for the comic in its hands and by `enqueue`, which writes back the row it has
read.  The invariant says of each copy what it says of the row (`Have`,
`DrainHas`, `Asked`), and where the drain may be (`Hands`); `torn`, the comics
whose removal the end of the application cut short, are the only exception.
`TapStays` is all that a step of the drain does to the tap under way: it overtakes
it, once, since the database runs its queries in their order.

`BudgetTheorem`: the rows count more than the budget by one page at most for each
request that took one back.  The invariant `Counts` adds up the rows (`Sum`) and
what the drain is ahead of the row of its comic (`Gap`): `Gap` is at most the
number of lapses, and the two together stay within the budget and the lapses,
below them when a page is fetched (`Lead`, `Room`); a count brings `Gap` into the
rows, an `enqueue` that overtook one brings it back.  `Listing` says the same of
what `_ensureRoom` has in hand while it gives up comics, `Read` how far the row
that `enqueue` has read can be from both.  `SumChanges` and `LessHeld` are the only
facts about sums that it rests on, proved from cardinalities without induction.
`DownloadsTypes` is the type invariant.
Assumption: `DownloadsAssumption`, evaluated in the run `downloads`.

`ShelfTheorem`, under the same condition: every behaviour of `Downloads` is one of
`Shelf`, with the states of each comic mapped by `Standing`.  `StandingIs` reads
the mapping in the invariant above; most steps leave every comic
standing (`AllSame`); the others move one comic, in one of the ways that `Shelf`
has (`OneMoves`).  This is the safety part of `ShelfKept`: the fairness of `Shelf`
is checked by TLC in the run `downloads`.

### Sessions_proofs

For any accounts, lookups, operations, tabs, calls and number of sessions,
nothing assumed but `SessionsAssumption` (evaluated in the run `sessions`):

- `StaleTheorem`.  `Dated` says of the entries that a request has read and not
  stored yet what `StaleIsBounded` says of those of the cache.
- `AdminTheorem`.  `Spared` adds, while no two operations overlapped, that there
  is one at most, and that between its count and its write another
  administrator is there.
- `OneLiveTheorem` and `LoggedInTheorem`.  `Numbered` keeps a number of session in
  reserve for each call that may still make one; `Family` keeps what refers to a
  session within its login; `Sole` says that the call of a login that nothing
  excuses is alone and presents the token that the browser holds; `Good` says
  which session of such a login is live, at each step of that call; a logout and a
  tab that is stuck are the same to it (`ForgettingKeeps`).  `Kin` shows
  that the chain revoked after a reuse stays within one login: it is the least
  set closed under succession, and a login is such a set.

### PhoneSync_proofs

For any comics, phones, loads and calls side by side, pages and budget, in three
layers, each of which is inductive given those before it:

- `PhoneTypes` and `InventedTheorem` from `Known`, which says of every place that
  holds a position what `NothingInvented` says of three of them: the batch of a
  load, its merge and the merge of an opening too.  Every later lemma begins with
  what the action does to each place, and these are the lemmas named `...Known`.
- `CursorTheorem` from `Loaded`: when a load may save its cursor, each version up
  to that cursor is merged, or is in the batch, or is the merge under way
  (`Held`), and instants do not run ahead of the clock (`Past`), so that a write
  is after every cursor and every pull.  Two loads side by side of one phone,
  kills and failures included: `merged` only grows.  `LastOf`, that a bounded set
  of numbers has a last one, is what makes the `CHOOSE` of `PullFetch` mean
  something; it rests on the order of the naturals being well-founded.
- `AheadTheorem` from `Ordered`, whatever the moment at which a page is recorded.
  Of each comic that no client told the server to take back (`wiped`), `Compared`
  says that a row is ahead only if pending, unless its mark was dropped; that a
  position sent is not ahead once the server has applied it; and that neither is
  what a load or an opening has read of the server.  The position of such a comic
  only grows on the server (`Forwards`), which keeps all of it but the rows of the
  phones.  Those change where a page is recorded, which marks it; where a merge
  writes, whose page is the server's or is marked; and where an answer clears
  marks, which is recorded in `dropped` when the row is ahead of what was sent.

The assumptions are `PhoneSyncAssumption` and `AbsenceAssumption` (the marks of an
absence are none of the values they stand beside), evaluated in the runs `phone`
and `converge`.

### Tables_proofs

Three modules whose proofs rest on the same facts about rows in an order,
`SyncCursor`, `OfflineQueue` and `DerivedCache`; they are extended together, which
is why the last two have names of their own for their initial states, steps and
specifications (`QueueSpec`, `CacheSpec`).

- `CursorTheorem` and `DrainedTheorem`: `NothingSkipped` and `DrainedIsComplete`,
  for any rows, transactions side by side, sets of rows written at once, loads,
  limit and failures.  The cursor alone is not inductive.  `Known` says what every
  cursor may count on: it is not above the highest one `given`, and each row up to
  it that is `InOrder` is on the phone (`MergedTo`) or in the page that the load has
  still to merge (`PageReaches`).  A write that commits above `given` is above every
  cursor, and one that does not is `late`; a row that a page leaves out is after
  its last stamp, or beside it and then `cut`.
- `QueueTheorem`: `NothingLost`, for any comics, limit, refusals and failures, and
  positions recorded under calls that hold older ones.  `Kept` adds what a call has
  brought (`Landed`): the position that it carries is on the server once it is
  applied, unless it is `aged`; so clearing the mark of a comic is harmless, or
  recorded in `unmarked`.  `Flying` says that an answer comes when nothing is left
  of the batch.
- `CacheTheorem`: `EvictionSuffices`, for any variants, sizes, limit and number of
  requests.  `Inventory` says that one request at most is evicting (its try-lock),
  and, as long as nothing was recorded or spared since it measured (`alone`),
  what `Frees` says of it: every row is among those it has still to look at, and
  the bytes of these are no more than the target and what it has still to free.
  Hits only reorder the rows and purges take them away (`FewerRows`, `LatestRows`),
  an entry that is dropped leaves both sides (`EvictRowInventory`).  `Sizes` is what
  a sum of sizes does when a row leaves it, from cardinalities.

`SieveRuns` and `WithoutKeeps` say what `Sift` computes, for any rows: they rest on
the order of the naturals being well-founded, not on an induction theorem.
Assumptions: `CursorAssumption` and `CacheAssumption`, evaluated in the runs `cursor`
and `pages`; the queue needs none.

### Catalogue_proofs

For any keys, comics, scans, workers, users, jobs and events:

- `ExclusionTheorem` and `ScanTheorem`: `ExclusionHolds` and `ScanTellsTruth`.  They
  rest on `Shape`: the types; what is worked on has, or had, a row (`Born`); a key belongs to one comic (`Unique`, the
  index of the table); what a user took out is not shown (`Excluded`); and a scan
  that nothing disturbed has listed what is there, and the catalogue has a row for
  each object it has passed, shown unless a user took it out (`Listing`, `Told`),
  whatever the other scans that have not ended write meanwhile.
- `StaleTheorem`: `StaleIsNoticed`, as long as `Reuse` is FALSE.  The invariant that
  says it, `Noticed`, is about the object wherever the comic may have it while it
  is moved (`Homes`), and about pages that a job has read and not stored yet
  (`InOrder`): the pages are those of the ETag, or a job waits, or reads, or holds
  what that ETag describes.  It needs three more: contents are numbered as they
  are made (`Dated`); a key that a comic is leaving is empty (`Emptied`), which is
  where `Reuse` matters; one job of a comic runs at a time, except for those
  recorded in `overlap` (`Single`).  There is one lemma per action, and `SameOrder`,
  `KeepsOrder` and their like say which parts of the state it may disturb.

Assumptions: `CatalogueAssumption` and `NothingAssumption` (what stands for nothing
is none of the values it stands beside), evaluated in the run `scan`.

### Only model-checked

Liveness (`Converges`, `Drains`, `HearsNews`, `CatchesUp`, `Serves`, `Sleeps`,
`Decided`, `Settles`, `Heals`, the fairness in `ShelfKept`) and everything that
rests on fairness or ENABLED is out of the prover's reach, as is induction over
data; no module here declares a RECURSIVE operator.  Every invariant and every
other action property of a passing run has a theorem; those of `Downloads` are
under `Reask = FALSE` and `StaleTheorem` of the catalogue under `Reuse = FALSE`, the
hypotheses of their runs.

## 7. Not modelled

The table `components` of `PROJECT.json` lists every part with the reason.  Left out
for good: parsing and encoding (archives, images, EC packets), wording, HTTP
routing, configuration and user interfaces, which keep no state that several
actors share.  Left for later: section 2, point 8.
