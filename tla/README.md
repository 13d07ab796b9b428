# Verification of ColumbinaHotfix

TLA+ models of the Go program in this repository (a dispatch and login server
for a game client, with an admin panel, a REPL and SQLite behind it), the TLC
runs that check them, and TLAPS proofs about them. `src/...:n` below is a line
of the repository.

## 1. The system

One process. Every HTTP request runs in a goroutine of its own; beside them run
the statistics flusher (`startStatsFlusher`), the signal goroutine
(`setupSignal`), the REPL (`startREPL`) and the HTTP server's accept loop. They
share package-level variables, most of them behind a mutex, and one SQLite
connection (`db.SetMaxOpenConns(1)`): statements are atomic and serialised, but
no code path opens a transaction, so handlers interleave between statements.

| Component | State | Operations | Talks to |
|---|---|---|---|
| Request statistics (`database.go:351-424`) | `hotUpdatePending`, `versionStatsPending`, tables `stats`, `version_stats` | count a request, record a version, flush every 30 s and at `shutdownCh`, report | `handleCurRegion` counts; `insertMu` is shared with accounts; shutdown ends it |
| Accounts and game login (`database.go:107-349`, `server.go:505-714,1063-1349`) | table `accounts`, `insertMu` | login (creates unknown accounts), verify, combo login; admin create, delete, rename, change uid, ban, unban, reset token | clients keep uid and session key; the panel changes rows under them |
| Dispatch seed check (`seed.go`) | two JSON files, `seedVerified`, `seedCollected`, `seedDataValid`, `seedMu` | load at startup, judge a request, collect a seed and rewrite the file | `handleCurRegion` asks it; the switch is in the live configuration |
| Hotfix cache (`hotfix.go`) | files below `hotfix/`, `hotfixCache`, `hotfixCacheMu` | fill at startup, look up with fallback to the file, rebuild on reload | `handleCurRegion` reads; SIGHUP and the REPL reload |
| Configuration and language (`config.go`, `lang.go`, `admin.go`) | `cfg`, `config.json`, `langStrings`, the cached admin page | load, reload (merges into the live value), update and save, switch language, build the page | everybody reads `getConfig` |
| Admin authentication (`database.go:459-608`, `server.go:322-503`) | sessions, failed-login counters and locks, `admin_config` | log in, out, validate, change credentials | guards the admin operations |
| Dispatch decision (`server.go:731-871`) | none | seed check, maintenance window, version, hotfix lookup, in this order | statistics, seed check, hotfix cache, encryption |
| Encrypted response cache (`crypto.go`) | `regionRespCache` | look up by key id and hash, clear on reload | dispatch, reload |
| Log rotation (`server.go:50-155`) | two log files and loggers | throttled check, rename, compress, reopen | every logging handler |
| Startup, shutdown, REPL (`main.go`, `signal.go`, `repl.go`) | `shutdownCh`, the process | start in order, reload, stop, drain, exit | all of the above |
| Protobuf writer (`proto.go`), routing, fixed SDK answers, static page, `verify.py`, `build.sh` | none | pure functions, tools | |

What is hard here:

* **Handlers without transactions.** A login is up to six statements; bans,
  renames, deletions and other logins run between any two of them.
* **A counter in two halves.** Pending counts live in memory, saved ones in
  SQLite, a flush moves them in several steps each of which may fail, and
  reporters read the halves at different times.
* **A mutex shared by strangers.** `insertMu` serialises account creation and
  also the version part of every flush.
* **Files changed by the operator while they are read**, a process that may die
  during a write, and a configuration switch that takes effect at once for data
  that is loaded only at startup.
* **Reload.** The cache is rebuilt under a lock, but a request that has read its
  file outside the lock stores it afterwards.
* **Shutdown.** The channel wakes the flusher and the drain at the same time.
* **Copies that share.** `getConfig` copies the configuration under a read lock, but
  the copy shares the array of the regions, which the next reload decodes in place.
* **One write, many parts.** `updateConfig` sets a field, truncates the file and
  writes it; a failure at any of them leaves memory and file apart.
* **Check, compare, record.** The lock of the panel is looked at, the password
  compared and the failure counted in three steps.
* **Rotation inside a log call.** Whoever logs renames, compresses, removes and
  reopens before its own line is written; every one of these can fail or be the
  last thing the process does.

What makes each component correct is stated in section 3.

## 2. Modules

| Module | Role |
|---|---|
| `StatsLedger` | Abstract specification of a persistent counter: a live value, of which a part is saved; saving never goes backwards, only the end of the process takes the live value back to the saved one. |
| `Sessions` | Abstract specification of a login: a key is issued once, is live until its session ends and never again, and lets a visitor in only at a moment in which it is live. |
| `Journal` | Abstract specification of a log: lines are numbered as they are written, what is kept is kept for good, and only writing adds a line. |
| `StatsCounter` | The statistics, operation by operation. Implements `StatsLedger` for the dispatch counter and for every version row. |
| `StatsCounterProofs` | Theorems about `StatsCounter`. |
| `GameLogin` | The accounts table, client logins and admin operations, statement by statement. Implements `Sessions` (`KeysAreSessions`). |
| `GameLoginProofs` | Theorems about `GameLogin`: shapes, the table, the mutex, retired keys. |
| `GameLoginSafety` | Theorems about what requests of `GameLogin` rely on between two statements, and the refinement of `Sessions`. |
| `SeedCheck` | The seed check with its files, crashes and the switch. |
| `SeedCheckProofs` | Theorems about `SeedCheck`. |
| `HotfixCache` | The cache, loads, reloads and edits of the files. |
| `HotfixCacheProofs` | Theorems about `HotfixCache`. |
| `LogFiles` | One log with its rotation, file operation by file operation. Implements `Journal` (`FilesAreJournal`). |
| `LogFilesProofs` | Theorems about `LogFiles`. |
| `Configuration` | The live configuration, the array its copies share, `config.json`; the local state of requests. |
| `AdminPanel` | Extends `Configuration`: the handlers of the panel that keep state (login, sessions, credentials, route, language, page). |
| `Dispatch` | Extends `Configuration`: the region query of a client and the cache of encrypted answers. |
| `Server` | Composes the two over one configuration: any request may run between any two steps of another, of a reload or of an edit, and a kill ends them all. Implements `Sessions` (`TokensAreSessions`). |
| `ServerProofs` | Theorems about `Server`. |
| `ServerSessions` | The theorem that `Server` implements `Sessions`. |
| `MC*` | The modules TLC is run on. They add at most a symmetry set. |

Conventions. One action is one atomic operation of the code: an atomic
instruction, a critical section, a SQL statement, a file operation. A request is
a record whose `pc` names the next operation. `IF`-free alternatives of an action
are the outcomes of that operation; an alternative with `Fails` is a failing
statement or write and is bounded by `MaxFailures`. Fields and variables marked
*history* are only read by properties. Definitions called `Slip...` are not part of
a specification: each is a plausible mistake in the operation that follows it,
and substituting it for that operation must violate a property (this is how we
know that the property can fail).

**StatsCounter.** A counter is a record: `pending` in memory, `taken` in the local
variables of `flushStats`, `saved` in the table, and the history `counted` and
`lost`. `FlushStart(last)` is the `select` of `startStatsFlusher`; `FlushSwapHot`,
`FlushWriteHot`, `FlushSwapVersions`, `FlushLock`, `FlushUpsert(k)`, `FlushUnlock`
are the operations of `flushStats` in their order, with the put-back of a failed
statement. `ReadCount` and `ReadPending` are the two halves of
`getHotUpdateCount`. `ReplStop`, `BeginShutdown`, `ExitDrained`, `ExitTimeout`,
`Killed`, `Restart` are the lifecycle. `AccountLock` and `AccountUnlock` stand for
`createAccount`, which competes for `insertMu` and is modelled in `GameLogin`.

**GameLogin.** The table is a set of rows with the columns that some statement
reads back to decide something. `LoginFind`, then `createAccount`
(`CreateLock`, `CreateFind`, `CreateUid`, `CreateInsert`, `CreateReread`), `BanCheck`
and `IssueKey` are `handleLogin`; `TicketFind`, `TicketExpiry`, `BanCheck` and
`AcceptTicket` are `handleVerify` and `handleGranterLogin`. `AdminFind` and
`RenameFind`/`RenameWrite` are the admin handlers of more than one statement, the
single-statement ones are one action each. Time is a counter; `Zone` is the
offset by which texts written on the local clock are misread as UTC. Session
keys are numbered because `generateToken` does not repeat. A nil account that is
dereferenced answers `panic` (net/http recovers it and drops the connection).
A verify or combo login presents a uid and a text, as a client may: `StartTicket` takes any
uid that is or was somebody's, and any key a login answered with, the empty text
(`NoKey`) or a text that never was a key (`OtherText`). What it does not take is a key
that was never given out, which nobody can guess. The empty text matters: a ban or a reset
sets `session_key = ''` and keeps the expiry, the handlers compare the column with what was
sent, so afterwards the uid with an empty token gets in until the expiry passes (after a
ban, once it has ended). The panel's own text says that a reset puts the user offline
(`static/admin.html:819`). The model does as the code does: `RevokedNeverAccepted` and
`KeysAreSessions` are about keys and say that the empty text is none, and
`EntryNeedsLogin` says what still guards such an account. A uid is a text: a numeral is its
number, a negative number a text that `getNextUID` does not count; `UidAfter` is its
arithmetic, in which the largest int (`MaxUid`) is followed by the smallest, `Wrapped`, which is
not counted either, so that all later creations get it and fail. `Conflict` is a UNIQUE column:
an `UPDATE` that finds no row conflicts with nothing.

**SeedCheck.** A cell is a canonical version with a platform; `NoCell` is the case
that either is empty. A file is absent, corrupt, or holds a map. `Verdict` is
`seedReject` up to `recordCollectedSeed`, which follows as `RecordLock`,
`RecordAppend`, `WriteTemporary`, `RenameTemporary`. `Crash` may come between any
two steps; only the files survive. `Reload` changes the switch either way at any time. The
history `view` says what the process knows of the files: a start with the check on has
`read` them, one with it off has not (`unread`), and is `blind` from the moment a reload
switches the check on: it then collects into an empty map, and writes it over the file.

**HotfixCache.** A key is region, platform and version number. `Lookup`, `ReadFile`
and `Store` are `LoadHotfixConfig`; `ReloadConfig`, `StatRoot`, `ClearCache`,
`OpenRoot`, `ScanFile`, `ScanDone` are `doReload` (and the SIGHUP case, which is the
same). The scan holds the write lock while the operator goes on editing. The history
`window` of a load is the set of the answers it may be given: what its file has said
since it began (`Says`), and any configuration if the cache was not in order then or is
overtaken by a store of something read before a reload.

**LogFiles.** A file is its set of lines and whether it was written to its end; `disk`
is a function whose domain is the names in use, `open` the name of the file the
logger writes to (it follows a rename, and becomes `Gone` when the file is
removed). `Lock` is the mutex of `writeLog` and `writeDataLog`, `Keep` and `Choose` the
outcomes of `rotateLog` up to the free name, `Rename`, `Zip`, `Copy`, `Remove` and
`Reopen` the file operations with their failures, `WriteLine` the line itself.
`SetPath` is a reload that changes `DataLog.Path`, `Close` the end of `shutdown`. The
throttle of 30 s, the size and the date decide nondeterministically.

**Configuration.** `cfg` is the struct with the number of its regions and `slots` the
array behind them. `Overlaid` and `Decoded` say what `json.Unmarshal` does to each:
absent fields and those of a wrong type keep their values, and so do those of each element
of the array (`Merged`), elements beyond those given stay in the array. An element into
which nothing was decoded is `Blank`. `Update`, `Truncate` and `Write` are `updateConfig`, steps of
the request that calls it; `ReloadBegin` and `ReloadEnd` enclose the decoding;
`ConfigKill` and `ConfigStart` the life of the process. `getConfig` is a read of `cfg`
in a state in which nobody holds `cfgMu`.

**AdminPanel.** `LoginCheck`, `LoginCompare`, `LoginFail`, `LoginReset`, `LoginCreate` are
`handleAdminLogin`; `Validate` is the first step of the other handlers; `SettingsRead`,
`SettingsChange`, `SettingsRoute`, `Revoke` are `handleAdminSettings`; `SetLanguage`,
`LoadLang`, `SwapLang` are `handleSetLang`; `PageBuild`, `PageFinish`, `PageShow` are
`buildAdminHTML`. A page is the set of the languages its strings came from, so a page
of two languages is one with two elements.

**Dispatch.** `AskRegion` takes the copy, `DispatchSeed` and `DispatchFind` make the text
of the answer, `DispatchEncrypt` and `DispatchStore` encrypt it or take it from the cache;
when the encryption fails the text goes out in the clear, when the signing fails it goes out
encrypted and unsigned, and neither is kept.
`Seen(i)` is what a handler may read of an element of the array: while a reload
decodes, name and address of either side of the write, or an address that is
neither, because a Go string is two words. The seed check and the hotfix lookup
decide either way here; their modules say how.

**Server** has one `Next` over both, in which `DispatchAtReload`, `PanelAfterReload` and
so on are what a step of the configuration does to the state of the others.

## 3. What is checked

Every property is preceded in its module by a comment that says what it means.

| Run | Result | What it shows |
|---|---|---|
| `MCStatsCounter.cfg` | pass | `Conservation`: what was counted is saved, pending, in flight or was lost with a process, nothing twice. `ReadNeverAhead`, `QuietReadExact`: reports. `EventuallySaved`: counts reach the table while the process stays up. `HotImplementsLedger`, `VersionsImplementLedger`: refinement. |
| `MCStatsLoss.cfg` | violation of `LastFlushIsLast` | A request counted after the flush at `shutdownCh` is lost by an orderly exit. |
| `MCGameLogin.cfg` | pass | With every kind of request and admin operation: `RevokedNeverAccepted`: retired keys. `EntryNeedsLogin`: whatever text is presented, nobody enters an account no login was answered for. `CreateNeverConflicts`: until a uid reaches the largest int. `BannedUnlessMoved`: banned accounts. `KeysAreSessions`: refinement of `Sessions`. |
| `MCGameLoginLive.cfg` | pass | `EveryRequestAnswered`, `PanicsOnlyAfterRemoval` and `BannedUnlessMoved`, with a clock and a third admin operation. |
| `MCGameLoginRename.cfg` | violation of `BannedNeverAdmitted` | A rename and a new login under the old name between two statements of a login let a banned account in. |
| `MCGameLoginZone.cfg` | violation of `TimedBanEnds` | A timed ban outlives its displayed end by the zone's offset. |
| `MCSeedCheck.cfg` | pass | `CollectedOnlyGrows` and `UnusableKept` (but for a `blind` process, and for the empty file a start creates), with the switch changed both ways, `AcceptedIsDurable` (unless the last write failed), `EveryRequestDecided`. |
| `MCSeedReload.cfg` | violation of `NoWritesWhenUnusable` | A reload that switches the check on enables writes over files that were never read. |
| `MCHotfixCache.cfg` | pass | `ReloadExact` (but for late stores). `AnswersAreFresh`: a request that begins when the cache is in order is told what its file says at some moment of the request (unless a late store overtakes it), and none is told that a readable file is not there. `EntriesSurvive`, `EveryCallReturns`. |
| `MCServer.cfg` | pass | `RestartAgrees`: file and memory agree. `GuessesBounded`: the lock bounds the passwords tried. `ChangesStick`: credentials. `LanguageAgrees`: pages, strings, configured language. `AnswerFromOneConfig`, `EncryptedForAsker`: answers to clients. `TokensAreSessions`: refinement of `Sessions`. |
| `MCLogFiles.cfg` | pass | `LinesKept`, `NothingForgotten`: no line is lost. `LinesOnce`: none is in two archives. `ArchivesKept`: no archive is written over. `FilesAreJournal`: refinement of `Journal`. |
| `MCHotfixStale.cfg` | violation of `ReloadTakesEffect` | A late store undoes a reload. |

The five violations are real disagreements between the program and what its
comments, tests or notes say; `PROJECT.json` quotes the lines.

**Bounds.** Statistics: two version keys (a failing upsert beside a successful
one), one reporter (reporters do not affect anything), two requests, one failing
statement, one restart. Login: three names and two requests at a time, of
a client or of the panel, three in all, which is what a lost update, a retired key or a uid
conflict takes; two admin operations, so that a ban and its reversal, a login and a
reset, or a ban and a renumbering fit; names and requests are interchangeable, hence the
symmetry in the run without liveness. `MaxUid` is 2, `BaseUid` 1 and the admin may
assign 2, so that uids run out: without its exemption for `Wrapped`, and without the one for
`moved`, `CreateNeverConflicts` is violated in this run. The live run has one client and one
admin request, a clock that passes the end of a ban and of a key, and three admin
operations, so that a ban that lasts throughout a request leaves two for a
renumbering of two accounts: without its exemption for `moved`, `BannedUnlessMoved` is
violated in it. Its `Zone` is 0; what the zone does has a run of its own. Seed check: one
cell (cells only meet in the file), two seeds, two requests, one failure, one restart, two
edits or changes of the switch. Hotfix: one key (keys only
share the lock), two contents, two loads, two reloads that may overlap, one edit
of a file, the directory or the configuration; the violation run needs two
edits. Server: two requests at a time, chosen from all kinds; a login or a page
costs 1 and any other request 2 of a budget of 5, so five logins, or two changes
and a page, or a change and three logins fit, which is what a missed lock, a lost change
or a page in two languages takes. The lock is set after two wrong passwords (three
in the code); all requests come from one client address; one session is
followed. Two of the events edit, reload, failure and kill: an edit and
its reload, a kill in a write, two failures. The operator can write two documents, one
with the regions in another order, one of them without its address, and a route of the
wrong type, one without regions, in another language and with a maintenance window; two of three key
ids have a public key. The array has room for the regions of every document: Go
allocates a new one when it has not, and then copies are safe; likewise every list of
regions has an element, since an empty or null one gives the process a new array. Log: one log with two paths,
two goroutines, four lines, three archives of one date, two failures, one kill, two changes
of the path, so that a rotation can follow one that failed at each of its steps. No bound is used by a property except `MaxRequests` in `EventuallySaved`,
which counts up to it. A larger instance (two keys in the hotfix cache, three
requests in the seed check) was checked for safety while the models were
written and showed nothing else.

**Fairness.** Steps of a goroutine that are enabled are taken (weak fairness): the
Go scheduler is preemptive, SQLite statements and file operations return, and
the 30 s ticker keeps firing. Acquiring a lock is strongly fair: `sync.Mutex`
hands itself to a waiter that has starved for a millisecond, and a waiting
writer of `sync.RWMutex` stops new readers. Nothing is assumed about clients,
operators, signals, failures or the end of the process. `Server` and `LogFiles` state
no fairness: everything checked of them is safety. Runs set
`CHECK_DEADLOCK FALSE` because the bounded inputs run out.

**History variables** say which cases a property leaves out, because the program
does not promise it there. `unsaved`: the last write of the collected file failed; the next
one that succeeds carries every seed along. `removed`: the account the request names was
deleted, renamed or renumbered since it began. `moved`: a renaming gave up or took the name the
request holds, or a renumbering took its uid. `diverged`: the operator edited the file, a write failed,
or a reload met an incomplete document. `overlapped`: a change of the credentials
read the row while another was between its read and its write; the later write
puts back what it had read. `blurred`: a reload changed the language (nothing loads its
strings), a file could not be written or parsed, or a change of the language met
another or a page. `raced`: a reload has written to the array whose copy the request
holds. `adrift` and `astray`: the last rotation put no new file in place, and the
lines written since. Each ends with what repairs it: a complete write or reload, a
start, the next rotation. `view` (see `SeedCheck` above) stays `blind` until the process ends. `PROJECT.json` lists the excluded cases among the hazards.

## 4. What is proved

All theorems hold for any sets of keys, names, cells, requests and so on, finite
or not (but the requests of `Server`, which `GuessesBounded` counts), and any bounds. They assume the named assumption of their module on its
constants (`BoundsAssumption`, `ConstantsAssumption`, `PanelAssumption`, `DispatchAssumption`) and nothing else unless
said below.

**`StatsCounterProofs`**: `TypeCorrect`, `CountsConserved`, `ReportsBounded` and `QuietReportsExact` are the
invariants of the first run; `HotRefinement` and `VersionRefinement` say that both
counters implement `StatsLedger`.

Neither `Conservation` nor the report bounds are inductive. The inductive
invariant `IInv` adds `InHand` (the flusher holds counts of the dispatch counter
only between its swap and its statement, and of the version rows only from the
swap to the end of the upserts) and `ReaderHolds` (what a reporter has read of the
saved half never exceeds the saved half now, and equals it, with nothing in the
flusher's hand, while it is quiet). Without `InHand` the next swap could overwrite
counts in hand; without `ReaderHolds` nothing relates a half-finished report to
the table. The proof that a step preserves it has one lemma per action group.

**`GameLoginProofs`**: with every kind of request, every admin operation and failing
statements anywhere, `TypeCorrect`; `TablesInvariance` (ids, uids, usernames and
live session keys are unique, keys in use and retired keys are disjoint and below
the next one); `MutualExclusion` (`insertMu` is held exactly by the request between
its `CreateLock` and its return); and `RevokedStayRevoked`, the property
`RevokedNeverAccepted`. The last one needs two more facts than its own words: a
retired key is in no row (`RetiredGone`, which is inductive only with the numbering
and uniqueness of keys), and a request that presents one is at its first
statement or was refused (`StaleRefused`). Neither restricts what a client presents. The type invariant is strengthened by
`Local`: a request that is going to insert or rename has a name to write.

**`GameLoginSafety`** builds on these. A handler acts on what an earlier statement read;
its invariants say what of that still holds. `PanicsNeedRemoval` (the property
`PanicsOnlyAfterRemoval`): an account that was found is still there by uid and by
name, unless it was deleted, renamed or renumbered since (`Found`), and no
account has the uid 0 that stands for nil (`UidsGiven`). `CreationsNeverConflict`: with
`MutualExclusion`, nobody else inserts between the lookup and the insert, so name and uid
stay free (`Free`); that the next uid is free to begin with is `NextUidFree`, which holds
unless it wrapped around. `BannedOnlyMovedIn`: the row with the uid to admit has the name that is
looked up for a ban, if it has been banned since the request began (`Judged`);
a deleted account may be replaced by one with its uid, but that one has a new
id, which is in no history of bans (`Observed`). These hold with every admin operation.
A renaming or renumbering is outside `insertMu` and can break both, but only for the
requests it concerns: what a request needs is that no row comes to have its name or its uid,
or loses its name (`OldFor`), and that the rows with its name stay (`KeptFor`), and a
statement that spoils that for a request marks it (`RenameRows`, `UidRows`, `AdminRows`).
The property `BannedNeverAdmitted`, without that exemption, is what `MCGameLoginRename.cfg`
shows violated; `BannedStayOut` proves it under `FixedNames`, that the panel neither renames
nor renumbers: then no request is ever marked (`NoneMoved`).
`EntriesNeedLogin`, the property `EntryNeedsLogin`: the account that `TicketExpiry` looked at
has an expiry and is still the one the request holds when it is let in (`Entered`), because no
operation takes an expiry away from a row (`ExpiriesStay`) and a new row has a new id.
`SessionsOfAccounts` is the refinement `KeysAreSessions`, with every kind of request and
every admin operation: the keys in the table are the live sessions, the retired ones those
that ended, and a request with a ticket is at the door until `TicketFind` lets it in. That
an issue takes a new key and ends one session at most needs the numbering and
uniqueness of `TablesInvariance`. `Sessions` lets a visitor ask with anything; a request with
the empty text is no visitor. The step after the door (expiry, ban, extension) maps to a
stutter or a departure: what was let in is not asked for its key again, which is what
`handleVerify` does.

**`SeedCheckProofs`**: `TypeCorrect`, `AcceptedSeedsDurable`, `CollectedGrows`
and `UnusableLeftAlone` (the property `UnusableKept`), with the switch changed both ways at any
time. The invariant ties the file to the map in memory: the
file has all that the memory has except between an append and the rename that
follows it (`FileUpToDate`), and that stretch lies inside the critical section of
`seedMu` (`HolderInside`), so a request that finds its seed in memory under the mutex
finds it in the file. The last two add `Trusted`: whoever may write
has read both files, unless it is `blind`. A reload that switches the check on breaks exactly
that, which is what `MCSeedReload.cfg` shows.

**`HotfixCacheProofs`**: `TypeCorrect`, `ReloadsAreExact`, `AnswersFresh`,
`EntriesKept`. `ReloadExact` is about the moment after a reload; its invariant says
what holds on the way there while no edit comes between: a key the scan has
passed is cached as its file says and the others are not cached (`ReloadsOK`), the
scan excludes stores (`WriterScans`), and a request about to store holds what its
file says unless it read before the reload (`LoadsOK`). `Calm` is needed because
two reloads overlap: the second may find the first's scan, not the operator's edit,
as the last change.
`AnswersFresh` adds `WindowsOK`. Its property speaks of answered requests only; the
invariant says of every request under way that its window holds what the file says
now and what the cache holds for its key (`TellOK`), and what every other request is
about to store for that key, unless that one read before a reload (`Covers`). A request that
begins after a settled reload has these from `ReloadExact` and `LoadsOK`; a store takes
`Covers` of the others to their `TellOK`, an edit widens the windows of its key.

**`LogFilesProofs`**: every property of the run, from one inductive invariant `IInv`.
`LinesKept` alone is not inductive: that a removed original leaves its lines readable
needs to know, at that step, that the compressed file is whole and equal to it
(`RotationOK`), which in turn needs that the name chosen was free and stays so while
the mutex is held. `DiskOK` says that plain files are always whole and hold only
numbers already printed, without which a new line could be one that is in an
archive already (`LinesOnce`). `OpenOK` says that the logger points to a plain
file, and if to one without a name, that the rotation is about to replace it or
`adrift` records it. The two action properties follow from one step of `IInv`.
`FilesImplementJournal` is the refinement `FilesAreJournal`: `WriteLine` is a write of the
journal, and every other step leaves unchanged what can be read: renaming and
opening (which appends) change names only, a copy holds the lines of an original that
is there too, an original is removed after its copy is whole.

**`ServerProofs`**: every property of the run. `Base` is what all of them need: the types,
the fields a request carries at each step (`IsLocal`, by handler), that a route to be
written was asked for, that a reload decodes a document, and that a process that
does not run serves nobody. `NextBase` proves it of every step; `Arrivals` says
which action alone brings a request to each step, so that each of the following
looks at the few actions that matter to it.

* `ChangesStick`: without an overlap at most one request is between read and write,
  and what it read is still the row (`ChangesOK`).
* `GuessesBounded`: while no lock is set, a wrong password is counted or its request is
  about to count it; once it is set, only those being compared can be added
  (`GuessOK`, over the cardinalities of the two sets of requests).
* `EncryptedForAsker`: an entry of the cache holds the text it is kept under, for the
  key it is kept under (`EntriesOK`).
* `RestartAgrees`: whoever holds `cfgMu` to write carries the marshalled live
  configuration, and while it does `diverged` is set (`RestartOK`); decoding what was marshalled
  over any configuration gives it back (`MarshalledMatches`), and so does
  decoding a document of which no field, of an element either, is missing (`ReloadMatches`).
* `AnswerFromOneConfig`: until a reload writes to it, the array is the one the
  request copied, and a reload that leaves `raced` unset has no regions to write
  (`AnswerOK`); what is found depends on the elements looked at only (`SameFound`).
* `LanguageAgrees`: while a page is made nobody loads strings, and strings, page and
  configuration have one language (`LanguageOK`).

**`ServerSessions`**: `SessionsOfPanel`, the refinement `TokensAreSessions`. A session lives in
a map of the process, so a kill ends them all (`Clear`); expiry, logout and a change
of the credentials end one (`Lapse`); `Validate` lets a request in. `TokensAreGiven`
is the invariant it needs on top of `Base`: a request presents a token only if a login
gave it out, and a restart does not make a token live again.

## 5. Only model-checked

* Liveness (`EventuallySaved`, `EveryRequestAnswered`, `EveryRequestDecided`,
  `EveryCallReturns`): temporal properties under fairness are beyond the proof
  system.
* Every invariant and every action property of a passing run is proved, under no
  other assumption than those on the constants, and for `GuessesBounded` that the requests are
  finitely many.
* Nothing here is computed by a recursive definition, so nothing is lost to the
  provers' lack of induction over data.

## 6. Not modelled

Encryption and hashing (RSA, SHA-256, XOR): out of a model checker's reach; here
the hash of two texts is never the same. The protobuf writer, HTTP routing, fixed SDK
answers: stateless and sequential. The browser page, `verify.py`, `build.sh`: not
part of the server. `updateUserPassword`: no game login reads the password.
`resetAdminCredentials`: nothing calls it. `isDefaultAdminCredential` only decides
whether a warning is shown. A missing `config.json` is the initial state, in which
`findConfig` has written the default one. `handleQueryServerAddress` reads the configuration
twice, two reads of a register. The answer in maintenance holds the current second, so
the cache of encrypted answers grows until the next reload: there is no clock in
`Server`. The order in which the listener, the REPL and the signal handler start. An
array of regions too small for the document, and an empty or null list of regions. `server.log` and the data log are
each an instance of `LogFiles` and do not meet. Columns and answers that decide nothing are left out of the models.

## 7. Plan

Done: `StatsLedger`, `StatsCounter`, `GameLogin`, `SeedCheck`, `HotfixCache`, then
`LogFiles`, `Configuration`, `AdminPanel`, `Dispatch` and `Server`, each with proofs: the data
the program persists first, then what decides an answer to a client, then what
all handlers share.

Then the abstract specifications: `Sessions`, implemented twice, and `Journal`.

Worth adding: an abstract configuration register and the refinement that shows
`Server` implements it outside `diverged`; the composition of `Dispatch` with `SeedCheck`
and `HotfixCache`, whose decisions are free here; liveness of `Server` (every
request ends, under the fairness of section 3).
