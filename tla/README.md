# A TLA+ model of ob

`ob` is a server that keeps several Obsidian vaults in sync (it supervises one
`ob sync` process per vault), indexes their Markdown files into a LanceDB table
with embeddings, and serves the files and the search over REST and MCP. This
directory holds TLA+ modules translated from its source, TLC configurations
that check them on small instances, and TLAPS proofs about them. `PROJECT.json`
lists the runs, the theorems, the hazards and, under `map`, the source lines
every definition stands for.

Source paths below are relative to `src/src/`; `docs/` is `src/docs/`.

## 1. Inventory

| component | state it keeps | operations | what makes it correct |
|---|---|---|---|
| Vault run loop `obsidian/child.ts` | status, failure count, crash and stall windows, handle of the child, stop flag | start, attempt, backoff, markFailed, requestStop, forceKill, stall verdict and its escalation | at most one process, owned by the attempt in flight; ceilings; stall kills are accounted once; a stop ends the loop |
| Sync-log watchdog `obsidian/watchdog.ts` | resolved path, last activity, tail offset | poll: resolve, stat, judge, tail | a child is condemned only for real silence, and a silent one always is |
| Supervisor `obsidian/index.ts` | children, init pipeline, stopPromise | serial init, stop, readiness | a child runs only behind its setup; stop leaves nothing; `/readyz` is honest |
| Setup, sync configuration `obsidian/{setup,syncconfig,backoff}.ts` | none | helper processes with retries and cancellation | attempts are counted, nothing starts after a stop |
| Spawner `obsidian/spawn.ts` | none | spawn, kill, exited | I/O; a failed spawn is a child that has exited |
| Embed batcher `indexer/pipeline.ts` | queue, timer, outstanding call | submit, timer, flush, drain | every caller is answered, with its own vectors |
| Write pipeline `indexer/pipeline.ts` | per-path lock tails, stop flag, counters | upsert, remove, markStopped | rows never go back; they end up those of the file |
| Watcher `indexer/watcher.ts` | debounced event per path | chokidar events, debounce, stop | the last event of a burst is handed over |
| Initial scan `indexer/scanner.ts` | worker positions | walk, mtime gate, content gate, processFile | a changed file is not skipped |
| Indexer `indexer/index.ts` | runtimes, inFlight sets, stopPromise | start, reindex, drop, search, stop | a refused start leaves the disk; the store is not closed under a write |
| Vector store `indexer/store.ts` | the tables, index-build chain, version sidecar | open, upsert, drop, fingerprint, searches, reconcile | one transaction per path; the sidecar never vouches for old rows |
| Search and ranking `indexer/{index,rank}.ts` | none | two arms, fusion, MMR, cap, floor | caps and floors hold of the answer; a scope is a vault of its own |
| Chunker `indexer/chunker.ts` | none | pure function | chunk bounds, headings |
| File and folder services `vault/{files,folders}.ts` | none but the disk | list, write, patch, append, delete, folders | read-modify-write is atomic per path; a listing neither skips nor repeats |
| Per-path lock `vault/lock.ts` | a chain of promises per key | withPathLock | mutual exclusion in the order of arrival |
| Paths, content types, PDF text, status `vault/*` | none | conversions, projections | path safety |
| Server `server.ts` | shutdown promise | start, signals, bounded clean-up and shutdown | everything is stopped once, within the bound |
| Configuration `config/index.ts` | none | parse, defaults, combinations | what is accepted is fit for the parts that use it |
| HTTP `http/*` | none | routing and error mapping | stateless |
| MCP `mcp/*` | sessions, the memo of scope surfaces | session lifecycle, tools, folder scopes | a session ends; a scope is never left |
| Schemas, errors, logging | none | | data only |

How they interact: the server reads the configuration, starts the supervisor,
then the indexer, then the listener, and stops all three in parallel. The
supervisor starts a run loop per vault; each attempt of a run loop starts a
watchdog, which calls back (`onStallVerdict`) into the loop. `ob sync` writes the
vault directory and the log, and takes no lock. chokidar events, the initial scan
and file requests (`reindex`, `drop`) call the same write pipeline, which calls
the batcher, which calls the embedder; commits go to the store. REST handlers and
MCP tools call the file, folder and search services; an MCP session may see a
folder of a vault as if it were a vault.

What is hard here: everything is one event loop, so the interleavings are those
of awaits, timers and callbacks. The dangerous places are state read before an
await and used after it (the scan's fingerprint, the watchdog's stat, the
SIGKILL escalation's handle, the text a PATCH edits), several actors driving one
queue (the batcher, the path lock), clocks compared with one another (mtimes
against rows, activity against spawn time), names that alias (scopes, slugs, lock
keys, cursors), a stop that arrives anywhere, and a process that dies with work
in flight. `PROJECT.json` lists them one by one under `hazards`.

## 2. Modules

| module | models | composes |
|---|---|---|
| `ChildLifecycle` | what a run loop promises its supervisor: attempts, verdicts, stops, kills, without clocks | |
| `VaultChild` | run loop, watchdog, process and log of one vault, with clocks; implements `ChildLifecycle` | |
| `Supervisor` | init pipeline, stop and readiness over any number of vaults | `ChildLifecycle` |
| `EmbedBatcher` | the operations of `class EmbedBatcher`, with no clients of their own | |
| `EmbedClients` | the batcher under callers that keep coming back | `EmbedBatcher` |
| `Indexer` | write pipeline, watcher, scan, start and stop of one vault, the directory and the rows | `EmbedBatcher` |
| `PathMutex` | what a per-path lock promises: one at a time, first come, first served | |
| `PathLock` | the chain of promises of `withPathLock`; implements `PathMutex` | |
| `VaultFiles` | the file and folder requests on one folder, `ob sync` and the watcher beside them | `PathLock` |
| `Listing` | a client that pages through the vaults while entries come and go | |
| `Configuration` | what `loadConfig` accepts and makes of the environment | |
| `Server` | the process over any number of lives on one data directory | `Configuration` |
| `Search` | hybrid search: arms, fusion, MMR, cap, floor, as operators | |
| `Mcp` | sessions, scopes, the memo of surfaces, the confinement of tools | `Search` |
| `VaultChildProofs`, `SupervisorProofs`, `EmbedClientsProofs`, `IndexerProofs`, `VaultFilesProofs`, `ServerProofs`, `McpProofs` | theorems | |
| `Induction` | induction over numbers and finite sets, and what folds compute, for those proofs | |
| `MC*` | the instances TLC checks | |

Definitions keep the source's names where they can. Each operational module
also holds a few operators that are *not* the code: plausible bugs of the
definition they stand before, by which the properties are tried. The module's
header names them and the next-state relations never use them.

### VaultChild

The code keeps instants and compares differences with configured durations, so
the model keeps ages, saturated at the duration they are compared with; no
comparison of the code can tell a saturated age from a larger one. `Tick` is a
unit of a clock taken to be monotone. A `sleep(d)` is a countdown that may be
served late. Actions follow the awaits: `start`, `BackoffEnds` and `AttemptEnds`
are the run loop between two awaits; `PollWakes`, `Resolve...`, `PollStats`,
`PollObserves`, `TailEnds` are the awaits of one poll; `GraceElapses` is the
escalation; `requestStop`, `forceKill`, `markFailed` are the supervisor's calls.
The child may exit, write or stay silent at any time, and may ignore SIGTERM.

Left out: the `restarts` and `stallKills` totals and the pid (nothing decides on
them), the forwarding of output lines, the text the tail emits, a rejecting
`sleep`. The production spawner never throws; `SpawnMayThrow` adds the branch.
A grandchild could hold a dead child's streams open; they are taken to close.
`start()` is called once per vault because the supervisor's loop `continue`s
past a vault it has failed.

### Supervisor

`step` is where the init pipeline is with the vault at `cursor`; helper
processes (`ob sync-status`, `sync-setup`, `sync-config`) run while `step` is
one of the helper steps. Vaults are numbered in configuration order.
`ChildLifecycle` stands in for each run loop.

### EmbedBatcher and EmbedClients

A vector is named by the text it was computed from, so "the right vectors" can
be stated. `Flush` is the synchronous part of `flush()`, `EmbedReturns` and
`EmbedFails` its continuation. The provider's own splitting of a call into
requests (`batchInputs`) is kept; its retries are folded into success or failure
of the call.

### Indexer

A content is the number of the write that made it; equal numbers are equal
sha256. All rows of a path come from one `mergeInsert`, so a path has one row.
`ops[p]` is the chain of `runLocked`: only its head may move. `at` is the await
a call is suspended in (`queued`, `read`, `embedding`, `storing`). mtimes are
counted in half milliseconds since the disk's clock is finer than the column
(`Floor`). `scan[p].prev` is the fingerprint the scan worker looked up.

Abstractions: chokidar reports a change some time after it, only after `ready`,
and what changed before may be lost (`WatcherReady`); the scan walks lazily in
the code and at its start in the model (`walkVault`); reads of the store do not
fail; the counters and `pending` of the status report are left out. `missed` and
`erred` are history: a change that no watcher event will report, an upsert that
was given up on.

### PathMutex, PathLock and VaultFiles

`queues[k]` of `PathLock` is the tail the map holds for a key, `previous[c]` the
promise a call awaits, `slot[c]` whether it waits, is inside or has left, so that
"the map forgets a key only if the leaving call is still its tail" is there to be
got wrong. `PathMutex` is a line per key of which the first is inside.

In `VaultFiles` a content is the set of updates one can read in the file: a PUT
leaves only its own, an append adds to what the request *read*, a PATCH also
takes out what it replaced, `{}` is no file. So a lost update is a set that does
not hold what an acknowledged request wrote. `req[r].at` is the await a request is at:
`read`, `ready` (before the temporary file), `renaming`, `written` (before the
reindex), `stat`; `probe`, `dropping`, `unlinking` for DELETE; folder requests
take no lock and have places of their own. `ob sync` writes and removes at any
time. The watcher's debounced event per document is kept; what the pipeline then
does is one step, since `Indexer` has it in full. `owed`, `missed`
and `late` are history. The folder is one; paths below it are its files.
Front-matter, hashes and encodings are data, and the `indexed` flag of an answer
is left out.

### Listing

A name is a sequence of code points and a path one of names. The walk visits
siblings in the order of names; the cursor is compared as a string, with the
separator in it. One page after another, with entries coming and going between
and during pages.

### Configuration and Server

An environment is a record of the variables something decides on; a number that is
not set, does not parse or is out of bounds is one of a few values on either side of
each bound. `slugify` is modelled by what it does to runs of other characters and
to capitals, since whether two slugs collide is the question. Names of vaults are
not empty.

`Server` is one process after another on one data directory: `Boot` chooses the
environment, the version of the binary and the dimension of its embedder; then
come the awaits of `startServer` and `startIndexer` in order (children first,
warm-up, upgrade decision, drops one table at a time, sidecar in two steps since
the write truncates first, opening vault by vault) with the failure of each, the
clean-up of a failed start, the signals and the bounded shutdown of listener,
supervisor and indexer. A crash may come at any await and takes the process and, as
in its container, its children. The supervisor may hang or reject when stopped.

### Search and Mcp

A chunk is a position in the table; scores are per query and arm. The operators
follow `searchHybrid` (two filtered arms, reciprocal rank fusion over the pool),
`mmr`, the cap per path, the floor and the cut, in the order of `Indexer.search`.
LanceDB is external: it scores, filters before it ranks and breaks ties by content.

A URL in `Mcp` is a sequence of raw segments in which an escape is one element;
the model decodes, refuses and normalises as `scope.ts` does. Binding has an await
(the containment check) at which the cached surface may be evicted, the session's
server closed or another request arrive. The twelve tools and the two resource
handlers are actions of their own, in so far as the scope bears on them: the vault
an argument (or none) leads to, the file on disk that a path names, the rows that
are filed or dropped for it (under the text that was given, `RowsOf`), the paths that
a listing shows. A failure of the
service is `Fails`; its awaits and pages are the subject of `VaultFiles` and
`Listing`. Listings and folder deletions see the notes of the instance, which no
call changes.

## 3. Runs

Bounds are named in each module as `bound:` constants.

| run | what it asks | instance | size |
|---|---|---|---|
| `child` | safety and liveness of one vault; refinement of `ChildLifecycle` | every ceiling on (3 crashes, 2 stalls), timeout 2, grace 1, log tailed, backoff 1..2, spawner may throw | 143 135 states |
| `supervisor` | safety and liveness of setup and stop | 2 vaults, 2 attempts per helper | 3 564 states |
| `batcher` | safety and liveness of the batcher | 3 callers, up to 2 chunks each, flush at 3, provider batches of 2 | 2 252 states |
| `indexer` | rows against the file, in every order of scan, watcher and requests | 1 file, 3 writes (the second blank), 2 lives, no fault, 2 waiting calls, 1 scan worker | 1 085 791 states |
| `indexer_pair` | failures and catching up with a shared batcher, under fairness | 2 files, 2 writes, no file requests, 1 life, 1 fault | 590 402 states |
| `files` | updates, the index and the lock under requests of every kind | 3 requests, a note and an image, 1 step of `ob sync`, 1 failing call | 364 205 states |
| `server` | the data directory, the children and the end of the process | 32 environments, 3 versions, 2 dimensions, 2 vaults; lives unbounded | 69 769 states |
| `mcp` | sessions, scopes and scoped search | 2 requests at a time, 2 session ids, 6 URLs, 2 vaults, 7 chunks, 4 paths, 6 searches, a cache of 1 | 231 810 states |

Four more runs end in a counterexample: `supervisor_hung`, `files_scoped`,
`listing` and `mcp_spelled`, see section 6.

Why the bounds are enough. *Child*: durations keep the order the defaults have
(poll below timeout, timeout below healthy reset, windows long enough to reach
their ceilings) and are large enough that a poll, a grace and a backoff can
overlap; the failure count saturates above the cap of the backoff. *Supervisor*:
two vaults are the least for "one is served while another is being set up"; two
attempts include a retry. *Batcher*: two callers can fill a batch while the third
queues behind it; a call of up to four texts spans two requests of the provider.
*Indexer*: the lock, the gates and the freshness check concern one path; three
writes, the second of which chunks into nothing, give an old and a new content
with and without rows between them, two calls one that waits for the other, two
lives a restart with work lost. The two files of `indexer_pair` are there for what
they share, the batcher, and its fault for the calls that are given up on; one fault
reaches the retry of a store call and not the failure of every try, which is left to the
theorem `QuietIsFresh`. Here
mtimes never go back (`MtimesRegress`, see sections 5 and 6).
*Files*: three requests give a holder, one that waits behind it and one that
arrives as the holder leaves, or two of them and a folder deletion; the image is
what a folder holds beside documents. *Server*: three versions make a binary older, equal and newer than the
data; two vaults one that is configured and one that is not. The theorems of
section 5 lift the bounds of all of these. *Mcp*: the URLs are a
mount, a folder, an alias of it, a vault whose name glues to the folder's key, one
that climbs out and one that names nothing; the chunks put a neighbour with a
longer name beside the folder and another folder in it. The paths are a folder, one of another folder with empty segments inside and at its
end, a note spelled with a dot, and one the checks refuse. On Bun the URL that climbs
out by an escape is refused before it is parsed (docs/changes/0014, line 354): here it
tries the check behind that. Only one of the two
requests calls every tool, the other lists the vaults: a call touches no request but
its own, while both bind, route and end sessions. Requests are symmetric in `files` and session
ids in `mcp`: neither is ordered or named in a property, and no liveness is
checked there.

Deadlock is checked where the system cannot stop (`child`, `batcher`, `server`,
`mcp`) and not where writes, requests or lives are bounded or stop() ends everything.

What the properties say:

- `OneOwnedProcess`: no process, escalation or poll outlives its attempt.
- `NotReadyOnceCondemned`, `ReadyMeansServed`: readiness never counts a condemned vault.
- `CeilingsHold`, `StallsCreditedByVerdict`: a window at its ceiling has failed the
  vault; a stall is accounted once, to the attempt the verdict fell on, and no recovery
  or crash takes an entry out of the window.
- `KillJustified`, `WedgeEnds`: a child is condemned only for a full threshold
  of silence, and a silent one always goes down.
- `RecoveryIsSticky`: a vault read as healthy does not flap back.
- `GivenUpAtACeiling`: the loop gives a vault up at a ceiling it has and has reached,
  and retries it otherwise; that a ceiling of 0 is none is left to the theorems.
- `StopCompletes`, `QuietOnceStopped`, `SetupGatesEveryChild`,
  `EveryVaultSettles`: stop and setup.
- `ImplementsLifecycle`: `VaultChild` implements `ChildLifecycle`, so what
  `Supervisor` relies on is what the run loop does.
- `NothingStranded`, `EverySubmissionAnswered`, `OwnVectors`: the batcher.
- `QuietMeansFresh`: when the scan is over and nothing is in flight, the rows of
  a file are those of its content, with two exceptions that the formula spells
  out: an upsert that failed and was counted, and a change nobody was watching for
  that the scan cannot see, because the file is gone or has the mtime that the scan
  found stored with an earlier content.
- `RowsNeverGoBack`: a path's rows are never replaced by those of an older content.
- `NoTrackedWriteAfterClose`: stop() does not close the store under a write of
  the watcher or the scan.
- `CatchesUp`: the index is again and again quiet while it is watching.
- `NoLostUpdate`: what a request was told has been written can be read until a
  later PUT, a deletion or `ob sync` replaces it.
- `HeldWhileWorking`: a request holds its lock exactly while it works on the file,
  whatever way the section ends.
- `QuietMeansIndexed`: once nothing runs, the rows are those of the file, but for
  an index call that failed, a folder deletion that dropped rows late and an unlink
  that failed after the drop.
- `ImplementsMutex`: the chains of promises implement `PathMutex`.
- `AcceptedConfigurationIsFit`: no two slugs name one table, directory or lock, and
  the numbers suit the watchdog and the supervisor.
- `SidecarTellsTheRows`: the sidecar never vouches for rows of another version, at
  any crash, but for vaults that were not configured at the upgrade.
- `RefusedStartLeavesTheDisk`, `ServedTablesFit`, `ExitStopsTheChildren`,
  `EveryStopEnds`: start, failed start and shutdown.
- `CallsStayInScope`, `OpenServersAreSessions`: a call touches only what the URL of
  its own session stands for; no protocol server is left open without a session.
- `DeletedNotesLoseTheirRows` (`mcp_spelled`): what `deleteFile` says of the drop that
  precedes the unlink, and does not do for every path it accepts.
- `ScopeIsAVaultOfItsOwn`: a scoped search answers as the search of the folder as a
  vault. `SearchKeepsTheCaps`: the cap per path, the floor and the limit hold of the
  answer, and no hit is left out that they would allow.

Some properties are stated in the modules and listed by no run, since a listed one
bears on the same hazard. They are theorems of section 5 instead: `TypeOK` of
`EmbedClients`, `Indexer` and `Server` (`TypeCorrect`), `NoUpsertStranded`
(`NobodyIsStranded`), `OneCallAtATime` (`CallsDoNotOverlap`), `StallWindowOnlyAges`
(`StallsAreNotForgotten`), `NothingStartsAfterTheEnd` (`TheEndIsFinal`) and
`NothingLaunchedAfterStop` (`StopLaunchesNothing`).

## 4. Fairness

*Child*: timers are served, file operations complete, streams of a dead process
close, SIGKILL kills, and `Supervisor.stop` follows an unanswered SIGTERM with
`forceKill`. Nothing makes a child exit, write, or obey SIGTERM.
*Supervisor*: the same, and `HelperFairness`: every `ob` helper ends. The code
sets no timeout on a helper; `supervisor_hung` drops that assumption.
*Batcher*: the timer fires and the outstanding call settles, one way or the other.
*Indexer*: the process keeps doing what it has to do (`WF(Progress)`): promises
settle, timers fire, chokidar reports. Nothing is assumed of the writers, of
requests or of the end of the process. The provider's requests have no timeout in
the code: that an embed() call settles at all is an assumption.
*Server*: every await of a start ends, one way or the other, and the timeout of a
bounded stop fires (`WF(Progress)`). No signal, no crash and no settling of a part
that is being stopped is assumed: `EveryStopEnds` rests on the timeouts.
*Files*, *Listing* and *Mcp* state safety only.

## 5. Proofs

TLAPS (SMT, Zenon, LS4) checks every theorem; constants are constrained only by
the named ASSUMEs of each module, which TLC evaluates too. `PowersAssumption` of
`VaultChild` states that powers of two are natural numbers, which the provers do
not know.

Every invariant and every action property that a run checks, and the two refinements,
are proved; the runs show them on an instance, the theorems for every value of the
constants. What is left to TLC is liveness and the four counterexamples.

Windows are summed, batches are concatenated, paths are joined and hits are picked
one at a time, so several of these theorems need induction over data. The library's
induction theorems take a predicate, which no installed prover can instantiate.
`Induction` goes round that: `WFMin` speaks of sets only, and gives every non-empty
set of numbers a least member; from it come induction for a set of numbers that one
can name (`NatInduction1`), for finite sets (`FiniteInduction`), that a recursion and
a fold have a solution (`Recursion`, `Folding`), and that a fold from left to right,
as `FoldLeft` is defined, computes the recursion over the positions (`LeftFoldTurns`).

- `VaultChildProofs`: the inductive invariant is
  `TypeOK /\ OneOwnedProcess /\ NotReadyOnceCondemned /\ AttemptInv /\ PollInv /\
  SilenceInv`. `OneOwnedProcess` alone is not inductive: it needs what each
  place of the run loop implies about the process and the verdict
  (`AttemptInv`), what each place of the poll implies (`PollInv`), and that
  the recorded silence is bounded by the attempt's age (`SilenceInv`), from
  which `KillsAreJustified` follows. Theorems `Invariance`, `TypeCorrect`,
  `Ownership`, `Readiness`, `KillsAreJustified`, `TheEndIsFinal`.
  - `CeilingsAreKept`: `Count` is a sum over the ages in the order a CHOOSE takes them;
    it does not depend on that order (`CountIsSum`), a pushed failure adds one, and
    ageing only takes away (`CountFacts`). The ceiling itself is then inductive.
    `NeverGivenUpEarly` is the converse, and covers the ceiling 0, which the run has not.
  - `VerdictsAreCredited`, `RecoveryIsNotTakenBack`: both rest on `EvidenceInv`. While
    the attempt lasts a verdict that has been issued is recorded; and a running watchdog
    has kept no evidence yet and has observed no later than the child is old. So the
    evidence only grows from the live reading of `/healthz` to the judgement at the end,
    although three variables carry it in turn. `StallsAreNotForgotten`: an entry of the
    stall window leaves it by age only.
  - `Implementation`: initial states to initial states and each step to a step or a
    stutter of `ChildLifecycle`, under the map `condemned <- stallReason`.
- `SupervisorProofs`: `TypeOK /\ ChildInv /\ StopInv /\ PipelineInv /\
  SetupGatesEveryChild`, for any number of vaults. Theorems `Invariance`,
  `TypeCorrect`, `StopIsQuiet`, `SetupComesFirst`, `ReadinessIsHonest`,
  `StopLaunchesNothing`.
- `EmbedClientsProofs`: `TypeOK /\ NothingStranded /\ EachOnce`; `EachOnce`
  says that a submission is in one place, once, and only while its caller waits,
  so no promise is settled twice. Theorems `Invariance`, `TypeCorrect`,
  `NobodyStranded`, `CallsDoNotOverlap`. `NobodysVectors` adds `OwnChunks` (what is in
  line is what its caller asked for last) and the facts that the requests of the
  provider are the pieces of the batch, put together again in its order (`EmbedIsWhole`),
  and that the slice a caller is handed is its own piece (`SliceIsPart`).
- `IndexerProofs`, for any number of files, writes, waiting calls, scan workers,
  lives and faults, from `IndexerAssumption`. The invariants are stated of one path,
  and a step is first reduced to what it does to its own path and to the others
  (`CallSteps`, `RequestSteps`, `WatchSteps`, `GlobalSteps`), so that each of them is
  proved against a few kinds of step and not against every action:
  - Only the head of a path's calls has begun (`HeadMoves`), and what it has read lies
    between the rows and the file (`Ordered`): `OrderOfRows`, with `TypeCorrect`.
  - `Places`: the scan and a file request have one call each at most; what the stages
    of start and stop imply about calls and events; the last event of a path is the
    one its file calls for. `CloseWaits`.
  - `Timely` is `Ordered` for mtimes and needs the hypothesis that no write leaves an
    older one (`~MtimesRegress`). It gives `RecheckIsIdle`: the freshness re-check
    then never skips. Without the hypothesis TLC refutes `SkipsOnlyStale` and
    `QuietMeansFresh`, so it is not a convenience of the proof.
  - `Followed` says which difference between a file and its rows is remembered, and by
    whom: an event to come, the last call of the path, a DELETE under way, the scan
    that has yet to decide, or one of the named exceptions; and while nobody watches
    (`Kept`) that the next scan will find it. `QuietIsFresh` is the case in which
    none of these is left. The invariant is what showed that an earlier and narrower
    form of the second exception did not hold: a blank content may take away the rows
    after the scan has looked up the mtime.
  - `NobodyIsStranded` is inductive with the types of the queue alone: `flush()` loses
    nobody whether it is a no-op or not (`FlushReaches`), which is what lets `drain()`
    of stop() and the end of a call come in any order.
- `ServerProofs`, for any set of environments, versions, dimensions and vaults, from
  `ServerAssumption` and `ConfigurationAssumption`. `TypeCorrect` needs what the stages
  of a start imply about the environment, the binary and the vaults (`Typed`):
  - `AcceptedFits` is about what `loadConfig` accepts, for all bounds and defaults.
  - `TheSidecarIsTrue`: until an upgrade has written the sidecar, no table of a
    configured vault is left but those still to be dropped (`UpgradeInv`).
  - `RefusalIsHarmless`: nothing touches the directory before the decision on the
    upgrade, and nothing does when the data are newer (`StartInv`).
  - `NoOrphans`: in a shutdown children are alive only while the supervisor's part of
    it is pending (`ChildrenInv`). `ServedVaultsFit`: the vaults opened so far have
    tables of the embedder's dimension (`OpenInv`).
- `VaultFilesProofs`, for any number of requests, files, mounts, faults and steps of
  `ob sync`, from `LockAssumption` and `FilesAssumption`:
  - The lock. Mutual exclusion is not inductive: it needs that the calls which have
    come and not left form one line per key (`Lined`), each awaiting the one before
    it while the map holds the last (`Chained`). `LockSafe`, `LockExcludes`, and
    `LockImplementsMutex`, each step to a step or a stutter of `PathMutex`.
  - The services use it as `withPathLock` allows (`FilesUseTheLock`), so that they see
    the mutex (`FilesImplementMutex`); at every await a request is in its own file's
    queue, inside it or out of it, as the place it is at says (`Stand`,
    `SectionsEndTheirLock`).
  - `NoUpdateIsLost`, under the hypothesis `OneMount` that a file has one name: the
    invariant adds `FreshBases`, that what a request has read still holds all that
    is owed in the file, which only the mutual exclusion keeps true. Without the
    hypothesis `files_scoped` refutes it.
  - `TheIndexFollows`: the invariant says of every document what a waiting event,
    or none, implies about its rows (`Followed`), with the documents between a drop
    and the unlink set apart (`Unlinking`).

- `McpProofs`, for any URLs, vaults, paths, searches, requests, session ids and any size
  of the memo, from `McpAssumption` (a slug is a name without the code `NUL`, as
  `slugify` leaves it) and `SearchAssumption`:
  - The invariant (`SlotsOk`, `SessionsOk`, `CacheOk`, `ServersOk`): what a request, a
    session or a memoised surface serves is what its URL was resolved to, and an
    answer is one that scope allows. `CallsStayInScope` alone is not inductive: it says
    nothing of a request that is still binding or of the surfaces in the memo. A surface
    is looked up by its key, so it needs that two scopes never share one, which is what
    the separator in `scopeKey` is for: `ScopeKeys`.
  - `ServersFollowSessions`; `ScopeHolds`, under `ReadAsMeant`: what `parseScope` makes
    of each URL is what the URL stands for to its reader (the `means` of an instance;
    TLC checks it for the spellings there). The paths that tools are called with may be
    spelled in any way the code lets through: a row filed under `a/./b` is still in `a`.
  - `ScopedSearch`. A ranking is characterised by what it lists and in which order, ties
    included, and not by how it is computed (`RankedListing`, `ArmListing`,
    `FusedListing`); the picks of MMR are a fold (`PicksTurns`) that looks at paths only
    to compare them. So a search of the rows under a prefix, and that of the folder as a
    vault, rank, fuse, pick, cap and cut alike. `CapsHold` counts the hits of a path
    among those picked, and shows that each hit left out found its path full or fell
    under the floor. Scores are integers, in units of `Scale`.

Only model-checked: all liveness (fairness and ENABLED are out of this prover's reach):
`WedgeEnds`, `StopCompletes`, `EveryVaultSettles`,
`EverySubmissionAnswered`, `CatchesUp`, `EveryStopEnds`. `Listing` has no property that
holds to prove: what its documentation says of the cursor is refuted (section 6).

## 6. Where the code and its documentation part

With a run:

- `supervisor_hung`: stop() waits for the init pipeline before it signals anybody,
  and no helper has a timeout.
- `files_scoped`: the lock key holds the path as the request gave it; through a scope
  it is relative to the folder, so that a scoped and an unscoped request for one
  file take two locks, and an acknowledged PATCH or append is overwritten.
- `listing`: siblings are walked in the order of their names but the cursor compares
  whole paths: with a folder `a` and a file `a.m` an entry may be on no page.
- `mcp_spelled`: `./a.md` and `a//b.md` pass the checks and are resolved for the file,
  but rows are dropped under the text that was given: the deleted note keeps its rows
  until the watcher reports the unlink.

Stated as definitions, without a run; TLC shows each violated when it is put in the
cfg named:

- `SilentAttemptNeverResets` (`child`): a child that never wrote is taken for
  recovered when its log is resolved late (`child.ts:561`, docs/specs/obsidian-sync).
- `VerdictOnLiveChild` (`child`): the watchdog polls between a child's exit and
  the flush of its streams (`child.ts:513`).
- `SkipsOnlyStale` (`indexer` with `MtimesRegress = TRUE`, `MaxClock = 2` and `Blank = {}`): a file replaced by one with
  an older mtime is skipped by the freshness re-check and stays stale
  (`pipeline.ts:364`). It is the only thing the re-check ever does: with mtimes that
  never go back it skips nothing (`RecheckIsIdle`).
- `NoWriteAfterClose` (`indexer`): the store is closed under the write of a file
  request, which `inFlight` does not hold (`indexer/index.ts:386`).

Seen while modelling. *Index*: the rows of a file removed while the process is down
are never removed; the mtime is read after the content, so that with an equal
mtime a later scan takes stale rows for fresh (an exception of `QuietMeansFresh`);
the stored mtime is floored but compared unfloored (`scanner.ts:165`), so the mtime
gate rarely fires on a file system with a finer clock and the file is read and
hashed instead; a failed embed call rejects every file of the batch and nothing
retries them; a batch may exceed 32 chunks; `watcher.stop` hands pending events to
a pipeline that has been marked stopped; a stop before chokidar is ready waits out
its timeout. *Child*: after one crash the state is `starting`, where the
specification says `running`. *Files*: `indexed: true` is answered even when
embedding or storing failed, since the pipeline swallows its errors
(`files.ts:184`); a recursive folder deletion drops rows after the removal and
without a lock, where the specification drops first, so that a file made again in
between loses its rows (`late`); an unlink that fails after the drop leaves a file
without rows and no event to bring them back; a crash or a failed write leaves a
temporary file that is listed and synced; `buf.replace(old, new)` reads `$&` in
the new text as a pattern (`files.ts:450`); two
spellings of a path take two locks, as two mounts do in `files_scoped`, and rows
filed under `./a.md` stay when the watcher reports that `a.md` is gone. *Chunker*: skipped
heading depths nest a stack that is not that of the document (depths 1, 3, 3 give
three levels), and an introductory paragraph of a section that is otherwise a flat
list is dropped. *Server*: a vault whose hydration throws leaves its store and
watcher open; `teardownAll` awaits `inFlight` without a bound; an upgrade drops
the tables of the configured vaults only, and one that is configured again later
is served with rows of the old pipeline (`skipped`); a change of model at equal
dimension keeps the old vectors; a comment of `startServer` promises that a second
SIGTERM retries the shutdown but the latch is never reset and exit follows.
*MCP*: sessions have no expiry, a shutdown does not close them, and a POST
without session that is not `initialize` leaves its transport to the garbage collector.

## 7. Not modelled, and the plan

Not modelled, and why: the chunker (a pure text algorithm; a model of it would be a
transliteration, and its laws need induction over text); the text the watchdog's
tail emits; the counters and `pending` of the status reports; the builds of LanceDB's
indices (they change no answer); the HTTP layer (it keeps no state between
requests); PDF
extraction, content types beyond what is indexed or text, rendering, logging,
schemas, the real spawner and embedding models: I/O or data without behaviour
that a state machine would tell apart.

What could follow, in this order:

1. A listing that nobody changes: that the pages are complete if no name is a prefix
   of a sibling, as a property of `Listing` and as a theorem.
2. `LogTail`: the watchdog's tail over rotated and partially written lines
   (`watchdog.ts` 284-306, 454-512): every line at most once, whole.
3. `hydrateCounters` against the watcher, and the `indexed` answer.
4. The chunker's section stack and its bounds against a reference definition.
