------------------------------ MODULE Indexer -------------------------------
(***************************************************************************)
(* The search index of one vault, kept in step with a directory that       *)
(* another process (`ob sync`) and the REST/MCP file operations write:     *)
(*   startIndexer, stop, reindex, drop  src/src/indexer/index.ts           *)
(*   the per-path write pipeline        src/src/indexer/pipeline.ts        *)
(*   the debounced watcher              src/src/indexer/watcher.ts         *)
(*   the initial scan                   src/src/indexer/scanner.ts         *)
(*   rows in the LanceDB table          src/src/indexer/store.ts           *)
(* and, as callers, writeFile and deleteFile of src/src/vault/files.ts.    *)
(*                                                                         *)
(* A content is the number of the write that produced it (0: no file, no   *)
(* rows); equal numbers are equal sha256.  All rows of a path are written  *)
(* by one mergeInsert, so a path has one row here.  mtimes are counted in  *)
(* half milliseconds: the disk has a finer clock than the rows.            *)
(* HasAnyLock, CallCommitsMergeOnly, FirstKind and ScanTracked are not the *)
(* code: each is a plausible bug of the definition it precedes.            *)
(***************************************************************************)
EXTENDS Integers, Sequences, SequencesExt, FiniteSets

CONSTANTS
    Paths,       \* the Markdown files of the vault
    Blank,       \* the contents that chunk into nothing
    Workers,     \* concurrency of the initial scan
    StoreTries,  \* STORE_RETRY_MAX
    MaxChunks,   \* EMBED_BATCH_MAX_CHUNKS
    BatchLimit,  \* inputs per request of the embedding provider
    MtimesRegress, \* may a write leave an OLDER mtime (mv, cp -p, a restore)?
    ApiPaths,    \* bound: the files that file requests touch
    MaxGen,      \* bound: writes to the directory
    MaxClock,    \* bound: half milliseconds
    MaxCalls,    \* bound: pipeline calls waiting for one path
    MaxFaults,   \* bound: failing embed() and store calls
    MaxLives     \* bound: starts of the process

ASSUME IndexerAssumption ==
    /\ {Workers, StoreTries, MaxChunks, BatchLimit,
        MaxCalls} \subseteq Nat \ {0}
    /\ {MaxGen, MaxClock, MaxFaults, MaxLives} \subseteq Nat
    /\ Blank \subseteq 1..MaxGen /\ ApiPaths \subseteq Paths
    /\ MtimesRegress \in BOOLEAN

VARIABLES
    disk,      \* disk[p]: content and mtime
    gens,      \* the content written last
    clock,     \* the file system's clock
    changed    \* changed[p]: a change chokidar has not reported yet
worldVars == <<disk, gens, clock, changed>>

VARIABLE row   \* row[p]: the content p was chunked from, and the mtime stored

VARIABLES
    life,      \* runtime.state; "down" without a process
    stop,      \* how far stop() has come; pipeline.stopped = (stop # "no")
    pending,   \* the watcher's debounced event per path
    ops,       \* ops[p]: pipeline calls for p, in the order of runLocked
    scan,      \* scan[p]: where the initial scan is with p, and its `prev`
    http,      \* the file request that holds withPathLock(p), by stage
    faults,    \* bound: faults so far
    lives      \* bound: starts so far
processVars == <<life, stop, pending, ops, scan, http, faults, lives>>

\* The embed batcher of the vault's pipeline; its clients are the paths.
VARIABLES queue, queuedChunks, timer, flushing, batch, answer
batcherVars == <<queue, queuedChunks, timer, flushing, batch, answer>>
INSTANCE EmbedBatcher WITH Clients <- Paths

\* History: a change no watcher event will ever report, and an upsert that
\* was given up on, until the rows match the file again.
VARIABLES missed, erred

vars == <<worldVars, row, processVars, batcherVars, missed, erred>>

-----------------------------------------------------------------------------
Nothing == [gen |-> 0, mtime |-> 0]
Exists(p) == disk[p].gen # 0
Indexed(p) == row[p].gen # 0
Stopped == stop # "no"
Watching == life \in {"scanning", "ready"} /\ ~Stopped

\* What the rows of a path are when they are those of its file.
Match(r, d) == r.gen = IF d.gen \in Blank THEN 0 ELSE d.gen

\* rowToInsert floors the mtime to the millisecond of the column.
Floor(mtime) == 2 * (mtime \div 2)

Call(kind, by) == [kind |-> kind, by |-> by, at |-> "queued",
                   gen |-> 0, mtime |-> 0, tries |-> 0]

NoScan == [p \in Paths |-> [at |-> "done", prev |-> Nothing]]

Init ==
    /\ disk = [p \in Paths |-> Nothing] /\ row = [p \in Paths |-> Nothing]
    /\ gens = 0 /\ clock = 0 /\ changed = [p \in Paths |-> FALSE]
    /\ life = "down" /\ stop = "no"
    /\ pending = [p \in Paths |-> "none"] /\ ops = [p \in Paths |-> <<>>]
    /\ scan = NoScan /\ http = [p \in Paths |-> "idle"]
    /\ faults = 0 /\ lives = 0
    /\ BatcherInit
    /\ missed = [p \in Paths |-> FALSE] /\ erred = [p \in Paths |-> FALSE]

-----------------------------------------------------------------------------
(* The vault directory, written by `ob sync` and by the API.               *)

Mtimes == clock..MaxClock \cup (IF MtimesRegress THEN 0..clock ELSE {})

\* A new content for p, with the time of the clock or, restored from
\* elsewhere, an older one.
PutOnDisk(p) ==
    /\ gens < MaxGen
    /\ gens' = gens + 1
    /\ \E t \in Mtimes :
          /\ t <= clock + 1
          /\ clock' = IF t > clock THEN t ELSE clock
          /\ disk' = [disk EXCEPT ![p] = [gen |-> gens + 1, mtime |-> t]]
    /\ changed' = [changed EXCEPT ![p] = life # "down"]

TakeOffDisk(p) ==
    /\ disk' = [disk EXCEPT ![p] = Nothing]
    /\ changed' = [changed EXCEPT ![p] = life # "down"]
    /\ UNCHANGED <<gens, clock>>

SyncWrites(p) == PutOnDisk(p) /\ UNCHANGED <<row, processVars, batcherVars>>
SyncRemoves(p) ==
    /\ Exists(p) /\ TakeOffDisk(p)
    /\ UNCHANGED <<row, processVars, batcherVars>>

-----------------------------------------------------------------------------
(* The write pipeline.  Calls for one path run one at a time, in the order *)
(* they were made; i is a call's place in that order.                      *)

Enqueue(p, call) ==
    /\ Len(ops[p]) < MaxCalls
    /\ ops' = [ops EXCEPT ![p] = Append(@, call)]
Goes(p, i, call) == ops' = [ops EXCEPT ![p][i] = call]

HasAnyLock(p, i) == TRUE
HasLock(p, i) == i = 1

\* The promise of a call settles and its caller goes on: a file request
\* answers (or unlinks the file whose rows it dropped), a scan worker takes
\* the next file.
Settles(p, i) ==
    /\ ops' = [ops EXCEPT ![p] = RemoveAt(@, i)]
    /\ http' = IF ops[p][i].by # "http" THEN http
               ELSE [http EXCEPT ![p] = IF @ = "drop" THEN "unlink" ELSE "idle"]
    /\ scan' = IF ops[p][i].by # "scan" THEN scan
               ELSE [scan EXCEPT ![p].at = "done"]

callVars == <<life, stop, pending, lives>>

\* upsertImpl up to the read, removeImpl up to the store.
CallBegins(p, i) ==
    /\ ops[p][i].at = "queued" /\ HasLock(p, i)
    /\ \/ /\ Stopped \/ (ops[p][i].kind = "upsert" /\ ~Exists(p))
          /\ Settles(p, i)
       \/ /\ ~Stopped /\ ops[p][i].kind = "upsert" /\ Exists(p)
          /\ Goes(p, i, [ops[p][i] EXCEPT !.at = "read", !.gen = disk[p].gen])
          /\ UNCHANGED <<http, scan>>
       \/ /\ ~Stopped /\ ops[p][i].kind = "remove"
          /\ Goes(p, i, [ops[p][i] EXCEPT !.at = "storing"])
          /\ UNCHANGED <<http, scan>>
    /\ UNCHANGED <<worldVars, row, callVars, faults, batcherVars>>

\* The mtime is read AFTER the content; a file gone by now is given the
\* wall clock.  Then its chunks go to the batcher.
StatMtime(p) == IF Exists(p) THEN disk[p].mtime ELSE Floor(clock)
CallStats(p, i) ==
    /\ ops[p][i].at = "read"
    /\ \/ /\ Stopped /\ Settles(p, i)
          /\ UNCHANGED batcherVars
       \/ /\ ~Stopped
          /\ answer[p].is = "idle"
          /\ Goes(p, i, [ops[p][i] EXCEPT !.at = "embedding", !.mtime = StatMtime(p)])
          /\ Submit(p, IF ops[p][i].gen \in Blank THEN <<>>
                       ELSE <<(<<p, ops[p][i].gen>>)>>)
          /\ UNCHANGED <<http, scan>>
    /\ UNCHANGED <<worldVars, row, callVars, faults>>

\* The freshness re-check against the rows the path has by now.
StaleWrite(p, call) ==
    Indexed(p) /\ row[p].gen # call.gen /\ row[p].mtime > call.mtime

CallEmbedded(p, i) ==
    /\ ops[p][i].at = "embedding" /\ answer[p].is \in {"vectors", "rejected"}
    /\ \/ /\ answer[p].is = "rejected" \/ Stopped \/ StaleWrite(p, ops[p][i])
          /\ Settles(p, i)
       \/ /\ answer[p].is = "vectors" /\ ~Stopped /\ ~StaleWrite(p, ops[p][i])
          /\ Goes(p, i, [ops[p][i] EXCEPT !.at = "storing"])
          /\ UNCHANGED <<http, scan>>
    /\ answer' = [answer EXCEPT ![p] = Idle]
    /\ UNCHANGED <<worldVars, row, callVars, faults,
                   queue, queuedChunks, timer, flushing, batch>>

\* store.upsert replaces all rows of the path (by none, for a blank file) in
\* one transaction; store.drop deletes them.
Rows(call) ==
    IF call.kind = "remove" \/ call.gen \in Blank THEN Nothing
    ELSE [gen |-> call.gen, mtime |-> Floor(call.mtime)]

CallCommitsMergeOnly(p, i) ==
    /\ ops[p][i].at = "storing" /\ stop # "closed"
    /\ row' = [row EXCEPT ![p] = IF ops[p][i].gen \in Blank THEN @ ELSE Rows(ops[p][i])]
    /\ Settles(p, i)
    /\ UNCHANGED <<worldVars, callVars, faults, batcherVars>>
CallCommits(p, i) ==
    /\ ops[p][i].at = "storing" /\ stop # "closed"
    /\ row' = [row EXCEPT ![p] = Rows(ops[p][i])]
    /\ Settles(p, i)
    /\ UNCHANGED <<worldVars, callVars, faults, batcherVars>>

LastTry(call) == call.tries + 1 = StoreTries

\* A store call fails: before its transaction, after it (building an index
\* is part of the call), or because the store was closed under it.
StoreFails(p, i) ==
    /\ ops[p][i].at = "storing"
    /\ \/ /\ faults < MaxFaults /\ faults' = faults + 1
          /\ row' = [row EXCEPT ![p] = Rows(ops[p][i])] \/ UNCHANGED row
       \/ stop = "closed" /\ UNCHANGED <<row, faults>>
    /\ \/ /\ ~LastTry(ops[p][i])
          /\ Goes(p, i, [ops[p][i] EXCEPT !.tries = @ + 1])
          /\ UNCHANGED <<http, scan>>
       \/ LastTry(ops[p][i]) /\ Settles(p, i)
    /\ UNCHANGED <<worldVars, callVars, batcherVars>>

-----------------------------------------------------------------------------
(* The embed batcher, seen from the process.                               *)

rest == <<worldVars, row, life, stop, pending, ops, scan, http, lives>>

BatchTimer == TimerFires /\ UNCHANGED <<rest, faults>>
BatchEmbedded == EmbedReturns /\ UNCHANGED <<rest, faults>>
BatchFails ==
    /\ faults < MaxFaults /\ faults' = faults + 1
    /\ EmbedFails
    /\ UNCHANGED rest

-----------------------------------------------------------------------------
(* The watcher: chokidar reports a change (it has begun to when its first  *)
(* traversal is over); of a burst of reports the last kind wins.           *)

FirstKind(before, kind) == IF before = "none" THEN kind ELSE before
LastKind(before, kind) == kind

Notices(p) ==
    /\ Watching /\ changed[p]
    /\ changed' = [changed EXCEPT ![p] = FALSE]
    /\ pending' = [pending EXCEPT
                     ![p] = LastKind(@, IF Exists(p) THEN "upsert" ELSE "remove")]
    /\ UNCHANGED <<disk, gens, clock, row, life, stop, ops, scan, http, faults,
                   lives, batcherVars>>

DebounceEnds(p) ==
    /\ pending[p] # "none"
    /\ pending' = [pending EXCEPT ![p] = "none"]
    /\ Enqueue(p, Call(pending[p], "watcher"))
    /\ UNCHANGED <<worldVars, row, life, stop, scan, http, faults, lives,
                   batcherVars>>

\* The files the scan is about, those there when it starts.
walkVault == [p \in Paths |-> [at |-> IF Exists(p) THEN "todo" ELSE "done", prev |-> Nothing]]

\* chokidar's first traversal is over.  What changed before it came by is
\* not reported.  The scan then lists the directory.
WatcherReady ==
    /\ life = "starting" /\ ~Stopped
    /\ life' = "scanning"
    /\ \E lost \in SUBSET Paths :
          changed' = [p \in Paths |-> changed[p] /\ p \notin lost]
    /\ scan' = walkVault
    /\ UNCHANGED <<disk, gens, clock, row, stop, pending, ops, http, faults,
                   lives, batcherVars>>

-----------------------------------------------------------------------------
(* The initial scan: Workers files at a time.                              *)

scanRest == <<worldVars, row, life, stop, pending, http, faults, lives,
              batcherVars>>
Busy == {p \in Paths : scan[p].at \in {"looked", "gated", "submitted"}}

ScanLooks(p) ==
    /\ scan[p].at = "todo" /\ Cardinality(Busy) < Workers
    /\ scan' = [scan EXCEPT ![p] = [at |-> IF Indexed(p) THEN "looked" ELSE "gated",
                                    prev |-> row[p]]]
    /\ UNCHANGED <<scanRest, ops>>

\* The mtime gate: as stored means unchanged.
SameMtime(p) == Exists(p) /\ disk[p].mtime = scan[p].prev.mtime
ScanStats(p) ==
    /\ scan[p].at = "looked"
    /\ scan' = [scan EXCEPT ![p].at = IF SameMtime(p) THEN "done" ELSE "gated"]
    /\ UNCHANGED <<scanRest, ops>>

\* The content gate, then the pipeline.
ScanReads(p) ==
    /\ scan[p].at = "gated"
    /\ \/ /\ ~Exists(p) \/ disk[p].gen = scan[p].prev.gen
          /\ scan' = [scan EXCEPT ![p].at = "done"]
          /\ UNCHANGED ops
       \/ /\ Exists(p) /\ disk[p].gen # scan[p].prev.gen
          /\ scan' = [scan EXCEPT ![p].at = "submitted"]
          /\ Enqueue(p, Call("upsert", "scan"))
    /\ UNCHANGED scanRest

ScanEnds ==
    /\ life = "scanning" /\ \A p \in Paths : scan[p].at = "done"
    /\ life' = "ready"
    /\ UNCHANGED <<worldVars, row, stop, pending, ops, scan, http, faults, lives,
                   batcherVars>>

-----------------------------------------------------------------------------
(* File requests.  withPathLock admits one per path.                       *)

httpRest == <<row, life, stop, pending, scan, faults, lives, batcherVars>>

\* PUT, PATCH and append: an atomic write, then `await indexer.reindex`.
PutWrites(p) ==
    /\ p \in ApiPaths /\ life # "down" /\ ~Stopped /\ http[p] = "idle"
    /\ PutOnDisk(p)
    /\ http' = [http EXCEPT ![p] = "wrote"]
    /\ UNCHANGED <<httpRest, ops>>

PutReindexes(p) ==
    /\ http[p] = "wrote"
    /\ http' = [http EXCEPT ![p] = "reindex"]
    /\ Enqueue(p, Call("upsert", "http"))
    /\ UNCHANGED <<httpRest, worldVars>>

\* DELETE drops the rows first and unlinks the file when that has settled.
DeleteDrops(p) ==
    /\ p \in ApiPaths /\ life # "down" /\ ~Stopped /\ http[p] = "idle"
    /\ Exists(p)
    /\ http' = [http EXCEPT ![p] = "drop"]
    /\ Enqueue(p, Call("remove", "http"))
    /\ UNCHANGED <<httpRest, worldVars>>

DeleteUnlinks(p) ==
    /\ http[p] = "unlink"
    /\ http' = [http EXCEPT ![p] = "idle"]
    /\ \/ Exists(p) /\ TakeOffDisk(p)
       \/ ~Exists(p) /\ UNCHANGED worldVars
    /\ UNCHANGED <<httpRest, ops>>

-----------------------------------------------------------------------------
(* Start, stop and death of the process.                                   *)

Start ==
    /\ life = "down" /\ lives < MaxLives
    /\ life' = "starting" /\ lives' = lives + 1
    /\ UNCHANGED <<worldVars, row, stop, pending, ops, scan, http, faults,
                   batcherVars>>

\* What is still debounced when the watcher is stopped is not lost.
HandOver ==
    /\ ops' = [p \in Paths |-> IF pending[p] = "none" THEN ops[p]
                               ELSE Append(ops[p], Call(pending[p], "watcher"))]
    /\ pending' = [p \in Paths |-> "none"]

\* stop() in one turn of the event loop: every pipeline is marked stopped and
\* its batcher drained, then the watcher hands over.
StopBegins ==
    /\ life # "down" /\ stop = "no"
    /\ stop' = "stopping"
    /\ Drain
    /\ HandOver
    /\ UNCHANGED <<worldVars, row, life, scan, http, faults, lives>>

\* inFlight holds the calls of the watcher and of the scan, not those of
\* reindex() and drop(); readyPromise settles with the scan.
ScanTracked(call) == call.by = "scan"
Tracked(call) == call.by \in {"watcher", "scan"}
Drained == \A p \in Paths : \A i \in DOMAIN ops[p] : ~Tracked(ops[p][i])
StoreCloses ==
    /\ stop = "stopping" /\ life = "ready" /\ Drained
    /\ stop' = "closed"
    /\ UNCHANGED <<worldVars, row, life, pending, ops, scan, http, faults, lives,
                   batcherVars>>

StopTimesOut ==
    /\ stop = "stopping"
    /\ stop' = "timedOut"
    /\ UNCHANGED <<worldVars, row, life, pending, ops, scan, http, faults, lives,
                   batcherVars>>

\* The process exits or is killed; only the directory and the rows survive.
ProcessEnds ==
    /\ life # "down"
    /\ life' = "down" /\ stop' = "no"
    /\ changed' = [p \in Paths |-> FALSE]
    /\ pending' = [p \in Paths |-> "none"] /\ ops' = [p \in Paths |-> <<>>]
    /\ scan' = NoScan /\ http' = [p \in Paths |-> "idle"]
    /\ queue' = <<>> /\ queuedChunks' = 0 /\ timer' = FALSE
    /\ flushing' = FALSE /\ batch' = <<>> /\ answer' = [p \in Paths |-> Idle]
    /\ UNCHANGED <<disk, gens, clock, row, faults, lives>>

-----------------------------------------------------------------------------
Unsettled(p) == changed[p] \/ pending[p] # "none" \/ ops[p] # <<>>

\* A change is lost on the watcher when it happens while nobody watches, or
\* when watching ends before it has gone through the pipeline.
LostChange(p) ==
    \/ disk'[p] # disk[p] /\ ~Watching
    \/ Watching /\ ~Watching' /\ Unsettled(p)

\* A call gives up: its batch was rejected, or its store tries are used up.
GivesUp(p) ==
    /\ life' # "down"
    /\ \/ answer[p].is = "rejected" /\ answer'[p].is = "idle"
       \/ faults' > faults /\ Len(ops'[p]) < Len(ops[p])

CaughtUp(p) == Match(row'[p], disk'[p]) /\ ops'[p] = <<>>

History ==
    /\ missed' = [p \in Paths |-> (missed[p] \/ LostChange(p)) /\ ~CaughtUp(p)]
    /\ erred' = [p \in Paths |-> (erred[p] \/ GivesUp(p)) /\ ~CaughtUp(p)]

\* What the process does by itself, once it has something to do.
Progress ==
    \/ \E p \in Paths :
          \/ \E i \in DOMAIN ops[p] : \/ CallBegins(p, i) \/ CallStats(p, i)
                                      \/ CallEmbedded(p, i) \/ CallCommits(p, i)
                                      \/ StoreFails(p, i)
          \/ Notices(p) \/ DebounceEnds(p)
          \/ ScanLooks(p) \/ ScanStats(p) \/ ScanReads(p)
          \/ PutReindexes(p) \/ DeleteUnlinks(p)
    \/ BatchTimer \/ BatchEmbedded \/ BatchFails
    \/ WatcherReady \/ ScanEnds

Requests ==
    \/ \E p \in Paths : SyncWrites(p) \/ SyncRemoves(p) \/ PutWrites(p) \/ DeleteDrops(p)
    \/ Start \/ StopBegins \/ StoreCloses \/ StopTimesOut \/ ProcessEnds

Next == (Progress \/ Requests) /\ History

\* Promises settle, timers fire and chokidar reports; nothing is assumed of
\* the writers, of requests or of the end of the process.
Spec == Init /\ [][Next]_vars
FairSpec == Spec /\ WF_vars(Progress /\ History)

-----------------------------------------------------------------------------
(* Properties.                                                             *)

Contents == [gen : 0..MaxGen, mtime : 0..MaxClock]

\* Type invariant.
TypeOK ==
    /\ disk \in [Paths -> Contents] /\ row \in [Paths -> Contents]
    /\ gens \in 0..MaxGen /\ clock \in 0..MaxClock
    /\ changed \in [Paths -> BOOLEAN]
    /\ life \in {"down", "starting", "scanning", "ready"}
    /\ stop \in {"no", "stopping", "closed", "timedOut"}
    /\ pending \in [Paths -> {"none", "upsert", "remove"}]
    /\ ops \in [Paths -> Seq([kind : {"upsert", "remove"},
                              by : {"watcher", "scan", "http"},
                              at : {"queued", "read", "embedding", "storing"},
                              gen : 0..MaxGen, mtime : 0..MaxClock,
                              tries : 0..(StoreTries - 1)])]
    /\ scan \in [Paths -> [at : {"todo", "looked", "gated", "submitted", "done"},
                           prev : Contents]]
    /\ http \in [Paths -> {"idle", "wrote", "reindex", "drop", "unlink"}]
    /\ faults \in 0..MaxFaults /\ lives \in 0..MaxLives
    /\ missed \in [Paths -> BOOLEAN] /\ erred \in [Paths -> BOOLEAN]

Quiet ==
    /\ life = "ready" /\ ~Stopped
    /\ \A p \in Paths : ~Unsettled(p) /\ http[p] = "idle"

\* The scan took the file for unchanged by the mtime of the rows it looked up.
Skipped(p) == scan[p].prev.gen # 0 /\ SameMtime(p)

\* "Keeps itself eventually consistent with the working tree": once the scan
\* is over and every event has gone through the pipeline, the rows of each
\* file are those of its content, whatever the order in which the scan, the
\* watcher and the file requests got to it.  The exceptions are exactly these:
\* a call that failed and was counted, and a change nobody was watching for
\* that the scan cannot see, because the file is gone or has the mtime that
\* the scan found stored with an earlier content.
QuietMeansFresh ==
    Quiet => \A p \in Paths :
        \/ Match(row[p], disk[p])
        \/ erred[p]
        \/ missed[p] /\ (~Exists(p) \/ Skipped(p))

\* A path's rows are never replaced by those of an earlier content, however
\* the calls of the scan, the watcher and the requests interleave: this is
\* what the per-path lock is for.
RowsNeverGoBack ==
    [][\A p \in Paths : row[p].gen # 0 /\ row'[p].gen # 0 => row'[p].gen >= row[p].gen]_vars

\* stop() does not close the store under a write it tracks.
NoTrackedWriteAfterClose ==
    stop = "closed" => \A p \in Paths : \A i \in DOMAIN ops[p] :
                          ops[p][i].at = "storing" => ops[p][i].by = "http"

\* A blocked upsert is always on its way to its vectors (NothingStranded of
\* EmbedClients, for the batcher as the pipeline and its shutdown drive it).
NoUpsertStranded ==
    \A p \in Paths : answer[p] = Waiting =>
        \/ flushing /\ \E i \in DOMAIN batch : batch[i].who = p
        \/ (timer \/ flushing) /\ \E i \in DOMAIN queue : queue[i].who = p

\* Stated by a comment of the pipeline, and not so: an upsert that the
\* freshness re-check skips finds a newer content in the rows ("The newer
\* write already happened").  The lock has put every earlier call for the path
\* before this one's read, so the rows can only be older; what the check does
\* meet is a file whose write left an mtime older than the stored one.
Skips(p, call) ==
    /\ call.at = "embedding" /\ answer[p].is = "vectors" /\ ~Stopped
    /\ life' # "down" /\ Len(ops'[p]) < Len(ops[p])
SkipsOnlyStale ==
    [][\A p \in Paths : ops[p] # <<>> /\ Skips(p, Head(ops[p])) =>
                          row[p].gen > Head(ops[p]).gen]_vars

\* Stated by a comment of stop(), and not so: the store is not closed while a
\* pipeline call is mid-write.  A file request's call is not in inFlight, and
\* the listener is stopped at the same time as the indexer.
NoWriteAfterClose ==
    stop = "closed" => \A p \in Paths : \A i \in DOMAIN ops[p] :
                          ops[p][i].at # "storing"

\* The index always catches up: again and again it is quiet, unless the
\* process stops or dies.
CatchesUp == []<>(Quiet \/ ~Watching)
=============================================================================
