---------------------------- MODULE IndexerProofs ----------------------------
(***************************************************************************)
(* Theorems about the write pipeline, its callers and the stop of the      *)
(* indexer, for every number of files, writes, lives and faults.           *)
(***************************************************************************)
EXTENDS Indexer, TLAPS

Pipelined ==
    [kind : {"upsert", "remove"}, by : {"watcher", "scan", "http"},
     at : {"queued", "read", "embedding", "storing"},
     gen : 0..MaxGen, mtime : 0..MaxClock, tries : 0..(StoreTries - 1)]

-----------------------------------------------------------------------------
(* The chain of calls of a path.                                           *)

LEMMA RemoveAtIsSeq ==
    ASSUME NEW S, NEW s \in Seq(S), NEW i \in 1 .. Len(s)
    PROVE  RemoveAt(s, i) \in Seq(S)
<1>1. SubSeq(s, 1, i - 1) \in Seq(S) /\ SubSeq(s, i + 1, Len(s)) \in Seq(S)
  OBVIOUS
<1> QED
  BY <1>1 DEF RemoveAt

LEMMA RemoveHead ==
    ASSUME NEW S, NEW s \in Seq(S), Len(s) >= 1
    PROVE  /\ RemoveAt(s, 1) \in Seq(S) /\ Len(RemoveAt(s, 1)) = Len(s) - 1
           /\ \A j \in 1 .. Len(s) - 1 : RemoveAt(s, 1)[j] = s[j + 1]
<1>1. SubSeq(s, 1, 0) = <<>>
  OBVIOUS
<1>2. /\ SubSeq(s, 2, Len(s)) \in Seq(S) /\ Len(SubSeq(s, 2, Len(s))) = Len(s) - 1
      /\ \A j \in 1 .. Len(s) - 1 : SubSeq(s, 2, Len(s))[j] = s[j + 1]
  <2>1. Len(s) \in Nat /\ DOMAIN s = 1 .. Len(s) /\ \A k \in 1 .. Len(s) : s[k] \in S
    OBVIOUS
  <2>2. \A k \in 2 .. Len(s) : s[k] \in S
    BY <2>1
  <2>3. SubSeq(s, 2, Len(s)) \in Seq(S)
    BY <2>1, <2>2
  <2>4. Len(SubSeq(s, 2, Len(s))) = Len(s) - 1
    BY <2>1, <2>2
  <2>5. \A j \in 1 .. Len(s) - 1 : SubSeq(s, 2, Len(s))[j] = s[j + 1]
    BY <2>1, <2>2
  <2> QED
    BY <2>3, <2>4, <2>5
<1>3. RemoveAt(s, 1) = <<>> \o SubSeq(s, 2, Len(s))
  BY <1>1 DEF RemoveAt
<1>4. RemoveAt(s, 1) = SubSeq(s, 2, Len(s))
  BY <1>2, <1>3
<1> QED
  BY <1>2, <1>4

LEMMA NewCall ==
    ASSUME NEW kind \in {"upsert", "remove"}, NEW by \in {"watcher", "scan", "http"}
    PROVE  Call(kind, by) \in Pipelined /\ Call(kind, by).at = "queued" /\ Call(kind, by).by = by
  BY IndexerAssumption DEF Call, Pipelined

LEMMA AnotherTry ==
    ASSUME NEW call \in Pipelined, ~LastTry(call)
    PROVE  [call EXCEPT !.tries = @ + 1] \in Pipelined
  BY IndexerAssumption DEF Pipelined, LastTry

-----------------------------------------------------------------------------
(* Types.                                                                  *)

LEMMA TypeInit == Init => TypeOK
  BY IndexerAssumption DEF Init, TypeOK, Contents, Nothing, NoScan

LEMMA DiskTyped ==
    ASSUME TypeOK, NEW p \in Paths, PutOnDisk(p) \/ TakeOffDisk(p)
    PROVE  /\ disk' \in [Paths -> Contents] /\ gens' \in 0..MaxGen /\ clock' \in 0..MaxClock
           /\ changed' \in [Paths -> BOOLEAN]
<1>1. CASE PutOnDisk(p)
  <2>1. gens' = gens + 1 /\ gens' \in 0..MaxGen
    <3>1. gens' = gens + 1 /\ gens < MaxGen
      BY <1>1 DEF PutOnDisk
    <3>2. gens \in 0..MaxGen /\ MaxGen \in Nat
      BY IndexerAssumption DEF TypeOK
    <3> QED
      BY <3>1, <3>2
  <2>2. PICK t \in Mtimes : /\ clock' = IF t > clock THEN t ELSE clock
                            /\ disk' = [disk EXCEPT ![p] = [gen |-> gens + 1, mtime |-> t]]
    BY <1>1 DEF PutOnDisk
  <2>3. t \in 0..MaxClock
    BY IndexerAssumption DEF Mtimes, TypeOK
  <2> QED
    BY <1>1, <2>1, <2>2, <2>3 DEF PutOnDisk, TypeOK, Contents
<1>2. CASE TakeOffDisk(p)
  <2>1. Nothing \in Contents
    BY IndexerAssumption DEF Contents, Nothing
  <2>2. UNCHANGED <<gens, clock>> /\ disk' = [disk EXCEPT ![p] = Nothing]
    BY <1>2 DEF TakeOffDisk
  <2>3. changed' \in [Paths -> BOOLEAN]
    BY <1>2 DEF TakeOffDisk, TypeOK
  <2> QED
    BY <2>1, <2>2, <2>3 DEF TypeOK
<1> QED
  BY <1>1, <1>2

LEMMA OpsTyped ==
    ASSUME TypeOK, NEW p \in Paths
    PROVE  /\ \A i \in DOMAIN ops[p] : i \in 1 .. Len(ops[p]) /\ ops[p][i] \in Pipelined
           /\ ops \in [Paths -> Seq(Pipelined)]
<1>1. ops \in [Paths -> Seq(Pipelined)]
  BY DEF TypeOK, Pipelined
<1> QED
  BY <1>1

LEMMA EnqueueTyped ==
    ASSUME TypeOK, NEW p \in Paths, NEW call \in Pipelined, Enqueue(p, call)
    PROVE  ops' \in [Paths -> Seq(Pipelined)]
  BY OpsTyped DEF Enqueue

LEMMA GoesTyped ==
    ASSUME TypeOK, NEW p \in Paths, NEW i \in DOMAIN ops[p], NEW call \in Pipelined,
           Goes(p, i, call)
    PROVE  ops' \in [Paths -> Seq(Pipelined)]
<1>1. ops' = [ops EXCEPT ![p] = [ops[p] EXCEPT ![i] = call]]
  BY DEF Goes
<1>2. ops[p] \in Seq(Pipelined) /\ i \in 1 .. Len(ops[p])
  BY OpsTyped
<1>3. [ops[p] EXCEPT ![i] = call] \in Seq(Pipelined)
  BY <1>2
<1> QED
  BY <1>1, <1>3, OpsTyped

LEMMA SettlesTyped ==
    ASSUME TypeOK, NEW p \in Paths, NEW i \in DOMAIN ops[p], Settles(p, i)
    PROVE  /\ ops' \in [Paths -> Seq(Pipelined)]
           /\ http' \in [Paths -> {"idle", "wrote", "reindex", "drop", "unlink"}]
           /\ scan' \in [Paths -> [at : {"todo", "looked", "gated", "submitted", "done"},
                                   prev : Contents]]
<1>1. RemoveAt(ops[p], i) \in Seq(Pipelined)
  BY OpsTyped, RemoveAtIsSeq
<1> QED
  BY <1>1, OpsTyped DEF Settles, TypeOK

LEMMA FloorIsLess == \A t \in 0..MaxClock : Floor(t) \in 0..MaxClock
  BY IndexerAssumption DEF Floor

LEMMA RowsTyped ==
    ASSUME NEW call \in Pipelined
    PROVE  Rows(call) \in Contents
  BY IndexerAssumption, FloorIsLess DEF Rows, Contents, Nothing, Pipelined

\* One step of a call.
LEMMA CallTyped ==
    ASSUME TypeOK, NEW p \in Paths, NEW i \in DOMAIN ops[p],
           CallBegins(p, i) \/ CallStats(p, i) \/ CallEmbedded(p, i) \/ CallCommits(p, i)
           \/ StoreFails(p, i)
    PROVE  /\ ops' \in [Paths -> Seq(Pipelined)] /\ row' \in [Paths -> Contents]
           /\ http' \in [Paths -> {"idle", "wrote", "reindex", "drop", "unlink"}]
           /\ scan' \in [Paths -> [at : {"todo", "looked", "gated", "submitted", "done"},
                                   prev : Contents]]
           /\ faults' \in 0..MaxFaults
           /\ UNCHANGED <<worldVars, life, stop, pending, lives>>
<1> DEFINE OK == /\ ops' \in [Paths -> Seq(Pipelined)]
                 /\ http' \in [Paths -> {"idle", "wrote", "reindex", "drop", "unlink"}]
                 /\ scan' \in [Paths -> [at : {"todo", "looked", "gated", "submitted", "done"},
                                         prev : Contents]]
<1>0. ops[p][i] \in Pipelined
  BY OpsTyped
<1>1. ASSUME Settles(p, i) PROVE OK
  BY <1>1, SettlesTyped
<1>2. ASSUME NEW call \in Pipelined, Goes(p, i, call), UNCHANGED <<http, scan>>
      PROVE  OK
  BY <1>2, GoesTyped DEF TypeOK
<1>3. CASE CallBegins(p, i)
  <2>1. [ops[p][i] EXCEPT !.at = "read", !.gen = disk[p].gen] \in Pipelined
    BY <1>0 DEF Pipelined, TypeOK, Contents
  <2>2. [ops[p][i] EXCEPT !.at = "storing"] \in Pipelined
    BY <1>0 DEF Pipelined
  <2>3. OK
    BY <1>1, <1>2, <1>3, <2>1, <2>2 DEF CallBegins
  <2> QED
    BY <1>3, <2>3 DEF CallBegins, TypeOK, callVars
<1>4. CASE CallStats(p, i)
  <2>1. StatMtime(p) \in 0..MaxClock
    BY FloorIsLess DEF StatMtime, TypeOK, Contents
  <2>2. [ops[p][i] EXCEPT !.at = "embedding", !.mtime = StatMtime(p)] \in Pipelined
    BY <1>0, <2>1 DEF Pipelined
  <2>3. OK
    BY <1>1, <1>2, <1>4, <2>2 DEF CallStats
  <2> QED
    BY <1>4, <2>3 DEF CallStats, TypeOK, callVars
<1>5. CASE CallEmbedded(p, i)
  <2>1. [ops[p][i] EXCEPT !.at = "storing"] \in Pipelined
    BY <1>0 DEF Pipelined
  <2>2. OK
    BY <1>1, <1>2, <1>5, <2>1 DEF CallEmbedded
  <2> QED
    BY <1>5, <2>2 DEF CallEmbedded, TypeOK, callVars
<1>6. CASE CallCommits(p, i)
  <2>1. Rows(ops[p][i]) \in Contents
    BY <1>0, RowsTyped
  <2> QED
    BY <1>1, <1>6, <2>1 DEF CallCommits, TypeOK, callVars
<1>7. CASE StoreFails(p, i)
  <2>1. Rows(ops[p][i]) \in Contents
    BY <1>0, RowsTyped
  <2>2. ~LastTry(ops[p][i]) => [ops[p][i] EXCEPT !.tries = @ + 1] \in Pipelined
    BY <1>0, AnotherTry
  <2>3. OK
    BY <1>1, <1>2, <1>7, <2>2 DEF StoreFails
  <2>4. row' \in [Paths -> Contents]
    BY <1>7, <2>1 DEF StoreFails, TypeOK
  <2>5. faults' \in 0..MaxFaults
    <3>1. faults' = faults \/ (faults < MaxFaults /\ faults' = faults + 1)
      BY <1>7 DEF StoreFails
    <3>2. faults \in 0..MaxFaults /\ MaxFaults \in Nat
      BY IndexerAssumption DEF TypeOK
    <3> QED
      BY <3>1, <3>2
  <2> QED
    BY <1>7, <2>3, <2>4, <2>5 DEF StoreFails, callVars
<1> QED
  BY <1>3, <1>4, <1>5, <1>6, <1>7

\* Everything but the history, which no action reads.
StateTyped ==
    /\ disk \in [Paths -> Contents] /\ row \in [Paths -> Contents]
    /\ gens \in 0..MaxGen /\ clock \in 0..MaxClock
    /\ changed \in [Paths -> BOOLEAN]
    /\ life \in {"down", "starting", "scanning", "ready"}
    /\ stop \in {"no", "stopping", "closed", "timedOut"}
    /\ pending \in [Paths -> {"none", "upsert", "remove"}]
    /\ ops \in [Paths -> Seq(Pipelined)]
    /\ scan \in [Paths -> [at : {"todo", "looked", "gated", "submitted", "done"},
                           prev : Contents]]
    /\ http \in [Paths -> {"idle", "wrote", "reindex", "drop", "unlink"}]
    /\ faults \in 0..MaxFaults /\ lives \in 0..MaxLives

LEMMA StateIsTyped == TypeOK => StateTyped
  BY OpsTyped DEF TypeOK, StateTyped, Pipelined

LEMMA CallKeepsTypes ==
    ASSUME TypeOK, NEW p \in Paths, NEW i \in DOMAIN ops[p],
           CallBegins(p, i) \/ CallStats(p, i) \/ CallEmbedded(p, i) \/ CallCommits(p, i)
           \/ StoreFails(p, i)
    PROVE  StateTyped'
  BY CallTyped, StateIsTyped DEF StateTyped, worldVars

\* The directory and the file requests.
LEMMA RequestTyped ==
    ASSUME TypeOK, NEW p \in Paths,
           SyncWrites(p) \/ SyncRemoves(p) \/ PutWrites(p) \/ DeleteDrops(p)
           \/ PutReindexes(p) \/ DeleteUnlinks(p)
    PROVE  StateTyped'
<1> USE StateIsTyped
<1>1. ASSUME PutOnDisk(p) \/ TakeOffDisk(p) \/ UNCHANGED worldVars
      PROVE  /\ disk' \in [Paths -> Contents] /\ gens' \in 0..MaxGen
             /\ clock' \in 0..MaxClock /\ changed' \in [Paths -> BOOLEAN]
  BY <1>1, DiskTyped DEF TypeOK, worldVars
<1>2. CASE SyncWrites(p) \/ SyncRemoves(p)
  BY <1>1, <1>2 DEF SyncWrites, SyncRemoves, processVars, StateTyped
<1>3. CASE PutWrites(p)
  BY <1>1, <1>3 DEF PutWrites, httpRest, StateTyped
<1>4. CASE DeleteUnlinks(p)
  BY <1>1, <1>4 DEF DeleteUnlinks, httpRest, StateTyped
<1>5. CASE DeleteDrops(p)
  <2>1. ops' \in [Paths -> Seq(Pipelined)]
    BY <1>5, NewCall, EnqueueTyped DEF DeleteDrops
  <2> QED
    BY <1>5, <2>1 DEF DeleteDrops, httpRest, worldVars, StateTyped
<1>6. CASE PutReindexes(p)
  <2>1. ops' \in [Paths -> Seq(Pipelined)]
    BY <1>6, NewCall, EnqueueTyped DEF PutReindexes
  <2> QED
    BY <1>6, <2>1 DEF PutReindexes, httpRest, worldVars, StateTyped
<1> QED
  BY <1>2, <1>3, <1>4, <1>5, <1>6

\* The watcher and the scan.
LEMMA WatchTyped ==
    ASSUME TypeOK, NEW p \in Paths,
           Notices(p) \/ DebounceEnds(p) \/ ScanLooks(p) \/ ScanStats(p) \/ ScanReads(p)
    PROVE  StateTyped'
<1> USE StateIsTyped
<1>1. CASE Notices(p)
  BY <1>1 DEF Notices, LastKind, StateTyped
<1>2. CASE DebounceEnds(p)
  <2>1. pending[p] \in {"upsert", "remove"}
    BY <1>2 DEF DebounceEnds, TypeOK
  <2>2. ops' \in [Paths -> Seq(Pipelined)]
    BY <1>2, <2>1, NewCall, EnqueueTyped DEF DebounceEnds
  <2> QED
    BY <1>2, <2>2 DEF DebounceEnds, worldVars, StateTyped
<1>3. CASE ScanLooks(p)
  BY <1>3 DEF ScanLooks, scanRest, worldVars, StateTyped
<1>4. CASE ScanStats(p)
  <2>1. scan' \in [Paths -> [at : {"todo", "looked", "gated", "submitted", "done"},
                           prev : Contents]]
    BY <1>4 DEF ScanStats, StateTyped
  <2> QED
    BY <1>4, <2>1 DEF ScanStats, scanRest, worldVars, StateTyped
<1>5. CASE ScanReads(p)
  <2>1. ops' \in [Paths -> Seq(Pipelined)]
    BY <1>5, NewCall, EnqueueTyped DEF ScanReads, StateTyped
  <2>2. scan' \in [Paths -> [at : {"todo", "looked", "gated", "submitted", "done"},
                           prev : Contents]]
    <3>1. PICK at \in {"done", "submitted"} : scan' = [scan EXCEPT ![p].at = at]
      BY <1>5 DEF ScanReads
    <3> QED
      BY <3>1 DEF StateTyped
  <2> QED
    BY <1>5, <2>1, <2>2 DEF ScanReads, scanRest, worldVars, StateTyped
<1> QED
  BY <1>1, <1>2, <1>3, <1>4, <1>5

\* The batch, the start and the end.
Global ==
    \/ BatchTimer \/ BatchEmbedded \/ BatchFails \/ WatcherReady \/ ScanEnds
    \/ Start \/ StopBegins \/ StoreCloses \/ StopTimesOut \/ ProcessEnds

LEMMA GlobalTyped ==
    ASSUME TypeOK, Global
    PROVE  StateTyped'
<1> USE StateIsTyped
<1>1. CASE BatchTimer \/ BatchEmbedded
  BY <1>1 DEF BatchTimer, BatchEmbedded, rest, worldVars, StateTyped
<1>2. CASE BatchFails
  <2>1. faults' \in 0..MaxFaults
    BY <1>2, IndexerAssumption DEF BatchFails, StateTyped
  <2> QED
    BY <1>2, <2>1 DEF BatchFails, rest, worldVars, StateTyped
<1>3. CASE WatcherReady
  <2>1. Nothing \in Contents
    BY IndexerAssumption DEF Contents, Nothing
  <2>2. walkVault \in [Paths -> [at : {"todo", "looked", "gated", "submitted", "done"},
                                 prev : Contents]]
    BY <2>1 DEF walkVault
  <2>3. changed' \in [Paths -> BOOLEAN]
    BY <1>3 DEF WatcherReady, StateTyped
  <2> QED
    BY <1>3, <2>2, <2>3 DEF WatcherReady, StateTyped
<1>4. CASE ScanEnds \/ StoreCloses \/ StopTimesOut
  BY <1>4 DEF ScanEnds, StoreCloses, StopTimesOut, worldVars, StateTyped
<1>5. CASE Start
  <2>1. lives' \in 0..MaxLives
    BY <1>5, IndexerAssumption DEF Start, StateTyped
  <2> QED
    BY <1>5, <2>1 DEF Start, worldVars, StateTyped
<1>6. CASE StopBegins
  <2>1. \A p \in Paths : pending[p] # "none" =>
                          Append(ops[p], Call(pending[p], "watcher")) \in Seq(Pipelined)
    <3> SUFFICES ASSUME NEW p \in Paths, pending[p] # "none"
                 PROVE  Append(ops[p], Call(pending[p], "watcher")) \in Seq(Pipelined)
      OBVIOUS
    <3>1. pending[p] \in {"upsert", "remove"} /\ ops[p] \in Seq(Pipelined)
      BY DEF StateTyped
    <3>2. Call(pending[p], "watcher") \in Pipelined
      BY <3>1, NewCall
    <3> QED
      BY <3>1, <3>2
  <2>2. ops' \in [Paths -> Seq(Pipelined)] /\ pending' \in [Paths -> {"none", "upsert", "remove"}]
    BY <1>6, <2>1 DEF StopBegins, HandOver, StateTyped
  <2> QED
    BY <1>6, <2>2 DEF StopBegins, worldVars, StateTyped
<1>7. CASE ProcessEnds
  <2>1. ops' \in [Paths -> Seq(Pipelined)]
    BY <1>7 DEF ProcessEnds
  <2>2. scan' \in [Paths -> [at : {"todo", "looked", "gated", "submitted", "done"},
                           prev : Contents]]
    BY <1>7, IndexerAssumption DEF ProcessEnds, NoScan, Nothing, Contents
  <2> QED
    BY <1>7, <2>1, <2>2 DEF ProcessEnds, StateTyped
<1> QED
  BY <1>1, <1>2, <1>3, <1>4, <1>5, <1>6, <1>7 DEF Global

\* The actions, by whom they are about.
LEMMA Steps ==
    ASSUME Progress \/ Requests
    PROVE  \/ \E p \in Paths : \E i \in DOMAIN ops[p] :
                 \/ CallBegins(p, i) \/ CallStats(p, i) \/ CallEmbedded(p, i)
                 \/ CallCommits(p, i) \/ StoreFails(p, i)
           \/ \E p \in Paths :
                 \/ SyncWrites(p) \/ SyncRemoves(p) \/ PutWrites(p) \/ DeleteDrops(p)
                 \/ PutReindexes(p) \/ DeleteUnlinks(p)
           \/ \E p \in Paths :
                 \/ Notices(p) \/ DebounceEnds(p)
                 \/ ScanLooks(p) \/ ScanStats(p) \/ ScanReads(p)
           \/ Global
  BY DEF Progress, Requests, Global

LEMMA TypeStep == TypeOK /\ [Next]_vars => TypeOK'
<1> SUFFICES ASSUME TypeOK, [Next]_vars
             PROVE  TypeOK'
  OBVIOUS
<1>1. ASSUME StateTyped', missed' \in [Paths -> BOOLEAN], erred' \in [Paths -> BOOLEAN]
      PROVE  TypeOK'
  BY <1>1 DEF StateTyped, TypeOK, Pipelined
<1>2. CASE UNCHANGED vars
  BY <1>2 DEF vars, worldVars, processVars, TypeOK, Contents
<1>3. CASE Next
  <2>1. missed' \in [Paths -> BOOLEAN] /\ erred' \in [Paths -> BOOLEAN]
    BY <1>3 DEF Next, History
  <2>2. StateTyped'
    BY <1>3, Steps, CallKeepsTypes, RequestTyped, WatchTyped, GlobalTyped DEF Next
  <2> QED
    BY <1>1, <2>1, <2>2
<1> QED
  BY <1>2, <1>3

\* The types of the indexer, for every number of files, writes and faults.
THEOREM TypeCorrect == Spec => []TypeOK
  BY TypeInit, TypeStep, PTL DEF Spec

-----------------------------------------------------------------------------
(* The invariants, path by path.                                           *)

InFlight(call) == call.kind = "upsert" /\ call.at # "queued"

\* Only the first call of a path has begun, and a removal does not embed.
HeadMoves(p) ==
    \A i \in DOMAIN ops[p] :
        /\ i > 1 => ops[p][i].at = "queued"
        /\ ops[p][i].kind = "remove" => ops[p][i].at \in {"queued", "storing"}

\* What a call has read is not older than the rows, nor newer than the file.
Ordered(p) ==
    /\ disk[p].gen <= gens /\ row[p].gen <= gens /\ row[p].gen \notin Blank
    /\ Exists(p) => row[p].gen <= disk[p].gen
    /\ \A i \in DOMAIN ops[p] : InFlight(ops[p][i]) =>
          /\ row[p].gen <= ops[p][i].gen /\ ops[p][i].gen <= gens /\ ops[p][i].gen # 0
          /\ Exists(p) => ops[p][i].gen <= disk[p].gen

\* The same of mtimes, when they never go back.
Timely(p) ==
    /\ disk[p].mtime <= clock /\ row[p].mtime <= clock /\ Floor(row[p].mtime) = row[p].mtime
    /\ Exists(p) => row[p].mtime <= disk[p].mtime
    /\ \A i \in DOMAIN ops[p] :
          InFlight(ops[p][i]) /\ ops[p][i].at # "read" =>
              /\ row[p].mtime <= ops[p][i].mtime /\ ops[p][i].mtime <= clock
              /\ Exists(p) => ops[p][i].mtime <= disk[p].mtime

\* A file request has at most one call, of its own kind, and so has the scan.
OneCallEach(p) ==
    \A i \in DOMAIN ops[p] :
        /\ ops[p][i].by = "http" =>
              http[p] = IF ops[p][i].kind = "upsert" THEN "reindex" ELSE "drop"
        /\ ops[p][i].by = "scan" => scan[p].at = "submitted"
        /\ ops[p][i].by # "watcher" =>
              \A j \in DOMAIN ops[p] : ops[p][j].by = ops[p][i].by => i = j

\* What the stages of the process imply.
Stages(p) ==
    /\ pending[p] # "none" => Watching
    /\ life \in {"down", "starting", "ready"} => scan[p].at = "done"
    /\ life \in {"down", "starting"} => \A i \in DOMAIN ops[p] : ops[p][i].by = "http"
    /\ stop = "closed" => /\ life = "ready"
                          /\ \A i \in DOMAIN ops[p] : ops[p][i].by = "http"

EventComes(p) == changed[p] \/ pending[p] # "none"
Deleting(p) == http[p] \in {"drop", "unlink"}
LastCall(p) == ops[p][Len(ops[p])]

\* The last event of a path, debounced or with the pipeline, is that of its file.
EndsRight(p) ==
    /\ pending[p] # "none" /\ ~changed[p] => pending[p] = IF Exists(p) THEN "upsert" ELSE "remove"
    /\ Watching /\ ~EventComes(p) /\ Exists(p) /\ ops[p] # <<>> =>
          LastCall(p).kind = "upsert" \/ Deleting(p)

\* The last call will leave, or has read, the present content.
LastReads(p) ==
    /\ ops[p] # <<>>
    /\ \/ LastCall(p).kind = "upsert" /\ (InFlight(LastCall(p)) => LastCall(p).gen = disk[p].gen)
       \/ LastCall(p).kind = "remove" /\ Deleting(p)

\* The scan has yet to decide about the file and will not take it for unchanged.
ScanSees(p) ==
    /\ missed[p] \/ (ops[p] = <<>> /\ row[p].gen = 0 /\ scan[p].at # "looked")
    /\ scan[p].at \in {"todo", "looked", "gated"}
    /\ scan[p].at # "todo" => scan[p].prev.gen # disk[p].gen
    /\ scan[p].at = "looked" => scan[p].prev.gen # 0

FollowedFile(p) ==
    \/ LastReads(p)
    \/ ops[p] = <<>> /\ Match(row[p], disk[p])
    \/ Deleting(p) /\ (missed[p] \/ (ops[p] = <<>> /\ row[p].gen = 0))
    \/ ScanSees(p)
    \/ missed[p] /\ Skipped(p) /\ scan[p].at = "done"

FollowedAbsence(p) ==
    \/ missed[p]
    \/ \E i \in DOMAIN ops[p] : ops[p][i].kind = "remove"
    \/ row[p].gen = 0 /\ \A i \in DOMAIN ops[p] : ~InFlight(ops[p][i])

\* Nobody watches: what is not recorded as missed the next scan will find.
Kept(p) ==
    /\ Match(row[p], disk[p]) \/ (Exists(p) /\ row[p].gen = 0)
    /\ \A i \in DOMAIN ops[p] : InFlight(ops[p][i]) => Exists(p) /\ ops[p][i].gen = disk[p].gen

\* No difference between a file and its rows is forgotten.
Followed(p) ==
    /\ ~erred[p] /\ ~Watching /\ ~missed[p] => Kept(p)
    /\ ~erred[p] /\ Watching /\ ~EventComes(p) =>
          IF Exists(p) THEN FollowedFile(p) ELSE FollowedAbsence(p)

-----------------------------------------------------------------------------
(* What a step does to one path.                                           *)

\* Nothing but the clocks.
Bystands(p) ==
    /\ disk'[p] = disk[p] /\ row'[p] = row[p] /\ changed'[p] = changed[p]
    /\ pending'[p] = pending[p] /\ ops'[p] = ops[p] /\ scan'[p] = scan[p]
    /\ http'[p] = http[p] /\ life' = life /\ stop' = stop
    /\ gens' >= gens /\ clock' >= clock

Grew(p, call) ==
    /\ Len(ops'[p]) = Len(ops[p]) + 1
    /\ ops'[p][Len(ops[p]) + 1] = call
    /\ \A i \in DOMAIN ops[p] : ops'[p][i] = ops[p][i]

Shrank(p) ==
    /\ Len(ops'[p]) = Len(ops[p]) - 1
    /\ \A i \in DOMAIN ops'[p] : i + 1 \in DOMAIN ops[p] /\ ops'[p][i] = ops[p][i + 1]

Moved(p, call) ==
    /\ Len(ops'[p]) = Len(ops[p]) /\ ops'[p][1] = call
    /\ \A i \in DOMAIN ops[p] : i > 1 => ops'[p][i] = ops[p][i]

\* The first call of p settles, with or without its rows.
Ends(p) ==
    /\ Shrank(p)
    /\ http'[p] = IF ops[p][1].by # "http" THEN http[p]
                  ELSE IF http[p] = "drop" THEN "unlink" ELSE "idle"
    /\ scan'[p] = IF ops[p][1].by # "scan" THEN scan[p] ELSE [scan[p] EXCEPT !.at = "done"]
    /\ \/ row'[p] = row[p]
       \/ ops[p][1].at = "storing" /\ row'[p] = Rows(ops[p][1])

\* The first call of p goes on as call.
Proceeds(p, call) ==
    /\ Moved(p, call)
    /\ http'[p] = http[p] /\ scan'[p] = scan[p]
    /\ call.kind = ops[p][1].kind /\ call.by = ops[p][1].by /\ call.at # "queued"
    /\ call.kind = "remove" => call.at = "storing"
    /\ \/ /\ ops[p][1].at = "queued" /\ row'[p] = row[p]
          /\ call.kind = "upsert" => call.at = "read" /\ Exists(p) /\ call.gen = disk[p].gen
       \/ /\ ops[p][1].at # "queued" /\ call.gen = ops[p][1].gen /\ call.at # "read"
          /\ row'[p] = row[p] \/ (ops[p][1].at = "storing" /\ row'[p] = Rows(ops[p][1]))
          /\ call.mtime = IF ops[p][1].at = "read" THEN StatMtime(p) ELSE ops[p][1].mtime

LEMMA EnqueueGrows ==
    ASSUME TypeOK, NEW p \in Paths, NEW call \in Pipelined, Enqueue(p, call)
    PROVE  Grew(p, call) /\ \A q \in Paths \ {p} : ops'[q] = ops[q]
<1>1. ops[p] \in Seq(Pipelined) /\ ops'[p] = Append(ops[p], call)
  BY OpsTyped DEF Enqueue
<1>2. \A q \in Paths \ {p} : ops'[q] = ops[q]
  BY OpsTyped DEF Enqueue
<1> QED
  BY <1>1, <1>2 DEF Grew

LEMMA GoesMoves ==
    ASSUME TypeOK, NEW p \in Paths, NEW i \in DOMAIN ops[p], NEW call \in Pipelined,
           Goes(p, i, call), i = 1
    PROVE  Moved(p, call) /\ \A q \in Paths \ {p} : ops'[q] = ops[q]
<1>1. ops' = [ops EXCEPT ![p] = [ops[p] EXCEPT ![i] = call]]
  BY DEF Goes
<1>2. ops[p] \in Seq(Pipelined) /\ 1 \in 1 .. Len(ops[p])
  BY OpsTyped
<1>3. ops'[p] = [ops[p] EXCEPT ![1] = call] /\ \A q \in Paths \ {p} : ops'[q] = ops[q]
  BY <1>1, OpsTyped
<1> QED
  BY <1>2, <1>3 DEF Moved

LEMMA SettlesEnds ==
    ASSUME TypeOK, NEW p \in Paths, NEW i \in DOMAIN ops[p], Settles(p, i), i = 1,
           row'[p] = row[p] \/ (ops[p][1].at = "storing" /\ row'[p] = Rows(ops[p][1]))
    PROVE  /\ Ends(p)
           /\ \A q \in Paths \ {p} : ops'[q] = ops[q] /\ http'[q] = http[q] /\ scan'[q] = scan[q]
<1>1. ops[p] \in Seq(Pipelined) /\ Len(ops[p]) >= 1
  BY OpsTyped
<1>2. ops'[p] = RemoveAt(ops[p], 1) /\ \A q \in Paths \ {p} : ops'[q] = ops[q]
  BY OpsTyped DEF Settles
<1>3. Shrank(p)
  <2>1. /\ ops'[p] \in Seq(Pipelined) /\ Len(ops'[p]) = Len(ops[p]) - 1
        /\ \A j \in 1 .. Len(ops[p]) - 1 : ops'[p][j] = ops[p][j + 1]
    BY <1>1, <1>2, RemoveHead
  <2>2. DOMAIN ops'[p] = 1 .. Len(ops[p]) - 1 /\ DOMAIN ops[p] = 1 .. Len(ops[p])
        /\ Len(ops[p]) \in Nat
    BY <1>1, <2>1
  <2>3. \A j \in 1 .. Len(ops[p]) - 1 : j + 1 \in 1 .. Len(ops[p])
    BY <2>2
  <2> QED
    BY <2>1, <2>2, <2>3 DEF Shrank
<1>4. /\ http'[p] = IF ops[p][1].by # "http" THEN http[p]
                    ELSE IF http[p] = "drop" THEN "unlink" ELSE "idle"
      /\ \A q \in Paths \ {p} : http'[q] = http[q]
  BY DEF Settles, TypeOK
<1>5. /\ scan'[p] = IF ops[p][1].by # "scan" THEN scan[p] ELSE [scan[p] EXCEPT !.at = "done"]
      /\ \A q \in Paths \ {p} : scan'[q] = scan[q]
  BY DEF Settles, TypeOK
<1> QED
  BY <1>2, <1>3, <1>4, <1>5 DEF Ends

\* What a step of a call does, to its path and to the others.
LEMMA CallSteps ==
    ASSUME TypeOK, NEW p \in Paths, NEW i \in DOMAIN ops[p], HeadMoves(p),
           CallBegins(p, i) \/ CallStats(p, i) \/ CallEmbedded(p, i) \/ CallCommits(p, i)
           \/ StoreFails(p, i)
    PROVE  /\ i = 1
           /\ \A q \in Paths \ {p} : Bystands(q)
           /\ UNCHANGED <<worldVars, life, stop, pending>>
           /\ Ends(p) \/ \E call \in Pipelined : Proceeds(p, call)
<1>0. ops[p][i] \in Pipelined /\ i \in 1 .. Len(ops[p])
  BY OpsTyped
<1>1. i = 1
  <2>1. ops[p][i].at # "queued" => i = 1
    BY <1>0 DEF HeadMoves
  <2> QED
    BY <2>1 DEF CallBegins, CallStats, CallEmbedded, CallCommits, StoreFails, HasLock
<1>2. UNCHANGED <<worldVars, life, stop, pending>>
  BY DEF CallBegins, CallStats, CallEmbedded, CallCommits, StoreFails, callVars
<1>3. gens' >= gens /\ clock' >= clock
  BY <1>2 DEF worldVars, TypeOK
<1>4. /\ row'[p] = row[p] \/ (ops[p][1].at = "storing" /\ row'[p] = Rows(ops[p][1]))
      /\ \A q \in Paths \ {p} : row'[q] = row[q]
  BY <1>1 DEF CallBegins, CallStats, CallEmbedded, CallCommits, StoreFails, TypeOK
<1> DEFINE OK == /\ \A q \in Paths \ {p} : ops'[q] = ops[q] /\ http'[q] = http[q]
                                           /\ scan'[q] = scan[q]
                 /\ Ends(p) \/ \E call \in Pipelined : Proceeds(p, call)
<1>5. ASSUME Settles(p, i) PROVE OK
  BY <1>1, <1>4, <1>5, SettlesEnds
<1>6. ASSUME NEW call \in Pipelined, Goes(p, i, call), UNCHANGED <<http, scan>>
      PROVE  /\ \A q \in Paths \ {p} : ops'[q] = ops[q] /\ http'[q] = http[q]
                                       /\ scan'[q] = scan[q]
             /\ Moved(p, call) /\ http'[p] = http[p] /\ scan'[p] = scan[p]
  BY <1>1, <1>6, GoesMoves
<1>7. OK
  <2>1. CASE CallBegins(p, i)
    <3>1. CASE Settles(p, i)
      BY <1>5, <3>1
    <3>2. CASE /\ ops[p][i].kind = "upsert" /\ Exists(p)
               /\ Goes(p, i, [ops[p][i] EXCEPT !.at = "read", !.gen = disk[p].gen])
               /\ UNCHANGED <<http, scan>>
      <4> DEFINE call == [ops[p][i] EXCEPT !.at = "read", !.gen = disk[p].gen]
      <4>1. call \in Pipelined /\ call.kind = "upsert" /\ call.at = "read"
            /\ call.gen = disk[p].gen /\ call.by = ops[p][i].by
        BY <1>0, <3>2 DEF Pipelined, TypeOK, Contents
      <4>2. row'[p] = row[p] /\ ops[p][1].at = "queued"
        BY <1>1, <2>1 DEF CallBegins
      <4>3. Proceeds(p, call)
        BY <1>1, <1>6, <3>2, <4>1, <4>2 DEF Proceeds
      <4> QED
        BY <1>6, <3>2, <4>1, <4>3
    <3>3. CASE /\ ops[p][i].kind = "remove"
               /\ Goes(p, i, [ops[p][i] EXCEPT !.at = "storing"])
               /\ UNCHANGED <<http, scan>>
      <4> DEFINE call == [ops[p][i] EXCEPT !.at = "storing"]
      <4>1. call \in Pipelined /\ call.kind = "remove" /\ call.at = "storing"
            /\ call.by = ops[p][i].by
        BY <1>0, <3>3 DEF Pipelined
      <4>2. row'[p] = row[p] /\ ops[p][1].at = "queued"
        BY <1>1, <2>1 DEF CallBegins
      <4>3. Proceeds(p, call)
        BY <1>1, <1>6, <3>3, <4>1, <4>2 DEF Proceeds
      <4> QED
        BY <1>6, <3>3, <4>1, <4>3
    <3> QED
      BY <2>1, <3>1, <3>2, <3>3 DEF CallBegins
  <2>2. CASE CallStats(p, i)
    <3>1. CASE Settles(p, i)
      BY <1>5, <3>1
    <3>2. CASE /\ Goes(p, i, [ops[p][i] EXCEPT !.at = "embedding", !.mtime = StatMtime(p)])
               /\ UNCHANGED <<http, scan>>
      <4> DEFINE call == [ops[p][i] EXCEPT !.at = "embedding", !.mtime = StatMtime(p)]
      <4>1. StatMtime(p) \in 0..MaxClock
        BY FloorIsLess DEF StatMtime, TypeOK, Contents
      <4>2. call \in Pipelined /\ call.kind = ops[p][i].kind /\ call.at = "embedding"
            /\ call.by = ops[p][i].by /\ call.gen = ops[p][i].gen /\ call.mtime = StatMtime(p)
        BY <1>0, <4>1 DEF Pipelined
      <4>3. row'[p] = row[p] /\ ops[p][1].at = "read" /\ ops[p][1].kind # "remove"
        BY <1>0, <1>1, <2>2 DEF CallStats, HeadMoves
      <4>4. Proceeds(p, call)
        BY <1>1, <1>6, <3>2, <4>2, <4>3 DEF Proceeds
      <4> QED
        BY <1>6, <3>2, <4>2, <4>4
    <3> QED
      BY <2>2, <3>1, <3>2 DEF CallStats
  <2>3. CASE CallEmbedded(p, i)
    <3>1. CASE Settles(p, i)
      BY <1>5, <3>1
    <3>2. CASE /\ Goes(p, i, [ops[p][i] EXCEPT !.at = "storing"])
               /\ UNCHANGED <<http, scan>>
      <4> DEFINE call == [ops[p][i] EXCEPT !.at = "storing"]
      <4>1. call \in Pipelined /\ call.kind = ops[p][i].kind /\ call.at = "storing"
            /\ call.by = ops[p][i].by /\ call.gen = ops[p][i].gen /\ call.mtime = ops[p][i].mtime
        BY <1>0 DEF Pipelined
      <4>2. row'[p] = row[p] /\ ops[p][1].at = "embedding"
        BY <1>1, <2>3 DEF CallEmbedded
      <4>3. Proceeds(p, call)
        BY <1>1, <1>6, <3>2, <4>1, <4>2 DEF Proceeds
      <4> QED
        BY <1>6, <3>2, <4>1, <4>3
    <3> QED
      BY <2>3, <3>1, <3>2 DEF CallEmbedded
  <2>4. CASE CallCommits(p, i)
    BY <1>5, <2>4 DEF CallCommits
  <2>5. CASE StoreFails(p, i)
    <3>1. CASE Settles(p, i)
      BY <1>5, <3>1
    <3>2. CASE /\ ~LastTry(ops[p][i])
               /\ Goes(p, i, [ops[p][i] EXCEPT !.tries = @ + 1])
               /\ UNCHANGED <<http, scan>>
      <4> DEFINE call == [ops[p][i] EXCEPT !.tries = @ + 1]
      <4>1. call \in Pipelined /\ call.kind = ops[p][i].kind /\ call.at = ops[p][i].at
            /\ call.by = ops[p][i].by /\ call.gen = ops[p][i].gen /\ call.mtime = ops[p][i].mtime
        <5>1. [ops[p][i] EXCEPT !.tries = @ + 1] \in Pipelined
          BY <1>0, <3>2, AnotherTry
        <5> QED
          BY <1>0, <3>2, <5>1 DEF Pipelined
      <4>2. ops[p][1].at = "storing"
        BY <1>1, <2>5 DEF StoreFails
      <4>3. Proceeds(p, call)
        BY <1>1, <1>4, <1>6, <3>2, <4>1, <4>2 DEF Proceeds
      <4> QED
        BY <1>6, <3>2, <4>1, <4>3
    <3> QED
      BY <2>5, <3>1, <3>2 DEF StoreFails
  <2> QED
    BY <2>1, <2>2, <2>3, <2>4, <2>5
<1> QED
  BY <1>1, <1>2, <1>3, <1>4, <1>7 DEF Bystands, worldVars

-----------------------------------------------------------------------------
(* The steps that are not of a call.                                       *)

\* The directory changes at p, or not at all.
LEMMA DiskSteps ==
    ASSUME TypeOK, NEW p \in Paths, PutOnDisk(p) \/ TakeOffDisk(p)
    PROVE  /\ gens' >= gens /\ clock' >= clock /\ changed'[p] = (life # "down")
           /\ \/ disk'[p] = Nothing
              \/ /\ gens' = gens + 1 /\ disk'[p].gen = gens'
                 /\ disk'[p].mtime <= clock' /\ (~MtimesRegress => disk'[p].mtime >= clock)
           /\ \A q \in Paths \ {p} : disk'[q] = disk[q] /\ changed'[q] = changed[q]
<1>1. CASE PutOnDisk(p)
  <2>1. gens' = gens + 1
    BY <1>1 DEF PutOnDisk
  <2>2. PICK t \in Mtimes : /\ clock' = IF t > clock THEN t ELSE clock
                            /\ disk' = [disk EXCEPT ![p] = [gen |-> gens + 1, mtime |-> t]]
    BY <1>1 DEF PutOnDisk
  <2>3. t \in 0..MaxClock /\ clock \in 0..MaxClock /\ (~MtimesRegress => t >= clock)
    BY IndexerAssumption DEF Mtimes, TypeOK
  <2>4. clock' >= clock /\ t <= clock'
    BY <2>2, <2>3
  <2>5. disk'[p] = [gen |-> gens + 1, mtime |-> t] /\ \A q \in Paths \ {p} : disk'[q] = disk[q]
    BY <2>2 DEF TypeOK
  <2>6. changed'[p] = (life # "down") /\ \A q \in Paths \ {p} : changed'[q] = changed[q]
    BY <1>1 DEF PutOnDisk, TypeOK
  <2> QED
    BY <2>1, <2>3, <2>4, <2>5, <2>6 DEF TypeOK
<1>2. CASE TakeOffDisk(p)
  <2>1. gens' >= gens /\ clock' >= clock
    BY <1>2 DEF TakeOffDisk, TypeOK
  <2>2. changed'[p] = (life # "down") /\ \A q \in Paths \ {p} : changed'[q] = changed[q]
    BY <1>2 DEF TakeOffDisk, TypeOK
  <2>3. disk'[p] = Nothing /\ \A q \in Paths \ {p} : disk'[q] = disk[q]
    BY <1>2 DEF TakeOffDisk, TypeOK
  <2> QED
    BY <2>1, <2>2, <2>3
<1> QED
  BY <1>1, <1>2

Request(p) ==
    \/ SyncWrites(p) \/ SyncRemoves(p) \/ PutWrites(p) \/ DeleteDrops(p)
    \/ PutReindexes(p) \/ DeleteUnlinks(p)
Watch(p) ==
    Notices(p) \/ DebounceEnds(p) \/ ScanLooks(p) \/ ScanStats(p) \/ ScanReads(p)

\* The rows stay, and at most a call that has not begun is added.
Calm(p) ==
    /\ row'[p] = row[p] /\ gens' >= gens /\ clock' >= clock
    /\ \/ disk'[p] = disk[p] \/ disk'[p] = Nothing
       \/ /\ gens' = gens + 1 /\ disk'[p].gen = gens'
          /\ disk'[p].mtime <= clock' /\ (~MtimesRegress => disk'[p].mtime >= clock)
    /\ \/ ops'[p] = ops[p] \/ ops'[p] = <<>>
       \/ \E call \in Pipelined : call.at = "queued" /\ Grew(p, call)

LEMMA RequestSteps ==
    ASSUME TypeOK, NEW p \in Paths, Request(p)
    PROVE  Calm(p) /\ \A q \in Paths \ {p} : Bystands(q)
<1>1. CASE SyncWrites(p) \/ SyncRemoves(p)
  BY <1>1, DiskSteps DEF SyncWrites, SyncRemoves, processVars, Calm, Bystands
<1>2. CASE PutWrites(p)
  <2>1. \A q \in Paths \ {p} : http'[q] = http[q]
    BY <1>2 DEF PutWrites, TypeOK
  <2> QED
    BY <1>2, <2>1, DiskSteps DEF PutWrites, httpRest, Calm, Bystands
<1>3. CASE DeleteDrops(p)
  <2>1. Grew(p, Call("remove", "http")) /\ \A q \in Paths \ {p} : ops'[q] = ops[q]
    BY <1>3, NewCall, EnqueueGrows DEF DeleteDrops
  <2>2. \A q \in Paths \ {p} : http'[q] = http[q]
    BY <1>3 DEF DeleteDrops, TypeOK
  <2>3. UNCHANGED <<httpRest, worldVars>> /\ gens' >= gens /\ clock' >= clock
    BY <1>3 DEF DeleteDrops, worldVars, TypeOK
  <2> QED
    BY <2>1, <2>2, <2>3, NewCall DEF httpRest, worldVars, Calm, Bystands
<1>4. CASE PutReindexes(p)
  <2>1. Grew(p, Call("upsert", "http")) /\ \A q \in Paths \ {p} : ops'[q] = ops[q]
    BY <1>4, NewCall, EnqueueGrows DEF PutReindexes
  <2>2. \A q \in Paths \ {p} : http'[q] = http[q]
    BY <1>4 DEF PutReindexes, TypeOK
  <2>3. UNCHANGED <<httpRest, worldVars>> /\ gens' >= gens /\ clock' >= clock
    BY <1>4 DEF PutReindexes, worldVars, TypeOK
  <2> QED
    BY <2>1, <2>2, <2>3, NewCall DEF httpRest, worldVars, Calm, Bystands
<1>5. CASE DeleteUnlinks(p)
  <2>1. \A q \in Paths \ {p} : http'[q] = http[q]
    BY <1>5 DEF DeleteUnlinks, TypeOK
  <2>2. CASE TakeOffDisk(p)
    BY <1>5, <2>1, <2>2, DiskSteps DEF DeleteUnlinks, httpRest, Calm, Bystands
  <2>3. CASE UNCHANGED worldVars
    <3>1. gens' >= gens /\ clock' >= clock
      BY <2>3 DEF worldVars, TypeOK
    <3> QED
      BY <1>5, <2>1, <2>3, <3>1 DEF DeleteUnlinks, worldVars, httpRest, Calm, Bystands
  <2> QED
    BY <1>5, <2>2, <2>3 DEF DeleteUnlinks
<1> QED
  BY <1>1, <1>2, <1>3, <1>4, <1>5 DEF Request

LEMMA WatchSteps ==
    ASSUME TypeOK, NEW p \in Paths, Watch(p)
    PROVE  Calm(p) /\ \A q \in Paths \ {p} : Bystands(q)
<1>0. UNCHANGED <<disk, gens, clock, row, life, stop, http>>
  BY DEF Watch, Notices, DebounceEnds, ScanLooks, ScanStats, ScanReads, scanRest, worldVars
<1>1. gens' >= gens /\ clock' >= clock
  BY <1>0 DEF TypeOK
<1>2. CASE Notices(p)
  <2>1. \A q \in Paths \ {p} : changed'[q] = changed[q] /\ pending'[q] = pending[q]
    BY <1>2 DEF Notices, TypeOK
  <2> QED
    BY <1>0, <1>1, <1>2, <2>1 DEF Notices, Calm, Bystands
<1>3. CASE DebounceEnds(p)
  <2>1. pending[p] \in {"upsert", "remove"}
    BY <1>3 DEF DebounceEnds, TypeOK
  <2>2. Grew(p, Call(pending[p], "watcher")) /\ \A q \in Paths \ {p} : ops'[q] = ops[q]
    BY <1>3, <2>1, NewCall, EnqueueGrows DEF DebounceEnds
  <2>3. \A q \in Paths \ {p} : pending'[q] = pending[q]
    BY <1>3 DEF DebounceEnds, TypeOK
  <2>4. UNCHANGED <<changed, scan>>
    BY <1>3 DEF DebounceEnds, worldVars
  <2> QED
    BY <1>0, <1>1, <2>1, <2>2, <2>3, <2>4, NewCall DEF Calm, Bystands
<1>4. CASE ScanLooks(p) \/ ScanStats(p)
  <2>1. UNCHANGED <<changed, pending, ops>> /\ \A q \in Paths \ {p} : scan'[q] = scan[q]
    BY <1>4 DEF ScanLooks, ScanStats, scanRest, worldVars, TypeOK
  <2> QED
    BY <1>0, <1>1, <2>1 DEF Calm, Bystands
<1>5. CASE ScanReads(p)
  <2>1. UNCHANGED <<changed, pending>>
    BY <1>5 DEF ScanReads, scanRest, worldVars
  <2>2. \A q \in Paths \ {p} : scan'[q] = scan[q]
    BY <1>5 DEF ScanReads, TypeOK
  <2>3. CASE UNCHANGED ops
    BY <1>0, <1>1, <2>1, <2>2, <2>3 DEF Calm, Bystands
  <2>4. CASE Enqueue(p, Call("upsert", "scan"))
    <3>1. Grew(p, Call("upsert", "scan")) /\ \A q \in Paths \ {p} : ops'[q] = ops[q]
      BY <2>4, NewCall, EnqueueGrows
    <3> QED
      BY <1>0, <1>1, <2>1, <2>2, <3>1, NewCall DEF Calm, Bystands
  <2> QED
    BY <1>5, <2>3, <2>4 DEF ScanReads
<1> QED
  BY <1>2, <1>3, <1>4, <1>5 DEF Watch

\* Marking the pipelines stopped hands the debounced events over.
LEMMA HandsOver ==
    ASSUME TypeOK, HandOver, NEW p \in Paths
    PROVE  /\ pending'[p] = "none"
           /\ pending[p] = "none" => ops'[p] = ops[p]
           /\ pending[p] # "none" =>
                 /\ pending[p] \in {"upsert", "remove"}
                 /\ Grew(p, Call(pending[p], "watcher"))
<1>1. ops[p] \in Seq(Pipelined) /\ pending[p] \in {"none", "upsert", "remove"}
  BY OpsTyped DEF TypeOK
<1>2. ASSUME pending[p] # "none"
      PROVE  Grew(p, Call(pending[p], "watcher"))
  <2>1. ops'[p] = Append(ops[p], Call(pending[p], "watcher"))
    BY <1>2 DEF HandOver
  <2>2. Call(pending[p], "watcher") \in Pipelined
    BY <1>1, <1>2, NewCall
  <2> QED
    BY <1>1, <2>1, <2>2 DEF Grew
<1> QED
  BY <1>1, <1>2 DEF HandOver

LEMMA GlobalSteps ==
    ASSUME TypeOK, Global
    PROVE  /\ \A p \in Paths : Calm(p)
           /\ UNCHANGED <<disk, gens, clock, row>>
<1>1. UNCHANGED <<disk, gens, clock, row>>
  BY DEF Global, BatchTimer, BatchEmbedded, BatchFails, WatcherReady, ScanEnds, Start,
         StopBegins, StoreCloses, StopTimesOut, ProcessEnds, rest, worldVars
<1>2. gens' >= gens /\ clock' >= clock
  BY <1>1 DEF TypeOK
<1>3. ASSUME NEW p \in Paths
      PROVE  \/ ops'[p] = ops[p] \/ ops'[p] = <<>>
             \/ \E call \in Pipelined : call.at = "queued" /\ Grew(p, call)
  <2>1. CASE StopBegins
    <3>1. CASE pending[p] = "none"
      BY <2>1, <3>1, HandsOver DEF StopBegins
    <3>2. CASE pending[p] # "none"
      <4>1. pending[p] \in {"upsert", "remove"} /\ Grew(p, Call(pending[p], "watcher"))
        BY <2>1, <3>2, HandsOver DEF StopBegins
      <4>2. /\ Call(pending[p], "watcher") \in Pipelined
            /\ Call(pending[p], "watcher").at = "queued"
        BY <4>1, NewCall
      <4> QED
        BY <4>1, <4>2
    <3> QED
      BY <3>1, <3>2
  <2>2. CASE ProcessEnds
    BY <2>2 DEF ProcessEnds
  <2>3. CASE ~StopBegins /\ ~ProcessEnds
    BY <2>3 DEF Global, BatchTimer, BatchEmbedded, BatchFails, WatcherReady, ScanEnds, Start,
         StoreCloses, StopTimesOut, rest
  <2> QED
    BY <2>1, <2>2, <2>3
<1> QED
  BY <1>1, <1>2, <1>3 DEF Calm

-----------------------------------------------------------------------------
(* The order of contents.                                                  *)

LEMMA Numbers ==
    ASSUME TypeOK, NEW p \in Paths
    PROVE  /\ gens \in Nat /\ clock \in Nat
           /\ disk[p].gen \in Nat /\ disk[p].mtime \in Nat
           /\ row[p].gen \in Nat /\ row[p].mtime \in Nat
           /\ Len(ops[p]) \in Nat /\ DOMAIN ops[p] = 1 .. Len(ops[p])
           /\ \A i \in DOMAIN ops[p] : ops[p][i].gen \in Nat /\ ops[p][i].mtime \in Nat
<1>1. gens \in Nat /\ clock \in Nat
  BY IndexerAssumption DEF TypeOK
<1>2. disk[p] \in Contents /\ row[p] \in Contents
  BY DEF TypeOK
<1>3. ops[p] \in Seq(Pipelined)
  BY OpsTyped
<1>4. \A i \in DOMAIN ops[p] : ops[p][i] \in Pipelined
  BY OpsTyped
<1>5. \A call \in Pipelined : call.gen \in Nat /\ call.mtime \in Nat
  BY IndexerAssumption DEF Pipelined
<1>6. \A c \in Contents : c.gen \in Nat /\ c.mtime \in Nat
  BY IndexerAssumption DEF Contents
<1> QED
  BY <1>1, <1>2, <1>3, <1>4, <1>5, <1>6

LEMMA NumbersNext ==
    ASSUME TypeOK', NEW p \in Paths
    PROVE  /\ gens' \in Nat /\ clock' \in Nat
           /\ disk'[p].gen \in Nat /\ disk'[p].mtime \in Nat
           /\ row'[p].gen \in Nat /\ row'[p].mtime \in Nat
           /\ Len(ops'[p]) \in Nat /\ DOMAIN ops'[p] = 1 .. Len(ops'[p])
<1>1. gens' \in Nat /\ clock' \in Nat
  BY IndexerAssumption DEF TypeOK
<1>2. disk'[p] \in Contents /\ row'[p] \in Contents
  BY DEF TypeOK
<1>3. ops'[p] \in Seq(Pipelined)
  BY DEF TypeOK, Pipelined
<1>4. \A c \in Contents : c.gen \in Nat /\ c.mtime \in Nat
  BY IndexerAssumption DEF Contents
<1> QED
  BY <1>1, <1>2, <1>3, <1>4

LEMMA CalmKeepsOrder ==
    ASSUME TypeOK, TypeOK', NEW p \in Paths, Calm(p), HeadMoves(p), Ordered(p)
    PROVE  HeadMoves(p)' /\ Ordered(p)'
<1>1. /\ gens \in Nat /\ gens' \in Nat /\ disk[p].gen \in Nat /\ row[p].gen \in Nat
      /\ disk'[p].gen \in Nat
      /\ DOMAIN ops[p] = 1 .. Len(ops[p]) /\ DOMAIN ops'[p] = 1 .. Len(ops'[p])
      /\ Len(ops[p]) \in Nat
  BY Numbers, NumbersNext
<1>2. \A i \in DOMAIN ops[p] : ops[p][i].gen \in Nat
  BY Numbers
<1>3. \A i \in DOMAIN ops'[p] :
         \/ i \in DOMAIN ops[p] /\ ops'[p][i] = ops[p][i]
         \/ ops'[p][i].at = "queued"
  <2>1. ASSUME NEW call \in Pipelined, call.at = "queued", Grew(p, call)
        PROVE  \A i \in DOMAIN ops'[p] :
                  \/ i \in DOMAIN ops[p] /\ ops'[p][i] = ops[p][i]
                  \/ ops'[p][i].at = "queued"
    BY <1>1, <2>1 DEF Grew
  <2>2. CASE ops'[p] = ops[p] \/ ops'[p] = <<>>
    BY <2>2
  <2> QED
    BY <2>1, <2>2 DEF Calm
<1>4. HeadMoves(p)'
  BY <1>3 DEF HeadMoves
<1>5. /\ disk'[p].gen <= gens' /\ row'[p].gen <= gens' /\ row'[p].gen \notin Blank
      /\ Exists(p)' => row'[p].gen <= disk'[p].gen
  BY <1>1 DEF Calm, Ordered, Exists, Nothing
<1>6. ASSUME NEW i \in DOMAIN ops[p], InFlight(ops[p][i])
      PROVE  /\ row'[p].gen <= ops[p][i].gen /\ ops[p][i].gen <= gens' /\ ops[p][i].gen # 0
             /\ Exists(p)' => ops[p][i].gen <= disk'[p].gen
  BY <1>1, <1>2, <1>6 DEF Calm, Ordered, Exists, Nothing
<1> QED
  BY <1>3, <1>4, <1>5, <1>6 DEF Ordered, InFlight

LEMMA CallKeepsOrder ==
    ASSUME TypeOK, TypeOK', NEW p \in Paths, ops[p] # <<>>, UNCHANGED worldVars,
           HeadMoves(p), Ordered(p),
           Ends(p) \/ \E call \in Pipelined : Proceeds(p, call)
    PROVE  /\ HeadMoves(p)' /\ Ordered(p)'
           /\ row'[p].gen # 0 => row'[p].gen >= row[p].gen
<1>1. /\ gens \in Nat /\ disk[p].gen \in Nat /\ row[p].gen \in Nat
      /\ DOMAIN ops[p] = 1 .. Len(ops[p]) /\ DOMAIN ops'[p] = 1 .. Len(ops'[p])
      /\ Len(ops[p]) \in Nat /\ Len(ops[p]) >= 1 /\ 1 \in DOMAIN ops[p]
  <2>1. ops[p] \in Seq(Pipelined)
    BY OpsTyped
  <2>2. Len(ops[p]) >= 1
    BY <2>1
  <2> QED
    BY <2>2, Numbers, NumbersNext
<1>2. ops[p][1] \in Pipelined /\ ops[p][1].gen \in Nat
  BY <1>1, OpsTyped, Numbers
<1>3. gens' = gens /\ disk' = disk
  BY DEF worldVars
<1>4. ASSUME row'[p] = Rows(ops[p][1]), ops[p][1].at = "storing"
      PROVE  \/ row'[p].gen = 0
             \/ InFlight(ops[p][1]) /\ row'[p].gen = ops[p][1].gen /\ row'[p].gen \notin Blank
  <2>1. ops[p][1].kind # "remove" => ops[p][1].kind = "upsert"
    BY <1>2 DEF Pipelined
  <2> QED
    BY <1>4, <2>1 DEF Rows, Nothing, InFlight
<1>5. row'[p] = row[p] \/ (ops[p][1].at = "storing" /\ row'[p] = Rows(ops[p][1]))
  BY DEF Ends, Proceeds
<1>6. /\ row'[p].gen # 0 => row'[p].gen >= row[p].gen
      /\ row'[p].gen <= gens /\ row'[p].gen \notin Blank
      /\ Exists(p) => row'[p].gen <= disk[p].gen
  <2>1. CASE row'[p] = row[p]
    BY <1>1, <2>1 DEF Ordered
  <2>2. CASE row'[p].gen = 0
    <3>1. 0 \notin Blank
      BY IndexerAssumption
    <3> QED
      BY <1>1, <2>2, <3>1
  <2>3. CASE InFlight(ops[p][1]) /\ row'[p].gen = ops[p][1].gen /\ row'[p].gen \notin Blank
    BY <1>1, <2>3 DEF Ordered
  <2> QED
    BY <1>4, <1>5, <2>1, <2>2, <2>3
<1>7. InFlight(ops[p][1]) => row'[p].gen <= ops[p][1].gen
  BY <1>1, <1>2, <1>4, <1>5 DEF Ordered
<1>8. CASE Ends(p)
  <2>1. \A i \in DOMAIN ops'[p] : ops'[p][i].at = "queued"
                                  /\ i + 1 \in DOMAIN ops[p] /\ ops'[p][i] = ops[p][i + 1]
    BY <1>1, <1>8 DEF Ends, Shrank, HeadMoves
  <2>2. HeadMoves(p)'
    BY <2>1 DEF HeadMoves
  <2> QED
    BY <1>3, <1>6, <2>1, <2>2 DEF Ordered, InFlight, Exists
<1>9. ASSUME NEW call \in Pipelined, Proceeds(p, call)
      PROVE  HeadMoves(p)' /\ Ordered(p)'
  <2>1. \A i \in DOMAIN ops'[p] :
           \/ i = 1 /\ ops'[p][i] = call
           \/ i > 1 /\ i \in DOMAIN ops[p] /\ ops'[p][i] = ops[p][i] /\ ops'[p][i].at = "queued"
    BY <1>1, <1>9 DEF Proceeds, Moved, HeadMoves
  <2>2. HeadMoves(p)'
    BY <1>1, <1>2, <1>9, <2>1 DEF HeadMoves, Proceeds
  <2>3. ASSUME InFlight(call)
        PROVE  /\ row'[p].gen <= call.gen /\ call.gen <= gens /\ call.gen # 0
               /\ Exists(p) => call.gen <= disk[p].gen
    <3>1. CASE ops[p][1].at = "queued"
      BY <1>1, <1>9, <2>3, <3>1 DEF Proceeds, InFlight, Ordered, Exists
    <3>2. CASE ops[p][1].at # "queued"
      <4>1. InFlight(ops[p][1]) /\ call.gen = ops[p][1].gen
        BY <1>9, <2>3, <3>2 DEF Proceeds, InFlight
      <4> QED
        BY <1>1, <1>7, <4>1 DEF Ordered
    <3> QED
      BY <3>1, <3>2
  <2> QED
    BY <1>3, <1>6, <2>1, <2>2, <2>3 DEF Ordered, InFlight, Exists
<1> QED
  BY <1>6, <1>8, <1>9

\* A step, by whom it is of.
LEMMA Cases ==
    ASSUME Progress \/ Requests
    PROVE  \/ \E p \in Paths : \E i \in DOMAIN ops[p] :
                 \/ CallBegins(p, i) \/ CallStats(p, i) \/ CallEmbedded(p, i)
                 \/ CallCommits(p, i) \/ StoreFails(p, i)
           \/ \E p \in Paths : Request(p)
           \/ \E p \in Paths : Watch(p)
           \/ Global
  BY Steps DEF Request, Watch

OrderInv == \A p \in Paths : HeadMoves(p) /\ Ordered(p)

LEMMA BystandIsCalm ==
    ASSUME NEW p \in Paths, Bystands(p)
    PROVE  Calm(p)
  BY DEF Bystands, Calm

LEMMA OrderInit == Init => OrderInv
<1> SUFFICES ASSUME Init, NEW p \in Paths
             PROVE  HeadMoves(p) /\ Ordered(p)
  BY DEF OrderInv
<1>1. ops[p] = <<>> /\ disk[p] = Nothing /\ row[p] = Nothing /\ gens = 0
  BY DEF Init
<1>2. 0 \notin Blank
  BY IndexerAssumption
<1> QED
  BY <1>1, <1>2 DEF HeadMoves, Ordered, Exists, Nothing

LEMMA OrderStep ==
    ASSUME TypeOK, TypeOK', OrderInv, [Next]_vars
    PROVE  /\ OrderInv'
           /\ \A p \in Paths : row[p].gen # 0 /\ row'[p].gen # 0 => row'[p].gen >= row[p].gen
<1> SUFFICES ASSUME NEW q \in Paths
             PROVE  /\ HeadMoves(q)' /\ Ordered(q)'
                    /\ row'[q].gen # 0 => row'[q].gen >= row[q].gen
  BY DEF OrderInv
<1>0. HeadMoves(q) /\ Ordered(q)
  BY DEF OrderInv
<1>1. ASSUME Calm(q)
      PROVE  /\ HeadMoves(q)' /\ Ordered(q)'
             /\ row'[q].gen # 0 => row'[q].gen >= row[q].gen
  <2>1. row'[q].gen >= row[q].gen
    BY <1>1, Numbers DEF Calm
  <2> QED
    BY <1>0, <1>1, <2>1, CalmKeepsOrder
<1>2. CASE UNCHANGED vars
  BY <1>1, <1>2, Numbers DEF Calm, vars, worldVars, processVars
<1>3. ASSUME NEW p \in Paths, NEW i \in DOMAIN ops[p],
             CallBegins(p, i) \/ CallStats(p, i) \/ CallEmbedded(p, i)
             \/ CallCommits(p, i) \/ StoreFails(p, i)
      PROVE  /\ HeadMoves(q)' /\ Ordered(q)'
             /\ row'[q].gen # 0 => row'[q].gen >= row[q].gen
  <2>0. HeadMoves(p)
    BY DEF OrderInv
  <2>1. /\ \A r \in Paths \ {p} : Bystands(r)
        /\ UNCHANGED worldVars
        /\ Ends(p) \/ \E call \in Pipelined : Proceeds(p, call)
    BY <1>3, <2>0, CallSteps
  <2>2. CASE q # p
    BY <1>1, <2>1, <2>2, BystandIsCalm
  <2>3. CASE q = p
    <3>1. ops[q] # <<>>
      BY <2>3
    <3> QED
      BY <1>0, <2>1, <2>3, <3>1, CallKeepsOrder
  <2> QED
    BY <2>2, <2>3
<1>4. ASSUME NEW p \in Paths, Request(p) \/ Watch(p)
      PROVE  Calm(q)
  <2>1. Calm(p) /\ \A r \in Paths \ {p} : Bystands(r)
    BY <1>4, RequestSteps, WatchSteps
  <2> QED
    BY <2>1, BystandIsCalm
<1>5. ASSUME Global PROVE Calm(q)
  BY <1>5, GlobalSteps
<1> QED
  BY <1>1, <1>2, <1>3, <1>4, <1>5, Cases DEF Next

LEMMA OrderAlways == Spec => [](TypeOK /\ OrderInv)
<1>1. Init => TypeOK /\ OrderInv
  BY TypeInit, OrderInit
<1>2. TypeOK /\ OrderInv /\ [Next]_vars => TypeOK' /\ OrderInv'
  BY TypeStep, OrderStep
<1> QED
  BY <1>1, <1>2, PTL DEF Spec

\* A path's rows are never replaced by those of an earlier content, for any
\* number of files, workers, requests, writes, faults and lives, and with
\* mtimes that go back too (runLocked, upsertImpl and the store).
THEOREM OrderOfRows == Spec => RowsNeverGoBack
<1>1. TypeOK /\ OrderInv /\ TypeOK' /\ [Next]_vars =>
        [\A p \in Paths : row[p].gen # 0 /\ row'[p].gen # 0 => row'[p].gen >= row[p].gen]_vars
  BY OrderStep
<1> QED
  BY <1>1, OrderAlways, PTL DEF Spec, RowsNeverGoBack

-----------------------------------------------------------------------------
(* The places of calls, requests and the process.                          *)

Places(p) == OneCallEach(p) /\ Stages(p) /\ EndsRight(p)

LEMMA BystandersPlaces ==
    ASSUME NEW p \in Paths, Bystands(p), Places(p)
    PROVE  Places(p)'
<1>1. OneCallEach(p)'
  BY DEF Bystands, Places, OneCallEach
<1>2. Stages(p)'
  BY DEF Bystands, Places, Stages, Watching, Stopped
<1>3. EndsRight(p)'
  BY DEF Bystands, Places, EndsRight, EventComes, Watching, Stopped, Exists, LastCall, Deleting
<1> QED
  BY <1>1, <1>2, <1>3 DEF Places

LEMMA CallPlaces ==
    ASSUME TypeOK, TypeOK', NEW p \in Paths, ops[p] # <<>>, Places(p),
           UNCHANGED <<worldVars, life, stop, pending>>,
           Ends(p) \/ \E call \in Pipelined : Proceeds(p, call)
    PROVE  Places(p)'
<1>1. /\ DOMAIN ops[p] = 1 .. Len(ops[p]) /\ DOMAIN ops'[p] = 1 .. Len(ops'[p])
      /\ Len(ops[p]) \in Nat /\ Len(ops[p]) >= 1 /\ 1 \in DOMAIN ops[p]
      /\ Len(ops'[p]) \in Nat
  <2>1. ops[p] \in Seq(Pipelined)
    BY OpsTyped
  <2>2. Len(ops[p]) >= 1
    BY <2>1
  <2> QED
    BY <2>2, Numbers, NumbersNext
<1>2. disk' = disk /\ changed' = changed /\ life' = life /\ stop' = stop /\ pending' = pending
  BY DEF worldVars
<1>3. ops[p][1] \in Pipelined
  BY <1>1, OpsTyped
<1>4. Len(ops'[p]) # 0 <=> ops'[p] # <<>>
  <2>1. ops'[p] \in Seq(Pipelined)
    BY DEF TypeOK, Pipelined
  <2> QED
    BY <2>1
<1>5. CASE Ends(p)
  <2>1. \A i \in DOMAIN ops'[p] : i + 1 \in DOMAIN ops[p] /\ ops'[p][i] = ops[p][i + 1]
                                  /\ i + 1 # 1
    BY <1>1, <1>5 DEF Ends, Shrank
  <2>2. OneCallEach(p)'
    <3> SUFFICES ASSUME NEW i \in DOMAIN ops'[p]
                 PROVE  /\ ops'[p][i].by = "http" =>
                             http'[p] = IF ops'[p][i].kind = "upsert" THEN "reindex" ELSE "drop"
                        /\ ops'[p][i].by = "scan" => scan'[p].at = "submitted"
                        /\ ops'[p][i].by # "watcher" =>
                             \A j \in DOMAIN ops'[p] : ops'[p][j].by = ops'[p][i].by => i = j
      BY DEF OneCallEach
    <3>1. i + 1 \in DOMAIN ops[p] /\ ops'[p][i] = ops[p][i + 1] /\ i + 1 # 1
      BY <2>1
    <3>2. ops'[p][i].by # "watcher" => ops[p][1].by # ops'[p][i].by
      BY <1>1, <3>1 DEF Places, OneCallEach
    <3>3. ops'[p][i].by # "watcher" =>
             \A j \in DOMAIN ops'[p] : ops'[p][j].by = ops'[p][i].by => i = j
      <4> SUFFICES ASSUME ops'[p][i].by # "watcher",
                          NEW j \in DOMAIN ops'[p], ops'[p][j].by = ops'[p][i].by
                   PROVE  i = j
        OBVIOUS
      <4>1. j + 1 \in DOMAIN ops[p] /\ ops'[p][j] = ops[p][j + 1]
        BY <2>1
      <4>2. i + 1 = j + 1
        BY <3>1, <4>1 DEF Places, OneCallEach
      <4>3. i \in Int /\ j \in Int
        BY <1>1
      <4> QED
        BY <4>2, <4>3
    <3>4. ops'[p][i].by = "http" => http'[p] = http[p]
      BY <1>5, <3>2 DEF Ends
    <3>5. ops'[p][i].by = "scan" => scan'[p] = scan[p]
      BY <1>5, <3>2 DEF Ends
    <3> QED
      BY <3>1, <3>3, <3>4, <3>5 DEF Places, OneCallEach
  <2>3. Stages(p)'
    <3>1. scan'[p].at = scan[p].at \/ scan'[p].at = "done"
      <4>1. scan[p] \in [at : {"todo", "looked", "gated", "submitted", "done"}, prev : Contents]
        BY DEF TypeOK
      <4> QED
        BY <1>5, <4>1 DEF Ends
    <3> QED
      BY <1>2, <2>1, <3>1 DEF Places, Stages, Watching, Stopped
  <2>4. Deleting(p) => Deleting(p)'
    <3>1. ops[p][1].by = "http" => http[p] \in {"reindex", "drop"}
      BY <1>1 DEF Places, OneCallEach
    <3> QED
      BY <1>5, <3>1 DEF Ends, Deleting
  <2>5. ops'[p] # <<>> => LastCall(p)' = LastCall(p) /\ ops[p] # <<>>
    BY <1>1, <1>4, <1>5, <2>1 DEF Ends, Shrank, LastCall
  <2>6. EndsRight(p)'
    BY <1>2, <2>4, <2>5 DEF Places, EndsRight, EventComes, Watching, Stopped, Exists
  <2> QED
    BY <2>2, <2>3, <2>6 DEF Places
<1>6. ASSUME NEW call \in Pipelined, Proceeds(p, call)
      PROVE  Places(p)'
  <2>1. \A i \in DOMAIN ops'[p] : i \in DOMAIN ops[p] /\ ops'[p][i].by = ops[p][i].by
                                  /\ ops'[p][i].kind = ops[p][i].kind
    BY <1>1, <1>6 DEF Proceeds, Moved
  <2>2. http'[p] = http[p] /\ scan'[p] = scan[p]
    BY <1>6 DEF Proceeds
  <2>3. OneCallEach(p)'
    BY <2>1, <2>2 DEF Places, OneCallEach
  <2>4. Stages(p)'
    BY <1>2, <2>1, <2>2 DEF Places, Stages, Watching, Stopped
  <2>5. LastCall(p).kind = "upsert" => LastCall(p)'.kind = "upsert"
    BY <1>1, <1>6, <2>1 DEF Proceeds, Moved, LastCall
  <2>6. EndsRight(p)'
    BY <1>2, <2>2, <2>5 DEF Places, EndsRight, EventComes, Watching, Stopped, Exists, Deleting
  <2> QED
    BY <2>3, <2>4, <2>6 DEF Places
<1> QED
  BY <1>5, <1>6

\* A call that has not begun is added to those of p.
LEMMA AddedPlaces ==
    ASSUME TypeOK, TypeOK', NEW p \in Paths, OneCallEach(p),
           NEW kind \in {"upsert", "remove"}, NEW by \in {"watcher", "scan", "http"},
           Grew(p, Call(kind, by)),
           IF by = "http"
           THEN /\ http[p] \notin {"reindex", "drop"}
                /\ http'[p] = IF kind = "upsert" THEN "reindex" ELSE "drop"
           ELSE http'[p] = http[p],
           IF by = "scan" THEN scan[p].at # "submitted" /\ scan'[p].at = "submitted"
           ELSE scan'[p].at = scan[p].at
    PROVE  /\ OneCallEach(p)'
           /\ \A i \in DOMAIN ops'[p] : (i \in DOMAIN ops[p] /\ ops'[p][i] = ops[p][i])
                                        \/ ops'[p][i] = Call(kind, by)
           /\ ops'[p] # <<>> /\ LastCall(p)' = Call(kind, by)
<1>1. /\ DOMAIN ops[p] = 1 .. Len(ops[p]) /\ DOMAIN ops'[p] = 1 .. Len(ops'[p])
      /\ Len(ops[p]) \in Nat
  BY Numbers, NumbersNext
<1>2. \A i \in DOMAIN ops'[p] : \/ i \in DOMAIN ops[p] /\ ops'[p][i] = ops[p][i]
                                \/ i = Len(ops[p]) + 1 /\ ops'[p][i] = Call(kind, by)
  BY <1>1 DEF Grew
<1>3. Call(kind, by).by = by /\ Call(kind, by).kind = kind
  BY DEF Call
<1>4. \A i \in DOMAIN ops[p] : by # "watcher" => ops[p][i].by # by
  BY DEF OneCallEach
<1>5. OneCallEach(p)'
  <2> SUFFICES ASSUME NEW i \in DOMAIN ops'[p]
               PROVE  /\ ops'[p][i].by = "http" =>
                           http'[p] = IF ops'[p][i].kind = "upsert" THEN "reindex" ELSE "drop"
                      /\ ops'[p][i].by = "scan" => scan'[p].at = "submitted"
                      /\ ops'[p][i].by # "watcher" =>
                           \A j \in DOMAIN ops'[p] : ops'[p][j].by = ops'[p][i].by => i = j
    BY DEF OneCallEach
  <2>1. CASE i \in DOMAIN ops[p] /\ ops'[p][i] = ops[p][i]
    <3>1. ops'[p][i].by # "watcher" => ops'[p][i].by # by
      BY <1>4, <2>1
    <3>2. ops'[p][i].by # "watcher" =>
             \A j \in DOMAIN ops'[p] : ops'[p][j].by = ops'[p][i].by => i = j
      BY <1>2, <1>3, <2>1, <3>1 DEF OneCallEach
    <3> QED
      BY <2>1, <3>1, <3>2 DEF OneCallEach
  <2>2. CASE i = Len(ops[p]) + 1 /\ ops'[p][i] = Call(kind, by)
    BY <1>2, <1>3, <1>4, <2>2
  <2> QED
    BY <1>2, <2>1, <2>2
<1>6. ops'[p] # <<>> /\ LastCall(p)' = Call(kind, by)
  <2>1. LastCall(p)' = Call(kind, by)
    BY DEF LastCall, Grew
  <2>2. ops'[p] # <<>>
    BY <1>1 DEF Grew
  <2> QED
    BY <2>1, <2>2
<1> QED
  BY <1>2, <1>5, <1>6

LEMMA RequestPlaces ==
    ASSUME TypeOK, TypeOK', NEW p \in Paths, Request(p), Places(p)
    PROVE  Places(p)'
<1>0. \A i \in DOMAIN ops[p] : ops[p][i].by = "http" => http[p] \in {"reindex", "drop"}
  BY DEF Places, OneCallEach
<1>1. UNCHANGED <<row, life, stop, pending, scan>>
  BY DEF Request, SyncWrites, SyncRemoves, PutWrites, DeleteDrops, PutReindexes, DeleteUnlinks,
         processVars, httpRest
<1>2. ASSUME UNCHANGED ops, http'[p] = http[p] \/ http[p] \notin {"reindex", "drop"}
      PROVE  OneCallEach(p)' /\ Stages(p)'
  <2>1. OneCallEach(p)'
    BY <1>0, <1>1, <1>2 DEF Places, OneCallEach
  <2>2. Stages(p)'
    BY <1>1, <1>2 DEF Places, Stages, Watching, Stopped
  <2> QED
    BY <2>1, <2>2
<1>3. ASSUME PutOnDisk(p) \/ TakeOffDisk(p)
      PROVE  EndsRight(p)'
  <2>1. changed'[p] = (life # "down")
    BY <1>3, DiskSteps
  <2>2. CASE life = "down"
    BY <1>1, <2>2 DEF Places, Stages, EndsRight, Watching, Stopped
  <2>3. CASE life # "down"
    BY <2>1, <2>3 DEF EndsRight, EventComes
  <2> QED
    BY <2>2, <2>3
<1>4. CASE SyncWrites(p) \/ SyncRemoves(p)
  BY <1>2, <1>3, <1>4 DEF SyncWrites, SyncRemoves, processVars, Places
<1>5. CASE PutWrites(p)
  BY <1>2, <1>3, <1>5 DEF PutWrites, Places
<1>6. CASE DeleteUnlinks(p)
  <2>1. OneCallEach(p)' /\ Stages(p)'
    BY <1>2, <1>6 DEF DeleteUnlinks
  <2>2. CASE TakeOffDisk(p)
    BY <1>3, <2>1, <2>2 DEF Places
  <2>3. CASE ~Exists(p) /\ UNCHANGED worldVars
    <3>1. EndsRight(p)'
      BY <1>1, <1>6, <2>3 DEF Places, EndsRight, EventComes, Watching, Stopped, Exists, worldVars,
                              DeleteUnlinks
    <3> QED
      BY <2>1, <3>1 DEF Places
  <2> QED
    BY <1>6, <2>2, <2>3 DEF DeleteUnlinks
<1>7. ASSUME NEW kind \in {"upsert", "remove"}, Enqueue(p, Call(kind, "http")),
             http[p] \notin {"reindex", "drop"}, UNCHANGED worldVars,
             http'[p] = IF kind = "upsert" THEN "reindex" ELSE "drop"
      PROVE  Places(p)'
  <2>0. "http" \in {"watcher", "scan", "http"}
    OBVIOUS
  <2>1. Grew(p, Call(kind, "http"))
    BY <1>7, <2>0, NewCall, EnqueueGrows
  <2>2. /\ OneCallEach(p)'
        /\ \A i \in DOMAIN ops'[p] : (i \in DOMAIN ops[p] /\ ops'[p][i] = ops[p][i])
                                     \/ ops'[p][i] = Call(kind, "http")
        /\ LastCall(p)' = Call(kind, "http")
    BY <1>1, <1>7, <2>0, <2>1, AddedPlaces DEF Places
  <2>3. Call(kind, "http").by = "http" /\ Call(kind, "http").kind = kind
    BY DEF Call
  <2>4. Stages(p)'
    BY <1>1, <2>2, <2>3 DEF Places, Stages, Watching, Stopped
  <2>5. EndsRight(p)'
    BY <1>1, <1>7, <2>2, <2>3 DEF Places, EndsRight, EventComes, Watching, Stopped, Exists,
                                  worldVars, Deleting
  <2> QED
    BY <2>2, <2>4, <2>5 DEF Places
<1>8. CASE DeleteDrops(p)
  <2>1. http'[p] = "drop"
    BY <1>8 DEF DeleteDrops, TypeOK
  <2> QED
    BY <1>7, <1>8, <2>1 DEF DeleteDrops
<1>9. CASE PutReindexes(p)
  <2>1. http'[p] = "reindex"
    BY <1>9 DEF PutReindexes, TypeOK
  <2> QED
    BY <1>7, <1>9, <2>1 DEF PutReindexes
<1> QED
  BY <1>4, <1>5, <1>6, <1>8, <1>9 DEF Request

LEMMA WatchPlaces ==
    ASSUME TypeOK, TypeOK', NEW p \in Paths, Watch(p), Places(p)
    PROVE  Places(p)'
<1>0. UNCHANGED <<disk, gens, clock, row, life, stop, http>>
  BY DEF Watch, Notices, DebounceEnds, ScanLooks, ScanStats, ScanReads, scanRest, worldVars
<1>1. CASE Notices(p)
  <2>1. changed'[p] = FALSE /\ pending'[p] = IF Exists(p) THEN "upsert" ELSE "remove"
    BY <1>1 DEF Notices, LastKind, TypeOK
  <2>2. UNCHANGED <<ops, scan>> /\ Watching
    BY <1>1 DEF Notices
  <2>3. OneCallEach(p)'
    BY <1>0, <2>2 DEF Places, OneCallEach
  <2>4. Stages(p)'
    BY <1>0, <2>2 DEF Places, Stages, Watching, Stopped
  <2>5. EndsRight(p)'
    BY <1>0, <2>1, <2>2 DEF EndsRight, EventComes, Exists
  <2> QED
    BY <2>3, <2>4, <2>5 DEF Places
<1>2. CASE DebounceEnds(p)
  <2>0. pending[p] \in {"upsert", "remove"} /\ "watcher" \in {"watcher", "scan", "http"}
    BY <1>2 DEF DebounceEnds, TypeOK
  <2>1. pending'[p] = "none" /\ UNCHANGED <<changed, scan>>
    BY <1>2 DEF DebounceEnds, worldVars, TypeOK
  <2>2. Grew(p, Call(pending[p], "watcher"))
    BY <1>2, <2>0, NewCall, EnqueueGrows DEF DebounceEnds
  <2>3. /\ OneCallEach(p)'
        /\ LastCall(p)' = Call(pending[p], "watcher")
    BY <1>0, <2>0, <2>1, <2>2, AddedPlaces DEF Places
  <2>4. Call(pending[p], "watcher").kind = pending[p]
    BY DEF Call
  <2>5. Watching
    BY <2>0 DEF Places, Stages
  <2>6. Stages(p)'
    BY <1>0, <2>1, <2>5 DEF Places, Stages, Watching, Stopped
  <2>7. EndsRight(p)'
    BY <1>0, <2>0, <2>1, <2>3, <2>4 DEF Places, EndsRight, EventComes, Exists
  <2> QED
    BY <2>3, <2>6, <2>7 DEF Places
<1>3. ASSUME UNCHANGED <<changed, pending, ops>>, scan[p].at \in {"todo", "looked", "gated"}
      PROVE  Places(p)'
  <2>1. life \notin {"down", "starting", "ready"}
    BY <1>3 DEF Places, Stages
  <2>2. \A i \in DOMAIN ops[p] : ops[p][i].by # "scan"
    BY <1>3 DEF Places, OneCallEach
  <2>3. OneCallEach(p)'
    BY <1>0, <1>3, <2>2 DEF Places, OneCallEach
  <2>4. Stages(p)'
    BY <1>0, <1>3, <2>1 DEF Places, Stages, Watching, Stopped
  <2>5. EndsRight(p)'
    BY <1>0, <1>3 DEF Places, EndsRight, EventComes, Watching, Stopped, Exists, LastCall, Deleting
  <2> QED
    BY <2>3, <2>4, <2>5 DEF Places
<1>4. CASE ScanLooks(p) \/ ScanStats(p)
  BY <1>3, <1>4 DEF ScanLooks, ScanStats, scanRest, worldVars
<1>5. CASE ScanReads(p)
  <2>1. UNCHANGED <<changed, pending>> /\ scan[p].at = "gated"
    BY <1>5 DEF ScanReads, scanRest, worldVars
  <2>2. CASE UNCHANGED ops
    BY <1>3, <2>1, <2>2
  <2>3. CASE Enqueue(p, Call("upsert", "scan")) /\ scan' = [scan EXCEPT ![p].at = "submitted"]
    <3>0. "upsert" \in {"upsert", "remove"} /\ "scan" \in {"watcher", "scan", "http"}
      OBVIOUS
    <3>1. Grew(p, Call("upsert", "scan"))
      BY <2>3, NewCall, EnqueueGrows
    <3>2. scan'[p].at = "submitted"
      BY <2>3 DEF TypeOK
    <3>3. OneCallEach(p)' /\ LastCall(p)' = Call("upsert", "scan")
      BY <1>0, <2>1, <3>0, <3>1, <3>2, AddedPlaces DEF Places
    <3>4. life \notin {"down", "starting", "ready"}
      BY <2>1 DEF Places, Stages
    <3>5. Call("upsert", "scan").kind = "upsert"
      BY DEF Call
    <3>6. Stages(p)'
      BY <1>0, <2>1, <3>4 DEF Places, Stages, Watching, Stopped
    <3>7. EndsRight(p)'
      BY <1>0, <2>1, <3>3, <3>5 DEF Places, EndsRight, EventComes, Exists
    <3> QED
      BY <3>3, <3>6, <3>7 DEF Places
  <2> QED
    BY <1>5, <2>2, <2>3 DEF ScanReads
<1> QED
  BY <1>1, <1>2, <1>4, <1>5 DEF Watch

LEMMA GlobalPlaces ==
    ASSUME TypeOK, TypeOK', \A p \in Paths : Places(p), Global
    PROVE  \A p \in Paths : Places(p)'
<1> SUFFICES ASSUME NEW p \in Paths
             PROVE  Places(p)'
  OBVIOUS
<1>0. Places(p) /\ UNCHANGED <<disk, gens, clock, row>>
  BY GlobalSteps
<1>1. CASE BatchTimer \/ BatchEmbedded \/ BatchFails
  <2>1. Bystands(p)
    BY <1>1, Numbers DEF BatchTimer, BatchEmbedded, BatchFails, rest, worldVars, Bystands
  <2> QED
    BY <1>0, <2>1, BystandersPlaces
<1>2. CASE ScanEnds \/ StopTimesOut
  <2>1. UNCHANGED <<changed, pending, ops, http, scan>>
    BY <1>2 DEF ScanEnds, StopTimesOut, worldVars
  <2>2. OneCallEach(p)'
    BY <1>0, <2>1 DEF Places, OneCallEach
  <2>3. CASE ScanEnds
    <3>1. life = "scanning" /\ life' = "ready" /\ scan[p].at = "done" /\ stop' = stop
      BY <2>3 DEF ScanEnds
    <3>2. Stages(p)'
      BY <1>0, <2>1, <3>1 DEF Places, Stages, Watching, Stopped
    <3>3. EndsRight(p)'
      BY <1>0, <2>1, <3>1 DEF Places, EndsRight, EventComes, Watching, Stopped, Exists, LastCall,
                              Deleting
    <3> QED
      BY <2>2, <3>2, <3>3 DEF Places
  <2>4. CASE StopTimesOut
    <3>1. stop = "stopping" /\ stop' = "timedOut" /\ life' = life
      BY <2>4 DEF StopTimesOut
    <3>2. Stages(p)'
      BY <1>0, <2>1, <3>1 DEF Places, Stages, Watching, Stopped
    <3>3. EndsRight(p)'
      BY <1>0, <2>1, <3>1 DEF Places, Stages, EndsRight, Watching, Stopped
    <3> QED
      BY <2>2, <3>2, <3>3 DEF Places
  <2> QED
    BY <1>2, <2>3, <2>4
<1>3. CASE Start
  <2>1. UNCHANGED <<changed, pending, ops, http, scan, stop>> /\ life = "down" /\ life' = "starting"
    BY <1>3 DEF Start, worldVars
  <2>2. OneCallEach(p)'
    BY <1>0, <2>1 DEF Places, OneCallEach
  <2>3. Stages(p)'
    BY <1>0, <2>1 DEF Places, Stages, Watching, Stopped
  <2>4. EndsRight(p)'
    BY <1>0, <2>1 DEF Places, Stages, EndsRight, Watching, Stopped
  <2> QED
    BY <2>2, <2>3, <2>4 DEF Places
<1>4. CASE WatcherReady
  <2>1. UNCHANGED <<pending, ops, http, stop>> /\ life = "starting" /\ life' = "scanning"
        /\ stop = "no"
    BY <1>4 DEF WatcherReady, Stopped
  <2>2. pending[p] = "none" /\ \A i \in DOMAIN ops[p] : ops[p][i].by = "http"
    BY <1>0, <2>1 DEF Places, Stages, Watching
  <2>3. OneCallEach(p)'
    BY <1>0, <2>1, <2>2 DEF Places, OneCallEach
  <2>4. Stages(p)'
    BY <2>1, <2>2 DEF Stages, Watching, Stopped
  <2>5. ops[p] # <<>> => LastCall(p).kind = "upsert" \/ Deleting(p)
    <3>1. ASSUME ops[p] # <<>> PROVE Len(ops[p]) \in DOMAIN ops[p]
      <4>1. ops[p] \in Seq(Pipelined)
        BY OpsTyped
      <4> QED
        BY <3>1, <4>1
    <3> QED
      BY <1>0, <2>2, <3>1 DEF Places, OneCallEach, LastCall, Deleting
  <2>6. EndsRight(p)'
    BY <2>1, <2>2, <2>5 DEF EndsRight, LastCall, Deleting
  <2> QED
    BY <2>3, <2>4, <2>6 DEF Places
<1>5. CASE StopBegins
  <2>1. UNCHANGED <<changed, scan, http, life>> /\ stop' = "stopping" /\ HandOver
    BY <1>5 DEF StopBegins, worldVars
  <2>2. pending'[p] = "none"
    BY <2>1, HandsOver
  <2>3. EndsRight(p)'
    BY <2>1, <2>2 DEF EndsRight, Watching, Stopped
  <2>4. CASE pending[p] = "none"
    <3>1. ops'[p] = ops[p]
      BY <2>1, <2>4, HandsOver
    <3>2. OneCallEach(p)'
      BY <1>0, <2>1, <3>1 DEF Places, OneCallEach
    <3>3. Stages(p)'
      BY <1>0, <2>1, <2>2, <3>1 DEF Places, Stages
    <3> QED
      BY <2>3, <3>2, <3>3 DEF Places
  <2>5. CASE pending[p] # "none"
    <3>0. "watcher" \in {"watcher", "scan", "http"} /\ Watching
      BY <1>0, <2>5 DEF Places, Stages
    <3>1. pending[p] \in {"upsert", "remove"} /\ Grew(p, Call(pending[p], "watcher"))
      BY <2>1, <2>5, HandsOver
    <3>2. OneCallEach(p)'
      BY <1>0, <2>1, <3>0, <3>1, AddedPlaces DEF Places
    <3>3. Stages(p)'
      BY <1>0, <2>1, <2>2, <3>0 DEF Places, Stages, Watching
    <3> QED
      BY <2>3, <3>2, <3>3 DEF Places
  <2> QED
    BY <2>4, <2>5
<1>6. CASE StoreCloses
  <2>1. UNCHANGED <<changed, pending, ops, http, scan, life>> /\ stop = "stopping"
        /\ stop' = "closed" /\ life = "ready" /\ Drained
    BY <1>6 DEF StoreCloses, worldVars
  <2>2. \A i \in DOMAIN ops[p] : ops[p][i].by = "http"
    <3>1. \A i \in DOMAIN ops[p] : ops[p][i] \in Pipelined
      BY OpsTyped
    <3> QED
      BY <2>1, <3>1 DEF Drained, Tracked, Pipelined
  <2>3. OneCallEach(p)'
    BY <1>0, <2>1 DEF Places, OneCallEach
  <2>4. Stages(p)'
    BY <1>0, <2>1, <2>2 DEF Places, Stages, Watching, Stopped
  <2>5. EndsRight(p)'
    BY <1>0, <2>1 DEF Places, Stages, EndsRight, Watching, Stopped
  <2> QED
    BY <2>3, <2>4, <2>5 DEF Places
<1>7. CASE ProcessEnds
  <2>1. /\ life' = "down" /\ stop' = "no" /\ pending'[p] = "none" /\ ops'[p] = <<>>
        /\ scan'[p].at = "done"
    BY <1>7 DEF ProcessEnds, NoScan
  <2>2. OneCallEach(p)'
    BY <2>1 DEF OneCallEach
  <2>3. Stages(p)'
    BY <2>1 DEF Stages
  <2>4. EndsRight(p)'
    BY <2>1 DEF EndsRight
  <2> QED
    BY <2>2, <2>3, <2>4 DEF Places
<1> QED
  BY <1>1, <1>2, <1>3, <1>4, <1>5, <1>6, <1>7 DEF Global

PlacesInv == \A p \in Paths : Places(p)

LEMMA PlacesInit == Init => PlacesInv
<1> SUFFICES ASSUME Init, NEW p \in Paths
             PROVE  Places(p)
  BY DEF PlacesInv
<1>1. /\ ops[p] = <<>> /\ pending[p] = "none" /\ scan[p].at = "done" /\ stop = "no"
      /\ life = "down"
  BY DEF Init, NoScan
<1> QED
  BY <1>1 DEF Places, OneCallEach, Stages, EndsRight

LEMMA PlacesStep ==
    ASSUME TypeOK, TypeOK', OrderInv, PlacesInv, [Next]_vars
    PROVE  PlacesInv'
<1> SUFFICES ASSUME NEW q \in Paths
             PROVE  Places(q)'
  BY DEF PlacesInv
<1>0. Places(q)
  BY DEF PlacesInv
<1>1. ASSUME Bystands(q) PROVE Places(q)'
  BY <1>0, <1>1, BystandersPlaces
<1>2. CASE UNCHANGED vars
  BY <1>1, <1>2, Numbers DEF Bystands, vars, worldVars, processVars
<1>3. ASSUME NEW p \in Paths, NEW i \in DOMAIN ops[p],
             CallBegins(p, i) \/ CallStats(p, i) \/ CallEmbedded(p, i)
             \/ CallCommits(p, i) \/ StoreFails(p, i)
      PROVE  Places(q)'
  <2>0. HeadMoves(p)
    BY DEF OrderInv
  <2>1. /\ \A r \in Paths \ {p} : Bystands(r)
        /\ UNCHANGED <<worldVars, life, stop, pending>>
        /\ Ends(p) \/ \E call \in Pipelined : Proceeds(p, call)
    BY <1>3, <2>0, CallSteps
  <2>2. CASE q # p
    BY <1>1, <2>1, <2>2
  <2>3. CASE q = p
    <3>1. ops[q] # <<>>
      BY <2>3
    <3> QED
      BY <1>0, <2>1, <2>3, <3>1, CallPlaces
  <2> QED
    BY <2>2, <2>3
<1>4. ASSUME NEW p \in Paths, Request(p) \/ Watch(p)
      PROVE  Places(q)'
  <2>1. \A r \in Paths \ {p} : Bystands(r)
    BY <1>4, RequestSteps, WatchSteps
  <2> QED
    BY <1>0, <1>1, <1>4, <2>1, RequestPlaces, WatchPlaces
<1>5. ASSUME Global PROVE Places(q)'
  BY <1>5, GlobalPlaces DEF PlacesInv
<1> QED
  BY <1>2, <1>3, <1>4, <1>5, Cases DEF Next

LEMMA PlacesAlways == Spec => [](TypeOK /\ OrderInv /\ PlacesInv)
<1>1. Init => TypeOK /\ OrderInv /\ PlacesInv
  BY TypeInit, OrderInit, PlacesInit
<1>2. TypeOK /\ OrderInv /\ PlacesInv /\ [Next]_vars => TypeOK' /\ OrderInv' /\ PlacesInv'
  BY TypeStep, OrderStep, PlacesStep
<1> QED
  BY <1>1, <1>2, PTL DEF Spec

\* stop() does not close the store under a write that inFlight holds: what is
\* left by then are calls of file requests, and no event or scan brings others
\* (stop, teardownAll and the watcher's hand-over).
THEOREM CloseWaits == Spec => []NoTrackedWriteAfterClose
<1>1. PlacesInv => NoTrackedWriteAfterClose
  BY DEF PlacesInv, Places, Stages, NoTrackedWriteAfterClose
<1> QED
  BY <1>1, PlacesAlways, PTL

-----------------------------------------------------------------------------
(* The order of mtimes, when no write leaves an older one.                 *)

LEMMA Floors ==
    /\ \A t \in Nat : Floor(t) \in Nat /\ Floor(t) <= t /\ Floor(Floor(t)) = Floor(t)
    /\ \A t, u \in Nat : t <= u => Floor(t) <= Floor(u)
<1>1. \A t \in Nat : Floor(t) \in Nat /\ Floor(t) <= t
  BY DEF Floor
<1>2. \A t \in Nat : Floor(Floor(t)) = Floor(t)
  BY DEF Floor
<1>3. \A t, u \in Nat : t <= u => Floor(t) <= Floor(u)
  BY DEF Floor
<1> QED
  BY <1>1, <1>2, <1>3

LEMMA CalmKeepsTime ==
    ASSUME TypeOK, TypeOK', NEW p \in Paths, ~MtimesRegress, Calm(p), Timely(p)
    PROVE  Timely(p)'
<1>1. /\ clock \in Nat /\ clock' \in Nat /\ clock' >= clock
      /\ disk[p].mtime \in Nat /\ row[p].mtime \in Nat /\ disk'[p].mtime \in Nat
      /\ DOMAIN ops[p] = 1 .. Len(ops[p]) /\ DOMAIN ops'[p] = 1 .. Len(ops'[p])
      /\ Len(ops[p]) \in Nat
  BY Numbers, NumbersNext DEF Calm
<1>2. \A i \in DOMAIN ops[p] : ops[p][i].mtime \in Nat
  BY Numbers
<1>3. \A i \in DOMAIN ops'[p] :
         \/ i \in DOMAIN ops[p] /\ ops'[p][i] = ops[p][i]
         \/ ops'[p][i].at = "queued"
  <2>1. ASSUME NEW call \in Pipelined, call.at = "queued", Grew(p, call)
        PROVE  \A i \in DOMAIN ops'[p] :
                  \/ i \in DOMAIN ops[p] /\ ops'[p][i] = ops[p][i]
                  \/ ops'[p][i].at = "queued"
    BY <1>1, <2>1 DEF Grew
  <2>2. CASE ops'[p] = ops[p] \/ ops'[p] = <<>>
    BY <2>2
  <2> QED
    BY <2>1, <2>2 DEF Calm
<1>4. row'[p] = row[p]
  BY DEF Calm
<1>5. /\ disk'[p].mtime <= clock'
      /\ \A t \in Nat : t <= clock /\ (Exists(p) => t <= disk[p].mtime)
                           => (Exists(p)' => t <= disk'[p].mtime)
  <2>1. CASE disk'[p] = disk[p]
    BY <1>1, <2>1 DEF Timely, Exists
  <2>2. CASE disk'[p] = Nothing
    BY <1>1, <2>2 DEF Exists, Nothing
  <2>3. CASE disk'[p].mtime <= clock' /\ disk'[p].mtime >= clock
    BY <1>1, <2>3
  <2> QED
    BY <2>1, <2>2, <2>3 DEF Calm
<1>6. ASSUME NEW i \in DOMAIN ops'[p], InFlight(ops'[p][i]), ops'[p][i].at # "read"
      PROVE  /\ row'[p].mtime <= ops'[p][i].mtime /\ ops'[p][i].mtime <= clock'
             /\ Exists(p)' => ops'[p][i].mtime <= disk'[p].mtime
  <2>1. i \in DOMAIN ops[p] /\ ops'[p][i] = ops[p][i]
    BY <1>3, <1>6 DEF InFlight
  <2>2. /\ row[p].mtime <= ops[p][i].mtime /\ ops[p][i].mtime <= clock
        /\ Exists(p) => ops[p][i].mtime <= disk[p].mtime
    BY <1>6, <2>1 DEF Timely
  <2>3. ops[p][i].mtime \in Nat
    BY <1>2, <2>1
  <2>4. ops[p][i].mtime <= clock'
    BY <1>1, <2>2, <2>3
  <2> QED
    BY <1>4, <1>5, <2>1, <2>2, <2>3, <2>4
<1>7. /\ row'[p].mtime <= clock' /\ Floor(row'[p].mtime) = row'[p].mtime
      /\ Exists(p)' => row'[p].mtime <= disk'[p].mtime
  BY <1>1, <1>4, <1>5 DEF Timely
<1> QED
  BY <1>5, <1>6, <1>7 DEF Timely

LEMMA CallKeepsTime ==
    ASSUME TypeOK, TypeOK', NEW p \in Paths, ops[p] # <<>>, UNCHANGED worldVars,
           HeadMoves(p), Timely(p),
           Ends(p) \/ \E call \in Pipelined : Proceeds(p, call)
    PROVE  Timely(p)'
<1>1. /\ clock \in Nat /\ disk[p].mtime \in Nat /\ row[p].mtime \in Nat
      /\ DOMAIN ops[p] = 1 .. Len(ops[p]) /\ DOMAIN ops'[p] = 1 .. Len(ops'[p])
      /\ Len(ops[p]) \in Nat /\ Len(ops[p]) >= 1 /\ 1 \in DOMAIN ops[p]
  <2>1. ops[p] \in Seq(Pipelined)
    BY OpsTyped
  <2>2. Len(ops[p]) >= 1
    BY <2>1
  <2> QED
    BY <2>2, Numbers, NumbersNext
<1>2. ops[p][1] \in Pipelined /\ ops[p][1].mtime \in Nat
  BY <1>1, OpsTyped, Numbers
<1>3. clock' = clock /\ disk' = disk
  BY DEF worldVars
<1>4. ASSUME row'[p] = Rows(ops[p][1]), ops[p][1].at = "storing"
      PROVE  \/ row'[p].mtime = 0
             \/ InFlight(ops[p][1]) /\ row'[p].mtime = Floor(ops[p][1].mtime)
  <2>1. ops[p][1].kind # "remove" => ops[p][1].kind = "upsert"
    BY <1>2 DEF Pipelined
  <2> QED
    BY <1>4, <2>1 DEF Rows, Nothing, InFlight
<1>5. row'[p] = row[p] \/ (ops[p][1].at = "storing" /\ row'[p] = Rows(ops[p][1]))
  BY DEF Ends, Proceeds
<1>6. /\ row'[p].mtime <= clock /\ Floor(row'[p].mtime) = row'[p].mtime
      /\ Exists(p) => row'[p].mtime <= disk[p].mtime
  <2>1. CASE row'[p] = row[p]
    BY <2>1 DEF Timely
  <2>2. CASE row'[p].mtime = 0
    BY <1>1, <2>2 DEF Floor
  <2>3. CASE InFlight(ops[p][1]) /\ ops[p][1].at # "read"
             /\ row'[p].mtime = Floor(ops[p][1].mtime)
    <3>1. /\ ops[p][1].mtime <= clock
          /\ Exists(p) => ops[p][1].mtime <= disk[p].mtime
      BY <1>1, <2>3 DEF Timely
    <3>2. /\ Floor(ops[p][1].mtime) \in Nat /\ Floor(ops[p][1].mtime) <= ops[p][1].mtime
          /\ Floor(Floor(ops[p][1].mtime)) = Floor(ops[p][1].mtime)
      BY <1>2, Floors
    <3> QED
      BY <1>1, <1>2, <2>3, <3>1, <3>2
  <2> QED
    BY <1>4, <1>5, <2>1, <2>2, <2>3
<1>7. ops[p][1].at # "read" /\ InFlight(ops[p][1]) => row'[p].mtime <= ops[p][1].mtime
  <2>1. Floor(ops[p][1].mtime) <= ops[p][1].mtime
    BY <1>2, Floors
  <2> QED
    BY <1>1, <1>2, <1>4, <1>5, <2>1 DEF Timely
<1>8. CASE Ends(p)
  <2>1. \A i \in DOMAIN ops'[p] : ops'[p][i].at = "queued"
                                  /\ i + 1 \in DOMAIN ops[p] /\ ops'[p][i] = ops[p][i + 1]
    BY <1>1, <1>8 DEF Ends, Shrank, HeadMoves
  <2> QED
    BY <1>3, <1>6, <2>1 DEF Timely, InFlight, Exists
<1>9. ASSUME NEW call \in Pipelined, Proceeds(p, call)
      PROVE  Timely(p)'
  <2>1. \A i \in DOMAIN ops'[p] :
           (i = 1 /\ ops'[p][i] = call) \/ ops'[p][i].at = "queued"
    BY <1>1, <1>9 DEF Proceeds, Moved, HeadMoves
  <2>2. ASSUME InFlight(call), call.at # "read"
        PROVE  /\ row'[p].mtime <= call.mtime /\ call.mtime <= clock
               /\ Exists(p) => call.mtime <= disk[p].mtime
    <3>1. InFlight(ops[p][1]) /\ ops[p][1].at # "queued"
      BY <1>9, <2>2 DEF Proceeds, InFlight
    <3>2. CASE ops[p][1].at = "read"
      <4>1. row'[p] = row[p] /\ call.mtime = StatMtime(p)
        BY <1>9, <3>1, <3>2 DEF Proceeds
      <4>2. CASE Exists(p)
        BY <1>1, <4>1, <4>2 DEF StatMtime, Timely
      <4>3. CASE ~Exists(p)
        <5>1. Floor(row[p].mtime) <= Floor(clock) /\ Floor(clock) <= clock
          BY <1>1, Floors DEF Timely
        <5> QED
          BY <4>1, <4>3, <5>1 DEF StatMtime, Timely
      <4> QED
        BY <4>2, <4>3
    <3>3. CASE ops[p][1].at # "read"
      BY <1>1, <1>7, <1>9, <3>1, <3>3 DEF Proceeds, Timely
    <3> QED
      BY <3>2, <3>3
  <2> QED
    BY <1>3, <1>6, <2>1, <2>2 DEF Timely, InFlight, Exists
<1> QED
  BY <1>8, <1>9

TimeInv == ~MtimesRegress => \A p \in Paths : Timely(p)

LEMMA TimeInit == Init => TimeInv
<1> SUFFICES ASSUME Init, NEW p \in Paths
             PROVE  Timely(p)
  BY DEF TimeInv
<1>1. ops[p] = <<>> /\ disk[p] = Nothing /\ row[p] = Nothing /\ clock = 0
  BY DEF Init
<1> QED
  BY <1>1 DEF Timely, Exists, Nothing, Floor

LEMMA TimeStep ==
    ASSUME TypeOK, TypeOK', OrderInv, TimeInv, [Next]_vars
    PROVE  TimeInv'
<1> SUFFICES ASSUME ~MtimesRegress, NEW q \in Paths
             PROVE  Timely(q)'
  BY DEF TimeInv
<1>0. Timely(q)
  BY DEF TimeInv
<1>1. ASSUME Calm(q) PROVE Timely(q)'
  BY <1>0, <1>1, CalmKeepsTime
<1>2. CASE UNCHANGED vars
  BY <1>1, <1>2, Numbers DEF Calm, vars, worldVars, processVars
<1>3. ASSUME NEW p \in Paths, NEW i \in DOMAIN ops[p],
             CallBegins(p, i) \/ CallStats(p, i) \/ CallEmbedded(p, i)
             \/ CallCommits(p, i) \/ StoreFails(p, i)
      PROVE  Timely(q)'
  <2>0. HeadMoves(p)
    BY DEF OrderInv
  <2>1. /\ \A r \in Paths \ {p} : Bystands(r)
        /\ UNCHANGED worldVars
        /\ Ends(p) \/ \E call \in Pipelined : Proceeds(p, call)
    BY <1>3, <2>0, CallSteps
  <2>2. CASE q # p
    BY <1>1, <2>1, <2>2, BystandIsCalm
  <2>3. CASE q = p
    <3>1. ops[q] # <<>>
      BY <2>3
    <3> QED
      BY <1>0, <2>0, <2>1, <2>3, <3>1, CallKeepsTime
  <2> QED
    BY <2>2, <2>3
<1>4. ASSUME NEW p \in Paths, Request(p) \/ Watch(p)
      PROVE  Calm(q)
  <2>1. Calm(p) /\ \A r \in Paths \ {p} : Bystands(r)
    BY <1>4, RequestSteps, WatchSteps
  <2> QED
    BY <2>1, BystandIsCalm
<1>5. ASSUME Global PROVE Calm(q)
  BY <1>5, GlobalSteps
<1> QED
  BY <1>1, <1>2, <1>3, <1>4, <1>5, Cases DEF Next

\* With mtimes that never go back the freshness re-check skips nothing: the
\* lock has put every earlier call before this one's read, so the stored
\* mtime is not the later one (upsertImpl).
THEOREM RecheckIsIdle ==
    ~MtimesRegress =>
        (Spec => [](\A p \in Paths : \A i \in DOMAIN ops[p] :
                       InFlight(ops[p][i]) /\ ops[p][i].at = "embedding"
                           => ~StaleWrite(p, ops[p][i])))
<1> SUFFICES ASSUME ~MtimesRegress
             PROVE  Spec => [](\A p \in Paths : \A i \in DOMAIN ops[p] :
                       InFlight(ops[p][i]) /\ ops[p][i].at = "embedding"
                           => ~StaleWrite(p, ops[p][i]))
  OBVIOUS
<1>1. Init => TypeOK /\ OrderInv /\ TimeInv
  BY TypeInit, OrderInit, TimeInit
<1>2. TypeOK /\ OrderInv /\ TimeInv /\ [Next]_vars => TypeOK' /\ OrderInv' /\ TimeInv'
  BY TypeStep, OrderStep, TimeStep
<1>3. TypeOK /\ TimeInv =>
        \A p \in Paths : \A i \in DOMAIN ops[p] :
            InFlight(ops[p][i]) /\ ops[p][i].at = "embedding" => ~StaleWrite(p, ops[p][i])
  <2> SUFFICES ASSUME TypeOK, TimeInv, NEW p \in Paths, NEW i \in DOMAIN ops[p],
                      InFlight(ops[p][i]), ops[p][i].at = "embedding"
               PROVE  ~StaleWrite(p, ops[p][i])
    OBVIOUS
  <2>1. row[p].mtime <= ops[p][i].mtime
    BY DEF TimeInv, Timely
  <2>2. row[p].mtime \in Nat /\ ops[p][i].mtime \in Nat
    BY Numbers
  <2> QED
    BY <2>1, <2>2 DEF StaleWrite
<1> QED
  BY <1>1, <1>2, <1>3, PTL DEF Spec

-----------------------------------------------------------------------------
(* The rows follow the file.                                               *)

\* The promises of the batcher are those of the paths.
LEMMA AnswerInit == Init => DOMAIN answer = Paths
  BY DEF Init, BatcherInit

LEMMA AnswerStep ==
    ASSUME DOMAIN answer = Paths, [Next]_vars
    PROVE  DOMAIN answer' = Paths
<1>1. CASE UNCHANGED vars
  BY <1>1 DEF vars, batcherVars
<1>2. ASSUME NEW p \in Paths, NEW i \in DOMAIN ops[p],
             CallBegins(p, i) \/ CallStats(p, i) \/ CallEmbedded(p, i)
             \/ CallCommits(p, i) \/ StoreFails(p, i)
      PROVE  DOMAIN answer' = Paths
  <2>1. UNCHANGED answer \/ \E v : answer' = [answer EXCEPT ![p] = v]
    BY <1>2 DEF CallBegins, CallStats, CallEmbedded, CallCommits, StoreFails, batcherVars,
                Submit, SubmitNothing, SubmitChunks
  <2> QED
    BY <2>1
<1>3. ASSUME NEW p \in Paths, Request(p) \/ Watch(p)
      PROVE  DOMAIN answer' = Paths
  BY <1>3 DEF Request, Watch, SyncWrites, SyncRemoves, PutWrites, DeleteDrops, PutReindexes,
              DeleteUnlinks, Notices, DebounceEnds, ScanLooks, ScanStats, ScanReads,
              scanRest, httpRest, batcherVars
<1>4. CASE BatchEmbedded
  BY <1>4 DEF BatchEmbedded, EmbedReturns
<1>5. CASE BatchFails
  BY <1>5 DEF BatchFails, EmbedFails
<1>6. CASE ProcessEnds
  BY <1>6 DEF ProcessEnds
<1>7. CASE BatchTimer \/ StopBegins
  BY <1>7 DEF BatchTimer, TimerFires, StopBegins, Drain
<1>8. CASE WatcherReady \/ ScanEnds \/ Start \/ StoreCloses \/ StopTimesOut
  BY <1>8 DEF WatcherReady, ScanEnds, Start, StoreCloses, StopTimesOut, batcherVars
<1> QED
  BY <1>1, <1>2, <1>3, <1>4, <1>5, <1>6, <1>7, <1>8, Cases DEF Next, Global

\* What History remembers of a step.
Remembers(p) ==
    /\ missed[p] \/ LostChange(p) => missed'[p]
    /\ erred[p] \/ GivesUp(p) => erred'[p]

LEMMA HistoryOf ==
    ASSUME Next, NEW p \in Paths
    PROVE  CaughtUp(p) \/ Remembers(p)
  BY DEF Next, History, Remembers

LEMMA ZeroIsNoBlank == 0 \notin Blank
  BY IndexerAssumption

LEMMA CaughtUpFollowed ==
    ASSUME TypeOK', NEW p \in Paths, CaughtUp(p)
    PROVE  Followed(p)'
<1>1. Match(row'[p], disk'[p]) /\ ops'[p] = <<>>
  BY DEF CaughtUp
<1>2. ~Exists(p)' => row'[p].gen = 0
  BY <1>1, ZeroIsNoBlank DEF Match, Exists
<1>3. Kept(p)'
  BY <1>1 DEF Kept
<1>4. Exists(p)' => FollowedFile(p)'
  BY <1>1 DEF FollowedFile
<1>5. ~Exists(p)' => FollowedAbsence(p)'
  BY <1>1, <1>2 DEF FollowedAbsence
<1> QED
  BY <1>3, <1>4, <1>5 DEF Followed

LEMMA BystandersFollowed ==
    ASSUME NEW p \in Paths, Bystands(p), Remembers(p), Followed(p)
    PROVE  Followed(p)'
<1>1. /\ Exists(p)' = Exists(p) /\ Watching' = Watching /\ EventComes(p)' = EventComes(p)
      /\ Deleting(p)' = Deleting(p) /\ LastReads(p)' = LastReads(p)
      /\ Skipped(p)' = Skipped(p) /\ Kept(p)' = Kept(p)
  BY DEF Bystands, Exists, Watching, Stopped, EventComes, Deleting, LastReads, LastCall, Skipped,
         SameMtime, Kept
<1>2. missed[p] => missed'[p]
  BY DEF Remembers
<1>3. ScanSees(p) => ScanSees(p)'
  BY <1>2 DEF Bystands, ScanSees
<1>4. FollowedFile(p) => FollowedFile(p)'
  BY <1>1, <1>2, <1>3 DEF Bystands, FollowedFile
<1>5. FollowedAbsence(p) => FollowedAbsence(p)'
  BY <1>2 DEF Bystands, FollowedAbsence
<1>6. erred[p] => erred'[p]
  BY DEF Remembers
<1> QED
  BY <1>1, <1>2, <1>4, <1>5, <1>6 DEF Followed

\* Why a call settles while the watcher is on: it has given up, it has stored
\* its rows, or its file is gone.
LEMMA WhyEnds ==
    ASSUME TypeOK, NEW p \in Paths, NEW i \in DOMAIN ops[p], DOMAIN answer = Paths,
           HeadMoves(p), Timely(p), Watching, Ends(p),
           CallBegins(p, i) \/ CallStats(p, i) \/ CallEmbedded(p, i) \/ CallCommits(p, i)
           \/ StoreFails(p, i)
    PROVE  \/ GivesUp(p)
           \/ ops[p][1].at = "storing" /\ row'[p] = Rows(ops[p][1])
           \/ ops[p][1].at = "queued" /\ ops[p][1].kind = "upsert" /\ ~Exists(p)
              /\ row'[p] = row[p]
<1>1. i = 1 /\ UNCHANGED <<worldVars, life, stop, pending>>
  BY CallSteps
<1>2. ops[p][1] \in Pipelined /\ Len(ops[p]) \in Nat /\ Len(ops[p]) >= 1
  <2>1. ops[p] \in Seq(Pipelined) /\ ops[p][i] \in Pipelined
    BY OpsTyped
  <2>2. Len(ops[p]) \in Nat
    BY Numbers
  <2>3. Len(ops[p]) >= 1
    BY <2>1, <1>1
  <2> QED
    BY <1>1, <2>1, <2>2, <2>3
<1>3. Len(ops'[p]) < Len(ops[p])
  BY <1>2 DEF Ends, Shrank
<1>4. ASSUME NEW call \in Pipelined, Goes(p, i, call)
      PROVE  FALSE
  <2>1. Moved(p, call)
    BY <1>1, <1>4, GoesMoves
  <2> QED
    BY <1>2, <1>3, <2>1 DEF Moved
<1>5. ~Stopped /\ stop # "closed" /\ life' # "down"
  BY <1>1 DEF Watching, Stopped
<1>6. CASE CallBegins(p, i)
  <2>1. [ops[p][i] EXCEPT !.at = "read", !.gen = disk[p].gen] \in Pipelined
    BY <1>1, <1>2 DEF Pipelined, TypeOK, Contents
  <2>2. [ops[p][i] EXCEPT !.at = "storing"] \in Pipelined
    BY <1>1, <1>2 DEF Pipelined
  <2>3. row'[p] = row[p]
    BY <1>6 DEF CallBegins
  <2> QED
    BY <1>1, <1>4, <1>5, <1>6, <2>1, <2>2, <2>3 DEF CallBegins
<1>7. CASE CallStats(p, i)
  <2>1. StatMtime(p) \in 0..MaxClock
    BY FloorIsLess DEF StatMtime, TypeOK, Contents
  <2>2. [ops[p][i] EXCEPT !.at = "embedding", !.mtime = StatMtime(p)] \in Pipelined
    BY <1>1, <1>2, <2>1 DEF Pipelined
  <2> QED
    BY <1>4, <1>5, <1>7, <2>2 DEF CallStats
<1>8. CASE CallEmbedded(p, i)
  <2>1. [ops[p][i] EXCEPT !.at = "storing"] \in Pipelined
    BY <1>1, <1>2 DEF Pipelined
  <2>2. answer'[p] = Idle
    BY <1>8 DEF CallEmbedded
  <2>3. ~StaleWrite(p, ops[p][i])
    <3>1. InFlight(ops[p][1]) /\ ops[p][1].at = "embedding"
      BY <1>1, <1>2, <1>8 DEF CallEmbedded, HeadMoves, Pipelined, InFlight
    <3>2. row[p].mtime <= ops[p][1].mtime
      BY <1>1, <3>1 DEF Timely
    <3>3. row[p].mtime \in Nat /\ ops[p][1].mtime \in Nat
      BY <1>1, Numbers
    <3> QED
      BY <1>1, <3>2, <3>3 DEF StaleWrite
  <2>4. answer[p].is = "rejected"
    BY <1>4, <1>5, <1>8, <2>1, <2>3 DEF CallEmbedded
  <2> QED
    BY <1>5, <2>2, <2>4 DEF GivesUp, Idle
<1>9. CASE CallCommits(p, i)
  <2>1. row'[p] = Rows(ops[p][i])
    BY <1>9 DEF CallCommits, TypeOK
  <2> QED
    BY <1>1, <1>9, <2>1 DEF CallCommits
<1>10. CASE StoreFails(p, i)
  <2>1. faults' = faults + 1
    BY <1>5, <1>10 DEF StoreFails
  <2>2. faults \in Nat
    BY IndexerAssumption DEF TypeOK
  <2>3. faults' > faults
    BY <2>1, <2>2
  <2> QED
    BY <1>3, <1>5, <2>3 DEF GivesUp
<1> QED
  BY <1>6, <1>7, <1>8, <1>9, <1>10

LEMMA CommitMatches ==
    ASSUME NEW p \in Paths, NEW call \in Pipelined, InFlight(call), Exists(p),
           call.gen = disk[p].gen, row'[p] = Rows(call)
    PROVE  Match(row'[p], disk[p])
  BY DEF InFlight, Exists, Rows, Match, Nothing

LEMMA OneOrMore == \A n \in Nat : n >= 1 => n = 1 \/ n > 1
  OBVIOUS

LEMMA CallFollowed ==
    ASSUME TypeOK, TypeOK', NEW p \in Paths, NEW i \in DOMAIN ops[p], DOMAIN answer = Paths,
           HeadMoves(p), Timely(p), Places(p), Remembers(p), Followed(p),
           CallBegins(p, i) \/ CallStats(p, i) \/ CallEmbedded(p, i) \/ CallCommits(p, i)
           \/ StoreFails(p, i)
    PROVE  Followed(p)'
<1>1. /\ UNCHANGED <<worldVars, life, stop, pending>> /\ i = 1
      /\ Ends(p) \/ \E call \in Pipelined : Proceeds(p, call)
  BY CallSteps
<1>2. /\ DOMAIN ops[p] = 1 .. Len(ops[p]) /\ DOMAIN ops'[p] = 1 .. Len(ops'[p])
      /\ Len(ops[p]) \in Nat /\ Len(ops[p]) >= 1 /\ 1 \in DOMAIN ops[p]
      /\ Len(ops'[p]) \in Nat /\ ops[p] # <<>>
      /\ Len(ops[p]) = 1 \/ Len(ops[p]) > 1
  <2>1. ops[p] \in Seq(Pipelined)
    BY OpsTyped
  <2>2. Len(ops[p]) >= 1 /\ ops[p] # <<>>
    BY <2>1
  <2>3. Len(ops[p]) \in Nat
    BY Numbers
  <2>4. Len(ops[p]) = 1 \/ Len(ops[p]) > 1
    BY <2>2, <2>3, OneOrMore
  <2> QED
    BY <2>2, <2>4, Numbers, NumbersNext
<1>3. ops[p][1] \in Pipelined /\ ops[p][1].kind \in {"upsert", "remove"}
  BY <1>2, OpsTyped DEF Pipelined
<1>4. /\ Exists(p)' = Exists(p) /\ Watching' = Watching /\ EventComes(p)' = EventComes(p)
      /\ disk' = disk
  BY <1>1 DEF worldVars, Exists, Watching, Stopped, EventComes
<1>5. (missed[p] => missed'[p]) /\ (erred[p] => erred'[p])
  BY DEF Remembers
<1>6. ops'[p] # <<>> <=> Len(ops'[p]) # 0
  <2>1. ops'[p] \in Seq(Pipelined)
    BY DEF TypeOK, Pipelined
  <2> QED
    BY <2>1
<1>7. \A j \in DOMAIN ops[p] : j > 1 => ~InFlight(ops[p][j])
  BY DEF HeadMoves, InFlight
<1>8. CASE Ends(p)
  <2>1. Len(ops'[p]) = Len(ops[p]) - 1
        /\ \A j \in DOMAIN ops'[p] : j + 1 \in DOMAIN ops[p] /\ ops'[p][j] = ops[p][j + 1]
                                     /\ ~InFlight(ops'[p][j])
    <3>1. Len(ops'[p]) = Len(ops[p]) - 1
          /\ \A j \in DOMAIN ops'[p] : j + 1 \in DOMAIN ops[p] /\ ops'[p][j] = ops[p][j + 1]
      BY <1>8 DEF Ends, Shrank
    <3>2. \A j \in DOMAIN ops'[p] : j + 1 > 1
      BY <1>2
    <3> QED
      BY <1>7, <3>1, <3>2
  <2>2. Deleting(p) => Deleting(p)'
    <3>1. ops[p][1].by = "http" => http[p] \in {"reindex", "drop"}
      BY <1>2 DEF Places, OneCallEach
    <3> QED
      BY <1>8, <3>1 DEF Ends, Deleting
  <2>3. scan'[p].prev = scan[p].prev
        /\ (scan[p].at \in {"todo", "looked", "gated"} => scan'[p] = scan[p])
    <3>1. ops[p][1].by = "scan" => scan[p].at = "submitted"
      BY <1>2 DEF Places, OneCallEach
    <3>2. scan[p] \in [at : {"todo", "looked", "gated", "submitted", "done"}, prev : Contents]
      BY DEF TypeOK
    <3> QED
      BY <1>8, <3>1, <3>2 DEF Ends
  <2>4. ASSUME ~Watching, ~missed[p], ~erred[p]
        PROVE  Kept(p)'
    <3>1. Kept(p)
      BY <2>4 DEF Followed
    <3>2. \A j \in DOMAIN ops'[p] : ~InFlight(ops'[p][j])
      BY <2>1
    <3>3. CASE row'[p] = row[p]
      BY <1>4, <3>1, <3>2, <3>3 DEF Kept
    <3>4. CASE ops[p][1].at = "storing" /\ row'[p] = Rows(ops[p][1])
      <4>1. CASE ops[p][1].kind = "upsert"
        <5>1. InFlight(ops[p][1])
          BY <3>4, <4>1 DEF InFlight
        <5>2. Match(row'[p], disk[p])
          BY <1>2, <1>3, <3>1, <3>4, <5>1, CommitMatches DEF Kept
        <5> QED
          BY <1>4, <3>2, <5>2 DEF Kept
      <4>2. CASE ops[p][1].kind = "remove"
        <5>1. row'[p].gen = 0
          BY <3>4, <4>2 DEF Rows, Nothing
        <5> QED
          BY <1>4, <3>2, <5>1, ZeroIsNoBlank DEF Kept, Match, Exists
      <4> QED
        BY <1>3, <4>1, <4>2
    <3> QED
      BY <1>8, <3>3, <3>4 DEF Ends
  <2>5. ASSUME Watching, ~EventComes(p), ~erred'[p], Exists(p)
        PROVE  FollowedFile(p)'
    <3>0. FollowedFile(p)
      BY <1>5, <2>5 DEF Followed
    <3>1. ops[p][1].at = "storing" /\ row'[p] = Rows(ops[p][1])
      BY <1>8, <2>5, WhyEnds DEF Remembers
    <3>2. CASE LastReads(p)
      <4>1. CASE Len(ops[p]) = 1
        <5>1. ops'[p] = <<>> /\ LastCall(p) = ops[p][1]
          BY <1>6, <2>1, <4>1 DEF LastCall
        <5>2. CASE ops[p][1].kind = "upsert"
          <6>1. InFlight(ops[p][1]) /\ ops[p][1].gen = disk[p].gen
            BY <3>1, <3>2, <5>1, <5>2 DEF InFlight, LastReads
          <6>2. Match(row'[p], disk[p])
            BY <1>3, <2>5, <3>1, <6>1, CommitMatches
          <6> QED
            BY <1>4, <5>1, <6>2 DEF FollowedFile
        <5>3. CASE ops[p][1].kind = "remove"
          <6>1. row'[p].gen = 0
            BY <3>1, <5>3 DEF Rows, Nothing
          <6>2. Deleting(p)'
            BY <2>2, <3>2, <5>1, <5>3 DEF LastReads
          <6> QED
            BY <5>1, <6>1, <6>2 DEF FollowedFile
        <5> QED
          BY <1>3, <5>2, <5>3
      <4>2. CASE Len(ops[p]) > 1
        <5>1. ops'[p] # <<>> /\ LastCall(p)' = LastCall(p)
          <6>1. Len(ops'[p]) >= 1 /\ Len(ops'[p]) + 1 = Len(ops[p])
            <7>1. Len(ops'[p]) = Len(ops[p]) - 1
              BY <2>1
            <7>2. Len(ops[p]) \in Nat /\ Len(ops[p]) >= 1 /\ Len(ops'[p]) \in Nat
              BY <1>2
            <7> QED
              BY <4>2, <7>1, <7>2
          <6> QED
            BY <1>2, <1>6, <2>1, <6>1 DEF LastCall
        <5>2. LastReads(p)'
          BY <1>4, <2>2, <3>2, <5>1 DEF LastReads
        <5> QED
          BY <5>2 DEF FollowedFile
      <4> QED
        BY <1>2, <4>1, <4>2
    <3>3. CASE Deleting(p) /\ missed[p]
      BY <1>5, <2>2, <3>3 DEF FollowedFile
    <3>4. CASE ScanSees(p)
      <4>1. ScanSees(p)'
        BY <1>2, <1>4, <1>5, <2>3, <3>4 DEF ScanSees
      <4> QED
        BY <4>1 DEF FollowedFile
    <3>5. CASE missed[p] /\ Skipped(p) /\ scan[p].at = "done"
      <4>0. scan'[p] = scan[p]
        <5>1. ops[p][1].by # "scan"
          BY <1>2, <3>5 DEF Places, OneCallEach
        <5> QED
          BY <1>8, <5>1 DEF Ends
      <4>1. Skipped(p)' /\ scan'[p].at = "done"
        BY <1>4, <3>5, <4>0 DEF Skipped, SameMtime
      <4> QED
        BY <1>5, <3>5, <4>1 DEF FollowedFile
    <3> QED
      BY <1>2, <3>0, <3>2, <3>3, <3>4, <3>5 DEF FollowedFile
  <2>6. ASSUME Watching, ~EventComes(p), ~erred'[p], ~Exists(p)
        PROVE  FollowedAbsence(p)'
    <3>0. FollowedAbsence(p)
      BY <1>5, <2>6 DEF Followed
    <3>1. \/ ops[p][1].at = "storing" /\ row'[p] = Rows(ops[p][1])
          \/ ops[p][1].at = "queued" /\ ops[p][1].kind = "upsert" /\ row'[p] = row[p]
      BY <1>8, <2>6, WhyEnds DEF Remembers
    <3>2. CASE missed[p]
      BY <1>5, <3>2 DEF FollowedAbsence
    <3>3. ASSUME NEW j \in DOMAIN ops[p], ops[p][j].kind = "remove"
          PROVE  FollowedAbsence(p)'
      <4>1. CASE j = 1
        <5>1. row'[p].gen = 0
          BY <3>1, <3>3, <4>1 DEF Rows, Nothing
        <5> QED
          BY <2>1, <5>1 DEF FollowedAbsence
      <4>2. CASE j # 1
        <5>1. j - 1 \in DOMAIN ops'[p] /\ (j - 1) + 1 = j
          BY <1>2, <2>1, <3>3, <4>2
        <5>2. ops'[p][j - 1].kind = "remove"
          BY <2>1, <3>3, <5>1
        <5> QED
          BY <5>1, <5>2 DEF FollowedAbsence
      <4> QED
        BY <4>1, <4>2
    <3>4. CASE row[p].gen = 0 /\ \A j \in DOMAIN ops[p] : ~InFlight(ops[p][j])
      <4>1. row'[p].gen = 0
        BY <1>2, <1>3, <3>1, <3>4 DEF InFlight, Rows, Nothing
      <4> QED
        BY <2>1, <4>1 DEF FollowedAbsence
    <3> QED
      BY <3>0, <3>2, <3>3, <3>4 DEF FollowedAbsence
  <2> QED
    BY <1>4, <1>5, <2>4, <2>5, <2>6 DEF Followed
<1>9. ASSUME NEW call \in Pipelined, Proceeds(p, call)
      PROVE  Followed(p)'
  <2>1. /\ Len(ops'[p]) = Len(ops[p]) /\ ops'[p][1] = call
        /\ \A j \in DOMAIN ops[p] : j > 1 => ops'[p][j] = ops[p][j]
        /\ DOMAIN ops'[p] = DOMAIN ops[p] /\ ops'[p] # <<>>
    BY <1>2, <1>6, <1>9 DEF Proceeds, Moved
  <2>2. Deleting(p)' = Deleting(p) /\ scan'[p] = scan[p] /\ call.kind = ops[p][1].kind
    BY <1>9 DEF Proceeds, Deleting
  <2>3. \A j \in DOMAIN ops'[p] : j > 1 => ~InFlight(ops'[p][j])
    BY <1>7, <2>1
  <2>4. row'[p] = row[p] \/ (ops[p][1].at = "storing" /\ row'[p] = Rows(ops[p][1]))
    BY <1>9 DEF Proceeds
  <2>5. InFlight(call) /\ (InFlight(ops[p][1]) => ops[p][1].gen = disk[p].gen)
          => call.gen = disk[p].gen
    BY <1>9 DEF Proceeds, InFlight
  <2>6. ASSUME ~Watching, ~missed[p], ~erred[p]
        PROVE  Kept(p)'
    <3>1. Kept(p)
      BY <2>6 DEF Followed
    <3>2. InFlight(call) => Exists(p) /\ call.gen = disk[p].gen
      <4>1. CASE ops[p][1].at = "queued"
        BY <1>9, <4>1 DEF Proceeds, InFlight
      <4>2. CASE ops[p][1].at # "queued"
        BY <1>2, <1>9, <3>1, <4>2 DEF Proceeds, InFlight, Kept
      <4> QED
        BY <4>1, <4>2
    <3>3. \A j \in DOMAIN ops'[p] : InFlight(ops'[p][j]) =>
             Exists(p) /\ ops'[p][j].gen = disk[p].gen
      BY <1>2, <2>1, <2>3, <3>2
    <3>4. CASE row'[p] = row[p]
      BY <1>4, <3>1, <3>3, <3>4 DEF Kept
    <3>5. CASE ops[p][1].at = "storing" /\ row'[p] = Rows(ops[p][1])
      <4>1. CASE ops[p][1].kind = "upsert"
        <5>1. InFlight(ops[p][1])
          BY <3>5, <4>1 DEF InFlight
        <5>2. Match(row'[p], disk[p])
          BY <1>2, <1>3, <3>1, <3>5, <5>1, CommitMatches DEF Kept
        <5> QED
          BY <1>4, <3>3, <5>2 DEF Kept
      <4>2. CASE ops[p][1].kind = "remove"
        <5>1. row'[p].gen = 0
          BY <3>5, <4>2 DEF Rows, Nothing
        <5> QED
          BY <1>4, <3>3, <5>1, ZeroIsNoBlank DEF Kept, Match, Exists
      <4> QED
        BY <1>3, <4>1, <4>2
    <3> QED
      BY <2>4, <3>4, <3>5
  <2>7. ASSUME Watching, ~EventComes(p), ~erred'[p], Exists(p)
        PROVE  FollowedFile(p)'
    <3>0. FollowedFile(p)
      BY <1>5, <2>7 DEF Followed
    <3>1. CASE LastReads(p)
      <4>1. CASE Len(ops[p]) = 1
        <5>1. LastCall(p) = ops[p][1] /\ LastCall(p)' = call
          BY <2>1, <4>1 DEF LastCall
        <5>2. LastReads(p)'
          BY <1>4, <2>1, <2>2, <2>5, <3>1, <5>1 DEF LastReads
        <5> QED
          BY <5>2 DEF FollowedFile
      <4>2. CASE Len(ops[p]) > 1
        <5>0. Len(ops[p]) \in DOMAIN ops[p] /\ Len(ops[p]) > 1
          BY <1>2, <4>2
        <5>1. LastCall(p)' = LastCall(p)
          BY <2>1, <5>0 DEF LastCall
        <5>2. LastReads(p)'
          BY <1>4, <2>1, <2>2, <3>1, <5>1 DEF LastReads
        <5> QED
          BY <5>2 DEF FollowedFile
      <4> QED
        BY <1>2, <4>1, <4>2
    <3>2. CASE Deleting(p) /\ missed[p]
      BY <1>5, <2>2, <3>2 DEF FollowedFile
    <3>3. CASE ScanSees(p)
      <4>1. ScanSees(p)'
        BY <1>2, <1>4, <1>5, <2>2, <3>3 DEF ScanSees
      <4> QED
        BY <4>1 DEF FollowedFile
    <3>4. CASE missed[p] /\ Skipped(p) /\ scan[p].at = "done"
      <4>1. Skipped(p)' /\ scan'[p].at = "done"
        BY <1>4, <2>2, <3>4 DEF Skipped, SameMtime, Exists
      <4> QED
        BY <1>5, <3>4, <4>1 DEF FollowedFile
    <3> QED
      BY <1>2, <3>0, <3>1, <3>2, <3>3, <3>4 DEF FollowedFile
  <2>8. ASSUME Watching, ~EventComes(p), ~erred'[p], ~Exists(p)
        PROVE  FollowedAbsence(p)'
    <3>0. FollowedAbsence(p)
      BY <1>5, <2>8 DEF Followed
    <3>1. CASE missed[p]
      BY <1>5, <3>1 DEF FollowedAbsence
    <3>2. ASSUME NEW j \in DOMAIN ops[p], ops[p][j].kind = "remove"
          PROVE  FollowedAbsence(p)'
      <4>1. j \in DOMAIN ops'[p] /\ ops'[p][j].kind = "remove"
        BY <1>2, <2>1, <2>2, <3>2
      <4> QED
        BY <4>1 DEF FollowedAbsence
    <3>3. CASE row[p].gen = 0 /\ \A j \in DOMAIN ops[p] : ~InFlight(ops[p][j])
      <4>1. ~InFlight(ops[p][1])
        BY <1>2, <3>3
      <4>2. ~InFlight(call)
        BY <1>9, <2>8, <4>1 DEF Proceeds, InFlight
      <4>3. row'[p].gen = 0
        BY <1>3, <2>4, <3>3, <4>1 DEF InFlight, Rows, Nothing
      <4>4. \A j \in DOMAIN ops'[p] : ~InFlight(ops'[p][j])
        BY <1>2, <2>1, <2>3, <4>2
      <4> QED
        BY <4>3, <4>4 DEF FollowedAbsence
    <3> QED
      BY <3>0, <3>1, <3>2, <3>3 DEF FollowedAbsence
  <2> QED
    BY <1>4, <1>5, <2>6, <2>7, <2>8 DEF Followed
<1> QED
  BY <1>1, <1>8, <1>9

\* A call that is added leaves those before it where they are.
LEMMA AddedKeeps ==
    ASSUME TypeOK, TypeOK', NEW p \in Paths, NEW call, Grew(p, call)
    PROVE  /\ \A i \in DOMAIN ops[p] : i \in DOMAIN ops'[p] /\ ops'[p][i] = ops[p][i]
           /\ \E i \in DOMAIN ops'[p] : ops'[p][i] = call
<1>1. /\ DOMAIN ops[p] = 1 .. Len(ops[p]) /\ DOMAIN ops'[p] = 1 .. Len(ops'[p])
      /\ Len(ops[p]) \in Nat /\ Len(ops'[p]) = Len(ops[p]) + 1
  BY Numbers, NumbersNext DEF Grew
<1>2. Len(ops[p]) + 1 \in DOMAIN ops'[p]
  BY <1>1
<1>3. \A i \in DOMAIN ops[p] : i \in DOMAIN ops'[p]
  BY <1>1
<1> QED
  BY <1>2, <1>3 DEF Grew

LEMMA RequestFollowed ==
    ASSUME TypeOK, TypeOK', NEW p \in Paths, Request(p), Ordered(p), Places(p), Remembers(p),
           Followed(p)
    PROVE  Followed(p)'
<1>1. UNCHANGED <<row, life, stop, pending, scan>> /\ Watching' = Watching
  BY DEF Request, SyncWrites, SyncRemoves, PutWrites, DeleteDrops, PutReindexes, DeleteUnlinks,
         processVars, httpRest, Watching, Stopped
<1>2. (missed[p] => missed'[p]) /\ (erred[p] => erred'[p])
  BY DEF Remembers
<1>3. ASSUME PutOnDisk(p) \/ (Exists(p) /\ TakeOffDisk(p))
      PROVE  Followed(p)'
  <2>1. disk'[p] # disk[p] /\ changed'[p] = (life # "down")
    <3>1. disk'[p] = Nothing \/ (gens' = gens + 1 /\ disk'[p].gen = gens')
      BY <1>3, DiskSteps
    <3>2. disk[p].gen <= gens /\ gens \in Nat /\ disk[p].gen \in Nat
      BY Numbers DEF Ordered
    <3>3. CASE gens' = gens + 1 /\ disk'[p].gen = gens'
      BY <1>3, <3>2, <3>3, DiskSteps
    <3>4. CASE disk'[p] = Nothing /\ Exists(p)
      BY <1>3, <3>4, DiskSteps DEF Nothing, Exists
    <3>5. PutOnDisk(p) => gens' = gens + 1 /\ disk'[p].gen = gens'
      BY DEF PutOnDisk, TypeOK
    <3> QED
      BY <1>3, <3>1, <3>3, <3>4, <3>5
  <2>2. CASE Watching
    <3>1. EventComes(p)'
      BY <2>1, <2>2 DEF EventComes, Watching
    <3> QED
      BY <1>1, <2>2, <3>1 DEF Followed
  <2>3. CASE ~Watching
    <3>1. missed'[p]
      BY <2>1, <2>3 DEF LostChange, Remembers
    <3> QED
      BY <1>1, <2>3, <3>1 DEF Followed
  <2> QED
    BY <2>2, <2>3
<1>4. CASE DeleteUnlinks(p) /\ ~Exists(p) /\ UNCHANGED worldVars
  <2>1. UNCHANGED <<worldVars, ops>>
    BY <1>4 DEF DeleteUnlinks
  <2>2. ~Exists(p)' /\ EventComes(p)' = EventComes(p)
    BY <1>1, <1>4, <2>1 DEF Exists, EventComes, worldVars
  <2>3. Kept(p) => Kept(p)'
    BY <1>1, <2>1 DEF Kept, Exists, worldVars
  <2>4. FollowedAbsence(p) => FollowedAbsence(p)'
    BY <1>1, <1>2, <2>1 DEF FollowedAbsence
  <2> QED
    BY <1>1, <1>2, <1>4, <2>2, <2>3, <2>4 DEF Followed
<1>5. ASSUME NEW kind \in {"upsert", "remove"}, Enqueue(p, Call(kind, "http")),
             http[p] \notin {"reindex", "drop"}, UNCHANGED worldVars,
             http'[p] = IF kind = "upsert" THEN "reindex" ELSE "drop"
      PROVE  Followed(p)'
  <2>0. "http" \in {"watcher", "scan", "http"}
    OBVIOUS
  <2>1. Grew(p, Call(kind, "http"))
    BY <1>5, <2>0, NewCall, EnqueueGrows
  <2>2. /\ \A i \in DOMAIN ops'[p] : (i \in DOMAIN ops[p] /\ ops'[p][i] = ops[p][i])
                                     \/ ops'[p][i] = Call(kind, "http")
        /\ ops'[p] # <<>> /\ LastCall(p)' = Call(kind, "http")
    BY <1>1, <1>5, <2>0, <2>1, AddedPlaces DEF Places
  <2>3. Call(kind, "http").kind = kind /\ ~InFlight(Call(kind, "http"))
    BY DEF Call, InFlight
  <2>4. Exists(p)' = Exists(p) /\ EventComes(p)' = EventComes(p) /\ disk' = disk
    BY <1>1, <1>5 DEF Exists, EventComes, worldVars
  <2>5. Kept(p) => Kept(p)'
    BY <1>1, <2>2, <2>3, <2>4 DEF Kept
  <2>6. FollowedFile(p)'
    <3>1. kind = "remove" => Deleting(p)'
      BY <1>5 DEF Deleting
    <3>2. LastReads(p)'
      BY <2>2, <2>3, <3>1 DEF LastReads
    <3> QED
      BY <3>2 DEF FollowedFile
  <2>7. FollowedAbsence(p) => FollowedAbsence(p)'
    BY <1>1, <1>2, <2>1, <2>2, <2>3, AddedKeeps DEF FollowedAbsence
  <2> QED
    BY <1>1, <1>2, <2>4, <2>5, <2>6, <2>7 DEF Followed
<1>6. CASE DeleteDrops(p)
  <2>1. http'[p] = "drop"
    BY <1>6 DEF DeleteDrops, TypeOK
  <2> QED
    BY <1>5, <1>6, <2>1 DEF DeleteDrops
<1>7. CASE PutReindexes(p)
  <2>1. http'[p] = "reindex"
    BY <1>7 DEF PutReindexes, TypeOK
  <2> QED
    BY <1>5, <1>7, <2>1 DEF PutReindexes
<1> QED
  BY <1>3, <1>4, <1>6, <1>7 DEF Request, SyncWrites, SyncRemoves, PutWrites, DeleteUnlinks

LEMMA WatchFollowed ==
    ASSUME TypeOK, TypeOK', NEW p \in Paths, Watch(p), HeadMoves(p), Ordered(p), Places(p),
           Remembers(p), Followed(p)
    PROVE  Followed(p)'
<1>0. /\ UNCHANGED <<disk, gens, clock, row, life, stop, http>>
      /\ Exists(p)' = Exists(p) /\ Watching' = Watching /\ Deleting(p)' = Deleting(p)
  BY DEF Watch, Notices, DebounceEnds, ScanLooks, ScanStats, ScanReads, scanRest, worldVars,
         Exists, Watching, Stopped, Deleting
<1>1. (missed[p] => missed'[p]) /\ (erred[p] => erred'[p])
  BY DEF Remembers
<1>2. CASE Notices(p)
  <2>1. Watching /\ pending'[p] \in {"upsert", "remove"}
    BY <1>2 DEF Notices, LastKind, TypeOK
  <2>2. EventComes(p)'
    BY <2>1 DEF EventComes
  <2> QED
    BY <1>0, <2>1, <2>2 DEF Followed
<1>3. ASSUME NEW kind \in {"upsert", "remove"}, NEW by \in {"watcher", "scan"},
             Enqueue(p, Call(kind, by)),
             IF by = "scan" THEN scan[p].at # "submitted" /\ scan'[p].at = "submitted"
             ELSE scan'[p].at = scan[p].at,
             ~EventComes(p)' => kind = IF Exists(p) THEN "upsert" ELSE "remove",
             Watching \/ UNCHANGED <<changed, pending>>
      PROVE  Followed(p)'
  <2>0. by \in {"watcher", "scan", "http"} /\ by # "http"
    OBVIOUS
  <2>1. Grew(p, Call(kind, by))
    BY <1>3, <2>0, NewCall, EnqueueGrows
  <2>2. /\ \A i \in DOMAIN ops'[p] : (i \in DOMAIN ops[p] /\ ops'[p][i] = ops[p][i])
                                     \/ ops'[p][i] = Call(kind, by)
        /\ ops'[p] # <<>> /\ LastCall(p)' = Call(kind, by)
    BY <1>0, <1>3, <2>0, <2>1, AddedPlaces DEF Places
  <2>3. Call(kind, by).kind = kind /\ ~InFlight(Call(kind, by))
    BY DEF Call, InFlight
  <2>4. Kept(p) => Kept(p)'
    BY <1>0, <2>2, <2>3 DEF Kept
  <2>5. ~EventComes(p)' /\ Exists(p) => FollowedFile(p)'
    BY <1>3, <2>2, <2>3 DEF LastReads, FollowedFile
  <2>6. ~EventComes(p)' /\ ~Exists(p) => FollowedAbsence(p)'
    BY <1>3, <2>1, <2>2, <2>3, AddedKeeps DEF FollowedAbsence
  <2> QED
    BY <1>0, <1>1, <2>4, <2>5, <2>6 DEF Followed
<1>4. CASE DebounceEnds(p)
  <2>1. pending[p] \in {"upsert", "remove"} /\ Watching
    BY <1>4 DEF DebounceEnds, TypeOK, Places, Stages
  <2>2. UNCHANGED <<changed, scan>> /\ pending'[p] = "none"
    BY <1>4 DEF DebounceEnds, worldVars, TypeOK
  <2>3. ~EventComes(p)' => pending[p] = IF Exists(p) THEN "upsert" ELSE "remove"
    BY <2>1, <2>2 DEF EventComes, Places, EndsRight
  <2> QED
    BY <1>3, <1>4, <2>1, <2>2, <2>3 DEF DebounceEnds
<1>5. CASE ScanReads(p) /\ Exists(p) /\ disk[p].gen # scan[p].prev.gen
  <2>1. /\ Enqueue(p, Call("upsert", "scan")) /\ scan'[p].at = "submitted"
        /\ scan[p].at # "submitted" /\ UNCHANGED <<changed, pending>>
    BY <1>5 DEF ScanReads, scanRest, worldVars, TypeOK
  <2>2. "upsert" \in {"upsert", "remove"} /\ "scan" \in {"watcher", "scan"}
    OBVIOUS
  <2> QED
    BY <1>3, <1>5, <2>1, <2>2
<1>6. ASSUME UNCHANGED <<changed, pending, ops>>, scan[p].at # "done",
             Watching /\ ~EventComes(p) /\ Exists(p) /\ ScanSees(p) => FollowedFile(p)'
      PROVE  Followed(p)'
  <2>1. EventComes(p)' = EventComes(p) /\ LastReads(p)' = LastReads(p) /\ Kept(p)' = Kept(p)
    BY <1>0, <1>6 DEF EventComes, LastReads, LastCall, Kept
  <2>2. Watching /\ ~EventComes(p) /\ Exists(p) /\ FollowedFile(p) => FollowedFile(p)'
    BY <1>0, <1>1, <1>6, <2>1 DEF FollowedFile
  <2>3. FollowedAbsence(p) => FollowedAbsence(p)'
    BY <1>0, <1>1, <1>6 DEF FollowedAbsence
  <2> QED
    BY <1>0, <1>1, <2>1, <2>2, <2>3 DEF Followed
<1>7. CASE ScanLooks(p)
  <2>1. /\ UNCHANGED <<changed, pending, ops>> /\ scan[p].at = "todo"
        /\ scan'[p].at = (IF Indexed(p) THEN "looked" ELSE "gated") /\ scan'[p].prev = row[p]
    BY <1>7 DEF ScanLooks, scanRest, worldVars, TypeOK
  <2>2. ASSUME Watching, ~EventComes(p), Exists(p), ScanSees(p)
        PROVE  FollowedFile(p)'
    <3>1. CASE row[p].gen # disk[p].gen
      <4>1. ScanSees(p)'
        BY <1>0, <1>1, <2>1, <2>2, <3>1 DEF ScanSees, Indexed
      <4> QED
        BY <4>1 DEF FollowedFile
    <3>2. CASE row[p].gen = disk[p].gen /\ ops[p] = <<>>
      <4>1. Match(row[p], disk[p])
        BY <3>2 DEF Match, Ordered
      <4> QED
        BY <1>0, <2>1, <3>2, <4>1 DEF FollowedFile
    <3>3. CASE row[p].gen = disk[p].gen /\ ops[p] # <<>>
      <4>1. missed'[p]
        BY <1>1, <2>2, <3>3 DEF ScanSees
      <4>2. LastCall(p).kind = "upsert" \/ Deleting(p)
        BY <2>2, <3>3 DEF Places, EndsRight
      <4>3. CASE LastCall(p).kind = "upsert"
        <5>1. Len(ops[p]) \in DOMAIN ops[p]
          <6>1. ops[p] \in Seq(Pipelined)
            BY OpsTyped
          <6> QED
            BY <3>3, <6>1
        <5>2. InFlight(LastCall(p)) => LastCall(p).gen = disk[p].gen
          <6>1. ASSUME InFlight(LastCall(p))
                PROVE  row[p].gen <= LastCall(p).gen /\ LastCall(p).gen <= disk[p].gen
            BY <2>2, <5>1, <6>1 DEF Ordered, LastCall
          <6>2. row[p].gen \in Nat /\ disk[p].gen \in Nat /\ LastCall(p).gen \in Nat
            BY <5>1, Numbers DEF LastCall
          <6> QED
            BY <3>3, <6>1, <6>2
        <5>3. LastReads(p)
          BY <3>3, <4>3, <5>2 DEF LastReads
        <5>4. LastReads(p)'
          BY <1>0, <2>1, <5>3 DEF LastReads, LastCall
        <5> QED
          BY <5>4 DEF FollowedFile
      <4>4. CASE Deleting(p)
        BY <1>0, <4>1, <4>4 DEF FollowedFile
      <4> QED
        BY <4>2, <4>3, <4>4
    <3> QED
      BY <3>1, <3>2, <3>3
  <2> QED
    BY <1>6, <2>1, <2>2
<1>8. CASE ScanStats(p)
  <2>1. /\ UNCHANGED <<changed, pending, ops>> /\ scan[p].at = "looked"
        /\ scan'[p].at = (IF SameMtime(p) THEN "done" ELSE "gated")
        /\ scan'[p].prev = scan[p].prev
    BY <1>8 DEF ScanStats, scanRest, worldVars, TypeOK
  <2>2. ASSUME Watching, ~EventComes(p), Exists(p), ScanSees(p)
        PROVE  FollowedFile(p)'
    <3>1. /\ missed'[p] /\ scan[p].prev.gen # 0 /\ scan[p].prev.gen # disk[p].gen
      BY <1>1, <2>1, <2>2 DEF ScanSees
    <3>2. CASE SameMtime(p)
      <4>1. Skipped(p)'
        BY <1>0, <2>1, <3>1, <3>2 DEF Skipped, SameMtime
      <4> QED
        BY <2>1, <3>1, <3>2, <4>1 DEF FollowedFile
    <3>3. CASE ~SameMtime(p)
      <4>1. ScanSees(p)'
        BY <1>0, <2>1, <3>1, <3>3 DEF ScanSees
      <4> QED
        BY <4>1 DEF FollowedFile
    <3> QED
      BY <3>2, <3>3
  <2> QED
    BY <1>6, <2>1, <2>2
<1>9. CASE ScanReads(p) /\ (~Exists(p) \/ disk[p].gen = scan[p].prev.gen)
  <2>1. UNCHANGED <<changed, pending, ops>> /\ scan[p].at = "gated"
    BY <1>9 DEF ScanReads, scanRest, worldVars
  <2> QED
    BY <1>6, <1>9, <2>1 DEF ScanSees
<1> QED
  BY <1>2, <1>4, <1>5, <1>7, <1>8, <1>9 DEF Watch

\* A path with nothing on its way, when watching ends.
LEMMA SettledIsKept ==
    ASSUME NEW p \in Paths, Followed(p), Watching, ~Unsettled(p), ~missed[p], ~erred[p]
    PROVE  Match(row[p], disk[p]) \/ (Exists(p) /\ row[p].gen = 0)
<1>1. ~EventComes(p) /\ ops[p] = <<>>
  BY DEF Unsettled, EventComes
<1>2. CASE Exists(p)
  BY <1>1, <1>2 DEF Followed, FollowedFile, LastReads, ScanSees
<1>3. CASE ~Exists(p)
  <2>1. row[p].gen = 0
    BY <1>1, <1>3 DEF Followed, FollowedAbsence
  <2> QED
    BY <1>3, <2>1, ZeroIsNoBlank DEF Match, Exists
<1> QED
  BY <1>2, <1>3

LEMMA GlobalFollowed ==
    ASSUME TypeOK, TypeOK', Global, NEW p \in Paths, Places(p), Remembers(p), Followed(p)
    PROVE  Followed(p)'
<1>0. UNCHANGED <<disk, gens, clock, row>> /\ Exists(p)' = Exists(p)
  BY GlobalSteps DEF Exists
<1>1. (missed[p] => missed'[p]) /\ (erred[p] => erred'[p])
  BY DEF Remembers
<1>2. CASE BatchTimer \/ BatchEmbedded \/ BatchFails \/ ScanEnds \/ Start \/ StoreCloses
           \/ StopTimesOut
  <2>1. UNCHANGED <<changed, pending, ops, http, scan>> /\ Watching' = Watching
    BY <1>2 DEF BatchTimer, BatchEmbedded, BatchFails, ScanEnds, Start, StoreCloses,
                StopTimesOut, rest, worldVars, Watching, Stopped
  <2>2. /\ EventComes(p)' = EventComes(p) /\ Deleting(p)' = Deleting(p)
        /\ LastReads(p)' = LastReads(p) /\ Skipped(p)' = Skipped(p) /\ Kept(p)' = Kept(p)
    BY <1>0, <2>1 DEF EventComes, Deleting, LastReads, LastCall, Skipped, SameMtime, Kept
  <2>3. ScanSees(p) => ScanSees(p)'
    BY <1>0, <1>1, <2>1 DEF ScanSees
  <2>4. FollowedFile(p) => FollowedFile(p)'
    BY <1>0, <1>1, <2>1, <2>2, <2>3 DEF FollowedFile
  <2>5. FollowedAbsence(p) => FollowedAbsence(p)'
    BY <1>0, <1>1, <2>1 DEF FollowedAbsence
  <2> QED
    BY <1>0, <1>1, <2>1, <2>2, <2>4, <2>5 DEF Followed
<1>3. CASE WatcherReady
  <2>1. /\ UNCHANGED <<pending, ops, http>> /\ ~Watching /\ Watching' /\ life = "starting"
        /\ scan'[p] = [at |-> IF Exists(p) THEN "todo" ELSE "done", prev |-> Nothing]
    BY <1>3 DEF WatcherReady, Watching, Stopped, walkVault
  <2>2. /\ \A i \in DOMAIN ops[p] : ops[p][i].by = "http"
        /\ Deleting(p)' = Deleting(p)
    BY <2>1 DEF Places, Stages, Deleting
  <2>3. ASSUME ~erred[p], Exists(p)
        PROVE  FollowedFile(p)'
    <3>1. scan'[p].at = "todo"
      BY <2>1, <2>3
    <3>2. CASE missed[p]
      <4>1. ScanSees(p)'
        BY <1>1, <3>1, <3>2 DEF ScanSees
      <4> QED
        BY <4>1 DEF FollowedFile
    <3>3. CASE ~missed[p]
      <4>1. Kept(p)
        BY <2>1, <2>3, <3>3 DEF Followed
      <4>2. CASE ops[p] = <<>>
        <5>1. row[p].gen = 0 => ScanSees(p)'
          BY <1>0, <2>1, <3>1, <4>2 DEF ScanSees
        <5> QED
          BY <1>0, <2>1, <4>1, <4>2, <5>1 DEF Kept, FollowedFile
      <4>3. CASE ops[p] # <<>>
        <5>1. Len(ops[p]) \in DOMAIN ops[p]
          <6>1. ops[p] \in Seq(Pipelined)
            BY OpsTyped
          <6> QED
            BY <4>3, <6>1
        <5>2. LastCall(p) \in Pipelined /\ LastCall(p).by = "http"
          BY <2>2, <5>1, OpsTyped DEF LastCall
        <5>3. InFlight(LastCall(p)) => LastCall(p).gen = disk[p].gen
          BY <4>1, <5>1 DEF Kept, LastCall
        <5>4. LastCall(p).kind = "remove" => Deleting(p)
          BY <5>1, <5>2 DEF LastCall, Places, OneCallEach, Deleting
        <5>5. LastReads(p)
          BY <4>3, <5>2, <5>3, <5>4 DEF LastReads, Pipelined
        <5>6. LastReads(p)'
          BY <1>0, <2>1, <2>2, <5>5 DEF LastReads, LastCall
        <5> QED
          BY <5>6 DEF FollowedFile
      <4> QED
        BY <4>2, <4>3
    <3> QED
      BY <3>2, <3>3
  <2>4. ASSUME ~erred[p], ~Exists(p)
        PROVE  FollowedAbsence(p)'
    <3>1. CASE missed[p]
      BY <1>1, <3>1 DEF FollowedAbsence
    <3>2. CASE ~missed[p]
      <4>1. Kept(p)
        BY <2>1, <2>4, <3>2 DEF Followed
      <4>2. row[p].gen = 0 /\ \A i \in DOMAIN ops[p] : ~InFlight(ops[p][i])
        BY <2>4, <4>1, ZeroIsNoBlank DEF Kept, Match, Exists
      <4> QED
        BY <1>0, <2>1, <4>2 DEF FollowedAbsence
    <3> QED
      BY <3>1, <3>2
  <2> QED
    BY <1>0, <1>1, <2>1, <2>3, <2>4 DEF Followed
<1>4. ASSUME ~Watching', StopBegins \/ ProcessEnds
      PROVE  Followed(p)'
  <2> SUFFICES ASSUME ~missed'[p], ~erred'[p]
               PROVE  Kept(p)'
    BY <1>4 DEF Followed
  <2>1. ~missed[p] /\ ~erred[p]
    BY <1>1
  <2>2. Match(row[p], disk[p]) \/ (Exists(p) /\ row[p].gen = 0)
    <3>1. CASE Watching
      <4>1. ~Unsettled(p)
        BY <1>4, <3>1 DEF Remembers, LostChange
      <4> QED
        BY <2>1, <3>1, <4>1, SettledIsKept
    <3>2. CASE ~Watching
      BY <2>1, <3>2 DEF Followed, Kept
    <3> QED
      BY <3>1, <3>2
  <2>3. \A i \in DOMAIN ops'[p] : InFlight(ops'[p][i]) =>
            Exists(p) /\ ops'[p][i].gen = disk[p].gen
    <3>1. CASE ProcessEnds
      BY <3>1 DEF ProcessEnds
    <3>2. CASE StopBegins /\ Watching
      <4>1. ~Unsettled(p)
        BY <1>4, <3>2 DEF Remembers, LostChange
      <4>2. pending[p] = "none" /\ ops[p] = <<>>
        BY <4>1 DEF Unsettled
      <4>3. ops'[p] = ops[p]
        BY <3>2, <4>2, HandsOver DEF StopBegins
      <4> QED
        BY <4>2, <4>3
    <3>3. CASE StopBegins /\ ~Watching
      <4>1. pending[p] = "none" /\ Kept(p)
        BY <2>1, <3>3 DEF Places, Stages, Followed
      <4>2. ops'[p] = ops[p]
        BY <3>3, <4>1, HandsOver DEF StopBegins
      <4> QED
        BY <4>1, <4>2 DEF Kept
    <3> QED
      BY <1>4, <3>1, <3>2, <3>3
  <2> QED
    BY <1>0, <2>2, <2>3 DEF Kept
<1>5. StopBegins \/ ProcessEnds => ~Watching'
  BY DEF StopBegins, ProcessEnds, Watching, Stopped
<1> QED
  BY <1>2, <1>3, <1>4, <1>5 DEF Global

FollowedInv == ~MtimesRegress => \A p \in Paths : Followed(p)

LEMMA FollowedInit == Init => FollowedInv
<1> SUFFICES ASSUME Init, NEW p \in Paths
             PROVE  Followed(p)
  BY DEF FollowedInv
<1>1. /\ ops[p] = <<>> /\ disk[p] = Nothing /\ row[p] = Nothing /\ life = "down"
  BY DEF Init
<1> QED
  BY <1>1, ZeroIsNoBlank DEF Followed, Watching, Kept, Match, Nothing

LEMMA FollowedStep ==
    ASSUME TypeOK, TypeOK', OrderInv, PlacesInv, TimeInv, DOMAIN answer = Paths, FollowedInv,
           [Next]_vars
    PROVE  FollowedInv'
<1> SUFFICES ASSUME ~MtimesRegress, NEW q \in Paths
             PROVE  Followed(q)'
  BY DEF FollowedInv
<1>0. Followed(q) /\ HeadMoves(q) /\ Ordered(q) /\ Places(q) /\ Timely(q)
  BY DEF FollowedInv, OrderInv, PlacesInv, TimeInv
<1>1. CASE UNCHANGED vars
  <2>1. Bystands(q)
    BY <1>1, Numbers DEF Bystands, vars, worldVars, processVars
  <2>2. Remembers(q)
    <3>1. ~LostChange(q) /\ ~GivesUp(q)
      <4>1. ~LostChange(q)
        BY <1>1 DEF vars, worldVars, processVars, LostChange, Watching, Stopped
      <4>2. ~GivesUp(q)
        <5>1. faults' = faults /\ answer' = answer
          BY <1>1 DEF vars, processVars, batcherVars
        <5>2. ~(faults > faults)
          BY IndexerAssumption DEF TypeOK
        <5> QED
          BY <5>1, <5>2 DEF GivesUp
      <4> QED
        BY <4>1, <4>2
    <3> QED
      BY <1>1, <3>1 DEF vars, Remembers
  <2> QED
    BY <1>0, <2>1, <2>2, BystandersFollowed
<1>2. CASE Next /\ CaughtUp(q)
  BY <1>2, CaughtUpFollowed
<1>3. CASE Next /\ Remembers(q)
  <2>1. ASSUME Bystands(q) PROVE Followed(q)'
    BY <1>0, <1>3, <2>1, BystandersFollowed
  <2>2. ASSUME NEW p \in Paths, NEW i \in DOMAIN ops[p],
               CallBegins(p, i) \/ CallStats(p, i) \/ CallEmbedded(p, i)
               \/ CallCommits(p, i) \/ StoreFails(p, i)
        PROVE  Followed(q)'
    <3>1. CASE q # p
      <4>0. HeadMoves(p)
        BY DEF OrderInv
      <4>1. \A r \in Paths \ {p} : Bystands(r)
        BY <2>2, <4>0, CallSteps
      <4> QED
        BY <2>1, <3>1, <4>1
    <3>2. CASE q = p
      BY <1>0, <1>3, <2>2, <3>2, CallFollowed
    <3> QED
      BY <3>1, <3>2
  <2>3. ASSUME NEW p \in Paths, Request(p) \/ Watch(p)
        PROVE  Followed(q)'
    <3>1. CASE q # p
      <4>1. \A r \in Paths \ {p} : Bystands(r)
        BY <2>3, RequestSteps, WatchSteps
      <4> QED
        BY <2>1, <3>1, <4>1
    <3>2. CASE q = p
      BY <1>0, <1>3, <2>3, <3>2, RequestFollowed, WatchFollowed
    <3> QED
      BY <3>1, <3>2
  <2>4. ASSUME Global PROVE Followed(q)'
    BY <1>0, <1>3, <2>4, GlobalFollowed
  <2> QED
    BY <1>3, <2>2, <2>3, <2>4, Cases DEF Next
<1> QED
  BY <1>1, <1>2, <1>3, HistoryOf

\* With mtimes that never go back the index of a quiet vault is that of its
\* files, but for a call that was given up on and a change nobody watched for
\* that the scan cannot see: for every number of files, writers' steps, lives
\* and faults (the pipeline, the watcher and the scan together).
THEOREM QuietIsFresh == ~MtimesRegress => (Spec => []QuietMeansFresh)
<1> SUFFICES ASSUME ~MtimesRegress
             PROVE  Spec => []QuietMeansFresh
  OBVIOUS
<1> DEFINE Inv == /\ TypeOK /\ OrderInv /\ PlacesInv /\ TimeInv
                  /\ DOMAIN answer = Paths /\ FollowedInv
<1>1. Init => Inv
  BY TypeInit, OrderInit, PlacesInit, TimeInit, AnswerInit, FollowedInit
<1>2. Inv /\ [Next]_vars => Inv'
  <2> SUFFICES ASSUME Inv, [Next]_vars
               PROVE  Inv'
    OBVIOUS
  <2>1. TypeOK'
    BY TypeStep
  <2>2. OrderInv' /\ PlacesInv' /\ TimeInv'
    BY <2>1, OrderStep, PlacesStep, TimeStep
  <2>3. DOMAIN answer' = Paths
    BY AnswerStep
  <2>4. FollowedInv'
    BY <2>1, FollowedStep
  <2> QED
    BY <2>1, <2>2, <2>3, <2>4
<1>3. Inv => QuietMeansFresh
  <2> SUFFICES ASSUME Inv, Quiet, NEW p \in Paths, ~erred[p]
               PROVE  \/ Match(row[p], disk[p])
                      \/ missed[p] /\ (~Exists(p) \/ Skipped(p))
    BY DEF QuietMeansFresh
  <2>1. /\ Watching /\ ~EventComes(p) /\ ops[p] = <<>> /\ ~Deleting(p) /\ life = "ready"
    BY DEF Quiet, Watching, Unsettled, EventComes, Deleting
  <2>2. Followed(p) /\ scan[p].at = "done"
    BY <2>1 DEF FollowedInv, PlacesInv, Places, Stages
  <2>3. CASE Exists(p)
    BY <2>1, <2>2, <2>3 DEF Followed, FollowedFile, LastReads, ScanSees
  <2>4. CASE ~Exists(p)
    <3>1. missed[p] \/ row[p].gen = 0
      BY <2>1, <2>2, <2>4 DEF Followed, FollowedAbsence
    <3>2. row[p].gen = 0 => Match(row[p], disk[p])
      BY <2>4, ZeroIsNoBlank DEF Match, Exists
    <3> QED
      BY <2>4, <3>1, <3>2
  <2> QED
    BY <2>3, <2>4
<1> QED
  BY <1>1, <1>2, <1>3, PTL DEF Spec

-----------------------------------------------------------------------------
(* The promises of the batcher.                                            *)

Submissions == [who : Paths, chunks : Seq(Paths \X (0..MaxGen))]

\* What is queued is of the paths.
QueueInv == DOMAIN answer = Paths /\ queue \in Seq(Submissions)

IsIn(p, s) == \E i \in DOMAIN s : s[i].who = p

\* A promise of p that is pending is in the outstanding call, or in the queue
\* of a call to come.
Reached(p) == \/ flushing /\ IsIn(p, batch)
              \/ (timer \/ flushing) /\ IsIn(p, queue)

LEMMA StrandedIsUnreached ==
    NoUpsertStranded <=> \A p \in Paths : answer[p] = Waiting => Reached(p)
  BY DEF NoUpsertStranded, Reached, IsIn

LEMMA OneIsWaiting ==
    /\ Idle # Waiting /\ Rejected # Waiting
    /\ \A v : Vectors(v) # Waiting
  BY DEF Idle, Rejected, Waiting, Vectors

\* Nobody who waits is lost by flush(), whether it is a no-op or not.
LEMMA FlushReaches ==
    ASSUME NEW q \in Seq(Submissions), NEW n, Flush(q, n)
    PROVE  /\ queue' \in Seq(Submissions)
           /\ \A p : (flushing /\ IsIn(p, batch)) \/ IsIn(p, q) => Reached(p)'
<1>1. CASE flushing \/ q = <<>>
  <2>1. queue' = q /\ flushing' = flushing /\ batch' = batch
    BY <1>1 DEF Flush
  <2>2. ASSUME NEW p, IsIn(p, q)
        PROVE  flushing
    BY <1>1, <2>2 DEF IsIn
  <2> QED
    BY <2>1, <2>2 DEF Reached, IsIn
<1>2. CASE ~(flushing \/ q = <<>>)
  <2>1. queue' = <<>> /\ flushing' = TRUE /\ batch' = q
    BY <1>2 DEF Flush
  <2> QED
    BY <1>2, <2>1 DEF Reached, IsIn
<1> QED
  BY <1>1, <1>2

\* The finally block gives what queued during the call a timer.
LEMMA EndFlushReaches ==
    ASSUME EndFlush, NEW p, IsIn(p, queue)
    PROVE  Reached(p)'
<1>1. queue # <<>>
  BY DEF IsIn
<1> QED
  BY <1>1 DEF EndFlush, Reached, IsIn

LEMMA QueueInit == Init => QueueInv /\ NoUpsertStranded
  BY OneIsWaiting DEF Init, BatcherInit, QueueInv, NoUpsertStranded

\* submit() keeps everyone reached, and reaches the caller.
LEMMA SubmitReaches ==
    ASSUME QueueInv, NEW c \in Paths, NEW chunks \in Seq(Paths \X (0..MaxGen)),
           SubmitChunks(c, chunks)
    PROVE  /\ queue' \in Seq(Submissions)
           /\ \A p \in Paths : p = c \/ Reached(p) => Reached(p)'
<1> DEFINE q == Append(queue, [who |-> c, chunks |-> chunks])
           n == queuedChunks + Len(chunks)
<1>1. q \in Seq(Submissions)
  BY DEF QueueInv, Submissions
<1>2. /\ IsIn(c, q)
      /\ \A p : IsIn(p, queue) => IsIn(p, q)
  <2>1. /\ Len(q) = Len(queue) + 1 /\ Len(queue) \in Nat
        /\ DOMAIN q = 1..Len(q) /\ DOMAIN queue = 1..Len(queue)
        /\ q[Len(q)].who = c
        /\ \A i \in 1..Len(queue) : q[i] = queue[i]
    BY DEF QueueInv
  <2> HIDE DEF q
  <2>2. Len(q) \in DOMAIN q
    BY <2>1
  <2>3. \A i \in DOMAIN queue : i \in DOMAIN q
    BY <2>1
  <2> QED
    BY <2>1, <2>2, <2>3 DEF IsIn
<1>3. CASE n >= MaxChunks
  <2>1. timer' = FALSE /\ Flush(q, n)
    BY <1>3 DEF SubmitChunks
  <2> HIDE DEF q, n
  <2> QED
    BY <1>1, <1>2, <2>1, FlushReaches DEF Reached
<1>4. CASE ~(n >= MaxChunks)
  <2>1. queue' = q /\ timer' = TRUE /\ UNCHANGED <<flushing, batch>>
    BY <1>4 DEF SubmitChunks
  <2> HIDE DEF q, n
  <2> QED
    BY <1>1, <1>2, <2>1 DEF Reached, IsIn
<1> QED
  BY <1>3, <1>4

\* A step of a call: only it changes what its own promise holds.
LEMMA CallReaches ==
    ASSUME TypeOK, QueueInv, NoUpsertStranded, NEW p \in Paths, NEW i \in DOMAIN ops[p],
           CallBegins(p, i) \/ CallStats(p, i) \/ CallEmbedded(p, i)
           \/ CallCommits(p, i) \/ StoreFails(p, i)
    PROVE  queue' \in Seq(Submissions) /\ NoUpsertStranded'
<1>1. CASE UNCHANGED batcherVars
  BY <1>1 DEF batcherVars, QueueInv, NoUpsertStranded
<1>2. CASE CallEmbedded(p, i)
  <2>1. answer' = [answer EXCEPT ![p] = Idle] /\ UNCHANGED <<queue, timer, flushing, batch>>
    BY <1>2 DEF CallEmbedded
  <2>2. \A x \in Paths : answer'[x] = Waiting => answer[x] = Waiting
    BY <2>1, OneIsWaiting DEF QueueInv
  <2> QED
    BY <2>1, <2>2 DEF QueueInv, NoUpsertStranded
<1>3. ASSUME CallStats(p, i), NEW chunks \in Seq(Paths \X (0..MaxGen)), Submit(p, chunks)
      PROVE  queue' \in Seq(Submissions) /\ NoUpsertStranded'
  <2>1. CASE SubmitNothing(p)
    <3>1. /\ answer' = [answer EXCEPT ![p] = Vectors(<<>>)]
          /\ UNCHANGED <<queue, timer, flushing, batch>>
      BY <2>1 DEF SubmitNothing
    <3>2. \A x \in Paths : answer'[x] = Waiting => answer[x] = Waiting
      BY <3>1, OneIsWaiting DEF QueueInv
    <3> QED
      BY <3>1, <3>2 DEF QueueInv, NoUpsertStranded
  <2>2. CASE SubmitChunks(p, chunks)
    <3>1. answer' = [answer EXCEPT ![p] = Waiting]
      BY <2>2 DEF SubmitChunks
    <3>2. \A x \in Paths : answer'[x] = Waiting => x = p \/ answer[x] = Waiting
      BY <3>1 DEF QueueInv
    <3>3. \A x \in Paths : x = p \/ Reached(x) => Reached(x)'
      BY <2>2, SubmitReaches
    <3>4. \A x \in Paths : answer[x] = Waiting => Reached(x)
      BY StrandedIsUnreached
    <3>5. \A x \in Paths : answer'[x] = Waiting => Reached(x)'
      BY <3>2, <3>3, <3>4
    <3>6. NoUpsertStranded'
      BY <3>5 DEF NoUpsertStranded, Reached, IsIn
    <3> QED
      BY <2>2, <3>6, SubmitReaches
  <2> QED
    BY <1>3, <2>1, <2>2 DEF Submit
<1>4. CASE CallStats(p, i) /\ ~UNCHANGED batcherVars
  <2> DEFINE chunks == IF ops[p][i].gen \in Blank THEN <<>>
                       ELSE <<(<<p, ops[p][i].gen>>)>>
  <2>1. Submit(p, chunks)
    BY <1>4 DEF CallStats
  <2>2. ops[p][i].gen \in 0..MaxGen
    BY OpsTyped DEF Pipelined
  <2>3. chunks \in Seq(Paths \X (0..MaxGen))
    BY <2>2
  <2> QED
    BY <1>3, <1>4, <2>1, <2>3
<1> QED
  BY <1>1, <1>2, <1>4 DEF CallBegins, CallCommits, StoreFails

LEMMA GlobalReaches ==
    ASSUME QueueInv, NoUpsertStranded, Global
    PROVE  queue' \in Seq(Submissions) /\ NoUpsertStranded'
<1>1. \A x \in Paths : answer[x] = Waiting => Reached(x)
  BY StrandedIsUnreached
<1>2. ASSUME \A x \in Paths : answer'[x] = Waiting => Reached(x)'
      PROVE  NoUpsertStranded'
  BY <1>2 DEF NoUpsertStranded, Reached, IsIn
<1>3. CASE UNCHANGED batcherVars
  BY <1>3 DEF batcherVars, QueueInv, NoUpsertStranded
<1>4. CASE BatchTimer \/ StopBegins
  <2>1. Flush(queue, queuedChunks) /\ UNCHANGED answer
    BY <1>4 DEF BatchTimer, TimerFires, StopBegins, Drain
  <2>2. \A x : Reached(x) => (flushing /\ IsIn(x, batch)) \/ IsIn(x, queue)
    BY DEF Reached
  <2>3. /\ queue' \in Seq(Submissions)
        /\ \A x : (flushing /\ IsIn(x, batch)) \/ IsIn(x, queue) => Reached(x)'
    BY <2>1, FlushReaches DEF QueueInv
  <2> QED
    BY <1>1, <1>2, <2>1, <2>2, <2>3
<1>5. CASE BatchEmbedded \/ BatchFails
  <2>1. EndFlush /\ \A x \in Paths : IsIn(x, batch) => answer'[x] # Waiting
    BY <1>5, OneIsWaiting DEF BatchEmbedded, BatchFails, EmbedReturns, EmbedFails, IsIn
  <2>2. \A x \in Paths : ~IsIn(x, batch) => answer'[x] = answer[x]
    BY <1>5 DEF BatchEmbedded, BatchFails, EmbedReturns, EmbedFails, IsIn
  <2>3. \A x \in Paths : answer'[x] = Waiting => IsIn(x, queue)
    BY <1>1, <2>1, <2>2 DEF Reached
  <2>4. \A x \in Paths : answer'[x] = Waiting => Reached(x)'
    BY <2>1, <2>3, EndFlushReaches
  <2> QED
    BY <1>2, <2>1, <2>4 DEF EndFlush, QueueInv
<1>6. CASE ProcessEnds
  BY <1>6, OneIsWaiting DEF ProcessEnds, NoUpsertStranded
<1> QED
  BY <1>3, <1>4, <1>5, <1>6
     DEF Global, WatcherReady, ScanEnds, Start, StoreCloses, StopTimesOut

LEMMA QueueStep ==
    TypeOK /\ QueueInv /\ NoUpsertStranded /\ [Next]_vars => QueueInv' /\ NoUpsertStranded'
<1> SUFFICES ASSUME TypeOK, QueueInv, NoUpsertStranded, [Next]_vars
             PROVE  QueueInv' /\ NoUpsertStranded'
  OBVIOUS
<1>1. DOMAIN answer' = Paths
  BY AnswerStep DEF QueueInv
<1>2. CASE UNCHANGED batcherVars
  BY <1>2 DEF batcherVars, QueueInv, NoUpsertStranded
<1>3. ASSUME NEW p \in Paths, Request(p) \/ Watch(p)
      PROVE  UNCHANGED batcherVars
  BY <1>3 DEF Request, Watch, SyncWrites, SyncRemoves, PutWrites, DeleteDrops, PutReindexes,
              DeleteUnlinks, Notices, DebounceEnds, ScanLooks, ScanStats, ScanReads,
              scanRest, httpRest
<1>4. CASE Next /\ ~UNCHANGED batcherVars
  <2>1. queue' \in Seq(Submissions) /\ NoUpsertStranded'
    BY <1>3, <1>4, Cases, CallReaches, GlobalReaches DEF Next
  <2> QED
    BY <1>1, <2>1 DEF QueueInv
<1>5. CASE UNCHANGED vars
  BY <1>2, <1>5 DEF vars
<1> QED
  BY <1>2, <1>4, <1>5

\* An upsert that waits for its vectors is always on its way to them, however
\* submit(), the timer, the end of an embed() call, drain() of stop() and the
\* death of the process interleave: nobody waits in a queue without a timer.
THEOREM NobodyIsStranded == Spec => []NoUpsertStranded
<1>1. Init => TypeOK /\ QueueInv /\ NoUpsertStranded
  BY TypeInit, QueueInit
<1>2. TypeOK /\ QueueInv /\ NoUpsertStranded /\ [Next]_vars
        => TypeOK' /\ QueueInv' /\ NoUpsertStranded'
  BY TypeStep, QueueStep
<1> QED
  BY <1>1, <1>2, PTL DEF Spec

=============================================================================
