----------------------------- MODULE VaultFiles -----------------------------
(***************************************************************************)
(* The file and folder services (src/src/vault/files.ts, folders.ts) on    *)
(* one folder of one vault: requests that interleave at every await, the   *)
(* per-path locks of PathLock, `ob sync` which writes the same tree and    *)
(* takes no lock, and the watcher that reconciles the index afterwards.    *)
(*                                                                         *)
(* A file's content is the set of the updates one can read in it; {} is no *)
(* file.  The index pipeline (module Indexer) is one step here.            *)
(* FinishHolding and UnlinkFirst are not the code: each is a plausible bug *)
(* of the definition it precedes, by which a property is tried.            *)
(***************************************************************************)
EXTENDS PathLock

CONSTANTS
    Files, Markdown, Text,  \* of the folder; those indexed; those PATCH takes
    Mounts,                 \* the MCP scopes under which requests name a file
    Base, Sync,             \* the update every file starts with; that of a sync
    MaxSyncs, MaxFaults     \* bound: steps of `ob sync`, calls that fail

ASSUME FilesAssumption ==
    /\ Markdown \subseteq Text /\ Text \subseteq Files
    /\ Keys = Mounts \X Files
    /\ Base \notin Calls /\ Sync \notin Calls \cup {Base}
    /\ MaxSyncs \in Nat /\ MaxFaults \in Nat

VARIABLE
    req  \* of a request: the await it is at, what it is to do, to which file,
         \* the content it has read, the documents it has collected to drop

VARIABLES
    content,  \* of a file
    folder,   \* does the folder exist?
    tmps      \* the temporary files in it, by the request that wrote them
diskVars == <<content, folder, tmps>>

VARIABLES
    rows,     \* of a document: the content the index holds
    event,    \* of a document: what the watcher has debounced
    syncs, faults
indexVars == <<rows, event, syncs, faults>>

VARIABLES
    owed,     \* of a file: the acknowledged updates not yet overwritten (history)
    missed,   \* of a document: did the last call to the index fail? (history)
    late      \* of a document: its rows were dropped, its file is there (history)
history == <<owed, missed, late>>

vars == <<lockVars, req, diskVars, indexVars, history>>

FolderOps == {"mkdir", "rmdir", "rmtree"}
Ops == {"put", "patch", "append", "delete"} \cup FolderOps

\* What is left of a request that was answered.
Answered == [at |-> "done", op |-> "put", file |-> CHOOSE f \in Files : TRUE,
             base |-> {}, collected |-> {}]

Init ==
    /\ LockInit
    /\ req = [r \in Calls |-> [Answered EXCEPT !.at = "new"]]
    /\ content = [f \in Files |-> {Base}] /\ folder = TRUE /\ tmps = {}
    /\ rows = [f \in Files |-> IF f \in Markdown THEN {Base} ELSE {}]
    /\ event = [f \in Files |-> "none"] /\ syncs = 0 /\ faults = 0
    /\ owed = [f \in Files |-> {}]
    /\ missed = [f \in Files |-> FALSE] /\ late = [f \in Files |-> FALSE]

-----------------------------------------------------------------------------
(* What requests, `ob sync` and the watcher do to the disk and the index.  *)

Goto(r, here) == req' = [req EXCEPT ![r].at = here]
Done(r) == req' = [req EXCEPT ![r] = Answered]

\* The file system event the watcher sees; the last of a burst stands.
Seen(f, kind) == event' = [event EXCEPT ![f] = IF f \in Markdown THEN kind ELSE @]

Fails == faults < MaxFaults /\ faults' = faults + 1

\* pipeline.upsert: of a file that is gone, nothing.
Upsert(f) ==
    \/ /\ content[f] # {}
       /\ rows' = [rows EXCEPT ![f] = content[f]]
       /\ missed' = [missed EXCEPT ![f] = FALSE] /\ late' = [late EXCEPT ![f] = FALSE]
       /\ UNCHANGED faults
    \/ content[f] = {} /\ UNCHANGED <<rows, missed, late, faults>>
    \/ Fails /\ missed' = [missed EXCEPT ![f] = TRUE] /\ UNCHANGED <<rows, late>>

\* pipeline.remove, and tryDrop which ignores its failure.
Drop(f) ==
    \/ /\ rows' = [rows EXCEPT ![f] = {}]
       /\ missed' = [missed EXCEPT ![f] = FALSE]
       /\ UNCHANGED faults
    \/ Fails /\ missed' = [missed EXCEPT ![f] = TRUE] /\ UNCHANGED rows

-----------------------------------------------------------------------------
(* The head of every request, and the lock.                                *)

\* resolveVault, safeJoin, assertNotSymlinkEscape and the check of the media
\* type come before the lock; a path they refuse is never locked.
Accepted(o, f) == o \in {"patch", "append"} => f \in Text

Begin(r, o, f, m) ==
    /\ req[r].at = "new"
    /\ \/ /\ o \in FolderOps
          /\ req' = [req EXCEPT ![r] = [Answered EXCEPT !.at = "lstat", !.op = o]]
          /\ UNCHANGED lockVars
       \/ /\ o \notin FolderOps /\ Accepted(o, f) /\ withPathLock(r, <<m, f>>)
          /\ req' = [req EXCEPT ![r] = [Answered EXCEPT !.at = "queued", !.op = o, !.file = f]]
       \/ o \notin FolderOps /\ ~Accepted(o, f) /\ Done(r) /\ UNCHANGED lockVars
    /\ UNCHANGED <<diskVars, indexVars, history>>

Acquire(r) ==
    /\ req[r].at = "queued" /\ Enter(r)
    /\ Goto(r, CASE req[r].op = "put" -> "ready"
                 [] req[r].op = "delete" -> "probe"
                 [] OTHER -> "read")
    /\ UNCHANGED <<diskVars, indexVars, history>>

\* The answer, or the error thrown: both leave the lock.
FinishHolding(r) == Done(r) /\ UNCHANGED lockVars

Finish(r) == Leave(r) /\ Done(r)

-----------------------------------------------------------------------------
(* writeFile, patchFile and appendFile.                                    *)

\* patchFile and appendFile need the file; applyEdits needs the text to replace,
\* here the update the file started with.
Readable(r) == /\ content[req[r].file] # {}
               /\ req[r].op = "patch" => Base \in content[req[r].file]

Read(r) ==
    /\ req[r].at = "read"
    /\ \/ /\ Readable(r) /\ UNCHANGED lockVars
          /\ req' = [req EXCEPT ![r].at = "ready", ![r].base = content[req[r].file]]
       \/ ~Readable(r) /\ Finish(r)
    /\ UNCHANGED <<diskVars, indexVars, history>>

\* atomicWrite up to the rename: `mkdir -p`, then the temporary file, of which a
\* failure may leave a part.
WriteTmp(r) ==
    /\ req[r].at = "ready" /\ folder' = TRUE
    /\ \/ tmps' = tmps \cup {r} /\ Goto(r, "renaming") /\ UNCHANGED <<lockVars, faults>>
       \/ Fails /\ Finish(r) /\ tmps' \in {tmps, tmps \cup {r}}
    /\ UNCHANGED <<content, rows, event, syncs, history>>

\* A file as the request writes it, made of an earlier state of it.
Written(r, old) ==
    CASE req[r].op = "put" -> {r}
      [] req[r].op = "patch" -> (old \ {Base}) \cup {r}
      [] OTHER -> old \cup {r}

\* The temporary file is gone if the folder was deleted meanwhile.
Rename(r) ==
    /\ req[r].at = "renaming"
    /\ \/ /\ r \in tmps /\ tmps' = tmps \ {r}
          /\ content' = [content EXCEPT ![req[r].file] = Written(r, req[r].base)]
          /\ owed' = [owed EXCEPT ![req[r].file] = Written(r, @)]
          /\ Seen(req[r].file, "upsert")
          /\ Goto(r, IF req[r].file \in Markdown THEN "written" ELSE "stat")
          /\ UNCHANGED lockVars
       \/ r \notin tmps /\ Finish(r) /\ UNCHANGED <<content, tmps, event, owed>>
    /\ UNCHANGED <<folder, rows, syncs, faults, missed, late>>

\* tryReindex: `indexed` is whether reindex threw, and the pipeline never throws.
Reindex(r) ==
    /\ req[r].at = "written" /\ Upsert(req[r].file) /\ Goto(r, "stat")
    /\ UNCHANGED <<lockVars, diskVars, event, syncs, owed>>

Stat(r) == req[r].at = "stat" /\ Finish(r) /\ UNCHANGED <<diskVars, indexVars, history>>

-----------------------------------------------------------------------------
(* deleteFile: the index first, the file second.                           *)

Probe(r) ==
    /\ req[r].at = "probe"
    /\ \/ content[req[r].file] = {} /\ Finish(r)
       \/ /\ content[req[r].file] # {} /\ UNCHANGED lockVars
          /\ Goto(r, IF req[r].file \in Markdown THEN "dropping" ELSE "unlinking")
    /\ UNCHANGED <<diskVars, indexVars, history>>

Removed(S) ==
    /\ content' = [f \in Files |-> IF f \in S THEN {} ELSE content[f]]
    /\ owed' = [f \in Files |-> IF f \in S THEN {} ELSE owed[f]]
    /\ event' = [f \in Files |-> IF f \in S \cap Markdown /\ content[f] # {} THEN "remove"
                                 ELSE event[f]]

\* tryDrop.
DropFirst(r) ==
    /\ req[r].at = "dropping" /\ Drop(req[r].file) /\ Goto(r, "unlinking")
    /\ UNCHANGED <<lockVars, diskVars, event, syncs, owed, late>>

\* An unlink that fails leaves the file without its rows.
Unlink(r) ==
    /\ req[r].at = "unlinking" /\ Finish(r)
    /\ \/ Removed({req[r].file}) /\ UNCHANGED <<faults, late>>
       \/ /\ Fails /\ late' = [late EXCEPT ![req[r].file] = TRUE]
          /\ UNCHANGED <<content, owed, event>>
    /\ UNCHANGED <<folder, tmps, rows, syncs, missed>>

UnlinkFirst(r) ==
    \/ /\ req[r].at = "dropping" /\ Removed({req[r].file}) /\ Goto(r, "unlinking")
       /\ UNCHANGED <<lockVars, folder, tmps, rows, syncs, faults, missed, late>>
    \/ /\ req[r].at = "unlinking" /\ Drop(req[r].file) /\ Finish(r)
       /\ UNCHANGED <<diskVars, event, syncs, owed, late>>

DropThenUnlink(r) == DropFirst(r) \/ Unlink(r)

-----------------------------------------------------------------------------
(* createFolder and deleteFolder, which take no lock.                      *)

Present == {f \in Files : content[f] # {}}
Empty == Present = {} /\ tmps = {}

Lstat(r) ==
    /\ req[r].at = "lstat"
    /\ \/ folder = (req[r].op = "mkdir") /\ Done(r)
       \/ ~folder /\ req[r].op = "mkdir" /\ Goto(r, "mkdir")
       \/ folder /\ req[r].op = "rmdir" /\ Goto(r, "readdir")
       \/ folder /\ req[r].op = "rmtree" /\ Goto(r, "walk")
    /\ UNCHANGED <<lockVars, diskVars, indexVars, history>>

Mkdir(r) ==
    /\ req[r].at = "mkdir" /\ folder' = TRUE /\ Done(r)
    /\ UNCHANGED <<lockVars, content, tmps, indexVars, history>>

Readdir(r) ==
    /\ req[r].at = "readdir"
    /\ IF Empty THEN Goto(r, "rmdir") ELSE Done(r)
    /\ UNCHANGED <<lockVars, diskVars, indexVars, history>>

\* fs.rmdir refuses a folder that has a child by now.
Rmdir(r) ==
    /\ req[r].at = "rmdir" /\ Done(r) /\ folder' = (folder /\ ~Empty)
    /\ UNCHANGED <<lockVars, content, tmps, indexVars, history>>

Collect(r) ==
    /\ req[r].at = "walk"
    /\ req' = [req EXCEPT ![r].at = "rmtree", ![r].collected = Present \cap Markdown]
    /\ UNCHANGED <<lockVars, diskVars, indexVars, history>>

\* fs.rm of the tree.  An error part of the way is thrown and nothing dropped.
RemoveTree(r) ==
    /\ req[r].at = "rmtree"
    /\ \/ /\ folder /\ Removed(Files) /\ folder' = FALSE /\ tmps' = {}
          /\ Goto(r, "dropTree") /\ UNCHANGED faults
       \/ /\ Fails /\ \E S \in SUBSET Present : Removed(S)
          /\ Done(r) /\ UNCHANGED <<folder, tmps>>
       \/ ~folder /\ Done(r) /\ UNCHANGED <<diskVars, event, faults, owed>>
    /\ UNCHANGED <<lockVars, rows, syncs, missed, late>>

DropTree(r) ==
    /\ req[r].at = "dropTree"
    /\ \E f \in req[r].collected :
           /\ Drop(f) /\ req' = [req EXCEPT ![r].collected = @ \ {f}]
           /\ late' = [late EXCEPT ![f] = content[f] # {}]
    /\ UNCHANGED <<lockVars, diskVars, event, syncs, owed>>

TreeDropped(r) ==
    /\ req[r].at = "dropTree" /\ req[r].collected = {} /\ Done(r)
    /\ UNCHANGED <<lockVars, diskVars, indexVars, history>>

-----------------------------------------------------------------------------
(* `ob sync` and the watcher.                                              *)

SyncWrites(f) ==
    /\ syncs < MaxSyncs /\ syncs' = syncs + 1
    /\ content' = [content EXCEPT ![f] = {Sync}] /\ folder' = TRUE
    /\ Seen(f, "upsert") /\ owed' = [owed EXCEPT ![f] = {}]
    /\ UNCHANGED <<lockVars, req, tmps, rows, faults, missed, late>>

SyncRemoves(f) ==
    /\ syncs < MaxSyncs /\ syncs' = syncs + 1
    /\ content[f] # {} /\ Removed({f})
    /\ UNCHANGED <<lockVars, req, folder, tmps, rows, faults, missed, late>>

WatcherFires(f) ==
    /\ event[f] # "none" /\ event' = [event EXCEPT ![f] = "none"]
    /\ IF event[f] = "upsert" THEN Upsert(f) ELSE Drop(f) /\ UNCHANGED late
    /\ UNCHANGED <<lockVars, req, diskVars, syncs, owed>>

-----------------------------------------------------------------------------
FileSteps(r) ==
    Acquire(r) \/ Read(r) \/ WriteTmp(r) \/ Rename(r) \/ Reindex(r) \/ Stat(r)
    \/ Probe(r) \/ DropThenUnlink(r)
FolderSteps(r) ==
    Lstat(r) \/ Mkdir(r) \/ Readdir(r) \/ Rmdir(r) \/ Collect(r) \/ RemoveTree(r)
    \/ DropTree(r) \/ TreeDropped(r)

Next ==
    \/ \E r \in Calls, o \in Ops, f \in Files, m \in Mounts : Begin(r, o, f, m)
    \/ \E r \in Calls : FileSteps(r) \/ FolderSteps(r)
    \/ \E f \in Files : SyncWrites(f) \/ SyncRemoves(f) \/ WatcherFires(f)

Spec == Init /\ [][Next]_vars

-----------------------------------------------------------------------------
(* Properties.                                                             *)

\* What a request was told has been written (files.ts, `no lost writes`) can be
\* read in the file until a later PUT, a DELETE or `ob sync` replaces it.
NoLostUpdate == \A f \in Files : owed[f] \subseteq content[f]

\* Once nothing runs and no event waits, the index holds what the file holds, but
\* for the last call of the index having failed, a folder deletion that dropped
\* rows after the file had been made again, and an unlink that failed.
Quiet == \A r \in Calls : req[r].at \in {"new", "done"}
QuietMeansIndexed ==
    Quiet => \A f \in Markdown :
        event[f] = "none" => rows[f] = content[f] \/ missed[f] \/ late[f]

\* A request holds its lock exactly while it works on the file: no way out of a
\* section, the errors of every await among them, leaves the queue behind it stuck.
Working == {"read", "ready", "renaming", "written", "stat", "probe", "dropping", "unlinking"}
HeldWhileWorking == \A r \in Calls : slot[r] = "inside" <=> req[r].at \in Working

\* The chains of promises are a first come, first served mutex per key.
Mutex == INSTANCE PathMutex WITH inside <- {r \in Calls : slot[r] = "inside"}
ImplementsMutex == Mutex!Spec
=============================================================================
