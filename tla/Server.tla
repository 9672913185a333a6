------------------------------- MODULE Server -------------------------------
(***************************************************************************)
(* The life of the process (src/src/server.ts, startIndexer in             *)
(* src/src/indexer/index.ts, the version of the pipeline in                *)
(* src/src/indexer/store.ts): starts, failed starts, shutdowns and crashes,*)
(* one after the other, of binaries of different versions with different   *)
(* vaults and embedders on one data directory.                             *)
(*                                                                         *)
(* The supervisor and the indexer are what their modules show of them: the *)
(* one may hang when stopped, the other's stop is bounded.                 *)
(*                                                                         *)
(* ReconcileFirst, SidecarFirst, IgnoreTheDimension, ExitAtOnce and        *)
(* WaitForAll are not the code: each is a plausible bug of the definition  *)
(* it precedes, by which a property is tried.                              *)
(***************************************************************************)
EXTENDS Configuration

CONSTANTS
    Environments,    \* what the process may be started with
    Versions, Dims,  \* of the pipelines of the binaries; of the embedders
    Slugs,           \* of every vault that is ever configured
    NoVersion, NoEnvironment

ASSUME ServerAssumption ==
    /\ Versions \subseteq Nat /\ NoVersion \notin Versions /\ Dims \subseteq Nat \ {0}
    /\ NoEnvironment \notin Environments
    /\ \A e \in Environments :
           /\ e.vaults \in Seq(Range(e.vaults))
           /\ Accepted(e) => Range(parseVaults(e.vaults)) \subseteq Slugs

NoTable == [dim |-> 0, version |-> 0]

VARIABLES
    sidecar,  \* what `.pipeline_version` says
    tables    \* of a vault: the dimension of its table, the version of its rows
diskVars == <<sidecar, tables>>

VARIABLES
    stage,     \* where main is
    env,       \* while it loads: the environment the process was started with
    vaults,    \* the slugs of its configuration
    binary, dim,
    dropping,  \* the tables of the older version left to drop
    opened,    \* how many vaults startIndexer has opened
    children,  \* do the supervisor's `ob` processes run?
    settled,   \* of a shutdown: listener, supervisor and indexer, as they settle
    code       \* what the process exits with
processVars == <<stage, env, vaults, binary, dim, dropping, opened, children, settled, code>>

VARIABLES
    skipped,   \* tables that an upgrade passed over, not configured (history)
    found,     \* what the sidecar said when the process started (history)
    touched,   \* has the process changed the disk? (history)
    failed,    \* what made the start fail (history)
    gaveUp     \* has a stop been abandoned at its timeout? (history)
history == <<skipped, found, touched, failed, gaveUp>>

vars == <<diskVars, processVars, history>>

Parts == {"listener", "supervisor", "indexer"}
Unsettled == [p \in Parts |-> "pending"]
Configured == Range(vaults)

Init ==
    /\ sidecar = NoVersion /\ tables = [s \in Slugs |-> NoTable]
    /\ stage = "down" /\ env = NoEnvironment /\ vaults = <<>> /\ children = FALSE
    /\ binary = NoVersion /\ dim = 0 /\ dropping = {} /\ opened = 0
    /\ settled = Unsettled /\ code = 0
    /\ skipped = {} /\ found = NoVersion /\ touched = FALSE
    /\ failed = "none" /\ gaveUp = FALSE

-----------------------------------------------------------------------------
(* main, up to the indexer.                                                *)

Boot(e) ==
    /\ stage = "down" /\ env' = e
    /\ binary' = NoVersion /\ dim' = 0 /\ dropping' = {} /\ opened' = 0 /\ children' = FALSE /\ settled' = Unsettled
    /\ found' = sidecar /\ touched' = FALSE /\ failed' = "none" /\ gaveUp' = FALSE
    /\ stage' = "loading" /\ code' = 0
    /\ UNCHANGED <<diskVars, vaults, skipped>>

Exit(c) ==
    /\ stage' = "down" /\ code' = c /\ env' = NoEnvironment /\ vaults' = <<>>
    /\ UNCHANGED <<diskVars, binary, dim, dropping, opened, settled, skipped, found,
                   touched>>

\* loadConfig, with its exit code 78; the binary and the model of the embedder are any.
Load(v, d) ==
    /\ stage = "loading" /\ UNCHANGED <<children, gaveUp>>
    /\ \/ /\ Accepted(env) /\ stage' = "loaded"
          /\ vaults' = loadConfig(env).vaults /\ env' = NoEnvironment
          /\ binary' = v /\ dim' = d
          /\ UNCHANGED <<diskVars, dropping, opened, settled, code,
                         skipped, found, touched, failed>>
       \/ ~Accepted(env) /\ failed' = "configuration" /\ Exit(78)

At(here, next) ==
    /\ stage = here /\ stage' = next
    /\ UNCHANGED <<env, vaults, binary, dim, opened, settled, code, found, failed, gaveUp>>

\* startSupervisor: no credentials is 78, anything else 1.
SupervisorStarts ==
    \/ At("loaded", "supervised") /\ children' = TRUE
       /\ UNCHANGED <<diskVars, dropping, skipped, touched>>
    \/ /\ stage = "loaded" /\ \E c \in {1, 78} : Exit(c)
       /\ failed' = "supervisor" /\ UNCHANGED <<children, gaveUp>>

-----------------------------------------------------------------------------
(* startIndexer.                                                           *)

Fail(what, next, c) ==
    /\ failed' = what /\ stage' = next /\ code' = c
    /\ UNCHANGED <<env, vaults, binary, dim, dropping, opened, children, settled, skipped,
                   found, gaveUp>>

ReconcileFirst == [supervised |-> "reconciling", reconciled |-> "warming", warm |-> "opening"]

\* The order of its three parts.
Then == [supervised |-> "warming", warm |-> "reconciling", reconciled |-> "opening"]

BeginIndexer ==
    At("supervised", Then["supervised"])
    /\ UNCHANGED <<diskVars, dropping, children, skipped, touched>>

warmEmbedder ==
    \/ At("warming", Then["warm"]) /\ UNCHANGED <<diskVars, dropping, children, skipped, touched>>
    \/ stage = "warming" /\ Fail("embedder", "cleanup", 1) /\ UNCHANGED <<diskVars, touched>>

DataIsNewer == sidecar # NoVersion /\ sidecar > binary

ReadSidecar ==
    /\ stage = "reconciling"
    /\ \/ sidecar = binary /\ At("reconciling", Then["reconciled"])
          /\ UNCHANGED <<diskVars, dropping, children, skipped, touched>>
       \/ DataIsNewer /\ Fail("newer", "cleanup", 1) /\ UNCHANGED <<diskVars, touched>>
       \/ /\ sidecar # binary /\ ~DataIsNewer
          /\ At("reconciling", "upgrading")
          /\ dropping' = {s \in Configured : tables[s] # NoTable}
          /\ UNCHANGED <<diskVars, children, skipped, touched>>

DropTable(s) ==
    /\ stage = "upgrading" /\ s \in dropping
    /\ \/ /\ At("upgrading", "upgrading")
          /\ dropping' = dropping \ {s} /\ tables' = [tables EXCEPT ![s] = NoTable]
          /\ touched' = TRUE /\ UNCHANGED <<sidecar, children, skipped>>
       \/ Fail("drop", "cleanup", 1) /\ UNCHANGED <<diskVars, touched>>

PassedOver == {s \in Slugs \ Configured : tables[s] # NoTable}

SidecarFirst ==
    /\ At("upgrading", IF dropping = {} THEN Then["reconciled"] ELSE "upgrading")
    /\ sidecar' = binary /\ touched' = TRUE /\ skipped' = PassedOver
    /\ UNCHANGED <<tables, dropping, children>>

\* writeFileSync truncates the file and then writes it.
WriteSidecar ==
    /\ touched' = TRUE /\ UNCHANGED <<tables, dropping, children>>
    /\ \/ /\ dropping = {} /\ At("upgrading", "writing")
          /\ sidecar' = NoVersion /\ UNCHANGED skipped
       \/ /\ At("writing", Then["reconciled"])
          /\ sidecar' = binary /\ skipped' = PassedOver
       \/ stage = "writing" /\ Fail("write", "cleanup", 1) /\ UNCHANGED sidecar

IgnoreTheDimension(s) == TRUE

\* openVaultStore: the dimension of a table is that of the vectors it was made for.
Fits(s) == tables[s] = NoTable \/ tables[s].dim = dim

OpenStore ==
    /\ stage = "opening" /\ opened < Len(vaults)
    /\ LET s == vaults[opened + 1] IN
       \/ /\ ~Fits(s) /\ Fail("dimension", "teardown", 78) /\ UNCHANGED <<diskVars, touched>>
       \/ /\ Fits(s) /\ At("opening", "hydrating")
          /\ tables' = IF tables[s] # NoTable THEN tables
                       ELSE [tables EXCEPT ![s] = [dim |-> dim, version |-> binary]]
          /\ touched' = (touched \/ tables[s] = NoTable)
          /\ skipped' = IF tables[s] # NoTable THEN skipped ELSE skipped \ {s}
          /\ UNCHANGED <<sidecar, dropping, children>>

\* The watcher, and hydrateCounters; the scan then runs on its own.
Hydrate ==
    /\ stage = "hydrating" /\ UNCHANGED <<diskVars, touched>>
    /\ \/ /\ stage' = "opening" /\ opened' = opened + 1
          /\ UNCHANGED <<env, vaults, binary, dim, dropping, children, settled, code, skipped,
                         found, failed, gaveUp>>
       \/ Fail("hydrate", "teardown", 1)

\* teardownAll, which waits for the work in flight of the vaults that were opened.
TornDown ==
    At("teardown", "cleanup") /\ UNCHANGED <<diskVars, dropping, children, skipped, touched>>

-----------------------------------------------------------------------------
(* The listener, failed starts, shutdown and crash.                        *)

ExitAtOnce(what, c) ==
    /\ failed' = what /\ Exit(c) /\ UNCHANGED <<children, gaveUp>>

\* An error of `Bun.serve` stops the supervisor and the indexer.
StopAfterListenError(what, c) == Fail(what, "cleanup", c) /\ UNCHANGED <<diskVars, touched>>

Listen ==
    /\ stage = "opening" /\ opened = Len(vaults)
    /\ \/ At("opening", "up") /\ UNCHANGED <<diskVars, dropping, children, skipped, touched>>
       \/ StopAfterListenError("listen", 1)

\* supervisor.stop() (and, after a listen error, indexer.stop()) or its timeout.
CleanUp ==
    /\ stage = "cleanup" /\ Exit(code) /\ UNCHANGED failed
    /\ \/ children' = FALSE /\ UNCHANGED gaveUp
       \/ gaveUp' = TRUE /\ UNCHANGED children

\* The first signal once the handlers are installed; later ones are ignored.
Signal ==
    At("up", "stopping") /\ UNCHANGED <<diskVars, dropping, children, skipped, touched>>

PartSettles(p, how) ==
    /\ stage = "stopping" /\ settled[p] = "pending"
    /\ settled' = [settled EXCEPT ![p] = how]
    /\ children' = (children /\ p # "supervisor")
    /\ UNCHANGED <<diskVars, stage, env, vaults, binary, dim, dropping, opened, code, history>>

AllSettled == \A p \in Parts : settled[p] # "pending"

ShutdownSettles ==
    /\ stage = "stopping" /\ AllSettled
    /\ Exit(IF \A p \in Parts : settled[p] = "stopped" THEN 0 ELSE 1)
    /\ UNCHANGED <<children, failed, gaveUp>>

WaitForAll == FALSE /\ UNCHANGED vars

\* withTimeout: the attempt rejects, and the handler exits with 1.
ShutdownTimesOut ==
    /\ stage = "stopping" /\ ~AllSettled /\ Exit(1)
    /\ gaveUp' = TRUE /\ UNCHANGED <<children, failed>>

\* A kill, or a signal before the handlers are installed: the container goes too.
Crash ==
    /\ stage # "down" /\ Exit(137) /\ children' = FALSE
    /\ failed' = "crash" /\ UNCHANGED gaveUp

-----------------------------------------------------------------------------
Progress ==
    \/ (\E v \in Versions, d \in Dims : Load(v, d)) \/ SupervisorStarts \/ BeginIndexer \/ warmEmbedder \/ ReadSidecar
    \/ (\E s \in Slugs : DropTable(s)) \/ WriteSidecar \/ OpenStore \/ Hydrate
    \/ TornDown \/ Listen \/ CleanUp \/ ShutdownSettles \/ ShutdownTimesOut

Next ==
    \/ Progress \/ Signal \/ Crash
    \/ \E e \in Environments : Boot(e)
    \/ \E p \in Parts, how \in {"stopped", "rejected"} : PartSettles(p, how)

Spec == Init /\ [][Next]_vars

\* Every await of a start ends, a stop at its timeout at the latest.
FairSpec == Spec /\ WF_vars(Progress)

-----------------------------------------------------------------------------
(* Properties.                                                             *)

TypeOK ==
    /\ sidecar \in Versions \cup {NoVersion}
    /\ tables \in [Slugs -> {NoTable} \cup [dim : Dims, version : Versions]]
    /\ stage \in {"down", "loading", "loaded", "supervised", "warming", "warm", "reconciling",
                  "reconciled", "upgrading", "writing", "opening", "hydrating", "teardown",
                  "cleanup", "up", "stopping"}
    /\ env \in Environments \cup {NoEnvironment} /\ vaults \in Seq(Slugs)
    /\ binary \in Versions \cup {NoVersion}
    /\ dim \in Dims \cup {0} /\ dropping \subseteq Slugs /\ opened \in Nat
    /\ children \in BOOLEAN /\ settled \in [Parts -> {"pending", "stopped", "rejected"}]
    /\ code \in {0, 1, 78, 137} /\ skipped \subseteq Slugs

\* config/index.ts: what loadConfig lets through is what the supervised children, the
\* supervisor and the store need: bounded numbers, an interval within the timeout, and
\* slugs of which no two name one table, one directory and one lock.
AcceptedConfigurationIsFit ==
    stage = "loading" /\ Accepted(env) => FitForUse(loadConfig(env))

\* The sidecar never vouches for rows of another version, whatever crashed in between,
\* but for vaults that were not configured when it was bumped: those it passes over.
SidecarTellsTheRows ==
    sidecar # NoVersion =>
        \A s \in Slugs : tables[s] = NoTable \/ tables[s].version = sidecar \/ s \in skipped

\* startIndexer: a start whose embedder fails, or that finds data of a newer binary,
\* leaves the data directory as it was, so that one can roll back.
RefusedStartLeavesTheDisk ==
    failed = "embedder" \/ (found # NoVersion /\ binary # NoVersion /\ found > binary)
        => ~touched

\* While requests are served every configured vault has a table, and of the dimension of
\* the vectors that are searched and stored in it.
ServedTablesFit ==
    stage = "up" => \A s \in Configured : tables[s] # NoTable /\ tables[s].dim = dim

\* The process never leaves `ob` children behind by its own exit, however far the start
\* had come, unless it has waited for the supervisor until the timeout.
ExitStopsTheChildren == stage = "down" /\ children => gaveUp

\* Once stopping, after a signal or a failed start, the process exits, even when one of
\* its parts never stops.
EveryStopEnds == stage \in {"stopping", "teardown", "cleanup"} ~> stage = "down"
=============================================================================
