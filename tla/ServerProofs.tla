---------------------------- MODULE ServerProofs ----------------------------
(***************************************************************************)
(* Theorems about the life of the process, for every set of environments,  *)
(* versions, dimensions and vaults.                                        *)
(***************************************************************************)
EXTENDS Server, TLAPS

\* What the configuration, the binary and the embedder have given the process.
Rows == {NoTable} \cup [dim : Dims, version : Versions]
Typed ==
    /\ sidecar \in Versions \cup {NoVersion} /\ found \in Versions \cup {NoVersion}
    /\ tables \in [Slugs -> Rows]
    /\ settled \in [Parts -> {"pending", "stopped", "rejected"}]
    /\ stage = "loading" => env \in Environments
    /\ stage \notin {"down", "loading"} =>
           binary \in Versions /\ dim \in Dims /\ vaults \in Seq(Slugs)

-----------------------------------------------------------------------------
(* The configuration.                                                      *)

\* What is loaded of an accepted environment names vaults of the data directory.
LEMMA LoadedVaults ==
    ASSUME NEW e \in Environments, Accepted(e)
    PROVE  loadConfig(e).vaults \in Seq(Slugs) /\ loadConfig(e).vaults # <<>>
<1>1. e.vaults \in Seq(Range(e.vaults)) /\ e.vaults # <<>>
  BY ServerAssumption DEF Accepted, VaultsAccepted
<1>2. DOMAIN e.vaults = 1 .. Len(e.vaults) /\ Len(e.vaults) \in Nat /\ Len(e.vaults) # 0
  BY <1>1
<1>3. loadConfig(e).vaults = [i \in 1 .. Len(e.vaults) |-> SlugOf(e.vaults[i])]
  BY <1>2 DEF loadConfig, parseVaults
<1>4. \A i \in 1 .. Len(e.vaults) : SlugOf(e.vaults[i]) \in Slugs
  BY <1>2, ServerAssumption DEF Range, parseVaults
<1> QED
  BY <1>2, <1>3, <1>4

LEMMA AcceptedIsFit ==
    ASSUME NEW e \in Environments, Accepted(e)
    PROVE  FitForUse(loadConfig(e))
<1>1. loadConfig(e).vaults # <<>>
  BY LoadedVaults
<1>2. IsInjective(loadConfig(e).vaults)
  BY DEF Accepted, VaultsAccepted, loadConfig
<1>3. /\ e.timeout = Unset \/ e.timeout \in 0 .. MaxSeconds
      /\ e.poll = Unset \/ e.poll \in 0 .. MaxSeconds
  BY DEF Accepted, WatchdogAccepted, PollUnbounded, NumberAccepted
<1>4. /\ Number(e.timeout, DefaultTimeout) \in 0 .. MaxSeconds
      /\ Number(e.poll, DefaultPoll) \in 0 .. MaxSeconds
  BY <1>3, ConfigurationAssumption DEF Number
<1>5. /\ loadConfig(e).syncWatchdog.stallTimeout = Number(e.timeout, DefaultTimeout)
      /\ loadConfig(e).syncWatchdog.pollInterval = Number(e.poll, DefaultPoll)
  BY DEF loadConfig, loadSyncWatchdogConfig
<1>6. /\ Number(e.poll, DefaultPoll) >= 1
      /\ Number(e.timeout, DefaultTimeout) > 0 =>
             Number(e.poll, DefaultPoll) <= Number(e.timeout, DefaultTimeout)
  BY DEF Accepted, WatchdogAccepted, PollUnbounded, loadSyncWatchdogConfig
<1>7. /\ loadConfig(e).syncWatchdog.pollInterval \in 1 .. MaxSeconds
      /\ loadConfig(e).syncWatchdog.stallTimeout \in
             {0} \cup loadConfig(e).syncWatchdog.pollInterval .. MaxSeconds
  BY <1>4, <1>5, <1>6, ConfigurationAssumption
<1>8. ASSUME NEW raw \in {e.crashes, e.stalls, e.threshold},
             NEW default \in {0, DefaultThreshold}
      PROVE  Number(raw, default) \in 0 .. MaxCount
  BY ConfigurationAssumption DEF Accepted, HealthAccepted, NumberAccepted, Number
<1>9. \A n \in {loadConfig(e).syncHealth.maxCrashes, loadConfig(e).syncHealth.maxStallKills,
                loadConfig(e).syncHealth.healthzFailureThreshold} : n \in 0 .. MaxCount
  BY <1>8 DEF loadConfig, loadSyncHealthConfig
<1> QED
  BY <1>1, <1>2, <1>7, <1>9 DEF FitForUse

-----------------------------------------------------------------------------
(* Types.                                                                  *)

LEMMA TypedInit == Init => Typed
  BY DEF Init, Typed, Rows, Unsettled

LEMMA TypedStep == Typed /\ [Next]_vars => Typed'
<1> SUFFICES ASSUME Typed, [Next]_vars PROVE Typed'
  OBVIOUS
<1>1. ASSUME NEW e \in Environments, Boot(e) PROVE Typed'
  BY <1>1 DEF Boot, Typed, diskVars, Unsettled
<1>2. ASSUME NEW v \in Versions, NEW d \in Dims, Load(v, d) PROVE Typed'
  <2>1. CASE Accepted(env) /\ stage' = "loaded"
    <3>1. loadConfig(env).vaults \in Seq(Slugs)
      BY <1>2, <2>1, LoadedVaults DEF Load, Typed
    <3> QED
      BY <1>2, <2>1, <3>1 DEF Load, Typed, diskVars, Exit
  <2>2. CASE Exit(78)
    BY <1>2, <2>2 DEF Exit, Typed, diskVars
  <2> QED
    BY <1>2, <2>1, <2>2 DEF Load
<1>3. CASE SupervisorStarts \/ BeginIndexer \/ warmEmbedder \/ ReadSidecar \/ TornDown
  BY <1>3 DEF SupervisorStarts, BeginIndexer, warmEmbedder, ReadSidecar, TornDown, At, Fail, Exit,
              Then, Typed, diskVars
<1>4. ASSUME NEW s \in Slugs, DropTable(s) PROVE Typed'
  BY <1>4 DEF DropTable, At, Fail, Typed, diskVars, Rows
<1>5. CASE WriteSidecar
  BY <1>5 DEF WriteSidecar, At, Fail, Then, Typed
<1>6. CASE OpenStore
  <2>1. tables' \in [Slugs -> Rows]
    BY <1>6 DEF OpenStore, At, Fail, Typed, diskVars, Rows
  <2> QED
    BY <1>6, <2>1 DEF OpenStore, At, Fail, Typed, diskVars
<1>7. CASE Hydrate \/ Listen \/ CleanUp \/ Signal \/ ShutdownSettles \/ ShutdownTimesOut \/ Crash
  BY <1>7 DEF Hydrate, Listen, StopAfterListenError, CleanUp, Signal, ShutdownSettles,
              ShutdownTimesOut, Crash, At, Fail, Exit, Typed, diskVars
<1>8. ASSUME NEW p \in Parts, NEW how \in {"stopped", "rejected"}, PartSettles(p, how)
      PROVE  Typed'
  BY <1>8 DEF PartSettles, Typed, diskVars, history
<1>9. CASE UNCHANGED vars
  BY <1>9 DEF vars, diskVars, processVars, history, Typed
<1> QED
  BY <1>1, <1>2, <1>3, <1>4, <1>5, <1>6, <1>7, <1>8, <1>9 DEF Next, Progress

LEMMA TypedAlways == Spec => []Typed
  BY TypedInit, TypedStep, PTL DEF Spec

\* The rest of the types, most of which the stage bears on.
LEMMA TypeStep == Typed /\ TypeOK /\ [Next]_vars => TypeOK'
<1> SUFFICES ASSUME Typed, TypeOK, [Next]_vars PROVE TypeOK'
  OBVIOUS
<1> DEFINE Stages == {"down", "loading", "loaded", "supervised", "warming", "warm",
                      "reconciling", "reconciled", "upgrading", "writing", "opening",
                      "hydrating", "teardown", "cleanup", "up", "stopping"}
\* What one action has in common with others.
<1>a. ASSUME NEW c \in {0, 1, 78, 137}, Exit(c), children' \in {children, FALSE}
      PROVE  TypeOK'
  <2>1. children' \in BOOLEAN
    BY <1>a DEF TypeOK
  <2>2. vaults' \in Seq(Slugs)
    BY <1>a DEF Exit
  <2> QED
    BY <1>a, <2>1, <2>2 DEF Exit, TypeOK, diskVars
<1>b. ASSUME NEW what, NEW next \in Stages, NEW c \in {0, 1, 78, 137}, Fail(what, next, c),
             UNCHANGED diskVars
      PROVE  TypeOK'
  BY <1>b DEF Fail, TypeOK, diskVars
<1>c. ASSUME NEW here, NEW next \in Stages, At(here, next), children' \in {children, TRUE},
             UNCHANGED <<diskVars, dropping, skipped>>
      PROVE  TypeOK'
  <2>1. children' \in BOOLEAN
    BY <1>c DEF TypeOK
  <2> QED
    BY <1>c, <2>1 DEF At, TypeOK, diskVars
<1>1. ASSUME NEW e \in Environments, Boot(e) PROVE TypeOK'
  BY <1>1 DEF Boot, TypeOK, diskVars, Unsettled
<1>2. ASSUME NEW v \in Versions, NEW d \in Dims, Load(v, d) PROVE TypeOK'
  <2>1. CASE Accepted(env) /\ stage' = "loaded"
    <3>1. loadConfig(env).vaults \in Seq(Slugs)
      BY <1>2, <2>1, LoadedVaults DEF Load, Typed
    <3> QED
      BY <1>2, <2>1, <3>1 DEF Load, TypeOK, diskVars, Exit
  <2>2. CASE Exit(78)
    BY <1>2, <2>2 DEF Exit, Load, TypeOK, diskVars
  <2> QED
    BY <1>2, <2>1, <2>2 DEF Load
<1>3. CASE SupervisorStarts \/ BeginIndexer \/ warmEmbedder \/ TornDown
  <2>1. CASE SupervisorStarts
    <3>1. CASE At("loaded", "supervised") /\ children' = TRUE
      BY <1>c, <2>1, <3>1 DEF SupervisorStarts, Exit, At
    <3>2. CASE \E c \in {1, 78} : Exit(c) /\ UNCHANGED children
      BY <1>a, <3>2
    <3> QED
      BY <2>1, <3>1, <3>2 DEF SupervisorStarts
  <2>2. CASE BeginIndexer \/ TornDown
    BY <1>c, <2>2 DEF BeginIndexer, TornDown, Then
  <2>3. CASE warmEmbedder
    BY <1>b, <1>c, <2>3 DEF warmEmbedder, Then
  <2> QED
    BY <1>3, <2>1, <2>2, <2>3
<1>4. CASE ReadSidecar
  <2>1. Configured \subseteq Slugs
    BY DEF Configured, Range, TypeOK
  <2> QED
    BY <1>4, <2>1 DEF ReadSidecar, At, Fail, Then, TypeOK, diskVars
<1>5. ASSUME NEW s \in Slugs, DropTable(s) PROVE TypeOK'
  BY <1>5 DEF DropTable, At, Fail, TypeOK, diskVars
<1>6. CASE WriteSidecar
  BY <1>6 DEF WriteSidecar, At, Fail, Then, TypeOK, PassedOver
<1>7. CASE OpenStore
  <2>1. binary \in Versions /\ dim \in Dims
    BY <1>7 DEF OpenStore, At, Fail, Typed
  <2> QED
    BY <1>7, <2>1 DEF OpenStore, At, Fail, TypeOK, diskVars
<1>8. CASE Hydrate \/ Listen \/ CleanUp \/ Signal \/ ShutdownSettles \/ ShutdownTimesOut \/ Crash
  <2>1. CASE Hydrate
    <3>1. CASE Fail("hydrate", "teardown", 1)
      BY <1>b, <2>1, <3>1 DEF Hydrate
    <3> QED
      BY <2>1, <3>1 DEF Hydrate, TypeOK, diskVars
  <2>2. CASE Listen \/ Signal
    BY <1>b, <1>c, <2>2 DEF Listen, StopAfterListenError, Signal
  <2>3. CASE CleanUp
    <3>1. Exit(code) /\ children' \in {children, FALSE}
      BY <2>3 DEF CleanUp
    <3>2. code \in {0, 1, 78, 137}
      BY DEF TypeOK
    <3> QED
      BY <1>a, <3>1, <3>2
  <2>4. CASE ShutdownSettles \/ ShutdownTimesOut \/ Crash
    BY <1>a, <2>4 DEF ShutdownSettles, ShutdownTimesOut, Crash
  <2> QED
    BY <1>8, <2>1, <2>2, <2>3, <2>4
<1>9. ASSUME NEW p \in Parts, NEW how \in {"stopped", "rejected"}, PartSettles(p, how)
      PROVE  TypeOK'
  BY <1>9 DEF PartSettles, TypeOK, diskVars, history
<1>10. CASE UNCHANGED vars
  BY <1>10 DEF vars, diskVars, processVars, history, TypeOK
<1> QED
  BY <1>1, <1>2, <1>3, <1>4, <1>5, <1>6, <1>7, <1>8, <1>9, <1>10 DEF Next, Progress

\* What main, the supervisor and the indexer keep in memory and on disk is of the
\* types they expect.
THEOREM TypeCorrect == Spec => []TypeOK
<1>1. Init => TypeOK
  <2> SUFFICES ASSUME Init PROVE TypeOK
    OBVIOUS
  <2>0. <<>> \in Seq(Slugs)
    OBVIOUS
  <2>1. vaults \in Seq(Slugs) /\ opened \in Nat
    BY <2>0 DEF Init
  <2>2. tables \in [Slugs -> {NoTable} \cup [dim : Dims, version : Versions]]
    BY DEF Init
  <2>3. children \in BOOLEAN
    BY Zenon DEF Init
  <2> QED
    BY <2>1, <2>2, <2>3 DEF Init, TypeOK, Unsettled
<1> QED
  BY <1>1, TypedInit, TypedStep, TypeStep, PTL DEF Spec

\* What is accepted of the environment is fit for the parts that use it, for all bounds
\* and defaults.
THEOREM AcceptedFits == Spec => []AcceptedConfigurationIsFit
<1>1. Typed => AcceptedConfigurationIsFit
  BY AcceptedIsFit DEF Typed, AcceptedConfigurationIsFit
<1> QED
  BY <1>1, TypedAlways, PTL

-----------------------------------------------------------------------------
(* The version of the pipeline.                                            *)

\* Up to the sidecar the upgrade works off `dropping`; from there on the sidecar is
\* that of the binary, which makes the new tables.
UpgradeInv ==
    /\ SidecarTellsTheRows
    /\ stage \in {"upgrading", "writing"} =>
           \A s \in Slugs : tables[s] = NoTable \/ s \in dropping \/ s \notin Configured
    /\ stage = "writing" => dropping = {}
    /\ stage \in {"opening", "hydrating"} => sidecar = binary

LEMMA UpgradeStep == Typed /\ UpgradeInv /\ [Next]_vars => UpgradeInv'
<1> SUFFICES ASSUME Typed, UpgradeInv, [Next]_vars PROVE UpgradeInv'
  OBVIOUS
<1>1. ASSUME UNCHANGED <<diskVars, skipped>>,
             stage' \notin {"upgrading", "writing"},
             stage' \in {"opening", "hydrating"} => stage \in {"opening", "hydrating"} /\ binary' = binary
      PROVE  UpgradeInv'
  BY <1>1 DEF UpgradeInv, SidecarTellsTheRows, diskVars
<1>2. ASSUME NEW e \in Environments, Boot(e) PROVE UpgradeInv'
  BY <1>1, <1>2 DEF Boot
<1>3. ASSUME NEW v \in Versions, NEW d \in Dims, Load(v, d) PROVE UpgradeInv'
  BY <1>1, <1>3 DEF Load, Exit
<1>4. CASE SupervisorStarts \/ BeginIndexer \/ warmEmbedder \/ TornDown
  BY <1>1, <1>4 DEF SupervisorStarts, BeginIndexer, warmEmbedder, TornDown, At, Fail, Exit, Then
<1>5. CASE ReadSidecar
  <2>1. CASE sidecar = binary /\ At("reconciling", Then["reconciled"])
    BY <1>5, <2>1 DEF ReadSidecar, At, Then, UpgradeInv, SidecarTellsTheRows, diskVars, DataIsNewer, Fail
  <2>2. CASE Fail("newer", "cleanup", 1)
    BY <1>1, <1>5, <2>2 DEF ReadSidecar, Fail, At
  <2>3. CASE At("reconciling", "upgrading") /\ dropping' = {s \in Configured : tables[s] # NoTable}
    BY <1>5, <2>3 DEF ReadSidecar, At, UpgradeInv, SidecarTellsTheRows, diskVars, Fail, Configured
  <2> QED
    BY <1>5, <2>1, <2>2, <2>3 DEF ReadSidecar
<1>6. ASSUME NEW s \in Slugs, DropTable(s) PROVE UpgradeInv'
  <2>1. CASE Fail("drop", "cleanup", 1)
    BY <1>1, <1>6, <2>1 DEF DropTable, Fail, At
  <2>2. CASE /\ At("upgrading", "upgrading") /\ dropping' = dropping \ {s}
             /\ tables' = [tables EXCEPT ![s] = NoTable] /\ UNCHANGED <<sidecar, skipped>>
    <3>1. \A t \in Slugs : tables'[t] = IF t = s THEN NoTable ELSE tables[t]
      BY <2>2 DEF Typed
    <3> QED
      BY <2>2, <3>1 DEF At, UpgradeInv, SidecarTellsTheRows, Configured
  <2> QED
    BY <1>6, <2>1, <2>2 DEF DropTable
<1>7. CASE WriteSidecar
  <2>1. CASE At("upgrading", "writing") /\ dropping = {} /\ sidecar' = NoVersion
    BY <1>7, <2>1 DEF WriteSidecar, At, UpgradeInv, SidecarTellsTheRows, Configured
  <2>2. CASE At("writing", Then["reconciled"]) /\ sidecar' = binary /\ skipped' = PassedOver
    BY <1>7, <2>2 DEF WriteSidecar, At, Then, UpgradeInv, SidecarTellsTheRows, PassedOver
  <2>3. CASE Fail("write", "cleanup", 1) /\ sidecar' = sidecar
    BY <1>1, <1>7, <2>3 DEF WriteSidecar, Fail, diskVars
  <2> QED
    BY <1>7, <2>1, <2>2, <2>3 DEF WriteSidecar
<1>8. CASE OpenStore
  <2> DEFINE s == vaults[opened + 1]
  <2>1. CASE Fail("dimension", "teardown", 78) /\ UNCHANGED diskVars
    BY <1>1, <2>1 DEF Fail
  <2>2. CASE At("opening", "hydrating") /\ tables[s] # NoTable
    BY <1>1, <1>8, <2>2 DEF OpenStore, At, Fail, diskVars
  <2>3. CASE At("opening", "hydrating") /\ tables[s] = NoTable
    <3>1. /\ \A t \in Slugs : tables'[t] = IF t = s THEN [dim |-> dim, version |-> binary]
                                           ELSE tables[t]
          /\ skipped' = skipped \ {s} /\ sidecar' = sidecar
      BY <1>8, <2>3 DEF OpenStore, At, Fail, Typed
    <3>2. sidecar = binary /\ binary' = binary /\ stage' = "hydrating"
      BY <2>3 DEF At, UpgradeInv
    <3>3. SidecarTellsTheRows'
      BY <3>1, <3>2 DEF UpgradeInv, SidecarTellsTheRows
    <3> QED
      BY <3>1, <3>2, <3>3 DEF UpgradeInv
  <2> QED
    BY <1>8, <2>1, <2>2, <2>3 DEF OpenStore
<1>9. CASE Hydrate \/ Listen \/ CleanUp \/ Signal \/ ShutdownSettles \/ ShutdownTimesOut \/ Crash
  BY <1>1, <1>9 DEF Hydrate, Listen, StopAfterListenError, CleanUp, Signal, ShutdownSettles,
                    ShutdownTimesOut, Crash, At, Fail, Exit
<1>10. ASSUME NEW p \in Parts, NEW how \in {"stopped", "rejected"}, PartSettles(p, how)
       PROVE  UpgradeInv'
  BY <1>1, <1>10 DEF PartSettles, history
<1>11. CASE UNCHANGED vars
  BY <1>11 DEF vars, diskVars, processVars, history, UpgradeInv, SidecarTellsTheRows, Configured
<1> QED
  BY <1>2, <1>3, <1>4, <1>5, <1>6, <1>7, <1>8, <1>9, <1>10, <1>11 DEF Next, Progress

\* The sidecar vouches for no rows of another version, whenever the process is killed,
\* but for the vaults an upgrade passed over.
THEOREM TheSidecarIsTrue == Spec => []SidecarTellsTheRows
<1>1. Init => UpgradeInv
  BY DEF Init, UpgradeInv, SidecarTellsTheRows
<1>2. UpgradeInv => SidecarTellsTheRows
  BY DEF UpgradeInv
<1> QED
  BY <1>1, <1>2, UpgradeStep, TypedAlways, PTL DEF Spec

-----------------------------------------------------------------------------
(* A refused start.                                                        *)

Newer == found # NoVersion /\ binary # NoVersion /\ found > binary
Early == {"loading", "loaded", "supervised", "warming", "reconciling"}

\* The disk is as it was found until the embedder is warm and the data not newer.
StartInv ==
    /\ stage \in Early => ~touched /\ found = sidecar
    /\ stage \in {"upgrading", "writing", "opening", "hydrating"} => ~Newer
    /\ touched => ~Newer
    /\ failed = "embedder" => ~touched /\ stage \in {"cleanup", "down"}

LEMMA StartStep == Typed /\ StartInv /\ [Next]_vars => StartInv'
<1> SUFFICES ASSUME Typed, StartInv, [Next]_vars PROVE StartInv'
  OBVIOUS
\* Steps that neither touch the disk nor come to the upgrade, or go on with it.
<1>0. ASSUME UNCHANGED <<sidecar, found, touched>>,
             stage' \in Early => stage \in Early,
             stage' \in {"upgrading", "writing", "opening", "hydrating"} =>
                 stage \in {"upgrading", "writing", "opening", "hydrating"},
             binary' = binary,
             \/ failed' # "embedder"
             \/ failed' = failed /\ stage' \in {"cleanup", "down", stage}
             \/ stage = "warming" /\ stage' = "cleanup"
      PROVE  StartInv'
  BY <1>0 DEF StartInv, Newer, Early
<1>1. ASSUME NEW e \in Environments, Boot(e) PROVE StartInv'
  BY <1>1 DEF Boot, StartInv, Newer, Early, diskVars
<1>2. ASSUME NEW v \in Versions, NEW d \in Dims, Load(v, d) PROVE StartInv'
  BY <1>2 DEF Load, Exit, StartInv, Newer, Early, diskVars
<1>3. CASE SupervisorStarts \/ BeginIndexer \/ warmEmbedder
  BY <1>3 DEF SupervisorStarts, BeginIndexer, warmEmbedder, At, Fail, Exit, Then, StartInv,
              Newer, Early, diskVars
<1>4. CASE ReadSidecar
  <2>1. stage = "reconciling" /\ ~touched /\ found = sidecar /\ binary \in Versions
    BY <1>4 DEF ReadSidecar, StartInv, Early, Typed
  <2>2. CASE ~DataIsNewer
    <3>1. ~Newer
      BY <2>1, <2>2 DEF Newer, DataIsNewer
    <3> QED
      BY <1>4, <2>1, <2>2, <3>1
      DEF ReadSidecar, At, Fail, Then, StartInv, Newer, Early, diskVars
  <2>3. CASE DataIsNewer
    <3>1. sidecar # binary
      BY <2>1, <2>3, ServerAssumption DEF DataIsNewer
    <3> QED
      BY <1>4, <2>1, <2>3, <3>1 DEF ReadSidecar, Fail, StartInv, Newer, Early, diskVars
  <2> QED
    BY <2>2, <2>3
<1>5. ASSUME NEW s \in Slugs, DropTable(s) PROVE StartInv'
  BY <1>5 DEF DropTable, At, Fail, StartInv, Newer, Early, diskVars
<1>6. CASE WriteSidecar
  BY <1>6 DEF WriteSidecar, At, Fail, Then, StartInv, Newer, Early
<1>7. CASE OpenStore
  BY <1>7 DEF OpenStore, At, Fail, StartInv, Newer, Early, diskVars
<1>8. CASE Hydrate \/ TornDown \/ Listen \/ CleanUp
  BY <1>8 DEF Hydrate, TornDown, Listen, StopAfterListenError, CleanUp, At, Fail, Exit, StartInv,
              Newer, Early, diskVars
<1>9. CASE Signal \/ ShutdownSettles \/ ShutdownTimesOut \/ Crash
  BY <1>9 DEF Signal, ShutdownSettles, ShutdownTimesOut, Crash, At, Exit, StartInv, Newer, Early,
              diskVars
<1>10. ASSUME NEW p \in Parts, NEW how \in {"stopped", "rejected"}, PartSettles(p, how)
       PROVE  StartInv'
  BY <1>10 DEF PartSettles, history, diskVars, StartInv, Newer, Early
<1>11. CASE UNCHANGED vars
  BY <1>11 DEF vars, diskVars, processVars, history, StartInv, Newer, Early
<1> QED
  BY <1>1, <1>2, <1>3, <1>4, <1>5, <1>6, <1>7, <1>8, <1>9, <1>10, <1>11 DEF Next, Progress

\* A start that its embedder or newer data end leaves the data directory as it was.
THEOREM RefusalIsHarmless == Spec => []RefusedStartLeavesTheDisk
<1>1. Init => StartInv
  BY DEF Init, StartInv, Newer, Early
<1>2. StartInv => RefusedStartLeavesTheDisk
  BY DEF StartInv, RefusedStartLeavesTheDisk, Newer
<1> QED
  BY <1>1, <1>2, StartStep, TypedAlways, PTL DEF Spec

-----------------------------------------------------------------------------
(* The children.                                                           *)

ChildrenInv ==
    /\ stage \in {"loading", "loaded"} => ~children
    /\ stage \notin {"down", "stopping"} => settled["supervisor"] = "pending"
    /\ stage = "stopping" /\ children => settled["supervisor"] = "pending"
    /\ ExitStopsTheChildren

LEMMA ChildrenStep == Typed /\ ChildrenInv /\ [Next]_vars => ChildrenInv'
<1> SUFFICES ASSUME Typed, ChildrenInv, [Next]_vars PROVE ChildrenInv'
  OBVIOUS
<1> USE DEF ChildrenInv, ExitStopsTheChildren
<1>1. ASSUME NEW e \in Environments, Boot(e) PROVE ChildrenInv'
  BY <1>1 DEF Boot, Unsettled, Parts
<1>2. ASSUME NEW v \in Versions, NEW d \in Dims, Load(v, d) PROVE ChildrenInv'
  BY <1>2 DEF Load, Exit
<1>3. CASE SupervisorStarts \/ BeginIndexer \/ warmEmbedder \/ ReadSidecar
  BY <1>3 DEF SupervisorStarts, BeginIndexer, warmEmbedder, ReadSidecar, At, Fail, Exit, Then
<1>4. ASSUME NEW s \in Slugs, DropTable(s) PROVE ChildrenInv'
  BY <1>4 DEF DropTable, At, Fail
<1>5. CASE WriteSidecar \/ OpenStore
  BY <1>5 DEF WriteSidecar, OpenStore, At, Fail, Then
<1>6. CASE Hydrate \/ TornDown \/ Listen \/ CleanUp
  BY <1>6 DEF Hydrate, TornDown, Listen, StopAfterListenError, CleanUp, At, Fail, Exit
<1>7. CASE ShutdownSettles
  <2>1. settled["supervisor"] # "pending"
    BY <1>7 DEF ShutdownSettles, AllSettled, Parts
  <2> QED
    BY <1>7, <2>1 DEF ShutdownSettles, Exit
<1>8. CASE Signal \/ ShutdownTimesOut \/ Crash
  BY <1>8 DEF Signal, ShutdownTimesOut, Crash, At, Exit
<1>9. ASSUME NEW p \in Parts, NEW how \in {"stopped", "rejected"}, PartSettles(p, how)
      PROVE  ChildrenInv'
  BY <1>9 DEF PartSettles, Typed, Parts, history
<1>10. CASE UNCHANGED vars
  BY <1>10 DEF vars, processVars, history
<1> QED
  BY <1>1, <1>2, <1>3, <1>4, <1>5, <1>6, <1>7, <1>8, <1>9, <1>10 DEF Next, Progress

\* No way out of the process leaves `ob` children behind, but for a stop of the
\* supervisor that was given up on at its timeout.
THEOREM NoOrphans == Spec => []ExitStopsTheChildren
<1>1. Init => ChildrenInv
  BY DEF Init, ChildrenInv, ExitStopsTheChildren
<1>2. ChildrenInv => ExitStopsTheChildren
  BY DEF ChildrenInv
<1> QED
  BY <1>1, <1>2, ChildrenStep, TypedAlways, PTL DEF Spec

-----------------------------------------------------------------------------
(* The tables.                                                             *)

Ready(i) == tables[vaults[i]] # NoTable /\ tables[vaults[i]].dim = dim
AllReady(n) == n \in 0 .. Len(vaults) /\ \A i \in 1 .. n : Ready(i)

\* The vaults that have been opened have tables of the dimension of the embedder.
OpenInv ==
    /\ stage \in Early \cup {"upgrading", "writing"} => opened = 0
    /\ stage \in {"opening", "up"} => AllReady(opened)
    /\ stage = "hydrating" => opened \in Nat /\ AllReady(opened + 1)
    /\ stage = "up" => opened = Len(vaults)

LEMMA OpenStep == Typed /\ OpenInv /\ [Next]_vars => OpenInv'
<1> SUFFICES ASSUME Typed, OpenInv, [Next]_vars PROVE OpenInv'
  OBVIOUS
<1>0. ASSUME UNCHANGED <<tables, vaults, dim, opened>>,
             stage' = stage \/ stage' \notin Early \cup {"upgrading", "writing", "opening", "hydrating", "up"}
      PROVE  OpenInv'
  BY <1>0 DEF OpenInv, AllReady, Ready
<1>1. ASSUME NEW e \in Environments, Boot(e) PROVE OpenInv'
  BY <1>1 DEF Boot, OpenInv, Early
<1>2. ASSUME NEW v \in Versions, NEW d \in Dims, Load(v, d) PROVE OpenInv'
  BY <1>2 DEF Load, Exit, OpenInv, Early
<1>3. CASE SupervisorStarts \/ BeginIndexer \/ warmEmbedder
  BY <1>3 DEF SupervisorStarts, BeginIndexer, warmEmbedder, At, Fail, Exit, Then, OpenInv, Early
<1>4. ASSUME opened = 0, opened' = opened, stage' = "opening", vaults' = vaults,
             vaults \in Seq(Slugs)
      PROVE  OpenInv'
  BY <1>4 DEF OpenInv, AllReady, Early
<1>5. CASE ReadSidecar
  BY <1>4, <1>5 DEF ReadSidecar, At, Fail, Then, OpenInv, Early, Typed
<1>6. ASSUME NEW s \in Slugs, DropTable(s) PROVE OpenInv'
  BY <1>6 DEF DropTable, At, Fail, OpenInv, Early
<1>7. CASE WriteSidecar
  BY <1>4, <1>7 DEF WriteSidecar, At, Fail, Then, OpenInv, Early, Typed
<1>8. CASE OpenStore
  <2> DEFINE s == vaults[opened + 1]
  <2>1. CASE Fail("dimension", "teardown", 78)
    BY <2>1 DEF Fail, OpenInv, Early
  <2>2. CASE /\ At("opening", "hydrating") /\ Fits(s)
             /\ tables' = IF tables[s] # NoTable THEN tables
                          ELSE [tables EXCEPT ![s] = [dim |-> dim, version |-> binary]]
    <3>1. /\ AllReady(opened) /\ opened < Len(vaults) /\ vaults \in Seq(Slugs)
          /\ dim \in Dims /\ binary \in Versions
      BY <1>8, <2>2 DEF OpenStore, At, OpenInv, Typed
    <3>2. opened + 1 \in 1 .. Len(vaults) /\ s \in Slugs /\ opened \in Nat
      BY <3>1 DEF AllReady
    <3>3. tables'[s] # NoTable /\ tables'[s].dim = dim
      BY <2>2, <3>1, <3>2, ServerAssumption DEF Fits, NoTable, Typed
    <3>4. ASSUME NEW i \in 1 .. opened + 1
          PROVE  tables'[vaults[i]] # NoTable /\ tables'[vaults[i]].dim = dim
      <4>1. CASE vaults[i] = s
        BY <3>3, <4>1
      <4>2. CASE vaults[i] # s
        <5>1. i \in 1 .. opened
          BY <3>2, <4>2
        <5>2. Ready(i) /\ tables'[vaults[i]] = tables[vaults[i]]
          BY <2>2, <3>1, <4>2, <5>1 DEF AllReady, Typed
        <5> QED
          BY <5>2 DEF Ready
      <4> QED
        BY <4>1, <4>2
    <3>5. stage' = "hydrating" /\ opened' = opened /\ vaults' = vaults /\ dim' = dim
      BY <2>2 DEF At
    <3>6. AllReady(opened + 1)'
      BY <3>1, <3>2, <3>4, <3>5 DEF AllReady, Ready
    <3> QED
      BY <3>2, <3>5, <3>6 DEF OpenInv, Early
  <2> QED
    BY <1>8, <2>1, <2>2 DEF OpenStore
<1>9. CASE Hydrate
  <2>1. CASE stage' = "opening" /\ opened' = opened + 1
    <3>1. UNCHANGED <<tables, vaults, dim>>
      BY <1>9, <2>1 DEF Hydrate, Fail, diskVars
    <3>2. AllReady(opened + 1)
      BY <1>9 DEF Hydrate, OpenInv
    <3>3. AllReady(opened)'
      BY <2>1, <3>1, <3>2 DEF AllReady, Ready
    <3> QED
      BY <2>1, <3>3 DEF OpenInv, Early
  <2>2. CASE Fail("hydrate", "teardown", 1)
    BY <2>2 DEF Fail, OpenInv, Early
  <2> QED
    BY <1>9, <2>1, <2>2 DEF Hydrate
<1>10. CASE Listen
  <2>1. CASE At("opening", "up") /\ UNCHANGED diskVars
    BY <1>10, <2>1 DEF Listen, At, OpenInv, AllReady, Ready, Early, diskVars
  <2>2. CASE StopAfterListenError("listen", 1)
    BY <2>2 DEF StopAfterListenError, Fail, OpenInv, Early
  <2> QED
    BY <1>10, <2>1, <2>2 DEF Listen
<1>11. CASE TornDown \/ CleanUp \/ Signal \/ ShutdownSettles \/ ShutdownTimesOut \/ Crash
  BY <1>11 DEF TornDown, CleanUp, Signal, ShutdownSettles, ShutdownTimesOut, Crash, At, Exit,
               OpenInv, Early
<1>12. ASSUME NEW p \in Parts, NEW how \in {"stopped", "rejected"}, PartSettles(p, how)
       PROVE  OpenInv'
  BY <1>0, <1>12 DEF PartSettles, diskVars
<1>13. CASE UNCHANGED vars
  BY <1>0, <1>13 DEF vars, diskVars, processVars
<1> QED
  BY <1>1, <1>2, <1>3, <1>5, <1>6, <1>7, <1>8, <1>9, <1>10, <1>11, <1>12, <1>13
  DEF Next, Progress

\* While requests are served every configured vault has a table of the dimension of the
\* vectors that are stored in it and searched.
THEOREM ServedVaultsFit == Spec => []ServedTablesFit
<1>1. Init => OpenInv
  BY DEF Init, OpenInv, Early
<1>2. Typed /\ OpenInv => ServedTablesFit
  <2> SUFFICES ASSUME Typed, OpenInv, stage = "up", NEW s \in Configured
               PROVE  tables[s] # NoTable /\ tables[s].dim = dim
    BY DEF ServedTablesFit
  <2>1. vaults \in Seq(Slugs)
    BY DEF Typed
  <2>2. PICK i \in 1 .. Len(vaults) : vaults[i] = s
    BY <2>1 DEF Configured, Range
  <2> QED
    BY <2>2 DEF OpenInv, AllReady, Ready
<1> QED
  BY <1>1, <1>2, OpenStep, TypedAlways, PTL DEF Spec
=============================================================================
