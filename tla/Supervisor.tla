----------------------------- MODULE Supervisor -----------------------------
(***************************************************************************)
(* The supervisor of all vaults (src/src/obsidian/index.ts): the init      *)
(* pipeline that sets the vaults up one after the other and starts their   *)
(* children, the `ob` helper processes it runs for that (setup.ts,         *)
(* syncconfig.ts, backoff.ts), and the stop procedure that races it.       *)
(*                                                                         *)
(* The children are those of ChildLifecycle, which VaultChild implements.  *)
(* One action is what the event loop runs between two awaits.              *)
(* HelperFailsOnceMore, StopTaskEndsUnchecked, GiveUpSilently,             *)
(* RetryUncounted and StopGraceElapsesQuietly are not the code: each is a  *)
(* plausible bug of the definition it precedes, by which a property is     *)
(* tried.                                                                  *)
(***************************************************************************)
EXTENDS ChildLifecycle

CONSTANTS
    NumVaults,      \* vaults are set up in the order of the configuration
    MaxAttempts,    \* backoff.maxAttempts of sync-setup and sync-config
    SyncConfigured  \* is any OB_SYNC_* variable set?

ASSUME SupervisorAssumption ==
    /\ NumVaults \in Nat /\ Vaults = 1..NumVaults
    /\ MaxAttempts \in Nat \ {0}
    /\ SyncConfigured \in BOOLEAN

VARIABLES
    cursor,   \* the vault being set up
    step,     \* the await the pipeline is at; "settled" once initPromise is
    attempt,  \* of the sync-setup or sync-config in progress
    stopped,  \* initState.stopped
    stopTask  \* of a vault: where the task that stops it is
initVars == <<cursor, step, attempt>>
supervisorVars == <<initVars, stopped, stopTask>>
vars == <<lifecycleVars, supervisorVars>>

\* Is an `ob sync-status`, `sync-setup` or `sync-config` running?
HelperRuns == step \in {"status", "setup", "config"}

SupervisorInit ==
    /\ Init
    /\ cursor = 1 /\ attempt = 0
    /\ step = IF Vaults = {} THEN "settled" ELSE "mkdir"
    /\ stopped = FALSE /\ stopTask = [v \in Vaults |-> "none"]

-----------------------------------------------------------------------------
(* The init pipeline.                                                      *)

Settle == step' = "settled" /\ attempt' = 0 /\ UNCHANGED cursor

\* The head of the pipeline's loop for the vault after the one in hand.
NextVault ==
    /\ attempt' = 0 /\ cursor' = cursor + 1
    /\ step' = IF stopped \/ cursor = NumVaults THEN "settled" ELSE "mkdir"

GiveUpSilently == NextVault /\ UNCHANGED lifecycleVars
GiveUp == MarkFailed(cursor) /\ NextVault

StartChild ==
    IF stopped THEN Settle /\ UNCHANGED lifecycleVars
    ELSE Start(cursor) /\ NextVault

\* A helper command is launched for the first time ...
Launch(op) == step' = op /\ attempt' = 1 /\ UNCHANGED <<cursor, lifecycleVars>>

\* ... and configuring is skipped when there is nothing to configure.
Configure ==
    IF stopped THEN Settle /\ UNCHANGED lifecycleVars
    ELSE IF SyncConfigured THEN Launch("config") ELSE StartChild

MkdirEnds ==
    /\ step = "mkdir"
    /\ \/ GiveUp
       \/ IF stopped THEN Settle /\ UNCHANGED lifecycleVars ELSE Launch("status")
    /\ UNCHANGED <<stopped, stopTask>>

\* probeStatus: anything but a configured vault is to be set up.
StatusEnds ==
    /\ step = "status"
    /\ \/ Configure
       \/ IF stopped THEN Settle /\ UNCHANGED lifecycleVars ELSE Launch("setup")
    /\ UNCHANGED <<stopped, stopTask>>

\* runWithBackoff, at the end of one attempt of a helper.
HelperSucceeds ==
    /\ \/ step = "setup" /\ Configure
       \/ step = "config" /\ StartChild
    /\ UNCHANGED <<stopped, stopTask>>

HelperFailsOnceMore ==
    /\ step \in {"setup", "config"}
    /\ \/ /\ attempt <= MaxAttempts
          /\ step' = IF step = "setup" THEN "setupBackoff" ELSE "configBackoff"
          /\ UNCHANGED <<cursor, attempt, lifecycleVars>>
       \/ attempt > MaxAttempts /\ GiveUp
    /\ UNCHANGED <<stopped, stopTask>>

HelperFails ==
    /\ step \in {"setup", "config"}
    /\ \/ /\ attempt < MaxAttempts
          /\ step' = IF step = "setup" THEN "setupBackoff" ELSE "configBackoff"
          /\ UNCHANGED <<cursor, attempt, lifecycleVars>>
       \/ attempt = MaxAttempts /\ GiveUp
    /\ UNCHANGED <<stopped, stopTask>>

RetryUncounted ==
    /\ step \in {"setupBackoff", "configBackoff"}
    /\ IF stopped THEN Settle
       ELSE /\ step' = IF step = "setupBackoff" THEN "setup" ELSE "config"
            /\ UNCHANGED <<attempt, cursor>>
    /\ UNCHANGED <<lifecycleVars, stopped, stopTask>>

\* The backoff is slept in slices, so a stop cuts it short.
HelperRetries ==
    /\ step \in {"setupBackoff", "configBackoff"}
    /\ IF stopped THEN Settle
       ELSE /\ step' = IF step = "setupBackoff" THEN "setup" ELSE "config"
            /\ attempt' = attempt + 1 /\ UNCHANGED cursor
    /\ UNCHANGED <<lifecycleVars, stopped, stopTask>>

-----------------------------------------------------------------------------
(* stop().                                                                 *)

Stop ==
    /\ ~stopped /\ stopped' = TRUE
    /\ UNCHANGED <<lifecycleVars, initVars, stopTask>>

\* Once the pipeline has settled every child is sent SIGTERM, in one step.
StopChildren ==
    /\ stopped /\ step = "settled" /\ \A v \in Vaults : stopTask[v] = "none"
    /\ RequestStop(Vaults)
    /\ stopTask' = [v \in Vaults |-> "grace"]
    /\ UNCHANGED <<initVars, stopped>>

\* awaitExit of a child that was never started resolves at once.
LoopEnded(v) == pc[v] \in {"idle", "returned"}

StopGraceElapsesQuietly(v) ==
    /\ stopTask[v] = "grace"
    /\ stopTask' = [stopTask EXCEPT ![v] = "killed"]
    /\ UNCHANGED <<lifecycleVars, initVars, stopped>>

StopGraceElapses(v) ==
    /\ stopTask[v] = "grace" /\ Kill(v)
    /\ stopTask' = [stopTask EXCEPT ![v] = "killed"]
    /\ UNCHANGED <<initVars, stopped>>

StopTaskEndsUnchecked(v) ==
    /\ stopTask[v] \in {"grace", "killed"}
    /\ stopTask[v] = "killed" \/ LoopEnded(v)
    /\ stopTask' = [stopTask EXCEPT ![v] = "done"]
    /\ UNCHANGED <<lifecycleVars, initVars, stopped>>

StopTaskEnds(v) ==
    /\ stopTask[v] \in {"grace", "killed"} /\ LoopEnded(v)
    /\ stopTask' = [stopTask EXCEPT ![v] = "done"]
    /\ UNCHANGED <<lifecycleVars, initVars, stopped>>

\* stopPromise has resolved.
StopResolved == stopped /\ step = "settled" /\ \A v \in Vaults : stopTask[v] = "done"

-----------------------------------------------------------------------------
HelperEnds == StatusEnds \/ HelperSucceeds \/ HelperFails
Pipeline == MkdirEnds \/ HelperEnds \/ HelperRetries

ChildRuns(v) == Runs(v) /\ UNCHANGED supervisorVars

SupervisorNext ==
    \/ Pipeline
    \/ Stop \/ StopChildren
    \/ \E v \in Vaults : StopGraceElapses(v) \/ StopTaskEnds(v) \/ ChildRuns(v)

(***************************************************************************)
(* Fairness.  Directories are made, backoffs and graces run out, a process *)
(* sent SIGKILL dies and the streams of a dead one close.  A child may run *)
(* for ever.  HelperFairness says that no `ob` helper does: the code sets  *)
(* no timeout on one.                                                      *)
(***************************************************************************)
ChildFairness(v) ==
    /\ WF_vars(Retry(v) /\ UNCHANGED supervisorVars)
    /\ WF_vars(EndAttempt(v) /\ UNCHANGED supervisorVars)
    /\ WF_vars(Escalate(v) /\ signal[v] # "kill" /\ UNCHANGED supervisorVars)
    /\ WF_vars(signal[v] = "kill" /\ Exit(v) /\ UNCHANGED supervisorVars)
    /\ WF_vars(StopGraceElapses(v)) /\ WF_vars(StopTaskEnds(v))

CodeFairness ==
    /\ WF_vars(MkdirEnds) /\ WF_vars(HelperRetries) /\ WF_vars(StopChildren)
    /\ \A v \in Vaults : ChildFairness(v)
HelperFairness == WF_vars(HelperEnds)

SupervisorSpec == SupervisorInit /\ [][SupervisorNext]_vars
HungHelperSpec == SupervisorSpec /\ CodeFairness
FairSupervisorSpec == HungHelperSpec /\ HelperFairness

-----------------------------------------------------------------------------
(* Readings.                                                               *)

\* /readyz: every vault, and at least one, is running.
isAllRunning == Vaults # {} /\ \A v \in Vaults : state[v] = "running"

-----------------------------------------------------------------------------
(* Properties.                                                             *)

LifecycleTypeOK ==
    /\ pc \in [Vaults -> {"idle", "attempt", "backoff", "returned"}]
    /\ state \in [Vaults -> {"starting", "running", "failed"}]
    /\ stopRequested \in [Vaults -> BOOLEAN] /\ condemned \in [Vaults -> BOOLEAN]
    /\ proc \in [Vaults -> {"none", "alive", "exited"}]
    /\ signal \in [Vaults -> {"none", "term", "kill"}]

TypeOK ==
    /\ LifecycleTypeOK
    /\ cursor \in 1..(NumVaults + 1)
    /\ step \in {"mkdir", "status", "setup", "setupBackoff", "config", "configBackoff",
                 "settled"}
    /\ attempt \in 0..MaxAttempts
    /\ stopped \in BOOLEAN
    /\ stopTask \in [Vaults -> {"none", "grace", "killed", "done"}]

\* Once stop() has resolved nothing of the supervisor is left: no helper, no
\* `ob sync`, and no run loop that could start one.
QuietOnceStopped ==
    StopResolved => /\ ~HelperRuns
                    /\ \A v \in Vaults : proc[v] # "alive" /\ LoopEnded(v)

\* A child runs only behind its own vault's setup, and the pipeline accounts for
\* every vault it has passed: started, or failed.
SetupGatesEveryChild ==
    \A v \in Vaults : /\ v >= cursor => pc[v] = "idle" /\ state[v] = "starting"
                      /\ v < cursor => pc[v] # "idle" \/ state[v] = "failed"

\* After stop() is called no `ob sync-status`, `sync-setup` or `sync-config` is
\* launched and no vault enters its loop; at most the command in hand goes on.
NothingLaunchedAfterStop ==
    [][ stopped => /\ HelperRuns' => HelperRuns /\ step' = step /\ attempt' = attempt
                   /\ \A v \in Vaults : pc[v] = "idle" => pc'[v] = "idle" ]_vars

\* /readyz answers 200 only when every vault has been set up and each has an
\* attempt in flight that its watchdog has not condemned.
ReadyMeansServed ==
    isAllRunning => /\ step = "settled"
                    /\ \A v \in Vaults : pc[v] = "attempt" /\ ~condemned[v]

\* One vault that cannot be set up never keeps the others from being served:
\* while no stop comes, every vault is started or failed in the end.
EveryVaultSettles == <>(stopped \/ step = "settled")

\* stop() resolves, whatever the children do with SIGTERM.
StopCompletes == stopped ~> StopResolved

-----------------------------------------------------------------------------
(* What the documentation says and the code does not do.                   *)

\* "On SIGTERM to the parent, the supervisor MUST SIGTERM every child."
StopReachesEveryChild ==
    \A v \in Vaults : stopped ~> (proc[v] = "alive" => signal[v] # "none")
=============================================================================
