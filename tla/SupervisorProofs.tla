-------------------------- MODULE SupervisorProofs --------------------------
(***************************************************************************)
(* Theorems about Supervisor, for every number of vaults and attempts.     *)
(***************************************************************************)
EXTENDS Supervisor, TLAPS

\* What a vault's lifecycle keeps to by itself: a live process belongs to the
\* attempt in flight, and only an attempt that is not condemned is running.
ChildInv ==
    \A v \in Vaults : /\ proc[v] = "alive" => pc[v] = "attempt"
                      /\ state[v] = "running" => pc[v] = "attempt" /\ ~condemned[v]

\* The stop procedure runs behind a settled pipeline, for all vaults at once,
\* and takes a vault for done only when its loop has ended.
StopInv ==
    /\ \A v \in Vaults : stopTask[v] # "none" => stopped /\ step = "settled"
    /\ \A v \in Vaults : stopTask[v] = "done" => LoopEnded(v)

\* While it has not settled, the pipeline is at a vault; settled without a stop,
\* it has passed them all.  A backoff has an attempt left to wait for.
PipelineInv ==
    /\ step \in {"setupBackoff", "configBackoff"} => attempt < MaxAttempts
    /\ step # "settled" => cursor \in Vaults
    /\ step = "settled" => stopped \/ cursor = NumVaults + 1

IInv == TypeOK /\ ChildInv /\ StopInv /\ PipelineInv /\ SetupGatesEveryChild

ChildOK == LifecycleTypeOK /\ ChildInv

-----------------------------------------------------------------------------
(* What the children do.                                                   *)

LEMMA StartChildOK ==
    ASSUME ChildOK, NEW v \in Vaults, LoopTurns(v), pc[v] \in {"idle", "backoff"}
    PROVE  /\ ChildOK' /\ pc'[v] # "idle"
           /\ \A w \in Vaults \ {v} : pc'[w] = pc[w] /\ state'[w] = state[w]
<1>1. CASE LoopReturns(v)
  BY <1>1 DEF LoopReturns, ChildOK, LifecycleTypeOK, ChildInv
<1>2. CASE BeginAttempt(v)
  <2>1. CASE /\ pc' = [pc EXCEPT ![v] = "attempt"]
             /\ state' = [state EXCEPT ![v] = "running"]
             /\ \E p \in {"alive", "exited"} : proc' = [proc EXCEPT ![v] = p]
    BY <1>2, <2>1 DEF BeginAttempt, ChildOK, LifecycleTypeOK, ChildInv
  <2>2. CASE FailAttempt(v) /\ proc' = [proc EXCEPT ![v] = "none"]
    BY <1>2, <2>2 DEF BeginAttempt, FailAttempt, ChildOK, LifecycleTypeOK, ChildInv
  <2> QED
    BY <1>2, <2>1, <2>2 DEF BeginAttempt
<1> QED
  BY <1>1, <1>2 DEF LoopTurns

\* A vault runs on its own only once it has been started and until its loop has
\* ended, and it touches no other vault.
LEMMA RunsOK ==
    ASSUME ChildOK, NEW v \in Vaults, Runs(v)
    PROVE  /\ ChildOK' /\ ~LoopEnded(v) /\ pc'[v] # "idle"
           /\ \A w \in Vaults \ {v} : pc'[w] = pc[w] /\ state'[w] = state[w]
<1>1. CASE Retry(v)
  BY <1>1, StartChildOK DEF Retry, LoopEnded
<1>2. CASE EndAttempt(v)
  BY <1>2 DEF EndAttempt, FailAttempt, ChildOK, LifecycleTypeOK, ChildInv, LoopEnded
<1>3. CASE Condemn(v)
  BY <1>3 DEF Condemn, Terminated, ChildOK, LifecycleTypeOK, ChildInv, LoopEnded
<1>4. CASE Escalate(v) \/ Exit(v)
  BY <1>4 DEF Escalate, Kill, Exit, ChildOK, LifecycleTypeOK, ChildInv, LoopEnded
<1> QED
  BY <1>1, <1>2, <1>3, <1>4 DEF Runs

LEMMA MarkFailedOK ==
    ASSUME ChildOK, NEW v \in Vaults, MarkFailed(v)
    PROVE  /\ ChildOK' /\ pc' = pc /\ state'[v] = "failed"
           /\ \A w \in Vaults \ {v} : state'[w] = state[w]
  BY DEF MarkFailed, ChildOK, LifecycleTypeOK, ChildInv

\* SIGTERM and SIGKILL change no loop.
LEMMA SignalsOK ==
    ASSUME ChildOK, RequestStop(Vaults) \/ \E v \in Vaults : Kill(v)
    PROVE  ChildOK' /\ pc' = pc /\ state' = state
<1>1. CASE RequestStop(Vaults)
  BY <1>1 DEF RequestStop, Terminated, ChildOK, LifecycleTypeOK, ChildInv
<1>2. CASE \E v \in Vaults : Kill(v)
  BY <1>2 DEF Kill, ChildOK, LifecycleTypeOK, ChildInv
<1> QED
  BY <1>1, <1>2

LEMMA ChildFrame == ChildOK /\ UNCHANGED lifecycleVars => ChildOK'
  BY DEF ChildOK, LifecycleTypeOK, ChildInv, lifecycleVars

-----------------------------------------------------------------------------
(* What the pipeline does.                                                 *)

PipelineOK == PipelineInv /\ SetupGatesEveryChild /\ cursor \in 1..(NumVaults + 1)
              /\ attempt \in 0..MaxAttempts

\* The vault in hand has been dealt with, and no other was touched.
LEMMA NextVaultOK ==
    ASSUME PipelineOK, step # "settled", NextVault, UNCHANGED stopped,
           pc'[cursor] # "idle" \/ state'[cursor] = "failed",
           \A w \in Vaults \ {cursor} : pc'[w] = pc[w] /\ state'[w] = state[w]
    PROVE  PipelineOK' /\ step' \in {"mkdir", "settled"}
<1>1. NumVaults \in Nat /\ Vaults = 1..NumVaults /\ MaxAttempts \in Nat
  BY SupervisorAssumption
<1>2. cursor \in Vaults /\ cursor' = cursor + 1 /\ cursor' \in 1..(NumVaults + 1)
  BY <1>1 DEF PipelineOK, PipelineInv, NextVault
<1>3. SetupGatesEveryChild'
  BY <1>1, <1>2 DEF PipelineOK, SetupGatesEveryChild
<1>4. PipelineInv'
  BY <1>1, <1>2 DEF PipelineInv, NextVault
<1>5. attempt' \in 0..MaxAttempts /\ step' \in {"mkdir", "settled"}
  BY <1>1 DEF NextVault
<1> QED
  BY <1>2, <1>3, <1>4, <1>5 DEF PipelineOK

LEMMA SettleOK ==
    ASSUME PipelineOK, stopped, Settle, UNCHANGED <<stopped, lifecycleVars>>
    PROVE  PipelineOK'
<1>1. MaxAttempts \in Nat
  BY SupervisorAssumption
<1> QED
  BY <1>1 DEF Settle, PipelineOK, PipelineInv, SetupGatesEveryChild, lifecycleVars

\* A helper is launched or relaunched for the vault in hand, or slept for.
LEMMA StepOK ==
    ASSUME PipelineOK, step # "settled", step' # "settled", UNCHANGED <<cursor, lifecycleVars>>,
           attempt' \in 0..MaxAttempts,
           step' \in {"setupBackoff", "configBackoff"} => attempt' < MaxAttempts
    PROVE  PipelineOK'
  BY DEF PipelineOK, PipelineInv, SetupGatesEveryChild, lifecycleVars

LEMMA GiveUpOK ==
    ASSUME ChildOK, PipelineOK, step # "settled", GiveUp, UNCHANGED stopped
    PROVE  ChildOK' /\ PipelineOK' /\ step' \in {"mkdir", "settled"}
<1>1. cursor \in Vaults
  BY DEF PipelineOK, PipelineInv
<1>2. /\ ChildOK' /\ pc' = pc /\ state'[cursor] = "failed"
      /\ \A w \in Vaults \ {cursor} : state'[w] = state[w]
  BY <1>1, MarkFailedOK DEF GiveUp
<1> QED
  BY <1>2, NextVaultOK DEF GiveUp

LEMMA StartOK ==
    ASSUME ChildOK, PipelineOK, step # "settled", StartChild, UNCHANGED stopped
    PROVE  ChildOK' /\ PipelineOK' /\ step' \in {"mkdir", "settled"}
<1>1. CASE stopped
  BY <1>1, SettleOK, ChildFrame DEF StartChild, Settle
<1>2. CASE ~stopped
  <2>1. Start(cursor) /\ NextVault /\ cursor \in Vaults
    BY <1>2 DEF StartChild, PipelineOK, PipelineInv
  <2>2. /\ ChildOK' /\ pc'[cursor] # "idle"
        /\ \A w \in Vaults \ {cursor} : pc'[w] = pc[w] /\ state'[w] = state[w]
    BY <2>1, StartChildOK DEF Start
  <2> QED
    BY <2>1, <2>2, NextVaultOK
<1> QED
  BY <1>1, <1>2

LEMMA ConfigureOK ==
    ASSUME ChildOK, PipelineOK, step # "settled", Configure, UNCHANGED stopped
    PROVE  ChildOK' /\ PipelineOK' /\ step' \in {"mkdir", "settled", "config"}
<1>1. CASE stopped
  BY <1>1, SettleOK, ChildFrame DEF Configure, Settle
<1>2. CASE ~stopped /\ SyncConfigured
  <2>1. Launch("config") /\ 1 \in 0..MaxAttempts
    BY <1>2, SupervisorAssumption DEF Configure
  <2> QED
    BY <2>1, StepOK, ChildFrame DEF Launch
<1>3. CASE ~stopped /\ ~SyncConfigured
  BY <1>3, StartOK DEF Configure
<1> QED
  BY <1>1, <1>2, <1>3

Steps == {"mkdir", "status", "setup", "setupBackoff", "config", "configBackoff", "settled"}

LEMMA PipelineStepOK ==
    ASSUME ChildOK, PipelineOK, step \in Steps, Pipeline
    PROVE  /\ ChildOK' /\ PipelineOK' /\ step' \in Steps
           /\ step # "settled" /\ UNCHANGED <<stopped, stopTask>>
<1>0. MaxAttempts \in Nat /\ 1 \in 0..MaxAttempts /\ attempt \in 0..MaxAttempts
  BY SupervisorAssumption DEF PipelineOK
<1>1. CASE MkdirEnds
  <2>1. step = "mkdir" /\ UNCHANGED <<stopped, stopTask>>
    BY <1>1 DEF MkdirEnds
  <2>2. CASE GiveUp
    BY <2>1, <2>2, GiveUpOK DEF Steps
  <2>3. CASE stopped /\ Settle /\ UNCHANGED lifecycleVars
    BY <2>1, <2>3, SettleOK, ChildFrame DEF Settle, Steps
  <2>4. CASE Launch("status")
    BY <1>0, <2>1, <2>4, StepOK, ChildFrame DEF Launch, Steps
  <2> QED
    BY <1>1, <2>2, <2>3, <2>4, <2>1 DEF MkdirEnds
<1>2. CASE StatusEnds
  <2>1. step = "status" /\ UNCHANGED <<stopped, stopTask>>
    BY <1>2 DEF StatusEnds
  <2>2. CASE Configure
    BY <2>1, <2>2, ConfigureOK DEF Steps
  <2>3. CASE stopped /\ Settle /\ UNCHANGED lifecycleVars
    BY <2>1, <2>3, SettleOK, ChildFrame DEF Settle, Steps
  <2>4. CASE Launch("setup")
    BY <1>0, <2>1, <2>4, StepOK, ChildFrame DEF Launch, Steps
  <2> QED
    BY <1>2, <2>2, <2>3, <2>4, <2>1 DEF StatusEnds
<1>3. CASE HelperSucceeds
  <2>1. step \in {"setup", "config"} /\ UNCHANGED <<stopped, stopTask>>
    BY <1>3 DEF HelperSucceeds
  <2> QED
    BY <1>3, <2>1, ConfigureOK, StartOK DEF HelperSucceeds, Steps
<1>4. CASE HelperFails
  <2>1. step \in {"setup", "config"} /\ UNCHANGED <<stopped, stopTask>>
    BY <1>4 DEF HelperFails
  <2>2. CASE GiveUp
    BY <2>1, <2>2, GiveUpOK DEF Steps
  <2>3. CASE /\ step' \in {"setupBackoff", "configBackoff"} /\ attempt < MaxAttempts
             /\ UNCHANGED <<cursor, attempt, lifecycleVars>>
    BY <1>0, <2>1, <2>3, StepOK, ChildFrame DEF Steps
  <2> QED
    BY <1>4, <2>1, <2>2, <2>3 DEF HelperFails
<1>5. CASE HelperRetries
  <2>1. /\ step \in {"setupBackoff", "configBackoff"}
        /\ UNCHANGED <<stopped, stopTask, lifecycleVars>>
    BY <1>5 DEF HelperRetries
  <2>2. CASE stopped /\ Settle
    BY <2>1, <2>2, SettleOK, ChildFrame DEF Settle, Steps
  <2>3. CASE ~stopped
    <3>1. step' \in {"setup", "config"} /\ attempt' = attempt + 1 /\ UNCHANGED cursor
      BY <1>5, <2>3 DEF HelperRetries
    <3>2. attempt' \in 0..MaxAttempts
      BY <1>0, <2>1, <3>1 DEF PipelineOK, PipelineInv
    <3> QED
      BY <2>1, <3>1, <3>2, StepOK, ChildFrame DEF Steps
  <2> QED
    BY <1>5, <2>2, <2>3 DEF HelperRetries
<1> QED
  BY <1>1, <1>2, <1>3, <1>4, <1>5 DEF Pipeline, HelperEnds

-----------------------------------------------------------------------------
(* The invariant.                                                          *)

StopOK == stopped \in BOOLEAN /\ stopTask \in [Vaults -> {"none", "grace", "killed", "done"}]
          /\ StopInv

LEMMA Parts ==
    /\ IInv <=> ChildOK /\ PipelineOK /\ step \in Steps /\ StopOK
    /\ IInv' <=> ChildOK' /\ PipelineOK' /\ step' \in Steps /\ StopOK'
  BY DEF IInv, TypeOK, ChildOK, PipelineOK, Steps, StopOK

LEMMA InitInv == SupervisorInit => IInv
<1> SUFFICES ASSUME SupervisorInit PROVE IInv
  OBVIOUS
<1>0. NumVaults \in Nat /\ Vaults = 1..NumVaults /\ MaxAttempts \in Nat
  BY SupervisorAssumption
<1>1. ChildOK /\ StopOK
  BY DEF SupervisorInit, Init, ChildOK, LifecycleTypeOK, ChildInv, StopOK, StopInv
<1>2. PipelineInv /\ cursor \in 1..(NumVaults + 1) /\ attempt \in 0..MaxAttempts
  BY <1>0 DEF SupervisorInit, PipelineInv
<1>3. SetupGatesEveryChild
  BY <1>0 DEF SupervisorInit, Init, SetupGatesEveryChild
<1>4. step \in Steps
  BY DEF SupervisorInit, Steps
<1> QED
  BY <1>1, <1>2, <1>3, <1>4, Parts DEF PipelineOK

\* A step that moves neither the pipeline nor a vault across the line between
\* not started and started leaves the pipeline's invariant alone.
LEMMA PipelineFrame ==
    ASSUME PipelineOK, step \in Steps, UNCHANGED <<cursor, step, attempt>>, PipelineInv',
           \A v \in Vaults : \/ pc'[v] = pc[v] /\ state'[v] = state[v]
                             \/ pc[v] # "idle" /\ pc'[v] # "idle"
    PROVE  PipelineOK' /\ step' \in Steps
  BY DEF initVars, PipelineOK, PipelineInv, SetupGatesEveryChild

LEMMA StepInv == IInv /\ [SupervisorNext]_vars => IInv'
<1> SUFFICES ASSUME IInv, [SupervisorNext]_vars PROVE IInv'
  OBVIOUS
<1>0. ChildOK /\ PipelineOK /\ step \in Steps /\ StopOK
  BY Parts
<1>1. CASE Pipeline
  <2>1. /\ ChildOK' /\ PipelineOK' /\ step' \in Steps
        /\ step # "settled" /\ UNCHANGED <<stopped, stopTask>>
    BY <1>0, <1>1, PipelineStepOK
  <2>2. \A v \in Vaults : stopTask[v] = "none"
    BY <1>0, <2>1 DEF StopOK, StopInv
  <2>3. StopOK'
    BY <1>0, <2>1, <2>2 DEF StopOK, StopInv
  <2> QED
    BY <2>1, <2>3, Parts
<1>2. CASE Stop
  <2>1. UNCHANGED <<lifecycleVars, initVars, stopTask>> /\ stopped' = TRUE
    BY <1>2 DEF Stop
  <2>5. UNCHANGED <<cursor, step, attempt>>
    BY <2>1 DEF initVars
  <2>2. pc' = pc /\ state' = state /\ ChildOK'
    BY <1>0, <2>1, ChildFrame DEF lifecycleVars
  <2>3. PipelineOK' /\ step' \in Steps
    <3>1. PipelineInv'
      BY <1>0, <2>1, <2>2, <2>5 DEF PipelineOK, PipelineInv
    <3>2. \A w \in Vaults : \/ pc'[w] = pc[w] /\ state'[w] = state[w]
                            \/ pc[w] # "idle" /\ pc'[w] # "idle"
      BY <1>0, <2>1, <2>2, <2>5
    <3> QED
      BY <1>0, <2>1, <2>2, <2>5, <3>1, <3>2, PipelineFrame
  <2>4. StopOK'
    BY <1>0, <1>2, <2>1, <2>2 DEF Stop, StopOK, StopInv, LoopEnded
  <2> QED
    BY <2>2, <2>3, <2>4, Parts
<1>3. CASE StopChildren \/ \E v \in Vaults : StopGraceElapses(v) \/ StopTaskEnds(v)
  <2>1. pc' = pc /\ state' = state /\ ChildOK'
    BY <1>0, <1>3, SignalsOK, ChildFrame
       DEF StopChildren, StopGraceElapses, StopTaskEnds, lifecycleVars
  <2>2. UNCHANGED <<cursor, step, attempt>> /\ UNCHANGED stopped
    BY <1>3 DEF StopChildren, StopGraceElapses, StopTaskEnds, initVars
  <2>3. PipelineOK' /\ step' \in Steps
    <3>1. PipelineInv'
      BY <1>0, <2>1, <2>2 DEF PipelineOK, PipelineInv
    <3>2. \A w \in Vaults : \/ pc'[w] = pc[w] /\ state'[w] = state[w]
                            \/ pc[w] # "idle" /\ pc'[w] # "idle"
      BY <1>0, <2>1, <2>2
    <3> QED
      BY <1>0, <2>1, <2>2, <3>1, <3>2, PipelineFrame
  <2>4. StopOK'
    <3>1. CASE StopChildren
      BY <1>0, <2>1, <2>2, <3>1 DEF StopChildren, StopOK, StopInv
    <3>2. CASE \E v \in Vaults : StopGraceElapses(v) \/ StopTaskEnds(v)
      BY <1>0, <2>1, <2>2, <3>2
         DEF StopGraceElapses, StopTaskEnds, StopOK, StopInv, LoopEnded
    <3> QED
      BY <1>3, <3>1, <3>2
  <2> QED
    BY <2>1, <2>3, <2>4, Parts
<1>4. CASE \E v \in Vaults : ChildRuns(v)
  <2>1. PICK v \in Vaults : Runs(v) /\ UNCHANGED supervisorVars
    BY <1>4 DEF ChildRuns
  <2>2. /\ ChildOK' /\ ~LoopEnded(v) /\ pc'[v] # "idle"
        /\ \A w \in Vaults \ {v} : pc'[w] = pc[w] /\ state'[w] = state[w]
    BY <1>0, <2>1, RunsOK
  <2>3. UNCHANGED <<cursor, step, attempt>> /\ UNCHANGED stopped /\ UNCHANGED stopTask
    BY <2>1 DEF supervisorVars, initVars
  <2>4. PipelineOK' /\ step' \in Steps
    <3>1. PipelineInv'
      BY <1>0, <2>2, <2>3 DEF PipelineOK, PipelineInv
    <3>2. \A w \in Vaults : \/ pc'[w] = pc[w] /\ state'[w] = state[w]
                            \/ pc[w] # "idle" /\ pc'[w] # "idle"
      BY <1>0, <2>2, <2>3 DEF LoopEnded
    <3> QED
      BY <1>0, <2>2, <2>3, <3>1, <3>2, PipelineFrame
  <2>5. StopOK'
    BY <1>0, <2>2, <2>3 DEF StopOK, StopInv, LoopEnded
  <2> QED
    BY <2>2, <2>4, <2>5, Parts
<1>5. CASE UNCHANGED vars
  <2>1. /\ UNCHANGED lifecycleVars /\ UNCHANGED <<cursor, step, attempt>>
        /\ UNCHANGED stopped /\ UNCHANGED stopTask
    BY <1>5 DEF vars, supervisorVars, lifecycleVars, initVars
  <2>2. pc' = pc /\ state' = state /\ ChildOK'
    BY <1>0, <2>1, ChildFrame DEF lifecycleVars
  <2>3. PipelineOK' /\ step' \in Steps
    <3>1. PipelineInv'
      BY <1>0, <2>1, <2>2 DEF PipelineOK, PipelineInv
    <3>2. \A w \in Vaults : \/ pc'[w] = pc[w] /\ state'[w] = state[w]
                            \/ pc[w] # "idle" /\ pc'[w] # "idle"
      BY <1>0, <2>1, <2>2
    <3> QED
      BY <1>0, <2>1, <2>2, <3>1, <3>2, PipelineFrame
  <2>4. StopOK'
    BY <1>0, <2>1, <2>2 DEF StopOK, StopInv, LoopEnded
  <2> QED
    BY <2>2, <2>3, <2>4, Parts
<1> QED
  BY <1>1, <1>2, <1>3, <1>4, <1>5 DEF SupervisorNext

-----------------------------------------------------------------------------
(* The theorems.                                                           *)

\* The inductive invariant holds in every reachable state.
THEOREM Invariance == SupervisorSpec => []IInv
  BY InitInv, StepInv, PTL DEF SupervisorSpec

\* Type correctness of the supervisor and of all its vaults.
THEOREM TypeCorrect == SupervisorSpec => []TypeOK
<1>1. IInv => TypeOK
  BY DEF IInv
<1> QED
  BY <1>1, Invariance, PTL

\* When stop() resolves no process and no loop of any vault is left.
THEOREM StopIsQuiet == SupervisorSpec => []QuietOnceStopped
<1>1. IInv => QuietOnceStopped
  BY DEF IInv, ChildInv, StopInv, QuietOnceStopped, StopResolved, HelperRuns, LoopEnded
<1> QED
  BY <1>1, Invariance, PTL

\* No child runs before its vault has been set up, and no vault is forgotten.
THEOREM SetupComesFirst == SupervisorSpec => []SetupGatesEveryChild
<1>1. IInv => SetupGatesEveryChild
  BY DEF IInv
<1> QED
  BY <1>1, Invariance, PTL

\* /readyz is 200 only when every vault has a live, uncondemned attempt.
THEOREM ReadinessIsHonest == SupervisorSpec => []ReadyMeansServed
<1>1. IInv => ReadyMeansServed
  <2> SUFFICES ASSUME IInv, isAllRunning PROVE step = "settled"
    BY DEF IInv, ChildInv, isAllRunning, ReadyMeansServed
  <2>1. \A v \in Vaults : pc[v] = "attempt"
    BY DEF IInv, ChildInv, isAllRunning
  <2>2. cursor \notin Vaults
    BY <2>1, SupervisorAssumption DEF IInv, SetupGatesEveryChild
  <2> QED
    BY <2>2 DEF IInv, PipelineInv
<1> QED
  BY <1>1, Invariance, PTL

\* Once stop() is called the pipeline launches no helper and starts no vault: what it
\* does is give up, settle, or wait out the command in hand.
THEOREM StopLaunchesNothing == SupervisorSpec => NothingLaunchedAfterStop
<1> DEFINE Quiet == stopped => /\ HelperRuns' => HelperRuns /\ step' = step /\ attempt' = attempt
                               /\ \A v \in Vaults : pc[v] = "idle" => pc'[v] = "idle"
<1>1. IInv /\ [SupervisorNext]_vars => [Quiet]_vars
  <2> SUFFICES ASSUME IInv, SupervisorNext, stopped PROVE Quiet
    OBVIOUS
  <2>1. CASE Pipeline
    <3>1. UNCHANGED pc
      BY <2>1 DEF Pipeline, HelperEnds, MkdirEnds, StatusEnds, HelperSucceeds, HelperFails,
                  HelperRetries, Configure, StartChild, GiveUp, MarkFailed, lifecycleVars
    <3>2. step' \in {"settled", "setupBackoff", "configBackoff"}
      BY <2>1 DEF Pipeline, HelperEnds, MkdirEnds, StatusEnds, HelperSucceeds, HelperFails,
                  HelperRetries, Configure, StartChild, GiveUp, NextVault, Settle
    <3> QED
      BY <3>1, <3>2 DEF HelperRuns
  <2>2. CASE Stop \/ StopChildren \/ \E v \in Vaults : StopGraceElapses(v) \/ StopTaskEnds(v)
    BY <2>2 DEF Stop, StopChildren, StopGraceElapses, StopTaskEnds, RequestStop, Kill,
                lifecycleVars, initVars, HelperRuns
  <2>3. CASE \E v \in Vaults : ChildRuns(v)
    <3>1. PICK v \in Vaults : Runs(v) /\ UNCHANGED supervisorVars
      BY <2>3 DEF ChildRuns
    <3>2. ChildOK
      BY DEF IInv, TypeOK, ChildOK
    <3>3. pc[v] # "idle" /\ \A w \in Vaults \ {v} : pc'[w] = pc[w]
      BY <3>1, <3>2, RunsOK DEF LoopEnded
    <3> QED
      BY <3>1, <3>3 DEF supervisorVars, initVars, HelperRuns
  <2> QED
    BY <2>1, <2>2, <2>3 DEF SupervisorNext
<1> QED
  BY <1>1, Invariance, PTL DEF SupervisorSpec, NothingLaunchedAfterStop
=============================================================================
