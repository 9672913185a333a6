--------------------------- MODULE ChildLifecycle ---------------------------
(***************************************************************************)
(* What a set of supervised vaults promises its supervisor, without the    *)
(* clocks, windows, backoffs and watchdogs behind it: the lifecycle of     *)
(* every `VaultChild` (src/src/obsidian/child.ts) and of its process.      *)
(* VaultChild implements it for one vault; Supervisor composes many.       *)
(* CondemnQuietly is not part of it: it is a plausible bug, by which the   *)
(* properties of Supervisor are tried.                                     *)
(***************************************************************************)
EXTENDS Integers

CONSTANT Vaults

VARIABLES
    pc,            \* where the run loop of a vault is
    state,         \* status.state
    stopRequested,
    condemned,     \* stallReason # null: a verdict fell on the attempt
    proc,          \* the process of the attempt
    signal         \* the strongest signal it has been sent
lifecycleVars == <<pc, state, stopRequested, condemned, proc, signal>>

Init ==
    /\ pc = [v \in Vaults |-> "idle"] /\ state = [v \in Vaults |-> "starting"]
    /\ stopRequested = [v \in Vaults |-> FALSE]
    /\ condemned = [v \in Vaults |-> FALSE]
    /\ proc = [v \in Vaults |-> "none"] /\ signal = [v \in Vaults |-> "none"]

\* A failed attempt is retried after a backoff, or meets a ceiling.
FailAttempt(v) ==
    \/ pc' = [pc EXCEPT ![v] = "backoff"] /\ state' = [state EXCEPT ![v] = "starting"]
    \/ pc' = [pc EXCEPT ![v] = "returned"] /\ state' = [state EXCEPT ![v] = "failed"]

\* The head of the loop: a spawn, or a spawner that throws.
BeginAttempt(v) ==
    /\ signal' = [signal EXCEPT ![v] = "none"]
    /\ condemned' = [condemned EXCEPT ![v] = FALSE]
    /\ UNCHANGED stopRequested
    /\ \/ /\ pc' = [pc EXCEPT ![v] = "attempt"]
          /\ state' = [state EXCEPT ![v] = "running"]
          /\ \E p \in {"alive", "exited"} : proc' = [proc EXCEPT ![v] = p]
       \/ FailAttempt(v) /\ proc' = [proc EXCEPT ![v] = "none"]

LoopReturns(v) ==
    /\ pc' = [pc EXCEPT ![v] = "returned"]
    /\ UNCHANGED <<state, stopRequested, condemned, proc, signal>>

LoopTurns(v) == IF stopRequested[v] THEN LoopReturns(v) ELSE BeginAttempt(v)

Start(v) == pc[v] = "idle" /\ state[v] # "failed" /\ LoopTurns(v)
Retry(v) == pc[v] = "backoff" /\ LoopTurns(v)

EndAttempt(v) ==
    /\ pc[v] = "attempt" /\ proc[v] = "exited"
    /\ condemned' = [condemned EXCEPT ![v] = FALSE]
    /\ UNCHANGED <<stopRequested, proc, signal>>
    /\ IF stopRequested[v]
       THEN pc' = [pc EXCEPT ![v] = "returned"] /\ state' = [state EXCEPT ![v] = "starting"]
       ELSE FailAttempt(v)

MarkFailed(v) ==
    /\ pc[v] = "idle"
    /\ state' = [state EXCEPT ![v] = "failed"]
    /\ UNCHANGED <<pc, stopRequested, condemned, proc, signal>>

Terminated(v) == IF proc[v] = "alive" /\ signal[v] = "none" THEN "term" ELSE signal[v]

\* A stop of several vaults is one step: the supervisor asks all of them before
\* it waits for any.
RequestStop(set) ==
    /\ stopRequested' = [v \in Vaults |-> v \in set \/ stopRequested[v]]
    /\ signal' = [v \in Vaults |-> IF v \in set THEN Terminated(v) ELSE signal[v]]
    /\ UNCHANGED <<pc, state, condemned, proc>>

Kill(v) ==
    /\ signal' = [signal EXCEPT ![v] = IF proc[v] = "alive" THEN "kill" ELSE @]
    /\ UNCHANGED <<pc, state, stopRequested, condemned, proc>>

CondemnQuietly(v) ==
    /\ pc[v] = "attempt" /\ ~condemned[v] /\ ~stopRequested[v]
    /\ condemned' = [condemned EXCEPT ![v] = TRUE]
    /\ signal' = [signal EXCEPT ![v] = Terminated(v)]
    /\ UNCHANGED <<pc, state, stopRequested, proc>>

\* The stall watchdog's verdict: at most one for an attempt, none after a stop.
Condemn(v) ==
    /\ pc[v] = "attempt" /\ ~condemned[v] /\ ~stopRequested[v]
    /\ condemned' = [condemned EXCEPT ![v] = TRUE]
    /\ state' = [state EXCEPT ![v] = "starting"]
    /\ signal' = [signal EXCEPT ![v] = Terminated(v)]
    /\ UNCHANGED <<pc, stopRequested, proc>>

Escalate(v) == condemned[v] /\ proc[v] = "alive" /\ Kill(v)

Exit(v) ==
    /\ proc[v] = "alive" /\ proc' = [proc EXCEPT ![v] = "exited"]
    /\ UNCHANGED <<pc, state, stopRequested, condemned, signal>>

\* What a vault does on its own once it has been started ...
Runs(v) == Retry(v) \/ EndAttempt(v) \/ Condemn(v) \/ Escalate(v) \/ Exit(v)
\* ... and what its supervisor has it do.
Called(v) == Start(v) \/ MarkFailed(v) \/ RequestStop({v}) \/ (stopRequested[v] /\ Kill(v))

Next == \E v \in Vaults : Runs(v) \/ Called(v)

Spec == Init /\ [][Next]_lifecycleVars
=============================================================================
