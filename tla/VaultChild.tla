----------------------------- MODULE VaultChild -----------------------------
(***************************************************************************)
(* One supervised vault: the spawn-monitor-restart loop of `VaultChild`    *)
(* (src/src/obsidian/child.ts), the sync-log watchdog it starts for every  *)
(* attempt (src/src/obsidian/watchdog.ts), the `ob sync` process both look *)
(* at, and the log that process writes.                                    *)
(*                                                                         *)
(* The code keeps instants and only ever compares their differences with a *)
(* configured duration, so an instant is kept here as the AGE it has now,  *)
(* saturated at the duration it is compared with: no comparison of the     *)
(* code can tell a saturated age from a larger one.  Tick is one unit of   *)
(* the monotone clock; a `sleep(d)` is a countdown that may be served late *)
(* but never early.                                                        *)
(* childBackoffDelayUncapped, endWatchdogKeepsPolling,                     *)
(* onStallVerdictAtExit, ReachedLate, RecordActivityForRecovery,           *)
(* StalledBySignal, ResolveLogAtSpawn, GraceElapsesGently,                 *)
(* forceKillIfUnsignalled and ReachedEarly are not the code: each is a     *)
(* plausible bug of the definition it precedes, by which a property is     *)
(* tried.                                                                  *)
(***************************************************************************)
EXTENDS Integers, Functions

CONSTANTS
    StallTimeout,   \* stallTimeoutMs; 0 switches stall detection off
    LogTail,        \* logTail: is the log also tailed into the logger?
    PollInterval,   \* pollIntervalMs
    KillGrace,      \* stallKillGraceMs, between SIGTERM and SIGKILL
    HealthyReset,   \* crashLoop.healthyResetMs
    CrashWindow,    \* crashLoop.windowMs
    StallWindow,    \* stallLoop.windowMs
    MaxCrashes,     \* crashLoop.maxCrashes; 0 means no ceiling
    MaxStalls,      \* stallLoop.maxStalls; 0 means no ceiling
    BackoffInitial, \* backoff.initialMs (the factor is 2)
    BackoffCap,     \* backoff.capMs
    FailureCap,     \* bound: consecutiveFailures saturates here
    SpawnMayThrow   \* may spawner.run throw?  The production one does not

ASSUME ConstantsAssumption ==
    /\ {StallTimeout, MaxCrashes, MaxStalls, KillGrace} \subseteq Nat
    /\ {PollInterval, HealthyReset, CrashWindow, StallWindow,
        BackoffInitial, BackoffCap, FailureCap} \subseteq Nat \ {0}
    /\ LogTail \in BOOLEAN /\ SpawnMayThrow \in BOOLEAN

\* A fact of arithmetic the installed provers do not know.
ASSUME PowersAssumption == \A i \in 0..FailureCap : 2^i \in Nat

VARIABLES
    pc,             \* where the run loop is
    state,          \* status.state
    lastError,      \* status.lastError, by kind
    failures,       \* status.consecutiveFailures
    stopRequested,
    stallReason,    \* has a verdict been recorded for the attempt in flight?
    crashTimes,     \* crashTimes[a]: crashes of age a, for a in the window
    stallTimes,     \* the same for stall kills
    backoffLeft,    \* what is left of the restart backoff
    upFor,          \* age of childStartedAt
    attemptActivity \* attemptActivityAt - childStartedAt, or None
childVars == <<pc, state, lastError, failures, stopRequested, stallReason,
               crashTimes, stallTimes, backoffLeft, upFor, attemptActivity>>

VARIABLES
    proc,           \* the `ob sync` process of the attempt
    signal,         \* the strongest signal it has been sent
    graceLeft       \* countdown of escalateStallKill, or None
procVars == <<proc, signal, graceLeft>>

VARIABLES
    poll,           \* where the poll loop is; "off" without a watchdog handle
    pollLeft,       \* what is left of the poll sleep
    resolved,       \* activePath # null
    observedFor,    \* lastActivityObservedAt - childStartedAt, or None
    silence,        \* age of lastActivityObservedAt (0 while not resolved)
    seen,           \* did the stat in hand differ from the recorded one?
    verdict         \* stallVerdictIssued
watchVars == <<poll, pollLeft, resolved, observedFor, silence, seen, verdict>>

VARIABLES
    logAge,         \* age of the log's mtime
    dirty,          \* written (or replaced) since the watchdog's last stat
    wrote           \* has the child of this attempt written at all?
logVars == <<logAge, dirty, wrote>>

vars == <<childVars, procVars, watchVars, logVars>>

-----------------------------------------------------------------------------
None == -1
Lower(a, b) == IF a < b THEN a ELSE b
Older(age, cap) == IF age < cap THEN age + 1 ELSE age
Countdown(left) == IF left > 0 THEN left - 1 ELSE left

\* Rolling windows.  An instant older than the window is one trimWindow drops.
NoTimes(window) == [a \in 0..window |-> 0]
Push(times) == [times EXCEPT ![0] = @ + 1]
Aged(times) == [a \in DOMAIN times |-> IF a = 0 THEN 0 ELSE times[a - 1]]
Count(times) == FoldFunction(+, 0, times)

\* A configured ceiling (0: none) on a window.
ReachedLate(ceiling, times) == ceiling > 0 /\ Count(times) > ceiling
ReachedEarly(ceiling, times) == ceiling > 0 /\ Count(times) + 1 >= ceiling
Reached(ceiling, times) == ceiling > 0 /\ Count(times) >= ceiling

childBackoffDelayUncapped(index) == BackoffInitial * 2^index
childBackoffDelay(index) == Lower(BackoffInitial * 2^index, BackoffCap)
attemptRecovered(evidence) == evidence >= HealthyReset
Watched == StallTimeout > 0 \/ LogTail

\* The live reading of consecutiveFailures that /healthz and /vaults report.
liveConsecutiveFailures ==
    LET evidence == IF poll # "off" /\ observedFor # None THEN observedFor
                    ELSE IF attemptActivity # None THEN attemptActivity
                    ELSE upFor
    IN  IF pc = "attempt" /\ attemptRecovered(evidence) THEN 0 ELSE failures

Init ==
    /\ pc = "idle" /\ state = "starting" /\ lastError = "none"
    /\ failures = 0 /\ stopRequested = FALSE /\ stallReason = FALSE
    /\ crashTimes = NoTimes(CrashWindow) /\ stallTimes = NoTimes(StallWindow)
    /\ backoffLeft = 0 /\ upFor = 0 /\ attemptActivity = None
    /\ proc = "none" /\ signal = "none" /\ graceLeft = None
    /\ poll = "off" /\ pollLeft = 0 /\ resolved = FALSE /\ observedFor = None
    /\ silence = 0 /\ seen = FALSE /\ verdict = FALSE
    /\ logAge = StallTimeout /\ dirty = FALSE /\ wrote = FALSE

-----------------------------------------------------------------------------
(* The run loop.                                                           *)

\* startWatchdog: a fresh closure whose first poll starts at once.
beginWatchdog ==
    /\ poll' = IF Watched THEN "resolve" ELSE "off"
    /\ pollLeft' = 0 /\ resolved' = FALSE /\ observedFor' = None
    /\ silence' = 0 /\ seen' = FALSE /\ verdict' = FALSE

endWatchdogKeepsPolling ==
    /\ attemptActivity' = IF poll = "off" THEN attemptActivity ELSE observedFor
    /\ UNCHANGED watchVars

\* Stop the poll loop for good and keep its evidence; a no-op without one.
endWatchdog ==
    /\ attemptActivity' = IF poll = "off" THEN attemptActivity ELSE observedFor
    /\ poll' = "off" /\ pollLeft' = 0 /\ resolved' = FALSE
    /\ silence' = 0 /\ seen' = FALSE
    /\ UNCHANGED <<observedFor, verdict>>

\* The rolling stall window: recovery and ordinary crashes leave it alone.
StallWindowAfter(stalled) == IF stalled THEN Push(stallTimes) ELSE stallTimes

\* The recorded verdict classifies the attempt, never how the child died.
StalledBySignal == signal = "kill"
Stalled == stallReason

\* What follows an attempt that ended while no stop was requested.
RecordFailure(evidence, stalled, error) ==
    LET recovered == attemptRecovered(evidence)
        count == Lower((IF recovered THEN 0 ELSE failures) + 1, FailureCap)
        crashes == Push(IF recovered THEN NoTimes(CrashWindow) ELSE crashTimes)
        stalls == StallWindowAfter(stalled)
        crashLoop == Reached(MaxCrashes, crashes)
        stallLoop == Reached(MaxStalls, stalls)
    IN  /\ failures' = count /\ crashTimes' = crashes /\ stallTimes' = stalls
        /\ \/ /\ crashLoop \/ stallLoop
              /\ pc' = "returned" /\ state' = "failed" /\ backoffLeft' = 0
              /\ lastError' = IF crashLoop THEN "crashLoop" ELSE "stallLoop"
           \/ /\ ~crashLoop /\ ~stallLoop
              /\ pc' = "backoff" /\ state' = "starting" /\ lastError' = error
              /\ backoffLeft' = childBackoffDelay(count - 1)

\* The head of the loop: a spawn, a spawn that yields the handle of a process
\* that never ran, or a spawner that throws.
BeginAttempt ==
    /\ upFor' = 0 /\ stallReason' = FALSE /\ attemptActivity' = None
    /\ signal' = "none" /\ graceLeft' = None
    /\ dirty' = FALSE /\ wrote' = FALSE
    /\ UNCHANGED <<stopRequested, logAge>>
    /\ \/ /\ pc' = "attempt" /\ state' = "running" /\ backoffLeft' = 0
          /\ proc' \in {"alive", "exited"}
          /\ beginWatchdog
          /\ UNCHANGED <<lastError, failures, crashTimes, stallTimes>>
       \/ /\ SpawnMayThrow
          /\ RecordFailure(0, FALSE, "threw")
          /\ proc' = "none"
          /\ UNCHANGED watchVars

LoopReturns ==
    /\ pc' = "returned" /\ backoffLeft' = 0
    /\ UNCHANGED <<state, lastError, failures, stopRequested, stallReason,
                   crashTimes, stallTimes, upFor, attemptActivity>>
    /\ UNCHANGED <<procVars, watchVars, logVars>>

start ==
    /\ pc = "idle" /\ state # "failed"
    /\ IF stopRequested THEN LoopReturns ELSE BeginAttempt

\* The backoff sleep raced with the stop signal, then the loop condition.
BackoffEnds ==
    /\ pc = "backoff" /\ (backoffLeft = 0 \/ stopRequested)
    /\ IF stopRequested THEN LoopReturns ELSE BeginAttempt

\* `exited` has resolved and both streams have been flushed.
AttemptEnds ==
    /\ pc = "attempt" /\ proc = "exited"
    /\ endWatchdog
    /\ stallReason' = FALSE
    /\ UNCHANGED <<stopRequested, upFor, procVars, logVars>>
    /\ \/ /\ stopRequested
          /\ pc' = "returned" /\ state' = "starting"
          /\ UNCHANGED <<lastError, failures, crashTimes, stallTimes, backoffLeft>>
       \/ /\ ~stopRequested
          /\ RecordFailure(IF attemptActivity' # None THEN attemptActivity' ELSE upFor,
                           Stalled,
                           IF Stalled THEN "stall"
                           ELSE IF lastError = "threw" THEN "threw" ELSE "exited")

-----------------------------------------------------------------------------
(* Calls of the supervisor.                                                *)

markFailed ==
    /\ pc = "idle" /\ ~stopRequested /\ state # "failed"
    /\ state' = "failed" /\ lastError' = "setup"
    /\ UNCHANGED <<pc, failures, stopRequested, stallReason, crashTimes, stallTimes,
                   backoffLeft, upFor, attemptActivity, procVars, watchVars, logVars>>

requestStop ==
    /\ ~stopRequested /\ stopRequested' = TRUE
    /\ endWatchdog
    /\ signal' = IF proc = "alive" /\ signal = "none" THEN "term" ELSE signal
    /\ UNCHANGED <<pc, state, lastError, failures, stallReason, crashTimes,
                   stallTimes, backoffLeft, upFor, proc, graceLeft, logVars>>

forceKillIfUnsignalled ==
    /\ stopRequested /\ proc = "alive" /\ signal = "none"
    /\ signal' = "kill"
    /\ UNCHANGED <<childVars, proc, graceLeft, watchVars, logVars>>

\* Sent by Supervisor.stop once its own grace has run out.
forceKill ==
    /\ stopRequested /\ proc = "alive" /\ signal # "kill"
    /\ signal' = "kill"
    /\ UNCHANGED <<childVars, proc, graceLeft, watchVars, logVars>>

-----------------------------------------------------------------------------
(* The process and its log.                                                *)

\* It may exit at any time; only SIGKILL makes it.
ChildExits ==
    /\ proc = "alive" /\ proc' = "exited" /\ graceLeft' = None
    /\ UNCHANGED <<childVars, signal, watchVars, logVars>>

LogWrite ==
    /\ proc = "alive"
    /\ logAge' = 0 /\ dirty' = TRUE /\ wrote' = TRUE
    /\ UNCHANGED <<childVars, procVars, watchVars>>

GraceElapsesGently ==
    /\ graceLeft = 0 /\ proc = "alive"
    /\ signal' = "term" /\ graceLeft' = None
    /\ UNCHANGED <<childVars, proc, watchVars, logVars>>

\* escalateStallKill: the grace elapsed before `exited` resolved.
GraceElapses ==
    /\ graceLeft = 0 /\ proc = "alive"
    /\ signal' = "kill" /\ graceLeft' = None
    /\ UNCHANGED <<childVars, proc, watchVars, logVars>>

-----------------------------------------------------------------------------
(* The poll loop.                                                          *)

PollWakes ==
    /\ poll = "sleep" /\ pollLeft = 0
    /\ poll' = IF resolved THEN "stat" ELSE "resolve"
    /\ UNCHANGED <<pollLeft, resolved, observedFor, silence, seen, verdict>>
    /\ UNCHANGED <<childVars, procVars, logVars>>

PollSleeps == poll' = "sleep" /\ pollLeft' = PollInterval

\* resolveLog finds no candidate, or no sync.log in the best one.
ResolveNothing ==
    /\ poll = "resolve" /\ PollSleeps
    /\ UNCHANGED <<resolved, observedFor, silence, seen, verdict>>
    /\ UNCHANGED <<childVars, procVars, logVars>>

ResolveLogAtSpawn ==
    /\ poll = "resolve" /\ poll' = "stat" /\ resolved' = TRUE
    /\ silence' = 0 /\ observedFor' = 0
    /\ dirty' \in {FALSE, dirty}
    /\ UNCHANGED <<pollLeft, seen, verdict, logAge, wrote, childVars, procVars>>

\* resolveLog commits: the anchor is the wall clock.  The log's stat was taken
\* earlier, so a write may already have made it out of date.
ResolveLog ==
    /\ poll = "resolve" /\ poll' = "stat" /\ resolved' = TRUE
    /\ silence' = 0 /\ observedFor' = upFor
    /\ dirty' \in {FALSE, dirty}
    /\ UNCHANGED <<pollLeft, seen, verdict, logAge, wrote, childVars, procVars>>

StatFails ==
    /\ poll = "stat" /\ PollSleeps
    /\ resolved' = FALSE /\ silence' = 0
    /\ UNCHANGED <<observedFor, seen, verdict, childVars, procVars, logVars>>

\* The stat's view of the file is fixed here, before its continuation runs.
PollStats ==
    /\ poll = "stat" /\ poll' = "observe"
    /\ seen' = dirty /\ dirty' = FALSE
    /\ UNCHANGED <<pollLeft, resolved, observedFor, silence, verdict, logAge, wrote>>
    /\ UNCHANGED <<childVars, procVars>>

onStallVerdictAtExit ==
    /\ verdict' = TRUE /\ stallReason' = TRUE
    /\ signal' = IF proc = "alive" /\ signal = "none" THEN "term" ELSE signal
    /\ graceLeft' = IF proc = "alive" THEN KillGrace ELSE None
    /\ UNCHANGED <<pc, state, lastError, failures, stopRequested, crashTimes,
                   stallTimes, backoffLeft, upFor, attemptActivity, proc>>

\* onStallVerdict, called synchronously from evaluateStall.
onStallVerdict ==
    /\ verdict' = TRUE /\ stallReason' = TRUE
    /\ state' = "starting" /\ lastError' = "stall"
    /\ signal' = IF proc = "alive" /\ signal = "none" THEN "term" ELSE signal
    /\ graceLeft' = IF proc = "alive" THEN KillGrace ELSE None
    /\ UNCHANGED <<pc, failures, stopRequested, crashTimes, stallTimes, backoffLeft,
                   upFor, attemptActivity, proc>>

evaluateStall ==
    /\ PollSleeps
    /\ IF StallTimeout > 0 /\ ~verdict /\ silence >= StallTimeout
       THEN onStallVerdict
       ELSE UNCHANGED <<verdict, childVars, procVars>>

\* A changed mtime or inode is activity, as of the clock that observes it.
RecordActivityForRecovery == silence' = silence /\ observedFor' = upFor
RecordActivity == silence' = 0 /\ observedFor' = upFor

\* The continuation of the stat: record activity, then tail or evaluate.
PollObserves ==
    /\ poll = "observe" /\ seen' = FALSE
    /\ UNCHANGED <<resolved, logVars>>
    /\ \/ /\ seen
          /\ RecordActivity
          /\ IF LogTail THEN poll' = "tail" /\ UNCHANGED pollLeft ELSE PollSleeps
          /\ UNCHANGED <<verdict, childVars, procVars>>
       \/ /\ ~seen /\ LogTail /\ poll' = "tail"
          /\ UNCHANGED <<pollLeft, silence, observedFor, verdict, childVars, procVars>>
       \/ /\ ~seen /\ ~LogTail /\ evaluateStall
          /\ UNCHANGED <<silence, observedFor>>

\* The tail's reads are over; nothing was re-read about the log's activity.
TailEnds ==
    /\ poll = "tail" /\ evaluateStall
    /\ UNCHANGED <<resolved, observedFor, silence, seen, logVars>>

-----------------------------------------------------------------------------
Tick ==
    /\ upFor' = IF pc = "attempt" THEN Older(upFor, HealthyReset) ELSE upFor
    /\ silence' = IF resolved THEN Older(silence, StallTimeout) ELSE silence
    /\ logAge' = Older(logAge, StallTimeout)
    /\ backoffLeft' = Countdown(backoffLeft)
    /\ pollLeft' = Countdown(pollLeft)
    /\ graceLeft' = Countdown(graceLeft)
    /\ crashTimes' = Aged(crashTimes) /\ stallTimes' = Aged(stallTimes)
    /\ UNCHANGED <<pc, state, lastError, failures, stopRequested, stallReason,
                   attemptActivity, proc, signal, poll, resolved, observedFor, seen,
                   verdict, dirty, wrote>>

Poll == PollWakes \/ ResolveNothing \/ ResolveLog \/ StatFails \/ PollStats
        \/ PollObserves \/ TailEnds

Next ==
    \/ start \/ BackoffEnds \/ AttemptEnds
    \/ markFailed \/ requestStop \/ forceKill
    \/ ChildExits \/ LogWrite \/ GraceElapses
    \/ Poll
    \/ Tick

(***************************************************************************)
(* Fairness.  Timers are served and file operations complete; the streams  *)
(* of a dead process close; a process sent SIGKILL dies; Supervisor.stop   *)
(* always follows an unanswered SIGTERM with forceKill.  Nothing makes the *)
(* process exit or write of its own accord, and nothing makes the          *)
(* supervisor call start, markFailed or requestStop.                       *)
(***************************************************************************)
Fairness ==
    /\ WF_vars(Tick) /\ WF_vars(Poll)
    /\ WF_vars(BackoffEnds) /\ WF_vars(AttemptEnds) /\ WF_vars(GraceElapses)
    /\ WF_vars(forceKill) /\ WF_vars(signal = "kill" /\ ChildExits)

Spec == Init /\ [][Next]_vars
FairSpec == Spec /\ Fairness

-----------------------------------------------------------------------------
(* Properties.                                                             *)

LoopTypeOK ==
    /\ pc \in {"idle", "attempt", "backoff", "returned"}
    /\ state \in {"starting", "running", "failed"}
    /\ lastError \in {"none", "setup", "exited", "threw", "stall", "crashLoop", "stallLoop"}
    /\ failures \in 0..FailureCap
    /\ crashTimes \in [0..CrashWindow -> Nat] /\ stallTimes \in [0..StallWindow -> Nat]
    /\ backoffLeft \in 0..BackoffCap
    /\ upFor \in 0..HealthyReset /\ attemptActivity \in {None} \cup (0..HealthyReset)

ProcTypeOK ==
    /\ proc \in {"none", "alive", "exited"} /\ signal \in {"none", "term", "kill"}
    /\ graceLeft \in {None} \cup (0..KillGrace)

WatchTypeOK ==
    /\ poll \in {"off", "sleep", "resolve", "stat", "observe", "tail"}
    /\ pollLeft \in 0..PollInterval
    /\ observedFor \in {None} \cup (0..HealthyReset)
    /\ silence \in 0..StallTimeout

LogTypeOK == logAge \in 0..StallTimeout

FlagsOK ==
    /\ stopRequested \in BOOLEAN /\ stallReason \in BOOLEAN
    /\ resolved \in BOOLEAN /\ seen \in BOOLEAN /\ verdict \in BOOLEAN
    /\ dirty \in BOOLEAN /\ wrote \in BOOLEAN

\* Every variable ranges over what the code can hold.
TypeOK == LoopTypeOK /\ ProcTypeOK /\ WatchTypeOK /\ LogTypeOK /\ FlagsOK

\* At most one process, and none that the loop does not own: a live process
\* belongs to the attempt in flight, and an armed SIGKILL escalation to a
\* process that is still alive, so it can never hit a replacement.
OneOwnedProcess ==
    /\ proc = "alive" => pc = "attempt"
    /\ graceLeft # None => proc = "alive" /\ stallReason
    /\ poll # "off" => pc = "attempt" /\ ~stopRequested

\* Readiness never outlives the verdict or the process's attempt: from the
\* verdict until the replacement is spawned /readyz does not count the vault.
NotReadyOnceCondemned ==
    state = "running" => pc = "attempt" /\ ~stallReason

\* A configured ceiling is never exceeded unnoticed: a window at its ceiling
\* means the vault is failed (and the windows cannot grow again).
CeilingsHold ==
    /\ MaxCrashes > 0 /\ Count(crashTimes) >= MaxCrashes => state = "failed"
    /\ MaxStalls > 0 /\ Count(stallTimes) >= MaxStalls => state = "failed"

\* A child is killed for silence only once it has had one full threshold to
\* itself, and only if its log really was silent for that long, unless it wrote
\* after the last stat of the condemning poll.
KillJustified ==
    [][ ~verdict /\ verdict' =>
        /\ upFor >= Lower(StallTimeout, HealthyReset)
        /\ dirty \/ logAge >= StallTimeout ]_vars

\* An attempt is credited to the stall window exactly when a verdict was issued
\* for it, whatever signal ended it, and no verdict leaks into a later attempt.
StallsCreditedByVerdict ==
    [][ pc = "attempt" /\ pc' # "attempt" /\ ~stopRequested =>
        (Count(stallTimes') = Count(stallTimes) + (IF verdict THEN 1 ELSE 0)) ]_vars

\* Only age empties the stall window: a recovered attempt or an ordinary crash
\* between two stalls never forgives a stall kill.
StallWindowOnlyAges ==
    [][ \A a \in 0..StallWindow : stallTimes'[a] < stallTimes[a] =>
            stallTimes' = Aged(stallTimes) ]_vars

\* Once /healthz has read an attempt as recovered it never takes that back: the
\* live reading stays 0 for the rest of the attempt, and the count restarts at
\* 1 when the attempt fails.
RecoveryIsSticky ==
    [][ pc = "attempt" /\ failures > 0 /\ liveConsecutiveFailures = 0 =>
        \/ pc' = "attempt" /\ liveConsecutiveFailures' = 0
        \/ pc' # "attempt" /\ (stopRequested \/ failures' = 1) ]_vars

\* No process is started once a stop was requested or the vault has failed, and
\* a failed vault stays failed.
NothingStartsAfterTheEnd ==
    [][ stopRequested \/ state = "failed" =>
        /\ proc' = "alive" => proc = "alive"
        /\ state = "failed" => state' = "failed" ]_vars

\* A child that stays silent behind a resolved log is always brought to its end,
\* even if it ignores SIGTERM.
WedgeEnds ==
    StallTimeout > 0 => ~<>[](pc = "attempt" /\ resolved /\ ~dirty /\ ~seen)

\* Once stop is requested the loop returns: no backoff, poll or grace holds it.
StopCompletes == stopRequested ~> pc \in {"idle", "returned"}

\* The loop gives a vault up only at a ceiling that is configured and that its
\* window has reached: short of one, or with none, it is retried until a stop.
GivenUpAtACeiling ==
    [][ pc # "returned" /\ pc' = "returned" /\ ~stopRequested =>
        \/ MaxCrashes > 0 /\ Count(crashTimes') >= MaxCrashes
        \/ MaxStalls > 0 /\ Count(stallTimes') >= MaxStalls ]_vars

(***************************************************************************)
(* The lifecycle promised to the supervisor (ChildLifecycle), of which this *)
(* module is the implementation for a single vault.                        *)
(***************************************************************************)
Of(x) == [v \in {0} |-> x]
Lifecycle == INSTANCE ChildLifecycle WITH
    Vaults <- {0}, pc <- Of(pc), state <- Of(state),
    stopRequested <- Of(stopRequested), condemned <- Of(stallReason),
    proc <- Of(proc), signal <- Of(signal)

\* Clocks, windows, backoffs and the watchdog only ever choose among what the
\* lifecycle allows: its ends are final, a verdict falls at most once on an
\* attempt and never after a stop, and only what was asked for is killed.
ImplementsLifecycle == Lifecycle!Spec

-----------------------------------------------------------------------------
(* What the documentation says and the code does not do.                   *)

\* "A child with no activity since spawn MUST NOT reset [...]
\* consecutiveFailures, however long it stayed alive."
SilentAttemptNeverResets ==
    [][ pc = "attempt" /\ pc' # "attempt" /\ ~stopRequested /\ ~wrote
        /\ observedFor # None => failures' >= failures ]_vars

\* "The watchdog MUST NOT poll while the vault has no running child.  It MUST
\* stop when the child exits": then no verdict falls on an exited child.
VerdictOnLiveChild == [][~verdict /\ verdict' => proc = "alive"]_vars
=============================================================================
