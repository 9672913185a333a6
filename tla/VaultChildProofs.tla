-------------------------- MODULE VaultChildProofs --------------------------
(***************************************************************************)
(* Theorems about VaultChild, for every value of its constants: the type   *)
(* and safety invariant of the run loop with its watchdog, the ceilings on *)
(* its windows (which needs what Count computes), its action properties,   *)
(* and that it implements the lifecycle its supervisor relies on.          *)
(***************************************************************************)
EXTENDS VaultChild, Induction

\* Where the poll loop is says what it knows: nothing once it is off, a resolved
\* log while it stats or tails, and a difference in hand only between a stat and
\* its continuation.
PollInv ==
    /\ poll = "off" => ~resolved /\ ~seen /\ silence = 0
    /\ poll \in {"stat", "observe", "tail"} => resolved
    /\ seen => poll = "observe"

\* The stall clock never runs ahead of the truth: unless a write is still to be
\* noticed, the log has been silent for at least as long as the clock says, and
\* the attempt has lasted at least as long.
SilenceInv ==
    /\ resolved /\ ~dirty /\ ~seen => logAge >= silence
    /\ upFor >= Lower(silence, HealthyReset)

\* A failed vault has no attempt in flight and none on its way, and a recorded
\* stall belongs to the attempt in flight, whose verdict it is.
AttemptInv ==
    /\ state = "failed" => pc \in {"idle", "returned"}
    /\ stallReason => verdict /\ pc = "attempt"

IInv == TypeOK /\ OneOwnedProcess /\ NotReadyOnceCondemned
        /\ AttemptInv /\ PollInv /\ SilenceInv

-----------------------------------------------------------------------------
LEMMA ConstantTypes ==
    /\ StallTimeout \in Nat /\ MaxCrashes \in Nat /\ MaxStalls \in Nat /\ KillGrace \in Nat
    /\ PollInterval \in Nat /\ HealthyReset \in Nat /\ CrashWindow \in Nat
    /\ StallWindow \in Nat /\ BackoffInitial \in Nat /\ BackoffCap \in Nat
    /\ FailureCap \in Nat /\ HealthyReset > 0 /\ FailureCap > 0
  BY ConstantsAssumption DEF ConstantsAssumption

LEMMA DelayType ==
    ASSUME NEW i \in 0..FailureCap
    PROVE  childBackoffDelay(i) \in 0..BackoffCap
  BY ConstantTypes, PowersAssumption
     DEF childBackoffDelay, Lower

\* The three operations on a rolling window keep its type.
LEMMA WindowType ==
    ASSUME NEW w \in Nat, NEW times \in [0..w -> Nat]
    PROVE  /\ Push(times) \in [0..w -> Nat]
           /\ NoTimes(w) \in [0..w -> Nat]
           /\ Aged(times) \in [0..w -> Nat]
  BY DEF Push, NoTimes, Aged

\* What recording a failure leaves behind, whatever the evidence.
LEMMA RecordFailureType ==
    ASSUME LoopTypeOK, NEW e, NEW stalled \in BOOLEAN, NEW error \in {"exited", "threw", "stall"},
           RecordFailure(e, stalled, error)
    PROVE  /\ pc' \in {"backoff", "returned"} /\ state' \in {"starting", "failed"}
           /\ lastError' \in {"exited", "threw", "stall", "crashLoop", "stallLoop"}
           /\ failures' \in 1..FailureCap /\ backoffLeft' \in 0..BackoffCap
           /\ crashTimes' \in [0..CrashWindow -> Nat]
           /\ stallTimes' \in [0..StallWindow -> Nat]
           /\ state' = "failed" => pc' = "returned"
<1> DEFINE prior == IF attemptRecovered(e) THEN 0 ELSE failures
           count == Lower(prior + 1, FailureCap)
<1>0. FailureCap \in Nat \ {0} /\ prior \in 0..FailureCap
  <2>1. FailureCap \in Nat \ {0} /\ failures \in 0..FailureCap
    BY ConstantTypes DEF LoopTypeOK
  <2> QED
    BY <2>1
<1>1. count \in 1..FailureCap /\ count - 1 \in 0..FailureCap
  <2> HIDE DEF prior
  <2> QED
    BY <1>0 DEF Lower
<1>2. childBackoffDelay(count - 1) \in 0..BackoffCap
  BY <1>1, DelayType
<1>3. 0 \in 0..BackoffCap
  BY ConstantTypes
<1>4. crashTimes' = Push(IF attemptRecovered(e) THEN NoTimes(CrashWindow) ELSE crashTimes)
  BY DEF RecordFailure
<1>5. crashTimes' \in [0..CrashWindow -> Nat]
  BY <1>4, WindowType, ConstantTypes DEF LoopTypeOK
<1>6. stallTimes' = StallWindowAfter(stalled)
  BY DEF RecordFailure
<1>7. stallTimes' \in [0..StallWindow -> Nat]
  BY <1>6, WindowType, ConstantTypes DEF LoopTypeOK, StallWindowAfter
<1>8. failures' = count
  BY DEF RecordFailure
<1>9. /\ pc' \in {"backoff", "returned"} /\ state' \in {"starting", "failed"}
      /\ lastError' \in {"exited", "threw", "stall", "crashLoop", "stallLoop"}
      /\ state' = "failed" => pc' = "returned"
  BY DEF RecordFailure
<1>10. backoffLeft' \in {0, childBackoffDelay(count - 1)}
  BY DEF RecordFailure
<1> QED
  BY <1>1, <1>2, <1>3, <1>5, <1>7, <1>8, <1>9, <1>10

-----------------------------------------------------------------------------
(* How many entries a rolling window holds.                                *)

LEMMA AgesFinite ==
    ASSUME NEW w \in Nat
    PROVE  IsFiniteSet(0..w)
<1>1. 0 \in Int /\ w \in Int
  OBVIOUS
<1> QED
  BY <1>1, FS_Interval

\* What holds of a finite set by induction holds of each of its subsets.
LEMMA SubsetInduction ==
    ASSUME NEW D, IsFiniteSet(D), NEW S, {} \in S,
           \A T \in SUBSET D : T # {} /\ (\A x \in T : T \ {x} \in S) => T \in S
    PROVE  SUBSET D \subseteq S
<1> SUFFICES ASSUME NEW U \in SUBSET D PROVE U \in S
  OBVIOUS
<1>1. IsFiniteSet(U) /\ SUBSET U \subseteq SUBSET D
  BY FS_Subset
<1> QED
  BY <1>1, FiniteInduction

\* The sums of a window over sets of ages, whichever age is added last.
IsSum(sum, times, w) ==
    /\ sum \in [SUBSET (0..w) -> Nat]
    /\ sum[{}] = 0
    /\ \A T \in SUBSET (0..w) : \A a \in T : sum[T] = times[a] + sum[T \ {a}]

LEMMA CountIsSum ==
    ASSUME NEW w \in Nat, NEW times \in [0..w -> Nat]
    PROVE  \E sum : IsSum(sum, times, w) /\ Count(times) = sum[0..w]
<1> DEFINE D == 0..w
           first(T) == CHOOSE a \in T : TRUE
           pick == [T \in SUBSET D |-> first(T)]
           step == [p \in D \X Nat |-> times[p[1]] + p[2]]
           Eq(it) == it = [T \in SUBSET D |->
                               IF T = {} THEN 0 ELSE times[first(T)] + it[T \ {first(T)}]]
           fold == CHOOSE it : Eq(it)
<1>1. DOMAIN times = D /\ IsFiniteSet(D) /\ \A a \in D : times[a] \in Nat
  BY AgesFinite
<1>2. \A T : T # {} => first(T) \in T
  OBVIOUS
<1>3. step \in [D \X Nat -> Nat] /\ \A a \in D, n \in Nat : step[<<a, n>>] = times[a] + n
  BY <1>1
<1>4. Count(times) = fold[D]
  BY <1>1, Zenon DEF Count, FoldFunction, FoldFunctionOnSet, MapThenFoldSet
<1>5. \A T \in SUBSET D : pick[T] = first(T) /\ (T # {} => pick[T] \in T)
  BY <1>2
<1> HIDE DEF first, D, step, pick
<1>6. PICK it : IsFold(it, D, Nat, 0, step, pick)
  BY <1>1, <1>3, <1>5, Folding
<1>7. Eq(it)
  <2>1. ASSUME NEW T \in SUBSET D
        PROVE  it[T] = IF T = {} THEN 0 ELSE times[first(T)] + it[T \ {first(T)}]
    <3>1. it[T] = IF T = {} THEN 0 ELSE step[<<first(T), it[T \ {first(T)}]>>]
      BY <1>5, <1>6 DEF IsFold
    <3>2. T # {} => first(T) \in D /\ it[T \ {first(T)}] \in Nat
      BY <1>2, <1>6 DEF IsFold
    <3> QED
      BY <1>3, <3>1, <3>2
  <2> QED
    BY <1>6, <2>1 DEF IsFold
<1>8. Eq(fold)
  BY <1>7
<1>9. fold \in [SUBSET D -> Nat]
  <2> DEFINE S == {T \in SUBSET D : fold[T] \in Nat}
  <2>1. {} \in S
    <3>1. fold[{}] = 0
      BY <1>8
    <3> HIDE DEF fold
    <3> QED
      BY <3>1
  <2>2. ASSUME NEW T \in SUBSET D, T # {}, \A a \in T : T \ {a} \in S PROVE T \in S
    <3>1. first(T) \in T /\ fold[T \ {first(T)}] \in Nat
      BY <1>2, <2>2
    <3>2. fold[T] = times[first(T)] + fold[T \ {first(T)}]
      BY <1>8, <2>2
    <3> HIDE DEF fold
    <3> QED
      BY <1>1, <3>1, <3>2
  <2> HIDE DEF S
  <2>3. SUBSET D \subseteq S
    BY <1>1, <2>1, <2>2, SubsetInduction
  <2> QED
    BY <1>8, <2>3 DEF S
<1>10. ASSUME NEW T \in SUBSET D, NEW a \in T
       PROVE  fold[T] = times[a] + fold[T \ {a}]
  <2> DEFINE S == {U \in SUBSET D : \A x \in U : fold[U] = times[x] + fold[U \ {x}]}
  <2> HIDE DEF fold
  <2>1. {} \in S
    OBVIOUS
  <2>2. ASSUME NEW U \in SUBSET D, U # {}, \A x \in U : U \ {x} \in S PROVE U \in S
    <3> DEFINE p == first(U)
    <3>1. p \in U /\ fold[U] = times[p] + fold[U \ {p}]
      BY <1>2, <1>8, <2>2
    <3> HIDE DEF p
    <3>2. ASSUME NEW x \in U, x # p PROVE fold[U] = times[x] + fold[U \ {x}]
      <4>1. x \in U \ {p} /\ p \in U \ {x} /\ (U \ {p}) \ {x} = (U \ {x}) \ {p}
        BY <3>1, <3>2
      <4>2. fold[U \ {p}] = times[x] + fold[(U \ {p}) \ {x}]
        BY <2>2, <3>1, <4>1
      <4>3. fold[U \ {x}] = times[p] + fold[(U \ {p}) \ {x}]
        BY <2>2, <3>1, <4>1
      <4>4. times[p] \in Nat /\ times[x] \in Nat /\ fold[(U \ {p}) \ {x}] \in Nat
        BY <1>1, <1>9, <3>1
      <4> QED
        BY <3>1, <4>2, <4>3, <4>4
    <3> QED
      BY <3>1, <3>2
  <2> HIDE DEF S
  <2>3. SUBSET D \subseteq S
    BY <1>1, <2>1, <2>2, SubsetInduction
  <2> QED
    BY <2>3 DEF S
<1>11. fold[{}] = 0
  BY <1>8
<1> QED
  BY <1>4, <1>9, <1>10, <1>11 DEF IsSum, D

\* Two windows with the same entries at some ages hold as many at those ages.
LEMMA SameSum ==
    ASSUME NEW w \in Nat, NEW s, NEW t, NEW sum, NEW tum,
           IsSum(sum, s, w), IsSum(tum, t, w),
           NEW D \in SUBSET (0..w), \A a \in D : s[a] = t[a]
    PROVE  sum[D] = tum[D]
<1> DEFINE S == {T \in SUBSET D : sum[T] = tum[T]}
<1>1. {} \in S
  BY DEF IsSum
<1>2. ASSUME NEW T \in SUBSET D, T # {}, \A a \in T : T \ {a} \in S PROVE T \in S
  <2>1. PICK a \in T : TRUE
    BY <1>2
  <2>2. sum[T] = s[a] + sum[T \ {a}] /\ tum[T] = t[a] + tum[T \ {a}]
    BY <2>1 DEF IsSum
  <2> QED
    BY <1>2, <2>1, <2>2
<1> HIDE DEF S
<1>3. IsFiniteSet(D)
  BY AgesFinite, FS_Subset
<1>4. D \in S
  BY <1>1, <1>2, <1>3, FiniteInduction
<1> QED
  BY <1>4 DEF S

\* A window holds finitely many entries, one more once a failure is pushed, none when
\* it is fresh, and never more for having aged.
LEMMA CountFacts ==
    ASSUME NEW w \in Nat, NEW times \in [0..w -> Nat]
    PROVE  /\ Count(times) \in Nat
           /\ Count(Push(times)) = Count(times) + 1
           /\ Count(Aged(times)) <= Count(times)
           /\ Count(NoTimes(w)) = 0
<1>1. PICK sum : IsSum(sum, times, w) /\ Count(times) = sum[0..w]
  BY CountIsSum
<1>2. Count(times) \in Nat
  BY <1>1 DEF IsSum
<1>3. Count(Push(times)) = Count(times) + 1
  <2> DEFINE D == (0..w) \ {0}
  <2>1. PICK tum : IsSum(tum, Push(times), w) /\ Count(Push(times)) = tum[0..w]
    BY WindowType, CountIsSum
  <2>2. 0 \in 0..w /\ Push(times)[0] = times[0] + 1 /\ \A a \in D : times[a] = Push(times)[a]
    BY DEF Push
  <2>3. sum[D] = tum[D]
    <3> HIDE DEF D
    <3>1. D \in SUBSET (0..w)
      BY DEF D
    <3> QED
      BY <1>1, <2>1, <2>2, <3>1, SameSum
  <2>4. sum[0..w] = times[0] + sum[D] /\ tum[0..w] = Push(times)[0] + tum[D]
    BY <1>1, <2>1, <2>2 DEF IsSum
  <2>5. times[0] \in Nat /\ sum[D] \in Nat
    BY <1>1 DEF IsSum
  <2> QED
    BY <1>1, <2>1, <2>2, <2>3, <2>4, <2>5
<1>4. Count(Aged(times)) <= Count(times)
  <2> DEFINE u == Aged(times)
  <2>1. PICK tum : IsSum(tum, u, w) /\ Count(u) = tum[0..w]
    BY WindowType, CountIsSum
  <2>2. \A a \in 0..w : u[a] = IF a = 0 THEN 0 ELSE times[a - 1]
    BY DEF Aged
  <2> DEFINE N == {n \in Nat : n <= w => tum[0..n] + times[n] = sum[0..n]}
  <2> HIDE DEF u
  <2>3. 0 \in N
    <3>1. 0 \in 0..0 /\ (0..0) \ {0} = {} /\ 0..0 \in SUBSET (0..w)
      OBVIOUS
    <3>2. tum[0..0] = u[0] + tum[{}] /\ sum[0..0] = times[0] + sum[{}]
      BY <1>1, <2>1, <3>1 DEF IsSum
    <3>3. u[0] = 0 /\ tum[{}] = 0 /\ sum[{}] = 0 /\ times[0] \in Nat
      BY <1>1, <2>1, <2>2 DEF IsSum
    <3>4. tum[0..0] + times[0] = sum[0..0]
      BY <3>2, <3>3
    <3> QED
      BY <3>4
  <2>4. ASSUME NEW n \in Nat, n \in N PROVE n + 1 \in N
    <3> SUFFICES ASSUME n + 1 <= w PROVE tum[0..n + 1] + times[n + 1] = sum[0..n + 1]
      OBVIOUS
    <3>1. /\ n + 1 \in 0..n + 1 /\ (0..n + 1) \ {n + 1} = 0..n
          /\ 0..n + 1 \in SUBSET (0..w) /\ 0..n \in SUBSET (0..w)
      OBVIOUS
    <3>2. tum[0..n + 1] = u[n + 1] + tum[(0..n + 1) \ {n + 1}]
          /\ sum[0..n + 1] = times[n + 1] + sum[(0..n + 1) \ {n + 1}]
      BY <1>1, <2>1, <3>1, Zenon DEF IsSum
    <3>3. u[n + 1] = times[n] /\ times[n] \in Nat /\ times[n + 1] \in Nat
      BY <2>2
    <3>4. tum[0..n] \in Nat /\ sum[0..n] \in Nat
      BY <1>1, <2>1, <3>1 DEF IsSum
    <3>5. tum[0..n] + times[n] = sum[0..n]
      BY <2>4
    <3>6. tum[0..n + 1] = times[n] + tum[0..n] /\ sum[0..n + 1] = times[n + 1] + sum[0..n]
      BY <3>1, <3>2, <3>3, Zenon
    <3> QED
      BY <3>3, <3>4, <3>5, <3>6
  <2> HIDE DEF N
  <2>5. w \in N
    BY <2>3, <2>4, NatInduction1
  <2>6. tum[0..w] + times[w] = sum[0..w]
    BY <2>5 DEF N
  <2>7. tum[0..w] \in Nat /\ times[w] \in Nat
    BY <2>1 DEF IsSum
  <2>8. Count(u) <= Count(times)
    BY <1>1, <2>1, <2>6, <2>7
  <2> QED
    BY <2>8 DEF u
<1>5. Count(NoTimes(w)) = 0
  <2>1. PICK tum : IsSum(tum, NoTimes(w), w) /\ Count(NoTimes(w)) = tum[0..w]
    BY WindowType, CountIsSum
  <2> DEFINE S == {T \in SUBSET (0..w) : tum[T] = 0}
  <2>2. {} \in S
    BY <2>1 DEF IsSum
  <2>3. ASSUME NEW T \in SUBSET (0..w), T # {}, \A a \in T : T \ {a} \in S PROVE T \in S
    <3>1. PICK a \in T : TRUE
      BY <2>3
    <3>2. tum[T] = NoTimes(w)[a] + tum[T \ {a}] /\ NoTimes(w)[a] = 0
      BY <2>1, <3>1 DEF IsSum, NoTimes
    <3> QED
      BY <2>3, <3>1, <3>2
  <2> HIDE DEF S
  <2>4. 0..w \in S
    BY <2>2, <2>3, AgesFinite, FiniteInduction
  <2> QED
    BY <2>1, <2>4 DEF S
<1> QED
  BY <1>2, <1>3, <1>4, <1>5

-----------------------------------------------------------------------------
(* The inductive step, an action at a time.                                *)

LEMMA InitInv == Init => IInv
<1> SUFFICES ASSUME Init PROVE IInv
  OBVIOUS
<1> USE ConstantTypes DEF Init
<1>1. LoopTypeOK
  <2>1. /\ pc = "idle" /\ state = "starting" /\ lastError = "none" /\ failures = 0
        /\ crashTimes = NoTimes(CrashWindow) /\ stallTimes = NoTimes(StallWindow)
        /\ backoffLeft = 0 /\ upFor = 0 /\ attemptActivity = None
    OBVIOUS
  <2>2. NoTimes(CrashWindow) \in [0..CrashWindow -> Nat] /\ NoTimes(StallWindow) \in [0..StallWindow -> Nat]
    BY DEF NoTimes
  <2> HIDE DEF Init
  <2> QED
    BY <2>1, <2>2 DEF LoopTypeOK
<1>2. ProcTypeOK /\ WatchTypeOK /\ LogTypeOK
  BY DEF ProcTypeOK, WatchTypeOK, LogTypeOK, None
<1>4. FlagsOK
  BY DEF FlagsOK
<1>3. OneOwnedProcess /\ NotReadyOnceCondemned /\ AttemptInv /\ PollInv /\ SilenceInv
  BY DEF OneOwnedProcess, NotReadyOnceCondemned, AttemptInv, PollInv, SilenceInv, Lower, None
<1> QED
  BY <1>1, <1>2, <1>3, <1>4 DEF IInv, TypeOK

\* A group of variables a step leaves alone keeps its type.
LEMMA Frames ==
    /\ LoopTypeOK /\ UNCHANGED childVars => LoopTypeOK'
    /\ ProcTypeOK /\ UNCHANGED procVars => ProcTypeOK'
    /\ WatchTypeOK /\ UNCHANGED watchVars => WatchTypeOK'
    /\ LogTypeOK /\ UNCHANGED logVars => LogTypeOK'
    /\ FlagsOK /\ UNCHANGED <<stopRequested, stallReason, watchVars, logVars>> => FlagsOK'
<1>1. LoopTypeOK /\ UNCHANGED childVars => LoopTypeOK'
  BY DEF LoopTypeOK, childVars, None
<1>2. ProcTypeOK /\ UNCHANGED procVars => ProcTypeOK'
  BY DEF ProcTypeOK, procVars, None
<1>3. WatchTypeOK /\ UNCHANGED watchVars => WatchTypeOK'
  BY DEF WatchTypeOK, watchVars, None
<1>4. LogTypeOK /\ UNCHANGED logVars => LogTypeOK'
  BY DEF LogTypeOK, logVars
<1>5. FlagsOK /\ UNCHANGED <<stopRequested, stallReason, watchVars, logVars>> => FlagsOK'
  BY DEF FlagsOK, watchVars, logVars
<1> QED
  BY <1>1, <1>2, <1>3, <1>4, <1>5

\* The parts of the invariant that are not types.
Safe == OneOwnedProcess /\ NotReadyOnceCondemned /\ AttemptInv
Clocks == PollInv /\ SilenceInv

LEMMA Assemble ==
    /\ IInv <=> (/\ LoopTypeOK /\ ProcTypeOK /\ WatchTypeOK /\ LogTypeOK /\ FlagsOK
                 /\ Safe /\ Clocks)
    /\ IInv' <=> (/\ LoopTypeOK' /\ ProcTypeOK' /\ WatchTypeOK' /\ LogTypeOK' /\ FlagsOK'
                  /\ Safe' /\ Clocks')
  BY DEF IInv, TypeOK, Safe, Clocks

LEMMA BeginAttemptInv ==
    ASSUME IInv, BeginAttempt, pc \in {"idle", "backoff"}, ~stopRequested
    PROVE  IInv'
<1>0. LoopTypeOK /\ ProcTypeOK /\ WatchTypeOK /\ LogTypeOK /\ FlagsOK /\ Safe /\ Clocks
  BY Assemble
<1>a. poll = "off" /\ ~resolved /\ ~seen /\ silence = 0
  BY <1>0 DEF Safe, OneOwnedProcess, Clocks, PollInv
<1>b. /\ upFor' = 0 /\ stallReason' = FALSE /\ attemptActivity' = None /\ signal' = "none"
      /\ graceLeft' = None /\ dirty' = FALSE /\ wrote' = FALSE
      /\ UNCHANGED <<stopRequested, logAge>>
  BY DEF BeginAttempt
<1>c. \/ /\ pc' = "attempt" /\ state' = "running" /\ backoffLeft' = 0
         /\ proc' \in {"alive", "exited"} /\ beginWatchdog
         /\ UNCHANGED <<lastError, failures, crashTimes, stallTimes>>
      \/ RecordFailure(0, FALSE, "threw") /\ proc' = "none" /\ UNCHANGED watchVars
  BY DEF BeginAttempt
<1>d. /\ pc' \in {"attempt", "backoff", "returned"}
      /\ state' \in {"starting", "running", "failed"}
      /\ lastError' \in {"none", "setup", "exited", "threw", "stall", "crashLoop", "stallLoop"}
      /\ failures' \in 0..FailureCap /\ backoffLeft' \in 0..BackoffCap
      /\ crashTimes' \in [0..CrashWindow -> Nat] /\ stallTimes' \in [0..StallWindow -> Nat]
      /\ pc' # "attempt" => state' # "running"
      /\ state' = "failed" => pc' \in {"idle", "returned"}
  <2>1. CASE pc' = "attempt" /\ state' = "running" /\ backoffLeft' = 0
             /\ UNCHANGED <<lastError, failures, crashTimes, stallTimes>>
    BY <1>0, <2>1, ConstantTypes DEF LoopTypeOK
  <2>2. CASE RecordFailure(0, FALSE, "threw")
    <3>1. /\ pc' \in {"backoff", "returned"} /\ state' \in {"starting", "failed"}
          /\ lastError' \in {"exited", "threw", "stall", "crashLoop", "stallLoop"}
          /\ failures' \in 1..FailureCap /\ backoffLeft' \in 0..BackoffCap
          /\ crashTimes' \in [0..CrashWindow -> Nat]
          /\ stallTimes' \in [0..StallWindow -> Nat]
          /\ state' = "failed" => pc' = "returned"
      BY <1>0, <2>2, RecordFailureType
    <3> QED
      BY <3>1, ConstantTypes
  <2> QED
    BY <1>c, <2>1, <2>2
<1>1. LoopTypeOK'
  BY <1>0, <1>b, <1>d, ConstantTypes DEF LoopTypeOK, None
<1>2. ProcTypeOK'
  BY <1>b, <1>c DEF ProcTypeOK, None
<1>3. WatchTypeOK'
  <2>1. CASE beginWatchdog
    <3>1. /\ poll' \in {"resolve", "off"} /\ pollLeft' = 0 /\ observedFor' = None
          /\ silence' = 0
      BY <2>1 DEF beginWatchdog
    <3> QED
      BY <3>1, ConstantTypes DEF WatchTypeOK, None
  <2>2. CASE UNCHANGED watchVars
    BY <1>0, <2>2, Frames
  <2> QED
    BY <1>c, <2>1, <2>2
<1>4. LogTypeOK'
  BY <1>0, <1>b DEF LogTypeOK
<1>5. Safe'
  <2>1. proc' = "alive" => pc' = "attempt"
    BY <1>c
  <2>2. poll' # "off" => pc' = "attempt"
    BY <1>a, <1>c DEF beginWatchdog, watchVars
  <2> QED
    BY <1>b, <1>d, <2>1, <2>2 DEF Safe, OneOwnedProcess, NotReadyOnceCondemned, AttemptInv, None
<1>6. Clocks'
  <2>1. ~resolved' /\ ~seen' /\ silence' = 0 /\ poll' \in {"off", "resolve"}
    <3>1. CASE beginWatchdog
      BY <3>1 DEF beginWatchdog
    <3>2. CASE UNCHANGED watchVars
      BY <1>a, <3>2 DEF watchVars
    <3> QED
      BY <1>c, <3>1, <3>2
  <2> QED
    BY <1>b, <2>1, ConstantTypes DEF Clocks, PollInv, SilenceInv, Lower
<1>7. FlagsOK'
  <2>1. UNCHANGED <<stopRequested>> /\ stallReason' = FALSE /\ dirty' = FALSE /\ wrote' = FALSE
    BY <1>b
  <2>2. \/ resolved' = FALSE /\ seen' = FALSE /\ verdict' = FALSE
        \/ UNCHANGED <<resolved, seen, verdict>>
    BY <1>c DEF beginWatchdog, watchVars
  <2> QED
    BY <1>0, <2>1, <2>2 DEF FlagsOK
<1> QED
  BY <1>1, <1>2, <1>3, <1>4, <1>5, <1>6, <1>7, Assemble

LEMMA LoopReturnsInv ==
    ASSUME IInv, LoopReturns, pc \in {"idle", "backoff"}, stopRequested
    PROVE  IInv'
<1>0. LoopTypeOK /\ ProcTypeOK /\ WatchTypeOK /\ LogTypeOK /\ FlagsOK /\ Safe /\ Clocks
  BY Assemble
<1>1. LoopTypeOK'
  BY <1>0, ConstantTypes DEF LoopTypeOK, LoopReturns, None
<1>2. ProcTypeOK'
  BY <1>0, Frames DEF LoopReturns
<1>3. WatchTypeOK'
  BY <1>0, Frames DEF LoopReturns
<1>4. LogTypeOK'
  BY <1>0, Frames DEF LoopReturns
<1>5. Safe'
  BY <1>0 DEF Safe, OneOwnedProcess, NotReadyOnceCondemned, AttemptInv, LoopReturns,
              procVars, watchVars
<1>6. Clocks'
  BY <1>0 DEF Clocks, PollInv, SilenceInv, Lower, LoopReturns, watchVars, logVars
<1>7. FlagsOK'
  BY <1>0, Frames DEF LoopReturns
<1> QED
  BY <1>1, <1>2, <1>3, <1>4, <1>5, <1>6, <1>7, Assemble

LEMMA StartInv == IInv /\ start => IInv'
  BY BeginAttemptInv, LoopReturnsInv, Assemble DEF start, LoopTypeOK

LEMMA BackoffEndsInv == IInv /\ BackoffEnds => IInv'
  BY BeginAttemptInv, LoopReturnsInv, Assemble DEF BackoffEnds, LoopTypeOK

LEMMA AttemptEndsInv ==
    ASSUME IInv, AttemptEnds
    PROVE  IInv'
<1>0. LoopTypeOK /\ ProcTypeOK /\ WatchTypeOK /\ LogTypeOK /\ FlagsOK /\ Safe /\ Clocks
  BY Assemble
<1>a. pc = "attempt" /\ proc = "exited" /\ UNCHANGED <<procVars, logVars>>
  BY DEF AttemptEnds
<1>b. /\ attemptActivity' \in {attemptActivity, observedFor}
      /\ poll' = "off" /\ pollLeft' = 0 /\ resolved' = FALSE
      /\ silence' = 0 /\ seen' = FALSE /\ stallReason' = FALSE
      /\ UNCHANGED <<observedFor, verdict, stopRequested, upFor>>
  BY DEF AttemptEnds, endWatchdog
<1>c. /\ pc' \in {"backoff", "returned"} /\ state' \in {"starting", "failed"}
      /\ lastError' \in {"none", "setup", "exited", "threw", "stall", "crashLoop", "stallLoop"}
      /\ failures' \in 0..FailureCap /\ backoffLeft' \in 0..BackoffCap
      /\ crashTimes' \in [0..CrashWindow -> Nat] /\ stallTimes' \in [0..StallWindow -> Nat]
      /\ state' = "failed" => pc' = "returned"
  <2>1. CASE stopRequested
    BY <1>0, <2>1 DEF AttemptEnds, LoopTypeOK
  <2>2. CASE ~stopRequested
    <3>1. Stalled \in BOOLEAN
      BY <1>0 DEF FlagsOK, Stalled
    <3>2. PICK e \in {upFor, attemptActivity'}, error \in {"exited", "threw", "stall"} :
            RecordFailure(e, Stalled, error)
      BY <2>2 DEF AttemptEnds
    <3>3. /\ pc' \in {"backoff", "returned"} /\ state' \in {"starting", "failed"}
          /\ lastError' \in {"exited", "threw", "stall", "crashLoop", "stallLoop"}
          /\ failures' \in 1..FailureCap /\ backoffLeft' \in 0..BackoffCap
          /\ crashTimes' \in [0..CrashWindow -> Nat]
          /\ stallTimes' \in [0..StallWindow -> Nat]
          /\ state' = "failed" => pc' = "returned"
      BY <1>0, <3>1, <3>2, RecordFailureType
    <3> QED
      BY <3>3, ConstantTypes
  <2> QED
    BY <2>1, <2>2
<1>1. LoopTypeOK'
  BY <1>0, <1>b, <1>c DEF LoopTypeOK, WatchTypeOK, None
<1>2. ProcTypeOK'
  BY <1>0, <1>a, Frames
<1>3. WatchTypeOK'
  BY <1>0, <1>b, ConstantTypes DEF WatchTypeOK, None
<1>4. LogTypeOK'
  BY <1>0, <1>a, Frames
<1>5. Safe'
  BY <1>0, <1>a, <1>b, <1>c
     DEF Safe, OneOwnedProcess, NotReadyOnceCondemned, AttemptInv, procVars, None
<1>6. Clocks'
  BY <1>0, <1>a, <1>b, ConstantTypes
     DEF Clocks, PollInv, SilenceInv, Lower, LoopTypeOK, logVars
<1>7. FlagsOK'
  BY <1>0, <1>a, <1>b DEF FlagsOK, logVars
<1> QED
  BY <1>1, <1>2, <1>3, <1>4, <1>5, <1>6, <1>7, Assemble

LEMMA markFailedInv ==
    ASSUME IInv, markFailed
    PROVE  IInv'
<1>0. LoopTypeOK /\ ProcTypeOK /\ WatchTypeOK /\ LogTypeOK /\ FlagsOK /\ Safe /\ Clocks
  BY Assemble
<1>a. /\ pc = "idle" /\ state' = "failed" /\ lastError' = "setup"
      /\ UNCHANGED <<pc, failures, stopRequested, stallReason, crashTimes, stallTimes,
                     backoffLeft, upFor, attemptActivity, procVars, watchVars, logVars>>
  BY DEF markFailed
<1>1. LoopTypeOK'
  BY <1>0, <1>a DEF LoopTypeOK, None
<1>2. ProcTypeOK'
  BY <1>0, <1>a, Frames
<1>3. WatchTypeOK'
  BY <1>0, <1>a, Frames
<1>4. LogTypeOK'
  BY <1>0, <1>a, Frames
<1>5. Safe'
  BY <1>0, <1>a DEF Safe, OneOwnedProcess, NotReadyOnceCondemned, AttemptInv, procVars, watchVars
<1>6. Clocks'
  BY <1>0, <1>a DEF Clocks, PollInv, SilenceInv, Lower, watchVars, logVars
<1>7. FlagsOK'
  BY <1>0, <1>a, Frames
<1> QED
  BY <1>1, <1>2, <1>3, <1>4, <1>5, <1>6, <1>7, Assemble

LEMMA requestStopInv ==
    ASSUME IInv, requestStop
    PROVE  IInv'
<1>0. LoopTypeOK /\ ProcTypeOK /\ WatchTypeOK /\ LogTypeOK /\ FlagsOK /\ Safe /\ Clocks
  BY Assemble
<1>a. /\ stopRequested' = TRUE /\ attemptActivity' \in {attemptActivity, observedFor}
      /\ poll' = "off" /\ pollLeft' = 0 /\ resolved' = FALSE /\ silence' = 0 /\ seen' = FALSE
      /\ signal' \in {signal, "term"}
      /\ UNCHANGED <<observedFor, verdict, pc, state, lastError, failures, stallReason,
                     crashTimes, stallTimes, backoffLeft, upFor, proc, graceLeft, logVars>>
  BY DEF requestStop, endWatchdog
<1>1. LoopTypeOK'
  BY <1>0, <1>a DEF LoopTypeOK, WatchTypeOK, None
<1>2. ProcTypeOK'
  BY <1>0, <1>a DEF ProcTypeOK, None
<1>3. WatchTypeOK'
  BY <1>0, <1>a, ConstantTypes DEF WatchTypeOK, None
<1>4. LogTypeOK'
  BY <1>0, <1>a, Frames
<1>5. Safe'
  BY <1>0, <1>a DEF Safe, OneOwnedProcess, NotReadyOnceCondemned, AttemptInv
<1>6. Clocks'
  BY <1>0, <1>a, ConstantTypes
     DEF Clocks, PollInv, SilenceInv, Lower, LoopTypeOK
<1>7. FlagsOK'
  BY <1>0, <1>a DEF FlagsOK, logVars
<1> QED
  BY <1>1, <1>2, <1>3, <1>4, <1>5, <1>6, <1>7, Assemble

\* Steps of the process and of those that signal it leave both loops alone.
LEMMA ProcessInv ==
    ASSUME IInv, forceKill \/ ChildExits \/ LogWrite \/ GraceElapses
    PROVE  IInv'
<1>0. LoopTypeOK /\ ProcTypeOK /\ WatchTypeOK /\ LogTypeOK /\ FlagsOK /\ Safe /\ Clocks
  BY Assemble
<1>a. /\ UNCHANGED <<childVars, watchVars>> /\ proc = "alive" /\ proc' \in {"alive", "exited"}
      /\ signal' \in {"none", "term", "kill"} /\ graceLeft' \in {None, graceLeft}
      /\ proc' = "exited" => graceLeft' = None
      /\ \/ UNCHANGED logVars
         \/ logAge' = 0 /\ dirty' = TRUE /\ wrote' = TRUE
  BY <1>0 DEF forceKill, ChildExits, LogWrite, GraceElapses, procVars, ProcTypeOK
<1>1. LoopTypeOK'
  BY <1>0, <1>a, Frames
<1>2. ProcTypeOK'
  BY <1>0, <1>a DEF ProcTypeOK, None
<1>3. WatchTypeOK'
  BY <1>0, <1>a, Frames
<1>4. LogTypeOK'
  BY <1>0, <1>a, Frames, ConstantTypes DEF LogTypeOK
<1>5. Safe'
  BY <1>0, <1>a DEF Safe, OneOwnedProcess, NotReadyOnceCondemned, AttemptInv,
                    childVars, watchVars, None
<1>6. Clocks'
  BY <1>0, <1>a DEF Clocks, PollInv, SilenceInv, Lower, childVars, watchVars, logVars
<1>7. FlagsOK'
  BY <1>0, <1>a DEF FlagsOK, childVars, watchVars, logVars
<1> QED
  BY <1>1, <1>2, <1>3, <1>4, <1>5, <1>6, <1>7, Assemble

\* A poll that ends in evaluateStall, whether or not it condemns the child.
LEMMA EvaluateStallInv ==
    ASSUME IInv, evaluateStall, poll \in {"observe", "tail"}, ~seen, seen' = FALSE,
           UNCHANGED <<resolved, observedFor, silence, logVars>>
    PROVE  IInv'
<1>0. LoopTypeOK /\ ProcTypeOK /\ WatchTypeOK /\ LogTypeOK /\ FlagsOK /\ Safe /\ Clocks
  BY Assemble
<1>a. /\ poll' = "sleep" /\ pollLeft' = PollInterval /\ pc = "attempt" /\ ~stopRequested
      /\ resolved
  BY <1>0 DEF evaluateStall, PollSleeps, Safe, OneOwnedProcess, Clocks, PollInv
<1>b. /\ UNCHANGED <<pc, failures, stopRequested, crashTimes, stallTimes, backoffLeft, upFor,
                     attemptActivity, proc>>
      /\ state' \in {state, "starting"} /\ lastError' \in {lastError, "stall"}
      /\ stallReason' \in {stallReason, TRUE} /\ verdict' \in {verdict, TRUE}
      /\ signal' \in {signal, "term"}
  BY DEF evaluateStall, onStallVerdict, childVars, procVars
<1>c. \/ graceLeft' = graceLeft /\ verdict' = verdict
            /\ stallReason' = stallReason /\ state' = state
      \/ /\ graceLeft' = None \/ (graceLeft' = KillGrace /\ proc = "alive")
         /\ verdict' = TRUE /\ stallReason' = TRUE /\ state' = "starting"
  <2>1. onStallVerdict \/ UNCHANGED <<verdict, childVars, procVars>>
    BY DEF evaluateStall
  <2>2. CASE onStallVerdict
    <3>1. graceLeft' = None \/ (graceLeft' = KillGrace /\ proc = "alive")
      BY <2>2 DEF onStallVerdict
    <3>2. verdict' = TRUE /\ stallReason' = TRUE /\ state' = "starting"
      BY <2>2 DEF onStallVerdict
    <3> QED
      BY <3>1, <3>2
  <2>3. CASE UNCHANGED <<verdict, childVars, procVars>>
    BY <2>3 DEF childVars, procVars
  <2> QED
    BY <2>1, <2>2, <2>3
<1>1. LoopTypeOK'
  BY <1>0, <1>b DEF LoopTypeOK, None
<1>2. ProcTypeOK'
  BY <1>0, <1>b, <1>c, ConstantTypes DEF ProcTypeOK, None
<1>3. WatchTypeOK'
  BY <1>0, <1>a, <1>b, ConstantTypes DEF WatchTypeOK, None
<1>4. LogTypeOK'
  BY <1>0, Frames
<1>5. Safe'
  <2>1. OneOwnedProcess'
    BY <1>0, <1>a, <1>b, <1>c DEF Safe, OneOwnedProcess, None
  <2>2. NotReadyOnceCondemned' /\ AttemptInv'
    BY <1>0, <1>a, <1>b, <1>c DEF Safe, OneOwnedProcess, NotReadyOnceCondemned, AttemptInv
  <2> QED
    BY <2>1, <2>2 DEF Safe
<1>6. Clocks'
  BY <1>0, <1>a, <1>b DEF Clocks, PollInv, SilenceInv, Lower, logVars
<1>7. FlagsOK'
  BY <1>0, <1>b DEF FlagsOK, logVars
<1> QED
  BY <1>1, <1>2, <1>3, <1>4, <1>5, <1>6, <1>7, Assemble

\* A step of the poll loop that condemns nothing: everything but the poll's own
\* variables stands still.
LEMMA PollFrame ==
    ASSUME IInv, UNCHANGED <<childVars, procVars, verdict, logAge, wrote>>,
           poll # "off", poll' \in {"sleep", "resolve", "stat", "observe", "tail"},
           pollLeft' \in {pollLeft, PollInterval}, observedFor' \in {observedFor, upFor},
           resolved' \in BOOLEAN, seen' \in BOOLEAN, dirty' \in BOOLEAN,
           silence' \in {silence, 0}, PollInv', SilenceInv'
    PROVE  IInv'
<1>0. LoopTypeOK /\ ProcTypeOK /\ WatchTypeOK /\ LogTypeOK /\ FlagsOK /\ Safe /\ Clocks
  BY Assemble
<1>1. LoopTypeOK' /\ ProcTypeOK'
  BY <1>0, Frames
<1>2. WatchTypeOK'
  BY <1>0, ConstantTypes DEF WatchTypeOK, LoopTypeOK, None
<1>3. LogTypeOK'
  BY <1>0 DEF LogTypeOK
<1>5. FlagsOK'
  BY <1>0 DEF FlagsOK, childVars
<1>4. Safe'
  BY <1>0 DEF Safe, OneOwnedProcess, NotReadyOnceCondemned, AttemptInv, childVars, procVars, None
<1> QED
  BY <1>1, <1>2, <1>3, <1>4, <1>5, Assemble DEF Clocks

LEMMA PollStepInv == IInv /\ Poll => IInv'
<1> SUFFICES ASSUME IInv, Poll PROVE IInv'
  OBVIOUS
<1>0. resolved \in BOOLEAN /\ seen \in BOOLEAN /\ dirty \in BOOLEAN
  BY Assemble DEF FlagsOK
<1>1. /\ silence \in Nat /\ logAge \in Nat /\ upFor \in Nat /\ HealthyReset \in Nat
      /\ HealthyReset > 0 /\ PollInv /\ SilenceInv
  BY ConstantTypes, Assemble DEF Clocks, WatchTypeOK, LogTypeOK, LoopTypeOK
<1>2. CASE PollWakes
  <2>1. /\ poll = "sleep" /\ poll' \in {"stat", "resolve"}
        /\ poll' = "stat" => resolved
        /\ UNCHANGED <<pollLeft, resolved, observedFor, silence, seen, dirty>>
        /\ UNCHANGED <<childVars, procVars, verdict, logAge, wrote>>
    BY <1>2, <1>1 DEF PollWakes, PollInv, logVars
  <2>2. PollInv'
    BY <1>1, <2>1 DEF PollInv
  <2>3. SilenceInv'
    BY <1>1, <2>1 DEF SilenceInv, Lower, childVars
  <2> QED
    BY <1>0, <2>1, <2>2, <2>3, PollFrame
<1>3. CASE ResolveNothing
  <2>1. /\ poll = "resolve" /\ poll' = "sleep" /\ pollLeft' = PollInterval
        /\ UNCHANGED <<resolved, observedFor, silence, seen, dirty>>
        /\ UNCHANGED <<childVars, procVars, verdict, logAge, wrote>>
    BY <1>3, <1>1 DEF ResolveNothing, PollSleeps, logVars
  <2>2. PollInv'
    BY <1>1, <2>1 DEF PollInv
  <2>3. SilenceInv'
    BY <1>1, <2>1 DEF SilenceInv, Lower, childVars
  <2> QED
    BY <1>0, <2>1, <2>2, <2>3, PollFrame
<1>4. CASE ResolveLog
  <2>1. /\ poll = "resolve" /\ poll' = "stat" /\ resolved' = TRUE
        /\ silence' = 0 /\ observedFor' = upFor /\ dirty' \in {FALSE, dirty}
        /\ UNCHANGED <<pollLeft, seen>>
        /\ UNCHANGED <<childVars, procVars, verdict, logAge, wrote>>
    BY <1>4, <1>1 DEF ResolveLog
  <2>2. PollInv'
    BY <1>1, <2>1 DEF PollInv
  <2>3. SilenceInv'
    BY <1>1, <2>1 DEF SilenceInv, Lower, childVars
  <2> QED
    BY <1>0, <2>1, <2>2, <2>3, PollFrame
<1>5. CASE StatFails
  <2>1. /\ poll = "stat" /\ poll' = "sleep" /\ pollLeft' = PollInterval
        /\ resolved' = FALSE /\ silence' = 0
        /\ UNCHANGED <<observedFor, seen, dirty>>
        /\ UNCHANGED <<childVars, procVars, verdict, logAge, wrote>>
    BY <1>5, <1>1 DEF StatFails, PollSleeps, logVars
  <2>2. PollInv'
    BY <1>1, <2>1 DEF PollInv
  <2>3. SilenceInv'
    BY <1>1, <2>1 DEF SilenceInv, Lower, childVars
  <2> QED
    BY <1>0, <2>1, <2>2, <2>3, PollFrame
<1>6. CASE PollStats
  <2>1. /\ poll = "stat" /\ poll' = "observe" /\ seen' = dirty /\ dirty' = FALSE
        /\ UNCHANGED <<pollLeft, resolved, observedFor, silence>>
        /\ UNCHANGED <<childVars, procVars, verdict, logAge, wrote>>
    BY <1>6, <1>1 DEF PollStats
  <2>2. PollInv'
    BY <1>1, <2>1 DEF PollInv
  <2>4. ~seen
    BY <1>1, <2>1 DEF PollInv
  <2>5. resolved' /\ ~dirty' /\ ~seen' => resolved /\ ~dirty /\ ~seen
    BY <2>1, <2>4
  <2>6. UNCHANGED <<silence, logAge, upFor>>
    BY <2>1 DEF childVars
  <2>3. SilenceInv'
    BY <1>1, <2>5, <2>6 DEF SilenceInv, Lower
  <2> QED
    BY <1>0, <2>1, <2>2, <2>3, PollFrame
<1>7. CASE PollObserves
  <2>1. poll = "observe" /\ seen' = FALSE /\ UNCHANGED <<resolved, dirty, logAge, wrote>>
    BY <1>7 DEF PollObserves, logVars
  <2>2. CASE seen
    <3>1. /\ silence' = 0 /\ observedFor' = upFor /\ poll' \in {"tail", "sleep"}
          /\ pollLeft' \in {pollLeft, PollInterval}
          /\ UNCHANGED <<verdict, childVars, procVars>>
      BY <1>7, <2>2 DEF PollObserves, RecordActivity, PollSleeps
    <3>2. PollInv'
      BY <1>1, <2>1, <3>1 DEF PollInv
    <3>3. SilenceInv'
      BY <1>1, <2>1, <3>1 DEF SilenceInv, Lower, childVars
    <3> QED
      BY <1>0, <2>1, <3>1, <3>2, <3>3, PollFrame
  <2>3. CASE ~seen /\ poll' = "tail"
    <3>1. UNCHANGED <<pollLeft, silence, observedFor, verdict, childVars, procVars>>
      BY <1>7, <2>3 DEF PollObserves, evaluateStall, PollSleeps
    <3>2. PollInv'
      BY <1>1, <2>1, <2>3, <3>1 DEF PollInv
    <3>3. SilenceInv'
      BY <1>1, <2>1, <2>3, <3>1 DEF SilenceInv, Lower, childVars
    <3> QED
      BY <1>0, <2>1, <2>3, <3>1, <3>2, <3>3, PollFrame
  <2>4. CASE ~seen /\ poll' # "tail"
    BY <1>7, <2>4, EvaluateStallInv DEF PollObserves
  <2> QED
    BY <2>2, <2>3, <2>4
<1>8. CASE TailEnds
  <2>1. poll = "tail" /\ evaluateStall /\ ~seen /\ seen' = FALSE
        /\ UNCHANGED <<resolved, observedFor, silence, logVars>>
    <3>1. ~seen
      BY <1>1, <1>8 DEF TailEnds, PollInv
    <3> QED
      BY <1>0, <1>8, <3>1 DEF TailEnds
  <2> QED
    BY <2>1, EvaluateStallInv
<1> QED
  BY <1>2, <1>3, <1>4, <1>5, <1>6, <1>7, <1>8 DEF Poll

LEMMA OlderType ==
    ASSUME NEW cap \in Nat, NEW age \in 0..cap
    PROVE  Older(age, cap) \in 0..cap
  BY DEF Older

LEMMA CountdownType ==
    ASSUME NEW cap \in Nat, NEW left \in {None} \cup (0..cap)
    PROVE  /\ Countdown(left) \in {None} \cup (0..cap)
           /\ left \in 0..cap => Countdown(left) \in 0..cap
           /\ left = None <=> Countdown(left) = None
  BY DEF Countdown, None

LEMMA TickInv ==
    ASSUME IInv, Tick
    PROVE  IInv'
<1>0. LoopTypeOK /\ ProcTypeOK /\ WatchTypeOK /\ LogTypeOK /\ FlagsOK /\ Safe /\ Clocks
  BY Assemble
<1>a. UNCHANGED <<pc, state, lastError, failures, stopRequested, stallReason,
                  attemptActivity, proc, signal, poll, resolved, observedFor, seen,
                  verdict, dirty, wrote>>
  BY DEF Tick
<1>b. /\ HealthyReset \in Nat /\ StallTimeout \in Nat /\ BackoffCap \in Nat
      /\ PollInterval \in Nat /\ KillGrace \in Nat
      /\ CrashWindow \in Nat /\ StallWindow \in Nat
  BY ConstantTypes
<1>c. graceLeft' \in {None} \cup (0..KillGrace) /\ (graceLeft' # None => graceLeft # None)
  BY <1>0, <1>b, CountdownType DEF Tick, ProcTypeOK
<1>1. LoopTypeOK'
  <2>1. crashTimes' \in [0..CrashWindow -> Nat] /\ stallTimes' \in [0..StallWindow -> Nat]
    BY <1>0, <1>b, WindowType DEF Tick, LoopTypeOK
  <2>2. upFor' \in 0..HealthyReset
    BY <1>0, <1>b, OlderType DEF Tick, LoopTypeOK
  <2>3. backoffLeft' \in 0..BackoffCap
    BY <1>0, <1>b, CountdownType DEF Tick, LoopTypeOK
  <2> QED
    BY <1>0, <1>a, <2>1, <2>2, <2>3 DEF LoopTypeOK, None
<1>2. ProcTypeOK'
  BY <1>0, <1>a, <1>c DEF ProcTypeOK, None
<1>3. WatchTypeOK'
  <2>1. silence' \in 0..StallTimeout
    BY <1>0, <1>b, OlderType DEF Tick, WatchTypeOK
  <2>2. pollLeft' \in 0..PollInterval
    BY <1>0, <1>b, CountdownType DEF Tick, WatchTypeOK
  <2> QED
    BY <1>0, <1>a, <2>1, <2>2 DEF WatchTypeOK, None
<1>4. LogTypeOK'
  BY <1>0, <1>a, <1>b, OlderType DEF Tick, LogTypeOK
<1>5. Safe'
  BY <1>0, <1>a, <1>c DEF Safe, OneOwnedProcess, NotReadyOnceCondemned, AttemptInv
<1>6. Clocks'
  <2>1. /\ upFor \in 0..HealthyReset /\ silence \in 0..StallTimeout /\ logAge \in 0..StallTimeout
        /\ logAge' = Older(logAge, StallTimeout)
        /\ silence' = IF resolved THEN Older(silence, StallTimeout) ELSE silence
        /\ upFor' \in {upFor, Older(upFor, HealthyReset)}
        /\ resolved => upFor' = Older(upFor, HealthyReset)
    BY <1>0 DEF Tick, LoopTypeOK, WatchTypeOK, LogTypeOK, Safe, OneOwnedProcess, Clocks, PollInv
  <2>2. PollInv'
    BY <1>0, <1>a, <2>1 DEF Clocks, PollInv
  <2>3. resolved /\ ~dirty /\ ~seen => logAge' >= silence'
    BY <1>0, <1>b, <2>1 DEF Clocks, SilenceInv, Older
  <2>4. upFor >= Lower(silence, HealthyReset)
    BY <1>0 DEF Clocks, SilenceInv
  <2>5. upFor' >= Lower(silence', HealthyReset)
    BY <1>b, <2>1, <2>4 DEF Older, Lower
  <2> QED
    BY <1>a, <2>2, <2>3, <2>5 DEF Clocks, SilenceInv
<1>7. FlagsOK'
  BY <1>0, <1>a DEF FlagsOK
<1> QED
  BY <1>1, <1>2, <1>3, <1>4, <1>5, <1>6, <1>7, Assemble

LEMMA StepInv == IInv /\ [Next]_vars => IInv'
<1> SUFFICES ASSUME IInv, [Next]_vars PROVE IInv'
  OBVIOUS
<1>1. CASE UNCHANGED vars
  <2>1. UNCHANGED <<childVars, procVars, watchVars, logVars>>
    BY <1>1 DEF vars
  <2>2. Safe' /\ Clocks'
    BY <2>1, Assemble
       DEF Safe, OneOwnedProcess, NotReadyOnceCondemned, AttemptInv, Clocks, PollInv,
           SilenceInv, Lower, childVars, procVars, watchVars, logVars, None
  <2>3. LoopTypeOK' /\ ProcTypeOK' /\ WatchTypeOK' /\ LogTypeOK'
    BY <2>1, Frames, Assemble
  <2>4. FlagsOK'
    BY <2>1, Assemble DEF FlagsOK, childVars, watchVars, logVars
  <2> QED
    BY <2>2, <2>3, <2>4, Assemble
<1>2. CASE start \/ BackoffEnds \/ AttemptEnds
  BY <1>2, StartInv, BackoffEndsInv, AttemptEndsInv
<1>3. CASE markFailed \/ requestStop
  BY <1>3, markFailedInv, requestStopInv
<1>4. CASE forceKill \/ ChildExits \/ LogWrite \/ GraceElapses
  BY <1>4, ProcessInv
<1>5. CASE Poll
  BY <1>5, PollStepInv
<1>6. CASE Tick
  BY <1>6, TickInv
<1> QED
  BY <1>1, <1>2, <1>3, <1>4, <1>5, <1>6 DEF Next

\* Nothing is started once the vault has failed or is to stop, and failure is final.
Final ==
    stopRequested \/ state = "failed" =>
        /\ proc' = "alive" => proc = "alive"
        /\ state = "failed" => state' = "failed"

LEMMA FinalStep == IInv /\ [Next]_vars => [Final]_vars
<1> SUFFICES ASSUME IInv, Next, stopRequested \/ state = "failed"
             PROVE  /\ proc' = "alive" => proc = "alive"
                    /\ state = "failed" => state' = "failed"
  BY DEF Final
<1> USE DEF IInv, AttemptInv, OneOwnedProcess
<1>1. CASE start
  BY <1>1 DEF start, LoopReturns, procVars
<1>2. CASE BackoffEnds
  BY <1>2 DEF BackoffEnds, LoopReturns, procVars
<1>3. CASE AttemptEnds
  BY <1>3 DEF AttemptEnds, procVars
<1>4. CASE markFailed \/ requestStop \/ forceKill
  BY <1>4 DEF markFailed, requestStop, forceKill, childVars, procVars
<1>5. CASE ChildExits \/ LogWrite \/ GraceElapses
  BY <1>5 DEF ChildExits, LogWrite, GraceElapses, childVars, procVars
<1>6. CASE Poll
  <2>1. poll # "off"
    BY <1>6 DEF Poll, PollWakes, ResolveNothing, ResolveLog, StatFails, PollStats,
                PollObserves, TailEnds
  <2>2. UNCHANGED proc
    BY <1>6 DEF Poll, PollWakes, ResolveNothing, ResolveLog, StatFails, PollStats,
                PollObserves, TailEnds, evaluateStall, onStallVerdict, procVars
  <2> QED
    BY <2>1, <2>2
<1>7. CASE Tick
  BY <1>7 DEF Tick
<1> QED
  BY <1>1, <1>2, <1>3, <1>4, <1>5, <1>6, <1>7 DEF Next

-----------------------------------------------------------------------------
(* What an attempt leaves behind: its verdict, its evidence, the windows.  *)

\* A verdict that falls on the attempt in flight is recorded for it, and what a
\* running watchdog has observed is no older than the child: nothing has been kept
\* for the attempt yet.
EvidenceInv ==
    /\ pc = "attempt" /\ verdict => stallReason
    /\ poll # "off" => attemptActivity = None
    /\ poll # "off" /\ observedFor # None => observedFor <= upFor

LEMMA EvidenceInit == Init => EvidenceInv
  BY DEF Init, EvidenceInv

LEMMA EvidenceStep == IInv /\ EvidenceInv /\ [Next]_vars => EvidenceInv'
<1> SUFFICES ASSUME IInv, EvidenceInv, [Next]_vars PROVE EvidenceInv'
  OBVIOUS
<1>0. /\ poll # "off" => pc = "attempt"
      /\ upFor \in 0..HealthyReset /\ observedFor \in {None} \cup (0..HealthyReset)
      /\ HealthyReset \in Nat
  BY Assemble, ConstantTypes DEF Safe, OneOwnedProcess, LoopTypeOK, WatchTypeOK
<1> USE DEF EvidenceInv
<1>1. CASE BeginAttempt /\ pc \in {"idle", "backoff"}
  BY <1>0, <1>1 DEF BeginAttempt, beginWatchdog, RecordFailure, watchVars
<1>2. CASE LoopReturns /\ pc \in {"idle", "backoff"}
  BY <1>0, <1>2 DEF LoopReturns, watchVars
<1>3. CASE AttemptEnds
  <2>1. pc' # "attempt" /\ poll' = "off"
    BY <1>3 DEF AttemptEnds, endWatchdog, RecordFailure
  <2> QED
    BY <2>1
<1>4. CASE requestStop
  BY <1>4 DEF requestStop, endWatchdog
<1>5. CASE markFailed \/ forceKill \/ ChildExits \/ LogWrite \/ GraceElapses \/ UNCHANGED vars
  BY <1>5 DEF markFailed, forceKill, ChildExits, LogWrite, GraceElapses, vars, childVars,
              watchVars
<1>6. CASE Poll
  <2>1. poll # "off" /\ UNCHANGED <<pc, upFor, attemptActivity>>
    BY <1>6 DEF Poll, PollWakes, ResolveNothing, ResolveLog, StatFails, PollStats,
                PollObserves, TailEnds, evaluateStall, onStallVerdict, childVars
  <2>2. observedFor' \in {observedFor, upFor}
    BY <1>6 DEF Poll, PollWakes, ResolveNothing, ResolveLog, StatFails, PollStats,
                PollObserves, TailEnds, RecordActivity
  <2>3. \/ UNCHANGED <<verdict, stallReason>>
        \/ verdict' = TRUE /\ stallReason' = TRUE
    BY <1>6 DEF Poll, PollWakes, ResolveNothing, ResolveLog, StatFails, PollStats,
                PollObserves, TailEnds, evaluateStall, onStallVerdict, childVars
  <2> QED
    BY <1>0, <2>1, <2>2, <2>3
<1>7. CASE Tick
  <2>1. upFor' >= upFor /\ upFor' \in 0..HealthyReset
    BY <1>0, <1>7 DEF Tick, Older
  <2>2. UNCHANGED <<pc, verdict, stallReason, poll, attemptActivity, observedFor>>
    BY <1>7 DEF Tick
  <2> QED
    BY <1>0, <2>1, <2>2 DEF None
<1> QED
  BY <1>1, <1>2, <1>3, <1>4, <1>5, <1>6, <1>7 DEF Next, start, BackoffEnds

\* The windows only change where a failure is recorded and with time.
LEMMA WindowStep ==
    ASSUME IInv, [Next]_vars
    PROVE  \/ \E e, error : \E stalled \in BOOLEAN : RecordFailure(e, stalled, error)
           \/ crashTimes' = Aged(crashTimes) /\ stallTimes' = Aged(stallTimes) /\ UNCHANGED state
           \/ UNCHANGED <<crashTimes, stallTimes>>
<1>1. CASE BeginAttempt
  <2>1. RecordFailure(0, FALSE, "threw") \/ UNCHANGED <<crashTimes, stallTimes>>
    BY <1>1 DEF BeginAttempt
  <2> QED
    BY <2>1
<1>2. CASE AttemptEnds
  <2>1. stallReason \in BOOLEAN
    BY Assemble DEF FlagsOK
  <2> QED
    BY <1>2, <2>1 DEF AttemptEnds, Stalled
<1>3. CASE Tick
  BY <1>3 DEF Tick
<1>4. CASE LoopReturns \/ markFailed \/ requestStop \/ forceKill \/ ChildExits \/ LogWrite
           \/ GraceElapses \/ Poll \/ UNCHANGED vars
  BY <1>4 DEF LoopReturns, markFailed, requestStop, forceKill, ChildExits, LogWrite,
              GraceElapses, Poll, PollWakes, ResolveNothing, ResolveLog, StatFails,
              PollStats, PollObserves, TailEnds, evaluateStall, onStallVerdict, vars, childVars
<1> QED
  BY <1>1, <1>2, <1>3, <1>4 DEF Next, start, BackoffEnds

\* What recording a failure does to the windows and to the count.
LEMMA FailureFacts ==
    ASSUME IInv, NEW e, NEW stalled \in BOOLEAN, NEW error, RecordFailure(e, stalled, error)
    PROVE  /\ CeilingsHold'
           /\ Count(stallTimes') = Count(stallTimes) + (IF stalled THEN 1 ELSE 0)
           /\ attemptRecovered(e) => failures' = 1
<1>1. /\ crashTimes' = Push(IF attemptRecovered(e) THEN NoTimes(CrashWindow) ELSE crashTimes)
      /\ stallTimes' = StallWindowAfter(stalled)
      /\ failures' = Lower((IF attemptRecovered(e) THEN 0 ELSE failures) + 1, FailureCap)
  BY DEF RecordFailure
<1>2. CeilingsHold'
  <2>1. Reached(MaxCrashes, crashTimes') \/ Reached(MaxStalls, stallTimes') => state' = "failed"
    BY DEF RecordFailure
  <2> QED
    BY <1>1, <2>1 DEF CeilingsHold, Reached
<1>3. Count(stallTimes') = Count(stallTimes) + (IF stalled THEN 1 ELSE 0)
  <2>1. stallTimes \in [0..StallWindow -> Nat] /\ StallWindow \in Nat
    BY Assemble, ConstantTypes DEF LoopTypeOK
  <2>2. Count(Push(stallTimes)) = Count(stallTimes) + 1 /\ Count(stallTimes) \in Nat
    BY <2>1, CountFacts
  <2>3. CASE stalled
    BY <1>1, <2>2, <2>3 DEF StallWindowAfter
  <2>4. CASE ~stalled
    BY <1>1, <2>2, <2>4 DEF StallWindowAfter
  <2> QED
    BY <2>3, <2>4
<1>4. attemptRecovered(e) => failures' = 1
  BY <1>1, ConstantTypes DEF Lower
<1> QED
  BY <1>2, <1>3, <1>4

LEMMA CeilingsInit == Init => CeilingsHold
<1> SUFFICES ASSUME Init PROVE CeilingsHold
  OBVIOUS
<1>1. \A w \in Nat : [a \in 0..w |-> 0] \in [0..w -> Nat]
  OBVIOUS
<1>2. \A w \in Nat : Count(NoTimes(w)) = 0
  BY <1>1, CountFacts
<1>3. Count(crashTimes) = 0 /\ Count(stallTimes) = 0
  BY <1>2, ConstantTypes DEF Init
<1> QED
  BY <1>3, ConstantTypes DEF CeilingsHold

LEMMA CeilingsStep == IInv /\ CeilingsHold /\ [Next]_vars => CeilingsHold'
<1> SUFFICES ASSUME IInv, CeilingsHold, [Next]_vars PROVE CeilingsHold'
  OBVIOUS
<1>0. state = "failed" => state' = "failed"
  BY FinalStep DEF Final, vars, childVars
<1>1. CASE \E e, error : \E stalled \in BOOLEAN : RecordFailure(e, stalled, error)
  BY <1>1, FailureFacts
<1>2. CASE crashTimes' = Aged(crashTimes) /\ stallTimes' = Aged(stallTimes)
  <2>1. /\ crashTimes \in [0..CrashWindow -> Nat] /\ CrashWindow \in Nat
        /\ stallTimes \in [0..StallWindow -> Nat] /\ StallWindow \in Nat
    BY Assemble, ConstantTypes DEF LoopTypeOK
  <2>2. /\ Count(crashTimes) \in Nat /\ Count(stallTimes) \in Nat
        /\ Count(Aged(crashTimes)) \in Nat /\ Count(Aged(stallTimes)) \in Nat
        /\ Count(Aged(crashTimes)) <= Count(crashTimes)
        /\ Count(Aged(stallTimes)) <= Count(stallTimes)
    <3>1. Aged(crashTimes) \in [0..CrashWindow -> Nat] /\ Aged(stallTimes) \in [0..StallWindow -> Nat]
      BY <2>1, WindowType
    <3> QED
      BY <2>1, <3>1, CountFacts
  <2> QED
    BY <1>0, <1>2, <2>2, ConstantTypes DEF CeilingsHold
<1>3. CASE UNCHANGED <<crashTimes, stallTimes>>
  BY <1>0, <1>3 DEF CeilingsHold
<1> QED
  BY <1>1, <1>2, <1>3, WindowStep

\* The evidence on which the attempt in flight is judged.
Evidence ==
    IF poll # "off" /\ observedFor # None THEN observedFor
    ELSE IF attemptActivity # None THEN attemptActivity
    ELSE upFor

\* What has recovered stays recovered, by the evidence that is kept when the
\* watchdog is switched off as well.
LEMMA EvidenceGrows ==
    ASSUME IInv, EvidenceInv, Next, pc = "attempt", attemptRecovered(Evidence)
    PROVE  \/ pc' = "attempt" /\ attemptRecovered(Evidence') /\ UNCHANGED failures
           \/ pc' # "attempt" /\ (stopRequested \/ failures' = 1)
<1>0. /\ upFor \in 0..HealthyReset /\ observedFor \in {None} \cup (0..HealthyReset)
      /\ attemptActivity \in {None} \cup (0..HealthyReset) /\ HealthyReset \in Nat
  BY Assemble, ConstantTypes DEF LoopTypeOK, WatchTypeOK
<1>1. CASE AttemptEnds
  <2>1. pc' # "attempt"
    BY <1>1 DEF AttemptEnds, RecordFailure
  <2>2. CASE ~stopRequested
    <3>1. attemptActivity' = IF poll = "off" THEN attemptActivity ELSE observedFor
      BY <1>1 DEF AttemptEnds, endWatchdog
    <3>2. Evidence = IF attemptActivity' # None THEN attemptActivity' ELSE upFor
      BY <3>1 DEF Evidence, EvidenceInv
    <3>3. stallReason \in BOOLEAN
      BY Assemble DEF FlagsOK
    <3>4. \E error : RecordFailure(Evidence, stallReason, error)
      BY <1>1, <2>2, <3>2 DEF AttemptEnds, Stalled
    <3> QED
      BY <2>1, <3>3, <3>4, FailureFacts
  <2> QED
    BY <2>1, <2>2
<1>2. CASE requestStop
  BY <1>2 DEF requestStop, endWatchdog, Evidence, EvidenceInv, attemptRecovered
<1>3. CASE markFailed \/ forceKill \/ ChildExits \/ LogWrite \/ GraceElapses
  BY <1>3 DEF markFailed, forceKill, ChildExits, LogWrite, GraceElapses, childVars, watchVars,
              Evidence, attemptRecovered
<1>4. CASE Poll
  <2>1. poll # "off" /\ poll' # "off" /\ UNCHANGED <<pc, failures, upFor, attemptActivity>>
    BY <1>4 DEF Poll, PollWakes, ResolveNothing, ResolveLog, StatFails, PollStats,
                PollObserves, TailEnds, evaluateStall, onStallVerdict, PollSleeps, childVars
  <2>2. observedFor' \in {observedFor, upFor}
    BY <1>4 DEF Poll, PollWakes, ResolveNothing, ResolveLog, StatFails, PollStats,
                PollObserves, TailEnds, RecordActivity
  <2> QED
    BY <1>0, <2>1, <2>2 DEF Evidence, EvidenceInv, attemptRecovered, None
<1>5. CASE Tick
  <2>1. upFor' >= upFor /\ upFor' \in 0..HealthyReset
    BY <1>0, <1>5 DEF Tick, Older
  <2>2. UNCHANGED <<pc, failures, poll, attemptActivity, observedFor>>
    BY <1>5 DEF Tick
  <2> QED
    BY <1>0, <2>1, <2>2 DEF Evidence, attemptRecovered
<1> QED
  BY <1>1, <1>2, <1>3, <1>4, <1>5 DEF Next, start, BackoffEnds

-----------------------------------------------------------------------------
(* The theorems.                                                           *)

\* The inductive invariant holds in every reachable state.
THEOREM Invariance == Spec => []IInv
  BY InitInv, StepInv, PTL DEF Spec

\* Type correctness of one supervised vault.
THEOREM TypeCorrect == Spec => []TypeOK
<1>1. IInv => TypeOK
  BY DEF IInv
<1> QED
  BY <1>1, Invariance, PTL

\* The run loop owns at most one process, and no escalation timer or poll loop
\* outlives the attempt it belongs to.
THEOREM Ownership == Spec => []OneOwnedProcess
<1>1. IInv => OneOwnedProcess
  BY DEF IInv
<1> QED
  BY <1>1, Invariance, PTL

\* A vault is never ready once its child has been condemned.
THEOREM Readiness == Spec => []NotReadyOnceCondemned
<1>1. IInv => NotReadyOnceCondemned
  BY DEF IInv
<1> QED
  BY <1>1, Invariance, PTL

\* The watchdog kills for silence only what was silent for the whole threshold.
THEOREM KillsAreJustified == Spec => KillJustified
<1> DEFINE Justified == ~verdict /\ verdict' =>
                            /\ upFor >= Lower(StallTimeout, HealthyReset)
                            /\ dirty \/ logAge >= StallTimeout
<1>1. IInv /\ [Next]_vars => [Justified]_vars
  <2> SUFFICES ASSUME IInv, Next, ~verdict, verdict'
               PROVE  /\ upFor >= Lower(StallTimeout, HealthyReset)
                      /\ dirty \/ logAge >= StallTimeout
    OBVIOUS
  <2>1. TailEnds \/ PollObserves
    BY DEF Next, start, BackoffEnds, BeginAttempt, beginWatchdog, LoopReturns, AttemptEnds,
           endWatchdog, markFailed, requestStop, forceKill, ChildExits, LogWrite,
           GraceElapses, Poll, PollWakes, ResolveNothing, ResolveLog, StatFails, PollStats,
           Tick, watchVars
  <2>2. silence >= StallTimeout /\ poll \in {"observe", "tail"} /\ ~seen
    BY <2>1 DEF IInv, PollInv, TailEnds, PollObserves, evaluateStall
  <2>3. resolved /\ (~dirty => logAge >= silence) /\ upFor >= Lower(silence, HealthyReset)
    BY <2>2 DEF IInv, PollInv, SilenceInv
  <2>4. silence \in 0..StallTimeout /\ logAge \in 0..StallTimeout /\ StallTimeout \in Nat
    BY ConstantTypes, Assemble DEF WatchTypeOK, LogTypeOK
  <2>5. silence = StallTimeout
    BY <2>2, <2>4
  <2> QED
    BY <2>3, <2>4, <2>5
<1> QED
  BY <1>1, Invariance, PTL DEF Spec, KillJustified

\* Neither a stopped nor a failed vault ever starts a process again.
THEOREM TheEndIsFinal == Spec => NothingStartsAfterTheEnd
  BY Invariance, FinalStep, PTL DEF Spec, NothingStartsAfterTheEnd, Final

LEMMA EvidenceKept == Spec => []EvidenceInv
  BY EvidenceInit, EvidenceStep, Invariance, PTL DEF Spec

\* A vault whose window has reached its ceiling is failed: neither the crashes nor
\* the stall kills of a window ever reach it unnoticed.
THEOREM CeilingsAreKept == Spec => []CeilingsHold
  BY CeilingsInit, CeilingsStep, Invariance, PTL DEF Spec

\* A vault is retried until a stop or a ceiling: recordFailure ends the loop for a
\* ceiling that is configured (0 is none) and reached, and for nothing else.
THEOREM NeverGivenUpEarly == Spec => GivenUpAtACeiling
<1> DEFINE AtACeiling == pc # "returned" /\ pc' = "returned" /\ ~stopRequested =>
                            \/ MaxCrashes > 0 /\ Count(crashTimes') >= MaxCrashes
                            \/ MaxStalls > 0 /\ Count(stallTimes') >= MaxStalls
<1>1. [Next]_vars => [AtACeiling]_vars
  <2> SUFFICES ASSUME Next, pc # "returned", pc' = "returned", ~stopRequested
               PROVE  Reached(MaxCrashes, crashTimes') \/ Reached(MaxStalls, stallTimes')
    BY DEF Reached
  <2>1. \E e, error : \E stalled \in {TRUE, FALSE, stallReason} : RecordFailure(e, stalled, error)
    <3>1. CASE start \/ BackoffEnds
      <4>1. RecordFailure(0, FALSE, "threw")
        BY <3>1 DEF start, BackoffEnds, BeginAttempt
      <4> QED
        BY <4>1
    <3>2. CASE AttemptEnds
      <4>1. \E e, error : RecordFailure(e, stallReason, error)
        BY <3>2 DEF AttemptEnds, Stalled
      <4> QED
        BY <4>1
    <3> QED
      BY <3>1, <3>2 DEF Next, markFailed, requestStop, forceKill, ChildExits, LogWrite,
             GraceElapses, Poll, PollWakes, ResolveNothing, ResolveLog, StatFails, PollStats,
             PollObserves, TailEnds, evaluateStall, onStallVerdict, Tick, childVars
  <2> QED
    BY <2>1 DEF RecordFailure
<1> QED
  BY <1>1, PTL DEF Spec, GivenUpAtACeiling

\* The stall window grows by one exactly when a verdict fell on the attempt that ends.
THEOREM VerdictsAreCredited == Spec => StallsCreditedByVerdict
<1> DEFINE Credited == pc = "attempt" /\ pc' # "attempt" /\ ~stopRequested =>
                (Count(stallTimes') = Count(stallTimes) + (IF verdict THEN 1 ELSE 0))
<1>1. IInv /\ EvidenceInv /\ [Next]_vars => [Credited]_vars
  <2> SUFFICES ASSUME IInv, EvidenceInv, Next, pc = "attempt", pc' # "attempt", ~stopRequested
               PROVE  Count(stallTimes') = Count(stallTimes) + (IF verdict THEN 1 ELSE 0)
    OBVIOUS
  <2>1. AttemptEnds
    BY DEF Next, start, BackoffEnds, markFailed, requestStop, forceKill, ChildExits, LogWrite,
           GraceElapses, Poll, PollWakes, ResolveNothing, ResolveLog, StatFails, PollStats,
           PollObserves, TailEnds, evaluateStall, onStallVerdict, Tick, childVars
  <2>2. stallReason = verdict /\ stallReason \in BOOLEAN
    BY Assemble DEF IInv, AttemptInv, EvidenceInv, FlagsOK
  <2>3. \E e, error : RecordFailure(e, stallReason, error)
    BY <2>1 DEF AttemptEnds, Stalled
  <2> QED
    BY <2>2, <2>3, FailureFacts
<1> QED
  BY <1>1, Invariance, EvidenceKept, PTL DEF Spec, StallsCreditedByVerdict

\* Recovery and ordinary crashes forget no stall kill: entries only leave the stall
\* window by growing older than it.
THEOREM StallsAreNotForgotten == Spec => StallWindowOnlyAges
<1> DEFINE Ages == \A a \in 0..StallWindow : stallTimes'[a] < stallTimes[a] =>
                        stallTimes' = Aged(stallTimes)
<1>1. IInv /\ [Next]_vars => [Ages]_vars
  <2> SUFFICES ASSUME IInv, [Next]_vars PROVE Ages
    OBVIOUS
  <2>1. stallTimes \in [0..StallWindow -> Nat]
    BY Assemble DEF LoopTypeOK
  <2>2. stallTimes' \in {stallTimes, Push(stallTimes), Aged(stallTimes)}
    BY WindowStep DEF RecordFailure, StallWindowAfter
  <2>3. CASE stallTimes' \in {stallTimes, Push(stallTimes)}
    <3> SUFFICES ASSUME NEW a \in 0..StallWindow PROVE ~(stallTimes'[a] < stallTimes[a])
      OBVIOUS
    <3>1. stallTimes[a] \in Nat
      BY <2>1
    <3>2. stallTimes'[a] \in {stallTimes[a], stallTimes[a] + 1}
      BY <2>1, <2>3 DEF Push
    <3> QED
      BY <3>1, <3>2
  <2> QED
    BY <2>2, <2>3
<1> QED
  BY <1>1, Invariance, PTL DEF Spec, StallWindowOnlyAges

\* What /healthz has once read as recovered it never reads otherwise.
THEOREM RecoveryIsNotTakenBack == Spec => RecoveryIsSticky
<1> DEFINE Sticky == pc = "attempt" /\ failures > 0 /\ liveConsecutiveFailures = 0 =>
        \/ pc' = "attempt" /\ liveConsecutiveFailures' = 0
        \/ pc' # "attempt" /\ (stopRequested \/ failures' = 1)
<1>1. IInv /\ EvidenceInv /\ [Next]_vars => [Sticky]_vars
  <2> SUFFICES ASSUME IInv, EvidenceInv, Next, pc = "attempt", failures > 0,
                      liveConsecutiveFailures = 0
               PROVE  \/ pc' = "attempt" /\ liveConsecutiveFailures' = 0
                      \/ pc' # "attempt" /\ (stopRequested \/ failures' = 1)
    OBVIOUS
  <2>1. /\ liveConsecutiveFailures
              = IF pc = "attempt" /\ attemptRecovered(Evidence) THEN 0 ELSE failures
        /\ liveConsecutiveFailures'
              = IF pc' = "attempt" /\ attemptRecovered(Evidence') THEN 0 ELSE failures'
    BY DEF liveConsecutiveFailures, Evidence, attemptRecovered
  <2>2. failures \in Nat
    BY Assemble, ConstantTypes DEF LoopTypeOK
  <2>3. attemptRecovered(Evidence)
    BY <2>1, <2>2
  <2> QED
    BY <2>1, <2>3, EvidenceGrows
<1> QED
  BY <1>1, Invariance, EvidenceKept, PTL DEF Spec, RecoveryIsSticky

-----------------------------------------------------------------------------
(* The lifecycle its supervisor relies on (ChildLifecycle for one vault),  *)
(* which a single VaultChild implements.                                   *)

LEMMA OfFacts ==
    ASSUME NEW x, NEW y
    PROVE  Of(x)[0] = x /\ [Of(x) EXCEPT ![0] = y] = Of(y)
  BY DEF Of

\* What of the lifecycle's variables a step leaves alone.
LEMMA Stutter ==
    ASSUME UNCHANGED <<pc, state, stopRequested, stallReason, proc, signal>>
    PROVE  UNCHANGED Lifecycle!lifecycleVars
  BY DEF Lifecycle!lifecycleVars, Of

LEMMA FailureRefines ==
    ASSUME NEW e, NEW stalled, NEW error, RecordFailure(e, stalled, error)
    PROVE  Lifecycle!FailAttempt(0)
<1>1. \/ pc' = "backoff" /\ state' = "starting"
      \/ pc' = "returned" /\ state' = "failed"
  BY DEF RecordFailure
<1> QED
  BY <1>1 DEF Lifecycle!FailAttempt, Of

LEMMA BeginRefines ==
    ASSUME BeginAttempt
    PROVE  Lifecycle!BeginAttempt(0)
<1>1. /\ signal' = "none" /\ stallReason' = FALSE /\ UNCHANGED stopRequested
      /\ \/ pc' = "attempt" /\ state' = "running" /\ proc' \in {"alive", "exited"}
         \/ RecordFailure(0, FALSE, "threw") /\ proc' = "none"
  BY DEF BeginAttempt
<1>2. CASE pc' = "attempt" /\ state' = "running" /\ proc' \in {"alive", "exited"}
  BY <1>1, <1>2 DEF Lifecycle!BeginAttempt, Of
<1>3. CASE RecordFailure(0, FALSE, "threw") /\ proc' = "none"
  BY <1>1, <1>3, FailureRefines DEF Lifecycle!BeginAttempt, Of
<1> QED
  BY <1>1, <1>2, <1>3

LEMMA TurnRefines ==
    ASSUME IF stopRequested THEN LoopReturns ELSE BeginAttempt
    PROVE  Lifecycle!LoopTurns(0)
<1>1. Of(stopRequested)[0] = stopRequested
  BY OfFacts
<1>2. CASE stopRequested
  <2>1. LoopReturns
    BY <1>2
  <2>2. Lifecycle!LoopReturns(0)
    BY <2>1 DEF LoopReturns, procVars, Lifecycle!LoopReturns, Of
  <2> QED
    BY <1>1, <1>2, <2>2 DEF Lifecycle!LoopTurns
<1>3. CASE ~stopRequested
  BY <1>1, <1>3, BeginRefines DEF Lifecycle!LoopTurns
<1> QED
  BY <1>2, <1>3

LEMMA AttemptEndsRefines ==
    ASSUME AttemptEnds
    PROVE  Lifecycle!EndAttempt(0)
<1>1. /\ pc = "attempt" /\ proc = "exited" /\ stallReason' = FALSE
      /\ UNCHANGED <<stopRequested, proc, signal>>
  BY DEF AttemptEnds, procVars
<1>2. CASE stopRequested
  <2>1. pc' = "returned" /\ state' = "starting"
    BY <1>2 DEF AttemptEnds
  <2> QED
    BY <1>1, <1>2, <2>1 DEF Lifecycle!EndAttempt, Of
<1>3. CASE ~stopRequested
  <2>1. Lifecycle!FailAttempt(0)
    BY <1>3, FailureRefines DEF AttemptEnds
  <2> QED
    BY <1>1, <1>3, <2>1 DEF Lifecycle!EndAttempt, Of
<1> QED
  BY <1>2, <1>3

\* A poll step condemns the child or leaves its lifecycle alone.
LEMMA PollRefines ==
    ASSUME IInv, Poll
    PROVE  Lifecycle!Condemn(0) \/ UNCHANGED Lifecycle!lifecycleVars
<1>1. \/ UNCHANGED <<pc, state, stopRequested, stallReason, proc, signal>>
      \/ poll # "off" /\ ~verdict /\ onStallVerdict
  BY DEF Poll, PollWakes, ResolveNothing, ResolveLog, StatFails, PollStats, PollObserves,
         TailEnds, evaluateStall, childVars, procVars
<1>2. CASE poll # "off" /\ ~verdict /\ onStallVerdict
  <2>1. pc = "attempt" /\ ~stopRequested /\ ~stallReason
    BY <1>2 DEF IInv, OneOwnedProcess, AttemptInv
  <2>2. /\ stallReason' = TRUE /\ state' = "starting" /\ UNCHANGED <<pc, stopRequested, proc>>
        /\ signal' = IF proc = "alive" /\ signal = "none" THEN "term" ELSE signal
    BY <1>2 DEF onStallVerdict
  <2> QED
    BY <2>1, <2>2 DEF Lifecycle!Condemn, Lifecycle!Terminated, Of
<1> QED
  BY <1>1, <1>2, Stutter

LEMMA StepRefines ==
    IInv /\ [Next]_vars => [Lifecycle!Next]_Lifecycle!lifecycleVars
<1> SUFFICES ASSUME IInv, [Next]_vars
             PROVE  Lifecycle!Next \/ UNCHANGED Lifecycle!lifecycleVars
  OBVIOUS
<1> DEFINE AStep == Lifecycle!Runs(0) \/ Lifecycle!Called(0)
<1>0. AStep => Lifecycle!Next
  BY DEF Lifecycle!Next
<1>1. CASE start
  <2>1. Lifecycle!Start(0)
    BY <1>1, TurnRefines DEF start, Lifecycle!Start, Of
  <2> QED
    BY <1>0, <2>1 DEF Lifecycle!Called
<1>2. CASE BackoffEnds
  <2>1. Lifecycle!Retry(0)
    BY <1>2, TurnRefines DEF BackoffEnds, Lifecycle!Retry, Of
  <2> QED
    BY <1>0, <2>1 DEF Lifecycle!Runs
<1>3. CASE AttemptEnds
  BY <1>0, <1>3, AttemptEndsRefines DEF Lifecycle!Runs
<1>4. CASE markFailed
  <2>1. Lifecycle!MarkFailed(0)
    BY <1>4 DEF markFailed, procVars, Lifecycle!MarkFailed, Of
  <2> QED
    BY <1>0, <2>1 DEF Lifecycle!Called
<1>5. CASE requestStop
  <2>1. Lifecycle!RequestStop({0})
    BY <1>5 DEF requestStop, Lifecycle!RequestStop, Lifecycle!Terminated, Of
  <2> QED
    BY <1>0, <2>1 DEF Lifecycle!Called
<1>6. CASE forceKill
  <2>1. Of(stopRequested)[0] /\ Lifecycle!Kill(0)
    BY <1>6 DEF forceKill, childVars, Lifecycle!Kill, Of
  <2> QED
    BY <1>0, <2>1 DEF Lifecycle!Called
<1>7. CASE ChildExits
  <2>1. Lifecycle!Exit(0)
    BY <1>7 DEF ChildExits, childVars, Lifecycle!Exit, Of
  <2> QED
    BY <1>0, <2>1 DEF Lifecycle!Runs
<1>8. CASE GraceElapses
  <2>1. stallReason
    BY <1>8 DEF GraceElapses, IInv, OneOwnedProcess, None
  <2>2. Lifecycle!Escalate(0)
    BY <1>8, <2>1 DEF GraceElapses, childVars, Lifecycle!Escalate, Lifecycle!Kill, Of
  <2> QED
    BY <1>0, <2>2 DEF Lifecycle!Runs
<1>9. CASE Poll
  BY <1>0, <1>9, PollRefines DEF Lifecycle!Runs
<1>10. CASE LogWrite \/ Tick \/ UNCHANGED vars
  <2>1. UNCHANGED <<pc, state, stopRequested, stallReason, proc, signal>>
    BY <1>10 DEF LogWrite, Tick, vars, childVars, procVars
  <2> QED
    BY <2>1, Stutter
<1> QED
  BY <1>1, <1>2, <1>3, <1>4, <1>5, <1>6, <1>7, <1>8, <1>9, <1>10 DEF Next

\* Every behaviour of the run loop with its watchdog, windows and clocks is one
\* the lifecycle allows.
THEOREM Implementation == Spec => ImplementsLifecycle
<1>1. Init => Lifecycle!Init
  BY DEF Init, Lifecycle!Init, Of
<1> QED
  BY <1>1, StepRefines, Invariance, PTL DEF Spec, ImplementsLifecycle, Lifecycle!Spec
=============================================================================
