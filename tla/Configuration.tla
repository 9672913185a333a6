--------------------------- MODULE Configuration ----------------------------
(***************************************************************************)
(* What the process accepts as its configuration (src/src/config/index.ts):*)
(* the environment variables, the default of each, and the combinations    *)
(* that are refused with exit code 78.                                     *)
(*                                                                         *)
(* A character of a name is a number: 0 stands for anything that is not a  *)
(* letter or a digit, 1 .. 9 for those, and 10 + x for the capital of x.   *)
(* A number that is not set is Unset, one that does not parse is Malformed.*)
(***************************************************************************)
EXTENDS Integers, Sequences, FiniteSets, Functions

CONSTANTS
    MaxSeconds, MaxCount,  \* MAX_SYNC_WATCHDOG_SECONDS, MAX_SYNC_COUNT
    DefaultTimeout, DefaultPoll, DefaultThreshold

ASSUME ConfigurationAssumption ==
    /\ {MaxSeconds, MaxCount, DefaultTimeout, DefaultThreshold} \subseteq Nat
    /\ DefaultPoll \in 1 .. DefaultTimeout /\ DefaultTimeout <= MaxSeconds
    /\ DefaultThreshold <= MaxCount

Unset == -1
Malformed == -2
Other == 0

-----------------------------------------------------------------------------
(* VAULTS_JSON.                                                            *)

Lower(x) == IF x > 10 THEN x - 10 ELSE x

\* A run of other characters is one dash, and none at either end.
slugify(name) ==
    LET s == [i \in DOMAIN name |-> Lower(name[i])]
        kept == {i \in DOMAIN s :
                    \/ s[i] # Other
                    \/ /\ i > 1 /\ s[i - 1] # Other
                       /\ \E j \in i + 1 .. Len(s) : s[j] # Other}
        nth(n) == CHOOSE i \in kept : Cardinality({j \in kept : j <= i}) = n
    IN  [n \in 1 .. Cardinality(kept) |-> s[nth(n)]]

\* An entry is [name, slug]; an empty slug stands for none.
SlugOf(entry) == slugify(IF entry.slug = <<>> THEN entry.name ELSE entry.slug)

parseVaults(raw) == [i \in DOMAIN raw |-> SlugOf(raw[i])]
VaultsAccepted(raw) ==
    LET slugs == parseVaults(raw) IN
    /\ raw # <<>>
    /\ \A i \in DOMAIN raw : raw[i].name # <<>> /\ slugs[i] # <<>>
    /\ IsInjective(slugs)

-----------------------------------------------------------------------------
(* Numbers.                                                                *)

\* parseWatchdogSeconds and parseCount: digits alone, and within the bound.
NumberAccepted(raw, bound) == raw = Unset \/ raw \in 0 .. bound
Number(raw, default) == IF raw = Unset THEN default ELSE raw

loadSyncWatchdogConfig(env) ==
    [stallTimeout |-> Number(env.timeout, DefaultTimeout),
     pollInterval |-> Number(env.poll, DefaultPoll),
     logTail |-> env.tail # "false"]

PollUnbounded(env) ==
    /\ NumberAccepted(env.timeout, MaxSeconds) /\ NumberAccepted(env.poll, MaxSeconds)
    /\ Number(env.poll, DefaultPoll) >= 1
    /\ env.tail \in {"unset", "true", "false"}

\* With stall detection off, the interval paces the tail alone.
WatchdogAccepted(env) ==
    /\ PollUnbounded(env)
    /\ LET c == loadSyncWatchdogConfig(env)
       IN  c.stallTimeout > 0 => c.pollInterval <= c.stallTimeout

loadSyncHealthConfig(env) ==
    [maxCrashes |-> Number(env.crashes, 0),
     maxStallKills |-> Number(env.stalls, 0),
     healthzFailureThreshold |-> Number(env.threshold, DefaultThreshold)]

HealthAccepted(env) ==
    \A raw \in {env.crashes, env.stalls, env.threshold} : NumberAccepted(raw, MaxCount)

-----------------------------------------------------------------------------
\* The rest: a port in range, a level, a mode and a provider of the closed lists, and
\* the key the provider needs.
EnumsAccepted(env) ==
    /\ NumberAccepted(env.port, 65535) /\ env.listed
    /\ env.provider = "openai" => env.key

\* A set mode or list is forwarded, and the empty string clears it.
loadSyncConfigEnv(env) == {v \in DOMAIN env.sync : env.sync[v] # "unset"}

Accepted(env) ==
    /\ VaultsAccepted(env.vaults) /\ EnumsAccepted(env)
    /\ WatchdogAccepted(env) /\ HealthAccepted(env)

loadConfig(env) ==
    [vaults |-> parseVaults(env.vaults),
     syncWatchdog |-> loadSyncWatchdogConfig(env),
     syncHealth |-> loadSyncHealthConfig(env),
     syncConfigEnv |-> loadSyncConfigEnv(env)]

\* What the modules of the supervised child and of the supervisor assume.
FitForUse(cfg) ==
    /\ cfg.vaults # <<>> /\ IsInjective(cfg.vaults)
    /\ cfg.syncWatchdog.pollInterval \in 1 .. MaxSeconds
    /\ cfg.syncWatchdog.stallTimeout \in
           {0} \cup cfg.syncWatchdog.pollInterval .. MaxSeconds
    /\ \A n \in {cfg.syncHealth.maxCrashes, cfg.syncHealth.maxStallKills,
                 cfg.syncHealth.healthzFailureThreshold} : n \in 0 .. MaxCount
=============================================================================
