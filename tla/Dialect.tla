------------------------------ MODULE Dialect ------------------------------
(***************************************************************************)
(* Which dialect a host speaks (faragent-transport dialect.rs, the probe   *)
(* of faragent-service probe.rs): cached in the configuration, asked with  *)
(* a marker on a miss, corrected by what a probe script itself reports.    *)
(* Tasks read the cache, talk to the host, and write the cache later.      *)
(***************************************************************************)
EXTENDS Naturals, Absent

CONSTANTS
    Probers,        \* concurrent tasks that probe the host, or only ask for its dialect
    MaxReinstalls   \* bound: times the host comes back with another system

Spoken == {"posix", "windows"}
ASSUME DialectAssumption == None \notin Spoken /\ MaxReinstalls \in Nat

VARIABLES
    spoken,      \* what the host speaks
    reinstalls,
    cached,      \* the configuration's os of the host
    prober       \* prober[t]: its place, what it expects, and what the host told it

dialectVars == <<spoken, reinstalls, cached, prober>>

Unasked == [at |-> "unasked", expected |-> "posix", told |-> None]
Other(os) == IF os = "posix" THEN "windows" ELSE "posix"
Goes(t, at, expected, told) ==
    prober' = [prober EXCEPT ![t] = [at |-> at, expected |-> expected, told |-> told]]

DialectTypeOK ==
    /\ spoken \in Spoken
    /\ reinstalls \in 0..MaxReinstalls
    /\ cached \in Spoken \cup {None}
    /\ prober \in [Probers -> [at : {"unasked", "rest", "cache", "try", "retry", "correct", "done"},
                               expected : Spoken, told : Spoken \cup {None}]]

DialectInit ==
    /\ spoken \in Spoken
    /\ reinstalls = 0
    /\ cached \in Spoken \cup {None}
    /\ prober = [t \in Probers |-> Unasked]

Reinstall ==
    /\ reinstalls < MaxReinstalls
    /\ reinstalls' = reinstalls + 1
    /\ spoken' = Other(spoken)
    /\ UNCHANGED <<cached, prober>>

\* host_os: the cache, or the answer to the marker; no answer is taken for posix
HostOs(t) ==
    /\ prober[t].at \in {"unasked", "rest", "done"}
    /\ UNCHANGED <<spoken, reinstalls, cached>>
    /\ IF cached # None THEN Goes(t, "try", cached, None)
       ELSE \/ Goes(t, "cache", spoken, spoken)
            \/ Goes(t, "try", "posix", None)

\* set_host_os of what was told; a prober that only asked for the dialect is done
SetHostOs(t) ==
    /\ prober[t].at \in {"cache", "correct"}
    /\ cached' = prober[t].told
    /\ Goes(t, IF prober[t].at = "cache" THEN "try" ELSE "done", prober[t].expected, None)
    /\ UNCHANGED <<spoken, reinstalls>>

(* try_probe in the expected dialect, then in the other one unless ssh     *)
(* timed out. The script of the other dialect cannot run there, and the    *)
(* first one may fail even so.                                             *)
Mutant_TrustsTheCache(os, t) == FALSE
Corrects(os, t) == os # prober[t].expected
Learns(t, os) ==
    IF Corrects(os, t) THEN Goes(t, "correct", prober[t].expected, os)
    ELSE Goes(t, "done", prober[t].expected, None)
TryProbe(t) ==
    /\ prober[t].at = "try"
    /\ UNCHANGED <<spoken, reinstalls, cached>>
    /\ \/ prober[t].expected = spoken /\ Learns(t, spoken)
       \/ Goes(t, "retry", prober[t].expected, None)
       \/ Goes(t, "rest", "posix", None)
RetryOther(t) ==
    /\ prober[t].at = "retry"
    /\ UNCHANGED <<spoken, reinstalls, cached>>
    /\ \/ Other(prober[t].expected) = spoken /\ Learns(t, spoken)
       \/ Goes(t, "rest", "posix", None)

DialectNext == Reinstall \/ \E t \in Probers :
    HostOs(t) \/ SetHostOs(t) \/ TryProbe(t) \/ RetryOther(t)
DialectSpec == DialectInit /\ [][DialectNext]_dialectVars

(* A user who probes probes again, and a probe that could succeed at last  *)
(* does.                                                                   *)
Succeeds(t) == (TryProbe(t) \/ RetryOther(t)) /\ prober'[t].at \in {"correct", "done"}
WrongDialect(t) == TryProbe(t) /\ prober[t].expected # spoken /\ prober'[t].at = "retry"
DialectFairness ==
    /\ \A t \in Probers : /\ WF_dialectVars(prober[t].at # "unasked" /\ HostOs(t))
                          /\ WF_dialectVars(SetHostOs(t))
    /\ SF_dialectVars(\E t \in Probers : Succeeds(t))
    /\ SF_dialectVars(\E t \in Probers : WrongDialect(t))
DialectFairSpec == DialectSpec /\ DialectFairness

-----------------------------------------------------------------------------
(* The cache heals: when the host stops changing and probes get through,   *)
(* what is cached is what the host speaks, or nothing; neither a cached    *)
(* answer from before a reinstall nor the guess after a failed marker      *)
(* stays, in whatever order concurrent probes write theirs.                *)
CacheHeals ==
    []((\E t \in Probers : prober[t].at # "unasked") => <>[](cached \in {None, spoken}))
=============================================================================
