------------------------------ MODULE RunStats ------------------------------
(***************************************************************************)
(* The summary of a run and the two experiments' registered criteria:      *)
(* RunSummary and judge of core/download_stats.py, judge_distribution of   *)
(* core/node_plan.py.                                                      *)
(*                                                                         *)
(* A rate is a fraction <<n, d>>, and none at all when d = 0.  A criterion *)
(* that may not have been tested is a set: {} for None.                    *)
(***************************************************************************)
EXTENDS Integers, Sequences, SequencesExt, FiniteSetsExt

Known(f) == f[2] > 0
AtMost(f, g) == f[1] * g[2] <= g[1] * f[2]
Plus(f, g) == <<f[1] * g[2] + g[1] * f[2], f[2] * g[2]>>
Minus(f, g) == <<f[1] * g[2] - g[1] * f[2], f[2] * g[2]>>
Times(f, g) == <<f[1] * g[1], f[2] * g[2]>>

\* mean of the known ones
Mean(fs) ==
    LET known == {i \in DOMAIN fs : Known(fs[i])}
        sum == FoldFunctionOnSet(Plus, <<0, 1>>, fs, known)
    IN  <<sum[1], sum[2] * Cardinality(known)>>

MIN_SPEEDUP == <<15, 10>>
MAX_YIELD_DROP == <<5, 100>>
MAX_DNS_RISE == <<3, 100>>
MAX_BASELINE_DRIFT == <<20, 100>>
MIN_DISTRIBUTION_RATIO == <<8, 10>>

\* FailureCounts.__add__, on what the criteria read of it.
AddCounts(a, b) == [candidates |-> a.candidates + b.candidates,
                    successes |-> a.successes + b.successes, dns |-> a.dns + b.dns]

EmptyCounts == [candidates |-> 0, successes |-> 0, dns |-> 0]

\* The counts of all shards of a run, in whatever order.
from_stats(processes, wall_seconds, stats) ==
    [processes |-> processes, wall |-> wall_seconds,
     counts |-> FoldSeq(AddCounts, EmptyCounts, stats)]

yield_rate(r) == <<r.counts.successes, r.counts.candidates>>
successes_per_sec(r) == <<r.counts.successes, r.wall>>

dns_fraction(r) == <<r.counts.dns, r.counts.candidates>>

\* How far b is from a, as a fraction of a; unknown if a is nothing.
Drift(a, b) ==
    LET first == successes_per_sec(a)  last == successes_per_sec(b)
        gap == IF AtMost(first, last) THEN Minus(last, first) ELSE Minus(first, last)
    IN  IF first[1] = 0 \/ ~Known(first) \/ ~Known(last) THEN <<0, 0>>
        ELSE <<gap[1] * first[2], gap[2] * first[1]>>

Stable(drift) == IF Known(drift) THEN {AtMost(drift, MAX_BASELINE_DRIFT)} ELSE {}

\* Slip: the other way round.
DropReversed(base, f) ==
    Known(base) /\ Known(f) => AtMost(Minus(f, base), MAX_YIELD_DROP)

\* base - r.yield_rate <= MAX_YIELD_DROP, when both are known
YieldKept(base, f) == Known(base) /\ Known(f) => AtMost(Minus(base, f), MAX_YIELD_DROP)
DnsKept(base, f) == Known(base) /\ Known(f) => AtMost(Minus(f, base), MAX_DNS_RISE)

Rejected(criterion, yield_preserved, dns_stable, baseline_stable) ==
    FALSE \in criterion \/ ~yield_preserved \/ ~dns_stable \/ FALSE \in baseline_stable

-----------------------------------------------------------------------------
(* Experiment 0002: the first run is the baseline, the first one of another *)
(* process count is compared with it, the first of the same controls it.    *)

FirstOf(runs, Test(_)) ==
    LET some == {i \in 2..Len(runs) : Test(runs[i])}
    IN  IF some = {} THEN {} ELSE {runs[Min(some)]}

Scales(base, scaled) ==
    {AtMost(Times(MIN_SPEEDUP, successes_per_sec(base)), successes_per_sec(r)) :
       r \in {s \in scaled : /\ successes_per_sec(base)[1] > 0
                             /\ Known(successes_per_sec(base))
                             /\ Known(successes_per_sec(s))}}

judge(runs) ==
    LET base == Head(runs)
        scaled == FirstOf(runs, LAMBDA r : r.processes # base.processes)
        repeat == FirstOf(runs, LAMBDA r : r.processes = base.processes)
        scales == Scales(base, scaled)
        others == ToSet(Tail(runs))
        yield_preserved == \A r \in others : YieldKept(yield_rate(base), yield_rate(r))
        dns_stable == \A r \in others : DnsKept(dns_fraction(base), dns_fraction(r))
        stable == UNION {Stable(Drift(base, r)) : r \in repeat}
    IN  [criterion |-> scales,
         rejected |-> Rejected(scales, yield_preserved, dns_stable, stable)]

-----------------------------------------------------------------------------
(* Experiment 0003: the mean of the single-node runs against the multi-node *)
(* run, a set that is empty when there is none.                             *)

\* Runs that stored nothing, or whose time is unknown, are not averaged.
SingleRate(single) ==
    LET Rate(r) == IF r.counts.successes > 0 THEN successes_per_sec(r) ELSE <<0, 0>>
    IN  Mean([i \in DOMAIN single |-> Rate(single[i])])

judge_distribution(single, multi) ==
    LET rate == SingleRate(single)
        neutral == {AtMost(Times(MIN_DISTRIBUTION_RATIO, rate), successes_per_sec(m)) :
                      m \in {r \in multi : Known(rate) /\ Known(successes_per_sec(r))}}
        base_yield == Mean([i \in DOMAIN single |-> yield_rate(single[i])])
        base_dns == Mean([i \in DOMAIN single |-> dns_fraction(single[i])])
        yield_preserved == \A m \in multi : YieldKept(base_yield, yield_rate(m))
        dns_stable == \A m \in multi : DnsKept(base_dns, dns_fraction(m))
        stable == IF Len(single) < 2 THEN {}
                  ELSE Stable(Drift(Head(single), Last(single)))
    IN  [criterion |-> neutral,
         rejected |-> Rejected(neutral, yield_preserved, dns_stable, stable)]
=============================================================================
