-------------------------- MODULE MCDnsResolution --------------------------
(* DnsResolution with two threads in one process and one in another. *)
EXTENDS DnsResolution, TLC

CONSTANTS p1, p2, t1, t2, t3

MCOf == [t \in Thread |-> IF t = t3 THEN p2 ELSE p1]
MCInterval == [q \in Qps |-> 1]

\* The two threads of one process are alike.
Twins == Permutations({t1, t2})
=============================================================================
