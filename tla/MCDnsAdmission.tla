--------------------------- MODULE MCDnsAdmission ---------------------------
(* DnsAdmission with two threads in one process and one or two in another. *)
EXTENDS DnsAdmission

CONSTANTS p1, p2, t1, t2, t3, t4

MCOf == [t \in Thread |-> IF t \in {t1, t2} THEN p1 ELSE p2]
=============================================================================
