--------------------------- MODULE DnsResolution ---------------------------
(***************************************************************************)
(* The resolver that install() of net/dns_budget.py gives every worker of  *)
(* a node: AdmittedResolver.resolve_name takes a slot (DnsAdmission), and  *)
(* every packet of the resolution goes through the gate (DnsBudget) while  *)
(* the slot is held.  A process resolves nothing before its probe has been *)
(* through the gate, so its threads ask for slots only when it is up.      *)
(*                                                                         *)
(* pc and the other variables of DnsAdmission keep their names; what is pc *)
(* in DnsBudget is `at` here, a thread's place in Budget.send.             *)
(***************************************************************************)
EXTENDS DnsAdmission

CONSTANTS Qps, Interval, Horizon, MaxAttempts  \* of DnsBudget

ASSUME QpsAssumption == None \notin Qps
ASSUME IntervalAssumption ==
    /\ Horizon \in Nat
    /\ Interval \in [Qps -> 1..Horizon]

VARIABLES up, rate, at, holder, fileQps, attempts, slept, sinceSend, sends, unsent

Gate == INSTANCE DnsBudget WITH pc <- at

gate == <<up, rate, at, holder, fileQps, attempts, slept, sinceSend, sends, unsent>>
node == <<pc, next, taken, waited, idle, up, rate, at, holder, fileQps, attempts, slept,
          sinceSend, sends, unsent>>

NodeInit == Init /\ Gate!Init

\* getaddrinfo, which install has routed to AdmittedResolver.resolve_name.
Resolve(t) == up[Of[t]] = "up" /\ Enter(t) /\ UNCHANGED gate

\* Slip: resolve_name is not wrapped, and any thread of the process may send.
QueryUnadmitted(t) == Gate!Call(t) /\ UNCHANGED vars

\* A packet of the resolution, of which there may be any number, one after
\* the other; or the probe of a process that is installing.
Query(t) ==
    /\ up[Of[t]] = "up" => pc[t] = "in"
    /\ Gate!Call(t)
    /\ UNCHANGED vars

\* The rest of Budget.send.
Paced(t) ==
    /\ \/ Gate!Lock(t) \/ Gate!ReadState(t) \/ Gate!Refuse(t) \/ Gate!CountAttempt(t)
       \/ Gate!Wake(t) \/ Gate!Operate(t) \/ Gate!Release(t)
    /\ UNCHANGED vars

\* Slip: the slot is given back while a packet waits for the gate.
ReturnEarly(t) == Leave(t) /\ UNCHANGED gate

\* resolve_name returns or raises, with no packet on its way; the slot goes.
Return(t) == at[t] = "idle" /\ Leave(t) /\ UNCHANGED gate

\* A process dies with its slots and the gate; one that is only installing
\* has no slots to lose.
Perish(p) ==
    /\ Gate!Die(p)
    /\ IF \E t \in Thread : Of[t] = p /\ pc[t] # "out" THEN Die(p) ELSE UNCHANGED vars

\* Polls and intervals are measured by clocks of their own.
Time == (Tick /\ UNCHANGED gate) \/ (Gate!Tick /\ UNCHANGED vars)

NodeNext ==
    \/ \E t \in Thread : Resolve(t) \/ Query(t) \/ Paced(t) \/ Return(t)
    \/ \E t \in Thread : (Waiting(t) \/ Raise(t)) /\ UNCHANGED gate
    \/ \E p \in Process : Gate!Start(p) /\ UNCHANGED vars
    \/ \E p \in Process : Perish(p)
    \/ Time

NodeSpec == NodeInit /\ [][NodeNext]_node

-----------------------------------------------------------------------------
\* What the gate promises, of the gate in a resolver that admits first.

\* At most one thread is inside the gate, and no death leaves it locked.
OneSender == Gate!OneSender

\* No two packets of a node are closer than the shared interval.
SendsSpaced == Gate!SendsSpaced

\* The file counts every packet, and too many only for what sent none.
CountCoversSends == Gate!CountCoversSends

\* No process runs at another rate than the file's.
ConflictNeverUp == Gate!ConflictNeverUp

\* "This bounds contention": however many threads a node has, no more than
\* Limit of them and one probe for each process that installs are at the gate
\* or in front of it, so that is all a packet's deadline can wait behind.
GateQueueBounded ==
    Cardinality({t \in Thread : at[t] # "idle"})
        <= Limit + Cardinality({p \in Process : up[p] = "starting"})

\* Whoever sends a packet still has its slot, through timeouts and deaths of
\* its neighbours.
PacketsAdmitted ==
    [][sends' # sends =>
          holder \in Active /\ \E s \in Slot : taken[s] = holder /\ taken'[s] = holder]_node
=============================================================================
