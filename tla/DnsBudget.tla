------------------------------ MODULE DnsBudget ------------------------------
(***************************************************************************)
(* The transport gate every DNS packet of a node's workers goes through:   *)
(* Budget.send of net/dns_budget.py, the probe install() makes with it,    *)
(* and the fail-closed start of a worker in sitecustomize.py.              *)
(*                                                                         *)
(* Threads of several processes share one state file.  A send takes the    *)
(* exclusive flock, checks and counts in the file, sleeps out a fresh      *)
(* interval under the lock, writes to the socket and lets go.  A process   *)
(* may die at any step, and the kernel then drops its locks.               *)
(* DnsResolution, which instantiates this module, states what is assumed   *)
(* of the constants.                                                       *)
(***************************************************************************)
EXTENDS Integers

CONSTANTS
    Process, Thread, Of,  \* worker processes, their threads, thread |-> process
    Qps,                  \* the settings Budget accepts, 0 < qps <= MAX_QPS
    Interval,             \* ticks of time.sleep(1 / qps), by setting
    Horizon,              \* where clocks saturate: no interval is longer
    MaxAttempts,          \* bound on the counted attempts of one behaviour
    None

VARIABLES
    up,         \* a process: "down", "starting" (installing) or "up"
    rate,       \* the qps it was configured with
    pc,         \* a thread's place in Budget.send
    holder,     \* who has the flock
    fileQps, attempts,  \* the state file; no qps while it is empty
    slept,      \* ticks the holder has slept
    sinceSend,  \* ticks since a packet last left, saturating
    sends,      \* history: packets written to a socket
    unsent      \* history: counted attempts no packet came of

file == <<fileQps, attempts>>
vars == <<up, rate, pc, holder, fileQps, attempts, slept, sinceSend, sends, unsent>>

Held == {"read", "count", "sleep", "send", "release"}

TypeOK ==
    /\ up \in [Process -> {"down", "starting", "up"}]
    /\ rate \in [Process -> Qps]
    /\ pc \in [Thread -> {"idle", "wait"} \cup Held]
    /\ holder \in Thread \cup {None}
    /\ fileQps \in Qps \cup {None} /\ attempts \in Nat
    /\ slept \in 0..Horizon /\ sinceSend \in 0..Horizon
    /\ sends \in Nat /\ unsent \in Nat

Init ==
    /\ up = [p \in Process |-> "down"]
    /\ rate \in [Process -> Qps]
    /\ pc = [t \in Thread |-> "idle"]
    /\ holder = None
    /\ fileQps = None /\ attempts = 0
    /\ slept = 0 /\ sinceSend = Horizon
    /\ sends = 0 /\ unsent = 0

Goto(t, label) == pc' = [pc EXCEPT ![t] = label]

-----------------------------------------------------------------------------
\* Budget.send, called by the probe of a starting process or by a resolver
\* thread of a running one.

Call(t) ==
    /\ pc[t] = "idle"
    /\ \/ up[Of[t]] = "up"
       \/ up[Of[t]] = "starting" /\ \A u \in Thread : Of[u] = Of[t] => pc[u] = "idle"
    /\ Goto(t, "wait")
    /\ UNCHANGED <<up, rate, holder, file, slept, sinceSend, sends, unsent>>

\* Slip: one descriptor per process, which flock does not serialise threads on.
GrantedPerProcess(t) == holder \in {None} \cup {u \in Thread : Of[u] = Of[t]}

\* flock(LOCK_EX) on a descriptor of this call's own.
Granted(t) == holder = None

Lock(t) ==
    /\ pc[t] = "wait" /\ Granted(t)
    /\ attempts < MaxAttempts
    /\ holder' = t
    /\ Goto(t, "read")
    /\ UNCHANGED <<up, rate, file, slept, sinceSend, sends, unsent>>

\* Slip: the shared file's rate is not compared.
MatchesAnything(t) == TRUE

Matches(t) == fileQps \in {None, rate[Of[t]]}

ReadState(t) ==
    /\ pc[t] = "read" /\ Matches(t)
    /\ Goto(t, "count")
    /\ UNCHANGED <<up, rate, holder, file, slept, sinceSend, sends, unsent>>

\* The conflict raises: the file closes, and a process still installing exits
\* with 78 instead of starting its work.
Refuse(t) ==
    /\ pc[t] = "read" /\ ~Matches(t)
    /\ holder' = None
    /\ Goto(t, "idle")
    /\ up' = IF up[Of[t]] = "starting" THEN [up EXCEPT ![Of[t]] = "down"] ELSE up
    /\ UNCHANGED <<rate, file, slept, sinceSend, sends, unsent>>

\* Slip: time slept by earlier holders is credited, as a token bucket would.
CountAttemptCredited(t) ==
    /\ pc[t] = "count"
    /\ fileQps' = rate[Of[t]] /\ attempts' = attempts + 1
    /\ Goto(t, "sleep")
    /\ UNCHANGED <<up, rate, holder, slept, sinceSend, sends, unsent>>

\* Slip: a new file starts at zero without its first attempt.
CountedFromZero == IF fileQps = None THEN 0 ELSE attempts + 1

Counted == attempts + 1

CountAttempt(t) ==
    /\ pc[t] = "count"
    /\ fileQps' = rate[Of[t]] /\ attempts' = Counted
    /\ slept' = 0
    /\ Goto(t, "sleep")
    /\ UNCHANGED <<up, rate, holder, sinceSend, sends, unsent>>

Wake(t) ==
    /\ pc[t] = "sleep" /\ slept >= Interval[rate[Of[t]]]
    /\ Goto(t, "send")
    /\ UNCHANGED <<up, rate, holder, file, slept, sinceSend, sends, unsent>>

\* operation(): the socket write, whatever comes of it, or the probe's no-op.
Operate(t) ==
    /\ pc[t] = "send"
    /\ IF up[Of[t]] = "starting"
       THEN unsent' = unsent + 1 /\ UNCHANGED <<sends, sinceSend>>
       ELSE sends' = sends + 1 /\ sinceSend' = 0 /\ UNCHANGED unsent
    /\ Goto(t, "release")
    /\ UNCHANGED <<up, rate, holder, file, slept>>

\* The file closes; the probe's return lets the process start.
Release(t) ==
    /\ pc[t] = "release"
    /\ holder' = None
    /\ up' = [up EXCEPT ![Of[t]] = "up"]
    /\ Goto(t, "idle")
    /\ UNCHANGED <<rate, file, slept, sinceSend, sends, unsent>>

Send(t) ==
    \/ Call(t) \/ Lock(t) \/ ReadState(t) \/ Refuse(t) \/ CountAttempt(t)
    \/ Wake(t) \/ Operate(t) \/ Release(t)

-----------------------------------------------------------------------------
\* Workers are spawned, recycled and killed; time passes.

Start(p) ==
    /\ up[p] = "down"
    /\ up' = [up EXCEPT ![p] = "starting"]
    /\ rate' \in {[rate EXCEPT ![p] = q] : q \in Qps}
    /\ UNCHANGED <<pc, holder, file, slept, sinceSend, sends, unsent>>

Mine(p) == {t \in Thread : Of[t] = p}

\* The kernel drops the locks of a process that ends.
HolderWithout(p) == IF holder \in Mine(p) THEN None ELSE holder

Die(p) ==
    /\ up[p] # "down"
    /\ up' = [up EXCEPT ![p] = "down"]
    /\ pc' = [t \in Thread |-> IF t \in Mine(p) THEN "idle" ELSE pc[t]]
    /\ holder' = HolderWithout(p)
    /\ unsent' = IF \E t \in Mine(p) : pc[t] \in {"sleep", "send"}
                 THEN unsent + 1 ELSE unsent
    /\ UNCHANGED <<rate, file, slept, sinceSend, sends>>

Later(clock) == IF clock < Horizon THEN clock + 1 ELSE clock

Tick ==
    /\ slept' = Later(slept) /\ sinceSend' = Later(sinceSend)
    /\ UNCHANGED <<up, rate, pc, holder, file, sends, unsent>>

Next ==
    \/ \E t \in Thread : Send(t)
    \/ \E p \in Process : Start(p) \/ Die(p)
    \/ Tick

Spec == Init /\ [][Next]_vars

-----------------------------------------------------------------------------
\* The flock keeps every thread of every process out while one is between
\* reading the file and closing it, and no error or death leaves it locked
\* with nobody inside, which would silence the node.
OneSender ==
    /\ \A t, u \in Thread : pc[t] \in Held /\ pc[u] \in Held => t = u
    /\ holder # None => pc[holder] \in Held

\* "A fresh interval is waited under the lock before EVERY write, including
\* after a crashed writer releases its lock": two packets, of whatever
\* processes, are never closer than the interval of the shared file.
SendsSpaced == [][sends' # sends => sinceSend >= Interval[fileQps]]_vars

\* "A crash may overcount": the file never counts fewer packets than left,
\* and each attempt too many is a probe, a death between count and write, or
\* the one attempt in flight.
CountCoversSends ==
    /\ sends + unsent <= attempts
    /\ attempts <= sends + unsent + 1

\* A process configured with another rate than the file's never gets past
\* installation, so it never writes a packet at its own pace.
ConflictNeverUp == \A p \in Process : up[p] = "up" => fileQps = rate[p]
=============================================================================
