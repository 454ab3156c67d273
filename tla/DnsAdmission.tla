---------------------------- MODULE DnsAdmission ----------------------------
(***************************************************************************)
(* ResolutionAdmission of net/dns_budget.py: at most Limit resolutions at  *)
(* once on a node, across the threads of all its worker processes.         *)
(*                                                                         *)
(* There is one lock file per slot.  A thread tries the slots in order     *)
(* with a non-blocking flock, and after a full scan without one looks at   *)
(* its deadline and sleeps a poll interval.  Nothing queues: slots are     *)
(* taken and given back while others are half-way through a scan.          *)
(***************************************************************************)
EXTENDS Integers, FiniteSets

CONSTANTS
    Process, Thread, Of,  \* worker processes, their threads, thread |-> process
    Limit,                \* slots
    Wait,                 \* wait_seconds, in polls of 0.05 s
    None

ASSUME ThreadAssumption == Of \in [Thread -> Process] /\ None \notin Thread
ASSUME BoundsAssumption == Limit \in Nat \ {0} /\ Wait \in Nat \ {0}

Slot == 0..Limit - 1

VARIABLES
    pc,      \* a thread: "out", "scan", "full" (scanned in vain), "sleep",
             \* "in" or "refused"
    next,    \* the slot a scanning thread tries next
    taken,   \* slot |-> the thread whose flock is on it
    waited,  \* ticks since the thread called enter, saturating at Wait
    idle     \* history: slots free ever since the thread's scan began

vars == <<pc, next, taken, waited, idle>>

TypeOK ==
    /\ pc \in [Thread -> {"out", "scan", "full", "sleep", "in", "refused"}]
    /\ next \in [Thread -> 0..Limit]
    /\ taken \in [Slot -> Thread \cup {None}]
    /\ waited \in [Thread -> 0..Wait]
    /\ idle \in [Thread -> SUBSET Slot]

Active == {t \in Thread : pc[t] = "in"}
Free == {s \in Slot : taken[s] = None}

Init ==
    /\ pc = [t \in Thread |-> "out"]
    /\ next = [t \in Thread |-> 0]
    /\ taken = [s \in Slot |-> None]
    /\ waited = [t \in Thread |-> 0]
    /\ idle = [t \in Thread |-> {}]

Goto(t, label) == pc' = [pc EXCEPT ![t] = label]

\* for slot in range(limit)
BeginScan(t) ==
    /\ Goto(t, "scan")
    /\ next' = [next EXCEPT ![t] = 0]
    /\ idle' = [idle EXCEPT ![t] = Free]

Enter(t) ==
    /\ pc[t] = "out"
    /\ BeginScan(t)
    /\ waited' = [waited EXCEPT ![t] = 0]
    /\ UNCHANGED taken

\* Slip: the failed flock is ignored.
GrantedAnyway(s) == s \in Slot

\* flock(LOCK_EX | LOCK_NB)
Granted(s) == s \in Free

TakeSlot(t) ==
    /\ pc[t] = "scan" /\ Granted(next[t])
    /\ taken' = [taken EXCEPT ![next[t]] = t]
    /\ idle' = [u \in Thread |-> idle[u] \ {next[t]}]
    /\ Goto(t, "in")
    /\ UNCHANGED <<next, waited>>

\* BlockingIOError: close the descriptor, try the next one.
SkipSlot(t) ==
    /\ pc[t] = "scan" /\ next[t] \in Slot \ Free
    /\ next' = [next EXCEPT ![t] = @ + 1]
    /\ UNCHANGED <<pc, taken, waited, idle>>

\* Slip: range(limit - 1).
ScannedButOne(t) == next[t] = Limit - 1

Scanned(t) == next[t] = Limit

ScanEnds(t) ==
    /\ pc[t] = "scan" /\ Scanned(t)
    /\ Goto(t, "full")
    /\ UNCHANGED <<next, taken, waited, idle>>

\* Slip: there is no deadline.
LateNever(t) == waited[t] > Wait

\* time.monotonic() >= deadline
Late(t) == waited[t] >= Wait

Pause(t) ==
    /\ pc[t] = "full" /\ ~Late(t)
    /\ Goto(t, "sleep")
    /\ UNCHANGED <<next, taken, waited, idle>>

TimeOut(t) ==
    /\ pc[t] = "full" /\ Late(t)
    /\ Goto(t, "refused")
    /\ UNCHANGED <<next, taken, waited, idle>>

Retry(t) ==
    /\ pc[t] = "sleep"
    /\ BeginScan(t)
    /\ UNCHANGED <<taken, waited>>

\* LOCK_UN and close, whether the resolution returned or raised.
Leave(t) ==
    /\ pc[t] = "in"
    /\ taken' = [s \in Slot |-> IF taken[s] = t THEN None ELSE taken[s]]
    /\ Goto(t, "out")
    /\ UNCHANGED <<next, waited, idle>>

\* The TimeoutError reaches the caller, which may resolve again.
Raise(t) ==
    /\ pc[t] = "refused"
    /\ Goto(t, "out")
    /\ UNCHANGED <<next, taken, waited, idle>>

Waiting(t) == SkipSlot(t) \/ TakeSlot(t) \/ ScanEnds(t) \/ Pause(t)
              \/ TimeOut(t) \/ Retry(t)

\* Slip: slots are files that outlive their holder.
TakenOutliving(p) == taken

\* The kernel drops the locks of a process that ends.
TakenWithout(p) == [s \in Slot |-> IF taken[s] # None /\ Of[taken[s]] = p
                                   THEN None ELSE taken[s]]

\* A dying process gives back the slots of all its threads; its replacement
\* starts with none.
Die(p) ==
    /\ \E t \in Thread : Of[t] = p /\ pc[t] # "out"
    /\ pc' = [t \in Thread |-> IF Of[t] = p THEN "out" ELSE pc[t]]
    /\ taken' = TakenWithout(p)
    /\ UNCHANGED <<next, waited, idle>>

\* One poll interval.
Tick ==
    /\ waited' = [t \in Thread |-> IF pc[t] \in {"scan", "full", "sleep"} /\ waited[t] < Wait
                                   THEN waited[t] + 1 ELSE waited[t]]
    /\ UNCHANGED <<pc, next, taken, idle>>

Next ==
    \/ \E t \in Thread : Enter(t) \/ Waiting(t) \/ Leave(t) \/ Raise(t)
    \/ \E p \in Process : Die(p)
    \/ Tick

Spec == Init /\ [][Next]_vars

\* A thread that waits runs on and time passes.  Nothing obliges a resolution
\* to end, so a thread inside may stay there for good.
FairSpec == Spec /\ (\A t \in Thread : WF_vars(Waiting(t))) /\ WF_vars(Tick)

-----------------------------------------------------------------------------
\* Never more than Limit resolutions at once, whoever dies meanwhile.
AtMostLimit == Cardinality(Active) <= Limit

\* A thread inside has exactly one slot and no slot is held from outside:
\* slots neither leak on an error, a death or a timeout, nor double.
SlotsMatchActive ==
    /\ \A t \in Active : \E s \in Slot : \A r \in Slot : taken[r] = t <=> r = s
    /\ \A s \in Slot : taken[s] # None => taken[s] \in Active

\* Nobody is turned away, or even sent to sleep, past a slot that was free
\* all through the scan.
NoIdleSlotMissed == \A t \in Thread : pc[t] = "full" => idle[t] = {}

\* The slots, the scans and the polls implement a counting admission: every
\* entry finds fewer than Limit inside, though no thread ever counts them, and
\* a death is one step for whoever looks from outside.
Waiters == {t \in Thread : pc[t] \in {"scan", "full", "sleep"}}
Counting == INSTANCE Admission WITH waiting <- Waiters, inside <- Active
ImplementsAdmission == Counting!Spec

\* A thread that asks for a slot is let in, refused, or dies: no wait is
\* endless, even if nobody ever leaves.
EveryWaitEnds ==
    \A t \in Thread : pc[t] = "scan" ~> pc[t] \in {"in", "refused", "out"}
=============================================================================
