------------------------ MODULE DnsResolutionProofs ------------------------
(***************************************************************************)
(* What net/dns_budget.py promises, for every set of processes and threads,*)
(* every limit, every rate and every interval: the packet gate by itself,  *)
(* the admission by itself, and the two as the resolver composes them.     *)
(***************************************************************************)
EXTENDS DnsResolution, FiniteSetTheorems, TLAPS

-----------------------------------------------------------------------------
(* The gate: mutual exclusion, the spacing of packets, the count and the   *)
(* refusal of conflicting rates.                                           *)
(*                                                                         *)
(* GateInv is inductive.  The flock gives mutual exclusion (HolderHolds);  *)
(* with it, whoever has slept under the lock has been alone for that long  *)
(* (SleptAlone), and there is one attempt in flight at most (Account).  A  *)
(* process keeps its rate because it only starts once its lone probe has   *)
(* seen the file agree (StartsAlone, DownIdle, RateAgrees).                *)

HolderHolds == \A t \in Thread : at[t] \in Gate!Held <=> holder = t

DownIdle == \A t \in Thread : up[Of[t]] = "down" => at[t] = "idle"

StartsAlone ==
    \A t, u \in Thread :
        (up[Of[t]] = "starting" /\ Of[u] = Of[t] /\ at[t] # "idle" /\ at[u] # "idle")
            => t = u

RateAgrees ==
    /\ Gate!ConflictNeverUp
    /\ \A t \in Thread : /\ at[t] = "count" => fileQps \in {None, rate[Of[t]]}
                         /\ at[t] \in {"sleep", "send", "release"} => fileQps = rate[Of[t]]

SleptAlone ==
    \A t \in Thread : /\ at[t] = "sleep" => slept <= sinceSend
                      /\ at[t] = "send" => Interval[rate[Of[t]]] <= sinceSend

InFlight == \E t \in Thread : at[t] \in {"sleep", "send"}
Account == attempts = sends + unsent + (IF InFlight THEN 1 ELSE 0)

GateInv == Gate!TypeOK /\ HolderHolds /\ DownIdle /\ StartsAlone /\ RateAgrees
        /\ SleptAlone /\ Account

-----------------------------------------------------------------------------
\* Every step of the gate keeps the types.
LEMMA GateTypeStep == Gate!TypeOK /\ [Gate!Next]_(Gate!vars) => Gate!TypeOK'
<1> SUFFICES ASSUME Gate!TypeOK, [Gate!Next]_(Gate!vars) PROVE Gate!TypeOK'
    OBVIOUS
<1> USE ThreadAssumption, QpsAssumption, IntervalAssumption
        DEF Gate!TypeOK, Gate!Held, Gate!Goto, Gate!file
<1>1. ASSUME NEW t \in Thread, Gate!Send(t) PROVE Gate!TypeOK'
  <2>1. CASE Gate!Call(t)         BY <2>1 DEF Gate!Call
  <2>2. CASE Gate!Lock(t)         BY <2>2 DEF Gate!Lock, Gate!Granted
  <2>3. CASE Gate!ReadState(t)    BY <2>3 DEF Gate!ReadState
  <2>4. CASE Gate!Refuse(t)       BY <2>4 DEF Gate!Refuse
  <2>5. CASE Gate!CountAttempt(t) BY <2>5 DEF Gate!CountAttempt, Gate!Counted
  <2>6. CASE Gate!Wake(t)         BY <2>6 DEF Gate!Wake
  <2>7. CASE Gate!Operate(t)      BY <2>7 DEF Gate!Operate
  <2>8. CASE Gate!Release(t)      BY <2>8 DEF Gate!Release
  <2>9. QED BY <1>1, <2>1, <2>2, <2>3, <2>4, <2>5, <2>6, <2>7, <2>8 DEF Gate!Send
<1>2. ASSUME NEW p \in Process, Gate!Start(p) PROVE Gate!TypeOK'
      BY <1>2 DEF Gate!Start
<1>3. ASSUME NEW p \in Process, Gate!Die(p) PROVE Gate!TypeOK'
      BY <1>3 DEF Gate!Die, Gate!HolderWithout
<1>4. CASE Gate!Tick
      BY <1>4 DEF Gate!Tick, Gate!Later
<1>5. CASE UNCHANGED Gate!vars
      BY <1>5 DEF Gate!vars
<1>6. QED BY <1>1, <1>2, <1>3, <1>4, <1>5 DEF Gate!Next

\* The lock holder is exactly the thread between lock and release.
LEMMA HolderStep == Gate!TypeOK /\ HolderHolds /\ [Gate!Next]_(Gate!vars) => HolderHolds'
<1> SUFFICES ASSUME Gate!TypeOK, HolderHolds, [Gate!Next]_(Gate!vars) PROVE HolderHolds'
    OBVIOUS
<1> USE ThreadAssumption DEF Gate!TypeOK, HolderHolds, Gate!Held, Gate!Goto
<1>1. ASSUME NEW t \in Thread, Gate!Send(t) PROVE HolderHolds'
  <2>1. CASE Gate!Call(t)         BY <2>1 DEF Gate!Call
  <2>2. CASE Gate!Lock(t)         BY <2>2 DEF Gate!Lock, Gate!Granted
  <2>3. CASE Gate!ReadState(t)    BY <2>3 DEF Gate!ReadState
  <2>4. CASE Gate!Refuse(t)       BY <2>4 DEF Gate!Refuse
  <2>5. CASE Gate!CountAttempt(t) BY <2>5 DEF Gate!CountAttempt, Gate!Counted
  <2>6. CASE Gate!Wake(t)         BY <2>6 DEF Gate!Wake
  <2>7. CASE Gate!Operate(t)      BY <2>7 DEF Gate!Operate
  <2>8. CASE Gate!Release(t)      BY <2>8 DEF Gate!Release
  <2>9. QED BY <1>1, <2>1, <2>2, <2>3, <2>4, <2>5, <2>6, <2>7, <2>8 DEF Gate!Send
<1>2. ASSUME NEW p \in Process, Gate!Start(p) PROVE HolderHolds'
      BY <1>2 DEF Gate!Start
<1>3. ASSUME NEW p \in Process, Gate!Die(p) PROVE HolderHolds'
      BY <1>3 DEF Gate!Die, Gate!HolderWithout, Gate!Mine
<1>4. CASE Gate!Tick \/ UNCHANGED Gate!vars
      BY <1>4 DEF Gate!Tick, Gate!vars
<1>5. QED BY <1>1, <1>2, <1>3, <1>4 DEF Gate!Next

\* A process that is down has no thread in the gate, and one that is starting
\* has its probe alone.
LEMMA StartStep ==
    Gate!TypeOK /\ DownIdle /\ StartsAlone /\ [Gate!Next]_(Gate!vars)
    => DownIdle' /\ StartsAlone'
<1> SUFFICES ASSUME Gate!TypeOK, DownIdle, StartsAlone, [Gate!Next]_(Gate!vars)
             PROVE  DownIdle' /\ StartsAlone'
    OBVIOUS
<1> USE ThreadAssumption DEF Gate!TypeOK, DownIdle, StartsAlone, Gate!Held, Gate!Goto
<1>1. ASSUME NEW t \in Thread, Gate!Send(t) PROVE DownIdle' /\ StartsAlone'
  <2>1. CASE Gate!Call(t)         BY <2>1 DEF Gate!Call
  <2>2. CASE Gate!Lock(t)         BY <2>2 DEF Gate!Lock, Gate!Granted
  <2>3. CASE Gate!ReadState(t)    BY <2>3 DEF Gate!ReadState
  <2>4. CASE Gate!Refuse(t)       BY <2>4 DEF Gate!Refuse
  <2>5. CASE Gate!CountAttempt(t) BY <2>5 DEF Gate!CountAttempt, Gate!Counted
  <2>6. CASE Gate!Wake(t)         BY <2>6 DEF Gate!Wake
  <2>7. CASE Gate!Operate(t)      BY <2>7 DEF Gate!Operate
  <2>8. CASE Gate!Release(t)      BY <2>8 DEF Gate!Release
  <2>9. QED BY <1>1, <2>1, <2>2, <2>3, <2>4, <2>5, <2>6, <2>7, <2>8 DEF Gate!Send
<1>2. ASSUME NEW p \in Process, Gate!Start(p) PROVE DownIdle' /\ StartsAlone'
      BY <1>2 DEF Gate!Start
<1>3. ASSUME NEW p \in Process, Gate!Die(p) PROVE DownIdle' /\ StartsAlone'
      BY <1>3 DEF Gate!Die, Gate!HolderWithout, Gate!Mine
<1>4. CASE Gate!Tick \/ UNCHANGED Gate!vars
      BY <1>4 DEF Gate!Tick, Gate!vars
<1>5. QED BY <1>1, <1>2, <1>3, <1>4 DEF Gate!Next

\* The file's rate is the rate of whoever is past its check.
LEMMA RateStep ==
    Gate!TypeOK /\ HolderHolds /\ DownIdle /\ RateAgrees /\ [Gate!Next]_(Gate!vars)
    => RateAgrees'
<1> SUFFICES ASSUME Gate!TypeOK, HolderHolds, DownIdle, RateAgrees, [Gate!Next]_(Gate!vars)
             PROVE  RateAgrees'
    OBVIOUS
<1> USE ThreadAssumption, QpsAssumption
        DEF Gate!TypeOK, RateAgrees, Gate!ConflictNeverUp, Gate!Held, Gate!Goto, Gate!file
<1>1. ASSUME NEW t \in Thread, Gate!Send(t) PROVE RateAgrees'
  <2>1. CASE Gate!Call(t)         BY <2>1 DEF Gate!Call
  <2>2. CASE Gate!Lock(t)         BY <2>2 DEF Gate!Lock, Gate!Granted
  <2>3. CASE Gate!ReadState(t)    BY <2>3 DEF Gate!ReadState, Gate!Matches
  <2>4. CASE Gate!Refuse(t)       BY <2>4 DEF Gate!Refuse
  <2>5. CASE Gate!CountAttempt(t)
    <3>1. fileQps = None \/ fileQps' = fileQps
          BY <2>5 DEF Gate!CountAttempt, Gate!Counted
    <3>2. \A u \in Thread : at'[u] \in {"count", "sleep", "send", "release"} => u = t
          BY <2>5 DEF Gate!CountAttempt, Gate!Counted, HolderHolds
    <3>3. QED BY <2>5, <3>1, <3>2 DEF Gate!CountAttempt, Gate!Counted
  <2>6. CASE Gate!Wake(t)         BY <2>6 DEF Gate!Wake
  <2>7. CASE Gate!Operate(t)      BY <2>7 DEF Gate!Operate
  <2>8. CASE Gate!Release(t)      BY <2>8 DEF Gate!Release
  <2>9. QED BY <1>1, <2>1, <2>2, <2>3, <2>4, <2>5, <2>6, <2>7, <2>8 DEF Gate!Send
<1>2. ASSUME NEW p \in Process, Gate!Start(p) PROVE RateAgrees'
  <2>1. \A t \in Thread : at[t] # "idle" => rate'[Of[t]] = rate[Of[t]]
        BY <1>2 DEF Gate!Start, DownIdle
  <2>2. \A r \in Process : up'[r] = "up" => up[r] = "up" /\ rate'[r] = rate[r]
        BY <1>2 DEF Gate!Start
  <2>3. QED BY <1>2, <2>1, <2>2 DEF Gate!Start
<1>3. ASSUME NEW p \in Process, Gate!Die(p) PROVE RateAgrees'
      BY <1>3 DEF Gate!Die, Gate!HolderWithout, Gate!Mine
<1>4. CASE Gate!Tick \/ UNCHANGED Gate!vars
      BY <1>4 DEF Gate!Tick, Gate!vars
<1>5. QED BY <1>1, <1>2, <1>3, <1>4 DEF Gate!Next

\* A sleep under the lock is a time without packets.
LEMMA SpacingStep ==
    Gate!TypeOK /\ HolderHolds /\ DownIdle /\ SleptAlone /\ [Gate!Next]_(Gate!vars)
    => SleptAlone'
<1> SUFFICES ASSUME Gate!TypeOK, HolderHolds, DownIdle, SleptAlone, [Gate!Next]_(Gate!vars)
             PROVE  SleptAlone'
    OBVIOUS
<1> USE ThreadAssumption, IntervalAssumption
        DEF Gate!TypeOK, SleptAlone, Gate!Held, Gate!Goto
<1>1. ASSUME NEW t \in Thread, Gate!Send(t) PROVE SleptAlone'
  <2>1. CASE Gate!Call(t)         BY <2>1 DEF Gate!Call
  <2>2. CASE Gate!Lock(t)         BY <2>2 DEF Gate!Lock, Gate!Granted
  <2>3. CASE Gate!ReadState(t)    BY <2>3 DEF Gate!ReadState
  <2>4. CASE Gate!Refuse(t)       BY <2>4 DEF Gate!Refuse
  <2>5. CASE Gate!CountAttempt(t) BY <2>5 DEF Gate!CountAttempt, Gate!Counted, HolderHolds
  <2>6. CASE Gate!Wake(t)         BY <2>6 DEF Gate!Wake
  <2>7. CASE Gate!Operate(t)      BY <2>7 DEF Gate!Operate, HolderHolds
  <2>8. CASE Gate!Release(t)      BY <2>8 DEF Gate!Release
  <2>9. QED BY <1>1, <2>1, <2>2, <2>3, <2>4, <2>5, <2>6, <2>7, <2>8 DEF Gate!Send
<1>2. ASSUME NEW p \in Process, Gate!Start(p) PROVE SleptAlone'
  <2>1. \A t \in Thread : at[t] # "idle" => rate'[Of[t]] = rate[Of[t]]
        BY <1>2 DEF Gate!Start, DownIdle
  <2>2. QED BY <1>2, <2>1 DEF Gate!Start
<1>3. ASSUME NEW p \in Process, Gate!Die(p) PROVE SleptAlone'
      BY <1>3 DEF Gate!Die, Gate!HolderWithout, Gate!Mine
<1>4. CASE Gate!Tick
  <2>1. slept <= sinceSend => slept' <= sinceSend'
        BY <1>4 DEF Gate!Tick, Gate!Later
  <2>2. \A i \in 1..Horizon : i <= sinceSend => i <= sinceSend'
        BY <1>4 DEF Gate!Tick, Gate!Later
  <2>3. QED BY <1>4, <2>1, <2>2 DEF Gate!Tick
<1>5. CASE UNCHANGED Gate!vars
      BY <1>5 DEF Gate!vars
<1>6. QED BY <1>1, <1>2, <1>3, <1>4, <1>5 DEF Gate!Next

\* Every attempt is a packet, a probe or a loss, or the one in flight.
LEMMA AccountStep ==
    Gate!TypeOK /\ HolderHolds /\ Account /\ [Gate!Next]_(Gate!vars) => Account'
<1> SUFFICES ASSUME Gate!TypeOK, HolderHolds, Account, [Gate!Next]_(Gate!vars)
             PROVE  Account'
    OBVIOUS
<1> USE ThreadAssumption DEF Gate!TypeOK, Account, InFlight, Gate!Held, Gate!Goto, Gate!file
<1>1. ASSUME NEW t \in Thread, Gate!Send(t) PROVE Account'
  <2>1. CASE Gate!Call(t)         BY <2>1 DEF Gate!Call
  <2>2. CASE Gate!Lock(t)         BY <2>2 DEF Gate!Lock, Gate!Granted
  <2>3. CASE Gate!ReadState(t)    BY <2>3 DEF Gate!ReadState
  <2>4. CASE Gate!Refuse(t)       BY <2>4 DEF Gate!Refuse
  <2>5. CASE Gate!CountAttempt(t)
    <3>1. ~InFlight
          BY <2>5 DEF Gate!CountAttempt, Gate!Counted, HolderHolds
    <3>2. InFlight'
          BY <2>5 DEF Gate!CountAttempt, Gate!Counted
    <3>3. QED BY <2>5, <3>1, <3>2 DEF Gate!CountAttempt, Gate!Counted
  <2>6. CASE Gate!Wake(t)
    <3>1. InFlight /\ InFlight'
          BY <2>6 DEF Gate!Wake
    <3>2. QED BY <2>6, <3>1 DEF Gate!Wake
  <2>7. CASE Gate!Operate(t)
    <3>1. InFlight
          BY <2>7 DEF Gate!Operate
    <3>2. ~InFlight'
          BY <2>7 DEF Gate!Operate, HolderHolds
    <3>3. QED BY <2>7, <3>1, <3>2 DEF Gate!Operate
  <2>8. CASE Gate!Release(t)      BY <2>8 DEF Gate!Release
  <2>9. QED BY <1>1, <2>1, <2>2, <2>3, <2>4, <2>5, <2>6, <2>7, <2>8 DEF Gate!Send
<1>2. ASSUME NEW p \in Process, Gate!Start(p) PROVE Account'
      BY <1>2 DEF Gate!Start
<1>3. ASSUME NEW p \in Process, Gate!Die(p) PROVE Account'
  <2>1. CASE \E t \in Gate!Mine(p) : at[t] \in {"sleep", "send"}
    <3>1. InFlight
          BY <2>1 DEF Gate!Mine
    <3>2. ~InFlight'
          BY <1>3, <2>1 DEF Gate!Die, Gate!HolderWithout, Gate!Mine, HolderHolds
    <3>3. QED BY <1>3, <2>1, <3>1, <3>2 DEF Gate!Die
  <2>2. CASE ~ \E t \in Gate!Mine(p) : at[t] \in {"sleep", "send"}
    <3>1. InFlight <=> InFlight'
          BY <1>3, <2>2 DEF Gate!Die, Gate!Mine
    <3>2. QED BY <1>3, <2>2, <3>1 DEF Gate!Die
  <2>3. QED BY <2>1, <2>2
<1>4. CASE Gate!Tick \/ UNCHANGED Gate!vars
      BY <1>4 DEF Gate!Tick, Gate!vars
<1>5. QED BY <1>1, <1>2, <1>3, <1>4 DEF Gate!Next

-----------------------------------------------------------------------------
\* The inductive invariant of the gate.
LEMMA GateInvariance == Gate!Spec => []GateInv
<1>1. Gate!Init => GateInv
  <2> SUFFICES ASSUME Gate!Init PROVE GateInv
      OBVIOUS
  <2>1. Gate!TypeOK
    <3>1. at \in [Thread -> {"idle", "wait"} \cup Gate!Held]
          BY DEF Gate!Init
    <3>2. up \in [Process -> {"down", "starting", "up"}]
          BY DEF Gate!Init
    <3>3. QED BY <3>1, <3>2, IntervalAssumption DEF Gate!Init, Gate!TypeOK
  <2>2. HolderHolds /\ DownIdle /\ StartsAlone /\ SleptAlone
        BY ThreadAssumption
           DEF Gate!Init, HolderHolds, DownIdle, StartsAlone, SleptAlone, Gate!Held
  <2>3. RateAgrees
        BY ThreadAssumption DEF Gate!Init, RateAgrees, Gate!ConflictNeverUp
  <2>4. Account
    <3>1. ~InFlight
          BY DEF Gate!Init, InFlight
    <3>2. QED BY <3>1 DEF Gate!Init, Account
  <2>5. QED BY <2>1, <2>2, <2>3, <2>4 DEF GateInv
<1>2. GateInv /\ [Gate!Next]_(Gate!vars) => GateInv'
      BY GateTypeStep, HolderStep, StartStep, RateStep, SpacingStep, AccountStep
         DEF GateInv
<1>3. QED BY <1>1, <1>2, PTL DEF Gate!Spec

\* Type correctness of the gate.
THEOREM GateTypeCorrect == Gate!Spec => []Gate!TypeOK
<1>1. GateInv => Gate!TypeOK
      BY DEF GateInv
<1>2. QED BY <1>1, GateInvariance, PTL

\* The flock admits one thread of all processes at a time.
LEMMA GateExcludes == Gate!Spec => []Gate!OneSender
<1>1. GateInv => Gate!OneSender
      BY DEF GateInv, Gate!TypeOK, HolderHolds, Gate!OneSender
<1>2. QED BY <1>1, GateInvariance, PTL

\* The file's count covers the packets that left, through any deaths.
LEMMA GateCounts == Gate!Spec => []Gate!CountCoversSends
<1>1. GateInv => Gate!CountCoversSends
      BY DEF GateInv, Gate!TypeOK, Account, Gate!CountCoversSends
<1>2. QED BY <1>1, GateInvariance, PTL

\* A process with a conflicting rate never gets past installation.
LEMMA GateRefuses == Gate!Spec => []Gate!ConflictNeverUp
<1>1. GateInv => Gate!ConflictNeverUp
      BY DEF GateInv, RateAgrees
<1>2. QED BY <1>1, GateInvariance, PTL

\* Two packets of a node are at least one interval apart, whatever dies.
LEMMA GateSpaces == Gate!Spec => Gate!SendsSpaced
<1>1. GateInv /\ [Gate!Next]_(Gate!vars)
      => [sends' # sends => sinceSend >= Interval[fileQps]]_(Gate!vars)
  <2> SUFFICES ASSUME GateInv, Gate!Next, sends' # sends
               PROVE  sinceSend >= Interval[fileQps]
      BY DEF Gate!vars
  <2>1. PICK t \in Thread : Gate!Operate(t)
        BY DEF Gate!Next, Gate!Send, Gate!Call, Gate!Lock, Gate!ReadState, Gate!Refuse,
               Gate!CountAttempt, Gate!Wake, Gate!Release, Gate!Start, Gate!Die, Gate!Tick
  <2>2. /\ Interval[rate[Of[t]]] <= sinceSend
        /\ fileQps = rate[Of[t]]
        BY <2>1 DEF Gate!Operate, GateInv, SleptAlone, RateAgrees
  <2>3. Interval[fileQps] \in Nat /\ sinceSend \in Nat
        BY <2>2, ThreadAssumption, IntervalAssumption DEF GateInv, Gate!TypeOK
  <2>4. QED BY <2>2, <2>3
<1>2. QED BY <1>1, GateInvariance, PTL DEF Gate!Spec, Gate!SendsSpaced

-----------------------------------------------------------------------------
(* The admission.  The slots held are in one-to-one correspondence with    *)
(* the threads inside (Holding), which embeds them in 0..Limit - 1.  What  *)
(* a scan can miss is bounded by ScanSound: the slots that have stayed     *)
(* free since its start are still free and still ahead of it.              *)

Holding ==
    /\ \A t \in Active : \E s \in Slot : taken[s] = t
    /\ \A s \in Slot : taken[s] # None => taken[s] \in Active
    /\ \A s, r \in Slot : taken[s] # None /\ taken[s] = taken[r] => s = r

ScanSound ==
    \A t \in Thread :
        /\ idle[t] \subseteq Free
        /\ pc[t] = "scan" => \A s \in idle[t] : s >= next[t]
        /\ pc[t] = "full" => idle[t] = {}

SlotInv == TypeOK /\ Holding /\ ScanSound

-----------------------------------------------------------------------------
\* Every step of a thread, a death and the clock keep the types.
LEMMA SlotTypeStep == TypeOK /\ [Next]_vars => TypeOK'
<1> SUFFICES ASSUME TypeOK, [Next]_vars PROVE TypeOK'
    OBVIOUS
<1> USE ThreadAssumption, BoundsAssumption DEF TypeOK, Goto, Slot
<1>1. ASSUME NEW t \in Thread, Enter(t) \/ Retry(t) PROVE TypeOK'
  <2>1. /\ pc' = [pc EXCEPT ![t] = "scan"] /\ next' = [next EXCEPT ![t] = 0]
        /\ idle' = [idle EXCEPT ![t] = Free] /\ taken' = taken
        BY <1>1 DEF Enter, Retry, BeginScan
  <2>2. waited' = waited \/ waited' = [waited EXCEPT ![t] = 0]
        BY <1>1 DEF Enter, Retry
  <2>3. Free \in SUBSET Slot
        BY DEF Free
  <2>4. idle' \in [Thread -> SUBSET Slot]
        BY <2>1, <2>3
  <2>5. QED BY <2>1, <2>2, <2>4
<1>2. ASSUME NEW t \in Thread, TakeSlot(t) PROVE TypeOK'
      BY <1>2 DEF TakeSlot, Granted, Free
<1>3. ASSUME NEW t \in Thread, SkipSlot(t) PROVE TypeOK'
      BY <1>3 DEF SkipSlot, Free
<1>4. ASSUME NEW t \in Thread,
             ScanEnds(t) \/ Pause(t) \/ TimeOut(t) \/ Raise(t)
      PROVE TypeOK'
      BY <1>4 DEF ScanEnds, Pause, TimeOut, Raise
<1>5. ASSUME NEW t \in Thread, Leave(t) PROVE TypeOK'
      BY <1>5 DEF Leave
<1>6. ASSUME NEW p \in Process, Die(p) PROVE TypeOK'
      BY <1>6 DEF Die, TakenWithout
<1>7. CASE Tick
      BY <1>7 DEF Tick
<1>8. CASE UNCHANGED vars
      BY <1>8 DEF vars
<1>9. QED
      BY <1>1, <1>2, <1>3, <1>4, <1>5, <1>6, <1>7, <1>8 DEF Next, Waiting

\* Slots and threads inside stay in one-to-one correspondence.
LEMMA HoldingStep == TypeOK /\ Holding /\ [Next]_vars => Holding'
<1> SUFFICES ASSUME TypeOK, Holding, [Next]_vars PROVE Holding'
    OBVIOUS
<1> USE ThreadAssumption DEF TypeOK, Goto, Holding, Active
<1>1. ASSUME NEW t \in Thread, Enter(t) \/ Retry(t) PROVE Holding'
      BY <1>1 DEF Enter, Retry, BeginScan
<1>2. ASSUME NEW t \in Thread, TakeSlot(t) PROVE Holding'
  <2>1. next[t] \in Slot /\ taken[next[t]] = None /\ t \notin Active
        BY <1>2 DEF TakeSlot, Granted, Free
  <2>2. taken' = [taken EXCEPT ![next[t]] = t] /\ Active' = Active \cup {t}
        BY <1>2 DEF TakeSlot, Granted
  <2>3. \A s \in Slot : taken[s] # t
        BY <2>1
  <2>4. QED BY <2>1, <2>2, <2>3
<1>3. ASSUME NEW t \in Thread,
             SkipSlot(t) \/ ScanEnds(t) \/ Pause(t) \/ TimeOut(t) \/ Raise(t)
      PROVE Holding'
      BY <1>3 DEF SkipSlot, ScanEnds, Pause, TimeOut, Raise
<1>4. ASSUME NEW t \in Thread, Leave(t) PROVE Holding'
  <2>1. Active' = Active \ {t}
        BY <1>4 DEF Leave
  <2>2. \A s \in Slot : taken'[s] = IF taken[s] = t THEN None ELSE taken[s]
        BY <1>4 DEF Leave
  <2>3. \A u \in Active \ {t} : \E s \in Slot : taken'[s] = u
        BY <2>2
  <2>4. QED BY <2>1, <2>2, <2>3
<1>5. ASSUME NEW p \in Process, Die(p) PROVE Holding'
      BY <1>5 DEF Die, TakenWithout
<1>6. CASE Tick \/ UNCHANGED vars
      BY <1>6 DEF Tick, vars
<1>7. QED
      BY <1>1, <1>2, <1>3, <1>4, <1>5, <1>6 DEF Next, Waiting

\* A slot that is free all through a scan is not passed over.
LEMMA ScanStep == TypeOK /\ ScanSound /\ [Next]_vars => ScanSound'
<1> SUFFICES ASSUME TypeOK, ScanSound, [Next]_vars PROVE ScanSound'
    OBVIOUS
<1> USE ThreadAssumption, BoundsAssumption DEF TypeOK, Goto, ScanSound, Slot, Free
<1>1. ASSUME NEW t \in Thread, Enter(t) \/ Retry(t) PROVE ScanSound'
  <2>1. /\ pc' = [pc EXCEPT ![t] = "scan"] /\ next' = [next EXCEPT ![t] = 0]
        /\ idle' = [idle EXCEPT ![t] = Free] /\ taken' = taken
        BY <1>1 DEF Enter, Retry, BeginScan
  <2>2. pc'[t] = "scan" /\ next'[t] = 0 /\ idle'[t] = Free /\ Free' = Free
        BY <2>1
  <2>3. \A u \in Thread \ {t} : /\ pc'[u] = pc[u] /\ next'[u] = next[u]
                                /\ idle'[u] = idle[u]
        BY <2>1
  <2>4. \A s \in Free : s >= 0
        OBVIOUS
  <2>5. QED BY <2>2, <2>3, <2>4
<1>2. ASSUME NEW t \in Thread, TakeSlot(t) PROVE ScanSound'
      BY <1>2 DEF TakeSlot, Granted
<1>3. ASSUME NEW t \in Thread, SkipSlot(t) PROVE ScanSound'
      BY <1>3 DEF SkipSlot
<1>4. ASSUME NEW t \in Thread, ScanEnds(t) PROVE ScanSound'
      BY <1>4 DEF ScanEnds, Scanned
<1>5. ASSUME NEW t \in Thread, Pause(t) \/ TimeOut(t) \/ Raise(t)
      PROVE ScanSound'
      BY <1>5 DEF Pause, TimeOut, Raise
<1>6. ASSUME NEW t \in Thread, Leave(t) PROVE ScanSound'
      BY <1>6 DEF Leave
<1>7. ASSUME NEW p \in Process, Die(p) PROVE ScanSound'
      BY <1>7 DEF Die, TakenWithout
<1>8. CASE Tick \/ UNCHANGED vars
      BY <1>8 DEF Tick, vars
<1>9. QED
      BY <1>1, <1>2, <1>3, <1>4, <1>5, <1>6, <1>7, <1>8 DEF Next, Waiting

\* The inductive invariant of the admission.
LEMMA SlotInvariance == Spec => []SlotInv
<1>1. Init => SlotInv
  <2> SUFFICES ASSUME Init PROVE SlotInv
      OBVIOUS
  <2>1. TypeOK
    <3>1. /\ next \in [Thread -> 0..Limit] /\ waited \in [Thread -> 0..Wait]
          /\ idle \in [Thread -> SUBSET Slot]
          BY BoundsAssumption DEF Init
    <3>2. taken \in [Slot -> Thread \cup {None}]
          BY DEF Init
    <3>3. pc \in [Thread -> {"out", "scan", "full", "sleep", "in", "refused"}]
          BY DEF Init
    <3>4. QED BY <3>1, <3>2, <3>3 DEF TypeOK
  <2>2. Holding /\ ScanSound
        BY DEF Init, Holding, ScanSound, Active, Free, Slot
  <2>3. QED BY <2>1, <2>2 DEF SlotInv
<1>2. SlotInv /\ [Next]_vars => SlotInv'
      BY SlotTypeStep, HoldingStep, ScanStep DEF SlotInv
<1>3. QED BY <1>1, <1>2, PTL DEF Spec

-----------------------------------------------------------------------------
\* The correspondence as a statement of its own.
LEMMA HoldingMatches == Holding => SlotsMatchActive
BY ThreadAssumption DEF Holding, SlotsMatchActive, Active

\* Sending each thread inside to its slot is an injection into 0..Limit - 1.
LEMMA HoldingBounds == TypeOK /\ Holding => IsFiniteSet(Active) /\ AtMostLimit
<1> SUFFICES ASSUME TypeOK, Holding PROVE IsFiniteSet(Active) /\ AtMostLimit
    OBVIOUS
<1> DEFINE slotOf == [t \in Active |-> CHOOSE s \in Slot : taken[s] = t]
<1>1. \A t \in Active : slotOf[t] \in Slot /\ taken[slotOf[t]] = t
      BY DEF Holding
<1>2. slotOf \in Injection(Active, Slot)
      BY <1>1 DEF Injection, IsInjective
<1>3. IsFiniteSet(Slot) /\ Cardinality(Slot) = Limit
      BY BoundsAssumption, FS_Interval DEF Slot
<1>4. IsFiniteSet(Active) /\ Cardinality(Active) <= Cardinality(Slot)
      BY <1>2, <1>3, FS_Injection
<1>5. QED BY <1>3, <1>4 DEF AtMostLimit

\* At most Limit resolutions at once, for every limit, whoever dies.
THEOREM Bounded == Spec => []AtMostLimit
<1>1. SlotInv => AtMostLimit
      BY HoldingBounds DEF SlotInv
<1>2. QED BY <1>1, SlotInvariance, PTL

\* Slots neither leak nor double.
THEOREM NoLeak == Spec => []SlotsMatchActive
<1>1. SlotInv => SlotsMatchActive
      BY HoldingMatches DEF SlotInv
<1>2. QED BY <1>1, SlotInvariance, PTL

\* No scan ends in vain past a slot that stayed free.
THEOREM NoneMissed == Spec => []NoIdleSlotMissed
<1>1. SlotInv => NoIdleSlotMissed
      BY DEF SlotInv, ScanSound, NoIdleSlotMissed
<1>2. QED BY <1>1, SlotInvariance, PTL

-----------------------------------------------------------------------------
\* While a slot is free, fewer than Limit threads are inside: those inside
\* have each a slot among the others.
LEMMA RoomBesideFreeSlot ==
    ASSUME TypeOK, Holding, NEW s \in Slot, taken[s] = None
    PROVE  Cardinality(Active) < Limit
<1> DEFINE others == Slot \ {s}
           slotOf == [t \in Active |-> CHOOSE r \in Slot : taken[r] = t]
<1>1. \A t \in Active : slotOf[t] \in others /\ taken[slotOf[t]] = t
      BY ThreadAssumption DEF Holding, Active
<1>2. slotOf \in Injection(Active, others)
      BY <1>1 DEF Injection, IsInjective
<1>3. IsFiniteSet(Slot) /\ Cardinality(Slot) = Limit
      BY BoundsAssumption, FS_Interval DEF Slot
<1>4. IsFiniteSet(others) /\ Cardinality(others) = Limit - 1
      BY <1>3, FS_RemoveElement
<1>5. IsFiniteSet(Active) /\ Cardinality(Active) <= Cardinality(others)
      BY <1>2, <1>4, FS_Injection
<1>6. Cardinality(Active) \in Nat
      BY <1>5, FS_CardinalityType
<1>7. QED BY <1>4, <1>5, <1>6, BoundsAssumption

\* Each step of the slots is a step of the counting admission or none: taking
\* a slot is being admitted, everything else in a scan is invisible.
LEMMA StepImplements ==
    SlotInv /\ [Next]_vars => [Counting!Next]_(Counting!vars)
<1> SUFFICES ASSUME SlotInv, [Next]_vars
             PROVE  Counting!Next \/ (Waiters' = Waiters /\ Active' = Active)
    BY DEF Counting!vars
<1>0. TypeOK /\ Holding
      BY DEF SlotInv
<1> USE <1>0, ThreadAssumption DEF TypeOK, Goto, Waiters, Active
<1>1. ASSUME NEW t \in Thread, Enter(t) PROVE Counting!Ask(t)
      BY <1>1 DEF Enter, BeginScan, Counting!Ask
<1>2. ASSUME NEW t \in Thread, TakeSlot(t) PROVE Counting!Admit(t)
  <2>1. next[t] \in Slot /\ taken[next[t]] = None
        BY <1>2 DEF TakeSlot, Granted, Free
  <2>2. Cardinality(Active) < Limit
        BY <2>1, RoomBesideFreeSlot DEF TypeOK
  <2>3. pc[t] = "scan" /\ pc' = [pc EXCEPT ![t] = "in"]
        BY <1>2 DEF TakeSlot
  <2>4. Waiters' = Waiters \ {t} /\ Active' = Active \cup {t} /\ t \in Waiters
        BY <2>3
  <2>5. Counting!Cardinality(Active) = Cardinality(Active)
        BY DEF Counting!Cardinality, Cardinality
  <2>6. QED BY <2>2, <2>4, <2>5 DEF Counting!Admit
<1>3. ASSUME NEW t \in Thread, TimeOut(t) PROVE Counting!Refuse(t)
      BY <1>3 DEF TimeOut, Counting!Refuse
<1>4. ASSUME NEW t \in Thread, Leave(t) PROVE Counting!Leave(t)
      BY <1>4 DEF Leave, Counting!Leave
<1>5. ASSUME NEW p \in Process, Die(p)
      PROVE  \E threads \in SUBSET Thread : Counting!Gone(threads)
  <2>1. pc' = [t \in Thread |-> IF Of[t] = p THEN "out" ELSE pc[t]]
        BY <1>5 DEF Die
  <2>2. Counting!Gone({t \in Thread : Of[t] = p})
        BY <2>1 DEF Counting!Gone
  <2>3. QED BY <2>2
<1>6. ASSUME NEW t \in Thread,
             SkipSlot(t) \/ ScanEnds(t) \/ Pause(t) \/ Retry(t) \/ Raise(t)
      PROVE  Waiters' = Waiters /\ Active' = Active
      BY <1>6 DEF SkipSlot, ScanEnds, Pause, Retry, Raise, BeginScan
<1>7. CASE Tick \/ UNCHANGED vars
      BY <1>7 DEF Tick, vars
<1>8. QED
      BY <1>1, <1>2, <1>3, <1>4, <1>5, <1>6, <1>7
      DEF Next, Waiting, Counting!Next

\* The admission by slots implements the counting one, for every number of
\* slots, threads and processes.
THEOREM Implements == Spec => ImplementsAdmission
<1>1. Init => Counting!Init
      BY DEF Init, Counting!Init, Waiters, Active
<1>2. QED
      BY <1>1, SlotInvariance, StepImplements, PTL
         DEF Spec, ImplementsAdmission, Counting!Spec

-----------------------------------------------------------------------------
(* The resolver.  A step of the node is a step of the gate, of the slots,  *)
(* or of both, so that what either promises by itself it promises here.    *)

\* A thread of a running process is at the gate only with a slot, and one of
\* any other process has none and asks for none.
Admitted ==
    \A t \in Thread : /\ up[Of[t]] = "up" /\ at[t] # "idle" => pc[t] = "in"
                      /\ up[Of[t]] # "up" => pc[t] = "out"

Starting == {p \in Process : up[p] = "starting"}

NodeInv == GateInv /\ SlotInv /\ Admitted /\ IsFiniteSet(Starting)

\* A node's step seen from the slots, and from the gate.
LEMMA NodeStep == [NodeNext]_node => [Next]_vars /\ [Gate!Next]_(Gate!vars)
<1> SUFFICES ASSUME [NodeNext]_node PROVE [Next]_vars /\ [Gate!Next]_(Gate!vars)
    OBVIOUS
<1>1. UNCHANGED gate => UNCHANGED Gate!vars
      BY DEF gate, Gate!vars
<1>2. ASSUME NEW t \in Thread, Resolve(t) \/ Return(t)
      PROVE  Next /\ UNCHANGED Gate!vars
      BY <1>1, <1>2 DEF Resolve, Return, Next
<1>3. ASSUME NEW t \in Thread, Query(t) \/ Paced(t)
      PROVE  Gate!Next /\ UNCHANGED vars
      BY <1>3 DEF Query, Paced, Gate!Next, Gate!Send
<1>4. ASSUME NEW t \in Thread, Waiting(t) \/ Raise(t), UNCHANGED gate
      PROVE  Next /\ UNCHANGED Gate!vars
      BY <1>1, <1>4 DEF Next
<1>5. ASSUME NEW p \in Process, Gate!Start(p), UNCHANGED vars
      PROVE  Gate!Next
      BY <1>5 DEF Gate!Next
<1>6. ASSUME NEW p \in Process, Perish(p) PROVE [Next]_vars /\ Gate!Next
      BY <1>6 DEF Perish, Next, Gate!Next
<1>7. CASE Time
      BY <1>1, <1>7 DEF Time, Next, Gate!Next
<1>8. CASE UNCHANGED node
      BY <1>8 DEF node, vars, Gate!vars
<1>9. QED
      BY <1>2, <1>3, <1>4, <1>5, <1>6, <1>7, <1>8 DEF NodeNext

\* The resolver uses the slots and the gate as their modules have them: every
\* theorem about either holds of the node.
THEOREM Composed == NodeSpec => Spec /\ Gate!Spec
<1>1. NodeInit => Init /\ Gate!Init
      BY DEF NodeInit
<1>2. QED BY <1>1, NodeStep, PTL DEF NodeSpec, Spec, Gate!Spec

\* The flock admits one thread of all processes at a time, and is never left
\* locked with nobody inside.
THEOREM MutualExclusion == NodeSpec => []OneSender
BY Composed, GateExcludes, PTL DEF OneSender

\* The file's count covers the packets that left, through any deaths.
THEOREM CountCovers == NodeSpec => []CountCoversSends
BY Composed, GateCounts, PTL DEF CountCoversSends

\* A process with a conflicting rate never gets past installation.
THEOREM ConflictRefused == NodeSpec => []ConflictNeverUp
BY Composed, GateRefuses, PTL DEF ConflictNeverUp

\* Two packets of a node are at least one interval apart, whatever dies.
THEOREM Spacing == NodeSpec => SendsSpaced
BY Composed, GateSpaces DEF SendsSpaced

\* Nobody is at the gate without a slot: not when it asks, and not later.
LEMMA AdmittedStep ==
    GateInv /\ SlotInv /\ Admitted /\ [NodeNext]_node => Admitted'
<1> SUFFICES ASSUME GateInv, SlotInv, Admitted, [NodeNext]_node PROVE Admitted'
    OBVIOUS
<1>0. TypeOK /\ Gate!TypeOK /\ DownIdle /\ StartsAlone
      BY DEF GateInv, SlotInv
<1> USE <1>0, ThreadAssumption DEF Admitted, TypeOK, Gate!TypeOK, Gate!Held
<1>1. ASSUME NEW t \in Thread, Resolve(t) PROVE Admitted'
      BY <1>1 DEF Resolve, Enter, BeginScan, Goto, gate
<1>2. ASSUME NEW t \in Thread, Return(t) PROVE Admitted'
      BY <1>2 DEF Return, Leave, Goto, gate
<1>3. ASSUME NEW t \in Thread, Query(t) PROVE Admitted'
      BY <1>3 DEF Query, Gate!Call, Gate!Goto, vars
<1>4. ASSUME NEW t \in Thread, Paced(t) PROVE Admitted'
  <2>1. UNCHANGED <<pc>>
        BY <1>4 DEF Paced, vars
  <2>2. CASE Gate!Lock(t) \/ Gate!ReadState(t) \/ Gate!CountAttempt(t) \/ Gate!Wake(t)
             \/ Gate!Operate(t)
        BY <2>1, <2>2 DEF Gate!Lock, Gate!ReadState, Gate!CountAttempt, Gate!Wake,
           Gate!Operate, Gate!Goto
  <2>3. CASE Gate!Refuse(t)
        BY <2>1, <2>3 DEF Gate!Refuse, Gate!Goto
  <2>4. CASE Gate!Release(t)
    <3>1. at[t] # "idle" /\ at'[t] = "idle" /\ up' = [up EXCEPT ![Of[t]] = "up"]
          /\ \A u \in Thread \ {t} : at'[u] = at[u]
          BY <2>4 DEF Gate!Release, Gate!Goto
    <3>2. \A u \in Thread : Of[u] = Of[t] /\ u # t /\ up[Of[t]] # "up" => at[u] = "idle"
          BY <3>1 DEF DownIdle, StartsAlone
    <3>3. QED BY <2>1, <3>1, <3>2
  <2>5. QED BY <1>4, <2>2, <2>3, <2>4 DEF Paced
<1>5. ASSUME NEW t \in Thread, Waiting(t) \/ Raise(t), UNCHANGED gate PROVE Admitted'
  <2>1. pc[t] \notin {"in", "out"} /\ \A u \in Thread \ {t} : pc'[u] = pc[u]
        BY <1>5 DEF Waiting, SkipSlot, TakeSlot, ScanEnds, Pause, TimeOut, Retry, Raise,
           BeginScan, Goto
  <2>2. QED BY <1>5, <2>1 DEF gate
<1>6. ASSUME NEW p \in Process, Gate!Start(p), UNCHANGED vars PROVE Admitted'
      BY <1>6 DEF Gate!Start, vars, DownIdle
<1>7. ASSUME NEW p \in Process, Perish(p) PROVE Admitted'
  <2>1. /\ up' = [up EXCEPT ![p] = "down"]
        /\ \A t \in Thread : at'[t] = IF Of[t] = p THEN "idle" ELSE at[t]
        BY <1>7 DEF Perish, Gate!Die, Gate!Mine
  <2>2. \A t \in Thread : pc'[t] = IF Of[t] = p THEN "out" ELSE pc[t]
        BY <1>7 DEF Perish, Die, vars
  <2>3. QED BY <2>1, <2>2
<1>8. CASE Time \/ UNCHANGED node
      BY <1>8 DEF Time, Tick, Gate!Tick, node, gate, vars
<1>9. QED
      BY <1>1, <1>2, <1>3, <1>4, <1>5, <1>6, <1>7, <1>8 DEF NodeNext

\* Processes start one by one, so only so many are starting.
LEMMA StartingStep ==
    Gate!TypeOK /\ IsFiniteSet(Starting) /\ [NodeNext]_node => IsFiniteSet(Starting)'
<1> SUFFICES ASSUME Gate!TypeOK, IsFiniteSet(Starting), [NodeNext]_node
             PROVE  IsFiniteSet(Starting')
    OBVIOUS
<1>1. [Gate!Next]_(Gate!vars)
      BY NodeStep
<1>2. \E p : Starting' \subseteq Starting \cup {p}
  <2>1. CASE up' = up
        BY <2>1 DEF Starting
  <2>2. ASSUME NEW p \in Process, NEW l, up' = [up EXCEPT ![p] = l]
        PROVE  Starting' \subseteq Starting \cup {p}
        BY <2>2 DEF Starting, Gate!TypeOK
  <2>3. ASSUME NEW t \in Thread, Gate!Send(t)
        PROVE  up' = up \/ \E l : up' = [up EXCEPT ![Of[t]] = l]
        BY <2>3 DEF Gate!Send, Gate!Call, Gate!Lock, Gate!ReadState, Gate!Refuse,
           Gate!CountAttempt, Gate!Wake, Gate!Operate, Gate!Release
  <2>4. ASSUME NEW p \in Process, Gate!Start(p) \/ Gate!Die(p)
        PROVE  \E l : up' = [up EXCEPT ![p] = l]
        BY <2>4 DEF Gate!Start, Gate!Die
  <2>5. CASE Gate!Tick \/ UNCHANGED Gate!vars
        BY <2>1, <2>5 DEF Gate!Tick, Gate!vars
  <2>6. QED
        BY <1>1, <2>1, <2>2, <2>3, <2>4, <2>5, ThreadAssumption DEF Gate!Next
<1>3. PICK p : Starting' \subseteq Starting \cup {p}
      BY <1>2
<1>4. IsFiniteSet(Starting \cup {p})
      BY FS_AddElement
<1>5. QED BY <1>3, <1>4, FS_Subset

\* The inductive invariant of the resolver.
THEOREM NodeInvariance == NodeSpec => []NodeInv
<1>1. NodeInit => Admitted /\ IsFiniteSet(Starting)
  <2> SUFFICES ASSUME NodeInit PROVE Admitted /\ IsFiniteSet(Starting)
      OBVIOUS
  <2>1. Admitted
        BY ThreadAssumption DEF NodeInit, Init, Gate!Init, Admitted
  <2>2. Starting = {}
        BY DEF NodeInit, Gate!Init, Starting
  <2>3. QED BY <2>1, <2>2, FS_EmptySet
<1>2. /\ GateInv /\ SlotInv /\ Admitted /\ IsFiniteSet(Starting) /\ [NodeNext]_node
      => Admitted' /\ IsFiniteSet(Starting)'
      BY AdmittedStep, StartingStep DEF GateInv
<1>3. QED
      BY <1>1, <1>2, Composed, GateInvariance, SlotInvariance, PTL DEF NodeSpec, NodeInv

\* However many threads a node has, no more are at the gate than there are
\* slots and processes that install.
THEOREM QueueBounded == NodeSpec => []GateQueueBounded
<1>1. NodeInv => GateQueueBounded
  <2> SUFFICES ASSUME NodeInv PROVE GateQueueBounded
      OBVIOUS
  <2> DEFINE There == {t \in Thread : at[t] # "idle"}
             Probes == {t \in There : up[Of[t]] = "starting"}
             procOf == [t \in Probes |-> Of[t]]
  <2>1. There \subseteq Active \cup Probes
        BY ThreadAssumption
           DEF NodeInv, Admitted, GateInv, DownIdle, Gate!TypeOK, Active
  <2>2. procOf \in Injection(Probes, Starting)
        BY ThreadAssumption
           DEF NodeInv, GateInv, StartsAlone, Starting, Injection, IsInjective
  <2>3. /\ IsFiniteSet(Probes) /\ IsFiniteSet(Starting)
        /\ Cardinality(Probes) <= Cardinality(Starting)
        BY <2>2, FS_Injection DEF NodeInv
  <2>4. IsFiniteSet(Active) /\ Cardinality(Active) <= Limit
        BY HoldingBounds DEF NodeInv, SlotInv, AtMostLimit
  <2> HIDE DEF Probes, There
  <2>5. /\ IsFiniteSet(Active \cup Probes)
        /\ Cardinality(Active \cup Probes) <= Cardinality(Active) + Cardinality(Probes)
    <3>1. /\ IsFiniteSet(Active \cup Probes)
          /\ Cardinality(Active \cup Probes) =
               Cardinality(Active) + Cardinality(Probes) - Cardinality(Active \cap Probes)
          BY <2>3, <2>4, FS_Union
    <3>2. Cardinality(Active \cap Probes) \in Nat
          BY <2>3, <2>4, FS_Intersection, FS_CardinalityType
    <3>3. QED BY <3>1, <3>2, <2>3, <2>4, FS_CardinalityType
  <2>6. /\ IsFiniteSet(There)
        /\ Cardinality(There) <= Cardinality(Active \cup Probes)
        BY <2>1, <2>5, FS_Subset
  <2>7. /\ Cardinality(There) \in Nat /\ Cardinality(Active \cup Probes) \in Nat
        /\ Cardinality(Active) \in Nat /\ Cardinality(Probes) \in Nat
        /\ Cardinality(Starting) \in Nat
        BY <2>3, <2>4, <2>5, <2>6, FS_CardinalityType
  <2>8. Cardinality(There) <= Limit + Cardinality(Starting)
        BY <2>3, <2>4, <2>5, <2>6, <2>7, BoundsAssumption
  <2>9. QED BY <2>8 DEF GateQueueBounded, There, Starting
<1>2. QED BY <1>1, NodeInvariance, PTL

\* No packet leaves but from a thread that has its slot.
THEOREM AdmittedPackets == NodeSpec => PacketsAdmitted
<1> DEFINE WithSlot ==
             holder \in Active /\ \E s \in Slot : taken[s] = holder /\ taken'[s] = holder
<1>1. NodeInv /\ [NodeNext]_node => [sends' # sends => WithSlot]_node
  <2> SUFFICES ASSUME NodeInv, NodeNext, sends' # sends
               PROVE  WithSlot
      BY DEF node
  <2>1. PICK t \in Thread : Paced(t) /\ Gate!Operate(t)
    <3>1. \A t \in Thread : ~Resolve(t) /\ ~Return(t) /\ ~Query(t)
          BY DEF Resolve, Return, Query, Gate!Call, gate
    <3>2. \A p \in Process : ~Gate!Start(p) /\ ~Perish(p)
          BY DEF Perish, Gate!Start, Gate!Die
    <3>3. ~Time /\ ~UNCHANGED gate
          BY DEF Time, Gate!Tick, gate
    <3>4. PICK t \in Thread : Paced(t)
          BY <3>1, <3>2, <3>3 DEF NodeNext
    <3>5. Gate!Operate(t)
          BY <3>4 DEF Paced, Gate!Lock, Gate!ReadState, Gate!Refuse, Gate!CountAttempt,
             Gate!Wake, Gate!Release
    <3>6. QED BY <3>4, <3>5
  <2>2. at[t] = "send" /\ up[Of[t]] # "starting" /\ UNCHANGED taken
        BY <2>1 DEF Gate!Operate, Paced, vars
  <2>3. holder = t
        BY <2>2 DEF NodeInv, GateInv, HolderHolds, Gate!Held
  <2>4. up[Of[t]] = "up"
        BY <2>2, ThreadAssumption DEF NodeInv, GateInv, DownIdle, Gate!TypeOK
  <2>5. t \in Active
        BY <2>2, <2>4 DEF NodeInv, Admitted, Active
  <2>6. QED BY <2>2, <2>3, <2>5 DEF NodeInv, SlotInv, Holding
<1>2. QED BY <1>1, NodeInvariance, PTL DEF NodeSpec, PacketsAdmitted
=============================================================================
