--------------------------- MODULE TaskLockProofs ---------------------------
(***************************************************************************)
(* What holds of the claim for every set of jobs and every timing: the     *)
(* test-and-set itself is sound, and only a removal can break it.          *)
(***************************************************************************)
EXTENDS TaskLock, TLAPS

\* Every step of the script keeps every variable of TaskLock in its type.
LEMMA ScriptTyped ==
    ASSUME TypeOK, NEW j \in Job, Script(j)
    PROVE  TypeOK'
<1> USE DEF TypeOK, PC, Goto, lockVars, hbVars
<1>1. CASE CheckDone(j)       BY <1>1 DEF CheckDone
<1>2. CASE ClaimMade(j)       BY <1>2, TimingAssumption DEF ClaimMade, MakeLock
<1>3. CASE ClaimRefused(j)    BY <1>3 DEF ClaimRefused
<1>4. CASE ReadAge(j)         BY <1>4 DEF ReadAge
<1>5. CASE RemoveStale(j)
      BY <1>5, TimingAssumption DEF RemoveStale, RemoveLock
<1>6. CASE TakeOver(j)        BY <1>6, TimingAssumption DEF TakeOver, MakeLock
<1>7. CASE TakeOverRefused(j) BY <1>7 DEF TakeOverRefused
<1>8. CASE SetTrap(j)         BY <1>8 DEF SetTrap
<1>9. CASE StartHeartbeat(j)  BY <1>9 DEF StartHeartbeat
<1>10. CASE \E accepted \in BOOLEAN : Finish(j, accepted)
      BY <1>10 DEF Finish
<1>11. CASE TrapKill(j)       BY <1>11 DEF TrapKill
<1>12. CASE TrapRemove(j)
  <2>1. pc' \in [Job -> PC]
        BY <1>12 DEF TrapRemove
  <2>2. QED
        BY <1>12, <2>1, TimingAssumption DEF TrapRemove, RemoveLock
<1>13. QED
      BY <1>1, <1>2, <1>3, <1>4, <1>5, <1>6, <1>7, <1>8, <1>9, <1>10,
         <1>11, <1>12 DEF Script

\* The heartbeat, the batch system and time keep the types too.
LEMMA EnvironmentTyped ==
    ASSUME TypeOK, \/ \E j \in Job : Heartbeat(j) \/ Signal(j) \/ Crash(j)
                                       \/ Resubmit(j)
                   \/ Tick
    PROVE  TypeOK'
<1> USE DEF TypeOK, PC, Goto, lockVars, hbVars
<1>1. ASSUME NEW j \in Job, Heartbeat(j) PROVE TypeOK'
  <2>1. CASE BeatTest(j)
        BY <2>1, TimingAssumption DEF BeatTest
  <2>2. CASE BeatWake(j)
        BY <2>2 DEF BeatWake
  <2>3. CASE BeatTouch(j)
        BY <2>3, TimingAssumption DEF BeatTouch
  <2>4. QED
        BY <1>1, <2>1, <2>2, <2>3 DEF Heartbeat
<1>2. ASSUME NEW j \in Job, Signal(j) PROVE TypeOK'
      BY <1>2, KillsAssumption DEF Signal
<1>3. ASSUME NEW j \in Job, Crash(j) PROVE TypeOK'
      BY <1>3, KillsAssumption DEF Crash
<1>4. ASSUME NEW j \in Job, Resubmit(j) PROVE TypeOK'
      BY <1>4 DEF Resubmit
<1>5. CASE Tick
  <2>1. age' \in 0..StaleAfter
        BY <1>5, TimingAssumption DEF Tick
  <2>2. slept' \in [Job -> 0..Period]
    <3>1. ASSUME NEW j \in Job
          PROVE (IF hb[j] = "sleep" THEN slept[j] + 1 ELSE slept[j]) \in 0..Period
          BY <1>5, TimingAssumption DEF Tick
    <3>2. QED BY <1>5, <3>1 DEF Tick
  <2>3. QED BY <1>5, <2>1, <2>2 DEF Tick
<1>6. QED BY <1>1, <1>2, <1>3, <1>4, <1>5

\* Type correctness of the claim, for every Job, StaleAfter and Period.
THEOREM TypeCorrect == Spec => []TypeOK
<1>1. Init => TypeOK
  <2> SUFFICES ASSUME Init PROVE TypeOK
      OBVIOUS
  <2>1. pc \in [Job -> PC] /\ after \in [Job -> {"armed", "working", "left"}]
        BY DEF Init, PC
  <2>2. /\ hb \in [Job -> {"off", "test", "sleep", "touch", "orphan"}]
        /\ slept \in [Job -> 0..Period]
        BY TimingAssumption DEF Init
  <2>3. age \in 0..StaleAfter /\ kills \in 0..MaxKills
        BY TimingAssumption, KillsAssumption DEF Init
  <2>4. QED BY <2>1, <2>2, <2>3 DEF Init, TypeOK
<1>2. TypeOK /\ [Next]_vars => TypeOK'
  <2> SUFFICES ASSUME TypeOK, [Next]_vars PROVE TypeOK'
      OBVIOUS
  <2>1. CASE \E j \in Job : Script(j)
        BY <2>1, ScriptTyped
  <2>2. CASE \/ \E j \in Job : Heartbeat(j) \/ Signal(j) \/ Crash(j)
                                 \/ Resubmit(j)
             \/ Tick
        BY <2>2, EnvironmentTyped
  <2>3. CASE UNCHANGED vars
        BY <2>3 DEF vars, TypeOK
  <2>4. QED BY <2>1, <2>2, <2>3 DEF Next
<1>3. QED BY <1>1, <1>2, PTL DEF Spec

-----------------------------------------------------------------------------
\* A successful mkdir: nothing was there, so no owner still held the lock,
\* and the maker is the only one that holds it now.
LEMMA MakeLockKeeps ==
    ASSUME TypeOK, UnrobbedOwnerHoldsLock, NEW j \in Job,
           MakeLock(j), UNCHANGED after
    PROVE  UnrobbedOwnerHoldsLock'
<1> SUFFICES ASSUME NEW i \in Job, Owns(i)', i \notin lost'
             PROVE  lock' = "dir" /\ claimant' = i
    BY DEF UnrobbedOwnerHoldsLock, Owners
<1>1. CASE i = j
      BY <1>1 DEF MakeLock
<1>2. CASE i # j
  <2>1. pc'[i] = pc[i]
        BY <1>2 DEF MakeLock, Goto, TypeOK
  <2>2. Owns(i) /\ i \notin lost
        BY <1>2, <2>1 DEF Owns, MakeLock
  <2>3. QED BY <2>2 DEF UnrobbedOwnerHoldsLock, Owners, MakeLock
<1>3. QED BY <1>1, <1>2

\* rm -rf: its victim, if it has one, becomes a robbed owner.
LEMMA RemoveLockKeeps ==
    ASSUME UnrobbedOwnerHoldsLock, RemoveLock,
           \A i \in Job : Owns(i)' => Owns(i)
    PROVE  UnrobbedOwnerHoldsLock'
BY DEF UnrobbedOwnerHoldsLock, Owners, RemoveLock

\* A step that makes no owner and leaves a lock directory with its claimant.
LEMMA NoNewOwnerKeeps ==
    ASSUME UnrobbedOwnerHoldsLock, UNCHANGED <<claimant, lost>>,
           lock = "dir" => lock' = "dir",
           \A i \in Job : Owns(i)' => Owns(i)
    PROVE  UnrobbedOwnerHoldsLock'
BY DEF UnrobbedOwnerHoldsLock, Owners

\* Whoever owns the task and was not robbed holds the lock directory, so the
\* mkdir of production_task.sh never gives the task to two jobs by itself.
THEOREM UnrobbedOwnerHolds == Spec => []UnrobbedOwnerHoldsLock
<1>1. Init => UnrobbedOwnerHoldsLock
      BY DEF Init, UnrobbedOwnerHoldsLock, Owners, Owns
<1>2. TypeOK /\ UnrobbedOwnerHoldsLock /\ [Next]_vars => UnrobbedOwnerHoldsLock'
  <2> SUFFICES ASSUME TypeOK, UnrobbedOwnerHoldsLock, [Next]_vars
               PROVE  UnrobbedOwnerHoldsLock'
      OBVIOUS
  <2>1. ASSUME NEW j \in Job, ClaimMade(j) \/ TakeOver(j)
        PROVE  UnrobbedOwnerHoldsLock'
        BY <2>1, MakeLockKeeps DEF ClaimMade, TakeOver
  <2>2. ASSUME NEW j \in Job, RemoveStale(j) \/ TrapRemove(j)
        PROVE  UnrobbedOwnerHoldsLock'
    <3>1. \A i \in Job : Owns(i)' => Owns(i)
          BY <2>2 DEF RemoveStale, TrapRemove, Goto, Owns, TypeOK
    <3>2. QED BY <2>2, <3>1, RemoveLockKeeps DEF RemoveStale, TrapRemove
  <2>3. ASSUME NEW j \in Job,
               \/ CheckDone(j) \/ ClaimRefused(j) \/ ReadAge(j)
               \/ TakeOverRefused(j) \/ SetTrap(j) \/ StartHeartbeat(j)
        PROVE  UnrobbedOwnerHoldsLock'
    <3>1. /\ UNCHANGED <<lock, claimant, lost>>
          /\ \A i \in Job : Owns(i)' => Owns(i)
          BY <2>3 DEF CheckDone, ClaimRefused, ReadAge, TakeOverRefused,
                      SetTrap, StartHeartbeat, Goto, Owns, TypeOK, lockVars
    <3>2. QED BY <3>1, NoNewOwnerKeeps
  <2>4. ASSUME NEW j \in Job,
               \/ \E accepted \in BOOLEAN : Finish(j, accepted)
               \/ TrapKill(j) \/ Signal(j) \/ Crash(j) \/ Resubmit(j)
        PROVE  UnrobbedOwnerHoldsLock'
    <3>1. /\ UNCHANGED <<lock, claimant, lost>>
          /\ \A i \in Job : Owns(i)' => Owns(i)
          BY <2>4 DEF Finish, TrapKill, Signal, Crash, Resubmit, Goto, Owns,
                      TypeOK, lockVars
    <3>2. QED BY <3>1, NoNewOwnerKeeps
  <2>5. ASSUME NEW j \in Job, Heartbeat(j) PROVE UnrobbedOwnerHoldsLock'
    <3>1. /\ UNCHANGED <<claimant, lost, pc, after>>
          /\ lock = "dir" => lock' = "dir"
          BY <2>5 DEF Heartbeat, BeatTest, BeatWake, BeatTouch, lockVars
    <3>2. \A i \in Job : Owns(i)' => Owns(i)
          BY <3>1 DEF Owns
    <3>3. QED BY <3>1, <3>2, NoNewOwnerKeeps
  <2>6. CASE Tick \/ UNCHANGED vars
    <3>1. UNCHANGED <<lock, claimant, lost, pc, after>>
          BY <2>6 DEF Tick, vars
    <3>2. \A i \in Job : Owns(i)' => Owns(i)
          BY <3>1 DEF Owns
    <3>3. QED BY <3>1, <3>2, NoNewOwnerKeeps
  <2>7. QED BY <2>1, <2>2, <2>3, <2>4, <2>5, <2>6 DEF Next, Script
<1>3. QED BY <1>1, <1>2, TypeCorrect, PTL DEF Spec

\* Two owners at once: at least one of them lost its lock to an rm -rf.
COROLLARY TwoOwnersOneRobbed ==
    Spec => [](\A i, j \in Owners : i # j => i \in lost \/ j \in lost)
<1>1. UnrobbedOwnerHoldsLock =>
        \A i, j \in Owners : i # j => i \in lost \/ j \in lost
      BY DEF UnrobbedOwnerHoldsLock
<1>2. QED BY <1>1, UnrobbedOwnerHolds, PTL

-----------------------------------------------------------------------------
\* A job that works behind the lock directory it made itself.
Works(j) == /\ lock = "dir" /\ claimant = j
            /\ pc[j] \in {"claimed", "armed", "working"}

\* How old the lock of a working job can be.  No tick passes before its
\* heartbeat runs, nor while a touch is due; asleep, the lock is as old as
\* the sleep is long.  The heartbeat is not off: it ends itself only where it
\* finds no directory, and the trap that ends it removes the lock next.
Beaten(j) ==
    Works(j) =>
      /\ age <= Period
      /\ pc[j] \in {"claimed", "armed"} => age = 0
      /\ pc[j] = "working" =>
            /\ hb[j] \in {"test", "sleep", "touch"}
            /\ hb[j] = "test" => age = 0
            /\ hb[j] = "sleep" => age <= slept[j]

\* The invariant behind LiveClaimNeverJudgedStale.
AllBeaten == \A j \in Job : Beaten(j)

\* What a job does to itself matters only to itself: where it leaves the lock
\* and everything of another job alone, that one stays Beaten.
LEMMA OthersBeaten ==
    ASSUME NEW i \in Job, Beaten(i), UNCHANGED <<lock, age, claimant>>,
           pc'[i] = pc[i], hb'[i] = hb[i], slept'[i] = slept[i]
    PROVE  Beaten(i)'
BY DEF Beaten, Works

\* A mkdir makes a lock of age 0 for a job without a working heartbeat, and a
\* removal leaves nobody a lock.
LEMMA LockMadeBeaten ==
    ASSUME TypeOK, AllBeaten, NEW j \in Job, MakeLock(j) PROVE AllBeaten'
<1> SUFFICES ASSUME NEW i \in Job PROVE Beaten(i)'
    BY DEF AllBeaten
<1>1. CASE i = j
      BY <1>1, TimingAssumption DEF Beaten, Works, MakeLock, Goto, TypeOK
<1>2. CASE i # j
      BY <1>2 DEF Beaten, Works, MakeLock
<1>3. QED BY <1>1, <1>2

\* A step that changes no lock and takes no job from outside its work into it,
\* nor a working one anywhere but out of it, or on to arm its trap.
LEMMA LeavesBeaten ==
    ASSUME AllBeaten, UNCHANGED <<lock, age, claimant, slept>>,
           \A i \in Job :
              pc'[i] \in {"claimed", "armed", "working"} =>
                 /\ hb'[i] = hb[i]
                 /\ \/ pc'[i] = pc[i]
                    \/ pc[i] = "claimed" /\ pc'[i] = "armed"
    PROVE  AllBeaten'
BY DEF AllBeaten, Beaten, Works

\* Every command of the script keeps every working job's lock fresh.
LEMMA ScriptBeats ==
    ASSUME TypeOK, AllBeaten, NEW j \in Job, Script(j) PROVE AllBeaten'
<1>1. CASE ClaimMade(j) \/ TakeOver(j)
      BY <1>1, LockMadeBeaten DEF ClaimMade, TakeOver
<1>2. CASE RemoveStale(j) \/ TrapRemove(j)
      BY <1>2 DEF RemoveStale, TrapRemove, RemoveLock, AllBeaten, Beaten, Works
<1>3. CASE \/ CheckDone(j) \/ ClaimRefused(j) \/ ReadAge(j)
           \/ TakeOverRefused(j) \/ SetTrap(j)
           \/ \E accepted \in BOOLEAN : Finish(j, accepted)
           \/ TrapKill(j)
  <2>1. UNCHANGED <<lock, age, claimant, slept>>
        BY <1>3 DEF CheckDone, ClaimRefused, ReadAge, TakeOverRefused, SetTrap,
                    Finish, TrapKill, lockVars, hbVars
  <2>2. ASSUME NEW i \in Job, pc'[i] \in {"claimed", "armed", "working"}
        PROVE  /\ hb'[i] = hb[i]
               /\ pc'[i] = pc[i] \/ (pc[i] = "claimed" /\ pc'[i] = "armed")
        BY <1>3, <2>2 DEF CheckDone, ClaimRefused, ReadAge, TakeOverRefused,
              SetTrap, Finish, TrapKill, Goto, hbVars, TypeOK
  <2>3. QED BY <2>1, <2>2, LeavesBeaten
<1>4. CASE StartHeartbeat(j)
  <2> SUFFICES ASSUME NEW i \in Job PROVE Beaten(i)'
      BY DEF AllBeaten
  <2>1. CASE i = j
        BY <1>4, <2>1 DEF StartHeartbeat, Goto, TypeOK, lockVars, AllBeaten,
                          Beaten, Works
  <2>2. CASE i # j
        BY <1>4, <2>2, OthersBeaten DEF StartHeartbeat, Goto, TypeOK, lockVars,
                                        AllBeaten
  <2>3. QED BY <2>1, <2>2
<1>5. QED BY <1>1, <1>2, <1>3, <1>4 DEF Script

\* So do the heartbeats: a touch, whoever's it is, makes every lock new.
LEMMA HeartbeatBeats ==
    ASSUME TypeOK, AllBeaten, NEW j \in Job, Heartbeat(j) PROVE AllBeaten'
<1> SUFFICES ASSUME NEW i \in Job PROVE Beaten(i)'
    BY DEF AllBeaten
<1>1. Beaten(i)
      BY DEF AllBeaten
<1>2. CASE BeatTest(j) \/ BeatWake(j)
  <2>1. CASE i = j
        BY <1>1, <1>2, <2>1, TimingAssumption
           DEF BeatTest, BeatWake, TypeOK, lockVars, Beaten, Works
  <2>2. CASE i # j
        BY <1>1, <1>2, <2>2, OthersBeaten DEF BeatTest, BeatWake, TypeOK, lockVars
  <2>3. QED BY <2>1, <2>2
<1>3. CASE BeatTouch(j)
  <2>1. CASE i = j
        BY <1>1, <1>3, <2>1, TimingAssumption
           DEF BeatTouch, TypeOK, Beaten, Works
  <2>2. CASE i # j
    <3>1. age' = 0 /\ pc'[i] = pc[i] /\ hb'[i] = hb[i] /\ slept'[i] = slept[i]
          BY <1>3, <2>2 DEF BeatTouch, TypeOK
    <3>2. Works(i)' => Works(i)
          BY <1>3, <3>1 DEF BeatTouch, Works
    <3>3. slept[i] \in 0..Period
          BY DEF TypeOK
    <3>4. QED BY <1>1, <3>1, <3>2, <3>3, TimingAssumption DEF Beaten
  <2>3. QED BY <2>1, <2>2
<1>4. QED BY <1>2, <1>3 DEF Heartbeat

\* A tick makes a lock older only while its heartbeat sleeps, and its sleep
\* longer with it.
LEMMA TickBeats == ASSUME TypeOK, AllBeaten, Tick PROVE AllBeaten'
<1> SUFFICES ASSUME NEW i \in Job, Works(i)' PROVE Beaten(i)'
    BY DEF AllBeaten, Beaten
<1>1. Works(i) /\ Beaten(i) /\ pc[i] \notin {"claimed", "armed"}
      BY DEF Tick, Works, AllBeaten
<1>2. hb[i] = "sleep" /\ slept[i] < Period /\ age <= slept[i]
      BY <1>1 DEF Tick, Beaten, Works
<1>3. slept'[i] = slept[i] + 1 /\ hb'[i] = "sleep" /\ pc'[i] = pc[i]
      BY <1>2 DEF Tick
<1>4. age' <= age + 1 /\ age' \in Nat
      BY TimingAssumption DEF Tick, TypeOK
<1>5. age \in Nat /\ slept[i] \in Nat
      BY TimingAssumption DEF TypeOK
<1>6. age' <= slept'[i] /\ age' <= Period
      BY <1>2, <1>3, <1>4, <1>5, TimingAssumption
<1>7. QED BY <1>1, <1>3, <1>6 DEF Beaten, Works

\* Signals, crashes and resubmissions take jobs out of their work.
LEMMA BatchBeats ==
    ASSUME TypeOK, AllBeaten, NEW j \in Job,
           Signal(j) \/ Crash(j) \/ Resubmit(j)
    PROVE  AllBeaten'
<1>1. UNCHANGED <<lock, age, claimant, slept>>
      BY DEF Signal, Crash, Resubmit, lockVars, hbVars
<1>2. ASSUME NEW i \in Job, pc'[i] \in {"claimed", "armed", "working"}
      PROVE  hb'[i] = hb[i] /\ pc'[i] = pc[i]
      BY <1>2 DEF Signal, Crash, Resubmit, Goto, hbVars, TypeOK
<1>3. QED BY <1>1, <1>2, LeavesBeaten

\* The lock of a job that works behind it is never older than the heartbeat's
\* period, whoever is signalled, crashes or is resubmitted beside it.
THEOREM LiveLockFresh == Spec => []AllBeaten
<1>1. Init => AllBeaten
      BY DEF Init, AllBeaten, Beaten, Works
<1>2. TypeOK /\ AllBeaten /\ [Next]_vars => AllBeaten'
  <2> SUFFICES ASSUME TypeOK, AllBeaten, [Next]_vars PROVE AllBeaten'
      OBVIOUS
  <2>1. CASE UNCHANGED vars
        BY <2>1, OthersBeaten DEF vars, AllBeaten
  <2>2. QED BY <2>1, ScriptBeats, HeartbeatBeats, TickBeats, BatchBeats DEF Next
<1>3. QED BY <1>1, <1>2, TypeCorrect, PTL DEF Spec

\* A subjob of production_task.sh that reads the age of a lock and goes on to
\* remove it was not looking at the lock of a job that works and beats: for
\* every period shorter than the threshold, a long download is not taken over.
THEOREM LiveClaimSafe == Spec => LiveClaimNeverJudgedStale
<1> DEFINE Step ==
      \A j \in Job :
         (pc[j] = "age" /\ pc'[j] = "rm" /\ lock = "dir") =>
            ~ (claimant \in Job /\ pc[claimant] \in {"claimed", "armed", "working"})
<1>1. TypeOK /\ AllBeaten /\ [Next]_vars => [Step]_vars
  <2> SUFFICES ASSUME TypeOK, AllBeaten, Next,
                      NEW j \in Job, pc[j] = "age", pc'[j] = "rm", lock = "dir",
                      claimant \in Job,
                      pc[claimant] \in {"claimed", "armed", "working"}
               PROVE  FALSE
      OBVIOUS
  <2>1. age <= Period
        BY DEF AllBeaten, Beaten, Works
  <2>2. age < StaleAfter /\ age >= 0
        BY <2>1, TimingAssumption DEF TypeOK
  <2>3. ASSUME NEW i \in Job, Script(i) PROVE ReadAge(j)
        BY <2>3 DEF Script, CheckDone, ClaimMade, ClaimRefused, ReadAge, RemoveStale,
                    TakeOver, TakeOverRefused, SetTrap, StartHeartbeat, Finish,
                    TrapKill, TrapRemove, MakeLock, Goto, TypeOK
  <2>4. ASSUME NEW i \in Job, Heartbeat(i) \/ Signal(i) \/ Crash(i) \/ Resubmit(i)
        PROVE  FALSE
        BY <2>4 DEF Heartbeat, BeatTest, BeatWake, BeatTouch, Signal, Crash,
                    Resubmit, Goto, TypeOK
  <2>5. ~ Tick
        BY DEF Tick
  <2>6. ReadAge(j)
        BY <2>3, <2>4, <2>5 DEF Next
  <2>7. QED BY <2>2, <2>6 DEF ReadAge, JudgedLive, ObservedAge, Goto, TypeOK
<1>2. QED BY <1>1, TypeCorrect, LiveLockFresh, PTL DEF Spec, LiveClaimNeverJudgedStale
=============================================================================
