------------------------------ MODULE TaskLock ------------------------------
(***************************************************************************)
(* The claim a production subjob takes on its task directory before it     *)
(* touches anything in it: scripts/production_task.sh, from the DONE.json  *)
(* check to the exit trap.                                                 *)
(*                                                                         *)
(* The claim is the directory RUNNING.lock.  mkdir is the test-and-set, a  *)
(* background heartbeat keeps its mtime fresh, a trap removes it, and a    *)
(* job that finds it older than StaleAfter removes and recreates it.  Each *)
(* action is one command of the script; jobs interleave between commands.  *)
(***************************************************************************)
EXTENDS Integers, FiniteSets

CONSTANTS
    Job,         \* subjobs that run the script for this one task
    Nobody,      \* no claimant: no lock, or a lock no mkdir of a job made
    StaleAfter,  \* OD_LOCK_STALE_SECONDS, in ticks
    Period,      \* the heartbeat's sleep, in ticks
    MaxKills     \* bound on the signals and crashes of one behaviour

ASSUME JobAssumption == Nobody \notin Job
ASSUME TimingAssumption == /\ StaleAfter \in Nat /\ Period \in Nat
                           /\ 0 < Period /\ Period < StaleAfter
ASSUME KillsAssumption == MaxKills \in Nat

VARIABLES
    lock,       \* what RUNNING.lock is: "none", a "dir" or a plain "file"
    age,        \* ticks since its last mtime, saturating at StaleAfter
    claimant,   \* history: the job whose mkdir made it
    complete,   \* DONE.json accounts for the whole task
    pc,         \* the next command of each job
    after,      \* where a job goes on when its trap handler returns
    kills,      \* signals and crashes so far
    hb,         \* the heartbeat subshell of each job
    slept,      \* ticks the heartbeat has slept
    lost        \* history: jobs whose lock was removed since they made it

lockVars == <<lock, age, claimant>>
hbVars   == <<hb, slept>>
vars == <<lock, age, claimant, complete, pc, after, kills, hb, slept, lost>>

PC == {"check", "claim", "age", "rm", "remake", "claimed", "armed", "working",
       "trap", "release", "left", "dead"}

TypeOK ==
    /\ lock \in {"none", "dir", "file"}
    /\ age \in 0..StaleAfter
    /\ claimant \in Job \cup {Nobody}
    /\ complete \in BOOLEAN
    /\ pc \in [Job -> PC]
    /\ after \in [Job -> {"armed", "working", "left"}]
    /\ kills \in 0..MaxKills
    /\ hb \in [Job -> {"off", "test", "sleep", "touch", "orphan"}]
    /\ slept \in [Job -> 0..Period]
    /\ lost \in SUBSET Job

\* A job owns the task from its successful mkdir to the start of its exit
\* trap; a signal handler in between does not end the work.
Owns(j) == \/ pc[j] \in {"claimed", "armed", "working"}
           \/ pc[j] \in {"trap", "release"} /\ after[j] # "left"
Owners == {j \in Job : Owns(j)}

Init ==
    /\ lock = "none" /\ age = 0 /\ claimant = Nobody
    /\ complete = FALSE
    /\ pc = [j \in Job |-> "check"]
    /\ after = [j \in Job |-> "left"]
    /\ kills = 0
    /\ hb = [j \in Job |-> "off"]
    /\ slept = [j \in Job |-> 0]
    /\ lost = {}

Goto(j, label) == pc' = [pc EXCEPT ![j] = label]

\* Slip: mkdir -p, which also succeeds on a lock that is there.
MakeLockP(j) ==
    /\ lock' = "dir" /\ age' = 0 /\ claimant' = j
    /\ lost' = lost \ {j}
    /\ Goto(j, "claimed")

\* mkdir "${LOCK}": succeeds only when nothing of that name exists.
MakeLock(j) ==
    /\ lock = "none"
    /\ lock' = "dir" /\ age' = 0 /\ claimant' = j
    /\ lost' = lost \ {j}
    /\ Goto(j, "claimed")

\* rm -rf "${LOCK}": whatever is there, whoever made it.
RemoveLock ==
    /\ lock' = "none" /\ age' = 0 /\ claimant' = Nobody
    /\ lost' = lost \cup ({claimant} \cap Job)

-----------------------------------------------------------------------------
\* The script, one command at a time.

CheckDone(j) ==
    /\ pc[j] = "check"
    /\ Goto(j, IF complete THEN "left" ELSE "claim")
    /\ UNCHANGED <<lockVars, complete, after, kills, hbVars, lost>>

ClaimMade(j) ==
    /\ pc[j] = "claim"
    /\ MakeLock(j)
    /\ UNCHANGED <<complete, after, kills, hbVars>>

ClaimRefused(j) ==
    /\ pc[j] = "claim" /\ lock # "none"
    /\ Goto(j, "age")
    /\ UNCHANGED <<lockVars, complete, after, kills, hbVars, lost>>

\* getmtime: -1 when the lock went away after the mkdir that it refused.
ObservedAge == IF lock = "none" THEN -1 ELSE age
\* Slip: any lock that is there is taken for a live one.
JudgedLiveForever(a) == a >= 0

JudgedLive(a) == a >= 0 /\ a < StaleAfter

ReadAge(j) ==
    /\ pc[j] = "age"
    /\ Goto(j, IF JudgedLive(ObservedAge) THEN "left" ELSE "rm")
    /\ UNCHANGED <<lockVars, complete, after, kills, hbVars, lost>>

RemoveStale(j) ==
    /\ pc[j] = "rm"
    /\ RemoveLock
    /\ Goto(j, "remake")
    /\ UNCHANGED <<complete, after, kills, hbVars>>

TakeOver(j) ==
    /\ pc[j] = "remake"
    /\ MakeLock(j)
    /\ UNCHANGED <<complete, after, kills, hbVars>>

TakeOverRefused(j) ==
    /\ pc[j] = "remake" /\ lock # "none"
    /\ Goto(j, "left")
    /\ UNCHANGED <<lockVars, complete, after, kills, hbVars, lost>>

SetTrap(j) ==
    /\ pc[j] = "claimed"
    /\ Goto(j, "armed")
    /\ UNCHANGED <<lockVars, complete, after, kills, hbVars, lost>>

StartHeartbeat(j) ==
    /\ pc[j] = "armed"
    /\ hb' = [hb EXCEPT ![j] = "test"]
    /\ Goto(j, "working")
    /\ UNCHANGED <<lockVars, complete, after, kills, slept, lost>>

\* The body ends: the marker is written or it is not, and EXIT traps.
Finish(j, accepted) ==
    /\ pc[j] = "working"
    /\ complete' = (complete \/ accepted)
    /\ after' = [after EXCEPT ![j] = "left"]
    /\ Goto(j, "trap")
    /\ UNCHANGED <<lockVars, kills, hbVars, lost>>

\* The trap has two commands.  A touch already forked outlives its subshell.
TrapKill(j) ==
    /\ pc[j] = "trap"
    /\ hb' = [hb EXCEPT ![j] = IF @ = "touch" THEN "orphan" ELSE "off"]
    /\ Goto(j, "release")
    /\ UNCHANGED <<lockVars, complete, after, kills, slept, lost>>

TrapRemove(j) ==
    /\ pc[j] = "release"
    /\ RemoveLock
    /\ Goto(j, after[j])
    /\ UNCHANGED <<complete, after, kills, hbVars>>

Script(j) ==
    \/ CheckDone(j) \/ ClaimMade(j) \/ ClaimRefused(j) \/ ReadAge(j)
    \/ RemoveStale(j) \/ TakeOver(j) \/ TakeOverRefused(j)
    \/ SetTrap(j) \/ StartHeartbeat(j)
    \/ \E accepted \in BOOLEAN : Finish(j, accepted)
    \/ TrapKill(j) \/ TrapRemove(j)

-----------------------------------------------------------------------------
\* while [ -d LOCK ]; do sleep 60; touch LOCK; done

BeatTest(j) ==
    /\ hb[j] = "test"
    /\ hb' = [hb EXCEPT ![j] = IF lock = "dir" THEN "sleep" ELSE "off"]
    /\ slept' = [slept EXCEPT ![j] = 0]
    /\ UNCHANGED <<lockVars, complete, pc, after, kills, lost>>

BeatWake(j) ==
    /\ hb[j] = "sleep" /\ slept[j] = Period
    /\ hb' = [hb EXCEPT ![j] = "touch"]
    /\ UNCHANGED <<lockVars, complete, pc, after, kills, slept, lost>>

\* Slip: the heartbeat touches something else.
BeatTouchElsewhere(j) ==
    /\ hb[j] \in {"touch", "orphan"}
    /\ hb' = [hb EXCEPT ![j] = IF @ = "touch" THEN "test" ELSE "off"]
    /\ UNCHANGED <<lockVars, complete, pc, after, kills, slept, lost>>

\* touch refreshes whoever's lock is there, and creates a file if none is.
BeatTouch(j) ==
    /\ hb[j] \in {"touch", "orphan"}
    /\ lock' = IF lock = "none" THEN "file" ELSE lock
    /\ age' = 0
    /\ hb' = [hb EXCEPT ![j] = IF @ = "touch" THEN "test" ELSE "off"]
    /\ UNCHANGED <<claimant, complete, pc, after, kills, slept, lost>>

Heartbeat(j) == BeatTest(j) \/ BeatWake(j) \/ BeatTouch(j)

-----------------------------------------------------------------------------
\* The batch system, and time.

\* INT or TERM: with a trap the handler runs and the script goes on where it
\* was; before the trap is set the job just ends.
Signal(j) ==
    /\ kills < MaxKills /\ kills' = kills + 1
    /\ \/ /\ pc[j] \in {"armed", "working"}
          /\ after' = [after EXCEPT ![j] = pc[j]]
          /\ Goto(j, "trap")
       \/ /\ pc[j] \in {"claim", "age", "rm", "remake", "claimed"}
          /\ Goto(j, "dead")
          /\ UNCHANGED after
    /\ UNCHANGED <<lockVars, complete, hbVars, lost>>

\* A lost node, an outage or a KILL at the walltime: the job and its
\* heartbeat stop, the lock stays.
Crash(j) ==
    /\ pc[j] \notin {"check", "left", "dead"}
    /\ kills < MaxKills /\ kills' = kills + 1
    /\ Goto(j, "dead")
    /\ hb' = [hb EXCEPT ![j] = "off"]
    /\ UNCHANGED <<lockVars, complete, after, slept, lost>>

\* The wave is submitted again.
Resubmit(j) ==
    /\ pc[j] \in {"left", "dead"} /\ hb[j] = "off"
    /\ Goto(j, "check")
    /\ after' = [after EXCEPT ![j] = "left"]
    /\ UNCHANGED <<lockVars, complete, kills, hbVars, lost>>

\* A tick is about a minute: a heartbeat that is due, and the few commands
\* between the claim and the heartbeat, do not wait one out.
Tick ==
    /\ \A j \in Job : /\ hb[j] \in {"off", "sleep"}
                      /\ hb[j] = "sleep" => slept[j] < Period
                      /\ pc[j] \notin {"claimed", "armed"}
    /\ age' = IF lock # "none" /\ age < StaleAfter THEN age + 1 ELSE age
    /\ slept' = [j \in Job |-> IF hb[j] = "sleep" THEN slept[j] + 1 ELSE slept[j]]
    /\ UNCHANGED <<lock, claimant, complete, pc, after, kills, hb, lost>>

Next ==
    \/ \E j \in Job : \/ Script(j) \/ Heartbeat(j)
                      \/ Signal(j) \/ Crash(j) \/ Resubmit(j)
    \/ Tick

Spec == Init /\ [][Next]_vars

\* A running command ends, time passes, and the operator keeps resubmitting
\* the whole range.  Kills are not fair, and MaxKills ends them.
FairSpec ==
    /\ Spec
    /\ \A j \in Job : WF_vars(Script(j)) /\ WF_vars(Heartbeat(j))
    /\ \A j \in Job : WF_vars(Resubmit(j))
    /\ WF_vars(Tick)

-----------------------------------------------------------------------------
\* An owner whose lock was not taken from it holds the lock directory.  So
\* mkdir gives the task to one job at a time, and a second owner appears only
\* behind somebody's rm -rf.
UnrobbedOwnerHoldsLock ==
    \A j \in Owners \ lost : lock = "dir" /\ claimant = j

\* A job that judges the lock stale is never looking at the lock of an owner
\* that is still beating, so a long download is not taken over.
LiveClaimNeverJudgedStale ==
    [][\A j \in Job :
         (pc[j] = "age" /\ pc'[j] = "rm" /\ lock = "dir") =>
            ~ (claimant \in Job /\ pc[claimant] \in {"claimed", "armed", "working"})]_vars

\* A lock nobody alive stands behind is removed or taken over in the end:
\* a dead owner does not strand an unfinished task.
StrandedTaskReclaimed ==
    (lock # "none" /\ Owners = {}) ~>
        (lock = "none" \/ Owners # {} \/ complete)

\* "Contract for a task having exactly one owner at a time"
\* (tests/test_task_lock.py).
OneOwner == \A i, j \in Owners : i = j

\* A finished task is skipped, not downloaded again (the comment on the DONE
\* check): no job claims a task that is already complete.  It may: the check
\* is not made again after the claim.
FinishedTaskNotClaimed ==
    [][\A j \in Job : (complete /\ pc'[j] = "claimed") => pc[j] = "claimed"]_vars
=============================================================================
