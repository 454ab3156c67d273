----------------------------- MODULE TaskResume -----------------------------
(***************************************************************************)
(* What an attempt at a task does to the task directory once it owns it,   *)
(* and what the next attempt makes of what is left: prepare_retry.py, the  *)
(* capped manifest, img2dataset's incremental mode, assess_task.py, the    *)
(* DONE.json marker, is_task_complete.py and salvage_task.py.              *)
(*                                                                         *)
(* A shard is three facts on disk: its .tar, its _stats.json, and what the *)
(* stats say.  How the web answered is abstracted to a profile per shard:  *)
(* the percentages of its URLs that were stored, failed in DNS, or found   *)
(* no route.  An attempt can be killed after any step.                     *)
(***************************************************************************)
EXTENDS Integers, FiniteSets, Functions

CONSTANTS
    Rows,         \* URLs the plan allots the task
    Sps,          \* number_sample_per_shard, the same in every attempt
    Caps,         \* OD_MAX_URLS of the capped attempts; 0 is no cap
    Tag,          \* attempt tags: PBS job ids, or "manual"
    Profile, FairProfiles, \* how the web may answer; how it does when it is well
    Stored, Dns, Unreachable, \* percentages, by profile
    MaxKills      \* bound on kills and failed downloads of one behaviour

ASSUME SizeAssumption == /\ Rows \in Nat \ {0} /\ Sps \in Nat \ {0}
                         /\ Caps \subseteq Nat
ASSUME ProfileAssumption ==
    /\ FairProfiles \subseteq Profile /\ FairProfiles # {}
    /\ Stored \in [Profile -> 0..100]
    /\ Dns \in [Profile -> 0..100]
    /\ Unreachable \in [Profile -> 0..100]
ASSUME BoundAssumption == MaxKills \in Nat

\* task_health.py
MIN_YIELD == 30
MAX_DNS == 20
MAX_UNREACHABLE == 10
HEALTHY_YIELD == 50

Least(a, b) == IF a < b THEN a ELSE b
\* img2dataset cuts the first n URLs of the manifest into shards 0, 1, ...
ShardsOf(n) == {s \in 0..n - 1 : s * Sps < n}
SizeIn(s, n) == Least(Sps, n - s * Sps)
Shard == ShardsOf(Rows)
\* What a shard without readable stats is given, for definiteness.
NoProfile == CHOOSE p \in FairProfiles : TRUE

VARIABLES
    tar, stats,      \* per shard: image data present; "none", "torn" or "done"
    count, profile,  \* per shard: what a readable stats file says
    aside,           \* per tag: the files in attempt-<tag>
    marker, counted, \* DONE.json: "none", "torn" or "written"; its candidates
    pc, cap, tag,    \* the attempt: its next step and its settings
    todo,            \* files prepare_retry has still to rename
    wanted,          \* URLs in the attempt's manifest
    failed,          \* img2dataset exited non-zero
    weather, canary, \* the network is still bad; attempts are still capped
    kills,
    clobbered        \* history: a rename replaced a file already set aside

disk == <<tar, stats, count, profile>>
attempt == <<cap, tag, todo, wanted, failed>>
world == <<weather, canary>>
vars == <<tar, stats, count, profile, aside, marker, counted, pc, cap, tag,
          todo, wanted, failed, weather, canary, kills, clobbered>>

File == Shard \X {"tar", "stats"}

TypeOK ==
    /\ tar \in [Shard -> BOOLEAN]
    /\ stats \in [Shard -> {"none", "torn", "done"}]
    /\ count \in [Shard -> 0..Sps]
    /\ profile \in [Shard -> Profile]
    /\ aside \in [Tag -> SUBSET File]
    /\ marker \in {"none", "torn", "written"} /\ counted \in 0..Rows
    /\ pc \in {"idle", "scan", "move", "manifest", "download", "assess", "mark"}
    /\ cap \in Caps \cup {0} /\ tag \in Tag
    /\ todo \subseteq File /\ wanted \in 0..Rows /\ failed \in BOOLEAN
    /\ weather \in {"bad", "fair"} /\ canary \in BOOLEAN
    /\ kills \in 0..MaxKills /\ clobbered \in BOOLEAN

Init ==
    /\ tar = [s \in Shard |-> FALSE] /\ stats = [s \in Shard |-> "none"]
    /\ count = [s \in Shard |-> 0]
    /\ profile = [s \in Shard |-> NoProfile]
    /\ aside = [t \in Tag |-> {}]
    /\ marker = "none" /\ counted = 0
    /\ pc = "idle" /\ cap = 0 /\ tag \in Tag
    /\ todo = {} /\ wanted = 0 /\ failed = FALSE
    /\ weather = "bad" /\ canary = TRUE
    /\ kills = 0 /\ clobbered = FALSE

\* The script ends, and its shell variables with it.
End ==
    /\ pc' = "idle" /\ todo' = {}
    /\ cap' = 0 /\ wanted' = 0 /\ failed' = FALSE
    /\ UNCHANGED tag

-----------------------------------------------------------------------------
\* The verdicts.

Readable == {s \in Shard : stats[s] = "done"}
Candidates == SumFunctionOnSet(count, Readable)
Share(percent) == SumFunctionOnSet([s \in Shard |-> count[s] * percent[profile[s]]], Readable)

\* task_health.assess on the sum of the readable stats.
Healthy ==
    /\ Candidates > 0
    /\ ~ /\ Share(Unreachable) > MAX_UNREACHABLE * Candidates
         /\ Share(Stored) < HEALTHY_YIELD * Candidates
    /\ Share(Dns) <= MAX_DNS * Candidates
    /\ Share(Stored) >= MIN_YIELD * Candidates

\* Slip: any marker counts, as before markers were checked against the plan.
CompleteByMarker == marker = "written"

\* is_task_complete: a marker that reads "skip".
Complete == marker = "written" /\ counted >= Rows

\* Slip: the threshold that used to be 0.05.
UninheritableBelowFive(s) ==
    \/ stats[s] = "torn"
    \/ stats[s] = "done" /\ ~ (count[s] > 0 /\ Stored[profile[s]] >= 5)

\* prepare_retry: finished, and not worth inheriting.
Uninheritable(s) ==
    \/ stats[s] = "torn"
    \/ stats[s] = "done" /\ ~ (count[s] > 0 /\ Stored[profile[s]] >= MIN_YIELD)

-----------------------------------------------------------------------------
\* One attempt, from the DONE check to the marker.

Begin(c, t) ==
    /\ pc = "idle" /\ ~Complete
    /\ c \in (IF canary THEN Caps ELSE {0})
    /\ cap' = c /\ tag' = t /\ pc' = "scan"
    /\ UNCHANGED <<disk, aside, marker, counted, todo, wanted, failed, world,
                   kills, clobbered>>

OnDisk(f) == IF f[2] = "tar" THEN tar[f[1]] ELSE stats[f[1]] # "none"

\* Slip: the whole attempt is set aside, as it used to be.
ToMoveWholesale == {f \in File : OnDisk(f)}
\* Slip: finished shards are looked for by their tar.
ToMoveByTar == {f \in File : Uninheritable(f[1]) /\ tar[f[1]]}

ToMove == {f \in File : Uninheritable(f[1]) /\ OnDisk(f)}

Scan ==
    /\ pc = "scan"
    /\ todo' = ToMove
    /\ pc' = IF todo' = {} THEN "manifest" ELSE "move"
    /\ UNCHANGED <<disk, aside, marker, counted, cap, tag, wanted, failed,
                   world, kills, clobbered>>

\* Shard by shard; within a shard in directory order, which is any order.
MoveFile(f) ==
    /\ pc = "move" /\ f \in todo
    /\ \A g \in todo : f[1] <= g[1]
    /\ IF f[2] = "tar"
       THEN /\ tar' = [tar EXCEPT ![f[1]] = FALSE]
            /\ UNCHANGED <<stats, count, profile>>
       ELSE /\ stats' = [stats EXCEPT ![f[1]] = "none"]
            /\ count' = [count EXCEPT ![f[1]] = 0]
            /\ profile' = [profile EXCEPT ![f[1]] = NoProfile]
            /\ UNCHANGED tar
    /\ aside' = [aside EXCEPT ![tag] = @ \cup {f}]
    /\ clobbered' = (clobbered \/ f \in aside[tag])
    /\ todo' = todo \ {f}
    /\ pc' = IF todo' = {} THEN "manifest" ELSE "move"
    /\ UNCHANGED <<marker, counted, cap, tag, wanted, failed, world, kills>>

\* build_task_manifest writes every planned row, cap_manifest keeps a prefix.
ManifestSize == IF cap > 0 THEN Least(cap, Rows) ELSE Rows

BuildManifest ==
    /\ pc = "manifest"
    /\ wanted' = ManifestSize
    /\ pc' = "download"
    /\ UNCHANGED <<disk, aside, marker, counted, cap, tag, todo, failed, world,
                   kills, clobbered>>

\* img2dataset skips a shard that has any stats file and overwrites the rest.
Pending(s) == s \in ShardsOf(wanted) /\ stats[s] = "none"

OpenShard(s) ==
    /\ pc = "download" /\ Pending(s) /\ ~tar[s]
    /\ tar' = [tar EXCEPT ![s] = TRUE]
    /\ UNCHANGED <<stats, count, profile, aside, marker, counted, pc, attempt,
                   world, kills, clobbered>>

CloseShard(s, p) ==
    /\ pc = "download" /\ Pending(s) /\ tar[s]
    /\ weather = "fair" => p \in FairProfiles
    /\ stats' = [stats EXCEPT ![s] = "done"]
    /\ count' = [count EXCEPT ![s] = SizeIn(s, wanted)]
    /\ profile' = [profile EXCEPT ![s] = p]
    /\ UNCHANGED <<tar, aside, marker, counted, pc, attempt, world, kills,
                   clobbered>>

DownloadEnds ==
    /\ pc = "download" /\ \A s \in Shard : ~Pending(s)
    /\ pc' = "assess" /\ failed' = FALSE
    /\ UNCHANGED <<disk, aside, marker, counted, cap, tag, todo, wanted, world,
                   kills, clobbered>>

DownloadFails ==
    /\ pc = "download" /\ kills < MaxKills
    /\ pc' = "assess" /\ failed' = TRUE /\ kills' = kills + 1
    /\ UNCHANGED <<disk, aside, marker, counted, cap, tag, todo, wanted, world,
                   clobbered>>

\* Slip: only img2dataset's exit code decides, as in the outage.
AcceptedByExitCode == ~failed

\* The gate comes first, then img2dataset's exit code.
Accepted == Healthy /\ ~failed

Assess ==
    /\ pc = "assess"
    /\ IF Accepted THEN pc' = "mark" /\ UNCHANGED attempt ELSE End
    /\ UNCHANGED <<disk, aside, marker, counted, world, kills, clobbered>>

Mark ==
    /\ pc = "mark"
    /\ marker' = "written" /\ counted' = Candidates
    /\ End
    /\ UNCHANGED <<disk, aside, world, kills, clobbered>>

\* A kill can cut short the stats files being written and the marker.
Kill ==
    /\ pc # "idle" /\ kills < MaxKills
    /\ kills' = kills + 1 /\ End
    /\ \E torn \in SUBSET {s \in Shard : pc = "download" /\ Pending(s) /\ tar[s]} :
          stats' = [s \in Shard |-> IF s \in torn THEN "torn" ELSE stats[s]]
    /\ \/ UNCHANGED marker
       \/ pc = "mark" /\ marker' = "torn"
    /\ UNCHANGED <<tar, count, profile, aside, counted, world, clobbered>>

\* salvage_task, run by the operator between attempts.
Salvage ==
    /\ pc = "idle" /\ marker = "none"
    /\ \A s \in Shard : stats[s] # "torn"
    /\ Healthy
    /\ marker' = "written" /\ counted' = Candidates
    /\ UNCHANGED <<disk, aside, pc, attempt, world, kills, clobbered>>

\* The outage ends; the operator stops capping.
WeatherClears ==
    /\ weather = "bad" /\ weather' = "fair"
    /\ UNCHANGED <<disk, aside, marker, counted, pc, attempt, canary, kills,
                   clobbered>>

CanaryEnds ==
    /\ canary /\ pc = "idle" /\ canary' = FALSE
    /\ UNCHANGED <<disk, aside, marker, counted, pc, attempt, weather, kills,
                   clobbered>>

Attempt ==
    \/ \E c \in Caps \cup {0}, t \in Tag : Begin(c, t)
    \/ Scan \/ \E f \in File : MoveFile(f)
    \/ BuildManifest
    \/ \E s \in Shard : OpenShard(s) \/ \E p \in Profile : CloseShard(s, p)
    \/ DownloadEnds \/ Assess \/ Mark

Next == Attempt \/ DownloadFails \/ Kill \/ Salvage \/ WeatherClears \/ CanaryEnds

Spec == Init /\ [][Next]_vars

\* Attempts are resubmitted until the task is skipped and each one runs on;
\* the outage and the capped waves come to an end.
FairSpec == Spec /\ WF_vars(Attempt) /\ WF_vars(WeatherClears) /\ SF_vars(CanaryEnds)

-----------------------------------------------------------------------------
\* A task that later waves skip has every planned URL in a finished shard,
\* whatever caps, kills and torn files its attempts went through.
SkipCoversPlan ==
    Complete => \A s \in Shard : stats[s] = "done" /\ count[s] = SizeIn(s, Rows)

\* A task that later waves skip would still pass the health gate.
SkipIsHealthy == Complete => Healthy

\* No attempt moves or downloads again a finished shard that meets the yield.
KeptShardUntouched ==
    [][\A s \in Shard : (stats[s] = "done" /\ ~Uninheritable(s)) =>
          /\ tar'[s] = tar[s] /\ stats'[s] = stats[s]
          /\ count'[s] = count[s] /\ profile'[s] = profile[s]]_vars

\* Once prepare_retry is through, every finished shard has its images: a
\* rename that an earlier kill cut short leaves no stats without their tar.
JudgedImagesPresent ==
    pc \in {"manifest", "download", "assess", "mark"} =>
        \A s \in Shard : stats[s] = "done" => tar[s]

\* The finished shards that every later attempt keeps.
Inherited == {s \in Readable : ~Uninheritable(s)}

\* What the next attempt keeps although the gate holds it against the task:
\* a shard cut short by a cap that is no whole number of shards; one that lost
\* more names than a task may; refused routes together with a yield below the
\* healthy one, of the same shard or of two whose sum is judged.
InheritedAgainstTheGate ==
    \/ \E s \in Inherited : count[s] < SizeIn(s, Rows)
    \/ \E s \in Inherited : Dns[profile[s]] > MAX_DNS
    \/ \E s, u \in Inherited : /\ Unreachable[profile[s]] > MAX_UNREACHABLE
                               /\ Stored[profile[u]] < HEALTHY_YIELD

\* Once the network is well and attempts go on, the task gets a marker that
\* later waves accept, or keeps such shards: nothing else an attempt leaves
\* behind stands in the way of the next.
CompleteUnlessInherited == <>(Complete \/ InheritedAgainstTheGate)

\* The same without the exception: "a later wave must redo it in full"
\* (production_task.sh), and not "rejected again, forever" (prepare_retry.py).
EventuallyComplete == <>Complete

\* "Set aside rather than deleted: a failed attempt is evidence"
\* (prepare_retry.py).  Not of two attempts under one tag.
EvidenceKept == ~clobbered

\* A task that later waves skip has the images its marker counts: "The images
\* are on disk" (salvage_task.py).  Not those of a shard whose setting aside
\* was cut short before salvage_task was run.
SkipHasImages == Complete => \A s \in Shard : tar[s]
=============================================================================
