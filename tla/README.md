# A verification development for OpenDINOv3's data acquisition

OpenDINOv3 downloads image corpora of about a billion URLs. A *plan* cuts the
corpus into tasks of a million URLs (or fewer); each task is one batch job on
one node, which runs `img2dataset` over the task's URLs and judges what came
of it. Jobs are killed at their walltime, nodes and networks fail, waves of
jobs are submitted again over the same range, and a node's 32 worker
processes of 32 threads each share one DNS resolver. The modules here model
the code that has to stay right under that, TLC checks them on small
instances, and TLAPS proves what matters most for every instance.

Paths below are those of the repository; `net/` and `core/` are
`src/opendinov3/net/` and `src/opendinov3/core/`.

## 1. Inventory

| component | state it keeps | operations | interacts with | what is hard | what makes it correct |
|---|---|---|---|---|---|
| **task claim**: `scripts/production_task.sh` | `RUNNING.lock` (a directory and its mtime), `DONE.json`, a heartbeat subshell | DONE check, `mkdir` claim, stale test and takeover, heartbeat, traps | the batch system that kills and requeues; other jobs of the same task | steps of several jobs between two commands; signals and crashes at each | one owner per task, no live claim taken, no task stranded, no finished task redone |
| **attempts, resumption, marker**: `production_task.sh`, `prepare_retry.py`, `cap_manifest.py`, `assess_task.py`, `is_task_complete.py`, `salvage_task.py` | per shard a `.tar` and a `_stats.json`; `attempt-<tag>/`; `DONE.json` | scan and set aside, build and cap the manifest, download, judge, mark, salvage | img2dataset's incremental mode, which trusts any stats file; the plan | a kill between any two files; attempts with other settings; an outage that looks like success | a skipped task is whole and healthy; good work is kept; every task completes in the end |
| **health gate**: `core/task_health.py`, `core/download_stats.py` | none | sum the stats, classify failures, accept or reject | the marker, the resumption | the two use different thresholds | an outage is never marked complete |
| **DNS packet budget**: `net/dns_budget.py` (`Budget`, `install`), `sitecustomize.py` | a state file under `flock`: the rate and a count | probe at start, send, fail closed | all threads of all workers on a node | deaths while holding the lock; threads and processes; two configurations | one packet per interval on the node, a count that never understates, no unpaced worker |
| **DNS admission**: `net/dns_budget.py` (`ResolutionAdmission`) | one lock file per slot | enter, leave, time out | the resolver threads of all workers | the scan is not atomic; a process dies with slots | the limit, no leak, no endless or early refusal |
| **DNS cache**: `net/dns_cache.py` | an `OrderedDict`, two counters, a lock, per process | look up, store, evict; install, uninstall | every downloading thread | the resolution runs outside the lock | bounded, never older than its TTL, nobody blocked by another's resolver call |
| **partition**: `core/metadata_partition.py`, `plan_partition.py`, `repartition_plan.py` | the plan | cut, recut a suffix | the claims: task ids name directories | boundaries inside files, empty files, repeated recuts | every row in one task, once, in order; started tasks keep their rows |
| **manifest**: `build_task_manifest.py`, `core/task_manifest.py`, `core/dataset_schema.py`, `cap_manifest.py`, `inspect_metadata.py` | `urls.parquet` and its `.partial` | resolve paths and columns, extract, write and rename, cap | the plan; the download that reads it | kills between write and rename; equal file names; corpora that change | the download reads the planned rows, whole or capped, with the documented columns |
| **pooled download**: `net/pooled_download.py` | one `PoolManager` per process, its connections | fetch with a deadline, retry, sleep on transient failures | the server, urllib3, the threads of the worker | deadline against answer, what is returned to the pool and by whom | no transfer beyond its deadline, no half-read connection reused, no connection in two places |
| **experiments 0002 and 0003**: the submit, job and worker scripts, `stage_node_slices.sh`, `analyse_experiment_000*.py`, `core/node_plan.py`, `core/concurrency_plan.py`, `core/download_stats.py` | slices, phase directories with stats and wall times | plan, submit, archive, slice, run phases on nodes, analyse | the batch system, the nodes, URL slicing | jobs and nodes that die, resubmission into one directory, integer division | one attempt per measurement, disjoint equal work, a verdict that failures do not improve |
| **URL slicing**: `core/urllist.py`, `core/parquet_urls.py`, `slice_urls.py` | none | find the URL column, cut slices at offsets | the experiments | headers, several candidate columns, short inputs | tables and lists give the same disjoint slices |
| **wave submission**: `submit_production.sh`, `production_job.sh`, `experiment_0004_job.sh` | none | check the range, shift indices, cap the wave | the batch system | index and offset live in two scripts; waves overlap | each index runs its own task |
| throughput model, DNS measurements, shard format, reports, container | files | — | — | little state, no concurrency | — |

`PROJECT.json` lists every component with its status, and under `hazards`
each thing in this code that is hard to test, at its line.

## 2. What is modelled

### TaskLock — the claim
One action per shell command of `production_task.sh` lines 106–168, for any
number of jobs that run the script for one task. `lock` is what the name
`RUNNING.lock` denotes: nothing, a directory, or a plain file (a `touch` can
make one); `age` counts ticks since its mtime. `pc[j]` is the command job `j`
runs next. `ClaimMade`/`ClaimRefused` are the `mkdir`; `ReadAge` is the age
and its test, with -1 for a lock that is gone; `RemoveStale` and
`TakeOver`/`TakeOverRefused` are the two commands of the takeover; `Finish`
is the whole body (the attempt), which writes a marker that counts or does
not; `TrapKill`/`TrapRemove` are the trap's two commands. A handled signal
runs the trap and then the script *goes on* (`after`), which is what bash
does. `Heartbeat` is the subshell's loop; `Crash`, `Signal` and `Resubmit`
are the batch system. `claimant` and `lost` are history variables.

Assumptions: a tick is about a minute and `sleep 60` about one tick; a
heartbeat that is due and the few commands between the claim and the
heartbeat do not wait out a tick (`Tick`'s guard), so staleness comes only of
a heartbeat that is not running; a job and its heartbeat die together in a
crash; an `rm -rf` of the lock is one step.

### TaskResume — what an attempt leaves and the next one makes of it
One task directory; one attempt at a time (the claim's job), killed after any
step. A shard is a tar, a stats file (`none`, `torn` by a kill, `done`), and
a *profile*: the percentages of its URLs stored, lost to DNS and lost to "no
route", which is all the gate and `prepare_retry` look at. `Scan` and
`MoveFile` are `prepare`, renaming file by file; `BuildManifest` writes and
caps the manifest; `OpenShard`/`CloseShard` are img2dataset, which skips any
shard that has a stats file; `Assess` and `Mark` are the gate, the exit code
and `DONE.json`; `Complete` is `is_task_complete.py`; `Salvage` is
`salvage_task.py`, run by hand between attempts. `weather` says whether the
network is still in its outage and `canary` whether attempts are still
capped.

Assumptions: img2dataset (external) numbers shards by the manifest's order and
cuts them at `number_sample_per_shard`, which does not change between
attempts; it retries nothing within a run. The percentages stand for the
fractions the code computes; rounding at a threshold is not modelled.

### Partition — the plan
Each pass of the loops of `plan_tasks` and `repartition_tail` is a step:
`CutPiece` takes rows into the task being filled, `NextRange` and `CutEnds`
are the loops' ends. `Recut` is `repartition_plan.py`: its directory guard,
and the pieces of the suffix as the new input. `StartTask` is the `mkdir -p`
of a subjob. `RowsOf` is what `build_manifest` extracts. As the script's
docstring demands, nobody submits while it runs.

### DatasetSchema and Manifest — what a task downloads
`DatasetSchema` is `core/dataset_schema.py` as functions of a sequence of
column names: `_find` with its order of candidates and its fallback on case,
`resolve`, `columns_to_carry`, `compare_to_documented`. `Manifest` runs the
attempts of one task over a metadata tree, a sequence of files with paths,
columns and row counts. `resolve_source` takes a relative path from the root,
or an absolute one of an older plan from its longest suffix that exists;
`build_manifest` extracts the pieces or refuses; `Open`, `Write`, `Replace`
and `WriteFails` are the `.partial` file and its rename, for the manifest and
then again for its cap (`Cap`). `End` ends or kills an attempt at any of these
steps; `Release` publishes the corpus again between attempts. `Inspected` is a
run of `inspect_metadata.py` that reports nothing. The plan is stated over
`CorpusRows`, every row as the number of its file and its index in it: a piece
is the least and the greatest row of one file in the task's range (the loop
that cuts it is in Partition). `MeantRows` are the rows the pieces name.

Assumptions: no file's path under the root begins with a component of the
plan's mount (`MountAssumption`), as otherwise a longer suffix than the meant
one could exist; one builder at a time, which is what the claim is for (two
owners would share the `.partial` file and could publish a torn one); the
metadata does not change while a manifest is being built; a row is where it
comes from, and a field the column it is read from.

### DnsBudget — the packet gate
Threads of several processes go through `Budget.send`: `Lock` (a descriptor
of the call's own, hence per thread), `ReadState`/`Refuse`, `CountAttempt`,
`Wake` after `Interval[rate]` ticks, `Operate`, `Release`. A starting process
sends one probe that writes no packet (`install`); a conflict then ends it
(`sitecustomize.py`, exit 78), while in a running one it is an error of that
call. `Die` ends a process at any step, and the kernel drops its lock.

### DnsAdmission — the resolution bound
`ResolutionAdmission.enter` slot by slot: `TakeSlot`/`SkipSlot` are the
non-blocking `flock`, `ScanEnds` the loop's end, then `Pause` or `TimeOut`.
`Leave` is the `finally` on return and on error. `idle` is a history
variable: the slots that have been free ever since a thread's scan began.

`Admission` is the abstract specification: threads ask, are admitted while
fewer than the limit are inside, are refused, leave, or are gone together.
`DnsAdmission` implements it under the mapping `waiting <- Waiters`,
`inside <- Active`, stated as `ImplementsAdmission`, model-checked and proved.

### DnsResolution — a resolution and its packets
The two composed, as `install` composes them in every worker: `Resolve` asks
for a slot, `Query` begins a packet of the resolution that holds it, of which
there may be any number one after the other, `Paced` is the rest of
`Budget.send`, and `Return` gives the slot back when no packet is on its way.
`DnsAdmission` is extended and `DnsBudget` an instance, with `at` for its
`pc`: a thread's place in `Budget.send`. A starting process's probe goes
through the gate without a slot, and its threads resolve nothing before it is
up; `Perish` takes slots and gate from a process together. `Time` has two
clocks, for the polls and for the intervals, in no relation to each other.

Assumptions: a resolution sends its packets from its own thread; a caller
that has a resolver of its own, outside `getaddrinfo`, is not modelled.

### DnsCache — the resolver cache
`_lookup` as the code locks it: clock, lock, `Hit` or `Miss`, the resolution
outside the lock (`Answer`, `Fail`), lock, `Store` with its eviction.
An entry carries when the resolver answered it, as history.

### PooledDownload — threads, rows and connections
`Take` begins a row, `Call` sets the deadline and looks at `_manager`;
`TakeLock`/`MakeManager` are its second look under the lock. `Connect` is
urllib3's choice of a connection; `RequestFails`, `Redirect`, `Refuse` and
`Accept` are how `request()` ends. `Expire`, `ReadPiece`, `ReadEnd` and
`ReadFails` are a turn of the body's loop with both tests of the deadline.
`Done` and `Retry` begin with the `finally` (`GiveBack`) and are what
`download_image_with_retry` makes of the result. `wire[c]` is what is left to
read on a connection: nothing, a last piece, or a body that trickles for ever.

urllib3 is external and modelled from how the code relies on it: it gives a
connection back at the end of a body *before* the code does, closes and gives
it back on an error, closes what does not fit in a full pool (`block=False`),
and may or may not notice that an idle connection has something to read
before it uses it. There are as many connection objects as can be held and
kept at once (`ConnAssumption`), so a new one is always to be had.
`request()` takes any time: its timeout is one `recv`'s, and it makes any number
of them for headers and for the bodies of redirects, which urllib3 drains
without the code's deadline (`bounded-dns-resumption.md` 246–250 says as much).
A `read1` of a body of known length is one `recv`; of a chunked one it also
reads chunk sizes and trailers, and has no bound either. `headers` and `body`
are the two clocks of an attempt, and `Timeout` stands in `headers` for any
longer time.

### UrlSlices, ExperimentPlan, RunStats and Experiment
`UrlSlices` cuts tables (`cut_parquet`) and lists (`cut_text`) and says with
which exit status. `ExperimentPlan` has both plans and their refusals.
`RunStats` sums the shards of a run and applies the registered criteria, over
exact fractions, a rate with denominator 0 being unknown. `Experiment`
composes them: `Submit` is a submit script with its refusals;
`Archive`/`Archived` set an earlier attempt of 0003 aside item by item;
`CutSlices` makes one call of `slice_urls.py`; `OpenPhase`, `NoLauncher`,
`StageNode`, `StageFails` and `EndPhase` are the phases, `NodeShard` and
`NodeLost` what a node does, `Kill` the end of a job anywhere.
A directory records which attempt made it and with what shard size, as
history; `MaxPhases` is how many phases there is room for.
`analyse_experiment_0002` and `analyse_experiment_0003` are what the analysis
says of the directories, and may be asked in any state. A level of 0002 is a
phase on one node. Jobs are submitted one at a time; a network works for the
whole of a phase on a node, or is out.

## 3. What is checked

Each passing run checks its safety, action and liveness properties together.

| run | instance | shows |
|---|---|---|
| `task_lock` | 2 jobs resubmitted for ever, stale after 2 ticks, 3 kills; 80,839 states | `UnrobbedOwnerHoldsLock`, `LiveClaimNeverJudgedStale`, `StrandedTaskReclaimed` |
| `task_resume` | 3 URLs in 2 shards, the second short; caps of 1 and 4 or none; 6 profiles; 2 kills; 306,254 states | `SkipCoversPlan`, `SkipIsHealthy`, `JudgedImagesPresent`, `KeptShardUntouched`, `CompleteUnlessInherited` |
| `partition` | all corpora of up to 3 files of up to 4 rows, sizes 2, 3 and 5, 2 recuts; 275,565 states | `EveryRowOnce`, `TasksFull`, `Coalesced`, `WrittenTaskKept` |
| `manifest` | 9 releases of 2 corpora, task sizes 3 and 4, cap 2 or none, 2 mounts, plans with relative and absolute paths, 3 attempts, 1 release; 193,578 states | `ManifestWhole`, `RowsAsPlanned`, `DocumentedRoles` |
| `dns_admission` | 3 threads in 2 processes, 2 slots, a wait of 2 polls; 50,724 states | `AtMostLimit`, `SlotsMatchActive`, `NoIdleSlotMissed`, `ImplementsAdmission`, `EveryWaitEnds` |
| `dns_resolution` | 3 threads in 2 processes, 2 slots, a wait of 1 poll, 2 rates, an interval of 1 tick, 3 attempts; 1,480,872 states up to symmetry | `OneSender`, `CountCoversSends`, `ConflictNeverUp`, `SendsSpaced`, `GateQueueBounded`, `PacketsAdmitted` |
| `dns_cache` | 2 threads, 3 keys, 2 entries, TTL 1, 3 clock readings, 4 lookups; 558,312 states | `Bounded`, `HitIsFresh`, `NobodyBlocks` |
| `pooled_download` | 2 threads, 2 rows of one host that keeps 1 idle connection, a timeout of 1 tick, 1 redirect, 1 retry; 226,118 states | `NoUnreadReused`, `OneUserEach`, `AttemptInTime`, `WaitBudget`, `EveryRowEnds` |
| `experiment` | 4 sources of up to 18 URLs, 12 configurations of both experiments, 2 submissions, 1 fault, 2 wall times; 84,321 states | `OneMeasurement`, `PhasesDisjoint`, `EveryProcessWorks`, `SuggestionAccepted`, `FormatsAgree`, `OutageNeverExcuses` |

Why the bounds are enough. `task_lock`: a job that comes back after it left
is as good as another job, so two give every order of claim, judgement and
takeover, and three kills allow a crash of an owner, of the one that takes
over, and a signal. `task_resume`: two shards tell a kept one from a
downloaded one and a whole from a short one; a cap below the shard size and
one above the task are the two odd cases; two kills interrupt an attempt and
the one that repairs it. The profiles are the verdicts: normal, many refused
routes at a healthy yield and at a lower one, a poor yield that is kept and a
thin one that is not, a saturated resolver; two shards also give the sums that
fail though neither shard does alone (55% stored and 20% unreachable beside
35% stored).
`partition`: three files and four rows put task boundaries inside, at the end
of and across files, with empty files anywhere, and two recuts go to another
size and back. `dns_admission` and `dns_resolution`: two threads of one process
and one of another are the two kinds of neighbour; two slots let both kinds
meet at the gate while a third thread waits for a slot, and three attempts are
a probe and two packets, or two probes and one. The two threads of one
process are interchangeable there, which is the symmetry used (the run states
safety only). The gate has no run of its own: its properties are checked in
the resolver that uses it, and proved without it. `dns_cache`: one key more
than entries forces an eviction, and two threads overlap on one key.
`manifest`: the file of a name in three places tells the longest suffix from
the others, releases drop, shorten and rename, one has a second column that
could be the URL, and three attempts allow one that is cut short, one with another cap and one that reads what they left.
`pooled_download`: two threads and one kept connection make a connection that
urllib3 has given back, and another thread has taken, meet the `finally` of
the first; a third connection object is one more than can be in use. With one
retry the sleep is never the two seconds that the code caps it at.
`experiment`: the sources have the URL column in two places, a second column
that could be it, none at all, and a list; the configurations are accepted
and refused for each reason the plans know; two submissions with one fault
are a job that dies and the one that comes after it.

Deadlock is not checked in the runs with a bound on calls, kills, recuts,
rows, attempts or submissions, which end when it is used up, nor in the lock
and resume runs, where a task
that is complete has nothing left to do. `dns_admission` has no such bound
and does check it.

### Disagreements

Each of these runs checks one property, which TLC refutes; `PROJECT.json`
quotes the line it contradicts.

* `lock_two_owners` — without any signal or crash: a job is refused by
  `mkdir`, the owner exits, the age reads -1 and is taken for staleness, a
  third job claims, and the first removes that claim and makes its own.
* `resume_dns_livelock` — `prepare_retry` keeps shards by yield alone; shards
  that pass it but break the gate's DNS limit are inherited and rejected for
  ever. `CompleteUnlessInherited` shows that there are three ways for a task
  not to complete once the network is well, all of them things that
  `prepare_retry` keeps: too much DNS, as here; refused routes above 10%
  together with a yield below 50%, which the gate rejects too
  (`task_health.py` 103–104), whether of one shard or of two that are kept for
  different reasons; and the short shard below. Each is reached in the run:
  without any one of them, or with the second for a single shard only, TLC
  refutes the property.
* `experiment_lost_node` — a node that dies after its first shard has
  reported as far as the analysis of 0003 can tell, and its phase is judged.

### Seen in the models

Without a run of their own; the first four can be had by adding the named
property to the configuration.

* `FinishedTaskNotClaimed` of TaskLock: `DONE.json` is read before the claim
  and not after it, so a job that looked just before the owner wrote it
  claims and redoes the task.
* `EvidenceKept` of TaskResume: two attempts under one tag (a requeued job, or
  "manual") overwrite what was set aside; `prepare_retry.py` 30 calls it
  evidence.
* `SkipHasImages` of TaskResume: a kill between the tar and the stats of a
  shard being set aside, then `salvage_task`: the task is marked done without
  its images.
* `EventuallyComplete` of TaskResume with `Caps = {1}` and fair profiles only:
  a cap that is no whole number of shards leaves a short shard that every
  later attempt keeps, so the marker stays short and the task is redone for
  ever (`production_task.sh` 377 says "in full").
* The heartbeat's `touch` in flight when the trap kills its subshell recreates
  `RUNNING.lock` as a plain file, and the task waits until it is stale (it
  *is* taken over then, which `StrandedTaskReclaimed` covers).
* `production_task.sh` 352–353 and `docs/production.md` still say that a
  failed attempt is moved aside whole.
* The docstring of `resolve_source` says that a suffix is taken when it is
  unique; no uniqueness is checked, and after a release that moved files an
  absolute plan may be given another file of the name. A file that grew is
  not noticed either; one that shrank is.
* When staging the second node fails, the multi-node phase returns while the
  first node runs on into the last phase.
* A list passes the submission of 0003, whose staging then always fails; and
  0002, run again into its directory, mixes old shards with new.
* `cut_text` writes the slices it could fill before it refuses;
  `suggest_samples_per_shard` is not always the *largest* size that would be
  accepted, as its docstring has it; single-node phases of rate zero are left
  out of the mean of 0003.

### Fairness

* TaskLock: weak fairness of each job's commands and heartbeat (a running
  process runs on), of `Tick`, and of `Resubmit` (`docs/production.md`: the
  whole range is always the right thing to submit). Signals and crashes are
  not fair and are bounded.
* TaskResume: weak fairness of the attempt (resubmission again) and of the
  end of the outage, strong fairness of the operator's giving up caps, which
  can only happen between attempts. Kills and failed downloads are bounded.
* DnsAdmission: weak fairness of a waiting thread, and of time; *not* of a
  thread inside, so a resolution may hang for good.
* PooledDownload: weak fairness of each thread's steps but those that end an
  `Unbounded` call: a `recv` ends by its timeout, but `request()`, and a
  `read1` of a body of unknown length, make any number of them and need never
  return. How a call ends is the server's choice.
* Manifest, Experiment, DnsBudget and DnsResolution state safety only; that a
  death never leaves the gate locked is part of `OneSender`.
* DnsCache: weak fairness of a lookup and strong fairness of taking `_lock`,
  which is held for a few dictionary operations only; *not* of the resolver.

## 4. What is proved

The proofs hold for every value of the constants, under the named `ASSUME`s
of the modules, which TLC evaluates in the runs.

* **TaskLockProofs**: `TypeCorrect`; `UnrobbedOwnerHolds`, by induction with
  the typing alone: a `mkdir` that succeeds finds nothing there, so no other
  owner still held the lock, and only an `rm -rf` takes a lock from its owner,
  which records it in `lost`. `TwoOwnersOneRobbed` follows: two owners at
  once mean that one lost its lock to a removal, which is the exact strength
  of the claim given `lock_two_owners`. `LiveLockFresh` is the invariant
  behind `LiveClaimSafe`: the lock of a job that works behind the directory it
  made is never older than `Period`, because its age is 0 from the `mkdir` to
  the first `touch`, at most what the heartbeat has slept after that, and no
  tick passes while a touch is due. With `Period < StaleAfter` no judge finds such
  a lock stale.
* **DnsResolutionProofs**, of the gate: `GateTypeCorrect`, `MutualExclusion`,
  `CountCovers`, `ConflictRefused`, `Spacing`, the last four carried over to
  the resolver by `Composed` (below). `OneSender` and `SendsSpaced`
  are not inductive: `GateInv` adds that the holder of the flock is who is
  inside, that who has slept under the lock has been alone for as long
  (`slept <= sinceSend`), that exactly the counted attempt in flight separates
  the count from the packets, and that a starting process has one thread at
  most in the gate and an ended one none.

  Of the admission: `Bounded`, `NoLeak`, `NoneMissed`, and `Implements`, the
  refinement. `Holding` makes the threads inside and the
  taken slots correspond one to one, which embeds the former in
  `0..Limit - 1` and bounds their number by a cardinality argument;
  `ScanSound` says that a slot idle since a scan's start is still free and
  still ahead of it. For the refinement, taking a slot maps to an admission
  because a free slot leaves room under the limit (`RoomBesideFreeSlot`), a
  death to `Gone`, and every other step of a scan to a stutter; it needs no
  fairness, and liveness is not part of the mapping.

  Of both together: `Composed` says that the resolver's specification implies
  each of theirs, so that every theorem above holds of the node, and then
  `QueueBounded` and `AdmittedPackets`. Whoever is at the gate of a process
  that is up has a slot, and a starting process has one thread there at most;
  slots and starting processes bound the queue by another embedding.
* **TaskResumeProofs**: `SkippedTasksCoverPlan`, `SkippedTasksHealthy`,
  `JudgedShardsHaveImages`, `KeptShardsUntouched`. The invariant says that no
  stats file counts more than its shard's share of the plan (`Within`), that a
  marker that counts speaks of what is on disk (`Skipped`, `Gated`), that a
  shard that is kept has its tar (`Whole`), and that what is still to be
  renamed includes the stats of every shard that is not kept (`Moving`).
  `SumCoversPlan` then does the work: the shards' shares are disjoint ranges of
  `0..Rows - 1`, so shards that stay within them sum to `Rows` only when all
  are there and full. That is what the marker's count implies, which looks
  at a sum and at no single shard.
* **PartitionProofs**: `PlanNamesEveryRowOnce`, `EveryTaskFull`,
  `NoPieceSplit`, `WrittenTasksKept`, for every corpus, size and number of
  recuts. `EveryRowOnce` survives a step because cutting a range in two cuts
  its rows in two, and a recut because the pieces from the boundary on are
  the new ranges. `Coalesced` needs more than itself: the pieces of the task
  being filled do not adjoin, and before the first recut the ranges to come
  are later files, or what is left of the last piece's file, namely
  nothing (`FilesInOrder`, `LastFileDone`); after a recut, `repartition_tail`
  extends the last piece where the next one adjoins it.
* **ManifestProofs**: `PublishedWhole`, `SameRowsAnywhere`,
  `RolesAsDocumented`. The invariant follows the rows from the plan (`PlanSound`) to memory (`TableSound`) to the
  file (`OutputSound`): what is between the build and the rename is readable,
  names the planned rows and has the planned or the capped length, and the
  partial file is that table whenever it is renamed. `ResolvedAsMeant` is why
  the rows are the meant ones on every mount: of the suffixes of a recorded
  absolute path, a longer one than the path under the root begins with a
  component of the plan's mount, which no file does. For an absolute plan the
  theorem, like the property, stops at the first release.
  `RolesAsDocumented` holds for every `Lower` and all columns: the first alias
  that is a column is the documented one unless a rival stands before it
  (`DocumentedTaken`), a role that is not documented stays empty unless a
  column looks like one of its aliases (`UndocumentedLeft`), and before a
  release every piece's file is found and has its rows (`FileFound`). Its
  hypothesis is that `None`, which stands for a missing path and a refused
  build, is no sequence.
* **DnsCacheProofs**: `CacheBounded`, `HitsAreFresh`. Each entry has a key of
  its own, so storing one replaces or adds one and evicts at most one; an entry
  expires by the reading of the clock made *before* its answer, so it is never
  given out beyond its TTL although the clock is not read again at the store.
* **PooledDownloadProofs**: `TypeCorrect`, `NothingUnreadReused`,
  `OneUserOfEach`, `AttemptsInTime`, `WaitWithinBudget`. `Placed` puts each
  connection with one thread, in one place of one pool or nowhere, and lets
  only one that a thread holds have something left to read. `Control` ties what
  a thread holds to its place in the code: after a complete body it holds
  nothing, since urllib3 has given the connection back, so the `finally` cannot
  take it from the thread that has it now. `Timed` lets only the last read of
  an attempt cross the deadline, and `Slept` a row's naps by its attempts (1, 3, 7, 11 half seconds: the
  code caps a nap). That a new connection can be had is counted from
  `ConnAssumption` (`UnusedLeft`).
* **ExperimentProofs**: `Invariance`, `TypeCorrect`, `OneMeasurementAlways`,
  `PhasesAlwaysDisjoint`, `EveryProcessAlwaysWorks`,
  `SuggestionAlwaysAccepted`, `FormatsAlwaysAgree`,
  `OutageNeverExcusesAnything`. `SuggestionAccepted` and `FormatsAgree` are
  about what a configuration and a source are; the others are not inductive. `IInv`
  says what a job has in hand at each point and what it left: its slices are
  the first cuts that its configuration asks for (`JobSliced`), no directory
  is there while it cuts and all are of one attempt (`OneAttempt`), which ran
  *some* accepted configuration, with the cuts of that one (`StagedByOne`:
  after a resubmission it need not be the present one), the phase a job is at
  is the last that there is (`InPhase`, `LevelsInOrder`), and a node reports
  no more shards than it has (`ShardsLeft`).
  - Disjointness: the slice of a node is a window of the source's URLs
    (`IsWindow`), and the windows of two nodes stand apart (`SharesApart`).
    That they share no *URL* needs a source without duplicates, the
    hypothesis `UrlsUnique`: the code does not look for any.
  - Work: what the plans refuse leaves each process its waves
    (`EveryProcessAlwaysWorks`), and the suggested size is small enough for the
    largest level (`SuggestionAlwaysAccepted`), by division with remainder.
  - Formats: the table and its list have the same URL column and the same
    rows. A list drops blank fields and a table keeps them, hence the
    hypothesis `NoUrlBlank`. The sources of the run satisfy both hypotheses.
  - Outage: losing URLs to DNS lowers every sum that a criterion wants high
    and raises those it wants low (`SumsWorse`, `RunOfWorse`), in one run
    (`JudgeWorse`), in the means of several (`DistributionWorse`) and in the
    verdict, unknown rates included.

`NoUnreadReused`, `Coalesced`, `SkipCoversPlan`, `ManifestWhole` and the others
above are not inductive by themselves; each invariant was first model-checked
on the instance of its run. Sums and flattened sequences are recursive, and the
provers cannot instantiate the library's induction theorems: the lemmas about
them (`SumIsSum`, `FlattenOneMore`, `FlattenTogether`, `RowsOfFiles`, ...) take
the least counterexample instead, from the well-foundedness of finite
sets under inclusion, and so hold for sequences and sets of every size.

Every safety invariant and every action property that a passing run checks is
stated by a theorem, under the two hypotheses on sources and the one on `None`
above. Only model-checked:

* all liveness (`StrandedTaskReclaimed`, `CompleteUnlessInherited`,
  `EveryWaitEnds`, `NobodyBlocks`, `EveryRowEnds`), as fairness
  and ENABLED are beyond the prover;
* that the three disagreements of section 3 happen: a counterexample is a
  behaviour of one instance, which is all that is needed.

## 5. What is not modelled

* Wave submission: an index, an offset and a subtraction in shell, with no
  state; what an index means for the rows is in Partition and Manifest.
* `install`/`uninstall` of the DNS cache: the first runs once before any
  lookup, the second in tests only.
* The classification of outcome strings and the rounding of fractions;
  malformed plans; the rates printed by planners.
* Two jobs working in one task directory at once, and `salvage_task` beside a
  live attempt: TaskLock shows when that can happen, TaskResume, Manifest and
  the others have one job at a time.
* The optional worker patches, which warn and go on.
* The throughput model, DNS measurements, the shard reader, reports,
  benchmarks and container code, which keep no state that jobs share and only
  read what others wrote.

## 6. Plan

1. **ProductionTask**, composing TaskLock and TaskResume: a job that works on
   after losing its lock beside the one that took it over, and `salvage_task`
   beside a live attempt. The two builders of one `.partial` file belong there.
2. The DNS cache in front of DnsResolution: a hit takes no slot.
3. The shard reader and the wave submission, should either come to keep state.

## 7. Running it

    tlc -config task_lock.cfg TaskLock          # likewise dns_cache.cfg DnsCache
    tlc -config task_resume.cfg MCTaskResume    # the others have an MC module too
    tlapm TaskLockProofs.tla                    # and the other *Proofs modules

`PROJECT.json` names every run with its module and configuration, the mutant
of the code that breaks each property, the source lines of every definition,
the hazards, the findings and the theorems.
