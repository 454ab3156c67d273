----------------------------- MODULE Experiment -----------------------------
(***************************************************************************)
(* The concurrency experiment (0002) and the node experiment (0003): the   *)
(* submission, the job that cuts its slices and runs its phases on one or  *)
(* several nodes, and the analysis, which reads whatever is there.         *)
(*                                                                         *)
(* A level of 0002 is a phase on one node.  Jobs of 0003 are submitted     *)
(* again into the same output directory after a job died; 0002 is run      *)
(* once.                                                                   *)
(***************************************************************************)
EXTENDS UrlSlices, ExperimentPlan, RunStats, FiniteSetsExt

CONSTANTS
    Sources,     \* URL lists
    Configs,     \* what the operator may submit
    Walls,       \* how long a phase may take
    MaxPhases,   \* bound on the levels of a configuration
    MaxSubmits,
    MaxFaults,   \* bound on what goes wrong in a behaviour
    None

ASSUME BoundsAssumption ==
    /\ MaxSubmits \in Nat /\ MaxFaults \in Nat /\ Walls \subseteq Nat \ {0}
    /\ MaxPhases \in Nat /\ MaxPhases >= 3

\* The plans refuse numbers that are not positive.
ASSUME ConfigsAssumption ==
    LET Positive == Nat \ {0}
    IN  \A c \in Configs :
          \/ /\ c \in [kind : {"0002"}, slice : Positive, sps : Positive, waves : Positive,
                       levels : Seq(Positive)]
             /\ Len(c.levels) \in 1..MaxPhases
          \/ c \in [kind : {"0003"}, slice : Positive, sps : Positive, waves : Positive,
                    total : Positive, nodes : Positive]

\* A table's rows are as wide as its columns; a line has one field at least.
ASSUME SourcesAssumption ==
    \A s \in Sources :
       \/ /\ s \in [format : {"parquet"}, columns : Seq(STRING),
                    files : Seq(Seq(Seq(STRING)))]
          /\ \A k \in DOMAIN s.files : \A i \in DOMAIN s.files[k] :
                Len(s.files[k][i]) = Len(s.columns)
       \/ s \in [format : {"text"}, lines : Seq(Seq(STRING) \ {<<>>})]

VARIABLES
    source,
    config,   \* of the latest job
    pc,       \* of the job: "login" (there is none), "archive", "slice",
              \* "start" and "run" (a phase)
    phase,    \* the phase it is at
    slices,   \* slices_p<i>: for each of its nodes the URLs
    dirs,     \* the phases' directories
    submits, faults

vars == <<source, config, pc, phase, slices, dirs, submits, faults>>

\* A node of a phase, and what the directory of a phase tells.
Node == [urls : Seq(STRING), weather : {"good", "outage"}, done : Nat,
         state : {"running", "over", "lost"}]
Dir == [attempt : Nat, processes : Nat, sps : Nat, expected : Nat, wall : Nat,
        nodes : Seq(Node)]

ASSUME NoneAssumption == None \notin Dir

-----------------------------------------------------------------------------
(* What a configuration asks for *)

\* The level runs, or single node, several nodes, single node.
Phases(c) ==
    IF c.kind = "0002"
    THEN [i \in DOMAIN c.levels |->
            [nodes |-> 1, processes |-> c.levels[i], urls |-> c.slice]]
    ELSE LET single == [nodes |-> 1, processes |-> c.total, urls |-> c.slice]
         IN  <<single, [nodes |-> c.nodes, processes |-> c.total \div c.nodes,
                        urls |-> c.slice \div c.nodes], single>>

\* Slip: the last phase starts where the second did.
OffsetShort(c, i) == IF i = 1 THEN 0 ELSE c.slice

\* --offset
Offset(c, i) == (i - 1) * c.slice

Accepted(c) == (IF c.kind = "0002" THEN plan_experiment_0002(c)
                                   ELSE plan_experiment_0003(c)) = 0

\* slice_urls.py --inspect: a table must have a URL column and rows enough.
Readable(c) ==
    source.format = "parquet" =>
        /\ describe(source).url_column # NoColumn
        /\ describe(source).num_rows >= Len(Phases(c)) * c.slice

\* One call cuts the slices of all levels of 0002; 0003 has one per phase.
Cut(c, i) ==
    IF c.kind = "0002" THEN slice_urls(source, c.slice, Len(c.levels), 0)
    ELSE slice_urls(source, Phases(c)[i].urls, Phases(c)[i].nodes, Offset(c, i))

-----------------------------------------------------------------------------
Init ==
    /\ source \in Sources
    /\ config \in Configs
    /\ pc = "login" /\ phase = 0
    /\ slices = <<>>
    /\ dirs = [p \in 1..MaxPhases |-> None]
    /\ submits = 0 /\ faults = 0

\* The submit scripts refuse what the plan refuses, or the source cannot give.
Submit(c) ==
    /\ pc = "login" /\ submits < MaxSubmits
    /\ c.kind = config.kind /\ (c.kind = "0002" => submits = 0)
    /\ Accepted(c) /\ Readable(c)
    /\ config' = c
    /\ submits' = submits + 1
    /\ pc' = IF c.kind = "0002" THEN "slice" ELSE "archive"
    /\ phase' = 1
    /\ UNCHANGED <<source, slices, dirs, faults>>

Present == {p \in DOMAIN dirs : dirs[p] # None}

\* mv of one item: the phases first, then the slices.
Archive ==
    /\ pc = "archive" /\ (Present # {} \/ slices # <<>>)
    /\ IF Present # {}
       THEN /\ dirs' = [dirs EXCEPT ![Min(Present)] = None]
            /\ UNCHANGED slices
       ELSE slices' = Tail(slices) /\ UNCHANGED dirs
    /\ UNCHANGED <<source, config, pc, phase, submits, faults>>

\* Slip: the slices of the attempt before are not looked for.
PhasesGone == Present = {}

\* The output directory has nothing of an attempt before.
NothingLeft == Present = {} /\ slices = <<>>

Archived ==
    /\ pc = "archive" /\ NothingLeft
    /\ pc' = "slice"
    /\ UNCHANGED <<source, config, phase, slices, dirs, submits, faults>>

\* A cut that does not succeed ends the job.
CutSlices ==
    /\ pc = "slice" /\ Len(slices) < Len(Phases(config))
    /\ LET cut == Cut(config, Len(slices) + 1)
       IN  IF cut.rc # 0 THEN pc' = "login" /\ UNCHANGED slices
           ELSE /\ slices' = IF config.kind = "0002"
                             THEN [i \in DOMAIN cut.slices |-> <<cut.slices[i]>>]
                             ELSE Append(slices, cut.slices)
                /\ UNCHANGED pc
    /\ UNCHANGED <<source, config, phase, dirs, submits, faults>>

Sliced ==
    /\ pc = "slice" /\ Len(slices) = Len(Phases(config))
    /\ pc' = "start"
    /\ UNCHANGED <<source, config, phase, slices, dirs, submits, faults>>

-----------------------------------------------------------------------------
(* A phase *)

Lost(d) == [d EXCEPT !.nodes = [k \in DOMAIN d.nodes |->
               [d.nodes[k] EXCEPT !.state = IF @ = "running" THEN "lost" ELSE @]]]

\* Nothing of a job outlives it.
StopAll(ds) == [p \in DOMAIN ds |-> IF ds[p] = None THEN None ELSE Lost(ds[p])]

NextPhase(ds) ==
    IF phase < Len(Phases(config))
    THEN pc' = "start" /\ phase' = phase + 1 /\ dirs' = ds
    ELSE pc' = "login" /\ phase' = 0 /\ dirs' = StopAll(ds)

Multi == config.kind = "0003" /\ phase = 2

\* mkdir; expected_nodes is written at once for several nodes, and for one
\* only after it is staged.
OpenPhase ==
    /\ pc = "start" /\ dirs[phase] = None
    /\ dirs' = [dirs EXCEPT ![phase] =
                  [attempt |-> submits, processes |-> Phases(config)[phase].processes,
                   sps |-> config.sps, expected |-> IF Multi THEN config.nodes ELSE 0,
                   wall |-> 0, nodes |-> <<>>]]
    /\ UNCHANGED <<source, config, pc, phase, slices, submits, faults>>

\* Neither pbsdsh nor ssh: the phase is left out, with no directory.
NoLauncher ==
    /\ pc = "start" /\ Multi /\ config.nodes > 1 /\ dirs[phase] = None
    /\ faults < MaxFaults /\ faults' = faults + 1
    /\ NextPhase(dirs)
    /\ UNCHANGED <<source, config, slices, submits>>

\* stage_node_slices.sh copies a slice, and the node's script starts, on a
\* network that works for it or does not.
StageNode ==
    /\ pc = "start" /\ dirs[phase] # None
    /\ config.kind = "0003" => source.format = "parquet"
    /\ LET k == Len(dirs[phase].nodes) + 1
       IN  \E w \in {"good", "outage"} :
             /\ dirs' = [dirs EXCEPT
                  ![phase].nodes = Append(@, [urls |-> slices[phase][k], weather |-> w,
                                              done |-> 0, state |-> "running"]),
                  ![phase].expected = IF Multi THEN @ ELSE 1]
             /\ pc' = IF k = Phases(config)[phase].nodes THEN "run" ELSE "start"
    /\ UNCHANGED <<source, config, phase, slices, submits, faults>>

\* A slice that cannot be copied, and one that is no parquet is not even
\* looked for: "phase not run".  Nodes that were started run on.
StageFails ==
    /\ pc = "start" /\ dirs[phase] # None /\ config.kind = "0003"
    /\ IF source.format = "parquet" THEN faults < MaxFaults /\ faults' = faults + 1
                                    ELSE UNCHANGED faults
    /\ NextPhase(dirs)
    /\ UNCHANGED <<source, config, slices, submits>>

\* img2dataset cuts what it is given into shards; the last may be short.
Shards(node, sps) == Cardinality({j \in DOMAIN node.urls : (j - 1) % sps = 0})

Running(p, k) == /\ dirs[p] # None /\ k \in DOMAIN dirs[p].nodes
                 /\ dirs[p].nodes[k].state = "running"

\* img2dataset writes the stats of its next shard.
NodeShard(p, k) ==
    /\ Running(p, k)
    /\ LET n == dirs[p].nodes[k]
       IN  dirs' = [dirs EXCEPT
              ![p].nodes[k] = [n EXCEPT
                  !.done = @ + 1,
                  !.state = IF n.done + 1 = Shards(n, dirs[p].sps) THEN "over" ELSE @]]
    /\ UNCHANGED <<source, config, pc, phase, slices, submits, faults>>

\* Its container does not start or fails, or the node dies: only its exit
\* status would tell.
NodeLost(p, k) ==
    /\ Running(p, k)
    /\ faults < MaxFaults /\ faults' = faults + 1
    /\ dirs' = [dirs EXCEPT ![p].nodes[k].state = "lost"]
    /\ UNCHANGED <<source, config, pc, phase, slices, submits>>

\* wait for every node; wall_seconds.
EndPhase ==
    /\ pc = "run" /\ \A k \in DOMAIN dirs[phase].nodes : ~Running(phase, k)
    /\ \E w \in Walls : NextPhase([dirs EXCEPT ![phase].wall = w])
    /\ UNCHANGED <<source, config, slices, submits, faults>>

\* The walltime, a node that fails its check before the phases, or whatever
\* else ends a job.
Kill ==
    /\ pc # "login" /\ faults < MaxFaults
    /\ faults' = faults + 1
    /\ pc' = "login" /\ phase' = 0 /\ dirs' = StopAll(dirs)
    /\ UNCHANGED <<source, config, slices, submits>>

Next ==
    \/ \E c \in Configs : Submit(c)
    \/ Archive \/ Archived \/ CutSlices \/ Sliced
    \/ OpenPhase \/ NoLauncher \/ StageNode \/ StageFails \/ EndPhase \/ Kill
    \/ \E p \in Present : \E k \in DOMAIN dirs[p].nodes : NodeShard(p, k) \/ NodeLost(p, k)

Spec == Init /\ [][Next]_vars

-----------------------------------------------------------------------------
(* The analysis, which may be run at any time *)

\* The _stats.json of a node, one per shard that it finished.
NodeStats(node, sps) ==
    [j \in 1..node.done |->
       LET rest == Len(node.urls) - (j - 1) * sps
           count == IF rest < sps THEN rest ELSE sps
       IN  IF node.weather = "good"
           THEN [candidates |-> count, successes |-> count, dns |-> 0]
           ELSE [candidates |-> count, successes |-> 0, dns |-> count]]

RunOf(d) == from_stats(d.processes, d.wall,
                       FlattenSeq([k \in DOMAIN d.nodes |-> NodeStats(d.nodes[k], d.sps)]))

\* A node has reported if it left any stats file at all.
Reported(d) == {k \in DOMAIN d.nodes : d.nodes[k].done > 0}

\* load_phase and Phase.complete; expected_nodes may not be there.
WholePhase(d) == Reported(d) # {} /\ Cardinality(Reported(d)) >= d.expected

\* The runs of a set of phases, in their order.
RunsOf(ds, wanted) ==
    LET order == CHOOSE s \in [1..Cardinality(wanted) -> wanted] :
                    /\ \A p \in wanted : \E i \in DOMAIN s : s[i] = p
                    /\ \A i, j \in DOMAIN s : i < j => s[i] < s[j]
    IN  [i \in DOMAIN order |-> RunOf(ds[order[i]])]

\* Phases 1 and 3 against 2, as far as each is complete.
analyse_experiment_0003(ds) ==
    LET single == {p \in {1, 3} : ds[p] # None /\ WholePhase(ds[p])}
        multi == {p \in {2} : ds[p] # None /\ WholePhase(ds[p])}
    IN  IF single = {} THEN {}
        ELSE {judge_distribution(RunsOf(ds, single), {RunOf(ds[p]) : p \in multi})}

\* Every run there is, whatever became of it.
analyse_experiment_0002(ds) ==
    LET runs == {p \in DOMAIN ds : ds[p] # None}
    IN  IF runs = {} THEN {} ELSE {judge(RunsOf(ds, runs))}

Verdict(ds) == IF config.kind = "0002" THEN analyse_experiment_0002(ds)
                                       ELSE analyse_experiment_0003(ds)

-----------------------------------------------------------------------------
\* "The analysis would happily sum shards from two different runs": whatever
\* died when, and however the next job was configured, the directories there
\* are of one attempt, and so are the slices its nodes get.
OneMeasurement ==
    /\ \A p, q \in Present : dirs[p].attempt = dirs[q].attempt
    /\ pc \in {"start", "run"} =>
          /\ \A p \in Present : dirs[p].attempt = submits
          /\ slices = [i \in DOMAIN Phases(config) |->
                          IF config.kind = "0002" THEN <<Cut(config, 1).slices[i]>>
                                                  ELSE Cut(config, i).slices]

\* "Phases of the same experiment never share URLs", nor do the nodes of one;
\* every phase that is staged has as many URLs as every other.
PhasesDisjoint ==
    LET shares == UNION {{p} \X DOMAIN dirs[p].nodes : p \in Present}
        Urls(s) == dirs[s[1]].nodes[s[2]].urls
    IN  /\ \A s, r \in shares : s # r => ToSet(Urls(s)) \cap ToSet(Urls(r)) = {}
        /\ pc = "run" =>
              config.slice = Len(FlattenSeq([k \in DOMAIN dirs[phase].nodes |->
                                               Urls(<<phase, k>>)]))

\* "The extra processes would never receive work": what the plan accepted
\* gives each process of each node its waves of shards, and equally many on
\* one node and on several, with the slices as they were cut and staged.
EveryProcessWorks ==
    pc \in {"start", "run"} =>
      \A p, q \in Present : \A n \in ToSet(dirs[p].nodes), m \in ToSet(dirs[q].nodes) :
        /\ Shards(n, config.sps) >= config.waves * dirs[p].processes
        /\ config.kind = "0003" =>
              Shards(n, config.sps) * dirs[q].processes
                  = Shards(m, config.sps) * dirs[p].processes

\* The shard size suggested in place of a refused one is accepted, for all
\* levels at once.
SuggestionAccepted ==
    config.kind = "0002" =>
       LET sps == suggest_samples_per_shard(config.slice, config.levels, config.waves)
       IN  sps >= 1 => plan_experiment_0002([config EXCEPT !.sps = sps]) = 0

\* A corpus and the same corpus as a list, with its header, give the same
\* slices or are both refused, wherever the URL column stands.
FormatsAgree ==
    source.format = "parquet" /\ Len(source.columns) > 1 =>
       \A i \in 1..MaxPhases :
          LET table == cut_parquet(source, config.slice, i, Offset(config, i))
              list == cut_text(AsText(source), config.slice, i, Offset(config, i))
          IN  /\ table.rc = 0 <=> list.rc = 0
              /\ table.rc = 0 => table.slices = list.slices

\* An outage on top excuses nothing: were every URL of a run that is compared
\* with the baseline lost to DNS, a verdict that rejects would still reject.
OutageNeverExcuses ==
    LET compared == IF config.kind = "0003" THEN {2}
                    ELSE {p \in Present : dirs[p].processes # dirs[1].processes}
        Worse(p) == [dirs EXCEPT ![p].nodes =
                       [k \in DOMAIN @ |-> [@[k] EXCEPT !.weather = "outage"]]]
    IN  \A p \in compared \cap Present : \A v \in Verdict(dirs), w \in Verdict(Worse(p)) :
           v.rejected => w.rejected

\* "A phase that lost a node cannot produce a verdict."
LostNodeNotJudged ==
    config.kind = "0003" /\ (\E v \in Verdict(dirs) : v.criterion # {}) =>
       \A k \in DOMAIN dirs[2].nodes : dirs[2].nodes[k].state = "over"
=============================================================================
