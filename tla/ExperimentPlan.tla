--------------------------- MODULE ExperimentPlan ---------------------------
(***************************************************************************)
(* core/concurrency_plan.py and core/node_plan.py, and the scripts that    *)
(* ask them: may an experiment with these numbers be run at all?           *)
(*                                                                         *)
(* img2dataset gives a process one shard at a time, so the shards there    *)
(* are bound the processes that work.                                      *)
(***************************************************************************)
EXTENDS Integers, Sequences, SequencesExt

\* ceil(slice_size / samples_per_shard)
shard_count(slice_size, samples_per_shard) ==
    (slice_size + samples_per_shard - 1) \div samples_per_shard

effective_processes(requested, shards) == IF requested < shards THEN requested ELSE shards

-----------------------------------------------------------------------------
(* Experiment 0002: levels of concurrency, one after another. *)

plan(slice_size, samples_per_shard, levels) ==
    LET shards == shard_count(slice_size, samples_per_shard)
    IN  [i \in DOMAIN levels |->
           [requested |-> levels[i], shards |-> shards,
            effective |-> effective_processes(levels[i], shards)]]

\* The levels some of whose processes get no shard, or too few each.
validate(planned, min_waves) ==
    {level \in ToSet(planned) :
       \/ level.effective < level.requested
       \/ level.shards < min_waves * level.effective}

\* Slip: that of the smallest level.
SuggestForSmallest(slice_size, levels, min_waves) ==
    slice_size \div (Min(ToSet(levels)) * min_waves)

\* A shard size that gives the busiest level its shards; 0 when none does.
suggest_samples_per_shard(slice_size, levels, min_waves) ==
    slice_size \div (Max(ToSet(levels)) * min_waves)

-----------------------------------------------------------------------------
(* Experiment 0003: the same processes on fewer or more nodes. *)

\* The node counts that divide neither the processes nor the URLs.
Uneven(total_processes, slice_size, node_counts) ==
    {n \in ToSet(node_counts) :
       n <= 0 \/ total_processes % n # 0 \/ slice_size % n # 0}

plan_distribution(total_processes, slice_size, samples_per_shard, node_counts) ==
    [i \in DOMAIN node_counts |->
       LET nodes == node_counts[i]
       IN  [nodes |-> nodes,
            processes_per_node |-> total_processes \div nodes,
            urls_per_node |-> slice_size \div nodes,
            shards_per_node |-> shard_count(slice_size \div nodes, samples_per_shard)]]

\* Slip: the waves of the configurations are not compared.
DistributionEach(configs, min_waves) ==
    {c \in ToSet(configs) : c.shards_per_node < min_waves * c.processes_per_node}

\* The configurations with idle processes or too few shards for each, and
\* those whose shards per process are not another's.
validate_distribution(configs, min_waves) ==
    {c \in ToSet(configs) :
       \/ c.processes_per_node > c.shards_per_node
       \/ c.shards_per_node < min_waves * c.processes_per_node
       \/ \E d \in ToSet(configs) : c.shards_per_node * d.processes_per_node
                                     # d.shards_per_node * c.processes_per_node}

-----------------------------------------------------------------------------
(* The two planning scripts: 0 says that the experiment may be run. *)

plan_experiment_0002(c) ==
    IF validate(plan(c.slice, c.sps, c.levels), c.waves) = {} THEN 0 ELSE 1

plan_experiment_0003(c) ==
    IF /\ Uneven(c.total, c.slice, <<1, c.nodes>>) = {}
       /\ validate_distribution(
            plan_distribution(c.total, c.slice, c.sps, <<1, c.nodes>>), c.waves) = {}
    THEN 0 ELSE 1
=============================================================================
