-------------------------- MODULE TaskResumeProofs --------------------------
(***************************************************************************)
(* What attempts leave of a task, for every plan, shard size, cap, profile *)
(* of the web and number of kills.                                         *)
(***************************************************************************)
EXTENDS TaskResume, FiniteSetTheorems, TLAPS

-----------------------------------------------------------------------------
(* Sums over a finite set: SumFunctionOnSet takes the elements one by one,  *)
(* and which one comes next is CHOOSE's.                                    *)

Pick(T) == CHOOSE x \in T : TRUE

\* g sums f over every subset of T.
Sums(f, T, g) ==
    g = [U \in SUBSET T |-> IF U = {} THEN 0 ELSE f[Pick(U)] + g[U \ {Pick(U)}]]

\* Of the sets that fail something, one has no smaller one that does.
LEMMA SmallestSet ==
    ASSUME NEW S, IsFiniteSet(S), NEW F, F \subseteq SUBSET S, F # {}
    PROVE  \E T \in F : \A U \in SUBSET T : U # T => U \notin F
<1>1. IsWellFoundedOn(StrictSubsetOrdering(S), FiniteSubsetsOf(S))
      BY FS_StrictSubsetOrderingWellFounded
<1>2. F \subseteq FiniteSubsetsOf(S)
      BY FS_FiniteSubsetsOfFinite
<1>3. PICK T \in F : \A U \in F : ~ (<<U, T>> \in StrictSubsetOrdering(S))
      BY <1>1, <1>2, WFMin
<1>4. ASSUME NEW U \in SUBSET T, U # T, U \in F PROVE FALSE
  <2>1. <<U, T>> \in (SUBSET S) \X (SUBSET S)
        OBVIOUS
  <2>2. <<U, T>> \in StrictSubsetOrdering(S)
        BY <1>4, <2>1 DEF StrictSubsetOrdering
  <2>3. QED BY <1>3, <1>4, <2>2
<1>5. QED BY <1>4

\* Sums over the subsets of two sets agree where both are.
LEMMA SumsAgree ==
    ASSUME NEW S, IsFiniteSet(S), NEW f, NEW A \in SUBSET S, NEW B \in SUBSET S,
           NEW g, NEW h, Sums(f, A, g), Sums(f, B, h)
    PROVE  \A U \in SUBSET (A \cap B) : g[U] = h[U]
<1> DEFINE F == {U \in SUBSET (A \cap B) : g[U] # h[U]}
<1>1. CASE F = {}
      BY <1>1
<1>2. CASE F # {}
  <2>1. F \subseteq SUBSET S
        OBVIOUS
  <2>2. PICK U \in F : \A V \in SUBSET U : V # U => V \notin F
    <3> HIDE DEF F
    <3>1. QED BY <1>2, <2>1, SmallestSet
  <2>3. U \in SUBSET A /\ U \in SUBSET B /\ g[U] # h[U]
        OBVIOUS
  <2>4. U # {}
        BY <2>3 DEF Sums
  <2>5. Pick(U) \in U
        BY <2>4 DEF Pick
  <2>6. g[U \ {Pick(U)}] = h[U \ {Pick(U)}]
        BY <2>2, <2>3, <2>5
  <2>7. g[U] = f[Pick(U)] + g[U \ {Pick(U)}] /\ h[U] = f[Pick(U)] + h[U \ {Pick(U)}]
        BY <2>3, <2>4 DEF Sums
  <2>8. QED BY <2>3, <2>6, <2>7
<1>3. QED BY <1>1, <1>2

\* There is such a sum over every finite set.
LEMMA SumsExist ==
    ASSUME NEW S, IsFiniteSet(S), NEW f
    PROVE  \E g : Sums(f, S, g)
<1> DEFINE F == {T \in SUBSET S : ~ \E g : Sums(f, T, g)}
<1>1. CASE F = {}
      BY <1>1
<1>2. CASE F # {}
  <2>1. PICK T \in F : \A U \in SUBSET T : U # T => U \notin F
    <3>1. F \subseteq SUBSET S
          OBVIOUS
    <3> HIDE DEF F
    <3>2. QED BY <1>2, <3>1, SmallestSet
  <2>2. \A U \in SUBSET T : U # T => \E g : Sums(f, U, g)
        BY <2>1
  <2> DEFINE G(U) == CHOOSE g : Sums(f, U, g)
             rest == T \ {Pick(T)}
             h == [U \in SUBSET T |->
                     IF U = {} THEN 0
                     ELSE IF U = T THEN f[Pick(T)] + G(rest)[rest]
                     ELSE G(U)[U]]
  <2>3. ASSUME NEW U \in SUBSET T, U # T PROVE Sums(f, U, G(U))
        BY <2>2, <2>3
  <2>4. ASSUME NEW U \in SUBSET T, U # {}
        PROVE  h[U] = f[Pick(U)] + h[U \ {Pick(U)}]
    <3> DEFINE V == U \ {Pick(U)}
    <3>1. Pick(U) \in U /\ V \in SUBSET T /\ V # T /\ V # U
          BY <2>4 DEF Pick
    <3>2. h[V] = G(V)[V]
      <4>1. CASE V = {}
        <5>1. Sums(f, V, G(V))
              BY <2>3, <3>1
        <5>2. G(V)[V] = 0
          <6> HIDE DEF G, V
          <6>1. QED BY <5>1, <4>1 DEF Sums
        <5>3. QED BY <3>1, <4>1, <5>2
      <4>2. CASE V # {}
            BY <3>1, <4>2
      <4>3. QED BY <4>1, <4>2
    <3>3. CASE U = T
          BY <2>4, <3>2, <3>3
    <3>4. CASE U # T
      <4>1. Sums(f, U, G(U)) /\ Sums(f, V, G(V))
            BY <2>3, <3>1, <3>4
      <4>2. G(U)[V] = G(V)[V]
        <5>1. U \in SUBSET S /\ V \in SUBSET S /\ V \in SUBSET (U \cap V)
              BY <3>1
        <5> HIDE DEF G, V
        <5>2. QED BY <4>1, <5>1, SumsAgree
      <4>3. G(U)[U] = f[Pick(U)] + G(U)[V]
        <5>1. U \in SUBSET U
              OBVIOUS
        <5> HIDE DEF G
        <5>2. QED BY <2>4, <4>1, <5>1 DEF Sums
      <4>4. h[U] = G(U)[U]
            BY <2>4, <3>4
      <4> HIDE DEF G, h
      <4>5. QED BY <3>2, <4>2, <4>3, <4>4
    <3>5. QED BY <3>3, <3>4
  <2>5. Sums(f, T, h)
    <3>1. \A U \in SUBSET T :
             h[U] = IF U = {} THEN 0 ELSE f[Pick(U)] + h[U \ {Pick(U)}]
      <4>1. h[{}] = 0
            OBVIOUS
      <4> HIDE DEF h
      <4>2. QED BY <2>4, <4>1
    <3>2. h = [U \in SUBSET T |-> h[U]]
          OBVIOUS
    <3> HIDE DEF h
    <3>3. QED BY <3>1, <3>2 DEF Sums
  <2>6. QED BY <2>1, <2>5
<1>3. QED BY <1>1, <1>2

\* What SumFunctionOnSet is: the value on the whole set of a function on its
\* subsets that satisfies the recursion.
LEMMA SumIsSum ==
    ASSUME NEW S, IsFiniteSet(S), NEW f
    PROVE  \E g : Sums(f, S, g) /\ SumFunctionOnSet(f, S) = g[S]
<1>1. SumFunctionOnSet(f, S) =
         (CHOOSE g : g = [U \in SUBSET S |->
                            IF U = {} THEN 0
                            ELSE f[CHOOSE x \in U : TRUE] + g[U \ {CHOOSE x \in U : TRUE}]])[S]
      BY DEF SumFunctionOnSet, FoldFunctionOnSet, MapThenFoldSet
<1>2. SumFunctionOnSet(f, S) = (CHOOSE g : Sums(f, S, g))[S]
      BY <1>1 DEF Sums, Pick
<1>3. QED BY <1>2, SumsExist

-----------------------------------------------------------------------------
(* Shards: the URLs of the plan fall into shards of their own. *)

\* The URLs of the plan in a shard, and in a set of them.
Own(s) == s * Sps .. s * Sps + SizeIn(s, Rows) - 1
Cells(T) == UNION {Own(s) : s \in T}

\* Later shards begin where the earlier ones have ended.
LEMMA ShardsInOrder ==
    ASSUME NEW s \in Nat, NEW r \in Nat, s < r
    PROVE  s * Sps \in Nat /\ r * Sps \in Nat /\ s * Sps + Sps <= r * Sps
BY SizeAssumption

\* A shard of the plan has at least one URL, and its own ones.
LEMMA ShardProperties ==
    /\ IsFiniteSet(Shard)
    /\ \A s \in Shard : /\ s \in Nat /\ s * Sps \in Nat /\ s * Sps < Rows
                        /\ SizeIn(s, Rows) \in 1..Sps /\ s * Sps + SizeIn(s, Rows) <= Rows
                        /\ Own(s) \subseteq 0..Rows - 1 /\ s * Sps \in Own(s)
                        /\ IsFiniteSet(Own(s)) /\ Cardinality(Own(s)) = SizeIn(s, Rows)
<1> USE SizeAssumption
<1>1. Shard \subseteq 0..Rows - 1 /\ IsFiniteSet(0..Rows - 1)
      BY FS_Interval DEF Shard, ShardsOf
<1>2. IsFiniteSet(Shard)
  <2>1. Shard \in SUBSET (0..Rows - 1)
        BY <1>1
  <2>2. QED BY <1>1, <2>1, FS_Subset
<1>3. ASSUME NEW s \in Shard
      PROVE  /\ s \in Nat /\ s * Sps \in Nat /\ s * Sps < Rows
             /\ SizeIn(s, Rows) \in 1..Sps /\ s * Sps + SizeIn(s, Rows) <= Rows
  <2>1. s \in Nat /\ s * Sps < Rows
        BY <1>1 DEF Shard, ShardsOf
  <2>2. s * Sps \in Nat
        BY <2>1
  <2> DEFINE b == s * Sps
  <2>3. SizeIn(s, Rows) = IF Sps < Rows - b THEN Sps ELSE Rows - b
        BY DEF SizeIn, Least
  <2>4. b \in Nat /\ b < Rows
        BY <2>1, <2>2
  <2> HIDE DEF b
  <2>5. SizeIn(s, Rows) \in 1..Sps /\ b + SizeIn(s, Rows) <= Rows
        BY <2>3, <2>4
  <2>6. QED BY <2>1, <2>2, <2>5 DEF b
<1>4. ASSUME NEW s \in Shard
      PROVE  /\ Own(s) \subseteq 0..Rows - 1 /\ s * Sps \in Own(s)
             /\ IsFiniteSet(Own(s)) /\ Cardinality(Own(s)) = SizeIn(s, Rows)
  <2> DEFINE b == s * Sps
             n == SizeIn(s, Rows)
  <2>1. b \in Nat /\ n \in 1..Sps /\ b + n <= Rows /\ Own(s) = b..b + n - 1
        BY <1>3 DEF Own
  <2> HIDE DEF b, n
  <2>2. b..b + n - 1 \subseteq 0..Rows - 1 /\ b \in b..b + n - 1
        BY <2>1
  <2>3. IsFiniteSet(b..b + n - 1) /\ Cardinality(b..b + n - 1) = n
    <3> DEFINE e == b + n - 1
    <3>1. b \in Int /\ e \in Int /\ ~(b > e) /\ e - b + 1 = n
          BY <2>1
    <3> HIDE DEF e
    <3>2. IsFiniteSet(b..e) /\ Cardinality(b..e) = n
          BY <3>1, FS_Interval
    <3>3. QED BY <3>2 DEF e
  <2>4. QED BY <2>1, <2>2, <2>3 DEF b, n
<1>5. QED BY <1>2, <1>3, <1>4

\* No URL is in two shards.
LEMMA ShardsApart ==
    ASSUME NEW s \in Shard, NEW T \in SUBSET Shard, s \notin T
    PROVE  Own(s) \cap Cells(T) = {}
<1> SUFFICES ASSUME NEW r \in T, NEW u \in Own(s), u \in Own(r) PROVE FALSE
    BY DEF Cells
<1>1. /\ s \in Nat /\ r \in Nat /\ s # r /\ s * Sps \in Nat /\ r * Sps \in Nat
      /\ SizeIn(s, Rows) \in 1..Sps /\ SizeIn(r, Rows) \in 1..Sps
      BY ShardProperties
<1> DEFINE b == s * Sps c == r * Sps
<1>2. /\ u \in b..b + SizeIn(s, Rows) - 1 /\ u \in c..c + SizeIn(r, Rows) - 1
      /\ b \in Nat /\ c \in Nat
      BY <1>1 DEF Own
<1>3. CASE s < r
  <2>1. b + Sps <= c
        BY <1>1, <1>3, ShardsInOrder
  <2> HIDE DEF b, c
  <2>2. QED BY <1>1, <1>2, <2>1, SizeAssumption
<1>4. CASE r < s
  <2>1. c + Sps <= b
        BY <1>1, <1>4, ShardsInOrder
  <2> HIDE DEF b, c
  <2>2. QED BY <1>1, <1>2, <2>1, SizeAssumption
<1>5. QED BY <1>1, <1>3, <1>4

\* Shards that hold no more than their own URLs hold no more than the plan, and
\* the whole of it only if all of them are there, and full.
LEMMA SumCoversPlan ==
    ASSUME NEW f \in [Shard -> Nat], NEW S \in SUBSET Shard,
           \A s \in Shard : f[s] <= SizeIn(s, Rows)
    PROVE  /\ SumFunctionOnSet(f, S) \in 0..Rows
           /\ SumFunctionOnSet(f, S) >= Rows =>
                 S = Shard /\ \A s \in Shard : f[s] = SizeIn(s, Rows)
<1>1. IsFiniteSet(S)
      BY ShardProperties, FS_Subset
<1>2. PICK g : Sums(f, S, g) /\ SumFunctionOnSet(f, S) = g[S]
      BY <1>1, SumIsSum
<1> DEFINE Full(T) == /\ IsFiniteSet(Cells(T)) /\ g[T] \in Nat
                      /\ g[T] <= Cardinality(Cells(T))
                      /\ g[T] = Cardinality(Cells(T)) => \A x \in T : f[x] = SizeIn(x, Rows)
           F == {T \in SUBSET S : ~Full(T)}
<1>3. Full({})
  <2>1. g[{}] = 0
        BY <1>2 DEF Sums
  <2>2. Cells({}) = {}
        BY DEF Cells
  <2>3. QED BY <2>1, <2>2, FS_EmptySet
<1>4. ASSUME NEW T \in SUBSET S, T # {}, Full(T \ {Pick(T)}) PROVE Full(T)
  <2> DEFINE x == Pick(T) U == T \ {x}
  <2>1. x \in T /\ x \in Shard /\ U \in SUBSET Shard /\ x \notin U
        BY <1>4 DEF Pick
  <2>2. g[T] = f[x] + g[U]
        BY <1>2, <1>4 DEF Sums
  <2> HIDE DEF x, Full
  <2>3. Cells(T) = Own(x) \cup Cells(U)
        BY <2>1 DEF Cells
  <2>4. /\ IsFiniteSet(Own(x)) /\ Cardinality(Own(x)) = SizeIn(x, Rows)
        /\ SizeIn(x, Rows) \in Nat /\ f[x] \in Nat /\ f[x] <= SizeIn(x, Rows)
        BY <2>1, ShardProperties, SizeAssumption
  <2>5. /\ IsFiniteSet(Cells(U)) /\ g[U] \in Nat /\ g[U] <= Cardinality(Cells(U))
        /\ g[U] = Cardinality(Cells(U)) => \A y \in U : f[y] = SizeIn(y, Rows)
        BY <1>4 DEF Full, x
  <2>6. /\ IsFiniteSet(Cells(T))
        /\ Cardinality(Cells(T)) = SizeIn(x, Rows) + Cardinality(Cells(U))
        /\ Cardinality(Cells(U)) \in Nat
    <3>1. Own(x) \cap Cells(U) = {}
          BY <2>1, ShardsApart
    <3>2. Cardinality(Own(x) \cap Cells(U)) = 0
          BY <3>1, FS_EmptySet
    <3>3. Cardinality(Cells(U)) \in Nat
          BY <2>5, FS_CardinalityType
    <3>4. /\ IsFiniteSet(Own(x) \cup Cells(U))
          /\ Cardinality(Own(x) \cup Cells(U)) =
                Cardinality(Own(x)) + Cardinality(Cells(U)) - Cardinality(Own(x) \cap Cells(U))
          BY <2>4, <2>5, FS_Union
    <3>5. QED BY <2>3, <2>4, <3>2, <3>3, <3>4
  <2>7. g[T] \in Nat /\ g[T] <= Cardinality(Cells(T))
        BY <2>2, <2>4, <2>5, <2>6
  <2>8. ASSUME g[T] = Cardinality(Cells(T)), NEW y \in T PROVE f[y] = SizeIn(y, Rows)
    <3>1. f[x] = SizeIn(x, Rows) /\ g[U] = Cardinality(Cells(U))
          BY <2>2, <2>4, <2>5, <2>6, <2>8
    <3>2. QED BY <2>5, <2>8, <3>1
  <2>9. QED BY <2>6, <2>7, <2>8 DEF Full
<1>5. Full(S)
  <2>1. CASE F = {}
        BY <2>1
  <2>2. CASE F # {}
    <3>1. PICK T \in F : \A U \in SUBSET T : U # T => U \notin F
      <4>1. F \subseteq SUBSET S
            OBVIOUS
      <4> HIDE DEF F
      <4>2. QED BY <1>1, <2>2, <4>1, SmallestSet
    <3>2. T \in SUBSET S /\ ~Full(T) /\ \A U \in SUBSET T : U # T => Full(U)
          BY <3>1
    <3> HIDE DEF F, Full
    <3>3. T # {}
          BY <1>3, <3>2
    <3>4. Pick(T) \in T
          BY <3>3 DEF Pick
    <3>5. Full(T \ {Pick(T)})
          BY <3>2, <3>4
    <3>6. QED BY <1>4, <3>2, <3>3, <3>5
  <2>3. QED BY <2>1, <2>2
<1>6. /\ IsFiniteSet(0..Rows - 1) /\ Cardinality(0..Rows - 1) = Rows
      /\ Cells(S) \in SUBSET (0..Rows - 1)
  <2>1. IsFiniteSet(0..Rows - 1) /\ Cardinality(0..Rows - 1) = Rows
        BY SizeAssumption, FS_Interval
  <2>2. Cells(S) \in SUBSET (0..Rows - 1)
        BY ShardProperties DEF Cells
  <2>3. QED BY <2>1, <2>2
<1>7. /\ g[S] \in 0..Rows
      /\ g[S] >= Rows => Cells(S) = 0..Rows - 1 /\ g[S] = Cardinality(Cells(S))
  <2>1. Cardinality(Cells(S)) <= Rows /\ (Rows = Cardinality(Cells(S)) => 0..Rows - 1 = Cells(S))
        BY <1>6, FS_Subset
  <2>2. g[S] \in Nat /\ g[S] <= Cardinality(Cells(S))
        BY <1>5
  <2>3. Cardinality(Cells(S)) \in Nat
        BY <1>5, FS_CardinalityType
  <2> HIDE DEF Full, F
  <2>4. QED BY <2>1, <2>2, <2>3, SizeAssumption
<1>8. ASSUME g[S] >= Rows, NEW s \in Shard PROVE s \in S
  <2>1. s * Sps \in Cells(S) /\ s * Sps \in Own(s)
        BY <1>7, <1>8, ShardProperties, SizeAssumption
  <2>2. QED BY <2>1, ShardsApart
<1>9. ASSUME g[S] >= Rows, NEW s \in Shard PROVE f[s] = SizeIn(s, Rows)
      BY <1>5, <1>7, <1>8, <1>9
<1> HIDE DEF Full, F
<1>10. QED BY <1>2, <1>7, <1>8, <1>9
-----------------------------------------------------------------------------
(* The invariant. *)

\* No stats file counts more URLs than the plan gives its shard.
Within == \A s \in Shard : count[s] <= SizeIn(s, Rows)

\* A task that is skipped is idle, and its marker counts what is on disk.
Skipped == Complete => pc = "idle" /\ counted = Candidates /\ Healthy

\* A marker is about to be written only when the gate was passed.
Gated == pc = "mark" => Healthy

\* A shard that is kept has its images.
Whole == \A s \in Shard : stats[s] = "done" /\ ~Uninheritable(s) => tar[s]

\* What prepare_retry has still to rename is all that is left to be judged,
\* and nothing of a shard that is kept.
Moving ==
    /\ pc # "move" => todo = {}
    /\ pc = "move" => /\ \A f \in todo : stats[f[1]] = "done" => Uninheritable(f[1])
                      /\ \A s \in Shard : stats[s] = "done" /\ Uninheritable(s) =>
                            <<s, "stats">> \in todo

IInv == TypeOK /\ Within /\ Skipped /\ Gated /\ Whole /\ Moving /\ JudgedImagesPresent

\* The verdicts are about the disk.
LEMMA VerdictsUnchanged ==
    ASSUME UNCHANGED disk
    PROVE  /\ Readable' = Readable /\ Candidates' = Candidates /\ Healthy' = Healthy
           /\ \A s \in Shard : Uninheritable(s)' = Uninheritable(s)
<1>1. UNCHANGED <<tar, stats, count, profile>>
      BY DEF disk
<1>2. Readable' = Readable
      BY <1>1 DEF Readable
<1>3. Candidates' = Candidates
      BY <1>1, <1>2 DEF Candidates
<1>4. /\ Share(Unreachable)' = Share(Unreachable) /\ Share(Stored)' = Share(Stored)
      /\ Share(Dns)' = Share(Dns)
      BY <1>1, <1>2 DEF Share
<1>5. QED BY <1>1, <1>2, <1>3, <1>4 DEF Healthy, Uninheritable

\* What the readable shards count is within the plan.
LEMMA CandidatesProperties ==
    ASSUME TypeOK, Within
    PROVE  /\ Candidates \in 0..Rows
           /\ Candidates >= Rows =>
                 \A s \in Shard : stats[s] = "done" /\ count[s] = SizeIn(s, Rows)
<1>1. count \in [Shard -> Nat] /\ Readable \in SUBSET Shard
      BY SizeAssumption DEF TypeOK, Readable
<1>2. /\ Candidates \in 0..Rows
      /\ Candidates >= Rows => Readable = Shard /\ \A s \in Shard : count[s] = SizeIn(s, Rows)
      BY <1>1, SumCoversPlan DEF Within, Candidates
<1>3. QED BY <1>2 DEF Readable

\* A shard of a capped manifest is one of the plan, with no more URLs.
LEMMA CappedShards ==
    ASSUME NEW n \in 0..Rows, NEW s \in ShardsOf(n)
    PROVE  /\ s \in Shard /\ SizeIn(s, n) \in 1..Sps /\ SizeIn(s, n) <= SizeIn(s, Rows)
<1>1. s \in Nat /\ s * Sps < n /\ s * Sps \in Nat
      BY SizeAssumption DEF ShardsOf
<1> DEFINE b == s * Sps
<1>2. s \in Shard
      BY <1>1, SizeAssumption DEF Shard, ShardsOf
<1>3. /\ SizeIn(s, n) = IF Sps < n - b THEN Sps ELSE n - b
      /\ SizeIn(s, Rows) = IF Sps < Rows - b THEN Sps ELSE Rows - b
      BY DEF SizeIn, Least
<1>4. b \in Nat /\ b < n
      BY <1>1
<1> HIDE DEF b
<1>5. QED BY <1>2, <1>3, <1>4, SizeAssumption

-----------------------------------------------------------------------------
(* The steps. *)

\* What the variables of an attempt are when it has ended.
LEMMA EndTypes ==
    ASSUME TypeOK, End
    PROVE  /\ pc' = "idle" /\ todo' = {} /\ todo' \subseteq File
           /\ cap' \in Caps \cup {0} /\ tag' \in Tag /\ wanted' \in 0..Rows
           /\ failed' \in BOOLEAN
<1>1. 0 \in 0..Rows
      BY SizeAssumption
<1>2. todo' \subseteq File /\ todo' = {}
      BY DEF End
<1>3. QED BY <1>1, <1>2 DEF TypeOK, End

\* Steps that leave the disk and the marker alone.
LEMMA DiskKept ==
    ASSUME IInv, UNCHANGED <<disk, marker, counted>>, TypeOK', Complete => pc' = "idle",
           pc' = "mark" => Healthy, pc' # "move" /\ todo' = {},
           pc' \in {"manifest", "download", "assess", "mark"} =>
              \A s \in Shard : stats[s] = "done" => tar[s]
    PROVE  IInv'
<1>1. UNCHANGED <<tar, stats, count, profile>>
      BY DEF disk
<1>2. /\ Readable' = Readable /\ Candidates' = Candidates /\ Healthy' = Healthy
      /\ \A s \in Shard : Uninheritable(s)' = Uninheritable(s)
      BY VerdictsUnchanged
<1>3. Within' /\ Whole' /\ JudgedImagesPresent'
      BY <1>1, <1>2 DEF IInv, Within, Whole, JudgedImagesPresent
<1>4. Skipped' /\ Gated'
      BY <1>2 DEF IInv, Skipped, Gated, Complete
<1>5. Moving'
      BY DEF Moving
<1>6. QED BY <1>3, <1>4, <1>5 DEF IInv

\* An attempt begins on a task that is not skipped.
LEMMA BeginKeeps ==
    ASSUME IInv, NEW c \in Caps \cup {0}, NEW t \in Tag, Begin(c, t)
    PROVE  IInv'
<1>1. TypeOK'
      BY DEF IInv, TypeOK, Begin, disk, world
<1>2. todo = {}
      BY DEF IInv, Moving, Begin
<1>3. QED BY <1>1, <1>2, DiskKept DEF Begin

\* prepare_retry judges: what is uninheritable is listed, nothing else.
LEMMA ScanKeeps ==
    ASSUME IInv, Scan
    PROVE  IInv'
<1> USE DEF Scan
<1>1. UNCHANGED disk /\ UNCHANGED <<tar, stats, count, profile, marker, counted>>
      BY DEF disk
<1>2. ToMove \subseteq File /\ TypeOK'
      BY DEF ToMove, IInv, TypeOK, disk, world
<1>3. ASSUME NEW s \in Shard, stats[s] = "done", Uninheritable(s)
      PROVE  <<s, "stats">> \in ToMove
      BY <1>3 DEF ToMove, File, OnDisk
<1>4. CASE ToMove = {}
  <2>1. \A s \in Shard : stats[s] = "done" => tar[s]
        BY <1>3, <1>4 DEF IInv, Whole
  <2>2. ~Complete
        BY DEF IInv, Skipped
  <2>3. QED BY <1>1, <1>2, <1>4, <2>1, <2>2, DiskKept
<1>5. CASE ToMove # {}
  <2>1. pc' = "move" /\ todo' = ToMove
        BY <1>5
  <2>2. /\ Candidates' = Candidates /\ Healthy' = Healthy
        /\ \A s \in Shard : Uninheritable(s)' = Uninheritable(s)
        BY <1>1, VerdictsUnchanged
  <2>3. \A f \in ToMove : f[1] \in Shard /\ Uninheritable(f[1])
        BY DEF ToMove, File
  <2>4. Moving'
        BY <1>1, <1>3, <2>1, <2>2, <2>3 DEF Moving
  <2>5. Within' /\ Whole' /\ JudgedImagesPresent'
        BY <1>1, <2>1, <2>2 DEF IInv, Within, Whole, JudgedImagesPresent
  <2>6. Skipped' /\ Gated'
        BY <1>1, <2>1 DEF IInv, Skipped, Gated, Complete
  <2>7. QED BY <1>2, <2>4, <2>5, <2>6 DEF IInv
<1>6. QED BY <1>4, <1>5

\* The steps between the rename and the download, and after it.
LEMMA PassKeeps ==
    ASSUME IInv, BuildManifest \/ DownloadEnds \/ DownloadFails \/ Assess
    PROVE  IInv'
<1>1. UNCHANGED <<disk, marker, counted>> /\ todo = {} /\ ~Complete
      BY DEF IInv, Moving, Skipped, BuildManifest, DownloadEnds, DownloadFails, Assess
<1>2. \A s \in Shard : stats[s] = "done" => tar[s]
      BY DEF IInv, JudgedImagesPresent, BuildManifest, DownloadEnds, DownloadFails, Assess
<1>3. CASE BuildManifest
  <2>1. ManifestSize \in 0..Rows
        BY SizeAssumption DEF ManifestSize, Least, IInv, TypeOK
  <2>2. TypeOK'
        BY <1>3, <2>1 DEF IInv, TypeOK, BuildManifest, disk, world
  <2>3. QED BY <1>1, <1>2, <1>3, <2>2, DiskKept DEF BuildManifest
<1>4. CASE DownloadEnds
  <2>1. TypeOK'
        BY <1>4 DEF IInv, TypeOK, DownloadEnds, disk, world
  <2>2. QED BY <1>1, <1>2, <1>4, <2>1, DiskKept DEF DownloadEnds
<1>5. CASE DownloadFails
  <2>1. kills' \in 0..MaxKills
        BY <1>5, BoundAssumption DEF IInv, TypeOK, DownloadFails
  <2>2. TypeOK'
        BY <1>5, <2>1 DEF IInv, TypeOK, DownloadFails, disk, world
  <2>3. QED BY <1>1, <1>2, <1>5, <2>2, DiskKept DEF DownloadFails
<1>6. CASE Assess
  <2>1. TypeOK'
    <3>1. CASE Accepted
          BY <1>6, <3>1 DEF IInv, TypeOK, Assess, attempt, disk, world
    <3>2. CASE ~Accepted
      <4>1. End /\ UNCHANGED <<disk, aside, marker, counted, world, kills, clobbered>>
            BY <1>6, <3>2 DEF Assess
      <4>2. QED BY <4>1, EndTypes DEF IInv, TypeOK, disk, world
    <3>3. QED BY <3>1, <3>2
  <2>2. pc' = "idle" \/ (pc' = "mark" /\ Healthy)
        BY <1>6 DEF Assess, Accepted, End
  <2>3. todo' = {}
        BY <1>1, <1>6 DEF Assess, End, attempt
  <2>4. QED BY <1>1, <1>2, <2>1, <2>2, <2>3, DiskKept
<1>7. QED BY <1>3, <1>4, <1>5, <1>6

\* The marker counts what is on disk, which passed the gate.
LEMMA MarkKeeps ==
    ASSUME IInv, Mark \/ Salvage
    PROVE  IInv'
<1>1. /\ UNCHANGED disk /\ UNCHANGED <<tar, stats, count, profile>>
      /\ Healthy /\ counted' = Candidates /\ pc' = "idle" /\ todo' = {}
      BY DEF IInv, Gated, Moving, Mark, Salvage, End, attempt, disk
<1>2. /\ Candidates' = Candidates /\ Healthy' = Healthy
      /\ \A s \in Shard : Uninheritable(s)' = Uninheritable(s)
      BY <1>1, VerdictsUnchanged
<1>3. Candidates \in 0..Rows
      BY CandidatesProperties DEF IInv
<1>4. TypeOK'
  <2>1. CASE Mark
    <3>1. End /\ UNCHANGED <<disk, aside, world, kills, clobbered>> /\ marker' = "written"
          BY <2>1 DEF Mark
    <3>2. QED BY <1>1, <1>3, <3>1, EndTypes DEF IInv, TypeOK, world
  <2>2. CASE Salvage
        BY <1>1, <1>3, <2>2, SizeAssumption DEF IInv, TypeOK, Salvage, attempt, world
  <2>3. QED BY <2>1, <2>2
<1>5. Skipped' /\ Gated' /\ Moving'
      BY <1>1, <1>2 DEF Skipped, Gated, Moving
<1>6. Within' /\ Whole' /\ JudgedImagesPresent'
      BY <1>1, <1>2 DEF IInv, Within, Whole, JudgedImagesPresent
<1>7. QED BY <1>4, <1>5, <1>6 DEF IInv

\* A rename takes a file of a shard that is not kept.
LEMMA MoveFileKeeps ==
    ASSUME IInv, NEW f \in File, MoveFile(f)
    PROVE  IInv'
<1> USE DEF MoveFile
<1>1. PICK s \in Shard, k \in {"tar", "stats"} : f = <<s, k>>
      BY DEF File
<1>2. /\ pc = "move" /\ f \in todo /\ todo' = todo \ {f} /\ UNCHANGED <<marker, counted>>
      /\ stats[s] = "done" => Uninheritable(s)
      /\ pc' = IF todo' = {} THEN "manifest" ELSE "move"
      BY <1>1 DEF IInv, Moving
<1>3. NoProfile \in Profile
      BY ProfileAssumption DEF NoProfile
<1>4. \/ /\ k = "tar" /\ tar' = [tar EXCEPT ![s] = FALSE] /\ UNCHANGED <<stats, count, profile>>
      \/ /\ k = "stats" /\ stats' = [stats EXCEPT ![s] = "none"]
         /\ count' = [count EXCEPT ![s] = 0] /\ profile' = [profile EXCEPT ![s] = NoProfile]
         /\ UNCHANGED tar
      BY <1>1
<1>5. TypeOK'
  <2>1. /\ tar' \in [Shard -> BOOLEAN] /\ stats' \in [Shard -> {"none", "torn", "done"}]
        BY <1>4 DEF IInv, TypeOK
  <2>2. count' \in [Shard -> 0..Sps] /\ profile' \in [Shard -> Profile]
        BY <1>3, <1>4, SizeAssumption DEF IInv, TypeOK
  <2>3. aside' \in [Tag -> SUBSET File] /\ clobbered' \in BOOLEAN
    <3>1. aside[tag] \cup {f} \in SUBSET File /\ clobbered' \in BOOLEAN
          BY DEF IInv, TypeOK
    <3>2. QED BY <3>1 DEF IInv, TypeOK
  <2>4. pc' \in {"manifest", "move"} /\ todo' \subseteq File
        BY <1>2 DEF IInv, TypeOK
  <2>5. QED BY <2>1, <2>2, <2>3, <2>4 DEF IInv, TypeOK, world
<1>6. \A r \in Shard \ {s} :
         /\ tar'[r] = tar[r] /\ stats'[r] = stats[r]
         /\ Uninheritable(r)' = Uninheritable(r)
      BY <1>4 DEF IInv, TypeOK, Uninheritable
<1>7. stats'[s] = "done" => /\ stats[s] = "done" /\ k = "tar"
                            /\ Uninheritable(s) /\ Uninheritable(s)'
  <2>1. CASE k = "tar"
    <3>1. UNCHANGED <<stats, count, profile>>
          BY <1>4, <2>1
    <3>2. QED BY <1>2, <2>1, <3>1 DEF Uninheritable
  <2>2. CASE k = "stats"
        BY <1>4, <2>2 DEF IInv, TypeOK
  <2>3. QED BY <2>1, <2>2
<1>8. Within'
  <2>1. \A r \in Shard : count'[r] = count[r] \/ count'[r] = 0
        BY <1>4 DEF IInv, TypeOK
  <2>2. \A r \in Shard : 0 <= SizeIn(r, Rows)
        BY ShardProperties
  <2>3. QED BY <2>1, <2>2 DEF IInv, Within
<1>9. Whole'
      BY <1>6, <1>7 DEF IInv, Whole
<1>10. \A r \in Shard : stats'[r] = "done" /\ Uninheritable(r)' => <<r, "stats">> \in todo'
  <2>1. ASSUME NEW r \in Shard, stats'[r] = "done", Uninheritable(r)'
        PROVE  stats[r] = "done" /\ Uninheritable(r) /\ <<r, "stats">> # f
        BY <1>1, <1>6, <1>7, <2>1
  <2>2. QED BY <1>2, <2>1 DEF IInv, Moving
<1>11. Moving'
  <2>1. ASSUME NEW e \in todo', stats'[e[1]] = "done" PROVE Uninheritable(e[1])'
    <3>1. e \in todo /\ e[1] \in Shard
          BY <1>2, <1>5 DEF TypeOK, File
    <3>2. CASE e[1] = s
          BY <1>7, <2>1, <3>2
    <3>3. CASE e[1] # s
          BY <1>2, <1>6, <2>1, <3>1, <3>3 DEF IInv, Moving
    <3>4. QED BY <3>2, <3>3
  <2>2. pc' # "move" => todo' = {}
        BY <1>2
  <2>3. QED BY <1>10, <2>1, <2>2 DEF Moving
<1>12. JudgedImagesPresent'
  <2>1. pc' # "manifest" => pc' = "move"
        BY <1>2
  <2>2. pc' = "manifest" => todo' = {}
        BY <1>2
  <2>3. QED BY <1>9, <1>10, <2>1, <2>2 DEF Whole, JudgedImagesPresent
<1>13. Skipped' /\ Gated'
  <2>1. ~Complete /\ Complete' = Complete /\ pc' # "mark"
        BY <1>2 DEF IInv, Skipped, Complete
  <2>2. QED BY <2>1 DEF Skipped, Gated
<1>14. QED BY <1>5, <1>8, <1>9, <1>11, <1>12, <1>13 DEF IInv

\* img2dataset opens and closes shards that have no stats, within the plan.
LEMMA ShardKeeps ==
    ASSUME IInv, NEW s \in Shard, OpenShard(s) \/ \E p \in Profile : CloseShard(s, p)
    PROVE  IInv'
<1>1. /\ pc = "download" /\ pc' = pc /\ stats[s] = "none" /\ s \in ShardsOf(wanted)
      /\ UNCHANGED <<aside, marker, counted, cap, tag, todo, wanted, failed, weather,
                     canary, kills, clobbered>>
      BY DEF OpenShard, CloseShard, Pending, attempt, world
<1>2. wanted \in 0..Rows /\ SizeIn(s, wanted) \in 1..Sps /\ SizeIn(s, wanted) <= SizeIn(s, Rows)
      BY <1>1, CappedShards DEF IInv, TypeOK
<1>3. /\ \A r \in Shard \ {s} : /\ tar'[r] = tar[r] /\ stats'[r] = stats[r]
                                /\ count'[r] = count[r] /\ profile'[r] = profile[r]
      /\ stats'[s] = "done" => tar'[s]
      /\ count'[s] = count[s] \/ count'[s] = SizeIn(s, wanted)
      /\ TypeOK'
  <2>1. CASE OpenShard(s)
    <3>1. tar' = [tar EXCEPT ![s] = TRUE] /\ UNCHANGED <<stats, count, profile>>
          BY <2>1 DEF OpenShard
    <3>2. TypeOK'
          BY <1>1, <3>1 DEF IInv, TypeOK
    <3>3. QED BY <3>1, <3>2 DEF IInv, TypeOK
  <2>2. CASE \E p \in Profile : CloseShard(s, p)
    <3>1. PICK p \in Profile :
             /\ stats' = [stats EXCEPT ![s] = "done"] /\ tar[s]
             /\ count' = [count EXCEPT ![s] = SizeIn(s, wanted)]
             /\ profile' = [profile EXCEPT ![s] = p] /\ UNCHANGED tar
          BY <2>2 DEF CloseShard
    <3>2. stats' \in [Shard -> {"none", "torn", "done"}]
          BY <3>1 DEF IInv, TypeOK
    <3>3. count' \in [Shard -> 0..Sps] /\ profile' \in [Shard -> Profile]
          BY <1>2, <3>1, SizeAssumption DEF IInv, TypeOK
    <3>4. TypeOK'
          BY <1>1, <3>1, <3>2, <3>3 DEF IInv, TypeOK
    <3>5. QED BY <3>1, <3>4 DEF IInv, TypeOK
  <2>3. QED BY <2>1, <2>2
<1>4. Within'
      BY <1>2, <1>3 DEF IInv, Within
<1>5. \A r \in Shard : stats'[r] = "done" => tar'[r]
      BY <1>1, <1>3 DEF IInv, JudgedImagesPresent
<1>6. Whole' /\ JudgedImagesPresent'
      BY <1>5 DEF Whole, JudgedImagesPresent
<1>7. Skipped' /\ Gated' /\ Moving'
      BY <1>1 DEF IInv, Skipped, Gated, Moving, Complete
<1>8. QED BY <1>3, <1>4, <1>6, <1>7 DEF IInv

\* A kill tears only what was being written.
LEMMA KillKeeps ==
    ASSUME IInv, Kill
    PROVE  IInv'
<1>1. PICK torn \in SUBSET {s \in Shard : pc = "download" /\ Pending(s) /\ tar[s]} :
         stats' = [s \in Shard |-> IF s \in torn THEN "torn" ELSE stats[s]]
      BY DEF Kill
<1>2. /\ pc' = "idle" /\ todo' = {} /\ ~Complete /\ ~Complete'
      /\ UNCHANGED <<tar, count, profile, counted>>
      BY DEF Kill, End, IInv, Skipped, Complete
<1>3. TypeOK'
  <2>1. stats' \in [Shard -> {"none", "torn", "done"}]
        BY <1>1 DEF IInv, TypeOK
  <2>2. kills' \in 0..MaxKills /\ marker' \in {"none", "torn", "written"}
        BY BoundAssumption DEF IInv, TypeOK, Kill
  <2>3. End /\ UNCHANGED <<aside, world, clobbered>>
        BY DEF Kill
  <2>4. QED BY <1>2, <2>1, <2>2, <2>3, EndTypes DEF IInv, TypeOK, world
<1>4. \A s \in Shard : stats'[s] = "done" => stats[s] = "done"
      BY <1>1
<1>5. Whole'
      BY <1>2, <1>4 DEF IInv, Whole, Uninheritable
<1>6. Within' /\ Skipped' /\ Gated' /\ Moving' /\ JudgedImagesPresent'
      BY <1>2 DEF IInv, Within, Skipped, Gated, Moving, JudgedImagesPresent
<1>7. QED BY <1>3, <1>5, <1>6 DEF IInv

\* Steps of the world, and none at all.
LEMMA WorldKeeps ==
    ASSUME IInv, WeatherClears \/ CanaryEnds \/ UNCHANGED vars
    PROVE  IInv'
<1>1. /\ UNCHANGED disk
      /\ UNCHANGED <<tar, stats, count, profile, aside, marker, counted, pc, cap, tag, todo,
                     wanted, failed, kills, clobbered>>
      BY DEF WeatherClears, CanaryEnds, vars, disk, attempt
<1>2. weather' \in {"bad", "fair"} /\ canary' \in BOOLEAN
      BY DEF WeatherClears, CanaryEnds, vars, IInv, TypeOK
<1>3. TypeOK'
      BY <1>1, <1>2 DEF IInv, TypeOK
<1>4. /\ Candidates' = Candidates /\ Healthy' = Healthy
      /\ \A s \in Shard : Uninheritable(s)' = Uninheritable(s)
      BY <1>1, VerdictsUnchanged
<1>5. Within' /\ Whole' /\ JudgedImagesPresent' /\ Skipped' /\ Gated'
      BY <1>1, <1>4 DEF IInv, Within, Whole, JudgedImagesPresent, Skipped, Gated, Complete
<1>6. \A f \in todo : f[1] \in Shard
      BY DEF IInv, TypeOK, File
<1>7. Moving'
      BY <1>1, <1>4, <1>6 DEF IInv, Moving
<1>8. QED BY <1>3, <1>5, <1>7 DEF IInv

\* Every step keeps the invariant.
LEMMA StepKeeps == IInv /\ [Next]_vars => IInv'
<1> SUFFICES ASSUME IInv, [Next]_vars PROVE IInv'
    OBVIOUS
<1>1. CASE Attempt
  <2>1. ASSUME NEW c \in Caps \cup {0}, NEW t \in Tag, Begin(c, t) PROVE IInv'
        BY <2>1, BeginKeeps
  <2>2. ASSUME NEW f \in File, MoveFile(f) PROVE IInv'
        BY <2>2, MoveFileKeeps
  <2>3. ASSUME NEW s \in Shard, OpenShard(s) \/ \E p \in Profile : CloseShard(s, p)
        PROVE  IInv'
        BY <2>3, ShardKeeps
  <2>4. CASE Scan
        BY <2>4, ScanKeeps
  <2>5. CASE BuildManifest \/ DownloadEnds \/ Assess
        BY <2>5, PassKeeps
  <2>6. CASE Mark
        BY <2>6, MarkKeeps
  <2>7. QED BY <1>1, <2>1, <2>2, <2>3, <2>4, <2>5, <2>6 DEF Attempt
<1>2. CASE DownloadFails
      BY <1>2, PassKeeps
<1>3. CASE Kill
      BY <1>3, KillKeeps
<1>4. CASE Salvage
      BY <1>4, MarkKeeps
<1>5. CASE WeatherClears \/ CanaryEnds \/ UNCHANGED vars
      BY <1>5, WorldKeeps
<1>6. QED BY <1>1, <1>2, <1>3, <1>4, <1>5 DEF Next

\* A task nobody has begun.
LEMMA InitHolds == Init => IInv
<1> SUFFICES ASSUME Init PROVE IInv
    OBVIOUS
<1>1. NoProfile \in Profile
      BY ProfileAssumption DEF NoProfile
<1>2. 0 \in 0..Rows /\ 0 \in 0..Sps /\ 0 \in 0..MaxKills
      BY SizeAssumption, BoundAssumption
<1>3. TypeOK
      BY <1>1, <1>2 DEF Init, TypeOK
<1>4. Within
      BY ShardProperties DEF Init, Within
<1>5. Skipped /\ Gated /\ Whole /\ Moving /\ JudgedImagesPresent
      BY DEF Init, Skipped, Complete, Gated, Whole, Moving, JudgedImagesPresent
<1>6. QED BY <1>3, <1>4, <1>5 DEF IInv

-----------------------------------------------------------------------------
(* The theorems. *)

\* Every state has its types, counts within the plan, a marker that counts what
\* is on disk, and images where a shard is kept.
THEOREM Invariance == Spec => []IInv
BY InitHolds, StepKeeps, PTL DEF Spec

\* A task that later waves skip has every planned URL in a finished, full
\* shard, for every plan and shard size: no sum of other shards, of a capped
\* attempt's or of what a kill left, reaches the plan's.
THEOREM SkippedTasksCoverPlan == Spec => []SkipCoversPlan
<1>1. IInv => SkipCoversPlan
  <2> SUFFICES ASSUME IInv, Complete
               PROVE  \A s \in Shard : stats[s] = "done" /\ count[s] = SizeIn(s, Rows)
      BY DEF SkipCoversPlan
  <2>1. Candidates >= Rows
        BY DEF IInv, Skipped, Complete
  <2>2. QED BY <2>1, CandidatesProperties DEF IInv
<1>2. QED BY <1>1, Invariance, PTL

\* A task that later waves skip passes the gate as it lies on disk: nothing was
\* downloaded, moved or torn after its marker was written.
THEOREM SkippedTasksHealthy == Spec => []SkipIsHealthy
<1>1. IInv => SkipIsHealthy
      BY DEF IInv, Skipped, SkipIsHealthy
<1>2. QED BY <1>1, Invariance, PTL

\* Stats without their images, which a kill between two renames leaves, are
\* gone before the next manifest is written.
THEOREM JudgedShardsHaveImages == Spec => []JudgedImagesPresent
BY Invariance, PTL DEF IInv

\* No step of any attempt changes a finished shard that meets the yield: not
\* the renames, not the download, not a kill.
THEOREM KeptShardsUntouched == Spec => KeptShardUntouched
<1>1. IInv /\ [Next]_vars =>
        [\A s \in Shard : (stats[s] = "done" /\ ~Uninheritable(s)) =>
            /\ tar'[s] = tar[s] /\ stats'[s] = stats[s]
            /\ count'[s] = count[s] /\ profile'[s] = profile[s]]_vars
  <2> SUFFICES ASSUME IInv, Next, NEW s \in Shard, stats[s] = "done", ~Uninheritable(s)
               PROVE  /\ tar'[s] = tar[s] /\ stats'[s] = stats[s]
                      /\ count'[s] = count[s] /\ profile'[s] = profile[s]
      OBVIOUS
  <2>1. ASSUME UNCHANGED disk
        PROVE  /\ tar'[s] = tar[s] /\ stats'[s] = stats[s]
               /\ count'[s] = count[s] /\ profile'[s] = profile[s]
        BY <2>1 DEF disk
  <2>2. ASSUME NEW f \in File, MoveFile(f)
        PROVE  /\ tar'[s] = tar[s] /\ stats'[s] = stats[s]
               /\ count'[s] = count[s] /\ profile'[s] = profile[s]
    <3>1. f[1] # s
          BY <2>2 DEF MoveFile, IInv, Moving
    <3>2. QED BY <2>2, <3>1 DEF MoveFile, IInv, TypeOK
  <2>3. ASSUME NEW r \in Shard, OpenShard(r) \/ \E p \in Profile : CloseShard(r, p)
        PROVE  /\ tar'[s] = tar[s] /\ stats'[s] = stats[s]
               /\ count'[s] = count[s] /\ profile'[s] = profile[s]
    <3>1. r # s
          BY <2>3 DEF OpenShard, CloseShard, Pending
    <3>2. CASE OpenShard(r)
          BY <3>1, <3>2 DEF OpenShard, IInv, TypeOK
    <3>3. CASE \E p \in Profile : CloseShard(r, p)
          BY <3>1, <3>3 DEF CloseShard, IInv, TypeOK
    <3>4. QED BY <2>3, <3>2, <3>3
  <2>4. ASSUME Kill
        PROVE  /\ tar'[s] = tar[s] /\ stats'[s] = stats[s]
               /\ count'[s] = count[s] /\ profile'[s] = profile[s]
    <3>1. ~Pending(s)
          BY DEF Pending
    <3>2. QED BY <2>4, <3>1 DEF Kill
  <2>5. UNCHANGED disk \/ Kill \/ (\E f \in File : MoveFile(f))
        \/ \E r \in Shard : OpenShard(r) \/ \E p \in Profile : CloseShard(r, p)
        BY DEF Next, Attempt, Begin, Scan, BuildManifest, DownloadEnds, DownloadFails,
               Assess, Mark, Salvage, WeatherClears, CanaryEnds
  <2>6. QED BY <2>1, <2>2, <2>3, <2>4, <2>5
<1>2. QED BY <1>1, Invariance, PTL DEF Spec, KeptShardUntouched
=============================================================================
