-------------------------- MODULE ExperimentProofs --------------------------
(***************************************************************************)
(* The two experiments, for every source, configuration, number of         *)
(* submissions and fault.                                                  *)
(***************************************************************************)
EXTENDS Experiment, FiniteSetTheorems, SequenceTheorems, TLAPS

-----------------------------------------------------------------------------
(* Sequences of sequences, flattened. *)

\* A set of naturals has a least element.
LEMMA Least ==
    ASSUME NEW T, T \subseteq Nat, T # {}
    PROVE  \E n \in T : \A m \in T : n <= m
<1> DEFINE U == {1..n : n \in T}
<1>1. U \subseteq FiniteSubsetsOf(Nat) /\ U # {}
  <2>1. ASSUME NEW n \in T PROVE 1..n \in FiniteSubsetsOf(Nat)
        BY FS_Interval DEF FiniteSubsetsOf
  <2>2. QED BY <2>1
<1>2. IsWellFoundedOn(StrictSubsetOrdering(Nat), FiniteSubsetsOf(Nat))
      BY FS_StrictSubsetOrderingWellFounded
<1>3. PICK s \in U : \A r \in U : ~ (<<r, s>> \in StrictSubsetOrdering(Nat))
  <2> HIDE DEF U
  <2>1. QED BY <1>1, <1>2, WFMin
<1>4. PICK n \in T : s = 1..n
      OBVIOUS
<1>5. ASSUME NEW m \in T, m < n PROVE FALSE
  <2>1. 1..m \in U
        OBVIOUS
  <2>2. n \in 1..n /\ n \notin 1..m /\ 1..m \subseteq 1..n /\ 1..n \subseteq Nat
        BY <1>5
  <2>3. <<1..m, 1..n>> \in StrictSubsetOrdering(Nat)
        BY <2>2 DEF StrictSubsetOrdering
  <2>4. QED BY <1>3, <1>4, <2>1, <2>3
<1>6. QED BY <1>5

\* What holds of n and of each next number holds up to m.
LEMMA UpFrom ==
    ASSUME NEW n \in Nat, NEW m \in Nat, NEW T, n \in T,
           \A k \in n..m - 1 : k \in T => k + 1 \in T
    PROVE  \A k \in n..m : k \in T
<1> DEFINE F == {k \in n..m : k \notin T}
<1>1. CASE F = {}
      BY <1>1
<1>2. CASE F # {}
  <2>1. PICK k \in Nat : k \in F /\ \A j \in F : k <= j
    <3>1. F \subseteq Nat
          OBVIOUS
    <3> HIDE DEF F
    <3>2. QED BY <1>2, <3>1, Least
  <2>2. k \in n..m /\ k \notin T /\ k # n
        BY <2>1
  <2>3. k - 1 \in n..m - 1 /\ k - 1 \in n..m /\ k - 1 < k
        BY <2>2
  <2>4. k - 1 \in T
        BY <2>1, <2>3
  <2>5. QED BY <2>2, <2>3, <2>4
<1>3. QED BY <1>1, <1>2

\* g[i] is what the first i of the sequences ss make, up to n.
Joins(ss, n, g) == g = [i \in 1..n |-> IF i = 1 THEN ss[i] ELSE g[i - 1] \o ss[i]]

\* There is always such a g.
LEMMA JoinsExist ==
    ASSUME NEW ss, NEW n \in Nat
    PROVE  \E g : Joins(ss, n, g)
<1> DEFINE F == {k \in Nat : ~ \E g : Joins(ss, k, g)}
<1>1. CASE F = {}
      BY <1>1
<1>2. CASE F # {}
  <2>1. PICK k \in F : \A m \in F : k <= m
    <3>1. F \subseteq Nat
          OBVIOUS
    <3> HIDE DEF F
    <3>2. QED BY <1>2, <3>1, Least
  <2>2. k \in Nat /\ ~ \E g : Joins(ss, k, g)
        OBVIOUS
  <2>3. CASE k = 0
    <3> DEFINE e == [i \in 1..0 |-> ss[i]]
    <3>1. Joins(ss, 0, e)
          BY DEF Joins
    <3>2. QED BY <2>2, <2>3, <3>1
  <2>4. CASE k # 0
    <3>1. k - 1 \in Nat /\ k - 1 \notin F
          BY <2>1, <2>2, <2>4
    <3>2. PICK g : Joins(ss, k - 1, g)
          BY <3>1
    <3> DEFINE h == [i \in 1..k |-> IF i = k THEN IF k = 1 THEN ss[k] ELSE g[k - 1] \o ss[k]
                                    ELSE g[i]]
    <3>3. ASSUME NEW i \in 1..k
          PROVE  h[i] = IF i = 1 THEN ss[i] ELSE h[i - 1] \o ss[i]
      <4>1. CASE i = k
            BY <2>2, <2>4, <4>1
      <4>2. CASE i # k
        <5>1. i \in 1..k - 1 /\ (i # 1 => i - 1 \in 1..k - 1)
              BY <2>2, <4>2
        <5>2. g[i] = IF i = 1 THEN ss[i] ELSE g[i - 1] \o ss[i]
              BY <3>2, <5>1 DEF Joins
        <5>3. h[i] = g[i] /\ (i # 1 => h[i - 1] = g[i - 1])
              BY <4>2, <5>1
        <5> HIDE DEF h
        <5>4. QED BY <5>2, <5>3
      <4>3. QED BY <4>1, <4>2
    <3>4. h = [i \in 1..k |-> h[i]]
          OBVIOUS
    <3>5. Joins(ss, k, h)
      <4> HIDE DEF h
      <4>1. QED BY <3>3, <3>4 DEF Joins
    <3>6. QED BY <2>2, <3>5
  <2>5. QED BY <2>3, <2>4
<1>3. QED BY <1>1, <1>2

\* FlattenSeq is the last of them.
LEMMA FlattenIsJoin ==
    ASSUME NEW ss, Len(ss) \in Nat \ {0}
    PROVE  \E g : Joins(ss, Len(ss), g) /\ FlattenSeq(ss) = g[Len(ss)]
<1>1. FlattenSeq(ss) =
         (CHOOSE g : g = [i \in 1..Len(ss) |->
                            IF i = 1 THEN ss[i] ELSE g[i - 1] \o ss[i]])[Len(ss)]
      BY DEF FlattenSeq
<1>2. FlattenSeq(ss) = (CHOOSE g : Joins(ss, Len(ss), g))[Len(ss)]
      BY <1>1 DEF Joins
<1>3. QED BY <1>2, JoinsExist

\* The joins of sequences over S, one after the other.
Joined(S, R, n, g) == /\ \A k \in 1..n : R[k] \in Seq(S) /\ g[k] \in Seq(S)
                      /\ g[1] = R[1]
                      /\ \A k \in 1..n - 1 : g[k + 1] = g[k] \o R[k + 1]

LEMMA JoinsTyped ==
    ASSUME NEW S, NEW R \in Seq(Seq(S)), NEW n \in 1..Len(R), NEW g, Joins(R, n, g)
    PROVE  Joined(S, R, n, g)
<1>1. \A k \in 1..n : R[k] \in Seq(S)
      BY LenProperties, ElementOfSeq
<1>2. \A k \in 1..n : g[k] = IF k = 1 THEN R[k] ELSE g[k - 1] \o R[k]
      BY LenProperties DEF Joins
<1>3. 1 \in 1..n /\ n \in Nat
      BY LenProperties
<1>4. g[1] = R[1]
      BY <1>2, <1>3
<1>5. ASSUME NEW k \in 1..n - 1 PROVE k + 1 \in 1..n /\ g[k + 1] = g[k] \o R[k + 1]
  <2> DEFINE j == k + 1
  <2>1. j \in 1..n /\ j # 1 /\ j - 1 = k
        BY <1>3
  <2> HIDE DEF j
  <2>2. g[j] = g[j - 1] \o R[j]
        BY <1>2, <2>1
  <2>3. g[j] = g[k] \o R[j]
        BY <2>1, <2>2
  <2>4. QED BY <2>1, <2>3 DEF j
<1> DEFINE T == {k \in Nat : g[k] \in Seq(S)}
<1>6. 1 \in T
  <2>1. R[1] \in Seq(S)
        BY <1>1, <1>3
  <2>2. QED BY <1>4, <2>1
<1>7. ASSUME NEW k \in 1..n - 1, k \in T PROVE k + 1 \in T
  <2>1. k + 1 \in 1..n /\ g[k + 1] = g[k] \o R[k + 1]
        BY <1>5
  <2>2. k + 1 \in Nat /\ g[k] \in Seq(S)
        BY <1>7
  <2>3. R[k + 1] \in Seq(S)
        BY <1>1, <2>1
  <2>4. g[k] \o R[k + 1] \in Seq(S)
        BY <2>2, <2>3, ConcatProperties
  <2>5. QED BY <2>1, <2>2, <2>4
<1>8. \A k \in 1..n : k \in T
  <2> HIDE DEF T
  <2>1. QED BY <1>3, <1>6, <1>7, UpFrom
<1>9. QED BY <1>1, <1>4, <1>5, <1>8 DEF Joined

\* x is what y begins with.
Begins(x, y) == Len(x) <= Len(y) /\ \A i \in 1..Len(x) : x[i] = y[i]

LEMMA BeginsConcat ==
    ASSUME NEW S, NEW x \in Seq(S), NEW y \in Seq(S), NEW z \in Seq(S), Begins(x, y)
    PROVE  Begins(x, y \o z)
<1>1. /\ Len(y \o z) = Len(y) + Len(z) /\ Len(x) \in Nat /\ Len(y) \in Nat /\ Len(z) \in Nat
      /\ \A i \in 1..Len(y) : (y \o z)[i] = y[i]
      BY ConcatProperties, LenProperties
<1>2. QED BY <1>1 DEF Begins

\* What the first k of some sequences make is what all of them begin with.
LEMMA FlattenBegins ==
    ASSUME NEW S, NEW R \in Seq(Seq(S)), NEW k \in 1..Len(R)
    PROVE  /\ FlattenSeq(SubSeq(R, 1, k)) \in Seq(S) /\ FlattenSeq(R) \in Seq(S)
           /\ Begins(FlattenSeq(SubSeq(R, 1, k)), FlattenSeq(R))
<1> DEFINE Q == SubSeq(R, 1, k) n == Len(R)
<1>1. /\ n \in Nat /\ k \in Nat /\ Q \in Seq(Seq(S)) /\ Len(Q) = k
      /\ \A i \in 1..k : Q[i] = R[i]
      BY LenProperties, SubSeqProperties
<1> HIDE DEF Q, n
<1>2. PICK g : Joins(R, n, g) /\ FlattenSeq(R) = g[n]
      BY <1>1, FlattenIsJoin DEF n
<1>3. PICK h : Joins(Q, k, h) /\ FlattenSeq(Q) = h[k]
      BY <1>1, FlattenIsJoin
<1>4. /\ \A i \in 1..n : R[i] \in Seq(S) /\ g[i] \in Seq(S)
      /\ g[1] = R[1]
      /\ \A i \in 1..n - 1 : g[i + 1] = g[i] \o R[i + 1]
  <2>1. n \in 1..Len(R)
        BY <1>1 DEF n
  <2>2. Joined(S, R, n, g)
        BY <1>2, <2>1, JoinsTyped
  <2>3. QED BY <2>2 DEF Joined
<1>5. /\ h[1] = Q[1]
      /\ \A i \in 1..k - 1 : h[i + 1] = h[i] \o Q[i + 1]
  <2>1. k \in 1..Len(Q)
        BY <1>1
  <2>2. Joined(S, Q, k, h)
        BY <1>1, <1>3, <2>1, JoinsTyped
  <2>3. QED BY <2>2 DEF Joined
<1>6. h[k] = g[k]
  <2> DEFINE T == {i \in Nat : h[i] = g[i]}
  <2>1. 1 \in T
    <3>1. Q[1] = R[1]
          BY <1>1
    <3>2. QED BY <1>4, <1>5, <3>1
  <2>2. ASSUME NEW i \in 1..k - 1, i \in T PROVE i + 1 \in T
    <3>1. i + 1 \in 1..k /\ i \in 1..n - 1
          BY <1>1 DEF n
    <3>2. Q[i + 1] = R[i + 1] /\ h[i] = g[i]
          BY <1>1, <2>2, <3>1
    <3>3. g[i + 1] = g[i] \o R[i + 1] /\ h[i + 1] = h[i] \o Q[i + 1]
          BY <1>4, <1>5, <3>1
    <3>4. i + 1 \in Nat
          BY <3>1
    <3>5. QED BY <3>2, <3>3, <3>4
  <2>3. \A i \in 1..k : i \in T
    <3> HIDE DEF T
    <3>1. QED BY <1>1, <2>1, <2>2, UpFrom
  <2>4. QED BY <1>1, <2>3
<1>7. Begins(g[k], g[n])
  <2> DEFINE T == {i \in Nat : Begins(g[k], g[i])}
  <2>1. k \in 1..n /\ k \in T
        BY <1>1, <1>4, LenProperties DEF Begins, n
  <2>2. ASSUME NEW i \in k..n - 1, i \in T PROVE i + 1 \in T
    <3>1. i \in 1..n - 1 /\ i \in 1..n /\ i + 1 \in 1..n
          BY <1>1, <2>1
    <3>2. g[i + 1] = g[i] \o R[i + 1] /\ R[i + 1] \in Seq(S) /\ g[i] \in Seq(S)
          BY <1>4, <3>1
    <3>3. Begins(g[k], g[i]) /\ g[k] \in Seq(S)
          BY <1>4, <2>1, <2>2
    <3>4. Begins(g[k], g[i] \o R[i + 1])
          BY <3>2, <3>3, BeginsConcat
    <3>5. i + 1 \in Nat /\ Begins(g[k], g[i + 1])
          BY <3>1, <3>2, <3>4
    <3>6. QED BY <3>5
  <2>3. \A i \in k..n : i \in T
    <3> HIDE DEF T
    <3>1. QED BY <1>1, <2>1, <2>2, UpFrom
  <2>4. n \in k..n
        BY <1>1, <2>1
  <2>5. QED BY <2>3, <2>4
<1>8. g[k] \in Seq(S) /\ g[n] \in Seq(S)
      BY <1>1, <1>4 DEF n
<1>9. QED BY <1>2, <1>3, <1>6, <1>7, <1>8 DEF Q

\* Flattening sequences over S gives one.
LEMMA FlattenTyped ==
    ASSUME NEW S, NEW R \in Seq(Seq(S))
    PROVE  FlattenSeq(R) \in Seq(S)
<1>1. CASE Len(R) = 0
  <2>1. R = <<>> /\ <<>> \in Seq(S)
        BY <1>1, EmptySeq
  <2>2. FlattenSeq(<<>>) = <<>>
        BY DEF FlattenSeq
  <2>3. QED BY <2>1, <2>2
<1>2. CASE Len(R) # 0
  <2>1. Len(R) \in 1..Len(R)
        BY <1>2, LenProperties
  <2>2. QED BY <2>1, FlattenBegins
<1>3. QED BY <1>1, <1>2

\* Sequences that are equally long, end to end.
LEMMA FlattenLength ==
    ASSUME NEW S, NEW R \in Seq(Seq(S)), NEW L \in Nat, \A k \in 1..Len(R) : Len(R[k]) = L
    PROVE  Len(FlattenSeq(R)) = Len(R) * L
<1> DEFINE n == Len(R)
<1>1. n \in Nat
      BY LenProperties
<1>2. CASE n = 0
  <2>1. R = <<>>
        BY <1>2, EmptySeq
  <2>2. FlattenSeq(<<>>) = <<>> /\ Len(<<>>) = 0 /\ 0 * L = 0
        BY EmptySeq DEF FlattenSeq
  <2>3. QED BY <2>1, <2>2
<1>3. CASE n # 0
  <2>1. PICK g : Joins(R, n, g) /\ FlattenSeq(R) = g[n]
        BY <1>1, <1>3, FlattenIsJoin
  <2>2. /\ \A i \in 1..n : R[i] \in Seq(S) /\ g[i] \in Seq(S)
        /\ g[1] = R[1]
        /\ \A i \in 1..n - 1 : g[i + 1] = g[i] \o R[i + 1]
    <3>1. n \in 1..Len(R)
          BY <1>1, <1>3
    <3>2. Joined(S, R, n, g)
          BY <2>1, <3>1, JoinsTyped
    <3>3. QED BY <3>2 DEF Joined
  <2>3. \A i \in 1..n : Len(R[i]) = L
        OBVIOUS
  <2> HIDE DEF n
  <2> DEFINE T == {i \in Nat : Len(g[i]) = i * L}
  <2>4. 1 \in T
    <3>1. 1 \in 1..n /\ 1 * L = L
          BY <1>1, <1>3
    <3>2. QED BY <2>2, <2>3, <3>1
  <2>5. ASSUME NEW i \in 1..n - 1, i \in T PROVE i + 1 \in T
    <3>1. i \in 1..n /\ i + 1 \in 1..n
          BY <1>1
    <3>2. g[i + 1] = g[i] \o R[i + 1] /\ R[i + 1] \in Seq(S) /\ g[i] \in Seq(S)
          BY <2>2, <3>1
    <3>3. Len(g[i + 1]) = Len(g[i]) + Len(R[i + 1])
          BY <3>2, ConcatProperties
    <3>4. Len(R[i + 1]) = L /\ Len(g[i]) = i * L
          BY <2>3, <2>5, <3>1
    <3>5. (i + 1) * L = i * L + L
          BY <3>1
    <3>6. QED BY <3>1, <3>3, <3>4, <3>5
  <2>6. \A i \in 1..n : i \in T
    <3>1. 1 \in Nat /\ n \in Nat
          BY <1>1
    <3> HIDE DEF T
    <3>2. QED BY <3>1, <2>4, <2>5, UpFrom
  <2>7. QED BY <1>1, <1>3, <2>1, <2>6 DEF n
<1>4. QED BY <1>2, <1>3

-----------------------------------------------------------------------------
(* Folds over the subsets of a finite set: pick says which element is taken *)
(* next, and op and pick are functions.                                     *)

Folds(op, base, pick, T, g) ==
    g = [U \in SUBSET T |-> IF U = {} THEN base ELSE op[<<pick[U], g[U \ {pick[U]}]>>]]

Picks(pick, S) == \A U \in SUBSET S : U # {} => pick[U] \in U

\* Of the sets that fail something, one has no smaller one that does.
LEMMA SmallestSet ==
    ASSUME NEW S, IsFiniteSet(S), NEW F, F \subseteq SUBSET S, F # {}
    PROVE  \E T \in F : \A U \in SUBSET T : U # T => U \notin F
<1>1. IsWellFoundedOn(StrictSubsetOrdering(S), FiniteSubsetsOf(S))
      BY FS_StrictSubsetOrderingWellFounded
<1>2. F \subseteq FiniteSubsetsOf(S)
      BY FS_FiniteSubsetsOfFinite
<1>3. PICK T \in F : \A U \in F : ~ (<<U, T>> \in StrictSubsetOrdering(S))
      BY <1>1, <1>2, WFMin
<1>4. ASSUME NEW U \in SUBSET T, U # T, U \in F PROVE FALSE
  <2>1. <<U, T>> \in (SUBSET S) \X (SUBSET S)
        OBVIOUS
  <2>2. <<U, T>> \in StrictSubsetOrdering(S)
        BY <1>4, <2>1 DEF StrictSubsetOrdering
  <2>3. QED BY <1>3, <1>4, <2>2
<1>5. QED BY <1>4

\* Folds over the subsets of two sets agree where both are.
LEMMA FoldsAgree ==
    ASSUME NEW S, IsFiniteSet(S), NEW op, NEW base, NEW pick, Picks(pick, S),
           NEW A \in SUBSET S, NEW B \in SUBSET S,
           NEW g, NEW h, Folds(op, base, pick, A, g), Folds(op, base, pick, B, h)
    PROVE  \A U \in SUBSET (A \cap B) : g[U] = h[U]
<1> DEFINE F == {U \in SUBSET (A \cap B) : g[U] # h[U]}
<1>1. CASE F = {}
      BY <1>1
<1>2. CASE F # {}
  <2>1. F \subseteq SUBSET S
        OBVIOUS
  <2>2. PICK U \in F : \A V \in SUBSET U : V # U => V \notin F
    <3> HIDE DEF F
    <3>1. QED BY <1>2, <2>1, SmallestSet
  <2>3. U \in SUBSET A /\ U \in SUBSET B /\ U \in SUBSET S /\ g[U] # h[U]
        OBVIOUS
  <2>4. U # {}
        BY <2>3 DEF Folds
  <2>5. pick[U] \in U
        BY <2>3, <2>4 DEF Picks
  <2>6. g[U \ {pick[U]}] = h[U \ {pick[U]}]
        BY <2>2, <2>3, <2>5
  <2>7. /\ g[U] = op[<<pick[U], g[U \ {pick[U]}]>>]
        /\ h[U] = op[<<pick[U], h[U \ {pick[U]}]>>]
        BY <2>3, <2>4 DEF Folds
  <2>8. QED BY <2>3, <2>6, <2>7
<1>3. QED BY <1>1, <1>2

\* There is such a fold over every finite set.
LEMMA FoldsExist ==
    ASSUME NEW S, IsFiniteSet(S), NEW op, NEW base, NEW pick, Picks(pick, S)
    PROVE  \E g : Folds(op, base, pick, S, g)
<1> DEFINE F == {T \in SUBSET S : ~ \E g : Folds(op, base, pick, T, g)}
<1>1. CASE F = {}
      BY <1>1
<1>2. CASE F # {}
  <2>1. PICK T \in F : \A U \in SUBSET T : U # T => U \notin F
    <3>1. F \subseteq SUBSET S
          OBVIOUS
    <3> HIDE DEF F
    <3>2. QED BY <1>2, <3>1, SmallestSet
  <2>2. \A U \in SUBSET T : U # T => \E g : Folds(op, base, pick, U, g)
        BY <2>1
  <2> DEFINE G(U) == CHOOSE g : Folds(op, base, pick, U, g)
             rest == T \ {pick[T]}
             h == [U \in SUBSET T |->
                     IF U = {} THEN base
                     ELSE IF U = T THEN op[<<pick[T], G(rest)[rest]>>]
                     ELSE G(U)[U]]
  <2>3. ASSUME NEW U \in SUBSET T, U # T PROVE Folds(op, base, pick, U, G(U))
        BY <2>2, <2>3
  <2>4. ASSUME NEW U \in SUBSET T, U # {}
        PROVE  h[U] = op[<<pick[U], h[U \ {pick[U]}]>>]
    <3> DEFINE V == U \ {pick[U]}
    <3>1. pick[U] \in U /\ V \in SUBSET T /\ V # T /\ V # U
          BY <2>4 DEF Picks
    <3>2. h[V] = G(V)[V]
      <4>1. CASE V = {}
        <5>1. Folds(op, base, pick, V, G(V))
              BY <2>3, <3>1
        <5>2. G(V)[V] = base
          <6> HIDE DEF G, V
          <6>1. QED BY <5>1, <4>1 DEF Folds
        <5>3. QED BY <3>1, <4>1, <5>2
      <4>2. CASE V # {}
            BY <3>1, <4>2
      <4>3. QED BY <4>1, <4>2
    <3>3. CASE U = T
          BY <2>4, <3>2, <3>3
    <3>4. CASE U # T
      <4>1. Folds(op, base, pick, U, G(U)) /\ Folds(op, base, pick, V, G(V))
            BY <2>3, <3>1, <3>4
      <4>2. G(U)[V] = G(V)[V]
        <5>1. U \in SUBSET S /\ V \in SUBSET S /\ V \in SUBSET (U \cap V)
              BY <3>1
        <5> HIDE DEF G, V
        <5>2. QED BY <4>1, <5>1, FoldsAgree
      <4>3. G(U)[U] = op[<<pick[U], G(U)[V]>>]
        <5>1. U \in SUBSET U
              OBVIOUS
        <5> HIDE DEF G
        <5>2. QED BY <2>4, <4>1, <5>1 DEF Folds
      <4>4. h[U] = G(U)[U]
            BY <2>4, <3>4
      <4> HIDE DEF G, h
      <4>5. QED BY <3>2, <4>2, <4>3, <4>4
    <3>5. QED BY <3>3, <3>4
  <2>5. Folds(op, base, pick, T, h)
    <3>1. \A U \in SUBSET T :
             h[U] = IF U = {} THEN base ELSE op[<<pick[U], h[U \ {pick[U]}]>>]
      <4>1. h[{}] = base
            OBVIOUS
      <4> HIDE DEF h
      <4>2. QED BY <2>4, <4>1
    <3>2. h = [U \in SUBSET T |-> h[U]]
          OBVIOUS
    <3> HIDE DEF h
    <3>3. QED BY <3>1, <3>2 DEF Folds
  <2>6. QED BY <2>1, <2>5
<1>3. QED BY <1>1, <1>2

\* What a fold with an operation on V gives is of V.
LEMMA FoldsTyped ==
    ASSUME NEW S, IsFiniteSet(S), NEW V, NEW X, NEW op \in [X \X V -> V], NEW base \in V,
           S \subseteq X, NEW pick, Picks(pick, S), NEW g, Folds(op, base, pick, S, g)
    PROVE  \A U \in SUBSET S : g[U] \in V
<1> DEFINE F == {U \in SUBSET S : g[U] \notin V}
<1>1. CASE F = {}
      BY <1>1
<1>2. CASE F # {}
  <2>1. PICK U \in F : \A W \in SUBSET U : W # U => W \notin F
    <3>1. F \subseteq SUBSET S
          OBVIOUS
    <3> HIDE DEF F
    <3>2. QED BY <1>2, <3>1, SmallestSet
  <2>2. U \in SUBSET S /\ g[U] \notin V
        OBVIOUS
  <2>3. U # {} /\ pick[U] \in U
        BY <2>2 DEF Folds, Picks
  <2>4. g[U \ {pick[U]}] \in V
        BY <2>1, <2>2, <2>3
  <2>5. g[U] = op[<<pick[U], g[U \ {pick[U]}]>>]
        BY <2>2, <2>3 DEF Folds
  <2>6. QED BY <2>2, <2>3, <2>4, <2>5
<1>3. QED BY <1>1, <1>2

-----------------------------------------------------------------------------
(* The URLs of a source. *)

\* A sequence whose members are in T.
LEMMA SeqOver ==
    ASSUME NEW S, NEW T, NEW s \in Seq(S), \A i \in 1..Len(s) : s[i] \in T
    PROVE  s \in Seq(T)
<1>1. s \in [1..Len(s) -> T] /\ Len(s) \in Nat
      BY LenProperties
<1>2. QED BY <1>1, SeqDef

\* Max of a set of numbers up to n.
LEMMA MaxUpTo ==
    ASSUME NEW n \in Nat, NEW T \in SUBSET (1..n), T # {}
    PROVE  Max(T) \in T /\ \A k \in T : k <= Max(T)
<1> DEFINE D == {n - k : k \in T}
<1>1. D \subseteq Nat /\ D # {}
      OBVIOUS
<1>2. PICK d \in D : \A e \in D : d <= e
  <2> HIDE DEF D
  <2>1. QED BY <1>1, Least
<1>3. PICK x \in T : d = n - x
      OBVIOUS
<1>4. \A k \in T : x >= k
  <2>1. ASSUME NEW k \in T PROVE x >= k
    <3>1. n - k \in D
          OBVIOUS
    <3>2. d <= n - k
          BY <1>2, <3>1
    <3>3. QED BY <1>3, <3>2
  <2>2. QED BY <2>1
<1>5. Max(T) \in T /\ \A k \in T : Max(T) >= k
      BY <1>3, <1>4 DEF Max
<1>6. QED BY <1>5

\* Min of a set of naturals.
LEMMA MinOf ==
    ASSUME NEW T \in SUBSET Nat, T # {}
    PROVE  Min(T) \in T /\ \A k \in T : Min(T) <= k
<1>1. \E n \in T : \A k \in T : n <= k
      BY Least
<1>2. QED BY <1>1 DEF Min

\* What a field may be.
Fieldtext == STRING \cup {""}

\* g[U] is what is not blank of the members U of urls.
Kept(urls, g) ==
    g = [U \in SUBSET DOMAIN urls |->
           IF U = {} THEN <<>>
           ELSE IF urls[Max(U)] = "" THEN g[U \ {Max(U)}]
                ELSE Append(g[U \ {Max(U)}], urls[Max(U)])]

LEMMA NotBlankIsKept ==
    ASSUME NEW urls \in Seq(Fieldtext)
    PROVE  \E g : Kept(urls, g) /\ NotBlank(urls) = g[DOMAIN urls]
<1> DEFINE D == DOMAIN urls
           V == Seq(STRING)
           pick == [U \in SUBSET D |-> Max(U)]
           op == [x \in D \X V |-> IF urls[x[1]] = "" THEN x[2] ELSE Append(x[2], urls[x[1]])]
<1>1. D = 1..Len(urls) /\ Len(urls) \in Nat /\ IsFiniteSet(D) /\ \A i \in D : urls[i] \in Fieldtext
      BY LenProperties, FS_Interval
<1>2. Picks(pick, D)
      BY <1>1, MaxUpTo DEF Picks
<1>3. op \in [D \X V -> V] /\ <<>> \in V
  <2>1. ASSUME NEW x \in D \X V
        PROVE  (IF urls[x[1]] = "" THEN x[2] ELSE Append(x[2], urls[x[1]])) \in V
    <3>1. urls[x[1]] \in Fieldtext /\ x[2] \in Seq(STRING)
          BY <1>1
    <3> DEFINE u == urls[x[1]] v == x[2]
    <3>2. u \in STRING \cup {""} /\ v \in Seq(STRING)
          BY <3>1 DEF Fieldtext
    <3> HIDE DEF u, v
    <3>3. (IF u = "" THEN v ELSE Append(v, u)) \in V
          BY <3>2, AppendProperties
    <3>4. QED BY <3>3 DEF u, v
  <2>2. <<>> \in V
        BY EmptySeq
  <2> HIDE DEF V, D
  <2>3. QED BY <2>1, <2>2
<1>4. PICK g : Folds(op, <<>>, pick, D, g)
  <2> HIDE DEF op, pick, D
  <2>1. QED BY <1>1, <1>2, FoldsExist
<1>5. \A U \in SUBSET D : g[U] \in V
  <2> HIDE DEF op, pick, D, V
  <2>1. QED BY <1>1, <1>2, <1>3, <1>4, FoldsTyped
<1>6. ASSUME NEW U \in SUBSET D
      PROVE  g[U] = IF U = {} THEN <<>>
                    ELSE IF urls[Max(U)] = "" THEN g[U \ {Max(U)}]
                         ELSE Append(g[U \ {Max(U)}], urls[Max(U)])
  <2>1. CASE U = {}
        BY <1>4, <2>1 DEF Folds
  <2>2. CASE U # {}
    <3>1. pick[U] = Max(U) /\ Max(U) \in D /\ g[U \ {Max(U)}] \in V
          BY <1>1, <1>5, <2>2, MaxUpTo
    <3>2. g[U] = op[<<pick[U], g[U \ {pick[U]}]>>]
      <4> HIDE DEF op, pick
      <4>1. QED BY <1>4, <2>2 DEF Folds
    <3> DEFINE x == Max(U) v == g[U \ {Max(U)}]
    <3>3. g[U] = op[<<x, v>>] /\ x \in D /\ v \in V
          BY <3>1, <3>2
    <3> HIDE DEF x, v
    <3>4. g[U] = IF urls[x] = "" THEN v ELSE Append(v, urls[x])
          BY <3>3
    <3>5. QED BY <2>2, <3>4 DEF x, v
  <2>3. QED BY <2>1, <2>2
<1>7. g = [U \in SUBSET D |-> g[U]]
      BY <1>4 DEF Folds
<1>8. Kept(urls, g)
  <2> HIDE DEF D
  <2>1. QED BY <1>6, <1>7 DEF Kept, D
<1>9. NotBlank(urls) =
        (CHOOSE h : h = [U \in SUBSET DOMAIN urls |->
                           IF U = {} THEN <<>>
                           ELSE IF urls[Max(U)] = "" THEN h[U \ {Max(U)}]
                                ELSE Append(h[U \ {Max(U)}], urls[Max(U)])])[DOMAIN urls]
      BY DEF NotBlank, FoldLeft, MapThenFoldSet
<1>10. NotBlank(urls) = (CHOOSE h : Kept(urls, h))[DOMAIN urls]
      BY <1>9 DEF Kept
<1>11. QED BY <1>8, <1>10

\* URLs that are not blank are URLs, and are all of them when none is blank.
LEMMA NotBlankTyped ==
    ASSUME NEW urls \in Seq(Fieldtext)
    PROVE  /\ NotBlank(urls) \in Seq(STRING)
           /\ (\A i \in DOMAIN urls : urls[i] # "") => NotBlank(urls) = urls
<1> DEFINE n == Len(urls)
<1>1. n \in Nat /\ DOMAIN urls = 1..n /\ \A i \in 1..n : urls[i] \in Fieldtext
      BY LenProperties
<1> HIDE DEF n
<1>2. PICK g : Kept(urls, g) /\ NotBlank(urls) = g[DOMAIN urls]
      BY NotBlankIsKept
<1>3. g[1..0] = <<>>
  <2>1. g[{}] = <<>>
        BY <1>2 DEF Kept
  <2>2. 1..0 = {}
        OBVIOUS
  <2>3. QED BY <2>1, <2>2
<1>4. ASSUME NEW k \in 0..n - 1
      PROVE  g[1..k + 1] = IF urls[k + 1] = "" THEN g[1..k] ELSE Append(g[1..k], urls[k + 1])
  <2> DEFINE U == 1..k + 1
  <2>1. U \in SUBSET (1..n) /\ U # {} /\ k + 1 \in U
        BY <1>1
  <2>2. Max(U) = k + 1
    <3>1. Max(U) \in U /\ \A i \in U : i <= Max(U)
      <4> HIDE DEF U, n
      <4>1. QED BY <1>1, <2>1, MaxUpTo
    <3>2. Max(U) <= k + 1 /\ k + 1 <= Max(U) /\ Max(U) \in Nat
          BY <2>1, <3>1
    <3>3. QED BY <3>2
  <2>3. U \ {k + 1} = 1..k
        OBVIOUS
  <2>4. g[U] = IF urls[Max(U)] = "" THEN g[U \ {Max(U)}]
               ELSE Append(g[U \ {Max(U)}], urls[Max(U)])
    <3> HIDE DEF U
    <3>1. QED BY <1>1, <1>2, <2>1 DEF Kept
  <2>5. QED BY <2>2, <2>3, <2>4
<1>5. g[1..n] \in Seq(STRING)
  <2> DEFINE T == {k \in Nat : g[1..k] \in Seq(STRING)}
  <2>1. 0 \in T
        BY <1>3, EmptySeq
  <2>2. ASSUME NEW k \in 0..n - 1, k \in T PROVE k + 1 \in T
    <3>1. urls[k + 1] \in Fieldtext /\ g[1..k] \in Seq(STRING) /\ k + 1 \in Nat
          BY <1>1, <2>2
    <3>2. urls[k + 1] # "" => Append(g[1..k], urls[k + 1]) \in Seq(STRING)
          BY <3>1, AppendProperties DEF Fieldtext
    <3>3. QED BY <1>4, <3>1, <3>2
  <2>3. \A k \in 0..n : k \in T
    <3> HIDE DEF T, n
    <3>1. QED BY <1>1, <2>1, <2>2, UpFrom
  <2>4. QED BY <1>1, <2>3
<1>6. ASSUME \A i \in DOMAIN urls : urls[i] # "" PROVE g[1..n] = urls
  <2> DEFINE T == {k \in Nat : g[1..k] = SubSeq(urls, 1, k)}
  <2>1. 0 \in T
    <3>1. SubSeq(urls, 1, 0) = <<>>
          BY SubSeqEmpty
    <3>2. QED BY <1>3, <3>1
  <2>2. ASSUME NEW k \in 0..n - 1, k \in T PROVE k + 1 \in T
    <3>1. urls[k + 1] # "" /\ k + 1 \in 1..n /\ k + 1 \in Nat
      <4>1. k + 1 \in 1..n
            BY <1>1
      <4>2. \A j \in 1..n : urls[j] # ""
            BY <1>1, <1>6
      <4> DEFINE j == k + 1
      <4>3. j \in 1..n /\ j \in Nat
            BY <4>1
      <4> HIDE DEF j
      <4>4. urls[j] # "" /\ j \in 1..n /\ j \in Nat
            BY <4>2, <4>3
      <4>5. QED BY <4>4 DEF j
    <3>2. g[1..k + 1] = Append(SubSeq(urls, 1, k), urls[k + 1])
          BY <1>4, <2>2, <3>1
    <3>3. SubSeq(urls, 1, k + 1) = Append(SubSeq(urls, 1, k), urls[k + 1])
      <4> DEFINE a == SubSeq(urls, 1, k) b == SubSeq(urls, 1, k + 1) c == urls[k + 1]
      <4>1. /\ a \in Seq(Fieldtext) /\ Len(a) = k /\ \A i \in 1..k : a[i] = urls[i]
            /\ b \in Seq(Fieldtext) /\ Len(b) = k + 1 /\ \A i \in 1..k + 1 : b[i] = urls[i]
            /\ c \in Fieldtext
        <5>1. 1 \in Int /\ k \in Nat /\ k + 1 \in Nat /\ k + 1 <= n
              BY <1>1
        <5>2. \A i \in 1..k : urls[i] \in Fieldtext
              BY <1>1, <5>1
        <5>3. \A i \in 1..k + 1 : urls[i] \in Fieldtext
              BY <1>1, <5>1
        <5>4. a \in Seq(Fieldtext) /\ Len(a) = k /\ \A i \in 1..k : a[i] = urls[i]
              BY <5>1, <5>2, SubSeqProperties
        <5>5. b \in Seq(Fieldtext) /\ Len(b) = k + 1 /\ \A i \in 1..k + 1 : b[i] = urls[i]
              BY <5>1, <5>3, SubSeqProperties
        <5>6. c \in Fieldtext
              BY <1>1, <3>1
        <5> HIDE DEF a, b, c
        <5>7. QED BY <5>4, <5>5, <5>6
      <4>2. /\ Append(a, c) \in Seq(Fieldtext) /\ Len(Append(a, c)) = k + 1
            /\ \A i \in 1..k : Append(a, c)[i] = a[i]
            /\ Append(a, c)[k + 1] = c
        <5>1. a \in Seq(Fieldtext) /\ Len(a) = k /\ c \in Fieldtext /\ k \in Nat
              BY <1>1, <4>1
        <5> HIDE DEF a, b, c
        <5>2. QED BY <5>1, AppendProperties
      <4>3. \A i \in 1..k + 1 : b[i] = Append(a, c)[i]
        <5>1. c = urls[k + 1]
              OBVIOUS
        <5> HIDE DEF a, b, c
        <5>2. QED BY <4>1, <4>2, <5>1
      <4> HIDE DEF a, b, c
      <4>4. b = Append(a, c)
            BY <4>1, <4>2, <4>3, SeqEqual
      <4>5. QED BY <4>4 DEF a, b, c
    <3>4. QED BY <3>1, <3>2, <3>3
  <2>3. \A k \in 0..n : k \in T
    <3> HIDE DEF T, n
    <3>1. QED BY <1>1, <2>1, <2>2, UpFrom
  <2>4. g[1..n] = SubSeq(urls, 1, n)
        BY <1>1, <2>3
  <2>5. QED BY <2>4, SubSeqFull DEF n
<1>7. QED BY <1>1, <1>2, <1>5, <1>6

\* The column of a table is one of its columns.
LEMMA ColumnFound ==
    ASSUME NEW columns \in Seq(STRING), choose_url_column(columns) # NoColumn
    PROVE  IndexIn(columns, choose_url_column(columns)) \in 1..Len(columns)
<1> DEFINE known == {i \in DOMAIN URL_COLUMN_NAMES : Contains(columns, URL_COLUMN_NAMES[i])}
           name == choose_url_column(columns)
           S == {i \in 1..Len(columns) : columns[i] = name}
<1>1. known # {} /\ name = URL_COLUMN_NAMES[Min(known)]
      BY DEF choose_url_column
<1>2. known \subseteq Nat
      BY DEF URL_COLUMN_NAMES
<1>3. Min(known) \in known
  <2> HIDE DEF known
  <2>1. QED BY <1>1, <1>2, MinOf
<1>4. Contains(columns, name)
      BY <1>1, <1>3
<1>5. Len(columns) \in Nat /\ DOMAIN columns = 1..Len(columns)
      BY LenProperties
<1> HIDE DEF name
<1>6. S \subseteq Nat /\ S # {}
      BY <1>4, <1>5 DEF Contains
<1>7. PICK i \in S : \A j \in S : i <= j
  <2> HIDE DEF S
  <2>1. QED BY <1>6, Least
<1>8. i \in DOMAIN columns /\ columns[i] = name /\ \A j \in 1..i - 1 : columns[j] # name
  <2>1. ASSUME NEW j \in 1..i - 1, columns[j] = name PROVE FALSE
    <3>1. j \in S /\ j < i
          BY <1>5, <2>1
    <3>2. QED BY <1>7, <3>1
  <2>2. QED BY <1>5, <2>1
<1>9. IndexIn(columns, name) \in DOMAIN columns
      BY <1>8 DEF IndexIn
<1>10. QED BY <1>5, <1>9 DEF name

\* The rows of a table, each with a field for every column.
Wide(columns) == {r \in Seq(STRING) : Len(r) = Len(columns)}

IsTable(s) == /\ s \in Sources /\ s.format = "parquet"
              /\ s.columns \in Seq(STRING) /\ s.files \in Seq(Seq(Wide(s.columns)))

LEMMA TablesAre ==
    ASSUME NEW s \in Sources
    PROVE  /\ s.format \in {"parquet", "text"}
           /\ s.format = "parquet" => IsTable(s)
           /\ s.format = "text" => s.lines \in Seq(Seq(STRING) \ {<<>>})
<1>1. CASE s \in [format : {"text"}, lines : Seq(Seq(STRING) \ {<<>>})]
      BY <1>1
<1>2. CASE /\ s \in [format : {"parquet"}, columns : Seq(STRING),
                     files : Seq(Seq(Seq(STRING)))]
           /\ \A k \in DOMAIN s.files : \A i \in DOMAIN s.files[k] :
                 Len(s.files[k][i]) = Len(s.columns)
  <2> DEFINE F == s.files W == Wide(s.columns)
  <2>1. s.format = "parquet" /\ s.columns \in Seq(STRING) /\ F \in Seq(Seq(Seq(STRING)))
        BY <1>2
  <2>2. \A k \in DOMAIN F : \A i \in DOMAIN F[k] : Len(F[k][i]) = Len(s.columns)
        BY <1>2
  <2> HIDE DEF F
  <2>3. ASSUME NEW k \in 1..Len(F) PROVE F[k] \in Seq(W)
    <3>1. k \in DOMAIN F /\ F[k] \in Seq(Seq(STRING))
          BY <2>1, ElementOfSeq, LenProperties
    <3>2. ASSUME NEW i \in 1..Len(F[k]) PROVE F[k][i] \in W
      <4> DEFINE r == F[k]
      <4>1. r \in Seq(Seq(STRING))
            BY <3>1
      <4>2. i \in DOMAIN r /\ r[i] \in Seq(STRING)
        <5> HIDE DEF r
        <5>1. i \in 1..Len(r)
              BY <3>2 DEF r
        <5>2. QED BY <4>1, <5>1, ElementOfSeq, LenProperties
      <4>3. QED BY <2>2, <3>1, <4>2 DEF Wide
    <3> HIDE DEF W
    <3>3. QED BY <3>1, <3>2, SeqOver
  <2>4. F \in Seq(Seq(W))
    <3> HIDE DEF W
    <3>1. QED BY <2>1, <2>3, SeqOver
  <2>5. QED BY <2>1, <2>4 DEF IsTable, F
<1>3. QED BY <1>1, <1>2, SourcesAssumption

\* What is read of a table is what it begins with, and enough if it has enough.
LEMMA RowsRead ==
    ASSUME NEW s, IsTable(s), NEW m \in Nat
    PROVE  LET all == FlattenSeq(s.files)
               read == read_urls(s, m)
           IN  /\ all \in Seq(Wide(s.columns)) /\ read \in Seq(Wide(s.columns))
               /\ Begins(read, all)
               /\ read = all \/ Len(read) >= m
<1> DEFINE F == s.files W == Wide(s.columns)
           enough == {k \in DOMAIN F : Len(FlattenSeq(SubSeq(F, 1, k))) >= m}
           last == CHOOSE k \in enough : \A j \in enough : k <= j
<1>1. F \in Seq(Seq(W))
      BY DEF IsTable
<1>2. read_urls(s, m) = FlattenSeq(IF enough = {} THEN F ELSE SubSeq(F, 1, last))
      BY DEF read_urls
<1> HIDE DEF F, W
<1>3. FlattenSeq(F) \in Seq(W) /\ DOMAIN F = 1..Len(F) /\ Len(F) \in Nat
      BY <1>1, FlattenTyped, LenProperties
<1>4. CASE enough = {}
  <2>1. read_urls(s, m) = FlattenSeq(F)
        BY <1>2, <1>4
  <2>2. Begins(FlattenSeq(F), FlattenSeq(F))
        BY <1>3, LenProperties DEF Begins
  <2>3. QED BY <1>3, <2>1, <2>2 DEF F, W
<1>5. CASE enough # {}
  <2>1. last \in enough
    <3>1. enough \subseteq Nat
          BY <1>3
    <3> HIDE DEF enough
    <3>2. QED BY <1>5, <3>1, Least
  <2>2. last \in 1..Len(F) /\ Len(FlattenSeq(SubSeq(F, 1, last))) >= m
        BY <1>3, <2>1
  <2>3. read_urls(s, m) = FlattenSeq(SubSeq(F, 1, last))
        BY <1>2, <1>5
  <2> HIDE DEF last
  <2>4. /\ FlattenSeq(SubSeq(F, 1, last)) \in Seq(W)
        /\ Begins(FlattenSeq(SubSeq(F, 1, last)), FlattenSeq(F))
        BY <1>1, <2>2, FlattenBegins
  <2>5. QED BY <1>3, <2>2, <2>3, <2>4 DEF F, W
<1>6. QED BY <1>4, <1>5

\* The URLs of a source that has any, in their order.
Column(s) == IndexIn(s.columns, choose_url_column(s.columns))
UrlsOf(s) ==
    IF s.format = "parquet"
    THEN [j \in 1..Len(FlattenSeq(s.files)) |-> FlattenSeq(s.files)[j][Column(s)]]
    ELSE extract_urls(s.lines)

\* What n slices of count URLs each are, the first of them offset after the first.
Windows(urls, count, n, offset) ==
    [i \in 1..n |-> SubSeq(urls, offset + (i - 1) * count + 1, offset + i * count)]

\* Where a slice begins and ends.
LEMMA WindowBounds ==
    ASSUME NEW count \in Nat \ {0}, NEW n \in Nat \ {0}, NEW offset \in Nat, NEW i \in 1..n
    PROVE  /\ offset + (i - 1) * count + 1 \in Nat \ {0}
           /\ offset + i * count \in Nat
           /\ offset + i * count = offset + (i - 1) * count + count
           /\ offset + i * count <= offset + count * n
           /\ count * n \in Nat \ {0}
<1>1. i * count = (i - 1) * count + count /\ (i - 1) * count \in Nat
      OBVIOUS
<1>2. count * n = i * count + (n - i) * count /\ (n - i) * count \in Nat
      OBVIOUS
<1>3. count * n >= count
      BY <1>1, <1>2
<1>4. QED BY <1>1, <1>2, <1>3

\* What w has are the count URLs after the first ones.
IsWindow(w, urls, count, first) ==
    /\ Len(w) = count
    /\ \A j \in 1..count : first + j \in 1..Len(urls) /\ w[j] = urls[first + j]

\* A slice has as many URLs as it should, and they are those.
LEMMA WindowIs ==
    ASSUME NEW S, NEW urls \in Seq(S), NEW count \in Nat \ {0}, NEW n \in Nat \ {0},
           NEW offset \in Nat, Len(urls) >= offset + count * n, NEW i \in 1..n
    PROVE  /\ Windows(urls, count, n, offset)[i] \in Seq(S)
           /\ IsWindow(Windows(urls, count, n, offset)[i], urls, count, offset + (i - 1) * count)
<1> DEFINE a == offset + (i - 1) * count b == offset + i * count
           w == SubSeq(urls, a + 1, b)
<1>1. a + 1 \in Nat \ {0} /\ b \in Nat /\ b = a + count /\ b <= offset + count * n
      /\ count * n \in Nat
      BY WindowBounds
<1>2. Len(urls) \in Nat /\ \A j \in 1..Len(urls) : urls[j] \in S
      BY LenProperties
<1>3. a \in Nat /\ b <= Len(urls)
      BY <1>1, <1>2
<1>4. Windows(urls, count, n, offset)[i] = w
      BY DEF Windows
<1> HIDE DEF a, b
<1>5. \A j \in a + 1..b : urls[j] \in S
      BY <1>1, <1>2, <1>3
<1>6. /\ w \in Seq(S) /\ Len(w) = (IF a + 1 <= b THEN b - (a + 1) + 1 ELSE 0)
      /\ \A j \in 1..b - (a + 1) + 1 : w[j] = urls[a + 1 + j - 1]
  <2>1. a + 1 \in Int /\ b \in Int
        BY <1>1
  <2>2. QED BY <1>5, <2>1, SubSeqProperties
<1> HIDE DEF w
<1>7. Len(w) = count /\ b - (a + 1) + 1 = count
      BY <1>1, <1>3, <1>6
<1>8. ASSUME NEW j \in 1..count PROVE a + j \in 1..Len(urls) /\ w[j] = urls[a + j]
  <2>1. w[j] = urls[a + 1 + j - 1] /\ a + 1 + j - 1 = a + j
        BY <1>3, <1>6, <1>7
  <2>2. a + j \in 1..Len(urls)
        BY <1>1, <1>2, <1>3
  <2>3. QED BY <2>1, <2>2
<1>9. IsWindow(w, urls, count, a)
      BY <1>7, <1>8 DEF IsWindow
<1>10. QED BY <1>4, <1>6, <1>9 DEF a

LEMMA Divided ==
    ASSUME NEW x \in Nat, NEW d \in Nat \ {0}
    PROVE  x \div d \in Nat /\ d * (x \div d) <= x /\ x < d * (x \div d) + d
OBVIOUS

\* As many whole parts of d as fit into x.
LEMMA PartsFit ==
    ASSUME NEW x \in Nat, NEW d \in Nat \ {0}, NEW n \in Nat
    PROVE  x \div d >= n <=> x >= d * n
<1> DEFINE q == x \div d
<1>1. q \in Nat /\ d * q <= x /\ x < d * q + d
      BY Divided
<1> HIDE DEF q
<1>2. CASE q >= n
  <2>1. d * q = d * n + d * (q - n) /\ d * (q - n) \in Nat /\ d * n \in Nat
        BY <1>1, <1>2
  <2>2. QED BY <1>1, <1>2, <2>1 DEF q
<1>3. CASE q < n
  <2>1. d * n = d * q + d + d * (n - q - 1) /\ d * (n - q - 1) \in Nat /\ d * q \in Nat
        BY <1>1, <1>3
  <2>2. QED BY <1>1, <1>3, <2>1 DEF q
<1>4. QED BY <1>1, <1>2, <1>3

\* A table is cut if it has a column and rows enough.
LEMMA TableCut ==
    ASSUME NEW s, IsTable(s), NEW count \in Nat \ {0}, NEW n \in Nat \ {0}, NEW offset \in Nat
    PROVE  LET cut == cut_parquet(s, count, n, offset)
               rows == FlattenSeq(s.files)
           IN  /\ cut.rc = 0 <=> /\ choose_url_column(s.columns) # NoColumn
                                 /\ Len(rows) >= offset + count * n
               /\ cut.rc = 0 => /\ UrlsOf(s) \in Seq(STRING) /\ Len(UrlsOf(s)) = Len(rows)
                                /\ cut.slices = Windows(UrlsOf(s), count, n, offset)
<1> DEFINE m == offset + count * n
           W == Wide(s.columns)
           rows == FlattenSeq(s.files)
           read == read_urls(s, m)
           sl == slice_table(read, count, n, offset)
           col == Column(s)
           cut == cut_parquet(s, count, n, offset)
           none == choose_url_column(s.columns) = NoColumn
<1>1. m \in Nat /\ m > 0 /\ count * n \in Nat
  <2>1. n \in 1..n
        OBVIOUS
  <2>2. count * n \in Nat \ {0}
        BY <2>1, WindowBounds
  <2>3. QED BY <2>2
<1>2. /\ cut.rc = IF none \/ s.files = <<>> \/ sl = <<>> THEN 1 ELSE 0
      /\ ~ (none \/ s.files = <<>> \/ sl = <<>>) =>
            cut.slices = [i \in DOMAIN sl |-> [j \in DOMAIN sl[i] |-> sl[i][j][col]]]
      BY DEF cut_parquet, Column
<1>3. rows \in Seq(W) /\ read \in Seq(W) /\ Begins(read, rows) /\ (read = rows \/ Len(read) >= m)
  <2> HIDE DEF m
  <2>1. QED BY <1>1, RowsRead
<1> HIDE DEF cut
<1>4. Len(rows) \in Nat /\ Len(read) \in Nat /\ (Len(read) >= m <=> Len(rows) >= m)
  <2> HIDE DEF m, rows, read, W
  <2>1. Len(rows) \in Nat /\ Len(read) \in Nat
        BY <1>3, LenProperties
  <2>2. QED BY <1>1, <1>3, <2>1 DEF Begins
<1>5. s.files = <<>> => ~ (Len(rows) >= m)
  <2>1. FlattenSeq(<<>>) = <<>> /\ Len(<<>>) = 0
        BY DEF FlattenSeq
  <2>2. QED BY <1>1, <2>1
<1>6. sl = IF Len(read) < m THEN <<>> ELSE Windows(read, count, n, offset)
      BY DEF slice_table, Windows
<1> HIDE DEF sl, read, rows, col, m
<1>7. DOMAIN Windows(read, count, n, offset) = 1..n /\ 1 \in 1..n /\ DOMAIN <<>> = {}
      BY DEF Windows
<1>8. sl = <<>> <=> ~ (Len(rows) >= m)
      BY <1>1, <1>4, <1>6, <1>7
<1>9. cut.rc = 0 <=> ~none /\ Len(rows) >= m
      BY <1>2, <1>5, <1>8
<1>10. ASSUME ~none, Len(rows) >= m
       PROVE  /\ UrlsOf(s) \in Seq(STRING) /\ Len(UrlsOf(s)) = Len(rows)
              /\ cut.slices = Windows(UrlsOf(s), count, n, offset)
  <2> DEFINE U == UrlsOf(s)
  <2>1. U = [j \in 1..Len(rows) |-> rows[j][col]]
        BY DEF UrlsOf, IsTable, rows, col
  <2>2. col \in 1..Len(s.columns)
        BY <1>10, ColumnFound DEF IsTable, Column, col
  <2>3. ASSUME NEW j \in 1..Len(rows) PROVE rows[j][col] \in STRING
    <3>1. rows[j] \in W
          BY <1>3, ElementOfSeq
    <3>2. QED BY <2>2, <3>1, ElementOfSeq DEF Wide
  <2> HIDE DEF U
  <2>4. U \in Seq(STRING) /\ Len(U) = Len(rows)
    <3>1. U \in [1..Len(rows) -> STRING]
          BY <2>1, <2>3
    <3>2. U \in Seq(STRING)
          BY <1>4, <3>1, SeqDef
    <3>3. DOMAIN U = 1..Len(rows) /\ DOMAIN U = 1..Len(U) /\ Len(U) \in Nat
          BY <3>1, <3>2, LenProperties
    <3>4. QED BY <1>4, <3>2, <3>3
  <2>5. sl = Windows(read, count, n, offset) /\ Len(read) >= m
        BY <1>1, <1>4, <1>6, <1>10
  <2>6. cut.slices = [i \in 1..n |-> [j \in DOMAIN sl[i] |-> sl[i][j][col]]]
        BY <1>2, <1>5, <1>7, <1>8, <1>10, <2>5
  <2>7. ASSUME NEW i \in 1..n
        PROVE  [j \in DOMAIN sl[i] |-> sl[i][j][col]] = Windows(U, count, n, offset)[i]
    <3> DEFINE v == sl[i] w == Windows(U, count, n, offset)[i] a == offset + (i - 1) * count
    <3>1. v \in Seq(W) /\ IsWindow(v, read, count, a)
      <4>1. Len(read) >= offset + count * n
            BY <2>5 DEF m
      <4> HIDE DEF W
      <4>2. QED BY <1>3, <2>5, <4>1, WindowIs
    <3>2. w \in Seq(STRING) /\ IsWindow(w, U, count, a)
      <4>1. Len(U) >= offset + count * n
            BY <1>10, <2>4 DEF m
      <4>2. QED BY <2>4, <4>1, WindowIs
    <3>3. DOMAIN v = 1..count /\ w \in [1..count -> STRING]
      <4> HIDE DEF v, w, W
      <4>1. QED BY <3>1, <3>2, LenProperties DEF IsWindow
    <3> HIDE DEF v, w, a
    <3>4. ASSUME NEW j \in 1..count PROVE v[j][col] = w[j]
      <4> DEFINE x == a + j
      <4>1. x \in 1..Len(read) /\ x \in 1..Len(U) /\ v[j] = read[x] /\ w[j] = U[x]
            BY <3>1, <3>2 DEF IsWindow
      <4> HIDE DEF x
      <4>2. read[x] = rows[x]
            BY <1>3, <4>1 DEF Begins
      <4>3. U[x] = rows[x][col]
            BY <2>1, <2>4, <4>1
      <4>4. QED BY <4>1, <4>2, <4>3
    <3>5. [j \in DOMAIN v |-> v[j][col]] = w
          BY <3>3, <3>4
    <3>6. QED BY <3>5 DEF v, w
  <2>8. Windows(U, count, n, offset) = [i \in 1..n |-> Windows(U, count, n, offset)[i]]
        BY DEF Windows
  <2>9. cut.slices = Windows(U, count, n, offset)
        BY <2>6, <2>7, <2>8
  <2>10. QED BY <2>4, <2>9 DEF U
<1>11. QED BY <1>9, <1>10 DEF cut, rows, m

\* A field of a line, of whatever column its header names.
LEMMA Fields ==
    ASSUME NEW line \in Seq(STRING) \ {<<>>}, NEW column \in Nat
    PROVE  Field(line, column) \in Fieldtext
<1>1. Head(line) \in STRING
      BY HeadTailProperties
<1>2. CASE column # 0 /\ column <= Len(line)
  <2>1. column \in 1..Len(line)
        BY <1>2, LenProperties
  <2>2. line[column] \in STRING
        BY <2>1, ElementOfSeq
  <2>3. QED BY <1>2, <2>2 DEF Field, Fieldtext
<1>3. CASE column = 0
      BY <1>1, <1>3 DEF Field, Fieldtext
<1>4. CASE column # 0 /\ ~ (column <= Len(line))
      BY <1>4 DEF Field, Fieldtext
<1>5. QED BY <1>2, <1>3, <1>4

\* The URLs of a list.
LEMMA Extracted ==
    ASSUME NEW lines \in Seq(Seq(STRING) \ {<<>>})
    PROVE  extract_urls(lines) \in Seq(STRING)
<1> DEFINE L == Seq(STRING) \ {<<>>}
           header == lines # <<>> /\ looks_like_header(Head(lines))
           column == IF header THEN find_url_column(Head(lines)) ELSE 0
           body == IF header THEN Tail(lines) ELSE lines
           urls == [i \in DOMAIN body |-> Field(body[i], column)]
<1>1. lines # <<>> => Head(lines) \in L /\ Tail(lines) \in Seq(L)
      BY HeadTailProperties
<1>2. column \in Nat
  <2>1. CASE header
    <3>1. Head(lines) \in L /\ choose_url_column(Head(lines)) # NoColumn
          BY <1>1, <2>1 DEF looks_like_header
    <3>2. IndexIn(Head(lines), choose_url_column(Head(lines))) \in 1..Len(Head(lines))
          BY <3>1, ColumnFound
    <3>3. IndexIn(Head(lines), choose_url_column(Head(lines))) \in Nat
          BY <3>2
    <3>4. QED BY <2>1, <3>3 DEF find_url_column
  <2>2. CASE ~header
        BY <2>2
  <2>3. QED BY <2>1, <2>2
<1>3. body \in Seq(L)
      BY <1>1
<1>4. extract_urls(lines) = NotBlank(urls)
      BY DEF extract_urls
<1> HIDE DEF header, column, body
<1>5. urls \in Seq(Fieldtext)
  <2>1. DOMAIN body = 1..Len(body) /\ Len(body) \in Nat /\ \A i \in 1..Len(body) : body[i] \in L
        BY <1>3, LenProperties
  <2>2. \A i \in 1..Len(body) : Field(body[i], column) \in Fieldtext
        BY <1>2, <2>1, Fields
  <2>3. urls \in [1..Len(body) -> Fieldtext]
        BY <2>1, <2>2
  <2>4. QED BY <2>1, <2>3, SeqDef
<1>6. QED BY <1>4, <1>5, NotBlankTyped

\* A list is cut if it can be told which column it is and has URLs enough.
LEMMA TextCut ==
    ASSUME NEW lines \in Seq(Seq(STRING) \ {<<>>}),
           NEW count \in Nat \ {0}, NEW n \in Nat \ {0}, NEW offset \in Nat
    PROVE  LET cut == cut_text(lines, count, n, offset)
               urls == extract_urls(lines)
           IN  /\ cut.rc = 0 <=> /\ ~ (lines # <<>> /\ Ambiguous(lines))
                                 /\ Len(urls) >= offset + count * n
               /\ cut.rc = 0 => cut.slices = Windows(urls, count, n, offset)
<1> DEFINE urls == extract_urls(lines)
           left == IF Len(urls) > offset THEN Len(urls) - offset ELSE 0
           whole == left \div count
           written == IF whole < n THEN whole ELSE n
           cut == cut_text(lines, count, n, offset)
<1>1. Len(urls) \in Nat
      BY Extracted, LenProperties
<1>2. cut = IF lines # <<>> /\ Ambiguous(lines) THEN [rc |-> 2, slices |-> <<>>]
            ELSE [rc |-> IF written < n THEN 1 ELSE 0,
                  slices |-> [i \in 1..written |->
                     SubSeq(urls, offset + (i - 1) * count + 1, offset + i * count)]]
      BY DEF cut_text
<1> HIDE DEF cut, urls
<1>3. left \in Nat
      BY <1>1
<1>4. whole \in Nat /\ (whole >= n <=> left >= count * n)
  <2> HIDE DEF left
  <2>1. QED BY <1>3, Divided, PartsFit
<1>5. left >= count * n <=> Len(urls) >= offset + count * n
  <2>1. n \in 1..n
        OBVIOUS
  <2>2. count * n \in Nat \ {0}
        BY <2>1, WindowBounds
  <2>3. QED BY <1>1, <2>2
<1> HIDE DEF whole, left
<1>6. written < n <=> ~ (Len(urls) >= offset + count * n)
      BY <1>4, <1>5
<1>7. ~ (written < n) => written = n
      BY <1>4
<1> HIDE DEF written
<1>8. cut.rc = 0 <=> ~ (lines # <<>> /\ Ambiguous(lines)) /\ Len(urls) >= offset + count * n
      BY <1>2, <1>6
<1>9. ASSUME cut.rc = 0 PROVE cut.slices = Windows(urls, count, n, offset)
  <2>1. /\ written = n
        /\ cut.slices = [i \in 1..written |->
                          SubSeq(urls, offset + (i - 1) * count + 1, offset + i * count)]
        BY <1>2, <1>7, <1>9
  <2>2. QED BY <2>1 DEF Windows
<1>10. QED BY <1>8, <1>9 DEF cut, urls

\* What is cut of a source are windows of its URLs.
LEMMA CutWindows ==
    ASSUME NEW s \in Sources, NEW count \in Nat \ {0}, NEW n \in Nat \ {0}, NEW offset \in Nat,
           slice_urls(s, count, n, offset).rc = 0
    PROVE  /\ UrlsOf(s) \in Seq(STRING) /\ Len(UrlsOf(s)) >= offset + count * n
           /\ slice_urls(s, count, n, offset).slices = Windows(UrlsOf(s), count, n, offset)
<1>1. CASE s.format = "parquet"
  <2>1. IsTable(s) /\ slice_urls(s, count, n, offset) = cut_parquet(s, count, n, offset)
        BY <1>1, TablesAre DEF slice_urls
  <2>2. QED BY <2>1, TableCut
<1>2. CASE s.format # "parquet"
  <2>1. /\ s.lines \in Seq(Seq(STRING) \ {<<>>}) /\ UrlsOf(s) = extract_urls(s.lines)
        /\ slice_urls(s, count, n, offset) = cut_text(s.lines, count, n, offset)
        BY <1>2, TablesAre DEF slice_urls, UrlsOf
  <2>2. UrlsOf(s) \in Seq(STRING)
        BY <2>1, Extracted
  <2>3. QED BY <2>1, <2>2, TextCut
<1>3. QED BY <1>1, <1>2

-----------------------------------------------------------------------------
(* What a configuration asks for. *)

LEMMA ConfigsAre ==
    ASSUME NEW c \in Configs
    PROVE  /\ c.slice \in Nat \ {0} /\ c.sps \in Nat \ {0} /\ c.waves \in Nat \ {0}
           /\ \/ /\ c.kind = "0002" /\ c.levels \in Seq(Nat \ {0})
                 /\ Len(c.levels) \in 1..MaxPhases
              \/ c.kind = "0003" /\ c.total \in Nat \ {0} /\ c.nodes \in Nat \ {0}
BY ConfigsAssumption

\* The phases of a configuration, those of 0003 on as many nodes as it names.
LEMMA PhasesAre ==
    ASSUME NEW c \in Configs
    PROVE  /\ Len(Phases(c)) \in 1..MaxPhases /\ DOMAIN Phases(c) = 1..Len(Phases(c))
           /\ c.kind = "0002" =>
                 /\ Len(Phases(c)) = Len(c.levels)
                 /\ \A i \in 1..Len(c.levels) : /\ Phases(c)[i].nodes = 1
                                                /\ Phases(c)[i].processes = c.levels[i]
                                                /\ Phases(c)[i].urls = c.slice
           /\ c.kind = "0003" =>
                 /\ Len(Phases(c)) = 3
                 /\ \A i \in {1, 3} : /\ Phases(c)[i].nodes = 1
                                      /\ Phases(c)[i].processes = c.total
                                      /\ Phases(c)[i].urls = c.slice
                 /\ Phases(c)[2].nodes = c.nodes
                 /\ Phases(c)[2].processes = c.total \div c.nodes
                 /\ Phases(c)[2].urls = c.slice \div c.nodes
<1>1. CASE c.kind = "0002"
  <2>1. c.levels \in Seq(Nat \ {0}) /\ Len(c.levels) \in 1..MaxPhases
        BY <1>1, ConfigsAre
  <2>2. DOMAIN c.levels = 1..Len(c.levels) /\ Len(c.levels) \in Nat
        BY <2>1, LenProperties
  <2> DEFINE P == [i \in 1..Len(c.levels) |->
                     [nodes |-> 1, processes |-> c.levels[i], urls |-> c.slice]]
  <2>3. Phases(c) = P
        BY <1>1, <2>2 DEF Phases
  <2>4. Len(P) = Len(c.levels)
        BY <2>2
  <2>5. QED BY <1>1, <2>1, <2>2, <2>3, <2>4
<1>2. CASE c.kind = "0003"
  <2>1. Len(Phases(c)) = 3
        BY <1>2 DEF Phases
  <2>2. DOMAIN Phases(c) = 1..3
        BY <1>2 DEF Phases
  <2>3. QED BY <1>2, <2>1, <2>2, BoundsAssumption DEF Phases
<1>3. QED BY <1>1, <1>2, ConfigsAre

\* Equal parts of what a number divides.
LEMMA EqualParts ==
    ASSUME NEW x \in Nat \ {0}, NEW n \in Nat \ {0}, x % n = 0
    PROVE  x \div n \in Nat \ {0} /\ (x \div n) * n = x
OBVIOUS

\* What the plan of 0003 has accepted.
LEMMA Accepted3 ==
    ASSUME NEW c \in Configs, c.kind = "0003", Accepted(c)
    PROVE  LET p == c.total \div c.nodes
               u == c.slice \div c.nodes
           IN  /\ p \in Nat \ {0} /\ p * c.nodes = c.total
               /\ u \in Nat \ {0} /\ u * c.nodes = c.slice
               /\ shard_count(c.slice, c.sps) >= c.waves * c.total
               /\ shard_count(u, c.sps) >= c.waves * p
               /\ shard_count(c.slice, c.sps) * p = shard_count(u, c.sps) * c.total
<1> DEFINE counts == <<1, c.nodes>>
           P == plan_distribution(c.total, c.slice, c.sps, counts)
           p == c.total \div c.nodes
           u == c.slice \div c.nodes
<1>1. c.total \in Nat \ {0} /\ c.nodes \in Nat \ {0} /\ c.slice \in Nat \ {0}
      /\ c.waves \in Nat \ {0} /\ c.sps \in Nat \ {0}
      BY ConfigsAre
<1>2. Uneven(c.total, c.slice, counts) = {} /\ validate_distribution(P, c.waves) = {}
      BY DEF Accepted, plan_experiment_0003
<1>3. c.total % c.nodes = 0 /\ c.slice % c.nodes = 0
  <2>1. c.nodes \in ToSet(counts)
    <3>1. counts[2] = c.nodes /\ 2 \in DOMAIN counts
          OBVIOUS
    <3>2. QED BY <3>1 DEF ToSet
  <2>2. QED BY <1>2, <2>1 DEF Uneven
<1>4. p \in Nat \ {0} /\ p * c.nodes = c.total /\ u \in Nat \ {0} /\ u * c.nodes = c.slice
      BY <1>1, <1>3, EqualParts
<1>5. /\ DOMAIN P = {1, 2}
      /\ P[1] = [nodes |-> 1, processes_per_node |-> c.total \div 1,
                 urls_per_node |-> c.slice \div 1,
                 shards_per_node |-> shard_count(c.slice \div 1, c.sps)]
      /\ P[2] = [nodes |-> c.nodes, processes_per_node |-> p, urls_per_node |-> u,
                 shards_per_node |-> shard_count(u, c.sps)]
      BY DEF plan_distribution
<1>6. c.total \div 1 = c.total /\ c.slice \div 1 = c.slice
      BY <1>1
<1> HIDE DEF P, p, u
<1>7. P[1] \in ToSet(P) /\ P[2] \in ToSet(P)
      BY <1>5 DEF ToSet
<1>8. \A a, b \in ToSet(P) : /\ ~ (a.shards_per_node < c.waves * a.processes_per_node)
                             /\ a.shards_per_node * b.processes_per_node
                                   = b.shards_per_node * a.processes_per_node
      BY <1>2 DEF validate_distribution
<1> DEFINE m == shard_count(c.slice, c.sps) k == shard_count(u, c.sps)
<1>9. /\ ~ (m < c.waves * c.total) /\ ~ (k < c.waves * p) /\ m * p = k * c.total
  <2>1. P[1].shards_per_node = m /\ P[1].processes_per_node = c.total
        /\ P[2].shards_per_node = k /\ P[2].processes_per_node = p
        BY <1>5, <1>6
  <2> HIDE DEF m, k
  <2>2. QED BY <1>7, <1>8, <2>1
<1>10. m \in Int /\ k \in Int
      BY <1>1, <1>4 DEF shard_count
<1> HIDE DEF m, k
<1>11. m >= c.waves * c.total /\ k >= c.waves * p
      BY <1>1, <1>4, <1>9, <1>10
<1>12. QED BY <1>4, <1>9, <1>11 DEF m, k, p, u

\* What the plan of 0002 has accepted, for each of its levels.
LEMMA Accepted2 ==
    ASSUME NEW c \in Configs, c.kind = "0002", Accepted(c), NEW i \in 1..Len(c.levels)
    PROVE  shard_count(c.slice, c.sps) >= c.waves * c.levels[i]
<1> DEFINE P == plan(c.slice, c.sps, c.levels)
           m == shard_count(c.slice, c.sps)
           r == c.levels[i]
<1>1. /\ c.slice \in Nat \ {0} /\ c.waves \in Nat \ {0} /\ c.sps \in Nat \ {0}
      /\ c.levels \in Seq(Nat \ {0})
      BY ConfigsAre
<1>2. r \in Nat \ {0} /\ i \in DOMAIN c.levels
      BY <1>1, ElementOfSeq, LenProperties
<1>3. validate(P, c.waves) = {}
      BY DEF Accepted, plan_experiment_0002
<1>4. m \in Int
      BY <1>1 DEF shard_count
<1>5. P[i] = [requested |-> r, shards |-> m, effective |-> effective_processes(r, m)]
      /\ i \in DOMAIN P
      BY <1>2 DEF plan
<1> HIDE DEF P, m, r
<1>6. P[i] \in ToSet(P)
      BY <1>5 DEF ToSet
<1>7. ~ (P[i].effective < P[i].requested) /\ ~ (P[i].shards < c.waves * P[i].effective)
      BY <1>3, <1>6 DEF validate
<1>8. ~ (effective_processes(r, m) < r) /\ ~ (m < c.waves * effective_processes(r, m))
      BY <1>5, <1>7
<1>9. effective_processes(r, m) = r
      BY <1>2, <1>4, <1>8 DEF effective_processes
<1>10. m >= c.waves * r
      BY <1>1, <1>2, <1>4, <1>8, <1>9
<1>11. QED BY <1>10 DEF m, r

LEMMA Multiples ==
    ASSUME NEW x \in Nat, NEW d \in Nat \ {0}
    PROVE  (x * d) % d = 0
OBVIOUS

\* img2dataset makes as many shards as the plans count.
LEMMA ShardsCounted ==
    ASSUME NEW node, node.urls \in Seq(STRING), NEW sps \in Nat \ {0}
    PROVE  /\ Shards(node, sps) = shard_count(Len(node.urls), sps)
           /\ Shards(node, sps) \in Nat
           /\ Len(node.urls) > 0 => Shards(node, sps) > 0
           /\ \A j \in 1..Shards(node, sps) : (j - 1) * sps < Len(node.urls)
<1> DEFINE L == Len(node.urls)
           m == (L + sps - 1) \div sps
           D == {j \in DOMAIN node.urls : (j - 1) % sps = 0}
           f == [i \in 1..m |-> (i - 1) * sps + 1]
<1>1. L \in Nat /\ DOMAIN node.urls = 1..L
      BY LenProperties
<1> HIDE DEF L
<1>2. L + sps - 1 \in Nat
      BY <1>1
<1>3. m \in Nat /\ \A i \in Nat : m >= i <=> L + sps - 1 >= sps * i
  <2> DEFINE x == L + sps - 1
  <2> HIDE DEF x
  <2>1. x \in Nat
        BY <1>2 DEF x
  <2>2. x \div sps \in Nat /\ \A i \in Nat : x \div sps >= i <=> x >= sps * i
        BY <2>1, Divided, PartsFit
  <2>3. QED BY <2>2 DEF x
<1> HIDE DEF m
<1>4. ASSUME NEW i \in 1..m PROVE (i - 1) * sps \in Nat /\ (i - 1) * sps < L
  <2>1. L + sps - 1 >= sps * i
    <3>1. i \in Nat /\ m >= i
          BY <1>3
    <3>2. m >= i <=> L + sps - 1 >= sps * i
          BY <1>3, <3>1
    <3>3. QED BY <3>1, <3>2
  <2>2. sps * i = (i - 1) * sps + sps /\ (i - 1) * sps \in Nat
    <3>1. i - 1 \in Nat /\ i = i - 1 + 1
          OBVIOUS
    <3> DEFINE k == i - 1
    <3>2. k \in Nat /\ i = k + 1
          BY <3>1
    <3> HIDE DEF k
    <3>3. sps * i = k * sps + sps /\ k * sps \in Nat
          BY <3>2
    <3>4. QED BY <3>3 DEF k
  <2>3. QED BY <1>1, <2>1, <2>2
<1>5. ASSUME NEW i \in 1..m PROVE f[i] \in D
  <2> DEFINE a == (i - 1) * sps
  <2>1. f[i] = a + 1 /\ a \in Nat /\ a < L
        BY <1>4
  <2>2. a % sps = 0
    <3>1. i - 1 \in Nat
          OBVIOUS
    <3>2. QED BY <3>1, Multiples
  <2> HIDE DEF a, f
  <2>3. a + 1 \in 1..L /\ a + 1 - 1 = a
        BY <1>1, <2>1
  <2>4. QED BY <1>1, <2>1, <2>2, <2>3
<1>6. ASSUME NEW j \in D PROVE \E i \in 1..m : f[i] = j
  <2> DEFINE q == (j - 1) \div sps
  <2>1. j - 1 \in Nat /\ j <= L /\ (j - 1) % sps = 0
        BY <1>1
  <2>2. q \in Nat /\ q * sps = j - 1
        BY <2>1
  <2> DEFINE k == q + 1
  <2>3. k \in Nat \ {0} /\ k - 1 = q
        BY <2>2
  <2> HIDE DEF k, q
  <2>4. sps * k = (k - 1) * sps + sps
        BY <2>3
  <2>5. L + sps - 1 >= sps * k
        BY <1>1, <2>1, <2>2, <2>3, <2>4
  <2>6. k \in 1..m
        BY <1>3, <2>3, <2>5
  <2>7. f[k] = j
        BY <2>1, <2>2, <2>3, <2>6
  <2>8. QED BY <2>6, <2>7
<1>7. ASSUME NEW i \in 1..m, NEW k \in 1..m, f[i] = f[k] PROVE i = k
  <2>1. (i - 1) * sps = (k - 1) * sps
    <3>1. (i - 1) * sps \in Nat /\ (k - 1) * sps \in Nat
          BY <1>4
    <3>2. QED BY <1>7, <3>1
  <2>2. QED BY <1>3, <2>1
<1>8. f \in Bijection(1..m, D)
  <2>1. f \in [1..m -> D]
        BY <1>5
  <2> HIDE DEF f, D
  <2>2. f \in Injection(1..m, D)
        BY <1>7, <2>1 DEF Injection, IsInjective
  <2>3. f \in Surjection(1..m, D)
        BY <1>6, <2>1 DEF Surjection
  <2>4. QED BY <2>2, <2>3 DEF Bijection
<1>9. IsFiniteSet(1..m) /\ Cardinality(1..m) = m
      BY <1>3, FS_Interval
<1>10. Cardinality(D) = m
  <2> HIDE DEF f, D
  <2>1. QED BY <1>8, <1>9, FS_Bijection DEF ExistsBijection
<1>11. Shards(node, sps) = m
      BY <1>10 DEF Shards
<1>12. m = shard_count(L, sps)
      BY DEF shard_count, m
<1>13. L > 0 => m > 0
  <2>1. sps * 1 = sps
        OBVIOUS
  <2>2. 1 \in Nat /\ (m >= 1 <=> L + sps - 1 >= sps * 1)
        BY <1>3
  <2>3. QED BY <1>1, <1>3, <2>1, <2>2
<1>14. QED BY <1>3, <1>4, <1>11, <1>12, <1>13 DEF L

\* What the nodes of each phase are to get, and that there is enough for it.
CutsOf(c) == [i \in DOMAIN Phases(c) |->
                IF c.kind = "0002" THEN <<Cut(c, 1).slices[i]>> ELSE Cut(c, i).slices]
CutsMade(c, n) == \A i \in 1..n : Cut(c, i).rc = 0

\* Where what a node of a phase gets begins.
First(c, i, k) == Offset(c, i) + (k - 1) * Phases(c)[i].urls

\* What is cut for the nodes of a phase are windows of the URLs of the source.
LEMMA CutsAre ==
    ASSUME source \in Sources, NEW c \in Configs, Accepted(c),
           CutsMade(c, Len(Phases(c))), NEW i \in 1..Len(Phases(c))
    PROVE  /\ UrlsOf(source) \in Seq(STRING)
           /\ Phases(c)[i].urls \in Nat \ {0} /\ Phases(c)[i].nodes \in Nat \ {0}
           /\ \A k \in 1..Phases(c)[i].nodes :
                 /\ CutsOf(c)[i][k] \in Seq(STRING)
                 /\ IsWindow(CutsOf(c)[i][k], UrlsOf(source), Phases(c)[i].urls, First(c, i, k))
<1> DEFINE U == UrlsOf(source) P == Phases(c)
<1>1. /\ c.slice \in Nat \ {0} /\ c.sps \in Nat \ {0} /\ c.waves \in Nat \ {0}
      /\ Len(P) \in 1..MaxPhases /\ DOMAIN P = 1..Len(P)
      BY ConfigsAre, PhasesAre
<1> HIDE DEF U, P
<1>2. CASE c.kind = "0002"
  <2>1. /\ c.levels \in Seq(Nat \ {0}) /\ Len(c.levels) \in Nat \ {0}
        /\ i \in 1..Len(c.levels) /\ P[i].nodes = 1 /\ P[i].urls = c.slice
        BY <1>2, ConfigsAre, PhasesAre, BoundsAssumption DEF P
  <2> DEFINE n == Len(c.levels) W == Windows(U, c.slice, n, 0)
  <2>2. Cut(c, 1).rc = 0
        BY <1>1, BoundsAssumption DEF CutsMade, P
  <2>3. Cut(c, 1) = slice_urls(source, c.slice, n, 0)
        BY <1>2 DEF Cut
  <2>4. U \in Seq(STRING) /\ Len(U) >= 0 + c.slice * n /\ Cut(c, 1).slices = W
    <3>1. slice_urls(source, c.slice, n, 0).rc = 0
          BY <2>2, <2>3
    <3>2. c.slice \in Nat \ {0} /\ n \in Nat \ {0} /\ 0 \in Nat
          BY <1>1, <2>1
    <3> HIDE DEF n
    <3>3. QED BY <2>3, <3>1, <3>2, CutWindows DEF U
  <2>5. W[i] \in Seq(STRING) /\ IsWindow(W[i], U, c.slice, 0 + (i - 1) * c.slice)
    <3> HIDE DEF n, W
    <3>1. n \in Nat \ {0} /\ i \in 1..n /\ 0 \in Nat
          BY <2>1 DEF n
    <3>2. QED BY <1>1, <2>4, <3>1, WindowIs DEF W
  <2>6. CutsOf(c)[i] = <<W[i]>>
        BY <1>1, <1>2, <2>4 DEF CutsOf, P
  <2>7. First(c, i, 1) = 0 + (i - 1) * c.slice
        BY <1>1, <2>1 DEF First, Offset, P
  <2> HIDE DEF W
  <2>8. QED BY <1>1, <2>1, <2>4, <2>5, <2>6, <2>7 DEF U, P
<1>3. CASE c.kind = "0003"
  <2> DEFINE n == P[i].nodes u == P[i].urls o == Offset(c, i) W == Windows(U, u, n, o)
  <2>1. n \in Nat \ {0} /\ u \in Nat \ {0}
    <3>1. i \in {1, 2, 3} /\ c.nodes \in Nat \ {0}
      <4>1. Len(Phases(c)) = 3
            BY <1>3, PhasesAre
      <4>2. QED BY <1>3, <4>1, ConfigsAre
    <3>2. c.slice \div c.nodes \in Nat \ {0}
          BY <1>3, Accepted3
    <3>3. QED BY <1>1, <1>3, <3>1, <3>2, PhasesAre DEF P
  <2>2. o \in Nat
        BY <1>1 DEF Offset, P
  <2>3. Cut(c, i) = slice_urls(source, u, n, o) /\ Cut(c, i).rc = 0
        BY <1>3 DEF Cut, CutsMade, P
  <2>4. CutsOf(c)[i] = Cut(c, i).slices
        BY <1>1, <1>3 DEF CutsOf, P
  <2>5. U \in Seq(STRING) /\ Len(U) >= o + u * n /\ CutsOf(c)[i] = W
    <3> HIDE DEF n, u, o
    <3>1. slice_urls(source, u, n, o).rc = 0
          BY <2>3
    <3>2. QED BY <2>1, <2>2, <2>3, <2>4, <3>1, CutWindows DEF U
  <2>6. ASSUME NEW k \in 1..n
        PROVE  W[k] \in Seq(STRING) /\ IsWindow(W[k], U, u, o + (k - 1) * u)
    <3> HIDE DEF n, u, o
    <3>1. QED BY <2>1, <2>2, <2>5, WindowIs
  <2>7. \A k \in 1..n : First(c, i, k) = o + (k - 1) * u
        BY DEF First, P
  <2> HIDE DEF W
  <2>8. QED BY <2>1, <2>5, <2>6, <2>7 DEF U, P
<1>4. QED BY <1>2, <1>3, ConfigsAre

\* Every process has its waves of shards, as many on one node as on several.
LEMMA ShardsEnough ==
    ASSUME NEW c \in Configs, Accepted(c), NEW i \in 1..Len(Phases(c))
    PROVE  /\ Phases(c)[i].processes \in Nat \ {0}
           /\ shard_count(Phases(c)[i].urls, c.sps) >= c.waves * Phases(c)[i].processes
           /\ c.kind = "0003" =>
                 \A j \in 1..Len(Phases(c)) :
                    shard_count(Phases(c)[i].urls, c.sps) * Phases(c)[j].processes
                       = shard_count(Phases(c)[j].urls, c.sps) * Phases(c)[i].processes
<1>1. CASE c.kind = "0002"
  <2>1. /\ c.levels \in Seq(Nat \ {0}) /\ i \in 1..Len(c.levels)
        /\ Phases(c)[i].processes = c.levels[i] /\ Phases(c)[i].urls = c.slice
        BY <1>1, ConfigsAre, PhasesAre
  <2>2. c.levels[i] \in Nat \ {0}
        BY <2>1, ElementOfSeq
  <2>3. shard_count(c.slice, c.sps) >= c.waves * c.levels[i]
        BY <1>1, <2>1, Accepted2
  <2>4. QED BY <1>1, <2>1, <2>2, <2>3
<1>2. CASE c.kind = "0003"
  <2> DEFINE p == c.total \div c.nodes u == c.slice \div c.nodes
             m == shard_count(c.slice, c.sps) k == shard_count(u, c.sps)
  <2>1. /\ p \in Nat \ {0} /\ m >= c.waves * c.total /\ k >= c.waves * p
        /\ m * p = k * c.total /\ c.total \in Nat \ {0}
        BY <1>2, Accepted3, ConfigsAre
  <2>2. \A j \in 1..Len(Phases(c)) :
           \/ Phases(c)[j].processes = c.total /\ Phases(c)[j].urls = c.slice
           \/ Phases(c)[j].processes = p /\ Phases(c)[j].urls = u
    <3>1. \A j \in 1..Len(Phases(c)) : j \in {1, 2, 3}
          BY <1>2, PhasesAre
    <3>2. QED BY <1>2, <3>1, PhasesAre
  <2> DEFINE s(j) == shard_count(Phases(c)[j].urls, c.sps)
  <2>3. \A j \in 1..Len(Phases(c)) :
           \/ Phases(c)[j].processes = c.total /\ s(j) = m
           \/ Phases(c)[j].processes = p /\ s(j) = k
        BY <2>2
  <2> HIDE DEF p, m, k, s
  <2>4. Phases(c)[i].processes \in Nat \ {0} /\ s(i) >= c.waves * Phases(c)[i].processes
        BY <2>1, <2>3
  <2>5. \A j \in 1..Len(Phases(c)) : s(i) * Phases(c)[j].processes = s(j) * Phases(c)[i].processes
        BY <2>1, <2>3
  <2>6. QED BY <1>2, <2>4, <2>5 DEF s
<1>3. QED BY <1>1, <1>2, ConfigsAre

-----------------------------------------------------------------------------
(* The invariant *)

TypeOK ==
    /\ source \in Sources /\ config \in Configs
    /\ pc \in {"login", "archive", "slice", "start", "run"}
    /\ phase \in 0..MaxPhases
    /\ submits \in Nat
    /\ dirs \in [1..MaxPhases -> Dir \cup {None}]

\* Before the first job there is nothing.
NothingYet == submits = 0 => pc = "login" /\ Present = {} /\ slices = <<>>

\* A job is at work on what its plan accepted, and has made its cuts in order.
JobSliced ==
    /\ pc # "login" => Accepted(config)
    /\ pc = "slice" => \E n \in 0..Len(Phases(config)) :
                          slices = [i \in 1..n |-> CutsOf(config)[i]] /\ CutsMade(config, n)
    /\ pc \in {"start", "run"} => /\ slices = CutsOf(config)
                                  /\ CutsMade(config, Len(Phases(config)))

\* The directories are of one attempt, of this one once it has sliced.
OneAttempt ==
    /\ \A p, q \in Present : dirs[p].attempt = dirs[q].attempt
    /\ pc = "slice" => Present = {}
    /\ pc \in {"start", "run"} => \A p \in Present : dirs[p].attempt = submits

\* The phases there are were run as c asks for them.
Staged(c) ==
    \A p \in Present :
       /\ p \in DOMAIN Phases(c)
       /\ dirs[p].processes = Phases(c)[p].processes /\ dirs[p].sps = c.sps
       /\ \A k \in DOMAIN dirs[p].nodes :
             k <= Phases(c)[p].nodes /\ dirs[p].nodes[k].urls = CutsOf(c)[p][k]

StagedByOne ==
    /\ Present # {} => \E c \in Configs : /\ c.kind = config.kind /\ Accepted(c)
                                          /\ CutsMade(c, Len(Phases(c))) /\ Staged(c)
    /\ pc \in {"start", "run"} => Staged(config)

\* The phase a job is at is the last that has a directory.
InPhase ==
    /\ pc \in {"archive", "slice"} => phase = 1
    /\ pc \in {"start", "run"} => phase \in DOMAIN Phases(config) /\ Present \subseteq 1..phase
    /\ pc = "start" /\ phase \in Present =>
          Len(dirs[phase].nodes) < Phases(config)[phase].nodes
    /\ pc = "run" => /\ phase \in Present
                     /\ Len(dirs[phase].nodes) = Phases(config)[phase].nodes

\* No level of 0002 is left out, and none is put aside.
LevelsInOrder ==
    config.kind = "0002" =>
       /\ pc # "archive"
       /\ \E m \in 0..MaxPhases : Present = 1..m
       /\ pc \in {"start", "run"} => 1..phase - 1 \subseteq Present

\* A node has reported no more shards than it has, and not all while it runs.
ShardsLeft ==
    \A p \in Present : \A k \in DOMAIN dirs[p].nodes :
       LET n == dirs[p].nodes[k]
       IN  /\ n.done <= Shards(n, dirs[p].sps)
           /\ n.state = "running" => n.done < Shards(n, dirs[p].sps)

IInv == /\ TypeOK /\ NothingYet /\ JobSliced /\ OneAttempt /\ StagedByOne /\ InPhase
        /\ LevelsInOrder /\ ShardsLeft

-----------------------------------------------------------------------------
(* Every step keeps it. *)

\* What was cut does not change with the job's state.
LEMMA CutsStay ==
    ASSUME source' = source, NEW c
    PROVE  /\ CutsOf(c)' = CutsOf(c) /\ \A n : CutsMade(c, n)' <=> CutsMade(c, n)
           /\ \A i : Cut(c, i)' = Cut(c, i)
BY DEF CutsOf, CutsMade, Cut

\* The phases and their nodes stay what they are: at most a node reports its
\* next shard, or stops.
NodeGoesOn(n, m, sps) ==
    /\ m.urls = n.urls
    /\ \/ m.done = n.done /\ (m.state = "running" => n.state = "running")
       \/ /\ n.state = "running" /\ m.done = n.done + 1
          /\ m.state = "running" => m.done # Shards(n, sps)

DirGoesOn(d, e) ==
    /\ e.attempt = d.attempt /\ e.processes = d.processes /\ e.sps = d.sps
    /\ Len(e.nodes) = Len(d.nodes)
    /\ \A k \in DOMAIN d.nodes : NodeGoesOn(d.nodes[k], e.nodes[k], d.sps)

GoesOn(ds, es) ==
    /\ es \in [1..MaxPhases -> Dir \cup {None}]
    /\ \A p \in 1..MaxPhases : /\ es[p] = None <=> ds[p] = None
                               /\ ds[p] # None => DirGoesOn(ds[p], es[p])

\* What is to be kept of the directories alone.
DirsOK == /\ \A p, q \in Present : dirs[p].attempt = dirs[q].attempt
          /\ ShardsLeft

LEMMA Directories ==
    ASSUME TypeOK
    PROVE  /\ DOMAIN dirs = 1..MaxPhases /\ Present \subseteq 1..MaxPhases
           /\ MaxPhases \in Nat
           /\ \A p \in Present : /\ dirs[p] \in Dir /\ dirs[p].nodes \in Seq(Node)
                                 /\ DOMAIN dirs[p].nodes = 1..Len(dirs[p].nodes)
                                 /\ Len(dirs[p].nodes) \in Nat
                                 /\ \A k \in DOMAIN dirs[p].nodes : dirs[p].nodes[k] \in Node
<1>1. DOMAIN dirs = 1..MaxPhases /\ Present \subseteq 1..MaxPhases
      BY DEF TypeOK, Present
<1>2. ASSUME NEW p \in Present
      PROVE  /\ dirs[p] \in Dir /\ dirs[p].nodes \in Seq(Node)
             /\ DOMAIN dirs[p].nodes = 1..Len(dirs[p].nodes) /\ Len(dirs[p].nodes) \in Nat
             /\ \A k \in DOMAIN dirs[p].nodes : dirs[p].nodes[k] \in Node
  <2>1. dirs[p] \in Dir
        BY DEF TypeOK, Present
  <2> DEFINE ns == dirs[p].nodes
  <2>2. ns \in Seq(Node)
        BY <2>1 DEF Dir
  <2> HIDE DEF ns
  <2>3. DOMAIN ns = 1..Len(ns) /\ Len(ns) \in Nat /\ \A k \in DOMAIN ns : ns[k] \in Node
        BY <2>2, LenProperties
  <2>4. QED BY <2>1, <2>2, <2>3 DEF ns
<1>3. QED BY <1>1, <1>2, BoundsAssumption

LEMMA GoesOnKeeps ==
    ASSUME TypeOK, GoesOn(dirs, dirs'), source' = source
    PROVE  /\ Present' = Present
           /\ DirsOK => DirsOK'
           /\ \A c : Staged(c) => Staged(c)'
           /\ \A p \in Present : /\ dirs'[p].attempt = dirs[p].attempt
                                 /\ Len(dirs'[p].nodes) = Len(dirs[p].nodes)
<1>1. /\ DOMAIN dirs = 1..MaxPhases /\ DOMAIN dirs' = 1..MaxPhases
      /\ Present' = Present
      BY Directories DEF GoesOn, Present
<1>2. ASSUME NEW p \in Present
      PROVE  /\ DirGoesOn(dirs[p], dirs'[p]) /\ dirs'[p] \in Dir
             /\ DOMAIN dirs'[p].nodes = DOMAIN dirs[p].nodes
             /\ \A k \in DOMAIN dirs[p].nodes : dirs[p].nodes[k] \in Node
  <2>1. p \in 1..MaxPhases /\ dirs[p] # None
        BY <1>1 DEF Present
  <2>2. DirGoesOn(dirs[p], dirs'[p]) /\ dirs'[p] \in Dir
        BY <2>1 DEF GoesOn
  <2>3. dirs'[p].nodes \in Seq(Node)
        BY <2>2 DEF Dir
  <2>4. DOMAIN dirs'[p].nodes = 1..Len(dirs'[p].nodes)
        BY <2>3, LenProperties
  <2>5. DOMAIN dirs[p].nodes = 1..Len(dirs[p].nodes)
        /\ \A k \in DOMAIN dirs[p].nodes : dirs[p].nodes[k] \in Node
        BY Directories
  <2>6. QED BY <2>2, <2>4, <2>5 DEF DirGoesOn
<1>3. ASSUME NEW c, Staged(c) PROVE Staged(c)'
  <2>1. ASSUME NEW p \in Present
        PROVE  /\ p \in DOMAIN Phases(c)
               /\ dirs'[p].processes = Phases(c)[p].processes /\ dirs'[p].sps = c.sps
               /\ \A k \in DOMAIN dirs'[p].nodes :
                     k <= Phases(c)[p].nodes /\ dirs'[p].nodes[k].urls = CutsOf(c)[p][k]
    <3>1. /\ p \in DOMAIN Phases(c)
          /\ dirs[p].processes = Phases(c)[p].processes /\ dirs[p].sps = c.sps
          /\ \A k \in DOMAIN dirs[p].nodes :
                k <= Phases(c)[p].nodes /\ dirs[p].nodes[k].urls = CutsOf(c)[p][k]
          BY <1>3 DEF Staged
    <3>2. \A k \in DOMAIN dirs[p].nodes : dirs'[p].nodes[k].urls = dirs[p].nodes[k].urls
          BY <1>2 DEF DirGoesOn, NodeGoesOn
    <3>3. QED BY <1>2, <3>1, <3>2 DEF DirGoesOn
  <2>2. CutsOf(c)' = CutsOf(c)
        BY CutsStay
  <2>3. QED BY <1>1, <2>1, <2>2 DEF Staged
<1>4. ASSUME DirsOK PROVE DirsOK'
  <2>1. ASSUME NEW p \in Present, NEW k \in DOMAIN dirs[p].nodes
        PROVE  LET m == dirs'[p].nodes[k]
               IN  /\ m.done <= Shards(m, dirs'[p].sps)
                   /\ m.state = "running" => m.done < Shards(m, dirs'[p].sps)
    <3> DEFINE n == dirs[p].nodes[k] m == dirs'[p].nodes[k] t == Shards(n, dirs[p].sps)
    <3>1. n.done <= t /\ (n.state = "running" => n.done < t)
          BY <1>4, <2>1 DEF DirsOK, ShardsLeft
    <3>2. NodeGoesOn(n, m, dirs[p].sps) /\ dirs'[p].sps = dirs[p].sps
          BY <1>2, <2>1 DEF DirGoesOn
    <3>3. Shards(m, dirs'[p].sps) = t
          BY <3>2 DEF Shards, NodeGoesOn
    <3>4. n.done \in Nat /\ t \in Nat
      <4>1. n \in Node /\ dirs[p] \in Dir
            BY <1>2, <2>1, Directories
      <4>2. n.urls \in Seq(STRING) /\ n.done \in Nat
            BY <4>1 DEF Node
      <4>3. t = Cardinality({j \in DOMAIN n.urls : (j - 1) % dirs[p].sps = 0})
            BY DEF Shards
      <4>4. IsFiniteSet(DOMAIN n.urls)
        <5>1. DOMAIN n.urls = 1..Len(n.urls) /\ Len(n.urls) \in Nat
              BY <4>2, LenProperties
        <5>2. QED BY <5>1, FS_Interval
      <4>5. QED BY <4>2, <4>3, <4>4, FS_Subset, FS_CardinalityType
    <3> HIDE DEF n, m, t
    <3>5. m.done <= t /\ (m.state = "running" => m.done < t)
          BY <3>1, <3>2, <3>4 DEF NodeGoesOn, t
    <3>6. QED BY <3>3, <3>5 DEF m
  <2>2. ShardsLeft'
        BY <1>1, <1>2, <2>1 DEF ShardsLeft
  <2>3. \A p, q \in Present : dirs'[p].attempt = dirs'[q].attempt
        BY <1>2, <1>4 DEF DirsOK, DirGoesOn
  <2>4. QED BY <1>1, <2>2, <2>3 DEF DirsOK
<1>5. QED BY <1>1, <1>2, <1>3, <1>4 DEF DirGoesOn

\* A node that stops where it is, and all of a job that do.
LEMMA LostGoesOn ==
    ASSUME NEW d \in Dir
    PROVE  Lost(d) \in Dir /\ DirGoesOn(d, Lost(d)) /\ Lost(d) # None
<1> DEFINE ns == d.nodes
           L == [k \in DOMAIN ns |-> [ns[k] EXCEPT !.state = IF @ = "running" THEN "lost" ELSE @]]
<1>1. ns \in Seq(Node) /\ Lost(d) = [d EXCEPT !.nodes = L]
  <2>1. ns \in Seq(Node)
        BY DEF Dir
  <2>2. Lost(d) = [d EXCEPT !.nodes = L]
        BY DEF Lost
  <2>3. QED BY <2>1, <2>2
<1>2. DOMAIN ns = 1..Len(ns) /\ Len(ns) \in Nat /\ \A k \in DOMAIN ns : ns[k] \in Node
  <2> HIDE DEF ns
  <2>1. QED BY <1>1, LenProperties
<1> HIDE DEF ns
<1>3. \A k \in DOMAIN ns : L[k] \in Node /\ NodeGoesOn(ns[k], L[k], d.sps)
  <2>1. ASSUME NEW k \in DOMAIN ns PROVE L[k] \in Node /\ NodeGoesOn(ns[k], L[k], d.sps)
    <3> DEFINE n == ns[k]
    <3>1. L[k] = [n EXCEPT !.state = IF n.state = "running" THEN "lost" ELSE n.state]
          OBVIOUS
    <3>2. n \in Node
          BY <1>2
    <3> HIDE DEF n, L
    <3>3. L[k] \in Node /\ L[k].urls = n.urls /\ L[k].done = n.done
          /\ (L[k].state = "running" => n.state = "running")
          BY <3>1, <3>2 DEF Node
    <3>4. QED BY <3>3 DEF NodeGoesOn, n
  <2>2. QED BY <2>1
<1>4. L \in Seq(Node) /\ Len(L) = Len(ns)
  <2>1. L \in [1..Len(ns) -> Node]
        BY <1>2, <1>3
  <2> HIDE DEF L
  <2>2. L \in Seq(Node)
        BY <1>2, <2>1, SeqDef
  <2>3. DOMAIN L = 1..Len(ns) /\ DOMAIN L = 1..Len(L) /\ Len(L) \in Nat
        BY <2>1, <2>2, LenProperties
  <2>4. QED BY <1>2, <2>2, <2>3
<1> HIDE DEF L
<1>5. Lost(d) \in Dir
      BY <1>1, <1>4 DEF Dir
<1>6. Lost(d).attempt = d.attempt /\ Lost(d).processes = d.processes /\ Lost(d).sps = d.sps
      /\ Lost(d).nodes = L
      BY <1>1 DEF Dir
<1>7. DirGoesOn(d, Lost(d))
      BY <1>3, <1>4, <1>6 DEF DirGoesOn, ns
<1>8. QED BY <1>5, <1>7, NoneAssumption

\* A directory that stays as it is.
LEMMA StaysGoesOn ==
    ASSUME NEW d, NEW e, e.attempt = d.attempt, e.processes = d.processes, e.sps = d.sps,
           e.nodes = d.nodes
    PROVE  DirGoesOn(d, e)
BY DEF DirGoesOn, NodeGoesOn

LEMMA AllStopGoesOn ==
    ASSUME NEW ds \in [1..MaxPhases -> Dir \cup {None}]
    PROVE  GoesOn(ds, StopAll(ds))
<1>1. ASSUME NEW p \in 1..MaxPhases
      PROVE  /\ StopAll(ds)[p] \in Dir \cup {None}
             /\ StopAll(ds)[p] = None <=> ds[p] = None
             /\ ds[p] # None => DirGoesOn(ds[p], StopAll(ds)[p])
  <2>1. StopAll(ds)[p] = IF ds[p] = None THEN None ELSE Lost(ds[p])
        BY DEF StopAll
  <2>2. ds[p] # None => ds[p] \in Dir
        OBVIOUS
  <2>3. QED BY <2>1, <2>2, LostGoesOn
<1>2. StopAll(ds) \in [1..MaxPhases -> Dir \cup {None}]
  <2>1. StopAll(ds) = [p \in 1..MaxPhases |-> StopAll(ds)[p]]
        BY DEF StopAll
  <2>2. QED BY <1>1, <2>1
<1>3. QED BY <1>1, <1>2 DEF GoesOn

LEMMA NothingGoesOn ==
    ASSUME NEW ds \in [1..MaxPhases -> Dir \cup {None}]
    PROVE  GoesOn(ds, ds)
BY StaysGoesOn DEF GoesOn

LEMMA OneGoesOn ==
    ASSUME NEW ds \in [1..MaxPhases -> Dir \cup {None}], NEW p \in 1..MaxPhases, ds[p] # None,
           NEW e \in Dir, DirGoesOn(ds[p], e)
    PROVE  GoesOn(ds, [ds EXCEPT ![p] = e])
<1> DEFINE es == [ds EXCEPT ![p] = e]
<1>1. es \in [1..MaxPhases -> Dir \cup {None}] /\ es[p] = e
      /\ \A q \in 1..MaxPhases : q # p => es[q] = ds[q]
      OBVIOUS
<1> HIDE DEF es
<1>2. \A q \in 1..MaxPhases : /\ es[q] = None <=> ds[q] = None
                              /\ ds[q] # None => DirGoesOn(ds[q], es[q])
      BY <1>1, StaysGoesOn, NoneAssumption
<1>3. QED BY <1>1, <1>2 DEF GoesOn, es

\* Directories that tell the same of their nodes.
SamePhases(ds, es) ==
    /\ es \in [1..MaxPhases -> Dir \cup {None}]
    /\ \A p \in 1..MaxPhases :
          /\ es[p] = None <=> ds[p] = None
          /\ ds[p] # None => /\ es[p].attempt = ds[p].attempt
                             /\ es[p].processes = ds[p].processes
                             /\ es[p].sps = ds[p].sps /\ es[p].nodes = ds[p].nodes

LEMMA SameGoesOn ==
    ASSUME NEW ds \in [1..MaxPhases -> Dir \cup {None}], NEW es, SamePhases(ds, es),
           NEW fs, GoesOn(es, fs)
    PROVE  GoesOn(ds, fs)
BY DEF GoesOn, DirGoesOn, SamePhases

\* A node of a phase that goes on, and the others stay.
LEMMA OneNodeGoesOn ==
    ASSUME NEW d \in Dir, NEW k \in DOMAIN d.nodes, NEW m \in Node,
           NodeGoesOn(d.nodes[k], m, d.sps)
    PROVE  /\ [d EXCEPT !.nodes[k] = m] \in Dir
           /\ DirGoesOn(d, [d EXCEPT !.nodes[k] = m])
<1> DEFINE ns == d.nodes e == [d EXCEPT !.nodes[k] = m] ms == [ns EXCEPT ![k] = m]
<1>1. ns \in Seq(Node) /\ e = [d EXCEPT !.nodes = ms]
      BY DEF Dir
<1>2. ms \in Seq(Node) /\ Len(ms) = Len(ns)
      /\ \A j \in DOMAIN ns : ms[j] = IF j = k THEN m ELSE ns[j]
  <2>1. DOMAIN ns = 1..Len(ns) /\ k \in 1..Len(ns)
    <3>1. k \in DOMAIN ns
          OBVIOUS
    <3> HIDE DEF ns
    <3>2. QED BY <1>1, <3>1, LenProperties
  <2> HIDE DEF ns
  <2>2. QED BY <1>1, <2>1, ExceptSeq
<1>3. NodeGoesOn(ns[k], m, d.sps) /\ k \in DOMAIN ns
      OBVIOUS
<1> HIDE DEF ns, ms
<1>4. \A j \in DOMAIN ns : NodeGoesOn(ns[j], ms[j], d.sps)
      BY <1>2, <1>3 DEF NodeGoesOn
<1>5. e \in Dir /\ e.attempt = d.attempt /\ e.processes = d.processes /\ e.sps = d.sps
      /\ e.nodes = ms
      BY <1>1, <1>2 DEF Dir
<1>6. DirGoesOn(d, e)
      BY <1>2, <1>4, <1>5 DEF DirGoesOn, ns
<1>7. QED BY <1>5, <1>6

LEMMA Begun ==
    ASSUME Init
    PROVE  IInv
<1>1. /\ source \in Sources /\ config \in Configs /\ pc = "login" /\ phase = 0
      /\ slices = <<>> /\ submits = 0 /\ dirs = [p \in 1..MaxPhases |-> None]
      BY DEF Init
<1>2. Present = {}
      BY <1>1 DEF Present
<1>3. TypeOK
      BY <1>1, BoundsAssumption DEF TypeOK
<1>4. LevelsInOrder
  <2>1. 0 \in 0..MaxPhases /\ 1..0 = {}
        BY BoundsAssumption
  <2>2. QED BY <1>1, <1>2, <2>1 DEF LevelsInOrder
<1>5. QED BY <1>1, <1>2, <1>3, <1>4 DEF IInv, NothingYet, JobSliced, OneAttempt, StagedByOne,
         InPhase, ShardsLeft

\* A step that leaves the directories alone.
LEMMA DirsStay ==
    ASSUME TypeOK, UNCHANGED dirs, UNCHANGED source
    PROVE  /\ Present' = Present
           /\ DirsOK => DirsOK'
           /\ \A c : Staged(c) => Staged(c)'
<1>1. GoesOn(dirs, dirs')
      BY NothingGoesOn DEF TypeOK
<1>2. QED BY <1>1, GoesOnKeeps

LEMMA SubmitKeeps ==
    ASSUME IInv, NEW c \in Configs, Submit(c)
    PROVE  IInv'
<1> USE DEF IInv
<1>1. /\ pc = "login" /\ c.kind = config.kind /\ (c.kind = "0002" => submits = 0)
      /\ Accepted(c) /\ config' = c /\ submits' = submits + 1
      /\ pc' = IF c.kind = "0002" THEN "slice" ELSE "archive"
      /\ phase' = 1 /\ UNCHANGED <<source, slices, dirs>>
      BY DEF Submit
<1>2. Present' = Present /\ (DirsOK => DirsOK') /\ \A b : Staged(b) => Staged(b)'
      BY <1>1, DirsStay
<1>3. TypeOK'
      BY <1>1, BoundsAssumption DEF TypeOK
<1>4. NothingYet'
      BY <1>1 DEF NothingYet, TypeOK
<1>5. JobSliced'
  <2>1. pc' = "slice" => \E n \in 0..Len(Phases(c)) :
                            slices = [i \in 1..n |-> CutsOf(c)'[i]] /\ CutsMade(c, n)'
    <3>1. ASSUME pc' = "slice" PROVE slices = [i \in 1..0 |-> CutsOf(c)'[i]] /\ CutsMade(c, 0)'
      <4>1. slices = <<>>
            BY <1>1, <3>1 DEF NothingYet
      <4>2. CutsMade(c, 0)
            BY DEF CutsMade
      <4>3. <<>> = [i \in 1..0 |-> CutsOf(c)'[i]]
            OBVIOUS
      <4>4. CutsMade(c, 0)' <=> CutsMade(c, 0)
            BY <1>1, CutsStay
      <4>5. QED BY <4>1, <4>2, <4>3, <4>4
    <3>2. 0 \in 0..Len(Phases(c))
          BY PhasesAre, BoundsAssumption
    <3>3. QED BY <3>1, <3>2
  <2>2. Accepted(config)' /\ Phases(config)' = Phases(c) /\ CutsOf(config)' = CutsOf(c)'
        /\ \A n : CutsMade(config, n)' <=> CutsMade(c, n)'
        BY <1>1 DEF Accepted, Phases, CutsOf, CutsMade, Cut, Offset
  <2>3. QED BY <1>1, <2>1, <2>2 DEF JobSliced
<1>6. OneAttempt'
  <2>1. pc' = "slice" => Present = {}
        BY <1>1 DEF NothingYet
  <2>2. QED BY <1>1, <1>2, <2>1 DEF OneAttempt
<1>7. StagedByOne'
  <2>1. ASSUME NEW b \in Configs, b.kind = config.kind, Accepted(b),
               CutsMade(b, Len(Phases(b))), Staged(b)
        PROVE  b.kind = config'.kind /\ CutsMade(b, Len(Phases(b)))' /\ Staged(b)'
        BY <1>1, <1>2, <2>1, CutsStay
  <2>2. QED BY <1>1, <1>2, <2>1 DEF StagedByOne
<1>8. InPhase'
      BY <1>1 DEF InPhase
<1>9. LevelsInOrder'
      BY <1>1, <1>2 DEF LevelsInOrder
<1>10. ShardsLeft'
      BY <1>2 DEF DirsOK, OneAttempt
<1>11. QED BY <1>3, <1>4, <1>5, <1>6, <1>7, <1>8, <1>9, <1>10

LEMMA ArchiveKeeps ==
    ASSUME IInv, Archive
    PROVE  IInv'
<1> USE DEF IInv
<1>1. /\ pc = "archive" /\ (Present # {} \/ slices # <<>>)
      /\ UNCHANGED <<source, config, pc, phase, submits>>
      /\ \/ Present # {} /\ dirs' = [dirs EXCEPT ![Min(Present)] = None]
         \/ Present = {} /\ UNCHANGED dirs
      BY DEF Archive
<1>2. /\ dirs' \in [1..MaxPhases -> Dir \cup {None}] /\ Present' \subseteq Present
      /\ \A p \in Present' : dirs'[p] = dirs[p]
  <2>1. CASE Present # {} /\ dirs' = [dirs EXCEPT ![Min(Present)] = None]
    <3> DEFINE q == Min(Present)
    <3> HIDE DEF q
    <3>1. dirs' = [dirs EXCEPT ![q] = None] /\ dirs \in [1..MaxPhases -> Dir \cup {None}]
          BY <2>1 DEF q, TypeOK
    <3>2. /\ dirs' \in [1..MaxPhases -> Dir \cup {None}]
          /\ \A p \in 1..MaxPhases : dirs'[p] = IF p = q THEN None ELSE dirs[p]
          BY <3>1
    <3>3. QED BY <3>1, <3>2 DEF Present
  <2>2. CASE UNCHANGED dirs
        BY <2>2 DEF TypeOK, Present
  <2>3. QED BY <1>1, <2>1, <2>2
<1>3. TypeOK'
      BY <1>1, <1>2 DEF TypeOK
<1>4. NothingYet'
      BY <1>1 DEF NothingYet
<1>5. JobSliced'
      BY <1>1 DEF JobSliced, Accepted
<1>6. OneAttempt'
      BY <1>1, <1>2 DEF OneAttempt
<1>7. StagedByOne'
  <2>1. ASSUME NEW c, Staged(c) PROVE Staged(c)'
    <3>1. CutsOf(c)' = CutsOf(c)
          BY <1>1, CutsStay
    <3>2. QED BY <1>2, <2>1, <3>1 DEF Staged
  <2>2. ASSUME NEW c PROVE CutsMade(c, Len(Phases(c)))' <=> CutsMade(c, Len(Phases(c)))
        BY <1>1, CutsStay
  <2>3. Present' # {} => Present # {}
        BY <1>2
  <2>4. QED BY <1>1, <2>1, <2>2, <2>3 DEF StagedByOne
<1>8. InPhase'
      BY <1>1 DEF InPhase
<1>9. LevelsInOrder'
      BY <1>1 DEF LevelsInOrder
<1>10. ShardsLeft'
      BY <1>2 DEF ShardsLeft
<1>11. QED BY <1>3, <1>4, <1>5, <1>6, <1>7, <1>8, <1>9, <1>10

LEMMA ArchivedKeeps ==
    ASSUME IInv, Archived
    PROVE  IInv'
<1> USE DEF IInv
<1>1. /\ pc = "archive" /\ Present = {} /\ slices = <<>> /\ pc' = "slice"
      /\ UNCHANGED <<source, config, phase, slices, dirs, submits>>
      BY DEF Archived, NothingLeft
<1>2. /\ Present' = Present
      /\ DirsOK => DirsOK'
      BY <1>1, DirsStay
<1>3. TypeOK'
      BY <1>1 DEF TypeOK
<1>4. NothingYet'
      BY <1>1 DEF NothingYet
<1>5. JobSliced'
  <2>1. slices' = [i \in 1..0 |-> CutsOf(config)'[i]]
        BY <1>1
  <2>2. CutsMade(config, 0)'
        BY DEF CutsMade
  <2>3. 0 \in 0..Len(Phases(config)')
    <3>1. Len(Phases(config)) \in 1..MaxPhases /\ config' = config
          BY <1>1, PhasesAre DEF TypeOK
    <3>2. QED BY <3>1, BoundsAssumption
  <2>4. Accepted(config)'
        BY <1>1 DEF JobSliced, Accepted
  <2>5. QED BY <1>1, <2>1, <2>2, <2>3, <2>4 DEF JobSliced
<1>6. OneAttempt'
      BY <1>1, <1>2 DEF OneAttempt
<1>7. StagedByOne'
      BY <1>1, <1>2 DEF StagedByOne
<1>8. InPhase' /\ LevelsInOrder'
      BY <1>1, <1>2 DEF InPhase, LevelsInOrder
<1>9. ShardsLeft'
      BY <1>2 DEF DirsOK, OneAttempt
<1>10. QED BY <1>3, <1>4, <1>5, <1>6, <1>7, <1>8, <1>9

LEMMA CutSlicesKeeps ==
    ASSUME IInv, CutSlices
    PROVE  IInv'
<1> USE DEF IInv
<1> DEFINE N == Len(Phases(config)) m == Len(slices) cut == Cut(config, m + 1)
<1>1. /\ pc = "slice" /\ m < N /\ UNCHANGED <<source, config, phase, dirs, submits>>
      /\ \/ cut.rc # 0 /\ pc' = "login" /\ UNCHANGED slices
         \/ /\ cut.rc = 0 /\ UNCHANGED pc
            /\ slices' = IF config.kind = "0002" THEN [i \in DOMAIN cut.slices |-> <<cut.slices[i]>>]
                         ELSE Append(slices, cut.slices)
      BY DEF CutSlices
<1>2. /\ Present' = Present
      /\ DirsOK => DirsOK'
      BY <1>1, DirsStay
<1>3. TypeOK'
      BY <1>1 DEF TypeOK
<1>4. NothingYet'
      BY <1>1 DEF NothingYet
<1>5. /\ config \in Configs /\ source \in Sources /\ N \in 1..MaxPhases /\ N \in Nat
      /\ DOMAIN Phases(config) = 1..N
      BY PhasesAre, BoundsAssumption DEF TypeOK
<1>6. PICK n \in 0..N : slices = [i \in 1..n |-> CutsOf(config)[i]] /\ CutsMade(config, n)
      BY <1>1 DEF JobSliced
<1>7. m = n /\ n < N /\ n + 1 \in 1..N
      BY <1>1, <1>5, <1>6
<1>8. cut.rc = 0 => \E k \in 0..N : /\ slices' = [i \in 1..k |-> CutsOf(config)[i]]
                                   /\ CutsMade(config, k)
  <2>1. SUFFICES ASSUME cut.rc = 0
                 PROVE  \E k \in 0..N : /\ slices' = [i \in 1..k |-> CutsOf(config)[i]]
                                        /\ CutsMade(config, k)
        OBVIOUS
  <2>2. CASE config.kind = "0002"
    <3> DEFINE L == Len(config.levels) W == Windows(UrlsOf(source), config.slice, L, 0)
    <3>1. cut = slice_urls(source, config.slice, L, 0) /\ \A i : Cut(config, i) = cut
          BY <2>2 DEF Cut
    <3>2. L = N /\ config.slice \in Nat \ {0} /\ L \in Nat \ {0} /\ 0 \in Nat
          BY <1>5, <2>2, ConfigsAre, PhasesAre
    <3>3. slice_urls(source, config.slice, L, 0).rc = 0
          BY <2>1, <3>1
    <3>4. cut.slices = W
      <4> HIDE DEF L, cut
      <4>1. QED BY <1>5, <3>1, <3>2, <3>3, CutWindows
    <3>5. DOMAIN cut.slices = 1..N
          BY <3>2, <3>4 DEF Windows
    <3>6. slices' = [i \in 1..N |-> <<cut.slices[i]>>]
          BY <1>1, <2>1, <2>2, <3>5
    <3>7. CutsOf(config) = [i \in 1..N |-> <<cut.slices[i]>>]
          BY <1>5, <2>2, <3>1 DEF CutsOf
    <3>8. CutsMade(config, N)
          BY <2>1, <3>1 DEF CutsMade
    <3> HIDE DEF cut, N
    <3>9. slices' = [i \in 1..N |-> CutsOf(config)[i]]
          BY <3>6, <3>7
    <3>10. QED BY <1>5, <3>8, <3>9
  <2>3. CASE config.kind # "0002"
    <3> DEFINE k == n + 1
    <3>1. k \in 1..N /\ k \in Nat /\ cut = Cut(config, k) /\ n \in Nat /\ k = n + 1
          BY <1>5, <1>7
    <3>2. CutsOf(config)[k] = cut.slices
          BY <1>5, <2>3, <3>1 DEF CutsOf
    <3>3. slices' = Append(slices, CutsOf(config)[k])
          BY <1>1, <2>1, <2>3, <3>2
    <3>4. CutsMade(config, k)
      <4>1. \A i \in 1..k : i \in 1..n \/ i = k
            BY <3>1
      <4>2. QED BY <1>6, <2>1, <3>1, <4>1 DEF CutsMade
    <3> HIDE DEF cut, N, m, k
    <3>5. slices' = [i \in 1..k |-> CutsOf(config)[i]]
      <4> DEFINE g == CutsOf(config)
      <4>1. slices = [i \in 1..n |-> g[i]] /\ slices' = Append(slices, g[k])
            BY <1>6, <3>3
      <4> HIDE DEF g
      <4>2. slices' = [i \in 1..n + 1 |-> g[i]]
            BY <3>1, <4>1
      <4>3. QED BY <3>1, <4>2 DEF g
    <3>6. QED BY <3>1, <3>4, <3>5
  <2>4. QED BY <2>2, <2>3
<1>9. JobSliced'
  <2>1. CASE cut.rc # 0 /\ pc' = "login"
        BY <2>1 DEF JobSliced
  <2>2. CASE cut.rc = 0 /\ UNCHANGED pc
    <3>1. PICK k \in 0..N : slices' = [i \in 1..k |-> CutsOf(config)[i]] /\ CutsMade(config, k)
          BY <1>8, <2>2
    <3>2. /\ CutsOf(config)' = CutsOf(config) /\ CutsMade(config, k)'
          /\ Phases(config)' = Phases(config)
      <4>1. CutsOf(config)' = CutsOf(config)
            BY <1>1 DEF CutsOf, Cut
      <4>2. CutsMade(config, k)'
            BY <1>1, <3>1 DEF CutsMade, Cut
      <4>3. QED BY <1>1, <4>1, <4>2
    <3>3. Accepted(config)'
          BY <1>1 DEF JobSliced, Accepted
    <3>4. slices' = [i \in 1..k |-> CutsOf(config)'[i]]
          BY <3>1, <3>2
    <3>5. k \in 0..Len(Phases(config)')
          BY <3>1, <3>2
    <3> HIDE DEF cut, N, m
    <3>6. pc' = "slice"
          BY <1>1, <2>2
    <3>7. QED BY <3>2, <3>3, <3>4, <3>5, <3>6 DEF JobSliced
  <2>3. QED BY <1>1, <2>1, <2>2
<1> HIDE DEF cut, N, m
<1>10. OneAttempt'
      BY <1>1, <1>2 DEF OneAttempt
<1>11. StagedByOne'
      BY <1>1, <1>2 DEF StagedByOne, OneAttempt
<1>12. InPhase' /\ LevelsInOrder'
      BY <1>1, <1>2 DEF InPhase, LevelsInOrder
<1>13. ShardsLeft'
      BY <1>2 DEF DirsOK, OneAttempt
<1>14. QED BY <1>3, <1>4, <1>9, <1>10, <1>11, <1>12, <1>13

LEMMA SlicedKeeps ==
    ASSUME IInv, Sliced
    PROVE  IInv'
<1> USE DEF IInv
<1> DEFINE N == Len(Phases(config))
<1>1. /\ pc = "slice" /\ Len(slices) = N /\ pc' = "start"
      /\ UNCHANGED <<source, config, phase, slices, dirs, submits>>
      BY DEF Sliced
<1>2. /\ Present' = Present
      /\ DirsOK => DirsOK'
      BY <1>1, DirsStay
<1>3. /\ config \in Configs /\ N \in 1..MaxPhases /\ N \in Nat /\ DOMAIN Phases(config) = 1..N
      BY PhasesAre, BoundsAssumption DEF TypeOK
<1>4. PICK n \in 0..N : slices = [i \in 1..n |-> CutsOf(config)[i]] /\ CutsMade(config, n)
      BY <1>1 DEF JobSliced
<1>5. slices = CutsOf(config) /\ CutsMade(config, N)
  <2>1. n = N
        BY <1>1, <1>3, <1>4
  <2>2. CutsOf(config) = [i \in 1..N |-> CutsOf(config)[i]]
        BY <1>3 DEF CutsOf
  <2>3. QED BY <1>4, <2>1, <2>2
<1>6. JobSliced'
  <2>1. CutsOf(config)' = CutsOf(config)
        BY <1>1 DEF CutsOf, Cut
  <2>2. CutsMade(config, Len(Phases(config)))'
        BY <1>1, <1>5 DEF CutsMade, Cut
  <2>3. Accepted(config)'
        BY <1>1 DEF JobSliced, Accepted
  <2>4. QED BY <1>1, <1>5, <2>1, <2>2, <2>3 DEF JobSliced
<1>7. TypeOK' /\ NothingYet'
      BY <1>1 DEF TypeOK, NothingYet
<1>8. Present = {}
      BY <1>1 DEF OneAttempt
<1>9. OneAttempt'
      BY <1>1, <1>2, <1>8 DEF OneAttempt
<1>10. StagedByOne'
  <2>1. Staged(config)'
        BY <1>2, <1>8 DEF Staged
  <2>2. QED BY <1>2, <1>8, <2>1 DEF StagedByOne
<1>11. InPhase'
  <2>1. phase' = 1 /\ Phases(config)' = Phases(config) /\ 1 \in DOMAIN Phases(config)
        BY <1>1, <1>3 DEF InPhase
  <2>2. QED BY <1>1, <1>2, <1>8, <2>1 DEF InPhase
<1>12. LevelsInOrder'
  <2>1. phase' = 1
        BY <1>1 DEF InPhase
  <2>2. 1..phase' - 1 = {}
        BY <2>1
  <2>3. QED BY <1>1, <1>2, <2>2 DEF LevelsInOrder
<1>13. ShardsLeft'
      BY <1>2 DEF DirsOK, OneAttempt
<1>14. QED BY <1>6, <1>7, <1>9, <1>10, <1>11, <1>12, <1>13

LEMMA OpenPhaseKeeps ==
    ASSUME IInv, OpenPhase
    PROVE  IInv'
<1> USE DEF IInv
<1> DEFINE P == Phases(config)
           d == [attempt |-> submits, processes |-> P[phase].processes, sps |-> config.sps,
                 expected |-> IF Multi THEN config.nodes ELSE 0, wall |-> 0, nodes |-> <<>>]
<1>1. /\ pc = "start" /\ dirs[phase] = None /\ dirs' = [dirs EXCEPT ![phase] = d]
      /\ UNCHANGED <<source, config, pc, phase, slices, submits>>
      BY DEF OpenPhase
<1>2. /\ config \in Configs /\ source \in Sources /\ Accepted(config) /\ submits \in Nat
      /\ phase \in 1..Len(P) /\ phase \in 1..MaxPhases /\ DOMAIN P = 1..Len(P)
      /\ phase \in DOMAIN P /\ MaxPhases \in Nat
  <2>1. config \in Configs /\ phase \in DOMAIN P /\ source \in Sources /\ submits \in Nat
        BY <1>1 DEF TypeOK, InPhase
  <2>2. Len(P) \in 1..MaxPhases /\ DOMAIN P = 1..Len(P)
        BY <2>1, PhasesAre
  <2>3. QED BY <1>1, <2>1, <2>2, BoundsAssumption DEF JobSliced
<1>3. d \in Dir /\ d # None
  <2>1. P[phase].processes \in Nat /\ config.sps \in Nat
        BY <1>2, ShardsEnough, ConfigsAre
  <2>2. Multi => config.nodes \in Nat
        BY <1>2, ConfigsAre DEF Multi
  <2>3. <<>> \in Seq(Node)
        BY EmptySeq
  <2>4. d \in Dir
        BY <1>2, <2>1, <2>2, <2>3 DEF Dir
  <2>5. QED BY <2>4, NoneAssumption
<1>4. /\ d.attempt = submits /\ d.processes = P[phase].processes /\ d.sps = config.sps
      /\ d.nodes = <<>>
      OBVIOUS
<1> HIDE DEF d
<1>5. /\ dirs' \in [1..MaxPhases -> Dir \cup {None}] /\ dirs'[phase] = d
      /\ \A p \in 1..MaxPhases : p # phase => dirs'[p] = dirs[p]
      BY <1>1, <1>2, <1>3 DEF TypeOK
<1>6. Present' = Present \cup {phase} /\ phase \notin Present /\ Present \subseteq 1..MaxPhases
  <2>1. DOMAIN dirs = 1..MaxPhases /\ DOMAIN dirs' = 1..MaxPhases
        BY <1>5 DEF TypeOK
  <2>2. QED BY <1>1, <1>2, <1>3, <1>5, <2>1 DEF Present
<1>7. \A p \in Present' : dirs'[p] = IF p = phase THEN d ELSE dirs[p]
      BY <1>2, <1>5, <1>6
<1>8. DOMAIN d.nodes = {} /\ Len(d.nodes) = 0
      BY <1>4
<1>9. TypeOK' /\ NothingYet' /\ JobSliced'
  <2>1. TypeOK'
        BY <1>1, <1>5 DEF TypeOK
  <2>2. NothingYet'
        BY <1>1 DEF NothingYet
  <2>3. JobSliced'
    <3>1. CutsOf(config)' = CutsOf(config)
          BY <1>1 DEF CutsOf, Cut
    <3>2. CutsMade(config, Len(Phases(config)))' <=> CutsMade(config, Len(Phases(config)))
          BY <1>1 DEF CutsMade, Cut
    <3>3. QED BY <1>1, <3>1, <3>2 DEF JobSliced, Accepted
  <2>4. QED BY <2>1, <2>2, <2>3
<1>10. OneAttempt'
      BY <1>1, <1>4, <1>6, <1>7 DEF OneAttempt
<1>11. StagedByOne'
  <2>1. Staged(config)'
    <3>1. CutsOf(config)' = CutsOf(config)
          BY <1>1 DEF CutsOf, Cut
    <3>2. Staged(config)
          BY <1>1 DEF StagedByOne
    <3>3. ASSUME NEW p \in Present'
          PROVE  /\ p \in DOMAIN P
                 /\ dirs'[p].processes = P[p].processes /\ dirs'[p].sps = config.sps
                 /\ \A k \in DOMAIN dirs'[p].nodes :
                       k <= P[p].nodes /\ dirs'[p].nodes[k].urls = CutsOf(config)[p][k]
      <4>1. CASE p = phase
            BY <1>2, <1>4, <1>7, <1>8, <4>1
      <4>2. CASE p # phase
        <5>1. p \in Present /\ dirs'[p] = dirs[p]
              BY <1>6, <1>7, <4>2
        <5>2. QED BY <3>2, <5>1 DEF Staged
      <4>3. QED BY <4>1, <4>2
    <3>4. QED BY <1>1, <3>1, <3>3 DEF Staged
  <2>2. CutsMade(config, Len(Phases(config)))'
        BY <1>1 DEF CutsMade, Cut, JobSliced
  <2>3. Accepted(config)' /\ config' \in Configs
        BY <1>1, <1>2 DEF Accepted
  <2>4. QED BY <2>1, <2>2, <2>3 DEF StagedByOne
<1>12. InPhase'
  <2>1. P[phase].nodes \in Nat \ {0}
    <3>1. CutsMade(config, Len(P))
          BY <1>1 DEF JobSliced
    <3>2. QED BY <1>2, <3>1, CutsAre
  <2>2. Present \subseteq 1..phase
        BY <1>1 DEF InPhase
  <2>3. Len(dirs'[phase].nodes) < P[phase].nodes
        BY <1>5, <1>8, <2>1
  <2>4. phase \in 1..phase
        BY <1>2
  <2>5. QED BY <1>1, <1>2, <1>6, <2>2, <2>3, <2>4 DEF InPhase
<1>13. LevelsInOrder'
  <2>1. ASSUME config.kind = "0002"
        PROVE  Present' = 1..phase
    <3>1. 1..phase - 1 \subseteq Present /\ Present \subseteq 1..phase
          BY <1>1, <2>1 DEF LevelsInOrder, InPhase
    <3>2. 1..phase = (1..phase - 1) \cup {phase}
          BY <1>2
    <3>3. QED BY <1>6, <3>1, <3>2
  <2>2. phase \in 0..MaxPhases /\ 1..phase - 1 \subseteq 1..phase
        BY <1>2
  <2>3. QED BY <1>1, <2>1, <2>2 DEF LevelsInOrder
<1>14. ShardsLeft'
  <2>1. ASSUME NEW p \in Present', NEW k \in DOMAIN dirs'[p].nodes
        PROVE  p \in Present /\ dirs'[p] = dirs[p]
        BY <1>6, <1>7, <1>8
  <2>2. QED BY <2>1 DEF ShardsLeft
<1>15. QED BY <1>9, <1>10, <1>11, <1>12, <1>13, <1>14

LEMMA StageNodeKeeps ==
    ASSUME IInv, StageNode
    PROVE  IInv'
<1> USE DEF IInv
<1> DEFINE P == Phases(config) d == dirs[phase] k == Len(d.nodes) + 1
<1>1. PICK w \in {"good", "outage"} :
        /\ dirs' = [dirs EXCEPT
             ![phase].nodes = Append(@, [urls |-> slices[phase][k], weather |-> w,
                                         done |-> 0, state |-> "running"]),
             ![phase].expected = IF Multi THEN @ ELSE 1]
        /\ pc' = IF k = P[phase].nodes THEN "run" ELSE "start"
      BY DEF StageNode
<1>2. pc = "start" /\ d # None /\ UNCHANGED <<source, config, phase, slices, submits>>
      BY DEF StageNode
<1>3. /\ config \in Configs /\ source \in Sources /\ Accepted(config) /\ submits \in Nat
      /\ phase \in 1..Len(P) /\ phase \in 1..MaxPhases /\ DOMAIN P = 1..Len(P)
      /\ phase \in DOMAIN P /\ MaxPhases \in Nat
      /\ dirs \in [1..MaxPhases -> Dir \cup {None}]
  <2>1. /\ config \in Configs /\ phase \in DOMAIN P /\ source \in Sources /\ submits \in Nat
        /\ dirs \in [1..MaxPhases -> Dir \cup {None}]
        BY <1>2 DEF TypeOK, InPhase
  <2>2. Len(P) \in 1..MaxPhases /\ DOMAIN P = 1..Len(P)
        BY <2>1, PhasesAre
  <2>3. QED BY <1>2, <2>1, <2>2, BoundsAssumption DEF JobSliced
<1>4. /\ d \in Dir /\ d.nodes \in Seq(Node) /\ Len(d.nodes) \in Nat /\ phase \in Present
      /\ Len(d.nodes) < P[phase].nodes
  <2>1. phase \in Present
        BY <1>2, <1>3 DEF Present
  <2>2. QED BY <1>2, <2>1, Directories DEF InPhase
<1>5. CutsMade(config, Len(P)) /\ slices = CutsOf(config)
      BY <1>2 DEF JobSliced
<1>6. P[phase].urls \in Nat \ {0} /\ P[phase].nodes \in Nat \ {0}
      BY <1>3, <1>5, CutsAre
<1> DEFINE u == slices[phase][k]
           n == [urls |-> u, weather |-> w, done |-> 0, state |-> "running"]
           e == [d EXCEPT !.nodes = Append(d.nodes, n), !.expected = IF Multi THEN @ ELSE 1]
<1>7. k \in 1..P[phase].nodes /\ k \in Nat
      BY <1>4, <1>6
<1>8. u \in Seq(STRING) /\ Len(u) > 0
  <2> HIDE DEF k
  <2>1. u \in Seq(STRING) /\ Len(u) = P[phase].urls
        BY <1>3, <1>5, <1>7, CutsAre DEF IsWindow
  <2>2. QED BY <1>6, <2>1
<1> HIDE DEF u
<1>9. n \in Node /\ n.urls = u /\ n.done = 0
      BY <1>8 DEF Node
<1>10. Shards(n, config.sps) > 0
      BY <1>3, <1>8, <1>9, ConfigsAre, ShardsCounted
<1>11. dirs' = [dirs EXCEPT ![phase] = e]
      BY <1>1, <1>3 DEF u
<1> HIDE DEF n
<1>12. /\ e \in Dir /\ e.attempt = d.attempt /\ e.processes = d.processes /\ e.sps = d.sps
       /\ e.nodes = Append(d.nodes, n) /\ e # None
  <2>1. Append(d.nodes, n) \in Seq(Node)
        BY <1>4, <1>9, AppendProperties
  <2> HIDE DEF d
  <2>2. e \in Dir /\ e.attempt = d.attempt /\ e.processes = d.processes /\ e.sps = d.sps
        /\ e.nodes = Append(d.nodes, n)
        BY <1>4, <2>1 DEF Dir
  <2>3. QED BY <2>2, NoneAssumption
<1>13. /\ Len(e.nodes) = k /\ DOMAIN e.nodes = 1..k
       /\ \A j \in 1..k : e.nodes[j] = IF j = k THEN n ELSE d.nodes[j]
       /\ DOMAIN d.nodes = 1..k - 1
  <2> DEFINE ns == d.nodes es == e.nodes
  <2>1. ns \in Seq(Node) /\ es = Append(ns, n) /\ n \in Node
        BY <1>4, <1>9, <1>12
  <2>2. k = Len(ns) + 1 /\ Len(ns) \in Nat
        BY <1>4
  <2> HIDE DEF ns, es, e, d, k
  <2>3. /\ es \in Seq(Node) /\ Len(es) = Len(ns) + 1
        /\ \A i \in 1..Len(ns) : es[i] = ns[i]
        /\ es[Len(ns) + 1] = n
        BY <2>1, AppendProperties
  <2>4. DOMAIN es = 1..Len(es) /\ DOMAIN ns = 1..Len(ns)
        BY <2>1, <2>3, LenProperties
  <2>5. \A j \in 1..k : j = k \/ j \in 1..Len(ns)
        BY <2>2
  <2>6. \A j \in 1..k : es[j] = IF j = k THEN n ELSE ns[j]
        BY <2>2, <2>3, <2>5
  <2>7. QED BY <2>2, <2>3, <2>4, <2>6 DEF ns, es
<1> HIDE DEF e
<1>14. /\ dirs' \in [1..MaxPhases -> Dir \cup {None}] /\ dirs'[phase] = e
       /\ \A p \in 1..MaxPhases : p # phase => dirs'[p] = dirs[p]
      BY <1>3, <1>11, <1>12
<1>15. Present' = Present /\ Present \subseteq 1..MaxPhases
  <2>1. DOMAIN dirs = 1..MaxPhases /\ DOMAIN dirs' = 1..MaxPhases
        BY <1>3, <1>14
  <2>2. QED BY <1>2, <1>12, <1>14, <2>1 DEF Present
<1>16. \A p \in Present : dirs'[p] = IF p = phase THEN e ELSE dirs[p]
      BY <1>14, <1>15
<1> HIDE DEF d, k
<1>17. TypeOK' /\ NothingYet'
      BY <1>1, <1>2, <1>14 DEF TypeOK, NothingYet
<1>18. /\ CutsOf(config)' = CutsOf(config) /\ CutsMade(config, Len(Phases(config)))'
       /\ Accepted(config)'
  <2>1. CutsOf(config)' = CutsOf(config)
        BY <1>2 DEF CutsOf, Cut
  <2>2. CutsMade(config, Len(Phases(config)))'
        BY <1>2, <1>5 DEF CutsMade, Cut
  <2>3. Accepted(config)'
        BY <1>2, <1>3 DEF Accepted
  <2>4. QED BY <2>1, <2>2, <2>3
<1>19. JobSliced'
      BY <1>1, <1>2, <1>5, <1>18 DEF JobSliced
<1>20. OneAttempt'
  <2>1. \A p \in Present : dirs[p].attempt = submits
        BY <1>2 DEF OneAttempt
  <2>2. e.attempt = submits
        BY <1>4, <1>12, <2>1 DEF d
  <2>3. \A p \in Present : dirs'[p].attempt = submits
        BY <1>16, <2>1, <2>2
  <2>4. pc' # "slice"
        BY <1>1
  <2>5. QED BY <1>2, <1>15, <2>3, <2>4 DEF OneAttempt
<1>21. StagedByOne'
  <2>1. Staged(config)
        BY <1>2 DEF StagedByOne
  <2>2. ASSUME NEW p \in Present
        PROVE  /\ p \in DOMAIN P
               /\ dirs'[p].processes = P[p].processes /\ dirs'[p].sps = config.sps
               /\ \A j \in DOMAIN dirs'[p].nodes :
                     j <= P[p].nodes /\ dirs'[p].nodes[j].urls = CutsOf(config)[p][j]
    <3>1. CASE p = phase
      <4>1. /\ d.processes = P[phase].processes /\ d.sps = config.sps
            /\ \A j \in DOMAIN d.nodes :
                  j <= P[phase].nodes /\ d.nodes[j].urls = CutsOf(config)[phase][j]
            BY <1>4, <2>1 DEF Staged, d
      <4>2. ASSUME NEW j \in 1..k
            PROVE  j <= P[phase].nodes /\ e.nodes[j].urls = CutsOf(config)[phase][j]
        <5>1. CASE j = k
              BY <1>5, <1>7, <1>9, <1>13, <5>1 DEF u
        <5>2. CASE j # k
          <6>1. j \in DOMAIN d.nodes /\ e.nodes[j] = d.nodes[j]
                BY <1>7, <1>13, <5>2
          <6>2. QED BY <4>1, <6>1
        <5>3. QED BY <5>1, <5>2
      <4>3. QED BY <1>3, <1>12, <1>13, <1>14, <3>1, <4>1, <4>2
    <3>2. CASE p # phase
          BY <1>16, <2>1, <3>2 DEF Staged
    <3>3. QED BY <3>1, <3>2
  <2>3. Staged(config)'
        BY <1>2, <1>15, <1>18, <2>2 DEF Staged
  <2>4. QED BY <1>2, <1>3, <1>18, <2>3 DEF StagedByOne
<1>22. InPhase'
  <2>1. Present' \subseteq 1..phase /\ phase \in Present'
        BY <1>2, <1>4, <1>15 DEF InPhase
  <2>2. Len(dirs'[phase].nodes) = k
        BY <1>13, <1>14
  <2>3. k # P[phase].nodes => k < P[phase].nodes
        BY <1>6, <1>7
  <2>4. QED BY <1>1, <1>2, <1>3, <2>1, <2>2, <2>3 DEF InPhase
<1>23. LevelsInOrder'
      BY <1>1, <1>2, <1>15 DEF LevelsInOrder
<1>24. ShardsLeft'
  <2>1. Staged(config)
        BY <1>2 DEF StagedByOne
  <2>2. d.sps = config.sps
        BY <1>4, <2>1 DEF Staged, d
  <2>3. ASSUME NEW p \in Present, NEW j \in DOMAIN dirs'[p].nodes
        PROVE  LET m == dirs'[p].nodes[j]
               IN  /\ m.done <= Shards(m, dirs'[p].sps)
                   /\ m.state = "running" => m.done < Shards(m, dirs'[p].sps)
    <3>1. CASE p = phase /\ j = k
      <4>1. dirs'[p].nodes[j] = n /\ dirs'[p].sps = config.sps
            BY <1>7, <1>12, <1>13, <1>14, <2>2, <3>1
      <4>2. Shards(n, config.sps) \in Nat
            BY <1>3, <1>8, <1>9, ConfigsAre, ShardsCounted
      <4>3. QED BY <1>9, <1>10, <4>1, <4>2
    <3>2. CASE p = phase /\ j # k
      <4>1. j \in 1..k /\ j \in DOMAIN d.nodes
            BY <1>7, <1>13, <1>14, <2>3, <3>2
      <4>2. dirs'[p].nodes[j] = dirs[p].nodes[j] /\ dirs'[p].sps = dirs[p].sps
            /\ j \in DOMAIN dirs[p].nodes
            BY <1>12, <1>13, <1>14, <3>2, <4>1 DEF d
      <4>3. QED BY <4>2 DEF ShardsLeft
    <3>3. CASE p # phase
      <4>1. dirs'[p] = dirs[p]
            BY <1>16, <3>3
      <4>2. QED BY <2>3, <4>1 DEF ShardsLeft
    <3>4. QED BY <3>1, <3>2, <3>3
  <2>4. QED BY <1>15, <2>3 DEF ShardsLeft
<1>25. QED BY <1>17, <1>19, <1>20, <1>21, <1>22, <1>23, <1>24

\* What goes on leaves of the invariant.
LEMMA GoesOnKeepsParts ==
    ASSUME IInv, GoesOn(dirs, dirs'), UNCHANGED <<source, config, submits>>
    PROVE  /\ Present' = Present /\ ShardsLeft'
           /\ dirs' \in [1..MaxPhases -> Dir \cup {None}]
           /\ \A p \in Present : /\ dirs'[p].attempt = dirs[p].attempt
                                 /\ Len(dirs'[p].nodes) = Len(dirs[p].nodes)
           /\ \A p, q \in Present : dirs'[p].attempt = dirs'[q].attempt
           /\ Present # {} => \E c \in Configs : /\ c.kind = config'.kind /\ Accepted(c)'
                                                 /\ CutsMade(c, Len(Phases(c)))' /\ Staged(c)'
           /\ Staged(config) => Staged(config)'
           /\ Accepted(config)' <=> Accepted(config)
           /\ slices = CutsOf(config) /\ slices' = slices => slices' = CutsOf(config)'
           /\ CutsMade(config, Len(Phases(config)))' <=> CutsMade(config, Len(Phases(config)))
<1> USE DEF IInv
<1>1. /\ Present' = Present
      /\ DirsOK => DirsOK'
      /\ \A c : Staged(c) => Staged(c)'
      /\ \A p \in Present : /\ dirs'[p].attempt = dirs[p].attempt
                            /\ Len(dirs'[p].nodes) = Len(dirs[p].nodes)
      BY GoesOnKeeps
<1>2. ShardsLeft'
      BY <1>1 DEF DirsOK, OneAttempt
<1>3. Present # {} => \E c \in Configs : /\ c.kind = config'.kind /\ Accepted(c)'
                                         /\ CutsMade(c, Len(Phases(c)))' /\ Staged(c)'
  <2>1. SUFFICES ASSUME Present # {}
                 PROVE  \E c \in Configs : /\ c.kind = config'.kind /\ Accepted(c)'
                                           /\ CutsMade(c, Len(Phases(c)))' /\ Staged(c)'
        OBVIOUS
  <2>2. PICK c \in Configs : /\ c.kind = config.kind /\ Accepted(c)
                             /\ CutsMade(c, Len(Phases(c))) /\ Staged(c)
        BY <2>1 DEF StagedByOne
  <2>3. CutsMade(c, Len(Phases(c)))'
        BY <2>2, CutsStay
  <2>4. Accepted(c)' /\ Staged(c)' /\ c.kind = config'.kind
        BY <1>1, <2>2
  <2>5. QED BY <2>3, <2>4
<1>4. /\ Staged(config) => Staged(config)'
      /\ CutsOf(config)' = CutsOf(config)
      /\ CutsMade(config, Len(Phases(config)))' <=> CutsMade(config, Len(Phases(config)))
      /\ Accepted(config)' <=> Accepted(config)
  <2>1. CutsOf(config)' = CutsOf(config)
        BY DEF CutsOf, Cut
  <2>2. CutsMade(config, Len(Phases(config)))' <=> CutsMade(config, Len(Phases(config)))
        BY DEF CutsMade, Cut
  <2>3. Accepted(config)' <=> Accepted(config)
        BY DEF Accepted
  <2>4. Staged(config) => Staged(config)'
    <3>1. ASSUME Staged(config)
          PROVE  \A p \in Present :
                    /\ p \in DOMAIN Phases(config)
                    /\ dirs'[p].processes = Phases(config)[p].processes
                    /\ dirs'[p].sps = config.sps
                    /\ \A k \in DOMAIN dirs'[p].nodes :
                          /\ k <= Phases(config)[p].nodes
                          /\ dirs'[p].nodes[k].urls = CutsOf(config)[p][k]
      <4>1. ASSUME NEW b, b = config PROVE Staged(b)'
            BY <1>1, <3>1, <4>1
      <4>2. ASSUME NEW b, b = config
            PROVE  \A p \in Present :
                    /\ p \in DOMAIN Phases(b)
                    /\ dirs'[p].processes = Phases(b)[p].processes
                    /\ dirs'[p].sps = b.sps
                    /\ \A k \in DOMAIN dirs'[p].nodes :
                          /\ k <= Phases(b)[p].nodes
                          /\ dirs'[p].nodes[k].urls = CutsOf(b)[p][k]
            BY <1>1, <4>1, <4>2, CutsStay DEF Staged
      <4>3. QED BY <4>2
    <3>2. QED BY <1>1, <2>1, <3>1 DEF Staged
  <2>5. QED BY <2>1, <2>2, <2>3, <2>4
<1>5. \A p, q \in Present : dirs'[p].attempt = dirs'[q].attempt
      BY <1>1 DEF OneAttempt
<1>6. QED BY <1>1, <1>2, <1>3, <1>4, <1>5 DEF GoesOn

\* A job ends, and its directories stay.
LEMMA EndKeeps ==
    ASSUME IInv, GoesOn(dirs, dirs'), UNCHANGED <<source, config, slices, submits>>,
           pc # "login", pc' = "login", phase' = 0
    PROVE  IInv'
<1> USE DEF IInv
<1>1. /\ Present' = Present /\ ShardsLeft' /\ dirs' \in [1..MaxPhases -> Dir \cup {None}]
      /\ \A p, q \in Present : dirs'[p].attempt = dirs'[q].attempt
      /\ Present # {} => \E c \in Configs : /\ c.kind = config'.kind /\ Accepted(c)'
                                            /\ CutsMade(c, Len(Phases(c)))' /\ Staged(c)'
      BY GoesOnKeepsParts
<1>2. TypeOK'
      BY <1>1, BoundsAssumption DEF TypeOK
<1>3. NothingYet' /\ JobSliced' /\ InPhase'
      BY DEF NothingYet, JobSliced, InPhase
<1>4. OneAttempt' /\ LevelsInOrder'
      BY <1>1 DEF OneAttempt, LevelsInOrder
<1>5. StagedByOne'
      BY <1>1 DEF StagedByOne
<1>6. QED BY <1>1, <1>2, <1>3, <1>4, <1>5

\* A phase is left for the next, or for the end of the job.
LEMMA NextPhaseKeeps ==
    ASSUME IInv, pc \in {"start", "run"}, NEW ds, SamePhases(dirs, ds), NextPhase(ds),
           UNCHANGED <<source, config, slices, submits>>,
           config.kind = "0002" => phase \in Present
    PROVE  IInv'
<1> USE DEF IInv
<1> DEFINE P == Phases(config)
<1>1. dirs \in [1..MaxPhases -> Dir \cup {None}] /\ ds \in [1..MaxPhases -> Dir \cup {None}]
      BY DEF TypeOK, SamePhases
<1>2. CASE ~ (phase < Len(P))
  <2>1. pc' = "login" /\ phase' = 0 /\ dirs' = StopAll(ds)
        BY <1>2 DEF NextPhase
  <2>2. GoesOn(dirs, dirs')
        BY <1>1, <2>1, AllStopGoesOn, SameGoesOn
  <2>3. QED BY <2>1, <2>2, EndKeeps
<1>3. CASE phase < Len(P)
  <2>1. pc' = "start" /\ phase' = phase + 1 /\ dirs' = ds
        BY <1>3 DEF NextPhase
  <2>2. GoesOn(dirs, dirs')
        BY <1>1, <2>1, NothingGoesOn, SameGoesOn
  <2>3. /\ Present' = Present /\ ShardsLeft' /\ dirs' \in [1..MaxPhases -> Dir \cup {None}]
        /\ \A p \in Present : dirs'[p].attempt = dirs[p].attempt
        /\ \A p, q \in Present : dirs'[p].attempt = dirs'[q].attempt
        /\ Present # {} => \E c \in Configs : /\ c.kind = config'.kind /\ Accepted(c)'
                                              /\ CutsMade(c, Len(Phases(c)))' /\ Staged(c)'
        /\ Staged(config) => Staged(config)'
        /\ Accepted(config)' <=> Accepted(config)
        /\ slices = CutsOf(config) /\ slices' = slices => slices' = CutsOf(config)'
        /\ CutsMade(config, Len(Phases(config)))' <=> CutsMade(config, Len(Phases(config)))
        BY <2>2, GoesOnKeepsParts
  <2>4. /\ config \in Configs /\ phase \in DOMAIN P /\ Present \subseteq 1..phase
        /\ DOMAIN P = 1..Len(P) /\ Len(P) \in 1..MaxPhases /\ MaxPhases \in Nat
        BY PhasesAre, BoundsAssumption DEF TypeOK, InPhase
  <2>5. phase + 1 \in 1..Len(P) /\ phase + 1 \in 0..MaxPhases /\ phase \in Nat
        BY <1>3, <2>4
  <2>6. TypeOK' /\ NothingYet'
        BY <2>1, <2>3, <2>5 DEF TypeOK, NothingYet
  <2>7. JobSliced'
        BY <2>1, <2>3 DEF JobSliced
  <2>8. OneAttempt'
        BY <2>1, <2>3 DEF OneAttempt
  <2>9. StagedByOne'
        BY <2>1, <2>3 DEF StagedByOne
  <2>10. InPhase'
    <3>1. Present' \subseteq 1..phase + 1 /\ phase + 1 \notin Present'
          BY <2>3, <2>4, <2>5
    <3>2. phase' \in DOMAIN Phases(config)'
          BY <2>1, <2>4, <2>5
    <3>3. QED BY <2>1, <3>1, <3>2 DEF InPhase
  <2>11. LevelsInOrder'
    <3>1. ASSUME config.kind = "0002" PROVE 1..phase' - 1 \subseteq Present
      <4>1. 1..phase - 1 \subseteq Present /\ phase \in Present
            BY <3>1 DEF LevelsInOrder
      <4>2. phase' - 1 = phase
            BY <2>1, <2>5
      <4>3. \A i \in 1..phase : i \in 1..phase - 1 \/ i = phase
            BY <2>5
      <4>4. QED BY <4>1, <4>2, <4>3
    <3>2. QED BY <2>1, <2>3, <3>1 DEF LevelsInOrder
  <2>12. QED BY <2>3, <2>6, <2>7, <2>8, <2>9, <2>10, <2>11
<1>4. QED BY <1>2, <1>3

\* A node goes on, and nothing else changes.
LEMMA NodeKeeps ==
    ASSUME IInv, GoesOn(dirs, dirs'), UNCHANGED <<source, config, pc, phase, slices, submits>>
    PROVE  IInv'
<1> USE DEF IInv
<1>1. /\ Present' = Present /\ ShardsLeft' /\ dirs' \in [1..MaxPhases -> Dir \cup {None}]
      /\ \A p \in Present : /\ dirs'[p].attempt = dirs[p].attempt
                            /\ Len(dirs'[p].nodes) = Len(dirs[p].nodes)
      /\ \A p, q \in Present : dirs'[p].attempt = dirs'[q].attempt
      /\ Present # {} => \E c \in Configs : /\ c.kind = config'.kind /\ Accepted(c)'
                                            /\ CutsMade(c, Len(Phases(c)))' /\ Staged(c)'
      /\ Staged(config) => Staged(config)'
      /\ Accepted(config)' <=> Accepted(config)
      /\ slices = CutsOf(config) /\ slices' = slices => slices' = CutsOf(config)'
      /\ CutsMade(config, Len(Phases(config)))' <=> CutsMade(config, Len(Phases(config)))
      BY GoesOnKeepsParts
<1>2. TypeOK' /\ NothingYet'
      BY <1>1 DEF TypeOK, NothingYet
<1>3. JobSliced'
  <2>1. CutsOf(config)' = CutsOf(config) /\ \A n : CutsMade(config, n)' <=> CutsMade(config, n)
        BY DEF CutsOf, CutsMade, Cut
  <2>2. Phases(config)' = Phases(config)
        OBVIOUS
  <2>3. QED BY <1>1, <2>1, <2>2 DEF JobSliced
<1>4. OneAttempt' /\ LevelsInOrder' /\ StagedByOne'
      BY <1>1 DEF OneAttempt, LevelsInOrder, StagedByOne
<1>5. InPhase'
      BY <1>1 DEF InPhase
<1>6. QED BY <1>1, <1>2, <1>3, <1>4, <1>5

LEMMA PhaseLeftKeeps ==
    ASSUME IInv, NoLauncher \/ StageFails
    PROVE  IInv'
<1>1. /\ pc = "start" /\ config.kind = "0003" /\ NextPhase(dirs)
      /\ UNCHANGED <<source, config, slices, submits>>
      BY DEF NoLauncher, StageFails, Multi
<1>2. SamePhases(dirs, dirs)
      BY DEF IInv, TypeOK, SamePhases
<1>3. QED BY <1>1, <1>2, NextPhaseKeeps

LEMMA EndPhaseKeeps ==
    ASSUME IInv, EndPhase
    PROVE  IInv'
<1>1. /\ pc = "run" /\ UNCHANGED <<source, config, slices, submits>>
      BY DEF EndPhase
<1>2. PICK w \in Walls : NextPhase([dirs EXCEPT ![phase].wall = w])
      BY DEF EndPhase
<1>3. /\ dirs \in [1..MaxPhases -> Dir \cup {None}] /\ phase \in Present
      /\ phase \in 1..MaxPhases /\ dirs[phase] \in Dir
      BY <1>1, Directories DEF IInv, TypeOK, InPhase
<1> DEFINE e == [dirs[phase] EXCEPT !.wall = w] ds == [dirs EXCEPT ![phase] = e]
<1>4. [dirs EXCEPT ![phase].wall = w] = ds
      BY <1>3
<1>5. /\ e \in Dir /\ e.attempt = dirs[phase].attempt /\ e.processes = dirs[phase].processes
      /\ e.sps = dirs[phase].sps /\ e.nodes = dirs[phase].nodes
  <2>1. w \in Nat
        BY BoundsAssumption
  <2>2. QED BY <1>3, <2>1 DEF Dir
<1> HIDE DEF e
<1>6. /\ ds \in [1..MaxPhases -> Dir \cup {None}] /\ ds[phase] = e
      /\ \A p \in 1..MaxPhases : p # phase => ds[p] = dirs[p]
      BY <1>3, <1>5
<1>7. SamePhases(dirs, ds)
  <2> HIDE DEF ds
  <2>1. e # None /\ dirs[phase] # None
        BY <1>3, <1>5, NoneAssumption
  <2>2. QED BY <1>5, <1>6, <2>1 DEF SamePhases
<1>8. NextPhase(ds)
      BY <1>2, <1>4
<1> HIDE DEF ds
<1>9. QED BY <1>1, <1>3, <1>7, <1>8, NextPhaseKeeps

LEMMA KillKeeps ==
    ASSUME IInv, Kill
    PROVE  IInv'
<1>1. /\ pc # "login" /\ pc' = "login" /\ phase' = 0 /\ dirs' = StopAll(dirs)
      /\ UNCHANGED <<source, config, slices, submits>>
      BY DEF Kill
<1>2. GoesOn(dirs, dirs')
      BY <1>1, AllStopGoesOn DEF IInv, TypeOK
<1>3. QED BY <1>1, <1>2, EndKeeps

LEMMA NodeShardKeeps ==
    ASSUME IInv, NEW p \in Present, NEW k \in DOMAIN dirs[p].nodes, NodeShard(p, k)
    PROVE  IInv'
<1> DEFINE d == dirs[p] n == d.nodes[k]
           m == [n EXCEPT !.done = @ + 1,
                          !.state = IF n.done + 1 = Shards(n, d.sps) THEN "over" ELSE @]
           e == [d EXCEPT !.nodes[k] = m]
<1>1. /\ n.state = "running" /\ dirs' = [dirs EXCEPT ![p].nodes[k] = m]
      /\ UNCHANGED <<source, config, pc, phase, slices, submits>>
      BY DEF NodeShard, Running
<1>2. /\ dirs \in [1..MaxPhases -> Dir \cup {None}] /\ p \in 1..MaxPhases
      /\ d \in Dir /\ n \in Node /\ d # None
      BY Directories, NoneAssumption DEF IInv, TypeOK
<1>3. m \in Node /\ NodeGoesOn(n, m, d.sps)
  <2> DEFINE t == Shards(n, d.sps)
  <2> HIDE DEF n, d, t
  <2>1. /\ m \in Node /\ m.urls = n.urls /\ m.done = n.done + 1
        /\ m.state = "running" => n.done + 1 # t
    <3>1. m = [n EXCEPT !.done = n.done + 1,
                        !.state = IF n.done + 1 = t THEN "over" ELSE n.state]
          BY DEF t
    <3> HIDE DEF m
    <3>2. n = [urls |-> n.urls, weather |-> n.weather, done |-> n.done, state |-> n.state]
          /\ n.urls \in Seq(STRING) /\ n.weather \in {"good", "outage"} /\ n.done \in Nat
          BY <1>2 DEF Node
    <3> DEFINE s == IF n.done + 1 = t THEN "over" ELSE n.state
    <3>3. s \in {"running", "over", "lost"} /\ (s = "running" => n.done + 1 # t)
      <4>1. n.state \in {"running", "over", "lost"}
            BY <1>2 DEF Node
      <4>2. QED BY <4>1
    <3> HIDE DEF s
    <3>4. m = [urls |-> n.urls, weather |-> n.weather, done |-> n.done + 1, state |-> s]
          BY <3>1, <3>2 DEF s
    <3>5. QED BY <3>2, <3>3, <3>4 DEF Node
  <2>2. QED BY <1>1, <2>1 DEF NodeGoesOn, t
<1>4. dirs' = [dirs EXCEPT ![p] = e]
      BY <1>1, <1>2
<1> HIDE DEF m
<1>5. e \in Dir /\ DirGoesOn(d, e)
      BY <1>2, <1>3, OneNodeGoesOn
<1> HIDE DEF e
<1>6. GoesOn(dirs, dirs')
      BY <1>2, <1>4, <1>5, OneGoesOn
<1>7. QED BY <1>1, <1>6, NodeKeeps

LEMMA NodeLostKeeps ==
    ASSUME IInv, NEW p \in Present, NEW k \in DOMAIN dirs[p].nodes, NodeLost(p, k)
    PROVE  IInv'
<1> DEFINE d == dirs[p] n == d.nodes[k] m == [n EXCEPT !.state = "lost"]
           e == [d EXCEPT !.nodes[k] = m]
<1>1. /\ n.state = "running" /\ dirs' = [dirs EXCEPT ![p].nodes[k].state = "lost"]
      /\ UNCHANGED <<source, config, pc, phase, slices, submits>>
      BY DEF NodeLost, Running
<1>2. /\ dirs \in [1..MaxPhases -> Dir \cup {None}] /\ p \in 1..MaxPhases
      /\ d \in Dir /\ n \in Node /\ d # None
      BY Directories, NoneAssumption DEF IInv, TypeOK
<1>3. m \in Node /\ NodeGoesOn(n, m, d.sps)
  <2> HIDE DEF n, d
  <2>1. m \in Node /\ m.urls = n.urls /\ m.done = n.done /\ m.state = "lost"
        BY <1>2 DEF Node
  <2>2. QED BY <2>1 DEF NodeGoesOn
<1>4. dirs' = [dirs EXCEPT ![p] = e]
      BY <1>1, <1>2
<1> HIDE DEF m
<1>5. e \in Dir /\ DirGoesOn(d, e)
      BY <1>2, <1>3, OneNodeGoesOn
<1> HIDE DEF e
<1>6. GoesOn(dirs, dirs')
      BY <1>2, <1>4, <1>5, OneGoesOn
<1>7. QED BY <1>1, <1>6, NodeKeeps

\* Nothing at all changes.
LEMMA StutterKeeps ==
    ASSUME IInv, UNCHANGED vars
    PROVE  IInv'
<1>1. UNCHANGED <<source, config, pc, phase, slices, dirs, submits>>
      BY DEF vars
<1>2. GoesOn(dirs, dirs')
      BY <1>1, NothingGoesOn DEF IInv, TypeOK
<1>3. QED BY <1>1, <1>2, NodeKeeps

\* The invariant holds of every state of an experiment.
THEOREM Invariance == Spec => []IInv
<1>1. Init => IInv
      BY Begun
<1>2. IInv /\ [Next]_vars => IInv'
  <2>1. SUFFICES ASSUME IInv, [Next]_vars PROVE IInv'
        OBVIOUS
  <2>2. ASSUME NEW c \in Configs, Submit(c) PROVE IInv'
        BY <2>1, <2>2, SubmitKeeps
  <2>3. CASE Archive
        BY <2>1, <2>3, ArchiveKeeps
  <2>4. CASE Archived
        BY <2>1, <2>4, ArchivedKeeps
  <2>5. CASE CutSlices
        BY <2>1, <2>5, CutSlicesKeeps
  <2>6. CASE Sliced
        BY <2>1, <2>6, SlicedKeeps
  <2>7. CASE OpenPhase
        BY <2>1, <2>7, OpenPhaseKeeps
  <2>8. CASE NoLauncher \/ StageFails
        BY <2>1, <2>8, PhaseLeftKeeps
  <2>9. CASE StageNode
        BY <2>1, <2>9, StageNodeKeeps
  <2>10. CASE EndPhase
        BY <2>1, <2>10, EndPhaseKeeps
  <2>11. CASE Kill
        BY <2>1, <2>11, KillKeeps
  <2>12. ASSUME NEW p \in Present, NEW k \in DOMAIN dirs[p].nodes, NodeShard(p, k) \/ NodeLost(p, k)
         PROVE  IInv'
        BY <2>1, <2>12, NodeShardKeeps, NodeLostKeeps
  <2>13. CASE UNCHANGED vars
        BY <2>1, <2>13, StutterKeeps
  <2>14. QED BY <2>1, <2>2, <2>3, <2>4, <2>5, <2>6, <2>7, <2>8, <2>9, <2>10, <2>11, <2>12,
            <2>13 DEF Next
<1>3. QED BY <1>1, <1>2, PTL DEF Spec


-----------------------------------------------------------------------------
(* What the runs check, for every instance. *)

\* The variables are what the configurations, the sources and the records of
\* directories and nodes allow.
THEOREM TypeCorrect == Spec => []TypeOK
<1>1. IInv => TypeOK
      BY DEF IInv
<1>2. QED BY <1>1, Invariance, PTL

\* The directories are of one attempt, and from the slicing on of the latest,
\* whose nodes get what was cut for it.
THEOREM OneMeasurementAlways == Spec => []OneMeasurement
<1>1. IInv => OneMeasurement
      BY DEF IInv, OneAttempt, JobSliced, CutsOf, OneMeasurement
<1>2. QED BY <1>1, Invariance, PTL

\* What a phase that is there has on its nodes, once its job has sliced.
LEMMA StagedWindows ==
    ASSUME TypeOK, NEW c \in Configs, Accepted(c), CutsMade(c, Len(Phases(c))), Staged(c),
           NEW p \in Present, NEW k \in DOMAIN dirs[p].nodes
    PROVE  LET n == dirs[p].nodes[k]
           IN  /\ n \in Node /\ p \in 1..Len(Phases(c)) /\ k \in 1..Phases(c)[p].nodes
               /\ UrlsOf(source) \in Seq(STRING)
               /\ IsWindow(n.urls, UrlsOf(source), Phases(c)[p].urls, First(c, p, k))
               /\ Shards(n, c.sps) = shard_count(Phases(c)[p].urls, c.sps)
<1> DEFINE n == dirs[p].nodes[k]
<1>1. p \in 1..Len(Phases(c))
      BY PhasesAre DEF Staged
<1>2. n \in Node /\ k \in Nat \ {0} /\ k <= Phases(c)[p].nodes /\ n.urls = CutsOf(c)[p][k]
  <2>1. n \in Node /\ k \in Nat \ {0}
        BY Directories
  <2>2. QED BY <2>1 DEF Staged
<1>3. /\ UrlsOf(source) \in Seq(STRING)
      /\ Phases(c)[p].nodes \in Nat
      /\ \A j \in 1..Phases(c)[p].nodes :
            IsWindow(CutsOf(c)[p][j], UrlsOf(source), Phases(c)[p].urls, First(c, p, j))
      BY <1>1, CutsAre DEF TypeOK
<1>4. k \in 1..Phases(c)[p].nodes
      BY <1>2, <1>3
<1>5. n.urls \in Seq(STRING) /\ Len(n.urls) = Phases(c)[p].urls
      BY <1>2, <1>3, <1>4 DEF Node, IsWindow
<1>6. c.sps \in Nat \ {0}
      BY ConfigsAre
<1>7. Shards(n, c.sps) = shard_count(Phases(c)[p].urls, c.sps)
      BY <1>5, <1>6, ShardsCounted
<1>8. QED BY <1>1, <1>2, <1>3, <1>4, <1>7

\* Each process of each node has its waves of shards, and equally many on one
\* node and on several.
THEOREM EveryProcessAlwaysWorks == Spec => []EveryProcessWorks
<1>1. IInv => EveryProcessWorks
  <2>1. SUFFICES ASSUME IInv, pc \in {"start", "run"}, NEW p \in Present, NEW q \in Present,
                        NEW n \in ToSet(dirs[p].nodes), NEW m \in ToSet(dirs[q].nodes)
                 PROVE  /\ Shards(n, config.sps) >= config.waves * dirs[p].processes
                        /\ config.kind = "0003" =>
                              Shards(n, config.sps) * dirs[q].processes
                                  = Shards(m, config.sps) * dirs[p].processes
        BY DEF EveryProcessWorks
  <2> DEFINE c == config
  <2>2. TypeOK /\ c \in Configs /\ Accepted(c) /\ CutsMade(c, Len(Phases(c))) /\ Staged(c)
        BY <2>1 DEF IInv, TypeOK, JobSliced, StagedByOne
  <2>3. /\ p \in 1..Len(Phases(c)) /\ dirs[p].processes = Phases(c)[p].processes
        /\ Shards(n, c.sps) = shard_count(Phases(c)[p].urls, c.sps)
    <3>1. PICK k \in DOMAIN dirs[p].nodes : n = dirs[p].nodes[k]
          BY <2>1 DEF ToSet
    <3>2. QED BY <2>1, <2>2, <3>1, StagedWindows DEF Staged
  <2>4. /\ q \in 1..Len(Phases(c)) /\ dirs[q].processes = Phases(c)[q].processes
        /\ Shards(m, c.sps) = shard_count(Phases(c)[q].urls, c.sps)
    <3>1. PICK k \in DOMAIN dirs[q].nodes : m = dirs[q].nodes[k]
          BY <2>1 DEF ToSet
    <3>2. QED BY <2>1, <2>2, <3>1, StagedWindows DEF Staged
  <2>5. QED BY <2>2, <2>3, <2>4, ShardsEnough
<1>2. QED BY <1>1, Invariance, PTL

-----------------------------------------------------------------------------
(* The suggested shard size. *)

\* The numbers of a sequence have a largest.
LEMMA LargestOf ==
    ASSUME NEW s \in Seq(Nat \ {0}), Len(s) > 0
    PROVE  Max(ToSet(s)) \in Nat \ {0} /\ \A i \in 1..Len(s) : s[i] <= Max(ToSet(s))
<1> DEFINE T == {k \in Nat : \E b \in Nat : \A i \in 1..k : s[i] <= b}
<1>1. Len(s) \in Nat /\ DOMAIN s = 1..Len(s) /\ \A i \in 1..Len(s) : s[i] \in Nat \ {0}
      BY ElementOfSeq, LenProperties
<1>2. 0 \in T
      OBVIOUS
<1>3. ASSUME NEW k \in 0..Len(s) - 1, k \in T PROVE k + 1 \in T
  <2> DEFINE j == k + 1
  <2>1. j \in Nat /\ j \in 1..Len(s) /\ \A i \in 1..j : i \in 1..k \/ i = j
        BY <1>1
  <2> HIDE DEF j
  <2>2. PICK b \in Nat : \A i \in 1..k : s[i] <= b
        BY <1>3
  <2> DEFINE a == b + s[j]
  <2>3. a \in Nat /\ a >= b /\ a >= s[j]
        BY <1>1, <2>1
  <2> HIDE DEF a
  <2>4. ASSUME NEW i \in 1..j PROVE s[i] <= a
    <3>1. s[i] \in Nat
          BY <1>1, <2>1
    <3>2. CASE i = j
          BY <2>3, <3>2
    <3>3. CASE i \in 1..k
      <4>1. s[i] <= b
            BY <2>2, <3>3
      <4>2. QED BY <2>3, <3>1, <4>1
    <3>4. QED BY <2>1, <3>2, <3>3
  <2>5. j \in T
        BY <2>1, <2>3, <2>4
  <2>6. QED BY <2>5 DEF j
<1> HIDE DEF T
<1>4. Len(s) \in T
  <2>1. \A k \in 0..Len(s) : k \in T
        BY <1>1, <1>2, <1>3, UpFrom
  <2>2. QED BY <1>1, <2>1
<1>5. PICK b \in Nat : \A i \in 1..Len(s) : s[i] <= b
      BY <1>1, <1>4 DEF T
<1> DEFINE V == ToSet(s)
<1>6. V = {s[i] : i \in 1..Len(s)}
      BY <1>1 DEF ToSet
<1>7. V \in SUBSET (1..b) /\ V # {}
      BY <1>1, <1>5, <1>6
<1> HIDE DEF V
<1>8. Max(V) \in V /\ \A k \in V : k <= Max(V)
      BY <1>7, MaxUpTo
<1>9. \A i \in 1..Len(s) : s[i] \in V
      BY <1>6
<1>10. QED BY <1>7, <1>8, <1>9 DEF V

\* A shard size that leaves the busiest of the levels its waves leaves all.
LEMMA SmallEnough ==
    ASSUME NEW slice \in Nat \ {0}, NEW levels \in Seq(Nat \ {0}), NEW waves \in Nat \ {0},
           NEW top \in Nat \ {0}, \A i \in 1..Len(levels) : levels[i] <= top,
           NEW sps \in Nat \ {0}, sps * (top * waves) <= slice
    PROVE  validate(plan(slice, sps, levels), waves) = {}
<1> DEFINE P == plan(slice, sps, levels) m == shard_count(slice, sps) d == top * waves
<1>1. d \in Nat
      OBVIOUS
<1>2. m \in Nat /\ m >= d
  <2> HIDE DEF d
  <2>1. slice + sps - 1 \in Nat /\ sps * d \in Nat
        BY <1>1
  <2>2. slice + sps - 1 >= sps * d
        BY <1>1, <2>1 DEF d
  <2> DEFINE x == slice + sps - 1
  <2> HIDE DEF x
  <2>3. x \in Nat /\ x >= sps * d
        BY <2>1, <2>2 DEF x
  <2>4. x \div sps \in Nat /\ x \div sps >= d
        BY <1>1, <2>3, PartsFit, Divided
  <2>5. QED BY <2>4 DEF x, shard_count
<1> HIDE DEF m
<1>3. ASSUME NEW i \in 1..Len(levels)
      PROVE  levels[i] \in Nat \ {0} /\ m >= waves * levels[i] /\ m >= levels[i]
  <2> DEFINE r == levels[i]
  <2>1. r \in Nat \ {0} /\ r <= top
        BY ElementOfSeq
  <2> HIDE DEF r
  <2>2. waves * r <= waves * top /\ r <= waves * r
        BY <2>1
  <2>3. waves * top = d
        OBVIOUS
  <2>4. waves * r \in Nat /\ waves * top \in Nat
        BY <2>1
  <2> HIDE DEF d
  <2>5. QED BY <1>1, <1>2, <2>1, <2>2, <2>3, <2>4 DEF r
<1>4. ASSUME NEW l \in ToSet(P)
      PROVE  ~ (l.effective < l.requested) /\ ~ (l.shards < waves * l.effective)
  <2>1. PICK i \in 1..Len(levels) :
              l = [requested |-> levels[i], shards |-> m,
                   effective |-> effective_processes(levels[i], m)]
    <3>1. DOMAIN levels = 1..Len(levels)
          BY LenProperties
    <3>2. QED BY <3>1 DEF ToSet, plan, m
  <2> DEFINE r == levels[i]
  <2>2. r \in Nat \ {0} /\ m >= waves * r /\ m >= r
        BY <1>3
  <2> HIDE DEF r
  <2>3. effective_processes(r, m) = r
        BY <1>2, <2>2 DEF effective_processes
  <2>4. l.effective = r /\ l.requested = r /\ l.shards = m
        BY <2>1, <2>3 DEF r
  <2>5. waves * r \in Nat
        BY <2>2
  <2>6. QED BY <1>2, <2>2, <2>4, <2>5
<1> HIDE DEF P
<1>5. validate(P, waves) = {}
      BY <1>4 DEF validate
<1>6. QED BY <1>5 DEF P

\* The shard size suggested in place of a refused one is accepted.
THEOREM SuggestionAlwaysAccepted == Spec => []SuggestionAccepted
<1>1. ASSUME NEW c \in Configs, c.kind = "0002",
             NEW sps, sps = suggest_samples_per_shard(c.slice, c.levels, c.waves), sps >= 1
      PROVE  plan_experiment_0002([c EXCEPT !.sps = sps]) = 0
  <2>1. /\ c.slice \in Nat \ {0} /\ c.waves \in Nat \ {0}
        /\ c.levels \in Seq(Nat \ {0}) /\ Len(c.levels) > 0
        BY <1>1, ConfigsAre
  <2> DEFINE top == Max(ToSet(c.levels)) d == top * c.waves
  <2>2. top \in Nat \ {0} /\ \A i \in 1..Len(c.levels) : c.levels[i] <= top
        BY <2>1, LargestOf
  <2>3. d \in Nat \ {0}
    <3> HIDE DEF top
    <3>1. QED BY <2>1, <2>2
  <2> HIDE DEF top
  <2>4. sps = c.slice \div d
        BY <1>1 DEF suggest_samples_per_shard, top
  <2>5. sps \in Nat \ {0} /\ sps * d <= c.slice
    <3> HIDE DEF d
    <3>1. sps \in Nat /\ d * sps <= c.slice
          BY <2>1, <2>3, <2>4, Divided
    <3>2. d * sps = sps * d
          BY <2>3, <3>1
    <3>3. QED BY <1>1, <3>1, <3>2
  <2>6. validate(plan(c.slice, sps, c.levels), c.waves) = {}
        BY <2>1, <2>2, <2>5, SmallEnough
  <2> DEFINE e == [c EXCEPT !.sps = sps]
  <2>7. e.slice = c.slice /\ e.levels = c.levels /\ e.waves = c.waves /\ e.sps = sps
        BY <1>1, ConfigsAssumption
  <2> HIDE DEF e
  <2>8. plan_experiment_0002(e) = 0
        BY <2>6, <2>7 DEF plan_experiment_0002
  <2>9. QED BY <2>8 DEF e
<1>2. IInv => SuggestionAccepted
      BY <1>1 DEF IInv, TypeOK, SuggestionAccepted
<1>3. QED BY <1>2, Invariance, PTL

-----------------------------------------------------------------------------
(* Disjoint phases. *)

\* The nodes of a phase take its slice between them.
LEMMA SliceShared ==
    ASSUME NEW c \in Configs, Accepted(c), NEW i \in 1..Len(Phases(c))
    PROVE  /\ Phases(c)[i].nodes \in Nat \ {0} /\ Phases(c)[i].urls \in Nat \ {0}
           /\ Phases(c)[i].nodes * Phases(c)[i].urls = c.slice
<1>1. c.slice \in Nat \ {0}
      BY ConfigsAre
<1>2. CASE c.kind = "0002"
      BY <1>1, <1>2, PhasesAre
<1>3. CASE c.kind = "0003"
  <2>1. i \in {1, 2, 3}
    <3>1. Len(Phases(c)) = 3
          BY <1>3, PhasesAre
    <3>2. QED BY <3>1
  <2>2. CASE i \in {1, 3}
        BY <1>1, <1>3, <2>2, PhasesAre
  <2>3. CASE i = 2
    <3> DEFINE u == c.slice \div c.nodes
    <3>1. c.nodes \in Nat \ {0} /\ u \in Nat \ {0} /\ u * c.nodes = c.slice
          BY <1>3, ConfigsAre, Accepted3
    <3>2. Phases(c)[2].nodes = c.nodes /\ Phases(c)[2].urls = u
          BY <1>3, PhasesAre
    <3> HIDE DEF u
    <3>3. c.nodes * u = u * c.nodes
          BY <3>1
    <3>4. QED BY <2>3, <3>1, <3>2, <3>3
  <2>4. QED BY <2>1, <2>2, <2>3
<1>4. QED BY <1>2, <1>3, ConfigsAre

\* The share of node k of phase i ends before that of node l of phase j begins.
LEMMA ShareBefore ==
    ASSUME NEW c \in Configs, Accepted(c),
           NEW i \in 1..Len(Phases(c)), NEW k \in 1..Phases(c)[i].nodes,
           NEW j \in 1..Len(Phases(c)), NEW l \in 1..Phases(c)[j].nodes,
           i < j \/ (i = j /\ k < l)
    PROVE  /\ First(c, i, k) \in Nat /\ First(c, j, l) \in Nat
           /\ First(c, i, k) + Phases(c)[i].urls <= First(c, j, l)
<1> DEFINE u == Phases(c)[i].urls v == Phases(c)[j].urls
           n == Phases(c)[i].nodes z == c.slice
<1>1. /\ u \in Nat \ {0} /\ v \in Nat \ {0} /\ z \in Nat \ {0} /\ n \in Nat \ {0}
      /\ n * u = z /\ Phases(c)[j].nodes \in Nat
      BY SliceShared, ConfigsAre
<1>2. First(c, i, k) = (i - 1) * z + (k - 1) * u /\ First(c, j, l) = (j - 1) * z + (l - 1) * v
      BY DEF First, Offset
<1>3. i \in Nat \ {0} /\ j \in Nat \ {0} /\ k \in Nat \ {0} /\ l \in Nat \ {0} /\ k <= n
      BY <1>1, PhasesAre
<1>4. i = j => u = v
      OBVIOUS
<1> HIDE DEF u, v, n, z
<1> DEFINE a == i - 1 b == j - 1 e == k - 1 f == l - 1
<1>5. /\ a \in Nat /\ b \in Nat /\ e \in Nat /\ f \in Nat
      /\ (a + 1 <= b) \/ (a = b /\ e + 1 <= f /\ u = v)
  <2>1. a \in Nat /\ b \in Nat /\ e \in Nat /\ f \in Nat
        BY <1>3
  <2>2. CASE i < j
        BY <1>3, <2>1, <2>2
  <2>3. CASE (i = j /\ k < l)
        BY <1>3, <1>4, <2>1, <2>3
  <2>4. QED BY <2>1, <2>2, <2>3
<1>6. e + 1 <= n
      BY <1>1, <1>3
<1> HIDE DEF a, b, e, f
<1>7. a * z \in Nat /\ b * z \in Nat /\ e * u \in Nat /\ f * v \in Nat
      BY <1>1, <1>5
<1>8. a * z + e * u + u <= b * z + f * v
  <2>1. e * u + u <= n * u
    <3>1. (e + 1) * u <= n * u
          BY <1>1, <1>5, <1>6
    <3>2. (e + 1) * u = e * u + u
          BY <1>1, <1>5
    <3>3. QED BY <3>1, <3>2
  <2>2. CASE a + 1 <= b
    <3>1. (a + 1) * z <= b * z
          BY <1>1, <1>5, <2>2
    <3>2. (a + 1) * z = a * z + z
          BY <1>1, <1>5
    <3>3. QED BY <1>1, <1>7, <2>1, <3>1, <3>2
  <2>3. CASE a = b /\ e + 1 <= f /\ u = v
    <3>1. (e + 1) * u <= f * u
          BY <1>1, <1>5, <2>3
    <3>2. (e + 1) * u = e * u + u
          BY <1>1, <1>5
    <3>3. QED BY <1>1, <1>7, <2>3, <3>1, <3>2
  <2>4. QED BY <1>5, <2>2, <2>3
<1>9. First(c, i, k) = a * z + e * u /\ First(c, j, l) = b * z + f * v
      BY <1>2 DEF a, b, e, f
<1> DEFINE A == a * z B == b * z E == e * u F == f * v
<1>10. /\ A \in Nat /\ B \in Nat /\ E \in Nat /\ F \in Nat /\ A + E + u <= B + F
       /\ First(c, i, k) = A + E /\ First(c, j, l) = B + F
       BY <1>7, <1>8, <1>9
<1> HIDE DEF A, B, E, F
<1>11. /\ First(c, i, k) \in Nat /\ First(c, j, l) \in Nat
       /\ First(c, i, k) + u <= First(c, j, l)
  <2>1. u \in Nat
        BY <1>1
  <2>2. A + E \in Nat /\ B + F \in Nat /\ (A + E) + u <= B + F
        BY <1>10, <2>1
  <2>3. QED BY <1>10, <2>2
<1>12. QED BY <1>11 DEF u

\* What two nodes take stands at other places of the source.
LEMMA SharesApart ==
    ASSUME NEW c \in Configs, Accepted(c),
           NEW i \in 1..Len(Phases(c)), NEW k \in 1..Phases(c)[i].nodes,
           NEW j \in 1..Len(Phases(c)), NEW l \in 1..Phases(c)[j].nodes,
           <<i, k>> # <<j, l>>,
           NEW x \in 1..Phases(c)[i].urls, NEW y \in 1..Phases(c)[j].urls
    PROVE  First(c, i, k) + x # First(c, j, l) + y
<1>1. /\ i \in Nat /\ j \in Nat /\ k \in Nat /\ l \in Nat
      /\ Phases(c)[i].urls \in Nat /\ Phases(c)[j].urls \in Nat
      BY SliceShared, PhasesAre
<1>2. CASE i < j \/ (i = j /\ k < l)
  <2>1. /\ First(c, i, k) \in Nat /\ First(c, j, l) \in Nat
        /\ First(c, i, k) + Phases(c)[i].urls <= First(c, j, l)
        BY <1>2, ShareBefore
  <2>2. QED BY <1>1, <2>1
<1>3. CASE j < i \/ (j = i /\ l < k)
  <2>1. /\ First(c, i, k) \in Nat /\ First(c, j, l) \in Nat
        /\ First(c, j, l) + Phases(c)[j].urls <= First(c, i, k)
        BY <1>3, ShareBefore
  <2>2. QED BY <1>1, <2>1
<1>4. (i < j \/ (i = j /\ k < l)) \/ (j < i \/ (j = i /\ l < k))
  <2>1. i # j \/ k # l
        OBVIOUS
  <2>2. i \in Nat /\ j \in Nat /\ k \in Nat /\ l \in Nat
        BY <1>1
  <2>3. (i < j \/ i = j \/ j < i) /\ (k < l \/ k = l \/ l < k)
        BY <2>2
  <2>4. QED BY <2>1, <2>3
<1>5. QED BY <1>2, <1>3, <1>4

\* No URL stands twice in a list, or in the URL column of a table.
UrlsUnique ==
    \A s \in Sources :
       (s.format = "parquet" => choose_url_column(s.columns) # NoColumn) =>
          \A a, b \in 1..Len(UrlsOf(s)) : UrlsOf(s)[a] = UrlsOf(s)[b] => a = b

\* A source that was cut has URLs.
LEMMA CutHasColumn ==
    ASSUME NEW c \in Configs, CutsMade(c, Len(Phases(c))), source.format = "parquet"
    PROVE  choose_url_column(source.columns) # NoColumn
<1>1. Cut(c, 1).rc = 0
  <2>1. 1 \in 1..Len(Phases(c))
        BY PhasesAre
  <2>2. QED BY <2>1 DEF CutsMade
<1>2. SUFFICES ASSUME choose_url_column(source.columns) = NoColumn PROVE FALSE
      OBVIOUS
<1>3. \A count, n, offset : cut_parquet(source, count, n, offset).rc = 1
      BY <1>2 DEF cut_parquet
<1>4. \A count, n, offset : slice_urls(source, count, n, offset).rc = 1
      BY <1>3 DEF slice_urls
<1>5. QED BY <1>1, <1>4 DEF Cut

\* Phases of one experiment never share URLs, nor do the nodes of one, in a
\* source without duplicates; and the nodes of a phase that runs have all of
\* its slice.
THEOREM PhasesAlwaysDisjoint ==
    ASSUME UrlsUnique
    PROVE  Spec => []PhasesDisjoint
<1>1. ASSUME IInv, NEW p \in Present, NEW k \in DOMAIN dirs[p].nodes,
             NEW q \in Present, NEW l \in DOMAIN dirs[q].nodes, <<p, k>> # <<q, l>>
      PROVE  ToSet(dirs[p].nodes[k].urls) \cap ToSet(dirs[q].nodes[l].urls) = {}
  <2> DEFINE U == UrlsOf(source) n == dirs[p].nodes[k] m == dirs[q].nodes[l]
  <2>1. PICK c \in Configs : Accepted(c) /\ CutsMade(c, Len(Phases(c))) /\ Staged(c)
        BY <1>1 DEF IInv, StagedByOne
  <2>2. TypeOK
        BY <1>1 DEF IInv
  <2>3. /\ n \in Node /\ p \in 1..Len(Phases(c)) /\ k \in 1..Phases(c)[p].nodes
        /\ IsWindow(n.urls, U, Phases(c)[p].urls, First(c, p, k))
        BY <1>1, <2>1, <2>2, StagedWindows
  <2>4. /\ m \in Node /\ q \in 1..Len(Phases(c)) /\ l \in 1..Phases(c)[q].nodes
        /\ IsWindow(m.urls, U, Phases(c)[q].urls, First(c, q, l))
        BY <1>1, <2>1, <2>2, StagedWindows
  <2>5. \A a, b \in 1..Len(U) : U[a] = U[b] => a = b
        BY <2>1, <2>2, CutHasColumn, UrlsUnique DEF UrlsUnique, TypeOK
  <2>6. DOMAIN n.urls = 1..Phases(c)[p].urls /\ DOMAIN m.urls = 1..Phases(c)[q].urls
    <3>1. n.urls \in Seq(STRING) /\ m.urls \in Seq(STRING)
          BY <2>3, <2>4 DEF Node
    <3>2. QED BY <2>3, <2>4, <3>1, LenProperties DEF IsWindow
  <2>7. ASSUME NEW x \in 1..Phases(c)[p].urls, NEW y \in 1..Phases(c)[q].urls
        PROVE  n.urls[x] # m.urls[y]
    <3>1. First(c, p, k) + x # First(c, q, l) + y
          BY <1>1, <2>1, <2>3, <2>4, <2>7, SharesApart
    <3>2. /\ First(c, p, k) + x \in 1..Len(U) /\ n.urls[x] = U[First(c, p, k) + x]
          /\ First(c, q, l) + y \in 1..Len(U) /\ m.urls[y] = U[First(c, q, l) + y]
          BY <2>3, <2>4, <2>7 DEF IsWindow
    <3> HIDE DEF U
    <3>3. QED BY <2>5, <3>1, <3>2
  <2> HIDE DEF n, m
  <2>8. ToSet(n.urls) \cap ToSet(m.urls) = {}
        BY <2>6, <2>7 DEF ToSet
  <2>9. QED BY <2>8 DEF n, m
<1>2. ASSUME IInv, pc = "run"
      PROVE  config.slice = Len(FlattenSeq([k \in DOMAIN dirs[phase].nodes |->
                                              dirs[phase].nodes[k].urls]))
  <2> DEFINE c == config R == [k \in DOMAIN dirs[phase].nodes |-> dirs[phase].nodes[k].urls]
             P == Phases(c)[phase]
  <2>1. /\ TypeOK /\ c \in Configs /\ Accepted(c) /\ CutsMade(c, Len(Phases(c))) /\ Staged(c)
        /\ phase \in Present /\ Len(dirs[phase].nodes) = P.nodes
        BY <1>2 DEF IInv, TypeOK, JobSliced, StagedByOne, InPhase
  <2>2. phase \in 1..Len(Phases(c))
        BY <2>1, PhasesAre DEF Staged
  <2>3. P.nodes \in Nat \ {0} /\ P.urls \in Nat \ {0} /\ P.nodes * P.urls = c.slice
        BY <2>1, <2>2, SliceShared
  <2>4. DOMAIN dirs[phase].nodes = 1..P.nodes
        BY <2>1, Directories
  <2>5. ASSUME NEW k \in 1..P.nodes
        PROVE  R[k] \in Seq(STRING) /\ Len(R[k]) = P.urls
    <3>1. /\ dirs[phase].nodes[k] \in Node
          /\ IsWindow(dirs[phase].nodes[k].urls, UrlsOf(source), P.urls, First(c, phase, k))
          BY <2>1, <2>4, StagedWindows
    <3>2. QED BY <2>4, <3>1 DEF Node, IsWindow
  <2> HIDE DEF P
  <2>6. R = [k \in 1..P.nodes |-> R[k]]
        BY <2>4
  <2> HIDE DEF R
  <2>7. R \in Seq(Seq(STRING)) /\ Len(R) = P.nodes
    <3> DEFINE Q == Seq(STRING) n == P.nodes
    <3>1. n \in Nat /\ \A k \in 1..n : R[k] \in Q
          BY <2>3, <2>5
    <3>2. R = [k \in 1..n |-> R[k]]
          BY <2>6
    <3> HIDE DEF Q, n
    <3>3. R \in Seq(Q) /\ Len(R) = n
          BY <3>1, <3>2
    <3>4. QED BY <3>3 DEF Q, n
  <2>8. Len(FlattenSeq(R)) = Len(R) * P.urls
        BY <2>3, <2>5, <2>7, FlattenLength
  <2>9. QED BY <2>3, <2>7, <2>8 DEF R
<1>3. ASSUME IInv PROVE PhasesDisjoint
  <2> DEFINE shares == UNION {{p} \X DOMAIN dirs[p].nodes : p \in Present}
  <2>1. ASSUME NEW s \in shares
        PROVE  s[1] \in Present /\ s[2] \in DOMAIN dirs[s[1]].nodes /\ s = <<s[1], s[2]>>
        OBVIOUS
  <2>2. ASSUME NEW s \in shares, NEW r \in shares, s # r
        PROVE  ToSet(dirs[s[1]].nodes[s[2]].urls) \cap ToSet(dirs[r[1]].nodes[r[2]].urls) = {}
    <3>1. /\ s[1] \in Present /\ s[2] \in DOMAIN dirs[s[1]].nodes
          /\ r[1] \in Present /\ r[2] \in DOMAIN dirs[r[1]].nodes
          /\ <<s[1], s[2]>> # <<r[1], r[2]>>
          BY <2>1, <2>2
    <3>2. QED BY <1>1, <1>3, <3>1
  <2>3. <<phase, 1>>[1] = phase /\ \A k : <<phase, k>>[1] = phase /\ <<phase, k>>[2] = k
        OBVIOUS
  <2>4. QED BY <1>2, <1>3, <2>2, <2>3 DEF PhasesDisjoint
<1>4. QED BY <1>3, Invariance, PTL

-----------------------------------------------------------------------------
(* A corpus and the list of it. *)

\* No URL of a table is blank.
NoneBlank(urls) == \A j \in DOMAIN urls : urls[j] # ""

NoUrlBlank ==
    \A s \in Sources :
       (s.format = "parquet" /\ choose_url_column(s.columns) # NoColumn) => NoneBlank(UrlsOf(s))

\* The list of a table: its header and its rows.
LEMMA ListIs ==
    ASSUME NEW s, IsTable(s), Len(s.columns) > 1
    PROVE  LET lines == AsText(s)
               rows == FlattenSeq(s.files)
           IN  /\ s.columns \in Seq(STRING) \ {<<>>} /\ rows \in Seq(Wide(s.columns))
               /\ lines \in Seq(Seq(STRING) \ {<<>>}) /\ lines # <<>>
               /\ Head(lines) = s.columns /\ Tail(lines) = rows
<1> DEFINE rows == FlattenSeq(s.files) c == s.columns L == Seq(STRING) \ {<<>>}
           lines == AsText(s)
<1>1. c \in L
      BY DEF IsTable
<1>2. rows \in Seq(Wide(c))
      BY RowsRead, 0 \in Nat
<1>3. Wide(c) \subseteq L
  <2>1. \A r \in Wide(c) : r # <<>>
        BY DEF Wide
  <2>2. QED BY <2>1 DEF Wide
<1>4. rows \in Seq(L)
  <2>1. \A i \in 1..Len(rows) : rows[i] \in L
    <3> HIDE DEF rows, L
    <3>1. QED BY <1>2, <1>3, ElementOfSeq
  <2> HIDE DEF rows, L
  <2>2. QED BY <1>2, <2>1, SeqOver
<1>5. lines = <<c>> \o rows
      BY DEF AsText
<1> HIDE DEF rows, L, c, lines
<1>6. lines \in Seq(L) /\ lines # <<>> /\ Head(lines) = c /\ Tail(lines) = rows
  <2> DEFINE h == <<c>>
  <2>1. h \in Seq(L) /\ Len(h) = 1 /\ h[1] = c
        BY <1>1
  <2> HIDE DEF h
  <2>2. lines = h \o rows
        BY <1>5 DEF h
  <2>3. /\ lines \in Seq(L) /\ Len(lines) = 1 + Len(rows)
        /\ \A i \in 1..1 + Len(rows) : lines[i] = IF i <= 1 THEN h[i] ELSE rows[i - 1]
    <3>1. /\ h \o rows \in Seq(L) /\ Len(h \o rows) = Len(h) + Len(rows)
          /\ \A i \in 1..Len(h) + Len(rows) :
                (h \o rows)[i] = IF i <= Len(h) THEN h[i] ELSE rows[i - Len(h)]
          BY <1>4, <2>1, ConcatProperties
    <3>2. QED BY <2>1, <2>2, <3>1
  <2>4. Len(rows) \in Nat
        BY <1>4, LenProperties
  <2>5. lines # <<>> /\ lines[1] = c
        BY <2>1, <2>3, <2>4
  <2>6. Head(lines) = c
        BY <2>5
  <2>7. /\ Tail(lines) \in Seq(L) /\ Len(Tail(lines)) = Len(rows)
        /\ \A i \in 1..Len(rows) : Tail(lines)[i] = lines[i + 1]
        BY <2>3, <2>4, <2>5, HeadTailProperties
  <2>8. ASSUME NEW i \in 1..Len(rows) PROVE Tail(lines)[i] = rows[i]
    <3> DEFINE j == i + 1
    <3>1. j \in 1..1 + Len(rows) /\ ~ (j <= 1) /\ j - 1 = i
          BY <2>4
    <3> HIDE DEF j
    <3>2. lines[j] = rows[i]
          BY <2>3, <3>1
    <3>3. QED BY <2>7, <3>2 DEF j
  <2>9. Tail(lines) = rows
        BY <1>4, <2>7, <2>8, SeqEqual
  <2>10. QED BY <2>3, <2>5, <2>6, <2>9
<1>7. QED BY <1>1, <1>2, <1>6 DEF c, rows, L, lines

\* The URLs of a table that has a column for them.
LEMMA TableUrls ==
    ASSUME NEW s, IsTable(s), choose_url_column(s.columns) # NoColumn
    PROVE  /\ UrlsOf(s) \in Seq(STRING) /\ Len(UrlsOf(s)) = Len(FlattenSeq(s.files))
           /\ Column(s) \in 1..Len(s.columns)
<1> DEFINE rows == FlattenSeq(s.files) W == Wide(s.columns)
<1>1. rows \in Seq(W)
      BY RowsRead, 0 \in Nat
<1>2. Column(s) \in 1..Len(s.columns)
      BY ColumnFound DEF Column, IsTable
<1> HIDE DEF rows, W
<1>3. Len(rows) \in Nat /\ \A j \in 1..Len(rows) : rows[j] \in W
      BY <1>1, LenProperties, ElementOfSeq
<1>4. \A j \in 1..Len(rows) : rows[j][Column(s)] \in STRING
  <2>1. SUFFICES ASSUME NEW j \in 1..Len(rows) PROVE rows[j][Column(s)] \in STRING
        OBVIOUS
  <2>2. rows[j] \in Seq(STRING) /\ Len(rows[j]) = Len(s.columns)
        BY <1>3 DEF W, Wide
  <2>3. Column(s) \in 1..Len(rows[j])
        BY <1>2, <2>2
  <2> HIDE DEF Column
  <2>4. QED BY <2>2, <2>3, ElementOfSeq
<1>5. UrlsOf(s) = [j \in 1..Len(rows) |-> rows[j][Column(s)]]
      BY DEF UrlsOf, IsTable, rows
<1>6. QED BY <1>2, <1>3, <1>4, <1>5 DEF rows

\* The list has the URLs of the table if none of them is blank.
LEMMA ListUrls ==
    ASSUME NEW s, IsTable(s), Len(s.columns) > 1, choose_url_column(s.columns) # NoColumn,
           NoneBlank(UrlsOf(s))
    PROVE  extract_urls(AsText(s)) = UrlsOf(s)
<1> DEFINE lines == AsText(s) rows == FlattenSeq(s.files) U == UrlsOf(s)
           W == Wide(s.columns) col == Column(s)
<1>1. /\ rows \in Seq(W) /\ lines # <<>>
      /\ Head(lines) = s.columns /\ Tail(lines) = rows
      BY ListIs
<1>2. /\ U \in Seq(STRING) /\ Len(U) = Len(rows) /\ col \in 1..Len(s.columns)
      /\ U = [j \in 1..Len(rows) |-> rows[j][col]]
      BY TableUrls DEF UrlsOf, IsTable
<1> HIDE DEF lines, rows, U, col
<1>3. looks_like_header(Head(lines)) /\ find_url_column(Head(lines)) = col
  <2>1. Len(s.columns) # 1 /\ choose_url_column(s.columns) # NoColumn
    <3>1. Len(s.columns) \in Nat
          BY LenProperties DEF IsTable
    <3> DEFINE x == Len(s.columns)
    <3>2. x \in Nat /\ x > 1
          BY <3>1
    <3> HIDE DEF x
    <3>3. x # 1
          BY <3>2
    <3>4. QED BY <3>3 DEF x
  <2>2. QED BY <1>1, <2>1 DEF looks_like_header, find_url_column, col, Column
<1>4. extract_urls(lines) = NotBlank([i \in DOMAIN rows |-> Field(rows[i], col)])
      BY <1>1, <1>3 DEF extract_urls
<1>5. DOMAIN rows = 1..Len(rows) /\ \A j \in 1..Len(rows) : rows[j] \in W
  <2> HIDE DEF W
  <2>1. QED BY <1>1, LenProperties, ElementOfSeq
<1>6. ASSUME NEW j \in 1..Len(rows) PROVE Field(rows[j], col) = rows[j][col]
  <2>1. rows[j] \in Seq(STRING) /\ Len(rows[j]) = Len(s.columns)
        BY <1>5 DEF W, Wide
  <2>2. col # 0 /\ col <= Len(rows[j])
    <3>1. Len(s.columns) \in Nat
          BY LenProperties DEF IsTable
    <3>2. col \in 1..Len(s.columns)
          BY <1>2
    <3>3. QED BY <2>1, <3>1, <3>2
  <2>3. QED BY <2>2 DEF Field
<1>7. [i \in DOMAIN rows |-> Field(rows[i], col)] = U
      BY <1>2, <1>5, <1>6
<1>8. U \in Seq(Fieldtext)
  <2>1. \A i \in 1..Len(U) : U[i] \in Fieldtext
        BY <1>2, ElementOfSeq DEF Fieldtext
  <2>2. QED BY <1>2, <2>1, SeqOver
<1>9. NotBlank(U) = U
      BY <1>8, NotBlankTyped DEF U, NoneBlank
<1>10. QED BY <1>4, <1>7, <1>9 DEF lines, U

\* A corpus whose URLs are not blank and the same corpus as a list, with its
\* header, give the same slices or are both refused.
THEOREM FormatsAlwaysAgree ==
    ASSUME NoUrlBlank
    PROVE  Spec => []FormatsAgree
<1>1. ASSUME TypeOK, source.format = "parquet", Len(source.columns) > 1,
             NEW i \in 1..MaxPhases
      PROVE  LET table == cut_parquet(source, config.slice, i, Offset(config, i))
                 list == cut_text(AsText(source), config.slice, i, Offset(config, i))
             IN  /\ table.rc = 0 <=> list.rc = 0
                 /\ table.rc = 0 => table.slices = list.slices
  <2> DEFINE s == source z == config.slice o == Offset(config, i) lines == AsText(s)
             rows == FlattenSeq(s.files) m == o + z * i
             table == cut_parquet(s, z, i, o) list == cut_text(lines, z, i, o)
  <2>1. s \in Sources /\ IsTable(s)
        BY <1>1, TablesAre DEF TypeOK
  <2>2. z \in Nat \ {0} /\ i \in Nat \ {0} /\ o \in Nat
    <3>1. z \in Nat \ {0} /\ i \in Nat \ {0}
          BY <1>1, ConfigsAre DEF TypeOK
    <3>2. i - 1 \in Nat
          BY <3>1
    <3>3. QED BY <3>1, <3>2 DEF Offset
  <2> HIDE DEF o, z, s
  <2>3. /\ s.columns \in Seq(STRING) \ {<<>>}
        /\ lines \in Seq(Seq(STRING) \ {<<>>}) /\ lines # <<>> /\ Head(lines) = s.columns
        BY <1>1, <2>1, ListIs DEF s
  <2>4. /\ table.rc = 0 <=> /\ choose_url_column(s.columns) # NoColumn
                            /\ Len(rows) >= m
        /\ table.rc = 0 => table.slices = Windows(UrlsOf(s), z, i, o)
        BY <2>1, <2>2, TableCut
  <2>5. /\ list.rc = 0 <=> /\ ~ (lines # <<>> /\ Ambiguous(lines))
                           /\ Len(extract_urls(lines)) >= m
        /\ list.rc = 0 => list.slices = Windows(extract_urls(lines), z, i, o)
        BY <2>2, <2>3, TextCut
  <2>6. Ambiguous(lines) <=> choose_url_column(s.columns) = NoColumn
        BY <1>1, <2>3 DEF Ambiguous, looks_like_header, s
  <2> HIDE DEF table, list, m, rows, lines
  <2>7. CASE choose_url_column(s.columns) = NoColumn
        BY <2>3, <2>4, <2>5, <2>6, <2>7 DEF table, list, lines, s, z, o
  <2>8. CASE choose_url_column(s.columns) # NoColumn
    <3>1. NoneBlank(UrlsOf(s))
          BY <2>1, <2>8, NoUrlBlank DEF NoUrlBlank, IsTable
    <3>2. extract_urls(lines) = UrlsOf(s)
          BY <1>1, <2>1, <2>8, <3>1, ListUrls DEF lines, s
    <3>3. Len(UrlsOf(s)) = Len(rows)
          BY <2>1, <2>8, TableUrls DEF rows
    <3>4. /\ table.rc = 0 <=> list.rc = 0
          /\ table.rc = 0 => table.slices = list.slices
          BY <2>4, <2>5, <2>6, <2>8, <3>2, <3>3
    <3>5. QED BY <3>4 DEF table, list, lines, s, z, o
  <2>9. QED BY <2>7, <2>8
<1>2. TypeOK => FormatsAgree
      BY <1>1 DEF FormatsAgree
<1>3. QED BY <1>2, TypeCorrect, PTL

-----------------------------------------------------------------------------
(* Sums of counts, and what an outage makes of them. *)

Counts == [candidates : Nat, successes : Nat, dns : Nat]

\* b is what a may become when URLs are lost to DNS.
CountsWorse(a, b) ==
    b.candidates = a.candidates /\ b.successes <= a.successes /\ a.dns <= b.dns

LEMMA AddWorse ==
    ASSUME NEW a \in Counts, NEW b \in Counts, NEW x \in Counts, NEW y \in Counts,
           CountsWorse(a, b), CountsWorse(x, y)
    PROVE  AddCounts(a, x) \in Counts /\ CountsWorse(AddCounts(a, x), AddCounts(b, y))
BY DEF Counts, CountsWorse, AddCounts

\* g[U] is the sum of the members U of s.
Summed(s, g) ==
    g = [U \in SUBSET DOMAIN s |->
           IF U = {} THEN EmptyCounts
           ELSE AddCounts(s[CHOOSE i \in U : TRUE], g[U \ {CHOOSE i \in U : TRUE}])]

LEMMA SumIsSummed ==
    ASSUME NEW s \in Seq(Counts)
    PROVE  \E g : Summed(s, g) /\ FoldSeq(AddCounts, EmptyCounts, s) = g[DOMAIN s]
<1> DEFINE D == DOMAIN s V == Counts
           pick == [U \in SUBSET D |-> CHOOSE i \in U : TRUE]
           op == [x \in D \X V |-> AddCounts(s[x[1]], x[2])]
<1>1. IsFiniteSet(D) /\ \A i \in D : s[i] \in Counts
  <2>1. D = 1..Len(s) /\ Len(s) \in Nat /\ \A i \in 1..Len(s) : s[i] \in Counts
        BY LenProperties, ElementOfSeq
  <2>2. QED BY <2>1, FS_Interval
<1>2. Picks(pick, D)
      BY DEF Picks
<1>3. op \in [D \X V -> V] /\ EmptyCounts \in V
  <2>1. \A a, b \in Counts : AddCounts(a, b) \in Counts
        BY DEF AddCounts, Counts
  <2>2. EmptyCounts \in V
        BY DEF EmptyCounts, Counts
  <2> HIDE DEF V, D
  <2>3. \A x \in D \X V : AddCounts(s[x[1]], x[2]) \in V
        BY <1>1, <2>1 DEF V
  <2>4. QED BY <2>2, <2>3
<1>4. PICK g : Folds(op, EmptyCounts, pick, D, g)
  <2> HIDE DEF op, pick, D
  <2>1. QED BY <1>1, <1>2, FoldsExist
<1>5. \A U \in SUBSET D : g[U] \in V
  <2> HIDE DEF op, pick, D, V
  <2>1. QED BY <1>1, <1>2, <1>3, <1>4, FoldsTyped
<1>6. ASSUME NEW U \in SUBSET D
      PROVE  g[U] = IF U = {} THEN EmptyCounts
                    ELSE AddCounts(s[CHOOSE i \in U : TRUE], g[U \ {CHOOSE i \in U : TRUE}])
  <2>1. CASE U = {}
        BY <1>4, <2>1 DEF Folds
  <2>2. CASE U # {}
    <3> DEFINE x == CHOOSE i \in U : TRUE v == g[U \ {x}]
    <3>1. pick[U] = x /\ x \in D /\ v \in V
          BY <1>5, <2>2
    <3>2. g[U] = op[<<pick[U], g[U \ {pick[U]}]>>]
      <4> HIDE DEF op, pick
      <4>1. QED BY <1>4, <2>2 DEF Folds
    <3>3. g[U] = op[<<x, v>>]
          BY <3>1, <3>2
    <3> HIDE DEF x, v
    <3>4. g[U] = AddCounts(s[x], v)
          BY <3>1, <3>3
    <3>5. QED BY <2>2, <3>4 DEF x, v
  <2>3. QED BY <2>1, <2>2
<1>7. g = [U \in SUBSET D |-> g[U]]
      BY <1>4 DEF Folds
<1>8. Summed(s, g)
  <2> HIDE DEF D
  <2>1. QED BY <1>6, <1>7 DEF Summed, D
<1>9. FoldSeq(AddCounts, EmptyCounts, s) =
        (CHOOSE h : h = [U \in SUBSET DOMAIN s |->
                           IF U = {} THEN EmptyCounts
                           ELSE AddCounts(s[CHOOSE i \in U : TRUE],
                                          h[U \ {CHOOSE i \in U : TRUE}])])[DOMAIN s]
      BY DEF FoldSeq, FoldFunction, FoldFunctionOnSet, MapThenFoldSet
<1>10. FoldSeq(AddCounts, EmptyCounts, s) = (CHOOSE h : Summed(s, h))[DOMAIN s]
      BY <1>9 DEF Summed
<1>11. QED BY <1>8, <1>10

\* What is worse shard by shard is worse altogether.
LEMMA SumsWorse ==
    ASSUME NEW s \in Seq(Counts), NEW t \in Seq(Counts), Len(t) = Len(s),
           \A i \in 1..Len(s) : CountsWorse(s[i], t[i])
    PROVE  LET a == FoldSeq(AddCounts, EmptyCounts, s)
               b == FoldSeq(AddCounts, EmptyCounts, t)
           IN  a \in Counts /\ b \in Counts /\ CountsWorse(a, b)
<1> DEFINE D == DOMAIN s
<1>1. /\ DOMAIN t = D /\ IsFiniteSet(D)
      /\ \A i \in D : s[i] \in Counts /\ t[i] \in Counts /\ CountsWorse(s[i], t[i])
  <2>1. D = 1..Len(s) /\ Len(s) \in Nat /\ DOMAIN t = 1..Len(s)
        BY LenProperties
  <2>2. \A i \in 1..Len(s) : s[i] \in Counts /\ t[i] \in Counts
        BY ElementOfSeq
  <2>3. IsFiniteSet(1..Len(s))
        BY <2>1, FS_Interval
  <2>4. \A i \in 1..Len(s) : CountsWorse(s[i], t[i])
        OBVIOUS
  <2> HIDE DEF D
  <2>5. QED BY <2>1, <2>2, <2>3, <2>4
<1>2. PICK g : Summed(s, g) /\ FoldSeq(AddCounts, EmptyCounts, s) = g[D]
      BY SumIsSummed
<1>3. PICK h : Summed(t, h) /\ FoldSeq(AddCounts, EmptyCounts, t) = h[D]
      BY <1>1, SumIsSummed
<1> HIDE DEF D
<1> DEFINE Good(U) == g[U] \in Counts /\ h[U] \in Counts /\ CountsWorse(g[U], h[U])
           F == {U \in SUBSET D : ~ Good(U)}
<1>4. CASE F = {}
  <2>1. Good(D)
        BY <1>4
  <2>2. QED BY <1>2, <1>3, <2>1
<1>5. CASE F # {}
  <2>1. PICK U \in F : \A W \in SUBSET U : W # U => W \notin F
    <3>1. F \subseteq SUBSET D
          OBVIOUS
    <3> HIDE DEF F
    <3>2. QED BY <1>1, <1>5, <3>1, SmallestSet
  <2>2. U \in SUBSET D /\ ~ Good(U)
        OBVIOUS
  <2> DEFINE x == CHOOSE i \in U : TRUE R == U \ {x}
  <2>3. /\ g[U] = IF U = {} THEN EmptyCounts ELSE AddCounts(s[x], g[R])
        /\ h[U] = IF U = {} THEN EmptyCounts ELSE AddCounts(t[x], h[R])
        BY <1>1, <1>2, <1>3, <2>2 DEF Summed, D
  <2>4. CASE U = {}
    <3>1. EmptyCounts \in Counts /\ CountsWorse(EmptyCounts, EmptyCounts)
          BY DEF EmptyCounts, Counts, CountsWorse
    <3>2. QED BY <2>2, <2>3, <2>4, <3>1
  <2>5. CASE U # {}
    <3>1. x \in U /\ x \in D /\ R \in SUBSET U /\ R # U /\ R \in SUBSET D
          BY <2>2, <2>5
    <3>2. R \notin F
          BY <2>1, <3>1
    <3>3. Good(R)
          BY <3>1, <3>2
    <3> HIDE DEF x, R
    <3>4. /\ s[x] \in Counts /\ t[x] \in Counts /\ CountsWorse(s[x], t[x])
          /\ g[R] \in Counts /\ h[R] \in Counts /\ CountsWorse(g[R], h[R])
          BY <1>1, <3>1, <3>3
    <3>5. \A a, b \in Counts : AddCounts(a, b) \in Counts
          BY DEF AddCounts, Counts
    <3>6. CountsWorse(AddCounts(s[x], g[R]), AddCounts(t[x], h[R]))
          BY <3>4, AddWorse
    <3>7. g[U] \in Counts /\ h[U] \in Counts /\ CountsWorse(g[U], h[U])
          BY <2>3, <2>5, <3>4, <3>5, <3>6
    <3>8. QED BY <2>2, <3>7
  <2>6. QED BY <2>4, <2>5
<1>6. QED BY <1>4, <1>5

\* Sequences that are alike, end to end.
LEMMA FlattenAlike ==
    ASSUME NEW S, NEW R \in Seq(Seq(S)), NEW Q \in Seq(Seq(S)), Len(Q) = Len(R),
           NEW rel,
           \A k \in 1..Len(R) : /\ Len(Q[k]) = Len(R[k])
                                /\ \A j \in 1..Len(R[k]) : <<R[k][j], Q[k][j]>> \in rel
    PROVE  /\ Len(FlattenSeq(Q)) = Len(FlattenSeq(R))
           /\ \A j \in 1..Len(FlattenSeq(R)) : <<FlattenSeq(R)[j], FlattenSeq(Q)[j]>> \in rel
<1> DEFINE Alike(x, y) == /\ Len(y) = Len(x)
                          /\ \A j \in 1..Len(x) : <<x[j], y[j]>> \in rel
           n == Len(R)
<1>1. n \in Nat
      BY LenProperties
<1>2. CASE n = 0
  <2>1. R = <<>> /\ Q = <<>>
        BY <1>2, EmptySeq
  <2>2. FlattenSeq(<<>>) = <<>> /\ Len(<<>>) = 0
        BY EmptySeq DEF FlattenSeq
  <2>3. QED BY <2>1, <2>2
<1>3. CASE n # 0
  <2>1. PICK g : Joins(R, n, g) /\ FlattenSeq(R) = g[n]
        BY <1>1, <1>3, FlattenIsJoin
  <2>2. PICK h : Joins(Q, n, h) /\ FlattenSeq(Q) = h[n]
        BY <1>1, <1>3, FlattenIsJoin
  <2>3. Joined(S, R, n, g) /\ Joined(S, Q, n, h)
    <3>1. n \in 1..Len(R) /\ n \in 1..Len(Q)
          BY <1>1, <1>3
    <3>2. QED BY <2>1, <2>2, <3>1, JoinsTyped
  <2>4. \A k \in 1..n : Alike(R[k], Q[k])
        OBVIOUS
  <2> HIDE DEF n
  <2> DEFINE T == {k \in Nat : Alike(g[k], h[k])}
  <2>5. 1 \in T
    <3>1. 1 \in 1..n
          BY <1>1, <1>3
    <3>2. g[1] = R[1] /\ h[1] = Q[1]
          BY <2>3 DEF Joined
    <3>3. Alike(R[1], Q[1])
          BY <2>4, <3>1
    <3> HIDE DEF Alike
    <3>4. QED BY <3>2, <3>3
  <2>6. ASSUME NEW k \in 1..n - 1, k \in T PROVE k + 1 \in T
    <3> DEFINE l == k + 1
    <3>1. l \in 1..n /\ k \in 1..n /\ l \in Nat
          BY <1>1
    <3>2. g[l] = g[k] \o R[l] /\ h[l] = h[k] \o Q[l]
          BY <2>3 DEF Joined
    <3> HIDE DEF l
    <3>3. /\ g[k] \in Seq(S) /\ h[k] \in Seq(S) /\ R[l] \in Seq(S) /\ Q[l] \in Seq(S)
          BY <2>3, <3>1 DEF Joined
    <3>4. Alike(g[k], h[k]) /\ Alike(R[l], Q[l])
          BY <2>4, <2>6, <3>1
    <3> DEFINE a == g[k] b == h[k] x == R[l] y == Q[l]
    <3>5. /\ Len(a \o x) = Len(a) + Len(x) /\ Len(b \o y) = Len(b) + Len(y)
          /\ \A j \in 1..Len(a) + Len(x) :
                (a \o x)[j] = IF j <= Len(a) THEN a[j] ELSE x[j - Len(a)]
          /\ \A j \in 1..Len(b) + Len(y) :
                (b \o y)[j] = IF j <= Len(b) THEN b[j] ELSE y[j - Len(b)]
          /\ Len(a) \in Nat /\ Len(x) \in Nat
          BY <3>3, ConcatProperties, LenProperties
    <3>6. Alike(a, b) /\ Alike(x, y)
          BY <3>4
    <3> HIDE DEF a, b, x, y
    <3>7. Len(b \o y) = Len(a \o x)
          BY <3>5, <3>6
    <3>8. ASSUME NEW j \in 1..Len(a \o x) PROVE <<(a \o x)[j], (b \o y)[j]>> \in rel
      <4>1. CASE j <= Len(a)
            BY <3>5, <3>6, <4>1
      <4>2. CASE ~ (j <= Len(a))
        <5> DEFINE i == j - Len(a)
        <5>1. i \in 1..Len(x) /\ (a \o x)[j] = x[i] /\ (b \o y)[j] = y[i]
              BY <3>5, <3>6, <4>2
        <5> HIDE DEF i
        <5>2. QED BY <3>6, <5>1
      <4>3. QED BY <4>1, <4>2
    <3>9. Alike(g[l], h[l])
      <4>1. Alike(a \o x, b \o y)
            BY <3>7, <3>8
      <4> HIDE DEF Alike
      <4>2. QED BY <3>2, <4>1 DEF a, b, x, y
    <3> HIDE DEF Alike
    <3>10. QED BY <3>1, <3>9 DEF l
  <2>7. \A k \in 1..n : k \in T
    <3>1. 1 \in Nat /\ n \in Nat
          BY <1>1
    <3> HIDE DEF T
    <3>2. QED BY <3>1, <2>5, <2>6, UpFrom
  <2>8. Alike(g[n], h[n])
        BY <1>1, <1>3, <2>7
  <2>9. QED BY <2>1, <2>2, <2>8
<1>4. QED BY <1>2, <1>3

-----------------------------------------------------------------------------
(* The criteria, on fractions of integers. *)

Fraction == Int \X Int

\* g[U] is the sum of the members U of fs.
Added(fs, K, g) ==
    g = [U \in SUBSET K |->
           IF U = {} THEN <<0, 1>>
           ELSE Plus(fs[CHOOSE i \in U : TRUE], g[U \ {CHOOSE i \in U : TRUE}])]

LEMMA SumIsAdded ==
    ASSUME NEW K, IsFiniteSet(K), NEW fs, \A i \in K : fs[i] \in Fraction
    PROVE  FoldFunctionOnSet(Plus, <<0, 1>>, fs, K) \in Fraction
<1> DEFINE V == Fraction base == <<0, 1>>
           pick == [U \in SUBSET K |-> CHOOSE i \in U : TRUE]
           op == [x \in K \X V |-> Plus(fs[x[1]], x[2])]
<1>1. \A f, g \in Fraction : Plus(f, g) \in Fraction
  <2>1. ASSUME NEW f \in Fraction, NEW g \in Fraction PROVE Plus(f, g) \in Fraction
    <3>1. f[1] \in Int /\ f[2] \in Int /\ g[1] \in Int /\ g[2] \in Int
          BY DEF Fraction
    <3>2. f[1] * g[2] + g[1] * f[2] \in Int /\ f[2] * g[2] \in Int
          BY <3>1
    <3>3. QED BY <3>2 DEF Plus, Fraction
  <2>2. QED BY <2>1
<1>2. Picks(pick, K)
      BY DEF Picks
<1>3. op \in [K \X V -> V] /\ base \in V
  <2>1. base \in V
        BY DEF Fraction
  <2> HIDE DEF V, base
  <2>2. \A x \in K \X V : Plus(fs[x[1]], x[2]) \in V
        BY <1>1 DEF V
  <2>3. QED BY <2>1, <2>2
<1>4. PICK g : Folds(op, base, pick, K, g)
  <2> HIDE DEF op, pick, base
  <2>1. QED BY <1>2, FoldsExist
<1>5. \A U \in SUBSET K : g[U] \in V
  <2> HIDE DEF op, pick, V, base
  <2>1. QED BY <1>2, <1>3, <1>4, FoldsTyped
<1>6. ASSUME NEW U \in SUBSET K
      PROVE  g[U] = IF U = {} THEN base
                    ELSE Plus(fs[CHOOSE i \in U : TRUE], g[U \ {CHOOSE i \in U : TRUE}])
  <2>1. CASE U = {}
        BY <1>4, <2>1 DEF Folds
  <2>2. CASE U # {}
    <3> DEFINE x == CHOOSE i \in U : TRUE v == g[U \ {x}]
    <3>1. pick[U] = x /\ x \in K /\ v \in V
          BY <1>5, <2>2
    <3>2. g[U] = op[<<pick[U], g[U \ {pick[U]}]>>]
      <4> HIDE DEF op, pick, base
      <4>1. QED BY <1>4, <2>2 DEF Folds
    <3>3. g[U] = op[<<x, v>>]
          BY <3>1, <3>2
    <3> HIDE DEF x, v, V
    <3>4. g[U] = Plus(fs[x], v)
          BY <3>1, <3>3
    <3>5. QED BY <2>2, <3>4 DEF x, v
  <2>3. QED BY <2>1, <2>2
<1>7. g = [U \in SUBSET K |-> g[U]]
      BY <1>4 DEF Folds
<1>8. Added(fs, K, g)
      BY <1>6, <1>7 DEF Added
<1> DEFINE h == CHOOSE x : Added(fs, K, x)
<1>9. Added(fs, K, h)
      BY <1>8
<1>10. FoldFunctionOnSet(Plus, <<0, 1>>, fs, K) =
        (CHOOSE x : x = [U \in SUBSET K |->
                      IF U = {} THEN <<0, 1>>
                      ELSE Plus(fs[CHOOSE i \in U : TRUE],
                                x[U \ {CHOOSE i \in U : TRUE}])])[K]
       BY DEF FoldFunctionOnSet, MapThenFoldSet
<1>11. FoldFunctionOnSet(Plus, <<0, 1>>, fs, K) = h[K]
       BY <1>10 DEF Added
<1> HIDE DEF h
<1> DEFINE F == {U \in SUBSET K : h[U] \notin Fraction}
<1>12. CASE F = {}
       BY <1>11, <1>12
<1>13. CASE F # {}
  <2>1. PICK U \in F : \A W \in SUBSET U : W # U => W \notin F
    <3>1. F \subseteq SUBSET K
          OBVIOUS
    <3> HIDE DEF F
    <3>2. QED BY <1>13, <3>1, SmallestSet
  <2>2. U \in SUBSET K /\ h[U] \notin Fraction
        OBVIOUS
  <2> DEFINE x == CHOOSE i \in U : TRUE R == U \ {x}
  <2>3. h[U] = IF U = {} THEN <<0, 1>> ELSE Plus(fs[x], h[R])
        BY <1>9, <2>2 DEF Added
  <2>4. U # {}
        BY <2>2, <2>3 DEF Fraction
  <2>5. x \in U /\ x \in K /\ R \in SUBSET U /\ R # U /\ R \in SUBSET K
        BY <2>2, <2>4
  <2>6. h[R] \in Fraction
        BY <2>1, <2>5
  <2> HIDE DEF x, R
  <2>7. Plus(fs[x], h[R]) \in Fraction
        BY <1>1, <2>5, <2>6
  <2>8. QED BY <2>2, <2>3, <2>4, <2>7
<1>14. QED BY <1>12, <1>13

\* The mean of fractions is one.
LEMMA MeanIs ==
    ASSUME NEW fs \in Seq(Fraction)
    PROVE  Mean(fs) \in Fraction
<1> DEFINE K == {i \in DOMAIN fs : Known(fs[i])}
           sum == FoldFunctionOnSet(Plus, <<0, 1>>, fs, K)
<1>1. IsFiniteSet(K) /\ \A i \in K : fs[i] \in Fraction
  <2>1. DOMAIN fs = 1..Len(fs) /\ Len(fs) \in Nat /\ \A i \in 1..Len(fs) : fs[i] \in Fraction
        BY LenProperties, ElementOfSeq
  <2>2. IsFiniteSet(DOMAIN fs)
        BY <2>1, FS_Interval
  <2>3. IsFiniteSet(K)
        BY <2>2, FS_Subset
  <2>4. QED BY <2>1, <2>3
<1>2. Mean(fs) = <<sum[1], sum[2] * Cardinality(K)>>
      BY DEF Mean
<1> HIDE DEF K
<1>3. sum \in Fraction
      BY <1>1, SumIsAdded
<1>4. Cardinality(K) \in Nat
      BY <1>1, FS_CardinalityType
<1> HIDE DEF sum
<1>5. sum[1] \in Int /\ sum[2] \in Int
      BY <1>3 DEF Fraction
<1>6. sum[2] * Cardinality(K) \in Int
      BY <1>4, <1>5
<1>7. QED BY <1>2, <1>5, <1>6 DEF Fraction

\* A run, and what it may become when URLs are lost to DNS.
Run == [processes : Nat, wall : Nat, counts : Counts]

RunWorse(r, q) == /\ r \in Run /\ q \in Run
                  /\ q.processes = r.processes /\ q.wall = r.wall
                  /\ CountsWorse(r.counts, q.counts)

\* The numbers of the two.
LEMMA RunNumbers ==
    ASSUME NEW r, NEW q, RunWorse(r, q)
    PROVE  /\ r.wall \in Nat /\ q.wall = r.wall
           /\ r.counts.candidates \in Nat /\ q.counts.candidates = r.counts.candidates
           /\ r.counts.successes \in Nat /\ q.counts.successes \in Nat
           /\ q.counts.successes <= r.counts.successes
           /\ r.counts.dns \in Nat /\ q.counts.dns \in Nat
           /\ r.counts.dns <= q.counts.dns
BY DEF RunWorse, Run, Counts, CountsWorse

\* A product of numbers of which one grows.
LEMMA ProductGrows ==
    ASSUME NEW x \in Int, NEW y \in Int, NEW z \in Nat, x <= y
    PROVE  x * z \in Int /\ y * z \in Int /\ x * z <= y * z
OBVIOUS

\* A yield that is preserved was before the loss.
LEMMA YieldFalls ==
    ASSUME NEW b \in Fraction, NEW r, NEW q, RunWorse(r, q), YieldKept(b, yield_rate(q))
    PROVE  YieldKept(b, yield_rate(r))
<1> DEFINE x == b[1] y == b[2] n == r.counts.successes m == q.counts.successes
           d == r.counts.candidates
<1>1. x \in Int /\ y \in Int /\ n \in Nat /\ m \in Nat /\ m <= n /\ d \in Nat
      /\ q.counts.candidates = d
      BY RunNumbers DEF Fraction
<1>2. yield_rate(r) = <<n, d>> /\ yield_rate(q) = <<m, d>>
      BY <1>1 DEF yield_rate
<1>3. SUFFICES ASSUME y > 0, d > 0
               PROVE  (x * d - n * y) * 100 <= 5 * (y * d)
      BY <1>2 DEF YieldKept, Known, AtMost, Minus, MAX_YIELD_DROP
<1>4. (x * d - m * y) * 100 <= 5 * (y * d)
      BY <1>2, <1>3 DEF YieldKept, Known, AtMost, Minus, MAX_YIELD_DROP
<1> HIDE DEF x, y, n, m, d
<1>5. m * y <= n * y /\ m * y \in Int /\ n * y \in Int
      BY <1>1, <1>3, ProductGrows
<1>6. x * d \in Int /\ y * d \in Int
      BY <1>1
<1> DEFINE X == x * d Y == y * d M == m * y N == n * y
<1>7. X \in Int /\ Y \in Int /\ M \in Int /\ N \in Int /\ M <= N /\ (X - M) * 100 <= 5 * Y
      BY <1>4, <1>5, <1>6
<1> HIDE DEF X, Y, M, N
<1>8. (X - N) * 100 <= 5 * Y
      BY <1>7
<1>9. QED BY <1>8 DEF X, Y, M, N

\* So was a DNS fraction that is stable.
LEMMA DnsRises ==
    ASSUME NEW b \in Fraction, NEW r, NEW q, RunWorse(r, q), DnsKept(b, dns_fraction(q))
    PROVE  DnsKept(b, dns_fraction(r))
<1> DEFINE x == b[1] y == b[2] n == r.counts.dns m == q.counts.dns
           d == r.counts.candidates
<1>1. x \in Int /\ y \in Int /\ n \in Nat /\ m \in Nat /\ n <= m /\ d \in Nat
      /\ q.counts.candidates = d
      BY RunNumbers DEF Fraction
<1>2. dns_fraction(r) = <<n, d>> /\ dns_fraction(q) = <<m, d>>
      BY <1>1 DEF dns_fraction
<1>3. SUFFICES ASSUME y > 0, d > 0
               PROVE  (n * y - x * d) * 100 <= 3 * (d * y)
      BY <1>2 DEF DnsKept, Known, AtMost, Minus, MAX_DNS_RISE
<1>4. (m * y - x * d) * 100 <= 3 * (d * y)
      BY <1>2, <1>3 DEF DnsKept, Known, AtMost, Minus, MAX_DNS_RISE
<1> HIDE DEF x, y, n, m, d
<1>5. n * y <= m * y /\ m * y \in Int /\ n * y \in Int
      BY <1>1, <1>3, ProductGrows
<1>6. x * d \in Int /\ d * y \in Int
      BY <1>1
<1> DEFINE X == x * d Y == d * y M == m * y N == n * y
<1>7. X \in Int /\ Y \in Int /\ M \in Int /\ N \in Int /\ N <= M /\ (M - X) * 100 <= 3 * Y
      BY <1>4, <1>5, <1>6
<1> HIDE DEF X, Y, M, N
<1>8. (N - X) * 100 <= 3 * Y
      BY <1>7
<1>9. QED BY <1>8 DEF X, Y, M, N

\* And so was a rate that is high enough.
LEMMA RateFalls ==
    ASSUME NEW b \in Fraction, Known(b), NEW f \in Nat \X Nat, NEW r, NEW q, RunWorse(r, q),
           AtMost(Times(f, b), successes_per_sec(q))
    PROVE  AtMost(Times(f, b), successes_per_sec(r))
<1> DEFINE x == b[1] y == b[2] n == r.counts.successes m == q.counts.successes
           w == r.wall z == f[1] * x t == f[2] * y
<1>1. x \in Int /\ y \in Int /\ y > 0 /\ n \in Nat /\ m \in Nat /\ m <= n /\ w \in Nat
      /\ q.wall = w /\ f[1] \in Nat /\ f[2] \in Nat
      BY RunNumbers DEF Fraction, Known
<1>2. z * w <= m * t
      BY <1>1 DEF AtMost, Times, successes_per_sec
<1>3. z \in Int /\ t \in Nat
      BY <1>1
<1> HIDE DEF z, t
<1>4. m * t \in Int /\ n * t \in Int /\ m * t <= n * t /\ z * w \in Int
  <2>1. m * t \in Int /\ n * t \in Int /\ m * t <= n * t
        BY <1>1, <1>3, ProductGrows
  <2>2. z * w \in Int
        BY <1>1, <1>3
  <2>3. QED BY <2>1, <2>2
<1> DEFINE A == z * w B == m * t C == n * t
<1>5. A \in Int /\ B \in Int /\ C \in Int /\ A <= B /\ B <= C
      BY <1>2, <1>4
<1> HIDE DEF A, B, C
<1>6. A <= C
      BY <1>5
<1>7. QED BY <1>6 DEF A, C, z, t, AtMost, Times, successes_per_sec

-----------------------------------------------------------------------------
(* The verdicts. *)

\* What a rate must reach, and some run does not.
LEMMA NotReached ==
    ASSUME NEW b \in Fraction, Known(b), NEW f \in Nat \X Nat, NEW r, NEW q, RunWorse(r, q),
           AtMost(Times(f, b), successes_per_sec(r)) = FALSE
    PROVE  AtMost(Times(f, b), successes_per_sec(q)) = FALSE
<1>1. ~ AtMost(Times(f, b), successes_per_sec(r))
      OBVIOUS
<1>2. ~ AtMost(Times(f, b), successes_per_sec(q))
      BY <1>1, RateFalls
<1>3. QED BY <1>2 DEF AtMost

\* The rows after the first.
LEMMA TailSet ==
    ASSUME NEW S, NEW s \in Seq(S), s # <<>>
    PROVE  ToSet(Tail(s)) = {s[i] : i \in 2..Len(s)}
<1>1. /\ Tail(s) \in Seq(S) /\ Len(Tail(s)) = Len(s) - 1 /\ Len(s) \in Nat
      /\ \A i \in 1..Len(Tail(s)) : Tail(s)[i] = s[i + 1]
      BY HeadTailProperties, LenProperties
<1>2. DOMAIN Tail(s) = 1..Len(s) - 1
      BY <1>1, LenProperties
<1>3. ASSUME NEW i \in 2..Len(s) PROVE \E j \in 1..Len(s) - 1 : s[i] = Tail(s)[j]
  <2> DEFINE j == i - 1
  <2>1. j \in 1..Len(s) - 1 /\ j + 1 = i
        BY <1>1
  <2> HIDE DEF j
  <2>2. QED BY <1>1, <2>1
<1>4. ASSUME NEW j \in 1..Len(s) - 1 PROVE \E i \in 2..Len(s) : Tail(s)[j] = s[i]
  <2> DEFINE i == j + 1
  <2>1. i \in 2..Len(s) /\ Tail(s)[j] = s[i]
        BY <1>1
  <2> HIDE DEF i
  <2>2. QED BY <2>1
<1>5. ToSet(Tail(s)) = {Tail(s)[j] : j \in 1..Len(s) - 1}
      BY <1>2 DEF ToSet
<1> DEFINE A == {Tail(s)[j] : j \in 1..Len(s) - 1} B == {s[i] : i \in 2..Len(s)}
<1>6. ASSUME NEW x \in A PROVE x \in B
  <2>1. PICK j \in 1..Len(s) - 1 : x = Tail(s)[j]
        OBVIOUS
  <2>2. QED BY <1>4, <2>1
<1>7. ASSUME NEW x \in B PROVE x \in A
  <2>1. PICK i \in 2..Len(s) : x = s[i]
        OBVIOUS
  <2>2. QED BY <1>3, <2>1
<1>8. A = B
  <2> HIDE DEF A, B
  <2>1. QED BY <1>6, <1>7
<1>9. QED BY <1>5, <1>8

\* The verdict of 0002, part by part.
JudgedBy(rs, n, base, others, same) ==
    Rejected(Scales(base, IF others = {} THEN {} ELSE {rs[Min(others)]}),
             \A i \in 2..n : YieldKept(yield_rate(base), yield_rate(rs[i])),
             \A i \in 2..n : DnsKept(dns_fraction(base), dns_fraction(rs[i])),
             UNION {Stable(Drift(base, r)) : r \in IF same = {} THEN {} ELSE {rs[Min(same)]}})

LEMMA JudgeIs ==
    ASSUME NEW rs \in Seq(Run), rs # <<>>, NEW n, n = Len(rs), NEW base, base = Head(rs),
           NEW others, others = {i \in 2..n : rs[i].processes # base.processes},
           NEW same, same = {i \in 2..n : rs[i].processes = base.processes}
    PROVE  judge(rs).rejected = JudgedBy(rs, n, base, others, same)
<1>1. ToSet(Tail(rs)) = {rs[i] : i \in 2..Len(rs)}
      BY TailSet
<1>2. /\ (\A r \in ToSet(Tail(rs)) : YieldKept(yield_rate(Head(rs)), yield_rate(r)))
           <=> \A i \in 2..Len(rs) : YieldKept(yield_rate(Head(rs)), yield_rate(rs[i]))
      /\ (\A r \in ToSet(Tail(rs)) : DnsKept(dns_fraction(Head(rs)), dns_fraction(r)))
           <=> \A i \in 2..Len(rs) : DnsKept(dns_fraction(Head(rs)), dns_fraction(rs[i]))
      BY <1>1
<1>3. /\ FirstOf(rs, LAMBDA r : r.processes # Head(rs).processes) =
           IF {i \in 2..Len(rs) : rs[i].processes # Head(rs).processes} = {} THEN {}
           ELSE {rs[Min({i \in 2..Len(rs) : rs[i].processes # Head(rs).processes})]}
      /\ FirstOf(rs, LAMBDA r : r.processes = Head(rs).processes) =
           IF {i \in 2..Len(rs) : rs[i].processes = Head(rs).processes} = {} THEN {}
           ELSE {rs[Min({i \in 2..Len(rs) : rs[i].processes = Head(rs).processes})]}
      BY DEF FirstOf
<1> DEFINE scaled == FirstOf(rs, LAMBDA r : r.processes # Head(rs).processes)
           repeat == FirstOf(rs, LAMBDA r : r.processes = Head(rs).processes)
<1>4. judge(rs).rejected =
        Rejected(Scales(Head(rs), scaled),
                 \A r \in ToSet(Tail(rs)) : YieldKept(yield_rate(Head(rs)), yield_rate(r)),
                 \A r \in ToSet(Tail(rs)) : DnsKept(dns_fraction(Head(rs)), dns_fraction(r)),
                 UNION {Stable(Drift(Head(rs), r)) : r \in repeat})
      BY DEF judge
<1> DEFINE o == {i \in 2..Len(rs) : rs[i].processes # Head(rs).processes}
           t == {i \in 2..Len(rs) : rs[i].processes = Head(rs).processes}
<1>5. judge(rs).rejected = JudgedBy(rs, Len(rs), Head(rs), o, t)
  <2>1. /\ scaled = IF o = {} THEN {} ELSE {rs[Min(o)]}
        /\ repeat = IF t = {} THEN {} ELSE {rs[Min(t)]}
        BY <1>3
  <2> HIDE DEF o, t, scaled, repeat
  <2>2. QED BY <1>2, <1>4, <2>1 DEF JudgedBy
<1>6. others = o /\ same = t
      OBVIOUS
<1> HIDE DEF o, t
<1>7. QED BY <1>5, <1>6

\* The runs as they are, those that stay and those that get worse.
RunsWorse(runs, qs) ==
    /\ runs \in Seq(Run) /\ qs \in Seq(Run) /\ Len(runs) > 0 /\ Len(qs) = Len(runs)
    /\ qs[1] = runs[1]
    /\ \A i \in 1..Len(runs) : /\ RunWorse(runs[i], qs[i])
                               /\ runs[i].processes = runs[1].processes => qs[i] = runs[i]

\* A verdict of 0002 that rejects still does when a run gets worse.
LEMMA JudgeWorse ==
    ASSUME NEW runs, NEW qs, RunsWorse(runs, qs), judge(runs).rejected
    PROVE  judge(qs).rejected
<1> DEFINE n == Len(runs) base == runs[1]
           others == {i \in 2..n : runs[i].processes # base.processes}
           same == {i \in 2..n : runs[i].processes = base.processes}
           Scaled(rs) == IF others = {} THEN {} ELSE {rs[Min(others)]}
           Repeat(rs) == IF same = {} THEN {} ELSE {rs[Min(same)]}
           Stables(rs) == UNION {Stable(Drift(base, r)) : r \in Repeat(rs)}
           Yields(rs) == \A i \in 2..n : YieldKept(yield_rate(base), yield_rate(rs[i]))
           Dnss(rs) == \A i \in 2..n : DnsKept(dns_fraction(base), dns_fraction(rs[i]))
<1>1. /\ n \in Nat /\ n > 0 /\ runs # <<>> /\ qs # <<>> /\ Len(qs) = n
      /\ qs[1] = base /\ Head(runs) = base /\ Head(qs) = base
      /\ \A i \in 1..n : runs[i] \in Run /\ qs[i] \in Run /\ RunWorse(runs[i], qs[i])
      /\ \A i \in 1..n : runs[i].processes = base.processes => qs[i] = runs[i]
      BY LenProperties, ElementOfSeq DEF RunsWorse
<1>2. runs \in Seq(Run) /\ qs \in Seq(Run)
      BY DEF RunsWorse
<1>3. \A i \in 2..n : i \in 1..n /\ qs[i].processes = runs[i].processes
      BY <1>1 DEF RunWorse
<1>4. judge(runs).rejected = JudgedBy(runs, n, base, others, same)
  <2>1. runs # <<>> /\ base = Head(runs)
        BY <1>1
  <2> HIDE DEF base
  <2>2. QED BY <1>2, <2>1, JudgeIs
<1>5. judge(qs).rejected = JudgedBy(qs, n, base, others, same)
  <2>1. /\ others = {i \in 2..n : qs[i].processes # base.processes}
        /\ same = {i \in 2..n : qs[i].processes = base.processes}
        BY <1>3
  <2>2. qs # <<>> /\ base = Head(qs) /\ n = Len(qs)
        BY <1>1
  <2> HIDE DEF base, others, same, n
  <2>3. QED BY <1>2, <2>1, <2>2, JudgeIs
<1> HIDE DEF n, base
<1>6. others # {} => Min(others) \in others /\ Min(others) \in 1..n
  <2>1. others \in SUBSET Nat
        BY <1>1
  <2>2. others # {} => Min(others) \in others
        BY <2>1, MinOf
  <2>3. QED BY <1>3, <2>2
<1>7. same # {} => Min(same) \in same /\ qs[Min(same)] = runs[Min(same)]
  <2>1. same \in SUBSET Nat
        BY <1>1
  <2>2. same # {} => Min(same) \in same
        BY <2>1, MinOf
  <2>3. QED BY <1>1, <1>3, <2>2
<1>8. Stables(qs) = Stables(runs)
      BY <1>7
<1>9. Yields(qs) => Yields(runs)
  <2>1. SUFFICES ASSUME NEW i \in 2..n, YieldKept(yield_rate(base), yield_rate(qs[i]))
                 PROVE  YieldKept(yield_rate(base), yield_rate(runs[i]))
        OBVIOUS
  <2>2. yield_rate(base) \in Fraction /\ RunWorse(runs[i], qs[i])
        PROOF BY <1>1, <1>3 DEF base, yield_rate, Fraction, Run, Counts
  <2>3. QED BY <2>1, <2>2, YieldFalls
<1>10. Dnss(qs) => Dnss(runs)
  <2>1. SUFFICES ASSUME NEW i \in 2..n, DnsKept(dns_fraction(base), dns_fraction(qs[i]))
                 PROVE  DnsKept(dns_fraction(base), dns_fraction(runs[i]))
        OBVIOUS
  <2>2. dns_fraction(base) \in Fraction /\ RunWorse(runs[i], qs[i])
        BY <1>1, <1>3 DEF base, dns_fraction, Fraction, Run, Counts
  <2>3. QED BY <2>1, <2>2, DnsRises
<1>11. FALSE \in Scales(base, Scaled(runs)) => FALSE \in Scales(base, Scaled(qs))
  <2>1. SUFFICES ASSUME FALSE \in Scales(base, Scaled(runs)) PROVE FALSE \in Scales(base, Scaled(qs))
        OBVIOUS
  <2> DEFINE b == successes_per_sec(base) r == runs[Min(others)] q == qs[Min(others)]
  <2>2. /\ others # {} /\ b[1] > 0 /\ Known(b) /\ Known(successes_per_sec(r))
        /\ AtMost(Times(MIN_SPEEDUP, b), successes_per_sec(r)) = FALSE
        BY <2>1, Zenon DEF Scales
  <2>3. RunWorse(r, q)
        BY <1>1, <1>6, <2>2
  <2>4. b \in Fraction /\ MIN_SPEEDUP \in Nat \X Nat
        BY <1>1 DEF base, successes_per_sec, Fraction, Run, Counts, MIN_SPEEDUP
  <2> HIDE DEF b, r, q
  <2>5. AtMost(Times(MIN_SPEEDUP, b), successes_per_sec(q)) = FALSE
        BY <2>2, <2>3, <2>4, NotReached
  <2>6. Known(successes_per_sec(q))
        BY <2>2, <2>3 DEF RunWorse, Known, successes_per_sec
  <2>7. Scaled(qs) = {q}
        BY <2>2 DEF q
  <2> HIDE DEF Scaled
  <2>8. QED BY <2>2, <2>5, <2>6, <2>7, Zenon DEF Scales, b
<1>12. QED
  <2>1. /\ JudgedBy(runs, n, base, others, same) <=>
             Rejected(Scales(base, Scaled(runs)), Yields(runs), Dnss(runs), Stables(runs))
        /\ JudgedBy(qs, n, base, others, same) <=>
             Rejected(Scales(base, Scaled(qs)), Yields(qs), Dnss(qs), Stables(qs))
        BY DEF JudgedBy
  <2> HIDE DEF Scaled, Yields, Dnss, Stables
  <2>2. QED BY <1>4, <1>5, <1>8, <1>9, <1>10, <1>11, <2>1 DEF Rejected

\* The rates of runs are fractions, and so are their means.
LEMMA RatesAre ==
    ASSUME NEW single \in Seq(Run)
    PROVE  /\ SingleRate(single) \in Fraction
           /\ Mean([i \in DOMAIN single |-> yield_rate(single[i])]) \in Fraction
           /\ Mean([i \in DOMAIN single |-> dns_fraction(single[i])]) \in Fraction
<1>1. /\ Len(single) \in Nat /\ DOMAIN single = 1..Len(single)
      /\ \A i \in 1..Len(single) : single[i] \in Run
      BY LenProperties, ElementOfSeq
<1>2. ASSUME NEW r \in Run
      PROVE  /\ yield_rate(r) \in Fraction /\ dns_fraction(r) \in Fraction
             /\ (IF r.counts.successes > 0 THEN successes_per_sec(r) ELSE <<0, 0>>) \in Fraction
  <2>1. /\ r.counts.successes \in Int /\ r.counts.candidates \in Int
        /\ r.counts.dns \in Int /\ r.wall \in Int
        BY DEF Run, Counts
  <2>2. QED BY <2>1 DEF Fraction, yield_rate, dns_fraction, successes_per_sec
<1>3. ASSUME NEW f, \A i \in 1..Len(single) : f[i] \in Fraction, f = [i \in DOMAIN single |-> f[i]]
      PROVE  Mean(f) \in Fraction
  <2>1. f \in Seq(Fraction)
    <3> DEFINE n == Len(single)
    <3>1. f = [i \in 1..n |-> f[i]] /\ n \in Nat /\ \A i \in 1..n : f[i] \in Fraction
          BY <1>1, <1>3
    <3> HIDE DEF n
    <3>2. QED BY <3>1
  <2>2. QED BY <2>1, MeanIs
<1> DEFINE a == [i \in DOMAIN single |-> IF single[i].counts.successes > 0
                                         THEN successes_per_sec(single[i]) ELSE <<0, 0>>]
           b == [i \in DOMAIN single |-> yield_rate(single[i])]
           c == [i \in DOMAIN single |-> dns_fraction(single[i])]
<1>4. /\ \A i \in 1..Len(single) : a[i] \in Fraction /\ b[i] \in Fraction /\ c[i] \in Fraction
      /\ a = [i \in DOMAIN single |-> a[i]] /\ b = [i \in DOMAIN single |-> b[i]]
      /\ c = [i \in DOMAIN single |-> c[i]]
      BY <1>1, <1>2
<1>5. SingleRate(single) = Mean(a)
      BY DEF SingleRate
<1> HIDE DEF a, b, c
<1>6. Mean(a) \in Fraction /\ Mean(b) \in Fraction /\ Mean(c) \in Fraction
      BY <1>3, <1>4
<1>7. QED BY <1>5, <1>6 DEF b, c

\* A verdict of 0003 that rejects still does when the run on several nodes
\* gets worse.
LEMMA DistributionWorse ==
    ASSUME NEW single \in Seq(Run), NEW r, NEW q, RunWorse(r, q),
           judge_distribution(single, {r}).rejected
    PROVE  judge_distribution(single, {q}).rejected
<1> DEFINE b == SingleRate(single)
           y == Mean([i \in DOMAIN single |-> yield_rate(single[i])])
           d == Mean([i \in DOMAIN single |-> dns_fraction(single[i])])
           Neutral(m) == {AtMost(Times(MIN_DISTRIBUTION_RATIO, b), successes_per_sec(x)) :
                            x \in {z \in {m} : Known(b) /\ Known(successes_per_sec(z))}}
           stable == IF Len(single) < 2 THEN {} ELSE Stable(Drift(Head(single), Last(single)))
           Judged(m) == Rejected(Neutral(m), YieldKept(y, yield_rate(m)),
                                 DnsKept(d, dns_fraction(m)), stable)
<1>1. b \in Fraction /\ y \in Fraction /\ d \in Fraction
      BY RatesAre
<1>2. ASSUME NEW m PROVE judge_distribution(single, {m}).rejected <=> Judged(m)
  <2>1. judge_distribution(single, {m}).rejected =
          Rejected(Neutral(m), \A x \in {m} : YieldKept(y, yield_rate(x)),
                   \A x \in {m} : DnsKept(d, dns_fraction(x)), stable)
        BY DEF judge_distribution
  <2>2. /\ (\A x \in {m} : YieldKept(y, yield_rate(x))) <=> YieldKept(y, yield_rate(m))
        /\ (\A x \in {m} : DnsKept(d, dns_fraction(x))) <=> DnsKept(d, dns_fraction(m))
        OBVIOUS
  <2> HIDE DEF b, y, d, Neutral, stable
  <2>3. QED BY <2>1, <2>2 DEF Rejected
<1> HIDE DEF b, y, d, stable
<1>3. YieldKept(y, yield_rate(q)) => YieldKept(y, yield_rate(r))
      BY <1>1, YieldFalls
<1>4. DnsKept(d, dns_fraction(q)) => DnsKept(d, dns_fraction(r))
      BY <1>1, DnsRises
<1>5. FALSE \in Neutral(r) => FALSE \in Neutral(q)
  <2>1. SUFFICES ASSUME FALSE \in Neutral(r) PROVE FALSE \in Neutral(q)
        OBVIOUS
  <2>2. /\ Known(b) /\ Known(successes_per_sec(r))
        /\ AtMost(Times(MIN_DISTRIBUTION_RATIO, b), successes_per_sec(r)) = FALSE
        BY <2>1, Zenon
  <2>3. MIN_DISTRIBUTION_RATIO \in Nat \X Nat
        BY DEF MIN_DISTRIBUTION_RATIO
  <2>4. AtMost(Times(MIN_DISTRIBUTION_RATIO, b), successes_per_sec(q)) = FALSE
        BY <1>1, <2>2, <2>3, NotReached
  <2>5. Known(successes_per_sec(q))
        BY <2>2 DEF RunWorse, Known, successes_per_sec
  <2>6. QED BY <2>2, <2>4, <2>5, Zenon
<1>6. QED
  <2>1. Judged(r)
        BY <1>2
  <2> HIDE DEF Neutral
  <2>2. Judged(q)
        BY <1>3, <1>4, <1>5, <2>1 DEF Rejected
  <2>3. QED BY <1>2, <2>2 DEF Neutral

-----------------------------------------------------------------------------
(* The runs of an experiment, and of one that lost more to DNS. *)

\* The shards of two nodes with the same URLs, as far as they are done.
LEMMA StatsWorse ==
    ASSUME NEW n \in Node, NEW m \in Node, m.urls = n.urls, m.done = n.done,
           m.weather \in {n.weather, "outage"}, NEW sps \in Nat \ {0},
           n.done <= Shards(n, sps)
    PROVE  LET s == NodeStats(n, sps)
               t == NodeStats(m, sps)
           IN  /\ s \in Seq(Counts) /\ t \in Seq(Counts) /\ Len(t) = Len(s)
               /\ \A j \in 1..Len(s) : CountsWorse(s[j], t[j])
<1> DEFINE s == NodeStats(n, sps) t == NodeStats(m, sps) L == Len(n.urls) c == n.done
           Count(j) == IF L - (j - 1) * sps < sps THEN L - (j - 1) * sps ELSE sps
           good(x) == [candidates |-> x, successes |-> x, dns |-> 0]
           lost(x) == [candidates |-> x, successes |-> 0, dns |-> x]
<1>1. n.urls \in Seq(STRING) /\ L \in Nat /\ c \in Nat /\ n.weather \in {"good", "outage"}
      BY LenProperties DEF Node
<1>2. ASSUME NEW j \in 1..c PROVE Count(j) \in Nat
  <2>1. j \in 1..Shards(n, sps)
        BY <1>1, ShardsCounted
  <2>2. (j - 1) * sps < L
        BY <1>1, <2>1, ShardsCounted
  <2> DEFINE a == (j - 1) * sps
  <2>3. a \in Int /\ a < L
    <3>1. j - 1 \in Int
          BY <1>1
    <3>2. QED BY <2>2, <3>1
  <2> HIDE DEF a, L
  <2>4. (IF L - a < sps THEN L - a ELSE sps) \in Nat
        BY <1>1, <2>3
  <2>5. QED BY <2>4 DEF a
<1>3. /\ s = [j \in 1..c |-> IF n.weather = "good" THEN good(Count(j)) ELSE lost(Count(j))]
      /\ t = [j \in 1..c |-> IF m.weather = "good" THEN good(Count(j)) ELSE lost(Count(j))]
      BY DEF NodeStats
<1> HIDE DEF s, t, L, c, Count
<1>4. ASSUME NEW j \in 1..c
      PROVE  s[j] \in Counts /\ t[j] \in Counts /\ CountsWorse(s[j], t[j])
  <2> DEFINE x == Count(j)
  <2>1. x \in Nat
        BY <1>2
  <2> HIDE DEF x
  <2>2. good(x) \in Counts /\ lost(x) \in Counts
        BY <2>1 DEF Counts
  <2>3. CountsWorse(good(x), good(x)) /\ CountsWorse(good(x), lost(x)) /\ CountsWorse(lost(x), lost(x))
        BY <2>1 DEF CountsWorse
  <2>4. /\ s[j] = IF n.weather = "good" THEN good(x) ELSE lost(x)
        /\ t[j] = IF m.weather = "good" THEN good(x) ELSE lost(x)
        BY <1>3 DEF x
  <2> HIDE DEF good, lost
  <2>5. n.weather = "good" \/ m.weather # "good"
        BY <1>1
  <2>6. QED BY <2>2, <2>3, <2>4, <2>5
<1>5. s \in Seq(Counts) /\ t \in Seq(Counts) /\ Len(s) = c /\ Len(t) = c
  <2>1. s = [j \in 1..c |-> s[j]] /\ t = [j \in 1..c |-> t[j]]
        BY <1>3
  <2>2. c \in Nat /\ \A j \in 1..c : s[j] \in Counts /\ t[j] \in Counts
        BY <1>1, <1>4
  <2>3. s \in Seq(Counts) /\ Len(s) = c
        BY <2>1, <2>2
  <2>4. t \in Seq(Counts) /\ Len(t) = c
        BY <2>1, <2>2
  <2>5. QED BY <2>3, <2>4
<1>6. QED BY <1>4, <1>5 DEF s, t

\* A directory, and the same with some of its nodes in an outage.
DirWorse(d, e) ==
    /\ d \in Dir /\ e \in Dir /\ d.sps \in Nat \ {0}
    /\ e.processes = d.processes /\ e.sps = d.sps /\ e.expected = d.expected /\ e.wall = d.wall
    /\ Len(e.nodes) = Len(d.nodes)
    /\ \A k \in 1..Len(d.nodes) :
          /\ e.nodes[k].urls = d.nodes[k].urls /\ e.nodes[k].done = d.nodes[k].done
          /\ e.nodes[k].weather \in {d.nodes[k].weather, "outage"}
          /\ d.nodes[k].done <= Shards(d.nodes[k], d.sps)

LEMMA RunOfWorse ==
    ASSUME NEW d, NEW e, DirWorse(d, e)
    PROVE  RunWorse(RunOf(d), RunOf(e)) /\ (WholePhase(e) <=> WholePhase(d))
<1> DEFINE n == Len(d.nodes)
           R == [k \in 1..n |-> NodeStats(d.nodes[k], d.sps)]
           Q == [k \in 1..n |-> NodeStats(e.nodes[k], d.sps)]
           rel == {x \in Counts \X Counts : CountsWorse(x[1], x[2])}
<1>1. /\ n \in Nat /\ DOMAIN d.nodes = 1..n /\ DOMAIN e.nodes = 1..n
      /\ \A k \in 1..n : d.nodes[k] \in Node /\ e.nodes[k] \in Node
  <2>1. d.nodes \in Seq(Node) /\ e.nodes \in Seq(Node) /\ Len(e.nodes) = n
        BY DEF DirWorse, Dir
  <2>2. QED BY <2>1, LenProperties, ElementOfSeq
<1>2. ASSUME NEW k \in 1..n
      PROVE  /\ R[k] \in Seq(Counts) /\ Q[k] \in Seq(Counts) /\ Len(Q[k]) = Len(R[k])
             /\ \A j \in 1..Len(R[k]) : CountsWorse(R[k][j], Q[k][j])
  <2>1. /\ d.nodes[k] \in Node /\ e.nodes[k] \in Node /\ d.sps \in Nat \ {0}
        /\ e.nodes[k].urls = d.nodes[k].urls /\ e.nodes[k].done = d.nodes[k].done
        /\ e.nodes[k].weather \in {d.nodes[k].weather, "outage"}
        /\ d.nodes[k].done <= Shards(d.nodes[k], d.sps)
        BY <1>1 DEF DirWorse
  <2>2. QED BY <2>1, StatsWorse
<1>3. /\ RunOf(d) = from_stats(d.processes, d.wall, FlattenSeq(R))
      /\ RunOf(e) = from_stats(d.processes, d.wall, FlattenSeq(Q))
  <2>1. e.processes = d.processes /\ e.wall = d.wall /\ e.sps = d.sps
        BY DEF DirWorse
  <2>2. QED BY <1>1, <2>1 DEF RunOf
<1>4. R \in Seq(Seq(Counts)) /\ Q \in Seq(Seq(Counts)) /\ Len(R) = n /\ Len(Q) = n
  <2>1. R = [k \in 1..n |-> R[k]] /\ Q = [k \in 1..n |-> Q[k]]
        OBVIOUS
  <2> DEFINE S == Seq(Counts)
  <2>2. \A k \in 1..n : R[k] \in S /\ Q[k] \in S
        BY <1>2
  <2> HIDE DEF R, Q, S, n
  <2>3. R \in Seq(S) /\ Q \in Seq(S) /\ Len(R) = n /\ Len(Q) = n
        BY <1>1, <2>1, <2>2
  <2>4. QED BY <2>3 DEF S
<1> HIDE DEF R, Q
<1> DEFINE s == FlattenSeq(R) t == FlattenSeq(Q)
<1>5. s \in Seq(Counts) /\ t \in Seq(Counts)
      BY <1>4, FlattenTyped
<1>6. Len(t) = Len(s) /\ \A j \in 1..Len(s) : <<s[j], t[j]>> \in rel
  <2>1. \A k \in 1..n : /\ Len(Q[k]) = Len(R[k])
                        /\ \A j \in 1..Len(R[k]) : <<R[k][j], Q[k][j]>> \in rel
    <3>1. ASSUME NEW k \in 1..n, NEW j \in 1..Len(R[k]) PROVE <<R[k][j], Q[k][j]>> \in rel
      <4>1. R[k][j] \in Counts /\ Q[k][j] \in Counts /\ CountsWorse(R[k][j], Q[k][j])
            BY <1>2, <3>1, ElementOfSeq
      <4>2. QED BY <4>1
    <3>2. QED BY <1>2, <3>1
  <2> HIDE DEF rel, n
  <2>2. \A k \in 1..Len(R) : /\ Len(Q[k]) = Len(R[k])
                             /\ \A j \in 1..Len(R[k]) : <<R[k][j], Q[k][j]>> \in rel
        BY <1>4, <2>1
  <2>3. Len(Q) = Len(R)
        BY <1>4
  <2>4. QED BY <1>4, <2>2, <2>3, FlattenAlike
<1> HIDE DEF s, t
<1>7. \A j \in 1..Len(s) : CountsWorse(s[j], t[j])
      BY <1>6
<1> DEFINE a == FoldSeq(AddCounts, EmptyCounts, s) b == FoldSeq(AddCounts, EmptyCounts, t)
<1>8. a \in Counts /\ b \in Counts /\ CountsWorse(a, b)
      BY <1>5, <1>6, <1>7, SumsWorse
<1>9. /\ RunOf(d) = [processes |-> d.processes, wall |-> d.wall, counts |-> a]
      /\ RunOf(e) = [processes |-> d.processes, wall |-> d.wall, counts |-> b]
      BY <1>3 DEF from_stats, s, t
<1> HIDE DEF a, b
<1>10. d.processes \in Nat /\ d.wall \in Nat
       BY DEF DirWorse, Dir
<1>11. RunWorse(RunOf(d), RunOf(e))
       BY <1>8, <1>9, <1>10 DEF RunWorse, Run
<1>12. Reported(e) = Reported(d) /\ e.expected = d.expected
       BY <1>1 DEF Reported, DirWorse
<1>13. WholePhase(e) <=> WholePhase(d)
       BY <1>12 DEF WholePhase
<1>14. QED BY <1>11, <1>13

-----------------------------------------------------------------------------
(* An outage on top. *)

\* The members of a set of numbers in their order.
Enumerates(o, wanted) ==
    /\ o \in [1..Cardinality(wanted) -> wanted]
    /\ \A p \in wanted : \E i \in DOMAIN o : o[i] = p
    /\ \A i, j \in DOMAIN o : i < j => o[i] < o[j]

InOrder(wanted) == CHOOSE o : Enumerates(o, wanted)

LEMMA RunsOfIs ==
    ASSUME NEW wanted, \E o : Enumerates(o, wanted), NEW ds
    PROVE  /\ Enumerates(InOrder(wanted), wanted)
           /\ RunsOf(ds, wanted) =
                 [i \in 1..Cardinality(wanted) |-> RunOf(ds[InOrder(wanted)[i]])]
<1>1. Enumerates(InOrder(wanted), wanted)
      BY DEF InOrder
<1> DEFINE C(o) == /\ \A p \in wanted : \E i \in DOMAIN o : o[i] = p
                   /\ \A i, j \in DOMAIN o : i < j => o[i] < o[j]
           order == CHOOSE o \in [1..Cardinality(wanted) -> wanted] : C(o)
<1>2. order = InOrder(wanted)
      BY DEF InOrder, Enumerates
<1>3. RunsOf(ds, wanted) = [i \in DOMAIN order |-> RunOf(ds[order[i]])]
      BY DEF RunsOf
<1> HIDE DEF order
<1>4. DOMAIN order = 1..Cardinality(wanted)
      BY <1>1, <1>2 DEF Enumerates
<1>5. QED BY <1>1, <1>2, <1>3, <1>4

\* The first of the levels there are, and the two single-node phases.
LEMMA Enumerated ==
    /\ \A m \in Nat : Enumerates([i \in 1..m |-> i], 1..m) /\ Cardinality(1..m) = m
    /\ \A single \in SUBSET {1, 3} :
          Cardinality(single) \in Nat /\ \E o : Enumerates(o, single)
<1>1. ASSUME NEW m \in Nat
      PROVE  Enumerates([i \in 1..m |-> i], 1..m) /\ Cardinality(1..m) = m
  <2>1. Cardinality(1..m) = m
        BY FS_Interval
  <2>2. QED BY <2>1 DEF Enumerates
<1>2. ASSUME NEW single \in SUBSET {1, 3}
      PROVE  Cardinality(single) \in Nat /\ \E o : Enumerates(o, single)
  <2>1. CASE single = {}
    <3>1. Cardinality(single) = 0
          BY <2>1, FS_EmptySet
    <3>2. Enumerates([i \in 1..0 |-> i], single)
      <4>1. 1..0 = {}
            OBVIOUS
      <4>2. QED BY <2>1, <3>1, <4>1 DEF Enumerates
    <3>3. QED BY <3>1, <3>2
  <2>2. ASSUME NEW p \in {1, 3}, single = {p}
        PROVE  Cardinality(single) \in Nat /\ \E o : Enumerates(o, single)
    <3>1. Cardinality(single) = 1
          BY <2>2, FS_Singleton
    <3>2. Enumerates([i \in 1..1 |-> p], single)
          BY <2>2, <3>1 DEF Enumerates
    <3>3. QED BY <3>1, <3>2
  <2>3. CASE single = {1, 3}
    <3>1. Cardinality({1}) = 1 /\ IsFiniteSet({1})
          BY FS_Singleton
    <3>2. Cardinality({1} \cup {3}) = 2
          BY <3>1, FS_AddElement
    <3>3. Cardinality(single) = 2
      <4>1. {1} \cup {3} = single
            BY <2>3
      <4>2. QED BY <3>2, <4>1
    <3>4. Enumerates([i \in 1..2 |-> IF i = 1 THEN 1 ELSE 3], single)
          BY <2>3, <3>3 DEF Enumerates
    <3>5. QED BY <3>3, <3>4
  <2>4. single = {} \/ single = {1} \/ single = {3} \/ single = {1, 3}
        OBVIOUS
  <2>5. QED BY <2>1, <2>2, <2>3, <2>4
<1>3. QED BY <1>1, <1>2

\* The directories with the nodes of phase p in an outage.
InOutage(p) == [dirs EXCEPT ![p].nodes =
                  [k \in DOMAIN @ |-> [@[k] EXCEPT !.weather = "outage"]]]

LEMMA OutageIs ==
    ASSUME IInv, NEW p \in Present
    PROVE  /\ DOMAIN InOutage(p) = 1..MaxPhases /\ DOMAIN dirs = 1..MaxPhases
           /\ \A q \in 1..MaxPhases : q # p => InOutage(p)[q] = dirs[q]
           /\ \A q \in 1..MaxPhases : InOutage(p)[q] = None <=> dirs[q] = None
           /\ \A q \in Present : DirWorse(dirs[q], InOutage(p)[q])
<1> DEFINE d == dirs[p] ns == d.nodes
           ms == [k \in DOMAIN ns |-> [ns[k] EXCEPT !.weather = "outage"]]
           e == [d EXCEPT !.nodes = ms]
<1>1. /\ dirs \in [1..MaxPhases -> Dir \cup {None}] /\ Present \subseteq 1..MaxPhases
      /\ \A q \in Present : dirs[q] # None /\ dirs[q] \in Dir
      BY Directories DEF IInv, TypeOK, Present
<1>2. InOutage(p) = [dirs EXCEPT ![p] = e]
      BY <1>1 DEF InOutage
<1>3. ASSUME NEW q \in Present
      PROVE  /\ dirs[q].sps \in Nat \ {0}
             /\ dirs[q].nodes \in Seq(Node) /\ DOMAIN dirs[q].nodes = 1..Len(dirs[q].nodes)
             /\ \A k \in 1..Len(dirs[q].nodes) :
                   /\ dirs[q].nodes[k] \in Node
                   /\ dirs[q].nodes[k].done <= Shards(dirs[q].nodes[k], dirs[q].sps)
  <2>1. PICK c \in Configs : Staged(c)
        BY <1>3 DEF IInv, StagedByOne
  <2>2. dirs[q].sps = c.sps /\ c.sps \in Nat \ {0}
        BY <2>1, ConfigsAre DEF Staged
  <2>3. QED BY <2>2, Directories DEF IInv, ShardsLeft
<1>4. /\ ms = [k \in 1..Len(ns) |-> [ns[k] EXCEPT !.weather = "outage"]]
      /\ ns \in Seq(Node) /\ Len(ns) \in Nat
      BY <1>3, LenProperties
<1> HIDE DEF ns, ms
<1>5. ASSUME NEW k \in 1..Len(ns)
      PROVE  /\ ms[k] \in Node /\ ms[k].urls = ns[k].urls /\ ms[k].done = ns[k].done
             /\ ms[k].weather = "outage"
  <2> DEFINE n == ns[k]
  <2>1. n \in Node /\ ms[k] = [n EXCEPT !.weather = "outage"]
        BY <1>3, <1>4 DEF ns
  <2> HIDE DEF n
  <2>2. QED BY <2>1 DEF Node, n
<1>6. ms \in Seq(Node) /\ Len(ms) = Len(ns)
  <2>1. ms = [k \in 1..Len(ns) |-> ms[k]]
        BY <1>4
  <2>2. QED BY <1>4, <1>5, <2>1
<1>7. e \in Dir /\ e.nodes = ms /\ e.processes = d.processes /\ e.sps = d.sps
      /\ e.expected = d.expected /\ e.wall = d.wall
      BY <1>1, <1>6 DEF Dir
<1> HIDE DEF e
<1>8. /\ InOutage(p)[p] = e /\ DOMAIN InOutage(p) = 1..MaxPhases
      /\ \A q \in 1..MaxPhases : q # p => InOutage(p)[q] = dirs[q]
      BY <1>1, <1>2
<1>9. DirWorse(d, e)
  <2>1. d \in Dir /\ d.sps \in Nat \ {0} /\ d.nodes = ns
        BY <1>1, <1>3 DEF ns
  <2>2. \A k \in 1..Len(ns) : ns[k].done <= Shards(ns[k], d.sps)
        BY <1>3 DEF ns
  <2> HIDE DEF d
  <2>3. QED BY <1>5, <1>6, <1>7, <2>1, <2>2 DEF DirWorse
<1>10. ASSUME NEW q \in Present PROVE DirWorse(dirs[q], dirs[q])
  <2>1. dirs[q] \in Dir
        BY <1>1
  <2> DEFINE f == dirs[q]
  <2>2. f \in Dir /\ f.sps \in Nat \ {0}
        /\ \A k \in 1..Len(f.nodes) : f.nodes[k].done <= Shards(f.nodes[k], f.sps)
        BY <1>3, <2>1
  <2> HIDE DEF f
  <2>3. DirWorse(f, f)
        BY <2>2 DEF DirWorse
  <2>4. QED BY <2>3 DEF f
<1>11. ASSUME NEW q \in Present PROVE DirWorse(dirs[q], InOutage(p)[q])
       BY <1>1, <1>8, <1>9, <1>10
<1>12. e # None
       BY <1>7, NoneAssumption
<1>13. QED BY <1>1, <1>8, <1>11, <1>12

\* The levels of 0002 that there are, as they are and with one in an outage.
LEMMA LevelsWorse ==
    ASSUME IInv, config.kind = "0002", NEW p \in Present,
           dirs[p].processes # dirs[1].processes
    PROVE  RunsWorse(RunsOf(dirs, Present), RunsOf(InOutage(p), Present))
<1> DEFINE W == InOutage(p) o == InOrder(Present) runs == RunsOf(dirs, Present)
           qs == RunsOf(W, Present)
<1>1. PICK m \in 0..MaxPhases : Present = 1..m
      BY DEF IInv, LevelsInOrder
<1>2. m \in Nat /\ 1 \in Present /\ Cardinality(Present) = m /\ m > 0
  <2>1. m \in Nat /\ p \in 1..m
        BY <1>1, BoundsAssumption
  <2>2. Cardinality(1..m) = m
        BY <2>1, Enumerated
  <2>3. m > 0 /\ 1 \in 1..m
        BY <2>1
  <2>4. QED BY <1>1, <2>1, <2>2, <2>3
<1>3. \E x : Enumerates(x, Present)
      BY <1>1, <1>2, Enumerated
<1>4. /\ Enumerates(o, Present)
      /\ runs = [i \in 1..m |-> RunOf(dirs[o[i]])] /\ qs = [i \in 1..m |-> RunOf(W[o[i]])]
      BY <1>2, <1>3, RunsOfIs
<1> HIDE DEF W, o, runs, qs
<1>5. \A i \in 1..m : o[i] \in Present
      BY <1>2, <1>4 DEF Enumerates
<1>6. o[1] = 1
  <2>1. PICK i \in 1..m : o[i] = 1
        BY <1>2, <1>4 DEF Enumerates
  <2>2. CASE i = 1
        BY <2>1, <2>2
  <2>3. CASE i # 1
    <3>1. 1 \in 1..m /\ 1 < i
          BY <1>2, <2>3
    <3>2. o[1] < o[i]
          BY <1>2, <1>4, <3>1 DEF Enumerates
    <3>3. o[1] \in 1..m
          BY <1>1, <1>5, <3>1
    <3>4. QED BY <2>1, <3>2, <3>3
  <2>4. QED BY <2>2, <2>3
<1>7. \A q \in Present : /\ RunWorse(RunOf(dirs[q]), RunOf(W[q]))
                         /\ q # p => W[q] = dirs[q]
  <2>1. Present \subseteq 1..MaxPhases
        BY Directories DEF IInv
  <2>2. QED BY <2>1, OutageIs, RunOfWorse DEF W
<1>8. ASSUME NEW i \in 1..m
      PROVE  /\ RunWorse(runs[i], qs[i]) /\ runs[i] \in Run /\ qs[i] \in Run
             /\ runs[i] = RunOf(dirs[o[i]]) /\ qs[i] = RunOf(W[o[i]])
      BY <1>4, <1>5, <1>7 DEF RunWorse
<1>9. runs \in Seq(Run) /\ qs \in Seq(Run) /\ Len(runs) = m /\ Len(qs) = m
  <2>1. runs = [i \in 1..m |-> runs[i]] /\ qs = [i \in 1..m |-> qs[i]]
        BY <1>4
  <2>2. m \in Nat /\ \A i \in 1..m : runs[i] \in Run /\ qs[i] \in Run
        BY <1>2, <1>8
  <2>3. runs \in Seq(Run) /\ Len(runs) = m
        BY <2>1, <2>2
  <2>4. qs \in Seq(Run) /\ Len(qs) = m
        BY <2>1, <2>2
  <2>5. QED BY <2>3, <2>4
<1>10. \A d : RunOf(d).processes = d.processes
       BY DEF RunOf, from_stats
<1>11. qs[1] = runs[1] /\ runs[1].processes = dirs[1].processes
  <2>1. 1 \in 1..m /\ 1 # p
        BY <1>2
  <2>2. QED BY <1>2, <1>6, <1>7, <1>8, <1>10, <2>1
<1>12. ASSUME NEW i \in 1..m, runs[i].processes = runs[1].processes
       PROVE  qs[i] = runs[i]
  <2>1. dirs[o[i]].processes = dirs[1].processes
        BY <1>8, <1>10, <1>11, <1>12
  <2>2. o[i] # p
        BY <2>1
  <2>3. QED BY <1>5, <1>7, <1>8, <2>2
<1>13. RunsWorse(runs, qs)
       BY <1>2, <1>8, <1>9, <1>11, <1>12 DEF RunsWorse
<1>14. QED BY <1>13 DEF runs, qs, W

\* An outage on top excuses nothing: were every URL of a run that is compared
\* with the baseline lost to DNS, a verdict that rejects would still reject.
THEOREM OutageNeverExcusesAnything == Spec => []OutageNeverExcuses
<1>1. ASSUME IInv, config.kind = "0002", NEW p \in Present,
             dirs[p].processes # dirs[1].processes,
             NEW v \in Verdict(dirs), NEW w \in Verdict(InOutage(p)), v.rejected
      PROVE  w.rejected
  <2> DEFINE W == InOutage(p)
  <2>1. {q \in DOMAIN dirs : dirs[q] # None} = Present
        BY DEF Present
  <2>2. {q \in DOMAIN W : W[q] # None} = Present
        BY <1>1, OutageIs DEF Present
  <2> HIDE DEF W
  <2>3. Present # {}
        BY <1>1
  <2>4. Verdict(dirs) = {judge(RunsOf(dirs, Present))} /\ Verdict(W) = {judge(RunsOf(W, Present))}
        BY <1>1, <2>1, <2>2, <2>3 DEF Verdict, analyse_experiment_0002
  <2>5. v = judge(RunsOf(dirs, Present)) /\ w = judge(RunsOf(W, Present))
        BY <1>1, <2>4 DEF W
  <2>6. RunsWorse(RunsOf(dirs, Present), RunsOf(W, Present))
        BY <1>1, LevelsWorse DEF W
  <2>7. QED BY <1>1, <2>5, <2>6, JudgeWorse
<1>2. ASSUME IInv, config.kind = "0003", 2 \in Present,
             NEW v \in Verdict(dirs), NEW w \in Verdict(InOutage(2)), v.rejected
      PROVE  w.rejected
  <2> DEFINE W == InOutage(2)
             Single(ds) == {p \in {1, 3} : ds[p] # None /\ WholePhase(ds[p])}
             Multi2(ds) == {p \in {2} : ds[p] # None /\ WholePhase(ds[p])}
             Judged(ds) == judge_distribution(RunsOf(ds, Single(ds)),
                                              {RunOf(ds[p]) : p \in Multi2(ds)})
             S == Single(dirs) M == Multi2(dirs) R == RunsOf(dirs, S)
  <2>1. v = Judged(dirs) /\ w = Judged(W)
        BY <1>2 DEF Verdict, analyse_experiment_0003
  <2>2. /\ \A q \in {1, 2, 3} : q # 2 => W[q] = dirs[q]
        /\ \A q \in {1, 2, 3} : W[q] = None <=> dirs[q] = None
        /\ \A q \in Present : DirWorse(dirs[q], W[q])
        /\ \A q \in {1, 2, 3} : dirs[q] # None => q \in Present
    <3>1. /\ \A q \in 1..MaxPhases : q # 2 => W[q] = dirs[q]
          /\ \A q \in 1..MaxPhases : W[q] = None <=> dirs[q] = None
          /\ \A q \in Present : DirWorse(dirs[q], W[q])
          /\ DOMAIN dirs = 1..MaxPhases
          BY <1>2, OutageIs
    <3> HIDE DEF W
    <3>2. {1, 2, 3} \subseteq 1..MaxPhases
          BY BoundsAssumption
    <3>3. QED BY <3>1, <3>2 DEF Present
  <2> HIDE DEF W
  <2>3. \A q \in Present : /\ RunWorse(RunOf(dirs[q]), RunOf(W[q]))
                           /\ WholePhase(W[q]) <=> WholePhase(dirs[q])
        BY <2>2, RunOfWorse
  <2>4. Single(W) = S
        BY <2>2
  <2>5. Multi2(W) = M
        BY <2>2, <2>3
  <2>6. R \in Seq(Run) /\ RunsOf(W, S) = R
    <3> DEFINE n == Cardinality(S) o == InOrder(S)
    <3>1. S \in SUBSET {1, 3} /\ \A q \in S : q \in Present /\ W[q] = dirs[q]
          BY <2>2
    <3> HIDE DEF S
    <3>2. /\ n \in Nat /\ Enumerates(o, S)
          /\ R = [i \in 1..n |-> RunOf(dirs[o[i]])]
          /\ RunsOf(W, S) = [i \in 1..n |-> RunOf(W[o[i]])]
          BY <3>1, Enumerated, RunsOfIs
    <3> HIDE DEF R
    <3>3. \A i \in 1..n : o[i] \in S
          BY <3>2 DEF Enumerates
    <3> HIDE DEF n, o
    <3>4. \A i \in 1..n : R[i] \in Run /\ RunOf(W[o[i]]) = RunOf(dirs[o[i]])
          BY <2>3, <3>1, <3>2, <3>3 DEF RunWorse
    <3>5. R \in Seq(Run)
      <4>1. R = [i \in 1..n |-> R[i]]
            BY <3>2
      <4>2. QED BY <3>2, <3>4, <4>1
    <3>6. QED BY <3>2, <3>4, <3>5
  <2>7. /\ v = judge_distribution(R, {RunOf(dirs[p]) : p \in M})
        /\ w = judge_distribution(R, {RunOf(W[p]) : p \in M})
        BY <2>1, <2>4, <2>5, <2>6
  <2>8. M = {} \/ M = {2}
        OBVIOUS
  <2> HIDE DEF R, M
  <2>9. CASE M = {}
        BY <1>2, <2>7, <2>9
  <2>10. CASE M = {2}
    <3>1. v = judge_distribution(R, {RunOf(dirs[2])}) /\ w = judge_distribution(R, {RunOf(W[2])})
      <4>1. {RunOf(dirs[p]) : p \in {2}} = {RunOf(dirs[2])} /\ {RunOf(W[p]) : p \in {2}} = {RunOf(W[2])}
            OBVIOUS
      <4>2. QED BY <2>7, <2>10, <4>1
    <3>2. RunWorse(RunOf(dirs[2]), RunOf(W[2]))
          BY <1>2, <2>3
    <3>3. QED BY <1>2, <2>6, <3>1, <3>2, DistributionWorse
  <2>11. QED BY <2>8, <2>9, <2>10
<1>3. ASSUME IInv PROVE OutageNeverExcuses
  <2>1. config.kind = "0003" \/ config.kind = "0002"
        BY <1>3, ConfigsAre DEF IInv, TypeOK
  <2>2. CASE config.kind = "0003"
    <3>1. \A p \in {2} \cap Present : \A v \in Verdict(dirs), w \in Verdict(InOutage(p)) :
             v.rejected => w.rejected
          BY <1>2, <1>3, <2>2
    <3>2. QED BY <2>2, <3>1 DEF OutageNeverExcuses, InOutage
  <2>3. CASE config.kind = "0002"
    <3>1. \A p \in {q \in Present : dirs[q].processes # dirs[1].processes} \cap Present :
             \A v \in Verdict(dirs), w \in Verdict(InOutage(p)) : v.rejected => w.rejected
          BY <1>1, <1>3, <2>3
    <3>2. config.kind # "0003"
          BY <2>3
    <3>3. QED BY <3>1, <3>2 DEF OutageNeverExcuses, InOutage
  <2>4. QED BY <2>1, <2>2, <2>3
<1>4. QED BY <1>3, Invariance, PTL
=============================================================================
