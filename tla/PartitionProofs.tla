--------------------------- MODULE PartitionProofs ---------------------------
(***************************************************************************)
(* The plan, for every corpus, every task size and any number of           *)
(* repartitions.                                                           *)
(***************************************************************************)
EXTENDS Partition, FiniteSetTheorems, SequenceTheorems, TLAPS

-----------------------------------------------------------------------------
(* FlattenSeq, which joins sequences by a recursion on their number. *)

\* A set of naturals has a least element.
LEMMA Least ==
    ASSUME NEW T, T \subseteq Nat, T # {}
    PROVE  \E n \in T : \A m \in T : n <= m
<1> DEFINE U == {1..n : n \in T}
<1>1. U \subseteq FiniteSubsetsOf(Nat) /\ U # {}
  <2>1. ASSUME NEW n \in T PROVE 1..n \in FiniteSubsetsOf(Nat)
        BY FS_Interval DEF FiniteSubsetsOf
  <2>2. QED BY <2>1
<1>2. IsWellFoundedOn(StrictSubsetOrdering(Nat), FiniteSubsetsOf(Nat))
      BY FS_StrictSubsetOrderingWellFounded
<1>3. PICK s \in U : \A r \in U : ~ (<<r, s>> \in StrictSubsetOrdering(Nat))
  <2> HIDE DEF U
  <2>1. QED BY <1>1, <1>2, WFMin
<1>4. PICK n \in T : s = 1..n
      OBVIOUS
<1>5. ASSUME NEW m \in T, m < n PROVE FALSE
  <2>1. 1..m \in U
        OBVIOUS
  <2>2. n \in 1..n /\ n \notin 1..m /\ 1..m \subseteq 1..n /\ 1..n \subseteq Nat
        BY <1>5
  <2>3. <<1..m, 1..n>> \in StrictSubsetOrdering(Nat)
        BY <2>2 DEF StrictSubsetOrdering
  <2>4. QED BY <1>3, <1>4, <2>1, <2>3
<1>6. QED BY <1>5

\* g[i] is what the first i of the sequences ss make, up to n.
Joins(ss, n, g) == g = [i \in 1..n |-> IF i = 1 THEN ss[i] ELSE g[i - 1] \o ss[i]]

\* There is always such a g.
LEMMA JoinsExist ==
    ASSUME NEW ss, NEW n \in Nat
    PROVE  \E g : Joins(ss, n, g)
<1> DEFINE F == {k \in Nat : ~ \E g : Joins(ss, k, g)}
<1>1. CASE F = {}
      BY <1>1
<1>2. CASE F # {}
  <2>1. PICK k \in F : \A m \in F : k <= m
    <3>1. F \subseteq Nat
          OBVIOUS
    <3> HIDE DEF F
    <3>2. QED BY <1>2, <3>1, Least
  <2>2. k \in Nat /\ ~ \E g : Joins(ss, k, g)
        OBVIOUS
  <2>3. CASE k = 0
    <3> DEFINE e == [i \in 1..0 |-> ss[i]]
    <3>1. Joins(ss, 0, e)
          BY DEF Joins
    <3>2. QED BY <2>2, <2>3, <3>1
  <2>4. CASE k # 0
    <3>1. k - 1 \in Nat /\ k - 1 \notin F
          BY <2>1, <2>2, <2>4
    <3>2. PICK g : Joins(ss, k - 1, g)
          BY <3>1
    <3> DEFINE h == [i \in 1..k |-> IF i = k THEN IF k = 1 THEN ss[k] ELSE g[k - 1] \o ss[k]
                                    ELSE g[i]]
    <3>3. ASSUME NEW i \in 1..k
          PROVE  h[i] = IF i = 1 THEN ss[i] ELSE h[i - 1] \o ss[i]
      <4>1. CASE i = k
            BY <2>2, <2>4, <4>1
      <4>2. CASE i # k
        <5>1. i \in 1..k - 1 /\ (i # 1 => i - 1 \in 1..k - 1)
              BY <2>2, <4>2
        <5>2. g[i] = IF i = 1 THEN ss[i] ELSE g[i - 1] \o ss[i]
              BY <3>2, <5>1 DEF Joins
        <5>3. h[i] = g[i] /\ (i # 1 => h[i - 1] = g[i - 1])
              BY <4>2, <5>1
        <5> HIDE DEF h
        <5>4. QED BY <5>2, <5>3
      <4>3. QED BY <4>1, <4>2
    <3>4. h = [i \in 1..k |-> h[i]]
          OBVIOUS
    <3>5. Joins(ss, k, h)
      <4> HIDE DEF h
      <4>1. QED BY <3>3, <3>4 DEF Joins
    <3>6. QED BY <2>2, <3>5
  <2>5. QED BY <2>3, <2>4
<1>3. QED BY <1>1, <1>2

\* s and t begin with the same n elements.
Alike(s, t, n) == \A i \in 1..n : s[i] = t[i]

\* What sequences begin with alike they join alike.
LEMMA JoinsAgree ==
    ASSUME NEW ss, NEW tt, NEW m, NEW n, NEW g, NEW h, m \in Nat, n \in Nat,
           Joins(ss, m, g), Joins(tt, n, h), m <= n, Alike(ss, tt, m)
    PROVE  Alike(g, h, m)
<1> DEFINE F == {i \in 1..m : g[i] # h[i]}
<1>1. CASE F = {}
      BY <1>1 DEF Alike
<1>2. CASE F # {}
  <2>1. PICK k \in F : \A i \in F : k <= i
    <3>1. F \subseteq Nat
          OBVIOUS
    <3> HIDE DEF F
    <3>2. QED BY <1>2, <3>1, Least
  <2>2. k \in 1..m /\ k \in 1..n /\ g[k] # h[k] /\ ss[k] = tt[k]
        BY DEF Alike
  <2>3. /\ g[k] = IF k = 1 THEN ss[k] ELSE g[k - 1] \o ss[k]
        /\ h[k] = IF k = 1 THEN tt[k] ELSE h[k - 1] \o tt[k]
        BY <2>2 DEF Joins
  <2>4. k # 1 /\ k - 1 \in 1..m /\ k - 1 \notin F
        BY <2>1, <2>2, <2>3
  <2>5. QED BY <2>2, <2>3, <2>4
<1>3. QED BY <1>1, <1>2

\* FlattenSeq is the last of them.
LEMMA FlattenIsJoin ==
    ASSUME NEW ss, Len(ss) \in Nat \ {0}
    PROVE  \E g : Joins(ss, Len(ss), g) /\ FlattenSeq(ss) = g[Len(ss)]
<1>1. FlattenSeq(ss) =
         (CHOOSE g : g = [i \in 1..Len(ss) |-> IF i = 1 THEN ss[i] ELSE g[i - 1] \o ss[i]])[Len(ss)]
      BY DEF FlattenSeq
<1>2. FlattenSeq(ss) = (CHOOSE g : Joins(ss, Len(ss), g))[Len(ss)]
      BY <1>1 DEF Joins
<1>3. QED BY <1>2, JoinsExist

\* It joins one sequence more to what it makes of those before.
LEMMA FlattenOneMore ==
    ASSUME NEW ss, NEW tt, NEW n, NEW m, n \in Nat \ {0}, m = n + 1,
           Len(ss) = n, Len(tt) = m, Alike(ss, tt, n)
    PROVE  FlattenSeq(tt) = FlattenSeq(ss) \o tt[m]
<1>1. PICK g : Joins(ss, n, g) /\ FlattenSeq(ss) = g[n]
      BY FlattenIsJoin
<1>2. PICK h : Joins(tt, m, h) /\ FlattenSeq(tt) = h[m]
      BY FlattenIsJoin
<1>3. m \in Nat /\ n <= m /\ m # 1 /\ m - 1 = n /\ m \in 1..m /\ n \in 1..n
      OBVIOUS
<1>4. Alike(g, h, n)
      BY <1>1, <1>2, <1>3, JoinsAgree
<1>5. h[m] = h[m - 1] \o tt[m]
      BY <1>2, <1>3 DEF Joins
<1>6. g[n] = h[n]
      BY <1>3, <1>4 DEF Alike
<1>7. QED BY <1>1, <1>2, <1>3, <1>5, <1>6

\* FlattenSeq takes the sequences from the left.
LEMMA FlattenAppend ==
    ASSUME NEW S, NEW ss \in Seq(Seq(S)), NEW s \in Seq(S)
    PROVE  /\ FlattenSeq(<<>>) = <<>>
           /\ FlattenSeq(Append(ss, s)) = FlattenSeq(ss) \o s
<1>1. FlattenSeq(<<>>) = <<>>
      BY DEF FlattenSeq
<1> DEFINE n == Len(ss) m == n + 1 tt == Append(ss, s)
<1>2. /\ n \in Nat /\ m \in Nat /\ m = n + 1 /\ Len(ss) = n /\ Len(tt) = m /\ tt[m] = s
      /\ Alike(ss, tt, n)
      BY LenProperties, AppendProperties DEF Alike
<1>3. CASE n = 0
  <2>1. ss = <<>>
        BY <1>3, EmptySeq
  <2>2. PICK h : Joins(tt, Len(tt), h) /\ FlattenSeq(tt) = h[Len(tt)]
    <3>1. Len(tt) \in Nat \ {0}
          BY <1>2
    <3> HIDE DEF tt
    <3>2. QED BY <3>1, FlattenIsJoin
  <2>3. Joins(tt, 1, h) /\ FlattenSeq(tt) = h[1]
        BY <1>2, <1>3, <2>2
  <2>4. FlattenSeq(tt) = s
        BY <1>2, <1>3, <2>3 DEF Joins
  <2>5. <<>> \o s = s
        BY ConcatEmptySeq
  <2>6. QED BY <1>1, <2>1, <2>4, <2>5
<1>4. CASE n # 0
  <2> HIDE DEF tt, n, m
  <2>1. FlattenSeq(tt) = FlattenSeq(ss) \o tt[m]
        BY <1>2, <1>4, FlattenOneMore
  <2>2. QED BY <1>1, <1>2, <2>1 DEF tt
<1>5. QED BY <1>3, <1>4

\* A sequence is empty or another with one element more.
LEMMA LongerSeq ==
    ASSUME NEW S, NEW s \in Seq(S), Len(s) # 0
    PROVE  \E r \in Seq(S), e \in S : s = Append(r, e) /\ Len(r) = Len(s) - 1
<1>1. s # <<>>
      BY EmptySeq
<1>2. PICK r \in Seq(S), e \in S : s = Append(r, e)
      BY <1>1, SequenceEmptyOrAppend
<1>3. Len(s) = Len(r) + 1 /\ Len(r) \in Nat
      BY <1>2, AppendProperties, LenProperties
<1>4. QED BY <1>2, <1>3

\* Appending to the right operand of a concatenation is appending to the whole.
LEMMA AppendToRight ==
    ASSUME NEW S, NEW a \in Seq(S), NEW b \in Seq(S), NEW e \in S
    PROVE  a \o Append(b, e) = Append(a \o b, e) /\ a \o b \in Seq(S)
<1>1. a \o b \in Seq(S) /\ <<e>> \in Seq(S)
      BY ConcatProperties
<1>2. (a \o b) \o <<e>> = a \o (b \o <<e>>)
      BY <1>1, ConcatAssociative
<1>3. Append(b, e) = b \o <<e>> /\ Append(a \o b, e) = (a \o b) \o <<e>>
      BY <1>1, AppendIsConcat
<1>4. QED BY <1>1, <1>2, <1>3

\* What holds of a second operand holds of it with one sequence more.
LEMMA FlattenStep ==
    ASSUME NEW S, NEW ss \in Seq(Seq(S)), NEW r \in Seq(Seq(S)), NEW e \in Seq(S),
           FlattenSeq(ss) \in Seq(S), FlattenSeq(r) \in Seq(S),
           FlattenSeq(ss \o r) = FlattenSeq(ss) \o FlattenSeq(r)
    PROVE  FlattenSeq(ss \o Append(r, e)) = FlattenSeq(ss) \o FlattenSeq(Append(r, e))
<1>1. ss \o Append(r, e) = Append(ss \o r, e) /\ ss \o r \in Seq(Seq(S))
      BY AppendToRight
<1>2. /\ FlattenSeq(Append(r, e)) = FlattenSeq(r) \o e
      /\ FlattenSeq(Append(ss \o r, e)) = FlattenSeq(ss \o r) \o e
      BY <1>1, FlattenAppend
<1>3. (FlattenSeq(ss) \o FlattenSeq(r)) \o e = FlattenSeq(ss) \o (FlattenSeq(r) \o e)
      BY ConcatAssociative
<1>4. QED BY <1>1, <1>2, <1>3

\* Flattening sequences over S gives one, and goes over their concatenation.
LEMMA FlattenConcat ==
    ASSUME NEW S, NEW ss \in Seq(Seq(S)), NEW tt \in Seq(Seq(S))
    PROVE  FlattenSeq(ss) \in Seq(S) /\ FlattenSeq(ss \o tt) = FlattenSeq(ss) \o FlattenSeq(tt)
<1>1. ASSUME NEW uu \in Seq(Seq(S)) PROVE FlattenSeq(uu) \in Seq(S)
  <2> DEFINE F == {n \in Nat : \E vv \in Seq(Seq(S)) : Len(vv) = n /\ FlattenSeq(vv) \notin Seq(S)}
  <2>1. CASE F = {}
    <3>1. Len(uu) \in Nat
          BY LenProperties
    <3>2. QED BY <2>1, <3>1
  <2>2. CASE F # {}
    <3>1. PICK n \in Nat : n \in F /\ \A m \in F : n <= m
      <4>1. F \subseteq Nat
            OBVIOUS
      <4> HIDE DEF F
      <4>2. QED BY <2>2, <4>1, Least
    <3>2. PICK vv \in Seq(Seq(S)) : Len(vv) = n /\ FlattenSeq(vv) \notin Seq(S)
          BY <3>1
    <3>3. n # 0
      <4>1. FlattenSeq(<<>>) \in Seq(S)
            BY FlattenAppend, EmptySeq
      <4>2. QED BY <3>2, <4>1, EmptySeq
    <3>4. PICK r \in Seq(Seq(S)), e \in Seq(S) : vv = Append(r, e) /\ Len(r) = n - 1
          BY <3>2, <3>3, LongerSeq
    <3>5. n - 1 \in Nat /\ n - 1 \notin F
          BY <3>1, <3>3
    <3>6. FlattenSeq(r) \in Seq(S)
          BY <3>4, <3>5
    <3>7. FlattenSeq(vv) = FlattenSeq(r) \o e
          BY <3>4, FlattenAppend
    <3>8. QED BY <3>2, <3>6, <3>7, ConcatProperties
  <2>3. QED BY <2>1, <2>2
<1>2. FlattenSeq(ss \o tt) = FlattenSeq(ss) \o FlattenSeq(tt)
  <2> DEFINE Bad(uu) == FlattenSeq(ss \o uu) # FlattenSeq(ss) \o FlattenSeq(uu)
             F == {n \in Nat : \E uu \in Seq(Seq(S)) : Len(uu) = n /\ Bad(uu)}
  <2>1. CASE F = {}
    <3>1. Len(tt) \in Nat
          BY LenProperties
    <3>2. QED BY <2>1, <3>1
  <2>2. CASE F # {}
    <3>1. PICK n \in Nat : n \in F /\ \A m \in F : n <= m
      <4>1. F \subseteq Nat
            OBVIOUS
      <4> HIDE DEF F
      <4>2. QED BY <2>2, <4>1, Least
    <3>2. PICK vv \in Seq(Seq(S)) : Len(vv) = n /\ Bad(vv)
          BY <3>1
    <3>3. n # 0
      <4>1. ~Bad(<<>>)
        <5>1. ss \o <<>> = ss /\ FlattenSeq(ss) \o <<>> = FlattenSeq(ss)
              BY <1>1, ConcatEmptySeq
        <5>2. FlattenSeq(<<>>) = <<>>
              BY FlattenAppend, EmptySeq
        <5>3. QED BY <5>1, <5>2
      <4>2. QED BY <3>2, <4>1, EmptySeq
    <3>4. PICK r \in Seq(Seq(S)), e \in Seq(S) : vv = Append(r, e) /\ Len(r) = n - 1
          BY <3>2, <3>3, LongerSeq
    <3>5. n - 1 \in Nat /\ n - 1 \notin F
          BY <3>1, <3>3
    <3>6. FlattenSeq(ss \o r) = FlattenSeq(ss) \o FlattenSeq(r)
          BY <3>4, <3>5
    <3>7. FlattenSeq(ss \o Append(r, e)) = FlattenSeq(ss) \o FlattenSeq(Append(r, e))
          BY <1>1, <3>4, <3>6, FlattenStep
    <3>8. QED BY <3>2, <3>4, <3>7
  <2>3. QED BY <2>1, <2>2
<1>3. QED BY <1>1, <1>2
-----------------------------------------------------------------------------
(* The rows of pieces and the pieces of tasks. *)

\* A function on an interval from 1 is a sequence.
LEMMA FunctionIsSeq ==
    ASSUME NEW S, NEW n \in Nat, NEW g \in [1..n -> S]
    PROVE  g \in Seq(S) /\ Len(g) = n
OBVIOUS

\* The elements of w are those of u, then those of v.
Follows(u, v, w) ==
    /\ Len(w) = Len(u) + Len(v) /\ \A i \in 1..Len(u) : w[i] = u[i]
    /\ \A i \in 1..Len(v) : w[Len(u) + i] = v[i]

\* A sequence is the concatenation of two when its elements are theirs.
LEMMA ConcatIs ==
    ASSUME NEW S, NEW u, NEW v, NEW w, u \in Seq(S), v \in Seq(S), w \in Seq(S),
           Follows(u, v, w)
    PROVE  w = u \o v
<1> USE DEF Follows
<1>1. u \o v \in Seq(S) /\ Len(u \o v) = Len(w) /\ Len(u) \in Nat /\ Len(v) \in Nat
      BY ConcatProperties, LenProperties
<1>2. ASSUME NEW i \in 1..Len(w) PROVE w[i] = (u \o v)[i]
  <2>1. (u \o v)[i] = IF i <= Len(u) THEN u[i] ELSE v[i - Len(u)]
        BY ConcatProperties
  <2>2. CASE i <= Len(u)
        BY <1>1, <2>1, <2>2
  <2>3. CASE ~ (i <= Len(u))
    <3>1. i - Len(u) \in 1..Len(v) /\ Len(u) + (i - Len(u)) = i
          BY <1>1, <2>3
    <3>2. w[Len(u) + (i - Len(u))] = v[i - Len(u)]
          BY <3>1
    <3>3. QED BY <2>1, <2>3, <3>1, <3>2
  <2>4. QED BY <2>2, <2>3
<1>3. QED BY <1>1, <1>2, SeqEqual

\* What f makes of the elements of a sequence, one after the other.
MapJoin(f, x) == FlattenSeq([i \in DOMAIN x |-> f[x[i]]])

\* f makes a sequence of each element.
ToSequences(f, P, S) == f \in [P -> Seq(S)]

\* It goes over concatenation.
LEMMA MapFlat ==
    ASSUME NEW P, NEW S, NEW f, NEW ps, NEW qs,
           ToSequences(f, P, S), ps \in Seq(P), qs \in Seq(P)
    PROVE  MapJoin(f, ps) \in Seq(S) /\ MapJoin(f, ps \o qs) = MapJoin(f, ps) \o MapJoin(f, qs)
<1> USE DEF ToSequences
<1> DEFINE M(x) == [i \in DOMAIN x |-> f[x[i]]]
<1>1. ASSUME NEW x \in Seq(P)
      PROVE  M(x) \in Seq(Seq(S)) /\ Len(M(x)) = Len(x) /\ \A i \in 1..Len(x) : M(x)[i] = f[x[i]]
  <2>1. Len(x) \in Nat /\ DOMAIN x = 1..Len(x) /\ \A i \in 1..Len(x) : x[i] \in P
        BY LenProperties, ElementOfSeq
  <2>2. M(x) \in [1..Len(x) -> Seq(S)] /\ \A i \in 1..Len(x) : M(x)[i] = f[x[i]]
        BY <2>1
  <2> HIDE DEF M
  <2>3. QED BY <2>1, <2>2, FunctionIsSeq
<1>2. /\ ps \o qs \in Seq(P) /\ Len(ps \o qs) = Len(ps) + Len(qs)
      /\ Len(ps) \in Nat /\ Len(qs) \in Nat
      /\ \A i \in 1..Len(ps) : (ps \o qs)[i] = ps[i]
      /\ \A i \in 1..Len(qs) : (ps \o qs)[Len(ps) + i] = qs[i]
      BY ConcatProperties, LenProperties
<1> DEFINE u == M(ps) v == M(qs) w == M(ps \o qs)
<1>3. w = u \o v
  <2>1. /\ u \in Seq(Seq(S)) /\ v \in Seq(Seq(S)) /\ w \in Seq(Seq(S))
        /\ Len(w) = Len(u) + Len(v) /\ Len(u) = Len(ps) /\ Len(v) = Len(qs)
        BY <1>1, <1>2
  <2>2. ASSUME NEW i \in 1..Len(ps) PROVE w[i] = u[i]
    <3>1. i \in 1..Len(ps) + Len(qs)
          BY <1>2
    <3>2. w[i] = f[(ps \o qs)[i]] /\ u[i] = f[ps[i]]
      <4> HIDE DEF M
      <4>1. QED BY <1>1, <1>2, <3>1
    <3>3. (ps \o qs)[i] = ps[i]
          BY <1>2
    <3> HIDE DEF u, v, w
    <3>4. QED BY <3>2, <3>3
  <2>3. ASSUME NEW i \in 1..Len(qs) PROVE w[Len(ps) + i] = v[i]
    <3>1. Len(ps) + i \in 1..Len(ps) + Len(qs)
          BY <1>2
    <3>2. w[Len(ps) + i] = f[(ps \o qs)[Len(ps) + i]] /\ v[i] = f[qs[i]]
      <4> HIDE DEF M
      <4>1. QED BY <1>1, <1>2, <3>1
    <3>3. (ps \o qs)[Len(ps) + i] = qs[i]
          BY <1>2
    <3> HIDE DEF u, v, w
    <3>4. QED BY <3>2, <3>3
  <2> HIDE DEF u, v, w
  <2>4. Follows(u, v, w)
        BY <2>1, <2>2, <2>3 DEF Follows
  <2>5. QED BY <2>1, <2>4, ConcatIs, Zenon
<1>4. M(ps) \in Seq(Seq(S)) /\ M(qs) \in Seq(Seq(S))
      BY <1>1
<1> HIDE DEF M
<1>5. FlattenSeq(M(ps)) \in Seq(S) /\ FlattenSeq(M(ps) \o M(qs)) = FlattenSeq(M(ps)) \o FlattenSeq(M(qs))
      BY <1>4, FlattenConcat
<1>6. QED BY <1>3, <1>5, Zenon DEF M, MapJoin

\* A sequence of one sequence flattens to that one.
LEMMA FlattenOne ==
    ASSUME NEW S, NEW s \in Seq(S)
    PROVE  FlattenSeq(<<s>>) = s
<1>1. FlattenSeq(<<>>) = <<>> /\ FlattenSeq(Append(<<>>, s)) = FlattenSeq(<<>>) \o s
  <2>1. <<>> \in Seq(Seq(S))
        BY EmptySeq
  <2>2. QED BY <2>1, FlattenAppend
<1>2. Append(<<>>, s) = <<s>> /\ <<>> \o s = s
      BY ConcatEmptySeq
<1>3. QED BY <1>1, <1>2

\* The rows of a range.
LEMMA RowsInRange ==
    ASSUME NEW paths, NEW p \in Ranges(paths)
    PROVE  /\ RowsIn(p) \in Seq(paths \X Nat) /\ Len(RowsIn(p)) = p.end - p.start
           /\ \A i \in 1..p.end - p.start : RowsIn(p)[i] = <<p.path, p.start + i - 1>>
           /\ p.path \in paths /\ p.start \in Nat /\ p.end \in Nat /\ p.start <= p.end
<1>1. p.path \in paths /\ p.start \in Nat /\ p.end \in Nat /\ p.start <= p.end
      BY DEF Ranges
<1>2. \A i \in 1..p.end - p.start : <<p.path, p.start + i - 1>> \in paths \X Nat
      BY <1>1
<1>3. QED BY <1>1, <1>2 DEF RowsIn

\* A range cut in two has the same rows.
LEMMA RowsInCut ==
    ASSUME NEW paths, NEW t \in paths, NEW a \in Nat, NEW b \in Nat, NEW c \in Nat, a <= b, b <= c
    PROVE  RowsIn(Piece(t, a, c)) = RowsIn(Piece(t, a, b)) \o RowsIn(Piece(t, b, c))
<1> DEFINE x == Piece(t, a, b) y == Piece(t, b, c) z == Piece(t, a, c)
<1>1. /\ x \in Ranges(paths) /\ x.path = t /\ x.start = a /\ x.end = b
      /\ y \in Ranges(paths) /\ y.path = t /\ y.start = b /\ y.end = c
      /\ z \in Ranges(paths) /\ z.path = t /\ z.start = a /\ z.end = c
      BY DEF Ranges, Piece
<1> HIDE DEF x, y, z
<1>2. /\ RowsIn(x) \in Seq(paths \X Nat) /\ Len(RowsIn(x)) = b - a
      /\ \A i \in 1..b - a : RowsIn(x)[i] = <<t, a + i - 1>>
      BY <1>1, RowsInRange
<1>3. /\ RowsIn(y) \in Seq(paths \X Nat) /\ Len(RowsIn(y)) = c - b
      /\ \A i \in 1..c - b : RowsIn(y)[i] = <<t, b + i - 1>>
      BY <1>1, RowsInRange
<1>4. /\ RowsIn(z) \in Seq(paths \X Nat) /\ Len(RowsIn(z)) = c - a
      /\ \A i \in 1..c - a : RowsIn(z)[i] = <<t, a + i - 1>>
      BY <1>1, RowsInRange
<1>5. ASSUME NEW i \in 1..c - b PROVE RowsIn(z)[(b - a) + i] = RowsIn(y)[i]
  <2>1. (b - a) + i \in 1..c - a /\ a + ((b - a) + i) - 1 = b + i - 1
        OBVIOUS
  <2>2. QED BY <1>3, <1>4, <2>1
<1>6. ASSUME NEW i \in 1..b - a PROVE RowsIn(z)[i] = RowsIn(x)[i]
  <2>1. i \in 1..c - a
        OBVIOUS
  <2>2. QED BY <1>2, <1>4, <2>1
<1> DEFINE u == RowsIn(x) v == RowsIn(y) w == RowsIn(z)
<1>7. /\ u \in Seq(paths \X Nat) /\ v \in Seq(paths \X Nat) /\ w \in Seq(paths \X Nat)
      /\ Len(w) = Len(u) + Len(v) /\ \A i \in 1..Len(u) : w[i] = u[i]
      /\ \A i \in 1..Len(v) : w[Len(u) + i] = v[i]
      BY <1>2, <1>3, <1>4, <1>5, <1>6
<1> HIDE DEF u, v, w
<1>8. w = u \o v
      BY <1>7, ConcatIs DEF Follows
<1>9. QED BY <1>8 DEF u, v, w, x, y, z

\* The rows of pieces one after the other.
LEMMA RowsOfPieces ==
    ASSUME NEW paths, NEW ps \in Seq(Ranges(paths)), NEW qs \in Seq(Ranges(paths))
    PROVE  RowsOf(ps) \in Seq(paths \X Nat) /\ RowsOf(ps \o qs) = RowsOf(ps) \o RowsOf(qs)
<1> DEFINE P == Ranges(paths) S == paths \X Nat f == [p \in P |-> RowsIn(p)]
<1>1. ToSequences(f, P, S)
      BY RowsInRange DEF ToSequences
<1>2. ASSUME NEW x \in Seq(P) PROVE [i \in DOMAIN x |-> f[x[i]]] = [i \in DOMAIN x |-> RowsIn(x[i])]
  <2>1. \A i \in DOMAIN x : x[i] \in P
        BY ElementOfSeq
  <2>2. \A i \in DOMAIN x : f[x[i]] = RowsIn(x[i])
        BY <2>1
  <2> HIDE DEF f
  <2>3. QED BY <2>2
<1>3. ps \o qs \in Seq(P)
      BY ConcatProperties
<1> HIDE DEF P, S, f
<1>4. ps \in Seq(P) /\ qs \in Seq(P)
      BY DEF P
<1>5. MapJoin(f, ps) \in Seq(S) /\ MapJoin(f, ps \o qs) = MapJoin(f, ps) \o MapJoin(f, qs)
      BY <1>1, <1>4, MapFlat
<1>6. /\ RowsOf(ps) = MapJoin(f, ps) /\ RowsOf(qs) = MapJoin(f, qs)
      /\ RowsOf(ps \o qs) = MapJoin(f, ps \o qs)
      BY <1>2, <1>3, <1>4, Zenon DEF RowsOf, MapJoin
<1>7. QED BY <1>5, <1>6, Zenon DEF S

\* No piece has no rows.
LEMMA RowsOfNone == RowsOf(<<>>) = <<>>
<1>1. [i \in DOMAIN <<>> |-> RowsIn(<<>>[i])] = <<>>
      OBVIOUS
<1>2. FlattenSeq(<<>>) = <<>>
      BY DEF FlattenSeq
<1>3. QED BY <1>1, <1>2, Zenon DEF RowsOf

\* The rows of one piece.
LEMMA RowsOfOne ==
    ASSUME NEW paths, NEW p \in Ranges(paths)
    PROVE  RowsOf(<<p>>) = RowsIn(p)
<1>1. [i \in DOMAIN <<p>> |-> RowsIn(<<p>>[i])] = <<RowsIn(p)>>
      OBVIOUS
<1>2. FlattenSeq(<<RowsIn(p)>>) = RowsIn(p)
      BY RowsInRange, FlattenOne
<1>3. QED BY <1>1, <1>2, Zenon DEF RowsOf

\* Tasks of these pieces.
TaskSet(P) == [rows : Nat \ {0}, pieces : Seq(P)]

\* The pieces of tasks one after the other.
LEMMA PiecesOfTasks ==
    ASSUME NEW P, NEW ps \in Seq(TaskSet(P)), NEW qs \in Seq(TaskSet(P))
    PROVE  PiecesOf(ps) \in Seq(P) /\ PiecesOf(ps \o qs) = PiecesOf(ps) \o PiecesOf(qs)
<1> DEFINE T == TaskSet(P) f == [t \in T |-> t.pieces]
<1>1. ToSequences(f, T, P)
      BY DEF TaskSet, ToSequences
<1>2. ASSUME NEW x \in Seq(T) PROVE [i \in DOMAIN x |-> f[x[i]]] = [i \in DOMAIN x |-> x[i].pieces]
  <2>1. \A i \in DOMAIN x : x[i] \in T
        BY ElementOfSeq
  <2>2. \A i \in DOMAIN x : f[x[i]] = x[i].pieces
        BY <2>1
  <2> HIDE DEF f
  <2>3. QED BY <2>2
<1>3. ps \o qs \in Seq(T)
      BY ConcatProperties
<1> HIDE DEF T, f
<1>4. ps \in Seq(T) /\ qs \in Seq(T)
      BY DEF T
<1>5. MapJoin(f, ps) \in Seq(P) /\ MapJoin(f, ps \o qs) = MapJoin(f, ps) \o MapJoin(f, qs)
      BY <1>1, <1>4, MapFlat
<1>6. /\ PiecesOf(ps) = MapJoin(f, ps) /\ PiecesOf(qs) = MapJoin(f, qs)
      /\ PiecesOf(ps \o qs) = MapJoin(f, ps \o qs)
      BY <1>2, <1>3, <1>4, Zenon DEF PiecesOf, MapJoin
<1>7. QED BY <1>5, <1>6, Zenon

\* The pieces of no task and of tasks with one more.
LEMMA PiecesOfMore ==
    ASSUME NEW P, NEW ts \in Seq(TaskSet(P)), NEW t \in TaskSet(P)
    PROVE  PiecesOf(<<>>) = <<>> /\ PiecesOf(Append(ts, t)) = PiecesOf(ts) \o t.pieces
<1>1. [i \in DOMAIN <<t>> |-> <<t>>[i].pieces] = <<t.pieces>>
      OBVIOUS
<1>2. [i \in DOMAIN <<>> |-> <<>>[i].pieces] = <<>>
      OBVIOUS
<1>3. FlattenSeq(<<t.pieces>>) = t.pieces
  <2>1. t.pieces \in Seq(P)
        BY DEF TaskSet
  <2>2. QED BY <2>1, FlattenOne
<1>4. FlattenSeq(<<>>) = <<>>
      BY DEF FlattenSeq
<1>5. PiecesOf(<<>>) = <<>> /\ PiecesOf(<<t>>) = t.pieces
      BY <1>1, <1>2, <1>3, <1>4, Zenon DEF PiecesOf
<1>6. Append(ts, t) = ts \o <<t>> /\ <<t>> \in Seq(TaskSet(P))
      BY AppendIsConcat
<1>7. PiecesOf(ts \o <<t>>) = PiecesOf(ts) \o PiecesOf(<<t>>)
      BY <1>6, PiecesOfTasks
<1>8. QED BY <1>5, <1>6, <1>7, Zenon
-----------------------------------------------------------------------------
(* One piece more. *)

\* A sequence that is not empty is its front and its last.
LEMMA FrontAndLast ==
    ASSUME NEW S, NEW s \in Seq(S), s # <<>>
    PROVE  /\ Front(s) \in Seq(S) /\ Last(s) \in S /\ s = Append(Front(s), Last(s))
           /\ Len(Front(s)) = Len(s) - 1 /\ Len(s) \in Nat \ {0}
           /\ \A k \in 1..Len(s) - 1 : Front(s)[k] = s[k]
<1>1. Len(s) \in Nat \ {0}
      BY EmptySeq
<1>2. \A k \in 1..Len(s) : s[k] \in S
      BY ElementOfSeq
<1>3. /\ Front(s) \in Seq(S) /\ Len(Front(s)) = Len(s) - 1
      /\ \A k \in 1..Len(s) - 1 : Front(s)[k] = s[k]
  <2>1. \A k \in 1..Len(s) - 1 : s[k] \in S
        BY <1>1, <1>2
  <2> DEFINE n == Len(s) - 1
  <2>2. n \in Nat /\ \A k \in 1..n : s[k] \in S
        BY <1>1, <2>1
  <2>3. Front(s) = SubSeq(s, 1, n)
        BY DEF Front
  <2> HIDE DEF n
  <2>4. /\ SubSeq(s, 1, n) \in Seq(S) /\ Len(SubSeq(s, 1, n)) = IF 1 <= n THEN n - 1 + 1 ELSE 0
        /\ \A k \in 1..n - 1 + 1 : SubSeq(s, 1, n)[k] = s[1 + k - 1]
        BY <2>2, SubSeqProperties
  <2> DEFINE f == SubSeq(s, 1, n)
  <2> HIDE DEF f
  <2>5. f \in Seq(S) /\ Len(f) = n /\ \A k \in 1..n : f[k] = s[k]
    <3>1. /\ f \in Seq(S) /\ Len(f) = IF 1 <= n THEN n - 1 + 1 ELSE 0
          /\ \A k \in 1..n - 1 + 1 : f[k] = s[1 + k - 1]
          BY <2>4 DEF f
    <3>2. QED BY <2>2, <3>1
  <2>6. QED BY <2>3, <2>5 DEF f, n
<1>4. Last(s) \in S
      BY <1>1, <1>2 DEF Last
<1>5. s = Append(Front(s), Last(s))
  <2>1. /\ Append(Front(s), Last(s)) \in Seq(S) /\ Len(Append(Front(s), Last(s))) = Len(s)
        /\ \A k \in 1..Len(s) - 1 : Append(Front(s), Last(s))[k] = Front(s)[k]
        /\ Append(Front(s), Last(s))[Len(s)] = Last(s)
        BY <1>1, <1>3, <1>4, AppendProperties
  <2>2. ASSUME NEW k \in 1..Len(s) PROVE s[k] = Append(Front(s), Last(s))[k]
        BY <1>1, <1>3, <2>1 DEF Last
  <2>3. QED BY <2>1, <2>2, SeqEqual
<1>6. QED BY <1>1, <1>3, <1>4, <1>5

\* What associativity says of three sequences.
Regroups(a, b, c) == (a \o b) \o c = a \o (b \o c)

\* Concatenation is associative.
LEMMA Regroup ==
    ASSUME NEW S, NEW a, NEW b, NEW c, a \in Seq(S), b \in Seq(S), c \in Seq(S)
    PROVE  Regroups(a, b, c)
BY ConcatAssociative DEF Regroups

\* One piece more at the end has its rows more.
LEMMA RowsOfAppend ==
    ASSUME NEW paths, NEW ps \in Seq(Ranges(paths)), NEW p \in Ranges(paths)
    PROVE  RowsOf(Append(ps, p)) = RowsOf(ps) \o RowsIn(p)
<1>1. Append(ps, p) = ps \o <<p>> /\ <<p>> \in Seq(Ranges(paths))
      BY AppendIsConcat
<1>2. RowsOf(ps \o <<p>>) = RowsOf(ps) \o RowsOf(<<p>>) /\ RowsOf(<<p>>) = RowsIn(p)
      BY <1>1, RowsOfPieces, RowsOfOne
<1>3. QED BY <1>1, <1>2, Zenon

\* Joined or not, the pieces have the rows of both.
LEMMA WithPieceRows ==
    ASSUME NEW paths, NEW ps \in Seq(Ranges(paths)), NEW p \in Ranges(paths)
    PROVE  /\ WithPiece(ps, p) \in Seq(Ranges(paths)) /\ WithPiece(ps, p) # <<>>
           /\ Last(WithPiece(ps, p)).path = p.path
           /\ RowsOf(WithPiece(ps, p)) = RowsOf(ps) \o RowsIn(p)
<1> DEFINE P == Ranges(paths)
           Adjoins == recuts > 0 /\ ps # <<>> /\ Last(ps).path = p.path /\ Last(ps).end = p.start
<1>1. CASE ~Adjoins
  <2>1. WithPiece(ps, p) = Append(ps, p)
        BY <1>1 DEF WithPiece
  <2>2. Append(ps, p) \in Seq(P) /\ Append(ps, p) # <<>> /\ Last(Append(ps, p)) = p
        BY AppendProperties, LenProperties DEF Last
  <2> HIDE DEF P
  <2>3. QED BY <2>1, <2>2, RowsOfAppend DEF P
<1>2. CASE Adjoins
  <2> DEFINE r == Front(ps) e == Last(ps) q == Piece(p.path, e.start, p.end)
  <2>1. WithPiece(ps, p) = Append(r, q)
        BY <1>2 DEF WithPiece
  <2>2. r \in Seq(P) /\ e \in P /\ ps = Append(r, e)
        BY <1>2, FrontAndLast
  <2>3. /\ e.path = p.path /\ e.end = p.start /\ p.path \in paths
        /\ e.start \in Nat /\ p.start \in Nat /\ p.end \in Nat
        /\ e.start <= p.start /\ p.start <= p.end
        BY <1>2, <2>2 DEF Ranges
  <2>4. q \in P /\ q.path = p.path
        BY <2>3 DEF Ranges, Piece
  <2>5. e = Piece(p.path, e.start, p.start) /\ p = Piece(p.path, p.start, p.end)
        BY <2>2, <2>3 DEF Ranges, Piece
  <2>6. RowsIn(q) = RowsIn(e) \o RowsIn(p)
    <3>1. RowsIn(Piece(p.path, e.start, p.end)) =
             RowsIn(Piece(p.path, e.start, p.start)) \o RowsIn(Piece(p.path, p.start, p.end))
          BY <2>3, RowsInCut
    <3> HIDE DEF e
    <3>2. QED BY <2>5, <3>1, Zenon
  <2>7. Append(r, q) \in Seq(P) /\ Append(r, q) # <<>> /\ Last(Append(r, q)) = q
        BY <2>2, <2>4, AppendProperties, LenProperties DEF Last
  <2>8. RowsOf(Append(r, q)) = RowsOf(r) \o RowsIn(q) /\ RowsOf(ps) = RowsOf(r) \o RowsIn(e)
        BY <2>2, <2>4, RowsOfAppend
  <2>9. (RowsOf(r) \o RowsIn(e)) \o RowsIn(p) = RowsOf(r) \o (RowsIn(e) \o RowsIn(p))
    <3>1. RowsOf(r) \in Seq(paths \X Nat) /\ RowsIn(e) \in Seq(paths \X Nat) /\ RowsIn(p) \in Seq(paths \X Nat)
          BY <2>2, RowsOfPieces, RowsInRange
    <3> HIDE DEF r, e
    <3>2. Regroups(RowsOf(r), RowsIn(e), RowsIn(p))
          BY <3>1, Regroup
    <3>3. QED BY <3>2, Zenon DEF Regroups
  <2> HIDE DEF r, e, q, P
  <2>10. QED BY <2>1, <2>4, <2>6, <2>7, <2>8, <2>9, Zenon DEF P
<1>3. QED BY <1>1, <1>2

\* No piece adjoins the next when the last was joined to one it adjoined.
LEMMA WithPieceAdjoins ==
    ASSUME NEW paths, NEW ps \in Seq(Ranges(paths)), NEW p \in Ranges(paths), NoneAdjoin(ps),
           recuts > 0 \/ ps = <<>> \/ Last(ps).path # p.path
    PROVE  NoneAdjoin(WithPiece(ps, p))
<1> DEFINE Adjoins == recuts > 0 /\ ps # <<>> /\ Last(ps).path = p.path /\ Last(ps).end = p.start
<1>1. CASE ~Adjoins
  <2>1. WithPiece(ps, p) = Append(ps, p)
        BY <1>1 DEF WithPiece
  <2> DEFINE w == Append(ps, p) n == Len(ps)
  <2>2. /\ n \in Nat /\ Len(w) = n + 1 /\ w[n + 1] = p
        /\ \A k \in 1..n : w[k] = ps[k]
        BY AppendProperties, LenProperties
  <2>3. ASSUME NEW k \in 1..n
        PROVE  ~ (w[k].path = w[k + 1].path /\ w[k].end = w[k + 1].start)
    <3>1. CASE k < n
      <4>1. k \in 1..Len(ps) - 1 /\ w[k] = ps[k] /\ w[k + 1] = ps[k + 1]
            BY <2>2, <3>1
      <4> HIDE DEF w, n
      <4>2. QED BY <4>1 DEF NoneAdjoin
    <3>2. CASE k = n
      <4>1. ps # <<>> /\ w[k] = Last(ps) /\ w[k + 1] = p
            BY <2>2, <3>2, EmptySeq DEF Last
      <4> HIDE DEF w, n
      <4>2. QED BY <1>1, <4>1
    <3>3. QED BY <2>2, <3>1, <3>2
  <2> HIDE DEF w, n
  <2>4. NoneAdjoin(w)
        BY <2>2, <2>3 DEF NoneAdjoin
  <2>5. QED BY <2>1, <2>4 DEF w
<1>2. CASE Adjoins
  <2> DEFINE q == Piece(p.path, Last(ps).start, p.end) w == Append(Front(ps), q) n == Len(ps)
  <2>1. WithPiece(ps, p) = w
        BY <1>2 DEF WithPiece
  <2>2. /\ Front(ps) \in Seq(Ranges(paths)) /\ Last(ps) \in Ranges(paths)
        /\ Len(Front(ps)) = n - 1 /\ n \in Nat \ {0}
        /\ \A k \in 1..n - 1 : Front(ps)[k] = ps[k]
        BY <1>2, FrontAndLast
  <2>3. q \in Ranges(paths)
        BY <1>2, <2>2 DEF Ranges, Piece
  <2>4. Len(w) = n /\ w[n] = q /\ \A k \in 1..n - 1 : w[k] = ps[k]
    <3> HIDE DEF q, n
    <3>1. QED BY <2>2, <2>3, AppendProperties
  <2>5. q.path = Last(ps).path /\ q.start = Last(ps).start /\ Last(ps) = ps[n]
        BY <1>2 DEF Piece, Last
  <2>6. ASSUME NEW k \in 1..n - 1
        PROVE  ~ (w[k].path = w[k + 1].path /\ w[k].end = w[k + 1].start)
    <3>1. ~ (ps[k].path = ps[k + 1].path /\ ps[k].end = ps[k + 1].start)
          BY DEF NoneAdjoin
    <3> HIDE DEF w, n, q
    <3>2. w[k] = ps[k] /\ w[k + 1].path = ps[k + 1].path /\ w[k + 1].start = ps[k + 1].start
      <4>1. CASE k = n - 1
            BY <2>2, <2>4, <2>5, <4>1
      <4>2. CASE k # n - 1
            BY <2>2, <2>4, <4>2
      <4>3. QED BY <4>1, <4>2
    <3>3. QED BY <3>1, <3>2
  <2> HIDE DEF w, n
  <2>7. NoneAdjoin(w)
        BY <2>4, <2>6 DEF NoneAdjoin
  <2>8. QED BY <2>1, <2>7
<1>3. QED BY <1>1, <1>2
-----------------------------------------------------------------------------
(* The inductive invariant. *)

\* The rows counted into the task being filled are those of its pieces.
FilledCounted == filled = Len(RowsOf(pieces))

\* A plan that is written leaves nothing over.
PlannedAll == pc = "planned" => pieces = <<>> /\ filled = 0 /\ todo = <<>>

\* The ranges to go through name later and later files.
FilesInOrder == \A i, j \in DOMAIN todo : i < j => todo[i].path < todo[j].path

\* No range to go through is of a file before that of the last piece, and one
\* of the same file has no rows left.
LastFileDone ==
    pieces # <<>> =>
        \A j \in DOMAIN todo : /\ Last(pieces).path <= todo[j].path
                               /\ Last(pieces).path = todo[j].path => todo[j].start >= todo[j].end

IInv ==
    /\ TypeOK /\ EveryRowOnce /\ TasksFull /\ Coalesced
    /\ FilledCounted /\ PlannedAll /\ NoneAdjoin(pieces)
    /\ recuts = 0 => FilesInOrder /\ LastFileDone

\* The files of the corpus are numbered from 1.
LEMMA FilesNumbered ==
    ASSUME TypeOK
    PROVE  /\ sources \in Seq(Nat) /\ DOMAIN sources = 1..Len(sources) /\ Len(sources) \in Nat
           /\ size \in Nat \ {0} /\ tasks \in Seq(TaskSet(Ranges(DOMAIN sources)))
           /\ todo \in Seq(Ranges(DOMAIN sources)) /\ pieces \in Seq(Ranges(DOMAIN sources))
           /\ filled \in 0..size - 1 /\ Len(tasks) \in Nat
<1>1. sources \in Seq(Nat) /\ size \in Nat \ {0}
      BY SourcesAssumption, SizesAssumption DEF TypeOK
<1>2. tasks \in Seq(TaskSet(Ranges(DOMAIN sources)))
      BY DEF TypeOK, TaskSet
<1>3. QED BY <1>1, <1>2, LenProperties DEF TypeOK

\* A range is three numbers.
LEMMA RangeIsNumbers ==
    ASSUME TypeOK, NEW p \in Ranges(DOMAIN sources)
    PROVE  p.path \in Nat /\ p.start \in Nat /\ p.end \in Nat
<1>1. p.path \in DOMAIN sources /\ p.start \in Nat /\ p.end \in Nat
      BY DEF Ranges
<1>2. DOMAIN sources = 1..Len(sources) /\ Len(sources) \in Nat
      BY FilesNumbered
<1>3. QED BY <1>1, <1>2

\* The first range to go through and the others.
LEMMA RowsOfHead ==
    ASSUME TypeOK, todo # <<>>
    PROVE  /\ Head(todo) \in Ranges(DOMAIN sources) /\ Tail(todo) \in Seq(Ranges(DOMAIN sources))
           /\ RowsOf(todo) = RowsIn(Head(todo)) \o RowsOf(Tail(todo))
<1> DEFINE P == Ranges(DOMAIN sources) r == Head(todo) rest == Tail(todo)
<1>1. todo \in Seq(P)
      BY FilesNumbered
<1>2. r \in P /\ rest \in Seq(P) /\ <<r>> \in Seq(P) /\ todo = <<r>> \o rest
  <2> HIDE DEF P
  <2>1. r \in P /\ rest \in Seq(P)
        BY <1>1, HeadTailProperties
  <2>2. QED BY <1>1, <2>1
<1>3. RowsOf(<<r>> \o rest) = RowsOf(<<r>>) \o RowsOf(rest) /\ RowsOf(<<r>>) = RowsIn(r)
  <2> HIDE DEF r, rest
  <2>1. QED BY <1>2, RowsOfPieces, RowsOfOne
<1> HIDE DEF r, rest
<1>4. QED BY <1>2, <1>3, Zenon DEF r, rest

\* A task more has its pieces' rows more.
LEMMA RowsOfTask ==
    ASSUME NEW paths, NEW ts \in Seq(TaskSet(Ranges(paths))), NEW t \in TaskSet(Ranges(paths))
    PROVE  /\ PiecesOf(ts) \in Seq(Ranges(paths)) /\ t.pieces \in Seq(Ranges(paths))
           /\ RowsOf(PiecesOf(Append(ts, t))) = RowsOf(PiecesOf(ts)) \o RowsOf(t.pieces)
<1>1. PiecesOf(ts) \in Seq(Ranges(paths)) /\ t.pieces \in Seq(Ranges(paths))
      BY PiecesOfTasks DEF TaskSet
<1>2. PiecesOf(Append(ts, t)) = PiecesOf(ts) \o t.pieces
      BY PiecesOfMore
<1>3. RowsOf(PiecesOf(ts) \o t.pieces) = RowsOf(PiecesOf(ts)) \o RowsOf(t.pieces)
      BY <1>1, RowsOfPieces
<1>4. QED BY <1>1, <1>2, <1>3, Zenon

\* What a pass of the cut takes off the first range to go through, and leaves.
CutRange == Piece(Head(todo).path, Head(todo).start, Head(todo).start + Take)
LeftRange == Piece(Head(todo).path, Head(todo).start + Take, Head(todo).end)

\* Together they have its rows, and the task in hand has room for the first.
LEMMA CutFacts ==
    ASSUME TypeOK, todo # <<>>, Head(todo).start < Head(todo).end
    PROVE  /\ Take \in Nat \ {0} /\ filled + Take <= size
           /\ filled + Take = size \/ LeftRange.start = LeftRange.end
           /\ CutRange \in Ranges(DOMAIN sources) /\ LeftRange \in Ranges(DOMAIN sources)
           /\ Tail(todo) \in Seq(Ranges(DOMAIN sources))
           /\ Len(RowsIn(CutRange)) = Take
           /\ RowsOf(todo) = (RowsIn(CutRange) \o RowsIn(LeftRange)) \o RowsOf(Tail(todo))
           /\ RowsOf(<<LeftRange>> \o Tail(todo)) = RowsIn(LeftRange) \o RowsOf(Tail(todo))
<1> DEFINE P == Ranges(DOMAIN sources) r == Head(todo) rest == Tail(todo)
<1>1. r \in P /\ rest \in Seq(P) /\ todo = <<r>> \o rest
  <2>1. todo \in Seq(P)
        BY FilesNumbered
  <2> HIDE DEF P
  <2>2. r \in P /\ rest \in Seq(P)
        BY <2>1, HeadTailProperties
  <2>3. QED BY <2>1, <2>2
<1>2. /\ r.path \in DOMAIN sources /\ r.start \in Nat /\ r.end \in Nat /\ r.start < r.end
      /\ r = Piece(r.path, r.start, r.end)
      BY <1>1 DEF Ranges, Piece
<1>3. /\ Take \in Nat \ {0} /\ filled + Take <= size
      /\ filled + Take = size \/ Take = r.end - r.start
      /\ r.start + Take \in Nat /\ r.start <= r.start + Take /\ r.start + Take <= r.end
  <2>1. filled \in Nat /\ size \in Nat /\ size - filled \in Nat \ {0} /\ r.end - r.start \in Nat \ {0}
    <3>1. filled \in 0..size - 1 /\ size \in Nat \ {0}
          BY FilesNumbered
    <3> HIDE DEF r
    <3>2. QED BY <1>2, <3>1
  <2> HIDE DEF r
  <2>2. Take = IF r.end - r.start < size - filled THEN r.end - r.start ELSE size - filled
        BY DEF Take, r
  <2>3. QED BY <1>2, <2>1, <2>2
<1>4. /\ CutRange \in P /\ LeftRange \in P /\ CutRange.end - CutRange.start = Take
      /\ LeftRange.start = r.start + Take /\ LeftRange.end = r.end
      BY <1>2, <1>3 DEF Ranges, Piece, CutRange, LeftRange
<1>5. Len(RowsIn(CutRange)) = Take
      BY <1>4, RowsInRange
<1>6. RowsIn(r) = RowsIn(CutRange) \o RowsIn(LeftRange)
  <2>1. RowsIn(Piece(r.path, r.start, r.end)) =
           RowsIn(Piece(r.path, r.start, r.start + Take)) \o RowsIn(Piece(r.path, r.start + Take, r.end))
        BY <1>2, <1>3, RowsInCut
  <2>2. QED BY <1>2, <2>1, Zenon DEF CutRange, LeftRange
<1>7. ASSUME NEW p \in P
      PROVE  RowsOf(<<p>> \o rest) = RowsIn(p) \o RowsOf(rest)
  <2>1. <<p>> \in Seq(P)
        OBVIOUS
  <2>2. RowsOf(<<p>> \o rest) = RowsOf(<<p>>) \o RowsOf(rest) /\ RowsOf(<<p>>) = RowsIn(p)
    <3> HIDE DEF rest
    <3>1. QED BY <1>1, <2>1, RowsOfPieces, RowsOfOne
  <2>3. QED BY <2>2, Zenon
<1> HIDE DEF P, r, rest
<1>8. /\ RowsOf(todo) = RowsIn(r) \o RowsOf(rest)
      /\ RowsOf(<<LeftRange>> \o rest) = RowsIn(LeftRange) \o RowsOf(rest)
      BY <1>1, <1>4, <1>7, Zenon
<1>9. RowsOf(todo) = (RowsIn(CutRange) \o RowsIn(LeftRange)) \o RowsOf(rest)
      BY <1>6, <1>8, Zenon
<1>10. filled + Take = size \/ LeftRange.start = LeftRange.end
      BY <1>2, <1>3, <1>4
<1>11. QED BY <1>1, <1>3, <1>4, <1>5, <1>8, <1>9, <1>10, Zenon DEF P, rest

\* Rows c moved from the ranges to go through to the task in hand.
RegroupsCut(a, b, c, d, e) ==
    /\ (a \o b) \o ((c \o d) \o e) = (a \o (b \o c)) \o (d \o e)
    /\ (a \o (b \o c)) \o <<>> = a \o (b \o c)

\* They stay in place.
LEMMA RegroupCut ==
    ASSUME NEW S, NEW a, NEW b, NEW c, NEW d, NEW e,
           a \in Seq(S), b \in Seq(S), c \in Seq(S), d \in Seq(S), e \in Seq(S)
    PROVE  RegroupsCut(a, b, c, d, e)
<1> DEFINE bc == b \o c cd == c \o d de == d \o e ab == a \o b
<1>1. bc \in Seq(S) /\ cd \in Seq(S) /\ de \in Seq(S) /\ ab \in Seq(S) /\ a \o bc \in Seq(S)
      BY ConcatProperties
<1> HIDE DEF bc, cd, de, ab
<1>2. Regroups(c, d, e)
      BY Regroup
<1>3. Regroups(ab, c, de)
      BY <1>1, Regroup
<1>4. Regroups(a, b, c)
      BY Regroup
<1>5. (a \o bc) \o <<>> = a \o bc
      BY <1>1, ConcatEmptySeq
<1>6. QED BY <1>2, <1>3, <1>4, <1>5, Zenon DEF Regroups, RegroupsCut, bc, cd, de, ab

\* What the cut takes goes to the end of the task in hand.
LEMMA CutPieceFacts ==
    ASSUME IInv, CutPiece
    PROVE  LET ps == WithPiece(pieces, CutRange)
               n == filled + Take
           IN  /\ Fill(ps, n) /\ todo' = <<LeftRange>> \o Tail(todo)
               /\ UNCHANGED <<sources, size, first, pc, written, recuts>> /\ pc = "cutting"
               /\ n \in 1..size /\ (n = size \/ LeftRange.start = LeftRange.end)
               /\ LeftRange \in Ranges(DOMAIN sources) /\ Tail(todo) \in Seq(Ranges(DOMAIN sources))
               /\ ps \in Seq(Ranges(DOMAIN sources)) /\ ps # <<>>
               /\ Last(ps).path = Head(todo).path /\ LeftRange.path = Head(todo).path
               /\ Len(RowsOf(ps)) = n /\ NoneAdjoin(ps)
               /\ LET a == RowsOf(PiecesOf(tasks))
                      d == RowsOf(<<LeftRange>> \o Tail(todo))
                  IN  /\ a \o RowsOf(ps) \o d = RowsOf(Whole(sources))
                      /\ (a \o RowsOf(ps)) \o <<>> = a \o RowsOf(ps)
<1> DEFINE ps == WithPiece(pieces, CutRange)
           n == filled + Take
           P == Ranges(DOMAIN sources)
           S == (DOMAIN sources) \X Nat
<1>1. TypeOK /\ todo # <<>> /\ Head(todo).start < Head(todo).end
      BY DEF IInv, CutPiece
<1>2. /\ Fill(ps, n) /\ todo' = <<LeftRange>> \o Tail(todo)
      /\ UNCHANGED <<sources, size, first, pc, written, recuts>> /\ pc = "cutting"
      BY DEF CutPiece, CutRange, LeftRange
<1>3. /\ Take \in Nat \ {0} /\ n <= size /\ (n = size \/ LeftRange.start = LeftRange.end)
      /\ CutRange \in P /\ LeftRange \in P /\ Tail(todo) \in Seq(P)
      /\ Len(RowsIn(CutRange)) = Take
      /\ RowsOf(todo) = (RowsIn(CutRange) \o RowsIn(LeftRange)) \o RowsOf(Tail(todo))
      /\ RowsOf(<<LeftRange>> \o Tail(todo)) = RowsIn(LeftRange) \o RowsOf(Tail(todo))
      BY <1>1, CutFacts
<1>4. /\ pieces \in Seq(P) /\ tasks \in Seq(TaskSet(P)) /\ filled \in 0..size - 1 /\ size \in Nat \ {0}
      /\ todo \in Seq(P)
      BY <1>1, FilesNumbered
<1>5. n \in 1..size
  <2>1. Take \in Nat \ {0} /\ filled + Take <= size /\ filled \in 0..size - 1 /\ size \in Nat \ {0}
        BY <1>3, <1>4
  <2>2. QED BY <2>1
<1>6. CutRange.path = Head(todo).path /\ LeftRange.path = Head(todo).path
      BY DEF CutRange, LeftRange, Piece
<1>7. /\ ps \in Seq(P) /\ ps # <<>> /\ Last(ps).path = CutRange.path
      /\ RowsOf(ps) = RowsOf(pieces) \o RowsIn(CutRange)
      BY <1>3, <1>4, WithPieceRows
<1>8. /\ RowsOf(pieces) \in Seq(S) /\ RowsIn(CutRange) \in Seq(S) /\ RowsIn(LeftRange) \in Seq(S)
      /\ RowsOf(Tail(todo)) \in Seq(S) /\ RowsOf(PiecesOf(tasks)) \in Seq(S)
  <2>1. PiecesOf(tasks) \in Seq(P)
        BY <1>4, PiecesOfTasks
  <2>2. QED BY <1>3, <1>4, <2>1, RowsOfPieces, RowsInRange
<1>9. Len(RowsOf(ps)) = n
  <2>1. Len(RowsOf(pieces) \o RowsIn(CutRange)) = Len(RowsOf(pieces)) + Len(RowsIn(CutRange))
        BY <1>8, ConcatProperties
  <2>2. Len(RowsOf(pieces)) = filled
        BY DEF IInv, FilledCounted
  <2> HIDE DEF ps, P, S
  <2>3. QED BY <1>3, <1>7, <2>1, <2>2
<1>10. NoneAdjoin(ps)
  <2>1. recuts > 0 \/ pieces = <<>> \/ Last(pieces).path # CutRange.path
    <3>1. SUFFICES ASSUME recuts = 0, pieces # <<>>, Last(pieces).path = CutRange.path PROVE FALSE
          BY DEF IInv, TypeOK
    <3>2. 1 \in DOMAIN todo /\ Head(todo) = todo[1]
          BY <1>1, <1>4, EmptySeq
    <3>3. Last(pieces).path = todo[1].path => todo[1].start >= todo[1].end
          BY <3>1, <3>2 DEF IInv, LastFileDone
    <3>4. todo[1] \in P
          BY <1>4, <3>2, ElementOfSeq
    <3>5. todo[1].start \in Nat /\ todo[1].end \in Nat
          BY <3>4 DEF Ranges
    <3>6. QED BY <1>1, <1>6, <3>1, <3>2, <3>3, <3>5
  <2>2. NoneAdjoin(pieces)
        BY DEF IInv
  <2>3. QED BY <1>3, <1>4, <2>1, <2>2, WithPieceAdjoins
<1> DEFINE a == RowsOf(PiecesOf(tasks))
           d == RowsOf(<<LeftRange>> \o Tail(todo))
<1>11. a \o RowsOf(ps) \o d = RowsOf(Whole(sources)) /\ (a \o RowsOf(ps)) \o <<>> = a \o RowsOf(ps)
  <2>1. RegroupsCut(a, RowsOf(pieces), RowsIn(CutRange), RowsIn(LeftRange), RowsOf(Tail(todo)))
        BY <1>8, RegroupCut
  <2>2. a \o RowsOf(pieces) \o RowsOf(todo) = RowsOf(Whole(sources))
        BY DEF IInv, EveryRowOnce
  <2>3. d = RowsIn(LeftRange) \o RowsOf(Tail(todo))
        BY <1>3
  <2> HIDE DEF a, d, ps, P, S
  <2>4. QED BY <1>3, <1>7, <2>1, <2>2, <2>3, Zenon DEF RegroupsCut
<1> HIDE DEF ps, n, P, S, a, d
<1>12. QED BY <1>2, <1>3, <1>5, <1>6, <1>7, <1>9, <1>10, <1>11, Zenon DEF ps, n, P, a, d

\* The ranges still to go through stay in order when the first is cut.
LEMMA CutKeepsOrder ==
    ASSUME NEW P, NEW r \in P, todo \in Seq(P), todo # <<>>, r.path = Head(todo).path,
           FilesInOrder, todo' = <<r>> \o Tail(todo)
    PROVE  /\ FilesInOrder' /\ DOMAIN todo' = DOMAIN todo /\ todo'[1] = r
           /\ \A j \in DOMAIN todo \ {1} : todo'[j] = todo[j] /\ r.path < todo[j].path
<1>1. /\ DOMAIN todo = 1..Len(todo) /\ Len(todo) \in Nat \ {0}
      /\ Tail(todo) \in Seq(P) /\ Len(Tail(todo)) = Len(todo) - 1
      /\ \A i \in 1..Len(Tail(todo)) : Tail(todo)[i] = todo[i + 1]
      BY EmptySeq, LenProperties, HeadTailProperties
<1>2. /\ todo' \in Seq(P) /\ Len(todo') = Len(todo) /\ todo'[1] = r
      /\ \A j \in 2..Len(todo) : todo'[j] = Tail(todo)[j - 1]
  <2> DEFINE u == <<r>> v == Tail(todo)
  <2>1. u \in Seq(P) /\ Len(u) = 1 /\ u[1] = r /\ v \in Seq(P) /\ Len(v) = Len(todo) - 1
        BY <1>1
  <2> HIDE DEF u, v
  <2>2. /\ u \o v \in Seq(P) /\ Len(u \o v) = Len(u) + Len(v)
        /\ \A j \in 1..Len(u) + Len(v) : (u \o v)[j] = IF j <= Len(u) THEN u[j] ELSE v[j - Len(u)]
        BY <2>1, ConcatProperties
  <2>3. todo' = u \o v
        BY DEF u, v
  <2>4. \A j \in 2..Len(todo) : (u \o v)[j] = v[j - 1]
        BY <1>1, <2>1, <2>2
  <2>5. Len(u \o v) = Len(todo) /\ (u \o v)[1] = r
        BY <1>1, <2>1, <2>2
  <2> DEFINE w == u \o v
  <2> HIDE DEF w
  <2>6. w \in Seq(P) /\ Len(w) = Len(todo) /\ w[1] = r /\ \A j \in 2..Len(todo) : w[j] = v[j - 1]
        BY <2>2, <2>4, <2>5 DEF w
  <2>7. QED BY <2>3, <2>6 DEF w, v
<1>3. \A j \in 2..Len(todo) : todo'[j] = todo[j]
      BY <1>1, <1>2
<1>4. DOMAIN todo' = 1..Len(todo)
      BY <1>2, LenProperties
<1>5. todo[1].path = r.path
      BY <1>1
<1>6. \A j \in 2..Len(todo) : r.path < todo[j].path
      BY <1>1, <1>5 DEF FilesInOrder
<1>7. FilesInOrder'
      BY <1>1, <1>2, <1>3, <1>4, <1>5 DEF FilesInOrder
<1>8. QED BY <1>1, <1>2, <1>3, <1>4, <1>6, <1>7

\* A pass of the inner loop.
LEMMA CutPieceStep == IInv /\ CutPiece => IInv'
<1> SUFFICES ASSUME IInv, CutPiece PROVE IInv'
    OBVIOUS
<1> DEFINE ps == WithPiece(pieces, CutRange)
           n == filled + Take
           P == Ranges(DOMAIN sources)
           t == [rows |-> n, pieces |-> ps]
           a == RowsOf(PiecesOf(tasks))
           d == RowsOf(<<LeftRange>> \o Tail(todo))
<1>1. /\ Fill(ps, n) /\ todo' = <<LeftRange>> \o Tail(todo)
      /\ UNCHANGED <<sources, size, first, pc, written, recuts>> /\ pc = "cutting"
      /\ n \in 1..size /\ (n = size \/ LeftRange.start = LeftRange.end)
      /\ LeftRange \in P /\ Tail(todo) \in Seq(P) /\ ps \in Seq(P) /\ ps # <<>>
      /\ Last(ps).path = Head(todo).path /\ LeftRange.path = Head(todo).path
      /\ Len(RowsOf(ps)) = n /\ NoneAdjoin(ps)
      /\ a \o RowsOf(ps) \o d = RowsOf(Whole(sources))
      /\ (a \o RowsOf(ps)) \o <<>> = a \o RowsOf(ps)
      BY CutPieceFacts
<1>2. /\ TypeOK /\ todo # <<>> /\ tasks \in Seq(TaskSet(P)) /\ todo \in Seq(P)
      /\ size \in Nat \ {0} /\ Len(tasks) \in Nat
      BY FilesNumbered DEF IInv, CutPiece
<1>3. todo' \in Seq(P)
  <2>1. <<LeftRange>> \in Seq(P)
        BY <1>1
  <2> HIDE DEF P
  <2>2. QED BY <1>1, <2>1, ConcatProperties
<1>4. t \in TaskSet(P) /\ t.rows = n /\ t.pieces = ps
      BY <1>1, <1>2 DEF TaskSet
<1> DEFINE ts == Append(tasks, t)
<1>5. /\ ts \in Seq(TaskSet(P)) /\ Len(ts) = Len(tasks) + 1 /\ ts[Len(tasks) + 1] = t
      /\ \A i \in 1..Len(tasks) : ts[i] = tasks[i]
  <2> HIDE DEF t, P
  <2>1. QED BY <1>2, <1>4, AppendProperties
<1>6. n # size => tasks' = tasks /\ pieces' = ps /\ filled' = n
      BY <1>1 DEF Fill
<1>7. n = size => tasks' = ts /\ pieces' = <<>> /\ filled' = 0
      BY <1>1 DEF Fill
<1> HIDE DEF ps, n, P, t, ts
<1>8. TypeOK'
  <2>1. /\ pieces' \in Seq(P) /\ filled' \in 0..size - 1 /\ tasks' \in Seq(TaskSet(P))
        /\ Len(tasks') \in Nat /\ Len(tasks) <= Len(tasks')
    <3>1. CASE n = size
          BY <1>2, <1>5, <1>7, <3>1, EmptySeq
    <3>2. CASE n # size
          BY <1>1, <1>2, <1>6, <3>2
    <3>3. QED BY <3>1, <3>2
  <2>2. P' = P /\ tasks' \in Seq([rows : Nat \ {0}, pieces : Seq(P)])
        BY <1>1, <2>1 DEF P, TaskSet
  <2>3. sources' \in Sources /\ size' \in Sizes /\ recuts' \in 0..MaxRecuts /\ pc' \in {"cutting", "planned"}
        BY <1>1, <1>2 DEF TypeOK
  <2>4. first' \in 0..Len(tasks') /\ written' \subseteq 0..Len(tasks') - 1
    <3>1. first' = first /\ written' = written /\ first \in 0..Len(tasks) /\ written \subseteq 0..Len(tasks) - 1
          BY <1>1, <1>2 DEF TypeOK
    <3>2. QED BY <1>2, <2>1, <3>1
  <2>5. filled' \in 0..size' - 1
        BY <1>1, <2>1
  <2>6. todo' \in Seq(P') /\ pieces' \in Seq(P') /\ tasks' \in Seq([rows : Nat \ {0}, pieces : Seq(P')])
        BY <1>3, <2>1, <2>2
  <2>7. QED BY <2>3, <2>4, <2>5, <2>6 DEF TypeOK, P
<1>9. EveryRowOnce'
  <2>1. RowsOf(todo') = d /\ Whole(sources)' = Whole(sources)
        BY <1>1 DEF Whole
  <2>2. RowsOf(PiecesOf(tasks')) \o RowsOf(pieces') = a \o RowsOf(ps)
    <3>1. CASE n = size
      <4>1. RowsOf(PiecesOf(ts)) = a \o RowsOf(ps)
        <5>1. RowsOf(PiecesOf(Append(tasks, t))) = RowsOf(PiecesOf(tasks)) \o RowsOf(t.pieces)
              BY <1>2, <1>4, RowsOfTask DEF P
        <5>2. QED BY <1>4, <5>1, Zenon DEF ts, a
      <4>2. RowsOf(<<>>) = <<>>
            BY RowsOfNone
      <4>3. tasks' = ts /\ pieces' = <<>>
            BY <1>7, <3>1
      <4> HIDE DEF a, d
      <4>4. QED BY <1>1, <4>1, <4>2, <4>3, Zenon
    <3>2. CASE n # size
          BY <1>6, <3>2, Zenon DEF a
    <3>3. QED BY <3>1, <3>2
  <2>3. RowsOf(PiecesOf(tasks')) \o RowsOf(pieces') \o RowsOf(todo') = RowsOf(Whole(sources))
    <3> HIDE DEF a, d
    <3>1. QED BY <1>1, <2>1, <2>2, Zenon
  <2>4. QED BY <2>1, <2>3, Zenon DEF EveryRowOnce
<1>10. TasksFull'
  <2>1. /\ \A i \in DOMAIN tasks : tasks[i].rows = Len(RowsOf(tasks[i].pieces))
        /\ \A i \in first + 1..Len(tasks) : tasks[i].rows = size
        BY <1>1 DEF IInv, TasksFull
  <2>2. DOMAIN tasks = 1..Len(tasks) /\ DOMAIN ts = 1..Len(tasks) + 1 /\ first \in 0..Len(tasks)
        BY <1>2, <1>5, LenProperties DEF TypeOK
  <2>3. CASE n = size
    <3>1. ASSUME NEW i \in 1..Len(tasks) + 1
          PROVE  /\ ts[i].rows = Len(RowsOf(ts[i].pieces))
                 /\ i \in first + 1..Len(tasks) + 1 => ts[i].rows = size
      <4>1. CASE i = Len(tasks) + 1
            BY <1>1, <1>4, <1>5, <2>3, <4>1
      <4>2. CASE i # Len(tasks) + 1
        <5>1. i \in 1..Len(tasks) /\ ts[i] = tasks[i]
              BY <1>2, <1>5, <4>2
        <5>2. QED BY <1>2, <2>1, <2>2, <5>1
      <4>3. QED BY <4>1, <4>2
    <3>2. tasks' = ts /\ first' = first /\ size' = size
          BY <1>1, <1>7, <2>3
    <3>3. \A i \in first + 1..Len(ts) : ts[i].rows = size
          BY <1>2, <1>5, <2>2, <3>1
    <3>4. \A i \in DOMAIN ts : ts[i].rows = Len(RowsOf(ts[i].pieces))
          BY <2>2, <3>1
    <3>5. QED BY <3>2, <3>3, <3>4 DEF TasksFull
  <2>4. CASE n # size
    <3>1. tasks' = tasks /\ first' = first /\ size' = size
          BY <1>1, <1>6, <2>4
    <3>2. QED BY <2>1, <3>1 DEF TasksFull
  <2>5. QED BY <2>3, <2>4
<1>11. Coalesced'
  <2>1. \A i \in first + 1..Len(tasks) : NoneAdjoin(tasks[i].pieces)
        BY DEF IInv, Coalesced
  <2>2. first \in 0..Len(tasks) /\ first' = first
        BY <1>1, <1>2 DEF TypeOK
  <2>3. CASE n = size
    <3>1. ASSUME NEW i \in first + 1..Len(ts) PROVE NoneAdjoin(ts[i].pieces)
      <4>1. CASE i = Len(tasks) + 1
            BY <1>1, <1>4, <1>5, <4>1
      <4>2. CASE i # Len(tasks) + 1
        <5>1. i \in first + 1..Len(tasks) /\ ts[i] = tasks[i]
              BY <1>2, <1>5, <2>2, <4>2
        <5>2. QED BY <2>1, <5>1
      <4>3. QED BY <4>1, <4>2
    <3>2. QED BY <1>7, <2>2, <2>3, <3>1 DEF Coalesced
  <2>4. CASE n # size
        BY <1>6, <2>1, <2>2, <2>4 DEF Coalesced
  <2>5. QED BY <2>3, <2>4
<1>12. FilledCounted' /\ PlannedAll' /\ NoneAdjoin(pieces)'
  <2>1. PlannedAll'
        BY <1>1 DEF PlannedAll
  <2>2. CASE n = size
    <3>1. RowsOf(<<>>) = <<>>
          BY RowsOfNone
    <3>2. Len(<<>>) = 0
          OBVIOUS
    <3>3. NoneAdjoin(<<>>)
          BY DEF NoneAdjoin
    <3>4. QED BY <1>7, <2>1, <2>2, <3>1, <3>2, <3>3 DEF FilledCounted
  <2>3. CASE n # size
        BY <1>1, <1>6, <2>1, <2>3 DEF FilledCounted
  <2>4. QED BY <2>2, <2>3
<1>13. recuts' = 0 => FilesInOrder' /\ LastFileDone'
  <2> SUFFICES ASSUME recuts' = 0 PROVE FilesInOrder' /\ LastFileDone'
      OBVIOUS
  <2>1. FilesInOrder
        BY <1>1 DEF IInv
  <2>2. /\ FilesInOrder' /\ DOMAIN todo' = DOMAIN todo /\ todo'[1] = LeftRange
        /\ \A j \in DOMAIN todo \ {1} : todo'[j] = todo[j] /\ LeftRange.path < todo[j].path
        BY <1>1, <1>2, <2>1, CutKeepsOrder
  <2>3. LastFileDone'
    <3>1. CASE n = size
          BY <1>7, <3>1 DEF LastFileDone
    <3>2. CASE n # size
      <4>1. LeftRange.path \in Nat /\ LeftRange.start \in Nat /\ LeftRange.end \in Nat
            BY <1>1, <1>2, RangeIsNumbers DEF P
      <4>2. pieces' = ps /\ LeftRange.start = LeftRange.end /\ Last(ps).path = LeftRange.path
            BY <1>1, <1>6, <3>2
      <4>3. ASSUME NEW j \in DOMAIN todo
            PROVE  /\ LeftRange.path <= todo'[j].path
                   /\ LeftRange.path = todo'[j].path => todo'[j].start >= todo'[j].end
        <5>1. CASE j = 1
              BY <2>2, <4>1, <4>2, <5>1
        <5>2. CASE j # 1
          <6>1. todo'[j] = todo[j] /\ LeftRange.path < todo[j].path
                BY <2>2, <5>2
          <6>2. todo[j].path \in Nat
            <7>1. todo[j] \in P
                  BY <1>2, ElementOfSeq, LenProperties
            <7>2. QED BY <1>2, <7>1, RangeIsNumbers DEF P
          <6>3. QED BY <4>1, <6>1, <6>2
        <5>3. QED BY <5>1, <5>2
      <4>4. QED BY <2>2, <4>2, <4>3 DEF LastFileDone
    <3>3. QED BY <3>1, <3>2
  <2>4. QED BY <2>2, <2>3
<1>14. QED BY <1>8, <1>9, <1>10, <1>11, <1>12, <1>13 DEF IInv

\* A range without rows left is done with.
LEMMA NextRangeStep == IInv /\ NextRange => IInv'
<1> SUFFICES ASSUME IInv, NextRange PROVE IInv'
    OBVIOUS
<1> DEFINE P == Ranges(DOMAIN sources)
<1>1. /\ TypeOK /\ pc = "cutting" /\ todo # <<>> /\ Head(todo).start >= Head(todo).end
      /\ todo' = Tail(todo)
      /\ UNCHANGED <<sources, size, first, pieces, filled, tasks, pc, written, recuts>>
      BY DEF IInv, NextRange
<1>2. /\ Head(todo) \in P /\ Tail(todo) \in Seq(P) /\ todo \in Seq(P)
      /\ RowsOf(todo) = RowsIn(Head(todo)) \o RowsOf(Tail(todo))
      BY <1>1, RowsOfHead, FilesNumbered
<1>3. RowsIn(Head(todo)) = <<>>
  <2>1. RowsIn(Head(todo)) \in Seq((DOMAIN sources) \X Nat) /\ Len(RowsIn(Head(todo))) = 0
    <3> DEFINE h == Head(todo)
    <3>1. /\ RowsIn(h) \in Seq((DOMAIN sources) \X Nat) /\ Len(RowsIn(h)) = h.end - h.start
          /\ h.start \in Nat /\ h.end \in Nat /\ h.start <= h.end
          BY <1>2, RowsInRange
    <3>2. h.start >= h.end
          BY <1>1
    <3> HIDE DEF h
    <3>3. Len(RowsIn(h)) = 0
          BY <3>1, <3>2
    <3>4. QED BY <3>1, <3>3 DEF h
  <2>2. QED BY <2>1, EmptySeq
<1>4. RowsOf(todo') = RowsOf(todo)
  <2>1. RowsOf(Tail(todo)) \in Seq((DOMAIN sources) \X Nat)
        BY <1>2, RowsOfPieces
  <2>2. <<>> \o RowsOf(Tail(todo)) = RowsOf(Tail(todo))
        BY <2>1, ConcatEmptySeq
  <2>3. QED BY <1>1, <1>2, <1>3, <2>2, Zenon
<1>5. TypeOK'
      BY <1>1, <1>2 DEF TypeOK
<1>6. EveryRowOnce'
      BY <1>1, <1>4, Zenon DEF IInv, EveryRowOnce, Whole
<1>7. TasksFull' /\ Coalesced' /\ FilledCounted' /\ PlannedAll' /\ NoneAdjoin(pieces)'
      BY <1>1 DEF IInv, TasksFull, Coalesced, FilledCounted, PlannedAll
<1>8. recuts' = 0 => FilesInOrder' /\ LastFileDone'
  <2> SUFFICES ASSUME recuts' = 0 PROVE FilesInOrder' /\ LastFileDone'
      OBVIOUS
  <2>1. FilesInOrder /\ LastFileDone /\ pieces' = pieces
        BY <1>1 DEF IInv
  <2>2. /\ todo' \in Seq(P) /\ Len(todo') = Len(todo) - 1
        /\ \A j \in 1..Len(todo') : todo'[j] = todo[j + 1]
        /\ Len(todo) \in Nat \ {0}
        BY <1>1, <1>2, HeadTailProperties, EmptySeq
  <2>3. DOMAIN todo = 1..Len(todo) /\ DOMAIN todo' = 1..Len(todo) - 1
        BY <1>2, <2>2, LenProperties
  <2>4. \A j \in DOMAIN todo' : j + 1 \in DOMAIN todo /\ todo'[j] = todo[j + 1] /\ j \in Nat
        BY <2>2, <2>3
  <2>5. FilesInOrder'
    <3>1. ASSUME NEW i \in DOMAIN todo', NEW j \in DOMAIN todo', i < j
          PROVE  todo'[i].path < todo'[j].path
      <4>1. i + 1 < j + 1
            BY <2>4, <3>1
      <4>2. QED BY <2>1, <2>4, <4>1 DEF FilesInOrder
    <3>2. QED BY <3>1 DEF FilesInOrder
  <2>6. LastFileDone'
        BY <2>1, <2>4 DEF LastFileDone
  <2>7. QED BY <2>5, <2>6
<1>9. QED BY <1>5, <1>6, <1>7, <1>8 DEF IInv

\* The short last task is written.
LEMMA CutEndsStep == IInv /\ CutEnds => IInv'
<1> SUFFICES ASSUME IInv, CutEnds PROVE IInv'
    OBVIOUS
<1> DEFINE P == Ranges(DOMAIN sources)
           t == [rows |-> filled, pieces |-> pieces]
           ts == Append(tasks, t)
           S == (DOMAIN sources) \X Nat
<1>1. /\ TypeOK /\ pc = "cutting" /\ todo = <<>> /\ tasks' = WithLast /\ pieces' = <<>> /\ filled' = 0
      /\ pc' = "planned" /\ UNCHANGED <<sources, size, first, todo, written, recuts>>
      BY DEF IInv, CutEnds
<1>2. /\ tasks \in Seq(TaskSet(P)) /\ pieces \in Seq(P) /\ todo \in Seq(P) /\ filled \in 0..size - 1
      /\ size \in Nat \ {0} /\ Len(tasks) \in Nat
      BY <1>1, FilesNumbered
<1>3. filled = Len(RowsOf(pieces)) /\ NoneAdjoin(pieces)
      BY DEF IInv, FilledCounted
<1>4. filled \in Nat /\ filled < size
      BY <1>2
<1>5. filled > 0 => t \in TaskSet(P) /\ t.rows = filled /\ t.pieces = pieces
      BY <1>2, <1>4 DEF TaskSet
<1>6. filled > 0 =>
          /\ ts \in Seq(TaskSet(P)) /\ Len(ts) = Len(tasks) + 1 /\ ts[Len(tasks) + 1] = t
          /\ \A i \in 1..Len(tasks) : ts[i] = tasks[i]
  <2> HIDE DEF t, P
  <2>1. QED BY <1>2, <1>5, AppendProperties
<1>7. (filled > 0 => tasks' = ts) /\ (~ (filled > 0) => tasks' = tasks)
      BY <1>1 DEF WithLast
<1> HIDE DEF P, t, ts, S
<1>8. TypeOK'
  <2>1. tasks' \in Seq(TaskSet(P)) /\ Len(tasks') \in Nat /\ Len(tasks) <= Len(tasks')
        BY <1>2, <1>6, <1>7
  <2>2. P' = P /\ tasks' \in Seq([rows : Nat \ {0}, pieces : Seq(P)])
        BY <1>1, <2>1 DEF P, TaskSet
  <2>3. /\ sources' \in Sources /\ size' \in Sizes /\ recuts' \in 0..MaxRecuts
        /\ pc' \in {"cutting", "planned"}
        BY <1>1 DEF TypeOK
  <2>4. first' \in 0..Len(tasks') /\ written' \subseteq 0..Len(tasks') - 1
    <3>1. first' = first /\ written' = written /\ first \in 0..Len(tasks) /\ written \subseteq 0..Len(tasks) - 1
          BY <1>1 DEF TypeOK
    <3>2. QED BY <1>2, <2>1, <3>1
  <2>5. filled' \in 0..size' - 1
        BY <1>1, <1>2
  <2>6. todo' \in Seq(P') /\ pieces' \in Seq(P') /\ tasks' \in Seq([rows : Nat \ {0}, pieces : Seq(P')])
        BY <1>1, <1>2, <2>1, <2>2, EmptySeq
  <2>7. QED BY <2>3, <2>4, <2>5, <2>6 DEF TypeOK, P
<1>9. EveryRowOnce'
  <2>1. /\ RowsOf(pieces) \in Seq(S) /\ RowsOf(PiecesOf(tasks)) \in Seq(S)
    <3>1. PiecesOf(tasks) \in Seq(P)
          BY <1>2, PiecesOfTasks
    <3>2. QED BY <1>2, <3>1, RowsOfPieces DEF P, S
  <2>2. RowsOf(PiecesOf(tasks')) = RowsOf(PiecesOf(tasks)) \o RowsOf(pieces)
    <3>1. CASE filled > 0
      <4>1. RowsOf(PiecesOf(Append(tasks, t))) = RowsOf(PiecesOf(tasks)) \o RowsOf(t.pieces)
            BY <1>2, <1>5, <3>1, RowsOfTask DEF P
      <4>2. tasks' = Append(tasks, t) /\ t.pieces = pieces
            BY <1>5, <1>7, <3>1 DEF ts
      <4>3. QED BY <4>1, <4>2, Zenon
    <3>2. CASE ~ (filled > 0)
      <4>1. RowsOf(pieces) = <<>>
            BY <1>3, <1>4, <2>1, <3>2, EmptySeq
      <4>2. RowsOf(PiecesOf(tasks)) \o <<>> = RowsOf(PiecesOf(tasks))
            BY <2>1, ConcatEmptySeq
      <4>3. tasks' = tasks
            BY <1>7, <3>2
      <4>4. QED BY <4>1, <4>2, <4>3, Zenon
    <3>3. QED BY <3>1, <3>2
  <2>3. RowsOf(<<>>) = <<>>
        BY RowsOfNone
  <2>4. RowsOf(PiecesOf(tasks)) \o RowsOf(pieces) \o RowsOf(todo) = RowsOf(Whole(sources))
        BY DEF IInv, EveryRowOnce
  <2> DEFINE x == RowsOf(PiecesOf(tasks)) \o RowsOf(pieces)
  <2>5. x \o <<>> = x /\ x \in Seq(S)
    <3>1. x \in Seq(S)
          BY <2>1, ConcatProperties
    <3> HIDE DEF x
    <3>2. QED BY <3>1, ConcatEmptySeq
  <2> HIDE DEF x
  <2>6. /\ RowsOf(PiecesOf(tasks')) = x /\ RowsOf(pieces') = <<>> /\ RowsOf(todo') = <<>>
        /\ x \o <<>> = RowsOf(Whole(sources))
        BY <1>1, <2>2, <2>3, <2>4, Zenon DEF x
  <2>7. RowsOf(Whole(sources))' = RowsOf(Whole(sources))
        BY <1>1 DEF Whole
  <2>8. QED BY <2>5, <2>6, <2>7, Zenon DEF EveryRowOnce
<1>10. TasksFull'
  <2>1. /\ \A i \in DOMAIN tasks : tasks[i].rows = Len(RowsOf(tasks[i].pieces))
        /\ \A i \in first + 1..Len(tasks) : tasks[i].rows = size
        BY <1>1 DEF IInv, TasksFull
  <2>2. /\ DOMAIN tasks = 1..Len(tasks) /\ first \in 0..Len(tasks)
        /\ tasks' \in Seq(TaskSet(P)) /\ DOMAIN tasks' = 1..Len(tasks')
    <3>1. tasks' \in Seq(TaskSet(P))
          BY <1>2, <1>6, <1>7
    <3>2. QED BY <1>1, <1>2, <3>1, LenProperties DEF TypeOK
  <2>3. ASSUME NEW i \in 1..Len(tasks')
        PROVE  /\ tasks'[i].rows = Len(RowsOf(tasks'[i].pieces))
               /\ i \in first + 1..Len(tasks') =>
                     \/ tasks'[i].rows = size
                     \/ i = Len(tasks') /\ tasks'[i].rows < size
    <3>1. CASE filled > 0 /\ i = Len(tasks) + 1
          BY <1>3, <1>4, <1>5, <1>6, <1>7, <3>1
    <3>2. CASE ~ (filled > 0 /\ i = Len(tasks) + 1)
      <4>1. i \in 1..Len(tasks) /\ tasks'[i] = tasks[i]
            BY <1>2, <1>6, <1>7, <3>2
      <4>2. i \in DOMAIN tasks /\ (i \in first + 1..Len(tasks') => i \in first + 1..Len(tasks))
            BY <1>2, <2>2, <4>1
      <4>3. tasks[i].rows = Len(RowsOf(tasks[i].pieces))
            BY <2>1, <4>2
      <4>4. i \in first + 1..Len(tasks') => tasks[i].rows = size
            BY <2>1, <4>2
      <4>5. QED BY <4>1, <4>3, <4>4
    <3>3. QED BY <3>1, <3>2
  <2>4. first' = first /\ size' = size /\ pc' = "planned"
        BY <1>1
  <2>5. ASSUME NEW i \in first + 1..Len(tasks') PROVE i \in 1..Len(tasks')
        BY <2>2
  <2>6. QED BY <2>2, <2>3, <2>4, <2>5 DEF TasksFull
<1>11. Coalesced'
  <2>1. \A i \in first + 1..Len(tasks) : NoneAdjoin(tasks[i].pieces)
        BY DEF IInv, Coalesced
  <2>2. first \in 0..Len(tasks) /\ first' = first
        BY <1>1 DEF TypeOK
  <2>3. ASSUME NEW i \in first + 1..Len(tasks') PROVE NoneAdjoin(tasks'[i].pieces)
    <3>1. CASE filled > 0 /\ i = Len(tasks) + 1
          BY <1>3, <1>5, <1>6, <1>7, <3>1
    <3>2. CASE ~ (filled > 0 /\ i = Len(tasks) + 1)
      <4>1. i \in first + 1..Len(tasks) /\ tasks'[i] = tasks[i]
            BY <1>2, <1>6, <1>7, <2>2, <3>2
      <4>2. QED BY <2>1, <4>1
    <3>3. QED BY <3>1, <3>2
  <2>4. QED BY <2>2, <2>3 DEF Coalesced
<1>12. FilledCounted' /\ PlannedAll' /\ NoneAdjoin(pieces)'
  <2>1. RowsOf(<<>>) = <<>>
        BY RowsOfNone
  <2>2. Len(<<>>) = 0 /\ NoneAdjoin(<<>>)
        BY DEF NoneAdjoin
  <2>3. QED BY <1>1, <2>1, <2>2 DEF FilledCounted, PlannedAll
<1>13. recuts' = 0 => FilesInOrder' /\ LastFileDone'
      BY <1>1 DEF FilesInOrder, LastFileDone
<1>14. QED BY <1>8, <1>9, <1>10, <1>11, <1>12, <1>13 DEF IInv

\* A subjob starting on a task changes no plan.
LEMMA StartTaskStep ==
    ASSUME NEW id \in 0..Len(tasks) - 1
    PROVE  IInv /\ StartTask(id) => IInv'
<1> SUFFICES ASSUME IInv, StartTask(id) PROVE IInv'
    OBVIOUS
<1>1. /\ pc = "planned" /\ written' = written \cup {id}
      /\ UNCHANGED <<sources, size, first, todo, pieces, filled, tasks, pc, recuts>>
      BY DEF StartTask
<1>2. TypeOK'
  <2>1. written' \subseteq 0..Len(tasks) - 1
        BY <1>1 DEF IInv, TypeOK
  <2>2. QED BY <1>1, <2>1 DEF IInv, TypeOK
<1>3. EveryRowOnce'
      BY <1>1, Zenon DEF IInv, EveryRowOnce, Whole
<1>4. TasksFull' /\ Coalesced' /\ FilledCounted' /\ PlannedAll' /\ NoneAdjoin(pieces)'
      BY <1>1 DEF IInv, TasksFull, Coalesced, FilledCounted, PlannedAll
<1>5. recuts' = 0 => FilesInOrder' /\ LastFileDone'
      BY <1>1 DEF IInv, FilesInOrder, LastFileDone
<1>6. QED BY <1>2, <1>3, <1>4, <1>5 DEF IInv

\* Tasks cut after one of them are its tasks and those after it.
LEMMA TasksCut ==
    ASSUME NEW T, NEW ts \in Seq(T), NEW b \in 0..Len(ts)
    PROVE  /\ SubSeq(ts, 1, b) \in Seq(T) /\ Len(SubSeq(ts, 1, b)) = b
           /\ \A i \in 1..b : SubSeq(ts, 1, b)[i] = ts[i]
           /\ SubSeq(ts, b + 1, Len(ts)) \in Seq(T)
           /\ SubSeq(ts, 1, b) \o SubSeq(ts, b + 1, Len(ts)) = ts
<1> DEFINE n == Len(ts) c == b + 1
<1>1. n \in Nat /\ b \in Nat /\ b <= n /\ c \in Nat /\ c = b + 1
      BY LenProperties
<1>2. \A i \in 1..n : ts[i] \in T
      BY ElementOfSeq
<1>3. SubSeq(ts, 1, n) = ts
      BY SubSeqFull
<1> HIDE DEF n, c
<1>4. /\ SubSeq(ts, 1, b) \in Seq(T) /\ Len(SubSeq(ts, 1, b)) = IF 1 <= b THEN b - 1 + 1 ELSE 0
      /\ \A i \in 1..b - 1 + 1 : SubSeq(ts, 1, b)[i] = ts[1 + i - 1]
  <2>1. \A i \in 1..b : ts[i] \in T
        BY <1>1, <1>2
  <2>2. QED BY <1>1, <2>1, SubSeqProperties
<1>5. SubSeq(ts, c, n) \in Seq(T)
  <2>1. \A i \in c..n : ts[i] \in T
        BY <1>1, <1>2
  <2>2. QED BY <1>1, <2>1, SubSeqProperties
<1>6. SubSeq(ts, 1, b) \o SubSeq(ts, b + 1, n) = SubSeq(ts, 1, n)
  <2>1. 1 \in 1..Len(ts) + 1 /\ b \in 1 - 1..Len(ts) /\ n \in b..Len(ts)
        BY <1>1 DEF n
  <2>2. QED BY <2>1, ConcatAdjacentSubSeq
<1> DEFINE f == SubSeq(ts, 1, b)
<1>7. f \in Seq(T) /\ Len(f) = b /\ \A i \in 1..b : f[i] = ts[i]
  <2>1. /\ f \in Seq(T) /\ Len(f) = IF 1 <= b THEN b - 1 + 1 ELSE 0
        /\ \A i \in 1..b - 1 + 1 : f[i] = ts[1 + i - 1]
        BY <1>4
  <2> HIDE DEF f
  <2>2. QED BY <1>1, <2>1
<1>8. QED BY <1>3, <1>5, <1>6, <1>7, Zenon DEF n, c

\* repartition_tail takes the pieces of the tasks from the boundary on.
LEMMA RecutStep ==
    ASSUME NEW boundary \in 0..Len(tasks), NEW n \in Sizes
    PROVE  IInv /\ Recut(boundary, n) => IInv'
<1> SUFFICES ASSUME IInv, Recut(boundary, n) PROVE IInv'
    OBVIOUS
<1> DEFINE P == Ranges(DOMAIN sources) T == TaskSet(P) S == (DOMAIN sources) \X Nat
           head == SubSeq(tasks, 1, boundary)
           tail == SubSeq(tasks, boundary + 1, Len(tasks))
<1>1. /\ TypeOK /\ pc = "planned" /\ recuts < MaxRecuts /\ Unwritten(boundary)
      /\ first' = boundary /\ size' = n /\ tasks' = head /\ todo' = PiecesOf(tail)
      /\ pc' = "cutting" /\ recuts' = recuts + 1
      /\ UNCHANGED <<sources, pieces, filled, written>>
      BY DEF IInv, Recut
<1>2. pieces = <<>> /\ filled = 0 /\ todo = <<>>
      BY <1>1 DEF IInv, PlannedAll
<1>3. tasks \in Seq(T)
      BY <1>1, FilesNumbered
<1>4. /\ head \in Seq(T) /\ Len(head) = boundary /\ \A i \in 1..boundary : head[i] = tasks[i]
      /\ tail \in Seq(T) /\ head \o tail = tasks
  <2> HIDE DEF T
  <2>1. QED BY <1>3, TasksCut
<1> HIDE DEF head, tail
<1>5. /\ PiecesOf(head) \in Seq(P) /\ PiecesOf(tail) \in Seq(P)
      /\ PiecesOf(head \o tail) = PiecesOf(head) \o PiecesOf(tail)
      BY <1>4, PiecesOfTasks
<1>6. /\ RowsOf(PiecesOf(head)) \in Seq(S) /\ RowsOf(PiecesOf(tail)) \in Seq(S)
      /\ RowsOf(PiecesOf(head) \o PiecesOf(tail)) = RowsOf(PiecesOf(head)) \o RowsOf(PiecesOf(tail))
      BY <1>5, RowsOfPieces
<1> HIDE DEF P, T, S
<1>7. TypeOK'
  <2>1. P' = P /\ tasks' \in Seq([rows : Nat \ {0}, pieces : Seq(P)])
        BY <1>1, <1>4 DEF P, T, TaskSet
  <2>2. sources' \in Sources /\ size' \in Sizes /\ pc' \in {"cutting", "planned"}
        BY <1>1 DEF TypeOK
  <2>3. recuts' \in 0..MaxRecuts
        BY <1>1, BoundAssumption DEF TypeOK
  <2>4. first' \in 0..Len(tasks') /\ written' \subseteq 0..Len(tasks') - 1
    <3>1. boundary \in Nat
          OBVIOUS
    <3>2. \A id \in written : id \in Nat /\ id < boundary
          BY <1>1 DEF TypeOK, Unwritten
    <3>3. QED BY <1>1, <1>4, <3>1, <3>2
  <2>5. filled' \in 0..size' - 1
    <3>1. n \in Nat \ {0}
          BY SizesAssumption
    <3>2. QED BY <1>1, <1>2, <3>1
  <2>6. todo' \in Seq(P') /\ pieces' \in Seq(P') /\ tasks' \in Seq([rows : Nat \ {0}, pieces : Seq(P')])
        BY <1>1, <1>2, <1>5, <2>1, EmptySeq
  <2>7. QED BY <2>2, <2>3, <2>4, <2>5, <2>6 DEF TypeOK, P
<1>8. EveryRowOnce'
  <2> DEFINE x == RowsOf(PiecesOf(head)) y == RowsOf(PiecesOf(tail))
  <2>1. x \in Seq(S) /\ y \in Seq(S) /\ x \o y \in Seq(S)
        BY <1>6, ConcatProperties
  <2> HIDE DEF x, y
  <2>2. x \o <<>> = x /\ (x \o y) \o <<>> = x \o y
    <3> DEFINE z == x \o y
    <3>1. z \in Seq(S)
          BY <2>1
    <3> HIDE DEF z
    <3>2. x \o <<>> = x /\ z \o <<>> = z
          BY <2>1, <3>1, ConcatEmptySeq
    <3>3. QED BY <3>2, Zenon DEF z
  <2>3. RowsOf(<<>>) = <<>>
        BY RowsOfNone
  <2>4. RowsOf(PiecesOf(tasks)) = x \o y
        BY <1>4, <1>5, <1>6, Zenon DEF x, y
  <2>5. RowsOf(PiecesOf(tasks)) \o RowsOf(pieces) \o RowsOf(todo) = RowsOf(Whole(sources))
        BY DEF IInv, EveryRowOnce
  <2>6. x \o y = RowsOf(Whole(sources))
        BY <1>2, <2>2, <2>3, <2>4, <2>5, Zenon
  <2>7. RowsOf(PiecesOf(tasks')) = x /\ RowsOf(pieces') = <<>> /\ RowsOf(todo') = y
        BY <1>1, <1>2, <2>3, Zenon DEF x, y
  <2>8. RowsOf(Whole(sources))' = RowsOf(Whole(sources))
        BY <1>1 DEF Whole
  <2>9. QED BY <2>2, <2>6, <2>7, <2>8, Zenon DEF EveryRowOnce
<1>9. TasksFull'
  <2>1. \A i \in DOMAIN tasks : tasks[i].rows = Len(RowsOf(tasks[i].pieces))
        BY DEF IInv, TasksFull
  <2>2. DOMAIN tasks = 1..Len(tasks) /\ Len(tasks) \in Nat /\ DOMAIN head = 1..boundary
        BY <1>3, <1>4, LenProperties
  <2>3. \A i \in DOMAIN head : head[i].rows = Len(RowsOf(head[i].pieces))
        BY <1>4, <2>1, <2>2
  <2>4. first' + 1..Len(tasks') = {}
        BY <1>1, <1>4
  <2>5. QED BY <1>1, <2>3, <2>4 DEF TasksFull
<1>10. Coalesced'
  <2>1. first' + 1..Len(tasks') = {}
        BY <1>1, <1>4
  <2>2. QED BY <2>1 DEF Coalesced
<1>11. FilledCounted' /\ PlannedAll' /\ NoneAdjoin(pieces)'
      BY <1>1 DEF IInv, FilledCounted, PlannedAll
<1>12. recuts' # 0
      BY <1>1 DEF TypeOK
<1>13. QED BY <1>7, <1>8, <1>9, <1>10, <1>11, <1>12 DEF IInv

\* The cut begins with every file whole.
LEMMA InitHolds == Init => IInv
<1> SUFFICES ASSUME Init PROVE IInv
    OBVIOUS
<1> DEFINE P == Ranges(DOMAIN sources) S == (DOMAIN sources) \X Nat
<1>1. /\ sources \in Sources /\ size \in Sizes /\ first = 0 /\ todo = Whole(sources)
      /\ pieces = <<>> /\ filled = 0 /\ tasks = <<>>
      /\ pc = "cutting" /\ written = {} /\ recuts = 0
      BY DEF Init
<1>2. /\ DOMAIN sources = 1..Len(sources) /\ Len(sources) \in Nat
      /\ \A i \in DOMAIN sources : sources[i] \in Nat
      BY <1>1, SourcesAssumption, LenProperties, ElementOfSeq
<1>3. \A i \in DOMAIN sources : Piece(i, 0, sources[i]) \in P
      BY <1>2 DEF Piece, Ranges
<1>4. /\ todo \in Seq(P) /\ DOMAIN todo = DOMAIN sources
      /\ \A i \in DOMAIN sources : todo[i] = Piece(i, 0, sources[i])
  <2>1. /\ todo \in [1..Len(sources) -> P]
        /\ \A i \in DOMAIN sources : todo[i] = Piece(i, 0, sources[i])
        BY <1>1, <1>2, <1>3 DEF Whole
  <2> HIDE DEF P
  <2>2. todo \in Seq(P)
        BY <1>2, <2>1, FunctionIsSeq
  <2>3. QED BY <1>2, <2>1, <2>2
<1>5. TypeOK
  <2>1. size \in Nat \ {0} /\ MaxRecuts \in Nat
        BY <1>1, SizesAssumption, BoundAssumption
  <2>2. filled \in 0..size - 1 /\ recuts \in 0..MaxRecuts
        BY <1>1, <2>1
  <2> HIDE DEF P
  <2>3. pieces \in Seq(P) /\ tasks \in Seq([rows : Nat \ {0}, pieces : Seq(P)]) /\ Len(tasks) = 0
        BY <1>1, EmptySeq
  <2>4. first \in 0..Len(tasks) /\ written \subseteq 0..Len(tasks) - 1 /\ pc \in {"cutting", "planned"}
        BY <1>1, <2>3
  <2>5. QED BY <1>1, <1>4, <2>2, <2>3, <2>4 DEF TypeOK, P
<1>6. EveryRowOnce
  <2>1. RowsOf(PiecesOf(<<>>)) = <<>> /\ RowsOf(<<>>) = <<>>
    <3>1. [i \in DOMAIN <<>> |-> <<>>[i].pieces] = <<>>
          OBVIOUS
    <3>2. FlattenSeq(<<>>) = <<>>
          BY DEF FlattenSeq
    <3>3. PiecesOf(<<>>) = <<>>
          BY <3>1, <3>2, Zenon DEF PiecesOf
    <3>4. QED BY <3>3, RowsOfNone
  <2> DEFINE z == RowsOf(todo)
  <2>2. z \in Seq(S)
        BY <1>4, RowsOfPieces
  <2> HIDE DEF z, S
  <2>3. <<>> \o <<>> = <<>> /\ <<>> \o z = z
        BY <2>2, ConcatEmptySeq, EmptySeq
  <2>4. RowsOf(PiecesOf(tasks)) \o RowsOf(pieces) \o RowsOf(todo) = RowsOf(Whole(sources))
        BY <1>1, <2>1, <2>3, Zenon DEF z
  <2>5. QED BY <2>4 DEF EveryRowOnce
<1>7. TasksFull /\ Coalesced
  <2>1. DOMAIN tasks = {} /\ first + 1..Len(tasks) = {}
        BY <1>1
  <2>2. QED BY <2>1 DEF TasksFull, Coalesced
<1>8. FilledCounted /\ PlannedAll /\ NoneAdjoin(pieces)
  <2>1. Len(RowsOf(<<>>)) = 0
        BY RowsOfNone
  <2>2. QED BY <1>1, <2>1 DEF FilledCounted, PlannedAll, NoneAdjoin
<1>9. FilesInOrder /\ LastFileDone
  <2>1. \A i \in DOMAIN todo : todo[i].path = i
        BY <1>4 DEF Piece
  <2>2. QED BY <1>1, <2>1 DEF FilesInOrder, LastFileDone
<1>10. QED BY <1>5, <1>6, <1>7, <1>8, <1>9 DEF IInv

\* No step leaves the invariant.
LEMMA StepHolds == IInv /\ [Next]_vars => IInv'
<1> SUFFICES ASSUME IInv, [Next]_vars PROVE IInv'
    OBVIOUS
<1>1. CASE CutPiece
      BY <1>1, CutPieceStep
<1>2. CASE NextRange
      BY <1>2, NextRangeStep
<1>3. CASE CutEnds
      BY <1>3, CutEndsStep
<1>4. ASSUME NEW id \in 0..Len(tasks) - 1, StartTask(id) PROVE IInv'
      BY <1>4, StartTaskStep
<1>5. ASSUME NEW boundary \in 0..Len(tasks), NEW n \in Sizes, Recut(boundary, n) PROVE IInv'
      BY <1>5, RecutStep
<1>6. CASE UNCHANGED vars
  <2>1. UNCHANGED <<sources, size, first, todo, pieces, filled, tasks, pc, written, recuts>>
        BY <1>6 DEF vars
  <2>2. TypeOK'
        BY <2>1 DEF IInv, TypeOK
  <2>3. EveryRowOnce'
        BY <2>1, Zenon DEF IInv, EveryRowOnce, Whole
  <2>4. TasksFull' /\ Coalesced' /\ FilledCounted' /\ PlannedAll' /\ NoneAdjoin(pieces)'
        BY <2>1 DEF IInv, TasksFull, Coalesced, FilledCounted, PlannedAll
  <2>5. recuts' = 0 => FilesInOrder' /\ LastFileDone'
        BY <2>1 DEF IInv, FilesInOrder, LastFileDone
  <2>6. QED BY <2>2, <2>3, <2>4, <2>5 DEF IInv
<1>7. QED BY <1>1, <1>2, <1>3, <1>4, <1>5, <1>6 DEF Next

\* The invariant holds of every plan and of every state on the way to one.
THEOREM Invariance == Spec => []IInv
<1>1. QED BY InitHolds, StepHolds, PTL DEF Spec

\* Whatever the sizes it is cut to and however often, the plan names each row
\* of the corpus once and in order (plan_tasks and repartition_tail).
THEOREM PlanNamesEveryRowOnce == Spec => []EveryRowOnce
<1>1. IInv => EveryRowOnce
      BY DEF IInv
<1>2. QED BY Invariance, <1>1, PTL

\* A task's row count is that of its pieces, and only the last is short.
THEOREM EveryTaskFull == Spec => []TasksFull
<1>1. IInv => TasksFull
      BY DEF IInv
<1>2. QED BY Invariance, <1>1, PTL

\* Repeated partitioning is stable: no task of the last cut names in two
\* pieces what one would.
THEOREM NoPieceSplit == Spec => []Coalesced
<1>1. IInv => Coalesced
      BY DEF IInv
<1>2. QED BY Invariance, <1>1, PTL

\* No later plan changes a task whose directory exists: repartition_plan
\* refuses a boundary with such a task after it.
THEOREM WrittenTasksKept == Spec => WrittenTaskKept
<1> DEFINE Kept == \A id \in written : id < Len(tasks') /\ tasks'[id + 1] = tasks[id + 1]
<1>1. ASSUME IInv, [Next]_vars PROVE [Kept]_vars
  <2>1. /\ tasks \in Seq(TaskSet(Ranges(DOMAIN sources))) /\ Len(tasks) \in Nat
        /\ \A id \in written : id \in Nat /\ id + 1 \in 1..Len(tasks)
        BY <1>1, FilesNumbered DEF IInv, TypeOK
  <2>2. CASE tasks' = tasks
        BY <2>1, <2>2
  <2>3. ASSUME NEW t \in TaskSet(Ranges(DOMAIN sources)), tasks' = Append(tasks, t)
        PROVE  Kept
    <3>1. Len(tasks') = Len(tasks) + 1 /\ \A i \in 1..Len(tasks) : tasks'[i] = tasks[i]
          BY <2>1, <2>3, AppendProperties
    <3>2. QED BY <2>1, <3>1
  <2>4. CASE CutPiece
    <3>1. \/ tasks' = tasks
          \/ /\ tasks' = Append(tasks, [rows |-> filled + Take, pieces |-> WithPiece(pieces, CutRange)])
             /\ [rows |-> filled + Take, pieces |-> WithPiece(pieces, CutRange)]
                   \in TaskSet(Ranges(DOMAIN sources))
      <4> DEFINE ps == WithPiece(pieces, CutRange) m == filled + Take
      <4>1. Fill(ps, m) /\ m \in 1..size /\ ps \in Seq(Ranges(DOMAIN sources))
            BY <1>1, <2>4, CutPieceFacts
      <4>2. m \in Nat \ {0}
            BY <1>1, <4>1, FilesNumbered DEF IInv
      <4> HIDE DEF ps, m
      <4>3. tasks' = tasks \/ tasks' = Append(tasks, [rows |-> m, pieces |-> ps])
            BY <4>1 DEF Fill
      <4>4. [rows |-> m, pieces |-> ps] \in TaskSet(Ranges(DOMAIN sources))
            BY <4>1, <4>2 DEF TaskSet
      <4>5. QED BY <4>3, <4>4 DEF ps, m
    <3>2. QED BY <2>2, <2>3, <3>1
  <2>5. CASE CutEnds
    <3>1. filled > 0 => [rows |-> filled, pieces |-> pieces] \in TaskSet(Ranges(DOMAIN sources))
      <4>1. filled \in 0..size - 1 /\ pieces \in Seq(Ranges(DOMAIN sources)) /\ size \in Nat \ {0}
            BY <1>1, FilesNumbered DEF IInv
      <4>2. QED BY <4>1 DEF TaskSet
    <3>2. \/ tasks' = tasks
          \/ filled > 0 /\ tasks' = Append(tasks, [rows |-> filled, pieces |-> pieces])
          BY <2>5 DEF CutEnds, WithLast
    <3>3. QED BY <2>2, <2>3, <3>1, <3>2
  <2>6. ASSUME NEW boundary \in 0..Len(tasks), NEW n \in Sizes, Recut(boundary, n) PROVE Kept
    <3>1. tasks' = SubSeq(tasks, 1, boundary) /\ \A id \in written : id < boundary
          BY <2>6 DEF Recut, Unwritten
    <3>2. Len(tasks') = boundary /\ \A i \in 1..boundary : tasks'[i] = tasks[i]
          BY <2>1, <3>1, TasksCut
    <3>3. QED BY <2>1, <3>1, <3>2
  <2>7. CASE NextRange \/ (\E id \in 0..Len(tasks) - 1 : StartTask(id))
        BY <2>2, <2>7 DEF NextRange, StartTask
  <2>8. QED BY <1>1, <2>4, <2>5, <2>6, <2>7 DEF Next
<1>2. QED BY Invariance, <1>1, PTL DEF Spec, WrittenTaskKept
=============================================================================
