---------------------------- MODULE ManifestProofs ----------------------------
(***************************************************************************)
(* What urls.parquet holds, for every corpus, mount and cap, and for any   *)
(* number of attempts and releases.                                        *)
(***************************************************************************)
EXTENDS Manifest, FiniteSetTheorems, SequenceTheorems, TLAPS

-----------------------------------------------------------------------------
(* Two sequences of sequences of the same lengths, flattened together. *)

\* A set of naturals has a least element.
LEMMA Least ==
    ASSUME NEW T, T \subseteq Nat, T # {}
    PROVE  \E n \in T : \A m \in T : n <= m
<1> DEFINE U == {1..n : n \in T}
<1>1. U \subseteq FiniteSubsetsOf(Nat) /\ U # {}
  <2>1. ASSUME NEW n \in T PROVE 1..n \in FiniteSubsetsOf(Nat)
        BY FS_Interval DEF FiniteSubsetsOf
  <2>2. QED BY <2>1
<1>2. IsWellFoundedOn(StrictSubsetOrdering(Nat), FiniteSubsetsOf(Nat))
      BY FS_StrictSubsetOrderingWellFounded
<1>3. PICK s \in U : \A r \in U : ~ (<<r, s>> \in StrictSubsetOrdering(Nat))
  <2> HIDE DEF U
  <2>1. QED BY <1>1, <1>2, WFMin
<1>4. PICK n \in T : s = 1..n
      OBVIOUS
<1>5. ASSUME NEW m \in T, m < n PROVE FALSE
  <2>1. 1..m \in U
        OBVIOUS
  <2>2. n \in 1..n /\ n \notin 1..m /\ 1..m \subseteq 1..n /\ 1..n \subseteq Nat
        BY <1>5
  <2>3. <<1..m, 1..n>> \in StrictSubsetOrdering(Nat)
        BY <2>2 DEF StrictSubsetOrdering
  <2>4. QED BY <1>3, <1>4, <2>1, <2>3
<1>6. QED BY <1>5

\* g[i] is what the first i of the sequences ss make, up to n.
Joins(ss, n, g) == g = [i \in 1..n |-> IF i = 1 THEN ss[i] ELSE g[i - 1] \o ss[i]]

\* There is always such a g.
LEMMA JoinsExist ==
    ASSUME NEW ss, NEW n \in Nat
    PROVE  \E g : Joins(ss, n, g)
<1> DEFINE F == {k \in Nat : ~ \E g : Joins(ss, k, g)}
<1>1. CASE F = {}
      BY <1>1
<1>2. CASE F # {}
  <2>1. PICK k \in F : \A m \in F : k <= m
    <3>1. F \subseteq Nat
          OBVIOUS
    <3> HIDE DEF F
    <3>2. QED BY <1>2, <3>1, Least
  <2>2. k \in Nat /\ ~ \E g : Joins(ss, k, g)
        OBVIOUS
  <2>3. CASE k = 0
    <3> DEFINE e == [i \in 1..0 |-> ss[i]]
    <3>1. Joins(ss, 0, e)
          BY DEF Joins
    <3>2. QED BY <2>2, <2>3, <3>1
  <2>4. CASE k # 0
    <3>1. k - 1 \in Nat /\ k - 1 \notin F
          BY <2>1, <2>2, <2>4
    <3>2. PICK g : Joins(ss, k - 1, g)
          BY <3>1
    <3> DEFINE h == [i \in 1..k |-> IF i = k THEN IF k = 1 THEN ss[k] ELSE g[k - 1] \o ss[k]
                                    ELSE g[i]]
    <3>3. ASSUME NEW i \in 1..k
          PROVE  h[i] = IF i = 1 THEN ss[i] ELSE h[i - 1] \o ss[i]
      <4>1. CASE i = k
            BY <2>2, <2>4, <4>1
      <4>2. CASE i # k
        <5>1. i \in 1..k - 1 /\ (i # 1 => i - 1 \in 1..k - 1)
              BY <2>2, <4>2
        <5>2. g[i] = IF i = 1 THEN ss[i] ELSE g[i - 1] \o ss[i]
              BY <3>2, <5>1 DEF Joins
        <5>3. h[i] = g[i] /\ (i # 1 => h[i - 1] = g[i - 1])
              BY <4>2, <5>1
        <5> HIDE DEF h
        <5>4. QED BY <5>2, <5>3
      <4>3. QED BY <4>1, <4>2
    <3>4. h = [i \in 1..k |-> h[i]]
          OBVIOUS
    <3>5. Joins(ss, k, h)
      <4> HIDE DEF h
      <4>1. QED BY <3>3, <3>4 DEF Joins
    <3>6. QED BY <2>2, <3>5
  <2>5. QED BY <2>3, <2>4
<1>3. QED BY <1>1, <1>2

\* FlattenSeq is the last of them.
LEMMA FlattenIsJoin ==
    ASSUME NEW ss, Len(ss) \in Nat \ {0}
    PROVE  \E g : Joins(ss, Len(ss), g) /\ FlattenSeq(ss) = g[Len(ss)]
<1>1. FlattenSeq(ss) =
         (CHOOSE g : g = [i \in 1..Len(ss) |-> IF i = 1 THEN ss[i] ELSE g[i - 1] \o ss[i]])[Len(ss)]
      BY DEF FlattenSeq
<1>2. FlattenSeq(ss) = (CHOOSE g : Joins(ss, Len(ss), g))[Len(ss)]
      BY <1>1 DEF Joins
<1>3. QED BY <1>2, JoinsExist


\* A function on an interval from 1 is a sequence.
LEMMA FunctionIsSeq ==
    ASSUME NEW S, NEW n \in Nat, NEW g \in [1..n -> S]
    PROVE  g \in Seq(S) /\ Len(g) = n
OBVIOUS

\* What x and y have at one place R and T have at one place.
SamePlaces(R, T, x, y) ==
    /\ Len(x) = Len(y)
    /\ \A i \in 1..Len(x) :
          \E k \in 1..Len(R) : \E j \in 1..Len(R[k]) : x[i] = R[k][j] /\ y[i] = T[k][j]

\* It stays so when the next of R and of T are joined to them.
LEMMA SamePlacesStep ==
    ASSUME NEW S, NEW U, NEW R, NEW T, NEW x, NEW y, NEW k,
           x \in Seq(S), y \in Seq(U), k \in 1..Len(R), R[k] \in Seq(S), T[k] \in Seq(U),
           Len(R[k]) = Len(T[k]), SamePlaces(R, T, x, y)
    PROVE  SamePlaces(R, T, x \o R[k], y \o T[k])
<1> DEFINE u == R[k] v == T[k]
<1>1. /\ Len(x \o u) = Len(x) + Len(u) /\ Len(y \o v) = Len(y) + Len(v)
      /\ Len(x) = Len(y) /\ Len(u) = Len(v) /\ Len(x) \in Nat /\ Len(u) \in Nat
      BY ConcatProperties, LenProperties DEF SamePlaces
<1>2. ASSUME NEW i \in 1..Len(x) + Len(u)
      PROVE  \E l \in 1..Len(R) : \E j \in 1..Len(R[l]) :
                (x \o u)[i] = R[l][j] /\ (y \o v)[i] = T[l][j]
  <2>1. /\ (x \o u)[i] = IF i <= Len(x) THEN x[i] ELSE u[i - Len(x)]
        /\ (y \o v)[i] = IF i <= Len(x) THEN y[i] ELSE v[i - Len(x)]
        BY <1>1, ConcatProperties
  <2>2. CASE i <= Len(x)
    <3>1. i \in 1..Len(x)
          BY <1>1, <2>2
    <3>2. PICK l \in 1..Len(R) : \E j \in 1..Len(R[l]) : x[i] = R[l][j] /\ y[i] = T[l][j]
          BY <3>1 DEF SamePlaces
    <3> HIDE DEF u, v
    <3>3. QED BY <2>1, <2>2, <3>2
  <2>3. CASE ~ (i <= Len(x))
    <3>1. i - Len(x) \in 1..Len(u)
          BY <1>1, <2>3
    <3>2. QED BY <2>1, <2>3, <3>1
  <2>4. QED BY <2>2, <2>3
<1>3. QED BY <1>1, <1>2 DEF SamePlaces

\* Sequences of sequences, as many and each as long as the other's.
Parallel(R, T, S, U) ==
    /\ R \in Seq(Seq(S)) /\ T \in Seq(Seq(U)) /\ Len(R) = Len(T)
    /\ \A k \in 1..Len(R) : Len(R[k]) = Len(T[k])

\* What the flattened ones have at one place they have at one place, and
\* nothing of any of them is lost.
LEMMA FlattenTogether ==
    ASSUME NEW S, NEW U, NEW R, NEW T, Parallel(R, T, S, U)
    PROVE  /\ FlattenSeq(R) \in Seq(S) /\ FlattenSeq(T) \in Seq(U)
           /\ SamePlaces(R, T, FlattenSeq(R), FlattenSeq(T))
           /\ \A k \in 1..Len(R) : Len(R[k]) <= Len(FlattenSeq(R))
<1>1. /\ R \in Seq(Seq(S)) /\ T \in Seq(Seq(U)) /\ Len(R) = Len(T) /\ Len(R) \in Nat
      /\ \A k \in 1..Len(R) : R[k] \in Seq(S) /\ T[k] \in Seq(U) /\ Len(R[k]) = Len(T[k])
      BY LenProperties, ElementOfSeq DEF Parallel
<1>2. CASE Len(R) = 0
  <2>1. R = <<>> /\ T = <<>>
        BY <1>1, <1>2, EmptySeq
  <2>2. FlattenSeq(R) = <<>> /\ FlattenSeq(T) = <<>>
        BY <2>1 DEF FlattenSeq
  <2>3. Len(<<>>) = 0 /\ <<>> \in Seq(S) /\ <<>> \in Seq(U)
        BY EmptySeq
  <2>4. SamePlaces(R, T, <<>>, <<>>)
        BY <2>3 DEF SamePlaces
  <2>5. QED BY <1>2, <2>2, <2>3, <2>4
<1>3. CASE Len(R) # 0
  <2> DEFINE n == Len(R)
  <2>1. PICK g : Joins(R, n, g) /\ FlattenSeq(R) = g[n]
        BY <1>1, <1>3, FlattenIsJoin
  <2>2. PICK h : Joins(T, n, h) /\ FlattenSeq(T) = h[n]
        BY <1>1, <1>3, FlattenIsJoin
  <2> DEFINE Done(k) == /\ g[k] \in Seq(S) /\ h[k] \in Seq(U) /\ SamePlaces(R, T, g[k], h[k])
                        /\ \A m \in 1..k : Len(R[m]) <= Len(g[k])
             F == {k \in 1..n : ~Done(k)}
  <2>3. CASE F = {}
    <3>1. n \in 1..n
          BY <1>1, <1>3
    <3>2. Done(n)
          BY <2>3, <3>1
    <3>3. QED BY <2>1, <2>2, <3>2
  <2>4. CASE F # {}
    <3>1. PICK k \in Nat : k \in F /\ \A m \in F : k <= m
      <4>1. F \subseteq Nat
            OBVIOUS
      <4> HIDE DEF F
      <4>2. QED BY <2>4, <4>1, Least
    <3>2. k \in 1..n /\ ~Done(k)
          BY <3>1
    <3>3. /\ R[k] \in Seq(S) /\ T[k] \in Seq(U) /\ Len(R[k]) = Len(T[k])
          /\ Len(R[k]) \in Nat
          BY <1>1, <3>2, LenProperties
    <3>4. /\ g[k] = IF k = 1 THEN R[k] ELSE g[k - 1] \o R[k]
          /\ h[k] = IF k = 1 THEN T[k] ELSE h[k - 1] \o T[k]
          BY <2>1, <2>2, <3>2 DEF Joins
    <3>5. CASE k = 1
      <4>1. g[k] = R[k] /\ h[k] = T[k]
            BY <3>4, <3>5
      <4>2. SamePlaces(R, T, R[k], T[k])
            BY <3>2, <3>3 DEF SamePlaces
      <4>3. QED BY <3>2, <3>3, <3>5, <4>1, <4>2
    <3>6. CASE k # 1
      <4>1. k - 1 \in 1..n /\ k - 1 \notin F
            BY <3>1, <3>2, <3>6
      <4>2. Done(k - 1)
            BY <4>1
      <4>3. g[k] = g[k - 1] \o R[k] /\ h[k] = h[k - 1] \o T[k]
            BY <3>4, <3>6
      <4>4. g[k] \in Seq(S) /\ h[k] \in Seq(U)
            BY <3>3, <4>2, <4>3, ConcatProperties
      <4>5. SamePlaces(R, T, g[k], h[k])
            BY <3>2, <3>3, <4>2, <4>3, SamePlacesStep
      <4>6. Len(g[k - 1]) <= Len(g[k]) /\ Len(R[k]) <= Len(g[k])
        <5>1. g[k - 1] \in Seq(S)
              BY <4>2
        <5>2. Len(g[k - 1] \o R[k]) = Len(g[k - 1]) + Len(R[k])
              BY <3>3, <5>1, ConcatProperties
        <5>3. Len(g[k - 1]) \in Nat
              BY <5>1, LenProperties
        <5> DEFINE a == Len(g[k - 1]) c == Len(R[k]) d == Len(g[k])
        <5>4. d = a + c /\ a \in Nat /\ c \in Nat
              BY <3>3, <4>3, <5>2, <5>3
        <5> HIDE DEF a, c, d
        <5>5. a <= d /\ c <= d
              BY <5>4
        <5>6. QED BY <5>5 DEF a, c, d
      <4>7. ASSUME NEW m \in 1..k PROVE Len(R[m]) <= Len(g[k])
        <5>1. CASE m = k
              BY <4>6, <5>1
        <5>2. CASE m # k
          <6>1. m \in 1..k - 1 /\ m \in 1..n
                BY <3>2, <5>2
          <6>2. Len(R[m]) <= Len(g[k - 1])
                BY <4>2, <6>1
          <6>3. /\ Len(R[m]) \in Nat /\ Len(g[k - 1]) \in Nat /\ Len(g[k]) \in Nat
                BY <1>1, <4>2, <4>4, <6>1, LenProperties
          <6> DEFINE a == Len(R[m]) c == Len(g[k - 1]) d == Len(g[k])
          <6>4. a <= c /\ c <= d /\ a \in Nat /\ c \in Nat /\ d \in Nat
                BY <4>6, <6>2, <6>3
          <6> HIDE DEF a, c, d
          <6>5. a <= d
                BY <6>4
          <6>6. QED BY <6>5 DEF a, c, d
        <5>3. QED BY <5>1, <5>2
      <4>8. QED BY <3>2, <4>4, <4>5, <4>7
    <3>7. QED BY <3>5, <3>6
  <2>5. QED BY <2>3, <2>4
<1>4. QED BY <1>2, <1>3

-----------------------------------------------------------------------------
(* The plan. *)

\* A task's pieces: some of the rows of a file of the tree, as it was mounted.
Pieces(t, abs) ==
    UNION {{[path |-> (IF abs THEN PlanMount ELSE <<>>) \o f.path, start |-> c[1], end |-> c[2]] :
              c \in {d \in Nat \X Nat : d[1] < d[2] /\ d[2] <= f.rows}} :
           f \in ToSet(t.files)}

\* A set of naturals below a bound has a least element and a greatest one.
LEMMA LeastAndGreatest ==
    ASSUME NEW N \in Nat, NEW T, T \subseteq 0..N, T # {}
    PROVE  Min(T) \in T /\ Max(T) \in T /\ Min(T) \in Nat /\ Max(T) \in Nat /\ Min(T) <= Max(T)
<1>1. T \subseteq Nat
      OBVIOUS
<1>2. \E x \in T : \A y \in T : x <= y
      BY <1>1, Least
<1>3. Min(T) \in T /\ \A y \in T : Min(T) <= y
      BY <1>2 DEF Min
<1> DEFINE U == {N - y : y \in T}
<1>4. \E x \in T : \A y \in T : x >= y
  <2>1. U \subseteq Nat /\ U # {}
    <3>1. \A y \in T : N - y \in Nat
          OBVIOUS
    <3>2. QED BY <3>1
  <2>2. PICK u \in Nat : u \in U /\ \A v \in U : u <= v
    <3> HIDE DEF U
    <3>1. QED BY <2>1, Least
  <2>3. PICK x \in T : u = N - x
        BY <2>2
  <2>4. ASSUME NEW y \in T PROVE x >= y
    <3>1. N - y \in U
          OBVIOUS
    <3>2. N - x <= N - y
          BY <2>2, <2>3, <3>1
    <3>3. x \in Nat /\ y \in Nat
          BY <1>1
    <3> HIDE DEF U
    <3>4. QED BY <3>2, <3>3
  <2>5. QED BY <2>4
<1>5. Max(T) \in T /\ \A y \in T : Max(T) >= y
      BY <1>4 DEF Max
<1>6. QED BY <1>1, <1>3, <1>5

\* The files of a tree.
LEMMA FilesOf ==
    ASSUME NEW t \in Trees
    PROVE  /\ Len(t.files) \in Nat /\ DOMAIN t.files = 1..Len(t.files)
           /\ \A k \in 1..Len(t.files) :
                 t.files[k] \in ToSet(t.files) /\ t.files[k].rows \in Nat
<1>1. t.files \in Seq(ToSet(t.files))
      BY TreesAssumption
<1> HIDE DEF ToSet
<1>2. /\ Len(t.files) \in Nat /\ DOMAIN t.files = 1..Len(t.files)
      /\ \A k \in 1..Len(t.files) : t.files[k] \in ToSet(t.files)
      BY <1>1, LenProperties, ElementOfSeq
<1>3. QED BY <1>2, TreesAssumption

\* The rows of a corpus are rows of its files.
LEMMA RowsOfFiles ==
    ASSUME NEW t \in Trees
    PROVE  /\ TotalRows(t) \in Nat
           /\ \A i \in 1..TotalRows(t) :
                 \E k \in 1..Len(t.files) : \E j \in 0..t.files[k].rows - 1 :
                    CorpusRows(t)[i] = <<k, j>>
<1> DEFINE n == Len(t.files)
           Of(k) == [i \in 1..t.files[k].rows |-> <<k, i - 1>>]
           R == [k \in DOMAIN t.files |-> Of(k)]
           S == (1..n) \X Nat
<1>1. n \in Nat /\ DOMAIN t.files = 1..n /\ \A k \in 1..n : t.files[k].rows \in Nat
      BY FilesOf
<1>2. ASSUME NEW k \in 1..n PROVE Of(k) \in Seq(S) /\ Len(Of(k)) = t.files[k].rows
  <2>1. t.files[k].rows \in Nat
        BY <1>1
  <2>2. \A i \in 1..t.files[k].rows : <<k, i - 1>> \in S
        BY <2>1
  <2>3. Of(k) \in [1..t.files[k].rows -> S]
        BY <2>2
  <2> HIDE DEF Of, S
  <2>4. QED BY <2>1, <2>3, FunctionIsSeq
<1>3. Parallel(R, R, S, S)
  <2>1. R \in [1..n -> Seq(S)]
    <3> HIDE DEF Of, S
    <3>1. QED BY <1>1, <1>2
  <2> HIDE DEF R, S
  <2>2. R \in Seq(Seq(S)) /\ Len(R) = n
        BY <1>1, <2>1, FunctionIsSeq
  <2>3. QED BY <2>2 DEF Parallel
<1>4. Len(R) = n
  <2>1. DOMAIN R = 1..n
        BY <1>1
  <2>2. R \in Seq(Seq(S))
        BY <1>3 DEF Parallel
  <2> HIDE DEF R, S
  <2>3. DOMAIN R = 1..Len(R) /\ Len(R) \in Nat
        BY <2>2, LenProperties
  <2>4. QED BY <1>1, <2>1, <2>3
<1>5. FlattenSeq(R) \in Seq(S) /\ SamePlaces(R, R, FlattenSeq(R), FlattenSeq(R))
  <2> HIDE DEF R, S
  <2>1. QED BY <1>3, FlattenTogether
<1>6. CorpusRows(t) = FlattenSeq(R)
      BY DEF CorpusRows
<1>7. TotalRows(t) \in Nat
  <2> HIDE DEF R, S
  <2>1. QED BY <1>5, <1>6, LenProperties DEF TotalRows
<1>8. ASSUME NEW i \in 1..TotalRows(t)
      PROVE  \E k \in 1..n : \E j \in 0..t.files[k].rows - 1 : CorpusRows(t)[i] = <<k, j>>
  <2>1. PICK k \in 1..Len(R) : \E j \in 1..Len(R[k]) : FlattenSeq(R)[i] = R[k][j]
    <3> HIDE DEF R
    <3>1. QED BY <1>5, <1>6 DEF SamePlaces, TotalRows
  <2>2. PICK j \in 1..Len(R[k]) : FlattenSeq(R)[i] = R[k][j]
        BY <2>1
  <2>3. k \in 1..n /\ R[k] = Of(k)
        BY <1>1, <1>4
  <2>4. j \in 1..t.files[k].rows /\ t.files[k].rows \in Nat
    <3> HIDE DEF R, Of
    <3>1. QED BY <1>1, <1>2, <2>3
  <2>5. R[k][j] = <<k, j - 1>> /\ j - 1 \in 0..t.files[k].rows - 1
        BY <2>3, <2>4
  <2> HIDE DEF R, Of
  <2>6. QED BY <1>6, <2>2, <2>3, <2>5
<1>9. QED BY <1>7, <1>8

\* A task of the plan has pieces, none of them empty.
LEMMA PlanHasPieces ==
    ASSUME NEW t \in Trees, NEW abs, NEW a \in Nat, NEW b \in Nat, a < b, a < TotalRows(t)
    PROVE  PlannedPieces(t, a, b, abs) \in Seq(Pieces(t, abs)) /\ PlannedPieces(t, a, b, abs) # <<>>
<1> DEFINE n == Len(t.files)
           top == IF b < TotalRows(t) THEN b ELSE TotalRows(t)
           rows == {CorpusRows(t)[i] : i \in a + 1..top}
           Mine(k) == {r[2] : r \in {q \in rows : q[1] = k}}
           Piece(k) == [path |-> (IF abs THEN PlanMount ELSE <<>>) \o t.files[k].path,
                        start |-> Min(Mine(k)), end |-> Max(Mine(k)) + 1]
           Of(k) == IF Mine(k) = {} THEN <<>> ELSE <<Piece(k)>>
           R == [k \in DOMAIN t.files |-> Of(k)]
           S == Pieces(t, abs)
<1>1. /\ n \in Nat /\ DOMAIN t.files = 1..n /\ TotalRows(t) \in Nat
      /\ \A k \in 1..n : t.files[k] \in ToSet(t.files) /\ t.files[k].rows \in Nat
      BY FilesOf, RowsOfFiles
<1>2. ASSUME NEW r \in rows
      PROVE  \E k \in 1..n : \E j \in 0..t.files[k].rows - 1 : r = <<k, j>>
  <2>1. PICK i \in a + 1..top : r = CorpusRows(t)[i]
        OBVIOUS
  <2>2. i \in 1..TotalRows(t)
        BY <1>1
  <2>3. QED BY <2>1, <2>2, RowsOfFiles
<1>3. ASSUME NEW k \in 1..n PROVE Mine(k) \subseteq 0..t.files[k].rows - 1
  <2> SUFFICES ASSUME NEW r \in rows, r[1] = k PROVE r[2] \in 0..t.files[k].rows - 1
      OBVIOUS
  <2>1. PICK l \in 1..n : \E j \in 0..t.files[l].rows - 1 : r = <<l, j>>
    <3> HIDE DEF rows
    <3>1. QED BY <1>2
  <2>2. PICK j \in 0..t.files[l].rows - 1 : r = <<l, j>>
        BY <2>1
  <2> HIDE DEF rows
  <2>3. QED BY <2>2
<1>4. ASSUME NEW k \in 1..n PROVE Of(k) \in Seq(S)
  <2>1. CASE Mine(k) = {}
        BY <2>1, EmptySeq
  <2>2. CASE Mine(k) # {}
    <3>1. /\ Min(Mine(k)) \in Nat /\ Max(Mine(k)) \in Nat /\ Min(Mine(k)) <= Max(Mine(k))
          /\ Max(Mine(k)) + 1 <= t.files[k].rows
      <4>1. t.files[k].rows \in Nat /\ Mine(k) \subseteq 0..t.files[k].rows - 1
            BY <1>1, <1>3
      <4> HIDE DEF Mine
      <4>2. Mine(k) \subseteq 0..t.files[k].rows
            BY <4>1
      <4>3. /\ Max(Mine(k)) \in Mine(k) /\ Max(Mine(k)) \in Nat
            /\ Min(Mine(k)) \in Nat /\ Min(Mine(k)) <= Max(Mine(k))
            BY <2>2, <4>1, <4>2, LeastAndGreatest
      <4>4. Max(Mine(k)) \in 0..t.files[k].rows - 1
            BY <4>1, <4>3
      <4>5. QED BY <4>1, <4>3, <4>4
    <3> DEFINE c == <<Min(Mine(k)), Max(Mine(k)) + 1>>
    <3>2. /\ c \in {d \in Nat \X Nat : d[1] < d[2] /\ d[2] <= t.files[k].rows}
          /\ c[1] = Min(Mine(k)) /\ c[2] = Max(Mine(k)) + 1
      <4> HIDE DEF Mine
      <4>1. QED BY <3>1
    <3>3. t.files[k] \in ToSet(t.files)
          BY <1>1
    <3>4. Piece(k) \in S
      <4> HIDE DEF Mine, c
      <4>1. Piece(k) = [path |-> (IF abs THEN PlanMount ELSE <<>>) \o t.files[k].path,
                        start |-> c[1], end |-> c[2]]
            BY <3>2
      <4> DEFINE C(f) == {d \in Nat \X Nat : d[1] < d[2] /\ d[2] <= f.rows}
                 Made(f, d) == [path |-> (IF abs THEN PlanMount ELSE <<>>) \o f.path,
                                start |-> d[1], end |-> d[2]]
      <4>3. S = UNION {{Made(f, d) : d \in C(f)} : f \in ToSet(t.files)}
            BY DEF Pieces
      <4>4. c \in C(t.files[k]) /\ Piece(k) = Made(t.files[k], c)
            BY <3>2, <4>1
      <4> HIDE DEF Piece, C, Made, S
      <4>5. QED BY <3>3, <4>3, <4>4
    <3>5. Of(k) = <<Piece(k)>>
          BY <2>2
    <3> HIDE DEF Piece, Mine, Of, S
    <3>6. QED BY <3>4, <3>5
  <2>3. QED BY <2>1, <2>2
<1>5. Parallel(R, R, S, S) /\ Len(R) = n
  <2>1. R \in [1..n -> Seq(S)]
    <3> HIDE DEF Of, S
    <3>1. QED BY <1>1, <1>4
  <2> HIDE DEF R, S
  <2>2. R \in Seq(Seq(S)) /\ Len(R) = n
        BY <1>1, <2>1, FunctionIsSeq
  <2>3. QED BY <2>2 DEF Parallel
<1>6. FlattenSeq(R) \in Seq(S) /\ \A k \in 1..n : Len(R[k]) <= Len(FlattenSeq(R))
  <2> HIDE DEF R, S
  <2>1. QED BY <1>5, FlattenTogether
<1>7. PICK k \in 1..n : Mine(k) # {}
  <2>1. a + 1 \in a + 1..top
        BY <1>1
  <2>2. CorpusRows(t)[a + 1] \in rows
        BY <2>1
  <2> HIDE DEF rows
  <2>3. PICK k \in 1..n : \E j \in 0..t.files[k].rows - 1 : CorpusRows(t)[a + 1] = <<k, j>>
        BY <1>2, <2>2
  <2>4. PICK j \in 0..t.files[k].rows - 1 : CorpusRows(t)[a + 1] = <<k, j>>
        BY <2>3
  <2>5. <<k, j>> \in {q \in rows : q[1] = k} /\ <<k, j>>[2] = j
        BY <2>2, <2>4
  <2>6. j \in Mine(k)
        BY <2>5
  <2>7. QED BY <2>6
<1>8. Len(R[k]) = 1
  <2>1. R[k] = <<Piece(k)>>
        BY <1>1, <1>7
  <2> HIDE DEF Piece, R
  <2>2. QED BY <2>1
<1>9. FlattenSeq(R) # <<>>
  <2> HIDE DEF R, S
  <2>1. QED BY <1>6, <1>8, EmptySeq
<1>10. PlannedPieces(t, a, b, abs) = FlattenSeq(R)
      BY DEF PlannedPieces
<1> HIDE DEF R, S
<1>11. QED BY <1>6, <1>9, <1>10 DEF S

-----------------------------------------------------------------------------
(* The file that a recorded path means. *)

\* The suffixes of a mount and a path behind it: shorter than the path, the
\* path, or longer and beginning with a component of the mount.
LEMMA MountedSuffixes ==
    ASSUME NEW S, NEW m \in Seq(S), NEW q \in Seq(S), q # <<>>
    PROVE  /\ SubSeq(m \o q, Len(m) + 1, Len(m \o q)) = q
           /\ q \in Suffixes(m \o q)
           /\ \A s \in Suffixes(m \o q) :
                 s = q \/ Len(s) < Len(q) \/ (s # <<>> /\ Head(s) \in ToSet(m))
<1> DEFINE r == m \o q
<1>1. /\ r \in Seq(S) /\ Len(r) = Len(m) + Len(q) /\ Len(m) \in Nat /\ Len(q) \in Nat \ {0}
      /\ \A i \in 1..Len(r) : r[i] = IF i <= Len(m) THEN m[i] ELSE q[i - Len(m)]
      BY ConcatProperties, LenProperties, EmptySeq
<1> HIDE DEF r
<1>2. ASSUME NEW l \in 1..Len(r)
      PROVE  /\ SubSeq(r, l, Len(r)) \in Seq(S) /\ Len(SubSeq(r, l, Len(r))) = Len(r) - l + 1
             /\ \A i \in 1..Len(r) - l + 1 : SubSeq(r, l, Len(r))[i] = r[l + i - 1]
      BY <1>1, SubSeqProperties
<1>3. SubSeq(r, Len(m) + 1, Len(r)) = q
  <2> DEFINE s == SubSeq(r, Len(m) + 1, Len(r))
  <2>1. Len(m) + 1 \in 1..Len(r)
        BY <1>1
  <2>2. s \in Seq(S) /\ Len(s) = Len(q)
        BY <1>1, <1>2, <2>1
  <2>3. ASSUME NEW i \in 1..Len(q) PROVE s[i] = q[i]
    <3>1. i \in 1..Len(r) - (Len(m) + 1) + 1
          BY <1>1
    <3>2. s[i] = r[(Len(m) + 1) + i - 1]
          BY <1>2, <2>1, <3>1
    <3>3. /\ (Len(m) + 1) + i - 1 = Len(m) + i /\ Len(m) + i \in 1..Len(r)
          /\ ~ (Len(m) + i <= Len(m)) /\ (Len(m) + i) - Len(m) = i
          BY <1>1
    <3>4. QED BY <1>1, <3>2, <3>3
  <2> HIDE DEF s
  <2>4. s = q
        BY <2>2, <2>3, SeqEqual
  <2>5. QED BY <2>4 DEF s
<1>4. q \in Suffixes(r)
  <2>1. Len(m) + 1 \in 1..Len(r)
        BY <1>1
  <2>2. QED BY <1>3, <2>1 DEF Suffixes
<1>5. ASSUME NEW s \in Suffixes(r)
      PROVE  s = q \/ Len(s) < Len(q) \/ (s # <<>> /\ Head(s) \in ToSet(m))
  <2>1. CASE s = <<>>
        BY <1>1, <2>1
  <2>2. CASE s # <<>>
    <3>1. PICK l \in 1..Len(r) : s = SubSeq(r, l, Len(r))
          BY <2>2 DEF Suffixes
    <3>2. CASE l <= Len(m)
      <4>1. 1 \in 1..Len(r) - l + 1 /\ l + 1 - 1 = l
            BY <1>1
      <4>2. s[1] = r[l] /\ Head(s) = s[1]
            BY <1>2, <2>2, <3>1, <4>1, HeadTailProperties
      <4>3. r[l] = m[l] /\ l \in 1..Len(m)
            BY <1>1, <3>2
      <4>4. m[l] \in ToSet(m)
            BY <4>3, LenProperties DEF ToSet
      <4>5. QED BY <2>2, <4>2, <4>3, <4>4
    <3>3. CASE l = Len(m) + 1
          BY <1>3, <3>1, <3>3
    <3>4. CASE l > Len(m) + 1
          BY <1>1, <1>2, <3>1, <3>4
    <3>5. QED BY <1>1, <3>2, <3>3, <3>4
  <2>3. QED BY <2>1, <2>2
<1>6. QED BY <1>3, <1>4, <1>5 DEF r

\* A suffix of a sequence is a sequence.
LEMMA SuffixIsSeq ==
    ASSUME NEW S, NEW r \in Seq(S), NEW s \in Suffixes(r)
    PROVE  Len(s) \in Nat
<1>1. CASE s = <<>>
      BY <1>1
<1>2. CASE s # <<>>
  <2>1. PICK l \in 1..Len(r) : s = SubSeq(r, l, Len(r))
        BY <1>2 DEF Suffixes
  <2>2. s \in Seq(S)
        BY <2>1, SubSeqProperties, LenProperties
  <2>3. QED BY <2>2, LenProperties
<1>3. QED BY <1>1, <1>2

\* A piece's path is resolved to the planned file: through releases where it is
\* relative, if at all, and before them where it is absolute.
LEMMA ResolvedAsMeant ==
    ASSUME planned \in Trees, absolute \in BOOLEAN, absolute => tree = planned,
           NEW p \in Pieces(planned, absolute), absolute \/ resolve_source(p.path) # None
    PROVE  Exists(resolve_source(p.path)) /\ resolve_source(p.path) = MeantPath(p)
<1>1. CASE ~absolute
      BY <1>1 DEF resolve_source, MeantPath
<1>2. CASE absolute
  <2>1. PICK f \in ToSet(planned.files) : p.path = PlanMount \o f.path
        BY <1>2 DEF Pieces
  <2> DEFINE q == f.path S == ToSet(PlanMount) \cup ToSet(q) r == PlanMount \o q
  <2>2. /\ PlanMount \in Seq(S) /\ q \in Seq(S) /\ q # <<>>
    <3>1. q \in Seq(ToSet(q)) /\ q # <<>> /\ PlanMount \in Seq(ToSet(PlanMount))
          BY TreesAssumption
    <3>2. QED BY <3>1, SeqMonotonic
  <2>3. /\ SubSeq(r, Len(PlanMount) + 1, Len(r)) = q /\ q \in Suffixes(r)
        /\ \A s \in Suffixes(r) :
              s = q \/ Len(s) < Len(q) \/ (s # <<>> /\ Head(s) \in ToSet(PlanMount))
    <3> HIDE DEF q, S
    <3>1. QED BY <2>2, MountedSuffixes
  <2>4. Exists(q)
        BY <1>2 DEF Exists
  <2>5. ASSUME NEW s, Exists(s) PROVE Head(s) \notin ToSet(PlanMount)
    <3>1. PICK g \in ToSet(planned.files) : g.path = s
          BY <1>2, <2>5 DEF Exists
    <3>2. QED BY <3>1, MountAssumption
  <2> DEFINE found == {s \in Suffixes(r) : Exists(s)}
             Longest(s) == \A t \in found : Len(t) <= Len(s)
  <2>6. q \in found
        BY <2>3, <2>4
  <2>7. ASSUME NEW s \in found PROVE s = q \/ Len(s) < Len(q)
        BY <2>3, <2>5
  <2>8. Len(q) \in Nat
        BY <2>2, LenProperties
  <2>9. ASSUME NEW s \in found, Longest(s) PROVE s = q
    <3>1. Len(q) <= Len(s)
          BY <2>6, <2>9
    <3>2. ~ (Len(s) < Len(q))
      <4> DEFINE a == Len(q) b == Len(s)
      <4>1. a <= b /\ a \in Nat
            BY <2>8, <3>1
      <4>2. b \in Nat
        <5>1. s \in Suffixes(r)
              OBVIOUS
        <5>2. r \in Seq(S)
              BY <2>2, ConcatProperties
        <5> HIDE DEF r, S
        <5>3. QED BY <5>1, <5>2, SuffixIsSeq
      <4> HIDE DEF a, b
      <4>3. ~ (b < a)
            BY <4>1, <4>2
      <4>4. QED BY <4>3 DEF a, b
    <3> HIDE DEF found
    <3>3. QED BY <2>7, <3>2
  <2>10. Longest(q)
    <3>1. ASSUME NEW s \in found PROVE Len(s) <= Len(q)
      <4>1. s = q \/ Len(s) < Len(q)
            BY <2>7
      <4>2. QED BY <2>8, <4>1
    <3>2. QED BY <3>1
  <2>11. (CHOOSE s \in found : Longest(s)) = q
    <3> HIDE DEF found, Longest, q
    <3>1. QED BY <2>6, <2>9, <2>10
  <2>12. resolve_source(r) = q
    <3>1. found # {}
          BY <2>6
    <3>2. SubSeq(r, Len(PlanMount) + 1, Len(r)) = q
          BY <2>3
    <3>3. resolve_source(r) =
            IF mount = PlanMount /\ Exists(SubSeq(r, Len(PlanMount) + 1, Len(r)))
            THEN SubSeq(r, Len(PlanMount) + 1, Len(r))
            ELSE IF found = {} THEN None ELSE CHOOSE s \in found : Longest(s)
          BY <1>2, Zenon DEF resolve_source
    <3> HIDE DEF found, Longest, q, r
    <3>4. QED BY <2>11, <3>1, <3>2, <3>3
  <2>13. MeantPath(p) = q
    <3> HIDE DEF q
    <3>1. QED BY <1>2, <2>1, <2>3, Zenon DEF MeantPath, q
  <2>14. p.path = r
        BY <2>1
  <2> HIDE DEF q, r
  <2>15. QED BY <2>4, <2>12, <2>13, <2>14
<1>3. QED BY <1>1, <1>2

-----------------------------------------------------------------------------
(* The invariant. *)

IsSeq(x) == \E S : x \in Seq(S)

\* A manifest, or some of one: rows of one set of fields.
Readable(x) ==
    /\ IsSeq(x) /\ x # Torn
    /\ \A i, j \in DOMAIN x : DOMAIN x[i].fields = DOMAIN x[j].fields

\* Its rows are those of the plan, unless an older plan outlived a release.
AsPlanned(x) ==
    (~absolute \/ releases = 0) =>
       \A i \in DOMAIN x : [path |-> x[i].path, index |-> x[i].index] = MeantRows[i]

\* The lengths a published manifest may have.
Published == {PlannedRows} \cup {n \in Caps : 0 < n /\ n < PlannedRows}

\* The plan and the tree it is built from.
PlanSound ==
    /\ planned \in Trees /\ tree \in Trees /\ absolute \in BOOLEAN /\ releases \in Nat
    /\ releases = 0 => tree = planned
    /\ pieces \in Seq(Pieces(planned, absolute)) /\ pieces # <<>>

\* What is in memory between the build and the rename, whole or capped.
TableSound ==
    pc \in {"open", "write", "replace"} =>
       /\ Readable(table) /\ AsPlanned(table)
       /\ IF capped THEN cap \in Caps /\ 0 < cap /\ cap < PlannedRows /\ Len(table) = cap
                    ELSE Len(table) = PlannedRows

\* What is on disk, and how much of it the attempt is to read.
OutputSound ==
    /\ output # None => Readable(output) /\ AsPlanned(output) /\ Len(output) \in Published
    /\ pc = "replace" => partial = table
    /\ pc = "cap" => Readable(output) /\ AsPlanned(output) /\ Len(output) = PlannedRows
    /\ pc = "ready" => Len(output) = IF cap > 0 /\ cap < PlannedRows THEN cap ELSE PlannedRows

CapSound == /\ pc # "none" => cap \in Caps
            /\ capped \in BOOLEAN
            /\ pc = "cap" => ~capped

IInv == PlanSound /\ TableSound /\ OutputSound /\ CapSound

\* A piece of the plan is of a file that has its rows.
LEMMA PieceOfFile ==
    ASSUME PlanSound, NEW i \in 1..Len(pieces)
    PROVE  \E f \in ToSet(planned.files), m \in Nat, n \in Nat :
              /\ pieces[i] = [path |-> (IF absolute THEN PlanMount ELSE <<>>) \o f.path,
                              start |-> m, end |-> n]
              /\ m < n /\ n <= f.rows
<1>1. pieces[i] \in Pieces(planned, absolute)
      BY ElementOfSeq DEF PlanSound
<1> DEFINE C(f) == {d \in Nat \X Nat : d[1] < d[2] /\ d[2] <= f.rows}
           Made(f, d) == [path |-> (IF absolute THEN PlanMount ELSE <<>>) \o f.path,
                          start |-> d[1], end |-> d[2]]
<1>2. PICK f \in ToSet(planned.files) : \E c \in C(f) : pieces[i] = Made(f, c)
  <2>1. Pieces(planned, absolute) = UNION {{Made(f, d) : d \in C(f)} : f \in ToSet(planned.files)}
        BY DEF Pieces
  <2> HIDE DEF Made, C
  <2>2. QED BY <1>1, <2>1
<1>3. PICK c \in C(f) : pieces[i] = Made(f, c)
      BY <1>2
<1>4. c[1] \in Nat /\ c[2] \in Nat /\ c[1] < c[2] /\ c[2] <= f.rows
      OBVIOUS
<1> DEFINE m == c[1] n == c[2]
<1>5. /\ m \in Nat /\ n \in Nat /\ m < n /\ n <= f.rows
      /\ pieces[i] = [path |-> (IF absolute THEN PlanMount ELSE <<>>) \o f.path,
                      start |-> m, end |-> n]
      BY <1>3, <1>4
<1> HIDE DEF m, n, C, Made
<1>6. QED BY <1>5, Zenon

\* It has rows.
LEMMA PieceTyped ==
    ASSUME PlanSound, NEW i \in 1..Len(pieces)
    PROVE  /\ pieces[i] \in Pieces(planned, absolute)
           /\ pieces[i].start \in Nat /\ pieces[i].end \in Nat /\ pieces[i].start < pieces[i].end
<1>1. pieces[i] \in Pieces(planned, absolute)
      BY ElementOfSeq DEF PlanSound
<1>2. PICK f \in ToSet(planned.files), m \in Nat, n \in Nat :
         /\ pieces[i] = [path |-> (IF absolute THEN PlanMount ELSE <<>>) \o f.path,
                         start |-> m, end |-> n]
         /\ m < n
      BY PieceOfFile, Zenon
<1>3. pieces[i].start = m /\ pieces[i].end = n
      BY <1>2
<1>4. QED BY <1>1, <1>2, <1>3

\* The rows that build_task_manifest reads from a piece.
PathOf(i) == resolve_source(pieces[i].path)
SchemaOf(i) == resolve(FileAt(PathOf(i)).columns)
RowsRead(i) == [j \in 1..pieces[i].end - pieces[i].start |->
                  Row(FileAt(PathOf(i)), pieces[i].start + j - 1, SchemaOf(i))]

\* The rows that it means.
RowsMeant(i) == [j \in 1..pieces[i].end - pieces[i].start |->
                   [path |-> MeantPath(pieces[i]), index |-> pieces[i].start + j - 1]]

AllRead == [i \in DOMAIN pieces |-> RowsRead(i)]
AllMeant == [i \in DOMAIN pieces |-> RowsMeant(i)]

\* What a build returns, and what it has found.
LEMMA BuiltFrom ==
    ASSUME NEW built, built = build_manifest(pieces), built # None
    PROVE  /\ built = FlattenSeq([i \in DOMAIN pieces |-> RowsRead(i)])
           /\ \A i \in DOMAIN pieces : PathOf(i) # None
           /\ \A i, j \in DOMAIN pieces :
                 columns_to_carry(SchemaOf(i)) = columns_to_carry(SchemaOf(j))
<1> DEFINE path == [i \in DOMAIN pieces |-> resolve_source(pieces[i].path)]
           file == [i \in DOMAIN pieces |-> FileAt(path[i])]
           schema == [i \in DOMAIN pieces |-> resolve(file[i].columns)]
           Rows(i) == [j \in 1..pieces[i].end - pieces[i].start |->
                         Row(file[i], pieces[i].start + j - 1, schema[i])]
           Bad == \/ \E i \in DOMAIN pieces : path[i] = None
                  \/ \E i \in DOMAIN pieces : pieces[i].end > file[i].rows \/ schema[i].url = NoColumn
                  \/ \E i, j \in DOMAIN pieces :
                        columns_to_carry(schema[i]) # columns_to_carry(schema[j])
<1>1. build_manifest(pieces) = IF Bad THEN None ELSE FlattenSeq([i \in DOMAIN pieces |-> Rows(i)])
      BY Zenon DEF build_manifest
<1>2. ~Bad /\ built = FlattenSeq([i \in DOMAIN pieces |-> Rows(i)])
  <2> HIDE DEF Bad, Rows
  <2>1. QED BY <1>1
<1>3. ASSUME NEW i \in DOMAIN pieces
      PROVE  path[i] = PathOf(i) /\ file[i] = FileAt(PathOf(i)) /\ schema[i] = SchemaOf(i)
      BY Zenon DEF PathOf, SchemaOf
<1> HIDE DEF path, file, schema
<1>4. ASSUME NEW i \in DOMAIN pieces PROVE Rows(i) = RowsRead(i)
      BY <1>3, Zenon DEF RowsRead
<1>5. [i \in DOMAIN pieces |-> Rows(i)] = [i \in DOMAIN pieces |-> RowsRead(i)]
  <2> HIDE DEF Rows
  <2>1. QED BY <1>4, Zenon
<1>6. QED BY <1>2, <1>3, <1>5, Zenon

\* The rows that are read and the rows that are meant, piece by piece.
LEMMA ReadParallel ==
    ASSUME PlanSound
    PROVE  /\ \E S, U : Parallel(AllRead, AllMeant, S, U)
           /\ DOMAIN pieces = 1..Len(pieces) /\ Len(pieces) \in Nat \ {0}
           /\ Len(AllRead) = Len(pieces)
           /\ \A i \in 1..Len(pieces) :
                 /\ AllRead[i] = RowsRead(i) /\ AllMeant[i] = RowsMeant(i)
                 /\ Len(RowsRead(i)) \in Nat \ {0}
<1> DEFINE n == Len(pieces)
           R == [i \in DOMAIN pieces |-> RowsRead(i)]
           M == [i \in DOMAIN pieces |-> RowsMeant(i)]
           S == {Row(FileAt(PathOf(i)), m, SchemaOf(i)) : i \in 1..n, m \in Nat}
           U == {[path |-> MeantPath(pieces[i]), index |-> m] : i \in 1..n, m \in Nat}
<1>1. DOMAIN pieces = 1..n /\ n \in Nat \ {0}
      BY LenProperties, EmptySeq DEF PlanSound
<1>2. ASSUME NEW i \in 1..n
      PROVE  /\ RowsRead(i) \in Seq(S) /\ RowsMeant(i) \in Seq(U)
             /\ Len(RowsRead(i)) = Len(RowsMeant(i)) /\ Len(RowsRead(i)) \in Nat \ {0}
  <2> DEFINE size == pieces[i].end - pieces[i].start
  <2>1. pieces[i].start \in Nat /\ pieces[i].end \in Nat /\ size \in Nat \ {0}
        BY PieceTyped
  <2>2. ASSUME NEW j \in 1..size PROVE pieces[i].start + j - 1 \in Nat
        BY <2>1
  <2>3. ASSUME NEW m \in Nat
        PROVE  /\ Row(FileAt(PathOf(i)), m, SchemaOf(i)) \in S
               /\ [path |-> MeantPath(pieces[i]), index |-> m] \in U
        OBVIOUS
  <2>4. ASSUME NEW j \in 1..size
        PROVE  /\ Row(FileAt(PathOf(i)), pieces[i].start + j - 1, SchemaOf(i)) \in S
               /\ [path |-> MeantPath(pieces[i]), index |-> pieces[i].start + j - 1] \in U
    <3> HIDE DEF S, U, size
    <3>1. QED BY <2>2, <2>3, Zenon
  <2>5. RowsRead(i) \in [1..size -> S] /\ RowsMeant(i) \in [1..size -> U]
    <3> HIDE DEF S, U
    <3>1. QED BY <2>4, Zenon DEF RowsRead, RowsMeant
  <2> HIDE DEF S, U, size
  <2>6. QED BY <2>1, <2>5, FunctionIsSeq
<1>3. R \in [1..n -> Seq(S)] /\ M \in [1..n -> Seq(U)]
  <2> HIDE DEF S, U
  <2>1. QED BY <1>1, <1>2, Zenon
<1>4. \A i \in 1..n : R[i] = RowsRead(i) /\ M[i] = RowsMeant(i)
      BY <1>1, Zenon
<1>5. R \in Seq(Seq(S)) /\ M \in Seq(Seq(U)) /\ Len(R) = n /\ Len(M) = n
  <2> HIDE DEF R, M, S, U
  <2>1. QED BY <1>1, <1>3, FunctionIsSeq
<1>6. Parallel(R, M, S, U)
  <2> HIDE DEF R, M, S, U
  <2>1. QED BY <1>2, <1>4, <1>5 DEF Parallel
<1>7. \E S1, U1 : Parallel(R, M, S1, U1)
  <2> HIDE DEF R, M, S, U
  <2>1. QED BY <1>6
<1>8. R = AllRead /\ M = AllMeant
      BY Zenon DEF AllRead, AllMeant
<1> HIDE DEF R, M
<1>9. \E S1, U1 : Parallel(AllRead, AllMeant, S1, U1)
      BY <1>7, <1>8, Zenon
<1> HIDE DEF S, U
<1>10. ASSUME NEW i \in 1..n
       PROVE  /\ AllRead[i] = RowsRead(i) /\ AllMeant[i] = RowsMeant(i)
              /\ Len(RowsRead(i)) \in Nat \ {0}
       BY <1>2, <1>4, <1>8
<1>11. Len(AllRead) = n
       BY <1>5, <1>8
<1>12. QED BY <1>1, <1>9, <1>10, <1>11

\* A row that is read, and the one that is meant, are of a piece.
ReadFrom(row, meant, k) ==
    \E j \in 1..pieces[k].end - pieces[k].start :
       /\ row = Row(FileAt(PathOf(k)), pieces[k].start + j - 1, SchemaOf(k))
       /\ meant = [path |-> MeantPath(pieces[k]), index |-> pieces[k].start + j - 1]

\* The rows of what a build makes, each of a piece.
LEMMA BuiltRows ==
    ASSUME PlanSound, NEW built, built = build_manifest(pieces), built # None
    PROVE  /\ IsSeq(built) /\ built # Torn
           /\ DOMAIN pieces = 1..Len(pieces)
           /\ \A i \in DOMAIN built :
                 \E k \in 1..Len(pieces) : ReadFrom(built[i], MeantRows[i], k)
<1> DEFINE n == Len(pieces)
           R == AllRead  M == AllMeant
<1>1. /\ built = FlattenSeq(R)
      /\ \A i \in DOMAIN pieces : PathOf(i) # None
      /\ \A i, j \in DOMAIN pieces : columns_to_carry(SchemaOf(i)) = columns_to_carry(SchemaOf(j))
      BY BuiltFrom DEF AllRead
<1>2. /\ \E S, U : Parallel(R, M, S, U)
      /\ DOMAIN pieces = 1..n /\ n \in Nat \ {0} /\ Len(R) = n
      /\ \A i \in 1..n : R[i] = RowsRead(i) /\ M[i] = RowsMeant(i) /\ Len(RowsRead(i)) \in Nat \ {0}
      BY ReadParallel
<1> HIDE DEF R, M
<1>3. PICK S, U : Parallel(R, M, S, U)
      BY <1>2
<1>4. /\ built \in Seq(S) /\ SamePlaces(R, M, built, FlattenSeq(M))
      /\ \A k \in 1..n : Len(R[k]) <= Len(built)
      BY <1>1, <1>2, <1>3, FlattenTogether
<1>5. MeantRows = FlattenSeq(M)
      BY Zenon DEF MeantRows, M, AllMeant, RowsMeant
<1>6. DOMAIN built = 1..Len(built) /\ Len(built) \in Nat
      BY <1>4, LenProperties
<1>7. built # Torn
  <2>1. 1 \in 1..n
        BY <1>2
  <2>2. Len(built) # 0
        BY <1>2, <1>4, <1>6, <2>1
  <2>3. QED BY <1>4, <2>2, EmptySeq DEF Torn
<1>8. ASSUME NEW i \in DOMAIN built
      PROVE  \E k \in 1..n : \E j \in 1..pieces[k].end - pieces[k].start :
                /\ built[i] = Row(FileAt(PathOf(k)), pieces[k].start + j - 1, SchemaOf(k))
                /\ MeantRows[i] = [path |-> MeantPath(pieces[k]),
                                   index |-> pieces[k].start + j - 1]
  <2>1. PICK k \in 1..n : \E j \in 1..Len(R[k]) : built[i] = R[k][j] /\ MeantRows[i] = M[k][j]
    <3>1. i \in 1..Len(built)
          BY <1>6
    <3>2. \A l \in 1..Len(built) :
             \E k \in 1..Len(R) : \E j \in 1..Len(R[k]) :
                built[l] = R[k][j] /\ FlattenSeq(M)[l] = M[k][j]
          BY <1>4, Zenon DEF SamePlaces
    <3>3. QED BY <1>2, <1>5, <3>1, <3>2, Zenon
  <2>2. PICK j \in 1..Len(R[k]) : built[i] = R[k][j] /\ MeantRows[i] = M[k][j]
        BY <2>1
  <2>3. R[k] = RowsRead(k) /\ M[k] = RowsMeant(k)
        BY <1>2
  <2> DEFINE size == pieces[k].end - pieces[k].start
  <2>4. size \in Nat
        BY PieceTyped
  <2>5. RowsRead(k) = [l \in 1..size |-> Row(FileAt(PathOf(k)), pieces[k].start + l - 1, SchemaOf(k))]
        BY Zenon DEF RowsRead
  <2>6. RowsMeant(k) = [l \in 1..size |-> [path |-> MeantPath(pieces[k]),
                                           index |-> pieces[k].start + l - 1]]
        BY Zenon DEF RowsMeant
  <2>7. Len(RowsRead(k)) = size
        BY <2>4, <2>5
  <2>8. j \in 1..size
        BY <2>2, <2>3, <2>7
  <2>9. /\ built[i] = Row(FileAt(PathOf(k)), pieces[k].start + j - 1, SchemaOf(k))
        /\ MeantRows[i] = [path |-> MeantPath(pieces[k]), index |-> pieces[k].start + j - 1]
        BY <2>2, <2>3, <2>5, <2>6, <2>8, Zenon
  <2>10. QED BY <2>8, <2>9
<1>9. IsSeq(built)
      BY <1>4 DEF IsSeq
<1>10. ASSUME NEW i \in DOMAIN built
       PROVE  \E k \in 1..n : ReadFrom(built[i], MeantRows[i], k)
       BY <1>8, Zenon DEF ReadFrom
<1>11. QED BY <1>2, <1>7, <1>9, <1>10

\* What a build makes is a manifest, of the rows of the plan.
LEMMA BuiltSound ==
    ASSUME PlanSound, NEW built, built = build_manifest(pieces), built # None
    PROVE  Readable(built) /\ AsPlanned(built)
<1> DEFINE n == Len(pieces)
<1>1. /\ built = FlattenSeq([i \in DOMAIN pieces |-> RowsRead(i)])
      /\ \A i \in DOMAIN pieces : PathOf(i) # None
      /\ \A i, j \in DOMAIN pieces : columns_to_carry(SchemaOf(i)) = columns_to_carry(SchemaOf(j))
      BY BuiltFrom
<1>2. /\ IsSeq(built) /\ built # Torn
      /\ DOMAIN pieces = 1..Len(pieces)
      /\ \A i \in DOMAIN built :
            \E k \in 1..Len(pieces) : ReadFrom(built[i], MeantRows[i], k)
      BY BuiltRows
<1>3. ASSUME NEW i \in DOMAIN built
      PROVE  \E k \in 1..n : \E j \in 1..pieces[k].end - pieces[k].start :
                /\ built[i] = Row(FileAt(PathOf(k)), pieces[k].start + j - 1, SchemaOf(k))
                /\ MeantRows[i] = [path |-> MeantPath(pieces[k]),
                                   index |-> pieces[k].start + j - 1]
      BY <1>2, Zenon DEF ReadFrom, Zenon
<1>4. ASSUME NEW i \in DOMAIN built, NEW j \in DOMAIN built
      PROVE  DOMAIN built[i].fields = DOMAIN built[j].fields
  <2>1. ASSUME NEW l \in DOMAIN built
        PROVE  \E k \in 1..n : DOMAIN built[l].fields = columns_to_carry(SchemaOf(k))
    <3>1. PICK k \in 1..n : \E m \in 1..pieces[k].end - pieces[k].start :
                 built[l] = Row(FileAt(PathOf(k)), pieces[k].start + m - 1, SchemaOf(k))
          BY <1>3
    <3>2. PICK m \in 1..pieces[k].end - pieces[k].start :
                 built[l] = Row(FileAt(PathOf(k)), pieces[k].start + m - 1, SchemaOf(k))
          BY <3>1
    <3>3. built[l].fields = [role \in columns_to_carry(SchemaOf(k)) |-> SchemaOf(k)[role]]
          BY <3>2 DEF Row
    <3>4. QED BY <3>3
  <2>2. PICK k \in 1..n : DOMAIN built[i].fields = columns_to_carry(SchemaOf(k))
        BY <2>1
  <2>3. PICK l \in 1..n : DOMAIN built[j].fields = columns_to_carry(SchemaOf(l))
        BY <2>1
  <2>4. columns_to_carry(SchemaOf(k)) = columns_to_carry(SchemaOf(l))
        BY <1>1, <1>2
  <2>5. QED BY <2>2, <2>3, <2>4, Zenon
<1>5. ASSUME ~absolute \/ releases = 0, NEW i \in DOMAIN built
      PROVE  [path |-> built[i].path, index |-> built[i].index] = MeantRows[i]
  <2>1. PICK k \in 1..n : \E j \in 1..pieces[k].end - pieces[k].start :
                /\ built[i] = Row(FileAt(PathOf(k)), pieces[k].start + j - 1, SchemaOf(k))
                /\ MeantRows[i] = [path |-> MeantPath(pieces[k]),
                                   index |-> pieces[k].start + j - 1]
        BY <1>3
  <2>2. PICK j \in 1..pieces[k].end - pieces[k].start :
                /\ built[i] = Row(FileAt(PathOf(k)), pieces[k].start + j - 1, SchemaOf(k))
                /\ MeantRows[i] = [path |-> MeantPath(pieces[k]),
                                   index |-> pieces[k].start + j - 1]
        BY <2>1
  <2>3. built[i].path = FileAt(PathOf(k)).path /\ built[i].index = pieces[k].start + j - 1
        BY <2>2 DEF Row
  <2>4. Exists(PathOf(k)) /\ PathOf(k) = MeantPath(pieces[k])
    <3>1. /\ planned \in Trees /\ absolute \in BOOLEAN /\ (absolute => tree = planned)
          /\ pieces[k] \in Pieces(planned, absolute)
          BY <1>5, PieceTyped DEF PlanSound
    <3>2. resolve_source(pieces[k].path) # None
          BY <1>1, <1>2 DEF PathOf
    <3>3. QED BY <3>1, <3>2, ResolvedAsMeant DEF PathOf
  <2>5. FileAt(PathOf(k)).path = PathOf(k)
        BY <2>4 DEF FileAt, Exists
  <2>6. QED BY <2>2, <2>3, <2>4, <2>5
<1>6. QED BY <1>2, <1>4, <1>5 DEF Readable, AsPlanned

-----------------------------------------------------------------------------
(* It is inductive. *)

\* A manifest cut to its first rows, fewer than it has.
LEMMA CapKeeps ==
    ASSUME NEW x, Readable(x), AsPlanned(x), NEW n \in Nat, 0 < n, n < Len(x)
    PROVE  /\ Readable(SubSeq(x, 1, n)) /\ AsPlanned(SubSeq(x, 1, n))
           /\ Len(SubSeq(x, 1, n)) = n
<1> DEFINE y == SubSeq(x, 1, n)
<1>1. PICK S : x \in Seq(S)
      BY DEF Readable, IsSeq
<1>2. DOMAIN x = 1..Len(x) /\ Len(x) \in Nat /\ \A i \in 1..Len(x) : x[i] \in S
      BY <1>1, LenProperties, ElementOfSeq
<1>3. y \in Seq(S) /\ Len(y) = n /\ \A i \in 1..n : y[i] = x[i]
      BY <1>2, SubSeqProperties
<1> HIDE DEF y
<1>4. DOMAIN y = 1..n /\ \A i \in DOMAIN y : i \in DOMAIN x /\ y[i] = x[i]
      BY <1>2, <1>3, LenProperties
<1>5. y # Torn
      BY <1>3, EmptySeq DEF Torn
<1>6. Readable(y)
      BY <1>3, <1>4, <1>5, Zenon DEF Readable, IsSeq
<1>7. AsPlanned(y)
      BY <1>4, Zenon DEF AsPlanned
<1>8. QED BY <1>3, <1>6, <1>7 DEF y

\* Before the first attempt there is a plan and nothing else.
LEMMA InitHolds == Init => IInv
<1> SUFFICES ASSUME Init PROVE IInv
    OBVIOUS
<1>1. PICK size \in Sizes, a \in 0..TotalRows(planned) - 1 :
         pieces = PlannedPieces(planned, a, a + size, absolute)
      BY DEF Init
<1>2. planned \in Trees /\ tree = planned /\ absolute \in BOOLEAN
      BY DEF Init
<1>3. TotalRows(planned) \in Nat /\ size \in Nat \ {0}
      BY <1>2, RowsOfFiles, BoundsAssumption
<1>4. a \in Nat /\ a + size \in Nat /\ a < a + size /\ a < TotalRows(planned)
      BY <1>3
<1>5. pieces \in Seq(Pieces(planned, absolute)) /\ pieces # <<>>
      BY <1>1, <1>2, <1>4, PlanHasPieces
<1>6. PlanSound
      BY <1>2, <1>5 DEF PlanSound, Init
<1>7. TableSound /\ OutputSound /\ CapSound
      BY DEF TableSound, OutputSound, CapSound, Init
<1>8. QED BY <1>6, <1>7 DEF IInv

\* What does not change the plan keeps what is said about it.
PlanKept == UNCHANGED <<planned, absolute, pieces, tree, releases>>

\* In particular what its rows are and how many.
LEMMA PlanKeeps ==
    ASSUME PlanKept
    PROVE  /\ PlanSound' <=> PlanSound
           /\ MeantRows' = MeantRows /\ PlannedRows' = PlannedRows /\ Published' = Published
           /\ \A x : AsPlanned(x)' <=> AsPlanned(x)
<1>1. PlanSound' <=> PlanSound
      BY Zenon DEF PlanKept, PlanSound
<1>2. MeantRows' = MeantRows
      BY Zenon DEF PlanKept, MeantRows, MeantPath
<1>3. PlannedRows' = PlannedRows
      BY Zenon DEF PlanKept, PlannedRows
<1>4. QED BY <1>1, <1>2, <1>3, Zenon DEF PlanKept, Published, AsPlanned

\* A step that neither publishes a manifest nor enters a stage that reads one.
LEMMA StaysSound ==
    ASSUME IInv, PlanKept, output' = output,
           pc' \notin {"open", "write", "replace", "cap", "ready"},
           pc' # "none" => cap' \in Caps, capped' \in BOOLEAN
    PROVE  IInv'
<1>1. PlanSound'
      BY PlanKeeps DEF IInv
<1>2. TableSound'
      BY DEF TableSound
<1>3. OutputSound'
  <2>1. output # None => Readable(output) /\ AsPlanned(output) /\ Len(output) \in Published
        BY DEF IInv, OutputSound
  <2>2. Readable(output)' <=> Readable(output)
        BY DEF Readable, IsSeq
  <2>3. AsPlanned(output)' <=> AsPlanned(output)
        BY Zenon DEF AsPlanned, PlanKept, MeantRows, MeantPath
  <2>4. QED BY <2>1, <2>2, <2>3, PlanKeeps DEF OutputSound
<1>4. CapSound'
      BY DEF CapSound
<1>5. QED BY <1>1, <1>2, <1>3, <1>4 DEF IInv

\* The manifests there are stay what they are while the plan is kept.
LEMMA KeptSound ==
    ASSUME PlanKept
    PROVE  /\ output' = output =>
                /\ Readable(output)' <=> Readable(output)
                /\ AsPlanned(output)' <=> AsPlanned(output)
           /\ table' = table =>
                /\ Readable(table)' <=> Readable(table)
                /\ AsPlanned(table)' <=> AsPlanned(table)
<1>1. output' = output =>
         (Readable(output)' <=> Readable(output)) /\ (AsPlanned(output)' <=> AsPlanned(output))
      BY Zenon DEF Readable, IsSeq, AsPlanned, PlanKept, MeantRows, MeantPath
<1>2. table' = table =>
         (Readable(table)' <=> Readable(table)) /\ (AsPlanned(table)' <=> AsPlanned(table))
      BY Zenon DEF Readable, IsSeq, AsPlanned, PlanKept, MeantRows, MeantPath
<1>3. QED BY <1>1, <1>2

\* What is built, capped or renamed is what it is made of.
LEMMA CopiedSound ==
    ASSUME PlanKept, NEW x, Readable(x), AsPlanned(x)
    PROVE  /\ table' = x => Readable(table)' /\ AsPlanned(table)'
           /\ output' = x => Readable(output)' /\ AsPlanned(output)'
<1>1. MeantRows' = MeantRows
      BY PlanKeeps
<1>2. ASSUME table' = x PROVE Readable(table)' /\ AsPlanned(table)'
      BY <1>1, <1>2, Zenon DEF Readable, IsSeq, AsPlanned, PlanKept
<1>3. ASSUME output' = x PROVE Readable(output)' /\ AsPlanned(output)'
      BY <1>1, <1>3, Zenon DEF Readable, IsSeq, AsPlanned, PlanKept
<1>4. QED BY <1>2, <1>3

\* A build that succeeds has all rows of the plan.
LEMMA BuildStep == IInv /\ Build => IInv'
<1> SUFFICES ASSUME IInv, Build PROVE IInv'
    OBVIOUS
<1>1. PlanKept /\ output' = output /\ cap' = cap /\ capped' = FALSE /\ pc = "build"
      BY DEF Build, PlanKept
<1> DEFINE built == build_manifest(pieces)
<1>2. CASE built = None \/ Len(built) # PlannedRows
  <2>1. pc' = "none"
        BY <1>2 DEF Build
  <2>2. QED BY <1>1, <2>1, StaysSound
<1>3. CASE built # None /\ Len(built) = PlannedRows
  <2>1. pc' = "open" /\ table' = built
        BY <1>3 DEF Build
  <2>2. Readable(built) /\ AsPlanned(built)
    <3>1. PlanSound /\ built = build_manifest(pieces) /\ built # None
          BY <1>3 DEF IInv
    <3> HIDE DEF built
    <3>2. QED BY <3>1, BuiltSound
  <2>3. PlanSound' /\ PlannedRows' = PlannedRows /\ Published' = Published
        BY <1>1, PlanKeeps DEF IInv
  <2> HIDE DEF built
  <2>4. Readable(table)' /\ AsPlanned(table)'
        BY <1>1, <2>1, <2>2, CopiedSound
  <2>5. TableSound'
        BY <1>1, <1>3, <2>1, <2>3, <2>4 DEF TableSound
  <2>6. OutputSound'
        BY <1>1, <2>1, <2>3, KeptSound DEF IInv, OutputSound
  <2>7. CapSound'
        BY <1>1, <2>1 DEF IInv, CapSound
  <2>8. QED BY <2>3, <2>5, <2>6, <2>7 DEF IInv
<1>4. QED BY <1>2, <1>3

\* Opening and writing the partial file do not touch urls.parquet.
LEMMA WritingStep == IInv /\ (Open \/ Write) => IInv'
<1> SUFFICES ASSUME IInv, Open \/ Write PROVE IInv'
    OBVIOUS
<1>1. /\ PlanKept /\ output' = output /\ table' = table /\ cap' = cap /\ capped' = capped
      /\ pc \in {"open", "write"}
      /\ pc' = "write" \/ (pc' = "replace" /\ partial' = table)
      BY DEF Open, Write, PlanKept
<1>2. PlanSound' /\ PlannedRows' = PlannedRows /\ Published' = Published
      BY <1>1, PlanKeeps DEF IInv
<1>3. TableSound'
      BY <1>1, <1>2, KeptSound DEF IInv, TableSound
<1>4. OutputSound'
      BY <1>1, <1>2, KeptSound DEF IInv, OutputSound
<1>5. CapSound'
      BY <1>1 DEF IInv, CapSound
<1>6. QED BY <1>2, <1>3, <1>4, <1>5 DEF IInv

\* The rename publishes what was written: all rows, or those of a cap.
LEMMA ReplaceStep == IInv /\ Replace => IInv'
<1> SUFFICES ASSUME IInv, Replace PROVE IInv'
    OBVIOUS
<1>1. /\ PlanKept /\ cap' = cap /\ capped' = capped /\ pc = "replace"
      /\ pc' = IF capped THEN "ready" ELSE "cap"
      BY DEF Replace, PlanKept
<1>2. output' = table
      BY <1>1 DEF Replace, IInv, OutputSound
<1>3. PlanSound' /\ PlannedRows' = PlannedRows /\ Published' = Published
      BY <1>1, PlanKeeps DEF IInv
<1>4. /\ Readable(table) /\ AsPlanned(table)
      /\ IF capped THEN cap \in Caps /\ 0 < cap /\ cap < PlannedRows /\ Len(table) = cap
                   ELSE Len(table) = PlannedRows
      BY <1>1 DEF IInv, TableSound
<1>5. Readable(output)' /\ AsPlanned(output)'
      BY <1>1, <1>2, <1>4, CopiedSound
<1>6. Len(output)' \in Published'
      BY <1>2, <1>3, <1>4 DEF Published
<1>7. TableSound'
      BY <1>1 DEF TableSound
<1>8. OutputSound'
      BY <1>1, <1>2, <1>3, <1>4, <1>5, <1>6 DEF OutputSound
<1>9. CapSound'
      BY <1>1 DEF IInv, CapSound
<1>10. QED BY <1>3, <1>7, <1>8, <1>9 DEF IInv

\* A cap that bites cuts the published manifest; the cut one is renamed later.
LEMMA CapStep == IInv /\ Cap => IInv'
<1> SUFFICES ASSUME IInv, Cap PROVE IInv'
    OBVIOUS
<1>1. PlanKept /\ output' = output /\ cap' = cap /\ pc = "cap" /\ cap \in Nat /\ cap \in Caps
      BY BoundsAssumption DEF Cap, PlanKept, IInv, CapSound
<1>2. PlanSound' /\ PlannedRows' = PlannedRows /\ Published' = Published
      BY <1>1, PlanKeeps DEF IInv
<1>3. Readable(output) /\ AsPlanned(output) /\ Len(output) = PlannedRows
      BY <1>1 DEF IInv, OutputSound
<1>4. PlannedRows \in Nat
  <2>1. PICK S : output \in Seq(S)
        BY <1>3 DEF Readable, IsSeq
  <2>2. QED BY <1>3, <2>1, LenProperties
<1>5. CASE cap = 0 \/ Len(output) <= cap
  <2>1. pc' = "ready" /\ capped' = capped
        BY <1>5 DEF Cap
  <2>2. ~ (cap > 0 /\ cap < PlannedRows)
        BY <1>1, <1>3, <1>4, <1>5
  <2>3. OutputSound'
        BY <1>1, <1>2, <1>3, <2>1, <2>2, KeptSound DEF IInv, OutputSound
  <2>4. TableSound' /\ CapSound'
        BY <1>1, <2>1 DEF IInv, TableSound, CapSound
  <2>5. QED BY <1>2, <2>3, <2>4 DEF IInv
<1>6. CASE ~ (cap = 0 \/ Len(output) <= cap)
  <2>1. pc' = "open" /\ capped' = TRUE /\ table' = SubSeq(output, 1, cap)
        BY <1>6 DEF Cap
  <2>2. 0 < cap /\ cap < PlannedRows
        BY <1>1, <1>3, <1>4, <1>6
  <2> DEFINE x == SubSeq(output, 1, cap)
  <2>3. Readable(x) /\ AsPlanned(x) /\ Len(x) = cap
        BY <1>1, <1>3, <2>2, CapKeeps
  <2>4. table' = x
        BY <2>1
  <2> HIDE DEF x
  <2>5. Readable(table)' /\ AsPlanned(table)'
        BY <1>1, <2>3, <2>4, CopiedSound
  <2>6. TableSound'
        BY <1>1, <1>2, <2>1, <2>2, <2>3, <2>4, <2>5 DEF TableSound
  <2>7. OutputSound' /\ CapSound'
        BY <1>1, <1>2, <2>1, KeptSound DEF IInv, OutputSound, CapSound
  <2>8. QED BY <1>2, <2>6, <2>7 DEF IInv
<1>7. QED BY <1>5, <1>6

\* A release leaves a relative plan what it means, and takes an absolute one
\* out of what is said.
LEMMA ReleaseStep == ASSUME IInv, NEW t \in Trees, Release(t) PROVE IInv'
<1>1. /\ UNCHANGED <<planned, absolute, pieces, pc, capped, cap, output>>
      /\ tree' = t /\ releases' = releases + 1 /\ releases \in Nat /\ pc = "none"
      BY DEF Release, IInv, PlanSound
<1>2. PlanSound'
  <2>1. releases' \in Nat /\ releases' # 0 /\ tree' \in Trees
        BY <1>1
  <2>2. QED BY <1>1, <2>1, Zenon DEF IInv, PlanSound
<1>3. MeantRows' = MeantRows /\ Published' = Published
  <2>1. MeantRows' = MeantRows
        BY <1>1, Zenon DEF MeantRows, MeantPath
  <2>2. PlannedRows' = PlannedRows
        BY <1>1, Zenon DEF PlannedRows
  <2>3. QED BY <2>1, <2>2, Zenon DEF Published
<1>4. AsPlanned(output) => AsPlanned(output)'
  <2>1. (releases' = 0) => (releases = 0)
        BY <1>1
  <2>2. QED BY <1>1, <1>3, <2>1, Zenon DEF AsPlanned
<1>5. Readable(output)' <=> Readable(output)
      BY <1>1, Zenon DEF Readable, IsSeq
<1>6. OutputSound'
      BY <1>1, <1>3, <1>4, <1>5 DEF IInv, OutputSound
<1>7. TableSound' /\ CapSound'
      BY <1>1 DEF IInv, TableSound, CapSound
<1>8. QED BY <1>2, <1>6, <1>7 DEF IInv

\* Every step of an attempt, its end, and a release between two.
LEMMA StepHolds == IInv /\ [Next]_vars => IInv'
<1> SUFFICES ASSUME IInv, [Next]_vars PROVE IInv'
    OBVIOUS
<1>1. ASSUME NEW n \in Caps, Start(n) PROVE IInv'
  <2>1. /\ PlanKept /\ output' = output /\ pc' = "build" /\ cap' = n /\ capped' = capped
        BY <1>1 DEF Start, PlanKept
  <2>2. capped' \in BOOLEAN
        BY <2>1 DEF IInv, CapSound
  <2>3. QED BY <2>1, <2>2, StaysSound
<1>2. CASE WriteFails \/ End
  <2>1. /\ PlanKept /\ output' = output /\ pc' = "none" /\ capped' = capped
        BY <1>2 DEF WriteFails, End, PlanKept
  <2>2. capped' \in BOOLEAN
        BY <2>1 DEF IInv, CapSound
  <2>3. QED BY <2>1, <2>2, StaysSound
<1>3. CASE UNCHANGED vars
  <2>1. /\ PlanKept
        /\ UNCHANGED <<output, table, partial, cap, capped, pc>>
        BY <1>3 DEF vars, PlanKept
  <2>2. PlanSound' /\ PlannedRows' = PlannedRows /\ Published' = Published
        BY <2>1, PlanKeeps DEF IInv
  <2>3. TableSound' /\ CapSound'
        BY <2>1, <2>2, KeptSound DEF IInv, TableSound, CapSound
  <2>4. OutputSound'
        BY <2>1, <2>2, KeptSound DEF IInv, OutputSound
  <2>5. QED BY <2>2, <2>3, <2>4 DEF IInv
<1>4. QED BY <1>1, <1>2, <1>3, BuildStep, WritingStep, ReplaceStep, CapStep, ReleaseStep DEF Next

-----------------------------------------------------------------------------
\* What an attempt of production_task.sh has in memory and finds on disk is,
\* at every step and through every kill, a manifest of the plan or nothing.
THEOREM Invariance == Spec => []IInv
<1>1. QED BY InitHolds, StepHolds, PTL DEF Spec

\* build_task_manifest.py and cap_manifest.py never let a reader see a file
\* that is not all written or has other than the planned or the capped number
\* of rows, whatever attempt is killed or fails where.
THEOREM PublishedWhole == Spec => []ManifestWhole
<1>1. IInv => ManifestWhole
  <2> SUFFICES ASSUME IInv PROVE ManifestWhole
      OBVIOUS
  <2>1. ASSUME output # None
        PROVE  /\ output # Torn
               /\ Len(output) \in {PlannedRows} \cup {n \in Caps : 0 < n /\ n < PlannedRows}
               /\ \A i, j \in DOMAIN output : DOMAIN output[i].fields = DOMAIN output[j].fields
        BY <2>1 DEF IInv, OutputSound, Readable, Published
  <2>2. pc = "ready" =>
          Len(output) = IF cap > 0 /\ cap < PlannedRows THEN cap ELSE PlannedRows
        BY DEF IInv, OutputSound
  <2>3. QED BY <2>1, <2>2, Zenon DEF ManifestWhole
<1>2. QED BY <1>1, Invariance, PTL

\* One plan entry gives the same rows on any node and mount, in any attempt
\* and, where its paths are relative, from any release that still builds.
THEOREM SameRowsAnywhere == Spec => []RowsAsPlanned
<1>1. IInv => RowsAsPlanned
      BY Zenon DEF IInv, OutputSound, AsPlanned, RowsAsPlanned
<1>2. QED BY <1>1, Invariance, PTL

-----------------------------------------------------------------------------
(* The columns of a corpus. *)

\* Every role has a list of aliases.
LEMMA RoleAliases ==
    ASSUME NEW role \in ToSet(Roles)
    PROVE  DOMAIN ROLE_ALIASES[role] = 1..Len(ROLE_ALIASES[role]) /\ Len(ROLE_ALIASES[role]) \in Nat
<1>1. role \in {"url", "caption", "identifier", "width", "height", "face_boxes"}
      BY DEF ToSet, Roles
<1>2. QED BY <1>1 DEF ROLE_ALIASES

\* What a corpus documents for a role is among them.
LEMMA DocumentedAlias ==
    ASSUME NEW corpus \in DOMAIN DOCUMENTED, NEW role \in ToSet(Roles),
           DOCUMENTED[corpus][role] # NoColumn
    PROVE  \E i \in DOMAIN ROLE_ALIASES[role] : ROLE_ALIASES[role][i] = DOCUMENTED[corpus][role]
<1>1. role \in {"url", "caption", "identifier", "width", "height", "face_boxes"}
      BY DEF ToSet, Roles
<1>2. corpus \in {"datacomp_1b", "datacomp_commonpool_xlarge", "coyo700m",
                  "relaion5b_research_safe", "yfcc100m"}
      BY DEF DOCUMENTED
<1>3. CASE role = "url"
      BY <1>2, <1>3 DEF DOCUMENTED, DataComp, ROLE_ALIASES
<1>4. CASE role = "caption"
      BY <1>2, <1>4 DEF DOCUMENTED, DataComp, ROLE_ALIASES
<1>5. CASE role = "identifier"
      BY <1>2, <1>5 DEF DOCUMENTED, DataComp, ROLE_ALIASES
<1>6. CASE role = "width"
  <2>1. DOCUMENTED[corpus].width \in {"original_width", "width", "WIDTH"}
    <3>1. DOCUMENTED[corpus].width # NoColumn
          BY <1>6
    <3>2. DOCUMENTED[corpus].width \in {"original_width", "width", "WIDTH"} \cup {NoColumn}
          BY <1>2 DEF DOCUMENTED, DataComp
    <3>3. QED BY <3>1, <3>2
  <2>2. QED BY <1>6, <2>1 DEF ROLE_ALIASES
<1>7. CASE role = "height"
  <2>1. DOCUMENTED[corpus].height \in {"original_height", "height", "HEIGHT"}
    <3>1. DOCUMENTED[corpus].height # NoColumn
          BY <1>7
    <3>2. DOCUMENTED[corpus].height \in {"original_height", "height", "HEIGHT"} \cup {NoColumn}
          BY <1>2 DEF DOCUMENTED, DataComp
    <3>3. QED BY <3>1, <3>2
  <2>2. QED BY <1>7, <2>1 DEF ROLE_ALIASES
<1>8. CASE role = "face_boxes"
  <2>1. DOCUMENTED[corpus].face_boxes \in {"face_bboxes"}
    <3>1. DOCUMENTED[corpus].face_boxes # NoColumn
          BY <1>8
    <3>2. DOCUMENTED[corpus].face_boxes \in {"face_bboxes"} \cup {NoColumn}
          BY <1>2 DEF DOCUMENTED, DataComp
    <3>3. QED BY <3>1, <3>2
  <2>2. QED BY <1>8, <2>1 DEF ROLE_ALIASES
<1>9. QED BY <1>1, <1>3, <1>4, <1>5, <1>6, <1>7, <1>8

\* The first candidate that is a column, a column that is one but for case, or
\* nothing where there is neither.
LEMMA FindIs ==
    ASSUME NEW candidates, NEW n \in Nat, DOMAIN candidates = 1..n,
           NEW S, NEW columns \in Seq(S)
    PROVE  LET exact == {i \in DOMAIN candidates : Contains(columns, candidates[i])}
               Loose(c) == \E i \in DOMAIN candidates : Lower(c) = Lower(candidates[i])
           IN  /\ exact # {} =>
                     \E m \in exact :
                        /\ _find(candidates, columns) = candidates[m]
                        /\ \A k \in exact : m <= k
               /\ exact = {} /\ (\E j \in DOMAIN columns : Loose(columns[j])) =>
                     \E j \in DOMAIN columns : _find(candidates, columns) = columns[j]
               /\ exact = {} /\ (\A j \in DOMAIN columns : ~Loose(columns[j])) =>
                     _find(candidates, columns) = NoColumn
<1> DEFINE exact == {i \in DOMAIN candidates : Contains(columns, candidates[i])}
           Same(i) == {j \in DOMAIN columns : Lower(columns[j]) = Lower(candidates[i])}
           loose == {i \in DOMAIN candidates : Same(i) # {}}
<1>1. _find(candidates, columns) =
         IF exact # {} THEN candidates[Min(exact)]
         ELSE IF loose # {} THEN columns[Max(Same(Min(loose)))] ELSE NoColumn
      BY Zenon DEF _find
<1>2. /\ exact \subseteq 0..n /\ loose \subseteq 0..n
      /\ Len(columns) \in Nat /\ DOMAIN columns = 1..Len(columns)
      BY LenProperties
<1>3. ASSUME NEW T, T \subseteq 0..n, T # {}
      PROVE  Min(T) \in T /\ \A k \in T : Min(T) <= k
  <2>1. T \subseteq Nat
        BY <1>3
  <2>2. \E x \in T : \A y \in T : x <= y
        BY <1>3, <2>1, Least
  <2>3. QED BY <2>2 DEF Min
<1>4. ASSUME exact # {}
      PROVE  \E m \in exact :
                _find(candidates, columns) = candidates[m] /\ \A k \in exact : m <= k
  <2> HIDE DEF exact, loose, Same
  <2>1. QED BY <1>1, <1>2, <1>3, <1>4
<1>5. ASSUME exact = {}, NEW j \in DOMAIN columns, NEW i \in DOMAIN candidates,
             Lower(columns[j]) = Lower(candidates[i])
      PROVE  \E l \in DOMAIN columns : _find(candidates, columns) = columns[l]
  <2>1. i \in loose
        BY <1>5
  <2>2. Same(Min(loose)) # {}
    <3>1. Min(loose) \in loose
      <4> HIDE DEF loose
      <4>1. QED BY <1>2, <1>3, <2>1
    <3>2. QED BY <3>1
  <2>3. Same(Min(loose)) \subseteq 0..Len(columns)
        BY <1>2
  <2> DEFINE T == Same(Min(loose))
  <2>4. Max(T) \in T
    <3> HIDE DEF T
    <3>1. QED BY <1>2, <2>2, <2>3, LeastAndGreatest DEF T
  <2>5. Max(T) \in DOMAIN columns
        BY <2>4
  <2> HIDE DEF exact, loose, Same
  <2>6. _find(candidates, columns) = columns[Max(T)]
        BY <1>1, <1>5, <2>1
  <2>7. QED BY <2>5, <2>6
<1>6. ASSUME exact = {}, \A j \in DOMAIN columns, i \in DOMAIN candidates :
                            Lower(columns[j]) # Lower(candidates[i])
      PROVE  _find(candidates, columns) = NoColumn
  <2>1. loose = {}
        BY <1>6
  <2> HIDE DEF exact, loose, Same
  <2>2. QED BY <1>1, <1>6, <2>1
<1> HIDE DEF loose, Same
<1>7. QED BY <1>4, <1>5, <1>6

\* A column that resolve takes for the role before the documented one, or for
\* one that is not documented.
RivalFor(corpus, role, column) ==
    \E i \in DOMAIN ROLE_ALIASES[role] :
       IF DOCUMENTED[corpus][role] = NoColumn
       THEN Lower(column) = Lower(ROLE_ALIASES[role][i])
       ELSE /\ column = ROLE_ALIASES[role][i]
            /\ \A k \in 1..i : ROLE_ALIASES[role][k] # DOCUMENTED[corpus][role]

\* The columns by their places.
LEMMA ColumnsOf ==
    ASSUME NEW S, NEW columns \in Seq(S)
    PROVE  /\ DOMAIN columns = 1..Len(columns)
           /\ ToSet(columns) = {columns[j] : j \in DOMAIN columns}
           /\ \A c : Contains(columns, c) <=> c \in ToSet(columns)
<1>1. DOMAIN columns = 1..Len(columns)
      BY LenProperties
<1>2. QED BY <1>1 DEF ToSet, Contains

\* A documented role gets its column unless a rival is there.
LEMMA DocumentedTaken ==
    ASSUME NEW corpus \in DOMAIN DOCUMENTED, NEW role \in ToSet(Roles),
           DOCUMENTED[corpus][role] # NoColumn,
           NEW S, NEW columns \in Seq(S), DOCUMENTED[corpus][role] \in ToSet(columns)
    PROVE  _find(ROLE_ALIASES[role], columns) = DOCUMENTED[corpus][role]
             <=> \A c \in ToSet(columns) : ~RivalFor(corpus, role, c)
<1> DEFINE a == ROLE_ALIASES[role]
           d == DOCUMENTED[corpus][role]
           exact == {i \in DOMAIN a : Contains(columns, a[i])}
<1>1. DOMAIN a = 1..Len(a) /\ Len(a) \in Nat
      BY RoleAliases
<1>2. PICK i \in DOMAIN a : a[i] = d
      BY DocumentedAlias
<1>3. d # NoColumn /\ d \in ToSet(columns) /\ \A c : Contains(columns, c) <=> c \in ToSet(columns)
      BY ColumnsOf
<1>4. i \in exact
      BY <1>2, <1>3
<1>5. PICK m \in exact : _find(a, columns) = a[m] /\ \A k \in exact : m <= k
  <2> HIDE DEF a
  <2>1. QED BY <1>1, <1>4, FindIs
<1>6. \A c : RivalFor(corpus, role, c) <=>
                \E l \in DOMAIN a : c = a[l] /\ \A k \in 1..l : a[k] # d
      BY <1>3 DEF RivalFor
<1> HIDE DEF a, d
<1>7. ASSUME a[m] = d, NEW c \in ToSet(columns), RivalFor(corpus, role, c) PROVE FALSE
  <2>1. PICK l \in DOMAIN a : c = a[l] /\ \A k \in 1..l : a[k] # d
        BY <1>6, <1>7
  <2>2. l \in exact
        BY <1>3, <1>7, <2>1
  <2>3. m \in 1..l
        BY <1>1, <1>5, <2>2
  <2>4. QED BY <1>7, <2>1, <2>3
<1>8. ASSUME a[m] # d PROVE \E c \in ToSet(columns) : RivalFor(corpus, role, c)
  <2>1. ASSUME NEW k \in 1..m PROVE a[k] # d
    <3>1. CASE k = m
          BY <1>8, <3>1
    <3>2. CASE k # m
      <4>1. k \in DOMAIN a /\ ~ (m <= k)
            BY <1>1, <3>2
      <4>2. k \notin exact
            BY <1>5, <4>1
      <4>3. QED BY <1>3, <4>1, <4>2
    <3>3. QED BY <3>1, <3>2
  <2>2. RivalFor(corpus, role, a[m]) /\ a[m] \in ToSet(columns)
        BY <1>3, <1>6, <2>1
  <2>3. QED BY <2>2
<1>9. QED BY <1>5, <1>7, <1>8 DEF a, d

\* A role that is not documented gets none unless a rival is there.
LEMMA UndocumentedLeft ==
    ASSUME NEW corpus \in DOMAIN DOCUMENTED, NEW role \in ToSet(Roles),
           DOCUMENTED[corpus][role] = NoColumn,
           NEW S, NEW columns \in Seq(S), NoColumn \notin ToSet(columns)
    PROVE  _find(ROLE_ALIASES[role], columns) = NoColumn
             <=> \A c \in ToSet(columns) : ~RivalFor(corpus, role, c)
<1> DEFINE a == ROLE_ALIASES[role]
           exact == {i \in DOMAIN a : Contains(columns, a[i])}
           Loose(c) == \E i \in DOMAIN a : Lower(c) = Lower(a[i])
<1>1. DOMAIN a = 1..Len(a) /\ Len(a) \in Nat
      BY RoleAliases
<1>2. /\ \A c : Contains(columns, c) <=> c \in ToSet(columns)
      /\ ToSet(columns) = {columns[j] : j \in DOMAIN columns}
      BY ColumnsOf
<1>3. \A c : RivalFor(corpus, role, c) <=> Loose(c)
      BY DEF RivalFor
<1> HIDE DEF a
<1>4. /\ exact # {} => \E m \in exact : _find(a, columns) = a[m]
      /\ exact = {} /\ (\E j \in DOMAIN columns : Loose(columns[j])) =>
            \E j \in DOMAIN columns : _find(a, columns) = columns[j]
      /\ exact = {} /\ (\A j \in DOMAIN columns : ~Loose(columns[j])) =>
            _find(a, columns) = NoColumn
      BY <1>1, FindIs
<1>5. ASSUME \A c \in ToSet(columns) : ~RivalFor(corpus, role, c)
      PROVE  _find(a, columns) = NoColumn
  <2>1. ASSUME NEW i \in exact PROVE FALSE
    <3>1. i \in DOMAIN a /\ a[i] \in ToSet(columns)
          BY <1>2, <2>1
    <3>2. Loose(a[i])
          BY <3>1
    <3>3. QED BY <1>3, <1>5, <3>1, <3>2
  <2>2. \A j \in DOMAIN columns : ~Loose(columns[j])
        BY <1>2, <1>3, <1>5
  <2> HIDE DEF exact, Loose
  <2>3. QED BY <1>4, <2>1, <2>2
<1>6. ASSUME NEW c \in ToSet(columns), RivalFor(corpus, role, c)
      PROVE  _find(a, columns) \in ToSet(columns)
  <2>1. PICK j \in DOMAIN columns : Loose(columns[j])
        BY <1>2, <1>3, <1>6
  <2>2. CASE exact = {}
        BY <1>2, <1>4, <2>1, <2>2
  <2>3. CASE exact # {}
    <3>1. PICK m \in exact : _find(a, columns) = a[m]
          BY <1>4, <2>3
    <3>2. QED BY <1>2, <3>1
  <2>4. QED BY <2>2, <2>3
<1> HIDE DEF exact, Loose
<1>7. QED BY <1>5, <1>6 DEF a

\* Where the documented columns are, compare_to_documented is silent exactly
\* when no other column is taken for a role before them.
LEMMA SilentWithoutRivals ==
    ASSUME NEW corpus \in DOMAIN DOCUMENTED,
           NEW S, NEW columns \in Seq(S), NoColumn \notin ToSet(columns),
           \A r \in ToSet(Roles) :
              DOCUMENTED[corpus][r] # NoColumn => DOCUMENTED[corpus][r] \in ToSet(columns)
    PROVE  compare_to_documented(corpus, resolve(columns)) = {}
             <=> \A c \in ToSet(columns) : ~Rival(corpus, c)
<1>1. ASSUME NEW role \in ToSet(Roles)
      PROVE  resolve(columns)[role] = DOCUMENTED[corpus][role]
               <=> \A c \in ToSet(columns) : ~RivalFor(corpus, role, c)
  <2>1. resolve(columns)[role] = _find(ROLE_ALIASES[role], columns)
        BY <1>1 DEF resolve
  <2>2. CASE DOCUMENTED[corpus][role] = NoColumn
        BY <2>1, <2>2, UndocumentedLeft
  <2>3. CASE DOCUMENTED[corpus][role] # NoColumn
    <3>1. DOCUMENTED[corpus][role] \in ToSet(columns)
          BY <2>3
    <3>2. QED BY <2>1, <2>3, <3>1, DocumentedTaken
  <2>4. QED BY <2>2, <2>3
<1>2. compare_to_documented(corpus, resolve(columns)) = {}
        <=> \A role \in ToSet(Roles) : resolve(columns)[role] = DOCUMENTED[corpus][role]
      BY Zenon DEF compare_to_documented
<1>3. \A c : Rival(corpus, c) <=> \E role \in ToSet(Roles) : RivalFor(corpus, role, c)
      BY Zenon DEF Rival, RivalFor
<1>4. QED BY <1>1, <1>2, <1>3

\* Before a release a piece's path is resolved to the file it was planned of,
\* which has its rows.
LEMMA FileFound ==
    ASSUME PlanSound, releases = 0, \A S : None \notin Seq(S), NEW i \in 1..Len(pieces)
    PROVE  /\ PathOf(i) # None
           /\ FileAt(PathOf(i)) \in ToSet(tree.files)
           /\ pieces[i].end <= FileAt(PathOf(i)).rows
<1>1. planned \in Trees /\ tree = planned /\ absolute \in BOOLEAN
      BY DEF PlanSound
<1>2. pieces[i] \in Pieces(planned, absolute)
      BY PieceTyped
<1>3. PICK f \in ToSet(planned.files), m \in Nat, n \in Nat :
         /\ pieces[i] = [path |-> (IF absolute THEN PlanMount ELSE <<>>) \o f.path,
                         start |-> m, end |-> n]
         /\ m < n /\ n <= f.rows
      BY PieceOfFile, Zenon
<1> DEFINE q == f.path
<1>4. q \in Seq(ToSet(q)) /\ q # <<>> /\ PlanMount \in Seq(ToSet(PlanMount))
      BY <1>1, TreesAssumption
<1>5. /\ pieces[i].path = (IF absolute THEN PlanMount ELSE <<>>) \o q
      /\ pieces[i].end = n
  <2> DEFINE x == (IF absolute THEN PlanMount ELSE <<>>) \o q
  <2>1. pieces[i] = [path |-> x, start |-> m, end |-> n]
        BY <1>3
  <2> HIDE DEF x
  <2>2. pieces[i].path = x /\ pieces[i].end = n
        BY <2>1
  <2>3. QED BY <2>2 DEF x
<1>6. q # None
      BY <1>4
<1>7. MeantPath(pieces[i]) = q
  <2>1. CASE absolute
    <3>1. pieces[i].path = PlanMount \o q
          BY <1>5, <2>1
    <3> DEFINE S == ToSet(PlanMount) \cup ToSet(q)
    <3>2. PlanMount \in Seq(S) /\ q \in Seq(S) /\ q # <<>>
          BY <1>4, SeqMonotonic
    <3> HIDE DEF q, S
    <3>3. SubSeq(PlanMount \o q, Len(PlanMount) + 1, Len(PlanMount \o q)) = q
          BY <3>2, MountedSuffixes
    <3>4. QED BY <2>1, <3>1, <3>3, Zenon DEF MeantPath
  <2>2. CASE ~absolute
    <3>1. pieces[i].path = <<>> \o q
          BY <1>5, <2>2
    <3> HIDE DEF q
    <3>2. <<>> \o q = q
          BY <1>4, ConcatEmptySeq
    <3>3. QED BY <2>2, <3>1, <3>2 DEF MeantPath
  <2>3. QED BY <1>1, <2>1, <2>2
<1>8. ~absolute => resolve_source(pieces[i].path) = q
  <2> SUFFICES ASSUME ~absolute PROVE resolve_source(pieces[i].path) = q
      OBVIOUS
  <2>1. pieces[i].path = q
        BY <1>7 DEF MeantPath
  <2>2. Exists(q)
        BY <1>1 DEF Exists
  <2> HIDE DEF q
  <2>3. QED BY <2>1, <2>2 DEF resolve_source
<1>9. PathOf(i) = q /\ Exists(q)
  <2> HIDE DEF q
  <2>1. absolute \/ resolve_source(pieces[i].path) # None
        BY <1>6, <1>8
  <2>2. Exists(resolve_source(pieces[i].path)) /\ resolve_source(pieces[i].path) = MeantPath(pieces[i])
        BY <1>1, <1>2, <2>1, ResolvedAsMeant
  <2>3. QED BY <1>7, <2>2 DEF PathOf
<1>10. FileAt(q) = f
  <2>1. \A g \in ToSet(planned.files) : g.path = f.path => g = f
        BY <1>1, <1>3, TreesAssumption
  <2>2. QED BY <1>1, <1>3, <2>1 DEF FileAt
<1>11. QED BY <1>1, <1>3, <1>5, <1>6, <1>9, <1>10

\* What a build returns where it finds everything.
LEMMA BuiltWhere ==
    ASSUME \A i \in DOMAIN pieces :
              /\ PathOf(i) # None
              /\ ~ (pieces[i].end > FileAt(PathOf(i)).rows)
              /\ SchemaOf(i).url # NoColumn,
           \A i, j \in DOMAIN pieces : columns_to_carry(SchemaOf(i)) = columns_to_carry(SchemaOf(j))
    PROVE  build_manifest(pieces) = FlattenSeq(AllRead)
<1> DEFINE path == [i \in DOMAIN pieces |-> resolve_source(pieces[i].path)]
           file == [i \in DOMAIN pieces |-> FileAt(path[i])]
           schema == [i \in DOMAIN pieces |-> resolve(file[i].columns)]
           Rows(i) == [j \in 1..pieces[i].end - pieces[i].start |->
                         Row(file[i], pieces[i].start + j - 1, schema[i])]
           Bad == \/ \E i \in DOMAIN pieces : path[i] = None
                  \/ \E i \in DOMAIN pieces : pieces[i].end > file[i].rows \/ schema[i].url = NoColumn
                  \/ \E i, j \in DOMAIN pieces :
                        columns_to_carry(schema[i]) # columns_to_carry(schema[j])
<1>1. build_manifest(pieces) = IF Bad THEN None ELSE FlattenSeq([i \in DOMAIN pieces |-> Rows(i)])
      BY Zenon DEF build_manifest
<1>2. ASSUME NEW i \in DOMAIN pieces
      PROVE  path[i] = PathOf(i) /\ file[i] = FileAt(PathOf(i)) /\ schema[i] = SchemaOf(i)
      BY Zenon DEF PathOf, SchemaOf
<1> HIDE DEF path, file, schema
<1>3. ~Bad
      BY <1>2, Zenon
<1>4. ASSUME NEW i \in DOMAIN pieces PROVE Rows(i) = RowsRead(i)
      BY <1>2, Zenon DEF RowsRead
<1>5. [i \in DOMAIN pieces |-> Rows(i)] = [i \in DOMAIN pieces |-> RowsRead(i)]
  <2> HIDE DEF Rows
  <2>1. QED BY <1>4, Zenon
<1> HIDE DEF Bad, Rows
<1>6. QED BY <1>1, <1>3, <1>5, Zenon DEF AllRead

\* A clean inspection found the documented columns in every file.
LEMMA InspectedSchemas ==
    ASSUME Inspected, NEW f \in ToSet(tree.files), NEW role \in ToSet(Roles)
    PROVE  resolve(f.columns)[role] = DOCUMENTED[tree.corpus][role] /\ resolve(f.columns).url # NoColumn
<1>1. f.columns = Head(tree.files).columns
      BY DEF Inspected, mismatched
<1>2. QED BY <1>1 DEF Inspected, compare_to_documented

\* A clean inspection keeps its word.
LEMMA InspectedBuilds ==
    ASSUME PlanSound, releases = 0, Inspected, \A S : None \notin Seq(S)
    PROVE  LET documented == DOCUMENTED[tree.corpus]
               wanted == {r \in ToSet(Roles) : documented[r] # NoColumn}
               built == build_manifest(pieces)
           IN  /\ built # None
               /\ \A i \in DOMAIN built :
                     built[i].fields = [role \in wanted |-> documented[role]]
<1> DEFINE documented == DOCUMENTED[tree.corpus]
           wanted == {r \in ToSet(Roles) : documented[r] # NoColumn}
           built == build_manifest(pieces)
<1>1. /\ \E S, U : Parallel(AllRead, AllMeant, S, U)
      /\ DOMAIN pieces = 1..Len(pieces)
      BY ReadParallel
<1>2. ASSUME NEW i \in 1..Len(pieces)
      PROVE  /\ PathOf(i) # None /\ ~ (pieces[i].end > FileAt(PathOf(i)).rows)
             /\ SchemaOf(i).url # NoColumn
             /\ \A role \in ToSet(Roles) : SchemaOf(i)[role] = documented[role]
             /\ columns_to_carry(SchemaOf(i)) = wanted
  <2>1. /\ PathOf(i) # None /\ FileAt(PathOf(i)) \in ToSet(tree.files)
        /\ pieces[i].end <= FileAt(PathOf(i)).rows
        BY FileFound
  <2>2. ~ (pieces[i].end > FileAt(PathOf(i)).rows)
    <3>1. pieces[i].end \in Nat /\ FileAt(PathOf(i)).rows \in Nat
      <4>1. planned \in Trees /\ tree = planned
            BY DEF PlanSound
      <4>2. QED BY <2>1, <4>1, PieceTyped, TreesAssumption
    <3>2. QED BY <2>1, <3>1
  <2>3. \A role \in ToSet(Roles) : SchemaOf(i)[role] = documented[role]
        BY <2>1, InspectedSchemas DEF SchemaOf
  <2>4. SchemaOf(i).url # NoColumn
    <3>1. "url" \in ToSet(Roles)
          BY DEF ToSet, Roles
    <3>2. QED BY <2>1, <3>1, InspectedSchemas DEF SchemaOf
  <2>5. columns_to_carry(SchemaOf(i)) = wanted
        BY <2>3 DEF columns_to_carry
  <2>6. QED BY <2>1, <2>2, <2>3, <2>4, <2>5
<1>3. built = FlattenSeq(AllRead)
  <2> HIDE DEF documented, wanted
  <2>1. /\ \A i \in DOMAIN pieces :
              /\ PathOf(i) # None
              /\ ~ (pieces[i].end > FileAt(PathOf(i)).rows)
              /\ SchemaOf(i).url # NoColumn
        /\ \A i, j \in DOMAIN pieces : columns_to_carry(SchemaOf(i)) = columns_to_carry(SchemaOf(j))
        BY <1>1, <1>2
  <2>2. QED BY <2>1, BuiltWhere
<1>4. built # None
  <2>1. PICK S, U : Parallel(AllRead, AllMeant, S, U)
        BY <1>1
  <2>2. FlattenSeq(AllRead) \in Seq(S)
        BY <2>1, FlattenTogether
  <2>3. QED BY <1>3, <2>2
<1>5. ASSUME NEW i \in DOMAIN built
      PROVE  built[i].fields = [role \in wanted |-> documented[role]]
  <2>1. PICK k \in 1..Len(pieces) : ReadFrom(built[i], MeantRows[i], k)
    <3>1. \A l \in DOMAIN built : \E k \in 1..Len(pieces) : ReadFrom(built[l], MeantRows[l], k)
      <4>1. built = build_manifest(pieces)
            OBVIOUS
      <4> HIDE DEF built
      <4>2. QED BY <1>4, <4>1, BuiltRows
    <3>2. QED BY <3>1
  <2>2. PICK m : built[i] = Row(FileAt(PathOf(k)), m, SchemaOf(k))
        BY <2>1, Zenon DEF ReadFrom
  <2>3. built[i].fields = [role \in columns_to_carry(SchemaOf(k)) |-> SchemaOf(k)[role]]
    <3> HIDE DEF built
    <3>1. QED BY <2>2 DEF Row
  <2>4. columns_to_carry(SchemaOf(k)) = wanted /\ \A role \in wanted : SchemaOf(k)[role] = documented[role]
        BY <1>2
  <2> HIDE DEF built, documented, wanted
  <2>5. QED BY <2>3, <2>4
<1>6. QED BY <1>4, <1>5

\* A corpus whose files hold what dataset_schema.py documents of it gets those
\* roles, unless another column comes first, and then inspect_metadata.py says
\* so; what it finds nothing about is built with them, whatever the corpus's
\* other columns are and whatever lower case is.  None is no sequence.
THEOREM RolesAsDocumented ==
    ASSUME \A S : None \notin Seq(S)
    PROVE  Spec => []DocumentedRoles
<1> DEFINE documented == DOCUMENTED[tree.corpus]
           wanted == {r \in ToSet(Roles) : documented[r] # NoColumn}
           built == build_manifest(pieces)
           Clean(f) == compare_to_documented(tree.corpus, resolve(f.columns)) = {}
           NoRival(f) == \A c \in ToSet(f.columns) : ~Rival(tree.corpus, c)
<1>1. ASSUME IInv, NEW f \in ToSet(tree.files),
             {documented[r] : r \in wanted} \subseteq ToSet(f.columns)
      PROVE  Clean(f) <=> NoRival(f)
  <2>1. /\ tree.corpus \in DOMAIN DOCUMENTED
        /\ f.columns \in Seq(ToSet(f.columns)) /\ NoColumn \notin ToSet(f.columns)
        BY <1>1, TreesAssumption DEF IInv, PlanSound
  <2>2. \A r \in ToSet(Roles) : documented[r] # NoColumn => documented[r] \in ToSet(f.columns)
        BY <1>1
  <2>3. QED BY <2>1, <2>2, SilentWithoutRivals
<1>2. ASSUME IInv, pc = "build", releases = 0, Inspected
      PROVE  /\ built # None
             /\ \A i \in DOMAIN built : built[i].fields = [role \in wanted |-> documented[role]]
      BY <1>2, InspectedBuilds DEF IInv
<1>3. IInv => DocumentedRoles
  <2> SUFFICES ASSUME IInv PROVE DocumentedRoles
      OBVIOUS
  <2>1. \A f \in ToSet(tree.files) :
           {documented[r] : r \in wanted} \subseteq ToSet(f.columns) => (Clean(f) <=> NoRival(f))
    <3> HIDE DEF documented, wanted, Clean, NoRival
    <3>1. QED BY <1>1
  <2>2. pc = "build" /\ releases = 0 /\ Inspected =>
           /\ built # None
           /\ \A i \in DOMAIN built : built[i].fields = [role \in wanted |-> documented[role]]
    <3> HIDE DEF documented, wanted, built
    <3>1. QED BY <1>2
  <2>3. QED BY <2>1, <2>2, Zenon DEF DocumentedRoles
<1>4. QED BY <1>3, Invariance, PTL
=============================================================================
