------------------------ MODULE PooledDownloadProofs ------------------------
(***************************************************************************)
(* The shared pool of net/pooled_download.py for every number of threads,  *)
(* hosts and connections, and every timeout and retry policy.              *)
(*                                                                         *)
(* Placed says that a connection is in one place and that all that is not  *)
(* in use is clean; Control ties what a thread holds to where it is in     *)
(* download_image; Timed bounds the time it has read by the deadline;      *)
(* Slept bounds the sleeps of a row by its attempts.                       *)
(***************************************************************************)
EXTENDS PooledDownload, FiniteSetTheorems, SequenceTheorems, TLAPS

Fits == \A h \in Host : Len(pool[h]) <= MaxPerHost

\* A connection is held once, or in one place of one pool, or unused.
OnePlace ==
    /\ \A t, u \in Thread : conn[t] = conn[u] /\ conn[t] # None => t = u
    /\ \A h \in Host : \A i \in DOMAIN pool[h] : \A t \in Thread : conn[t] # pool[h][i]
    /\ \A g, h \in Host : \A i \in DOMAIN pool[g], j \in DOMAIN pool[h] :
          pool[g][i] = pool[h][j] => g = h /\ i = j

\* What nobody holds has nothing left to read.
Clean == \A c \in Conn : (\A t \in Thread : conn[t] # c) => wire[c] <= 0

Placed == Fits /\ OnePlace /\ Clean

ControlAt(t) ==
    /\ pc[t] = "free" <=> row[t] = None
    /\ pc[t] # "free" => host[t] \in Host
    /\ pc[t] \in {"free", "make", "made", "send"} => conn[t] = None
    /\ pc[t] = "request" => conn[t] # None /\ wire[conn[t]] <= 0
    /\ complete[t] => pc[t] = "finally" /\ conn[t] = None
Control == \A t \in Thread : ControlAt(t)

\* Only the last read of an attempt may cross the deadline, and then there is
\* no stream.  In request() nothing is bounded, and nothing is read yet.
TimedAt(t) ==
    /\ pc[t] \notin {"read", "finally"} => body[t] = 0
    /\ pc[t] # "finally" => outcome[t] = None
    /\ outcome[t] = "stream" \/ (pc[t] = "read" /\ body[t] > 0) => Elapsed(t) < Timeout
    /\ sized[t] /\ body[t] > 0 => Elapsed(t) < 2 * Timeout
Timed == \A t \in Thread : TimedAt(t)

\* The naps after n transient failures.
Naps(n) == IF n <= 1 THEN n ELSE 4 * n - 5

SleptAt(t) == /\ slept[t] <= Naps(attempt[t])
              /\ slept[t] > 0 => temporary[t]
Slept == \A t \in Thread : SleptAt(t)

IInv == TypeOK /\ managers <= 1 /\ Placed /\ Control /\ Timed /\ Slept

-----------------------------------------------------------------------------
(* The operators. *)

\* What is left of a pool when its last connection is taken.
LEMMA FrontProperties ==
    ASSUME NEW S, NEW s \in Seq(S), s # <<>>
    PROVE  /\ Front(s) \in Seq(S) /\ Len(Front(s)) = Len(s) - 1
           /\ Last(s) \in S /\ Len(s) \in DOMAIN s
           /\ \A i \in DOMAIN Front(s) : i \in DOMAIN s /\ i # Len(s) /\ Front(s)[i] = s[i]
<1>1. Len(s) \in Nat \ {0} /\ DOMAIN s = 1..Len(s)
      BY EmptySeq, LenProperties
<1>2. \A i \in 1..Len(s) - 1 : s[i] \in S
      BY <1>1, ElementOfSeq
<1>3. /\ Front(s) \in Seq(S) /\ Len(Front(s)) = Len(s) - 1
      /\ \A i \in 1..Len(s) - 1 : Front(s)[i] = s[i]
      BY <1>1, <1>2, SubSeqProperties DEF Front
<1>4. Last(s) \in S
      BY <1>1, ElementOfSeq DEF Last
<1>5. DOMAIN Front(s) = 1..Len(s) - 1
      BY <1>3, LenProperties
<1>6. QED BY <1>1, <1>3, <1>4, <1>5

\* A sleep is one of three, and the naps of n + 1 failures are one nap more.
LEMMA NapProperties ==
    ASSUME NEW n \in Nat
    PROVE  /\ Nap(n) \in Nat /\ Naps(n) \in Nat
           /\ Naps(n + 1) = Naps(n) + Nap(n)
           /\ Naps(n) <= Naps(n + 1)
<1>1. 2 ^ 0 = 1 /\ 2 ^ 1 = 2 /\ 2 ^ 2 = 4
      OBVIOUS
<1>2. Nap(n) = IF n = 0 THEN 1 ELSE IF n = 1 THEN 2 ELSE 4
  <2>1. CASE n = 0 BY <2>1, <1>1 DEF Nap
  <2>2. CASE n = 1 BY <2>2, <1>1 DEF Nap
  <2>3. CASE n >= 2 BY <2>3, <1>1 DEF Nap
  <2>4. QED BY <2>1, <2>2, <2>3
<1>3. QED BY <1>2 DEF Naps

\* The bound of the run is the naps of all retries, and they only grow.
LEMMA NapsBound ==
    ASSUME NEW n \in 0..Retries
    PROVE  Naps(n) <= WaitBound /\ WaitBound \in Nat
<1>1. 2 ^ 0 = 1 /\ 2 ^ 1 = 2 /\ 2 ^ 2 = 4
      OBVIOUS
<1>2. WaitBound = Naps(Retries)
  <2>1. CASE Retries = 0 BY <2>1, <1>1 DEF WaitBound, Naps
  <2>2. CASE Retries = 1 BY <2>2, <1>1 DEF WaitBound, Naps
  <2>3. CASE Retries = 2 BY <2>3, <1>1 DEF WaitBound, Naps
  <2>4. CASE Retries > 2 BY <2>4, BoundsAssumption DEF WaitBound, Naps
  <2>5. QED BY <2>1, <2>2, <2>3, <2>4, BoundsAssumption
<1>3. QED BY <1>2, BoundsAssumption DEF Naps

-----------------------------------------------------------------------------
(* Connections. *)

\* What a thread does with connections keeps them placed, and is no business
\* of the other threads.
Moved(t) ==
    /\ pool' \in [Host -> Seq(Conn)] /\ conn' \in [Thread -> Conn \cup {None}]
    /\ wire' \in [Conn -> {Closed, 0, Short, Endless}]
    /\ Placed'
    /\ \A u \in Thread \ {t} : /\ conn'[u] = conn[u]
                               /\ conn[u] # None => wire'[conn[u]] = wire[conn[u]]

\* A connection that is given back clean leaves everything in one place.
LEMMA ReleaseKeeps ==
    ASSUME TypeOK, Placed, NEW t \in Thread, NEW w \in {Closed, 0},
           conn[t] # None, host[t] \in Host, Release(t, w)
    PROVE  /\ Moved(t)
           /\ conn'[t] = None
<1> DEFINE c == conn[t] h == host[t]
<1>1. c \in Conn /\ h \in Host /\ None \notin Conn
      BY RowAssumption DEF TypeOK
<1>2. conn' = [conn EXCEPT ![t] = None] /\ conn \in [Thread -> Conn \cup {None}]
      BY DEF Release, TypeOK
<1>3. \A u \in Thread \ {t} : conn[u] # c
      BY DEF Placed, OnePlace
<1>4. CASE /\ Len(pool[h]) < MaxPerHost
           /\ pool' = [pool EXCEPT ![h] = Append(@, c)] /\ wire' = [wire EXCEPT ![c] = w]
  <2>1. pool[h] \in Seq(Conn) /\ Len(pool[h]) \in Nat /\ DOMAIN pool[h] = 1..Len(pool[h])
        BY <1>1, LenProperties DEF TypeOK
  <2>2. /\ pool'[h] \in Seq(Conn) /\ Len(pool'[h]) = Len(pool[h]) + 1
        /\ \A i \in 1..Len(pool[h]) : pool'[h][i] = pool[h][i]
        /\ pool'[h][Len(pool[h]) + 1] = c
        BY <1>1, <1>4, <2>1, AppendProperties DEF TypeOK
  <2>3. DOMAIN pool'[h] = 1..Len(pool[h]) + 1
        BY <2>2, LenProperties
  <2>4. \A g \in Host \ {h} : pool'[g] = pool[g]
        BY <1>4 DEF TypeOK
  <2>5. pool' \in [Host -> Seq(Conn)]
        BY <1>4, <2>2 DEF TypeOK
  <2>6. wire' \in [Conn -> {Closed, 0, Short, Endless}]
        BY <1>4 DEF TypeOK
  <2>7. Fits'
        BY <1>4, <2>1, <2>2, <2>4, BoundsAssumption DEF Placed, Fits
  <2>8. \A u \in Thread : conn'[u] # c /\ (u # t => conn'[u] = conn[u])
        BY <1>1, <1>2, <1>3
  <2>9. \A g \in Host : \A i \in DOMAIN pool'[g] :
           \/ i \in DOMAIN pool[g] /\ pool'[g][i] = pool[g][i]
           \/ g = h /\ i = Len(pool[h]) + 1 /\ pool'[g][i] = c
    <3> SUFFICES ASSUME NEW g \in Host, NEW i \in DOMAIN pool'[g]
                 PROVE  \/ i \in DOMAIN pool[g] /\ pool'[g][i] = pool[g][i]
                        \/ g = h /\ i = Len(pool[h]) + 1 /\ pool'[g][i] = c
        OBVIOUS
    <3>1. CASE g = h
      <4>1. i \in 1..Len(pool[h]) \/ i = Len(pool[h]) + 1
            BY <2>1, <2>3, <3>1
      <4>2. QED BY <2>1, <2>2, <3>1, <4>1
    <3>2. CASE g # h
          BY <2>4, <3>2
    <3>3. QED BY <3>1, <3>2
  <2>10. \A g \in Host : \A i \in DOMAIN pool[g] : pool[g][i] # c /\ pool[g][i] # None
    <3>1. \A g \in Host : \A i \in DOMAIN pool[g] : pool[g][i] \in Conn
          BY LenProperties, ElementOfSeq DEF TypeOK
    <3>2. QED BY <1>1, <3>1 DEF Placed, OnePlace
  <2>11. OnePlace'
    <3>1. \A u, v \in Thread : conn'[u] = conn'[v] /\ conn'[u] # None => u = v
          BY <1>2 DEF Placed, OnePlace
    <3>2. \A g \in Host : \A i \in DOMAIN pool'[g] : \A u \in Thread : conn'[u] # pool'[g][i]
          BY <1>2, <2>8, <2>9, <2>10 DEF Placed, OnePlace
    <3>3. \A f, g \in Host : \A i \in DOMAIN pool'[f], j \in DOMAIN pool'[g] :
             pool'[f][i] = pool'[g][j] => f = g /\ i = j
          BY <2>9, <2>10 DEF Placed, OnePlace
    <3>4. QED BY <3>1, <3>2, <3>3 DEF OnePlace
  <2>12. Clean'
    <3> SUFFICES ASSUME NEW d \in Conn, \A u \in Thread : conn'[u] # d
                 PROVE  wire'[d] <= 0
        BY DEF Clean
    <3>1. CASE d = c
          BY <3>1, <1>1, <1>4 DEF TypeOK, Closed
    <3>2. CASE d # c
      <4>1. \A u \in Thread : conn[u] # d
            BY <1>2, <3>2
      <4>2. QED BY <1>4, <3>2, <4>1 DEF Placed, Clean, TypeOK
    <3>3. QED BY <3>1, <3>2
  <2>13. \A u \in Thread \ {t} : conn[u] # None => wire'[conn[u]] = wire[conn[u]]
        BY <1>3, <1>4 DEF TypeOK
  <2>14. QED BY <1>2, <2>5, <2>6, <2>7, <2>11, <2>12, <2>13 DEF Placed, Moved
<1>5. CASE wire' = [wire EXCEPT ![c] = Closed] /\ UNCHANGED pool
  <2>1. wire' \in [Conn -> {Closed, 0, Short, Endless}] /\ pool' \in [Host -> Seq(Conn)]
        BY <1>5 DEF TypeOK
  <2>2. Fits'
        BY <1>5 DEF Placed, Fits
  <2>3. \A g \in Host : \A i \in DOMAIN pool[g] : pool[g][i] # None
        BY <1>1, ElementOfSeq, LenProperties DEF TypeOK
  <2>4. OnePlace'
        BY <1>2, <1>5, <2>3 DEF Placed, OnePlace
  <2>5. Clean'
        BY <1>1, <1>2, <1>3, <1>5 DEF Placed, Clean, TypeOK, Closed
  <2>6. \A u \in Thread \ {t} : conn[u] # None => wire'[conn[u]] = wire[conn[u]]
        BY <1>3, <1>5 DEF TypeOK
  <2>7. QED BY <1>2, <2>1, <2>2, <2>4, <2>5, <2>6 DEF Placed, Moved
<1>6. QED BY <1>4, <1>5 DEF Release, Put

\* What a thread reads, and what a server sends it, is on its connection only.
LEMMA WireKeeps ==
    ASSUME TypeOK, Placed, NEW t \in Thread, NEW w \in {Closed, 0, Short, Endless},
           conn[t] # None, wire' = [wire EXCEPT ![conn[t]] = w], UNCHANGED <<pool, conn>>
    PROVE  Moved(t)
<1>1. conn[t] \in Conn
      BY DEF TypeOK
<1>2. Fits' /\ OnePlace'
      BY DEF Placed, Fits, OnePlace
<1>3. Clean'
      BY <1>1 DEF Placed, Clean, TypeOK
<1>4. QED BY <1>1, <1>2, <1>3 DEF Placed, OnePlace, TypeOK, Moved

\* There are more connections than the other threads and the pools can have,
\* so a new one can be made.
LEMMA UnusedLeft ==
    ASSUME TypeOK, Placed, NEW t \in Thread, conn[t] = None
    PROVE  Unused # {}
<1> DEFINE Used == Conn \ Unused
           Others == {None} \X (Thread \ {t})
           Places == Host \X (1..MaxPerHost)
           At(c, p) == \/ p \in Others /\ conn[p[2]] = c
                       \/ p \in Places /\ p[2] \in DOMAIN pool[p[1]] /\ pool[p[1]][p[2]] = c
           where == [c \in Used |-> CHOOSE p \in Others \cup Places : At(c, p)]
<1>1. ASSUME NEW c \in Used PROVE \E p \in Others \cup Places : At(c, p)
  <2>1. CASE c \in Held
    <3>1. PICK u \in Thread : conn[u] = c /\ c # None
          BY <2>1 DEF Held
    <3>2. <<None, u>> \in Others /\ At(c, <<None, u>>)
          BY <3>1
    <3>3. QED BY <3>2
  <2>2. CASE c \notin Held
    <3>1. PICK h \in Host : c \in Idle(h)
          BY <1>1, <2>2 DEF Unused
    <3>2. PICK i \in DOMAIN pool[h] : pool[h][i] = c
          BY <3>1 DEF Idle, ToSet
    <3>3. i \in 1..MaxPerHost
      <4>1. pool[h] \in Seq(Conn) /\ Len(pool[h]) <= MaxPerHost
            BY DEF TypeOK, Placed, Fits
      <4>2. QED BY <3>2, <4>1, LenProperties, BoundsAssumption
    <3>4. <<h, i>> \in Places /\ At(c, <<h, i>>)
          BY <3>2, <3>3
    <3>5. QED BY <3>4
  <2>3. QED BY <2>1, <2>2
<1>2. where \in [Used -> Others \cup Places] /\ \A c \in Used : At(c, where[c])
      BY <1>1
<1>3. ASSUME NEW c \in Used, NEW d \in Used, NEW p, At(c, p), At(d, p) PROVE c = d
  <2>1. \A q \in Places : q \notin Others
        BY RowAssumption
  <2>2. QED BY <1>3, <2>1
<1>4. where \in Injection(Used, Others \cup Places)
  <2>1. IsInjective(where)
    <3> SUFFICES ASSUME NEW c \in Used, NEW d \in Used, where[c] = where[d]
                 PROVE  c = d
        BY <1>2 DEF IsInjective
    <3>1. At(c, where[c]) /\ At(d, where[c])
          BY <1>2
    <3> HIDE DEF At, where
    <3>2. QED BY <1>3, <3>1
  <2>2. QED BY <1>2, <2>1 DEF Injection
<1>5. /\ IsFiniteSet(Others)
      /\ Cardinality(Others) = Cardinality(Thread) - 1
  <2>1. IsFiniteSet(Thread \ {t}) /\ Cardinality(Thread \ {t}) = Cardinality(Thread) - 1
        BY ConnAssumption, FS_RemoveElement
  <2>2. IsFiniteSet({None}) /\ Cardinality({None}) = 1
        BY FS_Singleton
  <2>3. /\ IsFiniteSet(Others)
        /\ Cardinality(Others) = Cardinality({None}) * Cardinality(Thread \ {t})
        BY <2>1, <2>2, FS_Product
  <2>4. Cardinality(Thread) \in Nat
        BY ConnAssumption, FS_CardinalityType
  <2>5. QED BY <2>1, <2>2, <2>3, <2>4
<1>6. /\ IsFiniteSet(Places)
      /\ Cardinality(Places) = Cardinality(Host) * MaxPerHost
  <2>1. IsFiniteSet(1..MaxPerHost) /\ Cardinality(1..MaxPerHost) = MaxPerHost
        BY BoundsAssumption, FS_Interval
  <2>2. QED BY <2>1, ConnAssumption, FS_Product
<1>7. /\ IsFiniteSet(Others \cup Places)
      /\ Cardinality(Others \cup Places) <= Cardinality(Others) + Cardinality(Places)
  <2>1. /\ IsFiniteSet(Others \cup Places)
        /\ Cardinality(Others \cup Places) =
              Cardinality(Others) + Cardinality(Places) - Cardinality(Others \cap Places)
        BY <1>5, <1>6, FS_Union
  <2>2. Cardinality(Others \cap Places) \in Nat
        BY <1>5, FS_Intersection, FS_CardinalityType
  <2>3. Cardinality(Others) \in Nat /\ Cardinality(Places) \in Nat
        BY <1>5, <1>6, FS_CardinalityType
  <2>4. QED BY <2>1, <2>2, <2>3
<1>8. Cardinality(Used) <= Cardinality(Others \cup Places)
      BY <1>4, <1>7, FS_Injection
<1>9. Cardinality(Used) < Cardinality(Conn)
  <2>1. /\ Cardinality(Used) \in Nat /\ Cardinality(Conn) \in Nat
        /\ Cardinality(Thread) \in Nat /\ Cardinality(Host) * MaxPerHost \in Nat
        /\ Cardinality(Others \cup Places) \in Nat
    <3>1. Used \in SUBSET Conn
          OBVIOUS
    <3>2. IsFiniteSet(Used)
          BY <3>1, ConnAssumption, FS_Subset
    <3>3. QED BY <3>2, <1>6, <1>7, ConnAssumption, FS_CardinalityType
  <2>2. Cardinality(Used) <= Cardinality(Thread) - 1 + Cardinality(Host) * MaxPerHost
        BY <1>5, <1>6, <1>7, <1>8, <2>1
  <2>3. QED BY <2>1, <2>2, ConnAssumption
<1>10. CASE Unused = {}
  <2>1. Used = Conn
        BY <1>10
  <2>2. Cardinality(Conn) \in Nat
        BY ConnAssumption, FS_CardinalityType
  <2> HIDE DEF Used
  <2>3. QED BY <2>1, <2>2, <1>9
<1>11. QED BY <1>10

\* A request takes a connection nobody else has, with nothing left to read.
LEMMA ConnectKeeps ==
    ASSUME TypeOK, Placed, Control, NEW t \in Thread, Connect(t)
    PROVE  /\ Moved(t)
           /\ conn'[t] # None /\ wire'[conn'[t]] <= 0
<1> DEFINE h == host[t]
<1>1. h \in Host /\ conn[t] = None /\ None \notin Conn
      BY RowAssumption DEF Connect, Control, ControlAt
<1>2. Unused # {}
      BY <1>1, UnusedLeft
<1>3. pool[h] \in Seq(Conn) /\ DOMAIN pool[h] = 1..Len(pool[h]) /\ Len(pool[h]) \in Nat
      BY <1>1, LenProperties DEF TypeOK
<1>4. PICK c : /\ conn' = [conn EXCEPT ![t] = c]
               /\ wire' \in {wire, [wire EXCEPT ![c] = IF @ > 0 THEN Closed ELSE @]}
               /\ \/ pool[h] = <<>> /\ c \in Unused
                  \/ pool[h] # <<>> /\ c = Last(pool[h])
      BY <1>2 DEF Connect
<1>5. /\ c \in Conn /\ \A u \in Thread : conn[u] # c
      /\ \A g \in Host : \A i \in DOMAIN pool[g] :
            pool[g][i] = c => pool[h] # <<>> /\ g = h /\ i = Len(pool[h])
  <2>1. CASE pool[h] = <<>> /\ c \in Unused
    <3>1. c \in Conn /\ c \notin Held /\ \A g \in Host : c \notin Idle(g)
          BY <2>1 DEF Unused
    <3>2. QED BY <3>1, <1>1 DEF Held, Idle, ToSet
  <2>2. CASE pool[h] # <<>> /\ c = Last(pool[h])
    <3>1. c \in Conn /\ Len(pool[h]) \in DOMAIN pool[h] /\ pool[h][Len(pool[h])] = c
          BY <1>3, <2>2, FrontProperties DEF Last
    <3>2. QED BY <1>1, <2>2, <3>1 DEF Placed, OnePlace
  <2>3. QED BY <1>4, <2>1, <2>2
<1>6. wire[c] <= 0
      BY <1>5 DEF Placed, Clean
<1>7. wire' = wire
  <2>1. ~(wire[c] > 0)
    <3>1. wire[c] \in {Closed, 0, Short, Endless}
          BY <1>5 DEF TypeOK
    <3>2. wire[c] \in Int
          BY <3>1 DEF Closed, Short, Endless
    <3>3. QED BY <1>6, <3>2
  <2>2. [wire EXCEPT ![c] = wire[c]] = wire
        BY DEF TypeOK
  <2>3. QED BY <1>4, <2>1, <2>2
<1>8. /\ pool' \in [Host -> Seq(Conn)] /\ Fits'
      /\ \A g \in Host : \A i \in DOMAIN pool'[g] :
            i \in DOMAIN pool[g] /\ pool'[g][i] = pool[g][i] /\ pool'[g][i] # c
  <2>1. CASE pool[h] = <<>>
    <3>1. pool' = pool
          BY <2>1, <1>1 DEF Connect, TypeOK
    <3>2. QED BY <3>1, <2>1, <1>5 DEF TypeOK, Placed, Fits
  <2>2. CASE pool[h] # <<>>
    <3>1. pool' = [pool EXCEPT ![h] = Front(pool[h])]
          BY <2>2, <1>1 DEF Connect, TypeOK
    <3>2. /\ Front(pool[h]) \in Seq(Conn) /\ Len(Front(pool[h])) = Len(pool[h]) - 1
          /\ \A i \in DOMAIN Front(pool[h]) :
                i \in DOMAIN pool[h] /\ i # Len(pool[h]) /\ Front(pool[h])[i] = pool[h][i]
          BY <1>3, <2>2, FrontProperties
    <3>3. pool'[h] = Front(pool[h]) /\ \A g \in Host \ {h} : pool'[g] = pool[g]
          BY <1>1, <3>1 DEF TypeOK
    <3>4. Fits'
          BY <1>3, <3>2, <3>3, BoundsAssumption DEF Placed, Fits
    <3>5. \A g \in Host : \A i \in DOMAIN pool'[g] :
            i \in DOMAIN pool[g] /\ pool'[g][i] = pool[g][i] /\ pool'[g][i] # c
          BY <1>5, <3>2, <3>3
    <3>6. QED BY <3>1, <3>2, <3>4, <3>5 DEF TypeOK
  <2>3. QED BY <2>1, <2>2
<1>9. OnePlace'
  <2>1. \A u, v \in Thread : conn'[u] = conn'[v] /\ conn'[u] # None => u = v
        BY <1>4, <1>5 DEF Placed, OnePlace, TypeOK
  <2>2. \A g \in Host : \A i \in DOMAIN pool'[g] : \A u \in Thread : conn'[u] # pool'[g][i]
        BY <1>4, <1>8 DEF Placed, OnePlace, TypeOK
  <2>3. \A f, g \in Host : \A i \in DOMAIN pool'[f], j \in DOMAIN pool'[g] :
             pool'[f][i] = pool'[g][j] => f = g /\ i = j
        BY <1>8 DEF Placed, OnePlace
  <2>4. QED BY <2>1, <2>2, <2>3 DEF OnePlace
<1>10. Clean'
      BY <1>1, <1>4, <1>6, <1>7 DEF Placed, Clean, TypeOK
<1>11. QED
      BY <1>1, <1>4, <1>5, <1>6, <1>7, <1>8, <1>9, <1>10 DEF Placed, TypeOK, Moved

-----------------------------------------------------------------------------
(* The steps of a thread. *)

\* A step of one thread leaves the others where they are.
Frame(t) ==
    \A u \in Thread \ {t} :
        /\ pc'[u] = pc[u] /\ row'[u] = row[u] /\ host'[u] = host[u]
        /\ sized'[u] = sized[u] /\ complete'[u] = complete[u]
        /\ headers'[u] = headers[u] /\ body'[u] = body[u] /\ hops'[u] = hops[u]
        /\ outcome'[u] = outcome[u] /\ attempt'[u] = attempt[u]
        /\ temporary'[u] = temporary[u] /\ slept'[u] = slept[u]
        /\ conn'[u] = conn[u] /\ (conn[u] # None => wire'[conn[u]] = wire[conn[u]])

\* It is enough to look at the thread that steps.
LEMMA FrameKeeps ==
    ASSUME IInv, NEW t \in Thread, Frame(t), TypeOK', managers' <= 1, Placed',
           ControlAt(t)', TimedAt(t)', SleptAt(t)'
    PROVE  IInv'
<1>1. Control'
      BY DEF IInv, Control, ControlAt, Frame
<1>2. Timed'
      BY DEF IInv, Timed, TimedAt, Elapsed, Frame
<1>3. Slept'
      BY DEF IInv, Slept, SleptAt, Frame
<1>4. QED BY <1>1, <1>2, <1>3 DEF IInv

\* What the parts of the invariant say of one thread.
LEMMA AtThread ==
    ASSUME IInv, NEW t \in Thread
    PROVE  TypeOK /\ managers <= 1 /\ Placed /\ ControlAt(t) /\ TimedAt(t) /\ SleptAt(t)
BY DEF IInv, Control, Timed, Slept

\* Steps that touch no connection.
LEMMA PlacedUnchanged ==
    ASSUME Placed, UNCHANGED <<pool, wire, conn>> PROVE Placed'
BY DEF Placed, Fits, OnePlace, Clean

\* A thread begins a row: it holds nothing and has spent nothing.
LEMMA TakeKeeps ==
    ASSUME IInv, NEW t \in Thread, NEW r \in Row, Take(t, r)
    PROVE  IInv'
<1> USE RowAssumption, BoundsAssumption DEF Take, Call, Goto, shared
<1>1. TypeOK /\ managers <= 1 /\ Placed /\ ControlAt(t) /\ TimedAt(t) /\ SleptAt(t)
      BY AtThread
<1>2. TypeOK'
  <2>1. HostOf[r] \in Host
        OBVIOUS
  <2>2. /\ row' \in [Thread -> Row \cup {None}] /\ host' \in [Thread -> Host \cup {None}]
        BY <1>1, <2>1 DEF TypeOK
  <2>3. pc' \in [Thread -> {"free", "make", "made", "send", "request", "read", "finally"}]
        BY <1>1 DEF TypeOK
  <2>4. QED BY <1>1, <2>2, <2>3 DEF TypeOK
<1>3. Placed' /\ managers' <= 1
      BY <1>1, PlacedUnchanged
<1>4. Frame(t)
      BY <1>1 DEF TypeOK, Frame
<1>5. ControlAt(t)'
      BY <1>1 DEF TypeOK, ControlAt
<1>6. TimedAt(t)' /\ SleptAt(t)'
      BY <1>1 DEF TypeOK, TimedAt, Elapsed, SleptAt
<1>7. QED BY <1>2, <1>3, <1>4, <1>5, <1>6, FrameKeeps

\* The manager is made once, behind the lock.
LEMMA ManagerKeeps ==
    ASSUME IInv, NEW t \in Thread, TakeLock(t) \/ MakeManager(t)
    PROVE  IInv'
<1> USE RowAssumption, BoundsAssumption DEF TakeLock, MakeManager, Made, Goto
<1>1. TypeOK /\ managers <= 1 /\ Placed /\ ControlAt(t) /\ TimedAt(t) /\ SleptAt(t)
      BY AtThread
<1>2. TypeOK'
  <2>1. CASE TakeLock(t)
        BY <1>1, <2>1 DEF TypeOK
  <2>2. CASE MakeManager(t)
    <3>1. pc' \in [Thread -> {"free", "make", "made", "send", "request", "read", "finally"}]
          BY <1>1, <2>2 DEF TypeOK
    <3>2. managers' \in Nat
          BY <1>1, <2>2 DEF TypeOK
    <3>3. QED BY <1>1, <2>2, <3>1, <3>2 DEF TypeOK
  <2>3. QED BY <2>1, <2>2
<1>3. Placed' /\ managers' <= 1
      BY <1>1, PlacedUnchanged DEF TypeOK
<1>4. Frame(t)
      BY <1>1 DEF TypeOK, Frame
<1>5. ControlAt(t)'
      BY <1>1 DEF TypeOK, ControlAt
<1>6. TimedAt(t)' /\ SleptAt(t)'
      BY <1>1 DEF TypeOK, TimedAt, Elapsed, SleptAt
<1>7. QED BY <1>2, <1>3, <1>4, <1>5, <1>6, FrameKeeps

\* An attempt found past its deadline is a timeout, never a stream.
LEMMA ExpireKeeps ==
    ASSUME IInv, NEW t \in Thread, Expire(t)
    PROVE  IInv'
<1> USE RowAssumption, BoundsAssumption DEF Expire, Return, Goto, shared
<1>1. TypeOK /\ managers <= 1 /\ Placed /\ ControlAt(t) /\ TimedAt(t) /\ SleptAt(t)
      BY AtThread
<1>2. TypeOK'
      BY <1>1 DEF TypeOK, Failure
<1>3. Placed' /\ managers' <= 1
      BY <1>1, PlacedUnchanged
<1>4. Frame(t)
      BY <1>1 DEF TypeOK, Frame
<1>5. ControlAt(t)'
      BY <1>1 DEF TypeOK, ControlAt
<1>6. TimedAt(t)' /\ SleptAt(t)'
      BY <1>1 DEF TypeOK, TimedAt, Elapsed, SleptAt
<1>7. QED BY <1>2, <1>3, <1>4, <1>5, <1>6, FrameKeeps

\* A request begins with a connection that is clean, and before any read.
LEMMA ConnectStep ==
    ASSUME IInv, NEW t \in Thread, Connect(t)
    PROVE  IInv'
<1> USE RowAssumption, BoundsAssumption DEF Goto
<1>1. TypeOK /\ managers <= 1 /\ Placed /\ ControlAt(t) /\ TimedAt(t) /\ SleptAt(t)
      BY AtThread
<1>2. /\ Moved(t)
      /\ conn'[t] # None /\ wire'[conn'[t]] <= 0
      BY ConnectKeeps DEF IInv
<1>3. /\ pc[t] = "send" /\ pc' = [pc EXCEPT ![t] = "request"]
      /\ UNCHANGED <<managers, lock, result, row, host, sized, complete, headers, body, hops,
                     outcome, attempt, temporary, slept>>
      BY DEF Connect
<1>4. TypeOK'
      BY <1>1, <1>2, <1>3 DEF TypeOK, Moved
<1>5. Frame(t)
      BY <1>1, <1>2, <1>3 DEF TypeOK, Moved, Frame
<1>6. ControlAt(t)'
      BY <1>1, <1>2, <1>3 DEF TypeOK, ControlAt
<1>7. TimedAt(t)' /\ SleptAt(t)'
      BY <1>1, <1>3 DEF TypeOK, TimedAt, Elapsed, SleptAt
<1>8. QED BY <1>1, <1>2, <1>3, <1>4, <1>5, <1>6, <1>7, FrameKeeps DEF Moved

\* The connection of a failed request goes back closed, after any time.
LEMMA RequestFailsKeeps ==
    ASSUME IInv, NEW t \in Thread, RequestFails(t)
    PROVE  IInv'
<1> USE RowAssumption, BoundsAssumption DEF Goto
<1>1. TypeOK /\ managers <= 1 /\ Placed /\ ControlAt(t) /\ TimedAt(t) /\ SleptAt(t)
      BY AtThread
<1>2. PICK e \in Failure, n \in headers[t]..Timeout :
         /\ headers' = [headers EXCEPT ![t] = n]
         /\ outcome' = [outcome EXCEPT ![t] = e]
      BY DEF RequestFails, Wait, Return
<1>3. /\ pc[t] = "request" /\ pc' = [pc EXCEPT ![t] = "finally"]
      /\ hops' = [hops EXCEPT ![t] = 0] /\ Release(t, Closed)
      /\ UNCHANGED <<managers, lock, result, row, host, sized, complete, body, attempt,
                     temporary, slept>>
      BY DEF RequestFails, Return
<1>4. conn[t] # None /\ host[t] \in Host
      BY <1>1, <1>3 DEF ControlAt
<1>5. /\ Moved(t)
      /\ conn'[t] = None
      BY <1>1, <1>3, <1>4, ReleaseKeeps
<1>6. TypeOK'
  <2>1. headers' \in [Thread -> 0..Timeout] /\ hops' \in [Thread -> 0..Redirects]
    <3>1. n \in 0..Timeout
          BY <1>1, <1>2 DEF TypeOK
    <3>2. QED BY <1>1, <1>2, <1>3, <3>1 DEF TypeOK
  <2>2. outcome' \in [Thread -> {None, "stream"} \cup Failure]
        BY <1>1, <1>2 DEF TypeOK
  <2>3. pc' \in [Thread -> {"free", "make", "made", "send", "request", "read", "finally"}]
        BY <1>1, <1>3 DEF TypeOK
  <2>4. QED BY <1>1, <1>3, <1>5, <2>1, <2>2, <2>3 DEF TypeOK, Moved
<1>7. Frame(t)
      BY <1>1, <1>2, <1>3, <1>5 DEF TypeOK, Moved, Frame
<1>8. ControlAt(t)'
      BY <1>1, <1>3, <1>5 DEF TypeOK, ControlAt
<1>9. TimedAt(t)'
  <2>1. body'[t] = 0 /\ outcome'[t] # "stream" /\ pc'[t] = "finally"
        BY <1>1, <1>2, <1>3 DEF TypeOK, TimedAt, Failure
  <2>2. QED BY <2>1 DEF TimedAt
<1>10. SleptAt(t)'
      BY <1>1, <1>3 DEF SleptAt
<1>11. QED BY <1>1, <1>3, <1>5, <1>6, <1>7, <1>8, <1>9, <1>10, FrameKeeps DEF Moved

\* The connection of a redirect goes back read or closed, after any time.
LEMMA RedirectKeeps ==
    ASSUME IInv, NEW t \in Thread, Redirect(t)
    PROVE  IInv'
<1> USE RowAssumption, BoundsAssumption DEF Goto
<1>1. TypeOK /\ managers <= 1 /\ Placed /\ ControlAt(t) /\ TimedAt(t) /\ SleptAt(t)
      BY AtThread
<1>2. PICK w \in {0, Closed}, n \in headers[t]..Timeout, h \in Host :
         /\ Release(t, w) /\ headers' = [headers EXCEPT ![t] = n]
         /\ host' = [host EXCEPT ![t] = h]
      BY DEF Redirect, Wait
<1>3. /\ pc[t] = "request" /\ pc' = [pc EXCEPT ![t] = "send"]
      /\ hops[t] < Redirects /\ hops' = [hops EXCEPT ![t] = @ + 1]
      /\ UNCHANGED <<managers, lock, result, row, sized, complete, body, outcome, attempt,
                     temporary, slept>>
      BY DEF Redirect
<1>4. conn[t] # None /\ host[t] \in Host
      BY <1>1, <1>3 DEF ControlAt
<1>5. /\ Moved(t)
      /\ conn'[t] = None
      BY <1>1, <1>2, <1>4, ReleaseKeeps
<1>6. TypeOK'
  <2>1. hops[t] + 1 \in 0..Redirects
        BY <1>1, <1>3 DEF TypeOK
  <2>2. headers' \in [Thread -> 0..Timeout] /\ hops' \in [Thread -> 0..Redirects]
    <3>1. n \in 0..Timeout
          BY <1>1, <1>2 DEF TypeOK
    <3>2. QED BY <1>1, <1>2, <1>3, <2>1, <3>1 DEF TypeOK
  <2>3. host' \in [Thread -> Host \cup {None}]
        BY <1>1, <1>2 DEF TypeOK
  <2>4. pc' \in [Thread -> {"free", "make", "made", "send", "request", "read", "finally"}]
        BY <1>1, <1>3 DEF TypeOK
  <2>5. QED BY <1>1, <1>3, <1>5, <2>2, <2>3, <2>4 DEF TypeOK, Moved
<1>7. Frame(t)
      BY <1>1, <1>2, <1>3, <1>5 DEF TypeOK, Moved, Frame
<1>8. ControlAt(t)'
      BY <1>1, <1>2, <1>3, <1>5 DEF TypeOK, ControlAt
<1>9. TimedAt(t)'
  <2>1. body'[t] = 0 /\ pc'[t] = "send" /\ outcome'[t] = None
        BY <1>1, <1>3 DEF TypeOK, TimedAt
  <2>2. QED BY <2>1 DEF TimedAt
<1>10. SleptAt(t)'
      BY <1>1, <1>3 DEF SleptAt
<1>11. QED BY <1>1, <1>3, <1>5, <1>6, <1>7, <1>8, <1>9, <1>10, FrameKeeps DEF Moved

\* A connection that is given back, or was given back before.
LEMMA GivenBack ==
    ASSUME TypeOK, Placed, NEW t \in Thread, ControlAt(t), pc[t] # "free", NEW w \in {Closed, 0},
           IF conn[t] = None THEN UNCHANGED <<pool, wire, conn>> ELSE Release(t, w)
    PROVE  Moved(t) /\ conn'[t] = None
<1>1. CASE conn[t] = None
      BY <1>1, PlacedUnchanged DEF Moved, TypeOK
<1>2. CASE conn[t] # None
      BY <1>2, ReleaseKeeps DEF ControlAt
<1>3. QED BY <1>1, <1>2

\* An answer, taken or refused, comes after any time, and before any read.
LEMMA AnswerKeeps ==
    ASSUME IInv, NEW t \in Thread, Refuse(t) \/ Accept(t)
    PROVE  IInv'
<1> USE RowAssumption, BoundsAssumption DEF Goto
<1>1. TypeOK /\ managers <= 1 /\ Placed /\ ControlAt(t) /\ TimedAt(t) /\ SleptAt(t)
      BY AtThread
<1>2. PICK w \in {0, Short, Endless}, k \in BOOLEAN, n \in headers[t]..Timeout :
         /\ wire' = [wire EXCEPT ![conn[t]] = w] /\ sized' = [sized EXCEPT ![t] = k]
         /\ headers' = [headers EXCEPT ![t] = n]
      BY DEF Refuse, Accept, Answer, Wait
<1>3. /\ pc[t] = "request" /\ hops' = [hops EXCEPT ![t] = 0]
      /\ UNCHANGED <<managers, lock, pool, result, row, host, conn, complete, body, attempt,
                     temporary, slept>>
      BY DEF Refuse, Accept, Answer
<1>4. \/ /\ pc' = [pc EXCEPT ![t] = "finally"] /\ outcome' = [outcome EXCEPT ![t] = "other"]
      \/ pc' = [pc EXCEPT ![t] = "read"] /\ outcome' = outcome
      BY DEF Refuse, Accept, Return
<1>5. conn[t] # None /\ Moved(t)
      BY <1>1, <1>2, <1>3, WireKeeps DEF ControlAt
<1>6. TypeOK'
  <2>1. sized' \in [Thread -> BOOLEAN] /\ hops' \in [Thread -> 0..Redirects]
        BY <1>1, <1>2, <1>3 DEF TypeOK
  <2>2. headers' \in [Thread -> 0..Timeout]
    <3>1. n \in 0..Timeout
          BY <1>1, <1>2 DEF TypeOK
    <3>2. QED BY <1>1, <1>2, <3>1 DEF TypeOK
  <2>3. outcome' \in [Thread -> {None, "stream"} \cup Failure]
        BY <1>1, <1>4 DEF TypeOK, Failure
  <2>4. pc' \in [Thread -> {"free", "make", "made", "send", "request", "read", "finally"}]
        BY <1>1, <1>4 DEF TypeOK
  <2>5. QED BY <1>1, <1>3, <1>5, <2>1, <2>2, <2>3, <2>4 DEF TypeOK, Moved
<1>7. Frame(t)
  <2>1. \A u \in Thread \ {t} : pc'[u] = pc[u] /\ outcome'[u] = outcome[u]
        BY <1>1, <1>4 DEF TypeOK
  <2>2. QED BY <1>1, <1>2, <1>3, <1>5, <2>1 DEF TypeOK, Moved, Frame
<1>8. ControlAt(t)'
  <2>1. pc'[t] \in {"read", "finally"}
        BY <1>1, <1>4 DEF TypeOK
  <2>2. QED BY <1>1, <1>3, <2>1 DEF ControlAt
<1>9. TimedAt(t)'
  <2>1. body'[t] = 0
        BY <1>1, <1>3 DEF TimedAt
  <2>2. \/ pc'[t] = "finally" /\ outcome'[t] = "other"
        \/ pc'[t] = "read" /\ outcome'[t] = None
        BY <1>1, <1>3, <1>4 DEF TypeOK, TimedAt
  <2>3. QED BY <2>1, <2>2 DEF TimedAt
<1>10. SleptAt(t)'
      BY <1>1, <1>3 DEF SleptAt
<1>11. QED BY <1>1, <1>3, <1>6, <1>7, <1>8, <1>9, <1>10, <1>5, FrameKeeps DEF Moved

\* A read that begins before the deadline ends within one more timeout, goes on
\* only before the deadline, and is a stream only when it ends before it.
LEMMA ReadKeeps ==
    ASSUME IInv, NEW t \in Thread, ReadPiece(t) \/ ReadEnd(t) \/ ReadFails(t)
    PROVE  IInv'
<1> USE RowAssumption, BoundsAssumption DEF Goto, Expired, LateRead
<1>1. TypeOK /\ managers <= 1 /\ Placed /\ ControlAt(t) /\ TimedAt(t) /\ SleptAt(t)
      BY AtThread
<1>2. PICK d \in 0..Timeout : body' = [body EXCEPT ![t] = @ + d]
      BY DEF ReadPiece, ReadEnd, ReadFails, Spend
<1>3. /\ pc[t] = "read" /\ ~Expired(t)
      /\ UNCHANGED <<managers, lock, result, row, host, sized, headers, hops, attempt,
                     temporary, slept>>
      BY DEF ReadPiece, ReadEnd, ReadFails
<1>4. \/ pc' = [pc EXCEPT ![t] = "finally"] /\ \E o \in {"temporary", "other", "stream"} :
            /\ outcome' = [outcome EXCEPT ![t] = o]
            /\ o = "stream" => ~LateRead(t)
      \/ pc' = pc /\ outcome' = outcome /\ ~LateRead(t)
  <2>1. CASE ReadPiece(t)
        BY <2>1 DEF ReadPiece, Return
  <2>2. CASE ReadEnd(t)
        BY <2>2 DEF ReadEnd, Return
  <2>3. CASE ReadFails(t)
        BY <2>3 DEF ReadFails, Return
  <2>4. QED BY <2>1, <2>2, <2>3
<1>5. /\ Moved(t)
      /\ \/ complete' = complete
         \/ /\ complete' = [complete EXCEPT ![t] = ~LateRead(t)]
            /\ pc' = [pc EXCEPT ![t] = "finally"] /\ conn'[t] = None
  <2>1. CASE ReadPiece(t)
    <3>1. CASE /\ wire' = [wire EXCEPT ![conn[t]] = IF @ = Endless THEN @ ELSE 0]
               /\ UNCHANGED <<pool, conn>>
      <4>1. conn[t] # None /\ conn[t] \in Conn
            BY <2>1, <1>1 DEF ReadPiece, TypeOK
      <4>2. PICK w \in {0, Endless} : wire' = [wire EXCEPT ![conn[t]] = w]
            BY <3>1, <4>1, <1>1 DEF TypeOK
      <4>3. Moved(t)
            BY <1>1, <3>1, <4>1, <4>2, WireKeeps
      <4>4. QED BY <2>1, <4>3 DEF ReadPiece
    <3>2. CASE Release(t, 0)
          BY <1>1, <1>3, <2>1, <3>2, GivenBack DEF ReadPiece
    <3>3. QED BY <2>1, <3>1, <3>2 DEF ReadPiece
  <2>2. CASE ReadEnd(t)
    <3>1. Moved(t) /\ conn'[t] = None
          BY <1>1, <1>3, <2>2, GivenBack DEF ReadEnd
    <3>2. QED BY <2>2, <3>1 DEF ReadEnd, Return
  <2>3. CASE ReadFails(t)
    <3>1. Moved(t)
          BY <1>1, <1>3, <2>3, GivenBack DEF ReadFails
    <3>2. QED BY <2>3, <3>1 DEF ReadFails
  <2>4. QED BY <2>1, <2>2, <2>3
<1>6. TypeOK'
  <2>1. body' \in [Thread -> Nat]
        BY <1>1, <1>2 DEF TypeOK
  <2>2. outcome' \in [Thread -> {None, "stream"} \cup Failure]
        BY <1>1, <1>4 DEF TypeOK, Failure
  <2>3. pc' \in [Thread -> {"free", "make", "made", "send", "request", "read", "finally"}]
        BY <1>1, <1>4 DEF TypeOK
  <2>4. complete' \in [Thread -> BOOLEAN]
        BY <1>1, <1>5 DEF TypeOK
  <2>5. QED BY <1>1, <1>3, <1>5, <2>1, <2>2, <2>3, <2>4 DEF TypeOK, Moved
<1>7. Frame(t)
  <2>1. \A u \in Thread \ {t} : pc'[u] = pc[u] /\ outcome'[u] = outcome[u]
        BY <1>1, <1>4 DEF TypeOK
  <2>2. \A u \in Thread \ {t} : complete'[u] = complete[u]
        BY <1>1, <1>5 DEF TypeOK
  <2>3. QED BY <1>1, <1>2, <1>3, <1>5, <2>1, <2>2 DEF TypeOK, Moved, Frame
<1>8. ControlAt(t)'
  <2>1. pc'[t] \in {"read", "finally"}
        BY <1>1, <1>3, <1>4 DEF TypeOK
  <2>2. complete'[t] => pc'[t] = "finally" /\ conn'[t] = None
    <3>1. ~complete[t]
          BY <1>1, <1>3 DEF ControlAt
    <3>2. QED BY <1>1, <1>5, <3>1 DEF TypeOK
  <2>3. QED BY <1>1, <1>3, <2>1, <2>2 DEF ControlAt
<1>9. TimedAt(t)'
  <2>1. /\ headers[t] \in Nat /\ body[t] \in Nat /\ headers[t] + body[t] < Timeout
        /\ headers'[t] = headers[t] /\ body'[t] = body[t] + d
        BY <1>1, <1>2, <1>3 DEF TypeOK, Elapsed
  <2>2. Elapsed(t)' < 2 * Timeout
        BY <2>1 DEF Elapsed
  <2>3. pc'[t] \in {"read", "finally"} /\ (pc'[t] # "finally" => outcome'[t] = None)
        BY <1>1, <1>3, <1>4 DEF TypeOK, TimedAt
  <2>4. outcome'[t] = "stream" \/ pc'[t] = "read" => ~LateRead(t)
    <3>1. outcome[t] # "stream"
          BY <1>1, <1>3 DEF TimedAt
    <3>2. QED BY <1>1, <1>3, <1>4, <3>1 DEF TypeOK
  <2>5. ~LateRead(t) => Elapsed(t)' < Timeout
        BY <2>1 DEF Elapsed
  <2>6. QED BY <2>2, <2>3, <2>4, <2>5 DEF TimedAt
<1>10. SleptAt(t)'
      BY <1>1, <1>3 DEF SleptAt
<1>11. QED BY <1>1, <1>3, <1>6, <1>7, <1>8, <1>9, <1>10, <1>5, FrameKeeps DEF Moved

\* The `finally` closes what was not read, and gives back what was.
LEMMA ReturnKeeps ==
    ASSUME TypeOK, Placed, NEW t \in Thread, ControlAt(t), ReturnFrom(t)
    PROVE  Moved(t) /\ conn'[t] = None
<1>1. pc[t] = "finally"
      BY DEF ReturnFrom
<1>2. CASE conn[t] = None
      BY <1>1, <1>2, GivenBack DEF ReturnFrom, GiveBack
<1>3. CASE conn[t] # None
  <2>1. PICK w \in {Closed, 0} : Release(t, w)
        BY <1>3 DEF ReturnFrom, GiveBack, Unread, ControlAt
  <2>2. QED BY <1>1, <1>3, <2>1, GivenBack
<1>4. QED BY <1>2, <1>3

\* The next attempt begins with nothing spent; a failure that is slept on has
\* used up one of the retries, and was a temporary one.
LEMMA RetryKeeps ==
    ASSUME IInv, NEW t \in Thread, Done(t) \/ Retry(t)
    PROVE  IInv'
<1> USE RowAssumption, BoundsAssumption DEF Goto, Call
<1>1. TypeOK /\ managers <= 1 /\ Placed /\ ControlAt(t) /\ TimedAt(t) /\ SleptAt(t)
      BY AtThread
<1>2. ReturnFrom(t) /\ pc[t] = "finally"
      BY DEF Done, Retry, ReturnFrom
<1>3. /\ outcome' = [outcome EXCEPT ![t] = None]
      /\ headers' = [headers EXCEPT ![t] = 0] /\ body' = [body EXCEPT ![t] = 0]
      /\ sized' = [sized EXCEPT ![t] = FALSE] /\ complete' = [complete EXCEPT ![t] = FALSE]
      /\ UNCHANGED <<managers, lock, hops>>
      BY DEF Done, Retry, ReturnFrom
<1>4. Moved(t) /\ conn'[t] = None
      BY <1>1, <1>2, ReturnKeeps
<1>5. row[t] \in Row /\ attempt[t] \in 0..Retries /\ slept[t] \in Nat
      BY <1>1, <1>2 DEF TypeOK, ControlAt
<1>6. /\ headers' \in [Thread -> 0..Timeout] /\ body' \in [Thread -> Nat]
      /\ outcome' \in [Thread -> {None, "stream"} \cup Failure]
  <2>1. 0 \in 0..Timeout
        OBVIOUS
  <2>2. QED BY <1>1, <1>3, <2>1 DEF TypeOK
<1>7. CASE Done(t)
  <2>1. TypeOK'
    <3>1. /\ row' \in [Thread -> Row \cup {None}] /\ host' \in [Thread -> Host \cup {None}]
          /\ result' \in [Row -> {None, "stream", "error"}]
          BY <1>1, <1>7 DEF Done, TypeOK
    <3>2. /\ attempt' \in [Thread -> 0..Retries] /\ temporary' \in [Thread -> BOOLEAN]
          /\ slept' \in [Thread -> Nat]
          BY <1>1, <1>7 DEF Done, TypeOK
    <3>3. pc' \in [Thread -> {"free", "make", "made", "send", "request", "read", "finally"}]
          BY <1>1, <1>7 DEF Done, TypeOK
    <3>4. QED BY <1>1, <1>3, <1>4, <1>6, <3>1, <3>2, <3>3 DEF TypeOK, Moved
  <2>2. Frame(t)
        BY <1>1, <1>3, <1>4, <1>7 DEF Done, TypeOK, Moved, Frame
  <2>3. /\ pc'[t] = "free" /\ row'[t] = None /\ complete'[t] = FALSE /\ body'[t] = 0
        /\ outcome'[t] = None /\ slept'[t] = 0 /\ attempt'[t] = 0
        BY <1>1, <1>2, <1>3, <1>7 DEF Done, TypeOK, TimedAt
  <2>4. ControlAt(t)' /\ TimedAt(t)' /\ SleptAt(t)'
    <3>1. ControlAt(t)'
          BY <1>4, <2>3 DEF ControlAt
    <3>2. SleptAt(t)'
          BY <2>3 DEF SleptAt, Naps
    <3>3. TimedAt(t)'
          BY <2>3 DEF TimedAt
    <3>4. QED BY <3>1, <3>2, <3>3
  <2>5. QED BY <1>1, <1>3, <1>4, <2>1, <2>2, <2>4, FrameKeeps DEF Moved
<1>8. CASE Retry(t)
  <2> DEFINE nap == IF Transient(outcome[t]) THEN Nap(attempt[t]) ELSE 0
  <2>1. /\ nap \in Nat /\ nap <= Nap(attempt[t]) /\ Nap(attempt[t]) \in Nat
        /\ Naps(attempt[t]) \in Nat
        /\ Naps(attempt[t] + 1) = Naps(attempt[t]) + Nap(attempt[t])
        BY <1>5, NapProperties
  <2>2. /\ attempt[t] + 1 \in 0..Retries /\ HostOf[row[t]] \in Host
        /\ slept' = [slept EXCEPT ![t] = slept[t] + nap]
        /\ attempt' = [attempt EXCEPT ![t] = attempt[t] + 1]
    <3>1. attempt[t] + 1 \in 0..Retries
          BY <1>5, <1>8 DEF Retry, More
    <3>2. QED BY <1>5, <1>8, <3>1 DEF Retry
  <2>3. /\ temporary' = [temporary EXCEPT ![t] = @ \/ outcome[t] = "temporary"]
        /\ host' = [host EXCEPT ![t] = HostOf[row[t]]]
        /\ pc' = [pc EXCEPT ![t] = IF managers = 0 THEN "make" ELSE "send"]
        /\ UNCHANGED <<result, row>>
        BY <1>8 DEF Retry
  <2>4. nap > 0 => outcome[t] = "temporary"
        BY DEF Transient
  <2> HIDE DEF nap
  <2>5. TypeOK'
    <3>1. slept' \in [Thread -> Nat]
      <4>1. slept[t] + nap \in Nat
            BY <1>5, <2>1
      <4>2. QED BY <1>1, <2>2, <4>1 DEF TypeOK
    <3>2. attempt' \in [Thread -> 0..Retries] /\ host' \in [Thread -> Host \cup {None}]
          BY <1>1, <2>2, <2>3 DEF TypeOK
    <3>3. pc' \in [Thread -> {"free", "make", "made", "send", "request", "read", "finally"}]
          BY <1>1, <2>3 DEF TypeOK
    <3>4. temporary' \in [Thread -> BOOLEAN]
          BY <1>1, <2>3 DEF TypeOK
    <3>5. QED BY <1>1, <1>3, <1>4, <1>6, <2>3, <3>1, <3>2, <3>3, <3>4 DEF TypeOK, Moved
  <2>6. Frame(t)
    <3>1. \A u \in Thread \ {t} : /\ pc'[u] = pc[u] /\ host'[u] = host[u]
                                   /\ temporary'[u] = temporary[u]
          BY <1>1, <2>3 DEF TypeOK
    <3>2. \A u \in Thread \ {t} : attempt'[u] = attempt[u] /\ slept'[u] = slept[u]
          BY <1>1, <2>2 DEF TypeOK
    <3>3. QED BY <1>1, <1>3, <1>4, <2>3, <3>1, <3>2 DEF TypeOK, Moved, Frame
  <2>7. /\ pc'[t] \in {"make", "send"} /\ row'[t] # None /\ host'[t] \in Host
        /\ complete'[t] = FALSE /\ body'[t] = 0 /\ outcome'[t] = None
        BY <1>1, <1>2, <1>3, <1>5, <2>2, <2>3 DEF TypeOK, TimedAt
  <2>8. ControlAt(t)' /\ TimedAt(t)'
    <3>1. ControlAt(t)'
          BY <1>4, <2>7 DEF ControlAt
    <3>2. TimedAt(t)'
          BY <2>7 DEF TimedAt
    <3>3. QED BY <3>1, <3>2
  <2>9. SleptAt(t)'
    <3>1. slept'[t] = slept[t] + nap /\ attempt'[t] = attempt[t] + 1
          BY <1>1, <2>2 DEF TypeOK
    <3>2. slept'[t] <= Naps(attempt'[t])
          BY <1>1, <1>5, <2>1, <3>1 DEF SleptAt
    <3>3. slept'[t] > 0 => slept[t] > 0 \/ nap > 0
          BY <1>5, <2>1, <3>1
    <3>4. slept'[t] > 0 => temporary'[t]
          BY <1>1, <2>3, <2>4, <3>3 DEF SleptAt, TypeOK
    <3>5. QED BY <3>2, <3>4 DEF SleptAt
  <2>10. QED BY <1>1, <1>3, <1>4, <2>5, <2>6, <2>8, <2>9, FrameKeeps DEF Moved
<1>9. QED BY <1>7, <1>8

\* Nothing is made, held or spent at the start.
LEMMA InitHolds == Init => IInv
<1> USE RowAssumption, BoundsAssumption
<1> SUFFICES ASSUME Init PROVE IInv
    OBVIOUS
<1>1. TypeOK
  <2>1. <<>> \in Seq(Conn)
        OBVIOUS
  <2>2. QED BY <2>1 DEF Init, TypeOK, Closed
<1>2. Placed
  <2>1. \A h \in Host : Len(pool[h]) = 0 /\ DOMAIN pool[h] = {}
        BY DEF Init
  <2>2. QED BY <2>1 DEF Init, Placed, Fits, OnePlace, Clean, Closed
<1>3. Control
      BY DEF Init, Control, ControlAt
<1>4. Timed
      BY DEF Init, Timed, TimedAt
<1>5. Slept
      BY DEF Init, Slept, SleptAt, Naps
<1>6. managers <= 1
      BY DEF Init
<1>7. QED BY <1>1, <1>2, <1>3, <1>4, <1>5, <1>6 DEF IInv

\* Every step keeps the invariant.
LEMMA StepKeeps == IInv /\ [Next]_vars => IInv'
<1> SUFFICES ASSUME IInv, [Next]_vars PROVE IInv'
    OBVIOUS
<1>1. ASSUME NEW t \in Thread, Step(t) PROVE IInv'
  <2>1. CASE TakeLock(t) \/ MakeManager(t)
        BY <2>1, ManagerKeeps
  <2>2. CASE Connect(t)
        BY <2>2, ConnectStep
  <2>3. CASE RequestFails(t)
        BY <2>3, RequestFailsKeeps
  <2>4. CASE Redirect(t)
        BY <2>4, RedirectKeeps
  <2>5. CASE Refuse(t) \/ Accept(t)
        BY <2>5, AnswerKeeps
  <2>6. CASE Expire(t)
        BY <2>6, ExpireKeeps
  <2>7. CASE ReadPiece(t) \/ ReadEnd(t) \/ ReadFails(t)
        BY <2>7, ReadKeeps
  <2>8. CASE Done(t) \/ Retry(t)
        BY <2>8, RetryKeeps
  <2>9. QED BY <1>1, <2>1, <2>2, <2>3, <2>4, <2>5, <2>6, <2>7, <2>8 DEF Step, Request, Read
<1>2. ASSUME NEW t \in Thread, NEW r \in Row, Take(t, r) PROVE IInv'
      BY <1>2, TakeKeeps
<1>3. CASE UNCHANGED vars
      BY <1>3 DEF vars, shared, local, IInv, TypeOK, Placed, Fits, OnePlace, Clean,
                  Control, ControlAt, Timed, TimedAt, Elapsed, Slept, SleptAt
<1>4. QED BY <1>1, <1>2, <1>3 DEF Next

-----------------------------------------------------------------------------
(* The theorems. *)

\* Every state of the specification has its types, its connections placed, and
\* every thread's holdings, times and sleeps within their bounds.
THEOREM Invariance == Spec => []IInv
BY InitHolds, StepKeeps, PTL DEF Spec

\* The state has its types.
THEOREM TypeCorrect == Spec => []TypeOK
BY Invariance, PTL DEF IInv

\* No response is ever read from bytes that another left behind, on whichever
\* way the download before it ended: success, a refused status, a deadline, a
\* failed read.
THEOREM NothingUnreadReused == Spec => []NoUnreadReused
<1>1. IInv => NoUnreadReused
  <2> SUFFICES ASSUME IInv PROVE NoUnreadReused
      OBVIOUS
  <2>1. ASSUME NEW h \in Host, NEW c \in Idle(h) PROVE wire[c] <= 0
    <3>1. PICK i \in DOMAIN pool[h] : pool[h][i] = c
          BY DEF Idle, ToSet
    <3>2. c \in Conn
          BY <3>1, ElementOfSeq, LenProperties DEF IInv, TypeOK
    <3>3. QED BY <3>1, <3>2 DEF IInv, Placed, OnePlace, Clean
  <2>2. QED BY <2>1 DEF NoUnreadReused, IInv, Control, ControlAt
<1>2. QED BY <1>1, Invariance, PTL

\* One pool is made, and a connection is never used twice: by two threads, by
\* a thread and the pool, or by two places of the pools, though it is given
\* back by urllib3 on some ways and by the `finally` on others.
THEOREM OneUserOfEach == Spec => []OneUserEach
<1>1. IInv => OneUserEach
  <2> SUFFICES ASSUME IInv PROVE OneUserEach
      OBVIOUS
  <2> USE DEF IInv, Placed, OnePlace
  <2>1. \A h \in Host : Held \cap Idle(h) = {}
        BY DEF Held, Idle, ToSet
  <2>2. \A h \in Host : IsInjective(pool[h])
        BY DEF IsInjective
  <2>3. \A g, h \in Host : g # h => Idle(g) \cap Idle(h) = {}
        BY DEF Idle, ToSet
  <2>4. QED BY <2>1, <2>2, <2>3 DEF OneUserEach
<1>2. QED BY <1>1, Invariance, PTL

\* For every timeout: only a transfer that met the deadline is a stream, none
\* goes on after it, and the read of a body of known length that crosses it
\* ends within one more timeout.  The time in request() is not bounded.
THEOREM AttemptsInTime == Spec => []AttemptInTime
<1>1. IInv => AttemptInTime
      BY DEF IInv, Timed, TimedAt, AttemptInTime
<1>2. QED BY <1>1, Invariance, PTL

\* The sleeps of a row are within the sum of the naps of all its retries, and
\* there are none unless a temporary failure was met.
THEOREM WaitWithinBudget == Spec => []WaitBudget
<1>1. IInv => WaitBudget
  <2> SUFFICES ASSUME IInv, NEW t \in Thread
               PROVE  slept[t] <= WaitBound /\ (slept[t] > 0 => temporary[t])
      BY DEF WaitBudget
  <2>1. attempt[t] \in 0..Retries /\ slept[t] \in Nat /\ SleptAt(t)
        BY DEF IInv, TypeOK, Slept
  <2>2. Naps(attempt[t]) <= WaitBound /\ Naps(attempt[t]) \in Nat /\ WaitBound \in Nat
        BY <2>1, NapsBound, NapProperties
  <2>3. QED BY <2>1, <2>2 DEF SleptAt
<1>2. QED BY <1>1, Invariance, PTL
=============================================================================
