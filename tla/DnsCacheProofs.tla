--------------------------- MODULE DnsCacheProofs ---------------------------
(***************************************************************************)
(* The resolver cache of net/dns_cache.py for every number of threads and  *)
(* keys, every size and every time to live.                                *)
(*                                                                         *)
(* The clock is read before the cache is looked at and before the resolver *)
(* is asked, and other threads look and store in between: what keeps an    *)
(* entry young is that it expires by the reading made before its answer    *)
(* (Young, and start <= answer while a thread has one).                    *)
(***************************************************************************)
EXTENDS DnsCache, SequenceTheorems, TLAPS

Unique(s) == \A i, j \in DOMAIN s : s[i].key = s[j].key => i = j
Young(s) == \A i \in DOMAIN s : s[i].expires <= s[i].answered + Ttl
Sound(s) == s \in Seq(Entry) /\ Unique(s) /\ Young(s)

ThreadAt(t) ==
    /\ pc[t] # "out" => key[t] \in Key
    /\ start[t] <= clock
    /\ pc[t] \in {"answered", "storing"} => start[t] <= answer[t]

IInv == TypeOK /\ Sound(cache) /\ Len(cache) <= MaxSize /\ \A t \in Thread : ThreadAt(t)

-----------------------------------------------------------------------------
(* The operators. *)

\* What a cache is, without its sequence library.
LEMMA SoundProperties ==
    ASSUME NEW s, Sound(s)
    PROVE  /\ Len(s) \in Nat /\ DOMAIN s = 1..Len(s)
           /\ \A i \in 1..Len(s) : s[i] \in Entry
BY LenProperties, ElementOfSeq DEF Sound

\* Taking a key out leaves the other entries, in their order.
LEMMA WithoutKeeps ==
    ASSUME Sound(cache), NEW k
    PROVE  /\ Sound(Without(k)) /\ Len(Without(k)) <= Len(cache)
           /\ \A i \in DOMAIN Without(k) : Without(k)[i].key # k
           /\ (\E e \in Entries : e.key = k) => Len(Without(k)) = Len(cache) - 1
<1>1. /\ Len(cache) \in Nat /\ DOMAIN cache = 1..Len(cache)
      /\ \A i \in 1..Len(cache) : cache[i] \in Entry
      BY SoundProperties
<1>2. CASE ~\E i \in DOMAIN cache : cache[i].key = k
  <2>1. Without(k) = cache /\ ~\E e \in Entries : e.key = k
        BY <1>2 DEF Without, Entries
  <2>2. Sound(Without(k)) /\ Len(Without(k)) <= Len(cache)
        BY <1>1, <2>1
  <2>3. \A i \in DOMAIN Without(k) : Without(k)[i].key # k
        BY <1>2, <2>1
  <2>4. QED BY <2>1, <2>2, <2>3
<1>3. CASE \E i \in DOMAIN cache : cache[i].key = k
  <2> DEFINE p == CHOOSE i \in DOMAIN cache : cache[i].key = k
             w == Without(k)
             n == Len(cache)
             u == SubSeq(cache, 1, p - 1)
             v == SubSeq(cache, p + 1, n)
  <2>1. p \in 1..n /\ cache[p].key = k /\ n \in Nat
        BY <1>1, <1>3
  <2>2. w = u \o v
        BY <1>3 DEF Without, RemoveAt
  <2>3. u \in Seq(Entry) /\ Len(u) = p - 1 /\ \A i \in 1..p - 1 : u[i] = cache[i]
    <3> HIDE DEF p
    <3>1. \A i \in 1..p - 1 : cache[i] \in Entry
          BY <1>1, <2>1
    <3>2. QED BY <1>1, <2>1, <3>1, SubSeqProperties
  <2>4. v \in Seq(Entry) /\ Len(v) = n - p /\ \A i \in 1..n - p : v[i] = cache[p + i]
    <3> HIDE DEF p
    <3>1. \A i \in p + 1..n : cache[i] \in Entry
          BY <1>1, <2>1
    <3>2. /\ v \in Seq(Entry)
          /\ Len(v) = IF p + 1 <= n THEN n - (p + 1) + 1 ELSE 0
          /\ \A i \in 1..n - (p + 1) + 1 : v[i] = cache[p + 1 + i - 1]
          BY <1>1, <2>1, <3>1, SubSeqProperties
    <3> HIDE DEF v, n
    <3>3. /\ n - (p + 1) + 1 = n - p /\ (p + 1 <= n \/ n - p = 0)
          /\ \A i \in 1..n - p : p + 1 + i - 1 = p + i
          BY <2>1
    <3>4. QED BY <3>2, <3>3
  <2> HIDE DEF p, w, u, v
  <2>5. /\ w \in Seq(Entry) /\ Len(w) = n - 1
        /\ \A i \in 1..n - 1 : w[i] = IF i <= p - 1 THEN cache[i] ELSE cache[i + 1]
    <3>1. /\ w \in Seq(Entry) /\ Len(w) = (p - 1) + (n - p)
          /\ \A i \in 1..(p - 1) + (n - p) :
                w[i] = IF i <= p - 1 THEN u[i] ELSE v[i - (p - 1)]
          BY <2>2, <2>3, <2>4, ConcatProperties
    <3> HIDE DEF n
    <3>2. (p - 1) + (n - p) = n - 1
          BY <2>1
    <3>3. ASSUME NEW i \in 1..n - 1, ~(i <= p - 1)
          PROVE  v[i - (p - 1)] = cache[i + 1]
      <4>1. i - (p - 1) \in 1..n - p /\ p + (i - (p - 1)) = i + 1
            BY <2>1, <3>3
      <4>2. QED BY <2>4, <4>1
    <3>4. ASSUME NEW i \in 1..n - 1, i <= p - 1 PROVE u[i] = cache[i]
          BY <2>1, <2>3, <3>4
    <3>5. QED BY <3>1, <3>2, <3>3, <3>4
  <2>6. DOMAIN w = 1..n - 1
        BY <2>5, LenProperties
  <2>7. ASSUME NEW i \in 1..n - 1
        PROVE  \E j \in 1..n \ {p} : w[i] = cache[j] /\ j = IF i <= p - 1 THEN i ELSE i + 1
        BY <1>1, <2>1, <2>5
  <2>8. Unique(w)
    <3> SUFFICES ASSUME NEW i \in 1..n - 1, NEW j \in 1..n - 1, w[i].key = w[j].key
                 PROVE  i = j
        BY <2>6 DEF Unique
    <3>1. PICK a \in 1..n \ {p} : w[i] = cache[a] /\ a = IF i <= p - 1 THEN i ELSE i + 1
          BY <2>7
    <3>2. PICK b \in 1..n \ {p} : w[j] = cache[b] /\ b = IF j <= p - 1 THEN j ELSE j + 1
          BY <2>7
    <3>3. a = b
          BY <1>1, <3>1, <3>2 DEF Sound, Unique
    <3>4. QED BY <2>1, <3>1, <3>2, <3>3
  <2>9. Young(w)
        BY <1>1, <2>6, <2>7 DEF Sound, Young
  <2>10. \A i \in DOMAIN w : w[i].key # k
    <3> SUFFICES ASSUME NEW i \in 1..n - 1 PROVE w[i].key # k
        BY <2>6
    <3>1. PICK a \in 1..n \ {p} : w[i] = cache[a]
          BY <2>7
    <3>2. QED BY <1>1, <2>1, <3>1 DEF Sound, Unique
  <2>11. QED BY <1>1, <2>5, <2>8, <2>9, <2>10 DEF w, Sound
<1>4. QED BY <1>2, <1>3

\* A young entry of a key that is not there may be added.
LEMMA AppendKeeps ==
    ASSUME NEW s, Sound(s), NEW e \in Entry, e.expires <= e.answered + Ttl,
           \A i \in DOMAIN s : s[i].key # e.key
    PROVE  Sound(Append(s, e)) /\ Len(Append(s, e)) = Len(s) + 1
<1>1. Len(s) \in Nat /\ DOMAIN s = 1..Len(s) /\ s \in Seq(Entry)
      BY SoundProperties DEF Sound
<1>2. /\ Append(s, e) \in Seq(Entry) /\ Len(Append(s, e)) = Len(s) + 1
      /\ \A i \in 1..Len(s) : Append(s, e)[i] = s[i]
      /\ Append(s, e)[Len(s) + 1] = e
      BY <1>1, AppendProperties
<1>3. DOMAIN Append(s, e) = 1..Len(s) + 1
      BY <1>2, LenProperties
<1>4. \A i \in DOMAIN Append(s, e) : i \in DOMAIN s \/ i = Len(s) + 1
      BY <1>1, <1>3
<1>5. Unique(Append(s, e))
      BY <1>1, <1>2, <1>4 DEF Sound, Unique
<1>6. Young(Append(s, e))
      BY <1>1, <1>2, <1>4 DEF Sound, Young
<1>7. QED BY <1>2, <1>5, <1>6 DEF Sound

\* Eviction leaves the latest entries, and no more than fit.
LEMMA EvictKeeps ==
    ASSUME NEW s, Sound(s)
    PROVE  Sound(Evict(s)) /\ Len(Evict(s)) <= MaxSize
<1>1. /\ Len(s) \in Nat /\ DOMAIN s = 1..Len(s) /\ s \in Seq(Entry)
      /\ \A i \in 1..Len(s) : s[i] \in Entry
      BY SoundProperties DEF Sound
<1>2. CASE Len(s) <= MaxSize
      BY <1>2 DEF Evict
<1>3. CASE Len(s) > MaxSize
  <2> DEFINE d == Len(s) - MaxSize
             v == SubSeq(s, d + 1, Len(s))
  <2>1. d \in Nat /\ d + MaxSize = Len(s) /\ Evict(s) = v
        BY <1>1, <1>3, BoundsAssumption DEF Evict
  <2>2. \A i \in d + 1..Len(s) : s[i] \in Entry
        BY <1>1, <2>1
  <2>3. /\ v \in Seq(Entry) /\ Len(v) = MaxSize
        /\ \A i \in 1..MaxSize : v[i] = s[d + i]
    <3>1. /\ v \in Seq(Entry)
          /\ Len(v) = IF d + 1 <= Len(s) THEN Len(s) - (d + 1) + 1 ELSE 0
          /\ \A i \in 1..Len(s) - (d + 1) + 1 : v[i] = s[d + 1 + i - 1]
          BY <1>1, <2>1, <2>2, SubSeqProperties
    <3>2. /\ d + 1 <= Len(s) /\ Len(s) - (d + 1) + 1 = MaxSize
          /\ \A i \in 1..MaxSize : d + 1 + i - 1 = d + i
          BY <1>1, <2>1, BoundsAssumption
    <3> HIDE DEF v, d
    <3>3. QED BY <3>1, <3>2
  <2> HIDE DEF v, d
  <2>4. DOMAIN v = 1..MaxSize
        BY <2>3, LenProperties
  <2>5. \A i \in 1..MaxSize : d + i \in DOMAIN s
        BY <1>1, <2>1, BoundsAssumption
  <2>6. Unique(v)
    <3> SUFFICES ASSUME NEW i \in 1..MaxSize, NEW j \in 1..MaxSize, v[i].key = v[j].key
                 PROVE  i = j
        BY <2>4 DEF Unique
    <3>1. d + i = d + j
          BY <2>3, <2>5 DEF Sound, Unique
    <3>2. QED BY <2>1, <3>1
  <2>7. Young(v)
        BY <2>3, <2>4, <2>5 DEF Sound, Young
  <2>8. QED BY <2>1, <2>3, <2>6, <2>7, BoundsAssumption DEF Sound
<1>4. QED BY <1>1, <1>2, <1>3, BoundsAssumption

-----------------------------------------------------------------------------
(* The steps. *)

\* What a step does to the lookup of one thread.
Frame(t) == \A u \in Thread \ {t} : /\ pc'[u] = pc[u] /\ key'[u] = key[u]
                                    /\ start'[u] = start[u] /\ answer'[u] = answer[u]

\* The thread that steps is all there is to look at.
LEMMA FrameKeeps ==
    ASSUME IInv, NEW t \in Thread, Frame(t), clock' = clock, TypeOK',
           Sound(cache'), Len(cache') <= MaxSize, ThreadAt(t)'
    PROVE  IInv'
<1>1. Sound(cache)'
      BY DEF Sound, Unique, Young, Entry
<1>2. ASSUME NEW u \in Thread PROVE ThreadAt(u)'
      BY DEF IInv, ThreadAt, Frame
<1>3. QED BY <1>1, <1>2 DEF IInv

\* _lookup ends.
LEMMA ReturnKeeps ==
    ASSUME IInv, NEW t \in Thread, Return(t), clock' = clock
    PROVE  /\ pc' \in [Thread -> {"out", "called", "looking", "resolving",
                                  "answered", "storing"}]
           /\ key' \in [Thread -> Key \cup {None}]
           /\ start' \in [Thread -> 0..MaxTime] /\ answer' \in [Thread -> 0..MaxTime]
           /\ Frame(t) /\ ThreadAt(t)'
<1> USE BoundsAssumption
<1>1. /\ pc' = [pc EXCEPT ![t] = "out"] /\ key' = [key EXCEPT ![t] = None]
      /\ start' = [start EXCEPT ![t] = 0] /\ answer' = [answer EXCEPT ![t] = 0]
      BY DEF Return, Goto
<1>2. 0 \in 0..MaxTime /\ clock \in 0..MaxTime
      BY DEF IInv, TypeOK
<1>3. /\ start' \in [Thread -> 0..MaxTime] /\ answer' \in [Thread -> 0..MaxTime]
      /\ key' \in [Thread -> Key \cup {None}]
      BY <1>1, <1>2 DEF IInv, TypeOK
<1>4. pc' \in [Thread -> {"out", "called", "looking", "resolving", "answered", "storing"}]
      BY <1>1 DEF IInv, TypeOK
<1>5. Frame(t)
      BY <1>1 DEF IInv, TypeOK, Frame
<1>6. pc'[t] = "out" /\ start'[t] = 0
      BY <1>1 DEF IInv, TypeOK
<1>7. QED BY <1>2, <1>3, <1>4, <1>5, <1>6 DEF ThreadAt

\* A call reads the clock first of all.
LEMMA CallKeeps ==
    ASSUME IInv, NEW t \in Thread, NEW k \in Key, Call(t, k)
    PROVE  IInv'
<1> USE DEF Call, Goto
<1>1. clock \in 0..MaxTime
      BY DEF IInv, TypeOK
<1>2. TypeOK'
  <2>1. pc' \in [Thread -> {"out", "called", "looking", "resolving", "answered", "storing"}]
        BY DEF IInv, TypeOK
  <2>2. start' \in [Thread -> 0..MaxTime] /\ key' \in [Thread -> Key \cup {None}]
        BY <1>1 DEF IInv, TypeOK
  <2>3. QED BY <2>1, <2>2 DEF IInv, TypeOK, Entry
<1>3. Frame(t)
      BY DEF IInv, TypeOK, Frame
<1>4. pc'[t] = "called" /\ key'[t] = k /\ start'[t] = clock
      BY DEF IInv, TypeOK
<1>5. ThreadAt(t)'
      BY <1>1, <1>4 DEF ThreadAt
<1>6. Sound(cache') /\ Len(cache') <= MaxSize
      BY DEF IInv
<1>7. QED BY <1>2, <1>3, <1>5, <1>6, FrameKeeps

\* Taking the lock reads and changes nothing else.
LEMMA TakeLockKeeps ==
    ASSUME IInv, NEW t \in Thread, TakeLock(t)
    PROVE  IInv'
<1> USE DEF TakeLock, Goto
<1>1. TypeOK'
      BY DEF IInv, TypeOK, Entry
<1>2. Frame(t)
      BY DEF IInv, TypeOK, Frame
<1>3. ThreadAt(t)'
      BY DEF IInv, TypeOK, ThreadAt
<1>4. Sound(cache') /\ Len(cache') <= MaxSize
      BY DEF IInv
<1>5. QED BY <1>1, <1>2, <1>3, <1>4, FrameKeeps

\* The entry that is hit is moved, not doubled.
LEMMA HitKeeps ==
    ASSUME IInv, NEW t \in Thread, Hit(t)
    PROVE  IInv'
<1> USE DEF Hit
<1>1. PICK e \in Entries : Trusted(e, t) /\ cache' = Append(Without(key[t]), e)
      OBVIOUS
<1>2. Sound(cache) /\ Len(cache) <= MaxSize
      BY DEF IInv
<1>3. e \in Entry /\ e.expires <= e.answered + Ttl /\ e.key = key[t]
      BY <1>1, <1>2, SoundProperties DEF Entries, Trusted, Sound, Young
<1>4. /\ Sound(Without(key[t])) /\ Len(Without(key[t])) = Len(cache) - 1
      /\ \A i \in DOMAIN Without(key[t]) : Without(key[t])[i].key # e.key
      BY <1>2, <1>3, WithoutKeeps
<1>5. Sound(cache') /\ Len(cache') <= MaxSize
  <2>1. Sound(cache') /\ Len(cache') = Len(Without(key[t])) + 1
        BY <1>1, <1>3, <1>4, AppendKeeps
  <2>2. Len(cache) \in Nat
        BY <1>2, SoundProperties
  <2>3. QED BY <1>2, <1>4, <2>1, <2>2
<1>6. Return(t) /\ clock' = clock /\ hits' \in Nat /\ misses' = misses /\ lock' = None
      BY DEF IInv, TypeOK
<1>7. TypeOK'
      BY <1>5, <1>6, ReturnKeeps DEF IInv, TypeOK, Sound, Entry
<1>8. QED BY <1>5, <1>6, <1>7, ReturnKeeps, FrameKeeps

\* An expired entry goes.
LEMMA MissKeeps ==
    ASSUME IInv, NEW t \in Thread, Miss(t)
    PROVE  IInv'
<1> USE DEF Miss, Goto
<1>1. Sound(cache') /\ Len(cache') <= MaxSize
  <2>1. Sound(cache) /\ Len(cache) <= MaxSize
        BY DEF IInv
  <2>2. Sound(cache') /\ Len(cache') <= Len(cache)
        BY <2>1, WithoutKeeps
  <2>3. Len(cache) \in Nat /\ Len(cache') \in Nat
        BY <2>1, <2>2, SoundProperties
  <2>4. QED BY <2>1, <2>2, <2>3, BoundsAssumption
<1>2. TypeOK'
  <2>1. pc' \in [Thread -> {"out", "called", "looking", "resolving", "answered", "storing"}]
        BY DEF IInv, TypeOK
  <2>2. misses' \in Nat
        BY DEF IInv, TypeOK
  <2>3. QED BY <1>1, <2>1, <2>2 DEF IInv, TypeOK, Sound, Entry
<1>3. Frame(t)
      BY DEF IInv, TypeOK, Frame
<1>4. ThreadAt(t)'
      BY DEF IInv, TypeOK, ThreadAt
<1>5. QED BY <1>1, <1>2, <1>3, <1>4, FrameKeeps

\* The resolver answers after the clock was read.
LEMMA AnswerKeeps ==
    ASSUME IInv, NEW t \in Thread, Answer(t)
    PROVE  IInv'
<1> USE DEF Answer, Goto
<1>1. clock \in 0..MaxTime
      BY DEF IInv, TypeOK
<1>2. TypeOK'
      BY <1>1 DEF IInv, TypeOK, Entry
<1>3. Frame(t)
      BY DEF IInv, TypeOK, Frame
<1>4. ThreadAt(t)'
      BY <1>1 DEF IInv, TypeOK, ThreadAt
<1>5. Sound(cache') /\ Len(cache') <= MaxSize
      BY DEF IInv
<1>6. QED BY <1>2, <1>3, <1>4, <1>5, FrameKeeps

\* A failed resolution stores nothing.
LEMMA FailKeeps ==
    ASSUME IInv, NEW t \in Thread, Fail(t)
    PROVE  IInv'
<1> USE DEF Fail
<1>1. Return(t) /\ UNCHANGED <<cache, hits, misses, lock, clock>>
      OBVIOUS
<1>2. TypeOK'
      BY <1>1, ReturnKeeps DEF IInv, TypeOK, Entry
<1>3. Sound(cache') /\ Len(cache') <= MaxSize
      BY <1>1 DEF IInv
<1>4. QED BY <1>1, <1>2, <1>3, ReturnKeeps, FrameKeeps

\* What is stored is one entry of its key, expiring no later than Ttl after its
\* answer, whatever other threads stored meanwhile.
LEMMA StoreKeeps ==
    ASSUME IInv, NEW t \in Thread, Store(t)
    PROVE  IInv'
<1> USE BoundsAssumption DEF Store
<1> DEFINE e == [key |-> key[t], expires |-> Expiry(t), answered |-> answer[t]]
<1>1. e \in Entry /\ e.expires <= e.answered + Ttl /\ e.key = key[t]
  <2>1. /\ key[t] \in Key /\ start[t] \in 0..MaxTime /\ answer[t] \in 0..MaxTime
        /\ start[t] <= answer[t]
        BY DEF IInv, TypeOK, ThreadAt
  <2>2. Expiry(t) \in 0..MaxTime + Ttl /\ Expiry(t) <= answer[t] + Ttl
        BY <2>1 DEF Expiry
  <2>3. QED BY <2>1, <2>2 DEF Entry
<1>2. cache' = Evict(Append(Without(key[t]), e))
      OBVIOUS
<1>3. Return(t) /\ UNCHANGED <<hits, misses, clock>> /\ lock' = None
      OBVIOUS
<1> HIDE DEF e, Store
<1>4. /\ Sound(Without(key[t]))
      /\ \A i \in DOMAIN Without(key[t]) : Without(key[t])[i].key # e.key
      BY <1>1, WithoutKeeps DEF IInv
<1>5. Sound(Append(Without(key[t]), e))
      BY <1>1, <1>4, AppendKeeps
<1>6. Sound(cache') /\ Len(cache') <= MaxSize
      BY <1>2, <1>5, EvictKeeps
<1>7. TypeOK'
      BY <1>3, <1>6, ReturnKeeps DEF IInv, TypeOK, Sound, Entry
<1>8. QED BY <1>3, <1>6, <1>7, ReturnKeeps, FrameKeeps

\* Time passes: nothing that was read becomes later than it was.
LEMMA TickKeeps ==
    ASSUME IInv, Tick
    PROVE  IInv'
<1> USE BoundsAssumption DEF Tick
<1>1. clock \in 0..MaxTime /\ clock' = clock + 1 /\ clock' \in 0..MaxTime
      BY DEF IInv, TypeOK
<1>2. TypeOK'
      BY <1>1 DEF IInv, TypeOK, Entry
<1>3. (Sound(cache) /\ Len(cache) <= MaxSize)'
      BY DEF IInv, Sound, Unique, Young, Entry
<1>4. ASSUME NEW u \in Thread PROVE ThreadAt(u)'
  <2>1. start[u] \in 0..MaxTime /\ ThreadAt(u)
        BY DEF IInv, TypeOK
  <2>2. QED BY <1>1, <2>1 DEF ThreadAt
<1>5. QED BY <1>2, <1>3, <1>4 DEF IInv

\* Every step keeps the invariant.
LEMMA StepKeeps == IInv /\ [Next]_vars => IInv'
<1> SUFFICES ASSUME IInv, [Next]_vars PROVE IInv'
    OBVIOUS
<1>1. ASSUME NEW t \in Thread, NEW k \in Key, Call(t, k) PROVE IInv'
      BY <1>1, CallKeeps
<1>2. ASSUME NEW t \in Thread, Lookup(t) PROVE IInv'
      BY <1>2, TakeLockKeeps, HitKeeps, MissKeeps, StoreKeeps DEF Lookup
<1>3. ASSUME NEW t \in Thread, Answer(t) \/ Fail(t) PROVE IInv'
      BY <1>3, AnswerKeeps, FailKeeps
<1>4. CASE Tick
      BY <1>4, TickKeeps
<1>5. CASE UNCHANGED vars
      BY <1>5 DEF vars, IInv, TypeOK, Sound, Unique, Young, Entry, ThreadAt
<1>6. QED BY <1>1, <1>2, <1>3, <1>4, <1>5 DEF Next

\* An empty cache is sound.
LEMMA InitHolds == Init => IInv
<1> SUFFICES ASSUME Init PROVE IInv
    OBVIOUS
<1>1. /\ cache = <<>> /\ <<>> \in Seq(Entry) /\ Len(cache) = 0 /\ DOMAIN cache = {}
      BY DEF Init
<1>2. Sound(cache) /\ Len(cache) <= MaxSize
      BY <1>1, BoundsAssumption DEF Sound, Unique, Young
<1>3. TypeOK
      BY <1>1, BoundsAssumption DEF Init, TypeOK
<1>4. \A t \in Thread : ThreadAt(t)
      BY DEF Init, ThreadAt
<1>5. QED BY <1>2, <1>3, <1>4 DEF IInv

-----------------------------------------------------------------------------
(* The theorems. *)

\* Every state has its types, a sound cache within its size, and lookups that
\* read the clock before their answers came.
THEOREM Invariance == Spec => []IInv
BY InitHolds, StepKeeps, PTL DEF Spec

\* The cache keeps to its size and has one entry of a key, though lookups of
\* the same name overlap: both miss, both resolve, both store.
THEOREM CacheBounded == Spec => []Bounded
<1>1. IInv => Bounded
      BY DEF IInv, Sound, Unique, Bounded
<1>2. QED BY <1>1, Invariance, PTL

\* A hit never hands out an answer that was older than Ttl when its lookup
\* began, however long the resolver took over it and the lock was waited for.
THEOREM HitsAreFresh == Spec => HitIsFresh
<1>1. IInv /\ [Next]_vars =>
        [hits' # hits =>
           \E t \in Thread : pc[t] = "looking" /\ pc'[t] = "out" /\
              \E e \in Entries : e.key = key[t] /\ start[t] < e.answered + Ttl]_vars
  <2> SUFFICES ASSUME IInv, Next, hits' # hits
               PROVE  \E t \in Thread : pc[t] = "looking" /\ pc'[t] = "out" /\
                         \E e \in Entries : e.key = key[t] /\ start[t] < e.answered + Ttl
      BY DEF vars
  <2>1. PICK t \in Thread : Hit(t)
        BY DEF Next, Call, Lookup, TakeLock, Miss, Store, Answer, Fail, Tick
  <2>2. pc[t] = "looking" /\ pc'[t] = "out"
        BY <2>1 DEF Hit, Return, Goto, IInv, TypeOK
  <2>3. PICK e \in Entries : e.key = key[t] /\ e.expires > start[t]
        BY <2>1 DEF Hit, Trusted
  <2>4. e \in Entry /\ e.expires <= e.answered + Ttl
        BY <2>3, SoundProperties DEF IInv, Entries, Sound, Young
  <2>5. start[t] < e.answered + Ttl
    <3>1. e.expires \in Int /\ e.answered \in Int /\ start[t] \in Int
          BY <2>4, BoundsAssumption DEF Entry, IInv, TypeOK
    <3>2. QED BY <2>3, <2>4, <3>1, BoundsAssumption
  <2>6. QED BY <2>2, <2>3, <2>5
<1>2. QED BY <1>1, Invariance, PTL DEF Spec, HitIsFresh
=============================================================================
