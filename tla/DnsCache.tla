------------------------------ MODULE DnsCache ------------------------------
(***************************************************************************)
(* The per-process resolver cache of net/dns_cache.py: _lookup, called by  *)
(* every downloading thread of a worker in place of socket.getaddrinfo.    *)
(*                                                                         *)
(* A lookup reads the clock, then looks in the cache under the lock; a     *)
(* miss resolves outside the lock, for as long as that takes, and takes    *)
(* the lock again to store its answer and evict the oldest.                *)
(***************************************************************************)
EXTENDS Integers, Sequences, SequencesExt

CONSTANTS
    Thread,
    Key,       \* (host, port, family, type, proto, flags)
    Ttl,       \* ticks an answer is trusted
    MaxSize,   \* entries kept
    MaxTime, MaxCalls, \* bounds on the clock and on the lookups of a behaviour
    None

ASSUME BoundsAssumption == /\ Ttl \in Nat /\ MaxSize \in Nat \ {0}
                           /\ MaxTime \in Nat /\ MaxCalls \in Nat
ASSUME NoneAssumption == None \notin Thread \cup Key

VARIABLES
    cache,   \* the OrderedDict, least recently used first
    hits, misses,
    lock,    \* the thread that has _lock
    pc, key, \* a thread's place in _lookup and its argument
    start,   \* its clock reading on entry
    answer,  \* when the resolver answered it
    clock

vars == <<cache, hits, misses, lock, pc, key, start, answer, clock>>

Entry == [key : Key, expires : 0..MaxTime + Ttl, answered : 0..MaxTime]

TypeOK ==
    /\ cache \in Seq(Entry)
    /\ hits \in Nat /\ misses \in Nat
    /\ lock \in Thread \cup {None}
    /\ pc \in [Thread -> {"out", "called", "looking", "resolving",
                          "answered", "storing"}]
    /\ key \in [Thread -> Key \cup {None}]
    /\ start \in [Thread -> 0..MaxTime] /\ answer \in [Thread -> 0..MaxTime]
    /\ clock \in 0..MaxTime

Init ==
    /\ cache = <<>> /\ hits = 0 /\ misses = 0
    /\ lock = None
    /\ pc = [t \in Thread |-> "out"]
    /\ key = [t \in Thread |-> None]
    /\ start = [t \in Thread |-> 0] /\ answer = [t \in Thread |-> 0]
    /\ clock = 0

Goto(t, label) == pc' = [pc EXCEPT ![t] = label]
\* _lookup ends, and its locals with it.
Return(t) ==
    /\ Goto(t, "out")
    /\ key' = [key EXCEPT ![t] = None]
    /\ start' = [start EXCEPT ![t] = 0]
    /\ answer' = [answer EXCEPT ![t] = 0]

Entries == {cache[i] : i \in DOMAIN cache}

\* del _cache[key], if it is there: a key has one place.
Without(k) ==
    IF \E i \in DOMAIN cache : cache[i].key = k
    THEN RemoveAt(cache, CHOOSE i \in DOMAIN cache : cache[i].key = k)
    ELSE cache

\* Slip: the expiry is not looked at.
TrustedForever(e, t) == e.key = key[t]

Trusted(e, t) == e.key = key[t] /\ e.expires > start[t]

Call(t, k) ==
    /\ pc[t] = "out" /\ hits + misses < MaxCalls
    /\ key' = [key EXCEPT ![t] = k]
    /\ start' = [start EXCEPT ![t] = clock]
    /\ Goto(t, "called")
    /\ UNCHANGED <<cache, hits, misses, lock, answer, clock>>

TakeLock(t) ==
    /\ pc[t] \in {"called", "answered"} /\ lock = None
    /\ lock' = t
    /\ Goto(t, IF pc[t] = "called" THEN "looking" ELSE "storing")
    /\ UNCHANGED <<cache, hits, misses, key, start, answer, clock>>

\* An entry that has not expired: most recently used now, and the result.
Hit(t) ==
    /\ pc[t] = "looking"
    /\ \E e \in Entries : Trusted(e, t) /\ cache' = Append(Without(key[t]), e)
    /\ hits' = hits + 1
    /\ lock' = None
    /\ Return(t)
    /\ UNCHANGED <<misses, clock>>

\* Slip: the resolution is made under the lock.
MissHoldingLock(t) ==
    /\ pc[t] = "looking"
    /\ \A e \in Entries : ~Trusted(e, t)
    /\ cache' = Without(key[t])
    /\ misses' = misses + 1
    /\ Goto(t, "resolving")
    /\ UNCHANGED <<hits, lock, key, start, answer, clock>>

\* None, or an expired one, which goes; the lock is released before the
\* original getaddrinfo is called.
Miss(t) ==
    /\ pc[t] = "looking"
    /\ \A e \in Entries : ~Trusted(e, t)
    /\ cache' = Without(key[t])
    /\ misses' = misses + 1
    /\ lock' = None
    /\ Goto(t, "resolving")
    /\ UNCHANGED <<hits, key, start, answer, clock>>

\* The resolver answers at some time of its own choosing.
Answer(t) ==
    /\ pc[t] = "resolving"
    /\ answer' = [answer EXCEPT ![t] = clock]
    /\ Goto(t, "answered")
    /\ UNCHANGED <<cache, hits, misses, lock, key, start, clock>>

\* gaierror goes to the caller and nothing is remembered.
Fail(t) ==
    /\ pc[t] = "resolving"
    /\ Return(t)
    /\ UNCHANGED <<cache, hits, misses, lock, clock>>

\* Slip: from the insertion instead of the call.
ExpiryFromNow(t) == clock + Ttl

Expiry(t) == start[t] + Ttl

\* Slip: nothing is evicted.
KeepAll(entries) == entries

\* popitem(last=False) until the size is right.
Evict(entries) ==
    IF Len(entries) <= MaxSize THEN entries
    ELSE SubSeq(entries, Len(entries) - MaxSize + 1, Len(entries))

\* Storing a key that is there keeps its place; move_to_end then moves it.
Store(t) ==
    /\ pc[t] = "storing"
    /\ cache' = Evict(Append(Without(key[t]),
                             [key |-> key[t], expires |-> Expiry(t),
                              answered |-> answer[t]]))
    /\ lock' = None
    /\ Return(t)
    /\ UNCHANGED <<hits, misses, clock>>

Tick ==
    /\ clock < MaxTime
    /\ clock' = clock + 1
    /\ UNCHANGED <<cache, hits, misses, lock, pc, key, start, answer>>

Lookup(t) == TakeLock(t) \/ Hit(t) \/ Miss(t) \/ Store(t)

Next ==
    \/ \E t \in Thread : \/ \E k \in Key : Call(t, k)
                         \/ Lookup(t) \/ Answer(t) \/ Fail(t)
    \/ Tick

Spec == Init /\ [][Next]_vars

\* Threads run on, and the lock is handed to whoever keeps asking; a resolver
\* need not answer.
FairSpec == Spec /\ \A t \in Thread : SF_vars(TakeLock(t)) /\ WF_vars(Lookup(t))

-----------------------------------------------------------------------------
\* "Grow without limit" it must not: the cache is within its size, and holds
\* one entry per key, whichever lookups overlap.
Bounded ==
    /\ Len(cache) <= MaxSize
    /\ \A i, j \in DOMAIN cache : cache[i].key = cache[j].key => i = j

\* A hit hands out an answer no older than Ttl when the lookup began.
HitIsFresh ==
    [][hits' # hits =>
         \E t \in Thread : pc[t] = "looking" /\ pc'[t] = "out" /\
            \E e \in Entries : e.key = key[t] /\ start[t] < e.answered + Ttl]_vars

\* "A slow or hanging resolver must not stop the other 31 threads": a lookup
\* gets as far as a hit or its own resolution though nobody's resolver
\* call ever returns.
NobodyBlocks ==
    \A t \in Thread : pc[t] = "called" ~> pc[t] \in {"out", "resolving"}
=============================================================================
