--------------------------- MODULE PooledDownload ---------------------------
(***************************************************************************)
(* net/pooled_download.py: the threads of one worker process fetch images  *)
(* over connections they share through one urllib3 pool.                   *)
(*                                                                         *)
(* A row is downloaded in up to Retries + 1 attempts.  An attempt takes an *)
(* idle connection to the host or makes one, follows redirects, reads the  *)
(* body piece by piece against a deadline, and gives the connection back,  *)
(* on whichever way it ends.  urllib3 itself gives the connection of a     *)
(* body back when it reads its end, which is before the code's `finally`.  *)
(***************************************************************************)
EXTENDS Integers, Sequences, SequencesExt

CONSTANTS
    Thread, Host, Row, HostOf,  \* HostOf: row |-> host of its URL
    Conn,          \* connection objects, enough for every pool and thread
    MaxPerHost,    \* idle connections kept per host
    Timeout,       \* ticks, of one attempt
    Retries,
    Redirects,     \* redirects followed by one attempt
    None

ASSUME RowAssumption == /\ Row \subseteq Nat /\ HostOf \in [Row -> Host]
                        /\ None \notin Row \cup Host \cup Thread \cup Conn
                        /\ None \notin {"stream", "error"}
ASSUME BoundsAssumption ==
    /\ MaxPerHost \in Nat \ {0} /\ Timeout \in Nat \ {0}
    /\ Retries \in Nat /\ Redirects \in Nat
\* A connection object for every thread and every place in a pool.
ASSUME ConnAssumption ==
    /\ IsFiniteSet(Thread) /\ IsFiniteSet(Host) /\ IsFiniteSet(Conn)
    /\ Cardinality(Conn) >= Cardinality(Thread) + Cardinality(Host) * MaxPerHost

\* What is still to be read from a connection: nothing, one piece, or more
\* than can be read in any time.
Closed == -1
Short == 1
Endless == 2

\* Half seconds: 0.5 s, then 1 s, then 2 s each.
WaitBound == IF Retries <= 2 THEN 2 ^ Retries - 1 ELSE 3 + 4 * (Retries - 2)

VARIABLES
    managers,  \* PoolManagers made
    lock,      \* the thread that has _manager_lock
    pool,      \* host |-> idle connections, the next to be used last
    wire,      \* connection |-> Closed, or what is left to read on it
    result,    \* row |-> what the downloader returned for it
    pc, row,
    host,      \* the host of a thread's request, after redirects
    conn,      \* the connection its response holds
    sized,     \* length_remaining is a number, not None
    complete,  \* the body was read to its end
    headers,   \* ticks of the attempt in request(); Timeout is that or more
    body,      \* ticks of the attempt in read1
    hops,      \* redirects followed
    outcome,   \* what download_image returns
    attempt,   \* attempts of the row made before this one
    temporary, \* history: one of them failed of a timeout or of EAI_AGAIN
    slept      \* half seconds slept for the row

shared == <<managers, lock, pool, wire, result>>
local == <<pc, row, host, conn, sized, complete, headers, body, hops, outcome, attempt, temporary, slept>>
vars == <<shared, local>>

\* How an attempt fails: a timeout or EAI_AGAIN; a NewConnectionError of
\* another cause, as ECONNREFUSED; anything else, a status that is no 2xx and
\* X-Robots-Tag included.
Failure == {"temporary", "refused", "other"}

TypeOK ==
    /\ managers \in Nat
    /\ lock \in Thread \cup {None}
    /\ pool \in [Host -> Seq(Conn)]
    /\ wire \in [Conn -> {Closed, 0, Short, Endless}]
    /\ result \in [Row -> {None, "stream", "error"}]
    /\ pc \in [Thread -> {"free", "make", "made", "send", "request", "read", "finally"}]
    /\ row \in [Thread -> Row \cup {None}]
    /\ host \in [Thread -> Host \cup {None}]
    /\ conn \in [Thread -> Conn \cup {None}]
    /\ sized \in [Thread -> BOOLEAN] /\ complete \in [Thread -> BOOLEAN]
    /\ headers \in [Thread -> 0..Timeout] /\ body \in [Thread -> Nat]
    /\ hops \in [Thread -> 0..Redirects]
    /\ outcome \in [Thread -> {None, "stream"} \cup Failure]
    /\ attempt \in [Thread -> 0..Retries] /\ temporary \in [Thread -> BOOLEAN]
    /\ slept \in [Thread -> Nat]

Init ==
    /\ managers = 0 /\ lock = None
    /\ pool = [h \in Host |-> <<>>]
    /\ wire = [c \in Conn |-> Closed]
    /\ result = [r \in Row |-> None]
    /\ pc = [t \in Thread |-> "free"]
    /\ row = [t \in Thread |-> None] /\ host = [t \in Thread |-> None]
    /\ conn = [t \in Thread |-> None]
    /\ sized = [t \in Thread |-> FALSE] /\ complete = [t \in Thread |-> FALSE]
    /\ headers = [t \in Thread |-> 0] /\ body = [t \in Thread |-> 0]
    /\ hops = [t \in Thread |-> 0]
    /\ outcome = [t \in Thread |-> None]
    /\ attempt = [t \in Thread |-> 0] /\ temporary = [t \in Thread |-> FALSE]
    /\ slept = [t \in Thread |-> 0]

Goto(t, label) == pc' = [pc EXCEPT ![t] = label]

\* request() takes any time: its timeout is that of one connect or recv, and
\* several addresses, headers, and the bodies of redirects need many of them.
Wait(t) == \E n \in headers[t]..Timeout : headers' = [headers EXCEPT ![t] = n]

\* read1 of a body of known length is one recv.  Of another one it also reads
\* chunk sizes and trailers, and Timeout stands for any longer time.
Spend(t, d) == body' = [body EXCEPT ![t] = @ + d]

-----------------------------------------------------------------------------
(* The pool: urllib3, as the code sees it. *)

Held == {conn[t] : t \in Thread} \ {None}
Idle(h) == ToSet(pool[h])
Unused == Conn \ (Held \cup UNION {Idle(h) : h \in Host})

\* block=False: past maxsize the connection is closed and forgotten.
\* w is what is left on the connection c.
Put(h, c, w) ==
    IF Len(pool[h]) < MaxPerHost
    THEN pool' = [pool EXCEPT ![h] = Append(@, c)] /\ wire' = [wire EXCEPT ![c] = w]
    ELSE wire' = [wire EXCEPT ![c] = Closed] /\ UNCHANGED pool

\* The most recently returned connection, or a new one.  One with something
\* to read on it counts as dropped, if that something has arrived.
Connect(t) ==
    /\ pc[t] = "send"
    /\ \E c \in IF pool[host[t]] = <<>> THEN {CHOOSE u \in Unused : TRUE}
                                       ELSE {Last(pool[host[t]])} :
          /\ conn' = [conn EXCEPT ![t] = c]
          /\ wire' \in {wire, [wire EXCEPT ![c] = IF @ > 0 THEN Closed ELSE @]}
    /\ pool' = [pool EXCEPT ![host[t]] = IF @ = <<>> THEN @ ELSE Front(@)]
    /\ Goto(t, "request")
    /\ UNCHANGED <<managers, lock, result, row, host, sized, complete, headers, body, hops,
                   outcome, attempt, temporary, slept>>

\* The connection goes back and the response no longer has it.
Release(t, w) ==
    /\ Put(host[t], conn[t], w)
    /\ conn' = [conn EXCEPT ![t] = None]

-----------------------------------------------------------------------------
(* download_image *)

Taken(r) == result[r] # None \/ \E t \in Thread : row[t] = r

\* The deadline is set, and `_manager` looked at without the lock.
Call(t, r) ==
    /\ host' = [host EXCEPT ![t] = HostOf[r]]
    /\ Goto(t, IF managers = 0 THEN "make" ELSE "send")

\* The thread pool hands out the rows in order.
Take(t, r) ==
    /\ pc[t] = "free" /\ ~Taken(r) /\ \A q \in Row : q < r => Taken(q)
    /\ row' = [row EXCEPT ![t] = r]
    /\ Call(t, r)
    /\ UNCHANGED <<shared, conn, sized, complete, headers, body, hops, outcome, attempt,
                   temporary, slept>>

TakeLock(t) ==
    /\ pc[t] = "make" /\ lock = None
    /\ lock' = t
    /\ Goto(t, "made")
    /\ UNCHANGED <<managers, pool, wire, result, row, host, conn, sized, complete, headers, body,
                   hops, outcome, attempt, temporary, slept>>

Made == IF managers = 0 THEN 1 ELSE managers

\* Slip: the lock is not given back.
MakeManagerKeepingLock(t) ==
    /\ pc[t] = "made"
    /\ managers' = Made
    /\ Goto(t, "send")
    /\ UNCHANGED <<lock, pool, wire, result, row, host, conn, sized, complete, headers, body, hops,
                   outcome, attempt, temporary, slept>>

MakeManager(t) ==
    /\ pc[t] = "made"
    /\ managers' = Made
    /\ lock' = None
    /\ Goto(t, "send")
    /\ UNCHANGED <<pool, wire, result, row, host, conn, sized, complete, headers, body, hops,
                   outcome, attempt, temporary, slept>>

Return(t, o, label) ==
    /\ outcome' = [outcome EXCEPT ![t] = o]
    /\ Goto(t, label)

\* request() raises: urllib3 has closed the connection, and puts it back.
\* There is no response, so `finally` does nothing.
RequestFails(t) ==
    /\ pc[t] = "request"
    /\ Wait(t)
    /\ \E e \in Failure : Return(t, e, "finally")
    /\ Release(t, Closed)
    /\ hops' = [hops EXCEPT ![t] = 0]
    /\ UNCHANGED <<managers, lock, result, row, host, sized, complete, body, attempt, temporary, slept>>

\* A redirect's body is read to its end and dropped, with no deadline, or its
\* connection is closed.
Redirect(t) ==
    /\ pc[t] = "request" /\ hops[t] < Redirects
    /\ \E w \in {0, Closed} : Release(t, w)
    /\ host' \in {[host EXCEPT ![t] = h] : h \in Host}
    /\ Wait(t)
    /\ hops' = [hops EXCEPT ![t] = @ + 1]
    /\ Goto(t, "send")
    /\ UNCHANGED <<managers, lock, result, row, sized, complete, body, outcome, attempt, temporary, slept>>

\* A status and headers, and some body that is there or not, whose length
\* they name or not.
Answer(t) ==
    /\ pc[t] = "request"
    /\ \E w \in {0, Short, Endless}, n \in BOOLEAN :
          /\ wire' = [wire EXCEPT ![conn[t]] = w]
          /\ sized' = [sized EXCEPT ![t] = n]
    /\ Wait(t)
    /\ hops' = [hops EXCEPT ![t] = 0]
    /\ UNCHANGED <<managers, lock, pool, result, row, host, conn, complete, body, attempt, temporary, slept>>

\* Not 2xx, or disallowed by X-Robots-Tag: the body is left unread.
Refuse(t) == Answer(t) /\ Return(t, "other", "finally")

Accept(t) == Answer(t) /\ Goto(t, "read") /\ UNCHANGED outcome

\* time.monotonic() >= deadline
Elapsed(t) == headers[t] + body[t]
Expired(t) == Elapsed(t) >= Timeout

\* The test before a read; the one after it is that of ReadPiece and ReadEnd.
Expire(t) ==
    /\ pc[t] = "read" /\ Expired(t)
    /\ Return(t, "temporary", "finally")
    /\ UNCHANGED <<shared, row, host, conn, sized, complete, headers, body, hops, attempt, temporary, slept>>

\* Slip: not after a read.
LateReadIgnored(t) == FALSE

LateRead(t) == headers[t] + body'[t] >= Timeout

\* read1 returns some bytes.  With the last of a body of known length urllib3
\* may give the connection back already.
ReadPiece(t) ==
    /\ pc[t] = "read" /\ ~Expired(t) /\ conn[t] # None /\ wire[conn[t]] # 0
    /\ \E d \in 0..Timeout : (wire[conn[t]] = Endless => d > 0) /\ Spend(t, d)
    /\ \/ /\ wire' = [wire EXCEPT ![conn[t]] = IF @ = Endless THEN @ ELSE 0]
          /\ UNCHANGED <<pool, conn>>
       \/ sized[t] /\ wire[conn[t]] = Short /\ Release(t, 0)
    /\ IF LateRead(t) THEN Return(t, "temporary", "finally") ELSE UNCHANGED <<outcome, pc>>
    /\ UNCHANGED <<managers, lock, result, row, host, sized, complete, headers, hops, attempt, temporary, slept>>

\* read1 returns nothing: the body is over and the connection has gone back.
\* Decoding it may still fail.
ReadEnd(t) ==
    /\ pc[t] = "read" /\ ~Expired(t) /\ (conn[t] # None => wire[conn[t]] = 0)
    /\ \E d \in 0..Timeout : Spend(t, d)
    /\ IF conn[t] = None THEN UNCHANGED <<pool, wire, conn>> ELSE Release(t, 0)
    /\ complete' = [complete EXCEPT ![t] = ~LateRead(t)]
    /\ \E o \in IF LateRead(t) THEN {"temporary"} ELSE {"stream", "other"} :
          Return(t, o, "finally")
    /\ UNCHANGED <<managers, lock, result, row, host, sized, headers, hops, attempt, temporary, slept>>

\* read1 raises, early or late, and past the test after it: urllib3 closes the
\* connection and puts it back.
ReadFails(t) ==
    /\ pc[t] = "read" /\ ~Expired(t)
    /\ \E d \in 0..Timeout : Spend(t, d)
    /\ \E o \in {"temporary", "other"} : Return(t, o, "finally")
    /\ IF conn[t] = None THEN UNCHANGED <<pool, wire, conn>> ELSE Release(t, Closed)
    /\ UNCHANGED <<managers, lock, result, row, host, sized, complete, headers, hops, attempt, temporary, slept>>

\* Slip: no length is taken for nothing left.
UnreadIfSized(t) == ~complete[t] /\ sized[t] /\ wire[conn[t]] # 0

\* not complete and response.length_remaining != 0
Unread(t) == ~complete[t] /\ (sized[t] => wire[conn[t]] # 0)

\* Slip: the connection goes back and the response keeps it.
GiveBackKeeping(t) ==
    IF conn[t] = None THEN UNCHANGED <<pool, wire, conn>>
    ELSE /\ Put(host[t], conn[t], IF Unread(t) THEN Closed ELSE wire[conn[t]])
         /\ UNCHANGED conn

\* The `finally`: nothing to do without a response, or if urllib3 has done it.
GiveBack(t) ==
    IF conn[t] = None THEN UNCHANGED <<pool, wire, conn>>
    ELSE Release(t, IF Unread(t) THEN Closed ELSE wire[conn[t]])

-----------------------------------------------------------------------------
(* download_image_with_retry *)

\* Slip: NewConnectionError is a ConnectTimeoutError, whatever its cause.
TransientByClass(e) == e \in {"temporary", "refused"}

\* _transient_exception: the cause of a NewConnectionError, or a timeout.
Transient(e) == e = "temporary"

\* 0.5 * 2 ** min(attempt, 2), in half seconds.
Nap(n) == 2 ^ (IF n < 2 THEN n ELSE 2)

More(t) == attempt[t] < Retries

\* download_image returns, and its locals go.
ReturnFrom(t) ==
    /\ pc[t] = "finally"
    /\ GiveBack(t)
    /\ outcome' = [outcome EXCEPT ![t] = None]
    /\ headers' = [headers EXCEPT ![t] = 0] /\ body' = [body EXCEPT ![t] = 0]
    /\ sized' = [sized EXCEPT ![t] = FALSE] /\ complete' = [complete EXCEPT ![t] = FALSE]

\* A stream, or the last failure, is the row's result.
Done(t) ==
    /\ ReturnFrom(t) /\ (outcome[t] = "stream" \/ ~More(t))
    /\ result' = [result EXCEPT ![row[t]] =
                     IF outcome[t] = "stream" THEN "stream" ELSE "error"]
    /\ row' = [row EXCEPT ![t] = None] /\ host' = [host EXCEPT ![t] = None]
    /\ attempt' = [attempt EXCEPT ![t] = 0] /\ temporary' = [temporary EXCEPT ![t] = FALSE]
    /\ slept' = [slept EXCEPT ![t] = 0]
    /\ Goto(t, "free")
    /\ UNCHANGED <<managers, lock, hops>>

\* Any other failure is tried again, a transient one after a sleep.
Retry(t) ==
    /\ ReturnFrom(t) /\ outcome[t] # "stream" /\ More(t)
    /\ slept' = [slept EXCEPT ![t] = @ + IF Transient(outcome[t]) THEN Nap(attempt[t]) ELSE 0]
    /\ attempt' = [attempt EXCEPT ![t] = @ + 1]
    /\ temporary' = [temporary EXCEPT ![t] = @ \/ outcome[t] = "temporary"]
    /\ Call(t, row[t])
    /\ UNCHANGED <<managers, lock, result, row, hops>>

Request(t) == RequestFails(t) \/ Redirect(t) \/ Refuse(t) \/ Accept(t)

Read(t) == ReadPiece(t) \/ ReadEnd(t) \/ ReadFails(t)

Step(t) ==
    \/ TakeLock(t) \/ MakeManager(t) \/ Connect(t) \/ Request(t)
    \/ Expire(t) \/ Read(t) \/ Done(t) \/ Retry(t)

Next == \E t \in Thread : Step(t) \/ \E r \in Row : Take(t, r)

Spec == Init /\ [][Next]_vars

\* Calls that only single recvs bound: each byte may have the timeout anew.
Unbounded(t) ==
    \/ pc[t] = "request"
    \/ pc[t] = "read" /\ ~sized[t] /\ ~Expired(t)

\* Threads run on, and a recv ends by its timeout.  No unbounded call need end.
FairSpec == Spec /\ \A t \in Thread : WF_vars(~Unbounded(t) /\ Step(t))

-----------------------------------------------------------------------------
\* "Unread bytes must never be reused as the next response": nothing is left
\* on an idle connection, nor on one a request is about to be sent on,
\* however the response before it ended.
NoUnreadReused ==
    /\ \A h \in Host : \A c \in Idle(h) : wire[c] <= 0
    /\ \A t \in Thread : pc[t] = "request" => wire[conn[t]] <= 0

\* One pool per process, though threads start together, and a connection is
\* in one place: no two threads hold it, none holds an idle one, and no pool
\* has it twice, though urllib3 may have given it back, and another thread
\* taken it, before the `finally` gives it back.
OneUserEach ==
    /\ managers <= 1
    /\ \A t, u \in Thread : conn[t] = conn[u] /\ conn[t] # None => t = u
    /\ \A h \in Host : Held \cap Idle(h) = {} /\ IsInjective(pool[h])
    /\ \A g, h \in Host : g # h => Idle(g) \cap Idle(h) = {}

\* A transfer goes on, and yields a stream, only before its deadline, counted
\* from before the request; and the read that crosses it is the last, so that
\* with a body of known length the attempt ends before twice the timeout,
\* though it trickles for ever.  How long request() takes is not bounded.
AttemptInTime ==
    \A t \in Thread :
       /\ outcome[t] = "stream" \/ (pc[t] = "read" /\ body[t] > 0) => Elapsed(t) < Timeout
       /\ sized[t] /\ body[t] > 0 => Elapsed(t) < 2 * Timeout

\* "The production two-retry policy adds at most 1.5 seconds", and only a
\* timeout or a temporary DNS failure is slept on: a row refused three times
\* is over at once.
WaitBudget ==
    \A t \in Thread :
       /\ slept[t] <= WaitBound
       /\ slept[t] > 0 => temporary[t]

\* Every row that is begun gets a result, also from servers that trickle a
\* body of known length for ever, but for those whose own thread stays in one
\* unbounded call: no thread that hangs there holds up the rows of another.
EveryRowEnds ==
    \A r \in Row :
       \/ (\E t \in Thread : row[t] = r) ~> result[r] # None
       \/ \E t \in Thread : <>[](row[t] = r /\ Unbounded(t))
=============================================================================
