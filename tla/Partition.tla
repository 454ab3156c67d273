----------------------------- MODULE Partition -----------------------------
(***************************************************************************)
(* The plan: the corpus cut into tasks.  plan_tasks of                     *)
(* core/metadata_partition.py cuts the source files into tasks of a fixed  *)
(* size; repartition_tail, behind scripts/repartition_plan.py, later cuts  *)
(* the tasks from a boundary on again to another size.  Each pass of their *)
(* loops is one step.  A source file is its number in path order, a range  *)
(* of its rows is a piece, and a task is the pieces it downloads.          *)
(***************************************************************************)
EXTENDS Integers, Sequences, SequencesExt

CONSTANTS
    Sources,    \* the corpora: sequences of row counts, by source file
    Sizes,      \* --urls-per-task
    MaxRecuts   \* bound on the repartitions of one behaviour

ASSUME SizesAssumption == Sizes \subseteq Nat \ {0}
ASSUME SourcesAssumption == \A s \in Sources : s \in Seq(Nat)
ASSUME BoundAssumption == MaxRecuts \in Nat

VARIABLES
    sources, size,  \* the inputs of the cut in hand
    first,          \* the task it begins at
    todo,           \* the ranges it has still to go through
    pieces, filled, \* the task being filled, and its rows so far
    tasks,          \* the tasks finished: rows and pieces, by task id + 1
    pc,             \* "cutting", or "planned" when the plan is written
    written,        \* ids of the tasks that have a directory
    recuts

vars == <<sources, size, first, todo, pieces, filled, tasks, pc, written, recuts>>

Piece(path, start, end) == [path |-> path, start |-> start, end |-> end]
\* What build_manifest makes of pieces: their rows, in order.
RowsIn(p) == [i \in 1..p.end - p.start |-> <<p.path, p.start + i - 1>>]
RowsOf(ps) == FlattenSeq([i \in DOMAIN ps |-> RowsIn(ps[i])])
\* The pieces of tasks one after the other.
PiecesOf(ts) == FlattenSeq([i \in DOMAIN ts |-> ts[i].pieces])
Whole(rows) == [i \in DOMAIN rows |-> Piece(i, 0, rows[i])]

\* The ranges of rows of the files with these numbers.
Ranges(paths) == {p \in [path : paths, start : Nat, end : Nat] : p.start <= p.end}

TypeOK ==
    LET pieceSet == Ranges(DOMAIN sources)
    IN  /\ sources \in Sources /\ size \in Sizes
        /\ todo \in Seq(pieceSet) /\ pieces \in Seq(pieceSet)
        /\ filled \in 0..size - 1
        /\ tasks \in Seq([rows : Nat \ {0}, pieces : Seq(pieceSet)])
        /\ first \in 0..Len(tasks)
        /\ pc \in {"cutting", "planned"}
        /\ written \subseteq 0..Len(tasks) - 1
        /\ recuts \in 0..MaxRecuts

Init ==
    /\ sources \in Sources /\ size \in Sizes
    /\ first = 0 /\ todo = Whole(sources)
    /\ pieces = <<>> /\ filled = 0 /\ tasks = <<>>
    /\ pc = "cutting" /\ written = {} /\ recuts = 0

-----------------------------------------------------------------------------
\* As many rows of the range as the task has room for.
Take ==
    LET left == Head(todo).end - Head(todo).start
    IN  IF left < size - filled THEN left ELSE size - filled

\* Slip: adjacent pieces are not coalesced.
WithPieceApart(ps, p) == Append(ps, p)

\* repartition_tail joins a piece to the one before when they adjoin;
\* plan_tasks only appends.
WithPiece(ps, p) ==
    IF recuts > 0 /\ ps # <<>> /\ Last(ps).path = p.path /\ Last(ps).end = p.start
    THEN Append(Front(ps), Piece(p.path, Last(ps).start, p.end))
    ELSE Append(ps, p)

\* Slip: a task is closed one row early.
FillEarly(ps, n) ==
    IF n >= size - 1
    THEN /\ tasks' = Append(tasks, [rows |-> n, pieces |-> ps])
         /\ pieces' = <<>> /\ filled' = 0
    ELSE /\ UNCHANGED tasks
         /\ pieces' = ps /\ filled' = n

\* The task is finished when it is full.
Fill(ps, n) ==
    IF n = size
    THEN /\ tasks' = Append(tasks, [rows |-> n, pieces |-> ps])
         /\ pieces' = <<>> /\ filled' = 0
    ELSE /\ UNCHANGED tasks
         /\ pieces' = ps /\ filled' = n

CutPiece ==
    /\ pc = "cutting" /\ todo # <<>>
    /\ LET r == Head(todo)
       IN  /\ r.start < r.end
           /\ Fill(WithPiece(pieces, Piece(r.path, r.start, r.start + Take)), filled + Take)
           /\ todo' = <<Piece(r.path, r.start + Take, r.end)>> \o Tail(todo)
    /\ UNCHANGED <<sources, size, first, pc, written, recuts>>

\* while offset < end: false, also at once for a file without rows.
NextRange ==
    /\ pc = "cutting" /\ todo # <<>>
    /\ Head(todo).start >= Head(todo).end
    /\ todo' = Tail(todo)
    /\ UNCHANGED <<sources, size, first, pieces, filled, tasks, pc, written, recuts>>

\* Slip: the short last task is dropped.
LastDropped == tasks

WithLast == IF filled > 0 THEN Append(tasks, [rows |-> filled, pieces |-> pieces])
                          ELSE tasks

CutEnds ==
    /\ pc = "cutting" /\ todo = <<>>
    /\ tasks' = WithLast
    /\ pieces' = <<>> /\ filled' = 0
    /\ pc' = "planned"
    /\ UNCHANGED <<sources, size, first, todo, written, recuts>>

-----------------------------------------------------------------------------
\* A subjob starts on a task: its directory exists from then on.
StartTask(id) ==
    /\ pc = "planned" /\ id \in 0..Len(tasks) - 1
    /\ written' = written \cup {id}
    /\ UNCHANGED <<sources, size, first, todo, pieces, filled, tasks, pc, recuts>>

\* Slip: the boundary task itself may have been written.
UnwrittenAfter(boundary) == \A id \in written : id <= boundary

\* repartition_plan refuses when a task from the boundary on has a directory.
Unwritten(boundary) == \A id \in written : id < boundary

\* The operator stops submitting while it runs.
Recut(boundary, n) ==
    /\ pc = "planned" /\ recuts < MaxRecuts
    /\ boundary \in 0..Len(tasks) /\ Unwritten(boundary)
    /\ first' = boundary /\ size' = n
    /\ tasks' = SubSeq(tasks, 1, boundary)
    /\ todo' = PiecesOf(SubSeq(tasks, boundary + 1, Len(tasks)))
    /\ pc' = "cutting" /\ recuts' = recuts + 1
    /\ UNCHANGED <<sources, pieces, filled, written>>

Next ==
    \/ CutPiece \/ NextRange \/ CutEnds
    \/ \E id \in 0..Len(tasks) - 1 : StartTask(id)
    \/ \E boundary \in 0..Len(tasks), n \in Sizes : Recut(boundary, n)

Spec == Init /\ [][Next]_vars

-----------------------------------------------------------------------------
\* At every step of every cut, the finished tasks, the one being filled and
\* the ranges to come name each row of the corpus once, in order.
EveryRowOnce ==
    RowsOf(PiecesOf(tasks)) \o RowsOf(pieces) \o RowsOf(todo) = RowsOf(Whole(sources))

\* A task's row count is that of its pieces (build_task_manifest refuses it
\* otherwise), and from the boundary on only the plan's last task is short.
TasksFull ==
    /\ \A i \in DOMAIN tasks : tasks[i].rows = Len(RowsOf(tasks[i].pieces))
    /\ \A i \in first + 1..Len(tasks) :
          \/ tasks[i].rows = size
          \/ pc = "planned" /\ i = Len(tasks) /\ tasks[i].rows < size

\* No two neighbours of these pieces are one range.
NoneAdjoin(ps) ==
    \A k \in 1..Len(ps) - 1 : ~ (ps[k].path = ps[k + 1].path /\ ps[k].end = ps[k + 1].start)

\* "So repeated partitioning is stable": no task from the boundary on names
\* two pieces that one would do for, so with EveryRowOnce and TasksFull a plan
\* does not depend on the sizes it was cut to before.
Coalesced == \A i \in first + 1..Len(tasks) : NoneAdjoin(tasks[i].pieces)

\* A task whose directory exists is the same task in every later plan.
WrittenTaskKept ==
    [][\A id \in written : id < Len(tasks') /\ tasks'[id + 1] = tasks[id + 1]]_vars
=============================================================================
