------------------------------ MODULE Manifest ------------------------------
(***************************************************************************)
(* A task's manifest: the plan entry, build_task_manifest.py, which turns  *)
(* it into urls.parquet at the start of every attempt, cap_manifest.py     *)
(* after it, and inspect_metadata.py, which an operator runs before.       *)
(*                                                                         *)
(* A metadata tree is the files under its root in path order; a path is    *)
(* the sequence of its components.  The attempts of a task come one after  *)
(* another, each of which may be killed anywhere; between them the corpus  *)
(* may be released again.                                                  *)
(***************************************************************************)
EXTENDS DatasetSchema

CONSTANTS
    Trees,       \* metadata trees: the corpus and its files
    PlanMount,   \* where the planner saw the tree: components of a path
    JobMounts,   \* where the jobs may see it
    Sizes,       \* rows per task
    Caps,        \* OD_MAX_URLS; 0 is no cap
    MaxAttempts, MaxReleases,
    None

ASSUME MountAssumption ==
    \A f \in UNION {ToSet(t.files) : t \in Trees} : Head(f.path) \notin ToSet(PlanMount)
\* A path has components; a file has rows and named columns, and a tree its
\* files in order, each at a path of its own.
ASSUME TreesAssumption ==
    /\ PlanMount \in Seq(ToSet(PlanMount))
    /\ \A t \in Trees :
          /\ t.files \in Seq(ToSet(t.files))
          /\ \A f \in ToSet(t.files) :
                /\ f.path \in Seq(ToSet(f.path)) /\ f.path # <<>>
                /\ f.rows \in Nat
                /\ f.columns \in Seq(ToSet(f.columns)) /\ NoColumn \notin ToSet(f.columns)
                /\ \A g \in ToSet(t.files) : f.path = g.path => f = g
          /\ t.corpus \in DOMAIN DOCUMENTED
ASSUME BoundsAssumption ==
    /\ MaxAttempts \in Nat /\ MaxReleases \in Nat
    /\ Sizes \subseteq Nat \ {0} /\ Caps \subseteq Nat

VARIABLES
    planned,   \* the tree that was planned
    absolute,  \* an older plan, with absolute paths?
    pieces,    \* of the task, as [path, start, end]
    tree,      \* what is under OD_META_ROOT now
    mount,     \* of OD_META_ROOT
    pc,        \* of the attempt: "none", "build", "open", "write", "replace",
               \* "cap" and "ready", when the download reads the manifest
    cap,       \* of the attempt
    capped,    \* cap_manifest is writing
    table,     \* in memory: a sequence of rows
    partial, output,  \* urls.parquet.partial and urls.parquet
    attempts, releases

vars == <<planned, absolute, pieces, tree, mount, pc, cap, capped, table, partial, output,
          attempts, releases>>

\* A file that is not all written: no row of it can be read.
Torn == <<>>

-----------------------------------------------------------------------------
(* The plan *)

\* Every row of the corpus in order: the number of its file and its index.
CorpusRows(t) == FlattenSeq([k \in DOMAIN t.files |-> [i \in 1..t.files[k].rows |-> <<k, i - 1>>]])

TotalRows(t) == Len(CorpusRows(t))

\* The pieces of rows a + 1 to b of the corpus (module Partition has the
\* loop); an older plan recorded the path as it was mounted.
PlannedPieces(t, a, b, abs) ==
    LET rows == {CorpusRows(t)[i] : i \in a + 1..IF b < TotalRows(t) THEN b ELSE TotalRows(t)}
        Of(k) == LET mine == {r[2] : r \in {q \in rows : q[1] = k}}
                 IN  IF mine = {} THEN <<>>
                     ELSE <<[path |-> (IF abs THEN PlanMount ELSE <<>>) \o t.files[k].path,
                             start |-> Min(mine), end |-> Max(mine) + 1]>>
    IN  FlattenSeq([k \in DOMAIN t.files |-> Of(k)])

Init ==
    /\ planned \in Trees /\ tree = planned
    /\ absolute \in BOOLEAN
    /\ \E size \in Sizes, a \in 0..TotalRows(planned) - 1 :
          /\ a % size = 0
          /\ pieces = PlannedPieces(planned, a, a + size, absolute)
    /\ mount \in JobMounts
    /\ pc = "none" /\ cap = 0 /\ capped = FALSE /\ table = <<>>
    /\ partial = None /\ output = None
    /\ attempts = 0 /\ releases = 0

RowCount(ps) == FoldLeft(LAMBDA n, p : n + p.end - p.start, 0, ps)
PlannedRows == RowCount(pieces)

-----------------------------------------------------------------------------
(* build_task_manifest.py *)

Exists(path) == \E f \in ToSet(tree.files) : f.path = path

\* Slip: the shortest match wins.
ShortestSuffix(recorded) ==
    LET found == {s \in Suffixes(recorded) : Exists(s)}
    IN  IF found = {} THEN None ELSE CHOOSE s \in found : \A r \in found : Len(s) <= Len(r)

\* A relative path is joined with the root.  An absolute one is taken where
\* it exists, and rebased on the root at its longest suffix that exists there
\* otherwise.  The path under the root that is read, or None.
resolve_source(recorded) ==
    LET here == SubSeq(recorded, Len(PlanMount) + 1, Len(recorded))
        found == {s \in Suffixes(recorded) : Exists(s)}
    IN  IF ~absolute THEN IF Exists(recorded) THEN recorded ELSE None
        ELSE IF mount = PlanMount /\ Exists(here) THEN here
        ELSE IF found = {} THEN None
        ELSE CHOOSE s \in found : \A r \in found : Len(r) <= Len(s)

FileAt(path) == CHOOSE f \in ToSet(tree.files) : f.path = path

\* Row i of the file, each of its fields being the column it is taken from.
Row(f, i, schema) ==
    [path |-> f.path, index |-> i,
     fields |-> [role \in columns_to_carry(schema) |-> schema[role]]]

\* The rows of the pieces in order; None if a file is missing, holds too few
\* rows or has no URL column, or the columns of two pieces differ.
build_manifest(ps) ==
    LET path == [i \in DOMAIN ps |-> resolve_source(ps[i].path)]
        file == [i \in DOMAIN ps |-> FileAt(path[i])]
        schema == [i \in DOMAIN ps |-> resolve(file[i].columns)]
        Rows(i) == [j \in 1..ps[i].end - ps[i].start |->
                      Row(file[i], ps[i].start + j - 1, schema[i])]
    IN  IF \/ \E i \in DOMAIN ps : path[i] = None
           \/ \E i \in DOMAIN ps : ps[i].end > file[i].rows \/ schema[i].url = NoColumn
           \/ \E i, j \in DOMAIN ps : columns_to_carry(schema[i]) # columns_to_carry(schema[j])
        THEN None
        ELSE FlattenSeq([i \in DOMAIN ps |-> Rows(i)])

Start(n) ==
    /\ pc = "none" /\ attempts < MaxAttempts
    /\ pc' = "build" /\ cap' = n /\ attempts' = attempts + 1
    /\ UNCHANGED <<planned, absolute, pieces, tree, mount, capped, table, partial, output, releases>>

Build ==
    /\ pc = "build"
    /\ LET built == build_manifest(pieces)
       IN  IF built = None \/ Len(built) # PlannedRows
           THEN pc' = "none" /\ UNCHANGED table
           ELSE pc' = "open" /\ table' = built
    /\ capped' = FALSE
    /\ UNCHANGED <<planned, absolute, pieces, tree, mount, cap, partial, output, attempts, releases>>

\* Slip: urls.parquet itself is written.
OpenInPlace ==
    /\ pc = "open" /\ pc' = "write"
    /\ output' = Torn /\ partial' = Torn
    /\ UNCHANGED <<planned, absolute, pieces, tree, mount, cap, capped, table, attempts, releases>>

\* pq.write_table, over what an attempt before may have left.
Open ==
    /\ pc = "open" /\ pc' = "write"
    /\ partial' = Torn
    /\ UNCHANGED <<planned, absolute, pieces, tree, mount, cap, capped, table, output, attempts, releases>>

Write ==
    /\ pc = "write" /\ pc' = "replace"
    /\ partial' = table
    /\ UNCHANGED <<planned, absolute, pieces, tree, mount, cap, capped, table, output, attempts, releases>>

\* os.replace
Replace ==
    /\ pc = "replace" /\ pc' = IF capped THEN "ready" ELSE "cap"
    /\ output' = partial /\ partial' = None
    /\ UNCHANGED <<planned, absolute, pieces, tree, mount, cap, capped, table, attempts, releases>>

\* except: temporary.unlink
WriteFails ==
    /\ pc \in {"open", "write", "replace"} /\ pc' = "none"
    /\ partial' = None
    /\ UNCHANGED <<planned, absolute, pieces, tree, mount, cap, capped, table, output, attempts, releases>>

\* cap_manifest.py
Cap ==
    /\ pc = "cap"
    /\ IF cap = 0 \/ Len(output) <= cap
       THEN pc' = "ready" /\ UNCHANGED <<capped, table>>
       ELSE pc' = "open" /\ capped' = TRUE /\ table' = SubSeq(output, 1, cap)
    /\ UNCHANGED <<planned, absolute, pieces, tree, mount, cap, partial, output, attempts, releases>>

\* The attempt ends, or is killed wherever it is.
End ==
    /\ pc # "none" /\ pc' = "none"
    /\ UNCHANGED <<planned, absolute, pieces, tree, mount, cap, capped, table, partial, output,
                   attempts, releases>>

\* The corpus is released again, with other files, rows or columns.
Release(t) ==
    /\ pc = "none" /\ releases < MaxReleases /\ t # tree
    /\ tree' = t /\ releases' = releases + 1
    /\ UNCHANGED <<planned, absolute, pieces, mount, pc, cap, capped, table, partial, output, attempts>>

Next ==
    \/ \E n \in Caps : Start(n)
    \/ Build \/ Open \/ Write \/ Replace \/ WriteFails \/ Cap \/ End
    \/ \E t \in Trees : Release(t)

Spec == Init /\ [][Next]_vars

-----------------------------------------------------------------------------
(* inspect_metadata.py --corpus *)

mismatched == {f \in ToSet(tree.files) : f.columns # Head(tree.files).columns}

\* Nothing is reported.
Inspected ==
    /\ mismatched = {}
    /\ resolve(Head(tree.files).columns).url # NoColumn
    /\ compare_to_documented(tree.corpus, resolve(Head(tree.files).columns)) = {}

-----------------------------------------------------------------------------
\* "No reader ever sees a partial file": whatever attempt was killed or failed
\* where, urls.parquet is not there or holds the first rows of the plan, all
\* of them or as many as a cap said; the download reads those it is to read.
ManifestWhole ==
    /\ output # None =>
          /\ output # Torn
          /\ Len(output) \in {PlannedRows} \cup {n \in Caps : 0 < n /\ n < PlannedRows}
          /\ \A i, j \in DOMAIN output : DOMAIN output[i].fields = DOMAIN output[j].fields
    /\ pc = "ready" =>
          Len(output) = IF cap > 0 /\ cap < PlannedRows THEN cap ELSE PlannedRows

\* The rows that the pieces mean, each by its file and index.
MeantPath(p) == IF absolute THEN SubSeq(p.path, Len(PlanMount) + 1, Len(p.path)) ELSE p.path
MeantRows == FlattenSeq([k \in DOMAIN pieces |->
               [i \in 1..pieces[k].end - pieces[k].start |->
                  [path |-> MeantPath(pieces[k]), index |-> pieces[k].start + i - 1]]])

\* "The same plan entry must produce the same rows on any node": they are the
\* planned rows of the planned files, in order, whatever other files have the
\* same name, through releases too when the plan is relative.  (After one, an
\* older plan may be given another file of that name.)
RowsAsPlanned ==
    (output # None /\ (~absolute \/ releases = 0)) =>
       \A i \in DOMAIN output :
          [path |-> output[i].path, index |-> output[i].index] = MeantRows[i]

\* A column that resolve takes for a role of the corpus before the documented
\* one, or for one that the corpus does not have.
Rival(corpus, column) ==
    \E role \in ToSet(Roles) : \E i \in DOMAIN ROLE_ALIASES[role] :
       IF DOCUMENTED[corpus][role] = NoColumn
       THEN Lower(column) = Lower(ROLE_ALIASES[role][i])
       ELSE /\ column = ROLE_ALIASES[role][i]
            /\ \A k \in 1..i : ROLE_ALIASES[role][k] # DOCUMENTED[corpus][role]

\* A corpus whose files hold the columns it documents gets those roles, in
\* whatever order they come, unless another column is an earlier alias
\* (pageurl is no URL and the uploader's uid no identifier), which is always
\* reported; and a clean inspection keeps its word: the task is built, with all
\* documented roles in every piece.
DocumentedRoles ==
    LET documented == DOCUMENTED[tree.corpus]
        wanted == {r \in ToSet(Roles) : documented[r] # NoColumn}
        built == build_manifest(pieces)
    IN  /\ \A f \in ToSet(tree.files) :
              {documented[r] : r \in wanted} \subseteq ToSet(f.columns) =>
                 (compare_to_documented(tree.corpus, resolve(f.columns)) = {}
                    <=> \A c \in ToSet(f.columns) : ~Rival(tree.corpus, c))
        /\ pc = "build" /\ releases = 0 /\ Inspected =>
              /\ built # None
              /\ \A i \in DOMAIN built :
                    built[i].fields = [role \in wanted |-> documented[role]]
=============================================================================
