---------------------------- MODULE DatasetSchema ----------------------------
(***************************************************************************)
(* core/dataset_schema.py: which column of an upstream schema plays which  *)
(* role, and whether that is what the corpus documents.                    *)
(*                                                                         *)
(* columns is the schema, a sequence of names; None is "".                 *)
(***************************************************************************)
EXTENDS Integers, Sequences, SequencesExt

CONSTANT Lower(_)  \* str.lower

NoColumn == ""

ROLE_ALIASES == [
    url        |-> <<"url", "URL", "downloadurl", "image_url", "IMAGE_URL">>,
    caption    |-> <<"text", "TEXT", "caption", "CAPTION", "title", "txt", "alt_text">>,
    identifier |-> <<"photoid", "uid", "id", "hash", "key", "sample_id">>,
    width      |-> <<"original_width", "width", "WIDTH">>,
    height     |-> <<"original_height", "height", "HEIGHT">>,
    face_boxes |-> <<"face_bboxes", "face_boxes", "bboxes">>]

Roles == <<"url", "caption", "identifier", "width", "height", "face_boxes">>

DataComp == [url |-> "url", caption |-> "text", identifier |-> "uid",
             width |-> "original_width", height |-> "original_height",
             face_boxes |-> "face_bboxes"]

DOCUMENTED == [
    datacomp_1b |-> DataComp,
    datacomp_commonpool_xlarge |-> DataComp,
    coyo700m |-> [url |-> "url", caption |-> "text", identifier |-> "id",
                  width |-> "width", height |-> "height", face_boxes |-> NoColumn],
    relaion5b_research_safe |-> [url |-> "URL", caption |-> "TEXT", identifier |-> "hash",
                                 width |-> "WIDTH", height |-> "HEIGHT",
                                 face_boxes |-> NoColumn],
    yfcc100m |-> [url |-> "downloadurl", caption |-> "title", identifier |-> "photoid",
                  width |-> NoColumn, height |-> NoColumn, face_boxes |-> NoColumn]]

\* The first candidate that is a column; else the first that is one but for
\* case, and of several such columns the last.
_find(candidates, columns) ==
    LET exact == {i \in DOMAIN candidates : Contains(columns, candidates[i])}
        Same(i) == {j \in DOMAIN columns : Lower(columns[j]) = Lower(candidates[i])}
        loose == {i \in DOMAIN candidates : Same(i) # {}}
    IN  IF exact # {} THEN candidates[Min(exact)]
        ELSE IF loose # {} THEN columns[Max(Same(Min(loose)))] ELSE NoColumn

\* SchemaError is a url of NoColumn.
resolve(columns) == [role \in ToSet(Roles) |-> _find(ROLE_ALIASES[role], columns)]

\* The roles whose columns a manifest keeps, always in the order of Roles.
columns_to_carry(schema) == {role \in ToSet(Roles) : schema[role] # NoColumn}

\* Slip: what is merely absent is optional and not reported.
CompareFound(corpus, schema) ==
    {role \in ToSet(Roles) : schema[role] \notin {NoColumn, DOCUMENTED[corpus][role]}}

compare_to_documented(corpus, schema) ==
    {role \in ToSet(Roles) : schema[role] # DOCUMENTED[corpus][role]}
=============================================================================
