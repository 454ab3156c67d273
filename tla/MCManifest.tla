----------------------------- MODULE MCManifest -----------------------------
(***************************************************************************)
(* Manifest on releases of two corpora.  Files of one name stand in three  *)
(* places, a release drops one, shortens one, loses a column or has one    *)
(* that could be another.                                                  *)
(***************************************************************************)
EXTENDS Manifest

MCLower(name) ==
    CASE name \in {"URL", "Url"} -> "url"
      [] name = "TEXT" -> "text"
      [] name = "Caption" -> "caption"
      [] name = "WIDTH" -> "width"
      [] name = "HEIGHT" -> "height"
      [] OTHER -> name

File(path, columns, rows) == [path |-> path, columns |-> columns, rows |-> rows]
Corpus(name, files) == [corpus |-> name, files |-> files]

Yfcc == <<"uid", "photoid", "pageurl", "downloadurl", "title">>
YfccUntitled == <<"uid", "photoid", "pageurl", "downloadurl">>
Laion == <<"TEXT", "URL", "HEIGHT", "WIDTH", "hash", "punsafe">>
LaionTwice == <<"TEXT", "URL", "HEIGHT", "WIDTH", "hash", "url">>
LaionRenamed == <<"Caption", "Url", "HEIGHT", "WIDTH", "hash">>

A == <<"a", "part">>   B == <<"b", "part">>   C == <<"part">>

MCTrees == {
    Corpus("yfcc100m", <<File(A, Yfcc, 2), File(B, Yfcc, 3), File(C, Yfcc, 2)>>),
    Corpus("yfcc100m", <<File(A, Yfcc, 2), File(B, Yfcc, 2), File(C, Yfcc, 4)>>),
    Corpus("yfcc100m", <<File(A, Yfcc, 2), File(C, Yfcc, 3)>>),
    Corpus("yfcc100m", <<File(A, Yfcc, 2), File(B, YfccUntitled, 3)>>),
    Corpus("yfcc100m", <<File(A, YfccUntitled, 3), File(B, YfccUntitled, 3)>>),
    Corpus("relaion5b_research_safe", <<File(A, Laion, 3), File(B, Laion, 2)>>),
    Corpus("relaion5b_research_safe", <<File(A, LaionRenamed, 3), File(C, Laion, 2)>>),
    Corpus("relaion5b_research_safe", <<File(A, LaionTwice, 3)>>),
    Corpus("relaion5b_research_safe", <<File(A, <<"TEXT", "hash">>, 3)>>)}

MCPlanMount == <<"corpus", "upstream">>
MCHostMount == <<"host", "metadata">>
MCJobMounts == {MCPlanMount, MCHostMount}
=============================================================================
