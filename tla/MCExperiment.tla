---------------------------- MODULE MCExperiment ----------------------------
(***************************************************************************)
(* Experiment on eighteen URLs, in a corpus of two files and in a list, with  *)
(* the columns of one and of another corpus and of none.                   *)
(***************************************************************************)
EXTENDS Experiment

Url == <<"u1", "u2", "u3", "u4", "u5", "u6", "u7", "u8", "u9", "u10", "u11", "u12",
         "u13", "u14", "u15", "u16", "u17", "u18">>

\* Rows a..b of a corpus with the URL in the second column, or in the third.
SecondColumn(a, b) == [i \in 1..b - a + 1 |-> <<"caption", Url[a + i - 1], "page">>]
ThirdColumn(a, b) == [i \in 1..b - a + 1 |-> <<"caption", "page", Url[a + i - 1]>>]

Corpus(columns, files) == [format |-> "parquet", columns |-> columns, files |-> files]

MCSources == {
    Corpus(<<"text", "url", "IMAGE_URL">>, <<SecondColumn(1, 5), <<>>, SecondColumn(6, 18)>>),
    Corpus(<<"text", "URL", "url">>, <<ThirdColumn(1, 6)>>),
    Corpus(<<"text", "uri", "page">>, <<SecondColumn(1, 6)>>),
    [format |-> "text", lines |-> [i \in 1..18 |-> <<Url[i]>>]]}

Levels(slice, sps, levels, waves) ==
    [kind |-> "0002", slice |-> slice, sps |-> sps, levels |-> levels, waves |-> waves]
Nodes(slice, sps, total, nodes, waves) ==
    [kind |-> "0003", slice |-> slice, sps |-> sps, total |-> total, nodes |-> nodes,
     waves |-> waves]

MCConfigs == {
    Levels(2, 1, <<1, 2, 1>>, 1), Levels(2, 2, <<1, 2, 1>>, 1), Levels(4, 3, <<1, 2>>, 1),
    Levels(3, 2, <<1, 2>>, 1), Levels(4, 1, <<1, 2>>, 2),
    Nodes(2, 1, 2, 2, 1), Nodes(4, 1, 2, 2, 2), Nodes(4, 2, 2, 2, 1), Nodes(3, 1, 1, 1, 2),
    Nodes(2, 2, 2, 2, 1), Nodes(3, 1, 2, 2, 1), Nodes(6, 2, 2, 2, 1)}
=============================================================================
