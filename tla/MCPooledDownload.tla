-------------------------- MODULE MCPooledDownload --------------------------
(* PooledDownload with every row on one host, on which redirects stay. *)
EXTENDS PooledDownload

CONSTANT h1

MCHostOf == [r \in Row |-> h1]
=============================================================================
