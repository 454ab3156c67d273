---------------------------- MODULE MCPartition ----------------------------
(* Partition on every corpus of up to three files of up to four rows. *)
EXTENDS Partition

MCSources == BoundedSeq(0..4, 3)
=============================================================================
