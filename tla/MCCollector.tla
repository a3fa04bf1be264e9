---------------------------- MODULE MCCollector ----------------------------
(* Collector over two transcripts, one on a platform without inode numbers. *)
EXTENDS Collector

CONSTANTS unix, other
=============================================================================
