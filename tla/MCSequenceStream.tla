-------------------------- MODULE MCSequenceStream --------------------------
(***************************************************************************)
(* SequenceStream for TLC.  Four zmq numbers, so that they wrap within the *)
(* bound, and bursts of up to two losses, the longest four numbers detect. *)
(***************************************************************************)
EXTENDS SequenceStream
==============================================================================
