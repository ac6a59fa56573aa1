---------------------------- MODULE MCSerialQueue ----------------------------
(* Two threads that trace, vectors with room for one item at first.        *)
EXTENDS SerialQueue
=============================================================================
