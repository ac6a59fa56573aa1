------------------------------ MODULE ByteStream ------------------------------
(***************************************************************************)
(* What the profiler's send buffer promises: the bytes appended to it are  *)
(* handed over for compression exactly once, in order and unchanged, cut   *)
(* into frames of at most FrameSize bytes.  A byte is identified with its  *)
(* number in the stream.  SendBuffer implements this specification.        *)
(***************************************************************************)
EXTENDS Integers

CONSTANT FrameSize

VARIABLES
    written,  \* bytes appended so far
    framed,   \* bytes handed over so far
    frame     \* the last frame

vars == <<written, framed, frame>>

Init == written = 0 /\ framed = 0 /\ frame = <<>>

HandOver == framed' = written /\ frame' = [k \in 1..(written - framed) |-> framed + k]

\* Bytes are appended, the pending ones are handed over, or both in this order.
Next == /\ \E n \in 0..FrameSize : written' = written + n
        /\ HandOver \/ UNCHANGED <<framed, frame>>
        /\ written' - framed' <= FrameSize

Spec == Init /\ [][Next]_vars
=============================================================================
