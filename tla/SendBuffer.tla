------------------------------ MODULE SendBuffer ------------------------------
(***************************************************************************)
(* The profiler's send buffer (m_buffer, m_bufferOffset, m_bufferStart in  *)
(* src/tracy/client/TracyProfiler.cpp) and the dictionary that LZ4 keeps   *)
(* inside it (LZ4_compress_fast_continue in src/tracy/common/tracy_lz4.cpp). *)
(*                                                                         *)
(* AppendData, SendString, SendSourceLocationPayload and SendCallstack-    *)
(* Payload all reserve the bytes they then append: one action, AppendData. *)
(* A byte is its number in the stream; the buffer's places start at 0.     *)
(* dictFrom and dictTo delimit streamPtr->dictionary, of which a match can *)
(* reach the last Window bytes.  Terminate is compressed from the stack:   *)
(* its one byte is a dictionary too small to be used, here the empty one.  *)
(***************************************************************************)
EXTENDS Integers

CONSTANTS
    FrameSize,  \* TargetFrameSize, 256 KiB
    MaxItem,    \* the most that is appended at once, some 64 KiB
    Window,     \* 64 KiB
    TinyDict,   \* 4
    MaxBytes    \* bound on the bytes appended

ASSUME BufferAssumption == /\ FrameSize \in Nat \ {0}
                           /\ MaxItem \in 1..FrameSize
                           /\ Window \in Nat \ {0}
                           /\ TinyDict \in Nat \ {0}
                           /\ MaxBytes \in Nat

Places == 0..(3 * FrameSize - 1)

VARIABLES
    buffer,      \* m_buffer
    offset,      \* m_bufferOffset
    start,       \* m_bufferStart
    dictFrom, dictTo,
    written,     \* history: bytes appended so far
    frame,       \* history: the last frame handed to LZ4
    dictionary   \* history: the byte that a match, so far back from its start, found

dict == <<dictFrom, dictTo>>
vars == <<buffer, offset, start, dict, written, frame, dictionary>>

TypeOK ==
    /\ buffer \in [Places -> 0..MaxBytes]
    /\ offset \in 0..(3 * FrameSize)
    /\ start \in 0..(2 * FrameSize)
    /\ dictFrom \in 0..(3 * FrameSize)
    /\ dictTo \in 0..(3 * FrameSize)
    /\ written \in 0..MaxBytes
    /\ \E n \in 0..FrameSize : frame \in [1..n -> 0..MaxBytes]
    /\ \E n \in 0..Window : dictionary \in [1..n -> 0..MaxBytes]

Init ==
    /\ buffer = [p \in Places |-> 0]
    /\ offset = 0
    /\ start = 0
    /\ dictFrom = 0
    /\ dictTo = 0
    /\ written = 0
    /\ frame = <<>>
    /\ dictionary = <<>>

\* LZ4: the dictionary it starts from is cut where the source overlaps it, and
\* given up when too small.
Overlapped == dictFrom < offset /\ offset < dictTo
Tiny == dictTo - dictFrom <= TinyDict /\ dictTo # start
UsableFromMutant ==
    IF Tiny THEN dictTo
    ELSE IF dictTo - dictFrom > Window THEN dictTo - Window
    ELSE dictFrom
UsableFrom ==
    LET from == IF Overlapped THEN offset ELSE dictFrom
        most == IF dictTo - from > Window THEN dictTo - Window ELSE from
    IN  IF Tiny \/ (Overlapped /\ dictTo - most < TinyDict) THEN dictTo ELSE most

\* LZ4_compress_fast_continue on the bytes from start to offset.  A source that
\* follows the dictionary extends it, another replaces it.
Compress ==
    /\ frame' = [k \in 1..(offset - start) |-> buffer[start + k - 1]]
    /\ dictionary' = [d \in 1..(dictTo - UsableFrom) |-> buffer[dictTo - d]]
    /\ dictFrom' = IF dictTo = start THEN dictFrom ELSE start
    /\ dictTo' = offset

\* Where CommitData leaves both offsets.
RewoundMutant == IF offset > 3 * FrameSize THEN 0 ELSE offset
Rewound == IF offset > 2 * FrameSize THEN 0 ELSE offset

\* AppendDataUnsafe, once or more: len bytes at place at.
Write(at, len) ==
    /\ buffer' = [p \in Places |->
                    IF p \in at..(at + len - 1) THEN written + 1 + (p - at) ELSE buffer[p]]
    /\ written' = written + len
    /\ offset' = at + len

\* NeedDataSize: do len more bytes still fit in the frame?
FitsMutant(len) == len <= FrameSize
Fits(len) == offset - start + len <= FrameSize

AppendData(len) ==
    /\ written + len <= MaxBytes
    /\ Fits(len)
    /\ Write(offset, len)
    /\ UNCHANGED <<start, dict, frame, dictionary>>

AppendDataAfterCommit(len) ==
    /\ written + len <= MaxBytes
    /\ ~ Fits(len)
    /\ Compress
    /\ start' = Rewound
    /\ Write(Rewound, len)

\* CommitData, called when something is pending.
Flush ==
    /\ offset # start
    /\ Compress
    /\ offset' = Rewound
    /\ start' = Rewound
    /\ UNCHANGED <<buffer, written>>

\* The Terminate event, or LZ4_resetStream as a server connects: what is
\* pending then stays where it is.
ForgetDictionary ==
    /\ dictFrom' = 0
    /\ dictTo' = 0
    /\ UNCHANGED <<buffer, offset, start, written, frame, dictionary>>

Next == \/ \E len \in 1..MaxItem : AppendData(len) \/ AppendDataAfterCommit(len)
        \/ Flush
        \/ ForgetDictionary

Spec == Init /\ [][Next]_vars

-----------------------------------------------------------------------------
framed == written - (offset - start)

Stream == INSTANCE ByteStream
            WITH FrameSize <- FrameSize, written <- written, framed <- framed, frame <- frame

(* The bytes handed to LZ4 are those appended: none is lost, repeated or   *)
(* overwritten before, and no frame is larger than the room LZ4's output   *)
(* was given (TracyProfiler.cpp:1361-1391, TracyProtocol.hpp:16-18).       *)
ImplementsStream == Stream!Spec

(* The dictionary a frame is compressed with is what directly precedes it  *)
(* in the stream, as the receiver's is: wrapping round never lets new      *)
(* bytes overwrite what LZ4 still refers to (TracyProfiler.cpp:1372,       *)
(* tracy_lz4.cpp:1293-1300, TracyProtocol.hpp:19).                         *)
DictionaryPrecedesFrame == \A d \in DOMAIN dictionary : dictionary[d] = frame[1] - d
=============================================================================
