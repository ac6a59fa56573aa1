------------------------------ MODULE WireProofs ------------------------------
(***************************************************************************)
(* Theorems about SendBuffer, for every size of frame, item, window and    *)
(* tiny dictionary: what is compressed is the stream of appended bytes,    *)
(* and the dictionary of a frame is what precedes it in that stream.       *)
(***************************************************************************)
EXTENDS SendBuffer, Socket, TLAPS

\* The pending bytes lie between start and offset, and fit in one frame.
Bounds ==
    /\ start <= offset
    /\ offset - start <= FrameSize
    /\ offset - start <= written

PendingIntact == \A p \in start..(offset - 1) : buffer[p] = framed + 1 + (p - start)

\* A dictionary ends where the pending bytes start, or in the last third of the
\* buffer while they start at its beginning.
DictionaryPlace ==
    /\ dictFrom <= dictTo
    /\ dictFrom < dictTo => dictTo = start \/ (start = 0 /\ dictTo > 2 * FrameSize)

\* Only the pending bytes overwrite the dictionary.
DictionaryIntact ==
    \A p \in dictFrom..(dictTo - 1) :
        p \notin start..(offset - 1) => buffer[p] = framed + 1 - (dictTo - p)

BufferInv ==
    /\ TypeOK
    /\ Bounds
    /\ PendingIntact
    /\ DictionaryPlace
    /\ DictionaryIntact
    /\ DictionaryPrecedesFrame

LEMMA BufferInvInit == Init => BufferInv
<1> SUFFICES ASSUME Init
             PROVE  BufferInv
  OBVIOUS
<1> USE BufferAssumption
<1>1. TypeOK
  <2>1. frame \in [1..0 -> 0..MaxBytes] /\ dictionary \in [1..0 -> 0..MaxBytes]
    BY DEF Init
  <2>2. 0 \in 0..FrameSize /\ 0 \in 0..Window
    OBVIOUS
  <2>3. buffer \in [Places -> 0..MaxBytes] /\ written \in 0..MaxBytes
    BY DEF Init
  <2>4. /\ offset \in 0..(3 * FrameSize) /\ start \in 0..(2 * FrameSize)
        /\ dictFrom \in 0..(3 * FrameSize) /\ dictTo \in 0..(3 * FrameSize)
    BY DEF Init
  <2> QED
    BY <2>1, <2>2, <2>3, <2>4 DEF TypeOK
<1>2. Bounds /\ PendingIntact /\ DictionaryPlace /\ DictionaryIntact
  BY DEF Init, Bounds, PendingIntact, DictionaryPlace, DictionaryIntact
<1>3. DictionaryPrecedesFrame
  BY DEF Init, DictionaryPrecedesFrame
<1> QED
  BY <1>1, <1>2, <1>3 DEF BufferInv

(* The part of the dictionary that is used lies inside it, is no longer    *)
(* than the window and avoids the bytes being compressed.                  *)
LEMMA UsableLemma ==
  ASSUME BufferInv
  PROVE  /\ UsableFrom \in dictFrom..dictTo
         /\ dictTo - UsableFrom <= Window
         /\ \A p \in UsableFrom..(dictTo - 1) : p \notin start..(offset - 1)
<1> USE BufferAssumption
<1>1. /\ offset \in Nat /\ start \in Nat /\ dictFrom \in Nat /\ dictTo \in Nat
      /\ FrameSize \in Nat /\ Window \in Nat
  BY DEF BufferInv, TypeOK
<1>2. UsableFrom \in dictFrom..dictTo /\ dictTo - UsableFrom <= Window
  BY <1>1 DEF BufferInv, DictionaryPlace, UsableFrom, Overlapped
<1>3. Overlapped => UsableFrom >= offset
  BY <1>1, <1>2 DEF UsableFrom, Overlapped
<1>4. ~ Overlapped => dictFrom = dictTo \/ dictTo = start \/ dictFrom >= offset
  BY <1>1 DEF BufferInv, Bounds, DictionaryPlace, Overlapped
<1> QED
  BY <1>1, <1>2, <1>3, <1>4

(* What Compress records: the pending bytes, and the bytes before them.    *)
LEMMA CompressLemma ==
  ASSUME BufferInv, Compress
  PROVE  /\ frame' = [k \in 1..(offset - start) |-> framed + k]
         /\ \A d \in DOMAIN dictionary' : dictionary'[d] = framed + 1 - d
         /\ \E n \in 0..FrameSize : frame' \in [1..n -> 0..MaxBytes]
         /\ \E n \in 0..Window : dictionary' \in [1..n -> 0..MaxBytes]
<1> USE BufferAssumption
<1>1. /\ offset \in 0..(3 * FrameSize) /\ start \in 0..(2 * FrameSize)
      /\ dictFrom \in Nat /\ dictTo \in 0..(3 * FrameSize) /\ written \in 0..MaxBytes
      /\ framed \in Int
      /\ \A p \in Places : buffer[p] \in 0..MaxBytes
  BY DEF BufferInv, TypeOK, framed
<1>2. /\ UsableFrom \in dictFrom..dictTo
      /\ dictTo - UsableFrom \in 0..Window
      /\ \A p \in UsableFrom..(dictTo - 1) : p \notin start..(offset - 1)
  BY <1>1, UsableLemma
<1>3. \A k \in 1..(offset - start) : buffer[start + k - 1] = framed + k
  <2> TAKE k \in 1..(offset - start)
  <2>1. start + k - 1 \in start..(offset - 1)
    BY <1>1
  <2> QED
    BY <1>1, <2>1 DEF BufferInv, PendingIntact
<1>4. \A d \in 1..(dictTo - UsableFrom) : buffer[dictTo - d] = framed + 1 - d
  <2> TAKE d \in 1..(dictTo - UsableFrom)
  <2>1. /\ dictTo - d \in dictFrom..(dictTo - 1)
        /\ dictTo - d \in UsableFrom..(dictTo - 1)
        /\ dictTo - (dictTo - d) = d
    BY <1>1, <1>2
  <2> QED
    BY <1>2, <2>1 DEF BufferInv, DictionaryIntact
<1>5. \A k \in 1..(offset - start) : start + k - 1 \in Places
  BY <1>1 DEF Places
<1>6. \A d \in 1..(dictTo - UsableFrom) : dictTo - d \in Places
  BY <1>1, <1>2 DEF Places
<1>7. offset - start \in 0..FrameSize
  BY <1>1 DEF BufferInv, Bounds
<1>8. frame' = [k \in 1..(offset - start) |-> framed + k]
  BY <1>3 DEF Compress
<1>9. frame' \in [1..(offset - start) -> 0..MaxBytes]
  BY <1>1, <1>5 DEF Compress
<1>10. dictionary' \in [1..(dictTo - UsableFrom) -> 0..MaxBytes]
  BY <1>1, <1>6 DEF Compress
<1>11. \A d \in DOMAIN dictionary' : dictionary'[d] = framed + 1 - d
  BY <1>4 DEF Compress
<1> QED
  BY <1>2, <1>7, <1>8, <1>9, <1>10, <1>11

(* Appending len bytes at a place that holds none of what is pending.      *)
LEMMA WriteType ==
  ASSUME TypeOK, NEW len \in 1..MaxItem, written + len <= MaxBytes,
         NEW at \in Nat, Write(at, len)
  PROVE  /\ buffer' \in [Places -> 0..MaxBytes]
         /\ written' \in 0..MaxBytes
         /\ \A p \in Places : p \in at..(at + len - 1) => buffer'[p] = written + 1 + (p - at)
         /\ \A p \in Places : p \notin at..(at + len - 1) => buffer'[p] = buffer[p]
<1> USE BufferAssumption
<1>1. written \in 0..MaxBytes /\ \A p \in Places : buffer[p] \in 0..MaxBytes
  BY DEF TypeOK
<1>2. written' \in 0..MaxBytes
  BY <1>1 DEF Write
<1>3. \A p \in at..(at + len - 1) : written + 1 + (p - at) \in 0..MaxBytes
  BY <1>1
<1> QED
  BY <1>1, <1>2, <1>3 DEF Write, Places

LEMMA AppendDataStep ==
  ASSUME BufferInv, NEW len \in 1..MaxItem, AppendData(len)
  PROVE  BufferInv' /\ Stream!Next
<1> USE BufferAssumption
<1>1. /\ offset \in Nat /\ start \in 0..(2 * FrameSize) /\ written \in 0..MaxBytes
      /\ dictFrom \in Nat /\ dictTo \in 0..(3 * FrameSize)
      /\ offset' = offset + len /\ written' = written + len
      /\ offset + len - start <= FrameSize
      /\ framed' = framed
  BY DEF BufferInv, TypeOK, AppendData, Write, Fits, framed
<1>2. /\ buffer' \in [Places -> 0..MaxBytes]
      /\ written' \in 0..MaxBytes
      /\ \A p \in Places : p \in offset..(offset + len - 1) => buffer'[p] = written + 1 + (p - offset)
      /\ \A p \in Places : p \notin offset..(offset + len - 1) => buffer'[p] = buffer[p]
  BY <1>1, WriteType DEF BufferInv, AppendData
<1>3. UNCHANGED <<start, dictFrom, dictTo, frame, dictionary>>
  BY DEF AppendData, dict
<1>4. TypeOK'
  <2>1. offset' \in 0..(3 * FrameSize)
    BY <1>1
  <2>2. TypeOK
    BY DEF BufferInv
  <2> QED
    BY <1>2, <1>3, <2>1, <2>2 DEF TypeOK
<1>5. Bounds'
  BY <1>1, <1>3 DEF BufferInv, Bounds
<1>6. PendingIntact'
  <2> SUFFICES ASSUME NEW p \in start..(offset + len - 1)
               PROVE  buffer'[p] = framed + 1 + (p - start)
    BY <1>1, <1>3 DEF PendingIntact
  <2>1. p \in Places
    BY <1>1 DEF Places
  <2>2. CASE p < offset
    BY <1>1, <1>2, <2>1, <2>2 DEF BufferInv, PendingIntact
  <2>3. CASE p >= offset
    BY <1>1, <1>2, <2>1, <2>3 DEF framed
  <2> QED
    BY <1>1, <2>2, <2>3
<1>7. DictionaryPlace'
  BY <1>3 DEF BufferInv, DictionaryPlace
<1>8. DictionaryIntact'
  <2> SUFFICES ASSUME NEW p \in dictFrom..(dictTo - 1), p \notin start..(offset + len - 1)
               PROVE  buffer'[p] = framed + 1 - (dictTo - p)
    BY <1>1, <1>3 DEF DictionaryIntact
  <2>1. p \in Places /\ p \notin start..(offset - 1)
    BY <1>1 DEF Places
  <2>2. p \notin offset..(offset + len - 1)
    BY <1>1 DEF BufferInv, Bounds
  <2> QED
    BY <1>2, <2>1, <2>2 DEF BufferInv, DictionaryIntact
<1>9. DictionaryPrecedesFrame'
  BY <1>3 DEF BufferInv, DictionaryPrecedesFrame
<1>10. Stream!Next
  <2>1. written' - framed' <= FrameSize
    BY <1>1 DEF framed
  <2>2. len \in 0..FrameSize
    OBVIOUS
  <2> QED
    BY <1>1, <1>3, <2>1, <2>2 DEF Stream!Next
<1> QED
  BY <1>4, <1>5, <1>6, <1>7, <1>8, <1>9, <1>10 DEF BufferInv

(* What holds of the place CommitData leaves both offsets at.              *)
LEMMA RewoundLemma ==
  ASSUME BufferInv
  PROVE  /\ Rewound \in 0..(2 * FrameSize)
         /\ Rewound = offset \/ (Rewound = 0 /\ offset > 2 * FrameSize)
BY BufferAssumption DEF BufferInv, TypeOK, Rewound

(* After a compression the dictionary ends with the frame's last byte.     *)
LEMMA CompressDictionary ==
  ASSUME BufferInv, Compress, offset # start
  PROVE  /\ dictFrom' \in 0..(3 * FrameSize) /\ dictTo' = offset /\ dictFrom' <= dictTo'
         /\ \A p \in dictFrom'..(offset - 1) : buffer[p] = written + 1 - (offset - p)
<1> USE BufferAssumption
<1>1. /\ offset \in 0..(3 * FrameSize) /\ start \in 0..(2 * FrameSize) /\ written \in Nat
      /\ dictFrom \in 0..(3 * FrameSize) /\ dictTo \in 0..(3 * FrameSize)
      /\ start < offset /\ dictFrom <= dictTo
  BY DEF BufferInv, TypeOK, Bounds, DictionaryPlace
<1>2. dictTo' = offset /\ dictFrom' = IF dictTo = start THEN dictFrom ELSE start
  BY DEF Compress
<1>3. \A p \in start..(offset - 1) : buffer[p] = written + 1 - (offset - p)
  BY <1>1 DEF BufferInv, PendingIntact, framed
<1>4. CASE dictTo = start
  <2>1. \A p \in dictFrom..(start - 1) : buffer[p] = written + 1 - (offset - p)
    BY <1>1, <1>4 DEF BufferInv, DictionaryIntact, framed
  <2> QED
    BY <1>1, <1>2, <1>3, <1>4, <2>1
<1>5. CASE dictTo # start
  BY <1>1, <1>2, <1>3, <1>5
<1> QED
  BY <1>4, <1>5

LEMMA FlushStep ==
  ASSUME BufferInv, Flush
  PROVE  BufferInv' /\ Stream!Next
<1> USE BufferAssumption
<1>1. /\ offset \in 0..(3 * FrameSize) /\ start \in 0..(2 * FrameSize) /\ written \in 0..MaxBytes
      /\ Compress /\ offset # start
      /\ offset' = Rewound /\ start' = Rewound /\ buffer' = buffer /\ written' = written
      /\ Rewound \in 0..(2 * FrameSize)
      /\ framed \in Int /\ framed' = written
  <2>1. /\ offset \in 0..(3 * FrameSize) /\ start \in 0..(2 * FrameSize) /\ written \in 0..MaxBytes
        /\ Rewound \in 0..(2 * FrameSize)
    BY RewoundLemma DEF BufferInv, TypeOK
  <2>2. /\ Compress /\ offset # start
        /\ offset' = Rewound /\ start' = Rewound /\ buffer' = buffer /\ written' = written
    BY DEF Flush
  <2> QED
    BY <2>1, <2>2 DEF framed
<1>2. /\ frame' = [k \in 1..(offset - start) |-> framed + k]
      /\ \A d \in DOMAIN dictionary' : dictionary'[d] = framed + 1 - d
      /\ \E n \in 0..FrameSize : frame' \in [1..n -> 0..MaxBytes]
      /\ \E n \in 0..Window : dictionary' \in [1..n -> 0..MaxBytes]
  BY <1>1, CompressLemma
<1>3. /\ dictFrom' \in 0..(3 * FrameSize) /\ dictTo' = offset /\ dictFrom' <= dictTo'
      /\ \A p \in dictFrom'..(offset - 1) : buffer[p] = written + 1 - (offset - p)
  BY <1>1, CompressDictionary
<1>4. TypeOK'
  <2>1. offset' \in 0..(3 * FrameSize) /\ start' \in 0..(2 * FrameSize)
    BY <1>1
  <2>2. TypeOK
    BY DEF BufferInv
  <2> QED
    BY <1>1, <1>2, <1>3, <2>1, <2>2 DEF TypeOK
<1>5. Bounds' /\ PendingIntact'
  BY <1>1 DEF Bounds, PendingIntact
<1>6. DictionaryPlace'
  BY <1>1, <1>3, RewoundLemma DEF DictionaryPlace
<1>7. DictionaryIntact'
  BY <1>1, <1>3 DEF DictionaryIntact
<1>8. DictionaryPrecedesFrame'
  <2>1. frame'[1] = framed + 1
    BY <1>1, <1>2 DEF BufferInv, Bounds
  <2> QED
    BY <1>1, <1>2, <2>1 DEF DictionaryPrecedesFrame
<1>9. Stream!Next
  <2>1. written - framed = offset - start
    BY <1>1 DEF framed
  <2>2. Stream!HandOver
    BY <1>1, <1>2, <2>1 DEF Stream!HandOver
  <2>3. 0 \in 0..FrameSize /\ written' = written + 0 /\ written' - framed' <= FrameSize
    BY <1>1
  <2> QED
    BY <2>2, <2>3 DEF Stream!Next
<1> QED
  BY <1>4, <1>5, <1>6, <1>7, <1>8, <1>9 DEF BufferInv

LEMMA AppendDataAfterCommitStep ==
  ASSUME BufferInv, NEW len \in 1..MaxItem, AppendDataAfterCommit(len)
  PROVE  BufferInv' /\ Stream!Next
<1> USE BufferAssumption
<1>1. /\ offset \in 0..(3 * FrameSize) /\ start \in 0..(2 * FrameSize) /\ written \in 0..MaxBytes
      /\ Rewound \in 0..(2 * FrameSize)
      /\ Rewound = offset \/ (Rewound = 0 /\ offset > 2 * FrameSize)
      /\ start < offset
      /\ Compress
      /\ start' = Rewound /\ offset' = Rewound + len /\ written' = written + len
      /\ framed \in Int /\ framed' = written
  <2>1. /\ offset \in 0..(3 * FrameSize) /\ start \in 0..(2 * FrameSize) /\ written \in 0..MaxBytes
        /\ Rewound \in 0..(2 * FrameSize)
        /\ Rewound = offset \/ (Rewound = 0 /\ offset > 2 * FrameSize)
        /\ start <= offset
    BY RewoundLemma DEF BufferInv, TypeOK, Bounds
  <2>2. /\ Compress /\ ~ Fits(len)
        /\ start' = Rewound /\ offset' = Rewound + len /\ written' = written + len
    BY DEF AppendDataAfterCommit, Write
  <2>3. start < offset
    BY <2>1, <2>2 DEF Fits
  <2> QED
    BY <2>1, <2>2, <2>3 DEF framed
<1>2. /\ frame' = [k \in 1..(offset - start) |-> framed + k]
      /\ \A d \in DOMAIN dictionary' : dictionary'[d] = framed + 1 - d
      /\ \E n \in 0..FrameSize : frame' \in [1..n -> 0..MaxBytes]
      /\ \E n \in 0..Window : dictionary' \in [1..n -> 0..MaxBytes]
  BY <1>1, CompressLemma
<1>3. /\ dictFrom' \in 0..(3 * FrameSize) /\ dictTo' = offset /\ dictFrom' <= dictTo'
      /\ \A p \in dictFrom'..(offset - 1) : buffer[p] = written + 1 - (offset - p)
  BY <1>1, CompressDictionary
<1>4. /\ buffer' \in [Places -> 0..MaxBytes]
      /\ written' \in 0..MaxBytes
      /\ \A p \in Places : p \in Rewound..(Rewound + len - 1) => buffer'[p] = written + 1 + (p - Rewound)
      /\ \A p \in Places : p \notin Rewound..(Rewound + len - 1) => buffer'[p] = buffer[p]
  BY <1>1, WriteType DEF BufferInv, AppendDataAfterCommit
<1>5. TypeOK'
  <2>1. offset' \in 0..(3 * FrameSize) /\ start' \in 0..(2 * FrameSize)
    BY <1>1
  <2> QED
    BY <1>1, <1>2, <1>3, <1>4, <2>1 DEF TypeOK
<1>6. Bounds'
  BY <1>1 DEF Bounds
<1>7. PendingIntact'
  <2> SUFFICES ASSUME NEW p \in Rewound..(Rewound + len - 1)
               PROVE  buffer'[p] = written + 1 + (p - Rewound)
    BY <1>1 DEF PendingIntact
  <2>1. p \in Places
    BY <1>1 DEF Places
  <2> QED
    BY <1>4, <2>1
<1>8. DictionaryPlace'
  BY <1>1, <1>3 DEF DictionaryPlace
<1>9. DictionaryIntact'
  <2> SUFFICES ASSUME NEW p \in dictFrom'..(offset - 1), p \notin Rewound..(Rewound + len - 1)
               PROVE  buffer'[p] = written + 1 - (offset - p)
    BY <1>1, <1>3 DEF DictionaryIntact
  <2>1. p \in Places
    BY <1>1, <1>3 DEF Places
  <2> QED
    BY <1>3, <1>4, <2>1
<1>10. DictionaryPrecedesFrame'
  <2>1. frame'[1] = framed + 1
    BY <1>1, <1>2
  <2> QED
    BY <1>1, <1>2, <2>1 DEF DictionaryPrecedesFrame
<1>11. Stream!Next
  <2>1. written - framed = offset - start
    BY <1>1 DEF framed
  <2>2. Stream!HandOver
    BY <1>1, <1>2, <2>1 DEF Stream!HandOver
  <2>3. len \in 0..FrameSize /\ written' - framed' <= FrameSize
    BY <1>1
  <2> QED
    BY <1>1, <2>2, <2>3 DEF Stream!Next
<1> QED
  BY <1>5, <1>6, <1>7, <1>8, <1>9, <1>10, <1>11 DEF BufferInv

LEMMA ForgetStep ==
  ASSUME BufferInv, ForgetDictionary
  PROVE  BufferInv' /\ UNCHANGED Stream!vars
<1> USE BufferAssumption
<1>1. /\ UNCHANGED <<buffer, offset, start, written, frame, dictionary>>
      /\ dictFrom' = 0 /\ dictTo' = 0 /\ framed' = framed
  BY DEF ForgetDictionary, framed
<1>2. TypeOK'
  <2>1. 0 \in 0..(3 * FrameSize) /\ TypeOK
    BY DEF BufferInv
  <2> QED
    BY <1>1, <2>1 DEF TypeOK
<1>3. Bounds' /\ PendingIntact' /\ DictionaryPrecedesFrame'
  BY <1>1 DEF BufferInv, Bounds, PendingIntact, DictionaryPrecedesFrame
<1>4. DictionaryPlace' /\ DictionaryIntact'
  BY <1>1 DEF DictionaryPlace, DictionaryIntact
<1> QED
  BY <1>1, <1>2, <1>3, <1>4 DEF BufferInv, Stream!vars

(* Every step keeps the invariant, and is one of the stream or a stutter.  *)
LEMMA BufferStep ==
  ASSUME BufferInv, [Next]_vars
  PROVE  BufferInv' /\ [Stream!Next]_(Stream!vars)
<1>1. ASSUME NEW len \in 1..MaxItem, AppendData(len) \/ AppendDataAfterCommit(len)
      PROVE  BufferInv' /\ Stream!Next
  BY <1>1, AppendDataStep, AppendDataAfterCommitStep
<1>2. CASE Flush
  BY <1>2, FlushStep
<1>3. CASE ForgetDictionary
  BY <1>3, ForgetStep
<1>4. CASE UNCHANGED vars
  <2>1. /\ UNCHANGED <<buffer, offset, start, dictFrom, dictTo, written, frame, dictionary>>
        /\ framed' = framed
    BY <1>4 DEF vars, dict, framed
  <2>2. TypeOK' /\ Bounds' /\ PendingIntact'
    BY <2>1 DEF BufferInv, TypeOK, Bounds, PendingIntact
  <2>3. DictionaryPlace' /\ DictionaryIntact' /\ DictionaryPrecedesFrame'
    BY <2>1 DEF BufferInv, DictionaryPlace, DictionaryIntact, DictionaryPrecedesFrame
  <2> QED
    BY <2>1, <2>2, <2>3 DEF BufferInv, Stream!vars
<1> QED
  BY <1>1, <1>2, <1>3, <1>4 DEF Next

LEMMA Invariance == Spec => []BufferInv
BY BufferInvInit, BufferStep, PTL DEF Spec

(* The types: m_bufferOffset never leaves the three frames of the buffer,  *)
(* m_bufferStart never its first two, and every frame fits (AppendData).   *)
THEOREM TypeCorrect == Spec => []TypeOK
<1>1. BufferInv => TypeOK
  BY DEF BufferInv
<1> QED
  BY <1>1, Invariance, PTL

(* LZ4's dictionary is always the stretch of the stream directly before    *)
(* the frame, wherever the buffer was wrapped (CommitData, SendData).      *)
THEOREM DictionaryMatchesStream == Spec => []DictionaryPrecedesFrame
<1>1. BufferInv => DictionaryPrecedesFrame
  BY DEF BufferInv
<1> QED
  BY <1>1, Invariance, PTL

(* The send buffer implements the stream of bytes: AppendData and          *)
(* CommitData lose, repeat and change none of them.                        *)
THEOREM BufferImplementsStream == Spec => ImplementsStream
<1>1. Init => Stream!Init
  BY DEF Init, Stream!Init, framed
<1> QED
  BY <1>1, BufferStep, Invariance, PTL DEF Spec, ImplementsStream, Stream!Spec

-----------------------------------------------------------------------------
(***************************************************************************)
(* ReadInOrder for a buffer of any size and calls of any length.  What has *)
(* been taken and not delivered is in the buffer at bufPtr, and the        *)
(* handshake is over before anything is left there.                        *)
(***************************************************************************)
Sizes == BufSize \in Nat \ {0} /\ Handshake \in Nat /\ MaxLen \in Nat /\ MaxSent \in Nat

Index == 0 .. BufSize - 1

SocketTypeOK ==
    /\ unsent \in Nat /\ sent \in Nat /\ arrived \in Nat /\ taken \in Nat
    /\ bufLeft \in Int /\ bufPtr \in Nat /\ buf \in [Index -> Nat]
    /\ reading \in {"no", "raw", "buffered"} /\ wanted \in Nat /\ delivered \in Nat

InStream == taken <= arrived /\ arrived <= sent

InBuffer ==
    /\ taken - delivered = (IF bufLeft > 0 THEN bufLeft ELSE 0)
    /\ bufLeft > 0 => bufPtr + bufLeft <= BufSize
    /\ \A k \in 0 .. taken - delivered - 1 : buf[bufPtr + k] = delivered + 1 + k

HandshakeFirst ==
    /\ bufLeft # 0 => delivered >= Handshake
    /\ reading = "raw" => bufLeft = 0
    /\ reading = "buffered" => delivered >= Handshake
    /\ reading # "no" => wanted > 0

SocketInv == SocketTypeOK /\ InStream /\ InBuffer /\ HandshakeFirst

-----------------------------------------------------------------------------
LEMMA SocketInvInit == ASSUME Sizes, InitSocket PROVE SocketInv
  BY DEF Sizes, InitSocket, SocketInv, SocketTypeOK, Index, InStream, InBuffer, HandshakeFirst

\* What recv may do to the stream.
LEMMA ReceivedKeepsStream ==
    ASSUME SocketTypeOK, InStream, NEW len \in Nat, NEW ret \in Int, Received(len, ret),
           UNCHANGED sender
    PROVE  /\ unsent' \in Nat /\ sent' = sent /\ arrived' = arrived
           /\ taken' = (IF ret > 0 THEN taken + ret ELSE taken)
           /\ taken' \in Nat /\ taken' <= arrived'
           /\ ret <= len
  BY DEF SocketTypeOK, InStream, Received, network, sender

\* A step that takes and delivers the same bytes, past an empty buffer.
LEMMA PastBuffer ==
    ASSUME Sizes, SocketInv, bufLeft <= 0, reading # "no", UNCHANGED <<sender, bufLeft, bufPtr, buf>>,
           NEW ret \in Int, Received(wanted, ret), reading = "raw" => bufLeft = 0,
           IF ret > 0 THEN Got(ret) ELSE GiveUp \/ Retry
    PROVE  SocketInv'
<1> USE DEF SocketInv, SocketTypeOK, HandshakeFirst, InStream, InBuffer, Sizes
<1>1. /\ unsent' \in Nat /\ sent' = sent /\ arrived' = arrived
      /\ taken' = (IF ret > 0 THEN taken + ret ELSE taken)
      /\ taken' \in Nat /\ taken' <= arrived' /\ ret <= wanted
  BY ReceivedKeepsStream
<1>2. CASE ret > 0
  <2>1. /\ delivered' = delivered + ret /\ wanted' = wanted - ret
        /\ reading' = IF ret = wanted THEN "no" ELSE reading
        /\ UNCHANGED <<bufLeft, bufPtr, buf>> /\ taken' = taken + ret
    BY <1>1, <1>2 DEF Got
  <2>2. taken = delivered
    OBVIOUS
  <2>3. SocketTypeOK' /\ InStream' /\ HandshakeFirst'
    BY <1>1, <1>2, <2>1
  <2>4. InBuffer'
    BY <1>1, <1>2, <2>1, <2>2
  <2> QED BY <2>3, <2>4
<1>3. CASE ~ ret > 0
  BY <1>1, <1>3 DEF GiveUp, Retry
<1> QED BY <1>2, <1>3

LEMMA SocketInvNext == ASSUME Sizes, SocketInv, [NextSocket]_socketVars PROVE SocketInv'
<1> USE DEF SocketInv, SocketTypeOK, InStream, InBuffer, HandshakeFirst, Sizes
<1>1. CASE UNCHANGED socketVars
  BY <1>1 DEF socketVars, sender, network, reader
<1>2. ASSUME NEW n \in 1 .. MaxLen, Send(n) PROVE SocketInv'
  BY <1>2 DEF Send, network, reader, Sizes
<1>3. ASSUME NEW n \in 1 .. MaxLen, SendSome(n) PROVE SocketInv'
  BY <1>3 DEF SendSome, network, reader, Sizes
<1>4. ASSUME NEW n \in 1 .. MaxLen, Read(n) PROVE SocketInv'
  BY <1>4 DEF Read, StartsRaw, sender, network, Sizes
<1>5. CASE Close
  <2>1. sent' \in Nat /\ arrived <= sent'
    BY <1>5 DEF Close
  <2> QED BY <1>5, <2>1 DEF Close, reader
<1>6. CASE Arrive
  BY <1>6 DEF Arrive, sender, reader
<1>7. CASE ReadRaw
  <2> PICK ret \in -1 .. MaxLen : Received(wanted, ret) /\ IF ret > 0 THEN Got(ret) ELSE GiveUp
    BY <1>7 DEF ReadRaw
  <2>1. ret \in Int
    BY DEF Sizes
  <2> QED BY <1>7, <2>1, PastBuffer DEF ReadRaw
<1>8. CASE FromBuffer
  <2>1. /\ delivered' = delivered + wanted /\ bufLeft' = bufLeft - wanted
        /\ bufPtr' = bufPtr + wanted /\ wanted' = 0 /\ reading' = "no"
        /\ UNCHANGED <<unsent, sent, arrived, taken, buf>>
    BY <1>8 DEF FromBuffer, Got, sender, network
  <2>2. bufLeft > 0 /\ wanted <= bufLeft
    BY <1>8 DEF FromBuffer, Buffered
  <2>3. ASSUME NEW k \in 0 .. taken' - delivered' - 1
        PROVE  buf'[bufPtr' + k] = delivered' + 1 + k
    <3>1. wanted + k \in 0 .. taken - delivered - 1
      BY <2>1
    <3>2. buf[bufPtr + (wanted + k)] = delivered + 1 + (wanted + k)
      BY <3>1
    <3> QED BY <2>1, <3>2
  <2>4. SocketTypeOK' /\ InStream' /\ HandshakeFirst'
    BY <2>1, <2>2
  <2>5. InBuffer'
    BY <2>1, <2>2, <2>3
  <2> QED BY <2>4, <2>5
<1>9. CASE RestOfBuffer
  <2>1. /\ delivered' = delivered + bufLeft /\ bufLeft' = 0 /\ wanted' = wanted - bufLeft
        /\ reading' = reading
        /\ UNCHANGED <<unsent, sent, arrived, taken, bufPtr, buf>>
    BY <1>9 DEF RestOfBuffer, Buffered, Got, sender, network
  <2>2. bufLeft > 0 /\ bufLeft < wanted /\ reading = "buffered"
    BY <1>9 DEF RestOfBuffer, Buffered
  <2>3. SocketTypeOK' /\ InStream' /\ HandshakeFirst'
    BY <2>1, <2>2
  <2>4. InBuffer'
    BY <2>1, <2>2
  <2> QED BY <2>3, <2>4
<1>10. CASE Direct
  <2> PICK ret \in -1 .. MaxLen :
           /\ Received(wanted, ret)
           /\ IF ret > 0 THEN Got(ret) ELSE IF ret = 0 THEN GiveUp ELSE Retry
    BY <1>10 DEF Direct
  <2>1. ret \in Int
    BY DEF Sizes
  <2> QED BY <1>10, <2>1, PastBuffer DEF Direct, NeedsMore
<1>11. CASE Fill
  <2> PICK ret \in -1 .. BufSize :
         /\ Received(BufSize, ret)
         /\ IF ret > 0
              THEN LET n == IF wanted < ret THEN wanted ELSE ret
                   IN  /\ buf' = [p \in 0 .. BufSize - 1 |->
                                    IF p < ret THEN taken + p + 1 ELSE buf[p]]
                       /\ bufPtr' = n /\ bufLeft' = Kept(ret, n)
                       /\ Got(n)
              ELSE /\ bufLeft' = ret /\ UNCHANGED <<bufPtr, buf>>
                   /\ IF ret = 0 THEN GiveUp ELSE Retry
    BY <1>11 DEF Fill
  <2>1. ret \in Int /\ BufSize \in Nat
    BY DEF Sizes
  <2>2. /\ unsent' \in Nat /\ sent' = sent /\ arrived' = arrived
        /\ taken' = (IF ret > 0 THEN taken + ret ELSE taken)
        /\ taken' \in Nat /\ taken' <= arrived' /\ ret <= BufSize
    BY <1>11, <2>1, ReceivedKeepsStream DEF Fill
  <2>3. reading = "buffered" /\ bufLeft <= 0 /\ taken = delivered
    BY <1>11 DEF Fill, NeedsMore
  <2>4. CASE ret > 0
    <3> DEFINE n == IF wanted < ret THEN wanted ELSE ret
    <3>1. n \in Nat /\ n > 0 /\ n <= ret /\ n <= wanted
      BY <2>1, <2>3, <2>4
    <3>2. /\ buf' = [p \in 0 .. BufSize - 1 |-> IF p < ret THEN taken + p + 1 ELSE buf[p]]
          /\ bufPtr' = n /\ bufLeft' = ret - n
          /\ delivered' = delivered + n /\ wanted' = wanted - n
          /\ reading' = IF n = wanted THEN "no" ELSE reading
      BY <2>4 DEF Kept, Got
    <3> HIDE DEF n
    <3>3. ASSUME NEW k \in 0 .. taken' - delivered' - 1
          PROVE  buf'[bufPtr' + k] = delivered' + 1 + k
      <4>1. n + k \in 0 .. BufSize - 1 /\ n + k < ret
        BY <2>1, <2>2, <2>3, <2>4, <3>1, <3>2
      <4> QED BY <2>3, <3>1, <3>2, <4>1
    <3>4. buf' \in [Index -> Nat]
      BY <2>1, <3>2 DEF Index
    <3>5. SocketTypeOK' /\ InStream' /\ HandshakeFirst'
      BY <2>1, <2>2, <2>3, <2>4, <3>1, <3>2, <3>4
    <3>6. InBuffer'
      BY <2>1, <2>2, <2>3, <2>4, <3>1, <3>2, <3>3
    <3> QED BY <3>5, <3>6
  <2>5. CASE ~ ret > 0
    BY <2>1, <2>2, <2>3, <2>5 DEF GiveUp, Retry
  <2> QED BY <2>4, <2>5
<1> QED BY <1>1, <1>2, <1>3, <1>4, <1>5, <1>6, <1>7, <1>8, <1>9, <1>10, <1>11 DEF NextSocket

(* The reader's callers get every byte once and in order, whatever the     *)
(* size of the buffer, of the calls and of the pieces that arrive          *)
(* (TracySocket.cpp:148-257).                                              *)
THEOREM ReadsInOrder == ASSUME Sizes PROVE Socket => []ReadInOrder
<1>1. InitSocket => SocketInv
  BY SocketInvInit
<1>2. SocketInv /\ [NextSocket]_socketVars => SocketInv'
  BY SocketInvNext
<1>3. SocketInv => ReadInOrder
  BY DEF SocketInv, SocketTypeOK, InBuffer, ReadInOrder, HasData
<1> QED BY <1>1, <1>2, <1>3, PTL DEF Socket
===============================================================================
