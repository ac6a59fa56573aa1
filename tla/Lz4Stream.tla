------------------------------ MODULE Lz4Stream ------------------------------
(***************************************************************************)
(* LZ4's streaming compressor and decompressor (tracy/common/              *)
(* tracy_lz4.cpp: LZ4_compress_fast_continue and                           *)
(* LZ4_decompress_safe_continue) over a buffer that is gone round in, as   *)
(* the profiler does, and its copy at the receiver's.                      *)
(*                                                                         *)
(* A position is its index: currentOffset plus the distance from the       *)
(* source, so that what precedes the source has smaller indices wherever   *)
(* it lies.  The hash is any function of the bytes at a position, the      *)
(* first one here.  The output has room for LZ4_COMPRESSBOUND bytes, and   *)
(* copies in words, which write past their end what is overwritten next,   *)
(* are copies of bytes.                                                    *)
(***************************************************************************)
EXTENDS Integers, SequencesExt

CONSTANTS
    Places,      \* of the buffer, 0 .. its size - 1
    Values,      \* of a byte, from 0 on
    Blocks,      \* what is compressed, of at most half the buffer each
    MaxBlocks,   \* bound
    MinMatch, LastLiterals, MfLimit,  \* 4, 5, 12
    Window,      \* 64 KiB, and MAX_DISTANCE is one less
    RunMask,     \* 15, and ML_MASK
    ByteMax,     \* 255
    OffsetLimit, \* 2^31
    GapLimit,    \* 2^30
    Safe,        \* the place that dictionaries are saved to
    SavedSizes   \* how much of them

VARIABLES
    mem,      \* the sender's buffer
    stream,   \* LZ4_stream_t: [table, offset, from, size]
    copy,     \* the receiver's buffer
    decoder,  \* LZ4_streamDecode_t: [size, end, extEnd, extSize]
    block, at, \* the last block, and where it was put
    count

vars == <<mem, stream, copy, decoder, block, at, count>>

Least(m, n) == IF m < n THEN m ELSE n

-----------------------------------------------------------------------------
\* The stream's dictionary, mem[from] .. mem[from + size - 1].

Rescaled(s, n) ==
    LET delta == s.offset - Window
        size == Least(s.size, Window)
    IN  IF s.offset + n <= OffsetLimit THEN s
        ELSE [table |-> [h \in DOMAIN s.table |-> IF s.table[h] < delta THEN 0
                                                 ELSE s.table[h] - delta],
              offset |-> Window, from |-> s.from + s.size - size, size |-> size]

Tiny(s, src) == s.size \in 1 .. MinMatch /\ s.from + s.size # src
WithoutTiny(s, src) == IF Tiny(s, src) THEN [s EXCEPT !.from = src, !.size = 0] ELSE s

UncoveredMutant(s, end) == s
\* The source may cover the dictionary's beginning, never its end.
Uncovered(s, end) ==
    LET dictEnd == s.from + s.size
        left == Least(dictEnd - end, Window)
        size == IF left < MinMatch THEN 0 ELSE left
    IN  IF s.from < end /\ end < dictEnd
          THEN [s EXCEPT !.from = dictEnd - size, !.size = size] ELSE s

-----------------------------------------------------------------------------
\* LZ4_compress_generic on n bytes at src: b is what does not change.

PlaceOf(b, i) ==
    IF b.external /\ i < b.start THEN b.dictEnd + i - b.start ELSE b.src + i - b.start

Small(s) == s.size < Window /\ s.size < s.offset
Call(m, s, src, n) ==
    [mem |-> m, src |-> src, start |-> s.offset, end |-> s.offset + n,
     external |-> s.from + s.size # src, dictEnd |-> s.from + s.size,
     low |-> s.offset - s.size, small |-> Small(s),
     searchEnd |-> s.offset + n - MfLimit + 1, matchEnd |-> s.offset + n - LastLiterals]

Byte(b, i) == b.mem[PlaceOf(b, i)]
HashAt(b, i) == Byte(b, i)
PutPosition(b, t, i) == [t EXCEPT ![HashAt(b, i)] = i]

IsMatch(b, i, match) ==
    /\ b.small => match >= b.low
    /\ match + (Window - 1) >= i
    /\ \A k \in 0 .. MinMatch - 1 : Byte(b, match + k) = Byte(b, i + k)

\* How far back a match goes on, not into the dictionary from the source.
RECURSIVE CatchUp(_, _, _, _)
CatchUp(b, i, match, anchor) ==
    LET low == IF b.external /\ match >= b.start THEN b.start ELSE b.low
    IN  IF i > anchor /\ match > low /\ Byte(b, i - 1) = Byte(b, match - 1)
          THEN 1 + CatchUp(b, i - 1, match - 1, anchor) ELSE 0

RECURSIVE Count(_, _, _)
Count(b, i, match) ==
    IF i < b.matchEnd /\ Byte(b, i) = Byte(b, match) THEN 1 + Count(b, i + 1, match + 1) ELSE 0

\* A length: what fits in half a token, and the rest in bytes.
Half(len) == Least(len, RunMask)
RECURSIVE Bytes(_)
Bytes(len) == IF len >= ByteMax THEN <<ByteMax>> \o Bytes(len - ByteMax) ELSE <<len>>
MoreLength(len) == IF len >= RunMask THEN Bytes(len - RunMask) ELSE <<>>

Literals(b, from, to) == [k \in 1 .. to - from |-> Byte(b, from + k - 1)]
Sequence(b, anchor, i, distance, len) ==
    <<[literals |-> Half(i - anchor), match |-> Half(len - MinMatch)]>>
      \o MoreLength(i - anchor) \o Literals(b, anchor, i)
      \o <<distance>> \o MoreLength(len - MinMatch)

LastLiteralsOf(b, anchor, t) ==
    [table |-> t,
     out |-> <<[literals |-> Half(b.end - anchor), match |-> 0]>>
               \o MoreLength(b.end - anchor) \o Literals(b, anchor, b.end)]

After(sequence, rest) == [rest EXCEPT !.out = sequence \o @]

RECURSIVE Search(_, _, _, _), Match(_, _, _, _, _)
Search(b, i, anchor, t) ==
    IF i + 1 > b.searchEnd THEN LastLiteralsOf(b, anchor, t)
    ELSE LET match == t[HashAt(b, i)]
             back == CatchUp(b, i, match, anchor)
         IN  IF IsMatch(b, i, match)
               THEN Match(b, i - back, match - back, anchor, PutPosition(b, t, i))
               ELSE Search(b, i + 1, anchor, PutPosition(b, t, i))

Match(b, i, match, anchor, t) ==
    LET len == MinMatch + Count(b, i + MinMatch, match + MinMatch)
        next == i + len
        filled == PutPosition(b, t, next - 2)
        other == filled[HashAt(b, next)]
        again == PutPosition(b, filled, next)
    IN  After(Sequence(b, anchor, i, i - match, len),
          IF next >= b.searchEnd THEN LastLiteralsOf(b, next, t)
          ELSE IF IsMatch(b, next, other) THEN Match(b, next, other, next, again)
          ELSE Search(b, next + 1, next, again))

Generic(b, t, n) ==
    IF n < MfLimit + 1 THEN LastLiteralsOf(b, b.start, t)
    ELSE Search(b, b.start + 1, b.start, PutPosition(b, t, b.start))

\* LZ4_compress_fast_continue: [stream, out].
Compress(m, s0, src, n) ==
    LET s == Uncovered(WithoutTiny(Rescaled(s0, n), src), src + n)
        b == Call(m, s, src, n)
        done == Generic(b, s.table, n)
    IN  [out |-> done.out,
         stream |-> [table |-> done.table, offset |-> s.offset + n,
                     from |-> IF b.external THEN src ELSE s.from,
                     size |-> IF b.external THEN n ELSE s.size + n]]

-----------------------------------------------------------------------------
\* LZ4_decompress_generic: d says what precedes the block.

RECURSIVE LengthFrom(_, _)
LengthFrom(in, k) == IF in[k] = ByteMax THEN ByteMax + LengthFrom(in, k + 1) ELSE in[k]
RECURSIVE LengthBytes(_, _)
LengthBytes(in, k) == IF in[k] = ByteMax THEN 1 + LengthBytes(in, k + 1) ELSE 1

\* A match is copied a byte at a time: it may overlap what it makes.
RECURSIVE CopyMatch(_, _, _, _, _)
CopyMatch(m, d, op, distance, len) ==
    LET match == op - distance
        source == IF match < d.low THEN d.extEnd - (d.low - match) ELSE match
    IN  IF len = 0 THEN m
        ELSE CopyMatch([m EXCEPT ![op] = m[source]], d, op + 1, distance, len - 1)

CopyLiterals(m, op, in, k, n) ==
    [p \in Places |-> IF p \in op .. op + n - 1 THEN in[k + p - op] ELSE m[p]]

\* An offset outside of the buffers is an error.
Outside(d, op, distance) == d.size + d.extSize < Window /\ op - distance + d.extSize < d.low

RECURSIVE Decode(_, _, _, _, _)
Decode(m, d, op, in, k) ==
    LET token == in[k]
        long == token.literals = RunMask
        lits == token.literals + (IF long THEN LengthFrom(in, k + 1) ELSE 0)
        from == k + 1 + (IF long THEN LengthBytes(in, k + 1) ELSE 0)
        m1 == CopyLiterals(m, op, in, from, lits)
        distance == in[from + lits]
        far == token.match = RunMask
        len == MinMatch + token.match + (IF far THEN LengthFrom(in, from + lits + 1) ELSE 0)
        next == from + lits + 1 + (IF far THEN LengthBytes(in, from + lits + 1) ELSE 0)
    IN  IF from + lits > Len(in) THEN [mem |-> m1, size |-> op + lits, error |-> FALSE]
        ELSE IF Outside(d, op + lits, distance) THEN [mem |-> m1, size |-> op + lits, error |-> TRUE]
        ELSE Decode(CopyMatch(m1, d, op + lits, distance, len), d, op + lits + len, in, next)

\* LZ4_decompress_safe_continue: what the block continues.
Continues(d, dest) == d.size # 0 /\ d.end = dest
Preceding(d, dest) ==
    IF d.size = 0 THEN [low |-> dest, size |-> 0, extEnd |-> dest, extSize |-> 0]
    ELSE IF Continues(d, dest)
           THEN [low |-> dest - Least(d.size, Window), size |-> Least(d.size, Window),
                 extEnd |-> d.extEnd, extSize |-> IF d.size >= Window - 1 THEN 0 ELSE d.extSize]
    ELSE [low |-> dest, size |-> 0, extEnd |-> d.end, extSize |-> d.size]

AfterDecoding(d, dest, n) ==
    IF Continues(d, dest) THEN [d EXCEPT !.size = @ + n, !.end = @ + n]
    ELSE [size |-> n, end |-> dest + n,
          extEnd |-> IF d.size = 0 THEN d.extEnd ELSE d.end,
          extSize |-> IF d.size = 0 THEN d.extSize ELSE d.size]

-----------------------------------------------------------------------------
Nowhere == -Window
NoDictionary == [size |-> 0, end |-> Nowhere, extEnd |-> Nowhere, extSize |-> 0]

Init ==
    /\ mem = [p \in Places |-> 0] /\ copy = mem
    /\ stream = [table |-> [h \in Values |-> 0], offset |-> 0, from |-> Nowhere, size |-> 0]
    /\ decoder = NoDictionary
    /\ block = <<>> /\ at = 0 /\ count = 0

\* A block is put behind the last one or, where the dictionary's end stays,
\* at the beginning; it is compressed, and decompressed in the same place.
NextBlock ==
    /\ count < MaxBlocks /\ count' = count + 1
    /\ block' \in Blocks
    /\ \/ at' = at + Len(block) /\ at' + Len(block') <= Safe
       \/ at' = 0 /\ Len(block') < at + Len(block)

Written(bytes, dest) ==
    [p \in Places |-> IF p \in dest .. dest + Len(bytes) - 1 THEN bytes[p - dest + 1] ELSE mem[p]]

Receive(in, dest, n) ==
    /\ copy' = Decode(copy, Preceding(decoder, dest), dest, in, 1).mem
    /\ decoder' = AfterDecoding(decoder, dest, n)

Send ==
    /\ NextBlock
    /\ LET written == Written(block', at')
           result == Compress(written, stream, at', Len(block'))
       IN  mem' = written /\ stream' = result.stream /\ Receive(result.out, at', Len(block'))

\* Both ends begin a new stream, in the same memory.
Restart ==
    /\ count' = count + 1 /\ decoder' = NoDictionary
    /\ UNCHANGED <<mem, copy, block, at>>

\* LZ4_resetStream_fast.
Reset ==
    /\ count < MaxBlocks
    /\ stream' = [table |-> IF stream.offset > GapLimit THEN [h \in Values |-> 0] ELSE stream.table,
                  offset |-> IF stream.offset \in 1..GapLimit THEN stream.offset + Window ELSE 0,
                  from |-> Nowhere, size |-> 0]
    /\ Restart

\* The end of what was compressed is saved, at either end.
Moved(m, from, n) == [p \in Places |-> IF p \in Safe .. Safe + n - 1 THEN m[from + p - Safe] ELSE m[p]]
Saved(end, n) ==
    /\ count' = count + 1
    /\ mem' = Moved(mem, end - n, n) /\ copy' = Moved(copy, decoder.end - n, n)
    /\ decoder' = [NoDictionary EXCEPT !.size = n, !.end = Safe + n]
    /\ at' = Safe /\ block' = [k \in 1..n |-> mem[end - n + k - 1]]

\* LZ4_saveDict, and LZ4_setStreamDecode.
SaveDict(n) ==
    LET size == Least(n, stream.size)
    IN  /\ count < MaxBlocks
        /\ Saved(stream.from + stream.size, size)
        /\ stream' = [stream EXCEPT !.from = Safe, !.size = size]

Next == Send \/ Reset \/ \E n \in SavedSizes : SaveDict(n)

Spec == Init /\ [][Next]_vars

-----------------------------------------------------------------------------
(* What is decompressed is what was compressed: the compressor finds its   *)
(* matches only in what the decompressor still has, at the same distance,  *)
(* wherever the blocks lie and whenever indices are rescaled               *)
(* (tracy_lz4.cpp:652-1008, 1252-1340, 1405-1648, 1804-1841).              *)
RoundTrip == \A k \in 1 .. Len(block) : copy[at + k - 1] = block[k]
=============================================================================
