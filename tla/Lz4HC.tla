-------------------------------- MODULE Lz4HC --------------------------------
(***************************************************************************)
(* LZ4's high-compression streams (tracy/common/tracy_lz4hc.cpp):          *)
(* LZ4_compress_HC_continue with both of its parsers, over the buffers and *)
(* with the decompressor of Lz4Stream.  An index is a distance from the    *)
(* base; one below dictLimit lies in the dictionary, which has a base of   *)
(* its own.  Left out: attached dictionaries, favorDecSpeed, limited       *)
(* output, and a comparison of two bytes that any longer match would pass. *)
(***************************************************************************)
EXTENDS Lz4Stream

CONSTANTS
    Levels,      \* [optimal, attempts, target, full], of clTable
    PatternFrom, \* 128
    OptNum,      \* LZ4_OPT_NUM
    ResetFrom    \* 1 GiB

MaxDistance == Window - 1
OptimalMl == RunMask - 1 + MinMatch
Trailing == 3

-----------------------------------------------------------------------------
\* The context: [hash, chain, next, base, dictBase, dictLimit, lowLimit, end, started, level].

Cleared(s) == [s EXCEPT !.hash = [h \in Values |-> 0], !.chain = [p \in 0..Window - 1 |-> MaxDistance]]

\* LZ4HC_init: where old positions are kept, they are out of reach.
Started(s, start) ==
    LET kept == IF s.end > ResetFrom THEN [Cleared(s) EXCEPT !.end = 0] ELSE s
        offset == kept.end + Window
    IN  [kept EXCEPT !.next = offset, !.base = start - offset, !.dictBase = start - offset,
                     !.dictLimit = offset, !.lowLimit = offset, !.end = offset, !.started = TRUE]

RECURSIVE Insert(_, _, _)
Insert(m, s, target) ==
    LET h == m[s.base + s.next]
        delta == Least(s.next - s.hash[h], MaxDistance)
    IN  IF s.next >= target THEN [s EXCEPT !.next = target]
        ELSE Insert(m, [s EXCEPT !.chain[s.next % Window] = delta, !.hash[h] = s.next,
                                 !.next = @ + 1], target)

\* LZ4_loadDictHC, after LZ4_resetStreamHC.
LoadDict(m, s, dict, size) ==
    LET n == Least(size, Window)
        fresh == Started([s EXCEPT !.end = ResetFrom + 1], dict + size - n)
        loaded == [fresh EXCEPT !.end = @ + n]
    IN  IF n >= MinMatch THEN Insert(m, loaded, loaded.end - (MinMatch - 1)) ELSE loaded

\* The last positions are not inserted: their bytes would go on in the new block.
SetExternalDict(m, s, src) ==
    LET known == IF s.end >= s.dictLimit + MinMatch THEN Insert(m, s, s.end - (MinMatch - 1)) ELSE s
    IN  [known EXCEPT !.lowLimit = s.dictLimit, !.dictLimit = s.end, !.dictBase = s.base,
                      !.base = src - s.end, !.next = s.end]

\* Mutant: what the source covers stays in the dictionary.
CoveredMutant(s, src, end) == s
\* The source covers a part of the dictionary.
Covered(s, src, end) ==
    LET low == Least(end, s.dictBase + s.dictLimit) - s.dictBase
    IN  IF ~(end > s.dictBase + s.lowLimit /\ src < s.dictBase + s.dictLimit) THEN s
        ELSE [s EXCEPT !.lowLimit = IF s.dictLimit - low < MinMatch THEN s.dictLimit ELSE low]

CallHC(m, s, n) ==
    [mem |-> m, start |-> s.dictLimit, src |-> s.base + s.dictLimit, external |-> TRUE,
     dictEnd |-> s.dictBase + s.dictLimit, low |-> s.lowLimit, end |-> s.end + n,
     mfLimit |-> s.end + n - MfLimit, matchEnd |-> s.end + n - LastLiterals]

-----------------------------------------------------------------------------
\* LZ4HC_InsertAndGetWiderMatch.  A match is [start, len, ref].

SameStart(b, s, i, match) ==
    LET base == IF match < s.dictLimit THEN s.dictBase ELSE s.base
    IN  \A k \in 0..MinMatch - 1 : b.mem[base + match + k] = Byte(b, i + k)

MatchLength(b, s, i, match) ==
    MinMatch + IF match < s.dictLimit /\ match + MinMatch > s.dictLimit THEN 0
               ELSE Count(b, i + MinMatch, match + MinMatch)

\* How far one byte goes on, and goes back.
RECURSIVE Run(_, _, _), RunBack(_, _, _, _)
Run(b, i, byte) == IF i < b.matchEnd /\ Byte(b, i) = byte THEN 1 + Run(b, i + 1, byte) ELSE 0
RunBack(b, i, low, byte) == IF i > low /\ Byte(b, i - 1) = byte THEN 1 + RunBack(b, i - 1, low, byte) ELSE 0
Pattern(b, i) == \A k \in 1..MinMatch - 1 : Byte(b, i + k) = Byte(b, i)

Chain(s, i) == s.chain[i % Window]

\* Where in the match its chain goes on the farthest, and how far.
Farthest(s, match, len) ==
    LET dist(p) == Chain(s, match + p)
        best == CHOOSE p \in 0..len - MinMatch :
                  /\ \A q \in 0..len - MinMatch : dist(q) <= dist(p)
                  /\ \A q \in 0..p - 1 : dist(q) < dist(p)
    IN  [pos |-> best, dist |-> dist(best)]

\* A match of the chain, as far as it goes on and back.
Tried(b, s, i, low, match) ==
    LET back == CatchUp(b, i, match, low)
    IN  [len |-> IF SameStart(b, s, i, match) THEN MatchLength(b, s, i, match) + back ELSE 0, back |-> back]

Better(r, i, try) ==
    LET t == [r EXCEPT !.left = @ - 1]
    IN  IF try.len > r.len
          THEN [t EXCEPT !.len = try.len, !.ref = r.match - try.back, !.start = i - try.back] ELSE t

\* What a byte repeated before and after the match's first amounts to.
Repeated(b, s, i, before) ==
    LET byte == Byte(b, i)
    IN  [source |-> Run(b, i, byte), forward |-> Run(b, before, byte),
         first |-> before - RunBack(b, before, IF s.dictLimit + MaxDistance >= i THEN s.dictLimit
                                               ELSE i - MaxDistance, byte)]

RECURSIVE Walk(_, _, _, _, _, _), Onward(_, _, _, _, _, _, _), PastRepeated(_, _, _, _, _, _, _, _)
Walk(b, s, i, low, search, r) ==
    LET lowest == IF s.lowLimit + Window > i THEN s.lowLimit ELSE i - MaxDistance
        try == Tried(b, s, i, low, r.match)
    IN  IF r.match < lowest \/ r.left = 0 THEN r ELSE Onward(b, s, i, low, search, Better(r, i, try), try.len)

\* To the next match of the chain, r.match having len bytes.
Onward(b, s, i, low, search, r, len) ==
    LET match == r.match
        chain == Farthest(s, match, r.len)
        swap == search.swap /\ len = r.len /\ match + r.len <= i /\ chain.dist > 1
        repeats == /\ search.patterns /\ Chain(s, match) = 1 /\ r.pos = 0 /\ Pattern(b, i)
                   /\ match - 1 >= s.dictLimit /\ SameStart(b, s, i, match - 1)
    IN  IF swap /\ chain.dist > match THEN r
        ELSE IF swap
          THEN Walk(b, s, i, low, search, [r EXCEPT !.pos = chain.pos, !.match = match - chain.dist])
        ELSE IF repeats
          THEN PastRepeated(b, s, i, low, search, r, match - 1, Repeated(b, s, i, match - 1))
        ELSE Walk(b, s, i, low, search, [r EXCEPT !.match = match - Chain(s, match + r.pos)])

PastRepeated(b, s, i, low, search, r, before, run) ==
    LET segment == before - run.first + run.forward
        whole == Least(segment, run.source)
        u == IF r.len < whole THEN [r EXCEPT !.len = whole, !.ref = run.first, !.start = i] ELSE r
    IN  IF segment >= run.source /\ run.forward <= run.source
          THEN Walk(b, s, i, low, search, [r EXCEPT !.match = before + run.forward - run.source])
        ELSE IF low # i THEN Walk(b, s, i, low, search, [r EXCEPT !.match = run.first])
        ELSE IF r.len < whole /\ i - run.first > MaxDistance THEN r
        ELSE IF Chain(s, run.first) > run.first THEN u
        ELSE Walk(b, s, i, low, search, [u EXCEPT !.match = run.first - Chain(s, run.first)])

Widest(b, s, i, low, longest, search) ==
    LET r == Walk(b, s, i, low, search, [match |-> s.hash[Byte(b, i)], left |-> search.attempts, pos |-> 0,
                                         len |-> longest, ref |-> 0, start |-> i])
    IN  [stream |-> s, match |-> [start |-> r.start, len |-> r.len, ref |-> r.ref]]
Wider(b, s, i, low, longest, search) == Widest(b, Insert(b.mem, s, i), i, low, longest, search)

-----------------------------------------------------------------------------
\* LZ4HC_compress_hashChain.

End(a) == a.start + a.len
Encoded(b, anchor, a, rest) == After(Sequence(b, anchor, a.start, a.start - a.ref, a.len), rest)
Shifted(a, n) == IF n > 0 THEN [start |-> a.start + n, len |-> a.len - n, ref |-> a.ref + n] ELSE a

\* The first of two matches, as long as the second one leaves it.
Squeezed(one, two) ==
    LET len == Least(one.len, OptimalMl)
    IN  IF one.start + len > End(two) - MinMatch THEN two.start - one.start + two.len - MinMatch ELSE len

ChainSearch(s) == [attempts |-> s.level.attempts, patterns |-> s.level.attempts > PatternFrom, swap |-> FALSE]
WiderFrom(b, s, a, overlap) ==
    IF End(a) <= b.mfLimit THEN Wider(b, s, End(a) - overlap, a.start, a.len, ChainSearch(s))
                           ELSE [stream |-> s, match |-> a]

RECURSIVE HashChain(_, _, _, _), First(_, _, _, _),
          Search2(_, _, _, _, _), Second(_, _, _, _, _), Search3(_, _, _, _, _, _), Third(_, _, _, _, _, _)
HashChain(b, s, i, anchor) ==
    IF i > b.mfLimit THEN LastLiteralsOf(b, anchor, s)
    ELSE First(b, i, anchor, Wider(b, s, i, i, MinMatch - 1, ChainSearch(s)))

First(b, i, anchor, w) ==
    IF w.match.len < MinMatch THEN HashChain(b, w.stream, i + 1, anchor)
    ELSE Search2(b, w.stream, anchor, w.match, w.match)

\* zero is the match that was found first.
Search2(b, s, anchor, one, zero) == Second(b, anchor, one, zero, WiderFrom(b, s, one, 2))

Second(b, anchor, one, zero, w) ==
    LET two == w.match
        first == IF zero.start < one.start /\ two.start < one.start + zero.len THEN zero ELSE one
    IN  IF two.len = one.len THEN Encoded(b, anchor, one, HashChain(b, w.stream, End(one), End(one)))
        ELSE IF two.start - first.start < 3 THEN Search2(b, w.stream, anchor, two, zero)
        ELSE Search3(b, w.stream, anchor, first, two, zero)

Search3(b, s, anchor, one, second, zero) ==
    LET close == second.start - one.start < OptimalMl
        two == IF close THEN Shifted(second, Squeezed(one, second) - (second.start - one.start)) ELSE second
    IN  Third(b, anchor, one, two, zero, WiderFrom(b, s, two, 3))

Third(b, anchor, one, two, zero, w) ==
    LET three == w.match
        apart == two.start - one.start
        overlap == two.start < End(one)
        len == IF apart < OptimalMl THEN Squeezed(one, two) ELSE apart
        rest == Shifted(two, End(one) - two.start)
        cut == IF overlap THEN [one EXCEPT !.len = apart] ELSE one
        short == IF overlap THEN [one EXCEPT !.len = len] ELSE one
        next == IF overlap /\ apart < OptimalMl THEN Shifted(two, len - apart) ELSE two
    IN  IF three.len = two.len
          THEN Encoded(b, anchor, cut, Encoded(b, End(cut), two, HashChain(b, w.stream, End(two), End(two))))
        ELSE IF three.start >= End(one) + 3
          THEN Encoded(b, anchor, short, Search3(b, w.stream, End(short), next, three, zero))
        ELSE IF three.start >= End(one)
          THEN Encoded(b, anchor, one,
                 Search2(b, w.stream, End(one), three, IF rest.len < MinMatch THEN three ELSE rest))
        ELSE Search3(b, w.stream, anchor, one, three, zero)

-----------------------------------------------------------------------------
\* LZ4HC_compress_optimal: opt[p] is the cheapest way found to p bytes from here.

LiteralsPrice(n) == n + IF n >= RunMask THEN 1 + (n - RunMask) \div ByteMax ELSE 0
SequencePrice(literals, len) ==
    3 + LiteralsPrice(literals)
      + IF len >= RunMask + MinMatch THEN 1 + (len - (RunMask + MinMatch)) \div ByteMax ELSE 0

Entry(mlen, off, litlen, price) == [mlen |-> mlen, off |-> off, litlen |-> litlen, price |-> price]

WithTrailing(opt, last) ==
    [p \in DOMAIN opt |-> IF p \in last + 1..last + Trailing
                            THEN Entry(1, 0, p - last, opt[last].price + LiteralsPrice(p - last))
                            ELSE opt[p]]

FirstPrices(llen, len, off) ==
    WithTrailing([p \in 0..OptNum + Trailing |->
                    IF p < MinMatch THEN Entry(1, 0, llen + p, LiteralsPrice(llen + p))
                    ELSE Entry(p, off, llen, SequencePrice(llen, p))], len)

\* With the literals that may come at cur, then with the match: [opt, last].
WithLiterals(opt, cur) ==
    LET here == opt[cur]
        price(p) == here.price - LiteralsPrice(here.litlen) + LiteralsPrice(here.litlen + p - cur)
    IN  [p \in DOMAIN opt |->
           IF p \in cur + 1..cur + MinMatch - 1 /\ price(p) < opt[p].price
             THEN Entry(1, 0, here.litlen + p - cur, price(p)) ELSE opt[p]]

WithMatch(opt, cur, last, len, off) ==
    LET here == opt[cur]
        ll == IF here.mlen = 1 THEN here.litlen ELSE 0
        start == IF here.mlen # 1 THEN here.price ELSE IF cur > ll THEN opt[cur - ll].price ELSE 0
        price(p) == start + SequencePrice(ll, p - cur)
        better(p) == p > last + Trailing \/ price(p) <= opt[p].price
        to == IF last < cur + len /\ better(cur + len) THEN cur + len ELSE last
    IN  [last |-> to,
         opt |-> WithTrailing([p \in DOMAIN opt |->
                     IF p \in cur + MinMatch..cur + len /\ better(p)
                       THEN Entry(p - cur, off, ll, price(p)) ELSE opt[p]], to)]

\* The way to a position, as it is gone from the front.
RECURSIVE Forward(_, _, _, _)
Forward(opt, p, len, off) ==
    LET before == opt[p]
        put == [opt EXCEPT ![p].mlen = len, ![p].off = off]
    IN  IF before.mlen > p THEN put ELSE Forward(put, p - before.mlen, before.mlen, before.off)

Longer(b, s, i, len) ==
    Wider(b, s, i, i, len, [attempts |-> s.level.attempts, patterns |-> TRUE, swap |-> TRUE])

RECURSIVE Optimal(_, _, _, _), Priced(_, _, _, _), Further(_, _, _, _, _, _, _),
          Weighed(_, _, _, _, _, _, _, _), Record(_, _, _, _, _, _, _)
Optimal(b, s, i, anchor) ==
    IF i > b.mfLimit THEN LastLiteralsOf(b, anchor, s)
    ELSE Priced(b, i, anchor, Longer(b, s, i, MinMatch - 1))

Priced(b, i, anchor, w) ==
    LET a == w.match
        s == w.stream
    IN  IF a.len < MinMatch THEN Optimal(b, s, i + 1, anchor)
        ELSE IF a.len > Least(s.level.target, OptNum - 1)
               THEN Encoded(b, anchor, a, Optimal(b, s, End(a), End(a)))
        ELSE Further(b, s, i, anchor, FirstPrices(i - anchor, a.len, a.start - a.ref), 1, a.len)

\* No better one is likely where the next position costs no more.
Further(b, s, i, anchor, opt, cur, last) ==
    LET cheap == /\ opt[cur + 1].price <= opt[cur].price
                 /\ s.level.full => opt[cur + MinMatch].price < opt[cur].price + 3
        least == IF s.level.full THEN MinMatch - 1 ELSE last - cur
    IN  IF cur >= last \/ i + cur > b.mfLimit
          THEN Record(b, s, i, anchor, Forward(opt, last - opt[last].mlen, opt[last].mlen, opt[last].off), 0, last)
        ELSE IF cheap THEN Further(b, s, i, anchor, opt, cur + 1, last)
        ELSE Weighed(b, i, anchor, opt, cur, last, least, Longer(b, s, i + cur, least))

Weighed(b, i, anchor, opt, cur, last, least, w) ==
    LET s == w.stream
        len == w.match.len
        off == w.match.start - w.match.ref
        more == WithMatch(WithLiterals(opt, cur), cur, last, len, off)
    IN  IF len <= least THEN Further(b, s, i, anchor, opt, cur + 1, last)
        ELSE IF len > Least(s.level.target, OptNum - 1) \/ len + cur >= OptNum
          THEN Record(b, s, i, anchor, Forward(opt, cur, len, off), 0, cur + 1)
        ELSE Further(b, s, i, anchor, more.opt, cur + 1, more.last)

Record(b, s, i, anchor, opt, p, last) ==
    LET a == [start |-> i, len |-> opt[p].mlen, ref |-> i - opt[p].off]
    IN  IF p >= last THEN Optimal(b, s, i, anchor)
        ELSE IF a.len = 1 THEN Record(b, s, i + 1, anchor, opt, p + 1, last)
        ELSE Encoded(b, anchor, a, Record(b, s, End(a), End(a), opt, p + a.len, last))

-----------------------------------------------------------------------------
\* LZ4HC_compress_generic_internal, as the level says.
CompressGeneric(m, s, n) ==
    LET b == CallHC(m, s, n)
        ready == [s EXCEPT !.end = @ + n]
    IN  IF s.level.optimal THEN Optimal(b, ready, s.end, s.end)
        ELSE IF n < MfLimit + 1 THEN LastLiteralsOf(b, s.end, ready)
        ELSE HashChain(b, ready, s.end, s.end)

\* LZ4_compress_HC_continue: [out, table], the stream being the table here.
Refreshed(m, s) ==
    LET size == Least(s.end - s.dictLimit, Window)
    IN  IF s.end > OffsetLimit THEN LoadDict(m, s, s.base + s.end - size, size) ELSE s
Attached(m, s, src) == IF s.base + s.end # src THEN SetExternalDict(m, s, src) ELSE s
CompressHC(m, s, src, n) ==
    LET started == IF s.started THEN s ELSE Started(s, src)
    IN  CompressGeneric(m, Covered(Attached(m, Refreshed(m, started), src), src, src + n), n)

InitHC ==
    /\ mem = [p \in Places |-> 0] /\ copy = mem
    /\ \E level \in Levels :
         stream = Cleared([hash |-> <<>>, chain |-> <<>>, next |-> 0, base |-> 0, dictBase |-> 0, dictLimit |-> 0,
                           lowLimit |-> 0, end |-> ResetFrom + 1, started |-> FALSE, level |-> level])
    /\ decoder = NoDictionary
    /\ block = <<>> /\ at = 0 /\ count = 0

Delivered(result) == stream' = result.table /\ Receive(result.out, at', Len(block'))

SendHC ==
    /\ NextBlock
    /\ mem' = Written(block', at')
    /\ Delivered(CompressHC(mem', stream, at', Len(block')))

\* LZ4_resetStreamHC_fast.
ResetHC ==
    /\ count < MaxBlocks /\ stream.started
    /\ stream' = [stream EXCEPT !.started = FALSE]
    /\ Restart

\* LZ4_saveDictHC.
SaveDictHC(n) ==
    LET size == Least(IF n < MinMatch THEN 0 ELSE Least(n, Window), stream.end - stream.dictLimit)
    IN  /\ count < MaxBlocks /\ stream.started
        /\ Saved(stream.base + stream.end, size)
        /\ stream' = [stream EXCEPT !.base = Safe + size - stream.end,
                                    !.dictLimit = stream.end - size, !.lowLimit = stream.end - size,
                                    !.next = IF @ < stream.end - size THEN stream.end - size ELSE @]

NextHC == SendHC \/ ResetHC \/ \E n \in SavedSizes : SaveDictHC(n)
=============================================================================
