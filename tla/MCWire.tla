------------------------------- MODULE MCWire -------------------------------
(* What a byte passes on its way to the other end: the send buffer, with   *)
(* places for three frames of four bytes and wrapping twice; LZ4, on a     *)
(* buffer of 15 bytes, with six more that dictionaries are saved to, and   *)
(* up to four blocks that repeat themselves and each other, indices        *)
(* rescaled after two; its high-compression streams on up to three blocks  *)
(* of that buffer and of a longer one; and the sockets, with a buffer of   *)
(* three bytes and calls smaller and larger than it.                       *)
EXTENDS SendBuffer, Socket, FiniteSets, Sequences

CONSTANTS MaxBlocks, MinMatch, LastLiterals, MfLimit, RunMask, ByteMax, OffsetLimit,
          GapLimit, SavedSizes, PatternFrom, ResetFrom

VARIABLES part, mem, stream, copy, decoder, block, at, count

MCBlocks == { b \in [1..5 -> 0..1] : b[1] = 0 /\ b[4] # b[5] }
              \cup { <<1>>, <<0, 1>>, <<1, 0, 1, 0, 1, 1>>, <<1, 1, 1, 1, 1, 1>>,
                     <<0, 1, 1, 0, 1, 1, 0>> }

MCLevels == { [optimal |-> FALSE, attempts |-> 2, target |-> 3, full |-> FALSE],
              [optimal |-> FALSE, attempts |-> 6, target |-> 3, full |-> FALSE],
              [optimal |-> TRUE, attempts |-> 4, target |-> 4, full |-> FALSE],
              [optimal |-> TRUE, attempts |-> 6, target |-> 7, full |-> TRUE] }
LongLevels == { level \in MCLevels : level.attempts = 6 }

Sevens == { <<0, 0, 0, 0, 0, 0, 0>>, <<0, 1, 0, 1, 0, 1, 0>>, <<0, 1, 0, 0, 1, 1, 0>>,
            <<0, 0, 1, 0, 0, 1, 1>>, <<0, 1, 1, 0, 1, 1, 0>>, <<0, 0, 0, 1, 0, 0, 0>>,
            <<1, 0, 0, 1, 0, 0, 1>>, <<0, 0, 1, 1, 0, 0, 1>>, <<1, 1, 0, 1, 0, 1, 1>> }
HCBlocks == Sevens \cup { <<0, 0, 1, 0, 0>>, <<0, 1, 0, 1, 1>>, <<1, 1, 1, 1, 1>>, <<1>>,
                          <<0, 1>>, <<1, 0, 1, 0, 1, 1>>, <<0, 1, 0, 0, 1, 0>> }

\* Blocks that make known what the last one repeats in longer and longer
\* matches, each beginning in the one before it.
Part(from, to) == [k \in 1..to - from + 1 |-> from + k - 1]
Known(from, to) == Part(0, 4) \o Part(3, 10) \o Part(from, to)
LongBlocks == { Known(4, 13), Known(5, 13), Known(8, 16), Part(0, 16) \o <<1, 0>>,
                <<0, 0, 0, 1, 0, 1, 2, 1, 0, 1, 0, 1, 0, 1, 2, 1, 0, 0, 0, 0>> }

Lz4 == INSTANCE Lz4Stream WITH Places <- 0..20, Safe <- 15, Values <- 0..1, Blocks <- MCBlocks
HC == INSTANCE Lz4HC WITH Places <- 0..20, Safe <- 15, Values <- 0..1, Blocks <- HCBlocks,
                          MaxBlocks <- MaxBlocks - 1, Levels <- MCLevels, OptNum <- 8
Long == INSTANCE Lz4HC WITH Places <- 0..70, Safe <- 64, Values <- 0..16, Blocks <- LongBlocks,
                            Window <- 48, OffsetLimit <- 140, ResetFrom <- 120,
                            MaxBlocks <- MaxBlocks - 1, Levels <- LongLevels, OptNum <- 24

lz4Vars == <<mem, stream, copy, decoder, block, at, count>>
all == <<part, vars, lz4Vars, socketVars>>

MCInit ==
    /\ part \in {"buffer", "lz4", "lz4hc", "long", "socket"} /\ Init /\ InitSocket
    /\ IF part = "lz4hc" THEN HC!InitHC ELSE IF part = "long" THEN Long!InitHC ELSE Lz4!Init
MCNext ==
    \/ part = "buffer" /\ Next /\ UNCHANGED <<part, lz4Vars, socketVars>>
    \/ part = "lz4" /\ Lz4!Next /\ UNCHANGED <<part, vars, socketVars>>
    \/ part = "lz4hc" /\ HC!NextHC /\ UNCHANGED <<part, vars, socketVars>>
    \/ part = "long" /\ Long!NextHC /\ UNCHANGED <<part, vars, socketVars>>
    \/ part = "socket" /\ NextSocket /\ UNCHANGED <<part, vars, lz4Vars>>
MCSpec == MCInit /\ [][MCNext]_all

(* What LZ4 decompresses is what it compressed (tracy_lz4.cpp:652-1008,    *)
(* 1252-1340, 1405-1648, 1804-1841).                                       *)
RoundTrip == Lz4!RoundTrip
=============================================================================
