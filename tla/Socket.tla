-------------------------------- MODULE Socket --------------------------------
(***************************************************************************)
(* A connection between two of Tracy's sockets (tracy/common/              *)
(* TracySocket.cpp): one end sends, the other reads, first the handshake   *)
(* unbuffered and then through a buffer of its own.  A byte is its number  *)
(* in the stream.  The network keeps the order of bytes but not how they   *)
(* were cut, and may let go of those that have not arrived when the        *)
(* sender's end is gone.                                                   *)
(***************************************************************************)
EXTENDS Integers

CONSTANTS BufSize,
          Handshake,        \* bytes read by ReadRaw
          MaxLen, MaxSent   \* bounds: of one call, of all

VARIABLES
    unsent,     \* what is left of the call of Send
    sent, arrived, \* bytes sent, and arrived at the reader's system
    ending,     \* what the reader's system will report once they are taken
    taken,      \* bytes taken from the system by recv
    bufLeft, bufPtr, buf,  \* m_bufLeft, m_bufPtr, what m_buf holds
    reading,    \* the call: "no", "raw", "buffered"
    wanted,     \* and what is left of it
    delivered,  \* bytes its callers were given
    failed      \* a call has returned FALSE: the connection is given up

sender == <<unsent, sent>>
network == <<arrived, ending>>
reader == <<taken, bufLeft, bufPtr, buf, reading, wanted, delivered, failed>>
socketVars == <<sender, network, reader>>

InitSocket ==
    /\ unsent = 0 /\ sent = 0
    /\ arrived = 0 /\ ending = "open"
    /\ taken = 0 /\ bufLeft = 0 /\ bufPtr = 0 /\ buf = [p \in 0 .. BufSize - 1 |-> 0]
    /\ reading = "no" /\ wanted = 0 /\ delivered = 0 /\ failed = FALSE

-----------------------------------------------------------------------------
\* Send passes on what the system takes of it until all is taken.

Send(len) ==
    /\ ending = "open" /\ unsent = 0 /\ sent + len <= MaxSent
    /\ unsent' = len
    /\ UNCHANGED <<sent, network, reader>>

SendSome(n) ==
    /\ ending = "open" /\ n <= unsent
    /\ unsent' = unsent - n /\ sent' = sent + n
    /\ UNCHANGED <<network, reader>>

\* The sender's end is closed, in the middle of a call if it is lost: then
\* the reader may be told of an error before the end.
Close ==
    /\ ending = "open"
    /\ ending' \in {"end", "error"}
    /\ unsent' = 0
    /\ sent' \in (IF ending' = "end" THEN {sent} ELSE arrived .. sent)
    /\ UNCHANGED <<arrived, reader>>

Arrive ==
    /\ arrived < sent /\ arrived' \in arrived + 1 .. sent
    /\ UNCHANGED <<sender, ending, reader>>

-----------------------------------------------------------------------------
\* Recv: the bytes there are, at most len of them; 0 at the end; or -1.

Received(len, ret) ==
    \/ /\ ret > 0 /\ ret <= len /\ ret <= arrived - taken
       /\ ret = len \/ ret = arrived - taken
       /\ taken' = taken + ret /\ UNCHANGED network
    \/ /\ ret = 0 /\ ending = "end" /\ taken = sent
       /\ UNCHANGED <<taken, network>>
    \/ /\ ret = -1 /\ ending = "error" /\ taken = sent
       /\ ending' = "end" /\ UNCHANGED <<taken, arrived>>
    \/ /\ ret = -1 /\ taken = arrived /\ (ending = "open" \/ taken < sent)
       /\ UNCHANGED <<taken, network>>

StartsRaw == delivered < Handshake
Read(len) ==
    /\ reading = "no" /\ ~ failed
    /\ IF StartsRaw THEN reading' = "raw" /\ delivered + len <= Handshake
                    ELSE reading' = "buffered"
    /\ wanted' = len
    /\ UNCHANGED <<sender, network, taken, bufLeft, bufPtr, buf, delivered, failed>>

\* What a call of ReadRaw or Read makes of what it got.
Got(n) ==
    /\ delivered' = delivered + n /\ wanted' = wanted - n
    /\ reading' = IF n = wanted THEN "no" ELSE reading
    /\ UNCHANGED failed
GiveUp ==
    /\ failed' = TRUE /\ reading' = "no" /\ wanted' = 0
    /\ UNCHANGED delivered
Retry == UNCHANGED <<delivered, wanted, reading, failed>>

\* Read takes -1 for a wait that was too long, ReadRaw for the end.
ReadRaw ==
    /\ reading = "raw"
    /\ \E ret \in -1 .. MaxLen :
         /\ Received(wanted, ret)
         /\ IF ret > 0 THEN Got(ret) ELSE GiveUp
    /\ UNCHANGED <<sender, bufLeft, bufPtr, buf>>

Buffered(n) == n <= bufLeft
FromBuffer ==
    /\ reading = "buffered" /\ Buffered(wanted)
    /\ Got(wanted)
    /\ bufPtr' = bufPtr + wanted /\ bufLeft' = bufLeft - wanted
    /\ UNCHANGED <<sender, network, taken, buf>>

RestOfBuffer ==
    /\ reading = "buffered" /\ ~ Buffered(wanted) /\ bufLeft > 0
    /\ Got(bufLeft)
    /\ bufLeft' = 0
    /\ UNCHANGED <<sender, network, taken, bufPtr, buf>>

NeedsMore == reading = "buffered" /\ ~ Buffered(wanted) /\ bufLeft <= 0

Direct ==
    /\ NeedsMore /\ wanted >= BufSize
    /\ \E ret \in -1 .. MaxLen :
         /\ Received(wanted, ret)
         /\ IF ret > 0 THEN Got(ret) ELSE IF ret = 0 THEN GiveUp ELSE Retry
    /\ UNCHANGED <<sender, bufLeft, bufPtr, buf>>

KeptMutant(ret, n) == ret
Kept(ret, n) == ret - n
Fill ==
    /\ NeedsMore /\ wanted < BufSize
    /\ \E ret \in -1 .. BufSize :
         /\ Received(BufSize, ret)
         /\ IF ret > 0
              THEN LET n == IF wanted < ret THEN wanted ELSE ret
                   IN  /\ buf' = [p \in 0 .. BufSize - 1 |->
                                    IF p < ret THEN taken + p + 1 ELSE buf[p]]
                       /\ bufPtr' = n /\ bufLeft' = Kept(ret, n)
                       /\ Got(n)
              ELSE /\ bufLeft' = ret /\ UNCHANGED <<bufPtr, buf>>
                   /\ IF ret = 0 THEN GiveUp ELSE Retry
    /\ UNCHANGED sender

\* What HasData answers; the worker asks it before each query it reads.
HasData == bufLeft > 0 \/ taken < arrived \/ (ending # "open" /\ taken = sent)

NextSocket ==
    \/ \E n \in 1 .. MaxLen : Send(n) \/ SendSome(n) \/ Read(n)
    \/ Close \/ Arrive
    \/ ReadRaw \/ FromBuffer \/ RestOfBuffer \/ Direct \/ Fill

Socket == InitSocket /\ [][NextSocket]_socketVars

-----------------------------------------------------------------------------
(* The reader's callers get the bytes in order, each once: those taken     *)
(* from the system and not delivered are exactly what the buffer holds,    *)
(* though m_bufLeft may be -1, and HasData denies none of them             *)
(* (TracySocket.cpp:148-257).                                              *)
ReadInOrder ==
    /\ taken - delivered = (IF bufLeft > 0 THEN bufLeft ELSE 0)
    /\ \A k \in 0 .. taken - delivered - 1 : buf[bufPtr + k] = delivered + 1 + k
    /\ delivered < taken => HasData
=============================================================================
