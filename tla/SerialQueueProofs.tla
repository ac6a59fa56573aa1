-------------------------- MODULE SerialQueueProofs --------------------------
(***************************************************************************)
(* That the serial queue's worker takes every item once and in order, and  *)
(* touches no block it should not, for any number of threads, room at      *)
(* first and events, whatever thread crashes and wherever the others are   *)
(* frozen.                                                                 *)
(***************************************************************************)
EXTENDS SerialQueue, SequenceTheorems, TLAPS

ItemBlocks == [cells : Seq(Items), room : Nat \ {0}, live : BOOLEAN]

Types ==
    /\ lock \in Threads \cup {"none", "worker"}
    /\ pc \in [Threads -> {"outside", "push", "free", "install", "commit", "unlock"}]
    /\ todo \in Seq(Items)
    /\ toInstall \subseteq {"ptr", "write", "end"}
    /\ blocks \in Seq(ItemBlocks)
    /\ serial \in Vectors(Len(blocks)) /\ dequeue \in Vectors(Len(blocks))
    /\ worker \in {"try", "swap", "read", "idle", "returned", "handler", "faulted"}
    /\ cursor \in Nat
    /\ crashed \in Threads \cup {"none", "worker"}
    /\ frozen \subseteq Threads
    /\ traced \in Nat
    /\ order \in Seq(Items) /\ sent \in Seq(Items)

Halted(t) == t \in frozen \cup {crashed}

\* The lock's holder is the thread inside, and has items left to push; the
\* worker does without the lock only when every thread has been stopped.
Locked ==
    /\ \A t \in Threads : pc[t] # "outside" <=> lock = t
    /\ \A t \in Threads : pc[t] \in {"push", "free", "install", "commit"} => todo # <<>>
    /\ \A t \in Threads : pc[t] = "install" <=> lock = t /\ toInstall # {}
    /\ toInstall # {} => \E t \in Threads : pc[t] = "install"
    /\ worker = "swap" /\ lock # "worker" => shutdownManual
    /\ shutdownManual => \A t \in Threads : Halted(t)

\* A vector out of AllocMore, and one whose pointers are being set.
Sound(v) ==
    /\ v.write[1] = v.ptr /\ v.end[1] = v.ptr
    /\ v.end[2] = blocks[v.ptr].room
    /\ v.write[2] <= Len(blocks[v.ptr].cells)
    /\ blocks[v.ptr].live

Half(v) ==
    LET new == Len(blocks)
    IN  /\ blocks[new].live
        /\ IF "ptr" \in toInstall THEN ~ blocks[v.ptr].live ELSE v.ptr = new
        /\ "write" \notin toInstall => v.write[1] = new
        /\ "write" \in toInstall => v.write[1] # new
        /\ "end" \notin toInstall => v.end[1] = new /\ v.end[2] = blocks[new].room
        /\ v.write[2] <= Len(blocks[new].cells)
        /\ toInstall \cap {"ptr", "write"} # {} =>
             v.write[2] = Len(blocks[new].cells) /\ v.write[2] # 0

VectorsFit ==
    /\ \A b \in DOMAIN blocks : Len(blocks[b].cells) <= blocks[b].room
    /\ toInstall = {} => Sound(serial) /\ Sound(dequeue) /\ serial.ptr # dequeue.ptr
    /\ toInstall # {} =>
         \/ Half(serial) /\ Sound(dequeue) /\ dequeue.ptr # Len(blocks)
         \/ /\ Half(dequeue) /\ Sound(serial) /\ serial.ptr # Len(blocks)
            /\ \A t \in Threads : pc[t] = "install" => Halted(t)

\* What a thread that can still run has done within AllocMore or prepare_next.
Growing ==
    \A t \in Threads : pc[t] = "free" /\ ~ Halted(t) =>
      LET new == Len(blocks)
      IN  /\ serial.ptr # new /\ dequeue.ptr # new
          /\ blocks[new].live /\ blocks[new].cells = blocks[serial.ptr].cells
          /\ serial.write[2] = Len(blocks[new].cells) /\ serial.write[2] # 0

Prepared ==
    \A t \in Threads : pc[t] = "commit" /\ ~ Halted(t) =>
      /\ Len(blocks[serial.ptr].cells) = serial.write[2] + 1
      /\ blocks[serial.ptr].cells[serial.write[2] + 1] = Head(todo)

\* Where a vector's items are: in its block, or in the one they were copied to.
Source(v) == IF blocks[v.ptr].live THEN v.ptr ELSE Len(blocks)
Holds(v, base) == \A i \in 1..v.write[2] : blocks[Source(v)].cells[i] = order[base + i]

\* What was sent, then what the worker has still to read, then what was
\* committed since the swap, are all the items in order.
InOrder ==
    worker \in {"try", "swap", "read", "idle"} =>
      /\ cursor <= dequeue.write[2]
      /\ worker # "read" => dequeue.write[2] = 0
      /\ Len(sent) + dequeue.write[2] - cursor + serial.write[2] = Len(order)
      /\ cursor <= Len(sent)
      /\ Holds(serial, Len(order) - serial.write[2])
      /\ Holds(dequeue, Len(sent) - cursor)
      /\ "ptr" \in toInstall /\ ~ blocks[dequeue.ptr].live => cursor = 0

SentSoFar == Len(sent) <= Len(order) /\ \A i \in 1..Len(sent) : sent[i] = order[i]

Faults == worker = "faulted" => StoppedGrowing

IInv == Types /\ Locked /\ VectorsFit /\ Growing /\ Prepared /\ InOrder /\ SentSoFar /\ Faults

-----------------------------------------------------------------------------
\* The parts of a vector, and of one with a part replaced.
LEMMA Fields ==
    ASSUME NEW n \in Nat, NEW v \in Vectors(n)
    PROVE  /\ v.ptr \in 1..n
           /\ v.write[1] \in 1..n /\ v.write[2] \in Nat /\ v.write = <<v.write[1], v.write[2]>>
           /\ v.end[1] \in 1..n /\ v.end[2] \in Nat /\ v.end = <<v.end[1], v.end[2]>>
BY DEF Vectors

LEMMA Replaced ==
    ASSUME NEW n \in Nat, NEW v \in Vectors(n), NEW m \in Nat, n <= m,
           NEW b \in 1..m, NEW k \in Nat
    PROVE  /\ v \in Vectors(m)
           /\ [v EXCEPT !.ptr = b] \in Vectors(m)
           /\ [v EXCEPT !.write = <<b, k>>] \in Vectors(m)
           /\ [v EXCEPT !.end = <<b, k>>] \in Vectors(m)
           /\ [v EXCEPT !.ptr = b].ptr = b
           /\ [v EXCEPT !.ptr = b].write = v.write
           /\ [v EXCEPT !.ptr = b].end = v.end
           /\ [v EXCEPT !.write = <<b, k>>].write = <<b, k>>
           /\ [v EXCEPT !.write = <<b, k>>].ptr = v.ptr
           /\ [v EXCEPT !.write = <<b, k>>].end = v.end
           /\ [v EXCEPT !.end = <<b, k>>].end = <<b, k>>
           /\ [v EXCEPT !.end = <<b, k>>].ptr = v.ptr
           /\ [v EXCEPT !.end = <<b, k>>].write = v.write
BY DEF Vectors

LEMMA Committed ==
    ASSUME NEW n \in Nat, NEW v \in Vectors(n), NEW w, w = [v EXCEPT !.write[2] = @ + 1]
    PROVE  /\ w \in Vectors(n)
           /\ w.ptr = v.ptr /\ w.end = v.end
           /\ w.write[1] = v.write[1] /\ w.write[2] = v.write[2] + 1
<1>1. [v.write EXCEPT ![2] = @ + 1] = <<v.write[1], v.write[2] + 1>>
  BY DEF Vectors
<1>2. w = [v EXCEPT !.write = <<v.write[1], v.write[2] + 1>>]
  BY <1>1
<1> QED BY <1>2, Fields DEF Vectors

LEMMA InvInit == ASSUME SerialAssumption, Init PROVE IInv
<1>1. /\ Len(blocks) = 2 /\ blocks[1] = EmptyBlock /\ blocks[2] = EmptyBlock
      /\ EmptyBlock \in ItemBlocks /\ blocks \in Seq(ItemBlocks)
  BY DEF Init, EmptyBlock, ItemBlocks, SerialAssumption
<1>2. /\ serial = [ptr |-> 1, write |-> <<1, 0>>, end |-> <<1, Capacity>>]
      /\ dequeue = [ptr |-> 2, write |-> <<2, 0>>, end |-> <<2, Capacity>>]
  BY DEF Init, EmptyVector
<1>3. serial \in Vectors(2) /\ dequeue \in Vectors(2)
  BY <1>2 DEF Vectors, SerialAssumption
<1>4. Types
  BY <1>1, <1>3 DEF Init, Types
<1>5. Locked /\ Growing /\ Prepared /\ SentSoFar /\ Faults
  BY DEF Init, SerialAssumption, Locked, Growing, Prepared, SentSoFar, Faults
<1>6. VectorsFit
  BY <1>1, <1>2 DEF Init, VectorsFit, Sound, EmptyBlock, SerialAssumption
<1>7. InOrder
  BY <1>1, <1>2 DEF Init, InOrder, Holds
<1> QED BY <1>4, <1>5, <1>6, <1>7 DEF IInv

\* A step that moves no item and no pointer.
LEMMA Standing ==
    ASSUME Types, VectorsFit, Growing, Prepared,
           UNCHANGED <<blocks, serial, dequeue, toInstall, todo>>,
           \A t \in Threads : Halted(t) => Halted(t)' /\ pc'[t] = pc[t],
           \A t \in Threads : pc'[t] \in {"free", "install", "commit"} => pc'[t] = pc[t]
    PROVE  VectorsFit' /\ Growing' /\ Prepared'
<1>1. VectorsFit'
  BY DEF VectorsFit, Sound, Half
<1>2. Growing' /\ Prepared'
  BY DEF Growing, Prepared
<1> QED BY <1>1, <1>2

LEMMA LockKeeps == ASSUME SerialAssumption, IInv, NEW t \in Threads, Lock(t) PROVE IInv'
<1> USE DEF IInv
<1>1. todo' \in Seq(Items) /\ todo' # <<>> /\ traced' \in Nat
  <2>1. traced' \in 1..MaxAllocs
    BY DEF Lock, Types, SerialAssumption
  <2>2. <<"event", traced'>> \in Items /\ <<"callstack", traced'>> \in Items
    BY <2>1 DEF Items
  <2>3. PICK e \in Items, c \in Items : todo' = <<e>> \/ todo' = <<e, c>>
    BY <2>2 DEF Lock
  <2>4. <<e>> \in Seq(Items) /\ <<e, c>> \in Seq(Items) /\ <<e>> # <<>> /\ <<e, c>> # <<>>
    OBVIOUS
  <2>5. todo' \in Seq(Items) /\ todo' # <<>>
    BY <2>3, <2>4
  <2>6. traced' \in Nat
    BY <2>1 DEF SerialAssumption
  <2> QED BY <2>5, <2>6
<1>2. Types'
  BY <1>1 DEF Lock, Types, crash, reader
<1>3. Locked'
  BY <1>1 DEF Lock, Types, Locked, Stopped, Halted, crash, reader, SerialAssumption
<1>4. VectorsFit' /\ Growing' /\ Prepared'
  <2>1. \A u \in Threads : u # t => pc'[u] = pc[u]
    BY DEF Lock, Types
  <2>2. pc'[t] = "push" /\ pc[t] = "outside" /\ ~ Halted(t)
    BY DEF Lock, Types, Stopped, Halted
  <2>3. VectorsFit'
    BY <2>1, <2>2 DEF VectorsFit, Sound, Half, Lock, crash, Halted
  <2>4. Growing'
    BY <2>1, <2>2 DEF Growing, Lock, crash, Halted
  <2>5. Prepared'
    <3>1. \A u \in Threads : pc'[u] # "commit"
      BY <2>1, <2>2 DEF Locked, Lock, SerialAssumption
    <3> QED BY <3>1 DEF Prepared
  <2> QED BY <2>3, <2>4, <2>5
<1>5. InOrder' /\ SentSoFar' /\ Faults'
  <2>1. InOrder' /\ SentSoFar'
    BY DEF InOrder, SentSoFar, Holds, Source, Lock, reader
  <2>2. Faults'
    BY DEF Faults, StoppedGrowing, Lock, Types, reader, crash, Stopped
  <2> QED BY <2>1, <2>2
<1> QED BY <1>2, <1>3, <1>4, <1>5

LEMMA UnlockKeeps == ASSUME SerialAssumption, IInv, NEW t \in Threads, Unlock(t) PROVE IInv'
<1> USE DEF IInv
<1>1. Types'
  BY DEF Unlock, Types, crash, reader
<1>2. Locked'
  BY DEF Unlock, Types, Locked, Stopped, Halted, crash, reader, SerialAssumption
<1>3. VectorsFit' /\ Growing' /\ Prepared'
  <2>1. \A u \in Threads : u # t => pc'[u] = pc[u]
    BY DEF Unlock, Types
  <2>2. pc'[t] = "outside" /\ pc[t] = "unlock"
    BY DEF Unlock, Types
  <2>3. \A u \in Threads : Halted(u) => Halted(u)' /\ pc'[u] = pc[u]
    BY <2>1 DEF Unlock, crash, Halted, Stopped
  <2> QED BY <2>1, <2>2, <2>3, Standing DEF Unlock
<1>4. InOrder' /\ SentSoFar'
  BY DEF InOrder, SentSoFar, Holds, Source, Unlock, reader
<1>5. Faults'
  BY DEF Faults, StoppedGrowing, Unlock, Types, reader, crash, Stopped
<1> QED BY <1>1, <1>2, <1>3, <1>4, <1>5

LEMMA TryLockKeeps == ASSUME SerialAssumption, IInv, TryLock PROVE IInv'
<1> USE DEF IInv
<1>1. Types'
  BY DEF TryLock, Types, crash, tracers
<1>2. Locked'
  BY DEF TryLock, Types, Locked, Halted, crash, tracers, SerialAssumption
<1>3. VectorsFit' /\ Growing' /\ Prepared'
  BY Standing DEF TryLock, crash, tracers, Halted
<1>4. InOrder' /\ SentSoFar' /\ Faults'
  BY DEF InOrder, SentSoFar, Holds, Source, Faults, StoppedGrowing, TryLock, crash, tracers
<1> QED BY <1>1, <1>2, <1>3, <1>4

LEMMA IdleKeeps == ASSUME SerialAssumption, IInv, Idle PROVE IInv'
<1> USE DEF IInv
<1>1. Types'
  BY DEF Idle, Types, crash, tracers
<1>2. Locked'
  BY DEF Idle, Locked, Halted, crash, tracers
<1>3. VectorsFit' /\ Growing' /\ Prepared'
  BY Standing DEF Idle, crash, tracers, Halted
<1>4. InOrder' /\ SentSoFar' /\ Faults'
  BY DEF InOrder, SentSoFar, Holds, Source, Faults, StoppedGrowing, Idle, crash, tracers
<1> QED BY <1>1, <1>2, <1>3, <1>4

LEMMA CrashKeeps ==
    ASSUME SerialAssumption, IInv, NEW t \in Threads \cup {"worker"}, Crash(t) PROVE IInv'
<1> USE DEF IInv
<1>1. Types'
  BY DEF Crash, Types, tracers
<1>2. \A u \in Threads : Halted(u) => Halted(u)'
  BY DEF Crash, Halted, SerialAssumption
<1>3. Locked'
  BY <1>2 DEF Crash, Locked, tracers
<1>4. VectorsFit' /\ Growing' /\ Prepared'
  BY <1>2, Standing DEF Crash, tracers
<1>5. InOrder' /\ SentSoFar' /\ Faults'
  BY DEF InOrder, SentSoFar, Holds, Source, Faults, StoppedGrowing, Crash, tracers, SerialAssumption
<1> QED BY <1>1, <1>3, <1>4, <1>5

LEMMA FreezeKeeps == ASSUME SerialAssumption, IInv, NEW t \in Threads, Freeze(t) PROVE IInv'
<1> USE DEF IInv
<1>1. Types'
  BY DEF Freeze, Types, tracers, reader
<1>2. \A u \in Threads : Halted(u) => Halted(u)'
  BY DEF Freeze, Halted
<1>3. Locked'
  BY <1>2 DEF Freeze, Locked, tracers, reader
<1>4. VectorsFit' /\ Growing' /\ Prepared'
  BY <1>2, Standing DEF Freeze, tracers
<1>5. InOrder' /\ SentSoFar' /\ Faults'
  BY DEF InOrder, SentSoFar, Holds, Source, Faults, StoppedGrowing, Freeze, tracers, reader
<1> QED BY <1>1, <1>3, <1>4, <1>5

LEMMA RequestShutdownKeeps == ASSUME SerialAssumption, IInv, RequestShutdown PROVE IInv'
<1> USE DEF IInv
<1>1. Types'
  BY DEF RequestShutdown, Types, tracers, reader
<1>2. Locked'
  BY DEF RequestShutdown, Locked, Halted, tracers, reader
<1>3. VectorsFit' /\ Growing' /\ Prepared'
  BY Standing DEF RequestShutdown, tracers, Halted
<1>4. InOrder' /\ SentSoFar' /\ Faults'
  BY DEF InOrder, SentSoFar, Holds, Source, Faults, StoppedGrowing, RequestShutdown, tracers, reader
<1> QED BY <1>1, <1>2, <1>3, <1>4

LEMMA AbortKeeps == ASSUME SerialAssumption, IInv, Abort PROVE IInv'
<1> USE DEF IInv
<1>1. Types' /\ Locked'
  BY DEF Abort, Types, Locked, Halted, tracers, reader
<1>2. VectorsFit' /\ Growing' /\ Prepared'
  BY Standing DEF Abort, tracers, Halted
<1>3. InOrder' /\ SentSoFar' /\ Faults'
  BY DEF InOrder, SentSoFar, Holds, Source, Faults, StoppedGrowing, Abort, tracers, reader
<1> QED BY <1>1, <1>2, <1>3

\* What the types say of the parts.
LEMMA Parts ==
    ASSUME Types
    PROVE  /\ Len(blocks) \in Nat /\ Len(order) \in Nat /\ Len(sent) \in Nat /\ cursor \in Nat
           /\ serial.ptr \in 1..Len(blocks) /\ serial.write[2] \in Nat
           /\ dequeue.ptr \in 1..Len(blocks) /\ dequeue.write[2] \in Nat
           /\ serial.write = <<serial.write[1], serial.write[2]>>
           /\ dequeue.write = <<dequeue.write[1], dequeue.write[2]>>
           /\ serial.end = <<serial.end[1], serial.end[2]>>
           /\ \A b \in 1..Len(blocks) : /\ blocks[b] \in ItemBlocks
                                        /\ blocks[b].cells \in Seq(Items)
                                        /\ Len(blocks[b].cells) \in Nat
                                        /\ blocks[b].room \in Nat \ {0}
                                        /\ blocks[b].live \in BOOLEAN
<1>1. Len(blocks) \in Nat /\ Len(order) \in Nat /\ Len(sent) \in Nat /\ cursor \in Nat
  BY DEF Types
<1>2. serial \in Vectors(Len(blocks)) /\ dequeue \in Vectors(Len(blocks))
  BY DEF Types
<1>3. \A b \in 1..Len(blocks) : blocks[b] \in ItemBlocks
  BY DEF Types
<1>4. ASSUME NEW b \in 1..Len(blocks)
      PROVE  /\ blocks[b].cells \in Seq(Items) /\ Len(blocks[b].cells) \in Nat
             /\ blocks[b].room \in Nat \ {0} /\ blocks[b].live \in BOOLEAN
  <2>1. blocks[b].cells \in Seq(Items) /\ blocks[b].room \in Nat \ {0} /\ blocks[b].live \in BOOLEAN
    BY <1>3 DEF ItemBlocks
  <2> QED BY <2>1
<1> QED BY <1>1, <1>2, <1>3, <1>4, Fields

LEMMA SwapKeeps == ASSUME SerialAssumption, IInv, Swap PROVE IInv'
<1> USE DEF IInv
<1>1. Types'
  BY DEF Swap, Types, crash, tracers
<1>2. Locked'
  BY DEF Swap, Types, Locked, Halted, crash, tracers, SerialAssumption
<1>3. \/ toInstall = {} /\ \A t \in Threads : pc[t] = "outside"
      \/ \A t \in Threads : Halted(t)
  BY DEF Swap, Types, Locked, SerialAssumption
<1>4. VectorsFit'
  BY <1>3 DEF Swap, VectorsFit, Sound, Half, Halted, crash, tracers
<1>5. Growing' /\ Prepared'
  BY <1>3 DEF Swap, Growing, Prepared, Halted, crash, tracers
<1>6. InOrder'
  <2>1. /\ dequeue.write[2] = 0 /\ cursor = 0
        /\ Len(sent) = Len(order) - serial.write[2]
        /\ serial.write[2] \in Nat
    BY Parts DEF Swap, InOrder
  <2>2. worker' # "read" => dequeue'.write[2] = 0
    BY DEF Swap, Empty
  <2>3. Holds(serial, Len(order) - serial.write[2])
    BY DEF Swap, InOrder
  <2>4. Holds(dequeue, Len(sent) - cursor)' /\ Holds(serial, Len(order) - serial.write[2])'
    BY <2>1, <2>3 DEF Swap, Holds, Source, tracers, Types
  <2> QED BY <2>1, <2>2, <2>4 DEF Swap, InOrder, tracers, Types
<1>7. SentSoFar' /\ Faults'
  BY DEF SentSoFar, Faults, StoppedGrowing, Swap, crash, tracers
<1> QED BY <1>1, <1>2, <1>4, <1>5, <1>6, <1>7

\* The worker reads within what was committed, unless the block is gone or
\* the vector was taken from a thread stopped while it set the pointers.
LEMMA Reachable ==
    ASSUME IInv, Read
    PROVE  \/ blocks[dequeue.ptr].live /\ cursor < dequeue.write[2]
              /\ dequeue.write[2] <= Len(blocks[dequeue.ptr].cells)
           \/ /\ toInstall # {}
              /\ \A t \in Threads : pc[t] = "install" => Halted(t)
              /\ ~ (blocks[dequeue.ptr].live /\ cursor < Len(blocks[dequeue.ptr].cells))
<1> USE DEF IInv
<1>1. /\ dequeue.write[2] \in Nat /\ cursor \in Nat /\ Len(blocks) \in Nat
      /\ dequeue.write = <<dequeue.write[1], dequeue.write[2]>>
      /\ dequeue.ptr \in 1..Len(blocks)
  BY Fields DEF Types
<1>2. Len(blocks[dequeue.ptr].cells) \in Nat
  BY <1>1 DEF Types, ItemBlocks
<1>3. cursor <= dequeue.write[2] /\ dequeue.write # <<dequeue.ptr, cursor>>
  BY DEF Read, InOrder
<1>4. dequeue.write[1] = dequeue.ptr => cursor < dequeue.write[2]
  BY <1>1, <1>3
<1>5. CASE Sound(dequeue)
  BY <1>4, <1>5 DEF Sound
<1>6. CASE ~ Sound(dequeue)
  <2>1. /\ toInstall # {} /\ Half(dequeue)
        /\ \A t \in Threads : pc[t] = "install" => Halted(t)
    BY <1>6 DEF VectorsFit
  <2>2. ASSUME blocks[dequeue.ptr].live, cursor < Len(blocks[dequeue.ptr].cells)
        PROVE  /\ cursor < dequeue.write[2]
               /\ dequeue.write[2] <= Len(blocks[dequeue.ptr].cells)
    BY <1>1, <1>2, <1>4, <2>1, <2>2 DEF Half
  <2> QED BY <2>1, <2>2
<1> QED BY <1>5, <1>6

LEMMA ReadKeeps == ASSUME SerialAssumption, IInv, Read PROVE IInv'
<1> USE DEF IInv
<1>1. \A t \in Threads : Halted(t) => Halted(t)'
  BY DEF Read, Halted, SerialAssumption
<1>2. VectorsFit' /\ Growing' /\ Prepared'
  BY <1>1, Standing DEF Read, tracers
<1>3. Locked'
  BY <1>1 DEF Read, Locked, tracers
<1>4. CASE blocks[dequeue.ptr].live /\ cursor < Len(blocks[dequeue.ptr].cells)
  <2>1. /\ cursor < dequeue.write[2] /\ dequeue.write[2] <= Len(blocks[dequeue.ptr].cells)
        /\ sent' = Append(sent, blocks[dequeue.ptr].cells[cursor + 1])
        /\ cursor' = cursor + 1 /\ worker' = worker /\ crashed' = crashed
    BY <1>4, Reachable DEF Read
  <2>2. /\ dequeue.write[2] \in Nat /\ serial.write[2] \in Nat /\ cursor \in Nat
        /\ sent \in Seq(Items) /\ order \in Seq(Items)
        /\ blocks[dequeue.ptr].cells \in Seq(Items)
    BY Parts DEF Types
  <2>3. blocks[dequeue.ptr].cells[cursor + 1] \in Items
    BY <2>1, <2>2
  <2>4. /\ sent' \in Seq(Items) /\ Len(sent') = Len(sent) + 1
        /\ \A i \in 1..Len(sent) : sent'[i] = sent[i]
        /\ sent'[Len(sent) + 1] = blocks[dequeue.ptr].cells[cursor + 1]
    BY <2>1, <2>2, <2>3
  <2>5. Types'
    BY <2>1, <2>2, <2>4 DEF Read, Types, tracers
  <2>6. worker = "read" /\ InOrder /\ Source(dequeue) = dequeue.ptr
    BY <1>4 DEF Read, Source
  <2>7. /\ Len(sent) + 1 <= Len(order)
        /\ blocks[dequeue.ptr].cells[cursor + 1] = order[Len(sent) + 1]
    <3>1. cursor + 1 \in 1..dequeue.write[2]
      BY <2>1, <2>2
    <3>2. blocks[dequeue.ptr].cells[cursor + 1] = order[Len(sent) - cursor + (cursor + 1)]
      BY <2>6, <3>1 DEF InOrder, Holds
    <3>3. Len(sent) - cursor + (cursor + 1) = Len(sent) + 1
      BY <2>2
    <3>4. Len(sent) + dequeue.write[2] - cursor + serial.write[2] = Len(order)
      BY <2>6 DEF InOrder
    <3>5. Len(sent) + 1 <= Len(order)
      BY <2>1, <2>2, <3>4
    <3> QED BY <3>2, <3>3, <3>5
  <2>8. SentSoFar'
    <3>1. order' = order
      BY DEF Read, tracers
    <3>2. ASSUME NEW i \in 1..Len(sent') PROVE sent'[i] = order[i]
      <4>1. i \in 1..Len(sent) \/ i = Len(sent) + 1
        BY <2>2, <2>4
      <4> QED BY <2>1, <2>4, <2>7, <4>1 DEF SentSoFar
    <3> QED BY <2>4, <2>7, <3>1, <3>2 DEF SentSoFar
  <2>9. InOrder'
    <3>1. Len(sent') - cursor' = Len(sent) - cursor
      <4>1. Len(sent) \in Nat /\ cursor \in Nat
        BY <2>2
      <4> QED BY <2>1, <2>4, <4>1
    <3>2. Holds(dequeue, Len(sent) - cursor)' /\ Holds(serial, Len(order) - serial.write[2])'
      BY <2>6, <3>1 DEF InOrder, Holds, Source, Read, tracers
    <3> QED BY <1>4, <2>1, <2>2, <2>4, <2>6, <3>2 DEF InOrder, Read, tracers
  <2>10. Faults'
    BY <2>1, <2>6 DEF Faults
  <2> QED BY <1>2, <1>3, <2>5, <2>8, <2>9, <2>10
<1>5. CASE ~ (blocks[dequeue.ptr].live /\ cursor < Len(blocks[dequeue.ptr].cells))
  <2>1. /\ worker' = "faulted" /\ sent' = sent /\ cursor' = cursor
        /\ crashed' \in {crashed, "worker"}
    BY <1>5 DEF Read
  <2>2. Types'
    BY <2>1 DEF Read, Types, tracers
  <2>3. InOrder' /\ SentSoFar'
    BY <2>1 DEF InOrder, SentSoFar, Read, tracers
  <2>4. Faults'
    <3>1. /\ dequeue.write[2] \in Nat /\ cursor \in Nat
          /\ Len(blocks[dequeue.ptr].cells) \in Nat
      BY Parts
    <3>2. toInstall # {} /\ \A t \in Threads : pc[t] = "install" => Halted(t)
      BY <1>5, <3>1, Reachable
    <3>3. PICK t \in Threads : pc[t] = "install" /\ Halted(t)
      BY <3>2 DEF Locked
    <3> QED BY <1>1, <3>3 DEF Faults, StoppedGrowing, Halted, Read, tracers
  <2> QED BY <1>2, <1>3, <2>2, <2>3, <2>4
<1> QED BY <1>4, <1>5

LEMMA ClearKeeps == ASSUME SerialAssumption, IInv, Clear PROVE IInv'
<1> USE DEF IInv
<1>1. /\ dequeue.ptr \in 1..Len(blocks) /\ dequeue.write[2] \in Nat /\ serial.write[2] \in Nat
      /\ cursor \in Nat
  BY Parts
<1>2. /\ dequeue' \in Vectors(Len(blocks)) /\ dequeue'.write = <<dequeue.ptr, 0>>
      /\ dequeue'.ptr = dequeue.ptr /\ dequeue'.end = dequeue.end
  <2>1. Len(blocks) \in Nat /\ dequeue \in Vectors(Len(blocks))
    BY DEF Types
  <2>2. dequeue' = [dequeue EXCEPT !.write = <<dequeue.ptr, 0>>]
    BY DEF Clear
  <2> QED BY <1>1, <2>1, <2>2 DEF Vectors
<1>3. dequeue.write[1] = dequeue.ptr /\ dequeue.write[2] = cursor
  BY DEF Clear
<1>4. Types'
  BY <1>2 DEF Clear, Types, tracers, crash
<1>5. Locked'
  BY DEF Clear, Locked, Halted, tracers, crash
<1>6. VectorsFit'
  <2>1. Half(dequeue) => "ptr" \notin toInstall /\ "write" \notin toInstall
    BY <1>3 DEF Half, Clear, InOrder
  <2>2. \A b \in 1..Len(blocks) : Len(blocks[b].cells) \in Nat
    BY DEF Types, ItemBlocks
  <2>3. Half(dequeue) => Half(dequeue)'
    BY <1>2, <1>3, <2>1, <2>2, <1>1 DEF Half, Clear, tracers, Types
  <2>4. Sound(dequeue) => Sound(dequeue)'
    BY <1>1, <1>2, <2>2 DEF Sound, Clear
  <2> QED BY <1>2, <2>3, <2>4 DEF VectorsFit, Half, Sound, Halted, Clear, tracers, crash
<1>7. Growing' /\ Prepared'
  BY <1>2 DEF Growing, Prepared, Halted, Clear, tracers, crash
<1>8. InOrder'
  <2>1. /\ Holds(serial, Len(order) - serial.write[2])'
        /\ Holds(dequeue, Len(sent) - cursor)'
    BY <1>2 DEF InOrder, Holds, Source, Clear, tracers
  <2> QED BY <1>1, <1>2, <1>3, <2>1 DEF InOrder, Clear, tracers, Types
<1>9. SentSoFar' /\ Faults'
  BY DEF SentSoFar, Faults, StoppedGrowing, Clear, tracers, crash
<1> QED BY <1>4, <1>5, <1>6, <1>7, <1>8, <1>9

\* Where the items are that were sent, s, the d that the worker took, c of
\* them sent already, and the k committed since: among all n.
LEMMA Shares ==
    ASSUME NEW k \in Nat, NEW n \in Nat, NEW s \in Nat, NEW c \in Nat, NEW d \in Nat,
           c <= d, c <= s, s + d - c + k = n
    PROVE  /\ s + d - c + (k + 1) = n + 1
           /\ \A i \in 1..d : s - c + i \in 1..n
           /\ \A i \in 1..k : n - k + i \in 1..n
           /\ \A i \in 1..(k + 1) : /\ (n + 1) - (k + 1) + i = n - k + i
                                    /\ i \in 1..k \/ i = k + 1
           /\ n - k + (k + 1) = n + 1
OBVIOUS

LEMMA CommitKeeps == ASSUME SerialAssumption, IInv, NEW t \in Threads, Commit(t) PROVE IInv'
<1> USE DEF IInv
<1> DEFINE k == serial.write[2]
           p == serial.ptr
           n == Len(order)
<1>1. /\ pc[t] = "commit" /\ ~ Halted(t) /\ lock = t /\ todo # <<>>
      /\ blocks' = blocks /\ dequeue' = dequeue /\ toInstall' = toInstall
      /\ cursor' = cursor /\ sent' = sent /\ worker' = worker
      /\ todo' = Tail(todo) /\ lock' = lock /\ shutdownManual' = shutdownManual
      /\ frozen' = frozen /\ crashed' = crashed
  BY DEF Commit, Locked, Stopped, Halted, crash, reader
<1>2. /\ \A u \in Threads : u # t => pc[u] = "outside" /\ pc'[u] = "outside"
      /\ pc'[t] \in {"unlock", "push"} /\ (pc'[t] = "push" => todo' # <<>>)
  BY <1>1 DEF Commit, Locked, Types
<1>3. toInstall = {} /\ Sound(serial) /\ Sound(dequeue) /\ serial.ptr # dequeue.ptr
  BY <1>1, <1>2 DEF Locked, VectorsFit
<1>4. Head(todo) \in Items /\ Tail(todo) \in Seq(Items)
  BY <1>1 DEF Types
<1>5. /\ order' \in Seq(Items) /\ Len(order') = n + 1 /\ order'[n + 1] = Head(todo)
      /\ \A i \in 1..n : order'[i] = order[i]
  BY <1>4 DEF Commit, Types
<1>6. /\ serial'.ptr = p /\ serial'.end = serial.end
      /\ serial'.write[1] = serial.write[1] /\ serial'.write[2] = k + 1
      /\ serial' \in Vectors(Len(blocks))
  <2>1. Len(blocks) \in Nat /\ serial \in Vectors(Len(blocks))
    BY DEF Types
  <2>2. serial' = [serial EXCEPT !.write[2] = @ + 1]
    BY DEF Commit
  <2> QED BY <2>1, <2>2, Committed
<1>7. Types'
  BY <1>1, <1>2, <1>4, <1>5, <1>6 DEF Commit, Types, crash, reader
<1>8. Locked'
  BY <1>1, <1>2 DEF Locked, Halted
<1>9. /\ k \in Nat /\ p \in 1..Len(blocks) /\ n \in Nat
      /\ Len(blocks[p].cells) = k + 1 /\ blocks[p].cells[k + 1] = Head(todo)
  BY <1>1, Parts DEF Prepared
<1>10. VectorsFit'
  BY <1>1, <1>3, <1>6, <1>9 DEF VectorsFit, Sound
<1>11. Growing' /\ Prepared'
  BY <1>2 DEF Growing, Prepared
<1>12. InOrder'
  <2> SUFFICES ASSUME worker \in {"try", "swap", "read", "idle"} PROVE InOrder'
    BY <1>1 DEF InOrder
  <2>1. /\ cursor <= dequeue.write[2] /\ cursor <= Len(sent) /\ cursor \in Nat
        /\ Len(sent) + dequeue.write[2] - cursor + k = n
        /\ Len(sent) \in Nat /\ dequeue.write[2] \in Nat
    BY Parts DEF InOrder
  <2>5. /\ Len(sent) + dequeue.write[2] - cursor + (k + 1) = n + 1
        /\ \A i \in 1..dequeue.write[2] : Len(sent) - cursor + i \in 1..n
        /\ \A i \in 1..k : n - k + i \in 1..n
        /\ \A i \in 1..(k + 1) : /\ (n + 1) - (k + 1) + i = n - k + i
                                 /\ i \in 1..k \/ i = k + 1
        /\ n - k + (k + 1) = n + 1
    BY <1>9, <2>1, Shares, Zenon
  <2>2. Holds(serial, Len(order) - serial.write[2])'
    <3>1. ASSUME NEW i \in 1..(k + 1)
          PROVE  blocks[p].cells[i] = order'[(n + 1) - (k + 1) + i]
      <4>1. CASE i = k + 1
        <5>1. (n + 1) - (k + 1) + i = n + 1
          BY <2>5, <4>1
        <5> QED BY <1>5, <1>9, <4>1, <5>1
      <4>2. CASE i # k + 1
        <5>1. i \in 1..k /\ n - k + i \in 1..n /\ (n + 1) - (k + 1) + i = n - k + i
          BY <2>5, <4>2
        <5>2. blocks[p].cells[i] = order[n - k + i]
          BY <5>1, <1>3 DEF InOrder, Holds, Source, Sound
        <5> QED BY <1>5, <5>1, <5>2
      <4> QED BY <4>1, <4>2
    <3>2. Source(serial)' = p
      BY <1>1, <1>3, <1>6 DEF Source, Sound
    <3> QED BY <1>1, <1>5, <1>6, <3>1, <3>2 DEF Holds
  <2>3. Holds(dequeue, Len(sent) - cursor)'
    <3>1. ASSUME NEW i \in 1..dequeue.write[2]
          PROVE  blocks[Source(dequeue)].cells[i] = order'[Len(sent) - cursor + i]
      <4>1. Len(sent) - cursor + i \in 1..n
        BY <2>5
      <4> QED BY <1>5, <4>1 DEF InOrder, Holds
    <3> QED BY <1>1, <3>1 DEF Holds, Source
  <2> QED BY <1>1, <1>3, <1>5, <1>6, <2>1, <2>2, <2>3, <2>5 DEF InOrder
<1>13. SentSoFar'
  <2>1. Len(sent) \in Nat /\ n \in Nat
    BY Parts
  <2> QED BY <1>1, <1>5, <2>1 DEF SentSoFar
<1>14. Faults'
  BY <1>1, <1>2 DEF Faults, StoppedGrowing
<1> QED BY <1>7, <1>8, <1>10, <1>11, <1>12, <1>13, <1>14

LEMMA PushKeeps == ASSUME SerialAssumption, IInv, NEW t \in Threads, Push(t) PROVE IInv'
<1> USE DEF IInv
<1> DEFINE k == serial.write[2]
           p == serial.ptr
           old == blocks[p].cells
           cells == Append(SubSeq(old, 1, k), Head(todo))
<1>1. /\ pc[t] = "push" /\ ~ Halted(t) /\ lock = t /\ todo # <<>>
      /\ serial' = serial /\ dequeue' = dequeue /\ toInstall' = toInstall /\ order' = order
      /\ cursor' = cursor /\ sent' = sent /\ worker' = worker /\ todo' = todo
      /\ frozen' = frozen /\ crashed' = crashed /\ shutdownManual' = shutdownManual /\ lock' = lock
  BY DEF Push, Locked, Stopped, Halted, crash, reader
<1>2. /\ \A u \in Threads : u # t => pc[u] = "outside" /\ pc'[u] = "outside"
      /\ pc'[t] = "commit"
  BY <1>1 DEF Push, Locked, Types
<1>3. toInstall = {} /\ Sound(serial) /\ Sound(dequeue) /\ p # dequeue.ptr
  BY <1>1, <1>2 DEF Locked, VectorsFit
<1>4. /\ k \in Nat /\ p \in 1..Len(blocks) /\ old \in Seq(Items) /\ k <= Len(old)
      /\ blocks[p] \in ItemBlocks /\ Len(old) \in Nat /\ blocks[p].room \in Nat
      /\ Head(todo) \in Items
  BY <1>1, <1>3, Parts DEF Sound, Types
<1>5. k < blocks[p].room
  <2>1. Len(old) <= blocks[p].room
    BY <1>4 DEF VectorsFit, Types
  <2>2. serial.write # serial.end
    BY DEF Push
  <2>3. serial.write = <<p, k>> /\ serial.end = <<p, blocks[p].room>>
    BY <1>3, Parts DEF Sound
  <2> QED BY <1>4, <2>1, <2>2, <2>3
<1>6. /\ cells \in Seq(Items) /\ Len(cells) = k + 1 /\ cells[k + 1] = Head(todo)
      /\ \A i \in 1..k : cells[i] = old[i]
  <2>1. /\ SubSeq(old, 1, k) \in Seq(Items) /\ Len(SubSeq(old, 1, k)) = k
        /\ \A i \in 1..k : SubSeq(old, 1, k)[i] = old[i]
    BY <1>4
  <2> QED BY <1>4, <2>1
<1>7. /\ blocks' \in Seq(ItemBlocks) /\ Len(blocks') = Len(blocks)
      /\ blocks'[p] = [blocks[p] EXCEPT !.cells = cells]
      /\ \A b \in 1..Len(blocks) : b # p => blocks'[b] = blocks[b]
  <2>1. [blocks[p] EXCEPT !.cells = cells] \in ItemBlocks
    BY <1>4, <1>6 DEF ItemBlocks
  <2>2. blocks' = [blocks EXCEPT ![p] = [blocks[p] EXCEPT !.cells = cells]]
    BY DEF Push
  <2>3. blocks \in Seq(ItemBlocks)
    BY DEF Types
  <2> HIDE DEF cells, old
  <2> QED BY <1>4, <2>1, <2>2, <2>3, ExceptSeq
<1>8. /\ blocks'[p].cells = cells /\ blocks'[p].room = blocks[p].room
      /\ blocks'[p].live = blocks[p].live
  BY <1>4, <1>7 DEF ItemBlocks
<1>9. Types'
  BY <1>1, <1>2, <1>7 DEF Push, Types, crash, reader
<1>10. Locked'
  BY <1>1, <1>2 DEF Locked, Halted
<1>11. dequeue.ptr \in 1..Len(blocks) /\ DOMAIN blocks = 1..Len(blocks) /\ DOMAIN blocks' = 1..Len(blocks)
  BY <1>7, Parts DEF Types
<1>12. VectorsFit'
  <2>1. \A b \in DOMAIN blocks' : Len(blocks'[b].cells) <= blocks'[b].room
    <3> TAKE b \in DOMAIN blocks'
    <3>1. CASE b = p
      BY <1>4, <1>5, <1>6, <1>8, <3>1
    <3>2. CASE b # p
      BY <1>7, <1>11, <3>2 DEF VectorsFit
    <3> QED BY <3>1, <3>2
  <2>2. Sound(serial)'
    <3>1. k <= Len(cells)
      BY <1>4, <1>6
    <3> QED BY <1>1, <1>3, <1>8, <3>1 DEF Sound
  <2>3. Sound(dequeue)'
    BY <1>1, <1>3, <1>7, <1>11 DEF Sound
  <2> QED BY <1>1, <1>3, <2>1, <2>2, <2>3 DEF VectorsFit
<1>13. Growing' /\ Prepared'
  BY <1>1, <1>2, <1>6, <1>8 DEF Growing, Prepared
<1>14. InOrder'
  <2>1. Source(serial)' = p /\ Source(serial) = p
    BY <1>1, <1>3, <1>8 DEF Source, Sound
  <2>2. Source(dequeue)' = dequeue.ptr /\ Source(dequeue) = dequeue.ptr
    BY <1>1, <1>3, <1>7, <1>11 DEF Source, Sound
  <2>3. InOrder => \A i \in 1..k : worker \in {"try", "swap", "read", "idle"} =>
                       blocks'[p].cells[i] = order[Len(order) - k + i]
    BY <1>6, <1>8, <2>1 DEF InOrder, Holds
  <2>4. blocks'[dequeue.ptr] = blocks[dequeue.ptr]
    BY <1>3, <1>7, <1>11
  <2> QED BY <1>1, <1>3, <2>1, <2>2, <2>3, <2>4 DEF InOrder, Holds
<1>15. SentSoFar' /\ Faults'
  BY <1>1, <1>2 DEF SentSoFar, Faults, StoppedGrowing
<1> QED BY <1>9, <1>10, <1>12, <1>13, <1>14, <1>15

LEMMA GrowKeeps == ASSUME SerialAssumption, IInv, NEW t \in Threads, Grow(t) PROVE IInv'
<1> USE DEF IInv
<1> DEFINE k == serial.write[2]
           p == serial.ptr
           n == Len(blocks)
           new == [cells |-> blocks[p].cells, live |-> TRUE, room |-> 2 * blocks[p].room]
<1>1. /\ pc[t] = "push" /\ ~ Halted(t) /\ lock = t /\ todo # <<>>
      /\ serial' = serial /\ dequeue' = dequeue /\ toInstall' = toInstall /\ order' = order
      /\ cursor' = cursor /\ sent' = sent /\ worker' = worker /\ todo' = todo
      /\ frozen' = frozen /\ crashed' = crashed /\ shutdownManual' = shutdownManual /\ lock' = lock
  BY DEF Grow, Locked, Stopped, Halted, crash, reader
<1>2. /\ \A u \in Threads : u # t => pc[u] = "outside" /\ pc'[u] = "outside"
      /\ pc'[t] = "free"
  BY <1>1 DEF Grow, Locked, Types
<1>3. toInstall = {} /\ Sound(serial) /\ Sound(dequeue) /\ p # dequeue.ptr
  BY <1>1, <1>2 DEF Locked, VectorsFit
<1>4. /\ k \in Nat /\ p \in 1..n /\ n \in Nat /\ k <= Len(blocks[p].cells)
      /\ blocks[p].cells \in Seq(Items) /\ Len(blocks[p].cells) \in Nat
      /\ blocks[p].room \in Nat \ {0} /\ dequeue.ptr \in 1..n
      /\ Len(blocks[p].cells) <= blocks[p].room
  BY <1>3, Parts DEF Sound, VectorsFit, Types
<1>5. k = blocks[p].room /\ k = Len(blocks[p].cells) /\ k # 0
  <2>1. serial.write = serial.end /\ serial.end[2] = blocks[p].room
    BY <1>3 DEF Grow, Sound
  <2> QED BY <1>4, <2>1
<1>6. /\ new \in ItemBlocks /\ new.cells = blocks[p].cells /\ new.live
      /\ new.room = 2 * blocks[p].room
  BY <1>4 DEF ItemBlocks
<1>7. /\ blocks' \in Seq(ItemBlocks) /\ Len(blocks') = n + 1 /\ blocks'[n + 1] = new
      /\ \A b \in 1..n : blocks'[b] = blocks[b]
  <2>1. blocks' = Append(blocks, new) /\ blocks \in Seq(ItemBlocks)
    BY DEF Grow, Types
  <2> HIDE DEF new
  <2> QED BY <1>6, <2>1, AppendProperties
<1>8. serial \in Vectors(n + 1) /\ dequeue \in Vectors(n + 1)
  BY <1>4 DEF Types, Vectors
<1>9. Types'
  BY <1>1, <1>2, <1>7, <1>8 DEF Grow, Types, crash, reader
<1>10. Locked'
  BY <1>1, <1>2 DEF Locked, Halted
<1>11. VectorsFit'
  <2>1. \A b \in DOMAIN blocks' : Len(blocks'[b].cells) <= blocks'[b].room
    <3> TAKE b \in DOMAIN blocks'
    <3>1. b \in 1..n \/ b = n + 1
      BY <1>4, <1>7
    <3>2. CASE b \in 1..n
      BY <1>7, <3>2 DEF VectorsFit, Types
    <3>3. CASE b = n + 1
      BY <1>4, <1>6, <1>7, <3>3
    <3> QED BY <3>1, <3>2, <3>3
  <2>2. Sound(serial)' /\ Sound(dequeue)'
    BY <1>1, <1>3, <1>4, <1>7 DEF Sound
  <2> QED BY <1>1, <1>3, <2>1, <2>2 DEF VectorsFit
<1>12. Growing' /\ Prepared'
  <2>1. p # n + 1 /\ dequeue.ptr # n + 1
    BY <1>4
  <2> QED BY <1>1, <1>2, <1>4, <1>5, <1>6, <1>7, <2>1 DEF Growing, Prepared
<1>13. InOrder'
  <2>1. /\ Source(serial)' = p /\ Source(serial) = p
        /\ Source(dequeue)' = dequeue.ptr /\ Source(dequeue) = dequeue.ptr
    BY <1>1, <1>3, <1>4, <1>7 DEF Source, Sound
  <2>2. blocks'[p] = blocks[p] /\ blocks'[dequeue.ptr] = blocks[dequeue.ptr]
    BY <1>4, <1>7
  <2> QED BY <1>1, <1>3, <2>1, <2>2 DEF InOrder, Holds
<1>14. SentSoFar' /\ Faults'
  BY <1>1, <1>2 DEF SentSoFar, Faults, StoppedGrowing
<1> QED BY <1>9, <1>10, <1>11, <1>12, <1>13, <1>14

LEMMA FreeOldKeeps == ASSUME SerialAssumption, IInv, NEW t \in Threads, FreeOld(t) PROVE IInv'
<1> USE DEF IInv
<1> DEFINE k == serial.write[2]
           p == serial.ptr
           n == Len(blocks)
           freed == [blocks[p] EXCEPT !.live = FALSE]
<1>1. /\ pc[t] = "free" /\ ~ Halted(t) /\ lock = t /\ todo # <<>>
      /\ serial' = serial /\ dequeue' = dequeue /\ order' = order
      /\ toInstall' = {"ptr", "write", "end"}
      /\ cursor' = cursor /\ sent' = sent /\ worker' = worker /\ todo' = todo
      /\ frozen' = frozen /\ crashed' = crashed /\ shutdownManual' = shutdownManual /\ lock' = lock
  BY DEF FreeOld, Locked, Stopped, Halted, crash, reader
<1>2. /\ \A u \in Threads : u # t => pc[u] = "outside" /\ pc'[u] = "outside"
      /\ pc'[t] = "install"
  BY <1>1 DEF FreeOld, Locked, Types
<1>3. toInstall = {} /\ Sound(serial) /\ Sound(dequeue) /\ p # dequeue.ptr
  BY <1>1, <1>2 DEF Locked, VectorsFit
<1>4. p \in 1..n /\ n \in Nat /\ dequeue.ptr \in 1..n /\ k \in Nat /\ blocks[p] \in ItemBlocks
      /\ Len(blocks[n].cells) \in Nat
  BY Parts
<1>5. /\ p # n /\ dequeue.ptr # n /\ blocks[n].live /\ blocks[n].cells = blocks[p].cells
      /\ k = Len(blocks[n].cells) /\ k # 0
  BY <1>1 DEF Growing
<1>6. /\ blocks' \in Seq(ItemBlocks) /\ Len(blocks') = n
      /\ blocks'[p] = freed
      /\ \A b \in 1..n : b # p => blocks'[b] = blocks[b]
  <2>1. freed \in ItemBlocks
    BY <1>4 DEF ItemBlocks
  <2>2. blocks' = [blocks EXCEPT ![p] = freed] /\ blocks \in Seq(ItemBlocks)
    BY DEF FreeOld, Types
  <2> HIDE DEF freed
  <2> QED BY <1>4, <2>1, <2>2, ExceptSeq
<1>7. /\ blocks'[p].cells = blocks[p].cells /\ blocks'[p].room = blocks[p].room
      /\ ~ blocks'[p].live
  BY <1>4, <1>6 DEF ItemBlocks
<1>8. Types'
  BY <1>1, <1>2, <1>6 DEF FreeOld, Types, crash, reader
<1>9. Locked'
  BY <1>1, <1>2 DEF Locked, Halted
<1>10. VectorsFit'
  <2>1. \A b \in DOMAIN blocks' : Len(blocks'[b].cells) <= blocks'[b].room
    <3> TAKE b \in DOMAIN blocks'
    <3>1. b \in 1..n /\ Len(blocks[b].cells) <= blocks[b].room
      BY <1>6 DEF VectorsFit, Types
    <3> QED BY <1>6, <1>7, <3>1
  <2>2. blocks'[n] = blocks[n]
    BY <1>4, <1>5, <1>6
  <2>3. Half(serial)'
    <3>1. serial.write[1] # n
      BY <1>3, <1>5 DEF Sound
    <3> QED BY <1>1, <1>4, <1>5, <1>6, <1>7, <2>2, <3>1 DEF Half
  <2>4. Sound(dequeue)'
    BY <1>1, <1>3, <1>4, <1>6 DEF Sound
  <2> QED BY <1>1, <1>5, <1>6, <2>1, <2>3, <2>4 DEF VectorsFit
<1>11. Growing' /\ Prepared'
  BY <1>2 DEF Growing, Prepared
<1>12. InOrder'
  <2>1. /\ Source(serial)' = n /\ Source(serial) = p
        /\ Source(dequeue)' = dequeue.ptr /\ Source(dequeue) = dequeue.ptr
    BY <1>1, <1>3, <1>4, <1>6, <1>7 DEF Source, Sound
  <2>2. /\ blocks'[n].cells = blocks[p].cells /\ blocks'[dequeue.ptr] = blocks[dequeue.ptr]
        /\ blocks'[dequeue.ptr].live
    BY <1>3, <1>4, <1>5, <1>6 DEF Sound
  <2> QED BY <1>1, <2>1, <2>2 DEF InOrder, Holds
<1>13. SentSoFar' /\ Faults'
  BY <1>1, <1>2 DEF SentSoFar, Faults, StoppedGrowing
<1> QED BY <1>8, <1>9, <1>10, <1>11, <1>12, <1>13

LEMMA InstallKeeps == ASSUME SerialAssumption, IInv, NEW t \in Threads, Install(t) PROVE IInv'
<1> USE DEF IInv
<1> DEFINE k == serial.write[2]
           n == Len(blocks)
<1>1. /\ pc[t] = "install" /\ ~ Halted(t) /\ lock = t /\ todo # <<>> /\ toInstall # {}
      /\ blocks' = blocks /\ dequeue' = dequeue /\ order' = order
      /\ cursor' = cursor /\ sent' = sent /\ worker' = worker /\ todo' = todo
      /\ frozen' = frozen /\ crashed' = crashed /\ shutdownManual' = shutdownManual /\ lock' = lock
  BY DEF Install, Locked, Stopped, Halted, crash, reader
<1>2. /\ \A u \in Threads : u # t => pc[u] = "outside" /\ pc'[u] = "outside"
      /\ pc'[t] = IF toInstall' = {} THEN "push" ELSE "install"
  BY <1>1 DEF Install, Locked, Types
<1>3. /\ Half(serial) /\ Sound(dequeue) /\ dequeue.ptr # n
      /\ \A b \in DOMAIN blocks : Len(blocks[b].cells) <= blocks[b].room
  BY <1>1 DEF VectorsFit
<1>4. /\ n \in Nat /\ k \in Nat /\ serial.ptr \in 1..n /\ dequeue.ptr \in 1..n
      /\ n \in 1..n /\ Len(blocks[n].cells) \in Nat /\ blocks[n].room \in Nat
      /\ serial \in Vectors(n) /\ Last(blocks) = blocks[n]
  BY Parts DEF Types, Last
<1>5. PICK field \in toInstall :
        /\ toInstall' = toInstall \ {field}
        /\ \/ field = "ptr" /\ serial' = [serial EXCEPT !.ptr = n]
           \/ field = "write" /\ serial' = [serial EXCEPT !.write = <<n, k>>]
           \/ field = "end" /\ serial' = [serial EXCEPT !.end = <<n, blocks[n].room>>]
  BY <1>4 DEF Install, Types
<1>6. /\ serial' \in Vectors(n) /\ serial'.write[2] = k
      /\ serial'.ptr = IF field = "ptr" THEN n ELSE serial.ptr
      /\ serial'.write[1] = IF field = "write" THEN n ELSE serial.write[1]
      /\ serial'.end = IF field = "end" THEN <<n, blocks[n].room>> ELSE serial.end
  BY <1>4, <1>5 DEF Vectors
<1>7. Types'
  BY <1>1, <1>2, <1>5, <1>6 DEF Install, Types, crash, reader
<1>8. Locked'
  BY <1>1, <1>2, <1>5 DEF Locked, Halted
<1>9. Half(serial)'
  BY <1>1, <1>3, <1>4, <1>5, <1>6 DEF Half
<1>10. toInstall' = {} => Sound(serial)'
  BY <1>1, <1>6, <1>9 DEF Half, Sound
<1>11. VectorsFit'
  <2>1. Sound(dequeue)' /\ (toInstall' = {} => serial'.ptr = n)
    BY <1>1, <1>3, <1>9 DEF Sound, Half
  <2> QED BY <1>1, <1>3, <1>9, <1>10, <2>1 DEF VectorsFit
<1>12. Growing' /\ Prepared'
  BY <1>2 DEF Growing, Prepared
<1>13. InOrder'
  <2>1. Source(serial)' = n /\ Source(serial) = n
    BY <1>1, <1>3, <1>9 DEF Source, Half
  <2>2. Source(dequeue)' = Source(dequeue) /\ blocks[dequeue.ptr].live
    BY <1>1, <1>3 DEF Source, Sound
  <2> QED BY <1>1, <1>6, <2>1, <2>2 DEF InOrder, Holds
<1>14. SentSoFar' /\ Faults'
  BY <1>1, <1>2 DEF SentSoFar, Faults, StoppedGrowing, Halted
<1> QED BY <1>7, <1>8, <1>11, <1>12, <1>13, <1>14

LEMMA InvNext == ASSUME SerialAssumption, IInv, [Next]_vars PROVE IInv'
<1> USE DEF IInv
<1>1. CASE UNCHANGED vars
  BY <1>1, Standing DEF vars, tracers, crash, reader, Types, Locked, Halted, InOrder, Holds, Source,
                        SentSoFar, Faults, StoppedGrowing
<1>2. ASSUME NEW t \in Threads, Tracer(t) PROVE IInv'
  BY <1>2, LockKeeps, PushKeeps, GrowKeeps, FreeOldKeeps, InstallKeeps, CommitKeeps, UnlockKeeps
     DEF Tracer
<1>3. CASE Worker
  BY <1>3, TryLockKeeps, SwapKeeps, ReadKeeps, ClearKeeps, IdleKeeps DEF Worker
<1>4. ASSUME NEW t \in Threads \cup {"worker"}, Crash(t) PROVE IInv'
  BY <1>4, CrashKeeps
<1>5. CASE Handler
  BY <1>5, RequestShutdownKeeps, AbortKeeps, FreezeKeeps DEF Handler
<1> QED BY <1>1, <1>2, <1>3, <1>4, <1>5 DEF Next

LEMMA Invariant == Spec => []IInv
<1>1. Init => IInv
  BY InvInit, SerialAssumption
<1>2. IInv /\ [Next]_vars => IInv'
  BY InvNext, SerialAssumption
<1> QED BY <1>1, <1>2, PTL DEF Spec

-----------------------------------------------------------------------------
(* The worker takes the items in the order in which they were committed,   *)
(* each once: whatever was swapped or grown, and wherever a crash stopped  *)
(* the threads (TracyProfiler.cpp:1304-1330).                              *)
THEOREM ItemsInOrder == Spec => []SentInOrder
<1>1. IInv => SentInOrder
  <2> SUFFICES ASSUME IInv PROVE SentInOrder
    OBVIOUS
  <2>1. /\ sent \in Seq(Items) /\ order \in Seq(Items)
        /\ Len(sent) <= Len(order) /\ \A i \in 1..Len(sent) : sent[i] = order[i]
    BY DEF IInv, Types, SentSoFar
  <2>2. sent = SubSeq(order, 1, Len(sent))
    BY <2>1
  <2> QED BY <2>1, <2>2 DEF SentInOrder, IsPrefix
<1> QED BY <1>1, Invariant, PTL

(* The worker reads no block that was freed and passes no end, unless it   *)
(* took the vector from a thread that was stopped between the stores of    *)
(* AllocMore; without such a thread both vectors are whole                 *)
(* (TracyFastVector.hpp:63-107).                                           *)
THEOREM VectorsStaySound == Spec => []VectorsSound
<1>1. IInv => VectorsSound
  <2> SUFFICES ASSUME IInv PROVE VectorsSound
    OBVIOUS
  <2>1. worker = "faulted" => StoppedGrowing
    BY DEF IInv, Faults
  <2>2. ASSUME \A t \in Threads : pc[t] # "install"
        PROVE  Sound(serial) /\ Sound(dequeue) /\ serial.ptr # dequeue.ptr
    BY <2>2 DEF IInv, Locked, VectorsFit
  <2>3. ASSUME NEW v \in {serial, dequeue}, Sound(v)
        PROVE  /\ v.write[1] = v.ptr /\ v.end = <<v.ptr, blocks[v.ptr].room>>
               /\ v.write[2] <= v.end[2] /\ blocks[v.ptr].live
    <3>1. v.ptr \in DOMAIN blocks /\ v.end = <<v.end[1], v.end[2]>> /\ v.write[2] \in Nat
      BY Fields DEF IInv, Types
    <3>2. /\ Len(blocks[v.ptr].cells) \in Nat /\ blocks[v.ptr].room \in Nat
          /\ Len(blocks[v.ptr].cells) <= blocks[v.ptr].room
      BY <3>1, Parts DEF IInv, VectorsFit, Types
    <3> QED BY <2>3, <3>1, <3>2 DEF Sound
  <2> QED BY <2>1, <2>2, <2>3 DEF VectorsSound
<1> QED BY <1>1, Invariant, PTL

(* The worker swaps the vectors without the lock only when every thread    *)
(* that might use them has been stopped (TracyProfiler.cpp:640-655, 667,   *)
(* 1309-1323).                                                             *)
THEOREM BypassWhenAllStopped == Spec => BypassOnlyFrozen
<1>1. IInv /\ [Next]_vars =>
        [dequeue' # dequeue /\ worker = "swap" /\ lock # "worker"
           => Threads \subseteq frozen \cup {crashed}]_vars
  BY DEF IInv, Locked, Halted
<1> QED BY <1>1, Invariant, PTL DEF Spec, BypassOnlyFrozen
=============================================================================
