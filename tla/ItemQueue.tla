------------------------------ MODULE ItemQueue ------------------------------
(***************************************************************************)
(* What one producer's part of the queue promises: the items it publishes  *)
(* are claimed in the order of their indexes, each by one consumer, and a  *)
(* consumer gets the very items it has claimed, each once.  Consumers may  *)
(* finish in any order.  The item at index i is i + 1.                     *)
(***************************************************************************)
EXTENDS Integers

VARIABLES
    published,  \* indexes below it hold an item
    claimed,    \* indexes below it belong to a consumer
    delivered   \* the pairs of an index and the item taken from it

vars == <<published, claimed, delivered>>

Init == published = 0 /\ claimed = 0 /\ delivered = {}

Publish == published' > published /\ UNCHANGED <<claimed, delivered>>

Claim == /\ claimed' \in (claimed + 1)..published
         /\ UNCHANGED <<published, delivered>>

Deliver ==
    /\ delivered \subseteq delivered' /\ delivered' # delivered
    /\ \A d \in delivered' \ delivered :
         /\ d[1] \in 0..(claimed - 1) /\ d[2] = d[1] + 1
         /\ \A e \in delivered : e[1] # d[1]
    /\ UNCHANGED <<published, claimed>>

Next == Publish \/ Claim \/ Deliver

Spec == Init /\ [][Next]_vars
=============================================================================
