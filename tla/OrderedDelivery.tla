--------------------------- MODULE OrderedDelivery ---------------------------
(***************************************************************************)
(* What a pair of connected network channels promises its two users about  *)
(* guaranteed messages: each end owns two independent streams, the urgent  *)
(* one and the regular one, and the peer is handed the messages of each    *)
(* stream once each, in the order in which they were submitted.  Nothing   *)
(* is said about the relative order of the two streams.                    *)
(***************************************************************************)
EXTENDS Naturals, Sequences

CONSTANTS
    End,    \* the two ends of the connection
    Stream, \* the streams each end may write to
    Id      \* message identities

VARIABLES
    submitted, \* submitted[e][c]: what end e wrote to stream c, in order
    handed     \* handed[e][c]: what end e was given from its peer's stream c

vars == <<submitted, handed>>

TypeOK ==
    /\ submitted \in [End -> [Stream -> Seq(Id)]]
    /\ handed \in [End -> [Stream -> Seq(Id)]]

Init ==
    /\ submitted = [e \in End |-> [c \in Stream |-> <<>>]]
    /\ handed = [e \in End |-> [c \in Stream |-> <<>>]]

\* The first conjunct follows from the second and spares TLC looking for an id.
Submit(e, c) ==
    /\ Len(submitted'[e][c]) = Len(submitted[e][c]) + 1
    /\ \E id \in Id : submitted' = [submitted EXCEPT ![e][c] = Append(@, id)]
    /\ UNCHANGED handed

\* End e is handed the first message of stream c of end d it has not seen yet.
Hand(d, e, c) ==
    /\ Len(handed[e][c]) < Len(submitted[d][c])
    /\ handed' = [handed EXCEPT ![e][c] =
                      Append(@, submitted[d][c][Len(@) + 1])]
    /\ UNCHANGED submitted

Next ==
    \E e \in End, c \in Stream :
        \/ Submit(e, c)
        \/ \E d \in End \ {e} : Hand(d, e, c)

Spec == Init /\ [][Next]_vars

FairSpec ==
    Spec /\ \A e \in End, c \in Stream :
                WF_vars(\E d \in End \ {e} : Hand(d, e, c))
==============================================================================
