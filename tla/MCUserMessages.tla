---------------------------- MODULE MCUserMessages ----------------------------
(***************************************************************************)
(* Workloads for model-checking UserMessages, and what it implements.      *)
(***************************************************************************)
EXTENDS UserMessages

Messages(urgent, vim) ==
    [c \in Stream \cup {"common"} |-> CASE c = "urgent" -> urgent
                                        [] c = "vim"    -> vim
                                        [] c = "common" -> 0]

\* What the client may send, in parts; the server sends nothing.
Load(parts) == [e \in End |-> IF e = "client" THEN parts ELSE Messages(0, 0)]

OneStream  == Load(Messages(0, 2))
TwoStreams == Load(Messages(3, 3))
-----------------------------------------------------------------------------
(***************************************************************************)
(* The channels implement ordered delivery of each stream's parts.  The    *)
(* identities of messages stay below 5 in this run.                        *)
(***************************************************************************)
ChannelDelivery == INSTANCE OrderedDelivery WITH
    Id <- 1 .. 4,
    submitted <- [e \in End |-> [c \in Stream |-> PartsSent(e, c)]],
    handed <- [e \in End |-> [c \in Stream |-> PartsHanded(e, c)]]

\* Each end sees its peer's two streams of parts whole and in order, whatever
\* the network does with the datagrams, and sees all of them in the end.
DeliversAll == ChannelDelivery!FairSpec

(***************************************************************************)
(* The game gets ordered delivery of each stream's messages.               *)
(***************************************************************************)
Parted == {s \in SUBSET (1 .. 4) : Cardinality(s) \in 1 .. MaxParts}

GameDelivery == INSTANCE OrderedDelivery WITH
    Id <- {SetToSortSeq(s, <) : s \in Parted},
    submitted <- [e \in End |-> [c \in Stream |-> Sent(e, c)]],
    handed <- [e \in End |-> [c \in Stream |-> Shown(e, c)]]

\* The game is shown the messages of each stream whole, once each and in order,
\* and all of them in the end, although datagrams get lost.
ShowsAll == GameDelivery!FairSpec
=============================================================================
