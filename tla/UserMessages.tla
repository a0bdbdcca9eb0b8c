----------------------------- MODULE UserMessages -----------------------------
(***************************************************************************)
(* What the game sends and receives through two channels.  A guaranteed    *)
(* message that does not fit into a datagram is split into parts, which    *)
(* are messages of the channel; the other end merges them again.  Its      *)
(* listening thread puts what is whole into a queue sorted by serial       *)
(* numbers, from which the game's thread takes it in its own time.         *)
(*                                                                         *)
(* The channels are those of NetChannel, whose messages are the parts;     *)
(* they stay open and carry guaranteed messages only.                      *)
(***************************************************************************)
EXTENDS NetChannel

CONSTANTS
    \* Bounds of the model:
    MaxParts,  \* parts a message may be split into
    MaxTotal   \* parts of all the messages of an end

ASSUME PartsAssumption == MaxParts \in Nat /\ MaxTotal \in Nat

VARIABLES
    sent,      \* sent[e]: the messages end e sends, the last may be unfinished
    split,     \* split[e][c]: parts of a message of stream c end e waits for
    received,  \* received[e]: what the game at end e is still to be shown
    shown      \* shown[e]: history, what the game was shown

userVars == <<sent, split, received, shown, vars>>

UserInit ==
    /\ Init
    /\ sent = [e \in End |-> <<>>]
    /\ split = [e \in End |-> [c \in Stream |-> <<>>]]
    /\ received = [e \in End |-> <<>>]
    /\ shown = [e \in End |-> <<>>]
-----------------------------------------------------------------------------
(***************************************************************************)
(* SendMsg.  The caller keeps a lock until all parts are submitted, so that*)
(* nobody else's come in between.                                          *)
(***************************************************************************)
Unfinished(e) ==
    {k \in DOMAIN sent[e] : Len(sent[e][k].parts) < sent[e][k].size}

NewPart(e) == Len(snd[e].msgs) + 1

Submitted(e, streams) ==
    Cardinality({i \in DOMAIN snd[e].msgs : snd[e].msgs[i].class \in streams})

Sizes(e, c) ==
    {n \in 1 .. MaxParts : /\ Submitted(e, {c}) + n <= Workload[e][c]
                           /\ Submitted(e, Stream) + n <= MaxTotal}

Begin(e, c) ==
    /\ Dispatch(e, c)
    /\ \E n \in Sizes(e, c) :
          sent' = [sent EXCEPT ![e] =
              Append(@, [class |-> c, size |-> n, parts |-> <<NewPart(e)>>])]
    /\ UNCHANGED <<split, received, shown>>

\* Variant, a bug the runs must detect: nobody takes the lock.
SendMsgUnlocked(e, c) == Begin(e, c)

SendMsg(e, c) == Unfinished(e) = {} /\ Begin(e, c)

SendNextPart(e) ==
    /\ \E k \in Unfinished(e) :
          /\ Dispatch(e, sent[e][k].class)
          /\ sent' = [sent EXCEPT ![e][k].parts = Append(@, NewPart(e))]
    /\ UNCHANGED <<split, received, shown>>
-----------------------------------------------------------------------------
(***************************************************************************)
(* The user's routine, called by the listening thread: clientReceive and   *)
(* serverReceive.                                                          *)
(***************************************************************************)
\* The message of end e that part i belongs to, and what the part's flags and
\* header say.
Whole(e, i) ==
    LET k == CHOOSE k \in DOMAIN sent[e] : i \in Range(sent[e][k].parts)
    IN sent[e][k]

IsPart(e, i)  == Whole(e, i).size > 1
Closing(e, i) == Len(Whole(e, i).parts) = Whole(e, i).size
                     /\ i = Last(Whole(e, i).parts)
SerialOf(e, i) == snd[e].msgs[i].serial

\* Variant, a bug the runs must detect: what has the lower serial goes last.
InsertLast(queue, m) ==
    IF queue # <<>> /\ m.serial < Head(queue).serial
    THEN Append(queue, m) ELSE <<m>> \o queue

\* insertReceived: the queue is sorted by serial numbers.
Insert(queue, m) ==
    LET i == SelectInSeq(queue, LAMBDA q : q.serial > m.serial)
    IN IF i = 0 THEN Append(queue, m) ELSE InsertAt(queue, i, m)

\* The message that ends with part i, which gives it its serial.
Merged(e, i, parts) == [parts |-> parts, serial |-> SerialOf(Peer(e), i)]

\* Variant, a bug the runs must detect: a part takes the place of another.
KeepPartInstead(e, i) ==
    /\ split' = [split EXCEPT ![e][Whole(Peer(e), i).class] = <<i>>]
    /\ UNCHANGED received

KeepPart(e, i) ==
    /\ split' = [split EXCEPT ![e][Whole(Peer(e), i).class] = Append(@, i)]
    /\ UNCHANGED received

\* The last part completes those that wait.  If none does the server drops it;
\* the client relies on there being one.
MergeParts(e, i) ==
    LET c     == Whole(Peer(e), i).class
        parts == split[e][c]
    IN IF parts = <<>> THEN UNCHANGED <<split, received>>
       ELSE /\ received' = [received EXCEPT
                   ![e] = Insert(@, Merged(e, i, Append(parts, i)))]
            /\ split' = [split EXCEPT ![e][c] = <<>>]

UserReceive(e, i) ==
    /\ IF ~IsPart(Peer(e), i)
       THEN /\ received' = [received EXCEPT
                   ![e] = Insert(@, Merged(e, i, <<i>>))]
            /\ UNCHANGED split
       ELSE IF Closing(Peer(e), i) THEN MergeParts(e, i) ELSE KeepPart(e, i)
    /\ UNCHANGED <<sent, shown>>

ReceiveUser(e) ==
    /\ HandOver(e)
    /\ UserReceive(e, Head(rcv[e].stack).id)

\* Whatever else the threads of the channels do does not touch the queues.
ChannelStep(e) ==
    /\ \/ Sender(e)
       \/ ProcessVIM(e)
       \/ \E p \in net[e] : Receive(e, p) \/ Lose(e, p)
    /\ UNCHANGED <<sent, split, received, shown>>

\* ProcessUserMessages, the game's thread: the first message of the queue.
ProcessUserMessages(e) ==
    /\ received[e] # <<>>
    /\ shown' = [shown EXCEPT ![e] = Append(@, Head(received[e]).parts)]
    /\ received' = [received EXCEPT ![e] = Tail(@)]
    /\ UNCHANGED <<sent, split, vars>>

UserNext ==
    \E e \in End :
        \/ \E c \in Stream : SendMsg(e, c)
        \/ SendNextPart(e)
        \/ ReceiveUser(e)
        \/ ChannelStep(e)
        \/ ProcessUserMessages(e)

UserSpec == UserInit /\ [][UserNext]_userVars

\* The threads of the channels go on, a call of SendMsg gets to its end, and
\* the game looks for messages on every frame.
FairUserSpec ==
    /\ UserSpec
    /\ Fairness
    /\ \A e \in End : /\ WF_userVars(SendNextPart(e))
                      /\ WF_userVars(ProcessUserMessages(e))
-----------------------------------------------------------------------------
(***************************************************************************)
(* Properties.                                                             *)
(***************************************************************************)
\* What stands at the places in set I of sequence s, in order.
Nth(I, k) ==
    CHOOSE i \in I : Cardinality({j \in I : j <= i}) = k

Select(s, I) == [k \in 1 .. Cardinality(I) |-> s[Nth(I, k)]]

\* A message is its sequence of parts; it counts as sent when the last of them
\* is submitted.
Finished(e, c) ==
    {k \in DOMAIN sent[e] : sent[e][k].class = c /\ k \notin Unfinished(e)}

Sent(e, c) ==
    Select([k \in DOMAIN sent[e] |-> sent[e][k].parts], Finished(e, c))

Shown(e, c) ==
    Select(shown[e], {k \in DOMAIN shown[e] :
        snd[Peer(e)].msgs[Head(shown[e][k])].class = c})

\* The same for the parts, as the channels get and hand them over.
PartsOf(s, c, parts) ==
    Select(parts, {k \in DOMAIN parts : s.msgs[parts[k]].class = c})

PartsSent(e, c) ==
    PartsOf(snd[e], c, [i \in DOMAIN snd[e].msgs |-> i])

PartsHanded(e, c) == PartsOf(snd[Peer(e)], c, delivered[e])

\* The masks of end e stayed ahead of its peer: no serial fell outside their
\* span, and no guaranteed message was left behind.
Undisturbed(e) == ~rcv[e].rejected /\ LeftBehind(e) = {}

\* The game is shown the guaranteed messages of each stream whole, once each and
\* in the order in which SendMsg was called (mergeMessageList, insertReceived),
\* unless the masks of the channel left one of their parts behind.
ShownInOrder ==
    \A e \in End : Undisturbed(e) =>
        \A c \in Stream : IsPrefix(Shown(e, c), Sent(Peer(e), c))

\* The last part of a message finds the parts before it, on which the client
\* relies without looking (NET_ERROR, NetTransportNet.cpp:1068 and 1091).
OpenerThere ==
    [][\A e \in End :
          delivered'[e] # delivered[e] /\ Undisturbed(e)' =>
              LET i == Last(delivered'[e])
              IN IsPart(Peer(e), i) /\ Closing(Peer(e), i)
                     => split[e][Whole(Peer(e), i).class] # <<>>]_userVars
=============================================================================
