----------------------------- MODULE NetChannel -----------------------------
(***************************************************************************)
(* Two NetChannelBasic objects connected through UDP                       *)
(* (engine/Poseidon/Network/Legacy/NetChannel.cpp), the threads of the two *)
(* NetPeerUDP objects that drive them (NetPeer.cpp) and the network in     *)
(* between, which loses, repeats, delays and reorders datagrams.           *)
(*                                                                         *)
(* Each end is sender and receiver at once.  Its output side (snd) queues  *)
(* messages, gives each a serial number when it first leaves, remembers    *)
(* what it sent and repeats unacknowledged guaranteed messages ("VIM",     *)
(* very important messages).  Its input side (rcv) filters repetitions,    *)
(* collects the acknowledgements it owes, holds back a guaranteed message  *)
(* until its predecessor was processed, and hands messages to the user.    *)
(*                                                                         *)
(* Times are abstracted: a timeout, a heartbeat or a ping may fall due in  *)
(* any state.  Those that no loss explains draw on the budgets below.      *)
(* Bandwidth estimation only decides when a message leaves, and is left    *)
(* out with the statistics it keeps.                                       *)
(***************************************************************************)
EXTENDS Integers, Sequences, SequencesExt, FiniteSets

CONSTANTS
    End,           \* the two ends of the connection
    Workload,      \* Workload[e][c]: messages of class c end e submits
    Closers,       \* the ends whose user may close the channel
    \* Parameters of the code:
    AckArray,      \* MAX_ACK_ARRAY: serials whose acknowledgement is counted
    OldAcks,       \* MAX_OLD_ACKS: slots of the ring of re-acknowledgements
    LongAck,       \* serials before the origin in a long acknowledgement, 63
    ShortAck,      \* the same in a short one, 31
    AckRedundancy, \* par.ackRedundancy: times each acknowledgement is sent
    MaxBitMask,    \* par.maxChannelBitMask: span of serials that is remembered
    GoodBitMask,   \* GOOD_CHANNEL_BIT_MASK: serials dropped ahead of need
    \* Bounds of the model:
    MaxSerial,     \* serial numbers an end may use
    MaxLoss,       \* datagrams that are lost for good
    MaxRepeat,     \* datagrams that arrive once more
    MaxEarly,      \* timeouts before their time
    MaxIdle,       \* heartbeats that carry no news
    MaxPing        \* latency measurements

ASSUME EndAssumption ==
    \A e \in End : \E d \in End : d # e /\ End = {e, d}

Stream == {"urgent", "vim"}    \* the two chains of guaranteed messages
Class == Stream \cup {"common"}

ASSUME ParameterAssumption ==
    /\ Workload \in [End -> [Class -> Nat]]
    /\ Closers \subseteq End
    /\ {AckArray, OldAcks, AckRedundancy, MaxBitMask, MaxSerial}
           \subseteq Nat \ {0}
    /\ {LongAck, ShortAck, GoodBitMask, MaxLoss, MaxRepeat, MaxEarly,
        MaxIdle, MaxPing} \subseteq Nat
    /\ GoodBitMask < MaxBitMask

Peer(e) == CHOOSE d \in End : d # e

Serial == 1 .. MaxSerial
NotReceived == -1              \* NOT_RECEIVED, 0xff in the code

\* The ring ack[], whose slots are named so that ackPtr is Slot(inputMax).
Slots == 0 .. AckArray - 1
Slot(serial) == serial % AckArray
-----------------------------------------------------------------------------
VARIABLES
    opened,    \* opened[e]: the channel has not been closed
    snd,       \* snd[e]: output side
    rcv,       \* rcv[e]: input side
    net,       \* net[e]: datagrams on their way to end e
    delivered, \* delivered[e]: guaranteed messages handed to e's user
    spent      \* how much of the model's budgets is used up

vars == <<opened, snd, rcv, net, delivered, spent>>

(***************************************************************************)
(* A message is known by its place in snd[e].msgs, the order of creation   *)
(* (NetMessage::id); 0 stands for a null reference.                        *)
(***************************************************************************)
Msg == [class   : Class \cup {"dummy"},
        pred    : Nat,             \* predecessor it is ordered after
        serial  : 0 .. MaxSerial,  \* 0 until it first leaves
        status  : {"new", "sent", "acked", "cancelled"},
        instant : BOOLEAN,         \* MSG_INSTANT_FLAG: asks for an answer
        reply   : 0 .. MaxSerial]  \* MSG_DELAY_FLAG: the serial it answers

Snd == [msgs       : Seq(Msg),
        urgentQ    : Seq(Nat),     \* urgentToSend
        vimQ       : Seq(Nat),     \* vimToSend
        commonQ    : Seq(Nat),     \* commonToSend
        prepared   : Nat,
        revisited  : SUBSET Nat,   \* guaranteed messages that were sent
        lastUrgent : Nat,
        lastVIM    : Nat,
        serial     : 1 .. MaxSerial + 1]

\* What the receiver keeps of a guaranteed message it cannot process yet.
In == [id : Nat, serial : Serial, pred : 0 .. MaxSerial]

Rcv == [inputMax : Nat \ {0},
        inputMin : Nat \ {0},
        maskMin  : Nat \ {0},      \* ackMaskMin
        ackMask  : SUBSET Serial,  \* received
        procMask : SUBSET Serial,  \* processed
        ack      : [Slots -> 0 .. AckRedundancy \cup {NotReceived}],
        oldAck   : Seq(Serial),    \* oldAckQueue
        deferred : [Serial -> Seq(In)], \* by predecessor, newest first
        stack    : Seq(In),        \* call stack of processVIM
        handing  : BOOLEAN,        \* the user's routine runs, unlocked
        rejected : BOOLEAN]        \* history: a serial fell outside the span

Packet == [id : Nat, serial : Serial, vim : BOOLEAN, pred : 0 .. MaxSerial,
           instant : BOOLEAN, acks : SUBSET Serial]

Budget == [loss   : 0 .. MaxLoss,
           repeat : 0 .. MaxRepeat,
           early  : 0 .. MaxEarly + MaxLoss,
           idle   : 0 .. MaxIdle,
           ping   : 0 .. MaxPing]

\* Every message an output side refers to.
References(s) ==
    Range(s.urgentQ) \cup Range(s.vimQ) \cup Range(s.commonQ) \cup s.revisited
        \cup ({s.prepared, s.lastUrgent, s.lastVIM} \ {0})
        \cup ({m.pred : m \in Range(s.msgs)} \ {0})

IsVIM(m) == m.class \in Stream
Ordered(m) == m.pred # 0
IsShort(m) == Ordered(m) \/ m.reply # 0
-----------------------------------------------------------------------------
Init ==
    /\ opened = [e \in End |-> TRUE]
    /\ snd = [e \in End |->
                 [msgs |-> <<>>, urgentQ |-> <<>>, vimQ |-> <<>>,
                  commonQ |-> <<>>, prepared |-> 0, revisited |-> {},
                  lastUrgent |-> 0, lastVIM |-> 0, serial |-> 1]]
    /\ rcv = [e \in End |->
                 [inputMax |-> 1, inputMin |-> 1, maskMin |-> 1,
                  ackMask |-> {}, procMask |-> {},
                  ack |-> [i \in Slots |-> NotReceived],
                  oldAck |-> <<>>, stack |-> <<>>,
                  deferred |-> [s \in Serial |-> <<>>],
                  handing |-> FALSE, rejected |-> FALSE]]
    /\ net = [e \in End |-> {}]
    /\ delivered = [e \in End |-> <<>>]
    /\ spent = [loss |-> 0, repeat |-> 0, early |-> 0, idle |-> 0, ping |-> 0]
-----------------------------------------------------------------------------
(***************************************************************************)
(* Output side.                                                            *)
(***************************************************************************)
NewMsg(class, pred) ==
    [class |-> class, pred |-> pred, serial |-> 0, status |-> "new",
     instant |-> FALSE, reply |-> 0]

\* A message the channel makes up itself, at the end of the urgent queue.
PutDummy(s, instant, reply) ==
    [s EXCEPT !.msgs = Append(@, [NewMsg("dummy", 0) EXCEPT
                                      !.instant = instant, !.reply = reply]),
              !.urgentQ = Append(@, Len(s.msgs) + 1)]

\* Variant, a bug the runs must detect: the newest message goes first.
PutMessageFirst(s, class) ==
    LET id == Len(s.msgs) + 1
        last == IF class = "urgent" THEN s.lastUrgent ELSE s.lastVIM
        t == [s EXCEPT !.msgs = Append(@, NewMsg(class, last))]
    IN IF class = "urgent"
       THEN [t EXCEPT !.lastUrgent = id, !.urgentQ = <<id>> \o @]
       ELSE [t EXCEPT !.lastVIM = id, !.vimQ = <<id>> \o @]

(***************************************************************************)
(* The user composes a message, orders it after the last guaranteed one of *)
(* its class (NetMessage::setOrderedPrevious) and dispatches it.           *)
(***************************************************************************)
PutMessage(s, class) ==
    LET id == Len(s.msgs) + 1
        pred == CASE class = "urgent" -> s.lastUrgent
                  [] class = "vim"    -> s.lastVIM
                  [] class = "common" -> 0
        t == [s EXCEPT !.msgs = Append(@, NewMsg(class, pred))]
    IN CASE class = "urgent" -> [t EXCEPT !.lastUrgent = id,
                                          !.urgentQ = Append(@, id)]
         [] class = "vim"    -> [t EXCEPT !.lastVIM = id,
                                          !.vimQ = Append(@, id)]
         [] class = "common" -> [t EXCEPT !.commonQ = Append(@, id)]

\* checkConnectivityInternal once something is due: reuse the message at the
\* head of the urgent queue or make one up, and perhaps turn it into a ping.
Beat(s, ping) ==
    IF s.urgentQ = <<>>
    THEN PutDummy(s, ping, 0)
    ELSE [s EXCEPT !.msgs[Head(s.urgentQ)].instant = @ \/ ping]

\* Variant, a bug the runs must detect: any urgent message takes the answer.
ReplyToAny(s, request) ==
    IF s.urgentQ = <<>>
    THEN PutDummy(s, FALSE, request)
    ELSE [s EXCEPT !.msgs[Head(s.urgentQ)].reply = request]

\* setDelayMessage: the answer to a ping rides on a queued message whose
\* second control word is free, or on a new one.
ReplyTo(s, request) ==
    LET i == SelectInSeq(s.urgentQ, LAMBDA id : ~IsShort(s.msgs[id]))
    IN IF i # 0
       THEN [s EXCEPT !.msgs[s.urgentQ[i]].reply = request]
       ELSE IF s.commonQ = <<>>
       THEN PutDummy(s, FALSE, request)
       ELSE [s EXCEPT !.msgs[Head(s.commonQ)].reply = request,
                      !.urgentQ = Append(@, Head(s.commonQ)),
                      !.commonQ = Tail(@)]

\* Variant, a bug the runs must detect: the list is cut where a message goes in.
PutResendCutting(q, id) ==
    LET i == SelectInSeq(q, LAMBDA j : j > id)
    IN IF i = 0 THEN Append(q, id) ELSE Append(SubSeq(q, 1, i - 1), id)

\* insertResend: by age, among messages not older than the head.
PutResend(q, id) ==
    LET i == SelectInSeq(q, LAMBDA j : j > id)
    IN IF i = 0 THEN Append(q, id) ELSE InsertAt(q, i, id)

\* The acknowledgement part of inputStatistics.
AckIn(s, acks) ==
    [s EXCEPT !.msgs = [i \in DOMAIN @ |->
        IF i \in s.revisited /\ @[i].serial \in acks
        THEN [@[i] EXCEPT !.status = "acked"] ELSE @[i]]]
-----------------------------------------------------------------------------
(***************************************************************************)
(* Input side.                                                             *)
(***************************************************************************)
\* Variant, a bug the runs must detect: what lies before the mask is new.
ReceivedInMask(r, serial) == serial \in r.ackMask

\* Variant, a bug the runs must detect: only what was processed counts.
ReceivedIfProcessed(r, serial) == serial < r.maskMin \/ serial \in r.procMask

Received(r, serial) == serial < r.maskMin \/ serial \in r.ackMask

WithinSpan(r, serial) ==
    serial - r.inputMax <= MaxBitMask /\ r.maskMin - serial <= MaxBitMask

\* Variant, a bug the runs must detect: the ring of old acknowledgements overflows.
InputResentOverflowing(r, p) ==
    IF p.serial >= r.maskMin /\ p.serial < r.inputMin
    THEN [r EXCEPT !.oldAck = Append(@, p.serial)]
    ELSE IF p.serial >= r.inputMin /\ p.vim
    THEN [r EXCEPT !.ack[Slot(p.serial)] = AckRedundancy]
    ELSE r

\* inputResent: a repetition is acknowledged once more.
InputResent(r, p) ==
    IF p.serial < r.maskMin
    THEN r
    ELSE IF p.serial >= r.inputMin
    THEN IF p.vim THEN [r EXCEPT !.ack[Slot(p.serial)] = AckRedundancy] ELSE r
    ELSE IF Len(r.oldAck) < OldAcks - 1
    THEN [r EXCEPT !.oldAck = Append(@, p.serial)]
    ELSE r

\* Variant, a bug the runs must detect: moving the window clears the whole mask.
InputStatisticsClearing(r, serial) ==
    LET newest == IF serial > r.inputMax THEN serial ELSE r.inputMax
        moved == newest - r.maskMin > MaxBitMask
    IN [r EXCEPT
           !.inputMax = newest,
           !.inputMin = IF newest - @ >= AckArray THEN newest - AckArray + 1
                                                  ELSE @,
           !.maskMin = IF moved THEN newest - MaxBitMask + GoodBitMask ELSE @,
           !.ackMask = IF moved THEN {serial} ELSE @ \cup {serial},
           !.procMask = IF moved THEN {} ELSE @,
           !.ack[Slot(serial)] = AckRedundancy]

\* inputStatistics, as far as it concerns the input side.
InputStatistics(r, serial) ==
    LET newest == IF serial > r.inputMax THEN serial ELSE r.inputMax
        oldest == IF newest - r.inputMin >= AckArray
                  THEN newest - AckArray + 1 ELSE r.inputMin
        keep == IF newest - r.maskMin > MaxBitMask
                THEN newest - MaxBitMask + GoodBitMask ELSE r.maskMin
        missed == {Slot(s) : s \in r.inputMax + 1 .. newest}
    IN [r EXCEPT !.inputMax = newest,
                 !.inputMin = oldest,
                 !.maskMin  = keep,
                 !.ackMask  = {s \in @ \cup {serial} : s >= keep},
                 !.procMask = {s \in @ : s >= keep},
                 !.ack = [i \in Slots |->
                     IF i = Slot(serial) /\ serial >= oldest THEN AckRedundancy
                     ELSE IF i \in missed THEN NotReceived ELSE @[i]]]

\* Variant, a bug the runs must detect: nothing waits for its predecessor.
AdmitAtOnce(r, p) ==
    IF p.vim
    THEN [r EXCEPT !.stack = <<[id |-> p.id, serial |-> p.serial,
                                pred |-> p.pred]>>]
    ELSE r

\* The rest of processData: a guaranteed message waits for its predecessor,
\* and otherwise enters processVIM.
Admit(r, p) ==
    LET in == [id |-> p.id, serial |-> p.serial, pred |-> p.pred]
    IN IF ~p.vim
       THEN r
       ELSE IF p.pred >= r.maskMin /\ p.pred \notin r.procMask
       THEN [r EXCEPT !.deferred[p.pred] = <<in>> \o @]
       ELSE [r EXCEPT !.stack = <<in>>]

\* setOutputData: the serial an acknowledgement starts from.
AckOrigin(r, m) ==
    LET size == IF IsShort(m) THEN ShortAck ELSE LongAck
        owed == {s \in r.inputMin .. r.inputMax : r.ack[Slot(s)] > 0}
        oldest == IF owed = {} THEN r.inputMax ELSE Min(owed)
    IN IF m.reply # 0
       THEN m.reply
       ELSE IF r.oldAck # <<>>
       THEN Head(r.oldAck)
       ELSE IF oldest + size > r.inputMax THEN r.inputMax ELSE oldest + size

AckSpan(r, m) ==
    LET newest == AckOrigin(r, m)
    IN {s \in Serial : /\ s <= newest
                       /\ s >= newest - (IF IsShort(m) THEN ShortAck
                                                       ELSE LongAck)}

\* Variant, a bug the runs must detect: a count of zero is decremented, to 0xff.
AckOutWrapping(r, m) ==
    [r EXCEPT
        !.ack = [i \in Slots |->
                    IF @[i] >= 0 /\ \E s \in AckSpan(r, m) :
                                        s >= r.inputMin /\ Slot(s) = i
                    THEN @[i] - 1 ELSE @[i]],
        !.oldAck = IF m.reply = 0 /\ @ # <<>> THEN Tail(@) ELSE @]

\* setOutputData: what composing an acknowledgement changes.
AckOut(r, m) ==
    [r EXCEPT
        !.ack = [i \in Slots |->
                    IF @[i] > 0 /\ \E s \in AckSpan(r, m) :
                                       s >= r.inputMin /\ Slot(s) = i
                    THEN @[i] - 1 ELSE @[i]],
        !.oldAck = IF m.reply = 0 /\ @ # <<>> THEN Tail(@) ELSE @]
-----------------------------------------------------------------------------
(***************************************************************************)
(* What the budgets of the model are measured by.                          *)
(***************************************************************************)
\* What waits at an input side: for a predecessor, or its turn in processVIM.
Waiting(r) ==
    (UNION {Range(r.deferred[s]) : s \in Serial}) \cup Range(r.stack)

\* The messages the receiving end e has taken charge of.
Arrived(e) == Range(delivered[e]) \cup {in.id : in \in Waiting(rcv[e])}

\* Message i of end e needs to be repeated: it neither arrived nor still can.
Lost(e, i) ==
    /\ i \notin Arrived(Peer(e))
    /\ \A p \in net[Peer(e)] : p.id # i

\* Timeouts of messages that are not lost: some for the acknowledgements that
\* are, and some that only come too early.
Impatience == MaxEarly + spent.loss

\* End e owes the acknowledgement of a guaranteed message, and nothing that is
\* queued or on its way carries it.
News(e) ==
    LET s == snd[Peer(e)]
        r == rcv[e]
    IN /\ snd[e].vimQ \o snd[e].commonQ = <<>>
       /\ \E m \in Range(s.msgs) :
             /\ IsVIM(m) /\ m.status = "sent" /\ m.serial \in r.ackMask
             /\ m.serial >= r.inputMin /\ r.ack[Slot(m.serial)] > 0
             /\ \A p \in net[Peer(e)] : m.serial \notin p.acks

\* A heartbeat of end e may fall due, as a ping or not; without the ping it
\* changes something only when the urgent queue is empty.
BeatDue(e, ping) ==
    /\ News(e) \/ spent.idle < MaxIdle
    /\ IF ping THEN spent.ping < MaxPing ELSE snd[e].urgentQ = <<>>

Charge(budget, e, ping) ==
    [budget EXCEPT !.idle = IF News(e) THEN @ ELSE @ + 1,
                   !.ping = IF ping THEN @ + 1 ELSE @]
-----------------------------------------------------------------------------
(***************************************************************************)
(* Steps of the user.                                                      *)
(***************************************************************************)
Dispatch(e, class) ==
    /\ opened[e]
    /\ Cardinality({i \in DOMAIN snd[e].msgs : snd[e].msgs[i].class = class})
           < Workload[e][class]
    /\ snd' = [snd EXCEPT ![e] = PutMessage(@, class)]
    /\ UNCHANGED <<opened, rcv, net, delivered, spent>>

\* close, with cancelAllMessages; a message that is just being sent and a
\* processVIM that is under way survive it.
Close(e) ==
    /\ e \in Closers
    /\ opened[e]
    /\ opened' = [opened EXCEPT ![e] = FALSE]
    /\ LET queued == Range(snd[e].urgentQ) \cup Range(snd[e].vimQ)
                         \cup Range(snd[e].commonQ)
       IN snd' = [snd EXCEPT
              ![e].msgs = [i \in DOMAIN @ |->
                  IF i \in queued THEN [@[i] EXCEPT !.status = "cancelled"]
                                  ELSE @[i]],
              ![e].urgentQ = <<>>, ![e].vimQ = <<>>, ![e].commonQ = <<>>,
              ![e].lastUrgent = 0, ![e].lastVIM = 0, ![e].revisited = {}]
    /\ rcv' = [rcv EXCEPT ![e].deferred = [s \in Serial |-> <<>>]]
    /\ UNCHANGED <<net, delivered, spent>>
-----------------------------------------------------------------------------
(***************************************************************************)
(* Steps of the sending thread, udpSend.                                   *)
(***************************************************************************)
\* The queue getPreparedMessage serves: urgent, then guaranteed, then common.
NextQueue(s) ==
    CASE s.urgentQ # <<>> -> s.urgentQ
      [] s.urgentQ = <<>> /\ s.vimQ # <<>> -> s.vimQ
      [] OTHER -> s.commonQ

\* The message under preparation, with a serial number of its own.
Numbered(s, id) ==
    IF s.msgs[id].serial = 0
    THEN [s.msgs[id] EXCEPT !.serial = s.serial, !.status = "sent"]
    ELSE s.msgs[id]

\* Variant, a bug the runs must detect: everything up to the newest is acknowledged.
ComposeCumulative(e, id) ==
    LET m == Numbered(snd[e], id)
    IN [id |-> id, serial |-> m.serial, vim |-> IsVIM(m),
        pred |-> IF Ordered(m) THEN snd[e].msgs[m.pred].serial ELSE 0,
        instant |-> m.instant,
        acks |-> IF rcv[e].ackMask = {} THEN {} ELSE AckSpan(rcv[e], m)]

Compose(e, id) ==
    LET m == Numbered(snd[e], id)
    IN [id |-> id, serial |-> m.serial, vim |-> IsVIM(m),
        pred |-> IF Ordered(m) THEN snd[e].msgs[m.pred].serial ELSE 0,
        instant |-> m.instant,
        acks |-> rcv[e].ackMask \cap AckSpan(rcv[e], m)]

Unqueue(s) ==
    CASE s.urgentQ # <<>> -> [s EXCEPT !.urgentQ = Tail(@)]
      [] s.urgentQ = <<>> /\ s.vimQ # <<>> -> [s EXCEPT !.vimQ = Tail(@)]
      [] OTHER -> [s EXCEPT !.commonQ = Tail(@)]

\* getPreparedMessage, setOutputData, preSend and sendData.
Send(e) ==
    LET s == snd[e]
        id == Head(NextQueue(s))
        m == Numbered(s, id)
    IN /\ opened[e]
       /\ s.prepared = 0
       /\ NextQueue(s) # <<>>
       /\ m.serial <= MaxSerial
       /\ snd' = [snd EXCEPT ![e] =
                     [Unqueue(s) EXCEPT
                         !.msgs[id] = m,
                         !.serial = IF s.msgs[id].serial = 0 THEN @ + 1 ELSE @,
                         !.prepared = id]]
       /\ rcv' = [rcv EXCEPT ![e] = AckOut(@, m)]
       /\ net' = [net EXCEPT ![Peer(e)] = @ \cup {Compose(e, id)}]
       /\ UNCHANGED <<opened, delivered, spent>>

\* postSend: only now can the message be found by an acknowledgement.
PostSend(e) ==
    /\ snd[e].prepared # 0
    /\ snd' = [snd EXCEPT
          ![e].prepared = 0,
          ![e].revisited = IF opened[e] /\ IsVIM(snd[e].msgs[snd[e].prepared])
                           THEN @ \cup {snd[e].prepared} ELSE @]
    /\ UNCHANGED <<opened, rcv, net, delivered, spent>>

\* getCommonMessage: the head of the common queue has become obsolete.
Expire(e) ==
    LET s == snd[e]
    IN /\ opened[e]
       /\ s.prepared = 0
       /\ s.urgentQ \o s.vimQ = <<>> /\ s.commonQ # <<>>
       /\ snd' = [snd EXCEPT ![e].commonQ = Tail(@),
                             ![e].msgs[Head(s.commonQ)].status = "cancelled"]
       /\ UNCHANGED <<opened, rcv, net, delivered, spent>>

\* runRevisited: the acknowledgement of guaranteed message i is overdue.
Timeout(e, i) ==
    LET s == snd[e]
    IN /\ opened[e]
       /\ s.prepared = 0
       /\ i \in s.revisited /\ s.msgs[i].status # "acked"
       /\ Lost(e, i) \/ spent.early < Impatience
       /\ snd' = [snd EXCEPT ![e].urgentQ = PutResend(@, i),
                             ![e].revisited = @ \ {i}]
       /\ spent' = [spent EXCEPT !.early = IF Lost(e, i) THEN @ ELSE @ + 1]
       /\ UNCHANGED <<opened, rcv, net, delivered>>

\* The periodic checkConnectivity of both threads.
CheckConnectivity(e, ping) ==
    /\ opened[e]
    /\ BeatDue(e, ping)
    /\ snd' = [snd EXCEPT ![e] = Beat(@, ping)]
    /\ spent' = Charge(spent, e, ping)
    /\ UNCHANGED <<opened, rcv, net, delivered>>
-----------------------------------------------------------------------------
(***************************************************************************)
(* Steps of the listening thread, udpListen, and of the network.           *)
(***************************************************************************)
\* Datagram p leaves the network, or stays to arrive once more.
Arrive(e, p) ==
    \/ net' = [net EXCEPT ![e] = @ \ {p}] /\ UNCHANGED spent
    \/ /\ spent.repeat < MaxRepeat
       /\ spent' = [spent EXCEPT !.repeat = @ + 1]
       /\ UNCHANGED net

\* processData finds a serial it has seen.
ReceiveResent(e, p) ==
    /\ rcv[e].stack = <<>>
    /\ Received(rcv[e], p.serial)
    /\ rcv' = [rcv EXCEPT ![e] = InputResent(@, p)]
    /\ Arrive(e, p)
    /\ UNCHANGED <<opened, snd, delivered>>

\* processData takes in a new serial; the heartbeat is the one that
\* inputStatistics may find due.
ReceiveNew(e, p, beat, ping) ==
    LET heard == AckIn(snd[e], p.acks)
        beaten == IF beat THEN Beat(heard, ping) ELSE heard
    IN /\ rcv[e].stack = <<>>
       /\ ~Received(rcv[e], p.serial) /\ WithinSpan(rcv[e], p.serial)
       /\ rcv' = [rcv EXCEPT ![e] = Admit(InputStatistics(@, p.serial), p)]
       /\ snd' = [snd EXCEPT ![e] = IF p.instant THEN ReplyTo(beaten, p.serial)
                                                 ELSE beaten]
       /\ IF beat
          THEN /\ BeatDue(e, ping)
               /\ spent' = Charge(spent, e, ping)
               /\ net' = [net EXCEPT ![e] = @ \ {p}]
          ELSE ~ping /\ Arrive(e, p)
       /\ UNCHANGED <<opened, delivered>>

\* inputStatistics turns down a serial far from the window, and processData
\* goes on with the message all the same.
ReceiveFar(e, p) ==
    /\ rcv[e].stack = <<>>
    /\ ~Received(rcv[e], p.serial) /\ ~WithinSpan(rcv[e], p.serial)
    /\ rcv' = [rcv EXCEPT ![e] = Admit([@ EXCEPT !.rejected = TRUE], p)]
    /\ snd' = [snd EXCEPT ![e] = IF p.instant THEN ReplyTo(@, p.serial) ELSE @]
    /\ Arrive(e, p)
    /\ UNCHANGED <<opened, delivered>>

\* Variant, a bug the runs must detect: those that wait are not woken up.
ProcessedAlone(r) ==
    LET serial == Head(r.stack).serial
    IN [r EXCEPT
           !.procMask = IF serial >= r.maskMin THEN @ \cup {serial} ELSE @,
           !.stack = Tail(@), !.handing = FALSE]

\* The end of an activation of processVIM: mark the message as processed and
\* turn to those that waited for it.
Processed(r) ==
    LET serial == Head(r.stack).serial
    IN [r EXCEPT
           !.procMask = IF serial >= r.maskMin THEN @ \cup {serial} ELSE @,
           !.deferred[serial] = <<>>,
           !.stack = r.deferred[serial] \o Tail(@),
           !.handing = FALSE]

\* processVIM leaves the lock to call the user's routine, unless the window
\* has left the message behind or the routine is gone.
ProcessVIM(e) ==
    /\ rcv[e].stack # <<>> /\ ~rcv[e].handing
    /\ rcv' = [rcv EXCEPT ![e] =
                  IF Head(@.stack).serial >= @.maskMin /\ opened[e]
                  THEN [@ EXCEPT !.handing = TRUE]
                  ELSE Processed(@)]
    /\ UNCHANGED <<opened, snd, net, delivered, spent>>

\* The user's routine takes the message, and processVIM goes on.
HandOver(e) ==
    /\ rcv[e].handing
    /\ delivered' = [delivered EXCEPT ![e] = Append(@, Head(rcv[e].stack).id)]
    /\ rcv' = [rcv EXCEPT ![e] = Processed(@)]
    /\ UNCHANGED <<opened, snd, net, spent>>

Receive(e, p) ==
    \/ ReceiveResent(e, p) \/ ReceiveFar(e, p)
    \/ \E beat, ping \in BOOLEAN : ReceiveNew(e, p, beat, ping)

Lose(e, p) ==
    /\ spent.loss < MaxLoss
    /\ spent' = [spent EXCEPT !.loss = @ + 1]
    /\ net' = [net EXCEPT ![e] = @ \ {p}]
    /\ UNCHANGED <<opened, snd, rcv, delivered>>
-----------------------------------------------------------------------------
User(e) == (\E c \in Class : Dispatch(e, c)) \/ Close(e)

Sender(e) ==
    \/ Send(e) \/ PostSend(e) \/ Expire(e)
    \/ \E i \in snd[e].revisited : Timeout(e, i)
    \/ \E ping \in BOOLEAN : CheckConnectivity(e, ping)

Listener(e) ==
    \/ \E p \in net[e] : Receive(e, p) \/ Lose(e, p)
    \/ ProcessVIM(e) \/ HandOver(e)

Next == \E e \in End : User(e) \/ Sender(e) \/ Listener(e)

Spec == Init /\ [][Next]_vars

(***************************************************************************)
(* Both threads of a peer run for as long as it exists, so what they find  *)
(* to do gets done, and timers fire.  Nobody has to submit or to close,    *)
(* and the network need not lose anything.                                 *)
(***************************************************************************)
Fairness ==
    \A e \in End :
        /\ WF_vars(Send(e)) /\ WF_vars(PostSend(e))
        /\ WF_vars(\E i \in snd[e].revisited : Timeout(e, i))
        /\ WF_vars(CheckConnectivity(e, FALSE))
        /\ WF_vars(\E p \in net[e] : Receive(e, p))
        /\ WF_vars(ProcessVIM(e)) /\ WF_vars(HandOver(e))

FairSpec == Spec /\ Fairness
-----------------------------------------------------------------------------
(***************************************************************************)
(* Properties.                                                             *)
(***************************************************************************)
\* Every piece of state keeps its shape, every stored reference names a message
\* that exists, and the ring of old acknowledgements keeps its empty slot.
TypeOK ==
    /\ opened \in [End -> BOOLEAN]
    /\ snd \in [End -> Snd]
    /\ rcv \in [End -> Rcv]
    /\ net \in [End -> SUBSET Packet]
    /\ delivered \in [End -> Seq(Nat)]
    /\ spent \in Budget
    /\ \A e \in End : /\ Len(rcv[e].oldAck) < OldAcks
                      /\ rcv[e].handing => rcv[e].stack # <<>>
    /\ \A e \in End : References(snd[e]) \subseteq DOMAIN snd[e].msgs
    /\ \A e \in End :
          Arrived(e) \cup {p.id : p \in net[e]} \subseteq DOMAIN snd[Peer(e)].msgs

\* Messages i and j of end e belong to one stream.
SameStream(e, i, j) ==
    LET m == snd[e].msgs IN m[i].class \in Stream /\ m[i].class = m[j].class

\* No message of a stream is handed over twice or after a later one of its
\* stream (processData, processVIM), even when the window has moved on and
\* messages were given up with it.
HandedInOrder ==
    \A e \in End : ~rcv[e].rejected =>
        \A j, k \in DOMAIN delivered[e] :
            j < k /\ SameStream(Peer(e), delivered[e][j], delivered[e][k])
                => delivered[e][j] < delivered[e][k]

\* Guaranteed messages for end e that its masks left behind before they were
\* handed over; whatever still arrives of them is taken for a repetition.
LeftBehind(e) ==
    {i \in DOMAIN snd[Peer(e)].msgs :
        /\ IsVIM(snd[Peer(e)].msgs[i])
        /\ snd[Peer(e)].msgs[i].serial \in 1 .. rcv[e].maskMin - 1
        /\ i \notin Range(delivered[e])}

\* No message of a stream is left out: when one is handed over, those its
\* sender submitted before have been (processData, setOrderedPrevious), however
\* far the masks move, unless they left one behind.
NoneLeftOut ==
    \A e \in End : LeftBehind(e) = {} =>
        \A k \in DOMAIN delivered[e] : \A i \in 1 .. delivered[e][k] - 1 :
            SameStream(Peer(e), i, delivered[e][k])
                => \E j \in 1 .. k - 1 : delivered[e][j] = i

\* The sender stops repeating a guaranteed message only when the other end
\* has handed it over or holds it (newAcknowledgement, runRevisited).
AckedIsSafe ==
    \A e \in End : \A i \in DOMAIN snd[e].msgs :
        LET m == snd[e].msgs[i] IN
            /\ IsVIM(m) /\ m.status = "acked"
            /\ opened[Peer(e)] /\ rcv[Peer(e)].maskMin <= m.serial
            => i \in Arrived(Peer(e))

\* How many places of end e's output side hold message i.
Places(s, i) ==
    LET Times(q) == Cardinality({k \in DOMAIN q : q[k] = i})
    IN Times(s.urgentQ) + Times(s.vimQ) + Times(s.commonQ)
         + (IF s.prepared = i THEN 1 ELSE 0)
         + (IF i \in s.revisited THEN 1 ELSE 0)

\* While the channel is open a guaranteed message without acknowledgement is
\* in exactly one place, from where it will be sent or sent again: no queue
\* operation drops or doubles one (insertResend, getPreparedMessage, postSend).
NothingForgotten ==
    \A e \in End : opened[e] =>
        \A i \in DOMAIN snd[e].msgs :
            IsVIM(snd[e].msgs[i]) => Places(snd[e], i) = 1

\* The ring of acknowledgement counts and the mask of received serials, two
\* records of the same thing, agree where both apply (inputStatistics).
RingMatchesMask ==
    \A e \in End :
        LET r == rcv[e] IN
        \A s \in r.inputMin .. r.inputMax :
            s >= r.maskMin =>
                (r.ack[Slot(s)] # NotReceived <=> s \in r.ackMask)

\* An ordered message never leaves before its predecessor has a serial number
\* (the assertion on control2 in setOutputData).
PredecessorNumbered ==
    \A e \in End : \A p \in net[e] :
        Ordered(snd[Peer(e)].msgs[p.id]) => p.pred # 0

\* The second control word of a message has one use: the predecessor of an
\* ordered one or the delay of an answer (setDelayMessage, preSend).
ControlWordOwner ==
    \A e \in End : \A i \in DOMAIN snd[e].msgs :
        ~(Ordered(snd[e].msgs[i]) /\ snd[e].msgs[i].reply # 0)

\* No serial enters processing a second time (the assertion in processVIM).
NotReprocessed ==
    \A e \in End :
        LET r == rcv[e] IN
        r.stack # <<>> /\ Head(r.stack).serial >= r.maskMin
            => Head(r.stack).serial \notin r.procMask

\* A message waits only for a predecessor that is still to be processed: no
\* wake-up is missed between processData and processVIM.
DeferredWaits ==
    \A e \in End : rcv[e].stack = <<>> =>
        \A s \in rcv[e].procMask : rcv[e].deferred[s] = <<>>

\* A serial that was received is never taken for a new one again, however far
\* the window moves (inputStatistics).
NeverNewAgain ==
    [][\A e \in End : \A s \in Serial :
           Received(rcv[e], s) => Received(rcv[e], s)']_vars

\* close discards the registration of the user's routine: a closed end is
\* handed nothing any more.
ClosedIsSilent ==
    [][\A e \in End : ~opened[e] => UNCHANGED delivered[e]]_vars

=============================================================================
