-------------------------- MODULE NetChannelProofs --------------------------
(***************************************************************************)
(* Type correctness of NetChannel: every reference that a queue, a table,  *)
(* a datagram, a waiting message or a user's history holds names a message *)
(* that exists.  The lemmas go from sequences over the operators that      *)
(* change one side of one end (SndOK, RcvOK) to the actions.  Messages     *)
(* only become more and keep what identifies them (Keeps), which is why a  *)
(* step of one end leaves the references of the other valid.               *)
(***************************************************************************)
EXTENDS NetChannel, SequenceTheorems, WellFoundedInduction, TLAPS

LEMMA ParameterTypes ==
    /\ AckArray \in Nat \ {0} /\ OldAcks \in Nat \ {0}
    /\ AckRedundancy \in Nat \ {0} /\ MaxBitMask \in Nat \ {0}
    /\ MaxSerial \in Nat \ {0} /\ LongAck \in Nat /\ ShortAck \in Nat
    /\ GoodBitMask \in Nat /\ MaxLoss \in Nat /\ MaxRepeat \in Nat
    /\ MaxEarly \in Nat /\ MaxIdle \in Nat /\ MaxPing \in Nat
    /\ GoodBitMask < MaxBitMask
  BY ParameterAssumption

LEMMA PeerType == \A e \in End : Peer(e) \in End /\ Peer(e) # e
  BY EndAssumption DEF Peer

LEMMA PeerPeer == \A e \in End : Peer(Peer(e)) = e
  BY EndAssumption, PeerType DEF Peer

LEMMA RangeOfAppend ==
    ASSUME NEW S, NEW q \in Seq(S), NEW x \in S
    PROVE  /\ Append(q, x) \in Seq(S)
           /\ Range(Append(q, x)) = Range(q) \cup {x}
  <1>1. Append(q, x) \in Seq(S) /\ Len(Append(q, x)) = Len(q) + 1
        /\ (\A i \in 1 .. Len(q) : Append(q, x)[i] = q[i])
        /\ Append(q, x)[Len(q) + 1] = x
    BY AppendProperties
  <1>2. Len(q) \in Nat
    BY LenProperties
  <1>3. Range(q) = {q[i] : i \in 1 .. Len(q)}
        /\ Range(Append(q, x)) = {Append(q, x)[i] : i \in 1 .. Len(q) + 1}
    BY <1>1, RangeEquality
  <1> HIDE DEF Range
  <1> QED BY <1>1, <1>2, <1>3

LEMMA RangeOfTail ==
    ASSUME NEW S, NEW q \in Seq(S), q # <<>>
    PROVE  /\ Tail(q) \in Seq(S) /\ Head(q) \in S
           /\ Range(q) = Range(Tail(q)) \cup {Head(q)}
  <1>1. Tail(q) \in Seq(S) /\ Head(q) \in S /\ Len(Tail(q)) = Len(q) - 1
        /\ (\A i \in 1 .. Len(q) - 1 : Tail(q)[i] = q[i + 1])
    BY HeadTailProperties
  <1>2. Len(q) \in Nat \ {0} /\ Head(q) = q[1]
    BY EmptySeq, LenProperties
  <1>3. Range(q) = {q[i] : i \in 1 .. Len(q)}
        /\ Range(Tail(q)) = {Tail(q)[i] : i \in 1 .. Len(q) - 1}
    BY <1>1, RangeEquality
  <1>4. \A i \in 1 .. Len(q) : q[i] = Head(q) \/ (q[i] = Tail(q)[i - 1] /\ i - 1 \in 1 .. Len(q) - 1)
    BY <1>1, <1>2
  <1>5. \A i \in 1 .. Len(q) - 1 : Tail(q)[i] \in Range(q)
    BY <1>1, <1>2, <1>3
  <1>6. Range(Tail(q)) \cup {Head(q)} \subseteq Range(q)
    BY <1>2, <1>3, <1>5
  <1>7. Range(q) \subseteq Range(Tail(q)) \cup {Head(q)}
    BY <1>3, <1>4
  <1> QED BY <1>1, <1>6, <1>7

LEMMA RangeOfMember ==
    ASSUME NEW S, NEW q \in Seq(S)
    PROVE  Range(q) \subseteq S /\ DOMAIN q = 1 .. Len(q) /\ Len(q) \in Nat
           /\ (\A i \in 1 .. Len(q) : q[i] \in Range(q) /\ q[i] \in S)
  BY LenProperties, RangeEquality, ElementOfSeq, RangeOfSeq

\* Min of the community modules on a nonempty set of natural numbers.
LEMMA MinOfNaturals ==
    ASSUME NEW T \in SUBSET Nat, T # {}
    PROVE  Min(T) \in T /\ \A x \in T : Min(T) <= x
  <1>1. \E m \in T : \A x \in T : ~ (<<x, m>> \in OpToRel(<, Nat))
    BY NatLessThanWellFounded, WFMin
  <1>2. \A x, m \in Nat : x < m => <<x, m>> \in OpToRel(<, Nat)
    BY DEF OpToRel
  <1>3. \E m \in T : \A x \in T : ~ (x < m)
    BY <1>1, <1>2
  <1>4. \E m \in T : \A x \in T : m <= x
    BY <1>3
  <1> QED BY <1>4 DEF Min

LEMMA InsertAtRange ==
    ASSUME NEW S, NEW q \in Seq(S), NEW x \in S, NEW i \in 1 .. Len(q)
    PROVE  /\ InsertAt(q, i, x) \in Seq(S)
           /\ Range(InsertAt(q, i, x)) = Range(q) \cup {x}
  <1> DEFINE a == SubSeq(q, 1, i - 1)
             b == SubSeq(q, i, Len(q))
  <1>1. Len(q) \in Nat /\ (\A k \in 1 .. Len(q) : q[k] \in S)
    BY RangeOfMember
  <1>2. a \in Seq(S) /\ b \in Seq(S) /\ <<x>> \in Seq(S)
    BY <1>1, SubSeqProperties
  <1>3. a \o b = q
    BY <1>1, ConcatAdjacentSubSeq, SubSeqFull
  <1>4. Range(<<x>>) = {x}
    BY DEF Range
  <1>5. InsertAt(q, i, x) = (a \o <<x>>) \o b
    BY DEF InsertAt
  <1>6. a \o <<x>> \in Seq(S) /\ (a \o <<x>>) \o b \in Seq(S)
    BY <1>2, ConcatProperties
  <1> HIDE DEF a, b
  <1>7. Range(a) \cup Range(b) = Range(q)
    <2>1. Range(a \o b) = Range(a) \cup Range(b)
      BY <1>2, RangeConcatenation
    <2> QED BY <2>1, <1>3
  <1>8. Range((a \o <<x>>) \o b) = (Range(a) \cup {x}) \cup Range(b)
    <2>1. Range((a \o <<x>>) \o b) = Range(a \o <<x>>) \cup Range(b)
      BY <1>2, <1>6, RangeConcatenation
    <2>2. Range(a \o <<x>>) = Range(a) \cup Range(<<x>>)
      BY <1>2, RangeConcatenation
    <2> QED BY <2>1, <2>2, <1>4
  <1> QED BY <1>5, <1>6, <1>7, <1>8

LEMMA PutResendRange ==
    ASSUME NEW q \in Seq(Nat), NEW id \in Nat
    PROVE  /\ PutResend(q, id) \in Seq(Nat)
           /\ Range(PutResend(q, id)) = Range(q) \cup {id}
  <1> DEFINE Younger == {k \in 1 .. Len(q) : q[k] > id}
             i == IF Younger # {} THEN Min(Younger) ELSE 0
  <1>1. Len(q) \in Nat /\ i \in 0 .. Len(q)
    <2>1. Len(q) \in Nat
      BY RangeOfMember
    <2>2. Younger \in SUBSET Nat
      BY <2>1
    <2>3. Younger # {} => Min(Younger) \in Younger
      BY <2>2, MinOfNaturals
    <2> QED BY <2>1, <2>3
  <1>2. PutResend(q, id) = IF i = 0 THEN Append(q, id) ELSE InsertAt(q, i, id)
    BY DEF PutResend, SelectInSeq
  <1> HIDE DEF i
  <1>3. CASE i = 0
    BY <1>2, <1>3, RangeOfAppend
  <1>4. CASE i # 0
    <2>1. i \in 1 .. Len(q) /\ PutResend(q, id) = InsertAt(q, i, id)
      BY <1>1, <1>2, <1>4
    <2>2. \A k \in 1 .. Len(q) :
             /\ InsertAt(q, k, id) \in Seq(Nat)
             /\ Range(InsertAt(q, k, id)) = Range(q) \cup {id}
      BY InsertAtRange, ZenonT(30)
    <2> QED BY <2>1, <2>2
  <1> QED BY <1>3, <1>4

-----------------------------------------------------------------------------
\* A well-formed output side: TypeOK of one end.
SndOK(s) == s \in Snd /\ References(s) \subseteq DOMAIN s.msgs

LEMMA SndFields ==
    ASSUME NEW s, SndOK(s)
    PROVE  /\ s.msgs \in Seq(Msg) /\ DOMAIN s.msgs = 1 .. Len(s.msgs)
           /\ Len(s.msgs) \in Nat
           /\ s.urgentQ \in Seq(Nat) /\ s.vimQ \in Seq(Nat)
           /\ s.commonQ \in Seq(Nat)
           /\ s.prepared \in Nat /\ s.lastUrgent \in Nat /\ s.lastVIM \in Nat
           /\ s.serial \in 1 .. MaxSerial + 1
           /\ Range(s.urgentQ) \subseteq DOMAIN s.msgs
           /\ Range(s.vimQ) \subseteq DOMAIN s.msgs
           /\ Range(s.commonQ) \subseteq DOMAIN s.msgs
           /\ s.revisited \subseteq DOMAIN s.msgs
           /\ {s.prepared, s.lastUrgent, s.lastVIM} \subseteq {0} \cup DOMAIN s.msgs
           /\ \A i \in DOMAIN s.msgs : s.msgs[i] \in Msg /\ s.msgs[i].pred \in {0} \cup DOMAIN s.msgs
  <1>1. s.msgs \in Seq(Msg) /\ References(s) \subseteq DOMAIN s.msgs
    BY DEF SndOK, Snd
  <1>2. DOMAIN s.msgs = 1 .. Len(s.msgs) /\ Len(s.msgs) \in Nat
        /\ (\A i \in DOMAIN s.msgs : s.msgs[i] \in Range(s.msgs) /\ s.msgs[i] \in Msg)
    BY <1>1, RangeOfMember
  <1> QED BY <1>1, <1>2 DEF SndOK, Snd, References, Msg

\* What every step does to the messages of an end: none disappears, and what
\* it is, what it follows and a serial number it has stay with it.
Keeps(s, t) ==
    /\ Len(s.msgs) <= Len(t.msgs)
    /\ \A i \in 1 .. Len(s.msgs) :
          /\ t.msgs[i].class = s.msgs[i].class
          /\ t.msgs[i].pred = s.msgs[i].pred
          /\ s.msgs[i].serial # 0 => t.msgs[i].serial = s.msgs[i].serial

LEMMA NewMsgType ==
    ASSUME NEW class \in Class \cup {"dummy"}, NEW pred \in Nat
    PROVE  NewMsg(class, pred) \in Msg
  BY ParameterTypes DEF NewMsg, Msg

LEMMA AppendMsg ==
    ASSUME NEW q \in Seq(Msg), NEW m \in Msg
    PROVE  /\ Append(q, m) \in Seq(Msg) /\ Len(q) \in Nat
           /\ DOMAIN q = 1 .. Len(q)
           /\ DOMAIN Append(q, m) = 1 .. Len(q) + 1
           /\ Len(Append(q, m)) = Len(q) + 1
           /\ \A i \in 1 .. Len(q) : Append(q, m)[i] = q[i]
           /\ Append(q, m)[Len(q) + 1] = m
  BY AppendProperties, LenProperties

\* The messages that queues and single references of an output side hold.
Held(s) ==
    Range(s.urgentQ) \cup Range(s.vimQ) \cup Range(s.commonQ) \cup s.revisited
        \cup ({s.prepared, s.lastUrgent, s.lastVIM} \ {0})

LEMMA SndHeld ==
    ASSUME NEW s, SndOK(s)
    PROVE  Held(s) \subseteq DOMAIN s.msgs
  BY DEF SndOK, References, Held

LEMMA SndStep ==
    ASSUME NEW s, SndOK(s), NEW t \in Snd, Keeps(s, t),
           Held(t) \subseteq Held(s) \cup (Len(s.msgs) + 1 .. Len(t.msgs)),
           \A i \in Len(s.msgs) + 1 .. Len(t.msgs) :
               t.msgs[i].pred \in {0} \cup Held(s)
    PROVE  SndOK(t)
  <1>1. /\ s.msgs \in Seq(Msg) /\ t.msgs \in Seq(Msg)
        /\ DOMAIN s.msgs = 1 .. Len(s.msgs) /\ Len(s.msgs) \in Nat
        /\ DOMAIN t.msgs = 1 .. Len(t.msgs) /\ Len(t.msgs) \in Nat
        /\ Range(t.msgs) = {t.msgs[i] : i \in DOMAIN t.msgs}
    <2>1. s.msgs \in Seq(Msg) /\ t.msgs \in Seq(Msg)
      BY DEF SndOK, Snd
    <2> QED BY <2>1, RangeOfMember, RangeEquality
  <1>2. Held(s) \subseteq DOMAIN s.msgs /\ DOMAIN s.msgs \subseteq DOMAIN t.msgs
    BY <1>1, SndHeld DEF Keeps
  <1>3. \A i \in DOMAIN t.msgs : t.msgs[i].pred \in {0} \cup DOMAIN t.msgs
    <2>1. \A i \in DOMAIN s.msgs : s.msgs[i].pred \in {0} \cup DOMAIN s.msgs
      BY SndFields
    <2> QED BY <1>1, <1>2, <2>1 DEF Keeps
  <1>4. Held(t) \subseteq DOMAIN t.msgs
    BY <1>1, <1>2
  <1> QED BY <1>1, <1>3, <1>4 DEF SndOK, References, Held

LEMMA PutDummyOK ==
    ASSUME NEW s, SndOK(s), NEW instant \in BOOLEAN, NEW reply \in 0 .. MaxSerial
    PROVE  /\ SndOK(PutDummy(s, instant, reply))
           /\ Keeps(s, PutDummy(s, instant, reply))
  <1> DEFINE m == [NewMsg("dummy", 0) EXCEPT !.instant = instant, !.reply = reply]
             t == PutDummy(s, instant, reply)
             id == Len(s.msgs) + 1
  <1>1. m \in Msg /\ m.pred = 0
    <2>1. NewMsg("dummy", 0) \in Msg /\ NewMsg("dummy", 0).pred = 0
      BY NewMsgType DEF NewMsg
    <2> QED BY <2>1 DEF Msg
  <1>2. s.urgentQ \in Seq(Nat) /\ s.msgs \in Seq(Msg) /\ id \in Nat
    BY SndFields
  <1> HIDE DEF m
  <1>3. /\ Append(s.urgentQ, id) \in Seq(Nat)
        /\ Range(Append(s.urgentQ, id)) = Range(s.urgentQ) \cup {id}
    BY <1>2, RangeOfAppend
  <1>4. /\ Append(s.msgs, m) \in Seq(Msg) /\ Len(s.msgs) \in Nat
        /\ Len(Append(s.msgs, m)) = Len(s.msgs) + 1
        /\ \A i \in 1 .. Len(s.msgs) : Append(s.msgs, m)[i] = s.msgs[i]
        /\ Append(s.msgs, m)[Len(s.msgs) + 1] = m
    BY <1>1, <1>2, AppendMsg
  <1>5. /\ t \in Snd /\ t.msgs = Append(s.msgs, m)
        /\ t.urgentQ = Append(s.urgentQ, id)
        /\ t.vimQ = s.vimQ /\ t.commonQ = s.commonQ /\ t.prepared = s.prepared
        /\ t.revisited = s.revisited /\ t.lastUrgent = s.lastUrgent
        /\ t.lastVIM = s.lastVIM
    BY <1>3, <1>4 DEF SndOK, Snd, PutDummy, m
  <1> HIDE DEF t
  <1>6. Keeps(s, t)
    BY <1>1, <1>4, <1>5 DEF Keeps
  <1>7. Held(t) = Held(s) \cup {id}
    BY <1>3, <1>5 DEF Held
  <1> QED BY <1>1, <1>4, <1>5, <1>6, <1>7, SndStep DEF t

LEMMA PutMessageOK ==
    ASSUME NEW s, SndOK(s), NEW class \in Class
    PROVE  SndOK(PutMessage(s, class)) /\ Keeps(s, PutMessage(s, class))
  <1> DEFINE pred == CASE class = "urgent" -> s.lastUrgent
                       [] class = "vim"    -> s.lastVIM
                       [] class = "common" -> 0
             m == NewMsg(class, pred)
             t == PutMessage(s, class)
             id == Len(s.msgs) + 1
  <1>1. pred \in Nat /\ pred \in {0} \cup Held(s)
    BY SndFields DEF Class, Stream, Held
  <1>2. m \in Msg /\ m.pred = pred
    BY <1>1, NewMsgType DEF NewMsg
  <1>3. /\ s.urgentQ \in Seq(Nat) /\ s.vimQ \in Seq(Nat) /\ s.commonQ \in Seq(Nat)
        /\ s.msgs \in Seq(Msg) /\ id \in Nat
    BY SndFields
  <1> HIDE DEF m
  <1>4. \A q \in Seq(Nat) :
            /\ Append(q, id) \in Seq(Nat)
            /\ Range(Append(q, id)) = Range(q) \cup {id}
    BY <1>3, RangeOfAppend
  <1>5. /\ Append(s.msgs, m) \in Seq(Msg) /\ Len(s.msgs) \in Nat
        /\ Len(Append(s.msgs, m)) = Len(s.msgs) + 1
        /\ \A i \in 1 .. Len(s.msgs) : Append(s.msgs, m)[i] = s.msgs[i]
        /\ Append(s.msgs, m)[Len(s.msgs) + 1] = m
    BY <1>2, <1>3, AppendMsg
  <1>6. t \in Snd /\ t.msgs = Append(s.msgs, m) /\ Held(t) \subseteq Held(s) \cup {id}
    <2> USE <1>3, <1>5 DEF SndOK, Snd, m
    <2>1. CASE class = "urgent"
      <3>1. t \in Snd /\ t.msgs = Append(s.msgs, m)
        BY <1>4, <2>1 DEF PutMessage
      <3>2. /\ t.urgentQ = Append(s.urgentQ, id) /\ t.lastUrgent = id
            /\ t.vimQ = s.vimQ /\ t.commonQ = s.commonQ
            /\ t.prepared = s.prepared /\ t.revisited = s.revisited
            /\ t.lastVIM = s.lastVIM
        BY <2>1 DEF PutMessage
      <3> QED BY <1>4, <3>1, <3>2 DEF Held
    <2>2. CASE class = "vim"
      <3>1. t \in Snd /\ t.msgs = Append(s.msgs, m)
        BY <1>4, <2>2 DEF PutMessage
      <3>2. /\ t.vimQ = Append(s.vimQ, id) /\ t.lastVIM = id
            /\ t.urgentQ = s.urgentQ /\ t.commonQ = s.commonQ
            /\ t.prepared = s.prepared /\ t.revisited = s.revisited
            /\ t.lastUrgent = s.lastUrgent
        BY <2>2 DEF PutMessage
      <3> QED BY <1>4, <3>1, <3>2 DEF Held
    <2>3. CASE class = "common"
      <3>1. t \in Snd /\ t.msgs = Append(s.msgs, m)
        BY <1>4, <2>3 DEF PutMessage
      <3>2. /\ t.commonQ = Append(s.commonQ, id)
            /\ t.urgentQ = s.urgentQ /\ t.vimQ = s.vimQ
            /\ t.prepared = s.prepared /\ t.revisited = s.revisited
            /\ t.lastUrgent = s.lastUrgent /\ t.lastVIM = s.lastVIM
        BY <2>3 DEF PutMessage
      <3> QED BY <1>4, <3>1, <3>2 DEF Held
    <2> QED BY <2>1, <2>2, <2>3 DEF Class, Stream
  <1> HIDE DEF t, pred
  <1>7. Keeps(s, t)
    BY <1>5, <1>6 DEF Keeps
  <1> QED BY <1>1, <1>2, <1>5, <1>6, <1>7, SndStep DEF t

\* Changing what a message asks for or answers keeps an output side well-formed.
LEMMA MsgTouched ==
    ASSUME NEW s, SndOK(s), NEW i \in Held(s), NEW m \in Msg,
           m.class = s.msgs[i].class, m.pred = s.msgs[i].pred,
           s.msgs[i].serial # 0 => m.serial = s.msgs[i].serial
    PROVE  LET t == [s EXCEPT !.msgs[i] = m] IN SndOK(t) /\ Keeps(s, t)
  <1> DEFINE q == [s.msgs EXCEPT ![i] = m]
             t == [s EXCEPT !.msgs = q]
  <1>1. s.msgs \in Seq(Msg) /\ Len(s.msgs) \in Nat /\ i \in 1 .. Len(s.msgs)
    BY SndFields, SndHeld
  <1>2. /\ q \in Seq(Msg) /\ Len(q) = Len(s.msgs)
        /\ \A j \in 1 .. Len(s.msgs) : q[j] = IF j = i THEN m ELSE s.msgs[j]
    BY <1>1, ExceptSeq
  <1> HIDE DEF q
  <1>3. t \in Snd /\ t.msgs = q /\ Held(t) = Held(s)
    BY <1>2 DEF SndOK, Snd, Held
  <1>4. Keeps(s, t)
    BY <1>1, <1>2, <1>3 DEF Keeps
  <1> HIDE DEF t
  <1>5. SndOK(t)
    BY <1>1, <1>2, <1>3, <1>4, SndStep
  <1> QED BY <1>4, <1>5 DEF q, t

LEMMA HeadHeld ==
    ASSUME NEW s, SndOK(s)
    PROVE  /\ s.urgentQ # <<>> => Head(s.urgentQ) \in Held(s)
           /\ s.vimQ # <<>> => Head(s.vimQ) \in Held(s)
           /\ s.commonQ # <<>> => Head(s.commonQ) \in Held(s)
  <1>1. s.urgentQ \in Seq(Nat) /\ s.vimQ \in Seq(Nat) /\ s.commonQ \in Seq(Nat)
    BY SndFields
  <1> QED BY <1>1, RangeOfTail, SMTT(30) DEF Held

LEMMA BeatOK ==
    ASSUME NEW s, SndOK(s), NEW ping \in BOOLEAN
    PROVE  SndOK(Beat(s, ping)) /\ Keeps(s, Beat(s, ping))
  <1>1. CASE s.urgentQ = <<>>
    BY <1>1, PutDummyOK, ParameterTypes DEF Beat
  <1>2. CASE s.urgentQ # <<>>
    <2> DEFINE i == Head(s.urgentQ)
               m == [s.msgs[i] EXCEPT !.instant = @ \/ ping]
    <2>1. i \in Held(s) /\ s.msgs[i] \in Msg
      BY <1>2, HeadHeld, SndHeld, SndFields
    <2>2. /\ m \in Msg /\ m.class = s.msgs[i].class /\ m.pred = s.msgs[i].pred
          /\ m.serial = s.msgs[i].serial
      BY <2>1 DEF Msg
    <2>3. Beat(s, ping) = [s EXCEPT !.msgs[i] = m]
      BY <1>2 DEF Beat
    <2> HIDE DEF i, m
    <2> QED BY <2>1, <2>2, <2>3, MsgTouched
  <1> QED BY <1>1, <1>2

LEMMA AckInOK ==
    ASSUME NEW s, SndOK(s), NEW acks \in SUBSET Serial
    PROVE  SndOK(AckIn(s, acks)) /\ Keeps(s, AckIn(s, acks))
  <1> DEFINE q == [i \in DOMAIN s.msgs |->
                      IF i \in s.revisited /\ s.msgs[i].serial \in acks
                      THEN [s.msgs[i] EXCEPT !.status = "acked"] ELSE s.msgs[i]]
             t == [s EXCEPT !.msgs = q]
  <1>1. /\ Len(s.msgs) \in Nat /\ DOMAIN s.msgs = 1 .. Len(s.msgs)
        /\ \A i \in 1 .. Len(s.msgs) : s.msgs[i] \in Msg
    BY SndFields
  <1>2. \A i \in 1 .. Len(s.msgs) :
            /\ q[i] \in Msg /\ q[i].class = s.msgs[i].class
            /\ q[i].pred = s.msgs[i].pred /\ q[i].serial = s.msgs[i].serial
    BY <1>1 DEF Msg
  <1>3. q \in Seq(Msg) /\ Len(q) = Len(s.msgs)
    <2>1. q \in [1 .. Len(s.msgs) -> Msg]
      BY <1>1, <1>2
    <2> QED BY <1>1, <2>1, SeqDef
  <1> HIDE DEF q
  <1>4. t \in Snd /\ t.msgs = q /\ Held(t) = Held(s)
    BY <1>3 DEF SndOK, Snd, Held
  <1>5. Keeps(s, t)
    BY <1>1, <1>2, <1>3, <1>4 DEF Keeps
  <1>6. AckIn(s, acks) = t
    BY DEF AckIn, q
  <1> HIDE DEF t
  <1>7. SndOK(t)
    BY <1>1, <1>3, <1>4, <1>5, SndStep
  <1> QED BY <1>5, <1>6, <1>7

LEMMA MinOfPositions ==
    ASSUME NEW n \in Nat, NEW T \in SUBSET (1 .. n)
    PROVE  (IF T # {} THEN Min(T) ELSE 0) \in 0 .. n
  <1>1. T \in SUBSET Nat
    OBVIOUS
  <1>2. CASE T # {}
    <2>1. Min(T) \in T
      BY <1>1, <1>2, MinOfNaturals
    <2>2. Min(T) \in 1 .. n
      BY <2>1
    <2>3. Min(T) \in 0 .. n
      BY <2>2
    <2> QED BY <1>2, <2>1, <2>3
  <1>3. CASE T = {}
    BY <1>3
  <1> QED BY <1>2, <1>3

LEMMA ReplyToOK ==
    ASSUME NEW s, SndOK(s), NEW request \in 0 .. MaxSerial
    PROVE  SndOK(ReplyTo(s, request)) /\ Keeps(s, ReplyTo(s, request))
  <1> DEFINE Free == {k \in 1 .. Len(s.urgentQ) : ~IsShort(s.msgs[s.urgentQ[k]])}
             i == IF Free # {} THEN Min(Free) ELSE 0
  <1>1. s.urgentQ \in Seq(Nat) /\ s.commonQ \in Seq(Nat) /\ Len(s.urgentQ) \in Nat
    <2>1. s.urgentQ \in Seq(Nat) /\ s.commonQ \in Seq(Nat)
      BY SndFields
    <2> QED BY <2>1, LenProperties
  <1>2. i \in 0 .. Len(s.urgentQ)
    BY <1>1, MinOfPositions
  <1>3. ReplyTo(s, request) =
           IF i # 0
           THEN [s EXCEPT !.msgs[s.urgentQ[i]].reply = request]
           ELSE IF s.commonQ = <<>>
           THEN PutDummy(s, FALSE, request)
           ELSE [s EXCEPT !.msgs[Head(s.commonQ)].reply = request,
                          !.urgentQ = Append(@, Head(s.commonQ)),
                          !.commonQ = Tail(@)]
    BY DEF ReplyTo, SelectInSeq
  <1> HIDE DEF i
  <1>4. CASE i # 0
    <2> DEFINE j == s.urgentQ[i]
               m == [s.msgs[j] EXCEPT !.reply = request]
    <2>1. j \in Held(s) /\ s.msgs[j] \in Msg
      <3>1. j \in Range(s.urgentQ)
        BY <1>1, <1>2, <1>4, RangeOfMember
      <3> QED BY <3>1, SndHeld, SndFields DEF Held
    <2>2. /\ m \in Msg /\ m.class = s.msgs[j].class /\ m.pred = s.msgs[j].pred
          /\ m.serial = s.msgs[j].serial
      BY <2>1 DEF Msg
    <2>3. ReplyTo(s, request) = [s EXCEPT !.msgs[j] = m]
      BY <1>3, <1>4
    <2> HIDE DEF j, m
    <2> QED BY <2>1, <2>2, <2>3, MsgTouched
  <1>5. CASE i = 0 /\ s.commonQ = <<>>
    BY <1>3, <1>5, PutDummyOK
  <1>6. CASE i = 0 /\ s.commonQ # <<>>
    <2> DEFINE j == Head(s.commonQ)
               m == [s.msgs[j] EXCEPT !.reply = request]
               u == [s EXCEPT !.msgs[j] = m]
               t == [u EXCEPT !.urgentQ = Append(@, j), !.commonQ = Tail(@)]
    <2>1. j \in Held(s) /\ s.msgs[j] \in Msg
      BY <1>6, HeadHeld, SndHeld, SndFields
    <2>2. /\ m \in Msg /\ m.class = s.msgs[j].class /\ m.pred = s.msgs[j].pred
          /\ m.serial = s.msgs[j].serial
      BY <2>1 DEF Msg
    <2>3. ReplyTo(s, request) = t
      BY <1>3, <1>6 DEF SndOK, Snd
    <2> HIDE DEF m
    <2>4. SndOK(u) /\ Keeps(s, u)
      BY <2>1, <2>2, MsgTouched
    <2>5. u.urgentQ = s.urgentQ /\ u.commonQ = s.commonQ
      BY DEF SndOK, Snd
    <2> HIDE DEF u
    <2>6. /\ Append(s.urgentQ, j) \in Seq(Nat) /\ Tail(s.commonQ) \in Seq(Nat)
          /\ Range(Append(s.urgentQ, j)) = Range(s.urgentQ) \cup {j}
          /\ Range(s.commonQ) = Range(Tail(s.commonQ)) \cup {j}
      BY <1>1, <1>6, RangeOfAppend, RangeOfTail
    <2> HIDE DEF j
    <2>7. t \in Snd /\ t.msgs = u.msgs /\ Held(t) \subseteq Held(u)
      <3>1. t \in Snd /\ t.msgs = u.msgs
        BY <2>4, <2>5, <2>6 DEF SndOK, Snd
      <3>2. /\ t.urgentQ = Append(s.urgentQ, j) /\ t.commonQ = Tail(s.commonQ)
            /\ t.vimQ = u.vimQ /\ t.revisited = u.revisited
            /\ t.prepared = u.prepared /\ t.lastUrgent = u.lastUrgent
            /\ t.lastVIM = u.lastVIM
        BY <2>4, <2>5 DEF SndOK, Snd
      <3> QED BY <2>5, <2>6, <3>1, <3>2 DEF Held
    <2> HIDE DEF t
    <2>8. Len(u.msgs) \in Nat /\ Len(s.msgs) \in Nat
      BY <2>4, SndFields
    <2>9. Keeps(u, t) /\ Keeps(s, t)
      BY <2>4, <2>7, <2>8 DEF Keeps
    <2> QED BY <2>3, <2>4, <2>7, <2>8, <2>9, SndStep
  <1> QED BY <1>4, <1>5, <1>6

\* Changing a message in place keeps the shape of the sequence.
LEMMA MsgReplaced ==
    ASSUME NEW s, SndOK(s), NEW i \in 1 .. Len(s.msgs), NEW m \in Msg
    PROVE  LET q == [s.msgs EXCEPT ![i] = m]
           IN /\ q \in Seq(Msg) /\ Len(q) = Len(s.msgs)
              /\ \A j \in 1 .. Len(s.msgs) :
                    q[j] = IF j = i THEN m ELSE s.msgs[j]
  <1>1. s.msgs \in Seq(Msg)
    BY SndFields
  <1> QED BY <1>1, ExceptSeq

LEMMA NumberedOK ==
    ASSUME NEW s, SndOK(s), NEW i \in 1 .. Len(s.msgs),
           Numbered(s, i).serial <= MaxSerial
    PROVE  /\ Numbered(s, i) \in Msg
           /\ Numbered(s, i).class = s.msgs[i].class
           /\ Numbered(s, i).pred = s.msgs[i].pred
           /\ Numbered(s, i).reply = s.msgs[i].reply
           /\ Numbered(s, i).instant = s.msgs[i].instant
           /\ Numbered(s, i).serial \in Serial
           /\ s.msgs[i].serial # 0 => Numbered(s, i) = s.msgs[i]
           /\ s.msgs[i].serial = 0 => Numbered(s, i).serial = s.serial
  <1>1. s.msgs[i] \in Msg /\ s.serial \in 1 .. MaxSerial + 1
    BY SndFields
  <1>2. CASE s.msgs[i].serial # 0
    <2>1. Numbered(s, i) = s.msgs[i]
      BY <1>2 DEF Numbered
    <2>2. s.msgs[i].serial \in 0 .. MaxSerial
      BY <1>1 DEF Msg
    <2>3. s.msgs[i].serial \in Serial
      BY <1>2, <2>2, ParameterTypes DEF Serial
    <2> QED BY <1>1, <1>2, <2>1, <2>3
  <1>3. CASE s.msgs[i].serial = 0
    <2> DEFINE n == s.msgs[i]
               m == [n EXCEPT !.serial = s.serial, !.status = "sent"]
    <2>1. Numbered(s, i) = m
      BY <1>3 DEF Numbered
    <2> HIDE DEF n
    <2>2. m.serial = s.serial
      BY <1>1 DEF Msg, n
    <2>3. s.serial \in 0 .. MaxSerial /\ s.serial \in Serial
      BY <1>1, <2>1, <2>2, ParameterTypes DEF Serial
    <2>4. /\ m \in Msg /\ m.class = n.class /\ m.pred = n.pred
          /\ m.reply = n.reply /\ m.instant = n.instant
      BY <1>1, <2>3 DEF Msg, n
    <2> QED BY <1>3, <2>1, <2>2, <2>3, <2>4 DEF n
  <1> QED BY <1>2, <1>3

\* What Send does to the output side.
AfterSend(s) ==
    LET id == Head(NextQueue(s))
    IN [Unqueue(s) EXCEPT
            !.msgs[id] = Numbered(s, id),
            !.serial = IF s.msgs[id].serial = 0 THEN @ + 1 ELSE @,
            !.prepared = id]

LEMMA UnqueueOK ==
    ASSUME NEW s, SndOK(s), NextQueue(s) # <<>>
    PROVE  /\ Unqueue(s) \in Snd
           /\ Unqueue(s).msgs = s.msgs /\ Unqueue(s).serial = s.serial
           /\ Unqueue(s).prepared = s.prepared
           /\ Unqueue(s).revisited = s.revisited
           /\ Unqueue(s).lastUrgent = s.lastUrgent
           /\ Unqueue(s).lastVIM = s.lastVIM
           /\ Range(Unqueue(s).urgentQ) \subseteq Range(s.urgentQ)
           /\ Range(Unqueue(s).vimQ) \subseteq Range(s.vimQ)
           /\ Range(Unqueue(s).commonQ) \subseteq Range(s.commonQ)
           /\ Head(NextQueue(s)) \in Held(s)
           /\ Head(NextQueue(s)) \in 1 .. Len(s.msgs)
  <1>1. s.urgentQ \in Seq(Nat) /\ s.vimQ \in Seq(Nat) /\ s.commonQ \in Seq(Nat)
        /\ DOMAIN s.msgs = 1 .. Len(s.msgs)
    BY SndFields
  <1>2. \A q \in Seq(Nat) : q # <<>> =>
            Tail(q) \in Seq(Nat) /\ Range(Tail(q)) \subseteq Range(q)
    BY RangeOfTail
  <1>3. Held(s) \subseteq 1 .. Len(s.msgs)
    BY <1>1, SndHeld
  <1>4. CASE s.urgentQ # <<>>
    <2>1. Unqueue(s) = [s EXCEPT !.urgentQ = Tail(@)] /\ NextQueue(s) = s.urgentQ
      BY <1>4 DEF Unqueue, NextQueue
    <2>2. s.urgentQ # <<>>
      BY <1>4, <2>1
    <2>3. /\ Tail(s.urgentQ) \in Seq(Nat)
          /\ Range(Tail(s.urgentQ)) \subseteq Range(s.urgentQ)
      BY <1>1, <1>2, <2>2
    <2>4. Head(NextQueue(s)) \in Held(s)
      BY <2>1, <2>2, HeadHeld
    <2> QED BY <1>3, <2>1, <2>3, <2>4 DEF SndOK, Snd
  <1>5. CASE s.urgentQ = <<>> /\ s.vimQ # <<>>
    <2>1. Unqueue(s) = [s EXCEPT !.vimQ = Tail(@)] /\ NextQueue(s) = s.vimQ
      BY <1>5 DEF Unqueue, NextQueue
    <2>2. s.vimQ # <<>>
      BY <1>5, <2>1
    <2>3. /\ Tail(s.vimQ) \in Seq(Nat)
          /\ Range(Tail(s.vimQ)) \subseteq Range(s.vimQ)
      BY <1>1, <1>2, <2>2
    <2>4. Head(NextQueue(s)) \in Held(s)
      BY <2>1, <2>2, HeadHeld
    <2> QED BY <1>3, <2>1, <2>3, <2>4 DEF SndOK, Snd
  <1>6. CASE s.urgentQ = <<>> /\ s.vimQ = <<>>
    <2>1. Unqueue(s) = [s EXCEPT !.commonQ = Tail(@)] /\ NextQueue(s) = s.commonQ
      BY <1>6 DEF Unqueue, NextQueue
    <2>2. s.commonQ # <<>>
      BY <1>6, <2>1
    <2>3. /\ Tail(s.commonQ) \in Seq(Nat)
          /\ Range(Tail(s.commonQ)) \subseteq Range(s.commonQ)
      BY <1>1, <1>2, <2>2
    <2>4. Head(NextQueue(s)) \in Held(s)
      BY <2>1, <2>2, HeadHeld
    <2> QED BY <1>3, <2>1, <2>3, <2>4 DEF SndOK, Snd
  <1> QED BY <1>4, <1>5, <1>6

LEMMA SentOK ==
    ASSUME NEW s, SndOK(s), NextQueue(s) # <<>>,
           Numbered(s, Head(NextQueue(s))).serial <= MaxSerial
    PROVE  SndOK(AfterSend(s)) /\ Keeps(s, AfterSend(s))
  <1> DEFINE id == Head(NextQueue(s))
             m == Numbered(s, id)
             q == [s.msgs EXCEPT ![id] = m]
             u == Unqueue(s)
             t == AfterSend(s)
  <1>1. /\ u \in Snd /\ u.msgs = s.msgs /\ u.serial = s.serial
        /\ u.revisited = s.revisited
        /\ u.lastUrgent = s.lastUrgent /\ u.lastVIM = s.lastVIM
        /\ Range(u.urgentQ) \subseteq Range(s.urgentQ)
        /\ Range(u.vimQ) \subseteq Range(s.vimQ)
        /\ Range(u.commonQ) \subseteq Range(s.commonQ)
        /\ id \in Held(s) /\ id \in 1 .. Len(s.msgs)
    BY UnqueueOK
  <1>2. /\ m \in Msg /\ m.class = s.msgs[id].class /\ m.pred = s.msgs[id].pred
        /\ s.msgs[id].serial # 0 => m.serial = s.msgs[id].serial
        /\ s.msgs[id].serial = 0 => m.serial = s.serial
        /\ m.serial \in Serial
    BY <1>1, NumberedOK
  <1> HIDE DEF m
  <1>3. /\ q \in Seq(Msg) /\ Len(q) = Len(s.msgs) /\ Len(s.msgs) \in Nat
        /\ \A j \in 1 .. Len(s.msgs) : q[j] = IF j = id THEN m ELSE s.msgs[j]
    BY <1>1, <1>2, MsgReplaced, SndFields
  <1> HIDE DEF q, u
  <1>4. t = [u EXCEPT !.msgs = q,
                      !.serial = IF s.msgs[id].serial = 0 THEN @ + 1 ELSE @,
                      !.prepared = id]
    BY <1>1 DEF AfterSend, u, q, m, Snd
  <1> HIDE DEF id, t
  <1>5. s.msgs[id].serial = 0 => s.serial + 1 \in 1 .. MaxSerial + 1
    BY <1>2, ParameterTypes DEF Serial
  <1>6. id \in Nat \ {0}
    BY <1>1, <1>3
  <1>7. t \in Snd /\ t.msgs = q /\ t.prepared = id
    BY <1>1, <1>3, <1>4, <1>5, <1>6 DEF Snd
  <1>8. Held(t) \subseteq Held(s)
    <2>1. /\ t.urgentQ = u.urgentQ /\ t.vimQ = u.vimQ /\ t.commonQ = u.commonQ
          /\ t.revisited = s.revisited /\ t.lastUrgent = s.lastUrgent
          /\ t.lastVIM = s.lastVIM
      BY <1>1, <1>4 DEF Snd
    <2> QED BY <1>1, <1>7, <2>1 DEF Held
  <1>9. Keeps(s, t)
    BY <1>2, <1>3, <1>7 DEF Keeps
  <1>10. SndOK(t)
    BY <1>3, <1>7, <1>8, <1>9, SndStep
  <1> QED BY <1>9, <1>10 DEF t

-----------------------------------------------------------------------------
\* A well-formed input side: TypeOK of one end.
RcvOK(r) ==
    /\ r \in Rcv
    /\ Len(r.oldAck) < OldAcks
    /\ r.handing => r.stack # <<>>

LEMMA WaitingMember ==
    ASSUME NEW r, NEW x
    PROVE  x \in Waiting(r) <=> \/ x \in Range(r.stack)
                                \/ \E s \in Serial : x \in Range(r.deferred[s])
  <1> DEFINE D(s) == Range(r.deferred[s])
  <1>1. x \in UNION {D(s) : s \in Serial} <=> \E s \in Serial : x \in D(s)
    <2> HIDE DEF D
    <2> QED OBVIOUS
  <1> QED BY <1>1 DEF Waiting

LEMMA InputResentOK ==
    ASSUME NEW r, RcvOK(r), NEW p \in Packet
    PROVE  /\ RcvOK(InputResent(r, p))
           /\ InputResent(r, p).stack = r.stack
           /\ InputResent(r, p).deferred = r.deferred
  <1>1. CASE InputResent(r, p) = r
    BY <1>1
  <1>2. CASE InputResent(r, p) = [r EXCEPT !.ack[Slot(p.serial)] = AckRedundancy]
    <2> DEFINE a == [r.ack EXCEPT ![Slot(p.serial)] = AckRedundancy]
    <2>1. AckRedundancy \in 0 .. AckRedundancy \cup {NotReceived}
      BY ParameterTypes
    <2>2. a \in [Slots -> 0 .. AckRedundancy \cup {NotReceived}]
      BY <2>1 DEF RcvOK, Rcv
    <2>3. InputResent(r, p) = [r EXCEPT !.ack = a]
      BY <1>2
    <2> HIDE DEF a
    <2>4. [r EXCEPT !.ack = a] \in Rcv
      BY <2>2 DEF RcvOK, Rcv
    <2>5. /\ [r EXCEPT !.ack = a].stack = r.stack
          /\ [r EXCEPT !.ack = a].deferred = r.deferred
          /\ [r EXCEPT !.ack = a].oldAck = r.oldAck
      BY DEF RcvOK, Rcv
    <2> DEFINE t == [r EXCEPT !.ack = a]
    <2>6. RcvOK(t) /\ t.stack = r.stack /\ t.deferred = r.deferred
      BY <2>4, <2>5 DEF RcvOK
    <2>7. InputResent(r, p) = t
      BY <2>3
    <2> HIDE DEF t
    <2> QED BY <2>6, <2>7
  <1>3. CASE InputResent(r, p) = [r EXCEPT !.oldAck = Append(@, p.serial)]
             /\ Len(r.oldAck) < OldAcks - 1
    <2>1. r.oldAck \in Seq(Serial) /\ p.serial \in Serial
      BY DEF RcvOK, Rcv, Packet
    <2>2. /\ Append(r.oldAck, p.serial) \in Seq(Serial)
          /\ Len(Append(r.oldAck, p.serial)) = Len(r.oldAck) + 1
      BY <2>1, AppendProperties
    <2>3. Len(r.oldAck) \in Nat
      BY <2>1, LenProperties
    <2> DEFINE a == Append(r.oldAck, p.serial)
               t == [r EXCEPT !.oldAck = a]
    <2>4. InputResent(r, p) = t
      BY <1>3
    <2> HIDE DEF a
    <2>5. /\ t \in Rcv /\ t.oldAck = a /\ t.stack = r.stack
          /\ t.deferred = r.deferred
      BY <2>2 DEF RcvOK, Rcv, a
    <2>6. Len(a) < OldAcks
      BY <1>3, <2>2, <2>3, ParameterTypes DEF a
    <2> QED BY <2>4, <2>5, <2>6 DEF RcvOK
  <1> QED BY <1>1, <1>2, <1>3 DEF InputResent

LEMMA InputStatisticsOK ==
    ASSUME NEW r, RcvOK(r), NEW serial \in Serial
    PROVE  /\ RcvOK(InputStatistics(r, serial))
           /\ InputStatistics(r, serial).stack = r.stack
           /\ InputStatistics(r, serial).deferred = r.deferred
  <1> DEFINE newest == IF serial > r.inputMax THEN serial ELSE r.inputMax
             oldest == IF newest - r.inputMin >= AckArray
                       THEN newest - AckArray + 1 ELSE r.inputMin
             keep == IF newest - r.maskMin > MaxBitMask
                     THEN newest - MaxBitMask + GoodBitMask ELSE r.maskMin
             missed == {Slot(s) : s \in r.inputMax + 1 .. newest}
             ack == [i \in Slots |->
                     IF i = Slot(serial) /\ serial >= oldest THEN AckRedundancy
                     ELSE IF i \in missed THEN NotReceived ELSE r.ack[i]]
             mask == {s \in r.ackMask \cup {serial} : s >= keep}
             proc == {s \in r.procMask : s >= keep}
             t == [r EXCEPT !.inputMax = newest, !.inputMin = oldest,
                            !.maskMin = keep, !.ackMask = mask,
                            !.procMask = proc, !.ack = ack]
  <1>1. /\ r.inputMax \in Nat \ {0} /\ r.inputMin \in Nat \ {0}
        /\ r.maskMin \in Nat \ {0} /\ serial \in Nat \ {0}
        /\ r.ackMask \in SUBSET Serial /\ r.procMask \in SUBSET Serial
        /\ r.ack \in [Slots -> 0 .. AckRedundancy \cup {NotReceived}]
    BY DEF RcvOK, Rcv, Serial
  <1>2. newest \in Nat \ {0} /\ oldest \in Nat \ {0} /\ keep \in Nat \ {0}
    BY <1>1, ParameterTypes
  <1>3. mask \in SUBSET Serial /\ proc \in SUBSET Serial
    BY <1>1
  <1>4. ack \in [Slots -> 0 .. AckRedundancy \cup {NotReceived}]
    BY <1>1, ParameterTypes
  <1>5. InputStatistics(r, serial) = t
    BY DEF InputStatistics
  <1> HIDE DEF newest, oldest, keep, mask, proc, ack
  <1> QED BY <1>2, <1>3, <1>4, <1>5 DEF RcvOK, Rcv

\* The record that processData keeps of a guaranteed message.
Record(p) == [id |-> p.id, serial |-> p.serial, pred |-> p.pred]

LEMMA RecordType ==
    ASSUME NEW p \in Packet
    PROVE  /\ Record(p) \in In /\ Record(p).id = p.id
           /\ Record(p).serial = p.serial /\ Record(p).pred = p.pred
  BY DEF Packet, Record, In

LEMMA OneElement ==
    ASSUME NEW S, NEW x \in S
    PROVE  /\ <<x>> \in Seq(S) /\ Len(<<x>>) = 1 /\ <<x>>[1] = x
           /\ Range(<<x>>) = {x} /\ <<x>> # <<>>
  <1>1. <<x>> \in Seq(S) /\ Len(<<x>>) = 1 /\ <<x>>[1] = x /\ <<x>> # <<>>
    OBVIOUS
  <1>2. Range(<<x>>) = {x}
    BY DEF Range
  <1> QED BY <1>1, <1>2

\* The three ways in which processData disposes of a message.
LEMMA AdmitCases ==
    ASSUME NEW r, RcvOK(r), NEW p \in Packet
    PROVE  \/ /\ ~p.vim
              /\ Admit(r, p) = r
           \/ /\ p.vim /\ p.pred \in Serial
              /\ p.pred >= r.maskMin /\ p.pred \notin r.procMask
              /\ Admit(r, p) = [r EXCEPT !.deferred[p.pred] = <<Record(p)>> \o @]
           \/ /\ p.vim /\ (p.pred < r.maskMin \/ p.pred \in r.procMask)
              /\ Admit(r, p) = [r EXCEPT !.stack = <<Record(p)>>]
  <1>1. p.pred \in 0 .. MaxSerial /\ r.maskMin \in Nat \ {0}
    BY DEF RcvOK, Rcv, Packet
  <1>2. CASE p.vim /\ p.pred >= r.maskMin /\ p.pred \notin r.procMask
    BY <1>1, <1>2, ParameterTypes DEF Admit, Record, Serial
  <1>3. CASE p.vim /\ ~(p.pred >= r.maskMin /\ p.pred \notin r.procMask)
    BY <1>1, <1>3 DEF Admit, Record
  <1>4. CASE ~p.vim
    BY <1>4 DEF Admit
  <1> QED BY <1>2, <1>3, <1>4

LEMMA AdmitOK ==
    ASSUME NEW r, RcvOK(r), NEW p \in Packet
    PROVE  RcvOK(Admit(r, p)) /\ Waiting(Admit(r, p)) \subseteq
               Waiting(r) \cup {Record(p)}
  <1> DEFINE in == Record(p)
  <1>1. in \in In /\ <<in>> \in Seq(In) /\ Range(<<in>>) = {in} /\ <<in>> # <<>>
    BY RecordType, OneElement
  <1> HIDE DEF in
  <1>2. CASE Admit(r, p) = r
    BY <1>2
  <1>3. CASE p.pred \in Serial
             /\ Admit(r, p) = [r EXCEPT !.deferred[p.pred] = <<in>> \o @]
    <2> DEFINE q == <<in>> \o r.deferred[p.pred]
               d == [r.deferred EXCEPT ![p.pred] = q]
               t == [r EXCEPT !.deferred = d]
    <2>1. r.deferred \in [Serial -> Seq(In)] /\ r.deferred[p.pred] \in Seq(In)
      BY <1>3 DEF RcvOK, Rcv
    <2>2. q \in Seq(In) /\ Range(q) = {in} \cup Range(r.deferred[p.pred])
      <3> DEFINE one == <<in>>
                 rest == r.deferred[p.pred]
      <3>1. one \in Seq(In) /\ rest \in Seq(In) /\ Range(one) = {in}
        BY <1>1, <2>1
      <3> HIDE DEF one, rest
      <3>2. one \o rest \in Seq(In) /\ Range(one \o rest) = Range(one) \cup Range(rest)
        BY <3>1, ConcatProperties, RangeConcatenation
      <3> QED BY <3>1, <3>2 DEF one, rest
    <2>3. Admit(r, p) = t
      BY <1>3
    <2> HIDE DEF q
    <2>4. /\ d \in [Serial -> Seq(In)]
          /\ \A s \in Serial : Range(d[s]) \subseteq Range(r.deferred[s]) \cup {in}
      BY <1>3, <2>1, <2>2
    <2> HIDE DEF d
    <2>5. t.deferred = d /\ t.stack = r.stack /\ RcvOK(t)
      BY <2>4 DEF RcvOK, Rcv
    <2> HIDE DEF t
    <2>6. Waiting(t) \subseteq Waiting(r) \cup {in}
      BY <2>4, <2>5, WaitingMember
    <2> QED BY <2>3, <2>5, <2>6 DEF in
  <1>4. CASE Admit(r, p) = [r EXCEPT !.stack = <<in>>]
    <2> DEFINE q == <<in>>
    <2>0. q \in Seq(In) /\ q # <<>> /\ Admit(r, p) = [r EXCEPT !.stack = q]
      BY <1>1, <1>4
    <2> HIDE DEF q
    <2>1. /\ Admit(r, p).stack = q /\ Admit(r, p).deferred = r.deferred
          /\ RcvOK(Admit(r, p))
      BY <2>0 DEF RcvOK, Rcv
    <2>2. Waiting(Admit(r, p)) \subseteq Waiting(r) \cup {in}
      BY <1>1, <2>1, WaitingMember DEF q
    <2> QED BY <2>1, <2>2 DEF in
  <1> QED BY <1>2, <1>3, <1>4, AdmitCases DEF in

LEMMA AckOutOK ==
    ASSUME NEW r, RcvOK(r), NEW m \in Msg
    PROVE  /\ RcvOK(AckOut(r, m))
           /\ AckOut(r, m) = [r EXCEPT !.ack = AckOut(r, m).ack,
                                       !.oldAck = AckOut(r, m).oldAck]
  <1> DEFINE ack == [i \in Slots |->
                        IF r.ack[i] > 0 /\ \E s \in AckSpan(r, m) :
                                           s >= r.inputMin /\ Slot(s) = i
                        THEN r.ack[i] - 1 ELSE r.ack[i]]
             old == IF m.reply = 0 /\ r.oldAck # <<>> THEN Tail(r.oldAck)
                                                      ELSE r.oldAck
             t == [r EXCEPT !.ack = ack, !.oldAck = old]
  <1>1. /\ r.oldAck \in Seq(Serial)
        /\ r.ack \in [Slots -> 0 .. AckRedundancy \cup {NotReceived}]
    BY DEF RcvOK, Rcv
  <1>2. ack \in [Slots -> 0 .. AckRedundancy \cup {NotReceived}]
    BY <1>1, ParameterTypes DEF NotReceived
  <1>3. Len(r.oldAck) \in Nat /\ old \in Seq(Serial) /\ Len(old) <= Len(r.oldAck)
    BY <1>1, HeadTailProperties, LenProperties
  <1>4. AckOut(r, m) = t
    BY DEF AckOut
  <1> HIDE DEF ack, old
  <1>5. t \in Rcv /\ t.ack = ack /\ t.oldAck = old
    BY <1>2, <1>3 DEF RcvOK, Rcv
  <1>6. Len(t.oldAck) < OldAcks
    BY <1>3, <1>5, ParameterTypes DEF RcvOK
  <1> QED BY <1>4, <1>5, <1>6 DEF RcvOK

LEMMA ProcessedOK ==
    ASSUME NEW r, RcvOK(r), r.stack # <<>>
    PROVE  /\ RcvOK(Processed(r))
           /\ Head(r.stack) \in In
           /\ Waiting(Processed(r)) \subseteq Waiting(r)
           /\ Head(r.stack) \in Waiting(r)
  <1> DEFINE serial == Head(r.stack).serial
             proc == IF serial >= r.maskMin THEN r.procMask \cup {serial}
                                            ELSE r.procMask
             d == [r.deferred EXCEPT ![serial] = <<>>]
             q == r.deferred[serial] \o Tail(r.stack)
             t == [r EXCEPT !.procMask = proc, !.deferred = d, !.stack = q,
                            !.handing = FALSE]
  <1>1. /\ r.stack \in Seq(In) /\ r.deferred \in [Serial -> Seq(In)]
        /\ r.procMask \in SUBSET Serial
    BY DEF RcvOK, Rcv
  <1>2. /\ Head(r.stack) \in In /\ Tail(r.stack) \in Seq(In)
        /\ Range(r.stack) = Range(Tail(r.stack)) \cup {Head(r.stack)}
    BY <1>1, RangeOfTail
  <1>3. serial \in Serial
    BY <1>2 DEF In
  <1>4. Processed(r) = t
    BY DEF Processed
  <1> HIDE DEF serial
  <1>5. /\ q \in Seq(In)
        /\ Range(q) = Range(r.deferred[serial]) \cup Range(Tail(r.stack))
    <2> DEFINE woken == r.deferred[serial]
               rest == Tail(r.stack)
    <2>1. woken \in Seq(In) /\ rest \in Seq(In)
      BY <1>1, <1>2, <1>3
    <2> HIDE DEF woken, rest
    <2>2. /\ woken \o rest \in Seq(In)
          /\ Range(woken \o rest) = Range(woken) \cup Range(rest)
      BY <2>1, ConcatProperties, RangeConcatenation
    <2> QED BY <2>2 DEF woken, rest
  <1>6. proc \in SUBSET Serial
    BY <1>1, <1>3
  <1>7. /\ d \in [Serial -> Seq(In)]
        /\ \A s \in Serial : s # serial => d[s] = r.deferred[s]
        /\ Range(d[serial]) = {}
    <2>1. <<>> \in Seq(In) /\ Range(<<>>) = {}
      BY EmptySeq DEF Range
    <2> QED BY <1>1, <1>3, <2>1
  <1> HIDE DEF proc, d, q
  <1>8. RcvOK(t) /\ t.deferred = d /\ t.stack = q
    BY <1>1, <1>5, <1>6, <1>7 DEF RcvOK, Rcv
  <1> HIDE DEF t
  <1>9. Waiting(t) \subseteq Waiting(r)
    <2>1. \A s \in Serial : Range(t.deferred[s]) \subseteq Waiting(r)
      BY <1>7, <1>8, WaitingMember
    <2>2. Range(t.stack) \subseteq Waiting(r)
      BY <1>2, <1>3, <1>5, <1>8, WaitingMember
    <2> QED BY <2>1, <2>2, WaitingMember
  <1>10. Head(r.stack) \in Waiting(r)
    BY <1>2, WaitingMember
  <1> QED BY <1>2, <1>4, <1>8, <1>9, <1>10

-----------------------------------------------------------------------------
\* The messages that the network and the input side of end e know of.
Known(e) == Arrived(e) \cup {p.id : p \in net[e]}

LEMMA TypeParts ==
    TypeOK <=> /\ opened \in [End -> BOOLEAN]
               /\ snd \in [End -> Snd] /\ \A e \in End : SndOK(snd[e])
               /\ rcv \in [End -> Rcv] /\ \A e \in End : RcvOK(rcv[e])
               /\ net \in [End -> SUBSET Packet]
               /\ delivered \in [End -> Seq(Nat)]
               /\ spent \in Budget
               /\ \A e \in End : Known(e) \subseteq DOMAIN snd[Peer(e)].msgs
  BY DEF TypeOK, SndOK, RcvOK, Known

LEMMA KeepsRefl ==
    ASSUME NEW s, SndOK(s)
    PROVE  Keeps(s, s)
  BY SndFields DEF Keeps

LEMMA TypeStep ==
    ASSUME TypeOK,
           opened' \in [End -> BOOLEAN], spent' \in Budget,
           snd' \in [End -> Snd], rcv' \in [End -> Rcv],
           net' \in [End -> SUBSET Packet], delivered' \in [End -> Seq(Nat)],
           \A e \in End : SndOK(snd'[e]) /\ Keeps(snd[e], snd'[e]),
           \A e \in End : RcvOK(rcv'[e]),
           \A e \in End :
               Known(e)' \subseteq Known(e) \cup DOMAIN snd'[Peer(e)].msgs
    PROVE  TypeOK'
  <1>1. \A e \in End : DOMAIN snd[e].msgs \subseteq DOMAIN snd'[e].msgs
    <2> TAKE e \in End
    <2>1. SndOK(snd[e]) /\ SndOK(snd'[e]) /\ Keeps(snd[e], snd'[e])
      BY TypeParts
    <2> QED BY <2>1, SndFields DEF Keeps
  <1>2. \A e \in End : Known(e)' \subseteq DOMAIN snd'[Peer(e)].msgs
    BY <1>1, TypeParts, PeerType
  <1>3. /\ opened' \in [End -> BOOLEAN]
        /\ snd' \in [End -> Snd] /\ \A e \in End : SndOK(snd'[e])
        /\ rcv' \in [End -> Rcv] /\ \A e \in End : RcvOK(rcv'[e])
        /\ net' \in [End -> SUBSET Packet]
        /\ delivered' \in [End -> Seq(Nat)]
        /\ spent' \in Budget
        /\ \A e \in End : Known(e)' \subseteq DOMAIN snd'[Peer(e)].msgs
    BY <1>2
  <1>4. (/\ opened \in [End -> BOOLEAN]
         /\ snd \in [End -> Snd] /\ \A e \in End : SndOK(snd[e])
         /\ rcv \in [End -> Rcv] /\ \A e \in End : RcvOK(rcv[e])
         /\ net \in [End -> SUBSET Packet]
         /\ delivered \in [End -> Seq(Nat)]
         /\ spent \in Budget
         /\ \A e \in End : Known(e) \subseteq DOMAIN snd[Peer(e)].msgs)' => TypeOK'
    BY TypeParts, PTL
  <1> QED BY <1>3, <1>4 DEF Peer

\* A step that leaves the input sides, the network and the users alone.
LEMMA SenderStep ==
    ASSUME TypeOK, NEW e \in End, NEW t, SndOK(t), Keeps(snd[e], t),
           snd' = [snd EXCEPT ![e] = t],
           opened' \in [End -> BOOLEAN], spent' \in Budget,
           UNCHANGED <<rcv, net, delivered>>
    PROVE  TypeOK'
  <1>1. snd' \in [End -> Snd] /\ \A d \in End : SndOK(snd'[d]) /\ Keeps(snd[d], snd'[d])
    BY TypeParts, KeepsRefl DEF SndOK
  <1>2. \A d \in End : Known(d)' = Known(d)
    BY DEF Known, Arrived
  <1>3. /\ rcv' \in [End -> Rcv] /\ \A d \in End : RcvOK(rcv'[d])
        /\ net' \in [End -> SUBSET Packet] /\ delivered' \in [End -> Seq(Nat)]
    BY TypeParts
  <1> QED BY <1>1, <1>2, <1>3, TypeStep

LEMMA DispatchType ==
    ASSUME TypeOK, NEW e \in End, NEW c \in Class, Dispatch(e, c)
    PROVE  TypeOK'
  <1> DEFINE t == PutMessage(snd[e], c)
  <1>1. SndOK(t) /\ Keeps(snd[e], t)
    BY TypeParts, PutMessageOK
  <1>2. snd' = [snd EXCEPT ![e] = t]
    BY DEF Dispatch
  <1> HIDE DEF t
  <1> QED BY <1>1, <1>2, TypeParts, SenderStep DEF Dispatch

LEMMA PostSendType ==
    ASSUME TypeOK, NEW e \in End, PostSend(e)
    PROVE  TypeOK'
  <1> DEFINE s == snd[e]
             kept == IF opened[e] /\ IsVIM(s.msgs[s.prepared])
                     THEN s.revisited \cup {s.prepared} ELSE s.revisited
             t == [s EXCEPT !.prepared = 0, !.revisited = kept]
  <1>1. SndOK(s) /\ s.prepared # 0
    BY TypeParts DEF PostSend
  <1>2. snd' = [snd EXCEPT ![e] = t]
    BY TypeParts DEF PostSend
  <1> HIDE DEF s
  <1>3. kept \subseteq Nat /\ kept \subseteq s.revisited \cup {s.prepared}
    BY <1>1 DEF SndOK, Snd
  <1> HIDE DEF kept
  <1>4. t \in Snd /\ t.msgs = s.msgs /\ Held(t) \subseteq Held(s)
    BY <1>1, <1>3 DEF SndOK, Snd, Held
  <1> HIDE DEF t
  <1>5. Keeps(s, t) /\ Len(s.msgs) \in Nat
    BY <1>1, <1>4, SndFields DEF Keeps
  <1>6. SndOK(t)
    BY <1>1, <1>4, <1>5, SndStep
  <1>7. SndOK(t) /\ Keeps(snd[e], t)
    BY <1>5, <1>6 DEF s
  <1> QED BY <1>2, <1>7, TypeParts, SenderStep DEF PostSend

LEMMA TimeoutType ==
    ASSUME TypeOK, NEW e \in End, NEW i \in snd[e].revisited, Timeout(e, i)
    PROVE  TypeOK'
  <1> DEFINE s == snd[e]
             q == PutResend(s.urgentQ, i)
             t == [s EXCEPT !.urgentQ = q, !.revisited = @ \ {i}]
  <1>1. SndOK(s) /\ s.urgentQ \in Seq(Nat) /\ i \in Nat /\ i \in s.revisited
    BY TypeParts, SndFields DEF SndOK, Snd
  <1>2. snd' = [snd EXCEPT ![e] = t]
    BY TypeParts DEF Timeout
  <1>3. q \in Seq(Nat) /\ Range(q) = Range(s.urgentQ) \cup {i}
    BY <1>1, PutResendRange
  <1> HIDE DEF s, q
  <1>4. t \in Snd /\ t.msgs = s.msgs /\ Held(t) \subseteq Held(s)
    BY <1>1, <1>3 DEF SndOK, Snd, Held
  <1> HIDE DEF t
  <1>5. Keeps(s, t) /\ Len(s.msgs) \in Nat
    BY <1>1, <1>4, SndFields DEF Keeps
  <1>6. SndOK(t)
    BY <1>1, <1>4, <1>5, SndStep
  <1>7. SndOK(t) /\ Keeps(snd[e], t)
    BY <1>5, <1>6 DEF s
  <1>8. spent' \in Budget
    <2>1. spent \in Budget
      BY TypeParts
    <2>2. CASE Lost(e, i)
      <3>1. spent' = [spent EXCEPT !.early = @]
        BY <2>2 DEF Timeout
      <3> QED BY <2>1, <3>1 DEF Budget
    <2>3. CASE ~Lost(e, i)
      <3>1. /\ spent' = [spent EXCEPT !.early = @ + 1]
            /\ spent.early < MaxEarly + spent.loss
        BY <2>3 DEF Timeout, Impatience
      <3>2. spent.early + 1 \in 0 .. MaxEarly + MaxLoss
        BY <2>1, <3>1, ParameterTypes DEF Budget
      <3> QED BY <2>1, <3>1, <3>2 DEF Budget
    <2> QED BY <2>2, <2>3
  <1> QED BY <1>2, <1>7, <1>8, TypeParts, SenderStep DEF Timeout

\* Charging what BeatDue allows stays within the budgets.
LEMMA ChargeType ==
    ASSUME TypeOK, NEW e \in End, NEW ping \in BOOLEAN, BeatDue(e, ping)
    PROVE  Charge(spent, e, ping) \in Budget
  <1>1. spent \in Budget
    BY TypeParts
  <1> DEFINE idle == IF News(e) THEN spent.idle ELSE spent.idle + 1
             pings == IF ping THEN spent.ping + 1 ELSE spent.ping
  <1>2. idle \in 0 .. MaxIdle
    <2>1. News(e) \/ spent.idle < MaxIdle
      BY DEF BeatDue
    <2>2. spent.idle \in 0 .. MaxIdle
      BY <1>1 DEF Budget
    <2> QED BY <2>1, <2>2, ParameterTypes
  <1>3. pings \in 0 .. MaxPing
    <2>1. ping => spent.ping < MaxPing
      BY DEF BeatDue
    <2>2. spent.ping \in 0 .. MaxPing
      BY <1>1 DEF Budget
    <2> QED BY <2>1, <2>2, ParameterTypes
  <1>4. Charge(spent, e, ping) = [spent EXCEPT !.idle = idle, !.ping = pings]
    BY DEF Charge
  <1> HIDE DEF idle, pings
  <1> QED BY <1>1, <1>2, <1>3, <1>4 DEF Budget

LEMMA CheckConnectivityType ==
    ASSUME TypeOK, NEW e \in End, NEW ping \in BOOLEAN, CheckConnectivity(e, ping)
    PROVE  TypeOK'
  <1> DEFINE t == Beat(snd[e], ping)
  <1>1. SndOK(t) /\ Keeps(snd[e], t)
    BY TypeParts, BeatOK
  <1>2. snd' = [snd EXCEPT ![e] = t]
    BY DEF CheckConnectivity
  <1> HIDE DEF t
  <1>3. spent' \in Budget
    BY ChargeType DEF CheckConnectivity
  <1> QED BY <1>1, <1>2, <1>3, TypeParts, SenderStep DEF CheckConnectivity

LEMMA ExpireType ==
    ASSUME TypeOK, NEW e \in End, Expire(e)
    PROVE  TypeOK'
  <1> DEFINE s == snd[e]
             id == Head(s.commonQ)
             m == [s.msgs[id] EXCEPT !.status = "cancelled"]
             u == [s EXCEPT !.msgs[id] = m]
             t == [u EXCEPT !.commonQ = Tail(s.commonQ)]
  <1>1. SndOK(s) /\ s.commonQ # <<>> /\ s.commonQ \in Seq(Nat)
    BY TypeParts, SndFields DEF Expire
  <1>2. snd' = [snd EXCEPT ![e] = t]
    BY TypeParts DEF Expire, Snd
  <1> HIDE DEF s
  <1>3. id \in Held(s) /\ s.msgs[id] \in Msg
    BY <1>1, HeadHeld, SndHeld, SndFields
  <1>4. /\ m \in Msg /\ m.class = s.msgs[id].class /\ m.pred = s.msgs[id].pred
        /\ m.serial = s.msgs[id].serial
    BY <1>3 DEF Msg
  <1> HIDE DEF m
  <1>5. SndOK(u) /\ Keeps(s, u)
    BY <1>1, <1>3, <1>4, MsgTouched
  <1>6. Tail(s.commonQ) \in Seq(Nat) /\ Range(Tail(s.commonQ)) \subseteq Range(u.commonQ)
    BY <1>1, RangeOfTail DEF SndOK, Snd
  <1> HIDE DEF u
  <1>7. t \in Snd /\ t.msgs = u.msgs /\ Held(t) \subseteq Held(u)
    BY <1>5, <1>6 DEF SndOK, Snd, Held
  <1> HIDE DEF t
  <1>8. Len(s.msgs) \in Nat /\ Len(u.msgs) \in Nat
    BY <1>1, <1>5, SndFields
  <1>9. Keeps(u, t) /\ Keeps(s, t)
    BY <1>5, <1>7, <1>8 DEF Keeps
  <1>10. SndOK(t)
    BY <1>5, <1>7, <1>8, <1>9, SndStep
  <1>11. SndOK(t) /\ Keeps(snd[e], t)
    BY <1>9, <1>10 DEF s
  <1> QED BY <1>2, <1>11, TypeParts, SenderStep DEF Expire

\* A step in which end e receives, hands over or loses something.
LEMMA ListenerStep ==
    ASSUME TypeOK, NEW e \in End,
           NEW s, SndOK(s), Keeps(snd[e], s), snd' = [snd EXCEPT ![e] = s],
           NEW r, RcvOK(r), rcv' = [rcv EXCEPT ![e] = r],
           NEW n \in SUBSET net[e], net' = [net EXCEPT ![e] = n],
           NEW q \in Seq(Nat), delivered' = [delivered EXCEPT ![e] = q],
           Range(q) \subseteq Known(e),
           \A in \in Waiting(r) : in.id \in Known(e),
           opened' = opened, spent' \in Budget
    PROVE  TypeOK'
  <1>1. snd' \in [End -> Snd] /\ \A d \in End : SndOK(snd'[d]) /\ Keeps(snd[d], snd'[d])
    BY TypeParts, KeepsRefl DEF SndOK
  <1>2. rcv' \in [End -> Rcv] /\ \A d \in End : RcvOK(rcv'[d])
    BY TypeParts DEF RcvOK
  <1>3. /\ net' \in [End -> SUBSET Packet] /\ delivered' \in [End -> Seq(Nat)]
        /\ opened' \in [End -> BOOLEAN]
    BY TypeParts
  <1>4. \A d \in End : Known(d)' \subseteq Known(d)
    <2> TAKE d \in End
    <2>1. Known(d)' = Range(delivered'[d]) \cup {in.id : in \in Waiting(rcv'[d])}
                         \cup {p.id : p \in net'[d]}
      BY DEF Known, Arrived
    <2>2. CASE d = e
      <3>1. delivered'[d] = q /\ rcv'[d] = r /\ net'[d] = n
        BY <2>2, TypeParts
      <3> QED BY <2>1, <2>2, <3>1 DEF Known
    <2>3. CASE d # e
      <3>1. delivered'[d] = delivered[d] /\ rcv'[d] = rcv[d] /\ net'[d] = net[d]
        BY <2>3, TypeParts
      <3> QED BY <2>1, <3>1 DEF Known, Arrived
    <2> QED BY <2>2, <2>3
  <1> QED BY <1>1, <1>2, <1>3, <1>4, TypeStep

LEMMA ArriveType ==
    ASSUME TypeOK, NEW e \in End, NEW p \in net[e], Arrive(e, p)
    PROVE  spent' \in Budget
           /\ \E n \in SUBSET net[e] : net' = [net EXCEPT ![e] = n]
  <1>1. spent \in Budget /\ net = [net EXCEPT ![e] = net[e]]
    BY TypeParts
  <1>2. CASE net' = [net EXCEPT ![e] = @ \ {p}] /\ UNCHANGED spent
    BY <1>1, <1>2
  <1>3. CASE /\ spent.repeat < MaxRepeat
             /\ spent' = [spent EXCEPT !.repeat = @ + 1]
             /\ UNCHANGED net
    <2>1. spent.repeat + 1 \in 0 .. MaxRepeat
      BY <1>1, <1>3, ParameterTypes DEF Budget
    <2>2. spent' \in Budget
      BY <1>1, <1>3, <2>1 DEF Budget
    <2> QED BY <1>1, <1>3, <2>2
  <1> QED BY <1>2, <1>3 DEF Arrive

LEMMA KnownParts ==
    ASSUME TypeOK, NEW e \in End
    PROVE  /\ Range(delivered[e]) \subseteq Known(e)
           /\ \A in \in Waiting(rcv[e]) : in.id \in Known(e)
           /\ \A p \in net[e] : p.id \in Known(e) /\ p \in Packet
           /\ delivered[e] \in Seq(Nat)
           /\ delivered = [delivered EXCEPT ![e] = delivered[e]]
           /\ snd = [snd EXCEPT ![e] = snd[e]]
           /\ net = [net EXCEPT ![e] = net[e]]
           /\ SndOK(snd[e]) /\ RcvOK(rcv[e]) /\ Keeps(snd[e], snd[e])
  BY TypeParts, KeepsRefl DEF Known, Arrived

LEMMA ReceiveResentType ==
    ASSUME TypeOK, NEW e \in End, NEW p \in net[e], ReceiveResent(e, p)
    PROVE  TypeOK'
  <1> DEFINE r == InputResent(rcv[e], p)
  <1>1. /\ RcvOK(r) /\ r.stack = rcv[e].stack /\ r.deferred = rcv[e].deferred
    BY KnownParts, InputResentOK
  <1>2. rcv' = [rcv EXCEPT ![e] = r]
    BY DEF ReceiveResent
  <1> HIDE DEF r
  <1>3. \A in \in Waiting(r) : in.id \in Known(e)
    BY <1>1, KnownParts DEF Waiting
  <1>4. spent' \in Budget
    BY ArriveType DEF ReceiveResent
  <1>5. PICK n \in SUBSET net[e] : net' = [net EXCEPT ![e] = n]
    BY ArriveType DEF ReceiveResent
  <1>6. opened' = opened /\ snd' = snd /\ delivered' = delivered
    BY DEF ReceiveResent
  <1> QED BY <1>1, <1>2, <1>3, <1>4, <1>5, <1>6, KnownParts, ListenerStep

LEMMA ReceiveFarType ==
    ASSUME TypeOK, NEW e \in End, NEW p \in net[e], ReceiveFar(e, p)
    PROVE  TypeOK'
  <1> DEFINE u == [rcv[e] EXCEPT !.rejected = TRUE]
             r == Admit(u, p)
             s == IF p.instant THEN ReplyTo(snd[e], p.serial) ELSE snd[e]
  <1>1. p \in Packet /\ p.serial \in 0 .. MaxSerial
    BY KnownParts, ParameterTypes DEF Packet, Serial
  <1>2. RcvOK(u) /\ u.stack = rcv[e].stack /\ u.deferred = rcv[e].deferred
    BY KnownParts DEF RcvOK, Rcv
  <1>3. rcv' = [rcv EXCEPT ![e] = r] /\ snd' = [snd EXCEPT ![e] = s]
    BY DEF ReceiveFar
  <1> HIDE DEF u
  <1>4. RcvOK(r) /\ Waiting(r) \subseteq Waiting(rcv[e]) \cup {Record(p)}
    <2>1. RcvOK(r) /\ Waiting(r) \subseteq Waiting(u) \cup {Record(p)}
      BY <1>1, <1>2, AdmitOK
    <2> QED BY <1>2, <2>1 DEF Waiting
  <1>5. SndOK(s) /\ Keeps(snd[e], s)
    BY <1>1, KnownParts, ReplyToOK
  <1> HIDE DEF r, s
  <1>6. \A in \in Waiting(r) : in.id \in Known(e)
    BY <1>1, <1>4, RecordType, KnownParts
  <1>7. spent' \in Budget
    BY ArriveType DEF ReceiveFar
  <1>8. PICK n \in SUBSET net[e] : net' = [net EXCEPT ![e] = n]
    BY ArriveType DEF ReceiveFar
  <1>9. opened' = opened /\ delivered' = delivered
    BY DEF ReceiveFar
  <1> QED BY <1>3, <1>4, <1>5, <1>6, <1>7, <1>8, <1>9, KnownParts, ListenerStep

LEMMA KeepsTrans ==
    ASSUME NEW s, NEW t, NEW u, SndOK(s), SndOK(t), SndOK(u),
           Keeps(s, t), Keeps(t, u)
    PROVE  Keeps(s, u)
  <1>1. Len(s.msgs) \in Nat /\ Len(t.msgs) \in Nat /\ Len(u.msgs) \in Nat
    BY SndFields
  <1> QED BY <1>1 DEF Keeps

LEMMA ReceiveNewType ==
    ASSUME TypeOK, NEW e \in End, NEW p \in net[e],
           NEW beat \in BOOLEAN, NEW ping \in BOOLEAN,
           ReceiveNew(e, p, beat, ping)
    PROVE  TypeOK'
  <1> DEFINE u == InputStatistics(rcv[e], p.serial)
             r == Admit(u, p)
             heard == AckIn(snd[e], p.acks)
             beaten == IF beat THEN Beat(heard, ping) ELSE heard
             s == IF p.instant THEN ReplyTo(beaten, p.serial) ELSE beaten
  <1>1. p \in Packet /\ p.serial \in 0 .. MaxSerial /\ p.serial \in Serial
        /\ p.acks \in SUBSET Serial
    BY KnownParts, ParameterTypes DEF Packet, Serial
  <1>2. rcv' = [rcv EXCEPT ![e] = r] /\ snd' = [snd EXCEPT ![e] = s]
    BY DEF ReceiveNew
  <1>3. RcvOK(u) /\ u.stack = rcv[e].stack /\ u.deferred = rcv[e].deferred
    BY <1>1, KnownParts, InputStatisticsOK
  <1> HIDE DEF u
  <1>4. RcvOK(r) /\ Waiting(r) \subseteq Waiting(rcv[e]) \cup {Record(p)}
    <2>1. RcvOK(r) /\ Waiting(r) \subseteq Waiting(u) \cup {Record(p)}
      BY <1>1, <1>3, AdmitOK
    <2> QED BY <1>3, <2>1 DEF Waiting
  <1>5. SndOK(s) /\ Keeps(snd[e], s)
    <2>1. SndOK(heard) /\ Keeps(snd[e], heard)
      BY <1>1, KnownParts, AckInOK
    <2> HIDE DEF heard
    <2>2. SndOK(beaten) /\ Keeps(heard, beaten)
      BY <2>1, BeatOK, KeepsRefl
    <2> HIDE DEF beaten
    <2>3. SndOK(s) /\ Keeps(beaten, s)
      BY <1>1, <2>2, ReplyToOK, KeepsRefl
    <2> HIDE DEF s
    <2>4. SndOK(snd[e])
      BY KnownParts
    <2>5. Keeps(snd[e], beaten)
      BY <2>1, <2>2, <2>4, KeepsTrans
    <2> QED BY <2>2, <2>3, <2>4, <2>5, KeepsTrans
  <1> HIDE DEF r, s
  <1>6. \A in \in Waiting(r) : in.id \in Known(e)
    BY <1>1, <1>4, RecordType, KnownParts
  <1>7. spent' \in Budget /\ \E n \in SUBSET net[e] : net' = [net EXCEPT ![e] = n]
    <2>1. CASE beat
      <3>1. BeatDue(e, ping) /\ spent' = Charge(spent, e, ping)
            /\ net' = [net EXCEPT ![e] = @ \ {p}]
        BY <2>1 DEF ReceiveNew
      <3> QED BY <3>1, ChargeType
    <2>2. CASE ~beat
      <3>1. Arrive(e, p)
        BY <2>2 DEF ReceiveNew
      <3> QED BY <3>1, ArriveType
    <2> QED BY <2>1, <2>2
  <1>8. PICK n \in SUBSET net[e] : net' = [net EXCEPT ![e] = n]
    BY <1>7
  <1>9. opened' = opened /\ delivered' = delivered
    BY DEF ReceiveNew
  <1> QED BY <1>2, <1>4, <1>5, <1>6, <1>7, <1>8, <1>9, KnownParts, ListenerStep

LEMMA ProcessVIMType ==
    ASSUME TypeOK, NEW e \in End, ProcessVIM(e)
    PROVE  TypeOK'
  <1> DEFINE r == IF Head(rcv[e].stack).serial >= rcv[e].maskMin /\ opened[e]
                  THEN [rcv[e] EXCEPT !.handing = TRUE]
                  ELSE Processed(rcv[e])
  <1>1. rcv' = [rcv EXCEPT ![e] = r] /\ rcv[e].stack # <<>>
    BY DEF ProcessVIM
  <1>2. RcvOK(r) /\ Waiting(r) \subseteq Waiting(rcv[e])
    <2>1. CASE Head(rcv[e].stack).serial >= rcv[e].maskMin /\ opened[e]
      <3>1. r = [rcv[e] EXCEPT !.handing = TRUE]
        BY <2>1
      <3>2. RcvOK(r) /\ r.stack = rcv[e].stack /\ r.deferred = rcv[e].deferred
        BY <1>1, <3>1, KnownParts DEF RcvOK, Rcv
      <3> QED BY <3>2 DEF Waiting
    <2>2. CASE ~(Head(rcv[e].stack).serial >= rcv[e].maskMin /\ opened[e])
      <3>1. r = Processed(rcv[e])
        BY <2>2
      <3> HIDE DEF r
      <3> QED BY <1>1, <3>1, KnownParts, ProcessedOK
    <2> QED BY <2>1, <2>2
  <1> HIDE DEF r
  <1>3. \A in \in Waiting(r) : in.id \in Known(e)
    BY <1>2, KnownParts
  <1>4. spent' \in Budget /\ net[e] \in SUBSET net[e]
    BY TypeParts DEF ProcessVIM
  <1>5. opened' = opened /\ snd' = snd /\ delivered' = delivered /\ net' = net
    BY DEF ProcessVIM
  <1> QED BY <1>1, <1>2, <1>3, <1>4, <1>5, KnownParts, ListenerStep

LEMMA HandOverType ==
    ASSUME TypeOK, NEW e \in End, HandOver(e)
    PROVE  TypeOK'
  <1> DEFINE r == Processed(rcv[e])
             id == Head(rcv[e].stack).id
             q == Append(delivered[e], id)
  <1>1. rcv[e].stack # <<>>
    BY KnownParts DEF HandOver, RcvOK
  <1>2. /\ RcvOK(r) /\ Waiting(r) \subseteq Waiting(rcv[e])
        /\ Head(rcv[e].stack) \in In /\ Head(rcv[e].stack) \in Waiting(rcv[e])
    BY <1>1, KnownParts, ProcessedOK
  <1>3. /\ rcv' = [rcv EXCEPT ![e] = r]
        /\ delivered' = [delivered EXCEPT ![e] = q]
    BY DEF HandOver
  <1>4. id \in Nat /\ id \in Known(e)
    BY <1>2, KnownParts DEF In
  <1> HIDE DEF r, id
  <1>5. q \in Seq(Nat) /\ Range(q) \subseteq Known(e)
    <2>1. delivered[e] \in Seq(Nat) /\ Range(delivered[e]) \subseteq Known(e)
      BY KnownParts
    <2> QED BY <1>4, <2>1, RangeOfAppend
  <1> HIDE DEF q
  <1>6. \A in \in Waiting(r) : in.id \in Known(e)
    BY <1>2, KnownParts
  <1>7. spent' \in Budget /\ net[e] \in SUBSET net[e]
    BY TypeParts DEF HandOver
  <1>8. opened' = opened /\ snd' = snd /\ net' = net
    BY DEF HandOver
  <1> QED BY <1>2, <1>3, <1>5, <1>6, <1>7, <1>8, KnownParts, ListenerStep

LEMMA LoseType ==
    ASSUME TypeOK, NEW e \in End, NEW p \in net[e], Lose(e, p)
    PROVE  TypeOK'
  <1> DEFINE n == net[e] \ {p}
  <1>1. net' = [net EXCEPT ![e] = n] /\ n \in SUBSET net[e]
    BY DEF Lose
  <1>2. spent' \in Budget
    <2>1. spent \in Budget
      BY TypeParts
    <2>2. spent.loss + 1 \in 0 .. MaxLoss
      BY <2>1, ParameterTypes DEF Lose, Budget
    <2> QED BY <2>1, <2>2 DEF Lose, Budget
  <1>3. opened' = opened /\ snd' = snd /\ delivered' = delivered /\ rcv' = rcv
        /\ rcv = [rcv EXCEPT ![e] = rcv[e]]
    BY TypeParts DEF Lose
  <1> HIDE DEF n
  <1> QED BY <1>1, <1>2, <1>3, KnownParts, ListenerStep

LEMMA SendType ==
    ASSUME TypeOK, NEW e \in End, Send(e)
    PROVE  TypeOK'
  <1> DEFINE s == snd[e]
             id == Head(NextQueue(s))
             m == Numbered(s, id)
             t == AfterSend(s)
             r == AckOut(rcv[e], m)
             p == Compose(e, id)
             n == net[Peer(e)] \cup {p}
  <1>1. /\ SndOK(s) /\ RcvOK(rcv[e]) /\ NextQueue(s) # <<>>
        /\ m.serial <= MaxSerial
    BY KnownParts DEF Send
  <1>2. /\ snd' = [snd EXCEPT ![e] = t] /\ rcv' = [rcv EXCEPT ![e] = r]
        /\ net' = [net EXCEPT ![Peer(e)] = n]
        /\ opened' = opened /\ delivered' = delivered /\ spent' = spent
    BY DEF Send, AfterSend
  <1>3. SndOK(t) /\ Keeps(s, t)
    BY <1>1, SentOK
  <1>4. id \in 1 .. Len(s.msgs)
    BY <1>1, UnqueueOK
  <1>5. m \in Msg /\ m.serial \in Serial
    BY <1>1, <1>4, NumberedOK
  <1>6. RcvOK(r) /\ Waiting(r) = Waiting(rcv[e])
    <2> HIDE DEF m
    <2>1. RcvOK(r) /\ r = [rcv[e] EXCEPT !.ack = r.ack, !.oldAck = r.oldAck]
      BY <1>1, <1>5, AckOutOK
    <2>2. r.stack = rcv[e].stack /\ r.deferred = rcv[e].deferred
      BY <1>1, <2>1 DEF RcvOK, Rcv
    <2> QED BY <2>2, <2>1 DEF Waiting
  <1>7. p \in Packet /\ p.id = id
    <2> DEFINE pred == IF Ordered(m) THEN s.msgs[m.pred].serial ELSE 0
               acks == rcv[e].ackMask \cap AckSpan(rcv[e], m)
    <2>1. p = [id |-> id, serial |-> m.serial, vim |-> IsVIM(m), pred |-> pred,
               instant |-> m.instant, acks |-> acks]
      BY DEF Compose
    <2>2. pred \in 0 .. MaxSerial
      <3>1. m.pred = s.msgs[id].pred
        BY <1>1, <1>4, NumberedOK
      <3>2. m.pred # 0 => m.pred \in DOMAIN s.msgs
        BY <1>1, <1>4, <3>1, SndFields
      <3>3. m.pred # 0 => s.msgs[m.pred] \in Msg
        BY <1>1, <3>2, SndFields
      <3> HIDE DEF m, s
      <3> QED BY <3>3, ParameterTypes DEF Msg, Ordered
    <2>3. acks \in SUBSET Serial
      BY KnownParts DEF RcvOK, Rcv
    <2>4. id \in Nat /\ IsVIM(m) \in BOOLEAN
      BY <1>1, <1>4, SndFields DEF IsVIM
    <2> HIDE DEF pred, acks, m, id
    <2> QED BY <1>5, <2>1, <2>2, <2>3, <2>4 DEF Packet, Msg
  <1>8. Peer(e) \in End /\ Peer(Peer(e)) = e /\ Peer(e) # e
    BY PeerType, PeerPeer
  <1>9. id \in DOMAIN t.msgs
    BY <1>1, <1>3, <1>4, SndFields DEF Keeps
  <1>10. snd' \in [End -> Snd] /\ \A d \in End : SndOK(snd'[d]) /\ Keeps(snd[d], snd'[d])
    <2> HIDE DEF t
    <2> QED BY <1>2, <1>3, TypeParts, KeepsRefl DEF SndOK
  <1>11. rcv' \in [End -> Rcv] /\ \A d \in End : RcvOK(rcv'[d])
    <2> HIDE DEF r
    <2> QED BY <1>2, <1>6, TypeParts DEF RcvOK
  <1> HIDE DEF p, t, r, m, id, s
  <1>12. n \in SUBSET Packet
    BY <1>7, <1>8, TypeParts
  <1>13. /\ net' \in [End -> SUBSET Packet] /\ delivered' \in [End -> Seq(Nat)]
         /\ opened' \in [End -> BOOLEAN] /\ spent' \in Budget
    BY <1>2, <1>8, <1>12, TypeParts
  <1>14. \A d \in End : Known(d)' \subseteq Known(d) \cup DOMAIN snd'[Peer(d)].msgs
    <2> TAKE d \in End
    <2>1. Known(d)' = Range(delivered'[d]) \cup {in.id : in \in Waiting(rcv'[d])}
                         \cup {x.id : x \in net'[d]}
      BY DEF Known, Arrived
    <2>2. Waiting(rcv'[d]) = Waiting(rcv[d])
      BY <1>2, <1>6, TypeParts
    <2>3. \A x \in net'[d] : x \in net[d] \/ (d = Peer(e) /\ x = p)
      BY <1>2, <1>8, TypeParts
    <2>4. d = Peer(e) => p.id \in DOMAIN snd'[Peer(d)].msgs
      BY <1>2, <1>7, <1>8, <1>9, TypeParts
    <2>5. \A x \in net'[d] : x.id \in Known(d) \cup DOMAIN snd'[Peer(d)].msgs
      BY <2>3, <2>4 DEF Known
    <2> QED BY <1>2, <2>1, <2>2, <2>5 DEF Known, Arrived
  <1> QED BY <1>10, <1>11, <1>13, <1>14, TypeStep

LEMMA CloseType ==
    ASSUME TypeOK, NEW e \in End, Close(e)
    PROVE  TypeOK'
  <1> DEFINE s == snd[e]
             queued == Range(s.urgentQ) \cup Range(s.vimQ) \cup Range(s.commonQ)
             q == [i \in DOMAIN s.msgs |->
                      IF i \in queued THEN [s.msgs[i] EXCEPT !.status = "cancelled"]
                                      ELSE s.msgs[i]]
             t == [s EXCEPT !.msgs = q, !.urgentQ = <<>>, !.vimQ = <<>>,
                            !.commonQ = <<>>, !.lastUrgent = 0, !.lastVIM = 0,
                            !.revisited = {}]
             d == [x \in Serial |-> <<>>]
             r == [rcv[e] EXCEPT !.deferred = d]
  <1>1. snd' = [snd EXCEPT ![e] = t] /\ rcv' = [rcv EXCEPT ![e] = r]
    BY TypeParts DEF Close
  <1>2. SndOK(s) /\ RcvOK(rcv[e])
    BY KnownParts
  <1>3. /\ Len(s.msgs) \in Nat /\ DOMAIN s.msgs = 1 .. Len(s.msgs)
        /\ \A i \in 1 .. Len(s.msgs) : s.msgs[i] \in Msg
    BY <1>2, SndFields
  <1>4. SndOK(t) /\ Keeps(s, t)
    <2> HIDE DEF s
    <2>1. \A i \in 1 .. Len(s.msgs) :
              /\ q[i] \in Msg /\ q[i].class = s.msgs[i].class
              /\ q[i].pred = s.msgs[i].pred /\ q[i].serial = s.msgs[i].serial
      BY <1>3 DEF Msg
    <2>2. q \in Seq(Msg) /\ Len(q) = Len(s.msgs)
      <3>1. q \in [1 .. Len(s.msgs) -> Msg]
        BY <1>3, <2>1
      <3> QED BY <1>3, <3>1, SeqDef
    <2> HIDE DEF q
    <2>3. <<>> \in Seq(Nat) /\ Range(<<>>) = {}
      BY EmptySeq DEF Range
    <2>4. t \in Snd /\ t.msgs = q /\ Held(t) \subseteq Held(s)
      <3>1. t \in Snd /\ t.msgs = q
        BY <1>2, <2>2, <2>3 DEF SndOK, Snd
      <3>2. /\ t.urgentQ = <<>> /\ t.vimQ = <<>> /\ t.commonQ = <<>>
            /\ t.lastUrgent = 0 /\ t.lastVIM = 0 /\ t.revisited = {}
            /\ t.prepared = s.prepared
        BY <1>2 DEF SndOK, Snd
      <3> QED BY <2>3, <3>1, <3>2 DEF Held
    <2> HIDE DEF t
    <2>5. Keeps(s, t)
      BY <1>3, <2>1, <2>2, <2>4 DEF Keeps
    <2> QED BY <1>2, <1>3, <2>2, <2>4, <2>5, SndStep
  <1>5. RcvOK(r) /\ Waiting(r) \subseteq Waiting(rcv[e])
    <2>1. <<>> \in Seq(In) /\ Range(<<>>) = {}
      BY EmptySeq DEF Range
    <2>2. RcvOK(r) /\ r.stack = rcv[e].stack /\ r.deferred = d
      BY <1>2, <2>1 DEF RcvOK, Rcv
    <2> HIDE DEF r
    <2> QED BY <2>1, <2>2, WaitingMember
  <1> HIDE DEF t, r
  <1>6. snd' \in [End -> Snd] /\ \A x \in End : SndOK(snd'[x]) /\ Keeps(snd[x], snd'[x])
    BY <1>1, <1>4, TypeParts, KeepsRefl DEF SndOK
  <1>7. rcv' \in [End -> Rcv] /\ \A x \in End : RcvOK(rcv'[x])
    BY <1>1, <1>5, TypeParts DEF RcvOK
  <1>8. /\ net' \in [End -> SUBSET Packet] /\ delivered' \in [End -> Seq(Nat)]
        /\ opened' \in [End -> BOOLEAN] /\ spent' \in Budget
        /\ net' = net /\ delivered' = delivered
    BY TypeParts DEF Close
  <1>9. \A x \in End : Known(x)' \subseteq Known(x)
    <2> TAKE x \in End
    <2>1. Waiting(rcv'[x]) \subseteq Waiting(rcv[x])
      BY <1>1, <1>5, TypeParts
    <2> QED BY <1>8, <2>1 DEF Known, Arrived
  <1> QED BY <1>6, <1>7, <1>8, <1>9, TypeStep

LEMMA InitType == Init => TypeOK
  <1> SUFFICES ASSUME Init PROVE TypeOK
    OBVIOUS
  <1>1. /\ <<>> \in Seq(Nat) /\ <<>> \in Seq(Msg) /\ <<>> \in Seq(In)
        /\ <<>> \in Seq(Serial) /\ Range(<<>>) = {} /\ Len(<<>>) = 0
    BY EmptySeq DEF Range
  <1>2. \A e \in End : SndOK(snd[e])
    BY <1>1, ParameterTypes DEF Init, SndOK, Snd, References
  <1>3. \A e \in End : RcvOK(rcv[e])
    BY <1>1, ParameterTypes DEF Init, RcvOK, Rcv
  <1>4. \A e \in End : Known(e) = {}
    BY <1>1 DEF Init, Known, Arrived, Waiting
  <1>5. /\ opened \in [End -> BOOLEAN] /\ net \in [End -> SUBSET Packet]
        /\ delivered \in [End -> Seq(Nat)] /\ spent \in Budget
    BY <1>1, ParameterTypes DEF Init, Budget
  <1>6. snd \in [End -> Snd] /\ rcv \in [End -> Rcv]
    BY <1>2, <1>3 DEF Init, SndOK, RcvOK
  <1> QED BY <1>2, <1>3, <1>4, <1>5, <1>6, TypeParts

LEMMA NextType ==
    ASSUME TypeOK, [Next]_vars
    PROVE  TypeOK'
  <1>1. CASE UNCHANGED vars
    <2>1. \A e \in End : Known(e)' = Known(e)
      BY <1>1 DEF vars, Known, Arrived
    <2>2. /\ opened' = opened /\ snd' = snd /\ rcv' = rcv /\ net' = net
          /\ delivered' = delivered /\ spent' = spent
      BY <1>1 DEF vars
    <2> QED BY <2>1, <2>2, TypeParts, TypeStep, KeepsRefl
  <1>2. ASSUME NEW e \in End, User(e) PROVE TypeOK'
    BY <1>2, DispatchType, CloseType DEF User
  <1>3. ASSUME NEW e \in End, Sender(e) PROVE TypeOK'
    BY <1>3, SendType, PostSendType, ExpireType, TimeoutType,
       CheckConnectivityType DEF Sender
  <1>4. ASSUME NEW e \in End, Listener(e) PROVE TypeOK'
    BY <1>4, ReceiveResentType, ReceiveFarType, ReceiveNewType, LoseType,
       ProcessVIMType, HandOverType DEF Listener, Receive
  <1> QED BY <1>1, <1>2, <1>3, <1>4 DEF Next

\* Every piece of state keeps its shape and every reference its target, and the
\* ring of old acknowledgements never fills up, for every value of the
\* parameters and the workload.
THEOREM TypeCorrect == Spec => []TypeOK
  <1>1. Init => TypeOK
    BY InitType
  <1>2. TypeOK /\ [Next]_vars => TypeOK'
    BY NextType
  <1> QED BY <1>1, <1>2, PTL DEF Spec

=============================================================================
