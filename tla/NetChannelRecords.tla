-------------------------- MODULE NetChannelRecords --------------------------
(***************************************************************************)
(* What the ends of NetChannel record, for every value of the parameters.  *)
(* Three invariants, each resting on those before it and on OrderInv:      *)
(* OutInv, the output side knows where each guaranteed message is; InInv,  *)
(* the input side knows what it received and what it processed; PairInv,   *)
(* what an input side recorded agrees with what the output side at the     *)
(* other end did.                                                          *)
(***************************************************************************)
EXTENDS NetChannelStreams, FiniteSetTheorems

-----------------------------------------------------------------------------
(***************************************************************************)
(* The output side: its inductive invariant.                               *)
(***************************************************************************)
Distinct(q) == \A j, k \in 1 .. Len(q) : q[j] = q[k] => j = k

\* No message is in two places of an output side, or twice in one.
Apart(s) ==
    /\ Distinct(s.urgentQ) /\ Distinct(s.vimQ) /\ Distinct(s.commonQ)
    /\ \A i \in Range(s.urgentQ) :
          /\ i \notin Range(s.vimQ) /\ i \notin Range(s.commonQ)
          /\ i \notin s.revisited /\ i # s.prepared
    /\ \A i \in Range(s.vimQ) :
          i \notin Range(s.commonQ) /\ i \notin s.revisited /\ i # s.prepared
    /\ \A i \in Range(s.commonQ) : i \notin s.revisited /\ i # s.prepared
    /\ s.prepared \notin s.revisited

\* Every guaranteed message is in one.
Somewhere(s) ==
    \A i \in 1 .. Len(s.msgs) : s.msgs[i].class \in Stream =>
        \/ i \in Range(s.urgentQ) \/ i \in Range(s.vimQ)
        \/ i \in s.revisited \/ i = s.prepared

\* The messages of a stream are numbered in the order of the stream.
StreamsNumbered(s) ==
    \A i, j \in 1 .. Len(s.msgs) :
        /\ i < j /\ s.msgs[i].class \in Stream
        /\ s.msgs[i].class = s.msgs[j].class /\ s.msgs[j].serial # 0
        => s.msgs[i].serial # 0 /\ s.msgs[i].serial < s.msgs[j].serial

OutInv(s, open) ==
    /\ \A i \in 1 .. Len(s.msgs) : s.msgs[i].pred = 0 \/ s.msgs[i].reply = 0
    /\ \A i \in Range(s.commonQ) : s.msgs[i].class = "common"
    /\ Apart(s)
    /\ open => Somewhere(s)
-----------------------------------------------------------------------------
(***************************************************************************)
(* Queues without repetitions.                                             *)
(***************************************************************************)
LEMMA DistinctAppend ==
    ASSUME NEW q \in Seq(Nat), Distinct(q), NEW x \in Nat, x \notin Range(q)
    PROVE  Distinct(Append(q, x))
  <1> DEFINE u == Append(q, x)
  <1>1. /\ Len(q) \in Nat /\ Len(u) = Len(q) + 1 /\ u[Len(q) + 1] = x
        /\ \A k \in 1 .. Len(q) : u[k] = q[k]
    BY AppendProperties, LenProperties
  <1>2. \A k \in 1 .. Len(q) : q[k] \in Range(q)
    BY RangeOfMember
  <1> HIDE DEF u
  <1>3. \A k \in 1 .. Len(u) : k = Len(u) \/ k \in 1 .. Len(q)
    BY <1>1
  <1>4. Distinct(u)
    BY <1>1, <1>2, <1>3 DEF Distinct
  <1> QED BY <1>4 DEF u

LEMMA DistinctTail ==
    ASSUME NEW q \in Seq(Nat), Distinct(q), q # <<>>
    PROVE  Distinct(Tail(q)) /\ Head(q) \notin Range(Tail(q))
  <1> DEFINE u == Tail(q)
  <1>1. /\ u \in Seq(Nat) /\ Len(u) = Len(q) - 1 /\ Head(q) = q[1]
        /\ \A k \in 1 .. Len(q) - 1 : u[k] = q[k + 1]
    BY HeadTailProperties
  <1>2. Len(q) \in Nat \ {0}
    BY EmptySeq, LenProperties
  <1>3. Range(u) = {u[k] : k \in 1 .. Len(u)}
    BY <1>1, RangeEquality
  <1> HIDE DEF u
  <1>4. \A k \in 1 .. Len(u) : k + 1 \in 1 .. Len(q) /\ u[k] = q[k + 1]
    BY <1>1, <1>2
  <1>5. Distinct(u)
    <2> SUFFICES ASSUME NEW j \in 1 .. Len(u), NEW k \in 1 .. Len(u), u[j] = u[k]
                 PROVE  j = k
      BY DEF Distinct
    <2>1. j + 1 = k + 1
      BY <1>4 DEF Distinct
    <2> QED BY <2>1
  <1>6. Head(q) \notin Range(u)
    <2> SUFFICES ASSUME NEW k \in 1 .. Len(u), u[k] = q[1]
                 PROVE  FALSE
      BY <1>1, <1>3
    <2>1. k + 1 = 1
      BY <1>2, <1>4 DEF Distinct
    <2> QED BY <2>1
  <1> QED BY <1>5, <1>6 DEF u

LEMMA DistinctPutResend ==
    ASSUME NEW q \in Seq(Nat), Distinct(q), NEW x \in Nat, x \notin Range(q)
    PROVE  Distinct(PutResend(q, x))
  <1> DEFINE Younger == {k \in 1 .. Len(q) : q[k] > x}
             i == IF Younger # {} THEN Min(Younger) ELSE 0
  <1>1. Len(q) \in Nat /\ \A k \in 1 .. Len(q) : q[k] \in Range(q)
    BY RangeOfMember
  <1>2. i \in 0 .. Len(q)
    BY <1>1, MinOfPositions
  <1>3. PutResend(q, x) = IF i = 0 THEN Append(q, x) ELSE InsertAt(q, i, x)
    BY DEF PutResend, SelectInSeq
  <1> HIDE DEF i
  <1>4. CASE i = 0
    BY <1>3, <1>4, DistinctAppend
  <1>5. CASE i # 0
    <2> DEFINE u == InsertAt(q, i, x)
    <2>1. i \in 1 .. Len(q) /\ PutResend(q, x) = u
      BY <1>1, <1>2, <1>3, <1>5
    <2>2. /\ Len(u) = Len(q) + 1
          /\ \A k \in 1 .. Len(q) + 1 :
                u[k] = IF k < i THEN q[k] ELSE IF k = i THEN x ELSE q[k - 1]
      BY <2>1, InsertAtPositions
    <2> HIDE DEF u
    <2> DEFINE Old(k) == IF k < i THEN k ELSE k - 1
    <2>3. \A k \in 1 .. Len(u) : k # i => /\ Old(k) \in 1 .. Len(q)
                                          /\ u[k] = q[Old(k)]
      BY <1>1, <2>1, <2>2
    <2>4. \A j, k \in 1 .. Len(u) : j # i /\ k # i /\ Old(j) = Old(k) => j = k
      BY <1>1, <2>1, <2>2
    <2>5. u[i] = x
      BY <1>1, <2>1, <2>2
    <2> HIDE DEF Old
    <2>6. \A k \in 1 .. Len(u) : k # i => u[k] # x
      BY <1>1, <2>3
    <2>7. Distinct(u)
      BY <2>3, <2>4, <2>5, <2>6 DEF Distinct
    <2> QED BY <2>1, <2>7
  <1> QED BY <1>4, <1>5

\* An empty queue.
LEMMA EmptyQueue == Distinct(<<>>) /\ Range(<<>>) = {}
  BY DEF Distinct, Range

-----------------------------------------------------------------------------
(***************************************************************************)
(* Steps of the output side.                                               *)
(***************************************************************************)
\* Nothing moves, and no message gets a second use of its control word.
LEMMA OutKept ==
    ASSUME NEW s, NEW t, NEW open, OutInv(s, open), SndOK(s),
           Len(t.msgs) = Len(s.msgs),
           \A i \in 1 .. Len(s.msgs) :
               /\ t.msgs[i].class = s.msgs[i].class
               /\ t.msgs[i].pred = 0 \/ t.msgs[i].reply = 0,
           t.urgentQ = s.urgentQ, t.vimQ = s.vimQ, t.commonQ = s.commonQ,
           t.revisited = s.revisited, t.prepared = s.prepared
    PROVE  OutInv(t, open)
  <1>1. Range(s.commonQ) \subseteq 1 .. Len(s.msgs)
    BY QueueMembers
  <1>2. \A i \in Range(t.commonQ) : t.msgs[i].class = "common"
    BY <1>1 DEF OutInv
  <1>3. Apart(t)
    BY DEF OutInv, Apart
  <1>4. open => Somewhere(t)
    BY DEF OutInv, Somewhere
  <1> QED BY <1>2, <1>3, <1>4 DEF OutInv

\* A message changed in place.
LEMMA OutTouched ==
    ASSUME NEW s, SndOK(s), NEW open, OutInv(s, open),
           NEW i \in Held(s), NEW m \in Msg, m.class = s.msgs[i].class,
           m.pred = 0 \/ m.reply = 0
    PROVE  LET t == [s EXCEPT !.msgs[i] = m]
           IN /\ OutInv(t, open) /\ t.serial = s.serial
              /\ t.urgentQ = s.urgentQ /\ t.vimQ = s.vimQ
              /\ t.commonQ = s.commonQ /\ t.revisited = s.revisited
              /\ t.prepared = s.prepared
              /\ Len(t.msgs) = Len(s.msgs)
              /\ \A j \in 1 .. Len(s.msgs) :
                    t.msgs[j] = IF j = i THEN m ELSE s.msgs[j]
  <1> DEFINE t == [s EXCEPT !.msgs[i] = m]
  <1>1. i \in 1 .. Len(s.msgs)
    BY SndHeld, SndFields
  <1>2. /\ t.msgs = [s.msgs EXCEPT ![i] = m] /\ t.serial = s.serial
        /\ t.urgentQ = s.urgentQ /\ t.vimQ = s.vimQ
        /\ t.commonQ = s.commonQ /\ t.revisited = s.revisited
        /\ t.prepared = s.prepared
    BY DEF SndOK, Snd
  <1> HIDE DEF t
  <1>3. /\ Len(t.msgs) = Len(s.msgs)
        /\ \A j \in 1 .. Len(s.msgs) :
              t.msgs[j] = IF j = i THEN m ELSE s.msgs[j]
    BY <1>1, <1>2, MsgReplaced
  <1>4. \A j \in 1 .. Len(s.msgs) :
            /\ t.msgs[j].class = s.msgs[j].class
            /\ t.msgs[j].pred = 0 \/ t.msgs[j].reply = 0
    BY <1>3 DEF OutInv
  <1>5. OutInv(t, open)
    BY <1>2, <1>3, <1>4, OutKept
  <1> QED BY <1>2, <1>3, <1>5 DEF t

\* A new message goes to the end of msgs and of one queue.
LEMMA OutGrows ==
    ASSUME NEW s, SndOK(s), NEW open, OutInv(s, open), NEW t,
           NEW m \in Msg, m.pred = 0 \/ m.reply = 0,
           t.msgs = Append(s.msgs, m), t.revisited = s.revisited,
           t.prepared = s.prepared, NEW id, id = Len(s.msgs) + 1,
           \/ /\ t.urgentQ = Append(s.urgentQ, id) /\ t.vimQ = s.vimQ
              /\ t.commonQ = s.commonQ
           \/ /\ t.urgentQ = s.urgentQ /\ t.vimQ = Append(s.vimQ, id)
              /\ t.commonQ = s.commonQ
           \/ /\ t.urgentQ = s.urgentQ /\ t.vimQ = s.vimQ
              /\ t.commonQ = Append(s.commonQ, id) /\ m.class = "common"
    PROVE  OutInv(t, open)
  <1>1. /\ Len(s.msgs) \in Nat /\ id \in Nat /\ id \notin 1 .. Len(s.msgs)
        /\ id # 0 /\ Len(t.msgs) = id /\ t.msgs[id] = m
        /\ \A i \in 1 .. Len(s.msgs) : t.msgs[i] = s.msgs[i]
        /\ \A i \in 1 .. id : i = id \/ i \in 1 .. Len(s.msgs)
    BY SndFields, AppendMsg
  <1>2. /\ s.urgentQ \in Seq(Nat) /\ s.vimQ \in Seq(Nat) /\ s.commonQ \in Seq(Nat)
        /\ Range(s.urgentQ) \subseteq 1 .. Len(s.msgs)
        /\ Range(s.vimQ) \subseteq 1 .. Len(s.msgs)
        /\ Range(s.commonQ) \subseteq 1 .. Len(s.msgs)
        /\ s.revisited \subseteq 1 .. Len(s.msgs)
        /\ s.prepared \in {0} \cup 1 .. Len(s.msgs)
    BY SndFields
  <1>3. \A q \in Seq(Nat) :
            /\ Range(Append(q, id)) = Range(q) \cup {id}
            /\ Distinct(q) /\ id \notin Range(q) => Distinct(Append(q, id))
    BY <1>1, RangeOfAppend, DistinctAppend
  <1>4. /\ Range(t.urgentQ) \in {Range(s.urgentQ), Range(s.urgentQ) \cup {id}}
        /\ Range(t.vimQ) \in {Range(s.vimQ), Range(s.vimQ) \cup {id}}
        /\ Range(t.commonQ) \in {Range(s.commonQ), Range(s.commonQ) \cup {id}}
        /\ id \in Range(t.commonQ) => m.class = "common"
        /\ m.class # "common" => id \in Range(t.urgentQ) \/ id \in Range(t.vimQ)
    BY <1>1, <1>2, <1>3
  <1>5. \A i \in 1 .. Len(t.msgs) : t.msgs[i].pred = 0 \/ t.msgs[i].reply = 0
    BY <1>1 DEF OutInv
  <1>6. \A i \in Range(t.commonQ) : t.msgs[i].class = "common"
    BY <1>1, <1>2, <1>4 DEF OutInv
  <1>7. Apart(s) /\ id \notin Range(s.urgentQ) /\ id \notin Range(s.vimQ)
        /\ id \notin Range(s.commonQ) /\ id \notin s.revisited /\ id # s.prepared
    BY <1>1, <1>2 DEF OutInv
  <1>8. Distinct(t.urgentQ) /\ Distinct(t.vimQ) /\ Distinct(t.commonQ)
    BY <1>2, <1>3, <1>7 DEF Apart
  <1>9. Apart(t)
    BY <1>2, <1>3, <1>7, <1>8, ZenonT(30) DEF Apart
  <1>10. open => Somewhere(t)
    <2> SUFFICES ASSUME open, NEW i \in 1 .. Len(t.msgs),
                        t.msgs[i].class \in Stream
                 PROVE  \/ i \in Range(t.urgentQ) \/ i \in Range(t.vimQ)
                        \/ i \in t.revisited \/ i = t.prepared
      BY DEF Somewhere
    <2>1. CASE i = id
      BY <1>1, <1>4, <2>1 DEF Stream
    <2>2. CASE i \in 1 .. Len(s.msgs)
      BY <1>1, <1>4, <2>2 DEF OutInv, Somewhere
    <2> QED BY <1>1, <2>1, <2>2
  <1> QED BY <1>5, <1>6, <1>9, <1>10 DEF OutInv

\* What is left of a step when the places are left out: at most one serial is
\* given out, and no message becomes acknowledged.
Tidy(s, t) ==
    /\ t.serial <= s.serial + 1
    /\ \A i \in 1 .. Len(t.msgs) : t.msgs[i].status = "acked" =>
          i \in 1 .. Len(s.msgs) /\ s.msgs[i].status = "acked"

LEMMA TidyGrows ==
    ASSUME NEW s, SndOK(s), NEW t, NEW m \in Msg, m.status # "acked",
           t.msgs = Append(s.msgs, m), t.serial = s.serial
    PROVE  Tidy(s, t)
  <1>1. /\ Len(s.msgs) \in Nat /\ Len(t.msgs) = Len(s.msgs) + 1
        /\ t.msgs[Len(s.msgs) + 1] = m
        /\ \A i \in 1 .. Len(s.msgs) : t.msgs[i] = s.msgs[i]
    BY SndFields, AppendMsg
  <1>2. \A i \in 1 .. Len(t.msgs) : i = Len(s.msgs) + 1 \/ i \in 1 .. Len(s.msgs)
    BY <1>1
  <1>3. s.serial <= s.serial + 1
    BY SndFields, ParameterTypes
  <1> QED BY <1>1, <1>2, <1>3 DEF Tidy

LEMMA TidyRefl ==
    ASSUME NEW s, SndOK(s)
    PROVE  Tidy(s, s)
  <1>1. s.serial <= s.serial + 1
    BY SndFields, ParameterTypes
  <1> QED BY <1>1 DEF Tidy

LEMMA PutDummyOut ==
    ASSUME NEW s, SndOK(s), NEW open, OutInv(s, open),
           NEW instant \in BOOLEAN, NEW reply \in 0 .. MaxSerial
    PROVE  LET t == PutDummy(s, instant, reply)
           IN OutInv(t, open) /\ Tidy(s, t) /\ t.serial = s.serial
  <1> DEFINE m == [NewMsg("dummy", 0) EXCEPT !.instant = instant, !.reply = reply]
             t == PutDummy(s, instant, reply)
             id == Len(s.msgs) + 1
  <1>1. m \in Msg /\ m.pred = 0 /\ m.status # "acked"
    <2>1. /\ NewMsg("dummy", 0) \in Msg /\ NewMsg("dummy", 0).pred = 0
          /\ NewMsg("dummy", 0).status = "new"
      BY NewMsgType DEF NewMsg
    <2> QED BY <2>1 DEF Msg
  <1> HIDE DEF m
  <1>2. /\ t.msgs = Append(s.msgs, m) /\ t.serial = s.serial
        /\ t.urgentQ = Append(s.urgentQ, id)
        /\ t.vimQ = s.vimQ /\ t.commonQ = s.commonQ /\ t.prepared = s.prepared
        /\ t.revisited = s.revisited
    BY DEF SndOK, Snd, PutDummy, m
  <1> HIDE DEF t
  <1>3. OutInv(t, open)
    BY <1>1, <1>2, OutGrows
  <1>4. Tidy(s, t)
    BY <1>1, <1>2, TidyGrows
  <1> QED BY <1>2, <1>3, <1>4 DEF t

LEMMA PutMessageOut ==
    ASSUME NEW s, SndOK(s), NEW open, OutInv(s, open), NEW class \in Class
    PROVE  LET t == PutMessage(s, class)
           IN OutInv(t, open) /\ Tidy(s, t)
  <1> DEFINE pred == CASE class = "urgent" -> s.lastUrgent
                       [] class = "vim"    -> s.lastVIM
                       [] class = "common" -> 0
             m == NewMsg(class, pred)
             t == PutMessage(s, class)
             id == Len(s.msgs) + 1
  <1>1. class \in {"urgent", "vim", "common"}
    BY DEF Class, Stream
  <1>2. pred \in Nat
    BY <1>1, SndFields
  <1>3. m \in Msg /\ m.reply = 0 /\ m.class = class /\ m.status # "acked"
    BY <1>2, NewMsgType DEF NewMsg
  <1> HIDE DEF m
  <1>4. t.msgs = Append(s.msgs, m) /\ t.serial = s.serial
        /\ t.prepared = s.prepared /\ t.revisited = s.revisited
    BY <1>1 DEF PutMessage, m, SndOK, Snd
  <1>5. /\ class = "urgent" => /\ t.urgentQ = Append(s.urgentQ, id)
                               /\ t.vimQ = s.vimQ /\ t.commonQ = s.commonQ
        /\ class = "vim" => /\ t.vimQ = Append(s.vimQ, id)
                            /\ t.urgentQ = s.urgentQ /\ t.commonQ = s.commonQ
        /\ class = "common" => /\ t.commonQ = Append(s.commonQ, id)
                               /\ t.urgentQ = s.urgentQ /\ t.vimQ = s.vimQ
    BY DEF PutMessage, SndOK, Snd
  <1> HIDE DEF t, pred
  <1>6. PICK i : i = id
    OBVIOUS
  <1>7. \/ /\ t.urgentQ = Append(s.urgentQ, i) /\ t.vimQ = s.vimQ
           /\ t.commonQ = s.commonQ
        \/ /\ t.urgentQ = s.urgentQ /\ t.vimQ = Append(s.vimQ, i)
           /\ t.commonQ = s.commonQ
        \/ /\ t.urgentQ = s.urgentQ /\ t.vimQ = s.vimQ
           /\ t.commonQ = Append(s.commonQ, i) /\ m.class = "common"
    BY <1>1, <1>3, <1>5, <1>6
  <1>8. OutInv(t, open)
    BY <1>3, <1>4, <1>6, <1>7, OutGrows
  <1>9. Tidy(s, t)
    BY <1>3, <1>4, TidyGrows
  <1> QED BY <1>8, <1>9 DEF t

LEMMA BeatOut ==
    ASSUME NEW s, SndOK(s), NEW open, OutInv(s, open), NEW ping \in BOOLEAN
    PROVE  LET t == Beat(s, ping)
           IN OutInv(t, open) /\ Tidy(s, t) /\ t.serial = s.serial
  <1>1. CASE s.urgentQ = <<>>
    <2>1. Beat(s, ping) = PutDummy(s, ping, 0)
      BY <1>1 DEF Beat
    <2>2. 0 \in 0 .. MaxSerial
      BY ParameterTypes
    <2> QED BY <2>1, <2>2, PutDummyOut
  <1>2. CASE s.urgentQ # <<>>
    <2> DEFINE i == Head(s.urgentQ)
               m == [s.msgs[i] EXCEPT !.instant = @ \/ ping]
               t == [s EXCEPT !.msgs[i] = m]
    <2>1. Beat(s, ping) = t
      BY <1>2 DEF Beat, SndOK, Snd
    <2>2. i \in Held(s)
      BY <1>2, HeadHeld
    <2>3. i \in 1 .. Len(s.msgs) /\ s.msgs[i] \in Msg
      BY <2>2, SndHeld, SndFields
    <2>4. m \in Msg /\ m.class = s.msgs[i].class /\ m.pred = s.msgs[i].pred
          /\ m.reply = s.msgs[i].reply /\ m.status = s.msgs[i].status
      BY <2>3 DEF Msg
    <2>5. m.pred = 0 \/ m.reply = 0
      BY <2>3, <2>4 DEF OutInv
    <2> HIDE DEF i, m
    <2>6. /\ OutInv(t, open) /\ t.serial = s.serial
          /\ Len(t.msgs) = Len(s.msgs)
          /\ \A j \in 1 .. Len(s.msgs) :
                t.msgs[j] = IF j = i THEN m ELSE s.msgs[j]
      BY <2>2, <2>4, <2>5, OutTouched
    <2> HIDE DEF t
    <2>7. Tidy(s, t)
      BY <2>4, <2>6, TidyRefl DEF Tidy
    <2> QED BY <2>1, <2>6, <2>7
  <1> QED BY <1>1, <1>2

LEMMA TidyTrans ==
    ASSUME NEW s, NEW t, NEW u, Tidy(s, t), Tidy(t, u), u.serial = t.serial
    PROVE  Tidy(s, u)
  BY DEF Tidy

\* The answer to a ping moves at most the head of the common queue.
LEMMA ReplyToOut ==
    ASSUME NEW s, SndOK(s), NEW open \in BOOLEAN, SndInv(s, open), OutInv(s, open),
           NEW request \in 0 .. MaxSerial
    PROVE  LET t == ReplyTo(s, request)
           IN OutInv(t, open) /\ Tidy(s, t) /\ t.serial = s.serial
  <1> DEFINE Free == {k \in 1 .. Len(s.urgentQ) : ~IsShort(s.msgs[s.urgentQ[k]])}
             i == IF Free # {} THEN Min(Free) ELSE 0
  <1>1. s.urgentQ \in Seq(Nat) /\ s.commonQ \in Seq(Nat) /\ Len(s.urgentQ) \in Nat
    <2>1. s.urgentQ \in Seq(Nat) /\ s.commonQ \in Seq(Nat)
      BY SndFields
    <2> QED BY <2>1, LenProperties
  <1>2. i # 0 => i \in Free
    <2>1. Free \in SUBSET Nat
      BY <1>1
    <2> HIDE DEF Free
    <2> QED BY <2>1, MinOfNaturals
  <1>3. ReplyTo(s, request) =
           IF i # 0
           THEN [s EXCEPT !.msgs[s.urgentQ[i]].reply = request]
           ELSE IF s.commonQ = <<>>
           THEN PutDummy(s, FALSE, request)
           ELSE [s EXCEPT !.msgs[Head(s.commonQ)].reply = request,
                          !.urgentQ = Append(@, Head(s.commonQ)),
                          !.commonQ = Tail(@)]
    BY DEF ReplyTo, SelectInSeq
  <1> HIDE DEF i
  <1>4. CASE i # 0
    <2> DEFINE j == s.urgentQ[i]
               m == [s.msgs[j] EXCEPT !.reply = request]
               t == [s EXCEPT !.msgs[j] = m]
    <2>1. j \in Held(s) /\ s.msgs[j] \in Msg /\ s.msgs[j].pred = 0
      <3>1. j \in Range(s.urgentQ)
        BY <1>1, <1>2, <1>4, RangeOfMember
      <3> QED BY <1>2, <1>4, <3>1, SndHeld, SndFields DEF Held, IsShort, Ordered
    <2>2. /\ m \in Msg /\ m.class = s.msgs[j].class /\ m.pred = s.msgs[j].pred
          /\ m.status = s.msgs[j].status
      BY <2>1 DEF Msg
    <2>3. ReplyTo(s, request) = t
      BY <1>3, <1>4
    <2> HIDE DEF j, m
    <2>4. /\ OutInv(t, open) /\ t.serial = s.serial
          /\ Len(t.msgs) = Len(s.msgs)
          /\ \A k \in 1 .. Len(s.msgs) :
                t.msgs[k] = IF k = j THEN m ELSE s.msgs[k]
      BY <2>1, <2>2, OutTouched
    <2> HIDE DEF t
    <2>5. Tidy(s, t)
      BY <2>2, <2>4, TidyRefl DEF Tidy
    <2> QED BY <2>3, <2>4, <2>5
  <1>5. CASE i = 0 /\ s.commonQ = <<>>
    <2>1. ReplyTo(s, request) = PutDummy(s, FALSE, request)
      BY <1>3, <1>5
    <2> QED BY <2>1, PutDummyOut
  <1>6. CASE i = 0 /\ s.commonQ # <<>>
    <2> DEFINE j == Head(s.commonQ)
               m == [s.msgs[j] EXCEPT !.reply = request]
               u == [s EXCEPT !.msgs[j] = m]
               t == [u EXCEPT !.urgentQ = Append(@, j), !.commonQ = Tail(@)]
    <2>1. j \in Held(s) /\ s.msgs[j] \in Msg
      BY <1>6, HeadHeld, SndHeld, SndFields
    <2>2. /\ Tail(s.commonQ) \in Seq(Nat) /\ j \in Nat
          /\ Range(Append(s.urgentQ, j)) = Range(s.urgentQ) \cup {j}
          /\ Range(s.commonQ) = Range(Tail(s.commonQ)) \cup {j}
          /\ Distinct(s.commonQ) => /\ Distinct(Tail(s.commonQ))
                                    /\ j \notin Range(Tail(s.commonQ))
          /\ Distinct(s.urgentQ) /\ j \notin Range(s.urgentQ)
                => Distinct(Append(s.urgentQ, j))
      BY <1>1, <1>6, RangeOfAppend, RangeOfTail, DistinctTail, DistinctAppend
    <2>3. s.msgs[j].pred = 0
      BY <2>2 DEF SndInv
    <2>4. /\ m \in Msg /\ m.class = s.msgs[j].class /\ m.pred = 0
          /\ m.status = s.msgs[j].status
      BY <2>1, <2>3 DEF Msg
    <2>5. ReplyTo(s, request) = t
      BY <1>3, <1>6 DEF SndOK, Snd
    <2>6. /\ t.urgentQ = Append(s.urgentQ, j) /\ t.commonQ = Tail(s.commonQ)
          /\ t.vimQ = u.vimQ /\ t.revisited = u.revisited
          /\ t.prepared = u.prepared /\ t.msgs = u.msgs /\ t.serial = u.serial
      BY DEF SndOK, Snd
    <2> HIDE DEF t, m, j
    <2>7. /\ OutInv(u, open) /\ u.serial = s.serial
          /\ u.urgentQ = s.urgentQ /\ u.vimQ = s.vimQ
          /\ u.commonQ = s.commonQ /\ u.revisited = s.revisited
          /\ u.prepared = s.prepared
          /\ Len(u.msgs) = Len(s.msgs)
          /\ \A k \in 1 .. Len(s.msgs) :
                u.msgs[k] = IF k = j THEN m ELSE s.msgs[k]
      BY <2>1, <2>4, OutTouched
    <2> HIDE DEF u
    <2>8. Apart(s) /\ j \in Range(s.commonQ)
      BY <2>2 DEF OutInv
    <2>9. Distinct(t.urgentQ) /\ Distinct(t.vimQ) /\ Distinct(t.commonQ)
      BY <2>2, <2>6, <2>7, <2>8 DEF Apart
    <2>10. /\ Range(t.urgentQ) = Range(s.urgentQ) \cup {j}
           /\ Range(t.vimQ) = Range(s.vimQ)
           /\ Range(t.commonQ) \subseteq Range(s.commonQ)
           /\ j \notin Range(t.commonQ)
           /\ t.revisited = s.revisited /\ t.prepared = s.prepared
      BY <2>2, <2>6, <2>7, <2>8 DEF Apart
    <2>11. Apart(t)
      BY <2>8, <2>9, <2>10 DEF Apart
    <2>12. open => Somewhere(t)
      BY <2>6, <2>7, <2>10 DEF OutInv, Somewhere
    <2>13. OutInv(t, open)
      BY <2>6, <2>7, <2>10, <2>11, <2>12 DEF OutInv
    <2>14. Tidy(s, t)
      BY <2>4, <2>6, <2>7, TidyRefl DEF Tidy
    <2> QED BY <2>5, <2>6, <2>7, <2>13, <2>14
  <1> QED BY <1>4, <1>5, <1>6

\* Only here does a message become acknowledged.
LEMMA AckInOut ==
    ASSUME NEW s, SndOK(s), NEW open, OutInv(s, open), NEW acks \in SUBSET Serial
    PROVE  LET t == AckIn(s, acks)
           IN /\ OutInv(t, open) /\ t.serial = s.serial
              /\ Len(t.msgs) = Len(s.msgs)
              /\ \A i \in 1 .. Len(s.msgs) :
                    /\ t.msgs[i].class = s.msgs[i].class
                    /\ t.msgs[i].serial = s.msgs[i].serial
                    /\ t.msgs[i].status = "acked"
                          => s.msgs[i].status = "acked" \/ s.msgs[i].serial \in acks
  <1> DEFINE t == AckIn(s, acks)
  <1>1. SndOK(t)
    BY AckInOK
  <1>2. /\ t.msgs = [i \in DOMAIN s.msgs |->
              IF i \in s.revisited /\ s.msgs[i].serial \in acks
              THEN [s.msgs[i] EXCEPT !.status = "acked"] ELSE s.msgs[i]]
        /\ t.serial = s.serial
        /\ t.urgentQ = s.urgentQ /\ t.vimQ = s.vimQ
        /\ t.commonQ = s.commonQ /\ t.revisited = s.revisited
        /\ t.prepared = s.prepared
    BY DEF AckIn, SndOK, Snd
  <1> HIDE DEF t
  <1>3. DOMAIN t.msgs = 1 .. Len(s.msgs) /\ DOMAIN t.msgs = 1 .. Len(t.msgs)
        /\ Len(t.msgs) \in Nat /\ Len(s.msgs) \in Nat
    BY <1>1, <1>2, SndFields
  <1>4. Len(t.msgs) = Len(s.msgs)
    BY <1>3
  <1>5. ASSUME NEW i \in 1 .. Len(s.msgs)
        PROVE  /\ t.msgs[i].class = s.msgs[i].class
               /\ t.msgs[i].pred = s.msgs[i].pred
               /\ t.msgs[i].reply = s.msgs[i].reply
               /\ t.msgs[i].serial = s.msgs[i].serial
               /\ t.msgs[i].status = "acked"
                     => s.msgs[i].status = "acked" \/ s.msgs[i].serial \in acks
    <2>1. s.msgs[i] \in Msg
      BY SndFields
    <2>2. \/ t.msgs[i] = s.msgs[i]
          \/ /\ s.msgs[i].serial \in acks
             /\ t.msgs[i] = [s.msgs[i] EXCEPT !.status = "acked"]
      BY <1>2, <1>3
    <2> QED BY <2>1, <2>2 DEF Msg
  <1>6. OutInv(t, open)
    <2>1. \A i \in 1 .. Len(s.msgs) :
              /\ t.msgs[i].class = s.msgs[i].class
              /\ t.msgs[i].pred = 0 \/ t.msgs[i].reply = 0
      BY <1>5 DEF OutInv
    <2> QED BY <1>2, <1>4, <2>1, OutKept
  <1> QED BY <1>2, <1>4, <1>5, <1>6 DEF t

\* The message that leaves moves from the head of its queue to the hands of
\* the sending thread.
LEMMA SentOut ==
    ASSUME NEW s, SndOK(s), NEW open, OutInv(s, open), s.prepared = 0,
           NextQueue(s) # <<>>,
           Numbered(s, Head(NextQueue(s))).serial <= MaxSerial
    PROVE  OutInv(AfterSend(s), open) /\ Tidy(s, AfterSend(s))
  <1> DEFINE t == AfterSend(s)
             id == Head(NextQueue(s))
             m == Numbered(s, id)
             n == Len(s.msgs)
  <1>1. /\ id \in 1 .. n /\ Len(t.msgs) = n
        /\ \A i \in 1 .. n : t.msgs[i] = IF i = id THEN m ELSE s.msgs[i]
        /\ t.serial = IF s.msgs[id].serial = 0 THEN s.serial + 1 ELSE s.serial
        /\ t.prepared = id /\ t.revisited = s.revisited
        /\ t.urgentQ = Unqueue(s).urgentQ /\ t.vimQ = Unqueue(s).vimQ
        /\ t.commonQ = Unqueue(s).commonQ
    BY SentParts
  <1>2. /\ m.class = s.msgs[id].class /\ m.pred = s.msgs[id].pred
        /\ m.reply = s.msgs[id].reply
        /\ m.status = "acked" => s.msgs[id].status = "acked"
    <2>1. s.msgs[id] \in Msg
      BY <1>1, SndFields
    <2>2. m.status = "acked" => s.msgs[id].status = "acked"
      BY <2>1 DEF Numbered, Msg
    <2> QED BY <1>1, <2>2, NumberedOK
  <1>3. /\ s.urgentQ \in Seq(Nat) /\ s.vimQ \in Seq(Nat) /\ s.commonQ \in Seq(Nat)
    BY SndFields
  <1>4. \/ /\ s.urgentQ # <<>> /\ id = Head(s.urgentQ)
           /\ t.urgentQ = Tail(s.urgentQ) /\ t.vimQ = s.vimQ
           /\ t.commonQ = s.commonQ
        \/ /\ s.vimQ # <<>> /\ id = Head(s.vimQ)
           /\ t.urgentQ = s.urgentQ /\ t.vimQ = Tail(s.vimQ)
           /\ t.commonQ = s.commonQ
        \/ /\ s.commonQ # <<>> /\ id = Head(s.commonQ)
           /\ t.urgentQ = s.urgentQ /\ t.vimQ = s.vimQ
           /\ t.commonQ = Tail(s.commonQ)
    <2>1. CASE s.urgentQ # <<>>
      BY <1>1, <2>1 DEF Unqueue, NextQueue, SndOK, Snd
    <2>2. CASE s.urgentQ = <<>> /\ s.vimQ # <<>>
      BY <1>1, <2>2 DEF Unqueue, NextQueue, SndOK, Snd
    <2>3. CASE s.urgentQ = <<>> /\ s.vimQ = <<>>
      BY <1>1, <2>3 DEF Unqueue, NextQueue, SndOK, Snd
    <2> QED BY <2>1, <2>2, <2>3
  <1>5. \A q \in Seq(Nat) : q # <<>> =>
            /\ Range(q) = Range(Tail(q)) \cup {Head(q)}
            /\ Distinct(q) => Distinct(Tail(q)) /\ Head(q) \notin Range(Tail(q))
    BY RangeOfTail, DistinctTail
  <1>6. Apart(s) /\ n = Len(s.msgs) /\ s.serial \in Nat
    BY SndFields, ParameterTypes DEF OutInv
  <1>7. Range(s.commonQ) \subseteq 1 .. n
    BY QueueMembers
  <1> HIDE DEF t, id, m, n
  <1>8. /\ Distinct(t.urgentQ) /\ Distinct(t.vimQ) /\ Distinct(t.commonQ)
        /\ Range(t.urgentQ) \subseteq Range(s.urgentQ) /\ id \notin Range(t.urgentQ)
        /\ Range(t.vimQ) \subseteq Range(s.vimQ) /\ id \notin Range(t.vimQ)
        /\ Range(t.commonQ) \subseteq Range(s.commonQ) /\ id \notin Range(t.commonQ)
        /\ Range(s.urgentQ) \subseteq Range(t.urgentQ) \cup {id}
        /\ Range(s.vimQ) \subseteq Range(t.vimQ) \cup {id}
        /\ id \notin s.revisited
    <2>1. CASE /\ s.urgentQ # <<>> /\ id = Head(s.urgentQ)
               /\ t.urgentQ = Tail(s.urgentQ) /\ t.vimQ = s.vimQ
               /\ t.commonQ = s.commonQ
      <3>1. /\ Range(s.urgentQ) = Range(t.urgentQ) \cup {id}
            /\ Distinct(s.urgentQ) => Distinct(t.urgentQ) /\ id \notin Range(t.urgentQ)
        BY <1>3, <1>5, <2>1
      <3> QED BY <1>6, <2>1, <3>1 DEF Apart
    <2>2. CASE /\ s.vimQ # <<>> /\ id = Head(s.vimQ)
               /\ t.urgentQ = s.urgentQ /\ t.vimQ = Tail(s.vimQ)
               /\ t.commonQ = s.commonQ
      <3>1. /\ Range(s.vimQ) = Range(t.vimQ) \cup {id}
            /\ Distinct(s.vimQ) => Distinct(t.vimQ) /\ id \notin Range(t.vimQ)
        BY <1>3, <1>5, <2>2
      <3> QED BY <1>6, <2>2, <3>1 DEF Apart
    <2>3. CASE /\ s.commonQ # <<>> /\ id = Head(s.commonQ)
               /\ t.urgentQ = s.urgentQ /\ t.vimQ = s.vimQ
               /\ t.commonQ = Tail(s.commonQ)
      <3>1. /\ Range(s.commonQ) = Range(t.commonQ) \cup {id}
            /\ Distinct(s.commonQ) => Distinct(t.commonQ) /\ id \notin Range(t.commonQ)
        BY <1>3, <1>5, <2>3
      <3> QED BY <1>6, <2>3, <3>1 DEF Apart
    <2> QED BY <1>4, <2>1, <2>2, <2>3
  <1>9. Apart(t)
    BY <1>1, <1>6, <1>8 DEF Apart
  <1>10. open => Somewhere(t)
    <2> SUFFICES ASSUME open, NEW i \in 1 .. n, t.msgs[i].class \in Stream
                 PROVE  \/ i \in Range(t.urgentQ) \/ i \in Range(t.vimQ)
                        \/ i \in t.revisited \/ i = t.prepared
      BY <1>1 DEF Somewhere
    <2>1. s.msgs[i].class \in Stream /\ i # 0
      BY <1>1, <1>2
    <2>2. \/ i \in Range(s.urgentQ) \/ i \in Range(s.vimQ)
          \/ i \in s.revisited \/ i = s.prepared
      BY <1>6, <2>1 DEF OutInv, Somewhere
    <2> QED BY <1>1, <1>8, <2>1, <2>2
  <1>11. \A i \in 1 .. Len(t.msgs) : t.msgs[i].pred = 0 \/ t.msgs[i].reply = 0
    BY <1>1, <1>2, <1>6 DEF OutInv
  <1>12. \A i \in Range(t.commonQ) : t.msgs[i].class = "common"
    BY <1>1, <1>7, <1>8 DEF OutInv
  <1>13. OutInv(t, open)
    BY <1>9, <1>10, <1>11, <1>12 DEF OutInv
  <1>14. Tidy(s, t)
    BY <1>1, <1>2, <1>6 DEF Tidy
  <1> QED BY <1>13, <1>14 DEF t

-----------------------------------------------------------------------------
(***************************************************************************)
(* What a step does to the output sides.                                   *)
(***************************************************************************)
Outputs == \A e \in End : OutInv(snd[e], opened[e]) /\ StreamsNumbered(snd[e])

\* At most one serial is given out, and what becomes acknowledged is so by a
\* datagram of n.
Told(s, t, n) ==
    /\ t.serial <= s.serial + 1
    /\ \A i \in 1 .. Len(t.msgs) : t.msgs[i].status = "acked" =>
          /\ i \in 1 .. Len(s.msgs)
          /\ \/ s.msgs[i].status = "acked"
             \/ \E p \in n : s.msgs[i].serial \in p.acks

Moves(e) ==
    /\ Follows(snd[e], snd'[e]) /\ Told(snd[e], snd'[e], net[e])
    /\ OutInv(snd'[e], opened'[e])

LEMMA TidyTold ==
    ASSUME NEW s, NEW t, Tidy(s, t), NEW n
    PROVE  Told(s, t, n)
  BY DEF Tidy, Told

LEMMA MovesTo ==
    ASSUME TypeOK, Outputs, NEW e \in End, NEW t, snd' = [snd EXCEPT ![e] = t],
           Follows(snd[e], t), Told(snd[e], t, net[e]), OutInv(t, opened'[e]),
           \A x \in End : x # e => opened'[x] = opened[x]
    PROVE  \A x \in End : Moves(x)
  <1> SUFFICES ASSUME NEW x \in End
               PROVE  Moves(x)
    OBVIOUS
  <1>1. CASE x = e
    <2>1. snd'[e] = t
      BY TypeParts
    <2> QED BY <1>1, <2>1 DEF Moves
  <1>2. CASE x # e
    <2>1. snd'[x] = snd[x] /\ opened'[x] = opened[x] /\ SndOK(snd[x])
      BY <1>2, TypeParts
    <2>2. Follows(snd[x], snd[x]) /\ Told(snd[x], snd[x], net[x])
      BY <2>1, FollowsRefl, TidyRefl, TidyTold
    <2> QED BY <2>1, <2>2 DEF Moves, Outputs
  <1> QED BY <1>1, <1>2

\* A step that leaves the output sides alone.
LEMMA MovesNot ==
    ASSUME TypeOK, Outputs, snd' = snd, opened' = opened
    PROVE  \A x \in End : Moves(x)
  <1> SUFFICES ASSUME NEW x \in End
               PROVE  Moves(x)
    OBVIOUS
  <1>1. SndOK(snd[x])
    BY TypeParts
  <1>2. Follows(snd[x], snd[x]) /\ Told(snd[x], snd[x], net[x])
    BY <1>1, FollowsRefl, TidyRefl, TidyTold
  <1> QED BY <1>2 DEF Moves, Outputs

LEMMA OutputParts ==
    ASSUME TypeOK, OrderInv, Outputs, NEW e \in End
    PROVE  /\ SndOK(snd[e]) /\ SndInv(snd[e], opened[e]) /\ opened[e] \in BOOLEAN
           /\ OutInv(snd[e], opened[e]) /\ StreamsNumbered(snd[e])
  BY OrderParts DEF Outputs

LEMMA DispatchMoves ==
    ASSUME TypeOK, OrderInv, Outputs, NEW e \in End, NEW c \in Class,
           Dispatch(e, c)
    PROVE  \A x \in End : Moves(x)
  <1> DEFINE t == PutMessage(snd[e], c)
  <1>1. snd' = [snd EXCEPT ![e] = t] /\ opened' = opened
    BY DEF Dispatch
  <1>2. /\ Follows(snd[e], t) /\ OutInv(t, opened[e]) /\ Tidy(snd[e], t)
    BY OutputParts, PutMessageFollows, PutMessageOut
  <1> HIDE DEF t
  <1> QED BY <1>1, <1>2, TidyTold, MovesTo

LEMMA CloseMoves ==
    ASSUME TypeOK, OrderInv, Outputs, NEW e \in End, Close(e)
    PROVE  \A x \in End : Moves(x)
  <1> DEFINE s == snd[e]
             queued == Range(s.urgentQ) \cup Range(s.vimQ) \cup Range(s.commonQ)
             q == [i \in DOMAIN s.msgs |->
                      IF i \in queued THEN [s.msgs[i] EXCEPT !.status = "cancelled"]
                                      ELSE s.msgs[i]]
             t == [s EXCEPT !.msgs = q, !.urgentQ = <<>>, !.vimQ = <<>>,
                            !.commonQ = <<>>, !.lastUrgent = 0, !.lastVIM = 0,
                            !.revisited = {}]
  <1>1. TypeOK'
    BY CloseType
  <1>2. snd' = [snd EXCEPT ![e] = t] /\ opened' = [opened EXCEPT ![e] = FALSE]
    BY TypeParts DEF Close
  <1>3. SndOK(s) /\ OutInv(s, opened[e])
    BY OutputParts
  <1>4. /\ Len(s.msgs) \in Nat /\ DOMAIN s.msgs = 1 .. Len(s.msgs)
        /\ \A i \in 1 .. Len(s.msgs) : s.msgs[i] \in Msg
    BY <1>3, SndFields
  <1>5. snd'[e] = t /\ opened'[e] = FALSE
        /\ \A x \in End : x # e => opened'[x] = opened[x]
    BY <1>2, TypeParts
  <1> HIDE DEF s
  <1>6. \A i \in 1 .. Len(s.msgs) :
            /\ q[i] \in Msg /\ q[i].class = s.msgs[i].class
            /\ q[i].pred = s.msgs[i].pred /\ q[i].serial = s.msgs[i].serial
            /\ q[i].reply = s.msgs[i].reply
            /\ q[i].status = "acked" => s.msgs[i].status = "acked"
    BY <1>4 DEF Msg
  <1>7. q \in Seq(Msg) /\ Len(q) = Len(s.msgs)
    <2>1. q \in [1 .. Len(s.msgs) -> Msg]
      BY <1>4, <1>6
    <2> QED BY <1>4, <2>1, SeqDef
  <1> HIDE DEF q
  <1>8. /\ t.msgs = q /\ t.serial = s.serial /\ t.prepared = s.prepared
        /\ t.urgentQ = <<>> /\ t.vimQ = <<>> /\ t.commonQ = <<>>
        /\ t.revisited = {}
    BY <1>3 DEF SndOK, Snd
  <1> HIDE DEF t
  <1>9. SndOK(t)
    <2>1. References(snd'[e]) \subseteq DOMAIN snd'[e].msgs /\ snd'[e] \in Snd
      BY <1>1 DEF TypeOK
    <2> QED BY <1>5, <2>1 DEF SndOK
  <1>10. Alike(s, t)
    BY <1>6, <1>7, <1>8 DEF Alike
  <1>11. Follows(s, t)
    BY <1>3, <1>9, <1>10, AlikeFollows
  <1>12. Apart(t)
    BY <1>8, EmptyQueue DEF Apart
  <1>13. OutInv(t, FALSE)
    BY <1>3, <1>6, <1>7, <1>8, <1>12, EmptyQueue DEF OutInv
  <1>14. Tidy(s, t)
    BY <1>3, <1>6, <1>7, <1>8, TidyRefl DEF Tidy
  <1>15. /\ Follows(snd[e], t) /\ Told(snd[e], t, net[e])
         /\ OutInv(t, opened'[e])
    BY <1>5, <1>11, <1>13, <1>14, TidyTold DEF s
  <1> QED BY <1>2, <1>5, <1>15, MovesTo

LEMMA SendMoves ==
    ASSUME TypeOK, OrderInv, Outputs, NEW e \in End, Send(e)
    PROVE  \A x \in End : Moves(x)
  <1> DEFINE t == AfterSend(snd[e])
  <1>1. snd' = [snd EXCEPT ![e] = t] /\ opened' = opened
    BY DEF Send, AfterSend
  <1>2. /\ snd[e].prepared = 0 /\ NextQueue(snd[e]) # <<>>
        /\ Numbered(snd[e], Head(NextQueue(snd[e]))).serial <= MaxSerial
    BY DEF Send
  <1>3. Follows(snd[e], t) /\ OutInv(t, opened[e]) /\ Tidy(snd[e], t)
    BY <1>2, OutputParts, SentInv, SentOut
  <1> HIDE DEF t
  <1> QED BY <1>1, <1>3, TidyTold, MovesTo

\* The message the thread had in hand is remembered, or it is not a guaranteed
\* one, or the channel was closed.
LEMMA PostSendMoves ==
    ASSUME TypeOK, OrderInv, Outputs, NEW e \in End, PostSend(e)
    PROVE  \A x \in End : Moves(x)
  <1> DEFINE s == snd[e]
             kept == IF opened[e] /\ IsVIM(s.msgs[s.prepared])
                     THEN s.revisited \cup {s.prepared} ELSE s.revisited
             t == [s EXCEPT !.prepared = 0, !.revisited = kept]
  <1>1. SndOK(s) /\ OutInv(s, opened[e])
    BY OutputParts
  <1>2. snd' = [snd EXCEPT ![e] = t] /\ opened' = opened /\ s.prepared # 0
    BY TypeParts DEF PostSend
  <1>3. TypeOK'
    BY PostSendType
  <1>4. snd'[e] = t
    BY <1>2, TypeParts
  <1>5. /\ t.msgs = s.msgs /\ t.serial = s.serial /\ t.urgentQ = s.urgentQ
        /\ t.vimQ = s.vimQ /\ t.commonQ = s.commonQ /\ t.prepared = 0
        /\ t.revisited = kept
    BY <1>1 DEF SndOK, Snd
  <1>6. /\ kept \subseteq s.revisited \cup {s.prepared}
        /\ s.revisited \subseteq kept
        /\ opened[e] /\ s.msgs[s.prepared].class \in Stream => s.prepared \in kept
    BY DEF IsVIM
  <1> HIDE DEF t, s, kept
  <1>7. SndOK(t)
    <2>1. References(snd'[e]) \subseteq DOMAIN snd'[e].msgs /\ snd'[e] \in Snd
      BY <1>3 DEF TypeOK
    <2> QED BY <1>4, <2>1 DEF SndOK
  <1>8. Follows(s, t)
    <2>1. Alike(s, t)
      BY <1>5 DEF Alike
    <2> QED BY <1>1, <1>7, <2>1, AlikeFollows
  <1>9. /\ 0 \notin Range(s.urgentQ) /\ 0 \notin Range(s.vimQ)
        /\ 0 \notin Range(s.commonQ) /\ 0 \notin s.revisited
    BY <1>1, SndFields
  <1>10. Apart(t)
    BY <1>1, <1>2, <1>5, <1>6, <1>9 DEF OutInv, Apart
  <1>11. opened[e] => Somewhere(t)
    BY <1>1, <1>5, <1>6 DEF OutInv, Somewhere
  <1>12. OutInv(t, opened[e])
    BY <1>1, <1>5, <1>10, <1>11 DEF OutInv
  <1>13. Tidy(s, t)
    BY <1>1, <1>5, TidyRefl DEF Tidy
  <1>14. /\ Follows(snd[e], t) /\ Told(snd[e], t, net[e])
         /\ OutInv(t, opened'[e])
    BY <1>2, <1>8, <1>12, <1>13, TidyTold DEF s
  <1> QED BY <1>2, <1>14, MovesTo

LEMMA ExpireMoves ==
    ASSUME TypeOK, OrderInv, Outputs, NEW e \in End, Expire(e)
    PROVE  \A x \in End : Moves(x)
  <1> DEFINE s == snd[e]
             id == Head(s.commonQ)
             m == [s.msgs[id] EXCEPT !.status = "cancelled"]
             u == [s EXCEPT !.msgs[id] = m]
             t == [u EXCEPT !.commonQ = Tail(s.commonQ)]
  <1>1. SndOK(s) /\ OutInv(s, opened[e]) /\ s.commonQ # <<>>
    BY OutputParts DEF Expire
  <1>2. snd' = [snd EXCEPT ![e] = t] /\ opened' = opened
    BY TypeParts DEF Expire, Snd
  <1>3. TypeOK'
    BY ExpireType
  <1>4. snd'[e] = t
    BY <1>2, TypeParts
  <1> HIDE DEF s
  <1>5. id \in Held(s) /\ id \in 1 .. Len(s.msgs) /\ s.msgs[id] \in Msg
    BY <1>1, HeadHeld, SndHeld, SndFields
  <1>6. /\ m \in Msg /\ m.class = s.msgs[id].class /\ m.pred = s.msgs[id].pred
        /\ m.serial = s.msgs[id].serial /\ m.reply = s.msgs[id].reply
        /\ m.status # "acked"
    BY <1>5 DEF Msg
  <1>7. m.pred = 0 \/ m.reply = 0
    BY <1>1, <1>5, <1>6 DEF OutInv
  <1>8. /\ t.msgs = u.msgs /\ t.serial = u.serial /\ t.urgentQ = u.urgentQ
        /\ t.vimQ = u.vimQ /\ t.commonQ = Tail(s.commonQ)
        /\ t.prepared = u.prepared /\ t.revisited = u.revisited
    BY <1>1 DEF SndOK, Snd
  <1>9. /\ s.commonQ \in Seq(Nat)
        /\ Range(Tail(s.commonQ)) \subseteq Range(s.commonQ)
        /\ Distinct(s.commonQ) => Distinct(Tail(s.commonQ))
    <2>1. s.commonQ \in Seq(Nat)
      BY <1>1, SndFields
    <2> QED BY <1>1, <2>1, RangeOfTail, DistinctTail
  <1> HIDE DEF m, id, t
  <1>10. /\ OutInv(u, opened[e]) /\ u.serial = s.serial
         /\ u.urgentQ = s.urgentQ /\ u.vimQ = s.vimQ
         /\ u.commonQ = s.commonQ /\ u.revisited = s.revisited
         /\ u.prepared = s.prepared
         /\ Len(u.msgs) = Len(s.msgs)
         /\ \A j \in 1 .. Len(s.msgs) :
               u.msgs[j] = IF j = id THEN m ELSE s.msgs[j]
    BY <1>1, <1>5, <1>6, <1>7, OutTouched
  <1> HIDE DEF u
  <1>11. SndOK(t)
    <2>1. References(snd'[e]) \subseteq DOMAIN snd'[e].msgs /\ snd'[e] \in Snd
      BY <1>3 DEF TypeOK
    <2> QED BY <1>4, <2>1 DEF SndOK
  <1>12. Follows(s, t)
    <2>1. Alike(s, t)
      BY <1>6, <1>8, <1>10 DEF Alike
    <2> QED BY <1>1, <1>11, <2>1, AlikeFollows
  <1>13. Apart(t)
    BY <1>8, <1>9, <1>10 DEF OutInv, Apart
  <1>14. OutInv(t, opened[e])
    BY <1>8, <1>9, <1>10, <1>13 DEF OutInv, Somewhere
  <1>15. Tidy(s, t)
    BY <1>1, <1>6, <1>8, <1>10, TidyRefl DEF Tidy
  <1>16. /\ Follows(snd[e], t) /\ Told(snd[e], t, net[e])
         /\ OutInv(t, opened'[e])
    BY <1>2, <1>12, <1>14, <1>15, TidyTold DEF s
  <1> QED BY <1>2, <1>16, MovesTo

LEMMA TimeoutMoves ==
    ASSUME TypeOK, OrderInv, Outputs, NEW e \in End, NEW i \in snd[e].revisited,
           Timeout(e, i)
    PROVE  \A x \in End : Moves(x)
  <1> DEFINE s == snd[e]
             t == Overdue(s, i)
  <1>1. SndOK(s) /\ OutInv(s, opened[e]) /\ SndInv(s, opened[e])
        /\ opened[e] \in BOOLEAN /\ i \in s.revisited
    BY OutputParts
  <1>2. snd' = [snd EXCEPT ![e] = t] /\ opened' = opened
    BY TypeParts DEF Timeout, Overdue
  <1>3. TypeOK'
    BY TimeoutType
  <1>4. snd'[e] = t
    BY <1>2, TypeParts
  <1>5. /\ t.urgentQ = PutResend(s.urgentQ, i)
        /\ t.revisited = s.revisited \ {i}
        /\ t.vimQ = s.vimQ /\ t.commonQ = s.commonQ /\ t.msgs = s.msgs
        /\ t.serial = s.serial /\ t.prepared = s.prepared
    BY <1>1 DEF Overdue, SndOK, Snd
  <1>6. SndOK(t)
    <2>1. References(snd'[e]) \subseteq DOMAIN snd'[e].msgs /\ snd'[e] \in Snd
      BY <1>3 DEF TypeOK
    <2> QED BY <1>4, <2>1 DEF SndOK
  <1>7. Follows(s, t)
    BY <1>1, <1>6, OverdueInv
  <1> HIDE DEF t, s
  <1>8. s.urgentQ \in Seq(Nat) /\ i \in Nat
    BY <1>1, SndFields
  <1>9. i \notin Range(s.urgentQ)
    BY <1>1 DEF OutInv, Apart
  <1>10. Range(t.urgentQ) = Range(s.urgentQ) \cup {i}
    BY <1>5, <1>8, PutResendRange
  <1>11. Distinct(t.urgentQ)
    BY <1>1, <1>5, <1>8, <1>9, DistinctPutResend DEF OutInv, Apart
  <1>12. Apart(t)
    BY <1>1, <1>5, <1>10, <1>11 DEF OutInv, Apart
  <1>13. OutInv(t, opened[e])
    BY <1>1, <1>5, <1>10, <1>12 DEF OutInv, Somewhere
  <1>14. Tidy(s, t)
    BY <1>1, <1>5, TidyRefl DEF Tidy
  <1>15. /\ Follows(snd[e], t) /\ Told(snd[e], t, net[e])
         /\ OutInv(t, opened'[e])
    BY <1>2, <1>7, <1>13, <1>14, TidyTold DEF s
  <1> QED BY <1>2, <1>15, MovesTo

LEMMA CheckConnectivityMoves ==
    ASSUME TypeOK, OrderInv, Outputs, NEW e \in End, NEW ping \in BOOLEAN,
           CheckConnectivity(e, ping)
    PROVE  \A x \in End : Moves(x)
  <1> DEFINE t == Beat(snd[e], ping)
  <1>1. snd' = [snd EXCEPT ![e] = t] /\ opened' = opened
    BY DEF CheckConnectivity
  <1>2. Follows(snd[e], t) /\ OutInv(t, opened[e]) /\ Tidy(snd[e], t)
    BY OutputParts, BeatInv, BeatOut
  <1> HIDE DEF t
  <1> QED BY <1>1, <1>2, TidyTold, MovesTo

LEMMA ReceiveFarMoves ==
    ASSUME TypeOK, OrderInv, Outputs, NEW e \in End, NEW p \in net[e],
           ReceiveFar(e, p)
    PROVE  \A x \in End : Moves(x)
  <1> DEFINE t == IF p.instant THEN ReplyTo(snd[e], p.serial) ELSE snd[e]
  <1>1. snd' = [snd EXCEPT ![e] = t] /\ opened' = opened
    BY DEF ReceiveFar
  <1>2. Follows(snd[e], t) /\ OutInv(t, opened[e]) /\ Tidy(snd[e], t)
    BY OutputParts, Heard, FollowsRefl, TidyRefl, ReplyToInv, ReplyToOut
  <1> HIDE DEF t
  <1> QED BY <1>1, <1>2, TidyTold, MovesTo

LEMMA ReceiveNewMoves ==
    ASSUME TypeOK, OrderInv, Outputs, NEW e \in End, NEW p \in net[e],
           NEW beat \in BOOLEAN, NEW ping \in BOOLEAN,
           ReceiveNew(e, p, beat, ping)
    PROVE  \A x \in End : Moves(x)
  <1> DEFINE heard == AckIn(snd[e], p.acks)
             beaten == IF beat THEN Beat(heard, ping) ELSE heard
             t == IF p.instant THEN ReplyTo(beaten, p.serial) ELSE beaten
  <1>1. snd' = [snd EXCEPT ![e] = t] /\ opened' = opened
    BY DEF ReceiveNew
  <1>2. /\ SndOK(snd[e]) /\ SndInv(snd[e], opened[e]) /\ opened[e] \in BOOLEAN
        /\ OutInv(snd[e], opened[e])
    BY OutputParts
  <1>3. /\ SndOK(heard) /\ SndInv(heard, opened[e]) /\ Follows(snd[e], heard)
        /\ OutInv(heard, opened[e]) /\ heard.serial = snd[e].serial
        /\ Len(heard.msgs) = Len(snd[e].msgs)
        /\ \A i \in 1 .. Len(snd[e].msgs) : heard.msgs[i].status = "acked" =>
              snd[e].msgs[i].status = "acked" \/ snd[e].msgs[i].serial \in p.acks
    BY <1>2, Heard, AckInOK, AckInInv, AckInOut
  <1> HIDE DEF heard
  <1>4. /\ SndOK(beaten) /\ SndInv(beaten, opened[e]) /\ Follows(heard, beaten)
        /\ OutInv(beaten, opened[e]) /\ Tidy(heard, beaten)
        /\ beaten.serial = heard.serial
    BY <1>2, <1>3, BeatOK, BeatInv, BeatOut, FollowsRefl, TidyRefl
  <1> HIDE DEF beaten
  <1>5. /\ SndOK(t) /\ Follows(beaten, t) /\ OutInv(t, opened[e])
        /\ Tidy(beaten, t) /\ t.serial = beaten.serial
    BY <1>2, <1>4, Heard, ReplyToOK, ReplyToInv, ReplyToOut, FollowsRefl, TidyRefl
  <1> HIDE DEF t
  <1>6. Follows(snd[e], t)
    <2>1. Follows(snd[e], beaten)
      BY <1>2, <1>3, <1>4, FollowsTrans
    <2> QED BY <1>2, <1>4, <1>5, <2>1, FollowsTrans
  <1>7. Tidy(heard, t)
    BY <1>4, <1>5, TidyTrans
  <1>8. Told(snd[e], t, net[e])
    BY <1>3, <1>7 DEF Tidy, Told
  <1> QED BY <1>1, <1>5, <1>6, <1>8, MovesTo

LEMMA NextMoves ==
    ASSUME TypeOK, OrderInv, Outputs, [Next]_vars
    PROVE  \A x \in End : Moves(x)
  <1>1. CASE UNCHANGED vars
    BY <1>1, MovesNot DEF vars
  <1>2. ASSUME NEW e \in End, User(e) PROVE \A x \in End : Moves(x)
    BY <1>2, DispatchMoves, CloseMoves DEF User
  <1>3. ASSUME NEW e \in End, Sender(e) PROVE \A x \in End : Moves(x)
    BY <1>3, SendMoves, PostSendMoves, ExpireMoves, TimeoutMoves,
       CheckConnectivityMoves DEF Sender
  <1>4. ASSUME NEW e \in End, Listener(e) PROVE \A x \in End : Moves(x)
    <2>1. ASSUME NEW p \in net[e], Receive(e, p) PROVE \A x \in End : Moves(x)
      <3>1. CASE ReceiveResent(e, p)
        BY <3>1, MovesNot DEF ReceiveResent
      <3>2. CASE ReceiveFar(e, p)
        BY <3>2, ReceiveFarMoves
      <3>3. ASSUME NEW beat \in BOOLEAN, NEW ping \in BOOLEAN,
                   ReceiveNew(e, p, beat, ping)
            PROVE  \A x \in End : Moves(x)
        BY <3>3, ReceiveNewMoves
      <3> QED BY <2>1, <3>1, <3>2, <3>3 DEF Receive
    <2>2. ASSUME NEW p \in net[e], Lose(e, p) PROVE \A x \in End : Moves(x)
      BY <2>2, MovesNot DEF Lose
    <2>3. CASE ProcessVIM(e)
      BY <2>3, MovesNot DEF ProcessVIM
    <2>4. CASE HandOver(e)
      BY <2>4, MovesNot DEF HandOver
    <2> QED BY <1>4, <2>1, <2>2, <2>3, <2>4 DEF Listener
  <1> QED BY <1>1, <1>2, <1>3, <1>4 DEF Next

\* The first message of a stream that has no serial gets the next one.
LEMMA NumberedOn ==
    ASSUME NEW s, SndOK(s), NEW t, SndOK(t), NEW open, SndInv(t, open),
           Follows(s, t), t.serial <= s.serial + 1, StreamsNumbered(s)
    PROVE  StreamsNumbered(t)
  <1>1. /\ Len(s.msgs) \in Nat /\ Len(t.msgs) \in Nat
        /\ Len(s.msgs) <= Len(t.msgs)
        /\ s.serial \in Nat \ {0} /\ t.serial \in Nat
    BY SndFields, ParameterTypes DEF Follows, Keeps
  <1>2. \A i \in 1 .. Len(t.msgs) :
            /\ t.msgs[i].serial \in Nat /\ t.msgs[i].serial < t.serial
            /\ t.msgs[i].pred \in Nat
            /\ t.msgs[i].pred # 0 => t.msgs[i].pred \in 1 .. Len(t.msgs)
    BY QueueMembers, ParameterTypes DEF SndInv, SerialsUsedOnce, Msg
  <1>3. \A i, j \in 1 .. Len(t.msgs) :
            /\ i < j /\ t.msgs[i].class \in Stream
            /\ t.msgs[i].class = t.msgs[j].class
            /\ t.msgs[j].serial # 0 /\ t.msgs[j].serial < s.serial
            => t.msgs[i].serial # 0 /\ t.msgs[i].serial < t.msgs[j].serial
    <2> SUFFICES ASSUME NEW i \in 1 .. Len(t.msgs), NEW j \in 1 .. Len(t.msgs),
                        i < j, t.msgs[i].class \in Stream,
                        t.msgs[i].class = t.msgs[j].class,
                        t.msgs[j].serial # 0, t.msgs[j].serial < s.serial
                 PROVE  /\ t.msgs[i].serial # 0
                        /\ t.msgs[i].serial < t.msgs[j].serial
      OBVIOUS
    <2>1. t.msgs[j].serial \in 1 .. s.serial - 1
      BY <1>1, <1>2
    <2>2. j \in 1 .. Len(s.msgs) /\ s.msgs[j].serial = t.msgs[j].serial
      BY <2>1 DEF Follows
    <2>3. i \in 1 .. Len(s.msgs)
      BY <1>1, <2>2
    <2>4. /\ s.msgs[i].class = t.msgs[i].class /\ s.msgs[j].class = t.msgs[j].class
          /\ s.msgs[i].serial # 0 => t.msgs[i].serial = s.msgs[i].serial
      BY <2>2, <2>3 DEF Follows, Keeps
    <2>5. s.msgs[i].serial # 0 /\ s.msgs[i].serial < s.msgs[j].serial
      BY <2>2, <2>3, <2>4 DEF StreamsNumbered
    <2> QED BY <2>2, <2>4, <2>5
  <1> SUFFICES ASSUME NEW i \in 1 .. Len(t.msgs), NEW j \in 1 .. Len(t.msgs),
                      i < j, t.msgs[i].class \in Stream,
                      t.msgs[i].class = t.msgs[j].class, t.msgs[j].serial # 0
               PROVE  /\ t.msgs[i].serial # 0
                      /\ t.msgs[i].serial < t.msgs[j].serial
    BY DEF StreamsNumbered
  <1>4. CASE t.msgs[j].serial < s.serial
    BY <1>3, <1>4
  <1>5. CASE ~(t.msgs[j].serial < s.serial)
    <2>1. t.msgs[j].serial = s.serial
      BY <1>1, <1>2, <1>5
    <2> DEFINE p == t.msgs[j].pred
    <2>2. /\ \A k \in 1 .. Len(t.msgs) :
                p < k /\ k < j => t.msgs[k].class # t.msgs[j].class
          /\ p # 0 => /\ p \in 1 .. Len(t.msgs) /\ p < j
                      /\ t.msgs[p].class = t.msgs[j].class
                      /\ t.msgs[p].serial # 0
      BY <1>2 DEF SndInv, Chained, PredecessorsLeft
    <2>3. p \in Nat
      BY <1>2
    <2> HIDE DEF p
    <2>4. i <= p /\ p # 0
      BY <2>2, <2>3
    <2>5. t.msgs[p].serial < s.serial
      <3>1. t.msgs[p].serial # t.msgs[j].serial
        BY <2>2, <2>4 DEF SndInv, SerialsUsedOnce
      <3>2. t.msgs[p].serial \in Nat /\ t.msgs[p].serial < t.serial
        BY <1>2, <2>2, <2>4
      <3> QED BY <1>1, <2>1, <3>1, <3>2
    <2>6. CASE i = p
      BY <2>1, <2>2, <2>4, <2>5, <2>6
    <2>7. CASE i < p
      <3>1. t.msgs[i].serial # 0 /\ t.msgs[i].serial < t.msgs[p].serial
        BY <1>3, <2>2, <2>4, <2>5, <2>7
      <3> QED BY <1>2, <2>1, <2>2, <2>4, <2>5, <3>1
    <2> QED BY <2>3, <2>4, <2>6, <2>7
  <1> QED BY <1>4, <1>5

\* The output sides keep their records.
THEOREM OutputsAlways == Spec => []Outputs
  <1>1. Init => Outputs
    <2> SUFFICES ASSUME Init, NEW e \in End
                 PROVE  OutInv(snd[e], opened[e]) /\ StreamsNumbered(snd[e])
      BY DEF Outputs
    <2>1. /\ snd[e].msgs = <<>> /\ snd[e].urgentQ = <<>> /\ snd[e].vimQ = <<>>
          /\ snd[e].commonQ = <<>> /\ snd[e].revisited = {}
      BY DEF Init
    <2>2. Len(<<>>) = 0
      OBVIOUS
    <2>3. Apart(snd[e])
      BY <2>1, EmptyQueue DEF Apart
    <2> QED BY <2>1, <2>2, <2>3, EmptyQueue DEF OutInv, Somewhere, StreamsNumbered
  <1>2. TypeOK /\ TypeOK' /\ OrderInv /\ OrderInv' /\ Outputs /\ [Next]_vars
            => Outputs'
    <2> SUFFICES ASSUME TypeOK, TypeOK', OrderInv, OrderInv', Outputs, [Next]_vars,
                        NEW e \in End
                 PROVE  OutInv(snd'[e], opened'[e]) /\ StreamsNumbered(snd'[e])
      BY DEF Outputs
    <2>1. Moves(e)
      BY NextMoves
    <2>2. SndOK(snd[e]) /\ StreamsNumbered(snd[e])
      BY OutputParts
    <2>3. SndOK(snd'[e]) /\ SndInv(snd'[e], opened'[e])
      BY DEF TypeOK, SndOK, OrderInv
    <2>4. StreamsNumbered(snd'[e])
      BY <2>1, <2>2, <2>3, NumberedOn DEF Moves, Told
    <2> QED BY <2>1, <2>4 DEF Moves
  <1> QED BY <1>1, <1>2, TypeCorrect, OrderAlways, PTL DEF Spec

-----------------------------------------------------------------------------
(***************************************************************************)
(* What the records of the output sides show.                              *)
(***************************************************************************)
\* The second control word of a message has one use: the predecessor of an
\* ordered message or the delay of an answer (setDelayMessage, preSend).
THEOREM ControlWordAlways == Spec => []ControlWordOwner
  <1>1. TypeOK /\ Outputs => ControlWordOwner
    <2> SUFFICES ASSUME TypeOK, Outputs, NEW e \in End,
                        NEW i \in DOMAIN snd[e].msgs
                 PROVE  ~(Ordered(snd[e].msgs[i]) /\ snd[e].msgs[i].reply # 0)
      BY DEF ControlWordOwner
    <2>1. i \in 1 .. Len(snd[e].msgs)
      BY TypeParts, SndFields
    <2> QED BY <2>1 DEF Outputs, OutInv, Ordered
  <1> QED BY <1>1, TypeCorrect, OutputsAlways, PTL

\* How often a queue without repetitions holds an element.
LEMMA TimesDistinct ==
    ASSUME NEW q \in Seq(Nat), Distinct(q), NEW i
    PROVE  Cardinality({k \in DOMAIN q : q[k] = i})
               = IF i \in Range(q) THEN 1 ELSE 0
  <1> DEFINE At == {k \in DOMAIN q : q[k] = i}
  <1>1. DOMAIN q = 1 .. Len(q)
    BY LenProperties
  <1>2. CASE i \in Range(q)
    <2>1. PICK k \in DOMAIN q : q[k] = i
      BY <1>2 DEF Range
    <2>2. At = {k}
      BY <1>1, <2>1 DEF Distinct
    <2> QED BY <1>2, <2>2, FS_Singleton
  <1>3. CASE i \notin Range(q)
    <2>1. At = {}
      BY <1>3 DEF Range
    <2> QED BY <1>3, <2>1, FS_EmptySet
  <1> QED BY <1>2, <1>3

\* Open, the channel has every guaranteed message in exactly one place, from
\* where it will be sent or sent again (insertResend, getPreparedMessage,
\* postSend).
THEOREM NothingForgottenAlways == Spec => []NothingForgotten
  <1>1. TypeOK /\ Outputs => NothingForgotten
    <2> SUFFICES ASSUME TypeOK, Outputs, NEW e \in End, opened[e],
                        NEW i \in DOMAIN snd[e].msgs, IsVIM(snd[e].msgs[i])
                 PROVE  Places(snd[e], i) = 1
      BY DEF NothingForgotten
    <2> DEFINE s == snd[e]
               Times(q) == Cardinality({k \in DOMAIN q : q[k] = i})
    <2>1. SndOK(s) /\ OutInv(s, opened[e])
      BY TypeParts DEF Outputs
    <2>2. i \in 1 .. Len(s.msgs) /\ s.msgs[i].class \in Stream
      BY <2>1, SndFields DEF IsVIM
    <2>3. /\ s.urgentQ \in Seq(Nat) /\ s.vimQ \in Seq(Nat)
          /\ s.commonQ \in Seq(Nat)
      BY <2>1, SndFields
    <2>4. Distinct(s.urgentQ) /\ Distinct(s.vimQ) /\ Distinct(s.commonQ)
      BY <2>1 DEF OutInv, Apart
    <2>5. Places(s, i) =
              Times(s.urgentQ) + Times(s.vimQ) + Times(s.commonQ)
                  + (IF s.prepared = i THEN 1 ELSE 0)
                  + (IF i \in s.revisited THEN 1 ELSE 0)
      BY DEF Places
    <2> HIDE DEF s
    <2>6. /\ Times(s.urgentQ) = IF i \in Range(s.urgentQ) THEN 1 ELSE 0
          /\ Times(s.vimQ) = IF i \in Range(s.vimQ) THEN 1 ELSE 0
          /\ Times(s.commonQ) = IF i \in Range(s.commonQ) THEN 1 ELSE 0
      BY <2>3, <2>4, TimesDistinct
    <2> HIDE DEF Times
    <2>7. i \notin Range(s.commonQ)
      BY <2>1, <2>2 DEF OutInv, Stream
    <2>8. /\ \/ i \in Range(s.urgentQ) \/ i \in Range(s.vimQ)
             \/ i \in s.revisited \/ i = s.prepared
          /\ i \in Range(s.urgentQ) => /\ i \notin Range(s.vimQ)
                                       /\ i \notin s.revisited /\ i # s.prepared
          /\ i \in Range(s.vimQ) => i \notin s.revisited /\ i # s.prepared
          /\ i \in s.revisited => i # s.prepared
      BY <2>1, <2>2 DEF OutInv, Apart, Somewhere
    <2>9. Places(s, i) = 1
      BY <2>5, <2>6, <2>7, <2>8
    <2> QED BY <2>9 DEF s
  <1> QED BY <1>1, TypeCorrect, OutputsAlways, PTL

-----------------------------------------------------------------------------
(***************************************************************************)
(* The input side: its inductive invariant.                                *)
(***************************************************************************)
\* The ring and the mask speak of the same serials, none of them newer than
\* the newest.
RingOK(r) ==
    /\ r.inputMin <= r.inputMax /\ r.inputMax - r.inputMin < AckArray
    /\ \A n \in r.ackMask : r.maskMin <= n /\ n <= r.inputMax
    /\ \A n \in r.inputMin .. r.inputMax : n >= r.maskMin =>
          (r.ack[Slot(n)] # NotReceived <=> n \in r.ackMask)

Unlike(q) == \A j, k \in 1 .. Len(q) : q[j].serial = q[k].serial => j = k

\* No message waits in two places.
WaitsOnce(r) ==
    /\ Unlike(r.stack) /\ \A n \in Serial : Unlike(r.deferred[n])
    /\ \A n \in Serial : \A x \in Range(r.deferred[n]) :
          /\ \A y \in Range(r.stack) : x.serial # y.serial
          /\ \A m \in Serial \ {n} : \A y \in Range(r.deferred[m]) :
                x.serial # y.serial

\* What waits was received, was not processed, and waits in one place.
Orderly(r) ==
    /\ r.procMask \subseteq r.ackMask
    /\ \A x \in Waiting(r) : Received(r, x.serial) /\ x.serial \notin r.procMask
    /\ WaitsOnce(r)

InInv(r) ==
    /\ RingOK(r)
    /\ \A n \in r.procMask : r.deferred[n] = <<>>
    /\ r.handing => Head(r.stack).serial >= r.maskMin
    /\ ~r.rejected => Orderly(r)

\* Serial n will not be handed over any more.
Passed(r, n) == n < r.maskMin \/ n \in r.procMask

\* A step of an input side forgets nothing.
Onward(r, u) ==
    /\ r.maskMin <= u.maskMin
    /\ \A n \in Serial : /\ Received(r, n) => Received(u, n)
                         /\ Passed(r, n) => Passed(u, n)
    /\ r.rejected => u.rejected

LEMMA RcvFields ==
    ASSUME NEW r, RcvOK(r)
    PROVE  /\ r.inputMax \in Nat \ {0} /\ r.inputMin \in Nat \ {0}
           /\ r.maskMin \in Nat \ {0}
           /\ r.ackMask \in SUBSET Serial /\ r.procMask \in SUBSET Serial
           /\ r.ack \in [Slots -> 0 .. AckRedundancy \cup {NotReceived}]
           /\ r.deferred \in [Serial -> Seq(In)] /\ r.stack \in Seq(In)
           /\ r.handing \in BOOLEAN /\ r.rejected \in BOOLEAN
           /\ r.handing => r.stack # <<>>
           /\ Serial \subseteq Nat \ {0}
  BY DEF RcvOK, Rcv, Serial

\* What waits was kept by Admit.
LEMMA WaitingType ==
    ASSUME NEW r, RcvOK(r)
    PROVE  /\ \A x \in Waiting(r) : x \in In
           /\ \A x \in Range(r.stack) : x \in In
           /\ \A n \in Serial : \A x \in Range(r.deferred[n]) : x \in In
  <1>1. Range(r.stack) \subseteq In
    BY RcvFields, RangeOfMember
  <1>2. \A n \in Serial : Range(r.deferred[n]) \subseteq In
    BY RcvFields, RangeOfMember
  <1> QED BY <1>1, <1>2, WaitingMember
-----------------------------------------------------------------------------
(***************************************************************************)
(* The slots of the ring.                                                  *)
(***************************************************************************)
LEMMA SlotType ==
    ASSUME NEW n \in Nat
    PROVE  Slot(n) \in Slots
  BY ParameterTypes DEF Slot, Slots

\* Serials closer together than the length of the ring have slots of their own.
LEMMA SlotsApart ==
    ASSUME NEW a \in Nat, NEW b \in Nat, a < b, b - a < AckArray
    PROVE  Slot(a) # Slot(b)
  <1> DEFINE k == (b \div AckArray) - (a \div AckArray)
  <1>1. AckArray \in Nat \ {0}
    BY ParameterTypes
  <1>2. /\ a = AckArray * (a \div AckArray) + Slot(a) /\ a \div AckArray \in Int
        /\ Slot(a) \in Int
    BY <1>1 DEF Slot
  <1>3. /\ b = AckArray * (b \div AckArray) + Slot(b) /\ b \div AckArray \in Int
        /\ Slot(b) \in Int
    BY <1>1 DEF Slot
  <1> SUFFICES ASSUME Slot(a) = Slot(b) PROVE FALSE
    OBVIOUS
  <1>4. b - a = AckArray * k /\ k \in Int
    BY <1>1, <1>2, <1>3
  <1> HIDE DEF k
  <1>5. CASE k >= 1
    <2>1. AckArray * k >= AckArray
      BY <1>1, <1>4, <1>5
    <2> QED BY <1>1, <1>4, <2>1
  <1>6. CASE k <= 0
    <2>1. AckArray * k <= 0
      BY <1>1, <1>4, <1>6
    <2> QED BY <1>1, <1>4, <2>1
  <1> QED BY <1>1, <1>4, <1>5, <1>6

\* Counting an acknowledgement does not change which serials are recorded.
LEMMA RingKept ==
    ASSUME NEW r, RcvOK(r), RingOK(r), NEW u,
           u.inputMin = r.inputMin, u.inputMax = r.inputMax,
           u.maskMin = r.maskMin, u.ackMask = r.ackMask,
           \A i \in Slots : u.ack[i] = NotReceived <=> r.ack[i] = NotReceived
    PROVE  RingOK(u)
  <1>1. \A n \in r.inputMin .. r.inputMax : Slot(n) \in Slots
    BY RcvFields, SlotType
  <1> QED BY <1>1 DEF RingOK

\* Such a step leaves the rest of the input side alone.
LEMMA CountKept ==
    ASSUME NEW r, RcvOK(r), InInv(r), NEW u, RingOK(u),
           u.maskMin = r.maskMin, u.ackMask = r.ackMask,
           u.procMask = r.procMask, u.stack = r.stack,
           u.deferred = r.deferred, u.handing = r.handing,
           u.rejected = r.rejected
    PROVE  InInv(u) /\ Onward(r, u) /\ Onward(u, r)
  <1>1. Waiting(u) = Waiting(r)
    BY DEF Waiting
  <1>2. r.maskMin <= u.maskMin /\ u.maskMin <= r.maskMin
    BY RcvFields
  <1>3. Orderly(r) => Orderly(u)
    BY <1>1 DEF Orderly, WaitsOnce, Received
  <1> QED BY <1>2, <1>3 DEF InInv, Onward, Received, Passed
-----------------------------------------------------------------------------
(***************************************************************************)
(* Steps of the input side.                                                *)
(***************************************************************************)
LEMMA AckOutIn ==
    ASSUME NEW r, RcvOK(r), InInv(r), NEW m \in Msg
    PROVE  LET u == AckOut(r, m)
           IN /\ InInv(u) /\ Onward(r, u) /\ u.stack = r.stack
              /\ u.deferred = r.deferred /\ u.handing = r.handing
              /\ u.rejected = r.rejected /\ u.maskMin = r.maskMin
              /\ u.ackMask = r.ackMask /\ u.procMask = r.procMask
  <1> DEFINE u == AckOut(r, m)
             Counts(i) == \E n \in AckSpan(r, m) : n >= r.inputMin /\ Slot(n) = i
  <1>1. /\ u.inputMin = r.inputMin /\ u.inputMax = r.inputMax
        /\ u.maskMin = r.maskMin /\ u.ackMask = r.ackMask
        /\ u.procMask = r.procMask /\ u.stack = r.stack
        /\ u.deferred = r.deferred /\ u.handing = r.handing
        /\ u.rejected = r.rejected
        /\ u.ack = [i \in Slots |-> IF r.ack[i] > 0 /\ Counts(i)
                                    THEN r.ack[i] - 1 ELSE r.ack[i]]
    BY DEF AckOut, RcvOK, Rcv
  <1> HIDE DEF u
  <1>2. \A i \in Slots : r.ack[i] \in 0 .. AckRedundancy \cup {NotReceived}
    BY RcvFields
  <1>3. \A i \in Slots : u.ack[i] = IF r.ack[i] > 0 /\ Counts(i)
                                    THEN r.ack[i] - 1 ELSE r.ack[i]
    BY <1>1
  <1> HIDE DEF Counts
  <1>4. \A i \in Slots : u.ack[i] = NotReceived <=> r.ack[i] = NotReceived
    BY <1>2, <1>3, ParameterTypes DEF NotReceived
  <1>5. RingOK(u)
    BY <1>1, <1>4, RingKept DEF InInv
  <1> QED BY <1>1, <1>5, CountKept DEF u

LEMMA InputResentIn ==
    ASSUME NEW r, RcvOK(r), InInv(r), NEW p \in Packet, Received(r, p.serial)
    PROVE  LET u == InputResent(r, p)
           IN /\ InInv(u) /\ Onward(r, u) /\ u.stack = r.stack
              /\ u.deferred = r.deferred /\ u.handing = r.handing
              /\ u.rejected = r.rejected /\ u.maskMin = r.maskMin
              /\ u.ackMask = r.ackMask /\ u.procMask = r.procMask
  <1> DEFINE u == InputResent(r, p)
  <1>1. p.serial \in Serial /\ p.serial \in Nat
    BY RcvFields DEF Packet
  <1>2. /\ u.inputMin = r.inputMin /\ u.inputMax = r.inputMax
        /\ u.maskMin = r.maskMin /\ u.ackMask = r.ackMask
        /\ u.procMask = r.procMask /\ u.stack = r.stack
        /\ u.deferred = r.deferred /\ u.handing = r.handing
        /\ u.rejected = r.rejected
    BY DEF InputResent, RcvOK, Rcv
  <1>3. \/ u.ack = r.ack
        \/ /\ p.serial >= r.maskMin /\ p.serial >= r.inputMin
           /\ u.ack = [r.ack EXCEPT ![Slot(p.serial)] = AckRedundancy]
    BY <1>1, RcvFields DEF InputResent, RcvOK, Rcv
  <1> HIDE DEF u
  <1>4. \A i \in Slots : u.ack[i] = NotReceived <=> r.ack[i] = NotReceived
    <2> SUFFICES ASSUME p.serial >= r.maskMin, p.serial >= r.inputMin,
                        u.ack = [r.ack EXCEPT ![Slot(p.serial)] = AckRedundancy],
                        NEW i \in Slots
                 PROVE  u.ack[i] = NotReceived <=> r.ack[i] = NotReceived
      BY <1>3
    <2>1. p.serial \in r.ackMask
      BY <1>1, RcvFields DEF Received
    <2>2. p.serial \in r.inputMin .. r.inputMax
      BY <1>1, <2>1, RcvFields DEF InInv, RingOK
    <2>3. r.ack[Slot(p.serial)] # NotReceived
      BY <2>1, <2>2 DEF InInv, RingOK
    <2>4. AckRedundancy # NotReceived
      BY ParameterTypes DEF NotReceived
    <2> QED BY <2>3, <2>4, RcvFields
  <1>5. RingOK(u)
    BY <1>2, <1>4, RingKept DEF InInv
  <1> QED BY <1>2, <1>5, CountKept DEF u

LEMMA InputStatisticsIn ==
    ASSUME NEW r, RcvOK(r), InInv(r), r.stack = <<>>,
           NEW serial \in Serial, ~Received(r, serial)
    PROVE  LET u == InputStatistics(r, serial)
           IN /\ InInv(u) /\ Onward(r, u) /\ Received(u, serial)
              /\ u.stack = r.stack /\ u.deferred = r.deferred
              /\ u.rejected = r.rejected /\ ~u.handing
              /\ u.procMask \subseteq r.procMask
              /\ u.ackMask \subseteq r.ackMask \cup {serial}
              /\ \A n \in Serial : n \in r.ackMask /\ n \notin u.ackMask
                    => n < u.maskMin
  <1> DEFINE newest == IF serial > r.inputMax THEN serial ELSE r.inputMax
             oldest == IF newest - r.inputMin >= AckArray
                       THEN newest - AckArray + 1 ELSE r.inputMin
             keep == IF newest - r.maskMin > MaxBitMask
                     THEN newest - MaxBitMask + GoodBitMask ELSE r.maskMin
             missed == {Slot(s) : s \in r.inputMax + 1 .. newest}
             u == InputStatistics(r, serial)
  <1>1. /\ r.inputMax \in Nat \ {0} /\ r.inputMin \in Nat \ {0}
        /\ r.maskMin \in Nat \ {0} /\ serial \in Nat \ {0}
        /\ r.ackMask \subseteq Nat /\ r.procMask \subseteq r.ackMask \cup Nat
        /\ ~r.handing
    BY RcvFields
  <1>2. /\ r.inputMin <= r.inputMax /\ r.inputMax - r.inputMin < AckArray
        /\ \A n \in r.ackMask : r.maskMin <= n /\ n <= r.inputMax
        /\ serial >= r.maskMin /\ serial \notin r.ackMask
    BY <1>1 DEF InInv, RingOK, Received
  <1>3. /\ u.inputMax = newest /\ u.inputMin = oldest /\ u.maskMin = keep
        /\ u.ackMask = {s \in r.ackMask \cup {serial} : s >= keep}
        /\ u.procMask = {s \in r.procMask : s >= keep}
        /\ u.stack = r.stack /\ u.deferred = r.deferred
        /\ u.handing = r.handing /\ u.rejected = r.rejected
        /\ u.ack = [i \in Slots |->
                     IF i = Slot(serial) /\ serial >= oldest THEN AckRedundancy
                     ELSE IF i \in missed THEN NotReceived ELSE r.ack[i]]
    BY DEF InputStatistics, RcvOK, Rcv
  <1>4. /\ newest \in Nat \ {0} /\ oldest \in Nat \ {0} /\ keep \in Nat \ {0}
        /\ serial <= newest /\ r.inputMax <= newest
        /\ oldest <= newest /\ newest - oldest < AckArray
        /\ r.inputMin <= oldest /\ r.maskMin <= keep
        /\ newest # r.inputMax => newest = serial
    <2>1. /\ newest \in Nat \ {0} /\ serial <= newest /\ r.inputMax <= newest
          /\ newest # r.inputMax => newest = serial
      BY <1>1
    <2> HIDE DEF newest
    <2>2. /\ oldest \in Nat \ {0} /\ oldest <= newest /\ newest - oldest < AckArray
          /\ r.inputMin <= oldest
      BY <1>1, <1>2, <2>1, ParameterTypes
    <2>3. keep \in Nat \ {0} /\ r.maskMin <= keep
      BY <1>1, <2>1, ParameterTypes
    <2> QED BY <2>1, <2>2, <2>3
  <1> HIDE DEF newest, oldest, keep, u
  <1>5. RingOK(u)
    <2>1. \A n \in u.ackMask : u.maskMin <= n /\ n <= u.inputMax
      BY <1>1, <1>2, <1>3, <1>4
    <2>2. ASSUME NEW n \in oldest .. newest, n >= keep
          PROVE  u.ack[Slot(n)] # NotReceived <=> n \in u.ackMask
      <3>1. n \in Nat /\ Slot(n) \in Slots /\ (n \in u.ackMask <=> n \in r.ackMask \cup {serial})
        BY <1>3, <1>4, <2>2, SlotType
      <3>2. CASE n = serial
        <4>1. u.ack[Slot(n)] = AckRedundancy
          BY <1>3, <1>4, <3>1, <3>2
        <4> QED BY <3>1, <3>2, <4>1, ParameterTypes DEF NotReceived
      <3>3. CASE n # serial
        <4>1. ~(Slot(n) = Slot(serial) /\ serial >= oldest)
          <5> SUFFICES ASSUME serial >= oldest PROVE Slot(n) # Slot(serial)
            OBVIOUS
          <5>1. n < serial => serial - n < AckArray
            BY <1>1, <1>4, <3>1, ParameterTypes
          <5>2. serial < n => n - serial < AckArray
            BY <1>1, <1>4, <3>1, ParameterTypes
          <5> QED BY <1>1, <3>1, <3>3, <5>1, <5>2, SlotsApart
        <4>2. u.ack[Slot(n)] = IF Slot(n) \in missed THEN NotReceived
                                                     ELSE r.ack[Slot(n)]
          BY <1>3, <3>1, <4>1
        <4>3. CASE n > r.inputMax
          <5>1. Slot(n) \in missed
            BY <1>1, <1>4, <3>1, <4>3
          <5> QED BY <1>1, <1>2, <3>1, <3>3, <4>2, <4>3, <5>1
        <4>4. CASE n <= r.inputMax
          <5>1. Slot(n) \notin missed
            <6> SUFFICES ASSUME NEW s \in r.inputMax + 1 .. newest
                         PROVE  Slot(n) # Slot(s)
              OBVIOUS
            <6>1. s \in Nat /\ n < s /\ s - n < AckArray
              BY <1>1, <1>4, <3>1, <4>4, ParameterTypes
            <6> QED BY <3>1, <6>1, SlotsApart
          <5>2. n \in r.inputMin .. r.inputMax /\ n >= r.maskMin
            BY <1>1, <1>4, <2>2, <3>1, <4>4
          <5>3. r.ack[Slot(n)] # NotReceived <=> n \in r.ackMask
            BY <5>2 DEF InInv, RingOK
          <5> QED BY <3>1, <3>3, <4>2, <5>1, <5>3
        <4> QED BY <1>1, <3>1, <4>3, <4>4
      <3> QED BY <3>2, <3>3
    <2> QED BY <1>3, <1>4, <2>1, <2>2 DEF RingOK
  <1>6. /\ Onward(r, u) /\ Received(u, serial)
        /\ \A n \in Serial : n \in r.ackMask /\ n \notin u.ackMask
              => n < u.maskMin
        /\ u.procMask \subseteq r.procMask
        /\ u.ackMask \subseteq r.ackMask \cup {serial}
    <2>1. \A n \in Serial : n \in Nat /\ (n >= keep \/ n < keep)
      BY <1>4, RcvFields
    <2>2. \A n \in Serial : n < r.maskMin => n < keep
      BY <1>1, <1>4, <2>1
    <2> QED BY <1>1, <1>3, <1>4, <2>1, <2>2 DEF Onward, Received, Passed
  <1>7. ~r.rejected => Orderly(u)
    <2> SUFFICES ASSUME Orderly(r)
                 PROVE  Orderly(u)
      BY DEF InInv
    <2>1. Waiting(u) = Waiting(r)
      BY <1>3 DEF Waiting
    <2>2. \A x \in Waiting(r) : x.serial \in Serial
      BY WaitingType DEF In
    <2>3. u.procMask \subseteq u.ackMask
      BY <1>3 DEF Orderly
    <2>4. WaitsOnce(u)
      BY <1>3 DEF Orderly, WaitsOnce
    <2> QED BY <1>6, <2>1, <2>2, <2>3, <2>4 DEF Orderly, Onward
  <1>8. InInv(u)
    BY <1>1, <1>3, <1>5, <1>7 DEF InInv
  <1> QED BY <1>1, <1>3, <1>6, <1>8 DEF u

LEMMA UnlikeOne ==
    ASSUME NEW x \in In
    PROVE  Unlike(<<x>>) /\ Unlike(<<>>)
  BY DEF Unlike

LEMMA UnlikeTail ==
    ASSUME NEW q \in Seq(In), Unlike(q), q # <<>>
    PROVE  /\ Unlike(Tail(q))
           /\ \A x \in Range(Tail(q)) : x.serial # Head(q).serial
  <1> DEFINE u == Tail(q)
  <1>1. /\ u \in Seq(In) /\ Len(u) = Len(q) - 1 /\ Head(q) = q[1]
        /\ \A k \in 1 .. Len(q) - 1 : u[k] = q[k + 1]
    BY HeadTailProperties
  <1>2. Len(q) \in Nat \ {0}
    BY EmptySeq, LenProperties
  <1>3. Range(u) = {u[k] : k \in 1 .. Len(u)}
    BY <1>1, RangeEquality
  <1> HIDE DEF u
  <1>4. \A k \in 1 .. Len(u) : k + 1 \in 1 .. Len(q) /\ u[k] = q[k + 1]
    BY <1>1, <1>2
  <1>5. Unlike(u)
    <2> SUFFICES ASSUME NEW j \in 1 .. Len(u), NEW k \in 1 .. Len(u),
                        u[j].serial = u[k].serial
                 PROVE  j = k
      BY DEF Unlike
    <2>1. j + 1 = k + 1
      BY <1>4 DEF Unlike
    <2> QED BY <2>1
  <1>6. \A x \in Range(u) : x.serial # Head(q).serial
    <2> SUFFICES ASSUME NEW k \in 1 .. Len(u), u[k].serial = q[1].serial
                 PROVE  FALSE
      BY <1>1, <1>3
    <2>1. k + 1 = 1
      BY <1>2, <1>4 DEF Unlike
    <2> QED BY <2>1
  <1> QED BY <1>5, <1>6 DEF u

LEMMA UnlikeJoined ==
    ASSUME NEW p \in Seq(In), NEW q \in Seq(In), Unlike(p), Unlike(q),
           \A x \in Range(p) : \A y \in Range(q) : x.serial # y.serial
    PROVE  Unlike(p \o q)
  <1> DEFINE u == p \o q
  <1>1. /\ Len(u) = Len(p) + Len(q) /\ Len(p) \in Nat /\ Len(q) \in Nat
        /\ \A k \in 1 .. Len(u) : u[k] = IF k <= Len(p) THEN p[k] ELSE q[k - Len(p)]
    BY ConcatProperties, LenProperties
  <1>2. /\ \A k \in 1 .. Len(p) : p[k] \in Range(p)
        /\ \A k \in 1 .. Len(q) : q[k] \in Range(q)
    BY RangeOfMember
  <1> HIDE DEF u
  <1> SUFFICES ASSUME NEW j \in 1 .. Len(u), NEW k \in 1 .. Len(u),
                      u[j].serial = u[k].serial
               PROVE  j = k
    BY DEF Unlike, u
  <1>3. CASE j <= Len(p) /\ k <= Len(p)
    <2>1. j \in 1 .. Len(p) /\ k \in 1 .. Len(p)
      BY <1>1, <1>3
    <2> QED BY <1>1, <1>3, <2>1 DEF Unlike
  <1>4. CASE j > Len(p) /\ k > Len(p)
    <2>1. /\ j - Len(p) \in 1 .. Len(q) /\ k - Len(p) \in 1 .. Len(q)
          /\ u[j] = q[j - Len(p)] /\ u[k] = q[k - Len(p)]
      BY <1>1, <1>4
    <2>2. j - Len(p) = k - Len(p)
      BY <2>1 DEF Unlike
    <2> QED BY <1>1, <2>2
  <1>5. CASE j <= Len(p) /\ k > Len(p)
    <2>1. /\ j \in 1 .. Len(p) /\ k - Len(p) \in 1 .. Len(q)
          /\ u[j] = p[j] /\ u[k] = q[k - Len(p)]
      BY <1>1, <1>5
    <2> QED BY <1>2, <2>1
  <1>6. CASE j > Len(p) /\ k <= Len(p)
    <2>1. /\ k \in 1 .. Len(p) /\ j - Len(p) \in 1 .. Len(q)
          /\ u[k] = p[k] /\ u[j] = q[j - Len(p)]
      BY <1>1, <1>6
    <2> QED BY <1>2, <2>1
  <1> QED BY <1>1, <1>3, <1>4, <1>5, <1>6

LEMMA AdmitIn ==
    ASSUME NEW r, RcvOK(r), InInv(r), r.stack = <<>>,
           NEW p \in Packet,
           ~r.rejected =>
               /\ Received(r, p.serial) /\ p.serial \notin r.procMask
               /\ \A x \in Waiting(r) : x.serial # p.serial
    PROVE  LET u == Admit(r, p)
           IN /\ InInv(u) /\ Onward(r, u) /\ u.rejected = r.rejected
              /\ u.maskMin = r.maskMin /\ u.ackMask = r.ackMask
              /\ u.procMask = r.procMask /\ ~u.handing
              /\ Waiting(r) \subseteq Waiting(u)
              /\ p.vim => Record(p) \in Waiting(u)
              /\ \A x \in Range(u.stack) : Passed(r, x.pred)
  <1> DEFINE u == Admit(r, p)
             x == Record(p)
  <1>1. /\ x \in In /\ x.serial = p.serial /\ x.pred = p.pred
        /\ ~r.handing /\ Range(<<>>) = {}
        /\ r.deferred \in [Serial -> Seq(In)]
    BY RecordType, RcvFields, EmptyQueue
  <1> HIDE DEF x
  <1>2. \A v : /\ v.maskMin = r.maskMin /\ v.ackMask = r.ackMask
               /\ v.rejected = r.rejected
               => (Onward(r, v) <=> \A n \in Serial : Passed(r, n) => Passed(v, n))
    BY RcvFields DEF Onward, Received
  <1>3. CASE ~p.vim /\ u = r
    <2>1. Onward(r, r)
      BY <1>2
    <2> QED BY <1>1, <1>3, <2>1 DEF u
  <1>4. CASE /\ p.vim /\ p.pred \in Serial
             /\ p.pred >= r.maskMin /\ p.pred \notin r.procMask
             /\ u = [r EXCEPT !.deferred[p.pred] = <<x>> \o @]
    <2> DEFINE q == r.deferred[p.pred]
               one == <<x>>
    <2>1. /\ u.stack = r.stack /\ u.handing = r.handing
          /\ u.procMask = r.procMask /\ u.maskMin = r.maskMin
          /\ u.ackMask = r.ackMask /\ u.rejected = r.rejected
          /\ u.ack = r.ack /\ u.inputMin = r.inputMin
          /\ u.inputMax = r.inputMax
          /\ u.deferred = [r.deferred EXCEPT ![p.pred] = one \o q]
      BY <1>4 DEF RcvOK, Rcv
    <2>2. q \in Seq(In) /\ one \in Seq(In) /\ Range(one) = {x} /\ Unlike(one)
      BY <1>1, <1>4, OneElement, UnlikeOne
    <2>3. \A n \in Serial : u.deferred[n] = IF n = p.pred THEN one \o q
                                                          ELSE r.deferred[n]
      BY <1>1, <1>4, <2>1
    <2> HIDE DEF u, one
    <2>4. Range(one \o q) = {x} \cup Range(q)
      BY <2>2, RangeConcatenation
    <2> HIDE DEF q
    <2>5. /\ Range(u.stack) = {} /\ p.pred \in Serial
          /\ \A n \in Serial : Range(u.deferred[n]) =
                IF n = p.pred THEN {x} \cup Range(r.deferred[n])
                              ELSE Range(r.deferred[n])
      <3>1. Range(u.stack) = {}
        BY <1>1, <2>1
      <3>2. Range(one \o q) = {x} \cup Range(r.deferred[p.pred])
        BY <2>4 DEF q
      <3>3. \A n \in Serial : n = p.pred => u.deferred[n] = one \o q
        BY <2>3
      <3>4. \A n \in Serial : n # p.pred => u.deferred[n] = r.deferred[n]
        BY <2>3
      <3>5. ASSUME NEW n \in Serial, n = p.pred
            PROVE  Range(u.deferred[n]) = {x} \cup Range(r.deferred[n])
        <4>1. u.deferred[n] = one \o q
          BY <3>3, <3>5
        <4> QED BY <3>2, <3>5, <4>1
      <3>6. ASSUME NEW n \in Serial, n # p.pred
            PROVE  Range(u.deferred[n]) = Range(r.deferred[n])
        <4>1. u.deferred[n] = r.deferred[n]
          BY <3>4, <3>6
        <4> QED BY <4>1
      <3> QED BY <1>4, <3>1, <3>5, <3>6
    <2>6. Waiting(u) = Waiting(r) \cup {x}
      <3>1. \A y : y \in Waiting(u) <=> y \in Waiting(r) \cup {x}
        BY <1>1, <2>5, WaitingMember
      <3> QED BY <3>1
    <2>7. RingOK(u)
      BY <2>1 DEF InInv, RingOK
    <2>8. \A n \in u.procMask : u.deferred[n] = <<>>
      BY <1>4, <2>1, <2>3, RcvFields DEF InInv
    <2>9. ~r.rejected => Orderly(u)
      <3> SUFFICES ASSUME ~r.rejected, Orderly(r)
                   PROVE  Orderly(u)
        BY DEF InInv
      <3>1. \A y \in Waiting(r) : y.serial # x.serial
        BY <1>1
      <3>2. \A n \in Serial : \A y \in Range(r.deferred[n]) : y.serial # x.serial
        BY <3>1, WaitingMember
      <3>3. \A n \in Serial : Unlike(r.deferred[n])
        BY DEF Orderly, WaitsOnce
      <3>4. Unlike(q) /\ \A y \in Range(q) : x.serial # y.serial
        BY <1>4, <3>2, <3>3 DEF q
      <3>5. Unlike(one \o q)
        <4>1. \A z \in Range(one) : \A y \in Range(q) : z.serial # y.serial
          BY <2>2, <3>4
        <4> QED BY <2>2, <3>4, <4>1, UnlikeJoined
      <3>6. Unlike(u.stack) /\ \A n \in Serial : Unlike(u.deferred[n])
        BY <2>1, <2>3, <3>3, <3>5 DEF Orderly, WaitsOnce
      <3>7. WaitsOnce(u)
        <4> SUFFICES ASSUME NEW n \in Serial, NEW y \in Range(u.deferred[n]),
                            NEW m \in Serial \ {n}, NEW z \in Range(u.deferred[m])
                     PROVE  y.serial # z.serial
          BY <2>5, <3>6 DEF WaitsOnce
        <4>1. CASE y = x
          BY <2>5, <3>2, <4>1 DEF Orderly, WaitsOnce
        <4>2. CASE z = x
          BY <2>5, <3>2, <4>2 DEF Orderly, WaitsOnce
        <4>3. CASE y # x /\ z # x
          BY <2>5, <4>3 DEF Orderly, WaitsOnce
        <4> QED BY <4>1, <4>2, <4>3
      <3>8. \A y \in Waiting(u) : Received(u, y.serial) /\ y.serial \notin u.procMask
        BY <1>1, <2>1, <2>6 DEF Orderly, Received
      <3> QED BY <2>1, <3>7, <3>8 DEF Orderly
    <2>10. InInv(u)
      BY <1>1, <2>1, <2>7, <2>8, <2>9 DEF InInv
    <2>11. Onward(r, u)
      BY <1>2, <2>1 DEF Passed
    <2> QED BY <1>1, <1>4, <2>1, <2>5, <2>6, <2>10, <2>11 DEF u, x
  <1>5. CASE /\ p.vim /\ (p.pred < r.maskMin \/ p.pred \in r.procMask)
             /\ u = [r EXCEPT !.stack = <<x>>]
    <2>1. /\ u.stack = <<x>> /\ u.handing = r.handing
          /\ u.procMask = r.procMask /\ u.maskMin = r.maskMin
          /\ u.ackMask = r.ackMask /\ u.rejected = r.rejected
          /\ u.ack = r.ack /\ u.inputMin = r.inputMin
          /\ u.inputMax = r.inputMax /\ u.deferred = r.deferred
      BY <1>5 DEF RcvOK, Rcv
    <2>2. Range(u.stack) = {x} /\ Unlike(u.stack)
      BY <1>1, <2>1, OneElement, UnlikeOne
    <2> HIDE DEF u
    <2>3. Waiting(u) = Waiting(r) \cup {x}
      <3>1. \A y : y \in Waiting(u) <=> y \in Waiting(r) \cup {x}
        BY <1>1, <2>1, <2>2, WaitingMember
      <3> QED BY <3>1
    <2>4. ~r.rejected => Orderly(u)
      <3> SUFFICES ASSUME ~r.rejected, Orderly(r)
                   PROVE  Orderly(u)
        BY DEF InInv
      <3>1. \A n \in Serial : \A y \in Range(r.deferred[n]) : y.serial # x.serial
        BY <1>1, WaitingMember
      <3>2. WaitsOnce(u)
        BY <2>1, <2>2, <3>1 DEF Orderly, WaitsOnce
      <3>3. \A y \in Waiting(u) : Received(u, y.serial) /\ y.serial \notin u.procMask
        BY <1>1, <2>1, <2>3 DEF Orderly, Received
      <3> QED BY <2>1, <3>2, <3>3 DEF Orderly
    <2>5. InInv(u)
      BY <1>1, <2>1, <2>4 DEF InInv, RingOK
    <2>6. Onward(r, u)
      BY <1>2, <2>1 DEF Passed
    <2>7. Passed(r, x.pred)
      BY <1>1, <1>5 DEF Passed
    <2> QED BY <1>1, <1>5, <2>1, <2>2, <2>3, <2>5, <2>6, <2>7 DEF u, x
  <1> QED BY <1>3, <1>4, <1>5, AdmitCases DEF x

LEMMA ProcessedIn ==
    ASSUME NEW r, RcvOK(r), InInv(r), r.stack # <<>>
    PROVE  LET u == Processed(r)
               h == Head(r.stack)
           IN /\ InInv(u) /\ Onward(r, u) /\ Passed(u, h.serial)
              /\ u.rejected = r.rejected /\ u.ackMask = r.ackMask
              /\ \A x \in Waiting(r) : x = h \/ x \in Waiting(u)
  <1> DEFINE h == Head(r.stack)
             woken == r.deferred[h.serial]
             rest == Tail(r.stack)
             u == Processed(r)
  <1>1. r.stack \in Seq(In) /\ r.deferred \in [Serial -> Seq(In)]
        /\ r.maskMin \in Nat
    BY RcvFields
  <1>2. /\ h \in In /\ rest \in Seq(In) /\ h.serial \in Serial
        /\ Range(r.stack) = Range(rest) \cup {h}
    <2>1. /\ h \in In /\ rest \in Seq(In)
          /\ Range(r.stack) = Range(rest) \cup {h}
      BY <1>1, RangeOfTail
    <2> QED BY <2>1 DEF In
  <1>3. /\ u.maskMin = r.maskMin /\ u.handing = FALSE
        /\ u.procMask = IF h.serial >= r.maskMin
                        THEN r.procMask \cup {h.serial} ELSE r.procMask
        /\ u.stack = woken \o rest
        /\ u.deferred = [r.deferred EXCEPT ![h.serial] = <<>>]
        /\ u.ackMask = r.ackMask /\ u.rejected = r.rejected
        /\ u.ack = r.ack /\ u.inputMin = r.inputMin /\ u.inputMax = r.inputMax
    BY DEF Processed, RcvOK, Rcv
  <1>4. woken \in Seq(In)
    BY <1>1, <1>2
  <1>5. Range(woken \o rest) = Range(woken) \cup Range(rest) /\ Range(<<>>) = {}
    <2> HIDE DEF woken, rest
    <2> QED BY <1>2, <1>4, RangeConcatenation, EmptyQueue
  <1>6. ~r.rejected => Unlike(rest) /\ \A x \in Range(rest) : x.serial # h.serial
    BY <1>1, UnlikeTail DEF InInv, Orderly, WaitsOnce
  <1> HIDE DEF u, rest, h
  <1>7. \A n \in Serial : u.deferred[n] = IF n = h.serial THEN <<>> ELSE r.deferred[n]
    BY <1>1, <1>2, <1>3
  <1>8. /\ Range(u.stack) = Range(r.deferred[h.serial]) \cup Range(rest)
        /\ \A n \in Serial : Range(u.deferred[n]) =
              IF n = h.serial THEN {} ELSE Range(r.deferred[n])
    BY <1>3, <1>5, <1>7
  <1>9. /\ \A x \in Waiting(r) : x = h \/ x \in Waiting(u)
        /\ \A x \in Waiting(u) : \/ x \in Range(rest)
                                 \/ \E n \in Serial : x \in Range(r.deferred[n])
        /\ \A x \in Waiting(u) : x \in Waiting(r)
    BY <1>2, <1>8, WaitingMember
  <1>10. RingOK(u)
    BY <1>3 DEF InInv, RingOK
  <1>11. \A n \in u.procMask : u.deferred[n] = <<>>
    BY <1>2, <1>3, <1>7, RcvFields DEF InInv
  <1>12. ~r.rejected => Orderly(u)
    <2> SUFFICES ASSUME ~r.rejected, Orderly(r)
                 PROVE  Orderly(u)
      BY DEF InInv
    <2>1. h \in Waiting(r) /\ h \in Range(r.stack)
      BY <1>2, WaitingMember
    <2>2. u.procMask \subseteq u.ackMask
      <3>1. h.serial >= r.maskMin => h.serial \in r.ackMask
        BY <1>1, <1>2, <2>1, RcvFields DEF Orderly, Received
      <3> QED BY <1>3, <3>1 DEF Orderly
    <2>3. \A x \in Waiting(u) : x.serial # h.serial
      <3>1. \A n \in Serial : \A x \in Range(r.deferred[n]) : x.serial # h.serial
        BY <2>1 DEF Orderly, WaitsOnce
      <3> QED BY <1>6, <1>9, <3>1
    <2>4. \A x \in Waiting(u) : Received(u, x.serial) /\ x.serial \notin u.procMask
      BY <1>3, <1>9, <2>3 DEF Orderly, Received
    <2>5. Unlike(u.stack)
      <3>1. Unlike(woken)
        BY <1>2 DEF Orderly, WaitsOnce
      <3>2. \A x \in Range(woken) : \A y \in Range(rest) : x.serial # y.serial
        BY <1>2 DEF Orderly, WaitsOnce
      <3> HIDE DEF woken
      <3> QED BY <1>2, <1>3, <1>4, <1>6, <3>1, <3>2, UnlikeJoined
    <2>6. \A n \in Serial : Unlike(u.deferred[n])
      BY <1>2, <1>7, UnlikeOne DEF Orderly, WaitsOnce
    <2>7. WaitsOnce(u)
      <3> SUFFICES ASSUME NEW n \in Serial, NEW x \in Range(u.deferred[n])
                   PROVE  /\ \A y \in Range(u.stack) : x.serial # y.serial
                          /\ \A m \in Serial \ {n} : \A y \in Range(u.deferred[m]) :
                                x.serial # y.serial
        BY <2>5, <2>6 DEF WaitsOnce
      <3>1. n # h.serial /\ x \in Range(r.deferred[n])
        BY <1>8
      <3>2. ASSUME NEW y \in Range(u.stack) PROVE x.serial # y.serial
        BY <1>2, <1>8, <3>1 DEF Orderly, WaitsOnce
      <3>3. ASSUME NEW m \in Serial \ {n}, NEW y \in Range(u.deferred[m])
            PROVE  x.serial # y.serial
        BY <1>8, <3>1 DEF Orderly, WaitsOnce
      <3> QED BY <3>2, <3>3
    <2> QED BY <2>2, <2>4, <2>7 DEF Orderly
  <1>13. InInv(u)
    BY <1>3, <1>10, <1>11, <1>12 DEF InInv
  <1>14. Onward(r, u) /\ Passed(u, h.serial)
    <2>1. h.serial < r.maskMin \/ h.serial >= r.maskMin
      BY <1>1, <1>2, RcvFields
    <2> QED BY <1>1, <1>3, <2>1 DEF Onward, Received, Passed
  <1> QED BY <1>3, <1>9, <1>13, <1>14 DEF u, h

\* The user's routine is called for a message the window has not left behind.
LEMMA HandingIn ==
    ASSUME NEW r, RcvOK(r), InInv(r), Head(r.stack).serial >= r.maskMin,
           NEW u, u = [r EXCEPT !.handing = TRUE]
    PROVE  /\ InInv(u) /\ Onward(r, u) /\ u.stack = r.stack
           /\ u.rejected = r.rejected /\ u.maskMin = r.maskMin
           /\ u.procMask = r.procMask
           /\ u.ackMask = r.ackMask /\ Waiting(u) = Waiting(r)
  <1>1. /\ u.inputMin = r.inputMin /\ u.inputMax = r.inputMax
        /\ u.maskMin = r.maskMin /\ u.ackMask = r.ackMask
        /\ u.procMask = r.procMask /\ u.stack = r.stack
        /\ u.deferred = r.deferred /\ u.rejected = r.rejected /\ u.ack = r.ack
    BY DEF RcvOK, Rcv
  <1>2. Waiting(u) = Waiting(r)
    BY <1>1 DEF Waiting
  <1>3. Orderly(r) => Orderly(u)
    BY <1>1, <1>2 DEF Orderly, WaitsOnce, Received
  <1>4. r.maskMin <= u.maskMin
    BY <1>1, RcvFields
  <1> QED BY <1>1, <1>2, <1>3, <1>4 DEF InInv, RingOK, Onward, Received, Passed

\* close drops what is deferred.
LEMMA ClosedIn ==
    ASSUME NEW r, RcvOK(r), InInv(r),
           NEW u, u = [r EXCEPT !.deferred = [n \in Serial |-> <<>>]]
    PROVE  /\ InInv(u) /\ Onward(r, u) /\ u.stack = r.stack
           /\ u.rejected = r.rejected /\ u.handing = r.handing
           /\ u.maskMin = r.maskMin /\ u.procMask = r.procMask
           /\ u.ackMask = r.ackMask
  <1>1. /\ u.inputMin = r.inputMin /\ u.inputMax = r.inputMax
        /\ u.maskMin = r.maskMin /\ u.ackMask = r.ackMask
        /\ u.procMask = r.procMask /\ u.stack = r.stack
        /\ u.handing = r.handing /\ u.rejected = r.rejected /\ u.ack = r.ack
        /\ u.deferred = [n \in Serial |-> <<>>]
    BY DEF RcvOK, Rcv
  <1>2. \A n \in Serial : u.deferred[n] = <<>> /\ Range(u.deferred[n]) = {}
                          /\ Unlike(u.deferred[n])
    BY <1>1, EmptyQueue DEF Unlike
  <1>3. Waiting(u) \subseteq Waiting(r)
    <2>1. \A x \in Waiting(u) : x \in Waiting(r)
      BY <1>1, <1>2, WaitingMember
    <2> QED BY <2>1
  <1>4. Orderly(r) => Orderly(u)
    BY <1>1, <1>2, <1>3 DEF Orderly, WaitsOnce, Received
  <1>5. r.maskMin <= u.maskMin
    BY <1>1, RcvFields
  <1>6. \A n \in u.procMask : u.deferred[n] = <<>>
    BY <1>1, <1>2, RcvFields
  <1> QED BY <1>1, <1>4, <1>5, <1>6 DEF InInv, RingOK, Onward, Received, Passed

-----------------------------------------------------------------------------
(***************************************************************************)
(* What a step does to the input sides.                                    *)
(***************************************************************************)
Inputs == \A e \in End : InInv(rcv[e])

Takes(e) == InInv(rcv'[e]) /\ Onward(rcv[e], rcv'[e])

LEMMA OnwardRefl ==
    ASSUME NEW r, RcvOK(r)
    PROVE  Onward(r, r)
  <1>1. r.maskMin <= r.maskMin
    BY RcvFields
  <1> QED BY <1>1 DEF Onward

LEMMA OnwardTrans ==
    ASSUME NEW r, RcvOK(r), NEW u, RcvOK(u), NEW v, RcvOK(v),
           Onward(r, u), Onward(u, v)
    PROVE  Onward(r, v)
  <1>1. r.maskMin <= v.maskMin
    BY RcvFields DEF Onward
  <1> QED BY <1>1 DEF Onward

LEMMA TakesTo ==
    ASSUME TypeOK, Inputs, NEW e \in End, NEW u, rcv' = [rcv EXCEPT ![e] = u],
           InInv(u), Onward(rcv[e], u)
    PROVE  \A x \in End : Takes(x)
  <1> SUFFICES ASSUME NEW x \in End
               PROVE  Takes(x)
    OBVIOUS
  <1>1. CASE x = e
    <2>1. rcv'[e] = u
      BY TypeParts
    <2> QED BY <1>1, <2>1 DEF Takes
  <1>2. CASE x # e
    <2>1. rcv'[x] = rcv[x] /\ RcvOK(rcv[x])
      BY <1>2, TypeParts
    <2> QED BY <2>1, OnwardRefl DEF Takes, Inputs
  <1> QED BY <1>1, <1>2

\* A step that leaves the input sides alone.
LEMMA TakesNot ==
    ASSUME TypeOK, Inputs, rcv' = rcv
    PROVE  \A x \in End : Takes(x)
  BY TypeParts, OnwardRefl DEF Takes, Inputs

LEMMA InputParts ==
    ASSUME TypeOK, Inputs, NEW e \in End
    PROVE  RcvOK(rcv[e]) /\ InInv(rcv[e])
  BY TypeParts DEF Inputs

LEMMA CloseTakes ==
    ASSUME TypeOK, Inputs, NEW e \in End, Close(e)
    PROVE  \A x \in End : Takes(x)
  <1>1. PICK u : u = [rcv[e] EXCEPT !.deferred = [n \in Serial |-> <<>>]]
    OBVIOUS
  <1>2. rcv' = [rcv EXCEPT ![e] = u]
    BY <1>1 DEF Close
  <1>3. InInv(u) /\ Onward(rcv[e], u)
    BY <1>1, InputParts, ClosedIn
  <1> QED BY <1>2, <1>3, TakesTo

LEMMA SendTakes ==
    ASSUME TypeOK, Inputs, NEW e \in End, Send(e)
    PROVE  \A x \in End : Takes(x)
  <1> DEFINE m == Numbered(snd[e], Head(NextQueue(snd[e])))
  <1>1. m \in Msg
    BY TypeParts, NumberedOK, UnqueueOK DEF Send
  <1>2. rcv' = [rcv EXCEPT ![e] = AckOut(rcv[e], m)]
    BY DEF Send
  <1> HIDE DEF m
  <1>3. InInv(AckOut(rcv[e], m)) /\ Onward(rcv[e], AckOut(rcv[e], m))
    BY <1>1, InputParts, AckOutIn
  <1> QED BY <1>2, <1>3, TakesTo

LEMMA ReceiveResentTakes ==
    ASSUME TypeOK, Inputs, NEW e \in End, NEW p \in net[e], ReceiveResent(e, p)
    PROVE  \A x \in End : Takes(x)
  <1>1. p \in Packet
    BY KnownParts
  <1>2. rcv' = [rcv EXCEPT ![e] = InputResent(rcv[e], p)]
    BY DEF ReceiveResent
  <1>3. /\ InInv(InputResent(rcv[e], p))
        /\ Onward(rcv[e], InputResent(rcv[e], p))
    BY <1>1, InputParts, InputResentIn DEF ReceiveResent
  <1> QED BY <1>2, <1>3, TakesTo

LEMMA ReceiveFarTakes ==
    ASSUME TypeOK, Inputs, NEW e \in End, NEW p \in net[e], ReceiveFar(e, p)
    PROVE  \A x \in End : Takes(x)
  <1> DEFINE r == rcv[e]
  <1>1. PICK v : v = [r EXCEPT !.rejected = TRUE]
    OBVIOUS
  <1>2. rcv' = [rcv EXCEPT ![e] = Admit(v, p)]
    BY <1>1 DEF ReceiveFar
  <1>3. p \in Packet /\ RcvOK(r) /\ InInv(r) /\ r.stack = <<>>
    BY KnownParts, InputParts DEF ReceiveFar
  <1> HIDE DEF r
  <1>4. /\ v \in Rcv
        /\ v.inputMin = r.inputMin /\ v.inputMax = r.inputMax
        /\ v.maskMin = r.maskMin /\ v.ackMask = r.ackMask
        /\ v.procMask = r.procMask /\ v.stack = r.stack /\ v.oldAck = r.oldAck
        /\ v.deferred = r.deferred /\ v.handing = r.handing /\ v.ack = r.ack
        /\ v.rejected
    BY <1>1, <1>3 DEF RcvOK, Rcv
  <1>5. RcvOK(v)
    BY <1>3, <1>4 DEF RcvOK
  <1>6. InInv(v)
    BY <1>3, <1>4 DEF InInv, RingOK
  <1>7. Onward(r, v)
    <2>1. r.maskMin <= v.maskMin
      BY <1>3, <1>4, RcvFields
    <2> QED BY <1>4, <2>1 DEF Onward, Received, Passed
  <1>8. InInv(Admit(v, p)) /\ Onward(v, Admit(v, p)) /\ RcvOK(Admit(v, p))
    BY <1>3, <1>4, <1>5, <1>6, AdmitIn, AdmitOK
  <1>9. Onward(r, Admit(v, p))
    BY <1>3, <1>5, <1>7, <1>8, OnwardTrans
  <1> QED BY <1>2, <1>8, <1>9, TakesTo DEF r

LEMMA ReceiveNewTakes ==
    ASSUME TypeOK, Inputs, NEW e \in End, NEW p \in net[e],
           NEW beat \in BOOLEAN, NEW ping \in BOOLEAN,
           ReceiveNew(e, p, beat, ping)
    PROVE  \A x \in End : Takes(x)
  <1> DEFINE r == rcv[e]
             v == InputStatistics(r, p.serial)
  <1>1. rcv' = [rcv EXCEPT ![e] = Admit(v, p)]
    BY DEF ReceiveNew
  <1>2. /\ p \in Packet /\ RcvOK(r) /\ InInv(r) /\ r.stack = <<>>
        /\ ~Received(r, p.serial)
    BY KnownParts, InputParts DEF ReceiveNew
  <1>3. p.serial \in Serial
    BY <1>2 DEF Packet
  <1> HIDE DEF r
  <1>4. /\ InInv(v) /\ Onward(r, v) /\ Received(v, p.serial)
        /\ v.stack = <<>> /\ v.deferred = r.deferred /\ v.rejected = r.rejected
        /\ v.procMask \subseteq r.procMask /\ RcvOK(v)
    BY <1>2, <1>3, InputStatisticsIn, InputStatisticsOK
  <1> HIDE DEF v
  <1>5. ~v.rejected => /\ p.serial \notin v.procMask
                       /\ \A x \in Waiting(v) : x.serial # p.serial
    <2> SUFFICES ASSUME ~r.rejected, Orderly(r)
                 PROVE  /\ p.serial \notin v.procMask
                        /\ \A x \in Waiting(v) : x.serial # p.serial
      BY <1>2, <1>4 DEF InInv
    <2>1. Waiting(v) = Waiting(r)
      BY <1>2, <1>4 DEF Waiting
    <2> QED BY <1>2, <1>4, <2>1 DEF Orderly, Received
  <1>6. InInv(Admit(v, p)) /\ Onward(v, Admit(v, p)) /\ RcvOK(Admit(v, p))
    BY <1>2, <1>4, <1>5, AdmitIn, AdmitOK
  <1>7. Onward(r, Admit(v, p))
    BY <1>2, <1>4, <1>6, OnwardTrans
  <1> QED BY <1>1, <1>6, <1>7, TakesTo DEF r

LEMMA ProcessVIMTakes ==
    ASSUME TypeOK, Inputs, NEW e \in End, ProcessVIM(e)
    PROVE  \A x \in End : Takes(x)
  <1> DEFINE r == rcv[e]
  <1>1. RcvOK(r) /\ InInv(r) /\ r.stack # <<>>
    BY InputParts DEF ProcessVIM
  <1>2. CASE Head(r.stack).serial >= r.maskMin /\ opened[e]
    <2>1. PICK u : u = [r EXCEPT !.handing = TRUE]
      OBVIOUS
    <2>2. rcv' = [rcv EXCEPT ![e] = u]
      BY <1>2, <2>1 DEF ProcessVIM
    <2> HIDE DEF r
    <2>3. InInv(u) /\ Onward(r, u)
      BY <1>1, <1>2, <2>1, HandingIn
    <2> QED BY <2>2, <2>3, TakesTo DEF r
  <1>3. CASE ~(Head(r.stack).serial >= r.maskMin /\ opened[e])
    <2>1. rcv' = [rcv EXCEPT ![e] = Processed(r)]
      BY <1>3 DEF ProcessVIM
    <2> QED BY <1>1, <2>1, ProcessedIn, TakesTo
  <1> QED BY <1>2, <1>3

LEMMA HandOverTakes ==
    ASSUME TypeOK, Inputs, NEW e \in End, HandOver(e)
    PROVE  \A x \in End : Takes(x)
  <1>1. rcv' = [rcv EXCEPT ![e] = Processed(rcv[e])]
    BY DEF HandOver
  <1>2. RcvOK(rcv[e]) /\ InInv(rcv[e]) /\ rcv[e].stack # <<>>
    BY InputParts, RcvFields DEF HandOver
  <1> QED BY <1>1, <1>2, ProcessedIn, TakesTo

LEMMA NextTakes ==
    ASSUME TypeOK, Inputs, [Next]_vars
    PROVE  \A x \in End : Takes(x)
  <1>1. CASE UNCHANGED vars
    BY <1>1, TakesNot DEF vars
  <1>2. ASSUME NEW e \in End, User(e) PROVE \A x \in End : Takes(x)
    BY <1>2, TakesNot, CloseTakes DEF User, Dispatch
  <1>3. ASSUME NEW e \in End, Sender(e) PROVE \A x \in End : Takes(x)
    BY <1>3, SendTakes, TakesNot
       DEF Sender, PostSend, Expire, Timeout, CheckConnectivity
  <1>4. ASSUME NEW e \in End, Listener(e) PROVE \A x \in End : Takes(x)
    <2>1. ASSUME NEW p \in net[e], Receive(e, p) PROVE \A x \in End : Takes(x)
      BY <2>1, ReceiveResentTakes, ReceiveFarTakes, ReceiveNewTakes DEF Receive
    <2>2. ASSUME NEW p \in net[e], Lose(e, p) PROVE \A x \in End : Takes(x)
      BY <2>2, TakesNot DEF Lose
    <2> QED BY <1>4, <2>1, <2>2, ProcessVIMTakes, HandOverTakes DEF Listener
  <1> QED BY <1>1, <1>2, <1>3, <1>4 DEF Next

\* The input sides keep their records.
THEOREM InputsAlways == Spec => []Inputs
  <1>1. Init => Inputs
    <2> SUFFICES ASSUME Init, NEW e \in End
                 PROVE  InInv(rcv[e])
      BY DEF Inputs
    <2> DEFINE r == rcv[e]
    <2>1. /\ r.inputMax = 1 /\ r.inputMin = 1 /\ r.maskMin = 1
          /\ r.ackMask = {} /\ r.procMask = {} /\ r.stack = <<>>
          /\ r.ack = [i \in Slots |-> NotReceived]
          /\ r.deferred = [n \in Serial |-> <<>>]
          /\ ~r.handing
      BY DEF Init
    <2> HIDE DEF r
    <2>2. \A n \in Serial : r.deferred[n] = <<>> /\ Range(r.deferred[n]) = {}
                            /\ Unlike(r.deferred[n])
      BY <2>1, EmptyQueue DEF Unlike
    <2>3. Unlike(r.stack) /\ Range(r.stack) = {}
      BY <2>1, EmptyQueue DEF Unlike
    <2>4. \A x : x \notin Waiting(r)
      BY <2>2, <2>3, WaitingMember
    <2>5. Orderly(r)
      BY <2>1, <2>2, <2>3, <2>4 DEF Orderly, WaitsOnce
    <2>6. RingOK(r)
      <3>1. \A n \in 1 .. 1 : r.ack[Slot(n)] = NotReceived
        BY <2>1, SlotType
      <3> QED BY <2>1, <3>1, ParameterTypes DEF RingOK
    <2>7. InInv(r)
      BY <2>1, <2>5, <2>6 DEF InInv
    <2> QED BY <2>7 DEF r
  <1>2. TypeOK /\ Inputs /\ [Next]_vars => Inputs'
    <2> SUFFICES ASSUME TypeOK, Inputs, [Next]_vars, NEW e \in End
                 PROVE  InInv(rcv'[e])
      BY DEF Inputs
    <2> QED BY NextTakes DEF Takes
  <1> QED BY <1>1, <1>2, TypeCorrect, PTL DEF Spec
-----------------------------------------------------------------------------
(***************************************************************************)
(* What the records of the input sides show.                               *)
(***************************************************************************)
\* The ring of acknowledgement counts and the mask of received serials, two
\* records of the same thing, agree where both apply (inputStatistics).
THEOREM RingAlwaysMatches == Spec => []RingMatchesMask
  <1>1. Inputs => RingMatchesMask
    BY DEF Inputs, InInv, RingOK, RingMatchesMask
  <1> QED BY <1>1, InputsAlways, PTL

\* A message waits only for a predecessor that is still to be processed: no
\* wake-up is missed between processData and processVIM.
THEOREM DeferredAlwaysWaits == Spec => []DeferredWaits
  <1>1. Inputs => DeferredWaits
    BY DEF Inputs, InInv, DeferredWaits
  <1> QED BY <1>1, InputsAlways, PTL

\* A serial that was received is never taken for a new one again, however far
\* the window moves (inputStatistics).
THEOREM NeverTakenForNew == Spec => NeverNewAgain
  <1>1. TypeOK /\ Inputs /\ [Next]_vars =>
            [\A e \in End : \A s \in Serial :
                Received(rcv[e], s) => Received(rcv[e], s)']_vars
    <2> SUFFICES ASSUME TypeOK, Inputs, [Next]_vars, NEW e \in End,
                        NEW s \in Serial, Received(rcv[e], s)
                 PROVE  Received(rcv'[e], s)
      BY DEF Received
    <2> QED BY NextTakes DEF Takes, Onward
  <1> QED BY <1>1, TypeCorrect, InputsAlways, PTL DEF Spec, NeverNewAgain

\* No serial enters processing a second time (the assertion in processVIM), as
\* long as none fell outside the span of the masks.
THEOREM ReprocessedOnlyWhenRejected ==
    Spec => []((\A e \in End : ~rcv[e].rejected) => NotReprocessed)
  <1>1. TypeOK /\ Inputs => ((\A e \in End : ~rcv[e].rejected) => NotReprocessed)
    <2> SUFFICES ASSUME TypeOK, Inputs, NEW e \in End, ~rcv[e].rejected,
                        rcv[e].stack # <<>>
                 PROVE  Head(rcv[e].stack).serial \notin rcv[e].procMask
      BY DEF NotReprocessed
    <2>1. RcvOK(rcv[e]) /\ Orderly(rcv[e])
      BY InputParts DEF InInv
    <2>2. Head(rcv[e].stack) \in Waiting(rcv[e])
      BY <2>1, ProcessedOK
    <2> QED BY <2>1, <2>2 DEF Orderly
  <1> QED BY <1>1, TypeCorrect, InputsAlways, PTL

-----------------------------------------------------------------------------
(***************************************************************************)
(* The two sides of a direction: their inductive invariant.                *)
(***************************************************************************)
\* What is handed over, or ready to be, comes behind nothing that is not.
Behind(r, s) ==
    \A i, j \in 1 .. Len(s.msgs) :
        /\ i < j /\ s.msgs[i].class \in Stream
        /\ s.msgs[i].class = s.msgs[j].class
        /\ s.msgs[j].serial # 0 /\ Passed(r, s.msgs[j].serial)
        => Passed(r, s.msgs[i].serial)

HandedPassed(r, s, d) ==
    \A k \in 1 .. Len(d) : /\ d[k] \in 1 .. Len(s.msgs)
                           /\ s.msgs[d[k]].serial # 0
                           /\ Passed(r, s.msgs[d[k]].serial)

InOrder(s, d) ==
    \A j, k \in 1 .. Len(d) :
        /\ j < k /\ s.msgs[d[j]].class \in Stream
        /\ s.msgs[d[j]].class = s.msgs[d[k]].class
        => d[j] < d[k]

\* Open, the receiver has what it acknowledges.
HasWhatItAcks(r, s, d) ==
    \A i \in 1 .. Len(s.msgs) :
        s.msgs[i].class \in Stream /\ s.msgs[i].serial \in r.ackMask
            => i \in Range(d) \/ \E x \in Waiting(r) : x.id = i

\* What the sender is told, and was told, is true.
ToldTruly(r, s, n) ==
    /\ \A p \in n : \A k \in p.acks : Received(r, k)
    /\ \A i \in 1 .. Len(s.msgs) : s.msgs[i].status = "acked" =>
          s.msgs[i].serial # 0 /\ Received(r, s.msgs[i].serial)

\* n are the datagrams that the end of r has on their way to that of s.
PairInv(r, s, d, open, n) ==
    /\ \A x \in Range(r.stack) : Passed(r, x.pred)
    /\ \A k \in r.ackMask \cup r.procMask : k < s.serial
    /\ Behind(r, s) /\ HandedPassed(r, s, d)
    /\ ~r.rejected => InOrder(s, d)
    /\ open => HasWhatItAcks(r, s, d)
    /\ ToldTruly(r, s, n)

\* A datagram with a guaranteed message is marked as one.
Marked(s, n) == \A p \in n : s.msgs[p.id].class \in Stream => p.vim

Pairs ==
    \A e \in End :
        /\ PairInv(rcv[e], snd[Peer(e)], delivered[e], opened[e], net[Peer(e)])
        /\ Marked(snd[Peer(e)], net[e])
-----------------------------------------------------------------------------
(***************************************************************************)
(* A step of the sender.                                                   *)
(***************************************************************************)
\* The serials of messages, and what follows from knowing one.
LEMMA SerialType ==
    ASSUME NEW s, SndOK(s)
    PROVE  \A i \in 1 .. Len(s.msgs) :
              /\ s.msgs[i].serial \in Nat /\ s.msgs[i].serial \in {0} \cup Serial
              /\ s.msgs[i] \in Msg
  <1>1. \A i \in 1 .. Len(s.msgs) : s.msgs[i].serial \in 0 .. MaxSerial
    BY QueueMembers DEF Msg
  <1> QED BY <1>1, QueueMembers, ParameterTypes DEF Serial

LEMMA PairFollows ==
    ASSUME NEW s, SndOK(s), StreamsNumbered(s),
           NEW t, SndOK(t), StreamsNumbered(t), Follows(s, t),
           NEW n, \A p \in n : p.acks \subseteq Serial, Told(s, t, n),
           NEW r, RcvOK(r), NEW d \in Seq(Nat),
           NEW open, PairInv(r, s, d, open, n)
    PROVE  PairInv(r, t, d, open, n)
  <1>1. /\ Len(s.msgs) \in Nat /\ Len(t.msgs) \in Nat
        /\ Len(s.msgs) <= Len(t.msgs)
        /\ s.serial \in Nat \ {0} /\ t.serial \in Nat /\ s.serial <= t.serial
    BY SndFields, ParameterTypes DEF Follows, Keeps
  <1>2. r.maskMin \in Nat /\ r.ackMask \cup r.procMask \subseteq Nat \ {0}
    BY RcvFields
  <1>3. \A i \in 1 .. Len(s.msgs) :
            /\ i \in 1 .. Len(t.msgs) /\ t.msgs[i].class = s.msgs[i].class
            /\ s.msgs[i].serial # 0 => t.msgs[i].serial = s.msgs[i].serial
    BY <1>1 DEF Follows, Keeps
  <1>4. \A i \in 1 .. Len(t.msgs) :
            t.msgs[i].serial # 0 /\ t.msgs[i].serial < s.serial =>
                i \in 1 .. Len(s.msgs) /\ s.msgs[i].serial = t.msgs[i].serial
    <2> SUFFICES ASSUME NEW i \in 1 .. Len(t.msgs), t.msgs[i].serial # 0,
                        t.msgs[i].serial < s.serial
                 PROVE  i \in 1 .. Len(s.msgs) /\ s.msgs[i].serial = t.msgs[i].serial
      OBVIOUS
    <2>1. t.msgs[i].serial \in 1 .. s.serial - 1
      BY <1>1, SerialType
    <2> QED BY <2>1 DEF Follows
  <1>5. \A k \in r.ackMask \cup r.procMask : k < s.serial /\ k < t.serial
    BY <1>1, <1>2 DEF PairInv
  <1>6. Behind(r, t)
    <2> SUFFICES ASSUME NEW i \in 1 .. Len(t.msgs), NEW j \in 1 .. Len(t.msgs),
                        i < j, t.msgs[i].class \in Stream,
                        t.msgs[i].class = t.msgs[j].class,
                        t.msgs[j].serial # 0, Passed(r, t.msgs[j].serial)
                 PROVE  Passed(r, t.msgs[i].serial)
      BY DEF Behind
    <2>1. /\ t.msgs[i].serial < t.msgs[j].serial
          /\ t.msgs[i].serial \in Nat /\ t.msgs[j].serial \in Nat
      BY SerialType DEF StreamsNumbered
    <2>2. CASE t.msgs[j].serial < r.maskMin
      BY <1>2, <2>1, <2>2 DEF Passed
    <2>3. CASE t.msgs[j].serial \in r.procMask
      <3>1. j \in 1 .. Len(s.msgs) /\ s.msgs[j].serial = t.msgs[j].serial
        BY <1>4, <1>5, <2>3
      <3>2. i \in 1 .. Len(s.msgs)
        BY <1>1, <3>1
      <3>3. /\ s.msgs[i].class = t.msgs[i].class
            /\ s.msgs[j].class = t.msgs[j].class
        BY <1>3, <3>1, <3>2
      <3>4. s.msgs[i].serial # 0 /\ Passed(r, s.msgs[i].serial)
        BY <3>1, <3>2, <3>3 DEF PairInv, Behind, StreamsNumbered
      <3> QED BY <1>3, <3>2, <3>4
    <2> QED BY <2>2, <2>3 DEF Passed
  <1>7. HandedPassed(r, t, d)
    BY <1>3 DEF PairInv, HandedPassed
  <1>8. ~r.rejected => InOrder(t, d)
    BY <1>3 DEF PairInv, HandedPassed, InOrder
  <1>9. open => HasWhatItAcks(r, t, d)
    <2> SUFFICES ASSUME HasWhatItAcks(r, s, d), NEW i \in 1 .. Len(t.msgs),
                        t.msgs[i].class \in Stream,
                        t.msgs[i].serial \in r.ackMask
                 PROVE  i \in Range(d) \/ \E x \in Waiting(r) : x.id = i
      BY DEF PairInv, HasWhatItAcks
    <2>1. i \in 1 .. Len(s.msgs) /\ s.msgs[i].serial = t.msgs[i].serial
      BY <1>2, <1>4, <1>5
    <2> QED BY <1>3, <2>1 DEF HasWhatItAcks
  <1>10. ToldTruly(r, t, n)
    <2> SUFFICES ASSUME NEW i \in 1 .. Len(t.msgs), t.msgs[i].status = "acked"
                 PROVE  t.msgs[i].serial # 0 /\ Received(r, t.msgs[i].serial)
      BY DEF PairInv, ToldTruly
    <2>1. i \in 1 .. Len(s.msgs)
      BY DEF Told
    <2>2. CASE s.msgs[i].status = "acked"
      BY <1>3, <2>1, <2>2 DEF PairInv, ToldTruly
    <2>3. ASSUME NEW p \in n, s.msgs[i].serial \in p.acks
          PROVE  t.msgs[i].serial # 0 /\ Received(r, t.msgs[i].serial)
      <3>1. s.msgs[i].serial # 0
        BY <2>3, RcvFields
      <3>2. Received(r, s.msgs[i].serial)
        BY <2>3 DEF PairInv, ToldTruly
      <3> QED BY <1>3, <2>1, <3>1, <3>2
    <2> QED BY <2>2, <2>3 DEF Told
  <1> QED BY <1>5, <1>6, <1>7, <1>8, <1>9, <1>10 DEF PairInv
-----------------------------------------------------------------------------
(***************************************************************************)
(* A step of the receiver.                                                 *)
(***************************************************************************)
LEMMA PassedOnward ==
    ASSUME NEW r, RcvOK(r), NEW u, RcvOK(u), Onward(r, u),
           NEW k \in 0 .. MaxSerial, Passed(r, k)
    PROVE  Passed(u, k)
  <1>1. k = 0 \/ k \in Serial
    BY ParameterTypes DEF Serial
  <1>2. CASE k = 0
    <2>1. 0 < u.maskMin
      BY RcvFields
    <2> QED BY <1>2, <2>1 DEF Passed
  <1>3. CASE k \in Serial
    BY <1>3 DEF Onward
  <1> QED BY <1>1, <1>2, <1>3

\* What stays when a receiver goes on.
LEMMA PairOnward ==
    ASSUME NEW s, SndOK(s), NEW r, RcvOK(r), NEW u, Onward(r, u),
           NEW d \in Seq(Nat), NEW n, \A p \in n : p.acks \subseteq Serial,
           NEW open, PairInv(r, s, d, open, n),
           \A x \in Range(u.stack) : Passed(u, x.pred),
           \A k \in u.ackMask \cup u.procMask : k < s.serial,
           Behind(u, s), NEW now, now => HasWhatItAcks(u, s, d)
    PROVE  PairInv(u, s, d, now, n)
  <1>1. HandedPassed(u, s, d)
    <2> SUFFICES ASSUME NEW k \in 1 .. Len(d)
                 PROVE  /\ d[k] \in 1 .. Len(s.msgs)
                        /\ s.msgs[d[k]].serial # 0
                        /\ Passed(u, s.msgs[d[k]].serial)
      BY DEF HandedPassed
    <2>1. /\ d[k] \in 1 .. Len(s.msgs) /\ s.msgs[d[k]].serial # 0
          /\ Passed(r, s.msgs[d[k]].serial)
      BY DEF PairInv, HandedPassed
    <2>2. s.msgs[d[k]].serial \in Serial
      BY <2>1, SerialType
    <2> QED BY <2>1, <2>2 DEF Onward
  <1>2. ToldTruly(u, s, n)
    <2>1. \A p \in n : \A k \in p.acks : Received(u, k)
      BY DEF PairInv, ToldTruly, Onward
    <2>2. ASSUME NEW i \in 1 .. Len(s.msgs), s.msgs[i].status = "acked"
          PROVE  s.msgs[i].serial # 0 /\ Received(u, s.msgs[i].serial)
      <3>1. s.msgs[i].serial # 0 /\ Received(r, s.msgs[i].serial)
        BY <2>2 DEF PairInv, ToldTruly
      <3>2. s.msgs[i].serial \in Serial
        BY <3>1, SerialType
      <3> QED BY <3>1, <3>2 DEF Onward
    <2> QED BY <2>1, <2>2 DEF ToldTruly
  <1>3. ~u.rejected => InOrder(s, d)
    BY DEF PairInv, Onward
  <1> QED BY <1>1, <1>2, <1>3 DEF PairInv

\* The window moves over messages in the order of their serials.
LEMMA BehindKept ==
    ASSUME NEW s, SndOK(s), StreamsNumbered(s), NEW r, RcvOK(r), NEW u, RcvOK(u),
           Onward(r, u), u.procMask \subseteq r.procMask, Behind(r, s)
    PROVE  Behind(u, s)
  <1> SUFFICES ASSUME NEW i \in 1 .. Len(s.msgs), NEW j \in 1 .. Len(s.msgs),
                      i < j, s.msgs[i].class \in Stream,
                      s.msgs[i].class = s.msgs[j].class,
                      s.msgs[j].serial # 0, Passed(u, s.msgs[j].serial)
               PROVE  Passed(u, s.msgs[i].serial)
    BY DEF Behind
  <1>1. /\ s.msgs[i].serial < s.msgs[j].serial /\ s.msgs[i].serial # 0
        /\ s.msgs[i].serial \in Nat /\ s.msgs[j].serial \in Nat
        /\ s.msgs[i].serial \in Serial
    BY SerialType DEF StreamsNumbered
  <1>2. CASE s.msgs[j].serial < u.maskMin
    BY <1>1, <1>2, RcvFields DEF Passed
  <1>3. CASE s.msgs[j].serial \in u.procMask
    <2>1. Passed(r, s.msgs[i].serial)
      BY <1>3 DEF Behind, Passed
    <2> QED BY <1>1, <2>1 DEF Onward
  <1> QED BY <1>2, <1>3 DEF Passed

\* A message is processed after those of its stream that come before it.
LEMMA BehindProcessed ==
    ASSUME NEW s, SndOK(s), SerialsUsedOnce(s), Chained(s),
           NEW r, RcvOK(r), InInv(r), r.stack # <<>>, Behind(r, s),
           NEW h, h = Head(r.stack), Truthful(s, h), Passed(r, h.pred)
    PROVE  Behind(Processed(r), s)
  <1> DEFINE u == Processed(r)
  <1>1. /\ u.maskMin = r.maskMin
        /\ u.procMask \subseteq r.procMask \cup {h.serial}
        /\ h.serial \in Serial
    BY ProcessedParts
  <1>2. Onward(r, u) /\ RcvOK(u)
    BY ProcessedIn, ProcessedOK
  <1> HIDE DEF u
  <1> SUFFICES ASSUME NEW i \in 1 .. Len(s.msgs), NEW j \in 1 .. Len(s.msgs),
                      i < j, s.msgs[i].class \in Stream,
                      s.msgs[i].class = s.msgs[j].class,
                      s.msgs[j].serial # 0, Passed(u, s.msgs[j].serial)
               PROVE  Passed(u, s.msgs[i].serial)
    BY DEF Behind, u
  <1>3. \A k \in 1 .. Len(s.msgs) : s.msgs[k].serial \in 0 .. MaxSerial
    BY SerialType DEF Msg
  <1>4. CASE Passed(r, s.msgs[j].serial)
    <2>1. Passed(r, s.msgs[i].serial)
      BY <1>4 DEF Behind
    <2> QED BY <1>2, <1>3, <2>1, PassedOnward
  <1>5. CASE ~Passed(r, s.msgs[j].serial)
    <2>1. s.msgs[j].serial = h.serial
      BY <1>1, <1>5 DEF Passed
    <2>2. h.id = j
      BY <2>1 DEF Truthful, SerialsUsedOnce
    <2> DEFINE p == s.msgs[j].pred
    <2>3. /\ \A k \in 1 .. Len(s.msgs) :
                p < k /\ k < j => s.msgs[k].class # s.msgs[j].class
          /\ p # 0 => p < j /\ s.msgs[p].class = s.msgs[j].class
      BY DEF Chained
    <2>4. p # 0 => h.pred = s.msgs[p].serial /\ h.pred # 0
      BY <2>2 DEF Truthful
    <2>5. p \in Nat /\ (p # 0 => p \in 1 .. Len(s.msgs))
      BY QueueMembers DEF Msg
    <2> HIDE DEF p
    <2>6. p # 0 /\ i <= p
      BY <2>3, <2>5
    <2>7. Passed(r, s.msgs[p].serial) /\ s.msgs[p].serial # 0
      BY <2>4, <2>6
    <2>8. Passed(r, s.msgs[i].serial)
      <3>1. CASE i = p
        BY <2>7, <3>1
      <3>2. CASE i < p
        BY <2>3, <2>5, <2>6, <2>7, <3>2 DEF Behind
      <3> QED BY <2>5, <2>6, <3>1, <3>2
    <2> QED BY <1>2, <1>3, <2>8, PassedOnward
  <1> QED BY <1>4, <1>5

\* The end of an activation of processVIM.
LEMMA PairProcessed ==
    ASSUME NEW s, SndOK(s), SerialsUsedOnce(s), Chained(s),
           NEW r, RcvOK(r), InInv(r), r.stack # <<>>,
           NEW d \in Seq(Nat), NEW n, \A p \in n : p.acks \subseteq Serial,
           NEW open \in BOOLEAN, RcvInv(r, s, d, open), PairInv(r, s, d, open, n),
           NEW now \in BOOLEAN,
           now => /\ open
                  /\ \A x \in Waiting(r) :
                        \/ x \in Waiting(Processed(r)) \/ x.serial < r.maskMin
    PROVE  PairInv(Processed(r), s, d, now, n)
  <1> DEFINE u == Processed(r)
             h == Head(r.stack)
  <1>1. /\ u.maskMin = r.maskMin
        /\ u.procMask \subseteq r.procMask \cup {h.serial}
        /\ Range(u.stack) \subseteq Range(r.deferred[h.serial]) \cup Range(r.stack)
        /\ h \in Range(r.stack) /\ h.serial \in Serial
    BY ProcessedParts
  <1>2. /\ Onward(r, u) /\ Passed(u, h.serial) /\ u.ackMask = r.ackMask
        /\ RcvOK(u)
    BY ProcessedIn, ProcessedOK
  <1>3. Truthful(s, h)
    BY <1>1, WaitingMember DEF RcvInv
  <1>4. Passed(r, h.pred) /\ Behind(r, s)
    BY <1>1 DEF PairInv
  <1> HIDE DEF h
  <1>5. Behind(u, s)
    BY <1>3, <1>4, BehindProcessed DEF h
  <1> HIDE DEF u
  <1>6. \A x \in Range(u.stack) : Passed(u, x.pred)
    <2> SUFFICES ASSUME NEW x \in Range(u.stack)
                 PROVE  Passed(u, x.pred)
      OBVIOUS
    <2>1. CASE x \in Range(r.deferred[h.serial])
      BY <1>1, <1>2, <2>1 DEF RcvInv
    <2>2. CASE x \in Range(r.stack)
      <3>1. x.pred \in 0 .. MaxSerial
        BY <2>2, WaitingType DEF In
      <3>2. Passed(r, x.pred)
        BY <2>2 DEF PairInv
      <3> QED BY <1>2, <3>1, <3>2, PassedOnward
    <2> QED BY <1>1, <2>1, <2>2
  <1>7. \A k \in u.ackMask \cup u.procMask : k < s.serial
    <2>1. h.serial < s.serial
      BY <1>3 DEF Truthful, SerialsUsedOnce
    <2> QED BY <1>1, <1>2, <2>1 DEF PairInv
  <1>8. now => HasWhatItAcks(u, s, d)
    <2> SUFFICES ASSUME HasWhatItAcks(r, s, d), now,
                        NEW i \in 1 .. Len(s.msgs), s.msgs[i].class \in Stream,
                        s.msgs[i].serial \in r.ackMask
                 PROVE  i \in Range(d) \/ \E x \in Waiting(u) : x.id = i
      BY <1>2 DEF PairInv, HasWhatItAcks
    <2>1. ASSUME NEW x \in Waiting(r), x.id = i
          PROVE  x \in Waiting(u)
      <3>1. x.serial = s.msgs[i].serial
        BY <2>1 DEF RcvInv, Truthful
      <3>2. ~(x.serial < r.maskMin)
        BY <3>1, RcvFields DEF InInv, RingOK
      <3> QED BY <3>2 DEF u
    <2> QED BY <2>1 DEF HasWhatItAcks
  <1> QED BY <1>2, <1>5, <1>6, <1>7, <1>8, PairOnward DEF u

\* The user's routine has taken the message.
LEMMA PairHanded ==
    ASSUME NEW s, SndOK(s), SerialsUsedOnce(s), Chained(s),
           NEW r, RcvOK(r), InInv(r), r.handing,
           NEW d \in Seq(Nat), NEW n, \A p \in n : p.acks \subseteq Serial,
           NEW open \in BOOLEAN, RcvInv(r, s, d, open), PairInv(r, s, d, open, n)
    PROVE  PairInv(Processed(r), s, Append(d, Head(r.stack).id), open, n)
  <1> DEFINE u == Processed(r)
             h == Head(r.stack)
             id == h.id
             f == Append(d, id)
  <1>1. r.stack # <<>>
    BY RcvFields
  <1>2. PairInv(u, s, d, FALSE, n)
    BY <1>1, PairProcessed
  <1>3. /\ h \in Range(r.stack) /\ h \in Waiting(r) /\ h.serial \in Serial
        /\ h.serial >= r.maskMin
    BY <1>1, ProcessedParts, ProcessedOK DEF InInv
  <1>4. /\ Passed(u, h.serial) /\ u.ackMask = r.ackMask
        /\ u.rejected = r.rejected
        /\ \A x \in Waiting(r) : x = h \/ x \in Waiting(u)
    BY <1>1, ProcessedIn
  <1>5. Truthful(s, h)
    BY <1>3 DEF RcvInv
  <1> HIDE DEF h, u
  <1>6. id \in 1 .. Len(s.msgs) /\ s.msgs[id].serial = h.serial /\ h.serial # 0
        /\ id \in Nat
    BY <1>5, SndFields DEF Truthful
  <1> HIDE DEF id
  <1>7. /\ Len(d) \in Nat /\ Len(f) = Len(d) + 1 /\ f[Len(d) + 1] = id
        /\ \A k \in 1 .. Len(d) : f[k] = d[k]
        /\ Range(f) = Range(d) \cup {id}
    BY <1>6, AppendProperties, LenProperties, RangeOfAppend
  <1> HIDE DEF f
  <1>8. \A k \in 1 .. Len(f) : k = Len(f) \/ k \in 1 .. Len(d)
    BY <1>7
  <1>9. HandedPassed(u, s, f)
    <2>1. \A k \in 1 .. Len(d) : /\ d[k] \in 1 .. Len(s.msgs)
                                 /\ s.msgs[d[k]].serial # 0
                                 /\ Passed(u, s.msgs[d[k]].serial)
      BY <1>2 DEF PairInv, HandedPassed
    <2> QED BY <1>4, <1>6, <1>7, <1>8, <2>1 DEF HandedPassed
  <1>10. ~u.rejected => InOrder(s, f)
    <2> SUFFICES ASSUME ~r.rejected,
                        NEW j \in 1 .. Len(f), NEW k \in 1 .. Len(f), j < k,
                        s.msgs[f[j]].class \in Stream,
                        s.msgs[f[j]].class = s.msgs[f[k]].class
                 PROVE  f[j] < f[k]
      BY <1>4 DEF InOrder
    <2>1. j \in 1 .. Len(d) /\ f[j] = d[j]
      BY <1>7, <1>8
    <2>2. CASE k \in 1 .. Len(d)
      BY <1>7, <2>1, <2>2 DEF PairInv, InOrder
    <2>3. CASE k = Len(f)
      <3>1. f[k] = id
        BY <1>7, <2>3
      <3>2. ~Passed(r, h.serial)
        <4>1. h.serial \notin r.procMask
          BY <1>3 DEF InInv, Orderly
        <4> QED BY <1>3, <4>1, RcvFields DEF Passed
      <3>3. /\ s.msgs[d[j]].serial # 0 /\ Passed(r, s.msgs[d[j]].serial)
            /\ d[j] \in 1 .. Len(s.msgs)
        BY <2>1 DEF PairInv, HandedPassed
      <3>4. d[j] # id
        BY <1>6, <3>2, <3>3
      <3>5. ~(id < d[j])
        BY <1>6, <2>1, <3>1, <3>2, <3>3 DEF PairInv, Behind
      <3> QED BY <1>6, <2>1, <3>1, <3>3, <3>4, <3>5
    <2> QED BY <1>8, <2>2, <2>3
  <1>11. open => HasWhatItAcks(u, s, f)
    <2> SUFFICES ASSUME HasWhatItAcks(r, s, d),
                        NEW i \in 1 .. Len(s.msgs), s.msgs[i].class \in Stream,
                        s.msgs[i].serial \in r.ackMask
                 PROVE  i \in Range(f) \/ \E x \in Waiting(u) : x.id = i
      BY <1>4 DEF PairInv, HasWhatItAcks
    <2>1. i \in Range(d) \/ \E x \in Waiting(r) : x.id = i
      BY DEF HasWhatItAcks
    <2> QED BY <1>4, <1>7, <2>1 DEF id
  <1>12. PairInv(u, s, f, open, n)
    BY <1>2, <1>9, <1>10, <1>11 DEF PairInv
  <1> QED BY <1>12 DEF u, f, id, h

\* A step that keeps what waits, and processes nothing.
LEMMA PairQuiet ==
    ASSUME NEW s, SndOK(s), StreamsNumbered(s),
           NEW r, RcvOK(r), NEW u, RcvOK(u), Onward(r, u),
           u.procMask \subseteq r.procMask,
           u.ackMask = r.ackMask,
           NEW d \in Seq(Nat), NEW n, \A p \in n : p.acks \subseteq Serial,
           NEW open, PairInv(r, s, d, open, n),
           \A x \in Range(u.stack) : x \in Range(r.stack) \/ Passed(u, x.pred),
           NEW now, now => open /\ Waiting(r) \subseteq Waiting(u)
    PROVE  PairInv(u, s, d, now, n)
  <1>1. Behind(u, s)
    BY BehindKept DEF PairInv
  <1>2. \A x \in Range(u.stack) : Passed(u, x.pred)
    <2> SUFFICES ASSUME NEW x \in Range(r.stack)
                 PROVE  Passed(u, x.pred)
      OBVIOUS
    <2>1. x.pred \in 0 .. MaxSerial /\ Passed(r, x.pred)
      BY WaitingType DEF PairInv, In
    <2> QED BY <2>1, PassedOnward
  <1>3. now => HasWhatItAcks(u, s, d)
    BY DEF PairInv, HasWhatItAcks
  <1>4. \A k \in u.ackMask \cup u.procMask : k < s.serial
    BY DEF PairInv
  <1> QED BY <1>1, <1>2, <1>3, <1>4, PairOnward

\* A new serial is recorded, and a guaranteed message is kept
\* (inputStatistics, processData).
LEMMA PairHeard ==
    ASSUME NEW s, SndOK(s), SerialsUsedOnce(s), StreamsNumbered(s),
           NEW r, RcvOK(r), InInv(r), r.stack = <<>>,
           NEW p \in Packet, ~Received(r, p.serial), Truthful(s, p),
           s.msgs[p.id].class \in Stream => p.vim,
           NEW d \in Seq(Nat), NEW n, \A q \in n : q.acks \subseteq Serial,
           NEW open, PairInv(r, s, d, open, n),
           NEW u, u = Admit(InputStatistics(r, p.serial), p),
           Onward(r, u)
    PROVE  PairInv(u, s, d, open, n)
  <1> DEFINE v == InputStatistics(r, p.serial)
             y == Record(p)
  <1>1. p.serial \in Serial
    BY DEF Packet
  <1>2. /\ InInv(v) /\ Onward(r, v) /\ Received(v, p.serial)
        /\ v.stack = <<>> /\ v.deferred = r.deferred /\ v.rejected = r.rejected
        /\ v.procMask \subseteq r.procMask
        /\ v.ackMask \subseteq r.ackMask \cup {p.serial} /\ RcvOK(v)
    BY <1>1, InputStatisticsIn, InputStatisticsOK
  <1>3. y.id = p.id
    BY RecordType
  <1>4. Waiting(v) = Waiting(r)
    BY <1>2 DEF Waiting
  <1> HIDE DEF v, y
  <1>5. ~v.rejected => /\ p.serial \notin v.procMask
                       /\ \A x \in Waiting(v) : x.serial # p.serial
    BY <1>2, <1>4 DEF InInv, Orderly, Received
  <1>6. /\ u.maskMin = v.maskMin /\ u.ackMask = v.ackMask
        /\ u.procMask = v.procMask /\ Waiting(v) \subseteq Waiting(u)
        /\ p.vim => y \in Waiting(u)
        /\ \A x \in Range(u.stack) : Passed(v, x.pred)
        /\ RcvOK(u)
    BY <1>2, <1>5, AdmitIn, AdmitOK DEF v, y
  <1>7. Behind(u, s)
    BY <1>2, <1>6, BehindKept DEF PairInv
  <1>8. \A x \in Range(u.stack) : Passed(u, x.pred)
    BY <1>6 DEF Passed
  <1>9. \A k \in u.ackMask \cup u.procMask : k < s.serial
    <2>1. p.serial < s.serial
      BY DEF Truthful, SerialsUsedOnce
    <2> QED BY <1>2, <1>6, <2>1 DEF PairInv
  <1>10. open => HasWhatItAcks(u, s, d)
    <2> SUFFICES ASSUME HasWhatItAcks(r, s, d),
                        NEW i \in 1 .. Len(s.msgs), s.msgs[i].class \in Stream,
                        s.msgs[i].serial \in u.ackMask
                 PROVE  i \in Range(d) \/ \E x \in Waiting(u) : x.id = i
      BY DEF PairInv, HasWhatItAcks
    <2>1. CASE s.msgs[i].serial \in r.ackMask
      BY <1>4, <1>6, <2>1 DEF HasWhatItAcks
    <2>2. CASE s.msgs[i].serial = p.serial
      <3>1. i = p.id
        BY <1>1, <2>2, RcvFields DEF Truthful, SerialsUsedOnce
      <3> QED BY <1>3, <1>6, <3>1
    <2> QED BY <1>2, <1>6, <2>1, <2>2
  <1> QED BY <1>7, <1>8, <1>9, <1>10, PairOnward

-----------------------------------------------------------------------------
(***************************************************************************)
(* What a step does to the two sides of a direction.                       *)
(***************************************************************************)
\* The receiver of x after the step, beside its sender before it.
Half(x) ==
    PairInv(rcv'[x], snd[Peer(x)], delivered'[x], opened'[x], net[Peer(x)])

Records == TypeOK /\ OrderInv /\ Outputs /\ Inputs /\ Pairs

LEMMA PairParts ==
    ASSUME Records, NEW e \in End
    PROVE  /\ SndOK(snd[Peer(e)]) /\ SerialsUsedOnce(snd[Peer(e)])
           /\ Chained(snd[Peer(e)]) /\ StreamsNumbered(snd[Peer(e)])
           /\ RcvOK(rcv[e]) /\ InInv(rcv[e])
           /\ RcvInv(rcv[e], snd[Peer(e)], delivered[e], opened[e])
           /\ delivered[e] \in Seq(Nat) /\ opened[e] \in BOOLEAN
           /\ \A p \in net[Peer(e)] : p.acks \subseteq Serial
           /\ PairInv(rcv[e], snd[Peer(e)], delivered[e], opened[e],
                      net[Peer(e)])
           /\ Marked(snd[Peer(e)], net[e])
           /\ delivered = [delivered EXCEPT ![e] = delivered[e]]
  <1>1. Peer(e) \in End
    BY PeerType
  <1>2. /\ SndOK(snd[Peer(e)]) /\ SerialsUsedOnce(snd[Peer(e)])
        /\ Chained(snd[Peer(e)]) /\ RcvOK(rcv[e]) /\ opened[e] \in BOOLEAN
        /\ RcvInv(rcv[e], snd[Peer(e)], delivered[e], opened[e])
        /\ delivered[e] \in Seq(Nat)
        /\ delivered = [delivered EXCEPT ![e] = delivered[e]]
    BY OrderParts DEF Records
  <1>3. \A p \in net[Peer(e)] : p.acks \subseteq Serial
    BY <1>1, KnownParts DEF Records, Packet
  <1> QED BY <1>1, <1>2, <1>3 DEF Records, Outputs, Inputs, Pairs

LEMMA HalvesTo ==
    ASSUME Records, NEW e \in End, NEW u, rcv' = [rcv EXCEPT ![e] = u],
           NEW d, delivered' = [delivered EXCEPT ![e] = d],
           \A x \in End : x # e => opened'[x] = opened[x],
           PairInv(u, snd[Peer(e)], d, opened'[e], net[Peer(e)])
    PROVE  \A x \in End : Half(x)
  <1> SUFFICES ASSUME NEW x \in End
               PROVE  Half(x)
    OBVIOUS
  <1>1. CASE x = e
    <2>1. rcv'[e] = u /\ delivered'[e] = d
      BY TypeParts DEF Records
    <2> QED BY <1>1, <2>1 DEF Half
  <1>2. CASE x # e
    <2>1. /\ rcv'[x] = rcv[x] /\ delivered'[x] = delivered[x]
          /\ opened'[x] = opened[x]
      BY <1>2, TypeParts DEF Records
    <2> QED BY <2>1, PairParts DEF Half
  <1> QED BY <1>1, <1>2

\* A step that leaves the input sides and what is handed over alone.
LEMMA HalvesNot ==
    ASSUME Records, rcv' = rcv, delivered' = delivered, opened' = opened
    PROVE  \A x \in End : Half(x)
  BY PairParts DEF Half

\* A step that hands over and processes nothing.
LEMMA HalvesQuiet ==
    ASSUME Records, NEW e \in End, NEW u, rcv' = [rcv EXCEPT ![e] = u],
           RcvOK(u), Onward(rcv[e], u),
           u.procMask \subseteq rcv[e].procMask, u.ackMask = rcv[e].ackMask,
           \A x \in Range(u.stack) : \/ x \in Range(rcv[e].stack)
                                     \/ Passed(u, x.pred),
           delivered' = delivered,
           \A x \in End : x # e => opened'[x] = opened[x],
           opened'[e] => opened[e] /\ Waiting(rcv[e]) \subseteq Waiting(u)
    PROVE  \A x \in End : Half(x)
  <1>1. PairInv(u, snd[Peer(e)], delivered[e], opened'[e], net[Peer(e)])
    <2>1. PICK s, r, d, open, n, now :
              /\ s = snd[Peer(e)] /\ r = rcv[e] /\ d = delivered[e]
              /\ open = opened[e] /\ n = net[Peer(e)] /\ now = opened'[e]
      OBVIOUS
    <2>2. /\ SndOK(s) /\ StreamsNumbered(s) /\ RcvOK(r) /\ d \in Seq(Nat)
          /\ \A p \in n : p.acks \subseteq Serial
          /\ PairInv(r, s, d, open, n)
      BY <2>1, PairParts
    <2>3. /\ Onward(r, u) /\ u.procMask \subseteq r.procMask
          /\ u.ackMask = r.ackMask
          /\ \A x \in Range(u.stack) : x \in Range(r.stack) \/ Passed(u, x.pred)
          /\ now => open /\ Waiting(r) \subseteq Waiting(u)
      BY <2>1
    <2>4. PairInv(u, s, d, now, n)
      BY <2>2, <2>3, PairQuiet
    <2> QED BY <2>1, <2>4
  <1>2. delivered' = [delivered EXCEPT ![e] = delivered[e]]
    BY PairParts
  <1> QED BY <1>1, <1>2, HalvesTo

LEMMA SameWaiting ==
    ASSUME NEW r, NEW u, u.stack = r.stack, u.deferred = r.deferred
    PROVE  Waiting(u) = Waiting(r)
  BY DEF Waiting

LEMMA CloseHalves ==
    ASSUME Records, NEW e \in End, Close(e)
    PROVE  \A x \in End : Half(x)
  <1>1. PICK u : u = [rcv[e] EXCEPT !.deferred = [n \in Serial |-> <<>>]]
    OBVIOUS
  <1>2. rcv' = [rcv EXCEPT ![e] = u] /\ delivered' = delivered
        /\ opened' = [opened EXCEPT ![e] = FALSE]
    BY <1>1 DEF Close
  <1>3. /\ Onward(rcv[e], u) /\ u.stack = rcv[e].stack
        /\ u.procMask = rcv[e].procMask /\ u.ackMask = rcv[e].ackMask
    BY <1>1, PairParts, ClosedIn
  <1>4. RcvOK(u)
    <2>1. RcvOK(rcv[e]) /\ <<>> \in Seq(In)
      BY PairParts
    <2> QED BY <1>1, <2>1 DEF RcvOK, Rcv
  <1>5. opened'[e] = FALSE /\ \A x \in End : x # e => opened'[x] = opened[x]
    BY <1>2, TypeParts DEF Records
  <1> QED BY <1>2, <1>3, <1>4, <1>5, HalvesQuiet

LEMMA SendHalves ==
    ASSUME Records, NEW e \in End, Send(e)
    PROVE  \A x \in End : Half(x)
  <1>1. PICK m : m = Numbered(snd[e], Head(NextQueue(snd[e])))
    OBVIOUS
  <1>2. m \in Msg
    BY <1>1, TypeParts, NumberedOK, UnqueueOK DEF Send, Records
  <1> DEFINE u == AckOut(rcv[e], m)
  <1>3. rcv' = [rcv EXCEPT ![e] = u] /\ delivered' = delivered
        /\ opened' = opened
    BY <1>1 DEF Send
  <1>4. /\ Onward(rcv[e], u) /\ u.stack = rcv[e].stack /\ RcvOK(u)
        /\ u.procMask = rcv[e].procMask /\ u.ackMask = rcv[e].ackMask
        /\ u.deferred = rcv[e].deferred
    BY <1>2, PairParts, AckOutIn, AckOutOK
  <1> HIDE DEF u
  <1>5. Waiting(u) = Waiting(rcv[e])
    BY <1>4, SameWaiting
  <1> QED BY <1>3, <1>4, <1>5, HalvesQuiet

LEMMA ReceiveResentHalves ==
    ASSUME Records, NEW e \in End, NEW p \in net[e], ReceiveResent(e, p)
    PROVE  \A x \in End : Half(x)
  <1> DEFINE u == InputResent(rcv[e], p)
  <1>1. p \in Packet
    BY KnownParts DEF Records
  <1>2. rcv' = [rcv EXCEPT ![e] = u] /\ delivered' = delivered
        /\ opened' = opened /\ Received(rcv[e], p.serial)
    BY DEF ReceiveResent
  <1>3. /\ Onward(rcv[e], u) /\ u.stack = rcv[e].stack /\ RcvOK(u)
        /\ u.procMask = rcv[e].procMask /\ u.ackMask = rcv[e].ackMask
        /\ u.deferred = rcv[e].deferred
    BY <1>1, <1>2, PairParts, InputResentIn, InputResentOK
  <1> HIDE DEF u
  <1>4. Waiting(u) = Waiting(rcv[e])
    BY <1>3, SameWaiting
  <1> QED BY <1>2, <1>3, <1>4, HalvesQuiet

LEMMA ReceiveFarHalves ==
    ASSUME Records, NEW e \in End, NEW p \in net[e], ReceiveFar(e, p)
    PROVE  \A x \in End : Half(x)
  <1>1. PICK v, u : v = [rcv[e] EXCEPT !.rejected = TRUE] /\ u = Admit(v, p)
    OBVIOUS
  <1>2. rcv' = [rcv EXCEPT ![e] = u] /\ delivered' = delivered
        /\ opened' = opened /\ rcv[e].stack = <<>>
    BY <1>1 DEF ReceiveFar
  <1>3. p \in Packet /\ RcvOK(rcv[e]) /\ InInv(rcv[e])
    BY KnownParts, PairParts DEF Records
  <1>4. /\ v \in Rcv
        /\ v.inputMin = rcv[e].inputMin /\ v.inputMax = rcv[e].inputMax
        /\ v.maskMin = rcv[e].maskMin /\ v.ackMask = rcv[e].ackMask
        /\ v.procMask = rcv[e].procMask /\ v.stack = rcv[e].stack
        /\ v.oldAck = rcv[e].oldAck /\ v.ack = rcv[e].ack
        /\ v.deferred = rcv[e].deferred /\ v.handing = rcv[e].handing
        /\ v.rejected
    BY <1>1, <1>3 DEF RcvOK, Rcv
  <1>5. RcvOK(v) /\ InInv(v) /\ Waiting(v) = Waiting(rcv[e])
    BY <1>3, <1>4, SameWaiting DEF RcvOK, InInv, RingOK
  <1>6. /\ u.procMask = v.procMask /\ u.ackMask = v.ackMask
        /\ u.maskMin = v.maskMin /\ RcvOK(u)
        /\ Waiting(v) \subseteq Waiting(u)
        /\ \A x \in Range(u.stack) : Passed(v, x.pred)
    BY <1>1, <1>2, <1>3, <1>4, <1>5, AdmitIn, AdmitOK
  <1>7. \A x \in Range(u.stack) : Passed(u, x.pred)
    BY <1>6 DEF Passed
  <1>8. Onward(rcv[e], u)
    <2>1. Takes(e)
      BY ReceiveFarTakes DEF Records
    <2>2. rcv'[e] = u
      BY <1>2, TypeParts DEF Records
    <2> QED BY <2>1, <2>2 DEF Takes
  <1> QED BY <1>2, <1>4, <1>5, <1>6, <1>7, <1>8, HalvesQuiet

LEMMA ReceiveNewHalves ==
    ASSUME Records, NEW e \in End, NEW p \in net[e],
           NEW beat \in BOOLEAN, NEW ping \in BOOLEAN,
           ReceiveNew(e, p, beat, ping)
    PROVE  \A x \in End : Half(x)
  <1>1. PICK u : u = Admit(InputStatistics(rcv[e], p.serial), p)
    OBVIOUS
  <1>2. rcv' = [rcv EXCEPT ![e] = u] /\ delivered' = delivered
        /\ opened' = opened /\ rcv[e].stack = <<>>
        /\ ~Received(rcv[e], p.serial)
    BY <1>1 DEF ReceiveNew
  <1>3. /\ Truthful(snd[Peer(e)], p) /\ p \in Packet
        /\ snd[Peer(e)].msgs[p.id].class \in Stream => p.vim
    BY Heard, PairParts DEF Records, Marked
  <1>4. Onward(rcv[e], u)
    <2>1. Takes(e)
      BY ReceiveNewTakes DEF Records
    <2>2. rcv'[e] = u
      BY <1>2, TypeParts DEF Records
    <2> QED BY <2>1, <2>2 DEF Takes
  <1>5. PairInv(u, snd[Peer(e)], delivered[e], opened[e], net[Peer(e)])
    <2>1. PICK s, r, d, open, n :
              /\ s = snd[Peer(e)] /\ r = rcv[e] /\ d = delivered[e]
              /\ open = opened[e] /\ n = net[Peer(e)]
      OBVIOUS
    <2>2. /\ SndOK(s) /\ SerialsUsedOnce(s) /\ StreamsNumbered(s)
          /\ RcvOK(r) /\ InInv(r) /\ d \in Seq(Nat)
          /\ \A q \in n : q.acks \subseteq Serial
          /\ PairInv(r, s, d, open, n)
      BY <2>1, PairParts
    <2>3. /\ u = Admit(InputStatistics(r, p.serial), p) /\ Onward(r, u)
          /\ r.stack = <<>> /\ ~Received(r, p.serial) /\ Truthful(s, p)
          /\ s.msgs[p.id].class \in Stream => p.vim
      BY <1>1, <1>2, <1>3, <1>4, <2>1
    <2>4. PairInv(u, s, d, open, n)
      BY <1>3, <2>2, <2>3, PairHeard
    <2> QED BY <2>1, <2>4
  <1>6. delivered' = [delivered EXCEPT ![e] = delivered[e]]
    BY <1>2, PairParts
  <1> QED BY <1>2, <1>5, <1>6, HalvesTo

LEMMA ProcessVIMHalves ==
    ASSUME Records, NEW e \in End, ProcessVIM(e)
    PROVE  \A x \in End : Half(x)
  <1>1. PICK s, r, d, open, n :
            /\ s = snd[Peer(e)] /\ r = rcv[e] /\ d = delivered[e]
            /\ open = opened[e] /\ n = net[Peer(e)]
    OBVIOUS
  <1>2. /\ SndOK(s) /\ SerialsUsedOnce(s) /\ Chained(s)
        /\ RcvOK(r) /\ InInv(r) /\ d \in Seq(Nat)
        /\ \A p \in n : p.acks \subseteq Serial
        /\ open \in BOOLEAN /\ RcvInv(r, s, d, open) /\ PairInv(r, s, d, open, n)
    BY <1>1, PairParts
  <1>3. r.stack # <<>> /\ delivered' = delivered /\ opened' = opened
    BY <1>1 DEF ProcessVIM
  <1>4. CASE Head(r.stack).serial >= r.maskMin /\ open
    <2>1. PICK u : u = [r EXCEPT !.handing = TRUE]
      OBVIOUS
    <2>2. rcv' = [rcv EXCEPT ![e] = u]
      BY <1>1, <1>4, <2>1 DEF ProcessVIM
    <2>3. /\ Onward(r, u) /\ u.stack = r.stack /\ u.procMask = r.procMask
          /\ u.ackMask = r.ackMask /\ Waiting(u) = Waiting(r)
      BY <1>2, <1>4, <2>1, HandingIn
    <2>4. RcvOK(u)
      BY <1>2, <1>3, <2>1 DEF RcvOK, Rcv
    <2> QED BY <1>1, <1>3, <2>2, <2>3, <2>4, HalvesQuiet
  <1>5. CASE ~(Head(r.stack).serial >= r.maskMin /\ open)
    <2>1. rcv' = [rcv EXCEPT ![e] = Processed(r)]
      BY <1>1, <1>5 DEF ProcessVIM
    <2>2. open => open /\ \A x \in Waiting(r) : \/ x \in Waiting(Processed(r))
                                                \/ x.serial < r.maskMin
      <3> SUFFICES ASSUME open, NEW x \in Waiting(r)
                   PROVE  x \in Waiting(Processed(r)) \/ x.serial < r.maskMin
        OBVIOUS
      <3>1. Head(r.stack).serial < r.maskMin
        <4>1. Head(r.stack).serial \in Nat /\ r.maskMin \in Nat
          BY <1>2, <1>3, ProcessedParts, RcvFields
        <4> QED BY <1>5, <4>1
      <3>2. x = Head(r.stack) \/ x \in Waiting(Processed(r))
        BY <1>2, <1>3, ProcessedIn
      <3> QED BY <3>1, <3>2
    <2>3. PairInv(Processed(r), s, d, open, n)
      BY <1>2, <1>3, <2>2, PairProcessed
    <2>4. delivered' = [delivered EXCEPT ![e] = d]
      BY <1>1, <1>3, PairParts
    <2> QED BY <1>1, <1>3, <2>1, <2>3, <2>4, HalvesTo
  <1> QED BY <1>4, <1>5

LEMMA HandOverHalves ==
    ASSUME Records, NEW e \in End, HandOver(e)
    PROVE  \A x \in End : Half(x)
  <1>1. PICK s, r, d, open, n :
            /\ s = snd[Peer(e)] /\ r = rcv[e] /\ d = delivered[e]
            /\ open = opened[e] /\ n = net[Peer(e)]
    OBVIOUS
  <1>2. /\ SndOK(s) /\ SerialsUsedOnce(s) /\ Chained(s)
        /\ RcvOK(r) /\ InInv(r) /\ d \in Seq(Nat)
        /\ \A p \in n : p.acks \subseteq Serial
        /\ open \in BOOLEAN /\ RcvInv(r, s, d, open) /\ PairInv(r, s, d, open, n)
    BY <1>1, PairParts
  <1>3. /\ r.handing /\ opened' = opened
        /\ rcv' = [rcv EXCEPT ![e] = Processed(r)]
        /\ delivered' = [delivered EXCEPT ![e] = Append(d, Head(r.stack).id)]
    BY <1>1 DEF HandOver
  <1>4. PairInv(Processed(r), s, Append(d, Head(r.stack).id), open, n)
    BY <1>2, <1>3, PairHanded
  <1> QED BY <1>1, <1>3, <1>4, HalvesTo

LEMMA NextHalves ==
    ASSUME Records, [Next]_vars
    PROVE  \A x \in End : Half(x)
  <1>1. CASE UNCHANGED vars
    BY <1>1, HalvesNot DEF vars
  <1>2. ASSUME NEW e \in End, User(e) PROVE \A x \in End : Half(x)
    BY <1>2, HalvesNot, CloseHalves DEF User, Dispatch
  <1>3. ASSUME NEW e \in End, Sender(e) PROVE \A x \in End : Half(x)
    BY <1>3, SendHalves, HalvesNot
       DEF Sender, PostSend, Expire, Timeout, CheckConnectivity
  <1>4. ASSUME NEW e \in End, Listener(e) PROVE \A x \in End : Half(x)
    <2>1. ASSUME NEW p \in net[e], Receive(e, p) PROVE \A x \in End : Half(x)
      BY <2>1, ReceiveResentHalves, ReceiveFarHalves, ReceiveNewHalves DEF Receive
    <2>2. ASSUME NEW p \in net[e], Lose(e, p) PROVE \A x \in End : Half(x)
      BY <2>2, HalvesNot DEF Lose
    <2> QED BY <1>4, <2>1, <2>2, ProcessVIMHalves, HandOverHalves DEF Listener
  <1> QED BY <1>1, <1>2, <1>3, <1>4 DEF Next

\* What a datagram that is composed acknowledges was received.
Composed(p, r, s) ==
    p.acks \subseteq r.ackMask /\ (s.msgs[p.id].class \in Stream => p.vim)

Sends(x) ==
    \A p \in net'[x] : p \in net[x] \/ Composed(p, rcv[Peer(x)], snd'[Peer(x)])

LEMMA SendSends ==
    ASSUME TypeOK, NEW e \in End, Send(e)
    PROVE  \A x \in End : Sends(x)
  <1> DEFINE id == Head(NextQueue(snd[e]))
             m == Numbered(snd[e], id)
             p == Compose(e, id)
             t == AfterSend(snd[e])
  <1>1. SndOK(snd[e]) /\ NextQueue(snd[e]) # <<>> /\ m.serial <= MaxSerial
    BY TypeParts DEF Send
  <1>2. /\ snd' = [snd EXCEPT ![e] = t]
        /\ net' = [net EXCEPT ![Peer(e)] = @ \cup {p}]
    BY DEF Send, AfterSend
  <1>3. /\ p.acks \subseteq rcv[e].ackMask /\ p.vim = IsVIM(m) /\ p.id = id
    BY DEF Compose
  <1>4. id \in 1 .. Len(snd[e].msgs) /\ t.msgs[id] = m
    BY <1>1, SentParts
  <1>5. Peer(e) \in End /\ Peer(Peer(e)) = e
    BY PeerType, PeerPeer
  <1> HIDE DEF p, t, m, id
  <1>6. Composed(p, rcv[e], t)
    BY <1>3, <1>4 DEF Composed, IsVIM
  <1>7. /\ snd'[e] = t /\ net'[Peer(e)] = net[Peer(e)] \cup {p}
        /\ \A x \in End : x # Peer(e) => net'[x] = net[x]
    BY <1>2, <1>5, TypeParts
  <1> SUFFICES ASSUME NEW x \in End, NEW q \in net'[x], q \notin net[x]
               PROVE  Composed(q, rcv[Peer(x)], snd'[Peer(x)])
    BY DEF Sends
  <1>8. x = Peer(e) /\ q = p
    BY <1>7
  <1> QED BY <1>5, <1>6, <1>7, <1>8

LEMMA Unsent ==
    ASSUME TypeOK, NEW e \in End, NEW p,
           net' = net \/ net' = [net EXCEPT ![e] = @ \ {p}]
    PROVE  \A x \in End : Sends(x)
  <1>1. \A x \in End : net'[x] \subseteq net[x]
    BY TypeParts
  <1> QED BY <1>1 DEF Sends

LEMMA NextSends ==
    ASSUME TypeOK, [Next]_vars
    PROVE  \A x \in End : Sends(x)
  <1>1. CASE UNCHANGED vars
    BY <1>1 DEF vars, Sends
  <1>2. ASSUME NEW e \in End, User(e) PROVE \A x \in End : Sends(x)
    BY <1>2 DEF User, Dispatch, Close, Sends
  <1>3. ASSUME NEW e \in End, Sender(e) PROVE \A x \in End : Sends(x)
    <2>1. CASE Send(e)
      BY <2>1, SendSends
    <2>2. CASE ~Send(e)
      <3>1. net' = net
        BY <1>3, <2>2 DEF Sender, PostSend, Expire, Timeout, CheckConnectivity
      <3> QED BY <3>1 DEF Sends
    <2> QED BY <2>1, <2>2
  <1>4. ASSUME NEW e \in End, Listener(e) PROVE \A x \in End : Sends(x)
    <2>1. ASSUME NEW p \in net[e], Receive(e, p) PROVE \A x \in End : Sends(x)
      <3>1. net' = net \/ net' = [net EXCEPT ![e] = @ \ {p}]
        BY <2>1 DEF Receive, ReceiveResent, ReceiveFar, ReceiveNew, Arrive
      <3> QED BY <3>1, Unsent
    <2>2. ASSUME NEW p \in net[e], Lose(e, p) PROVE \A x \in End : Sends(x)
      <3>1. net' = [net EXCEPT ![e] = @ \ {p}]
        BY <2>2 DEF Lose
      <3> QED BY <3>1, Unsent
    <2>3. CASE ProcessVIM(e) \/ HandOver(e)
      BY <2>3 DEF ProcessVIM, HandOver, Sends
    <2> QED BY <1>4, <2>1, <2>2, <2>3 DEF Listener
  <1> QED BY <1>1, <1>2, <1>3, <1>4 DEF Next

LEMMA NextPairs ==
    ASSUME Records, TypeOK', Outputs', [Next]_vars, NEW e \in End
    PROVE  /\ PairInv(rcv'[e], snd'[Peer(e)], delivered'[e], opened'[e],
                      net'[Peer(e)])
           /\ Marked(snd'[Peer(e)], net'[e])
  <1>1. Peer(e) \in End /\ Peer(Peer(e)) = e
    BY PeerType, PeerPeer
  <1>2. /\ Half(e) /\ Moves(Peer(e)) /\ Takes(e) /\ Sends(e) /\ Sends(Peer(e))
    BY <1>1, NextHalves, NextMoves, NextTakes, NextSends DEF Records
  <1>3. PICK s, t, r, u, d, n, open :
            /\ s = snd[Peer(e)] /\ t = snd'[Peer(e)] /\ r = rcv[e]
            /\ u = rcv'[e] /\ d = delivered'[e] /\ n = net[Peer(e)]
            /\ open = opened'[e]
    OBVIOUS
  <1>4. /\ SndOK(s) /\ StreamsNumbered(s) /\ Marked(s, net[e])
        /\ \A p \in n : p.acks \subseteq Serial
    BY <1>3, PairParts
  <1>5. SndOK(t) /\ StreamsNumbered(t) /\ RcvOK(u) /\ d \in Seq(Nat)
    <2>1. /\ snd'[Peer(e)] \in Snd
          /\ References(snd'[Peer(e)]) \subseteq DOMAIN snd'[Peer(e)].msgs
          /\ rcv'[e] \in Rcv /\ Len(rcv'[e].oldAck) < OldAcks
          /\ rcv'[e].handing => rcv'[e].stack # <<>>
          /\ delivered'[e] \in Seq(Nat)
      BY <1>1 DEF TypeOK
    <2>2. StreamsNumbered(snd'[Peer(e)])
      BY <1>1 DEF Outputs
    <2> QED BY <1>3, <2>1, <2>2 DEF SndOK, RcvOK
  <1>6. Follows(s, t) /\ Told(s, t, n) /\ PairInv(u, s, d, open, n)
        /\ Onward(r, u)
    BY <1>1, <1>2, <1>3 DEF Moves, Half, Takes
  <1>7. PairInv(u, t, d, open, n)
    BY <1>4, <1>5, <1>6, PairFollows
  <1>8. PairInv(u, t, d, open, net'[Peer(e)])
    <2>1. ASSUME NEW p \in net'[Peer(e)], NEW k \in p.acks
          PROVE  Received(u, k)
      <3>1. CASE p \in n
        BY <1>7, <2>1, <3>1 DEF PairInv, ToldTruly
      <3>2. CASE p \notin n
        <4>1. k \in r.ackMask
          BY <1>1, <1>2, <1>3, <2>1, <3>2 DEF Sends, Composed
        <4>2. k \in Serial
          BY <1>3, <4>1, PairParts, RcvFields
        <4> QED BY <1>6, <4>1, <4>2 DEF Onward, Received
      <3> QED BY <3>1, <3>2
    <2> QED BY <1>7, <2>1 DEF PairInv, ToldTruly
  <1>9. Marked(t, net'[e])
    <2> SUFFICES ASSUME NEW p \in net'[e], t.msgs[p.id].class \in Stream
                 PROVE  p.vim
      BY DEF Marked
    <2>1. CASE p \in net[e]
      <3>1. p.id \in 1 .. Len(s.msgs)
        <4>1. p.id \in DOMAIN snd[Peer(e)].msgs
          BY <2>1, KnownParts, TypeParts DEF Records
        <4> QED BY <1>3, <1>4, <4>1, SndFields
      <3>2. t.msgs[p.id].class = s.msgs[p.id].class
        BY <1>6, <3>1 DEF Follows, Keeps
      <3> QED BY <1>4, <2>1, <3>2 DEF Marked
    <2>2. CASE p \notin net[e]
      BY <1>2, <1>3, <2>2 DEF Sends, Composed
    <2> QED BY <2>1, <2>2
  <1> QED BY <1>3, <1>8, <1>9

\* The two sides of a direction agree.
THEOREM PairsAlways == Spec => []Pairs
  <1>1. Init => Pairs
    <2> SUFFICES ASSUME Init, NEW e \in End
                 PROVE  /\ PairInv(rcv[e], snd[Peer(e)], delivered[e], opened[e],
                                   net[Peer(e)])
                        /\ Marked(snd[Peer(e)], net[e])
      BY DEF Pairs
    <2>1. Peer(e) \in End /\ Len(<<>>) = 0 /\ Range(<<>>) = {}
      BY PeerType, EmptyQueue
    <2>2. /\ snd[Peer(e)].msgs = <<>> /\ delivered[e] = <<>>
          /\ rcv[e].stack = <<>> /\ rcv[e].ackMask = {} /\ rcv[e].procMask = {}
          /\ net[e] = {} /\ net[Peer(e)] = {}
      BY <2>1 DEF Init
    <2> QED BY <2>1, <2>2 DEF PairInv, Behind, HandedPassed, InOrder,
                              HasWhatItAcks, ToldTruly, Marked
  <1>2. Records /\ TypeOK' /\ Outputs' /\ [Next]_vars => Pairs'
    BY NextPairs DEF Pairs
  <1> QED BY <1>1, <1>2, TypeCorrect, OrderAlways, OutputsAlways, InputsAlways,
             PTL DEF Spec, Records
-----------------------------------------------------------------------------
(***************************************************************************)
(* What the two sides of a direction show.                                 *)
(***************************************************************************)
\* No message of a stream is handed over twice or after a later one of its
\* stream (processData, processVIM), as long as no serial fell outside the span
\* of the masks.
THEOREM AlwaysHandedInOrder == Spec => []HandedInOrder
  <1>1. TypeOK /\ Pairs => HandedInOrder
    <2> SUFFICES ASSUME TypeOK, Pairs, NEW e \in End, ~rcv[e].rejected,
                        NEW j \in DOMAIN delivered[e],
                        NEW k \in DOMAIN delivered[e], j < k,
                        SameStream(Peer(e), delivered[e][j], delivered[e][k])
                 PROVE  delivered[e][j] < delivered[e][k]
      BY DEF HandedInOrder
    <2>1. j \in 1 .. Len(delivered[e]) /\ k \in 1 .. Len(delivered[e])
      BY TypeParts, RangeOfMember
    <2>2. InOrder(snd[Peer(e)], delivered[e])
      BY DEF Pairs, PairInv
    <2> QED BY <2>1, <2>2 DEF InOrder, SameStream
  <1> QED BY <1>1, TypeCorrect, PairsAlways, PTL

\* The sender stops repeating a guaranteed message only when the other end
\* has handed it over or holds it (newAcknowledgement, runRevisited).
THEOREM AckedIsAlwaysSafe == Spec => []AckedIsSafe
  <1>1. TypeOK /\ Pairs => AckedIsSafe
    <2> SUFFICES ASSUME TypeOK, Pairs, NEW e \in End,
                        NEW i \in DOMAIN snd[e].msgs,
                        IsVIM(snd[e].msgs[i]), snd[e].msgs[i].status = "acked",
                        opened[Peer(e)],
                        rcv[Peer(e)].maskMin <= snd[e].msgs[i].serial
                 PROVE  i \in Arrived(Peer(e))
      BY DEF AckedIsSafe
    <2>1. Peer(e) \in End /\ Peer(Peer(e)) = e
      BY PeerType, PeerPeer
    <2>2. PICK r, s, d : r = rcv[Peer(e)] /\ s = snd[e] /\ d = delivered[Peer(e)]
      OBVIOUS
    <2>3. /\ SndOK(s) /\ RcvOK(r) /\ i \in 1 .. Len(s.msgs)
          /\ ToldTruly(r, s, net[e]) /\ HasWhatItAcks(r, s, d)
      BY <2>1, <2>2, TypeParts, SndFields DEF Pairs, PairInv
    <2>4. Received(r, s.msgs[i].serial)
      BY <2>2, <2>3 DEF ToldTruly
    <2>5. s.msgs[i].serial \in r.ackMask
      BY <2>2, <2>3, <2>4, SerialType, RcvFields DEF Received
    <2>6. i \in Range(d) \/ \E x \in Waiting(r) : x.id = i
      BY <2>2, <2>3, <2>5 DEF HasWhatItAcks, IsVIM
    <2> QED BY <2>2, <2>6 DEF Arrived
  <1> QED BY <1>1, TypeCorrect, PairsAlways, PTL

=============================================================================
