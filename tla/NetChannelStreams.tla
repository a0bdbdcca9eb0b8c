-------------------------- MODULE NetChannelStreams --------------------------
(***************************************************************************)
(* No message of a stream is left out: the proof, for every value of the   *)
(* parameters, that NetChannel hands over a guaranteed message only after  *)
(* those that were submitted before it, unless the receiver's masks left   *)
(* behind one of them.                                                     *)
(*                                                                         *)
(* The invariant has three parts.  SndInv says that the sender gives out   *)
(* serial numbers once each, chains each stream, and holds a predecessor   *)
(* without serial in front of its successor, whatever is put in front of   *)
(* or into its queues; what the other end has to know of a step of the     *)
(* sender is Follows.  NetInv says that datagrams tell the truth about the *)
(* sender.  RcvInv says that what the receiver keeps does so too, and that *)
(* it marks as processed only what it has handed over.                     *)
(***************************************************************************)
EXTENDS NetChannelProofs

-----------------------------------------------------------------------------
(***************************************************************************)
(* The inductive invariant, sender side.                                   *)
(***************************************************************************)
\* Serial numbers are given out once each, in increasing order.
SerialsUsedOnce(s) ==
    /\ \A i \in 1 .. Len(s.msgs) : s.msgs[i].serial < s.serial
    /\ \A i, j \in 1 .. Len(s.msgs) :
          i # j /\ s.msgs[i].serial # 0 => s.msgs[i].serial # s.msgs[j].serial

\* The predecessor of a message is the last one of its stream before it.
Chained(s) ==
    \A i \in 1 .. Len(s.msgs) :
        /\ s.msgs[i].pred # 0 =>
              /\ s.msgs[i].pred < i /\ s.msgs[i].class \in Stream
              /\ s.msgs[s.msgs[i].pred].class = s.msgs[i].class
        /\ s.msgs[i].class \in Stream =>
              \A j \in 1 .. Len(s.msgs) :
                  s.msgs[i].pred < j /\ j < i
                      => s.msgs[j].class # s.msgs[i].class

\* A message that left has a predecessor that left.
PredecessorsLeft(s) ==
    \A i \in 1 .. Len(s.msgs) :
        s.msgs[i].serial # 0 /\ s.msgs[i].pred # 0
            => s.msgs[s.msgs[i].pred].serial # 0

\* In a queue, a predecessor that has not left stands in front.
QueueOrdered(s, q) ==
    \A k \in 1 .. Len(q) :
        s.msgs[q[k]].serial = 0 /\ s.msgs[q[k]].pred # 0
            /\ s.msgs[s.msgs[q[k]].pred].serial = 0
            => \E j \in 1 .. Len(q) : j < k /\ q[j] = s.msgs[q[k]].pred

\* While the channel is open, the last message of each stream is known and
\* what has not left is in the queue of its stream.
Registered(s) ==
    /\ s.lastUrgent # 0 => s.msgs[s.lastUrgent].class = "urgent"
    /\ s.lastVIM # 0 => s.msgs[s.lastVIM].class = "vim"
    /\ \A i \in 1 .. Len(s.msgs) :
          /\ s.msgs[i].class = "urgent" => i <= s.lastUrgent
          /\ s.msgs[i].class = "vim" => i <= s.lastVIM
          /\ s.msgs[i].class = "urgent" /\ s.msgs[i].serial = 0
                => i \in Range(s.urgentQ)
          /\ s.msgs[i].class = "vim" /\ s.msgs[i].serial = 0
                => i \in Range(s.vimQ)

SndInv(s, open) ==
    /\ SerialsUsedOnce(s) /\ Chained(s) /\ PredecessorsLeft(s)
    /\ QueueOrdered(s, s.urgentQ) /\ QueueOrdered(s, s.vimQ)
    /\ \A i \in Range(s.commonQ) : s.msgs[i].pred = 0
    /\ \A i \in s.revisited : s.msgs[i].serial # 0
    /\ s.prepared # 0 => s.msgs[s.prepared].serial # 0
    /\ open => Registered(s)
-----------------------------------------------------------------------------
(***************************************************************************)
(* Steps of the sender side.                                               *)
(***************************************************************************)
\* The messages of t are those of s as far as the invariant goes.
Alike(s, t) ==
    /\ Len(t.msgs) = Len(s.msgs) /\ t.serial = s.serial
    /\ \A i \in 1 .. Len(s.msgs) : /\ t.msgs[i].class = s.msgs[i].class
                                   /\ t.msgs[i].pred = s.msgs[i].pred
                                   /\ t.msgs[i].serial = s.msgs[i].serial

\* Positions of a queue hold messages, and predecessors are messages.
LEMMA QueueMembers ==
    ASSUME NEW s, SndOK(s)
    PROVE  /\ Len(s.msgs) \in Nat
           /\ Len(s.urgentQ) \in Nat /\ Len(s.vimQ) \in Nat
           /\ \A k \in 1 .. Len(s.urgentQ) :
                 s.urgentQ[k] \in 1 .. Len(s.msgs) /\ s.urgentQ[k] \in Range(s.urgentQ)
           /\ \A k \in 1 .. Len(s.vimQ) :
                 s.vimQ[k] \in 1 .. Len(s.msgs) /\ s.vimQ[k] \in Range(s.vimQ)
           /\ \A i \in Range(s.commonQ) : i \in 1 .. Len(s.msgs)
           /\ \A i \in s.revisited : i \in 1 .. Len(s.msgs)
           /\ {s.prepared, s.lastUrgent, s.lastVIM}
                  \subseteq {0} \cup 1 .. Len(s.msgs)
           /\ \A i \in 1 .. Len(s.msgs) :
                 /\ s.msgs[i] \in Msg
                 /\ s.msgs[i].pred # 0 => s.msgs[i].pred \in 1 .. Len(s.msgs)
  <1>1. /\ s.urgentQ \in Seq(Nat) /\ s.vimQ \in Seq(Nat)
        /\ DOMAIN s.msgs = 1 .. Len(s.msgs) /\ Len(s.msgs) \in Nat
    BY SndFields
  <1>2. \A q \in Seq(Nat) : /\ Len(q) \in Nat
                            /\ \A k \in 1 .. Len(q) : q[k] \in Range(q)
    BY RangeOfMember
  <1>3. /\ Range(s.urgentQ) \subseteq 1 .. Len(s.msgs)
        /\ Range(s.vimQ) \subseteq 1 .. Len(s.msgs)
        /\ Range(s.commonQ) \subseteq 1 .. Len(s.msgs)
        /\ s.revisited \subseteq 1 .. Len(s.msgs)
        /\ {s.prepared, s.lastUrgent, s.lastVIM} \subseteq {0} \cup 1 .. Len(s.msgs)
        /\ \A i \in 1 .. Len(s.msgs) :
              s.msgs[i] \in Msg /\ s.msgs[i].pred \in {0} \cup 1 .. Len(s.msgs)
    BY <1>1, SndFields
  <1> QED BY <1>1, <1>2, <1>3

\* Messages that leave do not disturb the order of a queue they are not in.
LEMMA QueueKept ==
    ASSUME NEW s, SndOK(s), NEW t, Keeps(s, t), NEW q,
           \A k \in 1 .. Len(q) : q[k] \in 1 .. Len(s.msgs),
           QueueOrdered(s, q)
    PROVE  QueueOrdered(t, q)
  <1> SUFFICES ASSUME NEW k \in 1 .. Len(q),
                      t.msgs[q[k]].serial = 0, t.msgs[q[k]].pred # 0,
                      t.msgs[t.msgs[q[k]].pred].serial = 0
               PROVE  \E j \in 1 .. Len(q) : j < k /\ q[j] = t.msgs[q[k]].pred
    BY DEF QueueOrdered
  <1> DEFINE i == q[k]
             p == s.msgs[i].pred
  <1>1. i \in 1 .. Len(s.msgs)
    OBVIOUS
  <1>2. t.msgs[i].pred = p /\ (s.msgs[i].serial # 0 => t.msgs[i].serial # 0)
    BY <1>1 DEF Keeps
  <1>3. p # 0 /\ t.msgs[p].serial = 0
    BY <1>2
  <1>4. p \in 1 .. Len(s.msgs)
    BY <1>1, <1>3, QueueMembers
  <1>5. s.msgs[p].serial # 0 => t.msgs[p].serial # 0
    BY <1>4 DEF Keeps
  <1>6. \E j \in 1 .. Len(q) : j < k /\ q[j] = p
    BY <1>2, <1>3, <1>5 DEF QueueOrdered
  <1> QED BY <1>2, <1>6

\* Steps that leave these fields alone leave their invariants alone.
LEMMA AlikeParts ==
    ASSUME NEW s, SndOK(s), NEW t, SndOK(t), Alike(s, t),
           SerialsUsedOnce(s), Chained(s), PredecessorsLeft(s)
    PROVE  /\ SerialsUsedOnce(t) /\ Chained(t) /\ PredecessorsLeft(t)
           /\ Keeps(s, t)
  <1>1. /\ Len(t.msgs) = Len(s.msgs) /\ t.serial = s.serial
        /\ \A i \in 1 .. Len(s.msgs) : /\ t.msgs[i].class = s.msgs[i].class
                                       /\ t.msgs[i].pred = s.msgs[i].pred
                                       /\ t.msgs[i].serial = s.msgs[i].serial
    BY DEF Alike
  <1>2. \A i \in 1 .. Len(s.msgs) :
            s.msgs[i].pred # 0 => s.msgs[i].pred \in 1 .. Len(s.msgs)
    BY QueueMembers
  <1>4. SerialsUsedOnce(t)
    BY <1>1 DEF SerialsUsedOnce
  <1>5. Chained(t)
    <2> SUFFICES ASSUME NEW i \in 1 .. Len(s.msgs)
                 PROVE  /\ t.msgs[i].pred # 0 =>
                              /\ t.msgs[i].pred < i /\ t.msgs[i].class \in Stream
                              /\ t.msgs[t.msgs[i].pred].class = t.msgs[i].class
                        /\ t.msgs[i].class \in Stream =>
                              \A j \in 1 .. Len(s.msgs) :
                                  t.msgs[i].pred < j /\ j < i
                                      => t.msgs[j].class # t.msgs[i].class
      BY <1>1 DEF Chained
    <2> DEFINE p == s.msgs[i].pred
    <2>1. /\ p # 0 => /\ p < i /\ s.msgs[i].class \in Stream
                      /\ s.msgs[p].class = s.msgs[i].class
          /\ s.msgs[i].class \in Stream =>
                \A j \in 1 .. Len(s.msgs) :
                    p < j /\ j < i => s.msgs[j].class # s.msgs[i].class
      BY DEF Chained
    <2>2. t.msgs[i].pred = p /\ (p # 0 => t.msgs[p].class = s.msgs[p].class)
          /\ t.msgs[i].class = s.msgs[i].class
      BY <1>1, <1>2
    <2> HIDE DEF p
    <2> QED BY <1>1, <2>1, <2>2
  <1>6. PredecessorsLeft(t)
    BY <1>1, <1>2 DEF PredecessorsLeft
  <1>7. Keeps(s, t)
    BY <1>1, QueueMembers DEF Keeps
  <1> QED BY <1>4, <1>5, <1>6, <1>7

LEMMA AlikeInv ==
    ASSUME NEW s, SndOK(s), NEW t, SndOK(t), Alike(s, t),
           NEW open \in BOOLEAN, SndInv(s, open),
           t.urgentQ = s.urgentQ, t.vimQ = s.vimQ,
           Range(t.commonQ) \subseteq Range(s.commonQ),
           t.revisited \cup {t.prepared}
               \subseteq s.revisited \cup {0, s.prepared},
           t.lastUrgent = s.lastUrgent, t.lastVIM = s.lastVIM
    PROVE  SndInv(t, open)
  <1>1. /\ Len(t.msgs) = Len(s.msgs) /\ t.serial = s.serial
        /\ \A i \in 1 .. Len(s.msgs) : /\ t.msgs[i].class = s.msgs[i].class
                                       /\ t.msgs[i].pred = s.msgs[i].pred
                                       /\ t.msgs[i].serial = s.msgs[i].serial
    BY DEF Alike
  <1>2. \A i \in 1 .. Len(s.msgs) :
            s.msgs[i].pred # 0 => s.msgs[i].pred \in 1 .. Len(s.msgs)
    BY QueueMembers
  <1>3. /\ \A k \in 1 .. Len(s.urgentQ) : s.urgentQ[k] \in 1 .. Len(s.msgs)
        /\ \A k \in 1 .. Len(s.vimQ) : s.vimQ[k] \in 1 .. Len(s.msgs)
        /\ Range(s.commonQ) \subseteq 1 .. Len(s.msgs)
        /\ s.revisited \subseteq 1 .. Len(s.msgs)
        /\ {s.prepared, s.lastUrgent, s.lastVIM}
               \subseteq {0} \cup 1 .. Len(s.msgs)
    BY QueueMembers
  <1>4. /\ SerialsUsedOnce(t) /\ Chained(t) /\ PredecessorsLeft(t)
        /\ Keeps(s, t)
    BY AlikeParts DEF SndInv
  <1>8. QueueOrdered(t, s.urgentQ) /\ QueueOrdered(t, s.vimQ)
    BY <1>3, <1>4, QueueKept DEF SndInv
  <1>9. \A i \in Range(t.commonQ) : t.msgs[i].pred = 0
    BY <1>1, <1>3 DEF SndInv
  <1>10. \A i \in s.revisited \cup {s.prepared} : i # 0 =>
             s.msgs[i].serial # 0 /\ t.msgs[i].serial = s.msgs[i].serial
    BY <1>1, <1>3 DEF SndInv
  <1>11. /\ \A i \in t.revisited : t.msgs[i].serial # 0
         /\ t.prepared # 0 => t.msgs[t.prepared].serial # 0
    <2>1. \A i \in t.revisited : i # 0
      BY QueueMembers
    <2> QED BY <1>10, <2>1
  <1>12. open => Registered(t)
    BY <1>1, <1>3 DEF SndInv, Registered
  <1> QED BY <1>4, <1>8, <1>9, <1>11, <1>12 DEF SndInv

\* A new message goes to the end of msgs and of one queue.
LEMMA NewMessageInv ==
    ASSUME NEW s, SndOK(s), SerialsUsedOnce(s), Chained(s),
           PredecessorsLeft(s),
           QueueOrdered(s, s.urgentQ), QueueOrdered(s, s.vimQ),
           NEW m \in Msg, NEW t, SndOK(t),
           t.msgs = Append(s.msgs, m), t.serial = s.serial,
           m.serial = 0,
           m.pred # 0 => /\ m.pred \in 1 .. Len(s.msgs)
                         /\ m.class \in Stream
                         /\ s.msgs[m.pred].class = m.class,
           m.class \in Stream => \A j \in 1 .. Len(s.msgs) :
               m.pred < j => s.msgs[j].class # m.class
    PROVE  /\ SerialsUsedOnce(t) /\ Chained(t) /\ PredecessorsLeft(t)
           /\ Keeps(s, t)
           /\ Len(t.msgs) = Len(s.msgs) + 1 /\ t.msgs[Len(s.msgs) + 1] = m
           /\ \A i \in 1 .. Len(s.msgs) : t.msgs[i] = s.msgs[i]
           /\ QueueOrdered(t, s.urgentQ) /\ QueueOrdered(t, s.vimQ)
  <1> DEFINE n == Len(s.msgs)
  <1>1. /\ n \in Nat /\ Len(t.msgs) = n + 1 /\ t.msgs[n + 1] = m
        /\ \A i \in 1 .. n : t.msgs[i] = s.msgs[i]
    BY SndFields, AppendMsg
  <1>2. \A i \in 1 .. n :
            /\ s.msgs[i] \in Msg
            /\ s.msgs[i].pred # 0 => s.msgs[i].pred \in 1 .. n
    BY QueueMembers
  <1>3. s.serial \in Nat \ {0}
    BY SndFields, ParameterTypes
  <1> HIDE DEF n
  <1>4. SerialsUsedOnce(t)
    <2>1. \A i \in 1 .. n : s.msgs[i].serial < s.serial
      BY DEF SerialsUsedOnce, n
    <2>2. \A i, j \in 1 .. n : i # j /\ s.msgs[i].serial # 0
              => s.msgs[i].serial # s.msgs[j].serial
      BY DEF SerialsUsedOnce, n
    <2>3. \A i \in 1 .. n + 1 : i = n + 1 \/ i \in 1 .. n
      BY <1>1
    <2>4. \A i \in 1 .. n + 1 : t.msgs[i].serial < t.serial
      BY <1>1, <1>3, <2>1, <2>3
    <2>5. \A i, j \in 1 .. n + 1 : i # j /\ t.msgs[i].serial # 0
              => t.msgs[i].serial # t.msgs[j].serial
      BY <1>1, <2>2, <2>3
    <2> QED BY <1>1, <2>4, <2>5 DEF SerialsUsedOnce
  <1>5. Chained(t)
    <2> SUFFICES ASSUME NEW i \in 1 .. n + 1
                 PROVE  /\ t.msgs[i].pred # 0 =>
                              /\ t.msgs[i].pred < i /\ t.msgs[i].class \in Stream
                              /\ t.msgs[t.msgs[i].pred].class = t.msgs[i].class
                        /\ t.msgs[i].class \in Stream =>
                              \A j \in 1 .. n + 1 :
                                  t.msgs[i].pred < j /\ j < i
                                      => t.msgs[j].class # t.msgs[i].class
      BY <1>1 DEF Chained
    <2>1. CASE i = n + 1
      BY <1>1, <2>1 DEF n
    <2>2. CASE i \in 1 .. n
      <3> DEFINE p == s.msgs[i].pred
      <3>1. /\ p # 0 => /\ p < i /\ s.msgs[i].class \in Stream
                        /\ s.msgs[p].class = s.msgs[i].class
            /\ s.msgs[i].class \in Stream =>
                  \A j \in 1 .. n :
                      p < j /\ j < i => s.msgs[j].class # s.msgs[i].class
        BY <2>2 DEF Chained, n
      <3>2. t.msgs[i] = s.msgs[i] /\ (p # 0 => t.msgs[p] = s.msgs[p])
        BY <1>1, <1>2, <2>2
      <3>3. \A j \in 1 .. n + 1 : j < i => j \in 1 .. n /\ t.msgs[j] = s.msgs[j]
        BY <1>1, <2>2
      <3>4. t.msgs[i].pred = p /\ t.msgs[i].class = s.msgs[i].class
        BY <3>2
      <3> HIDE DEF p
      <3>5. \A j \in 1 .. n + 1 : p < j /\ j < i /\ s.msgs[i].class \in Stream
                => t.msgs[j].class # s.msgs[i].class
        BY <3>1, <3>3
      <3>6. p # 0 => /\ p < i /\ s.msgs[i].class \in Stream
                     /\ t.msgs[p].class = s.msgs[i].class
        BY <3>1, <3>2
      <3>7. t.msgs[i].pred # 0 =>
                /\ t.msgs[i].pred < i /\ t.msgs[i].class \in Stream
                /\ t.msgs[t.msgs[i].pred].class = t.msgs[i].class
        BY <3>4, <3>6
      <3>8. t.msgs[i].class \in Stream =>
                \A j \in 1 .. n + 1 : t.msgs[i].pred < j /\ j < i
                    => t.msgs[j].class # t.msgs[i].class
        BY <3>4, <3>5
      <3> QED BY <3>7, <3>8
    <2>3. i = n + 1 \/ i \in 1 .. n
      BY <1>1
    <2> HIDE DEF n
    <2> QED BY <2>1, <2>2, <2>3
  <1>6. PredecessorsLeft(t)
    <2>1. \A i \in 1 .. n + 1 : i = n + 1 \/ i \in 1 .. n
      BY <1>1
    <2>2. \A i \in 1 .. n : s.msgs[i].serial # 0 /\ s.msgs[i].pred # 0
              => t.msgs[s.msgs[i].pred].serial # 0
      BY <1>1, <1>2 DEF PredecessorsLeft, n
    <2> QED BY <1>1, <2>1, <2>2 DEF PredecessorsLeft
  <1>7. Keeps(s, t)
    BY <1>1 DEF Keeps, n
  <1>8. QueueOrdered(t, s.urgentQ) /\ QueueOrdered(t, s.vimQ)
    BY <1>7, QueueMembers, QueueKept
  <1> QED BY <1>1, <1>4, <1>5, <1>6, <1>7, <1>8 DEF n

\* A message may go to the end of a queue if it has left, or follows nothing,
\* or its predecessor is in that queue already.
LEMMA QueueGrows ==
    ASSUME NEW t, NEW q \in Seq(Nat), NEW id \in Nat, QueueOrdered(t, q),
           \/ t.msgs[id].serial # 0 \/ t.msgs[id].pred = 0
           \/ t.msgs[t.msgs[id].pred].serial # 0
           \/ t.msgs[id].pred \in Range(q)
    PROVE  QueueOrdered(t, Append(q, id))
  <1> DEFINE u == Append(q, id)
  <1>1. /\ Len(q) \in Nat /\ Len(u) = Len(q) + 1 /\ u[Len(q) + 1] = id
        /\ \A k \in 1 .. Len(q) : u[k] = q[k]
    BY AppendProperties, LenProperties
  <1>2. Range(q) = {q[j] : j \in 1 .. Len(q)}
    BY RangeEquality
  <1> HIDE DEF u
  <1> SUFFICES ASSUME NEW k \in 1 .. Len(u),
                      t.msgs[u[k]].serial = 0, t.msgs[u[k]].pred # 0,
                      t.msgs[t.msgs[u[k]].pred].serial = 0
               PROVE  \E j \in 1 .. Len(u) : j < k /\ u[j] = t.msgs[u[k]].pred
    BY DEF QueueOrdered, u
  <1>3. CASE k = Len(q) + 1
    <2>1. t.msgs[id].pred \in Range(q)
      BY <1>1, <1>3
    <2>2. PICK j \in 1 .. Len(q) : q[j] = t.msgs[id].pred
      BY <1>2, <2>1
    <2> QED BY <1>1, <1>3, <2>2
  <1>4. CASE k \in 1 .. Len(q)
    <2>1. u[k] = q[k]
      BY <1>1, <1>4
    <2>2. PICK j \in 1 .. Len(q) : j < k /\ q[j] = t.msgs[q[k]].pred
      BY <1>4, <2>1 DEF QueueOrdered
    <2> QED BY <1>1, <2>1, <2>2
  <1> QED BY <1>1, <1>3, <1>4

LEMMA PutDummyInv ==
    ASSUME NEW s, SndOK(s), NEW open \in BOOLEAN, SndInv(s, open),
           NEW instant \in BOOLEAN, NEW reply \in 0 .. MaxSerial
    PROVE  SndInv(PutDummy(s, instant, reply), open)
  <1> DEFINE m == [NewMsg("dummy", 0) EXCEPT !.instant = instant, !.reply = reply]
             t == PutDummy(s, instant, reply)
             id == Len(s.msgs) + 1
  <1>1. m \in Msg /\ m.pred = 0 /\ m.serial = 0 /\ m.class = "dummy"
    <2>1. /\ NewMsg("dummy", 0) \in Msg /\ NewMsg("dummy", 0).pred = 0
          /\ NewMsg("dummy", 0).serial = 0 /\ NewMsg("dummy", 0).class = "dummy"
      BY NewMsgType DEF NewMsg
    <2> QED BY <2>1 DEF Msg
  <1>2. SndOK(t)
    BY PutDummyOK
  <1> HIDE DEF m
  <1>3. /\ t.msgs = Append(s.msgs, m) /\ t.serial = s.serial
        /\ t.urgentQ = Append(s.urgentQ, id)
        /\ t.vimQ = s.vimQ /\ t.commonQ = s.commonQ /\ t.prepared = s.prepared
        /\ t.revisited = s.revisited /\ t.lastUrgent = s.lastUrgent
        /\ t.lastVIM = s.lastVIM
    BY DEF SndOK, Snd, PutDummy, m
  <1> HIDE DEF t
  <1>4. "dummy" \notin Stream
    BY DEF Stream
  <1>5. /\ SerialsUsedOnce(t) /\ Chained(t) /\ PredecessorsLeft(t)
        /\ Len(t.msgs) = Len(s.msgs) + 1 /\ t.msgs[id] = m
        /\ \A i \in 1 .. Len(s.msgs) : t.msgs[i] = s.msgs[i]
        /\ QueueOrdered(t, s.urgentQ) /\ QueueOrdered(t, s.vimQ)
    <2>1. /\ SerialsUsedOnce(s) /\ Chained(s) /\ PredecessorsLeft(s)
          /\ QueueOrdered(s, s.urgentQ) /\ QueueOrdered(s, s.vimQ)
      BY DEF SndInv
    <2> QED BY <1>1, <1>2, <1>3, <1>4, <2>1, NewMessageInv
  <1>6. s.urgentQ \in Seq(Nat) /\ id \in Nat
    BY SndFields
  <1> HIDE DEF id
  <1>7. QueueOrdered(t, t.urgentQ) /\ QueueOrdered(t, t.vimQ)
    BY <1>1, <1>3, <1>5, <1>6, QueueGrows
  <1>8. /\ \A i \in Range(t.commonQ) : t.msgs[i].pred = 0
        /\ \A i \in t.revisited : t.msgs[i].serial # 0
        /\ t.prepared # 0 => t.msgs[t.prepared].serial # 0
    BY <1>3, <1>5, QueueMembers DEF SndInv
  <1>9. open => Registered(t)
    <2> SUFFICES ASSUME open PROVE Registered(t)
      OBVIOUS
    <2>1. Registered(s)
      BY DEF SndInv
    <2>2. /\ s.lastUrgent # 0 => t.msgs[s.lastUrgent] = s.msgs[s.lastUrgent]
          /\ s.lastVIM # 0 => t.msgs[s.lastVIM] = s.msgs[s.lastVIM]
      BY <1>5, QueueMembers
    <2>3. \A i \in 1 .. Len(t.msgs) :
              i \in 1 .. Len(s.msgs) \/ t.msgs[i].class = "dummy"
      BY <1>1, <1>5, SndFields DEF id
    <2>4. Range(t.urgentQ) = Range(s.urgentQ) \cup {id}
      BY <1>3, <1>6, RangeOfAppend
    <2> QED BY <1>3, <1>5, <2>1, <2>2, <2>3, <2>4 DEF Registered
  <1> QED BY <1>5, <1>7, <1>8, <1>9 DEF SndInv, t

LEMMA PutMessageInv ==
    ASSUME NEW s, SndOK(s), NEW open \in BOOLEAN, open, SndInv(s, open),
           NEW class \in Class
    PROVE  SndInv(PutMessage(s, class), open)
  <1> DEFINE pred == CASE class = "urgent" -> s.lastUrgent
                       [] class = "vim"    -> s.lastVIM
                       [] class = "common" -> 0
             m == NewMsg(class, pred)
             t == PutMessage(s, class)
             id == Len(s.msgs) + 1
  <1>1. class \in {"urgent", "vim", "common"}
    BY DEF Class, Stream
  <1>2. /\ pred \in Nat /\ (class = "urgent" => pred = s.lastUrgent)
        /\ (class = "vim" => pred = s.lastVIM)
        /\ (class = "common" => pred = 0)
    BY <1>1, SndFields
  <1>3. m \in Msg /\ m.pred = pred /\ m.serial = 0 /\ m.class = class
    BY <1>2, NewMsgType DEF NewMsg
  <1>4. SndOK(t)
    BY PutMessageOK
  <1>5. Registered(s)
    BY DEF SndInv
  <1>6. /\ pred # 0 => /\ pred \in 1 .. Len(s.msgs)
                       /\ class \in Stream /\ s.msgs[pred].class = class
        /\ class \in Stream => \A j \in 1 .. Len(s.msgs) :
               pred < j => s.msgs[j].class # class
    <2>1. {s.lastUrgent, s.lastVIM} \subseteq {0} \cup 1 .. Len(s.msgs)
      BY QueueMembers
    <2> HIDE DEF pred
    <2> QED BY <1>1, <1>2, <1>5, <2>1 DEF Registered, Stream
  <1> HIDE DEF m
  <1>7. t.msgs = Append(s.msgs, m) /\ t.serial = s.serial
        /\ t.prepared = s.prepared /\ t.revisited = s.revisited
    BY <1>1 DEF PutMessage, m, SndOK, Snd
  <1>8. /\ class = "urgent" => /\ t.urgentQ = Append(s.urgentQ, id)
                               /\ t.vimQ = s.vimQ /\ t.commonQ = s.commonQ
                               /\ t.lastUrgent = id /\ t.lastVIM = s.lastVIM
        /\ class = "vim" => /\ t.vimQ = Append(s.vimQ, id)
                            /\ t.urgentQ = s.urgentQ /\ t.commonQ = s.commonQ
                            /\ t.lastVIM = id /\ t.lastUrgent = s.lastUrgent
        /\ class = "common" => /\ t.commonQ = Append(s.commonQ, id)
                               /\ t.urgentQ = s.urgentQ /\ t.vimQ = s.vimQ
                               /\ t.lastVIM = s.lastVIM
                               /\ t.lastUrgent = s.lastUrgent
    BY DEF PutMessage, SndOK, Snd
  <1> HIDE DEF t, pred
  <1>9. /\ SerialsUsedOnce(t) /\ Chained(t) /\ PredecessorsLeft(t)
        /\ Len(t.msgs) = Len(s.msgs) + 1 /\ t.msgs[id] = m
        /\ \A i \in 1 .. Len(s.msgs) : t.msgs[i] = s.msgs[i]
        /\ QueueOrdered(t, s.urgentQ) /\ QueueOrdered(t, s.vimQ)
    <2>1. m.pred # 0 => /\ m.pred \in 1 .. Len(s.msgs)
                        /\ m.class \in Stream
                        /\ s.msgs[m.pred].class = m.class
      BY <1>3, <1>6
    <2>2. m.class \in Stream => \A j \in 1 .. Len(s.msgs) :
              m.pred < j => s.msgs[j].class # m.class
      BY <1>3, <1>6
    <2>3. m \in Msg /\ m.serial = 0 /\ t.msgs = Append(s.msgs, m)
          /\ t.serial = s.serial
      BY <1>3, <1>7
    <2>4. /\ SerialsUsedOnce(s) /\ Chained(s) /\ PredecessorsLeft(s)
          /\ QueueOrdered(s, s.urgentQ) /\ QueueOrdered(s, s.vimQ)
      BY DEF SndInv
    <2> QED BY <1>4, <2>1, <2>2, <2>3, <2>4, NewMessageInv
  <1>10. /\ s.urgentQ \in Seq(Nat) /\ s.vimQ \in Seq(Nat) /\ s.commonQ \in Seq(Nat)
         /\ id \in Nat /\ Len(s.msgs) \in Nat
    BY SndFields
  <1>11. /\ Range(Append(s.urgentQ, id)) = Range(s.urgentQ) \cup {id}
         /\ Range(Append(s.vimQ, id)) = Range(s.vimQ) \cup {id}
         /\ Range(Append(s.commonQ, id)) = Range(s.commonQ) \cup {id}
    <2> HIDE DEF id
    <2>1. \A q \in Seq(Nat) : Range(Append(q, id)) = Range(q) \cup {id}
      BY <1>10, RangeOfAppend, ZenonT(30)
    <2> QED BY <1>10, <2>1
  <1>12. QueueOrdered(t, t.urgentQ) /\ QueueOrdered(t, t.vimQ)
    <2>1. pred # 0 => pred \in 1 .. Len(s.msgs) /\ t.msgs[pred] = s.msgs[pred]
      BY <1>6, <1>9
    <2> HIDE DEF id
    <2>2. CASE class = "urgent"
      <3>1. pred = 0 \/ t.msgs[pred].serial # 0 \/ pred \in Range(s.urgentQ)
        BY <1>5, <1>6, <2>1, <2>2 DEF Registered
      <3>2. QueueOrdered(t, Append(s.urgentQ, id))
        BY <1>3, <1>9, <1>10, <3>1, QueueGrows
      <3> QED BY <1>8, <1>9, <2>2, <3>2
    <2>3. CASE class = "vim"
      <3>1. pred = 0 \/ t.msgs[pred].serial # 0 \/ pred \in Range(s.vimQ)
        BY <1>5, <1>6, <2>1, <2>3 DEF Registered
      <3>2. QueueOrdered(t, Append(s.vimQ, id))
        BY <1>3, <1>9, <1>10, <3>1, QueueGrows
      <3> QED BY <1>8, <1>9, <2>3, <3>2
    <2>4. CASE class = "common"
      BY <1>8, <1>9, <2>4
    <2> QED BY <1>1, <2>2, <2>3, <2>4
  <1>13. \A i \in Range(t.commonQ) : t.msgs[i].pred = 0
    <2>1. Range(t.commonQ) \subseteq Range(s.commonQ) \cup
              (IF class = "common" THEN {id} ELSE {})
      BY <1>1, <1>8, <1>11
    <2>2. \A i \in Range(s.commonQ) : t.msgs[i].pred = 0
      BY <1>9, QueueMembers DEF SndInv
    <2> QED BY <1>2, <1>3, <1>9, <2>1, <2>2
  <1>14. /\ \A i \in t.revisited : t.msgs[i].serial # 0
         /\ t.prepared # 0 => t.msgs[t.prepared].serial # 0
    BY <1>7, <1>9, QueueMembers DEF SndInv
  <1>15. Registered(t)
    <2>1. /\ s.lastUrgent # 0 => t.msgs[s.lastUrgent] = s.msgs[s.lastUrgent]
          /\ s.lastVIM # 0 => t.msgs[s.lastVIM] = s.msgs[s.lastVIM]
          /\ {s.lastUrgent, s.lastVIM} \subseteq {0} \cup 1 .. Len(s.msgs)
      BY <1>9, QueueMembers
    <2>2. \A i \in 1 .. Len(t.msgs) : i \in 1 .. Len(s.msgs) \/ i = id
      BY <1>9, <1>10
    <2>3. \A i \in 1 .. Len(s.msgs) : i < id
      BY <1>10
    <2> HIDE DEF id
    <2>4. /\ t.lastUrgent # 0 => t.msgs[t.lastUrgent].class = "urgent"
          /\ t.lastVIM # 0 => t.msgs[t.lastVIM].class = "vim"
      BY <1>1, <1>3, <1>5, <1>8, <1>9, <2>1 DEF Registered
    <2>5. \A i \in 1 .. Len(t.msgs) :
             /\ t.msgs[i].class = "urgent" => i <= t.lastUrgent
             /\ t.msgs[i].class = "vim" => i <= t.lastVIM
      <3>1. \A i \in 1 .. Len(s.msgs) :
               /\ s.msgs[i].class = "urgent" => i <= s.lastUrgent
               /\ s.msgs[i].class = "vim" => i <= s.lastVIM
               /\ t.msgs[i].class = s.msgs[i].class
        BY <1>5, <1>9 DEF Registered
      <3>2. /\ \A i \in 1 .. Len(s.msgs) : i <= id
            /\ id <= id /\ t.msgs[id].class = class
        BY <1>3, <1>9, <1>10, <2>3
      <3>3. CASE class = "urgent"
        BY <1>8, <2>2, <3>1, <3>2, <3>3
      <3>4. CASE class = "vim"
        BY <1>8, <2>2, <3>1, <3>2, <3>4
      <3>5. CASE class = "common"
        BY <1>8, <2>2, <3>1, <3>2, <3>5
      <3> QED BY <1>1, <3>3, <3>4, <3>5
    <2>6. \A i \in 1 .. Len(t.msgs) :
             /\ t.msgs[i].class = "urgent" /\ t.msgs[i].serial = 0
                   => i \in Range(t.urgentQ)
             /\ t.msgs[i].class = "vim" /\ t.msgs[i].serial = 0
                   => i \in Range(t.vimQ)
      BY <1>1, <1>3, <1>5, <1>8, <1>9, <1>11, <2>2 DEF Registered
    <2> QED BY <2>4, <2>5, <2>6 DEF Registered
  <1> QED BY <1>9, <1>12, <1>13, <1>14, <1>15 DEF SndInv, t


(***************************************************************************)
(* What a step of a sender guarantees to its receiver: serial numbers that *)
(* are given out stay, and new ones are greater than those so far.         *)
(***************************************************************************)
Follows(s, t) ==
    /\ Keeps(s, t) /\ s.serial <= t.serial
    /\ \A i \in 1 .. Len(t.msgs) : t.msgs[i].serial \in 1 .. s.serial - 1
          => i \in 1 .. Len(s.msgs) /\ s.msgs[i].serial = t.msgs[i].serial

LEMMA FollowsRefl ==
    ASSUME NEW s, SndOK(s)
    PROVE  Follows(s, s)
  BY SndFields, KeepsRefl, ParameterTypes DEF Follows

LEMMA FollowsTrans ==
    ASSUME NEW s, NEW t, NEW u, SndOK(s), SndOK(t), SndOK(u),
           Follows(s, t), Follows(t, u)
    PROVE  Follows(s, u)
  <1>1. Keeps(s, u)
    BY KeepsTrans DEF Follows
  <1>2. s.serial \in Nat /\ t.serial \in Nat /\ u.serial \in Nat
    BY SndFields, ParameterTypes
  <1>3. s.serial <= u.serial
    BY <1>2 DEF Follows
  <1>4. ASSUME NEW i \in 1 .. Len(u.msgs), u.msgs[i].serial \in 1 .. s.serial - 1
        PROVE  i \in 1 .. Len(s.msgs) /\ s.msgs[i].serial = u.msgs[i].serial
    <2>1. u.msgs[i].serial \in 1 .. t.serial - 1
      BY <1>2, <1>4 DEF Follows
    <2>2. i \in 1 .. Len(t.msgs) /\ t.msgs[i].serial = u.msgs[i].serial
      BY <2>1 DEF Follows
    <2> QED BY <1>4, <2>2 DEF Follows
  <1> QED BY <1>1, <1>3, <1>4 DEF Follows

\* A step that numbers no message.
LEMMA Unnumbered ==
    ASSUME NEW s, SndOK(s), NEW t, SndOK(t), Keeps(s, t), t.serial = s.serial,
           \A i \in 1 .. Len(t.msgs) :
               \/ t.msgs[i].serial = 0
               \/ i \in 1 .. Len(s.msgs) /\ t.msgs[i].serial = s.msgs[i].serial
    PROVE  Follows(s, t)
  BY SndFields, ParameterTypes DEF Follows

LEMMA AlikeFollows ==
    ASSUME NEW s, SndOK(s), NEW t, SndOK(t), Alike(s, t)
    PROVE  Follows(s, t)
  <1>1. Keeps(s, t)
    BY QueueMembers DEF Alike, Keeps
  <1> QED BY <1>1, Unnumbered DEF Alike

LEMMA PutDummyFollows ==
    ASSUME NEW s, SndOK(s), NEW instant \in BOOLEAN, NEW reply \in 0 .. MaxSerial
    PROVE  Follows(s, PutDummy(s, instant, reply))
  <1> DEFINE m == [NewMsg("dummy", 0) EXCEPT !.instant = instant, !.reply = reply]
             t == PutDummy(s, instant, reply)
  <1>1. m \in Msg /\ m.serial = 0
    <2>1. NewMsg("dummy", 0) \in Msg /\ NewMsg("dummy", 0).serial = 0
      BY NewMsgType DEF NewMsg
    <2> QED BY <2>1 DEF Msg
  <1>2. SndOK(t) /\ Keeps(s, t)
    BY PutDummyOK
  <1>3. t.msgs = Append(s.msgs, m) /\ t.serial = s.serial
    BY DEF SndOK, Snd, PutDummy
  <1>4. s.msgs \in Seq(Msg)
    BY SndFields
  <1> HIDE DEF m, t
  <1>5. \A i \in 1 .. Len(t.msgs) :
            \/ t.msgs[i].serial = 0
            \/ i \in 1 .. Len(s.msgs) /\ t.msgs[i].serial = s.msgs[i].serial
    BY <1>1, <1>3, <1>4, AppendMsg
  <1>6. Follows(s, t)
    BY <1>2, <1>3, <1>5, Unnumbered
  <1> QED BY <1>6 DEF t

LEMMA PutMessageFollows ==
    ASSUME NEW s, SndOK(s), NEW class \in Class
    PROVE  Follows(s, PutMessage(s, class))
  <1> DEFINE pred == CASE class = "urgent" -> s.lastUrgent
                       [] class = "vim"    -> s.lastVIM
                       [] class = "common" -> 0
             m == NewMsg(class, pred)
             t == PutMessage(s, class)
  <1>1. class \in {"urgent", "vim", "common"}
    BY DEF Class, Stream
  <1>2. pred \in Nat
    BY <1>1, SndFields
  <1>3. m \in Msg /\ m.serial = 0
    BY <1>2, NewMsgType DEF NewMsg
  <1>4. SndOK(t) /\ Keeps(s, t)
    BY PutMessageOK
  <1>5. t.msgs = Append(s.msgs, m) /\ t.serial = s.serial
    BY <1>1 DEF PutMessage, SndOK, Snd
  <1>6. s.msgs \in Seq(Msg)
    BY SndFields
  <1> HIDE DEF m, t
  <1>7. \A i \in 1 .. Len(t.msgs) :
            \/ t.msgs[i].serial = 0
            \/ i \in 1 .. Len(s.msgs) /\ t.msgs[i].serial = s.msgs[i].serial
    BY <1>3, <1>5, <1>6, AppendMsg
  <1>8. Follows(s, t)
    BY <1>4, <1>5, <1>7, Unnumbered
  <1> QED BY <1>8 DEF t

\* A message changed in fields the invariant does not look at.
LEMMA TouchedAlike ==
    ASSUME NEW s, SndOK(s), NEW i \in Held(s), NEW m \in Msg,
           m.class = s.msgs[i].class, m.pred = s.msgs[i].pred,
           m.serial = s.msgs[i].serial
    PROVE  LET t == [s EXCEPT !.msgs[i] = m]
           IN /\ SndOK(t) /\ Alike(s, t)
              /\ t.urgentQ = s.urgentQ /\ t.vimQ = s.vimQ
              /\ t.commonQ = s.commonQ /\ t.revisited = s.revisited
              /\ t.prepared = s.prepared
              /\ t.lastUrgent = s.lastUrgent /\ t.lastVIM = s.lastVIM
  <1> DEFINE t == [s EXCEPT !.msgs[i] = m]
  <1>1. SndOK(t)
    BY MsgTouched
  <1>2. i \in 1 .. Len(s.msgs)
    BY SndHeld, SndFields
  <1>3. /\ t.msgs = [s.msgs EXCEPT ![i] = m] /\ t.serial = s.serial
        /\ t.urgentQ = s.urgentQ /\ t.vimQ = s.vimQ
        /\ t.commonQ = s.commonQ /\ t.revisited = s.revisited
        /\ t.prepared = s.prepared
        /\ t.lastUrgent = s.lastUrgent /\ t.lastVIM = s.lastVIM
    BY DEF SndOK, Snd
  <1> HIDE DEF t
  <1>4. /\ Len(t.msgs) = Len(s.msgs)
        /\ \A j \in 1 .. Len(s.msgs) :
              t.msgs[j] = IF j = i THEN m ELSE s.msgs[j]
    BY <1>2, <1>3, MsgReplaced
  <1>5. Alike(s, t)
    BY <1>3, <1>4 DEF Alike
  <1> QED BY <1>1, <1>3, <1>5 DEF t

LEMMA BeatInv ==
    ASSUME NEW s, SndOK(s), NEW open \in BOOLEAN, SndInv(s, open),
           NEW ping \in BOOLEAN
    PROVE  SndInv(Beat(s, ping), open) /\ Follows(s, Beat(s, ping))
  <1>1. CASE s.urgentQ = <<>>
    <2>1. Beat(s, ping) = PutDummy(s, ping, 0)
      BY <1>1 DEF Beat
    <2>2. 0 \in 0 .. MaxSerial
      BY ParameterTypes
    <2> QED BY <2>1, <2>2, PutDummyInv, PutDummyFollows
  <1>2. CASE s.urgentQ # <<>>
    <2> DEFINE i == Head(s.urgentQ)
               m == [s.msgs[i] EXCEPT !.instant = @ \/ ping]
               t == [s EXCEPT !.msgs[i] = m]
    <2>1. Beat(s, ping) = t
      BY <1>2 DEF Beat, SndOK, Snd
    <2>2. i \in Held(s)
      BY <1>2, HeadHeld
    <2>3. s.msgs[i] \in Msg
      BY <2>2, SndHeld, SndFields
    <2>4. m \in Msg /\ m.class = s.msgs[i].class /\ m.pred = s.msgs[i].pred
          /\ m.serial = s.msgs[i].serial
      BY <2>3 DEF Msg
    <2> HIDE DEF i, m
    <2>5. /\ SndOK(t) /\ Alike(s, t)
          /\ t.urgentQ = s.urgentQ /\ t.vimQ = s.vimQ
          /\ t.commonQ = s.commonQ /\ t.revisited = s.revisited
          /\ t.prepared = s.prepared
          /\ t.lastUrgent = s.lastUrgent /\ t.lastVIM = s.lastVIM
      BY <2>2, <2>4, TouchedAlike
    <2> HIDE DEF t
    <2>6. SndInv(t, open)
      BY <2>5, AlikeInv
    <2> QED BY <2>1, <2>5, <2>6, AlikeFollows
  <1> QED BY <1>1, <1>2

LEMMA AckInInv ==
    ASSUME NEW s, SndOK(s), NEW open \in BOOLEAN, SndInv(s, open),
           NEW acks \in SUBSET Serial
    PROVE  SndInv(AckIn(s, acks), open) /\ Follows(s, AckIn(s, acks))
  <1> DEFINE t == AckIn(s, acks)
  <1>1. SndOK(t)
    BY AckInOK
  <1>2. /\ t.msgs = [i \in DOMAIN s.msgs |->
              IF i \in s.revisited /\ s.msgs[i].serial \in acks
              THEN [s.msgs[i] EXCEPT !.status = "acked"] ELSE s.msgs[i]]
        /\ t.serial = s.serial
        /\ t.urgentQ = s.urgentQ /\ t.vimQ = s.vimQ
        /\ t.commonQ = s.commonQ /\ t.revisited = s.revisited
        /\ t.prepared = s.prepared
        /\ t.lastUrgent = s.lastUrgent /\ t.lastVIM = s.lastVIM
    BY DEF AckIn, SndOK, Snd
  <1> HIDE DEF t
  <1>3. DOMAIN t.msgs = 1 .. Len(s.msgs) /\ DOMAIN t.msgs = 1 .. Len(t.msgs)
        /\ Len(t.msgs) \in Nat /\ Len(s.msgs) \in Nat
    BY <1>1, <1>2, SndFields
  <1>4. Len(t.msgs) = Len(s.msgs)
    BY <1>3
  <1>5. \A i \in 1 .. Len(s.msgs) : /\ t.msgs[i].class = s.msgs[i].class
                                    /\ t.msgs[i].pred = s.msgs[i].pred
                                    /\ t.msgs[i].serial = s.msgs[i].serial
    <2> SUFFICES ASSUME NEW i \in 1 .. Len(s.msgs)
                 PROVE  /\ t.msgs[i].class = s.msgs[i].class
                        /\ t.msgs[i].pred = s.msgs[i].pred
                        /\ t.msgs[i].serial = s.msgs[i].serial
      OBVIOUS
    <2>1. s.msgs[i] \in Msg
      BY SndFields
    <2>2. t.msgs[i] \in {s.msgs[i], [s.msgs[i] EXCEPT !.status = "acked"]}
      BY <1>2, <1>3
    <2> QED BY <2>1, <2>2 DEF Msg
  <1>6. Alike(s, t)
    BY <1>2, <1>4, <1>5 DEF Alike
  <1>7. SndInv(t, open) /\ Follows(s, t)
    BY <1>1, <1>2, <1>6, AlikeInv, AlikeFollows
  <1> QED BY <1>7 DEF t


\* A queue may lose its head once that has left.
LEMMA QueueShrinks ==
    ASSUME NEW t, NEW q \in Seq(Nat), q # <<>>, QueueOrdered(t, q),
           t.msgs[Head(q)].serial # 0
    PROVE  QueueOrdered(t, Tail(q))
  <1> DEFINE u == Tail(q)
  <1>1. /\ Len(q) \in Nat /\ Len(u) = Len(q) - 1 /\ Head(q) = q[1]
        /\ \A k \in 1 .. Len(u) : u[k] = q[k + 1]
    BY HeadTailProperties, LenProperties
  <1> HIDE DEF u
  <1> SUFFICES ASSUME NEW k \in 1 .. Len(u),
                      t.msgs[u[k]].serial = 0, t.msgs[u[k]].pred # 0,
                      t.msgs[t.msgs[u[k]].pred].serial = 0
               PROVE  \E j \in 1 .. Len(u) : j < k /\ u[j] = t.msgs[u[k]].pred
    BY DEF QueueOrdered, u
  <1>2. k + 1 \in 1 .. Len(q) /\ u[k] = q[k + 1]
    BY <1>1
  <1>3. PICK j \in 1 .. Len(q) : j < k + 1 /\ q[j] = t.msgs[q[k + 1]].pred
    BY <1>2 DEF QueueOrdered
  <1>4. j # 1
    BY <1>1, <1>2, <1>3
  <1>5. j - 1 \in 1 .. Len(u) /\ j - 1 < k /\ (j - 1) + 1 = j
    BY <1>1, <1>3, <1>4
  <1>6. u[j - 1] = q[j]
    BY <1>1, <1>5
  <1> QED BY <1>2, <1>3, <1>5, <1>6

\* Sequence u is q with x at place i.
Inserted(q, u, x, i) ==
    /\ i \in 1 .. Len(q) + 1 /\ Len(u) = Len(q) + 1
    /\ \A k \in 1 .. Len(q) + 1 :
          u[k] = IF k < i THEN q[k] ELSE IF k = i THEN x ELSE q[k - 1]

\* The positions after an insertion.
LEMMA InsertAtPlaces ==
    ASSUME NEW S, NEW q \in Seq(S), NEW x \in S, NEW i \in 1 .. Len(q)
    PROVE  InsertAt(q, i, x) \in Seq(S) /\ Inserted(q, InsertAt(q, i, x), x, i)
  <1> DEFINE a == SubSeq(q, 1, i - 1)
             b == SubSeq(q, i, Len(q))
             c == a \o <<x>>
  <1>1. Len(q) \in Nat /\ (\A k \in 1 .. Len(q) : q[k] \in S)
    BY RangeOfMember
  <1>2. /\ a \in Seq(S) /\ Len(a) = i - 1
        /\ \A k \in 1 .. i - 1 : a[k] = q[k]
    BY <1>1, SubSeqProperties
  <1>3. /\ b \in Seq(S) /\ Len(b) = Len(q) - i + 1
        /\ \A k \in 1 .. Len(q) - i + 1 : b[k] = q[i + k - 1]
    BY <1>1, SubSeqProperties
  <1>4. InsertAt(q, i, x) = c \o b
    BY DEF InsertAt
  <1> HIDE DEF a, b
  <1>5. <<x>> \in Seq(S) /\ Len(<<x>>) = 1 /\ <<x>>[1] = x
    BY OneElement
  <1>6. /\ c \in Seq(S) /\ Len(c) = i
        /\ \A k \in 1 .. i : c[k] = IF k < i THEN q[k] ELSE x
    <2>1. /\ c \in Seq(S) /\ Len(c) = Len(a) + Len(<<x>>)
          /\ \A k \in 1 .. Len(a) + Len(<<x>>) :
                c[k] = IF k <= Len(a) THEN a[k] ELSE <<x>>[k - Len(a)]
      BY <1>2, <1>5, ConcatProperties
    <2> HIDE DEF c
    <2> QED BY <1>1, <1>2, <1>5, <2>1
  <1> HIDE DEF c
  <1>7. /\ Len(c \o b) = Len(q) + 1
        /\ \A k \in 1 .. Len(q) + 1 :
              (c \o b)[k] = IF k <= i THEN c[k] ELSE b[k - i]
    <2>1. /\ Len(c \o b) = Len(c) + Len(b)
          /\ \A k \in 1 .. Len(c) + Len(b) :
                (c \o b)[k] = IF k <= Len(c) THEN c[k] ELSE b[k - Len(c)]
      BY <1>3, <1>6, ConcatProperties
    <2>2. Len(c) + Len(b) = Len(q) + 1 /\ Len(c) = i
      BY <1>1, <1>3, <1>6
    <2> QED BY <2>1, <2>2
  <1>8. ASSUME NEW k \in 1 .. Len(q) + 1
        PROVE  (c \o b)[k] = IF k < i THEN q[k]
                             ELSE IF k = i THEN x ELSE q[k - 1]
    <2>1. CASE k <= i
      <3>1. k \in 1 .. i /\ (c \o b)[k] = c[k]
        BY <1>1, <1>7, <2>1
      <3>2. c[k] = IF k < i THEN q[k] ELSE x
        BY <1>6, <3>1
      <3> QED BY <2>1, <3>1, <3>2
    <2>2. CASE k > i
      <3>1. k - i \in 1 .. Len(q) - i + 1 /\ i + (k - i) - 1 = k - 1
        BY <1>1, <2>2
      <3>2. b[k - i] = q[i + (k - i) - 1]
        BY <1>3, <3>1
      <3>3. (c \o b)[k] = b[k - i]
        BY <1>1, <1>7, <2>2
      <3>4. ~(k < i) /\ k # i
        BY <2>2
      <3>5. (c \o b)[k] = q[k - 1]
        BY <3>1, <3>2, <3>3
      <3> QED BY <3>4, <3>5
    <2>3. k <= i \/ k > i
      BY <1>1
    <2> HIDE DEF c, b
    <2> QED BY <2>1, <2>2, <2>3
  <1>9. c \o b \in Seq(S)
    BY <1>3, <1>6, ConcatProperties
  <1>10. i \in 1 .. Len(q) + 1
    BY <1>1
  <1> QED BY <1>4, <1>7, <1>8, <1>9, <1>10 DEF Inserted

LEMMA InsertAtPositions ==
    ASSUME NEW q \in Seq(Nat), NEW x \in Nat, NEW i \in 1 .. Len(q)
    PROVE  /\ Len(InsertAt(q, i, x)) = Len(q) + 1
           /\ \A k \in 1 .. Len(q) + 1 :
                 InsertAt(q, i, x)[k] = IF k < i THEN q[k]
                                        ELSE IF k = i THEN x ELSE q[k - 1]
  <1>1. InsertAt(q, i, x) \in Seq(Nat) /\ Inserted(q, InsertAt(q, i, x), x, i)
    BY InsertAtPlaces
  <1> QED BY <1>1 DEF Inserted

\* A message that has left may go anywhere in a queue.
LEMMA QueueResent ==
    ASSUME NEW t, NEW q \in Seq(Nat), NEW id \in Nat, QueueOrdered(t, q),
           t.msgs[id].serial # 0
    PROVE  QueueOrdered(t, PutResend(q, id))
  <1> DEFINE Younger == {k \in 1 .. Len(q) : q[k] > id}
             i == IF Younger # {} THEN Min(Younger) ELSE 0
  <1>1. Len(q) \in Nat
    BY RangeOfMember
  <1>2. i \in 0 .. Len(q)
    BY <1>1, MinOfPositions
  <1>3. PutResend(q, id) = IF i = 0 THEN Append(q, id) ELSE InsertAt(q, i, id)
    BY DEF PutResend, SelectInSeq
  <1> HIDE DEF i
  <1>4. CASE i = 0
    BY <1>3, <1>4, QueueGrows
  <1>5. CASE i # 0
    <2> DEFINE u == InsertAt(q, i, id)
    <2>1. i \in 1 .. Len(q) /\ PutResend(q, id) = u
      BY <1>1, <1>2, <1>3, <1>5
    <2>2. /\ Len(u) = Len(q) + 1
          /\ \A k \in 1 .. Len(q) + 1 :
                u[k] = IF k < i THEN q[k] ELSE IF k = i THEN id ELSE q[k - 1]
      BY <2>1, InsertAtPositions
    <2> HIDE DEF u
    <2> SUFFICES ASSUME NEW k \in 1 .. Len(u),
                        t.msgs[u[k]].serial = 0, t.msgs[u[k]].pred # 0,
                        t.msgs[t.msgs[u[k]].pred].serial = 0
                 PROVE  \E j \in 1 .. Len(u) : j < k /\ u[j] = t.msgs[u[k]].pred
      BY <2>1 DEF QueueOrdered
    <2>3. k # i
      BY <2>1, <2>2
    <2> DEFINE l == IF k < i THEN k ELSE k - 1
    <2>4. l \in 1 .. Len(q) /\ u[k] = q[l] /\ l <= k /\ (k > i => l < k)
      BY <1>1, <2>1, <2>2, <2>3
    <2>5. k < i => l < i
      OBVIOUS
    <2> HIDE DEF l
    <2>6. PICK j \in 1 .. Len(q) : j < l /\ q[j] = t.msgs[q[l]].pred
      BY <2>4 DEF QueueOrdered
    <2>7. CASE j < i
      <3>1. j \in 1 .. Len(u) /\ j < k /\ u[j] = q[j]
        BY <1>1, <2>1, <2>2, <2>4, <2>6, <2>7
      <3> QED BY <2>4, <2>6, <3>1
    <2>8. CASE j >= i
      <3>1. j + 1 \in 1 .. Len(u) /\ j + 1 < k /\ u[j + 1] = q[(j + 1) - 1]
            /\ (j + 1) - 1 = j
        BY <1>1, <2>1, <2>2, <2>3, <2>4, <2>5, <2>6, <2>8
      <3> QED BY <2>4, <2>6, <3>1
    <2> QED BY <1>1, <2>1, <2>6, <2>7, <2>8
  <1> QED BY <1>4, <1>5


LEMMA ReplyToInv ==
    ASSUME NEW s, SndOK(s), NEW open \in BOOLEAN, SndInv(s, open),
           NEW request \in 0 .. MaxSerial
    PROVE  SndInv(ReplyTo(s, request), open) /\ Follows(s, ReplyTo(s, request))
  <1> DEFINE Free == {k \in 1 .. Len(s.urgentQ) : ~IsShort(s.msgs[s.urgentQ[k]])}
             i == IF Free # {} THEN Min(Free) ELSE 0
  <1>1. s.urgentQ \in Seq(Nat) /\ s.commonQ \in Seq(Nat) /\ Len(s.urgentQ) \in Nat
    <2>1. s.urgentQ \in Seq(Nat) /\ s.commonQ \in Seq(Nat)
      BY SndFields
    <2> QED BY <2>1, LenProperties
  <1>2. i \in 0 .. Len(s.urgentQ)
    BY <1>1, MinOfPositions
  <1>3. ReplyTo(s, request) =
           IF i # 0
           THEN [s EXCEPT !.msgs[s.urgentQ[i]].reply = request]
           ELSE IF s.commonQ = <<>>
           THEN PutDummy(s, FALSE, request)
           ELSE [s EXCEPT !.msgs[Head(s.commonQ)].reply = request,
                          !.urgentQ = Append(@, Head(s.commonQ)),
                          !.commonQ = Tail(@)]
    BY DEF ReplyTo, SelectInSeq
  <1> HIDE DEF i
  <1>4. CASE i # 0
    <2> DEFINE j == s.urgentQ[i]
               m == [s.msgs[j] EXCEPT !.reply = request]
               t == [s EXCEPT !.msgs[j] = m]
    <2>1. j \in Held(s) /\ s.msgs[j] \in Msg
      <3>1. j \in Range(s.urgentQ)
        BY <1>1, <1>2, <1>4, RangeOfMember
      <3> QED BY <3>1, SndHeld, SndFields DEF Held
    <2>2. /\ m \in Msg /\ m.class = s.msgs[j].class /\ m.pred = s.msgs[j].pred
          /\ m.serial = s.msgs[j].serial
      BY <2>1 DEF Msg
    <2>3. ReplyTo(s, request) = t
      BY <1>3, <1>4
    <2> HIDE DEF j, m
    <2>4. /\ SndOK(t) /\ Alike(s, t)
          /\ t.urgentQ = s.urgentQ /\ t.vimQ = s.vimQ
          /\ t.commonQ = s.commonQ /\ t.revisited = s.revisited
          /\ t.prepared = s.prepared
          /\ t.lastUrgent = s.lastUrgent /\ t.lastVIM = s.lastVIM
      BY <2>1, <2>2, TouchedAlike
    <2> HIDE DEF t
    <2>5. SndInv(t, open) /\ Follows(s, t)
      BY <2>4, AlikeInv, AlikeFollows
    <2> QED BY <2>3, <2>5
  <1>5. CASE i = 0 /\ s.commonQ = <<>>
    BY <1>3, <1>5, PutDummyInv, PutDummyFollows
  <1>6. CASE i = 0 /\ s.commonQ # <<>>
    <2> DEFINE j == Head(s.commonQ)
               m == [s.msgs[j] EXCEPT !.reply = request]
               u == [s EXCEPT !.msgs[j] = m]
               t == [u EXCEPT !.urgentQ = Append(@, j), !.commonQ = Tail(@)]
    <2>1. j \in Held(s) /\ s.msgs[j] \in Msg
      BY <1>6, HeadHeld, SndHeld, SndFields
    <2>2. /\ m \in Msg /\ m.class = s.msgs[j].class /\ m.pred = s.msgs[j].pred
          /\ m.serial = s.msgs[j].serial
      BY <2>1 DEF Msg
    <2>3. ReplyTo(s, request) = t
      BY <1>3, <1>6 DEF SndOK, Snd
    <2>4. SndOK(t)
      BY <2>3, ReplyToOK
    <2> HIDE DEF m
    <2>5. /\ SndOK(u) /\ Alike(s, u)
          /\ u.urgentQ = s.urgentQ /\ u.vimQ = s.vimQ
          /\ u.commonQ = s.commonQ /\ u.revisited = s.revisited
          /\ u.prepared = s.prepared
          /\ u.lastUrgent = s.lastUrgent /\ u.lastVIM = s.lastVIM
      BY <2>1, <2>2, TouchedAlike
    <2> HIDE DEF u
    <2>6. SndInv(u, open) /\ Follows(s, u)
      BY <2>5, AlikeInv, AlikeFollows
    <2>7. /\ Append(s.urgentQ, j) \in Seq(Nat) /\ Tail(s.commonQ) \in Seq(Nat)
          /\ Range(Append(s.urgentQ, j)) = Range(s.urgentQ) \cup {j}
          /\ Range(s.commonQ) = Range(Tail(s.commonQ)) \cup {j}
          /\ j \in Nat
      BY <1>1, <1>6, RangeOfAppend, RangeOfTail
    <2> HIDE DEF j
    <2>8. /\ t.urgentQ = Append(s.urgentQ, j) /\ t.commonQ = Tail(s.commonQ)
          /\ t.vimQ = u.vimQ /\ t.revisited = u.revisited
          /\ t.prepared = u.prepared /\ t.lastUrgent = u.lastUrgent
          /\ t.lastVIM = u.lastVIM /\ t.msgs = u.msgs /\ t.serial = u.serial
      BY <2>5 DEF SndOK, Snd
    <2> HIDE DEF t
    <2>9. Alike(u, t)
      BY <2>8 DEF Alike
    <2>10. Follows(s, t)
      BY <2>4, <2>5, <2>6, <2>9, AlikeFollows, FollowsTrans
    <2>11. /\ SerialsUsedOnce(t) /\ Chained(t) /\ PredecessorsLeft(t)
           /\ Keeps(u, t)
      BY <2>4, <2>5, <2>6, <2>9, AlikeParts DEF SndInv
    <2>12. QueueOrdered(t, s.urgentQ) /\ QueueOrdered(t, s.vimQ)
      <3>1. /\ \A k \in 1 .. Len(u.urgentQ) : u.urgentQ[k] \in 1 .. Len(u.msgs)
            /\ \A k \in 1 .. Len(u.vimQ) : u.vimQ[k] \in 1 .. Len(u.msgs)
        BY <2>5, QueueMembers
      <3>2. QueueOrdered(u, u.urgentQ) /\ QueueOrdered(u, u.vimQ)
        BY <2>6 DEF SndInv
      <3> QED BY <2>5, <2>11, <3>1, <3>2, QueueKept
    <2>13. t.msgs[j].pred = 0
      BY <2>5, <2>6, <2>7, <2>8 DEF SndInv
    <2>14. QueueOrdered(t, t.urgentQ) /\ QueueOrdered(t, t.vimQ)
      BY <1>1, <2>5, <2>7, <2>8, <2>12, <2>13, QueueGrows
    <2>15. /\ \A k \in Range(t.commonQ) : t.msgs[k].pred = 0
           /\ \A k \in t.revisited : t.msgs[k].serial # 0
           /\ t.prepared # 0 => t.msgs[t.prepared].serial # 0
      BY <2>5, <2>6, <2>7, <2>8 DEF SndInv
    <2>16. open => Registered(t)
      BY <2>5, <2>6, <2>7, <2>8 DEF SndInv, Registered
    <2>17. SndInv(t, open)
      BY <2>11, <2>14, <2>15, <2>16 DEF SndInv
    <2> QED BY <2>3, <2>10, <2>17
  <1> QED BY <1>2, <1>4, <1>5, <1>6

\* A message that is overdue goes back to the urgent queue.
Overdue(s, i) ==
    [s EXCEPT !.urgentQ = PutResend(@, i), !.revisited = @ \ {i}]

LEMMA OverdueInv ==
    ASSUME NEW s, SndOK(s), NEW open \in BOOLEAN, SndInv(s, open),
           NEW i \in s.revisited, SndOK(Overdue(s, i))
    PROVE  SndInv(Overdue(s, i), open) /\ Follows(s, Overdue(s, i))
  <1> DEFINE t == Overdue(s, i)
  <1>1. /\ t.urgentQ = PutResend(s.urgentQ, i)
        /\ t.revisited = s.revisited \ {i}
        /\ t.vimQ = s.vimQ /\ t.commonQ = s.commonQ /\ t.msgs = s.msgs
        /\ t.serial = s.serial /\ t.prepared = s.prepared
        /\ t.lastUrgent = s.lastUrgent /\ t.lastVIM = s.lastVIM
    BY DEF Overdue, SndOK, Snd
  <1>2. SndOK(t)
    OBVIOUS
  <1> HIDE DEF t
  <1>3. Alike(s, t)
    BY <1>1 DEF Alike
  <1>4. /\ SerialsUsedOnce(t) /\ Chained(t) /\ PredecessorsLeft(t)
        /\ Keeps(s, t) /\ Follows(s, t)
    BY <1>2, <1>3, AlikeParts, AlikeFollows DEF SndInv
  <1>5. QueueOrdered(t, s.urgentQ) /\ QueueOrdered(t, s.vimQ)
    BY <1>4, QueueMembers, QueueKept DEF SndInv
  <1>6. s.urgentQ \in Seq(Nat) /\ i \in Nat
    BY SndFields
  <1>7. t.msgs[i].serial # 0
    BY <1>1 DEF SndInv
  <1>8. QueueOrdered(t, t.urgentQ) /\ QueueOrdered(t, t.vimQ)
    BY <1>1, <1>5, <1>6, <1>7, QueueResent
  <1>9. Range(t.urgentQ) = Range(s.urgentQ) \cup {i}
    BY <1>1, <1>6, PutResendRange
  <1>10. /\ \A k \in Range(t.commonQ) : t.msgs[k].pred = 0
         /\ \A k \in t.revisited : t.msgs[k].serial # 0
         /\ t.prepared # 0 => t.msgs[t.prepared].serial # 0
    BY <1>1 DEF SndInv
  <1>11. open => Registered(t)
    BY <1>1, <1>9 DEF SndInv, Registered
  <1>12. SndInv(t, open)
    BY <1>4, <1>8, <1>10, <1>11 DEF SndInv
  <1> QED BY <1>4, <1>12 DEF t


\* The fate of the queues and of the other fields when a message leaves.
LEMMA SentParts ==
    ASSUME NEW s, SndOK(s), NextQueue(s) # <<>>,
           NEW id, id = Head(NextQueue(s)),
           Numbered(s, id).serial <= MaxSerial
    PROVE  LET t == AfterSend(s)
           IN /\ id \in 1 .. Len(s.msgs) /\ Len(t.msgs) = Len(s.msgs)
              /\ \A i \in 1 .. Len(s.msgs) :
                    t.msgs[i] = IF i = id THEN Numbered(s, id) ELSE s.msgs[i]
              /\ t.serial = IF s.msgs[id].serial = 0 THEN s.serial + 1
                                                     ELSE s.serial
              /\ t.prepared = id /\ t.revisited = s.revisited
              /\ t.lastUrgent = s.lastUrgent /\ t.lastVIM = s.lastVIM
              /\ t.urgentQ = Unqueue(s).urgentQ /\ t.vimQ = Unqueue(s).vimQ
              /\ t.commonQ = Unqueue(s).commonQ
  <1> DEFINE u == Unqueue(s)
             m == Numbered(s, id)
             t == [u EXCEPT !.msgs[id] = m,
                            !.serial = IF s.msgs[id].serial = 0
                                       THEN @ + 1 ELSE @,
                            !.prepared = id]
  <1>1. AfterSend(s) = t
    BY DEF AfterSend
  <1>2. /\ u \in Snd /\ u.msgs = s.msgs /\ u.serial = s.serial
        /\ u.revisited = s.revisited /\ u.lastUrgent = s.lastUrgent
        /\ u.lastVIM = s.lastVIM /\ id \in 1 .. Len(s.msgs)
    BY UnqueueOK
  <1>3. m \in Msg
    BY <1>2, NumberedOK
  <1> HIDE DEF m, u
  <1>4. /\ t.msgs = [s.msgs EXCEPT ![id] = m] /\ t.prepared = id
        /\ t.serial = IF s.msgs[id].serial = 0 THEN s.serial + 1 ELSE s.serial
        /\ t.revisited = u.revisited /\ t.lastUrgent = u.lastUrgent
        /\ t.lastVIM = u.lastVIM /\ t.urgentQ = u.urgentQ /\ t.vimQ = u.vimQ
        /\ t.commonQ = u.commonQ
    BY <1>2 DEF Snd
  <1> HIDE DEF t
  <1>5. /\ Len(t.msgs) = Len(s.msgs)
        /\ \A i \in 1 .. Len(s.msgs) :
              t.msgs[i] = IF i = id THEN m ELSE s.msgs[i]
    BY <1>2, <1>3, <1>4, MsgReplaced
  <1> QED BY <1>1, <1>2, <1>4, <1>5 DEF m, u

\* Only the queue that is served loses its head.
LEMMA UnqueueQueues ==
    ASSUME NEW s, SndOK(s), NextQueue(s) # <<>>,
           NEW id, id = Head(NextQueue(s))
    PROVE  LET u == Unqueue(s)
           IN /\ \/ u.urgentQ = s.urgentQ
                 \/ s.urgentQ # <<>> /\ Head(s.urgentQ) = id
                    /\ u.urgentQ = Tail(s.urgentQ)
              /\ \/ u.vimQ = s.vimQ
                 \/ s.vimQ # <<>> /\ Head(s.vimQ) = id /\ u.vimQ = Tail(s.vimQ)
              /\ \/ s.urgentQ # <<>> /\ id = Head(s.urgentQ)
                 \/ s.vimQ # <<>> /\ id = Head(s.vimQ)
                 \/ s.commonQ # <<>> /\ id = Head(s.commonQ)
  <1>1. CASE s.urgentQ # <<>>
    BY <1>1 DEF Unqueue, NextQueue, SndOK, Snd
  <1>2. CASE s.urgentQ = <<>> /\ s.vimQ # <<>>
    BY <1>2 DEF Unqueue, NextQueue, SndOK, Snd
  <1>3. CASE s.urgentQ = <<>> /\ s.vimQ = <<>>
    BY <1>3 DEF Unqueue, NextQueue, SndOK, Snd
  <1> QED BY <1>1, <1>2, <1>3

\* The head of a queue follows a message that has left.
LEMMA HeadReady ==
    ASSUME NEW s, SndOK(s), NEW open \in BOOLEAN, SndInv(s, open),
           NextQueue(s) # <<>>, NEW id, id = Head(NextQueue(s)),
           s.msgs[id].serial = 0, s.msgs[id].pred # 0
    PROVE  s.msgs[s.msgs[id].pred].serial # 0
  <1>1. \A q \in Seq(Nat) : q # <<>> /\ id = Head(q) /\ QueueOrdered(s, q)
            => s.msgs[s.msgs[id].pred].serial # 0
    <2> SUFFICES ASSUME NEW q \in Seq(Nat), q # <<>>, id = Head(q),
                        QueueOrdered(s, q), s.msgs[s.msgs[id].pred].serial = 0
                 PROVE  FALSE
      OBVIOUS
    <2>1. 1 \in 1 .. Len(q) /\ q[1] = id
      OBVIOUS
    <2>2. \E j \in 1 .. Len(q) : j < 1 /\ q[j] = s.msgs[id].pred
      BY <2>1 DEF QueueOrdered
    <2> QED BY <2>2
  <1>2. s.commonQ # <<>> => id # Head(s.commonQ)
    <2>1. s.commonQ \in Seq(Nat)
      BY SndFields
    <2>2. s.commonQ # <<>> => Head(s.commonQ) \in Range(s.commonQ)
      BY <2>1, RangeOfTail
    <2> QED BY <2>2 DEF SndInv
  <1>3. /\ s.urgentQ \in Seq(Nat) /\ s.vimQ \in Seq(Nat)
        /\ QueueOrdered(s, s.urgentQ) /\ QueueOrdered(s, s.vimQ)
    BY SndFields DEF SndInv
  <1>4. \/ s.urgentQ # <<>> /\ id = Head(s.urgentQ)
        \/ s.vimQ # <<>> /\ id = Head(s.vimQ)
    BY <1>2, UnqueueQueues
  <1> QED BY <1>1, <1>3, <1>4

LEMMA SentInv ==
    ASSUME NEW s, SndOK(s), NEW open \in BOOLEAN, SndInv(s, open),
           NextQueue(s) # <<>>,
           Numbered(s, Head(NextQueue(s))).serial <= MaxSerial
    PROVE  SndInv(AfterSend(s), open) /\ Follows(s, AfterSend(s))
  <1> DEFINE t == AfterSend(s)
             id == Head(NextQueue(s))
             m == Numbered(s, id)
             n == Len(s.msgs)
  <1>1. /\ id \in 1 .. n /\ Len(t.msgs) = n
        /\ \A i \in 1 .. n : t.msgs[i] = IF i = id THEN m ELSE s.msgs[i]
        /\ t.serial = IF s.msgs[id].serial = 0 THEN s.serial + 1 ELSE s.serial
        /\ t.prepared = id /\ t.revisited = s.revisited
        /\ t.lastUrgent = s.lastUrgent /\ t.lastVIM = s.lastVIM
        /\ t.urgentQ = Unqueue(s).urgentQ /\ t.vimQ = Unqueue(s).vimQ
        /\ t.commonQ = Unqueue(s).commonQ
    BY SentParts
  <1>2. SndOK(t) /\ Keeps(s, t)
    BY SentOK
  <1>3. /\ m.class = s.msgs[id].class /\ m.pred = s.msgs[id].pred
        /\ m.serial \in Serial /\ m.serial # 0
        /\ s.msgs[id].serial # 0 => m = s.msgs[id]
        /\ s.msgs[id].serial = 0 => m.serial = s.serial
    <2>1. m.serial \in Serial => m.serial # 0
      BY DEF Serial
    <2> QED BY <1>1, <2>1, NumberedOK
  <1>4. s.serial \in Nat \ {0} /\ n \in Nat
    BY SndFields, ParameterTypes
  <1>5. \A i \in 1 .. n : /\ s.msgs[i] \in Msg /\ s.msgs[i].serial \in Nat
                          /\ s.msgs[i].serial < s.serial
                          /\ s.msgs[i].pred # 0 => s.msgs[i].pred \in 1 .. n
    BY QueueMembers, ParameterTypes DEF SndInv, SerialsUsedOnce, Msg
  <1>6. s.msgs[id].serial = 0 /\ s.msgs[id].pred # 0
            => s.msgs[s.msgs[id].pred].serial # 0
    BY HeadReady
  <1>7. /\ s.urgentQ \in Seq(Nat) /\ s.vimQ \in Seq(Nat)
        /\ \/ t.urgentQ = s.urgentQ
           \/ s.urgentQ # <<>> /\ Head(s.urgentQ) = id
              /\ t.urgentQ = Tail(s.urgentQ)
        /\ \/ t.vimQ = s.vimQ
           \/ s.vimQ # <<>> /\ Head(s.vimQ) = id /\ t.vimQ = Tail(s.vimQ)
        /\ Range(t.commonQ) \subseteq Range(s.commonQ)
    BY <1>1, SndFields, UnqueueQueues, UnqueueOK
  <1>8. /\ SerialsUsedOnce(s) /\ Chained(s) /\ PredecessorsLeft(s)
        /\ QueueOrdered(s, s.urgentQ) /\ QueueOrdered(s, s.vimQ)
        /\ \A i \in Range(s.commonQ) : s.msgs[i].pred = 0
        /\ \A i \in s.revisited : s.msgs[i].serial # 0
        /\ open => Registered(s)
    BY DEF SndInv
  <1>9. /\ \A k \in 1 .. Len(s.urgentQ) : s.urgentQ[k] \in 1 .. n
        /\ \A k \in 1 .. Len(s.vimQ) : s.vimQ[k] \in 1 .. n
        /\ \A i \in Range(s.commonQ) : i \in 1 .. n
        /\ \A i \in s.revisited : i \in 1 .. n
        /\ {s.prepared, s.lastUrgent, s.lastVIM} \subseteq {0} \cup 1 .. n
    BY QueueMembers
  <1>10. n = Len(s.msgs)
    OBVIOUS
  <1> HIDE DEF t, id, m, n
  <1>11. \A i \in 1 .. n : /\ t.msgs[i].class = s.msgs[i].class
                           /\ t.msgs[i].pred = s.msgs[i].pred
                           /\ s.msgs[i].serial # 0
                                  => t.msgs[i].serial = s.msgs[i].serial
                           /\ i # id => t.msgs[i].serial = s.msgs[i].serial
    BY <1>1, <1>3
  <1>12. t.msgs[id].serial = m.serial /\ t.msgs[id].serial # 0
    BY <1>1, <1>3
  <1>13. SerialsUsedOnce(t)
    <2>1. CASE s.msgs[id].serial = 0
      <3>1. t.serial = s.serial + 1 /\ t.msgs[id].serial = s.serial
        BY <1>1, <1>3, <1>12, <2>1
      <3>2. \A i \in 1 .. n : t.msgs[i].serial < t.serial
        BY <1>4, <1>5, <1>11, <3>1
      <3>3. \A i, j \in 1 .. n : i # j /\ t.msgs[i].serial # 0
                => t.msgs[i].serial # t.msgs[j].serial
        <4> SUFFICES ASSUME NEW i \in 1 .. n, NEW j \in 1 .. n, i # j,
                            t.msgs[i].serial # 0
                     PROVE  t.msgs[i].serial # t.msgs[j].serial
          OBVIOUS
        <4>1. CASE i = id
          <5>1. t.msgs[j].serial = s.msgs[j].serial /\ s.msgs[j].serial < s.serial
            BY <1>5, <1>11, <4>1
          <5> QED BY <1>4, <1>5, <3>1, <4>1, <5>1
        <4>2. CASE j = id
          <5>1. t.msgs[i].serial = s.msgs[i].serial /\ s.msgs[i].serial < s.serial
            BY <1>5, <1>11, <4>2
          <5> QED BY <1>4, <1>5, <3>1, <4>2, <5>1
        <4>3. CASE i # id /\ j # id
          BY <1>8, <1>10, <1>11, <4>3 DEF SerialsUsedOnce
        <4> QED BY <4>1, <4>2, <4>3
      <3> QED BY <1>1, <3>2, <3>3 DEF SerialsUsedOnce
    <2>2. CASE s.msgs[id].serial # 0
      <3>1. /\ t.serial = s.serial
            /\ \A i \in 1 .. n : t.msgs[i].serial = s.msgs[i].serial
        BY <1>1, <1>11, <2>2
      <3> QED BY <1>1, <1>8, <1>10, <3>1 DEF SerialsUsedOnce
    <2> QED BY <2>1, <2>2
  <1>14. Chained(t)
    <2> SUFFICES ASSUME NEW i \in 1 .. n
                 PROVE  /\ t.msgs[i].pred # 0 =>
                              /\ t.msgs[i].pred < i /\ t.msgs[i].class \in Stream
                              /\ t.msgs[t.msgs[i].pred].class = t.msgs[i].class
                        /\ t.msgs[i].class \in Stream =>
                              \A j \in 1 .. n :
                                  t.msgs[i].pred < j /\ j < i
                                      => t.msgs[j].class # t.msgs[i].class
      BY <1>1 DEF Chained
    <2> DEFINE p == s.msgs[i].pred
    <2>1. /\ p # 0 => /\ p < i /\ s.msgs[i].class \in Stream
                      /\ s.msgs[p].class = s.msgs[i].class
          /\ s.msgs[i].class \in Stream =>
                \A j \in 1 .. n :
                    p < j /\ j < i => s.msgs[j].class # s.msgs[i].class
      BY <1>8, <1>10 DEF Chained
    <2>2. t.msgs[i].pred = p /\ (p # 0 => t.msgs[p].class = s.msgs[p].class)
          /\ t.msgs[i].class = s.msgs[i].class
      BY <1>5, <1>11
    <2> HIDE DEF p
    <2> QED BY <1>11, <2>1, <2>2
  <1>15. PredecessorsLeft(t)
    <2> SUFFICES ASSUME NEW i \in 1 .. n, t.msgs[i].serial # 0,
                        t.msgs[i].pred # 0
                 PROVE  t.msgs[t.msgs[i].pred].serial # 0
      BY <1>1 DEF PredecessorsLeft
    <2>1. t.msgs[i].pred = s.msgs[i].pred /\ s.msgs[i].pred \in 1 .. n
      BY <1>5, <1>11
    <2>2. s.msgs[s.msgs[i].pred].serial # 0
      <3>1. CASE i = id /\ s.msgs[id].serial = 0
        BY <1>6, <2>1, <3>1
      <3>2. CASE i # id \/ s.msgs[id].serial # 0
        <4>1. s.msgs[i].serial # 0
          BY <1>11, <3>2
        <4> QED BY <1>8, <1>10, <2>1, <4>1 DEF PredecessorsLeft
      <3> QED BY <3>1, <3>2
    <2> QED BY <1>11, <2>1, <2>2
  <1>16. QueueOrdered(t, t.urgentQ) /\ QueueOrdered(t, t.vimQ)
    <2>1. QueueOrdered(t, s.urgentQ) /\ QueueOrdered(t, s.vimQ)
      BY <1>2, <1>8, <1>9, <1>10, QueueKept
    <2>2. t.urgentQ = Tail(s.urgentQ) /\ s.urgentQ # <<>> /\ Head(s.urgentQ) = id
              => QueueOrdered(t, t.urgentQ)
      BY <1>7, <1>12, <2>1, QueueShrinks
    <2>3. t.vimQ = Tail(s.vimQ) /\ s.vimQ # <<>> /\ Head(s.vimQ) = id
              => QueueOrdered(t, t.vimQ)
      BY <1>7, <1>12, <2>1, QueueShrinks
    <2> QED BY <1>7, <2>1, <2>2, <2>3
  <1>17. /\ \A i \in Range(t.commonQ) : t.msgs[i].pred = 0
         /\ \A i \in t.revisited : t.msgs[i].serial # 0
         /\ t.prepared # 0 => t.msgs[t.prepared].serial # 0
    BY SMTT(30), <1>1, <1>7, <1>8, <1>9, <1>11, <1>12
  <1>18. open => Registered(t)
    <2> SUFFICES ASSUME Registered(s)
                 PROVE  Registered(t)
      BY <1>8
    <2>1. /\ Range(s.urgentQ) \subseteq Range(t.urgentQ) \cup {id}
          /\ Range(s.vimQ) \subseteq Range(t.vimQ) \cup {id}
      BY <1>7, RangeOfTail
    <2>2. \A i \in 1 .. n :
              /\ t.msgs[i].class = "urgent" => i <= t.lastUrgent
              /\ t.msgs[i].class = "vim" => i <= t.lastVIM
      BY <1>1, <1>10, <1>11 DEF Registered
    <2>3. \A i \in 1 .. n : t.msgs[i].serial = 0
              => i # id /\ s.msgs[i].serial = 0
      BY <1>11, <1>12
    <2>4. \A i \in 1 .. n :
              /\ t.msgs[i].class = "urgent" /\ t.msgs[i].serial = 0
                    => i \in Range(t.urgentQ)
              /\ t.msgs[i].class = "vim" /\ t.msgs[i].serial = 0
                    => i \in Range(t.vimQ)
      BY <1>10, <1>11, <2>1, <2>3 DEF Registered
    <2>5. /\ t.lastUrgent # 0 => t.msgs[t.lastUrgent].class = "urgent"
          /\ t.lastVIM # 0 => t.msgs[t.lastVIM].class = "vim"
      BY <1>1, <1>9, <1>11 DEF Registered
    <2> QED BY <1>1, <2>2, <2>4, <2>5 DEF Registered
  <1>19. Follows(s, t)
    <2>1. s.serial <= t.serial
      BY <1>1, <1>4
    <2>2. \A i \in 1 .. n : t.msgs[i].serial \in 1 .. s.serial - 1
              => s.msgs[i].serial = t.msgs[i].serial
      BY <1>3, <1>4, <1>11, <1>12
    <2> QED BY <1>1, <1>2, <1>10, <2>1, <2>2 DEF Follows
  <1>20. SndInv(t, open)
    BY <1>13, <1>14, <1>15, <1>16, <1>17, <1>18 DEF SndInv
  <1> QED BY <1>19, <1>20 DEF t


-----------------------------------------------------------------------------
(***************************************************************************)
(* The inductive invariant, network and receiver side.                     *)
(***************************************************************************)
\* A datagram or record x carries the serial numbers of its message and of
\* the predecessor of that.
Truthful(s, x) ==
    /\ x.id \in 1 .. Len(s.msgs) /\ x.serial # 0
    /\ s.msgs[x.id].serial = x.serial
    /\ s.msgs[x.id].pred = 0 => x.pred = 0
    /\ s.msgs[x.id].pred # 0 =>
          x.pred # 0 /\ x.pred = s.msgs[s.msgs[x.id].pred].serial

NetInv(s, n) ==
    \A p \in n : Truthful(s, p) /\ (p.vim => s.msgs[p.id].class \in Stream)

\* What is to be processed next follows something processed or left behind.
StackReady(r) ==
    \A x \in Range(r.stack) : x.pred < r.maskMin \/ x.pred \in r.procMask

\* What is marked as processed was handed over.
ProcessedHanded(r, s, d) ==
    \A i \in 1 .. Len(s.msgs) :
        s.msgs[i].class \in Stream /\ s.msgs[i].serial \in r.procMask
            => i \in Range(d)

\* So was the predecessor of the message the user's routine is looking at.
HandingReady(r, s, d) ==
    r.handing => \/ s.msgs[Head(r.stack).id].pred = 0
                 \/ s.msgs[Head(r.stack).id].pred \in Range(d)

\* Before each message that was handed over come those of its stream that
\* were submitted before it.
NoGap(s, d) ==
    \A k \in 1 .. Len(d) : \A i \in 1 .. d[k] - 1 :
        s.msgs[i].class \in Stream /\ s.msgs[i].class = s.msgs[d[k]].class
            => \E j \in 1 .. k - 1 : d[j] = i

\* What the masks have left behind was handed over, too.
KeptUp(r, s, d) ==
    \A i \in 1 .. Len(s.msgs) :
        s.msgs[i].class \in Stream /\ s.msgs[i].serial \in 1 .. r.maskMin - 1
            => i \in Range(d)

RcvInv(r, s, d, open) ==
    /\ \A x \in Waiting(r) : Truthful(s, x) /\ s.msgs[x.id].class \in Stream
    /\ \A n \in Serial : \A x \in Range(r.deferred[n]) : x.pred = n
    /\ \A n \in r.procMask : n < s.serial
    /\ open => StackReady(r) /\ ProcessedHanded(r, s, d)
    /\ r.handing => Head(r.stack).serial >= r.maskMin
    /\ KeptUp(r, s, d) => HandingReady(r, s, d) /\ NoGap(s, d)

OrderInv ==
    \A e \in End : /\ SndInv(snd[e], opened[e])
                   /\ NetInv(snd[Peer(e)], net[e])
                   /\ RcvInv(rcv[e], snd[Peer(e)], delivered[e], opened[e])
-----------------------------------------------------------------------------
(***************************************************************************)
(* What a step of the sender leaves true of the other end.                 *)
(***************************************************************************)
LEMMA TruthfulKept ==
    ASSUME NEW s, SndOK(s), NEW t, SndOK(t), Keeps(s, t), NEW x, Truthful(s, x)
    PROVE  Truthful(t, x) /\ t.msgs[x.id].class = s.msgs[x.id].class
  <1> DEFINE i == x.id
             p == s.msgs[i].pred
  <1>1. i \in 1 .. Len(s.msgs) /\ x.serial # 0 /\ s.msgs[i].serial = x.serial
    BY DEF Truthful
  <1>2. /\ i \in 1 .. Len(t.msgs)
        /\ t.msgs[i].serial = x.serial /\ t.msgs[i].pred = p
        /\ t.msgs[i].class = s.msgs[i].class
    BY <1>1, SndFields DEF Keeps
  <1>3. /\ p = 0 => x.pred = 0
        /\ p # 0 => x.pred # 0 /\ x.pred = s.msgs[p].serial
    BY DEF Truthful
  <1>4. p # 0 => p \in 1 .. Len(s.msgs)
    BY <1>1, QueueMembers
  <1> HIDE DEF p
  <1>5. p # 0 => t.msgs[p].serial = x.pred
    BY <1>3, <1>4 DEF Keeps
  <1> QED BY <1>1, <1>2, <1>3, <1>5 DEF Truthful

LEMMA NetInvKept ==
    ASSUME NEW s, SndOK(s), NEW t, SndOK(t), Keeps(s, t), NEW n, NetInv(s, n)
    PROVE  NetInv(t, n)
  <1> SUFFICES ASSUME NEW p \in n
               PROVE  Truthful(t, p) /\ (p.vim => t.msgs[p.id].class \in Stream)
    BY DEF NetInv
  <1>1. Truthful(s, p) /\ (p.vim => s.msgs[p.id].class \in Stream)
    BY DEF NetInv
  <1>2. Truthful(t, p) /\ t.msgs[p.id].class = s.msgs[p.id].class
    BY <1>1, TruthfulKept
  <1> QED BY <1>1, <1>2

LEMMA RcvInvKept ==
    ASSUME NEW s, SndOK(s), NEW t, SndOK(t), Follows(s, t),
           NEW r, RcvOK(r), NEW d \in Seq(Nat), Range(d) \subseteq 1 .. Len(s.msgs),
           NEW open \in BOOLEAN, RcvInv(r, s, d, open)
    PROVE  RcvInv(r, t, d, open)
  <1>1. Keeps(s, t) /\ s.serial <= t.serial
    BY DEF Follows
  <1>2. \A x \in Waiting(r) : Truthful(t, x) /\ t.msgs[x.id].class \in Stream
                              /\ Truthful(s, x)
    BY <1>1, TruthfulKept DEF RcvInv
  <1>3. r.procMask \subseteq Serial
    BY DEF RcvOK, Rcv
  <1>4. \A n \in r.procMask : n \in 1 .. s.serial - 1 /\ n < t.serial
    BY <1>1, <1>3, SndFields, ParameterTypes DEF RcvInv, Serial
  <1>5. \A i \in 1 .. Len(t.msgs) : t.msgs[i].serial \in r.procMask
            => i \in 1 .. Len(s.msgs) /\ s.msgs[i].serial = t.msgs[i].serial
    BY <1>4 DEF Follows
  <1>6. ProcessedHanded(r, s, d) => ProcessedHanded(r, t, d)
    BY <1>1, <1>5 DEF ProcessedHanded, Keeps
  <1>7. HandingReady(r, s, d) => HandingReady(r, t, d)
    <2> SUFFICES ASSUME HandingReady(r, s, d), r.handing
                 PROVE  HandingReady(r, t, d)
      BY DEF HandingReady
    <2>1. Head(r.stack) \in Waiting(r)
      BY ProcessedOK DEF RcvOK
    <2>2. Head(r.stack).id \in 1 .. Len(s.msgs)
      BY <1>2, <2>1 DEF Truthful
    <2>3. t.msgs[Head(r.stack).id].pred = s.msgs[Head(r.stack).id].pred
      BY <1>1, <2>2 DEF Keeps
    <2> QED BY <2>3 DEF HandingReady
  <1>8. NoGap(s, d) => NoGap(t, d)
    <2> SUFFICES ASSUME NoGap(s, d),
                        NEW k \in 1 .. Len(d), NEW i \in 1 .. d[k] - 1,
                        t.msgs[i].class \in Stream,
                        t.msgs[i].class = t.msgs[d[k]].class
                 PROVE  \E j \in 1 .. k - 1 : d[j] = i
      BY DEF NoGap
    <2>1. d[k] \in 1 .. Len(s.msgs)
      BY RangeOfMember
    <2>2. i \in 1 .. Len(s.msgs)
      BY <2>1, SndFields
    <2>3. /\ t.msgs[i].class = s.msgs[i].class
          /\ t.msgs[d[k]].class = s.msgs[d[k]].class
      BY <1>1, <2>1, <2>2 DEF Keeps
    <2> QED BY <2>3 DEF NoGap
  <1>9. KeptUp(r, t, d) => KeptUp(r, s, d)
    BY <1>1 DEF KeptUp, Keeps
  <1> QED BY <1>2, <1>4, <1>6, <1>7, <1>8, <1>9 DEF RcvInv

-----------------------------------------------------------------------------
(***************************************************************************)
(* Steps of the receiver side.                                             *)
(***************************************************************************)
\* Bookkeeping that leaves alone what waits and both masks.
LEMMA BookkeepingInv ==
    ASSUME NEW r, NEW u, NEW s, NEW d, NEW open \in BOOLEAN,
           RcvInv(r, s, d, open),
           u.stack = r.stack, u.deferred = r.deferred, u.handing = r.handing,
           u.procMask = r.procMask, u.maskMin = r.maskMin
    PROVE  RcvInv(u, s, d, open)
  <1>1. Waiting(u) = Waiting(r)
    BY DEF Waiting
  <1>2. /\ StackReady(r) => StackReady(u)
        /\ ProcessedHanded(r, s, d) => ProcessedHanded(u, s, d)
        /\ HandingReady(r, s, d) => HandingReady(u, s, d)
        /\ KeptUp(u, s, d) => KeptUp(r, s, d)
    BY DEF StackReady, ProcessedHanded, HandingReady, KeptUp
  <1> QED BY <1>1, <1>2 DEF RcvInv

LEMMA AckOutInv ==
    ASSUME NEW r, RcvOK(r), NEW s, NEW d, NEW open \in BOOLEAN,
           RcvInv(r, s, d, open), NEW m \in Msg
    PROVE  RcvInv(AckOut(r, m), s, d, open)
  <1> DEFINE u == AckOut(r, m)
  <1>1. /\ u.stack = r.stack /\ u.deferred = r.deferred /\ u.handing = r.handing
        /\ u.procMask = r.procMask /\ u.maskMin = r.maskMin
    BY DEF AckOut, RcvOK, Rcv
  <1> HIDE DEF u
  <1>2. RcvInv(u, s, d, open)
    BY <1>1, BookkeepingInv
  <1> QED BY <1>2 DEF u

LEMMA InputResentInv ==
    ASSUME NEW r, RcvOK(r), NEW s, NEW d, NEW open \in BOOLEAN,
           RcvInv(r, s, d, open), NEW p \in Packet
    PROVE  RcvInv(InputResent(r, p), s, d, open)
  <1> DEFINE u == InputResent(r, p)
  <1>1. /\ u.stack = r.stack /\ u.deferred = r.deferred /\ u.handing = r.handing
        /\ u.procMask = r.procMask /\ u.maskMin = r.maskMin
    BY DEF InputResent, RcvOK, Rcv
  <1> HIDE DEF u
  <1>2. RcvInv(u, s, d, open)
    BY <1>1, BookkeepingInv
  <1> QED BY <1>2 DEF u

\* Moving the window leaves serials behind, in both masks alike.
LEMMA InputStatisticsInv ==
    ASSUME NEW r, RcvOK(r), r.stack = <<>>, NEW s, NEW d, NEW open \in BOOLEAN,
           RcvInv(r, s, d, open), NEW serial \in Serial
    PROVE  RcvInv(InputStatistics(r, serial), s, d, open)
  <1> DEFINE newest == IF serial > r.inputMax THEN serial ELSE r.inputMax
             keep == IF newest - r.maskMin > MaxBitMask
                     THEN newest - MaxBitMask + GoodBitMask ELSE r.maskMin
             u == InputStatistics(r, serial)
  <1>1. /\ r.inputMax \in Nat \ {0} /\ r.maskMin \in Nat \ {0}
        /\ serial \in Nat \ {0} /\ ~r.handing
    BY DEF RcvOK, Rcv, Serial
  <1>2. keep \in Nat /\ r.maskMin <= keep
    BY <1>1, ParameterTypes
  <1>3. /\ u.stack = <<>> /\ u.deferred = r.deferred /\ u.handing = FALSE
        /\ u.maskMin = keep /\ u.procMask = {n \in r.procMask : n >= keep}
    BY <1>1 DEF InputStatistics, RcvOK, Rcv
  <1> HIDE DEF keep, u
  <1>4. Waiting(u) = Waiting(r)
    BY <1>3 DEF Waiting
  <1>5. StackReady(u)
    BY <1>3 DEF StackReady, Range
  <1>6. ProcessedHanded(r, s, d) => ProcessedHanded(u, s, d)
    BY <1>3 DEF ProcessedHanded
  <1>7. HandingReady(u, s, d)
    BY <1>3 DEF HandingReady
  <1>8. KeptUp(u, s, d) => KeptUp(r, s, d)
    <2>1. 1 .. r.maskMin - 1 \subseteq 1 .. keep - 1
      BY <1>1, <1>2
    <2> QED BY <1>3, <2>1 DEF KeptUp
  <1>9. RcvInv(u, s, d, open)
    BY <1>3, <1>4, <1>5, <1>6, <1>7, <1>8 DEF RcvInv
  <1> QED BY <1>9 DEF u

\* A message that arrives is put to wait, or is ready to be processed.
LEMMA AdmitInv ==
    ASSUME NEW r, RcvOK(r), NEW s, NEW d, NEW open \in BOOLEAN,
           RcvInv(r, s, d, open), r.stack = <<>>,
           NEW p \in Packet, Truthful(s, p),
           p.vim => s.msgs[p.id].class \in Stream
    PROVE  RcvInv(Admit(r, p), s, d, open)
  <1> DEFINE u == Admit(r, p)
             x == Record(p)
  <1>1. /\ x.id = p.id /\ x.serial = p.serial /\ x.pred = p.pred /\ x \in In
        /\ p.pred \in 0 .. MaxSerial
    BY RecordType DEF Packet
  <1>2. /\ r.deferred \in [Serial -> Seq(In)] /\ r.maskMin \in Nat \ {0}
        /\ ~r.handing
    BY DEF RcvOK, Rcv
  <1>3. Waiting(u) \subseteq Waiting(r) \cup {x}
    BY AdmitOK
  <1> HIDE DEF x
  <1>4. Truthful(s, x)
    BY <1>1 DEF Truthful
  <1>5. CASE u = r
    BY <1>5 DEF u
  <1>6. CASE /\ p.vim /\ p.pred \in Serial
             /\ u = [r EXCEPT !.deferred[p.pred] = <<x>> \o @]
    <2> DEFINE q == r.deferred[p.pred]
               f == [r.deferred EXCEPT ![p.pred] = <<x>> \o q]
    <2>1. /\ u.stack = r.stack /\ u.handing = r.handing
          /\ u.procMask = r.procMask /\ u.maskMin = r.maskMin
          /\ u.deferred = f
      BY <1>6 DEF RcvOK, Rcv
    <2>2. q \in Seq(In)
      BY <1>2, <1>6
    <2> HIDE DEF u, q
    <2>3. Range(<<x>> \o q) = {x} \cup Range(q)
      <3> DEFINE one == <<x>>
      <3>1. one \in Seq(In) /\ Range(one) = {x}
        BY <1>1, OneElement
      <3> HIDE DEF one
      <3>2. Range(one \o q) = Range(one) \cup Range(q)
        BY <2>2, <3>1, RangeConcatenation
      <3> QED BY <3>1, <3>2 DEF one
    <2>4. \A n \in Serial : \A y \in Range(u.deferred[n]) : y.pred = n
      <3> SUFFICES ASSUME NEW n \in Serial, NEW y \in Range(f[n])
                   PROVE  y.pred = n
        BY <2>1
      <3>1. CASE n = p.pred
        <4>1. y \in {x} \cup Range(r.deferred[p.pred])
          BY <1>2, <1>6, <2>3, <3>1 DEF q
        <4> QED BY <1>1, <3>1, <4>1 DEF RcvInv
      <3>2. CASE n # p.pred
        BY <1>2, <3>2 DEF RcvInv
      <3> QED BY <3>1, <3>2
    <2>5. \A y \in Waiting(u) : Truthful(s, y) /\ s.msgs[y.id].class \in Stream
      BY <1>1, <1>3, <1>4, <1>6 DEF RcvInv
    <2>6. /\ StackReady(r) => StackReady(u)
          /\ ProcessedHanded(r, s, d) => ProcessedHanded(u, s, d)
          /\ HandingReady(r, s, d) => HandingReady(u, s, d)
          /\ KeptUp(u, s, d) => KeptUp(r, s, d)
      BY <2>1 DEF StackReady, ProcessedHanded, HandingReady, KeptUp
    <2>7. RcvInv(u, s, d, open)
      BY <2>1, <2>4, <2>5, <2>6 DEF RcvInv
    <2> QED BY <2>7 DEF u
  <1>7. CASE /\ p.vim /\ (p.pred < r.maskMin \/ p.pred \in r.procMask)
             /\ u = [r EXCEPT !.stack = <<x>>]
    <2>1. /\ u.stack = <<x>> /\ u.deferred = r.deferred
          /\ u.handing = r.handing
          /\ u.procMask = r.procMask /\ u.maskMin = r.maskMin
      BY <1>7 DEF RcvOK, Rcv
    <2> HIDE DEF u
    <2>2. Range(u.stack) = {x}
      BY <1>1, <2>1, OneElement
    <2>3. \A y \in Waiting(u) : Truthful(s, y) /\ s.msgs[y.id].class \in Stream
      BY <1>1, <1>3, <1>4, <1>7 DEF RcvInv
    <2>4. StackReady(u)
      BY <1>1, <1>7, <2>1, <2>2 DEF StackReady
    <2>5. /\ ProcessedHanded(r, s, d) => ProcessedHanded(u, s, d)
          /\ HandingReady(u, s, d)
          /\ KeptUp(u, s, d) => KeptUp(r, s, d)
      BY <1>2, <2>1 DEF ProcessedHanded, HandingReady, KeptUp
    <2>6. RcvInv(u, s, d, open)
      BY <1>2, <2>1, <2>3, <2>4, <2>5 DEF RcvInv
    <2> QED BY <2>6 DEF u
  <1> QED BY <1>5, <1>6, <1>7, AdmitCases DEF x

\* What the end of an activation of processVIM changes.
LEMMA ProcessedParts ==
    ASSUME NEW r, RcvOK(r), r.stack # <<>>
    PROVE  LET u == Processed(r)
               h == Head(r.stack)
           IN /\ u.maskMin = r.maskMin /\ ~u.handing
              /\ u.procMask = IF h.serial >= r.maskMin
                              THEN r.procMask \cup {h.serial} ELSE r.procMask
              /\ Range(u.stack) \subseteq Range(r.deferred[h.serial])
                                              \cup Range(r.stack)
              /\ \A n \in Serial : Range(u.deferred[n]) \subseteq Range(r.deferred[n])
              /\ h \in Range(r.stack) /\ h.serial \in Serial
  <1> DEFINE h == Head(r.stack)
             woken == r.deferred[h.serial]
             rest == Tail(r.stack)
             u == Processed(r)
  <1>1. r.stack \in Seq(In) /\ r.deferred \in [Serial -> Seq(In)]
    BY DEF RcvOK, Rcv
  <1>2. /\ h \in In /\ rest \in Seq(In)
        /\ Range(r.stack) = Range(rest) \cup {h}
    BY <1>1, RangeOfTail
  <1>3. h.serial \in Serial
    BY <1>2 DEF In
  <1>4. /\ u.maskMin = r.maskMin /\ u.handing = FALSE
        /\ u.procMask = IF h.serial >= r.maskMin
                        THEN r.procMask \cup {h.serial} ELSE r.procMask
        /\ u.stack = woken \o rest
        /\ u.deferred = [r.deferred EXCEPT ![h.serial] = <<>>]
    BY DEF Processed, RcvOK, Rcv
  <1>5. woken \in Seq(In)
    BY <1>1, <1>3
  <1> HIDE DEF u, woken, rest
  <1>6. Range(woken \o rest) = Range(woken) \cup Range(rest)
    BY <1>2, <1>5, RangeConcatenation
  <1>7. Range(<<>>) = {}
    BY DEF Range
  <1> HIDE DEF h
  <1>8. \A n \in Serial : Range(u.deferred[n]) \subseteq Range(r.deferred[n])
    BY <1>1, <1>3, <1>4, <1>7
  <1> QED BY <1>2, <1>3, <1>4, <1>6, <1>8 DEF u, woken, h

\* A message is processed without having been handed over only when the window
\* has left it behind or the end is closed.
LEMMA SkippedInv ==
    ASSUME NEW s, SndOK(s), SerialsUsedOnce(s),
           NEW r, RcvOK(r), r.stack # <<>>, NEW d,
           NEW open \in BOOLEAN, RcvInv(r, s, d, open),
           ~(Head(r.stack).serial >= r.maskMin /\ open)
    PROVE  RcvInv(Processed(r), s, d, open)
  <1> DEFINE h == Head(r.stack)
             u == Processed(r)
  <1>1. /\ u.maskMin = r.maskMin /\ ~u.handing
        /\ u.procMask = IF h.serial >= r.maskMin
                        THEN r.procMask \cup {h.serial} ELSE r.procMask
        /\ \A n \in Serial : Range(u.deferred[n]) \subseteq Range(r.deferred[n])
        /\ h.serial \in Serial /\ h \in Waiting(r)
        /\ Waiting(u) \subseteq Waiting(r)
    BY ProcessedParts, ProcessedOK
  <1> HIDE DEF u, h
  <1>2. Truthful(s, h) /\ h.serial < s.serial
    BY <1>1 DEF RcvInv, Truthful, SerialsUsedOnce
  <1>3. open => u.procMask = r.procMask /\ h.serial < r.maskMin
    BY <1>1 DEF h, RcvOK, Rcv, Serial
  <1>4. HandingReady(u, s, d)
    BY <1>1 DEF HandingReady
  <1>5. open /\ StackReady(r) => StackReady(u)
    <2>1. \A x \in Range(r.deferred[h.serial]) : x.pred = h.serial
      BY <1>1 DEF RcvInv
    <2>2. Range(u.stack) \subseteq Range(r.deferred[h.serial]) \cup Range(r.stack)
      BY ProcessedParts DEF u, h
    <2> QED BY <1>1, <1>3, <2>1, <2>2 DEF StackReady
  <1>6. /\ open /\ ProcessedHanded(r, s, d) => ProcessedHanded(u, s, d)
        /\ KeptUp(u, s, d) => KeptUp(r, s, d)
    BY <1>1, <1>3 DEF ProcessedHanded, KeptUp
  <1>7. RcvInv(u, s, d, open)
    BY <1>1, <1>2, <1>4, <1>5, <1>6 DEF RcvInv
  <1> QED BY <1>7 DEF u

\* The user's routine is called for a message whose predecessor was handed over.
LEMMA HandingInv ==
    ASSUME NEW s, SndOK(s), SerialsUsedOnce(s), Chained(s),
           NEW r, RcvOK(r), r.stack # <<>>, NEW d,
           NEW open \in BOOLEAN, RcvInv(r, s, d, open), open,
           Head(r.stack).serial >= r.maskMin,
           NEW u, u = [r EXCEPT !.handing = TRUE]
    PROVE  RcvInv(u, s, d, open)
  <1> DEFINE h == Head(r.stack)
             i == h.id
             p == s.msgs[i].pred
  <1>1. /\ u.stack = r.stack /\ u.deferred = r.deferred
        /\ u.procMask = r.procMask /\ u.maskMin = r.maskMin
    BY DEF RcvOK, Rcv
  <1>2. h \in Range(r.stack) /\ h \in Waiting(r)
    BY ProcessedParts, ProcessedOK
  <1>3. /\ i \in 1 .. Len(s.msgs) /\ s.msgs[i].class \in Stream
        /\ p # 0 => h.pred # 0 /\ h.pred = s.msgs[p].serial
    BY <1>2 DEF RcvInv, Truthful
  <1>4. p # 0 => p \in 1 .. Len(s.msgs)
    BY <1>3, QueueMembers
  <1>5. p # 0 => s.msgs[p].class \in Stream
    BY <1>3 DEF Chained
  <1> HIDE DEF p
  <1>6. KeptUp(r, s, d) => HandingReady(u, s, d)
    <2> SUFFICES ASSUME KeptUp(r, s, d), p # 0
                 PROVE  p \in Range(d)
      BY <1>1 DEF HandingReady, p
    <2>1. h.pred < r.maskMin \/ h.pred \in r.procMask
      BY <1>2 DEF RcvInv, StackReady
    <2>2. CASE h.pred \in r.procMask
      BY <1>3, <1>4, <1>5, <2>2 DEF RcvInv, ProcessedHanded
    <2>3. CASE h.pred < r.maskMin
      <3>1. h.pred \in Nat /\ r.maskMin \in Nat
        <4>1. r.stack \in Seq(In) /\ r.maskMin \in Nat
          BY DEF RcvOK, Rcv
        <4>2. h \in In
          BY <4>1
        <4> QED BY <4>1, <4>2, ParameterTypes, SMTT(30) DEF In
      <3>2. h.pred \in 1 .. r.maskMin - 1
        BY <1>3, <2>3, <3>1
      <3> QED BY <1>3, <1>4, <1>5, <3>2 DEF KeptUp
    <2> QED BY <2>1, <2>2, <2>3
  <1>7. Waiting(u) = Waiting(r)
    BY <1>1 DEF Waiting
  <1>8. /\ StackReady(r) => StackReady(u)
        /\ ProcessedHanded(r, s, d) => ProcessedHanded(u, s, d)
        /\ KeptUp(u, s, d) => KeptUp(r, s, d)
    BY <1>1 DEF StackReady, ProcessedHanded, KeptUp
  <1> QED BY <1>1, <1>6, <1>7, <1>8 DEF RcvInv

\* The heart of the matter: a message whose predecessor was handed over leaves
\* no gap, because its predecessor did not and nothing of the stream is between.
LEMMA NoGapGrows ==
    ASSUME NEW s, SndOK(s), Chained(s), NEW d \in Seq(Nat), NoGap(s, d),
           NEW i \in 1 .. Len(s.msgs), s.msgs[i].class \in Stream,
           s.msgs[i].pred = 0 \/ s.msgs[i].pred \in Range(d)
    PROVE  NoGap(s, Append(d, i))
  <1> DEFINE q == Append(d, i)
             p == s.msgs[i].pred
  <1>1. /\ Len(d) \in Nat /\ Len(q) = Len(d) + 1 /\ q[Len(d) + 1] = i
        /\ \A k \in 1 .. Len(d) : q[k] = d[k]
    BY SndFields, AppendProperties
  <1>2. /\ p # 0 => p < i /\ s.msgs[p].class = s.msgs[i].class
        /\ \A j \in 1 .. Len(s.msgs) :
              p < j /\ j < i => s.msgs[j].class # s.msgs[i].class
    BY DEF Chained
  <1>3. p # 0 => p \in 1 .. Len(s.msgs)
    BY QueueMembers
  <1>4. p = 0 \/ p \in Range(d)
    OBVIOUS
  <1>5. Len(s.msgs) \in Nat
    BY SndFields
  <1> HIDE DEF q, p
  <1> SUFFICES ASSUME NEW k \in 1 .. Len(q), NEW j \in 1 .. q[k] - 1,
                      s.msgs[j].class \in Stream,
                      s.msgs[j].class = s.msgs[q[k]].class
               PROVE  \E l \in 1 .. k - 1 : q[l] = j
    BY DEF NoGap, q
  <1>6. CASE k \in 1 .. Len(d)
    <2>1. q[k] = d[k]
      BY <1>1, <1>6
    <2>2. PICK l \in 1 .. k - 1 : d[l] = j
      BY <1>6, <2>1 DEF NoGap
    <2>3. l \in 1 .. Len(d)
      BY <1>1, <1>6
    <2> QED BY <1>1, <2>2, <2>3
  <1>7. CASE k = Len(d) + 1
    <2>1. q[k] = i /\ j \in 1 .. i - 1 /\ j \in 1 .. Len(s.msgs) /\ j < i
      BY <1>1, <1>5, <1>7
    <2>2. ~(p < j)
      BY <1>2, <2>1
    <2>3. p # 0 /\ p \in 1 .. Len(s.msgs) /\ j <= p
      <3>1. p \in {0} \cup 1 .. Len(s.msgs)
        BY <1>3
      <3>2. p \in Nat /\ j <= p
        BY <1>5, <2>1, <2>2, <3>1
      <3>3. p # 0
        BY <2>1, <3>2
      <3> QED BY <1>3, <3>2, <3>3
    <2>4. PICK m \in 1 .. Len(d) : d[m] = p
      BY <1>4, <2>3 DEF Range
    <2>5. CASE j = p
      BY <1>1, <1>7, <2>4, <2>5
    <2>6. CASE j # p
      <3>1. j \in 1 .. d[m] - 1 /\ s.msgs[j].class = s.msgs[d[m]].class
        BY <1>2, <2>1, <2>3, <2>4, <2>6
      <3>2. PICK l \in 1 .. m - 1 : d[l] = j
        BY <3>1 DEF NoGap
      <3>3. l \in 1 .. Len(d) /\ l \in 1 .. k - 1
        BY <1>1, <1>7
      <3> QED BY <1>1, <3>2, <3>3
    <2> QED BY <2>5, <2>6
  <1>8. k \in 1 .. Len(d) \/ k = Len(d) + 1
    BY <1>1
  <1> QED BY <1>6, <1>7, <1>8

LEMMA HandedInv ==
    ASSUME NEW s, SndOK(s), SerialsUsedOnce(s), Chained(s),
           NEW r, RcvOK(r), r.handing, NEW d \in Seq(Nat),
           NEW open \in BOOLEAN, RcvInv(r, s, d, open),
           NEW i, i = Head(r.stack).id
    PROVE  RcvInv(Processed(r), s, Append(d, i), open)
  <1> DEFINE h == Head(r.stack)
             u == Processed(r)
             q == Append(d, i)
  <1>1. r.stack # <<>>
    BY DEF RcvOK
  <1>2. /\ u.maskMin = r.maskMin /\ ~u.handing
        /\ u.procMask = IF h.serial >= r.maskMin
                        THEN r.procMask \cup {h.serial} ELSE r.procMask
        /\ Range(u.stack) \subseteq Range(r.deferred[h.serial]) \cup Range(r.stack)
        /\ \A n \in Serial : Range(u.deferred[n]) \subseteq Range(r.deferred[n])
        /\ h.serial \in Serial /\ h \in Waiting(r)
        /\ Waiting(u) \subseteq Waiting(r)
    BY <1>1, ProcessedParts, ProcessedOK
  <1>3. Truthful(s, h) /\ s.msgs[i].class \in Stream
    BY <1>2 DEF RcvInv
  <1>4. /\ i \in 1 .. Len(s.msgs) /\ h.serial # 0
        /\ s.msgs[i].serial = h.serial /\ h.serial < s.serial
    BY <1>3 DEF Truthful, SerialsUsedOnce
  <1>5. i \in Nat /\ Range(q) = Range(d) \cup {i}
    BY <1>4, SndFields, RangeOfAppend
  <1>6. h.serial >= r.maskMin /\ r.maskMin \in Nat \ {0}
    BY DEF RcvInv, RcvOK, Rcv
  <1>7. KeptUp(u, s, q) => KeptUp(r, s, d)
    <2> SUFFICES ASSUME KeptUp(u, s, q), NEW j \in 1 .. Len(s.msgs),
                        s.msgs[j].class \in Stream,
                        s.msgs[j].serial \in 1 .. r.maskMin - 1
                 PROVE  j \in Range(d)
      BY DEF KeptUp
    <2>1. j # i
      BY <1>2, <1>4, <1>6 DEF Serial
    <2> QED BY <1>2, <1>5, <2>1 DEF KeptUp
  <1>8. KeptUp(r, s, d) => NoGap(s, q)
    <2> SUFFICES ASSUME KeptUp(r, s, d)
                 PROVE  NoGap(s, q)
      OBVIOUS
    <2>1. NoGap(s, d) /\ HandingReady(r, s, d)
      BY DEF RcvInv
    <2>2. s.msgs[i].pred = 0 \/ s.msgs[i].pred \in Range(d)
      BY <2>1 DEF HandingReady
    <2> QED BY <1>3, <1>4, <2>1, <2>2, NoGapGrows
  <1> HIDE DEF h, u, q
  <1>13. u.procMask = r.procMask \cup {h.serial}
    BY <1>2, <1>6
  <1>14. open => StackReady(u) /\ ProcessedHanded(u, s, q)
    <2> SUFFICES ASSUME open
                 PROVE  StackReady(u) /\ ProcessedHanded(u, s, q)
      OBVIOUS
    <2>1. StackReady(r) /\ ProcessedHanded(r, s, d)
      BY DEF RcvInv
    <2>2. \A x \in Range(r.deferred[h.serial]) : x.pred = h.serial
      BY <1>2 DEF RcvInv
    <2>3. StackReady(u)
      BY <1>2, <1>13, <2>1, <2>2 DEF StackReady
    <2>4. \A j \in 1 .. Len(s.msgs) : s.msgs[j].serial = h.serial => j = i
      BY <1>4 DEF SerialsUsedOnce
    <2>5. ProcessedHanded(u, s, q)
      BY <1>5, <1>13, <2>1, <2>4 DEF ProcessedHanded
    <2> QED BY <2>3, <2>5
  <1>9. HandingReady(u, s, q)
    BY <1>2 DEF HandingReady
  <1>10. \A n \in u.procMask : n < s.serial
    BY <1>2, <1>4 DEF RcvInv
  <1>11. /\ \A x \in Waiting(u) : Truthful(s, x) /\ s.msgs[x.id].class \in Stream
         /\ \A n \in Serial : \A x \in Range(u.deferred[n]) : x.pred = n
    BY <1>2 DEF RcvInv
  <1>12. RcvInv(u, s, q, open)
    BY <1>2, <1>7, <1>8, <1>9, <1>10, <1>11, <1>14 DEF RcvInv
  <1> QED BY <1>12 DEF u, q

-----------------------------------------------------------------------------
(***************************************************************************)
(* Steps of the whole.                                                     *)
(***************************************************************************)
LEMMA OrderParts ==
    ASSUME TypeOK, OrderInv, NEW e \in End
    PROVE  /\ SndOK(snd[e]) /\ SndOK(snd[Peer(e)]) /\ RcvOK(rcv[e])
           /\ opened[e] \in BOOLEAN /\ delivered[e] \in Seq(Nat)
           /\ SndInv(snd[e], opened[e])
           /\ SerialsUsedOnce(snd[Peer(e)]) /\ Chained(snd[Peer(e)])
           /\ NetInv(snd[Peer(e)], net[e]) /\ NetInv(snd[e], net[Peer(e)])
           /\ RcvInv(rcv[e], snd[Peer(e)], delivered[e], opened[e])
           /\ snd = [snd EXCEPT ![e] = snd[e]]
           /\ rcv = [rcv EXCEPT ![e] = rcv[e]]
           /\ delivered = [delivered EXCEPT ![e] = delivered[e]]
           /\ opened = [opened EXCEPT ![e] = opened[e]]
           /\ Follows(snd[e], snd[e])
  <1>1. Peer(e) \in End /\ Peer(Peer(e)) = e
    BY PeerType, PeerPeer
  <1>2. /\ SndOK(snd[e]) /\ SndOK(snd[Peer(e)]) /\ RcvOK(rcv[e])
        /\ opened[e] \in BOOLEAN /\ delivered[e] \in Seq(Nat)
        /\ snd = [snd EXCEPT ![e] = snd[e]]
        /\ rcv = [rcv EXCEPT ![e] = rcv[e]]
        /\ delivered = [delivered EXCEPT ![e] = delivered[e]]
        /\ opened = [opened EXCEPT ![e] = opened[e]]
    BY <1>1, TypeParts
  <1>3. /\ SndInv(snd[e], opened[e])
        /\ NetInv(snd[Peer(e)], net[e])
        /\ RcvInv(rcv[e], snd[Peer(e)], delivered[e], opened[e])
    BY DEF OrderInv
  <1>4. NetInv(snd[e], net[Peer(e)]) /\ SndInv(snd[Peer(e)], opened[Peer(e)])
    BY <1>1 DEF OrderInv
  <1>5. SerialsUsedOnce(snd[Peer(e)]) /\ Chained(snd[Peer(e)])
    BY <1>4 DEF SndInv
  <1>6. Follows(snd[e], snd[e])
    BY <1>2, FollowsRefl
  <1> QED BY <1>2, <1>3, <1>4, <1>5, <1>6

\* A step of one end, which may add to what is on its way to the other.
LEMMA OrderStep ==
    ASSUME TypeOK, TypeOK', OrderInv, NEW e \in End,
           \A x \in End : x # e => /\ snd'[x] = snd[x] /\ rcv'[x] = rcv[x]
                                   /\ delivered'[x] = delivered[x]
                                   /\ opened'[x] = opened[x],
           Follows(snd[e], snd'[e]), SndInv(snd'[e], opened'[e]),
           RcvInv(rcv'[e], snd[Peer(e)], delivered'[e], opened'[e]),
           net'[e] \subseteq net[e], NetInv(snd'[e], net'[Peer(e)])
    PROVE  OrderInv'
  <1> DEFINE o == Peer(e)
  <1>1. o \in End /\ Peer(o) = e /\ o # e
    BY PeerType, PeerPeer
  <1>2. \A x \in End : x = e \/ x = o
    BY <1>1, EndAssumption
  <1>3. /\ snd'[o] = snd[o] /\ rcv'[o] = rcv[o]
        /\ delivered'[o] = delivered[o] /\ opened'[o] = opened[o]
    BY <1>1
  <1>4. /\ SndInv(snd[o], opened[o]) /\ NetInv(snd[o], net[e])
        /\ RcvInv(rcv[o], snd[e], delivered[o], opened[o])
        /\ SndOK(snd[e]) /\ RcvOK(rcv[o]) /\ opened[o] \in BOOLEAN
        /\ delivered[o] \in Seq(Nat)
    BY <1>1, OrderParts
  <1>5. Range(delivered[o]) \subseteq 1 .. Len(snd[e].msgs)
    <2>1. Range(delivered[o]) \subseteq Known(o)
      BY <1>1, KnownParts
    <2>2. Known(o) \subseteq DOMAIN snd[e].msgs
      BY <1>1, TypeParts
    <2> QED BY <1>4, <2>1, <2>2, SndFields
  <1>6. SndOK(snd'[e])
    BY DEF TypeOK, SndOK
  <1>7. RcvInv(rcv[o], snd'[e], delivered[o], opened[o])
    BY <1>4, <1>5, <1>6, RcvInvKept
  <1>8. NetInv(snd[o], net'[e])
    BY <1>4 DEF NetInv
  <1> SUFFICES ASSUME NEW x \in End
               PROVE  /\ SndInv(snd'[x], opened'[x])
                      /\ NetInv(snd'[Peer(x)], net'[x])
                      /\ RcvInv(rcv'[x], snd'[Peer(x)], delivered'[x], opened'[x])
    BY DEF OrderInv
  <1>9. CASE x = e
    BY <1>3, <1>8, <1>9
  <1>10. CASE x = o
    BY <1>1, <1>3, <1>4, <1>7, <1>10
  <1> QED BY <1>2, <1>9, <1>10

\* A step that concerns the output side alone.
LEMMA SenderOrder ==
    ASSUME TypeOK, TypeOK', OrderInv, NEW e \in End,
           NEW t, SndOK(t), Follows(snd[e], t), SndInv(t, opened[e]),
           snd' = [snd EXCEPT ![e] = t], UNCHANGED <<opened, rcv, net, delivered>>
    PROVE  OrderInv'
  <1>1. NetInv(t, net[Peer(e)])
    <2>1. Keeps(snd[e], t)
      BY DEF Follows
    <2> QED BY <2>1, OrderParts, NetInvKept
  <1>2. snd'[e] = t /\ \A x \in End : x # e => snd'[x] = snd[x]
    BY TypeParts
  <1>3. /\ opened' = opened /\ rcv' = rcv /\ net' = net /\ delivered' = delivered
    OBVIOUS
  <1>4. RcvInv(rcv[e], snd[Peer(e)], delivered[e], opened[e])
    BY OrderParts
  <1>5. \A x \in End : x # e => /\ snd'[x] = snd[x] /\ rcv'[x] = rcv[x]
                                /\ delivered'[x] = delivered[x]
                                /\ opened'[x] = opened[x]
    BY <1>2, <1>3
  <1>6. Follows(snd[e], snd'[e]) /\ SndInv(snd'[e], opened'[e])
    BY <1>2, <1>3
  <1>7. RcvInv(rcv'[e], snd[Peer(e)], delivered'[e], opened'[e])
    BY <1>3, <1>4
  <1>8. net'[e] \subseteq net[e] /\ NetInv(snd'[e], net'[Peer(e)])
    BY <1>1, <1>2, <1>3
  <1> QED BY <1>5, <1>6, <1>7, <1>8, OrderStep

LEMMA DispatchOrder ==
    ASSUME TypeOK, OrderInv, NEW e \in End, NEW c \in Class, Dispatch(e, c)
    PROVE  OrderInv'
  <1> DEFINE t == PutMessage(snd[e], c)
  <1>1. SndOK(snd[e]) /\ SndInv(snd[e], opened[e]) /\ opened[e] \in BOOLEAN
    BY OrderParts
  <1>2. opened[e] /\ snd' = [snd EXCEPT ![e] = t]
    BY DEF Dispatch
  <1>3. SndOK(t) /\ Follows(snd[e], t) /\ SndInv(t, opened[e])
    BY <1>1, <1>2, PutMessageOK, PutMessageFollows, PutMessageInv
  <1> HIDE DEF t
  <1> QED BY <1>2, <1>3, DispatchType, SenderOrder DEF Dispatch

LEMMA PostSendOrder ==
    ASSUME TypeOK, OrderInv, NEW e \in End, PostSend(e)
    PROVE  OrderInv'
  <1> DEFINE s == snd[e]
             kept == IF opened[e] /\ IsVIM(s.msgs[s.prepared])
                     THEN s.revisited \cup {s.prepared} ELSE s.revisited
             t == [s EXCEPT !.prepared = 0, !.revisited = kept]
  <1>1. SndOK(s) /\ SndInv(s, opened[e]) /\ opened[e] \in BOOLEAN
    BY OrderParts
  <1>2. snd' = [snd EXCEPT ![e] = t]
    BY TypeParts DEF PostSend
  <1>3. SndOK(snd'[e])
    <2>1. TypeOK'
      BY PostSendType
    <2>2. snd' \in [End -> Snd] /\ References(snd'[e]) \subseteq DOMAIN snd'[e].msgs
      BY <2>1 DEF TypeOK
    <2> QED BY <2>2 DEF SndOK
  <1>4. kept \subseteq s.revisited \cup {s.prepared}
    OBVIOUS
  <1> HIDE DEF kept
  <1>5. /\ t.msgs = s.msgs /\ t.serial = s.serial /\ t.urgentQ = s.urgentQ
        /\ t.vimQ = s.vimQ /\ t.commonQ = s.commonQ /\ t.prepared = 0
        /\ t.revisited = kept /\ t.lastUrgent = s.lastUrgent
        /\ t.lastVIM = s.lastVIM
    BY <1>1 DEF SndOK, Snd
  <1>6. SndOK(t)
    <2>1. snd'[e] = t
      BY <1>2, TypeParts
    <2> QED BY <1>3, <2>1
  <1> HIDE DEF t, s
  <1>7. Alike(s, t)
    BY <1>5 DEF Alike
  <1>8. /\ Range(t.commonQ) \subseteq Range(s.commonQ)
        /\ t.revisited \cup {t.prepared} \subseteq s.revisited \cup {0, s.prepared}
    BY <1>4, <1>5
  <1>9. SndInv(t, opened[e]) /\ Follows(s, t)
    BY <1>1, <1>5, <1>6, <1>7, <1>8, AlikeInv, AlikeFollows
  <1> QED BY <1>2, <1>6, <1>9, PostSendType, SenderOrder DEF s, PostSend

LEMMA ExpireOrder ==
    ASSUME TypeOK, OrderInv, NEW e \in End, Expire(e)
    PROVE  OrderInv'
  <1> DEFINE s == snd[e]
             id == Head(s.commonQ)
             m == [s.msgs[id] EXCEPT !.status = "cancelled"]
             u == [s EXCEPT !.msgs[id] = m]
             t == [u EXCEPT !.commonQ = Tail(s.commonQ)]
  <1>1. /\ SndOK(s) /\ s.commonQ # <<>> /\ s.commonQ \in Seq(Nat)
        /\ SndInv(s, opened[e]) /\ opened[e] \in BOOLEAN
    BY OrderParts, SndFields DEF Expire
  <1>2. snd' = [snd EXCEPT ![e] = t]
    BY TypeParts DEF Expire, Snd
  <1>3. TypeOK'
    BY ExpireType
  <1>4. snd'[e] = t /\ SndOK(snd'[e])
    <2>1. References(snd'[e]) \subseteq DOMAIN snd'[e].msgs /\ snd' \in [End -> Snd]
      BY <1>3 DEF TypeOK
    <2> QED BY <1>2, <2>1, TypeParts DEF SndOK
  <1> HIDE DEF s
  <1>5. id \in Held(s) /\ s.msgs[id] \in Msg
    BY <1>1, HeadHeld, SndHeld, SndFields
  <1>6. /\ m \in Msg /\ m.class = s.msgs[id].class /\ m.pred = s.msgs[id].pred
        /\ m.serial = s.msgs[id].serial
    BY <1>5 DEF Msg
  <1> HIDE DEF m
  <1>7. /\ SndOK(u) /\ Alike(s, u)
        /\ u.urgentQ = s.urgentQ /\ u.vimQ = s.vimQ
        /\ u.commonQ = s.commonQ /\ u.revisited = s.revisited
        /\ u.prepared = s.prepared
        /\ u.lastUrgent = s.lastUrgent /\ u.lastVIM = s.lastVIM
    BY <1>1, <1>5, <1>6, TouchedAlike
  <1> HIDE DEF u, id
  <1>8. /\ t.msgs = u.msgs /\ t.serial = u.serial /\ t.urgentQ = u.urgentQ
        /\ t.vimQ = u.vimQ /\ t.commonQ = Tail(s.commonQ)
        /\ t.prepared = u.prepared /\ t.revisited = u.revisited
        /\ t.lastUrgent = u.lastUrgent /\ t.lastVIM = u.lastVIM
    BY <1>7 DEF SndOK, Snd
  <1> HIDE DEF t
  <1>9. Alike(s, t)
    BY <1>7, <1>8 DEF Alike
  <1>10. /\ Range(t.commonQ) \subseteq Range(s.commonQ)
         /\ t.revisited \cup {t.prepared}
                \subseteq s.revisited \cup {0, s.prepared}
    BY <1>1, <1>7, <1>8, RangeOfTail
  <1>11. SndOK(t) /\ SndInv(t, opened[e]) /\ Follows(s, t)
    BY <1>1, <1>4, <1>7, <1>8, <1>9, <1>10, AlikeInv, AlikeFollows
  <1> QED BY <1>2, <1>3, <1>11, SenderOrder DEF s, Expire

LEMMA TimeoutOrder ==
    ASSUME TypeOK, OrderInv, NEW e \in End, NEW i \in snd[e].revisited,
           Timeout(e, i)
    PROVE  OrderInv'
  <1> DEFINE t == Overdue(snd[e], i)
  <1>1. SndOK(snd[e]) /\ SndInv(snd[e], opened[e]) /\ opened[e] \in BOOLEAN
    BY OrderParts
  <1>2. snd' = [snd EXCEPT ![e] = t]
    BY TypeParts DEF Timeout, Overdue
  <1>3. TypeOK'
    BY TimeoutType
  <1> HIDE DEF t
  <1>4. SndOK(t)
    <2>1. References(snd'[e]) \subseteq DOMAIN snd'[e].msgs /\ snd' \in [End -> Snd]
      BY <1>3 DEF TypeOK
    <2> QED BY <1>2, <2>1, TypeParts DEF SndOK
  <1>5. SndInv(t, opened[e]) /\ Follows(snd[e], t)
    BY <1>1, <1>4, OverdueInv DEF t
  <1> QED BY <1>2, <1>3, <1>4, <1>5, SenderOrder DEF Timeout

LEMMA CheckConnectivityOrder ==
    ASSUME TypeOK, OrderInv, NEW e \in End, NEW ping \in BOOLEAN,
           CheckConnectivity(e, ping)
    PROVE  OrderInv'
  <1> DEFINE t == Beat(snd[e], ping)
  <1>1. SndOK(snd[e]) /\ SndInv(snd[e], opened[e]) /\ opened[e] \in BOOLEAN
    BY OrderParts
  <1>2. snd' = [snd EXCEPT ![e] = t]
    BY DEF CheckConnectivity
  <1>3. SndOK(t) /\ SndInv(t, opened[e]) /\ Follows(snd[e], t)
    BY <1>1, BeatOK, BeatInv
  <1> HIDE DEF t
  <1> QED BY <1>2, <1>3, CheckConnectivityType, SenderOrder
      DEF CheckConnectivity

\* What leaves is numbered, and so is its predecessor.
LEMMA ComposeTruthful ==
    ASSUME TypeOK, OrderInv, NEW e \in End, NEW id, id = Head(NextQueue(snd[e])),
           NextQueue(snd[e]) # <<>>, Numbered(snd[e], id).serial <= MaxSerial
    PROVE  /\ Truthful(AfterSend(snd[e]), Compose(e, id))
           /\ Compose(e, id).vim => AfterSend(snd[e]).msgs[id].class \in Stream
           /\ Compose(e, id).id = id
  <1> DEFINE s == snd[e]
             m == Numbered(s, id)
             t == AfterSend(s)
             p == Compose(e, id)
  <1>1. /\ p.id = id /\ p.serial = m.serial /\ p.vim = IsVIM(m)
        /\ p.pred = IF Ordered(m) THEN s.msgs[m.pred].serial ELSE 0
    BY DEF Compose
  <1>2. SndOK(s) /\ SndInv(s, opened[e]) /\ opened[e] \in BOOLEAN
    BY OrderParts
  <1> HIDE DEF p, s
  <1>3. /\ id \in 1 .. Len(s.msgs) /\ Len(t.msgs) = Len(s.msgs)
        /\ \A i \in 1 .. Len(s.msgs) : t.msgs[i] = IF i = id THEN m ELSE s.msgs[i]
    BY <1>2, SentParts DEF s
  <1>4. m.pred = s.msgs[id].pred /\ m.serial \in Serial
    BY <1>2, <1>3, NumberedOK DEF s
  <1>5. SndInv(t, opened[e])
    BY <1>2, SentInv DEF s
  <1> HIDE DEF m, t
  <1>6. t.msgs[id] = m /\ m.serial # 0
    BY <1>3, <1>4 DEF Serial
  <1>7. ASSUME m.pred # 0
        PROVE  p.pred = t.msgs[m.pred].serial /\ p.pred # 0
    <2>1. m.pred \in 1 .. Len(s.msgs) /\ m.pred < id
      BY <1>2, <1>3, <1>4, <1>7, QueueMembers DEF SndInv, Chained
    <2>2. t.msgs[m.pred] = s.msgs[m.pred]
      BY <1>3, <2>1
    <2>3. t.msgs[m.pred].serial # 0
      BY <1>3, <1>5, <1>6, <1>7 DEF SndInv, PredecessorsLeft
    <2> QED BY <1>1, <1>7, <2>2, <2>3 DEF Ordered
  <1>8. m.pred = 0 => p.pred = 0
    BY <1>1 DEF Ordered
  <1>9. Truthful(t, p)
    BY <1>1, <1>3, <1>6, <1>7, <1>8 DEF Truthful
  <1>10. p.vim => t.msgs[id].class \in Stream
    BY <1>1, <1>6 DEF IsVIM
  <1> QED BY <1>1, <1>9, <1>10 DEF t, p, s

LEMMA SendOrder ==
    ASSUME TypeOK, OrderInv, NEW e \in End, Send(e)
    PROVE  OrderInv'
  <1> DEFINE s == snd[e]
             id == Head(NextQueue(s))
             m == Numbered(s, id)
             t == AfterSend(s)
             r == AckOut(rcv[e], m)
             p == Compose(e, id)
  <1>1. TypeOK'
    BY SendType
  <1>2. /\ SndOK(s) /\ RcvOK(rcv[e]) /\ NextQueue(s) # <<>>
        /\ m.serial <= MaxSerial /\ SndInv(s, opened[e]) /\ opened[e] \in BOOLEAN
    BY OrderParts DEF Send
  <1>3. /\ snd' = [snd EXCEPT ![e] = t] /\ rcv' = [rcv EXCEPT ![e] = r]
        /\ net' = [net EXCEPT ![Peer(e)] = @ \cup {p}]
        /\ opened' = opened /\ delivered' = delivered
    BY DEF Send, AfterSend
  <1>4. SndInv(t, opened[e]) /\ Follows(s, t) /\ SndOK(t)
    BY <1>2, SentInv, SentOK
  <1>5. RcvInv(r, snd[Peer(e)], delivered[e], opened[e])
    <2>1. id \in 1 .. Len(s.msgs)
      BY <1>2, UnqueueOK
    <2>2. m \in Msg
      BY <1>2, <2>1, NumberedOK
    <2>3. RcvInv(rcv[e], snd[Peer(e)], delivered[e], opened[e])
      BY OrderParts
    <2> HIDE DEF m
    <2> QED BY <1>2, <2>2, <2>3, AckOutInv
  <1>6. Truthful(t, p) /\ (p.vim => t.msgs[p.id].class \in Stream)
    <2>1. /\ Truthful(t, p) /\ (p.vim => t.msgs[id].class \in Stream)
          /\ p.id = id
      BY <1>2, ComposeTruthful
    <2> HIDE DEF t, p, id
    <2> QED BY <2>1
  <1> HIDE DEF t, p, r, m, id
  <1>7. NetInv(t, net[Peer(e)])
    <2>1. Keeps(s, t)
      BY <1>4 DEF Follows
    <2>2. NetInv(s, net[Peer(e)])
      BY OrderParts
    <2> QED BY <1>2, <1>4, <2>1, <2>2, NetInvKept
  <1>8. NetInv(t, net[Peer(e)] \cup {p})
    BY <1>6, <1>7 DEF NetInv
  <1>9. Peer(e) \in End /\ Peer(e) # e
    BY PeerType
  <1>10. /\ snd'[e] = t /\ rcv'[e] = r
         /\ net'[Peer(e)] = net[Peer(e)] \cup {p} /\ net'[e] = net[e]
         /\ delivered'[e] = delivered[e] /\ opened'[e] = opened[e]
    BY <1>3, <1>9, TypeParts
  <1>11. \A x \in End : x # e => /\ snd'[x] = snd[x] /\ rcv'[x] = rcv[x]
                                 /\ delivered'[x] = delivered[x]
                                 /\ opened'[x] = opened[x]
    BY <1>3, TypeParts
  <1>12. /\ Follows(snd[e], snd'[e]) /\ SndInv(snd'[e], opened'[e])
         /\ RcvInv(rcv'[e], snd[Peer(e)], delivered'[e], opened'[e])
         /\ net'[e] \subseteq net[e] /\ NetInv(snd'[e], net'[Peer(e)])
    BY <1>4, <1>5, <1>8, <1>10
  <1> QED BY <1>1, <1>11, <1>12, OrderStep

LEMMA CloseOrder ==
    ASSUME TypeOK, OrderInv, NEW e \in End, Close(e)
    PROVE  OrderInv'
  <1> DEFINE s == snd[e]
             queued == Range(s.urgentQ) \cup Range(s.vimQ) \cup Range(s.commonQ)
             q == [i \in DOMAIN s.msgs |->
                      IF i \in queued THEN [s.msgs[i] EXCEPT !.status = "cancelled"]
                                      ELSE s.msgs[i]]
             t == [s EXCEPT !.msgs = q, !.urgentQ = <<>>, !.vimQ = <<>>,
                            !.commonQ = <<>>, !.lastUrgent = 0, !.lastVIM = 0,
                            !.revisited = {}]
             f == [x \in Serial |-> <<>>]
             r == [rcv[e] EXCEPT !.deferred = f]
  <1>1. TypeOK'
    BY CloseType
  <1>2. /\ snd' = [snd EXCEPT ![e] = t] /\ rcv' = [rcv EXCEPT ![e] = r]
        /\ opened' = [opened EXCEPT ![e] = FALSE]
        /\ net' = net /\ delivered' = delivered
    BY TypeParts DEF Close
  <1>3. /\ SndOK(s) /\ RcvOK(rcv[e]) /\ SndInv(s, opened[e])
        /\ opened[e] \in BOOLEAN
        /\ RcvInv(rcv[e], snd[Peer(e)], delivered[e], opened[e])
    BY OrderParts
  <1>4. /\ Len(s.msgs) \in Nat /\ DOMAIN s.msgs = 1 .. Len(s.msgs)
        /\ \A i \in 1 .. Len(s.msgs) : s.msgs[i] \in Msg
    BY <1>3, SndFields
  <1> HIDE DEF s
  <1>5. \A i \in 1 .. Len(s.msgs) :
            /\ q[i] \in Msg /\ q[i].class = s.msgs[i].class
            /\ q[i].pred = s.msgs[i].pred /\ q[i].serial = s.msgs[i].serial
    BY <1>4 DEF Msg
  <1>6. q \in Seq(Msg) /\ Len(q) = Len(s.msgs)
    <2>1. q \in [1 .. Len(s.msgs) -> Msg]
      BY <1>4, <1>5
    <2> QED BY <1>4, <2>1, SeqDef
  <1> HIDE DEF q
  <1>7. /\ t.msgs = q /\ t.serial = s.serial /\ t.prepared = s.prepared
        /\ t.urgentQ = <<>> /\ t.vimQ = <<>> /\ t.commonQ = <<>>
        /\ t.revisited = {}
    BY <1>3 DEF SndOK, Snd
  <1>8. /\ r.stack = rcv[e].stack /\ r.handing = rcv[e].handing
        /\ r.procMask = rcv[e].procMask /\ r.maskMin = rcv[e].maskMin
        /\ r.deferred = f
    BY <1>3 DEF RcvOK, Rcv
  <1>9. /\ snd'[e] = t /\ rcv'[e] = r /\ opened'[e] = FALSE
        /\ delivered'[e] = delivered[e] /\ net'[e] = net[e]
        /\ net'[Peer(e)] = net[Peer(e)]
    BY <1>2, TypeParts
  <1> HIDE DEF t, r
  <1>10. SndOK(t)
    <2>1. References(snd'[e]) \subseteq DOMAIN snd'[e].msgs /\ snd' \in [End -> Snd]
      BY <1>1 DEF TypeOK
    <2> QED BY <1>9, <2>1 DEF SndOK
  <1>11. Alike(s, t)
    BY <1>5, <1>6, <1>7 DEF Alike
  <1>12. /\ SerialsUsedOnce(t) /\ Chained(t) /\ PredecessorsLeft(t)
         /\ Keeps(s, t) /\ Follows(s, t)
    BY <1>3, <1>10, <1>11, AlikeParts, AlikeFollows DEF SndInv
  <1>13. Range(<<>>) = {} /\ Len(<<>>) = 0
    BY DEF Range
  <1>14. QueueOrdered(t, t.urgentQ) /\ QueueOrdered(t, t.vimQ)
    BY <1>7, <1>13 DEF QueueOrdered
  <1>15. t.prepared # 0 => t.msgs[t.prepared].serial # 0
    <2>1. s.prepared # 0 => s.prepared \in 1 .. Len(s.msgs)
      BY <1>3, QueueMembers
    <2> QED BY <1>3, <1>5, <1>7, <2>1 DEF SndInv
  <1>16. SndInv(t, FALSE)
    BY <1>7, <1>12, <1>13, <1>14, <1>15 DEF SndInv
  <1>17. RcvInv(r, snd[Peer(e)], delivered[e], FALSE)
    <2>1. Waiting(r) \subseteq Waiting(rcv[e])
      BY <1>8, <1>13, WaitingMember
    <2>2. \A n \in Serial : \A x \in Range(r.deferred[n]) : x.pred = n
      BY <1>8, <1>13
    <2>3. HandingReady(rcv[e], snd[Peer(e)], delivered[e])
              => HandingReady(r, snd[Peer(e)], delivered[e])
      BY <1>8 DEF HandingReady
    <2>4. KeptUp(r, snd[Peer(e)], delivered[e])
              => KeptUp(rcv[e], snd[Peer(e)], delivered[e])
      BY <1>8 DEF KeptUp
    <2> QED BY <2>4, <1>3, <1>8, <2>1, <2>2, <2>3 DEF RcvInv
  <1>18. NetInv(t, net[Peer(e)])
    <2>1. NetInv(s, net[Peer(e)])
      BY OrderParts DEF s
    <2> QED BY <1>3, <1>10, <1>12, <2>1, NetInvKept
  <1>19. \A x \in End : x # e => /\ snd'[x] = snd[x] /\ rcv'[x] = rcv[x]
                                 /\ delivered'[x] = delivered[x]
                                 /\ opened'[x] = opened[x]
    BY <1>2, TypeParts
  <1>20. SndInv(snd'[e], opened'[e])
         /\ RcvInv(rcv'[e], snd[Peer(e)], delivered'[e], opened'[e])
    BY <1>9, <1>16, <1>17
  <1>21. /\ Follows(snd[e], snd'[e])
         /\ net'[e] \subseteq net[e] /\ NetInv(snd'[e], net'[Peer(e)])
    BY <1>9, <1>12, <1>18 DEF s
  <1> QED BY <1>1, <1>19, <1>20, <1>21, OrderStep

\* A step that receives, processes or loses something.
LEMMA ListenerOrder ==
    ASSUME TypeOK, TypeOK', OrderInv, NEW e \in End,
           NEW t, SndOK(t), Follows(snd[e], t), SndInv(t, opened[e]),
           snd' = [snd EXCEPT ![e] = t],
           NEW r, rcv' = [rcv EXCEPT ![e] = r],
           NEW d, delivered' = [delivered EXCEPT ![e] = d],
           RcvInv(r, snd[Peer(e)], d, opened[e]),
           NEW n \in SUBSET net[e], net' = [net EXCEPT ![e] = n],
           opened' = opened
    PROVE  OrderInv'
  <1>1. Peer(e) \in End /\ Peer(e) # e
    BY PeerType
  <1>2. NetInv(t, net[Peer(e)])
    <2>1. Keeps(snd[e], t)
      BY DEF Follows
    <2> QED BY <2>1, OrderParts, NetInvKept
  <1>3. /\ snd'[e] = t /\ rcv'[e] = r /\ delivered'[e] = d /\ net'[e] = n
        /\ net'[Peer(e)] = net[Peer(e)]
    BY <1>1, TypeParts
  <1>4. \A x \in End : x # e => /\ snd'[x] = snd[x] /\ rcv'[x] = rcv[x]
                                /\ delivered'[x] = delivered[x]
                                /\ opened'[x] = opened[x]
    BY TypeParts
  <1>5. opened'[e] = opened[e]
    OBVIOUS
  <1>6. SndInv(snd'[e], opened'[e])
        /\ RcvInv(rcv'[e], snd[Peer(e)], delivered'[e], opened'[e])
    BY <1>3, <1>5
  <1>7. /\ Follows(snd[e], snd'[e])
        /\ net'[e] \subseteq net[e] /\ NetInv(snd'[e], net'[Peer(e)])
    BY <1>2, <1>3
  <1> QED BY <1>4, <1>6, <1>7, OrderStep

LEMMA ReceiveResentOrder ==
    ASSUME TypeOK, OrderInv, NEW e \in End, NEW p \in net[e], ReceiveResent(e, p)
    PROVE  OrderInv'
  <1> DEFINE r == InputResent(rcv[e], p)
  <1>1. TypeOK' /\ p \in Packet
    BY ReceiveResentType, KnownParts
  <1>2. /\ rcv' = [rcv EXCEPT ![e] = r] /\ Arrive(e, p)
        /\ snd' = snd /\ delivered' = delivered /\ opened' = opened
    BY DEF ReceiveResent
  <1>3. RcvInv(r, snd[Peer(e)], delivered[e], opened[e])
    BY <1>1, OrderParts, InputResentInv
  <1>4. PICK n \in SUBSET net[e] : net' = [net EXCEPT ![e] = n]
    BY <1>2, ArriveType
  <1>5. /\ SndOK(snd[e]) /\ Follows(snd[e], snd[e]) /\ SndInv(snd[e], opened[e])
        /\ snd' = [snd EXCEPT ![e] = snd[e]]
        /\ delivered' = [delivered EXCEPT ![e] = delivered[e]]
    BY <1>2, OrderParts
  <1> HIDE DEF r
  <1> QED BY <1>1, <1>2, <1>3, <1>4, <1>5, ListenerOrder

\* The message that arrives, seen by the invariant.
LEMMA Heard ==
    ASSUME TypeOK, OrderInv, NEW e \in End, NEW p \in net[e]
    PROVE  /\ Truthful(snd[Peer(e)], p)
           /\ p.vim => snd[Peer(e)].msgs[p.id].class \in Stream
           /\ p \in Packet /\ p.serial \in 0 .. MaxSerial /\ p.serial \in Serial
           /\ p.acks \in SUBSET Serial
  <1>1. p \in Packet
    BY KnownParts
  <1>2. NetInv(snd[Peer(e)], net[e])
    BY OrderParts
  <1> QED BY <1>1, <1>2, ParameterTypes DEF NetInv, Packet, Serial

LEMMA ReceiveFarOrder ==
    ASSUME TypeOK, OrderInv, NEW e \in End, NEW p \in net[e], ReceiveFar(e, p)
    PROVE  OrderInv'
  <1> DEFINE u == [rcv[e] EXCEPT !.rejected = TRUE]
             r == Admit(u, p)
             s == IF p.instant THEN ReplyTo(snd[e], p.serial) ELSE snd[e]
  <1>1. TypeOK'
    BY ReceiveFarType
  <1>2. /\ rcv' = [rcv EXCEPT ![e] = r] /\ snd' = [snd EXCEPT ![e] = s]
        /\ Arrive(e, p) /\ delivered' = delivered /\ opened' = opened
        /\ rcv[e].stack = <<>>
    BY DEF ReceiveFar
  <1>3. /\ RcvOK(rcv[e]) /\ SndOK(snd[e]) /\ opened[e] \in BOOLEAN
        /\ SndInv(snd[e], opened[e]) /\ Follows(snd[e], snd[e])
        /\ RcvInv(rcv[e], snd[Peer(e)], delivered[e], opened[e])
        /\ delivered' = [delivered EXCEPT ![e] = delivered[e]]
    BY <1>2, OrderParts
  <1>4. RcvInv(r, snd[Peer(e)], delivered[e], opened[e])
    <2>1. /\ u.stack = rcv[e].stack /\ u.deferred = rcv[e].deferred
          /\ u.handing = rcv[e].handing /\ u.procMask = rcv[e].procMask
          /\ u.maskMin = rcv[e].maskMin /\ RcvOK(u)
      BY <1>3 DEF RcvOK, Rcv
    <2> HIDE DEF u
    <2>2. RcvInv(u, snd[Peer(e)], delivered[e], opened[e])
      BY <1>3, <2>1, BookkeepingInv
    <2> QED BY <1>2, <1>3, <2>1, <2>2, Heard, AdmitInv
  <1>5. SndOK(s) /\ SndInv(s, opened[e]) /\ Follows(snd[e], s)
    BY <1>3, Heard, ReplyToOK, ReplyToInv
  <1>6. PICK n \in SUBSET net[e] : net' = [net EXCEPT ![e] = n]
    BY <1>2, ArriveType
  <1> HIDE DEF r, s
  <1> QED BY <1>1, <1>2, <1>3, <1>4, <1>5, <1>6, ListenerOrder

LEMMA ReceiveNewOrder ==
    ASSUME TypeOK, OrderInv, NEW e \in End, NEW p \in net[e],
           NEW beat \in BOOLEAN, NEW ping \in BOOLEAN,
           ReceiveNew(e, p, beat, ping)
    PROVE  OrderInv'
  <1> DEFINE u == InputStatistics(rcv[e], p.serial)
             r == Admit(u, p)
             heard == AckIn(snd[e], p.acks)
             beaten == IF beat THEN Beat(heard, ping) ELSE heard
             s == IF p.instant THEN ReplyTo(beaten, p.serial) ELSE beaten
  <1>1. TypeOK'
    BY ReceiveNewType
  <1>2. /\ rcv' = [rcv EXCEPT ![e] = r] /\ snd' = [snd EXCEPT ![e] = s]
        /\ delivered' = delivered /\ opened' = opened /\ rcv[e].stack = <<>>
    BY DEF ReceiveNew
  <1>3. /\ RcvOK(rcv[e]) /\ SndOK(snd[e]) /\ opened[e] \in BOOLEAN
        /\ SndInv(snd[e], opened[e])
        /\ RcvInv(rcv[e], snd[Peer(e)], delivered[e], opened[e])
        /\ delivered' = [delivered EXCEPT ![e] = delivered[e]]
    BY <1>2, OrderParts
  <1>4. RcvInv(r, snd[Peer(e)], delivered[e], opened[e])
    <2>1. RcvOK(u) /\ u.stack = rcv[e].stack
      BY <1>3, Heard, InputStatisticsOK
    <2>2. RcvInv(u, snd[Peer(e)], delivered[e], opened[e])
      BY <1>2, <1>3, Heard, InputStatisticsInv
    <2> HIDE DEF u
    <2> QED BY <1>2, <1>3, <2>1, <2>2, Heard, AdmitInv
  <1>5. SndOK(s) /\ SndInv(s, opened[e]) /\ Follows(snd[e], s)
    <2>1. SndOK(heard) /\ SndInv(heard, opened[e]) /\ Follows(snd[e], heard)
      BY <1>3, Heard, AckInOK, AckInInv
    <2> HIDE DEF heard
    <2>2. SndOK(beaten) /\ SndInv(beaten, opened[e]) /\ Follows(heard, beaten)
      BY <1>3, <2>1, BeatOK, BeatInv, FollowsRefl
    <2> HIDE DEF beaten
    <2>3. SndOK(s) /\ SndInv(s, opened[e]) /\ Follows(beaten, s)
      BY <1>3, <2>2, Heard, ReplyToOK, ReplyToInv, FollowsRefl
    <2> HIDE DEF s
    <2>4. Follows(snd[e], beaten)
      BY <1>3, <2>1, <2>2, FollowsTrans
    <2>5. Follows(snd[e], s)
      BY <1>3, <2>2, <2>3, <2>4, FollowsTrans
    <2> QED BY <2>3, <2>5
  <1> HIDE DEF r, s
  <1>6. PICK n \in SUBSET net[e] : net' = [net EXCEPT ![e] = n]
    <2>1. CASE beat
      <3>1. net' = [net EXCEPT ![e] = @ \ {p}]
        BY <2>1 DEF ReceiveNew
      <3> QED BY <3>1
    <2>2. CASE ~beat
      <3>1. Arrive(e, p)
        BY <2>2 DEF ReceiveNew
      <3> QED BY <3>1, ArriveType
    <2> QED BY <2>1, <2>2
  <1> QED BY <1>1, <1>2, <1>3, <1>4, <1>5, <1>6, ListenerOrder

LEMMA ProcessVIMOrder ==
    ASSUME TypeOK, OrderInv, NEW e \in End, ProcessVIM(e)
    PROVE  OrderInv'
  <1> DEFINE start == Head(rcv[e].stack).serial >= rcv[e].maskMin /\ opened[e]
             r == IF start THEN [rcv[e] EXCEPT !.handing = TRUE]
                  ELSE Processed(rcv[e])
  <1>1. TypeOK'
    BY ProcessVIMType
  <1>2. /\ rcv' = [rcv EXCEPT ![e] = r] /\ rcv[e].stack # <<>>
        /\ snd' = snd /\ delivered' = delivered /\ opened' = opened /\ net' = net
    BY DEF ProcessVIM
  <1>3. RcvInv(r, snd[Peer(e)], delivered[e], opened[e])
    <2>1. CASE start
      BY <1>2, <2>1, OrderParts, HandingInv
    <2>2. CASE ~start
      BY <1>2, <2>2, OrderParts, SkippedInv
    <2> QED BY <2>1, <2>2
  <1>4. /\ SndOK(snd[e]) /\ Follows(snd[e], snd[e]) /\ SndInv(snd[e], opened[e])
        /\ snd' = [snd EXCEPT ![e] = snd[e]]
        /\ delivered' = [delivered EXCEPT ![e] = delivered[e]]
        /\ net' = [net EXCEPT ![e] = net[e]] /\ net[e] \in SUBSET net[e]
    BY <1>2, OrderParts, TypeParts
  <1> HIDE DEF r
  <1> QED BY <1>1, <1>2, <1>3, <1>4, ListenerOrder

LEMMA HandOverOrder ==
    ASSUME TypeOK, OrderInv, NEW e \in End, HandOver(e)
    PROVE  OrderInv'
  <1> DEFINE r == Processed(rcv[e])
             d == Append(delivered[e], Head(rcv[e].stack).id)
  <1>1. TypeOK'
    BY HandOverType
  <1>2. /\ rcv' = [rcv EXCEPT ![e] = r] /\ rcv[e].handing
        /\ delivered' = [delivered EXCEPT ![e] = d]
        /\ snd' = snd /\ opened' = opened /\ net' = net
    BY DEF HandOver
  <1>3. RcvInv(r, snd[Peer(e)], d, opened[e])
    BY <1>2, OrderParts, HandedInv
  <1>4. /\ SndOK(snd[e]) /\ Follows(snd[e], snd[e]) /\ SndInv(snd[e], opened[e])
        /\ snd' = [snd EXCEPT ![e] = snd[e]]
        /\ net' = [net EXCEPT ![e] = net[e]] /\ net[e] \in SUBSET net[e]
    BY <1>2, OrderParts, TypeParts
  <1> HIDE DEF r, d
  <1> QED BY <1>1, <1>2, <1>3, <1>4, ListenerOrder

LEMMA LoseOrder ==
    ASSUME TypeOK, OrderInv, NEW e \in End, NEW p \in net[e], Lose(e, p)
    PROVE  OrderInv'
  <1>1. TypeOK'
    BY LoseType
  <1>2. /\ SndOK(snd[e]) /\ Follows(snd[e], snd[e]) /\ SndInv(snd[e], opened[e])
        /\ RcvInv(rcv[e], snd[Peer(e)], delivered[e], opened[e])
        /\ snd' = [snd EXCEPT ![e] = snd[e]]
        /\ rcv' = [rcv EXCEPT ![e] = rcv[e]]
        /\ delivered' = [delivered EXCEPT ![e] = delivered[e]]
        /\ opened' = opened
        /\ net' = [net EXCEPT ![e] = net[e] \ {p}]
    BY OrderParts DEF Lose
  <1> QED BY <1>1, <1>2, ListenerOrder

LEMMA InitOrder == Init => OrderInv
  <1> SUFFICES ASSUME Init, NEW e \in End
               PROVE  /\ SndInv(snd[e], opened[e]) /\ NetInv(snd[Peer(e)], net[e])
                      /\ RcvInv(rcv[e], snd[Peer(e)], delivered[e], opened[e])
    BY DEF OrderInv
  <1>1. Range(<<>>) = {} /\ Len(<<>>) = 0
    BY DEF Range
  <1>2. \A x \in End :
            /\ snd[x].msgs = <<>> /\ snd[x].urgentQ = <<>> /\ snd[x].vimQ = <<>>
            /\ snd[x].commonQ = <<>> /\ snd[x].prepared = 0
            /\ snd[x].revisited = {} /\ snd[x].lastUrgent = 0
            /\ snd[x].lastVIM = 0
    BY DEF Init
  <1>3. SndInv(snd[e], opened[e])
    BY <1>1, <1>2 DEF SndInv, SerialsUsedOnce, Chained, PredecessorsLeft,
                      QueueOrdered, Registered
  <1>4. NetInv(snd[Peer(e)], net[e])
    BY DEF Init, NetInv
  <1>5. /\ rcv[e].stack = <<>> /\ rcv[e].deferred = [n \in Serial |-> <<>>]
        /\ rcv[e].procMask = {} /\ ~rcv[e].handing /\ delivered[e] = <<>>
    BY DEF Init
  <1>6. Waiting(rcv[e]) = {}
    BY <1>1, <1>5, WaitingMember
  <1>7. Peer(e) \in End
    BY PeerType
  <1>8. \A n \in Serial : Range(rcv[e].deferred[n]) = {}
    BY <1>1, <1>5
  <1>9. /\ StackReady(rcv[e]) /\ ProcessedHanded(rcv[e], snd[Peer(e)], delivered[e])
        /\ HandingReady(rcv[e], snd[Peer(e)], delivered[e])
        /\ NoGap(snd[Peer(e)], delivered[e])
    BY <1>1, <1>5 DEF StackReady, ProcessedHanded, HandingReady, NoGap
  <1>10. RcvInv(rcv[e], snd[Peer(e)], delivered[e], opened[e])
    BY <1>5, <1>6, <1>8, <1>9 DEF RcvInv
  <1> QED BY <1>3, <1>4, <1>10

\* The invariant holds in every state.
THEOREM OrderAlways == Spec => []OrderInv
  <1>1. Init => OrderInv
    BY InitOrder
  <1>2. TypeOK /\ OrderInv /\ [Next]_vars => OrderInv'
    <2> SUFFICES ASSUME TypeOK, OrderInv, [Next]_vars
                 PROVE  OrderInv'
      OBVIOUS
    <2>1. CASE UNCHANGED vars
      <3>1. /\ opened' = opened /\ snd' = snd /\ rcv' = rcv /\ net' = net
            /\ delivered' = delivered
        BY <2>1 DEF vars
      <3> QED BY <3>1 DEF OrderInv
    <2>2. ASSUME NEW e \in End, User(e) PROVE OrderInv'
      BY <2>2, DispatchOrder, CloseOrder DEF User
    <2>3. ASSUME NEW e \in End, Sender(e) PROVE OrderInv'
      BY <2>3, SendOrder, PostSendOrder, ExpireOrder, TimeoutOrder,
         CheckConnectivityOrder DEF Sender
    <2>4. ASSUME NEW e \in End, Listener(e) PROVE OrderInv'
      BY <2>4, ReceiveResentOrder, ReceiveFarOrder, ReceiveNewOrder, LoseOrder,
         ProcessVIMOrder, HandOverOrder DEF Listener, Receive
    <2> QED BY <2>1, <2>2, <2>3, <2>4 DEF Next
  <1> QED BY <1>1, <1>2, TypeCorrect, PTL DEF Spec

\* An ordered message never leaves before its predecessor has a serial number,
\* so that the assertion on control2 in setOutputData never fires, for every
\* workload and whatever the network loses, repeats or reorders.
THEOREM PredecessorAlwaysNumbered == Spec => []PredecessorNumbered
  <1>1. OrderInv => PredecessorNumbered
    BY DEF OrderInv, NetInv, Truthful, PredecessorNumbered, Ordered
  <1> QED BY <1>1, OrderAlways, PTL

\* When a guaranteed message is handed to the user's routine, those of its
\* stream that its sender submitted before it have been, unless the receiver's
\* masks left behind a message that was not, for every workload and every choice
\* of windows, redundancies and network behaviour.
THEOREM NothingLeftOut == Spec => []NoneLeftOut
  <1>1. TypeOK /\ OrderInv => NoneLeftOut
    <2> SUFFICES ASSUME TypeOK, OrderInv, NEW e \in End, LeftBehind(e) = {}
                 PROVE  \A k \in DOMAIN delivered[e] :
                            \A i \in 1 .. delivered[e][k] - 1 :
                                SameStream(Peer(e), i, delivered[e][k])
                                    => \E j \in 1 .. k - 1 : delivered[e][j] = i
      BY DEF NoneLeftOut
    <2>1. /\ KeptUp(rcv[e], snd[Peer(e)], delivered[e])
             => NoGap(snd[Peer(e)], delivered[e])
          /\ delivered[e] \in Seq(Nat) /\ SndOK(snd[Peer(e)])
      BY OrderParts DEF RcvInv
    <2>2. DOMAIN snd[Peer(e)].msgs = 1 .. Len(snd[Peer(e)].msgs)
      BY <2>1, SndFields
    <2>3. KeptUp(rcv[e], snd[Peer(e)], delivered[e])
      BY <2>2 DEF KeptUp, LeftBehind, IsVIM
    <2>4. DOMAIN delivered[e] = 1 .. Len(delivered[e])
      BY <2>1
    <2> QED BY <2>1, <2>3, <2>4 DEF NoGap, SameStream
  <1> QED BY <1>1, OrderAlways, TypeCorrect, PTL

=============================================================================
