------------------------ MODULE PlayerSessionProofs ------------------------
(***************************************************************************)
(* For every set of clients and identities: the types of PlayerSession,    *)
(* TablesAgree and GameInStep, which are inductive together, with what the *)
(* listening thread knows of the request in its hands; and PlayersStay,    *)
(* with what is under way that could remove a player, and which thread     *)
(* has the users' lock meanwhile.                                          *)
(***************************************************************************)
EXTENDS PlayerSession, SequenceTheorems, WellFoundedInduction, TLAPS

Thread == {Nobody, "listener", "sender", "game"}

TablesTyped ==
    /\ users \in [Id -> 0 .. Len(chan)]
    /\ support \subseteq Address
    /\ reg \in [Address -> 0 .. Len(chan)]
    /\ chan \in Seq(Address)
    /\ open \subseteq 1 .. Len(chan)
    /\ kicks \subseteq open \X Id
    /\ creates \in [Id -> Nat]
    /\ deletes \in [Id -> Nat]
    /\ game \subseteq Id

ListenerType ==
    [pc : {"idle", "check", "again", "recheck", "create", "answer", "leave",
           "leaving"},
     from : Address, id : Id \cup {NoPlayer}, ch : 0 .. Len(chan)]

SenderType ==
    [pc : {"idle", "sent", "pool", "usr"}, ch : 0 .. Len(chan),
     player : Id \cup {NoPlayer}]

ClientsTyped ==
    /\ phase \in [Address -> {"out", "joining", "in"}]
    /\ drawn \in [Address -> SUBSET Unique]
    /\ asked \in [Address -> Unique \cup {NoPlayer}]
    /\ player \in [Address -> Id \cup {NoPlayer}]
    /\ acks \in [Address -> SUBSET Id]
    /\ leaving \subseteq Address

ThreadsTyped ==
    /\ lock \in [Lock -> Thread]
    /\ listener \in ListenerType
    /\ sender \in SenderType
    /\ dropping \in Id \cup {NoPlayer}
    /\ expelled \subseteq (1 .. Len(chan)) \X Id

Left(u) == \E p \in u .. u + UniqueToTry - 1 : users[p] = NoChannel

\* The identity a request asks for was drawn by its client, and there is one
\* left for it once this was found; the one in an answer is a player's.
InHand ==
    /\ listener.pc \in {"check", "again", "recheck", "create"} =>
          listener.id \in Unique
    /\ listener.pc = "create" => Left(listener.id)
    /\ listener.pc = "answer" => listener.id \in Id

Inv ==
    /\ TypeOK
    /\ InHand
    /\ TablesAgree
    /\ GameInStep
-----------------------------------------------------------------------------
LEMMA Identities ==
    /\ Id \subseteq Nat
    /\ \A u \in Unique : u .. u + UniqueToTry - 1 \subseteq Id
    /\ Unique \subseteq Id
BY SessionAssumption DEF Id

LEMMA TypeSplit ==
    TypeOK <=> TablesTyped /\ ClientsTyped /\ ThreadsTyped
BY DEF TypeOK, TablesTyped, ClientsTyped, ThreadsTyped, ListenerType, SenderType,
       Thread

LEMMA LeavesTyped ==
    ASSUME lock \in [Lock -> Thread], NEW t, Leaves(t)
    PROVE  lock' \in [Lock -> Thread]
BY DEF Leaves, Thread

LEMMA EntersTyped ==
    ASSUME lock \in [Lock -> Thread],
           NEW t \in Thread, NEW k, Enters(t, k)
    PROVE  lock' \in [Lock -> Thread]
BY DEF Enters

LEMMA IdleTyped ==
    ASSUME TablesTyped
    PROVE  /\ Listening \in ListenerType /\ Listening.pc = "idle"
           /\ Sending \in SenderType
<1>1. (CHOOSE a \in Address : TRUE) \in Address
  BY SessionAssumption
<1>2. NoChannel \in 0 .. Len(chan)
  BY LenProperties DEF NoChannel, TablesTyped
<1> QED
  BY <1>1, <1>2 DEF Listening, Sending, ListenerType, SenderType

\* A set of numbers has a smallest member.
LEMMA SmallestOf ==
    ASSUME NEW S, S \subseteq Nat, S # {}
    PROVE  \E q \in S : \A r \in S : q <= r
<1>1. PICK x \in S : \A y \in S : <<y, x>> \notin OpToRel(<, Nat)
  BY WFMin, NatLessThanWellFounded
<1>2. \A y \in S : ~(y < x)
  BY <1>1, Zenon DEF OpToRel
<1>3. \A y \in S : x <= y
  BY <1>2
<1> QED
  BY <1>3

\* The identity that is found is free.
LEMMA FreeFromIsFree ==
    ASSUME NEW u \in Unique, Left(u)
    PROVE  /\ FreeFrom(u) \in u .. u + UniqueToTry - 1
           /\ FreeFrom(u) \in Id
           /\ users[FreeFrom(u)] = NoChannel
<1> DEFINE free == {p \in u .. u + UniqueToTry - 1 : users[p] = NoChannel}
<1>1. free # {}
  BY DEF Left
<1>2. FreeFrom(u) = CHOOSE q \in free : \A r \in free : q <= r
  BY <1>1 DEF FreeFrom
<1>3. \E q \in free : \A r \in free : q <= r
  <2>1. free \subseteq Nat
    BY Identities
  <2> QED
    BY <1>1, <2>1, SmallestOf
<1>4. FreeFrom(u) \in free
  BY <1>2, <1>3
<1> QED
  BY <1>4, Identities

\* Who destroys a player takes no identity.
LEMMA DestroyFrees ==
    ASSUME TablesTyped, NEW p, FinishDestroyPlayer(p), NEW u \in Unique, Left(u)
    PROVE  Left(u)'
<1>1. PICK q \in u .. u + UniqueToTry - 1 : users[q] = NoChannel
  BY DEF Left
<1>2. q \in Id
  BY Identities
<1>3. users'[q] = NoChannel
  BY <1>1, <1>2 DEF FinishDestroyPlayer, tables, TablesTyped
<1> QED
  BY <1>3 DEF Left

LEMMA ChannelToPlayerTyped ==
    ASSUME NEW c
    PROVE  ChannelToPlayer(c) \in Id \cup {NoPlayer}
BY DEF ChannelToPlayer

\* What does not touch the tables keeps them.
LEMMA TablesIdle ==
    ASSUME TablesTyped, TablesAgree, GameInStep, UNCHANGED <<tables, chan, game>>
    PROVE  TablesTyped' /\ TablesAgree' /\ GameInStep'
<1>1. /\ users' = users /\ support' = support /\ reg' = reg /\ open' = open
      /\ kicks' = kicks /\ creates' = creates /\ deletes' = deletes
      /\ chan' = chan /\ game' = game
  BY DEF tables
<1> QED
  BY <1>1 DEF TablesTyped, TablesAgree, GameInStep, Users

\* Kicks only queue messages, in open channels.
LEMMA TerminateKeeps ==
    ASSUME TablesTyped, TablesAgree, ThreadsTyped, NEW ps, Terminate(ps),
           open' = open, chan' = chan
    PROVE  /\ kicks' \subseteq open' \X Id
           /\ expelled' \subseteq (1 .. Len(chan)) \X Id
<1> DEFINE new == {<<users[p], p>> : p \in ps \cap Users}
<1>1. new \subseteq open \X Id
  BY DEF TablesAgree, Users
<1>2. open \subseteq 1 .. Len(chan)
  BY DEF TablesTyped
<1>3. kicks' = kicks \cup new /\ expelled' = expelled \cup new
  BY DEF Terminate
<1> HIDE DEF new
<1> QED
  BY <1>1, <1>2, <1>3 DEF TablesTyped, ThreadsTyped

\* Destroying a player keeps the tables together, and the game informed.
LEMMA DestroyKeeps ==
    ASSUME TablesTyped, TablesAgree, GameInStep,
           NEW p, FinishDestroyPlayer(p), UNCHANGED <<chan, game>>
    PROVE  TablesTyped' /\ TablesAgree' /\ GameInStep'
<1>1. CASE p \notin Users
  <2>1. /\ users' = users /\ support' = support /\ reg' = reg /\ open' = open
        /\ kicks' = kicks /\ creates' = creates /\ deletes' = deletes
        /\ chan' = chan /\ game' = game
    BY <1>1 DEF FinishDestroyPlayer, tables
  <2> QED
    BY <2>1 DEF TablesTyped, TablesAgree, GameInStep, Users
<1>2. CASE p \in Users
  <2> DEFINE c == users[p]
  <2>1. /\ users' = [users EXCEPT ![p] = NoChannel]
        /\ support' = support \ {chan[c]}
        /\ open' = open \ {c}
        /\ reg' = [reg EXCEPT ![chan[c]] = NoChannel]
        /\ kicks' = {k \in kicks : k[1] # c}
        /\ Gone(p)
    BY <1>2 DEF FinishDestroyPlayer, DeleteChannel
  <2>2. p \in Id /\ c \in open /\ c \in 1 .. Len(chan) /\ chan[c] \in Address
    <3>1. p \in Id /\ c \in open
      BY <1>2 DEF Users, TablesAgree
    <3>2. c \in 1 .. Len(chan)
      BY <3>1 DEF TablesTyped
    <3> QED
      BY <3>1, <3>2, ElementOfSeq DEF TablesTyped
  <2>3. chan' = chan /\ game' = game
    OBVIOUS
  <2>4. Users' = Users \ {p}
    BY <2>1, <2>2 DEF Users, NoChannel, TablesTyped
  <2>5. \A q \in Users \ {p} : /\ users'[q] = users[q] /\ users[q] # c
                               /\ chan[users[q]] # chan[c]
    BY <1>2, <2>1 DEF Users, TablesAgree, TablesTyped
  <2>6. TablesAgree'
    <3>1. \A q \in Users' : /\ users'[q] \in open'
                            /\ reg'[chan'[users'[q]]] = users'[q]
                            /\ chan'[users'[q]] \in support'
      <4> SUFFICES ASSUME NEW q \in Users \ {p}
                   PROVE  /\ users[q] \in open'
                          /\ reg'[chan[users[q]]] = users[q]
                          /\ chan[users[q]] \in support'
        BY <2>3, <2>4, <2>5
      <4>1. /\ users[q] \in open /\ reg[chan[users[q]]] = users[q]
            /\ chan[users[q]] \in support
        BY DEF TablesAgree
      <4>2. chan[users[q]] \in Address
        BY <4>1 DEF TablesTyped
      <4> QED
        BY <2>1, <2>5, <4>1, <4>2 DEF TablesTyped
    <3>2. \A d \in open' : \E q \in Users' : users'[q] = d
      BY <2>1, <2>4, <2>5 DEF TablesAgree
    <3>3. \A q, r \in Users' : users'[q] = users'[r] => q = r
      BY <2>4, <2>5 DEF TablesAgree
    <3>4. \A a \in Address : reg'[a] # NoChannel =>
                                reg'[a] \in open' /\ chan'[reg'[a]] = a
      BY <2>1, <2>2, <2>3 DEF TablesAgree, TablesTyped
    <3>5. \A a \in support' : reg'[a] # NoChannel
      BY <2>1, <2>2 DEF TablesAgree, TablesTyped
    <3> QED
      BY <3>1, <3>2, <3>3, <3>4, <3>5 DEF TablesAgree
  <2>7. /\ creates' \in [Id -> Nat] /\ deletes' \in [Id -> Nat]
        /\ GameInStep'
    <3>1. CASE creates[p] > 0
      <4>1. creates' = [creates EXCEPT ![p] = @ - 1] /\ deletes' = deletes
        BY <2>1, <3>1 DEF Gone
      <4>2. creates[p] = 1
        BY <2>2, <3>1 DEF GameInStep
      <4>3. creates' = [creates EXCEPT ![p] = 0]
        BY <4>1, <4>2
      <4> QED
        BY <1>2, <2>2, <2>3, <2>4, <4>1, <4>2, <4>3
           DEF GameInStep, TablesTyped
    <3>2. CASE ~(creates[p] > 0)
      <4>1. deletes' = [deletes EXCEPT ![p] = @ + 1] /\ creates' = creates
        BY <2>1, <3>2 DEF Gone
      <4>2. creates[p] = 0 /\ deletes[p] = 0 /\ p \in game
        BY <1>2, <2>2, <3>2 DEF GameInStep
      <4>3. deletes' = [deletes EXCEPT ![p] = 1]
        BY <4>1, <4>2
      <4> QED
        BY <1>2, <2>2, <2>3, <2>4, <4>1, <4>2, <4>3
           DEF GameInStep, TablesTyped
    <3> QED
      BY <3>1, <3>2
  <2>8. TablesTyped'
    <3>1. NoChannel \in 0 .. Len(chan)
      BY LenProperties DEF NoChannel, TablesTyped
    <3>2. users' \in [Id -> 0 .. Len(chan)] /\ reg' \in [Address -> 0 .. Len(chan)]
      BY <2>1, <3>1 DEF TablesTyped
    <3>3. /\ support' \subseteq Address /\ open' \subseteq 1 .. Len(chan)
          /\ kicks' \subseteq open' \X Id
      BY <2>1 DEF TablesTyped
    <3> QED
      BY <2>3, <2>7, <3>2, <3>3 DEF TablesTyped
  <2> QED
    BY <2>6, <2>7, <2>8
<1> QED
  BY <1>1, <1>2

\* A new player is on a new channel, at an address that had none.
LEMMA CreateKeeps ==
    ASSUME TypeOK, InHand, TablesTyped, TablesAgree, GameInStep, CreatePlayer
    PROVE  /\ TablesTyped' /\ TablesAgree' /\ GameInStep'
           /\ FreeFrom(listener.id) \in Id
<1> DEFINE p == FreeFrom(listener.id)
           c == Len(chan) + 1
           a == listener.from
<1>1. /\ users' = [users EXCEPT ![p] = c]
      /\ chan' = Append(chan, a)
      /\ open' = open \cup {c}
      /\ reg' = [reg EXCEPT ![a] = c]
      /\ support' = support \cup {a}
      /\ creates' = [creates EXCEPT ![p] = @ + 1]
      /\ UNCHANGED <<kicks, deletes, game>>
  BY DEF CreatePlayer
<1>2. p \in Id /\ users[p] = NoChannel
  <2>1. listener.id \in Unique /\ Left(listener.id)
    BY DEF InHand, CreatePlayer
  <2> QED
    BY <2>1, FreeFromIsFree
<1>3. a \in Address /\ reg[a] = NoChannel
  BY DEF CreatePlayer, TypeOK
<1>4. Len(chan) \in Nat /\ c \notin 0 .. Len(chan) /\ c # NoChannel
  BY LenProperties DEF TablesTyped, NoChannel
<1>5. /\ chan' \in Seq(Address) /\ Len(chan') = c /\ chan'[c] = a
      /\ \A d \in 1 .. Len(chan) : chan'[d] = chan[d]
  BY <1>1, <1>3, AppendProperties DEF TablesTyped
<1> HIDE DEF p, c, a
<1>6. p \notin Users /\ Users' = Users \cup {p}
  BY <1>1, <1>2, <1>4 DEF Users, TablesTyped
<1>7. users'[p] = c /\ \A q \in Users : users'[q] = users[q] /\ users[q] # c
  BY <1>1, <1>2, <1>4, <1>6 DEF Users, TablesTyped
<1>8. \A q \in Users : /\ users[q] \in open /\ users[q] \in 1 .. Len(chan)
                       /\ chan'[users[q]] = chan[users[q]]
                       /\ chan[users[q]] # a /\ chan[users[q]] \in Address
  <2> SUFFICES ASSUME NEW q \in Users
               PROVE  /\ users[q] \in open /\ users[q] \in 1 .. Len(chan)
                      /\ chan'[users[q]] = chan[users[q]]
                      /\ chan[users[q]] # a /\ chan[users[q]] \in Address
    OBVIOUS
  <2>1. /\ users[q] \in open /\ reg[chan[users[q]]] = users[q]
        /\ users[q] # NoChannel
    BY DEF TablesAgree, Users
  <2>2. users[q] \in 1 .. Len(chan)
    BY <2>1 DEF TablesTyped
  <2> QED
    BY <1>3, <1>5, <2>1, <2>2, ElementOfSeq DEF TablesTyped
<1>9. TablesAgree'
  <2>1. \A q \in Users' : /\ users'[q] \in open'
                          /\ reg'[chan'[users'[q]]] = users'[q]
                          /\ chan'[users'[q]] \in support'
    <3>1. /\ users'[p] \in open' /\ reg'[chan'[users'[p]]] = users'[p]
          /\ chan'[users'[p]] \in support'
      BY <1>1, <1>3, <1>5, <1>7 DEF TablesTyped
    <3>2. ASSUME NEW q \in Users
          PROVE  /\ users'[q] \in open' /\ reg'[chan'[users'[q]]] = users'[q]
                 /\ chan'[users'[q]] \in support'
      BY <1>1, <1>3, <1>7, <1>8 DEF TablesAgree, TablesTyped
    <3> QED
      BY <1>6, <3>1, <3>2
  <2>2. \A d \in open' : \E q \in Users' : users'[q] = d
    BY <1>1, <1>6, <1>7 DEF TablesAgree
  <2>3. \A q, r \in Users' : users'[q] = users'[r] => q = r
    BY <1>6, <1>7 DEF TablesAgree
  <2>4. ASSUME NEW b \in Address, reg'[b] # NoChannel
        PROVE  reg'[b] \in open' /\ chan'[reg'[b]] = b
    <3>1. CASE b = a
      BY <1>1, <1>3, <1>5, <3>1 DEF TablesTyped
    <3>2. CASE b # a
      <4>1. reg'[b] = reg[b]
        BY <1>1, <3>2 DEF TablesTyped
      <4>2. reg[b] \in open /\ chan[reg[b]] = b
        BY <2>4, <4>1 DEF TablesAgree
      <4>3. reg[b] \in 1 .. Len(chan)
        BY <4>2 DEF TablesTyped
      <4> QED
        BY <1>1, <1>5, <4>1, <4>2, <4>3
    <3> QED
      BY <3>1, <3>2
  <2>5. \A b \in support' : reg'[b] # NoChannel
    BY <1>1, <1>3, <1>4 DEF TablesAgree, TablesTyped
  <2> QED
    BY <2>1, <2>2, <2>3, <2>4, <2>5 DEF TablesAgree
<1>10. creates' \in [Id -> Nat] /\ GameInStep'
  <2>1. creates[p] = 0 /\ (p \in game => deletes[p] = 1)
    BY <1>2, <1>6 DEF GameInStep
  <2>2. creates' = [creates EXCEPT ![p] = 1]
    BY <1>1, <2>1
  <2> QED
    BY <1>1, <1>2, <1>6, <2>1, <2>2 DEF GameInStep, TablesTyped
<1>11. TablesTyped'
  <2>1. /\ 0 .. Len(chan) \subseteq 0 .. Len(chan') /\ c \in 0 .. Len(chan')
        /\ 1 .. Len(chan) \subseteq 1 .. Len(chan') /\ c \in 1 .. Len(chan')
    BY <1>4, <1>5 DEF c
  <2>2. users' \in [Id -> 0 .. Len(chan')]
    BY <1>1, <2>1 DEF TablesTyped
  <2>3. reg' \in [Address -> 0 .. Len(chan')]
    BY <1>1, <2>1 DEF TablesTyped
  <2>4. /\ support' \subseteq Address /\ open' \subseteq 1 .. Len(chan')
        /\ kicks' \subseteq open' \X Id
    BY <1>1, <1>3, <2>1 DEF TablesTyped
  <2>5. deletes' = deletes /\ game' = game
    BY <1>1
  <2> QED
    BY <1>5, <1>10, <2>2, <2>3, <2>4, <2>5 DEF TablesTyped
<1> QED
  BY <1>2, <1>9, <1>10, <1>11 DEF p
-----------------------------------------------------------------------------
LEMMA InitKeeps == Init => Inv
<1> SUFFICES ASSUME Init
             PROVE  Inv
  OBVIOUS
<1>1. Len(chan) = 0 /\ chan \in Seq(Address) /\ NoChannel \in 0 .. Len(chan)
  BY DEF Init, NoChannel
<1>2. TablesTyped
  BY <1>1 DEF Init, TablesTyped
<1>3. ClientsTyped
  BY DEF Init, ClientsTyped
<1>4. ThreadsTyped /\ InHand
  BY <1>2, IdleTyped DEF Init, ThreadsTyped, InHand, Thread
<1>5. Users = {}
  BY DEF Init, Users
<1>6. TablesAgree
  BY <1>5 DEF Init, TablesAgree
<1>7. GameInStep
  BY <1>5 DEF Init, GameInStep
<1> QED
  BY <1>2, <1>3, <1>4, <1>6, <1>7, TypeSplit DEF Inv

LEMMA ListenerKeeps ==
    ASSUME Inv, Listener
    PROVE  Inv'
<1>1. TablesTyped /\ ClientsTyped /\ ThreadsTyped /\ InHand
      /\ TablesAgree /\ GameInStep /\ TypeOK
  BY TypeSplit DEF Inv
<1>2. /\ Len(chan) \in Nat /\ Listening \in ListenerType
      /\ Listening.pc = "idle"
  BY <1>1, IdleTyped, LenProperties DEF TablesTyped
<1>3. ASSUME UNCHANGED <<tables, chan, game>>
      PROVE  TablesTyped' /\ TablesAgree' /\ GameInStep'
  BY <1>1, <1>3, TablesIdle
<1>4. ASSUME ClientsTyped', ThreadsTyped', InHand',
             TablesTyped', TablesAgree', GameInStep'
      PROVE  Inv'
  BY <1>4 DEF Inv, TypeOK, TablesTyped, ClientsTyped, ThreadsTyped,
              ListenerType, SenderType, Thread
<1>5. ASSUME chan' = chan, sender' = sender, dropping' = dropping,
             expelled' = expelled,
             listener' \in ListenerType,
             lock' \in [Lock -> Thread]
      PROVE  ThreadsTyped'
  BY <1>1, <1>5 DEF ThreadsTyped, ListenerType, SenderType
<1>6. ASSUME UNCHANGED <<clients, acks>>
      PROVE  ClientsTyped'
  BY <1>1, <1>6 DEF ClientsTyped, clients
<1>7. ASSUME NEW a \in Address, ReceiveRequest(a)
      PROVE  Inv'
  <2>1. UNCHANGED <<tables, chan, game, sender, dropping, clients, acks,
                    expelled>>
        /\ Enters("listener", "usr")
    BY <1>7 DEF ReceiveRequest
  <2>2. asked[a] \in Unique
    BY <1>1, <1>7 DEF ReceiveRequest, ClientsTyped
  <2>3. listener' \in ListenerType /\ listener'.id \in Unique
    <3>1. NoChannel \in 0 .. Len(chan)
      BY <1>2 DEF NoChannel
    <3>2. asked[a] \in Id
      BY <2>2, Identities
    <3> QED
      BY <1>7, <2>2, <3>1, <3>2 DEF ReceiveRequest, ListenerType
  <2>4. lock' \in [Lock -> Thread]
    BY <1>1, <2>1, EntersTyped DEF ThreadsTyped, Thread
  <2>5. InHand'
    <3>1. listener'.pc = "check"
      BY <1>7 DEF ReceiveRequest
    <3> QED
      BY <2>3, <3>1 DEF InHand
  <2> QED
    BY <1>3, <1>4, <1>5, <1>6, <2>1, <2>3, <2>4, <2>5
<1>8. ASSUME NEW a \in Address, ReceiveLeave(a)
      PROVE  Inv'
  <2>1. /\ UNCHANGED <<tables, chan, game, lock, sender, dropping, phase, drawn,
                        asked, player, acks, expelled>>
        /\ leaving' = leaving \ {a}
    BY <1>8 DEF ReceiveLeave
  <2>2. listener' \in ListenerType /\ InHand'
    <3>1. reg[a] \in 0 .. Len(chan)
      BY <1>1 DEF TablesTyped
    <3>2. CASE reg[a] = NoChannel
      <4>1. listener' = listener /\ listener.pc = "idle"
        BY <1>8, <3>2 DEF ReceiveLeave
      <4> QED
        BY <1>1, <4>1 DEF ThreadsTyped, InHand
    <3>3. CASE reg[a] # NoChannel
      <4>1. listener' = [listener EXCEPT !.pc = "leave", !.from = a,
                                         !.ch = reg[a]]
        BY <1>8, <3>3 DEF ReceiveLeave
      <4> QED
        BY <1>1, <3>1, <4>1 DEF ThreadsTyped, ListenerType, InHand
    <3> QED
      BY <3>2, <3>3
  <2>3. ClientsTyped'
    BY <1>1, <2>1 DEF ClientsTyped
  <2>4. lock' \in [Lock -> Thread]
    BY <1>1, <2>1 DEF ThreadsTyped
  <2> QED
    BY <1>3, <1>4, <1>5, <2>1, <2>2, <2>3, <2>4
<1>9. CASE EnterUsr
  <2>1. /\ UNCHANGED <<tables, chan, game, sender, dropping, clients, acks,
                    expelled>>
        /\ Enters("listener", "usr") /\ listener.pc = "again"
        /\ listener' = [listener EXCEPT !.pc = "recheck"]
    BY <1>9 DEF EnterUsr
  <2>2. listener' \in ListenerType /\ InHand'
    BY <1>1, <2>1 DEF ThreadsTyped, ListenerType, InHand
  <2>3. lock' \in [Lock -> Thread]
    BY <1>1, <2>1, EntersTyped DEF ThreadsTyped, Thread
  <2> QED
    BY <1>3, <1>4, <1>5, <1>6, <2>1, <2>2, <2>3
<1>10. CASE EnterPool
  <2>1. /\ UNCHANGED <<tables, chan, game, sender, dropping, clients, acks,
                    expelled>>
        /\ Enters("listener", "pool") /\ listener.pc \in {"check", "recheck"}
        /\ listener' = [listener EXCEPT !.pc = "create"]
        /\ FreeFrom(listener.id) # NoPlayer
    BY <1>10 DEF EnterPool, ToCreate
  <2>2. listener' \in ListenerType /\ InHand'
    <3>1. /\ listener' \in ListenerType
          /\ listener'.pc = "create" /\ listener'.id = listener.id
      BY <1>1, <2>1 DEF ThreadsTyped, ListenerType
    <3>2. Left(listener.id)'
      BY <2>1 DEF Left, FreeFrom, tables
    <3>3. \E q \in listener'.id .. listener'.id + UniqueToTry - 1 :
             users'[q] = NoChannel
      BY <3>1, <3>2 DEF Left
    <3> QED
      BY <1>1, <2>1, <3>1, <3>3 DEF InHand, Left
  <2>3. lock' \in [Lock -> Thread]
    BY <1>1, <2>1, EntersTyped DEF ThreadsTyped, Thread
  <2> QED
    BY <1>3, <1>4, <1>5, <1>6, <2>1, <2>2, <2>3
<1>11. CASE RefuseDuplicate \/ RefuseRequest
  <2>1. /\ UNCHANGED <<tables, chan, game, sender, dropping, clients, acks,
                    expelled>>
        /\ Leaves("listener") /\ listener' = Listening
    BY <1>11 DEF RefuseDuplicate, RefuseRequest
  <2>2. listener' \in ListenerType /\ InHand'
    BY <1>2, <2>1 DEF InHand
  <2>3. lock' \in [Lock -> Thread]
    BY <1>1, <2>1, LeavesTyped DEF ThreadsTyped
  <2> QED
    BY <1>3, <1>4, <1>5, <1>6, <2>1, <2>2, <2>3
<1>12. CASE KickOffOld
  <2>1. /\ UNCHANGED <<chan, game, sender, dropping, clients, acks, expelled>>
        /\ Leaves("listener") /\ listener.pc = "check"
        /\ listener' = [listener EXCEPT !.pc = "again"]
        /\ FinishDestroyPlayer(ChannelToPlayer(reg[listener.from]))
    BY <1>12 DEF KickOffOld
  <2>2. listener' \in ListenerType /\ InHand'
    BY <1>1, <2>1 DEF ThreadsTyped, ListenerType, InHand
  <2>3. lock' \in [Lock -> Thread]
    BY <1>1, <2>1, LeavesTyped DEF ThreadsTyped
  <2>4. TablesTyped' /\ TablesAgree' /\ GameInStep'
    BY <1>1, <2>1, DestroyKeeps
  <2> QED
    BY <1>4, <1>5, <1>6, <2>1, <2>2, <2>3, <2>4
<1>13. CASE CreatePlayer
  <2>1. /\ TablesTyped' /\ TablesAgree' /\ GameInStep'
        /\ FreeFrom(listener.id) \in Id
    BY <1>1, <1>13, CreateKeeps
  <2>2. /\ UNCHANGED <<sender, dropping, clients, acks, expelled>>
        /\ Leaves("listener") /\ chan' = Append(chan, listener.from)
        /\ listener' = [listener EXCEPT !.pc = "answer",
                           !.id = FreeFrom(listener.id), !.ch = Len(chan) + 1]
    BY <1>13 DEF CreatePlayer
  <2>3. Len(chan') = Len(chan) + 1
    BY <1>1, <2>2, AppendProperties DEF TablesTyped, ThreadsTyped, ListenerType
  <2>4. /\ 0 .. Len(chan) \subseteq 0 .. Len(chan')
        /\ 1 .. Len(chan) \subseteq 1 .. Len(chan')
        /\ Len(chan) + 1 \in 0 .. Len(chan')
    BY <1>2, <2>3
  <2>5. listener' \in ListenerType' /\ sender' \in SenderType' /\ InHand'
    BY <1>1, <2>1, <2>2, <2>4 DEF ThreadsTyped, ListenerType, SenderType, InHand
  <2>6. ThreadsTyped'
    BY <1>1, <2>2, <2>4, <2>5, LeavesTyped DEF ThreadsTyped
  <2> QED
    BY <1>4, <1>6, <2>1, <2>2, <2>5, <2>6
<1>14. CASE Answer
  <2>1. /\ UNCHANGED <<tables, chan, game, lock, sender, dropping, clients,
                        expelled>>
        /\ listener' = Listening /\ listener.pc = "answer"
        /\ \/ acks' = acks
           \/ /\ listener.ch \in open
              /\ acks' = [acks EXCEPT ![listener.from] = @ \cup {listener.id}]
    BY <1>14 DEF Answer
  <2>2. listener' \in ListenerType /\ InHand'
    BY <1>2, <2>1 DEF InHand
  <2>3. lock' \in [Lock -> Thread]
    BY <1>1, <2>1 DEF ThreadsTyped
  <2>4. ClientsTyped'
    <3>1. listener.from \in Address /\ listener.id \in Id
      BY <1>1, <2>1 DEF ThreadsTyped, ListenerType, InHand
    <3>2. acks' \in [Address -> SUBSET Id]
      BY <1>1, <2>1, <3>1 DEF ClientsTyped
    <3> QED
      BY <1>1, <2>1, <3>2 DEF ClientsTyped, clients
  <2> QED
    BY <1>3, <1>4, <1>5, <2>1, <2>2, <2>3, <2>4
<1>15. CASE EnterLeave
  <2>1. /\ UNCHANGED <<tables, chan, game, sender, dropping, clients, acks,
                    expelled>>
        /\ Enters("listener", "usr")
        /\ listener' = [listener EXCEPT !.pc = "leaving"]
    BY <1>15 DEF EnterLeave
  <2>2. listener' \in ListenerType /\ InHand'
    BY <1>1, <2>1 DEF ThreadsTyped, ListenerType, InHand
  <2>3. lock' \in [Lock -> Thread]
    BY <1>1, <2>1, EntersTyped DEF ThreadsTyped, Thread
  <2> QED
    BY <1>3, <1>4, <1>5, <1>6, <2>1, <2>2, <2>3
<1>16. CASE FinishLeave
  <2>1. /\ UNCHANGED <<chan, game, sender, dropping, clients, acks, expelled>>
        /\ Leaves("listener") /\ listener' = Listening
        /\ FinishDestroyPlayer(ChannelToPlayer(listener.ch))
    BY <1>16 DEF FinishLeave
  <2>2. listener' \in ListenerType /\ InHand'
    BY <1>2, <2>1 DEF InHand
  <2>3. lock' \in [Lock -> Thread]
    BY <1>1, <2>1, LeavesTyped DEF ThreadsTyped
  <2>4. TablesTyped' /\ TablesAgree' /\ GameInStep'
    BY <1>1, <2>1, DestroyKeeps
  <2> QED
    BY <1>4, <1>5, <1>6, <2>1, <2>2, <2>3, <2>4
<1> QED
  BY <1>7, <1>8, <1>9, <1>10, <1>11, <1>12, <1>13, <1>14, <1>15, <1>16
     DEF Listener

LEMMA SenderKeeps ==
    ASSUME Inv, Sender
    PROVE  Inv'
<1>1. TablesTyped /\ ClientsTyped /\ ThreadsTyped /\ InHand
      /\ TablesAgree /\ GameInStep
  BY TypeSplit DEF Inv
<1>2. Sending \in SenderType
  BY <1>1, IdleTyped
<1>3. /\ chan' = chan /\ listener' = listener /\ dropping' = dropping
      /\ UNCHANGED <<game, clients, acks, expelled>>
      /\ users' = users \/ FinishDestroyPlayer(sender.player)
  BY DEF Sender, SendKick, PostSend, EnterPoolSending, DestroyPlayerCallback,
         tables
<1>4. ClientsTyped' /\ InHand'
  <2>1. ClientsTyped'
    BY <1>1, <1>3 DEF ClientsTyped, clients
  <2>2. ASSUME users' = users
        PROVE  InHand'
    BY <1>1, <1>3, <2>2 DEF InHand, Left
  <2>3. ASSUME FinishDestroyPlayer(sender.player)
        PROVE  InHand'
    BY <1>1, <1>3, <2>3, DestroyFrees DEF InHand
  <2> QED
    BY <1>3, <2>1, <2>2, <2>3
<1>5. ASSUME sender' \in SenderType, TablesTyped', TablesAgree', GameInStep',
             lock' \in [Lock -> Thread]
      PROVE  Inv'
  <2>1. ThreadsTyped'
    BY <1>1, <1>3, <1>5 DEF ThreadsTyped, ListenerType, SenderType
  <2> QED
    BY <1>4, <1>5, <2>1
       DEF Inv, TypeOK, TablesTyped, ClientsTyped, ThreadsTyped, ListenerType,
           SenderType, Thread
<1>6. ASSUME NEW k \in kicks, SendKick(k)
      PROVE  Inv'
  <2>1. /\ kicks' = kicks \ {k} /\ Enters("sender", "peer")
        /\ sender' = [pc |-> "sent", ch |-> k[1], player |-> k[2]]
        /\ users' = users /\ support' = support /\ reg' = reg /\ open' = open
        /\ creates' = creates /\ deletes' = deletes /\ game' = game
    BY <1>6 DEF SendKick
  <2>2. k[1] \in 1 .. Len(chan) /\ k[2] \in Id
    BY <1>1 DEF TablesTyped
  <2>3. k[1] \in 0 .. Len(chan)
    <3>1. Len(chan) \in Nat
      BY <1>1, LenProperties DEF TablesTyped
    <3> QED
      BY <2>2, <3>1
  <2>4. sender' \in SenderType
    BY <2>1, <2>2, <2>3 DEF SenderType
  <2>5. TablesTyped' /\ TablesAgree' /\ GameInStep'
    BY <1>1, <1>3, <2>1 DEF TablesTyped, TablesAgree, GameInStep, Users
  <2>6. lock' \in [Lock -> Thread]
    BY <1>1, <2>1, EntersTyped DEF ThreadsTyped, Thread
  <2> QED
    BY <1>5, <2>4, <2>5, <2>6
<1>7. CASE PostSend
  <2>1. /\ UNCHANGED <<tables, chan, game>>
        /\ \/ sender' = [sender EXCEPT !.pc = "pool"] /\ lock' = lock
           \/ sender' = Sending /\ Leaves("sender")
    BY <1>7 DEF PostSend
  <2>2. TablesTyped' /\ TablesAgree' /\ GameInStep'
    BY <1>1, <2>1, TablesIdle
  <2>3. lock' \in [Lock -> Thread]
    BY <1>1, <2>1, LeavesTyped DEF ThreadsTyped
  <2>4. sender' \in SenderType
    BY <1>1, <1>2, <2>1 DEF ThreadsTyped, SenderType
  <2> QED
    BY <1>5, <2>2, <2>3, <2>4
<1>8. CASE EnterPoolSending
  <2>1. /\ UNCHANGED <<tables, chan, game>> /\ Enters("sender", "pool")
        /\ sender' = [sender EXCEPT !.pc = "usr"]
    BY <1>8 DEF EnterPoolSending
  <2>2. TablesTyped' /\ TablesAgree' /\ GameInStep'
    BY <1>1, <2>1, TablesIdle
  <2>3. lock' \in [Lock -> Thread]
    BY <1>1, <2>1, EntersTyped DEF ThreadsTyped, Thread
  <2>4. sender' \in SenderType
    BY <1>1, <2>1 DEF ThreadsTyped, SenderType
  <2> QED
    BY <1>5, <2>2, <2>3, <2>4
<1>9. CASE DestroyPlayerCallback
  <2>1. /\ UNCHANGED <<chan, game>> /\ Leaves("sender") /\ sender' = Sending
        /\ FinishDestroyPlayer(sender.player)
    BY <1>9 DEF DestroyPlayerCallback
  <2>2. TablesTyped' /\ TablesAgree' /\ GameInStep'
    BY <1>1, <2>1, DestroyKeeps
  <2>3. lock' \in [Lock -> Thread]
    BY <1>1, <2>1, LeavesTyped DEF ThreadsTyped
  <2> QED
    BY <1>2, <1>5, <2>1, <2>2, <2>3
<1> QED
  BY <1>6, <1>7, <1>8, <1>9 DEF Sender

\* The game's thread hears of players and orders kicks.
LEMMA OrderKeeps ==
    ASSUME Inv, ProcessPlayers \/ \E p \in game : KickOff(p)
    PROVE  Inv'
<1>1. TablesTyped /\ ClientsTyped /\ ThreadsTyped /\ InHand
      /\ TablesAgree /\ GameInStep
  BY TypeSplit DEF Inv
<1>2. /\ users' = users /\ support' = support /\ reg' = reg /\ open' = open
      /\ chan' = chan /\ lock' = lock /\ listener' = listener
      /\ sender' = sender /\ dropping' = dropping /\ UNCHANGED <<clients, acks>>
  BY DEF ProcessPlayers, KickOff, threads
<1>3. /\ kicks' \subseteq open' \X Id
      /\ expelled' \subseteq (1 .. Len(chan)) \X Id
  <2>1. \E ps : Terminate(ps)
    BY DEF ProcessPlayers, KickOff
  <2> QED
    BY <1>1, <1>2, <2>1, TerminateKeeps
<1>4. ClientsTyped' /\ ThreadsTyped' /\ InHand'
  BY <1>1, <1>2, <1>3
     DEF ClientsTyped, clients, ThreadsTyped, ListenerType, SenderType, InHand,
         Left
<1>5. TablesAgree' /\ Users' = Users
  BY <1>1, <1>2 DEF TablesAgree, Users
<1>6. /\ creates' \in [Id -> Nat] /\ deletes' \in [Id -> Nat]
      /\ game' \subseteq Id /\ GameInStep'
  <2>1. CASE ProcessPlayers
    <3>1. /\ game' = (game \ Deleted) \cup Created
          /\ creates' = [p \in Id |-> 0] /\ deletes' = [p \in Id |-> 0]
      BY <2>1 DEF ProcessPlayers
    <3>2. /\ creates' \in [Id -> Nat] /\ deletes' \in [Id -> Nat]
          /\ game' \subseteq Id
      BY <1>1, <3>1 DEF TablesTyped, Created, Deleted
    <3>3. ASSUME NEW p \in Id
          PROVE  p \in Users <=> p \in game'
      <4>1. /\ creates[p] \in {0, 1} /\ deletes[p] \in {0, 1}
            /\ p \in Users <=> creates[p] = 1 \/ (p \in game /\ deletes[p] = 0)
        BY <1>1 DEF GameInStep
      <4>2. p \in Created <=> creates[p] = 1
        BY <4>1 DEF Created
      <4>3. p \in Deleted <=> deletes[p] = 1
        BY <4>1 DEF Deleted
      <4> QED
        BY <3>1, <4>1, <4>2, <4>3
    <3> QED
      BY <1>5, <3>1, <3>2, <3>3 DEF GameInStep
  <2>2. CASE \E p \in game : KickOff(p)
    <3>1. creates' = creates /\ deletes' = deletes /\ game' = game
      BY <2>2 DEF KickOff
    <3> QED
      BY <1>1, <1>5, <3>1 DEF GameInStep, TablesTyped
  <2> QED
    BY <2>1, <2>2
<1>7. TablesTyped'
  BY <1>1, <1>2, <1>3, <1>6 DEF TablesTyped
<1> QED
  BY <1>4, <1>5, <1>6, <1>7
     DEF Inv, TypeOK, TablesTyped, ClientsTyped, ThreadsTyped, ListenerType,
         SenderType, Thread

\* It removes a player it has found dropped.
LEMMA DropKeeps ==
    ASSUME Inv, FinishDrop \/ \E p \in game : DropPlayer(p)
    PROVE  Inv'
<1>1. TablesTyped /\ ClientsTyped /\ ThreadsTyped /\ InHand
      /\ TablesAgree /\ GameInStep
  BY TypeSplit DEF Inv
<1>2. /\ chan' = chan /\ listener' = listener /\ sender' = sender
      /\ UNCHANGED <<game, clients, acks>>
  BY DEF FinishDrop, DropPlayer
<1>3. ClientsTyped'
  BY <1>1, <1>2 DEF ClientsTyped, clients
<1>4. ASSUME lock' \in [Lock -> Thread], dropping' \in Id \cup {NoPlayer},
             expelled' \subseteq (1 .. Len(chan)) \X Id,
             TablesTyped', TablesAgree', GameInStep', InHand'
      PROVE  Inv'
  BY <1>1, <1>2, <1>3, <1>4
     DEF Inv, TypeOK, TablesTyped, ClientsTyped, ThreadsTyped, ListenerType,
         SenderType, Thread
<1>5. ASSUME NEW p \in game, DropPlayer(p)
      PROVE  Inv'
  <2>1. /\ UNCHANGED <<tables, chan, game>> /\ p \in Users /\ dropping' = p
        /\ Enters("game", "usr") /\ expelled' = expelled \cup {<<users[p], p>>}
    BY <1>5 DEF DropPlayer
  <2>2. TablesTyped' /\ TablesAgree' /\ GameInStep'
    BY <1>1, <2>1, TablesIdle
  <2>3. lock' \in [Lock -> Thread]
    BY <1>1, <2>1, EntersTyped DEF ThreadsTyped, Thread
  <2>4. p \in Id /\ users[p] \in 1 .. Len(chan)
    <3>1. p \in Id /\ users[p] \in open
      BY <1>1, <2>1 DEF TablesAgree, Users
    <3> QED
      BY <1>1, <3>1 DEF TablesTyped
  <2>5. expelled' \subseteq (1 .. Len(chan)) \X Id
    BY <1>1, <2>1, <2>4 DEF ThreadsTyped
  <2>6. InHand'
    BY <1>1, <1>2, <2>1 DEF InHand, Left, tables
  <2> QED
    BY <1>4, <2>1, <2>2, <2>3, <2>4, <2>5, <2>6
<1>6. CASE FinishDrop
  <2>1. /\ UNCHANGED <<chan, game, expelled>> /\ dropping' = NoPlayer
        /\ FinishDestroyPlayer(dropping) /\ Leaves("game")
    BY <1>6 DEF FinishDrop
  <2>2. TablesTyped' /\ TablesAgree' /\ GameInStep'
    BY <1>1, <2>1, DestroyKeeps
  <2>3. lock' \in [Lock -> Thread]
    BY <1>1, <2>1, LeavesTyped DEF ThreadsTyped
  <2>4. InHand'
    BY <1>1, <1>2, <2>1, DestroyFrees DEF InHand
  <2> QED
    BY <1>1, <1>4, <2>1, <2>2, <2>3, <2>4 DEF ThreadsTyped
<1> QED
  BY <1>5, <1>6

LEMMA GameKeeps ==
    ASSUME Inv, Game
    PROVE  Inv'
BY OrderKeeps, DropKeeps DEF Game

LEMMA ClientKeeps ==
    ASSUME Inv, NEW a \in Address, Client(a)
    PROVE  Inv'
<1>1. TablesTyped /\ ClientsTyped /\ ThreadsTyped /\ InHand
      /\ TablesAgree /\ GameInStep
  BY TypeSplit DEF Inv
<1>2. UNCHANGED <<tables, chan, game, threads, expelled>>
  BY DEF Client, Join, Answered, Leave
<1>3. TablesTyped' /\ TablesAgree' /\ GameInStep'
  BY <1>1, <1>2, TablesIdle
<1>4. ThreadsTyped' /\ InHand'
  BY <1>1, <1>2
     DEF ThreadsTyped, ListenerType, SenderType, InHand, Left, tables, threads
<1>5. ClientsTyped'
  <2>1. CASE Join(a)
    BY <1>1, <2>1 DEF Join, ClientsTyped, Users
  <2>2. CASE Answered(a)
    BY <1>1, <2>2 DEF Answered, ClientsTyped
  <2>3. CASE Leave(a)
    BY <1>1, <2>3 DEF Leave, ClientsTyped
  <2> QED
    BY <2>1, <2>2, <2>3 DEF Client
<1> QED
  BY <1>3, <1>4, <1>5
     DEF Inv, TypeOK, TablesTyped, ClientsTyped, ThreadsTyped, ListenerType,
         SenderType, Thread

LEMMA NextKeeps == Inv /\ [Next]_vars => Inv'
<1>1. ASSUME Inv, UNCHANGED vars
      PROVE  Inv'
  BY <1>1 DEF vars, tables, threads, clients, Inv, TypeOK, InHand, Left,
              TablesAgree, GameInStep, Users
<1> QED
  BY <1>1, ListenerKeeps, SenderKeeps, GameKeeps, ClientKeeps DEF Next

\* Every piece of state keeps its shape, and messages about kicks are queued
\* in open channels only (NetTransportNet.cpp:2050-2106).
THEOREM TypeCorrect == Spec => []TypeOK
<1>1. Inv => TypeOK
  BY DEF Inv
<1> QED
  BY <1>1, InitKeeps, NextKeeps, PTL DEF Spec

\* The tables of the server, of its peer and of partial messages tell the same
\* players, whichever thread destroys them, and when
\* (NetTransportNet.cpp:2089-2106, 557-623).
THEOREM TablesAlwaysAgree == Spec => []TablesAgree
<1>1. Inv => TablesAgree
  BY DEF Inv
<1> QED
  BY <1>1, InitKeeps, NextKeeps, PTL DEF Spec

\* The game is told of every player once, and that it is gone once, in this
\* order (NetTransportNet.cpp:2107-2123, 2709-2737).
THEOREM GameAlwaysInStep == Spec => []GameInStep
<1>1. Inv => GameInStep
  BY DEF Inv
<1> QED
  BY <1>1, InitKeeps, NextKeeps, PTL DEF Spec
-----------------------------------------------------------------------------
(***************************************************************************)
(* PlayersStay.  Whose player may be removed depends on what is under way: *)
(* a kick in the queue or with the sender, a request or a leave in the     *)
(* listener's hands, the answers on their way to a client.                 *)
(***************************************************************************)
\* The identities that the requests of a client may be given.
Given(a) == UNION {u .. u + UniqueToTry - 1 : u \in drawn[a]}

\* The identity the client drew for this connection is a player of its own.
Holds(a) == asked[a] \in Users /\ chan[users[asked[a]]] = a

\* Players were asked for from their address; what leaves has not come back.
OfItsClient ==
    /\ \A p \in Users : p \in Given(chan[users[p]])
    /\ \A a \in Address : phase[a] # "out" => asked[a] # NoPlayer
    /\ \A a \in Address : asked[a] # NoPlayer => asked[a] \in drawn[a]
    /\ \A a \in leaving : phase[a] = "out"

\* A kick is about the player that still has its channel; while the sender
\* calls back, nobody else can have been given the player's identity.
KicksMeant ==
    /\ kicks \subseteq expelled
    /\ \A k \in kicks : users[k[2]] = k[1]
    /\ sender.pc # "idle" =>
          /\ lock["peer"] = "sender"
          /\ <<sender.ch, sender.player>> \in expelled
          /\ users[sender.player] \in {sender.ch, NoChannel}

Asking == listener.pc \in {"check", "again", "recheck", "create"}

Parting == listener.pc \in {"leave", "leaving"}

RequestMeant ==
    /\ Asking => listener.id \in drawn[listener.from]
    /\ listener.pc = "answer" /\ listener.ch \in open =>
          users[listener.id] = listener.ch /\ chan[listener.ch] = listener.from
    /\ Parting => chan[listener.ch] = listener.from

\* What the listener does is about an earlier connection of its client.
Stale ==
    \/ Asking /\ listener.id # asked[listener.from]
    \/ Parting /\ phase[listener.from] # "out"

\* There is nothing yet that it could take away from the present one.
StaleIsHarmless == Stale /\ Apart(listener.from) => ~Holds(listener.from)

\* Nobody ordered a kick of the client's player.
Spared(a) == \A k \in expelled : k[2] = asked[a] => chan[k[1]] # a

\* The client has taken the identity it drew, or may still take it.
Settled(a) ==
    \/ phase[a] = "joining" /\ asked[a] \in acks[a]
    \/ phase[a] = "in" /\ player[a] = asked[a]

SettledStay ==
    \A a \in Address : Settled(a) /\ Apart(a) /\ Spared(a) => Holds(a)

\* The player that the game's thread removes cannot come back meanwhile, on
\* another channel: there is one user of the users' lock.
DropMeant ==
    /\ listener.pc \in {"check", "recheck", "create"} =>
          lock["usr"] = "listener"
    /\ dropping # NoPlayer =>
          /\ lock["usr"] = "game"
          /\ \/ users[dropping] = NoChannel
             \/ <<users[dropping], dropping>> \in expelled

Meant ==
    /\ OfItsClient
    /\ KicksMeant
    /\ RequestMeant
    /\ StaleIsHarmless
    /\ SettledStay

\* What the tables say of a player.
LEMMA PlayerFacts ==
    ASSUME Inv, NEW p \in Users
    PROVE  /\ p \in Id /\ users[p] \in open /\ users[p] \in 1 .. Len(chan)
           /\ users[p] # NoChannel
           /\ chan[users[p]] \in Address /\ reg[chan[users[p]]] = users[p]
<1>1. TablesTyped /\ TablesAgree
  BY TypeSplit DEF Inv
<1>2. /\ p \in Id /\ users[p] \in open /\ users[p] # NoChannel
      /\ reg[chan[users[p]]] = users[p]
  BY <1>1 DEF TablesAgree, Users
<1>3. users[p] \in 1 .. Len(chan)
  BY <1>1, <1>2 DEF TablesTyped
<1> QED
  BY <1>1, <1>2, <1>3, ElementOfSeq DEF TablesTyped

\* Which player a channel has.
LEMMA ChannelFacts ==
    ASSUME Inv, NEW c, c # NoChannel
    PROVE  /\ ChannelToPlayer(c) \in Users => users[ChannelToPlayer(c)] = c
           /\ c \in open => ChannelToPlayer(c) \in Users
           /\ \A p \in Users : users[p] = c => ChannelToPlayer(c) = p
<1>1. TablesAgree
  BY DEF Inv
<1>2. NoPlayer \notin Users
  BY Identities DEF NoPlayer, Users
<1>3. CASE \E p \in Id : users[p] = c
  <2>1. ChannelToPlayer(c) \in Id /\ users[ChannelToPlayer(c)] = c
    BY <1>3 DEF ChannelToPlayer
  <2>2. ChannelToPlayer(c) \in Users
    BY <2>1 DEF Users
  <2> QED
    BY <1>1, <2>1, <2>2 DEF TablesAgree
<1>4. CASE ~\E p \in Id : users[p] = c
  <2>1. ChannelToPlayer(c) = NoPlayer
    BY <1>4 DEF ChannelToPlayer
  <2> QED
    BY <1>1, <1>2, <1>4, <2>1 DEF TablesAgree, Users
<1> QED
  BY <1>3, <1>4

\* Only the player that is destroyed goes, and its channel, and the kicks of it.
LEMMA DestroyLoses ==
    ASSUME Inv, NEW p, FinishDestroyPlayer(p)
    PROVE  /\ Users' = Users \ {p}
           /\ \A q \in Id \ {p} : users'[q] = users[q]
           /\ \A q \in Id : users'[q] \in {users[q], NoChannel}
           /\ kicks' \subseteq kicks
           /\ p \in Users => /\ open' = open \ {users[p]}
                             /\ \A k \in kicks' : k[1] # users[p]
           /\ p \notin Users => open' = open /\ users' = users
<1>1. users \in [Id -> 0 .. Len(chan)]
  BY DEF Inv, TypeOK
<1>2. CASE p \notin Users
  <2>1. users' = users /\ open' = open /\ kicks' = kicks
    BY <1>2 DEF FinishDestroyPlayer, tables
  <2> QED
    BY <1>2, <2>1 DEF Users
<1>3. CASE p \in Users
  <2>1. /\ users' = [users EXCEPT ![p] = NoChannel]
        /\ open' = open \ {users[p]}
        /\ kicks' = {k \in kicks : k[1] # users[p]}
    BY <1>3 DEF FinishDestroyPlayer, DeleteChannel
  <2> QED
    BY <1>1, <1>3, <2>1 DEF Users
<1> QED
  BY <1>2, <1>3

\* An identity of another connection does not lead to the one of this.
LEMMA ApartMeans ==
    ASSUME NEW a \in Address, Apart(a), asked[a] \in Unique,
           NEW u \in drawn[a], drawn[a] \subseteq Unique,
           asked[a] \in u .. u + UniqueToTry - 1
    PROVE  u = asked[a]
<1>1. u \in Nat /\ asked[a] \in Nat /\ UniqueToTry \in Nat \ {0}
  BY SessionAssumption
<1> QED
  BY <1>1 DEF Apart

LEMMA MeantInit == Init => Meant
<1> SUFFICES ASSUME Init
             PROVE  Meant
  OBVIOUS
<1>1. Users = {}
  BY DEF Init, Users
<1>2. OfItsClient
  BY <1>1 DEF Init, OfItsClient
<1>3. KicksMeant
  BY DEF Init, KicksMeant, Sending
<1>4. RequestMeant /\ StaleIsHarmless
  BY DEF Init, RequestMeant, StaleIsHarmless, Stale, Asking, Parting, Listening
<1>5. SettledStay
  BY DEF Init, SettledStay, Settled
<1> QED
  BY <1>2, <1>3, <1>4, <1>5 DEF Meant

\* A thread keeps what it holds, whatever another enters or leaves.
LEMMA HolderKept ==
    ASSUME lock \in [Lock -> Thread], NEW k \in Lock, NEW h \in Thread \ {Nobody},
           NEW t \in Thread \ {h}, lock[k] = h,
           \/ \E j : Enters(t, j)
           \/ Leaves(t)
           \/ lock' = lock
    PROVE  lock'[k] = h
<1>1. CASE \E j : Enters(t, j)
  BY <1>1 DEF Enters, Free
<1>2. CASE Leaves(t)
  BY <1>2 DEF Leaves
<1> QED
  BY <1>1, <1>2

\* The listener's own locks are no locks of the sender.
LEMMA PeerKept ==
    ASSUME lock \in [Lock -> Thread],
           lock["peer"] = "sender",
           \/ \E k : Enters("listener", k)
           \/ Leaves("listener")
           \/ lock' = lock
    PROVE  lock'["peer"] = "sender"
BY HolderKept DEF Lock, Thread, Nobody

\* A step of the listener that leaves the players alone.
LEMMA ListenerGoesOn ==
    ASSUME Inv, Meant,
           UNCHANGED <<users, kicks, open, chan, sender, phase, drawn, asked,
                       player, acks, expelled>>,
           leaving' \subseteq leaving,
           \/ \E k : Enters("listener", k)
           \/ Leaves("listener")
           \/ lock' = lock,
           RequestMeant', Stale' => Stale /\ listener'.from = listener.from
    PROVE  Meant'
<1>1. Users' = Users
  BY DEF Users
<1>2. OfItsClient'
  BY <1>1 DEF Meant, OfItsClient, Given
<1>3. KicksMeant'
  BY PeerKept DEF Meant, KicksMeant, Inv, TypeOK, Thread
<1>4. StaleIsHarmless'
  BY <1>1 DEF Meant, StaleIsHarmless, Holds, Apart
<1>5. SettledStay'
  BY <1>1 DEF Meant, SettledStay, Settled, Apart, Spared, Holds
<1> QED
  BY <1>2, <1>3, <1>4, <1>5 DEF Meant

\* A player is destroyed that no settled client holds.
LEMMA MeantDestroy ==
    ASSUME Inv, Meant, NEW p, FinishDestroyPlayer(p),
           UNCHANGED <<chan, phase, drawn, asked, player, leaving, acks, expelled>>,
           \/ sender' = sender /\ (lock["peer"] = "sender" => lock'["peer"] = "sender")
           \/ sender'.pc = "idle",
           \/ listener' = listener
           \/ listener'.pc = "idle"
           \/ Asking /\ listener' = [listener EXCEPT !.pc = "again"],
           \A a \in Address :
               Settled(a) /\ Apart(a) /\ Spared(a) => asked[a] # p
    PROVE  Meant'
<1>1. /\ Users' = Users \ {p}
      /\ \A q \in Id \ {p} : users'[q] = users[q]
      /\ \A q \in Id : users'[q] \in {users[q], NoChannel}
      /\ kicks' \subseteq kicks
      /\ p \in Users => /\ open' = open \ {users[p]}
                        /\ \A k \in kicks' : k[1] # users[p]
      /\ p \notin Users => open' = open /\ users' = users
  BY DestroyLoses
<1>2. \A q \in Users' : q \in Users /\ users'[q] = users[q]
  BY <1>1 DEF Users
<1>3. OfItsClient'
  BY <1>2 DEF Meant, OfItsClient, Given
<1>4. KicksMeant'
  <2>1. kicks' \subseteq expelled'
    BY <1>1 DEF Meant, KicksMeant
  <2>2. ASSUME NEW k \in kicks'
        PROVE  users'[k[2]] = k[1]
    <3>1. /\ k \in kicks /\ users[k[2]] = k[1] /\ k[2] \in Id
          /\ k[1] \in 1 .. Len(chan)
      BY <1>1 DEF Meant, KicksMeant, Inv, TypeOK
    <3>2. k[2] \in Users
      BY <3>1 DEF Users, NoChannel
    <3> QED
      BY <1>1, <3>1, <3>2
  <2>3. ASSUME sender'.pc # "idle"
        PROVE  /\ lock'["peer"] = "sender"
               /\ <<sender'.ch, sender'.player>> \in expelled'
               /\ users'[sender'.player] \in {sender'.ch, NoChannel}
    <3>1. /\ sender' = sender /\ lock'["peer"] = "sender"
          /\ <<sender.ch, sender.player>> \in expelled
          /\ users[sender.player] \in {sender.ch, NoChannel}
      BY <2>3 DEF Meant, KicksMeant
    <3>2. sender.player \in Id
      BY <3>1 DEF Inv, TypeOK
    <3> QED
      BY <1>1, <3>1, <3>2
  <2> QED
    BY <2>1, <2>2, <2>3 DEF KicksMeant
<1>5. RequestMeant'
  <2>1. ASSUME listener'.pc = "answer", listener'.ch \in open'
        PROVE  users'[listener'.id] = listener'.ch
               /\ chan'[listener'.ch] = listener'.from
    <3>1. listener' = listener
      BY <2>1 DEF Inv, TypeOK
    <3>2. listener.ch \in open
      BY <1>1, <2>1, <3>1
    <3>3. users[listener.id] = listener.ch /\ chan[listener.ch] = listener.from
      BY <2>1, <3>1, <3>2 DEF Meant, RequestMeant
    <3>4. listener.id \in Id
      BY <2>1, <3>1 DEF Inv, InHand
    <3>5. listener.id # p
      <4>1. listener.ch # NoChannel
        BY <3>2 DEF Inv, TypeOK, NoChannel
      <4>2. listener.id \in Users
        BY <3>3, <3>4, <4>1 DEF Users
      <4> QED
        BY <1>1, <2>1, <3>1, <3>3, <4>2
    <3> QED
      BY <1>1, <3>1, <3>3, <3>4, <3>5
  <2>2. Asking' => listener'.id \in drawn'[listener'.from]
    BY DEF Meant, RequestMeant, Asking, Inv, TypeOK
  <2>3. Parting' => chan'[listener'.ch] = listener'.from
    BY DEF Meant, RequestMeant, Parting, Inv, TypeOK
  <2> QED
    BY <2>1, <2>2, <2>3 DEF RequestMeant
<1>6. StaleIsHarmless'
  <2>1. Stale' => Stale /\ listener'.from = listener.from
    BY DEF Stale, Asking, Parting, Inv, TypeOK
  <2>2. \A a \in Address : Holds(a)' => Holds(a)
    BY <1>2 DEF Holds
  <2>3. listener.from \in Address
    BY DEF Inv, TypeOK
  <2> QED
    BY <2>1, <2>2, <2>3 DEF Meant, StaleIsHarmless, Apart, Holds
<1>7. SettledStay'
  <2> SUFFICES ASSUME NEW a \in Address, Settled(a)', Apart(a)', Spared(a)'
               PROVE  Holds(a)'
    BY DEF SettledStay
  <2>1. Settled(a) /\ Apart(a) /\ Spared(a)
    BY DEF Settled, Apart, Spared
  <2>2. Holds(a) /\ asked[a] # p
    BY <2>1 DEF Meant, SettledStay
  <2> QED
    BY <1>1, <1>2, <2>2 DEF Holds
<1> QED
  BY <1>3, <1>4, <1>5, <1>6, <1>7 DEF Meant

LEMMA MeantCreate ==
    ASSUME Inv, Meant, CreatePlayer
    PROVE  Meant'
<1> DEFINE p == FreeFrom(listener.id)
           c == Len(chan) + 1
           a == listener.from
<1>1. /\ users' = [users EXCEPT ![p] = c]
      /\ chan' = Append(chan, a)
      /\ open' = open \cup {c}
      /\ listener' = [listener EXCEPT !.pc = "answer", !.id = p, !.ch = c]
      /\ kicks' = kicks
      /\ UNCHANGED <<sender, phase, drawn, asked, player, leaving, acks, expelled>>
      /\ lock["peer"] = Nobody /\ listener.pc = "create"
  BY DEF CreatePlayer, Free, clients
<1>2. p \in Id /\ users[p] = NoChannel
      /\ p \in listener.id .. listener.id + UniqueToTry - 1
  <2>1. listener.id \in Unique /\ Left(listener.id)
    BY DEF Inv, InHand, CreatePlayer
  <2> QED
    BY <2>1, FreeFromIsFree
<1>3. a \in Address /\ chan \in Seq(Address) /\ users \in [Id -> 0 .. Len(chan)]
  BY DEF Inv, TypeOK
<1>4. /\ Len(chan) \in Nat /\ c # NoChannel /\ chan'[c] = a
      /\ \A d \in 1 .. Len(chan) : chan'[d] = chan[d]
  BY <1>1, <1>3, AppendProperties, LenProperties DEF NoChannel
<1>5. listener.id \in drawn[a]
  BY <1>1 DEF Meant, RequestMeant, Asking
<1> HIDE DEF p, c, a
<1>6. /\ p \notin Users /\ Users' = Users \cup {p} /\ users'[p] = c
      /\ \A q \in Id \ {p} : users'[q] = users[q]
  BY <1>1, <1>2, <1>3, <1>4 DEF Users
<1>7. \A q \in Users : q \in Id /\ users'[q] = users[q]
                       /\ chan'[users'[q]] = chan[users[q]]
  BY <1>4, <1>6, PlayerFacts
<1>8. OfItsClient'
  <2>1. \A q \in Users' : q \in Given(chan'[users'[q]])
    BY <1>2, <1>4, <1>5, <1>6, <1>7 DEF Meant, OfItsClient, Given
  <2>2. \A b \in Address : Given(b)' = Given(b)
    BY <1>1 DEF Given
  <2>3. \A q \in Users' : chan'[users'[q]] \in Address
    BY <1>3, <1>4, <1>6, <1>7, PlayerFacts
  <2> QED
    BY <1>1, <2>1, <2>2, <2>3 DEF Meant, OfItsClient, Given
<1>9. KicksMeant'
  <2>1. ASSUME NEW k \in kicks
        PROVE  users'[k[2]] = k[1]
    <3>1. users[k[2]] = k[1] /\ k[2] \in Id /\ k[1] \in 1 .. Len(chan)
      BY DEF Meant, KicksMeant, Inv, TypeOK
    <3>2. k[2] # p
      BY <1>2, <1>4, <3>1 DEF NoChannel
    <3> QED
      BY <1>6, <3>1, <3>2
  <2>2. sender.pc = "idle"
    BY <1>1 DEF Meant, KicksMeant, Nobody
  <2> QED
    BY <1>1, <2>1, <2>2 DEF Meant, KicksMeant
<1>10. /\ listener'.pc = "answer" /\ listener'.id = p /\ listener'.ch = c
       /\ listener'.from = a
  BY <1>1 DEF Inv, TypeOK, a
<1>11. RequestMeant' /\ StaleIsHarmless'
  BY <1>4, <1>6, <1>10
     DEF RequestMeant, StaleIsHarmless, Stale, Asking, Parting
<1>12. SettledStay'
  <2> SUFFICES ASSUME NEW b \in Address, Settled(b)', Apart(b)', Spared(b)'
               PROVE  Holds(b)'
    BY DEF SettledStay
  <2>1. Settled(b) /\ Apart(b)
    BY <1>1 DEF Settled, Apart
  <2>2. Spared(b)
    <3>1. \A k \in expelled : k[1] \in 1 .. Len(chan)
      BY DEF Inv, TypeOK
    <3> QED
      BY <1>1, <1>4, <3>1 DEF Spared
  <2>3. Holds(b)
    BY <2>1, <2>2 DEF Meant, SettledStay
  <2> QED
    BY <1>1, <1>6, <1>7, <2>3 DEF Holds
<1> QED
  BY <1>8, <1>9, <1>11, <1>12 DEF Meant

\* Settled clients hold players, each on its own channel.
LEMMA SettledHold ==
    ASSUME Inv, Meant, NEW a \in Address, Settled(a), Apart(a), Spared(a)
    PROVE  Holds(a) /\ phase[a] # "out"
BY DEF Meant, SettledStay, Settled

LEMMA MeantListener ==
    ASSUME Inv, Meant, Listener
    PROVE  Meant'
<1>1. /\ lock \in [Lock -> Thread]
      /\ listener.from \in Address
      /\ Len(chan) \in Nat /\ reg \in [Address -> 0 .. Len(chan)]
  BY LenProperties DEF Inv, TypeOK, Thread
<1>2. ASSUME NEW a \in Address, ReceiveRequest(a)
      PROVE  Meant'
  <2>1. /\ UNCHANGED <<users, kicks, open, chan, sender, phase, drawn, asked,
                       player, leaving, acks, expelled>>
        /\ \E k : Enters("listener", k)
        /\ listener'.pc = "check" /\ listener'.id = asked[a]
        /\ listener'.from = a /\ asked[a] # NoPlayer
    BY <1>2 DEF ReceiveRequest, tables, clients
  <2>2. RequestMeant' /\ ~Stale'
    BY <2>1 DEF Meant, OfItsClient, RequestMeant, Stale, Asking, Parting
  <2> QED
    BY <2>1, <2>2, ListenerGoesOn
<1>3. ASSUME NEW a \in Address, ReceiveLeave(a)
      PROVE  Meant'
  <2>1. /\ UNCHANGED <<users, kicks, open, chan, sender, phase, drawn, asked,
                       player, acks, expelled, lock>>
        /\ leaving' \subseteq leaving /\ a \in leaving
    BY <1>3 DEF ReceiveLeave, tables
  <2>2. CASE reg[a] = NoChannel
    <3>1. listener' = listener
      BY <1>3, <2>2 DEF ReceiveLeave
    <3>2. RequestMeant' /\ (Stale' => Stale)
      BY <2>1, <3>1 DEF Meant, RequestMeant, Stale, Asking, Parting
    <3> QED
      BY <2>1, <3>1, <3>2, ListenerGoesOn
  <2>3. CASE reg[a] # NoChannel
    <3>1. /\ listener'.pc = "leave" /\ listener'.from = a
          /\ listener'.ch = reg[a]
      BY <1>3, <2>3 DEF ReceiveLeave, Inv, TypeOK
    <3>2. chan[reg[a]] = a
      BY <2>3 DEF Inv, TablesAgree
    <3>3. RequestMeant' /\ ~Stale'
      BY <2>1, <3>1, <3>2
         DEF Meant, OfItsClient, RequestMeant, Stale, Asking, Parting
    <3> QED
      BY <2>1, <3>3, ListenerGoesOn
  <2> QED
    BY <2>2, <2>3
<1>4. CASE EnterUsr \/ EnterPool \/ EnterLeave
  <2>1. /\ UNCHANGED <<users, kicks, open, chan, sender, phase, drawn, asked,
                       player, leaving, acks, expelled>>
        /\ \E k : Enters("listener", k)
    BY <1>4 DEF EnterUsr, EnterPool, EnterLeave, tables, clients
  <2>2. /\ Asking' => Asking
        /\ Parting' => Parting
        /\ listener'.pc # "answer"
        /\ listener'.from = listener.from /\ listener'.id = listener.id
        /\ listener'.ch = listener.ch
    BY <1>4 DEF EnterUsr, EnterPool, ToCreate, EnterLeave, Asking, Parting, Inv,
                TypeOK
  <2>3. RequestMeant' /\ (Stale' => Stale)
    BY <2>1, <2>2 DEF Meant, RequestMeant, Stale
  <2> QED
    BY <2>1, <2>2, <2>3, ListenerGoesOn
<1>5. CASE RefuseDuplicate \/ RefuseRequest
  <2>1. /\ UNCHANGED <<users, kicks, open, chan, sender, phase, drawn, asked,
                       player, leaving, acks, expelled>>
        /\ Leaves("listener") /\ listener'.pc = "idle"
    BY <1>5 DEF RefuseDuplicate, RefuseRequest, tables, clients, Listening
  <2>2. RequestMeant' /\ ~Stale'
    BY <2>1 DEF RequestMeant, Stale, Asking, Parting
  <2> QED
    BY <2>1, <2>2, ListenerGoesOn
<1>6. CASE KickOffOld
  <2> DEFINE r == reg[listener.from]
             p == ChannelToPlayer(r)
  <2>1. /\ FinishDestroyPlayer(p)
        /\ UNCHANGED <<chan, phase, drawn, asked, player, leaving, acks,
                       expelled, sender>>
        /\ Leaves("listener") /\ listener.pc = "check"
        /\ listener' = [listener EXCEPT !.pc = "again"]
        /\ r # NoChannel /\ ~Duplicate(listener.id, r)
    BY <1>6 DEF KickOffOld, clients
  <2>2. p \in Users /\ users[p] = r /\ chan[r] = listener.from
    BY <1>1, <2>1, ChannelFacts DEF Inv, TablesAgree
  <2> HIDE DEF p, r
  <2>3. ASSUME NEW a \in Address, Settled(a), Apart(a), Spared(a), asked[a] = p
        PROVE  FALSE
    <3>1. Holds(a) /\ a = listener.from
      BY <2>2, <2>3, SettledHold DEF Holds
    <3>2. listener.id = asked[a]
      BY <2>1, <2>3, <3>1
         DEF Meant, StaleIsHarmless, Stale, Asking
    <3>3. p \in (p - UniqueToTry + 1 .. p) \cap Id
      <4>1. p \in Id /\ p \in Nat
        BY <2>2, Identities DEF Users
      <4> QED
        BY <4>1, SessionAssumption
    <3> QED
      BY <2>1, <2>2, <2>3, <3>2, <3>3 DEF Duplicate
  <2>4. lock["peer"] = "sender" => lock'["peer"] = "sender"
    BY <1>1, <2>1, PeerKept
  <2>5. Asking
    BY <2>1 DEF Asking
  <2> QED
    BY <2>1, <2>3, <2>4, <2>5, MeantDestroy
<1>7. CASE CreatePlayer
  BY <1>7, MeantCreate
<1>8. CASE Answer
  <2>1. /\ UNCHANGED <<users, open, kicks, chan, lock, sender, phase, drawn,
                       asked, player, leaving, expelled>>
        /\ listener'.pc = "idle" /\ listener.pc = "answer"
        /\ \/ acks' = acks
           \/ /\ listener.ch \in open
              /\ acks' = [acks EXCEPT ![listener.from] = @ \cup {listener.id}]
    BY <1>8 DEF Answer, tables, clients, Listening
  <2>2. Users' = Users
    BY <2>1 DEF Users
  <2>3. OfItsClient' /\ KicksMeant' /\ RequestMeant' /\ StaleIsHarmless'
    BY <2>1, <2>2
       DEF Meant, OfItsClient, Given, KicksMeant, RequestMeant,
           StaleIsHarmless, Stale, Asking, Parting
  <2>4. ASSUME NEW a \in Address, Settled(a)', Apart(a)', Spared(a)'
        PROVE  Holds(a)
    <3>1. Apart(a) /\ Spared(a)
      BY <2>1, <2>4 DEF Apart, Spared
    <3>2. CASE Settled(a)
      BY <3>1, <3>2, SettledHold
    <3>3. CASE ~Settled(a)
      <4>1. asked[a] \in acks'[a] /\ asked[a] \notin acks[a]
        BY <2>1, <2>4, <3>3 DEF Settled
      <4>2. /\ listener.ch \in open /\ asked[a] = listener.id
            /\ a = listener.from
        BY <1>1, <2>1, <4>1 DEF Inv, TypeOK
      <4>3. users[asked[a]] = listener.ch /\ chan[listener.ch] = a
        BY <2>1, <4>2 DEF Meant, RequestMeant
      <4>4. asked[a] \in Id /\ listener.ch # NoChannel
        BY <2>1, <4>2 DEF Inv, InHand, TypeOK, NoChannel
      <4> QED
        BY <4>3, <4>4 DEF Holds, Users
    <3> QED
      BY <3>2, <3>3
  <2>5. SettledStay'
    BY <2>1, <2>2, <2>4 DEF SettledStay, Holds
  <2> QED
    BY <2>3, <2>5 DEF Meant
<1>9. CASE FinishLeave
  <2> DEFINE p == ChannelToPlayer(listener.ch)
  <2>1. /\ FinishDestroyPlayer(p)
        /\ UNCHANGED <<chan, phase, drawn, asked, player, leaving, acks,
                       expelled, sender>>
        /\ Leaves("listener") /\ listener.pc = "leaving"
        /\ listener'.pc = "idle"
    BY <1>9 DEF FinishLeave, clients, Listening
  <2>2. p \in Users => users[p] = listener.ch
    <3>1. CASE listener.ch = NoChannel
      <4>1. p \in Id \cup {NoPlayer} => p \notin Users
        BY <3>1, Identities DEF ChannelToPlayer, Users, NoPlayer
      <4> QED
        BY <4>1, ChannelToPlayerTyped
    <3>2. CASE listener.ch # NoChannel
      BY <3>2, ChannelFacts
    <3> QED
      BY <3>1, <3>2
  <2> HIDE DEF p
  <2>3. ASSUME NEW a \in Address, Settled(a), Apart(a), Spared(a), asked[a] = p
        PROVE  FALSE
    <3>1. Holds(a) /\ phase[a] # "out"
      BY <2>3, SettledHold
    <3>2. chan[listener.ch] = listener.from
      BY <2>1 DEF Meant, RequestMeant, Parting
    <3>3. a = listener.from
      BY <2>2, <2>3, <3>1, <3>2 DEF Holds
    <3> QED
      BY <2>1, <2>3, <3>1, <3>3 DEF Meant, StaleIsHarmless, Stale, Parting
  <2>4. lock["peer"] = "sender" => lock'["peer"] = "sender"
    BY <1>1, <2>1, PeerKept
  <2> QED
    BY <2>1, <2>3, <2>4, MeantDestroy
<1> QED
  BY <1>2, <1>3, <1>4, <1>5, <1>6, <1>7, <1>8, <1>9 DEF Listener

LEMMA MeantSender ==
    ASSUME Inv, Meant, Sender
    PROVE  Meant'
<1>1. /\ UNCHANGED <<chan, phase, drawn, asked, player, leaving, acks, expelled,
                     listener>>
  BY DEF Sender, SendKick, PostSend, EnterPoolSending, DestroyPlayerCallback,
         clients
<1>2. ASSUME UNCHANGED <<users, open>>, KicksMeant'
      PROVE  Meant'
  <2>1. Users' = Users
    BY <1>2 DEF Users
  <2> QED
    BY <1>1, <1>2, <2>1
       DEF Meant, OfItsClient, Given, RequestMeant, StaleIsHarmless, Stale,
           Asking, Parting, SettledStay, Settled, Apart, Spared, Holds
<1>3. lock \in [Lock -> Thread]
  BY DEF Inv, TypeOK, Thread
<1>4. ASSUME NEW k \in kicks, SendKick(k)
      PROVE  Meant'
  <2>1. /\ UNCHANGED <<users, open>> /\ kicks' \subseteq kicks
        /\ Enters("sender", "peer")
        /\ sender' = [pc |-> "sent", ch |-> k[1], player |-> k[2]]
    BY <1>4 DEF SendKick
  <2>2. lock'["peer"] = "sender"
    BY <1>3, <2>1 DEF Enters, Lock
  <2>3. k = <<k[1], k[2]>>
    BY DEF Inv, TypeOK
  <2>4. KicksMeant'
    BY <1>1, <2>1, <2>2, <2>3 DEF Meant, KicksMeant
  <2> QED
    BY <1>2, <2>1, <2>4
<1>5. CASE PostSend \/ EnterPoolSending
  <2>1. UNCHANGED <<users, open, kicks>>
    BY <1>5 DEF PostSend, EnterPoolSending, tables
  <2>2. sender'.pc = "idle" \/ sender.pc # "idle"
    BY <1>5 DEF PostSend, EnterPoolSending
  <2>3. \/ sender'.pc = "idle"
        \/ /\ sender'.ch = sender.ch /\ sender'.player = sender.player
           /\ lock["peer"] = "sender" => lock'["peer"] = "sender"
    <3>1. CASE PostSend
      BY <1>3, <3>1 DEF PostSend, Sending, Inv, TypeOK
    <3>2. CASE EnterPoolSending
      BY <1>3, <3>2 DEF EnterPoolSending, Enters, Free, Nobody, Inv, TypeOK
    <3> QED
      BY <1>5, <3>1, <3>2
  <2>4. KicksMeant'
    BY <1>1, <2>1, <2>2, <2>3 DEF Meant, KicksMeant
  <2> QED
    BY <1>2, <2>1, <2>4
<1>6. CASE DestroyPlayerCallback
  <2> DEFINE p == sender.player
  <2>1. /\ FinishDestroyPlayer(p) /\ sender.pc = "usr"
        /\ sender'.pc = "idle"
    BY <1>6 DEF DestroyPlayerCallback, Sending
  <2>2. /\ <<sender.ch, p>> \in expelled
        /\ users[p] \in {sender.ch, NoChannel}
    BY <2>1 DEF Meant, KicksMeant
  <2> HIDE DEF p
  <2>3. ASSUME NEW a \in Address, Settled(a), Apart(a), Spared(a), asked[a] = p
        PROVE  FALSE
    <3>1. Holds(a)
      BY <2>3, SettledHold
    <3>2. users[p] = sender.ch /\ chan[sender.ch] = a
      BY <2>2, <2>3, <3>1 DEF Holds, Users
    <3> QED
      BY <2>2, <2>3, <3>2 DEF Spared
  <2> QED
    BY <1>1, <2>1, <2>3, MeantDestroy
<1> QED
  BY <1>4, <1>5, <1>6 DEF Sender

LEMMA MeantOrder ==
    ASSUME Inv, Meant, ProcessPlayers \/ \E p \in game : KickOff(p)
    PROVE  Meant'
<1>1. /\ UNCHANGED <<users, open, chan, phase, drawn, asked, player, leaving,
                     acks, lock, listener, sender>>
      /\ \E ps : Terminate(ps)
  BY DEF ProcessPlayers, KickOff, clients, threads
<1>2. PICK ps : Terminate(ps)
  BY <1>1
<1> DEFINE new == {<<users[p], p>> : p \in ps \cap Users}
<1>3. kicks' = kicks \cup new /\ expelled' = expelled \cup new
  BY <1>2 DEF Terminate
<1>4. \A k \in new : users[k[2]] = k[1]
  OBVIOUS
<1> HIDE DEF new
<1>5. Users' = Users
  BY <1>1 DEF Users
<1>6. KicksMeant'
  BY <1>1, <1>3, <1>4 DEF Meant, KicksMeant
<1>7. OfItsClient' /\ RequestMeant' /\ StaleIsHarmless'
  BY <1>1, <1>5
     DEF Meant, OfItsClient, Given, RequestMeant, StaleIsHarmless, Stale,
         Asking, Parting, Apart, Holds
<1>8. SettledStay'
  BY <1>1, <1>3, <1>5
     DEF Meant, SettledStay, Settled, Apart, Spared, Holds
<1> QED
  BY <1>6, <1>7, <1>8 DEF Meant

LEMMA MeantDrop ==
    ASSUME Inv, Meant, DropMeant, FinishDrop \/ \E p \in game : DropPlayer(p)
    PROVE  Meant'
<1>1. lock \in [Lock -> Thread]
  BY DEF Inv, TypeOK, Thread
<1>2. ASSUME NEW p \in game, DropPlayer(p)
      PROVE  Meant'
  <2>1. /\ UNCHANGED <<users, open, kicks, chan, phase, drawn, asked, player,
                       leaving, acks, listener, sender>>
        /\ Enters("game", "usr") /\ expelled \subseteq expelled'
    BY <1>2 DEF DropPlayer, tables, clients
  <2>2. Users' = Users
    BY <2>1 DEF Users
  <2>3. lock["peer"] = "sender" => lock'["peer"] = "sender"
    BY <1>1, <2>1, HolderKept DEF Lock, Thread, Nobody
  <2>4. OfItsClient' /\ RequestMeant' /\ StaleIsHarmless'
    BY <2>1, <2>2
       DEF Meant, OfItsClient, Given, RequestMeant, StaleIsHarmless, Stale,
           Asking, Parting, Apart, Holds
  <2>5. KicksMeant'
    BY <2>1, <2>3 DEF Meant, KicksMeant
  <2>6. SettledStay'
    BY <2>1, <2>2 DEF Meant, SettledStay, Settled, Apart, Spared, Holds
  <2> QED
    BY <2>4, <2>5, <2>6 DEF Meant
<1>3. CASE FinishDrop
  <2>1. /\ FinishDestroyPlayer(dropping) /\ dropping # NoPlayer
        /\ UNCHANGED <<chan, phase, drawn, asked, player, leaving, acks,
                       expelled, listener, sender>>
        /\ Leaves("game")
    BY <1>3 DEF FinishDrop, clients
  <2>2. ASSUME NEW a \in Address, Settled(a), Apart(a), Spared(a),
               asked[a] = dropping
        PROVE  FALSE
    <3>1. Holds(a)
      BY <2>2, SettledHold
    <3>2. users[dropping] # NoChannel /\ chan[users[dropping]] = a
      BY <2>2, <3>1 DEF Holds, Users
    <3>3. <<users[dropping], dropping>> \in expelled
      BY <2>1, <3>2 DEF DropMeant
    <3> QED
      BY <2>2, <3>2, <3>3 DEF Spared
  <2>3. lock["peer"] = "sender" => lock'["peer"] = "sender"
    BY <1>1, <2>1, HolderKept DEF Lock, Thread, Nobody
  <2> QED
    BY <2>1, <2>2, <2>3, MeantDestroy
<1> QED
  BY <1>2, <1>3

LEMMA MeantGame ==
    ASSUME Inv, Meant, DropMeant, Game
    PROVE  Meant'
BY MeantOrder, MeantDrop DEF Game

\* Destroying any player leaves the one that is being removed its channel, or
\* none.
LEMMA DropStays ==
    ASSUME Inv, DropMeant, dropping # NoPlayer, expelled \subseteq expelled',
           users' = users \/ \E p : FinishDestroyPlayer(p)
    PROVE  \/ users'[dropping] = NoChannel
           \/ <<users'[dropping], dropping>> \in expelled'
<1>1. dropping \in Id
  BY DEF Inv, TypeOK
<1>2. CASE users' = users
  BY <1>2 DEF DropMeant
<1>3. ASSUME NEW p, FinishDestroyPlayer(p)
      PROVE  users'[dropping] \in {users[dropping], NoChannel}
  BY <1>1, <1>3, DestroyLoses
<1> QED
  BY <1>2, <1>3 DEF DropMeant

LEMMA DropListener ==
    ASSUME Inv, DropMeant, Listener
    PROVE  DropMeant'
<1>1. lock \in [Lock -> Thread]
  BY DEF Inv, TypeOK, Thread
<1>2. dropping' = dropping /\ expelled' = expelled
  BY DEF Listener, ReceiveRequest, ReceiveLeave, EnterUsr, EnterPool,
         RefuseDuplicate, RefuseRequest, KickOffOld, CreatePlayer, Answer,
         EnterLeave, FinishLeave
<1>3. \/ \E k : Enters("listener", k)
      \/ Leaves("listener")
      \/ lock' = lock
  BY DEF Listener, ReceiveRequest, ReceiveLeave, EnterUsr, EnterPool,
         RefuseDuplicate, RefuseRequest, KickOffOld, CreatePlayer, Answer,
         EnterLeave, FinishLeave
<1>4. lock["usr"] = "game" => lock'["usr"] = "game"
  BY <1>1, <1>3, HolderKept DEF Lock, Thread, Nobody
<1>5. ASSUME listener'.pc \in {"check", "recheck", "create"}
      PROVE  lock'["usr"] = "listener"
  <2>1. CASE \E a \in Address : ReceiveRequest(a)
    BY <1>1, <2>1 DEF ReceiveRequest, Enters, Lock
  <2>2. CASE EnterUsr
    BY <1>1, <2>2 DEF EnterUsr, Enters, Lock
  <2>3. CASE EnterPool
    BY <1>1, <2>3 DEF EnterPool, ToCreate, Enters, Lock, DropMeant
  <2>4. CASE \E a \in Address : ReceiveLeave(a)
    BY <1>5, <2>4 DEF ReceiveLeave, Inv, TypeOK
  <2>5. CASE RefuseDuplicate \/ RefuseRequest \/ Answer \/ FinishLeave
    BY <1>5, <2>5
       DEF RefuseDuplicate, RefuseRequest, Answer, FinishLeave, Listening
  <2>6. CASE KickOffOld \/ CreatePlayer \/ EnterLeave
    <3>1. listener'.pc \in {"again", "answer", "leaving"}
      BY <2>6 DEF KickOffOld, CreatePlayer, EnterLeave, Inv, TypeOK
    <3> QED
      BY <1>5, <3>1
  <2> QED
    BY <2>1, <2>2, <2>3, <2>4, <2>5, <2>6 DEF Listener
<1>6. ASSUME dropping # NoPlayer
      PROVE  users' = users \/ \E p : FinishDestroyPlayer(p)
  <2>1. ~CreatePlayer
    BY <1>6 DEF CreatePlayer, DropMeant
  <2> QED
    BY <2>1 DEF Listener, ReceiveRequest, ReceiveLeave, EnterUsr, EnterPool,
                RefuseDuplicate, RefuseRequest, KickOffOld, Answer, EnterLeave,
                FinishLeave, tables
<1> QED
  BY <1>2, <1>4, <1>5, <1>6, DropStays DEF DropMeant

LEMMA DropSender ==
    ASSUME Inv, DropMeant, Sender
    PROVE  DropMeant'
<1>1. lock \in [Lock -> Thread]
  BY DEF Inv, TypeOK, Thread
<1>2. UNCHANGED <<dropping, expelled, listener>>
      /\ (users' = users \/ \E p : FinishDestroyPlayer(p))
  BY DEF Sender, SendKick, PostSend, EnterPoolSending, DestroyPlayerCallback,
         tables
<1>3. \/ \E k : Enters("sender", k)
      \/ Leaves("sender")
      \/ lock' = lock
  BY DEF Sender, SendKick, PostSend, EnterPoolSending, DestroyPlayerCallback
<1>4. /\ lock["usr"] = "game" => lock'["usr"] = "game"
      /\ lock["usr"] = "listener" => lock'["usr"] = "listener"
  BY <1>1, <1>3, HolderKept DEF Lock, Thread, Nobody
<1> QED
  BY <1>2, <1>4, DropStays DEF DropMeant

LEMMA DropGame ==
    ASSUME Inv, DropMeant, Game
    PROVE  DropMeant'
<1>1. lock \in [Lock -> Thread]
  BY DEF Inv, TypeOK, Thread
<1>2. CASE ProcessPlayers \/ \E p \in game : KickOff(p)
  BY <1>2 DEF ProcessPlayers, KickOff, Terminate, threads, DropMeant
<1>3. ASSUME NEW p \in game, DropPlayer(p)
      PROVE  DropMeant'
  <2>1. lock["usr"] = Nobody /\ lock'["usr"] = "game" /\ listener' = listener
    BY <1>1, <1>3 DEF DropPlayer, Enters, Free, Lock
  <2>2. users' = users /\ dropping' = p
        /\ expelled' = expelled \cup {<<users[p], p>>}
    BY <1>3 DEF DropPlayer, tables
  <2> QED
    BY <2>1, <2>2 DEF DropMeant, Nobody
<1>4. CASE FinishDrop
  <2>1. lock["usr"] = "listener" => lock'["usr"] = "listener"
    BY <1>1, <1>4, HolderKept DEF FinishDrop, Lock, Thread, Nobody
  <2> QED
    BY <1>4, <2>1 DEF FinishDrop, DropMeant
<1> QED
  BY <1>2, <1>3, <1>4 DEF Game

LEMMA DropNext == Inv /\ DropMeant /\ [Next]_vars => DropMeant'
<1>1. ASSUME NEW a \in Address, Client(a)
      PROVE  UNCHANGED <<tables, threads, expelled>>
  BY <1>1 DEF Client, Join, Answered, Leave
<1>2. ASSUME DropMeant, UNCHANGED <<tables, threads, expelled>>
      PROVE  DropMeant'
  BY <1>2 DEF DropMeant, tables, threads
<1> QED
  BY <1>1, <1>2, DropListener, DropSender, DropGame DEF Next, vars

\* A client that joins has no player of the identity it draws yet.
LEMMA JoinIsFresh ==
    ASSUME Inv, Meant, NEW a \in Address, Join(a), Apart(a)'
    PROVE  \A p \in Users : chan[users[p]] = a => p # asked'[a]
<1>1. PICK u \in Unique \ drawn[a] :
         /\ drawn' = [drawn EXCEPT ![a] = @ \cup {u}]
         /\ asked' = [asked EXCEPT ![a] = u]
  BY DEF Join
<1>2. asked'[a] = u /\ drawn'[a] = drawn[a] \cup {u} /\ drawn[a] \subseteq Unique
  BY <1>1 DEF Inv, TypeOK
<1>3. ASSUME NEW p \in Users, chan[users[p]] = a, p = u
      PROVE  FALSE
  <2>1. PICK v \in drawn[a] : p \in v .. v + UniqueToTry - 1
    BY <1>3 DEF Meant, OfItsClient, Given
  <2>2. v - u >= UniqueToTry \/ u - v >= UniqueToTry
    BY <1>1, <1>2 DEF Apart
  <2>3. v \in Nat /\ u \in Nat /\ UniqueToTry \in Nat
    BY <1>2, SessionAssumption
  <2> QED
    BY <1>3, <2>1, <2>2, <2>3
<1> QED
  BY <1>2, <1>3

LEMMA MeantClient ==
    ASSUME Inv, Meant, NEW a \in Address, Client(a)
    PROVE  Meant'
<1>1. /\ UNCHANGED <<users, open, kicks, chan, lock, listener, sender, expelled>>
  BY DEF Client, Join, Answered, Leave, tables, threads
<1>2. Users' = Users
  BY <1>1 DEF Users
<1>3. KicksMeant'
  BY <1>1 DEF Meant, KicksMeant
<1>4. /\ drawn \in [Address -> SUBSET Unique] /\ leaving \subseteq Address
      /\ asked \in [Address -> Unique \cup {NoPlayer}]
      /\ phase \in [Address -> {"out", "joining", "in"}]
      /\ player \in [Address -> Id \cup {NoPlayer}]
      /\ acks \in [Address -> SUBSET Id] /\ listener.from \in Address
  BY DEF Inv, TypeOK
<1>5. CASE Join(a)
  <2>1. PICK u \in Unique \ drawn[a] :
           /\ drawn' = [drawn EXCEPT ![a] = @ \cup {u}]
           /\ asked' = [asked EXCEPT ![a] = u]
    BY <1>5 DEF Join
  <2>2. /\ phase' = [phase EXCEPT ![a] = "joining"]
        /\ leaving' = leaving \ {a}
        /\ acks' = [acks EXCEPT ![a] = {p \in Users : users[p] = reg[a]}]
        /\ player' = player
    BY <1>5 DEF Join
  <2>3. u # NoPlayer
    BY SessionAssumption DEF NoPlayer
  <2>4. \A p \in Users : chan[users[p]] \in Address
    BY PlayerFacts
  <2>5. OfItsClient'
    <3>1. ASSUME NEW p \in Users
          PROVE  \E v \in drawn'[chan[users[p]]] : p \in v .. v + UniqueToTry - 1
      <4>1. PICK v \in drawn[chan[users[p]]] : p \in v .. v + UniqueToTry - 1
        BY DEF Meant, OfItsClient, Given
      <4>2. v \in drawn'[chan[users[p]]]
        BY <1>4, <2>1, <2>4, <4>1
      <4> QED
        BY <4>1, <4>2
    <3>2. /\ \A b \in Address : phase'[b] # "out" => asked'[b] # NoPlayer
          /\ \A b \in Address : asked'[b] # NoPlayer => asked'[b] \in drawn'[b]
          /\ \A b \in leaving' : phase'[b] = "out"
      BY <1>4, <2>1, <2>2, <2>3 DEF Meant, OfItsClient
    <3> QED
      BY <1>1, <1>2, <3>1, <3>2 DEF OfItsClient, Given
  <2>6. RequestMeant'
    BY <1>1, <1>4, <2>1 DEF Meant, RequestMeant, Asking, Parting
  <2>7. Apart(a)' => ~Holds(a)'
    BY <1>1, <1>2, <1>5, JoinIsFresh DEF Holds
  <2>8. \A b \in Address \ {a} :
           /\ (Apart(b)' => Apart(b)) /\ (Holds(b)' <=> Holds(b))
           /\ (Settled(b)' => Settled(b)) /\ (Spared(b)' => Spared(b))
    BY <1>1, <1>2, <1>4, <2>1, <2>2 DEF Apart, Holds, Settled, Spared
  <2>9. StaleIsHarmless'
    <3>1. CASE listener.from = a
      BY <1>1, <2>7, <3>1 DEF StaleIsHarmless, Apart, Holds
    <3>2. CASE listener.from # a
      <4>1. Stale' => Stale
        BY <1>1, <1>4, <2>1, <2>2, <3>2 DEF Stale, Asking, Parting
      <4> QED
        BY <1>1, <1>4, <2>8, <3>2, <4>1 DEF Meant, StaleIsHarmless, Apart, Holds
    <3> QED
      BY <3>1, <3>2
  <2>10. SettledStay'
    <3> SUFFICES ASSUME NEW b \in Address, Settled(b)', Apart(b)', Spared(b)'
                 PROVE  Holds(b)'
      BY DEF SettledStay
    <3>1. CASE b = a
      <4>1. asked'[a] \in acks'[a]
        BY <1>4, <2>2, <3>1 DEF Settled
      <4>2. asked'[a] \in Users /\ users[asked'[a]] = reg[a]
        BY <1>4, <2>2, <4>1
      <4>3. chan[reg[a]] = a
        BY <4>2, PlayerFacts DEF Inv, TablesAgree
      <4> QED
        BY <1>5, <3>1, <4>2, <4>3, JoinIsFresh
    <3>2. CASE b # a
      BY <2>8, <3>2 DEF Meant, SettledStay
    <3> QED
      BY <3>1, <3>2
  <2> QED
    BY <1>3, <2>5, <2>6, <2>9, <2>10 DEF Meant
<1>6. CASE Answered(a) \/ Leave(a)
  <2>1. drawn' = drawn /\ asked' = asked
    BY <1>6 DEF Answered, Leave
  <2>2. \A b \in Address : phase'[b] # "out" => phase[b] # "out"
    BY <1>4, <1>6 DEF Answered, Leave
  <2>3. \A b \in leaving' : phase'[b] = "out"
    BY <1>4, <1>6 DEF Answered, Leave, Meant, OfItsClient
  <2>4. \A b \in Address : Settled(b)' => Settled(b)
    <3>1. CASE Answered(a)
      BY <1>4, <3>1 DEF Answered, Settled
    <3>2. CASE Leave(a)
      BY <1>4, <3>2 DEF Leave, Settled
    <3> QED
      BY <1>6, <3>1, <3>2
  <2>5. OfItsClient'
    BY <1>1, <1>2, <2>1, <2>2, <2>3 DEF Meant, OfItsClient, Given
  <2>6. RequestMeant'
    BY <1>1, <2>1 DEF Meant, RequestMeant, Asking, Parting
  <2>7. StaleIsHarmless'
    BY <1>1, <1>2, <1>4, <2>1, <2>2
       DEF Meant, StaleIsHarmless, Stale, Asking, Parting, Apart, Holds
  <2>8. SettledStay'
    BY <1>1, <1>2, <2>1, <2>4 DEF Meant, SettledStay, Apart, Spared, Holds
  <2> QED
    BY <1>3, <2>5, <2>6, <2>7, <2>8 DEF Meant
<1> QED
  BY <1>5, <1>6 DEF Client

LEMMA MeantNext == Inv /\ DropMeant /\ Meant /\ [Next]_vars => Meant'
<1>1. ASSUME Inv, Meant, UNCHANGED vars
      PROVE  Meant'
  <2>1. UNCHANGED <<users, open, kicks, chan, lock, listener, sender, expelled,
                    phase, drawn, asked, player, leaving, acks>>
    BY <1>1 DEF vars, tables, clients, threads
  <2>2. Users' = Users
    BY <2>1 DEF Users
  <2> QED
    BY <1>1, <2>1, <2>2
       DEF Meant, OfItsClient, Given, KicksMeant, RequestMeant,
           StaleIsHarmless, Stale, Asking, Parting, SettledStay, Settled,
           Apart, Spared, Holds
<1> QED
  BY <1>1, MeantListener, MeantSender, MeantGame, MeantClient DEF Next

\* A client that has taken the identity it drew stays the player it is told to
\* be, on its own channel, until it leaves, is kicked off or found dropped
\* itself, for any number of clients, joins, kicks and drops, as long as what it
\* drew for earlier connections is not near it.  Of a client that was given
\* another identity than it drew nothing is said: its own request removes it
\* when it is repeated (NetTransportNet.cpp:531-563, 1939-1944, 2038-2047).
THEOREM PlayersAlwaysStay == Spec => []PlayersStay
<1>1. Inv /\ Meant => PlayersStay
  <2> SUFFICES ASSUME Inv, Meant, NEW a \in Address,
                      phase[a] = "in", player[a] = asked[a], Apart(a),
                      \A k \in expelled : k[2] = player[a] => chan[k[1]] # a
               PROVE  /\ users[player[a]] # NoChannel
                      /\ users[player[a]] = reg[a]
    BY DEF PlayersStay
  <2>1. Settled(a) /\ Spared(a)
    BY DEF Settled, Spared
  <2>2. Holds(a)
    BY <2>1, SettledHold
  <2> QED
    BY <2>2, PlayerFacts DEF Holds
<1>2. Init => Inv /\ DropMeant /\ Meant
  <2>1. Init => DropMeant
    BY DEF Init, DropMeant, Listening
  <2> QED
    BY <2>1, InitKeeps, MeantInit
<1>3. Inv /\ DropMeant /\ Meant /\ [Next]_vars => Inv' /\ DropMeant' /\ Meant'
  BY NextKeeps, DropNext, MeantNext
<1> QED
  BY <1>1, <1>2, <1>3, PTL DEF Spec
=============================================================================
