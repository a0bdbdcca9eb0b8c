--------------------------- MODULE PlayerSession ---------------------------
(***************************************************************************)
(* The players of a NetServer.  Its tables are shared by three threads:    *)
(* the game's (which removes who has not been heard of for long), the      *)
(* listener of its peer (which answers requests to join and to leave) and  *)
(* the sender (which finishes a kick once the message about it has been    *)
(* sent), under three locks.  Clients join from their                      *)
(* addresses, repeat their requests until they are answered, leave, and    *)
(* join again; datagrams are lost, repeated and late, but none outlives    *)
(* the moment its client joins again.                                      *)
(***************************************************************************)
EXTENDS Integers, Sequences, FiniteSets

CONSTANTS
    Address,      \* addresses (IP and port) clients join from
    Unique,       \* identities a client may draw from its clock
    UniqueToTry,  \* UNIQUE_TO_TRY: identities tried for one request
    MaxJoin,      \* bound on how often clients join
    MaxChannel,   \* bound on the channels the server creates
    MaxKick       \* bound on the players that are kicked off or dropped

ASSUME SessionAssumption ==
    /\ Address # {}
    /\ Unique \subseteq Nat
    /\ UniqueToTry \in Nat \ {0}
    /\ MaxJoin \in Nat /\ MaxChannel \in Nat /\ MaxKick \in Nat

VARIABLES
    users,     \* users: the channel of each player, NoChannel for none
    support,   \* m_support: the addresses with lists of partial messages
    reg,       \* chMap of the peer: the channel of each address
    chan,      \* the address of each channel created so far
    open,      \* the channels that are opened
    kicks,     \* messages about kicks, <<channel, player>>, not yet taken
    creates,   \* _createPlayers: how many entries each player has
    deletes,   \* _deletePlayers: how many entries each player has
    game,      \* the players the game was told of
    lock,      \* the thread that holds each lock
    listener,  \* what the listening thread is doing
    sender,    \* what the sending thread is doing
    dropping,  \* the player the game's thread is removing, NoPlayer for none
    phase,     \* what the client at each address is doing
    drawn,     \* the identities each client has drawn from its clock so far
    asked,     \* packet.uniqueID of the client at each address
    player,    \* playerNo of the client at each address
    acks,      \* the players whose AckPlayer may still reach each address
    leaving,   \* the addresses whose DestroyPlayer may still arrive
    expelled   \* history: who was kicked off or dropped, <<channel, player>>

tables == <<users, support, reg, open, kicks, creates, deletes>>
clients == <<phase, drawn, asked, player, leaving>>
threads == <<lock, listener, sender, dropping>>
vars == <<tables, chan, game, threads, clients, acks, expelled>>

NoChannel == 0

NoPlayer == -1

Id == UNION {u .. u + UniqueToTry - 1 : u \in Unique}

Lock == {"usr", "pool", "peer"}

Nobody == "nobody"

Listening == [pc |-> "idle", from |-> CHOOSE a \in Address : TRUE,
              id |-> NoPlayer, ch |-> NoChannel]

Sending == [pc |-> "idle", ch |-> NoChannel, player |-> NoPlayer]

Init ==
    /\ users = [p \in Id |-> NoChannel]
    /\ support = {}
    /\ reg = [a \in Address |-> NoChannel]
    /\ chan = <<>>
    /\ open = {}
    /\ kicks = {}
    /\ creates = [p \in Id |-> 0]
    /\ deletes = [p \in Id |-> 0]
    /\ game = {}
    /\ lock = [k \in Lock |-> Nobody]
    /\ listener = Listening
    /\ sender = Sending
    /\ dropping = NoPlayer
    /\ phase = [a \in Address |-> "out"]
    /\ drawn = [a \in Address |-> {}]
    /\ asked = [a \in Address |-> NoPlayer]
    /\ player = [a \in Address |-> NoPlayer]
    /\ acks = [a \in Address |-> {}]
    /\ leaving = {}
    /\ expelled = {}

Free(k) == lock[k] = Nobody

Enters(t, k) == Free(k) /\ lock' = [lock EXCEPT ![k] = t]

\* Every lock it holds.
Leaves(t) == lock' = [k \in Lock |-> IF lock[k] = t THEN Nobody ELSE lock[k]]

(***************************************************************************)
(* The tables of the server.                                               *)
(***************************************************************************)
Users == {p \in Id : users[p] # NoChannel}

\* The player on a channel, if it has one.
ChannelToPlayer(c) ==
    IF \E p \in Id : users[p] = c
    THEN CHOOSE p \in Id : users[p] = c
    ELSE NoPlayer

\* Mutants: messages stay queued; the channel stays open.
DeleteChannelQueued(c) ==
    /\ open' = open \ {c}
    /\ reg' = [reg EXCEPT ![chan[c]] = NoChannel]
    /\ UNCHANGED kicks

DeleteChannelLater(c) == UNCHANGED <<open, reg, kicks>>

\* A channel is closed, which cancels the messages still queued in it.
DeleteChannel(c) ==
    /\ open' = open \ {c}
    /\ reg' = [reg EXCEPT ![chan[c]] = NoChannel]
    /\ kicks' = {k \in kicks : k[1] # c}

\* Mutant: a player the game has not heard of is announced as gone.
GoneAlways(p) ==
    /\ deletes' = [deletes EXCEPT ![p] = @ + 1]
    /\ UNCHANGED creates

\* The game is to hear that a player is gone, or not to hear of it at all.
Gone(p) ==
    IF creates[p] > 0
    THEN creates' = [creates EXCEPT ![p] = @ - 1] /\ UNCHANGED deletes
    ELSE deletes' = [deletes EXCEPT ![p] = @ + 1] /\ UNCHANGED creates

FinishDestroyPlayer(p) ==
    IF p \in Users
    THEN /\ users' = [users EXCEPT ![p] = NoChannel]
         /\ support' = support \ {chan[users[p]]}
         /\ DeleteChannel(users[p])
         /\ Gone(p)
    ELSE UNCHANGED tables

\* Mutant: off by one.
DuplicateBelow(u, c) ==
    \E p \in (u - UniqueToTry .. u - 1) \cap Id : users[p] = c

\* The request of this identity has a player on the channel already.
Duplicate(u, c) ==
    \E p \in (u - UniqueToTry + 1 .. u) \cap Id : users[p] = c

\* Kicks: the message about each is queued in the player's channel.
Terminate(ps) ==
    LET new == {<<users[p], p>> : p \in ps \cap Users} IN
    /\ Cardinality(expelled \cup new) <= MaxKick
    /\ kicks' = kicks \cup new
    /\ expelled' = expelled \cup new

(***************************************************************************)
(* The listening thread: a request to join (ctrlReceive).                  *)
(***************************************************************************)
\* A request whose version or password is not the session's is refused here,
\* with nothing changed.
ReceiveRequest(a) ==
    /\ listener.pc = "idle" /\ Free("peer")
    /\ asked[a] # NoPlayer /\ Len(chan) < MaxChannel
    /\ Enters("listener", "usr")
    /\ listener' = [pc |-> "check", from |-> a, id |-> asked[a],
                    ch |-> NoChannel]
    /\ UNCHANGED <<tables, chan, game, sender, dropping, clients, acks, expelled>>

\* It goes on after it has left the locks to wait.
EnterUsr ==
    /\ listener.pc = "again"
    /\ Enters("listener", "usr")
    /\ listener' = [listener EXCEPT !.pc = "recheck"]
    /\ UNCHANGED <<tables, chan, game, sender, dropping, clients, acks, expelled>>

\* The first identity that is free, counting from the one asked for.
FreeFrom(u) ==
    LET free == {p \in u .. u + UniqueToTry - 1 : users[p] = NoChannel}
    IN IF free = {} THEN NoPlayer
       ELSE CHOOSE p \in free : \A q \in free : p <= q

\* Nobody uses the address, or no longer does.
ToCreate ==
    \/ listener.pc = "check" /\ reg[listener.from] = NoChannel
    \/ listener.pc = "recheck"

EnterPool ==
    /\ ToCreate /\ FreeFrom(listener.id) # NoPlayer
    /\ Enters("listener", "pool")
    /\ listener' = [listener EXCEPT !.pc = "create"]
    /\ UNCHANGED <<tables, chan, game, sender, dropping, clients, acks, expelled>>

\* No identity is left, or the session has all the players it is to have,
\* whose number is not modelled.
RefuseRequest ==
    /\ ToCreate /\ Free("pool")
    /\ Leaves("listener")
    /\ listener' = Listening
    /\ UNCHANGED <<tables, chan, game, sender, dropping, clients, acks, expelled>>

RefuseDuplicate ==
    /\ listener.pc = "check" /\ Free("pool")
    /\ reg[listener.from] # NoChannel
    /\ Duplicate(listener.id, reg[listener.from])
    /\ Leaves("listener")
    /\ listener' = Listening
    /\ UNCHANGED <<tables, chan, game, sender, dropping, clients, acks, expelled>>

\* A new connection from the same address: the old player is kicked off,
\* and the locks are left for a while.
KickOffOld ==
    /\ listener.pc = "check" /\ Free("pool")
    /\ reg[listener.from] # NoChannel
    /\ ~Duplicate(listener.id, reg[listener.from])
    /\ FinishDestroyPlayer(ChannelToPlayer(reg[listener.from]))
    /\ Leaves("listener")
    /\ listener' = [listener EXCEPT !.pc = "again"]
    /\ UNCHANGED <<chan, game, sender, dropping, clients, acks, expelled>>

\* The peer takes one channel to an address, and has none to this one: a
\* channel and its player go together (TablesAgree).
CreatePlayer ==
    /\ listener.pc = "create" /\ Free("peer")
    /\ reg[listener.from] = NoChannel
    /\ LET p == FreeFrom(listener.id)
           c == Len(chan) + 1
       IN /\ users' = [users EXCEPT ![p] = c]
          /\ chan' = Append(chan, listener.from)
          /\ open' = open \cup {c}
          /\ reg' = [reg EXCEPT ![listener.from] = c]
          /\ support' = support \cup {listener.from}
          /\ creates' = [creates EXCEPT ![p] = @ + 1]
          /\ listener' = [listener EXCEPT !.pc = "answer", !.id = p, !.ch = c]
    /\ Leaves("listener")
    /\ UNCHANGED <<kicks, deletes, game, sender, dropping, clients, acks, expelled>>

Answer ==
    /\ listener.pc = "answer"
    /\ acks' = IF listener.ch \in open /\ phase[listener.from] = "joining"
               THEN [acks EXCEPT ![listener.from] = @ \cup {listener.id}]
               ELSE acks
    /\ listener' = Listening
    /\ UNCHANGED <<tables, chan, game, lock, sender, dropping, clients, expelled>>

(***************************************************************************)
(* The listening thread: a client leaves (serverReceive).                  *)
(***************************************************************************)
\* A datagram of an address without a channel goes to the control channel,
\* which has no use for it.
ReceiveLeave(a) ==
    /\ listener.pc = "idle" /\ Free("peer")
    /\ a \in leaving
    /\ leaving' = leaving \ {a}
    /\ listener' = IF reg[a] = NoChannel THEN listener
                   ELSE [listener EXCEPT !.pc = "leave", !.from = a,
                                         !.ch = reg[a]]
    /\ UNCHANGED <<tables, chan, game, lock, sender, dropping, phase, drawn,
                   asked, player, acks, expelled>>

EnterLeave ==
    /\ listener.pc = "leave"
    /\ Enters("listener", "usr")
    /\ listener' = [listener EXCEPT !.pc = "leaving"]
    /\ UNCHANGED <<tables, chan, game, sender, dropping, clients, acks, expelled>>

\* Closing a channel cancels the messages about kicks it still has queued,
\* whose callback takes the pool's lock.
Cancels(c) == \E k \in kicks : k[1] = c

FinishLeave ==
    /\ listener.pc = "leaving"
    /\ Cancels(listener.ch) => Free("pool")
    /\ FinishDestroyPlayer(ChannelToPlayer(listener.ch))
    /\ Leaves("listener")
    /\ listener' = Listening
    /\ UNCHANGED <<chan, game, sender, dropping, clients, acks, expelled>>

(***************************************************************************)
(* The sending thread sends the message about a kick and calls back.       *)
(***************************************************************************)
SendKick(k) ==
    /\ sender.pc = "idle"
    /\ k \in kicks
    /\ kicks' = kicks \ {k}
    /\ Enters("sender", "peer")
    /\ sender' = [pc |-> "sent", ch |-> k[1], player |-> k[2]]
    /\ UNCHANGED <<users, support, reg, open, creates, deletes, chan, game,
                   listener, dropping, clients, acks, expelled>>

\* Mutant: the callback is not waiting for this event.
PostSendOnly ==
    /\ sender.pc = "sent"
    /\ sender' = Sending /\ Leaves("sender")
    /\ UNCHANGED <<tables, chan, game, listener, dropping, clients, acks, expelled>>

PostSend ==
    /\ sender.pc = "sent"
    /\ IF sender.ch \in open
       THEN /\ sender' = [sender EXCEPT !.pc = "pool"]
            /\ UNCHANGED lock
       ELSE sender' = Sending /\ Leaves("sender")
    /\ UNCHANGED <<tables, chan, game, listener, dropping, clients, acks, expelled>>

EnterPoolSending ==
    /\ sender.pc = "pool"
    /\ Enters("sender", "pool")
    /\ sender' = [sender EXCEPT !.pc = "usr"]
    /\ UNCHANGED <<tables, chan, game, listener, dropping, clients, acks, expelled>>

DestroyPlayerCallback ==
    /\ sender.pc = "usr" /\ Free("usr")
    /\ FinishDestroyPlayer(sender.player)
    /\ Leaves("sender")
    /\ sender' = Sending
    /\ UNCHANGED <<chan, game, listener, dropping, clients, acks, expelled>>

(***************************************************************************)
(* The game's thread.                                                      *)
(***************************************************************************)
KickOff(p) ==
    /\ p \in game /\ Free("usr")
    /\ Terminate({p})
    /\ UNCHANGED <<users, support, reg, open, creates, deletes, chan, game,
                   threads, clients, acks>>

\* Mutant: the channel of a dropped player is forgotten.
FinishDropForgets ==
    /\ dropping # NoPlayer
    /\ users' = [users EXCEPT ![dropping] = NoChannel]
    /\ support' = support \ {chan[users[dropping]]}
    /\ Gone(dropping)
    /\ Leaves("game")
    /\ dropping' = NoPlayer
    /\ UNCHANGED <<reg, open, kicks, chan, game, listener, sender, clients, acks,
                   expelled>>

\* GetConnectionInfo finds a channel that nothing came from for too long,
\* whatever its client thinks of it.
DropPlayer(p) ==
    /\ p \in game \cap Users
    /\ Enters("game", "usr")
    /\ dropping' = p
    /\ expelled' = expelled \cup {<<users[p], p>>}
    /\ Cardinality(expelled') <= MaxKick
    /\ UNCHANGED <<tables, chan, game, listener, sender, clients, acks>>

FinishDrop ==
    /\ dropping # NoPlayer
    /\ Cancels(users[dropping]) => Free("pool")
    /\ FinishDestroyPlayer(dropping)
    /\ Leaves("game")
    /\ dropping' = NoPlayer
    /\ UNCHANGED <<chan, game, listener, sender, clients, acks, expelled>>

Created == {p \in Id : creates[p] > 0}

Deleted == {p \in Id : deletes[p] > 0}

\* The game hears of those that left and of those that came, and kicks some
\* of the latter off at once (the session is locked, or has begun).
ProcessPlayers ==
    /\ Free("usr") /\ Created \cup Deleted # {}
    /\ game' = (game \ Deleted) \cup Created
    /\ creates' = [p \in Id |-> 0]
    /\ deletes' = [p \in Id |-> 0]
    /\ \E refused \in SUBSET Created : Terminate(refused)
    /\ UNCHANGED <<users, support, reg, open, chan, threads, clients, acks>>

(***************************************************************************)
(* The clients.                                                            *)
(***************************************************************************)
Joins == UNION {{<<a, u>> : u \in drawn[a]} : a \in Address}

\* The server's channel to the client that was there before goes on
\* repeating its answer.
Join(a) ==
    /\ phase[a] = "out" /\ Cardinality(Joins) < MaxJoin
    /\ \E u \in Unique \ drawn[a] :
           /\ drawn' = [drawn EXCEPT ![a] = @ \cup {u}]
           /\ asked' = [asked EXCEPT ![a] = u]
    /\ phase' = [phase EXCEPT ![a] = "joining"]
    /\ leaving' = leaving \ {a}
    /\ acks' = [acks EXCEPT ![a] = {p \in Users : users[p] = reg[a]}]
    /\ UNCHANGED <<tables, chan, game, threads, player, expelled>>

\* Answers that arrive later are not looked at (ackPlayer).
Answered(a) ==
    /\ phase[a] = "joining"
    /\ \E p \in acks[a] : player' = [player EXCEPT ![a] = p]
    /\ phase' = [phase EXCEPT ![a] = "in"]
    /\ acks' = [acks EXCEPT ![a] = {}]
    /\ UNCHANGED <<tables, chan, game, threads, drawn, asked, leaving,
                   expelled>>

\* The message that says so may never arrive.
Leave(a) ==
    /\ phase[a] # "out"
    /\ phase' = [phase EXCEPT ![a] = "out"]
    /\ player' = [player EXCEPT ![a] = NoPlayer]
    /\ acks' = [acks EXCEPT ![a] = {}]
    /\ leaving' = leaving \cup {a}
    /\ UNCHANGED <<tables, chan, game, threads, drawn, asked, expelled>>

Listener ==
    \/ \E a \in Address : ReceiveRequest(a) \/ ReceiveLeave(a)
    \/ EnterUsr \/ EnterPool \/ RefuseDuplicate \/ KickOffOld
    \/ RefuseRequest \/ CreatePlayer \/ Answer
    \/ EnterLeave \/ FinishLeave

Sender ==
    \/ \E k \in kicks : SendKick(k)
    \/ PostSend \/ EnterPoolSending \/ DestroyPlayerCallback

Game ==
    \/ ProcessPlayers \/ FinishDrop
    \/ \E p \in game : KickOff(p) \/ DropPlayer(p)

Client(a) == Join(a) \/ Answered(a) \/ Leave(a)

Next == Listener \/ Sender \/ Game \/ \E a \in Address : Client(a)

Spec == Init /\ [][Next]_vars

\* The listening thread goes on with a request it has received; the sending
\* thread sends what is queued, and the game's thread finishes what it began.
FairSpec ==
    /\ Spec
    /\ WF_vars(Sender)
    /\ WF_vars(Listener /\ listener.pc # "idle")
    /\ WF_vars(FinishDrop)
-----------------------------------------------------------------------------
(***************************************************************************)
(* Properties.                                                             *)
(***************************************************************************)
TypeOK ==
    /\ users \in [Id -> 0 .. Len(chan)]
    /\ support \subseteq Address
    /\ reg \in [Address -> 0 .. Len(chan)]
    /\ chan \in Seq(Address)
    /\ open \subseteq 1 .. Len(chan)
    /\ kicks \subseteq open \X Id
    /\ creates \in [Id -> Nat]
    /\ deletes \in [Id -> Nat]
    /\ game \subseteq Id
    /\ lock \in [Lock -> {Nobody, "listener", "sender", "game"}]
    /\ listener \in [pc : {"idle", "check", "again", "recheck", "create",
                           "answer", "leave", "leaving"},
                     from : Address, id : Id \cup {NoPlayer},
                     ch : 0 .. Len(chan)]
    /\ sender \in [pc : {"idle", "sent", "pool", "usr"}, ch : 0 .. Len(chan),
                   player : Id \cup {NoPlayer}]
    /\ dropping \in Id \cup {NoPlayer}
    /\ phase \in [Address -> {"out", "joining", "in"}]
    /\ drawn \in [Address -> SUBSET Unique]
    /\ asked \in [Address -> Unique \cup {NoPlayer}]
    /\ player \in [Address -> Id \cup {NoPlayer}]
    /\ acks \in [Address -> SUBSET Id]
    /\ leaving \subseteq Address
    /\ expelled \subseteq (1 .. Len(chan)) \X Id

\* The tables of the server, of its peer and of partial messages tell the
\* same players, each on the channel of its own address, whichever thread
\* created or destroyed them (NetTransportNet.cpp:2098-2107).
TablesAgree ==
    /\ \A p \in Users : /\ users[p] \in open
                        /\ reg[chan[users[p]]] = users[p]
                        /\ chan[users[p]] \in support
    /\ \A c \in open : \E p \in Users : users[p] = c
    /\ \A p, q \in Users : users[p] = users[q] => p = q
    /\ \A a \in Address : reg[a] # NoChannel =>
                             reg[a] \in open /\ chan[reg[a]] = a
    /\ \A a \in support : reg[a] # NoChannel

\* What the game was told and is still to be told adds up to the players
\* there are: none is announced twice, announced as gone without having been
\* announced, or forgotten (NetTransportNet.cpp:2108-2123, 2721-2737).
GameInStep ==
    \A p \in Id :
        /\ creates[p] \in {0, 1} /\ deletes[p] \in {0, 1}
        /\ deletes[p] = 1 => p \in game
        /\ p \in Users <=> creates[p] = 1 \/ (p \in game /\ deletes[p] = 0)
        /\ creates[p] = 1 => (p \in game => deletes[p] = 1)

\* No identity its client drew for another connection comes near the one of
\* this connection.
Apart(a) ==
    \A u \in drawn[a] \ {asked[a]} :
        u - asked[a] >= UniqueToTry \/ asked[a] - u >= UniqueToTry

\* A client that is in under the identity it drew stays a player until it
\* leaves, is kicked off or found dropped itself, unless it drew one near it
\* before: neither repeated requests nor a kick that ends after its player has
\* left, whose identity somebody else may have, removes it
\* (NetTransportNet.cpp:533-556, 1940-1944, 2038-2047).
PlayersStay ==
    \A a \in Address :
        /\ phase[a] = "in" /\ player[a] = asked[a] /\ Apart(a)
        /\ \A k \in expelled : k[2] = player[a] => chan[k[1]] # a
        => /\ users[player[a]] # NoChannel
           /\ users[player[a]] = reg[a]

\* The sending thread and another wait for locks of each other:
\* destroyPlayerCallback has the peer's lock and takes the pool's and then the
\* users', ctrlReceive the users' lock, the pool's and then the peer's, and
\* finishDestroyPlayer the users' and, to cancel a message, the pool's.
Crossed ==
    \/ sender.pc = "usr" /\ listener.pc \in {"check", "recheck"}
    \/ sender.pc = "usr" /\ listener.pc = "leaving" /\ Cancels(listener.ch)
    \/ sender.pc = "usr" /\ dropping # NoPlayer /\ Cancels(users[dropping])
    \/ sender.pc = "pool" /\ listener.pc = "create"

\* The channel of a player that was kicked off is closed in the end, unless
\* threads cross: the order of locks, which does hang the server, is all that
\* may keep it, and nothing that clients do or the game's thread removes at the
\* same time (NetTransportNet.cpp:2041).
KickEnds ==
    \A c \in 1 .. MaxChannel :
        (\E k \in kicks : k[1] = c) ~> (c \notin open \/ Crossed)
=============================================================================
