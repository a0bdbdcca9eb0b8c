# A verification project for the concurrent parts of the Poseidon engine

Poseidon is the engine of *Arma: Cold War Assault*. Almost all of it is a
single-threaded simulation. Several actors share state in a few places: the
network layer, streamed audio, the task pool and the download of mods. This
project models those parts in TLA+, checks the models with TLC on small
instances and proves the central facts with TLAPS for every instance.

Line numbers below refer to `src/`. `NetChannel.cpp`, `NetChannel.hpp`,
`NetMessage.cpp`, `NetPeer.cpp` and `NetPool.cpp` are in
`engine/Poseidon/Network/Legacy/`, the other network files in
`engine/Poseidon/Network/`.

## 1. Inventory

### 1.1 The network layer

| Component | State | Operations | Talks to |
| --- | --- | --- | --- |
| Reliable channel, `NetChannelBasic` (`NetChannel.cpp`) | three queues of messages to send, table of sent guaranteed messages (`revisited`), last message of each chain; masks of received and processed serials, two rings of acknowledgements owed, table of deferred messages | `dispatchMessage`, `getPreparedMessage`, `preSend`, `postSend`, `processData`, `processVIM`, `inputStatistics`, `checkConnectivity`, `tick`/`runRevisited`, `close` | peer threads, user's callback |
| Messages and their pool (`NetMessage.cpp`) | header, status, predecessor, recycled objects | `newMessage`, `setOrderedPrevious`, `send`, `cancel` | channel |
| Peers (`NetPeer.cpp`, `NetPool.cpp`, `PeerFactory.cpp`) | socket, table of channels, bandwidth budget; two threads each | `udpListen`, `udpSend`, `registerChannel`, `unregisterChannel` | channels, socket |
| Transport sessions (`NetTransportNet.cpp` and the `NetTransport*.hpp` helpers) | server: players and their channels, lists of players to create and delete; client: state of the connection | handshake, `ctrlReceive`, `serverReceive`, `clientReceive`, `SendMsg`, `KickOff`, `finishDestroyPlayer`, `ProcessPlayers` | pool, peers, channels, game |
| Locks of the transport | `poolLock`, `usr`, `snd`, `rcv`, the locks of peers and channels | enter and leave | everything above |
| Fragmentation and receive queue | parts of a message being merged, queue of what the game is still to be shown | splitting in `SendMsg`, merging in `clientReceive`/`serverReceive`, `insertReceived`, `ProcessUserMessages` | channel (the chain keeps parts in order) |
| Session enumeration, voice | answers by address, routing tables | request and answer | broadcast channel |
| Game server and client (`NetworkServer*.cpp`, `NetworkClient*.cpp`, `NetworkMissionTransfer.cpp`) | state of the session and of each player, objects and their owners, mission file in transfer | handlers of about a hundred messages | transport |
| Master server client (`MasterServer*.cpp`) | registration and its refresh | HTTP requests with retries | `mserver/`, a program of its own |

### 1.2 The rest of the engine

| Component | State | Operations | Talks to |
| --- | --- | --- | --- |
| Streamed audio (`engine/PoseidonOpenAL/WaveOAL.cpp`, `SoundSystemOAL.cpp`) | per wave: what the game wants, the OpenAL source, a ring of buffers, decoded chunks, offset and end of the track, flags of the decode under way | `Play`, `Pause`, `Resume`, `Stop`, `Restart`, `Repeat`, `LastLoop`, `Commit`, `IsTerminated`, device switch, destructor; `PumpStreaming` and the decode | the pump's thread, OpenAL |
| Task pool (`engine/Poseidon/Core/TaskPool.cpp`) | tasks it owns, one lock | `ParallelFor`, `Submit`, destructor | the enkiTS scheduler's workers |
| Mod downloads (`Core/DownloadWorker.cpp`, `Core/CurlHttp.cpp`, `Core/ModArchive.cpp`, `UI/OptionsUIApp.cpp`) | a session per run with its progress; the files on disk; the dialog | `Start`, `Cancel`, `Poll`, destructor; transfer, unpacking, manifest | a detached thread, a server, the file system |

The streaming file server (`IO/FileServer`) has a request queue.
`AI/AISubgroupFSM` holds state machines of commands. The script evaluator, the
simulation, graphics, sound mixing, user interface, assets, applications and
tools are sequential, numeric or pure input and output, and are left aside.

### 1.3 What is hard

The channel:

* Three kinds of threads touch a channel: any thread of the game dispatches
  messages, one thread per peer sends and runs the timers (`udpSend`,
  NetPeer.cpp:404), and one listens (`udpListen`, NetPeer.cpp:215). They take
  the channel's lock for single calls, not for a whole exchange.
* UDP loses, repeats, delays and reorders datagrams.
* A guaranteed message ("VIM") is repeated until it is acknowledged.
  Acknowledgements ride on any datagram of the other direction as an origin and
  a bit mask, a limited number of times each.
* A guaranteed message names its predecessor by serial number. The receiver
  holds it back until that one was processed, and calls the user outside its
  lock.
* The receiver's masks cover a window of serials that jumps forward; what it
  leaves behind counts as received and processed.

The others:

* A long message is submitted in parts while the channel sends and other threads
  submit theirs; the listener collects parts and sorts what is whole into a queue
  that the game empties at the same time.
* The server's players are kept in several tables, changed by three threads
  under three locks that they do not take in one order. A client that got no
  answer asks again; one that comes back uses the address of a player that may
  still be there.
* The streaming pump decides under `_audioMutex` what to decode and decodes
  without it, while the main thread may stop, unload or destroy the wave.
* `ParallelFor` keeps the pool's lock while it waits, and a thread that waits
  runs other tasks meanwhile.
* Nobody joins a download's thread. A run that was cancelled goes on until it
  notices, on the same files as the next one.

`PROJECT.json` lists the hazards that follow, each with the line where it bites.

### 1.4 What makes it correct

* Channel: the peer's guaranteed messages of each chain are handed over once
  each, in order and without a gap, and all of them in the end. Inside, that
  takes: a message stays in exactly one place of the sender until it is
  acknowledged; an acknowledgement is only given for what arrived; a serial is
  processed once; what waits is woken up; what was received never becomes new
  again; the records that overlap agree.
* Messages of the game: a message that was split is shown whole, once, and in its
  place of the stream, however the channel orders the parts.
* Players: the tables tell the same players; the game hears of each once, when
  it comes and when it goes; a player stays until it leaves, is kicked off or its
  channel is dropped; a kick takes effect.
* Streamed wave: no buffer of the ring is lost or used twice; the track is heard
  in order and to its end; a wave that is to play does; one that ended stays
  ended; the pump never touches one that was freed.
* Task pool: what was submitted runs once and is deleted once; a loop returns
  when all of it has run; every call ends.
* Mod downloads: what is said to be installed is, as far as the code looks at what
  it wrote; nothing but whole archives bears an archive's name, under the same
  condition; a cancelled run ends and stays silent.

## 2. Modules

| Module | Role |
| --- | --- |
| `OrderedDelivery` | the promise: per end and stream, what was handed over is a prefix of what was submitted, and grows |
| `NetChannel` | two channels, the threads that drive them and the network in between |
| `MCNetChannel` | workloads for TLC |
| `UserMessages` | extends `NetChannel` with what the game sends and is shown: splitting, merging, the sorted queue; defines the streams of parts and of messages |
| `MCUserMessages` | workloads, and two refinement mappings to `OrderedDelivery`: of the channels' parts, of the game's messages |
| `NetChannelProofs` | lemmas and the proof of `TypeCorrect` |
| `NetChannelStreams` | the invariant behind ordered delivery, and the proofs of `NothingLeftOut` and `PredecessorAlwaysNumbered` |
| `NetChannelRecords` | the records each end keeps, and what the two have of each other: the proofs of the channel's other properties |
| `DeliveryProofs` | that the channels, and the game's messages over them, implement `OrderedDelivery`: the proofs of `ChannelDelivers`, `GameCorrect`, `GameShown`, `OpenerAlwaysThere` and `GameDelivers` |
| `PlayerSession`, `MCPlayerSession` | the server's players between game, listening and sending thread, and the clients |
| `PlayerSessionProofs` | the proofs of `TypeCorrect`, `TablesAlwaysAgree`, `GameAlwaysInStep` and `PlayersAlwaysStay` |
| `StreamedWave`, `MCStreamedWave` | a streamed wave between main thread, pump and OpenAL |
| `StreamedWaveProofs` | the proofs of `TypeCorrect`, `RingAlwaysConserved`, `AheadAlwaysBounded`, `TerminalAlwaysSticky`, `FedAlwaysInOrder` and `EofAlwaysTheEnd` |
| `TaskPool`, `MCTaskPool` | the pool, its tasks and the stack of each thread |
| `TaskPoolProofs` | the proofs of `TypeCorrect`, `LoopsAreWhole` and `TasksAreOwned` |
| `DownloadWorker`, `MCDownloadWorker` | runs of the worker, the files and the dialog |
| `DownloadWorkerProofs` | the proofs of `TypeCorrect`, `Quiet`, `BarGoesOn`, `NoPartLeft`, `ArchivesWhole` and `DoneMeansInstalled` |

`NetChannel` and `PlayerSession` meet at the channel: `PlayerSession` needs of it
that a message sent reaches the other end or its channel is found dead, and
takes either as possible at any time. `UserMessages` extends `NetChannel`: each of its
steps is one of the channels together with what the transport does in the same
step, or one of the game's alone. The other modules share no state.
Definitions marked "Variant" or "Mutant" are bugs that the runs must detect and
belong to no specification.

### 2.1 `NetChannel`: state

| Variable | Code |
| --- | --- |
| `snd[e].msgs` | the `NetMessage` objects end e ever made, named by their order of creation (`id`). `pred` is `pred`, `serial` the header's serial, `instant` and `reply` are MSG_INSTANT_FLAG and the use of `control2` for a delay |
| `urgentQ`, `vimQ`, `commonQ` | `urgentToSend`, `vimToSend`, `commonToSend` and their tails |
| `prepared` | the message between `getPreparedMessage` and `postSend`, on the stack of `udpSend` |
| `revisited` | the table of sent messages that `runRevisited` visits, guaranteed ones only |
| `lastUrgent`, `lastVIM` | ends of the two chains |
| `rcv[e].ackMask`, `procMask`, `maskMin` | the two bit masks and `ackMaskMin` |
| `ack`, `inputMin`, `inputMax`, `oldAck` | the ring `ack[]` of counts, the window it covers, the ring `oldAckQueue` |
| `deferred` | table of waiting messages by predecessor, each a list with the newest first |
| `stack`, `handing` | activations of `processVIM`, and whether the user's routine runs |
| `net[e]` | datagrams on their way to e |
| `delivered[e]` | history: guaranteed messages the user of e was handed |
| `spent` | history: budgets of the model that are used up |

`ack[]` is modelled as a function on slots `serial % AckArray`. In the code
`ackPtr` starts at 0 for `inputMax` = 1 and both advance together, so the slot
of a serial is a rotation of this one.

### 2.2 `NetChannel`: steps

| Action | Code | Thread |
| --- | --- | --- |
| `Dispatch` | `newMessage`, `setOrderedPrevious`, `dispatchMessage` | any thread of the game |
| `Close` | `close`, `cancelAllMessages` | game, sender or listener |
| `Send` | `getPreparedMessage` to `sendto`, with `setOutputData` and `preSend` | `udpSend` |
| `PostSend` | `postSend` | `udpSend` |
| `Expire` | `getCommonMessage` dropping a stale message | `udpSend` |
| `Timeout` | `runRevisited` for an overdue message, with `insertResend` | `udpSend` |
| `CheckConnectivity` | `checkConnectivity` | both |
| `ReceiveResent` | `processData` of a known serial: `inputResent` | `udpListen` |
| `ReceiveNew` | `processData` of a new one: `inputStatistics` with the acknowledgements it carries, `setDelayMessage`, the deferral or the call of `processVIM` | `udpListen` |
| `ReceiveFar` | the same when `inputStatistics` returned early | `udpListen` |
| `ProcessVIM` | `processVIM` up to the call of the user's routine | `udpListen` |
| `HandOver` | the routine and the rest of `processVIM` | `udpListen` |
| `Arrive`, `Lose` | UDP | network |

The granularity is that of the locks. `Send` and `PostSend` are two steps
because the listener calls `processData` without the peer's lock that `udpSend`
holds throughout. `ProcessVIM` and `HandOver` are two because `processVIM`
leaves the channel's lock in between. While an activation of `processVIM` is on
the stack, its listener takes in no other datagram.

### 2.3 What the model abstracts from

* Time. A timeout, heartbeat or ping may fall due in any state. To keep the
  state space finite, those that nothing explains draw on a budget: `Timeout` is
  free for a message that was lost and otherwise limited by `MaxEarly` plus the
  losses so far; a heartbeat is free when the end owes an acknowledgement that
  nothing else carries and otherwise limited by `MaxIdle`.
* Bandwidth and latency estimation. They decide when a message may leave and how
  long a timeout is, and both are arbitrary here. The bandwidth flag and its
  answer go with them.
* A datagram that arrives leaves `net` unless the repeat budget keeps it there.
* The long acknowledgement of a dummy message (`setBigAckMessage`): the dummies
  a channel makes up have length 0 and are never filled.
* Control and broadcast channel, whose messages bypass all of this.
* `setOrderedPrevious` and `dispatchMessage` are one step: one thread writes to a
  chain. Two writers are listed as a hazard.
* Message objects are never reused, and serial numbers do not wrap: 2^32 serials
  take weeks.

### 2.4 `PlayerSession`

The server of `NetTransportNet.cpp`, and around it as many clients as there are
addresses.

| Variable | Code |
| --- | --- |
| `users`, `support` | `users` (player to channel) and `m_support` (parts of messages being merged, by address) |
| `reg`, `open`, `chan` | the peer's table of channels, those that are open, and the address each was made for |
| `kicks` | messages about kicks that wait in their channel to be sent; their callback destroys the player |
| `creates`, `deletes` | lists of players the game is still to be told of |
| `game` | the players the game knows |
| `lock` | `usrCs` (usr), `poolLock` (pool) and the peer's lock (peer) |
| `listener`, `sender` | where the two threads are, and what they have in hand |
| `dropping` | the player that the game's thread is removing |
| `phase`, `player`, `asked`, `drawn`, `acks`, `leaving` | each client: whether it is out, joining or in, its player number, the identity it drew last and all it drew, the answers and the leave message on their way |
| `expelled` | history: who was kicked off or found dropped, on which channel |

A request runs through `ReceiveRequest`, `RefuseDuplicate` or `KickOffOld` and
`EnterUsr`, `EnterPool`, `CreatePlayer` or `RefuseRequest`, and `Answer`
(`ctrlReceive`); a leave through `ReceiveLeave`, `EnterLeave` and `FinishLeave`
(`serverReceive`); a kick through `KickOff` or `ProcessPlayers` (game),
`SendKick`, `PostSend`, `EnterPoolSending` and `DestroyPlayerCallback` (sender). A
channel that nothing came from for too long is found by `GetConnectionInfo`
(NetTransportNet.cpp:1940): `DropPlayer` takes `usr`, and `FinishDrop` removes the
player (game). When a channel is found dropped is arbitrary, whatever its client
does; `MaxKick` bounds kicks and drops together.
`FinishDestroyPlayer` and `DeleteChannel` are the helpers they share. Closing a
channel cancels what is queued in it, and cancelling a kick's message calls
`destroyPlayerCallback`, which takes the pool's lock (`Cancels`). A step ends where
the code waits for a lock that another thread may hold while waiting itself.
`ReceiveRequest` merges reading the datagram under the peer's lock with taking
`usr`. A request may be refused after the pool's lock was taken and before the peer
is asked for a channel (`RefuseRequest`), and at no other place: a listener that
waits for a lock goes on only when it gets it.

Left out: the number of players above which a request is refused (any may be); a
request of another version or with a wrong password, which changes nothing; the
answer to a refused request; the client of the server's own machine, which is never
dropped (`botId`); reconnection, which nothing calls; `sndCs`, `rcvCs` and the locks of channels;
the server's shutdown; user messages. Assumed: no datagram of a client arrives
after it has joined again, and no client draws one identity twice.

### 2.5 `StreamedWave`

`wave` is the `WaveOAL` object: `want` (`wantPlaying`), `playing`, `paused`
(`_isPaused`), `intent` (`_playIntent`), `loaded`, `failed` (`loadError`), `term`
(`terminated`), `looping`, `opened`, the ring's `free` and `inFlight`, the decoded
`chunks`, `offset`, `eof`, `latched` (`decodeInFlight`), `aborted`; and of OpenAL
the source's state, what is `queued` on it and how much of that is `done`. `main`
is where the main thread is between two locked sections of one call, `pump` where
the streaming pump is and what it holds on its stack. `fed` is history: the
chunk OpenAL is to be given next, or `Lost` from a rewind that overtook a decode to the
next one that does not. A chunk is its number in the track.

`PumpEnter` to `PumpDecide` hold `_audioMutex` (pass 1: drain, upload, decide);
`DecodeBegin` to `DecodeClear` run without it (pass 2: `DecodeOneChunk`), one step
per access to the object. `SourceAdvance` is OpenAL.

Left out: waves loaded in one piece, `curPosition` and the skipping of unheard
sound, volume and position, `everPlayed`, the chain of queued waves, stop values,
several waves at a time, and the pump's own start and stop.

### 2.6 `TaskPool`

`task` holds every task made: its kind (a loop of several indices, a loop of one,
which runs in place, or a submitted one), how many indices were taken from the
pipe and how many are still to finish. `pending` and `mutex` are `_pending` and
`_submitMutex`. `stack` is each thread's stack: pieces it runs, locks and tasks it
waits for. enkiTS is vendored and modelled from how the pool uses it: whoever waits
takes pieces of any task (`Take`, `Finish`). `ran` is history.

Left out: the loop of no index, which returns at once; a pipe that is full, where
enkiTS runs the piece in place; `ThreadCount` and `ResolveTaskPoolThreadCount`,
which are pure. Work may run loops of several indices, which wait for the pool's lock.
`Tangled` names the states in which the loop that holds it waits for a thread that
waits for it, see 3.3.

### 2.7 `DownloadWorker`

`runs` holds every run so far, a `Session` and the place of its thread;
`current`, `dialog`, `job` and `row` the dialog and the list of mods behind it. On
disk there are, per mod, the file in transfer (`part`), the archive and the
directory with its files and manifest. A file is known by the run that created it,
and a thread goes on writing to the file it opened after that was renamed or
removed, as on a POSIX system.

A run is `BeginItem`, `OpenPart`, `Receive`, `Transferred`, `RemoveArchive`,
`Rename`, `Unpack`, `OpenEntry`, `CloseEntry`, `OpenManifest`, `WriteManifest`,
`CompleteItem`, `Finish`, with the failures the code notices (`OpenRefused`,
`TransferFails`, `RenameFails`, `UnpackRefused`, `InstallFails`) and `Quit` and `Abort`
where the thread looks at `cancelRequested`.

What is written last may still be in a buffer when the file is closed. The code does
not look at the result in three places, and there a step of its own loses the end of the
file and goes on: `TransferLost` (`fclose`, MasterServerServiceClient.cpp:1070), after
which a short archive gets its final name; `EntryLost` (`fclose`, ModArchive.cpp:221,
which also stands for the decoded file of ModArchive.cpp:89); `ManifestLost`
(`out << text`, ModInstall.cpp:138), after which the function returns true. `OpenEntry`
and `OpenManifest` truncate what was there. `spent.unnoticed` is history: which run lost
what of which mod.

`Jobs` are the lists of mods that may be ticked, in the order of the list
(`BuildCheckedDownloadTasks`, OptionsUIApp.cpp:1382). `Restart` ends the process at any
moment; the next one scans the directories. `late` and `overlapped` are history.

Left out: speed and remaining time, HTTP, the list of mods but for what it offers,
the join of a modded server, which mounts through the same worker, and what Windows
does to files that are open.

### 2.8 `UserMessages`

The two channels are those of `NetChannel`; their messages are the parts.
`sent[e]` are the messages end e sends, each with its size in parts and the parts
submitted so far; `split[e][c]` the lists `split` and `splitUrgent`; `received[e]` the
queue; `shown[e]` is history.

`SendMsg` and `SendNextPart` submit one part each, between which both threads of the
channel go on and no other call begins, since the caller keeps its lock.
`ReceiveUser` is the channel's `HandOver` together with `clientReceive` or
`serverReceive`, which run under the receiver's lock; `ProcessUserMessages` takes one
message from the queue, because the code leaves that lock to show it.

The properties speak of streams: `Sent` and `Shown` are the whole messages of a
stream that were sent and shown, `PartsSent` and `PartsHanded` the parts that the
channels were given and handed over, each a selection (`Select`) from a sequence. They
hold of an end as long as it is `Undisturbed`: its masks turned no serial down and
left no guaranteed message behind that was not handed over. In the code the masks
span 65536 serials; a message they leave behind is taken for a repetition when it
arrives (NetChannel.cpp:428), so that its stream goes on without it or waits for it.

Left out: messages that are not guaranteed, which are neither split nor ordered;
channels that close; the server's queue being common to its clients, and their
lookup by channel; `RemoveUserMessages`. `serverReceive` takes it that it finds the
lists of its client (NetTransportNet.cpp:351), which may be gone when the player is
destroyed at that moment; the model has no players. That a message cannot be
allocated (NetTransportNet.cpp:2424, where a lock is left that is not held) does not
happen: `newMessage` never returns null.

## 3. Runs

`CHECK_DEADLOCK FALSE` is set everywhere because a finished workload with its
budgets used up is a proper end. No run uses symmetry: the ends of a channel
differ in their workload, clients in what they draw, and liveness is checked where
threads are alike. For the channel, small parameters stand for the code's:
`AckArray` 8 or less for 1024, `OldAcks` 8 or less for 8, `MaxBitMask` 16 or less
for 65536, `GoodBitMask` 4 or less for 4096. They make rings wrap and windows move
within a few serials.

| Run | Checks | Instance, and why it is enough |
| --- | --- | --- |
| `streams` | `ShownInOrder`, `OpenerThere` | three parts one way, as any mix of urgent and regular messages of one to three parts, in any order: the queues overtake one another, datagrams are reordered, the game looks whenever it likes. Three is the least that puts a message between the parts of another, and a part between the first and the last |
| `repeats` | `NothingForgotten`, `NotReprocessed`, `DeferredWaits`, `ControlWordOwner`, `PredecessorNumbered` | guaranteed messages, one loss, one ping, a receiver that may close at any moment: every order of repetition, acknowledgement, wake-up of a successor and measurement, and repetitions that go in front |
| `limits` | `TypeOK`, `HandedInOrder`, `NoneLeftOut`, `AckedIsSafe`, `RingMatchesMask`, `NeverNewAgain` | two guaranteed messages and one that is not, whose serial moves masks of a single serial past a guaranteed message that has not arrived (`LeftBehind` is reached: without its condition `NoneLeftOut` is violated here); rings of one and two slots that wrap at both ends; repetition, and acknowledgements of one end that come on the heartbeats of the other |
| `delivery` | `DeliversAll`, `ShowsAll` | `FairSpec`, one loss, two messages of one part or one of two: the channels implement `OrderedDelivery` of parts, and what is built on them `OrderedDelivery` of messages, with its liveness. Two parts are enough for one to wait for the repetition of another |
| `players` | `TypeOK`, `TablesAgree`, `GameInStep`, `PlayersStay`, `KickEnds` | `FairSpec`; two clients that join three times between them and draw from two identities, two tries per identity, one kick or drop: a repeated request meets a player that is there, gone or being kicked off, a client comes back to its address before the server knows it left |
| `wave` | `TypeOK`, `RingConserved`, `AheadBounded`, `FedInOrder`, `EofIsTheEnd`, `TerminalIsSticky`, `DestroyEnds`, `UnderrunRecovers`, `PlayStarts` | `FairSpec`; every call in any order, the code's ring of 4, a track that announces 6 chunks and yields 5, looping or not, OpenAL may refuse: each call meets each step of the pump, the ring wraps, the track ends before it is expected to |
| `pool` | `TypeOK`, `GoneIsDone`, `OwnedOnce`, `NothingHangs` | `FairSpec`; two workers and four tasks: loops of one and three indices, submissions, work that runs a loop of one index or two, shutdown at any moment. Two indices are enough for a nested loop to need the lock, which a loop holds or other work waits for |
| `download` | `TypeOK`, `DoneIsInstalled`, `ArchiveIsWhole`, `PartIsInHand`, `CancelIsQuiet`, `BarNeverBack`, `CancelledEnds` | `FairSpec`; two mods, one of unknown size, two files each, ticked together or the second alone; two runs that may overlap, one failure, noticed or not, one restart |
| `far_serial` | `NotReprocessed`, violated | see findings |
| `wave_rewind` | `OvertakenBails`, violated | see findings |
| `wave_freed` | `DecodesAlive`, violated | see findings |
| `download_twice` | `DoneIsAlwaysInstalled`, violated | see findings |

Each property of a passing run has a mutant in `PROJECT.json`: a plausible bug in
one definition, under which TLC finds the property violated in the same instance.

### 3.1 Fairness

* `NetChannel`: weak fairness of the two threads of each end. Whatever `udpSend`
  (NetPeer.cpp:404) and `udpListen` (NetPeer.cpp:215) keep finding to do gets done,
  because both are endless loops that visit each channel on each turn, and the
  timers of `tick` come due. It includes the user's routine returning. It asks
  nothing of users, of the network's losses (their number is bounded), of pings or
  of `Expire`.
* `UserMessages`: the same; a call of `SendMsg` that began ends, and the game calls
  `ProcessUserMessages` on every frame. No message needs to be sent.
* `PlayerSession`: weak fairness of the sender, of the listener once it has a
  request in hand and of the game's thread once it removes a player. A thread that waits
  for a lock goes on when the lock is free. No client needs to do anything, no datagram to arrive.
* `StreamedWave`: frames come (`Commit`, `Poll`), calls that began go on
  (`MainStep`), the pump ticks and OpenAL plays. The first three need `_audioMutex`
  and get strong fairness: the pump sleeps 10 ms of each tick with the lock free, so
  a main thread that wants it again and again gets it. No call needs to come.
* `TaskPool`: weak fairness of each thread: it finishes what it runs, and looks for
  work.
* `DownloadWorker`: weak fairness of what each thread does by itself, and of the
  dialog's frame. Nothing is asked of the server: a transfer may stall for ever.

That every message of a channel is acknowledged in the end is not claimed. An
acknowledgement that arrives between `sendto` and `postSend` finds no message (the
sender's table does not hold it yet) and its message is repeated; nothing in the
code prevents that from happening each time, and each heartbeat uses up a serial.

### 3.2 Findings

* `far_serial`. `inputStatistics` turns down a serial too far from the window
  (NetChannel.cpp:608), but returns nothing, and `processData` goes on with the
  message: it is processed although it is recorded nowhere. When it is repeated
  it is processed again, and the assertion of processVIM (NetChannel.cpp:505)
  fails.
* `wave_freed`. The pump may have passed its check of `aborted` when `~WaveOAL` sets
  it, and latch `decodeInFlight` after the destructor has seen it clear
  (WaveOAL.cpp:115, WaveOAL.cpp:432). The destructor then takes the lock as soon as
  the pump leaves it, and the decode runs on a freed wave. WaveOAL.hpp:230 says it
  cannot.
* `wave_rewind`. `DoStop` rewinds the track under `_audioMutex` while a decode may be
  under way without it. The comment at WaveOAL.cpp:1099 says that the worker notices
  `aborted` and bails before it pushes more chunks; `DoStop` does not set `aborted`, and
  the decode looks at it only at its start (WaveOAL.cpp:568). It stores its offset over
  the rewound one or, if it had stored it before, pushes a chunk from the middle of the
  track in front of its beginning.
* `download_twice`. A thread that is unpacking is never told of a cancellation. When
  the dialog is closed and opened again it may rewrite the files of a mod that the
  second dialog says is installed (DownloadWorker.cpp:94).

### 3.3 What else the models show

No run keeps these; each is what TLC answers to the question named.

* `PlayerSession`, `~Crossed` as an invariant of `players`: violated.
  `destroyPlayerCallback` (NetTransportNet.cpp:2041) takes the peer's lock, the
  pool's and then the users'; `ctrlReceive` the users', the pool's and the peer's.
  When a kick is sent while a client joins, the two threads wait for each other and
  the server stops. The same happens when the player that is being kicked leaves, or is
  found dropped by the game's thread: `finishDestroyPlayer` has the users' lock and
  closes the channel, which cancels a message about a kick and so takes the pool's.
  `KickEnds` excepts all of these; it says that nothing else keeps a kick from ending.
* `PlayerSession`, `PlayersStay` without `player[a] = asked[a]`: violated. A client
  whose identity was taken is given one above it, but a repeated request is
  recognised by searching downwards from the identity it asks for
  (NetTransportNet.cpp:546): it kicks off the player it made. No property covers a client
  with a shifted identity.
* `PlayerSession`, `PlayersStay` without `Apart`, `Identities == {1, 2}`: violated. A
  late request of a client's earlier connection, with an identity less than
  `UniqueToTry` above the present one, is taken for a repetition of the present
  one, or for the reason to kick it off. It does not matter what other clients drew.
* `PlayerSession`: a client that joins again may take the answer its old channel
  still repeats for that to its new request.
* `NetChannel`, `ClosedIsSilent` with an end that closes: violated. `close` promises
  to discard registrations (NetChannel.hpp:122), but `processVIM` calls the user's
  routine outside the lock (NetChannel.cpp:510): the routine may be called after
  `close` returned. The transport lives with it because its routine looks up the
  player again.
* `StreamedWave`, `LoadedHasSource` as an invariant of `wave`: violated. `Unload` deletes
  the source but leaves the stream open, so that the next `DoPlay` does not make a
  new one: the wave counts as loaded and stays silent. `SwitchOutputDevice` has the
  same effect on a wave that plays. `GivenBack` excepts such waves from `PlayStarts` and
  `UnderrunRecovers`.
* `StreamedWave`, `PlayStarts` or `UnderrunRecovers` without `wave.eof`: violated. Once the
  end of the track is flagged a source is not started any more, so that a track that fits
  into the ring may never be heard, its last chunk may be left after a starvation, and a
  wave that is told to loop during the decode of its last chunk does not go on.
* `StreamedWave`, `UnderrunRecovers` without `wave.paused`: violated. A wave that was
  paused and is started by `Play` rather than `Resume` keeps `_paused` (the branch of
  `DoPlay` for streams, WaveOAL.cpp:1002, does not clear it). The comment at
  WaveOAL.cpp:532 says that a starvation is recovered from; it is not while the flag is
  set, until `Resume` or `Stop`. The game need not do anything unusual: a pause and a play.
* `StreamedWave`, `PlayStarts` without its condition on `main`: violated by calls of
  `Repeat` without end, each of which rewinds the wave before it has started.
* `StreamedWave`, `EndIsHeard` as an invariant of `wave`: violated. The
  end of the track is flagged before its last chunk is queued, and a starved source
  at that moment counts as ended.
* `TaskPool`, `NothingHangs` without `Tangled`: violated in `pool`. TaskPool.hpp:52
  allows loops from within a task, but a loop keeps the lock while it waits
  (TaskPool.cpp:121). When its own work runs another loop of several indices, on a worker
  or on the thread that waits, that loop waits for the lock for ever.
* `DownloadWorker`, `DoneIsInstalled` with `Installed` for `AsFarAsSeen`: violated. After
  a last write that failed unnoticed (ModArchive.cpp:221, ModInstall.cpp:138) the job
  ends done with a truncated file.
* `DownloadWorker`, `ArchiveIsWhole` without `Lost`: violated. After an unnoticed failure
  of `fclose` (MasterServerServiceClient.cpp:1070) a short archive has its final name. It
  is refused when it is unpacked, and the run fails.
* `DownloadWorker`, that a row which shows a mod as downloaded has its directory whole:
  violated after a restart. Its directory is enough for it to count
  (ModCollection.cpp:148).

## 4. Proofs

Each theorem is about every value of the constants that the module's assumption
allows; the assumptions ask no more than the code does (there are two ends, arrays
are not empty, identities are naturals). The invariants below were checked by TLC
on small instances before they were proved.

### 4.1 The channel: types and streams

`NetChannelProofs` proves `TypeCorrect`, that `TypeOK` is an invariant of `Spec`
for every pair of ends, workload and value of the parameters.

`TypeOK` says more than that variables have types. Every identity a queue, the
table of sent messages, the chain ends, a datagram, a waiting message or the
user's history holds names a message its sender made; every serial is one that
was given out; the ring of old acknowledgements always keeps the empty slot that
tells full from empty; and the user's routine only runs for an activation of
`processVIM` that exists. It is inductive as it stands, with two conjuncts that
are there for induction only: budgets bound one another, and `handing` implies a
nonempty stack.

The argument has three layers. First, facts on sequences: what `Append`,
`Tail`, `InsertAt` and concatenation do to the range of a queue. Second, one
lemma per operator that changes an output side (`PutMessageOK`, `BeatOK`,
`ReplyToOK`, `AckInOK`, `SentOK`) or an input side (`InputStatisticsOK`,
`InputResentOK`, `AdmitOK`, `ProcessedOK`, `AckOutOK`): the result is well
formed, and messages only become more (`Keeps`), so references elsewhere stay
valid. Third, one lemma per action, which composes these with what the action
leaves alone (`SenderStep`, `ListenerStep`). The assumptions are
`EndAssumption` (two ends) and `ParameterAssumption` (naturals, positive where
the code divides by them or counts with them, and `GoodBitMask < MaxBitMask`).

`NetChannelStreams` proves two theorems about ordered delivery.
`PredecessorAlwaysNumbered`: a message leaves only after its predecessor has a
serial number, which the assertion on `control2` in `setOutputData` relies on.
`NothingLeftOut`: when a guaranteed message reaches the user, all those of its
stream that were submitted before it have, however far the masks have moved, as long
as they left nothing behind that was not handed over (`LeftBehind`). That premise is
the code's: what the window left behind is given up, and `HandedInOrder` says what
remains of the order then.

Neither property is inductive. Handing a message over in order takes that its
datagram told the truth about its predecessor, which takes that the predecessor
had a serial by then, which takes that the two stood in the right order in a
queue into which repetitions and answers to pings are put in front. The
invariant `OrderInv` follows that chain.

* `SndInv`, for each output side: serials are used once (`SerialsUsedOnce`);
  `pred` is the last message of the stream before it (`Chained`); what left has
  a predecessor that left (`PredecessorsLeft`); in each queue a predecessor that
  has not left stands in front (`QueueOrdered`); while the channel is open, the
  chain ends and the queues know every message that has not left (`Registered`).
* `NetInv`, for each datagram: it carries the serials of its message and of the
  predecessor of that (`Truthful`).
* `RcvInv`, for each input side: what waits is truthful and waits at the right
  place; while the channel is open, what is on the stack of `processVIM` follows
  something processed or left behind (`StackReady`), and what is marked as processed
  was handed over (`ProcessedHanded`); and while the masks left nothing behind
  (`KeptUp`), what was handed over has no gap (`NoGap`). `HandingReady` carries the
  first over a `close` that comes while the user's routine runs, after which
  `deferred` is empty and messages are marked as processed without being handed over.

A step of one end reaches the other only as `Follows`: messages keep what
identifies them and new serials are larger than the old ones.

### 4.2 The channel: records

`NetChannelRecords` proves the other safety properties of the channel, in three
layers.

* `OutInv`, for each output side: no message stands in two of the queues, the table
  of sent messages and `prepared`, or twice in one; those of an open channel stand
  somewhere; what answers a ping has no predecessor. With `StreamsNumbered` (serials
  of a stream grow with its messages) it is inductive for each end by itself. It
  gives `NothingForgotten` and `ControlWordOwner`.
* `InInv`, for each input side: the ring and the mask agree where both apply
  (`RingOK`); nothing waits for what was processed; and as long as no serial was
  turned down, what waits was received, was not processed, and waits in one place
  (`Orderly`). It gives `RingMatchesMask` and `DeferredWaits`. With `Onward`, that a
  step of an input side forgets nothing, it gives the action property
  `NeverNewAgain`.
* `PairInv`, for each input side and the output side at the other end: every
  serial in the masks was given out; a message whose serial is marked or lies behind the
  masks has none before it in its stream that is neither (`Behind`); what was handed
  over is such a message (`HandedPassed`) and came in order (`InOrder`); an open
  receiver has what it acknowledges (`HasWhatItAcks`); and what the output side counts
  as acknowledged, and what the datagrams on their way to it acknowledge, was
  received (`ToldTruly`). It gives `HandedInOrder` and `AckedIsSafe`.

`HandedInOrder` needs no premise on the masks, unlike `NothingLeftOut`: a message
handed over late, after the window left its predecessor behind, is still later in
its stream than all before it, because what the masks left behind counts as passed
(`Passed`) and will not be handed over any more.

`NotReprocessed` does not hold in general: run `far_serial` violates it. What is
proved is that this is the only way, `ReprocessedOnlyWhenRejected`: as long as
`inputStatistics` turned no serial down at any end, no serial is processed a second
time. In the run `repeats` no serial can be turned down, so the run checks the same.

### 4.3 The players of a server

`PlayerSessionProofs` proves four theorems for any number of addresses,
identities and kicks. `TypeCorrect` has the types, among them that a queued kick
belongs to an open channel. `TablesAlwaysAgree`: the tables of players, channels
and partial messages tell the same players, although three threads change them.
`GameAlwaysInStep`: what the game knows and what it is still to be told add up to
the players there are.

`TablesAgree` and `GameInStep` are inductive only together with `TypeOK` and `InHand`, which says that
the listener goes on with an identity that its client drew or that a player has.
`GameInStep` needs `TablesAgree` because a player is looked up by its channel, which
must be its own; `TablesAgree` needs that `FreeFrom` finds a number in the range
that is free, for which `SmallestOf` shows that a nonempty set of naturals has a
least element. `DestroyKeeps` and `CreateKeeps` cover the two operations that change
tables; there is one lemma for each thread (`ListenerKeeps`, `SenderKeeps`,
`GameKeeps`, `ClientKeeps`), with a step for each action. The assumption
`SessionAssumption` says that there is an address, that identities are naturals and
that at least one is tried.

`PlayersAlwaysStay`: a client that is in under the identity it drew stays a player
until it leaves, is kicked off or is found dropped itself. A player is removed because of
a kick, of a request taken for a second connection, of a leave, or of a dropped channel,
and the removal may come long after its reason. The invariant `Meant` therefore says of
everything under way whose it is: a queued kick is about the player that still has
its channel (`KicksMeant`), the request in the listener's hands was drawn by the client it
came from (`RequestMeant`), and one of an earlier connection finds nothing yet
that it could take from the present one (`StaleIsHarmless`). `SettledStay` is the
property, for clients that have taken the answer and those that still may. An earlier
form of the property excused clients near whose identity another client drew one. TLC
refuted it with three identities and four joins, and the proof shows why: what other
clients drew does not matter, what the client itself drew before does.

### 4.4 Streamed waves

`StreamedWaveProofs` proves for every ring, track and choice of calls: `TypeCorrect`;
`RingAlwaysConserved`, no buffer of the ring is lost or used twice;
`AheadAlwaysBounded`, the pump never has more ahead than the ring takes, although it
decides under the lock and decodes without it; `TerminalAlwaysSticky`, an action
property.

The invariant has three layers. `Sound` is what every method keeps of the object:
the ring's counts, and that a wave without a source has nothing queued on it; buffers
that died with a source stay counted as in flight.
`Within` keeps what the pump decodes within the track. `Inv` joins the two with the
types: the wave is `Sound` with room for as many chunks as the pump is decoding. The
room is what makes `AheadBounded` inductive: it was there under the lock, and
whatever the main thread does meanwhile only makes more. `Sound` also needs that a
source that is playing or paused has something left to play, since a buffer counts as
played only when it was queued. The assumption is
`WaveAssumption` (a ring and a track that are not empty).

`FedAlwaysInOrder` and `EofAlwaysTheEnd` hold of every behaviour, but say nothing while
`fed` is `Lost`: from a rewind (`Stop`, `Repeat`, `LastLoop`) that overtakes a decode
(`Overtaken`, the race of run `wave_rewind`) to a rewind that does not. `FedInv` has three
cases: nothing is said, or what follows holds, or the wave was given up. `OrderInv` says
that what is queued, what is decoded ahead, the chunk in
the pump's hands and the offset follow one another, the track's end being followed by
its start. When OpenAL refuses a buffer a chunk is lost, but there is never more
than one ahead (`Sparse`, from the ring's counts), and the wave is given up with it
(`Stranded`), so that no later chunk follows the gap; only the end may then have been flagged
before its chunk was queued.

### 4.5 The task pool

`TaskPoolProofs` proves for any number of workers, loops, sub-ranges and depth of
nesting: `LoopsAreWhole`, a task is destroyed only when each of its indices was run
exactly once, and `TasksAreOwned`, the pool's list holds each submitted task once
until it is deleted. `Inv` says of each task that what is counted as open, what was handed
out and what was run agree (`TaskOK`); of each frame of each thread's stack that its
piece was handed out and not counted yet (`FrameOK`); and of any two frames that
their pieces do not overlap (`PairOK`), even those of one thread that runs
another piece of a loop while it waits for it. That a finished loop has run every
index takes a lemma on cardinalities: a set of as many indices as there are is all
of them.

### 4.6 Mod downloads

`DownloadWorkerProofs` proves for any mods, sizes, retries and failures, noticed or not:

* `Quiet`, a run cancelled before its last look at the flag reports neither success
  nor failure, and `BarGoesOn`, an action property, for archives no larger than
  announced; both from `Shape`, which
  says at each place of the thread what its counters and flags are, and that the
  dialog follows the last run.
* `NoPartLeft`: a `.part` file lies only under the hands of a run, as long as no
  process was killed.
* `ArchivesWhole` and `DoneMeansInstalled`, as long as no two runs overlapped (which
  the finding `download_twice` shows is needed), for archives and files but those whose
  last write failed where the code does not look (which 3.3 shows is needed): from
  `Files`, what of a mod is on the disk, or lost unnoticed, when its run is at a given
  place, the mods before it included. Crashes are allowed. `DoneMeansInstalled` is about
  every file the archive has and the manifest, whatever an earlier run or a crash left
  in the directory.

### 4.7 Ordered delivery, and the messages of the game

`DeliveryProofs` proves that what the two users of a connection see is
`OrderedDelivery`, twice over and for every value of the constants.
`ChannelDelivers`: the channels implement it for the guaranteed messages of each
stream. `GameDelivers`: channels and transport together implement it for whole
messages, which may be split and whose parts other messages may overtake. Both are
about the behaviours in which every end stays `Undisturbed`. The steps of the
promise are `Submit` and `Hand`, and the theorems tell which step is which:

| Step of the code's model | for the parts | for the messages |
| --- | --- | --- |
| `Dispatch` | `Submit` of the part | `Submit` of the message if the part is its last |
| `HandOver`, `ReceiveUser` | `Hand` of the part | none: the message is queued |
| `ProcessUserMessages` | none | `Hand` of the message |
| every other | none | none |

The abstract state is a selection from a sequence, `Select(s, I)`: what stands in `s`
at the places in `I`, counted from the first. It is defined by the number of places
up to one and not by recursion over `s`. The first part of the module has what follows
from that: a place behind the others appends one element (`SelectGrows`), and a
selection that increases and leaves nothing out goes through what it is selected
from (`GoesThrough`), which turns the two invariants `HandedInOrder` and `NoneLeftOut`
into a prefix. That every number up to the number of places has a place takes an
induction (see 4.8).

For the parts the rest is to see that only `Dispatch` adds a guaranteed message
(`NextQuiet`) and that what `HandOver` adds is the next of its stream
(`HandOverHands`), from the invariants of 4.1 and 4.2.

For the messages the inductive invariant is `Connection`, proved as `GameCorrect`:

* `Records`: all that 4.1 and 4.2 prove of the channels, which the transport only
  restricts.
* `Composition`: the messages of an end are composed of the guaranteed messages of
  its channel. Each of these is one part of one message (`Owned`, `Covered`), the
  parts stand in the channel in the order of the messages (`Arranged`), and only the
  newest message may lack some (`Sized`), which is what the lock of `SendMsg` is for.
* `GameInv`, for each end that is undisturbed. What waits in `split` of a stream are the
  first parts of the message whose part was handed over last, and nothing when that
  was complete (`SplitInv`). What is complete is in the queue or was shown; the queue
  is sorted; what was shown came in the order of its stream and before what of its
  stream is still queued (`QueueInv`).

`QueueInv` is where sorting by serials could go wrong. A message gets the serial of its
last part, serials are given when a part leaves and not when it is submitted, and
repetitions leave again with their old ones; what is shown may have a higher serial
than what is queued later. It does not matter within a stream, since the serials of a
stream grow with its messages (`StreamsNumbered`, 4.2) and the channel hands over
in order: when a message becomes whole all those of its stream before it are (`SplitNext`), so
that it is put behind those still queued (`WholeQueued`) and what is first in the queue is
the next of its stream (`WholeShown`).

The premise is in the invariant as well as in the theorems, since an end that was
disturbed may be disturbed for good: `Undisturbed` in the next state implies
it in this one (`UndisturbedBefore`), because what was left behind is not handed over
any more.

`GameShown` and `OpenerAlwaysThere` state the two properties of the run `streams`, both
from `Connection`. `GameDelivers` needs besides that a step keeps what it does not change of
each stream.

### 4.8 What is only model-checked

Every invariant and action property of a passing run is stated by a theorem;
`NotReprocessed` holds under the condition that 4.2 gives, and the run stays within it.

Only model-checked, for reasons of principle, are the liveness properties `DeliversAll`, `ShowsAll`,
`KickEnds`, `DestroyEnds`, `UnderrunRecovers`, `PlayStarts`, `NothingHangs` and
`CancelledEnds`: fairness and ENABLED are beyond the prover. Of the two refinements,
`DeliversAll` and `ShowsAll` add to what is proved that each message is handed over in
the end.

The library's induction theorems take a predicate as a parameter, which the provers
cannot instantiate. The natural numbers are well-founded without one, and the lemma
`Induction` of `DeliveryProofs` derives induction for a set from that. Structural
induction over sequences is not needed: what would be defined by recursion, such as a
filtered sequence, is defined by counting.

## 5. Not modelled

See the components of `PROJECT.json`: each part that is left out is listed with
the reason. The engine has some 570000 lines, most of them sequential, numeric,
graphics or vendored; the models cover the parts where several actors share state,
and a small share of the lines.

## 6. Plan

1. `UserMessages`: the server's queue that its clients share, with the players of
   `PlayerSession` coming and going; messages that are not guaranteed.
2. What remains of a stream after the masks left a message behind: whether the
   successors wait for ever or go on without it, and what the game sees of a
   message that lacks a part.
3. The session's state machine of `NetworkServer`: game states and joining in
   progress, over `PlayerSession`.
4. Retries of the master server client; the request queue of the file server.
