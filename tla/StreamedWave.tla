---------------------------- MODULE StreamedWave ----------------------------
(***************************************************************************)
(* A streamed (OGG) WaveOAL, shared by three actors: the main thread, which*)
(* plays, pauses, stops and destroys it; the streaming pump of             *)
(* SoundSystemOAL, which decodes chunks of PCM and queues them on the      *)
(* OpenAL source; and OpenAL itself, which plays what is queued.           *)
(*                                                                         *)
(* _audioMutex makes the main thread's locked methods atomic; the pump     *)
(* holds it from PumpEnter to PumpDecide and decodes without it.           *)
(***************************************************************************)
EXTENDS Integers, Sequences

CONSTANTS
    NumBuffers,  \* StreamingBuffers::kNumBuffers
    Chunks,      \* length of the track in chunks, by its header
    Decodable,   \* chunks the codec really yields
    Loops,       \* whether the track is set to loop when it is opened
    Calls,       \* what the main thread may call
    CanFail      \* whether OpenAL may refuse a buffer or a source

ASSUME WaveAssumption ==
    /\ NumBuffers \in Nat \ {0}
    /\ Chunks \in Nat \ {0}
    /\ Decodable \in 1 .. Chunks
    /\ Loops \subseteq BOOLEAN
    /\ CanFail \in BOOLEAN

VARIABLES
    wave,  \* the WaveOAL object and its OpenAL source
    main,  \* where the main thread is, between two of its locked sections
    pump,  \* where the pump is, and what it holds outside the object
    fed    \* history: the chunk the source should be given next, or Lost

vars == <<wave, main, pump, fed>>

MainAt == {"idle", "unload", "revive", "replay", "wait", "free", "freed"}
PumpAt == {"asleep", "pass", "decide", "begin", "read", "store", "mark",
           "push", "clear"}
Source == {"none", "initial", "playing", "paused", "stopped"}

\* There is no telling which chunk comes next: a rewind overtook a decode.
Lost == Chunks

NewWave ==
    [want |-> FALSE, playing |-> FALSE, paused |-> FALSE, intent |-> FALSE,
     loaded |-> FALSE, failed |-> FALSE, term |-> FALSE, looping |-> FALSE,
     opened |-> FALSE, free |-> 0, inFlight |-> 0, chunks |-> <<>>,
     offset |-> 0, eof |-> FALSE, latched |-> FALSE, aborted |-> FALSE,
     src |-> "none", queued |-> <<>>, done |-> 0]

Init ==
    /\ \E l \in Loops : wave = [NewWave EXCEPT !.looping = l]
    /\ main = "idle"
    /\ pump = [at |-> "asleep", off |-> 0, last |-> FALSE]
    /\ fed = 0
-----------------------------------------------------------------------------
(***************************************************************************)
(* What the methods do to the wave w.                                      *)
(***************************************************************************)
\* alSourcePlay: a source that is not paused starts at the head of its queue,
\* buffers already played included; with an empty queue it stops at once.
SourcePlay(w) ==
    IF w.src \in {"none", "paused"}
    THEN [w EXCEPT !.src = IF @ = "none" THEN "none" ELSE "playing"]
    ELSE [w EXCEPT !.src = IF w.queued = <<>> THEN "stopped" ELSE "playing",
                   !.done = 0]

Started(w) == [SourcePlay(w) EXCEPT !.playing = TRUE, !.term = FALSE]

\* Variant, a bug the runs must detect: only a source that never ran is
\* started.
RecoverableFirst(w) ==
    /\ w.src = "initial" /\ w.queued # <<>>
    /\ ~w.failed /\ ~w.aborted
    /\ w.intent /\ ~w.paused /\ ~w.term /\ ~w.eof

\* UpdateStreamingPlayback restarts an idle source that has something queued.
Recoverable(w) ==
    /\ w.src \in {"initial", "stopped"} /\ w.queued # <<>>
    /\ ~w.failed /\ ~w.aborted
    /\ w.intent /\ ~w.paused /\ ~w.term /\ ~w.eof

Update(w) == IF Recoverable(w) THEN Started(w) ELSE w

\* OpenStreaming: ok tells whether OpenAL granted the buffers and the source.
OpenStreaming(w, ok) ==
    IF ~ok THEN [w EXCEPT !.failed = TRUE]
    ELSE [w EXCEPT !.opened = TRUE, !.free = NumBuffers, !.inFlight = 0,
                   !.chunks = <<>>, !.offset = 0, !.eof = FALSE,
                   !.latched = FALSE, !.aborted = FALSE, !.src = "initial"]

\* Variant, a bug the runs must detect: a first play that finds nothing
\* queued is forgotten.
FirstPlayOnce(w, ok) ==
    LET opened == IF w.opened THEN w ELSE OpenStreaming(w, ok)
        ready  == Update([opened EXCEPT !.loaded = TRUE])
    IN  IF opened.failed THEN opened
        ELSE IF ready.inFlight > 0 THEN Started(ready) ELSE ready

\* DoPlay on a wave whose OpenAL resources are not open.
FirstPlay(w, ok) ==
    LET armed  == [w EXCEPT !.intent = TRUE]
        opened == IF w.opened THEN armed ELSE OpenStreaming(armed, ok)
        ready  == Update([opened EXCEPT !.loaded = TRUE])
    IN  IF opened.failed THEN opened
        ELSE IF ready.inFlight > 0 THEN Started(ready) ELSE ready

\* Variant, a bug the runs must detect: resuming decodes from the start.
ReplayRewinding(w) ==
    IF w.src = "none" THEN w
    ELSE Started(Update([w EXCEPT !.intent = TRUE, !.offset = 0]))

\* DoPlay on a wave that was played before.
Replay(w) ==
    IF w.src = "none" THEN w
    ELSE Started(Update([w EXCEPT !.intent = TRUE]))

DoPlay(w, ok) ==
    IF w.term \/ w.playing \/ w.failed THEN w
    ELSE IF w.loaded THEN Replay(w) ELSE FirstPlay(w, ok)

Rewinds(w) == w.playing /\ w.src # "none"

\* The pump has read where to decode and not yet handed the chunk over: what
\* it writes back next is from before a rewind that comes now.
Overtaken == pump.at \in {"read", "store", "mark", "push"}

FedFromStart == IF Overtaken THEN Lost ELSE 0

\* Variant, a bug the runs must detect: buffers taken off the source are
\* given back, but still counted.
DoStopCounting(w) ==
    LET quiet == [w EXCEPT !.want = FALSE, !.intent = FALSE, !.paused = FALSE,
                           !.playing = FALSE]
    IN  IF ~Rewinds(w) THEN quiet
        ELSE [quiet EXCEPT !.src = "stopped", !.queued = <<>>, !.done = 0,
                           !.free = @ + Len(w.queued),
                           !.chunks = <<>>, !.offset = 0, !.eof = FALSE]

\* DoStop empties the queues and rewinds, unless the wave is not playing.
DoStop(w) ==
    LET quiet == [w EXCEPT !.want = FALSE, !.intent = FALSE, !.paused = FALSE,
                           !.playing = FALSE]
    IN  IF ~Rewinds(w) THEN quiet
        ELSE [quiet EXCEPT !.src = "stopped", !.queued = <<>>, !.done = 0,
                           !.free = @ + Len(w.queued), !.inFlight = 0,
                           !.chunks = <<>>, !.offset = 0, !.eof = FALSE]

\* Unload deletes the source, with whatever is queued on it.
Unload(w) ==
    IF ~w.loaded THEN w
    ELSE [w EXCEPT !.src = "none", !.queued = <<>>, !.done = 0,
                   !.loaded = FALSE]

\* IsStreamingUnderrun: the source may be idle, but the track has not ended.
Underrun(w) == ~(w.eof /\ w.inFlight = 0)

Ended(w) == w.playing /\ w.src = "stopped" /\ ~Underrun(w)
-----------------------------------------------------------------------------
(***************************************************************************)
(* The main thread.  Methods that take _audioMutex wait for the pump.      *)
(***************************************************************************)
LockFree == pump.at \notin {"pass", "decide"}

Call(c) == c \in Calls /\ main = "idle"

Play ==
    /\ Call("play") /\ ~wave.term /\ ~wave.playing
    /\ wave' = [wave EXCEPT !.want = TRUE]
    /\ UNCHANGED <<main, pump, fed>>

Resume ==
    /\ Call("resume") /\ ~wave.term /\ ~wave.failed /\ ~wave.playing
    /\ wave' = [wave EXCEPT !.paused = FALSE, !.want = TRUE]
    /\ UNCHANGED <<main, pump, fed>>

Pause ==
    /\ Call("pause") /\ LockFree /\ wave.playing
    /\ wave' = [wave EXCEPT !.src = IF @ = "playing" THEN "paused" ELSE @,
                            !.playing = FALSE, !.paused = TRUE, !.want = FALSE]
    /\ UNCHANGED <<main, pump, fed>>

\* SoundSystemOAL::Commit, once a frame.
Commit ==
    /\ main = "idle" /\ LockFree
    /\ \E ok \in {TRUE, ~CanFail} :
          wave' = Update(IF wave.want
                         THEN [DoPlay(wave, ok) EXCEPT !.want = FALSE]
                         ELSE wave)
    /\ UNCHANGED <<main, pump, fed>>

\* Variant, a bug the runs must detect: the end is noticed, not kept.
PollNow ==
    /\ main = "idle" /\ LockFree /\ ~wave.want
    /\ wave' = [wave EXCEPT !.playing = @ /\ ~Ended(wave),
                            !.intent = @ /\ ~Ended(wave),
                            !.term = Ended(wave) \/ wave.failed]
    /\ UNCHANGED <<main, pump, fed>>

\* IsTerminated and IsStopped notice the end of the track.
Poll ==
    /\ main = "idle" /\ LockFree /\ ~wave.want
    /\ wave' = [wave EXCEPT !.playing = @ /\ ~Ended(wave),
                            !.intent = @ /\ ~Ended(wave),
                            !.term = @ \/ Ended(wave) \/ wave.failed]
    /\ UNCHANGED <<main, pump, fed>>

\* Stop and Restart: DoStop under the lock, then Unload without it.
Stop ==
    /\ LockFree
    /\ \/ Call("stop") /\ main' = "unload"
       \/ Call("restart") /\ main' = "revive"
    /\ wave' = DoStop(wave)
    /\ fed' = IF Rewinds(wave) THEN FedFromStart ELSE fed
    /\ UNCHANGED pump

StopUnload ==
    /\ main \in {"unload", "revive"}
    /\ wave' = [Unload(wave) EXCEPT !.term = @ /\ main = "unload"]
    /\ main' = "idle"
    /\ UNCHANGED <<pump, fed>>

\* Repeat and LastLoop stop and replay a wave that is playing, in two
\* locked sections.
SetLooping(many) ==
    /\ IF many THEN Call("repeat") ELSE Call("lastLoop") /\ wave.looping
    /\ LockFree
    /\ LET w == [wave EXCEPT !.looping = many]
       IN  IF Rewinds(wave)
           THEN wave' = DoStop(w) /\ main' = "replay" /\ fed' = FedFromStart
           ELSE wave' = w /\ UNCHANGED <<main, fed>>
    /\ UNCHANGED pump

\* Repeat(1) only lets the track end.
RepeatOnce ==
    /\ Call("repeat")
    /\ wave' = [wave EXCEPT !.looping = FALSE]
    /\ UNCHANGED <<main, pump, fed>>

ReplayAgain ==
    /\ main = "replay" /\ LockFree
    /\ wave' = DoPlay(wave, TRUE)
    /\ main' = "idle"
    /\ UNCHANGED <<pump, fed>>

\* SwitchOutputDevice unloads every wave before it destroys the context.
SwitchDevice ==
    /\ Call("switch") /\ LockFree
    /\ wave' = Unload(wave)
    /\ UNCHANGED <<main, pump, fed>>

\* ~WaveOAL: tell the pump to give up, wait for its decode, take the lock.
Destroy ==
    /\ Call("destroy")
    /\ wave' = [wave EXCEPT !.aborted = TRUE]
    /\ main' = "wait"
    /\ UNCHANGED <<pump, fed>>

DestroyWaited ==
    /\ main = "wait" /\ ~wave.latched
    /\ main' = "free"
    /\ UNCHANGED <<wave, pump, fed>>

Free ==
    /\ main = "free" /\ LockFree
    /\ main' = "freed"
    /\ wave' = [wave EXCEPT !.src = "none", !.queued = <<>>, !.done = 0]
    /\ UNCHANGED <<pump, fed>>
-----------------------------------------------------------------------------
(***************************************************************************)
(* The pump.  What it does to a freed wave is undefined: it stops there.   *)
(***************************************************************************)
At(here) == pump.at = here /\ main # "freed"

Goto(there) == pump' = [pump EXCEPT !.at = there]

\* Pass 1, under the lock, for a wave that is registered, open and in use.
PumpEnter ==
    /\ At("asleep") /\ Goto("pass")
    /\ wave.src # "none" /\ ~wave.failed /\ ~wave.aborted
    /\ UNCHANGED <<wave, main, fed>>

\* Variant, a bug the runs must detect: buffers not yet played are reused.
DrainedAll ==
    [wave EXCEPT !.free = @ + wave.inFlight,
                 !.inFlight = IF @ > wave.done THEN @ - wave.done ELSE 0,
                 !.queued = SubSeq(@, wave.done + 1, Len(@)), !.done = 0]

\* Jobs (1) and (2): take back the buffers that were played.
Drained ==
    [wave EXCEPT !.free = @ + wave.done,
                 !.inFlight = IF @ > wave.done THEN @ - wave.done ELSE 0,
                 !.queued = SubSeq(@, wave.done + 1, Len(@)), !.done = 0]

\* n chunks go to the source; one whose source was deleted refuses them.
Uploaded(w, n) ==
    [w EXCEPT !.free = @ - n, !.inFlight = @ + n,
              !.queued = IF w.src = "none" THEN @
                         ELSE @ \o SubSeq(w.chunks, 1, n),
              !.chunks = SubSeq(@, n + 1, Len(@))]

Uploads(w) == IF w.free < Len(w.chunks) THEN w.free ELSE Len(w.chunks)

After(c) == IF c + 1 = Decodable THEN 0 ELSE c + 1

PumpPass ==
    /\ At("pass") /\ Goto("decide")
    /\ wave' = Uploaded(Drained, Uploads(Drained))
    /\ fed' = IF Uploads(Drained) = 0 \/ fed = Lost THEN fed
              ELSE After(wave.chunks[Uploads(Drained)])
    /\ UNCHANGED main

\* alBufferData fails: the chunk is lost and the wave is aborted.
PumpRefused ==
    /\ CanFail /\ Uploads(Drained) > 0
    /\ At("pass") /\ Goto("asleep")
    /\ \E n \in 0 .. Uploads(Drained) - 1 :
          wave' = [Uploaded(Drained, n) EXCEPT !.chunks = Tail(@),
                                               !.aborted = TRUE]
    /\ UNCHANGED <<main, fed>>

\* Variant, a bug the runs must detect: chunks on the source do not count.
NeedMoreAhead(w) == ~w.eof /\ Len(w.chunks) < NumBuffers

NeedMore(w) == ~w.eof /\ Len(w.chunks) + w.inFlight < NumBuffers

PumpDecide ==
    /\ At("decide")
    /\ Goto(IF NeedMore(wave) /\ ~wave.latched THEN "begin" ELSE "asleep")
    /\ wave' = [wave EXCEPT !.latched = @ \/ NeedMore(wave)]
    /\ UNCHANGED <<main, fed>>

\* Pass 2, DecodeOneChunk without the lock: what to read.
Over(w)   == w.offset >= Chunks /\ ~w.looping
GivenUp(w) == w.aborted \/ w.failed \/ w.eof

DecodeBegin ==
    LET off == IF wave.offset >= Chunks THEN 0 ELSE wave.offset
    IN  /\ At("begin") /\ ~GivenUp(wave) /\ ~Over(wave)
        /\ pump' = [at |-> "read", off |-> off,
                    last |-> off + 1 >= Chunks /\ ~wave.looping]
        /\ wave' = [wave EXCEPT !.offset = off]
        /\ UNCHANGED <<main, fed>>

\* Variant, a bug the runs must detect: an early return keeps the latch.
DecodeNothingLatched ==
    /\ At("begin")
    /\ GivenUp(wave) \/ Over(wave)
    /\ Goto("asleep")
    /\ wave' = [wave EXCEPT !.eof = @ \/ ~GivenUp(wave)]
    /\ UNCHANGED <<main, fed>>

DecodeNothing ==
    /\ At("begin")
    /\ GivenUp(wave) \/ Over(wave)
    /\ Goto("clear")
    /\ wave' = [wave EXCEPT !.eof = @ \/ ~GivenUp(wave)]
    /\ UNCHANGED <<main, fed>>

\* Variant, a bug the runs must detect: any chunk ends the track.
DecodeReadLast ==
    /\ At("read") /\ pump.off < Decodable
    /\ pump' = [pump EXCEPT !.at = "store", !.last = ~wave.looping]
    /\ UNCHANGED <<wave, main, fed>>

\* GetData: a chunk, cut short perhaps if the track is shorter than announced.
DecodeRead ==
    /\ At("read") /\ pump.off < Decodable
    /\ \E short \in {FALSE, pump.off + 1 = Decodable /\ Decodable < Chunks} :
          pump' = [pump EXCEPT !.at = "store",
                               !.last = @ \/ (short /\ ~wave.looping)]
    /\ UNCHANGED <<wave, main, fed>>

DecodeEmpty ==
    /\ At("read") /\ pump.off >= Decodable
    /\ Goto("clear")
    /\ wave' = IF wave.looping THEN [wave EXCEPT !.offset = 0]
               ELSE [wave EXCEPT !.eof = TRUE]
    /\ UNCHANGED <<main, fed>>

DecodeStore ==
    /\ At("store") /\ Goto("mark")
    /\ wave' = [wave EXCEPT !.offset = pump.off + 1]
    /\ UNCHANGED <<main, fed>>

DecodeMark ==
    /\ At("mark") /\ Goto("push")
    /\ wave' = [wave EXCEPT !.eof = @ \/ pump.last]
    /\ UNCHANGED <<main, fed>>

DecodePush ==
    /\ At("push") /\ Goto("clear")
    /\ wave' = [wave EXCEPT !.chunks = Append(@, pump.off)]
    /\ UNCHANGED <<main, fed>>

DecodeClear ==
    /\ At("clear") /\ Goto("asleep")
    /\ wave' = [wave EXCEPT !.latched = FALSE]
    /\ UNCHANGED <<main, fed>>
-----------------------------------------------------------------------------
\* OpenAL plays the next queued buffer to its end; with the last one the
\* source stops.
SourceAdvance ==
    /\ wave.src = "playing"
    /\ wave' = [wave EXCEPT !.done = @ + 1,
                            !.src = IF wave.done + 1 < Len(wave.queued)
                                    THEN "playing" ELSE "stopped"]
    /\ UNCHANGED <<main, pump, fed>>

PumpStep ==
    \/ PumpEnter \/ PumpPass \/ PumpRefused \/ PumpDecide
    \/ DecodeBegin \/ DecodeNothing \/ DecodeRead \/ DecodeEmpty
    \/ DecodeStore \/ DecodeMark \/ DecodePush \/ DecodeClear

\* What the main thread goes on with by itself.
MainStep == StopUnload \/ ReplayAgain \/ DestroyWaited \/ Free

Next ==
    \/ Play \/ Resume \/ Pause \/ Stop \/ SwitchDevice \/ Destroy
    \/ RepeatOnce \/ \E many \in BOOLEAN : SetLooping(many)
    \/ MainStep \/ Commit \/ Poll
    \/ PumpStep
    \/ SourceAdvance

\* Frames, the pump's ticks and playback go on; the calls need not come.  The
\* pump leaves the lock free while it sleeps, 10 ms of every tick: a main
\* thread that wants it again and again gets it.
Fairness ==
    /\ SF_vars(MainStep) /\ SF_vars(Commit) /\ SF_vars(Poll)
    /\ WF_vars(PumpStep) /\ WF_vars(SourceAdvance)

Spec == Init /\ [][Next]_vars

FairSpec == Spec /\ Fairness
-----------------------------------------------------------------------------
(***************************************************************************)
(* Properties.                                                             *)
(***************************************************************************)
WaveType ==
    [want : BOOLEAN, playing : BOOLEAN, paused : BOOLEAN, intent : BOOLEAN,
     loaded : BOOLEAN, failed : BOOLEAN, term : BOOLEAN, looping : BOOLEAN,
     opened : BOOLEAN, free : 0 .. NumBuffers, inFlight : 0 .. NumBuffers,
     chunks : Seq(0 .. Chunks - 1), offset : 0 .. Chunks, eof : BOOLEAN,
     latched : BOOLEAN, aborted : BOOLEAN, src : Source,
     queued : Seq(0 .. Chunks - 1), done : 0 .. NumBuffers]

\* The types of wave, main, pump and fed; counts of buffers stay within the
\* ring and offsets within the track.
TypeOK ==
    /\ wave \in WaveType
    /\ main \in MainAt
    /\ pump \in [at : PumpAt, off : 0 .. Chunks, last : BOOLEAN]
    /\ fed \in 0 .. Chunks

Decoding == pump.at \in {"begin", "read", "store", "mark", "push", "clear"}

Coming == IF Decoding /\ pump.at # "clear" THEN 1 ELSE 0

\* While the source lives, every buffer of the ring is either free or queued
\* on it, and buffersInFlight counts the queued ones: pump and main thread
\* give back exactly what they took, DoStop's hand-back included.
RingConserved ==
    wave.src # "none" => /\ wave.inFlight = Len(wave.queued)
                         /\ wave.free + wave.inFlight = NumBuffers

\* Chunks decoded ahead never exceed the ring, the one being decoded
\* included, even when DoStop empties the queues during the decode.
AheadBounded ==
    Len(wave.chunks) + wave.inFlight + Coming <= NumBuffers

\* The chunk the ring is given next is the one the queue, the decode under way
\* and the offset agree on: nothing is skipped, repeated or left from before,
\* from a rewind that found no decode under way on.
Ahead == wave.chunks \o (IF pump.at \in {"store", "mark", "push"}
                         THEN <<pump.off>> ELSE <<>>)

FedInOrder ==
    fed # Lost =>
        /\ \A i \in DOMAIN Ahead :
              Ahead[i] = IF i = 1 THEN fed ELSE After(Ahead[i - 1])
        /\ \A i \in 2 .. Len(wave.queued) :
              wave.queued[i] = After(wave.queued[i - 1])

\* The end of the track is flagged only once its last chunk is decoded, so
\* that what is ahead completes the track, unless the wave was given up with
\* a chunk that OpenAL refused.
EofIsTheEnd ==
    wave.eof /\ fed # Lost /\ ~wave.aborted =>
        \/ fed = 0 /\ Ahead = <<>>
        \/ Ahead # <<>> /\ Ahead[Len(Ahead)] = Decodable - 1

\* A decode that a rewind overtook bails before it pushes its chunk: a chunk is
\* pushed only while the offset is still right behind it.
OvertakenBails ==
    [][pump.at = "push" /\ wave'.chunks # wave.chunks
          => wave.offset = pump.off + 1]_vars

\* A wave that has terminated stays so, whatever frames, polls and calls other
\* than Restart come: IAudioSystem.hpp's Terminal is sticky.
TerminalIsSticky ==
    [][wave.term => wave'.term \/ main = "revive"]_vars

\* The wave cannot play any more: it was given up or is being destroyed, OpenAL
\* refused it a source, or its source was deleted while its track stays open.
GivenBack == \/ wave.aborted \/ wave.failed
             \/ wave.opened /\ wave.src = "none"

\* A looping track that is meant to play and starves is started again, unless
\* the game stops, pauses or ends it first.  _paused may be left from a pause
\* before the last Play: of the two ways through DoPlay, the one for streams
\* does not clear it.
UnderrunRecovers ==
    (wave.looping /\ wave.playing /\ wave.src = "stopped" /\ ~wave.eof)
        ~> \/ wave.src = "playing" \/ ~wave.playing
           \/ wave.paused \/ wave.eof \/ GivenBack

\* One Play is enough: a looping wave asked to play gets to play, unless it is
\* stopped or paused first, its end was decoded before it was told to loop, or
\* it cannot.
PlayStarts ==
    (wave.looping /\ (wave.want \/ wave.intent))
        ~> \/ wave.src = "playing" \/ main \in {"unload", "revive", "replay"}
           \/ wave.paused \/ wave.eof \/ GivenBack

\* The destructor waits for the pump's decode, and the pump always finishes it.
DestroyEnds == main = "wait" ~> main = "freed"

\* The pump never decodes into a wave that has been freed.
DecodesAlive == Decoding => main # "freed"

\* A wave that counts as loaded has its OpenAL source.
LoadedHasSource == wave.loaded => wave.src # "none"

\* A wave terminates by itself only when all its track was given to OpenAL.
EndIsHeard == wave.term => Ahead = <<>>
=============================================================================
