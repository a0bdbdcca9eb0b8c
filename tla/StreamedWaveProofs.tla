------------------------- MODULE StreamedWaveProofs -------------------------
(***************************************************************************)
(* For every ring, track and sequence of calls: the types of StreamedWave, *)
(* RingConserved and AheadBounded.  The induction is over Sound, which     *)
(* says of a wave what must hold wherever the three actors are; each       *)
(* method's lemma shows that it keeps Sound, and one step per action puts  *)
(* them together.  FedInOrder and EofIsTheEnd follow for the runs in which *)
(* no rewind overtakes a decode.                                           *)
(***************************************************************************)
EXTENDS StreamedWave, SequenceTheorems, TLAPS

\* The wave w is consistent, with room for n chunks that are being decoded.
\* A source that is not idle has something left to play.
\* A source exists only in an opened wave, and what is queued only on a source;
\* buffers that died with a source stay counted as in flight, so that the
\* counts of a wave that was opened always make up the ring.
Sound(w, n) ==
    /\ w \in WaveType
    /\ w.src = "none" => w.queued = <<>> /\ w.done = 0
    /\ ~w.opened => w.src = "none"
    /\ w.done <= Len(w.queued)
    /\ w.src \in {"playing", "paused"} => w.done < Len(w.queued)
    /\ w.free + w.inFlight <= NumBuffers
    /\ w.opened => w.free + w.inFlight = NumBuffers
    /\ w.src # "none" => /\ w.inFlight = Len(w.queued)
                         /\ w.free + w.inFlight = NumBuffers
    /\ Len(w.chunks) + w.inFlight + n <= NumBuffers

\* What is being decoded lies within the track.
Within ==
    /\ pump.at = "read" => pump.off < Chunks
    /\ pump.at \in {"store", "mark", "push"} => pump.off < Decodable

Inv ==
    /\ TypeOK
    /\ Sound(wave, Coming)
    /\ Within
-----------------------------------------------------------------------------
\* The values that the methods write are of the fields' types.
LEMMA Values ==
    /\ 0 \in 0 .. NumBuffers /\ NumBuffers \in 0 .. NumBuffers
    /\ 0 \in 0 .. Chunks
    /\ <<>> \in Seq(0 .. Chunks - 1) /\ Len(<<>>) = 0
    /\ {"none", "initial", "playing", "paused", "stopped"} \subseteq Source
BY WaveAssumption DEF Source

LEMMA SourcePlaySound ==
    ASSUME NEW w, NEW n \in {0, 1}, Sound(w, n)
    PROVE  Sound(SourcePlay(w), n)
<1>1. w \in WaveType
  BY DEF Sound
<1>2. CASE w.src = "none"
  <2>1. SourcePlay(w) = [w EXCEPT !.src = "none"]
    BY <1>2 DEF SourcePlay
  <2>2. [w EXCEPT !.src = "none"] = w
    BY <1>1, <1>2 DEF WaveType
  <2> QED
    BY <2>1, <2>2
<1>3. CASE w.src = "paused"
  <2>1. SourcePlay(w) = [w EXCEPT !.src = "playing"]
    BY <1>3 DEF SourcePlay
  <2>2. Sound([w EXCEPT !.src = "playing"], n)
    BY <1>3 DEF Sound, WaveType, Source
  <2> QED
    BY <2>1, <2>2
<1>4. CASE w.src \notin {"none", "paused"}
  <2>1. \/ SourcePlay(w) = [w EXCEPT !.src = "stopped", !.done = 0]
        \/ /\ SourcePlay(w) = [w EXCEPT !.src = "playing", !.done = 0]
           /\ w.queued # <<>>
    BY <1>4 DEF SourcePlay
  <2>2. ASSUME NEW t \in {"stopped", "playing"},
               t = "playing" => w.queued # <<>>
        PROVE  Sound([w EXCEPT !.src = t, !.done = 0], n)
    <3> DEFINE u == [w EXCEPT !.src = t, !.done = 0]
    <3>1. u \in WaveType
      BY <1>1, <2>2, Values DEF WaveType
    <3>2. /\ u.src = t /\ u.done = 0 /\ u.queued = w.queued
          /\ u.opened = w.opened /\ u.free = w.free
          /\ u.inFlight = w.inFlight /\ u.chunks = w.chunks
      BY <1>1 DEF WaveType
    <3>3. Len(w.queued) \in Nat /\ (t = "playing" => Len(w.queued) > 0)
      <4>1. w.queued \in Seq(0 .. Chunks - 1)
        BY <1>1 DEF WaveType
      <4> QED
        BY <2>2, <4>1, EmptySeq
    <3>4. t # "none" /\ w.src # "none"
      BY <1>4, <2>2
    <3>5. /\ w.opened /\ w.free + w.inFlight <= NumBuffers
          /\ w.inFlight = Len(w.queued) /\ w.free + w.inFlight = NumBuffers
          /\ Len(w.chunks) + w.inFlight + n <= NumBuffers
      BY <3>4 DEF Sound
    <3>6. /\ u.src # "none" /\ u.opened /\ u.done <= Len(u.queued)
          /\ u.src \in {"playing", "paused"} => u.done < Len(u.queued)
      BY <2>2, <3>2, <3>3, <3>4, <3>5
    <3>7. /\ u.free + u.inFlight <= NumBuffers
          /\ u.inFlight = Len(u.queued) /\ u.free + u.inFlight = NumBuffers
          /\ Len(u.chunks) + u.inFlight + n <= NumBuffers
      BY <3>2, <3>5
    <3> HIDE DEF u
    <3>8. Sound(u, n)
      BY <3>1, <3>6, <3>7 DEF Sound
    <3> QED
      BY <3>8 DEF u
  <2> QED
    BY <2>1, <2>2
<1> QED
  BY <1>2, <1>3, <1>4

LEMMA StartedSound ==
    ASSUME NEW w, NEW n \in {0, 1}, Sound(w, n)
    PROVE  Sound(Started(w), n)
<1> DEFINE p == SourcePlay(w)
<1>1. Sound(p, n)
  BY SourcePlaySound
<1>2. Started(w) = [p EXCEPT !.playing = TRUE, !.term = FALSE]
  BY DEF Started
<1> HIDE DEF p
<1> QED
  BY <1>1, <1>2 DEF Sound, WaveType

LEMMA UpdateSound ==
    ASSUME NEW w, NEW n \in {0, 1}, Sound(w, n)
    PROVE  Sound(Update(w), n)
BY StartedSound DEF Update

LEMMA OpenSound ==
    ASSUME NEW w, NEW n \in {0, 1}, NEW ok \in BOOLEAN, Sound(w, n), ~w.opened
    PROVE  Sound(OpenStreaming(w, ok), n)
<1> DEFINE fresh == [w EXCEPT !.opened = TRUE, !.free = NumBuffers,
                              !.inFlight = 0, !.chunks = <<>>, !.offset = 0,
                              !.eof = FALSE, !.latched = FALSE,
                              !.aborted = FALSE, !.src = "initial"]
<1>1. w \in WaveType /\ w.queued = <<>> /\ w.done = 0
  BY DEF Sound
<1>2. Len(<<>>) = 0 /\ <<>> \in Seq(0 .. Chunks - 1)
  OBVIOUS
<1>3. fresh \in WaveType
  BY <1>1, <1>2, Values DEF WaveType
<1>4. /\ fresh.opened /\ fresh.free = NumBuffers /\ fresh.inFlight = 0
      /\ fresh.chunks = <<>> /\ fresh.src = "initial"
      /\ fresh.queued = <<>> /\ fresh.done = 0
  BY <1>1 DEF WaveType
<1>5. OpenStreaming(w, ok) = IF ~ok THEN [w EXCEPT !.failed = TRUE] ELSE fresh
  BY DEF OpenStreaming
<1>6. Sound([w EXCEPT !.failed = TRUE], n)
  BY DEF Sound, WaveType
<1> HIDE DEF fresh
<1>7. Sound(fresh, n)
  BY <1>2, <1>3, <1>4, WaveAssumption DEF Sound
<1> QED
  BY <1>5, <1>6, <1>7

LEMMA DoPlaySound ==
    ASSUME NEW w, NEW n \in {0, 1}, NEW ok \in BOOLEAN, Sound(w, n)
    PROVE  Sound(DoPlay(w, ok), n)
<1> DEFINE armed == [w EXCEPT !.intent = TRUE]
<1>1. Sound(armed, n) /\ armed.opened = w.opened
  BY DEF Sound, WaveType
<1>2. CASE w.term \/ w.playing \/ w.failed
  BY <1>2 DEF DoPlay
<1>3. CASE ~(w.term \/ w.playing \/ w.failed) /\ w.loaded
  <2>1. DoPlay(w, ok) = Replay(w)
    BY <1>3 DEF DoPlay
  <2>2. Replay(w) = IF w.src = "none" THEN w ELSE Started(Update(armed))
    BY DEF Replay
  <2> HIDE DEF armed
  <2>3. Sound(Started(Update(armed)), n)
    BY <1>1, UpdateSound, StartedSound
  <2> QED
    BY <2>1, <2>2, <2>3
<1>4. CASE ~(w.term \/ w.playing \/ w.failed) /\ ~w.loaded
  <2> DEFINE opened == IF armed.opened THEN armed ELSE OpenStreaming(armed, ok)
             loaded == [opened EXCEPT !.loaded = TRUE]
             ready  == Update(loaded)
  <2>1. DoPlay(w, ok) = FirstPlay(w, ok)
    BY <1>4 DEF DoPlay
  <2>2. FirstPlay(w, ok) = IF opened.failed THEN opened
                           ELSE IF ready.inFlight > 0 THEN Started(ready)
                           ELSE ready
    BY <1>1 DEF FirstPlay
  <2> HIDE DEF armed
  <2>3. Sound(opened, n)
    BY <1>1, OpenSound
  <2> HIDE DEF opened
  <2>4. Sound(loaded, n)
    BY <2>3 DEF Sound, WaveType
  <2> HIDE DEF loaded
  <2>5. Sound(ready, n)
    BY <2>4, UpdateSound
  <2> HIDE DEF ready
  <2>6. Sound(Started(ready), n)
    BY <2>5, StartedSound
  <2> QED
    BY <2>1, <2>2, <2>3, <2>5, <2>6
<1> QED
  BY <1>2, <1>3, <1>4

LEMMA DoStopSound ==
    ASSUME NEW w, NEW n \in {0, 1}, Sound(w, n)
    PROVE  Sound(DoStop(w), n)
<1> DEFINE quiet == [w EXCEPT !.want = FALSE, !.intent = FALSE,
                              !.paused = FALSE, !.playing = FALSE]
           empty == [quiet EXCEPT !.src = "stopped", !.queued = <<>>,
                                  !.done = 0, !.free = @ + Len(w.queued),
                                  !.inFlight = 0, !.chunks = <<>>,
                                  !.offset = 0, !.eof = FALSE]
<1>1. /\ Sound(quiet, n) /\ quiet.opened = w.opened /\ quiet.free = w.free
      /\ quiet.src = w.src
  BY DEF Sound, WaveType
<1>2. DoStop(w) = IF ~Rewinds(w) THEN quiet ELSE empty
  BY DEF DoStop
<1>3. ASSUME Rewinds(w) PROVE Sound(empty, n)
  <2>1. w.src # "none" /\ w.free + Len(w.queued) = NumBuffers
    BY <1>3 DEF Rewinds, Sound
  <2>2. <<>> \in Seq(0 .. Chunks - 1) /\ Len(<<>>) = 0
    OBVIOUS
  <2> HIDE DEF quiet
  <2>3. /\ quiet \in WaveType /\ quiet.opened
        /\ quiet.free + Len(w.queued) = NumBuffers
    BY <1>1, <2>1 DEF Sound
  <2>4. empty \in WaveType
    BY <2>2, <2>3, Values DEF WaveType
  <2>5. /\ empty.src = "stopped" /\ empty.queued = <<>> /\ empty.done = 0
        /\ empty.free = NumBuffers /\ empty.inFlight = 0
        /\ empty.chunks = <<>> /\ empty.opened
    BY <2>3 DEF WaveType
  <2> HIDE DEF empty
  <2> QED
    BY <2>2, <2>4, <2>5, WaveAssumption DEF Sound
<1> HIDE DEF quiet, empty
<1> QED
  BY <1>1, <1>2, <1>3

LEMMA UnloadSound ==
    ASSUME NEW w, NEW n \in {0, 1}, Sound(w, n)
    PROVE  Sound(Unload(w), n)
<1> DEFINE bare == [w EXCEPT !.src = "none", !.queued = <<>>, !.done = 0,
                             !.loaded = FALSE]
<1>1. <<>> \in Seq(0 .. Chunks - 1) /\ Len(<<>>) = 0
  OBVIOUS
<1>2. w \in WaveType
  BY DEF Sound
<1>3. bare \in WaveType
  BY <1>1, <1>2, Values DEF WaveType
<1>4. /\ bare.src = "none" /\ bare.queued = <<>> /\ bare.done = 0
      /\ bare.free = w.free /\ bare.inFlight = w.inFlight
      /\ bare.chunks = w.chunks /\ bare.opened = w.opened
  BY <1>2 DEF WaveType
<1>5. Unload(w) = IF ~w.loaded THEN w ELSE bare
  BY DEF Unload
<1> HIDE DEF bare
<1>6. Sound(bare, n)
  BY <1>1, <1>3, <1>4 DEF Sound
<1> QED
  BY <1>5, <1>6

\* A part of a sequence is one of the same elements.
LEMMA Part ==
    ASSUME NEW S, NEW s \in Seq(S), NEW i \in Nat \ {0}, NEW j \in Nat,
           i <= j + 1, j <= Len(s)
    PROVE  SubSeq(s, i, j) \in Seq(S) /\ Len(SubSeq(s, i, j)) = j - i + 1
<1>1. \A k \in i .. j : s[k] \in S
  BY LenProperties
<1>2. i \in Int /\ j \in Int
  OBVIOUS
<1>3. /\ SubSeq(s, i, j) \in Seq(S)
      /\ Len(SubSeq(s, i, j)) = IF i <= j THEN j - i + 1 ELSE 0
  BY <1>1, <1>2, SubSeqProperties
<1> QED
  BY <1>3

LEMMA DrainedSound ==
    ASSUME NEW n \in {0, 1}, Sound(wave, n)
    PROVE  Sound(Drained, n) /\ Drained.chunks = wave.chunks
<1> DEFINE left == SubSeq(wave.queued, wave.done + 1, Len(wave.queued))
           d    == Drained
<1>1. wave \in WaveType
  BY DEF Sound
<1>2. /\ wave.queued \in Seq(0 .. Chunks - 1) /\ Len(wave.queued) \in Nat
      /\ wave.done \in 0 .. NumBuffers /\ wave.free \in 0 .. NumBuffers
      /\ wave.inFlight \in 0 .. NumBuffers
      /\ wave.done <= Len(wave.queued)
  BY <1>1 DEF WaveType, Sound
<1>3. left \in Seq(0 .. Chunks - 1) /\ Len(left) = Len(wave.queued) - wave.done
  <2> DEFINE T == 0 .. Chunks - 1
             q == wave.queued
             i == wave.done + 1
  <2>1. q \in Seq(T)
    BY <1>2
  <2>2. i \in Nat \ {0} /\ Len(q) \in Nat /\ i <= Len(q) + 1 /\ Len(q) <= Len(q)
    BY <1>2
  <2>3. wave.done = i - 1 /\ left = SubSeq(q, i, Len(q)) /\ wave.done \in Nat
    BY <1>2
  <2> HIDE DEF T, q, i, left
  <2>4. left \in Seq(T) /\ Len(left) = Len(q) - i + 1
    BY <2>1, <2>2, <2>3, Part
  <2>5. Len(left) = Len(q) - wave.done
    BY <2>2, <2>3, <2>4
  <2> QED
    BY <2>4, <2>5 DEF T, q
<1>4. wave.src = "none" => left = <<>> /\ wave.done = 0
  <2> SUFFICES ASSUME wave.src = "none" PROVE left = <<>> /\ wave.done = 0
    OBVIOUS
  <2>1. wave.queued = <<>> /\ wave.done = 0
    BY DEF Sound
  <2>2. Len(left) = 0
    BY <1>3, <2>1
  <2> QED
    BY <1>3, <2>1, <2>2, EmptySeq
<1>5. wave.done <= wave.inFlight /\ wave.free + wave.done \in 0 .. NumBuffers
  BY <1>1, <1>2, WaveAssumption DEF Sound, WaveType
<1> HIDE DEF left
<1>6. /\ d.free = wave.free + wave.done /\ d.queued = left /\ d.done = 0
      /\ d.src = wave.src /\ d.opened = wave.opened /\ d.chunks = wave.chunks
  BY <1>1 DEF Drained, WaveType, left
<1>7. d.inFlight = wave.inFlight - wave.done
  BY <1>1, <1>2, <1>5 DEF Drained, WaveType
<1>8. d \in WaveType
  <2>1. wave.inFlight - wave.done \in 0 .. NumBuffers
    BY <1>2, <1>5, WaveAssumption
  <2>2. (IF wave.inFlight > wave.done THEN wave.inFlight - wave.done ELSE 0)
           \in 0 .. NumBuffers
    BY <2>1, Values
  <2> QED
    BY <1>1, <1>3, <1>5, <2>2, Values DEF Drained, WaveType, left
<1> HIDE DEF d
<1>9. Sound(d, n)
  <2>1. /\ d.done <= Len(d.queued)
        /\ d.src \in {"playing", "paused"} => d.done < Len(d.queued)
    BY <1>2, <1>3, <1>6 DEF Sound
  <2>2. /\ d.free + d.inFlight <= NumBuffers
        /\ d.opened => d.free + d.inFlight = NumBuffers
    BY <1>2, <1>6, <1>7, WaveAssumption DEF Sound
  <2>3. d.src # "none" => /\ d.inFlight = Len(d.queued)
                          /\ d.free + d.inFlight = NumBuffers
    BY <1>2, <1>3, <1>6, <1>7, WaveAssumption DEF Sound
  <2>4. Len(d.chunks) + d.inFlight + n <= NumBuffers
    <3>1. Len(wave.chunks) \in Nat
      BY <1>1 DEF WaveType
    <3> QED
      BY <1>2, <1>5, <1>6, <1>7, <3>1, WaveAssumption DEF Sound
  <2> QED
    BY <1>4, <1>6, <1>8, <2>1, <2>2, <2>3, <2>4 DEF Sound
<1> QED
  BY <1>6, <1>9 DEF d

LEMMA UploadedSound ==
    ASSUME NEW w, NEW n \in {0, 1}, Sound(w, n), NEW k \in 0 .. Uploads(w)
    PROVE  /\ Sound(Uploaded(w, k), n)
           /\ Len(Uploaded(w, k).chunks) = Len(w.chunks) - k
<1> DEFINE up   == SubSeq(w.chunks, 1, k)
           rest == SubSeq(w.chunks, k + 1, Len(w.chunks))
           more == IF w.src = "none" THEN w.queued ELSE w.queued \o up
           u    == Uploaded(w, k)
<1>1. w \in WaveType
  BY DEF Sound
<1>2. /\ w.queued \in Seq(0 .. Chunks - 1) /\ w.chunks \in Seq(0 .. Chunks - 1)
      /\ Len(w.queued) \in Nat /\ Len(w.chunks) \in Nat
      /\ w.free \in 0 .. NumBuffers /\ w.inFlight \in 0 .. NumBuffers
      /\ w.done \in 0 .. NumBuffers
  BY <1>1 DEF WaveType
<1>3. k \in Nat /\ k <= w.free /\ k <= Len(w.chunks)
  BY <1>2, WaveAssumption DEF Uploads
<1>4. up \in Seq(0 .. Chunks - 1) /\ Len(up) = k
  <2> DEFINE T == 0 .. Chunks - 1
             q == w.chunks
             i == 1
             j == k
  <2>1. q \in Seq(T)
    BY <1>2
  <2>2. i \in Nat \ {0} /\ j \in Nat /\ i <= j + 1 /\ j <= Len(q)
    BY <1>2, <1>3
  <2>3. up = SubSeq(q, i, j) /\ j - i + 1 = k
    BY <1>2, <1>3
  <2> HIDE DEF T, q, i, j, up
  <2>4. up \in Seq(T) /\ Len(up) = j - i + 1
    BY <2>1, <2>2, <2>3, Part
  <2> QED
    BY <2>3, <2>4 DEF T, q
<1>5. rest \in Seq(0 .. Chunks - 1) /\ Len(rest) = Len(w.chunks) - k
  <2> DEFINE T == 0 .. Chunks - 1
             q == w.chunks
             i == k + 1
             j == Len(w.chunks)
  <2>1. q \in Seq(T)
    BY <1>2
  <2>2. i \in Nat \ {0} /\ j \in Nat /\ i <= j + 1 /\ j <= Len(q)
    BY <1>2, <1>3
  <2>3. rest = SubSeq(q, i, j) /\ j - i + 1 = Len(q) - k
    BY <1>2, <1>3
  <2> HIDE DEF T, q, i, j, rest
  <2>4. rest \in Seq(T) /\ Len(rest) = j - i + 1
    BY <2>1, <2>2, <2>3, Part
  <2> QED
    BY <2>3, <2>4 DEF T, q
<1> HIDE DEF up, rest
<1>6. /\ more \in Seq(0 .. Chunks - 1)
      /\ Len(more) = IF w.src = "none" THEN Len(w.queued) ELSE Len(w.queued) + k
  BY <1>2, <1>4, ConcatProperties
<1>7. w.free - k \in 0 .. NumBuffers /\ w.inFlight + k \in 0 .. NumBuffers
  BY <1>2, <1>3, WaveAssumption, SMTT(30) DEF Sound
<1>8. /\ u.free = w.free - k /\ u.inFlight = w.inFlight + k /\ u.chunks = rest
      /\ u.queued = more /\ u.src = w.src /\ u.opened = w.opened
      /\ u.done = w.done
  BY <1>1 DEF Uploaded, WaveType, up, rest
<1>9. u \in WaveType
  BY <1>1, <1>5, <1>6, <1>7 DEF Uploaded, WaveType, up, rest
<1> HIDE DEF u
<1>10. Sound(u, n)
  <2>1. w.src = "none" => more = <<>> /\ u.done = 0
    BY <1>8 DEF Sound
  <2> HIDE DEF more
  <2>2. /\ u.done <= Len(u.queued)
        /\ u.src \in {"playing", "paused"} => u.done < Len(u.queued)
    BY <1>2, <1>3, <1>6, <1>8 DEF Sound
  <2>3. /\ u.free + u.inFlight <= NumBuffers
        /\ u.opened => u.free + u.inFlight = NumBuffers
    BY <1>2, <1>3, <1>8, WaveAssumption DEF Sound
  <2>4. u.src # "none" => /\ u.inFlight = Len(u.queued)
                          /\ u.free + u.inFlight = NumBuffers
    <3>1. SUFFICES ASSUME w.src # "none"
                   PROVE  /\ u.inFlight = Len(u.queued)
                          /\ u.free + u.inFlight = NumBuffers
      BY <1>8
    <3>2. Len(u.queued) = Len(w.queued) + k
      BY <1>6, <1>8, <3>1
    <3>3. w.inFlight = Len(w.queued) /\ w.free + w.inFlight = NumBuffers
      BY <3>1 DEF Sound
    <3>4. u.inFlight = Len(u.queued)
      BY <1>8, <3>2, <3>3
    <3>5. w.free \in Int /\ w.inFlight \in Int /\ k \in Int
      BY <1>2, <1>3
    <3>6. (w.free - k) + (w.inFlight + k) = w.free + w.inFlight
      BY <3>5
    <3>7. u.free + u.inFlight = NumBuffers
      BY <1>8, <3>3, <3>6
    <3> QED
      BY <3>4, <3>7
  <2>5. Len(u.chunks) + u.inFlight + n <= NumBuffers
    BY <1>2, <1>3, <1>5, <1>8, WaveAssumption DEF Sound
  <2> QED
    BY <1>8, <1>9, <2>1, <2>2, <2>3, <2>4, <2>5 DEF Sound
<1> QED
  BY <1>5, <1>8, <1>10 DEF u
-----------------------------------------------------------------------------
LEMMA InitInv ==
    ASSUME Init PROVE Inv
<1>1. PICK l \in Loops : wave = [NewWave EXCEPT !.looping = l]
  BY DEF Init
<1>2. l \in BOOLEAN
  BY WaveAssumption
<1>3. wave \in WaveType
  BY <1>1, <1>2, Values DEF NewWave, WaveType
<1>4. /\ wave.src = "none" /\ wave.queued = <<>> /\ wave.done = 0
      /\ wave.free = 0 /\ wave.inFlight = 0 /\ wave.chunks = <<>>
      /\ ~wave.opened
  BY <1>1 DEF NewWave
<1>5. Coming = 0 /\ Within
  BY DEF Init, Coming, Decoding, Within
<1>6. Sound(wave, Coming)
  BY <1>3, <1>4, <1>5, Values, WaveAssumption DEF Sound
<1>7. TypeOK
  BY <1>3, Values, WaveAssumption DEF Init, TypeOK, MainAt, PumpAt
<1> QED
  BY <1>5, <1>6, <1>7 DEF Inv

\* The calls of the main thread and OpenAL's progress leave the pump alone.
OtherStep ==
    \/ Play \/ Resume \/ Pause \/ Stop \/ SwitchDevice \/ Destroy
    \/ RepeatOnce \/ \E many \in BOOLEAN : SetLooping(many)
    \/ MainStep \/ Commit \/ Poll \/ SourceAdvance

LEMMA ComingType == Coming \in {0, 1}
BY DEF Coming

LEMMA OtherSound ==
    ASSUME Inv, OtherStep
    PROVE  Sound(wave', Coming) /\ pump' = pump
<1> DEFINE n == Coming
<1>1. n \in {0, 1} /\ Sound(wave, n) /\ wave \in WaveType
  BY ComingType DEF Inv, TypeOK
<1> HIDE DEF n
<1>2. CASE Play
  BY <1>1, <1>2 DEF Play, Sound, WaveType, n
<1>3. CASE Resume
  BY <1>1, <1>3 DEF Resume, Sound, WaveType, n
<1>4. CASE Pause
  <2>1. wave' = [wave EXCEPT
                    !.src = IF wave.src = "playing" THEN "paused" ELSE wave.src,
                    !.playing = FALSE, !.paused = TRUE, !.want = FALSE]
    BY <1>4 DEF Pause
  <2>2. wave' \in WaveType
    BY <1>1, <2>1, Values DEF WaveType
  <2>3. /\ wave'.src = (IF wave.src = "playing" THEN "paused" ELSE wave.src)
        /\ wave'.queued = wave.queued /\ wave'.done = wave.done
        /\ wave'.opened = wave.opened /\ wave'.free = wave.free
        /\ wave'.inFlight = wave.inFlight /\ wave'.chunks = wave.chunks
    BY <1>1, <2>1 DEF WaveType
  <2>4. (wave'.src = "none") <=> (wave.src = "none")
    BY <2>3
  <2>5. Sound(wave', n)
    BY <1>1, <2>2, <2>3, <2>4 DEF Sound
  <2> QED
    BY <1>4, <2>5 DEF Pause, n
<1>5. CASE Stop
  BY <1>1, <1>5, DoStopSound DEF Stop, n
<1>6. CASE SwitchDevice
  BY <1>1, <1>6, UnloadSound DEF SwitchDevice, n
<1>7. CASE Destroy
  BY <1>1, <1>7 DEF Destroy, Sound, WaveType, n
<1>8. CASE RepeatOnce
  BY <1>1, <1>8 DEF RepeatOnce, Sound, WaveType, n
<1>9. ASSUME NEW many \in BOOLEAN, SetLooping(many)
      PROVE  Sound(wave', n) /\ pump' = pump
  <2> DEFINE w == [wave EXCEPT !.looping = many]
  <2>1. Sound(w, n)
    BY <1>1 DEF Sound, WaveType
  <2>2. pump' = pump /\ (wave' = DoStop(w) \/ wave' = w)
    BY <1>9 DEF SetLooping
  <2> HIDE DEF w
  <2> QED
    BY <1>1, <2>1, <2>2, DoStopSound
<1>10. CASE StopUnload
  <2> DEFINE u == Unload(wave)
  <2>1. Sound(u, n)
    BY <1>1, UnloadSound
  <2>2. wave' = [u EXCEPT !.term = u.term /\ main = "unload"] /\ pump' = pump
    BY <1>10 DEF StopUnload
  <2> HIDE DEF u
  <2>3. (u.term /\ main = "unload") \in BOOLEAN
    OBVIOUS
  <2> QED
    BY <2>1, <2>2, <2>3 DEF Sound, WaveType, n
<1>11. CASE ReplayAgain
  BY <1>1, <1>11, DoPlaySound DEF ReplayAgain, n
<1>12. CASE DestroyWaited
  BY <1>1, <1>12 DEF DestroyWaited, n
<1>13. CASE Free
  <2> DEFINE u == [wave EXCEPT !.src = "none", !.queued = <<>>, !.done = 0]
  <2>1. u \in WaveType
    BY <1>1, Values DEF WaveType
  <2>2. /\ u.src = "none" /\ u.queued = <<>> /\ u.done = 0
        /\ u.free = wave.free /\ u.inFlight = wave.inFlight
        /\ u.chunks = wave.chunks /\ u.opened = wave.opened
    BY <1>1 DEF WaveType
  <2>3. wave' = u /\ pump' = pump
    BY <1>13 DEF Free
  <2> HIDE DEF u
  <2>4. Sound(u, n)
    BY <1>1, <2>1, <2>2, Values DEF Sound
  <2> QED
    BY <2>3, <2>4 DEF n
<1>14. CASE Commit
  <2>1. PICK ok \in {TRUE, ~CanFail} :
           wave' = Update(IF wave.want
                          THEN [DoPlay(wave, ok) EXCEPT !.want = FALSE]
                          ELSE wave)
    BY <1>14 DEF Commit
  <2>2. ok \in BOOLEAN
    BY <2>1, WaveAssumption
  <2> DEFINE p == DoPlay(wave, ok)
             q == [p EXCEPT !.want = FALSE]
  <2>3. Sound(p, n)
    BY <1>1, <2>2, DoPlaySound
  <2>4. wave' = Update(IF wave.want THEN q ELSE wave)
    BY <2>1
  <2> HIDE DEF p
  <2>5. Sound(q, n)
    BY <2>3 DEF Sound, WaveType
  <2> HIDE DEF q
  <2>6. Sound(Update(q), n) /\ Sound(Update(wave), n)
    BY <1>1, <2>5, UpdateSound
  <2> QED
    BY <1>14, <2>4, <2>6 DEF Commit, n
<1>15. CASE Poll
  <2> DEFINE p == wave.playing /\ ~Ended(wave)
             i == wave.intent /\ ~Ended(wave)
             t == wave.term \/ Ended(wave) \/ wave.failed
  <2>1. wave' = [wave EXCEPT !.playing = p, !.intent = i, !.term = t]
    BY <1>15 DEF Poll
  <2>2. p \in BOOLEAN /\ i \in BOOLEAN /\ t \in BOOLEAN
    OBVIOUS
  <2> HIDE DEF p, i, t
  <2>3. Sound(wave', n)
    BY <1>1, <2>1, <2>2 DEF Sound, WaveType
  <2> QED
    BY <1>15, <2>3 DEF Poll, n
<1>16. CASE SourceAdvance
  <2>1. wave.src = "playing" /\ pump' = pump
    BY <1>16 DEF SourceAdvance
  <2> DEFINE t == IF wave.done + 1 < Len(wave.queued) THEN "playing" ELSE "stopped"
             u == [wave EXCEPT !.done = wave.done + 1, !.src = t]
  <2>2. wave' = u
    BY <1>16 DEF SourceAdvance
  <2>3. /\ wave.done \in Nat /\ wave.inFlight \in 0 .. NumBuffers
        /\ wave.free \in Nat /\ Len(wave.queued) \in Nat
    BY <1>1 DEF WaveType
  <2>4. /\ wave.done < Len(wave.queued) /\ wave.inFlight = Len(wave.queued)
        /\ wave.opened /\ wave.free + wave.inFlight = NumBuffers
        /\ Len(wave.chunks) + wave.inFlight + n <= NumBuffers
    BY <1>1, <2>1 DEF Sound
  <2>5. wave.done + 1 \in 0 .. NumBuffers
    BY <2>3, <2>4, WaveAssumption
  <2>6. t \in {"playing", "stopped"}
        /\ (t = "playing" => wave.done + 1 < Len(wave.queued))
    OBVIOUS
  <2> HIDE DEF t
  <2>7. u \in WaveType
    BY <1>1, <2>5, <2>6, Values DEF WaveType
  <2>8. /\ u.src = t /\ u.done = wave.done + 1 /\ u.queued = wave.queued
        /\ u.opened /\ u.free = wave.free
        /\ u.inFlight = wave.inFlight /\ u.chunks = wave.chunks
    BY <1>1, <2>4 DEF WaveType
  <2> HIDE DEF u
  <2>9. Sound(u, n)
    <3>1. u.src # "none" /\ u.done <= Len(u.queued)
      BY <2>3, <2>4, <2>6, <2>8
    <3>2. u.src \in {"playing", "paused"} => u.done < Len(u.queued)
      BY <2>6, <2>8
    <3>3. u.free + u.inFlight <= NumBuffers
      BY <2>4, <2>8, WaveAssumption
    <3> QED
      BY <2>4, <2>7, <2>8, <3>1, <3>2, <3>3 DEF Sound
  <2> QED
    BY <2>1, <2>2, <2>9 DEF n
<1> QED
  BY <1>2, <1>3, <1>4, <1>5, <1>6, <1>7, <1>8, <1>9, <1>10, <1>11, <1>12,
     <1>13, <1>14, <1>15, <1>16 DEF OtherStep, MainStep, n

\* A wave whose ring fields are those of w is as sound as w, for fewer chunks
\* to come as well.
LEMMA SameRing ==
    ASSUME NEW w, NEW u \in WaveType, NEW n \in {0, 1}, NEW k \in {0, 1},
           Sound(w, n), k <= n,
           u.src = w.src, u.queued = w.queued, u.done = w.done,
           u.opened = w.opened, u.free = w.free, u.inFlight = w.inFlight,
           u.chunks = w.chunks
    PROVE  Sound(u, k)
<1>1. Len(w.chunks) \in Nat /\ w.inFlight \in Nat
  BY DEF Sound, WaveType
<1>2. Len(u.chunks) + u.inFlight + k <= NumBuffers
  BY <1>1, WaveAssumption DEF Sound
<1> QED
  BY <1>2 DEF Sound

\* A step of the pump that changes no ring field and takes up no new chunk.
LEMMA PumpAside ==
    ASSUME Inv, wave' \in WaveType, Coming' \in {0, 1}, Coming' <= Coming,
           wave'.src = wave.src, wave'.queued = wave.queued,
           wave'.done = wave.done, wave'.opened = wave.opened,
           wave'.free = wave.free, wave'.inFlight = wave.inFlight,
           wave'.chunks = wave.chunks
    PROVE  Sound(wave', Coming')
<1>1. Sound(wave, Coming) /\ Coming \in {0, 1}
  BY ComingType DEF Inv
<1> DEFINE w == wave
           u == wave'
           n == Coming
           k == Coming'
<1>2. /\ u \in WaveType /\ n \in {0, 1} /\ k \in {0, 1} /\ k <= n /\ Sound(w, n)
      /\ u.src = w.src /\ u.queued = w.queued /\ u.done = w.done
      /\ u.opened = w.opened /\ u.free = w.free /\ u.inFlight = w.inFlight
      /\ u.chunks = w.chunks
  BY <1>1
<1> HIDE DEF w, u, n, k
<1>3. Sound(u, k)
  BY <1>2, SameRing
<1> QED
  BY <1>3 DEF u, k

LEMMA PumpSound ==
    ASSUME Inv, PumpStep
    PROVE  /\ Sound(wave', Coming') /\ Within'
           /\ pump' \in [at : PumpAt, off : 0 .. Chunks, last : BOOLEAN]
           /\ fed' \in 0 .. Chunks /\ main' = main
<1> USE DEF At, Goto
<1>1. /\ Sound(wave, Coming) /\ Within /\ wave \in WaveType
      /\ pump \in [at : PumpAt, off : 0 .. Chunks, last : BOOLEAN]
      /\ fed \in 0 .. Chunks
  BY DEF Inv, TypeOK
<1>2. CASE PumpEnter
  <2>1. /\ pump' = [pump EXCEPT !.at = "pass"] /\ pump.at = "asleep"
        /\ UNCHANGED <<wave, main, fed>>
    BY <1>2 DEF PumpEnter
  <2>2. Coming' = 0 /\ Coming = 0
    BY <1>1, <2>1 DEF Coming, Decoding
  <2>3. Sound(wave', Coming')
    BY <1>1, <2>1, <2>2
  <2> QED
    BY <1>1, <2>1, <2>3 DEF Within, PumpAt
<1>3. CASE PumpPass
  <2>1. /\ pump' = [pump EXCEPT !.at = "decide"] /\ pump.at = "pass"
        /\ main' = main
    BY <1>3 DEF PumpPass
  <2>2. Coming' = 0 /\ Coming = 0
    BY <1>1, <2>1 DEF Coming, Decoding
  <2> DEFINE d == Drained
             k == Uploads(d)
  <2>3. Sound(d, 0) /\ d.chunks = wave.chunks
    BY <1>1, <2>2, DrainedSound
  <2>4. /\ wave' = Uploaded(d, k)
        /\ fed' \in {fed, IF k = 0 THEN fed ELSE After(wave.chunks[k])}
    BY <1>3 DEF PumpPass
  <2> HIDE DEF d
  <2>5. /\ k \in Nat /\ k \in 0 .. Uploads(d) /\ k <= Len(d.chunks)
        /\ d.chunks \in Seq(0 .. Chunks - 1)
    BY <2>3, WaveAssumption DEF Sound, WaveType, Uploads
  <2> HIDE DEF k
  <2>6. Sound(wave', 0)
    BY <2>3, <2>4, <2>5, UploadedSound
  <2>7. fed' \in 0 .. Chunks
    <3>1. CASE k = 0
      BY <1>1, <2>4, <3>1
    <3>2. CASE k # 0
      <4>1. wave.chunks[k] \in 0 .. Chunks - 1
        <5> DEFINE T == 0 .. Chunks - 1
                   q == d.chunks
        <5>1. q \in Seq(T) /\ k \in 1 .. Len(q) /\ q = wave.chunks
          BY <2>3, <2>5, <3>2
        <5> HIDE DEF T, q
        <5>2. q[k] \in T
          BY <5>1, ElementOfSeq
        <5> QED
          BY <5>1, <5>2 DEF T
      <4>2. After(wave.chunks[k]) \in 0 .. Chunks
        BY <4>1, WaveAssumption DEF After
      <4> QED
        BY <1>1, <2>4, <3>2, <4>2
    <3> QED
      BY <3>1, <3>2
  <2> QED
    BY <1>1, <2>1, <2>2, <2>6, <2>7 DEF Within, PumpAt
<1>4. CASE PumpRefused
  <2> DEFINE d == Drained
  <2>1. /\ pump' = [pump EXCEPT !.at = "asleep"] /\ pump.at = "pass"
        /\ main' = main /\ fed' = fed /\ Uploads(d) > 0
    BY <1>4 DEF PumpRefused
  <2>2. PICK k \in 0 .. Uploads(d) - 1 :
           wave' = [Uploaded(d, k) EXCEPT !.chunks = Tail(Uploaded(d, k).chunks),
                                          !.aborted = TRUE]
    BY <1>4 DEF PumpRefused
  <2>3. Coming' = 0 /\ Coming = 0
    BY <1>1, <2>1 DEF Coming, Decoding
  <2>4. Sound(d, 0)
    BY <1>1, <2>3, DrainedSound
  <2> HIDE DEF d
  <2>5. /\ Uploads(d) \in Nat /\ Uploads(d) <= Len(d.chunks)
        /\ Len(d.chunks) \in Nat
    BY <2>4, WaveAssumption DEF Sound, WaveType, Uploads
  <2>6. k \in 0 .. Uploads(d) /\ k < Len(d.chunks) /\ k \in Nat
    BY <2>2, <2>5
  <2> DEFINE u == Uploaded(d, k)
  <2>7. Sound(u, 0) /\ Len(u.chunks) = Len(d.chunks) - k
    BY <2>4, <2>6, UploadedSound
  <2>8. wave' = [u EXCEPT !.chunks = Tail(u.chunks), !.aborted = TRUE]
    BY <2>2
  <2> HIDE DEF u
  <2>9. u \in WaveType /\ u.chunks \in Seq(0 .. Chunks - 1) /\ u.inFlight \in Nat
    BY <2>7 DEF Sound, WaveType
  <2>10. u.chunks # <<>>
    BY <2>5, <2>6, <2>7, Values
  <2>11. /\ Tail(u.chunks) \in Seq(0 .. Chunks - 1)
         /\ Len(Tail(u.chunks)) = Len(u.chunks) - 1
    BY <2>9, <2>10, HeadTailProperties
  <2>12. wave' \in WaveType
    BY <2>8, <2>9, <2>11 DEF WaveType
  <2>13. /\ wave'.src = u.src /\ wave'.queued = u.queued
         /\ wave'.done = u.done /\ wave'.opened = u.opened
         /\ wave'.free = u.free /\ wave'.inFlight = u.inFlight
         /\ wave'.chunks = Tail(u.chunks)
    BY <2>8, <2>9 DEF WaveType
  <2>14. Len(wave'.chunks) + wave'.inFlight + 0 <= NumBuffers
    <3>1. Len(u.chunks) + u.inFlight + 0 <= NumBuffers
      BY <2>7 DEF Sound
    <3>2. Len(wave'.chunks) = Len(u.chunks) - 1 /\ wave'.inFlight = u.inFlight
      BY <2>11, <2>13
    <3>3. Len(u.chunks) \in Nat
      BY <2>9, LenProperties
    <3> QED
      BY <2>9, <3>1, <3>2, <3>3, WaveAssumption
  <2>15. Sound(wave', 0)
    BY <2>7, <2>12, <2>13, <2>14 DEF Sound
  <2> QED
    BY <1>1, <2>1, <2>3, <2>15 DEF Within, PumpAt
<1>5. CASE PumpDecide
  <2> DEFINE m == NeedMore(wave) /\ ~wave.latched
             l == wave.latched \/ NeedMore(wave)
  <2>1. /\ pump' = [pump EXCEPT !.at = IF m THEN "begin" ELSE "asleep"]
        /\ pump.at = "decide" /\ main' = main /\ fed' = fed
        /\ wave' = [wave EXCEPT !.latched = l]
    BY <1>5 DEF PumpDecide
  <2>2. l \in BOOLEAN /\ m => NeedMore(wave)
    OBVIOUS
  <2>3. Coming = 0 /\ Coming' = IF m THEN 1 ELSE 0
    BY <1>1, <2>1 DEF Coming, Decoding
  <2>4. m => Len(wave.chunks) + wave.inFlight < NumBuffers
    BY DEF NeedMore
  <2>5. Len(wave.chunks) \in Nat /\ wave.inFlight \in Nat
    BY <1>1 DEF WaveType
  <2>6. Len(wave.chunks) + wave.inFlight + Coming' <= NumBuffers
    BY <1>1, <2>3, <2>4, <2>5, WaveAssumption DEF Sound
  <2> HIDE DEF l, m
  <2>7. wave' \in WaveType
    BY <1>1, <2>1, l \in BOOLEAN DEF WaveType, l
  <2>8. /\ wave'.src = wave.src /\ wave'.queued = wave.queued
        /\ wave'.done = wave.done /\ wave'.opened = wave.opened
        /\ wave'.free = wave.free /\ wave'.inFlight = wave.inFlight
        /\ wave'.chunks = wave.chunks
    BY <1>1, <2>1 DEF WaveType
  <2>9. Sound(wave', Coming')
    BY <1>1, <2>6, <2>7, <2>8 DEF Sound
  <2>10. pump' \in [at : PumpAt, off : 0 .. Chunks, last : BOOLEAN]
    BY <1>1, <2>1 DEF PumpAt
  <2>11. Within'
    BY <1>1, <2>1 DEF Within
  <2> QED
    BY <1>1, <2>1, <2>9, <2>10, <2>11
<1>6. CASE DecodeBegin
  <2> DEFINE off  == IF wave.offset >= Chunks THEN 0 ELSE wave.offset
             last == off + 1 >= Chunks /\ ~wave.looping
  <2>1. /\ pump.at = "begin" /\ pump' = [at |-> "read", off |-> off, last |-> last]
        /\ wave' = [wave EXCEPT !.offset = off] /\ main' = main /\ fed' = fed
    BY <1>6 DEF DecodeBegin
  <2>2. off \in 0 .. Chunks /\ off < Chunks /\ last \in BOOLEAN
    BY <1>1, WaveAssumption DEF WaveType
  <2> HIDE DEF off, last
  <2>3. Coming' = 1 /\ Coming = 1
    BY <2>1 DEF Coming, Decoding
  <2>4. wave' \in WaveType
    BY <1>1, <2>1, <2>2 DEF WaveType
  <2>5. Sound(wave', Coming')
    BY <1>1, <2>1, <2>3, <2>4, PumpAside DEF WaveType
  <2> QED
    BY <1>1, <2>1, <2>2, <2>5 DEF Within, PumpAt
<1>7. CASE DecodeNothing
  <2> DEFINE e == wave.eof \/ ~GivenUp(wave)
  <2>1. /\ pump' = [pump EXCEPT !.at = "clear"] /\ pump.at = "begin"
        /\ wave' = [wave EXCEPT !.eof = e] /\ main' = main /\ fed' = fed
    BY <1>7 DEF DecodeNothing
  <2>2. e \in BOOLEAN
    OBVIOUS
  <2> HIDE DEF e
  <2>3. Coming' = 0 /\ Coming = 1
    BY <1>1, <2>1 DEF Coming, Decoding
  <2>4. wave' \in WaveType
    BY <1>1, <2>1, <2>2 DEF WaveType
  <2>5. Sound(wave', Coming')
    BY <1>1, <2>1, <2>3, <2>4, PumpAside DEF WaveType
  <2> QED
    BY <1>1, <2>1, <2>5 DEF Within, PumpAt
<1>8. CASE DecodeRead
  <2>1. PICK short \in BOOLEAN :
           pump' = [pump EXCEPT !.at = "store",
                                !.last = pump.last \/ (short /\ ~wave.looping)]
    BY <1>8 DEF DecodeRead
  <2>2. /\ pump.at = "read" /\ pump.off < Decodable
        /\ wave' = wave /\ main' = main /\ fed' = fed
    BY <1>8 DEF DecodeRead
  <2>3. Coming' = 1 /\ Coming = 1
    BY <1>1, <2>1, <2>2 DEF Coming, Decoding
  <2>4. pump' \in [at : PumpAt, off : 0 .. Chunks, last : BOOLEAN]
    BY <1>1, <2>1 DEF PumpAt
  <2>5. pump'.off = pump.off /\ pump'.at = "store"
    BY <1>1, <2>1
  <2> QED
    BY <1>1, <2>2, <2>3, <2>4, <2>5 DEF Within
<1>9. CASE DecodeEmpty
  <2>1. /\ pump' = [pump EXCEPT !.at = "clear"] /\ pump.at = "read"
        /\ main' = main /\ fed' = fed
        /\ \/ wave' = [wave EXCEPT !.offset = 0]
           \/ wave' = [wave EXCEPT !.eof = TRUE]
    BY <1>9 DEF DecodeEmpty
  <2>2. Coming' = 0 /\ Coming = 1
    BY <1>1, <2>1 DEF Coming, Decoding
  <2>3. wave' \in WaveType
    BY <1>1, <2>1, Values, ZenonT(30) DEF WaveType
  <2>4. Sound(wave', Coming')
    BY <1>1, <2>1, <2>2, <2>3, PumpAside DEF WaveType
  <2> QED
    BY <1>1, <2>1, <2>4 DEF Within, PumpAt
<1>10. CASE DecodeStore
  <2>1. /\ pump' = [pump EXCEPT !.at = "mark"] /\ pump.at = "store"
        /\ wave' = [wave EXCEPT !.offset = pump.off + 1]
        /\ main' = main /\ fed' = fed
    BY <1>10 DEF DecodeStore
  <2>2. Coming' = 1 /\ Coming = 1
    BY <1>1, <2>1 DEF Coming, Decoding
  <2>3. pump.off + 1 \in 0 .. Chunks
    BY <1>1, <2>1, WaveAssumption DEF Within
  <2>4. wave' \in WaveType
    BY <1>1, <2>1, <2>3 DEF WaveType
  <2>5. Sound(wave', Coming')
    BY <1>1, <2>1, <2>2, <2>4, PumpAside DEF WaveType
  <2> QED
    BY <1>1, <2>1, <2>5 DEF Within, PumpAt
<1>11. CASE DecodeMark
  <2> DEFINE e == wave.eof \/ pump.last
  <2>1. /\ pump' = [pump EXCEPT !.at = "push"] /\ pump.at = "mark"
        /\ wave' = [wave EXCEPT !.eof = e] /\ main' = main /\ fed' = fed
    BY <1>11 DEF DecodeMark
  <2>2. e \in BOOLEAN
    OBVIOUS
  <2> HIDE DEF e
  <2>3. Coming' = 1 /\ Coming = 1
    BY <1>1, <2>1 DEF Coming, Decoding
  <2>4. wave' \in WaveType
    BY <1>1, <2>1, <2>2 DEF WaveType
  <2>5. Sound(wave', Coming')
    BY <1>1, <2>1, <2>3, <2>4, PumpAside DEF WaveType
  <2> QED
    BY <1>1, <2>1, <2>5 DEF Within, PumpAt
<1>12. CASE DecodePush
  <2> DEFINE q == Append(wave.chunks, pump.off)
  <2>1. /\ pump' = [pump EXCEPT !.at = "clear"] /\ pump.at = "push"
        /\ wave' = [wave EXCEPT !.chunks = q] /\ main' = main /\ fed' = fed
    BY <1>12 DEF DecodePush
  <2>2. Coming' = 0 /\ Coming = 1
    BY <1>1, <2>1 DEF Coming, Decoding
  <2>3. pump.off \in 0 .. Chunks - 1
    BY <1>1, <2>1, WaveAssumption DEF Within
  <2>4. wave.chunks \in Seq(0 .. Chunks - 1) /\ wave.inFlight \in Nat
    BY <1>1 DEF WaveType
  <2>5. q \in Seq(0 .. Chunks - 1) /\ Len(q) = Len(wave.chunks) + 1
    BY <2>3, <2>4, AppendProperties
  <2> HIDE DEF q
  <2>6. wave' \in WaveType
    BY <1>1, <2>1, <2>5 DEF WaveType
  <2>7. /\ wave'.src = wave.src /\ wave'.queued = wave.queued
        /\ wave'.done = wave.done /\ wave'.opened = wave.opened
        /\ wave'.free = wave.free /\ wave'.inFlight = wave.inFlight
        /\ wave'.chunks = q
    BY <1>1, <2>1 DEF WaveType
  <2>8. Len(wave'.chunks) + wave'.inFlight + 0 <= NumBuffers
    BY <1>1, <2>2, <2>4, <2>5, <2>7, WaveAssumption, LenProperties DEF Sound
  <2>9. Sound(wave', 0)
    BY <1>1, <2>6, <2>7, <2>8 DEF Sound
  <2> QED
    BY <1>1, <2>1, <2>2, <2>9 DEF Within, PumpAt
<1>13. CASE DecodeClear
  <2>1. /\ pump' = [pump EXCEPT !.at = "asleep"] /\ pump.at = "clear"
        /\ wave' = [wave EXCEPT !.latched = FALSE] /\ main' = main /\ fed' = fed
    BY <1>13 DEF DecodeClear
  <2>2. Coming' = 0 /\ Coming = 0
    BY <1>1, <2>1 DEF Coming, Decoding
  <2>3. wave' \in WaveType
    BY <1>1, <2>1 DEF WaveType
  <2>4. Sound(wave', Coming')
    BY <1>1, <2>1, <2>2, <2>3, PumpAside DEF WaveType
  <2> QED
    BY <1>1, <2>1, <2>4 DEF Within, PumpAt
<1> QED
  BY <1>2, <1>3, <1>4, <1>5, <1>6, <1>7, <1>8, <1>9, <1>10, <1>11, <1>12,
     <1>13 DEF PumpStep

LEMMA NextInv ==
    ASSUME Inv, [Next]_vars
    PROVE  Inv'
<1>1. CASE PumpStep
  <2>1. main' \in MainAt /\ wave' \in WaveType
    BY <1>1, PumpSound DEF Inv, TypeOK, Sound
  <2> QED
    BY <1>1, <2>1, PumpSound DEF Inv, TypeOK
<1>2. CASE OtherStep
  <2>1. Sound(wave', Coming) /\ pump' = pump
    BY <1>2, OtherSound
  <2>2. Coming' = Coming /\ Within' /\ wave' \in WaveType
    BY <2>1 DEF Coming, Decoding, Within, Inv, Sound
  <2>3. main' \in MainAt /\ fed' \in 0 .. Chunks
    <3>1. /\ main \in MainAt /\ fed \in 0 .. Chunks
          /\ 0 \in 0 .. Chunks /\ Chunks \in 0 .. Chunks
      BY Values, WaveAssumption DEF Inv, TypeOK
    <3>2. /\ main' \in {main, "idle", "unload", "revive", "replay", "wait",
                         "free", "freed"}
          /\ fed' \in {fed, 0, Chunks}
      BY <1>2
         DEF FedFromStart, Lost, OtherStep, MainStep, Play, Resume, Pause, Stop, SwitchDevice,
             Destroy, RepeatOnce, SetLooping, StopUnload, ReplayAgain,
             DestroyWaited, Free, Commit, Poll, SourceAdvance
    <3> QED
      BY <3>1, <3>2 DEF MainAt
  <2> QED
    BY <2>1, <2>2, <2>3 DEF Inv, TypeOK
<1>3. CASE UNCHANGED vars
  BY <1>3 DEF vars, Inv, TypeOK, Coming, Decoding, Within
<1> QED
  BY <1>1, <1>2, <1>3 DEF Next, OtherStep

LEMMA InvAlways == Spec => []Inv
BY InitInv, NextInv, PTL DEF Spec

\* Every field keeps its type for every ring and every track: the counts of
\* buffers never leave the ring, the decoder never the track.
THEOREM TypeCorrect == Spec => []TypeOK
<1>1. Inv => TypeOK
  BY DEF Inv
<1> QED
  BY <1>1, InvAlways, PTL

\* While the source lives, free and queued buffers make up the whole ring,
\* however the calls of the main thread fall into the pump's passes.
THEOREM RingAlwaysConserved == Spec => []RingConserved
<1>1. Inv => RingConserved
  BY DEF Inv, Sound, RingConserved
<1> QED
  BY <1>1, InvAlways, PTL

\* The pump never has more chunks ahead than the ring will take, though it
\* decides under the lock and decodes after it has left it.
THEOREM AheadAlwaysBounded == Spec => []AheadBounded
<1>1. Inv => AheadBounded
  BY DEF Inv, Sound, AheadBounded
<1> QED
  BY <1>1, InvAlways, PTL

\* No step revives an ended wave but the end of Restart: frames replay and
\* restart only waves that have not ended.
THEOREM TerminalAlwaysSticky == Spec => TerminalIsSticky
<1>1. ASSUME Inv, [Next]_vars, wave.term
      PROVE  wave'.term \/ main = "revive"
  <2>1. wave \in WaveType /\ wave.term = TRUE
    BY <1>1 DEF Inv, TypeOK, WaveType
  <2>2. CASE PumpStep
    <3>1. \A k : Uploaded(Drained, k).term
      BY <2>1 DEF Uploaded, Drained, WaveType
    <3>2. CASE PumpPass
      BY <3>1, <3>2 DEF PumpPass
    <3>3. CASE PumpRefused
      <4>1. PICK k \in 0 .. Uploads(Drained) - 1 :
               wave' = [Uploaded(Drained, k)
                           EXCEPT !.chunks = Tail(Uploaded(Drained, k).chunks),
                                  !.aborted = TRUE]
        BY <3>3 DEF PumpRefused
      <4>2. wave'.term = Uploaded(Drained, k).term
        BY <2>1, <4>1 DEF Uploaded, Drained, WaveType
      <4> QED
        BY <3>1, <4>2
    <3>4. CASE PumpEnter \/ DecodeRead
      BY <2>1, <3>4 DEF PumpEnter, DecodeRead
    <3>5. CASE PumpDecide \/ DecodeBegin \/ DecodeNothing
      BY <2>1, <3>5 DEF PumpDecide, DecodeBegin, DecodeNothing, WaveType
    <3>6. CASE DecodeEmpty \/ DecodeStore \/ DecodeMark
      BY <2>1, <3>6 DEF DecodeEmpty, DecodeStore, DecodeMark, WaveType
    <3>7. CASE DecodePush \/ DecodeClear
      BY <2>1, <3>7 DEF DecodePush, DecodeClear, WaveType
    <3> QED
      BY <2>2, <3>2, <3>3, <3>4, <3>5, <3>6, <3>7 DEF PumpStep
  <2>3. CASE Stop \/ \E many \in BOOLEAN : SetLooping(many)
    <3>1. \A w \in WaveType : w.term => DoStop(w).term
      BY DEF DoStop, WaveType
    <3>2. \A many \in BOOLEAN : /\ [wave EXCEPT !.looping = many] \in WaveType
                               /\ [wave EXCEPT !.looping = many].term
      BY <2>1 DEF WaveType
    <3> QED
      BY <2>1, <2>3, <3>1, <3>2 DEF Stop, SetLooping
  <2>4. CASE StopUnload \/ SwitchDevice
    <3>1. Unload(wave) \in WaveType /\ Unload(wave).term = TRUE
      <4>1. Sound(Unload(wave), Coming)
        BY <1>1, ComingType, UnloadSound DEF Inv
      <4> QED
        BY <2>1, <4>1 DEF Unload, WaveType, Sound
    <3>2. CASE StopUnload
      <4>1. main = "unload" =>
               wave' = [Unload(wave) EXCEPT !.term = Unload(wave).term /\ TRUE]
        BY <3>2 DEF StopUnload
      <4>2. main \in {"unload", "revive"}
        BY <3>2 DEF StopUnload
      <4>3. main = "unload" => wave'.term
        BY <3>1, <4>1 DEF WaveType
      <4> QED
        BY <4>2, <4>3
    <3> QED
      BY <2>4, <3>1, <3>2 DEF SwitchDevice
  <2>5. CASE ReplayAgain \/ Commit
    <3>1. \A ok : DoPlay(wave, ok) = wave
      BY <2>1 DEF DoPlay
    <3>2. \A w : w.term => Update(w) = w
      BY DEF Update, Recoverable
    <3>3. [wave EXCEPT !.want = FALSE].term
      BY <2>1 DEF WaveType
    <3>4. CASE ReplayAgain
      BY <2>1, <3>1, <3>4 DEF ReplayAgain
    <3>5. CASE Commit
      <4>1. PICK ok \in {TRUE, ~CanFail} :
               wave' = Update(IF wave.want
                              THEN [DoPlay(wave, ok) EXCEPT !.want = FALSE]
                              ELSE wave)
        BY <3>5 DEF Commit
      <4> QED
        BY <2>1, <3>1, <3>2, <3>3, <4>1
    <3> QED
      BY <2>5, <3>4, <3>5
  <2>6. CASE Poll
    <3>1. wave.term \/ Ended(wave) \/ wave.failed <=> TRUE
      BY <2>1
    <3>2. (wave.term \/ Ended(wave) \/ wave.failed) = TRUE
      BY <2>1
    <3> HIDE DEF Ended
    <3> QED
      BY <2>1, <2>6, <3>2 DEF Poll, WaveType
  <2>7. CASE \/ Play \/ Resume \/ Pause \/ Destroy \/ RepeatOnce
             \/ DestroyWaited \/ Free \/ SourceAdvance \/ UNCHANGED vars
    BY <2>1, <2>7 DEF Play, Resume, Pause, Destroy, RepeatOnce, DestroyWaited,
                      Free, SourceAdvance, WaveType, vars
  <2> QED
    BY <1>1, <2>2, <2>3, <2>4, <2>5, <2>6, <2>7 DEF Next, MainStep
<1> QED
  BY <1>1, InvAlways, PTL DEF Spec, TerminalIsSticky
-----------------------------------------------------------------------------
(***************************************************************************)
(* FedInOrder and EofIsTheEnd.  DoStop rewinds the track without waiting   *)
(* for the pump, which then stores an offset and pushes a chunk of the     *)
(* playback before; a buffer that OpenAL refuses is lost.  But for these,  *)
(* what is queued, what is decoded ahead, the chunk in the pump's hands    *)
(* and the offset follow one another, and do so again after a rewind that  *)
(* finds no decode under way.                                              *)
(***************************************************************************)
Holding == pump.at \in {"store", "mark", "push"}

\* The chunk to be decoded after those in c, if f is what the source is given
\* next, and the one at an offset.
Upcoming(c, f) == IF c = <<>> THEN f ELSE After(c[Len(c)])

Reached(o) == IF o = Decodable THEN 0 ELSE o

InRow(s) == \A i \in 2 .. Len(s) : s[i] = After(s[i - 1])

\* The queue q is in order, and f continues it.
Feeds(q, f) == InRow(q) /\ (q # <<>> => f = After(q[Len(q)]))

\* The chunks c decoded ahead start with f, and are chunks there are.
Leads(c, f) ==
    /\ f \in 0 .. Decodable - 1
    /\ c \in Seq(0 .. Decodable - 1)
    /\ InRow(c)
    /\ c # <<>> => c[1] = f

\* Where the pump goes on.
DecodesNext ==
    /\ ~Holding => /\ wave.offset \in 0 .. Decodable
                   /\ Upcoming(wave.chunks, fed) = Reached(wave.offset)
                   /\ wave.eof => Upcoming(wave.chunks, fed) = 0
    /\ Holding => /\ Upcoming(wave.chunks, fed) = pump.off
                  /\ wave.offset = IF pump.at = "store" THEN pump.off
                                   ELSE pump.off + 1
    /\ pump.at = "read" => /\ pump.off = wave.offset
                           /\ pump.last => pump.off + 1 >= Chunks
    /\ pump.at \in {"read", "store", "mark"} => ~wave.eof
    /\ pump.at \in {"store", "mark"} /\ pump.last => pump.off = Decodable - 1
    /\ pump.at = "push" /\ wave.eof => pump.off = Decodable - 1

\* A wave that was never opened has no track yet.
Fresh(w) == ~w.opened => w.chunks = <<>> /\ w.offset = 0 /\ w.eof = FALSE

Unopened == Fresh(wave) /\ (~wave.opened => pump.at = "asleep" /\ fed = 0)

OrderInv ==
    /\ Feeds(wave.queued, fed)
    /\ Leads(wave.chunks, fed)
    /\ DecodesNext

\* A buffer that is refused costs a chunk, but it is the only one ahead, and
\* the wave is given up with it: what was queued before stays in order.
Sparse ==
    /\ Len(wave.chunks) <= 1
    /\ pump.at \in {"decide", "begin", "read"} \/ Holding => wave.chunks = <<>>

Stranded ==
    /\ wave.aborted /\ wave.opened /\ pump.at = "asleep"
    /\ wave.chunks = <<>> /\ fed \in 0 .. Decodable - 1
    /\ Feeds(wave.queued, fed)

FedInv ==
    /\ Sparse /\ Unopened
    /\ fed = Lost \/ OrderInv \/ Stranded

\* From w to u the track goes on as it was; the queue may be gone.
TrackKept(w, u) ==
    /\ u.chunks = w.chunks /\ u.offset = w.offset /\ u.eof = w.eof
    /\ u.queued \in {w.queued, <<>>}
    /\ w.opened => u.opened /\ (w.aborted => u.aborted)

LEMMA StartedKeeps ==
    ASSUME NEW w \in WaveType
    PROVE  TrackKept(w, Started(w)) /\ TrackKept(w, Update(w))
<1>1. TrackKept(w, Started(w))
  BY DEF Started, SourcePlay, TrackKept, WaveType
<1> QED
  BY <1>1 DEF Update, TrackKept

LEMMA KeptTwice ==
    ASSUME NEW w, NEW u, NEW v, TrackKept(w, u), TrackKept(u, v)
    PROVE  TrackKept(w, v)
BY DEF TrackKept

LEMMA DoPlayKeeps ==
    ASSUME NEW w, NEW n \in {0, 1}, NEW ok \in BOOLEAN, Sound(w, n), Fresh(w)
    PROVE  TrackKept(w, DoPlay(w, ok))
<1> DEFINE armed == [w EXCEPT !.intent = TRUE]
<1>1. /\ Sound(armed, n) /\ armed.opened = w.opened /\ TrackKept(w, armed)
      /\ Fresh(armed) /\ w \in WaveType /\ armed \in WaveType
  BY DEF Sound, WaveType, TrackKept, Fresh
<1>2. CASE w.term \/ w.playing \/ w.failed
  BY <1>2 DEF DoPlay, TrackKept
<1>3. CASE ~(w.term \/ w.playing \/ w.failed) /\ w.loaded
  <2>1. DoPlay(w, ok) = IF w.src = "none" THEN w ELSE Started(Update(armed))
    BY <1>3 DEF DoPlay, Replay
  <2> HIDE DEF armed
  <2>2. Update(armed) \in WaveType
    BY <1>1, UpdateSound DEF Sound
  <2>3. TrackKept(armed, Update(armed))
        /\ TrackKept(Update(armed), Started(Update(armed)))
    BY <1>1, <2>2, StartedKeeps
  <2> QED
    BY <1>1, <2>1, <2>3, KeptTwice DEF TrackKept
<1>4. CASE ~(w.term \/ w.playing \/ w.failed) /\ ~w.loaded
  <2> DEFINE opened == IF armed.opened THEN armed ELSE OpenStreaming(armed, ok)
             loaded == [opened EXCEPT !.loaded = TRUE]
             ready  == Update(loaded)
  <2>1. DoPlay(w, ok) = IF opened.failed THEN opened
                        ELSE IF ready.inFlight > 0 THEN Started(ready)
                        ELSE ready
    BY <1>1, <1>4 DEF DoPlay, FirstPlay
  <2> HIDE DEF armed
  <2>2. Sound(opened, n)
    BY <1>1, OpenSound
  <2>3. TrackKept(armed, opened)
    <3>1. CASE armed.opened
      BY <3>1 DEF TrackKept
    <3>2. CASE ~armed.opened
      BY <1>1, <3>2 DEF OpenStreaming, TrackKept, WaveType, Fresh
    <3> QED
      BY <3>1, <3>2
  <2> HIDE DEF opened
  <2>4. Sound(loaded, n) /\ TrackKept(opened, loaded)
    BY <2>2 DEF Sound, WaveType, TrackKept
  <2> HIDE DEF loaded
  <2>5. Sound(ready, n) /\ TrackKept(loaded, ready)
    BY <2>4, UpdateSound, StartedKeeps DEF Sound
  <2> HIDE DEF ready
  <2>6. TrackKept(ready, Started(ready))
    BY <2>5, StartedKeeps DEF Sound
  <2>7. /\ TrackKept(w, opened) /\ TrackKept(w, loaded) /\ TrackKept(w, ready)
        /\ TrackKept(w, Started(ready))
    BY <1>1, <2>3, <2>4, <2>5, <2>6, KeptTwice
  <2> QED
    BY <2>1, <2>7
<1> QED
  BY <1>2, <1>3, <1>4

\* What the steps that leave the pump alone do to the track: they rewind it or
\* keep it.
LEMMA OtherKeeps ==
    ASSUME Inv, Unopened, OtherStep
    PROVE  \/ TrackKept(wave, wave') /\ fed' = fed
           \/ /\ wave'.chunks = <<>> /\ wave'.offset = 0 /\ wave'.eof = FALSE
              /\ wave'.queued = <<>> /\ fed' = FedFromStart /\ wave.opened
              /\ wave'.opened /\ wave'.aborted = wave.aborted
<1> DEFINE n == Coming
<1>1. n \in {0, 1} /\ Sound(wave, n) /\ wave \in WaveType /\ Fresh(wave)
  BY ComingType DEF Inv, TypeOK, Unopened
<1> HIDE DEF n
<1>2. ASSUME NEW w \in WaveType
      PROVE  /\ ~Rewinds(w) => TrackKept(w, DoStop(w))
             /\ Rewinds(w) => /\ DoStop(w).chunks = <<>>
                              /\ DoStop(w).offset = 0
                              /\ DoStop(w).eof = FALSE
                              /\ DoStop(w).queued = <<>>
                              /\ DoStop(w).opened = w.opened
                              /\ DoStop(w).aborted = w.aborted
  BY <1>2 DEF DoStop, TrackKept, WaveType
<1>3. Rewinds(wave) => wave.opened
  BY <1>1 DEF Rewinds, Sound
<1>4. CASE Stop
  BY <1>1, <1>2, <1>3, <1>4 DEF Stop, FedFromStart
<1>5. ASSUME NEW many \in BOOLEAN, SetLooping(many)
      PROVE  \/ TrackKept(wave, wave') /\ fed' = fed
             \/ /\ wave'.chunks = <<>> /\ wave'.offset = 0 /\ wave'.eof = FALSE
                /\ wave'.queued = <<>> /\ fed' = FedFromStart /\ wave.opened
                /\ wave'.opened /\ wave'.aborted = wave.aborted
  <2> DEFINE w == [wave EXCEPT !.looping = many]
  <2>1. /\ w \in WaveType /\ TrackKept(wave, w) /\ w.opened = wave.opened
        /\ w.aborted = wave.aborted /\ (Rewinds(w) <=> Rewinds(wave))
    BY <1>1 DEF WaveType, TrackKept, Rewinds
  <2>2. IF Rewinds(wave) THEN wave' = DoStop(w) /\ fed' = FedFromStart
        ELSE wave' = w /\ fed' = fed
    BY <1>5 DEF SetLooping
  <2> HIDE DEF w
  <2> QED
    BY <1>2, <1>3, <2>1, <2>2
<1>6. CASE Play \/ Resume \/ Pause \/ Destroy \/ RepeatOnce
  BY <1>1, <1>6 DEF Play, Resume, Pause, Destroy, RepeatOnce, TrackKept, WaveType
<1>7. CASE DestroyWaited \/ Free
  BY <1>1, <1>7 DEF DestroyWaited, Free, TrackKept, WaveType
<1>8. CASE SourceAdvance
  BY <1>1, <1>8 DEF SourceAdvance, TrackKept, WaveType
<1>9. CASE Poll
  <2>1. \A p, i, t : TrackKept(wave, [wave EXCEPT !.playing = p, !.intent = i,
                                                  !.term = t])
    BY <1>1 DEF TrackKept, WaveType
  <2> QED
    BY <1>9, <2>1 DEF Poll
<1>10. CASE StopUnload \/ SwitchDevice
  <2>1. TrackKept(wave, Unload(wave))
    BY <1>1 DEF Unload, TrackKept, WaveType
  <2>2. Unload(wave) \in WaveType
    BY <1>1, UnloadSound DEF Sound
  <2>3. \A t : TrackKept(wave, [Unload(wave) EXCEPT !.term = t])
    BY <2>1, <2>2 DEF TrackKept, WaveType
  <2> QED
    BY <1>10, <2>1, <2>3 DEF StopUnload, SwitchDevice
<1>11. CASE ReplayAgain
  BY <1>1, <1>11, DoPlayKeeps DEF ReplayAgain
<1>12. CASE Commit
  <2>1. PICK ok \in {TRUE, ~CanFail} :
           wave' = Update(IF wave.want
                          THEN [DoPlay(wave, ok) EXCEPT !.want = FALSE]
                          ELSE wave)
    BY <1>12 DEF Commit
  <2>2. ok \in BOOLEAN /\ fed' = fed
    BY <1>12, <2>1, WaveAssumption DEF Commit
  <2> DEFINE p == DoPlay(wave, ok)
             q == [p EXCEPT !.want = FALSE]
  <2>3. Sound(p, n) /\ TrackKept(wave, p)
    BY <1>1, <2>2, DoPlaySound, DoPlayKeeps
  <2>4. wave' = Update(IF wave.want THEN q ELSE wave)
    BY <2>1
  <2> HIDE DEF p
  <2>5. q \in WaveType /\ TrackKept(p, q)
    BY <2>3 DEF Sound, WaveType, TrackKept
  <2> HIDE DEF q
  <2>6. TrackKept(q, Update(q)) /\ TrackKept(wave, Update(wave))
    BY <1>1, <2>5, StartedKeeps
  <2>7. TrackKept(wave, Update(q))
    BY <2>3, <2>5, <2>6, KeptTwice
  <2> QED
    BY <2>2, <2>4, <2>6, <2>7
<1> QED
  BY <1>4, <1>5, <1>6, <1>7, <1>8, <1>9, <1>10, <1>11, <1>12
     DEF OtherStep, MainStep

\* What is left of a queue is in order, and continued by the same chunk.
LEMMA RestFeeds ==
    ASSUME NEW S, NEW q \in Seq(S), NEW f, NEW d \in Nat, d <= Len(q),
           Feeds(q, f)
    PROVE  Feeds(SubSeq(q, d + 1, Len(q)), f)
<1> DEFINE r == SubSeq(q, d + 1, Len(q))
<1>1. Len(q) \in Nat /\ d + 1 \in Nat \ {0}
  BY LenProperties
<1>2. r \in Seq(S) /\ Len(r) = Len(q) - d
  <2>1. r \in Seq(S) /\ Len(r) = Len(q) - (d + 1) + 1
    <3> DEFINE i == d + 1
               j == Len(q)
    <3>1. i \in Nat \ {0} /\ j \in Nat /\ i <= j + 1 /\ j <= Len(q)
      BY <1>1
    <3> HIDE DEF i, j
    <3>2. SubSeq(q, i, j) \in Seq(S) /\ Len(SubSeq(q, i, j)) = j - i + 1
      BY <3>1, Part
    <3> QED
      BY <3>2 DEF i, j
  <2> QED
    BY <1>1, <2>1
<1>3. \A k \in 1 .. Len(r) : r[k] = q[d + k]
  <2>1. \A k \in d + 1 .. Len(q) : q[k] \in S
    BY <1>1, ElementOfSeq
  <2>2. \A k \in 1 .. (Len(q) - (d + 1) + 1) : r[k] = q[(d + 1) + k - 1]
    BY <1>1, <2>1, SubSeqProperties
  <2> QED
    BY <1>1, <1>2, <2>2
<1> HIDE DEF r
<1>4. InRow(r)
  <2> SUFFICES ASSUME NEW i \in 2 .. Len(r)
               PROVE  r[i] = After(r[i - 1])
    BY DEF InRow
  <2>1. r[i] = q[d + i] /\ r[i - 1] = q[d + (i - 1)]
    BY <1>2, <1>3, <1>1
  <2>2. d + i \in 2 .. Len(q) /\ d + (i - 1) = (d + i) - 1
    BY <1>1, <1>2
  <2> QED
    BY <2>1, <2>2 DEF Feeds, InRow
<1>5. r # <<>> => q # <<>> /\ r[Len(r)] = q[Len(q)]
  <2> SUFFICES ASSUME r # <<>> PROVE q # <<>> /\ r[Len(r)] = q[Len(q)]
    OBVIOUS
  <2>1. Len(r) \in 1 .. Len(r) /\ Len(q) # 0 /\ d + Len(r) = Len(q)
    BY <1>1, <1>2, EmptySeq
  <2> QED
    BY <1>3, <2>1, EmptySeq
<1>6. Feeds(r, f)
  BY <1>4, <1>5 DEF Feeds
<1> QED
  BY <1>6 DEF r

\* The first k chunks that are ahead continue the queue, the others what was
\* given to the source.
LEMMA UploadKeepsOrder ==
    ASSUME NEW q \in Seq(0 .. Chunks - 1), NEW c, NEW f,
           Feeds(q, f), Leads(c, f), NEW k \in 1 .. Len(c)
    PROVE  LET g == After(c[k])
               rest == SubSeq(c, k + 1, Len(c))
           IN  /\ Feeds(q \o SubSeq(c, 1, k), g)
               /\ Leads(rest, g)
               /\ Upcoming(rest, g) = Upcoming(c, f)
<1> DEFINE T == 0 .. Decodable - 1
           g == After(c[k])
           rest == SubSeq(c, k + 1, Len(c))
           part == SubSeq(c, 1, k)
           all == q \o part
<1>1. /\ c \in Seq(T) /\ InRow(c) /\ Len(c) \in Nat /\ k \in Nat \ {0}
      /\ k <= Len(c) /\ c[1] = f /\ c # <<>> /\ f \in T
      /\ T \subseteq 0 .. Chunks - 1
  BY LenProperties, EmptySeq, WaveAssumption DEF Leads
<1>2. g \in T
  <2>1. c[k] \in T
    <3> HIDE DEF T
    <3> QED
      BY <1>1, ElementOfSeq
  <2> QED
    BY <2>1, WaveAssumption DEF After
<1>3. Feeds(c, Upcoming(c, f))
  BY <1>1 DEF Feeds, Upcoming
<1>4. Feeds(rest, Upcoming(c, f))
  BY <1>1, <1>3, RestFeeds
<1>5. /\ rest \in Seq(T) /\ Len(rest) = Len(c) - k
      /\ part \in Seq(T) /\ Len(part) = k
  <2>1. 1 \in Nat \ {0} /\ k + 1 \in Nat \ {0} /\ 1 <= k + 1
        /\ k + 1 <= Len(c) + 1
    BY <1>1
  <2> HIDE DEF T
  <2>2. part \in Seq(T) /\ Len(part) = k - 1 + 1
    BY <1>1, <2>1, Part
  <2>3. rest \in Seq(T) /\ Len(rest) = Len(c) - (k + 1) + 1
    BY <1>1, <2>1, Part
  <2> QED
    BY <1>1, <2>2, <2>3
<1>6. /\ \A i \in 1 .. k : part[i] = c[i]
      /\ Len(c) > k => rest[1] = c[k + 1]
  <2>1. \A i \in 1 .. Len(c) : c[i] \in T
    <3> HIDE DEF T
    <3> QED
      BY <1>1, ElementOfSeq
  <2>2. \A i \in 1 .. (k - 1 + 1) : part[i] = c[1 + i - 1]
    BY <1>1, <2>1, SubSeqProperties
  <2>3. \A i \in 1 .. (Len(c) - (k + 1) + 1) : rest[i] = c[(k + 1) + i - 1]
    BY <1>1, <2>1, SubSeqProperties
  <2> QED
    BY <1>1, <2>2, <2>3
<1>7. Leads(rest, g) /\ Upcoming(rest, g) = Upcoming(c, f)
  <2>1. CASE k = Len(c)
    <3>1. rest = <<>>
      BY <1>1, <1>5, <2>1, EmptySeq
    <3>2. InRow(<<>>)
      BY DEF InRow
    <3> HIDE DEF rest, T
    <3> QED
      BY <1>1, <1>2, <1>5, <2>1, <3>1, <3>2 DEF Leads, Upcoming, T
  <2>2. CASE k # Len(c)
    <3>1. k + 1 \in 2 .. Len(c) /\ (k + 1) - 1 = k /\ Len(c) > k
      BY <1>1, <2>2
    <3>2. rest # <<>> /\ rest[1] = g
      <4>1. c[k + 1] = After(c[(k + 1) - 1])
        BY <1>1, <3>1 DEF InRow
      <4>2. rest # <<>>
        <5>1. Len(rest) # Len(<<>>)
          BY <1>1, <1>5, <3>1, Values
        <5> QED
          BY <5>1
      <4> QED
        BY <1>6, <3>1, <4>1, <4>2
    <3> HIDE DEF rest, T
    <3> QED
      BY <1>2, <1>4, <1>5, <3>2 DEF Leads, Upcoming, Feeds, T
  <2> QED
    BY <2>1, <2>2
<1>8. Feeds(all, g)
  <2>1. part \in Seq(0 .. Chunks - 1)
    <3>1. \A i \in 1 .. Len(part) : part[i] \in T
      <4> HIDE DEF T, part
      <4> QED
        BY <1>5, ElementOfSeq
    <3> QED
      BY <1>1, <1>5, <3>1
  <2> HIDE DEF part, T
  <2>2. /\ Len(all) = Len(q) + k /\ Len(q) \in Nat
        /\ \A i \in 1 .. Len(all) :
              all[i] = IF i <= Len(q) THEN q[i] ELSE part[i - Len(q)]
    BY <1>5, <2>1, ConcatProperties, LenProperties, ZenonT(30)
  <2> HIDE DEF all
  <2>3. InRow(all)
    <3> SUFFICES ASSUME NEW i \in 2 .. Len(all)
                 PROVE  all[i] = After(all[i - 1])
      BY DEF InRow
    <3>1. CASE i <= Len(q)
      <4>1. i \in 2 .. Len(q) /\ all[i] = q[i] /\ all[i - 1] = q[i - 1]
        BY <1>1, <2>2, <3>1
      <4>2. InRow(q)
        BY DEF Feeds
      <4> QED
        BY <4>1, <4>2 DEF InRow
    <3>2. CASE i = Len(q) + 1
      <4>1. all[i] = part[1] /\ all[i - 1] = q[Len(q)] /\ q # <<>>
        BY <1>1, <2>2, <3>2, EmptySeq
      <4> QED
        BY <1>1, <1>6, <4>1 DEF Feeds
    <3>3. CASE i > Len(q) + 1
      <4> DEFINE j == i - Len(q)
      <4>1. j \in 2 .. k /\ all[i] = part[j] /\ all[i - 1] = part[j - 1]
        BY <1>1, <2>2, <3>3
      <4>2. part[j] = c[j] /\ part[j - 1] = c[j - 1] /\ j \in 2 .. Len(c)
        BY <1>1, <1>6, <4>1
      <4> QED
        BY <1>1, <4>1, <4>2 DEF InRow
    <3> QED
      BY <2>2, <3>1, <3>2, <3>3
  <2>4. all[Len(all)] = c[k]
    BY <1>1, <1>6, <2>2
  <2> QED
    BY <2>3, <2>4 DEF Feeds
<1> QED
  BY <1>7, <1>8

\* What is ahead is continued by what the pump decodes next.
LEMMA PushLeads ==
    ASSUME NEW c, NEW f, Leads(c, f), NEW x \in 0 .. Decodable - 1,
           x = Upcoming(c, f)
    PROVE  Leads(Append(c, x), f) /\ Upcoming(Append(c, x), f) = After(x)
<1> DEFINE T == 0 .. Decodable - 1
           a == Append(c, x)
<1>1. /\ c \in Seq(T) /\ InRow(c) /\ Len(c) \in Nat
      /\ c # <<>> => c[1] = f
      /\ x \in T /\ f \in T
  BY LenProperties DEF Leads
<1> HIDE DEF T
<1>2. /\ a \in Seq(T) /\ Len(a) = Len(c) + 1 /\ a[Len(a)] = x
      /\ \A i \in 1 .. Len(c) : a[i] = c[i]
  BY <1>1, AppendProperties
<1> HIDE DEF a
<1>3. a # <<>>
  BY <1>1, <1>2, Values
<1>4. CASE c = <<>>
  <2>1. Len(a) = 1 /\ x = f
    BY <1>2, <1>4, Values DEF Upcoming
  <2> QED
    BY <1>1, <1>2, <1>3, <2>1 DEF Leads, Upcoming, InRow, T, a
<1>5. CASE c # <<>>
  <2>1. x = After(c[Len(c)]) /\ Len(c) # 0
    BY <1>1, <1>5, EmptySeq DEF Upcoming
  <2>2. InRow(a)
    <3> SUFFICES ASSUME NEW i \in 2 .. Len(a)
                 PROVE  a[i] = After(a[i - 1])
      BY DEF InRow
    <3>1. CASE i = Len(a)
      BY <1>1, <1>2, <2>1, <3>1
    <3>2. CASE i # Len(a)
      <4>1. i \in 2 .. Len(c) /\ a[i] = c[i] /\ a[i - 1] = c[i - 1]
        BY <1>1, <1>2, <3>2
      <4> QED
        BY <1>1, <4>1 DEF InRow
    <3> QED
      BY <3>1, <3>2
  <2>3. a[1] = f
    BY <1>1, <1>2, <1>5, <2>1
  <2> QED
    BY <1>1, <1>2, <1>3, <2>2, <2>3 DEF Leads, Upcoming, T, a
<1> QED
  BY <1>4, <1>5

LEMMA OrderInit == Init => OrderInv /\ Unopened
<1> SUFFICES ASSUME Init
             PROVE  OrderInv /\ Unopened
  OBVIOUS
<1>1. /\ wave.queued = <<>> /\ wave.chunks = <<>> /\ wave.offset = 0
      /\ wave.eof = FALSE /\ fed = 0 /\ pump.at = "asleep"
  BY DEF Init, NewWave
<1>2. Feeds(<<>>, 0) /\ Leads(<<>>, 0)
  BY WaveAssumption DEF Feeds, Leads, InRow
<1>3. DecodesNext
  BY <1>1, WaveAssumption DEF DecodesNext, Holding, Upcoming, Reached
<1> QED
  BY <1>1, <1>2, <1>3 DEF OrderInv, Unopened, Fresh

LEMMA OtherOrder ==
    ASSUME Inv, FedInv, OtherStep
    PROVE  /\ Unopened'
           /\ fed' = Lost \/ OrderInv' \/ Stranded'
<1>1. pump' = pump /\ Unopened
  BY OtherSound DEF FedInv
<1>2. Feeds(<<>>, 0) /\ Leads(<<>>, 0) /\ Feeds(<<>>, fed)
  BY WaveAssumption DEF Feeds, Leads, InRow
<1>3. CASE TrackKept(wave, wave') /\ fed' = fed
  <2>1. /\ wave'.chunks = wave.chunks /\ wave'.offset = wave.offset
        /\ wave'.eof = wave.eof /\ wave'.queued \in {wave.queued, <<>>}
        /\ wave.opened => wave'.opened /\ (wave.aborted => wave'.aborted)
    BY <1>3 DEF TrackKept
  <2>2. Unopened'
    BY <1>1, <1>3, <2>1 DEF Unopened, Fresh
  <2>3. CASE OrderInv
    <3>1. DecodesNext'
      BY <1>1, <1>3, <2>1, <2>3 DEF OrderInv, DecodesNext, Holding
    <3> QED
      BY <1>1, <1>2, <1>3, <2>1, <2>2, <2>3, <3>1 DEF OrderInv
  <2>4. CASE Stranded
    BY <1>1, <1>2, <1>3, <2>1, <2>2, <2>4 DEF Stranded
  <2> QED
    BY <1>3, <2>2, <2>3, <2>4 DEF FedInv
<1>4. CASE /\ wave'.chunks = <<>> /\ wave'.offset = 0 /\ wave'.eof = FALSE
           /\ wave'.queued = <<>> /\ fed' = FedFromStart /\ wave.opened
           /\ wave'.opened
  <2>1. Unopened'
    BY <1>4 DEF Unopened, Fresh
  <2>2. CASE Overtaken
    BY <1>4, <2>1, <2>2 DEF FedFromStart
  <2>3. CASE ~Overtaken
    <3>1. pump.at # "read" /\ ~Holding /\ fed' = 0
      BY <1>4, <2>3 DEF Overtaken, Holding, FedFromStart
    <3>2. DecodesNext'
      BY <1>1, <1>4, <3>1, WaveAssumption
         DEF DecodesNext, Holding, Upcoming, Reached
    <3> QED
      BY <1>1, <1>2, <1>4, <2>1, <3>1, <3>2 DEF OrderInv
  <2> QED
    BY <2>2, <2>3
<1> QED
  BY <1>1, <1>3, <1>4, OtherKeeps

\* The pump's pass takes back what was played and gives what is ahead.
LEMMA PassOrder ==
    ASSUME Inv, OrderInv, PumpPass
    PROVE  /\ Feeds(wave'.queued, fed') /\ Leads(wave'.chunks, fed')
           /\ Upcoming(wave'.chunks, fed') = Upcoming(wave.chunks, fed)
           /\ wave'.offset = wave.offset /\ wave'.eof = wave.eof
           /\ wave'.opened = wave.opened
<1> DEFINE d == Drained
           k == Uploads(d)
           c == wave.chunks
<1>1. /\ Sound(wave, Coming) /\ wave \in WaveType /\ Coming \in {0, 1}
      /\ Feeds(wave.queued, fed) /\ Leads(c, fed)
  BY ComingType DEF Inv, TypeOK, OrderInv
<1>0. fed # Lost
  BY <1>1, WaveAssumption DEF Leads, Lost
<1>2. Sound(d, Coming) /\ d.chunks = c
  BY <1>1, DrainedSound
<1>3. /\ d.queued = SubSeq(wave.queued, wave.done + 1, Len(wave.queued))
      /\ d.src = wave.src /\ d.offset = wave.offset /\ d.eof = wave.eof
      /\ d.opened = wave.opened
  BY <1>1 DEF Drained, WaveType
<1>4. Feeds(d.queued, fed)
  <2>1. /\ wave.queued \in Seq(0 .. Chunks - 1) /\ wave.done \in Nat
        /\ wave.done <= Len(wave.queued)
    BY <1>1 DEF Sound, WaveType
  <2> DEFINE S == 0 .. Chunks - 1
  <2> HIDE DEF S
  <2>2. wave.queued \in Seq(S)
    BY <2>1 DEF S
  <2>3. Feeds(SubSeq(wave.queued, wave.done + 1, Len(wave.queued)), fed)
    BY <1>1, <2>1, <2>2, RestFeeds
  <2> QED
    BY <1>3, <2>3
<1>5. /\ wave' = Uploaded(d, k)
      /\ fed' = IF k = 0 THEN fed ELSE After(c[k])
  BY <1>0 DEF PumpPass
<1> HIDE DEF d
<1>6. /\ k \in 0 .. Len(c) /\ Len(c) \in Nat /\ d \in WaveType
      /\ d.queued \in Seq(0 .. Chunks - 1)
  BY <1>2, WaveAssumption DEF Sound, WaveType, Uploads
<1> HIDE DEF k
<1>7. /\ wave'.queued = IF d.src = "none" THEN d.queued
                        ELSE d.queued \o SubSeq(c, 1, k)
      /\ wave'.chunks = SubSeq(c, k + 1, Len(c))
      /\ wave'.offset = wave.offset /\ wave'.eof = wave.eof
      /\ wave'.opened = wave.opened
  BY <1>2, <1>3, <1>5, <1>6 DEF Uploaded, WaveType
<1>8. CASE k = 0
  <2> DEFINE T == 0 .. Decodable - 1
  <2>1. c \in Seq(T)
    BY <1>1 DEF Leads
  <2> HIDE DEF T, c
  <2>2. SubSeq(c, 1, 0) = <<>> /\ SubSeq(c, 1, Len(c)) = c
    <3>1. \A i \in 1 .. Len(c) : c[i] \in T
      BY <2>1, ElementOfSeq
    <3>2. /\ SubSeq(c, 1, Len(c)) \in Seq(T)
          /\ Len(SubSeq(c, 1, Len(c))) =
                IF 1 <= Len(c) THEN Len(c) - 1 + 1 ELSE 0
          /\ \A i \in 1 .. Len(c) - 1 + 1 :
                SubSeq(c, 1, Len(c))[i] = c[1 + i - 1]
      BY <1>6, <3>1, SubSeqProperties
    <3>3. SubSeq(c, 1, Len(c)) = c
      <4>1. Len(SubSeq(c, 1, Len(c))) = Len(c)
        BY <1>6, <3>2
      <4>2. \A i \in 1 .. Len(c) : SubSeq(c, 1, Len(c))[i] = c[i]
        BY <1>6, <3>2
      <4> QED
        BY <2>1, <3>2, <4>1, <4>2, SeqEqual
    <3>4. SubSeq(c, 1, 0) \in Seq(T) /\ Len(SubSeq(c, 1, 0)) = 0
      BY SubSeqProperties
    <3> QED
      BY <3>3, <3>4, EmptySeq
  <2>3. d.queued \o <<>> = d.queued
    BY <1>6, ConcatEmptySeq
  <2>4. wave'.queued = d.queued /\ wave'.chunks = c /\ fed' = fed
    <3>1. SubSeq(c, 1, k) = <<>> /\ SubSeq(c, k + 1, Len(c)) = c
      <4>1. k + 1 = 1
        BY <1>8
      <4> QED
        BY <1>8, <2>2, <4>1
    <3> QED
      BY <1>5, <1>7, <1>8, <2>3, <3>1
  <2> QED
    BY <1>1, <1>4, <1>7, <2>4 DEF c
<1>9. CASE k # 0
  <2>1. k \in 1 .. Len(c) /\ fed' = After(c[k])
    BY <1>5, <1>6, <1>9
  <2>2. /\ Feeds(d.queued \o SubSeq(c, 1, k), fed')
        /\ Leads(SubSeq(c, k + 1, Len(c)), fed')
        /\ Upcoming(SubSeq(c, k + 1, Len(c)), fed') = Upcoming(c, fed)
    BY <1>1, <1>4, <1>6, <2>1, UploadKeepsOrder
  <2>3. d.src = "none" => Feeds(d.queued, fed')
    <3>1. d.src = "none" => d.queued = <<>>
      BY <1>2 DEF Sound
    <3>2. Feeds(<<>>, fed')
      BY DEF Feeds, InRow
    <3> QED
      BY <3>1, <3>2
  <2> QED
    BY <1>7, <2>2, <2>3
<1> QED
  BY <1>6, <1>8, <1>9

\* A step of the pump that leaves queue and chunks to themselves.
LEMMA DecodeOrder ==
    ASSUME OrderInv, DecodesNext', fed' = fed,
           wave'.queued = wave.queued, wave'.chunks = wave.chunks
    PROVE  OrderInv'
BY DEF OrderInv

\* The pump only turns to a wave that was opened, and leaves it so.
LEMMA PumpOpened ==
    ASSUME Inv, Unopened, PumpStep
    PROVE  Unopened'
<1>1. /\ Sound(wave, Coming) /\ wave \in WaveType /\ wave.opened
  <2>1. Sound(wave, Coming) /\ wave \in WaveType
    BY DEF Inv, TypeOK
  <2>2. pump.at = "asleep" => wave.src # "none"
    BY DEF PumpStep, PumpEnter, PumpPass, PumpRefused, PumpDecide,
           DecodeBegin, DecodeNothing, DecodeRead, DecodeEmpty, DecodeStore,
           DecodeMark, DecodePush, DecodeClear, At
  <2> QED
    BY <2>1, <2>2 DEF Sound, Unopened
<1>2. CASE PumpPass \/ PumpRefused
  <2>1. Sound(Drained, Coming) /\ Drained.opened
    BY <1>1, DrainedSound, ComingType DEF Drained, WaveType
  <2> DEFINE d == Drained
  <2> HIDE DEF d
  <2>2. d \in WaveType /\ d.opened
    BY <2>1 DEF Sound, d
  <2>3. \A k : Uploaded(d, k).opened = TRUE
    BY <2>2 DEF Uploaded, WaveType
  <2>4. \A k : [Uploaded(d, k) EXCEPT !.chunks = Tail(@),
                                      !.aborted = TRUE].opened = TRUE
    BY <2>2 DEF Uploaded, WaveType
  <2>5. wave'.opened
    BY <1>2, <2>3, <2>4 DEF PumpPass, PumpRefused, d
  <2> QED
    BY <2>5 DEF Unopened, Fresh
<1>3. CASE ~(PumpPass \/ PumpRefused)
  <2>1. wave'.opened
    BY <1>1, <1>3
       DEF PumpStep, PumpEnter, PumpDecide, DecodeBegin, DecodeNothing,
           DecodeRead, DecodeEmpty, DecodeStore, DecodeMark, DecodePush,
           DecodeClear, WaveType
  <2> QED
    BY <2>1 DEF Unopened, Fresh
<1> QED
  BY <1>2, <1>3

LEMMA PumpOrder ==
    ASSUME Inv, Unopened, OrderInv, PumpStep, ~PumpRefused
    PROVE  OrderInv'
<1> USE DEF At, Goto
<1> DEFINE up == Upcoming(wave.chunks, fed)
<1>1. /\ Sound(wave, Coming) /\ Within /\ wave \in WaveType
      /\ pump \in [at : PumpAt, off : 0 .. Chunks, last : BOOLEAN]
      /\ DecodesNext /\ Leads(wave.chunks, fed)
      /\ wave.offset \in 0 .. Chunks /\ wave.eof \in BOOLEAN
  BY DEF Inv, TypeOK, OrderInv, WaveType
<1>2. CASE PumpEnter
  <2>1. /\ pump' = [pump EXCEPT !.at = "pass"] /\ pump.at = "asleep"
        /\ UNCHANGED <<wave, main, fed>> /\ wave.src # "none"
    BY <1>2 DEF PumpEnter
  <2>2. DecodesNext'
    BY <1>1, <2>1 DEF DecodesNext, Holding
  <2> QED
    BY <2>1, <2>2, DecodeOrder
<1>3. CASE PumpPass
  <2>1. pump' = [pump EXCEPT !.at = "decide"] /\ pump.at = "pass"
    BY <1>3 DEF PumpPass
  <2>2. /\ Feeds(wave'.queued, fed') /\ Leads(wave'.chunks, fed')
        /\ Upcoming(wave'.chunks, fed') = up
        /\ wave'.offset = wave.offset /\ wave'.eof = wave.eof
        /\ wave'.opened = wave.opened
    BY <1>3, PassOrder
  <2>3. ~Holding /\ pump'.at = "decide"
    BY <1>1, <2>1 DEF Holding
  <2>4. DecodesNext'
    BY <1>1, <2>2, <2>3 DEF DecodesNext, Holding
  <2> QED
    BY <2>2, <2>4 DEF OrderInv
<1>4. CASE PumpDecide
  <2>1. /\ pump' = [pump EXCEPT !.at = IF NeedMore(wave) /\ ~wave.latched
                                       THEN "begin" ELSE "asleep"]
        /\ pump.at = "decide" /\ fed' = fed
        /\ wave' = [wave EXCEPT !.latched = wave.latched \/ NeedMore(wave)]
    BY <1>4 DEF PumpDecide
  <2>2. /\ wave'.queued = wave.queued /\ wave'.chunks = wave.chunks
        /\ wave'.offset = wave.offset /\ wave'.eof = wave.eof
        /\ wave'.opened = wave.opened
        /\ pump'.at \in {"begin", "asleep"}
    BY <1>1, <2>1 DEF WaveType
  <2>3. DecodesNext'
    BY <1>1, <2>1, <2>2 DEF DecodesNext, Holding
  <2> QED
    BY <2>1, <2>2, <2>3, DecodeOrder
<1>5. CASE DecodeBegin
  <2> DEFINE off == IF wave.offset >= Chunks THEN 0 ELSE wave.offset
  <2>1. /\ pump.at = "begin" /\ fed' = fed
        /\ pump' = [at |-> "read", off |-> off,
                    last |-> off + 1 >= Chunks /\ ~wave.looping]
        /\ wave' = [wave EXCEPT !.offset = off] /\ ~GivenUp(wave)
    BY <1>5 DEF DecodeBegin
  <2>2. /\ wave'.queued = wave.queued /\ wave'.chunks = wave.chunks
        /\ wave'.offset = off /\ wave'.eof = wave.eof
        /\ wave'.opened = wave.opened
    BY <1>1, <2>1 DEF WaveType
  <2>3. /\ wave.offset \in 0 .. Decodable /\ up = Reached(wave.offset)
        /\ ~wave.eof
    BY <1>1, <2>1 DEF DecodesNext, Holding, GivenUp
  <2>4. off \in 0 .. Decodable /\ up = Reached(off)
    BY <2>3, WaveAssumption DEF Reached
  <2> HIDE DEF off
  <2>5. DecodesNext'
    BY <2>1, <2>2, <2>3, <2>4 DEF DecodesNext, Holding
  <2> QED
    BY <2>1, <2>2, <2>5, DecodeOrder
<1>6. CASE DecodeNothing
  <2>1. /\ wave' = [wave EXCEPT !.eof = wave.eof \/ ~GivenUp(wave)]
        /\ GivenUp(wave) \/ Over(wave)
    BY <1>6 DEF DecodeNothing
  <2>2. /\ wave'.queued = wave.queued /\ wave'.chunks = wave.chunks
        /\ wave'.offset = wave.offset
        /\ wave'.opened = wave.opened /\ pump'.at = "clear"
        /\ pump.at = "begin" /\ fed' = fed
    <3>1. \A e : /\ [wave EXCEPT !.eof = e].queued = wave.queued
                 /\ [wave EXCEPT !.eof = e].chunks = wave.chunks
                 /\ [wave EXCEPT !.eof = e].offset = wave.offset
                 /\ [wave EXCEPT !.eof = e].opened = wave.opened
      BY <1>1 DEF WaveType
    <3>2. /\ pump' = [pump EXCEPT !.at = "clear"] /\ pump.at = "begin"
          /\ fed' = fed
      BY <1>6 DEF DecodeNothing
    <3>3. pump'.at = "clear"
      BY <1>1, <3>2
    <3> QED
      BY <2>1, <3>1, <3>2, <3>3
  <2>3. /\ wave.offset \in 0 .. Decodable /\ up = Reached(wave.offset)
        /\ wave.eof => up = 0
    BY <1>1, <2>2 DEF DecodesNext, Holding
  <2>4. wave'.eof => up = 0
    <3>1. wave'.eof => wave.eof \/ ~GivenUp(wave)
      BY <1>1, <2>1 DEF WaveType
    <3>2. Over(wave) => up = 0
      BY <2>3, WaveAssumption DEF Over, Reached
    <3> QED
      BY <2>1, <2>3, <3>1, <3>2
  <2>5. DecodesNext'
    BY <2>2, <2>3, <2>4 DEF DecodesNext, Holding
  <2> QED
    BY <2>2, <2>5, DecodeOrder
<1>7. CASE DecodeRead
  <2>1. PICK short \in {FALSE, pump.off + 1 = Decodable /\ Decodable < Chunks} :
           pump' = [pump EXCEPT !.at = "store",
                                !.last = pump.last \/ (short /\ ~wave.looping)]
    BY <1>7 DEF DecodeRead
  <2>2. /\ pump.at = "read" /\ pump.off < Decodable
        /\ wave' = wave /\ fed' = fed
    BY <1>7 DEF DecodeRead
  <2>3. /\ pump'.at = "store" /\ pump'.off = pump.off
        /\ pump'.last => pump.last \/ pump.off + 1 = Decodable
    BY <1>1, <2>1
  <2>4. /\ wave.offset = pump.off /\ up = Reached(pump.off) /\ ~wave.eof
        /\ pump.last => pump.off + 1 >= Chunks
        /\ pump.off \in 0 .. Chunks
    BY <1>1, <2>2 DEF DecodesNext, Holding
  <2>5. up = pump.off /\ (pump'.last => pump.off = Decodable - 1)
    BY <2>2, <2>3, <2>4, WaveAssumption DEF Reached
  <2>6. DecodesNext'
    BY <2>2, <2>3, <2>4, <2>5 DEF DecodesNext, Holding
  <2> QED
    BY <2>2, <2>6, DecodeOrder
<1>8. CASE DecodeEmpty
  <2>1. /\ pump' = [pump EXCEPT !.at = "clear"] /\ pump.at = "read"
        /\ fed' = fed /\ pump.off >= Decodable
        /\ \/ wave' = [wave EXCEPT !.offset = 0]
           \/ wave' = [wave EXCEPT !.eof = TRUE]
    BY <1>8 DEF DecodeEmpty
  <2>2. /\ wave'.queued = wave.queued /\ wave'.chunks = wave.chunks
        /\ wave'.opened = wave.opened /\ pump'.at = "clear"
        /\ wave'.offset \in {0, wave.offset}
    BY <1>1, <2>1 DEF WaveType
  <2>3. wave.offset = Decodable /\ up = 0
    BY <1>1, <2>1, WaveAssumption DEF DecodesNext, Holding, Reached
  <2>4. DecodesNext'
    BY <2>1, <2>2, <2>3, WaveAssumption DEF DecodesNext, Holding, Reached
  <2> QED
    BY <2>1, <2>2, <2>4, DecodeOrder
<1>9. CASE DecodeStore
  <2>1. /\ pump' = [pump EXCEPT !.at = "mark"] /\ pump.at = "store"
        /\ wave' = [wave EXCEPT !.offset = pump.off + 1] /\ fed' = fed
    BY <1>9 DEF DecodeStore
  <2>2. /\ wave'.queued = wave.queued /\ wave'.chunks = wave.chunks
        /\ wave'.opened = wave.opened /\ wave'.offset = pump.off + 1
        /\ wave'.eof = wave.eof /\ pump'.at = "mark"
        /\ pump'.off = pump.off /\ pump'.last = pump.last
    BY <1>1, <2>1 DEF WaveType
  <2>3. DecodesNext'
    BY <1>1, <2>1, <2>2 DEF DecodesNext, Holding
  <2> QED
    BY <2>1, <2>2, <2>3, DecodeOrder
<1>10. CASE DecodeMark
  <2>1. /\ pump' = [pump EXCEPT !.at = "push"] /\ pump.at = "mark"
        /\ wave' = [wave EXCEPT !.eof = wave.eof \/ pump.last] /\ fed' = fed
    BY <1>10 DEF DecodeMark
  <2>2. /\ wave'.queued = wave.queued /\ wave'.chunks = wave.chunks
        /\ wave'.opened = wave.opened /\ wave'.offset = wave.offset
        /\ wave'.eof = (wave.eof \/ pump.last) /\ pump'.at = "push"
        /\ pump'.off = pump.off
    BY <1>1, <2>1 DEF WaveType
  <2>3. DecodesNext'
    BY <1>1, <2>1, <2>2 DEF DecodesNext, Holding
  <2> QED
    BY <2>1, <2>2, <2>3, DecodeOrder
<1>11. CASE DecodePush
  <2>1. /\ pump' = [pump EXCEPT !.at = "clear"] /\ pump.at = "push"
        /\ wave' = [wave EXCEPT !.chunks = Append(wave.chunks, pump.off)]
        /\ fed' = fed
    BY <1>11 DEF DecodePush
  <2>2. /\ wave'.queued = wave.queued
        /\ wave'.chunks = Append(wave.chunks, pump.off)
        /\ wave'.opened = wave.opened /\ wave'.offset = wave.offset
        /\ wave'.eof = wave.eof /\ pump'.at = "clear"
    BY <1>1, <2>1 DEF WaveType
  <2>3. /\ up = pump.off /\ wave.offset = pump.off + 1
        /\ pump.off \in 0 .. Decodable - 1
        /\ wave.eof => pump.off = Decodable - 1
    BY <1>1, <2>1, WaveAssumption DEF DecodesNext, Holding, Within
  <2>4. /\ Leads(wave'.chunks, fed')
        /\ Upcoming(wave'.chunks, fed') = After(pump.off)
    BY <1>1, <2>1, <2>2, <2>3, PushLeads
  <2>5. /\ wave'.offset \in 0 .. Decodable
        /\ After(pump.off) = Reached(wave'.offset)
        /\ wave'.eof => After(pump.off) = 0
    BY <2>2, <2>3, WaveAssumption DEF After, Reached
  <2>6. DecodesNext'
    BY <2>2, <2>4, <2>5 DEF DecodesNext, Holding
  <2> QED
    BY <2>1, <2>2, <2>4, <2>6, <1>1 DEF OrderInv
<1>12. CASE DecodeClear
  <2>1. /\ pump' = [pump EXCEPT !.at = "asleep"] /\ pump.at = "clear"
        /\ wave' = [wave EXCEPT !.latched = FALSE] /\ fed' = fed
    BY <1>12 DEF DecodeClear
  <2>2. /\ wave'.queued = wave.queued /\ wave'.chunks = wave.chunks
        /\ wave'.opened = wave.opened /\ wave'.offset = wave.offset
        /\ wave'.eof = wave.eof /\ pump'.at = "asleep"
    BY <1>1, <2>1 DEF WaveType
  <2>3. DecodesNext'
    BY <1>1, <2>1, <2>2 DEF DecodesNext, Holding
  <2> QED
    BY <2>1, <2>2, <2>3, DecodeOrder
<1> QED
  BY <1>2, <1>3, <1>4, <1>5, <1>6, <1>7, <1>8, <1>9, <1>10, <1>11, <1>12
     DEF PumpStep

\* What is ahead, the chunk in the pump's hands included.
LEMMA AheadFacts ==
    ASSUME Inv, OrderInv
    PROVE  /\ Leads(Ahead, fed)
           /\ wave.eof => Upcoming(Ahead, fed) = 0
<1>1. /\ Leads(wave.chunks, fed) /\ DecodesNext /\ Within
      /\ wave.chunks \in Seq(0 .. Decodable - 1)
  BY DEF Inv, OrderInv, Leads
<1>2. CASE ~Holding
  <2>1. Ahead = wave.chunks
    BY <1>1, <1>2, ConcatEmptySeq DEF Ahead, Holding
  <2> QED
    BY <1>1, <1>2, <2>1 DEF DecodesNext
<1>3. CASE Holding
  <2>1. /\ Upcoming(wave.chunks, fed) = pump.off /\ pump.off \in 0 .. Decodable - 1
        /\ wave.eof => pump.off = Decodable - 1
    <3>1. pump.off \in Nat
      BY DEF Inv, TypeOK
    <3> QED
      BY <1>1, <1>3, <3>1, WaveAssumption DEF DecodesNext, Holding, Within
  <2>2. Ahead = Append(wave.chunks, pump.off)
    <3> DEFINE T == 0 .. Decodable - 1
    <3> HIDE DEF T
    <3>1. wave.chunks \in Seq(T) /\ pump.off \in T
      BY <1>1, <2>1 DEF T
    <3>2. Append(wave.chunks, pump.off) = wave.chunks \o <<pump.off>>
      BY <3>1, AppendIsConcat
    <3> QED
      BY <1>3, <3>2 DEF Ahead, Holding
  <2>3. Leads(Ahead, fed) /\ Upcoming(Ahead, fed) = After(pump.off)
    BY <1>1, <2>1, <2>2, PushLeads
  <2> QED
    BY <2>1, <2>3, WaveAssumption DEF After
<1> QED
  BY <1>2, <1>3

-----------------------------------------------------------------------------
\* The pump's pass has a buffer for each chunk.
LEMMA PassUploadsAll ==
    ASSUME Inv, Unopened, pump.at = "pass"
    PROVE  /\ Sound(Drained, Coming) /\ Drained.chunks = wave.chunks
           /\ Uploads(Drained) = Len(wave.chunks)
<1>1. Sound(wave, Coming) /\ Coming \in {0, 1} /\ wave.opened /\ wave \in WaveType
  BY ComingType DEF Inv, TypeOK, Unopened
<1>2. Sound(Drained, Coming) /\ Drained.chunks = wave.chunks
  BY <1>1, DrainedSound
<1>3. Drained.opened
  BY <1>1 DEF Drained, WaveType
<1> DEFINE d == Drained
<1> HIDE DEF d
<1>4. /\ Sound(d, Coming) /\ d.chunks = wave.chunks /\ d.opened
  BY <1>2, <1>3 DEF d
<1>5. /\ d.free \in Nat /\ d.inFlight \in Nat /\ Len(d.chunks) \in Nat
      /\ d.free + d.inFlight = NumBuffers
      /\ Len(d.chunks) + d.inFlight + Coming <= NumBuffers
  BY <1>4 DEF Sound, WaveType
<1>6. ~(d.free < Len(d.chunks))
  BY <1>1, <1>5, WaveAssumption
<1>7. Uploads(d) = Len(wave.chunks)
  BY <1>4, <1>6 DEF Uploads
<1> QED
  BY <1>2, <1>7 DEF d

LEMMA SparseNext ==
    ASSUME Inv, Sparse, Unopened, [Next]_vars
    PROVE  Sparse'
<1> USE DEF At, Goto
<1>1. /\ wave \in WaveType /\ Coming \in {0, 1}
      /\ pump \in [at : PumpAt, off : 0 .. Chunks, last : BOOLEAN]
      /\ Len(<<>>) = 0
  BY ComingType, Values DEF Inv, TypeOK
<1>2. CASE UNCHANGED vars
  BY <1>2 DEF vars, Sparse, Holding
<1>3. CASE OtherStep
  <2>1. pump' = pump /\ wave'.chunks \in {wave.chunks, <<>>}
    BY <1>3, OtherSound, OtherKeeps DEF TrackKept
  <2> QED
    BY <1>1, <2>1 DEF Sparse, Holding
<1>4. CASE PumpPass
  <2> DEFINE d == Drained
             c == wave.chunks
  <2>1. /\ pump.at = "pass" /\ pump' = [pump EXCEPT !.at = "decide"]
        /\ wave' = Uploaded(d, Uploads(d))
    BY <1>4 DEF PumpPass
  <2>2. Sound(d, Coming) /\ d.chunks = c /\ Uploads(d) = Len(c)
    BY <2>1, PassUploadsAll
  <2> HIDE DEF d
  <2>3. Len(c) \in Nat /\ Uploads(d) \in 0 .. Uploads(d)
    BY <1>1, <2>2 DEF WaveType
  <2>4. /\ Sound(wave', Coming)
        /\ Len(wave'.chunks) = Len(c) - Uploads(d)
    BY <1>1, <2>1, <2>2, <2>3, UploadedSound
  <2>5. wave'.chunks = <<>> /\ Len(wave'.chunks) = 0
    <3>1. Len(wave'.chunks) = 0
      BY <2>2, <2>3, <2>4
    <3>2. wave'.chunks \in Seq(0 .. Chunks - 1)
      BY <2>4 DEF Sound, WaveType
    <3> QED
      BY <3>1, <3>2, EmptySeq
  <2> QED
    BY <2>5 DEF Sparse
<1>5. CASE PumpRefused
  <2> DEFINE d == Drained
             c == wave.chunks
  <2>1. pump.at = "pass" /\ pump' = [pump EXCEPT !.at = "asleep"]
    BY <1>5 DEF PumpRefused
  <2>2. PICK k \in 0 .. Uploads(d) - 1 :
           wave' = [Uploaded(d, k) EXCEPT !.chunks = Tail(@), !.aborted = TRUE]
    BY <1>5 DEF PumpRefused
  <2>3. Sound(d, Coming) /\ d.chunks = c /\ Uploads(d) = Len(c)
    BY <2>1, PassUploadsAll
  <2> HIDE DEF d
  <2>4. Len(c) \in Nat /\ k \in 0 .. Uploads(d) /\ k < Len(c)
    BY <1>1, <2>2, <2>3 DEF WaveType
  <2> DEFINE u == Uploaded(d, k)
  <2>5. Sound(u, Coming) /\ Len(u.chunks) = Len(c) - k
    BY <1>1, <2>3, <2>4, UploadedSound
  <2> HIDE DEF u
  <2>6. u \in WaveType /\ Len(u.chunks) = 1 /\ k = 0
    BY <2>4, <2>5 DEF Sound, Sparse
  <2>7. wave'.chunks = Tail(u.chunks)
    BY <2>2, <2>6 DEF WaveType, u
  <2>8. Len(wave'.chunks) = 0
    <3> DEFINE T == 0 .. Chunks - 1
    <3>1. u.chunks \in Seq(T)
      BY <2>6 DEF WaveType
    <3> HIDE DEF T
    <3> QED
      BY <2>6, <2>7, <3>1, HeadTailProperties, EmptySeq
  <2> QED
    BY <1>1, <2>1, <2>8 DEF Sparse, Holding, PumpAt
<1>6. CASE DecodePush
  <2>1. /\ pump.at = "push" /\ pump' = [pump EXCEPT !.at = "clear"]
        /\ wave' = [wave EXCEPT !.chunks = Append(wave.chunks, pump.off)]
    BY <1>6 DEF DecodePush
  <2>2. wave.chunks = <<>> /\ wave'.chunks = Append(wave.chunks, pump.off)
    BY <1>1, <2>1 DEF Sparse, Holding, WaveType
  <2>3. Len(wave'.chunks) = 1
    BY <2>2
  <2> QED
    BY <1>1, <2>1, <2>3 DEF Sparse, Holding
<1>7. CASE PumpEnter \/ DecodeClear
  <2>1. wave'.chunks = wave.chunks /\ pump'.at \in {"pass", "asleep"}
    BY <1>1, <1>7 DEF PumpEnter, DecodeClear, WaveType
  <2> QED
    BY <2>1 DEF Sparse, Holding
<1>8. CASE PumpDecide \/ DecodeBegin \/ DecodeNothing
  <2>1. /\ wave'.chunks = wave.chunks
        /\ pump.at \in {"decide", "begin"}
    BY <1>1, <1>8 DEF PumpDecide, DecodeBegin, DecodeNothing, WaveType
  <2> QED
    BY <2>1 DEF Sparse
<1>9. CASE DecodeRead \/ DecodeEmpty \/ DecodeStore \/ DecodeMark
  <2>1. wave'.chunks = wave.chunks /\ (pump.at = "read" \/ Holding)
    BY <1>1, <1>9
       DEF DecodeRead, DecodeEmpty, DecodeStore, DecodeMark, WaveType, Holding
  <2> QED
    BY <2>1 DEF Sparse
<1> QED
  BY <1>2, <1>3, <1>4, <1>5, <1>6, <1>7, <1>8, <1>9
     DEF Next, OtherStep, PumpStep

\* A refused buffer leaves what is queued as it was.
LEMMA RefusedStrands ==
    ASSUME Inv, Sparse, Unopened, OrderInv, PumpRefused
    PROVE  Stranded'
<1> DEFINE d == Drained
           c == wave.chunks
<1>1. /\ pump.at = "pass" /\ pump' = [pump EXCEPT !.at = "asleep"] /\ fed' = fed
      /\ Uploads(d) > 0
  BY DEF PumpRefused, At, Goto
<1>2. PICK k \in 0 .. Uploads(d) - 1 :
         wave' = [Uploaded(d, k) EXCEPT !.chunks = Tail(@), !.aborted = TRUE]
  BY DEF PumpRefused
<1>3. /\ Sound(d, Coming) /\ d.chunks = c /\ Uploads(d) = Len(c)
  BY <1>1, PassUploadsAll
<1>4. /\ wave \in WaveType /\ wave.opened /\ Feeds(wave.queued, fed)
      /\ Leads(c, fed) /\ pump \in [at : PumpAt, off : 0 .. Chunks, last : BOOLEAN]
      /\ Sound(wave, Coming)
  BY <1>1 DEF Inv, TypeOK, OrderInv, Unopened
<1>5. k = 0 /\ Len(c) = 1 /\ k \in 0 .. Uploads(d)
  <2>1. Len(c) \in Nat /\ Len(c) <= 1
    BY <1>4 DEF Sparse, WaveType
  <2> HIDE DEF c, d
  <2> QED
    BY <1>1, <1>2, <1>3, <2>1
<1>6. /\ d.queued = SubSeq(wave.queued, wave.done + 1, Len(wave.queued))
      /\ d.opened = wave.opened
  BY <1>4 DEF Drained, WaveType
<1>7. Feeds(d.queued, fed)
  <2> DEFINE S == 0 .. Chunks - 1
  <2>1. wave.queued \in Seq(S) /\ wave.done \in Nat /\ wave.done <= Len(wave.queued)
    BY <1>4 DEF Sound, WaveType
  <2> HIDE DEF S
  <2>2. Feeds(SubSeq(wave.queued, wave.done + 1, Len(wave.queued)), fed)
    BY <1>4, <2>1, RestFeeds
  <2> QED
    BY <1>6, <2>2
<1> HIDE DEF d
<1>8. d \in WaveType
  BY <1>3 DEF Sound
<1>9. /\ wave'.aborted /\ wave'.opened
      /\ wave'.queued = IF d.src = "none" THEN d.queued
                        ELSE d.queued \o SubSeq(d.chunks, 1, 0)
  BY <1>2, <1>4, <1>5, <1>6, <1>8 DEF Uploaded, WaveType
<1>10. wave'.queued = d.queued
  <2> DEFINE S == 0 .. Chunks - 1
  <2>1. d.queued \in Seq(S) /\ d.chunks \in Seq(S)
    BY <1>8 DEF WaveType
  <2> HIDE DEF S
  <2>2. SubSeq(d.chunks, 1, 0) \in Seq(S) /\ Len(SubSeq(d.chunks, 1, 0)) = 0
    BY SubSeqProperties
  <2>3. d.queued \o SubSeq(d.chunks, 1, 0) = d.queued
    BY <2>1, <2>2, EmptySeq, ConcatEmptySeq
  <2> QED
    BY <1>9, <2>3
<1>11. wave'.chunks = <<>>
  <2> DEFINE T == 0 .. Chunks - 1
             u == Uploaded(d, k)
  <2>1. Sound(u, Coming) /\ Len(u.chunks) = Len(c) - k
    BY <1>3, <1>5, UploadedSound, ComingType
  <2>2. Sound(u, Coming) /\ Len(u.chunks) = 1
    <3> HIDE DEF c, u
    <3> QED
      BY <1>5, <2>1
  <2> HIDE DEF u
  <2>3. u.chunks \in Seq(T) /\ wave'.chunks = Tail(u.chunks)
    BY <1>2, <2>2 DEF Sound, WaveType, u
  <2> HIDE DEF T
  <2>4. Tail(u.chunks) \in Seq(T) /\ Len(Tail(u.chunks)) = 0
    <3> DEFINE q == u.chunks
    <3>1. q \in Seq(T) /\ Len(q) = 1
      BY <2>2, <2>3
    <3> HIDE DEF q
    <3>2. q # <<>>
      BY <3>1, EmptySeq
    <3>3. Tail(q) \in Seq(T) /\ Len(Tail(q)) = 0
      BY <3>1, <3>2, HeadTailProperties
    <3> QED
      BY <3>3 DEF q
  <2> QED
    BY <2>3, <2>4, EmptySeq
<1> QED
  BY <1>1, <1>4, <1>7, <1>9, <1>10, <1>11 DEF Stranded, Leads

\* The pump never enters a wave that was given up.
LEMMA StrandedRests == Stranded => ~PumpStep
BY DEF Stranded, PumpStep, PumpEnter, PumpPass, PumpRefused, PumpDecide,
       DecodeBegin, DecodeNothing, DecodeRead, DecodeEmpty, DecodeStore,
       DecodeMark, DecodePush, DecodeClear, At

\* Nor does it find its place again by itself.
LEMMA LostStays ==
    ASSUME PumpStep, fed = Lost
    PROVE  fed' = Lost
BY DEF PumpStep, PumpEnter, PumpPass, PumpRefused, PumpDecide, DecodeBegin,
       DecodeNothing, DecodeRead, DecodeEmpty, DecodeStore, DecodeMark,
       DecodePush, DecodeClear, Lost

LEMMA FedNext ==
    ASSUME Inv, FedInv, [Next]_vars
    PROVE  FedInv'
<1>1. Sparse'
  BY SparseNext DEF FedInv
<1>2. CASE UNCHANGED vars
  BY <1>1, <1>2
     DEF vars, FedInv, OrderInv, Stranded, Unopened, Fresh, DecodesNext,
         Holding, Lost
<1>3. CASE OtherStep
  BY <1>1, <1>3, OtherOrder DEF FedInv, Lost
<1>4. CASE PumpStep
  <2>1. Unopened'
    BY <1>4, PumpOpened DEF FedInv
  <2>2. CASE fed = Lost
    BY <1>1, <1>4, <2>1, <2>2, LostStays DEF FedInv, Lost
  <2>3. CASE OrderInv /\ PumpRefused
    BY <1>1, <2>1, <2>3, RefusedStrands DEF FedInv
  <2>4. CASE OrderInv /\ ~PumpRefused
    BY <1>1, <1>4, <2>1, <2>4, PumpOrder DEF FedInv
  <2> QED
    BY <1>4, <2>2, <2>3, <2>4, StrandedRests DEF FedInv
<1> QED
  BY <1>2, <1>3, <1>4 DEF Next, OtherStep

LEMMA FedInit == Init => FedInv
<1> SUFFICES ASSUME Init PROVE Sparse
  BY OrderInit DEF FedInv
<1>1. wave.chunks = <<>> /\ Len(<<>>) = 0 /\ pump.at = "asleep"
  BY DEF Init, NewWave
<1> QED
  BY <1>1 DEF Sparse, Holding

LEMMA FedAlways == Spec => []FedInv
<1>1. Inv /\ FedInv /\ [Next]_vars => FedInv'
  BY FedNext
<1> QED
  BY <1>1, FedInit, InvAlways, PTL DEF Spec

\* For every ring, track and sequence of calls, and whatever OpenAL refuses,
\* what it is given is the track in its order, from the start or a rewind that
\* finds no decode under way until one that does
\* (WaveOAL.cpp:422-485, 561-652, 1074-1136).
THEOREM FedAlwaysInOrder == Spec => []FedInOrder
<1>1. Inv /\ FedInv => FedInOrder
  <2> SUFFICES ASSUME Inv, FedInv
               PROVE  FedInOrder
    OBVIOUS
  <2>0. CASE fed = Lost
    BY <2>0 DEF FedInOrder
  <2>1. CASE OrderInv
    <3>1. Leads(Ahead, fed) /\ Feeds(wave.queued, fed)
      BY <2>1, AheadFacts DEF OrderInv
    <3>2. Len(Ahead) \in Nat /\ DOMAIN Ahead = 1 .. Len(Ahead)
      BY <3>1, LenProperties DEF Leads
    <3>3. ASSUME NEW i \in DOMAIN Ahead
          PROVE  Ahead[i] = IF i = 1 THEN fed ELSE After(Ahead[i - 1])
      <4>1. CASE i = 1
        <5>1. Ahead # <<>>
          BY <3>2, <3>3, <4>1, Values
        <5> QED
          BY <3>1, <4>1, <5>1 DEF Leads
      <4>2. CASE i # 1
        <5>1. i \in 2 .. Len(Ahead)
          BY <3>2, <3>3, <4>2
        <5> QED
          BY <3>1, <4>2, <5>1 DEF Leads, InRow
      <4> QED
        BY <4>1, <4>2
    <3> QED
      BY <3>1, <3>3 DEF FedInOrder, Feeds, InRow
  <2>2. CASE Stranded
    <3>1. Ahead = <<>> /\ Feeds(wave.queued, fed)
      BY <2>2 DEF Stranded, Ahead
    <3>2. DOMAIN Ahead = {}
      BY <3>1
    <3> QED
      BY <3>1, <3>2 DEF FedInOrder, Feeds, InRow
  <2> QED
    BY <2>0, <2>1, <2>2 DEF FedInv
<1> QED
  BY <1>1, FedAlways, InvAlways, PTL

\* Under the same condition the end of the track is flagged with or after the
\* decode of its last chunk, unless the wave was given up: the buffer that is
\* refused may be the last one (WaveOAL.cpp:561-652).
THEOREM EofAlwaysTheEnd == Spec => []EofIsTheEnd
<1>0. FedInv /\ ~wave.aborted /\ fed # Lost => OrderInv
  BY DEF FedInv, Stranded
<1>1. Inv /\ OrderInv => EofIsTheEnd
  <2> SUFFICES ASSUME Inv, OrderInv, wave.eof
               PROVE  \/ fed = 0 /\ Ahead = <<>>
                      \/ Ahead # <<>> /\ Ahead[Len(Ahead)] = Decodable - 1
    BY DEF EofIsTheEnd
  <2>1. Leads(Ahead, fed) /\ Upcoming(Ahead, fed) = 0
    BY AheadFacts
  <2>2. CASE Ahead = <<>>
    BY <2>1, <2>2 DEF Upcoming
  <2>3. CASE Ahead # <<>>
    <3> DEFINE x == Ahead[Len(Ahead)]
               T == 0 .. Decodable - 1
    <3>1. After(x) = 0
      BY <2>1, <2>3 DEF Upcoming
    <3>2. x \in T
      <4>1. Ahead \in Seq(T)
        BY <2>1 DEF Leads
      <4> HIDE DEF T
      <4>2. Len(Ahead) \in 1 .. Len(Ahead)
        BY <2>3, <4>1, EmptySeq, LenProperties
      <4> QED
        BY <4>1, <4>2, ElementOfSeq
    <3> HIDE DEF x
    <3>3. x = Decodable - 1
      BY <3>1, <3>2, WaveAssumption DEF After
    <3> QED
      BY <2>3, <3>3 DEF x
  <2> QED
    BY <2>2, <2>3
<1>2. Inv /\ FedInv => EofIsTheEnd
  BY <1>0, <1>1 DEF EofIsTheEnd
<1> QED
  BY <1>2, FedAlways, InvAlways, PTL
=============================================================================
