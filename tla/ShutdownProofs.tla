--------------------------- MODULE ShutdownProofs ---------------------------
(***************************************************************************)
(* Proofs about Shutdown.tla, for any number of sessions, any capacity of  *)
(* the charger channel and any number of frames: types, that the close     *)
(* frame cuts nothing off, that a clean shutdown is clean, and that the    *)
(* publisher outlives the sessions.                                        *)
(*                                                                         *)
(* Sessions do not touch one another, so the invariant is a relation       *)
(* Sound between what one session, its channel and its writer hold; the    *)
(* lemmas are about such values.                                           *)
(***************************************************************************)
EXTENDS Shutdown, SequenceTheorems, TLAPS

PCs == {"none", "forwarding", "sending", "teardown", "closing", "flushing", "joining", "gone"}
Late == {"flushing", "joining", "gone"}
Items == {"frame", "close"}
Writers == {"idle", "frame", "close", "ending", "done"}

OnlyFrames(c) == \A i \in 1..Len(c) : c[i] = "frame"
FramesFirst(c) == \A i \in 1..Len(c) : i < Len(c) => c[i] = "frame"

\* The frames in a channel whose last item may be the close frame.
Queued(c) == IF c # <<>> /\ c[Len(c)] = "close" THEN Len(c) - 1 ELSE Len(c)

\* The counts of a session: accepted, sent, taken from the Central System.
Counted(p, acc, snt, fr) ==
    /\ acc \in Nat /\ snt \in Nat /\ fr \in Nat /\ fr <= MaxFrames
    /\ snt <= acc
    /\ acc + (IF p = "sending" THEN 1 ELSE 0) <= fr

\* Every accepted frame is sent, in the writer's hand or in the channel, until
\* the writer ends.
Balanced(w, c, acc, snt) ==
    /\ w = "idle" => acc = snt + Queued(c)
    /\ w = "frame" => acc = snt + 1 + Queued(c)
    /\ w = "close" => acc = snt /\ c = <<>>

\* The close frame comes last, and only the teardown sends it.
CloseLast(s, p, w, c, cl) ==
    /\ c \in Seq(Items) /\ Len(c) <= ChanCap /\ FramesFirst(c)
    /\ p \notin Late => w # "close" /\ s \notin cl /\ OnlyFrames(c)

\* How a writer ends, and what its session waits for.
Ended(s, p, w, c, acc, snt, cl, br) ==
    /\ s \in cl => acc = snt /\ c = <<>> /\ w \in {"ending", "done"}
    /\ w \in {"ending", "done"} => s \in cl \cup br
    /\ p = "gone" => w = "done"

Sound(s, p, w, c, acc, snt, fr, cl, br) ==
    /\ Counted(p, acc, snt, fr)
    /\ Balanced(w, c, acc, snt)
    /\ CloseLast(s, p, w, c, cl)
    /\ Ended(s, p, w, c, acc, snt, cl, br)

SoundAt(s) ==
    Sound(s, pc[s], writer[s], chan[s], accepted[s], sent[s], frames[s], closed, broken)

Shape ==
    /\ main \in {"health", "listener", "serving", "draining", "joining", "exited", "failed"}
    /\ token \in BOOLEAN /\ listening \in BOOLEAN /\ server \in BOOLEAN /\ clean \in BOOLEAN
    /\ mqtt \in {"new", "connecting", "running", "stopped", "unavailable"}
    /\ pc \in [Sessions -> PCs] /\ chan \in [Sessions -> Seq(Items)]
    /\ writer \in [Sessions -> Writers] /\ reads \in [Sessions -> BOOLEAN]
    /\ frames \in [Sessions -> Nat] /\ accepted \in [Sessions -> Nat]
    /\ sent \in [Sessions -> Nat]
    /\ cancelled \subseteq Sessions /\ broken \subseteq Sessions /\ heirs \subseteq Sessions
    /\ closed \subseteq Sessions /\ unheard \subseteq Sessions

IInv == Shape /\ \A s \in Sessions : SoundAt(s)
------------------------------------------------------------------------------
(***************************************************************************)
(* Channels.                                                               *)
(***************************************************************************)

\* The channel's capacity and the bound on frames are what the assumption says.
LEMMA Bounds == ChanCap \in Nat /\ ChanCap > 0 /\ MaxFrames \in Nat
BY ShutdownAssumption DEF ShutdownAssumption

\* What Queued counts is a number, and everything when there is no close frame.
LEMMA QueuedIsNat ==
    ASSUME NEW c \in Seq(Items)
    PROVE  Queued(c) \in Nat /\ (OnlyFrames(c) => Queued(c) = Len(c)) /\ Len(c) \in Nat
<1> DEFINE n == Len(c)
<1>1. n \in Nat BY LenProperties
<1>2. c # <<>> => n > 0 BY <1>1, EmptySeq
<1>3. Queued(c) \in Nat
  <2>1. (Queued(c) = n - 1 /\ n > 0) \/ Queued(c) = n BY <1>2 DEF Queued
  <2> HIDE DEF n
  <2> QED BY <1>1, <2>1
<1>4. OnlyFrames(c) => Queued(c) = n
  <2> SUFFICES ASSUME OnlyFrames(c), c # <<>> PROVE c[n] # "close" BY DEF Queued
  <2>1. n \in 1..n BY <1>1, <1>2
  <2>2. c[n] = "frame" BY <2>1 DEF OnlyFrames
  <2> QED BY <2>2
<1> QED BY <1>1, <1>3, <1>4

\* Appending a frame behind frames.
LEMMA AppendFrame ==
    ASSUME NEW c \in Seq(Items), OnlyFrames(c), Len(c) < ChanCap
    PROVE  LET d == Append(c, "frame")
           IN /\ d \in Seq(Items) /\ Len(d) <= ChanCap /\ OnlyFrames(d) /\ FramesFirst(d)
              /\ Queued(d) = Queued(c) + 1
<1> DEFINE d == Append(c, "frame")
<1>1. "frame" \in Items BY DEF Items
<1>2. d \in Seq(Items) /\ Len(d) = Len(c) + 1
      /\ (\A i \in 1..Len(c) : d[i] = c[i]) /\ d[Len(c) + 1] = "frame"
  BY <1>1, AppendProperties
<1>3. Len(c) \in Nat BY LenProperties
<1>4. Len(d) <= ChanCap BY <1>2, <1>3, Bounds
<1> HIDE DEF d
<1>5. OnlyFrames(d)
  <2> SUFFICES ASSUME NEW i \in 1..Len(d) PROVE d[i] = "frame" BY DEF OnlyFrames
  <2>1. i \in 1..Len(c) \/ i = Len(c) + 1 BY <1>2, <1>3
  <2> QED BY <1>2, <2>1 DEF OnlyFrames
<1>6. FramesFirst(d) BY <1>5 DEF OnlyFrames, FramesFirst
<1>7. Queued(d) = Queued(c) + 1 BY <1>2, <1>3, <1>5, QueuedIsNat
<1> QED BY <1>2, <1>4, <1>5, <1>6, <1>7 DEF d

\* Appending the close frame behind frames.
LEMMA AppendClose ==
    ASSUME NEW c \in Seq(Items), OnlyFrames(c), Len(c) < ChanCap
    PROVE  LET d == Append(c, "close")
           IN /\ d \in Seq(Items) /\ Len(d) <= ChanCap /\ FramesFirst(d)
              /\ Queued(d) = Queued(c)
<1> DEFINE d == Append(c, "close")
<1>1. "close" \in Items BY DEF Items
<1>2. d \in Seq(Items) /\ Len(d) = Len(c) + 1
      /\ (\A i \in 1..Len(c) : d[i] = c[i]) /\ d[Len(c) + 1] = "close"
  BY <1>1, AppendProperties
<1>3. Len(c) \in Nat BY LenProperties
<1>4. Len(d) <= ChanCap BY <1>2, <1>3, Bounds
<1> HIDE DEF d
<1>5. FramesFirst(d)
  <2> SUFFICES ASSUME NEW i \in 1..Len(d), i < Len(d) PROVE d[i] = "frame" BY DEF FramesFirst
  <2>1. i \in 1..Len(c) BY <1>2, <1>3
  <2> QED BY <1>2, <2>1 DEF OnlyFrames
<1>6. d # <<>> BY <1>2, <1>3, EmptySeq
<1>7. d[Len(d)] = "close" BY <1>2
<1>8. Queued(d) = Len(d) - 1 BY <1>6, <1>7 DEF Queued
<1>9. Queued(c) = Len(c) BY QueuedIsNat
<1>10. Len(d) - 1 = Len(c) BY <1>2, <1>3
<1> QED BY <1>2, <1>4, <1>5, <1>8, <1>9, <1>10, Zenon DEF d

\* What the writer finds at the front, and what is behind it.
LEMMA TakeFront ==
    ASSUME NEW c \in Seq(Items), c # <<>>, FramesFirst(c), Len(c) <= ChanCap
    PROVE  /\ Tail(c) \in Seq(Items) /\ Len(Tail(c)) <= ChanCap /\ FramesFirst(Tail(c))
           /\ OnlyFrames(c) => OnlyFrames(Tail(c)) /\ Head(c) = "frame"
           /\ Head(c) \in Items
           /\ Head(c) = "close" => Tail(c) = <<>> /\ Queued(c) = 0
           /\ Head(c) = "frame" => Queued(c) = Queued(Tail(c)) + 1
<1> DEFINE d == Tail(c)
           n == Len(c)
<1>1. n \in Nat /\ n > 0 BY LenProperties, EmptySeq
<1>2. d \in Seq(Items) /\ Len(d) = n - 1 /\ Head(c) = c[1] /\ Head(c) \in Items
      /\ (\A i \in 1..Len(d) : d[i] = c[i + 1])
  BY HeadTailProperties
<1> HIDE DEF d
<1>3. Len(d) \in Nat /\ Len(d) <= ChanCap
  <2> HIDE DEF n
  <2>1. n <= ChanCap BY DEF n
  <2> QED BY <1>1, <1>2, <2>1, Bounds
<1>4. FramesFirst(d)
  <2> SUFFICES ASSUME NEW i \in 1..Len(d), i < Len(d) PROVE d[i] = "frame" BY DEF FramesFirst
  <2>1. i + 1 \in 1..n /\ i + 1 < n
    <3> HIDE DEF n
    <3> QED BY <1>1, <1>2, <1>3
  <2> QED BY <1>2, <2>1 DEF FramesFirst
<1>5. OnlyFrames(c) => OnlyFrames(d) /\ Head(c) = "frame"
  <2> SUFFICES ASSUME OnlyFrames(c) PROVE OnlyFrames(d) /\ c[1] = "frame" BY <1>2
  <2>1. 1 \in 1..n
    <3> HIDE DEF n
    <3> QED BY <1>1
  <2>2. \A i \in 1..Len(d) : i + 1 \in 1..n
    <3> HIDE DEF n
    <3> QED BY <1>1, <1>2
  <2> QED BY <1>2, <2>1, <2>2 DEF OnlyFrames
<1>6. ASSUME Head(c) = "close" PROVE d = <<>> /\ Queued(c) = 0
  <2>1. n = 1
    <3>1. 1 \in 1..n /\ ~(1 < n)
      <4>1. 1 \in 1..n
        <5> HIDE DEF n
        <5> QED BY <1>1
      <4>2. 1 < n => c[1] = "frame" BY <4>1 DEF FramesFirst
      <4> QED BY <1>2, <1>6, <4>1, <4>2
    <3> HIDE DEF n
    <3> QED BY <1>1, <3>1
  <2>2. Len(d) = 0 BY <1>2, <2>1
  <2>3. d = <<>> BY <1>2, <2>2, EmptySeq
  <2>4. Queued(c) = n - 1 BY <1>2, <1>6, <2>1 DEF Queued
  <2> QED BY <2>1, <2>3, <2>4
<1>7. ASSUME Head(c) = "frame" PROVE Queued(c) = Queued(d) + 1
  <2>1. CASE n = 1
    <3>1. Queued(c) = 1 BY <1>2, <1>7, <2>1 DEF Queued
    <3>2. d = <<>>
      <4>1. Len(d) = 0 BY <1>2, <2>1
      <4> QED BY <1>2, <4>1, EmptySeq
    <3>3. Queued(d) = 0 BY <3>2 DEF Queued
    <3> QED BY <3>1, <3>3
  <2>2. CASE n # 1
    <3>1. Len(d) \in 1..Len(d) /\ Len(d) + 1 = n /\ Len(d) > 0
      <4> HIDE DEF n
      <4> QED BY <1>1, <1>2, <1>3, <2>2
    <3>2. d[Len(d)] = c[n] BY <1>2, <3>1
    <3>3. d # <<>> BY <1>2, <3>1, EmptySeq
    <3>4. CASE c[n] = "close"
      <4>1. Queued(c) = n - 1 BY <3>4 DEF Queued
      <4>2. Queued(d) = Len(d) - 1 BY <3>2, <3>3, <3>4 DEF Queued
      <4> HIDE DEF n
      <4> QED BY <1>1, <1>3, <3>1, <4>1, <4>2
    <3>5. CASE c[n] # "close"
      <4>1. Queued(c) = n BY <3>5 DEF Queued
      <4>2. Queued(d) = Len(d) BY <3>2, <3>3, <3>5 DEF Queued
      <4> HIDE DEF n
      <4> QED BY <1>1, <1>3, <3>1, <4>1, <4>2
    <3> QED BY <3>4, <3>5
  <2> QED BY <2>1, <2>2
<1> QED BY <1>2, <1>3, <1>4, <1>5, <1>6, <1>7 DEF d
------------------------------------------------------------------------------
(***************************************************************************)
(* One session: what each kind of step does to the values it holds.        *)
(***************************************************************************)

\* The session goes on without touching channel or counts.
LEMMA SoundMove ==
    ASSUME NEW p \in PCs, NEW w \in Writers, NEW c, NEW acc, NEW snt, NEW fr,
           NEW s, NEW cl, NEW br,
           Sound(s, p, w, c, acc, snt, fr, cl, br),
           NEW q \in PCs, q # "sending", q \in Late \/ p \notin Late, q = "gone" => w = "done"
    PROVE  Sound(s, q, w, c, acc, snt, fr, cl, br)
<1>1. Counted(q, acc, snt, fr) BY DEF Sound, Counted
<1>2. CloseLast(s, q, w, c, cl) BY Zenon DEF Sound, CloseLast
<1>3. Ended(s, q, w, c, acc, snt, cl, br) BY Zenon DEF Sound, Ended
<1> QED BY <1>1, <1>2, <1>3 DEF Sound

\* A frame is taken from the Central System.
LEMMA SoundTaken ==
    ASSUME NEW w \in Writers, NEW c, NEW acc, NEW snt, NEW fr,
           NEW s, NEW cl, NEW br,
           Sound(s, "forwarding", w, c, acc, snt, fr, cl, br), fr < MaxFrames
    PROVE  Sound(s, "sending", w, c, acc, snt, fr + 1, cl, br)
<1>1. Counted("sending", acc, snt, fr + 1) BY Bounds DEF Sound, Counted
<1>2. CloseLast(s, "sending", w, c, cl) BY Zenon DEF Sound, CloseLast, Late
<1>3. Ended(s, "sending", w, c, acc, snt, cl, br) BY Zenon DEF Sound, Ended
<1> QED BY <1>1, <1>2, <1>3 DEF Sound

\* The frame joins the channel.
LEMMA SoundQueued ==
    ASSUME NEW w \in Writers, NEW c, NEW acc, NEW snt, NEW fr,
           NEW s, NEW cl, NEW br,
           Sound(s, "sending", w, c, acc, snt, fr, cl, br), Len(c) < ChanCap
    PROVE  Sound(s, "forwarding", w, Append(c, "frame"), acc + 1, snt, fr, cl, br)
<1> DEFINE d == Append(c, "frame")
<1>1. c \in Seq(Items) /\ w # "close" /\ s \notin cl /\ OnlyFrames(c)
  BY DEF Sound, CloseLast, Late
<1>2. d \in Seq(Items) /\ Len(d) <= ChanCap /\ OnlyFrames(d) /\ FramesFirst(d)
      /\ Queued(d) = Queued(c) + 1
  BY <1>1, AppendFrame
<1>3. Queued(c) \in Nat BY <1>1, QueuedIsNat
<1> HIDE DEF d
<1>4. Counted("forwarding", acc + 1, snt, fr) BY DEF Sound, Counted
<1>5. Balanced(w, d, acc + 1, snt)
  <2>1. acc \in Nat /\ snt \in Nat BY DEF Sound, Counted
  <2>2. (w = "idle" => acc = snt + Queued(c)) /\ (w = "frame" => acc = snt + 1 + Queued(c))
    BY DEF Sound, Balanced
  <2>3. w = "idle" => acc + 1 = snt + Queued(d) BY <1>2, <1>3, <2>1, <2>2
  <2>4. w = "frame" => acc + 1 = snt + 1 + Queued(d) BY <1>2, <1>3, <2>1, <2>2
  <2> QED BY <1>1, <2>3, <2>4, Zenon DEF Balanced
<1>6. CloseLast(s, "forwarding", w, d, cl) BY <1>1, <1>2 DEF CloseLast
<1>7. Ended(s, "forwarding", w, d, acc + 1, snt, cl, br) BY <1>1, Zenon DEF Sound, Ended
<1>8. Sound(s, "forwarding", w, d, acc + 1, snt, fr, cl, br) BY <1>4, <1>5, <1>6, <1>7 DEF Sound
<1> QED BY <1>8 DEF d

\* The close frame joins the channel.
LEMMA SoundClose ==
    ASSUME NEW w \in Writers, NEW c, NEW acc, NEW snt, NEW fr,
           NEW s, NEW cl, NEW br,
           Sound(s, "closing", w, c, acc, snt, fr, cl, br), Len(c) < ChanCap
    PROVE  Sound(s, "flushing", w, Append(c, "close"), acc, snt, fr, cl, br)
<1> DEFINE d == Append(c, "close")
<1>1. c \in Seq(Items) /\ w # "close" /\ s \notin cl /\ OnlyFrames(c)
  BY DEF Sound, CloseLast, Late
<1>2. d \in Seq(Items) /\ Len(d) <= ChanCap /\ FramesFirst(d) /\ Queued(d) = Queued(c)
  BY <1>1, AppendClose
<1> HIDE DEF d
<1>3. Counted("flushing", acc, snt, fr) BY DEF Sound, Counted
<1>4. Balanced(w, d, acc, snt) BY <1>1, <1>2 DEF Sound, Balanced
<1>5. CloseLast(s, "flushing", w, d, cl) BY <1>2 DEF CloseLast, Late
<1>6. Ended(s, "flushing", w, d, acc, snt, cl, br) BY <1>1, Zenon DEF Sound, Ended
<1>7. Sound(s, "flushing", w, d, acc, snt, fr, cl, br) BY <1>3, <1>4, <1>5, <1>6 DEF Sound
<1> QED BY <1>7 DEF d

\* The writer takes what is in front.
LEMMA SoundTakes ==
    ASSUME NEW p \in PCs, NEW c, NEW acc, NEW snt, NEW fr,
           NEW s, NEW cl, NEW br,
           Sound(s, p, "idle", c, acc, snt, fr, cl, br), c # <<>>
    PROVE  Sound(s, p, Head(c), Tail(c), acc, snt, fr, cl, br)
<1> DEFINE h == Head(c)
           d == Tail(c)
<1>1. c \in Seq(Items) /\ FramesFirst(c) /\ Len(c) <= ChanCap
      /\ (p \notin Late => s \notin cl /\ OnlyFrames(c))
  BY DEF Sound, CloseLast
<1>2. /\ d \in Seq(Items) /\ Len(d) <= ChanCap /\ FramesFirst(d)
      /\ OnlyFrames(c) => OnlyFrames(d) /\ h = "frame"
      /\ h \in Items
      /\ h = "close" => d = <<>> /\ Queued(c) = 0
      /\ h = "frame" => Queued(c) = Queued(d) + 1
  BY <1>1, TakeFront
<1>3. Queued(d) \in Nat BY <1>2, QueuedIsNat
<1> HIDE DEF h, d
<1>4. acc \in Nat /\ snt \in Nat /\ acc = snt + Queued(c) BY DEF Sound, Counted, Balanced
<1>5. Balanced(h, d, acc, snt) BY <1>2, <1>3, <1>4 DEF Balanced, Items
<1>6. CloseLast(s, p, h, d, cl) BY <1>1, <1>2 DEF CloseLast
<1>7. s \notin cl /\ p # "gone" BY DEF Sound, Ended
<1>8. Ended(s, p, h, d, acc, snt, cl, br) BY <1>2, <1>7 DEF Ended, Items
<1>9. Sound(s, p, h, d, acc, snt, fr, cl, br) BY <1>5, <1>6, <1>8 DEF Sound
<1> QED BY <1>9 DEF h, d

\* The charger takes a frame.
LEMMA SoundSent ==
    ASSUME NEW p \in PCs, NEW c, NEW acc, NEW snt, NEW fr,
           NEW s, NEW cl, NEW br,
           Sound(s, p, "frame", c, acc, snt, fr, cl, br)
    PROVE  Sound(s, p, "idle", c, acc, snt + 1, fr, cl, br)
<1>1. acc \in Nat /\ snt \in Nat /\ acc = snt + 1 + Queued(c) /\ c \in Seq(Items)
  BY DEF Sound, Counted, Balanced, CloseLast
<1>2. Queued(c) \in Nat BY <1>1, QueuedIsNat
<1>3. Counted(p, acc, snt + 1, fr) BY <1>1, <1>2 DEF Sound, Counted
<1>4. Balanced("idle", c, acc, snt + 1) BY <1>1, <1>2 DEF Balanced
<1>5. CloseLast(s, p, "idle", c, cl) BY DEF Sound, CloseLast
<1>6. Ended(s, p, "idle", c, acc, snt + 1, cl, br) BY DEF Sound, Ended
<1> QED BY <1>3, <1>4, <1>5, <1>6 DEF Sound

\* The writer ends: after the close frame, or because the connection failed.
LEMMA SoundEnding ==
    ASSUME NEW p \in PCs, NEW w \in {"frame", "close"}, NEW c, NEW acc, NEW snt, NEW fr,
           NEW s, NEW cl, NEW br,
           Sound(s, p, w, c, acc, snt, fr, cl, br)
    PROVE  /\ w = "close" => Sound(s, p, "ending", c, acc, snt, fr, cl \cup {s}, br)
           /\ s \in br => Sound(s, p, "ending", c, acc, snt, fr, cl, br)
<1>1. s \notin cl /\ p # "gone" BY DEF Sound, Ended
<1>2. Balanced("ending", c, acc, snt) BY DEF Balanced
<1>3. ASSUME w = "close" PROVE Sound(s, p, "ending", c, acc, snt, fr, cl \cup {s}, br)
  <2>1. acc = snt /\ c = <<>> BY <1>3 DEF Sound, Balanced
  <2>2. p \in Late BY <1>3 DEF Sound, CloseLast
  <2>3. CloseLast(s, p, "ending", c, cl \cup {s}) BY <2>2, Zenon DEF Sound, CloseLast
  <2>4. Ended(s, p, "ending", c, acc, snt, cl \cup {s}, br) BY <1>1, <2>1 DEF Ended
  <2> QED BY <1>2, <2>3, <2>4 DEF Sound
<1>4. ASSUME s \in br PROVE Sound(s, p, "ending", c, acc, snt, fr, cl, br)
  <2>1. CloseLast(s, p, "ending", c, cl) BY DEF Sound, CloseLast
  <2>2. Ended(s, p, "ending", c, acc, snt, cl, br) BY <1>1, <1>4 DEF Ended
  <2> QED BY <1>2, <2>1, <2>2 DEF Sound
<1> QED BY <1>3, <1>4

\* The writer is done.
LEMMA SoundDone ==
    ASSUME NEW p \in PCs, NEW c, NEW acc, NEW snt, NEW fr,
           NEW s, NEW cl, NEW br,
           Sound(s, p, "ending", c, acc, snt, fr, cl, br)
    PROVE  Sound(s, p, "done", c, acc, snt, fr, cl, br)
<1>1. Balanced("done", c, acc, snt) BY DEF Balanced
<1>2. CloseLast(s, p, "done", c, cl) BY DEF Sound, CloseLast
<1>3. Ended(s, p, "done", c, acc, snt, cl, br) BY DEF Sound, Ended
<1> QED BY <1>1, <1>2, <1>3 DEF Sound

\* The connection fails.
LEMMA SoundBroken ==
    ASSUME NEW p \in PCs, NEW w \in Writers, NEW c, NEW acc, NEW snt, NEW fr,
           NEW s, NEW cl, NEW br,
           Sound(s, p, w, c, acc, snt, fr, cl, br)
    PROVE  Sound(s, p, w, c, acc, snt, fr, cl, br \cup {s})
<1>1. Ended(s, p, w, c, acc, snt, cl, br \cup {s}) BY Zenon DEF Sound, Ended
<1> QED BY <1>1 DEF Sound
------------------------------------------------------------------------------
(***************************************************************************)
(* All sessions.                                                           *)
(***************************************************************************)
sessionVars == <<pc, writer, chan, accepted, sent, frames, closed, broken>>

\* A step that leaves the sessions' values alone keeps them sound.
LEMMA Untouched ==
    ASSUME IInv, UNCHANGED sessionVars
    PROVE  \A s \in Sessions : SoundAt(s)'
BY Zenon DEF IInv, SoundAt, sessionVars

\* Does the step change only what the session s holds?
Only(s) ==
    \A t \in Sessions \ {s} :
        /\ pc'[t] = pc[t] /\ writer'[t] = writer[t] /\ chan'[t] = chan[t]
        /\ accepted'[t] = accepted[t] /\ sent'[t] = sent[t] /\ frames'[t] = frames[t]
        /\ (t \in closed' <=> t \in closed) /\ (t \in broken' <=> t \in broken)

\* A step of one session leaves the others sound.
LEMMA OthersSound ==
    ASSUME IInv, NEW s \in Sessions, Only(s), SoundAt(s)'
    PROVE  \A t \in Sessions : SoundAt(t)'
<1> SUFFICES ASSUME NEW t \in Sessions, t # s PROVE SoundAt(t)' BY Zenon
<1>1. SoundAt(t) BY DEF IInv
<1> QED BY <1>1, Zenon DEF Only, SoundAt, Sound, CloseLast, Ended

\* The values of one session.
LEMMA Values ==
    ASSUME IInv, NEW s \in Sessions
    PROVE  /\ pc[s] \in PCs /\ writer[s] \in Writers /\ chan[s] \in Seq(Items)
           /\ accepted[s] \in Nat /\ sent[s] \in Nat /\ frames[s] \in Nat
           /\ Sound(s, pc[s], writer[s], chan[s], accepted[s], sent[s], frames[s], closed, broken)
<1>2. SoundAt(s) BY DEF IInv
<1>3. pc[s] \in PCs /\ writer[s] \in Writers /\ chan[s] \in Seq(Items)
      /\ accepted[s] \in Nat /\ sent[s] \in Nat /\ frames[s] \in Nat
  BY DEF IInv, Shape
<1> QED BY <1>2, <1>3, Zenon DEF SoundAt

\* Steps of main and of the MQTT thread.
LEMMA ProcessStep ==
    ASSUME IInv, MainStep \/ MqttStep \/ Signal \/ ServerStops \/ UNCHANGED vars
    PROVE  IInv'
<1>1. UNCHANGED sessionVars
  BY Zenon DEF MainStep, MqttStep, BindHealth, BindListener, BindListenerFails, Signal,
               StartDraining, DrainPoll, DrainTimeout, JoinMqtt, ServerStops, MqttStarts,
               MqttStartupEnds, MqttStops, vars, charger, history, sessionVars
<1>2. UNCHANGED <<cancelled, reads, heirs, unheard>>
  BY Zenon DEF MainStep, MqttStep, BindHealth, BindListener, BindListenerFails, Signal,
               StartDraining, DrainPoll, DrainTimeout, JoinMqtt, ServerStops, MqttStarts,
               MqttStartupEnds, MqttStops, vars, charger, history
<1>3. /\ main' \in {"health", "listener", "serving", "draining", "joining", "exited", "failed"}
      /\ token' \in BOOLEAN /\ listening' \in BOOLEAN /\ server' \in BOOLEAN
      /\ clean' \in BOOLEAN
      /\ mqtt' \in {"new", "connecting", "running", "stopped", "unavailable"}
  BY DEF IInv, Shape, MainStep, MqttStep, BindHealth, BindListener, BindListenerFails, Signal,
         StartDraining, DrainPoll, DrainTimeout, JoinMqtt, ServerStops, MqttStarts,
         MqttStartupEnds, MqttStops, AfterStartup, vars, process
<1>4. Shape' BY <1>1, <1>2, <1>3, Zenon DEF IInv, Shape, sessionVars
<1> QED BY <1>1, <1>4, Untouched, Zenon DEF IInv

\* Steps in which a session moves on and touches neither channel nor counts.
Moves(s, q) ==
    /\ pc' = [pc EXCEPT ![s] = q]
    /\ UNCHANGED <<process, mqtt, cancelled, chan, writer, charger, frames, accepted, sent, closed>>
    /\ unheard' \subseteq Sessions

\* A session that only goes on to another place keeps the invariant.
LEMMA MovesStep ==
    ASSUME IInv, NEW s \in Sessions, NEW q \in PCs, Moves(s, q),
           q # "sending", q \in Late \/ pc[s] \notin Late, q = "gone" => writer[s] = "done"
    PROVE  IInv'
<1>1. pc \in [Sessions -> PCs] BY DEF IInv, Shape
<1>2. pc' = [pc EXCEPT ![s] = q] BY DEF Moves
<1>3. pc' \in [Sessions -> PCs] /\ pc'[s] = q /\ (\A t \in Sessions \ {s} : pc'[t] = pc[t])
  BY <1>1, <1>2
<1>4. UNCHANGED <<chan, writer, frames, accepted, sent, closed, broken, main, token, listening,
                  server, clean, mqtt, cancelled, reads, heirs>> /\ unheard' \subseteq Sessions
  BY Zenon DEF Moves, process, charger
<1>5. Shape' BY <1>3, <1>4, Zenon DEF IInv, Shape
<1>6. Sound(s, q, writer[s], chan[s], accepted[s], sent[s], frames[s], closed, broken)
  BY Values, SoundMove
<1>7. SoundAt(s)' BY <1>3, <1>4, <1>6, Zenon DEF SoundAt
<1>8. Only(s) BY <1>3, <1>4, Zenon DEF Only
<1> QED BY <1>5, <1>7, <1>8, OthersSound, Zenon DEF IInv

\* The session's own steps that only move it on.
LEMMA SessionMoves ==
    ASSUME IInv, NEW s \in Sessions,
           \/ Register(s) \/ FrameRefused(s) \/ LoopEnds(s) \/ Teardown(s)
           \/ FlushTimeEnds(s) \/ SessionEnds(s)
    PROVE  IInv'
<1>0. unheard \subseteq Sessions /\ (unheard \cup {s}) \subseteq Sessions BY DEF IInv, Shape
<1>1. CASE Register(s)
  <2>1. pc[s] = "none" /\ Moves(s, "forwarding")
    BY <1>0, <1>1, Zenon DEF Register, Moves, history
  <2> QED BY <2>1, MovesStep DEF PCs, Late
<1>2. CASE FrameRefused(s)
  <2>1. pc[s] = "sending" /\ Moves(s, "teardown")
    BY <1>0, <1>2, Zenon DEF FrameRefused, Moves, history
  <2> QED BY <2>1, MovesStep DEF PCs, Late
<1>3. CASE LoopEnds(s)
  <2>1. pc[s] = "forwarding" /\ Moves(s, "teardown")
    BY <1>0, <1>3, Zenon DEF LoopEnds, Moves, history
  <2> QED BY <2>1, MovesStep DEF PCs, Late
<1>4. CASE Teardown(s)
  <2>1. unheard' \subseteq Sessions BY <1>0, <1>4, Zenon DEF Teardown, Emitted
  <2>2. pc[s] = "teardown" /\ Moves(s, "closing")
    BY <1>4, <2>1, Zenon DEF Teardown, Moves
  <2> QED BY <2>2, MovesStep DEF PCs, Late
<1>5. CASE FlushTimeEnds(s)
  <2>1. Moves(s, "joining") BY <1>0, <1>5, Zenon DEF FlushTimeEnds, Moves, history
  <2> QED BY <2>1, MovesStep DEF PCs, Late
<1>6. CASE SessionEnds(s)
  <2>1. unheard' \subseteq Sessions BY <1>0, <1>6, Zenon DEF SessionEnds, Emitted
  <2>2. writer[s] = "done" /\ Moves(s, "gone")
    BY <1>6, <2>1, Zenon DEF SessionEnds, WriterJoined, Moves
  <2> QED BY <2>2, MovesStep DEF PCs, Late
<1> QED BY <1>1, <1>2, <1>3, <1>4, <1>5, <1>6

\* What a step changes at s when it sets the session's functions there.
Sets(s, p, w, c, acc, snt, fr) ==
    /\ pc' = [pc EXCEPT ![s] = p] /\ writer' = [writer EXCEPT ![s] = w]
    /\ chan' = [chan EXCEPT ![s] = c] /\ accepted' = [accepted EXCEPT ![s] = acc]
    /\ sent' = [sent EXCEPT ![s] = snt] /\ frames' = [frames EXCEPT ![s] = fr]

\* A function that is not changed is one that is set to what it was.
LEMMA SetsSame ==
    ASSUME NEW T, NEW f \in [Sessions -> T], NEW s \in Sessions
    PROVE  f = [f EXCEPT ![s] = f[s]]
OBVIOUS

\* A step of one session or of its writer keeps the invariant if it leaves that
\* session sound.
LEMMA SetsStep ==
    ASSUME IInv, NEW s \in Sessions, NEW p \in PCs, NEW w \in Writers, NEW c \in Seq(Items),
           NEW acc \in Nat, NEW snt \in Nat, NEW fr \in Nat, Sets(s, p, w, c, acc, snt, fr),
           Sound(s, p, w, c, acc, snt, fr, closed', broken'),
           closed' = closed \/ closed' = closed \cup {s},
           broken' = broken \/ broken' = broken \cup {s},
           reads' \in [Sessions -> BOOLEAN],
           UNCHANGED <<process, mqtt, cancelled, heirs, unheard>>
    PROVE  IInv'
<1>1. /\ pc \in [Sessions -> PCs] /\ writer \in [Sessions -> Writers]
      /\ chan \in [Sessions -> Seq(Items)] /\ accepted \in [Sessions -> Nat]
      /\ sent \in [Sessions -> Nat] /\ frames \in [Sessions -> Nat]
      /\ closed \subseteq Sessions /\ broken \subseteq Sessions
  BY DEF IInv, Shape
<1>2. pc' \in [Sessions -> PCs] /\ pc'[s] = p /\ (\A t \in Sessions \ {s} : pc'[t] = pc[t])
  BY <1>1 DEF Sets
<1>3. writer' \in [Sessions -> Writers] /\ writer'[s] = w
      /\ (\A t \in Sessions \ {s} : writer'[t] = writer[t])
  BY <1>1 DEF Sets
<1>4. chan' \in [Sessions -> Seq(Items)] /\ chan'[s] = c
      /\ (\A t \in Sessions \ {s} : chan'[t] = chan[t])
  BY <1>1 DEF Sets
<1>5. accepted' \in [Sessions -> Nat] /\ accepted'[s] = acc
      /\ (\A t \in Sessions \ {s} : accepted'[t] = accepted[t])
  BY <1>1 DEF Sets
<1>6. sent' \in [Sessions -> Nat] /\ sent'[s] = snt
      /\ (\A t \in Sessions \ {s} : sent'[t] = sent[t])
  BY <1>1 DEF Sets
<1>7. frames' \in [Sessions -> Nat] /\ frames'[s] = fr
      /\ (\A t \in Sessions \ {s} : frames'[t] = frames[t])
  BY <1>1 DEF Sets
<1>8. closed' \subseteq Sessions /\ broken' \subseteq Sessions BY <1>1
<1>9. Shape'
  BY <1>2, <1>3, <1>4, <1>5, <1>6, <1>7, <1>8, Zenon DEF IInv, Shape, process
<1>10. SoundAt(s)' BY <1>2, <1>3, <1>4, <1>5, <1>6, <1>7, Zenon DEF SoundAt
<1>11. \A t \in Sessions \ {s} : (t \in closed' <=> t \in closed) /\ (t \in broken' <=> t \in broken)
  OBVIOUS
<1>12. Only(s) BY <1>2, <1>3, <1>4, <1>5, <1>6, <1>7, <1>11, Zenon DEF Only
<1> QED BY <1>9, <1>10, <1>12, OthersSound, Zenon DEF IInv

\* Steps that fill the channel.
LEMMA ChannelSteps ==
    ASSUME IInv, NEW s \in Sessions, CentralFrame(s) \/ FrameQueued(s) \/ SendClose(s)
    PROVE  IInv'
<1> DEFINE p == pc[s]
           w == writer[s]
           c == chan[s]
           acc == accepted[s]
           snt == sent[s]
           fr == frames[s]
<1>1. /\ p \in PCs /\ w \in Writers /\ c \in Seq(Items)
      /\ acc \in Nat /\ snt \in Nat /\ fr \in Nat
      /\ Sound(s, p, w, c, acc, snt, fr, closed, broken)
  BY Values
<1>2. /\ pc \in [Sessions -> PCs] /\ writer \in [Sessions -> Writers]
      /\ chan \in [Sessions -> Seq(Items)] /\ accepted \in [Sessions -> Nat]
      /\ sent \in [Sessions -> Nat] /\ frames \in [Sessions -> Nat]
      /\ reads \in [Sessions -> BOOLEAN]
  BY DEF IInv, Shape
<1>3. /\ writer = [writer EXCEPT ![s] = w] /\ chan = [chan EXCEPT ![s] = c]
      /\ accepted = [accepted EXCEPT ![s] = acc] /\ sent = [sent EXCEPT ![s] = snt]
      /\ frames = [frames EXCEPT ![s] = fr]
  BY <1>2, SetsSame
<1>4. CASE CentralFrame(s)
  <2>1. /\ p = "forwarding" /\ fr < MaxFrames
        /\ frames' = [frames EXCEPT ![s] = fr + 1] /\ pc' = [pc EXCEPT ![s] = "sending"]
        /\ UNCHANGED <<chan, writer, accepted, sent, closed, broken, reads>>
        /\ UNCHANGED <<process, mqtt, cancelled, heirs, unheard>>
    BY <1>4, Zenon DEF CentralFrame, charger
  <2> HIDE DEF p, w, c, acc, snt, fr
  <2>2. Sets(s, "sending", w, c, acc, snt, fr + 1) BY <1>3, <2>1, Zenon DEF Sets
  <2>3. Sound(s, "sending", w, c, acc, snt, fr + 1, closed, broken) BY <1>1, <2>1, SoundTaken
  <2>4. "sending" \in PCs /\ fr + 1 \in Nat BY <1>1 DEF PCs
  <2> QED BY <1>1, <1>2, <2>1, <2>2, <2>3, <2>4, SetsStep
<1>5. CASE FrameQueued(s)
  <2> DEFINE d == Append(c, "frame")
  <2>1. /\ p = "sending" /\ Len(c) < ChanCap
        /\ chan' = [chan EXCEPT ![s] = d] /\ accepted' = [accepted EXCEPT ![s] = acc + 1]
        /\ pc' = [pc EXCEPT ![s] = "forwarding"]
        /\ UNCHANGED <<frames, writer, sent, closed, broken, reads>>
        /\ UNCHANGED <<process, mqtt, cancelled, heirs, unheard>>
    BY <1>5, Zenon DEF FrameQueued, Room, charger
  <2>2. d \in Seq(Items) /\ acc + 1 \in Nat
    <3>1. "frame" \in Items BY DEF Items
    <3> QED BY <1>1, <3>1, AppendProperties
  <2> HIDE DEF p, w, c, acc, snt, fr
  <2>3. Sound(s, "forwarding", w, d, acc + 1, snt, fr, closed, broken)
    BY <1>1, <2>1, SoundQueued
  <2> HIDE DEF d
  <2>4. Sets(s, "forwarding", w, d, acc + 1, snt, fr) BY <1>3, <2>1, Zenon DEF Sets
  <2>5. "forwarding" \in PCs BY DEF PCs
  <2> QED BY <1>1, <1>2, <2>1, <2>2, <2>3, <2>4, <2>5, SetsStep
<1>6. CASE SendClose(s)
  <2> DEFINE d == Append(c, "close")
  <2>1. /\ p = "closing"
        /\ pc' = [pc EXCEPT ![s] = "flushing"]
        /\ UNCHANGED <<frames, writer, accepted, sent, closed, broken, reads>>
        /\ UNCHANGED <<process, mqtt, cancelled, heirs, unheard>>
    BY <1>6, Zenon DEF SendClose, charger, history
  <2>2. CASE Room(s)
    <3>1. chan' = [chan EXCEPT ![s] = d] /\ Len(c) < ChanCap
      BY <1>6, <2>2, Zenon DEF SendClose, Room, WithClose
    <3>2. d \in Seq(Items)
      <4>1. "close" \in Items BY DEF Items
      <4> QED BY <1>1, <4>1, AppendProperties
    <3> HIDE DEF p, w, c, acc, snt, fr
    <3>3. Sound(s, "flushing", w, d, acc, snt, fr, closed, broken)
      BY <1>1, <2>1, <3>1, SoundClose
    <3> HIDE DEF d
    <3>4. Sets(s, "flushing", w, d, acc, snt, fr) BY <1>3, <2>1, <3>1, Zenon DEF Sets
    <3>5. "flushing" \in PCs BY DEF PCs
    <3> QED BY <1>1, <1>2, <2>1, <3>2, <3>3, <3>4, <3>5, SetsStep
  <2>3. CASE ~Room(s)
    <3>1. chan' = [chan EXCEPT ![s] = chan[s]] BY <1>6, <2>3, Zenon DEF SendClose
    <3>2. chan' = chan BY <1>3, <3>1, Zenon
    <3>3. unheard \subseteq Sessions BY DEF IInv, Shape
    <3>4. Moves(s, "flushing") BY <2>1, <3>2, <3>3, Zenon DEF Moves, charger
    <3> QED BY <3>4, MovesStep DEF PCs, Late
  <2> QED BY <2>2, <2>3
<1> QED BY <1>4, <1>5, <1>6

\* Steps of the writer and of the charger.
LEMMA WriterSteps ==
    ASSUME IInv, NEW s \in Sessions,
           WriterStep(s) \/ Displaced(s) \/ HeirLeaves(s) \/ ChargerPauses(s) \/
           ConnectionBreaks(s)
    PROVE  IInv'
<1> DEFINE p == pc[s]
           w == writer[s]
           c == chan[s]
           acc == accepted[s]
           snt == sent[s]
           fr == frames[s]
<1>1. /\ p \in PCs /\ w \in Writers /\ c \in Seq(Items)
      /\ acc \in Nat /\ snt \in Nat /\ fr \in Nat
      /\ Sound(s, p, w, c, acc, snt, fr, closed, broken)
  BY Values
<1>2. /\ pc \in [Sessions -> PCs] /\ writer \in [Sessions -> Writers]
      /\ chan \in [Sessions -> Seq(Items)] /\ accepted \in [Sessions -> Nat]
      /\ sent \in [Sessions -> Nat] /\ frames \in [Sessions -> Nat]
      /\ reads \in [Sessions -> BOOLEAN]
  BY DEF IInv, Shape
<1>3. /\ pc = [pc EXCEPT ![s] = p] /\ writer = [writer EXCEPT ![s] = w]
      /\ chan = [chan EXCEPT ![s] = c]
      /\ accepted = [accepted EXCEPT ![s] = acc] /\ sent = [sent EXCEPT ![s] = snt]
      /\ frames = [frames EXCEPT ![s] = fr]
  BY <1>2, SetsSame
<1>4. CASE WriterTakes(s)
  <2> DEFINE h == Head(c)
             d == Tail(c)
  <2>1. /\ w = "idle" /\ c # <<>>
        /\ writer' = [writer EXCEPT ![s] = h] /\ chan' = [chan EXCEPT ![s] = d]
        /\ UNCHANGED <<pc, frames, accepted, sent, closed, broken, reads>>
        /\ UNCHANGED <<process, mqtt, cancelled, heirs, unheard>>
    BY <1>4, Zenon DEF WriterTakes, charger, history
  <2> HIDE DEF p, w, c, acc, snt, fr
  <2>2. d \in Seq(Items) /\ h \in Items BY <1>1, <2>1, HeadTailProperties
  <2>3. Sound(s, p, h, d, acc, snt, fr, closed, broken) BY <1>1, <2>1, SoundTakes
  <2> HIDE DEF h, d
  <2>4. h \in Writers BY <2>2 DEF Items, Writers
  <2>5. Sets(s, p, h, d, acc, snt, fr) BY <1>3, <2>1, Zenon DEF Sets
  <2> QED BY <1>1, <1>2, <2>1, <2>2, <2>3, <2>4, <2>5, SetsStep
<1>5. CASE WriterSends(s)
  <2>1. /\ w \in {"frame", "close"}
        /\ UNCHANGED <<pc, chan, frames, accepted, broken, reads>>
        /\ UNCHANGED <<process, mqtt, cancelled, heirs, unheard>>
    BY <1>5, Zenon DEF WriterSends, charger
  <2>2. \/ /\ w = "frame" /\ writer' = [writer EXCEPT ![s] = "idle"]
           /\ sent' = [sent EXCEPT ![s] = snt + 1] /\ closed' = closed
        \/ /\ w = "close" /\ writer' = [writer EXCEPT ![s] = "ending"]
           /\ sent' = [sent EXCEPT ![s] = snt] /\ closed' = closed \cup {s}
        \/ /\ s \in broken /\ writer' = [writer EXCEPT ![s] = "ending"]
           /\ sent' = sent /\ closed' = closed
    BY <1>5 DEF WriterSends
  <2> HIDE DEF p, w, c, acc, snt, fr
  <2>3. CASE /\ w = "frame" /\ writer' = [writer EXCEPT ![s] = "idle"]
             /\ sent' = [sent EXCEPT ![s] = snt + 1] /\ closed' = closed
    <3>1. Sets(s, p, "idle", c, acc, snt + 1, fr) BY <1>3, <2>1, <2>3, Zenon DEF Sets
    <3>2. Sound(s, p, "idle", c, acc, snt + 1, fr, closed, broken) BY <1>1, <2>3, SoundSent
    <3>3. snt + 1 \in Nat /\ "idle" \in Writers BY <1>1 DEF Writers
    <3> QED BY <1>1, <1>2, <2>1, <2>3, <3>1, <3>2, <3>3, SetsStep
  <2>4. CASE /\ w = "close" /\ writer' = [writer EXCEPT ![s] = "ending"]
             /\ sent' = [sent EXCEPT ![s] = snt] /\ closed' = closed \cup {s}
    <3>1. Sets(s, p, "ending", c, acc, snt, fr) BY <1>3, <2>1, <2>4, Zenon DEF Sets
    <3>2. Sound(s, p, "ending", c, acc, snt, fr, closed \cup {s}, broken)
      BY <1>1, <2>1, <2>4, SoundEnding
    <3>3. "ending" \in Writers BY DEF Writers
    <3> QED BY <1>1, <1>2, <2>1, <2>4, <3>1, <3>2, <3>3, SetsStep
  <2>5. CASE /\ s \in broken /\ writer' = [writer EXCEPT ![s] = "ending"]
             /\ sent' = sent /\ closed' = closed
    <3>1. Sets(s, p, "ending", c, acc, snt, fr) BY <1>3, <2>1, <2>5, Zenon DEF Sets
    <3>2. Sound(s, p, "ending", c, acc, snt, fr, closed, broken)
      BY <1>1, <2>1, <2>5, SoundEnding
    <3>3. "ending" \in Writers BY DEF Writers
    <3> QED BY <1>1, <1>2, <2>1, <2>5, <3>1, <3>2, <3>3, SetsStep
  <2> QED BY <2>2, <2>3, <2>4, <2>5
<1>6. CASE WriterEnds(s)
  <2>1. /\ w = "ending" /\ writer' = [writer EXCEPT ![s] = "done"]
        /\ UNCHANGED <<pc, chan, frames, accepted, sent, closed, broken, reads>>
        /\ UNCHANGED <<process, mqtt, cancelled, heirs, unheard>>
    BY <1>6, Zenon DEF WriterEnds, charger, history
  <2> HIDE DEF p, w, c, acc, snt, fr
  <2>2. Sets(s, p, "done", c, acc, snt, fr) BY <1>3, <2>1, Zenon DEF Sets
  <2>3. Sound(s, p, "done", c, acc, snt, fr, closed, broken) BY <1>1, <2>1, SoundDone
  <2>4. "done" \in Writers BY DEF Writers
  <2> QED BY <1>1, <1>2, <2>1, <2>2, <2>3, <2>4, SetsStep
<1>7. CASE ConnectionBreaks(s)
  <2>1. /\ broken' = broken \cup {s}
        /\ UNCHANGED <<pc, writer, chan, frames, accepted, sent, closed, reads>>
        /\ UNCHANGED <<process, mqtt, cancelled, heirs, unheard>>
    BY <1>7, Zenon DEF ConnectionBreaks, history
  <2> HIDE DEF p, w, c, acc, snt, fr
  <2>2. Sets(s, p, w, c, acc, snt, fr) BY <1>3, <2>1, Zenon DEF Sets
  <2>3. Sound(s, p, w, c, acc, snt, fr, closed, broken \cup {s}) BY <1>1, SoundBroken
  <2> QED BY <1>1, <1>2, <2>1, <2>2, <2>3, SetsStep
<1>8. CASE Displaced(s) \/ HeirLeaves(s) \/ ChargerPauses(s)
  <2>1. UNCHANGED sessionVars
    BY <1>8, Zenon DEF Displaced, HeirLeaves, ChargerPauses, charger, history, sessionVars
  <2>2. /\ cancelled' \subseteq Sessions /\ heirs' \subseteq Sessions
        /\ reads' \in [Sessions -> BOOLEAN]
    BY <1>8, <1>2 DEF IInv, Shape, Displaced, HeirLeaves, ChargerPauses, charger
  <2>3. UNCHANGED <<process, mqtt, unheard>>
    BY <1>8, Zenon DEF Displaced, HeirLeaves, ChargerPauses, history
  <2>4. Shape' BY <2>1, <2>2, <2>3, Zenon DEF IInv, Shape, sessionVars, process
  <2> QED BY <2>1, <2>4, Untouched, Zenon DEF IInv
<1> QED BY <1>4, <1>5, <1>6, <1>7, <1>8 DEF WriterStep

\* The invariant holds at the start.
LEMMA InitInv == Init => IInv
<1> SUFFICES ASSUME Init PROVE IInv OBVIOUS
<1>1. <<>> \in Seq(Items) OBVIOUS
<1>2. Shape BY <1>1 DEF Init, Shape, PCs, Writers
<1>3. ASSUME NEW s \in Sessions PROVE SoundAt(s)
  <2>1. /\ pc[s] = "none" /\ writer[s] = "idle" /\ chan[s] = <<>> /\ accepted[s] = 0
        /\ sent[s] = 0 /\ frames[s] = 0 /\ closed = {} /\ broken = {}
    BY DEF Init
  <2>2. Counted("none", 0, 0, 0) BY Bounds DEF Counted
  <2>3. Balanced("idle", <<>>, 0, 0) BY DEF Balanced, Queued
  <2>4. CloseLast(s, "none", "idle", <<>>, {}) BY <1>1, Bounds DEF CloseLast, FramesFirst, OnlyFrames
  <2>5. Ended(s, "none", "idle", <<>>, 0, 0, {}, {}) BY DEF Ended
  <2> QED BY <2>1, <2>2, <2>3, <2>4, <2>5, Zenon DEF SoundAt, Sound
<1> QED BY <1>2, <1>3 DEF IInv

\* Every step preserves it.
LEMMA StepInv == IInv /\ [Next]_vars => IInv'
<1> SUFFICES ASSUME IInv, [Next]_vars PROVE IInv' OBVIOUS
<1>1. CASE MainStep \/ MqttStep \/ Signal \/ ServerStops \/ UNCHANGED vars
  BY <1>1, ProcessStep
<1>2. CASE Exited
  BY <1>2, ProcessStep DEF Exited
<1>3. ASSUME NEW s \in Sessions,
             \/ Register(s) \/ Displaced(s) \/ HeirLeaves(s) \/ CentralFrame(s)
             \/ SessionStep(s) \/ WriterStep(s)
             \/ ChargerPauses(s) \/ ConnectionBreaks(s)
      PROVE  IInv'
  BY <1>3, SessionMoves, ChannelSteps, WriterSteps DEF SessionStep
<1> QED BY <1>1, <1>2, <1>3, Zenon DEF Next
------------------------------------------------------------------------------
\* The invariant gives the bounds of the type invariant.
LEMMA InvTypes == IInv => TypeOK
<1> SUFFICES ASSUME IInv PROVE TypeOK OBVIOUS
<1>1. \A s \in Sessions : /\ Len(chan[s]) <= ChanCap
                          /\ frames[s] \in 0..MaxFrames /\ accepted[s] \in 0..MaxFrames
                          /\ sent[s] \in 0..MaxFrames
  <2> TAKE s \in Sessions
  <2>1. /\ Counted(pc[s], accepted[s], sent[s], frames[s])
        /\ Len(chan[s]) <= ChanCap
    BY Zenon DEF IInv, SoundAt, Sound, CloseLast
  <2>2. ASSUME NEW p, NEW acc, NEW snt, NEW fr, Counted(p, acc, snt, fr)
        PROVE  acc \in 0..MaxFrames /\ snt \in 0..MaxFrames /\ fr \in 0..MaxFrames
    <3>1. acc <= fr
      <4>1. CASE p = "sending" BY <2>2, <4>1 DEF Counted
      <4>2. CASE p # "sending" BY <2>2, <4>2 DEF Counted
      <4> QED BY <4>1, <4>2
    <3> QED BY <2>2, <3>1, Bounds DEF Counted
  <2> QED BY <2>1, <2>2, Zenon
<1>2. /\ frames \in [Sessions -> 0..MaxFrames] /\ accepted \in [Sessions -> 0..MaxFrames]
      /\ sent \in [Sessions -> 0..MaxFrames]
  BY <1>1 DEF IInv, Shape
<1> QED BY <1>1, <1>2, Zenon DEF IInv, Shape, TypeOK, PCs, Items, Writers

\* Every variable of main, the MQTT thread, the sessions and their writers keeps
\* its type, and the charger channel its capacity.
THEOREM ShutdownTypes == Spec => []TypeOK
BY InitInv, StepInv, InvTypes, PTL DEF Spec

\* The close frame that ends charger_writer cuts off nothing that the session had
\* taken from the Central System and put into the channel, for any number of
\* sessions and any capacity.
THEOREM AlwaysFlushed == Spec => []ClosedIsFlushed
<1>1. IInv => ClosedIsFlushed
  BY Zenon DEF IInv, SoundAt, Sound, Ended, ClosedIsFlushed
<1> QED BY InitInv, StepInv, <1>1, PTL DEF Spec

\* When main logs that all sessions closed cleanly, every session that had
\* registered and was not displaced has returned and its charger got everything
\* and the close frame, or had lost its connection.
THEOREM CleanIsClean == Spec => CleanMeansClosed
<1> DEFINE A == ~clean /\ clean' =>
                   \A s \in Sessions \ cancelled : pc[s] # "none" => ClosedCleanly(s)
<1>1. ASSUME IInv, [Next]_vars PROVE [A]_vars
  <2> SUFFICES ASSUME Next, ~clean, clean', NEW s \in Sessions \ cancelled, pc[s] # "none"
               PROVE  ClosedCleanly(s)
    BY <1>1, Zenon
  <2>1. Registered = {}
    BY Zenon DEF Next, MainStep, MqttStep, SessionStep, WriterStep, BindHealth, BindListener,
         BindListenerFails, Signal, StartDraining, DrainPoll, DrainTimeout, JoinMqtt, ServerStops,
         Exited, MqttStarts, MqttStartupEnds, MqttStops, Register, Displaced, HeirLeaves,
         CentralFrame, FrameQueued, FrameRefused, LoopEnds, Teardown, SendClose, FlushTimeEnds,
         SessionEnds, WriterTakes, WriterSends, WriterEnds, ChargerPauses, ConnectionBreaks,
         vars, process
  <2>2. pc[s] = "gone" BY <2>1 DEF Registered, Running
  <2>3. Ended(s, pc[s], writer[s], chan[s], accepted[s], sent[s], closed, broken)
    BY <1>1, Zenon DEF IInv, SoundAt, Sound
  <2> QED BY <2>2, <2>3 DEF Ended, ClosedCleanly
<1>2. Spec => [][A]_vars BY <1>1, InitInv, StepInv, PTL DEF Spec
<1> QED BY <1>2 DEF CleanMeansClosed
------------------------------------------------------------------------------
(***************************************************************************)
(* The publisher outlives the sessions' last events.                       *)
(***************************************************************************)

\* main drains only once the token is cancelled, so the channel of events can
\* close only then, and nothing else stops a publisher that has come up.
HeardInv ==
    /\ main \in {"draining", "joining", "exited"} => token
    /\ mqtt = "stopped" => token
    /\ HeardUntilShutdown

\* Main's own steps and the signal: the drain begins with the token cancelled.
LEMMA HeardMain ==
    ASSUME HeardInv, MainStep \/ Signal \/ ServerStops \/ Exited \/ UNCHANGED vars
    PROVE  HeardInv'
<1> USE DEF HeardInv, HeardUntilShutdown, process, history
<1>1. CASE BindHealth \/ BindListener \/ BindListenerFails
  BY <1>1 DEF BindHealth, BindListener, BindListenerFails
<1>2. CASE StartDraining \/ DrainPoll \/ DrainTimeout \/ JoinMqtt
  BY <1>2 DEF StartDraining, DrainPoll, DrainTimeout, JoinMqtt
<1>3. CASE Signal \/ ServerStops
  BY <1>3 DEF Signal, ServerStops
<1>4. CASE Exited \/ UNCHANGED vars
  BY <1>4 DEF Exited, vars
<1> QED BY <1>1, <1>2, <1>3, <1>4 DEF MainStep

\* The MQTT thread stops when the token is cancelled or every sender is gone,
\* main's included.
LEMMA HeardMqtt == ASSUME HeardInv, MqttStep PROVE HeardInv'
<1> USE DEF HeardInv, HeardUntilShutdown, process, history
<1>1. CASE MqttStarts \/ MqttStartupEnds
  BY <1>1 DEF MqttStarts, MqttStartupEnds, AfterStartup
<1>2. CASE MqttStops
  BY <1>2 DEF MqttStops, MqttEnds, SendersGone
<1> QED BY <1>1, <1>2 DEF MqttStep

\* A session loses its last events only to a publisher that is not there.
LEMMA HeardSession ==
    ASSUME HeardInv, NEW s \in Sessions,
           \/ Register(s) \/ Displaced(s) \/ HeirLeaves(s) \/ CentralFrame(s)
           \/ SessionStep(s) \/ WriterStep(s)
           \/ ChargerPauses(s) \/ ConnectionBreaks(s)
    PROVE  HeardInv'
<1>1. UNCHANGED <<main, token, mqtt>>
  BY DEF Register, Displaced, HeirLeaves, CentralFrame, SessionStep, WriterStep, ChargerPauses,
     ConnectionBreaks, FrameQueued, FrameRefused, LoopEnds, Teardown, SendClose, FlushTimeEnds,
     SessionEnds, WriterTakes, WriterSends, WriterEnds, process
<1>2. unheard' = unheard \/ mqtt \in {"stopped", "unavailable"}
  BY DEF Register, Displaced, HeirLeaves, CentralFrame, SessionStep, WriterStep, ChargerPauses,
     ConnectionBreaks, FrameQueued, FrameRefused, LoopEnds, Teardown, SendClose, FlushTimeEnds,
     SessionEnds, WriterTakes, WriterSends, WriterEnds, Emitted, history
<1> QED BY <1>1, <1>2 DEF HeardInv, HeardUntilShutdown

\* The last events of a session find the publisher there unless the shutdown has
\* begun or the publisher never came to be, for any number of sessions: neither a
\* broker out of reach at start-up nor the end of every session stops it.
THEOREM HeardToTheEnd == Spec => []HeardUntilShutdown
<1>1. Init => HeardInv
  BY DEF Init, HeardInv, HeardUntilShutdown
<1>2. HeardInv /\ [Next]_vars => HeardInv'
  BY HeardMain, HeardMqtt, HeardSession, Zenon DEF Next
<1>3. HeardInv => HeardUntilShutdown
  BY DEF HeardInv
<1> QED BY <1>1, <1>2, <1>3, PTL DEF Spec
=============================================================================
