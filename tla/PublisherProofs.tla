-------------------------- MODULE PublisherProofs ---------------------------
(***************************************************************************)
(* Proofs about Publisher.tla, for every capacity of buffer and channels   *)
(* and any number of events and outages, in three parts: types, the bound  *)
(* of the buffer and that a backlog never waits while there is room; the   *)
(* promise of AtLeastOnce.tla, which the publisher implements; and that    *)
(* what the broker retains is what the publisher last accepted.            *)
(*                                                                         *)
(* A handler makes one value of the two queues out of another, so the      *)
(* lemmas are about such values: WellFormed ones stay so, draining leaves  *)
(* one NoIdle, and no handler reorders the line of messages.               *)
(***************************************************************************)
EXTENDS Publisher, SequenceTheorems, TLAPS

QueueValues == [buffer : Seq(Messages), chan : Seq(Requests), lost : SUBSET Nat]
Bound == IF MaxBuffer = 0 THEN 1 ELSE MaxBuffer

WellFormed(q) ==
    /\ q \in QueueValues
    /\ Len(q.chan) <= ChanCap
    /\ Len(q.buffer) <= Bound

Full(q) == Len(q.chan) = ChanCap
NoIdle(q) == q.buffer = <<>> \/ Len(q.chan) = ChanCap

\* The network is up only while the publisher runs and knows it.
UpIsKnown == net => state = "Connected" /\ pc = "running"

IInv == TypeOK /\ BufferBounded /\ NoIdleRoom /\ UpIsKnown

\* The capacities are what PublisherAssumption says.
LEMMA Capacities ==
    /\ MaxBuffer \in Nat /\ ChanCap \in Nat /\ ChanCap > 0
    /\ Bound \in Nat /\ Bound > 0 /\ MaxBuffer <= Bound
BY PublisherAssumption DEF PublisherAssumption, Bound

\* What fits lies between nothing and the whole buffer (drain_buffer's loop).
LEMMA FitsBounds ==
    ASSUME NEW q \in QueueValues, Len(q.chan) <= ChanCap
    PROVE  /\ Fits(q) \in Nat /\ Fits(q) <= Len(q.buffer)
           /\ Fits(q) <= ChanCap - Len(q.chan)
           /\ Fits(q) = Len(q.buffer) \/ Fits(q) = ChanCap - Len(q.chan)
<1> DEFINE b == Len(q.buffer)
           c == Len(q.chan)
           f == IF b <= ChanCap - c THEN b ELSE ChanCap - c
<1>1. b \in Nat /\ c \in Nat /\ c <= ChanCap
  BY LenProperties DEF QueueValues
<1>2. Fits(q) = f BY DEF Fits
<1>3. f \in Nat /\ f <= b /\ f <= ChanCap - c /\ (f = b \/ f = ChanCap - c)
  <2> HIDE DEF b, c
  <2> QED BY <1>1, Capacities
<1> QED BY <1>2, <1>3

\* Draining keeps types and capacity, shortens the buffer by what fits and
\* leaves no room beside a backlog.
LEMMA Drains ==
    ASSUME NEW q \in QueueValues, Len(q.chan) <= ChanCap
    PROVE  /\ drain_buffer(q) \in QueueValues
           /\ Len(drain_buffer(q).chan) = Len(q.chan) + Fits(q)
           /\ Len(drain_buffer(q).chan) <= ChanCap
           /\ Len(drain_buffer(q).buffer) = Len(q.buffer) - Fits(q)
           /\ NoIdle(drain_buffer(q))
           /\ drain_buffer(q).lost = q.lost
<1> DEFINE f == Fits(q)
           sent == SubSeq(q.buffer, 1, f)
           left == SubSeq(q.buffer, f + 1, Len(q.buffer))
<1>0. q.buffer \in Seq(Messages) /\ q.chan \in Seq(Requests) /\ q.lost \in SUBSET Nat
  BY DEF QueueValues
<1>1. f \in Nat /\ f <= Len(q.buffer) /\ f <= ChanCap - Len(q.chan)
      /\ (f = Len(q.buffer) \/ f = ChanCap - Len(q.chan))
  BY FitsBounds
<1>2. Len(q.buffer) \in Nat /\ Len(q.chan) \in Nat
  BY <1>0, LenProperties
<1>3. sent \in Seq(Messages) /\ Len(sent) = f
  <2>1. \A i \in 1..f : q.buffer[i] \in Messages BY <1>0, <1>1, <1>2, ElementOfSeq
  <2> QED BY <1>1, <2>1, SubSeqProperties
<1>4. left \in Seq(Messages) /\ Len(left) = Len(q.buffer) - f
  <2>1. \A i \in f + 1..Len(q.buffer) : q.buffer[i] \in Messages
    BY <1>0, <1>1, <1>2, ElementOfSeq
  <2>2. f + 1 \in Int /\ Len(q.buffer) \in Int BY <1>1, <1>2
  <2>3. left \in Seq(Messages)
        /\ Len(left) = IF f + 1 <= Len(q.buffer) THEN Len(q.buffer) - (f + 1) + 1 ELSE 0
    BY <2>1, <2>2, SubSeqProperties
  <2> QED BY <1>1, <1>2, <2>3
<1>5. sent \in Seq(Requests)
  BY <1>3, SeqMonotonic DEF Requests
<1>6. q.chan \o sent \in Seq(Requests) /\ Len(q.chan \o sent) = Len(q.chan) + f
  BY <1>0, <1>3, <1>5, ConcatProperties
<1>7. drain_buffer(q) = [buffer |-> left, chan |-> q.chan \o sent, lost |-> q.lost]
  BY DEF drain_buffer
<1>f. /\ drain_buffer(q).chan = q.chan \o sent
      /\ drain_buffer(q).buffer = left
      /\ drain_buffer(q).lost = q.lost
  <2> HIDE DEF sent, left
  <2> QED BY <1>7
<1>8. drain_buffer(q) \in QueueValues
  BY <1>0, <1>4, <1>6, <1>7 DEF QueueValues
<1>9. NoIdle(drain_buffer(q))
  <2>1. CASE f = Len(q.buffer)
    <3>1. Len(left) = 0 BY <1>2, <1>4, <2>1
    <3>2. left = <<>> BY <1>4, <3>1, EmptySeq
    <3> QED BY <1>7, <3>2 DEF NoIdle
  <2>2. CASE f = ChanCap - Len(q.chan)
    <3>1. Len(q.chan \o sent) = Len(q.chan) + f BY <1>6
    <3>2. Len(q.chan) + f = ChanCap
      <4> HIDE DEF f
      <4> QED BY <1>2, <2>2, Capacities
    <3>3. Len(drain_buffer(q).chan) = ChanCap BY <1>f, <3>1, <3>2, Zenon
    <3> QED BY <3>3 DEF NoIdle
  <2> QED BY <1>1, <2>1, <2>2
<1>10. Len(q.chan) + f <= ChanCap
  <2> HIDE DEF f
  <2> QED BY <1>1, <1>2, Capacities
<1> QED BY <1>4, <1>6, <1>f, <1>8, <1>9, <1>10, Zenon

\* A buffered message keeps the bound: it fits, or the oldest gives way.
LEMMA Buffers ==
    ASSUME NEW q, WellFormed(q), NEW m \in Messages
    PROVE  WellFormed(buffer_message(q, m)) /\ buffer_message(q, m).chan = q.chan
<1> DEFINE b == buffer_message(q, m)
<1>0. q \in QueueValues /\ q.buffer \in Seq(Messages) /\ q.chan \in Seq(Requests)
      /\ q.lost \in SUBSET Nat /\ Len(q.buffer) <= Bound /\ Len(q.chan) <= ChanCap
  BY DEF WellFormed, QueueValues
<1>1. Len(q.buffer) \in Nat BY <1>0, LenProperties
<1>2. CASE Len(q.buffer) >= MaxBuffer /\ q.buffer # <<>>
  <2>1. Tail(q.buffer) \in Seq(Messages) /\ Len(Tail(q.buffer)) = Len(q.buffer) - 1
        /\ Head(q.buffer) \in Messages
    BY <1>0, <1>2, HeadTailProperties
  <2>2. Append(Tail(q.buffer), m) \in Seq(Messages)
        /\ Len(Append(Tail(q.buffer), m)) = Len(q.buffer)
    BY <1>1, <2>1, AppendProperties
  <2>3. Head(q.buffer).n \in Nat BY <2>1 DEF Messages
  <2>4. b = [buffer |-> Append(Tail(q.buffer), m), chan |-> q.chan,
             lost |-> q.lost \cup ({Head(q.buffer).n} \ {0})]
    BY <1>0, <1>2 DEF buffer_message, QueueValues
  <2>5. b \in QueueValues BY <1>0, <2>2, <2>3, <2>4 DEF QueueValues
  <2> QED BY <1>0, <2>2, <2>4, <2>5 DEF WellFormed
<1>3. CASE ~(Len(q.buffer) >= MaxBuffer /\ q.buffer # <<>>)
  <2>1. Append(q.buffer, m) \in Seq(Messages) /\ Len(Append(q.buffer, m)) = Len(q.buffer) + 1
    BY <1>0, AppendProperties
  <2>2. b = [buffer |-> Append(q.buffer, m), chan |-> q.chan, lost |-> q.lost]
    BY <1>0, <1>3 DEF buffer_message, QueueValues
  <2>3. b \in QueueValues BY <1>0, <2>1, <2>2 DEF QueueValues
  <2>4. Len(q.buffer) + 1 <= Bound
    <3>1. CASE q.buffer = <<>>
      BY <3>1, Capacities
    <3>2. CASE q.buffer # <<>>
      BY <1>1, <1>3, <3>2, Capacities
    <3> QED BY <3>1, <3>2
  <2> QED BY <1>0, <2>1, <2>2, <2>3, <2>4 DEF WellFormed
<1> QED BY <1>2, <1>3

\* Draining a well-formed value leaves a well-formed one.
LEMMA DrainsWell ==
    ASSUME NEW q, WellFormed(q)
    PROVE  /\ WellFormed(drain_buffer(q)) /\ NoIdle(drain_buffer(q))
           /\ Full(q) => Full(drain_buffer(q))
<1>1. q \in QueueValues /\ Len(q.chan) <= ChanCap /\ Len(q.buffer) <= Bound
  BY DEF WellFormed
<1>2. Len(q.buffer) \in Nat BY <1>1, LenProperties DEF QueueValues
<1>3. Len(drain_buffer(q).buffer) <= Bound
  <2>1. Fits(q) \in Nat /\ Fits(q) <= Len(q.buffer) BY <1>1, FitsBounds
  <2>2. Len(drain_buffer(q).buffer) = Len(q.buffer) - Fits(q) BY <1>1, Drains
  <2>3. Len(q.buffer) - Fits(q) <= Bound BY <1>1, <1>2, <2>1, Capacities
  <2> QED BY <2>2, <2>3, Zenon
<1>4. Full(q) => Full(drain_buffer(q))
  <2> SUFFICES ASSUME Len(q.chan) = ChanCap PROVE Len(drain_buffer(q).chan) = ChanCap
    BY DEF Full
  <2>1. Fits(q) \in Nat /\ Fits(q) <= ChanCap - Len(q.chan) BY <1>1, FitsBounds
  <2>2. Len(drain_buffer(q).chan) = Len(q.chan) + Fits(q) BY <1>1, Drains
  <2> QED BY <2>1, <2>2, Capacities
<1> QED BY <1>1, <1>3, <1>4, Drains DEF WellFormed

\* enqueue: well formed, and drained while connected.
LEMMA Enqueues ==
    ASSUME NEW q, WellFormed(q), NEW m \in Messages, NEW up \in BOOLEAN
    PROVE  /\ WellFormed(enqueue(q, m, up))
           /\ up => NoIdle(enqueue(q, m, up))
           /\ ~up => enqueue(q, m, up).chan = q.chan
           /\ Full(q) => Full(enqueue(q, m, up))
<1>0. Full(q) => Full(buffer_message(q, m)) BY Buffers, Zenon DEF Full
<1>1. CASE up
  BY <1>0, <1>1, Buffers, DrainsWell DEF enqueue
<1>2. CASE ~up
  BY <1>0, <1>2, Buffers DEF enqueue
<1> QED BY <1>1, <1>2

\* publish_online into an empty channel leaves the buffer no longer than it was.
LEMMA Announces ==
    ASSUME NEW q, WellFormed(q), q.chan = <<>>
    PROVE  WellFormed(publish_online(q))
<1> DEFINE on == Msg("online", 1, 0)
           r == [q EXCEPT !.buffer = <<on>> \o @]
<1>0. q \in QueueValues /\ q.buffer \in Seq(Messages) /\ q.chan \in Seq(Requests)
      /\ q.lost \in SUBSET Nat /\ Len(q.buffer) <= Bound /\ Len(q.buffer) \in Nat
  BY LenProperties DEF WellFormed, QueueValues
<1>1. on \in Messages BY DEF Msg, Messages, Topics
<1>2. <<on>> \in Seq(Messages) /\ Len(<<on>>) = 1
  <2> HIDE DEF on
  <2> QED BY <1>1
<1>3. <<on>> \o q.buffer \in Seq(Messages) /\ Len(<<on>> \o q.buffer) = Len(q.buffer) + 1
  <2> HIDE DEF on
  <2> QED BY <1>0, <1>2, ConcatProperties
<1>4. r = [buffer |-> <<on>> \o q.buffer, chan |-> q.chan, lost |-> q.lost]
  <2> DEFINE x == <<on>> \o q.buffer
  <2>1. r = [q EXCEPT !.buffer = x] OBVIOUS
  <2> HIDE DEF x, r
  <2>2. r = [buffer |-> x, chan |-> q.chan, lost |-> q.lost] BY <1>0, <2>1 DEF QueueValues
  <2> QED BY <2>2 DEF x
<1>5. r \in QueueValues /\ r.chan = <<>> /\ r.buffer = <<on>> \o q.buffer
  <2> HIDE DEF on
  <2> QED BY <1>0, <1>3, <1>4 DEF QueueValues
<1>6. Len(r.chan) = 0 /\ Len(r.buffer) = Len(q.buffer) + 1
  <2> HIDE DEF on, r
  <2> QED BY <1>3, <1>5, EmptySeq
<1>7. Fits(r) \in Nat /\ Fits(r) >= 1
  <2>1. Len(r.chan) <= ChanCap BY <1>6, Capacities
  <2> HIDE DEF r
  <2>2. Fits(r) \in Nat /\ (Fits(r) = Len(r.buffer) \/ Fits(r) = ChanCap - Len(r.chan))
    BY <1>5, <2>1, FitsBounds
  <2> QED BY <1>0, <1>6, <2>2, Capacities
<1>8. WellFormed(drain_buffer(r))
  <2> HIDE DEF r
  <2>1. Len(r.chan) <= ChanCap BY <1>6, Capacities
  <2>2. drain_buffer(r) \in QueueValues /\ Len(drain_buffer(r).chan) <= ChanCap
        /\ Len(drain_buffer(r).buffer) = Len(r.buffer) - Fits(r)
    BY <1>5, <2>1, Drains
  <2>3. Len(r.buffer) - Fits(r) <= Bound BY <1>0, <1>6, <1>7, Capacities
  <2>4. Len(drain_buffer(r).buffer) <= Bound BY <2>2, <2>3, Zenon
  <2> QED BY <2>2, <2>4 DEF WellFormed
<1>9. publish_online(q) = IF HasWill THEN drain_buffer(r) ELSE q
  BY DEF publish_online
<1> QED BY <1>8, <1>9

\* A subscription takes the room there is and no more.
LEMMA SubscriptionFits ==
    ASSUME NEW q, WellFormed(q), NEW due \in BOOLEAN
    PROVE  /\ WellFormed(Subscribes(q, due))
           /\ NoIdle(q) => NoIdle(Subscribes(q, due))
           /\ StillDue(q, due) \in BOOLEAN
           /\ StillDue(q, due) => Subscribes(q, due) = q /\ Len(q.chan) = ChanCap
<1>0. q \in QueueValues /\ q.buffer \in Seq(Messages) /\ q.chan \in Seq(Requests)
      /\ q.lost \in SUBSET Nat /\ Len(q.buffer) <= Bound /\ Len(q.chan) \in Nat
      /\ Len(q.chan) <= ChanCap
  BY LenProperties DEF WellFormed, QueueValues
<1>1. CASE due /\ Len(q.chan) < ChanCap
  <2> DEFINE c == Append(q.chan, Subscribe)
  <2>1. Subscribe \in Requests BY DEF Requests
  <2>2. c \in Seq(Requests) /\ Len(c) = Len(q.chan) + 1
    BY <1>0, <2>1, AppendProperties
  <2>3. Subscribes(q, due) = [buffer |-> q.buffer, chan |-> c, lost |-> q.lost]
    BY <1>0, <1>1 DEF Subscribes, QueueValues
  <2> HIDE DEF c
  <2>4. Subscribes(q, due) \in QueueValues /\ Subscribes(q, due).chan = c
        /\ Subscribes(q, due).buffer = q.buffer
    BY <1>0, <2>2, <2>3 DEF QueueValues
  <2>5. Len(c) <= ChanCap BY <1>0, <1>1, <2>2, Capacities
  <2>6. Len(Subscribes(q, due).chan) <= ChanCap BY <2>4, <2>5, Zenon
  <2>7. WellFormed(Subscribes(q, due)) BY <1>0, <2>4, <2>6 DEF WellFormed
  <2>8. ~StillDue(q, due) BY <1>0, <1>1, Capacities DEF StillDue
  <2>9. NoIdle(q) => NoIdle(Subscribes(q, due))
    <3>1. Len(q.chan) # ChanCap BY <1>0, <1>1, Capacities
    <3> QED BY <2>4, <3>1 DEF NoIdle
  <2>10. StillDue(q, due) \in BOOLEAN BY DEF StillDue
  <2> QED BY <2>7, <2>8, <2>9, <2>10
<1>2. CASE ~(due /\ Len(q.chan) < ChanCap)
  <2>1. Subscribes(q, due) = q BY <1>2 DEF Subscribes
  <2>2. StillDue(q, due) => Len(q.chan) = ChanCap BY <1>0, Capacities DEF StillDue
  <2>3. StillDue(q, due) \in BOOLEAN BY DEF StillDue
  <2>4. WellFormed(Subscribes(q, due)) /\ (NoIdle(q) => NoIdle(Subscribes(q, due)))
    BY <2>1
  <2> QED BY <2>1, <2>2, <2>3, <2>4
<1> QED BY <1>1, <1>2
------------------------------------------------------------------------------
(***************************************************************************)
(* From queue values to states.                                            *)
(***************************************************************************)

\* The two queues and the losses in a state that satisfies the invariant.
LEMMA QueuesWell ==
    ASSUME IInv
    PROVE  WellFormed(Queues) /\ (net => NoIdle(Queues)) /\ Queues.chan = chan
           /\ Queues.buffer = buffer /\ Queues.lost = lost
<1>1. Queues = [buffer |-> buffer, chan |-> chan, lost |-> lost] BY DEF Queues
<1>2. buffer \in Seq(Messages) /\ chan \in Seq(Requests) /\ lost \in SUBSET Nat
  BY DEF IInv, TypeOK
<1>3. Len(chan) <= ChanCap /\ Len(buffer) <= Bound BY DEF IInv, BufferBounded, Bound
<1>4. Queues.chan = chan /\ Queues.buffer = buffer /\ Queues.lost = lost BY <1>1
<1>5. Queues \in QueueValues BY <1>1, <1>2 DEF QueueValues
<1>6. Len(Queues.chan) <= ChanCap /\ Len(Queues.buffer) <= Bound BY <1>3, <1>4, Zenon
<1>7. WellFormed(Queues) BY <1>5, <1>6 DEF WellFormed
<1>8. net => (buffer = <<>> \/ Len(chan) = ChanCap) BY DEF IInv, NoIdleRoom
<1>9. net => NoIdle(Queues)
  <2> SUFFICES ASSUME net PROVE NoIdle(Queues) OBVIOUS
  <2>1. CASE buffer = <<>> BY <1>4, <2>1 DEF NoIdle
  <2>2. CASE Len(chan) = ChanCap BY <1>4, <2>2, Zenon DEF NoIdle
  <2> QED BY <1>8, <2>1, <2>2
<1> QED BY <1>4, <1>7, <1>9

\* What a step that sets the queues to a well-formed value establishes.
LEMMA SetsWell ==
    ASSUME NEW q, WellFormed(q), SetQueues(q)
    PROVE  /\ buffer' \in Seq(Messages) /\ chan' \in Seq(Requests) /\ lost' \subseteq Nat
           /\ Len(chan') <= ChanCap /\ Len(buffer') <= Bound
           /\ NoIdle(q) => buffer' = <<>> \/ Len(chan') = ChanCap
<1>1. buffer' = q.buffer /\ chan' = q.chan /\ lost' = q.lost BY DEF SetQueues
<1>2. q.buffer \in Seq(Messages) /\ q.chan \in Seq(Requests) /\ q.lost \in SUBSET Nat
  BY DEF WellFormed, QueueValues
<1>3. Len(q.chan) <= ChanCap /\ Len(q.buffer) <= Bound BY DEF WellFormed
<1>4. Len(chan') <= ChanCap /\ Len(buffer') <= Bound BY <1>1, <1>3, Zenon
<1>5. NoIdle(q) => buffer' = <<>> \/ Len(chan') = ChanCap BY <1>1, Zenon DEF NoIdle
<1>6. buffer' \in Seq(Messages) /\ chan' \in Seq(Requests) BY <1>1, <1>2, Zenon
<1>7. lost' \subseteq Nat BY <1>1, <1>2
<1> QED BY <1>4, <1>5, <1>6, <1>7

\* What follows a message, or a link status.
Continuations == {<<>>, <<"state">>, <<"message">>, <<"message", "state">>}

\* What a handler that publishes leaves behind: well-formed queues, drained
\* while connected, and counters.
Published(up) ==
    /\ buffer' \in Seq(Messages) /\ chan' \in Seq(Requests) /\ lost' \subseteq Nat
    /\ Len(chan') <= ChanCap /\ Len(buffer') <= Bound
    /\ up => buffer' = <<>> \/ Len(chan') = ChanCap
    /\ ~up => chan' = chan
    /\ Len(chan) = ChanCap => Len(chan') = ChanCap
    /\ known' \in BOOLEAN /\ snapshot' \in Nat /\ accepted' \in Nat
    /\ last' \in [Tracked -> [n : Nat, v : Nat]]

\* A handler publishes one to three messages.
LEMMA PublishesWell ==
    ASSUME IInv, NEW topic \in {"message", "status"}, NEW v \in Nat,
           NEW more \in Continuations, NEW up \in BOOLEAN, Publishes(topic, v, more, up)
    PROVE  Published(up)
<1> DEFINE More(i) == Msg(more[i], IF more[i] = "state" THEN snapshot + 1 ELSE 0, accepted + 1 + i)
           m1 == Msg(topic, v, accepted + 1)
           q1 == enqueue(Queues, m1, up)
           q2 == enqueue(q1, More(1), up)
           q3 == enqueue(q2, More(2), up)
           folds == \E i \in 1..Len(more) : more[i] = "state"
           Fine(q) == WellFormed(q) /\ (up => NoIdle(q)) /\ (~up => q.chan = chan)
                      /\ (Full(Queues) => Full(q))
<1>0. accepted \in Nat /\ snapshot \in Nat /\ known \in BOOLEAN
      /\ last \in [Tracked -> [n : Nat, v : Nat]]
  BY DEF IInv, TypeOK
<1>1. /\ known' = (known \/ topic = "message")
      /\ snapshot' = IF folds THEN snapshot + 1 ELSE snapshot
      /\ accepted' = accepted + 1 + Len(more)
      /\ last' = [t \in Tracked |->
                     IF t = topic THEN [n |-> accepted + 1, v |-> v]
                     ELSE IF t = "state" /\ folds THEN [n |-> accepted', v |-> snapshot']
                     ELSE last[t]]
      /\ SetQueues(CASE Len(more) = 0 -> q1 [] Len(more) = 1 -> q2 [] OTHER -> q3)
  BY Zenon DEF Publishes
<1>2. Len(more) \in Nat /\ (Len(more) = 0 \/ Len(more) = 1 \/ Len(more) = 2)
  BY DEF Continuations
<1>3. m1 \in Messages BY <1>0 DEF Msg, Messages, Topics
<1>4. Fine(q1)
  <2> HIDE DEF m1
  <2> QED BY <1>3, QueuesWell, Enqueues
<1>5. ASSUME Len(more) = 1 \/ Len(more) = 2 PROVE Fine(q2)
  <2>1. more[1] \in {"message", "state"} BY <1>5 DEF Continuations
  <2>2. More(1) \in Messages
    <3>1. \E v1 \in {0, snapshot + 1} :
             More(1) = [topic |-> more[1], v |-> v1, n |-> accepted + 1 + 1]
      BY DEF Msg
    <3>2. snapshot + 1 \in Nat /\ accepted + 1 + 1 \in Nat BY <1>0
    <3> HIDE DEF More
    <3> QED BY <2>1, <3>1, <3>2 DEF Messages, Topics
  <2> HIDE DEF More, q1
  <2> QED BY <1>4, <2>2, Enqueues
<1>6. ASSUME Len(more) = 2 PROVE Fine(q3)
  <2>1. more[2] = "state"
    <3>1. more = <<>> \/ more = <<"state">> \/ more = <<"message">> \/ more = <<"message", "state">>
      BY Zenon DEF Continuations
    <3>2. Len(<<>>) # 2 /\ Len(<<"state">>) # 2 /\ Len(<<"message">>) # 2 OBVIOUS
    <3>3. more = <<"message", "state">> BY <1>6, <3>1, <3>2, Zenon
    <3> QED BY <3>3
  <2>2. More(2) \in Messages
    <3>1. More(2) = [topic |-> "state", v |-> snapshot + 1, n |-> accepted + 1 + 2]
      BY <2>1, Zenon DEF Msg
    <3>2. snapshot + 1 \in Nat /\ accepted + 1 + 2 \in Nat BY <1>0
    <3> HIDE DEF More
    <3> QED BY <3>1, <3>2 DEF Messages, Topics
  <2>3. Fine(q2) BY <1>5, <1>6
  <2> HIDE DEF More, q2
  <2> QED BY <2>2, <2>3, Enqueues
<1>7. \E q : Fine(q) /\ SetQueues(q)
  <2>1. CASE Len(more) = 0
    <3>1. SetQueues(q1) BY <1>1, <2>1
    <3> QED BY <1>4, <3>1
  <2>2. CASE Len(more) = 1
    <3>1. SetQueues(q2) BY <1>1, <2>2
    <3> QED BY <1>5, <2>2, <3>1
  <2>3. CASE Len(more) = 2
    <3>1. SetQueues(q3) BY <1>1, <2>3
    <3> QED BY <1>6, <2>3, <3>1
  <2> QED BY <1>2, <2>1, <2>2, <2>3
<1>8. known' \in BOOLEAN BY <1>0, <1>1, Zenon
<1>9. snapshot' \in Nat /\ accepted' \in Nat
  <2> HIDE DEF folds
  <2> QED BY <1>0, <1>1, <1>2
<1>10. last' \in [Tracked -> [n : Nat, v : Nat]]
  <2> DEFINE a == [n |-> accepted + 1, v |-> v]
             b == [n |-> accepted', v |-> snapshot']
             R == [n : Nat, v : Nat]
  <2>1. a \in R /\ b \in R BY <1>0, <1>9
  <2>2. last' = [t \in Tracked |-> IF t = topic THEN a
                                   ELSE IF t = "state" /\ folds THEN b ELSE last[t]]
    BY <1>1, Zenon
  <2>3. last \in [Tracked -> R] BY <1>0
  <2>4. last' \in [Tracked -> R]
    <3> HIDE DEF folds, a, b, R
    <3> QED BY <2>1, <2>2, <2>3
  <2> QED BY <2>4
<1>11. PICK q : Fine(q) /\ SetQueues(q) BY <1>7
<1>12. Len(chan) = ChanCap => Len(chan') = ChanCap
  BY <1>11, QueuesWell, Zenon DEF Full, SetQueues
<1>13. ~up => chan' = chan BY <1>11, Zenon DEF SetQueues
<1> QED BY <1>8, <1>9, <1>10, <1>11, <1>12, <1>13, SetsWell DEF Published

\* What Tick establishes: nothing idle, and a subscription still due only while
\* the channel is full.
LEMMA TicksWell ==
    ASSUME NEW q, WellFormed(q), toSubscribe \in BOOLEAN, Tick(q)
    PROVE  /\ buffer' \in Seq(Messages) /\ chan' \in Seq(Requests) /\ lost' \subseteq Nat
           /\ Len(chan') <= ChanCap /\ Len(buffer') <= Bound
           /\ buffer' = <<>> \/ Len(chan') = ChanCap
           /\ toSubscribe' \in BOOLEAN
           /\ toSubscribe' => Len(chan') = ChanCap
<1> DEFINE s == Subscribes(q, toSubscribe)
           d == drain_buffer(s)
<1>1. WellFormed(s) /\ StillDue(q, toSubscribe) \in BOOLEAN
      /\ (StillDue(q, toSubscribe) => s = q /\ Len(q.chan) = ChanCap)
  BY SubscriptionFits
<1>2. SetQueues(d) /\ toSubscribe' = StillDue(q, toSubscribe) BY DEF Tick
<1>3. WellFormed(d) /\ NoIdle(d)
  <2> HIDE DEF s
  <2> QED BY <1>1, DrainsWell
<1>4. toSubscribe' => Len(chan') = ChanCap
  <2> SUFFICES ASSUME toSubscribe' PROVE Len(chan') = ChanCap OBVIOUS
  <2>1. s = q /\ Len(q.chan) = ChanCap BY <1>1, <1>2
  <2>2. q \in QueueValues BY DEF WellFormed
  <2>3. Len(q.chan) <= ChanCap BY <2>1, Capacities
  <2>4. Fits(q) \in Nat /\ Fits(q) <= ChanCap - Len(q.chan) BY <2>2, <2>3, FitsBounds
  <2>5. Len(drain_buffer(q).chan) = Len(q.chan) + Fits(q) BY <2>2, <2>3, Drains
  <2>6. Len(drain_buffer(q).chan) = ChanCap BY <2>1, <2>4, <2>5, Capacities
  <2>7. chan' = drain_buffer(q).chan BY <1>2, <2>1 DEF SetQueues
  <2> QED BY <2>6, <2>7, Zenon
<1> HIDE DEF d
<1> QED BY <1>1, <1>2, <1>3, <1>4, SetsWell

\* The parts of TypeOK beside the queues.
Control ==
    /\ pc \in {"startup", "running", "sleeping", "stopped"}
    /\ state \in {"Connecting", "Connected", "Reconnecting", "Disconnected"}
    /\ toSubscribe \in BOOLEAN /\ known \in BOOLEAN /\ snapshot \in Nat /\ backoff \in Nat
    /\ events \in Seq([topic : {"message", "status"}, v : Nat])
Client ==
    /\ inflight \in Seq(Messages) /\ pending \in Seq(Requests) /\ got \in 0..Len(inflight)
Outside ==
    /\ net \in BOOLEAN /\ retained \in [Retained -> Nat] /\ subscribed \in BOOLEAN
    /\ offered \in 0..MaxOffered /\ breaks \in 0..MaxBreaks /\ wiped \in BOOLEAN
History ==
    /\ accepted \in Nat /\ last \in [Tracked -> [n : Nat, v : Nat]] /\ received \subseteq Nat
QueuesOK ==
    /\ buffer \in Seq(Messages) /\ chan \in Seq(Requests) /\ lost \subseteq Nat
    /\ Len(chan) <= ChanCap /\ Len(buffer) <= Bound

\* The invariant, put together from its parts.
LEMMA Assembled ==
    /\ IInv => Control /\ Client /\ Outside /\ History /\ QueuesOK
    /\ Control /\ Client /\ Outside /\ History /\ QueuesOK
       /\ (~net => chan = <<>> /\ state # "Connected") /\ NoIdleRoom /\ UpIsKnown => IInv
<1>1. IInv => Control BY DEF IInv, TypeOK, Control
<1>2. IInv => Client BY DEF IInv, TypeOK, Client
<1>3. IInv => Outside BY DEF IInv, TypeOK, Outside
<1>4. IInv => History BY DEF IInv, TypeOK, History
<1>5. IInv => QueuesOK BY DEF IInv, TypeOK, BufferBounded, QueuesOK, Bound
<1>6. Control /\ Client /\ Outside /\ History /\ QueuesOK => TypeOK
  BY Zenon DEF TypeOK, Control, Client, Outside, History, QueuesOK
<1>7. QueuesOK /\ (~net => chan = <<>> /\ state # "Connected") => BufferBounded
  BY Zenon DEF QueuesOK, BufferBounded, Bound
<1> QED BY <1>1, <1>2, <1>3, <1>4, <1>5, <1>6, <1>7 DEF IInv

\* The numbers of requests are numbers.
LEMMA NumbersAreNat == ASSUME NEW s \in Seq(Requests) PROVE Numbers(s) \subseteq Nat
<1>1. \A r \in Requests : r.n \in Nat BY DEF Requests, Messages, Subscribe, Msg
<1>2. \A i \in 1..Len(s) : s[i] \in Requests BY ElementOfSeq
<1> QED BY <1>1, <1>2 DEF Numbers

\* Buffered messages fit into the channel.
LEMMA MessagesAreRequests == ASSUME NEW s \in Seq(Messages) PROVE s \in Seq(Requests)
BY SeqMonotonic DEF Requests

\* A delay stays a delay.
LEMMA DelayIsNat == ASSUME NEW d \in Nat PROVE next_delay(d) \in Nat
BY PublisherAssumption DEF PublisherAssumption, next_delay

\* The invariant holds when the publisher is made.
LEMMA InitInv == Init => IInv
<1> SUFFICES ASSUME Init PROVE IInv OBVIOUS
<1>1. buffer = <<>> /\ chan = <<>> /\ events = <<>> /\ inflight = <<>> /\ pending = <<>>
  BY DEF Init
<1>2. Control
  <2>1. events \in Seq([topic : {"message", "status"}, v : Nat]) BY <1>1
  <2>2. known \in BOOLEAN BY Zenon DEF Init
  <2>3. snapshot \in Nat /\ backoff \in Nat
    BY PublisherAssumption DEF PublisherAssumption, Init
  <2>4. pc = "startup" /\ state = "Connecting" /\ toSubscribe = FALSE BY DEF Init
  <2> QED BY <2>1, <2>2, <2>3, <2>4 DEF Control
<1>3. Client BY <1>1, EmptySeq DEF Init, Client
<1>4. Outside
  <2>1. net \in BOOLEAN /\ subscribed \in BOOLEAN /\ wiped \in BOOLEAN BY Zenon DEF Init
  <2>2. retained = [t \in Retained |-> 0] BY DEF Init
  <2>3. retained \in [Retained -> Nat] BY <2>2
  <2>4. offered \in 0..MaxOffered /\ breaks \in 0..MaxBreaks
    BY PublisherAssumption DEF PublisherAssumption, Init
  <2> QED BY <2>1, <2>3, <2>4 DEF Outside
<1>5. History BY DEF Init, History
<1>6. QueuesOK
  <2>1. Len(chan) = 0 /\ Len(buffer) = 0 BY <1>1
  <2> QED BY <1>1, <2>1, Capacities DEF Init, QueuesOK
<1>7. ~net /\ state # "Connected" BY DEF Init
<1>8. NoIdleRoom /\ UpIsKnown BY <1>7 DEF NoIdleRoom, UpIsKnown
<1> QED BY <1>1, <1>2, <1>3, <1>4, <1>5, <1>6, <1>7, <1>8, Assembled

\* Every step preserves the invariant.
LEMMA StepInv == IInv /\ [Next]_vars => IInv'
<1> SUFFICES ASSUME IInv, [Next]_vars PROVE IInv' OBVIOUS
<1>a. Control /\ Client /\ Outside /\ History /\ QueuesOK BY Assembled
<1>b. NoIdleRoom /\ UpIsKnown /\ (~net => chan = <<>> /\ state # "Connected")
  BY DEF IInv, BufferBounded
<1>c. SUFFICES Control' /\ Client' /\ Outside' /\ History' /\ QueuesOK'
               /\ (~net => chan = <<>> /\ state # "Connected")' /\ NoIdleRoom' /\ UpIsKnown'
  BY Assembled, PTL
<1>1. CASE ConnAck
  <2> DEFINE q0 == publish_online(Queues)
             q1 == drain_buffer(q0)
             m == Msg("state", snapshot, accepted + 1)
             q2 == IF HasSnapshot THEN enqueue(q1, m, TRUE) ELSE q1
             q3 == Subscribes(q2, DueOnConnect)
  <2>1. /\ state' = "Connected" /\ backoff' = InitialDelay /\ pc' = "running" /\ net' = TRUE
        /\ SetQueues(q3) /\ toSubscribe' = StillDue(q2, DueOnConnect)
        /\ accepted' = (IF HasSnapshot THEN accepted + 1 ELSE accepted)
        /\ last' = IF HasSnapshot THEN [last EXCEPT !["state"] = [n |-> accepted + 1, v |-> snapshot]]
                                  ELSE last
        /\ UNCHANGED <<known, snapshot, events, client, retained, subscribed, outside, received>>
    BY <1>1, Zenon DEF ConnAck, on_connack
  <2>2. ~net BY <1>1 DEF ConnAck
  <2>3. WellFormed(q0)
    <3>1. Queues.chan = <<>> BY <1>b, <2>2, QueuesWell
    <3> QED BY <3>1, QueuesWell, Announces
  <2>4. WellFormed(q1) /\ NoIdle(q1)
    <3> HIDE DEF q0
    <3> QED BY <2>3, DrainsWell
  <2>5. m \in Messages BY <1>a DEF Control, History, Msg, Messages, Topics
  <2>6. WellFormed(q2) /\ NoIdle(q2)
    <3> HIDE DEF q1, m
    <3> QED BY <2>4, <2>5, Enqueues
  <2>7. DueOnConnect \in BOOLEAN
    BY PublisherAssumption, Zenon DEF PublisherAssumption, DueOnConnect
  <2>8. WellFormed(q3) /\ NoIdle(q3) /\ StillDue(q2, DueOnConnect) \in BOOLEAN
        /\ (StillDue(q2, DueOnConnect) => q3 = q2 /\ Len(q2.chan) = ChanCap)
    <3> HIDE DEF q2
    <3> QED BY <2>6, <2>7, SubscriptionFits
  <2>9. QueuesOK' /\ (buffer' = <<>> \/ Len(chan') = ChanCap)
    <3> HIDE DEF q3
    <3> QED BY <2>1, <2>8, SetsWell DEF QueuesOK
  <2>10. toSubscribe' => Len(chan') = ChanCap
    <3>1. chan' = q3.chan BY <2>1 DEF SetQueues
    <3> HIDE DEF q3, q2
    <3> QED BY <2>1, <2>8, <3>1, Zenon
  <2>11. Control'
    <3>1. toSubscribe' \in BOOLEAN BY <2>1, <2>8, Zenon
    <3>2. backoff' \in Nat BY <2>1, PublisherAssumption DEF PublisherAssumption
    <3> QED BY <1>a, <2>1, <3>1, <3>2, Zenon DEF Control
  <2>12. Client' BY <1>a, <2>1, Zenon DEF Client, client
  <2>13. Outside' BY <1>a, <2>1, Zenon DEF Outside, outside
  <2>14. History'
    <3>1. accepted' \in Nat BY <1>a, <2>1 DEF History
    <3>2. last' \in [Tracked -> [n : Nat, v : Nat]]
      <4>1. [n |-> accepted + 1, v |-> snapshot] \in [n : Nat, v : Nat]
        BY <1>a DEF History, Control
      <4> QED BY <1>a, <2>1, <4>1 DEF History
    <3> QED BY <1>a, <2>1, <3>1, <3>2 DEF History
  <2> QED BY <2>1, <2>9, <2>10, <2>11, <2>12, <2>13, <2>14, Zenon DEF NoIdleRoom, UpIsKnown
<1>2. CASE StartupTimeout
  <2>1. ~net BY <1>2, <1>b, Zenon DEF StartupTimeout, UpIsKnown
  <2> QED BY <1>2, <1>a, <1>b, <2>1, Zenon
          DEF StartupTimeout, Control, Client, Outside, History, QueuesOK, NoIdleRoom, UpIsKnown,
              client, broker, outside
<1>3. CASE StartupFails
  <2>1. backoff' \in Nat BY <1>3, <1>a, DelayIsNat DEF StartupFails, Control
  <2> QED BY <1>3, <1>a, <1>b, <2>1, Zenon
          DEF StartupFails, Control, Client, Outside, History, QueuesOK, NoIdleRoom, UpIsKnown,
              client, broker, outside
<1>4. CASE WritesPending
  <2>1. net /\ pending # <<>> /\ pending' = Tail(pending) /\ Tick(Queues)
        /\ UNCHANGED <<pc, state, known, snapshot, backoff, events, got, net, retained, outside,
                       accepted, last, received>>
    BY <1>4, Zenon DEF WritesPending
  <2>2. QueuesOK' /\ (buffer' = <<>> \/ Len(chan') = ChanCap) /\ toSubscribe' \in BOOLEAN
        /\ (toSubscribe' => Len(chan') = ChanCap)
    BY <1>a, <2>1, QueuesWell, TicksWell DEF Control, QueuesOK
  <2>3. Tail(pending) \in Seq(Requests) /\ Head(pending) \in Requests
    BY <1>a, <2>1, HeadTailProperties DEF Client
  <2>4. Client' /\ subscribed' \in BOOLEAN
    <3>1. CASE Head(pending) = Subscribe /\ subscribed' = TRUE /\ UNCHANGED inflight
      BY <1>a, <2>1, <2>3, <3>1, Zenon DEF Client
    <3>2. CASE Head(pending) # Subscribe /\ inflight' = Append(inflight, Head(pending))
               /\ UNCHANGED subscribed
      <4>1. Head(pending) \in Messages BY <2>3, <3>2 DEF Requests
      <4>2. inflight' \in Seq(Messages) /\ Len(inflight') = Len(inflight) + 1
        BY <1>a, <3>2, <4>1, AppendProperties DEF Client
      <4>3. got' \in 0..Len(inflight')
        BY <1>a, <2>1, <4>2, LenProperties DEF Client
      <4> QED BY <1>a, <2>1, <2>3, <3>2, <4>2, <4>3, Zenon DEF Client, Outside
    <3> QED BY <1>4, <3>1, <3>2, Zenon DEF WritesPending
  <2>5. Control' BY <1>a, <2>1, <2>2, Zenon DEF Control
  <2>6. Outside' BY <1>a, <2>1, <2>4, Zenon DEF Outside, outside
  <2>7. History' BY <1>a, <2>1, Zenon DEF History
  <2> QED BY <1>b, <2>1, <2>2, <2>4, <2>5, <2>6, <2>7, Zenon DEF NoIdleRoom, UpIsKnown
<1>5. CASE WritesRequest
  <2> DEFINE q == [Queues EXCEPT !.chan = Tail(chan)]
  <2>1. net /\ chan # <<>> /\ Tick(q)
        /\ UNCHANGED <<pc, state, known, snapshot, backoff, events, got, pending, net, retained,
                       outside, accepted, last, received>>
    BY <1>5, Zenon DEF WritesRequest
  <2>2. Tail(chan) \in Seq(Requests) /\ Len(Tail(chan)) = Len(chan) - 1
        /\ Head(chan) \in Requests /\ Len(chan) \in Nat
    BY <1>a, <2>1, HeadTailProperties, LenProperties DEF QueuesOK
  <2>3. WellFormed(q)
    <3>1. q = [buffer |-> buffer, chan |-> Tail(chan), lost |-> lost]
      <4> DEFINE x == Tail(chan)
                 y == [buffer |-> buffer, chan |-> chan, lost |-> lost]
      <4>1. q = [y EXCEPT !.chan = x] BY DEF Queues
      <4> HIDE DEF x, q
      <4>2. q = [buffer |-> buffer, chan |-> x, lost |-> lost] BY <4>1
      <4> QED BY <4>2 DEF x
    <3> HIDE DEF q
    <3>2. q.chan = Tail(chan) /\ q.buffer = buffer BY <3>1
    <3>3. q \in QueueValues BY <1>a, <2>2, <3>1 DEF QueueValues, QueuesOK
    <3>4. Len(Tail(chan)) <= ChanCap BY <1>a, <2>2, Capacities DEF QueuesOK
    <3>5. Len(q.chan) <= ChanCap /\ Len(q.buffer) <= Bound
      BY <1>a, <3>2, <3>4, Zenon DEF QueuesOK
    <3> QED BY <3>3, <3>5 DEF WellFormed
  <2> HIDE DEF q
  <2>4. QueuesOK' /\ (buffer' = <<>> \/ Len(chan') = ChanCap) /\ toSubscribe' \in BOOLEAN
        /\ (toSubscribe' => Len(chan') = ChanCap)
    BY <1>a, <2>1, <2>3, TicksWell DEF Control, QueuesOK
  <2>5. Client' /\ subscribed' \in BOOLEAN
    <3>1. CASE Head(chan) = Subscribe /\ subscribed' = TRUE /\ UNCHANGED inflight
      BY <1>a, <2>1, <3>1, Zenon DEF Client
    <3>2. CASE Head(chan) # Subscribe /\ inflight' = Append(inflight, Head(chan))
               /\ UNCHANGED subscribed
      <4>1. Head(chan) \in Messages BY <2>2, <3>2 DEF Requests
      <4>2. inflight' \in Seq(Messages) /\ Len(inflight') = Len(inflight) + 1
        BY <1>a, <3>2, <4>1, AppendProperties DEF Client
      <4>3. got' \in 0..Len(inflight')
        BY <1>a, <2>1, <4>2, LenProperties DEF Client
      <4> QED BY <1>a, <2>1, <3>2, <4>2, <4>3, Zenon DEF Client, Outside
    <3> QED BY <1>5, <3>1, <3>2, Zenon DEF WritesRequest
  <2>6. Control' BY <1>a, <2>1, <2>4, Zenon DEF Control
  <2>7. Outside' BY <1>a, <2>1, <2>5, Zenon DEF Outside, outside
  <2>8. History' BY <1>a, <2>1, Zenon DEF History
  <2> QED BY <1>b, <2>1, <2>4, <2>5, <2>6, <2>7, <2>8, Zenon DEF NoIdleRoom, UpIsKnown
<1>6. CASE PubAck
  <2>1. net /\ got > 0 /\ got' = got - 1 /\ inflight' = Tail(inflight) /\ Tick(Queues)
        /\ UNCHANGED <<pc, state, known, snapshot, backoff, events, pending, broker, outside,
                       accepted, last, received>>
    BY <1>6, Zenon DEF PubAck
  <2>2. QueuesOK' /\ (buffer' = <<>> \/ Len(chan') = ChanCap) /\ toSubscribe' \in BOOLEAN
        /\ (toSubscribe' => Len(chan') = ChanCap)
    BY <1>a, <2>1, QueuesWell, TicksWell DEF Control, QueuesOK
  <2>3. Client'
    <3>1. inflight \in Seq(Messages) /\ got \in 0..Len(inflight) /\ Len(inflight) \in Nat
      BY <1>a, LenProperties DEF Client
    <3>2. inflight # <<>> BY <2>1, <3>1, EmptySeq
    <3>3. Tail(inflight) \in Seq(Messages) /\ Len(Tail(inflight)) = Len(inflight) - 1
      BY <3>1, <3>2, HeadTailProperties
    <3>4. got' \in 0..Len(inflight') BY <2>1, <3>1, <3>3
    <3> QED BY <1>a, <2>1, <3>3, <3>4, Zenon DEF Client
  <2>4. Control' BY <1>a, <2>1, <2>2, Zenon DEF Control
  <2>5. Outside' BY <1>a, <2>1, Zenon DEF Outside, outside, broker
  <2>6. History' BY <1>a, <2>1, Zenon DEF History
  <2> QED BY <1>b, <2>1, <2>2, <2>3, <2>4, <2>5, <2>6, Zenon DEF NoIdleRoom, UpIsKnown, broker
<1>7. CASE IncomingPublish
  <2>1. /\ net /\ offered < MaxOffered /\ offered' = offered + 1
        /\ \E more \in Follows["message"] : Publishes("message", 0, more, TRUE)
        /\ UNCHANGED <<pc, state, toSubscribe, backoff, events, client, broker, breaks, wiped,
                       received>>
    BY <1>7, Zenon DEF IncomingPublish
  <2>2. PICK more \in Follows["message"] : Publishes("message", 0, more, TRUE) BY <2>1
  <2>3. more \in Continuations BY <2>2 DEF Follows, Continuations
  <2>4. Published(TRUE)
    <3>1. "message" \in {"message", "status"} /\ 0 \in Nat /\ TRUE \in BOOLEAN OBVIOUS
    <3> QED BY <2>2, <2>3, <3>1, PublishesWell
  <2>5. QueuesOK' /\ (buffer' = <<>> \/ Len(chan') = ChanCap)
        /\ (Len(chan) = ChanCap => Len(chan') = ChanCap)
    BY <2>4, Zenon DEF Published, QueuesOK
  <2>6. Control' BY <1>a, <2>1, <2>4, Zenon DEF Control, Published
  <2>7. Client' BY <1>a, <2>1, Zenon DEF Client, client
  <2>8. Outside'
    <3>1. offered' \in 0..MaxOffered
      BY <1>a, <2>1, PublisherAssumption DEF PublisherAssumption, Outside
    <3> QED BY <1>a, <2>1, <3>1, Zenon DEF Outside, broker
  <2>9. History' BY <1>a, <2>1, <2>4, Zenon DEF History, Published
  <2> QED BY <1>b, <2>1, <2>5, <2>6, <2>7, <2>8, <2>9, Zenon DEF NoIdleRoom, UpIsKnown, broker
<1>8. CASE ConnectionLost
  <2>1. /\ breaks < MaxBreaks /\ breaks' = breaks + 1 /\ net' = FALSE /\ subscribed' = FALSE
        /\ retained' = [retained EXCEPT !["online"] = 0]
        /\ pending' = Kept /\ inflight' = <<>> /\ got' = 0 /\ chan' = <<>>
        /\ state' = "Reconnecting" /\ backoff' = next_delay(backoff) /\ pc' = "sleeping"
        /\ UNCHANGED <<buffer, toSubscribe, known, snapshot, events, offered, wiped, accepted, last,
                       received, lost>>
    BY <1>8, Zenon DEF ConnectionLost
  <2>2. Kept \in Seq(Requests)
    BY <1>a, MessagesAreRequests, ConcatProperties DEF Kept, Client, QueuesOK
  <2>3. Control' BY <1>a, <2>1, DelayIsNat DEF Control
  <2>4. Client'
    <3>1. <<>> \in Seq(Messages) /\ 0 \in 0..Len(<<>>) OBVIOUS
    <3> QED BY <2>1, <2>2, <3>1, Zenon DEF Client
  <2>5. Outside'
    <3>1. breaks' \in 0..MaxBreaks
      BY <1>a, <2>1, PublisherAssumption DEF PublisherAssumption, Outside
    <3>2. retained' \in [Retained -> Nat] BY <1>a, <2>1 DEF Outside
    <3> QED BY <1>a, <2>1, <3>1, <3>2, Zenon DEF Outside
  <2>6. History' BY <1>a, <2>1, Zenon DEF History
  <2>7. QueuesOK'
    <3>1. <<>> \in Seq(Requests) /\ Len(<<>>) <= ChanCap BY Capacities
    <3> QED BY <1>a, <2>1, <3>1, Zenon DEF QueuesOK
  <2> QED BY <2>1, <2>3, <2>4, <2>5, <2>6, <2>7 DEF NoIdleRoom, UpIsKnown
<1>9. CASE ConnectFails
  <2>1. backoff' \in Nat BY <1>9, <1>a, DelayIsNat DEF ConnectFails, Control
  <2> QED BY <1>9, <1>a, <1>b, <2>1, Zenon
          DEF ConnectFails, Control, Client, Outside, History, QueuesOK, NoIdleRoom, UpIsKnown,
              client, broker, outside
<1>10. CASE SleepEnds
  <2>1. ~net BY <1>10, <1>b, Zenon DEF SleepEnds, UpIsKnown
  <2> QED BY <1>10, <1>a, <1>b, <2>1, Zenon
          DEF SleepEnds, Control, Client, Outside, History, QueuesOK, NoIdleRoom, UpIsKnown,
              client, broker, outside
<1>11. CASE HandleEvent
  <2> DEFINE e == Head(events)
             up == state = "Connected"
  <2>1. /\ events # <<>> /\ events' = Tail(events)
        /\ \E more \in Follows[e.topic] : Publishes(e.topic, e.v, more, up)
        /\ UNCHANGED <<pc, state, toSubscribe, backoff, client, broker, outside, received>>
    BY <1>11, Zenon DEF HandleEvent
  <2>2. PICK more \in Follows[e.topic] : Publishes(e.topic, e.v, more, up) BY <2>1
  <2>3. e \in [topic : {"message", "status"}, v : Nat]
        /\ Tail(events) \in Seq([topic : {"message", "status"}, v : Nat])
    BY <1>a, <2>1, HeadTailProperties DEF Control
  <2>4. e.topic \in {"message", "status"} /\ e.v \in Nat /\ up \in BOOLEAN
    <3> HIDE DEF e
    <3> QED BY <2>3
  <2>5. more \in Continuations
    <3> HIDE DEF e
    <3> QED BY <2>2, <2>4 DEF Follows, Continuations
  <2>6. Published(up)
    <3> HIDE DEF e, up
    <3> QED BY <2>2, <2>4, <2>5, PublishesWell
  <2>7. QueuesOK' /\ (up => buffer' = <<>> \/ Len(chan') = ChanCap)
        /\ (~up => chan' = chan) /\ (Len(chan) = ChanCap => Len(chan') = ChanCap)
    <3> HIDE DEF up
    <3> QED BY <2>6, Zenon DEF Published, QueuesOK
  <2>8. Control' BY <1>a, <2>1, <2>3, <2>6, Zenon DEF Control, Published
  <2>9. Client' BY <1>a, <2>1, Zenon DEF Client, client
  <2>10. Outside' BY <1>a, <2>1, Zenon DEF Outside, broker, outside
  <2>11. History' BY <1>a, <2>1, <2>6, Zenon DEF History, Published
  <2>12. NoIdleRoom' BY <1>b, <2>1, <2>7, Zenon DEF NoIdleRoom, UpIsKnown, broker
  <2>13. (~net => chan = <<>> /\ state # "Connected")' /\ UpIsKnown'
    BY <1>b, <2>1, <2>7, Zenon DEF UpIsKnown, broker
  <2> QED BY <2>7, <2>8, <2>9, <2>10, <2>11, <2>12, <2>13, Zenon
<1>12. CASE Stop
  <2>1. /\ pc' = "stopped" /\ state' = (IF pc = "startup" THEN state ELSE "Disconnected")
        /\ net' = FALSE /\ subscribed' = FALSE
        /\ retained' = [retained EXCEPT !["online"] = 0]
        /\ lost' = lost \cup (Waiting \ received)
        /\ buffer' = <<>> /\ chan' = <<>> /\ pending' = <<>> /\ inflight' = <<>> /\ got' = 0
        /\ UNCHANGED <<toSubscribe, known, snapshot, backoff, events, outside, accepted, last,
                       received>>
    BY <1>12, Zenon DEF Stop
  <2>2. state' # "Connected" /\ state' \in {"Connecting", "Connected", "Reconnecting", "Disconnected"}
    <3>1. pc = "startup" => ~net BY <1>b DEF UpIsKnown
    <3> QED BY <1>a, <1>b, <2>1, <3>1 DEF Control
  <2>3. Control' BY <1>a, <2>1, <2>2, Zenon DEF Control
  <2>4. Client'
    <3>1. <<>> \in Seq(Messages) /\ <<>> \in Seq(Requests) /\ 0 \in 0..Len(<<>>) OBVIOUS
    <3> QED BY <2>1, <3>1, Zenon DEF Client
  <2>5. Outside'
    <3>1. retained' \in [Retained -> Nat] BY <1>a, <2>1 DEF Outside
    <3> QED BY <1>a, <2>1, <3>1, Zenon DEF Outside, outside
  <2>6. History' BY <1>a, <2>1, Zenon DEF History
  <2>7. QueuesOK'
    <3>1. Waiting \subseteq Nat
      <4>1. Numbers(inflight) \subseteq Nat BY <1>a, MessagesAreRequests, NumbersAreNat DEF Client
      <4>2. Numbers(pending) \subseteq Nat BY <1>a, NumbersAreNat DEF Client
      <4>3. Numbers(chan) \subseteq Nat BY <1>a, NumbersAreNat DEF QueuesOK
      <4>4. Numbers(buffer) \subseteq Nat
        BY <1>a, MessagesAreRequests, NumbersAreNat DEF QueuesOK
      <4> QED BY <4>1, <4>2, <4>3, <4>4 DEF Waiting
    <3>2. lost' \subseteq Nat BY <1>a, <2>1, <3>1 DEF QueuesOK
    <3>3. <<>> \in Seq(Requests) /\ <<>> \in Seq(Messages) /\ Len(<<>>) <= ChanCap
          /\ Len(<<>>) <= Bound
      BY Capacities
    <3> QED BY <2>1, <3>2, <3>3, Zenon DEF QueuesOK
  <2> QED BY <2>1, <2>2, <2>3, <2>4, <2>5, <2>6, <2>7 DEF NoIdleRoom, UpIsKnown
<1>13. CASE Stopped
  BY <1>13, <1>a, <1>b, Zenon
     DEF Stopped, vars, client, broker, outside, Control, Client, Outside, History, QueuesOK,
         NoIdleRoom, UpIsKnown
<1>14. ASSUME NEW topic \in {"message", "status"}, Offer(topic)
       PROVE  Control' /\ Client' /\ Outside' /\ History' /\ QueuesOK'
              /\ (~net => chan = <<>> /\ state # "Connected")' /\ NoIdleRoom' /\ UpIsKnown'
  <2>1. /\ offered < MaxOffered /\ offered' = offered + 1
        /\ UNCHANGED <<pc, state, buffer, chan, toSubscribe, known, snapshot, backoff, client,
                       broker, breaks, wiped, accepted, last, received, lost>>
    BY <1>14, Zenon DEF Offer
  <2>2. offered' \in 0..MaxOffered
    BY <1>a, <2>1, PublisherAssumption DEF PublisherAssumption, Outside
  <2>3. events' \in Seq([topic : {"message", "status"}, v : Nat])
    <3> DEFINE e == [topic |-> topic, v |-> Version(topic)]
    <3>1. Version(topic) \in Nat BY <1>a DEF Version, Outside
    <3>2. e \in [topic : {"message", "status"}, v : Nat] BY <3>1
    <3>3. events' = Append(events, e) \/ events' = events BY <1>14 DEF Offer
    <3> DEFINE E == [topic : {"message", "status"}, v : Nat]
    <3>4. events \in Seq(E) /\ e \in E BY <1>a, <3>2 DEF Control
    <3> HIDE DEF e, E
    <3>5. Append(events, e) \in Seq(E) BY <3>4, AppendProperties
    <3>6. events' \in Seq(E) BY <3>3, <3>4, <3>5
    <3> QED BY <3>6 DEF E
  <2>4. Control' BY <1>a, <2>1, <2>3, Zenon DEF Control
  <2>5. Client' /\ Outside' /\ History' /\ QueuesOK'
    BY <1>a, <2>1, <2>2, Zenon DEF Client, Outside, History, QueuesOK, client, broker
  <2>6. (~net => chan = <<>> /\ state # "Connected")' /\ NoIdleRoom' /\ UpIsKnown'
    BY <1>b, <2>1, Zenon DEF NoIdleRoom, UpIsKnown, broker
  <2> QED BY <2>4, <2>5, <2>6
<1>15. CASE BrokerReceives
  <2> DEFINE m == inflight[got + 1]
  <2>1. /\ got < Len(inflight) /\ got' = got + 1
        /\ retained' = (IF m.topic \in Retained THEN [retained EXCEPT ![m.topic] = m.v]
                        ELSE retained)
        /\ received' = received \cup ({m.n} \ {0})
        /\ UNCHANGED <<pc, state, buffer, chan, toSubscribe, known, snapshot, backoff, events,
                       inflight, pending, net, subscribed, outside, accepted, last, lost>>
    BY <1>15, Zenon DEF BrokerReceives
  <2>2. m \in Messages /\ got' \in 0..Len(inflight)
    <3>1. inflight \in Seq(Messages) /\ got \in 0..Len(inflight) /\ Len(inflight) \in Nat
      BY <1>a, LenProperties DEF Client
    <3>2. got + 1 \in 1..Len(inflight) BY <2>1, <3>1
    <3>3. m \in Messages BY <3>1, <3>2, ElementOfSeq
    <3>4. got' \in 0..Len(inflight) BY <2>1, <3>1
    <3> QED BY <3>3, <3>4
  <2> HIDE DEF m
  <2>3. m.v \in Nat /\ m.n \in Nat BY <2>2 DEF Messages
  <2>4. retained' \in [Retained -> Nat] BY <1>a, <2>1, <2>3 DEF Outside
  <2>5. received' \subseteq Nat BY <1>a, <2>1, <2>3 DEF History
  <2>6. Control' /\ QueuesOK' BY <1>a, <2>1, Zenon DEF Control, QueuesOK
  <2>7. Client' BY <1>a, <2>1, <2>2, Zenon DEF Client
  <2>8. Outside' BY <1>a, <2>1, <2>4, Zenon DEF Outside, outside
  <2>9. History' BY <1>a, <2>1, <2>5, Zenon DEF History
  <2>10. (~net => chan = <<>> /\ state # "Connected")' /\ NoIdleRoom' /\ UpIsKnown'
    BY <1>b, <2>1, Zenon DEF NoIdleRoom, UpIsKnown
  <2> QED BY <2>6, <2>7, <2>8, <2>9, <2>10
<1>16. CASE BrokerForgets
  <2>1. /\ breaks < MaxBreaks /\ breaks' = breaks + 1
        /\ retained' = [t \in Retained |-> 0] /\ wiped' = TRUE
        /\ UNCHANGED <<pc, state, buffer, chan, toSubscribe, known, snapshot, backoff, events,
                       client, net, subscribed, offered, accepted, last, received, lost>>
    BY <1>16, Zenon DEF BrokerForgets
  <2>2. breaks' \in 0..MaxBreaks
    BY <1>a, <2>1, PublisherAssumption DEF PublisherAssumption, Outside
  <2>3. retained' \in [Retained -> Nat] BY <2>1
  <2>4. Control' /\ QueuesOK' /\ Client' /\ History'
    BY <1>a, <2>1, Zenon DEF Control, QueuesOK, Client, History, client
  <2>5. Outside' BY <1>a, <2>1, <2>2, <2>3, Zenon DEF Outside
  <2>6. (~net => chan = <<>> /\ state # "Connected")' /\ NoIdleRoom' /\ UpIsKnown'
    BY <1>b, <2>1, Zenon DEF NoIdleRoom, UpIsKnown
  <2> QED BY <2>4, <2>5, <2>6
<1>17. CASE UNCHANGED vars
  BY <1>17, <1>a, <1>b, Zenon
     DEF vars, client, broker, outside, Control, Client, Outside, History, QueuesOK, NoIdleRoom,
         UpIsKnown
<1> QED
  BY <1>1, <1>2, <1>3, <1>4, <1>5, <1>6, <1>7, <1>8, <1>9, <1>10, <1>11, <1>12, <1>13, <1>14,
     <1>15, <1>16, <1>17, Zenon DEF Next

\* Every variable of the publisher, the client and the broker keeps its type,
\* whatever the capacities: run, enqueue, drain_buffer and on_connack never
\* take a head, a tail or a slice that is not there.
THEOREM PublisherTypes == Spec => []TypeOK
<1>1. IInv => TypeOK BY DEF IInv
<1> QED BY InitInv, StepInv, <1>1, PTL DEF Spec

\* buffer_message and publish_online keep the configured capacity, and the
\* request channel is empty whenever there is no connection, for every
\* capacity, 0 included, and any number of outages.
THEOREM BufferAlwaysBounded == Spec => []BufferBounded
<1>1. IInv => BufferBounded BY DEF IInv
<1> QED BY InitInv, StepInv, <1>1, PTL DEF Spec

\* While the connection is up, what waits in the buffer, and a subscription
\* that is due, waits for a full request channel and for nothing else: enqueue
\* and every event of poll() drain.
THEOREM NeverIdle == Spec => []NoIdleRoom
<1>1. IInv => NoIdleRoom BY DEF IInv
<1> QED BY InitInv, StepInv, <1>1, PTL DEF Spec
------------------------------------------------------------------------------
(***************************************************************************)
(* The line of messages: the requests written, kept and in the channel and *)
(* the buffer, in the order they were accepted.                            *)
(***************************************************************************)
Items(s) == {s[i] : i \in 1..Len(s)}
Nums(S) == {x.n : x \in S} \ {0}

\* Numbers grow along a sequence, and from one set of requests to another; the
\* announcements and the subscriptions have none.
Prec(S, T) == \A x \in S, y \in T : x.n # 0 /\ y.n # 0 => x.n < y.n
Increasing(s) == \A i, j \in 1..Len(s) : i < j /\ s[i].n # 0 /\ s[j].n # 0 => s[i].n < s[j].n

\* Every request has a number.
LEMMA RequestNumber == ASSUME NEW x \in Requests PROVE x.n \in Nat
BY DEF Requests, Messages, Subscribe, Msg

\* The requests of a sequence are requests.
LEMMA ItemsType == ASSUME NEW s \in Seq(Requests) PROVE Items(s) \subseteq Requests
<1>1. \A i \in 1..Len(s) : s[i] \in Requests BY ElementOfSeq
<1> QED BY <1>1 DEF Items

\* The numbers of a sequence are those of its requests.
LEMMA ItemsNumbers == ASSUME NEW s PROVE Numbers(s) = Nums(Items(s))
<1>1. {s[i].n : i \in 1..Len(s)} = {x.n : x \in Items(s)} BY Zenon DEF Items
<1> QED BY <1>1 DEF Numbers, Nums

\* An empty sequence.
LEMMA ItemsEmpty == Items(<<>>) = {} /\ Increasing(<<>>)
<1>1. Len(<<>>) = 0 OBVIOUS
<1>2. 1..0 = {} OBVIOUS
<1>3. 1..Len(<<>>) = {} BY <1>1, <1>2, Zenon
<1> QED BY <1>3, Zenon DEF Items, Increasing

\* A request is appended.
LEMMA ItemsAppend ==
    ASSUME NEW s \in Seq(Requests), NEW e \in Requests
    PROVE  Items(Append(s, e)) = Items(s) \cup {e}
<1> DEFINE t == Append(s, e)
<1>1. Len(s) \in Nat /\ Len(t) = Len(s) + 1 /\ (\A i \in 1..Len(s) : t[i] = s[i])
      /\ t[Len(s) + 1] = e
  BY AppendProperties, LenProperties
<1> HIDE DEF t
<1>2. ASSUME NEW x \in Items(t) PROVE x \in Items(s) \cup {e}
  <2>1. PICK i \in 1..Len(t) : x = t[i] BY <1>2 DEF Items
  <2>2. CASE i \in 1..Len(s) BY <1>1, <2>1, <2>2 DEF Items
  <2>3. CASE i = Len(s) + 1 BY <1>1, <2>1, <2>3
  <2> QED BY <1>1, <2>1, <2>2, <2>3
<1>3. ASSUME NEW x \in Items(s) PROVE x \in Items(t)
  <2>1. PICK i \in 1..Len(s) : x = s[i] BY <1>3 DEF Items
  <2>2. i \in 1..Len(t) /\ x = t[i] BY <1>1, <2>1
  <2> QED BY <2>2 DEF Items
<1>4. e \in Items(t)
  <2>1. Len(s) + 1 \in 1..Len(t) BY <1>1
  <2> QED BY <1>1, <2>1, Zenon DEF Items
<1>5. Items(t) = Items(s) \cup {e} BY <1>2, <1>3, <1>4
<1> QED BY <1>5 DEF t

\* A request with the highest number may come last.
LEMMA IncAppend ==
    ASSUME NEW s \in Seq(Requests), NEW e \in Requests, Increasing(s), Prec(Items(s), {e})
    PROVE  Increasing(Append(s, e))
<1> DEFINE t == Append(s, e)
<1>1. Len(s) \in Nat /\ Len(t) = Len(s) + 1 /\ (\A i \in 1..Len(s) : t[i] = s[i])
      /\ t[Len(s) + 1] = e
  BY AppendProperties, LenProperties
<1> HIDE DEF t
<1>2. ASSUME NEW i \in 1..Len(t), NEW j \in 1..Len(t), i < j, t[i].n # 0, t[j].n # 0
      PROVE  t[i].n < t[j].n
  <2>1. i \in 1..Len(s) /\ t[i] = s[i] BY <1>1, <1>2
  <2>2. CASE j \in 1..Len(s) 
    <3>1. t[j] = s[j] BY <1>1, <2>2
    <3> QED BY <1>2, <2>1, <2>2, <3>1 DEF Increasing
  <2>3. CASE j = Len(s) + 1
    <3>1. t[j] = e BY <1>1, <2>3
    <3>2. s[i] \in Items(s) BY <2>1 DEF Items
    <3> QED BY <1>2, <2>1, <3>1, <3>2 DEF Prec
  <2> QED BY <1>1, <2>2, <2>3
<1>3. Increasing(t) BY <1>2 DEF Increasing
<1> QED BY <1>3 DEF t

\* The first request is taken.
LEMMA ItemsTail ==
    ASSUME NEW s \in Seq(Requests), s # <<>>
    PROVE  /\ Items(s) = {Head(s)} \cup Items(Tail(s))
           /\ Increasing(s) => Increasing(Tail(s)) /\ Prec({Head(s)}, Items(Tail(s)))
<1> DEFINE t == Tail(s)
           h == Head(s)
<1>1. /\ Len(s) \in Nat /\ Len(s) # 0 /\ Len(t) = Len(s) - 1
      /\ \A i \in 1..Len(t) : t[i] = s[i + 1]
      /\ h = s[1]
  BY HeadTailProperties, LenProperties, EmptySeq
<1> HIDE DEF t, h
<1>2. ASSUME NEW x \in Items(s) PROVE x \in {h} \cup Items(t)
  <2>1. PICK i \in 1..Len(s) : x = s[i] BY <1>2 DEF Items
  <2>2. CASE i = 1 BY <1>1, <2>1, <2>2
  <2>3. CASE i # 1
    <3>1. i - 1 \in 1..Len(t) /\ (i - 1) + 1 = i BY <1>1, <2>1, <2>3
    <3>2. x = t[i - 1] BY <1>1, <2>1, <3>1
    <3> QED BY <3>1, <3>2, Zenon DEF Items
  <2> QED BY <2>2, <2>3
<1>3. ASSUME NEW i \in 1..Len(t) PROVE i + 1 \in 1..Len(s) /\ t[i] = s[i + 1]
  BY <1>1, <1>3
<1>4. ASSUME NEW x \in Items(t) PROVE x \in Items(s)
  <2>1. PICK i \in 1..Len(t) : x = t[i] BY <1>4 DEF Items
  <2> QED BY <1>3, <2>1, Zenon DEF Items
<1>5. h \in Items(s)
  <2>1. 1 \in 1..Len(s) BY <1>1
  <2> QED BY <1>1, <2>1, Zenon DEF Items
<1>6. Items(s) = {h} \cup Items(t) BY <1>2, <1>4, <1>5
<1>7. ASSUME Increasing(s) PROVE Increasing(t)
  <2> SUFFICES ASSUME NEW i \in 1..Len(t), NEW j \in 1..Len(t), i < j, t[i].n # 0, t[j].n # 0
               PROVE  t[i].n < t[j].n
    BY DEF Increasing
  <2>1. i + 1 < j + 1 BY <1>1
  <2> QED BY <1>3, <1>7, <2>1 DEF Increasing
<1>8. ASSUME Increasing(s) PROVE Prec({h}, Items(t))
  <2> SUFFICES ASSUME NEW y \in Items(t), h.n # 0, y.n # 0 PROVE h.n < y.n BY DEF Prec
  <2>1. PICK i \in 1..Len(t) : y = t[i] BY DEF Items
  <2>2. i + 1 \in 1..Len(s) /\ y = s[i + 1] BY <1>3, <2>1
  <2>3. 1 \in 1..Len(s) /\ 1 < i + 1 BY <1>1, <2>1
  <2> QED BY <1>1, <1>8, <2>2, <2>3 DEF Increasing
<1> QED BY <1>6, <1>7, <1>8 DEF t, h

\* Two sequences are joined.
LEMMA ItemsConcat ==
    ASSUME NEW s \in Seq(Requests), NEW u \in Seq(Requests)
    PROVE  /\ Items(s \o u) = Items(s) \cup Items(u)
           /\ Increasing(s) /\ Increasing(u) /\ Prec(Items(s), Items(u)) => Increasing(s \o u)
<1> DEFINE t == s \o u
           k == Len(s)
<1>1. /\ k \in Nat /\ Len(u) \in Nat /\ Len(t) = k + Len(u)
      /\ \A i \in 1..Len(t) : t[i] = IF i <= k THEN s[i] ELSE u[i - k]
  BY ConcatProperties, LenProperties
<1> HIDE DEF t, k
<1>k. k = Len(s) BY DEF k
<1>2. ASSUME NEW i \in 1..Len(t)
      PROVE  \/ i \in 1..Len(s) /\ i <= k /\ t[i] = s[i]
             \/ i - k \in 1..Len(u) /\ i > k /\ t[i] = u[i - k]
  <2>1. CASE i <= k BY <1>1, <1>k, <2>1
  <2>2. CASE ~(i <= k)
    <3>1. t[i] = u[i - k] BY <1>1, <2>2
    <3> QED BY <1>1, <2>2, <3>1
  <2> QED BY <2>1, <2>2
<1>3. ASSUME NEW x \in Items(t) PROVE x \in Items(s) \cup Items(u)
  BY <1>2, <1>3, Zenon DEF Items
<1>4. ASSUME NEW x \in Items(s) PROVE x \in Items(t)
  <2>1. PICK i \in 1..Len(s) : x = s[i] BY <1>4 DEF Items
  <2>2. i \in 1..Len(t) /\ i <= k BY <1>1, <1>k, <2>1
  <2>3. x = t[i] BY <1>1, <2>1, <2>2
  <2> QED BY <2>2, <2>3, Zenon DEF Items
<1>5. ASSUME NEW x \in Items(u) PROVE x \in Items(t)
  <2>1. PICK i \in 1..Len(u) : x = u[i] BY <1>5 DEF Items
  <2>2. i + k \in 1..Len(t) /\ ~(i + k <= k) /\ (i + k) - k = i BY <1>1, <2>1
  <2>3. x = t[i + k] BY <1>1, <2>1, <2>2
  <2> QED BY <2>2, <2>3, Zenon DEF Items
<1>6. Items(t) = Items(s) \cup Items(u) BY <1>3, <1>4, <1>5
<1>7. ASSUME Increasing(s), Increasing(u), Prec(Items(s), Items(u)) PROVE Increasing(t)
  <2> SUFFICES ASSUME NEW i \in 1..Len(t), NEW j \in 1..Len(t), i < j, t[i].n # 0, t[j].n # 0
               PROVE  t[i].n < t[j].n
    BY DEF Increasing
  <2>1. CASE j <= k
    <3>1. i \in 1..Len(s) /\ j \in 1..Len(s) /\ t[i] = s[i] /\ t[j] = s[j] BY <1>1, <1>k, <2>1
    <3> QED BY <1>7, <3>1 DEF Increasing
  <2>2. CASE i <= k /\ ~(j <= k)
    <3>1. i \in 1..Len(s) /\ t[i] = s[i] BY <1>1, <1>k, <2>2
    <3>2. j - k \in 1..Len(u) /\ t[j] = u[j - k] BY <1>2, <2>2, <1>1
    <3>3. t[i] \in Items(s) /\ t[j] \in Items(u) BY <3>1, <3>2, Zenon DEF Items
    <3> QED BY <1>7, <3>3 DEF Prec
  <2>3. CASE ~(i <= k)
    <3>1. ~(j <= k) BY <1>1, <2>3
    <3>2. i - k \in 1..Len(u) /\ t[i] = u[i - k] BY <1>2, <2>3, <1>1
    <3>3. j - k \in 1..Len(u) /\ t[j] = u[j - k] BY <1>2, <3>1, <1>1
    <3>4. i - k < j - k BY <1>1
    <3> QED BY <1>7, <3>2, <3>3, <3>4 DEF Increasing
  <2> QED BY <1>1, <2>1, <2>2, <2>3
<1> QED BY <1>6, <1>7 DEF t

\* A sequence is cut in two.
LEMMA ItemsSplit ==
    ASSUME NEW s \in Seq(Requests), NEW f \in Nat, f <= Len(s)
    PROVE  LET a == SubSeq(s, 1, f)
               b == SubSeq(s, f + 1, Len(s))
           IN /\ a \in Seq(Requests) /\ b \in Seq(Requests)
              /\ Items(s) = Items(a) \cup Items(b)
              /\ Increasing(s) => Increasing(a) /\ Increasing(b) /\ Prec(Items(a), Items(b))
              /\ f > 0 => s[1] \in Items(a)
<1> DEFINE a == SubSeq(s, 1, f)
           b == SubSeq(s, f + 1, Len(s))
<1>0. Len(s) \in Nat /\ \A i \in 1..Len(s) : s[i] \in Requests BY LenProperties, ElementOfSeq
<1>1. a \in Seq(Requests) /\ Len(a) = f /\ \A i \in 1..f : a[i] = s[i]
  <2>1. \A i \in 1..f : s[i] \in Requests BY <1>0
  <2>2. /\ a \in Seq(Requests)
        /\ Len(a) = IF 1 <= f THEN f - 1 + 1 ELSE 0
        /\ \A i \in 1..f - 1 + 1 : a[i] = s[1 + i - 1]
    BY <2>1, SubSeqProperties
  <2> HIDE DEF a
  <2>3. f - 1 + 1 = f /\ \A i \in Nat : 1 + i - 1 = i OBVIOUS
  <2>4. \A i \in 1..f : a[i] = s[i]
    <3> TAKE i \in 1..f
    <3>1. a[i] = s[1 + i - 1] BY <2>2, <2>3
    <3>2. 1 + i - 1 = i OBVIOUS
    <3> QED BY <3>1, <3>2, Zenon
  <2>5. Len(a) = f BY <2>2
  <2> QED BY <2>2, <2>4, <2>5
<1>2. b \in Seq(Requests) /\ Len(b) = Len(s) - f /\ \A i \in 1..Len(s) - f : b[i] = s[f + i]
  <2>1. \A i \in f + 1..Len(s) : s[i] \in Requests BY <1>0
  <2>2. f + 1 \in Int /\ Len(s) \in Int BY <1>0
  <2>3. /\ b \in Seq(Requests)
        /\ Len(b) = IF f + 1 <= Len(s) THEN Len(s) - (f + 1) + 1 ELSE 0
        /\ \A i \in 1..Len(s) - (f + 1) + 1 : b[i] = s[f + 1 + i - 1]
    BY <2>1, <2>2, SubSeqProperties
  <2> HIDE DEF b
  <2>4. Len(s) - (f + 1) + 1 = Len(s) - f BY <1>0
  <2>5. \A i \in 1..Len(s) - f : b[i] = s[f + i]
    <3> TAKE i \in 1..Len(s) - f
    <3>1. b[i] = s[f + 1 + i - 1] BY <2>3, <2>4
    <3>2. f + 1 + i - 1 = f + i OBVIOUS
    <3> QED BY <3>1, <3>2, Zenon
  <2>6. Len(b) = Len(s) - f BY <1>0, <2>3
  <2> QED BY <2>3, <2>5, <2>6
<1> HIDE DEF a, b
<1>3. ASSUME NEW x \in Items(s) PROVE x \in Items(a) \cup Items(b)
  <2>1. PICK i \in 1..Len(s) : x = s[i] BY <1>3 DEF Items
  <2>2. CASE i <= f
    <3>1. i \in 1..Len(a) /\ x = a[i] BY <1>0, <1>1, <2>1, <2>2
    <3> QED BY <3>1 DEF Items
  <2>3. CASE ~(i <= f)
    <3>1. i - f \in 1..Len(s) - f /\ f + (i - f) = i BY <1>0, <2>1, <2>3
    <3>2. i - f \in 1..Len(b) /\ x = b[i - f] BY <1>2, <2>1, <3>1
    <3> QED BY <3>2, Zenon DEF Items
  <2> QED BY <2>2, <2>3
<1>4. ASSUME NEW i \in 1..Len(a) PROVE i \in 1..Len(s) /\ i <= f /\ a[i] = s[i]
  BY <1>0, <1>1
<1>5. ASSUME NEW i \in 1..Len(b) PROVE f + i \in 1..Len(s) /\ f + i > f /\ b[i] = s[f + i]
  BY <1>0, <1>2
<1>6. Items(a) \subseteq Items(s) BY <1>4, Zenon DEF Items
<1>7. Items(b) \subseteq Items(s) BY <1>5, Zenon DEF Items
<1>8. Items(s) = Items(a) \cup Items(b) BY <1>3, <1>6, <1>7
<1>9. ASSUME Increasing(s) PROVE Increasing(a)
  BY <1>4, <1>9 DEF Increasing
<1>10. ASSUME Increasing(s) PROVE Increasing(b)
  <2> SUFFICES ASSUME NEW i \in 1..Len(b), NEW j \in 1..Len(b), i < j, b[i].n # 0, b[j].n # 0
               PROVE  b[i].n < b[j].n
    BY DEF Increasing
  <2>1. f + i < f + j OBVIOUS
  <2> QED BY <1>5, <1>10, <2>1 DEF Increasing
<1>11. ASSUME Increasing(s) PROVE Prec(Items(a), Items(b))
  <2> SUFFICES ASSUME NEW i \in 1..Len(a), NEW j \in 1..Len(b), a[i].n # 0, b[j].n # 0
               PROVE  a[i].n < b[j].n
    BY DEF Prec, Items
  <2>1. i < f + j BY <1>1
  <2> QED BY <1>4, <1>5, <1>11, <2>1 DEF Increasing
<1>12. ASSUME f > 0 PROVE s[1] \in Items(a)
  <2>1. 1 \in 1..Len(a) BY <1>1, <1>12
  <2> QED BY <1>4, <2>1, Zenon DEF Items
<1> QED BY <1>1, <1>2, <1>8, <1>9, <1>10, <1>11, <1>12 DEF a, b

\* The queues in line behind the requests P that the client holds: numbers up to
\* a, none of the buffer's among those the broker has.
Lined(q, P, a, rec) ==
    /\ Increasing(q.chan) /\ Increasing(q.buffer)
    /\ Prec(P, Items(q.chan)) /\ Prec(P \cup Items(q.chan), Items(q.buffer))
    /\ \A x \in P \cup Items(q.chan) \cup Items(q.buffer) : x.n <= a
    /\ \A x \in Items(q.buffer) : x.n \notin rec

All(q) == Items(q.chan) \cup Items(q.buffer)

\* The queues r are what q becomes with the requests new: what is gone came from
\* the buffer, or is new, and counts as lost.
Change(q, r, new) ==
    /\ Items(q.chan) \subseteq Items(r.chan)
    /\ Items(r.buffer) \subseteq Items(q.buffer) \cup new
    /\ \E gone \in SUBSET (Items(q.buffer) \cup new) :
          /\ All(r) \cup gone = All(q) \cup new
          /\ r.lost = q.lost \cup Nums(gone)
          /\ Nums(gone) \cap Nums(All(r)) = {}

\* The same when nothing is lost.
Moves(q, r, new) ==
    /\ Items(q.chan) \subseteq Items(r.chan)
    /\ Items(r.buffer) \subseteq Items(q.buffer) \cup new
    /\ All(r) = All(q) \cup new
    /\ r.lost = q.lost

\* What queue values hold are requests.
LEMMA AllTyped ==
    ASSUME NEW q \in QueueValues
    PROVE  /\ q.chan \in Seq(Requests) /\ q.buffer \in Seq(Requests) /\ q.lost \in SUBSET Nat
           /\ Items(q.chan) \subseteq Requests /\ Items(q.buffer) \subseteq Requests
           /\ All(q) \subseteq Requests
<1>1. q.chan \in Seq(Requests) /\ q.buffer \in Seq(Messages) /\ q.lost \in SUBSET Nat
  BY DEF QueueValues
<1>2. q.buffer \in Seq(Requests) BY <1>1, MessagesAreRequests
<1>3. Items(q.chan) \subseteq Requests /\ Items(q.buffer) \subseteq Requests
  BY <1>1, <1>2, ItemsType
<1> QED BY <1>1, <1>2, <1>3 DEF All

\* Nothing is lost.
LEMMA MovesChange == ASSUME NEW q, NEW r, NEW new, Moves(q, r, new) PROVE Change(q, r, new)
<1>1. Nums({}) = {} BY DEF Nums
<1>2. /\ {} \in SUBSET (Items(q.buffer) \cup new)
      /\ All(r) \cup {} = All(q) \cup new
      /\ r.lost = q.lost \cup Nums({})
      /\ Nums({}) \cap Nums(All(r)) = {}
  BY <1>1 DEF Moves
<1> QED BY <1>2, Zenon DEF Change, Moves

\* One change after another.
LEMMA ChangeTrans ==
    ASSUME NEW q, NEW r, NEW s, NEW new1, NEW new2, Change(q, r, new1), Change(r, s, new2),
           Nums(new2) \cap Nums(All(q) \cup new1) = {}
    PROVE  Change(q, s, new1 \cup new2)
<1>1. PICK g1 \in SUBSET (Items(q.buffer) \cup new1) :
          /\ All(r) \cup g1 = All(q) \cup new1
          /\ r.lost = q.lost \cup Nums(g1)
          /\ Nums(g1) \cap Nums(All(r)) = {}
  BY DEF Change
<1>2. PICK g2 \in SUBSET (Items(r.buffer) \cup new2) :
          /\ All(s) \cup g2 = All(r) \cup new2
          /\ s.lost = r.lost \cup Nums(g2)
          /\ Nums(g2) \cap Nums(All(s)) = {}
  BY DEF Change
<1> DEFINE g == g1 \cup g2
<1>3. Items(q.chan) \subseteq Items(r.chan) /\ Items(r.chan) \subseteq Items(s.chan)
      /\ Items(r.buffer) \subseteq Items(q.buffer) \cup new1
      /\ Items(s.buffer) \subseteq Items(r.buffer) \cup new2
  BY DEF Change
<1>4. g \in SUBSET (Items(q.buffer) \cup (new1 \cup new2)) BY <1>1, <1>2, <1>3
<1>5. All(s) \cup g = All(q) \cup (new1 \cup new2) BY <1>1, <1>2
<1>6. Nums(g) = Nums(g1) \cup Nums(g2) BY Zenon DEF Nums
<1>7. s.lost = q.lost \cup Nums(g) BY <1>1, <1>2, <1>6
<1>8. Nums(g) \cap Nums(All(s)) = {}
  <2> SUFFICES ASSUME NEW x \in g1, NEW y \in All(s), x.n = y.n, x.n # 0 PROVE FALSE
    BY <1>2, <1>6, Zenon DEF Nums
  <2>1. y \in All(r) \/ y \in new2 BY <1>2
  <2>2. CASE y \in All(r)
    <3>1. x.n \in Nums(g1) /\ y.n \in Nums(All(r)) BY <2>2, Zenon DEF Nums
    <3> QED BY <1>1, <3>1
  <2>3. CASE y \in new2
    <3>1. x \in All(q) \cup new1 BY <1>1
    <3>2. y.n \in Nums(new2) BY <2>3, Zenon DEF Nums
    <3>3. x.n \in Nums(All(q) \cup new1) BY <3>1, Zenon DEF Nums
    <3> QED BY <3>2, <3>3
  <2> QED BY <2>1, <2>2, <2>3
<1>9. Items(q.chan) \subseteq Items(s.chan) 
      /\ Items(s.buffer) \subseteq Items(q.buffer) \cup (new1 \cup new2)
  BY <1>3
<1> HIDE DEF g
<1> QED BY <1>4, <1>5, <1>7, <1>8, <1>9, Zenon DEF Change

\* drain_buffer keeps the line in order and loses nothing.
LEMMA DrainKeeps ==
    ASSUME NEW q \in QueueValues, Len(q.chan) <= ChanCap, NEW P, NEW a \in Nat, NEW rec,
           Lined(q, P, a, rec)
    PROVE  Lined(drain_buffer(q), P, a, rec) /\ Moves(q, drain_buffer(q), {})
<1> DEFINE f == Fits(q)
           x == SubSeq(q.buffer, 1, f)
           y == SubSeq(q.buffer, f + 1, Len(q.buffer))
           d == drain_buffer(q)
<1>1. f \in Nat /\ f <= Len(q.buffer) BY FitsBounds
<1>2. q.chan \in Seq(Requests) /\ q.buffer \in Seq(Requests) BY AllTyped
<1>3. /\ x \in Seq(Requests) /\ y \in Seq(Requests)
      /\ Items(q.buffer) = Items(x) \cup Items(y)
      /\ Increasing(q.buffer) => Increasing(x) /\ Increasing(y) /\ Prec(Items(x), Items(y))
  BY <1>1, <1>2, ItemsSplit
<1>4. d = [buffer |-> y, chan |-> q.chan \o x, lost |-> q.lost] BY DEF drain_buffer
<1> HIDE DEF f, x, y, d
<1>5. d.buffer = y /\ d.chan = q.chan \o x /\ d.lost = q.lost BY <1>4
<1>6. /\ Increasing(q.chan) /\ Increasing(q.buffer)
      /\ Prec(P, Items(q.chan)) /\ Prec(P \cup Items(q.chan), Items(q.buffer))
      /\ \A z \in P \cup Items(q.chan) \cup Items(q.buffer) : z.n <= a
      /\ \A z \in Items(q.buffer) : z.n \notin rec
  BY DEF Lined
<1>7. Prec(Items(q.chan), Items(x)) BY <1>3, <1>6 DEF Prec
<1>8. Items(d.chan) = Items(q.chan) \cup Items(x) /\ Increasing(d.chan)
  BY <1>2, <1>3, <1>5, <1>6, <1>7, ItemsConcat
<1>9. Items(d.buffer) = Items(y) /\ Increasing(d.buffer) BY <1>3, <1>5, <1>6
<1>10. Prec(P, Items(d.chan)) BY <1>3, <1>6, <1>8 DEF Prec
<1>11. Prec(P \cup Items(d.chan), Items(d.buffer)) BY <1>3, <1>6, <1>8, <1>9 DEF Prec
<1>12. All(d) = All(q) BY <1>3, <1>8, <1>9 DEF All
<1>13. Lined(d, P, a, rec)
  <2>1. \A z \in P \cup Items(d.chan) \cup Items(d.buffer) : z.n <= a BY <1>3, <1>6, <1>8, <1>9
  <2>2. \A z \in Items(d.buffer) : z.n \notin rec BY <1>3, <1>6, <1>9
  <2> QED BY <1>8, <1>9, <1>10, <1>11, <2>1, <2>2 DEF Lined
<1>14. Moves(q, d, {}) BY <1>3, <1>5, <1>8, <1>9, <1>12 DEF Moves
<1> QED BY <1>13, <1>14 DEF d

\* buffer_message keeps the line in order; the oldest message that gives way is lost.
LEMMA BufferKeeps ==
    ASSUME NEW q \in QueueValues, NEW P, NEW a \in Nat, NEW rec, Lined(q, P, a, rec),
           P \subseteq Requests, NEW m \in Messages, m.n = a + 1, a + 1 \notin rec
    PROVE  Lined(buffer_message(q, m), P, a + 1, rec) /\ Change(q, buffer_message(q, m), {m})
<1> DEFINE b == buffer_message(q, m)
<1>0. /\ q.chan \in Seq(Requests) /\ q.buffer \in Seq(Requests)
      /\ Items(q.chan) \subseteq Requests /\ Items(q.buffer) \subseteq Requests /\ m \in Requests
  BY AllTyped DEF Requests
<1>1. /\ Increasing(q.chan) /\ Increasing(q.buffer)
      /\ Prec(P, Items(q.chan)) /\ Prec(P \cup Items(q.chan), Items(q.buffer))
      /\ \A z \in P \cup Items(q.chan) \cup Items(q.buffer) : z.n <= a
      /\ \A z \in Items(q.buffer) : z.n \notin rec
  BY DEF Lined
<1>2. \A z \in P \cup Items(q.chan) \cup Items(q.buffer) : z.n \in Nat /\ z.n <= a /\ z.n < m.n
  <2>1. \A z \in P \cup Items(q.chan) \cup Items(q.buffer) : z.n \in Nat
    BY <1>0, RequestNumber
  <2> QED BY <1>1, <2>1
<1>3. ASSUME NEW t, t \in Seq(Requests), Items(t) \subseteq Items(q.buffer), Increasing(t),
             b.buffer = Append(t, m), b.chan = q.chan
      PROVE  Lined(b, P, a + 1, rec) /\ Items(b.buffer) = Items(t) \cup {m}
  <2>1. Prec(Items(t), {m}) BY <1>2, <1>3 DEF Prec
  <2>2. Increasing(b.buffer) BY <1>0, <1>3, <2>1, IncAppend
  <2>3. Items(b.buffer) = Items(t) \cup {m} BY <1>0, <1>3, ItemsAppend
  <2>4. Increasing(b.chan) /\ Items(b.chan) = Items(q.chan) BY <1>1, <1>3
  <2>5. Prec(P, Items(b.chan)) BY <1>1, <2>4
  <2>6. Prec(P \cup Items(b.chan), Items(b.buffer))
    BY <1>1, <1>2, <1>3, <2>3, <2>4 DEF Prec
  <2>7. \A z \in P \cup Items(b.chan) \cup Items(b.buffer) : z.n <= a + 1
    BY <1>2, <1>3, <2>3, <2>4
  <2>8. \A z \in Items(b.buffer) : z.n \notin rec BY <1>1, <1>3, <2>3
  <2> HIDE DEF b
  <2> QED BY <2>2, <2>3, <2>4, <2>5, <2>6, <2>7, <2>8 DEF Lined
<1>4. CASE Len(q.buffer) >= MaxBuffer /\ q.buffer # <<>>
  <2> DEFINE t == Tail(q.buffer)
             h == Head(q.buffer)
             g == {h}
  <2>1. t \in Seq(Requests) /\ h \in Requests BY <1>0, <1>4, HeadTailProperties
  <2>2. Items(q.buffer) = {h} \cup Items(t) /\ Increasing(t) /\ Prec({h}, Items(t))
    BY <1>0, <1>1, <1>4, ItemsTail
  <2>3. b = [buffer |-> Append(t, m), chan |-> q.chan, lost |-> q.lost \cup ({h.n} \ {0})]
    BY <1>4 DEF buffer_message
  <2> HIDE DEF b, t, h
  <2>4. b.buffer = Append(t, m) /\ b.chan = q.chan /\ b.lost = q.lost \cup ({h.n} \ {0}) BY <2>3
  <2>5. Lined(b, P, a + 1, rec) /\ Items(b.buffer) = Items(t) \cup {m}
    BY <1>3, <2>1, <2>2, <2>4
  <2>6. Nums(g) = {h.n} \ {0} BY Zenon DEF Nums
  <2>7. g \in SUBSET (Items(q.buffer) \cup {m}) BY <2>2
  <2>8. Items(b.chan) = Items(q.chan) BY <2>4
  <2>9. All(b) \cup g = All(q) \cup {m} BY <2>2, <2>5, <2>8 DEF All
  <2>10. b.lost = q.lost \cup Nums(g) BY <2>4, <2>6
  <2>11. Nums(g) \cap Nums(All(b)) = {}
    <3> SUFFICES ASSUME NEW y \in All(b), y.n = h.n, h.n # 0 PROVE FALSE
      BY <2>6, Zenon DEF Nums
    <3>1. y \in Items(q.chan) \/ y \in Items(t) \/ y = m BY <2>5, <2>8 DEF All
    <3>2. h \in Items(q.buffer) /\ h.n \in Nat /\ h.n < m.n BY <1>2, <2>2
    <3>3. CASE y \in Items(q.chan)
      <4>1. y.n < h.n BY <1>1, <3>2, <3>3 DEF Prec
      <4> QED BY <3>2, <4>1
    <3>4. CASE y \in Items(t)
      <4>1. h.n < y.n BY <2>2, <3>4 DEF Prec
      <4> QED BY <3>2, <4>1
    <3>5. CASE y = m BY <3>2, <3>5
    <3> QED BY <3>1, <3>3, <3>4, <3>5
  <2>12. Items(q.chan) \subseteq Items(b.chan) /\ Items(b.buffer) \subseteq Items(q.buffer) \cup {m}
    BY <2>2, <2>5, <2>8
  <2> HIDE DEF g
  <2>13. Change(q, b, {m}) BY <2>7, <2>9, <2>10, <2>11, <2>12, Zenon DEF Change
  <2> QED BY <2>5, <2>13 DEF b
<1>5. CASE ~(Len(q.buffer) >= MaxBuffer /\ q.buffer # <<>>)
  <2>1. b = [buffer |-> Append(q.buffer, m), chan |-> q.chan, lost |-> q.lost]
    BY <1>5 DEF buffer_message, QueueValues
  <2> HIDE DEF b
  <2>2. b.buffer = Append(q.buffer, m) /\ b.chan = q.chan /\ b.lost = q.lost BY <2>1
  <2>3. Lined(b, P, a + 1, rec) /\ Items(b.buffer) = Items(q.buffer) \cup {m}
    BY <1>0, <1>1, <1>3, <2>2
  <2>4. Moves(q, b, {m}) BY <2>2, <2>3 DEF All, Moves
  <2>5. Change(q, b, {m}) BY <2>4, MovesChange
  <2> QED BY <2>3, <2>5 DEF b
<1> QED BY <1>4, <1>5

\* enqueue, likewise.
LEMMA EnqueueKeeps ==
    ASSUME NEW q, WellFormed(q), NEW P, NEW a \in Nat, NEW rec, Lined(q, P, a, rec),
           P \subseteq Requests, NEW m \in Messages, m.n = a + 1, a + 1 \notin rec,
           NEW up \in BOOLEAN
    PROVE  Lined(enqueue(q, m, up), P, a + 1, rec) /\ Change(q, enqueue(q, m, up), {m})
<1> DEFINE b == buffer_message(q, m)
<1>1. q \in QueueValues BY DEF WellFormed
<1>2. Lined(b, P, a + 1, rec) /\ Change(q, b, {m}) BY <1>1, BufferKeeps
<1>3. WellFormed(b) BY Buffers
<1>4. b \in QueueValues /\ Len(b.chan) <= ChanCap BY <1>3 DEF WellFormed
<1>5. CASE ~up BY <1>2, <1>5 DEF enqueue
<1>6. CASE up
  <2> HIDE DEF b
  <2>1. Lined(drain_buffer(b), P, a + 1, rec) /\ Moves(b, drain_buffer(b), {})
    <3>1. a + 1 \in Nat OBVIOUS
    <3> QED BY <1>2, <1>4, <3>1, DrainKeeps
  <2>2. Change(b, drain_buffer(b), {}) BY <2>1, MovesChange
  <2>3. Nums({}) \cap Nums(All(q) \cup {m}) = {} BY DEF Nums
  <2>4. Change(q, drain_buffer(b), {m} \cup {}) BY <1>2, <2>2, <2>3, ChangeTrans
  <2>5. {m} \cup {} = {m} OBVIOUS
  <2>6. enqueue(q, m, up) = drain_buffer(b) BY <1>6 DEF enqueue, b
  <2> QED BY <2>1, <2>4, <2>5, <2>6, Zenon
<1> QED BY <1>5, <1>6

Online == Msg("online", 1, 0)

\* publish_online puts the announcement in front and, the channel being empty,
\* into the channel.
LEMMA AnnounceKeeps ==
    ASSUME NEW q, WellFormed(q), q.chan = <<>>, NEW P, NEW a \in Nat, NEW rec,
           Lined(q, P, a, rec), 0 \notin rec, HasWill
    PROVE  /\ Lined(publish_online(q), P, a, rec) /\ Moves(q, publish_online(q), {Online})
           /\ Online \in Items(publish_online(q).chan)
<1> DEFINE on == Online
           r == [q EXCEPT !.buffer = <<on>> \o @]
           d == drain_buffer(r)
<1>0. q \in QueueValues /\ q.buffer \in Seq(Messages) /\ q.chan \in Seq(Requests)
      /\ q.lost \in SUBSET Nat /\ Len(q.buffer) \in Nat
  BY LenProperties DEF WellFormed, QueueValues
<1>1. on \in Messages /\ on \in Requests /\ on.n = 0
  BY DEF Msg, Messages, Topics, Requests, Online
<1>2. q.buffer \in Seq(Requests) BY <1>0, MessagesAreRequests
<1> HIDE DEF on
<1>3. <<on>> \in Seq(Messages) /\ Len(<<on>>) = 1 /\ <<on>>[1] = on BY <1>1
<1>4. <<on>> \in Seq(Requests) BY <1>3, MessagesAreRequests
<1> DEFINE w == <<on>>
           x == w \o q.buffer
<1>5. Items(w) = {on} /\ Increasing(w)
  <2>1. 1..Len(w) = {1} BY <1>3
  <2>2. w[1] = on BY <1>3
  <2> HIDE DEF w
  <2>3. Items(w) = {on} BY <2>1, <2>2, Zenon DEF Items
  <2>4. Increasing(w) BY <2>1, <2>2, <1>1 DEF Increasing
  <2> QED BY <2>3, <2>4
<1> HIDE DEF w
<1>w. w \in Seq(Messages) /\ w \in Seq(Requests) /\ Len(w) = 1 /\ w[1] = on
  BY <1>3, <1>4 DEF w
<1>6. x \in Seq(Messages) /\ Len(x) = Len(q.buffer) + 1 /\ x[1] = on
  <2>0. Len(w \o q.buffer) = Len(w) + Len(q.buffer) /\ w \o q.buffer \in Seq(Messages)
        /\ \A i \in 1..Len(w) + Len(q.buffer) :
              (w \o q.buffer)[i] = IF i <= Len(w) THEN w[i] ELSE q.buffer[i - Len(w)]
    BY <1>0, <1>w, ConcatProperties
  <2>1. Len(w \o q.buffer) = 1 + Len(q.buffer) /\ w \o q.buffer \in Seq(Messages)
        /\ \A i \in 1..1 + Len(q.buffer) :
              (w \o q.buffer)[i] = IF i <= 1 THEN w[i] ELSE q.buffer[i - 1]
    BY <1>w, <2>0, Zenon
  <2>2. 1 \in 1..1 + Len(q.buffer) BY <1>0
  <2>3. x[1] = w[1] BY <2>1, <2>2
  <2> QED BY <1>0, <1>w, <2>1, <2>3
<1>7. Items(x) = {on} \cup Items(q.buffer)
  BY <1>2, <1>5, <1>w, ItemsConcat
<1>8. Increasing(x)
  <2>1. Prec(Items(w), Items(q.buffer)) BY <1>1, <1>5 DEF Prec
  <2> QED BY <1>2, <1>5, <1>w, <2>1, ItemsConcat DEF Lined
<1>9. r = [buffer |-> x, chan |-> q.chan, lost |-> q.lost]
  <2>1. r = [q EXCEPT !.buffer = x] BY DEF w
  <2> HIDE DEF x, r
  <2> QED BY <1>0, <2>1 DEF QueueValues
<1> HIDE DEF x, r
<1>10. r.buffer = x /\ r.chan = q.chan /\ r.lost = q.lost BY <1>9
<1>11. r \in QueueValues BY <1>0, <1>6, <1>9 DEF QueueValues
<1>12. Len(r.chan) = 0 /\ Len(r.chan) <= ChanCap
  <2>1. Len(<<>>) = 0 OBVIOUS
  <2>2. Len(r.chan) = 0 BY <1>10, <2>1, Zenon
  <2> QED BY <2>2, Capacities
<1>13. Lined(r, P, a, rec)
  <2>1. Increasing(r.chan) /\ Increasing(r.buffer) /\ Prec(P, Items(r.chan))
    BY <1>8, <1>10 DEF Lined
  <2>2. Prec(P \cup Items(r.chan), Items(r.buffer)) BY <1>1, <1>7, <1>10 DEF Lined, Prec
  <2>3. \A z \in P \cup Items(r.chan) \cup Items(r.buffer) : z.n <= a
    BY <1>1, <1>7, <1>10 DEF Lined
  <2>4. \A z \in Items(r.buffer) : z.n \notin rec BY <1>1, <1>7, <1>10 DEF Lined
  <2> QED BY <2>1, <2>2, <2>3, <2>4 DEF Lined
<1>14. Lined(d, P, a, rec) /\ Moves(r, d, {}) BY <1>11, <1>12, <1>13, DrainKeeps
<1>15. Moves(q, d, {on})
  <2>1. Items(r.chan) = Items(q.chan) /\ Items(r.buffer) = {on} \cup Items(q.buffer)
        /\ r.lost = q.lost
    BY <1>7, <1>10
  <2> HIDE DEF d
  <2>2. /\ Items(r.chan) \subseteq Items(d.chan) /\ Items(d.buffer) \subseteq Items(r.buffer) \cup {}
        /\ All(d) = All(r) \cup {} /\ d.lost = r.lost
    BY <1>14 DEF Moves
  <2>3. All(r) = All(q) \cup {on} BY <2>1 DEF All
  <2> QED BY <2>1, <2>2, <2>3 DEF Moves
<1>16. on \in Items(d.chan)
  <2> DEFINE f == Fits(r)
             y == SubSeq(r.buffer, 1, f)
  <2>1. f \in Nat /\ f <= Len(r.buffer) /\ (f = Len(r.buffer) \/ f = ChanCap - Len(r.chan))
    BY <1>11, <1>12, FitsBounds
  <2>2. Len(r.buffer) = Len(q.buffer) + 1 /\ r.buffer[1] = on BY <1>6, <1>10, Zenon
  <2>3. r.buffer \in Seq(Requests) /\ r.chan \in Seq(Requests) BY <1>11, AllTyped
  <2>4. f > 0 BY <1>0, <1>12, <2>1, <2>2, Capacities
  <2>5. on \in Items(y) /\ y \in Seq(Requests)
    <3>1. y \in Seq(Requests) /\ (f > 0 => r.buffer[1] \in Items(y))
      BY <2>1, <2>3, ItemsSplit
    <3> HIDE DEF y
    <3> QED BY <2>2, <2>4, <3>1
  <2>6. d.chan = r.chan \o y BY DEF drain_buffer
  <2> HIDE DEF y, d
  <2>7. Items(r.chan \o y) = Items(r.chan) \cup Items(y) BY <2>3, <2>5, ItemsConcat
  <2> QED BY <2>5, <2>6, <2>7
<1>17. publish_online(q) = d BY DEF publish_online, r, x, w, on, Online
<1> QED BY <1>14, <1>15, <1>16, <1>17 DEF on

\* A subscription joins the channel and has no number.
LEMMA SubscribeKeeps ==
    ASSUME NEW q \in QueueValues, NEW P, NEW a \in Nat, NEW rec, Lined(q, P, a, rec),
           NEW due \in BOOLEAN
    PROVE  /\ Lined(Subscribes(q, due), P, a, rec)
           /\ \E new \in SUBSET {Subscribe} : Moves(q, Subscribes(q, due), new)
<1> DEFINE r == Subscribes(q, due)
<1>1. CASE due /\ Len(q.chan) < ChanCap
  <2> DEFINE c == Append(q.chan, Subscribe)
  <2>1. Subscribe \in Requests /\ Subscribe.n = 0 BY DEF Requests, Subscribe, Msg
  <2>2. q.chan \in Seq(Requests) BY AllTyped
  <2>3. Items(c) = Items(q.chan) \cup {Subscribe} BY <2>1, <2>2, ItemsAppend
  <2>4. Prec(Items(q.chan), {Subscribe}) BY <2>1 DEF Prec
  <2>5. Increasing(c) BY <2>1, <2>2, <2>4, IncAppend DEF Lined
  <2>6. r = [buffer |-> q.buffer, chan |-> c, lost |-> q.lost]
    BY <1>1 DEF Subscribes, QueueValues
  <2> HIDE DEF c, r
  <2>7. r.buffer = q.buffer /\ r.chan = c /\ r.lost = q.lost BY <2>6
  <2>8. Lined(r, P, a, rec)
    <3>1. Increasing(r.chan) /\ Increasing(r.buffer) BY <2>5, <2>7 DEF Lined
    <3>2. Prec(P, Items(r.chan)) /\ Prec(P \cup Items(r.chan), Items(r.buffer))
      BY <2>1, <2>3, <2>7 DEF Lined, Prec
    <3>3. \A z \in P \cup Items(r.chan) \cup Items(r.buffer) : z.n <= a
      BY <2>1, <2>3, <2>7 DEF Lined
    <3>4. \A z \in Items(r.buffer) : z.n \notin rec BY <2>7 DEF Lined
    <3> QED BY <3>1, <3>2, <3>3, <3>4 DEF Lined
  <2>9. Moves(q, r, {Subscribe}) BY <2>3, <2>7 DEF Moves, All
  <2> QED BY <2>8, <2>9 DEF r
<1>2. CASE ~(due /\ Len(q.chan) < ChanCap)
  <2>1. r = q BY <1>2 DEF Subscribes
  <2>2. Moves(q, q, {}) BY DEF Moves
  <2> QED BY <2>1, <2>2
<1> QED BY <1>1, <1>2
------------------------------------------------------------------------------
(***************************************************************************)
(* The line in a state, and what the handlers make of it.                  *)
(***************************************************************************)
Held == Items(inflight) \cup Items(pending)

\* The whole line is in order, and what the broker has processed it has.
LineInv ==
    /\ Lined(Queues, Held, accepted, received)
    /\ received \subseteq 1..accepted
    /\ Increasing(inflight) /\ Increasing(pending) /\ Prec(Items(inflight), Items(pending))
    /\ \A i \in 1..got : inflight[i].n \in received \cup {0}

\* A handler has queued the requests new.
Accepts(new) ==
    /\ Lined(Queues', Held, accepted', received)
    /\ Change(Queues, Queues', new)
    /\ new \subseteq Requests /\ Nums(new) = accepted + 1..accepted'
    /\ accepted' \in Nat /\ accepted' >= accepted

\* For a retained topic, nothing new, or one message, which is the last.
News(new) ==
    /\ \A t \in Tracked :
          \/ last'[t] = last[t] /\ \A x \in new : x.topic # t
          \/ \E x \in new : /\ x.topic = t /\ x.n = last'[t].n /\ x.v = last'[t].v /\ x.n # 0
                            /\ \A y \in new : y.topic = t => y = x
    /\ \A x \in new : x.topic = "online" => x = Online

\* The queues of the next state are those that were set.
LEMMA QueuesSet == ASSUME NEW r \in QueueValues, SetQueues(r) PROVE Queues' = r
<1>1. Queues' = [buffer |-> buffer', chan |-> chan', lost |-> lost'] BY DEF Queues
<1>2. Queues' = [buffer |-> r.buffer, chan |-> r.chan, lost |-> r.lost]
  BY <1>1, Zenon DEF SetQueues
<1> QED BY <1>2 DEF QueueValues

\* A number above all others is not among them.
LEMMA NumberIsNew ==
    ASSUME NEW S, S \subseteq Requests, NEW b \in Nat, \A x \in S : x.n <= b, NEW m, m.n > b
    PROVE  Nums({m}) \cap Nums(S) = {}
<1> SUFFICES ASSUME NEW x \in S, x.n = m.n PROVE FALSE BY Zenon DEF Nums
<1>1. x.n \in Nat /\ x.n <= b BY RequestNumber
<1> QED BY <1>1

\* What the client holds and what is queued are requests, up to the last number.
LEMMA LineTyped ==
    ASSUME IInv, LineInv
    PROVE  /\ Held \subseteq Requests /\ All(Queues) \subseteq Requests /\ accepted \in Nat
           /\ Queues \in QueueValues /\ inflight \in Seq(Requests) /\ pending \in Seq(Requests)
           /\ Items(inflight) \subseteq Requests /\ Items(pending) \subseteq Requests
           /\ \A x \in Held \cup All(Queues) : x.n \in Nat /\ x.n <= accepted
<1>1. inflight \in Seq(Messages) /\ pending \in Seq(Requests) /\ accepted \in Nat
  BY DEF IInv, TypeOK
<1>2. inflight \in Seq(Requests) BY <1>1, MessagesAreRequests
<1>3. Items(inflight) \subseteq Requests /\ Items(pending) \subseteq Requests
  BY <1>1, <1>2, ItemsType
<1>4. Held \subseteq Requests BY <1>3 DEF Held
<1>5. Queues \in QueueValues BY QueuesWell DEF WellFormed
<1>6. All(Queues) \subseteq Requests BY <1>5, AllTyped
<1>7. \A x \in Held \cup All(Queues) : x.n \in Nat BY <1>4, <1>6, RequestNumber
<1>8. \A x \in Held \cup All(Queues) : x.n <= accepted BY DEF LineInv, Lined, All
<1> QED BY <1>1, <1>2, <1>3, <1>4, <1>5, <1>6, <1>7, <1>8

\* Publishes queues one to three messages, numbered in their order.
LEMMA PublishesAccepts ==
    ASSUME IInv, LineInv, NEW topic \in {"message", "status"}, NEW v \in Nat,
           NEW more \in Continuations, NEW up \in BOOLEAN, Publishes(topic, v, more, up)
    PROVE  \E new : Accepts(new) /\ News(new)
<1> DEFINE More(i) == Msg(more[i], IF more[i] = "state" THEN snapshot + 1 ELSE 0, accepted + 1 + i)
           m1 == Msg(topic, v, accepted + 1)
           m2 == More(1)
           m3 == More(2)
           q1 == enqueue(Queues, m1, up)
           q2 == enqueue(q1, m2, up)
           q3 == enqueue(q2, m3, up)
           folds == \E i \in 1..Len(more) : more[i] = "state"
           a == accepted
<1>0. a \in Nat /\ snapshot \in Nat /\ Held \subseteq Requests /\ WellFormed(Queues)
      /\ All(Queues) \subseteq Requests /\ (\A x \in All(Queues) : x.n <= a)
      /\ Lined(Queues, Held, a, received) /\ received \subseteq 1..a
  BY LineTyped, QueuesWell DEF IInv, TypeOK, LineInv
<1>1. /\ snapshot' = (IF folds THEN snapshot + 1 ELSE snapshot)
      /\ accepted' = accepted + 1 + Len(more)
      /\ last' = [t \in Tracked |->
                     IF t = topic THEN [n |-> accepted + 1, v |-> v]
                     ELSE IF t = "state" /\ folds THEN [n |-> accepted', v |-> snapshot']
                     ELSE last[t]]
      /\ SetQueues(CASE Len(more) = 0 -> q1 [] Len(more) = 1 -> q2 [] OTHER -> q3)
  BY Zenon DEF Publishes
<1>2. a + 1 \notin received /\ a + 2 \notin received /\ a + 3 \notin received BY <1>0
<1>3. m1 \in Messages /\ m1.n = a + 1 /\ m1.topic = topic /\ m1.v = v
  BY <1>0 DEF Msg, Messages, Topics
<1>4. more = <<>> \/ more = <<"state">> \/ more = <<"message">> \/ more = <<"message", "state">>
  BY Zenon DEF Continuations
<1>5. ASSUME more # <<>>
      PROVE  /\ m2 \in Messages /\ m2.n = a + 2 /\ m2.topic = more[1]
             /\ m2.v = (IF more[1] = "state" THEN snapshot + 1 ELSE 0)
             /\ more[1] \in {"message", "state"}
  <2>1. more[1] \in {"message", "state"} BY <1>4, <1>5
  <2> DEFINE w == IF more[1] = "state" THEN snapshot + 1 ELSE 0
  <2>2. m2 = [topic |-> more[1], v |-> w, n |-> a + 1 + 1] BY DEF Msg
  <2>3. w \in Nat /\ a + 1 + 1 = a + 2 /\ a + 2 \in Nat BY <1>0
  <2>4. m2 = [topic |-> more[1], v |-> w, n |-> a + 2] BY <2>2, <2>3, Zenon
  <2> HIDE DEF w, m2
  <2>5. m2 \in Messages /\ m2.n = a + 2 /\ m2.topic = more[1] /\ m2.v = w
    BY <2>1, <2>3, <2>4 DEF Messages, Topics
  <2> QED BY <2>1, <2>5 DEF w
<1>6. ASSUME more = <<"message", "state">>
      PROVE  m3 \in Messages /\ m3.n = a + 3 /\ m3.topic = "state" /\ m3.v = snapshot + 1
  <2>1. more[2] = "state" BY <1>6
  <2>2. m3 = [topic |-> "state", v |-> snapshot + 1, n |-> a + 1 + 2] BY <2>1, Zenon DEF Msg
  <2>3. snapshot + 1 \in Nat /\ a + 1 + 2 = a + 3 /\ a + 3 \in Nat BY <1>0
  <2>4. m3 = [topic |-> "state", v |-> snapshot + 1, n |-> a + 3] BY <2>2, <2>3, Zenon
  <2> HIDE DEF m3
  <2> QED BY <2>3, <2>4 DEF Messages, Topics
<1> HIDE DEF m1, m2, m3, More
<1>7. WellFormed(q1) /\ Lined(q1, Held, a + 1, received) /\ Change(Queues, q1, {m1})
  BY <1>0, <1>2, <1>3, Enqueues, EnqueueKeeps
<1> HIDE DEF q1
<1>8. ASSUME more # <<>>
      PROVE  WellFormed(q2) /\ Lined(q2, Held, a + 2, received) /\ Change(Queues, q2, {m1, m2})
  <2>1. a + 1 \in Nat /\ (a + 1) + 1 = a + 2 BY <1>0
  <2>2. WellFormed(q2) BY <1>5, <1>7, <1>8, Enqueues
  <2>3. Lined(q2, Held, (a + 1) + 1, received) /\ Change(q1, q2, {m2})
    BY <1>0, <1>2, <1>5, <1>7, <1>8, <2>1, EnqueueKeeps
  <2>4. Nums({m2}) \cap Nums(All(Queues) \cup {m1}) = {}
    <3>1. All(Queues) \cup {m1} \subseteq Requests BY <1>0, <1>3 DEF Requests
    <3>2. \A x \in All(Queues) \cup {m1} : x.n <= a + 1
      <4>1. \A x \in All(Queues) : x.n \in Nat BY <1>0, RequestNumber
      <4> QED BY <1>0, <1>3, <4>1
    <3>3. m2.n > a + 1 BY <1>0, <1>5, <1>8
    <3> QED BY <2>1, <3>1, <3>2, <3>3, NumberIsNew
  <2>5. Change(Queues, q2, {m1} \cup {m2}) BY <1>7, <2>3, <2>4, ChangeTrans
  <2>6. {m1} \cup {m2} = {m1, m2} OBVIOUS
  <2> QED BY <2>1, <2>2, <2>3, <2>5, <2>6, Zenon
<1> HIDE DEF q2
<1>9. ASSUME more = <<"message", "state">>
      PROVE  WellFormed(q3) /\ Lined(q3, Held, a + 3, received)
             /\ Change(Queues, q3, {m1, m2, m3})
  <2>0. more # <<>> BY <1>9
  <2>1. a + 2 \in Nat /\ (a + 2) + 1 = a + 3 BY <1>0
  <2>2. WellFormed(q3) BY <1>6, <1>8, <1>9, <2>0, Enqueues
  <2>3. Lined(q3, Held, (a + 2) + 1, received) /\ Change(q2, q3, {m3})
    BY <1>0, <1>2, <1>6, <1>8, <1>9, <2>0, <2>1, EnqueueKeeps
  <2>4. Nums({m3}) \cap Nums(All(Queues) \cup {m1, m2}) = {}
    <3>1. All(Queues) \cup {m1, m2} \subseteq Requests BY <1>0, <1>3, <1>5, <2>0 DEF Requests
    <3>2. \A x \in All(Queues) \cup {m1, m2} : x.n <= a + 2
      <4>1. \A x \in All(Queues) : x.n \in Nat BY <1>0, RequestNumber
      <4> QED BY <1>0, <1>3, <1>5, <2>0, <4>1
    <3>3. m3.n > a + 2 BY <1>0, <1>6, <1>9
    <3> QED BY <2>1, <3>1, <3>2, <3>3, NumberIsNew
  <2>5. Change(Queues, q3, {m1, m2} \cup {m3}) BY <1>8, <2>0, <2>3, <2>4, ChangeTrans
  <2>6. {m1, m2} \cup {m3} = {m1, m2, m3} OBVIOUS
  <2> QED BY <2>1, <2>2, <2>3, <2>5, <2>6, Zenon
<1> HIDE DEF q3
<1>l. Len(<<>>) = 0 /\ Len(<<"state">>) = 1 /\ Len(<<"message">>) = 1
      /\ Len(<<"message", "state">>) = 2
  OBVIOUS
<1>10. /\ "state" \in Tracked /\ "status" \in Tracked /\ "message" \notin Tracked
       /\ \A t \in Tracked : t = "state" \/ t = "status"
  BY DEF Tracked
<1>11. CASE more = <<>>
  <2> DEFINE new == {m1}
  <2>1. ~folds BY <1>l, <1>11
  <2>2. SetQueues(q1) /\ accepted' = a + 1 BY <1>0, <1>1, <1>11, <1>l
  <2>3. Queues' = q1 BY <1>7, <2>2, QueuesSet DEF WellFormed
  <2>4. Nums(new) = {a + 1} BY <1>0, <1>3 DEF Nums
  <2>5. Accepts(new)
    <3>1. {a + 1} = a + 1..a + 1 /\ a + 1 \in Nat /\ a + 1 >= a BY <1>0
    <3>2. new \subseteq Requests BY <1>3 DEF Requests
    <3> QED BY <1>7, <2>2, <2>3, <2>4, <3>1, <3>2, Zenon DEF Accepts
  <2>6. \A t \in Tracked : last'[t] = IF t = topic THEN [n |-> a + 1, v |-> v] ELSE last[t]
    <3> HIDE DEF folds
    <3> QED BY <1>1, <2>1
  <2>7. m1.n # 0 BY <1>0, <1>3
  <2>8. News(new) BY <1>3, <2>6, <2>7, <1>10 DEF News
  <2> QED BY <2>5, <2>8
<1>12. CASE more = <<"state">> \/ more = <<"message">>
  <2> DEFINE new == {m1, m2}
  <2>1. more # <<>> /\ Len(more) = 1 BY <1>12, <1>l
  <2>2. SetQueues(q2) /\ accepted' = a + 2 BY <1>0, <1>1, <2>1
  <2>3. Queues' = q2 BY <1>8, <2>1, <2>2, QueuesSet DEF WellFormed
  <2>4. Nums(new) = {a + 1, a + 2} BY <1>0, <1>3, <1>5, <2>1 DEF Nums
  <2>5. Accepts(new)
    <3>1. {a + 1, a + 2} = a + 1..a + 2 /\ a + 2 \in Nat /\ a + 2 >= a BY <1>0
    <3>2. new \subseteq Requests BY <1>3, <1>5, <2>1 DEF Requests
    <3> QED BY <1>8, <2>1, <2>2, <2>3, <2>4, <3>1, <3>2, Zenon DEF Accepts
  <2>6. folds <=> more[1] = "state"
    <3>1. 1..Len(more) = {1} BY <2>1
    <3> QED BY <3>1, Zenon
  <2>7. ASSUME NEW t \in Tracked
        PROVE  last'[t] = IF t = topic THEN [n |-> a + 1, v |-> v]
                          ELSE IF t = "state" /\ more[1] = "state"
                               THEN [n |-> a + 2, v |-> snapshot + 1] ELSE last[t]
    <3> HIDE DEF folds
    <3> QED BY <1>1, <2>2, <2>6
  <2>8. topic # "state" /\ m2.topic = more[1] /\ m2.n = a + 2
        /\ (more[1] = "state" => m2.v = snapshot + 1) /\ more[1] \in {"message", "state"}
    BY <1>5, <2>1
  <2>9. ASSUME NEW t \in Tracked
        PROVE  \/ last'[t] = last[t] /\ \A x \in new : x.topic # t
               \/ \E x \in new : /\ x.topic = t /\ x.n = last'[t].n /\ x.v = last'[t].v /\ x.n # 0
                                 /\ \A y \in new : y.topic = t => y = x
    <3>1. CASE t = topic
      <4>1. last'[t] = [n |-> a + 1, v |-> v] BY <2>7, <3>1
      <4>2. m2.topic # t BY <1>10, <2>8, <3>1
      <4>3. m1.n = last'[t].n /\ m1.v = last'[t].v /\ m1.topic = t /\ m1.n # 0 BY <1>0, <1>3, <3>1, <4>1
      <4>4. \A y \in new : y.topic = t => y = m1 BY <4>2
      <4> QED BY <4>3, <4>4, Zenon
    <3>2. CASE t # topic /\ t = "state" /\ more[1] = "state"
      <4>1. last'[t] = [n |-> a + 2, v |-> snapshot + 1] BY <2>7, <3>2
      <4>2. m1.topic # t BY <1>3, <3>2
      <4>3. m2.n = last'[t].n /\ m2.v = last'[t].v /\ m2.topic = t /\ m2.n # 0 BY <1>0, <2>8, <3>2, <4>1
      <4>4. \A y \in new : y.topic = t => y = m2 BY <4>2
      <4> QED BY <4>3, <4>4, Zenon
    <3>3. CASE t # topic /\ ~(t = "state" /\ more[1] = "state")
      <4>1. last'[t] = last[t] BY <2>7, <3>3
      <4>2. m1.topic # t /\ m2.topic # t BY <1>3, <1>10, <2>8, <3>3
      <4> QED BY <4>1, <4>2
    <3> QED BY <3>1, <3>2, <3>3
  <2>10. \A x \in new : x.topic # "online" BY <1>3, <2>8
  <2>11. News(new)
    <3> HIDE DEF new
    <3> QED BY <2>9, <2>10, Zenon DEF News
  <2> QED BY <2>5, <2>11
<1>13. CASE more = <<"message", "state">>
  <2> DEFINE new == {m1, m2, m3}
  <2>1. more # <<>> /\ Len(more) = 2 /\ more[1] = "message" /\ more[2] = "state" BY <1>13, <1>l
  <2>2. SetQueues(q3) /\ accepted' = a + 3 BY <1>0, <1>1, <2>1
  <2>3. Queues' = q3 BY <1>9, <1>13, <2>2, QueuesSet DEF WellFormed
  <2>4. Nums(new) = {a + 1, a + 2, a + 3} BY <1>0, <1>3, <1>5, <1>6, <1>13, <2>1 DEF Nums
  <2>5. Accepts(new)
    <3>1. {a + 1, a + 2, a + 3} = a + 1..a + 3 /\ a + 3 \in Nat /\ a + 3 >= a BY <1>0
    <3>2. new \subseteq Requests BY <1>3, <1>5, <1>6, <1>13, <2>1 DEF Requests
    <3> QED BY <1>9, <1>13, <2>2, <2>3, <2>4, <3>1, <3>2, Zenon DEF Accepts
  <2>6. folds
    <3>1. 2 \in 1..Len(more) BY <2>1
    <3> QED BY <2>1, <3>1, Zenon
  <2>7. ASSUME NEW t \in Tracked
        PROVE  last'[t] = IF t = topic THEN [n |-> a + 1, v |-> v]
                          ELSE IF t = "state" THEN [n |-> a + 3, v |-> snapshot + 1] ELSE last[t]
    <3> HIDE DEF folds
    <3> QED BY <1>1, <2>2, <2>6
  <2>8. topic # "state" /\ m2.topic = "message" /\ m3.topic = "state" /\ m3.n = a + 3
        /\ m3.v = snapshot + 1
    BY <1>5, <1>6, <1>13, <2>1
  <2>9. ASSUME NEW t \in Tracked
        PROVE  \/ last'[t] = last[t] /\ \A x \in new : x.topic # t
               \/ \E x \in new : /\ x.topic = t /\ x.n = last'[t].n /\ x.v = last'[t].v /\ x.n # 0
                                 /\ \A y \in new : y.topic = t => y = x
    <3>1. CASE t = topic
      <4>1. last'[t] = [n |-> a + 1, v |-> v] BY <2>7, <3>1
      <4>2. m2.topic # t /\ m3.topic # t BY <1>10, <2>8, <3>1
      <4>3. m1.n = last'[t].n /\ m1.v = last'[t].v /\ m1.topic = t /\ m1.n # 0 BY <1>0, <1>3, <3>1, <4>1
      <4>4. \A y \in new : y.topic = t => y = m1 BY <4>2
      <4> QED BY <4>3, <4>4, Zenon
    <3>2. CASE t # topic /\ t = "state"
      <4>1. last'[t] = [n |-> a + 3, v |-> snapshot + 1] BY <2>7, <3>2
      <4>2. m1.topic # t /\ m2.topic # t BY <1>3, <2>8, <3>2
      <4>3. m3.n = last'[t].n /\ m3.v = last'[t].v /\ m3.topic = t /\ m3.n # 0 BY <1>0, <2>8, <3>2, <4>1
      <4>4. \A y \in new : y.topic = t => y = m3 BY <4>2
      <4> QED BY <4>3, <4>4, Zenon
    <3>3. CASE t # topic /\ t # "state"
      <4>1. last'[t] = last[t] BY <2>7, <3>3
      <4>2. m1.topic # t /\ m2.topic # t /\ m3.topic # t BY <1>3, <1>10, <2>8, <3>3
      <4> QED BY <4>1, <4>2
    <3> QED BY <3>1, <3>2, <3>3
  <2>10. \A x \in new : x.topic # "online" BY <1>3, <2>8
  <2>11. News(new)
    <3> HIDE DEF new
    <3> QED BY <2>9, <2>10, Zenon DEF News
  <2> QED BY <2>5, <2>11
<1> QED BY <1>4, <1>11, <1>12, <1>13

\* on_connack queues the announcement, the snapshot and the subscriptions; the
\* announcement goes straight to the channel.
LEMMA ConnAckAccepts ==
    ASSUME IInv, LineInv, ConnAck
    PROVE  \E new : Accepts(new) /\ News(new) /\ (HasWill => Online \in Items(chan'))
<1> DEFINE q0 == publish_online(Queues)
           q1 == drain_buffer(q0)
           m == Msg("state", snapshot, accepted + 1)
           q2 == IF HasSnapshot THEN enqueue(q1, m, TRUE) ELSE q1
           q3 == Subscribes(q2, DueOnConnect)
           a == accepted
           N0 == IF HasWill THEN {Online} ELSE {}
           N2 == IF HasSnapshot THEN {m} ELSE {}
<1>0. a \in Nat /\ snapshot \in Nat /\ Held \subseteq Requests /\ WellFormed(Queues)
      /\ All(Queues) \subseteq Requests /\ (\A x \in All(Queues) : x.n <= a)
      /\ Lined(Queues, Held, a, received) /\ received \subseteq 1..a
  BY LineTyped, QueuesWell DEF IInv, TypeOK, LineInv
<1>1. /\ SetQueues(q3)
      /\ accepted' = (IF HasSnapshot THEN accepted + 1 ELSE accepted)
      /\ last' = IF HasSnapshot THEN [last EXCEPT !["state"] = [n |-> accepted + 1, v |-> snapshot]]
                                ELSE last
  BY Zenon DEF ConnAck, on_connack
<1>2. Queues.chan = <<>>
  <2>1. ~net BY DEF ConnAck
  <2>2. chan = <<>> BY <2>1 DEF IInv, BufferBounded
  <2> QED BY <2>2, QueuesWell
<1>3. a + 1 \notin received /\ 0 \notin received BY <1>0
<1>4. m \in Messages /\ m.n = a + 1 /\ m.topic = "state" /\ m.v = snapshot
  BY <1>0 DEF Msg, Messages, Topics
<1>5. WellFormed(q0) BY <1>0, <1>2, Announces
<1>6. Lined(q0, Held, a, received) /\ Moves(Queues, q0, N0) /\ (HasWill => Online \in Items(q0.chan))
  <2>1. CASE HasWill BY <1>0, <1>2, <1>3, <2>1, AnnounceKeeps
  <2>2. CASE ~HasWill
    <3>1. q0 = Queues BY <2>2 DEF publish_online
    <3>2. Moves(Queues, Queues, {}) BY DEF Moves
    <3> QED BY <1>0, <2>2, <3>1, <3>2
  <2> QED BY <2>1, <2>2, PublisherAssumption DEF PublisherAssumption
<1> HIDE DEF m, q0
<1>7. WellFormed(q1) /\ Lined(q1, Held, a, received) /\ Moves(q0, q1, {})
  BY <1>0, <1>5, <1>6, DrainsWell, DrainKeeps DEF WellFormed
<1>8. Online.n = 0 /\ Online.topic = "online" /\ Subscribe.n = 0 /\ Subscribe.topic = "subscribe"
      /\ Online \in Requests /\ Subscribe \in Requests
  BY DEF Online, Subscribe, Msg, Requests, Messages, Topics
<1>9. Nums({}) = {} /\ Nums(N0) = {} BY <1>8 DEF Nums
<1>10. Change(Queues, q1, N0)
  <2>1. Change(Queues, q0, N0) /\ Change(q0, q1, {})
    <3> HIDE DEF N0, q1
    <3> QED BY <1>6, <1>7, MovesChange
  <2>2. Nums({}) \cap Nums(All(Queues) \cup N0) = {} BY <1>9
  <2> HIDE DEF N0, q1
  <2>3. Change(Queues, q1, N0 \cup {}) BY <2>1, <2>2, ChangeTrans
  <2>4. N0 \cup {} = N0 OBVIOUS
  <2> QED BY <2>3, <2>4, Zenon
<1> HIDE DEF q1
<1>11. WellFormed(q2) /\ Lined(q2, Held, accepted', received) /\ Change(q1, q2, N2)
  <2>1. CASE HasSnapshot BY <1>0, <1>1, <1>3, <1>4, <1>7, <2>1, Enqueues, EnqueueKeeps
  <2>2. CASE ~HasSnapshot
    <3>1. q2 = q1 /\ N2 = {} /\ accepted' = a BY <1>1, <2>2
    <3>2. Moves(q1, q1, {}) BY DEF Moves
    <3>3. Change(q1, q1, {}) BY <3>2, MovesChange
    <3> QED BY <1>7, <3>1, <3>3, Zenon
  <2> QED BY <2>1, <2>2
<1>12. Nums(N2) = a + 1..accepted' /\ accepted' \in Nat /\ accepted' >= a
       /\ Nums(N2) \cap Nums(All(Queues) \cup N0) = {}
  <2>1. CASE HasSnapshot
    <3>1. accepted' = a + 1 /\ N2 = {m} BY <1>1, <2>1
    <3>2. Nums({m}) = {a + 1} BY <1>0, <1>4 DEF Nums
    <3>3. {a + 1} = a + 1..a + 1 BY <1>0
    <3>4. Nums({m}) \cap Nums(All(Queues) \cup N0) = {}
      <4>1. All(Queues) \cup N0 \subseteq Requests BY <1>0, <1>8
      <4>2. \A x \in All(Queues) \cup N0 : x.n <= a BY <1>0, <1>8
      <4>3. m.n > a BY <1>0, <1>4
      <4> HIDE DEF N0
      <4> QED BY <1>0, <4>1, <4>2, <4>3, NumberIsNew
    <3>5. a + 1 \in Nat /\ a + 1 >= a BY <1>0
    <3> HIDE DEF N0
    <3> QED BY <3>1, <3>2, <3>3, <3>4, <3>5, Zenon
  <2>2. CASE ~HasSnapshot
    <3>1. accepted' = a /\ N2 = {} BY <1>1, <2>2
    <3>2. {} = a + 1..a /\ a >= a BY <1>0
    <3>3. {} \cap Nums(All(Queues) \cup N0) = {} OBVIOUS
    <3> HIDE DEF N0
    <3> QED BY <1>0, <1>9, <3>1, <3>2, <3>3, Zenon
  <2> QED BY <2>1, <2>2
<1>n. N0 \subseteq {Online} /\ N2 \subseteq {m} /\ (~HasSnapshot => N2 = {})
      /\ (HasSnapshot => m \in N2)
  OBVIOUS
<1> HIDE DEF N0, N2, q2
<1>13. Change(Queues, q2, N0 \cup N2) BY <1>10, <1>11, <1>12, ChangeTrans
<1>14. PICK sub \in SUBSET {Subscribe} : Moves(q2, q3, sub) /\ Lined(q3, Held, accepted', received)
  <2>1. q2 \in QueueValues /\ DueOnConnect \in BOOLEAN
    BY <1>11, PublisherAssumption, Zenon DEF PublisherAssumption, DueOnConnect, WellFormed
  <2> QED BY <1>11, <1>12, <2>1, SubscribeKeeps
<1>15. Nums(sub) = {} BY <1>8 DEF Nums
<1> DEFINE new == N0 \cup N2 \cup sub
<1>16. Change(Queues, q3, new)
  <2>1. Change(q2, q3, sub) BY <1>14, MovesChange
  <2>2. Nums(sub) \cap Nums(All(Queues) \cup (N0 \cup N2)) = {} BY <1>15
  <2> QED BY <1>13, <2>1, <2>2, ChangeTrans
<1>17. Queues' = q3
  <2>1. q3 \in QueueValues
    <3>1. DueOnConnect \in BOOLEAN
      BY PublisherAssumption, Zenon DEF PublisherAssumption, DueOnConnect
    <3> QED BY <1>11, <3>1, SubscriptionFits DEF WellFormed
  <2> QED BY <1>1, <2>1, QueuesSet
<1>18. Nums(new) = a + 1..accepted'
  <2>1. Nums(new) = Nums(N0) \cup Nums(N2) \cup Nums(sub) BY Zenon DEF Nums
  <2> QED BY <1>9, <1>12, <1>15, <2>1
<1>19. new \subseteq Requests BY <1>4, <1>8, <1>n DEF Requests
<1>20. Accepts(new)
  <2> HIDE DEF q3, new
  <2> QED BY <1>12, <1>14, <1>16, <1>17, <1>18, <1>19, Zenon DEF Accepts
<1>21. News(new)
  <2>1. \A x \in new : x = Online \/ x = m \/ x = Subscribe BY <1>n
  <2>2. ASSUME NEW t \in Tracked
        PROVE  \/ last'[t] = last[t] /\ \A x \in new : x.topic # t
               \/ \E x \in new : /\ x.topic = t /\ x.n = last'[t].n /\ x.v = last'[t].v /\ x.n # 0
                                 /\ \A y \in new : y.topic = t => y = x
    <3>0. t = "state" \/ t = "status" BY DEF Tracked
    <3>l. last \in [Tracked -> [n : Nat, v : Nat]] BY DEF IInv, TypeOK
    <3>1. CASE t = "state" /\ HasSnapshot
      <4>1. last'[t] = [n |-> a + 1, v |-> snapshot] BY <1>1, <3>1, <3>l
      <4>2. m \in new BY <1>n, <3>1
      <4>3. m.n = last'[t].n /\ m.v = last'[t].v /\ m.topic = t /\ m.n # 0 BY <1>0, <1>4, <3>1, <4>1
      <4>4. \A y \in new : y.topic = t => y = m BY <1>8, <2>1, <3>1
      <4> HIDE DEF new
      <4> QED BY <4>2, <4>3, <4>4, Zenon
    <3>2. CASE t = "state" /\ ~HasSnapshot
      <4>1. last'[t] = last[t] BY <1>1, <3>2
      <4>2. \A x \in new : x.topic # t BY <1>8, <1>n, <3>2
      <4> QED BY <4>1, <4>2
    <3>3. CASE t = "status"
      <4>1. last'[t] = last[t] BY <1>1, <3>3, <3>l
      <4>2. \A x \in new : x.topic # t BY <1>4, <1>8, <2>1, <3>3
      <4> QED BY <4>1, <4>2
    <3> QED BY <3>0, <3>1, <3>2, <3>3
  <2>3. \A x \in new : x.topic = "online" => x = Online BY <1>4, <1>8, <2>1
  <2> HIDE DEF new
  <2> QED BY <2>2, <2>3, Zenon DEF News
<1>22. HasWill => Online \in Items(chan')
  <2>1. chan' = q3.chan BY <1>1 DEF SetQueues
  <2>2. Items(q0.chan) \subseteq Items(q1.chan) /\ Items(q1.chan) \subseteq Items(q2.chan)
        /\ Items(q2.chan) \subseteq Items(q3.chan)
    BY <1>7, <1>11, <1>14, Zenon DEF Moves, Change
  <2> QED BY <1>6, <2>1, <2>2
<1> QED BY <1>20, <1>21, <1>22

\* A tick moves the line on and at most adds a subscription.
LEMMA TickMoves ==
    ASSUME NEW q, WellFormed(q), NEW P, NEW a \in Nat, NEW rec, Lined(q, P, a, rec),
           toSubscribe \in BOOLEAN, Tick(q)
    PROVE  /\ Lined(Queues', P, a, rec)
           /\ \E new \in SUBSET {Subscribe} : Moves(q, Queues', new)
<1> DEFINE s == Subscribes(q, toSubscribe)
           d == drain_buffer(s)
<1>1. q \in QueueValues BY DEF WellFormed
<1>2. PICK new \in SUBSET {Subscribe} : Moves(q, s, new) /\ Lined(s, P, a, rec)
  BY <1>1, SubscribeKeeps
<1>3. WellFormed(s) BY SubscriptionFits
<1> HIDE DEF s
<1>4. s \in QueueValues /\ Len(s.chan) <= ChanCap BY <1>3 DEF WellFormed
<1>5. Lined(d, P, a, rec) /\ Moves(s, d, {}) BY <1>2, <1>4, DrainKeeps
<1>6. d \in QueueValues BY <1>3, DrainsWell DEF WellFormed
<1>7. SetQueues(d) BY DEF Tick, s
<1> HIDE DEF d
<1>8. Queues' = d BY <1>6, <1>7, QueuesSet
<1>9. Moves(q, d, new)
  <2>1. Items(q.chan) \subseteq Items(s.chan) /\ Items(s.buffer) \subseteq Items(q.buffer) \cup new
        /\ All(s) = All(q) \cup new /\ s.lost = q.lost
    BY <1>2, Zenon DEF Moves
  <2>2. Items(s.chan) \subseteq Items(d.chan) /\ Items(d.buffer) \subseteq Items(s.buffer) \cup {}
        /\ All(d) = All(s) \cup {} /\ d.lost = s.lost
    BY <1>5, Zenon DEF Moves
  <2>3. All(d) = All(q) \cup new BY <2>1, <2>2
  <2>4. Items(q.chan) \subseteq Items(d.chan) /\ Items(d.buffer) \subseteq Items(q.buffer) \cup new
    BY <2>1, <2>2
  <2>5. d.lost = q.lost BY <2>1, <2>2
  <2> QED BY <2>3, <2>4, <2>5 DEF Moves
<1> QED BY <1>5, <1>8, <1>9, Zenon

\* What is in a sequence beyond its first g entries.
Suffix(s, g) == {s[i] : i \in g + 1..Len(s)}

\* What is beyond the first entries is in the sequence; the rest is in front.
LEMMA SuffixItems ==
    ASSUME NEW s \in Seq(Requests), NEW g \in Nat
    PROVE  /\ Suffix(s, g) \subseteq Items(s)
           /\ \A x \in Items(s) : x \in Suffix(s, g) \/ \E i \in 1..Len(s) : i <= g /\ x = s[i]
<1>1. Len(s) \in Nat BY LenProperties
<1>2. \A i \in g + 1..Len(s) : i \in 1..Len(s) BY <1>1
<1>3. Suffix(s, g) \subseteq Items(s) BY <1>2, Zenon DEF Suffix, Items
<1>4. ASSUME NEW x \in Items(s)
      PROVE  x \in Suffix(s, g) \/ \E i \in 1..Len(s) : i <= g /\ x = s[i]
  <2>1. PICK i \in 1..Len(s) : x = s[i] BY DEF Items
  <2>2. CASE i <= g BY <2>1, <2>2
  <2>3. CASE ~(i <= g)
    <3>1. i \in g + 1..Len(s) BY <1>1, <2>1, <2>3
    <3> QED BY <2>1, <3>1, Zenon DEF Suffix
  <2> QED BY <2>2, <2>3
<1> QED BY <1>3, <1>4

\* A request that comes last lies beyond.
LEMMA SuffixAppend ==
    ASSUME NEW s \in Seq(Requests), NEW e \in Requests, NEW g \in Nat, g <= Len(s)
    PROVE  /\ Suffix(Append(s, e), g) = Suffix(s, g) \cup {e}
           /\ \A i \in 1..g : Append(s, e)[i] = s[i]
<1> DEFINE t == Append(s, e)
<1>1. Len(s) \in Nat /\ Len(t) = Len(s) + 1 /\ (\A i \in 1..Len(s) : t[i] = s[i])
      /\ t[Len(s) + 1] = e
  BY AppendProperties, LenProperties
<1> HIDE DEF t
<1>2. ASSUME NEW x \in Suffix(t, g) PROVE x \in Suffix(s, g) \cup {e}
  <2>1. PICK i \in g + 1..Len(t) : x = t[i] BY <1>2 DEF Suffix
  <2>2. CASE i \in g + 1..Len(s) /\ t[i] = s[i] BY <2>1, <2>2, Zenon DEF Suffix
  <2>3. CASE i = Len(s) + 1 BY <1>1, <2>1, <2>3
  <2>4. i \in g + 1..Len(s) => t[i] = s[i] BY <1>1
  <2> QED BY <1>1, <2>1, <2>2, <2>3, <2>4
<1>3. ASSUME NEW x \in Suffix(s, g) PROVE x \in Suffix(t, g)
  <2>1. PICK i \in g + 1..Len(s) : x = s[i] BY <1>3 DEF Suffix
  <2>2. i \in g + 1..Len(t) /\ x = t[i] BY <1>1, <2>1
  <2> QED BY <2>2, Zenon DEF Suffix
<1>4. e \in Suffix(t, g)
  <2>1. Len(s) + 1 \in g + 1..Len(t) BY <1>1
  <2> QED BY <1>1, <2>1, Zenon DEF Suffix
<1>5. Suffix(t, g) = Suffix(s, g) \cup {e} BY <1>2, <1>3, <1>4
<1>6. \A i \in 1..g : t[i] = s[i] BY <1>1
<1> QED BY <1>5, <1>6 DEF t

\* The first entry leaves.
LEMMA SuffixTail ==
    ASSUME NEW s \in Seq(Requests), s # <<>>, NEW g \in Nat, g > 0
    PROVE  /\ Suffix(Tail(s), g - 1) = Suffix(s, g)
           /\ \A i \in 1..g - 1 : i <= Len(s) - 1 => Tail(s)[i] = s[i + 1]
<1> DEFINE t == Tail(s)
<1>1. Len(s) \in Nat /\ Len(t) = Len(s) - 1 /\ (\A i \in 1..Len(t) : t[i] = s[i + 1])
  BY HeadTailProperties, LenProperties
<1> HIDE DEF t
<1>0. (g - 1) + 1 = g OBVIOUS
<1>2. ASSUME NEW x \in Suffix(t, g - 1) PROVE x \in Suffix(s, g)
  <2>1. PICK i \in g..Len(t) : x = t[i] BY <1>0, <1>2 DEF Suffix
  <2>2. i + 1 \in g + 1..Len(s) /\ x = s[i + 1] BY <1>1, <2>1
  <2> QED BY <2>2, Zenon DEF Suffix
<1>3. ASSUME NEW x \in Suffix(s, g) PROVE x \in Suffix(t, g - 1)
  <2>1. PICK i \in g + 1..Len(s) : x = s[i] BY <1>3 DEF Suffix
  <2>2. i - 1 \in (g - 1) + 1..Len(t) /\ (i - 1) + 1 = i BY <1>1, <2>1
  <2>3. i - 1 \in 1..Len(t) BY <2>2
  <2>4. t[i - 1] = s[(i - 1) + 1] BY <1>1, <2>3
  <2> QED BY <2>1, <2>2, <2>4, Zenon DEF Suffix
<1>4. Suffix(t, g - 1) = Suffix(s, g) BY <1>2, <1>3
<1>5. \A i \in 1..g - 1 : i <= Len(s) - 1 => t[i] = s[i + 1] BY <1>1
<1> QED BY <1>4, <1>5 DEF t

\* The next entry comes before everything beyond it.
LEMMA SuffixNext ==
    ASSUME NEW s \in Seq(Requests), NEW g \in Nat, g < Len(s), Increasing(s)
    PROVE  /\ Suffix(s, g) = {s[g + 1]} \cup Suffix(s, g + 1)
           /\ Prec({s[g + 1]}, Suffix(s, g + 1))
<1>1. Len(s) \in Nat BY LenProperties
<1>2. ASSUME NEW x \in Suffix(s, g) PROVE x \in {s[g + 1]} \cup Suffix(s, g + 1)
  <2>1. PICK i \in g + 1..Len(s) : x = s[i] BY <1>2 DEF Suffix
  <2>2. CASE i = g + 1 BY <2>1, <2>2
  <2>3. CASE i # g + 1
    <3>1. i \in (g + 1) + 1..Len(s) BY <1>1, <2>1, <2>3
    <3> QED BY <2>1, <3>1, Zenon DEF Suffix
  <2> QED BY <2>2, <2>3
<1>3. \A i \in (g + 1) + 1..Len(s) : i \in g + 1..Len(s) BY <1>1
<1>4. g + 1 \in g + 1..Len(s) BY <1>1
<1>5. Suffix(s, g + 1) \subseteq Suffix(s, g) /\ s[g + 1] \in Suffix(s, g)
  BY <1>3, <1>4, Zenon DEF Suffix
<1>6. Suffix(s, g) = {s[g + 1]} \cup Suffix(s, g + 1) BY <1>2, <1>5
<1>7. Prec({s[g + 1]}, Suffix(s, g + 1))
  <2> SUFFICES ASSUME NEW i \in (g + 1) + 1..Len(s), s[g + 1].n # 0, s[i].n # 0
               PROVE  s[g + 1].n < s[i].n
    BY DEF Prec, Suffix
  <2>1. g + 1 \in 1..Len(s) /\ i \in 1..Len(s) /\ g + 1 < i BY <1>1
  <2> QED BY <2>1 DEF Increasing
<1> QED BY <1>6, <1>7
------------------------------------------------------------------------------
(***************************************************************************)
(* The steps that move the line on.                                        *)
(***************************************************************************)
Line == Held \cup All(Queues)
Rest == Suffix(inflight, got)
Out == Rest \cup Items(pending) \cup Items(chan)
Ahead == Out \cup Items(buffer)

\* The numbers waiting are those in the line.
LEMMA WaitingIs == Waiting = Nums(Line)
<1>1. Queues.chan = chan /\ Queues.buffer = buffer BY DEF Queues
<1>2. Line = Items(inflight) \cup Items(pending) \cup Items(chan) \cup Items(buffer)
  BY <1>1 DEF Line, Held, All
<1>3. Nums(Line) = Nums(Items(inflight)) \cup Nums(Items(pending)) \cup Nums(Items(chan))
                   \cup Nums(Items(buffer))
  BY <1>2, Zenon DEF Nums
<1> QED BY <1>3, ItemsNumbers DEF Waiting

\* Subscriptions come and go; the messages in the line and those ahead of the
\* broker stay.
SameLine ==
    /\ Line' \ {Subscribe} = Line \ {Subscribe}
    /\ Ahead' \ {Subscribe} = Ahead \ {Subscribe}
    /\ Out \ {Subscribe} \subseteq Out'

\* rumqttc writes a request it has kept.
LEMMA WritesPendingLine ==
    ASSUME IInv, LineInv, WritesPending
    PROVE  LineInv' /\ SameLine /\ UNCHANGED <<accepted, received, lost>>
<1> DEFINE h == Head(pending)
<1>0. /\ inflight \in Seq(Requests) /\ pending \in Seq(Requests) /\ Held \subseteq Requests
      /\ Queues \in QueueValues /\ WellFormed(Queues) /\ toSubscribe \in BOOLEAN
      /\ accepted \in Nat /\ got \in Nat /\ got <= Len(inflight) /\ Len(inflight) \in Nat
  BY LineTyped, QueuesWell, LenProperties DEF IInv, TypeOK
<1>1. /\ pending # <<>> /\ pending' = Tail(pending) /\ Tick(Queues)
      /\ UNCHANGED <<got, accepted, received>>
      /\ \/ h = Subscribe /\ inflight' = inflight
         \/ h # Subscribe /\ inflight' = Append(inflight, h)
  BY Zenon DEF WritesPending
<1>2. h \in Requests /\ pending' \in Seq(Requests) BY <1>0, <1>1, HeadTailProperties
<1>3. /\ Items(pending) = {h} \cup Items(pending') /\ Increasing(pending')
      /\ Prec({h}, Items(pending'))
  BY <1>0, <1>1, ItemsTail DEF LineInv
<1>4. Subscribe.n = 0 BY DEF Subscribe, Msg
<1>5. Prec(Items(inflight), {h}) BY <1>3 DEF LineInv, Prec
<1>6. /\ Increasing(inflight') /\ \A i \in 1..got : inflight'[i] = inflight[i]
      /\ Items(inflight') \subseteq Items(inflight) \cup {h}
      /\ Items(inflight) \subseteq Items(inflight')
      /\ Rest \subseteq Rest' /\ Rest' \subseteq Rest \cup {h}
      /\ h # Subscribe => h \in Items(inflight') /\ h \in Rest'
  <2>1. CASE h = Subscribe /\ inflight' = inflight BY <1>1, <2>1 DEF LineInv, Rest
  <2>2. CASE h # Subscribe /\ inflight' = Append(inflight, h)
    <3>1. Increasing(inflight') BY <1>0, <1>2, <1>5, <2>2, IncAppend DEF LineInv
    <3>2. Items(inflight') = Items(inflight) \cup {h} BY <1>0, <1>2, <2>2, ItemsAppend
    <3>3. Suffix(inflight', got) = Suffix(inflight, got) \cup {h}
          /\ \A i \in 1..got : inflight'[i] = inflight[i]
      BY <1>0, <1>2, <2>2, SuffixAppend
    <3>4. Rest' = Suffix(inflight', got) BY <1>1 DEF Rest
    <3> QED BY <3>1, <3>2, <3>3, <3>4 DEF Rest
  <2> QED BY <1>1, <2>1, <2>2
<1>7. Held' \subseteq Held /\ Held \ {Subscribe} \subseteq Held' BY <1>3, <1>6 DEF Held
<1>8. Lined(Queues, Held', accepted, received) BY <1>7 DEF LineInv, Lined, Prec
<1>9. PICK new \in SUBSET {Subscribe} :
        Lined(Queues', Held', accepted, received) /\ Moves(Queues, Queues', new)
  BY <1>0, <1>1, <1>8, TickMoves
<1>10. Prec(Items(inflight'), Items(pending'))
  BY <1>3, <1>6 DEF LineInv, Prec
<1>11. LineInv'
  <2>1. \A i \in 1..got : inflight'[i].n \in received \cup {0} BY <1>6 DEF LineInv
  <2>2. received' \subseteq 1..accepted' BY <1>1 DEF LineInv
  <2> QED BY <1>1, <1>3, <1>6, <1>9, <1>10, <2>1, <2>2, Zenon DEF LineInv
<1>12. /\ Items(chan) \subseteq Items(chan')
       /\ All(Queues') = All(Queues) \cup new
       /\ Items(buffer') \subseteq Items(buffer) \cup new
       /\ All(Queues) = Items(chan) \cup Items(buffer)
       /\ All(Queues') = Items(chan') \cup Items(buffer')
       /\ lost' = lost
  BY <1>9 DEF Moves, All, Queues
<1>13. SameLine
  <2>1. Line' \ {Subscribe} = Line \ {Subscribe} BY <1>7, <1>12 DEF Line
  <2>2. Out \ {Subscribe} \subseteq Out' BY <1>3, <1>6, <1>12 DEF Out
  <2>3. Ahead' \ {Subscribe} = Ahead \ {Subscribe} BY <1>3, <1>6, <1>12 DEF Out, Ahead
  <2> QED BY <2>1, <2>2, <2>3 DEF SameLine
<1> QED BY <1>1, <1>11, <1>12, <1>13

\* rumqttc writes a request from the channel.
LEMMA WritesRequestLine ==
    ASSUME IInv, LineInv, WritesRequest
    PROVE  LineInv' /\ SameLine /\ UNCHANGED <<accepted, received, lost>>
<1> DEFINE h == Head(chan)
           q == [Queues EXCEPT !.chan = Tail(chan)]
<1>0. /\ inflight \in Seq(Requests) /\ pending \in Seq(Requests) /\ chan \in Seq(Requests)
      /\ buffer \in Seq(Messages) /\ lost \in SUBSET Nat
      /\ WellFormed(Queues) /\ Queues.chan = chan /\ Queues.buffer = buffer
      /\ toSubscribe \in BOOLEAN
      /\ accepted \in Nat /\ got \in Nat /\ got <= Len(inflight) /\ Len(inflight) \in Nat
  BY LineTyped, QueuesWell, LenProperties DEF IInv, TypeOK
<1>1. /\ chan # <<>> /\ pending = <<>> /\ Tick(q)
      /\ UNCHANGED <<got, pending, accepted, received>>
      /\ \/ h = Subscribe /\ inflight' = inflight
         \/ h # Subscribe /\ inflight' = Append(inflight, h)
  BY Zenon DEF WritesRequest
<1>2. h \in Requests /\ Tail(chan) \in Seq(Requests) /\ Len(Tail(chan)) = Len(chan) - 1
      /\ Len(chan) \in Nat
  BY <1>0, <1>1, HeadTailProperties, LenProperties
<1> DEFINE c == Tail(chan)
<1>i. Increasing(chan) /\ Increasing(buffer) /\ Prec(Held, Items(chan))
      /\ Prec(Held \cup Items(chan), Items(buffer))
      /\ (\A x \in Held \cup Items(chan) \cup Items(buffer) : x.n <= accepted)
      /\ \A x \in Items(buffer) : x.n \notin received
  BY <1>0 DEF LineInv, Lined
<1>3. Items(chan) = {h} \cup Items(c) /\ Increasing(c) /\ Prec({h}, Items(c))
  BY <1>0, <1>1, <1>i, ItemsTail
<1>4. q = [buffer |-> buffer, chan |-> c, lost |-> lost]
  <2> DEFINE y == [buffer |-> buffer, chan |-> chan, lost |-> lost]
  <2>1. q = [y EXCEPT !.chan = c] BY DEF Queues
  <2> HIDE DEF c, q
  <2> QED BY <2>1
<1> HIDE DEF c, q, h
<1>5. q.chan = c /\ q.buffer = buffer /\ q.lost = lost BY <1>4
<1>6. WellFormed(q)
  <2>1. q \in QueueValues BY <1>0, <1>2, <1>4 DEF QueueValues, c
  <2>2. Len(chan) <= ChanCap /\ Len(buffer) <= Bound BY <1>0 DEF WellFormed
  <2>3. Len(c) <= ChanCap BY <1>2, <2>2, Capacities DEF c
  <2>4. Len(q.chan) <= ChanCap /\ Len(q.buffer) <= Bound BY <1>5, <2>2, <2>3, Zenon
  <2> QED BY <2>1, <2>4 DEF WellFormed
<1>7. Prec(Items(inflight), {h}) BY <1>3, <1>i DEF Held, Prec
<1>8. /\ Increasing(inflight') /\ \A i \in 1..got : inflight'[i] = inflight[i]
      /\ Items(inflight') \subseteq Items(inflight) \cup {h}
      /\ Items(inflight) \subseteq Items(inflight')
      /\ Rest \subseteq Rest' /\ Rest' \subseteq Rest \cup {h}
      /\ h # Subscribe => h \in Items(inflight') /\ h \in Rest'
  <2>1. CASE h = Subscribe /\ inflight' = inflight BY <1>1, <2>1 DEF LineInv, Rest
  <2>2. CASE h # Subscribe /\ inflight' = Append(inflight, h)
    <3>1. Increasing(inflight') BY <1>0, <1>2, <1>7, <2>2, IncAppend DEF LineInv
    <3>2. Items(inflight') = Items(inflight) \cup {h} BY <1>0, <1>2, <2>2, ItemsAppend
    <3>3. Suffix(inflight', got) = Suffix(inflight, got) \cup {h}
          /\ \A i \in 1..got : inflight'[i] = inflight[i]
      BY <1>0, <1>2, <2>2, SuffixAppend
    <3>4. Rest' = Suffix(inflight', got) BY <1>1 DEF Rest
    <3> QED BY <3>1, <3>2, <3>3, <3>4 DEF Rest
  <2> QED BY <1>1, <2>1, <2>2
<1>9. Items(pending) = {} /\ Items(pending') = {} /\ Increasing(pending')
  BY <1>1, ItemsEmpty
<1>10. Held' \subseteq Held \cup {h} /\ Held \subseteq Held' BY <1>8, <1>9 DEF Held
<1>11. Lined(q, Held', accepted, received)
  <2>1. Increasing(q.chan) /\ Increasing(q.buffer) BY <1>3, <1>5, <1>i
  <2>2. Prec(Held', Items(q.chan)) BY <1>3, <1>5, <1>10, <1>i DEF Prec
  <2>3. Prec(Held' \cup Items(q.chan), Items(q.buffer)) BY <1>3, <1>5, <1>10, <1>i DEF Prec
  <2>4. \A x \in Held' \cup Items(q.chan) \cup Items(q.buffer) : x.n <= accepted
    BY <1>3, <1>5, <1>10, <1>i
  <2>5. \A x \in Items(q.buffer) : x.n \notin received BY <1>5, <1>i
  <2> QED BY <2>1, <2>2, <2>3, <2>4, <2>5 DEF Lined
<1>12. PICK new \in SUBSET {Subscribe} :
         Lined(Queues', Held', accepted, received) /\ Moves(q, Queues', new)
  BY <1>0, <1>1, <1>6, <1>11, TickMoves
<1>13. Prec(Items(inflight'), Items(pending')) BY <1>9 DEF Prec
<1>14. LineInv'
  <2>1. \A i \in 1..got : inflight'[i].n \in received \cup {0} BY <1>8 DEF LineInv
  <2>2. received' \subseteq 1..accepted' BY <1>1 DEF LineInv
  <2> QED BY <1>1, <1>8, <1>9, <1>12, <1>13, <2>1, <2>2, Zenon DEF LineInv
<1>15. /\ Items(c) \subseteq Items(chan')
       /\ All(Queues') = Items(c) \cup Items(buffer) \cup new
       /\ Items(buffer') \subseteq Items(buffer) \cup new
       /\ All(Queues) = Items(chan) \cup Items(buffer)
       /\ All(Queues') = Items(chan') \cup Items(buffer')
       /\ lost' = lost
  <2>1. Queues'.chan = chan' /\ Queues'.buffer = buffer' /\ Queues'.lost = lost' BY DEF Queues
  <2>2. /\ Items(q.chan) \subseteq Items(Queues'.chan)
        /\ Items(Queues'.buffer) \subseteq Items(q.buffer) \cup new
        /\ All(Queues') = All(q) \cup new /\ Queues'.lost = q.lost
    BY <1>12 DEF Moves
  <2>3. All(q) = Items(c) \cup Items(buffer) BY <1>5 DEF All
  <2>4. All(Queues) = Items(chan) \cup Items(buffer)
        /\ All(Queues') = Items(chan') \cup Items(buffer')
    BY <1>0, <2>1 DEF All
  <2> QED BY <1>5, <2>1, <2>2, <2>3, <2>4
<1>16. SameLine
  <2>1. Line' \ {Subscribe} = Line \ {Subscribe}
    BY <1>3, <1>8, <1>9, <1>10, <1>15 DEF Line, Held
  <2>2. Out \ {Subscribe} \subseteq Out' BY <1>3, <1>8, <1>9, <1>15 DEF Out
  <2>3. Ahead' \ {Subscribe} = Ahead \ {Subscribe} BY <1>3, <1>8, <1>9, <1>15 DEF Out, Ahead
  <2> QED BY <2>1, <2>2, <2>3 DEF SameLine
<1> QED BY <1>1, <1>14, <1>15, <1>16

\* The oldest message written is acknowledged: the broker has it.
LEMMA PubAckLine ==
    ASSUME IInv, LineInv, PubAck
    PROVE  /\ LineInv' /\ UNCHANGED <<accepted, received, lost>>
           /\ \E h \in Messages :
                 /\ h.n \in received \cup {0} /\ Prec({h}, Line')
                 /\ Line \ {Subscribe} = ({h} \cup Line') \ {Subscribe}
           /\ Ahead' \ {Subscribe} = Ahead \ {Subscribe}
           /\ Out \ {Subscribe} \subseteq Out'
<1> DEFINE h == Head(inflight)
<1>0. /\ inflight \in Seq(Requests) /\ inflight \in Seq(Messages) /\ pending \in Seq(Requests)
      /\ Queues \in QueueValues /\ WellFormed(Queues) /\ toSubscribe \in BOOLEAN
      /\ accepted \in Nat /\ got \in Nat /\ got <= Len(inflight) /\ Len(inflight) \in Nat
  BY LineTyped, QueuesWell, LenProperties DEF IInv, TypeOK
<1>1. /\ got > 0 /\ got' = got - 1 /\ inflight' = Tail(inflight) /\ Tick(Queues)
      /\ UNCHANGED <<pending, accepted, received>>
  BY Zenon DEF PubAck
<1>2. inflight # <<>>
  <2>1. Len(inflight) # 0 BY <1>0, <1>1
  <2>2. Len(<<>>) = 0 OBVIOUS
  <2> QED BY <2>1, <2>2
<1>3. h \in Messages /\ inflight' \in Seq(Requests) /\ h = inflight[1]
  <2>1. h \in Messages BY <1>0, <1>2, HeadTailProperties
  <2>2. inflight' \in Seq(Requests) BY <1>0, <1>1, <1>2, HeadTailProperties
  <2> QED BY <2>1, <2>2
<1>4. /\ Items(inflight) = {h} \cup Items(inflight') /\ Increasing(inflight')
      /\ Prec({h}, Items(inflight'))
  BY <1>0, <1>1, <1>2, ItemsTail DEF LineInv
<1>5. /\ Suffix(inflight', got - 1) = Suffix(inflight, got)
      /\ \A i \in 1..got - 1 : i <= Len(inflight) - 1 => inflight'[i] = inflight[i + 1]
  BY <1>0, <1>1, <1>2, SuffixTail
<1>6. Rest' = Rest BY <1>1, <1>5 DEF Rest
<1>7. Held' \subseteq Held /\ Held = {h} \cup Held' BY <1>1, <1>4 DEF Held
<1>8. Lined(Queues, Held', accepted, received) BY <1>7 DEF LineInv, Lined, Prec
<1>9. PICK new \in SUBSET {Subscribe} :
        Lined(Queues', Held', accepted, received) /\ Moves(Queues, Queues', new)
  BY <1>0, <1>1, <1>8, TickMoves
<1>10. Prec(Items(inflight'), Items(pending')) BY <1>1, <1>4 DEF LineInv, Prec
<1>11. LineInv'
  <2>1. ASSUME NEW i \in 1..got' PROVE inflight'[i].n \in received' \cup {0}
    <3>1. i \in 1..got - 1 /\ i <= Len(inflight) - 1 /\ i + 1 \in 1..got BY <1>0, <1>1, <2>1
    <3>2. inflight'[i] = inflight[i + 1] BY <1>5, <3>1
    <3> QED BY <1>1, <3>1, <3>2 DEF LineInv
  <2>2. received' \subseteq 1..accepted' BY <1>1 DEF LineInv
  <2>3. Increasing(pending') BY <1>1 DEF LineInv
  <2> QED BY <1>1, <1>4, <1>9, <1>10, <2>1, <2>2, <2>3, Zenon DEF LineInv
<1>12. /\ Items(chan) \subseteq Items(chan')
       /\ All(Queues') = All(Queues) \cup new
       /\ Items(buffer') \subseteq Items(buffer) \cup new
       /\ All(Queues) = Items(chan) \cup Items(buffer)
       /\ All(Queues') = Items(chan') \cup Items(buffer')
       /\ lost' = lost
  BY <1>9 DEF Moves, All, Queues
<1>13. Line \ {Subscribe} = ({h} \cup Line') \ {Subscribe} BY <1>7, <1>12 DEF Line
<1>14. Out \ {Subscribe} \subseteq Out' BY <1>1, <1>6, <1>12 DEF Out
<1>15. Ahead' \ {Subscribe} = Ahead \ {Subscribe} BY <1>1, <1>6, <1>12 DEF Out, Ahead
<1>16. h.n \in received \cup {0}
  <2>1. 1 \in 1..got BY <1>0, <1>1
  <2> QED BY <1>3, <2>1 DEF LineInv
<1>17. Prec({h}, Line')
  <2>1. h \in Items(inflight) BY <1>4
  <2>2. Prec({h}, Items(pending')) BY <1>1, <2>1 DEF LineInv, Prec
  <2>3. Prec({h}, All(Queues)) BY <2>1 DEF LineInv, Lined, Prec, Held, All
  <2>4. Subscribe.n = 0 BY DEF Subscribe, Msg
  <2>5. Prec({h}, All(Queues')) BY <1>12, <2>3, <2>4 DEF Prec
  <2> QED BY <1>4, <2>2, <2>5 DEF Line, Held, Prec
<1> HIDE DEF h
<1> QED BY <1>1, <1>3, <1>11, <1>12, <1>13, <1>14, <1>15, <1>16, <1>17

\* The connection breaks: what is not acknowledged and what is in the channel is
\* kept, in order, and is ahead of the broker again.
LEMMA ConnectionLostLine ==
    ASSUME IInv, LineInv, ConnectionLost
    PROVE  LineInv' /\ Line' = Line /\ Ahead' = Line /\ UNCHANGED <<accepted, received, lost>>
<1>0. /\ inflight \in Seq(Requests) /\ pending \in Seq(Requests) /\ chan \in Seq(Requests)
      /\ Queues.chan = chan /\ Queues.buffer = buffer
  BY LineTyped, QueuesWell DEF IInv, TypeOK
<1>1. /\ pending' = Kept /\ inflight' = <<>> /\ got' = 0 /\ chan' = <<>>
      /\ UNCHANGED <<buffer, accepted, received, lost>>
  BY Zenon DEF ConnectionLost
<1>i. Increasing(chan) /\ Increasing(buffer) /\ Prec(Held, Items(chan))
      /\ Prec(Held \cup Items(chan), Items(buffer))
      /\ (\A x \in Held \cup Items(chan) \cup Items(buffer) : x.n <= accepted)
      /\ (\A x \in Items(buffer) : x.n \notin received)
      /\ Increasing(inflight) /\ Increasing(pending) /\ Prec(Items(inflight), Items(pending))
  BY <1>0 DEF LineInv, Lined
<1> DEFINE k == inflight \o pending
<1>2. k \in Seq(Requests) /\ Items(k) = Held /\ Increasing(k)
  BY <1>0, <1>i, ItemsConcat, ConcatProperties DEF Held
<1> HIDE DEF k
<1>3. Items(k \o chan) = Held \cup Items(chan) /\ Increasing(k \o chan)
  BY <1>0, <1>2, <1>i, ItemsConcat
<1>4. Items(pending') = Held \cup Items(chan) /\ Increasing(pending')
  BY <1>1, <1>3 DEF Kept, k
<1>5. Items(inflight') = {} /\ Increasing(inflight') /\ Items(chan') = {} /\ Increasing(chan')
  BY <1>1, ItemsEmpty
<1>6. Held' = Held \cup Items(chan) BY <1>4, <1>5 DEF Held
<1>7. Queues'.chan = chan' /\ Queues'.buffer = buffer BY <1>1 DEF Queues
<1>8. Lined(Queues', Held', accepted', received')
  <2>1. Increasing(Queues'.chan) /\ Increasing(Queues'.buffer) BY <1>5, <1>7, <1>i
  <2>2. Items(Queues'.chan) = {} /\ Items(Queues'.buffer) = Items(buffer) BY <1>5, <1>7
  <2>3. Prec(Held', Items(Queues'.chan)) BY <2>2 DEF Prec
  <2>4. Prec(Held' \cup Items(Queues'.chan), Items(Queues'.buffer))
    BY <1>6, <1>i, <2>2 DEF Prec
  <2>5. \A x \in Held' \cup Items(Queues'.chan) \cup Items(Queues'.buffer) : x.n <= accepted'
    BY <1>1, <1>6, <1>i, <2>2
  <2>6. \A x \in Items(Queues'.buffer) : x.n \notin received' BY <1>1, <1>i, <2>2
  <2> QED BY <2>1, <2>3, <2>4, <2>5, <2>6 DEF Lined
<1>9. LineInv'
  <2>1. Prec(Items(inflight'), Items(pending')) BY <1>5 DEF Prec
  <2>2. \A i \in 1..got' : inflight'[i].n \in received' \cup {0} BY <1>1
  <2>3. received' \subseteq 1..accepted' BY <1>1 DEF LineInv
  <2> QED BY <1>4, <1>5, <1>8, <2>1, <2>2, <2>3, Zenon DEF LineInv
<1>10. All(Queues') = Items(buffer) BY <1>5, <1>7 DEF All
<1>11. All(Queues) = Items(chan) \cup Items(buffer) BY <1>0 DEF All
<1>12. Line' = Line BY <1>6, <1>10, <1>11 DEF Line
<1>13. Rest' = {}
  <2>1. Rest' \subseteq Items(inflight')
    <3>1. <<>> \in Seq(Requests) /\ 0 \in Nat OBVIOUS
    <3>2. Suffix(<<>>, 0) \subseteq Items(<<>>) BY <3>1, SuffixItems
    <3> QED BY <1>1, <3>2 DEF Rest
  <2> QED BY <1>5, <2>1
<1>14. Ahead' = Line BY <1>1, <1>4, <1>5, <1>11, <1>13 DEF Ahead, Out, Line
<1> QED BY <1>1, <1>9, <1>12, <1>14

\* The broker processes the next message written.
LEMMA BrokerReceivesLine ==
    ASSUME IInv, LineInv, BrokerReceives
    PROVE  LET m == inflight[got + 1]
           IN /\ LineInv' /\ Line' = Line /\ UNCHANGED <<accepted, lost>>
              /\ m \in Messages /\ m \in Line /\ received' = received \cup ({m.n} \ {0})
              /\ Out = {m} \cup Out' /\ Ahead = {m} \cup Ahead' /\ Prec({m}, Ahead')
              /\ \A x \in Line : x \in Ahead \/ x.n \in received \cup {0}
<1> DEFINE m == inflight[got + 1]
<1>0. /\ inflight \in Seq(Requests) /\ inflight \in Seq(Messages) /\ pending \in Seq(Requests)
      /\ Queues.chan = chan /\ Queues.buffer = buffer
      /\ accepted \in Nat /\ got \in Nat /\ got <= Len(inflight) /\ Len(inflight) \in Nat
  BY LineTyped, QueuesWell, LenProperties DEF IInv, TypeOK
<1>1. /\ got < Len(inflight) /\ got' = got + 1 /\ received' = received \cup ({m.n} \ {0})
      /\ UNCHANGED <<buffer, chan, inflight, pending, accepted, lost>>
  BY Zenon DEF BrokerReceives
<1>i. Increasing(chan) /\ Increasing(buffer) /\ Prec(Held, Items(chan))
      /\ Prec(Held \cup Items(chan), Items(buffer))
      /\ (\A x \in Held \cup Items(chan) \cup Items(buffer) : x.n <= accepted)
      /\ (\A x \in Items(buffer) : x.n \notin received) /\ received \subseteq 1..accepted
      /\ Increasing(inflight) /\ Increasing(pending) /\ Prec(Items(inflight), Items(pending))
      /\ \A i \in 1..got : inflight[i].n \in received \cup {0}
  BY <1>0 DEF LineInv, Lined
<1>2. got + 1 \in 1..Len(inflight) BY <1>0, <1>1
<1>3. m \in Messages /\ m \in Items(inflight)
  BY <1>0, <1>2, ElementOfSeq DEF Items
<1>4. m.n \in Nat /\ m.n <= accepted BY <1>3, <1>i DEF Messages, Held
<1>5. /\ Suffix(inflight, got) = {m} \cup Suffix(inflight, got + 1)
      /\ Prec({m}, Suffix(inflight, got + 1))
  BY <1>0, <1>1, <1>i, SuffixNext
<1>6. Rest = {m} \cup Rest' /\ Prec({m}, Rest') BY <1>1, <1>5 DEF Rest
<1>7. ASSUME NEW x \in Items(inflight) PROVE x \in Rest \/ x.n \in received \cup {0}
  <2>1. x \in Suffix(inflight, got) \/ \E i \in 1..Len(inflight) : i <= got /\ x = inflight[i]
    BY <1>0, SuffixItems
  <2>2. CASE x \in Suffix(inflight, got) BY <2>2 DEF Rest
  <2>3. CASE \E i \in 1..Len(inflight) : i <= got /\ x = inflight[i]
    <3>1. PICK i \in 1..Len(inflight) : i <= got /\ x = inflight[i] BY <2>3
    <3>2. i \in 1..got BY <1>0, <3>1
    <3> QED BY <1>i, <3>1, <3>2
  <2> QED BY <2>1, <2>2, <2>3
<1> HIDE DEF m
<1>8. Queues' = Queues /\ Held' = Held BY <1>1 DEF Queues, Held
<1>9. LineInv'
  <2>1. \A x \in Items(buffer) : x.n \notin received'
    <3> SUFFICES ASSUME NEW x \in Items(buffer), x.n = m.n, m.n # 0 PROVE FALSE
      BY <1>1, <1>i
    <3>1. m.n < x.n BY <1>3, <1>i DEF Held, Prec
    <3> QED BY <1>4, <3>1
  <2>2. Lined(Queues, Held, accepted, received') BY <1>0, <1>i, <2>1 DEF Lined
  <2>3. received' \subseteq 1..accepted'
    <3>1. m.n # 0 => m.n \in 1..accepted BY <1>0, <1>4
    <3>2. received \subseteq 1..accepted BY <1>i
    <3> QED BY <1>1, <3>1, <3>2, Zenon
  <2>4. ASSUME NEW i \in 1..got' PROVE inflight'[i].n \in received' \cup {0}
    <3>1. CASE i \in 1..got BY <1>1, <1>i, <3>1
    <3>2. CASE i = got + 1 BY <1>1, <3>2 DEF m
    <3> QED BY <1>0, <1>1, <3>1, <3>2
  <2>5. Increasing(inflight') /\ Increasing(pending') /\ Prec(Items(inflight'), Items(pending'))
    BY <1>1, <1>i
  <2>6. Lined(Queues', Held', accepted', received') BY <1>1, <1>8, <2>2
  <2> QED BY <2>3, <2>4, <2>5, <2>6, Zenon DEF LineInv
<1>10. Line' = Line BY <1>8 DEF Line
<1>11. Out = {m} \cup Out' /\ Ahead = {m} \cup Ahead' BY <1>1, <1>6 DEF Out, Ahead
<1>12. Prec({m}, Ahead')
  <2>1. Prec({m}, Items(pending)) /\ Prec({m}, Items(chan)) /\ Prec({m}, Items(buffer))
    BY <1>3, <1>i DEF Held, Prec
  <2>2. Ahead' = Rest' \cup Items(pending) \cup Items(chan) \cup Items(buffer)
    BY <1>1 DEF Ahead, Out
  <2> QED BY <1>6, <2>1, <2>2 DEF Prec
<1>13. ASSUME NEW x \in Line PROVE x \in Ahead \/ x.n \in received \cup {0}
  <2>1. Line = Items(inflight) \cup Items(pending) \cup Items(chan) \cup Items(buffer)
    BY <1>0 DEF Line, Held, All
  <2> QED BY <1>7, <2>1 DEF Ahead, Out
<1>14. m \in Line BY <1>3 DEF Line, Held
<1> QED BY <1>1, <1>3, <1>9, <1>10, <1>11, <1>12, <1>13, <1>14 DEF m

\* The publisher stops: nothing is left.
LEMMA StopLine ==
    ASSUME IInv, LineInv, Stop
    PROVE  LineInv' /\ Line' = {} /\ UNCHANGED <<accepted, received>>
           /\ lost' = lost \cup (Waiting \ received)
<1>1. /\ inflight' = <<>> /\ pending' = <<>> /\ chan' = <<>> /\ buffer' = <<>> /\ got' = 0
      /\ lost' = lost \cup (Waiting \ received)
      /\ UNCHANGED <<accepted, received>>
  BY Zenon DEF Stop
<1>2. Queues'.chan = <<>> /\ Queues'.buffer = <<>> BY <1>1 DEF Queues
<1>3. Items(Queues'.chan) = {} /\ Items(Queues'.buffer) = {} /\ Increasing(Queues'.chan)
      /\ Increasing(Queues'.buffer)
  BY <1>2, ItemsEmpty
<1>4. Items(inflight') = {} /\ Items(pending') = {} /\ Increasing(inflight')
      /\ Increasing(pending')
  BY <1>1, ItemsEmpty
<1>5. Held' = {} BY <1>4 DEF Held
<1>6. Line' = {} BY <1>3, <1>5 DEF Line, All
<1>7. Lined(Queues', Held', accepted', received') BY <1>3, <1>5 DEF Lined, Prec
<1>8. received' \subseteq 1..accepted' BY <1>1 DEF LineInv
<1>9. \A i \in 1..got' : inflight'[i].n \in received' \cup {0} BY <1>1
<1>10. Prec(Items(inflight'), Items(pending')) BY <1>4 DEF Prec
<1>11. LineInv' BY <1>4, <1>7, <1>8, <1>9, <1>10, Zenon DEF LineInv
<1> QED BY <1>1, <1>6, <1>11

\* Nothing in the line changes.
QuietLine ==
    UNCHANGED <<inflight, got, pending, chan, buffer, accepted, received, lost>>

\* These steps touch nothing of the line.
LEMMA QuietSteps ==
    ASSUME \/ StartupTimeout \/ StartupFails \/ ConnectFails \/ SleepEnds \/ Stopped
           \/ (\E topic \in {"message", "status"} : Offer(topic))
           \/ BrokerForgets \/ UNCHANGED vars
    PROVE  QuietLine
<1>1. CASE StartupTimeout BY <1>1, Zenon DEF StartupTimeout, client, QuietLine
<1>2. CASE StartupFails BY <1>2, Zenon DEF StartupFails, client, QuietLine
<1>3. CASE ConnectFails BY <1>3, Zenon DEF ConnectFails, client, QuietLine
<1>4. CASE SleepEnds BY <1>4, Zenon DEF SleepEnds, client, QuietLine
<1>5. CASE Stopped BY <1>5, Zenon DEF Stopped, vars, client, QuietLine
<1>6. CASE \E topic \in {"message", "status"} : Offer(topic)
  BY <1>6, Zenon DEF Offer, client, QuietLine
<1>7. CASE BrokerForgets BY <1>7, Zenon DEF BrokerForgets, client, QuietLine
<1>8. CASE UNCHANGED vars BY <1>8, Zenon DEF vars, client, QuietLine
<1> QED BY <1>1, <1>2, <1>3, <1>4, <1>5, <1>6, <1>7, <1>8

\* So they keep it.
LEMMA QuietKeeps ==
    ASSUME LineInv, QuietLine
    PROVE  LineInv' /\ Line' = Line /\ Out' = Out /\ Ahead' = Ahead
           /\ UNCHANGED <<accepted, received, lost, inflight, got>>
<1>1. UNCHANGED <<inflight, got, pending, chan, buffer, accepted, received, lost>>
  BY DEF QuietLine
<1>2. Queues' = Queues /\ Held' = Held /\ Rest' = Rest BY <1>1 DEF Queues, Held, Rest
<1>3. Line' = Line BY <1>2 DEF Line
<1>4. Out' = Out /\ Ahead' = Ahead BY <1>1, <1>2 DEF Out, Ahead
<1>5. LineInv'
  <2>1. Lined(Queues', Held', accepted', received') BY <1>1, <1>2 DEF LineInv
  <2>2. Increasing(inflight') /\ Increasing(pending') /\ Prec(Items(inflight'), Items(pending'))
        /\ received' \subseteq 1..accepted'
        /\ \A i \in 1..got' : inflight'[i].n \in received' \cup {0}
    BY <1>1, Zenon DEF LineInv
  <2> QED BY <2>1, <2>2, Zenon DEF LineInv
<1> QED BY <1>1, <1>3, <1>4, <1>5

\* A handler has queued messages: they and all that were in line are in line, or
\* among the gone, which count as lost and which the broker has not got.
LEMMA AcceptLine ==
    ASSUME IInv, LineInv, NEW new, Accepts(new), UNCHANGED <<client, received>>
    PROVE  /\ LineInv'
           /\ \E gone \in SUBSET (Items(buffer) \cup new) :
                 /\ Line' \cup gone = Line \cup new
                 /\ Ahead' \cup gone = Ahead \cup new
                 /\ lost' = lost \cup Nums(gone)
                 /\ Nums(gone) \cap Nums(Line') = {}
                 /\ Nums(gone) \cap received = {}
           /\ Out \subseteq Out'
<1>0. /\ accepted \in Nat /\ Held \subseteq Requests
      /\ (\A x \in Held \cup All(Queues) : x.n \in Nat /\ x.n <= accepted)
      /\ Queues.chan = chan /\ Queues.buffer = buffer /\ Queues.lost = lost
  BY LineTyped, QueuesWell
<1>1. UNCHANGED <<inflight, got, pending, received>> BY Zenon DEF client
<1>2. Held' = Held /\ Rest' = Rest BY <1>1 DEF Held, Rest
<1>3. /\ Lined(Queues', Held, accepted', received)
      /\ Change(Queues, Queues', new)
      /\ new \subseteq Requests /\ Nums(new) = accepted + 1..accepted'
      /\ accepted' \in Nat /\ accepted' >= accepted
  BY DEF Accepts
<1>4. LineInv'
  <2>1. Lined(Queues', Held', accepted', received') BY <1>1, <1>2, <1>3
  <2>2. Increasing(inflight') /\ Increasing(pending') /\ Prec(Items(inflight'), Items(pending'))
        /\ \A i \in 1..got' : inflight'[i].n \in received' \cup {0}
    BY <1>1, Zenon DEF LineInv
  <2>3. 1..accepted \subseteq 1..accepted' BY <1>0, <1>3
  <2>4. received' \subseteq 1..accepted' BY <1>1, <2>3 DEF LineInv
  <2> QED BY <2>1, <2>2, <2>4, Zenon DEF LineInv
<1>5. Queues'.chan = chan' /\ Queues'.buffer = buffer' /\ Queues'.lost = lost' BY DEF Queues
<1>6. PICK gone \in SUBSET (Items(Queues.buffer) \cup new) :
          /\ All(Queues') \cup gone = All(Queues) \cup new
          /\ Queues'.lost = Queues.lost \cup Nums(gone)
          /\ Nums(gone) \cap Nums(All(Queues')) = {}
  BY <1>3 DEF Change
<1>7. gone \in SUBSET (Items(buffer) \cup new) /\ lost' = lost \cup Nums(gone)
  BY <1>0, <1>5, <1>6
<1>8. Line' \cup gone = Line \cup new BY <1>2, <1>6 DEF Line
<1>9. All(Queues) = Items(chan) \cup Items(buffer) /\ All(Queues') = Items(chan') \cup Items(buffer')
  BY <1>0, <1>5 DEF All
<1>10. Ahead' \cup gone = Ahead \cup new BY <1>1, <1>2, <1>6, <1>9 DEF Ahead, Out
<1>11. Out \subseteq Out'
  <2>1. Items(chan) \subseteq Items(chan') BY <1>0, <1>3, <1>5 DEF Change
  <2> QED BY <1>1, <1>2, <2>1 DEF Out
<1>12. ASSUME NEW x \in new, x.n # 0 PROVE x.n > accepted /\ x.n \in Nat
  <2>1. x.n \in Nums(new) BY <1>12, Zenon DEF Nums
  <2> QED BY <1>0, <1>3, <2>1
<1>13. Nums(gone) \cap Nums(Line') = {}
  <2> SUFFICES ASSUME NEW x \in gone, NEW y \in Held, x.n = y.n, x.n # 0 PROVE FALSE
    <3>1. Line' = Held \cup All(Queues') BY <1>2 DEF Line
    <3>2. Nums(Line') = Nums(Held) \cup Nums(All(Queues')) BY <3>1, Zenon DEF Nums
    <3>3. Nums(gone) \cap Nums(Held) = {} BY Zenon DEF Nums
    <3> QED BY <1>6, <3>2, <3>3
  <2>1. CASE x \in new
    <3>1. y.n \in Nat /\ y.n <= accepted BY <1>0
    <3> QED BY <1>0, <1>12, <2>1, <3>1
  <2>2. CASE x \in Items(buffer)
    <3>1. y.n < x.n BY <1>0, <2>2 DEF LineInv, Lined, Prec
    <3>2. y.n \in Nat BY <1>0
    <3> QED BY <3>1, <3>2
  <2> QED BY <1>7, <2>1, <2>2
<1>14. Nums(gone) \cap received = {}
  <2> SUFFICES ASSUME NEW x \in gone, x.n \in received, x.n # 0 PROVE FALSE
    BY Zenon DEF Nums
  <2>1. CASE x \in new
    <3>1. x.n <= accepted BY <1>0 DEF LineInv
    <3> QED BY <1>0, <1>12, <2>1, <3>1
  <2>2. CASE x \in Items(buffer) BY <1>0, <2>2 DEF LineInv, Lined
  <2> QED BY <1>7, <2>1, <2>2
<1> QED BY <1>4, <1>7, <1>8, <1>10, <1>11, <1>13, <1>14

\* The handlers that queue messages.
LEMMA Handlers ==
    ASSUME IInv, LineInv, ConnAck \/ IncomingPublish \/ HandleEvent
    PROVE  (\E new : Accepts(new) /\ News(new)) /\ UNCHANGED <<client, received>>
<1>1. CASE ConnAck
  <2>1. UNCHANGED <<client, received>> BY <1>1, Zenon DEF ConnAck
  <2> QED BY <1>1, <2>1, ConnAckAccepts
<1>2. CASE IncomingPublish
  <2>1. UNCHANGED <<client, received>>
        /\ \E more \in Follows["message"] : Publishes("message", 0, more, TRUE)
    BY <1>2, Zenon DEF IncomingPublish
  <2>2. PICK more \in Follows["message"] : Publishes("message", 0, more, TRUE) BY <2>1
  <2>3. more \in Continuations BY <2>2 DEF Follows, Continuations
  <2>4. "message" \in {"message", "status"} /\ 0 \in Nat /\ TRUE \in BOOLEAN OBVIOUS
  <2> QED BY <2>1, <2>2, <2>3, <2>4, PublishesAccepts
<1>3. CASE HandleEvent
  <2> DEFINE e == Head(events)
             up == state = "Connected"
  <2>1. /\ events # <<>>
        /\ \E more \in Follows[e.topic] : Publishes(e.topic, e.v, more, up)
        /\ UNCHANGED <<client, received>>
    BY <1>3, Zenon DEF HandleEvent
  <2>2. PICK more \in Follows[e.topic] : Publishes(e.topic, e.v, more, up) BY <2>1
  <2>3. e \in [topic : {"message", "status"}, v : Nat]
    BY <2>1, HeadTailProperties DEF IInv, TypeOK
  <2>4. e.topic \in {"message", "status"} /\ e.v \in Nat /\ up \in BOOLEAN
    <3> HIDE DEF e
    <3> QED BY <2>3
  <2>5. more \in Continuations
    <3> HIDE DEF e
    <3> QED BY <2>2, <2>4 DEF Follows, Continuations
  <2> HIDE DEF e, up
  <2> QED BY <2>1, <2>2, <2>4, <2>5, PublishesAccepts
<1> QED BY <1>1, <1>2, <1>3

\* The line is empty at the start.
LEMMA InitLine == Init => LineInv
<1> SUFFICES ASSUME Init PROVE LineInv OBVIOUS
<1>1. inflight = <<>> /\ pending = <<>> /\ chan = <<>> /\ buffer = <<>> /\ got = 0
      /\ received = {}
  BY DEF Init
<1>2. Queues.chan = <<>> /\ Queues.buffer = <<>> BY <1>1 DEF Queues
<1>3. Items(Queues.chan) = {} /\ Items(Queues.buffer) = {} /\ Increasing(Queues.chan)
      /\ Increasing(Queues.buffer)
  BY <1>2, ItemsEmpty
<1>4. Items(inflight) = {} /\ Items(pending) = {} /\ Increasing(inflight) /\ Increasing(pending)
  BY <1>1, ItemsEmpty
<1>5. Held = {} BY <1>4 DEF Held
<1>6. Lined(Queues, Held, accepted, received) BY <1>3, <1>5 DEF Lined, Prec
<1>7. Prec(Items(inflight), Items(pending)) BY <1>4 DEF Prec
<1>8. (\A i \in 1..got : inflight[i].n \in received \cup {0}) /\ received \subseteq 1..accepted
  BY <1>1
<1> QED BY <1>4, <1>6, <1>7, <1>8, Zenon DEF LineInv

\* Every step keeps the line in order.
LEMMA StepLine == IInv /\ LineInv /\ [Next]_vars => LineInv'
<1> SUFFICES ASSUME IInv, LineInv, [Next]_vars PROVE LineInv' OBVIOUS
<1>1. CASE ConnAck \/ IncomingPublish \/ HandleEvent
  BY <1>1, Handlers, AcceptLine
<1>2. CASE WritesPending BY <1>2, WritesPendingLine
<1>3. CASE WritesRequest BY <1>3, WritesRequestLine
<1>4. CASE PubAck BY <1>4, PubAckLine
<1>5. CASE ConnectionLost BY <1>5, ConnectionLostLine
<1>6. CASE BrokerReceives BY <1>6, BrokerReceivesLine
<1>7. CASE Stop BY <1>7, StopLine
<1>8. CASE \/ StartupTimeout \/ StartupFails \/ ConnectFails \/ SleepEnds \/ Stopped
           \/ (\E topic \in {"message", "status"} : Offer(topic))
           \/ BrokerForgets \/ UNCHANGED vars
  BY <1>8, QuietSteps, QuietKeeps
<1> QED BY <1>1, <1>2, <1>3, <1>4, <1>5, <1>6, <1>7, <1>8, Zenon DEF Next
------------------------------------------------------------------------------
(***************************************************************************)
(* The promise of AtLeastOnce.tla.                                         *)
(***************************************************************************)

\* The numbers waiting after a step.
LEMMA WaitingNext == Waiting' = Nums(Line')
<1>1. (Waiting = Nums(Line))' BY WaitingIs, PTL
<1> QED BY <1>1

\* Subscriptions have no number.
LEMMA NumsBesides ==
    ASSUME NEW S, NEW T, S \ {Subscribe} = T \ {Subscribe}
    PROVE  Nums(S) = Nums(T)
<1>1. Subscribe.n = 0 BY DEF Subscribe, Msg
<1>2. ASSUME NEW U PROVE Nums(U) = Nums(U \ {Subscribe}) BY <1>1, Zenon DEF Nums
<1> QED BY <1>2, Zenon

\* Every step of the publisher, the client and the broker is a step of the
\* promise, or changes nothing that it speaks of.
LEMMA StepPromise == IInv /\ LineInv /\ [Next]_vars => [Promise!Next]_(Promise!vars)
<1> SUFFICES ASSUME IInv, LineInv, [Next]_vars
             PROVE  Promise!Next \/ UNCHANGED <<accepted, Waiting, received, lost>>
  BY Zenon DEF Promise!vars
<1>w. Waiting = Nums(Line) /\ Waiting' = Nums(Line') BY WaitingIs, WaitingNext
<1>t. /\ accepted \in Nat /\ received \subseteq 1..accepted
      /\ \A x \in Line : x.n \in Nat /\ x.n <= accepted
  BY LineTyped DEF Line, LineInv
<1>1. CASE ConnAck \/ IncomingPublish \/ HandleEvent
  <2>1. PICK new : Accepts(new) /\ UNCHANGED <<client, received>> BY <1>1, Handlers
  <2>2. PICK gone \in SUBSET (Items(buffer) \cup new) :
                 /\ Line' \cup gone = Line \cup new
                 /\ lost' = lost \cup Nums(gone)
                 /\ Nums(gone) \cap Nums(Line') = {}
                 /\ Nums(gone) \cap received = {}
    BY <2>1, AcceptLine
  <2>3. Nums(new) = accepted + 1..accepted' /\ accepted' \in Nat /\ accepted' >= accepted
    BY <2>1 DEF Accepts
  <2>4. Nums(Line') \cup Nums(gone) = Waiting \cup Nums(new)
    <3>1. Nums(Line' \cup gone) = Nums(Line') \cup Nums(gone) BY Zenon DEF Nums
    <3>2. Nums(Line \cup new) = Nums(Line) \cup Nums(new) BY Zenon DEF Nums
    <3> QED BY <1>w, <2>2, <3>1, <3>2
  <2> DEFINE g == Nums(gone)
  <2>5. g \in SUBSET (Waiting \cup (accepted + 1)..accepted') BY <2>3, <2>4
  <2>6. Waiting' = (Waiting \cup (accepted + 1)..accepted') \ g BY <1>w, <2>2, <2>3, <2>4
  <2>7. g \cap received = {} /\ lost' = lost \cup g BY <2>2
  <2>8. received' = received BY <2>1
  <2> HIDE DEF g
  <2>9. Promise!Accept BY <2>3, <2>5, <2>6, <2>7, <2>8 DEF Promise!Accept
  <2> QED BY <2>9 DEF Promise!Next
<1>2. CASE WritesPending \/ WritesRequest
  <2>1. SameLine /\ UNCHANGED <<accepted, received, lost>>
    BY <1>2, WritesPendingLine, WritesRequestLine
  <2>2. Nums(Line') = Nums(Line) BY <2>1, NumsBesides DEF SameLine
  <2> QED BY <1>w, <2>1, <2>2
<1>3. CASE PubAck
  <2>1. UNCHANGED <<accepted, received, lost>> BY <1>3, PubAckLine
  <2>2. PICK h \in Messages :
                 /\ h.n \in received \cup {0} /\ Prec({h}, Line')
                 /\ Line \ {Subscribe} = ({h} \cup Line') \ {Subscribe}
    BY <1>3, PubAckLine
  <2>3. Nums(Line) = Nums({h} \cup Line') BY <2>2, NumsBesides
  <2>4. Nums({h} \cup Line') = ({h.n} \ {0}) \cup Nums(Line') BY Zenon DEF Nums
  <2>5. CASE h.n = 0
    <3>1. Nums(Line) = Nums(Line') BY <2>3, <2>4, <2>5
    <3> QED BY <1>w, <2>1, <3>1
  <2>6. CASE h.n # 0
    <3>1. Waiting = {h.n} \cup Waiting' BY <1>w, <2>3, <2>4, <2>6
    <3>2. \A m \in Waiting' : h.n < m BY <1>w, <2>2, <2>6 DEF Nums, Prec
    <3>3. Waiting' \subseteq Nat /\ h.n \in Nat
      <4>1. Waiting \subseteq Nat BY <1>t, <1>w DEF Nums
      <4> QED BY <3>1, <4>1
    <3>4. h.n \notin Waiting' BY <3>2, <3>3
    <3>5. h.n \in Waiting \cap received BY <2>2, <2>6, <3>1
    <3>6. ASSUME NEW m \in Waiting PROVE h.n <= m
      <4>1. CASE m = h.n BY <3>3, <4>1
      <4>2. CASE m \in Waiting'
        <5>1. h.n < m /\ m \in Nat /\ h.n \in Nat BY <3>2, <3>3, <4>2
        <5> QED BY <5>1
      <4> QED BY <3>1, <4>1, <4>2
    <3>7. Waiting' = Waiting \ {h.n} BY <3>1, <3>4
    <3>8. Promise!Settle BY <2>1, <3>5, <3>6, <3>7 DEF Promise!Settle
    <3> QED BY <3>8 DEF Promise!Next
  <2> QED BY <2>5, <2>6
<1>4. CASE ConnectionLost
  <2>1. Line' = Line /\ UNCHANGED <<accepted, received, lost>> BY <1>4, ConnectionLostLine
  <2> QED BY <1>w, <2>1
<1>5. CASE BrokerReceives
  <2> DEFINE m == inflight[got + 1]
  <2>1. /\ Line' = Line /\ UNCHANGED <<accepted, lost>>
        /\ m \in Messages /\ m \in Line /\ received' = received \cup ({m.n} \ {0})
        /\ Ahead = {m} \cup Ahead' /\ Prec({m}, Ahead')
        /\ \A x \in Line : x \in Ahead \/ x.n \in received \cup {0}
    BY <1>5, BrokerReceivesLine
  <2> HIDE DEF m
  <2>2. CASE m.n = 0 BY <1>w, <2>1, <2>2
  <2>3. CASE m.n # 0
    <3>1. m.n \in Waiting BY <1>w, <2>1, <2>3, Zenon DEF Nums
    <3>2. ASSUME NEW k \in Waiting, k < m.n PROVE k \in received
      <4>1. PICK x \in Line : k = x.n /\ x.n # 0 BY <1>w, Zenon DEF Nums
      <4>2. x \notin Ahead
        <5>1. x # m BY <1>t, <2>1, <3>2, <4>1
        <5>2. x \notin Ahead'
          <6> SUFFICES ASSUME x \in Ahead' PROVE FALSE OBVIOUS
          <6>1. m.n < x.n BY <2>1, <2>3, <4>1 DEF Prec
          <6>2. x.n \in Nat /\ m.n \in Nat BY <1>t, <2>1
          <6> QED BY <3>2, <4>1, <6>1, <6>2
        <5> QED BY <2>1, <5>1, <5>2
      <4> QED BY <2>1, <4>1, <4>2
    <3>3. received' = received \cup {m.n} BY <2>1, <2>3
    <3>4. Waiting' = Waiting BY <1>w, <2>1
    <3>5. Promise!Deliver BY <2>1, <3>1, <3>2, <3>3, <3>4 DEF Promise!Deliver
    <3> QED BY <3>5 DEF Promise!Next
  <2> QED BY <2>2, <2>3
<1>6. CASE Stop
  <2>1. Line' = {} /\ UNCHANGED <<accepted, received>> /\ lost' = lost \cup (Waiting \ received)
    BY <1>6, StopLine
  <2>2. Nums({}) = {} BY DEF Nums
  <2>3. Waiting' = {} BY <1>w, <2>1, <2>2
  <2>4. Promise!Abandon BY <2>1, <2>3 DEF Promise!Abandon
  <2> QED BY <2>4 DEF Promise!Next
<1>7. CASE \/ StartupTimeout \/ StartupFails \/ ConnectFails \/ SleepEnds \/ Stopped
           \/ (\E topic \in {"message", "status"} : Offer(topic))
           \/ BrokerForgets \/ UNCHANGED vars
  <2>1. QuietLine BY <1>7, QuietSteps
  <2>2. Line' = Line /\ UNCHANGED <<accepted, received, lost>> BY <2>1, QuietKeeps
  <2> QED BY <1>w, <2>2
<1> QED BY <1>1, <1>2, <1>3, <1>4, <1>5, <1>6, <1>7, Zenon DEF Next

\* Nothing is waiting at the start.
LEMMA InitPromise == Init => Promise!Init
<1> SUFFICES ASSUME Init PROVE Promise!Init OBVIOUS
<1>1. inflight = <<>> /\ pending = <<>> /\ chan = <<>> /\ buffer = <<>>
      /\ accepted = 0 /\ received = {} /\ lost = {}
  BY DEF Init
<1>2. Numbers(<<>>) = {}
  <2>1. Nums({}) = {} BY DEF Nums
  <2> QED BY <2>1, ItemsNumbers, ItemsEmpty
<1>3. Waiting = {} BY <1>1, <1>2 DEF Waiting
<1> QED BY <1>1, <1>3 DEF Promise!Init

\* The publisher, with the client and the broker, implements AtLeastOnce for
\* every capacity of the buffer and the channels: enqueue accepts in order,
\* buffer_message gives up only what the broker has not got, a message is
\* acknowledged after the broker has it, and after every reconnect the order in
\* which messages arrive for the first time is the order they were accepted in.
THEOREM PromiseKept == Spec => KeepsPromise
<1>1. Init => IInv /\ LineInv BY InitInv, InitLine
<1>2. IInv /\ LineInv /\ [Next]_vars => (IInv /\ LineInv)' BY StepInv, StepLine
<1> QED BY <1>1, <1>2, InitPromise, StepPromise, PTL DEF Spec, KeepsPromise, Promise!Spec
------------------------------------------------------------------------------
PromiseInv == accepted \in Nat /\ Promise!Accounted

\* What the promise amounts to: no message is forgotten without a trace.
LEMMA PromiseStep == PromiseInv /\ [Promise!Next]_(Promise!vars) => PromiseInv'
<1> SUFFICES ASSUME PromiseInv, [Promise!Next]_(Promise!vars) PROVE PromiseInv' OBVIOUS
<1> DEFINE w == Waiting
           u == Waiting'
<1>0. accepted \in Nat /\ received \cup w \cup lost = 1..accepted /\ lost \cap (received \cup w) = {}
  BY DEF PromiseInv, Promise!Accounted
<1>a. SUFFICES accepted' \in Nat /\ received' \cup u \cup lost' = 1..accepted'
               /\ lost' \cap (received' \cup u) = {}
  BY DEF PromiseInv, Promise!Accounted
<1>1. CASE Promise!Accept
  <2> DEFINE new == (accepted + 1)..accepted'
  <2>1. accepted' \in Nat /\ accepted' >= accepted BY <1>1 DEF Promise!Accept
  <2>2. PICK gone \in SUBSET (w \cup new) :
           /\ gone \cap received = {}
           /\ u = (w \cup new) \ gone
           /\ lost' = lost \cup gone
    BY <1>1 DEF Promise!Accept
  <2>3. received' = received BY <1>1 DEF Promise!Accept
  <2>4. 1..accepted' = 1..accepted \cup new /\ (1..accepted) \cap new = {} BY <1>0, <2>1
  <2> HIDE DEF new, w, u
  <2>5. received' \cup u \cup lost' = 1..accepted' BY <1>0, <2>2, <2>3, <2>4
  <2>6. lost' \cap (received' \cup u) = {} BY <1>0, <2>2, <2>3, <2>4
  <2> QED BY <2>1, <2>5, <2>6
<1>2. CASE Promise!Deliver
  <2>1. PICK n \in w : received' = received \cup {n} BY <1>2 DEF Promise!Deliver
  <2>2. accepted' = accepted /\ u = w /\ lost' = lost BY <1>2 DEF Promise!Deliver
  <2> HIDE DEF w, u
  <2> QED BY <1>0, <2>1, <2>2
<1>3. CASE Promise!Settle
  <2>1. PICK n \in w \cap received : u = w \ {n} BY <1>3 DEF Promise!Settle
  <2>2. accepted' = accepted /\ received' = received /\ lost' = lost BY <1>3 DEF Promise!Settle
  <2> HIDE DEF w, u
  <2> QED BY <1>0, <2>1, <2>2
<1>4. CASE Promise!Abandon
  <2>1. u = {} /\ lost' = lost \cup (w \ received) /\ accepted' = accepted /\ received' = received
    BY <1>4 DEF Promise!Abandon
  <2> HIDE DEF w, u
  <2> QED BY <1>0, <2>1
<1>5. CASE UNCHANGED Promise!vars
  <2>1. u = w /\ lost' = lost /\ accepted' = accepted /\ received' = received
    BY <1>5 DEF Promise!vars
  <2> HIDE DEF w, u
  <2> QED BY <1>0, <2>1
<1> QED BY <1>1, <1>2, <1>3, <1>4, <1>5 DEF Promise!Next

\* Every message that enqueue was given has reached the broker, is waiting, or
\* was given up before the broker had it, and none that was given up turns up
\* again, whatever the publisher, the client and the broker do.
THEOREM PromiseAccounts == Spec => []Promise!Accounted
<1>1. Promise!Init => PromiseInv BY DEF Promise!Init, PromiseInv, Promise!Accounted
<1>2. PromiseInv => Promise!Accounted BY DEF PromiseInv
<1> QED BY <1>1, <1>2, PromiseStep, PromiseKept, PTL DEF KeepsPromise, Promise!Spec
------------------------------------------------------------------------------
(***************************************************************************)
(* What subscribers see.                                                   *)
(***************************************************************************)

\* The messages of a retained topic in the line are no newer than the last.
TopicsInv ==
    \A t \in Tracked : \A x \in Line : x.topic = t =>
        x.n # 0 /\ x.n <= last[t].n /\ (x.n = last[t].n => x.v = last[t].v)

LastInv == \A t \in Tracked : last[t].n <= accepted

\* While there is one in the line, the last is, unless it was evicted.
LatestInv ==
    \A t \in Tracked : last[t].n \notin lost /\ (\E x \in Line : x.topic = t) =>
        \E x \in Line : x.topic = t /\ x.n = last[t].n

\* Does the broker's retained message count?  A wiped broker gets the snapshot
\* again when it is connected, the link status only with the next one.
Clean(t) == ~wiped \/ (t = "state" /\ (net \/ ~known))

\* The broker is still to process the last message, or shows it for good.
CurrentInv ==
    pc # "stopped" =>
        \A t \in Tracked : last[t].n \notin lost /\ Clean(t) =>
            \/ \E x \in Ahead : x.topic = t /\ x.n = last[t].n
            \/ retained[t] = last[t].v /\ \A x \in Ahead : x.topic # t

\* Connected, the last message of the snapshot is the snapshot.
SnapInv ==
    /\ net => last["state"].v = snapshot
    /\ ~known => snapshot = 0 /\ last["state"].v = 0 /\ last["state"].n = 0

\* Connected, the announcement is past the buffer or has arrived.
OnlineInv ==
    /\ net /\ HasWill => retained["online"] = 1 \/ \E x \in Out : x.topic = "online"
    /\ \A x \in Line : x.topic = "online" => x.v = 1

ShowInv == TopicsInv /\ LastInv /\ LatestInv /\ CurrentInv /\ SnapInv /\ OnlineInv

\* The topics whose last message matters, and the others.
LEMMA TrackedTopics ==
    /\ "state" \in Tracked /\ "status" \in Tracked /\ \A t \in Tracked : t = "state" \/ t = "status"
    /\ Subscribe.topic = "subscribe" /\ Subscribe.topic \notin Tracked /\ Subscribe.topic # "online"
    /\ Online.topic = "online" /\ Online.v = 1
BY DEF Tracked, Subscribe, Online, Msg

\* What is ahead of the broker is in the line.
LEMMA AheadInLine == ASSUME IInv, LineInv PROVE Ahead \subseteq Line
<1>1. Rest \subseteq Items(inflight)
  <2>1. inflight \in Seq(Requests) /\ got \in Nat BY LineTyped, LenProperties DEF IInv, TypeOK
  <2> QED BY <2>1, SuffixItems DEF Rest
<1>2. All(Queues) = Items(chan) \cup Items(buffer) BY DEF All, Queues
<1> QED BY <1>1, <1>2 DEF Ahead, Out, Line, Held

\* What subscribers see, and the last messages, do not change.
QuietShow ==
    /\ UNCHANGED <<accepted, last, lost, snapshot, known, net, retained, wiped>>
    /\ pc = "stopped" => pc' = "stopped"

\* These steps touch nothing subscribers see.
LEMMA QuietShows ==
    ASSUME \/ StartupTimeout \/ StartupFails \/ ConnectFails \/ SleepEnds \/ Stopped
           \/ (\E topic \in {"message", "status"} : Offer(topic)) \/ UNCHANGED vars
    PROVE  QuietShow
<1>1. CASE StartupTimeout BY <1>1 DEF StartupTimeout, broker, outside, QuietShow
<1>2. CASE StartupFails BY <1>2 DEF StartupFails, broker, outside, QuietShow
<1>3. CASE ConnectFails BY <1>3 DEF ConnectFails, broker, outside, QuietShow
<1>4. CASE SleepEnds BY <1>4 DEF SleepEnds, broker, outside, QuietShow
<1>5. CASE Stopped BY <1>5, Zenon DEF Stopped, vars, broker, outside, QuietShow
<1>6. CASE \E topic \in {"message", "status"} : Offer(topic)
  BY <1>6, Zenon DEF Offer, broker, QuietShow
<1>7. CASE UNCHANGED vars BY <1>7, Zenon DEF vars, broker, outside, QuietShow
<1> QED BY <1>1, <1>2, <1>3, <1>4, <1>5, <1>6, <1>7

\* The line moves on without a message leaving it.
LEMMA MovesShow ==
    ASSUME ShowInv, QuietShow,
           Line' \ {Subscribe} = Line \ {Subscribe}, Ahead' \ {Subscribe} = Ahead \ {Subscribe},
           Out \ {Subscribe} \subseteq Out'
    PROVE  ShowInv'
<1>0. UNCHANGED <<accepted, last, lost, snapshot, known, net, retained, wiped>>
      /\ (pc = "stopped" => pc' = "stopped")
  BY DEF QuietShow
<1>1. ASSUME NEW x \in Line' PROVE x \in Line \/ x = Subscribe OBVIOUS
<1>2. ASSUME NEW x \in Line PROVE x \in Line' \/ x = Subscribe OBVIOUS
<1>3. ASSUME NEW x \in Ahead' PROVE x \in Ahead \/ x = Subscribe OBVIOUS
<1>4. ASSUME NEW x \in Ahead PROVE x \in Ahead' \/ x = Subscribe OBVIOUS
<1>5. ASSUME NEW x \in Out PROVE x \in Out' \/ x = Subscribe OBVIOUS
<1>6. TopicsInv' BY <1>0, <1>1, TrackedTopics DEF ShowInv, TopicsInv
<1>7. LastInv' BY <1>0 DEF ShowInv, LastInv
<1>8. LatestInv' BY <1>0, <1>1, <1>2, TrackedTopics, Zenon DEF ShowInv, LatestInv
<1>9. CurrentInv' BY <1>0, <1>3, <1>4, TrackedTopics, Zenon DEF ShowInv, CurrentInv, Clean
<1>10. SnapInv' BY <1>0 DEF ShowInv, SnapInv
<1>11. OnlineInv' BY <1>0, <1>1, <1>5, TrackedTopics DEF ShowInv, OnlineInv
<1> QED BY <1>6, <1>7, <1>8, <1>9, <1>10, <1>11 DEF ShowInv

\* An acknowledged message leaves the line: if it was the last of its topic,
\* none of the topic is left.
LEMMA PubAckShows ==
    ASSUME IInv, LineInv, ShowInv, PubAck
    PROVE  ShowInv'
<1>0. UNCHANGED <<accepted, last, lost, snapshot, known, net, retained, wiped, pc>>
  <2>1. lost' = lost BY PubAckLine
  <2> QED BY <2>1, Zenon DEF PubAck, broker, outside
<1>a. /\ Ahead' \ {Subscribe} = Ahead \ {Subscribe} /\ Out \ {Subscribe} \subseteq Out'
  BY PubAckLine
<1>h. PICK h \in Messages :
           Prec({h}, Line') /\ Line \ {Subscribe} = ({h} \cup Line') \ {Subscribe}
  BY PubAckLine
<1>1. ASSUME NEW x \in Line' PROVE x \in Line \/ x = Subscribe BY <1>h
<1>2. ASSUME NEW x \in Line PROVE x \in Line' \/ x = Subscribe \/ x = h BY <1>h
<1>3. ASSUME NEW x \in Ahead' PROVE x \in Ahead \/ x = Subscribe BY <1>a
<1>4. ASSUME NEW x \in Ahead PROVE x \in Ahead' \/ x = Subscribe BY <1>a
<1>5. ASSUME NEW x \in Out PROVE x \in Out' \/ x = Subscribe BY <1>a
<1>6. TopicsInv' BY <1>0, <1>1, TrackedTopics DEF ShowInv, TopicsInv
<1>7. LastInv' BY <1>0 DEF ShowInv, LastInv
<1>8. LatestInv'
  <2> SUFFICES ASSUME NEW t \in Tracked, last[t].n \notin lost, NEW y \in Line', y.topic = t
               PROVE  \E x \in Line' : x.topic = t /\ x.n = last[t].n
    BY <1>0, Zenon DEF LatestInv
  <2>1. y \in Line BY <1>1, TrackedTopics
  <2>2. PICK x \in Line : x.topic = t /\ x.n = last[t].n
    BY <2>1, Zenon DEF ShowInv, LatestInv
  <2>3. x # h
    <3> SUFFICES ASSUME x = h PROVE FALSE OBVIOUS
    <3>1. x.n # 0 /\ y.n # 0 /\ y.n <= last[t].n BY <2>1, <2>2 DEF ShowInv, TopicsInv
    <3>2. x.n < y.n BY <1>h, <3>1 DEF Prec
    <3>3. x.n \in Nat /\ y.n \in Nat BY <2>1, LineTyped DEF Line
    <3> QED BY <2>2, <3>1, <3>2, <3>3
  <2> QED BY <1>2, <2>2, <2>3, TrackedTopics
<1>9. CurrentInv' BY <1>0, <1>3, <1>4, TrackedTopics, Zenon DEF ShowInv, CurrentInv, Clean
<1>10. SnapInv' BY <1>0 DEF ShowInv, SnapInv
<1>11. OnlineInv' BY <1>0, <1>1, <1>5, TrackedTopics DEF ShowInv, OnlineInv
<1> QED BY <1>6, <1>7, <1>8, <1>9, <1>10, <1>11 DEF ShowInv

\* What the client resends ends with the last message of each topic.
LEMMA ConnectionLostShows ==
    ASSUME IInv, LineInv, ShowInv, ConnectionLost
    PROVE  ShowInv'
<1>0. /\ UNCHANGED <<accepted, last, lost, snapshot, known, wiped>>
      /\ net /\ net' = FALSE /\ retained' = [retained EXCEPT !["online"] = 0] /\ pc = "running"
  BY Zenon DEF ConnectionLost
<1>1. Line' = Line /\ Ahead' = Line BY ConnectionLostLine
<1>2. TopicsInv' BY <1>0, <1>1 DEF ShowInv, TopicsInv
<1>3. LastInv' BY <1>0 DEF ShowInv, LastInv
<1>4. LatestInv' BY <1>0, <1>1 DEF ShowInv, LatestInv
<1>5. CurrentInv'
  <2> SUFFICES ASSUME NEW t \in Tracked, last[t].n \notin lost, Clean(t)'
               PROVE  \/ \E x \in Line : x.topic = t /\ x.n = last[t].n
                      \/ retained'[t] = last[t].v /\ \A x \in Line : x.topic # t
    BY <1>0, <1>1, Zenon DEF CurrentInv
  <2>1. CASE \E x \in Line : x.topic = t
    BY <2>1, Zenon DEF ShowInv, LatestInv
  <2>2. CASE \A x \in Line : x.topic # t
    <3>1. Clean(t) BY <1>0, Zenon DEF Clean
    <3>2. \A x \in Ahead : x.topic # t BY <2>2, AheadInLine
    <3>3. pc # "stopped" BY <1>0
    <3>4. retained[t] = last[t].v BY <3>1, <3>2, <3>3, Zenon DEF ShowInv, CurrentInv
    <3>5. t # "online" /\ t \in Retained BY DEF Tracked, Retained
    <3>6. retained'[t] = retained[t] BY <1>0, <3>5 DEF IInv, TypeOK
    <3> QED BY <2>2, <3>4, <3>6
  <2> QED BY <2>1, <2>2
<1>6. SnapInv' BY <1>0 DEF ShowInv, SnapInv
<1>7. OnlineInv' BY <1>0, <1>1 DEF ShowInv, OnlineInv
<1> QED BY <1>2, <1>3, <1>4, <1>5, <1>6, <1>7 DEF ShowInv

\* The broker processes a message: an older one only while the last is to come.
LEMMA BrokerReceivesShows ==
    ASSUME IInv, LineInv, ShowInv, BrokerReceives
    PROVE  ShowInv'
<1> DEFINE m == inflight[got + 1]
<1>0. /\ UNCHANGED <<accepted, last, lost, snapshot, known, wiped, net, pc>>
      /\ retained' = (IF m.topic \in Retained THEN [retained EXCEPT ![m.topic] = m.v] ELSE retained)
  BY Zenon DEF BrokerReceives, outside
<1>1. /\ Line' = Line /\ m \in Messages /\ m \in Line
      /\ Out = {m} \cup Out' /\ Ahead = {m} \cup Ahead' /\ Prec({m}, Ahead')
  BY BrokerReceivesLine
<1> HIDE DEF m
<1>r. retained \in [Retained -> Nat] BY DEF IInv, TypeOK
<1>2. TopicsInv' BY <1>0, <1>1 DEF ShowInv, TopicsInv
<1>3. LastInv' BY <1>0 DEF ShowInv, LastInv
<1>4. LatestInv' BY <1>0, <1>1 DEF ShowInv, LatestInv
<1>5. CurrentInv'
  <2> SUFFICES ASSUME pc # "stopped", NEW t \in Tracked, last[t].n \notin lost, Clean(t)
               PROVE  \/ \E x \in Ahead' : x.topic = t /\ x.n = last[t].n
                      \/ retained'[t] = last[t].v /\ \A x \in Ahead' : x.topic # t
    BY <1>0, Zenon DEF CurrentInv, Clean
  <2>0. t \in Retained BY DEF Tracked, Retained
  <2>1. \/ \E x \in Ahead : x.topic = t /\ x.n = last[t].n
        \/ retained[t] = last[t].v /\ \A x \in Ahead : x.topic # t
    BY Zenon DEF ShowInv, CurrentInv
  <2>2. CASE m.topic # t
    <3>1. retained'[t] = retained[t] BY <1>0, <1>r, <2>0, <2>2
    <3> QED BY <1>1, <2>1, <2>2, <3>1
  <2>3. CASE m.topic = t
    <3>1. PICK x \in Ahead : x.topic = t /\ x.n = last[t].n BY <1>1, <2>1, <2>3
    <3>2. CASE x # m BY <1>1, <3>1, <3>2
    <3>3. CASE x = m
      <4>1. m.v = last[t].v BY <1>1, <3>1, <3>3 DEF ShowInv, TopicsInv
      <4>2. retained'[t] = m.v BY <1>0, <1>r, <2>0, <2>3
      <4>3. ASSUME NEW y \in Ahead', y.topic = t PROVE FALSE
        <5>1. y \in Line BY <1>1, AheadInLine
        <5>2. m.n # 0 /\ y.n # 0 /\ y.n <= last[t].n
          BY <1>1, <2>3, <4>3, <5>1 DEF ShowInv, TopicsInv
        <5>3. m.n < y.n BY <1>1, <5>2 DEF Prec
        <5>4. m.n \in Nat /\ y.n \in Nat BY <1>1, <5>1, LineTyped DEF Line
        <5> QED BY <3>1, <3>3, <5>2, <5>3, <5>4
      <4> QED BY <4>1, <4>2, <4>3
    <3> QED BY <3>2, <3>3
  <2> QED BY <2>2, <2>3
<1>6. SnapInv' BY <1>0 DEF ShowInv, SnapInv
<1>7. OnlineInv'
  <2>1. \A x \in Line' : x.topic = "online" => x.v = 1 BY <1>1 DEF ShowInv, OnlineInv
  <2>2. ASSUME net, HasWill
        PROVE  retained'["online"] = 1 \/ \E x \in Out' : x.topic = "online"
    <3>0. "online" \in Retained BY DEF Retained
    <3>1. retained["online"] = 1 \/ \E x \in Out : x.topic = "online"
      BY <2>2 DEF ShowInv, OnlineInv
    <3>2. CASE m.topic = "online"
      <4>1. m.v = 1 BY <1>1, <3>2 DEF ShowInv, OnlineInv
      <4> QED BY <1>0, <1>r, <3>0, <3>2, <4>1
    <3>3. CASE m.topic # "online"
      <4>1. retained'["online"] = retained["online"] BY <1>0, <1>r, <3>0, <3>3
      <4> QED BY <1>1, <3>1, <3>3, <4>1
    <3> QED BY <3>2, <3>3
  <2> QED BY <1>0, <2>1, <2>2 DEF OnlineInv
<1> QED BY <1>2, <1>3, <1>4, <1>5, <1>6, <1>7 DEF ShowInv

\* A publisher that has stopped shows nothing more.
LEMMA StopShows ==
    ASSUME IInv, LineInv, ShowInv, Stop
    PROVE  ShowInv'
<1>0. UNCHANGED <<accepted, last, snapshot, known>> /\ net' = FALSE /\ pc' = "stopped"
  BY Zenon DEF Stop, outside
<1>1. Line' = {} BY StopLine
<1>2. TopicsInv' /\ LatestInv' BY <1>1 DEF TopicsInv, LatestInv
<1>3. LastInv' BY <1>0 DEF ShowInv, LastInv
<1>4. CurrentInv' BY <1>0 DEF CurrentInv
<1>5. SnapInv' BY <1>0 DEF ShowInv, SnapInv
<1>6. OnlineInv' BY <1>0, <1>1 DEF OnlineInv
<1> QED BY <1>2, <1>3, <1>4, <1>5, <1>6 DEF ShowInv

\* A broker that forgets owes the last link status, and the snapshot until the
\* next connection.
LEMMA ForgetsShows ==
    ASSUME IInv, LineInv, ShowInv, BrokerForgets
    PROVE  ShowInv'
<1>0. /\ UNCHANGED <<accepted, last, lost, snapshot, known, net, pc>> /\ ~net /\ wiped' = TRUE
      /\ retained' = [t \in Retained |-> 0]
  BY Zenon DEF BrokerForgets
<1>1. Line' = Line /\ Ahead' = Ahead BY QuietSteps, QuietKeeps
<1>2. TopicsInv' BY <1>0, <1>1 DEF ShowInv, TopicsInv
<1>3. LastInv' BY <1>0 DEF ShowInv, LastInv
<1>4. LatestInv' BY <1>0, <1>1 DEF ShowInv, LatestInv
<1>5. CurrentInv'
  <2> SUFFICES ASSUME NEW t \in Tracked, Clean(t)'
               PROVE  retained'[t] = last[t].v /\ \A x \in Ahead : x.topic # t
    BY <1>0, <1>1, Zenon DEF CurrentInv
  <2>1. t = "state" /\ ~known BY <1>0, Zenon DEF Clean
  <2>2. last[t].v = 0 /\ last[t].n = 0 BY <2>1 DEF ShowInv, SnapInv
  <2>3. retained'[t] = 0 BY <1>0 DEF Tracked, Retained
  <2>4. ASSUME NEW x \in Ahead, x.topic = t PROVE FALSE
    <3>1. x \in Line BY AheadInLine
    <3>2. x.n # 0 /\ x.n <= last[t].n BY <2>4, <3>1 DEF ShowInv, TopicsInv
    <3>3. x.n \in Nat BY <3>1, LineTyped DEF Line
    <3> QED BY <2>2, <3>2, <3>3
  <2> QED BY <2>2, <2>3, <2>4
<1>6. SnapInv' BY <1>0 DEF ShowInv, SnapInv
<1>7. OnlineInv' BY <1>0, <1>1 DEF ShowInv, OnlineInv
<1> QED BY <1>2, <1>3, <1>4, <1>5, <1>6, <1>7 DEF ShowInv

\* A handler has queued messages: the last of a topic is ahead of the broker, or
\* evicted, or was not replaced.
LEMMA AcceptShows ==
    ASSUME IInv, LineInv, ShowInv, NEW new, Accepts(new), News(new),
           UNCHANGED <<client, received>>, UNCHANGED retained, pc # "stopped",
           \A t \in Tracked : Clean(t)' => Clean(t) \/ last'[t] # last[t]
    PROVE  TopicsInv' /\ LastInv' /\ LatestInv' /\ CurrentInv'
           /\ (\A x \in Line' : x.topic = "online" => x.v = 1)
<1>1. PICK gone \in SUBSET (Items(buffer) \cup new) :
                 /\ Line' \cup gone = Line \cup new
                 /\ Ahead' \cup gone = Ahead \cup new
                 /\ lost' = lost \cup Nums(gone)
  BY AcceptLine
<1>2. Nums(new) = accepted + 1..accepted' /\ accepted' \in Nat /\ accepted' >= accepted
      /\ accepted \in Nat
  BY LineTyped DEF Accepts
<1>3. ASSUME NEW x \in new, x.n # 0 PROVE x.n \in Nat /\ x.n > accepted /\ x.n <= accepted'
  <2>1. x.n \in Nums(new) BY <1>3, Zenon DEF Nums
  <2> QED BY <1>2, <2>1
<1>4. \A x \in Line : x.n \in Nat /\ x.n <= accepted BY LineTyped DEF Line
<1>5. ASSUME NEW x \in gone, x.n # 0 PROVE x.n \in lost'
  BY <1>1, <1>5, Zenon DEF Nums
<1>6. last \in [Tracked -> [n : Nat, v : Nat]] BY DEF IInv, TypeOK
<1>7. ASSUME NEW t \in Tracked
      PROVE  /\ \A x \in Line' : x.topic = t =>
                   x.n # 0 /\ x.n <= last'[t].n /\ (x.n = last'[t].n => x.v = last'[t].v)
             /\ last'[t].n <= accepted'
             /\ last'[t].n \notin lost' /\ (\E x \in Line' : x.topic = t) =>
                   \E x \in Line' : x.topic = t /\ x.n = last'[t].n
             /\ last'[t].n \notin lost' /\ Clean(t)' =>
                   \/ \E x \in Ahead' : x.topic = t /\ x.n = last'[t].n
                   \/ retained'[t] = last'[t].v /\ \A x \in Ahead' : x.topic # t
  <2>1. CASE last'[t] = last[t] /\ \A x \in new : x.topic # t
    <3>1. ASSUME NEW x \in Line', x.topic = t PROVE x \in Line BY <1>1, <2>1, <3>1
    <3>2. \A x \in Line' : x.topic = t =>
                   x.n # 0 /\ x.n <= last'[t].n /\ (x.n = last'[t].n => x.v = last'[t].v)
      BY <2>1, <3>1 DEF ShowInv, TopicsInv
    <3>3. last'[t].n <= accepted'
      <4>1. last[t].n \in Nat /\ last[t].n <= accepted BY <1>6 DEF ShowInv, LastInv
      <4> QED BY <1>2, <2>1, <4>1
    <3>4. ASSUME last'[t].n \notin lost', NEW y \in Line', y.topic = t
          PROVE  \E x \in Line' : x.topic = t /\ x.n = last'[t].n
      <4>1. y \in Line BY <3>1, <3>4
      <4>2. last[t].n \notin lost BY <1>1, <2>1, <3>4
      <4>3. PICK x \in Line : x.topic = t /\ x.n = last[t].n
        BY <3>4, <4>1, <4>2, Zenon DEF ShowInv, LatestInv
      <4>4. x.n # 0 BY <4>3 DEF ShowInv, TopicsInv
      <4>5. x \notin gone BY <1>5, <2>1, <3>4, <4>3, <4>4
      <4>6. x \in Line' BY <1>1, <4>5
      <4> QED BY <2>1, <4>3, <4>6
    <3>5. ASSUME last'[t].n \notin lost', Clean(t)'
          PROVE  \/ \E x \in Ahead' : x.topic = t /\ x.n = last'[t].n
                 \/ retained'[t] = last'[t].v /\ \A x \in Ahead' : x.topic # t
      <4>1. last[t].n \notin lost BY <1>1, <2>1, <3>5
      <4>2. Clean(t) BY <2>1, <3>5
      <4>3. CASE \E x \in Ahead : x.topic = t /\ x.n = last[t].n
        <5>1. PICK x \in Ahead : x.topic = t /\ x.n = last[t].n BY <4>3
        <5>2. x \in Line BY AheadInLine
        <5>3. x.n # 0 BY <5>1, <5>2 DEF ShowInv, TopicsInv
        <5>4. x \notin gone BY <1>5, <2>1, <3>5, <5>1, <5>3
        <5>5. x \in Ahead' BY <1>1, <5>4
        <5> QED BY <2>1, <5>1, <5>5
      <4>4. CASE retained[t] = last[t].v /\ \A x \in Ahead : x.topic # t
        <5>1. \A x \in Ahead' : x.topic # t BY <1>1, <2>1, <4>4
        <5> QED BY <2>1, <4>4, <5>1
      <4> QED BY <4>1, <4>2, <4>3, <4>4, Zenon DEF ShowInv, CurrentInv
    <3> QED BY <3>2, <3>3, <3>4, <3>5, Zenon
  <2>2. CASE \E x \in new : /\ x.topic = t /\ x.n = last'[t].n /\ x.v = last'[t].v /\ x.n # 0
                            /\ \A y \in new : y.topic = t => y = x
    <3>1. PICK x \in new : /\ x.topic = t /\ x.n = last'[t].n /\ x.v = last'[t].v /\ x.n # 0
                            /\ \A y \in new : y.topic = t => y = x
      BY <2>2
    <3>2. x.n \in Nat /\ x.n > accepted /\ x.n <= accepted' BY <1>3, <3>1
    <3>3. last'[t].n <= accepted' BY <3>1, <3>2
    <3>4. ASSUME NEW y \in Line', y.topic = t
          PROVE  y.n # 0 /\ y.n <= last'[t].n /\ (y.n = last'[t].n => y.v = last'[t].v)
      <4>1. CASE y \in new
        <5>1. y = x BY <3>1, <3>4, <4>1
        <5>2. x.n <= x.n BY <3>2
        <5> QED BY <3>1, <5>1, <5>2
      <4>2. CASE y \in Line
        <5>1. y.n \in Nat /\ y.n <= accepted BY <1>4, <4>2
        <5>2. y.n # 0 BY <3>4, <4>2 DEF ShowInv, TopicsInv
        <5>3. y.n < x.n BY <1>2, <3>2, <5>1
        <5>4. y.n <= x.n /\ y.n # x.n BY <3>2, <5>1, <5>3
        <5> QED BY <3>1, <5>2, <5>4
      <4> QED BY <1>1, <4>1, <4>2
    <3>5. last'[t].n \notin lost' => x \in Line' /\ x \in Ahead' BY <1>1, <1>5, <3>1
    <3> QED BY <3>1, <3>3, <3>4, <3>5, Zenon
  <2> QED BY <2>1, <2>2, Zenon DEF News
<1>8. TopicsInv' BY <1>7, Zenon DEF TopicsInv
<1>9. LastInv' BY <1>7, Zenon DEF LastInv
<1>10. LatestInv' BY <1>7, Zenon DEF LatestInv
<1>11. CurrentInv' BY <1>7, Zenon DEF CurrentInv
<1>12. \A x \in Line' : x.topic = "online" => x.v = 1
  BY <1>1, TrackedTopics DEF News, ShowInv, OnlineInv
<1> QED BY <1>8, <1>9, <1>10, <1>11, <1>12

\* on_connack: the snapshot is sent again, the announcement first.
LEMMA ConnAckShows ==
    ASSUME IInv, LineInv, ShowInv, ConnAck
    PROVE  ShowInv'
<1>0. /\ pc \in {"startup", "running"} /\ net' = TRUE
      /\ UNCHANGED <<known, snapshot, client, retained, wiped, received>>
      /\ last' = IF HasSnapshot THEN [last EXCEPT !["state"] = [n |-> accepted + 1, v |-> snapshot]]
                                ELSE last
  BY Zenon DEF ConnAck, on_connack, outside
<1>1. PICK new : Accepts(new) /\ News(new) /\ (HasWill => Online \in Items(chan'))
  BY ConnAckAccepts
<1>2. last \in [Tracked -> [n : Nat, v : Nat]] /\ accepted \in Nat /\ snapshot \in Nat
  BY DEF IInv, TypeOK
<1>3. known => last'["state"] = [n |-> accepted + 1, v |-> snapshot]
  BY <1>0, <1>2, TrackedTopics DEF HasSnapshot
<1>4. ~known => last' = last BY <1>0 DEF HasSnapshot
<1>5. ASSUME NEW t \in Tracked, Clean(t)' PROVE Clean(t) \/ last'[t] # last[t]
  <2>1. CASE t = "state" /\ known
    <3>1. last[t].n <= accepted /\ last[t].n \in Nat BY <1>2 DEF ShowInv, LastInv
    <3>2. last'[t].n = accepted + 1 BY <1>3, <2>1
    <3>3. last'[t].n # last[t].n BY <1>2, <3>1, <3>2
    <3> QED BY <3>3
  <2>2. CASE ~(t = "state" /\ known) BY <1>0, <1>5, <2>2, Zenon DEF Clean
  <2> QED BY <2>1, <2>2
<1>6. pc # "stopped" BY <1>0
<1>7. TopicsInv' /\ LastInv' /\ LatestInv' /\ CurrentInv'
      /\ (\A x \in Line' : x.topic = "online" => x.v = 1)
  <2>1. UNCHANGED <<client, received>> /\ UNCHANGED retained BY <1>0
  <2> QED BY <1>1, <1>5, <1>6, <2>1, AcceptShows
<1>8. SnapInv'
  <2>1. CASE known
    <3>1. last'["state"].v = snapshot BY <1>3, <2>1
    <3> QED BY <1>0, <2>1, <3>1 DEF SnapInv
  <2>2. CASE ~known
    <3>1. snapshot = 0 /\ last["state"].v = 0 /\ last["state"].n = 0
      BY <2>2 DEF ShowInv, SnapInv
    <3> QED BY <1>0, <1>4, <2>2, <3>1 DEF SnapInv
  <2> QED BY <2>1, <2>2
<1>9. OnlineInv'
  <2>1. HasWill => Online \in Out' BY <1>1 DEF Out
  <2> QED BY <1>7, <2>1, TrackedTopics DEF OnlineInv
<1> QED BY <1>7, <1>8, <1>9 DEF ShowInv

\* What Publishes does to the snapshot and its last message.
LEMMA PublishesSnap ==
    ASSUME IInv, SnapInv, NEW topic \in {"message", "status"}, NEW v, NEW more \in Continuations,
           NEW up, Publishes(topic, v, more, up), topic = "status" /\ more # <<>> => known,
           UNCHANGED net
    PROVE  SnapInv' /\ (known => known')
<1> DEFINE folds == \E i \in 1..Len(more) : more[i] = "state"
<1>1. /\ known' = (known \/ topic = "message")
      /\ snapshot' = (IF folds THEN snapshot + 1 ELSE snapshot)
      /\ last' = [t \in Tracked |->
                     IF t = topic THEN [n |-> accepted + 1, v |-> v]
                     ELSE IF t = "state" /\ folds THEN [n |-> accepted', v |-> snapshot']
                     ELSE last[t]]
  BY Zenon DEF Publishes
<1>2. topic # "state" /\ known \in BOOLEAN BY DEF IInv, TypeOK
<1>3. more = <<>> => ~folds
  <2>1. 1..Len(<<>>) = {} OBVIOUS
  <2> QED BY <2>1, Zenon
<1> HIDE DEF folds
<1>4. last'["state"] = IF folds THEN [n |-> accepted', v |-> snapshot'] ELSE last["state"]
  BY <1>1, <1>2, TrackedTopics
<1>5. CASE folds
  <2>1. last'["state"].v = snapshot' BY <1>4, <1>5
  <2>2. known' BY <1>1, <1>3, <1>5
  <2> QED BY <1>1, <2>1, <2>2 DEF SnapInv
<1>6. CASE ~folds
  <2>1. snapshot' = snapshot /\ last'["state"] = last["state"] BY <1>1, <1>4, <1>6
  <2>2. known => known' BY <1>1
  <2> QED BY <2>1, <2>2, Zenon DEF SnapInv
<1> QED BY <1>5, <1>6

\* Commands answered at once, and events.
LEMMA PublishersShow ==
    ASSUME IInv, LineInv, ShowInv, IncomingPublish \/ HandleEvent
    PROVE  ShowInv'
<1>0. /\ pc = "running" /\ UNCHANGED <<net, client, retained, wiped, received>>
  <2>1. CASE IncomingPublish BY <2>1, Zenon DEF IncomingPublish, broker
  <2>2. CASE HandleEvent BY <2>2, Zenon DEF HandleEvent, broker, outside
  <2> QED BY <2>1, <2>2
<1>1. SnapInv' /\ (known => known')
  <2>0. SnapInv /\ UNCHANGED net BY <1>0 DEF ShowInv
  <2>1. CASE IncomingPublish
    <3>1. PICK more \in Follows["message"] : Publishes("message", 0, more, TRUE)
      BY <2>1, Zenon DEF IncomingPublish
    <3>2. more \in Continuations BY <3>1 DEF Follows, Continuations
    <3>3. "message" \in {"message", "status"} /\ "message" # "status" OBVIOUS
    <3> QED BY <2>0, <3>1, <3>2, <3>3, PublishesSnap
  <2>2. CASE HandleEvent
    <3> DEFINE e == Head(events)
    <3>1. PICK more \in Follows[e.topic] :
             /\ e.topic = "status" /\ more # <<>> => snapshot > 0
             /\ Publishes(e.topic, e.v, more, state = "Connected")
      BY <2>2, Zenon DEF HandleEvent
    <3>2. e \in [topic : {"message", "status"}, v : Nat]
      BY <2>2, HeadTailProperties DEF HandleEvent, IInv, TypeOK
    <3>3. e.topic \in {"message", "status"}
      <4> HIDE DEF e
      <4> QED BY <3>2
    <3>4. more \in Continuations
      <4> HIDE DEF e
      <4> QED BY <3>1, <3>3 DEF Follows, Continuations
    <3>5. snapshot > 0 => known BY <2>0 DEF SnapInv
    <3> HIDE DEF e
    <3>6. e.topic = "status" /\ more # <<>> => known BY <3>1, <3>5
    <3>7. Publishes(e.topic, e.v, more, state = "Connected") BY <3>1
    <3> QED BY <2>0, <3>3, <3>4, <3>6, <3>7, PublishesSnap
  <2> QED BY <2>1, <2>2
<1>2. PICK new : Accepts(new) /\ News(new) BY Handlers
<1>3. ASSUME NEW t \in Tracked, Clean(t)' PROVE Clean(t) \/ last'[t] # last[t]
  BY <1>0, <1>1, <1>3, Zenon DEF Clean
<1>4. UNCHANGED <<client, received>> /\ UNCHANGED retained /\ pc # "stopped" BY <1>0
<1>5. TopicsInv' /\ LastInv' /\ LatestInv' /\ CurrentInv'
      /\ (\A x \in Line' : x.topic = "online" => x.v = 1)
  BY <1>2, <1>3, <1>4, AcceptShows
<1>6. Out \subseteq Out' BY <1>2, <1>4, AcceptLine
<1>7. OnlineInv' BY <1>0, <1>5, <1>6 DEF ShowInv, OnlineInv
<1> QED BY <1>1, <1>5, <1>7 DEF ShowInv

\* Every step keeps what subscribers see in step with the line.
LEMMA StepShow == IInv /\ LineInv /\ ShowInv /\ [Next]_vars => ShowInv'
<1> SUFFICES ASSUME IInv, LineInv, ShowInv, [Next]_vars PROVE ShowInv' OBVIOUS
<1>1. CASE ConnAck BY <1>1, ConnAckShows
<1>2. CASE IncomingPublish \/ HandleEvent BY <1>2, PublishersShow
<1>3. CASE WritesPending \/ WritesRequest
  <2>1. SameLine /\ UNCHANGED <<accepted, received, lost>>
    BY <1>3, WritesPendingLine, WritesRequestLine
  <2>2. QuietShow
    <3>1. CASE WritesPending BY <2>1, <3>1, Zenon DEF WritesPending, outside, QuietShow
    <3>2. CASE WritesRequest BY <2>1, <3>2, Zenon DEF WritesRequest, outside, QuietShow
    <3> QED BY <1>3, <3>1, <3>2
  <2> QED BY <2>1, <2>2, MovesShow DEF SameLine
<1>4. CASE PubAck BY <1>4, PubAckShows
<1>5. CASE ConnectionLost BY <1>5, ConnectionLostShows
<1>6. CASE BrokerReceives BY <1>6, BrokerReceivesShows
<1>7. CASE Stop BY <1>7, StopShows
<1>8. CASE BrokerForgets BY <1>8, ForgetsShows
<1>9. CASE \/ StartupTimeout \/ StartupFails \/ ConnectFails \/ SleepEnds \/ Stopped
           \/ (\E topic \in {"message", "status"} : Offer(topic)) \/ UNCHANGED vars
  <2>1. QuietLine BY <1>9, QuietSteps
  <2>2. Line' = Line /\ Out' = Out /\ Ahead' = Ahead BY <2>1, QuietKeeps
  <2>3. QuietShow BY <1>9, QuietShows
  <2>4. /\ Line' \ {Subscribe} = Line \ {Subscribe} /\ Ahead' \ {Subscribe} = Ahead \ {Subscribe}
        /\ Out \ {Subscribe} \subseteq Out'
    BY <2>2
  <2> QED BY <2>3, <2>4, MovesShow
<1> QED BY <1>1, <1>2, <1>3, <1>4, <1>5, <1>6, <1>7, <1>8, <1>9, Zenon DEF Next

\* Nothing is in line, and nothing is shown, at the start.
LEMMA InitShow == Init => ShowInv
<1> SUFFICES ASSUME Init PROVE ShowInv OBVIOUS
<1>1. inflight = <<>> /\ pending = <<>> /\ chan = <<>> /\ buffer = <<>> /\ got = 0
      /\ accepted = 0 /\ last = [t \in Tracked |-> [n |-> 0, v |-> 0]] /\ net = FALSE
      /\ retained = [t \in Retained |-> 0] /\ snapshot \in {0, 1} /\ known = (snapshot = 1)
  BY DEF Init
<1>2. Items(inflight) = {} /\ Items(pending) = {} /\ Items(chan) = {} /\ Items(buffer) = {}
  BY <1>1, ItemsEmpty
<1>3. Line = {} BY <1>2 DEF Line, Held, All, Queues
<1>4. Ahead = {}
  <2>1. Ahead \subseteq Line BY InitInv, InitLine, AheadInLine
  <2> QED BY <1>3, <2>1
<1>5. \A t \in Tracked : last[t].n = 0 /\ last[t].v = 0 /\ t \in Retained /\ retained[t] = 0
  BY <1>1 DEF Tracked, Retained
<1>6. TopicsInv /\ LatestInv BY <1>3 DEF TopicsInv, LatestInv
<1>7. LastInv BY <1>1, <1>5 DEF LastInv
<1>8. CurrentInv BY <1>4, <1>5 DEF CurrentInv
<1>9. SnapInv BY <1>1, <1>5, TrackedTopics DEF SnapInv
<1>10. OnlineInv BY <1>1, <1>3 DEF OnlineInv
<1> QED BY <1>6, <1>7, <1>8, <1>9, <1>10 DEF ShowInv

\* Once everything is out, the retained snapshot is the current one, whatever
\* was evicted, resent or forgotten before: on_connack publishes it again after
\* every reconnect and the client resends in order, so that an older one never
\* stays behind a newer one.  The last link status likewise while the broker
\* keeps it, and "online".
THEOREM RetainedCurrent == Spec => []RetainedIsCurrent
<1>1. Init => IInv /\ LineInv /\ ShowInv BY InitInv, InitLine, InitShow
<1>2. IInv /\ LineInv /\ ShowInv /\ [Next]_vars => (IInv /\ LineInv /\ ShowInv)'
  BY StepInv, StepLine, StepShow
<1>3. ASSUME IInv, LineInv, ShowInv PROVE RetainedIsCurrent
  <2> SUFFICES ASSUME CaughtUp
               PROVE  /\ last["state"].n \notin lost => retained["state"] = snapshot
                      /\ last["status"].n \notin lost /\ ~wiped =>
                            retained["status"] = last["status"].v
                      /\ HasWill => retained["online"] = 1
    BY Zenon DEF RetainedIsCurrent
  <2>1. net /\ buffer = <<>> /\ chan = <<>> /\ pending = <<>> /\ inflight = <<>>
    BY DEF CaughtUp
  <2>2. Items(inflight) = {} /\ Items(pending) = {} /\ Items(chan) = {} /\ Items(buffer) = {}
    BY <2>1, ItemsEmpty
  <2>3. Line = {} BY <2>2 DEF Line, Held, All, Queues
  <2>4. Ahead = {} /\ Out = {}
    <3>1. Ahead \subseteq Line BY <1>3, AheadInLine
    <3> QED BY <2>3, <3>1 DEF Ahead
  <2>5. pc # "stopped" BY <1>3, <2>1 DEF IInv, UpIsKnown
  <2>6. \A t \in Tracked : last[t].n \notin lost /\ Clean(t) => retained[t] = last[t].v
    BY <1>3, <2>4, <2>5 DEF ShowInv, CurrentInv
  <2>7. Clean("state") /\ (~wiped => Clean("status")) BY <2>1 DEF Clean
  <2>8. last["state"].v = snapshot BY <1>3, <2>1 DEF ShowInv, SnapInv
  <2>9. HasWill => retained["online"] = 1 BY <1>3, <2>1, <2>4 DEF ShowInv, OnlineInv
  <2> QED BY <2>6, <2>7, <2>8, <2>9, TrackedTopics
<1> QED BY <1>1, <1>2, <1>3, PTL DEF Spec
=============================================================================
