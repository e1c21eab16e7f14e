----------------------------- MODULE Publisher ------------------------------
(***************************************************************************)
(* MqttPublisher (mqtt.rs): its event loop, the buffer in front of the     *)
(* client's request channel, the retained messages and the subscriptions,  *)
(* with rumqttc, the network and the broker around it.                     *)
(*                                                                         *)
(* The publisher is one task, so an arm of its select! is one step.  It    *)
(* never waits for the request channel: a message joins the buffer, and    *)
(* drain_buffer moves to the channel what fits.  rumqttc takes a request   *)
(* from the channel, writes it and keeps it until it is acknowledged; when *)
(* the connection breaks, it keeps what is written or in the channel, in   *)
(* order, and sends it first on the next connection.                       *)
(***************************************************************************)
EXTENDS Naturals, Sequences

CONSTANTS
    MaxBuffer,    \* max_buffer_size (mqtt_buffer_size, not validated: 0 is possible)
    ChanCap,      \* REQUEST_CHANNEL_CAPACITY
    InflightCap,  \* rumqttc: publishes on the wire at a time
    EventCap,     \* capacity of the channel from the sessions
    InitialDelay, \* of the backoff
    MaxDelay,     \* of the backoff
    Commands,     \* are charger commands enabled?
    HasWill,      \* is a Charge Point ID configured, for the Will and "online"?
    MaxOffered,   \* events and commands of the outside (a bound of the model)
    MaxBreaks     \* connections lost and brokers restarted (a bound of the model)

ASSUME PublisherAssumption ==
    /\ MaxBuffer \in Nat /\ ChanCap \in Nat \ {0} /\ InflightCap \in Nat \ {0}
    /\ EventCap \in Nat \ {0} /\ Commands \in BOOLEAN /\ HasWill \in BOOLEAN
    /\ InitialDelay \in Nat /\ MaxDelay \in Nat
    /\ MaxOffered \in Nat /\ MaxBreaks \in Nat

VARIABLES
    pc,         \* "startup" (try_connect), "running", "sleeping" or "stopped"
    state,      \* the MQTT connection state, mirrored to the state manager
    buffer,     \* MqttPublisher.buffer
    chan,       \* the request channel
    toSubscribe,\* subscribe_pending
    known,      \* has charge_point_state an entry for the charge point?
    snapshot,   \* the entry's version, 0 when it is blank
    backoff,    \* ExponentialBackoff.current
    events,     \* event_rx
    net,        \* is the connection to the broker up?
    inflight,   \* rumqttc: publishes written on this connection
    got,        \* how many of them the broker has processed
    pending,    \* rumqttc: requests kept from earlier connections
    retained,   \* the broker's retained messages: versions, 0 when there is none
    subscribed, \* has the broker the command subscriptions?
    offered,    \* events and commands so far
    breaks,     \* failures so far
    accepted,   \* history: messages buffered so far
    last,       \* history: the last message queued for a retained topic: number and version
    received,   \* history: numbers of messages the broker has got
    lost,       \* history: numbers of messages evicted or abandoned
    wiped       \* history: the broker lost its retained messages

client == <<inflight, got, pending>>
broker == <<net, retained, subscribed>>
outside == <<offered, breaks, wiped>>

vars == <<pc, state, buffer, chan, toSubscribe, known, snapshot, backoff, events, client, broker,
          outside, accepted, last, received, lost>>

\* Topics: "message" is one of the event topics, the others are retained.
Topics == {"message", "state", "status", "online"}
Retained == {"state", "status", "online"}
Tracked == {"state", "status"}
Msg(topic, v, n) == [topic |-> topic, v |-> v, n |-> n]
Subscribe == Msg("subscribe", 0, 0)

Init ==
    /\ pc = "startup" /\ state = "Connecting"
    /\ buffer = <<>> /\ chan = <<>> /\ toSubscribe = FALSE
    /\ snapshot \in {0, 1} /\ known = (snapshot = 1) /\ backoff = InitialDelay
    /\ events = <<>>
    /\ inflight = <<>> /\ got = 0 /\ pending = <<>>
    /\ net = FALSE /\ retained = [t \in Retained |-> 0] /\ subscribed = FALSE
    /\ offered = 0 /\ breaks = 0 /\ wiped = FALSE
    /\ accepted = 0 /\ last = [t \in Tracked |-> [n |-> 0, v |-> 0]]
    /\ received = {} /\ lost = {}
------------------------------------------------------------------------------
(***************************************************************************)
(* The buffer and the request channel.  A handler may queue several        *)
(* messages; q is what it has made of the two so far.                      *)
(***************************************************************************)
Queues == [buffer |-> buffer, chan |-> chan, lost |-> lost]

Fits(q) ==
    IF Len(q.buffer) <= ChanCap - Len(q.chan) THEN Len(q.buffer) ELSE ChanCap - Len(q.chan)

\* Mutant: the message that was refused joins the back of the buffer.
DrainRequeues(q) ==
    IF Len(q.buffer) > Fits(q)
    THEN [q EXCEPT !.chan = q.chan \o SubSeq(q.buffer, 1, Fits(q)),
                   !.buffer = Append(SubSeq(q.buffer, Fits(q) + 2, Len(q.buffer)),
                                     q.buffer[Fits(q) + 1])]
    ELSE [q EXCEPT !.chan = q.chan \o q.buffer, !.buffer = <<>>]

\* try_publish is refused when the channel is full; the message stays in front.
drain_buffer(q) ==
    [buffer |-> SubSeq(q.buffer, Fits(q) + 1, Len(q.buffer)),
     chan |-> q.chan \o SubSeq(q.buffer, 1, Fits(q)),
     lost |-> q.lost]

\* Mutant: the comparison lets one message too many in.
EvictsLate(q, m) ==
    IF Len(q.buffer) > MaxBuffer /\ q.buffer # <<>>
    THEN [q EXCEPT !.buffer = Append(Tail(q.buffer), m),
                   !.lost = @ \cup ({Head(q.buffer).n} \ {0})]
    ELSE [q EXCEPT !.buffer = Append(q.buffer, m)]

\* At capacity the oldest message gives way, if there is one.
buffer_message(q, m) ==
    IF Len(q.buffer) >= MaxBuffer /\ q.buffer # <<>>
    THEN [buffer |-> Append(Tail(q.buffer), m), chan |-> q.chan,
          lost |-> q.lost \cup ({Head(q.buffer).n} \ {0})]
    ELSE [q EXCEPT !.buffer = Append(q.buffer, m)]

\* Mutant: while connected, the message waits for the next tick.
EnqueuesOnly(q, m, up) == buffer_message(q, m)

enqueue(q, m, up) == IF up THEN drain_buffer(buffer_message(q, m)) ELSE buffer_message(q, m)

\* push_front and a drain, when there is a Charge Point ID to announce.
publish_online(q) ==
    IF HasWill THEN drain_buffer([q EXCEPT !.buffer = <<Msg("online", 1, 0)>> \o @]) ELSE q

SetQueues(q) == buffer' = q.buffer /\ chan' = q.chan /\ lost' = q.lost

\* What a handler queues: a message of the topic, the result of a command that
\* was refused at once, the snapshot if one of them changed it.
Follows == [message |-> {<<>>, <<"state">>},
            status |-> {<<>>, <<"message">>, <<"message", "state">>}]

Publishes(topic, v, more, up) ==
    LET More(i) == Msg(more[i], IF more[i] = "state" THEN snapshot + 1 ELSE 0, accepted + 1 + i)
        q1 == enqueue(Queues, Msg(topic, v, accepted + 1), up)
        q2 == enqueue(q1, More(1), up)
        q3 == enqueue(q2, More(2), up)
        folds == \E i \in 1..Len(more) : more[i] = "state"
    IN /\ known' = (known \/ topic = "message")
       /\ snapshot' = IF folds THEN snapshot + 1 ELSE snapshot
       /\ accepted' = accepted + 1 + Len(more)
       /\ last' = [t \in Tracked |->
                      IF t = topic THEN [n |-> accepted + 1, v |-> v]
                      ELSE IF t = "state" /\ folds THEN [n |-> accepted', v |-> snapshot']
                      ELSE last[t]]
       /\ SetQueues(CASE Len(more) = 0 -> q1 [] Len(more) = 1 -> q2 [] OTHER -> q3)

\* Mutant: a subscription that finds no room waits in the buffer.
SubscribesLater(q, due) ==
    IF due /\ Len(q.chan) < ChanCap THEN [q EXCEPT !.chan = Append(@, Subscribe)]
    ELSE IF due THEN [q EXCEPT !.buffer = Append(@, Subscribe)] ELSE q

\* try_subscribe, when a subscription is due; it waits for room otherwise.
Subscribes(q, due) ==
    IF due /\ Len(q.chan) < ChanCap THEN [q EXCEPT !.chan = Append(@, Subscribe)] ELSE q

StillDue(q, due) == due /\ Len(q.chan) >= ChanCap
------------------------------------------------------------------------------
(***************************************************************************)
(* The arms of the select! in run, and try_connect.                        *)
(***************************************************************************)

\* Mutants: the subscriptions are sent on the first connection only; the
\* snapshots are not sent again.
DueOnce == Commands /\ pc = "startup"
NothingToRepublish == FALSE

\* What ExponentialBackoff.current becomes in next_delay (the multiplier is two).
next_delay(current) == IF 2 * current <= MaxDelay THEN 2 * current ELSE MaxDelay

\* Are subscriptions due on a new connection?
DueOnConnect == Commands

HasSnapshot == known

\* on_connack: online, the backlog, the snapshots, the subscriptions.
on_connack ==
    LET q1 == drain_buffer(publish_online(Queues))
        q2 == IF HasSnapshot
              THEN enqueue(q1, Msg("state", snapshot, accepted + 1), TRUE) ELSE q1
    IN /\ state' = "Connected"
       /\ backoff' = InitialDelay
       /\ SetQueues(Subscribes(q2, DueOnConnect))
       /\ toSubscribe' = StillDue(q2, DueOnConnect)
       /\ accepted' = IF HasSnapshot THEN accepted + 1 ELSE accepted
       /\ last' = IF HasSnapshot THEN [last EXCEPT !["state"] = [n |-> accepted + 1, v |-> snapshot]]
                                ELSE last

ConnAck ==
    /\ pc \in {"startup", "running"} /\ ~net
    /\ pc' = "running"
    /\ net' = TRUE
    /\ on_connack
    /\ UNCHANGED <<known, snapshot, events, client, retained, subscribed, outside, received>>

StartupTimeout ==
    /\ pc = "startup"
    /\ pc' = "running" /\ state' = "Reconnecting"
    /\ UNCHANGED <<buffer, chan, toSubscribe, known, snapshot, backoff, events, client, broker,
                   outside, accepted, last, received, lost>>

\* A failed attempt inside try_connect sleeps there.
StartupFails ==
    /\ pc = "startup"
    /\ backoff' = next_delay(backoff)
    /\ UNCHANGED <<pc, state, buffer, chan, toSubscribe, known, snapshot, events, client, broker,
                   outside, accepted, last, received, lost>>

\* Mutant: the tick that made room does not fill it.
TickSubscribesOnly(q) ==
    /\ SetQueues(Subscribes(q, toSubscribe))
    /\ toSubscribe' = StillDue(q, toSubscribe)

\* Every other event of poll() is a chance to subscribe and to drain.
Tick(q) ==
    /\ SetQueues(drain_buffer(Subscribes(q, toSubscribe)))
    /\ toSubscribe' = StillDue(q, toSubscribe)

\* poll() writes a request: one kept from an earlier connection first.
WritesPending ==
    /\ pc = "running" /\ net /\ pending # <<>>
    /\ pending' = Tail(pending)
    /\ \/ /\ Head(pending) = Subscribe
          /\ subscribed' = TRUE
          /\ UNCHANGED inflight
       \/ /\ Head(pending) # Subscribe
          /\ inflight' = Append(inflight, Head(pending))
          /\ UNCHANGED subscribed
    /\ Tick(Queues)
    /\ UNCHANGED <<pc, state, known, snapshot, backoff, events, got, net, retained, outside,
                   accepted, last, received>>

WritesRequest ==
    /\ pc = "running" /\ net /\ pending = <<>> /\ chan # <<>>
    /\ Len(inflight) < InflightCap
    /\ \/ /\ Head(chan) = Subscribe
          /\ subscribed' = TRUE
          /\ UNCHANGED inflight
       \/ /\ Head(chan) # Subscribe
          /\ inflight' = Append(inflight, Head(chan))
          /\ UNCHANGED subscribed
    /\ Tick([Queues EXCEPT !.chan = Tail(chan)])
    /\ UNCHANGED <<pc, state, known, snapshot, backoff, events, got, pending, net, retained,
                   outside, accepted, last, received>>

PubAck ==
    /\ pc = "running" /\ net /\ got > 0
    /\ got' = got - 1
    /\ inflight' = Tail(inflight)
    /\ Tick(Queues)
    /\ UNCHANGED <<pc, state, known, snapshot, backoff, events, pending, broker, outside, accepted,
                   last, received>>

\* A command arrives that is answered at once: malformed, for a charger that is
\* not connected, or too many.  One that is dispatched queues nothing.
IncomingPublish ==
    /\ pc = "running" /\ net /\ subscribed /\ offered < MaxOffered
    /\ offered' = offered + 1
    /\ \E more \in Follows["message"] : Publishes("message", 0, more, TRUE)
    /\ UNCHANGED <<pc, state, toSubscribe, backoff, events, client, broker, breaks, wiped,
                   received>>

\* rumqttc keeps every publish that is not acknowledged and every request that
\* is still in the channel.
Kept == inflight \o pending \o chan

\* poll() fails; the sessions are clean and the broker publishes the Will.
ConnectionLost ==
    /\ pc = "running" /\ net /\ breaks < MaxBreaks
    /\ breaks' = breaks + 1
    /\ net' = FALSE /\ subscribed' = FALSE
    /\ retained' = [retained EXCEPT !["online"] = 0]
    /\ pending' = Kept /\ inflight' = <<>> /\ got' = 0 /\ chan' = <<>>
    /\ state' = "Reconnecting"
    /\ backoff' = next_delay(backoff)
    /\ pc' = "sleeping"
    /\ UNCHANGED <<buffer, toSubscribe, known, snapshot, events, offered, wiped, accepted, last,
                   received, lost>>

ConnectFails ==
    /\ pc = "running" /\ ~net
    /\ backoff' = next_delay(backoff)
    /\ pc' = "sleeping"
    /\ UNCHANGED <<state, buffer, chan, toSubscribe, known, snapshot, events, client, broker,
                   outside, accepted, last, received, lost>>

\* The sleep is inside the arm: no event is read before it ends.
SleepEnds ==
    /\ pc = "sleeping"
    /\ pc' = "running"
    /\ UNCHANGED <<state, buffer, chan, toSubscribe, known, snapshot, backoff, events, client,
                   broker, outside, accepted, last, received, lost>>

\* handle_event: a message, with or without a change of the snapshot, a result
\* likewise, or a link status, whose re-applied limit may be refused at once.
HandleEvent ==
    /\ pc = "running" /\ events # <<>>
    /\ events' = Tail(events)
    /\ \E more \in Follows[Head(events).topic] :
          /\ Head(events).topic = "status" /\ more # <<>> => snapshot > 0
          /\ Publishes(Head(events).topic, Head(events).v, more, state = "Connected")
    /\ UNCHANGED <<pc, state, toSubscribe, backoff, client, broker, outside, received>>

\* The numbers in a sequence of requests, and all that are on their way.
Numbers(s) == {s[i].n : i \in 1..Len(s)} \ {0}
Waiting == Numbers(inflight) \cup Numbers(pending) \cup Numbers(chan) \cup Numbers(buffer)

\* The shutdown token drops whichever future is running.
Stop ==
    /\ pc # "stopped"
    /\ pc' = "stopped"
    /\ state' = IF pc = "startup" THEN state ELSE "Disconnected"
    /\ net' = FALSE /\ subscribed' = FALSE
    /\ retained' = [retained EXCEPT !["online"] = 0]
    /\ lost' = lost \cup (Waiting \ received)
    /\ buffer' = <<>> /\ chan' = <<>> /\ pending' = <<>> /\ inflight' = <<>> /\ got' = 0
    /\ UNCHANGED <<toSubscribe, known, snapshot, backoff, events, outside, accepted, last, received>>

\* Nothing is left to do.
Stopped == pc = "stopped" /\ UNCHANGED vars
------------------------------------------------------------------------------
(***************************************************************************)
(* The sessions and the broker.                                            *)
(***************************************************************************)

\* The link states of two status messages differ; what other messages say does
\* not matter.
Version(topic) == IF topic = "status" THEN offered + 1 ELSE 0

\* try_send: an event that does not fit is dropped, and so is any once the
\* publisher has gone.
Offer(topic) ==
    /\ offered < MaxOffered
    /\ offered' = offered + 1
    /\ events' = IF Len(events) < EventCap /\ pc # "stopped"
                 THEN Append(events, [topic |-> topic, v |-> Version(topic)]) ELSE events
    /\ UNCHANGED <<pc, state, buffer, chan, toSubscribe, known, snapshot, backoff, client, broker,
                   breaks, wiped, accepted, last, received, lost>>

BrokerReceives ==
    /\ net /\ got < Len(inflight)
    /\ got' = got + 1
    /\ LET m == inflight[got + 1]
       IN /\ retained' = IF m.topic \in Retained THEN [retained EXCEPT ![m.topic] = m.v]
                                                 ELSE retained
          /\ received' = received \cup ({m.n} \ {0})
    /\ UNCHANGED <<pc, state, buffer, chan, toSubscribe, known, snapshot, backoff, events, inflight,
                   pending, net, subscribed, outside, accepted, last, lost>>

\* A broker that comes back without its retained messages.
BrokerForgets ==
    /\ ~net /\ breaks < MaxBreaks /\ pc # "stopped"
    /\ breaks' = breaks + 1
    /\ retained' = [t \in Retained |-> 0]
    /\ wiped' = TRUE
    /\ UNCHANGED <<pc, state, buffer, chan, toSubscribe, known, snapshot, backoff, events, client,
                   net, subscribed, offered, accepted, last, received, lost>>
------------------------------------------------------------------------------
Next ==
    \/ ConnAck \/ StartupTimeout \/ StartupFails
    \/ WritesPending \/ WritesRequest \/ PubAck \/ IncomingPublish
    \/ ConnectionLost \/ ConnectFails \/ SleepEnds \/ HandleEvent
    \/ Stop \/ Stopped
    \/ \E topic \in {"message", "status"} : Offer(topic)
    \/ BrokerReceives \/ BrokerForgets

Spec == Init /\ [][Next]_vars

(***************************************************************************)
(* poll() is driven whenever it has something to write or to read, events  *)
(* are read between two polls (select! takes its ready arms in random      *)
(* order), sleeps end, and a broker that is connected reads and answers.   *)
(* Nothing is assumed of connection attempts.                              *)
(***************************************************************************)
Fairness ==
    /\ WF_vars(WritesPending) /\ WF_vars(WritesRequest) /\ WF_vars(PubAck)
    /\ WF_vars(HandleEvent) /\ WF_vars(SleepEnds)
    /\ WF_vars(BrokerReceives)

FairSpec == Spec /\ Fairness
------------------------------------------------------------------------------
Messages == [topic : Topics, v : Nat, n : Nat]
Requests == Messages \cup {Subscribe}

TypeOK ==
    /\ pc \in {"startup", "running", "sleeping", "stopped"}
    /\ state \in {"Connecting", "Connected", "Reconnecting", "Disconnected"}
    /\ buffer \in Seq(Messages) /\ chan \in Seq(Requests)
    /\ toSubscribe \in BOOLEAN /\ known \in BOOLEAN /\ snapshot \in Nat /\ backoff \in Nat
    /\ events \in Seq([topic : {"message", "status"}, v : Nat])
    /\ net \in BOOLEAN /\ inflight \in Seq(Messages) /\ pending \in Seq(Requests)
    /\ got \in 0..Len(inflight)
    /\ retained \in [Retained -> Nat] /\ subscribed \in BOOLEAN
    /\ offered \in 0..MaxOffered /\ breaks \in 0..MaxBreaks /\ wiped \in BOOLEAN
    /\ accepted \in Nat /\ last \in [Tracked -> [n : Nat, v : Nat]]
    /\ received \subseteq Nat /\ lost \subseteq Nat

\* Messages are handed to the client only while the connection is up, so the
\* request channel is empty at every ConnAck: push_front never leaves "online"
\* in a full buffer, and the buffer keeps its capacity (one message when that
\* is configured as zero).
BufferBounded ==
    /\ ~net => chan = <<>> /\ state # "Connected"
    /\ Len(chan) <= ChanCap
    /\ Len(buffer) <= (IF MaxBuffer = 0 THEN 1 ELSE MaxBuffer)

\* A backlog never waits while there is room: whenever the connection is up,
\* the buffer is empty or the request channel full, and so is a subscription
\* that is due, so that the next request poll() writes moves both on.
NoIdleRoom ==
    net => /\ buffer = <<>> \/ Len(chan) = ChanCap
           /\ toSubscribe => Len(chan) = ChanCap

\* Everything that was accepted has been acknowledged.
CaughtUp == net /\ buffer = <<>> /\ chan = <<>> /\ pending = <<>> /\ inflight = <<>>

\* Once everything is out, subscribers see the last snapshot, whatever was
\* evicted, resent or forgotten on the way, unless that very message was pushed
\* out of a full buffer while connected; the last link status under the same
\* condition, if the broker has kept it; and "online".
RetainedIsCurrent ==
    CaughtUp =>
        /\ last["state"].n \notin lost => retained["state"] = snapshot
        /\ last["status"].n \notin lost /\ ~wiped => retained["status"] = last["status"].v
        /\ HasWill => retained["online"] = 1

\* Once the connection stays up, the publisher catches up again and again: the
\* backlog of every earlier outage gets out, and so does whatever is new.
BacklogDrains == <>[]net => []<>(events = <<>> /\ CaughtUp)

\* While the connection stays up, commands can be received.
CommandsArrive == Commands /\ <>[]net => <>[]subscribed

\* The promise of AtLeastOnce.tla: numbers leave the pipeline in order, after
\* the broker has them, or are given up before it has.
Promise == INSTANCE AtLeastOnce WITH waiting <- Waiting

KeepsPromise == Promise!Spec
=============================================================================
