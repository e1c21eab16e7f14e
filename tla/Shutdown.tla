------------------------------ MODULE Shutdown ------------------------------
(***************************************************************************)
(* The life of the process (main.rs, shutdown.rs): start-up, the MQTT      *)
(* thread, the signal, the drain and the join, with sessions whose charger *)
(* may stop reading (session.rs: the charger channel, its writer task and  *)
(* the teardown).                                                          *)
(*                                                                         *)
(* Session.tla assumes that the charger channel has room and Registry.tla  *)
(* that sessions return; here a full channel makes the session wait inside *)
(* an arm of its select!, where it looks at no token.                      *)
(***************************************************************************)
EXTENDS Naturals, Sequences

CONSTANTS
    Sessions,   \* charger connections, each of a charge point of its own
    ChanCap,    \* capacity of the channel to the writer task (256 in the code)
    MaxFrames   \* Central System frames per session (a bound of the model)

ASSUME ShutdownAssumption == ChanCap \in Nat \ {0} /\ MaxFrames \in Nat

VARIABLES
    main,      \* where main is
    token,     \* is the shutdown token cancelled?
    listening, \* listener_bound of the state manager
    server,    \* is the axum server, which owns a sender, still there?
    clean,     \* did the drain end with an empty registry?
    mqtt,      \* where the MQTT thread is
    pc,        \* where each session is
    cancelled, \* sessions displaced by a successor
    chan,      \* each session's charger channel
    writer,    \* what each writer task is doing
    reads,     \* does the charger take what is written to it?
    broken,    \* has the charger's connection failed?
    heirs,     \* displaced sessions whose successor holds the registry entry
    frames,    \* history: Central System frames each session has taken
    accepted,  \* history: frames put into the channel
    sent,      \* history: frames written to the charger
    closed,    \* history: chargers that got their close frame
    unheard    \* history: sessions whose last events the publisher did not take

process == <<main, token, listening, server, clean>>
charger == <<reads, broken, heirs>>
history == <<frames, accepted, sent, closed, unheard>>
vars == <<process, mqtt, pc, cancelled, chan, writer, charger, history>>

Init ==
    /\ main = "health" /\ token = FALSE /\ listening = FALSE /\ server = FALSE /\ clean = FALSE
    /\ mqtt = "new"
    /\ pc = [s \in Sessions |-> "none"] /\ cancelled = {}
    /\ chan = [s \in Sessions |-> <<>>] /\ writer = [s \in Sessions |-> "idle"]
    /\ reads = [s \in Sessions |-> TRUE] /\ broken = {} /\ heirs = {}
    /\ frames = [s \in Sessions |-> 0] /\ accepted = [s \in Sessions |-> 0]
    /\ sent = [s \in Sessions |-> 0] /\ closed = {} /\ unheard = {}

\* The process is there, with all its tasks.
Alive == main \notin {"exited", "failed"}

\* Sessions whose tasks are still there, with their senders.
Running == {s \in Sessions : pc[s] \notin {"none", "gone"}}

\* Sessions whose charge point has an entry in the connection registry: their
\* own, until a successor's insert replaces it, and then the successor's.
Registered == (Running \ cancelled) \cup heirs
------------------------------------------------------------------------------
(***************************************************************************)
(* main.                                                                   *)
(***************************************************************************)

\* A health port that cannot be bound is not fatal.
BindHealth ==
    /\ main = "health"
    /\ main' = "listener"
    /\ UNCHANGED <<token, listening, server, clean, mqtt, pc, cancelled, chan, writer, charger,
                   history>>

BindListener ==
    /\ main = "listener"
    /\ main' = "serving" /\ listening' = TRUE /\ server' = TRUE
    /\ UNCHANGED <<token, clean, mqtt, pc, cancelled, chan, writer, charger, history>>

\* exit(1).
BindListenerFails ==
    /\ main = "listener"
    /\ main' = "failed"
    /\ UNCHANGED <<token, listening, server, clean, mqtt, pc, cancelled, chan, writer, charger,
                   history>>

\* The handler is registered last; an earlier signal kills the process.
Signal ==
    /\ main = "serving" /\ ~token
    /\ token' = TRUE
    /\ UNCHANGED <<main, listening, server, clean, mqtt, pc, cancelled, chan, writer, charger,
                   history>>

StartDraining ==
    /\ main = "serving" /\ token
    /\ main' = "draining" /\ listening' = FALSE
    /\ UNCHANGED <<token, server, clean, mqtt, pc, cancelled, chan, writer, charger, history>>

\* The registry is polled every 100 ms; its emptiness is looked at first.
DrainPoll ==
    /\ main = "draining" /\ Registered = {}
    /\ main' = "joining" /\ clean' = TRUE
    /\ UNCHANGED <<token, listening, server, mqtt, pc, cancelled, chan, writer, charger, history>>

DrainTimeout ==
    /\ main = "draining" /\ Registered # {}
    /\ main' = "joining"
    /\ UNCHANGED <<token, listening, server, clean, mqtt, pc, cancelled, chan, writer, charger,
                   history>>

\* main has dropped its senders and joins the thread without a timeout; then
\* the runtime goes and with it every task.
JoinMqtt ==
    /\ main = "joining" /\ mqtt \in {"stopped", "unavailable"}
    /\ main' = "exited"
    /\ UNCHANGED <<token, listening, server, clean, mqtt, pc, cancelled, chan, writer, charger,
                   history>>

\* axum::serve returns once the connections it still serves have ended.
ServerStops ==
    /\ Alive /\ server /\ token
    /\ server' = FALSE
    /\ UNCHANGED <<main, token, listening, clean, mqtt, pc, cancelled, chan, writer, charger,
                   history>>

Exited == ~Alive /\ UNCHANGED vars
------------------------------------------------------------------------------
(***************************************************************************)
(* The MQTT thread.                                                        *)
(***************************************************************************)
\* A publisher that cannot be made (a certificate is missing) drops its receiver.
MqttStarts ==
    /\ Alive /\ mqtt = "new"
    /\ mqtt' \in {"connecting", "unavailable"}
    /\ UNCHANGED <<process, pc, cancelled, chan, writer, charger, history>>

\* Mutant: a publisher that cannot reach the broker in time gives up.
GivesUp == {"running", "stopped"}

\* Where try_connect leads, connected or not.
AfterStartup == {"running"}

\* try_connect returns within its timeout.
MqttStartupEnds ==
    /\ Alive /\ mqtt = "connecting"
    /\ mqtt' \in AfterStartup
    /\ UNCHANGED <<process, pc, cancelled, chan, writer, charger, history>>

\* Every clone of mqtt_tx is gone: main's, the server's, the sessions'.
SendersGone == main = "joining" /\ ~server /\ Running \cup heirs = {}

\* Mutant: run is not raced with the token.
OnlyWhenClosed == SendersGone

\* Both try_connect and run are raced with the token, and run ends when the
\* event channel closes.
MqttEnds == token \/ (mqtt = "running" /\ SendersGone)

MqttStops ==
    /\ Alive /\ mqtt \in {"connecting", "running"} /\ MqttEnds
    /\ mqtt' = "stopped"
    /\ UNCHANGED <<process, pc, cancelled, chan, writer, charger, history>>
------------------------------------------------------------------------------
(***************************************************************************)
(* A session: its loop as far as the channel to the charger goes, and the  *)
(* teardown.                                                               *)
(***************************************************************************)

\* An upgrade that was accepted goes on even when the server stops.
Register(s) ==
    /\ Alive /\ main \notin {"health", "listener"} /\ pc[s] = "none"
    /\ pc' = [pc EXCEPT ![s] = "forwarding"]
    /\ UNCHANGED <<process, mqtt, cancelled, chan, writer, charger, history>>

\* A newer connection of the same charger registers: its entry replaces that of
\* s, whose token it cancels.  The newer session is not followed here, only how
\* long it is registered.
Displaced(s) ==
    /\ Alive /\ s \in Running \ cancelled
    /\ cancelled' = cancelled \cup {s}
    /\ heirs' = heirs \cup {s}
    /\ UNCHANGED <<process, mqtt, pc, chan, writer, reads, broken, history>>

\* The newer session, or the last of its own successors, deregisters.
HeirLeaves(s) ==
    /\ Alive /\ s \in heirs
    /\ heirs' = heirs \ {s}
    /\ UNCHANGED <<process, mqtt, pc, cancelled, chan, writer, reads, broken, history>>

\* A frame of the Central System, or a Call of the proxy: the arm of the select!
\* now waits for room in the channel.
CentralFrame(s) ==
    /\ Alive /\ pc[s] = "forwarding" /\ frames[s] < MaxFrames
    /\ frames' = [frames EXCEPT ![s] = @ + 1]
    /\ pc' = [pc EXCEPT ![s] = "sending"]
    /\ UNCHANGED <<process, mqtt, cancelled, chan, writer, charger, accepted, sent, closed,
                   unheard>>

\* Mutant: the receiver outlives the writer task.
ReceiverKept(s) == FALSE

\* The receiver goes with the writer task.
ReceiverDropped(s) == writer[s] = "done"

\* Mutant: an off-by-one in the capacity.
RoomForOneMore(s) == Len(chan[s]) <= ChanCap /\ ~ReceiverDropped(s)

Room(s) == Len(chan[s]) < ChanCap /\ ~ReceiverDropped(s)

FrameQueued(s) ==
    /\ Alive /\ pc[s] = "sending" /\ Room(s)
    /\ chan' = [chan EXCEPT ![s] = Append(@, "frame")]
    /\ accepted' = [accepted EXCEPT ![s] = @ + 1]
    /\ pc' = [pc EXCEPT ![s] = "forwarding"]
    /\ UNCHANGED <<process, mqtt, cancelled, writer, charger, frames, sent, closed, unheard>>

FrameRefused(s) ==
    /\ Alive /\ pc[s] = "sending" /\ ReceiverDropped(s)
    /\ pc' = [pc EXCEPT ![s] = "teardown"]
    /\ UNCHANGED <<process, mqtt, cancelled, chan, writer, charger, history>>

\* The loop sees the token, its own or the shutdown's, or that the charger is
\* gone; only between two arms.
LoopEnds(s) ==
    /\ Alive /\ pc[s] = "forwarding"
    /\ token \/ s \in cancelled \cup broken
    /\ pc' = [pc EXCEPT ![s] = "teardown"]
    /\ UNCHANGED <<process, mqtt, cancelled, chan, writer, charger, history>>

\* Results and states are try_sent: a publisher that has gone takes none.
Emitted(s) == unheard' = IF mqtt \in {"stopped", "unavailable"} THEN unheard \cup {s} ELSE unheard

Teardown(s) ==
    /\ Alive /\ pc[s] = "teardown"
    /\ Emitted(s)
    /\ pc' = [pc EXCEPT ![s] = "closing"]
    /\ UNCHANGED <<process, mqtt, cancelled, chan, writer, charger, frames, accepted, sent,
                   closed>>

\* Mutant: the close frame overtakes what is queued.
ClosesFirst(s) == <<"close">> \o chan[s]

WithClose(s) == Append(chan[s], "close")

\* The close frame waits for room too, or is refused.
SendClose(s) ==
    /\ Alive /\ pc[s] = "closing"
    /\ Room(s) \/ ReceiverDropped(s)
    /\ chan' = [chan EXCEPT ![s] = IF Room(s) THEN WithClose(s) ELSE @]
    /\ pc' = [pc EXCEPT ![s] = "flushing"]
    /\ UNCHANGED <<process, mqtt, cancelled, writer, charger, history>>

\* 100 ms later the sender is dropped.
FlushTimeEnds(s) ==
    /\ Alive /\ pc[s] = "flushing"
    /\ pc' = [pc EXCEPT ![s] = "joining"]
    /\ UNCHANGED <<process, mqtt, cancelled, chan, writer, charger, history>>

\* Mutant: the session does not wait for its writer.
DoesNotWait(s) == TRUE

WriterJoined(s) == writer[s] = "done"

\* writer.await, without a timeout; then the last status and the
\* deregistration (Registry.tla has their steps).
SessionEnds(s) ==
    /\ Alive /\ pc[s] = "joining" /\ WriterJoined(s)
    /\ Emitted(s)
    /\ pc' = [pc EXCEPT ![s] = "gone"]
    /\ UNCHANGED <<process, mqtt, cancelled, chan, writer, charger, frames, accepted, sent,
                   closed>>
------------------------------------------------------------------------------
(***************************************************************************)
(* charger_writer, and the charger.                                        *)
(***************************************************************************)
\* recv() never returns None: the sender is dropped only after the close frame is
\* queued, which ends the loop, or refused, which means that it has ended.
WriterTakes(s) ==
    /\ Alive /\ pc[s] # "none" /\ writer[s] = "idle" /\ chan[s] # <<>>
    /\ writer' = [writer EXCEPT ![s] = Head(chan[s])]
    /\ chan' = [chan EXCEPT ![s] = Tail(@)]
    /\ UNCHANGED <<process, mqtt, pc, cancelled, charger, history>>

\* The write ends when the charger takes it or the connection fails.
WriterSends(s) ==
    /\ Alive /\ writer[s] \in {"frame", "close"}
    /\ \/ /\ reads[s] /\ s \notin broken
          /\ writer' = [writer EXCEPT ![s] = IF @ = "close" THEN "ending" ELSE "idle"]
          /\ sent' = [sent EXCEPT ![s] = IF writer[s] = "frame" THEN @ + 1 ELSE @]
          /\ closed' = IF writer[s] = "close" THEN closed \cup {s} ELSE closed
       \/ /\ s \in broken
          /\ writer' = [writer EXCEPT ![s] = "ending"]
          /\ UNCHANGED <<sent, closed>>
    /\ UNCHANGED <<process, mqtt, pc, cancelled, chan, charger, frames, accepted, unheard>>

\* ws_sink.close().await; the receiver is dropped after it.
WriterEnds(s) ==
    /\ Alive /\ writer[s] = "ending" /\ (reads[s] \/ s \in broken)
    /\ writer' = [writer EXCEPT ![s] = "done"]
    /\ UNCHANGED <<process, mqtt, pc, cancelled, chan, charger, history>>

ChargerPauses(s) ==
    /\ Alive /\ pc[s] \notin {"none", "gone"} /\ s \notin broken
    /\ reads' = [reads EXCEPT ![s] = ~@]
    /\ UNCHANGED <<process, mqtt, pc, cancelled, chan, writer, broken, heirs, history>>

ConnectionBreaks(s) ==
    /\ Alive /\ pc[s] \notin {"none", "gone"} /\ s \notin broken
    /\ broken' = broken \cup {s}
    /\ UNCHANGED <<process, mqtt, pc, cancelled, chan, writer, reads, heirs, history>>
------------------------------------------------------------------------------
MainStep ==
    \/ BindHealth \/ BindListener \/ BindListenerFails
    \/ StartDraining \/ DrainPoll \/ DrainTimeout \/ JoinMqtt

MqttStep == MqttStarts \/ MqttStartupEnds \/ MqttStops

SessionStep(s) ==
    \/ FrameQueued(s) \/ FrameRefused(s) \/ LoopEnds(s) \/ Teardown(s)
    \/ SendClose(s) \/ FlushTimeEnds(s) \/ SessionEnds(s)

WriterStep(s) == WriterTakes(s) \/ WriterSends(s) \/ WriterEnds(s)

Next ==
    \/ MainStep \/ Signal \/ ServerStops \/ Exited
    \/ MqttStep
    \/ \E s \in Sessions :
          \/ Register(s) \/ Displaced(s) \/ HeirLeaves(s) \/ CentralFrame(s)
          \/ SessionStep(s) \/ WriterStep(s)
          \/ ChargerPauses(s) \/ ConnectionBreaks(s)

Spec == Init /\ [][Next]_vars

(***************************************************************************)
(* Every task that can run does; timers fire.  Nothing is assumed of       *)
(* chargers, of newer connections, of the server's or of the signal.       *)
(***************************************************************************)
Fairness ==
    /\ WF_vars(MainStep) /\ WF_vars(MqttStep)
    /\ \A s \in Sessions : WF_vars(SessionStep(s)) /\ WF_vars(WriterStep(s))

FairSpec == Spec /\ Fairness
------------------------------------------------------------------------------
TypeOK ==
    /\ main \in {"health", "listener", "serving", "draining", "joining", "exited", "failed"}
    /\ token \in BOOLEAN /\ listening \in BOOLEAN /\ server \in BOOLEAN /\ clean \in BOOLEAN
    /\ mqtt \in {"new", "connecting", "running", "stopped", "unavailable"}
    /\ pc \in [Sessions -> {"none", "forwarding", "sending", "teardown", "closing", "flushing",
                            "joining", "gone"}]
    /\ cancelled \subseteq Sessions /\ broken \subseteq Sessions /\ heirs \subseteq Sessions
    /\ chan \in [Sessions -> Seq({"frame", "close"})]
    /\ \A s \in Sessions : Len(chan[s]) <= ChanCap
    /\ writer \in [Sessions -> {"idle", "frame", "close", "ending", "done"}]
    /\ reads \in [Sessions -> BOOLEAN]
    /\ frames \in [Sessions -> 0..MaxFrames]
    /\ accepted \in [Sessions -> 0..MaxFrames] /\ sent \in [Sessions -> 0..MaxFrames]
    /\ closed \subseteq Sessions /\ unheard \subseteq Sessions

\* Session s got everything queued for it and the close frame, and returned, or
\* had lost its connection.
ClosedCleanly(s) == s \in broken \/ (pc[s] = "gone" /\ s \in closed /\ sent[s] = accepted[s])

\* When main logs "All sessions closed cleanly", every session that had
\* registered and was not displaced was closed cleanly, however its writer, its
\* charger and the drain interleaved.
CleanMeansClosed ==
    [][~clean /\ clean' =>
          \A s \in Sessions \ cancelled : pc[s] # "none" => ClosedCleanly(s)]_vars

\* The close frame is the last thing a charger gets: no frame that was taken
\* from the Central System is cut off by it.
ClosedIsFlushed ==
    \A s \in Sessions : s \in closed => sent[s] = accepted[s] /\ chan[s] = <<>>

\* The publisher is there as long as sessions run: it takes the last events of
\* a session unless the shutdown has begun or it never came to be.
HeardUntilShutdown == unheard # {} => token \/ mqtt = "unavailable"

\* A signal ends the process, although sessions may wait for chargers that do
\* not read and hold on to their senders.
SignalExits == token ~> main = "exited"

\* A session that was cancelled ends, if its charger reads or its connection
\* fails; with a charger that does neither it waits for as long as the process
\* lives.
CancelledEnds ==
    \A s \in Sessions :
        <>[](reads[s] \/ s \in broken) =>
            (s \in cancelled ~> (pc[s] = "gone" \/ main = "exited"))
=============================================================================
