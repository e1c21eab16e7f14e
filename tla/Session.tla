------------------------------ MODULE Session -------------------------------
(***************************************************************************)
(* One charger's proxy session: run_session, forward_loop and              *)
(* send_local_calls (session.rs), with the charger's writer task, the two  *)
(* endpoints and the MQTT thread that dispatches commands to it.           *)
(*                                                                         *)
(* The session is one task.  Between two awaits it runs alone, so every    *)
(* arm of its select! is one action, from the event it takes to the end of *)
(* the arm.  Everything else (the charger, the Central System, the link    *)
(* breaking, the writer task, the dispatcher, the cancellation token, the  *)
(* clock) takes its own steps in between.                                  *)
(*                                                                         *)
(* Time: every age the code compares with a bound is a counter that Tick   *)
(* raises and that saturates at the bound; sleeps end at any moment.       *)
(***************************************************************************)
EXTENDS LocalCalls, Forwarder

CONSTANTS
    MaxUp,           \* frames the charger sends (a bound of the model)
    MaxDown,         \* frames the Central System sends (a bound of the model)
    Mixes,           \* how many of them and of commands together (a bound of the model)
    UpTypes,         \* which of "Call", "Bad", "Binary" the charger sends unasked
    DownTypes,       \* which of "Call", "Bad", "Ping" the Central System sends unasked
    CentralUidBase,  \* first unique id of the Central System's Calls, less one
    NewKinds,        \* the kinds of command that are dispatched
    Window           \* max_reconnect_window, in ticks

ASSUME SessionAssumption ==
    /\ MaxUp \in Nat /\ MaxDown \in Nat /\ CentralUidBase \in Nat
    /\ UpTypes \subseteq {"Call", "Bad", "Binary"}
    /\ DownTypes \subseteq {"Call", "Bad", "Ping"}
    /\ NewKinds \subseteq Kinds
    /\ Window \in Nat \ {0}
    \* The charger channel (256 messages) never fills: back-pressure from a
    \* charger that stops reading is outside this module.
    /\ MaxDown + NumCommands < 256

VARIABLES
    pc,           \* where run_session is
    upState,      \* the upstream state last set in the ConnectionStateManager
    winAge,       \* reconnecting_since: NoWindow, or its age
    closeCode,    \* the code of the close frame sent to the charger
    upBuffer,     \* forwarder.upstream_buffer
    pending,      \* forwarder.call_tracker.pending_calls
    inbox,        \* requests in the command channel
    queued,       \* local_calls.queued
    inFlight,     \* local_calls.in_flight
    commandsOpen, \* commands_open
    kind,         \* the kind of every command dispatched so far
    age,          \* the age of every waiting command since it was issued
    results,      \* the results emitted for every command, in order
    drained,      \* commands dispatched before the teardown's last try_recv (history)
    fwdUp,        \* messages forwarded charger -> Central System (metric)
    fwdDown,      \* messages forwarded Central System -> charger (metric)
    dropUp,       \* messages dropped charger -> Central System (metric)
    published     \* MessageForwarded events handed to the MQTT publisher

session == <<pc, upState, winAge, closeCode>>
commands == <<inbox, queued, inFlight, commandsOpen, kind, age, results, drained>>
metrics == <<fwdUp, fwdDown, dropUp, published>>

VARIABLES
    chargerUp,    \* the charger's WebSocket is open
    chargerIn,    \* frames from the charger, not yet read
    toCharger,    \* the 256-message channel to the writer task
    writerUp,     \* the writer task still holds the other end of it
    upLink,       \* the upstream connection: "none", "up" or "broken"
    centralIn,    \* frames from the Central System, not yet read
    asked,        \* ids of the Calls the charger has received and not answered
    heard,        \* ids of the Calls the Central System has received and not answered
    senderOpen,   \* the router still holds this session's command sender
    cancelled,    \* the session's CancellationToken
    issued,       \* commands dispatched so far
    upN,          \* frames the charger has sent so far
    downN         \* frames the Central System has sent so far

environment == <<chargerUp, writerUp, asked, senderOpen, cancelled, issued,
                 upN, downN>>

VARIABLES         \* history, read by the properties only
    fate,         \* what became of every frame of the charger
    lastUp,       \* number of the last charger frame written upstream
    lastDown,     \* number of the last central frame written to the charger
    downAge,      \* age of every Call of the Central System since it was forwarded
    leaked        \* commands whose answer was written upstream

history == <<fate, lastUp, lastDown, downAge, leaked>>

vars == <<session, upBuffer, pending, commands, metrics, chargerIn, toCharger,
          upLink, centralIn, heard, environment, history>>

NoWindow == Window + 1
CloseNormal == 1000
CloseGoingAway == 1001

Waiting == inbox \cup queued
Numbers(s) == {s[i].n : i \in 1..Len(s)}
LocalIsEmpty(q, flight) == q = {} /\ flight = NoFlight
------------------------------------------------------------------------------
Init ==
    /\ pc = "connecting" /\ upState = "Connecting" /\ winAge = NoWindow
    /\ closeCode = CloseNormal
    /\ upBuffer = <<>> /\ pending = {}
    /\ inbox = {} /\ queued = {} /\ inFlight = NoFlight /\ commandsOpen = TRUE
    /\ kind = [c \in Commands |-> "other"]
    /\ age = [c \in Commands |-> 0]
    /\ results = [c \in Commands |-> <<>>] /\ drained = 0
    /\ fwdUp = 0 /\ fwdDown = 0 /\ dropUp = 0 /\ published = {}
    /\ chargerUp = TRUE /\ chargerIn = <<>> /\ toCharger = <<>> /\ writerUp = TRUE
    /\ upLink = "none" /\ centralIn = <<>> /\ asked = {} /\ heard = {}
    /\ senderOpen = TRUE /\ cancelled = FALSE
    /\ issued = 0 /\ upN = 0 /\ downN = 0
    /\ fate = [n \in 1..MaxUp |-> "unsent"]
    /\ lastUp = 0 /\ lastDown = 0
    /\ downAge = [m \in 1..MaxDown |-> 0]
    /\ leaked = {}
------------------------------------------------------------------------------
(***************************************************************************)
(* Connecting, waiting and replaying: the body of run_session's loop.      *)
(***************************************************************************)

\* The head of the loop: the old upstream halves are gone, the state is set.
GoConnecting ==
    /\ pc' = "connecting"
    /\ upState' = "Connecting"
    /\ upLink' = "none"
    /\ centralIn' = <<>>

ConnectSucceeds ==
    /\ pc = "connecting"
    /\ pc' = "flushing"
    /\ upState' = "Connected"
    /\ winAge' = NoWindow
    /\ upLink' = "up"
    /\ UNCHANGED <<closeCode, upBuffer, pending, commands, metrics, chargerIn,
                   toCharger, centralIn, heard, environment, history>>

\* Mutant: every failed attempt restarts the reconnection window.
WindowRestarts == 0

\* get_or_insert_with(now) and its elapsed().
ReconnectElapsed == IF winAge = NoWindow THEN 0 ELSE winAge

ConnectFails ==
    /\ pc = "connecting"
    /\ winAge' = ReconnectElapsed
    /\ \/ /\ ReconnectElapsed >= Window
          /\ closeCode' = CloseGoingAway
          /\ pc' = "ending"
          /\ UNCHANGED upState
       \/ /\ ReconnectElapsed < Window
          /\ pc' = "backoff"
          /\ upState' = "Reconnecting"
          /\ UNCHANGED closeCode
    /\ UNCHANGED <<upBuffer, pending, commands, metrics, chargerIn, toCharger,
                   upLink, centralIn, heard, environment, history>>

BackoffElapses ==
    /\ pc = "backoff"
    /\ GoConnecting
    /\ UNCHANGED <<winAge, closeCode, upBuffer, pending, commands, metrics,
                   chargerIn, toCharger, heard, environment, history>>

\* Any frame read while waiting only cuts the wait short: it is not looked at,
\* not buffered, not counted.
BackoffReadsFrame ==
    /\ pc = "backoff"
    /\ chargerIn # <<>>
    /\ chargerIn' = Tail(chargerIn)
    /\ fate' = [fate EXCEPT ![Head(chargerIn).n] = "thrown"]
    /\ GoConnecting
    /\ UNCHANGED <<winAge, closeCode, upBuffer, pending, commands, metrics,
                   toCharger, heard, environment, lastUp, lastDown, downAge, leaked>>

BackoffEnds ==
    /\ pc = "backoff"
    /\ cancelled \/ ~chargerUp
    /\ pc' = "ending"
    /\ UNCHANGED <<upState, winAge, closeCode, upBuffer, pending, commands, metrics,
                   chargerIn, toCharger, upLink, centralIn, heard, environment, history>>

\* Mutants: the replayed frames stay in the buffer; they are not counted.
KeepsReplayed(k) == upBuffer
ForgetsReplayed(k) == fwdUp

\* What flush_upstream leaves in the buffer, and the counter after record_forwarded.
LeftAfterFlush(k) == SubSeq(upBuffer, k + 1, Len(upBuffer))
CountReplayed(k) == fwdUp + k

\* flush_upstream: the first k frames are written, and the write of the next
\* one, if there is one, fails.  No tracking, no MQTT event; the frames are
\* counted only when all of them went out.
FlushUpstream(k) ==
    /\ pc = "flushing"
    /\ k < Len(upBuffer) => upLink = "broken"
    /\ upBuffer' = LeftAfterFlush(k)
    /\ LET sent == {upBuffer[i] : i \in 1..k} IN
       /\ fate' = [n \in 1..MaxUp |->
                      IF n \in {f.n : f \in sent} THEN "replayed" ELSE fate[n]]
       /\ lastUp' = IF k = 0 THEN lastUp ELSE upBuffer[k].n
       /\ leaked' = leaked \cup {c \in Commands : \E f \in sent : f.uid = <<"proxy", c>>}
       /\ heard' = IF upLink = "up"
                     THEN heard \cup {f.uid : f \in {g \in sent : g.type = "Call"}}
                     ELSE heard
    /\ IF k = Len(upBuffer)
         THEN /\ fwdUp' = CountReplayed(k)
              /\ pc' = "forwarding"
              /\ UNCHANGED <<upState, upLink, centralIn>>
         ELSE GoConnecting /\ UNCHANGED fwdUp
    /\ UNCHANGED <<winAge, closeCode, pending, commands, fwdDown, dropUp, published,
                   chargerIn, toCharger, environment, lastDown, downAge>>

\* Mutant: the failed write does not leave forward_loop.
StaysInLoop ==
    /\ UNCHANGED pc
    /\ upState' = "Reconnecting"
    /\ winAge' = ReconnectElapsed

\* LoopOutcome::UpstreamLost: drop the (never filled) downstream buffer, set
\* the state, start the window, and wait.
LoseUpstream ==
    /\ pc' = "lostWait"
    /\ upState' = "Reconnecting"
    /\ winAge' = ReconnectElapsed

LostWaitElapses ==
    /\ pc = "lostWait"
    /\ GoConnecting
    /\ UNCHANGED <<winAge, closeCode, upBuffer, pending, commands, metrics,
                   chargerIn, toCharger, heard, environment, history>>

LostWaitCancelled ==
    /\ pc = "lostWait"
    /\ cancelled
    /\ pc' = "ending"
    /\ UNCHANGED <<upState, winAge, closeCode, upBuffer, pending, commands, metrics,
                   chargerIn, toCharger, upLink, centralIn, heard, environment, history>>
------------------------------------------------------------------------------
(***************************************************************************)
(* send_local_calls, for the queue q, Call in flight, tracker and results  *)
(* its caller has just left.  It sets the five variables it may change;    *)
(* pc' = "ending" is its Err, which every caller turns into ChargerGone.   *)
(***************************************************************************)
\* Mutants: messages overtake the ones already in the channel; the guard looks
\* at the charger's own Calls.
OvertakesForCharger(f) == <<f>> \o toCharger
WrongLineBusy(tracker) == has_recent_pending_in(tracker, "ChargerToCentral")

\* ChargerSink: a send is a push into the writer task's channel.
QueuedForCharger(f) == Append(toCharger, f)

LineBusy(tracker) == has_recent_pending_in(tracker, "CentralToCharger")

SendLocalCalls(q, flight, tracker, r) ==
    LET held == flight # NoFlight \/ LineBusy(tracker)
        bad == Unpreparable(q, kind)
    IN \/ /\ held
          /\ queued' = q /\ inFlight' = flight /\ results' = r
          /\ UNCHANGED <<pc, toCharger>>
       \/ /\ ~held
          /\ Sendable(q, kind) = {}
          /\ queued' = q \ bad /\ inFlight' = flight
          /\ results' = Report(r, bad, "Invalid")
          /\ UNCHANGED <<pc, toCharger>>
       \/ /\ ~held
          /\ \E c \in Sendable(q, kind) :
                /\ queued' = q \ (bad \cup {c})
                /\ IF writerUp
                     THEN /\ toCharger' = QueuedForCharger(Frame(0, "Call", <<"proxy", c>>))
                          /\ inFlight' = [cmd |-> c, age |-> 0]
                          /\ results' = Report(r, bad, "Invalid")
                          /\ UNCHANGED pc
                     ELSE /\ inFlight' = flight
                          /\ results' = Report(Report(r, bad, "Invalid"), {c}, "NotConnected")
                          /\ pc' = "ending"
                          /\ UNCHANGED toCharger

(***************************************************************************)
(* forward_loop: charger -> Central System.                                *)
(***************************************************************************)
ChargerFrame(types) ==
    /\ pc = "forwarding"
    /\ chargerIn # <<>>
    /\ Head(chargerIn).type \in types
    /\ chargerIn' = Tail(chargerIn)

\* The charger answers the Call in flight: the answer goes no further.
AnswerConsumed ==
    /\ ChargerFrame({"Result"})
    /\ IsOurs(inFlight, Head(chargerIn).uid)
    /\ fate' = [fate EXCEPT ![Head(chargerIn).n] = "consumed"]
    /\ SendLocalCalls(queued, NoFlight, pending,
                      Report(results, {inFlight.cmd}, "Answered"))
    /\ UNCHANGED <<upState, winAge, closeCode, upBuffer, pending, inbox, commandsOpen,
                   kind, age, drained, metrics, upLink, centralIn, heard, environment,
                   lastUp, lastDown, downAge, leaked>>

\* Everything else that parses, answers to no Call in flight included.
ForwardedUpstream(frame) ==
    ~(frame.type = "Result" /\ IsOurs(inFlight, frame.uid))

\* send_local_calls is called only if the local queue is not empty; on an
\* empty one it does nothing.
ForwardUpstream ==
    /\ ChargerFrame({"Call", "Result"})
    /\ LET f == Head(chargerIn) IN
       /\ ForwardedUpstream(f)
       /\ pending' = resolve_action(pending, f, "ChargerToCentral")
       /\ published' = published \cup
             {[dir |-> "ChargerToCentral", n |-> f.n, known |-> ActionKnown(pending, f)]}
       /\ fwdUp' = fwdUp + 1
       /\ lastUp' = f.n
       /\ fate' = [fate EXCEPT ![f.n] = "forwarded"]
       /\ leaked' = leaked \cup {c \in Commands : f.uid = <<"proxy", c>>}
       /\ heard' = IF f.type = "Call" /\ upLink = "up" THEN heard \cup {f.uid} ELSE heard
    /\ SendLocalCalls(queued, inFlight, pending', results)
    /\ UNCHANGED <<upState, winAge, closeCode, upBuffer, inbox, commandsOpen, kind,
                   age, drained, fwdDown, dropUp, upLink, centralIn, environment,
                   lastDown, downAge>>

\* The write fails: the frame is parsed again and buffered.
ForwardUpstreamFails ==
    /\ ChargerFrame({"Call", "Result"})
    /\ ForwardedUpstream(Head(chargerIn))
    /\ upLink = "broken"
    /\ upBuffer' = buffer_upstream(upBuffer, Head(chargerIn))
    /\ fate' = [n \in 1..MaxUp |->
                  CASE n = Head(chargerIn).n -> "buffered"
                    [] fate[n] = "buffered" /\ n \notin Numbers(upBuffer') -> "evicted"
                    [] OTHER -> fate[n]]
    /\ LoseUpstream
    /\ UNCHANGED <<closeCode, pending, commands, metrics, toCharger, upLink,
                   centralIn, heard, environment, lastUp, lastDown, downAge, leaked>>

\* A frame that does not parse is written as it is: not tracked, not counted,
\* not published.  If its write fails it is not buffered.
ForwardVerbatimUpstream ==
    /\ ChargerFrame({"Bad"})
    /\ lastUp' = Head(chargerIn).n
    /\ fate' = [fate EXCEPT ![Head(chargerIn).n] = "verbatim"]
    /\ UNCHANGED <<session, upBuffer, pending, commands, metrics, toCharger, upLink,
                   centralIn, heard, environment, lastDown, downAge, leaked>>

\* Mutant: the unparsed frame is buffered like a parsed one.
VerbatimBuffered ==
    /\ ChargerFrame({"Bad"})
    /\ upLink = "broken"
    /\ upBuffer' = buffer_upstream(upBuffer, Head(chargerIn))
    /\ fate' = [fate EXCEPT ![Head(chargerIn).n] = "buffered"]
    /\ LoseUpstream
    /\ UNCHANGED <<closeCode, pending, commands, metrics, toCharger, upLink,
                   centralIn, heard, environment, lastUp, lastDown, downAge, leaked>>

VerbatimUpstreamFails ==
    /\ ChargerFrame({"Bad"})
    /\ upLink = "broken"
    /\ fate' = [fate EXCEPT ![Head(chargerIn).n] = "lost"]
    /\ LoseUpstream
    /\ UNCHANGED <<closeCode, upBuffer, pending, commands, metrics, toCharger, upLink,
                   centralIn, heard, environment, lastUp, lastDown, downAge, leaked>>

IgnoreBinary ==
    /\ ChargerFrame({"Binary"})
    /\ fate' = [fate EXCEPT ![Head(chargerIn).n] = "ignored"]
    /\ UNCHANGED <<session, upBuffer, pending, commands, metrics, toCharger, upLink,
                   centralIn, heard, environment, lastUp, lastDown, downAge, leaked>>

\* Mutant: forward_loop has no cancellation arm.
EndsWithChargerOnly ==
    /\ pc = "forwarding"
    /\ ~chargerUp
    /\ pc' = "ending"
    /\ UNCHANGED <<upState, winAge, closeCode, upBuffer, pending, commands, metrics,
                   chargerIn, toCharger, upLink, centralIn, heard, environment, history>>

\* Close, end of stream or error from the charger, or the cancellation arm.
ForwardingEnds ==
    /\ pc = "forwarding"
    /\ cancelled \/ ~chargerUp
    /\ pc' = "ending"
    /\ UNCHANGED <<upState, winAge, closeCode, upBuffer, pending, commands, metrics,
                   chargerIn, toCharger, upLink, centralIn, heard, environment, history>>

(***************************************************************************)
(* forward_loop: Central System -> charger.  Sending to the charger is     *)
(* sending to the writer task's channel; it fails once that task is gone.  *)
(***************************************************************************)
CentralFrame(types) ==
    /\ pc = "forwarding"
    /\ centralIn # <<>>
    /\ Head(centralIn).type \in types
    /\ centralIn' = Tail(centralIn)

ForwardDownstream ==
    /\ CentralFrame({"Call", "Result"})
    /\ writerUp
    /\ LET f == Head(centralIn) IN
       /\ toCharger' = QueuedForCharger(f)
       /\ pending' = resolve_action(pending, f, "CentralToCharger")
       /\ published' = published \cup
             {[dir |-> "CentralToCharger", n |-> f.n, known |-> ActionKnown(pending, f)]}
       /\ fwdDown' = fwdDown + 1
       /\ downAge' = IF f.type = "Call" THEN [downAge EXCEPT ![f.n] = 0] ELSE downAge
    /\ UNCHANGED <<session, upBuffer, commands, fwdUp, dropUp, chargerIn, upLink, heard,
                   environment, fate, lastUp, lastDown, leaked>>

ForwardVerbatimDownstream ==
    /\ CentralFrame({"Bad"})
    /\ writerUp
    /\ toCharger' = QueuedForCharger(Head(centralIn))
    /\ UNCHANGED <<session, upBuffer, pending, commands, metrics, chargerIn, upLink,
                   heard, environment, history>>

DownstreamFails ==
    /\ CentralFrame({"Call", "Result", "Bad"})
    /\ ~writerUp
    /\ pc' = "ending"
    /\ UNCHANGED <<upState, winAge, closeCode, upBuffer, pending, commands, metrics,
                   chargerIn, toCharger, upLink, heard, environment, history>>

AnswerPing ==
    /\ CentralFrame({"Ping"})
    /\ \/ UNCHANGED session
       \/ upLink = "broken" /\ LoseUpstream /\ UNCHANGED closeCode
    /\ UNCHANGED <<upBuffer, pending, commands, metrics, chargerIn, toCharger, upLink,
                   heard, environment, history>>

UpstreamCloses ==
    /\ pc = "forwarding"
    /\ upLink = "broken"
    /\ LoseUpstream
    /\ UNCHANGED <<closeCode, upBuffer, pending, commands, metrics, chargerIn, toCharger,
                   upLink, centralIn, heard, environment, history>>

(***************************************************************************)
(* forward_loop: commands, timers.                                         *)
(***************************************************************************)
ReceiveCommand ==
    /\ pc = "forwarding" /\ commandsOpen
    /\ \E c \in Oldest(inbox) :
          LET displaced == Displaced(queued, kind, c)
              limits == {d \in displaced : IsLimit(kind[d])}
          IN /\ inbox' = inbox \ {c}
             /\ SendLocalCalls(Pushed(queued, kind, c), inFlight, pending,
                    Report(Report(results, limits, "Superseded"),
                           displaced \ limits, "Rejected"))
    /\ UNCHANGED <<upState, winAge, closeCode, upBuffer, pending, commandsOpen, kind,
                   age, drained, metrics, chargerIn, upLink, centralIn, heard, environment,
                   history>>

CommandsClose ==
    /\ pc = "forwarding" /\ commandsOpen
    /\ inbox = {} /\ ~senderOpen
    /\ commandsOpen' = FALSE
    /\ UNCHANGED <<session, upBuffer, pending, inbox, queued, inFlight, kind, age, results,
                   drained, metrics, chargerIn, toCharger, upLink, centralIn, heard, environment,
                   history>>

CommandTick ==
    /\ pc = "forwarding"
    /\ ~LocalIsEmpty(queued, inFlight)
    /\ LET expired == ExpiredQueued(queued, age)
           late == ExpiredFlight(inFlight)
       IN SendLocalCalls(queued \ expired,
                         IF late THEN NoFlight ELSE inFlight,
                         pending,
                         Report(results, expired \cup (IF late THEN {inFlight.cmd} ELSE {}),
                                "Timeout"))
    /\ UNCHANGED <<upState, winAge, closeCode, upBuffer, pending, inbox, commandsOpen, kind,
                   age, drained, metrics, chargerIn, upLink, centralIn, heard, environment,
                   history>>

Housekeeping ==
    /\ pc = "forwarding"
    /\ upBuffer' = evict_expired_messages(upBuffer)
    /\ fate' = [n \in 1..MaxUp |->
                  IF fate[n] = "buffered" /\ n \notin Numbers(upBuffer')
                    THEN "evicted" ELSE fate[n]]
    /\ pending' = cleanup_expired(pending)
    /\ UNCHANGED <<session, commands, metrics, chargerIn, toCharger, upLink, centralIn,
                   heard, environment, lastUp, lastDown, downAge, leaked>>
------------------------------------------------------------------------------
(***************************************************************************)
(* The end of the session.  Teardown counts what is still buffered, gives  *)
(* every command it can see its result and queues the close frame; the     *)
(* session then waits for the writer task before it returns.               *)
(***************************************************************************)
Teardown ==
    /\ pc = "ending"
    /\ pc' = "closing"
    /\ dropUp' = dropUp + Len(upBuffer)
    /\ fate' = [n \in 1..MaxUp |->
                  IF n \in Numbers(upBuffer) THEN "abandoned" ELSE fate[n]]
    /\ upBuffer' = <<>>
    /\ results' = Report(Report(results, queued \cup inbox, "NotConnected"),
                         {c \in Commands : inFlight.cmd = c}, "Timeout")
    /\ queued' = {} /\ inbox' = {} /\ inFlight' = NoFlight
    /\ drained' = issued
    /\ toCharger' = IF writerUp THEN Append(toCharger, Frame(0, "Close", NoUid))
                                ELSE toCharger
    /\ upLink' = "none" /\ centralIn' = <<>>
    /\ UNCHANGED <<upState, winAge, closeCode, pending, commandsOpen, kind, age, fwdUp,
                   fwdDown, published, chargerIn, heard, environment, lastUp, lastDown,
                   downAge, leaked>>

\* run_session returns and drops its receiver with whatever was dispatched
\* since the teardown looked: those commands get no result.
SessionEnds ==
    /\ pc = "closing"
    /\ ~writerUp
    /\ pc' = "ended"
    /\ upState' = "Disconnected"
    /\ inbox' = {}
    /\ UNCHANGED <<winAge, closeCode, upBuffer, pending, queued, inFlight, commandsOpen,
                   kind, age, results, drained, metrics, chargerIn, toCharger, upLink,
                   centralIn, heard, environment, history>>

(***************************************************************************)
(* charger_writer.  A write to a charger that has gone may still be        *)
(* accepted by the socket, or fail; a failure or the close frame ends it,  *)
(* and what was still in the channel is gone.                              *)
(***************************************************************************)
WriterSends ==
    /\ writerUp /\ toCharger # <<>>
    /\ LET f == Head(toCharger) IN
       /\ asked' = IF f.type = "Call" /\ chargerUp THEN asked \cup {f.uid} ELSE asked
       /\ lastDown' = IF f.n = 0 THEN lastDown ELSE f.n
       /\ writerUp' = (f.type # "Close")
    /\ toCharger' = IF writerUp' THEN Tail(toCharger) ELSE <<>>
    /\ UNCHANGED <<session, upBuffer, pending, commands, metrics, chargerIn, upLink,
                   centralIn, heard, chargerUp, senderOpen, cancelled, issued, upN, downN,
                   fate, lastUp, downAge, leaked>>

WriterFails ==
    /\ writerUp /\ toCharger # <<>> /\ ~chargerUp
    /\ writerUp' = FALSE
    /\ toCharger' = <<>>
    /\ UNCHANGED <<session, upBuffer, pending, commands, metrics, chargerIn, upLink,
                   centralIn, heard, chargerUp, asked, senderOpen, cancelled, issued, upN,
                   downN, history>>
------------------------------------------------------------------------------
(***************************************************************************)
(* The environment.  What the charger sends, the clock and the token no    *)
(* longer matter to a session that has left its loop, so their steps stop  *)
(* there.                                                                  *)
(***************************************************************************)
\* Is there a mix with so many frames of the charger and of the Central System
\* and so many commands?
Within(ups, downs, cmds) ==
    \E mix \in Mixes : ups <= mix.up /\ downs <= mix.down /\ cmds <= mix.commands

InLoop == pc \notin {"ending", "closing", "ended"}

sessionState == <<session, upBuffer, pending, inbox, queued, inFlight, commandsOpen,
                  kind, age, results, drained, metrics>>

ChargerSendsFrame(type, uid) ==
    /\ InLoop /\ chargerUp /\ upN < MaxUp /\ Within(upN + 1, downN, issued)
    /\ upN' = upN + 1
    /\ chargerIn' = Append(chargerIn, Frame(upN + 1, type, uid))
    /\ fate' = [fate EXCEPT ![upN + 1] = "socket"]
    /\ UNCHANGED <<sessionState, toCharger, upLink, centralIn, heard, chargerUp, writerUp,
                   senderOpen, cancelled, issued, downN, lastUp, lastDown, downAge, leaked>>

ChargerSends ==
    \E type \in UpTypes :
        /\ ChargerSendsFrame(type, IF type = "Call" THEN <<"ocpp", upN + 1>> ELSE NoUid)
        /\ UNCHANGED asked

ChargerAnswers ==
    \E uid \in asked :
        ChargerSendsFrame("Result", uid) /\ asked' = asked \ {uid}

ChargerHangsUp ==
    /\ pc # "ended" /\ chargerUp
    /\ chargerUp' = FALSE
    /\ UNCHANGED <<sessionState, chargerIn, toCharger, upLink, centralIn, heard, writerUp,
                   asked, senderOpen, cancelled, issued, upN, downN, history>>

CentralSendsFrame(type, uid) ==
    /\ upLink = "up" /\ downN < MaxDown /\ Within(upN, downN + 1, issued)
    /\ downN' = downN + 1
    /\ centralIn' = Append(centralIn, Frame(downN + 1, type, uid))
    /\ UNCHANGED <<sessionState, chargerIn, toCharger, upLink, chargerUp, writerUp, asked,
                   senderOpen, cancelled, issued, upN, history>>

CentralSends ==
    \E type \in DownTypes :
        /\ CentralSendsFrame(type, IF type = "Call"
                                     THEN <<"ocpp", CentralUidBase + downN + 1>>
                                     ELSE NoUid)
        /\ UNCHANGED heard

CentralAnswers ==
    \E uid \in heard :
        CentralSendsFrame("Result", uid) /\ heard' = heard \ {uid}

\* The Central System closes, or the network drops, the upstream connection.
LinkBreaks ==
    /\ upLink = "up"
    /\ upLink' = "broken"
    /\ UNCHANGED <<sessionState, chargerIn, toCharger, centralIn, heard, environment, history>>

\* A newer connection of the same charger displaced this one, or the proxy
\* shuts down.
Cancel ==
    /\ InLoop /\ ~cancelled
    /\ cancelled' = TRUE
    /\ UNCHANGED <<sessionState, chargerIn, toCharger, upLink, centralIn, heard, chargerUp,
                   writerUp, asked, senderOpen, issued, upN, downN, history>>

\* The router replaced this session's registration by a newer one (left out of
\* the models in which no command is dispatched).
RouterDropsSender ==
    /\ pc # "ended" /\ senderOpen /\ NumCommands > 0
    /\ senderOpen' = FALSE
    /\ UNCHANGED <<sessionState, chargerIn, toCharger, upLink, centralIn, heard, chargerUp,
                   writerUp, asked, cancelled, issued, upN, downN, history>>

(***************************************************************************)
(* dispatch_command and CommandRouter::dispatch on the MQTT thread: a      *)
(* command enters the session's channel, or the publisher itself reports   *)
(* that the channel is full or that the session has dropped its receiver.  *)
(***************************************************************************)
DispatchTo(box, r) ==
    /\ issued < NumCommands /\ senderOpen /\ Within(upN, downN, issued + 1)
    /\ issued' = issued + 1
    /\ \E k \in NewKinds : kind' = [kind EXCEPT ![issued + 1] = k]
    /\ inbox' = box
    /\ results' = r
    /\ UNCHANGED <<session, upBuffer, pending, queued, inFlight, commandsOpen, age, drained,
                   metrics, chargerIn, toCharger, upLink, centralIn, heard, chargerUp, writerUp,
                   asked, senderOpen, cancelled, upN, downN, history>>

DispatchAccepted ==
    /\ pc # "ended" /\ Cardinality(inbox) < CmdCap
    /\ DispatchTo(inbox \cup {issued + 1}, results)

DispatchQueueFull ==
    /\ pc # "ended" /\ Cardinality(inbox) >= CmdCap
    /\ DispatchTo(inbox, Report(results, {issued + 1}, "Rejected"))

DispatchNotConnected ==
    /\ pc = "ended"
    /\ DispatchTo(inbox, Report(results, {issued + 1}, "NotConnected"))

\* Calls the Central System made that the charger still owes an answer to.
OpenCentralCalls ==
    {m \in 1..MaxDown :
        LET uid == <<"ocpp", CentralUidBase + m>>
        IN uid \in asked \/ \E i \in 1..Len(toCharger) :
                                toCharger[i].uid = uid /\ toCharger[i].type = "Call"}

Tick ==
    /\ InLoop
    /\ winAge' = IF winAge = NoWindow THEN NoWindow ELSE Older(winAge, Window)
    /\ upBuffer' = [i \in 1..Len(upBuffer) |-> AgedFrame(upBuffer[i])]
    /\ pending' = {[uid |-> e.uid, dir |-> e.dir, age |-> Older(e.age, TrackMax)] : e \in pending}
    /\ age' = [c \in Commands |->
                 IF c \in Waiting THEN Older(age[c], CommandTimeout) ELSE 0]
    /\ inFlight' = IF inFlight = NoFlight THEN NoFlight
                   ELSE [cmd |-> inFlight.cmd, age |-> Older(inFlight.age, CommandTimeout)]
    /\ downAge' = [m \in 1..MaxDown |->
                     IF m \in OpenCentralCalls THEN Older(downAge[m], Grace) ELSE 0]
    /\ UNCHANGED <<pc, upState, closeCode, inbox, queued, commandsOpen, kind, results,
                   drained, metrics, chargerIn, toCharger, upLink, centralIn, heard, environment,
                   fate, lastUp, lastDown, leaked>>

Terminated == pc = "ended" /\ UNCHANGED vars
------------------------------------------------------------------------------
SessionStep ==
    \/ ConnectSucceeds \/ ConnectFails
    \/ BackoffElapses \/ BackoffReadsFrame \/ BackoffEnds
    \/ \E k \in 0..Len(upBuffer) : FlushUpstream(k)
    \/ LostWaitElapses \/ LostWaitCancelled
    \/ AnswerConsumed \/ ForwardUpstream \/ ForwardUpstreamFails
    \/ ForwardVerbatimUpstream \/ VerbatimUpstreamFails \/ IgnoreBinary
    \/ ForwardingEnds
    \/ ForwardDownstream \/ ForwardVerbatimDownstream \/ DownstreamFails
    \/ AnswerPing \/ UpstreamCloses
    \/ ReceiveCommand \/ CommandsClose \/ CommandTick \/ Housekeeping
    \/ Teardown \/ SessionEnds

EnvironmentStep ==
    \/ WriterSends \/ WriterFails
    \/ ChargerSends \/ ChargerAnswers \/ ChargerHangsUp
    \/ CentralSends \/ CentralAnswers \/ LinkBreaks
    \/ Cancel \/ RouterDropsSender
    \/ DispatchAccepted \/ DispatchQueueFull \/ DispatchNotConnected
    \/ Tick \/ Terminated

Next == SessionStep \/ EnvironmentStep

Spec == Init /\ [][Next]_vars

(***************************************************************************)
(* Fairness.  connect_upstream is bounded by its timeout and sleeps end.   *)
(* select! polls its ready arms in random order, so an arm that is ready   *)
(* again and again is taken (strong fairness), also when the loop is left  *)
(* and entered in between; intervals tick at once on entry.  Two things    *)
(* are assumed of the world: a replay does not fail for ever, and the      *)
(* charger's socket accepts or fails a write.                              *)
(***************************************************************************)
Fairness ==
    /\ WF_vars(Tick)
    /\ WF_vars(ConnectSucceeds \/ ConnectFails)
    /\ WF_vars(BackoffElapses)
    /\ WF_vars(LostWaitElapses)
    /\ SF_vars(FlushUpstream(Len(upBuffer)))
    /\ WF_vars(\E k \in 0..Len(upBuffer) : FlushUpstream(k))
    /\ SF_vars(ForwardingEnds)
    /\ SF_vars(ReceiveCommand)
    /\ SF_vars(CommandTick)
    /\ WF_vars(Teardown)
    /\ WF_vars(SessionEnds)
    /\ WF_vars(WriterSends \/ WriterFails)

FairSpec == Spec /\ Fairness
------------------------------------------------------------------------------
PCs == {"connecting", "backoff", "flushing", "forwarding", "lostWait", "ending",
        "closing", "ended"}
Fates == {"unsent", "socket", "forwarded", "replayed", "verbatim", "consumed", "ignored",
          "buffered", "thrown", "lost", "evicted", "abandoned"}
Uids == {"ocpp", "proxy", "none"} \X Nat
ChargerFrames == [n : 1..MaxUp, type : {"Call", "Result", "Bad", "Binary"}, uid : Uids]
CentralFrames == [n : 1..MaxDown, type : {"Call", "Result", "Bad", "Ping"}, uid : Uids]
OutboundFrames == [n : 0..MaxDown, type : {"Call", "Result", "Bad", "Close"}, uid : Uids]
BufferedFrames == [n : 1..MaxUp, type : {"Call", "Result"}, uid : Uids,
                   age : 0..(BufMaxAge + 1)]

SessionTypes ==
    /\ pc \in PCs
    /\ upState \in {"Connecting", "Connected", "Reconnecting", "Disconnected"}
    /\ winAge \in 0..NoWindow
    /\ closeCode \in {CloseNormal, CloseGoingAway}
    /\ upBuffer \in Seq(BufferedFrames)
    /\ pending \subseteq [uid : Uids, dir : Directions, age : 0..TrackMax]
    /\ fwdUp \in Nat /\ fwdDown \in Nat /\ dropUp \in Nat
    /\ published \subseteq [dir : Directions, n : Nat, known : BOOLEAN]

CommandTypes ==
    /\ inbox \subseteq Commands /\ queued \subseteq Commands
    /\ inFlight \in InFlights
    /\ commandsOpen \in BOOLEAN
    /\ kind \in [Commands -> Kinds]
    /\ age \in [Commands -> 0..CommandTimeout]
    /\ results \in [Commands -> Seq(Statuses)]
    /\ issued \in 0..NumCommands /\ drained \in 0..NumCommands

NetworkTypes ==
    /\ chargerUp \in BOOLEAN /\ writerUp \in BOOLEAN
    /\ chargerIn \in Seq(ChargerFrames)
    /\ centralIn \in Seq(CentralFrames)
    /\ toCharger \in Seq(OutboundFrames)
    /\ upLink \in {"none", "up", "broken"}
    /\ asked \subseteq Uids /\ heard \subseteq Uids
    /\ senderOpen \in BOOLEAN /\ cancelled \in BOOLEAN
    /\ upN \in 0..MaxUp /\ downN \in 0..MaxDown

HistoryTypes ==
    /\ fate \in [1..MaxUp -> Fates]
    /\ lastUp \in 0..MaxUp /\ lastDown \in 0..MaxDown
    /\ downAge \in [1..MaxDown -> 0..Grace]
    /\ leaked \subseteq Commands

\* Every variable keeps the type its Rust counterpart has: frames of the
\* charger stay the charger's in every buffer and channel they pass, ages stay
\* within the bounds they are compared with.
TypeOK == SessionTypes /\ CommandTypes /\ NetworkTypes /\ HistoryTypes

\* What is still to be sent is newer than what was sent, and in order.
Ascending(last, s) ==
    /\ \A i \in 1..Len(s) : last < s[i].n
    /\ \A i, j \in 1..Len(s) : i < j => s[i].n < s[j].n

\* Frames reach the Central System in the order the charger sent them and none
\* twice, across failed writes, the replay of the buffer and reconnections:
\* everything that may still be written is newer than the last frame written.
UpstreamInOrder ==
    /\ Ascending(lastUp, upBuffer)
    /\ Ascending(lastUp, chargerIn)
    /\ \A i \in 1..Len(upBuffer), j \in 1..Len(chargerIn) : upBuffer[i].n < chargerIn[j].n

\* The same towards the charger, through the writer task's channel; the proxy's
\* own Calls (n = 0) are interleaved but reorder nothing.
DownstreamInOrder ==
    LET fromCentral == {i \in 1..Len(toCharger) : toCharger[i].n # 0}
    IN /\ \A i \in fromCentral : lastDown < toCharger[i].n
       /\ \A i, j \in fromCentral : i < j => toCharger[i].n < toCharger[j].n
       /\ Ascending(lastDown, centralIn)
       /\ \A i \in fromCentral, j \in 1..Len(centralIn) : toCharger[i].n < centralIn[j].n

\* The reconnection buffer never holds more than the one frame whose write
\* failed, whatever its configured size, and that frame is replayed before the
\* session forwards anything newer.
BufferHoldsAtMostOne ==
    /\ Len(upBuffer) <= 1
    /\ pc = "forwarding" => upBuffer = <<>>

\* What the two upstream counters count: every parsed frame that was written,
\* replayed ones included, once; and as dropped, once, what was still buffered
\* when the session ended.  Nothing else is counted: no frame thrown away in
\* back-off, lost, or written unparsed, although requirement 10.9 asks for it.
CountedOnce ==
    /\ fwdUp = Cardinality({n \in 1..MaxUp : fate[n] \in {"forwarded", "replayed"}})
    /\ dropUp = Cardinality({n \in 1..MaxUp : fate[n] = "abandoned"})

\* Commands that went with the receiver, if they were accepted at all.
DroppedWithReceiver == IF pc = "ended" THEN {c \in Commands : c > drained} ELSE {}

\* Every dispatched command is in exactly one place (channel, queue, in flight)
\* until it gets its one result; no command gets two, none gets one unasked.
\* The one way to be in no place without a result is to have been dispatched
\* after the teardown's last try_recv (gone).
LedgerOf(box, q, flight, r, n, gone) ==
    /\ box \cap q = {}
    /\ flight.cmd \notin box \cup q
    /\ \A c \in Commands :
          /\ Len(r[c]) <= 1
          /\ c > n => r[c] = <<>>
          /\ (c \in box \/ c \in q \/ flight.cmd = c) <=>
                (c <= n /\ r[c] = <<>> /\ c \notin gone)

CommandLedger == LedgerOf(inbox, queued, inFlight, results, issued, DroppedWithReceiver)

\* Queued limit commands coalesce: at most one is ever waiting, and a newer
\* one that was received has displaced it.
OneLimitQueued ==
    \A c, d \in queued : IsLimit(kind[c]) /\ IsLimit(kind[d]) => c = d

\* Which answers to the proxy's own Calls reach the Central System: those that
\* come after the proxy gave up on the Call, and no others (that any does is
\* NothingLeaks below).
LeakOnlyAfterTimeout == \A c \in leaked : results[c] = <<"Timeout">>

\* Calls of the proxy that the charger will be asked, has been asked or has
\* answered without the session having read it.
OpenProxyCalls ==
    {c \in Commands :
        LET uid == <<"proxy", c>>
        IN \/ uid \in asked
           \/ \E i \in 1..Len(toCharger) :
                 toCharger[i].uid = uid /\ toCharger[i].type = "Call"
           \/ \E i \in 1..Len(chargerIn) :
                 chargerIn[i].uid = uid /\ chargerIn[i].type = "Result"}

\* When the proxy puts a Call on the line, every Call of the Central System the
\* charger still owes an answer to was forwarded at least CENTRAL_CALL_GRACE
\* ago, and every other Call of the proxy that is still open was given up with
\* Timeout: one is in flight at a time, though the charger may owe older ones.
LineClear ==
    [][inFlight'.cmd # inFlight.cmd /\ inFlight' # NoFlight =>
          /\ \A m \in OpenCentralCalls : downAge[m] >= Grace
          /\ \A c \in OpenProxyCalls' :
                c = inFlight'.cmd \/ results'[c] = <<"Timeout">>]_vars

\* Every command the session can still see gets its result, however the
\* upstream flaps and whether or not the charger ever answers.
CommandResolved ==
    \A c \in Commands :
        (c \in Waiting \cup {inFlight.cmd} /\ pc \notin {"closing", "ended"})
            ~> (results[c] # <<>>)

\* A cancelled session (displaced, or shutting down) ends, wherever it is.
CancelEnds == cancelled ~> (pc = "ended")

\* Requirement 2.6: a session whose upstream stays unreachable gives up after
\* the reconnection window instead of holding the charger for ever.
UnreachableEnds == <>[](upState # "Connected") => <>(pc = "ended")
------------------------------------------------------------------------------
(***************************************************************************)
(* What the documentation says and the code does not do.                   *)
(***************************************************************************)

\* Requirement 4.5: charger messages are buffered while the upstream
\* connection is being re-established.  A message that is read while the
\* session waits for its next attempt is thrown away.
NothingThrownAway == \A n \in 1..MaxUp : fate[n] # "thrown"

\* The README: the Central System never sees a proxy Call or its reply.  An
\* answer that comes after its command timed out is forwarded like any other.
NothingLeaks == leaked = {}
=============================================================================
