----------------------------- MODULE LedgerProofs -----------------------------
(***************************************************************************)
(* Commands and the line to the charger, for every number of commands and  *)
(* frames, capacity and timeout of Session.tla:                            *)
(*   - one result per command (CommandLedger, inductive with the types;    *)
(*     each method of LocalCallQueue is one lemma on how the books change  *)
(*     hands), results are final, and limits supersede one another;        *)
(*   - a unique id is in one place at a time, so only the answer to a      *)
(*     command that was given up is ever written upstream;                 *)
(*   - the tracker has every Call of the Central System the charger owes,  *)
(*     so the proxy's own Call goes out on a clear line.                   *)
(***************************************************************************)
EXTENDS SessionProofs, SequenceTheorems

USE LocalCallsAssumption, ForwarderAssumption, SessionAssumption

\* Reporting on queued commands and taking them out of the queue keeps the
\* ledger.
LEMMA ResolveQueued ==
    ASSUME NEW box \in SUBSET Commands, NEW q \in SUBSET Commands, NEW flight \in InFlights,
           NEW r \in [Commands -> Seq(Statuses)], NEW n \in Nat, NEW gone,
           LedgerOf(box, q, flight, r, n, gone),
           NEW S \in SUBSET q, NEW status \in Statuses
    PROVE  LedgerOf(box, q \ S, flight, Report(r, S, status), n, gone)
<1>1. \A c \in S : c \in Commands /\ r[c] = <<>> /\ c <= n
  BY DEF LedgerOf
<1>2. \A c \in Commands :
         Report(r, S, status)[c] = IF c \in S THEN Append(r[c], status) ELSE r[c]
  BY DEF Report
<1>3. ASSUME NEW c \in S
      PROVE  Len(Append(r[c], status)) = 1 /\ Append(r[c], status) # <<>>
  <2>1. r[c] \in Seq(Statuses) /\ Len(r[c]) = 0
    BY <1>1
  <2> QED BY <2>1, AppendProperties
<1> DEFINE rs == Report(r, S, status)
<1>4. \A c \in S : Len(rs[c]) = 1 /\ rs[c] # <<>>
  BY <1>1, <1>2, <1>3
<1>5. \A c \in Commands \ S : rs[c] = r[c]
  BY <1>2
<1> HIDE DEF rs
<1>6. LedgerOf(box, q \ S, flight, rs, n, gone)
  <2>1. ASSUME NEW c \in S
        PROVE  /\ Len(rs[c]) <= 1
               /\ c > n => rs[c] = <<>>
               /\ (c \in box \/ c \in q \ S \/ flight.cmd = c) <=>
                     (c <= n /\ rs[c] = <<>> /\ c \notin gone)
    <3>1. c \notin box /\ flight.cmd # c
      BY <2>1 DEF LedgerOf
    <3>2. ~(c > n)
      BY <1>1, <2>1 DEF Commands
    <3>3. Len(rs[c]) = 1 /\ rs[c] # <<>>
      BY <1>4, <2>1, Zenon
    <3>4. Len(rs[c]) <= 1
      BY <3>3
    <3> QED BY <2>1, <3>1, <3>2, <3>3, <3>4, Zenon
  <2>2. ASSUME NEW c \in Commands \ S
        PROVE  /\ Len(rs[c]) <= 1
               /\ c > n => rs[c] = <<>>
               /\ (c \in box \/ c \in q \ S \/ flight.cmd = c) <=>
                     (c <= n /\ rs[c] = <<>> /\ c \notin gone)
    BY <1>5 DEF LedgerOf
  <2> QED BY <2>1, <2>2 DEF LedgerOf
<1> QED BY <1>6 DEF rs

\* The same for commands still in the channel.
LEMMA ResolveInbox ==
    ASSUME NEW box \in SUBSET Commands, NEW q \in SUBSET Commands, NEW flight \in InFlights,
           NEW r \in [Commands -> Seq(Statuses)], NEW n \in Nat, NEW gone,
           LedgerOf(box, q, flight, r, n, gone),
           NEW S \in SUBSET box, NEW status \in Statuses
    PROVE  LedgerOf(box \ S, q, flight, Report(r, S, status), n, gone)
<1>1. \A c \in S : c \in Commands /\ r[c] = <<>> /\ c <= n
  BY DEF LedgerOf
<1>2. \A c \in Commands :
         Report(r, S, status)[c] = IF c \in S THEN Append(r[c], status) ELSE r[c]
  BY DEF Report
<1>3. ASSUME NEW c \in S
      PROVE  Len(Append(r[c], status)) = 1 /\ Append(r[c], status) # <<>>
  <2>1. r[c] \in Seq(Statuses) /\ Len(r[c]) = 0
    BY <1>1
  <2> QED BY <2>1, AppendProperties
<1> DEFINE rs == Report(r, S, status)
<1>4. \A c \in S : Len(rs[c]) = 1 /\ rs[c] # <<>>
  BY <1>1, <1>2, <1>3
<1>5. \A c \in Commands \ S : rs[c] = r[c]
  BY <1>2
<1> HIDE DEF rs
<1>6. LedgerOf(box \ S, q, flight, rs, n, gone)
  <2>1. ASSUME NEW c \in S
        PROVE  /\ Len(rs[c]) <= 1
               /\ c > n => rs[c] = <<>>
               /\ (c \in box \ S \/ c \in q \/ flight.cmd = c) <=>
                     (c <= n /\ rs[c] = <<>> /\ c \notin gone)
    <3>1. c \notin q /\ flight.cmd # c
      BY <2>1 DEF LedgerOf
    <3>2. ~(c > n)
      BY <1>1, <2>1 DEF Commands
    <3>3. Len(rs[c]) = 1 /\ rs[c] # <<>>
      BY <1>4, <2>1, Zenon
    <3>4. Len(rs[c]) <= 1
      BY <3>3
    <3> QED BY <2>1, <3>1, <3>2, <3>3, <3>4, Zenon
  <2>2. ASSUME NEW c \in Commands \ S
        PROVE  /\ Len(rs[c]) <= 1
               /\ c > n => rs[c] = <<>>
               /\ (c \in box \ S \/ c \in q \/ flight.cmd = c) <=>
                     (c <= n /\ rs[c] = <<>> /\ c \notin gone)
    BY <1>5 DEF LedgerOf
  <2> QED BY <2>1, <2>2 DEF LedgerOf
<1> QED BY <1>6 DEF rs

\* The Call in flight leaves the line with its one result.
LEMMA ResolveFlight ==
    ASSUME NEW box \in SUBSET Commands, NEW q \in SUBSET Commands, NEW flight \in InFlights,
           NEW r \in [Commands -> Seq(Statuses)], NEW n \in Nat, NEW gone,
           LedgerOf(box, q, flight, r, n, gone),
           NEW status \in Statuses
    PROVE  LedgerOf(box, q, NoFlight, Report(r, {flight.cmd}, status), n, gone)
BY DEF LedgerOf, Report, NoFlight, Commands

\* A queued command becomes the Call in flight.
LEMMA Launch ==
    ASSUME NEW box \in SUBSET Commands, NEW q \in SUBSET Commands,
           NEW r \in [Commands -> Seq(Statuses)], NEW n \in Nat, NEW gone,
           LedgerOf(box, q, NoFlight, r, n, gone),
           NEW c \in q
    PROVE  LedgerOf(box, q \ {c}, [cmd |-> c, age |-> 0], r, n, gone)
BY DEF LedgerOf, NoFlight, Commands

\* A command moves from the channel into the queue.
LEMMA Receive ==
    ASSUME NEW box \in SUBSET Commands, NEW q \in SUBSET Commands, NEW flight \in InFlights,
           NEW r \in [Commands -> Seq(Statuses)], NEW n \in Nat, NEW gone,
           LedgerOf(box, q, flight, r, n, gone),
           NEW c \in box
    PROVE  LedgerOf(box \ {c}, q \cup {c}, flight, r, n, gone)
BY DEF LedgerOf

\* A newly dispatched command enters the channel.
LEMMA Accept ==
    ASSUME NEW box \in SUBSET Commands, NEW q \in SUBSET Commands, NEW flight \in InFlights,
           NEW r \in [Commands -> Seq(Statuses)], NEW n \in Nat, NEW gone,
           LedgerOf(box, q, flight, r, n, gone),
           n + 1 \in Commands, n + 1 \notin gone
    PROVE  LedgerOf(box \cup {n + 1}, q, flight, r, n + 1, gone)
BY DEF LedgerOf, Commands

\* A newly dispatched command is refused with a result.
LEMMA Refuse ==
    ASSUME NEW box \in SUBSET Commands, NEW q \in SUBSET Commands, NEW flight \in InFlights,
           NEW r \in [Commands -> Seq(Statuses)], NEW n \in Nat, NEW gone,
           LedgerOf(box, q, flight, r, n, gone),
           n + 1 \in Commands, NEW status \in Statuses
    PROVE  LedgerOf(box, q, flight, Report(r, {n + 1}, status), n + 1, gone)
BY DEF LedgerOf, Commands, Report

\* send_local_calls keeps the ledger: what it pops it reports as Invalid,
\* puts in flight, or reports as NotConnected when the charger is gone.
LEMMA SendLocalCallsLedger ==
    ASSUME NEW box \in SUBSET Commands, NEW q \in SUBSET Commands,
           NEW flight \in InFlights, NEW tracker,
           NEW r \in [Commands -> Seq(Statuses)], NEW n \in Nat, NEW gone,
           LedgerOf(box, q, flight, r, n, gone),
           SendLocalCalls(q, flight, tracker, r)
    PROVE  LedgerOf(box, queued', inFlight', results', n, gone)
<1> DEFINE bad == Unpreparable(q, kind)
           rb == Report(r, bad, "Invalid")
<1>1. bad \subseteq q /\ Sendable(q, kind) \subseteq q /\ Sendable(q, kind) \cap bad = {}
  BY DEF Unpreparable, Sendable, Oldest, Commands
<1>2. rb \in [Commands -> Seq(Statuses)] /\ LedgerOf(box, q \ bad, flight, rb, n, gone)
  BY <1>1, ReportType, ResolveQueued DEF Statuses
<1>3. CASE flight # NoFlight \/ LineBusy(tracker)
  BY <1>3 DEF SendLocalCalls
<1>4. CASE flight = NoFlight /\ ~LineBusy(tracker) /\ Sendable(q, kind) = {}
  BY <1>2, <1>4 DEF SendLocalCalls
<1>5. CASE flight = NoFlight /\ ~LineBusy(tracker) /\ Sendable(q, kind) # {}
  <2>1. PICK c \in Sendable(q, kind) :
          /\ queued' = q \ (bad \cup {c})
          /\ \/ inFlight' = [cmd |-> c, age |-> 0] /\ results' = rb
             \/ inFlight' = NoFlight /\ results' = Report(rb, {c}, "NotConnected")
    BY <1>5 DEF SendLocalCalls
  <2>2. c \in q \ bad /\ queued' = (q \ bad) \ {c}
    BY <1>1, <2>1
  <2>3. LedgerOf(box, queued', [cmd |-> c, age |-> 0], rb, n, gone)
    BY <1>2, <1>5, <2>2, Launch
  <2>4. LedgerOf(box, queued', NoFlight, Report(rb, {c}, "NotConnected"), n, gone)
    BY <1>2, <1>5, <2>2, ResolveQueued DEF Statuses
  <2> QED BY <2>1, <2>3, <2>4
<1> QED BY <1>3, <1>4, <1>5

\* Once the teardown has drained them, queue and line stay empty, and the
\* channel only gets commands the session will not look at.
AfterTeardown ==
    /\ drained <= issued
    /\ pc \in {"closing", "ended"} =>
          queued = {} /\ inFlight = NoFlight /\ \A c \in inbox : c > drained

\* Each step leaves the session where it is, keeps it before its teardown, or
\* is the teardown or the end.
LEMMA WhereItStands ==
    ASSUME Next
    PROVE  \/ UNCHANGED <<pc, drained>>
           \/ /\ pc \notin {"closing", "ended"} /\ pc' \notin {"closing", "ended"}
              /\ UNCHANGED <<drained, issued>>
           \/ Teardown
           \/ SessionEnds
<1>1. CASE ConnectSucceeds \/ ConnectFails \/ BackoffElapses \/ BackoffReadsFrame \/
           BackoffEnds
  BY <1>1 DEF ConnectSucceeds, ConnectFails, BackoffElapses, BackoffReadsFrame, BackoffEnds,
     GoConnecting, commands, environment
<1>2. CASE (\E k \in 0..Len(upBuffer) : FlushUpstream(k)) \/ LostWaitElapses \/
           LostWaitCancelled \/ ForwardUpstreamFails \/ ForwardVerbatimUpstream
  BY <1>2 DEF FlushUpstream, LostWaitElapses, LostWaitCancelled, ForwardUpstreamFails,
     ForwardVerbatimUpstream, ChargerFrame, GoConnecting, LoseUpstream, session, commands,
     environment
<1>3. CASE VerbatimUpstreamFails \/ IgnoreBinary \/ ForwardingEnds \/ ForwardDownstream \/
           ForwardVerbatimDownstream
  BY <1>3 DEF VerbatimUpstreamFails, IgnoreBinary, ForwardingEnds, ForwardDownstream,
     ForwardVerbatimDownstream, ChargerFrame, LoseUpstream, session, commands, environment
<1>4. CASE DownstreamFails \/ AnswerPing \/ UpstreamCloses \/ CommandsClose \/ Housekeeping
  BY <1>4 DEF DownstreamFails, AnswerPing, UpstreamCloses, CommandsClose, Housekeeping,
     CentralFrame, LoseUpstream, session, commands, environment
<1>5. CASE WriterSends \/ WriterFails \/ ChargerSends \/ ChargerAnswers \/ ChargerHangsUp
  BY <1>5 DEF WriterSends, WriterFails, ChargerSends, ChargerSendsFrame, ChargerAnswers,
     ChargerHangsUp, session, commands, sessionState
<1>6. CASE CentralSends \/ CentralAnswers \/ LinkBreaks \/ Cancel \/ RouterDropsSender
  BY <1>6 DEF CentralSends, CentralSendsFrame, CentralAnswers, LinkBreaks, Cancel,
     RouterDropsSender, sessionState, session
<1>7. CASE AnswerConsumed \/ ForwardUpstream
  BY <1>7 DEF AnswerConsumed, ForwardUpstream, ChargerFrame, SendLocalCalls, environment
<1>8. CASE ReceiveCommand \/ CommandTick
  BY <1>8 DEF ReceiveCommand, CommandTick, SendLocalCalls, environment
<1>9. CASE DispatchAccepted \/ DispatchQueueFull \/ DispatchNotConnected \/ Tick \/ Terminated
  BY <1>9 DEF DispatchAccepted, DispatchQueueFull, DispatchNotConnected, DispatchTo, Tick,
     Terminated, vars, session, commands
<1> QED
  BY <1>1, <1>2, <1>3, <1>4, <1>5, <1>6, <1>7, <1>8, <1>9 DEF Next, SessionStep,
     EnvironmentStep

\* Nothing but the end of the session drops commands.
LEMMA DroppedSame ==
    ASSUME Next, ~SessionEnds
    PROVE  DroppedWithReceiver' = DroppedWithReceiver
<1>1. CASE UNCHANGED <<pc, drained>>
  BY <1>1 DEF DroppedWithReceiver
<1>2. CASE pc # "ended" /\ pc' # "ended"
  BY <1>2 DEF DroppedWithReceiver
<1>3. Teardown => pc # "ended" /\ pc' # "ended"
  BY DEF Teardown
<1> QED BY <1>1, <1>2, <1>3, WhereItStands

\* The steps of the session itself before its teardown.
LEMMA SessionStepsEarly ==
    ASSUME SessionStep, ~Teardown, ~SessionEnds
    PROVE  pc \notin {"closing", "ended"} /\ UNCHANGED issued
<1>1. CASE ConnectSucceeds \/ ConnectFails \/ BackoffElapses \/ BackoffReadsFrame \/
           BackoffEnds
  BY <1>1 DEF ConnectSucceeds, ConnectFails, BackoffElapses, BackoffReadsFrame, BackoffEnds,
     environment
<1>2. CASE (\E k \in 0..Len(upBuffer) : FlushUpstream(k)) \/ LostWaitElapses \/
           LostWaitCancelled \/ ForwardUpstreamFails \/ ForwardVerbatimUpstream
  BY <1>2 DEF FlushUpstream, LostWaitElapses, LostWaitCancelled, ForwardUpstreamFails,
     ForwardVerbatimUpstream, ChargerFrame, environment
<1>3. CASE VerbatimUpstreamFails \/ IgnoreBinary \/ ForwardingEnds \/ ForwardDownstream \/
           ForwardVerbatimDownstream
  BY <1>3 DEF VerbatimUpstreamFails, IgnoreBinary, ForwardingEnds, ForwardDownstream,
     ForwardVerbatimDownstream, ChargerFrame, CentralFrame, environment
<1>4. CASE DownstreamFails \/ AnswerPing \/ UpstreamCloses \/ CommandsClose \/ Housekeeping
  BY <1>4 DEF DownstreamFails, AnswerPing, UpstreamCloses, CommandsClose, Housekeeping,
     CentralFrame, environment
<1>5. CASE AnswerConsumed \/ ForwardUpstream \/ ReceiveCommand \/ CommandTick
  BY <1>5 DEF AnswerConsumed, ForwardUpstream, ReceiveCommand, CommandTick, ChargerFrame,
     environment
<1> QED BY <1>1, <1>2, <1>3, <1>4, <1>5 DEF SessionStep

\* Every step keeps it so.
LEMMA AfterTeardownStep ==
    ASSUME TypeOK, AfterTeardown, Next
    PROVE  AfterTeardown'
<1>0. issued \in Nat /\ drained \in Nat
  BY DEF TypeOK, CommandTypes
<1>1. CASE Teardown
  BY <1>0, <1>1 DEF Teardown, AfterTeardown, environment
<1>2. CASE SessionEnds
  BY <1>0, <1>2 DEF SessionEnds, AfterTeardown, environment
<1>3. CASE DispatchAccepted \/ DispatchQueueFull \/ DispatchNotConnected
  BY <1>0, <1>3 DEF DispatchAccepted, DispatchQueueFull, DispatchNotConnected, DispatchTo,
     AfterTeardown, session
<1>4. CASE /\ pc \notin {"closing", "ended"} /\ pc' \notin {"closing", "ended"}
           /\ UNCHANGED <<drained, issued>>
  BY <1>4 DEF AfterTeardown
<1>5. CASE WriterSends \/ WriterFails \/ ChargerSends \/ ChargerAnswers \/ ChargerHangsUp
  BY <1>5 DEF WriterSends, WriterFails, ChargerSends, ChargerSendsFrame, ChargerAnswers,
     ChargerHangsUp, AfterTeardown, session, commands, sessionState
<1>6. CASE CentralSends \/ CentralAnswers \/ LinkBreaks \/ Cancel \/ RouterDropsSender
  BY <1>6 DEF CentralSends, CentralSendsFrame, CentralAnswers, LinkBreaks, Cancel,
     RouterDropsSender, AfterTeardown, sessionState, session, environment
<1>7. CASE Terminated
  BY <1>7 DEF Terminated, AfterTeardown, vars, session, commands, environment
<1>8. CASE SessionStep /\ ~Teardown /\ ~SessionEnds /\ UNCHANGED <<pc, drained>>
  <2>1. pc \notin {"closing", "ended"} /\ UNCHANGED issued
    BY <1>8, SessionStepsEarly
  <2> QED BY <1>8, <2>1 DEF AfterTeardown
<1>9. CASE Tick
  BY <1>9 DEF Tick, InLoop, AfterTeardown, environment
<1> QED
  BY <1>1, <1>2, <1>3, <1>4, <1>5, <1>6, <1>7, <1>8, <1>9, WhereItStands DEF Next,
     EnvironmentStep

\* Every step keeps the ledger balanced; the end of the session writes off what
\* the receiver still held.
LEMMA CommandLedgerStep ==
    ASSUME TypeOK, CommandLedger, AfterTeardown, Next
    PROVE  CommandLedger'
<1> USE DEF CommandLedger
<1> DEFINE lost == DroppedWithReceiver
<1>0. /\ inbox \in SUBSET Commands /\ queued \in SUBSET Commands
      /\ inFlight \in InFlights /\ NoFlight \in InFlights
      /\ results \in [Commands -> Seq(Statuses)]
      /\ issued \in Nat
      /\ {"Answered", "Superseded", "Rejected", "Timeout", "NotConnected"} \subseteq Statuses
  BY DEF TypeOK, CommandTypes, InFlights, Statuses
<1>a. CASE SessionEnds
  <2>1. /\ pc = "closing" /\ pc' = "ended" /\ inbox' = {}
        /\ UNCHANGED <<queued, inFlight, results, issued, drained>>
    BY <1>a DEF SessionEnds, environment
  <2>2. queued = {} /\ inFlight = NoFlight /\ \A c \in inbox : c > drained
    BY <2>1 DEF AfterTeardown
  <2>3. lost = {} /\ DroppedWithReceiver' = {c \in Commands : c > drained}
    BY <2>1 DEF DroppedWithReceiver
  <2>4. LedgerOf({}, queued, inFlight, results, issued, {c \in Commands : c > drained})
    BY <2>2, <2>3 DEF LedgerOf, NoFlight, Commands
  <2> QED BY <2>1, <2>3, <2>4
<1> SUFFICES ASSUME ~SessionEnds PROVE CommandLedger'
  BY <1>a
<1>b. DroppedWithReceiver' = lost
  BY DroppedSame
<1>1. CASE ConnectSucceeds \/ ConnectFails \/ BackoffElapses \/ BackoffReadsFrame \/
           BackoffEnds
  BY <1>b, <1>1 DEF ConnectSucceeds, ConnectFails, BackoffElapses, BackoffReadsFrame, BackoffEnds,
     commands, metrics, environment, history
<1>2. CASE (\E k \in 0..Len(upBuffer) : FlushUpstream(k)) \/ LostWaitElapses \/
           LostWaitCancelled \/ ForwardUpstreamFails \/ ForwardVerbatimUpstream
  BY <1>b, <1>2 DEF FlushUpstream, LostWaitElapses, LostWaitCancelled, ForwardUpstreamFails,
     ForwardVerbatimUpstream, session, commands, metrics, environment, history
<1>3. CASE VerbatimUpstreamFails \/ IgnoreBinary \/ ForwardingEnds \/ ForwardDownstream \/
           ForwardVerbatimDownstream
  BY <1>b, <1>3 DEF VerbatimUpstreamFails, IgnoreBinary, ForwardingEnds, ForwardDownstream,
     ForwardVerbatimDownstream, session, commands, metrics, environment, history
<1>4. CASE DownstreamFails \/ AnswerPing \/ UpstreamCloses \/ CommandsClose \/ Housekeeping
  BY <1>b, <1>4 DEF DownstreamFails, AnswerPing, UpstreamCloses, CommandsClose, Housekeeping,
     session, commands, metrics, environment, history
<1>5. CASE WriterSends \/ WriterFails \/ ChargerSends \/ ChargerAnswers
  BY <1>b, <1>5 DEF WriterSends, WriterFails, ChargerSends, ChargerSendsFrame,
     ChargerAnswers, session, commands, metrics, environment, history, sessionState
<1>6. CASE ChargerHangsUp \/ CentralSends \/ CentralAnswers \/ LinkBreaks \/ Cancel
  BY <1>b, <1>6 DEF ChargerHangsUp, CentralSends, CentralSendsFrame, CentralAnswers, LinkBreaks,
     Cancel, environment, history, sessionState, session, metrics
<1>7. CASE RouterDropsSender
  BY <1>b, <1>7 DEF RouterDropsSender, history, sessionState, session, metrics
<1>8. CASE AnswerConsumed
  <2>1. LedgerOf(inbox, queued, NoFlight, Report(results, {inFlight.cmd}, "Answered"), issued, lost)
    BY <1>0, ResolveFlight
  <2>2. Report(results, {inFlight.cmd}, "Answered") \in [Commands -> Seq(Statuses)]
    BY <1>0, ReportType
  <2>3. LedgerOf(inbox, queued', inFlight', results', issued, lost)
    BY <1>0, <1>8, <2>1, <2>2, SendLocalCallsLedger DEF AnswerConsumed, InFlights
  <2> QED BY <1>b, <1>8, <2>3 DEF AnswerConsumed, environment
<1>9. CASE ForwardUpstream
  <2>1. LedgerOf(inbox, queued', inFlight', results', issued, lost)
    BY <1>0, <1>9, SendLocalCallsLedger DEF ForwardUpstream
  <2> QED BY <1>b, <1>9, <2>1 DEF ForwardUpstream, environment
<1>10. CASE ReceiveCommand
  <2>1. PICK c \in Oldest(inbox) :
          LET displaced == Displaced(queued, kind, c)
              limits == {d \in displaced : IsLimit(kind[d])}
          IN /\ inbox' = inbox \ {c}
             /\ SendLocalCalls(Pushed(queued, kind, c), inFlight, pending,
                    Report(Report(results, limits, "Superseded"),
                           displaced \ limits, "Rejected"))
    BY <1>10 DEF ReceiveCommand
  <2> DEFINE displaced == Displaced(queued, kind, c)
             limits == {d \in displaced : IsLimit(kind[d])}
             others == displaced \ limits
             r1 == Report(results, limits, "Superseded")
             r2 == Report(r1, others, "Rejected")
  <2>2. c \in inbox /\ displaced \subseteq queued
    BY DEF Oldest, Displaced, Evicted, Kept
  <2>3. c \notin displaced
    BY <2>2 DEF LedgerOf
  <2>4. LedgerOf(inbox \ {c}, queued \cup {c}, inFlight, results, issued, lost)
    BY <1>0, <2>2, Receive
  <2>5. r1 \in [Commands -> Seq(Statuses)] /\ r2 \in [Commands -> Seq(Statuses)]
    BY <1>0, ReportType
  <2>6. LedgerOf(inbox \ {c}, (queued \cup {c}) \ limits, inFlight, r1, issued, lost)
    BY <1>0, <2>2, <2>4, ResolveQueued
  <2>7. LedgerOf(inbox \ {c}, ((queued \cup {c}) \ limits) \ others, inFlight, r2, issued, lost)
    BY <1>0, <2>2, <2>5, <2>6, ResolveQueued
  <2>8. ((queued \cup {c}) \ limits) \ others = Pushed(queued, kind, c)
    BY <2>2, <2>3 DEF Pushed
  <2>9. LedgerOf(inbox', queued', inFlight', results', issued, lost)
    BY <1>0, <2>1, <2>2, <2>5, <2>7, <2>8, SendLocalCallsLedger
  <2> QED BY <1>b, <1>10, <2>9 DEF ReceiveCommand, environment
<1>11. CASE CommandTick
  <2> DEFINE expired == ExpiredQueued(queued, age)
             late == ExpiredFlight(inFlight)
             gone == IF late THEN {inFlight.cmd} ELSE {}
             flight == IF late THEN NoFlight ELSE inFlight
             r == Report(results, expired \cup gone, "Timeout")
  <2>1. expired \subseteq queued /\ flight \in InFlights
    BY <1>0 DEF ExpiredQueued
  <2>2. r \in [Commands -> Seq(Statuses)]
    BY <1>0, ReportType
  <2>3. LedgerOf(inbox, queued \ expired, flight, r, issued, lost)
    <3>1. CASE late
      <4>1. LedgerOf(inbox, queued, NoFlight, Report(results, {inFlight.cmd}, "Timeout"), issued, lost)
        BY <1>0, ResolveFlight
      <4>2. LedgerOf(inbox, queued \ expired, NoFlight,
                     Report(Report(results, {inFlight.cmd}, "Timeout"), expired, "Timeout"), issued, lost)
        BY <1>0, <2>1, <4>1, ResolveQueued, ReportType
      <4>3. inFlight.cmd \notin expired
        BY <2>1 DEF LedgerOf
      <4>4. Report(Report(results, {inFlight.cmd}, "Timeout"), expired, "Timeout") = r
        BY <3>1, <4>3 DEF Report
      <4> QED BY <3>1, <4>2, <4>4
    <3>2. CASE ~late
      BY <1>0, <2>1, <3>2, ResolveQueued
    <3> QED BY <3>1, <3>2
  <2>4. SendLocalCalls(queued \ expired, flight, pending, r)
    BY <1>11 DEF CommandTick
  <2>5. LedgerOf(inbox, queued', inFlight', results', issued, lost)
    BY <1>0, <2>1, <2>2, <2>3, <2>4, SendLocalCallsLedger
  <2> QED BY <1>b, <1>11, <2>5 DEF CommandTick, environment
<1>12. CASE Teardown
  <2> DEFINE r1 == Report(results, queued \cup inbox, "NotConnected")
             flying == {c \in Commands : inFlight.cmd = c}
  <2>1. results' = Report(r1, flying, "Timeout") /\ queued' = {} /\ inbox' = {}
        /\ inFlight' = NoFlight /\ issued' = issued
    BY <1>12 DEF Teardown, environment
  <2>2. r1 \in [Commands -> Seq(Statuses)]
    BY <1>0, ReportType
  <2>3. LedgerOf({}, {}, inFlight, r1, issued, lost)
    <3> DEFINE ra == Report(results, queued, "NotConnected")
    <3>1. ra \in [Commands -> Seq(Statuses)] /\ LedgerOf(inbox, {}, inFlight, ra, issued, lost)
      <4>1. LedgerOf(inbox, queued \ queued, inFlight, ra, issued, lost)
        BY <1>0, ResolveQueued
      <4> QED BY <1>0, <4>1, ReportType
    <3>2. LedgerOf(inbox \ inbox, {}, inFlight, Report(ra, inbox, "NotConnected"), issued, lost)
      BY <1>0, <3>1, ResolveInbox
    <3>3. Report(ra, inbox, "NotConnected") = r1
      BY <1>0 DEF Report, LedgerOf
    <3> QED BY <3>2, <3>3
  <2>4. LedgerOf({}, {}, NoFlight, Report(r1, {inFlight.cmd}, "Timeout"), issued, lost)
    BY <1>0, <2>2, <2>3, ResolveFlight
  <2>5. Report(r1, {inFlight.cmd}, "Timeout") = Report(r1, flying, "Timeout")
    BY <2>2 DEF Report
  <2> QED BY <1>b, <2>1, <2>4, <2>5
<1>13. CASE DispatchAccepted
  <2>1. issued + 1 \in Commands /\ inbox' = inbox \cup {issued + 1} /\ issued' = issued + 1
        /\ UNCHANGED <<queued, inFlight, results>>
    BY <1>0, <1>13 DEF DispatchAccepted, DispatchTo, Commands
  <2>2. LedgerOf(inbox \cup {issued + 1}, queued, inFlight, results, issued + 1, lost)
    BY <1>0, <1>13, <2>1, Accept DEF DispatchAccepted, DroppedWithReceiver
  <2> QED BY <1>b, <2>1, <2>2
<1>14. CASE DispatchQueueFull
  <2>1. issued + 1 \in Commands /\ inbox' = inbox /\ issued' = issued + 1
        /\ results' = Report(results, {issued + 1}, "Rejected")
        /\ UNCHANGED <<queued, inFlight>>
    BY <1>0, <1>14 DEF DispatchQueueFull, DispatchTo, Commands
  <2>2. LedgerOf(inbox, queued, inFlight, Report(results, {issued + 1}, "Rejected"), issued + 1, lost)
    BY <1>0, <2>1, Refuse
  <2> QED BY <1>b, <2>1, <2>2
<1>15. CASE DispatchNotConnected
  <2>1. issued + 1 \in Commands /\ inbox' = inbox /\ issued' = issued + 1
        /\ results' = Report(results, {issued + 1}, "NotConnected")
        /\ UNCHANGED <<queued, inFlight>>
    BY <1>0, <1>15 DEF DispatchNotConnected, DispatchTo, Commands
  <2>2. LedgerOf(inbox, queued, inFlight, Report(results, {issued + 1}, "NotConnected"), issued + 1, lost)
    BY <1>0, <2>1, Refuse
  <2> QED BY <1>b, <2>1, <2>2
<1>16. CASE Tick
  <2>1. inFlight'.cmd = inFlight.cmd
    BY <1>16 DEF Tick, NoFlight
  <2>2. UNCHANGED <<inbox, queued, results, issued>>
    BY <1>16 DEF Tick, environment
  <2> QED BY <1>b, <2>1, <2>2 DEF LedgerOf
<1>17. CASE Terminated
  BY <1>b, <1>17 DEF Terminated, vars, commands, environment
<1> QED
  BY <1>1, <1>2, <1>3, <1>4, <1>5, <1>6, <1>7, <1>8, <1>9, <1>10, <1>11, <1>12, <1>13, <1>14,
     <1>15, <1>16, <1>17 DEF Next, SessionStep, EnvironmentStep

\* No command is answered twice, and until it gets its one result it is in
\* exactly one of the channel, the queue and the line to the charger: only one
\* that was dispatched after the teardown's last try_recv is ever lost.
THEOREM Ledger == Spec => []CommandLedger
<1>1. Init => CommandLedger /\ AfterTeardown
  BY DEF Init, CommandLedger, LedgerOf, DroppedWithReceiver, AfterTeardown, NoFlight, Commands
<1>2. TypeOK /\ CommandLedger /\ AfterTeardown /\ [Next]_vars =>
         (CommandLedger /\ AfterTeardown)'
  <2>1. ASSUME CommandLedger, AfterTeardown, UNCHANGED vars
        PROVE  (CommandLedger /\ AfterTeardown)'
    BY <2>1 DEF CommandLedger, DroppedWithReceiver, AfterTeardown, vars, session, commands,
       environment
  <2> QED BY <2>1, CommandLedgerStep, AfterTeardownStep
<1> QED BY <1>1, <1>2, TypeCorrect, PTL DEF Spec

------------------------------------------------------------------------------
(***************************************************************************)
(* The Calls on their way to the charger and the answers on their way      *)
(* back.  A Call waits in centralIn, in the charger's channel or with the  *)
(* charger, then its answer waits in chargerIn, and a unique id is in only *)
(* one of the four places.                                                 *)
(***************************************************************************)
UidsOf(s, type) == {s[i].uid : i \in {j \in 1..Len(s) : s[j].type = type}}

OnceEach(s, type) ==
    \A i, j \in 1..Len(s) :
        s[i].type = type /\ s[j].type = type /\ s[i].uid = s[j].uid => i = j

CentralUid(m) == <<"ocpp", CentralUidBase + m>>
ProxyUid(c) == <<"proxy", c>>
ChargerUids == {<<"ocpp", k>> : k \in 1..MaxUp}

\* What the charger has been asked, is being asked or has just answered.
Owing(out, ask, back) == UidsOf(out, "Call") \cup ask \cup UidsOf(back, "Result")

\* For the frames in, out and back (from the Central System, to and from the
\* charger), the Calls ask that the charger has, and m frames so far.
CallsOf(in, out, ask, back, m) ==
    /\ OnceEach(in, "Call") /\ OnceEach(out, "Call") /\ OnceEach(back, "Result")
    /\ UidsOf(in, "Call") \cap Owing(out, ask, back) = {}
    /\ UidsOf(out, "Call") \cap (ask \cup UidsOf(back, "Result")) = {}
    /\ ask \cap UidsOf(back, "Result") = {}
    /\ \A i \in 1..Len(in) : in[i].type = "Call" => in[i].uid = CentralUid(in[i].n)
    /\ UidsOf(in, "Call") \subseteq {CentralUid(k) : k \in 1..m}
    /\ Owing(out, ask, back) \subseteq
          {CentralUid(k) : k \in 1..m} \cup {ProxyUid(c) : c \in Commands}
    /\ UidsOf(back, "Call") \subseteq ChargerUids

\* A frame joins the back of a sequence.
LEMMA UidsAppend ==
    ASSUME NEW S, NEW s \in Seq(S), NEW f \in S, NEW t
    PROVE  /\ UidsOf(Append(s, f), t) = UidsOf(s, t) \cup (IF f.type = t THEN {f.uid} ELSE {})
           /\ OnceEach(s, t) /\ (f.type = t => f.uid \notin UidsOf(s, t)) =>
                 OnceEach(Append(s, f), t)
<1> DEFINE d == Append(s, f)
<1>1. /\ Len(d) = Len(s) + 1 /\ Len(s) \in Nat
      /\ \A i \in 1..Len(s) : d[i] = s[i]
      /\ d[Len(s) + 1] = f
  OBVIOUS
<1> HIDE DEF d
<1>2. \A i \in 1..Len(d) : i \in 1..Len(s) \/ i = Len(s) + 1
  BY <1>1
<1>3. \A i \in 1..Len(s) : i \in 1..Len(d)
  BY <1>1
<1>4. Len(s) + 1 \in 1..Len(d)
  BY <1>1
<1>5. UidsOf(d, t) = UidsOf(s, t) \cup (IF f.type = t THEN {f.uid} ELSE {})
  BY <1>1, <1>2, <1>3, <1>4 DEF UidsOf
<1>6. ASSUME OnceEach(s, t), f.type = t => f.uid \notin UidsOf(s, t)
      PROVE  OnceEach(d, t)
  <2> SUFFICES ASSUME NEW i \in 1..Len(d), NEW j \in 1..Len(d),
                      d[i].type = t, d[j].type = t, d[i].uid = d[j].uid
               PROVE  i = j
    BY DEF OnceEach
  <2>1. \A k \in 1..Len(s) : s[k].type = t => s[k].uid \in UidsOf(s, t)
    BY DEF UidsOf
  <2> QED BY <1>1, <1>2, <1>6, <2>1 DEF OnceEach
<1> QED BY <1>5, <1>6 DEF d

\* A frame of another type joins the back of a sequence.
LEMMA UidsAppendOther ==
    ASSUME NEW S, NEW s \in Seq(S), NEW f \in S, NEW t, f.type # t
    PROVE  /\ UidsOf(Append(s, f), t) = UidsOf(s, t)
           /\ OnceEach(s, t) => OnceEach(Append(s, f), t)
<1>1. UidsOf(Append(s, f), t) = UidsOf(s, t) \cup (IF f.type = t THEN {f.uid} ELSE {})
  BY UidsAppend
<1>2. OnceEach(s, t) /\ (f.type = t => f.uid \notin UidsOf(s, t)) => OnceEach(Append(s, f), t)
  BY UidsAppend
<1> QED BY <1>1, <1>2

\* The first frame leaves a sequence.
LEMMA UidsTail ==
    ASSUME NEW S, NEW s \in Seq(S), s # <<>>, NEW t
    PROVE  /\ UidsOf(Tail(s), t) \subseteq UidsOf(s, t)
           /\ Head(s).type = t => Head(s).uid \in UidsOf(s, t)
           /\ OnceEach(s, t) =>
                 /\ OnceEach(Tail(s), t)
                 /\ Head(s).type = t => Head(s).uid \notin UidsOf(Tail(s), t)
<1> DEFINE d == Tail(s)
<1>1. /\ Len(d) = Len(s) - 1 /\ Len(s) \in Nat /\ Len(s) > 0
      /\ \A i \in 1..Len(d) : d[i] = s[i + 1]
      /\ Head(s) = s[1]
  OBVIOUS
<1> HIDE DEF d
<1>2. \A i \in 1..Len(d) : i + 1 \in 1..Len(s) /\ i + 1 # 1 /\ d[i] = s[i + 1]
  BY <1>1
<1>3. 1 \in 1..Len(s)
  BY <1>1
<1>4. UidsOf(d, t) \subseteq UidsOf(s, t)
  BY <1>2 DEF UidsOf
<1>5. Head(s).type = t => Head(s).uid \in UidsOf(s, t)
  BY <1>1, <1>3 DEF UidsOf
<1>6. ASSUME OnceEach(s, t) PROVE OnceEach(d, t)
  <2> SUFFICES ASSUME NEW i \in 1..Len(d), NEW j \in 1..Len(d),
                      d[i].type = t, d[j].type = t, d[i].uid = d[j].uid
               PROVE  i = j
    BY DEF OnceEach
  <2>1. i + 1 = j + 1
    BY <1>2, <1>6 DEF OnceEach
  <2> QED BY <1>1, <2>1
<1>7. ASSUME OnceEach(s, t), Head(s).type = t PROVE Head(s).uid \notin UidsOf(d, t)
  BY <1>1, <1>2, <1>3, <1>7 DEF UidsOf, OnceEach
<1> QED BY <1>4, <1>5, <1>6, <1>7 DEF d

\* An empty sequence has nothing.
LEMMA UidsNone ==
    ASSUME NEW t
    PROVE  UidsOf(<<>>, t) = {} /\ OnceEach(<<>>, t)
BY DEF UidsOf, OnceEach

\* What the lemmas on CallsOf are about.
CallsTyped(in, out, ask, back, m) ==
    /\ in \in Seq(CentralFrames) /\ out \in Seq(OutboundFrames) /\ back \in Seq(ChargerFrames)
    /\ m \in Nat

\* The link to the Central System is given up, or a frame of it is read and
\* goes no further.
LEMMA CentralRead ==
    ASSUME NEW in, NEW out, NEW ask, NEW back, NEW m,
           CallsTyped(in, out, ask, back, m), CallsOf(in, out, ask, back, m)
    PROVE  /\ CallsOf(<<>>, out, ask, back, m)
           /\ in # <<>> => CallsOf(Tail(in), out, ask, back, m)
<1>1. CallsOf(<<>>, out, ask, back, m)
  BY UidsNone DEF CallsOf
<1>2. ASSUME in # <<>> PROVE CallsOf(Tail(in), out, ask, back, m)
  <2>1. UidsOf(Tail(in), "Call") \subseteq UidsOf(in, "Call") /\ OnceEach(Tail(in), "Call")
    BY <1>2, UidsTail DEF CallsTyped, CallsOf
  <2>2. \A i \in 1..Len(Tail(in)) : i + 1 \in 1..Len(in) /\ Tail(in)[i] = in[i + 1]
    BY <1>2 DEF CallsTyped
  <2>3. \A i \in 1..Len(Tail(in)) :
           Tail(in)[i].type = "Call" => Tail(in)[i].uid = CentralUid(Tail(in)[i].n)
    BY <2>2 DEF CallsOf
  <2> QED BY <2>1, <2>3 DEF CallsOf
<1> QED BY <1>1, <1>2

\* A frame of the Central System is passed to the charger's channel.
LEMMA CentralForwarded ==
    ASSUME NEW in, NEW out, NEW ask, NEW back, NEW m,
           CallsTyped(in, out, ask, back, m), CallsOf(in, out, ask, back, m),
           in # <<>>, Head(in) \in OutboundFrames
    PROVE  CallsOf(Tail(in), Append(out, Head(in)), ask, back, m)
<1> DEFINE f == Head(in)
           o == Append(out, f)
           new == IF f.type = "Call" THEN {f.uid} ELSE {}
<1>1. CallsOf(Tail(in), out, ask, back, m)
  BY CentralRead
<1>2. UidsOf(o, "Call") = UidsOf(out, "Call") \cup new
  BY UidsAppend DEF CallsTyped
<1>3. new \subseteq UidsOf(in, "Call") /\ new \cap UidsOf(Tail(in), "Call") = {}
  BY UidsTail DEF CallsTyped, CallsOf
<1>4. OnceEach(o, "Call")
  <2>1. f.type = "Call" => f.uid \notin UidsOf(out, "Call")
    BY <1>3 DEF CallsOf, Owing
  <2> QED BY <2>1, UidsAppend DEF CallsTyped, CallsOf
<1>5. Owing(o, ask, back) = Owing(out, ask, back) \cup new
  BY <1>2 DEF Owing
<1>6. new \cap (ask \cup UidsOf(back, "Result")) = {} /\ new \subseteq {CentralUid(k) : k \in 1..m}
  BY <1>3 DEF CallsOf, Owing
<1>7. CallsOf(Tail(in), o, ask, back, m)
  <2> HIDE DEF o, new
  <2> QED BY <1>1, <1>2, <1>3, <1>4, <1>5, <1>6 DEF CallsOf
<1> QED BY <1>7

\* The proxy queues a frame of its own: a Call that is nowhere yet, or no Call.
LEMMA ProxyQueued ==
    ASSUME NEW in, NEW out, NEW ask, NEW back, NEW m,
           CallsTyped(in, out, ask, back, m), CallsOf(in, out, ask, back, m),
           NEW f \in OutboundFrames,
           f.type = "Call" =>
              \E c \in Commands : f.uid = ProxyUid(c) /\ ProxyUid(c) \notin Owing(out, ask, back)
    PROVE  CallsOf(in, Append(out, f), ask, back, m)
<1> DEFINE o == Append(out, f)
           new == IF f.type = "Call" THEN {f.uid} ELSE {}
<1>1. UidsOf(o, "Call") = UidsOf(out, "Call") \cup new
  BY UidsAppend DEF CallsTyped
<1>2. new \cap Owing(out, ask, back) = {} /\ new \subseteq {ProxyUid(c) : c \in Commands}
  OBVIOUS
<1>3. OnceEach(o, "Call")
  <2>1. f.type = "Call" => f.uid \notin UidsOf(out, "Call")
    BY <1>2 DEF Owing
  <2> QED BY <2>1, UidsAppend DEF CallsTyped, CallsOf
<1>4. Owing(o, ask, back) = Owing(out, ask, back) \cup new
  BY <1>1 DEF Owing
<1>5. new \cap UidsOf(in, "Call") = {}
  BY <1>2 DEF CallsOf, CentralUid, ProxyUid
<1>6. new \cap (ask \cup UidsOf(back, "Result")) = {}
  BY <1>2 DEF Owing
<1>7. CallsOf(in, o, ask, back, m)
  <2> HIDE DEF o, new
  <2> QED BY <1>1, <1>2, <1>3, <1>4, <1>5, <1>6 DEF CallsOf
<1> QED BY <1>7

\* The writer takes the first frame of the channel; the charger gets it, or not.
LEMMA WriterTakes ==
    ASSUME NEW in, NEW out, NEW ask, NEW back, NEW m,
           CallsTyped(in, out, ask, back, m), CallsOf(in, out, ask, back, m)
    PROVE  /\ CallsOf(in, <<>>, ask, back, m)
           /\ out # <<>> => CallsOf(in, Tail(out), ask, back, m)
           /\ out # <<>> /\ Head(out).type = "Call" =>
                 CallsOf(in, Tail(out), ask \cup {Head(out).uid}, back, m)
<1>1. CallsOf(in, <<>>, ask, back, m)
  BY UidsNone DEF CallsOf, Owing
<1>2. ASSUME out # <<>>
      PROVE  UidsOf(Tail(out), "Call") \subseteq UidsOf(out, "Call") /\ OnceEach(Tail(out), "Call")
  BY <1>2, UidsTail DEF CallsTyped, CallsOf
<1>3. ASSUME out # <<>> PROVE CallsOf(in, Tail(out), ask, back, m)
  BY <1>2, <1>3 DEF CallsOf, Owing
<1>4. ASSUME out # <<>>, Head(out).type = "Call"
      PROVE  CallsOf(in, Tail(out), ask \cup {Head(out).uid}, back, m)
  <2>1. Head(out).uid \in UidsOf(out, "Call") /\ Head(out).uid \notin UidsOf(Tail(out), "Call")
    BY <1>4, UidsTail DEF CallsTyped, CallsOf
  <2> QED BY <1>2, <1>4, <2>1 DEF CallsOf, Owing
<1> QED BY <1>1, <1>3, <1>4

\* A frame of the charger is read.
LEMMA ChargerRead ==
    ASSUME NEW in, NEW out, NEW ask, NEW back, NEW m,
           CallsTyped(in, out, ask, back, m), CallsOf(in, out, ask, back, m), back # <<>>
    PROVE  /\ CallsOf(in, out, ask, Tail(back), m)
           /\ Head(back).type = "Result" => /\ Head(back).uid \in Owing(out, ask, back)
                                            /\ Head(back).uid \notin Owing(out, ask, Tail(back))
                                            /\ Head(back).uid \notin ask \cup UidsOf(out, "Call")
           /\ Head(back).type = "Call" => Head(back).uid \in ChargerUids
           /\ Owing(out, ask, Tail(back)) \subseteq Owing(out, ask, back)
<1>1. /\ UidsOf(Tail(back), "Result") \subseteq UidsOf(back, "Result")
      /\ OnceEach(Tail(back), "Result")
      /\ Head(back).type = "Result" => /\ Head(back).uid \in UidsOf(back, "Result")
                                       /\ Head(back).uid \notin UidsOf(Tail(back), "Result")
  BY UidsTail DEF CallsTyped, CallsOf
<1>2. /\ UidsOf(Tail(back), "Call") \subseteq UidsOf(back, "Call")
      /\ Head(back).type = "Call" => Head(back).uid \in UidsOf(back, "Call")
  BY UidsTail DEF CallsTyped, CallsOf
<1> QED BY <1>1, <1>2 DEF CallsOf, Owing

\* The charger sends something that is no answer.
LEMMA ChargerSent ==
    ASSUME NEW in, NEW out, NEW ask, NEW back, NEW m,
           CallsTyped(in, out, ask, back, m), CallsOf(in, out, ask, back, m),
           NEW f \in ChargerFrames, f.type # "Result", f.type = "Call" => f.uid \in ChargerUids
    PROVE  CallsOf(in, out, ask, Append(back, f), m)
<1>1. /\ UidsOf(Append(back, f), "Result") = UidsOf(back, "Result")
      /\ OnceEach(Append(back, f), "Result")
  BY UidsAppendOther DEF CallsTyped, CallsOf
<1>2. UidsOf(Append(back, f), "Call") \subseteq UidsOf(back, "Call") \cup ChargerUids
  BY UidsAppend DEF CallsTyped
<1> QED BY <1>1, <1>2 DEF CallsOf, Owing

\* The charger answers a Call it has.
LEMMA ChargerAnswered ==
    ASSUME NEW in, NEW out, NEW ask, NEW back, NEW m,
           CallsTyped(in, out, ask, back, m), CallsOf(in, out, ask, back, m),
           NEW f \in ChargerFrames, f.type = "Result", f.uid \in ask
    PROVE  /\ CallsOf(in, out, ask \ {f.uid}, Append(back, f), m)
           /\ Owing(out, ask \ {f.uid}, Append(back, f)) = Owing(out, ask, back)
<1>1. UidsOf(Append(back, f), "Result") = UidsOf(back, "Result") \cup {f.uid}
  BY UidsAppend DEF CallsTyped, CallsOf
<1>2. OnceEach(Append(back, f), "Result")
  BY UidsAppend DEF CallsTyped, CallsOf
<1>3. UidsOf(Append(back, f), "Call") = UidsOf(back, "Call")
  BY UidsAppendOther DEF CallsTyped
<1> QED BY <1>1, <1>2, <1>3 DEF CallsOf, Owing

\* The Central System sends a frame; its Calls are numbered afresh.
LEMMA CentralSent ==
    ASSUME NEW in, NEW out, NEW ask, NEW back, NEW m,
           CallsTyped(in, out, ask, back, m), CallsOf(in, out, ask, back, m),
           NEW f \in CentralFrames, f.n = m + 1, f.type = "Call" => f.uid = CentralUid(m + 1)
    PROVE  CallsOf(Append(in, f), out, ask, back, m + 1)
<1> DEFINE d == Append(in, f)
           new == IF f.type = "Call" THEN {f.uid} ELSE {}
<1>1. UidsOf(d, "Call") = UidsOf(in, "Call") \cup new
  BY UidsAppend DEF CallsTyped
<1>2. \A k \in 1..m : CentralUid(k) # CentralUid(m + 1)
  BY DEF CentralUid, CallsTyped
<1>3. \A c \in Commands : ProxyUid(c) # CentralUid(m + 1)
  BY DEF CentralUid, ProxyUid
<1>4. new \cap ({CentralUid(k) : k \in 1..m} \cup {ProxyUid(c) : c \in Commands}) = {}
  BY <1>2, <1>3
<1>5. OnceEach(d, "Call")
  <2>1. f.type = "Call" => f.uid \notin UidsOf(in, "Call")
    BY <1>2 DEF CallsOf
  <2> QED BY <2>1, UidsAppend DEF CallsTyped, CallsOf
<1>6. {CentralUid(k) : k \in 1..m} \subseteq {CentralUid(k) : k \in 1..(m + 1)}
  BY DEF CallsTyped
<1>7. new \subseteq {CentralUid(k) : k \in 1..(m + 1)}
  BY DEF CallsTyped
<1>8. \A i \in 1..Len(d) : d[i].type = "Call" => d[i].uid = CentralUid(d[i].n)
  <2>1. /\ Len(in) \in Nat /\ Len(d) = Len(in) + 1 /\ d[Len(in) + 1] = f
        /\ \A i \in 1..Len(in) : d[i] = in[i]
    BY DEF CallsTyped
  <2>2. \A i \in 1..Len(d) : i \in 1..Len(in) \/ i = Len(in) + 1
    BY <2>1
  <2> HIDE DEF d
  <2> QED BY <2>1, <2>2 DEF CallsOf
<1>9. CallsOf(d, out, ask, back, m + 1)
  <2> HIDE DEF d, new
  <2> QED BY <1>1, <1>4, <1>5, <1>6, <1>7, <1>8 DEF CallsOf
<1> QED BY <1>9
------------------------------------------------------------------------------
(***************************************************************************)
(* Results are final.                                                      *)
(***************************************************************************)
Grown(r, s) == \A c \in Commands : s[c] = r[c] \/ Len(s[c]) > Len(r[c])

\* Reporting adds to results.
LEMMA GrownReport ==
    ASSUME NEW r \in [Commands -> Seq(Statuses)], NEW S, NEW status \in Statuses
    PROVE  Grown(r, Report(r, S, status))
BY DEF Grown, Report

\* Results that grow twice have grown.
LEMMA GrownTwice ==
    ASSUME NEW r \in [Commands -> Seq(Statuses)], NEW s \in [Commands -> Seq(Statuses)],
           NEW t \in [Commands -> Seq(Statuses)], Grown(r, s), Grown(s, t)
    PROVE  Grown(r, t)
<1>1. \A c \in Commands : Len(r[c]) \in Nat /\ Len(s[c]) \in Nat /\ Len(t[c]) \in Nat
  OBVIOUS
<1> QED BY <1>1 DEF Grown

\* What send_local_calls does: it leaves line and channel alone, or puts a
\* queued command on a line that is free.
LEMMA SendLocalCallsLine ==
    ASSUME NEW q \in SUBSET Commands, NEW flight \in InFlights, NEW tracker,
           NEW r \in [Commands -> Seq(Statuses)], SendLocalCalls(q, flight, tracker, r)
    PROVE  /\ \/ toCharger' = toCharger /\ inFlight' = flight
              \/ \E c \in q : /\ flight = NoFlight /\ ~LineBusy(tracker)
                              /\ toCharger' = Append(toCharger, Frame(0, "Call", ProxyUid(c)))
                              /\ inFlight' = [cmd |-> c, age |-> 0]
           /\ queued' \subseteq q
           /\ Grown(r, results')
<1> DEFINE bad == Unpreparable(q, kind)
           rb == Report(r, bad, "Invalid")
<1>1. Sendable(q, kind) \subseteq q
  BY DEF Sendable, Oldest
<1>2. rb \in [Commands -> Seq(Statuses)] /\ Grown(r, rb)
  BY ReportType, GrownReport DEF Statuses
<1>3. \A c : /\ Report(rb, {c}, "NotConnected") \in [Commands -> Seq(Statuses)]
             /\ Grown(r, Report(rb, {c}, "NotConnected"))
  <2> TAKE c
  <2>1. /\ Report(rb, {c}, "NotConnected") \in [Commands -> Seq(Statuses)]
        /\ Grown(rb, Report(rb, {c}, "NotConnected"))
    BY <1>2, ReportType, GrownReport DEF Statuses
  <2> HIDE DEF rb
  <2> QED BY <1>2, <2>1, GrownTwice
<1>4. Grown(r, r)
  BY DEF Grown
<1>5. CASE flight # NoFlight \/ LineBusy(tracker)
  BY <1>4, <1>5 DEF SendLocalCalls
<1>6. CASE flight = NoFlight /\ ~LineBusy(tracker) /\ Sendable(q, kind) = {}
  <2>1. toCharger' = toCharger /\ inFlight' = flight /\ queued' = q \ bad /\ results' = rb
    BY <1>6 DEF SendLocalCalls
  <2> QED BY <1>2, <2>1
<1>7. CASE flight = NoFlight /\ ~LineBusy(tracker) /\ Sendable(q, kind) # {}
  <2>1. PICK c \in Sendable(q, kind) :
          /\ queued' = q \ (bad \cup {c})
          /\ \/ /\ inFlight' = [cmd |-> c, age |-> 0] /\ results' = rb
                /\ toCharger' = Append(toCharger, Frame(0, "Call", ProxyUid(c)))
             \/ /\ inFlight' = flight /\ toCharger' = toCharger
                /\ results' = Report(rb, {c}, "NotConnected")
    BY <1>7 DEF SendLocalCalls, QueuedForCharger, ProxyUid
  <2>2. c \in q /\ queued' \subseteq q
    BY <1>1, <2>1
  <2> HIDE DEF rb, bad
  <2> QED BY <1>2, <1>3, <1>7, <2>1, <2>2
<1> QED BY <1>5, <1>6, <1>7

\* Which steps touch commands.
LEMMA CommandFrame ==
    ASSUME Next
    PROVE  \/ UNCHANGED <<queued, inFlight, results, kind, issued>>
           \/ AnswerConsumed \/ ForwardUpstream \/ ReceiveCommand \/ CommandTick \/ Teardown
           \/ DispatchAccepted \/ DispatchQueueFull \/ DispatchNotConnected \/ Tick
<1> DEFINE Same == UNCHANGED <<queued, inFlight, results, kind, issued>>
<1>1. CASE ConnectSucceeds \/ ConnectFails \/ BackoffElapses \/ BackoffReadsFrame \/
           BackoffEnds
  BY <1>1 DEF ConnectSucceeds, ConnectFails, BackoffElapses, BackoffReadsFrame, BackoffEnds,
     commands, environment
<1>2. CASE (\E k \in 0..Len(upBuffer) : FlushUpstream(k)) \/ LostWaitElapses \/
           LostWaitCancelled \/ ForwardUpstreamFails \/ ForwardVerbatimUpstream
  BY <1>2 DEF FlushUpstream, LostWaitElapses, LostWaitCancelled, ForwardUpstreamFails,
     ForwardVerbatimUpstream, commands, environment
<1>3. CASE VerbatimUpstreamFails \/ IgnoreBinary \/ ForwardingEnds \/ ForwardDownstream \/
           ForwardVerbatimDownstream
  BY <1>3 DEF VerbatimUpstreamFails, IgnoreBinary, ForwardingEnds, ForwardDownstream,
     ForwardVerbatimDownstream, commands, environment
<1>4. CASE DownstreamFails \/ AnswerPing \/ UpstreamCloses \/ CommandsClose \/ Housekeeping
  BY <1>4 DEF DownstreamFails, AnswerPing, UpstreamCloses, CommandsClose, Housekeeping,
     commands, environment
<1>5. CASE SessionEnds \/ WriterSends \/ WriterFails \/ ChargerSends \/ ChargerAnswers
  BY <1>5 DEF SessionEnds, WriterSends, WriterFails, ChargerSends, ChargerSendsFrame,
     ChargerAnswers, commands, environment, sessionState
<1>6. CASE ChargerHangsUp \/ CentralSends \/ CentralAnswers \/ LinkBreaks \/ Cancel
  BY <1>6 DEF ChargerHangsUp, CentralSends, CentralSendsFrame, CentralAnswers, LinkBreaks,
     Cancel, environment, sessionState
<1>7. CASE RouterDropsSender \/ Terminated
  BY <1>7 DEF RouterDropsSender, Terminated, vars, sessionState, commands, environment
<1> HIDE DEF Same
<1> QED
  BY <1>1, <1>2, <1>3, <1>4, <1>5, <1>6, <1>7 DEF Next, SessionStep, EnvironmentStep

\* A command that has its result keeps it.
LEMMA ResultsFinal ==
    ASSUME TypeOK, TypeOK', CommandLedger, CommandLedger', Next,
           NEW c \in Commands, results[c] # <<>>
    PROVE  results'[c] = results[c]
<1>0. /\ inbox \in SUBSET Commands /\ queued \in SUBSET Commands
      /\ inFlight \in InFlights /\ NoFlight \in InFlights
      /\ results \in [Commands -> Seq(Statuses)] /\ results' \in [Commands -> Seq(Statuses)]
      /\ {"Answered", "Superseded", "Rejected", "Timeout", "NotConnected"} \subseteq Statuses
  BY DEF TypeOK, CommandTypes, InFlights, Statuses
<1>1. Grown(results, results')
  <2>1. CASE AnswerConsumed
    <3> DEFINE r == Report(results, {inFlight.cmd}, "Answered")
    <3>1. r \in [Commands -> Seq(Statuses)] /\ Grown(results, r)
      BY <1>0, ReportType, GrownReport
    <3>2. SendLocalCalls(queued, NoFlight, pending, r)
      BY <2>1 DEF AnswerConsumed
    <3> HIDE DEF r
    <3>3. Grown(r, results')
      BY <1>0, <3>1, <3>2, SendLocalCallsLine
    <3> QED BY <1>0, <3>1, <3>3, GrownTwice
  <2>2. CASE ForwardUpstream
    BY <1>0, <2>2, SendLocalCallsLine DEF ForwardUpstream
  <2>3. CASE ReceiveCommand
    <3>1. PICK d \in Oldest(inbox) :
            LET displaced == Displaced(queued, kind, d)
                limits == {e \in displaced : IsLimit(kind[e])}
            IN SendLocalCalls(Pushed(queued, kind, d), inFlight, pending,
                    Report(Report(results, limits, "Superseded"),
                           displaced \ limits, "Rejected"))
      BY <2>3 DEF ReceiveCommand
    <3> DEFINE displaced == Displaced(queued, kind, d)
               limits == {e \in displaced : IsLimit(kind[e])}
               others == displaced \ limits
               r1 == Report(results, limits, "Superseded")
               r2 == Report(r1, others, "Rejected")
    <3>2. SendLocalCalls(Pushed(queued, kind, d), inFlight, pending, r2)
      BY <3>1
    <3>3. r1 \in [Commands -> Seq(Statuses)] /\ Grown(results, r1)
      BY <1>0, ReportType, GrownReport
    <3> HIDE DEF r1, limits, displaced
    <3>4. r2 \in [Commands -> Seq(Statuses)] /\ Grown(r1, r2)
      BY <1>0, <3>3, ReportType, GrownReport
    <3> HIDE DEF r2, others
    <3>5. Grown(r2, results')
      <4>1. Pushed(queued, kind, d) \in SUBSET Commands
        BY <1>0 DEF Pushed, Oldest
      <4> QED BY <1>0, <3>2, <3>4, <4>1, SendLocalCallsLine
    <3> QED BY <1>0, <3>3, <3>4, <3>5, GrownTwice
  <2>4. CASE CommandTick
    <3> DEFINE expired == ExpiredQueued(queued, age)
               late == ExpiredFlight(inFlight)
               gone == expired \cup (IF late THEN {inFlight.cmd} ELSE {})
               r == Report(results, gone, "Timeout")
               flight == IF late THEN NoFlight ELSE inFlight
    <3>1. r \in [Commands -> Seq(Statuses)] /\ Grown(results, r)
      BY <1>0, ReportType, GrownReport
    <3>2. SendLocalCalls(queued \ expired, flight, pending, r)
      BY <2>4 DEF CommandTick
    <3>3. flight \in InFlights /\ queued \ expired \in SUBSET Commands
      BY <1>0
    <3> HIDE DEF r, flight, expired
    <3>4. Grown(r, results')
      BY <1>0, <3>1, <3>2, <3>3, SendLocalCallsLine
    <3> QED BY <1>0, <3>1, <3>4, GrownTwice
  <2>5. CASE Teardown
    <3> DEFINE r1 == Report(results, queued \cup inbox, "NotConnected")
               flying == {d \in Commands : inFlight.cmd = d}
    <3>1. results' = Report(r1, flying, "Timeout")
      BY <2>5 DEF Teardown
    <3>2. r1 \in [Commands -> Seq(Statuses)] /\ Grown(results, r1)
      BY <1>0, ReportType, GrownReport
    <3> HIDE DEF r1, flying
    <3>3. Grown(r1, results')
      BY <1>0, <3>1, <3>2, GrownReport
    <3> QED BY <1>0, <3>2, <3>3, GrownTwice
  <2>6. CASE DispatchQueueFull \/ DispatchNotConnected
    <3>1. PICK S : \/ results' = Report(results, S, "Rejected")
                   \/ results' = Report(results, S, "NotConnected")
      BY <2>6 DEF DispatchQueueFull, DispatchNotConnected, DispatchTo
    <3> QED BY <1>0, <3>1, GrownReport
  <2>7. CASE UNCHANGED results
    BY <2>7 DEF Grown
  <2>8. DispatchAccepted \/ Tick => UNCHANGED results
    BY DEF DispatchAccepted, DispatchTo, Tick
  <2> QED BY <2>1, <2>2, <2>3, <2>4, <2>5, <2>6, <2>7, <2>8, CommandFrame
<1>2. Len(results[c]) \in Nat \ {0} /\ Len(results'[c]) <= 1
  <2>1. results[c] \in Seq(Statuses)
    BY <1>0
  <2>2. Len(results'[c]) <= 1
    BY DEF CommandLedger, LedgerOf
  <2> QED BY <2>1, <2>2
<1>3. Len(results'[c]) \in Nat
  BY <1>0
<1> QED BY <1>1, <1>2, <1>3 DEF Grown
------------------------------------------------------------------------------
(***************************************************************************)
(* Limits supersede one another.                                           *)
(***************************************************************************)

\* What push leaves in the queue has one limit command, if the queue had.
LEMMA PushOneLimit ==
    ASSUME NEW q, NEW k, NEW c,
           \A d, e \in q : IsLimit(k[d]) /\ IsLimit(k[e]) => d = e
    PROVE  \A d, e \in Pushed(q, k, c) : IsLimit(k[d]) /\ IsLimit(k[e]) => d = e
<1>1. CASE IsLimit(k[c])
  <2>1. \A d \in Pushed(q, k, c) : d = c \/ ~IsLimit(k[d])
    BY <1>1 DEF Pushed, Displaced, Kept
  <2> QED BY <2>1
<1>2. CASE ~IsLimit(k[c])
  <2>1. \A d \in Pushed(q, k, c) : d = c \/ d \in q
    BY DEF Pushed
  <2> QED BY <1>2, <2>1
<1> QED BY <1>1, <1>2

\* Every step leaves at most one limit in the queue.
LEMMA OneLimitStep ==
    ASSUME TypeOK, CommandLedger, OneLimitQueued, Next
    PROVE  OneLimitQueued'
<1>0. /\ inbox \in SUBSET Commands /\ queued \in SUBSET Commands
      /\ inFlight \in InFlights /\ NoFlight \in InFlights
      /\ results \in [Commands -> Seq(Statuses)]
      /\ {"Answered", "Superseded", "Rejected", "Timeout", "NotConnected"} \subseteq Statuses
      /\ kind \in [Commands -> Kinds] /\ issued \in Nat
  BY DEF TypeOK, CommandTypes, InFlights, Statuses
<1>1. ASSUME queued' \subseteq queued, kind' = kind PROVE OneLimitQueued'
  BY <1>1 DEF OneLimitQueued
<1>2. CASE AnswerConsumed
  <2> DEFINE r == Report(results, {inFlight.cmd}, "Answered")
  <2>1. r \in [Commands -> Seq(Statuses)] /\ SendLocalCalls(queued, NoFlight, pending, r)
    BY <1>0, <1>2, ReportType DEF AnswerConsumed
  <2>2. kind' = kind
    BY <1>2 DEF AnswerConsumed
  <2> HIDE DEF r
  <2> QED BY <1>0, <1>1, <2>1, <2>2, SendLocalCallsLine
<1>3. CASE ForwardUpstream
  <2>1. SendLocalCalls(queued, inFlight, pending', results) /\ kind' = kind
    BY <1>3 DEF ForwardUpstream
  <2> QED BY <1>0, <1>1, <2>1, SendLocalCallsLine
<1>4. CASE ReceiveCommand
  <2>1. PICK c \in Oldest(inbox) :
          LET displaced == Displaced(queued, kind, c)
              limits == {d \in displaced : IsLimit(kind[d])}
          IN SendLocalCalls(Pushed(queued, kind, c), inFlight, pending,
                    Report(Report(results, limits, "Superseded"),
                           displaced \ limits, "Rejected"))
    BY <1>4 DEF ReceiveCommand
  <2> DEFINE displaced == Displaced(queued, kind, c)
             limits == {d \in displaced : IsLimit(kind[d])}
             r == Report(Report(results, limits, "Superseded"), displaced \ limits, "Rejected")
  <2>2. r \in [Commands -> Seq(Statuses)]
    BY <1>0, ReportType
  <2>3. Pushed(queued, kind, c) \in SUBSET Commands
    BY <1>0 DEF Pushed, Oldest
  <2>4. kind' = kind
    BY <1>4 DEF ReceiveCommand
  <2>5. SendLocalCalls(Pushed(queued, kind, c), inFlight, pending, r)
    BY <2>1
  <2> HIDE DEF r
  <2>6. queued' \subseteq Pushed(queued, kind, c)
    BY <1>0, <2>2, <2>3, <2>5, SendLocalCallsLine
  <2>7. \A d, e \in Pushed(queued, kind, c) : IsLimit(kind[d]) /\ IsLimit(kind[e]) => d = e
    BY PushOneLimit DEF OneLimitQueued
  <2> QED BY <2>4, <2>6, <2>7 DEF OneLimitQueued
<1>5. CASE CommandTick
  <2> DEFINE expired == ExpiredQueued(queued, age)
             late == ExpiredFlight(inFlight)
             flight == IF late THEN NoFlight ELSE inFlight
             r == Report(results, expired \cup (IF late THEN {inFlight.cmd} ELSE {}), "Timeout")
  <2>1. r \in [Commands -> Seq(Statuses)] /\ flight \in InFlights
    BY <1>0, ReportType
  <2>2. SendLocalCalls(queued \ expired, flight, pending, r) /\ kind' = kind
    BY <1>5 DEF CommandTick
  <2> HIDE DEF r, flight, expired
  <2>3. queued' \subseteq queued \ expired
    BY <1>0, <2>1, <2>2, SendLocalCallsLine
  <2> QED BY <1>1, <2>2, <2>3
<1>6. CASE Teardown
  BY <1>6 DEF Teardown, OneLimitQueued
<1>7. CASE DispatchAccepted \/ DispatchQueueFull \/ DispatchNotConnected
  <2>1. \A c \in queued : c # issued + 1
    BY <1>0 DEF CommandLedger, LedgerOf
  <2>2. queued' = queued /\ \E k \in NewKinds : kind' = [kind EXCEPT ![issued + 1] = k]
    BY <1>7 DEF DispatchAccepted, DispatchQueueFull, DispatchNotConnected, DispatchTo
  <2>3. \A c \in queued : kind'[c] = kind[c]
    BY <1>0, <2>1, <2>2
  <2> QED BY <2>2, <2>3 DEF OneLimitQueued
<1>8. CASE Tick
  BY <1>1, <1>8 DEF Tick
<1>9. CASE UNCHANGED <<queued, inFlight, results, kind, issued>>
  BY <1>1, <1>9
<1> QED BY <1>2, <1>3, <1>4, <1>5, <1>6, <1>7, <1>8, <1>9, CommandFrame

\* At most one limit command ever waits in the queue: a newer one displaces it,
\* whatever is dispatched, evicted, expired or refused in between.
THEOREM LimitsCoalesce == Spec => []OneLimitQueued
<1>1. Init => OneLimitQueued
  BY DEF Init, OneLimitQueued
<1>2. TypeOK /\ CommandLedger /\ OneLimitQueued /\ [Next]_vars => OneLimitQueued'
  <2>1. ASSUME OneLimitQueued, UNCHANGED vars PROVE OneLimitQueued'
    BY <2>1 DEF OneLimitQueued, vars, commands
  <2> QED BY <2>1, OneLimitStep
<1> QED BY <1>1, <1>2, TypeCorrect, Ledger, PTL DEF Spec
------------------------------------------------------------------------------
(***************************************************************************)
(* Whose answers can reach the Central System.                             *)
(***************************************************************************)
CallsInv == CallsOf(centralIn, toCharger, asked, chargerIn, downN)

\* A Call of the proxy that the charger owes or has just answered is the one
\* in flight, or was given up; only answers to Calls given up are buffered.
Owed ==
    /\ \A c \in Commands : ProxyUid(c) \in Owing(toCharger, asked, chargerIn) =>
          inFlight.cmd = c \/ results[c] = <<"Timeout">>
    /\ \A c \in Commands, i \in 1..Len(upBuffer) :
          upBuffer[i].uid = ProxyUid(c) => results[c] = <<"Timeout">>
    /\ LeakOnlyAfterTimeout

\* What the steps below start from.
LineInv == TypeOK /\ BufferHoldsAtMostOne /\ CommandLedger /\ CallsInv /\ Owed

\* A command that waits is nowhere on the line.
LEMMA WaitingNotOwed ==
    ASSUME LineInv, NEW c \in inbox \cup queued
    PROVE  c \in Commands /\ ProxyUid(c) \notin Owing(toCharger, asked, chargerIn)
<1>1. c \in Commands /\ results[c] = <<>> /\ inFlight.cmd # c
  BY DEF LineInv, CommandLedger, LedgerOf, TypeOK, CommandTypes
<1> QED BY <1>1 DEF LineInv, Owed

\* What the lemmas about frames on the line ask for.
LEMMA LineTyped ==
    ASSUME LineInv
    PROVE  CallsTyped(centralIn, toCharger, asked, chargerIn, downN)
BY DEF LineInv, TypeOK, NetworkTypes, CallsTyped

\* A command put on the line was waiting.
LEMMA LaunchedCalls ==
    ASSUME LineInv, NEW c \in inbox \cup queued
    PROVE  CallsOf(centralIn, Append(toCharger, Frame(0, "Call", ProxyUid(c))), asked,
                   chargerIn, downN)
<1>1. c \in Commands /\ ProxyUid(c) \notin Owing(toCharger, asked, chargerIn)
  BY WaitingNotOwed
<1>2. Frame(0, "Call", ProxyUid(c)) \in OutboundFrames
  BY <1>1 DEF Frame, OutboundFrames, Uids, ProxyUid, Commands
<1>3. Frame(0, "Call", ProxyUid(c)).uid = ProxyUid(c)
  BY DEF Frame
<1> QED BY <1>1, <1>2, <1>3, LineTyped, ProxyQueued DEF LineInv, CallsInv

\* The channel after a send_local_calls in which only waiting commands go out.
LEMMA SendLocalCallsCalls ==
    ASSUME LineInv, NEW q \in SUBSET (inbox \cup queued), NEW flight \in InFlights, NEW tracker,
           NEW r \in [Commands -> Seq(Statuses)], SendLocalCalls(q, flight, tracker, r),
           UNCHANGED <<centralIn, asked, downN>>,
           \/ chargerIn' = chargerIn
           \/ chargerIn # <<>> /\ chargerIn' = Tail(chargerIn)
    PROVE  CallsInv'
<1>1. q \in SUBSET Commands
  BY DEF LineInv, TypeOK, CommandTypes
<1>2. \/ toCharger' = toCharger
      \/ \E c \in q : toCharger' = Append(toCharger, Frame(0, "Call", ProxyUid(c)))
  BY <1>1, SendLocalCallsLine
<1>3. CallsOf(centralIn, toCharger', asked, chargerIn, downN)
  BY <1>2, LaunchedCalls DEF LineInv, CallsInv
<1>4. CallsTyped(centralIn, toCharger', asked, chargerIn, downN)
  <2>1. \A c \in q : Frame(0, "Call", ProxyUid(c)) \in OutboundFrames
    BY <1>1 DEF Frame, OutboundFrames, Uids, ProxyUid, Commands
  <2>2. toCharger \in Seq(OutboundFrames)
    BY LineTyped DEF CallsTyped
  <2>3. toCharger' \in Seq(OutboundFrames)
    BY <1>2, <2>1, <2>2
  <2> QED BY <2>3, LineTyped DEF CallsTyped
<1>5. chargerIn # <<>> => CallsOf(centralIn, toCharger', asked, Tail(chargerIn), downN)
  BY <1>3, <1>4, ChargerRead
<1> QED BY <1>3, <1>5 DEF CallsInv

\* The steps of the line, as far as CallsOf can tell.
LEMMA CallsStep ==
    ASSUME LineInv, Next
    PROVE  CallsInv'
<1>0. /\ CallsTyped(centralIn, toCharger, asked, chargerIn, downN)
      /\ CallsOf(centralIn, toCharger, asked, chargerIn, downN)
      /\ queued \in SUBSET Commands /\ inbox \in SUBSET Commands
      /\ inFlight \in InFlights /\ NoFlight \in InFlights
      /\ results \in [Commands -> Seq(Statuses)]
      /\ {"Answered", "Superseded", "Rejected", "Timeout", "NotConnected"} \subseteq Statuses
  BY LineTyped DEF LineInv, CallsInv, TypeOK, CommandTypes, InFlights, Statuses
<1>1. /\ centralIn \in Seq(CentralFrames) /\ toCharger \in Seq(OutboundFrames)
      /\ chargerIn \in Seq(ChargerFrames) /\ downN \in 0..MaxDown /\ upN \in 0..MaxUp
      /\ asked \in SUBSET Uids /\ heard \in SUBSET Uids
  BY DEF LineInv, TypeOK, NetworkTypes
<1>2. ASSUME \/ centralIn' = <<>> \/ centralIn' = centralIn
             \/ centralIn # <<>> /\ centralIn' = Tail(centralIn),
             UNCHANGED <<toCharger, asked, chargerIn, downN>>
      PROVE  CallsInv'
  <2>1. /\ CallsOf(<<>>, toCharger, asked, chargerIn, downN)
        /\ centralIn # <<>> => CallsOf(Tail(centralIn), toCharger, asked, chargerIn, downN)
    BY <1>0, CentralRead
  <2> QED BY <1>0, <1>2, <2>1 DEF CallsInv
<1>3. ASSUME chargerIn # <<>>, chargerIn' = Tail(chargerIn),
             centralIn' = <<>> \/ centralIn' = centralIn,
             UNCHANGED <<toCharger, asked, downN>>
      PROVE  CallsInv'
  <2>1. CallsOf(centralIn', toCharger, asked, chargerIn, downN)
    BY <1>0, <1>3, CentralRead
  <2>2. CallsTyped(centralIn', toCharger, asked, chargerIn, downN)
    <3>0. <<>> \in Seq(CentralFrames)
      OBVIOUS
    <3>1. centralIn' \in Seq(CentralFrames)
      BY <1>1, <1>3, <3>0, Zenon
    <3> QED BY <1>0, <3>1 DEF CallsTyped
  <2>3. CallsOf(centralIn', toCharger, asked, Tail(chargerIn), downN)
    BY <1>3, <2>1, <2>2, ChargerRead
  <2> QED BY <1>3, <2>3 DEF CallsInv
<1>4. CASE ConnectSucceeds \/ ConnectFails \/ BackoffEnds \/ LostWaitCancelled \/ ForwardingEnds
  BY <1>2, <1>4 DEF ConnectSucceeds, ConnectFails, BackoffEnds, LostWaitCancelled,
     ForwardingEnds, environment
<1>5. CASE BackoffElapses \/ LostWaitElapses
  BY <1>2, <1>5 DEF BackoffElapses, LostWaitElapses, GoConnecting, environment
<1>6. CASE BackoffReadsFrame
  BY <1>3, <1>6 DEF BackoffReadsFrame, GoConnecting, environment
<1>7. ASSUME NEW k \in 0..Len(upBuffer), FlushUpstream(k) PROVE CallsInv'
  BY <1>2, <1>7 DEF FlushUpstream, GoConnecting, environment
<1>8. CASE ForwardUpstreamFails \/ ForwardVerbatimUpstream \/ VerbatimUpstreamFails \/ IgnoreBinary
  BY <1>3, <1>8 DEF ForwardUpstreamFails, ForwardVerbatimUpstream, VerbatimUpstreamFails,
     IgnoreBinary, ChargerFrame, environment
<1>9. CASE DownstreamFails \/ AnswerPing
  BY <1>2, <1>9 DEF DownstreamFails, AnswerPing, CentralFrame, environment
<1>10. CASE UpstreamCloses \/ CommandsClose \/ Housekeeping \/ SessionEnds
  BY <1>2, <1>10 DEF UpstreamCloses, CommandsClose, Housekeeping, SessionEnds, environment
<1>11. CASE ForwardDownstream \/ ForwardVerbatimDownstream
  <2>1. /\ centralIn # <<>> /\ centralIn' = Tail(centralIn)
        /\ Head(centralIn).type \in {"Call", "Result", "Bad"}
        /\ toCharger' = Append(toCharger, Head(centralIn))
        /\ UNCHANGED <<asked, chargerIn, downN>>
    BY <1>11 DEF ForwardDownstream, ForwardVerbatimDownstream, CentralFrame,
       QueuedForCharger, environment
  <2>2. Head(centralIn) \in CentralFrames
    BY <1>1, <2>1, HeadTail
  <2>3. Head(centralIn) \in OutboundFrames
    BY <2>1, <2>2 DEF CentralFrames, OutboundFrames
  <2>4. CallsOf(Tail(centralIn), Append(toCharger, Head(centralIn)), asked, chargerIn, downN)
    BY <1>0, <2>1, <2>3, CentralForwarded
  <2> QED BY <2>1, <2>4 DEF CallsInv
<1>12. CASE AnswerConsumed
  <2> DEFINE r == Report(results, {inFlight.cmd}, "Answered")
  <2>1. r \in [Commands -> Seq(Statuses)] /\ SendLocalCalls(queued, NoFlight, pending, r)
    BY <1>0, <1>12, ReportType DEF AnswerConsumed
  <2>2. /\ chargerIn # <<>> /\ chargerIn' = Tail(chargerIn)
        /\ UNCHANGED <<centralIn, asked, downN>>
    BY <1>12 DEF AnswerConsumed, ChargerFrame, environment
  <2> HIDE DEF r
  <2> QED BY <1>0, <2>1, <2>2, SendLocalCallsCalls
<1>13. CASE ForwardUpstream
  <2>1. /\ chargerIn # <<>> /\ chargerIn' = Tail(chargerIn)
        /\ UNCHANGED <<centralIn, asked, downN>>
        /\ SendLocalCalls(queued, inFlight, pending', results)
    BY <1>13 DEF ForwardUpstream, ChargerFrame, environment
  <2> QED BY <1>0, <2>1, SendLocalCallsCalls
<1>14. CASE ReceiveCommand
  <2>1. PICK c \in Oldest(inbox) :
          LET displaced == Displaced(queued, kind, c)
              limits == {d \in displaced : IsLimit(kind[d])}
          IN SendLocalCalls(Pushed(queued, kind, c), inFlight, pending,
                    Report(Report(results, limits, "Superseded"),
                           displaced \ limits, "Rejected"))
    BY <1>14 DEF ReceiveCommand
  <2> DEFINE displaced == Displaced(queued, kind, c)
             limits == {d \in displaced : IsLimit(kind[d])}
             r == Report(Report(results, limits, "Superseded"), displaced \ limits, "Rejected")
  <2>2. r \in [Commands -> Seq(Statuses)]
    BY <1>0, ReportType
  <2>3. Pushed(queued, kind, c) \in SUBSET (inbox \cup queued)
    BY DEF Pushed, Oldest
  <2>4. UNCHANGED <<centralIn, asked, downN, chargerIn>>
    BY <1>14 DEF ReceiveCommand, environment
  <2>5. SendLocalCalls(Pushed(queued, kind, c), inFlight, pending, r)
    BY <2>1
  <2> HIDE DEF r
  <2> QED BY <1>0, <2>2, <2>3, <2>4, <2>5, SendLocalCallsCalls
<1>15. CASE CommandTick
  <2> DEFINE expired == ExpiredQueued(queued, age)
             late == ExpiredFlight(inFlight)
             flight == IF late THEN NoFlight ELSE inFlight
             r == Report(results, expired \cup (IF late THEN {inFlight.cmd} ELSE {}), "Timeout")
             q == queued \ expired
  <2>1. r \in [Commands -> Seq(Statuses)] /\ flight \in InFlights
    BY <1>0, ReportType
  <2>2. SendLocalCalls(q, flight, pending, r) /\ UNCHANGED <<centralIn, asked, downN, chargerIn>>
    BY <1>15 DEF CommandTick, environment
  <2>3. q \in SUBSET (inbox \cup queued)
    OBVIOUS
  <2> HIDE DEF r, flight, q
  <2> QED BY <2>1, <2>2, <2>3, SendLocalCallsCalls
<1>16. CASE Teardown
  <2> DEFINE close == Frame(0, "Close", NoUid)
  <2>1. /\ centralIn' = <<>> /\ UNCHANGED <<asked, chargerIn, downN>>
        /\ toCharger' = IF writerUp THEN Append(toCharger, close) ELSE toCharger
    BY <1>16 DEF Teardown, environment
  <2>2. CallsOf(<<>>, toCharger, asked, chargerIn, downN)
    BY <1>0, CentralRead
  <2>3. CallsTyped(<<>>, toCharger, asked, chargerIn, downN)
    BY <1>0 DEF CallsTyped
  <2>4. close \in OutboundFrames /\ close.type # "Call"
    BY DEF Frame, NoUid, OutboundFrames, Uids
  <2> HIDE DEF close
  <2>5. CallsOf(<<>>, Append(toCharger, close), asked, chargerIn, downN)
    BY <2>2, <2>3, <2>4, ProxyQueued
  <2> QED BY <2>1, <2>2, <2>5 DEF CallsInv
<1>17. CASE WriterSends
  <2>1. /\ toCharger # <<>> /\ UNCHANGED <<centralIn, chargerIn, downN>>
        /\ toCharger' = Tail(toCharger) \/ (toCharger' = <<>> /\ Head(toCharger).type = "Close")
        /\ asked' = IF Head(toCharger).type = "Call" /\ chargerUp
                      THEN asked \cup {Head(toCharger).uid} ELSE asked
    BY <1>17 DEF WriterSends
  <2>2. /\ CallsOf(centralIn, <<>>, asked, chargerIn, downN)
        /\ CallsOf(centralIn, Tail(toCharger), asked, chargerIn, downN)
        /\ Head(toCharger).type = "Call" =>
              CallsOf(centralIn, Tail(toCharger), asked \cup {Head(toCharger).uid},
                      chargerIn, downN)
    BY <1>0, <2>1, WriterTakes
  <2> QED BY <2>1, <2>2 DEF CallsInv
<1>18. CASE WriterFails
  <2>1. CallsOf(centralIn, <<>>, asked, chargerIn, downN)
    BY <1>0, WriterTakes
  <2> QED BY <1>18, <2>1 DEF WriterFails, CallsInv
<1>19. CASE ChargerSends
  <2>1. PICK type \in UpTypes :
          /\ upN < MaxUp /\ UNCHANGED <<centralIn, toCharger, asked, downN>>
          /\ chargerIn' = Append(chargerIn,
                Frame(upN + 1, type, IF type = "Call" THEN <<"ocpp", upN + 1>> ELSE NoUid))
    BY <1>19 DEF ChargerSends, ChargerSendsFrame
  <2> DEFINE f == Frame(upN + 1, type, IF type = "Call" THEN <<"ocpp", upN + 1>> ELSE NoUid)
  <2>2. f \in ChargerFrames /\ f.type # "Result" /\ (f.type = "Call" => f.uid \in ChargerUids)
    BY <1>1, <2>1 DEF Frame, ChargerFrames, Uids, NoUid, ChargerUids
  <2>3. chargerIn' = Append(chargerIn, f)
    BY <2>1
  <2> HIDE DEF f
  <2>4. CallsOf(centralIn, toCharger, asked, Append(chargerIn, f), downN)
    BY <1>0, <2>2, ChargerSent
  <2> QED BY <2>1, <2>3, <2>4 DEF CallsInv
<1>20. CASE ChargerAnswers
  <2>1. PICK uid \in asked :
          /\ upN < MaxUp /\ UNCHANGED <<centralIn, toCharger, downN>>
          /\ asked' = asked \ {uid}
          /\ chargerIn' = Append(chargerIn, Frame(upN + 1, "Result", uid))
    BY <1>20 DEF ChargerAnswers, ChargerSendsFrame
  <2> DEFINE f == Frame(upN + 1, "Result", uid)
  <2>2. f \in ChargerFrames /\ f.type = "Result" /\ f.uid = uid
    BY <1>1, <2>1 DEF Frame, ChargerFrames
  <2>3. chargerIn' = Append(chargerIn, f)
    BY <2>1
  <2> HIDE DEF f
  <2>4. CallsOf(centralIn, toCharger, asked \ {f.uid}, Append(chargerIn, f), downN)
    BY <1>0, <2>1, <2>2, ChargerAnswered
  <2> QED BY <2>1, <2>2, <2>3, <2>4 DEF CallsInv
<1>21. CASE CentralSends \/ CentralAnswers
  <2>1. PICK type \in DownTypes \cup {"Result"}, uid \in Uids :
          /\ downN < MaxDown /\ downN' = downN + 1
          /\ UNCHANGED <<chargerIn, toCharger, asked>>
          /\ centralIn' = Append(centralIn, Frame(downN + 1, type, uid))
          /\ type = "Call" => uid = CentralUid(downN + 1)
    <3>1. CASE CentralSends
      <4>1. PICK type \in DownTypes :
              CentralSendsFrame(type, IF type = "Call"
                                     THEN <<"ocpp", CentralUidBase + downN + 1>> ELSE NoUid)
        BY <3>1 DEF CentralSends
      <4>2. NoUid \in Uids /\ CentralUid(downN + 1) \in Uids
            /\ CentralUid(downN + 1) = <<"ocpp", CentralUidBase + downN + 1>>
        BY <1>1 DEF NoUid, Uids, CentralUid
      <4> QED BY <4>1, <4>2 DEF CentralSendsFrame
    <3>2. CASE CentralAnswers
      BY <1>1, <3>2 DEF CentralAnswers, CentralSendsFrame
    <3> QED BY <1>21, <3>1, <3>2
  <2> DEFINE f == Frame(downN + 1, type, uid)
  <2>2. f \in CentralFrames /\ f.n = downN + 1 /\ (f.type = "Call" => f.uid = CentralUid(downN + 1))
    BY <1>1, <2>1 DEF Frame, CentralFrames
  <2>3. centralIn' = Append(centralIn, f)
    BY <2>1
  <2> HIDE DEF f
  <2>4. CallsOf(Append(centralIn, f), toCharger, asked, chargerIn, downN + 1)
    BY <1>0, <2>2, CentralSent
  <2> QED BY <2>1, <2>3, <2>4 DEF CallsInv
<1>22. CASE ChargerHangsUp \/ LinkBreaks \/ Cancel \/ RouterDropsSender \/ Tick
  BY <1>2, <1>22 DEF ChargerHangsUp, LinkBreaks, Cancel, RouterDropsSender, Tick, environment
<1>23. CASE DispatchAccepted \/ DispatchQueueFull \/ DispatchNotConnected \/ Terminated
  BY <1>2, <1>23 DEF DispatchAccepted, DispatchQueueFull, DispatchNotConnected, DispatchTo,
     Terminated, vars, environment
<1> QED
  BY <1>4, <1>5, <1>6, <1>7, <1>8, <1>9, <1>10, <1>11, <1>12, <1>13, <1>14, <1>15, <1>16,
     <1>17, <1>18, <1>19, <1>20, <1>21, <1>22, <1>23 DEF Next, SessionStep, EnvironmentStep

\* What must be shown of a step: only the Call in flight is new on the line, a
\* Call leaves the flight answered or given up, and what is buffered or
\* written upstream answers Calls already given up.
LEMMA OwedKept ==
    ASSUME LineInv, TypeOK', CommandLedger', Next,
           \A c \in Commands : ProxyUid(c) \in Owing(toCharger', asked', chargerIn') =>
              ProxyUid(c) \in Owing(toCharger, asked, chargerIn) \/ inFlight'.cmd = c,
           \A c \in Commands : inFlight.cmd = c =>
              \/ inFlight'.cmd = c \/ results'[c] = <<"Timeout">>
              \/ ProxyUid(c) \notin Owing(toCharger', asked', chargerIn'),
           \A c \in Commands, i \in 1..Len(upBuffer') :
              upBuffer'[i].uid = ProxyUid(c) => results[c] = <<"Timeout">>,
           \A c \in leaked' : results[c] = <<"Timeout">>
    PROVE  Owed'
<1>1. \A c \in Commands : results[c] = <<"Timeout">> => results'[c] = <<"Timeout">>
  <2>1. ASSUME NEW c \in Commands, results[c] = <<"Timeout">> PROVE results'[c] = results[c]
    <3>1. results[c] # <<>>
      BY <2>1
    <3> QED BY <3>1, ResultsFinal DEF LineInv
  <2> QED BY <2>1
<1>2. \A c \in Commands : ProxyUid(c) \in Owing(toCharger', asked', chargerIn') =>
         inFlight'.cmd = c \/ results'[c] = <<"Timeout">>
  BY <1>1 DEF LineInv, Owed
<1>3. leaked' \subseteq Commands
  BY DEF TypeOK, HistoryTypes
<1>4. LeakOnlyAfterTimeout'
  BY <1>1, <1>3 DEF LeakOnlyAfterTimeout
<1>5. \A c \in Commands, i \in 1..Len(upBuffer') :
         upBuffer'[i].uid = ProxyUid(c) => results'[c] = <<"Timeout">>
  BY <1>1
<1> QED BY <1>2, <1>4, <1>5 DEF Owed

\* A send_local_calls after which flight is the Call in flight: still the same
\* one, or its predecessor's answer has been read, or it was given up.
LEMMA SendLocalCallsOwed ==
    ASSUME LineInv, TypeOK', CommandLedger', Next,
           NEW q \in SUBSET (inbox \cup queued), NEW flight \in InFlights, NEW tracker,
           NEW r \in [Commands -> Seq(Statuses)], SendLocalCalls(q, flight, tracker, r),
           UNCHANGED <<asked, upBuffer>>,
           Owing(toCharger, asked, chargerIn') \subseteq Owing(toCharger, asked, chargerIn),
           \/ flight = inFlight
           \/ ProxyUid(inFlight.cmd) \notin Owing(toCharger, asked, chargerIn')
           \/ r[inFlight.cmd] = <<"Timeout">>,
           \A c \in leaked' : results[c] = <<"Timeout">>
    PROVE  Owed'
<1>1. q \in SUBSET Commands
  BY DEF LineInv, TypeOK, CommandTypes
<1>2. /\ \/ toCharger' = toCharger /\ inFlight' = flight
         \/ \E c \in q : /\ flight = NoFlight
                         /\ toCharger' = Append(toCharger, Frame(0, "Call", ProxyUid(c)))
                         /\ inFlight' = [cmd |-> c, age |-> 0]
      /\ Grown(r, results')
  BY <1>1, SendLocalCallsLine
<1>3. toCharger \in Seq(OutboundFrames) /\ NoFlight.cmd \notin Commands
  BY DEF LineInv, TypeOK, NetworkTypes, NoFlight, Commands
<1>4. \A c \in q : /\ Frame(0, "Call", ProxyUid(c)) \in OutboundFrames
                   /\ Frame(0, "Call", ProxyUid(c)).uid = ProxyUid(c)
                   /\ c # inFlight.cmd
  BY <1>1 DEF Frame, OutboundFrames, Uids, ProxyUid, Commands, LineInv, CommandLedger, LedgerOf
<1>5. \A d \in Commands : ProxyUid(d) \in Owing(toCharger', asked', chargerIn') =>
         \/ ProxyUid(d) \in Owing(toCharger, asked, chargerIn')
         \/ inFlight'.cmd = d /\ d \in q /\ flight = NoFlight
  <2>1. CASE toCharger' = toCharger
    BY <2>1
  <2>2. ASSUME NEW c \in q, toCharger' = Append(toCharger, Frame(0, "Call", ProxyUid(c))),
               inFlight' = [cmd |-> c, age |-> 0], flight = NoFlight,
               NEW d \in Commands, ProxyUid(d) \in Owing(toCharger', asked', chargerIn')
        PROVE  \/ ProxyUid(d) \in Owing(toCharger, asked, chargerIn')
               \/ inFlight'.cmd = d /\ d \in q
    <3>1. UidsOf(toCharger', "Call") \subseteq UidsOf(toCharger, "Call") \cup {ProxyUid(c)}
      <4> DEFINE f == Frame(0, "Call", ProxyUid(c))
      <4>1. f \in OutboundFrames /\ f.uid = ProxyUid(c)
        BY <1>4
      <4> HIDE DEF f
      <4>2. UidsOf(Append(toCharger, f), "Call") =
               UidsOf(toCharger, "Call") \cup (IF f.type = "Call" THEN {f.uid} ELSE {})
        BY <1>3, <4>1, UidsAppend
      <4>3. UidsOf(Append(toCharger, f), "Call") \subseteq UidsOf(toCharger, "Call") \cup {ProxyUid(c)}
        BY <4>1, <4>2
      <4> QED BY <2>2, <4>3 DEF f
    <3>2. ProxyUid(d) = ProxyUid(c) => c = d
      BY DEF ProxyUid
    <3> QED BY <2>2, <3>1, <3>2 DEF Owing
  <2> QED BY <1>2, <2>1, <2>2
<1>6. \A c \in Commands : r[c] = <<"Timeout">> => results'[c] = <<"Timeout">>
  <2>1. ASSUME NEW c \in Commands, r[c] = <<"Timeout">> PROVE results'[c] = r[c]
    <3>1. Len(r[c]) = 1 /\ Len(results'[c]) <= 1
      BY <2>1 DEF CommandLedger, LedgerOf
    <3>2. Len(results'[c]) \in Nat
      BY DEF TypeOK, CommandTypes
    <3>3. results'[c] = r[c] \/ Len(results'[c]) > Len(r[c])
      BY <1>2 DEF Grown
    <3> QED BY <3>1, <3>2, <3>3
  <2> QED BY <2>1
<1>7. \A c \in Commands : inFlight.cmd = c =>
         \/ inFlight'.cmd = c \/ results'[c] = <<"Timeout">>
         \/ ProxyUid(c) \notin Owing(toCharger', asked', chargerIn')
  BY <1>2, <1>3, <1>4, <1>5, <1>6
<1>8. \A c \in Commands, i \in 1..Len(upBuffer') :
         upBuffer'[i].uid = ProxyUid(c) => results[c] = <<"Timeout">>
  BY DEF LineInv, Owed
<1>9. \A c \in Commands : ProxyUid(c) \in Owing(toCharger', asked', chargerIn') =>
         ProxyUid(c) \in Owing(toCharger, asked, chargerIn) \/ inFlight'.cmd = c
  BY <1>5
<1> QED BY <1>7, <1>8, <1>9, OwedKept

\* The steps of the line, as far as Owed can tell.
LEMMA OwedStep ==
    ASSUME LineInv, TypeOK', CommandLedger', Next
    PROVE  Owed'
<1>0. /\ CallsTyped(centralIn, toCharger, asked, chargerIn, downN)
      /\ CallsOf(centralIn, toCharger, asked, chargerIn, downN)
      /\ queued \in SUBSET Commands /\ inbox \in SUBSET Commands
      /\ inFlight \in InFlights /\ NoFlight \in InFlights
      /\ results \in [Commands -> Seq(Statuses)]
      /\ {"Answered", "Superseded", "Rejected", "Timeout", "NotConnected"} \subseteq Statuses
  BY LineTyped DEF LineInv, CallsInv, TypeOK, CommandTypes, InFlights, Statuses
<1>1. /\ centralIn \in Seq(CentralFrames) /\ toCharger \in Seq(OutboundFrames)
      /\ chargerIn \in Seq(ChargerFrames) /\ downN \in 0..MaxDown /\ upN \in 0..MaxUp
      /\ asked \in SUBSET Uids /\ heard \in SUBSET Uids
  BY DEF LineInv, TypeOK, NetworkTypes
<1>2. /\ leaked \subseteq Commands
      /\ \A c \in leaked : results[c] = <<"Timeout">>
      /\ \A c \in Commands, i \in 1..Len(upBuffer) :
            upBuffer[i].uid = ProxyUid(c) => results[c] = <<"Timeout">>
      /\ \A c \in Commands : ProxyUid(c) \in Owing(toCharger, asked, chargerIn) =>
            inFlight.cmd = c \/ results[c] = <<"Timeout">>
  BY DEF LineInv, Owed, LeakOnlyAfterTimeout, TypeOK, HistoryTypes
<1>3. ASSUME Owing(toCharger', asked', chargerIn') \subseteq Owing(toCharger, asked, chargerIn),
             inFlight'.cmd = inFlight.cmd, UNCHANGED <<upBuffer, leaked>>
      PROVE  Owed'
  BY <1>2, <1>3, OwedKept
<1>4. ASSUME UNCHANGED <<toCharger, asked, chargerIn, inFlight, upBuffer, leaked>>
      PROVE  Owed'
  BY <1>3, <1>4
<1>5. CASE ConnectSucceeds \/ ConnectFails \/ BackoffEnds \/ LostWaitCancelled \/ ForwardingEnds
  BY <1>4, <1>5 DEF ConnectSucceeds, ConnectFails, BackoffEnds, LostWaitCancelled,
     ForwardingEnds, environment, commands, history
<1>6. CASE BackoffElapses \/ LostWaitElapses \/ DownstreamFails \/ AnswerPing
  BY <1>4, <1>6 DEF BackoffElapses, LostWaitElapses, DownstreamFails, AnswerPing, environment,
     commands, history
<1>7. CASE UpstreamCloses \/ CommandsClose \/ SessionEnds
  BY <1>4, <1>7 DEF UpstreamCloses, CommandsClose, SessionEnds, environment, commands, history
<1>8. CASE ChargerHangsUp \/ LinkBreaks \/ Cancel \/ RouterDropsSender \/ CentralSends \/
           CentralAnswers
  BY <1>4, <1>8 DEF ChargerHangsUp, LinkBreaks, Cancel, RouterDropsSender, CentralSends,
     CentralAnswers, CentralSendsFrame, environment, sessionState, history
<1>9. CASE DispatchAccepted \/ DispatchQueueFull \/ DispatchNotConnected \/ Terminated
  BY <1>4, <1>9 DEF DispatchAccepted, DispatchQueueFull, DispatchNotConnected, DispatchTo,
     Terminated, vars, commands, environment, history
<1>10. ASSUME chargerIn # <<>>
       PROVE  /\ Owing(toCharger, asked, Tail(chargerIn)) \subseteq
                    Owing(toCharger, asked, chargerIn)
              /\ Head(chargerIn).type = "Result" =>
                    /\ Head(chargerIn).uid \in Owing(toCharger, asked, chargerIn)
                    /\ Head(chargerIn).uid \notin Owing(toCharger, asked, Tail(chargerIn))
              /\ Head(chargerIn).type = "Call" => Head(chargerIn).uid \in ChargerUids
  BY <1>0, <1>10, ChargerRead
<1>11. CASE BackoffReadsFrame \/ ForwardVerbatimUpstream \/ VerbatimUpstreamFails \/ IgnoreBinary
  <2>1. /\ chargerIn # <<>> /\ chargerIn' = Tail(chargerIn)
        /\ UNCHANGED <<toCharger, asked, inFlight, upBuffer, leaked>>
    BY <1>11 DEF BackoffReadsFrame, ForwardVerbatimUpstream, VerbatimUpstreamFails,
       IgnoreBinary, ChargerFrame, environment, commands
  <2> QED BY <1>3, <1>10, <2>1
\* What is passed on upstream is no answer to the Call in flight.
<1>12. ASSUME ChargerFrame({"Call", "Result"}), ForwardedUpstream(Head(chargerIn)),
              NEW c \in Commands, Head(chargerIn).uid = ProxyUid(c)
       PROVE  results[c] = <<"Timeout">>
  <2>1. chargerIn # <<>> /\ Head(chargerIn).type \in {"Call", "Result"}
    BY <1>12 DEF ChargerFrame
  <2>2. ProxyUid(c) \notin ChargerUids
    BY DEF ProxyUid, ChargerUids
  <2>3. Head(chargerIn).type = "Result" /\ ProxyUid(c) \in Owing(toCharger, asked, chargerIn)
    BY <1>10, <1>12, <2>1, <2>2
  <2>4. inFlight.cmd # c
    <3> SUFFICES ASSUME inFlight.cmd = c PROVE FALSE
      OBVIOUS
    <3>1. inFlight # NoFlight
      BY DEF NoFlight, Commands
    <3> QED BY <1>12, <2>3, <3>1 DEF ForwardedUpstream, IsOurs, ProxyUid
  <2> QED BY <1>2, <2>3, <2>4
<1>13. CASE ForwardUpstreamFails
  <2>1. /\ ChargerFrame({"Call", "Result"}) /\ ForwardedUpstream(Head(chargerIn))
        /\ pc = "forwarding" /\ chargerIn # <<>> /\ chargerIn' = Tail(chargerIn)
        /\ UNCHANGED <<toCharger, asked, inFlight, leaked>>
        /\ upBuffer' = buffer_upstream(upBuffer, Head(chargerIn))
    BY <1>13 DEF ForwardUpstreamFails, ChargerFrame, environment, commands
  <2>2. upBuffer = <<>>
    BY <2>1 DEF LineInv, BufferHoldsAtMostOne
  <2>3. upBuffer' = <<Buffered(Head(chargerIn))>>
    BY <2>1, <2>2 DEF buffer_upstream
  <2>4. Len(upBuffer') = 1 /\ upBuffer'[1].uid = Head(chargerIn).uid
    BY <2>3 DEF Buffered
  <2>5. \A c \in Commands, i \in 1..Len(upBuffer') :
           upBuffer'[i].uid = ProxyUid(c) => results[c] = <<"Timeout">>
    BY <1>12, <2>1, <2>4
  <2> QED BY <1>2, <1>10, <2>1, <2>5, OwedKept
<1>14. ASSUME NEW k \in 0..Len(upBuffer), FlushUpstream(k) PROVE Owed'
  <2>1. /\ UNCHANGED <<toCharger, asked, chargerIn, inFlight>>
        /\ upBuffer' = SubSeq(upBuffer, k + 1, Len(upBuffer))
        /\ \A c \in leaked' : \/ c \in leaked
                              \/ c \in Commands /\ \E i \in 1..k : upBuffer[i].uid = ProxyUid(c)
    BY <1>14 DEF FlushUpstream, LeftAfterFlush, ProxyUid, environment, commands
  <2>2. upBuffer \in Seq(BufferedFrames)
    BY DEF LineInv, TypeOK, SessionTypes
  <2>3. \A i \in 1..k : i \in 1..Len(upBuffer)
    BY <1>14, <2>2
  <2>4. \A i \in 1..Len(upBuffer') : i + k \in 1..Len(upBuffer) /\ upBuffer'[i] = upBuffer[i + k]
    BY <1>14, <2>1, <2>2
  <2>5. \A c \in Commands, i \in 1..Len(upBuffer') :
           upBuffer'[i].uid = ProxyUid(c) => results[c] = <<"Timeout">>
    BY <1>2, <2>4
  <2>6. \A c \in leaked' : results[c] = <<"Timeout">>
    BY <1>2, <2>1, <2>3
  <2> QED BY <2>1, <2>5, <2>6, OwedKept
<1>15. CASE Housekeeping
  <2>1. /\ pc = "forwarding" /\ upBuffer' = evict_expired_messages(upBuffer)
        /\ UNCHANGED <<toCharger, asked, chargerIn, inFlight, leaked>>
    BY <1>15 DEF Housekeeping, environment, commands
  <2>2. upBuffer = <<>>
    BY <2>1 DEF LineInv, BufferHoldsAtMostOne
  <2>3. upBuffer' = upBuffer
    BY <2>1, <2>2 DEF evict_expired_messages
  <2> QED BY <1>4, <2>1, <2>3
<1>16. CASE Tick
  <2>1. /\ UNCHANGED <<toCharger, asked, chargerIn, leaked>> /\ inFlight'.cmd = inFlight.cmd
        /\ upBuffer' = [i \in 1..Len(upBuffer) |-> AgedFrame(upBuffer[i])]
    BY <1>16 DEF Tick, environment
  <2>2. upBuffer \in Seq(BufferedFrames) /\ Len(upBuffer) \in Nat
    BY DEF LineInv, TypeOK, SessionTypes
  <2>3. Len(upBuffer') = Len(upBuffer)
    BY <2>1, <2>2
  <2>4. \A i \in 1..Len(upBuffer') : upBuffer'[i].uid = upBuffer[i].uid
    BY <2>1, <2>3 DEF AgedFrame
  <2>5. \A c \in Commands, i \in 1..Len(upBuffer') :
           upBuffer'[i].uid = ProxyUid(c) => results[c] = <<"Timeout">>
    BY <1>2, <2>3, <2>4
  <2> QED BY <1>2, <2>1, <2>5, OwedKept
<1>17. CASE ForwardDownstream \/ ForwardVerbatimDownstream
  <2>1. /\ centralIn # <<>> /\ Head(centralIn).type \in {"Call", "Result", "Bad"}
        /\ toCharger' = Append(toCharger, Head(centralIn))
        /\ UNCHANGED <<asked, chargerIn, inFlight, upBuffer, leaked>>
    BY <1>17 DEF ForwardDownstream, ForwardVerbatimDownstream, CentralFrame,
       QueuedForCharger, environment, commands, history
  <2>2. Head(centralIn) \in CentralFrames
    BY <1>1, <2>1, HeadTail
  <2>3. Head(centralIn) \in OutboundFrames
    BY <2>1, <2>2 DEF CentralFrames, OutboundFrames
  <2>4. UidsOf(toCharger', "Call") = UidsOf(toCharger, "Call") \cup
           (IF Head(centralIn).type = "Call" THEN {Head(centralIn).uid} ELSE {})
    BY <1>1, <2>1, <2>3, UidsAppend
  <2>5. Head(centralIn).type = "Call" => \A c \in Commands : Head(centralIn).uid # ProxyUid(c)
    <3>1. Head(centralIn).type = "Call" => Head(centralIn).uid \in UidsOf(centralIn, "Call")
      BY <1>1, <2>1, UidsTail
    <3>2. UidsOf(centralIn, "Call") \subseteq {CentralUid(k) : k \in 1..downN}
      BY <1>0 DEF CallsOf
    <3> QED BY <3>1, <3>2 DEF CentralUid, ProxyUid
  <2>6. \A c \in Commands : ProxyUid(c) \in Owing(toCharger', asked', chargerIn') =>
           ProxyUid(c) \in Owing(toCharger, asked, chargerIn)
    BY <2>1, <2>4, <2>5 DEF Owing
  <2> QED BY <1>2, <2>1, <2>6, OwedKept
<1>18. CASE WriterSends
  <2>1. /\ toCharger # <<>> /\ UNCHANGED <<chargerIn, inFlight, upBuffer, leaked>>
        /\ toCharger' = Tail(toCharger) \/ toCharger' = <<>>
        /\ asked' \subseteq asked \cup (IF Head(toCharger).type = "Call"
                                          THEN {Head(toCharger).uid} ELSE {})
    BY <1>18 DEF WriterSends, commands
  <2>2. /\ UidsOf(Tail(toCharger), "Call") \subseteq UidsOf(toCharger, "Call")
        /\ Head(toCharger).type = "Call" => Head(toCharger).uid \in UidsOf(toCharger, "Call")
        /\ UidsOf(<<>>, "Call") = {}
    BY <1>1, <2>1, UidsTail, UidsNone
  <2>3. Owing(toCharger', asked', chargerIn') \subseteq Owing(toCharger, asked, chargerIn)
    BY <2>1, <2>2 DEF Owing
  <2> QED BY <1>3, <2>1, <2>3
<1>19. CASE WriterFails
  <2>1. toCharger' = <<>> /\ UNCHANGED <<asked, chargerIn, inFlight, upBuffer, leaked>>
    BY <1>19 DEF WriterFails, commands, history
  <2>2. Owing(toCharger', asked', chargerIn') \subseteq Owing(toCharger, asked, chargerIn)
    BY <2>1, UidsNone DEF Owing
  <2> QED BY <1>3, <2>1, <2>2
<1>20. CASE ChargerSends
  <2>1. PICK type \in UpTypes :
          /\ upN < MaxUp /\ UNCHANGED <<toCharger, asked, inFlight, upBuffer, leaked>>
          /\ chargerIn' = Append(chargerIn,
                Frame(upN + 1, type, IF type = "Call" THEN <<"ocpp", upN + 1>> ELSE NoUid))
    BY <1>20 DEF ChargerSends, ChargerSendsFrame, sessionState
  <2> DEFINE f == Frame(upN + 1, type, IF type = "Call" THEN <<"ocpp", upN + 1>> ELSE NoUid)
  <2>2. f \in ChargerFrames /\ f.type # "Result"
    BY <1>1, <2>1 DEF Frame, ChargerFrames, Uids, NoUid
  <2>3. chargerIn' = Append(chargerIn, f)
    BY <2>1
  <2> HIDE DEF f
  <2>4. UidsOf(chargerIn', "Result") = UidsOf(chargerIn, "Result")
    BY <1>1, <2>2, <2>3, UidsAppendOther
  <2>5. Owing(toCharger', asked', chargerIn') \subseteq Owing(toCharger, asked, chargerIn)
    BY <2>1, <2>4 DEF Owing
  <2> QED BY <1>3, <2>1, <2>5
<1>21. CASE ChargerAnswers
  <2>1. PICK uid \in asked :
          /\ upN < MaxUp /\ UNCHANGED <<toCharger, inFlight, upBuffer, leaked>>
          /\ asked' = asked \ {uid}
          /\ chargerIn' = Append(chargerIn, Frame(upN + 1, "Result", uid))
    BY <1>21 DEF ChargerAnswers, ChargerSendsFrame, sessionState
  <2> DEFINE f == Frame(upN + 1, "Result", uid)
  <2>2. f \in ChargerFrames /\ f.type = "Result" /\ f.uid = uid
    BY <1>1, <2>1 DEF Frame, ChargerFrames
  <2>3. chargerIn' = Append(chargerIn, f)
    BY <2>1
  <2> HIDE DEF f
  <2>4. Owing(toCharger, asked \ {f.uid}, Append(chargerIn, f)) = Owing(toCharger, asked, chargerIn)
    BY <1>0, <2>1, <2>2, ChargerAnswered
  <2> QED BY <1>3, <2>1, <2>2, <2>3, <2>4
<1>22. CASE AnswerConsumed
  <2> DEFINE r == Report(results, {inFlight.cmd}, "Answered")
  <2>1. r \in [Commands -> Seq(Statuses)] /\ SendLocalCalls(queued, NoFlight, pending, r)
    BY <1>0, <1>22, ReportType DEF AnswerConsumed
  <2>2. /\ chargerIn # <<>> /\ chargerIn' = Tail(chargerIn) /\ Head(chargerIn).type = "Result"
        /\ Head(chargerIn).uid = ProxyUid(inFlight.cmd)
        /\ UNCHANGED <<asked, upBuffer, leaked>>
    BY <1>22 DEF AnswerConsumed, ChargerFrame, IsOurs, ProxyUid, environment
  <2> HIDE DEF r
  <2> QED BY <1>0, <1>2, <1>10, <2>1, <2>2, SendLocalCallsOwed
<1>23. CASE ForwardUpstream
  <2>1. /\ ChargerFrame({"Call", "Result"}) /\ ForwardedUpstream(Head(chargerIn))
        /\ chargerIn # <<>> /\ chargerIn' = Tail(chargerIn)
        /\ UNCHANGED <<asked, upBuffer>>
        /\ leaked' = leaked \cup {c \in Commands : Head(chargerIn).uid = ProxyUid(c)}
        /\ SendLocalCalls(queued, inFlight, pending', results)
    BY <1>23 DEF ForwardUpstream, ChargerFrame, ProxyUid, environment
  <2>2. \A c \in leaked' : results[c] = <<"Timeout">>
    BY <1>2, <1>12, <2>1
  <2>3. Owing(toCharger, asked, chargerIn') \subseteq Owing(toCharger, asked, chargerIn)
    BY <1>10, <2>1
  <2>4. queued \in SUBSET (inbox \cup queued)
    OBVIOUS
  <2> QED BY <1>0, <2>1, <2>2, <2>3, <2>4, SendLocalCallsOwed
<1>24. CASE ReceiveCommand
  <2>1. PICK c \in Oldest(inbox) :
          LET displaced == Displaced(queued, kind, c)
              limits == {d \in displaced : IsLimit(kind[d])}
          IN SendLocalCalls(Pushed(queued, kind, c), inFlight, pending,
                    Report(Report(results, limits, "Superseded"),
                           displaced \ limits, "Rejected"))
    BY <1>24 DEF ReceiveCommand
  <2> DEFINE displaced == Displaced(queued, kind, c)
             limits == {d \in displaced : IsLimit(kind[d])}
             r == Report(Report(results, limits, "Superseded"), displaced \ limits, "Rejected")
  <2>2. r \in [Commands -> Seq(Statuses)]
    BY <1>0, ReportType
  <2>3. Pushed(queued, kind, c) \in SUBSET (inbox \cup queued)
    BY DEF Pushed, Oldest
  <2>4. UNCHANGED <<asked, chargerIn, upBuffer, leaked>>
    BY <1>24 DEF ReceiveCommand, environment, history
  <2>5. SendLocalCalls(Pushed(queued, kind, c), inFlight, pending, r)
    BY <2>1
  <2> HIDE DEF r
  <2> QED BY <1>0, <1>2, <2>2, <2>3, <2>4, <2>5, SendLocalCallsOwed
<1>25. CASE CommandTick
  <2> DEFINE expired == ExpiredQueued(queued, age)
             late == ExpiredFlight(inFlight)
             flight == IF late THEN NoFlight ELSE inFlight
             r == Report(results, expired \cup (IF late THEN {inFlight.cmd} ELSE {}), "Timeout")
             q == queued \ expired
  <2>1. r \in [Commands -> Seq(Statuses)] /\ flight \in InFlights
    BY <1>0, ReportType
  <2>2. SendLocalCalls(q, flight, pending, r) /\ UNCHANGED <<asked, chargerIn, upBuffer, leaked>>
    BY <1>25 DEF CommandTick, environment, history
  <2>3. q \in SUBSET (inbox \cup queued)
    OBVIOUS
  <2>4. flight = inFlight \/ r[inFlight.cmd] = <<"Timeout">>
    <3>1. CASE late
      <4>1. inFlight.cmd \in Commands
        BY <1>0, <3>1 DEF ExpiredFlight, InFlights
      <4>2. results[inFlight.cmd] = <<>>
        BY <4>1 DEF LineInv, CommandLedger, LedgerOf
      <4>3. r[inFlight.cmd] = Append(results[inFlight.cmd], "Timeout")
        BY <1>0, <3>1, <4>1 DEF Report
      <4>4. Append(<<>>, "Timeout") = <<"Timeout">>
        OBVIOUS
      <4> QED BY <4>2, <4>3, <4>4
    <3> QED BY <3>1
  <2> HIDE DEF r, flight, q
  <2> QED BY <1>2, <2>1, <2>2, <2>3, <2>4, SendLocalCallsOwed
<1>26. CASE Teardown
  <2> DEFINE close == Frame(0, "Close", NoUid)
  <2>1. /\ UNCHANGED <<asked, chargerIn, leaked>> /\ upBuffer' = <<>>
        /\ toCharger' = IF writerUp THEN Append(toCharger, close) ELSE toCharger
    BY <1>26 DEF Teardown, environment
  <2>2. close \in OutboundFrames /\ close.type # "Call"
    BY DEF Frame, NoUid, OutboundFrames, Uids
  <2> HIDE DEF close
  <2>3. UidsOf(Append(toCharger, close), "Call") = UidsOf(toCharger, "Call")
    BY <1>1, <2>2, UidsAppendOther
  <2>4. Owing(toCharger', asked', chargerIn') = Owing(toCharger, asked, chargerIn)
    BY <2>1, <2>3 DEF Owing
  <2>5. \A c \in Commands : inFlight.cmd = c => results'[c] = <<"Timeout">>
    <3>1. ASSUME NEW c \in Commands, inFlight.cmd = c PROVE results'[c] = <<"Timeout">>
      <4> DEFINE r == Report(results, queued \cup inbox, "NotConnected")
      <4>1. results' = Report(r, {d \in Commands : inFlight.cmd = d}, "Timeout")
        BY <1>26 DEF Teardown
      <4>2. results[c] = <<>> /\ c \notin queued \cup inbox
        BY <3>1 DEF LineInv, CommandLedger, LedgerOf
      <4>3. r \in [Commands -> Seq(Statuses)] /\ r[c] = <<>>
        BY <1>0, <4>2, ReportType DEF Report
      <4> HIDE DEF r
      <4> QED BY <3>1, <4>1, <4>3 DEF Report
    <3> QED BY <3>1
  <2>6. Len(upBuffer') = 0
    BY <2>1
  <2> QED BY <1>2, <2>1, <2>4, <2>5, <2>6, OwedKept
<1> QED
  BY <1>5, <1>6, <1>7, <1>8, <1>9, <1>11, <1>13, <1>14, <1>15, <1>16, <1>17, <1>18, <1>19,
     <1>20, <1>21, <1>22, <1>23, <1>24, <1>25, <1>26 DEF Next, SessionStep, EnvironmentStep

\* The Calls have one place each, and only answers given up are owed.
LEMMA LineInductive == Spec => [](CallsInv /\ Owed)
<1>1. Init => CallsInv /\ Owed
  <2> SUFFICES ASSUME Init PROVE CallsInv /\ Owed
    OBVIOUS
  <2>1. /\ centralIn = <<>> /\ toCharger = <<>> /\ chargerIn = <<>> /\ upBuffer = <<>>
        /\ asked = {} /\ leaked = {}
    BY DEF Init
  <2>2. CallsInv
    BY <2>1, UidsNone DEF CallsInv, CallsOf, Owing
  <2>3. Owed
    BY <2>1, UidsNone DEF Owed, Owing, LeakOnlyAfterTimeout
  <2> QED BY <2>2, <2>3
<1>2. LineInv /\ TypeOK' /\ CommandLedger' /\ [Next]_vars => (CallsInv /\ Owed)'
  <2>1. ASSUME CallsInv, Owed, UNCHANGED vars PROVE (CallsInv /\ Owed)'
    BY <2>1 DEF CallsInv, Owed, LeakOnlyAfterTimeout, vars, commands, environment, history
  <2>2. ASSUME LineInv, TypeOK', CommandLedger', Next PROVE (CallsInv /\ Owed)'
    <3>1. CallsInv'
      BY <2>2, CallsStep
    <3>2. Owed'
      BY <2>2, OwedStep
    <3> QED BY <3>1, <3>2
  <2> QED BY <2>1, <2>2 DEF LineInv
<1>3. TypeOK /\ BufferHoldsAtMostOne /\ CommandLedger /\ CallsInv /\ Owed => LineInv
  BY DEF LineInv
<1> QED BY <1>1, <1>2, <1>3, TypeCorrect, BufferBound, Ledger, PTL DEF Spec

\* An answer to one of the proxy's own Calls reaches the Central System only
\* when the command has already been reported as timed out: the charger gives
\* each of them one answer, and is_ours holds it back while it is in flight.
THEOREM LeaksAreLate == Spec => []LeakOnlyAfterTimeout
<1>1. Owed => LeakOnlyAfterTimeout
  BY DEF Owed
<1> QED BY <1>1, LineInductive, PTL

------------------------------------------------------------------------------
(***************************************************************************)
(* The line is clear when the proxy puts a Call on it.  This needs the ids *)
(* of the two endpoints apart: the tracker is keyed by the id alone, and   *)
(* with equal ids an answer of the charger consumes the wrong entry.       *)
(***************************************************************************)

\* What the Central System answers are Calls of the charger.
ChargersOwn ==
    /\ UidsOf(upBuffer, "Call") \subseteq ChargerUids
    /\ heard \subseteq ChargerUids
    /\ UidsOf(centralIn, "Result") \subseteq ChargerUids

\* The tracker has every open Call of the Central System, at least as young as
\* the Call is, until the Call is older than the grace period.
TrackedIn(tracker) ==
    \A m \in OpenCentralCalls :
        \/ downAge[m] >= Grace
        \/ \E e \in tracker : /\ e.uid = CentralUid(m) /\ e.dir = "CentralToCharger"
                              /\ e.age <= downAge[m]

Tracked == TrackedIn(pending)

\* The Calls the charger still owes, before and after a step, by their unique
\* ids.
LEMMA OpenIs ==
    /\ OpenCentralCalls =
          {m \in 1..MaxDown : CentralUid(m) \in asked \cup UidsOf(toCharger, "Call")}
    /\ OpenCentralCalls' =
          {m \in 1..MaxDown : CentralUid(m) \in asked' \cup UidsOf(toCharger', "Call")}
BY DEF OpenCentralCalls, UidsOf, CentralUid

\* A line that looks free is free.
LEMMA FreeLine ==
    ASSUME TypeOK, NEW tracker \in SUBSET [uid : Uids, dir : Directions, age : 0..TrackMax],
           TrackedIn(tracker), ~LineBusy(tracker)
    PROVE  \A m \in OpenCentralCalls : downAge[m] >= Grace
<1> SUFFICES ASSUME NEW m \in OpenCentralCalls, ~(downAge[m] >= Grace) PROVE FALSE
  OBVIOUS
<1>1. PICK e \in tracker : e.dir = "CentralToCharger" /\ e.age <= downAge[m]
  BY DEF TrackedIn
<1>2. m \in 1..MaxDown
  BY DEF OpenCentralCalls
<1>3. downAge[m] \in Nat /\ e.age \in Nat
  BY <1>1, <1>2 DEF TypeOK, HistoryTypes
<1>4. e.age < Grace
  BY <1>1, <1>3
<1> QED BY <1>1, <1>4 DEF LineBusy, has_recent_pending_in

\* What the charger sends consumes no entry of an open Call.
LEMMA ForwardUpstreamTracked ==
    ASSUME CentralUidBase >= MaxUp, LineInv, Tracked, ForwardUpstream
    PROVE  TrackedIn(pending')
<1> DEFINE f == Head(chargerIn)
<1>1. /\ chargerIn # <<>> /\ f.type \in {"Call", "Result"}
      /\ pending' = resolve_action(pending, f, "ChargerToCentral")
  BY DEF ForwardUpstream, ChargerFrame
<1>2. /\ f.type = "Result" => f.uid \notin asked \cup UidsOf(toCharger, "Call")
      /\ f.type = "Call" => f.uid \in ChargerUids
  BY <1>1, LineTyped, ChargerRead DEF LineInv, CallsInv
<1>3. \A m \in OpenCentralCalls : CentralUid(m) # f.uid
  <2> TAKE m \in OpenCentralCalls
  <2>1. m \in 1..MaxDown /\ CentralUid(m) \in asked \cup UidsOf(toCharger, "Call")
    BY OpenIs
  <2>2. CentralUid(m) \notin ChargerUids
    BY <2>1 DEF CentralUid, ChargerUids
  <2> QED BY <1>1, <1>2, <2>1, <2>2
<1>4. \A e \in pending : e.uid # f.uid => e \in pending'
  BY <1>1 DEF resolve_action, track_call, resolve
<1> QED BY <1>3, <1>4 DEF Tracked, TrackedIn

\* Every step keeps the Central System answering Calls of the charger only.
LEMMA ChargersOwnStep ==
    ASSUME LineInv, ChargersOwn, Next
    PROVE  ChargersOwn'
<1>0. /\ centralIn \in Seq(CentralFrames) /\ chargerIn \in Seq(ChargerFrames)
      /\ upBuffer \in Seq(BufferedFrames) /\ downN \in 0..MaxDown /\ heard \in SUBSET Uids
      /\ UidsOf(chargerIn, "Call") \subseteq ChargerUids
  BY DEF LineInv, TypeOK, NetworkTypes, SessionTypes, CallsInv, CallsOf
<1>1. /\ UidsOf(<<>>, "Result") = {} /\ UidsOf(<<>>, "Call") = {}
      /\ centralIn # <<>> => UidsOf(Tail(centralIn), "Result") \subseteq UidsOf(centralIn, "Result")
      /\ chargerIn # <<>> /\ Head(chargerIn).type = "Call" => Head(chargerIn).uid \in ChargerUids
  BY <1>0, UidsNone, UidsTail
<1>2. ASSUME UNCHANGED <<upBuffer, heard>>,
             \/ centralIn' = <<>> \/ centralIn' = centralIn
             \/ centralIn # <<>> /\ centralIn' = Tail(centralIn)
      PROVE  ChargersOwn'
  BY <1>1, <1>2 DEF ChargersOwn
<1>3. CASE ConnectSucceeds \/ ConnectFails \/ BackoffEnds \/ LostWaitCancelled \/ ForwardingEnds
  BY <1>2, <1>3 DEF ConnectSucceeds, ConnectFails, BackoffEnds, LostWaitCancelled, ForwardingEnds
<1>4. CASE BackoffElapses \/ LostWaitElapses \/ BackoffReadsFrame
  BY <1>2, <1>4 DEF BackoffElapses, LostWaitElapses, BackoffReadsFrame, GoConnecting
<1>5. CASE ForwardVerbatimUpstream \/ VerbatimUpstreamFails \/ IgnoreBinary \/ AnswerConsumed
  BY <1>2, <1>5 DEF ForwardVerbatimUpstream, VerbatimUpstreamFails, IgnoreBinary, AnswerConsumed
<1>6. CASE ForwardDownstream \/ ForwardVerbatimDownstream \/ DownstreamFails \/ AnswerPing
  BY <1>2, <1>6 DEF ForwardDownstream, ForwardVerbatimDownstream, DownstreamFails, AnswerPing,
     CentralFrame
<1>7. CASE UpstreamCloses \/ CommandsClose \/ SessionEnds \/ ReceiveCommand \/ CommandTick
  BY <1>2, <1>7 DEF UpstreamCloses, CommandsClose, SessionEnds, ReceiveCommand, CommandTick
<1>8. CASE WriterSends \/ WriterFails \/ ChargerSends \/ ChargerAnswers \/ ChargerHangsUp
  BY <1>2, <1>8 DEF WriterSends, WriterFails, ChargerSends, ChargerAnswers, ChargerSendsFrame,
     ChargerHangsUp, sessionState
<1>9. CASE LinkBreaks \/ Cancel \/ RouterDropsSender
  BY <1>2, <1>9 DEF LinkBreaks, Cancel, RouterDropsSender, sessionState
<1>10. CASE DispatchAccepted \/ DispatchQueueFull \/ DispatchNotConnected \/ Terminated
  BY <1>2, <1>10 DEF DispatchAccepted, DispatchQueueFull, DispatchNotConnected, DispatchTo,
     Terminated, vars
<1>11. ASSUME NEW k \in 0..Len(upBuffer), FlushUpstream(k) PROVE ChargersOwn'
  <2>1. /\ upBuffer' = SubSeq(upBuffer, k + 1, Len(upBuffer))
        /\ \A u \in heard' : u \in heard \/ \E i \in 1..k : upBuffer[i].type = "Call" /\ u = upBuffer[i].uid
        /\ centralIn' = <<>> \/ centralIn' = centralIn
    BY <1>11 DEF FlushUpstream, LeftAfterFlush, GoConnecting
  <2>2. \A i \in 1..k : i \in 1..Len(upBuffer)
    BY <1>0, <1>11
  <2>3. \A i \in 1..Len(upBuffer') : i + k \in 1..Len(upBuffer) /\ upBuffer'[i] = upBuffer[i + k]
    BY <1>0, <1>11, <2>1
  <2>4. UidsOf(upBuffer', "Call") \subseteq UidsOf(upBuffer, "Call")
    BY <2>3 DEF UidsOf
  <2>5. heard' \subseteq heard \cup UidsOf(upBuffer, "Call")
    BY <2>1, <2>2 DEF UidsOf
  <2> QED BY <1>1, <2>1, <2>4, <2>5 DEF ChargersOwn
<1>12. CASE ForwardUpstream
  <2>1. /\ UNCHANGED <<upBuffer, centralIn>> /\ chargerIn # <<>>
        /\ heard' \subseteq heard \cup (IF Head(chargerIn).type = "Call"
                                          THEN {Head(chargerIn).uid} ELSE {})
    BY <1>12 DEF ForwardUpstream, ChargerFrame
  <2> QED BY <1>1, <2>1 DEF ChargersOwn
<1>13. CASE ForwardUpstreamFails
  <2>1. /\ UNCHANGED <<heard, centralIn>> /\ chargerIn # <<>> /\ pc = "forwarding"
        /\ upBuffer' = buffer_upstream(upBuffer, Head(chargerIn))
    BY <1>13 DEF ForwardUpstreamFails, ChargerFrame
  <2>2. upBuffer = <<>>
    BY <2>1 DEF LineInv, BufferHoldsAtMostOne
  <2>3. upBuffer' = <<Buffered(Head(chargerIn))>>
    BY <2>1, <2>2 DEF buffer_upstream
  <2>4. /\ Len(upBuffer') = 1 /\ upBuffer'[1].uid = Head(chargerIn).uid
        /\ upBuffer'[1].type = Head(chargerIn).type
    BY <2>3 DEF Buffered
  <2>5. UidsOf(upBuffer', "Call") \subseteq ChargerUids
    BY <1>1, <2>1, <2>4 DEF UidsOf
  <2> QED BY <2>1, <2>5 DEF ChargersOwn
<1>14. CASE Housekeeping
  <2>1. upBuffer = <<>>
    BY <1>14 DEF Housekeeping, LineInv, BufferHoldsAtMostOne
  <2>2. upBuffer' = upBuffer /\ UNCHANGED <<heard, centralIn>>
    BY <1>14, <2>1 DEF Housekeeping, evict_expired_messages
  <2> QED BY <1>2, <2>2
<1>15. CASE Tick
  <2>1. /\ UNCHANGED <<heard, centralIn>>
        /\ upBuffer' = [i \in 1..Len(upBuffer) |-> AgedFrame(upBuffer[i])]
    BY <1>15 DEF Tick
  <2>2. Len(upBuffer') = Len(upBuffer)
    BY <1>0, <2>1
  <2>3. \A i \in 1..Len(upBuffer') : /\ upBuffer'[i].uid = upBuffer[i].uid
                                     /\ upBuffer'[i].type = upBuffer[i].type
    BY <2>1, <2>2 DEF AgedFrame
  <2>4. UidsOf(upBuffer', "Call") \subseteq UidsOf(upBuffer, "Call")
    BY <2>2, <2>3 DEF UidsOf
  <2> QED BY <2>1, <2>4 DEF ChargersOwn
<1>16. CASE Teardown
  BY <1>1, <1>16 DEF Teardown, ChargersOwn
<1>17. CASE CentralSends
  <2>1. PICK type \in DownTypes, uid \in Uids :
          /\ UNCHANGED <<upBuffer, heard>> /\ downN < MaxDown
          /\ centralIn' = Append(centralIn, Frame(downN + 1, type, uid))
    <3>1. NoUid \in Uids /\ <<"ocpp", CentralUidBase + downN + 1>> \in Uids
      BY <1>0 DEF NoUid, Uids
    <3> QED BY <1>17, <3>1 DEF CentralSends, CentralSendsFrame, sessionState
  <2>2. /\ Frame(downN + 1, type, uid) \in CentralFrames
        /\ Frame(downN + 1, type, uid).type # "Result"
    BY <1>0, <2>1 DEF Frame, CentralFrames
  <2>3. UidsOf(centralIn', "Result") = UidsOf(centralIn, "Result")
    BY <1>0, <2>1, <2>2, UidsAppendOther
  <2> QED BY <2>1, <2>3 DEF ChargersOwn
<1>18. CASE CentralAnswers
  <2>1. PICK uid \in heard :
          /\ UNCHANGED upBuffer /\ heard' = heard \ {uid} /\ downN < MaxDown
          /\ centralIn' = Append(centralIn, Frame(downN + 1, "Result", uid))
    BY <1>18 DEF CentralAnswers, CentralSendsFrame, sessionState
  <2> DEFINE f == Frame(downN + 1, "Result", uid)
  <2>2. f \in CentralFrames /\ f.uid = uid
    BY <1>0, <2>1 DEF Frame, CentralFrames
  <2>3. centralIn' = Append(centralIn, f)
    BY <2>1
  <2> HIDE DEF f
  <2>4. UidsOf(centralIn', "Result") \subseteq UidsOf(centralIn, "Result") \cup {uid}
    BY <1>0, <2>2, <2>3, UidsAppend
  <2> QED BY <2>1, <2>4 DEF ChargersOwn
<1> QED
  BY <1>3, <1>4, <1>5, <1>6, <1>7, <1>8, <1>9, <1>10, <1>11, <1>12, <1>13, <1>14, <1>15,
     <1>16, <1>17, <1>18 DEF Next, SessionStep, EnvironmentStep

\* Which step may put a Call on the line.
LEMMA LineTaken ==
    ASSUME LineInv, Next, inFlight'.cmd # inFlight.cmd, inFlight' # NoFlight
    PROVE  /\ AnswerConsumed \/ ForwardUpstream \/ ReceiveCommand \/ CommandTick
           /\ ~LineBusy(IF ForwardUpstream THEN pending' ELSE pending)
<1>0. /\ inbox \in SUBSET Commands /\ queued \in SUBSET Commands
      /\ inFlight \in InFlights /\ NoFlight \in InFlights
      /\ results \in [Commands -> Seq(Statuses)]
      /\ {"Answered", "Superseded", "Rejected", "Timeout", "NotConnected"} \subseteq Statuses
  BY DEF LineInv, TypeOK, CommandTypes, InFlights, Statuses
<1>1. Teardown => inFlight' = NoFlight
  BY DEF Teardown
<1>2. DispatchAccepted \/ DispatchQueueFull \/ DispatchNotConnected => inFlight' = inFlight
  BY DEF DispatchAccepted, DispatchQueueFull, DispatchNotConnected, DispatchTo
<1>3. Tick => inFlight'.cmd = inFlight.cmd
  BY DEF Tick
<1>4. AnswerConsumed \/ ForwardUpstream \/ ReceiveCommand \/ CommandTick
  BY <1>1, <1>2, <1>3, CommandFrame
<1>5. CASE ForwardUpstream
  <2>1. SendLocalCalls(queued, inFlight, pending', results)
    BY <1>5 DEF ForwardUpstream
  <2>2. ~LineBusy(pending')
    BY <1>0, <2>1, SendLocalCallsLine
  <2> QED BY <1>4, <1>5, <2>2
<1>6. CASE ~ForwardUpstream /\ AnswerConsumed
  <2> DEFINE r == Report(results, {inFlight.cmd}, "Answered")
  <2>1. r \in [Commands -> Seq(Statuses)] /\ SendLocalCalls(queued, NoFlight, pending, r)
    BY <1>0, <1>6, ReportType DEF AnswerConsumed
  <2> HIDE DEF r
  <2>2. ~LineBusy(pending)
    BY <1>0, <2>1, SendLocalCallsLine
  <2> QED BY <1>4, <1>6, <2>2
<1>7. CASE ~ForwardUpstream /\ ReceiveCommand
  <2>1. PICK c \in Oldest(inbox) :
          LET displaced == Displaced(queued, kind, c)
              limits == {d \in displaced : IsLimit(kind[d])}
          IN SendLocalCalls(Pushed(queued, kind, c), inFlight, pending,
                    Report(Report(results, limits, "Superseded"),
                           displaced \ limits, "Rejected"))
    BY <1>7 DEF ReceiveCommand
  <2> DEFINE displaced == Displaced(queued, kind, c)
             limits == {d \in displaced : IsLimit(kind[d])}
             r == Report(Report(results, limits, "Superseded"), displaced \ limits, "Rejected")
  <2>2. r \in [Commands -> Seq(Statuses)]
    BY <1>0, ReportType
  <2>3. Pushed(queued, kind, c) \in SUBSET Commands
    BY <1>0 DEF Pushed, Oldest
  <2>4. SendLocalCalls(Pushed(queued, kind, c), inFlight, pending, r)
    BY <2>1
  <2> HIDE DEF r
  <2>5. ~LineBusy(pending)
    BY <1>0, <2>2, <2>3, <2>4, SendLocalCallsLine
  <2> QED BY <1>4, <1>7, <2>5
<1>8. CASE ~ForwardUpstream /\ CommandTick
  <2> DEFINE expired == ExpiredQueued(queued, age)
             late == ExpiredFlight(inFlight)
             flight == IF late THEN NoFlight ELSE inFlight
             r == Report(results, expired \cup (IF late THEN {inFlight.cmd} ELSE {}), "Timeout")
             q == queued \ expired
  <2>1. /\ r \in [Commands -> Seq(Statuses)] /\ flight \in InFlights
        /\ flight = inFlight \/ flight = NoFlight
    BY <1>0, ReportType
  <2>2. SendLocalCalls(q, flight, pending, r)
    BY <1>8 DEF CommandTick
  <2>3. q \in SUBSET Commands
    BY <1>0
  <2> HIDE DEF r, flight, q
  <2>4. ~LineBusy(pending)
    BY <2>1, <2>2, <2>3, SendLocalCallsLine
  <2> QED BY <1>4, <1>8, <2>4
<1> QED BY <1>4, <1>5, <1>6, <1>7, <1>8

\* Every step keeps the open Calls of the Central System tracked.
LEMMA TrackedStep ==
    ASSUME CentralUidBase >= MaxUp, LineInv, ChargersOwn, Tracked, Next
    PROVE  Tracked'
<1>0. /\ centralIn \in Seq(CentralFrames) /\ toCharger \in Seq(OutboundFrames)
      /\ pending \in SUBSET [uid : Uids, dir : Directions, age : 0..TrackMax]
      /\ downAge \in [1..MaxDown -> 0..Grace]
      /\ inbox \in SUBSET Commands /\ queued \in SUBSET Commands
      /\ inFlight \in InFlights /\ NoFlight \in InFlights
      /\ results \in [Commands -> Seq(Statuses)]
      /\ {"Answered", "Superseded", "Rejected", "Timeout", "NotConnected"} \subseteq Statuses
  BY DEF LineInv, TypeOK, NetworkTypes, SessionTypes, HistoryTypes, CommandTypes, InFlights,
     Statuses
<1>1. ASSUME OpenCentralCalls' \subseteq OpenCentralCalls, UNCHANGED <<pending, downAge>>
      PROVE  Tracked'
  BY <1>1 DEF Tracked, TrackedIn
<1>2. ASSUME UNCHANGED <<asked, toCharger, pending, downAge>> PROVE Tracked'
  BY <1>1, <1>2, OpenIs
<1>3. CASE ConnectSucceeds \/ ConnectFails \/ BackoffEnds \/ LostWaitCancelled \/ ForwardingEnds
  BY <1>2, <1>3 DEF ConnectSucceeds, ConnectFails, BackoffEnds, LostWaitCancelled,
     ForwardingEnds, environment, history
<1>4. CASE BackoffElapses \/ LostWaitElapses \/ BackoffReadsFrame
  BY <1>2, <1>4 DEF BackoffElapses, LostWaitElapses, BackoffReadsFrame, environment, history
<1>5. CASE \/ (\E k \in 0..Len(upBuffer) : FlushUpstream(k))
           \/ ForwardUpstreamFails \/ ForwardVerbatimUpstream \/ VerbatimUpstreamFails
           \/ IgnoreBinary
  BY <1>2, <1>5 DEF FlushUpstream, ForwardUpstreamFails, ForwardVerbatimUpstream,
     VerbatimUpstreamFails, IgnoreBinary, environment, history
<1>6. CASE DownstreamFails \/ AnswerPing \/ UpstreamCloses \/ CommandsClose \/ SessionEnds
  BY <1>2, <1>6 DEF DownstreamFails, AnswerPing, UpstreamCloses, CommandsClose, SessionEnds,
     environment, history
<1>7. CASE ChargerSends \/ ChargerHangsUp \/ CentralSends \/ CentralAnswers \/ LinkBreaks
  BY <1>2, <1>7 DEF ChargerSends, ChargerSendsFrame, ChargerHangsUp, CentralSends,
     CentralAnswers, CentralSendsFrame, LinkBreaks, environment, history, sessionState
<1>8. CASE \/ Cancel \/ RouterDropsSender \/ Terminated
           \/ DispatchAccepted \/ DispatchQueueFull \/ DispatchNotConnected
  BY <1>2, <1>8 DEF Cancel, RouterDropsSender, DispatchAccepted, DispatchQueueFull,
     DispatchNotConnected, DispatchTo, Terminated, vars, environment, history, sessionState
<1>9. CASE ChargerAnswers
  <2>1. asked' \subseteq asked /\ UNCHANGED <<toCharger, pending, downAge>>
    BY <1>9 DEF ChargerAnswers, ChargerSendsFrame, sessionState
  <2> QED BY <1>1, <2>1, OpenIs
<1>10. CASE WriterSends
  <2>1. /\ toCharger # <<>> /\ UNCHANGED <<pending, downAge>>
        /\ toCharger' = Tail(toCharger) \/ toCharger' = <<>>
        /\ asked' \subseteq asked \cup (IF Head(toCharger).type = "Call"
                                          THEN {Head(toCharger).uid} ELSE {})
    BY <1>10 DEF WriterSends
  <2>2. /\ UidsOf(Tail(toCharger), "Call") \subseteq UidsOf(toCharger, "Call")
        /\ Head(toCharger).type = "Call" => Head(toCharger).uid \in UidsOf(toCharger, "Call")
        /\ UidsOf(<<>>, "Call") = {}
    BY <1>0, <2>1, UidsTail, UidsNone
  <2>3. asked' \cup UidsOf(toCharger', "Call") \subseteq asked \cup UidsOf(toCharger, "Call")
    BY <2>1, <2>2
  <2> QED BY <1>1, <2>1, <2>3, OpenIs
<1>11. CASE WriterFails
  <2>1. toCharger' = <<>> /\ UNCHANGED <<asked, pending, downAge>>
    BY <1>11 DEF WriterFails, history
  <2> QED BY <1>1, <2>1, OpenIs, UidsNone
<1>12. CASE Teardown
  <2> DEFINE close == Frame(0, "Close", NoUid)
  <2>1. /\ UNCHANGED <<asked, pending, downAge>>
        /\ toCharger' = IF writerUp THEN Append(toCharger, close) ELSE toCharger
    BY <1>12 DEF Teardown, environment
  <2>2. close \in OutboundFrames /\ close.type # "Call"
    BY DEF Frame, NoUid, OutboundFrames, Uids
  <2> HIDE DEF close
  <2>3. UidsOf(toCharger', "Call") = UidsOf(toCharger, "Call")
    BY <1>0, <2>1, <2>2, UidsAppendOther
  <2> QED BY <1>1, <2>1, <2>3, OpenIs
\* The proxy's own Calls are not the Central System's.
<1>13. ASSUME NEW q \in SUBSET Commands, NEW flight \in InFlights, NEW tracker,
              NEW r \in [Commands -> Seq(Statuses)], SendLocalCalls(q, flight, tracker, r),
              UNCHANGED asked
       PROVE  OpenCentralCalls' \subseteq OpenCentralCalls
  <2>1. \/ toCharger' = toCharger
        \/ \E c \in q : toCharger' = Append(toCharger, Frame(0, "Call", ProxyUid(c)))
    BY <1>13, SendLocalCallsLine
  <2>2. ASSUME NEW c \in q, toCharger' = Append(toCharger, Frame(0, "Call", ProxyUid(c)))
        PROVE  UidsOf(toCharger', "Call") = UidsOf(toCharger, "Call") \cup {ProxyUid(c)}
    <3> DEFINE f == Frame(0, "Call", ProxyUid(c))
    <3>1. f \in OutboundFrames /\ f.type = "Call" /\ f.uid = ProxyUid(c)
      BY DEF Frame, OutboundFrames, Uids, ProxyUid, Commands
    <3>2. toCharger' = Append(toCharger, f)
      BY <2>2
    <3> HIDE DEF f
    <3>3. UidsOf(Append(toCharger, f), "Call") =
             UidsOf(toCharger, "Call") \cup (IF f.type = "Call" THEN {f.uid} ELSE {})
      BY <1>0, <3>1, UidsAppend
    <3> QED BY <3>1, <3>2, <3>3
  <2>3. \A c, m : ProxyUid(c) # CentralUid(m)
    BY DEF ProxyUid, CentralUid
  <2> QED BY <1>13, <2>1, <2>2, <2>3, OpenIs
<1>14. CASE AnswerConsumed
  <2> DEFINE r == Report(results, {inFlight.cmd}, "Answered")
  <2>1. r \in [Commands -> Seq(Statuses)] /\ SendLocalCalls(queued, NoFlight, pending, r)
    BY <1>0, <1>14, ReportType DEF AnswerConsumed
  <2>2. UNCHANGED <<asked, pending, downAge>>
    BY <1>14 DEF AnswerConsumed, environment
  <2> HIDE DEF r
  <2> QED BY <1>0, <1>1, <1>13, <2>1, <2>2
<1>15. CASE ForwardUpstream
  <2>1. /\ SendLocalCalls(queued, inFlight, pending', results)
        /\ UNCHANGED <<asked, downAge>>
    BY <1>15 DEF ForwardUpstream, environment
  <2>2. OpenCentralCalls' \subseteq OpenCentralCalls
    BY <1>0, <1>13, <2>1
  <2>3. TrackedIn(pending')
    BY <1>15, ForwardUpstreamTracked
  <2> QED BY <2>1, <2>2, <2>3 DEF Tracked, TrackedIn
<1>16. CASE ReceiveCommand
  <2>1. PICK c \in Oldest(inbox) :
          LET displaced == Displaced(queued, kind, c)
              limits == {d \in displaced : IsLimit(kind[d])}
          IN SendLocalCalls(Pushed(queued, kind, c), inFlight, pending,
                    Report(Report(results, limits, "Superseded"),
                           displaced \ limits, "Rejected"))
    BY <1>16 DEF ReceiveCommand
  <2> DEFINE displaced == Displaced(queued, kind, c)
             limits == {d \in displaced : IsLimit(kind[d])}
             r == Report(Report(results, limits, "Superseded"), displaced \ limits, "Rejected")
  <2>2. r \in [Commands -> Seq(Statuses)]
    BY <1>0, ReportType
  <2>3. Pushed(queued, kind, c) \in SUBSET Commands
    BY <1>0 DEF Pushed, Oldest
  <2>4. UNCHANGED <<asked, pending, downAge>>
    BY <1>16 DEF ReceiveCommand, environment, history
  <2>5. SendLocalCalls(Pushed(queued, kind, c), inFlight, pending, r)
    BY <2>1
  <2> HIDE DEF r
  <2> QED BY <1>0, <1>1, <1>13, <2>2, <2>3, <2>4, <2>5
<1>17. CASE CommandTick
  <2> DEFINE expired == ExpiredQueued(queued, age)
             late == ExpiredFlight(inFlight)
             flight == IF late THEN NoFlight ELSE inFlight
             r == Report(results, expired \cup (IF late THEN {inFlight.cmd} ELSE {}), "Timeout")
             q == queued \ expired
  <2>1. /\ r \in [Commands -> Seq(Statuses)] /\ flight \in InFlights /\ q \in SUBSET Commands
    BY <1>0, ReportType
  <2>2. SendLocalCalls(q, flight, pending, r) /\ UNCHANGED <<asked, pending, downAge>>
    BY <1>17 DEF CommandTick, environment, history
  <2> HIDE DEF r, flight, q
  <2> QED BY <1>1, <1>13, <2>1, <2>2
<1>18. CASE Housekeeping
  <2>1. pending' = cleanup_expired(pending) /\ UNCHANGED <<asked, toCharger, downAge>>
    BY <1>18 DEF Housekeeping, environment
  <2>2. OpenCentralCalls' = OpenCentralCalls
    BY <2>1, OpenIs
  <2>3. ASSUME NEW m \in OpenCentralCalls, ~(downAge[m] >= Grace)
        PROVE  \E e \in pending' : /\ e.uid = CentralUid(m) /\ e.dir = "CentralToCharger"
                                   /\ e.age <= downAge[m]
    <3>1. PICK e \in pending : /\ e.uid = CentralUid(m) /\ e.dir = "CentralToCharger"
                               /\ e.age <= downAge[m]
      BY <2>3 DEF Tracked, TrackedIn
    <3>2. m \in 1..MaxDown
      BY OpenIs
    <3>3. e.age \in Nat /\ downAge[m] \in Nat
      BY <1>0, <3>2
    <3>4. e.age < TrackMax
      BY <2>3, <3>1, <3>3
    <3> QED BY <2>1, <3>1, <3>4 DEF cleanup_expired
  <2> QED BY <2>1, <2>2, <2>3 DEF Tracked, TrackedIn
<1>19. CASE Tick
  <2>1. /\ pending' = {[uid |-> e.uid, dir |-> e.dir, age |-> Older(e.age, TrackMax)] :
                          e \in pending}
        /\ UNCHANGED <<asked, toCharger>>
        /\ downAge' = [m \in 1..MaxDown |->
                         IF m \in OpenCentralCalls THEN Older(downAge[m], Grace) ELSE 0]
    BY <1>19 DEF Tick, environment
  <2>2. OpenCentralCalls' = OpenCentralCalls
    BY <2>1, OpenIs
  <2>3. ASSUME NEW m \in OpenCentralCalls, ~(downAge'[m] >= Grace)
        PROVE  \E e \in pending' : /\ e.uid = CentralUid(m) /\ e.dir = "CentralToCharger"
                                   /\ e.age <= downAge'[m]
    <3>1. m \in 1..MaxDown /\ downAge[m] \in Nat
      BY <1>0, OpenIs
    <3>2. downAge'[m] = Older(downAge[m], Grace)
      BY <2>1, <3>1
    <3>3. downAge[m] < Grace /\ downAge'[m] = downAge[m] + 1
      BY <2>3, <3>1, <3>2 DEF Older
    <3>4. PICK e \in pending : /\ e.uid = CentralUid(m) /\ e.dir = "CentralToCharger"
                               /\ e.age <= downAge[m]
      BY <3>1, <3>3 DEF Tracked, TrackedIn
    <3>5. e.age \in Nat
      BY <1>0
    <3> DEFINE d == [uid |-> e.uid, dir |-> e.dir, age |-> Older(e.age, TrackMax)]
    <3>6. d \in pending'
      BY <2>1
    <3>7. d.age <= e.age + 1
      BY <3>1, <3>3, <3>4, <3>5 DEF Older
    <3>8. d.uid = CentralUid(m) /\ d.dir = "CentralToCharger" /\ d.age \in Nat
      BY <3>4, <3>5 DEF Older
    <3> HIDE DEF d
    <3> QED BY <3>1, <3>3, <3>4, <3>5, <3>6, <3>7, <3>8
  <2> QED BY <2>2, <2>3 DEF Tracked, TrackedIn
<1>20. CASE ForwardVerbatimDownstream
  <2>1. /\ centralIn # <<>> /\ Head(centralIn).type = "Bad"
        /\ toCharger' = Append(toCharger, Head(centralIn))
        /\ UNCHANGED <<asked, pending, downAge>>
    BY <1>20 DEF ForwardVerbatimDownstream, CentralFrame, QueuedForCharger, environment, history
  <2>2. Head(centralIn) \in CentralFrames
    BY <1>0, <2>1, HeadTail
  <2>3. Head(centralIn) \in OutboundFrames
    BY <2>1, <2>2 DEF CentralFrames, OutboundFrames
  <2>4. UidsOf(toCharger', "Call") = UidsOf(toCharger, "Call")
    BY <1>0, <2>1, <2>3, UidsAppendOther
  <2> QED BY <1>1, <2>1, <2>4, OpenIs
<1>21. CASE ForwardDownstream
  <2> DEFINE f == Head(centralIn)
  <2>1. /\ centralIn # <<>> /\ f.type \in {"Call", "Result"}
        /\ toCharger' = Append(toCharger, f) /\ UNCHANGED asked
        /\ pending' = resolve_action(pending, f, "CentralToCharger")
        /\ downAge' = IF f.type = "Call" THEN [downAge EXCEPT ![f.n] = 0] ELSE downAge
    BY <1>21 DEF ForwardDownstream, CentralFrame, QueuedForCharger, environment
  <2>2. f \in CentralFrames
    BY <1>0, <2>1, HeadTail
  <2>3. f \in OutboundFrames /\ f.n \in 1..MaxDown
    BY <2>1, <2>2 DEF CentralFrames, OutboundFrames
  <2>4. UidsOf(toCharger', "Call") =
           UidsOf(toCharger, "Call") \cup (IF f.type = "Call" THEN {f.uid} ELSE {})
    BY <1>0, <2>1, <2>3, UidsAppend
  <2>5. CASE f.type = "Call"
    <3>1. f.uid = CentralUid(f.n)
      <4>1. 1 \in 1..Len(centralIn) /\ f = centralIn[1]
        BY <1>0, <2>1
      <4> QED BY <2>5, <4>1 DEF LineInv, CallsInv, CallsOf
    <3>2. pending' = {e \in pending : e.uid # f.uid} \cup
                        {[uid |-> f.uid, dir |-> "CentralToCharger", age |-> 0]}
      BY <2>1, <2>5 DEF resolve_action, track_call
    <3>3. ASSUME NEW m \in OpenCentralCalls', m # f.n, ~(downAge'[m] >= Grace)
          PROVE  \E e \in pending' : /\ e.uid = CentralUid(m) /\ e.dir = "CentralToCharger"
                                     /\ e.age <= downAge'[m]
      <4>1. m \in 1..MaxDown /\ CentralUid(m) # CentralUid(f.n)
        BY <2>3, <3>3, OpenIs DEF CentralUid
      <4>2. m \in OpenCentralCalls
        BY <2>1, <2>4, <2>5, <3>1, <3>3, <4>1, OpenIs
      <4>3. downAge'[m] = downAge[m]
        BY <1>0, <2>1, <3>3, <4>1
      <4> QED BY <3>1, <3>2, <3>3, <4>1, <4>2, <4>3 DEF Tracked, TrackedIn
    <3>4. \E e \in pending' : /\ e.uid = CentralUid(f.n) /\ e.dir = "CentralToCharger"
                              /\ e.age <= downAge'[f.n]
      <4>1. downAge'[f.n] = 0
        BY <1>0, <2>1, <2>3, <2>5
      <4> DEFINE d == [uid |-> f.uid, dir |-> "CentralToCharger", age |-> 0]
      <4>2. d \in pending'
        BY <3>2
      <4>3. d.uid = CentralUid(f.n) /\ d.dir = "CentralToCharger" /\ d.age = 0
        BY <3>1
      <4> HIDE DEF d
      <4> QED BY <4>1, <4>2, <4>3
    <3> QED BY <3>3, <3>4 DEF Tracked, TrackedIn
  <2>6. CASE f.type = "Result"
    <3>1. f.uid \in ChargerUids
      BY <1>0, <2>1, <2>6, UidsTail DEF ChargersOwn
    <3>2. pending' = {e \in pending : e.uid # f.uid} /\ downAge' = downAge
      BY <2>1, <2>6 DEF resolve_action, resolve
    <3>3. OpenCentralCalls' = OpenCentralCalls
      BY <2>1, <2>4, <2>6, OpenIs
    <3>4. \A m \in OpenCentralCalls : CentralUid(m) # f.uid
      <4>1. \A m \in 1..MaxDown : CentralUid(m) \notin ChargerUids
        BY DEF CentralUid, ChargerUids
      <4> QED BY <3>1, <4>1, OpenIs
    <3> QED BY <3>2, <3>3, <3>4 DEF Tracked, TrackedIn
  <2> QED BY <2>1, <2>5, <2>6
<1> QED
  BY <1>3, <1>4, <1>5, <1>6, <1>7, <1>8, <1>9, <1>10, <1>11, <1>12, <1>14, <1>15, <1>16,
     <1>17, <1>18, <1>19, <1>20, <1>21 DEF Next, SessionStep, EnvironmentStep

\* The step that puts a Call of the proxy on the line finds it clear.
LEMMA LineClearStep ==
    ASSUME CentralUidBase >= MaxUp, LineInv, TypeOK', Tracked, Next,
           inFlight'.cmd # inFlight.cmd, inFlight' # NoFlight
    PROVE  \A m \in OpenCentralCalls : downAge[m] >= Grace
<1>1. /\ pending \in SUBSET [uid : Uids, dir : Directions, age : 0..TrackMax]
      /\ pending' \in SUBSET [uid : Uids, dir : Directions, age : 0..TrackMax]
      /\ TypeOK
  BY DEF LineInv, TypeOK, SessionTypes
<1>2. CASE ForwardUpstream
  <2>1. ~LineBusy(pending') /\ TrackedIn(pending')
    BY <1>2, LineTaken, ForwardUpstreamTracked
  <2> QED BY <1>1, <2>1, FreeLine
<1>3. CASE ~ForwardUpstream
  <2>1. ~LineBusy(pending) /\ TrackedIn(pending)
    BY <1>3, LineTaken DEF Tracked
  <2> QED BY <1>1, <2>1, FreeLine
<1> QED BY <1>2, <1>3

\* A Call of the proxy that is still open is the one in flight or was given up.
LEMMA OpenIsOwed ==
    ASSUME Owed'
    PROVE  \A c \in OpenProxyCalls' : c = inFlight'.cmd \/ results'[c] = <<"Timeout">>
<1>1. ASSUME NEW c \in OpenProxyCalls'
      PROVE  c \in Commands /\ ProxyUid(c) \in Owing(toCharger', asked', chargerIn')
  BY <1>1 DEF OpenProxyCalls, ProxyUid, Owing, UidsOf
<1> QED BY <1>1 DEF Owed

\* While the two endpoints' ids differ, the proxy never talks over a Call of
\* the Central System: it puts a command on the line only when every such Call
\* that the charger still owes was forwarded CENTRAL_CALL_GRACE ago, and every
\* other Call of its own that is still open has timed out, whichever arm of
\* forward_loop calls send_local_calls.
THEOREM LineIsClear == CentralUidBase >= MaxUp => (Spec => LineClear)
<1> SUFFICES ASSUME CentralUidBase >= MaxUp PROVE Spec => LineClear
  OBVIOUS
<1> DEFINE Clear == inFlight'.cmd # inFlight.cmd /\ inFlight' # NoFlight =>
                       /\ \A m \in OpenCentralCalls : downAge[m] >= Grace
                       /\ \A c \in OpenProxyCalls' :
                             c = inFlight'.cmd \/ results'[c] = <<"Timeout">>
<1>1. Init => ChargersOwn /\ Tracked
  <2> SUFFICES ASSUME Init PROVE ChargersOwn /\ Tracked
    OBVIOUS
  <2>1. upBuffer = <<>> /\ heard = {} /\ centralIn = <<>> /\ asked = {} /\ toCharger = <<>>
    BY DEF Init
  <2>2. ChargersOwn
    BY <2>1, UidsNone DEF ChargersOwn
  <2>3. OpenCentralCalls = {}
    BY <2>1, UidsNone, OpenIs
  <2> QED BY <2>2, <2>3 DEF Tracked, TrackedIn
<1>2. LineInv /\ ChargersOwn /\ Tracked /\ [Next]_vars => (ChargersOwn /\ Tracked)'
  <2>1. ASSUME ChargersOwn, Tracked, UNCHANGED vars PROVE ChargersOwn' /\ Tracked'
    BY <2>1 DEF ChargersOwn, Tracked, TrackedIn, OpenCentralCalls, vars, environment, history
  <2>2. ASSUME LineInv, ChargersOwn, Tracked, Next PROVE ChargersOwn' /\ Tracked'
    BY <2>2, ChargersOwnStep, TrackedStep
  <2> QED BY <2>1, <2>2
<1>3. LineInv /\ TypeOK' /\ Owed' /\ Tracked /\ [Next]_vars => [Clear]_vars
  <2>1. ASSUME LineInv, TypeOK', Owed', Tracked, Next PROVE Clear
    <3>1. \A c \in OpenProxyCalls' : c = inFlight'.cmd \/ results'[c] = <<"Timeout">>
      BY <2>1, OpenIsOwed
    <3> QED BY <2>1, <3>1, LineClearStep
  <2> HIDE DEF Clear
  <2> QED BY <2>1
<1>4. TypeOK /\ BufferHoldsAtMostOne /\ CommandLedger /\ CallsInv /\ Owed => LineInv
  BY DEF LineInv
<1>5. Spec => [][Clear]_vars
  BY <1>1, <1>2, <1>3, <1>4, TypeCorrect, BufferBound, Ledger, LineInductive, PTL DEF Spec
<1> QED BY <1>5 DEF LineClear
=============================================================================
