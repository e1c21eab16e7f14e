--------------------------- MODULE SessionProofs ----------------------------
(***************************************************************************)
(* Theorems about Session.tla, for every value of its constants.           *)
(***************************************************************************)
EXTENDS Session, TLAPS

USE LocalCallsAssumption, ForwarderAssumption, SessionAssumption

\* A result is appended to the commands of S and to no other.
LEMMA ReportType ==
    ASSUME NEW r \in [Commands -> Seq(Statuses)], NEW S, NEW status \in Statuses
    PROVE  Report(r, S, status) \in [Commands -> Seq(Statuses)]
BY DEF Report

\* send_local_calls leaves a queue of commands, a Call in flight or none, and
\* well-formed results and frames.
LEMMA SendLocalCallsType ==
    ASSUME NEW q \in SUBSET Commands, NEW flight \in InFlights, NEW tracker,
           NEW r \in [Commands -> Seq(Statuses)],
           toCharger \in Seq(OutboundFrames), pc \in PCs,
           SendLocalCalls(q, flight, tracker, r)
    PROVE  /\ queued' \subseteq Commands
           /\ inFlight' \in InFlights
           /\ results' \in [Commands -> Seq(Statuses)]
           /\ toCharger' \in Seq(OutboundFrames)
           /\ pc' \in PCs
<1> DEFINE bad == Unpreparable(q, kind)
<1>1. /\ Report(r, bad, "Invalid") \in [Commands -> Seq(Statuses)]
      /\ \A c : Report(Report(r, bad, "Invalid"), {c}, "NotConnected")
                    \in [Commands -> Seq(Statuses)]
  BY ReportType DEF Statuses
<1>2. ASSUME NEW c \in Sendable(q, kind)
      PROVE  /\ c \in Commands
             /\ [cmd |-> c, age |-> 0] \in InFlights
             /\ QueuedForCharger(Frame(0, "Call", <<"proxy", c>>)) \in Seq(OutboundFrames)
  BY <1>2 DEF Sendable, Oldest, InFlights, QueuedForCharger, Frame, OutboundFrames, Uids, Commands
<1> QED
  BY <1>1, <1>2 DEF SendLocalCalls, PCs

\* The first frame of a channel and the ones behind it are frames of that
\* channel.
LEMMA HeadTail ==
    ASSUME NEW S, NEW s \in Seq(S), s # <<>>
    PROVE  Head(s) \in S /\ Tail(s) \in Seq(S)
OBVIOUS

\* resolve_action leaves a tracker: forwarding a frame records or consumes
\* one pending Call.
LEMMA TrackerType ==
    ASSUME NEW t \in SUBSET [uid : Uids, dir : Directions, age : 0..TrackMax],
           NEW f, f.uid \in Uids, NEW dir \in Directions
    PROVE  resolve_action(t, f, dir) \in SUBSET [uid : Uids, dir : Directions, age : 0..TrackMax]
BY DEF resolve_action, track_call, resolve

\* The session's own variables keep their types.
LEMMA SessionTypesStep ==
    ASSUME TypeOK, BufferHoldsAtMostOne, Next
    PROVE  SessionTypes'
<1> USE DEF TypeOK, SessionTypes
<1>1. CASE ForwardVerbatimUpstream \/ IgnoreBinary \/ ForwardVerbatimDownstream \/
           CommandsClose \/ WriterSends
  BY <1>1 DEF ForwardVerbatimUpstream, IgnoreBinary, ForwardVerbatimDownstream, CommandsClose,
     WriterSends, session, commands, metrics, environment, history
<1>2. CASE WriterFails \/ ChargerSends \/ ChargerAnswers \/ ChargerHangsUp \/ CentralSends
  BY <1>2 DEF WriterFails, ChargerSends, ChargerSendsFrame, ChargerAnswers, ChargerHangsUp,
     CentralSends, CentralSendsFrame, session, commands, metrics, history, sessionState
<1>3. CASE CentralAnswers \/ LinkBreaks \/ Cancel \/ RouterDropsSender \/ DispatchAccepted
  BY <1>3 DEF CentralAnswers, CentralSendsFrame, LinkBreaks, Cancel, RouterDropsSender,
     DispatchAccepted, DispatchTo, session, metrics, environment, history, sessionState
<1>4. CASE DispatchQueueFull \/ DispatchNotConnected \/ Terminated
  BY <1>4 DEF DispatchQueueFull, DispatchTo, DispatchNotConnected, Terminated, vars, session,
     commands, metrics, environment, history
<1>5. CASE ConnectSucceeds
  BY <1>5 DEF ConnectSucceeds, NoWindow, PCs, commands, metrics, environment, history
<1>6. CASE ConnectFails
  BY <1>6 DEF ConnectFails, NoWindow, PCs, ReconnectElapsed, commands, metrics, environment,
     history
<1>7. CASE BackoffElapses
  BY <1>7 DEF BackoffElapses, GoConnecting, PCs, commands, metrics, environment, history
<1>8. CASE BackoffReadsFrame
  BY <1>8 DEF BackoffReadsFrame, GoConnecting, PCs, commands, metrics, environment
<1>9. CASE BackoffEnds
  BY <1>9 DEF BackoffEnds, PCs, commands, metrics, environment, history
<1>10. CASE (\E k \in 0..Len(upBuffer) : FlushUpstream(k))
  BY <1>10 DEF FlushUpstream, LeftAfterFlush, CountReplayed, GoConnecting, PCs, commands,
     environment
<1>11. CASE LostWaitElapses
  BY <1>11 DEF LostWaitElapses, GoConnecting, PCs, commands, metrics, environment, history
<1>12. CASE LostWaitCancelled
  BY <1>12 DEF LostWaitCancelled, PCs, commands, metrics, environment, history
<1>13. CASE AnswerConsumed
  BY <1>13, SendLocalCallsType, ReportType DEF AnswerConsumed, NetworkTypes, CommandTypes,
     InFlights, Statuses, metrics, environment
<1>14. CASE ForwardUpstream
  <2>1. Head(chargerIn) \in ChargerFrames
    BY <1>14, HeadTail DEF ForwardUpstream, ChargerFrame, NetworkTypes
  <2>2. Head(chargerIn).uid \in Uids /\ Head(chargerIn).n \in Nat
    BY <2>1 DEF ChargerFrames
  <2>3. pending' \subseteq [uid : Uids, dir : Directions, age : 0..TrackMax]
    BY <1>14, <2>2, TrackerType DEF ForwardUpstream, Directions
  <2>4. published' \subseteq [dir : Directions, n : Nat, known : BOOLEAN]
    <3>1. ActionKnown(pending, Head(chargerIn)) \in BOOLEAN
      BY DEF ActionKnown
    <3> QED BY <1>14, <2>2, <3>1 DEF ForwardUpstream, Directions
  <2>5. pc' \in PCs
    BY <1>14, SendLocalCallsType DEF ForwardUpstream, NetworkTypes, CommandTypes
  <2> QED BY <1>14, <2>3, <2>4, <2>5 DEF ForwardUpstream
<1>15. CASE ForwardUpstreamFails
  <2>1. Head(chargerIn) \in ChargerFrames /\ Head(chargerIn).type \in {"Call", "Result"}
    BY <1>15, HeadTail DEF ForwardUpstreamFails, ChargerFrame, NetworkTypes
  <2>2. Buffered(Head(chargerIn)) \in BufferedFrames
    BY <2>1 DEF Buffered, ChargerFrames, BufferedFrames
  <2>3. upBuffer = <<>>
    BY <1>15 DEF ForwardUpstreamFails, ChargerFrame, BufferHoldsAtMostOne
  <2>4. upBuffer' = <<Buffered(Head(chargerIn))>>
    BY <1>15, <2>3 DEF ForwardUpstreamFails, buffer_upstream
  <2>5. upBuffer' \in Seq(BufferedFrames)
    BY <2>2, <2>4
  <2>6. LoseUpstream /\ UNCHANGED <<closeCode, pending, metrics>>
    BY <1>15 DEF ForwardUpstreamFails
  <2> QED BY <2>5, <2>6 DEF metrics, LoseUpstream, ReconnectElapsed, NoWindow, PCs
<1>16. CASE VerbatimUpstreamFails
  BY <1>16 DEF VerbatimUpstreamFails, LoseUpstream, ReconnectElapsed, NoWindow, PCs, commands,
     metrics, environment
<1>17. CASE ForwardingEnds
  BY <1>17 DEF ForwardingEnds, PCs, commands, metrics, environment, history
<1>18. CASE ForwardDownstream
  <2>1. Head(centralIn) \in CentralFrames
    BY <1>18, HeadTail DEF ForwardDownstream, CentralFrame, NetworkTypes
  <2>2. Head(centralIn).uid \in Uids /\ Head(centralIn).n \in Nat
    BY <2>1 DEF CentralFrames
  <2>3. pending' \subseteq [uid : Uids, dir : Directions, age : 0..TrackMax]
    BY <1>18, <2>2, TrackerType DEF ForwardDownstream, Directions
  <2>4. published' \subseteq [dir : Directions, n : Nat, known : BOOLEAN]
    <3>1. ActionKnown(pending, Head(centralIn)) \in BOOLEAN
      BY DEF ActionKnown
    <3> QED BY <1>18, <2>2, <3>1 DEF ForwardDownstream, Directions
  <2>5. UNCHANGED <<session, upBuffer, fwdUp, dropUp>> /\ fwdDown' \in Nat
    BY <1>18 DEF ForwardDownstream
  <2> QED BY <2>3, <2>4, <2>5 DEF session
<1>19. CASE DownstreamFails
  BY <1>19 DEF DownstreamFails, PCs, commands, metrics, environment, history
<1>20. CASE AnswerPing
  BY <1>20 DEF AnswerPing, LoseUpstream, ReconnectElapsed, NoWindow, PCs, session, commands,
     metrics, environment, history
<1>21. CASE UpstreamCloses
  BY <1>21 DEF UpstreamCloses, LoseUpstream, ReconnectElapsed, NoWindow, PCs, commands,
     metrics, environment, history
<1>22. CASE ReceiveCommand
  BY <1>22, SendLocalCallsType, ReportType DEF ReceiveCommand, NetworkTypes, CommandTypes,
     Oldest, Pushed, Statuses, metrics, environment, history
<1>23. CASE CommandTick
  BY <1>23, SendLocalCallsType, ReportType DEF CommandTick, NetworkTypes, CommandTypes,
     InFlights, Statuses, metrics, environment, history
<1>24. CASE Housekeeping
  BY <1>24 DEF Housekeeping, BufferHoldsAtMostOne, evict_expired_messages, cleanup_expired,
     session, commands, metrics, environment
<1>25. CASE Teardown
  BY <1>25 DEF Teardown, PCs, environment
<1>26. CASE SessionEnds
  BY <1>26 DEF SessionEnds, PCs, commands, metrics, environment, history
<1>27. CASE Tick
  <2>1. upBuffer' \in Seq(BufferedFrames)
    <3>1. \A e \in BufferedFrames : AgedFrame(e) \in BufferedFrames
      BY DEF BufferedFrames, AgedFrame, Older
    <3> QED BY <1>27, <3>1 DEF Tick
  <2>2. pending' \subseteq [uid : Uids, dir : Directions, age : 0..TrackMax]
    BY <1>27 DEF Tick, Older
  <2>3. winAge' \in 0..NoWindow
    BY <1>27 DEF Tick, Older, NoWindow
  <2> QED BY <1>27, <2>1, <2>2, <2>3 DEF Tick, metrics
<1> QED
  BY <1>1, <1>2, <1>3, <1>4, <1>5, <1>6, <1>7, <1>8, <1>9, <1>10, <1>11, <1>12, <1>13, <1>14,
     <1>15, <1>16, <1>17, <1>18, <1>19, <1>20, <1>21, <1>22, <1>23, <1>24, <1>25, <1>26, <1>27
     DEF Next, SessionStep, EnvironmentStep

\* The command variables keep their types.
LEMMA CommandTypesStep ==
    ASSUME TypeOK, BufferHoldsAtMostOne, Next
    PROVE  CommandTypes'
<1> USE DEF TypeOK, CommandTypes
<1>1. CASE ConnectSucceeds \/ ConnectFails \/ BackoffElapses \/ BackoffReadsFrame \/
           BackoffEnds
  BY <1>1 DEF ConnectSucceeds, ConnectFails, BackoffElapses, BackoffReadsFrame, BackoffEnds,
     commands, metrics, environment, history
<1>2. CASE (\E k \in 0..Len(upBuffer) : FlushUpstream(k)) \/ LostWaitElapses \/
           LostWaitCancelled \/ ForwardUpstreamFails \/ ForwardVerbatimUpstream
  BY <1>2 DEF FlushUpstream, LostWaitElapses, LostWaitCancelled, ForwardUpstreamFails,
     ForwardVerbatimUpstream, session, commands, metrics, environment, history
<1>3. CASE VerbatimUpstreamFails \/ IgnoreBinary \/ ForwardingEnds \/ ForwardDownstream \/
           ForwardVerbatimDownstream
  BY <1>3 DEF VerbatimUpstreamFails, IgnoreBinary, ForwardingEnds, ForwardDownstream,
     ForwardVerbatimDownstream, session, commands, metrics, environment, history
<1>4. CASE DownstreamFails \/ AnswerPing \/ UpstreamCloses \/ Housekeeping \/ SessionEnds
  BY <1>4 DEF DownstreamFails, AnswerPing, UpstreamCloses, Housekeeping, SessionEnds, session,
     commands, metrics, environment, history
<1>5. CASE WriterSends \/ WriterFails \/ ChargerSends \/ ChargerAnswers \/ ChargerHangsUp
  BY <1>5 DEF WriterSends, WriterFails, ChargerSends, ChargerSendsFrame, ChargerAnswers,
     ChargerHangsUp, session, commands, metrics, history, sessionState
<1>6. CASE CentralSends \/ CentralAnswers \/ LinkBreaks \/ Cancel \/ RouterDropsSender
  BY <1>6 DEF CentralSends, CentralSendsFrame, CentralAnswers, LinkBreaks, Cancel,
     RouterDropsSender, environment, history, sessionState, session, metrics
<1>7. CASE Terminated
  BY <1>7 DEF Terminated, vars, session, commands, metrics, environment, history
<1>8. CASE AnswerConsumed
  BY <1>8, SendLocalCallsType, ReportType DEF AnswerConsumed, NetworkTypes, SessionTypes,
     InFlights, Statuses, metrics, environment
<1>9. CASE ForwardUpstream
  BY <1>9, SendLocalCallsType DEF ForwardUpstream, NetworkTypes, SessionTypes, environment
<1>10. CASE ReceiveCommand
  BY <1>10, SendLocalCallsType, ReportType DEF ReceiveCommand, NetworkTypes, SessionTypes,
     Oldest, Pushed, Statuses, metrics, environment, history
<1>11. CASE CommandsClose
  BY <1>11 DEF CommandsClose, session, metrics, environment, history
<1>12. CASE CommandTick
  BY <1>12, SendLocalCallsType, ReportType DEF CommandTick, NetworkTypes, SessionTypes,
     InFlights, Statuses, metrics, environment, history
<1>13. CASE Teardown
  BY <1>13, ReportType DEF Teardown, InFlights, Statuses, environment
<1>14. CASE DispatchAccepted
  BY <1>14 DEF DispatchAccepted, DispatchTo, Commands, Kinds, session, metrics, history
<1>15. CASE DispatchQueueFull
  <2>1. Report(results, {issued + 1}, "Rejected") \in [Commands -> Seq(Statuses)]
    BY ReportType DEF Statuses
  <2>2. kind' \in [Commands -> Kinds]
    BY <1>15 DEF DispatchQueueFull, DispatchTo
  <2>3. results' \in [Commands -> Seq(Statuses)]
    BY <1>15, <2>1 DEF DispatchQueueFull, DispatchTo
  <2>4. issued' \in 0..NumCommands
    BY <1>15 DEF DispatchQueueFull, DispatchTo
  <2>5. UNCHANGED <<inbox, queued, inFlight, commandsOpen, age, drained>>
    BY <1>15 DEF DispatchQueueFull, DispatchTo
  <2> QED BY <2>2, <2>3, <2>4, <2>5
<1>16. CASE DispatchNotConnected
  <2>1. Report(results, {issued + 1}, "NotConnected") \in [Commands -> Seq(Statuses)]
    BY ReportType DEF Statuses
  <2>2. kind' \in [Commands -> Kinds]
    BY <1>16 DEF DispatchNotConnected, DispatchTo
  <2>3. results' \in [Commands -> Seq(Statuses)]
    BY <1>16, <2>1 DEF DispatchNotConnected, DispatchTo
  <2>4. issued' \in 0..NumCommands
    BY <1>16 DEF DispatchNotConnected, DispatchTo
  <2>5. UNCHANGED <<inbox, queued, inFlight, commandsOpen, age, drained>>
    BY <1>16 DEF DispatchNotConnected, DispatchTo
  <2> QED BY <2>2, <2>3, <2>4, <2>5
<1>17. CASE Tick
  <2>1. age' \in [Commands -> 0..CommandTimeout]
    BY <1>17 DEF Tick, Older
  <2>2. inFlight' \in InFlights
    BY <1>17 DEF Tick, Older, InFlights, NoFlight
  <2> QED BY <1>17, <2>1, <2>2 DEF Tick, environment
<1> QED
  BY <1>1, <1>2, <1>3, <1>4, <1>5, <1>6, <1>7, <1>8, <1>9, <1>10, <1>11, <1>12, <1>13, <1>14,
     <1>15, <1>16, <1>17 DEF Next, SessionStep, EnvironmentStep

\* The channels and links keep their types.
LEMMA NetworkTypesStep ==
    ASSUME TypeOK, BufferHoldsAtMostOne, Next
    PROVE  NetworkTypes'
<1> USE DEF TypeOK, NetworkTypes
<1>1. CASE ConnectFails \/ BackoffEnds \/ LostWaitCancelled \/ ForwardingEnds \/ UpstreamCloses
  BY <1>1 DEF ConnectFails, BackoffEnds, LostWaitCancelled, ForwardingEnds, UpstreamCloses,
     commands, metrics, environment, history
<1>2. CASE CommandsClose \/ Housekeeping \/ SessionEnds \/ ChargerHangsUp \/ LinkBreaks
  BY <1>2 DEF CommandsClose, Housekeeping, SessionEnds, ChargerHangsUp, LinkBreaks, session,
     commands, metrics, environment, history, sessionState
<1>3. CASE Cancel \/ RouterDropsSender \/ DispatchAccepted \/ DispatchQueueFull \/
           DispatchNotConnected
  BY <1>3 DEF Cancel, RouterDropsSender, DispatchAccepted, DispatchTo, DispatchQueueFull,
     DispatchNotConnected, session, metrics, history, sessionState
<1>4. CASE Tick \/ Terminated
  BY <1>4 DEF Tick, Terminated, vars, session, commands, metrics, environment, history
<1>5. CASE ConnectSucceeds
  BY <1>5 DEF ConnectSucceeds, commands, metrics, environment, history
<1>6. CASE BackoffElapses
  BY <1>6 DEF BackoffElapses, GoConnecting, commands, metrics, environment, history
<1>7. CASE BackoffReadsFrame
  BY <1>7 DEF BackoffReadsFrame, GoConnecting, commands, metrics, environment
<1>8. CASE (\E k \in 0..Len(upBuffer) : FlushUpstream(k))
  <2> SUFFICES ASSUME NEW k \in 0..Len(upBuffer), FlushUpstream(k) PROVE NetworkTypes'
    BY <1>8
  <2>1. \A i \in 1..k : upBuffer[i] \in BufferedFrames
    BY DEF SessionTypes
  <2>2. heard' \subseteq Uids
    <3>1. \A i \in 1..k : upBuffer[i].uid \in Uids
      BY <2>1 DEF BufferedFrames
    <3> QED BY <3>1 DEF FlushUpstream
  <2>3. UNCHANGED <<environment, chargerIn, toCharger>>
    BY DEF FlushUpstream
  <2>4. upLink' \in {"none", "up", "broken"}
    BY DEF FlushUpstream, GoConnecting
  <2>5. centralIn' = centralIn \/ centralIn' = <<>>
    BY DEF FlushUpstream, GoConnecting
  <2>6. centralIn' \in Seq(CentralFrames)
    <3>1. CASE centralIn' = centralIn
      BY <3>1
    <3>2. CASE centralIn' = <<>>
      BY <3>2
    <3> QED BY <2>5, <3>1, <3>2
  <2> QED BY <2>2, <2>3, <2>4, <2>6 DEF environment
<1>9. CASE LostWaitElapses
  BY <1>9 DEF LostWaitElapses, GoConnecting, commands, metrics, environment, history
<1>10. CASE AnswerConsumed
  <2>1. chargerIn' \in Seq(ChargerFrames)
    BY <1>10, HeadTail DEF AnswerConsumed, ChargerFrame
  <2>2. NoFlight \in InFlights /\ Report(results, {inFlight.cmd}, "Answered") \in [Commands -> Seq(Statuses)]
    BY ReportType DEF CommandTypes, InFlights, Statuses
  <2>3. toCharger' \in Seq(OutboundFrames)
    BY <1>10, <2>2, SendLocalCallsType DEF AnswerConsumed, SessionTypes, CommandTypes
  <2>4. UNCHANGED <<environment, upLink, centralIn, heard>>
    BY <1>10 DEF AnswerConsumed
  <2> QED BY <2>1, <2>3, <2>4 DEF environment
<1>11. CASE ForwardUpstream
  <2>1. Head(chargerIn) \in ChargerFrames /\ chargerIn' \in Seq(ChargerFrames)
    BY <1>11, HeadTail DEF ForwardUpstream, ChargerFrame
  <2>2. heard' \subseteq Uids
    BY <1>11, <2>1 DEF ForwardUpstream, ChargerFrames
  <2>3. toCharger' \in Seq(OutboundFrames)
    BY <1>11, SendLocalCallsType DEF ForwardUpstream, SessionTypes, CommandTypes
  <2>4. UNCHANGED <<environment, upLink, centralIn>>
    BY <1>11 DEF ForwardUpstream
  <2> QED BY <2>1, <2>2, <2>3, <2>4 DEF environment
<1>12. CASE ForwardUpstreamFails
  <2>1. chargerIn' \in Seq(ChargerFrames)
    BY <1>12, HeadTail DEF ForwardUpstreamFails, ChargerFrame
  <2>2. UNCHANGED <<environment, toCharger, upLink, centralIn, heard>>
    BY <1>12 DEF ForwardUpstreamFails
  <2> QED BY <2>1, <2>2 DEF environment
<1>13. CASE ForwardVerbatimUpstream
  BY <1>13 DEF ForwardVerbatimUpstream, ChargerFrame, session, commands, metrics, environment
<1>14. CASE VerbatimUpstreamFails
  BY <1>14 DEF VerbatimUpstreamFails, ChargerFrame, commands, metrics, environment
<1>15. CASE IgnoreBinary
  BY <1>15 DEF IgnoreBinary, ChargerFrame, session, commands, metrics, environment
<1>16. CASE ForwardDownstream
  <2>1. /\ Head(centralIn) \in CentralFrames /\ Tail(centralIn) \in Seq(CentralFrames)
        /\ Head(centralIn).type \in {"Call", "Result"}
    BY <1>16, HeadTail DEF ForwardDownstream, CentralFrame
  <2>2. Head(centralIn) \in OutboundFrames
    BY <2>1 DEF CentralFrames, OutboundFrames
  <2>3. toCharger' \in Seq(OutboundFrames) /\ centralIn' \in Seq(CentralFrames)
    BY <1>16, <2>1, <2>2 DEF ForwardDownstream, CentralFrame, QueuedForCharger
  <2>4. UNCHANGED <<environment, chargerIn, upLink, heard>>
    BY <1>16 DEF ForwardDownstream
  <2> QED BY <2>3, <2>4 DEF environment
<1>17. CASE ForwardVerbatimDownstream
  <2>1. /\ Head(centralIn) \in CentralFrames /\ Tail(centralIn) \in Seq(CentralFrames)
        /\ Head(centralIn).type = "Bad"
    BY <1>17, HeadTail DEF ForwardVerbatimDownstream, CentralFrame
  <2>2. Head(centralIn) \in OutboundFrames
    BY <2>1 DEF CentralFrames, OutboundFrames
  <2> QED BY <1>17, <2>1, <2>2 DEF ForwardVerbatimDownstream, CentralFrame, QueuedForCharger, environment
<1>18. CASE DownstreamFails
  BY <1>18 DEF DownstreamFails, CentralFrame, commands, metrics, environment, history
<1>19. CASE AnswerPing
  BY <1>19 DEF AnswerPing, CentralFrame, session, commands, metrics, environment, history
<1>20. CASE ReceiveCommand
  BY <1>20, SendLocalCallsType, ReportType DEF ReceiveCommand, SessionTypes, CommandTypes,
     Oldest, Pushed, Statuses, metrics, environment, history
<1>21. CASE CommandTick
  BY <1>21, SendLocalCallsType, ReportType DEF CommandTick, SessionTypes, CommandTypes,
     InFlights, Statuses, metrics, environment, history
<1>22. CASE Teardown
  <2>1. Frame(0, "Close", NoUid) \in OutboundFrames
    BY DEF Frame, NoUid, OutboundFrames, Uids
  <2>2. toCharger' \in Seq(OutboundFrames)
    BY <1>22, <2>1 DEF Teardown
  <2>3. centralIn' \in Seq(CentralFrames) /\ upLink' = "none"
    BY <1>22 DEF Teardown
  <2>4. UNCHANGED <<environment, chargerIn, heard>>
    BY <1>22 DEF Teardown
  <2> QED BY <2>2, <2>3, <2>4 DEF environment
<1>23. CASE WriterSends
  <2>1. Head(toCharger) \in OutboundFrames /\ Tail(toCharger) \in Seq(OutboundFrames)
    BY <1>23, HeadTail DEF WriterSends
  <2>2. Head(toCharger).uid \in Uids
    BY <2>1 DEF OutboundFrames
  <2>3. asked' \subseteq Uids
    BY <1>23, <2>2 DEF WriterSends
  <2>4. writerUp' \in BOOLEAN
    BY <1>23 DEF WriterSends
  <2>5. toCharger' \in Seq(OutboundFrames)
    BY <1>23, <2>1 DEF WriterSends
  <2>6. UNCHANGED <<chargerUp, chargerIn, centralIn, upLink, heard, senderOpen, cancelled, upN, downN>>
    BY <1>23 DEF WriterSends
  <2> QED BY <2>3, <2>4, <2>5, <2>6
<1>24. CASE WriterFails
  <2>1. writerUp' \in BOOLEAN
    BY <1>24 DEF WriterFails
  <2>2. toCharger' \in Seq(OutboundFrames)
    BY <1>24 DEF WriterFails
  <2>3. UNCHANGED <<chargerUp, chargerIn, centralIn, upLink, asked, heard, senderOpen, cancelled, upN, downN>>
    BY <1>24 DEF WriterFails
  <2> QED BY <2>1, <2>2, <2>3
<1>25. CASE ChargerSends
  BY <1>25 DEF ChargerSends, ChargerSendsFrame, Frame, NoUid, ChargerFrames, Uids,
     sessionState, session, metrics
<1>26. CASE ChargerAnswers
  BY <1>26 DEF ChargerAnswers, ChargerSendsFrame, Frame, ChargerFrames, sessionState, session,
     metrics
<1>27. CASE CentralSends
  BY <1>27 DEF CentralSends, CentralSendsFrame, Frame, NoUid, CentralFrames, Uids, history,
     sessionState, session, metrics
<1>28. CASE CentralAnswers
  BY <1>28 DEF CentralAnswers, CentralSendsFrame, Frame, CentralFrames, history, sessionState,
     session, metrics
<1> QED
  BY <1>1, <1>2, <1>3, <1>4, <1>5, <1>6, <1>7, <1>8, <1>9, <1>10, <1>11, <1>12, <1>13, <1>14,
     <1>15, <1>16, <1>17, <1>18, <1>19, <1>20, <1>21, <1>22, <1>23, <1>24, <1>25, <1>26, <1>27,
     <1>28 DEF Next, SessionStep, EnvironmentStep

\* The history variables keep their types.
LEMMA HistoryTypesStep ==
    ASSUME TypeOK, BufferHoldsAtMostOne, Next
    PROVE  HistoryTypes'
<1> USE DEF TypeOK, HistoryTypes
<1>1. CASE ConnectSucceeds \/ ConnectFails \/ BackoffElapses \/ BackoffEnds \/ LostWaitElapses
  BY <1>1 DEF ConnectSucceeds, ConnectFails, BackoffElapses, BackoffEnds, LostWaitElapses,
     commands, metrics, environment, history
<1>2. CASE LostWaitCancelled \/ ForwardingEnds \/ ForwardVerbatimDownstream \/ DownstreamFails
           \/ AnswerPing
  BY <1>2 DEF LostWaitCancelled, ForwardingEnds, ForwardVerbatimDownstream, DownstreamFails,
     AnswerPing, session, commands, metrics, environment, history
<1>3. CASE UpstreamCloses \/ ReceiveCommand \/ CommandsClose \/ CommandTick \/ SessionEnds
  BY <1>3 DEF UpstreamCloses, ReceiveCommand, CommandsClose, CommandTick, SessionEnds, session,
     commands, metrics, environment, history
<1>4. CASE WriterFails \/ ChargerHangsUp \/ CentralSends \/ CentralAnswers \/ LinkBreaks
  BY <1>4 DEF WriterFails, ChargerHangsUp, CentralSends, CentralSendsFrame, CentralAnswers,
     LinkBreaks, session, commands, metrics, environment, history, sessionState
<1>5. CASE Cancel \/ RouterDropsSender \/ DispatchAccepted \/ DispatchQueueFull \/
           DispatchNotConnected
  BY <1>5 DEF Cancel, RouterDropsSender, DispatchAccepted, DispatchTo, DispatchQueueFull,
     DispatchNotConnected, session, metrics, history, sessionState
<1>6. CASE Terminated
  BY <1>6 DEF Terminated, vars, session, commands, metrics, environment, history
<1>7. CASE BackoffReadsFrame
  BY <1>7 DEF BackoffReadsFrame, Fates, commands, metrics, environment
<1>8. CASE (\E k \in 0..Len(upBuffer) : FlushUpstream(k))
  <2> SUFFICES ASSUME NEW k \in 0..Len(upBuffer), FlushUpstream(k) PROVE HistoryTypes'
    BY <1>8
  <2>1. lastUp' \in 0..MaxUp
    <3>1. k # 0 => upBuffer[k] \in BufferedFrames
      BY DEF SessionTypes
    <3>2. k # 0 => upBuffer[k].n \in 1..MaxUp
      BY <3>1 DEF BufferedFrames
    <3> QED BY <3>2 DEF FlushUpstream
  <2>2. fate' \in [1..MaxUp -> Fates]
    BY DEF FlushUpstream, Fates
  <2>3. leaked' \subseteq Commands /\ UNCHANGED <<lastDown, downAge>>
    BY DEF FlushUpstream
  <2> QED BY <2>1, <2>2, <2>3
<1>9. CASE AnswerConsumed
  BY <1>9 DEF AnswerConsumed, Fates, metrics, environment
<1>10. CASE ForwardUpstream
  <2>1. Head(chargerIn) \in ChargerFrames
    BY <1>10, HeadTail DEF ForwardUpstream, ChargerFrame, NetworkTypes
  <2>2. lastUp' \in 0..MaxUp
    BY <1>10, <2>1 DEF ForwardUpstream, ChargerFrames
  <2>3. fate' \in [1..MaxUp -> Fates] /\ leaked' \subseteq Commands
    BY <1>10 DEF ForwardUpstream, Fates
  <2>4. UNCHANGED <<lastDown, downAge>>
    BY <1>10 DEF ForwardUpstream
  <2> QED BY <2>2, <2>3, <2>4
<1>11. CASE ForwardUpstreamFails
  BY <1>11 DEF ForwardUpstreamFails, Fates, commands, metrics, environment
<1>12. CASE ForwardVerbatimUpstream
  <2>1. Head(chargerIn) \in ChargerFrames
    BY <1>12, HeadTail DEF ForwardVerbatimUpstream, ChargerFrame, NetworkTypes
  <2>2. lastUp' \in 0..MaxUp
    BY <1>12, <2>1 DEF ForwardVerbatimUpstream, ChargerFrames
  <2> QED BY <1>12, <2>2 DEF ForwardVerbatimUpstream, Fates
<1>13. CASE VerbatimUpstreamFails
  BY <1>13 DEF VerbatimUpstreamFails, Fates, commands, metrics, environment
<1>14. CASE IgnoreBinary
  BY <1>14 DEF IgnoreBinary, Fates, session, commands, metrics, environment
<1>15. CASE ForwardDownstream
  <2>1. Head(centralIn) \in CentralFrames
    BY <1>15, HeadTail DEF ForwardDownstream, CentralFrame, NetworkTypes
  <2>2. downAge' = IF Head(centralIn).type = "Call"
                     THEN [downAge EXCEPT ![Head(centralIn).n] = 0] ELSE downAge
    BY <1>15 DEF ForwardDownstream
  <2>3. downAge' \in [1..MaxDown -> 0..Grace]
    BY <2>1, <2>2 DEF CentralFrames
  <2>4. UNCHANGED <<fate, lastUp, lastDown, leaked>>
    BY <1>15 DEF ForwardDownstream
  <2> QED BY <2>3, <2>4
<1>16. CASE Housekeeping
  BY <1>16 DEF Housekeeping, Fates, session, commands, metrics, environment
<1>17. CASE Teardown
  BY <1>17 DEF Teardown, Fates, environment
<1>18. CASE WriterSends
  <2>1. Head(toCharger) \in OutboundFrames
    BY <1>18, HeadTail DEF WriterSends, NetworkTypes
  <2>2. lastDown' \in 0..MaxDown
    BY <1>18, <2>1 DEF WriterSends, OutboundFrames
  <2>3. UNCHANGED <<fate, lastUp, downAge, leaked>>
    BY <1>18 DEF WriterSends
  <2> QED BY <2>2, <2>3
<1>19. CASE ChargerSends
  BY <1>19 DEF ChargerSends, ChargerSendsFrame, Fates, sessionState, session, metrics
<1>20. CASE ChargerAnswers
  BY <1>20 DEF ChargerAnswers, ChargerSendsFrame, Fates, sessionState, session, metrics
<1>21. CASE Tick
  BY <1>21 DEF Tick, Older, metrics, environment
<1> QED
  BY <1>1, <1>2, <1>3, <1>4, <1>5, <1>6, <1>7, <1>8, <1>9, <1>10, <1>11, <1>12, <1>13, <1>14,
     <1>15, <1>16, <1>17, <1>18, <1>19, <1>20, <1>21 DEF Next, SessionStep, EnvironmentStep

\* The reconnection buffer is empty while forwarding and never holds two frames.
LEMMA BufferHoldsAtMostOneStep ==
    ASSUME TypeOK, BufferHoldsAtMostOne, Next
    PROVE  BufferHoldsAtMostOne'
<1> USE DEF BufferHoldsAtMostOne
<1>1. CASE ConnectSucceeds \/ ConnectFails \/ BackoffEnds \/ LostWaitCancelled \/
           ForwardVerbatimUpstream
  BY <1>1 DEF ConnectSucceeds, ConnectFails, BackoffEnds, LostWaitCancelled,
     ForwardVerbatimUpstream, session, commands, metrics, environment, history
<1>2. CASE IgnoreBinary \/ ForwardingEnds \/ ForwardDownstream \/ ForwardVerbatimDownstream \/
           DownstreamFails
  BY <1>2 DEF IgnoreBinary, ForwardingEnds, ForwardDownstream, ForwardVerbatimDownstream,
     DownstreamFails, session, commands, metrics, environment, history
<1>3. CASE CommandsClose \/ SessionEnds \/ WriterSends \/ WriterFails \/ ChargerSends
  BY <1>3 DEF CommandsClose, SessionEnds, WriterSends, WriterFails, ChargerSends,
     ChargerSendsFrame, session, commands, metrics, environment, history, sessionState
<1>4. CASE ChargerAnswers \/ ChargerHangsUp \/ CentralSends \/ CentralAnswers \/ LinkBreaks
  BY <1>4 DEF ChargerAnswers, ChargerSendsFrame, ChargerHangsUp, CentralSends,
     CentralSendsFrame, CentralAnswers, LinkBreaks, environment, history, sessionState,
     session, metrics
<1>5. CASE Cancel \/ RouterDropsSender \/ DispatchAccepted \/ DispatchQueueFull \/
           DispatchNotConnected
  BY <1>5 DEF Cancel, RouterDropsSender, DispatchAccepted, DispatchTo, DispatchQueueFull,
     DispatchNotConnected, session, metrics, history, sessionState
<1>6. CASE Terminated
  BY <1>6 DEF Terminated, vars, session, commands, metrics, environment, history
<1>7. CASE BackoffElapses
  BY <1>7 DEF BackoffElapses, GoConnecting, commands, metrics, environment, history
<1>8. CASE BackoffReadsFrame
  BY <1>8 DEF BackoffReadsFrame, GoConnecting, commands, metrics, environment
<1>9. CASE (\E k \in 0..Len(upBuffer) : FlushUpstream(k))
  <2> SUFFICES ASSUME NEW k \in 0..Len(upBuffer), FlushUpstream(k) PROVE BufferHoldsAtMostOne'
    BY <1>9
  <2>1. upBuffer' = SubSeq(upBuffer, k + 1, Len(upBuffer))
    BY DEF FlushUpstream, LeftAfterFlush
  <2>2. Len(upBuffer') = Len(upBuffer) - k /\ upBuffer' \in Seq(BufferedFrames)
    BY <2>1 DEF TypeOK, SessionTypes
  <2>3. pc' = "forwarding" => k = Len(upBuffer)
    BY DEF FlushUpstream, GoConnecting
  <2> QED BY <2>2, <2>3 DEF TypeOK, SessionTypes
<1>10. CASE LostWaitElapses
  BY <1>10 DEF LostWaitElapses, GoConnecting, commands, metrics, environment, history
<1>11. CASE AnswerConsumed
  <2>1. upBuffer' = upBuffer /\ (pc' = pc \/ pc' = "ending")
    BY <1>11 DEF AnswerConsumed, SendLocalCalls
  <2> QED BY <2>1
<1>12. CASE ForwardUpstream
  <2>1. upBuffer' = upBuffer /\ (pc' = pc \/ pc' = "ending")
    BY <1>12 DEF ForwardUpstream, SendLocalCalls
  <2> QED BY <2>1
<1>13. CASE ForwardUpstreamFails
  <2>1. upBuffer = <<>>
    BY <1>13 DEF ForwardUpstreamFails, ChargerFrame
  <2>2. upBuffer' = <<Buffered(Head(chargerIn))>> /\ pc' = "lostWait"
    BY <1>13, <2>1 DEF ForwardUpstreamFails, buffer_upstream, LoseUpstream
  <2> QED BY <2>2
<1>14. CASE VerbatimUpstreamFails
  BY <1>14 DEF VerbatimUpstreamFails, LoseUpstream, commands, metrics, environment
<1>15. CASE AnswerPing
  BY <1>15 DEF AnswerPing, LoseUpstream, session, commands, metrics, environment, history
<1>16. CASE UpstreamCloses
  BY <1>16 DEF UpstreamCloses, LoseUpstream, commands, metrics, environment, history
<1>17. CASE ReceiveCommand
  <2>1. upBuffer' = upBuffer /\ (pc' = pc \/ pc' = "ending")
    BY <1>17 DEF ReceiveCommand, SendLocalCalls
  <2> QED BY <2>1
<1>18. CASE CommandTick
  <2>1. upBuffer' = upBuffer /\ (pc' = pc \/ pc' = "ending")
    BY <1>18 DEF CommandTick, SendLocalCalls
  <2> QED BY <2>1
<1>19. CASE Housekeeping
  <2>1. upBuffer = <<>> /\ upBuffer' = <<>>
    BY <1>19 DEF Housekeeping, evict_expired_messages
  <2> QED BY <2>1
<1>20. CASE Teardown
  BY <1>20 DEF Teardown
<1>21. CASE Tick
  <2>1. Len(upBuffer') = Len(upBuffer) /\ upBuffer' \in Seq(BufferedFrames)
    <3>1. \A e \in BufferedFrames : AgedFrame(e) \in BufferedFrames
      BY DEF BufferedFrames, AgedFrame, Older
    <3> QED BY <1>21, <3>1 DEF Tick, TypeOK, SessionTypes
  <2>2. pc' = pc
    BY <1>21 DEF Tick
  <2> QED BY <2>1, <2>2
<1> QED
  BY <1>1, <1>2, <1>3, <1>4, <1>5, <1>6, <1>7, <1>8, <1>9, <1>10, <1>11, <1>12, <1>13, <1>14,
     <1>15, <1>16, <1>17, <1>18, <1>19, <1>20, <1>21 DEF Next, SessionStep, EnvironmentStep

\* The type invariant and the bound on the buffer hold initially and are kept
\* by every step.  Neither half is inductive by itself: that a replayed or
\* evicted buffer is still a buffer of frames needs its bound.
LEMMA TypesInductive ==
    /\ Init => TypeOK /\ BufferHoldsAtMostOne
    /\ TypeOK /\ BufferHoldsAtMostOne /\ [Next]_vars => (TypeOK /\ BufferHoldsAtMostOne)'
<1>1. ASSUME Init PROVE TypeOK /\ BufferHoldsAtMostOne
  <2>1. SessionTypes
    BY <1>1 DEF Init, SessionTypes, PCs, NoWindow, CloseNormal, CloseGoingAway
  <2>2. CommandTypes
    <3>1. \A c \in Commands : <<>> \in Seq(Statuses)
      OBVIOUS
    <3>2. results \in [Commands -> Seq(Statuses)]
      BY <1>1, <3>1 DEF Init
    <3>3. kind \in [Commands -> Kinds] /\ age \in [Commands -> 0..CommandTimeout]
      BY <1>1 DEF Init, Kinds
    <3>4. /\ inbox = {} /\ queued = {} /\ inFlight = NoFlight /\ commandsOpen = TRUE
          /\ issued = 0 /\ drained = 0
      BY <1>1 DEF Init
    <3> QED BY <3>2, <3>3, <3>4 DEF CommandTypes, InFlights
  <2>3. NetworkTypes
    <3>1. chargerIn = <<>> /\ centralIn = <<>> /\ toCharger = <<>>
      BY <1>1 DEF Init
    <3>2. /\ chargerIn \in Seq(ChargerFrames) /\ centralIn \in Seq(CentralFrames)
          /\ toCharger \in Seq(OutboundFrames)
      BY <3>1
    <3>3. /\ chargerUp = TRUE /\ writerUp = TRUE /\ senderOpen = TRUE /\ cancelled = FALSE
          /\ upLink = "none" /\ asked = {} /\ heard = {} /\ upN = 0 /\ downN = 0
      BY <1>1 DEF Init
    <3>4. /\ upLink \in {"none", "up", "broken"} /\ asked \subseteq Uids /\ heard \subseteq Uids
          /\ upN \in 0..MaxUp /\ downN \in 0..MaxDown
      BY <3>3
    <3>5. /\ chargerUp \in BOOLEAN /\ writerUp \in BOOLEAN
          /\ senderOpen \in BOOLEAN /\ cancelled \in BOOLEAN
      BY <3>3
    <3> QED BY <3>2, <3>4, <3>5, Zenon DEF NetworkTypes
  <2>4. HistoryTypes
    BY <1>1 DEF Init, HistoryTypes, Fates
  <2>5. BufferHoldsAtMostOne
    BY <1>1 DEF Init, BufferHoldsAtMostOne
  <2> QED BY <2>1, <2>2, <2>3, <2>4, <2>5 DEF TypeOK
<1>2. ASSUME TypeOK, BufferHoldsAtMostOne, Next PROVE (TypeOK /\ BufferHoldsAtMostOne)'
  BY <1>2, SessionTypesStep, CommandTypesStep, NetworkTypesStep, HistoryTypesStep,
     BufferHoldsAtMostOneStep DEF TypeOK
<1>3. ASSUME TypeOK, BufferHoldsAtMostOne, UNCHANGED vars
      PROVE  (TypeOK /\ BufferHoldsAtMostOne)'
  <2>1. SessionTypes' /\ CommandTypes'
    BY <1>3 DEF TypeOK, SessionTypes, CommandTypes, vars, session, commands, metrics, environment
  <2>2. NetworkTypes' /\ HistoryTypes'
    BY <1>3 DEF TypeOK, NetworkTypes, HistoryTypes, vars, environment, history
  <2>3. BufferHoldsAtMostOne'
    BY <1>3 DEF BufferHoldsAtMostOne, vars, session
  <2> QED BY <2>1, <2>2, <2>3 DEF TypeOK
<1> QED BY <1>1, <1>2, <1>3

\* Every reachable state is well typed, whatever the sizes of the channels and
\* buffers and however many frames and commands there are.
THEOREM TypeCorrect == Spec => []TypeOK
BY TypesInductive, PTL DEF Spec

\* The reconnection buffer never holds more than the frame whose write failed,
\* and is empty whenever the session forwards: message_buffer_size is never
\* reached by more than one message.
THEOREM BufferBound == Spec => []BufferHoldsAtMostOne
BY TypesInductive, PTL DEF Spec
=============================================================================
