----------------------------- MODULE OrderProofs ------------------------------
(***************************************************************************)
(* Frames of the charger reach the Central System, and frames of the       *)
(* Central System the charger, in order and at most once, for every number *)
(* of frames, buffer size and reconnection; and the counters are exact.    *)
(***************************************************************************)
EXTENDS SessionProofs, FiniteSetTheorems

USE LocalCallsAssumption, ForwarderAssumption, SessionAssumption

\* No frame is numbered above the ones the charger has sent.
SentBelow ==
    /\ lastUp <= upN
    /\ \A i \in 1..Len(upBuffer) : upBuffer[i].n <= upN
    /\ \A i \in 1..Len(chargerIn) : chargerIn[i].n <= upN

\* The inductive invariant: without SentBelow a new frame need not be the newest.
UpstreamInv == UpstreamInOrder /\ SentBelow

\* Reading the first of some frames in order leaves frames in order, newer
\* than the one read.
LEMMA AscendingTail ==
    ASSUME NEW s \in Seq(ChargerFrames), NEW last \in Nat, s # <<>>, Ascending(last, s)
    PROVE  /\ Head(s).n \in Nat /\ last < Head(s).n
           /\ Tail(s) \in Seq(ChargerFrames)
           /\ Ascending(last, Tail(s))
           /\ Ascending(Head(s).n, Tail(s))
           /\ \A j \in 1..Len(Tail(s)) : Tail(s)[j] = s[j + 1]
<1>1. /\ Tail(s) \in Seq(ChargerFrames) /\ Len(Tail(s)) = Len(s) - 1 /\ Len(s) \in Nat \ {0}
      /\ Head(s) = s[1]
      /\ \A j \in 1..Len(Tail(s)) : Tail(s)[j] = s[j + 1]
  OBVIOUS
<1>2. \A i \in 1..Len(s) : s[i] \in ChargerFrames
  OBVIOUS
<1>3. \A i \in 1..Len(s) : s[i].n \in Nat
  BY <1>2 DEF ChargerFrames
<1>4. /\ \A i \in 1..Len(s) : last < s[i].n
      /\ \A i, j \in 1..Len(s) : i < j => s[i].n < s[j].n
  BY DEF Ascending
<1> QED BY <1>1, <1>3, <1>4 DEF Ascending

\* Reading a charger frame without writing it upstream keeps the order.
LEMMA ReadInOrder ==
    ASSUME upN \in Nat, lastUp \in Nat, chargerIn \in Seq(ChargerFrames), UpstreamInv,
           chargerIn # <<>>, chargerIn' = Tail(chargerIn), UNCHANGED <<upBuffer, lastUp, upN>>
    PROVE  UpstreamInv'
<1>1. /\ Ascending(lastUp, Tail(chargerIn))
      /\ \A j \in 1..Len(Tail(chargerIn)) : Tail(chargerIn)[j] = chargerIn[j + 1]
  BY AscendingTail DEF UpstreamInv, UpstreamInOrder
<1>2. Len(Tail(chargerIn)) = Len(chargerIn) - 1 /\ Len(chargerIn) \in Nat
  OBVIOUS
<1>3. \A j \in 1..Len(chargerIn') : j + 1 \in 1..Len(chargerIn) /\ chargerIn'[j] = chargerIn[j + 1]
  BY <1>1, <1>2
<1>4. Ascending(lastUp', upBuffer') /\ Ascending(lastUp', chargerIn')
  BY <1>1 DEF UpstreamInv, UpstreamInOrder
<1>5. \A i \in 1..Len(upBuffer'), j \in 1..Len(chargerIn') : upBuffer'[i].n < chargerIn'[j].n
  BY <1>3 DEF UpstreamInv, UpstreamInOrder
<1>6. SentBelow'
  BY <1>3 DEF UpstreamInv, SentBelow
<1> QED BY <1>4, <1>5, <1>6 DEF UpstreamInv, UpstreamInOrder

\* A frame the charger sends is newer than all it has sent before.
LEMMA AscendingAppend ==
    ASSUME upN \in Nat, lastUp \in Nat, chargerIn \in Seq(ChargerFrames),
           \A i \in 1..Len(chargerIn) : chargerIn[i].n \in Nat,
           \A i \in 1..Len(upBuffer) : upBuffer[i].n \in Nat,
           UpstreamInv, NEW f, f.n = upN + 1,
           chargerIn' = Append(chargerIn, f), upN' = upN + 1, UNCHANGED <<upBuffer, lastUp>>
    PROVE  UpstreamInv'
<1>1. /\ Len(chargerIn') = Len(chargerIn) + 1 /\ Len(chargerIn) \in Nat
      /\ \A i \in 1..Len(chargerIn) : chargerIn'[i] = chargerIn[i]
      /\ chargerIn'[Len(chargerIn) + 1] = f
  OBVIOUS
<1>2. \A i \in 1..Len(chargerIn') : i \in 1..Len(chargerIn) \/ i = Len(chargerIn) + 1
  BY <1>1
<1>3. Ascending(lastUp', chargerIn')
  <2>1. \A i \in 1..Len(chargerIn') : lastUp < chargerIn'[i].n
    BY <1>1, <1>2 DEF UpstreamInv, UpstreamInOrder, SentBelow, Ascending
  <2>2. ASSUME NEW i \in 1..Len(chargerIn'), NEW j \in 1..Len(chargerIn'), i < j
        PROVE  chargerIn'[i].n < chargerIn'[j].n
    <3>1. i \in 1..Len(chargerIn) /\ chargerIn'[i] = chargerIn[i]
      BY <1>1, <2>2
    <3>2. CASE j \in 1..Len(chargerIn)
      BY <1>1, <2>2, <3>1, <3>2 DEF UpstreamInv, UpstreamInOrder, Ascending
    <3>3. CASE j = Len(chargerIn) + 1
      BY <1>1, <3>1, <3>3 DEF UpstreamInv, SentBelow
    <3> QED BY <1>2, <3>2, <3>3
  <2> QED BY <2>1, <2>2 DEF Ascending
<1>4. \A i \in 1..Len(upBuffer'), j \in 1..Len(chargerIn') : upBuffer'[i].n < chargerIn'[j].n
  BY <1>1, <1>2 DEF UpstreamInv, UpstreamInOrder, SentBelow
<1>5. /\ lastUp' <= upN'
      /\ \A i \in 1..Len(upBuffer') : upBuffer'[i].n <= upN'
  BY DEF UpstreamInv, SentBelow
<1>6. \A i \in 1..Len(chargerIn') : chargerIn'[i].n <= upN'
  BY <1>1, <1>2 DEF UpstreamInv, SentBelow
<1>7. Ascending(lastUp', upBuffer')
  BY DEF UpstreamInv, UpstreamInOrder
<1> QED BY <1>3, <1>4, <1>5, <1>6, <1>7 DEF UpstreamInv, UpstreamInOrder, SentBelow

\* Every step keeps the frames of the charger in order.
LEMMA UpstreamInvStep ==
    ASSUME TypeOK, BufferHoldsAtMostOne, UpstreamInv, Next
    PROVE  UpstreamInv'
<1> USE DEF UpstreamInv
<1>0. /\ upN \in Nat /\ lastUp \in Nat
      /\ chargerIn \in Seq(ChargerFrames) /\ upBuffer \in Seq(BufferedFrames)
      /\ \A i \in 1..Len(chargerIn) : chargerIn[i].n \in Nat
      /\ \A i \in 1..Len(upBuffer) : upBuffer[i].n \in Nat
  <2>1. /\ \A i \in 1..Len(chargerIn) : chargerIn[i] \in ChargerFrames
        /\ \A i \in 1..Len(upBuffer) : upBuffer[i] \in BufferedFrames
    BY DEF TypeOK, SessionTypes, NetworkTypes
  <2>2. /\ \A f \in ChargerFrames : f.n \in Nat
        /\ \A f \in BufferedFrames : f.n \in Nat
    BY DEF ChargerFrames, BufferedFrames
  <2>3. upN \in Nat /\ lastUp \in Nat
    BY DEF TypeOK, NetworkTypes, HistoryTypes
  <2>4. chargerIn \in Seq(ChargerFrames) /\ upBuffer \in Seq(BufferedFrames)
    BY DEF TypeOK, SessionTypes, NetworkTypes
  <2> QED BY <2>1, <2>2, <2>3, <2>4
<1>1. CASE ConnectSucceeds \/ ConnectFails \/ BackoffElapses \/ BackoffEnds \/ LostWaitElapses
  BY <1>1 DEF UpstreamInOrder, SentBelow, ConnectSucceeds, ConnectFails, BackoffElapses,
     BackoffEnds, LostWaitElapses, commands, metrics, environment, history
<1>2. CASE LostWaitCancelled \/ ForwardingEnds \/ ForwardDownstream \/
           ForwardVerbatimDownstream \/ DownstreamFails
  BY <1>2 DEF UpstreamInOrder, SentBelow, LostWaitCancelled, ForwardingEnds,
     ForwardDownstream, ForwardVerbatimDownstream, DownstreamFails, session, commands, metrics,
     environment, history
<1>3. CASE AnswerPing \/ UpstreamCloses \/ ReceiveCommand \/ CommandsClose \/ CommandTick
  BY <1>3 DEF UpstreamInOrder, SentBelow, AnswerPing, UpstreamCloses, ReceiveCommand,
     CommandsClose, CommandTick, session, commands, metrics, environment, history
<1>4. CASE SessionEnds \/ WriterSends \/ WriterFails \/ ChargerHangsUp \/ CentralSends
  BY <1>4 DEF UpstreamInOrder, SentBelow, SessionEnds, WriterSends, WriterFails,
     ChargerHangsUp, CentralSends, CentralSendsFrame, session, commands, metrics, environment,
     history, sessionState
<1>5. CASE CentralAnswers \/ LinkBreaks \/ Cancel \/ RouterDropsSender \/ DispatchAccepted
  BY <1>5 DEF UpstreamInOrder, SentBelow, CentralAnswers, CentralSendsFrame, LinkBreaks,
     Cancel, RouterDropsSender, DispatchAccepted, DispatchTo, session, metrics, environment,
     history, sessionState
<1>6. CASE DispatchQueueFull \/ DispatchNotConnected
  BY <1>6 DEF UpstreamInOrder, SentBelow, DispatchQueueFull, DispatchTo,
     DispatchNotConnected, session, metrics, history
<1>7. CASE BackoffReadsFrame
  <2>1. chargerIn # <<>> /\ chargerIn' = Tail(chargerIn) /\ UNCHANGED <<upBuffer, lastUp, upN>>
    BY <1>7 DEF BackoffReadsFrame, ChargerFrame, environment
  <2> QED BY <1>0, <2>1, ReadInOrder
<1>8. CASE (\E k \in 0..Len(upBuffer) : FlushUpstream(k))
  <2> SUFFICES ASSUME NEW k \in 0..Len(upBuffer), FlushUpstream(k) PROVE UpstreamInv'
    BY <1>8
  <2>1. /\ upBuffer' = SubSeq(upBuffer, k + 1, Len(upBuffer))
        /\ lastUp' = IF k = 0 THEN lastUp ELSE upBuffer[k].n
        /\ UNCHANGED <<chargerIn, upN>>
    BY DEF FlushUpstream, LeftAfterFlush, environment
  <2>2. /\ Len(upBuffer') = Len(upBuffer) - k
        /\ \A i \in 1..Len(upBuffer') : upBuffer'[i] = upBuffer[i + k]
    BY <1>0, <2>1
  <2>3. lastUp' \in Nat /\ lastUp' <= upN
    BY <1>0, <2>1 DEF SentBelow
  <2>21. Len(upBuffer) \in Nat /\ k \in Nat
    BY <1>0
  <2>22. \A i \in 1..Len(upBuffer') : i + k \in 1..Len(upBuffer) /\ upBuffer'[i] = upBuffer[i + k]
    BY <2>2, <2>21
  <2>41. \A i \in 1..Len(upBuffer') : lastUp' < upBuffer'[i].n
    <3>1. CASE k = 0
      BY <2>1, <2>22, <3>1 DEF UpstreamInOrder, Ascending
    <3>2. CASE k # 0
      <4>1. k \in 1..Len(upBuffer) /\ lastUp' = upBuffer[k].n
        BY <2>1, <2>21, <3>2
      <4>2. \A i \in 1..Len(upBuffer') : k < i + k
        BY <2>21, <2>2
      <4> QED BY <2>22, <4>1, <4>2 DEF UpstreamInOrder, Ascending
    <3> QED BY <3>1, <3>2
  <2>42. ASSUME NEW i \in 1..Len(upBuffer'), NEW j \in 1..Len(upBuffer'), i < j
         PROVE  upBuffer'[i].n < upBuffer'[j].n
    <3>1. i + k < j + k
      BY <2>21, <2>2, <2>42
    <3> QED BY <2>22, <3>1 DEF UpstreamInOrder, Ascending
  <2>4. Ascending(lastUp', upBuffer')
    BY <2>41, <2>42 DEF Ascending
  <2>5. Ascending(lastUp', chargerIn)
    BY <1>0, <2>1 DEF UpstreamInOrder, Ascending
  <2>6. \A i \in 1..Len(upBuffer'), j \in 1..Len(chargerIn) : upBuffer'[i].n < chargerIn[j].n
    BY <2>22 DEF UpstreamInOrder
  <2> QED BY <2>1, <2>22, <2>3, <2>4, <2>5, <2>6 DEF UpstreamInOrder, SentBelow
<1>9. CASE AnswerConsumed
  <2>1. chargerIn # <<>> /\ chargerIn' = Tail(chargerIn) /\ UNCHANGED <<upBuffer, lastUp, upN>>
    BY <1>9 DEF AnswerConsumed, ChargerFrame, environment
  <2> QED BY <1>0, <2>1, ReadInOrder
<1>10. CASE ForwardUpstream
  <2>1. /\ chargerIn # <<>> /\ chargerIn' = Tail(chargerIn) /\ lastUp' = Head(chargerIn).n
        /\ UNCHANGED <<upBuffer, upN>> /\ pc = "forwarding"
    BY <1>10 DEF ForwardUpstream, ChargerFrame, environment
  <2>2. /\ Ascending(Head(chargerIn).n, Tail(chargerIn))
        /\ \A j \in 1..Len(Tail(chargerIn)) : Tail(chargerIn)[j] = chargerIn[j + 1]
        /\ Len(Tail(chargerIn)) = Len(chargerIn) - 1
        /\ Head(chargerIn) = chargerIn[1] /\ Len(chargerIn) \in Nat \ {0}
    BY <1>0, <2>1, AscendingTail DEF UpstreamInOrder
  <2>3. upBuffer' = <<>> /\ Len(upBuffer') = 0
    BY <2>1 DEF BufferHoldsAtMostOne
  <2> QED BY <1>0, <2>1, <2>2, <2>3 DEF UpstreamInOrder, SentBelow, Ascending
<1>11. CASE ForwardUpstreamFails
  <2> DEFINE f == Head(chargerIn)
  <2>1. /\ chargerIn # <<>> /\ chargerIn' = Tail(chargerIn)
        /\ UNCHANGED <<lastUp, upN>> /\ upBuffer = <<>>
    BY <1>11 DEF ForwardUpstreamFails, ChargerFrame, environment, BufferHoldsAtMostOne
  <2>2. upBuffer' = <<Buffered(f)>>
    BY <1>11, <2>1 DEF ForwardUpstreamFails, buffer_upstream
  <2>3. Len(upBuffer') = 1 /\ upBuffer'[1].n = f.n
    BY <2>2 DEF Buffered
  <2>4. /\ Ascending(lastUp, Tail(chargerIn)) /\ Ascending(f.n, Tail(chargerIn))
        /\ \A j \in 1..Len(Tail(chargerIn)) : Tail(chargerIn)[j] = chargerIn[j + 1]
        /\ Len(Tail(chargerIn)) = Len(chargerIn) - 1
        /\ f = chargerIn[1] /\ Len(chargerIn) \in Nat \ {0} /\ lastUp < f.n
    BY <1>0, <2>1, AscendingTail DEF UpstreamInOrder
  <2>5. Ascending(lastUp, upBuffer')
    BY <2>3, <2>4 DEF Ascending
  <2>6. \A i \in 1..Len(upBuffer'), j \in 1..Len(chargerIn') : upBuffer'[i].n < chargerIn'[j].n
    BY <2>1, <2>3, <2>4 DEF Ascending
  <2> QED BY <1>0, <2>1, <2>3, <2>4, <2>5, <2>6 DEF UpstreamInOrder, SentBelow
<1>12. CASE ForwardVerbatimUpstream
  <2>1. /\ chargerIn # <<>> /\ chargerIn' = Tail(chargerIn) /\ lastUp' = Head(chargerIn).n
        /\ UNCHANGED <<upBuffer, upN>> /\ pc = "forwarding"
    BY <1>12 DEF ForwardVerbatimUpstream, ChargerFrame, environment
  <2>2. /\ Ascending(Head(chargerIn).n, Tail(chargerIn))
        /\ \A j \in 1..Len(Tail(chargerIn)) : Tail(chargerIn)[j] = chargerIn[j + 1]
        /\ Len(Tail(chargerIn)) = Len(chargerIn) - 1
        /\ Head(chargerIn) = chargerIn[1] /\ Len(chargerIn) \in Nat \ {0}
    BY <1>0, <2>1, AscendingTail DEF UpstreamInOrder
  <2>3. upBuffer' = <<>> /\ Len(upBuffer') = 0
    BY <2>1 DEF BufferHoldsAtMostOne
  <2> QED BY <1>0, <2>1, <2>2, <2>3 DEF UpstreamInOrder, SentBelow, Ascending
<1>13. CASE VerbatimUpstreamFails
  <2>1. chargerIn # <<>> /\ chargerIn' = Tail(chargerIn) /\ UNCHANGED <<upBuffer, lastUp, upN>>
    BY <1>13 DEF VerbatimUpstreamFails, ChargerFrame, environment
  <2> QED BY <1>0, <2>1, ReadInOrder
<1>14. CASE IgnoreBinary
  <2>1. chargerIn # <<>> /\ chargerIn' = Tail(chargerIn) /\ UNCHANGED <<upBuffer, lastUp, upN>>
    BY <1>14 DEF IgnoreBinary, ChargerFrame, environment
  <2> QED BY <1>0, <2>1, ReadInOrder
<1>15. CASE Housekeeping
  <2>1. upBuffer' = upBuffer
    BY <1>15 DEF Housekeeping, evict_expired_messages, BufferHoldsAtMostOne
  <2>2. UNCHANGED <<chargerIn, lastUp, upN>>
    BY <1>15 DEF Housekeeping, environment
  <2> QED BY <2>1, <2>2 DEF UpstreamInOrder, SentBelow
<1>16. CASE Teardown
  <2>1. upBuffer' = <<>> /\ Len(upBuffer') = 0
    BY <1>16 DEF Teardown
  <2>2. UNCHANGED <<chargerIn, lastUp, upN>>
    BY <1>16 DEF Teardown, environment
  <2> QED BY <2>1, <2>2 DEF UpstreamInOrder, SentBelow, Ascending
<1>17. CASE ChargerSends
  <2>1. PICK f : f.n = upN + 1 /\ chargerIn' = Append(chargerIn, f)
    BY <1>17 DEF ChargerSends, ChargerSendsFrame, Frame
  <2>2. upN' = upN + 1 /\ UNCHANGED <<upBuffer, lastUp>>
    BY <1>17 DEF ChargerSends, ChargerSendsFrame, sessionState
  <2> QED BY <1>0, <2>1, <2>2, AscendingAppend
<1>18. CASE ChargerAnswers
  <2>1. PICK f : f.n = upN + 1 /\ chargerIn' = Append(chargerIn, f)
    BY <1>18 DEF ChargerAnswers, ChargerSendsFrame, Frame
  <2>2. upN' = upN + 1 /\ UNCHANGED <<upBuffer, lastUp>>
    BY <1>18 DEF ChargerAnswers, ChargerSendsFrame, sessionState
  <2> QED BY <1>0, <2>1, <2>2, AscendingAppend
<1>19. CASE Tick
  <2>1. /\ Len(upBuffer') = Len(upBuffer)
        /\ \A i \in 1..Len(upBuffer) : upBuffer'[i] = AgedFrame(upBuffer[i])
    <3>1. \A e \in BufferedFrames : AgedFrame(e) \in BufferedFrames
      BY DEF BufferedFrames, AgedFrame, Older
    <3> QED BY <1>0, <1>19, <3>1 DEF Tick
  <2>2. \A i \in 1..Len(upBuffer) : upBuffer'[i].n = upBuffer[i].n
    <3>1. \A e : AgedFrame(e).n = e.n
      BY DEF AgedFrame
    <3> QED BY <2>1, <3>1
  <2>3. UNCHANGED <<chargerIn, lastUp, upN>>
    BY <1>19 DEF Tick, environment
  <2> QED BY <2>1, <2>2, <2>3 DEF UpstreamInOrder, SentBelow, Ascending
<1>20. CASE Terminated
  <2>1. UNCHANGED <<upBuffer, chargerIn, lastUp, upN>>
    BY <1>20 DEF Terminated, vars, environment, history
  <2> QED BY <2>1 DEF UpstreamInOrder, SentBelow
<1> QED
  BY <1>1, <1>2, <1>3, <1>4, <1>5, <1>6, <1>7, <1>8, <1>9, <1>10, <1>11, <1>12, <1>13, <1>14,
     <1>15, <1>16, <1>17, <1>18, <1>19, <1>20 DEF Next, SessionStep, EnvironmentStep

\* The order upstream and the bound that keeps it.
LEMMA UpstreamInductive == Spec => []UpstreamInv
<1>1. Init => UpstreamInv
  BY DEF Init, UpstreamInv, UpstreamInOrder, SentBelow, Ascending
<1>2. TypeOK /\ BufferHoldsAtMostOne /\ UpstreamInv /\ [Next]_vars => UpstreamInv'
  <2>1. ASSUME UpstreamInv, UNCHANGED vars PROVE UpstreamInv'
    BY <2>1 DEF UpstreamInv, UpstreamInOrder, SentBelow, vars, environment, history
  <2> QED BY <2>1, UpstreamInvStep
<1> QED BY <1>1, <1>2, TypeCorrect, BufferBound, PTL DEF Spec

\* Whatever fails, reconnects or is replayed, the frames still to be written
\* upstream are newer than the last one written, and in order.
THEOREM UpstreamOrder == Spec => []UpstreamInOrder
<1>1. UpstreamInv => UpstreamInOrder
  BY DEF UpstreamInv
<1> QED BY <1>1, UpstreamInductive, PTL

------------------------------------------------------------------------------
(***************************************************************************)
(* The other direction.  For the frames in (from the Central System, not   *)
(* yet read) and out (in the charger's channel), the number of the last    *)
(* frame written and m frames so far.                                      *)
(***************************************************************************)
DownOrder(in, out, last, m) ==
    LET fromCentral == {i \in 1..Len(out) : out[i].n # 0}
    IN /\ \A i \in fromCentral : last < out[i].n /\ out[i].n <= m
       /\ \A i, j \in fromCentral : i < j => out[i].n < out[j].n
       /\ \A i \in 1..Len(in) : last < in[i].n /\ in[i].n <= m
       /\ \A i, j \in 1..Len(in) : i < j => in[i].n < in[j].n
       /\ \A i \in fromCentral, j \in 1..Len(in) : out[i].n < in[j].n
       /\ last <= m

DownTyped(in, out, last, m) ==
    /\ in \in Seq(CentralFrames) /\ out \in Seq(OutboundFrames)
    /\ last \in Nat /\ m \in Nat

\* Frame numbers are numbers.
LEMMA DownNumbers ==
    ASSUME NEW in, NEW out, NEW last, NEW m, DownTyped(in, out, last, m)
    PROVE  /\ Len(in) \in Nat /\ \A i \in 1..Len(in) : in[i].n \in Nat \ {0}
           /\ Len(out) \in Nat /\ \A i \in 1..Len(out) : out[i].n \in Nat
<1>1. /\ Len(in) \in Nat /\ \A i \in 1..Len(in) : in[i] \in CentralFrames
      /\ Len(out) \in Nat /\ \A i \in 1..Len(out) : out[i] \in OutboundFrames
  BY DEF DownTyped
<1> QED BY <1>1 DEF CentralFrames, OutboundFrames

\* A frame is read, or the link is given up with all that is in it.
LEMMA DownRead ==
    ASSUME NEW in, NEW out, NEW last, NEW m, DownTyped(in, out, last, m),
           DownOrder(in, out, last, m)
    PROVE  /\ DownOrder(<<>>, out, last, m)
           /\ in # <<>> => DownOrder(Tail(in), out, last, m)
<1>1. DownOrder(<<>>, out, last, m)
  BY DEF DownOrder
<1>2. ASSUME in # <<>> PROVE DownOrder(Tail(in), out, last, m)
  <2> DEFINE d == Tail(in)
  <2>1. \A i \in 1..Len(d) : i + 1 \in 1..Len(in) /\ d[i] = in[i + 1] /\ i \in Nat
    BY <1>2 DEF DownTyped
  <2>2. \A i, j \in 1..Len(d) : i < j => i + 1 < j + 1
    BY <1>2 DEF DownTyped
  <2> HIDE DEF d
  <2>3. DownOrder(d, out, last, m)
    BY <2>1, <2>2 DEF DownOrder
  <2> QED BY <2>3 DEF d
<1> QED BY <1>1, <1>2

\* The first frame of the Central System goes to the back of the channel.
LEMMA DownForwarded ==
    ASSUME NEW in, NEW out, NEW last, NEW m, DownTyped(in, out, last, m),
           DownOrder(in, out, last, m), in # <<>>, Head(in) \in OutboundFrames
    PROVE  DownOrder(Tail(in), Append(out, Head(in)), last, m)
<1> DEFINE d == Tail(in)
           o == Append(out, Head(in))
<1>1. /\ \A i \in 1..Len(d) : i + 1 \in 1..Len(in) /\ d[i] = in[i + 1] /\ 1 < i + 1
      /\ 1 \in 1..Len(in) /\ Head(in) = in[1]
  BY DEF DownTyped
<1>2. /\ Len(o) = Len(out) + 1 /\ Len(out) \in Nat /\ o[Len(out) + 1] = Head(in)
      /\ \A i \in 1..Len(out) : o[i] = out[i]
  BY DEF DownTyped
<1>3. DownOrder(d, out, last, m)
  BY DownRead
<1> HIDE DEF d, o
<1>4. \A i \in 1..Len(o) : i \in 1..Len(out) \/ i = Len(out) + 1
  BY <1>2
<1>5. last < in[1].n /\ in[1].n <= m
  BY <1>1 DEF DownOrder
<1>6. \A i \in 1..Len(out) : out[i].n # 0 => out[i].n < in[1].n
  BY <1>1 DEF DownOrder
<1>7. \A j \in 1..Len(d) : in[1].n < d[j].n
  BY <1>1 DEF DownOrder
<1>8. \A i, j \in 1..Len(o) : i < j => i \in 1..Len(out)
  BY <1>2
<1>9. /\ \A i \in 1..Len(o) : o[i].n # 0 => last < o[i].n /\ o[i].n <= m
      /\ \A i \in 1..Len(o), j \in 1..Len(d) : o[i].n # 0 => o[i].n < d[j].n
  BY <1>1, <1>2, <1>3, <1>4, <1>5, <1>7 DEF DownOrder
<1>10. \A i, j \in 1..Len(o) : i < j /\ o[i].n # 0 /\ o[j].n # 0 => o[i].n < o[j].n
  BY <1>1, <1>2, <1>4, <1>6, <1>8 DEF DownOrder
<1>11. DownOrder(d, o, last, m)
  BY <1>3, <1>9, <1>10 DEF DownOrder
<1> QED BY <1>11 DEF d, o

\* A frame of the proxy's own has no number.
LEMMA DownOwn ==
    ASSUME NEW in, NEW out, NEW last, NEW m, DownTyped(in, out, last, m),
           DownOrder(in, out, last, m), NEW f \in OutboundFrames, f.n = 0
    PROVE  DownOrder(in, Append(out, f), last, m)
<1> DEFINE o == Append(out, f)
<1>1. /\ Len(o) = Len(out) + 1 /\ Len(out) \in Nat /\ o[Len(out) + 1] = f
      /\ \A i \in 1..Len(out) : o[i] = out[i]
  BY DEF DownTyped
<1> HIDE DEF o
<1>2. \A i \in 1..Len(o) : o[i].n # 0 => i \in 1..Len(out) /\ o[i] = out[i]
  BY <1>1
<1>3. \A i \in 1..Len(o) : o[i].n # 0 => last < o[i].n /\ o[i].n <= m
  BY <1>2 DEF DownOrder
<1>4. \A i, j \in 1..Len(o) : i < j /\ o[i].n # 0 /\ o[j].n # 0 => o[i].n < o[j].n
  BY <1>2 DEF DownOrder
<1>5. \A i \in 1..Len(o), j \in 1..Len(in) : o[i].n # 0 => o[i].n < in[j].n
  BY <1>2 DEF DownOrder
<1>6. DownOrder(in, o, last, m)
  BY <1>3, <1>4, <1>5 DEF DownOrder
<1> QED BY <1>6 DEF o

\* The writer takes a frame, or gives the channel up.
LEMMA DownWritten ==
    ASSUME NEW in, NEW out, NEW last, NEW m, DownTyped(in, out, last, m),
           DownOrder(in, out, last, m), out # <<>>
    PROVE  LET l == IF Head(out).n = 0 THEN last ELSE Head(out).n
           IN /\ DownOrder(in, Tail(out), l, m)
              /\ DownOrder(in, <<>>, l, m)
              /\ DownOrder(in, <<>>, last, m)
<1> DEFINE o == Tail(out)
           l == IF Head(out).n = 0 THEN last ELSE Head(out).n
<1>1. /\ \A i \in 1..Len(o) : i + 1 \in 1..Len(out) /\ o[i] = out[i + 1] /\ 1 < i + 1 /\ i \in Nat
      /\ 1 \in 1..Len(out) /\ Head(out) = out[1]
  BY DEF DownTyped
<1>2. \A i, j \in 1..Len(o) : i < j => i + 1 < j + 1
  BY <1>1
<1> HIDE DEF o
<1>3. \A i \in 1..Len(o) : o[i].n # 0 => last < o[i].n /\ l < o[i].n /\ o[i].n <= m
  BY <1>1 DEF DownOrder
<1>4. \A j \in 1..Len(in) : last < in[j].n /\ l < in[j].n /\ in[j].n <= m
  BY <1>1 DEF DownOrder
<1>5. l <= m
  BY <1>1 DEF DownOrder
<1>6. \A i, j \in 1..Len(o) : i < j /\ o[i].n # 0 /\ o[j].n # 0 => o[i].n < o[j].n
  BY <1>1, <1>2 DEF DownOrder
<1>7. \A i \in 1..Len(o), j \in 1..Len(in) : o[i].n # 0 => o[i].n < in[j].n
  BY <1>1 DEF DownOrder
<1> HIDE DEF l
<1>8. DownOrder(in, o, l, m)
  BY <1>3, <1>4, <1>5, <1>6, <1>7 DEF DownOrder
<1>9. DownOrder(in, <<>>, l, m) /\ DownOrder(in, <<>>, last, m)
  BY <1>4, <1>5 DEF DownOrder
<1> QED BY <1>8, <1>9 DEF o, l

\* The Central System numbers its frames in the order it sends them.
LEMMA DownSent ==
    ASSUME NEW in, NEW out, NEW last, NEW m, DownTyped(in, out, last, m),
           DownOrder(in, out, last, m), NEW f \in CentralFrames, f.n = m + 1
    PROVE  DownOrder(Append(in, f), out, last, m + 1)
<1> DEFINE d == Append(in, f)
<1>1. /\ Len(d) = Len(in) + 1 /\ Len(in) \in Nat /\ d[Len(in) + 1] = f
      /\ \A i \in 1..Len(in) : d[i] = in[i]
      /\ last \in Nat /\ m \in Nat
  BY DEF DownTyped
<1> HIDE DEF d
<1>2. \A i \in 1..Len(d) : i \in 1..Len(in) \/ i = Len(in) + 1
  BY <1>1
<1>3. \A i, j \in 1..Len(d) : i < j => i \in 1..Len(in)
  BY <1>1
<1>4. /\ \A i \in 1..Len(in) : in[i].n \in Nat
      /\ \A i \in 1..Len(out) : out[i].n \in Nat
  BY DownNumbers
<1>5. \A i \in 1..Len(d) : last < d[i].n /\ d[i].n <= m + 1
  BY <1>1, <1>2, <1>4 DEF DownOrder
<1>6. \A i, j \in 1..Len(d) : i < j => d[i].n < d[j].n
  BY <1>1, <1>2, <1>3, <1>4 DEF DownOrder
<1>7. \A i \in 1..Len(out), j \in 1..Len(d) : out[i].n # 0 => out[i].n < d[j].n
  BY <1>1, <1>2, <1>4 DEF DownOrder
<1>8. \A i \in 1..Len(out) : out[i].n # 0 => last < out[i].n /\ out[i].n <= m + 1
  BY <1>1, <1>4 DEF DownOrder
<1>9. last <= m + 1
  BY <1>1 DEF DownOrder
<1>10. DownOrder(d, out, last, m + 1)
  BY <1>5, <1>6, <1>7, <1>8, <1>9 DEF DownOrder
<1> QED BY <1>10 DEF d

DownInv == DownOrder(centralIn, toCharger, lastDown, downN)

\* The steps, as far as the order downstream can tell.
LEMMA DownInvStep ==
    ASSUME TypeOK, DownInv, Next
    PROVE  DownInv'
<1>0. /\ DownTyped(centralIn, toCharger, lastDown, downN)
      /\ DownOrder(centralIn, toCharger, lastDown, downN)
      /\ centralIn \in Seq(CentralFrames) /\ toCharger \in Seq(OutboundFrames)
      /\ downN \in 0..MaxDown /\ heard \in SUBSET Uids
  BY DEF TypeOK, NetworkTypes, HistoryTypes, DownTyped, DownInv
<1>1. /\ DownOrder(<<>>, toCharger, lastDown, downN)
      /\ centralIn # <<>> => DownOrder(Tail(centralIn), toCharger, lastDown, downN)
  BY <1>0, DownRead
<1>2. ASSUME UNCHANGED <<toCharger, lastDown, downN>>,
             \/ centralIn' = <<>> \/ centralIn' = centralIn
             \/ centralIn # <<>> /\ centralIn' = Tail(centralIn)
      PROVE  DownInv'
  BY <1>0, <1>1, <1>2 DEF DownInv
<1>3. CASE ConnectSucceeds \/ ConnectFails \/ BackoffEnds \/ LostWaitCancelled \/ ForwardingEnds
  BY <1>2, <1>3 DEF ConnectSucceeds, ConnectFails, BackoffEnds, LostWaitCancelled,
     ForwardingEnds, environment, history
<1>4. CASE BackoffElapses \/ LostWaitElapses \/ BackoffReadsFrame
  BY <1>2, <1>4 DEF BackoffElapses, LostWaitElapses, BackoffReadsFrame, GoConnecting,
     environment, history
<1>5. ASSUME NEW k \in 0..Len(upBuffer), FlushUpstream(k) PROVE DownInv'
  BY <1>2, <1>5 DEF FlushUpstream, GoConnecting, environment
<1>6. CASE ForwardUpstreamFails \/ ForwardVerbatimUpstream \/ VerbatimUpstreamFails \/ IgnoreBinary
  BY <1>2, <1>6 DEF ForwardUpstreamFails, ForwardVerbatimUpstream, VerbatimUpstreamFails,
     IgnoreBinary, environment
<1>7. CASE DownstreamFails \/ AnswerPing
  BY <1>2, <1>7 DEF DownstreamFails, AnswerPing, CentralFrame, environment, history
<1>8. CASE UpstreamCloses \/ CommandsClose \/ Housekeeping \/ SessionEnds
  BY <1>2, <1>8 DEF UpstreamCloses, CommandsClose, Housekeeping, SessionEnds, environment, history
<1>9. CASE ChargerSends \/ ChargerAnswers \/ ChargerHangsUp \/ LinkBreaks \/ Cancel
  BY <1>2, <1>9 DEF ChargerSends, ChargerAnswers, ChargerSendsFrame, ChargerHangsUp, LinkBreaks,
     Cancel, environment, history
<1>10. CASE RouterDropsSender \/ DispatchAccepted \/ DispatchQueueFull \/ DispatchNotConnected
  BY <1>2, <1>10 DEF RouterDropsSender, DispatchAccepted, DispatchQueueFull,
     DispatchNotConnected, DispatchTo, history
<1>11. CASE Tick \/ Terminated
  BY <1>2, <1>11 DEF Tick, Terminated, vars, environment, history
<1>12. CASE ForwardDownstream \/ ForwardVerbatimDownstream
  <2>1. /\ centralIn # <<>> /\ centralIn' = Tail(centralIn)
        /\ Head(centralIn).type \in {"Call", "Result", "Bad"}
        /\ toCharger' = Append(toCharger, Head(centralIn))
        /\ UNCHANGED <<lastDown, downN>>
    BY <1>12 DEF ForwardDownstream, ForwardVerbatimDownstream, CentralFrame,
       QueuedForCharger, environment, history
  <2>2. Head(centralIn) \in CentralFrames
    BY <1>0, <2>1, HeadTail
  <2>3. Head(centralIn) \in OutboundFrames
    BY <2>1, <2>2 DEF CentralFrames, OutboundFrames
  <2>4. DownOrder(Tail(centralIn), Append(toCharger, Head(centralIn)), lastDown, downN)
    BY <1>0, <2>1, <2>3, DownForwarded
  <2> QED BY <2>1, <2>4 DEF DownInv
\* The proxy's own Calls.
<1>13. ASSUME NEW q \in SUBSET Commands, NEW flight, NEW tracker, NEW r,
              SendLocalCalls(q, flight, tracker, r), UNCHANGED <<centralIn, lastDown, downN>>
       PROVE  DownInv'
  <2>1. \/ toCharger' = toCharger
        \/ \E c \in Commands : toCharger' = Append(toCharger, Frame(0, "Call", <<"proxy", c>>))
    BY <1>13 DEF SendLocalCalls, QueuedForCharger, Sendable, Oldest
  <2>2. ASSUME NEW c \in Commands
        PROVE  DownOrder(centralIn, Append(toCharger, Frame(0, "Call", <<"proxy", c>>)),
                         lastDown, downN)
    <3> DEFINE f == Frame(0, "Call", <<"proxy", c>>)
    <3>1. f \in OutboundFrames /\ f.n = 0
      BY DEF Frame, OutboundFrames, Uids, Commands
    <3> HIDE DEF f
    <3>2. DownOrder(centralIn, Append(toCharger, f), lastDown, downN)
      BY <1>0, <3>1, DownOwn
    <3> QED BY <3>2 DEF f
  <2> QED BY <1>0, <1>13, <2>1, <2>2 DEF DownInv
<1>14. queued \in SUBSET Commands /\ inbox \in SUBSET Commands
  BY DEF TypeOK, CommandTypes
<1>15. CASE AnswerConsumed \/ ForwardUpstream
  <2>1. /\ UNCHANGED <<centralIn, lastDown, downN>>
        /\ \E flight, tracker, r : SendLocalCalls(queued, flight, tracker, r)
    BY <1>15 DEF AnswerConsumed, ForwardUpstream, environment
  <2> QED BY <1>13, <1>14, <2>1
<1>16. CASE ReceiveCommand
  <2>1. /\ UNCHANGED <<centralIn, lastDown, downN>>
        /\ \E c \in Oldest(inbox) :
              \E r : SendLocalCalls(Pushed(queued, kind, c), inFlight, pending, r)
    BY <1>16 DEF ReceiveCommand, environment, history
  <2>2. \A c \in Oldest(inbox) : Pushed(queued, kind, c) \in SUBSET Commands
    BY <1>14 DEF Pushed, Oldest
  <2> QED BY <1>13, <2>1, <2>2
<1>17. CASE CommandTick
  <2>1. /\ UNCHANGED <<centralIn, lastDown, downN>>
        /\ \E flight, r :
              SendLocalCalls(queued \ ExpiredQueued(queued, age), flight, pending, r)
    BY <1>17 DEF CommandTick, environment, history
  <2>2. queued \ ExpiredQueued(queued, age) \in SUBSET Commands
    BY <1>14
  <2> QED BY <1>13, <2>1, <2>2
<1>18. CASE Teardown
  <2> DEFINE close == Frame(0, "Close", NoUid)
  <2>1. /\ centralIn' = <<>> /\ UNCHANGED <<lastDown, downN>>
        /\ toCharger' = IF writerUp THEN Append(toCharger, close) ELSE toCharger
    BY <1>18 DEF Teardown, environment
  <2>2. close \in OutboundFrames /\ close.n = 0
    BY DEF Frame, NoUid, OutboundFrames, Uids
  <2>3. DownTyped(<<>>, toCharger, lastDown, downN)
    BY <1>0 DEF DownTyped
  <2> HIDE DEF close
  <2>4. DownOrder(<<>>, Append(toCharger, close), lastDown, downN)
    BY <1>1, <2>2, <2>3, DownOwn
  <2> QED BY <1>1, <2>1, <2>4 DEF DownInv
<1>19. CASE WriterSends
  <2> DEFINE l == IF Head(toCharger).n = 0 THEN lastDown ELSE Head(toCharger).n
  <2>1. /\ toCharger # <<>> /\ UNCHANGED <<centralIn, downN>> /\ lastDown' = l
        /\ toCharger' = Tail(toCharger) \/ toCharger' = <<>>
    BY <1>19 DEF WriterSends
  <2>2. /\ DownOrder(centralIn, Tail(toCharger), l, downN)
        /\ DownOrder(centralIn, <<>>, l, downN)
    BY <1>0, <2>1, DownWritten
  <2> HIDE DEF l
  <2> QED BY <2>1, <2>2 DEF DownInv
<1>20. CASE WriterFails
  <2>1. /\ toCharger # <<>> /\ UNCHANGED <<centralIn, lastDown, downN>> /\ toCharger' = <<>>
    BY <1>20 DEF WriterFails, history
  <2>2. DownOrder(centralIn, <<>>, lastDown, downN)
    BY <1>0, <2>1, DownWritten
  <2> QED BY <2>1, <2>2 DEF DownInv
<1>21. CASE CentralSends \/ CentralAnswers
  <2>1. PICK type \in DownTypes \cup {"Result"}, uid \in Uids :
          /\ downN < MaxDown /\ downN' = downN + 1 /\ UNCHANGED <<toCharger, lastDown>>
          /\ centralIn' = Append(centralIn, Frame(downN + 1, type, uid))
    <3>1. NoUid \in Uids /\ <<"ocpp", CentralUidBase + downN + 1>> \in Uids
      BY <1>0 DEF NoUid, Uids
    <3> QED BY <1>0, <1>21, <3>1 DEF CentralSends, CentralAnswers, CentralSendsFrame, history
  <2> DEFINE f == Frame(downN + 1, type, uid)
  <2>2. f \in CentralFrames /\ f.n = downN + 1
    BY <1>0, <2>1 DEF Frame, CentralFrames
  <2>3. centralIn' = Append(centralIn, f)
    BY <2>1
  <2> HIDE DEF f
  <2>4. DownOrder(Append(centralIn, f), toCharger, lastDown, downN + 1)
    BY <1>0, <2>2, DownSent
  <2> QED BY <2>1, <2>3, <2>4 DEF DownInv
<1> QED
  BY <1>3, <1>4, <1>5, <1>6, <1>7, <1>8, <1>9, <1>10, <1>11, <1>12, <1>15, <1>16, <1>17,
     <1>18, <1>19, <1>20, <1>21 DEF Next, SessionStep, EnvironmentStep

\* The writer task's channel keeps the order of the Central System's frames,
\* whatever Calls of the proxy are interleaved and whenever the link is lost:
\* what the charger has yet to get is newer than what it got, and in order.
THEOREM DownstreamOrder == Spec => []DownstreamInOrder
<1>1. Init => DownInv
  BY DEF Init, DownInv, DownOrder
<1>2. TypeOK /\ DownInv /\ [Next]_vars => DownInv'
  <2>1. ASSUME DownInv, UNCHANGED vars PROVE DownInv'
    BY <2>1 DEF DownInv, vars, environment, history
  <2> QED BY <2>1, DownInvStep
<1>3. DownInv => DownstreamInOrder
  BY DEF DownInv, DownOrder, DownstreamInOrder, Ascending
<1> QED BY <1>1, <1>2, <1>3, TypeCorrect, PTL DEF Spec

------------------------------------------------------------------------------
(***************************************************************************)
(* The counters.                                                           *)
(***************************************************************************)
Written == {"forwarded", "replayed"}
Fated(f, S) == {n \in 1..MaxUp : f[n] \in S}

\* Where a frame is says what has become of it.
FateInv ==
    /\ \A i \in 1..Len(chargerIn) : fate[chargerIn[i].n] = "socket"
    /\ \A i \in 1..Len(upBuffer) : fate[upBuffer[i].n] = "buffered"
    /\ \A n \in 1..MaxUp : n > upN => fate[n] = "unsent"

CountInv ==
    /\ fwdUp = Cardinality(Fated(fate, Written))
    /\ dropUp = Cardinality(Fated(fate, {"abandoned"}))

\* What the steps start from.
CountersFrom == TypeOK /\ BufferHoldsAtMostOne /\ UpstreamInv /\ FateInv /\ CountInv

\* The frames with some fate can be counted.
LEMMA FatedFinite ==
    ASSUME NEW f, NEW S
    PROVE  IsFiniteSet(Fated(f, S)) /\ Cardinality(Fated(f, S)) \in Nat
<1>1. IsFiniteSet(1..MaxUp)
  BY FS_Interval
<1>2. IsFiniteSet(Fated(f, S))
  BY <1>1, FS_Subset DEF Fated
<1> QED BY <1>2, FS_CardinalityType

\* One more frame gets a fate in S.
LEMMA FatedOneMore ==
    ASSUME NEW f, NEW g, NEW S, NEW n \in 1..MaxUp, f[n] \notin S, g[n] \in S,
           \A m \in 1..MaxUp : m # n => (g[m] \in S <=> f[m] \in S)
    PROVE  Cardinality(Fated(g, S)) = Cardinality(Fated(f, S)) + 1
<1>1. Fated(g, S) = Fated(f, S) \cup {n} /\ n \notin Fated(f, S)
  BY DEF Fated
<1> QED BY <1>1, FatedFinite, FS_AddElement

\* No frame's fate changes as far as S can tell.
LEMMA FatedSame ==
    ASSUME NEW f, NEW g, NEW S, \A m \in 1..MaxUp : g[m] \in S <=> f[m] \in S
    PROVE  Cardinality(Fated(g, S)) = Cardinality(Fated(f, S))
<1>1. Fated(g, S) = Fated(f, S)
  BY DEF Fated
<1> QED BY <1>1

\* The first frame of the charger is decided; the others are where they were.
LEMMA FateRead ==
    ASSUME CountersFrom, chargerIn # <<>>, chargerIn' = Tail(chargerIn),
           UNCHANGED <<upBuffer, upN>>,
           NEW v, fate' = [fate EXCEPT ![Head(chargerIn).n] = v]
    PROVE  /\ FateInv'
           /\ Head(chargerIn).n \in 1..MaxUp /\ fate[Head(chargerIn).n] = "socket"
           /\ fate'[Head(chargerIn).n] = v
           /\ \A m \in 1..MaxUp : m # Head(chargerIn).n => fate'[m] = fate[m]
<1> DEFINE h == Head(chargerIn).n
<1>0. /\ chargerIn \in Seq(ChargerFrames) /\ upBuffer \in Seq(BufferedFrames)
      /\ fate \in [1..MaxUp -> Fates] /\ upN \in 0..MaxUp
  BY DEF CountersFrom, TypeOK, NetworkTypes, SessionTypes, HistoryTypes
<1>1. /\ 1 \in 1..Len(chargerIn) /\ Head(chargerIn) = chargerIn[1]
      /\ \A j \in 1..Len(chargerIn') : /\ j + 1 \in 1..Len(chargerIn) /\ 1 < j + 1
                                       /\ chargerIn'[j] = chargerIn[j + 1]
  BY <1>0
<1>2. \A i \in 1..Len(chargerIn) : chargerIn[i].n \in 1..MaxUp
  <2>1. \A i \in 1..Len(chargerIn) : chargerIn[i] \in ChargerFrames
    BY <1>0
  <2> QED BY <2>1 DEF ChargerFrames
<1>3. h \in 1..MaxUp /\ fate[h] = "socket" /\ h <= upN
  BY <1>1, <1>2 DEF CountersFrom, FateInv, UpstreamInv, SentBelow
<1>4. fate'[h] = v /\ \A m \in 1..MaxUp : m # h => fate'[m] = fate[m]
  BY <1>0, <1>3
<1>5. \A j \in 1..Len(chargerIn') : chargerIn'[j].n \in 1..MaxUp /\ chargerIn'[j].n # h
  BY <1>1, <1>2 DEF CountersFrom, UpstreamInv, UpstreamInOrder, Ascending
<1>6. \A i \in 1..Len(upBuffer) : upBuffer[i].n \in 1..MaxUp /\ upBuffer[i].n # h
  <2>1. \A i \in 1..Len(upBuffer) : upBuffer[i] \in BufferedFrames
    BY <1>0
  <2> QED BY <1>1, <1>2, <2>1 DEF BufferedFrames, CountersFrom, UpstreamInv, UpstreamInOrder
<1> HIDE DEF h
<1>7. \A j \in 1..Len(chargerIn') : fate'[chargerIn'[j].n] = "socket"
  BY <1>1, <1>4, <1>5 DEF CountersFrom, FateInv
<1>8. \A i \in 1..Len(upBuffer') : fate'[upBuffer'[i].n] = "buffered"
  BY <1>4, <1>6 DEF CountersFrom, FateInv
<1>9. \A n \in 1..MaxUp : n > upN' => fate'[n] = "unsent"
  BY <1>0, <1>3, <1>4 DEF CountersFrom, FateInv
<1> QED BY <1>3, <1>4, <1>7, <1>8, <1>9 DEF FateInv, h

\* Every step counts a frame exactly when it settles its fate.
LEMMA CountersStep ==
    ASSUME CountersFrom, Next
    PROVE  FateInv' /\ CountInv'
<1> DEFINE h == Head(chargerIn).n
<1>0. /\ chargerIn \in Seq(ChargerFrames) /\ upBuffer \in Seq(BufferedFrames)
      /\ fate \in [1..MaxUp -> Fates] /\ upN \in 0..MaxUp
      /\ fwdUp \in Nat /\ dropUp \in Nat
      /\ Len(upBuffer) \in Nat /\ Len(upBuffer) <= 1
      /\ \A i \in 1..Len(upBuffer) : upBuffer[i] \in BufferedFrames
  BY DEF CountersFrom, TypeOK, NetworkTypes, SessionTypes, HistoryTypes, BufferHoldsAtMostOne
<1>1. \A i \in 1..Len(upBuffer) : upBuffer[i].n \in 1..MaxUp
  BY <1>0 DEF BufferedFrames
<1>2. ASSUME UNCHANGED <<chargerIn, upBuffer, upN, fate, fwdUp, dropUp>>
      PROVE  FateInv' /\ CountInv'
  BY <1>2 DEF CountersFrom, FateInv, CountInv
<1>3. CASE ConnectSucceeds \/ ConnectFails \/ BackoffEnds \/ LostWaitCancelled \/ ForwardingEnds
  BY <1>2, <1>3 DEF ConnectSucceeds, ConnectFails, BackoffEnds, LostWaitCancelled,
     ForwardingEnds, environment, metrics, history
<1>4. CASE BackoffElapses \/ LostWaitElapses \/ UpstreamCloses \/ CommandsClose \/ SessionEnds
  BY <1>2, <1>4 DEF BackoffElapses, LostWaitElapses, UpstreamCloses, CommandsClose, SessionEnds,
     environment, metrics, history
<1>5. CASE ForwardDownstream \/ ForwardVerbatimDownstream \/ DownstreamFails \/ AnswerPing
  BY <1>2, <1>5 DEF ForwardDownstream, ForwardVerbatimDownstream, DownstreamFails, AnswerPing,
     environment, metrics, history
<1>6. CASE ReceiveCommand \/ CommandTick \/ WriterSends \/ WriterFails \/ ChargerHangsUp
  BY <1>2, <1>6 DEF ReceiveCommand, CommandTick, WriterSends, WriterFails, ChargerHangsUp,
     environment, metrics, history, sessionState
<1>7. CASE CentralSends \/ CentralAnswers \/ LinkBreaks \/ Cancel \/ RouterDropsSender
  BY <1>2, <1>7 DEF CentralSends, CentralAnswers, CentralSendsFrame, LinkBreaks, Cancel,
     RouterDropsSender, environment, metrics, history, sessionState
<1>8. CASE DispatchAccepted \/ DispatchQueueFull \/ DispatchNotConnected \/ Terminated
  BY <1>2, <1>8 DEF DispatchAccepted, DispatchQueueFull, DispatchNotConnected, DispatchTo,
     Terminated, vars, environment, metrics, history
\* A frame that is read and not counted.
<1>9. ASSUME chargerIn # <<>>, chargerIn' = Tail(chargerIn),
             UNCHANGED <<upBuffer, upN, fwdUp, dropUp>>,
             NEW v \in Fates \ (Written \cup {"abandoned"}),
             fate' = [fate EXCEPT ![Head(chargerIn).n] = v]
      PROVE  FateInv' /\ CountInv'
  <2>1. /\ FateInv'
        /\ h \in 1..MaxUp /\ fate[h] = "socket" /\ fate'[h] = v
        /\ \A m \in 1..MaxUp : m # h => fate'[m] = fate[m]
    BY <1>9, FateRead
  <2>2. \A m \in 1..MaxUp : fate'[m] \in Written <=> fate[m] \in Written
    BY <2>1 DEF Written
  <2>3. \A m \in 1..MaxUp : fate'[m] \in {"abandoned"} <=> fate[m] \in {"abandoned"}
    BY <2>1
  <2>4. Cardinality(Fated(fate', Written)) = Cardinality(Fated(fate, Written))
    BY <2>2, FatedSame
  <2>5. Cardinality(Fated(fate', {"abandoned"})) = Cardinality(Fated(fate, {"abandoned"}))
    BY <2>3, FatedSame
  <2> QED BY <1>9, <2>1, <2>4, <2>5 DEF CountersFrom, CountInv
<1>10. {"thrown", "consumed", "verbatim", "lost", "ignored"} \subseteq
          Fates \ (Written \cup {"abandoned"})
  BY DEF Fates, Written
<1>11. CASE BackoffReadsFrame \/ AnswerConsumed
  <2>1. /\ chargerIn # <<>> /\ chargerIn' = Tail(chargerIn)
        /\ UNCHANGED <<upBuffer, upN, fwdUp, dropUp>>
        /\ \E v \in {"thrown", "consumed"} : fate' = [fate EXCEPT ![Head(chargerIn).n] = v]
    BY <1>11 DEF BackoffReadsFrame, AnswerConsumed, ChargerFrame, environment, metrics
  <2> QED BY <1>9, <1>10, <2>1
<1>12. CASE ForwardVerbatimUpstream \/ VerbatimUpstreamFails \/ IgnoreBinary
  <2>1. /\ chargerIn # <<>> /\ chargerIn' = Tail(chargerIn)
        /\ UNCHANGED <<upBuffer, upN, fwdUp, dropUp>>
        /\ \E v \in {"verbatim", "lost", "ignored"} :
              fate' = [fate EXCEPT ![Head(chargerIn).n] = v]
    BY <1>12 DEF ForwardVerbatimUpstream, VerbatimUpstreamFails, IgnoreBinary, ChargerFrame,
       environment, metrics
  <2> QED BY <1>9, <1>10, <2>1
<1>13. CASE ForwardUpstream
  <2>1. /\ chargerIn # <<>> /\ chargerIn' = Tail(chargerIn) /\ UNCHANGED <<upBuffer, upN, dropUp>>
        /\ fate' = [fate EXCEPT ![Head(chargerIn).n] = "forwarded"] /\ fwdUp' = fwdUp + 1
    BY <1>13 DEF ForwardUpstream, ChargerFrame, environment
  <2>2. /\ FateInv'
        /\ h \in 1..MaxUp /\ fate[h] = "socket" /\ fate'[h] = "forwarded"
        /\ \A m \in 1..MaxUp : m # h => fate'[m] = fate[m]
    BY <2>1, FateRead
  <2>3. Cardinality(Fated(fate', Written)) = Cardinality(Fated(fate, Written)) + 1
    <3>1. fate[h] \notin Written /\ fate'[h] \in Written
      BY <2>2 DEF Written
    <3> HIDE DEF h
    <3> QED BY <2>2, <3>1, FatedOneMore
  <2>4. \A m \in 1..MaxUp : fate'[m] \in {"abandoned"} <=> fate[m] \in {"abandoned"}
    BY <2>2
  <2>5. Cardinality(Fated(fate', {"abandoned"})) = Cardinality(Fated(fate, {"abandoned"}))
    BY <2>4, FatedSame
  <2> QED BY <2>1, <2>2, <2>3, <2>5 DEF CountersFrom, CountInv
<1>14. CASE ForwardUpstreamFails
  <2>1. /\ pc = "forwarding" /\ chargerIn # <<>> /\ chargerIn' = Tail(chargerIn)
        /\ UNCHANGED <<upN, fwdUp, dropUp>>
        /\ upBuffer' = buffer_upstream(upBuffer, Head(chargerIn))
        /\ fate' = [n \in 1..MaxUp |->
                  CASE n = h -> "buffered"
                    [] fate[n] = "buffered" /\ n \notin Numbers(upBuffer') -> "evicted"
                    [] OTHER -> fate[n]]
    BY <1>14 DEF ForwardUpstreamFails, ChargerFrame, environment, metrics
  <2>2. upBuffer = <<>>
    BY <2>1 DEF CountersFrom, BufferHoldsAtMostOne
  <2>3. upBuffer' = <<Buffered(Head(chargerIn))>>
    BY <2>1, <2>2 DEF buffer_upstream
  <2>4. Len(upBuffer') = 1 /\ upBuffer'[1].n = h
    BY <2>3 DEF Buffered
  <2>5. /\ 1 \in 1..Len(chargerIn) /\ h = chargerIn[1].n
        /\ \A j \in 1..Len(chargerIn') : /\ j + 1 \in 1..Len(chargerIn) /\ 1 < j + 1
                                         /\ chargerIn'[j] = chargerIn[j + 1]
    <3>1. chargerIn \in Seq(ChargerFrames) /\ chargerIn # <<>> /\ chargerIn' = Tail(chargerIn)
      BY <1>0, <2>1
    <3> QED BY <3>1
  <2>6. \A i \in 1..Len(chargerIn) : chargerIn[i].n \in 1..MaxUp
    <3>1. \A i \in 1..Len(chargerIn) : chargerIn[i] \in ChargerFrames
      BY <1>0
    <3> QED BY <3>1 DEF ChargerFrames
  <2>7. h \in 1..MaxUp /\ h <= upN /\ fate[h] = "socket" /\ fate'[h] = "buffered"
    <3>1. h \in 1..MaxUp BY <2>5, <2>6
    <3>2. h <= upN BY <2>5 DEF CountersFrom, UpstreamInv, SentBelow
    <3>3. fate[h] = "socket" BY <2>5 DEF CountersFrom, FateInv
    <3>4. fate'[h] = "buffered"
      <4>1. fate' = [n \in 1..MaxUp |->
                  CASE n = h -> "buffered"
                    [] fate[n] = "buffered" /\ n \notin Numbers(upBuffer') -> "evicted"
                    [] OTHER -> fate[n]]
        BY <2>1
      <4> HIDE DEF h
      <4> QED BY <3>1, <3>3, <4>1
    <3> QED BY <3>1, <3>2, <3>3, <3>4
  <2>8. \A m \in 1..MaxUp : m # h =>
           fate'[m] = fate[m] \/ (fate[m] = "buffered" /\ fate'[m] = "evicted")
    BY <2>1
  <2> HIDE DEF h
  <2>9. \A j \in 1..Len(chargerIn') : fate'[chargerIn'[j].n] = "socket"
    <3>1. \A j \in 1..Len(chargerIn') : chargerIn'[j].n \in 1..MaxUp /\ chargerIn'[j].n # h
      BY <2>5, <2>6 DEF CountersFrom, UpstreamInv, UpstreamInOrder, Ascending
    <3>2. \A j \in 1..Len(chargerIn') : fate[chargerIn'[j].n] = "socket"
      BY <2>5 DEF CountersFrom, FateInv
    <3> QED BY <2>8, <3>1, <3>2
  <2>10. \A n \in 1..MaxUp : n > upN' => fate'[n] = "unsent"
    BY <1>0, <2>1, <2>7, <2>8 DEF CountersFrom, FateInv
  <2>11. FateInv'
    BY <2>4, <2>7, <2>9, <2>10 DEF FateInv
  <2>12. \A m \in 1..MaxUp : /\ fate'[m] \in Written <=> fate[m] \in Written
                             /\ fate'[m] \in {"abandoned"} <=> fate[m] \in {"abandoned"}
    BY <2>7, <2>8 DEF Written
  <2>13. /\ Cardinality(Fated(fate', Written)) = Cardinality(Fated(fate, Written))
         /\ Cardinality(Fated(fate', {"abandoned"})) = Cardinality(Fated(fate, {"abandoned"}))
    BY <2>12, FatedSame
  <2> QED BY <2>1, <2>11, <2>13 DEF CountersFrom, CountInv
<1>15. CASE Housekeeping
  <2>1. /\ pc = "forwarding" /\ UNCHANGED <<chargerIn, upN, fwdUp, dropUp>>
        /\ upBuffer' = evict_expired_messages(upBuffer)
        /\ fate' = [n \in 1..MaxUp |->
                  IF fate[n] = "buffered" /\ n \notin Numbers(upBuffer')
                    THEN "evicted" ELSE fate[n]]
    BY <1>15 DEF Housekeeping, environment, metrics
  <2>2. upBuffer = <<>>
    BY <2>1 DEF CountersFrom, BufferHoldsAtMostOne
  <2>3. upBuffer' = <<>>
    BY <2>1, <2>2 DEF evict_expired_messages
  <2>4. \A m \in 1..MaxUp :
           fate'[m] = fate[m] \/ (fate[m] = "buffered" /\ fate'[m] = "evicted")
    BY <2>1
  <2>5. \A i \in 1..Len(chargerIn) : chargerIn[i].n \in 1..MaxUp
    <3>1. \A i \in 1..Len(chargerIn) : chargerIn[i] \in ChargerFrames
      BY <1>0
    <3> QED BY <3>1 DEF ChargerFrames
  <2>6. FateInv'
    BY <2>1, <2>3, <2>4, <2>5 DEF CountersFrom, FateInv
  <2>7. \A m \in 1..MaxUp : /\ fate'[m] \in Written <=> fate[m] \in Written
                            /\ fate'[m] \in {"abandoned"} <=> fate[m] \in {"abandoned"}
    BY <2>4 DEF Written
  <2>8. /\ Cardinality(Fated(fate', Written)) = Cardinality(Fated(fate, Written))
        /\ Cardinality(Fated(fate', {"abandoned"})) = Cardinality(Fated(fate, {"abandoned"}))
    BY <2>7, FatedSame
  <2> QED BY <2>1, <2>6, <2>8 DEF CountersFrom, CountInv
<1>16. CASE Tick
  <2>1. /\ UNCHANGED <<chargerIn, upN, fate, fwdUp, dropUp>>
        /\ upBuffer' = [i \in 1..Len(upBuffer) |-> AgedFrame(upBuffer[i])]
    BY <1>16 DEF Tick, environment, metrics
  <2>2. Len(upBuffer') = Len(upBuffer)
    BY <1>0, <2>1
  <2>3. \A i \in 1..Len(upBuffer') : upBuffer'[i].n = upBuffer[i].n
    BY <2>1, <2>2 DEF AgedFrame
  <2>4. FateInv'
    BY <2>1, <2>2, <2>3 DEF CountersFrom, FateInv
  <2> QED BY <2>1, <2>4 DEF CountersFrom, CountInv
<1>17. CASE ChargerSends \/ ChargerAnswers
  <2>1. PICK type, uid :
          /\ upN < MaxUp /\ upN' = upN + 1
          /\ chargerIn' = Append(chargerIn, Frame(upN + 1, type, uid))
          /\ fate' = [fate EXCEPT ![upN + 1] = "socket"]
          /\ UNCHANGED <<upBuffer, fwdUp, dropUp>>
    BY <1>17 DEF ChargerSends, ChargerAnswers, ChargerSendsFrame, sessionState, metrics
  <2> DEFINE f == Frame(upN + 1, type, uid)
  <2>2. f.n = upN + 1
    BY DEF Frame
  <2>3. chargerIn' = Append(chargerIn, f)
    BY <2>1
  <2> HIDE DEF f
  <2>4. /\ Len(chargerIn') = Len(chargerIn) + 1 /\ Len(chargerIn) \in Nat
        /\ \A i \in 1..Len(chargerIn) : chargerIn'[i] = chargerIn[i]
        /\ chargerIn'[Len(chargerIn) + 1] = f
    BY <1>0, <2>3
  <2>5. \A i \in 1..Len(chargerIn') : i \in 1..Len(chargerIn) \/ i = Len(chargerIn) + 1
    BY <2>4
  <2>6. /\ upN + 1 \in 1..MaxUp /\ fate[upN + 1] = "unsent" /\ fate'[upN + 1] = "socket"
        /\ \A m \in 1..MaxUp : m # upN + 1 => fate'[m] = fate[m]
    BY <1>0, <2>1 DEF CountersFrom, FateInv
  <2>7. \A i \in 1..Len(chargerIn) : chargerIn[i].n \in 1..MaxUp /\ chargerIn[i].n # upN + 1
    <3>1. \A i \in 1..Len(chargerIn) : chargerIn[i] \in ChargerFrames /\ chargerIn[i].n <= upN
      BY <1>0 DEF CountersFrom, UpstreamInv, SentBelow
    <3> QED BY <1>0, <3>1 DEF ChargerFrames
  <2>8. \A i \in 1..Len(upBuffer) : upBuffer[i].n \in 1..MaxUp /\ upBuffer[i].n # upN + 1
    <3>1. \A i \in 1..Len(upBuffer) : upBuffer[i].n <= upN
      BY DEF CountersFrom, UpstreamInv, SentBelow
    <3> QED BY <1>0, <1>1, <3>1
  <2>9. \A i \in 1..Len(chargerIn') : fate'[chargerIn'[i].n] = "socket"
    BY <2>2, <2>4, <2>5, <2>6, <2>7 DEF CountersFrom, FateInv
  <2>10. \A i \in 1..Len(upBuffer') : fate'[upBuffer'[i].n] = "buffered"
    BY <2>1, <2>6, <2>8 DEF CountersFrom, FateInv
  <2>11. \A n \in 1..MaxUp : n > upN' => fate'[n] = "unsent"
    BY <1>0, <2>1, <2>6 DEF CountersFrom, FateInv
  <2>12. FateInv'
    BY <2>9, <2>10, <2>11 DEF FateInv
  <2>13. \A m \in 1..MaxUp : /\ fate'[m] \in Written <=> fate[m] \in Written
                             /\ fate'[m] \in {"abandoned"} <=> fate[m] \in {"abandoned"}
    BY <2>6 DEF Written
  <2>14. /\ Cardinality(Fated(fate', Written)) = Cardinality(Fated(fate, Written))
         /\ Cardinality(Fated(fate', {"abandoned"})) = Cardinality(Fated(fate, {"abandoned"}))
    BY <2>13, FatedSame
  <2> QED BY <2>1, <2>12, <2>14 DEF CountersFrom, CountInv
\* The buffered frame, if there is one, is replayed or given up.
<1>18. ASSUME NEW v \in {"replayed", "abandoned"}, NEW b, b = 0 \/ b = 1, b = Len(upBuffer),
              fate' = [n \in 1..MaxUp |-> IF n \in Numbers(upBuffer) THEN v ELSE fate[n]],
              upBuffer' = <<>>, UNCHANGED <<chargerIn, upN>>,
              fwdUp' = IF v = "replayed" THEN fwdUp + b ELSE fwdUp,
              dropUp' = IF v = "abandoned" THEN dropUp + b ELSE dropUp
       PROVE  FateInv' /\ CountInv'
  <2>1. CASE b = 0
    <3>1. Numbers(upBuffer) = {}
      BY <1>18, <2>1 DEF Numbers
    <3>2. fate' = fate
      BY <1>0, <1>18, <3>1
    <3>3. upBuffer = <<>>
      <4>1. upBuffer \in Seq(BufferedFrames) /\ Len(upBuffer) = 0
        BY <1>0, <1>18, <2>1
      <4> QED BY <4>1
    <3>4. fwdUp' = fwdUp /\ dropUp' = dropUp
      BY <1>0, <1>18, <2>1
    <3> QED BY <1>2, <1>18, <3>2, <3>3, <3>4
  <2>2. CASE b = 1
    <3> DEFINE n == upBuffer[1].n
    <3>1. 1 \in 1..Len(upBuffer) /\ Numbers(upBuffer) = {n}
      BY <1>18, <2>2 DEF Numbers
    <3>2. n \in 1..MaxUp /\ fate[n] = "buffered" /\ n <= upN
      BY <1>1, <3>1 DEF CountersFrom, FateInv, UpstreamInv, SentBelow
    <3>3. fate'[n] = v /\ \A m \in 1..MaxUp : m # n => fate'[m] = fate[m]
      BY <1>18, <3>1, <3>2
    <3>4. \A j \in 1..Len(chargerIn) : chargerIn[j].n \in 1..MaxUp /\ chargerIn[j].n # n
      <4>1. \A j \in 1..Len(chargerIn) : chargerIn[j] \in ChargerFrames
        BY <1>0
      <4>2. \A j \in 1..Len(chargerIn) : n < chargerIn[j].n
        BY <3>1 DEF CountersFrom, UpstreamInv, UpstreamInOrder
      <4> QED BY <3>2, <4>1, <4>2 DEF ChargerFrames
    <3> HIDE DEF n
    <3>5. FateInv'
      <4>1. \A j \in 1..Len(chargerIn') : fate'[chargerIn'[j].n] = "socket"
        BY <1>18, <3>3, <3>4 DEF CountersFrom, FateInv
      <4>2. \A m \in 1..MaxUp : m > upN' => fate'[m] = "unsent"
        BY <1>0, <1>18, <3>2, <3>3 DEF CountersFrom, FateInv
      <4>3. Len(upBuffer') = 0
        BY <1>18
      <4> QED BY <4>1, <4>2, <4>3 DEF FateInv
    <3>6. CASE v = "replayed"
      <4>1. fate[n] \notin Written /\ fate'[n] \in Written
        BY <3>2, <3>3, <3>6 DEF Written
      <4>2. Cardinality(Fated(fate', Written)) = Cardinality(Fated(fate, Written)) + 1
        BY <3>2, <3>3, <4>1, FatedOneMore
      <4>3. \A m \in 1..MaxUp : fate'[m] \in {"abandoned"} <=> fate[m] \in {"abandoned"}
        BY <3>2, <3>3, <3>6
      <4>4. Cardinality(Fated(fate', {"abandoned"})) = Cardinality(Fated(fate, {"abandoned"}))
        BY <4>3, FatedSame
      <4> QED BY <1>18, <2>2, <3>5, <3>6, <4>2, <4>4 DEF CountersFrom, CountInv
    <3>7. CASE v = "abandoned"
      <4>1. fate[n] \notin {"abandoned"} /\ fate'[n] \in {"abandoned"}
        BY <3>2, <3>3, <3>7
      <4>2. Cardinality(Fated(fate', {"abandoned"})) = Cardinality(Fated(fate, {"abandoned"})) + 1
        BY <3>2, <3>3, <4>1, FatedOneMore
      <4>3. \A m \in 1..MaxUp : fate'[m] \in Written <=> fate[m] \in Written
        BY <3>2, <3>3, <3>7 DEF Written
      <4>4. Cardinality(Fated(fate', Written)) = Cardinality(Fated(fate, Written))
        BY <4>3, FatedSame
      <4> QED BY <1>18, <2>2, <3>5, <3>7, <4>2, <4>4 DEF CountersFrom, CountInv
    <3> QED BY <3>6, <3>7
  <2> QED BY <1>18, <2>1, <2>2
<1>19. Len(upBuffer) = 0 \/ Len(upBuffer) = 1
  <2>1. Len(upBuffer) \in Nat /\ Len(upBuffer) <= 1
    BY <1>0
  <2>2. \A x \in Nat : x <= 1 => x = 0 \/ x = 1
    OBVIOUS
  <2> QED BY <2>1, <2>2
<1>20. CASE Teardown
  <2>1. /\ fate' = [n \in 1..MaxUp |-> IF n \in Numbers(upBuffer) THEN "abandoned" ELSE fate[n]]
        /\ upBuffer' = <<>> /\ UNCHANGED <<chargerIn, upN, fwdUp>>
        /\ dropUp' = dropUp + Len(upBuffer)
    BY <1>20 DEF Teardown, environment
  <2> QED BY <1>18, <1>19, <2>1
<1>21. ASSUME NEW k \in 0..Len(upBuffer), FlushUpstream(k) PROVE FateInv' /\ CountInv'
  <2> DEFINE sent == {upBuffer[i] : i \in 1..k}
  <2>1. /\ upBuffer' = SubSeq(upBuffer, k + 1, Len(upBuffer))
        /\ fate' = [n \in 1..MaxUp |->
                      IF n \in {f.n : f \in sent} THEN "replayed" ELSE fate[n]]
        /\ fwdUp' = IF k = Len(upBuffer) THEN fwdUp + k ELSE fwdUp
        /\ UNCHANGED <<chargerIn, upN, dropUp>>
    BY <1>21 DEF FlushUpstream, LeftAfterFlush, CountReplayed, environment
  <2>2. CASE k = Len(upBuffer)
    <3>1. upBuffer' = <<>>
      BY <1>0, <2>1, <2>2
    <3>2. {f.n : f \in sent} = Numbers(upBuffer)
      BY <2>2 DEF Numbers
    <3> HIDE DEF sent
    <3>3. fate' = [n \in 1..MaxUp |-> IF n \in Numbers(upBuffer) THEN "replayed" ELSE fate[n]]
      BY <2>1, <3>2
    <3> QED BY <1>18, <1>19, <2>1, <2>2, <3>1, <3>3
  <2>3. CASE k # Len(upBuffer)
    <3>1. k = 0
      BY <1>0, <1>21, <2>3
    <3>2. upBuffer' = upBuffer
      BY <1>0, <2>1, <3>1
    <3>3. sent = {}
      BY <3>1
    <3>4. fate' = fate
      BY <1>0, <2>1, <3>3
    <3> QED BY <1>2, <2>1, <2>3, <3>2, <3>4
  <2> QED BY <2>2, <2>3
<1> QED
  BY <1>3, <1>4, <1>5, <1>6, <1>7, <1>8, <1>11, <1>12, <1>13, <1>14, <1>15, <1>16, <1>17,
     <1>20, <1>21 DEF Next, SessionStep, EnvironmentStep

\* What the counters count, whatever fails: every parsed frame written upstream
\* once, at its first writing or when the buffer is replayed, and as dropped
\* what is buffered when the session ends, and nothing else.  A replay that
\* stops half way would not be counted; the buffer never holds enough for that.
THEOREM WhatIsCounted == Spec => []CountedOnce
<1>1. Init => FateInv /\ CountInv
  <2> SUFFICES ASSUME Init PROVE FateInv /\ CountInv
    OBVIOUS
  <2>1. /\ fate = [n \in 1..MaxUp |-> "unsent"] /\ fwdUp = 0 /\ dropUp = 0
        /\ chargerIn = <<>> /\ upBuffer = <<>>
    BY DEF Init
  <2>2. Fated(fate, Written) = {} /\ Fated(fate, {"abandoned"}) = {}
    BY <2>1 DEF Fated, Written
  <2>3. CountInv
    BY <2>1, <2>2, FS_EmptySet DEF CountInv
  <2>4. FateInv
    BY <2>1 DEF FateInv
  <2> QED BY <2>3, <2>4
<1>2. TypeOK /\ BufferHoldsAtMostOne /\ UpstreamInv /\ FateInv /\ CountInv /\ [Next]_vars =>
         (FateInv /\ CountInv)'
  <2>1. ASSUME FateInv, CountInv, UNCHANGED vars PROVE (FateInv /\ CountInv)'
    BY <2>1 DEF FateInv, CountInv, vars, environment, metrics, history
  <2>2. ASSUME CountersFrom, Next PROVE (FateInv /\ CountInv)'
    BY <2>2, CountersStep
  <2> QED BY <2>1, <2>2 DEF CountersFrom
<1>3. CountInv => CountedOnce
  <2>1. /\ Fated(fate, Written) = {n \in 1..MaxUp : fate[n] \in {"forwarded", "replayed"}}
        /\ Fated(fate, {"abandoned"}) = {n \in 1..MaxUp : fate[n] = "abandoned"}
    BY DEF Fated, Written
  <2> QED BY <2>1 DEF CountInv, CountedOnce
<1> QED BY <1>1, <1>2, <1>3, TypeCorrect, BufferBound, UpstreamInductive, PTL DEF Spec
=============================================================================
