--------------------------- MODULE StandingProofs ---------------------------
(***************************************************************************)
(* Theorems about StandingLimit.tla, for all limits asked for, bounds of   *)
(* the channels and numbers of commands, restarts and reboots: what may be *)
(* re-applied, and what is shown once things have settled.                 *)
(***************************************************************************)
EXTENDS StandingLimit, SequenceTheorems, TLAPS

USE StandingAssumption

\* Requests and events that carry no limit the charger has not accepted.
SoundRequests == {req \in Requests : AcceptedBefore(req)}
SoundEvents ==
    {e \in Events : e.status = "Accepted" => resolve_limit(e.req.val) \in taken}

\* Nothing that could become a re-application holds another limit: the
\* snapshot, its file, the results on their way to it and what was re-applied.
LimitsTaken ==
    /\ \A limit \in taken : resolve_limit(limit) = limit
    /\ snap.limit \in taken \cup {NoLimit} /\ file.limit \in taken \cup {NoLimit}
    /\ events \in Seq(SoundEvents) /\ answers \in Seq(SoundEvents)
    /\ inbox \in Seq(SoundRequests) /\ wire \in Seq(SoundRequests)
    /\ queued \in SoundRequests \cup {NoRequest}
    /\ flight \in SoundRequests \cup {NoRequest}

\* TypeOK without what LimitsTaken says already.
PlainTypes ==
    /\ snap \in Snapshots /\ file \in Snapshots
    /\ wasUp \in BOOLEAN /\ users \in 0..MaxUser /\ reapplied \in Nat
    /\ session \in {"none", "starting", "up", "closing"}
    /\ profile \in Values /\ present \in BOOLEAN
    /\ ends \in 0..MaxEnds
    /\ taken \subseteq Values /\ dropped \in BOOLEAN

\* The inductive invariant.
StandingInv == PlainTypes /\ LimitsTaken

\* What resolve_limit returns is a limit, and resolving it again changes nothing.
LEMMA ResolveOnce ==
    ASSUME NEW val \in Values
    PROVE  /\ resolve_limit(val) \in Values
           /\ resolve_limit(resolve_limit(val)) = resolve_limit(val)
BY DEF resolve_limit, Values, StandingAssumption

\* Emit adds some of the events it is given to the channel.
LEMMA EmitKeeps ==
    ASSUME NEW S, NEW es \in Seq(S), events \in Seq(S), dropped \in BOOLEAN, Emit(es)
    PROVE  events' \in Seq(S) /\ dropped' \in BOOLEAN
<1> DEFINE all == events \o es
<1>1. all \in Seq(S) /\ Len(all) \in Nat /\ EventCap \in Nat \ {0}
  BY ConcatProperties, LenProperties DEF StandingAssumption
<1>2. CASE events' = all /\ dropped' = dropped
  BY <1>1, <1>2, Zenon
<1>3. CASE Len(all) > EventCap /\ events' = SubSeq(all, 1, EventCap) /\ dropped' = TRUE
  <2>1. \A i \in 1..EventCap : all[i] \in S
    BY <1>1, <1>3, ElementOfSeq
  <2>2. 1 \in Int /\ EventCap \in Int
    BY <1>1
  <2>3. SubSeq(all, 1, EventCap) \in Seq(S)
    BY <2>1, <2>2, SubSeqProperties, Zenon
  <2> QED BY <1>3, <2>3, Zenon
<1> QED BY <1>2, <1>3, Zenon DEF Emit

\* Whether a request or an event is sound depends on nothing but taken.
LEMMA SoundSame ==
    ASSUME taken' = taken
    PROVE  SoundRequests' = SoundRequests /\ SoundEvents' = SoundEvents
BY DEF SoundRequests, SoundEvents, AcceptedBefore

\* A result other than Accepted, and a link event, carry no limit.
LEMMA ResultSound ==
    ASSUME NEW req \in Requests \cup {NoRequest}, NEW status \in Statuses \ {"Accepted"}
    PROVE  Result(req, status) \in SoundEvents
BY DEF Result, SoundEvents, Events, Statuses

\* An event about the link carries no limit.
LEMMA LinkSound ==
    ASSUME NEW up \in BOOLEAN
    PROVE  Link(up) \in SoundEvents
BY DEF Link, SoundEvents, Events

\* The snapshot and its file only ever take over limits the charger accepted.
LEMMA PublishKeeps ==
    ASSUME StandingInv, NEW req \in Requests \cup {NoRequest}, NEW status \in Statuses \cup {"none"},
           status = "Accepted" => resolve_limit(req.val) \in taken,
           publish_command_result(req, status)
    PROVE  /\ snap' \in Snapshots /\ file' \in Snapshots
           /\ snap'.limit \in taken \cup {NoLimit} /\ file'.limit \in taken \cup {NoLimit}
<1>1. snap \in Snapshots /\ file \in Snapshots /\ taken \subseteq Values
  BY DEF StandingInv, PlainTypes
<1>2. snap.limit \in taken \cup {NoLimit} /\ file.limit \in taken \cup {NoLimit}
  BY DEF StandingInv, LimitsTaken
<1>3. snap' \in Snapshots /\ snap'.limit \in taken \cup {NoLimit}
  BY <1>1, <1>2 DEF publish_command_result, apply_command_result, Snapshots, Values
<1> QED BY <1>1, <1>2, <1>3 DEF publish_command_result

\* dispatch_command hands on a sound request, or shows its failure, and keeps
\* the limit shown.
LEMMA DispatchKeeps ==
    ASSUME StandingInv, NEW req \in SoundRequests, dispatch_command(req)
    PROVE  /\ snap' \in Snapshots /\ file' \in Snapshots
           /\ snap'.limit \in taken \cup {NoLimit} /\ file'.limit \in taken \cup {NoLimit}
           /\ inbox' \in Seq(SoundRequests)
<1>0. /\ req \in Requests \cup {NoRequest} /\ {"NotConnected", "Rejected"} \subseteq Statuses
      /\ inbox \in Seq(SoundRequests)
  BY DEF SoundRequests, Statuses, StandingInv, LimitsTaken
<1>1. CASE publish_command_result(req, "NotConnected") /\ UNCHANGED inbox
  BY <1>0, <1>1, PublishKeeps
<1>2. CASE publish_command_result(req, "Rejected") /\ UNCHANGED inbox
  BY <1>0, <1>2, PublishKeeps
<1>3. CASE inbox' = Append(inbox, req) /\ UNCHANGED <<snap, file>>
  BY <1>0, <1>3, AppendProperties DEF StandingInv, PlainTypes, LimitsTaken
<1> QED BY <1>1, <1>2, <1>3, Zenon DEF dispatch_command

\* send_local_calls moves its slot to the wire, or to a result.
LEMMA SendKeeps ==
    ASSUME StandingInv, NEW q \in SoundRequests \cup {NoRequest},
           NEW f \in SoundRequests \cup {NoRequest}, NEW es \in Seq(SoundEvents),
           SendLocalCalls(q, f, es)
    PROVE  /\ queued' \in SoundRequests \cup {NoRequest}
           /\ flight' \in SoundRequests \cup {NoRequest}
           /\ wire' \in Seq(SoundRequests)
           /\ events' \in Seq(SoundEvents) /\ dropped' \in BOOLEAN
<1>0. /\ wire \in Seq(SoundRequests) /\ events \in Seq(SoundEvents) /\ dropped \in BOOLEAN
  BY DEF StandingInv, PlainTypes, LimitsTaken
<1>1. CASE queued' = q /\ flight' = f /\ Emit(es) /\ UNCHANGED wire
  BY <1>0, <1>1, EmitKeeps, Zenon
<1>2. CASE /\ queued' = NoRequest /\ flight' = NoRequest
           /\ Emit(Append(es, Result(q, "Invalid"))) /\ UNCHANGED wire
  <2>1. Result(q, "Invalid") \in SoundEvents
    BY ResultSound DEF Statuses, SoundRequests
  <2>2. Append(es, Result(q, "Invalid")) \in Seq(SoundEvents)
    BY <2>1, AppendProperties
  <2> QED BY <1>0, <1>2, <2>2, EmitKeeps, Zenon
<1>3. CASE /\ q # NoRequest /\ queued' = NoRequest /\ flight' = q
           /\ wire' = Append(wire, q) /\ Emit(es)
  <2>1. wire' \in Seq(SoundRequests)
    BY <1>0, <1>3, AppendProperties
  <2> QED BY <1>0, <1>3, <2>1, EmitKeeps, Zenon
<1> QED BY <1>1, <1>2, <1>3, Zenon DEF SendLocalCalls

\* Every action keeps the invariant.
LEMMA StandingStep ==
    ASSUME StandingInv, Next
    PROVE  StandingInv'
<1> USE DEF publisher, local, charger, history
<1>0. PlainTypes /\ LimitsTaken
  BY DEF StandingInv
<1>1. ASSUME NEW v \in Asked \cup {NoLimit}, UserCommands(v) PROVE StandingInv'
  <2> DEFINE req == [by |-> "user", n |-> users + 1, val |-> v]
  <2>1. req \in SoundRequests
    BY <1>0 DEF SoundRequests, Requests, Sources, Values, AcceptedBefore, PlainTypes,
               StandingAssumption
  <2>2. dispatch_command(req) /\ users < MaxUser /\ users' = users + 1
    BY <1>1 DEF UserCommands
  <2>3. PlainTypes'
    BY <1>0, <1>1, <2>1, <2>2, DispatchKeeps DEF PlainTypes, UserCommands, StandingAssumption
  <2>4. LimitsTaken'
    BY <1>0, <1>1, <2>1, <2>2, DispatchKeeps, SoundSame DEF LimitsTaken, UserCommands
  <2> QED BY <2>3, <2>4 DEF StandingInv
<1>2. CASE HandleResult
  <2>1. Head(events) \in SoundEvents /\ Tail(events) \in Seq(SoundEvents)
    BY <1>0, <1>2, HeadTailProperties DEF LimitsTaken, HandleResult
  <2> DEFINE req == Head(events).req
             status == Head(events).status
  <2>2. /\ req \in Requests \cup {NoRequest} /\ status \in Statuses \cup {"none"}
        /\ status = "Accepted" => resolve_limit(req.val) \in taken
    BY <2>1 DEF SoundEvents, Events
  <2>3. publish_command_result(req, status)
    BY <1>2 DEF HandleResult
  <2> HIDE DEF req, status
  <2>4. /\ snap' \in Snapshots /\ file' \in Snapshots
        /\ snap'.limit \in taken \cup {NoLimit} /\ file'.limit \in taken \cup {NoLimit}
    BY <2>2, <2>3, PublishKeeps, Zenon
  <2>5. PlainTypes'
    BY <1>0, <1>2, <2>4 DEF PlainTypes, HandleResult
  <2>6. LimitsTaken'
    BY <1>0, <1>2, <2>1, <2>4, SoundSame DEF LimitsTaken, HandleResult
  <2> QED BY <2>5, <2>6 DEF StandingInv
<1>3. CASE HandleMessage
  BY <1>0, <1>3, SoundSame DEF StandingInv, PlainTypes, LimitsTaken, HandleMessage
<1>4. CASE HandleLink
  <2>1. Head(events) \in SoundEvents /\ Tail(events) \in Seq(SoundEvents)
    BY <1>0, <1>4, HeadTailProperties DEF LimitsTaken, HandleLink
  <2>2. Head(events).up \in BOOLEAN
    BY <2>1 DEF SoundEvents, Events
  <2>3. CASE Stands /\ reapplied' = reapplied + 1
             /\ dispatch_command([by |-> "reapply", n |-> reapplied + 1, val |-> snap.limit])
    <3> DEFINE req == [by |-> "reapply", n |-> reapplied + 1, val |-> snap.limit]
    <3>1. req \in SoundRequests
      BY <1>0, <2>3 DEF SoundRequests, Requests, Sources, AcceptedBefore, PlainTypes,
                       LimitsTaken, Stands, Snapshots
    <3>2. PlainTypes'
      BY <1>0, <1>4, <2>2, <2>3, <3>1, DispatchKeeps DEF PlainTypes, HandleLink
    <3>3. LimitsTaken'
      BY <1>0, <1>4, <2>1, <2>3, <3>1, DispatchKeeps, SoundSame DEF LimitsTaken, HandleLink
    <3> QED BY <3>2, <3>3 DEF StandingInv
  <2>4. CASE UNCHANGED <<reapplied, snap, file, inbox>>
    <3>1. PlainTypes'
      BY <1>0, <1>4, <2>2, <2>4 DEF PlainTypes, HandleLink
    <3>2. LimitsTaken'
      BY <1>0, <1>4, <2>1, <2>4, SoundSame DEF LimitsTaken, HandleLink
    <3> QED BY <3>1, <3>2 DEF StandingInv
  <2> QED BY <1>4, <2>3, <2>4, Zenon DEF HandleLink
<1>5. CASE SessionStarts \/ LinkUp \/ LinkDown
  <2>1. PICK up \in BOOLEAN : Emit(<<Link(up)>>)
    BY <1>5, Zenon DEF SessionStarts, LinkUp, LinkDown
  <2>2. <<Link(up)>> \in Seq(SoundEvents)
    BY LinkSound
  <2>3. events' \in Seq(SoundEvents) /\ dropped' \in BOOLEAN
    BY <1>0, <2>1, <2>2, EmitKeeps, Zenon DEF PlainTypes, LimitsTaken
  <2>4. PlainTypes'
    <3>1. UNCHANGED <<snap, file, wasUp, users, reapplied, profile, taken>>
      BY <1>5 DEF SessionStarts, LinkUp, LinkDown
    <3>2. session' \in {"starting", "up"} /\ ends' \in 0..MaxEnds
      BY <1>0, <1>5 DEF PlainTypes, SessionStarts, LinkUp, LinkDown, StandingAssumption
    <3>3. present' \in BOOLEAN
      BY <1>0, <1>5, Zenon DEF PlainTypes, SessionStarts, LinkUp, LinkDown
    <3> QED BY <1>0, <2>3, <3>1, <3>2, <3>3 DEF PlainTypes
  <2>5. LimitsTaken'
    BY <1>0, <1>5, <2>3, SoundSame DEF LimitsTaken, SessionStarts, LinkUp, LinkDown
  <2> QED BY <2>4, <2>5 DEF StandingInv
<1>6. CASE ReceiveCommand
  <2>1. Head(inbox) \in SoundRequests /\ Tail(inbox) \in Seq(SoundRequests)
    BY <1>0, <1>6, HeadTailProperties DEF LimitsTaken, ReceiveCommand
  <2> DEFINE es == IF queued = NoRequest THEN <<>> ELSE <<Result(queued, "Superseded")>>
  <2>2. Result(queued, "Superseded") \in SoundEvents
    BY <1>0, ResultSound DEF LimitsTaken, SoundRequests, Statuses
  <2>3. es \in Seq(SoundEvents)
    BY <2>2
  <2>4. SendLocalCalls(Head(inbox), flight, es)
    BY <1>6 DEF ReceiveCommand
  <2> HIDE DEF es
  <2>5. /\ queued' \in SoundRequests \cup {NoRequest} /\ flight' \in SoundRequests \cup {NoRequest}
        /\ wire' \in Seq(SoundRequests)
        /\ events' \in Seq(SoundEvents) /\ dropped' \in BOOLEAN
    BY <1>0, <2>1, <2>3, <2>4, SendKeeps, Zenon DEF LimitsTaken
  <2>6. PlainTypes'
    BY <1>0, <1>6, <2>5 DEF PlainTypes, ReceiveCommand
  <2>7. LimitsTaken'
    BY <1>0, <1>6, <2>1, <2>5, SoundSame DEF LimitsTaken, ReceiveCommand
  <2> QED BY <2>6, <2>7 DEF StandingInv
<1>7. CASE AnswerArrives
  <2>1. Head(answers) \in SoundEvents /\ Tail(answers) \in Seq(SoundEvents)
    BY <1>0, <1>7, HeadTailProperties DEF LimitsTaken, AnswerArrives
  <2>2. /\ queued' \in SoundRequests \cup {NoRequest} /\ flight' \in SoundRequests \cup {NoRequest}
        /\ wire' \in Seq(SoundRequests)
        /\ events' \in Seq(SoundEvents) /\ dropped' \in BOOLEAN
    <3>1. CASE SendLocalCalls(queued, NoRequest, <<Head(answers)>>)
      <4>1. <<Head(answers)>> \in Seq(SoundEvents)
        BY <2>1
      <4> QED BY <1>0, <3>1, <4>1, SendKeeps, Zenon DEF LimitsTaken
    <3>2. CASE UNCHANGED <<local, events, wire, dropped>>
      BY <1>0, <3>2 DEF LimitsTaken, PlainTypes
    <3> QED BY <1>7, <3>1, <3>2, Zenon DEF AnswerArrives
  <2>3. PlainTypes'
    BY <1>0, <1>7, <2>2 DEF PlainTypes, AnswerArrives
  <2>4. LimitsTaken'
    BY <1>0, <1>7, <2>1, <2>2, SoundSame DEF LimitsTaken, AnswerArrives
  <2> QED BY <2>3, <2>4 DEF StandingInv
<1>8. CASE AnswerThrownAway
  <2>1. Tail(answers) \in Seq(SoundEvents)
    BY <1>0, <1>8, HeadTailProperties DEF LimitsTaken, AnswerThrownAway
  <2>2. PlainTypes'
    BY <1>0, <1>8 DEF PlainTypes, AnswerThrownAway
  <2>3. LimitsTaken'
    BY <1>0, <1>8, <2>1, SoundSame DEF LimitsTaken, AnswerThrownAway
  <2> QED BY <2>2, <2>3 DEF StandingInv
<1>9. CASE CommandTick
  <2> DEFINE Gone(now, was) == IF now = was THEN <<>> ELSE <<Result(was, "Timeout")>>
  <2>1. PICK q \in {queued, NoRequest}, f \in {flight, NoRequest} :
             SendLocalCalls(q, f, Gone(q, queued) \o Gone(f, flight))
    BY <1>9, Zenon DEF CommandTick
  <2>2. Gone(q, queued) \in Seq(SoundEvents) /\ Gone(f, flight) \in Seq(SoundEvents)
    <3>1. /\ Result(queued, "Timeout") \in SoundEvents
          /\ Result(flight, "Timeout") \in SoundEvents
      BY <1>0, ResultSound DEF LimitsTaken, SoundRequests, Statuses
    <3> QED BY <3>1
  <2> HIDE DEF Gone
  <2>3. Gone(q, queued) \o Gone(f, flight) \in Seq(SoundEvents)
    BY <2>2, ConcatProperties
  <2>4. /\ queued' \in SoundRequests \cup {NoRequest} /\ flight' \in SoundRequests \cup {NoRequest}
        /\ wire' \in Seq(SoundRequests)
        /\ events' \in Seq(SoundEvents) /\ dropped' \in BOOLEAN
    <3>1. q \in SoundRequests \cup {NoRequest} /\ f \in SoundRequests \cup {NoRequest}
      BY <1>0 DEF LimitsTaken
    <3> QED BY <2>1, <2>3, <3>1, SendKeeps, Zenon
  <2>5. PlainTypes'
    BY <1>0, <1>9, <2>4 DEF PlainTypes, CommandTick
  <2>6. LimitsTaken'
    BY <1>0, <1>9, <2>4, SoundSame DEF LimitsTaken, CommandTick
  <2> QED BY <2>5, <2>6 DEF StandingInv
<1>10. CASE Teardown
  <2> DEFINE late == [i \in 1..Len(inbox) |-> Result(inbox[i], "NotConnected")]
             waiting == IF queued = NoRequest THEN <<>> ELSE <<Result(queued, "NotConnected")>>
             sent == IF flight = NoRequest THEN <<>> ELSE <<Result(flight, "Timeout")>>
  <2>1. late \in Seq(SoundEvents)
    <3>1. \A i \in 1..Len(inbox) : Result(inbox[i], "NotConnected") \in SoundEvents
      BY <1>0, ElementOfSeq, ResultSound DEF LimitsTaken, SoundRequests, Statuses
    <3>2. Len(inbox) \in Nat
      BY <1>0, LenProperties DEF LimitsTaken
    <3> QED BY <3>1, <3>2
  <2>2. waiting \in Seq(SoundEvents) /\ sent \in Seq(SoundEvents)
    <3>1. /\ Result(queued, "NotConnected") \in SoundEvents
          /\ Result(flight, "Timeout") \in SoundEvents
      BY <1>0, ResultSound DEF LimitsTaken, SoundRequests, Statuses
    <3> QED BY <3>1
  <2>3. Emit(waiting \o sent \o late)
    BY <1>10 DEF Teardown
  <2> HIDE DEF late, waiting, sent
  <2>4. waiting \o sent \o late \in Seq(SoundEvents)
    BY <2>1, <2>2, ConcatProperties
  <2>5. events' \in Seq(SoundEvents) /\ dropped' \in BOOLEAN
    BY <1>0, <2>3, <2>4, EmitKeeps, Zenon DEF PlainTypes, LimitsTaken
  <2>6. ends' \in 0..MaxEnds
    BY <1>0, <1>10 DEF PlainTypes, Teardown, StandingAssumption
  <2>7. PlainTypes'
    BY <1>0, <1>10, <2>5, <2>6 DEF PlainTypes, Teardown
  <2>8. LimitsTaken'
    BY <1>0, <1>10, <2>5, SoundSame, EmptySeq DEF LimitsTaken, Teardown
  <2> QED BY <2>7, <2>8 DEF StandingInv
<1>11. CASE SessionEnds
  <2>1. <<Link(FALSE)>> \in Seq(SoundEvents)
    <3>1. ASSUME NEW e \in SoundEvents PROVE <<e>> \in Seq(SoundEvents)
      OBVIOUS
    <3>2. Link(FALSE) \in SoundEvents
      BY LinkSound, Zenon
    <3> QED BY <3>1, <3>2, Zenon
  <2>2. events' \in Seq(SoundEvents) /\ dropped' \in BOOLEAN
    BY <1>0, <1>11, <2>1, EmitKeeps, Zenon DEF PlainTypes, LimitsTaken, SessionEnds
  <2>3. PlainTypes'
    BY <1>0, <1>11, <2>2 DEF PlainTypes, SessionEnds
  <2>4. LimitsTaken'
    BY <1>0, <1>11, <2>2, SoundSame, EmptySeq DEF LimitsTaken, SessionEnds
  <2> QED BY <2>3, <2>4 DEF StandingInv
<1>12. ASSUME NEW status \in {"Accepted", "Rejected"}, ChargerAnswers(status)
       PROVE  StandingInv'
  <2> DEFINE req == Head(wire)
             limit == resolve_limit(req.val)
  <2>1. req \in SoundRequests /\ Tail(wire) \in Seq(SoundRequests)
    BY <1>0, <1>12, HeadTailProperties DEF LimitsTaken, ChargerAnswers
  <2>2. req \in Requests /\ limit \in Values /\ resolve_limit(limit) = limit
    <3>1. req \in Requests /\ req.val \in Values
      BY <2>1 DEF SoundRequests, Requests
    <3> QED BY <3>1, ResolveOnce
  <2>3. \/ status = "Accepted" /\ profile' = limit /\ taken' = taken \cup {limit}
        \/ status = "Rejected" /\ profile' = profile /\ taken' = taken
    BY <1>12 DEF ChargerAnswers
  <2>4. Result(req, status) \in SoundEvents'
    BY <2>2, <2>3 DEF Result, SoundEvents, Events, Statuses
  <2> HIDE DEF req, limit
  <2>5. SoundRequests \subseteq SoundRequests' /\ SoundEvents \subseteq SoundEvents'
    BY <2>3 DEF SoundRequests, SoundEvents, AcceptedBefore
  <2>6. PlainTypes'
    BY <1>0, <1>12, <2>2, <2>3 DEF PlainTypes, ChargerAnswers
  <2>7. /\ events \in Seq(SoundEvents') /\ answers \in Seq(SoundEvents')
        /\ inbox \in Seq(SoundRequests') /\ Tail(wire) \in Seq(SoundRequests')
    BY <1>0, <2>1, <2>5, SeqMonotonic, Zenon DEF LimitsTaken
  <2>8. Append(answers, Result(req, status)) \in Seq(SoundEvents')
    BY <2>4, <2>7, AppendProperties, Zenon
  <2>9. LimitsTaken'
    <3>1. answers' = Append(answers, Result(req, status)) /\ wire' = Tail(wire)
      BY <1>12 DEF ChargerAnswers, req
    <3>2. UNCHANGED <<snap, file, events, inbox, queued, flight>>
      BY <1>12 DEF ChargerAnswers
    <3>3. \A l \in taken' : resolve_limit(l) = l
      BY <1>0, <2>2, <2>3 DEF LimitsTaken
    <3>4. snap.limit \in taken' \cup {NoLimit} /\ file.limit \in taken' \cup {NoLimit}
      BY <1>0, <2>3 DEF LimitsTaken
    <3>5. /\ queued \in SoundRequests' \cup {NoRequest}
          /\ flight \in SoundRequests' \cup {NoRequest}
      BY <1>0, <2>5 DEF LimitsTaken
    <3> QED BY <2>7, <2>8, <3>1, <3>2, <3>3, <3>4, <3>5 DEF LimitsTaken
  <2> QED BY <2>6, <2>9 DEF StandingInv
<1>13. CASE ChargerReboots
  <2>1. PlainTypes'
    <3>1. ends' \in 0..MaxEnds /\ profile' \in Values
      BY <1>0, <1>13 DEF PlainTypes, ChargerReboots, Values, StandingAssumption
    <3>2. present' \in BOOLEAN
      BY <1>13, Zenon DEF ChargerReboots
    <3> QED BY <1>0, <1>13, <3>1, <3>2 DEF PlainTypes, ChargerReboots
  <2>2. LimitsTaken'
    BY <1>0, <1>13, SoundSame, EmptySeq DEF LimitsTaken, ChargerReboots
  <2> QED BY <2>1, <2>2 DEF StandingInv
<1>14. CASE ProxyRestarts
  <2>1. snap' \in Snapshots /\ snap'.limit \in taken \cup {NoLimit}
    BY <1>0, <1>14 DEF PlainTypes, LimitsTaken, ProxyRestarts, load, Blank, Snapshots, Values
  <2>2. PlainTypes'
    <3>1. ends' \in 0..MaxEnds
      BY <1>0, <1>14 DEF PlainTypes, ProxyRestarts, StandingAssumption
    <3>2. present' \in BOOLEAN /\ wasUp' \in BOOLEAN
      BY <1>14, Zenon DEF ProxyRestarts
    <3> QED BY <1>0, <1>14, <2>1, <3>1, <3>2 DEF PlainTypes, ProxyRestarts
  <2>3. LimitsTaken'
    BY <1>0, <1>14, <2>1, SoundSame, EmptySeq DEF LimitsTaken, ProxyRestarts
  <2> QED BY <2>2, <2>3 DEF StandingInv
<1>15. CASE Idle
  BY <1>0, <1>15, SoundSame DEF Idle, vars, StandingInv, PlainTypes, LimitsTaken
<1> QED BY <1>1, <1>2, <1>3, <1>4, <1>5, <1>6, <1>7, <1>8, <1>9, <1>10, <1>11, <1>12,
          <1>13, <1>14, <1>15, Zenon DEF Next

\* StandingInv holds in every reachable state.
LEMMA StandingInvariant == Spec => []StandingInv
<1>1. Init => StandingInv
  <2> SUFFICES ASSUME Init PROVE StandingInv
    OBVIOUS
  <2>1. PlainTypes
    <3>1. wasUp \in BOOLEAN /\ present \in BOOLEAN /\ dropped \in BOOLEAN
      BY Zenon DEF Init
    <3>2. snap \in Snapshots /\ file \in Snapshots /\ profile \in Values
      BY DEF Init, Snapshots, Blank, Values
    <3>3. users \in 0..MaxUser /\ reapplied \in Nat /\ ends \in 0..MaxEnds
      BY DEF Init, StandingAssumption
    <3> QED BY <3>1, <3>2, <3>3 DEF Init, PlainTypes
  <2>2. LimitsTaken
    BY EmptySeq DEF Init, LimitsTaken, Blank
  <2> QED BY <2>1, <2>2 DEF StandingInv
<1>2. StandingInv /\ [Next]_vars => StandingInv'
  <2> SUFFICES ASSUME StandingInv, [Next]_vars PROVE StandingInv'
    OBVIOUS
  <2>1. CASE UNCHANGED vars
    BY <2>1, SoundSame DEF vars, publisher, local, charger, history, StandingInv,
                          PlainTypes, LimitsTaken
  <2> QED BY <2>1, StandingStep
<1> QED BY <1>1, <1>2, PTL DEF Spec

\* The publisher, its file, the session and the charger stay well typed.
THEOREM StandingTypes == Spec => []TypeOK
<1>1. StandingInv => TypeOK
  <2> SUFFICES ASSUME StandingInv PROVE TypeOK
    OBVIOUS
  <2>1. SoundEvents \subseteq Events /\ SoundRequests \subseteq Requests
    BY DEF SoundEvents, SoundRequests
  <2>2. /\ events \in Seq(Events) /\ answers \in Seq(Events)
        /\ inbox \in Seq(Requests) /\ wire \in Seq(Requests)
    BY <2>1, SeqMonotonic, Zenon DEF StandingInv, LimitsTaken
  <2> QED BY <2>1, <2>2 DEF StandingInv, PlainTypes, LimitsTaken, TypeOK
<1> QED BY <1>1, StandingInvariant, PTL

\* maybe_reapply_limit never installs a limit the charger has not accepted
\* before.
THEOREM OnlyAcceptedIsReapplied == Spec => []ReapplyOnlyAccepted
<1>1. StandingInv => ReapplyOnlyAccepted
  <2> SUFFICES ASSUME StandingInv PROVE ReapplyOnlyAccepted
    OBVIOUS
  <2>1. inbox \in Seq(SoundRequests) /\ wire \in Seq(SoundRequests)
    BY DEF StandingInv, LimitsTaken
  <2>2. \A req \in SoundRequests \cup {NoRequest} : AcceptedBefore(req)
    BY DEF SoundRequests, AcceptedBefore, NoRequest
  <2>3. /\ \A i \in 1..Len(inbox) : AcceptedBefore(inbox[i])
        /\ \A i \in 1..Len(wire) : AcceptedBefore(wire[i])
    BY <2>1, <2>2, ElementOfSeq, Zenon
  <2>4. AcceptedBefore(queued) /\ AcceptedBefore(flight)
    BY <2>2, Zenon DEF StandingInv, LimitsTaken
  <2> QED BY <2>3, <2>4 DEF ReapplyOnlyAccepted
<1> QED BY <1>1, StandingInvariant, PTL
------------------------------------------------------------------------------
(***************************************************************************)
(* What is shown once things have settled.  The answer that leaves the     *)
(* last word with the publisher is the one to the Call sent last, because  *)
(* numbers are never used twice and nothing overtakes anything; and a      *)
(* limit from an earlier connection is re-applied before it can be taken   *)
(* for the last word.                                                      *)
(***************************************************************************)

\* Numbers.  S are the commands that were sent, q is the one in the slot, c the
\* command channel, u and r count the commands of users and re-applications.
Later(x, y) == x.by = y.by => x.n < y.n
CountedBy(x, u, r) == /\ x.by = "user" => x.n <= u
                      /\ x.by = "reapply" => x.n <= r
Fresh(S, q, c, u, r) ==
    /\ \A x \in S \cup {q} : CountedBy(x, u, r)
    /\ \A i \in 1..Len(c) : CountedBy(c[i], u, r)
    /\ \A x \in S \cup {q} : \A i \in 1..Len(c) : Later(x, c[i])
    /\ q # NoRequest => \A x \in S : Later(x, q)
    /\ \A i, j \in 1..Len(c) : i < j => Later(c[i], c[j])

SentOf(a, w, f) == {a[i].req : i \in 1..Len(a)} \cup {w[i] : i \in 1..Len(w)} \cup {f}

\* The Call in flight is the last that was sent: nothing follows it on the wire,
\* and when its answer is under way nothing is left to change the profile.
Flying(f, w, a, p) ==
    f # NoRequest =>
       /\ \A i \in 1..Len(w) : w[i] = f => i = Len(w)
       /\ \A i \in 1..Len(a) : a[i].req = f =>
             /\ i = Len(a) /\ w = <<>>
             /\ a[i].status = "Accepted" => p = resolve_limit(f.val)

\* The link as the publisher sees it when it comes to the i-th of the events s:
\* down, if w is what it knows now.
DownAt(w, s, i) ==
    \/ ~w /\ \A k \in 1..(i - 1) : s[k].type # "link"
    \/ \E j \in 1..(i - 1) : /\ s[j].type = "link" /\ ~s[j].up
                             /\ \A k \in (j + 1)..(i - 1) : s[k].type # "link"
Alternates(w, s) == \A i \in 1..Len(s) : s[i].type = "link" /\ s[i].up => DownAt(w, s, i)

\* The limit l has the last word once the events s are handled from the snapshot
\* sn, and no link that comes up after it asks for a re-application.
Silent(s, i) == \A k \in (i + 1)..Len(s) : s[k].type = "link" /\ ~s[k].up
Says(sn, s, l) ==
    \/ Silent(s, 0) /\ sn.status = "Accepted" /\ sn.limit = l
    \/ \E i \in 1..Len(s) : /\ s[i].type = "result" /\ Silent(s, i)
                            /\ s[i].status = "Accepted" /\ resolve_limit(s[i].req.val) = l

OnlyResults(s) == \A i \in 1..Len(s) : s[i].type = "result"

\* The session is up with the charger, and no command is in its hands.
Quiet ==
    /\ ~dropped /\ session = "up" /\ present
    /\ inbox = <<>> /\ queued = NoRequest /\ flight = NoRequest

FreshInv == Fresh(SentOf(answers, wire, flight), queued, inbox, users, reapplied)
FlightInv == Flying(flight, wire, answers, profile) /\ OnlyResults(answers)
LinkInv ==
    ~dropped => /\ Alternates(wasUp, events)
                /\ session = "starting" => DownAt(wasUp, events, Len(events) + 1)
AgreeInv ==
    Quiet => \A l \in Int : Says(snap, events, l) =>
                profile = l /\ wire = <<>> /\ answers = <<>>

SettledInv == FreshInv /\ FlightInv /\ LinkInv /\ AgreeInv

Commands == Requests \cup {NoRequest}

\* No command is NoRequest, and numbers can be compared.
LEMMA CommandFields ==
    /\ NoRequest \notin Requests /\ NoRequest.by = "none"
    /\ \A x \in Requests : x.by \in Sources /\ x.n \in Nat
    /\ \A x \in Commands : x.n \in Nat /\ x.val \in Values
BY DEF Requests, NoRequest, Sources, Commands, Values

\* ReceiveCommand moves the first command of the channel to the slot.
LEMMA FreshTail ==
    ASSUME NEW S \in SUBSET Commands, NEW q \in Commands, NEW c \in Seq(Requests), c # <<>>,
           NEW u \in Nat, NEW r \in Nat, Fresh(S, q, c, u, r)
    PROVE  Fresh(S, Head(c), Tail(c), u, r)
<1>1. /\ Len(c) \in Nat /\ Len(c) >= 1 /\ Len(Tail(c)) = Len(c) - 1 /\ Head(c) = c[1]
      /\ \A i \in 1..Len(Tail(c)) : i + 1 \in 1..Len(c) /\ Tail(c)[i] = c[i + 1]
  OBVIOUS
<1> DEFINE t == Tail(c)
<1>2. t = Tail(c) OBVIOUS
<1> HIDE DEF t
<1>3. \A i \in 1..Len(t) : CountedBy(t[i], u, r) /\ Later(c[1], t[i])
  BY <1>1, <1>2 DEF Fresh
<1>4. \A x \in S : \A i \in 1..Len(t) : Later(x, t[i])
  BY <1>1, <1>2 DEF Fresh
<1>5. \A i, j \in 1..Len(t) : i < j => Later(t[i], t[j])
  BY <1>1, <1>2 DEF Fresh
<1>6. CountedBy(c[1], u, r) /\ \A x \in S : Later(x, c[1]) /\ CountedBy(x, u, r)
  BY <1>1 DEF Fresh
<1> QED BY <1>1, <1>2, <1>3, <1>4, <1>5, <1>6 DEF Fresh

\* The slot is sent or emptied, or what was sent is forgotten; the channel may be
\* emptied too.
LEMMA FreshSend ==
    ASSUME NEW S \in SUBSET Commands, NEW q \in Commands, NEW c \in Seq(Requests),
           NEW u \in Nat, NEW r \in Nat, Fresh(S, q, c, u, r), NEW T, NEW p, NEW d,
           \/ T \subseteq S \cup {NoRequest} /\ p \in {q, NoRequest}
           \/ T \subseteq S \cup {q, NoRequest} /\ p = NoRequest,
           d \in {c, <<>>}
    PROVE  Fresh(T, p, d, u, r)
<1>1. CountedBy(NoRequest, u, r)
  BY CommandFields DEF CountedBy
<1>2. \A i \in 1..Len(c) : Later(NoRequest, c[i])
  BY CommandFields, ElementOfSeq DEF Later, Sources
<1>3. Fresh(T, p, c, u, r)
  <2>1. q # NoRequest => Later(NoRequest, q)
    BY CommandFields DEF Later, Sources, Commands
  <2>2. \A x \in T \cup {p} : x \in S \cup {q, NoRequest}
    OBVIOUS
  <2>3. \A x \in T \cup {p} : CountedBy(x, u, r) /\ \A i \in 1..Len(c) : Later(x, c[i])
    BY <1>1, <1>2, <2>2 DEF Fresh
  <2>4. p # NoRequest => \A x \in T : Later(x, p)
    BY <2>1 DEF Fresh
  <2> QED BY <2>3, <2>4 DEF Fresh
<1>4. Fresh(T, p, <<>>, u, r)
  <2>1. Len(<<>>) = 0 OBVIOUS
  <2> QED BY <1>3, <2>1 DEF Fresh
<1> QED BY <1>3, <1>4

\* A command that is dispatched gets the next number of its source.
LEMMA FreshAppend ==
    ASSUME NEW S \in SUBSET Commands, NEW q \in Commands, NEW c \in Seq(Requests),
           NEW u \in Nat, NEW r \in Nat, Fresh(S, q, c, u, r),
           NEW x \in Requests, NEW v \in Nat, NEW s \in Nat,
           \/ x.by = "user" /\ x.n = u + 1 /\ v = u + 1 /\ s = r
           \/ x.by = "reapply" /\ x.n = r + 1 /\ v = u /\ s = r + 1,
           NEW d, d = c \/ d = Append(c, x)
    PROVE  Fresh(S, q, d, v, s)
<1>0. \A i \in 1..Len(c) : c[i] \in Requests BY ElementOfSeq
<1>1. ASSUME NEW y \in Commands, CountedBy(y, u, r)
      PROVE  CountedBy(y, v, s) /\ Later(y, x)
  BY <1>1, CommandFields DEF CountedBy, Later
<1>2. /\ \A y \in S \cup {q} : CountedBy(y, v, s) /\ Later(y, x)
      /\ \A i \in 1..Len(c) : CountedBy(c[i], v, s) /\ Later(c[i], x)
  BY <1>0, <1>1 DEF Fresh, Commands
<1>3. Fresh(S, q, c, v, s)
  BY <1>2 DEF Fresh
<1>4. CASE d = Append(c, x)
  <2>1. /\ Len(c) \in Nat /\ Len(d) = Len(c) + 1 /\ d[Len(c) + 1] = x
        /\ \A i \in 1..Len(c) : d[i] = c[i]
    BY <1>4
  <2>2. CountedBy(x, v, s)
    BY DEF CountedBy
  <2>3. \A i \in 1..Len(d) : CountedBy(d[i], v, s)
    BY <1>2, <2>1, <2>2
  <2>4. \A y \in S \cup {q} : \A i \in 1..Len(d) : Later(y, d[i])
    BY <1>2, <1>3, <2>1 DEF Fresh
  <2>5. \A i, j \in 1..Len(d) : i < j => Later(d[i], d[j])
    BY <1>2, <1>3, <2>1 DEF Fresh
  <2> QED BY <1>3, <2>3, <2>4, <2>5 DEF Fresh
<1> QED BY <1>3, <1>4

\* What was sent before is not the command that is sent now.
LEMMA FreshNew ==
    ASSUME NEW S, NEW q \in Requests, NEW c, NEW u, NEW r, Fresh(S, q, c, u, r)
    PROVE  q \notin S
BY CommandFields DEF Fresh, Later

\* The Call that is sent is the last on the wire.
LEMMA FlyingSend ==
    ASSUME NEW a \in Seq(Events), NEW w \in Seq(Requests), NEW f, NEW p, NEW q,
           q \notin SentOf(a, w, f)
    PROVE  Flying(q, Append(w, q), a, p)
<1> DEFINE v == Append(w, q)
<1>1. /\ \A i \in 1..Len(a) : a[i].req # q
      /\ \A i \in 1..Len(w) : w[i] # q
  BY DEF SentOf
<1>2. Len(w) \in Nat /\ Len(v) = Len(w) + 1 /\ \A i \in 1..Len(w) : v[i] = w[i]
  OBVIOUS
<1> HIDE DEF v
<1>3. \A i \in 1..Len(v) : v[i] = q => i = Len(v)
  BY <1>1, <1>2
<1>4. Flying(q, v, a, p) BY <1>1, <1>3 DEF Flying
<1> QED BY <1>4 DEF v

\* An answer that is taken leaves the others where they are.
LEMMA FlyingTail ==
    ASSUME NEW a \in Seq(Events), a # <<>>, NEW w, NEW f, NEW p, Flying(f, w, a, p)
    PROVE  Flying(f, w, Tail(a), p)
<1> DEFINE t == Tail(a)
<1>1. /\ Len(a) \in Nat /\ Len(t) = Len(a) - 1
      /\ \A i \in 1..Len(t) : i + 1 \in 1..Len(a) /\ t[i] = a[i + 1]
  OBVIOUS
<1> HIDE DEF t
<1>2. Flying(f, w, t, p) BY <1>1 DEF Flying
<1> QED BY <1>2 DEF t

\* The charger answers the first Call of the wire.
LEMMA FlyingAnswer ==
    ASSUME NEW a \in Seq(Events), NEW w \in Seq(Requests), w # <<>>, NEW f, NEW p, NEW o,
           NEW status, Flying(f, w, a, o),
           status = "Accepted" => p = resolve_limit(Head(w).val)
    PROVE  Flying(f, Tail(w), Append(a, Result(Head(w), status)), p)
<1> SUFFICES ASSUME f # NoRequest
             PROVE  Flying(f, Tail(w), Append(a, Result(Head(w), status)), p)
  BY DEF Flying
<1> DEFINE t == Tail(w)
           e == Result(Head(w), status)
           b == Append(a, e)
<1>1. /\ Len(w) \in Nat /\ Len(w) >= 1 /\ Len(t) = Len(w) - 1 /\ Head(w) = w[1]
      /\ \A i \in 1..Len(t) : i + 1 \in 1..Len(w) /\ t[i] = w[i + 1]
  OBVIOUS
<1>0. Len(t) = 0 => t = <<>>
  <2>1. t \in Seq(Requests) OBVIOUS
  <2> HIDE DEF t
  <2> QED BY <2>1, EmptySeq
<1>2. /\ Len(a) \in Nat /\ Len(b) = Len(a) + 1 /\ b[Len(b)] = e
      /\ \A i \in 1..Len(a) : b[i] = a[i]
  OBVIOUS
<1>3. e.req = w[1] /\ e.status = status
  BY <1>1 DEF Result
<1> HIDE DEF t, b, e
<1>4. \A i \in 1..Len(t) : t[i] = f => i = Len(t)
  BY <1>1 DEF Flying
<1>5. \A i \in 1..Len(a) : a[i].req # f
  BY DEF Flying
<1>6. ASSUME NEW i \in 1..Len(b), b[i].req = f
      PROVE  /\ i = Len(b) /\ t = <<>>
             /\ b[i].status = "Accepted" => p = resolve_limit(f.val)
  <2>1. i = Len(b) BY <1>2, <1>5, <1>6
  <2>2. w[1] = f BY <1>2, <1>3, <1>6, <2>1
  <2>3. Len(w) = 1 BY <1>1, <2>2 DEF Flying
  <2> QED BY <1>0, <1>1, <1>2, <1>3, <2>1, <2>2, <2>3
<1>7. Flying(f, t, b, p) BY <1>4, <1>6 DEF Flying
<1> QED BY <1>7 DEF t, b, e

\* The publisher handles the first event: what the rest shows was shown before,
\* or is what the snapshot says now.
LEMMA SaysTail ==
    ASSUME NEW s \in Seq(Events), s # <<>>, NEW sn, NEW so, NEW l, Says(sn, Tail(s), l)
    PROVE  Says(so, s, l) \/ (Silent(s, 1) /\ sn.status = "Accepted" /\ sn.limit = l)
<1> DEFINE t == Tail(s)
<1>1. /\ Len(s) \in Nat /\ Len(s) >= 1 /\ Len(t) = Len(s) - 1
      /\ \A i \in 1..Len(t) : i + 1 \in 1..Len(s) /\ t[i] = s[i + 1]
  OBVIOUS
<1>2. Says(sn, t, l) OBVIOUS
<1> HIDE DEF t
<1>3. ASSUME NEW i \in 0..Len(t), Silent(t, i) PROVE Silent(s, i + 1)
  <2> SUFFICES ASSUME NEW k \in (i + 2)..Len(s) PROVE s[k].type = "link" /\ ~s[k].up
    BY DEF Silent
  <2>1. k - 1 \in (i + 1)..Len(t) /\ k - 1 \in 1..Len(t) /\ (k - 1) + 1 = k
    BY <1>1
  <2> QED BY <1>1, <1>3, <2>1 DEF Silent
<1>4. CASE Silent(t, 0) /\ sn.status = "Accepted" /\ sn.limit = l
  <2>1. Silent(s, 0 + 1) BY <1>1, <1>3, <1>4
  <2> QED BY <1>4, <2>1
<1>5. ASSUME NEW i \in 1..Len(t), t[i].type = "result", Silent(t, i),
             t[i].status = "Accepted", resolve_limit(t[i].req.val) = l
      PROVE  Says(so, s, l)
  <2>1. Silent(s, i + 1) BY <1>1, <1>3, <1>5
  <2>2. i + 1 \in 1..Len(s) /\ t[i] = s[i + 1] BY <1>1
  <2> QED BY <1>5, <2>1, <2>2 DEF Says
<1> QED BY <1>2, <1>4, <1>5 DEF Says

\* A result at the end has the last word, and a link that comes up leaves it open.
LEMMA SaysLast ==
    ASSUME NEW s \in Seq(Events), s # <<>>, NEW sn, NEW l, Says(sn, s, l)
    PROVE  /\ s[Len(s)].type = "result" =>
                 s[Len(s)].status = "Accepted" /\ resolve_limit(s[Len(s)].req.val) = l
           /\ ~(s[Len(s)].type = "link" /\ s[Len(s)].up)
<1>1. Len(s) \in Nat /\ Len(s) >= 1 OBVIOUS
<1>2. \A i \in 0..(Len(s) - 1) : Silent(s, i) => s[Len(s)].type = "link" /\ ~s[Len(s)].up
  BY <1>1 DEF Silent
<1>3. CASE Silent(s, 0) BY <1>1, <1>2, <1>3
<1>4. ASSUME NEW i \in 1..Len(s), s[i].type = "result", Silent(s, i),
             s[i].status = "Accepted", resolve_limit(s[i].req.val) = l
      PROVE  /\ s[Len(s)].type = "result" =>
                  s[Len(s)].status = "Accepted" /\ resolve_limit(s[Len(s)].req.val) = l
             /\ ~(s[Len(s)].type = "link" /\ s[Len(s)].up)
  <2>1. CASE i = Len(s) BY <1>4, <2>1
  <2>2. CASE i # Len(s)
    <3>1. i \in 0..(Len(s) - 1) BY <1>1, <2>2
    <3> QED BY <1>2, <1>4, <3>1
  <2> QED BY <2>1, <2>2
<1> QED BY <1>3, <1>4 DEF Says

\* The first result of all.
LEMMA SaysHead ==
    ASSUME NEW s \in Seq(Events), s # <<>>, NEW sn, NEW l, Silent(s, 1),
           \/ Head(s).type = "link" /\ ~Head(s).up /\ sn.status = "Accepted" /\ sn.limit = l
           \/ /\ Head(s).type = "result" /\ Head(s).status = "Accepted"
              /\ resolve_limit(Head(s).req.val) = l
    PROVE  Says(sn, s, l)
<1>1. Len(s) \in Nat /\ Len(s) >= 1 /\ Head(s) = s[1] OBVIOUS
<1>2. CASE Head(s).type = "link" /\ ~Head(s).up /\ sn.status = "Accepted" /\ sn.limit = l
  <2>1. Silent(s, 0) BY <1>1, <1>2 DEF Silent
  <2> QED BY <1>2, <2>1 DEF Says
<1>3. CASE /\ Head(s).type = "result" /\ Head(s).status = "Accepted"
           /\ resolve_limit(Head(s).req.val) = l
  BY <1>1, <1>3 DEF Says
<1> QED BY <1>2, <1>3

\* The link as it will be seen does not depend on what comes later.
LEMMA DownSame ==
    ASSUME NEW s, NEW t, NEW w, NEW i \in Nat, \A k \in 1..(i - 1) : t[k] = s[k], DownAt(w, s, i)
    PROVE  DownAt(w, t, i)
<1>1. CASE ~w /\ \A k \in 1..(i - 1) : s[k].type # "link"
  BY <1>1 DEF DownAt
<1>2. ASSUME NEW j \in 1..(i - 1), s[j].type = "link", ~s[j].up,
             \A k \in (j + 1)..(i - 1) : s[k].type # "link"
      PROVE  DownAt(w, t, i)
  <2>1. \A k \in (j + 1)..(i - 1) : k \in 1..(i - 1) OBVIOUS
  <2>2. \A k \in (j + 1)..(i - 1) : t[k].type # "link" BY <1>2, <2>1
  <2> QED BY <1>2, <2>2 DEF DownAt
<1> QED BY <1>1, <1>2 DEF DownAt

\* The publisher handles the first event.
LEMMA DownTail ==
    ASSUME NEW s \in Seq(Events), s # <<>>, NEW w \in BOOLEAN, NEW v \in BOOLEAN,
           NEW i \in 1..Len(s), DownAt(w, s, i + 1),
           Head(s).type = "link" => v = Head(s).up,
           Head(s).type # "link" => v = w
    PROVE  DownAt(v, Tail(s), i)
<1> DEFINE t == Tail(s)
<1>1. /\ Len(s) \in Nat /\ Len(t) = Len(s) - 1 /\ Head(s) = s[1]
      /\ \A k \in 1..Len(t) : k + 1 \in 1..Len(s) /\ t[k] = s[k + 1]
  OBVIOUS
<1>2. i \in Int /\ i >= 1 /\ i <= Len(s) BY <1>1
<1>3. ASSUME NEW k \in 1..(i - 1) PROVE k + 1 \in 1..i /\ k \in 1..Len(t) /\ t[k] = s[k + 1]
  BY <1>1, <1>2
<1> HIDE DEF t
<1>4. CASE ~w /\ \A k \in 1..i : s[k].type # "link"
  <2>1. ~v BY <1>1, <1>2, <1>4
  <2>2. \A k \in 1..(i - 1) : t[k].type # "link" BY <1>3, <1>4
  <2>3. DownAt(v, t, i) BY <2>1, <2>2 DEF DownAt
  <2> QED BY <2>3 DEF t
<1>5. ASSUME NEW j \in 1..i, s[j].type = "link", ~s[j].up,
             \A k \in (j + 1)..i : s[k].type # "link"
      PROVE  DownAt(v, t, i)
  <2>1. \A k \in j..(i - 1) : k \in 1..(i - 1) /\ k + 1 \in (j + 1)..i BY <1>2
  <2>2. \A k \in j..(i - 1) : t[k].type # "link" BY <1>3, <1>5, <2>1
  <2>3. CASE j = 1
    <3>1. ~v BY <1>1, <1>5, <2>3
    <3> QED BY <2>2, <2>3, <3>1 DEF DownAt
  <2>4. CASE j # 1
    <3>1. j - 1 \in 1..(i - 1) /\ (j - 1) + 1 = j BY <1>2, <2>4
    <3>2. t[j - 1] = s[j] BY <1>3, <3>1
    <3>3. \A k \in ((j - 1) + 1)..(i - 1) : t[k].type # "link" BY <2>2, <3>1
    <3> QED BY <1>5, <3>1, <3>2, <3>3 DEF DownAt
  <2> QED BY <2>3, <2>4
<1>6. (i + 1) - 1 = i BY <1>2
<1>7. \/ ~w /\ \A k \in 1..i : s[k].type # "link"
      \/ \E j \in 1..i : /\ s[j].type = "link" /\ ~s[j].up
                         /\ \A k \in (j + 1)..i : s[k].type # "link"
  BY <1>6 DEF DownAt
<1> QED BY <1>4, <1>5, <1>7 DEF t

\* So the rest alternates too.
LEMMA AlternatesTail ==
    ASSUME NEW s \in Seq(Events), s # <<>>, NEW w \in BOOLEAN, NEW v \in BOOLEAN,
           Alternates(w, s),
           Head(s).type = "link" => v = Head(s).up,
           Head(s).type # "link" => v = w
    PROVE  /\ Alternates(v, Tail(s))
           /\ DownAt(w, s, Len(s) + 1) => DownAt(v, Tail(s), Len(Tail(s)) + 1)
<1> DEFINE t == Tail(s)
<1>1. /\ Len(s) \in Nat /\ Len(s) >= 1 /\ Len(t) = Len(s) - 1
      /\ \A i \in 1..Len(t) : i + 1 \in 1..Len(s) /\ t[i] = s[i + 1]
  OBVIOUS
<1>2. ASSUME NEW i \in 1..Len(s), DownAt(w, s, i + 1) PROVE DownAt(v, t, i)
  BY <1>2, DownTail
<1> HIDE DEF t
<1>3. ASSUME NEW i \in 1..Len(t), t[i].type = "link", t[i].up PROVE DownAt(v, t, i)
  <2>1. i \in 1..Len(s) /\ i + 1 \in 1..Len(s) /\ t[i] = s[i + 1] BY <1>1
  <2>2. DownAt(w, s, i + 1) BY <1>3, <2>1 DEF Alternates
  <2> QED BY <1>2, <2>1, <2>2
<1>4. Alternates(v, t) BY <1>3 DEF Alternates
<1>5. ASSUME DownAt(w, s, Len(s) + 1) PROVE DownAt(v, t, Len(t) + 1)
  <2>1. Len(s) \in 1..Len(s) /\ Len(t) + 1 = Len(s) BY <1>1
  <2> QED BY <1>2, <1>5, <2>1
<1> QED BY <1>4, <1>5 DEF t

\* Results, and a link that comes up after it was down, can follow.
LEMMA AlternatesConcat ==
    ASSUME NEW s \in Seq(Events), NEW es \in Seq(Events), NEW w, Alternates(w, s),
           \/ \A i \in 1..Len(es) : ~(es[i].type = "link" /\ es[i].up)
           \/ Len(es) = 1 /\ DownAt(w, s, Len(s) + 1)
    PROVE  Alternates(w, s \o es)
<1> DEFINE t == s \o es
<1>1. /\ Len(s) \in Nat /\ Len(es) \in Nat /\ Len(t) = Len(s) + Len(es)
      /\ \A i \in 1..Len(s) : t[i] = s[i]
      /\ \A i \in (Len(s) + 1)..Len(t) : t[i] = es[i - Len(s)] /\ i - Len(s) \in 1..Len(es)
  BY ConcatProperties, LenProperties
<1> HIDE DEF t
<1>2. ASSUME NEW i \in 1..(Len(s) + 1), DownAt(w, s, i) PROVE DownAt(w, t, i)
  <2>1. i \in Nat /\ \A k \in 1..(i - 1) : t[k] = s[k] BY <1>1
  <2> QED BY <1>2, <2>1, DownSame
<1>3. ASSUME NEW i \in 1..Len(t), t[i].type = "link", t[i].up PROVE DownAt(w, t, i)
  <2>1. CASE i <= Len(s)
    <3>1. i \in 1..Len(s) /\ i \in 1..(Len(s) + 1) /\ t[i] = s[i] BY <1>1, <2>1
    <3>2. DownAt(w, s, i) BY <1>3, <3>1 DEF Alternates
    <3> QED BY <1>2, <3>1, <3>2
  <2>2. CASE ~(i <= Len(s))
    <3>1. t[i] = es[i - Len(s)] /\ i - Len(s) \in 1..Len(es) BY <1>1, <2>2
    <3>2. Len(es) = 1 /\ DownAt(w, s, Len(s) + 1) BY <1>3, <3>1
    <3>3. i = Len(s) + 1 /\ Len(s) + 1 \in 1..(Len(s) + 1) BY <1>1, <3>1, <3>2
    <3> QED BY <1>2, <3>2, <3>3
  <2> QED BY <2>1, <2>2
<1>4. Alternates(w, t) BY <1>3 DEF Alternates
<1> QED BY <1>4 DEF t

\* After a link event that says so the link is down.
LEMMA DownConcat ==
    ASSUME NEW s \in Seq(Events), NEW e \in Events, e.type = "link", ~e.up, NEW w
    PROVE  DownAt(w, s \o <<e>>, Len(s \o <<e>>) + 1)
<1> DEFINE t == s \o <<e>>
<1>1. Len(s) \in Nat /\ Len(t) = Len(s) + 1 /\ t[Len(s) + 1] = e
  OBVIOUS
<1> HIDE DEF t
<1>2. /\ Len(t) \in 1..((Len(t) + 1) - 1)
      /\ \A k \in (Len(t) + 1)..((Len(t) + 1) - 1) : FALSE
  BY <1>1
<1>3. DownAt(w, t, Len(t) + 1) BY <1>1, <1>2 DEF DownAt
<1> QED BY <1>3 DEF t

\* What is emitted last comes last.
LEMMA LastConcat ==
    ASSUME NEW s \in Seq(Events), NEW es \in Seq(Events), es # <<>>
    PROVE  /\ s \o es \in Seq(Events) /\ s \o es # <<>>
           /\ (s \o es)[Len(s \o es)] = es[Len(es)]
<1>1. /\ Len(s) \in Nat /\ Len(es) \in Nat /\ Len(es) >= 1
      /\ s \o es \in Seq(Events) /\ Len(s \o es) = Len(s) + Len(es)
      /\ \A i \in 1..(Len(s) + Len(es)) :
            (s \o es)[i] = IF i <= Len(s) THEN s[i] ELSE es[i - Len(s)]
  BY ConcatProperties, LenProperties, EmptySeq
<1>2. (s \o es)[Len(s) + Len(es)] = es[(Len(s) + Len(es)) - Len(s)] BY <1>1
<1>3. (Len(s) + Len(es)) - Len(s) = Len(es) /\ Len(s \o es) # 0 BY <1>1
<1> QED BY <1>1, <1>2, <1>3, EmptySeq

\* The results that a session reports without an answer.
Unaccepted(s) ==
    s \in Seq(Events) /\ \A i \in 1..Len(s) : s[i].type = "result" /\ s[i].status # "Accepted"

\* Such a result, and none.
LEMMA UnacceptedOne ==
    ASSUME NEW x \in Commands, NEW status \in Statuses \ {"Accepted"}
    PROVE  Unaccepted(<<Result(x, status)>>) /\ Unaccepted(<<>>)
<1>1. Result(x, status) \in Events /\ Result(x, status).type = "result"
      /\ Result(x, status).status = status
  BY DEF Result, Events, Commands
<1> DEFINE r == Result(x, status)
<1> HIDE DEF r
<1>2. r \in Events /\ r.type = "result" /\ r.status # "Accepted" BY <1>1 DEF r
<1>3. Unaccepted(<<r>>) BY <1>2 DEF Unaccepted
<1>4. Unaccepted(<<>>) BY DEF Unaccepted
<1> QED BY <1>3, <1>4 DEF r

\* Some of them after others.
LEMMA UnacceptedConcat ==
    ASSUME NEW s, NEW t, Unaccepted(s), Unaccepted(t)
    PROVE  Unaccepted(s \o t)
<1>1. s \in Seq(Events) /\ t \in Seq(Events) BY DEF Unaccepted
<1>2. /\ s \o t \in Seq(Events) /\ Len(s) \in Nat /\ Len(t) \in Nat
      /\ Len(s \o t) = Len(s) + Len(t)
      /\ \A i \in 1..Len(s) + Len(t) : (s \o t)[i] = IF i <= Len(s) THEN s[i] ELSE t[i - Len(s)]
  BY <1>1, ConcatProperties, LenProperties
<1>3. ASSUME NEW i \in 1..Len(s) + Len(t)
      PROVE  (s \o t)[i].type = "result" /\ (s \o t)[i].status # "Accepted"
  <2>1. CASE i <= Len(s)
    <3>1. i \in 1..Len(s) /\ (s \o t)[i] = s[i] BY <1>2, <2>1
    <3> QED BY <3>1 DEF Unaccepted
  <2>2. CASE ~(i <= Len(s))
    <3>1. i - Len(s) \in 1..Len(t) /\ (s \o t)[i] = t[i - Len(s)] BY <1>2, <2>2
    <3> QED BY <3>1 DEF Unaccepted
  <2> QED BY <2>1, <2>2
<1> QED BY <1>2, <1>3 DEF Unaccepted

\* After them no limit has the last word.
LEMMA UnacceptedSays ==
    ASSUME NEW s \in Seq(Events), NEW es, Unaccepted(es), es # <<>>, NEW sn, NEW l
    PROVE  ~Says(sn, s \o es, l)
<1>1. es \in Seq(Events) BY DEF Unaccepted
<1>2. Len(es) \in 1..Len(es) BY <1>1, EmptySeq
<1>3. es[Len(es)].type = "result" /\ es[Len(es)].status # "Accepted" BY <1>2 DEF Unaccepted
<1> DEFINE t == s \o es
<1>4. t \in Seq(Events) /\ t # <<>> /\ t[Len(t)] = es[Len(es)] BY <1>1, LastConcat
<1> HIDE DEF t
<1>5. ~Says(sn, t, l) BY <1>3, <1>4, SaysLast
<1> QED BY <1>5 DEF t

\* As long as no event is dropped, Emit adds all it is given.
LEMMA EmitAll ==
    ASSUME NEW es, Emit(es), ~dropped'
    PROVE  ~dropped /\ events' = events \o es
<1>1. CASE events' = events \o es /\ dropped' = dropped
  BY <1>1
<1>2. CASE dropped' = TRUE
  BY <1>2
<1> QED BY <1>1, <1>2, Zenon DEF Emit

\* What was sent is a set of commands.
LEMMA SentTyped ==
    ASSUME NEW a \in Seq(Events), NEW w \in Seq(Requests), NEW f \in Commands
    PROVE  SentOf(a, w, f) \in SUBSET Commands
<1>1. \A i \in 1..Len(a) : a[i] \in Events BY ElementOfSeq
<1>2. \A i \in 1..Len(a) : a[i].req \in Commands BY <1>1 DEF Events, Commands
<1>3. \A i \in 1..Len(w) : w[i] \in Commands BY ElementOfSeq DEF Commands
<1> QED BY <1>2, <1>3 DEF SentOf

\* send_local_calls leaves numbers and the Call in flight in order, for the answers
\* a and the channel c that its caller leaves.
LEMMA SendSettles ==
    ASSUME TypeOK, NEW q \in Commands, NEW f \in Commands, NEW es,
           NEW a \in Seq(Events), NEW c \in Seq(Requests), SendLocalCalls(q, f, es),
           Fresh(SentOf(a, wire, f), q, c, users, reapplied), Flying(f, wire, a, profile)
    PROVE  /\ Fresh(SentOf(a, wire', flight'), queued', c, users, reapplied)
           /\ Flying(flight', wire', a, profile)
<1>1. wire \in Seq(Requests) /\ users \in Nat /\ reapplied \in Nat
  BY DEF TypeOK, StandingAssumption
<1>2. SentOf(a, wire, f) \in SUBSET Commands BY <1>1, SentTyped
<1>3. CASE queued' = q /\ flight' = f /\ wire' = wire
  BY <1>3
<1>4. CASE f = NoRequest /\ queued' = NoRequest /\ flight' = NoRequest /\ wire' = wire
  <2>1. Fresh(SentOf(a, wire, f), NoRequest, c, users, reapplied)
    BY <1>1, <1>2, FreshSend
  <2> QED BY <1>4, <2>1
<1>5. CASE f = NoRequest /\ q # NoRequest /\ queued' = NoRequest /\ flight' = q
           /\ wire' = Append(wire, q)
  <2>1. q \in Requests BY <1>5 DEF Commands
  <2>2. q \notin SentOf(a, wire, f) BY <2>1, FreshNew
  <2>3. Flying(q, Append(wire, q), a, profile) BY <1>1, <2>2, FlyingSend
  <2>4. SentOf(a, Append(wire, q), q) \subseteq SentOf(a, wire, f) \cup {q, NoRequest}
    <3>1. \A i \in 1..Len(Append(wire, q)) :
             Append(wire, q)[i] = q \/ \E j \in 1..Len(wire) : Append(wire, q)[i] = wire[j]
      BY <1>1, <2>1
    <3> QED BY <3>1 DEF SentOf
  <2>5. Fresh(SentOf(a, Append(wire, q), q), NoRequest, c, users, reapplied)
    <3> DEFINE T == SentOf(a, Append(wire, q), q)
    <3>1. T \subseteq SentOf(a, wire, f) \cup {q, NoRequest} BY <2>4
    <3> HIDE DEF T
    <3>2. Fresh(T, NoRequest, c, users, reapplied) BY <1>1, <1>2, <3>1, FreshSend
    <3> QED BY <3>2 DEF T
  <2> QED BY <1>5, <2>3, <2>5
<1> QED BY <1>3, <1>4, <1>5, Zenon DEF SendLocalCalls

\* It reports at most that a command was refused.
LEMMA SendEmits ==
    ASSUME TypeOK, NEW q \in Commands, NEW f, NEW es \in Seq(Events), SendLocalCalls(q, f, es), ~dropped'
    PROVE  /\ ~dropped
           /\ \/ events' = events \o es
              \/ /\ events' = events \o Append(es, Result(q, "Invalid"))
                 /\ Result(q, "Invalid") \in Events
<1>1. Result(q, "Invalid") \in Events
  BY DEF Result, Events, Commands, Statuses
<1> QED BY <1>1, EmitAll, Zenon DEF SendLocalCalls

\* The link alternates when only results are reported.
LEMMA SendLinks ==
    ASSUME TypeOK, LinkInv, NEW q \in Commands, NEW f, NEW es \in Seq(Events),
           OnlyResults(es), SendLocalCalls(q, f, es), session = "up",
           UNCHANGED <<session, wasUp>>
    PROVE  LinkInv'
<1> SUFFICES ASSUME ~dropped' PROVE Alternates(wasUp, events')
  BY DEF LinkInv
<1>1. ~dropped BY SendEmits, Zenon
<1>2. Alternates(wasUp, events) BY <1>1 DEF LinkInv
<1>3. events \in Seq(Events) BY DEF TypeOK
<1>4. CASE events' = events \o es
  BY <1>2, <1>3, <1>4, AlternatesConcat DEF OnlyResults
<1>5. CASE /\ events' = events \o Append(es, Result(q, "Invalid"))
           /\ Result(q, "Invalid") \in Events
  <2> DEFINE r == Result(q, "Invalid")
             all == Append(es, r)
  <2>1. r.type = "result" /\ r \in Events BY <1>5 DEF Result
  <2> HIDE DEF r
  <2>2. all \in Seq(Events) /\ \A i \in 1..Len(all) : all[i].type = "result"
    BY <2>1 DEF OnlyResults
  <2> HIDE DEF all
  <2>3. Alternates(wasUp, events \o all) BY <1>2, <1>3, <2>2, AlternatesConcat
  <2> QED BY <1>5, <2>3 DEF all, r
<1> QED BY <1>4, <1>5, SendEmits, Zenon

\* It leaves the session without a command only if it was given none.
LEMMA SendQuiet ==
    ASSUME TypeOK, NEW q \in Commands, NEW f \in Commands, NEW es \in Seq(Events),
           SendLocalCalls(q, f, es), ~dropped', queued' = NoRequest, flight' = NoRequest,
           NEW sn, NEW l, Says(sn, events', l)
    PROVE  /\ q = NoRequest /\ f = NoRequest /\ ~dropped
           /\ events' = events \o es /\ wire' = wire
<1>1. events \in Seq(Events) BY DEF TypeOK
<1>2. CASE queued' = q /\ flight' = f /\ Emit(es) /\ UNCHANGED wire
  BY <1>2, EmitAll, Zenon
<1>3. CASE /\ queued' = NoRequest /\ flight' = NoRequest
           /\ Emit(Append(es, Result(q, "Invalid")))
  <2> DEFINE r == Result(q, "Invalid")
             all == Append(es, r)
  <2>1. r.type = "result" /\ r.status = "Invalid" /\ r \in Events
    BY DEF Result, Events, Commands, Statuses
  <2>2. events' = events \o all BY <1>3, EmitAll, Zenon
  <2> HIDE DEF r
  <2>3. all \in Seq(Events) /\ all # <<>> /\ all[Len(all)] = r
    BY <2>1
  <2> HIDE DEF all
  <2> DEFINE t == events \o all
  <2>4. t \in Seq(Events) /\ t # <<>> /\ t[Len(t)] = r BY <1>1, <2>3, LastConcat
  <2>5. Says(sn, t, l) BY <2>2
  <2> HIDE DEF t
  <2>6. r.status = "Accepted" BY <2>1, <2>4, <2>5, SaysLast
  <2> QED BY <2>1, <2>6
<1>4. CASE q # NoRequest /\ flight' = q
  BY <1>4
<1> QED BY <1>2, <1>3, <1>4, Zenon DEF SendLocalCalls

\* The types these lemmas need.
LEMMA SettledTypes ==
    ASSUME TypeOK
    PROVE  /\ events \in Seq(Events) /\ answers \in Seq(Events)
           /\ inbox \in Seq(Requests) /\ wire \in Seq(Requests)
           /\ queued \in Commands /\ flight \in Commands
           /\ users \in Nat /\ reapplied \in Nat /\ wasUp \in BOOLEAN
           /\ SentOf(answers, wire, flight) \in SUBSET Commands
<1>1. /\ events \in Seq(Events) /\ answers \in Seq(Events)
      /\ inbox \in Seq(Requests) /\ wire \in Seq(Requests)
      /\ queued \in Commands /\ flight \in Commands
      /\ users \in Nat /\ reapplied \in Nat /\ wasUp \in BOOLEAN
  BY DEF TypeOK, Commands, StandingAssumption
<1> QED BY <1>1, SentTyped

\* What was sent is forgotten, wholly or one answer at a time.
LEMMA FreshForget ==
    ASSUME TypeOK, FreshInv, NEW a, NEW w, NEW f, NEW p, NEW d,
           SentOf(a, w, f) \subseteq SentOf(answers, wire, flight) \cup {NoRequest},
           p \in {queued, NoRequest}, d \in {inbox, <<>>}
    PROVE  Fresh(SentOf(a, w, f), p, d, users, reapplied)
<1> DEFINE S == SentOf(answers, wire, flight)
           T == SentOf(a, w, f)
<1>1. Fresh(S, queued, inbox, users, reapplied) BY DEF FreshInv
<1>2. S \in SUBSET Commands /\ T \subseteq S \cup {NoRequest} BY SettledTypes
<1> HIDE DEF S, T
<1>3. Fresh(T, p, d, users, reapplied) BY <1>1, <1>2, SettledTypes, FreshSend
<1> QED BY <1>3 DEF T

\* Nothing is under way but the Call in flight.
LEMMA SentEmpty ==
    ASSUME NEW f PROVE SentOf(<<>>, <<>>, f) = {f}
BY DEF SentOf

\* An empty line is in order.
LEMMA FlyingEmpty ==
    ASSUME NEW f, NEW p PROVE Flying(f, <<>>, <<>>, p) /\ OnlyResults(<<>>)
<1>1. Len(<<>>) = 0 OBVIOUS
<1> QED BY <1>1 DEF Flying, OnlyResults

\* Without the word of the snapshot it is the word of an event.
LEMMA SaysOther ==
    ASSUME NEW sn, NEW so, NEW s, NEW l, Says(sn, s, l), sn.status # "Accepted"
    PROVE  Says(so, s, l)
BY DEF Says

\* A dispatch gives its command the next number of its source.
LEMMA DispatchFresh ==
    ASSUME TypeOK, FreshInv, NEW x \in Requests, dispatch_command(x),
           users' \in Nat, reapplied' \in Nat,
           \/ x.by = "user" /\ x.n = users + 1 /\ users' = users + 1 /\ reapplied' = reapplied
           \/ x.by = "reapply" /\ x.n = reapplied + 1 /\ users' = users
              /\ reapplied' = reapplied + 1,
           UNCHANGED <<queued, flight, wire, answers>>
    PROVE  FreshInv'
<1> DEFINE S == SentOf(answers, wire, flight)
<1>1. Fresh(S, queued, inbox, users, reapplied) BY DEF FreshInv
<1>2. S \in SUBSET Commands BY SettledTypes
<1>3. inbox' = inbox \/ inbox' = Append(inbox, x) BY Zenon DEF dispatch_command
<1> HIDE DEF S
<1>4. Fresh(S, queued, inbox', users', reapplied')
  BY <1>1, <1>2, <1>3, SettledTypes, FreshAppend
<1>5. S' = S BY DEF S
<1> QED BY <1>4, <1>5 DEF FreshInv, S

\* A dispatch to a session that leaves its channel empty was rejected.
LEMMA DispatchQuiet ==
    ASSUME TypeOK, NEW x \in Requests, dispatch_command(x), session # "none", inbox' = <<>>
    PROVE  inbox' = inbox /\ snap'.status = "Rejected"
<1>1. CASE publish_command_result(x, "Rejected") /\ UNCHANGED inbox
  BY <1>1 DEF publish_command_result, apply_command_result
<1>2. CASE inbox' = Append(inbox, x)
  <2>1. Append(inbox, x) # <<>> BY SettledTypes, AppendProperties
  <2> QED BY <1>2, <2>1
<1> QED BY <1>1, <1>2, Zenon DEF dispatch_command

\* A user's command.
LEMMA UserSettles ==
    ASSUME TypeOK, TypeOK', SettledInv, NEW v \in Asked \cup {NoLimit}, UserCommands(v)
    PROVE  SettledInv'
<1> DEFINE x == [by |-> "user", n |-> users + 1, val |-> v]
<1>0. users \in Nat /\ users' \in Nat /\ reapplied' \in Nat
  BY DEF TypeOK, StandingAssumption
<1>1. x \in Requests /\ x.by = "user" /\ x.n = users + 1
  BY <1>0, StandingAssumption DEF Requests, Sources, Values
<1>2. /\ dispatch_command(x) /\ users' = users + 1
      /\ UNCHANGED <<wasUp, reapplied, events, session, queued, flight, wire, answers, profile,
                     present, dropped>>
  BY DEF UserCommands, local, charger, history
<1> HIDE DEF x
<1>3. FreshInv' BY <1>0, <1>1, <1>2, DispatchFresh DEF SettledInv
<1>4. FlightInv' BY <1>2 DEF SettledInv, FlightInv
<1>5. LinkInv' BY <1>2 DEF SettledInv, LinkInv
<1>6. AgreeInv'
  <2> SUFFICES ASSUME Quiet', NEW l \in Int, Says(snap', events', l)
               PROVE  (profile = l /\ wire = <<>> /\ answers = <<>>)'
    BY DEF AgreeInv
  <2>1. session # "none" /\ inbox' = <<>> BY <1>2 DEF Quiet
  <2>2. inbox' = inbox /\ snap'.status = "Rejected" BY <1>1, <1>2, <2>1, DispatchQuiet
  <2>3. Quiet BY <1>2, <2>2 DEF Quiet
  <2>4. Says(snap', events, l) BY <1>2
  <2>5. Says(snap, events, l) BY <2>2, <2>4, SaysOther
  <2> QED BY <1>2, <2>3, <2>5 DEF SettledInv, AgreeInv
<1> QED BY <1>3, <1>4, <1>5, <1>6 DEF SettledInv

\* The publisher takes a result: what was about to be said is said.
LEMMA ResultSettles ==
    ASSUME TypeOK, TypeOK', SettledInv, HandleResult
    PROVE  SettledInv'
<1>1. /\ events # <<>> /\ Head(events).type = "result" /\ events' = Tail(events)
      /\ publish_command_result(Head(events).req, Head(events).status)
      /\ UNCHANGED <<wasUp, users, reapplied, session, inbox, queued, flight, wire, answers,
                     profile, present, dropped>>
  BY DEF HandleResult, local, charger, history
<1>2. FreshInv' BY <1>1 DEF SettledInv, FreshInv
<1>3. FlightInv' BY <1>1 DEF SettledInv, FlightInv
<1>4. LinkInv'
  <2> SUFFICES ASSUME ~dropped
               PROVE  /\ Alternates(wasUp, Tail(events))
                      /\ session = "starting" => DownAt(wasUp, Tail(events), Len(Tail(events)) + 1)
    BY <1>1 DEF LinkInv
  <2>1. /\ Alternates(wasUp, events)
        /\ session = "starting" => DownAt(wasUp, events, Len(events) + 1)
    BY DEF SettledInv, LinkInv
  <2> QED BY <1>1, <2>1, SettledTypes, AlternatesTail
<1>5. AgreeInv'
  <2> SUFFICES ASSUME Quiet', NEW l \in Int, Says(snap', Tail(events), l)
               PROVE  (profile = l /\ wire = <<>> /\ answers = <<>>)'
    BY <1>1 DEF AgreeInv
  <2>1. Quiet BY <1>1 DEF Quiet
  <2>2. Says(snap, events, l)
    <3>1. CASE Silent(events, 1) /\ snap'.status = "Accepted" /\ snap'.limit = l
      <4>1. Head(events).status = "Accepted" /\ resolve_limit(Head(events).req.val) = l
        BY <1>1, <3>1 DEF publish_command_result, apply_command_result
      <4> QED BY <1>1, <3>1, <4>1, SettledTypes, SaysHead
    <3> QED BY <1>1, <3>1, SettledTypes, SaysTail
  <2> QED BY <1>1, <2>1, <2>2 DEF SettledInv, AgreeInv
<1> QED BY <1>2, <1>3, <1>4, <1>5 DEF SettledInv

\* The publisher takes a link event: a link that comes up finds the link down, so
\* a limit that stands is dispatched.
LEMMA LinkSettles ==
    ASSUME TypeOK, TypeOK', SettledInv, HandleLink
    PROVE  SettledInv'
<1> DEFINE x == [by |-> "reapply", n |-> reapplied + 1, val |-> snap.limit]
           Due == Head(events).up /\ ~wasUp /\ Stands
<1>0. /\ events \in Seq(Events) /\ events # <<>> /\ Head(events) \in Events
      /\ Head(events).up \in BOOLEAN
  <2>1. events \in Seq(Events) /\ events # <<>> BY SettledTypes DEF HandleLink
  <2>2. Head(events) \in Events BY <2>1
  <2> QED BY <2>1, <2>2 DEF Events
<1>1. /\ Head(events).type = "link" /\ events' = Tail(events)
      /\ wasUp' = Head(events).up
      /\ UNCHANGED <<users, session, queued, flight, wire, answers, profile, present, dropped>>
  BY DEF HandleLink, local, charger, history
<1>2. \/ Due /\ reapplied' = reapplied + 1 /\ dispatch_command(x)
      \/ ~Due /\ UNCHANGED <<reapplied, snap, file, inbox>>
  BY Zenon DEF HandleLink
<1>3. x \in Requests /\ x.by = "reapply" /\ x.n = reapplied + 1
  BY DEF TypeOK, Requests, Sources, Snapshots
<1>4. users' \in Nat /\ reapplied' \in Nat
  BY DEF TypeOK, StandingAssumption
<1> HIDE DEF x
<1>5. FreshInv'
  <2>1. CASE reapplied' = reapplied + 1 /\ dispatch_command(x)
    BY <1>1, <1>3, <1>4, <2>1, DispatchFresh DEF SettledInv
  <2>2. CASE UNCHANGED <<reapplied, snap, file, inbox>>
    BY <1>1, <2>2 DEF SettledInv, FreshInv
  <2> QED BY <1>2, <2>1, <2>2, Zenon
<1>6. FlightInv' BY <1>1 DEF SettledInv, FlightInv
<1>7. LinkInv'
  <2> SUFFICES ASSUME ~dropped
               PROVE  /\ Alternates(wasUp', Tail(events))
                      /\ session = "starting" =>
                            DownAt(wasUp', Tail(events), Len(Tail(events)) + 1)
    BY <1>1 DEF LinkInv
  <2>1. /\ Alternates(wasUp, events)
        /\ session = "starting" => DownAt(wasUp, events, Len(events) + 1)
    BY DEF SettledInv, LinkInv
  <2>2. wasUp \in BOOLEAN /\ wasUp' \in BOOLEAN BY <1>0, <1>1, SettledTypes
  <2> QED BY <1>0, <1>1, <2>1, <2>2, AlternatesTail
<1>8. AgreeInv'
  <2> SUFFICES ASSUME Quiet', NEW l \in Int, Says(snap', Tail(events), l)
               PROVE  (profile = l /\ wire = <<>> /\ answers = <<>>)'
    BY <1>1 DEF AgreeInv
  <2>1. session # "none" /\ inbox' = <<>> /\ ~dropped BY <1>1 DEF Quiet
  <2>2. inbox' = inbox /\ (snap'.status # "Accepted" \/ (snap' = snap /\ ~Due))
    <3>1. CASE dispatch_command(x) BY <1>3, <2>1, <3>1, DispatchQuiet
    <3>2. CASE ~Due /\ UNCHANGED <<reapplied, snap, file, inbox>> BY <3>2
    <3> QED BY <1>2, <3>1, <3>2, Zenon
  <2>3. Quiet BY <1>1, <2>2 DEF Quiet
  <2>4. ASSUME Silent(events, 1), snap'.status = "Accepted", snap'.limit = l
        PROVE  Says(snap, events, l)
    <3>1. snap' = snap /\ ~Due BY <2>2, <2>4
    <3>2. Stands BY <2>4, <3>1, StandingAssumption DEF Stands
    <3>3. ~Head(events).up
      <4>1. SUFFICES ASSUME Head(events).up PROVE FALSE OBVIOUS
      <4>2. events[1].up /\ events[1].type = "link" /\ 1 \in 1..Len(events)
        BY <1>0, <1>1, <4>1
      <4>3. DownAt(wasUp, events, 1) BY <2>1, <4>2 DEF SettledInv, LinkInv, Alternates
      <4>4. ~wasUp BY <4>3 DEF DownAt
      <4> QED BY <3>1, <3>2, <4>1, <4>4
    <3> QED BY <1>0, <1>1, <2>4, <3>1, <3>3, SaysHead
  <2>5. Says(snap, events, l) BY <1>0, <2>4, SaysTail
  <2> QED BY <1>1, <2>3, <2>5 DEF SettledInv, AgreeInv
<1> QED BY <1>5, <1>6, <1>7, <1>8 DEF SettledInv

\* The link events of a session.
LEMMA SessionSettles ==
    ASSUME TypeOK, TypeOK', SettledInv, SessionStarts \/ LinkUp \/ LinkDown
    PROVE  SettledInv'
<1>1. UNCHANGED <<snap, wasUp, users, reapplied, inbox, queued, flight, wire, answers, profile>>
  BY DEF SessionStarts, LinkUp, LinkDown, publisher, local, charger
<1>2. FreshInv' BY <1>1 DEF SettledInv, FreshInv
<1>3. FlightInv' BY <1>1 DEF SettledInv, FlightInv
<1>4. events \in Seq(Events) BY SettledTypes
<1>5. ASSUME NEW up \in BOOLEAN
      PROVE  Link(up) \in Events /\ Link(up).type = "link" /\ Link(up).up = up
  BY DEF Link, Events
<1>6. CASE session' = "starting" /\ Emit(<<Link(FALSE)>>)
  <2>1. AgreeInv' BY <1>6 DEF AgreeInv, Quiet
  <2>2. LinkInv'
    <3> SUFFICES ASSUME ~dropped'
                 PROVE  Alternates(wasUp, events') /\ DownAt(wasUp, events', Len(events') + 1)
      BY <1>1 DEF LinkInv
    <3> DEFINE e == Link(FALSE)
    <3>1. ~dropped /\ events' = events \o <<e>> BY <1>6, EmitAll, Zenon
    <3>2. e \in Events /\ e.type = "link" /\ ~e.up BY <1>5
    <3> HIDE DEF e
    <3>3. <<e>> \in Seq(Events) /\ \A i \in 1..Len(<<e>>) : ~(<<e>>[i].type = "link" /\ <<e>>[i].up)
      BY <3>2
    <3>4. Alternates(wasUp, events) BY <3>1 DEF SettledInv, LinkInv
    <3>5. Alternates(wasUp, events \o <<e>>) BY <1>4, <3>3, <3>4, AlternatesConcat
    <3>6. DownAt(wasUp, events \o <<e>>, Len(events \o <<e>>) + 1)
      BY <1>4, <3>2, DownConcat
    <3> QED BY <3>1, <3>5, <3>6
  <2> QED BY <1>2, <1>3, <2>1, <2>2 DEF SettledInv
<1>7. CASE session = "starting" /\ session' = "up" /\ Emit(<<Link(TRUE)>>)
  <2> DEFINE e == Link(TRUE)
  <2>1. e \in Events /\ e.type = "link" /\ e.up BY <1>5
  <2>2. Emit(<<e>>) BY <1>7
  <2> HIDE DEF e
  <2>3. <<e>> \in Seq(Events) /\ <<e>> # <<>> /\ Len(<<e>>) = 1 /\ <<e>>[Len(<<e>>)] = e BY <2>1
  <2>4. LinkInv'
    <3> SUFFICES ASSUME ~dropped' PROVE Alternates(wasUp, events')
      BY <1>1, <1>7 DEF LinkInv
    <3>1. ~dropped /\ events' = events \o <<e>> BY <2>2, EmitAll, Zenon
    <3>2. Alternates(wasUp, events) /\ DownAt(wasUp, events, Len(events) + 1)
      BY <1>7, <3>1 DEF SettledInv, LinkInv
    <3>3. Alternates(wasUp, events \o <<e>>) BY <1>4, <2>3, <3>2, AlternatesConcat
    <3> QED BY <3>1, <3>3
  <2>5. AgreeInv'
    <3> SUFFICES ASSUME Quiet', NEW l \in Int, Says(snap', events', l) PROVE FALSE
      BY DEF AgreeInv
    <3>1. ~dropped' BY DEF Quiet
    <3>2. events' = events \o <<e>> BY <2>2, <3>1, EmitAll, Zenon
    <3> DEFINE t == events \o <<e>>
    <3>3. t \in Seq(Events) /\ t # <<>> /\ t[Len(t)] = e BY <1>4, <2>3, LastConcat
    <3>4. Says(snap', t, l) BY <3>2
    <3> HIDE DEF t
    <3> QED BY <2>1, <3>3, <3>4, SaysLast
  <2> QED BY <1>2, <1>3, <2>4, <2>5 DEF SettledInv
<1> QED BY <1>6, <1>7, Zenon DEF SessionStarts, LinkUp, LinkDown

\* A command enters the slot, and is sent, refused or held.
LEMMA CommandSettles ==
    ASSUME TypeOK, TypeOK', SettledInv, ReceiveCommand
    PROVE  SettledInv'
<1> DEFINE q == Head(inbox)
           c == Tail(inbox)
           es == IF queued = NoRequest THEN <<>> ELSE <<Result(queued, "Superseded")>>
           S == SentOf(answers, wire, flight)
<1>1. /\ session = "up" /\ inbox # <<>> /\ inbox' = c /\ SendLocalCalls(q, flight, es)
      /\ UNCHANGED <<snap, wasUp, users, reapplied, session, answers, profile, present>>
  BY DEF ReceiveCommand, publisher, charger
<1>2. q \in Requests /\ q \in Commands /\ c \in Seq(Requests)
  BY <1>1, SettledTypes, HeadTailProperties DEF Commands
<1>3. es \in Seq(Events) /\ OnlyResults(es)
  <2>1. Unaccepted(<<>>) /\ Unaccepted(<<Result(queued, "Superseded")>>)
    BY SettledTypes, UnacceptedOne DEF Statuses
  <2>2. Unaccepted(es) BY <2>1
  <2> HIDE DEF es
  <2> QED BY <2>2 DEF Unaccepted, OnlyResults
<1>4. Fresh(S, queued, inbox, users, reapplied) /\ Flying(flight, wire, answers, profile)
      /\ OnlyResults(answers)
  BY DEF SettledInv, FreshInv, FlightInv
<1>5. Fresh(S, q, c, users, reapplied)
  BY <1>1, <1>4, SettledTypes, FreshTail
<1> HIDE DEF q, c, es
<1>6. /\ Fresh(SentOf(answers, wire', flight'), queued', c, users, reapplied)
      /\ Flying(flight', wire', answers, profile)
  BY <1>1, <1>2, <1>4, <1>5, SettledTypes, SendSettles
<1>7. FreshInv' /\ FlightInv'
  BY <1>1, <1>4, <1>6 DEF FreshInv, FlightInv
<1>8. LinkInv' BY <1>1, <1>2, <1>3, SendLinks DEF SettledInv
<1>9. AgreeInv'
  <2> SUFFICES ASSUME Quiet', NEW l \in Int, Says(snap', events', l) PROVE FALSE
    BY DEF AgreeInv
  <2>1. ~dropped' /\ queued' = NoRequest /\ flight' = NoRequest BY DEF Quiet
  <2>2. q = NoRequest BY <1>1, <1>2, <1>3, <2>1, SettledTypes, SendQuiet
  <2> QED BY <1>2, <2>2, CommandFields
<1> QED BY <1>7, <1>8, <1>9 DEF SettledInv

\* An answer is taken off, whoever it was for.
LEMMA AnswerTaken ==
    ASSUME TypeOK, SettledInv, answers # <<>>, NEW f \in {flight, NoRequest}
    PROVE  /\ Fresh(SentOf(Tail(answers), wire, f), queued, inbox, users, reapplied)
           /\ Flying(f, wire, Tail(answers), profile) /\ OnlyResults(Tail(answers))
           /\ Tail(answers) \in Seq(Events)
<1>1. answers \in Seq(Events) BY SettledTypes
<1> DEFINE t == Tail(answers)
<1>2. /\ t \in Seq(Events)
      /\ \A i \in 1..Len(t) : i + 1 \in 1..Len(answers) /\ t[i] = answers[i + 1]
  BY <1>1
<1>3. Flying(flight, wire, t, profile)
  BY <1>1, FlyingTail DEF SettledInv, FlightInv
<1> HIDE DEF t
<1>4. Flying(f, wire, t, profile) BY <1>3 DEF Flying
<1>5. OnlyResults(t) BY <1>2 DEF SettledInv, FlightInv, OnlyResults
<1>6. SentOf(t, wire, f) \subseteq SentOf(answers, wire, flight) \cup {NoRequest}
  BY <1>2 DEF SentOf
<1>7. Fresh(SentOf(t, wire, f), queued, inbox, users, reapplied)
  BY <1>6, FreshForget DEF SettledInv
<1> QED BY <1>2, <1>4, <1>5, <1>7 DEF t

\* An answer to the Call in flight is the last that was under way.
LEMMA AnswerSettles ==
    ASSUME TypeOK, TypeOK', SettledInv, AnswerArrives
    PROVE  SettledInv'
<1> DEFINE e == Head(answers)
           a == Tail(answers)
<1>1. /\ session = "up" /\ answers # <<>> /\ answers' = a
      /\ UNCHANGED <<snap, wasUp, users, reapplied, session, inbox, profile, present>>
  BY DEF AnswerArrives, publisher, charger
<1>2. /\ answers \in Seq(Events) /\ e \in Events /\ e = answers[1] /\ 1 \in 1..Len(answers)
      /\ Len(answers) = 1 => a = <<>>
  <2>1. answers \in Seq(Events) BY SettledTypes
  <2>2. e \in Events /\ e = answers[1] /\ 1 \in 1..Len(answers) BY <1>1, <2>1
  <2>3. a \in Seq(Events) /\ Len(a) = Len(answers) - 1 BY <1>1, <2>1
  <2> HIDE DEF a, e
  <2>4. Len(answers) = 1 => a = <<>> BY <2>3, EmptySeq
  <2> QED BY <2>1, <2>2, <2>4
<1>3. e.type = "result" BY <1>2 DEF SettledInv, FlightInv, OnlyResults
<1>4. CASE e.req = flight /\ SendLocalCalls(queued, NoRequest, <<e>>)
  <2>1. /\ Fresh(SentOf(a, wire, NoRequest), queued, inbox, users, reapplied)
        /\ Flying(NoRequest, wire, a, profile) /\ OnlyResults(a) /\ a \in Seq(Events)
    BY <1>1, AnswerTaken
  <2> HIDE DEF a, e
  <2>2. NoRequest \in Commands /\ inbox \in Seq(Requests) /\ queued \in Commands
    BY SettledTypes DEF Commands
  <2>3. /\ Fresh(SentOf(a, wire', flight'), queued', inbox, users, reapplied)
        /\ Flying(flight', wire', a, profile)
    BY <1>4, <2>1, <2>2, SendSettles
  <2>4. FreshInv' /\ FlightInv' BY <1>1, <2>1, <2>3 DEF FreshInv, FlightInv
  <2>5. /\ <<e>> \in Seq(Events) /\ OnlyResults(<<e>>) /\ <<e>> # <<>>
        /\ <<e>>[Len(<<e>>)] = e
    BY <1>2, <1>3 DEF OnlyResults
  <2>6. LinkInv' BY <1>1, <1>4, <2>2, <2>5, SendLinks DEF SettledInv
  <2>7. AgreeInv'
    <3> SUFFICES ASSUME Quiet', NEW l \in Int, Says(snap', events', l)
                 PROVE  (profile = l /\ wire = <<>> /\ answers = <<>>)'
      BY DEF AgreeInv
    <3>1. ~dropped' /\ queued' = NoRequest /\ flight' = NoRequest BY DEF Quiet
    <3>2. events' = events \o <<e>> /\ wire' = wire
      BY <1>4, <2>2, <2>5, <3>1, SendQuiet
    <3> DEFINE t == events \o <<e>>
    <3>3. t \in Seq(Events) /\ t # <<>> /\ t[Len(t)] = e
      BY <2>5, SettledTypes, LastConcat
    <3>4. Says(snap', t, l) BY <3>2
    <3> HIDE DEF t
    <3>5. e.status = "Accepted" /\ resolve_limit(e.req.val) = l
      BY <1>3, <3>3, <3>4, SaysLast
    <3>6. flight # NoRequest
      <4>1. NoLimit \notin Int BY StandingAssumption
      <4>2. resolve_limit(NoRequest.val) = NoLimit BY DEF resolve_limit, NoRequest
      <4> QED BY <1>4, <3>5, <4>1, <4>2
    <3>7. 1 = Len(answers) /\ wire = <<>> /\ profile = resolve_limit(flight.val)
      BY <1>2, <1>4, <3>5, <3>6 DEF SettledInv, FlightInv, Flying
    <3> QED BY <1>1, <1>2, <1>4, <3>2, <3>5, <3>7
  <2> QED BY <2>4, <2>6, <2>7 DEF SettledInv
<1>5. CASE UNCHANGED <<local, events, wire, dropped>>
  <2>1. UNCHANGED <<queued, flight>> BY <1>5 DEF local
  <2>2. /\ Fresh(SentOf(a, wire, flight), queued, inbox, users, reapplied)
        /\ Flying(flight, wire, a, profile) /\ OnlyResults(a)
    BY <1>1, AnswerTaken
  <2>3. FreshInv' /\ FlightInv' BY <1>1, <1>5, <2>1, <2>2 DEF FreshInv, FlightInv
  <2>4. LinkInv' BY <1>1, <1>5 DEF SettledInv, LinkInv
  <2>5. AgreeInv'
    <3> SUFFICES ASSUME Quiet', NEW l \in Int, Says(snap', events', l) PROVE FALSE
      BY DEF AgreeInv
    <3>1. Quiet BY <1>1, <1>5, <2>1 DEF Quiet
    <3>2. Says(snap, events, l) BY <1>1, <1>5
    <3> QED BY <1>1, <3>1, <3>2 DEF SettledInv, AgreeInv
  <2> QED BY <2>3, <2>4, <2>5 DEF SettledInv
<1> QED BY <1>4, <1>5, Zenon DEF AnswerArrives

\* An answer is lost while the session reconnects; its Call stays in flight.
LEMMA ThrownAwaySettles ==
    ASSUME TypeOK, TypeOK', SettledInv, AnswerThrownAway
    PROVE  SettledInv'
<1>1. /\ session = "starting" /\ answers # <<>> /\ answers' = Tail(answers)
      /\ UNCHANGED <<snap, wasUp, users, reapplied, session, inbox, profile, present, events,
                     queued, flight, wire, dropped>>
  BY DEF AnswerThrownAway, publisher, local, charger, history
<1>2. /\ Fresh(SentOf(Tail(answers), wire, flight), queued, inbox, users, reapplied)
      /\ Flying(flight, wire, Tail(answers), profile) /\ OnlyResults(Tail(answers))
  BY <1>1, AnswerTaken
<1>3. FreshInv' /\ FlightInv' BY <1>1, <1>2 DEF FreshInv, FlightInv
<1>4. LinkInv' BY <1>1 DEF SettledInv, LinkInv
<1>5. AgreeInv' BY <1>1 DEF AgreeInv, Quiet
<1> QED BY <1>3, <1>4, <1>5 DEF SettledInv

\* A command that waited too long leaves a result that is not accepted.
LEMMA TickSettles ==
    ASSUME TypeOK, TypeOK', SettledInv, CommandTick
    PROVE  SettledInv'
<1> DEFINE Gone(now, was) == IF now = was THEN <<>> ELSE <<Result(was, "Timeout")>>
<1>1. /\ session = "up" /\ (queued # NoRequest \/ flight # NoRequest)
      /\ UNCHANGED <<snap, wasUp, users, reapplied, session, inbox, answers, profile, present>>
  BY DEF CommandTick, publisher, charger
<1>2. PICK q \in {queued, NoRequest}, f \in {flight, NoRequest} :
         SendLocalCalls(q, f, Gone(q, queued) \o Gone(f, flight))
  BY Zenon DEF CommandTick
<1>3. /\ q \in Commands /\ f \in Commands /\ inbox \in Seq(Requests)
      /\ answers \in Seq(Events) /\ events \in Seq(Events)
  BY SettledTypes DEF Commands
<1>4. Unaccepted(Gone(q, queued)) /\ Unaccepted(Gone(f, flight))
  <2>1. /\ Unaccepted(<<>>) /\ Unaccepted(<<Result(queued, "Timeout")>>)
        /\ Unaccepted(<<Result(flight, "Timeout")>>)
    BY SettledTypes, UnacceptedOne DEF Statuses
  <2> QED BY <2>1
<1>5. Gone(q, queued) \o Gone(f, flight) = <<>> => q = queued /\ f = flight
  <2>1. ASSUME NEW r, NEW s PROVE <<r>> \o <<s>> # <<>> /\ <<r>> \o <<>> # <<>> /\ <<>> \o <<s>> # <<>>
    OBVIOUS
  <2> QED BY <2>1
<1> DEFINE es == Gone(q, queued) \o Gone(f, flight)
<1> HIDE DEF Gone
<1>6. Unaccepted(es) BY <1>4, UnacceptedConcat
<1>7. SendLocalCalls(q, f, es) /\ (es = <<>> => q = queued /\ f = flight) BY <1>2, <1>5
<1> HIDE DEF es
<1>8. es \in Seq(Events) /\ OnlyResults(es) BY <1>6 DEF Unaccepted, OnlyResults
<1>9. Fresh(SentOf(answers, wire, f), q, inbox, users, reapplied)
  <2>1. SentOf(answers, wire, f) \subseteq SentOf(answers, wire, flight) \cup {NoRequest}
    BY DEF SentOf
  <2> QED BY <2>1, FreshForget DEF SettledInv
<1>10. Flying(f, wire, answers, profile) /\ OnlyResults(answers)
  BY DEF SettledInv, FlightInv, Flying
<1>11. /\ Fresh(SentOf(answers, wire', flight'), queued', inbox, users, reapplied)
       /\ Flying(flight', wire', answers, profile)
  BY <1>3, <1>7, <1>9, <1>10, SendSettles
<1>12. FreshInv' /\ FlightInv' BY <1>1, <1>10, <1>11 DEF FreshInv, FlightInv
<1>13. LinkInv' BY <1>1, <1>3, <1>7, <1>8, SendLinks DEF SettledInv
<1>14. AgreeInv'
  <2> SUFFICES ASSUME Quiet', NEW l \in Int, Says(snap', events', l) PROVE FALSE
    BY DEF AgreeInv
  <2>1. ~dropped' /\ queued' = NoRequest /\ flight' = NoRequest BY DEF Quiet
  <2>2. q = NoRequest /\ f = NoRequest /\ events' = events \o es
    BY <1>3, <1>7, <1>8, <2>1, SendQuiet
  <2>3. es # <<>> BY <1>1, <1>7, <2>2
  <2>4. ~Says(snap', events \o es, l) BY <1>3, <1>6, <2>3, UnacceptedSays
  <2> QED BY <2>2, <2>4
<1> QED BY <1>12, <1>13, <1>14 DEF SettledInv

\* The teardown reports what it finds.
LEMMA TeardownSettles ==
    ASSUME TypeOK, TypeOK', SettledInv, Teardown
    PROVE  SettledInv'
<1> DEFINE late == [i \in 1..Len(inbox) |-> Result(inbox[i], "NotConnected")]
           waiting == IF queued = NoRequest THEN <<>> ELSE <<Result(queued, "NotConnected")>>
           sent == IF flight = NoRequest THEN <<>> ELSE <<Result(flight, "Timeout")>>
           es == waiting \o sent \o late
<1>1. /\ session' = "closing" /\ inbox' = <<>> /\ queued' = NoRequest /\ flight' = NoRequest
      /\ UNCHANGED <<snap, wasUp, users, reapplied, wire, answers, profile>>
  BY DEF Teardown, publisher, charger
<1>2. Emit(es) BY DEF Teardown
<1>3. Unaccepted(waiting) /\ Unaccepted(sent)
  <2>1. /\ Unaccepted(<<>>) /\ Unaccepted(<<Result(queued, "NotConnected")>>)
        /\ Unaccepted(<<Result(flight, "Timeout")>>)
    BY SettledTypes, UnacceptedOne DEF Statuses
  <2> QED BY <2>1
<1>4. Unaccepted(late)
  <2>1. inbox \in Seq(Requests) /\ Len(inbox) \in Nat BY SettledTypes, LenProperties
  <2>2. ASSUME NEW i \in 1..Len(inbox)
        PROVE  /\ Result(inbox[i], "NotConnected") \in Events
               /\ Result(inbox[i], "NotConnected").type = "result"
               /\ Result(inbox[i], "NotConnected").status # "Accepted"
    <3>1. inbox[i] \in Requests BY <2>1, ElementOfSeq
    <3> QED BY <3>1 DEF Result, Events, Statuses
  <2>3. late \in Seq(Events) /\ Len(late) = Len(inbox) BY <2>1, <2>2
  <2>4. \A i \in 1..Len(late) : late[i].type = "result" /\ late[i].status # "Accepted"
    BY <2>2, <2>3
  <2> HIDE DEF late
  <2> QED BY <2>3, <2>4 DEF Unaccepted
<1> HIDE DEF late, waiting, sent
<1>5. Unaccepted(es) BY <1>3, <1>4, UnacceptedConcat
<1> HIDE DEF es
<1>6. FreshInv'
  <2>1. SentOf(answers, wire, NoRequest) \subseteq SentOf(answers, wire, flight) \cup {NoRequest}
    BY DEF SentOf
  <2>2. Fresh(SentOf(answers, wire, NoRequest), NoRequest, <<>>, users, reapplied)
    BY <2>1, FreshForget DEF SettledInv
  <2> QED BY <1>1, <2>2 DEF FreshInv
<1>7. FlightInv' BY <1>1 DEF SettledInv, FlightInv, Flying
<1>8. LinkInv'
  <2> SUFFICES ASSUME ~dropped' PROVE Alternates(wasUp, events')
    BY <1>1 DEF LinkInv
  <2>1. ~dropped /\ events' = events \o es BY <1>2, EmitAll, Zenon
  <2>2. Alternates(wasUp, events) BY <2>1 DEF SettledInv, LinkInv
  <2>3. Alternates(wasUp, events \o es)
    BY <1>5, <2>2, SettledTypes, AlternatesConcat DEF Unaccepted
  <2> QED BY <2>1, <2>3
<1>9. AgreeInv' BY <1>1 DEF AgreeInv, Quiet
<1> QED BY <1>6, <1>7, <1>8, <1>9 DEF SettledInv

\* The session returns: the link is down.
LEMMA EndSettles ==
    ASSUME TypeOK, TypeOK', SettledInv, SessionEnds
    PROVE  SettledInv'
<1>1. /\ session' = "none" /\ inbox' = <<>> /\ wire' = <<>> /\ answers' = <<>>
      /\ Emit(<<Link(FALSE)>>)
      /\ UNCHANGED <<wasUp, users, reapplied, queued, flight, profile>>
  BY DEF SessionEnds, publisher, local
<1>2. FreshInv'
  <2>1. SentOf(<<>>, <<>>, flight) \subseteq SentOf(answers, wire, flight) \cup {NoRequest}
    BY SentEmpty DEF SentOf
  <2>2. Fresh(SentOf(<<>>, <<>>, flight), queued, <<>>, users, reapplied)
    BY <2>1, FreshForget DEF SettledInv
  <2> QED BY <1>1, <2>2 DEF FreshInv
<1>3. FlightInv' BY <1>1, FlyingEmpty DEF FlightInv
<1>4. LinkInv'
  <2> SUFFICES ASSUME ~dropped' PROVE Alternates(wasUp, events')
    BY <1>1 DEF LinkInv
  <2> DEFINE e == Link(FALSE)
  <2>1. ~dropped /\ events' = events \o <<e>> BY <1>1, EmitAll, Zenon
  <2>2. e \in Events /\ ~e.up BY DEF Link, Events
  <2> HIDE DEF e
  <2>3. <<e>> \in Seq(Events) /\ \A i \in 1..Len(<<e>>) : ~(<<e>>[i].type = "link" /\ <<e>>[i].up)
    BY <2>2
  <2>4. Alternates(wasUp, events) BY <2>1 DEF SettledInv, LinkInv
  <2>5. Alternates(wasUp, events \o <<e>>) BY <2>3, <2>4, SettledTypes, AlternatesConcat
  <2> QED BY <2>1, <2>5
<1>5. AgreeInv' BY <1>1 DEF AgreeInv, Quiet
<1> QED BY <1>2, <1>3, <1>4, <1>5 DEF SettledInv

\* The charger answers: with a limit that has the last word, nothing was asked.
LEMMA ChargerSettles ==
    ASSUME TypeOK, TypeOK', SettledInv, NEW status \in {"Accepted", "Rejected"},
           ChargerAnswers(status)
    PROVE  SettledInv'
<1> DEFINE e == Result(Head(wire), status)
           w == Tail(wire)
           a == Append(answers, e)
<1>1. /\ wire # <<>> /\ wire' = w /\ answers' = a
      /\ UNCHANGED <<snap, wasUp, users, reapplied, events, session, inbox, queued, flight,
                     present, dropped>>
      /\ status = "Accepted" => profile' = resolve_limit(Head(wire).val)
  BY DEF ChargerAnswers, publisher, local
<1>2. /\ wire \in Seq(Requests) /\ answers \in Seq(Events)
      /\ Fresh(SentOf(answers, wire, flight), queued, inbox, users, reapplied)
      /\ Flying(flight, wire, answers, profile) /\ OnlyResults(answers)
  BY SettledTypes DEF SettledInv, FreshInv, FlightInv
<1>3. Flying(flight, w, a, profile')
  BY <1>1, <1>2, FlyingAnswer
<1>4. e.req = wire[1] /\ e.type = "result" /\ Len(wire) \in Nat /\ 1 \in 1..Len(wire)
  <2>1. Len(wire) \in Nat /\ 1 \in 1..Len(wire) /\ Head(wire) = wire[1] BY <1>1, <1>2
  <2> QED BY <2>1 DEF Result
<1>5. \A i \in 1..Len(w) : i + 1 \in 1..Len(wire) /\ w[i] = wire[i + 1]
  BY <1>1, <1>2
<1> HIDE DEF e, w
<1>6. \A i \in 1..Len(a) : a[i] = e \/ (i \in 1..Len(answers) /\ a[i] = answers[i])
  BY <1>2
<1> HIDE DEF a
<1>7. OnlyResults(a) BY <1>2, <1>4, <1>6 DEF OnlyResults
<1>8. SentOf(a, w, flight) \subseteq SentOf(answers, wire, flight) \cup {NoRequest}
  BY <1>4, <1>5, <1>6 DEF SentOf
<1>9. Fresh(SentOf(a, w, flight), queued, inbox, users, reapplied)
  BY <1>8, FreshForget DEF SettledInv
<1>10. FreshInv' /\ FlightInv' BY <1>1, <1>3, <1>7, <1>9 DEF FreshInv, FlightInv
<1>11. LinkInv' BY <1>1 DEF SettledInv, LinkInv
<1>12. AgreeInv'
  <2> SUFFICES ASSUME Quiet', NEW l \in Int, Says(snap', events', l) PROVE FALSE
    BY DEF AgreeInv
  <2>1. Quiet BY <1>1 DEF Quiet
  <2>2. Says(snap, events, l) BY <1>1
  <2> QED BY <1>1, <2>1, <2>2 DEF SettledInv, AgreeInv
<1> QED BY <1>10, <1>11, <1>12 DEF SettledInv

\* A reboot or a restart: the charger is not there.
LEMMA CrashSettles ==
    ASSUME TypeOK, TypeOK', SettledInv, ChargerReboots \/ ProxyRestarts
    PROVE  SettledInv'
<1>1. /\ ~present' /\ wire' = <<>> /\ answers' = <<>> /\ UNCHANGED <<users, reapplied>>
      /\ queued' \in {queued, NoRequest} /\ flight' \in {flight, NoRequest}
      /\ inbox' \in {inbox, <<>>}
  BY DEF ChargerReboots, ProxyRestarts, publisher, local
<1>2. FreshInv'
  <2>1. SentOf(<<>>, <<>>, flight') \subseteq SentOf(answers, wire, flight) \cup {NoRequest}
    BY <1>1, SentEmpty DEF SentOf
  <2>2. Fresh(SentOf(<<>>, <<>>, flight'), queued', inbox', users, reapplied)
    BY <1>1, <2>1, FreshForget DEF SettledInv
  <2> QED BY <1>1, <2>2 DEF FreshInv
<1>3. FlightInv' BY <1>1, FlyingEmpty DEF FlightInv
<1>4. LinkInv'
  <2>1. CASE ChargerReboots
    <3>1. UNCHANGED <<events, wasUp, session, dropped>>
      BY <2>1 DEF ChargerReboots, publisher, history
    <3> QED BY <3>1 DEF SettledInv, LinkInv
  <2>2. CASE ProxyRestarts
    <3>1. events' = <<>> /\ session' = "none" /\ Len(<<>>) = 0 BY <2>2 DEF ProxyRestarts
    <3> QED BY <3>1 DEF LinkInv, Alternates
  <2> QED BY <2>1, <2>2
<1>5. AgreeInv' BY <1>1 DEF AgreeInv, Quiet
<1> QED BY <1>2, <1>3, <1>4, <1>5 DEF SettledInv

\* Every step keeps the invariant.
LEMMA SettledStep == TypeOK /\ TypeOK' /\ SettledInv /\ [Next]_vars => SettledInv'
<1> SUFFICES ASSUME TypeOK, TypeOK', SettledInv, [Next]_vars PROVE SettledInv'
  OBVIOUS
<1>1. CASE HandleMessage \/ Idle \/ UNCHANGED vars
  <2>1. UNCHANGED <<snap, wasUp, users, reapplied, events, session, inbox, queued, flight, wire,
                    answers, profile, present, dropped>>
    BY <1>1 DEF HandleMessage, Idle, vars, publisher, local, charger, history
  <2>2. FreshInv' BY <2>1 DEF SettledInv, FreshInv
  <2>3. FlightInv' BY <2>1 DEF SettledInv, FlightInv
  <2>4. LinkInv' BY <2>1 DEF SettledInv, LinkInv
  <2>5. AgreeInv' BY <2>1 DEF SettledInv, AgreeInv, Quiet
  <2> QED BY <2>2, <2>3, <2>4, <2>5 DEF SettledInv
<1> QED BY <1>1, UserSettles, ResultSettles, LinkSettles, SessionSettles, CommandSettles,
          AnswerSettles, ThrownAwaySettles, TickSettles, TeardownSettles, EndSettles,
          ChargerSettles, CrashSettles, Zenon DEF Next

\* Once things have settled, a limit shown as accepted is the one installed in the
\* charger, for all limits, capacities and numbers of commands, reboots, restarts
\* and timeouts, as long as no event was lost.
THEOREM SettledAlwaysAgrees == Spec => []SettledAgrees
<1>1. Init => SettledInv
  <2> SUFFICES ASSUME Init PROVE SettledInv OBVIOUS
  <2>1. FreshInv
    <3>1. SentOf(answers, wire, flight) = {NoRequest} BY SentEmpty DEF Init
    <3>2. Len(inbox) = 0 /\ queued = NoRequest BY DEF Init
    <3> QED BY <3>1, <3>2, CommandFields DEF FreshInv, Fresh, CountedBy
  <2>2. FlightInv BY FlyingEmpty DEF Init, FlightInv
  <2>3. LinkInv BY DEF Init, LinkInv, Alternates
  <2>4. AgreeInv BY DEF Init, AgreeInv, Quiet
  <2> QED BY <2>1, <2>2, <2>3, <2>4 DEF SettledInv
<1>2. TypeOK /\ SettledInv => SettledAgrees
  <2> SUFFICES ASSUME TypeOK, SettledInv, Settled, ~dropped, snap.limit # NoLimit,
                      snap.status = "Accepted"
               PROVE  profile = snap.limit
    BY DEF SettledAgrees
  <2>1. snap.limit \in Int BY DEF TypeOK, Snapshots, Values
  <2>2. Quiet BY DEF Settled, Quiet
  <2>3. events = <<>> /\ Len(<<>>) = 0 BY DEF Settled
  <2>4. Says(snap, events, snap.limit) BY <2>3 DEF Says, Silent
  <2> QED BY <2>1, <2>2, <2>4 DEF SettledInv, AgreeInv
<1> QED BY <1>1, <1>2, SettledStep, StandingTypes, PTL DEF Spec
=============================================================================
