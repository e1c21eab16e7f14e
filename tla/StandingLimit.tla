--------------------------- MODULE StandingLimit ----------------------------
(***************************************************************************)
(* The standing current limit of one charger: what the MQTT publisher      *)
(* keeps of the results of limit commands (mqtt.rs), its file              *)
(* (snapshot_store.rs), and the re-application when the link comes up,     *)
(* with the charger's sessions one after another, the charger, which may   *)
(* reboot and forget its profile, and crashes of the proxy.                *)
(*                                                                         *)
(* Only limit commands are modelled: they coalesce, so the session's queue *)
(* is one slot (OneLimitQueued of Session.tla).  The proxy's Calls wait    *)
(* for a clear line at any time and for any time.  Commands are enabled,   *)
(* reapply_on_connect is set, this is the only charger, and one session    *)
(* follows another: the upstream state all sessions share is in            *)
(* Registry.tla, sessions that overlap too.                                *)
(***************************************************************************)
EXTENDS Integers, Sequences

CONSTANTS
    Asked,       \* the limits users ask for, in tenths of an ampere
    MinLimit,    \* config.min_limit_a
    MaxLimit,    \* config.max_limit_a
    NoLimit,     \* Option::None: no limit installed; as a command, ClearCurrentLimit
    MaxUser,     \* commands of users (a bound of the model)
    MaxEnds,     \* sessions ended, reboots and crashes (a bound of the model)
    InboxCap,    \* COMMAND_CHANNEL_CAPACITY
    EventCap     \* capacity of the channel to the publisher

\* The limits are what ChargingConfig::validate lets through.
ASSUME StandingAssumption ==
    /\ Asked \subseteq Int /\ NoLimit \notin Int
    /\ MinLimit \in Nat /\ MaxLimit \in Nat /\ MinLimit <= MaxLimit
    /\ MaxUser \in Nat /\ MaxEnds \in Nat
    /\ InboxCap \in Nat \ {0} /\ EventCap \in Nat \ {0}

Values == Int \cup {NoLimit}
Sources == {"user", "reapply"}

\* Rejected stands for Error too: nothing here tells them apart.
Statuses == {"Accepted", "Rejected", "Timeout", "NotConnected", "Invalid", "Superseded"}

\* A limit command.  Its number makes it a Call of its own: next_unique_id.
Requests == [by : Sources, n : Nat, val : Values]
NoRequest == [by |-> "none", n |-> 0, val |-> NoLimit]

\* resolve_limit refuses a negative limit.  NoLimit is not resolved.
Refused(val) == val # NoLimit /\ val < 0

\* resolve_limit: what a command installs.
resolve_limit(val) ==
    CASE val = NoLimit -> NoLimit
      [] val # NoLimit /\ val < MinLimit -> 0
      [] val # NoLimit /\ val > MaxLimit -> MaxLimit
      [] OTHER -> val

VARIABLES
    snap,        \* charge_point_state: current_limit_a and current_limit_status
    file,        \* what the snapshot file holds of it
    wasUp,       \* link_state: both connections were up at the last StateChange
    events,      \* the channel from the sessions to the publisher
    users,       \* commands of users so far
    reapplied,   \* re-applications so far
    session,     \* the session of the charger
    inbox,       \* its command channel
    queued,      \* local_calls.queued, at most one limit command
    flight,      \* local_calls.in_flight
    wire,        \* Calls under way to the charger
    answers,     \* its answers under way back
    profile,     \* the limit installed in the charger
    present,     \* the charger is still at the other end of the session
    ends,        \* sessions ended, reboots and crashes so far
    taken,       \* history: limits the charger has answered Accepted to
    dropped      \* history: an event found the channel to the publisher full

publisher == <<snap, file, wasUp, users, reapplied>>
local == <<queued, flight>>
charger == <<profile, present>>
history == <<taken, dropped>>

vars == <<publisher, events, session, inbox, local, wire, answers, charger, ends, history>>

Blank == [limit |-> NoLimit, status |-> "none"]

Link(up) == [type |-> "link", up |-> up, req |-> NoRequest, status |-> "none"]
Result(req, status) == [type |-> "result", up |-> FALSE, req |-> req, status |-> status]

Init ==
    /\ snap = Blank /\ file = Blank /\ wasUp = FALSE /\ users = 0 /\ reapplied = 0
    /\ events = <<>>
    /\ session = "none" /\ inbox = <<>> /\ queued = NoRequest /\ flight = NoRequest
    /\ wire = <<>> /\ answers = <<>>
    /\ profile = NoLimit /\ present = FALSE
    /\ ends = 0
    /\ taken = {} /\ dropped = FALSE
------------------------------------------------------------------------------
(***************************************************************************)
(* The publisher: results, the file, dispatch and re-application.          *)
(***************************************************************************)

\* Mutants: a Call that timed out is taken for accepted; the status is written in
\* another spelling than it is read in.
RecordsTimeouts(s, req, status) ==
    [limit |-> IF status \in {"Accepted", "Timeout"} THEN resolve_limit(req.val) ELSE s.limit,
     status |-> IF status = "Timeout" THEN "Accepted" ELSE status]
RecordsSpelling(s, req, status) ==
    [limit |-> IF status = "Accepted" THEN resolve_limit(req.val) ELSE s.limit,
     status |-> IF status = "Accepted" THEN "accepted" ELSE status]

\* ChargePointState::apply_command_result.
apply_command_result(s, req, status) ==
    [limit |-> IF status = "Accepted" THEN resolve_limit(req.val) ELSE s.limit,
     status |-> status]

\* publish_command_result: saved only when it changed something, and a save
\* that fails (a full or read-only disk) is only logged.
publish_command_result(req, status) ==
    /\ snap' = apply_command_result(snap, req, status)
    /\ \/ file' = IF snap' = snap THEN file ELSE snap'
       \/ UNCHANGED file

\* dispatch_command and CommandRouter::dispatch; a session is in the router
\* until it has returned, also while it is closing.
dispatch_command(req) ==
    \/ /\ session = "none"
       /\ publish_command_result(req, "NotConnected")
       /\ UNCHANGED inbox
    \/ /\ session # "none" /\ Len(inbox) >= InboxCap
       /\ publish_command_result(req, "Rejected")
       /\ UNCHANGED inbox
    \/ /\ session # "none" /\ Len(inbox) < InboxCap
       /\ inbox' = Append(inbox, req)
       /\ UNCHANGED <<snap, file>>

UserCommands(v) ==
    /\ users < MaxUser
    /\ users' = users + 1
    /\ dispatch_command([by |-> "user", n |-> users + 1, val |-> v])
    /\ UNCHANGED <<wasUp, reapplied, events, session, local, wire, answers, charger, ends, history>>

\* Mutant: the status is compared with another spelling.
StandsMisspelt == snap.limit # NoLimit /\ snap.status = "accepted"

\* maybe_reapply_limit: what it takes for the standing limit.
Stands == snap.limit # NoLimit /\ snap.status = "Accepted"

HandleResult ==
    /\ events # <<>> /\ Head(events).type = "result"
    /\ events' = Tail(events)
    /\ publish_command_result(Head(events).req, Head(events).status)
    /\ UNCHANGED <<wasUp, users, reapplied, session, inbox, local, wire, answers, charger,
                   ends, history>>

\* handle_event saves the whole snapshot when an OCPP message changes it.
HandleMessage ==
    /\ file # snap
    /\ file' = snap
    /\ UNCHANGED <<snap, wasUp, users, reapplied, events, session, inbox, local, wire,
                   answers, charger, ends, history>>

HandleLink ==
    /\ events # <<>> /\ Head(events).type = "link"
    /\ events' = Tail(events)
    /\ wasUp' = Head(events).up
    /\ \/ /\ Head(events).up /\ ~wasUp /\ Stands
          /\ reapplied' = reapplied + 1
          /\ dispatch_command([by |-> "reapply", n |-> reapplied + 1, val |-> snap.limit])
       \/ /\ ~(Head(events).up /\ ~wasUp /\ Stands)
          /\ UNCHANGED <<reapplied, snap, file, inbox>>
    /\ UNCHANGED <<users, session, local, wire, answers, charger, ends, history>>
------------------------------------------------------------------------------
(***************************************************************************)
(* The session, as far as limit commands and the link go.  Session.tla has *)
(* the rest.                                                               *)
(***************************************************************************)

\* try_send of one event after another: what does not fit is dropped.
Emit(es) ==
    \/ /\ Len(events \o es) <= EventCap
       /\ events' = events \o es
       /\ UNCHANGED dropped
    \/ /\ Len(events \o es) > EventCap
       /\ events' = SubSeq(events \o es, 1, EventCap)
       /\ dropped' = TRUE

SessionStarts ==
    /\ session = "none"
    /\ session' = "starting"
    /\ present' = TRUE
    /\ Emit(<<Link(FALSE)>>)
    /\ UNCHANGED <<publisher, inbox, local, wire, answers, profile, ends, taken>>

LinkUp ==
    /\ session = "starting"
    /\ session' = "up"
    /\ Emit(<<Link(TRUE)>>)
    /\ UNCHANGED <<publisher, inbox, local, wire, answers, charger, ends, taken>>

LinkDown ==
    /\ session = "up" /\ ends < MaxEnds
    /\ ends' = ends + 1
    /\ session' = "starting"
    /\ Emit(<<Link(FALSE)>>)
    /\ UNCHANGED <<publisher, inbox, local, wire, answers, charger, taken>>

\* send_local_calls for the slot q and Call in flight f its caller leaves,
\* after the results es: held for the Central System's Call, refused by
\* prepare_call, or sent.  A send that fails reports and ends the session as
\* Teardown does with the command still in its slot.
SendLocalCalls(q, f, es) ==
    \/ /\ queued' = q /\ flight' = f
       /\ Emit(es)
       /\ UNCHANGED wire
    \/ /\ f = NoRequest /\ q # NoRequest /\ Refused(q.val)
       /\ queued' = NoRequest /\ flight' = NoRequest
       /\ Emit(Append(es, Result(q, "Invalid")))
       /\ UNCHANGED wire
    \/ /\ f = NoRequest /\ q # NoRequest /\ ~Refused(q.val)
       /\ queued' = NoRequest /\ flight' = q
       /\ wire' = Append(wire, q)
       /\ Emit(es)

ReceiveCommand ==
    /\ session = "up" /\ inbox # <<>>
    /\ inbox' = Tail(inbox)
    /\ LET displaced == IF queued = NoRequest THEN <<>> ELSE <<Result(queued, "Superseded")>>
       IN SendLocalCalls(Head(inbox), flight, displaced)
    /\ UNCHANGED <<publisher, session, answers, charger, ends, taken>>

\* An answer that is not to the Call in flight is forwarded upstream.
AnswerArrives ==
    /\ session = "up" /\ answers # <<>>
    /\ answers' = Tail(answers)
    /\ \/ /\ Head(answers).req = flight
          /\ SendLocalCalls(queued, NoRequest, <<Head(answers)>>)
       \/ /\ Head(answers).req # flight
          /\ UNCHANGED <<local, events, wire, dropped>>
    /\ UNCHANGED <<publisher, session, inbox, charger, ends, taken>>

\* An answer read while waiting to reconnect is thrown away.
AnswerThrownAway ==
    /\ session = "starting" /\ answers # <<>>
    /\ answers' = Tail(answers)
    /\ UNCHANGED <<publisher, events, session, inbox, local, wire, charger, ends, history>>

\* command_tick: the queued command, the one in flight, both or none have
\* waited too long.
CommandTick ==
    /\ session = "up" /\ (queued # NoRequest \/ flight # NoRequest)
    /\ \E q \in {queued, NoRequest}, f \in {flight, NoRequest} :
          SendLocalCalls(q, f,
              (IF q = queued THEN <<>> ELSE <<Result(queued, "Timeout")>>) \o
              (IF f = flight THEN <<>> ELSE <<Result(flight, "Timeout")>>))
    /\ UNCHANGED <<publisher, session, inbox, answers, charger, ends, taken>>

\* The teardown of run_session reports everything it finds.
Teardown ==
    /\ session \in {"starting", "up"}
    /\ present => ends < MaxEnds
    /\ ends' = IF present THEN ends + 1 ELSE ends
    /\ session' = "closing"
    /\ Emit((IF queued = NoRequest THEN <<>> ELSE <<Result(queued, "NotConnected")>>) \o
            (IF flight = NoRequest THEN <<>> ELSE <<Result(flight, "Timeout")>>) \o
            [i \in 1..Len(inbox) |-> Result(inbox[i], "NotConnected")])
    /\ inbox' = <<>> /\ queued' = NoRequest /\ flight' = NoRequest
    /\ UNCHANGED <<publisher, wire, answers, charger, taken>>

\* run_session returns, the last states are published and the router entry is
\* removed; what was dispatched since the teardown is gone.
SessionEnds ==
    /\ session = "closing"
    /\ session' = "none"
    /\ present' = FALSE
    /\ inbox' = <<>> /\ wire' = <<>> /\ answers' = <<>>
    /\ Emit(<<Link(FALSE)>>)
    /\ UNCHANGED <<publisher, local, profile, ends, taken>>
------------------------------------------------------------------------------
(***************************************************************************)
(* The charger, and crashes.                                               *)
(***************************************************************************)
ChargerAnswers(status) ==
    /\ present /\ wire # <<>>
    /\ wire' = Tail(wire)
    /\ answers' = Append(answers, Result(Head(wire), status))
    /\ \/ /\ status = "Accepted"
          /\ profile' = resolve_limit(Head(wire).val)
          /\ taken' = taken \cup {profile'}
       \/ /\ status = "Rejected"
          /\ UNCHANGED <<profile, taken>>
    /\ UNCHANGED <<publisher, events, session, inbox, local, present, ends, dropped>>

\* It forgets its profile and leaves the connection without a close frame.
ChargerReboots ==
    /\ ends < MaxEnds
    /\ ends' = ends + 1
    /\ profile' = NoLimit /\ present' = FALSE
    /\ wire' = <<>> /\ answers' = <<>>
    /\ UNCHANGED <<publisher, events, session, inbox, local, history>>

\* SnapshotStore::load: a file that is missing or cannot be read starts empty.
load == {file, Blank}

ProxyRestarts ==
    /\ ends < MaxEnds
    /\ ends' = ends + 1
    /\ snap' \in load /\ wasUp' = FALSE
    /\ session' = "none" /\ present' = FALSE
    /\ events' = <<>> /\ inbox' = <<>> /\ queued' = NoRequest /\ flight' = NoRequest
    /\ wire' = <<>> /\ answers' = <<>>
    /\ UNCHANGED <<file, users, reapplied, profile, history>>

\* Nothing that concerns the limit is under way, and the charger is there.
Settled ==
    /\ session = "up" /\ present
    /\ events = <<>> /\ inbox = <<>> /\ queued = NoRequest /\ flight = NoRequest
    /\ wire = <<>> /\ answers = <<>>

\* The program waits for the next message.
Idle == Settled /\ UNCHANGED vars

Next ==
    \/ \E v \in Asked \cup {NoLimit} : UserCommands(v)
    \/ HandleResult \/ HandleMessage \/ HandleLink
    \/ SessionStarts \/ LinkUp \/ LinkDown
    \/ ReceiveCommand \/ AnswerArrives \/ AnswerThrownAway \/ CommandTick
    \/ Teardown \/ SessionEnds
    \/ \E status \in {"Accepted", "Rejected"} : ChargerAnswers(status)
    \/ ChargerReboots \/ ProxyRestarts \/ Idle

Spec == Init /\ [][Next]_vars
------------------------------------------------------------------------------
Events == [type : {"link", "result"}, up : BOOLEAN, req : Requests \cup {NoRequest},
           status : Statuses \cup {"none"}]
Snapshots == [limit : Values, status : Statuses \cup {"none"}]

TypeOK ==
    /\ snap \in Snapshots /\ file \in Snapshots
    /\ wasUp \in BOOLEAN /\ users \in 0..MaxUser /\ reapplied \in Nat
    /\ events \in Seq(Events)
    /\ session \in {"none", "starting", "up", "closing"}
    /\ inbox \in Seq(Requests)
    /\ queued \in Requests \cup {NoRequest} /\ flight \in Requests \cup {NoRequest}
    /\ wire \in Seq(Requests) /\ answers \in Seq(Events)
    /\ profile \in Values /\ present \in BOOLEAN
    /\ ends \in 0..MaxEnds
    /\ taken \subseteq Values /\ dropped \in BOOLEAN

\* What a re-application installs was accepted before.
AcceptedBefore(req) == req.by = "reapply" => resolve_limit(req.val) \in taken

\* Every limit the proxy sends of its own accord is one this charger has
\* accepted before: never one that was only asked for, refused, timed out or
\* superseded, over restarts, failed saves, lost events and late answers.
ReapplyOnlyAccepted ==
    /\ \A i \in 1..Len(inbox) : AcceptedBefore(inbox[i])
    /\ \A i \in 1..Len(wire) : AcceptedBefore(wire[i])
    /\ AcceptedBefore(queued) /\ AcceptedBefore(flight)

\* Once things have settled, a limit shown as accepted is the one installed in
\* the charger, whichever reboots, restarts, refusals and timeouts came before
\* (as long as no event was lost to a full channel).  A cleared limit is not
\* cleared again, so nothing is said of that.
SettledAgrees ==
    Settled /\ ~dropped /\ snap.limit # NoLimit /\ snap.status = "Accepted" =>
        profile = snap.limit
------------------------------------------------------------------------------
(***************************************************************************)
(* What the documentation says and the code does not do.                   *)
(***************************************************************************)

\* README: "The standing limit is re-applied when the charger and the Central
\* System are both connected again".
StandingIsReapplied ==
    [][HandleLink /\ Head(events).up /\ ~wasUp /\ snap.limit # NoLimit =>
          inbox' # inbox \/ snap' # snap]_vars
=============================================================================
