----------------------------- MODULE ChargePoint ----------------------------
(***************************************************************************)
(* What the proxy tells Home Assistant of a charge point: the retained     *)
(* snapshot (mqtt.rs), made of the transactions it sees go by and of the   *)
(* results of its own limit commands (command.rs), under a configuration   *)
(* that an operator may edit between two starts (config.rs).               *)
(*                                                                         *)
(* One command is under way at a time, every answer comes in time and      *)
(* every save succeeds: queues, timeouts, failed saves and reboots of the  *)
(* charger are the subject of Session.tla and StandingLimit.tla.           *)
(***************************************************************************)
EXTENDS Commands

CONSTANTS
    Candidates,  \* settings the proxy is first started with
    Edits,       \* settings it may be restarted with
    Incoming,    \* topic and payload of the messages that may arrive
    EventCap,    \* capacity of the channel to the publisher
    MaxCommands, \* commands and re-applications (a bound of the model)
    MaxTransactions, MaxMeter, MaxMissed, MaxRestarts \* (bounds of the model)

ASSUME ChargePointAssumption ==
    {EventCap, MaxCommands, MaxTransactions, MaxMeter, MaxMissed, MaxRestarts} \subseteq Nat

\* A bound is a number of hundredths of an ampere, or one of the two numbers
\* that stand for what is none (NoAmount).
ASSUME SettingsAssumption ==
    \A s \in Candidates \cup Edits : {s.charging.min, s.charging.max} \subseteq Nat
ASSUME IncomingAssumption == \A m \in Incoming : m.payload \in Payloads

VARIABLES
    pc,        \* "loading", "loaded", "running" or "rejected"
    settings,  \* Option: what is being loaded
    config,    \* the ChargingConfig in force
    snapshot,  \* ChargePointState
    request,   \* Option: the command the session has
    call,      \* Option: the Call in flight, with its request
    events,    \* messages and results on their way to the publisher
    profiles,  \* the charger: the profiles installed by the proxy
    charging,  \* the charger: "idle", "starting" or "open"
    meter,     \* the charger: its register
    start,     \* the charger: the register when the transaction began
    energies,  \* history: what each transaction has really taken, by its id
    commands, missed, restarts, \* history: commands, lost messages, restarts
    unsure,    \* history: the result of a limit Call was lost
    suspect,   \* history: a stop was missed since the last start that was not
    tainted,   \* history: the last stop handled was sent while suspect
    under,     \* history: the ChargingConfig the standing limit was accepted under
    asOf,      \* history: under, when the request or Call under way was re-applied
    ids        \* history: the profile ids that were configured

charger == <<profiles, charging, meter, start, energies>>
bounds == <<commands, missed, restarts>>
history == <<unsure, suspect, tainted, under, asOf, ids>>
vars == <<pc, settings, config, snapshot, request, call, events, charger, bounds,
          history>>

Blank ==
    [transaction_id |-> {}, meter_start |-> {}, last_energy |-> {}, last_transaction_id |-> {},
     limit |-> {}, limit_status |-> {}]

Init ==
    /\ pc = "loading" /\ (\E s \in Candidates : settings = {s} /\ config = s.charging)
    /\ snapshot = Blank
    /\ request = {} /\ call = {} /\ events = <<>>
    /\ profiles = {} /\ charging = "idle" /\ meter = 0 /\ start = 0 /\ energies = <<>>
    /\ commands = 0 /\ missed = 0 /\ restarts = 0
    /\ unsure = FALSE /\ suspect = FALSE /\ tainted = FALSE /\ under = {}
    /\ asOf = {} /\ ids = {}
------------------------------------------------------------------------------
(***************************************************************************)
(* Starting.                                                               *)
(***************************************************************************)
LoadConfig ==
    /\ pc = "loading"
    /\ pc' = IF \A s \in settings : load_errors(s) = {} THEN "loaded" ELSE "rejected"
    /\ UNCHANGED <<settings, config, snapshot, request, call, events, charger,
                   bounds, history>>

\* MqttPublisher::new has loaded the snapshot from its file.
Start ==
    /\ pc = "loaded"
    /\ pc' = "running"
    /\ \E s \in settings : config' = s.charging
    /\ ids' = ids \cup {config'.profile_id}
    /\ settings' = {}
    /\ UNCHANGED <<snapshot, request, call, events, charger, bounds, unsure, suspect, tainted,
                   under, asOf>>

\* What is under way is lost; the snapshot is in the file.
ProxyRestarts ==
    /\ pc = "running" /\ restarts < MaxRestarts
    /\ restarts' = restarts + 1
    /\ pc' = "loading" /\ (\E s \in Edits : settings' = {s})
    /\ unsure' = (unsure \/ call # {} \/ \E i \in 1..Len(events) : events[i].kind = "result")
    /\ suspect' = (suspect \/ \E i \in 1..Len(events) : events[i].kind = "stop" \/ events[i].doubt)
    /\ missed' = missed + Len(events)
    /\ request' = {} /\ call' = {} /\ asOf' = {} /\ events' = <<>>
    /\ UNCHANGED <<config, snapshot, charger, commands, tainted, under, ids>>
------------------------------------------------------------------------------
(***************************************************************************)
(* The snapshot.                                                           *)
(***************************************************************************)

\* Mutants: the open transaction stays; its reading stays.
KeepsTransaction(st, e) ==
    [st EXCEPT !.last_energy = {e.meter - m : m \in st.meter_start},
               !.last_transaction_id = {e.id}, !.meter_start = {}]
KeepsReading(st, e) ==
    [st EXCEPT !.last_energy = {e.meter - m : m \in st.meter_start},
               !.last_transaction_id = {e.id}, !.transaction_id = {}]

\* The stop is recorded before the open transaction is cleared.
FoldStop(st, e) ==
    [st EXCEPT !.last_energy = {e.meter - m : m \in st.meter_start},
               !.last_transaction_id = {e.id},
               !.transaction_id = {}, !.meter_start = {}]

\* ChargePointState::apply, without the fields that are only copied.  Other
\* messages, and those without arguments, change nothing.
apply(st, e) ==
    CASE e.kind = "start"  -> [st EXCEPT !.meter_start = {e.meter}]
      [] e.kind = "answer" -> [st EXCEPT !.transaction_id = {e.id}]
      [] e.kind = "stop"   -> FoldStop(st, e)
      [] OTHER             -> st

apply_command_result(st, result) ==
    IF ~is_limit_result(result) THEN st
    ELSE [st EXCEPT !.limit_status = {result.status},
                    !.limit = IF result.status # "accepted" THEN @
                              ELSE IF result.action = {"SetChargingProfile"} THEN result.applied
                              ELSE {}]

------------------------------------------------------------------------------
(***************************************************************************)
(* Commands.                                                               *)
(***************************************************************************)

\* handle_incoming_publish: not a command, refused at once, or handed over.
IncomingPublish(topic, p) ==
    /\ pc = "running" /\ commands < MaxCommands /\ request = {} /\ call = {}
    /\ commands' = commands + 1
    /\ LET requests == UNION {parse_command_payload(kind, p) : kind \in parse_command_topic(topic)}
       IN /\ request' = requests
          /\ snapshot' = IF parse_command_topic(topic) # {} /\ requests = {}
                         THEN apply_command_result(snapshot, invalid_payload) ELSE snapshot
    /\ UNCHANGED <<pc, settings, config, call, events, charger, missed, restarts, history>>

\* maybe_reapply_limit, when the link comes up.
Reapply ==
    /\ pc = "running" /\ commands < MaxCommands /\ request = {} /\ call = {}
    /\ snapshot.limit_status = {"accepted"} /\ snapshot.limit # {}
    /\ commands' = commands + 1
    /\ request' = {[Request("set_current_limit", snapshot.limit, "") EXCEPT !.source = "reapply"]}
    /\ asOf' = under
    /\ UNCHANGED <<pc, settings, config, snapshot, call, events, charger, missed,
                   restarts, unsure, suspect, tainted, under, ids>>

\* The result of a limit Call that the charger has accepted.
Installed(e) ==
    e.kind = "result" /\ is_limit_result(e.result) /\ e.result.status = "accepted"

\* An event is try_sent, or lost on the way.
Offers(e) ==
    \/ /\ Len(events) < EventCap
       /\ events' = Append(events, e)
       /\ unsure' = (unsure /\ ~Installed(e))
       /\ suspect' = (suspect /\ e.kind # "start")
       /\ UNCHANGED missed
    \/ /\ missed < MaxMissed
       /\ missed' = missed + 1
       /\ suspect' = (suspect \/ e.kind = "stop")
       /\ unsure' = (unsure \/ e.kind = "result")
       /\ UNCHANGED events

ResultEvent(result) == [kind |-> "result", result |-> result, doubt |-> FALSE]

\* send_local_calls: a request that cannot be prepared is answered at once.
SendLocalCall ==
    /\ pc = "running" /\ \E r \in request :
          /\ call' = {[request |-> r, prepared |-> x] : x \in prepare_call(config, r)}
          /\ IF prepare_call(config, r) = {}
             THEN Offers(ResultEvent(for_request(r, "invalid")))
             ELSE UNCHANGED <<events, missed, suspect, unsure>>
    /\ request' = {}
    /\ asOf' = IF call' = {} THEN {} ELSE asOf
    /\ UNCHANGED <<pc, settings, config, snapshot, charger, commands, restarts,
                   tainted, under, ids>>

\* A profile replaces the one with its id.
Installs(prepared) ==
    {p \in profiles : \A new \in prepared.profile : p.id # new.id} \cup prepared.profile

\* The charger does what it answers; complete_local_call reports it.
AnswerArrives(answer) ==
    /\ pc = "running" /\ \E x \in call :
          LET act == x.prepared.action
          IN /\ answer = "Unknown" => /\ act = "ClearChargingProfile"
                                      /\ \A p \in profiles : p.id # config.profile_id
             /\ answer = "RebootRequired" => act = "ChangeConfiguration"
             /\ profiles' = IF answer \notin {"none", "Accepted"} THEN profiles
                            ELSE CASE act = "SetChargingProfile" -> Installs(x.prepared)
                                   [] act = "ClearChargingProfile" ->
                                         {p \in profiles : p.id # config.profile_id}
                                   [] OTHER -> profiles
             /\ Offers(ResultEvent(for_in_flight(x.prepared, interpret_response(act, answer))))
    /\ call' = {} /\ asOf' = {}
    /\ UNCHANGED <<pc, settings, config, snapshot, request, charging, meter, start,
                   energies, commands, restarts, tainted, under, ids>>
------------------------------------------------------------------------------
(***************************************************************************)
(* Transactions of the charger, as they pass through the proxy.            *)
(***************************************************************************)

\* A frame as the publisher gets it; doubt is history.
Message(kind, id, reading) == [kind |-> kind, id |-> id, meter |-> reading, doubt |-> suspect]

\* StartTransaction; one that stays unanswered is sent again.
ChargerStarts ==
    /\ pc = "running" /\ Len(energies) < MaxTransactions
    /\ \/ charging = "idle" /\ start' = meter
       \/ charging = "starting" /\ UNCHANGED start
    /\ charging' = "starting"
    /\ Offers(Message("start", 0, start'))
    /\ UNCHANGED <<pc, settings, config, snapshot, request, call, profiles, meter,
                   energies, commands, restarts, tainted, under, asOf, ids>>

\* The Central System assigns the id.
CentralAnswers ==
    /\ pc = "running" /\ charging = "starting"
    /\ charging' = "open"
    /\ Offers(Message("answer", Len(energies) + 1, 0))
    /\ UNCHANGED <<pc, settings, config, snapshot, request, call, profiles, meter,
                   start, energies, commands, restarts, tainted, under, asOf, ids>>

ChargerStops ==
    /\ pc = "running" /\ charging = "open"
    /\ charging' = "idle" /\ start' = 0
    /\ energies' = Append(energies, meter - start)
    /\ Offers(Message("stop", Len(energies) + 1, meter))
    /\ UNCHANGED <<pc, settings, config, snapshot, request, call, profiles, meter,
                   commands, restarts, tainted, under, asOf, ids>>

\* Between two messages energy flows.
MeterRuns ==
    /\ pc = "running" /\ charging # "idle" /\ meter < MaxMeter
    /\ meter' = meter + 1
    /\ UNCHANGED <<pc, settings, config, snapshot, request, call, events, profiles,
                   charging, start, energies, bounds, history>>

HandleEvent ==
    /\ pc = "running" /\ events # <<>>
    /\ events' = Tail(events)
    /\ LET e == Head(events)
       IN /\ snapshot' = IF e.kind = "result" THEN apply_command_result(snapshot, e.result)
                                              ELSE apply(snapshot, e)
          /\ tainted' = IF e.kind = "stop" THEN e.doubt ELSE tainted
          /\ under' = IF Installed(e) THEN {config} ELSE under
    /\ UNCHANGED <<pc, settings, config, request, call, charger, bounds, unsure, suspect, asOf,
                   ids>>
------------------------------------------------------------------------------
Answers == {"none", "Accepted", "Rejected", "Unknown", "RebootRequired", "CallError"}

Next ==
    \/ LoadConfig \/ Start \/ ProxyRestarts
    \/ \E m \in Incoming : IncomingPublish(m.topic, m.payload)
    \/ Reapply \/ SendLocalCall
    \/ \E answer \in Answers : AnswerArrives(answer)
    \/ ChargerStarts \/ CentralAnswers \/ ChargerStops \/ MeterRuns
    \/ HandleEvent

Spec == Init /\ [][Next]_vars
------------------------------------------------------------------------------
\* Are the bounds multiples of a tenth of an ampere?  Nothing requires it.
Aligned(c) == c.min % 10 = 0 /\ c.max % 10 = 0

\* Every limit the proxy sends pauses the charger or lies between the configured
\* minimum and ceiling, whoever asks for it and whatever configuration it was
\* accepted under, if these bounds are tenths (for others see CeilingKept).
LimitInRange ==
    pc = "running" /\ Aligned(config) => \A x \in call : \A a \in x.prepared.applied :
        a = 0 \/ a \in config.min..config.max

\* A standing limit is re-applied as it was accepted, in either unit, under the
\* configuration it was accepted under: what a result shows is what a later
\* request for it gives.
ReapplyKeeps ==
    \A x \in call :
        x.request.source = "reapply" /\ asOf = {config} /\ Aligned(config) =>
            x.prepared.applied = x.request.amps

\* Once a limit is shown as accepted and nothing is under way, the charger holds
\* exactly that profile, or none when none is shown, unless a result was lost
\* or the configured profile id has changed.
ShownIsInstalled ==
    pc = "running" /\ request = {} /\ call = {} /\ events = <<>> /\ ~unsure
    /\ ids = {config.profile_id} /\ snapshot.limit_status = {"accepted"} =>
        profiles = {set_charging_profile_payload(c, a) : c \in under, a \in snapshot.limit}

\* Delivered energy is that of the transaction it is shown for, or unknown,
\* unless a StopTransaction and the next StartTransaction were both missed.
EnergyExact ==
    ~tainted => \A e \in snapshot.last_energy, t \in snapshot.last_transaction_id :
        t <= Len(energies) /\ e = energies[t]

\* When no message was missed and all are handled, the snapshot shows the
\* transaction the charger has open, also after a restart in the middle of it.
OpenAgrees ==
    events = <<>> /\ missed = 0 =>
        /\ snapshot.meter_start = (IF charging = "idle" THEN {} ELSE {start})
        /\ snapshot.transaction_id = (IF charging = "open" THEN {Len(energies) + 1} ELSE {})

\* A configuration that loads never protects the broker connection less than
\* the paths it names ask for.
TlsNeverDegrades ==
    pc = "loaded" => \A s \in settings :
        /\ s.tls.cert # "none" \/ s.tls.key # "none" => build_tls_config(s.tls) = "mutual"
        /\ s.tls.ca # "none" => build_tls_config(s.tls) # "plaintext"
------------------------------------------------------------------------------
(***************************************************************************)
(* What the documentation says and the code does not do.                   *)
(***************************************************************************)

\* config.rs: max_limit_a is the ceiling on any limit the proxy will send, and
\* requests above it are clamped.  resolve_limit rounds after it has compared,
\* so a ceiling of 16.06 A lets 16.1 A through.
CeilingKept ==
    pc = "running" => \A x \in call : \A a \in x.prepared.applied : a <= config.max
=============================================================================
