------------------------- MODULE ChargePointProofs --------------------------
(***************************************************************************)
(* Proofs about ChargePoint.tla, for any configurations, messages and      *)
(* capacities, any number of transactions, lost messages and restarts:     *)
(* that limits stay in range and are re-applied as accepted, that what is  *)
(* shown is what the charger holds and has open, that energies are those   *)
(* of their transactions, and that a configuration that loads keeps the    *)
(* protection it asks for.                                                 *)
(*                                                                         *)
(* The snapshot lags behind the charger by the events on their way, so     *)
(* each invariant says what the last relevant one of them tells, and what  *)
(* the snapshot tells when there is none.                                  *)
(***************************************************************************)
EXTENDS ChargePoint, Integers, TLAPS

\* A ChargingConfig that load_from_path has let through.
Usable(c) == c.min \in Nat /\ c.max \in Nat
Sound(c) == Usable(c) /\ ValidateCharging(c) = {}

\* What resolve_limit makes of a request under c.
Fits(c, a) ==
    /\ a \in Nat
    /\ a = 0 \/ (a % 10 = 0 /\ Round(c.min) <= a /\ a <= Round(c.max))

CommandNames ==
    {"set_current_limit", "clear_current_limit", "get_configuration",
     "change_configuration", "trigger_message", "get_composite_schedule"}
Actions ==
    {"SetChargingProfile", "ClearChargingProfile", "GetConfiguration",
     "ChangeConfiguration", "TriggerMessage", "GetCompositeSchedule"}
Statuses == {"accepted", "rejected", "error", "invalid"}
Results == [action : SUBSET Actions, status : Statuses, applied : SUBSET Nat]
Events ==
    [kind : {"result"}, result : Results, doubt : {FALSE}]
    \cup [kind : {"start", "answer", "stop"}, id : Nat, meter : Nat, doubt : BOOLEAN]
Snapshots ==
    [transaction_id : SUBSET Nat, meter_start : SUBSET Nat, last_energy : SUBSET Int,
     last_transaction_id : SUBSET Nat, limit : SUBSET Nat, limit_status : SUBSET Statuses]

WellTyped(r) == r.command \in CommandNames /\ r.amps \subseteq Nat

------------------------------------------------------------------------------
(***************************************************************************)
(* The operators of Config and Commands.                                   *)
(***************************************************************************)

\* ChargingConfig::validate leaves bounds that are numbers, in order.
LEMMA BoundsInOrder ==
    ASSUME NEW c, Sound(c)
    PROVE  /\ c.min \in Nat /\ c.max \in Nat /\ c.min <= c.max /\ c.max <= 8000
           /\ c.min \notin NoAmount /\ c.max \notin NoAmount
<1>1. /\ c.max \notin NoAmount /\ c.max <= 8000 /\ c.min \notin NoAmount
      /\ ~Exceeds(c.min, c.max)
  <2>1. ValidateCharging(c) = {} BY DEF Sound
  <2>2. c.max \notin NoAmount /\ c.max <= 8000
    <3> SUFFICES ASSUME ~(c.max \notin NoAmount /\ c.max > 0 /\ c.max <= 8000) PROVE FALSE
      OBVIOUS
    <3>1. "max_limit_a" \in ValidateCharging(c) BY SMT DEF ValidateCharging, Checks
    <3> QED BY <2>1, <3>1
  <2>3. c.min \notin NoAmount
    <3> SUFFICES ASSUME c.min \in NoAmount PROVE FALSE
      OBVIOUS
    <3>1. "min_limit_a" \in ValidateCharging(c) BY SMT DEF ValidateCharging, Checks
    <3> QED BY <2>1, <3>1
  <2>4. ~Exceeds(c.min, c.max)
    <3> SUFFICES ASSUME Exceeds(c.min, c.max) PROVE FALSE
      OBVIOUS
    <3>1. "min_limit_a exceeds max_limit_a" \in ValidateCharging(c)
      BY SMT DEF ValidateCharging, Checks
    <3> QED BY <2>1, <3>1
  <2> QED BY <2>2, <2>3, <2>4
<1>2. c.min \in Nat /\ c.max \in Nat BY DEF Sound, Usable
<1> QED BY <1>1, <1>2 DEF Exceeds

\* Rounding gives tenths of an ampere, at most half of one more, and leaves
\* tenths alone.
LEMMA RoundProperties ==
    ASSUME NEW a \in Nat
    PROVE  /\ Round(a) \in Nat /\ Round(a) % 10 = 0 /\ Round(a) <= a + 5
           /\ a % 10 = 0 => Round(a) = a
BY DEF Round

\* Rounding keeps the order, so a limit between the bounds stays between them
\* rounded.
LEMMA RoundMonotone ==
    ASSUME NEW a \in Nat, NEW b \in Nat, a <= b
    PROVE  Round(a) <= Round(b)
BY DEF Round

\* A resolved limit pauses or stays between the rounded bounds.
LEMMA ResolvedFits ==
    ASSUME NEW c, Sound(c), NEW n \in Nat, NEW a \in resolve_limit(c, n)
    PROVE  Fits(c, a)
<1>1. c.min \in Nat /\ c.max \in Nat /\ c.min <= c.max BY BoundsInOrder
<1>2. CASE a = 0 BY <1>2 DEF Fits
<1>3. CASE a = Round(c.max)
  BY <1>1, <1>3, RoundProperties, RoundMonotone DEF Fits
<1>4. CASE a = Round(n) /\ c.min <= n /\ n <= c.max
  <2>1. Round(c.min) <= Round(n) /\ Round(n) <= Round(c.max) BY <1>1, <1>4, RoundMonotone
  <2> QED BY <2>1, <1>4, RoundProperties DEF Fits
<1> QED BY <1>1, <1>2, <1>3, <1>4 DEF resolve_limit

\* Resolving what was resolved under the same aligned bounds changes nothing.
LEMMA ResolvedAgain ==
    ASSUME NEW c, Sound(c), Aligned(c), NEW a, Fits(c, a)
    PROVE  resolve_limit(c, a) = {a}
<1>1. /\ c.min \in Nat /\ c.max \in Nat /\ c.min <= c.max /\ c.max <= 8000
  BY BoundsInOrder
<1>2. Round(c.min) = c.min /\ Round(c.max) = c.max
  BY <1>1, RoundProperties DEF Aligned
<1>3. a \in Nat /\ a <= 8000 BY <1>1, <1>2 DEF Fits
<1>4. a \notin NoAmount BY <1>3, SMT DEF NoAmount, NotFinite, Negative
<1>5. CASE a = 0 BY <1>5, <1>4 DEF resolve_limit
<1>6. CASE a # 0
  <2>1. a % 10 = 0 /\ c.min <= a /\ a <= c.max BY <1>6, <1>2 DEF Fits
  <2>2. Round(a) = a BY <2>1, <1>3, RoundProperties
  <2> QED BY <1>6, <1>4, <1>3, <1>1, <2>1, <2>2 DEF resolve_limit
<1> QED BY <1>5, <1>6

\* prepare_call: the Call shows the limit it sends, and only a limit Call has one.
LEMMA PreparedShows ==
    ASSUME NEW c, Sound(c), NEW r, WellTyped(r), NEW p \in prepare_call(c, r)
    PROVE  /\ p.action = action(r.command)
           /\ r.command = "set_current_limit" =>
                 \E n \in r.amps : \E a \in resolve_limit(c, n) :
                     /\ Fits(c, a)
                     /\ p.applied = {a} /\ p.profile = {set_charging_profile_payload(c, a)}
           /\ r.command # "set_current_limit" => p.applied = {} /\ p.profile = {}
<1>1. CASE r.command = "set_current_limit"
  <2>1. PICK n \in r.amps : \E a \in resolve_limit(c, n) :
           p = PreparedCall(r, {a}, {set_charging_profile_payload(c, a)})
    BY <1>1 DEF prepare_call
  <2>2. PICK a \in resolve_limit(c, n) :
           p = PreparedCall(r, {a}, {set_charging_profile_payload(c, a)})
    BY <2>1
  <2>3. n \in Nat BY DEF WellTyped
  <2>4. Fits(c, a) BY <2>2, <2>3, ResolvedFits
  <2> QED BY <1>1, <2>2, <2>4 DEF PreparedCall
<1>2. CASE r.command # "set_current_limit"
  BY <1>2 DEF prepare_call, PreparedCall
<1> QED BY <1>1, <1>2

\* A readable payload asks for a command and, if at all, for one current.
LEMMA ParsedIsRequest ==
    ASSUME NEW m \in Incoming, NEW kind, NEW r \in parse_command_payload(kind, m.payload)
    PROVE  WellTyped(r) /\ r.source = "mqtt"
<1> DEFINE p == m.payload
<1>1. p \in Payloads BY IncomingAssumption
<1> HIDE DEF p
<1>2. CASE p.form = "bare"
  <2>1. r \in Bare(p) /\ p.text \in {"number", "clear", "junk"} /\ p.amps \in Nat
    BY <1>1, <1>2 DEF p, parse_command_payload, Payloads
  <2>2. CASE p.text = "clear"
    <3>1. r = Request("clear_current_limit", {}, "") BY <2>1, <2>2 DEF Bare
    <3> QED BY <3>1 DEF Request, WellTyped, CommandNames
  <2>3. CASE p.text = "number"
    <3>1. r = Request("set_current_limit", {p.amps}, "") BY <2>1, <2>3 DEF Bare
    <3> QED BY <2>1, <3>1 DEF Request, WellTyped, CommandNames
  <2> QED BY <2>1, <2>2, <2>3 DEF Bare
<1>3. CASE p.form = "json"
  <2>1. r \in Fields(p) /\ p.text \in STRING /\ p.amps \in Nat
    BY <1>1, <1>3 DEF p, parse_command_payload, Payloads
  <2>2. CASE p.command = "set_current_limit"
    <3>1. r = Request("set_current_limit", {p.amps}, "") BY <2>1, <2>2 DEF Fields
    <3> QED BY <2>1, <3>1 DEF Request, WellTyped, CommandNames
  <2>3. CASE p.command \in {"clear_current_limit", "get_configuration",
                            "get_composite_schedule"}
    <3>1. r = Request(p.command, {}, "") BY <2>1, <2>3 DEF Fields
    <3> QED BY <2>3, <3>1 DEF Request, WellTyped, CommandNames
  <2>4. CASE p.command \in {"change_configuration", "trigger_message"}
    <3>1. r = Request(p.command, {}, p.text) BY <2>1, <2>4 DEF Fields
    <3> QED BY <2>1, <2>4, <3>1 DEF Request, WellTyped, CommandNames
  <2> QED BY <2>1, <2>2, <2>3, <2>4 DEF Fields
<1>4. p.form \in {"bare", "json", "unreadable"} BY <1>1 DEF Payloads
<1> QED BY <1>2, <1>3, <1>4 DEF p, parse_command_payload

------------------------------------------------------------------------------
(***************************************************************************)
(* Types.                                                                  *)
(***************************************************************************)
TypeInv ==
    /\ pc \in {"loading", "loaded", "running", "rejected"}
    /\ \A s \in settings : Usable(s.charging)
    /\ Usable(config)
    /\ snapshot \in Snapshots
    /\ \A r \in request : WellTyped(r)
    /\ \A x \in call : x.prepared.action \in Actions /\ x.prepared.applied \subseteq Nat
    /\ events \in Seq(Events)
    /\ charging \in {"idle", "starting", "open"}
    /\ meter \in Nat /\ start \in Nat /\ start <= meter
    /\ energies \in Seq(Nat)
    /\ missed \in Nat
    /\ unsure \in BOOLEAN /\ suspect \in BOOLEAN /\ tainted \in BOOLEAN

\* ProxyCommand::action names an OCPP action for every command.
LEMMA ActionNames == ASSUME NEW r, WellTyped(r) PROVE action(r.command) \in Actions
BY DEF WellTyped, CommandNames, action, Actions

\* interpret_response gives one of four statuses.
LEMMA StatusNames ==
    ASSUME NEW act, NEW answer PROVE interpret_response(act, answer) \in Statuses
BY DEF interpret_response, Statuses

\* What a session hands to the publisher is a well-typed event.
LEMMA OfferedIsEvent ==
    /\ \A r : WellTyped(r) => ResultEvent(for_request(r, "invalid")) \in Events
    /\ \A p, st : p.action \in Actions /\ p.applied \subseteq Nat /\ st \in Statuses =>
          ResultEvent(for_in_flight(p, st)) \in Events
    /\ \A kind \in {"start", "answer", "stop"}, id \in Nat, reading \in Nat :
          suspect \in BOOLEAN => Message(kind, id, reading) \in Events
<1>1. ASSUME NEW r, WellTyped(r) PROVE ResultEvent(for_request(r, "invalid")) \in Events
  <2>0. action(r.command) \in Actions BY <1>1, ActionNames
  <2>1. {action(r.command)} \in SUBSET Actions /\ {} \in SUBSET Nat BY <2>0
  <2>2. for_request(r, "invalid") \in Results BY <2>1 DEF for_request, Results, Statuses
  <2> QED BY <2>2 DEF ResultEvent, Events
<1>2. ASSUME NEW p, NEW st, p.action \in Actions, p.applied \subseteq Nat, st \in Statuses
      PROVE  ResultEvent(for_in_flight(p, st)) \in Events
  <2>1. {p.action} \in SUBSET Actions /\ p.applied \in SUBSET Nat BY <1>2
  <2>2. for_in_flight(p, st) \in Results BY <1>2, <2>1 DEF for_in_flight, Results
  <2> QED BY <2>2 DEF ResultEvent, Events
<1>3. ASSUME NEW kind \in {"start", "answer", "stop"}, NEW id \in Nat, NEW reading \in Nat,
             suspect \in BOOLEAN
      PROVE  Message(kind, id, reading) \in Events
  BY <1>3 DEF Message, Events
<1> QED BY <1>1, <1>2, <1>3

\* A try_send, whether it finds room or not, keeps the types.
LEMMA OffersTypes ==
    ASSUME TypeInv, NEW e \in Events, Offers(e)
    PROVE  /\ events' \in Seq(Events) /\ missed' \in Nat
           /\ unsure' \in BOOLEAN /\ suspect' \in BOOLEAN
<1>1. CASE Len(events) < EventCap /\ events' = Append(events, e)
              /\ unsure' = (unsure /\ ~Installed(e))
              /\ suspect' = (suspect /\ e.kind # "start") /\ missed' = missed
  <2>1. events' \in Seq(Events) /\ missed' \in Nat BY <1>1 DEF TypeInv
  <2>2. unsure' \in BOOLEAN /\ suspect' \in BOOLEAN BY <1>1, Zenon
  <2> QED BY <2>1, <2>2
<1>2. CASE missed' = missed + 1 /\ events' = events
              /\ suspect' = (suspect \/ e.kind = "stop")
              /\ unsure' = (unsure \/ e.kind = "result")
  <2>1. events' \in Seq(Events) /\ missed' \in Nat BY <1>2 DEF TypeInv
  <2>2. unsure' \in BOOLEAN /\ suspect' \in BOOLEAN BY <1>2, Zenon
  <2> QED BY <2>1, <2>2
<1> QED BY <1>1, <1>2, Zenon DEF Offers

\* apply and apply_command_result make a snapshot of a snapshot.
LEMMA FoldsTypes ==
    ASSUME NEW st \in Snapshots, NEW e \in Events
    PROVE  /\ e.kind = "result" => apply_command_result(st, e.result) \in Snapshots
           /\ e.kind # "result" => apply(st, e) \in Snapshots
<1>1. ASSUME e.kind = "result" PROVE apply_command_result(st, e.result) \in Snapshots
  <2>1. e.result \in Results BY <1>1 DEF Events
  <2>2. {e.result.status} \in SUBSET Statuses /\ e.result.applied \in SUBSET Nat
    BY <2>1 DEF Results
  <2>3. {} \in SUBSET Nat OBVIOUS
  <2>4. st.limit \in SUBSET Nat BY DEF Snapshots
  <2> QED BY <2>2, <2>3, <2>4 DEF apply_command_result, Snapshots
<1>2. ASSUME e.kind # "result" PROVE apply(st, e) \in Snapshots
  <2>1. e.kind \in {"start", "answer", "stop"} /\ e.id \in Nat /\ e.meter \in Nat
    BY <1>2 DEF Events
  <2>2. {e.id} \in SUBSET Nat /\ {e.meter} \in SUBSET Nat /\ {} \in SUBSET Nat BY <2>1
  <2>3. {e.meter - m : m \in st.meter_start} \in SUBSET Int BY <2>1 DEF Snapshots
  <2>4. CASE e.kind = "start" BY <2>2, <2>4 DEF apply, Snapshots
  <2>5. CASE e.kind = "answer" BY <2>2, <2>5 DEF apply, Snapshots
  <2>6. CASE e.kind = "stop" BY <2>2, <2>3, <2>6 DEF apply, FoldStop, Snapshots
  <2> QED BY <2>1, <2>4, <2>5, <2>6
<1> QED BY <1>1, <1>2

\* A payload that could not be read is no result of a limit.
LEMMA InvalidChangesNothing ==
    ASSUME NEW st PROVE apply_command_result(st, invalid_payload) = st
BY DEF apply_command_result, is_limit_result, invalid_payload

------------------------------------------------------------------------------
(***************************************************************************)
(* What has loaded is valid, and nothing is under way until it runs.       *)
(***************************************************************************)
LoadInv ==
    /\ pc = "loaded" => \A s \in settings : load_errors(s) = {}
    /\ pc = "running" => ValidateCharging(config) = {}
    /\ pc # "running" => request = {} /\ call = {} /\ events = <<>>

\* What load_from_path takes has passed the validation of each part.
LEMMA LoadedIsValid ==
    ASSUME NEW s, load_errors(s) = {}
    PROVE  ValidateCharging(s.charging) = {} /\ ValidateTls(s.tls) = {}
<1>1. validate(s) = {} BY DEF load_errors
<1>2. ValidateCharging(s.charging) \subseteq validate(s) /\ ValidateTls(s.tls) \subseteq validate(s)
  <2> DEFINE A == Checks(s.network.listen >= 1024, "listen_port")
             B == Checks(s.network.health >= 1024, "health_port")
             C == Checks(s.network.listen # s.network.health, "must differ")
             D == Checks(s.network.scheme \in {"ws", "wss"}, "central_system_url")
             E == Checks(s.network.broker # 0, "mqtt.port")
  <2>1. validate(s) = A \cup B \cup C \cup D \cup E \cup ValidateTls(s.tls)
                      \cup ValidateCharging(s.charging)
    BY Zenon DEF validate
  <2> HIDE DEF A, B, C, D, E
  <2> QED BY <2>1
<1> QED BY <1>1, <1>2

\* Every step keeps the configuration in force a valid one.
LEMMA LoadStep == TypeInv /\ LoadInv /\ [Next]_vars => LoadInv'
<1> SUFFICES ASSUME TypeInv, LoadInv, [Next]_vars PROVE LoadInv' OBVIOUS
<1> USE DEF LoadInv
<1>1. CASE LoadConfig BY <1>1 DEF LoadConfig
<1>2. CASE Start
  <2>1. PICK s \in settings : config' = s.charging BY <1>2 DEF Start
  <2>2. ValidateCharging(config') = {} BY <1>2, <2>1, LoadedIsValid DEF Start
  <2> QED BY <1>2, <2>2 DEF Start
<1>3. CASE ProxyRestarts BY <1>3 DEF ProxyRestarts
<1>4. CASE pc = "running" /\ pc' = pc /\ config' = config BY <1>4
<1>5. CASE UNCHANGED vars BY <1>5 DEF vars
<1>6. ASSUME NEW m \in Incoming, IncomingPublish(m.topic, m.payload) PROVE LoadInv'
  BY <1>4, <1>6 DEF IncomingPublish
<1>7. CASE Reapply BY <1>4, <1>7 DEF Reapply
<1>8. CASE SendLocalCall BY <1>4, <1>8 DEF SendLocalCall
<1>9. ASSUME NEW answer \in Answers, AnswerArrives(answer) PROVE LoadInv'
  BY <1>4, <1>9 DEF AnswerArrives
<1>10. CASE ChargerStarts BY <1>4, <1>10 DEF ChargerStarts
<1>11. CASE CentralAnswers BY <1>4, <1>11 DEF CentralAnswers
<1>12. CASE ChargerStops BY <1>4, <1>12 DEF ChargerStops
<1>13. CASE MeterRuns BY <1>4, <1>13 DEF MeterRuns
<1>14. CASE HandleEvent BY <1>4, <1>14 DEF HandleEvent
<1> QED BY <1>1, <1>2, <1>3, <1>5, <1>6, <1>7, <1>8, <1>9, <1>10, <1>11, <1>12, <1>13, <1>14
        DEF Next

\* The configuration of a proxy that runs is sound.
LEMMA RunsSound == ASSUME TypeInv, LoadInv, pc = "running" PROVE Sound(config)
BY DEF TypeInv, LoadInv, Sound

\* Every step keeps the types.
LEMMA TypeStep == TypeInv /\ LoadInv /\ [Next]_vars => TypeInv'
<1> SUFFICES ASSUME TypeInv, LoadInv, [Next]_vars PROVE TypeInv' OBVIOUS
<1>1. CASE LoadConfig BY <1>1 DEF LoadConfig, charger, bounds, history, TypeInv
<1>2. CASE Start
  <2>1. Usable(config') /\ settings' = {} BY <1>2 DEF Start, TypeInv
  <2> QED BY <1>2, <2>1 DEF Start, charger, bounds, TypeInv
<1>3. CASE ProxyRestarts
  <2>1. \A s \in settings' : Usable(s.charging)
    BY <1>3, SettingsAssumption DEF ProxyRestarts, Usable
  <2>2. unsure' \in BOOLEAN BY <1>3, Zenon DEF ProxyRestarts
  <2>3. suspect' \in BOOLEAN BY <1>3, Zenon DEF ProxyRestarts
  <2>4. Len(events) \in Nat BY DEF TypeInv
  <2>5. missed' \in Nat BY <1>3, <2>4 DEF ProxyRestarts, TypeInv
  <2>6. events' \in Seq(Events) BY <1>3 DEF ProxyRestarts
  <2> QED BY <1>3, <2>1, <2>2, <2>3, <2>5, <2>6 DEF ProxyRestarts, charger, TypeInv
<1>4. ASSUME NEW m \in Incoming, IncomingPublish(m.topic, m.payload) PROVE TypeInv'
  <2>1. snapshot' = snapshot BY <1>4, InvalidChangesNothing DEF IncomingPublish
  <2>2. \A r \in request' : WellTyped(r) BY <1>4, ParsedIsRequest DEF IncomingPublish
  <2> QED BY <1>4, <2>1, <2>2 DEF IncomingPublish, charger, history, TypeInv
<1>5. CASE Reapply
  <2>1. snapshot.limit \subseteq Nat BY DEF TypeInv, Snapshots
  <2>2. \A r \in request' : WellTyped(r)
    BY <1>5, <2>1 DEF Reapply, Request, WellTyped, CommandNames
  <2> QED BY <1>5, <2>2 DEF Reapply, charger, TypeInv
<1>6. CASE SendLocalCall
  <2>1. PICK r \in request :
          /\ call' = {[request |-> r, prepared |-> x] : x \in prepare_call(config, r)}
          /\ IF prepare_call(config, r) = {}
             THEN Offers(ResultEvent(for_request(r, "invalid")))
             ELSE UNCHANGED <<events, missed, suspect, unsure>>
    BY <1>6 DEF SendLocalCall
  <2>2. WellTyped(r) /\ Sound(config) BY <1>6, RunsSound DEF SendLocalCall, TypeInv
  <2>3. ASSUME NEW p \in prepare_call(config, r)
        PROVE  p.action \in Actions /\ p.applied \subseteq Nat
    BY <2>2, PreparedShows, ActionNames DEF Fits
  <2>4. \A x \in call' : x.prepared.action \in Actions /\ x.prepared.applied \subseteq Nat
    BY <2>1, <2>3
  <2>5. /\ events' \in Seq(Events) /\ missed' \in Nat
        /\ unsure' \in BOOLEAN /\ suspect' \in BOOLEAN
    <3>1. CASE prepare_call(config, r) = {}
      BY <2>1, <2>2, <3>1, OffersTypes, OfferedIsEvent
    <3>2. CASE prepare_call(config, r) # {}
      BY <2>1, <3>2 DEF TypeInv
    <3> QED BY <3>1, <3>2
  <2> QED BY <1>6, <2>4, <2>5 DEF SendLocalCall, charger, TypeInv
<1>7. ASSUME NEW answer \in Answers, AnswerArrives(answer) PROVE TypeInv'
  <2>1. PICK x \in call : Offers(ResultEvent(for_in_flight(x.prepared,
                               interpret_response(x.prepared.action, answer))))
    BY <1>7 DEF AnswerArrives
  <2>2. interpret_response(x.prepared.action, answer) \in Statuses BY StatusNames
  <2>3. x.prepared.action \in Actions /\ x.prepared.applied \subseteq Nat BY DEF TypeInv
  <2>4. /\ events' \in Seq(Events) /\ missed' \in Nat
        /\ unsure' \in BOOLEAN /\ suspect' \in BOOLEAN
    BY <2>1, <2>2, <2>3, OffersTypes, OfferedIsEvent
  <2> QED BY <1>7, <2>4 DEF AnswerArrives, TypeInv
<1>8. CASE ChargerStarts
  <2>1. start' \in Nat /\ start' <= meter BY <1>8 DEF ChargerStarts, TypeInv
  <2>2. Message("start", 0, start') \in Events BY <2>1, OfferedIsEvent DEF TypeInv
  <2>3. /\ events' \in Seq(Events) /\ missed' \in Nat
        /\ unsure' \in BOOLEAN /\ suspect' \in BOOLEAN
    BY <1>8, <2>2, OffersTypes DEF ChargerStarts
  <2> QED BY <1>8, <2>1, <2>3 DEF ChargerStarts, TypeInv
<1>9. CASE CentralAnswers
  <2>1. Len(energies) + 1 \in Nat BY DEF TypeInv
  <2>2. Message("answer", Len(energies) + 1, 0) \in Events BY <2>1, OfferedIsEvent DEF TypeInv
  <2>3. /\ events' \in Seq(Events) /\ missed' \in Nat
        /\ unsure' \in BOOLEAN /\ suspect' \in BOOLEAN
    BY <1>9, <2>2, OffersTypes DEF CentralAnswers
  <2> QED BY <1>9, <2>3 DEF CentralAnswers, TypeInv
<1>10. CASE ChargerStops
  <2>1. Len(energies) + 1 \in Nat BY DEF TypeInv
  <2>2. Message("stop", Len(energies) + 1, meter) \in Events
    BY <2>1, OfferedIsEvent DEF TypeInv
  <2>3. /\ events' \in Seq(Events) /\ missed' \in Nat
        /\ unsure' \in BOOLEAN /\ suspect' \in BOOLEAN
    BY <1>10, <2>2, OffersTypes DEF ChargerStops
  <2>4. meter - start \in Nat BY DEF TypeInv
  <2>5. energies' \in Seq(Nat) BY <1>10, <2>4 DEF ChargerStops, TypeInv
  <2> QED BY <1>10, <2>3, <2>5 DEF ChargerStops, TypeInv
<1>11. CASE MeterRuns BY <1>11 DEF MeterRuns, bounds, history, TypeInv
<1>12. CASE HandleEvent
  <2>1. events # <<>> /\ events' = Tail(events) BY <1>12 DEF HandleEvent
  <2>2. events' \in Seq(Events) /\ Head(events) \in Events BY <2>1 DEF TypeInv
  <2>3. snapshot' \in Snapshots BY <1>12, <2>2, FoldsTypes DEF HandleEvent, TypeInv
  <2>4. Head(events).doubt \in BOOLEAN BY <2>2 DEF Events
  <2>5. tainted' \in BOOLEAN BY <1>12, <2>4 DEF HandleEvent, TypeInv
  <2> QED BY <1>12, <2>2, <2>3, <2>5 DEF HandleEvent, charger, bounds, TypeInv
<1>13. CASE UNCHANGED vars BY <1>13 DEF vars, charger, bounds, history, TypeInv
<1> QED BY <1>1, <1>2, <1>3, <1>4, <1>5, <1>6, <1>7, <1>8, <1>9, <1>10, <1>11, <1>12, <1>13
        DEF Next

\* Types and configuration are right before anything is loaded.
LEMMA BaseInit == Init => TypeInv /\ LoadInv
<1> SUFFICES ASSUME Init PROVE TypeInv /\ LoadInv OBVIOUS
<1>1. Usable(config) /\ (\A s \in settings : Usable(s.charging))
  BY SettingsAssumption DEF Init, Usable
<1>2. snapshot \in Snapshots BY DEF Init, Blank, Snapshots
<1>3. events \in Seq(Events) /\ energies \in Seq(Nat) BY DEF Init
<1>4. unsure \in BOOLEAN /\ suspect \in BOOLEAN /\ tainted \in BOOLEAN BY Zenon DEF Init
<1> QED BY <1>1, <1>2, <1>3, <1>4 DEF Init, TypeInv, LoadInv

BaseInv == TypeInv /\ LoadInv

\* What the other invariants start from.
LEMMA BaseInductive == Spec => []BaseInv
<1>1. Init => BaseInv BY BaseInit DEF BaseInv
<1>2. BaseInv /\ [Next]_vars => BaseInv' BY TypeStep, LoadStep DEF BaseInv
<1> QED BY <1>1, <1>2, PTL DEF Spec

\* A configuration that load_from_path takes never leaves the broker connection
\* with less protection than the paths it names ask for: ProxyConfig::validate
\* has refused what build_tls_config would quietly read as less.
THEOREM TlsKept == Spec => []TlsNeverDegrades
<1>1. ASSUME NEW t, ValidateTls(t) = {}
      PROVE  /\ t.cert # "none" \/ t.key # "none" => build_tls_config(t) = "mutual"
             /\ t.ca # "none" => build_tls_config(t) # "plaintext"
  <2> DEFINE together == (t.cert = "none") <=> (t.key = "none")
             withCa == t.cert # "none" /\ t.key # "none" => t.ca # "none"
  <2>0. /\ Checks(together, "set together") \subseteq ValidateTls(t)
        /\ Checks(withCa, "require ca") \subseteq ValidateTls(t)
    BY Zenon DEF ValidateTls
  <2>1. together
    <3>1. Checks(together, "set together") = {} BY <1>1, <2>0, Zenon
    <3> HIDE DEF together
    <3> QED BY <3>1, Zenon DEF Checks
  <2>2. withCa
    <3>1. Checks(withCa, "require ca") = {} BY <1>1, <2>0, Zenon
    <3> HIDE DEF withCa
    <3> QED BY <3>1, Zenon DEF Checks
  <2> QED BY <2>1, <2>2 DEF build_tls_config
<1>2. BaseInv => TlsNeverDegrades
  BY <1>1, LoadedIsValid DEF BaseInv, LoadInv, TlsNeverDegrades
<1> QED BY <1>2, BaseInductive, PTL

------------------------------------------------------------------------------
(***************************************************************************)
(* Limits: what is sent, shown and sent again.                             *)
(***************************************************************************)

\* What prepare_call has made under c.
Shows(c, p) ==
    /\ p.action = "SetChargingProfile" =>
          \E a : /\ Fits(c, a)
                 /\ p.applied = {a} /\ p.profile = {set_charging_profile_payload(c, a)}
    /\ p.action # "SetChargingProfile" => p.applied = {} /\ p.profile = {}

\* No limit, or one that fits.
Limit(c, amps) == amps = {} \/ \E a : amps = {a} /\ Fits(c, a)

\* A limit that is shown was resolved under the configuration it was accepted
\* under, and so was one that is sent again.
LimitInv ==
    /\ request = {} \/ call = {}
    /\ \A x \in call : Shows(config, x.prepared)
    /\ \A i \in 1..Len(events) : Installed(events[i]) => Limit(config, events[i].result.applied)
    /\ snapshot.limit # {} => \E u \in under : Limit(u, snapshot.limit)
    /\ \A r \in request : r.source = "reapply" =>
          /\ r.command = "set_current_limit" /\ r.amps # {}
          /\ \E u \in asOf : Limit(u, r.amps)
    /\ ReapplyKeeps

\* A prepared Call will show what it installs, and that fits the bounds.
LEMMA PreparedIsShown ==
    ASSUME NEW c, Sound(c), NEW r, WellTyped(r), NEW p \in prepare_call(c, r)
    PROVE  Shows(c, p)
<1>1. p.action = "SetChargingProfile" <=> r.command = "set_current_limit"
  BY PreparedShows DEF WellTyped, CommandNames, action
<1> QED BY <1>1, PreparedShows DEF Shows

\* prepare_call gives back a limit that was accepted under the same aligned bounds.
LEMMA ReappliedIsKept ==
    ASSUME NEW c, Sound(c), Aligned(c), NEW r, WellTyped(r), r.command = "set_current_limit",
           NEW a, r.amps = {a}, Fits(c, a), NEW p \in prepare_call(c, r)
    PROVE  p.applied = r.amps
<1>1. PICK n \in r.amps : \E b \in resolve_limit(c, n) : p.applied = {b}
  BY PreparedShows
<1>2. resolve_limit(c, a) = {a} BY ResolvedAgain
<1> QED BY <1>1, <1>2

\* An event is handed over or lost.
LEMMA OffersWhat ==
    ASSUME NEW e, Offers(e)
    PROVE  \/ events' = Append(events, e) /\ missed' = missed
           \/ events' = events /\ missed' = missed + 1
BY Zenon DEF Offers

\* The positions of a channel that took an event.
LEMMA AppendIndices ==
    ASSUME NEW s \in Seq(Events), NEW e \in Events
    PROVE  /\ Len(Append(s, e)) = Len(s) + 1
           /\ \A i \in 1..Len(s) : i \in 1..(Len(s) + 1) /\ Append(s, e)[i] = s[i]
           /\ Append(s, e)[Len(s) + 1] = e
           /\ \A i \in 1..(Len(s) + 1) : i \in 1..Len(s) \/ i = Len(s) + 1
           /\ Len(s) + 1 \in 1..(Len(s) + 1)
OBVIOUS

\* The positions of a channel whose first event was taken.
LEMMA TailIndices ==
    ASSUME NEW s \in Seq(Events), s # <<>>
    PROVE  /\ Len(Tail(s)) = Len(s) - 1 /\ Len(s) \in Nat /\ Len(s) > 0
           /\ Head(s) = s[1] /\ Tail(s) \in Seq(Events)
           /\ \A i \in 1..Len(Tail(s)) : i + 1 \in 1..Len(s) /\ Tail(s)[i] = s[i + 1]
OBVIOUS

EventLimits == \A i \in 1..Len(events) :
                   Installed(events[i]) => Limit(config, events[i].result.applied)

\* Whatever is offered, what is on the way shows limits that fit.
LEMMA OffersLimits ==
    ASSUME events \in Seq(Events), EventLimits, NEW e \in Events, Offers(e), config' = config,
           Installed(e) => Limit(config, e.result.applied)
    PROVE  EventLimits'
<1>1. CASE events' = events
  BY <1>1 DEF EventLimits
<1>2. CASE events' = Append(events, e)
  <2> SUFFICES ASSUME NEW i \in 1..Len(events'), Installed(events'[i])
               PROVE  Limit(config, events'[i].result.applied)
    BY DEF EventLimits
  <2>1. Len(events') = Len(events) + 1 BY <1>2, AppendIndices
  <2>2. CASE i \in 1..Len(events)
    <3>1. events'[i] = events[i] BY <1>2, <2>2, AppendIndices
    <3> QED BY <2>2, <3>1 DEF EventLimits
  <2>3. CASE i = Len(events) + 1
    <3>1. events'[i] = e BY <1>2, <2>3, AppendIndices
    <3> QED BY <3>1
  <2> QED BY <2>1, <2>2, <2>3, AppendIndices
<1> QED BY <1>1, <1>2, OffersWhat

\* The publisher takes the limit of a result that installs one, and no other
\* event changes the limit.
LEMMA HandledLimit ==
    ASSUME TypeInv, HandleEvent
    PROVE  LET e == Head(events)
           IN /\ Installed(e) =>
                   /\ under' = {config}
                   /\ snapshot'.limit = IF e.result.action = {"SetChargingProfile"}
                                        THEN e.result.applied ELSE {}
              /\ ~Installed(e) => under' = under /\ snapshot'.limit = snapshot.limit
<1> DEFINE e == Head(events)
<1>0. snapshot \in Snapshots BY DEF TypeInv
<1>1. ASSUME Installed(e)
      PROVE  /\ under' = {config}
             /\ snapshot'.limit = IF e.result.action = {"SetChargingProfile"}
                                  THEN e.result.applied ELSE {}
  <2>1. under' = {config} BY <1>1 DEF HandleEvent
  <2>2. snapshot' = apply_command_result(snapshot, e.result)
    BY <1>1 DEF HandleEvent, Installed
  <2> HIDE DEF e
  <2> QED BY <1>0, <1>1, <2>1, <2>2 DEF apply_command_result, Installed, Snapshots
<1>2. ASSUME ~Installed(e) PROVE under' = under /\ snapshot'.limit = snapshot.limit
  <2>1. under' = under BY <1>2 DEF HandleEvent
  <2>2. CASE e.kind = "result"
    <3>1. snapshot' = apply_command_result(snapshot, e.result) BY <2>2 DEF HandleEvent
    <3> HIDE DEF e
    <3> QED BY <1>0, <1>2, <2>1, <2>2, <3>1 DEF apply_command_result, Installed, Snapshots
  <2>3. CASE e.kind # "result"
    <3>1. snapshot' = apply(snapshot, e) BY <2>3 DEF HandleEvent
    <3> HIDE DEF e
    <3> QED BY <1>0, <2>1, <3>1 DEF apply, FoldStop, Snapshots
  <2> QED BY <2>2, <2>3
<1> QED BY <1>1, <1>2

\* Every step keeps the limits in range.
LEMMA LimitStep == BaseInv /\ LimitInv /\ [Next]_vars => LimitInv'
<1> SUFFICES ASSUME BaseInv, LimitInv, [Next]_vars PROVE LimitInv' OBVIOUS
<1> USE DEF BaseInv
<1>0. events \in Seq(Events) /\ EventLimits BY DEF TypeInv, LimitInv, EventLimits
<1> DEFINE Asked == \A r \in request : r.source = "reapply" =>
                        /\ r.command = "set_current_limit" /\ r.amps # {}
                        /\ \E u \in asOf : Limit(u, r.amps)
           Standing == snapshot.limit # {} => \E u \in under : Limit(u, snapshot.limit)
           Sent == \A x \in call : Shows(config, x.prepared)
           Single == request = {} \/ call = {}
<1>a. Single /\ Asked /\ Standing /\ Sent /\ ReapplyKeeps BY DEF LimitInv
<1>b. ASSUME Single', Asked', Standing', Sent', EventLimits', ReapplyKeeps' PROVE LimitInv'
  BY <1>b DEF LimitInv, EventLimits
\* What the charger's own messages leave alone.
<1>c. ASSUME UNCHANGED <<config, snapshot, request, call, under, asOf>>, EventLimits'
      PROVE  LimitInv'
  BY <1>a, <1>b, <1>c DEF ReapplyKeeps
<1> HIDE DEF Single, Asked, Standing, Sent
<1>1. CASE LoadConfig \/ MeterRuns \/ UNCHANGED vars
  <2>1. UNCHANGED <<config, snapshot, request, call, under, asOf, events>>
    BY <1>1 DEF LoadConfig, MeterRuns, vars, history
  <2> QED BY <1>0, <1>c, <2>1 DEF EventLimits
<1>2. CASE Start
  <2>1. request = {} /\ call = {} /\ events = <<>> BY <1>2 DEF Start, LoadInv
  <2>2. request' = {} /\ call' = {} /\ events' = <<>> /\ UNCHANGED <<snapshot, under>>
    BY <1>2, <2>1 DEF Start
  <2> QED BY <1>a, <1>b, <2>2 DEF Single, Asked, Standing, Sent, EventLimits, ReapplyKeeps
<1>3. CASE ProxyRestarts
  <2>2. request' = {} /\ call' = {} /\ events' = <<>> /\ UNCHANGED <<snapshot, under>>
    BY <1>3 DEF ProxyRestarts
  <2> QED BY <1>a, <1>b, <2>2 DEF Single, Asked, Standing, Sent, EventLimits, ReapplyKeeps
<1>4. ASSUME NEW m \in Incoming, IncomingPublish(m.topic, m.payload) PROVE LimitInv'
  <2>1. UNCHANGED <<config, snapshot, call, under, asOf, events>>
    BY <1>4, InvalidChangesNothing DEF IncomingPublish, history
  <2>2. \A r \in request' : r.source = "mqtt" BY <1>4, ParsedIsRequest DEF IncomingPublish
  <2>3. Asked' /\ Single' BY <1>4, <2>2 DEF Asked, Single, IncomingPublish
  <2> QED BY <1>0, <1>a, <1>b, <2>1, <2>3 DEF Standing, Sent, EventLimits, ReapplyKeeps
<1>5. CASE Reapply
  <2>1. UNCHANGED <<config, snapshot, call, under, events>> /\ call = {} /\ asOf' = under
    BY <1>5 DEF Reapply
  <2>2. \A r \in request' : r.command = "set_current_limit" /\ r.amps = snapshot.limit
    BY <1>5 DEF Reapply, Request
  <2>3. Asked' /\ Single' BY <1>a, <1>5, <2>1, <2>2 DEF Asked, Single, Standing, Reapply
  <2> QED BY <1>0, <1>a, <1>b, <2>1, <2>3 DEF Standing, Sent, EventLimits, ReapplyKeeps
<1>6. CASE SendLocalCall
  <2>1. PICK r \in request :
          /\ call' = {[request |-> r, prepared |-> x] : x \in prepare_call(config, r)}
          /\ IF prepare_call(config, r) = {}
             THEN Offers(ResultEvent(for_request(r, "invalid")))
             ELSE UNCHANGED <<events, missed, suspect, unsure>>
    BY <1>6 DEF SendLocalCall
  <2>2. WellTyped(r) /\ Sound(config) BY <1>6, RunsSound DEF SendLocalCall, TypeInv
  <2>3. /\ UNCHANGED <<config, snapshot, under>> /\ request' = {}
        /\ asOf' = IF call' = {} THEN {} ELSE asOf
    BY <1>6 DEF SendLocalCall
  <2>4. Sent' BY <2>1, <2>2, <2>3, PreparedIsShown DEF Sent
  <2>5. Single' /\ Asked' /\ Standing' BY <1>a, <2>3 DEF Single, Asked, Standing
  <2>6. EventLimits'
    <3>1. CASE prepare_call(config, r) = {}
      <4>1. ResultEvent(for_request(r, "invalid")) \in Events BY <2>2, OfferedIsEvent
      <4>2. ~Installed(ResultEvent(for_request(r, "invalid")))
        BY DEF Installed, ResultEvent, for_request
      <4> QED BY <1>0, <2>1, <2>3, <3>1, <4>1, <4>2, OffersLimits
    <3>2. CASE prepare_call(config, r) # {}
      BY <1>0, <2>1, <2>3, <3>2 DEF EventLimits
    <3> QED BY <3>1, <3>2
  <2>7. ReapplyKeeps'
    <3> SUFFICES ASSUME NEW x \in call', x.request.source = "reapply", asOf' = {config'},
                        Aligned(config')
                 PROVE  x.prepared.applied = x.request.amps
      BY DEF ReapplyKeeps
    <3>1. x.request = r /\ x.prepared \in prepare_call(config, r) BY <2>1
    <3>2. asOf = {config} /\ Aligned(config) BY <2>3
    <3>3. r.command = "set_current_limit" /\ r.amps # {} /\ Limit(config, r.amps)
      BY <1>a, <3>1, <3>2 DEF Asked
    <3>4. PICK a : r.amps = {a} /\ Fits(config, a) BY <3>3 DEF Limit
    <3> QED BY <2>2, <3>1, <3>2, <3>3, <3>4, ReappliedIsKept
  <2> QED BY <1>b, <2>4, <2>5, <2>6, <2>7
<1>7. ASSUME NEW answer \in Answers, AnswerArrives(answer) PROVE LimitInv'
  <2>1. PICK x \in call : Offers(ResultEvent(for_in_flight(x.prepared,
                               interpret_response(x.prepared.action, answer))))
    BY <1>7 DEF AnswerArrives
  <2> DEFINE e == ResultEvent(for_in_flight(x.prepared,
                      interpret_response(x.prepared.action, answer)))
  <2>2. interpret_response(x.prepared.action, answer) \in Statuses BY StatusNames
  <2>3. x.prepared.action \in Actions /\ x.prepared.applied \subseteq Nat BY DEF TypeInv
  <2>4. e \in Events BY <2>2, <2>3, OfferedIsEvent
  <2>5. Limit(config, x.prepared.applied)
    <3>1. Shows(config, x.prepared) BY <1>a DEF Sent
    <3> QED BY <3>1 DEF Shows, Limit
  <2>6. e.result.applied = x.prepared.applied BY DEF ResultEvent, for_in_flight
  <2>7. UNCHANGED <<config, snapshot, request, under>> /\ call' = {} BY <1>7 DEF AnswerArrives
  <2>8. request' = {} BY <1>a, <2>7 DEF Single
  <2>9. EventLimits'
    <3> HIDE DEF e
    <3> QED BY <1>0, <2>1, <2>4, <2>5, <2>6, <2>7, OffersLimits DEF e
  <2> QED BY <1>a, <1>b, <2>7, <2>8, <2>9 DEF Single, Asked, Standing, Sent, ReapplyKeeps
<1>8. CASE ChargerStarts
  <2>1. Message("start", 0, start') \in Events
    BY <1>8, OfferedIsEvent DEF ChargerStarts, TypeInv
  <2>2. ~Installed(Message("start", 0, start')) BY DEF Installed, Message
  <2>3. EventLimits' BY <1>0, <1>8, <2>1, <2>2, OffersLimits DEF ChargerStarts
  <2> QED BY <1>8, <1>c, <2>3 DEF ChargerStarts
<1>9. CASE CentralAnswers
  <2>1. Message("answer", Len(energies) + 1, 0) \in Events BY OfferedIsEvent DEF TypeInv
  <2>2. ~Installed(Message("answer", Len(energies) + 1, 0)) BY DEF Installed, Message
  <2>3. EventLimits' BY <1>0, <1>9, <2>1, <2>2, OffersLimits DEF CentralAnswers
  <2> QED BY <1>9, <1>c, <2>3 DEF CentralAnswers
<1>10. CASE ChargerStops
  <2>1. Message("stop", Len(energies) + 1, meter) \in Events BY OfferedIsEvent DEF TypeInv
  <2>2. ~Installed(Message("stop", Len(energies) + 1, meter)) BY DEF Installed, Message
  <2>3. EventLimits' BY <1>0, <1>10, <2>1, <2>2, OffersLimits DEF ChargerStops
  <2> QED BY <1>10, <1>c, <2>3 DEF ChargerStops
<1>11. CASE HandleEvent
  <2>1. /\ events # <<>> /\ events' = Tail(events)
        /\ UNCHANGED <<config, request, call, asOf>>
    BY <1>11 DEF HandleEvent
  <2> DEFINE e == Head(events)
  <2>2. e = events[1] /\ 1 \in 1..Len(events) BY <1>0, <2>1, TailIndices
  <2>3. EventLimits' BY <1>0, <2>1, TailIndices DEF EventLimits
  <2>4. Standing'
    <3>1. CASE Installed(e)
      <4>1. under' = {config} /\ snapshot'.limit \in {e.result.applied, {}}
        BY <1>11, <3>1, HandledLimit
      <4>2. Limit(config, e.result.applied) BY <1>0, <2>2, <3>1 DEF EventLimits
      <4> HIDE DEF e
      <4> QED BY <4>1, <4>2 DEF Standing
    <3>2. CASE ~Installed(e)
      <4>1. under' = under /\ snapshot'.limit = snapshot.limit BY <1>11, <3>2, HandledLimit
      <4> QED BY <1>a, <4>1 DEF Standing
    <3> QED BY <3>1, <3>2
  <2> QED BY <1>a, <1>b, <2>1, <2>3, <2>4 DEF Single, Asked, Sent, ReapplyKeeps
<1> QED BY <1>1, <1>2, <1>3, <1>4, <1>5, <1>6, <1>7, <1>8, <1>9, <1>10, <1>11 DEF Next

\* Limits stay in range.
LEMMA LimitInductive == Spec => [](BaseInv /\ LimitInv)
<1>1. Init => LimitInv BY DEF Init, Blank, LimitInv, ReapplyKeeps
<1> QED BY <1>1, LimitStep, BaseInductive, PTL DEF Spec

\* Whatever a user, an automation or a re-application asks for, and whatever
\* configuration has loaded, prepare_call sends a pause or a limit between the
\* configured minimum and ceiling, when these are multiples of a tenth.
THEOREM LimitsInRange == Spec => []LimitInRange
<1>1. BaseInv /\ LimitInv => LimitInRange
  <2> SUFFICES ASSUME BaseInv, LimitInv, pc = "running", Aligned(config), NEW x \in call,
                      NEW a \in x.prepared.applied, a # 0
               PROVE  a \in config.min..config.max
    BY DEF LimitInRange
  <2>1. Shows(config, x.prepared) BY DEF LimitInv
  <2>2. Fits(config, a) BY <2>1 DEF Shows
  <2>3. config.min \in Nat /\ config.max \in Nat BY DEF BaseInv, TypeInv, Usable
  <2>4. Round(config.min) = config.min /\ Round(config.max) = config.max
    BY <2>3, RoundProperties DEF Aligned
  <2> QED BY <2>2, <2>3, <2>4 DEF Fits
<1> QED BY <1>1, LimitInductive, PTL

\* A limit that maybe_reapply_limit sends again is sent as it was accepted, when
\* the configuration is still the one it was accepted under and its bounds are
\* multiples of a tenth: resolve_limit changes nothing it has made.
THEOREM ReapplicationKeeps == Spec => []ReapplyKeeps
<1>1. LimitInv => ReapplyKeeps BY DEF LimitInv
<1> QED BY <1>1, LimitInductive, PTL

------------------------------------------------------------------------------
(***************************************************************************)
(* What is shown is installed.  While results are on their way it is the   *)
(* last of them that tells what the charger holds, not yet the snapshot.   *)
(***************************************************************************)
LastInstalled(i) ==
    /\ i \in 1..Len(events) /\ Installed(events[i])
    /\ \A k \in 1..Len(events) : k > i => ~Installed(events[k])

NoneInstalled == \A i \in 1..Len(events) : ~Installed(events[i])

Profiles(c, amps) == {set_charging_profile_payload(c, a) : a \in amps}

\* Nothing was lost and the profile id was never another one.
Known == ~unsure /\ ids \subseteq {config.profile_id}

ShownInv ==
    /\ ids # {} => config.profile_id \in ids
    /\ pc = "running" => config.profile_id \in ids
    /\ \A p \in profiles : p.id \in ids
    /\ \A i \in 1..Len(events) : Installed(events[i]) =>
          events[i].result.action = {"SetChargingProfile"} \/ events[i].result.applied = {}
    /\ Known => \A i : LastInstalled(i) => profiles = Profiles(config, events[i].result.applied)
    /\ Known /\ NoneInstalled =>
          profiles = {set_charging_profile_payload(c, a) : c \in under, a \in snapshot.limit}

\* Offering an event that installs nothing, or installs what the charger holds
\* from now on.
LEMMA OffersShown ==
    ASSUME TypeInv, ShownInv, NEW e \in Events, Offers(e), pc = "running",
           UNCHANGED <<pc, config, snapshot, under, ids>>,
           \A p \in profiles' : p.id \in ids,
           ~Installed(e) => profiles' = profiles,
           Installed(e) =>
               /\ ids \subseteq {config.profile_id} => profiles' = Profiles(config, e.result.applied)
               /\ e.result.action = {"SetChargingProfile"} \/ e.result.applied = {}
    PROVE  ShownInv'
<1>0. events \in Seq(Events) /\ Len(events) \in Nat BY DEF TypeInv
<1>1. CASE events' = events /\ unsure' = (unsure \/ e.kind = "result")
  <2>1. CASE Installed(e)
    <3>1. ~Known' BY <1>1, <2>1 DEF Known, Installed
    <3> QED BY <1>1, <3>1 DEF ShownInv
  <2>2. CASE ~Installed(e)
    <3>1. Known' => Known BY <1>1 DEF Known
    <3>2. profiles' = profiles BY <2>2
    <3>3. NoneInstalled' <=> NoneInstalled BY <1>1 DEF NoneInstalled
    <3>4. \A i : LastInstalled(i)' <=> LastInstalled(i) BY <1>1 DEF LastInstalled
    <3> QED BY <1>1, <3>1, <3>2, <3>3, <3>4 DEF ShownInv
  <2> QED BY <2>1, <2>2
<1>2. CASE events' = Append(events, e) /\ unsure' = (unsure /\ ~Installed(e))
  <2>1. /\ Len(events') = Len(events) + 1 /\ events'[Len(events) + 1] = e
        /\ \A i \in 1..Len(events) : events'[i] = events[i]
    BY <1>0, <1>2, AppendIndices
  <2>2. \A i \in 1..Len(events') : Installed(events'[i]) =>
           events'[i].result.action = {"SetChargingProfile"} \/ events'[i].result.applied = {}
    <3> SUFFICES ASSUME NEW i \in 1..Len(events'), Installed(events'[i])
                 PROVE  \/ events'[i].result.action = {"SetChargingProfile"}
                        \/ events'[i].result.applied = {}
      OBVIOUS
    <3>1. i \in 1..Len(events) \/ i = Len(events) + 1 BY <1>0, <2>1
    <3> QED BY <2>1, <3>1 DEF ShownInv
  <2>3. CASE Installed(e)
    <3>1. \A i : LastInstalled(i)' => i = Len(events) + 1
      BY <1>0, <2>1, <2>3 DEF LastInstalled
    <3>2. ~NoneInstalled' BY <1>0, <2>1, <2>3 DEF NoneInstalled
    <3>3. Known' => profiles' = Profiles(config, e.result.applied) BY <2>3 DEF Known
    <3>4. Known' => \A i : LastInstalled(i)' => profiles' = Profiles(config, events'[i].result.applied)
      BY <2>1, <3>1, <3>3
    <3> QED BY <2>2, <3>2, <3>4 DEF ShownInv
  <2>4. CASE ~Installed(e)
    <3>1. Known' <=> Known BY <1>2, <2>4 DEF Known
    <3>2. profiles' = profiles BY <2>4
    <3>3. NoneInstalled' => NoneInstalled
      BY <1>0, <2>1 DEF NoneInstalled
    <3>4. ASSUME NEW i, LastInstalled(i)'
          PROVE  LastInstalled(i) /\ events'[i] = events[i]
      <4>1. i \in 1..(Len(events) + 1) /\ Installed(events'[i]) BY <2>1, <3>4 DEF LastInstalled
      <4>2. i # Len(events) + 1 BY <2>1, <2>4, <4>1
      <4>3. i \in 1..Len(events) BY <1>0, <4>1, <4>2
      <4> QED BY <1>0, <2>1, <3>4, <4>3 DEF LastInstalled
    <3> QED BY <2>2, <3>1, <3>2, <3>3, <3>4 DEF ShownInv
  <2> QED BY <2>3, <2>4
<1> QED BY <1>1, <1>2, Zenon DEF Offers

\* An answer changes the charger's profiles and offers the event that says so.
LEMMA AnswerInstalls ==
    ASSUME BaseInv, LimitInv, ShownInv, NEW answer \in Answers, AnswerArrives(answer)
    PROVE  ShownInv'
<1>1. PICK x \in call :
         LET act == x.prepared.action
         IN /\ answer = "Unknown" => /\ act = "ClearChargingProfile"
                                     /\ \A p \in profiles : p.id # config.profile_id
            /\ profiles' = IF answer \notin {"none", "Accepted"} THEN profiles
                           ELSE CASE act = "SetChargingProfile" -> Installs(x.prepared)
                                  [] act = "ClearChargingProfile" ->
                                        {p \in profiles : p.id # config.profile_id}
                                  [] OTHER -> profiles
            /\ Offers(ResultEvent(for_in_flight(x.prepared, interpret_response(act, answer))))
  BY DEF AnswerArrives
<1> DEFINE act == x.prepared.action
           st == interpret_response(act, answer)
           e == ResultEvent(for_in_flight(x.prepared, st))
<1>2. st \in Statuses BY StatusNames
<1>3. act \in Actions /\ x.prepared.applied \subseteq Nat BY DEF BaseInv, TypeInv
<1>4. e \in Events BY <1>2, <1>3, OfferedIsEvent
<1>5. /\ e.kind = "result" /\ e.result.action = {act} /\ e.result.status = st
      /\ e.result.applied = x.prepared.applied
  BY DEF ResultEvent, for_in_flight
<1>6. Shows(config, x.prepared) BY DEF LimitInv
<1>7. pc = "running" /\ UNCHANGED <<pc, config, snapshot, under, ids>> BY DEF AnswerArrives
<1>8. Offers(e) BY <1>1
<1>9. /\ answer \in {"none", "Accepted"} => st = "accepted"
      /\ answer \notin {"none", "Accepted", "Unknown", "RebootRequired"} => st # "accepted"
      /\ answer = "Unknown" => act = "ClearChargingProfile"
      /\ answer = "RebootRequired" /\ st = "accepted" => act = "ChangeConfiguration"
  BY <1>1 DEF interpret_response, Answers
<1>10. Installed(e) <=> act \in {"SetChargingProfile", "ClearChargingProfile"} /\ st = "accepted"
  <2> HIDE DEF act, st, e
  <2> QED BY <1>5 DEF Installed, is_limit_result
<1>11. act = "SetChargingProfile" =>
          /\ x.prepared.profile = Profiles(config, x.prepared.applied)
          /\ \E a : x.prepared.profile = {set_charging_profile_payload(config, a)}
  BY <1>6 DEF Shows, Profiles
<1>12. act # "SetChargingProfile" => x.prepared.applied = {} BY <1>6 DEF Shows
<1>13. config.profile_id \in ids /\ (\A p \in profiles : p.id \in ids) BY <1>7 DEF ShownInv
<1>14. \A a : set_charging_profile_payload(config, a).id = config.profile_id
  BY DEF set_charging_profile_payload
<1>15. CASE answer \in {"none", "Accepted"} /\ act = "SetChargingProfile"
  <2>1. profiles' = Installs(x.prepared) BY <1>1, <1>15
  <2>2. PICK a : x.prepared.profile = {set_charging_profile_payload(config, a)} BY <1>11, <1>15
  <2>3. \A p \in profiles' : p.id \in ids BY <2>1, <2>2, <1>13, <1>14 DEF Installs
  <2>4. ids \subseteq {config.profile_id} => profiles' = x.prepared.profile
    BY <2>1, <2>2, <1>13, <1>14 DEF Installs
  <2>5. Installed(e) BY <1>9, <1>10, <1>15
  <2>6. e.result.action = {"SetChargingProfile"} BY <1>5, <1>15
  <2>7. ids \subseteq {config.profile_id} => profiles' = Profiles(config, e.result.applied)
    BY <1>5, <1>11, <1>15, <2>4
  <2> HIDE DEF e
  <2> QED BY <1>4, <1>7, <1>8, <2>3, <2>5, <2>6, <2>7, OffersShown DEF BaseInv
<1>16. CASE /\ answer \in {"none", "Accepted", "Unknown"} /\ act = "ClearChargingProfile"
            /\ Installed(e)
  <2>1. profiles' = {p \in profiles : p.id # config.profile_id} BY <1>1, <1>16
  <2>2. \A p \in profiles' : p.id \in ids BY <2>1, <1>13
  <2>3. e.result.applied = {} BY <1>5, <1>12, <1>16
  <2>4. ids \subseteq {config.profile_id} => profiles' = {} BY <2>1, <1>13
  <2>5. ids \subseteq {config.profile_id} => profiles' = Profiles(config, e.result.applied)
    BY <2>3, <2>4 DEF Profiles
  <2> HIDE DEF e
  <2> QED BY <1>4, <1>7, <1>8, <1>16, <2>2, <2>3, <2>5, OffersShown DEF BaseInv
<1>17. CASE ~Installed(e)
  <2>1. profiles' = profiles
    <3>1. CASE answer \notin {"none", "Accepted"} BY <1>1, <3>1
    <3>2. CASE answer \in {"none", "Accepted"}
      <4>1. act \notin {"SetChargingProfile", "ClearChargingProfile"} BY <1>9, <1>10, <1>17, <3>2
      <4> QED BY <1>1, <3>2, <4>1
    <3> QED BY <3>1, <3>2
  <2> HIDE DEF e
  <2> QED BY <1>4, <1>7, <1>8, <1>13, <1>17, <2>1, OffersShown DEF BaseInv
<1>18. Installed(e) => \/ answer \in {"none", "Accepted"} /\ act = "SetChargingProfile"
                       \/ answer \in {"none", "Accepted", "Unknown"} /\ act = "ClearChargingProfile"
  BY <1>9, <1>10
<1> QED BY <1>15, <1>16, <1>17, <1>18

\* Every step keeps what will be shown equal to what the charger holds.
LEMMA ShownStep == BaseInv /\ LimitInv /\ ShownInv /\ [Next]_vars => ShownInv'
<1> SUFFICES ASSUME BaseInv, LimitInv, ShownInv, [Next]_vars PROVE ShownInv' OBVIOUS
<1> USE DEF BaseInv
<1>0. events \in Seq(Events) /\ Len(events) \in Nat BY DEF TypeInv
\* What neither results nor the charger's profiles are part of.
<1>a. ASSUME UNCHANGED <<config, snapshot, under, ids, events, profiles, unsure>>,
             pc' = "running" => pc = "running"
      PROVE  ShownInv'
  <2>1. Known' <=> Known BY <1>a DEF Known
  <2>2. NoneInstalled' <=> NoneInstalled BY <1>a DEF NoneInstalled
  <2>3. \A i : LastInstalled(i)' <=> LastInstalled(i) BY <1>a DEF LastInstalled
  <2> QED BY <1>a, <2>1, <2>2, <2>3 DEF ShownInv
<1>1. CASE LoadConfig \/ MeterRuns \/ UNCHANGED vars
  BY <1>1, <1>a DEF LoadConfig, MeterRuns, vars, charger, history
<1>2. CASE Start
  <2>1. events = <<>> BY <1>2 DEF Start, LoadInv
  <2>2. /\ ids' = ids \cup {config'.profile_id}
        /\ UNCHANGED <<snapshot, events, profiles, unsure, under>>
    BY <1>2 DEF Start, charger
  <2>3. Known' => Known BY <2>2 DEF Known, ShownInv
  <2>4. Len(events') = 0 BY <2>1, <2>2
  <2>5. NoneInstalled /\ \A i : ~LastInstalled(i)' BY <2>1, <2>4 DEF NoneInstalled, LastInstalled
  <2> QED BY <2>2, <2>3, <2>4, <2>5 DEF ShownInv
<1>3. CASE ProxyRestarts
  <2>1. /\ UNCHANGED <<config, snapshot, profiles, under, ids>> /\ pc' = "loading"
        /\ events' = <<>>
        /\ unsure' = (unsure \/ call # {} \/ \E i \in 1..Len(events) : events[i].kind = "result")
    BY <1>3 DEF ProxyRestarts, charger
  <2>2. Known' => Known BY <2>1 DEF Known
  <2>3. Known' => NoneInstalled BY <2>1 DEF Known, NoneInstalled, Installed
  <2>4. Len(events') = 0 BY <2>1
  <2>5. \A i : ~LastInstalled(i)' BY <2>4 DEF LastInstalled
  <2> QED BY <2>1, <2>2, <2>3, <2>4, <2>5 DEF ShownInv
<1>4. ASSUME NEW m \in Incoming, IncomingPublish(m.topic, m.payload) PROVE ShownInv'
  BY <1>4, <1>a, InvalidChangesNothing DEF IncomingPublish, charger, history
<1>5. CASE Reapply BY <1>5, <1>a DEF Reapply, charger
<1>6. CASE SendLocalCall
  <2>1. PICK r \in request :
          IF prepare_call(config, r) = {}
          THEN Offers(ResultEvent(for_request(r, "invalid")))
          ELSE UNCHANGED <<events, missed, suspect, unsure>>
    BY <1>6 DEF SendLocalCall
  <2>2. pc = "running" /\ UNCHANGED <<pc, config, snapshot, under, ids, profiles>>
    BY <1>6 DEF SendLocalCall, charger
  <2>3. CASE prepare_call(config, r) = {}
    <3>1. WellTyped(r) BY DEF TypeInv
    <3>2. ResultEvent(for_request(r, "invalid")) \in Events BY <3>1, OfferedIsEvent
    <3>3. ~Installed(ResultEvent(for_request(r, "invalid")))
      BY DEF Installed, ResultEvent, for_request
    <3>4. \A p \in profiles' : p.id \in ids BY <2>2 DEF ShownInv
    <3> QED BY <2>1, <2>2, <2>3, <3>2, <3>3, <3>4, OffersShown
  <2>4. CASE prepare_call(config, r) # {} BY <2>1, <2>2, <2>4, <1>a
  <2> QED BY <2>3, <2>4
<1>7. ASSUME NEW answer \in Answers, AnswerArrives(answer) PROVE ShownInv'
  BY <1>7, AnswerInstalls
<1>b. ASSUME NEW e \in Events, Offers(e), ~Installed(e), pc = "running",
             UNCHANGED <<pc, config, snapshot, under, ids, profiles>>
      PROVE  ShownInv'
  <2>1. \A p \in profiles' : p.id \in ids BY <1>b DEF ShownInv
  <2> QED BY <1>b, <2>1, OffersShown
<1>8. CASE ChargerStarts
  <2>1. Message("start", 0, start') \in Events
    BY <1>8, OfferedIsEvent DEF ChargerStarts, TypeInv
  <2>2. ~Installed(Message("start", 0, start')) BY DEF Installed, Message
  <2> QED BY <1>8, <1>b, <2>1, <2>2 DEF ChargerStarts
<1>9. CASE CentralAnswers
  <2>1. Message("answer", Len(energies) + 1, 0) \in Events BY OfferedIsEvent DEF TypeInv
  <2>2. ~Installed(Message("answer", Len(energies) + 1, 0)) BY DEF Installed, Message
  <2> QED BY <1>9, <1>b, <2>1, <2>2 DEF CentralAnswers
<1>10. CASE ChargerStops
  <2>1. Message("stop", Len(energies) + 1, meter) \in Events BY OfferedIsEvent DEF TypeInv
  <2>2. ~Installed(Message("stop", Len(energies) + 1, meter)) BY DEF Installed, Message
  <2> QED BY <1>10, <1>b, <2>1, <2>2 DEF ChargerStops
<1>11. CASE HandleEvent
  <2>1. /\ events # <<>> /\ events' = Tail(events)
        /\ UNCHANGED <<pc, config, profiles, ids, unsure>>
    BY <1>11 DEF HandleEvent, charger
  <2> DEFINE e == Head(events)
  <2>2. /\ Len(events') = Len(events) - 1 /\ Len(events) > 0 /\ e = events[1]
        /\ \A i \in 1..Len(events') : i + 1 \in 1..Len(events) /\ events'[i] = events[i + 1]
    BY <1>0, <2>1, TailIndices
  <2>3. Known' <=> Known BY <2>1 DEF Known
  <2>4. \A i \in 1..Len(events') : Installed(events'[i]) =>
           events'[i].result.action = {"SetChargingProfile"} \/ events'[i].result.applied = {}
    BY <2>2 DEF ShownInv
  <2>5. ASSUME Known, NEW i, LastInstalled(i)'
        PROVE  profiles' = Profiles(config', events'[i].result.applied)
    <3>1. i \in 1..Len(events') /\ Installed(events'[i]) BY <2>5 DEF LastInstalled
    <3>2. ASSUME NEW k \in 1..Len(events), k > i + 1 PROVE ~Installed(events[k])
      <4>1. k - 1 \in 1..Len(events') /\ k - 1 > i /\ (k - 1) + 1 = k
        BY <1>0, <2>2, <3>1, <3>2
      <4> QED BY <2>2, <2>5, <4>1 DEF LastInstalled
    <3>3. LastInstalled(i + 1) BY <2>2, <3>1, <3>2 DEF LastInstalled
    <3> QED BY <2>1, <2>2, <2>5, <3>1, <3>3 DEF ShownInv
  <2>6. ASSUME Known, NoneInstalled'
        PROVE  profiles' = {set_charging_profile_payload(c, a) : c \in under', a \in snapshot'.limit}
    <3>1. ASSUME NEW k \in 1..Len(events), k > 1 PROVE ~Installed(events[k])
      <4>1. k - 1 \in 1..Len(events') /\ (k - 1) + 1 = k BY <1>0, <2>2, <3>1
      <4> QED BY <2>2, <2>6, <4>1 DEF NoneInstalled
    <3>2. CASE Installed(e)
      <4>1. 1 \in 1..Len(events) BY <1>0, <2>2
      <4>2. LastInstalled(1) BY <2>2, <3>1, <3>2, <4>1 DEF LastInstalled
      <4>3. profiles = Profiles(config, e.result.applied) BY <2>2, <2>6, <4>2 DEF ShownInv
      <4>4. e.result.action = {"SetChargingProfile"} \/ e.result.applied = {}
        BY <2>2, <3>2, <4>1 DEF ShownInv
      <4>5. under' = {config} /\ snapshot'.limit = e.result.applied
        BY <1>11, <3>2, <4>4, HandledLimit
      <4> HIDE DEF e
      <4> QED BY <2>1, <4>3, <4>5 DEF Profiles
    <3>3. CASE ~Installed(e)
      <4>1. under' = under /\ snapshot'.limit = snapshot.limit BY <1>11, <3>3, HandledLimit
      <4>2. NoneInstalled BY <1>0, <2>2, <3>1, <3>3 DEF NoneInstalled
      <4> QED BY <2>1, <2>6, <4>1, <4>2 DEF ShownInv
    <3> QED BY <3>2, <3>3
  <2>7. /\ ids' # {} => config'.profile_id \in ids'
        /\ pc' = "running" => config'.profile_id \in ids'
        /\ \A p \in profiles' : p.id \in ids'
    BY <2>1 DEF ShownInv
  <2> QED BY <2>3, <2>4, <2>5, <2>6, <2>7 DEF ShownInv
<1> QED BY <1>1, <1>2, <1>3, <1>4, <1>5, <1>6, <1>7, <1>8, <1>9, <1>10, <1>11 DEF Next

\* When a limit is shown as accepted and nothing is under way, the charger holds
\* exactly the profile that set_charging_profile_payload makes of it, or none when
\* none is shown, provided no result was lost since the last one that was
\* installed and the configured profile id has never been another.
THEOREM ShownIsHeld == Spec => []ShownIsInstalled
<1>1. Init => ShownInv
  <2>1. ASSUME Init PROVE ShownInv
    <3>1. /\ events = <<>> /\ Len(events) = 0 /\ profiles = {} /\ ids = {} /\ under = {}
          /\ pc = "loading"
      BY <2>1 DEF Init
    <3>2. \A i : ~LastInstalled(i) BY <3>1 DEF LastInstalled
    <3> QED BY <3>1, <3>2 DEF ShownInv
  <2> QED BY <2>1
<1>2. BaseInv /\ ShownInv => ShownIsInstalled
  <2> SUFFICES ASSUME BaseInv, ShownInv, events = <<>>, ~unsure, ids = {config.profile_id}
               PROVE  profiles = {set_charging_profile_payload(c, a) :
                                     c \in under, a \in snapshot.limit}
    BY DEF ShownIsInstalled
  <2>1. Known /\ NoneInstalled BY DEF Known, NoneInstalled
  <2> QED BY <2>1 DEF ShownInv
<1> QED BY <1>1, <1>2, ShownStep, LimitInductive, PTL DEF Spec

------------------------------------------------------------------------------
(***************************************************************************)
(* Transactions.  What the snapshot will show is told by the messages on   *)
(* their way, or by the snapshot when none of them concerns it.            *)
(***************************************************************************)

\* i is the last message of one of these kinds in s; there is none.
LastIn(s, kinds, i) ==
    /\ i \in 1..Len(s) /\ s[i].kind \in kinds
    /\ \A k \in 1..Len(s) : k > i => s[k].kind \notin kinds
NoneIn(s, kinds) == \A i \in 1..Len(s) : s[i].kind \notin kinds

Readings == {"start", "stop"}
Numberings == {"answer", "stop"}

\* One step of the queue, as the lemmas name it.
Appended(t, s, e) == t = Append(s, e)
Taken(t, s) == s # <<>> /\ t = Tail(s)

\* An event of these kinds, once appended, is the last of them.
LEMMA LastIsNew ==
    ASSUME NEW s \in Seq(Events), NEW e \in Events, NEW kinds, e.kind \in kinds,
           NEW t, Appended(t, s, e)
    PROVE  /\ ~NoneIn(t, kinds)
           /\ \A i : LastIn(t, kinds, i) => t[i] = e
<1>1. Len(s) \in Nat /\ Len(t) = Len(s) + 1 /\ t[Len(s) + 1] = e
  BY AppendIndices DEF Appended
<1>2. ASSUME NEW i, LastIn(t, kinds, i) PROVE t[i] = e
  BY <1>1, <1>2 DEF LastIn
<1>3. ~NoneIn(t, kinds)
  BY <1>1 DEF NoneIn
<1> QED BY <1>2, <1>3

\* An event of another kind changes nothing about the last of these.
LEMMA LastIsOld ==
    ASSUME NEW s \in Seq(Events), NEW e \in Events, NEW kinds, e.kind \notin kinds,
           NEW t, Appended(t, s, e)
    PROVE  /\ NoneIn(t, kinds) => NoneIn(s, kinds)
           /\ \A i : LastIn(t, kinds, i) => LastIn(s, kinds, i) /\ t[i] = s[i]
<1>1. /\ Len(s) \in Nat /\ Len(t) = Len(s) + 1 /\ t[Len(s) + 1] = e
      /\ \A i \in 1..Len(s) : t[i] = s[i]
  BY AppendIndices DEF Appended
<1>2. ASSUME NoneIn(t, kinds) PROVE NoneIn(s, kinds)
  BY <1>1, <1>2 DEF NoneIn
<1>3. ASSUME NEW i, LastIn(t, kinds, i) PROVE LastIn(s, kinds, i) /\ t[i] = s[i]
  <2>1. i \in 1..(Len(s) + 1) /\ i # Len(s) + 1 BY <1>1, <1>3 DEF LastIn
  <2>2. i \in 1..Len(s) BY <1>1, <2>1
  <2> QED BY <1>1, <1>3, <2>2 DEF LastIn
<1> QED BY <1>2, <1>3

\* Taking the first event moves the last of these kinds, or was it.
LEMMA LastAfterTail ==
    ASSUME NEW s \in Seq(Events), NEW kinds, NEW t, Taken(t, s)
    PROVE  /\ \A i : LastIn(t, kinds, i) => LastIn(s, kinds, i + 1) /\ t[i] = s[i + 1]
           /\ NoneIn(t, kinds) /\ Head(s).kind \in kinds =>
                LastIn(s, kinds, 1) /\ Head(s) = s[1]
           /\ NoneIn(t, kinds) /\ Head(s).kind \notin kinds => NoneIn(s, kinds)
<1>1. /\ Len(s) \in Nat /\ Len(s) > 0 /\ Len(t) = Len(s) - 1 /\ Head(s) = s[1]
      /\ \A i \in 1..Len(t) : i + 1 \in 1..Len(s) /\ t[i] = s[i + 1]
  BY TailIndices DEF Taken
<1>2. \A k \in 1..Len(s) : k > 1 => k - 1 \in 1..Len(t) /\ s[k] = t[k - 1]
  <2> SUFFICES ASSUME NEW k \in 1..Len(s), k > 1 PROVE k - 1 \in 1..Len(t) /\ s[k] = t[k - 1]
    OBVIOUS
  <2>1. k - 1 \in 1..Len(t) /\ (k - 1) + 1 = k BY <1>1
  <2> QED BY <1>1, <2>1
<1>3. ASSUME NEW i, LastIn(t, kinds, i) PROVE LastIn(s, kinds, i + 1) /\ t[i] = s[i + 1]
  <2>1. i \in 1..Len(t) /\ i + 1 \in 1..Len(s) /\ t[i] = s[i + 1] BY <1>1, <1>3 DEF LastIn
  <2>2. ASSUME NEW k \in 1..Len(s), k > i + 1 PROVE s[k].kind \notin kinds
    <3>1. k > 1 /\ k - 1 > i BY <1>1, <2>1, <2>2
    <3> QED BY <1>2, <1>3, <3>1 DEF LastIn
  <2> QED BY <1>3, <2>1, <2>2 DEF LastIn
<1>4. ASSUME NoneIn(t, kinds) PROVE \A k \in 1..Len(s) : k > 1 => s[k].kind \notin kinds
  BY <1>2, <1>4 DEF NoneIn
<1>5. 1 \in 1..Len(s) BY <1>1
<1>6. ASSUME NoneIn(t, kinds), Head(s).kind \in kinds PROVE LastIn(s, kinds, 1) /\ Head(s) = s[1]
  BY <1>1, <1>4, <1>5, <1>6 DEF LastIn
<1>7. ASSUME NoneIn(t, kinds), Head(s).kind \notin kinds PROVE NoneIn(s, kinds)
  BY <1>1, <1>4, <1>5, <1>7 DEF NoneIn
<1> QED BY <1>3, <1>6, <1>7

\* What ChargePointState::apply makes of the head of the queue.
LEMMA HandledFrame ==
    ASSUME TypeInv, HandleEvent
    PROVE  LET e == Head(events)
           IN /\ e \in Events
              /\ e.kind = "start" =>
                    /\ snapshot'.meter_start = {e.meter} /\ tainted' = tainted
                    /\ \A f \in {"transaction_id", "last_energy", "last_transaction_id"} :
                          snapshot'[f] = snapshot[f]
              /\ e.kind = "answer" =>
                    /\ snapshot'.transaction_id = {e.id} /\ tainted' = tainted
                    /\ \A f \in {"meter_start", "last_energy", "last_transaction_id"} :
                          snapshot'[f] = snapshot[f]
              /\ e.kind = "stop" =>
                    /\ snapshot'.transaction_id = {} /\ snapshot'.meter_start = {}
                    /\ snapshot'.last_energy = {e.meter - m : m \in snapshot.meter_start}
                    /\ snapshot'.last_transaction_id = {e.id} /\ tainted' = e.doubt
              /\ e.kind = "result" =>
                    /\ tainted' = tainted
                    /\ \A f \in {"transaction_id", "meter_start", "last_energy",
                                 "last_transaction_id"} : snapshot'[f] = snapshot[f]
<1> DEFINE e == Head(events)
<1>1. e \in Events BY DEF HandleEvent, TypeInv
<1>2. snapshot \in Snapshots BY DEF TypeInv
<1>3. /\ snapshot' = IF e.kind = "result" THEN apply_command_result(snapshot, e.result)
                                          ELSE apply(snapshot, e)
      /\ tainted' = IF e.kind = "stop" THEN e.doubt ELSE tainted
  BY DEF HandleEvent
<1> HIDE DEF e
<1>4. CASE e.kind = "start" BY <1>1, <1>2, <1>3, <1>4 DEF apply, Snapshots, e
<1>5. CASE e.kind = "answer" BY <1>1, <1>2, <1>3, <1>5 DEF apply, Snapshots, e
<1>6. CASE e.kind = "stop" BY <1>1, <1>2, <1>3, <1>6 DEF apply, FoldStop, Snapshots, e
<1>7. CASE e.kind = "result"
  <2>1. \A f \in {"transaction_id", "meter_start", "last_energy", "last_transaction_id"} :
           snapshot'[f] = snapshot[f]
    BY <1>2, <1>3, <1>7 DEF apply_command_result, Snapshots
  <2> QED BY <1>1, <1>3, <1>7, <2>1 DEF e
<1>8. e.kind \in {"start", "answer", "stop", "result"} BY <1>1 DEF Events
<1> QED BY <1>4, <1>5, <1>6, <1>7, <1>8

------------------------------------------------------------------------------
(***************************************************************************)
(* The open transaction, as long as no message was missed.                 *)
(***************************************************************************)

\* What the charger would be if e were the last thing heard of it.
ReadingOf(e, ch, st) ==
    IF e.kind = "start" THEN ch # "idle" /\ e.meter = st ELSE ch = "idle"
NumberingOf(e, ch, en) ==
    IF e.kind = "answer" THEN ch = "open" /\ e.id = Len(en) + 1 ELSE ch # "open"

MeterAgrees == snapshot.meter_start = (IF charging = "idle" THEN {} ELSE {start})
NumberAgrees == snapshot.transaction_id = (IF charging = "open" THEN {Len(energies) + 1} ELSE {})

OpenInv == missed = 0 =>
    /\ \A i : LastIn(events, Readings, i) => ReadingOf(events[i], charging, start)
    /\ NoneIn(events, Readings) => MeterAgrees
    /\ \A i : LastIn(events, Numberings, i) => NumberingOf(events[i], charging, energies)
    /\ NoneIn(events, Numberings) => NumberAgrees

\* Offering a message that tells what the charger has done, or one that tells
\* nothing of what has changed.
LEMMA OffersOpen ==
    ASSUME TypeInv, OpenInv, NEW e \in Events, Offers(e), UNCHANGED snapshot,
           e.kind \in Readings => ReadingOf(e, charging', start'),
           e.kind \notin Readings =>
               (charging' = "idle" <=> charging = "idle") /\ start' = start,
           e.kind \in Numberings => NumberingOf(e, charging', energies'),
           e.kind \notin Numberings =>
               (charging' = "open" <=> charging = "open") /\ energies' = energies
    PROVE  OpenInv'
<1>0. events \in Seq(Events) /\ missed \in Nat BY DEF TypeInv
<1>1. CASE events' = events /\ missed' = missed + 1
  <2>1. missed' # 0 BY <1>0, <1>1
  <2> QED BY <2>1 DEF OpenInv
<1>2. CASE events' = Append(events, e) /\ missed' = missed
  <2>0. Appended(events', events, e) BY <1>2 DEF Appended
  <2> SUFFICES ASSUME missed = 0
               PROVE  /\ \A i : LastIn(events', Readings, i) => ReadingOf(events'[i], charging', start')
                      /\ NoneIn(events', Readings) => MeterAgrees'
                      /\ \A i : LastIn(events', Numberings, i) => NumberingOf(events'[i], charging', energies')
                      /\ NoneIn(events', Numberings) => NumberAgrees'
    BY <1>2 DEF OpenInv
  <2>3. /\ \A i : LastIn(events', Readings, i) => ReadingOf(events'[i], charging', start')
        /\ NoneIn(events', Readings) => MeterAgrees'
    <3>1. CASE e.kind \in Readings
      <4>1. ~NoneIn(events', Readings) /\ \A i : LastIn(events', Readings, i) => events'[i] = e
        BY <1>0, <2>0, <3>1, LastIsNew
      <4> QED BY <3>1, <4>1 DEF ReadingOf
    <3>2. CASE e.kind \notin Readings
      <4>1. /\ NoneIn(events', Readings) => NoneIn(events, Readings)
            /\ \A i : LastIn(events', Readings, i) =>
                  LastIn(events, Readings, i) /\ events'[i] = events[i]
        BY <1>0, <2>0, <3>2, LastIsOld
      <4>2. /\ \A i : LastIn(events, Readings, i) => ReadingOf(events[i], charging, start)
            /\ NoneIn(events, Readings) => MeterAgrees
        BY DEF OpenInv
      <4>3. \A f : ReadingOf(f, charging', start') <=> ReadingOf(f, charging, start)
        BY <3>2 DEF ReadingOf
      <4>4. MeterAgrees => MeterAgrees' BY <3>2 DEF MeterAgrees
      <4> QED BY <4>1, <4>2, <4>3, <4>4
    <3> QED BY <3>1, <3>2
  <2>4. /\ \A i : LastIn(events', Numberings, i) => NumberingOf(events'[i], charging', energies')
        /\ NoneIn(events', Numberings) => NumberAgrees'
    <3>1. CASE e.kind \in Numberings
      <4>1. ~NoneIn(events', Numberings) /\ \A i : LastIn(events', Numberings, i) => events'[i] = e
        BY <1>0, <2>0, <3>1, LastIsNew
      <4> QED BY <3>1, <4>1 DEF NumberingOf
    <3>2. CASE e.kind \notin Numberings
      <4>1. /\ NoneIn(events', Numberings) => NoneIn(events, Numberings)
            /\ \A i : LastIn(events', Numberings, i) =>
                  LastIn(events, Numberings, i) /\ events'[i] = events[i]
        BY <1>0, <2>0, <3>2, LastIsOld
      <4>2. /\ \A i : LastIn(events, Numberings, i) => NumberingOf(events[i], charging, energies)
            /\ NoneIn(events, Numberings) => NumberAgrees
        BY DEF OpenInv
      <4>3. \A f : NumberingOf(f, charging', energies') <=> NumberingOf(f, charging, energies)
        BY <3>2 DEF NumberingOf
      <4>4. NumberAgrees => NumberAgrees' BY <3>2 DEF NumberAgrees
      <4> QED BY <4>1, <4>2, <4>3, <4>4
    <3> QED BY <3>1, <3>2
  <2> QED BY <2>3, <2>4
<1> QED BY <1>1, <1>2, OffersWhat

\* Every step keeps the last reading and the last number under way those of the
\* charger.
LEMMA OpenStep == BaseInv /\ OpenInv /\ [Next]_vars => OpenInv'
<1> SUFFICES ASSUME BaseInv, OpenInv, [Next]_vars PROVE OpenInv' OBVIOUS
<1> USE DEF BaseInv
<1>0. events \in Seq(Events) /\ missed \in Nat BY DEF TypeInv
<1>a. ASSUME UNCHANGED <<snapshot, events, charging, start, energies, missed>> PROVE OpenInv'
  BY <1>a DEF OpenInv, ReadingOf, NumberingOf, MeterAgrees, NumberAgrees
\* A result tells nothing of transactions.
<1>b. ASSUME NEW e \in Events, e.kind = "result", Offers(e),
             UNCHANGED <<snapshot, charging, start, energies>>
      PROVE  OpenInv'
  BY <1>b, OffersOpen DEF Readings, Numberings
<1>1. CASE LoadConfig \/ Start \/ Reapply \/ MeterRuns \/ UNCHANGED vars
  BY <1>1, <1>a DEF LoadConfig, Start, Reapply, MeterRuns, vars, charger, bounds
<1>2. CASE ProxyRestarts
  <2>1. /\ UNCHANGED <<snapshot, charging, start, energies>> /\ events' = <<>>
        /\ missed' = missed + Len(events)
    BY <1>2 DEF ProxyRestarts, charger
  <2>2. missed' = 0 => events = <<>> /\ missed = 0
    <3>1. Len(events) \in Nat BY <1>0
    <3>2. missed' = 0 => Len(events) = 0 /\ missed = 0 BY <1>0, <2>1, <3>1
    <3> QED BY <1>0, <3>2
  <2> QED BY <2>1, <2>2 DEF OpenInv, ReadingOf, NumberingOf, MeterAgrees, NumberAgrees
<1>3. ASSUME NEW m \in Incoming, IncomingPublish(m.topic, m.payload) PROVE OpenInv'
  BY <1>3, <1>a, InvalidChangesNothing DEF IncomingPublish, charger
<1>4. CASE SendLocalCall
  <2>1. PICK r \in request :
          IF prepare_call(config, r) = {}
          THEN Offers(ResultEvent(for_request(r, "invalid")))
          ELSE UNCHANGED <<events, missed, suspect, unsure>>
    BY <1>4 DEF SendLocalCall
  <2>2. UNCHANGED <<snapshot, charging, start, energies>> BY <1>4 DEF SendLocalCall, charger
  <2>3. CASE prepare_call(config, r) = {}
    <3>1. WellTyped(r) BY DEF TypeInv
    <3>2. ResultEvent(for_request(r, "invalid")) \in Events BY <3>1, OfferedIsEvent
    <3>3. ResultEvent(for_request(r, "invalid")).kind = "result" BY DEF ResultEvent
    <3> QED BY <1>b, <2>1, <2>2, <2>3, <3>2, <3>3
  <2>4. CASE prepare_call(config, r) # {} BY <2>1, <2>2, <2>4, <1>a
  <2> QED BY <2>3, <2>4
<1>5. ASSUME NEW answer \in Answers, AnswerArrives(answer) PROVE OpenInv'
  <2>1. PICK x \in call : Offers(ResultEvent(for_in_flight(x.prepared,
                               interpret_response(x.prepared.action, answer))))
    BY <1>5 DEF AnswerArrives
  <2> DEFINE e == ResultEvent(for_in_flight(x.prepared,
                      interpret_response(x.prepared.action, answer)))
  <2>2. interpret_response(x.prepared.action, answer) \in Statuses BY StatusNames
  <2>3. x.prepared.action \in Actions /\ x.prepared.applied \subseteq Nat BY DEF TypeInv
  <2>4. e \in Events BY <2>2, <2>3, OfferedIsEvent
  <2>5. e.kind = "result" BY DEF ResultEvent
  <2>6. UNCHANGED <<snapshot, charging, start, energies>> BY <1>5 DEF AnswerArrives
  <2> HIDE DEF e
  <2> QED BY <1>b, <2>1, <2>4, <2>5, <2>6 DEF e
<1>6. CASE ChargerStarts
  <2> DEFINE e == Message("start", 0, start')
  <2>1. e \in Events BY <1>6, OfferedIsEvent DEF ChargerStarts, TypeInv
  <2>2. e.kind = "start" /\ e.meter = start' BY DEF Message
  <2>3. /\ Offers(e) /\ UNCHANGED <<snapshot, energies>> /\ charging' = "starting"
        /\ charging # "open"
    BY <1>6 DEF ChargerStarts
  <2> HIDE DEF e
  <2>4. ReadingOf(e, charging', start') BY <2>2, <2>3 DEF ReadingOf, e
  <2> QED BY <2>1, <2>2, <2>3, <2>4, OffersOpen DEF Readings, Numberings
<1>7. CASE CentralAnswers
  <2> DEFINE e == Message("answer", Len(energies) + 1, 0)
  <2>1. e \in Events BY OfferedIsEvent DEF TypeInv
  <2>2. e.kind = "answer" /\ e.id = Len(energies) + 1 BY DEF Message
  <2>3. /\ Offers(e) /\ UNCHANGED <<snapshot, energies, start>> /\ charging' = "open"
        /\ charging = "starting"
    BY <1>7 DEF CentralAnswers
  <2>5. e.kind \in Numberings /\ e.kind \notin Readings BY <2>2 DEF Readings, Numberings
  <2> QED BY <2>1, <2>2, <2>3, <2>5, OffersOpen DEF NumberingOf
<1>8. CASE ChargerStops
  <2> DEFINE e == Message("stop", Len(energies) + 1, meter)
  <2>1. e \in Events BY OfferedIsEvent DEF TypeInv
  <2>2. e.kind = "stop" BY DEF Message
  <2>3. Offers(e) /\ UNCHANGED snapshot /\ charging' = "idle" BY <1>8 DEF ChargerStops
  <2>5. e.kind \in Numberings /\ e.kind \in Readings BY <2>2 DEF Readings, Numberings
  <2> QED BY <2>1, <2>2, <2>3, <2>5, OffersOpen DEF NumberingOf, ReadingOf
<1>9. CASE HandleEvent
  <2>1. /\ events # <<>> /\ events' = Tail(events)
        /\ UNCHANGED <<charging, start, energies, missed>>
    BY <1>9 DEF HandleEvent, charger, bounds
  <2>0. Taken(events', events) BY <2>1 DEF Taken
  <2> SUFFICES ASSUME missed = 0
               PROVE  /\ \A i : LastIn(events', Readings, i) => ReadingOf(events'[i], charging', start')
                      /\ NoneIn(events', Readings) => MeterAgrees'
                      /\ \A i : LastIn(events', Numberings, i) => NumberingOf(events'[i], charging', energies')
                      /\ NoneIn(events', Numberings) => NumberAgrees'
    BY <2>1 DEF OpenInv
  <2> DEFINE e == Head(events)
  <2>2. /\ \A i : LastIn(events', Readings, i) =>
               LastIn(events, Readings, i + 1) /\ events'[i] = events[i + 1]
        /\ NoneIn(events', Readings) /\ e.kind \in Readings =>
              LastIn(events, Readings, 1) /\ e = events[1]
        /\ NoneIn(events', Readings) /\ e.kind \notin Readings => NoneIn(events, Readings)
    BY <1>0, <2>0, LastAfterTail
  <2>3. /\ \A i : LastIn(events', Numberings, i) =>
               LastIn(events, Numberings, i + 1) /\ events'[i] = events[i + 1]
        /\ NoneIn(events', Numberings) /\ e.kind \in Numberings =>
              LastIn(events, Numberings, 1) /\ e = events[1]
        /\ NoneIn(events', Numberings) /\ e.kind \notin Numberings => NoneIn(events, Numberings)
    BY <1>0, <2>0, LastAfterTail
  <2>4. /\ \A i : LastIn(events, Readings, i) => ReadingOf(events[i], charging, start)
        /\ \A i : LastIn(events, Numberings, i) => NumberingOf(events[i], charging, energies)
    BY DEF OpenInv
  <2>5. e \in Events BY <1>9, HandledFrame
  <2>6. e.kind \in {"start", "answer", "stop", "result"} BY <2>5 DEF Events
  <2>7. \A i : LastIn(events', Readings, i) => ReadingOf(events'[i], charging', start')
    BY <2>1, <2>2, <2>4
  <2>8. \A i : LastIn(events', Numberings, i) => NumberingOf(events'[i], charging', energies')
    BY <2>1, <2>3, <2>4
  <2>9. ASSUME NoneIn(events', Readings) PROVE MeterAgrees'
    <3>1. CASE e.kind \in Readings
      <4>1. ReadingOf(e, charging, start) BY <2>2, <2>9, <3>1 DEF OpenInv
      <4>2. snapshot'.meter_start = IF e.kind = "start" THEN {e.meter} ELSE {}
        BY <1>9, <3>1, HandledFrame DEF Readings
      <4> HIDE DEF e
      <4> QED BY <2>1, <4>1, <4>2 DEF ReadingOf, MeterAgrees
    <3>2. CASE e.kind \notin Readings
      <4>1. MeterAgrees BY <2>2, <2>9, <3>2 DEF OpenInv
      <4>2. snapshot'.meter_start = snapshot.meter_start
        BY <1>9, <2>6, <3>2, HandledFrame DEF Readings
      <4> QED BY <2>1, <4>1, <4>2 DEF MeterAgrees
    <3> QED BY <3>1, <3>2
  <2>10. ASSUME NoneIn(events', Numberings) PROVE NumberAgrees'
    <3>1. CASE e.kind \in Numberings
      <4>1. NumberingOf(e, charging, energies) BY <2>3, <2>10, <3>1 DEF OpenInv
      <4>2. snapshot'.transaction_id = IF e.kind = "answer" THEN {e.id} ELSE {}
        BY <1>9, <3>1, HandledFrame DEF Numberings
      <4> HIDE DEF e
      <4> QED BY <2>1, <4>1, <4>2 DEF NumberingOf, NumberAgrees
    <3>2. CASE e.kind \notin Numberings
      <4>1. NumberAgrees BY <2>3, <2>10, <3>2 DEF OpenInv
      <4>2. snapshot'.transaction_id = snapshot.transaction_id
        BY <1>9, <2>6, <3>2, HandledFrame DEF Numberings
      <4> QED BY <2>1, <4>1, <4>2 DEF NumberAgrees
    <3> QED BY <3>1, <3>2
  <2> QED BY <2>7, <2>8, <2>9, <2>10
<1> QED BY <1>1, <1>2, <1>3, <1>4, <1>5, <1>6, <1>7, <1>8, <1>9 DEF Next

\* As long as no message was missed, a snapshot that has handled all of them shows
\* the transaction the charger has open, with the reading it began at: also
\* when a StartTransaction is sent again, and after a restart in its middle.
THEOREM OpenIsShown == Spec => []OpenAgrees
<1>1. Init => OpenInv
  BY DEF Init, Blank, OpenInv, LastIn, MeterAgrees, NumberAgrees
<1>2. OpenInv => OpenAgrees
  <2> SUFFICES ASSUME OpenInv, events = <<>>, missed = 0 PROVE MeterAgrees /\ NumberAgrees
    BY DEF OpenAgrees, MeterAgrees, NumberAgrees
  <2>1. NoneIn(events, Readings) /\ NoneIn(events, Numberings) BY DEF NoneIn
  <2> QED BY <2>1 DEF OpenInv
<1> QED BY <1>1, <1>2, OpenStep, BaseInductive, PTL DEF Spec

------------------------------------------------------------------------------
(***************************************************************************)
(* Energies.  Two readings are of one transaction when no StopTransaction  *)
(* came between them, handled or missed; a start that follows a missed     *)
(* stop is doubtful and says so.                                           *)
(***************************************************************************)

\* After e, what was read before is of another transaction.
Breaks(e) == e.kind = "stop" \/ (e.kind = "start" /\ e.doubt)
Unbroken(s, j) == \A k \in 1..Len(s) : k > j => ~Breaks(s[k])

\* While nothing is suspect, a reading after which nothing broke is the one the
\* open transaction began at.
CleanInv == ~suspect =>
    /\ \A j \in 1..Len(events) : events[j].kind = "start" /\ Unbroken(events, j) =>
          charging # "idle" /\ events[j].meter = start
    /\ Unbroken(events, 0) => \A m \in snapshot.meter_start : charging # "idle" /\ m = start

\* A stretch that is unbroken after an event was appended was so before.
LEMMA UnbrokenAppend ==
    ASSUME NEW s \in Seq(Events), NEW e \in Events, NEW t, Appended(t, s, e),
           NEW j \in 0..Len(s), Unbroken(t, j)
    PROVE  Unbroken(s, j) /\ ~Breaks(e)
<1>1. /\ Len(s) \in Nat /\ Len(t) = Len(s) + 1 /\ t[Len(s) + 1] = e
      /\ \A i \in 1..Len(s) : t[i] = s[i]
  BY AppendIndices DEF Appended
<1>2. Unbroken(s, j) BY <1>1 DEF Unbroken
<1>3. Len(s) + 1 \in 1..Len(t) /\ Len(s) + 1 > j BY <1>1
<1>4. ~Breaks(e) BY <1>1, <1>3 DEF Unbroken
<1> QED BY <1>2, <1>4

\* A stretch that is unbroken after the first event was taken was so before.
LEMMA UnbrokenTail ==
    ASSUME NEW s \in Seq(Events), NEW t, Taken(t, s), NEW j \in Nat, Unbroken(t, j)
    PROVE  Unbroken(s, j + 1) /\ (j = 0 /\ ~Breaks(Head(s)) => Unbroken(s, 0))
<1>1. /\ Len(s) \in Nat /\ Len(s) > 0 /\ Len(t) = Len(s) - 1 /\ Head(s) = s[1]
      /\ \A i \in 1..Len(t) : i + 1 \in 1..Len(s) /\ t[i] = s[i + 1]
  BY TailIndices DEF Taken
<1>2. ASSUME NEW k \in 1..Len(s), k > j + 1 PROVE ~Breaks(s[k])
  <2>1. k - 1 \in 1..Len(t) /\ k - 1 > j /\ (k - 1) + 1 = k BY <1>1, <1>2
  <2> QED BY <1>1, <2>1 DEF Unbroken
<1>3. Unbroken(s, j + 1) BY <1>2 DEF Unbroken
<1>4. ASSUME j = 0, ~Breaks(Head(s)) PROVE Unbroken(s, 0)
  <2>1. \A k \in 1..Len(s) : k = 1 \/ k > j + 1 BY <1>1, <1>4
  <2> QED BY <1>1, <1>2, <1>4, <2>1 DEF Unbroken
<1> QED BY <1>3, <1>4

\* Messages that are no reading, handed over or lost.
LEMMA CleanOther ==
    ASSUME TypeInv, CleanInv, NEW e \in Events, Offers(e), e.kind \notin Readings,
           UNCHANGED <<snapshot, start>>, charging # "idle" => charging' # "idle"
    PROVE  CleanInv'
<1>0. events \in Seq(Events) /\ Len(events) \in Nat BY DEF TypeInv
<1>1. suspect' <=> suspect BY DEF Offers, Readings
<1>2. CASE events' = events BY <1>1, <1>2 DEF CleanInv
<1>3. CASE events' = Append(events, e)
  <2>0. Appended(events', events, e) BY <1>3 DEF Appended
  <2>1. /\ Len(events') = Len(events) + 1 /\ events'[Len(events) + 1] = e
        /\ \A i \in 1..Len(events) : events'[i] = events[i]
    BY <1>0, <1>3, AppendIndices
  <2> SUFFICES ASSUME ~suspect
               PROVE  /\ \A j \in 1..Len(events') :
                            events'[j].kind = "start" /\ Unbroken(events', j) =>
                                charging' # "idle" /\ events'[j].meter = start'
                      /\ Unbroken(events', 0) =>
                            \A m \in snapshot'.meter_start : charging' # "idle" /\ m = start'
    BY <1>1 DEF CleanInv
  <2>2. ASSUME NEW j \in 1..Len(events'), events'[j].kind = "start", Unbroken(events', j)
        PROVE  charging' # "idle" /\ events'[j].meter = start'
    <3>1. j # Len(events) + 1 BY <2>1, <2>2 DEF Readings
    <3>2. j \in 1..Len(events) /\ j \in 0..Len(events) BY <1>0, <2>1, <3>1
    <3>3. Unbroken(events, j) BY <1>0, <2>0, <2>2, <3>2, UnbrokenAppend
    <3> QED BY <2>1, <2>2, <3>2, <3>3 DEF CleanInv
  <2>3. ASSUME Unbroken(events', 0)
        PROVE  \A m \in snapshot'.meter_start : charging' # "idle" /\ m = start'
    <3>1. 0 \in 0..Len(events) BY <1>0
    <3>2. Unbroken(events, 0) BY <1>0, <2>0, <2>3, <3>1, UnbrokenAppend
    <3> QED BY <3>2 DEF CleanInv
  <2> QED BY <2>2, <2>3
<1> QED BY <1>2, <1>3, OffersWhat

\* Every step keeps an unsuspected reading that of the open transaction.
LEMMA CleanStep == BaseInv /\ CleanInv /\ [Next]_vars => CleanInv'
<1> SUFFICES ASSUME BaseInv, CleanInv, [Next]_vars PROVE CleanInv' OBVIOUS
<1> USE DEF BaseInv
<1>0. events \in Seq(Events) /\ Len(events) \in Nat BY DEF TypeInv
<1>a. ASSUME UNCHANGED <<snapshot, events, charging, start, suspect>> PROVE CleanInv'
  BY <1>a DEF CleanInv
<1>1. CASE LoadConfig \/ Start \/ Reapply \/ MeterRuns \/ UNCHANGED vars
  BY <1>1, <1>a DEF LoadConfig, Start, Reapply, MeterRuns, vars, charger, history
<1>2. CASE ProxyRestarts
  <2>1. /\ UNCHANGED <<snapshot, charging, start>> /\ events' = <<>> /\ Len(events') = 0
        /\ suspect' = (suspect \/ \E i \in 1..Len(events) :
                                     events[i].kind = "stop" \/ events[i].doubt)
    BY <1>2 DEF ProxyRestarts, charger
  <2>2. ASSUME ~suspect' PROVE ~suspect /\ Unbroken(events, 0)
    BY <2>1, <2>2 DEF Unbroken, Breaks
  <2> QED BY <2>1, <2>2 DEF CleanInv
<1>3. ASSUME NEW m \in Incoming, IncomingPublish(m.topic, m.payload) PROVE CleanInv'
  BY <1>3, <1>a, InvalidChangesNothing DEF IncomingPublish, charger, history
<1>4. CASE SendLocalCall
  <2>1. PICK r \in request :
          IF prepare_call(config, r) = {}
          THEN Offers(ResultEvent(for_request(r, "invalid")))
          ELSE UNCHANGED <<events, missed, suspect, unsure>>
    BY <1>4 DEF SendLocalCall
  <2>2. UNCHANGED <<snapshot, charging, start>> BY <1>4 DEF SendLocalCall, charger
  <2>3. CASE prepare_call(config, r) = {}
    <3>1. WellTyped(r) BY DEF TypeInv
    <3>2. ResultEvent(for_request(r, "invalid")) \in Events BY <3>1, OfferedIsEvent
    <3>3. ResultEvent(for_request(r, "invalid")).kind \notin Readings BY DEF ResultEvent, Readings
    <3> QED BY <2>1, <2>2, <2>3, <3>2, <3>3, CleanOther
  <2>4. CASE prepare_call(config, r) # {} BY <2>1, <2>2, <2>4, <1>a
  <2> QED BY <2>3, <2>4
<1>5. ASSUME NEW answer \in Answers, AnswerArrives(answer) PROVE CleanInv'
  <2>1. PICK x \in call : Offers(ResultEvent(for_in_flight(x.prepared,
                               interpret_response(x.prepared.action, answer))))
    BY <1>5 DEF AnswerArrives
  <2> DEFINE e == ResultEvent(for_in_flight(x.prepared,
                      interpret_response(x.prepared.action, answer)))
  <2>2. interpret_response(x.prepared.action, answer) \in Statuses BY StatusNames
  <2>3. x.prepared.action \in Actions /\ x.prepared.applied \subseteq Nat BY DEF TypeInv
  <2>4. e \in Events BY <2>2, <2>3, OfferedIsEvent
  <2>5. e.kind \notin Readings BY DEF ResultEvent, Readings
  <2>6. UNCHANGED <<snapshot, charging, start>> BY <1>5 DEF AnswerArrives
  <2> HIDE DEF e
  <2> QED BY <2>1, <2>4, <2>5, <2>6, CleanOther DEF e
<1>6. CASE ChargerStarts
  <2> DEFINE e == Message("start", 0, start')
  <2>1. e \in Events BY <1>6, OfferedIsEvent DEF ChargerStarts, TypeInv
  <2>2. e.kind = "start" /\ e.meter = start' /\ e.doubt = suspect BY DEF Message
  <2>3. /\ Offers(e) /\ UNCHANGED snapshot /\ charging' = "starting"
        /\ charging # "idle" => start' = start
    BY <1>6 DEF ChargerStarts
  <2> HIDE DEF e
  <2>4. CASE events' = events /\ suspect' = (suspect \/ e.kind = "stop")
    <3>1. suspect' <=> suspect BY <2>2, <2>4
    <3> QED BY <2>3, <2>4, <3>1 DEF CleanInv
  <2>5. CASE events' = Append(events, e)
    <3>0. Appended(events', events, e) BY <2>5 DEF Appended
    <3>1. /\ Len(events') = Len(events) + 1 /\ events'[Len(events) + 1] = e
          /\ \A i \in 1..Len(events) : events'[i] = events[i]
      BY <1>0, <2>1, <2>5, AppendIndices
    <3>2. ASSUME NEW j \in 0..Len(events), Unbroken(events', j)
          PROVE  Unbroken(events, j) /\ ~suspect
      <4>1. Unbroken(events, j) /\ ~Breaks(e) BY <1>0, <2>1, <3>0, <3>2, UnbrokenAppend
      <4> QED BY <2>2, <4>1 DEF Breaks
    <3>3. ASSUME NEW j \in 1..Len(events'), events'[j].kind = "start", Unbroken(events', j)
          PROVE  charging' # "idle" /\ events'[j].meter = start'
      <4>1. CASE j = Len(events) + 1 BY <2>2, <2>3, <3>1, <4>1
      <4>2. CASE j # Len(events) + 1
        <5>1. j \in 1..Len(events) /\ j \in 0..Len(events) BY <1>0, <3>1, <4>2
        <5>2. Unbroken(events, j) /\ ~suspect BY <3>2, <3>3, <5>1
        <5> QED BY <2>3, <3>1, <3>3, <5>1, <5>2 DEF CleanInv
      <4> QED BY <4>1, <4>2
    <3>4. ASSUME Unbroken(events', 0)
          PROVE  \A m \in snapshot'.meter_start : charging' # "idle" /\ m = start'
      <4>1. 0 \in 0..Len(events) BY <1>0
      <4>2. Unbroken(events, 0) /\ ~suspect BY <3>2, <3>4, <4>1
      <4> QED BY <2>3, <4>2 DEF CleanInv
    <3> QED BY <3>3, <3>4 DEF CleanInv
  <2> QED BY <2>3, <2>4, <2>5 DEF Offers
<1>7. CASE CentralAnswers
  <2> DEFINE e == Message("answer", Len(energies) + 1, 0)
  <2>1. e \in Events BY OfferedIsEvent DEF TypeInv
  <2>2. e.kind \notin Readings BY DEF Message, Readings
  <2>3. Offers(e) /\ UNCHANGED <<snapshot, start>> /\ charging' = "open"
    BY <1>7 DEF CentralAnswers
  <2> HIDE DEF e
  <2> QED BY <2>1, <2>2, <2>3, CleanOther DEF e
<1>8. CASE ChargerStops
  <2> DEFINE e == Message("stop", Len(energies) + 1, meter)
  <2>1. e \in Events BY OfferedIsEvent DEF TypeInv
  <2>2. e.kind = "stop" BY DEF Message
  <2>3. Offers(e) BY <1>8 DEF ChargerStops
  <2> HIDE DEF e
  <2>4. CASE suspect' = (suspect \/ e.kind = "stop") BY <2>2, <2>4 DEF CleanInv
  <2>5. CASE events' = Append(events, e)
    <3>0. Appended(events', events, e) BY <2>5 DEF Appended
    <3>1. Len(events') = Len(events) + 1 /\ events'[Len(events) + 1] = e
      BY <1>0, <2>1, <2>5, AppendIndices
    <3>2. ASSUME NEW j \in 0..Len(events) PROVE ~Unbroken(events', j)
      <4>1. Breaks(e) BY <2>2 DEF Breaks
      <4> QED BY <1>0, <2>1, <3>0, <4>1, UnbrokenAppend
    <3>3. 0 \in 0..Len(events) BY <1>0
    <3>4. ASSUME NEW j \in 1..Len(events'), events'[j].kind = "start"
          PROVE  j \in 0..Len(events)
      <4>1. j # Len(events) + 1 BY <2>2, <3>1, <3>4
      <4> QED BY <1>0, <3>1, <4>1
    <3> QED BY <3>2, <3>3, <3>4 DEF CleanInv
  <2> QED BY <2>3, <2>4, <2>5 DEF Offers
<1>9. CASE HandleEvent
  <2>1. /\ events # <<>> /\ events' = Tail(events)
        /\ UNCHANGED <<charging, start, suspect>>
    BY <1>9 DEF HandleEvent, charger
  <2>0. Taken(events', events) BY <2>1 DEF Taken
  <2> DEFINE e == Head(events)
  <2>2. /\ Len(events') = Len(events) - 1 /\ Len(events) > 0 /\ e = events[1]
        /\ \A i \in 1..Len(events') : i + 1 \in 1..Len(events) /\ events'[i] = events[i + 1]
    BY <1>0, <2>1, TailIndices
  <2>3. e \in Events BY <1>9, HandledFrame
  <2>4. e.kind \in {"start", "answer", "stop", "result"} BY <2>3 DEF Events
  <2> SUFFICES ASSUME ~suspect
               PROVE  /\ \A j \in 1..Len(events') :
                            events'[j].kind = "start" /\ Unbroken(events', j) =>
                                charging # "idle" /\ events'[j].meter = start
                      /\ Unbroken(events', 0) =>
                            \A m \in snapshot'.meter_start : charging # "idle" /\ m = start
    BY <2>1 DEF CleanInv
  <2>5. ASSUME NEW j \in 1..Len(events'), events'[j].kind = "start", Unbroken(events', j)
        PROVE  charging # "idle" /\ events'[j].meter = start
    <3>1. j \in Nat BY <1>0, <2>2
    <3>2. Unbroken(events, j + 1) BY <1>0, <2>0, <2>5, <3>1, UnbrokenTail
    <3> QED BY <2>2, <2>5, <3>2 DEF CleanInv
  <2>6. ASSUME Unbroken(events', 0)
        PROVE  \A m \in snapshot'.meter_start : charging # "idle" /\ m = start
    <3>1. Unbroken(events, 0 + 1) /\ (~Breaks(e) => Unbroken(events, 0))
      BY <1>0, <2>0, <2>6, UnbrokenTail
    <3>2. Unbroken(events, 1) BY <3>1
    <3>3. CASE e.kind = "start"
      <4>1. 1 \in 1..Len(events) BY <1>0, <2>2
      <4>2. charging # "idle" /\ e.meter = start BY <2>2, <3>2, <3>3, <4>1 DEF CleanInv
      <4>3. snapshot'.meter_start = {e.meter} BY <1>9, <3>3, HandledFrame
      <4> HIDE DEF e
      <4> QED BY <4>2, <4>3
    <3>4. CASE e.kind = "stop"
      <4>1. snapshot'.meter_start = {} BY <1>9, <3>4, HandledFrame
      <4> QED BY <4>1
    <3>5. CASE e.kind \in {"answer", "result"}
      <4>1. snapshot'.meter_start = snapshot.meter_start BY <1>9, <3>5, HandledFrame
      <4>2. ~Breaks(e) BY <3>5 DEF Breaks
      <4> HIDE DEF e
      <4> QED BY <3>1, <4>1, <4>2 DEF CleanInv
    <3> QED BY <2>4, <3>3, <3>4, <3>5
  <2> QED BY <2>5, <2>6
<1> QED BY <1>1, <1>2, <1>3, <1>4, <1>5, <1>6, <1>7, <1>8, <1>9 DEF Next

\* A stop that was sent while nothing was suspect, with the reading it is
\* compared with: of the start before it, or of the snapshot.
Trusted(e) == e.kind = "stop" /\ ~e.doubt
Between(s, j, i) == \A k \in 1..Len(s) : j < k /\ k < i => s[k].kind \notin Readings
Took(e, reading) == e.meter - reading = energies[e.id]

ExactInv ==
    /\ \A i \in 1..Len(events) : events[i].kind = "stop" => events[i].id \in 1..Len(energies)
    /\ snapshot.last_transaction_id \subseteq 1..Len(energies)
    /\ \A i, j \in 1..Len(events) :
          j < i /\ events[j].kind = "start" /\ Trusted(events[i]) /\ Between(events, j, i) =>
              Took(events[i], events[j].meter)
    /\ \A i \in 1..Len(events) : Trusted(events[i]) /\ Between(events, 0, i) =>
          \A m \in snapshot.meter_start : Took(events[i], m)
    /\ EnergyExact

\* What lies between two events is not changed by one behind them.
LEMMA BetweenAppend ==
    ASSUME NEW s \in Seq(Events), NEW e \in Events, NEW t, Appended(t, s, e),
           NEW j \in Nat, NEW i \in 1..(Len(s) + 1), Between(t, j, i)
    PROVE  Between(s, j, i) /\ (i = Len(s) + 1 => Unbroken(s, j))
<1>1. /\ Len(s) \in Nat /\ Len(t) = Len(s) + 1
      /\ \A k \in 1..Len(s) : t[k] = s[k]
  BY AppendIndices DEF Appended
<1>2. Between(s, j, i) BY <1>1 DEF Between
<1>3. ASSUME i = Len(s) + 1 PROVE Unbroken(s, j)
  <2>1. \A k \in 1..Len(s) : k > j => j < k /\ k < i BY <1>1, <1>3
  <2>2. \A k \in 1..Len(s) : k > j => s[k].kind \notin Readings BY <1>2, <2>1 DEF Between
  <2> QED BY <2>2 DEF Unbroken, Breaks, Readings
<1> QED BY <1>2, <1>3

\* Taking the first event moves what lies between two others.
LEMMA BetweenTail ==
    ASSUME NEW s \in Seq(Events), NEW t, Taken(t, s),
           NEW j \in Nat, NEW i \in 1..Len(t), Between(t, j, i)
    PROVE  /\ Between(s, j + 1, i + 1)
           /\ j = 0 /\ Head(s).kind \notin Readings => Between(s, 0, i + 1)
<1>1. /\ Len(s) \in Nat /\ Len(s) > 0 /\ Len(t) = Len(s) - 1 /\ Head(s) = s[1]
      /\ \A k \in 1..Len(t) : k + 1 \in 1..Len(s) /\ t[k] = s[k + 1]
  BY TailIndices DEF Taken
<1>2. ASSUME NEW k \in 1..Len(s), j + 1 < k, k < i + 1 PROVE s[k].kind \notin Readings
  <2>1. k - 1 \in 1..Len(t) /\ j < k - 1 /\ k - 1 < i /\ (k - 1) + 1 = k BY <1>1, <1>2
  <2> QED BY <1>1, <2>1 DEF Between
<1>3. Between(s, j + 1, i + 1) BY <1>2 DEF Between
<1>4. ASSUME j = 0, Head(s).kind \notin Readings PROVE Between(s, 0, i + 1)
  <2>1. \A k \in 1..Len(s) : k = 1 \/ j + 1 < k BY <1>1, <1>4
  <2> QED BY <1>1, <1>2, <1>4, <2>1 DEF Between
<1> QED BY <1>3, <1>4

\* Energies that are known stay known, and a message that is handed over is
\* compared with a reading of its own transaction.
LEMMA OffersExact ==
    ASSUME TypeInv, CleanInv, ExactInv, NEW e \in Events, Offers(e), UNCHANGED <<snapshot, tainted>>,
           energies' \in Seq(Nat), Len(energies) <= Len(energies'),
           \A t \in 1..Len(energies) : energies'[t] = energies[t],
           e.kind = "stop" => e.id \in 1..Len(energies'),
           Trusted(e) => ~suspect /\ e.meter - start = energies'[e.id]
    PROVE  ExactInv'
<1>0. /\ events \in Seq(Events) /\ Len(events) \in Nat
      /\ Len(energies) \in Nat /\ Len(energies') \in Nat
  BY DEF TypeInv
<1>1. \A t \in 1..Len(energies) : t \in 1..Len(energies') BY <1>0
<1>2. EnergyExact'
  <2> SUFFICES ASSUME ~tainted, NEW d \in snapshot.last_energy,
                      NEW t \in snapshot.last_transaction_id
               PROVE  t <= Len(energies') /\ d = energies'[t]
    BY DEF EnergyExact
  <2>1. t \in 1..Len(energies) /\ d = energies[t] BY DEF ExactInv, EnergyExact
  <2> QED BY <1>0, <1>1, <2>1
<1>3. snapshot'.last_transaction_id \subseteq 1..Len(energies') BY <1>1 DEF ExactInv
<1>4. \A f, reading : f.id \in 1..Len(energies) /\ Took(f, reading) =>
         f.meter - reading = energies'[f.id]
  BY DEF Took
<1>5. CASE events' = events
  <2>1. \A i \in 1..Len(events') : events'[i].kind = "stop" =>
           events'[i].id \in 1..Len(energies) /\ events'[i].id \in 1..Len(energies')
    BY <1>1, <1>5 DEF ExactInv
  <2>2. \A i, j \in 1..Len(events') :
           j < i /\ events'[j].kind = "start" /\ Trusted(events'[i]) /\ Between(events', j, i) =>
               events'[i].meter - events'[j].meter = energies'[events'[i].id]
    BY <1>4, <1>5, <2>1 DEF ExactInv, Trusted
  <2>3. \A i \in 1..Len(events') : Trusted(events'[i]) /\ Between(events', 0, i) =>
           \A m \in snapshot'.meter_start : events'[i].meter - m = energies'[events'[i].id]
    BY <1>4, <1>5, <2>1 DEF ExactInv, Trusted
  <2> QED BY <1>2, <1>3, <2>1, <2>2, <2>3 DEF ExactInv, Took
<1>6. CASE events' = Append(events, e)
  <2>0. Appended(events', events, e) BY <1>6 DEF Appended
  <2>1. /\ Len(events') = Len(events) + 1 /\ events'[Len(events) + 1] = e
        /\ \A i \in 1..Len(events) : events'[i] = events[i]
        /\ \A i \in 1..Len(events') : i \in 1..Len(events) \/ i = Len(events) + 1
    BY <1>0, <1>6, AppendIndices
  <2>2. \A i \in 1..Len(events') : events'[i].kind = "stop" => events'[i].id \in 1..Len(energies')
    BY <1>1, <2>1 DEF ExactInv
  <2>3. ASSUME NEW i \in 1..Len(events'), NEW j \in 1..Len(events'), j < i,
               events'[j].kind = "start", Trusted(events'[i]), Between(events', j, i)
        PROVE  events'[i].meter - events'[j].meter = energies'[events'[i].id]
    <3>1. i \in 1..(Len(events) + 1) /\ j \in Nat /\ j \in 1..Len(events)
      BY <1>0, <2>1, <2>3
    <3>2. Between(events, j, i) /\ (i = Len(events) + 1 => Unbroken(events, j))
      BY <1>0, <2>0, <2>3, <3>1, BetweenAppend
    <3>3. events'[j] = events[j] BY <2>1, <3>1
    <3>4. CASE i = Len(events) + 1
      <4>1. events'[i] = e BY <2>1, <3>4
      <4>2. events[j].meter = start BY <2>3, <3>1, <3>2, <3>3, <3>4, <4>1 DEF CleanInv
      <4> QED BY <2>3, <3>3, <4>1, <4>2
    <3>5. CASE i \in 1..Len(events)
      <4>1. events'[i] = events[i] BY <2>1, <3>5
      <4>2. Took(events[i], events[j].meter) BY <2>3, <3>1, <3>2, <3>3, <3>5, <4>1 DEF ExactInv
      <4>3. events[i].id \in 1..Len(energies) BY <2>3, <3>5, <4>1 DEF ExactInv, Trusted
      <4> QED BY <1>4, <3>3, <4>1, <4>2, <4>3
    <3> QED BY <2>1, <3>4, <3>5
  <2>4. ASSUME NEW i \in 1..Len(events'), Trusted(events'[i]), Between(events', 0, i),
               NEW m \in snapshot'.meter_start
        PROVE  events'[i].meter - m = energies'[events'[i].id]
    <3>1. i \in 1..(Len(events) + 1) /\ 0 \in Nat BY <2>1
    <3>2. Between(events, 0, i) /\ (i = Len(events) + 1 => Unbroken(events, 0))
      BY <1>0, <2>0, <2>4, <3>1, BetweenAppend
    <3>3. m \in snapshot.meter_start BY <2>4
    <3>4. CASE i = Len(events) + 1
      <4>1. events'[i] = e BY <2>1, <3>4
      <4>2. m = start BY <2>4, <3>2, <3>3, <3>4, <4>1 DEF CleanInv
      <4> QED BY <2>4, <4>1, <4>2
    <3>5. CASE i \in 1..Len(events)
      <4>1. events'[i] = events[i] BY <2>1, <3>5
      <4>2. Took(events[i], m) BY <2>4, <3>2, <3>3, <3>5, <4>1 DEF ExactInv
      <4>3. events[i].id \in 1..Len(energies) BY <2>4, <3>5, <4>1 DEF ExactInv, Trusted
      <4> QED BY <1>4, <4>1, <4>2, <4>3
    <3> QED BY <2>1, <3>4, <3>5
  <2> QED BY <1>2, <1>3, <2>2, <2>3, <2>4 DEF ExactInv, Took
<1> QED BY <1>5, <1>6, OffersWhat

\* Folding a stop that nothing makes doubtful shows the energy of its
\* transaction.
LEMMA HandleExact == ASSUME BaseInv, ExactInv, HandleEvent PROVE ExactInv'
<1> USE DEF BaseInv
<1>0. /\ events \in Seq(Events) /\ Len(events) \in Nat /\ Len(energies) \in Nat
  BY DEF TypeInv
<1>1. events # <<>> /\ events' = Tail(events) /\ energies' = energies
  BY DEF HandleEvent, charger
<1> DEFINE e == Head(events)
<1>2. Taken(events', events) BY <1>1 DEF Taken
<1>3. /\ Len(events') = Len(events) - 1 /\ Len(events) > 0 /\ e = events[1]
      /\ \A i \in 1..Len(events') : i + 1 \in 1..Len(events) /\ events'[i] = events[i + 1]
  BY <1>0, <1>1, TailIndices
<1>4. 1 \in 1..Len(events) BY <1>0, <1>3
<1>5. e \in Events /\ e.kind \in {"start", "answer", "stop", "result"}
  <2>1. e \in Events BY HandledFrame
  <2> QED BY <2>1 DEF Events
<1>6. \A i \in 1..Len(events') : events'[i].kind = "stop" => events'[i].id \in 1..Len(energies)
  BY <1>3 DEF ExactInv
<1>7. ASSUME NEW i \in 1..Len(events'), NEW j \in 1..Len(events'), j < i,
             events'[j].kind = "start", Trusted(events'[i]), Between(events', j, i)
      PROVE  Took(events'[i], events'[j].meter)
  <2>1. j \in Nat /\ j + 1 < i + 1 BY <1>0, <1>3, <1>7
  <2>2. Between(events, j + 1, i + 1) BY <1>0, <1>2, <1>7, <2>1, BetweenTail
  <2> QED BY <1>3, <1>7, <2>1, <2>2 DEF ExactInv
<1>8. ASSUME NEW i \in 1..Len(events'), Trusted(events'[i]), Between(events', 0, i),
             NEW m \in snapshot'.meter_start
      PROVE  Took(events'[i], m)
  <2>1. Between(events, 0 + 1, i + 1) /\ (e.kind \notin Readings => Between(events, 0, i + 1))
    BY <1>0, <1>2, <1>8, BetweenTail
  <2>2. CASE e.kind = "start"
    <3>1. m = e.meter BY <1>8, <2>2, HandledFrame
    <3>2. Between(events, 1, i + 1) /\ 1 < i + 1 BY <1>0, <1>3, <2>1
    <3> QED BY <1>3, <1>4, <1>8, <2>2, <3>1, <3>2 DEF ExactInv
  <2>3. CASE e.kind = "stop" BY <1>8, <2>3, HandledFrame
  <2>4. CASE e.kind \in {"answer", "result"}
    <3>1. m \in snapshot.meter_start BY <1>8, <2>4, HandledFrame
    <3>2. Between(events, 0, i + 1) BY <2>1, <2>4 DEF Readings
    <3> QED BY <1>3, <1>8, <3>1, <3>2 DEF ExactInv
  <2> QED BY <1>5, <2>2, <2>3, <2>4
<1>9. snapshot'.last_transaction_id \subseteq 1..Len(energies) /\ EnergyExact'
  <2>1. CASE e.kind = "stop"
    <3>1. e.id \in 1..Len(energies) BY <1>3, <1>4, <2>1 DEF ExactInv
    <3>2. /\ snapshot'.last_energy = {e.meter - m : m \in snapshot.meter_start}
          /\ snapshot'.last_transaction_id = {e.id} /\ tainted' = e.doubt
      BY <2>1, HandledFrame
    <3>3. ASSUME ~e.doubt, NEW m \in snapshot.meter_start PROVE e.meter - m = energies[e.id]
      <4>1. Trusted(e) BY <2>1, <3>3 DEF Trusted
      <4>2. Between(events, 0, 1) BY <1>0 DEF Between
      <4> QED BY <1>3, <1>4, <4>1, <4>2, <3>3 DEF ExactInv, Took
    <3> HIDE DEF e
    <3> QED BY <1>0, <1>1, <3>1, <3>2, <3>3 DEF EnergyExact
  <2>2. CASE e.kind # "stop"
    <3>1. /\ snapshot'.last_energy = snapshot.last_energy /\ tainted' = tainted
          /\ snapshot'.last_transaction_id = snapshot.last_transaction_id
      BY <1>5, <2>2, HandledFrame
    <3> QED BY <1>1, <3>1 DEF ExactInv, EnergyExact
  <2> QED BY <2>1, <2>2
<1>10. \A f, reading : Took(f, reading) => f.meter - reading = energies'[f.id]
  BY <1>1 DEF Took
<1>11. /\ \A i, j \in 1..Len(events') :
             j < i /\ events'[j].kind = "start" /\ Trusted(events'[i]) /\ Between(events', j, i) =>
                 events'[i].meter - events'[j].meter = energies'[events'[i].id]
       /\ \A i \in 1..Len(events') : Trusted(events'[i]) /\ Between(events', 0, i) =>
             \A m \in snapshot'.meter_start : events'[i].meter - m = energies'[events'[i].id]
  BY <1>7, <1>8, <1>10
<1> HIDE DEF e
<1> QED BY <1>1, <1>6, <1>9, <1>11 DEF ExactInv, Took

\* Every step keeps the energies exact.
LEMMA ExactStep == BaseInv /\ CleanInv /\ ExactInv /\ [Next]_vars => ExactInv'
<1> SUFFICES ASSUME BaseInv, CleanInv, ExactInv, [Next]_vars PROVE ExactInv' OBVIOUS
<1> USE DEF BaseInv
<1>0. energies \in Seq(Nat) /\ Len(energies) \in Nat BY DEF TypeInv
<1>a. ASSUME UNCHANGED <<snapshot, events, energies, tainted>> PROVE ExactInv'
  BY <1>a DEF ExactInv, EnergyExact, Took
\* A message that ends no transaction.
<1>b. ASSUME NEW e \in Events, e.kind # "stop", Offers(e), UNCHANGED <<snapshot, tainted, energies>>
      PROVE  ExactInv'
  <2>1. ~Trusted(e) BY <1>b DEF Trusted
  <2> QED BY <1>0, <1>b, <2>1, OffersExact
<1>1. CASE LoadConfig \/ Start \/ Reapply \/ MeterRuns \/ UNCHANGED vars
  BY <1>1, <1>a DEF LoadConfig, Start, Reapply, MeterRuns, vars, charger, history
<1>2. CASE ProxyRestarts
  <2>1. UNCHANGED <<snapshot, energies, tainted>> /\ events' = <<>> /\ Len(events') = 0
    BY <1>2 DEF ProxyRestarts, charger
  <2> QED BY <2>1 DEF ExactInv, EnergyExact
<1>3. ASSUME NEW m \in Incoming, IncomingPublish(m.topic, m.payload) PROVE ExactInv'
  BY <1>3, <1>a, InvalidChangesNothing DEF IncomingPublish, charger, history
<1>4. CASE SendLocalCall
  <2>1. PICK r \in request :
          IF prepare_call(config, r) = {}
          THEN Offers(ResultEvent(for_request(r, "invalid")))
          ELSE UNCHANGED <<events, missed, suspect, unsure>>
    BY <1>4 DEF SendLocalCall
  <2>2. UNCHANGED <<snapshot, energies, tainted>> BY <1>4 DEF SendLocalCall, charger
  <2>3. CASE prepare_call(config, r) = {}
    <3>1. WellTyped(r) BY DEF TypeInv
    <3>2. ResultEvent(for_request(r, "invalid")) \in Events BY <3>1, OfferedIsEvent
    <3>3. ResultEvent(for_request(r, "invalid")).kind # "stop" BY DEF ResultEvent
    <3> QED BY <1>b, <2>1, <2>2, <2>3, <3>2, <3>3
  <2>4. CASE prepare_call(config, r) # {} BY <2>1, <2>2, <2>4, <1>a
  <2> QED BY <2>3, <2>4
<1>5. ASSUME NEW answer \in Answers, AnswerArrives(answer) PROVE ExactInv'
  <2>1. PICK x \in call : Offers(ResultEvent(for_in_flight(x.prepared,
                               interpret_response(x.prepared.action, answer))))
    BY <1>5 DEF AnswerArrives
  <2> DEFINE e == ResultEvent(for_in_flight(x.prepared,
                      interpret_response(x.prepared.action, answer)))
  <2>2. interpret_response(x.prepared.action, answer) \in Statuses BY StatusNames
  <2>3. x.prepared.action \in Actions /\ x.prepared.applied \subseteq Nat BY DEF TypeInv
  <2>4. e \in Events BY <2>2, <2>3, OfferedIsEvent
  <2>5. e.kind # "stop" BY DEF ResultEvent
  <2>6. UNCHANGED <<snapshot, energies, tainted>> BY <1>5 DEF AnswerArrives
  <2> HIDE DEF e
  <2> QED BY <1>b, <2>1, <2>4, <2>5, <2>6 DEF e
<1>6. CASE ChargerStarts
  <2>1. Message("start", 0, start') \in Events
    BY <1>6, OfferedIsEvent DEF ChargerStarts, TypeInv
  <2>2. Message("start", 0, start').kind # "stop" BY DEF Message
  <2> QED BY <1>6, <1>b, <2>1, <2>2 DEF ChargerStarts
<1>7. CASE CentralAnswers
  <2>1. Message("answer", Len(energies) + 1, 0) \in Events BY OfferedIsEvent DEF TypeInv
  <2>2. Message("answer", Len(energies) + 1, 0).kind # "stop" BY DEF Message
  <2> QED BY <1>7, <1>b, <2>1, <2>2 DEF CentralAnswers
<1>8. CASE ChargerStops
  <2> DEFINE e == Message("stop", Len(energies) + 1, meter)
  <2>1. e \in Events BY OfferedIsEvent DEF TypeInv
  <2>2. e.kind = "stop" /\ e.id = Len(energies) + 1 /\ e.meter = meter /\ e.doubt = suspect
    BY DEF Message
  <2>3. /\ Offers(e) /\ UNCHANGED <<snapshot, tainted>>
        /\ energies' = Append(energies, meter - start)
    BY <1>8 DEF ChargerStops
  <2>4. meter - start \in Nat BY DEF TypeInv
  <2>5. /\ energies' \in Seq(Nat) /\ Len(energies') = Len(energies) + 1
        /\ energies'[Len(energies) + 1] = meter - start
        /\ \A t \in 1..Len(energies) : energies'[t] = energies[t]
    BY <1>0, <2>3, <2>4
  <2> HIDE DEF e
  <2>6. Trusted(e) => ~suspect /\ e.meter - start = energies'[e.id] BY <2>2, <2>5 DEF Trusted
  <2>7. e.id \in 1..Len(energies') /\ Len(energies) <= Len(energies') BY <1>0, <2>2, <2>5
  <2> QED BY <2>1, <2>3, <2>5, <2>6, <2>7, OffersExact
<1>9. CASE HandleEvent BY <1>9, HandleExact
<1> QED BY <1>1, <1>2, <1>3, <1>4, <1>5, <1>6, <1>7, <1>8, <1>9 DEF Next

\* The delivered energy that is shown is what the transaction it is shown for has
\* taken, or none is shown: whatever is lost, sent again or cut short by a
\* restart, unless a StopTransaction and the StartTransaction after it were both
\* missed.
THEOREM EnergyIsExact == Spec => []EnergyExact
<1>1. Init => CleanInv /\ ExactInv
  BY DEF Init, Blank, CleanInv, ExactInv, EnergyExact
<1>2. ExactInv => EnergyExact BY DEF ExactInv
<1>3. BaseInv /\ (CleanInv /\ ExactInv) /\ [Next]_vars => (CleanInv /\ ExactInv)'
  BY CleanStep, ExactStep
<1> QED BY <1>1, <1>2, <1>3, BaseInductive, PTL DEF Spec
=============================================================================
