------------------------------ MODULE Commands ------------------------------
(***************************************************************************)
(* What a command is made into (command.rs): from the topic and the        *)
(* payload to a request, from the request to the Call on the wire, and     *)
(* from the charger's answer to a result.                                  *)
(*                                                                         *)
(* A function that can fail returns an Option: a set of at most one value. *)
(***************************************************************************)
EXTENDS Config, Sequences

\* The topic's segments.
parse_command_topic(topic) ==
    IF ~(Len(topic) >= 3 /\ topic[1] = "ocpp" /\ topic[2] # "" /\ topic[3] = "command") THEN {}
    ELSE IF Len(topic) = 3 THEN {"Command"}
    ELSE IF Len(topic) = 4 /\ topic[4] = "current_limit" THEN {"CurrentLimit"}
    ELSE {}

Request(command, amps, arg) ==
    [command |-> command, amps |-> amps, arg |-> arg, source |-> "mqtt"]

\* A payload is unreadable (empty, not UTF-8, broken JSON), bare text ("number",
\* "clear" or "junk"), or JSON with an id, a command, and of the command's field
\* what the command has to tell apart: a number, a numeral in quotes, another
\* text, or nothing.
Payloads ==
    [form : {"unreadable"}]
    \cup [form : {"bare"}, text : {"number", "clear", "junk"}, amps : Nat]
    \cup [form : {"json"}, id : {"given", "other"}, command : STRING, text : STRING, amps : Nat]

Bare(p) ==
    CASE p.text = "clear"  -> {Request("clear_current_limit", {}, "")}
      [] p.text = "number" -> {Request("set_current_limit", {p.amps}, "")}
      [] p.text = "junk"   -> {}

\* The fields serde wants, with quoted amperes read leniently; what is not
\* finite has no JSON.
Fields(p) ==
    CASE p.command = "set_current_limit" ->
            IF p.text \in {"number", "numeral"} /\ p.amps # NotFinite
            THEN {Request(p.command, {p.amps}, "")} ELSE {}
      [] p.command \in {"clear_current_limit", "get_configuration", "get_composite_schedule"} ->
            {Request(p.command, {}, "")}
      [] p.command \in {"change_configuration", "trigger_message"} ->
            IF p.text = "none" THEN {} ELSE {Request(p.command, {}, p.text)}
      [] OTHER -> {}

parse_command_payload(kind, p) ==
    CASE p.form = "unreadable" -> {}
      [] p.form = "bare"  -> IF kind = "CurrentLimit" THEN Bare(p) ELSE {}
      [] p.form = "json"  -> IF p.id = "other" THEN {} ELSE Fields(p)

action(command) ==
    CASE command = "set_current_limit"      -> "SetChargingProfile"
      [] command = "clear_current_limit"    -> "ClearChargingProfile"
      [] command = "get_configuration"      -> "GetConfiguration"
      [] command = "change_configuration"   -> "ChangeConfiguration"
      [] command = "trigger_message"        -> "TriggerMessage"
      [] command = "get_composite_schedule" -> "GetCompositeSchedule"

\* Half up, to a tenth.
Round(a) == ((a + 5) \div 10) * 10

resolve_limit(c, requested) ==
    IF requested \in NoAmount THEN {}
    ELSE IF requested = 0 \/ requested < c.min THEN {0}
    ELSE IF requested > c.max THEN {Round(c.max)}
    ELSE {Round(requested)}

\* The limit of set_charging_profile_payload, in hundredths of its unit.
WireLimit(c, amps) ==
    LET phases == CHOOSE n \in IF c.number_phases = {} THEN {1} ELSE c.number_phases : TRUE
    IN IF c.unit = "A" THEN amps ELSE Round((amps * c.voltage * phases) \div 10)

set_charging_profile_payload(c, amps) ==
    [id |-> c.profile_id, unit |-> c.unit, limit |-> WireLimit(c, amps),
     phases |-> c.number_phases]

PreparedCall(r, applied, profile) ==
    [action |-> action(r.command), applied |-> applied, profile |-> profile]

\* Mutant: the result shows the limit as sent, in the unit it is sent in.
PrepareShowsWire(c, r) ==
    IF r.command = "set_current_limit"
    THEN {PreparedCall(r, {WireLimit(c, a)}, {set_charging_profile_payload(c, a)})
          : a \in UNION {resolve_limit(c, requested) : requested \in r.amps}}
    ELSE {PreparedCall(r, {}, {})}

\* The text of change_configuration is "allowed" if its key is, that of
\* trigger_message "triggerable" if it is one of TRIGGERABLE_MESSAGES.
prepare_call(c, r) ==
    CASE r.command = "set_current_limit" ->
            {PreparedCall(r, {a}, {set_charging_profile_payload(c, a)})
             : a \in UNION {resolve_limit(c, requested) : requested \in r.amps}}
      [] r.command = "change_configuration" ->
            IF r.arg = "allowed" THEN {PreparedCall(r, {}, {})} ELSE {}
      [] r.command = "trigger_message" ->
            IF r.arg = "triggerable" THEN {PreparedCall(r, {}, {})} ELSE {}
      [] OTHER -> {PreparedCall(r, {}, {})}

\* Mutant: any CallResult is good news.
AnyResultAccepts(act, answer) == IF answer = "CallError" THEN "error" ELSE "accepted"

\* An answer is a CallError or the status of a CallResult, which may have none.
interpret_response(act, answer) ==
    CASE answer = "CallError" -> "error"
      [] answer \in {"none", "Accepted"} -> "accepted"
      [] act = "ClearChargingProfile" /\ answer = "Unknown" -> "accepted"
      [] act = "ChangeConfiguration" /\ answer = "RebootRequired" -> "accepted"
      [] OTHER -> "rejected"

\* CommandResult: of a request that never became a Call, of a Call that was
\* sent, and of a payload that could not be read.
for_request(r, status) == [action |-> {action(r.command)}, status |-> status, applied |-> {}]
for_in_flight(prepared, status) ==
    [action |-> {prepared.action}, status |-> status, applied |-> prepared.applied]
invalid_payload == [action |-> {}, status |-> "invalid", applied |-> {}]

is_limit_result(result) ==
    result.action \cap {"SetChargingProfile", "ClearChargingProfile"} # {}
=============================================================================
