--------------------------- MODULE MCChargePoint ----------------------------
EXTENDS ChargePoint

\* A configuration in amperes; as edits, one in watts with a lower ceiling; one whose
\* bounds are no multiples of a tenth; one with another profile id.
InAmperes ==
    [max |-> 1600, min |-> 600, profile_id |-> 1, purpose |-> "TxDefaultProfile",
     connector_id |-> 1, number_phases |-> {1}, voltage |-> 2300, timeout |-> 30, unit |-> "A"]
InWatts == [InAmperes EXCEPT !.unit = "W", !.max = 1000, !.number_phases = {3}]
Unaligned == [InAmperes EXCEPT !.min = 604, !.max = 1606]
Renamed == [InAmperes EXCEPT !.profile_id = 2, !.number_phases = {}]
Crossed == [InAmperes EXCEPT !.min = 1100, !.max = 1000]

Good ==
    [required |-> [f \in Required |-> "given"],
     network |-> [listen |-> 9000, health |-> 8080, broker |-> 1883, scheme |-> "wss"],
     tls |-> [p \in Paths |-> "none"], charging |-> InAmperes]

With(c) == [Good EXCEPT !.charging = c]

\* One part of the settings varied at a time.
MCCandidates ==
    {[Good EXCEPT !.required = f] : f \in [Required -> {"given", "absent", "mistyped"}]}
    \cup {[Good EXCEPT !.network = n] :
          n \in [listen : {0, 1023, 9000, 8080}, health : {80, 8080}, broker : {0, 1883},
                 scheme : {"ws", "wss", "https"}]}
    \cup {[Good EXCEPT !.tls = t] :
          t \in [Paths -> {"none", "readable", "missing", "unreadable"}]}
    \cup {With(c) : c \in
          {Unaligned, Crossed}
          \cup {[InAmperes EXCEPT !.max = m] : m \in {0, 8001, NotFinite, Negative}}
          \cup {[InAmperes EXCEPT !.min = m] : m \in {1601, NotFinite, Negative}}
          \cup {[InAmperes EXCEPT !.number_phases = {n}] : n \in {0, 4}}
          \cup {[InAmperes EXCEPT !.voltage = v] : v \in {999, 4801, NotFinite}}
          \cup {[InAmperes EXCEPT !.timeout = t] : t \in {0, 301}}
          \cup {[InAmperes EXCEPT !.profile_id = 0],
                [InAmperes EXCEPT !.purpose = "ChargePointMaxProfile"]}}

MCEdits == {With(c) : c \in {InWatts, Unaligned, Renamed, Crossed}}

Bares(text, amps) == [form |-> "bare", text |-> text, amps |-> amps]
Json(command, text, amps) ==
    [form |-> "json", id |-> "given", command |-> command, text |-> text, amps |-> amps]

On(rest, payloads) == {[topic |-> <<"ocpp", "cp">> \o rest, payload |-> p] : p \in payloads}

MCIncoming ==
    On(<<"command", "current_limit">>,
       {Bares("number", a) : a \in {0, 604, 1605, NotFinite, Negative}}
       \cup {Bares("clear", 0), Bares("junk", 0), Json("set_current_limit", "numeral", 1100)})
    \cup On(<<"command">>,
       {Bares("number", 1100), [form |-> "unreadable"],
        Json("set_current_limit", "numeral", 1100), Json("set_current_limit", "none", 0),
        Json("clear_current_limit", "none", 0), Json("change_configuration", "allowed", 0),
        Json("change_configuration", "forbidden", 0), Json("get_configuration", "none", 0),
        Json("trigger_message", "triggerable", 0), Json("no_such_command", "none", 0),
        [Json("clear_current_limit", "none", 0) EXCEPT !.id = "other"]})
    \cup On(<<"command", "result">>, {Bares("number", 1100)})
    \cup On(<<"status">>, {Bares("number", 1100)})
=============================================================================
