------------------------------- MODULE Config -------------------------------
(***************************************************************************)
(* Loading and validating the configuration (config.rs), and the TLS       *)
(* settings that are made of it (mqtt.rs).                                 *)
(*                                                                         *)
(* Settings are what the file and the environment give together:           *)
(*    required : of each required parameter, "given", "absent", "mistyped" *)
(*    network  : listen, health and broker port, and the URL's scheme      *)
(*    tls      : of each path, "none", "readable", "missing", "unreadable" *)
(*    charging : the ChargingConfig                                        *)
(* Amperes are in hundredths, volts in tenths; two numbers stand for NaN   *)
(* and for what is negative.  An Option is a set of at most  *)
(* one value.                                                              *)
(***************************************************************************)
EXTENDS Naturals

NotFinite == 1000000
Negative == 1000001
NoAmount == {NotFinite, Negative}

Required == {"central_system_url", "listen_port",
             "mqtt.host", "mqtt.port", "mqtt.username", "mqtt.password"}

missing_required(s) == {f \in Required : s.required[f] = "absent"}

\* Does the name-only shadow of the configuration deserialise?
ShadowReads(s) == \A f \in Required : s.required[f] # "mistyped"

\* What is not a number exceeds nothing, what is negative no bound that loads.
Exceeds(a, b) == a \notin NoAmount /\ b \notin NoAmount /\ a > b

Checks(ok, error) == IF ok THEN {} ELSE {error}

\* Mutant: the two bounds are not compared.
ValidateEach(c) ==
    Checks(c.max \notin NoAmount /\ c.max > 0 /\ c.max <= 8000, "max_limit_a")
    \cup Checks(c.min \notin NoAmount, "min_limit_a")
    \cup Checks(c.profile_id > 0, "profile_id")

\* ChargingConfig::validate.
ValidateCharging(c) ==
    Checks(c.max \notin NoAmount /\ c.max > 0 /\ c.max <= 8000, "max_limit_a")
    \cup Checks(c.min \notin NoAmount, "min_limit_a")
    \cup Checks(~Exceeds(c.min, c.max), "min_limit_a exceeds max_limit_a")
    \cup Checks(c.profile_id > 0, "profile_id")
    \cup Checks(c.purpose = "ChargePointMaxProfile" => c.connector_id = 0, "connector_id")
    \cup Checks(c.number_phases \subseteq 1..3, "number_phases")
    \cup Checks(c.voltage \in 1000..4800, "nominal_voltage_v")
    \cup Checks(c.timeout \in 1..300, "command_timeout_seconds")

Paths == {"ca", "cert", "key"}

\* Mutant: a certificate without its key is let through.
ValidatePaths(tls) == {p \in Paths : tls[p] \notin {"none", "readable"}}

ValidateTls(tls) ==
    {p \in Paths : tls[p] \notin {"none", "readable"}}
    \cup Checks((tls.cert = "none") <=> (tls.key = "none"), "set together")
    \cup Checks(tls.cert # "none" /\ tls.key # "none" => tls.ca # "none", "require ca")

\* ProxyConfig::validate: every error, not the first.
validate(s) ==
    Checks(s.network.listen >= 1024, "listen_port")
    \cup Checks(s.network.health >= 1024, "health_port")
    \cup Checks(s.network.listen # s.network.health, "must differ")
    \cup Checks(s.network.scheme \in {"ws", "wss"}, "central_system_url")
    \cup Checks(s.network.broker # 0, "mqtt.port")
    \cup ValidateTls(s.tls)
    \cup ValidateCharging(s.charging)

\* load_from_path: the errors it reports, none when the configuration is taken.
\* serde stops at the first field it cannot read.
load_errors(s) ==
    IF ShadowReads(s) /\ missing_required(s) # {} THEN missing_required(s)
    ELSE IF ~ShadowReads(s) THEN {"deserialize"}
    ELSE validate(s)

\* What the broker connection is protected by.
build_tls_config(tls) ==
    IF tls.ca = "none" THEN "plaintext"
    ELSE IF tls.cert # "none" /\ tls.key # "none" THEN "mutual"
    ELSE "server"
=============================================================================
