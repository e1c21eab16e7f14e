# Verification of ocpp-proxy

TLA+ models of the OCPP 1.6J proxy in `src/`: a Rust/tokio program that sits
between electric-vehicle chargers and their Central System, forwards every
WebSocket message both ways, publishes what it forwards to MQTT, and sends
commands of its own (charging limits above all) to a charger. The code paths
below are relative to the repository (`session.rs` is `src/session.rs`).

## The system

| Component | State | Operations |
|---|---|---|
| **Session** `session.rs` | one task per charger: where it is (connecting, backing off, replaying, forwarding, closing), reconnection window, buffer, tracker, local call queue | `run_session`, `forward_loop` (a `select!` of eight arms), `send_local_calls`, `charger_writer` |
| **Forwarder** `forwarder.rs`, `models.rs` | Call tracker (unique id, direction, time), upstream buffer, counters | `forward_message`, `buffer_upstream`, `flush_upstream`, `evict_expired_messages`, `cleanup_expired`, `has_recent_pending_call` |
| **Local calls** `command.rs` | queue of requests, the one Call in flight | `push` (coalesces limits, evicts at capacity), `pop_next`, `take_response`, `expire`, `drain` |
| **Command router** `command.rs`, `mqtt.rs` | charge point -> (generation, sender) | `register`, `deregister`, `dispatch` |
| **Registry** `downstream.rs` | charge point -> (generation, token), generation counter | upgrade handler, `register_connection`, `deregister_connection`, `handle_connection` |
| **State manager, health** `state.rs`, `health.rs` | one upstream, one downstream and one MQTT state for the whole proxy, listener flag, metrics | `transition`, `health_status`, `GET /health` |
| **main, shutdown** `main.rs`, `shutdown.rs` | root cancellation token | start-up, drain loop, join of the MQTT thread |
| **MQTT publisher** `mqtt.rs` | event loop on a thread of its own, offline buffer, retained snapshots, subscriptions, discovery | event handling, replay, `dispatch_command`, `maybe_reapply_limit` |
| **Standing limit** `mqtt.rs`, `snapshot_store.rs` | the limit in force, its file | set on a result, saved, loaded, re-applied when the link comes up |
| **Pure code** `command.rs`, `models.rs` | none | payload parsing, `resolve_limit`, `prepare_call`, `interpret_response`, `OcppFrame::parse`, `ExponentialBackoff` |
| **Connector, config, logging** `upstream.rs`, `config.rs`, `logging.rs`, `error.rs` | none after start-up | handshake, loading, formatting |

### How they interact

* The charger's socket is split: the session reads one half; the other belongs
  to `charger_writer`, fed by a 256-message channel that carries the Central
  System's frames, the proxy's own Calls and the close frame.
* The upstream socket is the session's own and is replaced on reconnection.
* The MQTT thread hands commands to a session through a bounded channel found
  in the router; sessions hand events and results back with `try_send`.
* A second connection of a charger displaces the first: the registry cancels
  its token, and the displaced session unwinds while its successor runs.
* All sessions write the same upstream and downstream cell of the state
  manager, and the health endpoint reads them.
* Shutdown cancels the parent of every token; `main` waits until the registry
  is empty or ten seconds have passed.

### What is hard, and what correctness means

Sessions: order and uniqueness of frames across failed writes and replays; the
accounting of commands through four places and seven ways out; answers racing
timeouts; one Call on the line at a time; termination of a session whose peers
misbehave. Connections: two critical sections where one invariant spans both;
decisions taken under one lock and acted on under another; one shared cell with
many writers; a drain that relies on others. `PROJECT.json` lists these as
hazards at their lines, with the property that covers each.

## The modules

| Module | Models | State and actions |
|---|---|---|
| `LocalCalls` | `LocalCallQueue`, `emit_command_result` | operators on sets of commands; a command is its dispatch number, told apart by kind (`limit`, `badLimit`, `other`, ...). The queue is in dispatch order, so it is a set and its front the minimum |
| `Forwarder` | `CallTracker`, `MessageForwarder`'s buffer | operators on the tracker (a set of entries) and on frames `[n, type, uid]` |
| `Session` | `run_session`, `forward_loop`, `send_local_calls`, `charger_writer`, with charger, Central System and dispatcher | one action per `select!` arm and outcome. The task runs alone between two awaits, so an arm is one atomic action from its event to its end, trailing `send_local_calls` included. `SessionEnds` drops the receiver of commands with what is in it; `drained` is the last command `Teardown` could see |
| `Registry` | `handle_connection` of any number of connections, registry, router, state manager, health status, drain loop | one action per critical section; other tasks run in between. A session is what it does to shared state |
| `StandingLimit` | the publisher's handling of results, commands and link changes, `apply_command_result`, `maybe_reapply_limit`, `SnapshotStore`, `resolve_limit`, with the charger's sessions, its reboots and restarts of the proxy | one action per event of the publisher, per arm of the session that touches a limit command, per failure |
| `AtLeastOnce` | what the MQTT side promises for a message it accepts | abstract: accept, deliver, settle, abandon, on sets of message numbers |
| `Publisher` | `MqttPublisher`: `try_connect`, `run`, `on_connack`, `enqueue`, `drain_buffer`, subscriptions, with rumqttc, the network and the broker | one action per arm of `run` and outcome; `q` is the value of buffer and request channel that a handler passes through its calls. Implements `AtLeastOnce` (`KeepsPromise`) |
| `Shutdown` | `main` from the first bind to the exit, `wait_for_shutdown_signal`, the MQTT thread as `main` sees it, sessions with a full charger channel, `charger_writer`, the teardown | one action per wait of `main`, of a session and of a writer; a session that waits for room looks at no token. A displaced session leaves the registry to its successor (`heirs`) and goes on: `Running` are the tasks that are there, with their senders, `Registered` the entries the drain counts |
| `Config` | `load_from_path`, `missing_required`, the `validate`s, `build_tls_config` | operators on settings |
| `Commands` | topics, payloads, `resolve_limit`, `prepare_call`, `set_charging_profile_payload`, `interpret_response`, `CommandResult` | operators; what can fail returns a set of at most one value |
| `ChargePoint` | the snapshot (`ChargePointState::apply`, `apply_command_result`), commands from topic to result, re-application, with the charger's transactions, meter and profiles, and an operator who edits the configuration | one action per event; composes `Config` and `Commands` |
| `MC...` | the same for TLC | symmetry of connections; limits that are refused, pause and are clamped; settings with one part wrong at a time |
| `...Proofs` | theorems | |

`Session` composes `LocalCalls` and `Forwarder`. `Registry` stands one level
above: `Session`'s `CancelEnds` is what justifies the fairness `Registry`
assumes of a session. `StandingLimit` takes from `Session` that at most one
limit command is queued (`OneLimitQueued`) and adds what a session cannot see:
the publisher, the file, the session before and the one after. `Shutdown` drops
the one assumption that `Session` and `Registry` make of chargers, that the
channel to them has room, and keeps of a session what matters then. `Publisher`
takes what sessions and commands give it as events; `ChargePoint` looks at what
the events say, with queues and failures reduced to "arrives or is missed".

### Abstractions

* Frames are what `OcppFrame::parse` tells apart: a Call, a Result with its
  unique id, an unparsable text (forwarded verbatim), a binary message, a ping.
  `CallResult` and `CallError` differ only in the status of a command's result.
* Every age the code compares is a counter raised by `Tick` that saturates just
  where the comparison changes. Sleeps end at any moment.
* A failing connection is noticed by a read or by a write, in either order with
  frames that are still unread: an error may overtake them.
* In `Session` the channel to the charger never fills (`SessionAssumption`) and
  the channel to the publisher takes every message; `Shutdown` has the full
  channel to the charger, `Publisher` and `StandingLimit` the one to the
  publisher.
* In `Publisher` a message is a topic, a number and, on retained topics, a
  version: of the snapshot how often it changed, of the link status which event
  it came from. rumqttc is modelled from how `mqtt.rs` uses it (QoS 1, a bounded
  request channel, `clean_session`, unacknowledged and queued requests kept over a
  reconnection) and marked external, as is the broker.
* In `ChargePoint` amperes are hundredths and volts tenths, so that rounding to a
  tenth of an ampere is visible; NaN and negative numbers are two values of their
  own. Payloads are what the parser tells apart.
* A limit is a number of tenths of an ampere, the unit `resolve_limit` rounds
  to. Every Call the proxy sends is one of its own, as `next_unique_id` makes it.
* `StandingLimit` has one charger whose sessions do not overlap, so that the
  shared upstream state is its own; it saves the snapshot or fails to.
* History variables (`fate`, `lastUp`, `lastDown`, `downAge`, `leaked`, `drained` in
  `Session`; `accepted`, `last`, `received`, `lost`, `wiped` in `Publisher`, where
  `accepted` also numbers messages; those marked so in `Shutdown` and
  `ChargePoint`) are read by properties only.
* The MQTT state changes the health status only between `healthy` and `degraded`,
  both 200; it is a parameter of `health_status`.

## Runs that pass

| Run | Shows | Bounds, and why they are enough |
|---|---|---|
| `session` | `UpstreamInOrder`, `DownstreamInOrder`, `BufferHoldsAtMostOne`, `CountedOnce`, `CommandLedger`, `OneLimitQueued`, `LeakOnlyAfterTimeout`, `LineClear`, `TypeOK` | `MCMixes` says what comes together. Three frames of the charger: one lost, one buffered, one behind them, with a buffer of two, so that a second frame would fit. Four commands at capacity two: a full queue, one in flight and one arriving, and a next one sent while the charger still owes the answer to one that has timed out. A frame of the charger, a Call of the Central System and a command: the line is cleared by an answer or by time, and an answer may be late. Two Calls of the Central System with a proxy Call between them. The link may break as often as it likes |
| `session_live` | `CommandResolved`, `CancelEnds`, `UnreachableEnds` | one command with a frame of the charger, or a frame of the Central System (the kinds that the other run leaves out); the window is one tick |
| `registry` | `SuccessorKept`, `NoStaleEntries`, `AloneIsShown`, `DrainedIsClosed`, `DrainEnds`, `TypeOK` | two connections of one charger or of two: a predecessor and its successor, or unrelated ones, either of which may still be registering when the signal comes |
| `standing` | `ReapplyOnlyAccepted`, `SettledAgrees`, `TypeOK` | two commands of users, re-applications, two failures (link, session, charger or proxy): a limit accepted, one that goes wrong around a failure, and a failure after that. A channel of two commands and one of three events, so that both overflow |
| `publisher` | `KeepsPromise`, `BufferBounded`, `NoIdleRoom`, `RetainedIsCurrent`, `BacklogDrains`, `CommandsArrive`, `TypeOK` | two events or commands of up to three messages each, two failures (a connection lost, a broker that forgets): enough for a buffer of two to evict, a channel and a wire of one each to be full, a resent message, and a second outage during the first backlog |
| `shutdown` | `CleanMeansClosed`, `ClosedIsFlushed`, `HeardUntilShutdown`, `SignalExits`, `CancelledEnds`, `TypeOK` | one session, and the successor that may displace it, since sessions meet only in the registry and in the conjunction `main` waits for; a channel of two and four frames: one being written, two waiting, and one the session waits with |
| `charge_point` | `LimitInRange`, `ReapplyKeeps`, `ShownIsInstalled`, `EnergyExact`, `OpenAgrees`, `TlsNeverDegrades` | every single-part variation of the settings at start, one restart with edited ones, two commands of every form, two transactions, a meter of two, two missed messages: a stop and the start after it |

Every property of these runs but the liveness ones is also proved, for any
bounds; see below.

In these runs the two endpoints draw their unique ids from disjoint sets
(`CentralUidBase >= MaxUp`); see the observations for the other case.

Each property has a mutant in `PROJECT.json`: a small plausible change of one
mapped definition under which TLC finds the property violated. The mutated forms
stand before the definitions they replace and nothing refers to them.

`UpstreamInOrder` says that everything that may still be written upstream is
newer than the last frame written and in order; with that, no step can write a
frame late or twice. `BufferHoldsAtMostOne` came out of the model: the buffer
of `max_buffer_size` (100) messages can never hold more than one, because the
only thing that ever fills it is the write failure that ends `forward_loop`.
`CountedOnce` says what the counters are worth: they are right for parsed frames
that were written and for what is left in the buffer, and count nothing else
(see the observations). `CommandLedger` leaves one way to lose a command, the gap
at the end of the teardown, and `LeakOnlyAfterTimeout` one way for an answer to leak, that of
`late_answer_leaks`. `LineClear` has two parts: the Central System's open Calls are
older than the grace, and the proxy's own have timed out; that the charger owes it
nothing cannot be said, since a timeout does not take a Call back.
`SettledAgrees` is where the pieces of the standing limit meet: results arrive
in the order of the Calls, late answers match nothing, a reboot is always
followed by a link event and a re-application, and whatever breaks this chain
leaves a status other than accepted. `AloneIsShown` is what holds
of the shared cells: a connection that meets no other gets its commands, and
health and the retained status show it as it is. `KeepsPromise` is the refinement: what is
waiting is the union of buffer, request channel, kept requests and requests on
the wire, and every step of the publisher is a step of the abstract queue or
leaves it alone; so nothing overtakes, nothing the broker may have is given up,
and nothing vanishes. `BacklogDrains` says that with a connection that stays, the
publisher is caught up again and again, so after every outage and every new event.
`RetainedIsCurrent` says what a subscriber sees in the end;
its exceptions are the losses it cannot exclude (an evicted last message, and a
link status that a broker forgot, which nothing publishes again). `SignalExits`
holds although sessions may wait for ever for a charger that does not read:
`main` has a deadline for sessions, and the MQTT thread watches the token itself.

### Fairness

`Session`: a connection attempt is bounded by `connect_timeout` and sleeps end
(weak fairness). `select!` without `biased` polls its ready arms in random
order, so an arm that is ready again and again is taken: strong fairness, which
also covers arms whose readiness comes and goes as the loop is left and entered;
`tokio::time::interval` ticks at once on entry. Two things are assumed of the
world, and would be false if a peer misbehaved for ever: a replay does not fail
for ever (otherwise the session retries at once, with the window reset, and
never gives up), and the charger's socket accepts or fails a write.
`UnreachableEnds` needs the window only.

`Registry`: tasks are scheduled (weak fairness), and a cancelled session leaves
its loop (`CancelEnds`; strong fairness because status messages come in
between). The ten-second deadline is not assumed: `DrainEnds` shows that the
sessions empty the registry.

`Publisher`: `poll()` is driven whenever it has something to write or read, and
`select!` takes its ready arms in random order (weak fairness of writes, of
acknowledgements and of reading events, each of which stays ready); sleeps end; a
broker that is connected reads and answers. Nothing is assumed of connection
attempts: both liveness properties are conditional on a connection that stays.

`Shutdown`: every task that can run does, and timers fire (weak fairness per
task). Nothing is assumed of chargers, of the server's other connections or of
the signal. `CancelledEnds` is conditional on a charger that reads in the end or
a connection that fails.

`ChargePoint` has no liveness property, and its run may stop: an invalid
configuration ends the process.

## Runs that disagree with the documentation

Each is a behaviour of the code that contradicts a sentence of the README, the
requirements (`.kiro/specs/ocpp-proxy-ha-integration/requirements.md`) or a
comment; `PROJECT.json` quotes it.

| Run | What the code does |
|---|---|
| `reconnect_loss` | during the back-off the session reads a charger message in order to notice a close, and throws any other message away |
| `health_overwritten` | a displaced session's last `Disconnected` overwrites its successor's `Connected`; `/health` answers 503 |
| `standing_forgotten` | a limit command that fails (not connected, timed out, superseded) leaves the standing limit in the snapshot but is the last status, and nothing is re-applied from then on: after a reboot the charger has no limit |
| `late_answer_leaks` | an answer that comes after `command_tick` expired its Call matches nothing and is forwarded to the Central System, which never made that Call |
| `limit_above_ceiling` | `resolve_limit` rounds after it compares: under a ceiling of 16.06 A it sends 16.1 A |

Where these runs use one charger, more chargers only add to the interference:
the state manager has one cell for all of them.

### Other observations

Visible in the models, without a run of their own:

* A command dispatched after the teardown's last `try_recv` (`session.rs:379`) and
  before the router forgets the session is accepted, dropped with the receiver, and
  gets no result, although `README.md:184` has every command end in exactly one
  message: `pc = "ended" => \A c \in 1..issued : Len(results[c]) = 1` is violated.
  `CommandLedger` shows that no other command is lost.
* Only what is still buffered when the session ends is counted as dropped. A frame
  read in back-off, and one that does not parse and cannot be written, are counted
  nowhere, and unparsed frames that are written are not counted as forwarded,
  although requirement 10.9 wants every forwarded and every dropped message counted.
  `CountedOnce` says what is.
* A displaced session has no entry in the registry (`downstream.rs:169`): once its
  successor's is removed, `main` logs "All sessions closed cleanly" (`main.rs:358`)
  while it may still wait for a charger that does not read, and exits without its
  close frame. `CleanMeansClosed` without the exception of displaced sessions is
  violated; with it, it is proved.
* Registry and router are updated in two steps (`downstream.rs:217`,
  `command.rs:834`): a displaced connection may register last in the router and
  then remove the entry when it ends; its successor gets no commands.
* Status messages are sent after the lock is released (`session.rs:909`) and may
  be sent in the other order, which the retained topic keeps.
* The tracker is keyed by unique id only. If the two endpoints use the same id,
  a charger's Call replaces the Central System's open one and the proxy takes the
  line for clear: `LineClear` fails with `CentralUidBase = 0`, `MaxUp = 1`.
* The re-application goes behind commands of users that wait for the link in the
  channel or in the queue, supersedes them although it is older, and installs
  the old limit; the README says that the last one wins.
* The buffer's limit in time is never applied: frames are aged out only inside
  `forward_loop`, where the buffer is empty (`BufferHoldsAtMostOne`).
* `flush_upstream` neither publishes nor tracks what it sends.
* Commands do not time out while the upstream is down; `CommandResolved` shows
  that they are resolved in the end.
* A limit pushed out of a full queue by another command is reported
  `superseded`, as if a newer limit had arrived.
* A charger that reconnects between its predecessor's `deregister_connection`
  and the transition after it is left at `Disconnected` while it is connected.
* An upgrade that never completes leaves `Connecting` behind, also when another
  charger is connected.
* With a minimum that is no multiple of a tenth, a limit that was accepted and
  rounds to less than the minimum is re-applied as a pause. `ReapplyKeeps` and
  `LimitInRange` ask for aligned bounds.
* The charger may be asked a second Call of the proxy while it still owes the answer
  to one that has timed out; OCPP allows it one at a time.
* After `profile_id` is edited, the old profile stays on the charger and is no
  longer cleared; `ShownIsInstalled` excludes it.
* A missed `StopTransaction` together with the next `StartTransaction` gives the
  energy of two transactions to the second; `EnergyExact` shows that this is the
  only way. Frames that were buffered and replayed count as missed.
* The link status is published when it changes and never again, unlike the
  snapshot: a broker that loses its retained messages has none until the next
  change.
* The back-off sleep is inside the arm of `run`: while it lasts no event is read,
  and the channel of the sessions fills.
* With `mqtt_buffer_size: 0` the buffer holds one message.
* Of required parameters, one with a wrong type hides those that are missing from
  the error message (`config.rs:533`).
* A signal before the handler is registered (`main.rs:334`) ends the process
  without a drain.

## What is proved

Every invariant, every action property and the refinement that the runs check,
for every value of the constants: any number of frames, commands, connections,
messages, transactions and restarts, any capacities, timeouts, windows and
settings. The assumptions are `LocalCallsAssumption`, `ForwarderAssumption`,
`SessionAssumption`, `RegistryAssumption`, `StandingAssumption`,
`PublisherAssumption`, `ShutdownAssumption`, `ChargePointAssumption`,
`SettingsAssumption` and `IncomingAssumption`, each stated where its constants are
declared and evaluated by TLC on every run. One theorem has a hypothesis of its
own: `LineIsClear` is about endpoints whose unique ids are distinct
(`CentralUidBase >= MaxUp`), without which it is false (see the observations).

**A session** (`SessionProofs`, `LedgerProofs`, `OrderProofs`)

| Theorem | Inductive invariant | Argument |
|---|---|---|
| `TypeCorrect`, `BufferBound` | `TypeOK /\ BufferHoldsAtMostOne` | the two need each other: a replay leaves a well-typed rest only of a buffer of one, and the buffer is empty on entry to `forward_loop` only because a replay is complete or goes back to connecting. One lemma per group of variables, one step per action |
| `Ledger` | `CommandLedger` and `AfterTeardown` over `TypeOK` | seven lemmas for the seven moves of a command (accepted, refused, received, launched, and resolved from each place); every action is a composition of them, `SendLocalCallsLedger` being the trailing one. `AfterTeardown`: from the teardown on queue and flight are empty and only commands after `drained` are in the channel, so that those are all that `SessionEnds` drops |
| `LimitsCoalesce` | `OneLimitQueued` over `CommandLedger` | only `push` adds to the queue, and takes out the limits it finds; everything else takes away |
| `LeaksAreLate` | `LineInv`: the ledger, `CallsInv` and `Owed` | an answer leaks only much later than its Call was given up, so `Owed` follows every Call of the proxy through the charger's channel, the charger and the way back: it is the one in flight, or has timed out. `CallsInv` says that a unique id is on the line once, so that the answer taken is the one meant; a result that is there stays (`Grown`) |
| `LineIsClear` | `LineInv`, `ChargersOwn` and `Tracked` | an action property. `Tracked`: each open Call of the Central System has an entry in the tracker that is no older than the Call, until the grace is over. An answer of the Central System must not remove such an entry, hence `ChargersOwn` (it answers Calls of the charger only) and distinct ids. That other open Calls of the proxy have timed out is `Owed` (`OpenIsOwed`): a Call is launched only when none is in flight |
| `UpstreamOrder` | `UpstreamInv`: `UpstreamInOrder` and `SentBelow` | `UpstreamInOrder` alone says nothing of the next frame of the charger; `SentBelow` bounds every number by `upN`. Uses `BufferBound`: the frame whose write failed may be appended because the buffer is empty |
| `DownstreamOrder` | `DownInv`: the order of all frames from the Central System, read or not, up to `downN` | the same downstream, where the proxy's own Calls and the close frame stand between the frames |
| `WhatIsCounted` | `FateInv`, `CountInv` | a counter and a history of fates change together, but a frame counted must not have been counted before: `FateInv` says that frames in the socket and in the buffer have no other fate yet. Needs `UpstreamInv` for a frame to be in one of them once |

**Connections** (`RegistryProofs`)

| Theorem | Inductive invariant | Argument |
|---|---|---|
| `RegistryTypes` | `TypeOK` | that every generation drawn is below the counter is what makes the next one new; `GenerationsUnique` builds on it |
| `SuccessorAlwaysKept`, `NeverStale` | `RegistryInv`: `GenerationsUnique`, `SuccessorKept`, `NoStaleEntries` | generations are drawn outside the lock, so they need not grow in the registry; that they are unique is enough for the generation check to name one connection |
| `DrainClosed` | the same | an action property: `main` leaves the drain loop only in `DrainPoll`, where no charger has an entry, and `SuccessorKept` gives one to every connection that was not displaced and has not deregistered |
| `AloneAlwaysShown` | `AloneInv` over `RegistryInv` | what the shared cells hold is claimed from the upgrade on, status messages under way included, and only of a connection while the others are new; no connection becomes new again, so a step of another ends the claim and a step of its own keeps it |

**The standing limit** (`StandingProofs`)

| Theorem | Inductive invariant | Argument |
|---|---|---|
| `StandingTypes`, `OnlyAcceptedIsReapplied` | `StandingInv`: `PlainTypes` and `LimitsTaken` | a re-application is made from the snapshot, that from results and, over a restart, from the file: so the snapshot, the file and every result under way must hold accepted limits too, as memberships in sets of sound requests and events that only grow. Re-resolving must not change a limit (`ResolveOnce`), which needs `min_limit_a <= max_limit_a` |
| `SettledAlwaysAgrees` | `SettledInv`: `FreshInv`, `FlightInv`, `LinkInv`, `AgreeInv` | `AgreeInv` says of the snapshot and the events still under way together what `SettledAgrees` says of the snapshot: if folding them shows a limit as accepted, the charger has it and no Call or answer is left that could change it. A session that ends leaves such Calls behind, so a late answer must match nothing (`FreshInv`: every Call has its own number) and the Call in flight must be the last of the wire (`FlightInv`). A reboot loses the profile; `LinkInv` (link events alternate, beginning with what the publisher takes the link for) is what makes the re-application certain |

**The publisher** (`PublisherProofs`)

| Theorem | Inductive invariant | Argument |
|---|---|---|
| `PublisherTypes`, `BufferAlwaysBounded`, `NeverIdle` | `IInv`: the three properties and `UpIsKnown` | handlers pass the value of the two queues through several calls, so the lemmas are about such values: `buffer_message`, `enqueue`, `publish_online`, a subscription each keep it `WellFormed`, and a drain leaves it `NoIdle`. `publish_online` pushes in front without looking at the capacity; it stays bounded because the request channel is empty at a ConnAck, which is the first conjunct of `BufferBounded` and needs `UpIsKnown` (`handle_event` drains only when the state says connected, which must be the network's) |
| `PromiseKept` | `LineInv` over `IInv`: wire, kept requests, channel and buffer hold increasing numbers, in this order; what the broker has processed, it has received | the refinement. Each handler changes what is waiting by accepting new numbers or giving up the oldest of the buffer (`Change`), composed along the calls it makes; then one lemma per action says which step of `AtLeastOnce` it is. The order of the line is what makes an acknowledgement one of the oldest |
| `PromiseAccounts` | `PromiseInv`: `Accounted` over a natural `accepted` | inductive in the abstract queue; `PromiseKept` makes every step of the publisher one of its steps |
| `RetainedCurrent` | `ShowInv` over `LineInv`: `TopicsInv`, `LastInv`, `LatestInv`, `CurrentInv`, `SnapInv`, `OnlineInv` | the broker may lag by the whole line, and go back when requests are sent again: so for each topic the broker is either still to process the last message, or shows it and will process no other of the topic. A resend brings an older version back only together with the newer one behind it (`LatestInv`) |

**Shutdown** (`ShutdownProofs`)

| Theorem | Inductive invariant | Argument |
|---|---|---|
| `ShutdownTypes`, `AlwaysFlushed`, `CleanIsClean` | `IInv`: types and `Sound` of every session | the properties speak of an ended writer, so the invariant follows a frame until then: accepted frames are those sent, in the writer's hand and queued (`Balanced`); the close frame is the last of the channel and only a teardown puts it there (`CloseLast`); a writer ends closed or with its connection broken, and a session is gone only after it (`Ended`). An empty registry then means that every session not displaced is gone, since only `Displaced` takes an entry from a session that runs. `Sound` is a predicate of one session's values, so each action of a session is one lemma and the others are untouched |
| `HeardToTheEnd` | `HeardInv` | a publisher that has come up stops only when it sees the token or its channel closes, and that can close only once `main` drains, which it does with the token cancelled |

**The charge point** (`ChargePointProofs`)

| Theorem | Inductive invariant | Argument |
|---|---|---|
| `TlsKept` | `BaseInv`: types, and that what has loaded is valid (`LoadInv`) | `validate` refuses a path without its partner, which `build_tls_config` would read as less |
| `LimitsInRange`, `ReapplicationKeeps` | `LimitInv` over `BaseInv` | a limit shown was resolved under a configuration that a history remembers, one under way under the one in force; rounding is monotone (`RoundMonotone`), so a resolved limit lies between the rounded bounds, which aligned bounds are, and on those resolving again changes nothing (`ResolvedAgain`) |
| `ShownIsHeld` | `ShownInv` | the snapshot lags by the events under way: the charger holds what the last of them that installs or clears says, or what the snapshot says if there is none. Uses `LimitInv`: a Call in flight shows the profile it carries |
| `OpenIsShown` | `OpenInv` | the same with the last start or stop, for the reading, and the last answer or stop, for the number |
| `EnergyIsExact` | `CleanInv` and `ExactInv` | a stop is charged with the reading that is in the snapshot when it is folded, which is that of the last start before it in the channel. `CleanInv`: as long as nothing is suspect, a start that nothing broke since is that of the open transaction; `ExactInv` keeps for every stop under way that the reading it will meet gives the energy its transaction took |

Only model-checked: the liveness properties (`CommandResolved`, `CancelEnds`,
`UnreachableEnds`, `DrainEnds`, `BacklogDrains`, `CommandsArrive`, `SignalExits`,
`CancelledEnds`), because fairness and `ENABLED` are out of the prover's reach, and
the five runs that end in a counterexample.

Two definitions took the form they have because of a proof. `ReapplyKeeps` asks
for the configuration under which the limit being re-applied was accepted
(history `asOf`), since the snapshot may take another limit meanwhile. `downAge` starts when a
Call is forwarded and only then: the frames that are no Calls have no age.

## What is not modelled

* The WebSocket handshake (`upstream.rs`): I/O; it succeeds or fails within its
  timeout.
* The layering of the YAML file under the environment, and defaults
  (`config.rs`): string handling by a library; `Config` starts from the merged
  settings.
* The jitter of `ExponentialBackoff`: random, and it only stretches a sleep.
* Discovery messages and the wording of topics and JSON: fixed text.
* Logging and error types: no state.
* The forwarder's downstream buffer and the state broadcast channel: nothing in
  the program fills the one or reads the other.

## Plan

1. `CommandService`: the abstract promise to a caller (a command is accepted,
   then answered once), and `Session` as its implementation; `CommandLedger` is
   most of the invariant its proof needs.
2. `LineClear` without the hypothesis on unique ids: a weaker property that says
   which Calls the tracker loses when the endpoints use the same ones.
3. `StandingLimit`, further: several chargers and overlapping sessions, where the
   shared upstream state decides what counts as a link that comes up.
