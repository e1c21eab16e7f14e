------------------------------ MODULE Registry ------------------------------
(***************************************************************************)
(* The connections of the proxy and what they share: handle_connection     *)
(* (downstream.rs) from the upgrade request to the last status message,    *)
(* the connection registry, the CommandRouter, the ConnectionStateManager, *)
(* the health endpoint and the drain loop of main.rs.                      *)
(*                                                                         *)
(* Every connection is a task of a multi-threaded runtime: what it does    *)
(* under one lock is one step, and other tasks run between two locks.  A   *)
(* session is reduced to the upstream states it sets; Session.tla has the  *)
(* rest, and its CancelEnds is the fairness assumed of a session here.     *)
(***************************************************************************)
EXTENDS Naturals, FiniteSets

CONSTANTS
    Conns,       \* connections ever made (a bound of the model)
    Chargers,    \* Charge Point IDs
    Links        \* upstream states sessions go through (a bound of the model)

ASSUME RegistryAssumption ==
    /\ IsFiniteSet(Conns) /\ Chargers # {}
    /\ "Connecting" \in Links /\ Links \subseteq {"Connecting", "Connected", "Reconnecting"}

VARIABLES
    pc,          \* where handle_connection is, for every connection
    id,          \* the Charge Point ID of every connection
    gen,         \* the generation of every connection, 0 before it has one
    link,        \* the upstream state its session last asked for
    msg,         \* the status read under the lock, not yet sent
    generation,  \* DownstreamState.generation
    connections, \* generation of the registered connection of every charger, or 0
    router,      \* CommandRouter: the same for its registration
    displaced,   \* connections whose own token was cancelled
    upState,     \* ConnectionStateManager: upstream_state
    downState,   \* ConnectionStateManager: downstream_state
    listening,   \* ConnectionStateManager: listener_bound
    retained,    \* the last status message queued for every charger's topic
    mainPc,      \* where main is
    shutdown     \* the ShutdownCoordinator's token

shared == <<generation, connections, router, displaced>>
states == <<upState, downState, listening, retained>>
main == <<mainPc, shutdown>>

vars == <<pc, id, gen, link, msg, shared, states, main>>

ConnectionStates == {"Disconnected", "Connecting", "Connected", "Reconnecting"}
NoStatus == [up |-> "none", down |-> "none"]
Statuses == [up : ConnectionStates, down : ConnectionStates] \cup {NoStatus}

\* Mutant: the token is not a child of the shutdown token.
CancelledByOwn(c) == c \in displaced

\* A connection's token is a child of the shutdown token.
Cancelled(c) == c \in displaced \/ shutdown

Init ==
    /\ pc = [c \in Conns |-> "new"]
    /\ id \in [Conns -> Chargers]
    /\ gen = [c \in Conns |-> 0]
    /\ link = [c \in Conns |-> "none"]
    /\ msg = [c \in Conns |-> NoStatus]
    /\ generation = 1
    /\ connections = [cp \in Chargers |-> 0]
    /\ router = [cp \in Chargers |-> 0]
    /\ displaced = {}
    /\ upState = "Disconnected" /\ downState = "Disconnected" /\ listening = TRUE
    /\ retained = [cp \in Chargers |-> NoStatus]
    /\ mainPc = "serving" /\ shutdown = FALSE
------------------------------------------------------------------------------
\* The step of one connection from one place to the next.
Goes(c, from, to) ==
    /\ mainPc # "exited"
    /\ pc[c] = from
    /\ pc' = [pc EXCEPT ![c] = to]

(***************************************************************************)
(* ws_upgrade_handler.  The upgrade may still fail after it has announced  *)
(* Connecting; handle_connection is then never called.  The server accepts *)
(* no request once the shutdown token is cancelled.                        *)
(***************************************************************************)
UpgradeRejected(c) ==
    /\ Goes(c, "new", "done") /\ ~shutdown
    /\ UNCHANGED <<id, gen, link, msg, shared, states, main>>

Upgrade(c) ==
    /\ Goes(c, "new", "upgrading") /\ ~shutdown
    /\ downState' = "Connecting"
    /\ UNCHANGED <<id, gen, link, msg, shared, upState, listening, retained, main>>

UpgradeAbandoned(c) ==
    /\ Goes(c, "upgrading", "done")
    /\ UNCHANGED <<id, gen, link, msg, shared, states, main>>

\* Mutant: the counter is read, not advanced (load for fetch_add).
LoadsGeneration(c) ==
    /\ Goes(c, "upgrading", "numbered")
    /\ gen' = [gen EXCEPT ![c] = generation]
    /\ UNCHANGED <<id, link, msg, shared, states, main>>

\* register_connection: the generation is drawn before the lock is taken.
DrawGeneration(c) ==
    /\ Goes(c, "upgrading", "numbered")
    /\ gen' = [gen EXCEPT ![c] = generation]
    /\ generation' = generation + 1
    /\ UNCHANGED <<id, link, msg, connections, router, displaced, states, main>>

Holders(cp, map) == {d \in Conns : gen[d] # 0 /\ gen[d] = map[cp]}

\* The tokens cancelled so far, after c was inserted.
CancelExisting(c) == displaced \cup Holders(id[c], connections)

InsertConnection(c) ==
    /\ Goes(c, "numbered", "inserted")
    /\ connections' = [connections EXCEPT ![id[c]] = gen[c]]
    /\ displaced' = CancelExisting(c)
    /\ UNCHANGED <<id, gen, link, msg, generation, router, states, main>>

RouterRegister(c) ==
    /\ Goes(c, "inserted", "routed")
    /\ router' = [router EXCEPT ![id[c]] = gen[c]]
    /\ UNCHANGED <<id, gen, link, msg, generation, connections, displaced, states, main>>

\* Mutant: the pair is read before the transition.
ReadsBefore(c, up, down) ==
    /\ upState' = up
    /\ downState' = down
    /\ msg' = [msg EXCEPT ![c] = [up |-> upState, down |-> downState]]
    /\ UNCHANGED <<listening, retained>>

\* Under the lock of the state manager: a transition, and the pair it leaves.
SetStates(c, up, down) ==
    /\ upState' = up
    /\ downState' = down
    /\ msg' = [msg EXCEPT ![c] = [up |-> up, down |-> down]]
    /\ UNCHANGED <<listening, retained>>

AnnounceConnected(c) ==
    /\ Goes(c, "routed", "announcing")
    /\ SetStates(c, upState, "Connected")
    /\ UNCHANGED <<id, gen, link, shared, main>>

\* publish_status, after the lock was released.
AfterPublish ==
    [announcing |-> "running", reporting |-> "running", reported |-> "returned",
     leaving |-> "done"]

Publish(c) ==
    /\ pc[c] \in DOMAIN AfterPublish
    /\ Goes(c, pc[c], AfterPublish[pc[c]])
    /\ retained' = [retained EXCEPT ![id[c]] = msg[c]]
    /\ msg' = [msg EXCEPT ![c] = NoStatus]
    /\ UNCHANGED <<id, gen, link, shared, upState, downState, listening, main>>
------------------------------------------------------------------------------
(***************************************************************************)
(* run_session, as far as it touches shared state: set_upstream_state,     *)
(* which says nothing when the state is already the one asked for.         *)
(***************************************************************************)
NextLinks ==
    [none |-> {"Connecting"}, Connecting |-> {"Connected", "Reconnecting"},
     Connected |-> {"Reconnecting", "Connecting"}, Reconnecting |-> {"Connecting"}]

SetUpstream(c, state, from, publishing, quiet) ==
    /\ link' = [link EXCEPT ![c] = state]
    /\ \/ /\ upState # state
          /\ Goes(c, from, publishing)
          /\ SetStates(c, state, downState)
       \/ /\ upState = state
          /\ Goes(c, from, quiet)
          /\ UNCHANGED <<msg, states>>
    /\ UNCHANGED <<id, gen, shared, main>>

SessionSets(c) ==
    /\ pc[c] = "running"
    /\ \E state \in NextLinks[link[c]] \cap Links :
          SetUpstream(c, state, "running", "reporting", "running")

\* The loop is left: the charger or the window ended it, or the token (which
\* connect_upstream does not look at).
SessionLeavesLoop(c) ==
    /\ link[c] # "none"
    /\ Goes(c, "running", "closing")
    /\ UNCHANGED <<id, gen, link, msg, shared, states, main>>

\* After the writer task has ended.
SessionReturns(c) == SetUpstream(c, "Disconnected", "closing", "reported", "returned")

RouterDeregister(c) ==
    /\ Goes(c, "returned", "unrouted")
    /\ router' = [router EXCEPT ![id[c]] = IF @ = gen[c] THEN 0 ELSE @]
    /\ UNCHANGED <<id, gen, link, msg, generation, connections, displaced, states, main>>

\* Mutants: the entry is removed whoever owns it; the token is asked instead of
\* the registry.
RemovesAny(c) == TRUE
TokenIntact(c) == ~Cancelled(c)

\* deregister_connection's generation check.
StillCurrent(c) == connections[id[c]] = gen[c]

DeregisterConnection(c) ==
    /\ Goes(c, "unrouted", IF StillCurrent(c) THEN "removed" ELSE "done")
    /\ connections' = IF StillCurrent(c) THEN [connections EXCEPT ![id[c]] = 0]
                                         ELSE connections
    /\ UNCHANGED <<id, gen, link, msg, generation, router, displaced, states, main>>

AnnounceDisconnected(c) ==
    /\ Goes(c, "removed", "leaving")
    /\ SetStates(c, upState, "Disconnected")
    /\ UNCHANGED <<id, gen, link, shared, main>>
------------------------------------------------------------------------------
(***************************************************************************)
(* main: the signal cancels the token; main then marks the listener        *)
(* unbound and polls the registry until it is empty or its deadline passes.*)
(***************************************************************************)
Signal ==
    /\ mainPc # "exited" /\ ~shutdown
    /\ shutdown' = TRUE
    /\ UNCHANGED <<pc, id, gen, link, msg, shared, states, mainPc>>

StartDraining ==
    /\ mainPc = "serving" /\ shutdown
    /\ mainPc' = "draining"
    /\ listening' = FALSE
    /\ UNCHANGED <<pc, id, gen, link, msg, shared, upState, downState, retained, shutdown>>

\* Mutant: one charger without a connection is enough.
SomeUnregistered == \E cp \in Chargers : connections[cp] = 0

RegistryEmpty == \A cp \in Chargers : connections[cp] = 0

DrainPoll ==
    /\ mainPc = "draining"
    /\ RegistryEmpty
    /\ mainPc' = "clean"
    /\ UNCHANGED <<pc, id, gen, link, msg, shared, states, shutdown>>

DrainTimeout ==
    /\ mainPc = "draining"
    /\ ~RegistryEmpty
    /\ mainPc' = "abandoned"
    /\ UNCHANGED <<pc, id, gen, link, msg, shared, states, shutdown>>

MainExits ==
    /\ mainPc \in {"clean", "abandoned"}
    /\ mainPc' = "exited"
    /\ UNCHANGED <<pc, id, gen, link, msg, shared, states, shutdown>>

Exited == mainPc = "exited" /\ UNCHANGED vars

\* ConnectionStateManager::health_status; the MQTT state is the publisher's.
health_status(mqttState) ==
    CASE ~listening -> "Unhealthy"
      [] listening /\ downState # "Connected" -> "Idle"
      [] OTHER -> CASE upState = "Connected" ->
                          IF mqttState = "Connected" THEN "Healthy" ELSE "Degraded"
                    [] upState \in {"Connecting", "Reconnecting"} -> "Degraded"
                    [] upState = "Disconnected" -> "Unhealthy"

\* health_handler.
HealthHttp(mqttState) == IF health_status(mqttState) = "Unhealthy" THEN 503 ELSE 200
------------------------------------------------------------------------------
Step(c) ==
    \/ DrawGeneration(c) \/ InsertConnection(c) \/ RouterRegister(c)
    \/ AnnounceConnected(c) \/ Publish(c)
    \/ SessionReturns(c) \/ RouterDeregister(c) \/ DeregisterConnection(c)
    \/ AnnounceDisconnected(c)

Next ==
    \/ \E c \in Conns :
          \/ Upgrade(c) \/ UpgradeRejected(c) \/ UpgradeAbandoned(c)
          \/ SessionSets(c) \/ SessionLeavesLoop(c)
          \/ Step(c)
    \/ Signal \/ StartDraining \/ DrainPoll \/ DrainTimeout \/ MainExits \/ Exited

Spec == Init /\ [][Next]_vars

(***************************************************************************)
(* Tasks and main run; a session starts, and leaves its loop when it is    *)
(* cancelled.  The deadline of the drain loop is not assumed to come: what *)
(* ends the wait has to be the sessions.                                   *)
(***************************************************************************)
Fairness ==
    /\ \A c \in Conns :
          /\ WF_vars(Step(c))
          /\ WF_vars(link[c] = "none" /\ SessionSets(c))
          /\ SF_vars(Cancelled(c) /\ SessionLeavesLoop(c))
    /\ WF_vars(StartDraining) /\ WF_vars(DrainPoll)

FairSpec == Spec /\ Fairness
------------------------------------------------------------------------------
InRegistry ==
    {"inserted", "routed", "announcing", "running", "reporting", "closing", "reported",
     "returned", "unrouted"}
InRouter == InRegistry \ {"inserted", "unrouted"}
PCs == InRegistry \cup {"new", "upgrading", "numbered", "removed", "leaving", "done"}

\* Generations start at 1, 0 is the absence of a registration, and none that was
\* drawn will be drawn again.
TypeOK ==
    /\ pc \in [Conns -> PCs]
    /\ id \in [Conns -> Chargers]
    /\ gen \in [Conns -> Nat]
    /\ link \in [Conns -> ConnectionStates \cup {"none"}]
    /\ msg \in [Conns -> Statuses]
    /\ generation \in Nat \ {0} /\ \A c \in Conns : gen[c] < generation
    /\ connections \in [Chargers -> Nat] /\ router \in [Chargers -> Nat]
    /\ displaced \subseteq Conns
    /\ upState \in ConnectionStates /\ downState \in ConnectionStates
    /\ listening \in BOOLEAN
    /\ retained \in [Chargers -> Statuses]
    /\ mainPc \in {"serving", "draining", "clean", "abandoned", "exited"}
    /\ shutdown \in BOOLEAN

\* A connection that nothing has displaced keeps its registration from its
\* insertion to its own deregistration, whichever predecessors are still
\* unwinding; so a charger has at most one session that is not cancelled.
SuccessorKept ==
    \A c \in Conns :
        pc[c] \in InRegistry /\ c \notin displaced => connections[id[c]] = gen[c]

\* Neither map keeps the registration of a connection that is past its own
\* deregistration: the drain loop would wait for it, and commands would go to
\* a channel nobody reads.
NoStaleEntries ==
    \A cp \in Chargers :
        /\ connections[cp] # 0 =>
              \E c \in Holders(cp, connections) : id[c] = cp /\ pc[c] \in InRegistry
        /\ router[cp] # 0 =>
              \E c \in Holders(cp, router) : id[c] = cp /\ pc[c] \in InRouter

\* When main finds the registry empty and stops waiting, every connection that
\* registered and was not displaced is past its own deregistration: only the
\* displaced ones, which have no entry, may still be closing.
DrainedIsClosed ==
    [][mainPc = "draining" /\ mainPc' = "clean" =>
          \A c \in Conns : pc[c] \in InRegistry => c \in displaced]_vars

\* A shutdown drains: the sessions themselves empty the registry, those that
\* register while main is already waiting included.
DrainEnds == shutdown ~> (mainPc # "draining" /\ mainPc # "serving")

\* A charger is connected and its session runs.
Live(c) == pc[c] \in {"running", "reporting"} /\ ~Cancelled(c)

\* A connection that meets no other is shown as it is: commands reach it, health
\* answers for its link, and once its status messages are sent the retained one
\* holds its two states.  What several connections share is overwritten.
AloneIsShown ==
    \A c \in Conns :
        Live(c) /\ listening /\ (\A d \in Conns \ {c} : pc[d] = "new") =>
            /\ router[id[c]] = gen[c]
            /\ link[c] = "Connected" => health_status("Connected") = "Healthy"
            /\ link[c] # "none" => HealthHttp("Disconnected") = 200
            /\ pc[c] = "running" => retained[id[c]] = [up |-> upState, down |-> "Connected"]
------------------------------------------------------------------------------
(***************************************************************************)
(* What the documentation says and the code does not do; the README says   *)
(* by which behaviour it is violated.                                      *)
(***************************************************************************)

\* Requirement 10.5: a charger whose upstream connection is established is not
\* reported as a failure (one charger).
ForwardingIsHealthy ==
    \A c \in Conns : Live(c) /\ link[c] = "Connected" /\ listening =>
        HealthHttp("Connected") = 200
=============================================================================
