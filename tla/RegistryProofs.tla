--------------------------- MODULE RegistryProofs ---------------------------
(***************************************************************************)
(* Theorems about Registry.tla, for any number of connections and Charge   *)
(* Point IDs.                                                              *)
(***************************************************************************)
EXTENDS Registry, TLAPS

USE RegistryAssumption

\* A connection has a generation from DrawGeneration on, below the next one to
\* be drawn, and shares it with no other.
GenerationsUnique ==
    /\ \A c \in Conns : gen[c] < generation
    /\ \A c \in Conns : pc[c] \in {"new", "upgrading"} => gen[c] = 0
    /\ \A c \in Conns : pc[c] \in InRegistry \cup {"numbered"} => gen[c] # 0
    /\ \A c, d \in Conns : gen[c] = gen[d] /\ gen[c] # 0 => c = d

\* The inductive invariant.  The generation check of deregister_connection says
\* something only because generations are unique.
RegistryInv == GenerationsUnique /\ SuccessorKept /\ NoStaleEntries

\* Places whose crossing changes no registration.
SameSide(from, to) ==
    /\ from \in InRegistry <=> to \in InRegistry
    /\ from \in InRouter => to \in InRouter
    /\ to \in {"new", "upgrading"} => from \in {"new", "upgrading"}
    /\ to # "numbered"

\* A step that stays on its side of the maps and leaves them alone keeps the
\* invariant.
LEMMA LocalStep ==
    ASSUME TypeOK, RegistryInv, NEW c \in Conns, NEW from, NEW to,
           Goes(c, from, to), SameSide(from, to), UNCHANGED <<id, gen, shared>>
    PROVE  RegistryInv'
<1>1. pc' = [pc EXCEPT ![c] = to] /\ pc[c] = from /\ pc \in [Conns -> PCs]
  BY DEF Goes, TypeOK
<1>2. \A d \in Conns : pc'[d] = IF d = c THEN to ELSE pc[d]
  BY <1>1
<1>3. UNCHANGED <<id, gen, generation, connections, router, displaced>>
  BY DEF shared
<1>4. GenerationsUnique'
  BY <1>1, <1>2, <1>3 DEF RegistryInv, GenerationsUnique, SameSide
<1>5. SuccessorKept'
  BY <1>1, <1>2, <1>3 DEF RegistryInv, SuccessorKept, SameSide
<1>6. NoStaleEntries'
  BY <1>1, <1>2, <1>3 DEF RegistryInv, NoStaleEntries, Holders, SameSide
<1> QED BY <1>4, <1>5, <1>6 DEF RegistryInv

\* Every step of a connection that touches a map or draws a generation keeps
\* the invariant.
LEMMA RegistrationStep ==
    ASSUME TypeOK, RegistryInv, NEW c \in Conns,
           \/ DrawGeneration(c) \/ InsertConnection(c) \/ RouterRegister(c)
           \/ RouterDeregister(c) \/ DeregisterConnection(c)
    PROVE  RegistryInv'
<1>0. /\ pc \in [Conns -> PCs] /\ id \in [Conns -> Chargers] /\ gen \in [Conns -> Nat]
      /\ connections \in [Chargers -> Nat] /\ router \in [Chargers -> Nat]
      /\ generation \in Nat \ {0}
  BY DEF TypeOK
<1>1. CASE DrawGeneration(c)
  <2>1. /\ pc[c] = "upgrading" /\ pc' = [pc EXCEPT ![c] = "numbered"]
        /\ gen' = [gen EXCEPT ![c] = generation] /\ generation' = generation + 1
        /\ UNCHANGED <<id, connections, router, displaced>>
    BY <1>1 DEF DrawGeneration, Goes
  <2>2. gen[c] = 0
    BY <2>1 DEF RegistryInv, GenerationsUnique
  <2>3. GenerationsUnique'
    BY <1>0, <2>1 DEF RegistryInv, GenerationsUnique, InRegistry
  <2>4. SuccessorKept'
    BY <1>0, <2>1 DEF RegistryInv, SuccessorKept, InRegistry
  <2>5. NoStaleEntries'
    BY <1>0, <2>1, <2>2 DEF RegistryInv, NoStaleEntries, Holders
  <2> QED BY <2>3, <2>4, <2>5 DEF RegistryInv
<1>2. CASE InsertConnection(c)
  <2>1. /\ pc[c] = "numbered" /\ pc' = [pc EXCEPT ![c] = "inserted"]
        /\ connections' = [connections EXCEPT ![id[c]] = gen[c]]
        /\ displaced' = displaced \cup Holders(id[c], connections)
        /\ UNCHANGED <<id, gen, generation, router>>
    BY <1>2 DEF InsertConnection, Goes, CancelExisting
  <2>2. GenerationsUnique'
    BY <1>0, <2>1 DEF RegistryInv, GenerationsUnique, InRegistry
  <2>3. ASSUME NEW d \in Conns, pc'[d] \in InRegistry, d \notin displaced'
        PROVE  connections'[id[d]] = gen[d]
    <3>1. CASE d = c
      BY <1>0, <2>1, <3>1
    <3>2. CASE d # c
      <4>1. pc[d] \in InRegistry /\ d \notin displaced
        BY <1>0, <2>1, <2>3, <3>2
      <4>2. connections[id[d]] = gen[d] /\ gen[d] # 0
        BY <4>1 DEF RegistryInv, SuccessorKept, GenerationsUnique
      <4>3. id[d] # id[c]
        BY <2>1, <2>3, <4>2 DEF Holders
      <4> QED BY <1>0, <2>1, <4>2, <4>3
    <3> QED BY <3>1, <3>2
  <2>4. SuccessorKept'
    BY <2>1, <2>3 DEF SuccessorKept
  <2>5. gen[c] # 0
    BY <2>1 DEF RegistryInv, GenerationsUnique
  <2>6. NoStaleEntries'
    BY <1>0, <2>1, <2>5 DEF RegistryInv, NoStaleEntries, Holders, InRegistry, InRouter
  <2> QED BY <2>2, <2>4, <2>6 DEF RegistryInv
<1>3. CASE RouterRegister(c)
  <2>1. /\ pc[c] = "inserted" /\ pc' = [pc EXCEPT ![c] = "routed"]
        /\ router' = [router EXCEPT ![id[c]] = gen[c]]
        /\ UNCHANGED <<id, gen, generation, connections, displaced>>
    BY <1>3 DEF RouterRegister, Goes
  <2>2. GenerationsUnique' /\ gen[c] # 0
    BY <1>0, <2>1 DEF RegistryInv, GenerationsUnique, InRegistry
  <2>3. SuccessorKept'
    BY <1>0, <2>1 DEF RegistryInv, SuccessorKept, InRegistry
  <2>4. NoStaleEntries'
    BY <1>0, <2>1, <2>2 DEF RegistryInv, NoStaleEntries, Holders, InRegistry, InRouter
  <2> QED BY <2>2, <2>3, <2>4 DEF RegistryInv
<1>4. CASE RouterDeregister(c)
  <2>1. /\ pc[c] = "returned" /\ pc' = [pc EXCEPT ![c] = "unrouted"]
        /\ router' = [router EXCEPT ![id[c]] = IF @ = gen[c] THEN 0 ELSE @]
        /\ UNCHANGED <<id, gen, generation, connections, displaced>>
    BY <1>4 DEF RouterDeregister, Goes
  <2>2. GenerationsUnique'
    BY <1>0, <2>1 DEF RegistryInv, GenerationsUnique, InRegistry
  <2>3. SuccessorKept'
    BY <1>0, <2>1 DEF RegistryInv, SuccessorKept, InRegistry
  <2>4. NoStaleEntries'
    BY <1>0, <2>1 DEF RegistryInv, NoStaleEntries, Holders, InRegistry, InRouter
  <2> QED BY <2>2, <2>3, <2>4 DEF RegistryInv
<1>5. CASE DeregisterConnection(c)
  <2>1. /\ pc[c] = "unrouted"
        /\ pc' = [pc EXCEPT ![c] = IF StillCurrent(c) THEN "removed" ELSE "done"]
        /\ connections' = IF StillCurrent(c) THEN [connections EXCEPT ![id[c]] = 0]
                                             ELSE connections
        /\ UNCHANGED <<id, gen, generation, router, displaced>>
    BY <1>5 DEF DeregisterConnection, Goes
  <2>2. GenerationsUnique' /\ gen[c] # 0
    BY <1>0, <2>1 DEF RegistryInv, GenerationsUnique, InRegistry
  <2>3. ASSUME NEW d \in Conns, pc'[d] \in InRegistry, d \notin displaced
        PROVE  connections'[id[d]] = gen[d]
    <3>1. d # c /\ pc[d] \in InRegistry
      BY <1>0, <2>1, <2>3 DEF InRegistry
    <3>2. connections[id[d]] = gen[d]
      BY <2>3, <3>1 DEF RegistryInv, SuccessorKept
    <3>3. CASE StillCurrent(c)
      <4>1. id[d] # id[c]
        BY <2>2, <3>1, <3>2, <3>3 DEF RegistryInv, GenerationsUnique, StillCurrent
      <4> QED BY <1>0, <2>1, <3>2, <3>3, <4>1
    <3>4. CASE ~StillCurrent(c)
      BY <2>1, <3>2, <3>4
    <3> QED BY <3>3, <3>4
  <2>4. SuccessorKept'
    BY <2>1, <2>3 DEF SuccessorKept
  <2>5. NoStaleEntries'
    BY <1>0, <2>1 DEF RegistryInv, NoStaleEntries, Holders, StillCurrent, InRouter
  <2> QED BY <2>2, <2>4, <2>5 DEF RegistryInv
<1> QED BY <1>1, <1>2, <1>3, <1>4, <1>5

\* Every other step keeps the invariant too.
LEMMA RegistryInvStep ==
    ASSUME TypeOK, RegistryInv, Next
    PROVE  RegistryInv'
<1>1. ASSUME NEW c \in Conns, Upgrade(c) \/ UpgradeRejected(c) \/ UpgradeAbandoned(c)
      PROVE  RegistryInv'
  BY <1>1, LocalStep DEF Upgrade, UpgradeRejected, UpgradeAbandoned, shared, SameSide,
     InRegistry, InRouter
<1>2. ASSUME NEW c \in Conns, SessionSets(c) \/ SessionReturns(c)
      PROVE  RegistryInv'
  <2>1. UNCHANGED <<id, gen, shared>>
    BY <1>2 DEF SessionSets, SessionReturns, SetUpstream
  <2>2. PICK from, to \in {"running", "reporting", "closing", "reported", "returned"} :
          Goes(c, from, to)
    BY <1>2 DEF SessionSets, SessionReturns, SetUpstream
  <2> QED BY <2>1, <2>2, LocalStep DEF SameSide, InRegistry, InRouter
<1>3. ASSUME NEW c \in Conns, SessionLeavesLoop(c) \/ AnnounceConnected(c) \/ AnnounceDisconnected(c)
      PROVE  RegistryInv'
  BY <1>3, LocalStep DEF SessionLeavesLoop, AnnounceConnected, AnnounceDisconnected, shared,
     SameSide, InRegistry, InRouter
<1>4. ASSUME NEW c \in Conns, Publish(c)
      PROVE  RegistryInv'
  <2>1. Goes(c, pc[c], AfterPublish[pc[c]]) /\ UNCHANGED <<id, gen, shared>>
        /\ pc[c] \in {"announcing", "reporting", "reported", "leaving"}
    BY <1>4 DEF Publish, AfterPublish
  <2>2. SameSide(pc[c], AfterPublish[pc[c]])
    BY <2>1 DEF SameSide, AfterPublish, InRegistry, InRouter
  <2> QED BY <2>1, <2>2, LocalStep
<1>5. ASSUME NEW c \in Conns,
             \/ DrawGeneration(c) \/ InsertConnection(c) \/ RouterRegister(c)
             \/ RouterDeregister(c) \/ DeregisterConnection(c)
      PROVE  RegistryInv'
  BY <1>5, RegistrationStep
<1>6. ASSUME Signal \/ StartDraining \/ DrainPoll \/ DrainTimeout \/ MainExits \/ Exited
      PROVE  RegistryInv'
  <2>1. UNCHANGED <<pc, id, gen, shared>>
    BY <1>6 DEF Signal, StartDraining, DrainPoll, DrainTimeout, MainExits, Exited, vars
  <2> QED BY <2>1 DEF RegistryInv, GenerationsUnique, SuccessorKept, NoStaleEntries, Holders,
          shared
<1> QED BY <1>1, <1>2, <1>3, <1>4, <1>5, <1>6 DEF Next, Step

\* Every step keeps the types.
LEMMA TypeStep ==
    ASSUME TypeOK, Next
    PROVE  TypeOK'
<1> USE DEF TypeOK
<1>1. ASSUME NEW c \in Conns, Upgrade(c) \/ UpgradeRejected(c) \/ UpgradeAbandoned(c)
      PROVE  TypeOK'
  BY <1>1 DEF Upgrade, UpgradeRejected, UpgradeAbandoned, Goes, PCs, ConnectionStates, shared,
     states, main
<1>2. ASSUME NEW c \in Conns, SessionSets(c) \/ SessionReturns(c)
      PROVE  TypeOK'
  <2>1. PICK state \in ConnectionStates, from \in PCs, p \in PCs, q \in PCs :
          SetUpstream(c, state, from, p, q)
    <3>1. CASE SessionSets(c)
      <4>1. Links \subseteq ConnectionStates
        BY DEF ConnectionStates
      <4> QED BY <3>1, <4>1 DEF SessionSets, PCs, InRegistry
    <3>2. CASE SessionReturns(c)
      BY <3>2 DEF SessionReturns, PCs, InRegistry, ConnectionStates
    <3> QED BY <1>2, <3>1, <3>2
  <2>2. pc' \in [Conns -> PCs] /\ link' \in [Conns -> ConnectionStates \cup {"none"}]
    BY <2>1 DEF SetUpstream, Goes
  <2>3. msg' \in [Conns -> Statuses] /\ upState' \in ConnectionStates
        /\ downState' \in ConnectionStates /\ UNCHANGED <<listening, retained>>
    BY <2>1 DEF SetUpstream, SetStates, Statuses, states
  <2> QED BY <2>1, <2>2, <2>3 DEF SetUpstream, shared, main
<1>3. ASSUME NEW c \in Conns, SessionLeavesLoop(c) \/ AnnounceConnected(c) \/ AnnounceDisconnected(c)
      PROVE  TypeOK'
  BY <1>3 DEF SessionLeavesLoop, AnnounceConnected, AnnounceDisconnected, SetStates, Goes,
     PCs, InRegistry, ConnectionStates, Statuses, shared, states, main
<1>4. ASSUME NEW c \in Conns, Publish(c)
      PROVE  TypeOK'
  <2>1. AfterPublish[pc[c]] \in PCs
    BY <1>4 DEF Publish, AfterPublish, PCs, InRegistry
  <2>2. pc' \in [Conns -> PCs]
    BY <1>4, <2>1 DEF Publish, Goes
  <2>3. msg' \in [Conns -> Statuses] /\ retained' \in [Chargers -> Statuses]
    BY <1>4 DEF Publish, Statuses
  <2> QED BY <1>4, <2>2, <2>3 DEF Publish, shared, main
<1>5. ASSUME NEW c \in Conns, DrawGeneration(c) \/ InsertConnection(c) \/ RouterRegister(c)
      PROVE  TypeOK'
  BY <1>5 DEF DrawGeneration, InsertConnection, RouterRegister, CancelExisting, Holders, Goes,
     PCs, InRegistry, states, main
<1>6. ASSUME NEW c \in Conns, RouterDeregister(c) \/ DeregisterConnection(c)
      PROVE  TypeOK'
  BY <1>6 DEF RouterDeregister, DeregisterConnection, Goes, PCs, InRegistry, states, main
<1>7. CASE Signal \/ StartDraining \/ DrainPoll \/ DrainTimeout \/ MainExits \/ Exited
  BY <1>7 DEF Signal, StartDraining, DrainPoll, DrainTimeout, MainExits, Exited, vars, shared,
     states, main
<1> QED BY <1>1, <1>2, <1>3, <1>4, <1>5, <1>6, <1>7 DEF Next, Step

\* Every reachable state of the registry is well typed.
THEOREM RegistryTypes == Spec => []TypeOK
<1>1. ASSUME Init PROVE TypeOK
  <2>1. /\ pc \in [Conns -> PCs] /\ id \in [Conns -> Chargers] /\ gen \in [Conns -> Nat]
        /\ link \in [Conns -> ConnectionStates \cup {"none"}]
    BY <1>1 DEF Init, PCs
  <2>2. msg \in [Conns -> Statuses] /\ retained \in [Chargers -> Statuses]
    BY <1>1 DEF Init, Statuses
  <2>3. listening = TRUE /\ shutdown = FALSE
    BY <1>1 DEF Init
  <2>4. /\ connections \in [Chargers -> Nat] /\ router \in [Chargers -> Nat]
        /\ generation \in Nat \ {0} /\ displaced \subseteq Conns
        /\ upState \in ConnectionStates /\ downState \in ConnectionStates
        /\ mainPc \in {"serving", "draining", "clean", "abandoned", "exited"}
    BY <1>1 DEF Init, ConnectionStates
  <2>5. \A c \in Conns : gen[c] < generation
    BY <1>1 DEF Init
  <2> QED BY <2>1, <2>2, <2>3, <2>4, <2>5 DEF TypeOK
<1>2. TypeOK /\ [Next]_vars => TypeOK'
  <2>1. ASSUME TypeOK, UNCHANGED vars PROVE TypeOK'
    BY <2>1 DEF TypeOK, vars, shared, states, main
  <2> QED BY <2>1, TypeStep
<1> QED BY <1>1, <1>2, PTL DEF Spec

\* The inductive invariant holds in every reachable state.
LEMMA RegistryInvariant == Spec => []RegistryInv
<1>1. Init => RegistryInv
  BY DEF Init, RegistryInv, GenerationsUnique, SuccessorKept, NoStaleEntries, InRegistry
<1>2. TypeOK /\ RegistryInv /\ [Next]_vars => RegistryInv'
  <2>1. ASSUME RegistryInv, UNCHANGED vars PROVE RegistryInv'
    BY <2>1 DEF RegistryInv, GenerationsUnique, SuccessorKept, NoStaleEntries, Holders, vars,
       shared
  <2> QED BY <2>1, RegistryInvStep
<1> QED BY <1>1, <1>2, RegistryTypes, PTL DEF Spec

\* However many connections of however many chargers register, displace one
\* another and unwind in whatever order, none loses its registration to a
\* predecessor's deregister_connection.
THEOREM SuccessorAlwaysKept == Spec => []SuccessorKept
<1>1. RegistryInv => SuccessorKept
  BY DEF RegistryInv
<1> QED BY <1>1, RegistryInvariant, PTL

\* And no registration outlives its connection, in the registry or the router.
THEOREM NeverStale == Spec => []NoStaleEntries
<1>1. RegistryInv => NoStaleEntries
  BY DEF RegistryInv
<1> QED BY <1>1, RegistryInvariant, PTL

\* The drain loop of main.rs counts entries, and that is enough for every
\* connection that nothing displaced: SuccessorKept gives it an entry as long
\* as it has not deregistered.
THEOREM DrainClosed == Spec => DrainedIsClosed
<1>1. ASSUME TypeOK, RegistryInv, [Next]_vars, mainPc = "draining", mainPc' = "clean",
             NEW c \in Conns, pc[c] \in InRegistry
      PROVE  c \in displaced
  <2>1. DrainPoll
    BY <1>1 DEF Next, Step, vars, main, Upgrade, UpgradeRejected, UpgradeAbandoned, SessionSets,
       SessionLeavesLoop, SetUpstream, DrawGeneration, InsertConnection, RouterRegister,
       AnnounceConnected, Publish, SessionReturns, RouterDeregister, DeregisterConnection,
       AnnounceDisconnected, Signal, StartDraining, DrainTimeout, MainExits, Exited
  <2>2. connections[id[c]] = 0 /\ gen[c] # 0
    BY <1>1, <2>1 DEF DrainPoll, RegistryEmpty, TypeOK, RegistryInv, GenerationsUnique
  <2> QED BY <1>1, <2>2 DEF RegistryInv, SuccessorKept
<1>2. TypeOK /\ RegistryInv /\ [Next]_vars =>
        (mainPc = "draining" /\ mainPc' = "clean" =>
            \A c \in Conns : pc[c] \in InRegistry => c \in displaced)
  BY <1>1
<1> QED BY <1>2, RegistryTypes, RegistryInvariant, PTL DEF Spec, DrainedIsClosed
------------------------------------------------------------------------------
(***************************************************************************)
(* A connection that meets no other.                                       *)
(***************************************************************************)
Alone(c) == \A d \in Conns \ {c} : pc[d] = "new"

\* Where handle_connection is before it has announced the charger, and from the
\* end of its session on.
Early == {"new", "upgrading", "numbered", "inserted", "routed"}
Over == {"reported", "returned", "unrouted", "removed", "leaving", "done"}

\* What the shared state shows of it: its registration in the router, the last
\* upstream state it asked for, and the pair that is published after each change.
Shown(c) ==
    /\ pc[c] \in InRouter => router[id[c]] = gen[c]
    /\ upState = IF link[c] = "none" THEN "Disconnected" ELSE link[c]
    /\ pc[c] \notin Over => link[c] # "Disconnected"
    /\ pc[c] \notin Early \cup Over => downState = "Connected"
    /\ pc[c] \in {"announcing", "reporting"} => msg[c] = [up |-> upState, down |-> "Connected"]
    /\ pc[c] = "running" => retained[id[c]] = [up |-> upState, down |-> "Connected"]

AloneInv == \A c \in Conns : Alone(c) => Shown(c)

\* No connection becomes new again, so one that is alone always was.
LEMMA AloneStays ==
    ASSUME TypeOK, NEW c \in Conns, NEW d \in Conns, NEW from, NEW to,
           Goes(d, from, to), to # "new", Alone(c)'
    PROVE  Alone(c) /\ d = c
<1>1. pc \in [Conns -> PCs] /\ pc' = [pc EXCEPT ![d] = to]
  BY DEF TypeOK, Goes
<1>2. d = c
  BY <1>1 DEF Alone
<1> QED BY <1>1, <1>2 DEF Alone

\* A step of a connection that is alone keeps what is shown of it.
LEMMA ShownStep ==
    ASSUME TypeOK, NEW c \in Conns, Shown(c),
           \/ Upgrade(c) \/ UpgradeRejected(c) \/ UpgradeAbandoned(c)
           \/ SessionSets(c) \/ SessionLeavesLoop(c) \/ Step(c)
    PROVE  Shown(c)'
<1> USE DEF TypeOK, Shown, Early, Over, InRouter, InRegistry
<1>1. CASE Upgrade(c) \/ UpgradeRejected(c) \/ UpgradeAbandoned(c)
  BY <1>1 DEF Upgrade, UpgradeRejected, UpgradeAbandoned, Goes, shared, states
<1>2. CASE SessionSets(c)
  <2>1. PICK state \in Links : SetUpstream(c, state, "running", "reporting", "running")
    BY <1>2 DEF SessionSets
  <2>2. state # "none" /\ state # "Disconnected"
    BY RegistryAssumption
  <2> QED BY <2>1, <2>2 DEF SetUpstream, SetStates, Goes, shared, states
<1>3. CASE SessionReturns(c)
  BY <1>3 DEF SessionReturns, SetUpstream, SetStates, Goes, shared, states
<1>4. CASE SessionLeavesLoop(c)
  BY <1>4 DEF SessionLeavesLoop, Goes, shared, states
<1>5. CASE DrawGeneration(c) \/ InsertConnection(c)
  BY <1>5 DEF DrawGeneration, InsertConnection, Goes, states
<1>6. CASE RouterRegister(c)
  BY <1>6 DEF RouterRegister, Goes, states
<1>7. CASE AnnounceConnected(c) \/ AnnounceDisconnected(c)
  BY <1>7 DEF AnnounceConnected, AnnounceDisconnected, SetStates, Goes, shared
<1>8. CASE Publish(c)
  BY <1>8 DEF Publish, AfterPublish, Goes, shared
<1>9. CASE RouterDeregister(c) \/ DeregisterConnection(c)
  BY <1>9 DEF RouterDeregister, DeregisterConnection, Goes, states
<1> QED BY <1>1, <1>2, <1>3, <1>4, <1>5, <1>6, <1>7, <1>8, <1>9 DEF Step

\* Every action of a connection is a step from one place to another, none to new.
LEMMA ConnectionGoes ==
    ASSUME NEW d \in Conns,
           \/ Upgrade(d) \/ UpgradeRejected(d) \/ UpgradeAbandoned(d)
           \/ SessionSets(d) \/ SessionLeavesLoop(d) \/ Step(d)
    PROVE  \E to : Goes(d, pc[d], to) /\ to # "new"
<1>1. CASE Upgrade(d) \/ UpgradeRejected(d) \/ UpgradeAbandoned(d) \/ SessionLeavesLoop(d)
  BY <1>1 DEF Upgrade, UpgradeRejected, UpgradeAbandoned, SessionLeavesLoop, Goes
<1>2. CASE SessionSets(d) \/ SessionReturns(d)
  BY <1>2 DEF SessionSets, SessionReturns, SetUpstream, Goes
<1>3. CASE DrawGeneration(d) \/ InsertConnection(d) \/ RouterRegister(d)
  BY <1>3 DEF DrawGeneration, InsertConnection, RouterRegister, Goes
<1>4. CASE AnnounceConnected(d) \/ AnnounceDisconnected(d)
  BY <1>4 DEF AnnounceConnected, AnnounceDisconnected, Goes
<1>5. CASE RouterDeregister(d)
  BY <1>5 DEF RouterDeregister, Goes
<1>6. CASE DeregisterConnection(d)
  <2>1. Goes(d, "unrouted", IF StillCurrent(d) THEN "removed" ELSE "done")
    BY <1>6 DEF DeregisterConnection
  <2>2. Goes(d, pc[d], IF StillCurrent(d) THEN "removed" ELSE "done")
    BY <2>1 DEF Goes
  <2> QED BY <2>2
<1>7. CASE Publish(d)
  <2>1. AfterPublish[pc[d]] # "new" /\ Goes(d, pc[d], AfterPublish[pc[d]])
    BY <1>7 DEF Publish, AfterPublish
  <2> QED BY <2>1
<1> QED BY <1>1, <1>2, <1>3, <1>4, <1>5, <1>6, <1>7 DEF Step

\* Every step keeps the invariant.
LEMMA AloneStep == TypeOK /\ AloneInv /\ [Next]_vars => AloneInv'
<1> SUFFICES ASSUME TypeOK, AloneInv, [Next]_vars, NEW c \in Conns, Alone(c)'
             PROVE  Shown(c)'
  BY Zenon DEF AloneInv
<1>1. ASSUME NEW d \in Conns,
             \/ Upgrade(d) \/ UpgradeRejected(d) \/ UpgradeAbandoned(d)
             \/ SessionSets(d) \/ SessionLeavesLoop(d) \/ Step(d)
      PROVE  Shown(c)'
  <2>1. PICK to : Goes(d, pc[d], to) /\ to # "new"
    BY <1>1, ConnectionGoes, Zenon
  <2>2. Alone(c) /\ d = c
    BY <2>1, AloneStays, Zenon
  <2>3. Shown(c)
    BY <2>2 DEF AloneInv
  <2> QED BY <1>1, <2>2, <2>3, ShownStep, Zenon
<1>2. CASE \/ Signal \/ StartDraining \/ DrainPoll \/ DrainTimeout \/ MainExits
           \/ Exited \/ UNCHANGED vars
  <2>1. UNCHANGED <<pc, id, gen, link, msg, router, upState, downState, retained>>
    BY <1>2 DEF Signal, StartDraining, DrainPoll, DrainTimeout, MainExits, Exited, vars, shared,
       states
  <2>2. Alone(c)
    BY <2>1 DEF Alone
  <2>3. Shown(c)
    BY <2>2 DEF AloneInv
  <2> QED BY <2>1, <2>3 DEF Shown
<1> QED BY <1>1, <1>2, Zenon DEF Next

\* A connection that meets no other is shown as it is, whichever upstream states
\* its session goes through: the router leads to it, the health endpoint answers
\* for its link, and the retained status holds its two states.
THEOREM AloneAlwaysShown == Spec => []AloneIsShown
<1>1. Init => AloneInv
  BY DEF Init, AloneInv, Alone, Shown, Early, Over, InRouter, InRegistry
<1>2. TypeOK /\ AloneInv => AloneIsShown
  <2> SUFFICES ASSUME TypeOK, AloneInv, NEW c \in Conns, Live(c), listening, Alone(c)
               PROVE  /\ router[id[c]] = gen[c]
                      /\ link[c] = "Connected" => health_status("Connected") = "Healthy"
                      /\ link[c] # "none" => HealthHttp("Disconnected") = 200
                      /\ pc[c] = "running" =>
                            retained[id[c]] = [up |-> upState, down |-> "Connected"]
    BY Zenon DEF AloneIsShown, Alone
  <2>1. Shown(c) /\ pc[c] \in {"running", "reporting"}
    BY DEF AloneInv, Live
  <2>2. /\ router[id[c]] = gen[c] /\ downState = "Connected"
        /\ link[c] # "none" => upState = link[c] /\ upState # "Disconnected"
        /\ pc[c] = "running" => retained[id[c]] = [up |-> upState, down |-> "Connected"]
    BY <2>1 DEF Shown, InRouter, InRegistry, Early, Over
  <2>3. upState \in ConnectionStates
    BY DEF TypeOK
  <2>4. upState = "Connected" => health_status("Connected") = "Healthy"
    BY <2>2 DEF health_status
  <2>5. ASSUME upState # "Disconnected" PROVE health_status("Disconnected") = "Degraded"
    BY <2>2, <2>3, <2>5 DEF health_status, ConnectionStates
  <2> QED BY <2>2, <2>4, <2>5 DEF HealthHttp
<1> QED BY <1>1, <1>2, AloneStep, RegistryTypes, PTL DEF Spec
=============================================================================
