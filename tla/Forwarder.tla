----------------------------- MODULE Forwarder ------------------------------
(***************************************************************************)
(* The forwarder's data: frames, the CallTracker and the upstream buffer   *)
(* (forwarder.rs, models.rs).  Pure operators; Session.tla keeps the       *)
(* state.                                                                  *)
(*                                                                         *)
(* A frame is what OcppFrame::parse makes of a text message: its type, its *)
(* unique id, and n, its number in the order its sender sent it (which     *)
(* stands for the payload: no two frames of one sender are the same).      *)
(* CallResult and CallError are both "Result": nothing on this path tells  *)
(* them apart.  "Bad" is a text message that parse refuses, "Binary" and   *)
(* "Ping" are the WebSocket messages of those names, "Close" the one the   *)
(* proxy itself queues for the charger.                                    *)
(***************************************************************************)
EXTENDS Naturals, Sequences

CONSTANTS
    BufCap,       \* message_buffer_size
    BufMaxAge,    \* max_buffer_duration, in ticks
    Grace,        \* CENTRAL_CALL_GRACE, in ticks
    TrackMax      \* call_tracker_max_age, in ticks

ASSUME ForwarderAssumption ==
    /\ BufCap \in Nat
    /\ BufMaxAge \in Nat
    /\ Grace \in Nat \ {0}
    /\ TrackMax \in Nat
    /\ Grace <= TrackMax

Directions == {"ChargerToCentral", "CentralToCharger"}

\* Unique ids: <<"ocpp", k>> for the ids the two endpoints choose,
\* <<"proxy", c>> for the proxy's own (UNIQUE_ID_PREFIX keeps them apart).
NoUid == <<"none", 0>>

Frame(n, type, uid) == [n |-> n, type |-> type, uid |-> uid]

(***************************************************************************)
(* CallTracker: one map for BOTH directions, keyed by the unique id alone. *)
(***************************************************************************)
track_call(pending, uid, dir) ==
    {e \in pending : e.uid # uid} \cup {[uid |-> uid, dir |-> dir, age |-> 0]}

resolve(pending, uid) == {e \in pending : e.uid # uid}

cleanup_expired(pending) == {e \in pending : e.age < TrackMax}

has_recent_pending_in(pending, dir) ==
    \E e \in pending : e.dir = dir /\ e.age < Grace

\* resolve_action: a forwarded Call is tracked, a forwarded response consumes
\* the entry of its Call.  ActionKnown is whether the event carries the real
\* action rather than "Unknown".
resolve_action(pending, frame, dir) ==
    IF frame.type = "Call" THEN track_call(pending, frame.uid, dir)
                           ELSE resolve(pending, frame.uid)

ActionKnown(pending, frame) ==
    frame.type = "Call" \/ \E e \in pending : e.uid = frame.uid

(***************************************************************************)
(* The upstream buffer.  (The downstream one is never filled: nothing      *)
(* calls buffer_downstream.)                                               *)
(***************************************************************************)
Buffered(frame) ==
    [n |-> frame.n, type |-> frame.type, uid |-> frame.uid, age |-> 0]

buffer_upstream(buffer, frame) ==
    LET full == Len(buffer) >= BufCap /\ buffer # <<>>
    IN Append(IF full THEN Tail(buffer) ELSE buffer, Buffered(frame))

\* evict_expired_messages keeps what is at most BufMaxAge old.
evict_expired_messages(buffer) ==
    LET Fresh(e) == e.age <= BufMaxAge
    IN IF \A i \in 1..Len(buffer) : Fresh(buffer[i])
         THEN buffer
         ELSE SelectSeq(buffer, Fresh)

\* Clocks saturate at the bound their use compares them with.
Older(age, max) == IF age < max THEN age + 1 ELSE max

AgedFrame(e) ==
    [n |-> e.n, type |-> e.type, uid |-> e.uid, age |-> Older(e.age, BufMaxAge + 1)]
=============================================================================
