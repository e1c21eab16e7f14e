----------------------------- MODULE LocalCalls -----------------------------
(***************************************************************************)
(* The per-session queue of proxy-originated Calls: LocalCallQueue and the *)
(* requests it holds (command.rs).  Pure operators; Session.tla keeps the  *)
(* state and calls them the way session.rs calls the struct's methods.     *)
(*                                                                         *)
(* A command is named by the number of its dispatch.  The command channel  *)
(* is first-in first-out and the queue only pushes at the back and pops at *)
(* the front, so the order of the VecDeque is the order of these numbers   *)
(* and the queue is the SET of the commands in it: its front is the least. *)
(***************************************************************************)
EXTENDS Naturals, FiniteSets, Sequences

CONSTANTS
    NumCommands,     \* commands ever dispatched (a bound of the model)
    CmdCap,          \* COMMAND_CHANNEL_CAPACITY: the inbox and the queue
    CommandTimeout   \* charging.command_timeout_seconds, in ticks

ASSUME LocalCallsAssumption ==
    /\ NumCommands \in Nat
    /\ CmdCap \in Nat \ {0}
    /\ CommandTimeout \in Nat \ {0}

Commands == 1..NumCommands

(***************************************************************************)
(* What the session can tell apart in a ProxyCommand: whether it is a      *)
(* limit command (set and clear supersede one another) and whether         *)
(* prepare_call accepts it, a function of the request and of the fixed     *)
(* configuration only.                                                     *)
(***************************************************************************)
Kinds == {"limit", "badLimit", "other", "badOther"}
IsLimit(k) == k \in {"limit", "badLimit"}
Prepares(k) == k \in {"limit", "other"}

(***************************************************************************)
(* "Answered" stands for the three outcomes interpret_response reads off   *)
(* the charger's answer: Accepted, Rejected and Error.                     *)
(***************************************************************************)
Statuses == {"Answered", "Superseded", "Rejected", "Invalid", "Timeout",
             "NotConnected"}

\* The Call on the line to the charger, with its age since it was sent.
NoFlight == [cmd |-> 0, age |-> 0]
InFlights == [cmd : Commands, age : 0..CommandTimeout] \cup {NoFlight}

\* The front of the queue, as a set of at most one command.
Oldest(q) == {c \in q : \A d \in q : c <= d}

\* Mutants: push keeps the limits it supersedes; it keeps what it displaces.
KeepsLimits(q, kind, c) == q
PushedOnto(q, kind, c) == q \cup {c}

\* push: a limit command first takes out every queued limit command; a queue
\* that is still full then loses its oldest entry.
Kept(q, kind, c) == IF IsLimit(kind[c]) THEN {d \in q : ~IsLimit(kind[d])} ELSE q
Evicted(q, kind, c) ==
    LET kept == Kept(q, kind, c)
    IN IF Cardinality(kept) >= CmdCap THEN Oldest(kept) ELSE {}
Displaced(q, kind, c) == (q \ Kept(q, kind, c)) \cup Evicted(q, kind, c)
Pushed(q, kind, c) == (q \ Displaced(q, kind, c)) \cup {c}

\* send_local_calls pops from the front until a request survives prepare_call:
\* that one is Sendable, and the ones popped before it are Unpreparable.
Sendable(q, kind) == Oldest({c \in q : Prepares(kind[c])})
Unpreparable(q, kind) ==
    {c \in q : ~Prepares(kind[c]) /\ \A d \in Sendable(q, kind) : c < d}

\* Mutant: the response is compared with the id without its proxy prefix.
IsOursUnprefixed(flight, uid) == flight # NoFlight /\ uid = <<"ocpp", flight.cmd>>

\* is_ours / take_response: a response belongs to the Call in flight only.
IsOurs(flight, uid) == flight # NoFlight /\ uid = <<"proxy", flight.cmd>>

\* Mutant: only queued requests expire.
FlightNeverExpires(flight) == FALSE

\* expire: queued requests by their age since they were issued, the Call in
\* flight by its age since it was sent.
ExpiredQueued(q, age) == {c \in q : age[c] >= CommandTimeout}
ExpiredFlight(flight) == flight # NoFlight /\ flight.age >= CommandTimeout

\* emit_command_result for every command of S.
Report(results, S, status) ==
    [c \in DOMAIN results |->
        IF c \in S THEN Append(results[c], status) ELSE results[c]]
=============================================================================
