---------------------------- MODULE AtLeastOnce -----------------------------
(***************************************************************************)
(* What the MQTT side promises for what it is given to publish: QoS 1,     *)
(* first in first out, and losses only of messages that were never handed  *)
(* to the broker.  Messages are numbered in the order they are accepted.   *)
(* Publisher.tla implements this.                                          *)
(***************************************************************************)
EXTENDS Naturals

VARIABLES
    accepted,    \* how many messages were accepted
    waiting,     \* the numbers of those not yet acknowledged
    received,    \* the numbers the broker has got at least once
    lost         \* the numbers given up

vars == <<accepted, waiting, received, lost>>

Init == accepted = 0 /\ waiting = {} /\ received = {} /\ lost = {}

\* New messages are accepted and waiting ones may have to give way, though none
\* that the broker may already have.
Accept ==
    /\ accepted' \in Nat /\ accepted' >= accepted
    /\ \E gone \in SUBSET (waiting \cup (accepted + 1)..accepted') :
          /\ gone \cap received = {}
          /\ waiting' = (waiting \cup (accepted + 1)..accepted') \ gone
          /\ lost' = lost \cup gone
    /\ UNCHANGED received

\* The broker gets a message, perhaps again, and never one before an earlier
\* one that is still to come.
Deliver ==
    /\ \E n \in waiting :
          /\ \A m \in waiting : m < n => m \in received
          /\ received' = received \cup {n}
    /\ UNCHANGED <<accepted, waiting, lost>>

\* The oldest message is acknowledged, which the broker has got.
Settle ==
    /\ \E n \in waiting \cap received :
          /\ \A m \in waiting : n <= m
          /\ waiting' = waiting \ {n}
    /\ UNCHANGED <<accepted, received, lost>>

\* The publisher stops with messages still waiting.
Abandon ==
    /\ waiting' = {}
    /\ lost' = lost \cup (waiting \ received)
    /\ UNCHANGED <<accepted, received>>

Next == Accept \/ Deliver \/ Settle \/ Abandon

Spec == Init /\ [][Next]_vars

\* Every message is accounted for: it reached the broker, it is waiting, or it
\* was given up before the broker had it.
Accounted ==
    /\ received \cup waiting \cup lost = 1..accepted
    /\ lost \cap (received \cup waiting) = {}
=============================================================================
