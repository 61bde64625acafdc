----------------------------- MODULE Retention -----------------------------
(***************************************************************************)
(* What a PubSub node promises about the payload of a message it accepted: *)
(* it is routed once, retained until the last transport it was routed to   *)
(* has finished with it, and then given back to its owner exactly once.    *)
(* Nothing is said of queues, tables or tasks: module Drainer implements   *)
(* this specification with them.                                           *)
(***************************************************************************)
CONSTANTS
    Header,     \* identities of messages: <messageId, source>
    Transport   \* the transports registered with the node

VARIABLES
    held,       \* headers whose payload is retained by its owner
    routed,     \* the held headers whose set of transports is decided
    owing       \* for each header, the transports that still need its payload

vars == <<held, routed, owing>>

TypeOK ==
    /\ held \in SUBSET Header
    /\ routed \in SUBSET held
    /\ owing \in [Header -> SUBSET Transport]

Init ==
    /\ held = {}
    /\ routed = {}
    /\ owing = [h \in Header |-> {}]

\* The node takes a message in: a local publish, or a frame from a transport.
Accept(h) ==
    /\ h \notin held
    /\ held' = held \cup {h}
    /\ UNCHANGED <<routed, owing>>

\* The node decides, once, which transports get the message; possibly none.
Route(h, targets) ==
    /\ h \in held \ routed
    /\ routed' = routed \cup {h}
    /\ owing' = [owing EXCEPT ![h] = targets]
    /\ UNCHANGED held

\* One transport has sent the message, or given it up.
Finish(h, t) ==
    /\ t \in owing[h]
    /\ owing' = [owing EXCEPT ![h] = @ \ {t}]
    /\ UNCHANGED <<held, routed>>

\* The payload returns to its owner, when nobody needs it any more.
Release(h) ==
    /\ h \in routed
    /\ owing[h] = {}
    /\ held' = held \ {h}
    /\ routed' = routed \ {h}
    /\ UNCHANGED owing

Next ==
    \E h \in Header :
        \/ Accept(h)
        \/ \E targets \in SUBSET Transport : Route(h, targets)
        \/ \E t \in Transport : Finish(h, t)
        \/ Release(h)

Spec == Init /\ [][Next]_vars
=============================================================================
