------------------------------ MODULE Routing ------------------------------
(***************************************************************************)
(* Subscriptions and routes in a tree of PubSub nodes.  A node's           *)
(* application subscribes and unsubscribes in several steps (counter,      *)
(* topic mask, control event) while the node's runner replays the          *)
(* subscriptions, drains the publish queue and handles what arrives.       *)
(* Control events are flooded along the tree; each node keeps, for every   *)
(* neighbour, the topics wanted behind it.  Links come and go, frames are  *)
(* lost and nodes reboot; the periodic replay is what repairs the routes.  *)
(*                                                                         *)
(* A transport is reduced to an ordered queue of frames towards each       *)
(* neighbour (its send queue, wire slots, the wire and the neighbour's     *)
(* receive queue); Drainer, Rs485 and Spi look inside.  Routes are kept    *)
(* per neighbour, which is what a peer of a SharedBusRouter and a          *)
(* PointToPoint or SharedBusEdge transport have in common.                 *)
(***************************************************************************)
EXTENDS Integers, Sequences, SequencesExt, FiniteSets

CONSTANTS
    Node,          \* the nodes
    Link,          \* links, sets of two nodes, that make them a tree
    Topic,         \* application topics
    Interest,      \* <<node, topic>> pairs an application may subscribe to
    Source,        \* <<node, topic>> pairs an application may publish
    InitiallyUp,   \* links that are up in the initial state
    Settled,       \* subscriptions made, and announced to all, before
    Fragile,       \* links that may fail or lose a frame
    Restarts,      \* nodes that may reboot
    None,          \* the topic of a slot that was never used
    SlotCount,     \* maxTopics
    QueueDepth,    \* maxMessageQueueSize
    MaxChanges,    \* bound: calls of subscribe and unsubscribe, link failures,
                   \* lost frames and reboots
    MaxPublishes   \* bound: messages published

Slot == 1 .. SlotCount
Message == 1 .. MaxPublishes
Neighbour(n) == {m \in Node : {n, m} \in Link}
Hop == {e \in Node \X Node : {e[1], e[2]} \in Link}

\* The nodes a node reaches through a neighbour: every set that holds the
\* neighbour and is closed under the links that avoid the node has them.
Behind == [e \in Hop |->
    {m \in Node : \A S \in SUBSET Node :
        e[2] \in S /\ (\A x \in S : Neighbour(x) \ {e[1]} \subseteq S) => m \in S}]

\* From any node, what is behind its neighbours is apart and makes up the rest.
IsTree ==
    \A n \in Node :
        /\ \A x, y \in Neighbour(n) : x # y => Behind[<<n, x>>] \cap Behind[<<n, y>>] = {}
        /\ Node = {n} \cup UNION {Behind[<<n, x>>] : x \in Neighbour(n)}

ASSUME RoutingAssumption ==
    /\ \A l \in Link : l \subseteq Node /\ Cardinality(l) = 2
    /\ IsTree
    /\ InitiallyUp \subseteq Link /\ Fragile \subseteq Link /\ Restarts \subseteq Node
    /\ Settled \subseteq Interest /\ Interest \subseteq Node \X Topic /\ Source \subseteq Node \X Topic
    /\ None \notin Topic /\ IsFiniteSet(Topic)
    /\ SlotCount \in Nat /\ SlotCount >= Cardinality(Topic) /\ QueueDepth \in Nat \ {0}
    /\ {MaxChanges, MaxPublishes} \subseteq Nat

VARIABLES
    slots,       \* SubscriptionManager::_subscriptionSlots
    subscribed,  \* SubscriptionManager::_subscribedTopics
    listeners,   \* entries of the SubscriberDirectory, by topic
    app,         \* the call of subscribe or unsubscribe under way
    queue,       \* Node::_publishQueue
    runner,      \* where the runner is, with the topics it is replaying
    pending,     \* Node::_subscriptionReplayPending
    known,       \* availability the transport observed last
    ready,       \* whether a link is ready
    route,       \* topics wanted behind a neighbour
    wire,        \* frames under way to a neighbour
    delivered,   \* how often a node's listeners were given a message
    owed,        \* nodes that must get a message (history)
    changes, published   \* bounds

local == <<slots, subscribed, listeners, app>>
node == <<queue, runner, pending>>
transport == <<known, ready, wire>>
history == <<delivered, owed>>
bounds == <<changes, published>>
vars == <<local, node, transport, route, history, bounds>>

Register(topics) == [kind |-> "register", topics |-> topics, id |-> 0]
Unregister(topics) == [kind |-> "unregister", topics |-> topics, id |-> 0]
Data(t, id) == [kind |-> "data", topics |-> {t}, id |-> id]
Event == {Register(s) : s \in (SUBSET Topic) \ {{}}}
             \cup {Unregister({t}) : t \in Topic}
Frame == Event \cup {Data(t, id) : t \in Topic, id \in Message}

Idle == [at |-> "idle", topic |-> None, slot |-> 0]
Resting == [at |-> "idle", mask |-> {}]
Unused == [topic |-> None, count |-> 0]

TypeOK ==
    /\ slots \in [Node -> [Slot -> [topic : Topic \cup {None}, count : Nat]]]
    /\ subscribed \in [Node -> SUBSET Topic]
    /\ listeners \in [Node -> [Topic -> Nat]]
    /\ app \in [Node -> [at : {"idle", "claimed", "counted", "register", "unregister"},
                         topic : Topic \cup {None}, slot : Slot \cup {0}]]
    /\ queue \in [Node -> Seq(Frame)]
    /\ runner \in [Node -> [at : {"idle", "replay", "blocked"}, mask : SUBSET Topic]]
    /\ pending \in [Node -> BOOLEAN]
    /\ known \in [Hop -> BOOLEAN] /\ ready \in [Link -> BOOLEAN]
    /\ route \in [Hop -> SUBSET Topic]
    /\ wire \in [Hop -> Seq(Frame)]
    /\ delivered \in [Message -> [Node -> Nat]]
    /\ owed \in [Message -> SUBSET Node]
    /\ changes \in 0 .. MaxChanges /\ published \in 0 .. MaxPublishes

Init ==
    /\ subscribed = [n \in Node |-> {t \in Topic : <<n, t>> \in Settled}]
    /\ slots = [n \in Node |-> LET before == SetToSeq(subscribed[n]) IN
                  [k \in Slot |-> IF k > Len(before) THEN Unused
                                  ELSE [topic |-> before[k], count |-> 1]]]
    /\ listeners = [n \in Node |-> [t \in Topic |-> IF t \in subscribed[n] THEN 1 ELSE 0]]
    /\ app = [n \in Node |-> Idle]
    /\ queue = [n \in Node |-> <<>>]
    /\ runner = [n \in Node |-> Resting]
    /\ pending = [n \in Node |-> FALSE]
    /\ ready = [l \in Link |-> l \in InitiallyUp]
    /\ known = [e \in Hop |-> {e[1], e[2]} \in InitiallyUp]
    /\ route = [e \in Hop |-> UNION {subscribed[n] : n \in Behind[e]}]
    /\ wire = [e \in Hop |-> <<>>]
    /\ delivered = [id \in Message |-> [n \in Node |-> 0]]
    /\ owed = [id \in Message |-> {}]
    /\ changes = 0 /\ published = 0

InTransit == (UNION {ToSet(queue[n]) : n \in Node}) \cup (UNION {ToSet(wire[e]) : e \in Hop})

(***************************************************************************)
(* subscribe and unsubscribe, in the application's task.                   *)
(***************************************************************************)

Change == changes < MaxChanges /\ changes' = changes + 1

\* The loops of _setSubscriberCount take the first slot that fits.
First(k, S) == k \in S /\ \A j \in S : k <= j
Named(n, t) == {k \in Slot : slots[n][k].topic = t}
Vacant(n) == {k \in Slot : slots[n][k].count = 0}

\* subscribe, up to the slot: an existing slot of the topic counts the
\* subscriber, otherwise the first vacant one is claimed by its counter.
Subscribe(n, t) ==
    /\ <<n, t>> \in Interest /\ app[n].at = "idle"
    /\ Change
    /\ listeners' = [listeners EXCEPT ![n][t] = @ + 1]
    /\ \/ \E k \in Slot :
            /\ First(k, Named(n, t))
            /\ slots' = [slots EXCEPT ![n][k].count = @ + 1]
            /\ app' = [app EXCEPT ![n] = [at |-> "counted", topic |-> t, slot |-> k]]
       \/ /\ Named(n, t) = {}
          /\ \E k \in Slot :
               /\ First(k, Vacant(n))
               /\ slots' = [slots EXCEPT ![n][k].count = 1]
               /\ app' = [app EXCEPT ![n] = [at |-> "claimed", topic |-> t, slot |-> k]]
    /\ UNCHANGED <<subscribed, node, transport, route, history, published>>

\* The topic of a claimed slot is written, and registerSubscription marks
\* the topic unless it is marked already.
Mark(n) ==
    /\ app[n].at \in {"claimed", "counted"}
    /\ slots' = [slots EXCEPT ![n][app[n].slot].topic = app[n].topic]
    /\ subscribed' = [subscribed EXCEPT ![n] = @ \cup {app[n].topic}]
    /\ app' = [app EXCEPT ![n] =
                  IF app[n].topic \in subscribed[n] THEN Idle ELSE [@ EXCEPT !.at = "register"]]
    /\ UNCHANGED <<listeners, node, transport, route, history, bounds>>

\* deregisterSubscription, up to the event.
Unsubscribe(n, t) ==
    /\ app[n].at = "idle"
    /\ listeners[n][t] > 0 /\ t \in subscribed[n]
    /\ Change
    /\ owed' = [id \in Message |-> {}]
    /\ \E k \in Slot :
         /\ First(k, Named(n, t))
         /\ slots' = [slots EXCEPT ![n][k].count = @ - 1]
         /\ \/ /\ slots[n][k].count > 1
               /\ listeners' = [listeners EXCEPT ![n][t] = @ - 1]
               /\ UNCHANGED <<subscribed, app>>
            \/ /\ slots[n][k].count = 1
               /\ subscribed' = [subscribed EXCEPT ![n] = @ \ {t}]
               /\ app' = [app EXCEPT ![n] = [at |-> "unregister", topic |-> t, slot |-> k]]
               /\ UNCHANGED listeners
    /\ UNCHANGED <<node, transport, route, delivered, published>>

\* _sendPubSubEvent; unsubscribe removes the listener after it.
Announce(n) ==
    LET t == app[n].topic IN
    /\ Len(queue[n]) < QueueDepth
    /\ \/ /\ app[n].at = "register"
          /\ queue' = [queue EXCEPT ![n] = Append(@, Register({t}))]
          /\ UNCHANGED listeners
       \/ /\ app[n].at = "unregister"
          /\ queue' = [queue EXCEPT ![n] = Append(@, Unregister({t}))]
          /\ listeners' = [listeners EXCEPT ![n][t] = @ - 1]
    /\ app' = [app EXCEPT ![n] = Idle]
    /\ UNCHANGED <<slots, subscribed, runner, pending, transport, route, history, bounds>>

\* Any task of the node may publish; it waits for room in the queue.
Publish(n, t) ==
    /\ <<n, t>> \in Source /\ published < MaxPublishes
    /\ Len(queue[n]) < QueueDepth
    /\ published' = published + 1
    /\ queue' = [queue EXCEPT ![n] = Append(@, Data(t, published'))]
    /\ UNCHANGED <<local, runner, pending, transport, route, history, changes>>

(***************************************************************************)
(* Replay, in the runner.                                                  *)
(***************************************************************************)

\* Mutant: slots nobody is subscribed through are announced as well.
ReplayableUncounted(n) == {slots[n][k].topic : k \in Slot}

Replayable(n) ==
    {slots[n][k].topic : k \in {j \in Slot : slots[n][j].count > 0}} \ {None}

StartReplay(n) ==
    runner' = [runner EXCEPT ![n] =
        IF Replayable(n) = {} THEN Resting ELSE [at |-> "replay", mask |-> Replayable(n)]]

\* A link's availability is noticed by any call into its transport.
Observe(n, m) ==
    /\ runner[n].at = "idle"
    /\ known[<<n, m>>] # ready[{n, m}]
    /\ known' = [known EXCEPT ![<<n, m>>] = ready[{n, m}]]
    /\ pending' = [pending EXCEPT ![n] = @ \/ ready[{n, m}]]
    /\ UNCHANGED <<local, queue, runner, ready, wire, route, history, bounds>>

AvailabilityReplay(n) ==
    /\ runner[n].at = "idle" /\ pending[n]
    /\ pending' = [pending EXCEPT ![n] = FALSE]
    /\ StartReplay(n)
    /\ UNCHANGED <<local, queue, transport, route, history, bounds>>

\* Mutant: availability is the only reason to replay.
PeriodicReplayPending(n) ==
    /\ runner[n].at = "idle" /\ pending[n]
    /\ StartReplay(n)
    /\ UNCHANGED <<local, queue, pending, transport, route, history, bounds>>

\* The interval is long: the last replay has left the tree.
PeriodicReplay(n) ==
    /\ runner[n].at = "idle"
    /\ \A f \in InTransit : f.kind = "data"
    /\ Replayable(n) # {}
    /\ StartReplay(n)
    /\ UNCHANGED <<local, queue, pending, transport, route, history, bounds>>

\* Node::publish waits without a timeout for room in the queue, which only
\* this task makes.
PublishReplay(n) ==
    /\ runner[n].at = "replay"
    /\ \/ /\ Len(queue[n]) < QueueDepth
          /\ queue' = [queue EXCEPT ![n] = Append(@, Register(runner[n].mask))]
          /\ runner' = [runner EXCEPT ![n] = Resting]
       \/ /\ Len(queue[n]) >= QueueDepth
          /\ runner' = [runner EXCEPT ![n].at = "blocked"]
          /\ UNCHANGED queue
    /\ UNCHANGED <<local, pending, transport, route, history, bounds>>

(***************************************************************************)
(* Fan-out.                                                                *)
(***************************************************************************)

Control(f) == f.kind # "data"
Wanted(n, m, f) == Control(f) \/ f.topics \subseteq route[<<n, m>>]
\* Mutant: the neighbour a frame came from is not excluded.
TargetsReflecting(n, from, f) ==
    {m \in Neighbour(n) : ready[{n, m}] /\ Wanted(n, m, f)}

\* dispatchFor: every available neighbour that wants the frame, except the
\* one it came from.
Targets(n, from, f) ==
    {m \in Neighbour(n) \ from : ready[{n, m}] /\ Wanted(n, m, f)}

\* The frames under way when n has taken f from `from` and fanned it out.
FannedOut(n, from, f) ==
    [e \in Hop |->
        IF e[2] = n /\ e[1] \in from THEN Tail(wire[e])
        ELSE IF e[1] = n /\ e[2] \in Targets(n, from, f) THEN Append(wire[e], f)
        ELSE wire[e]]

Listening(n, t) == t \in subscribed[n] /\ listeners[n][t] > 0

\* Mutant: a frame from a link is given to the listeners only if it is not
\* relayed as well.
DeliverOrRelay(n, from, f) ==
    delivered' =
        IF /\ f.kind = "data" /\ f.topics \subseteq subscribed[n]
           /\ from # {} => Targets(n, from, f) = {}
        THEN [delivered EXCEPT ![f.id][n] = @ + 1]
        ELSE delivered

\* publishToSubscribers.  Frames from a link are dropped or relayed before
\* unless the topic is marked (_dispatchIngressFrame).
Deliver(n, from, f) ==
    delivered' =
        IF /\ f.kind = "data"
           /\ \E t \in f.topics : listeners[n][t] > 0
           /\ from = {} \/ f.topics \subseteq subscribed[n]
        THEN [delivered EXCEPT ![f.id][n] = @ + 1]
        ELSE delivered

CoveredTopic(t) ==
    \A e \in Hop : (\E n \in Behind[e] : Listening(n, t)) => t \in route[e]

\* Nothing is under way that could take a route away or miss it.
Steady(t) ==
    /\ \A l \in Link : ready[l]
    /\ \A n \in Node : app[n].at # "unregister"
    /\ Unregister({t}) \notin InTransit
    /\ CoveredTopic(t)

DrainLocal(n) ==
    /\ runner[n].at = "idle" /\ queue[n] # <<>>
    /\ LET f == Head(queue[n]) IN
         /\ queue' = [queue EXCEPT ![n] = Tail(@)]
         /\ wire' = FannedOut(n, {}, f)
         /\ Deliver(n, {}, f)
         /\ \/ /\ f.kind = "data"
               /\ \E t \in f.topics :
                    owed' = [owed EXCEPT ![f.id] =
                        IF Steady(t) THEN {m \in Node : Listening(m, t)} ELSE {}]
            \/ Control(f) /\ UNCHANGED owed
    /\ UNCHANGED <<local, runner, pending, known, ready, route, bounds>>

\* handlePubSubEvent with the ingress, then the fan-out.
Ingress(n, m) ==
    /\ runner[n].at = "idle" /\ wire[<<m, n>>] # <<>>
    /\ LET f == Head(wire[<<m, n>>]) IN
         /\ wire' = FannedOut(n, {m}, f)
         /\ Deliver(n, {m}, f)
         /\ route' = CASE f.kind = "register" -> [route EXCEPT ![<<n, m>>] = @ \cup f.topics]
                       [] f.kind = "unregister" -> [route EXCEPT ![<<n, m>>] = @ \ f.topics]
                       [] OTHER -> route
    /\ UNCHANGED <<local, node, known, ready, owed, bounds>>

(***************************************************************************)
(* Links and faults.                                                       *)
(***************************************************************************)

LinkUp(l) ==
    /\ ~ready[l]
    /\ ready' = [ready EXCEPT ![l] = TRUE]
    /\ UNCHANGED <<local, node, known, wire, route, history, bounds>>

\* The frames a peer has received survive.
LinkDown(l) ==
    /\ Change /\ owed' = [id \in Message |-> {}]
    /\ l \in Fragile /\ ready[l]
    /\ ready' = [ready EXCEPT ![l] = FALSE]
    /\ \E kept \in [{e \in Hop : {e[1], e[2]} = l} -> 0 .. QueueDepth] :
         wire' = [e \in Hop |-> IF e \in DOMAIN kept /\ kept[e] < Len(wire[e])
                                THEN SubSeq(wire[e], 1, kept[e]) ELSE wire[e]]
    /\ UNCHANGED <<local, node, known, route, delivered, published>>

\* Dropped on backpressure, as a duplicate of a retained frame, or corrupted.
Lose(n, m) ==
    /\ Change /\ owed' = [id \in Message |-> {}]
    /\ {n, m} \in Fragile /\ wire[<<n, m>>] # <<>>
    /\ wire' = [wire EXCEPT ![<<n, m>>] = Tail(@)]
    /\ UNCHANGED <<local, node, known, ready, route, delivered, published>>

\* The links of the node fail; whether its neighbours' runners notice before
\* they are up again is open.
Reboot(n) ==
    /\ Change /\ owed' = [id \in Message |-> {}]
    /\ n \in Restarts
    /\ slots' = [slots EXCEPT ![n] = [k \in Slot |-> Unused]]
    /\ subscribed' = [subscribed EXCEPT ![n] = {}]
    /\ listeners' = [listeners EXCEPT ![n] = [t \in Topic |-> 0]]
    /\ app' = [app EXCEPT ![n] = Idle]
    /\ queue' = [queue EXCEPT ![n] = <<>>]
    /\ runner' = [runner EXCEPT ![n] = Resting]
    /\ pending' = [pending EXCEPT ![n] = FALSE]
    /\ known' = [e \in Hop |-> e[1] # n /\ known[e]]
    /\ route' = [e \in Hop |-> IF e[1] = n THEN {} ELSE route[e]]
    /\ wire' = [e \in Hop |-> IF n \in {e[1], e[2]} THEN <<>> ELSE wire[e]]
    /\ ready' = [l \in Link |-> ready[l] /\ n \notin l]
    /\ UNCHANGED <<delivered, published>>

----------------------------------------------------------------------------
RunnerStep(n) ==
    \/ AvailabilityReplay(n) \/ PublishReplay(n) \/ DrainLocal(n)
    \/ \E m \in Neighbour(n) : Observe(n, m) \/ Ingress(n, m)

Call(n) ==
    \/ \E t \in Topic : Subscribe(n, t) \/ Unsubscribe(n, t) \/ Publish(n, t)
    \/ Reboot(n)
    \/ \E m \in Neighbour(n) : Lose(n, m)

Next ==
    \/ \E n \in Node : RunnerStep(n) \/ PeriodicReplay(n) \/ Mark(n) \/ Announce(n) \/ Call(n)
    \/ \E l \in Link : LinkUp(l) \/ LinkDown(l)

Spec == Init /\ [][Next]_vars

\* Tasks run, links come up, and the replay interval elapses.
FairSpec ==
    /\ Spec
    /\ \A n \in Node :
         /\ WF_vars(RunnerStep(n))
         /\ WF_vars(Mark(n) \/ Announce(n))
         /\ SF_vars(PeriodicReplay(n))
    /\ \A l \in Link : WF_vars(LinkUp(l))

----------------------------------------------------------------------------
\* A message reaches the listeners of a node at most once: the tree has one
\* path, and no node sends a frame back where it came from.
AtMostOnce == \A id \in Message, n \in Node : delivered[id][n] <= 1

\* A message drained while every link was up and every route in place, with
\* no unsubscription under way, has been delivered to all who listened then,
\* once it is nowhere under way, unless a fault or an unsubscription came.
ReachesListeners ==
    \A id \in Message :
        (\A f \in InTransit : f.id # id)
            => \A n \in owed[id] : delivered[id][n] = 1

\* Whatever is lost while links fail, nodes reboot and peers behind a link
\* unregister, the routes cover all subscriptions in the end and from then
\* on.  A runner that waits for itself is excluded.
Covered == \A t \in Topic : CoveredTopic(t)
Repaired == <>[](Covered \/ \E n \in Node : runner[n].at = "blocked")
=============================================================================
