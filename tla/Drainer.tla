------------------------------ MODULE Drainer ------------------------------
(***************************************************************************)
(* One PubSub node: the path of a message from the moment its payload is   *)
(* stored until its owner gets it back.  The node's task (the "runner" of  *)
(* Node::_onTaskStep) drains the local publish queue and the transports'   *)
(* publish queues into the in-flight table, hands frame handles to the     *)
(* transports' send queues and lets every transport send.  The task of a   *)
(* transport's link completes the writes, and acknowledges and releases    *)
(* them concurrently with the runner.                                      *)
(*                                                                         *)
(* A frame is its header; payload bytes, topics and peer masks are         *)
(* abstracted: which transports want a frame is a nondeterministic choice, *)
(* since the masks are maintained elsewhere and may have any value.        *)
(***************************************************************************)
EXTENDS Integers, Sequences, FiniteSets

CONSTANTS
    TransportCount,   \* transports, numbered in the order of the directory
    Local,            \* headers this node publishes, each id used once
    Remote,           \* headers other nodes publish
    None,             \* no header
    SlotCount,        \* kMaxInFlightMessages
    QueueDepth,       \* maxMessageQueueSize, of every queue of the node
    WireDepth,        \* inFlightDepth of a transport
    IngressRecords,   \* frames the ingress arena can hold: it may be more than a queue can
    MaxArrivals,      \* bound: frames that reach the node from its links
    MaxFlaps          \* bound: times a link goes down

Transport == 1 .. TransportCount
Slot == 1 .. SlotCount
WireSlot == 1 .. WireDepth
Header == Local \cup Remote

ASSUME DrainerAssumption ==
    /\ TransportCount \in Nat /\ SlotCount \in Nat \ {0}
    /\ WireDepth \in Nat \ {0} /\ IngressRecords \in Nat
    /\ MaxArrivals \in Nat /\ MaxFlaps \in Nat
    /\ QueueDepth \in Nat \ {0}
    /\ SlotCount <= QueueDepth
    /\ Local \cap Remote = {} /\ IsFiniteSet(Header)
    /\ None \notin Header

VARIABLES
    fresh,      \* local headers whose message id is not used yet
    stored,     \* headers whose payload a Pool or the IngressBuffer holds
    inbox,      \* 0: Node::_publishQueue, t: BaseTransport::_publishQueue
    inFlight,   \* Drainer::_inFlightFrames: header and pendingMask
    sendQueue,  \* BaseTransport::_sendQueue: frame handles, that is slots
    wire,       \* the transport's InFlightFrame slots: envelope copies
    link,       \* what the link's task is doing with a completed write
    ready,      \* _link.ready()
    pc,         \* where the runner is in Node::_onTaskStep
    cursor,     \* the transport it works on; 0 while it drains local publishes
    maxCount,   \* pollInto's bound: the slots that were free when it began
    count,      \* frames received, then envelopes dispatched, against maxCount
    item,       \* the envelope in the runner's hands
    slot,       \* the slot _publishFrame stored it in
    todo,       \* the targets _publishFrame has not enqueued to yet
    back,       \* where the runner continues after the envelope
    overrun,    \* pollInto ran past its last statement
    rejected,   \* an envelope was dropped: all in-flight slots occupied
    arrivals,   \* frames that reached the node so far
    flaps       \* link failures so far

store == <<fresh, stored, inbox>>
table == <<inFlight, sendQueue, wire>>
links == <<link, ready, flaps>>
runner == <<pc, cursor, maxCount, count, item, slot, todo, back>>
bounds == <<maxCount, count>>
history == <<overrun, rejected, arrivals>>
vars == <<store, table, links, runner, history>>

Free == [header |-> None, pending |-> {}]
Idle == [at |-> "idle", header |-> None]
\* The loops over slots and over targets start with the first.
First(x, S) == x \in S /\ \A y \in S : x <= y

FreeSlots == {k \in Slot : inFlight[k].pending = {}}
FreeWire(t) == {w \in WireSlot : wire[t][w] = None}

TypeOK ==
    /\ fresh \in SUBSET Local
    /\ stored \in SUBSET Header
    /\ inbox \in [0 .. TransportCount -> Seq(Header)]
    /\ inFlight \in [Slot -> [header : Header \cup {None},
                              pending : SUBSET Transport]]
    /\ sendQueue \in [Transport -> Seq(Slot)]
    /\ wire \in [Transport -> [WireSlot -> Header \cup {None}]]
    /\ link \in [Transport -> [at : {"idle", "ack", "release"},
                               header : Header \cup {None}]]
    /\ ready \in [Transport -> BOOLEAN]
    /\ pc \in {"queue", "poll", "receive", "dispatch", "unreachable", "route",
               "fanout", "release", "send", "sending", "halted", "blocked"}
    /\ cursor \in 0 .. TransportCount + 1
    /\ maxCount \in Nat /\ count \in Nat
    /\ item \in Header \cup {None}
    /\ slot \in Slot \cup {0}
    /\ todo \in SUBSET Transport
    /\ back \in {"queue", "dispatch", "sending"}
    /\ overrun \in BOOLEAN /\ rejected \in BOOLEAN
    /\ arrivals \in Nat /\ flaps \in Nat

Init ==
    /\ fresh = Local
    /\ stored = {}
    /\ inbox = [s \in 0 .. TransportCount |-> <<>>]
    /\ inFlight = [k \in Slot |-> Free]
    /\ sendQueue = [t \in Transport |-> <<>>]
    /\ wire = [t \in Transport |-> [w \in WireSlot |-> None]]
    /\ link = [t \in Transport |-> Idle]
    /\ ready = [t \in Transport |-> FALSE]
    /\ pc = "queue" /\ cursor = 0 /\ maxCount = 0 /\ count = 0
    /\ item = None /\ slot = 0 /\ todo = {} /\ back = "queue"
    /\ overrun = FALSE /\ rejected = FALSE
    /\ arrivals = 0 /\ flaps = 0

(***************************************************************************)
(* The in-flight table, under its spinlock.                                *)
(***************************************************************************)

\* Mutant of Cleared: the slot is emptied by the first target that finishes.
ClearedAtOnce(k, t) == [inFlight EXCEPT ![k] = Free]

\* Clear the bit of t in slot k; the last bit empties the slot.
Cleared(k, t) ==
    IF inFlight[k].pending = {t}
    THEN [inFlight EXCEPT ![k] = Free]
    ELSE [inFlight EXCEPT ![k].pending = @ \ {t}]

\* Mutant of Acked: the header is not compared.
AckedByTransport(t, h) == {k \in Slot : t \in inFlight[k].pending}

\* The frames Drainer::ack takes for an acknowledgement of h by t.
Acked(t, h) == {k \in Slot : t \in inFlight[k].pending /\ inFlight[k].header = h}

(***************************************************************************)
(* Application tasks.                                                      *)
(***************************************************************************)

\* Pool::store, then Node::publish; a full queue blocks the publisher.
Publish(h) ==
    /\ h \in fresh
    /\ Len(inbox[0]) < QueueDepth
    /\ fresh' = fresh \ {h}
    /\ stored' = stored \cup {h}
    /\ inbox' = [inbox EXCEPT ![0] = Append(@, h)]
    /\ UNCHANGED <<table, links, runner, history>>

(***************************************************************************)
(* The runner: Drainer::_publishFromQueue.                                 *)
(***************************************************************************)

DequeueLocal ==
    /\ pc = "queue"
    /\ FreeSlots # {}
    /\ inbox[0] # <<>>
    /\ item' = Head(inbox[0])
    /\ inbox' = [inbox EXCEPT ![0] = Tail(@)]
    /\ pc' = "route" /\ back' = "queue"
    /\ UNCHANGED <<fresh, stored, table, links, cursor, bounds, slot, todo,
                   history>>

EndQueue ==
    /\ pc = "queue"
    /\ FreeSlots = {} \/ inbox[0] = <<>>
    /\ pc' = "poll" /\ cursor' = 1
    /\ UNCHANGED <<store, table, links, bounds, item, slot, todo, back, history>>

(***************************************************************************)
(* The runner: Drainer::_publishFromTransports and BaseTransport::pollInto. *)
(***************************************************************************)

\* Mutant of Poll: the bound is the size of the table, not its free slots.
PollUnbounded ==
    /\ pc = "poll"
    /\ cursor \in Transport
    /\ FreeSlots # {}
    /\ maxCount' = SlotCount /\ count' = 0
    /\ IF ready[cursor]
       THEN pc' = "receive" /\ UNCHANGED cursor
       ELSE cursor' = cursor + 1 /\ UNCHANGED pc
    /\ UNCHANGED <<store, table, links, item, slot, todo, back, history>>

\* Mutant of Poll: pollInto and receive are called without a bound.
PollEverything ==
    /\ pc = "poll"
    /\ cursor \in Transport
    /\ FreeSlots # {}
    /\ maxCount' = MaxArrivals /\ count' = 0
    /\ IF ready[cursor]
       THEN pc' = "receive" /\ UNCHANGED cursor
       ELSE cursor' = cursor + 1 /\ UNCHANGED pc
    /\ UNCHANGED <<store, table, links, item, slot, todo, back, history>>

\* Begin pollInto on the transport at the cursor, with the free slots as its
\* maxCount; an unavailable transport is skipped, and no free slot ends polling.
Poll ==
    /\ pc = "poll"
    /\ cursor \in Transport
    /\ FreeSlots # {}
    /\ maxCount' = Cardinality(FreeSlots) /\ count' = 0
    /\ IF ready[cursor]
       THEN pc' = "receive" /\ UNCHANGED cursor
       ELSE cursor' = cursor + 1 /\ UNCHANGED pc
    /\ UNCHANGED <<store, table, links, item, slot, todo, back, history>>

EndPoll ==
    /\ pc = "poll"
    /\ cursor \notin Transport \/ FreeSlots = {}
    /\ pc' = "send" /\ cursor' = 1
    /\ UNCHANGED <<store, table, links, bounds, item, slot, todo, back, history>>

\* The send to the publish queue has no timeout.  When the queue is full the runner,
\* its only consumer, waits for itself with the envelope in its hands.
EnqueueReceived(h) ==
    IF Len(inbox[cursor]) < QueueDepth
    THEN inbox' = [inbox EXCEPT ![cursor] = Append(@, h)] /\ UNCHANGED <<pc, item>>
    ELSE pc' = "blocked" /\ item' = h /\ UNCHANGED inbox

\* Mutant of Receive: storeFrame does not look for a retained duplicate.
ReceiveDuplicate(h) ==
    /\ pc = "receive"
    /\ count < maxCount
    /\ arrivals < MaxArrivals
    /\ Cardinality(stored \cap Remote) < IngressRecords
    /\ arrivals' = arrivals + 1
    /\ count' = count + 1
    /\ stored' = stored \cup {h}
    /\ EnqueueReceived(h)
    /\ UNCHANGED <<fresh, table, links, cursor, maxCount, slot, todo, back,
                   overrun, rejected>>

\* BaseTransport::receive takes one frame.  A duplicate of a retained frame is
\* dropped by IngressBuffer::storeFrame, as is a frame when the arena is full;
\* a frame nobody here subscribes to is relayed or dropped without storing it.
Receive(h) ==
    /\ pc = "receive"
    /\ count < maxCount
    /\ arrivals < MaxArrivals
    /\ arrivals' = arrivals + 1
    /\ count' = count + 1
    /\ \/ /\ h \notin stored
          /\ Cardinality(stored \cap Remote) < IngressRecords
          /\ stored' = stored \cup {h}
          /\ EnqueueReceived(h)
       \/ UNCHANGED <<stored, inbox, pc, item>>
    /\ UNCHANGED <<fresh, table, links, cursor, maxCount, slot, todo, back,
                   overrun, rejected>>

\* receive found its queue empty or took maxCount frames; pollInto looks at the
\* link again before it dispatches.
EndReceive ==
    /\ pc = "receive"
    /\ count' = 0
    /\ IF ready[cursor]
       THEN pc' = "dispatch" /\ UNCHANGED cursor
       ELSE pc' = "poll" /\ cursor' = cursor + 1
    /\ UNCHANGED <<store, table, links, maxCount, item, slot, todo, back, history>>

Dispatch ==
    /\ pc = "dispatch"
    /\ count < maxCount
    /\ inbox[cursor] # <<>>
    /\ item' = Head(inbox[cursor])
    /\ inbox' = [inbox EXCEPT ![cursor] = Tail(@)]
    /\ count' = count + 1
    /\ pc' = "route" /\ back' = "dispatch"
    /\ UNCHANGED <<fresh, stored, table, links, cursor, maxCount, slot, todo, history>>

\* Mutant of EndDispatch: the cursor advances twice.
EndDispatchTwice ==
    /\ pc = "dispatch"
    /\ count < maxCount
    /\ inbox[cursor] = <<>>
    /\ pc' = "poll" /\ cursor' = cursor + 2
    /\ UNCHANGED <<store, table, links, bounds, item, slot, todo, back, history>>

EndDispatch ==
    /\ pc = "dispatch"
    /\ count < maxCount
    /\ inbox[cursor] = <<>>
    /\ pc' = "poll" /\ cursor' = cursor + 1
    /\ UNCHANGED <<store, table, links, bounds, item, slot, todo, back, history>>

\* The loop of pollInto ended: only std::unreachable() follows.
Overrun ==
    /\ pc = "dispatch"
    /\ count = maxCount
    /\ pc' = "unreachable"
    /\ overrun' = TRUE
    /\ UNCHANGED <<store, table, links, cursor, bounds, item, slot, todo, back,
                   rejected, arrivals>>

\* Undefined behaviour: a build that traps stops the node; a build that takes
\* the loop to end only by its return drops the bound and empties the queue.
Unreachable ==
    /\ pc = "unreachable"
    /\ \/ pc' = "halted" /\ UNCHANGED maxCount
       \/ pc' = "dispatch" /\ maxCount' = count + Len(inbox[cursor]) + 1
    /\ UNCHANGED <<store, table, links, cursor, count, item, slot, todo, back,
                   history>>

(***************************************************************************)
(* The runner: Drainer::_publishFrame.                                     *)
(***************************************************************************)

\* Continue behind the envelope.
Return ==
    /\ pc' = back
    /\ item' = None /\ slot' = 0 /\ todo' = {}

\* No target: release at once.  So are an invalid control-plane frame and, when
\* every slot is occupied, any frame (the latter is counted as rejected).
\* Publisher::dispatchFor never returns a frame to the transport it came from,
\* nor picks an unavailable one.
Route(targets) ==
    /\ pc = "route"
    /\ targets \subseteq {t \in Transport : ready[t]}
    /\ back = "dispatch" => cursor \notin targets
    /\ IF targets # {} /\ FreeSlots # {}
       THEN \E k \in Slot :
            /\ First(k, FreeSlots)
            /\ inFlight' = [inFlight EXCEPT ![k] = [header |-> item,
                                                    pending |-> targets]]
            /\ slot' = k /\ todo' = targets
            /\ pc' = "fanout"
            /\ UNCHANGED rejected
       ELSE /\ rejected' = (rejected \/ targets # {})
            /\ pc' = "release"
            /\ UNCHANGED <<inFlight, slot, todo>>
    /\ UNCHANGED <<store, sendQueue, wire, links, cursor, bounds, item, back,
                   overrun, arrivals>>

\* Enqueue the handle to the next target.  A link that went down in between
\* makes the enqueue fail, and _releaseTransportTarget gives the target up.
Fanout ==
    /\ pc = "fanout"
    /\ \E t \in Transport :
       /\ First(t, todo)
       /\ IF ready[t]
          THEN /\ Len(sendQueue[t]) < QueueDepth
               /\ sendQueue' = [sendQueue EXCEPT ![t] = Append(@, slot)]
               /\ UNCHANGED inFlight
               /\ IF todo = {t} THEN Return
                  ELSE todo' = todo \ {t} /\ UNCHANGED <<pc, item, slot>>
          ELSE /\ inFlight' = Cleared(slot, t)
               /\ UNCHANGED sendQueue
               /\ CASE inFlight[slot].pending = {t} ->
                         pc' = "release" /\ slot' = 0 /\ todo' = {} /\ UNCHANGED item
                    [] inFlight[slot].pending # {t} /\ todo = {t} -> Return
                    [] OTHER -> todo' = todo \ {t} /\ UNCHANGED <<pc, item, slot>>
    /\ UNCHANGED <<store, wire, links, cursor, bounds, back, history>>

\* Envelope::ack: the payload goes back to its Pool or to the IngressBuffer.
Release ==
    /\ pc = "release"
    /\ stored' = stored \ {item}
    /\ Return
    /\ UNCHANGED <<fresh, inbox, table, links, cursor, bounds, back, history>>

(***************************************************************************)
(* The runner: send() of the transport at the cursor.                      *)
(***************************************************************************)

\* An unavailable transport keeps its queue until its link is back.
BeginSend ==
    /\ pc = "send"
    /\ cursor \in Transport
    /\ IF ready[cursor]
       THEN pc' = "sending" /\ UNCHANGED cursor
       ELSE cursor' = cursor + 1 /\ UNCHANGED pc
    /\ UNCHANGED <<store, table, links, bounds, item, slot, todo, back, history>>

\* The link takes the write; the transport keeps a copy of the envelope.
SendFrame(w) ==
    /\ pc = "sending"
    /\ ready[cursor]
    /\ w \in FreeWire(cursor)
    /\ sendQueue[cursor] # <<>>
    /\ LET k == Head(sendQueue[cursor]) IN
       /\ inFlight[k].pending # {}
       /\ wire' = [wire EXCEPT ![cursor][w] = inFlight[k].header]
    /\ sendQueue' = [sendQueue EXCEPT ![cursor] = Tail(@)]
    /\ UNCHANGED <<store, inFlight, links, runner, history>>

\* The frame cannot be serialized, or the link refuses it: it is dropped and
\* acknowledged by the runner.  (A transport without a wire, BaseTransport::send,
\* acknowledges every frame here.)  A handle whose slot is empty is skipped.
FinishFrame ==
    /\ pc = "sending"
    /\ FreeWire(cursor) # {}
    /\ sendQueue[cursor] # <<>>
    /\ sendQueue' = [sendQueue EXCEPT ![cursor] = Tail(@)]
    /\ LET h == inFlight[Head(sendQueue[cursor])].header IN
       IF Acked(cursor, h) = {}
       THEN UNCHANGED <<inFlight, pc, item, back>>
       ELSE \E k \in Slot :
            /\ First(k, Acked(cursor, h))
            /\ inFlight' = Cleared(k, cursor)
            /\ IF inFlight[k].pending = {cursor}
               THEN pc' = "release" /\ item' = h /\ back' = "sending"
               ELSE UNCHANGED <<pc, item, back>>
    /\ UNCHANGED <<store, wire, links, cursor, bounds, slot, todo, history>>

\* Nothing left to send, or no room on the wire.
EndSend ==
    /\ pc = "sending"
    /\ FreeWire(cursor) = {} \/ sendQueue[cursor] = <<>>
    /\ pc' = "send" /\ cursor' = cursor + 1
    /\ UNCHANGED <<store, table, links, bounds, item, slot, todo, back, history>>

\* Every transport had its turn; the runner waits and steps again.
EndStep ==
    /\ pc = "send"
    /\ cursor \notin Transport
    /\ pc' = "queue" /\ cursor' = 0
    /\ UNCHANGED <<store, table, links, bounds, item, slot, todo, back, history>>

(***************************************************************************)
(* The task of the link of t.                                              *)
(***************************************************************************)

\* _completeWireWrite: the slot is given back first, whatever the result was.
Complete(t, w) ==
    /\ link[t] = Idle
    /\ wire[t][w] # None
    /\ wire' = [wire EXCEPT ![t][w] = None]
    /\ link' = [link EXCEPT ![t] = [at |-> "ack", header |-> wire[t][w]]]
    /\ UNCHANGED <<store, inFlight, sendQueue, ready, flaps, runner, history>>

\* Drainer::ack: under the lock, find the frame and clear the bit of t.
Ack(t) ==
    /\ link[t].at = "ack"
    /\ LET frames == Acked(t, link[t].header) IN
       IF frames = {}
       THEN link' = [link EXCEPT ![t] = Idle] /\ UNCHANGED inFlight
       ELSE \E k \in Slot :
            /\ First(k, frames)
            /\ inFlight' = Cleared(k, t)
            /\ link' = [link EXCEPT ![t] =
                          IF inFlight[k].pending = {t}
                          THEN [@ EXCEPT !.at = "release"] ELSE Idle]
    /\ UNCHANGED <<store, sendQueue, wire, ready, flaps, runner, history>>

\* Mutants of AckRelease: the payload is released before the frame is looked up,
\* and the payload is never released.
AckReleaseEarly(t) ==
    /\ link[t].at \in {"ack", "release"}
    /\ stored' = stored \ {link[t].header}
    /\ link' = [link EXCEPT ![t] = Idle]
    /\ UNCHANGED <<fresh, inbox, table, ready, flaps, runner, history>>

AckReleaseForgotten(t) ==
    /\ link[t].at = "release"
    /\ link' = [link EXCEPT ![t] = Idle]
    /\ UNCHANGED <<store, table, ready, flaps, runner, history>>

\* Drainer::ack: release the payload, outside the lock.
AckRelease(t) ==
    /\ link[t].at = "release"
    /\ stored' = stored \ {link[t].header}
    /\ link' = [link EXCEPT ![t] = Idle]
    /\ UNCHANGED <<fresh, inbox, table, ready, flaps, runner, history>>

LinkUp(t) ==
    /\ ~ready[t]
    /\ ready' = [ready EXCEPT ![t] = TRUE]
    /\ UNCHANGED <<store, table, link, flaps, runner, history>>

LinkDown(t) ==
    /\ ready[t]
    /\ flaps < MaxFlaps
    /\ flaps' = flaps + 1
    /\ ready' = [ready EXCEPT ![t] = FALSE]
    /\ UNCHANGED <<store, table, link, runner, history>>

-----------------------------------------------------------------------------

Runner ==
    \/ DequeueLocal \/ EndQueue
    \/ Poll \/ EndPoll \/ EndReceive \/ Dispatch \/ EndDispatch
    \/ Overrun \/ Unreachable
    \/ \E targets \in SUBSET Transport : Route(targets)
    \/ Fanout \/ Release
    \/ \E w \in WireSlot : SendFrame(w)
    \/ BeginSend \/ FinishFrame \/ EndSend \/ EndStep

Link(t) ==
    \/ \E w \in WireSlot : Complete(t, w)
    \/ Ack(t) \/ AckRelease(t)

Next ==
    \/ \E h \in Local : Publish(h)
    \/ \E h \in Remote : Receive(h)
    \/ Runner
    \/ \E t \in Transport : Link(t) \/ LinkUp(t) \/ LinkDown(t)

Spec == Init /\ [][Next]_vars

\* The runner's task and the links' tasks are scheduled for ever; every write
\* completes, by an answer, a timeout or a reset; a link that went down is
\* brought up again.  Nobody has to publish, and no frame has to arrive.
Fairness ==
    /\ WF_vars(Runner)
    /\ \A t \in Transport : WF_vars(Link(t)) /\ WF_vars(LinkUp(t))

FairSpec == Spec /\ Fairness

-----------------------------------------------------------------------------
(***************************************************************************)
(* Properties.                                                             *)
(***************************************************************************)

\* The places that answer for the payload of h: an entry of a publish queue,
\* the runner, a slot of the table, or a link's task about to release it.
Owners(h) ==
    (UNION {{<<"inbox", s, i>> : i \in {j \in DOMAIN inbox[s] : inbox[s][j] = h}} :
               s \in 0 .. TransportCount})
    \cup {<<"runner", p>> : p \in {q \in {pc} : q \in {"route", "release", "blocked"} /\ item = h}}
    \cup {<<"slot", k>> : k \in {j \in Slot : /\ inFlight[j].pending # {}
                                              /\ inFlight[j].header = h}}
    \cup {<<"link", t>> : t \in {u \in Transport : /\ link[u].at = "release"
                                                   /\ link[u].header = h}}

\* A retained payload has exactly one owner, and a payload that was given back
\* has none: nothing leaks, nothing is released twice or used after its release,
\* although the runner and every link's task release concurrently.
OwnedOnce ==
    \A h \in Header :
        IF h \in stored THEN \E o \in Owners(h) : Owners(h) = {o}
                        ELSE Owners(h) = {}

\* The places where transport t still has the frame of slot k to work on.
Work(k, t) ==
    {<<"todo", p>> : p \in {q \in {slot} : q = k /\ t \in todo}}
    \cup {<<"queue", i>> : i \in {j \in DOMAIN sendQueue[t] : sendQueue[t][j] = k}}
    \cup {<<"wire", w>> : w \in {v \in WireSlot : /\ wire[t][v] # None
                                                  /\ wire[t][v] = inFlight[k].header}}
    \cup {<<"ack", h>> : h \in {g \in {link[t].header} : /\ link[t].at = "ack"
                                                        /\ g = inFlight[k].header}}

\* A pending bit stands for exactly one outstanding piece of work of its
\* transport and no work is without its bit, so that no slot waits for an
\* acknowledgement that cannot come and no handle outlives its slot.
PendingMatchesWork ==
    \A k \in Slot, t \in Transport :
        IF t \in inFlight[k].pending THEN \E o \in Work(k, t) : Work(k, t) = {o}
                                     ELSE Work(k, t) = {}

\* Every write a link works on is still awaited by a slot: Drainer::ack never
\* answers NotFound to a link.
WritesAwaited ==
    \A t \in Transport :
        /\ \A w \in WireSlot : wire[t][w] # None => Acked(t, wire[t][w]) # {}
        /\ link[t].at = "ack" => Acked(t, link[t].header) # {}

\* The queue sends of the runner have no timeout, and it is the only consumer of
\* these queues: it would wait for itself if one were full.  A send queue has room
\* for every slot.  A publish queue has room for what a poll receives, since a poll
\* leaves it empty; but when the link fails between receive and the dispatch the
\* envelopes stay in the queue, and if the arena then holds more frames than the
\* queue a later poll fills it up and the node stops.
RunnerNeverBlocks ==
    /\ pc = "fanout" => \A t \in todo : Len(sendQueue[t]) < QueueDepth
    /\ pc = "blocked" => flaps > 0 /\ IngressRecords > QueueDepth

\* The free slots counted before a transport is polled are enough for what it
\* delivers: no frame is dropped for want of a slot, unless pollInto ran past
\* its bound.
NoRejection == rejected => overrun

\* What std::unreachable() at the end of pollInto asserts: the loop over the
\* transport's envelopes never ends by reaching maxCount.
PollIntoReturns == pc # "unreachable"

\* The abstract promise: the payloads that have left the queues are routed, and
\* a header is owed to the pending transports of the slot that holds it.
Routed ==
    {h \in stored :
        /\ ~ (pc \in {"route", "blocked"} /\ item = h)
        /\ \A s \in 0 .. TransportCount : \A i \in DOMAIN inbox[s] : inbox[s][i] # h}

Owing ==
    [h \in Header |-> UNION {inFlight[k].pending : k \in {j \in Slot : inFlight[j].header = h}}]

Promise == INSTANCE Retention WITH held <- stored, routed <- Routed, owing <- Owing

ImplementsRetention == Promise!Spec

\* Every payload the node accepts is given back in the end, and again each time it
\* is accepted, unless the node stopped in undefined behaviour or blocked.
EventuallyReleased ==
    \A h \in Header : []<>(h \notin stored \/ pc \in {"halted", "blocked"})
=============================================================================
