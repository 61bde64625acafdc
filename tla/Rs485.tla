------------------------------- MODULE Rs485 -------------------------------
(***************************************************************************)
(* The point-to-point RS485 link: a master and a slave node, each with the *)
(* task that owns its UART, over a line that may lose or damage frames.    *)
(* A task step is one non-blocking action up to the next read that waits   *)
(* for an answer (_receiveSynchronousHeader); what a step does when it     *)
(* finds nothing to do is left out.  A step that returns an error ends the *)
(* task, and the registry's reap restarts it on the state it left, so an   *)
(* error is an action that changes no more than the code did before it.    *)
(*                                                                         *)
(* Time is counted in heartbeat intervals (500 ms, also the hello retry).  *)
(* An interval passes when no task has anything to do; answers that need   *)
(* longer than 50 ms and tasks that stall are faults, and faults are       *)
(* bounded.                                                                *)
(***************************************************************************)
EXTENDS Integers, Sequences, FiniteSets

CONSTANTS
    MasterWrite,      \* WriteRequests of the master's users
    MasterExchange,   \* ExchangeRequests (exchange and poll) of the master's
    SlaveWrite,       \* WriteRequests of the slave's users
    SlaveExchange,    \* ExchangeRequests of the slave's users
    None,             \* no request
    QueueSize,        \* UartNodeConfig::txQueueSize
    SeqMod,           \* values of a sequence number (256 in the code)
    MaxMissed,        \* maxMissedHeartbeats
    RxSize,           \* frames a UART's receive buffer holds
    Fault,            \* the kinds of fault that may happen
    MaxFaults         \* bound: faults of any kind

Node == {"master", "slave"}
Request == MasterWrite \cup MasterExchange \cup SlaveWrite \cup SlaveExchange
Kind == {"Data", "Request"}
FaultKind == {"lose", "header", "payload", "late", "uart", "stall", "reboot"}

ASSUME Rs485Assumption ==
    /\ IsFiniteSet(Request) /\ None \notin Request
    /\ (MasterWrite \cup MasterExchange) \cap (SlaveWrite \cup SlaveExchange) = {}
    /\ (MasterWrite \cup SlaveWrite) \cap (MasterExchange \cup SlaveExchange) = {}
    /\ QueueSize \in Nat \ {0} /\ SeqMod \in Nat \ {0, 1}
    /\ MaxMissed \in Nat \ {0} /\ RxSize \in Nat \ {0} /\ MaxFaults \in Nat
    /\ Fault \subseteq FaultKind

VARIABLES
    node,     \* the fields of a Node and of its transceiver
    rx,       \* frames on the way to a node and in its UART's buffer
    queue,    \* _txQueue and _exchangeQueue
    req,      \* what became of a request: a history of its calls
    faults    \* the faults so far: how many, and of which kinds

vars == <<node, rx, queue, req, faults>>

Peer(n) == IF n = "master" THEN "slave" ELSE "master"
Owner(r) == IF r \in MasterWrite \cup MasterExchange THEN "master" ELSE "slave"
KindOf(r) == IF r \in MasterWrite \cup SlaveWrite THEN "Data" ELSE "Request"

(***************************************************************************)
(* Frames.  Only the header has a CRC.  A frame with a payload whose       *)
(* header was read and whose payload was not leaves bytes behind that are  *)
(* no header.                                                              *)
(***************************************************************************)
FrameType == {"Nop", "Data", "Hello", "Request", "Response", "Heartbeat",
              "Ack", "Nack", "Grant"}
SeqNo == 0 .. SeqMod - 1
Frames == [type : FrameType, seq : SeqNo, to : SeqNo,
           req : Request \cup {None}, damage : {"none", "header", "payload"}]

Make(type, seq, to, r) ==
    [type |-> type, seq |-> seq, to |-> to, req |-> r, damage |-> "none"]
HasPayload(f) == f.type \in {"Data", "Request", "Response"}
Garbage == [Make("Nop", 0, 0, None) EXCEPT !.damage = "header"]
Rest(f, later) == IF HasPayload(f) THEN <<Garbage>> \o later ELSE later

(***************************************************************************)
(* The turn guard.  Both roles run through one cycle, from opposite ends.  *)
(***************************************************************************)
Turn == {"WriteRequest", "ReadReaction", "ReadRequest", "WriteReaction"}

step(t) ==
    CASE t = "WriteRequest" -> "ReadReaction"
      [] t = "ReadReaction" -> "ReadRequest"
      [] t = "ReadRequest" -> "WriteReaction"
      [] t = "WriteReaction" -> "WriteRequest"

startState(n) == IF n = "master" THEN "WriteRequest" ELSE "ReadRequest"
canRead(v) == v.turn \in {"ReadRequest", "ReadReaction"}

\* A grant passes the reaction slot too; it is only read as a request.
markRead(t, type) ==
    IF type # "Grant" THEN step(t)
    ELSE IF t = "ReadRequest" THEN step(step(t)) ELSE t

(***************************************************************************)
(* A node.                                                                 *)
(***************************************************************************)
NoWait == [for |-> "none", seq |-> 0, req |-> None]
SilenceLimit == MaxMissed + 1

NodeInit(n) ==
    [state |-> "Initial",     \* _state
     turn |-> startState(n),  \* _transceiver._turn
     seq |-> 0,               \* sequence, one counter for both directions
     hello |-> 0,             \* _lastHelloSequence
     due |-> FALSE,           \* an interval since the last hello or heartbeat
     heard |-> 0,             \* intervals since _lastHeartbeatReceivedMs
     hbSeq |-> 0,             \* _heartbeatSequence
     hbAwait |-> FALSE,       \* _heartbeatAwaitingResponse
     missed |-> 0,            \* _missedHeartbeats
     attention |-> FALSE,     \* _attentionRequested
     wait |-> NoWait]         \* the answer the task's step waits for

TypeOK ==
    /\ node \in [Node -> [state : {"Initial", "HelloSent", "Synced"}, turn : Turn,
                          seq : SeqNo, hello : SeqNo, due : BOOLEAN,
                          heard : 0 .. SilenceLimit, hbSeq : SeqNo,
                          hbAwait : BOOLEAN, missed : 0 .. MaxMissed - 1,
                          attention : BOOLEAN,
                          wait : [for : {"none", "Data", "Request", "Heartbeat",
                                         "Nop", "Grant"},
                                  seq : SeqNo, req : Request \cup {None}]]]
    /\ rx \in [Node -> Seq(Frames)]
    /\ queue \in [Node -> [Kind -> Seq(Request)]]
    /\ req \in [Request -> [at : {"new", "checked", "queued", "sent", "acked",
                                  "nacked", "gone"},
                            done : Nat, delivered : Nat]]
    /\ faults \in [count : Nat, kinds : SUBSET FaultKind]

Init ==
    /\ node = [n \in Node |-> NodeInit(n)]
    /\ rx = [n \in Node |-> <<>>]
    /\ queue = [n \in Node |-> [k \in Kind |-> <<>>]]
    /\ req = [r \in Request |-> [at |-> "new", done |-> 0, delivered |-> 0]]
    /\ faults = [count |-> 0, kinds |-> {}]

ready(n) == node[n].state = "Synced"
Idle(n) == node[n].wait.for = "none"
Queued(n) == {r \in Request : \E i \in DOMAIN queue[n][KindOf(r)] : queue[n][KindOf(r)][i] = r}
\* The attention line is asserted while the slave has queued traffic.  Node writes the
\* line after each change of its queues; here the two are one step.
Asserted == Queued("slave") # {}

MayFault(k) == k \in Fault /\ faults.count < MaxFaults
Faulted(k) == faults' = [count |-> faults.count + 1, kinds |-> faults.kinds \cup {k}]
\* Whether a write to the UART succeeds.
Written == IF MayFault("uart") THEN BOOLEAN ELSE {TRUE}
Spent(written) == IF written THEN UNCHANGED faults ELSE Faulted("uart")

\* Completion callbacks.
Completed(rs, result) ==
    [r \in Request |-> IF r \in rs
                       THEN [req[r] EXCEPT !.at = result, !.done = @ + 1] ELSE req[r]]

\* The node's fields, the frames left to it and the frames it put on the line,
\* which a full receive buffer drops.
Update(n, v, left, out) ==
    /\ node' = [node EXCEPT ![n] = v]
    /\ rx' = [rx EXCEPT ![n] = left,
                        ![Peer(n)] = IF Len(@) < RxSize THEN @ \o out ELSE @]

(***************************************************************************)
(* _resetConnection: back to the handshake, with nothing of the old        *)
(* connection left: input discarded, every queued transaction failed.      *)
(***************************************************************************)

\* The sequence counter is the one field a reset keeps.
Disconnected(n, v) == [NodeInit(n) EXCEPT !.seq = v.seq]

\* Mutant of ResetConnection: queued transactions are failed but not removed.
ResetKeepingQueue(n, v, current) ==
    /\ Update(n, Disconnected(n, v), <<>>, <<>>)
    /\ req' = Completed(Queued(n) \cup current, "nacked")
    /\ UNCHANGED queue

\* Mutant of ResetConnection: the input of the old connection is read in the next.
ResetKeepingInput(n, v, current) ==
    /\ Update(n, Disconnected(n, v), rx[n], <<>>)
    /\ queue' = [queue EXCEPT ![n] = [k \in Kind |-> <<>>]]
    /\ req' = Completed(Queued(n) \cup current, "nacked")

\* current: the transaction that failed, already taken from its queue.
ResetConnection(n, v, current) ==
    /\ Update(n, Disconnected(n, v), <<>>, <<>>)
    /\ queue' = [queue EXCEPT ![n] = [k \in Kind |-> <<>>]]
    /\ req' = Completed(Queued(n) \cup current, "nacked")

\* _deferHeartbeat.
Deferred(v) == [v EXCEPT !.due = FALSE, !.heard = 0, !.hbAwait = FALSE,
                         !.hbSeq = 0, !.missed = 0]

\* sendFrame once the turn guard let it pass: turn and sequence advance even if
\* the UART fails.
Advanced(v) == [v EXCEPT !.turn = step(@), !.seq = (@ + 1) % SeqMod]
Out(written, f) == IF written THEN <<f>> ELSE <<>>

(***************************************************************************)
(* Users of the link, on their own tasks.  send, exchange and poll check   *)
(* ready() and then enqueue: the connection may be reset in between.  A    *)
(* full queue blocks the caller.                                           *)
(***************************************************************************)
Check(r) ==
    /\ req[r].at = "new" /\ ready(Owner(r))
    /\ req' = [req EXCEPT ![r].at = "checked"]
    /\ UNCHANGED <<node, rx, queue, faults>>

\* The edge of the attention line wakes the master's ISR.
Enqueue(r) ==
    LET n == Owner(r)
        edge == n = "slave" /\ ~ Asserted /\ ready("master")
    IN  /\ req[r].at = "checked" /\ Len(queue[n][KindOf(r)]) < QueueSize
        /\ queue' = [queue EXCEPT ![n][KindOf(r)] = Append(@, r)]
        /\ req' = [req EXCEPT ![r].at = "queued"]
        /\ node' = [node EXCEPT !["master"].attention = @ \/ edge]
        /\ UNCHANGED <<rx, faults>>

(***************************************************************************)
(* The handshake.                                                          *)
(***************************************************************************)

\* The master's first hello, and its retries after every silent interval.
Hello ==
    LET v == node["master"]
        u == IF v.state = "Initial" THEN [v EXCEPT !.seq = 0]
             ELSE [v EXCEPT !.turn = startState("master")]
    IN  /\ Idle("master")
        /\ \/ v.state = "Initial" /\ v.turn = "WriteRequest"
           \/ v.state = "HelloSent" /\ v.due /\ ~ (canRead(v) /\ rx["master"] # <<>>)
        /\ \E written \in Written :
              /\ Spent(written)
              /\ Update("master",
                        IF written
                        THEN [Advanced(u) EXCEPT !.hello = u.seq, !.due = FALSE,
                                                 !.state = "HelloSent"]
                        ELSE Advanced(u),
                        rx["master"], Out(written, Make("Hello", u.seq, 0, None)))
        /\ UNCHANGED <<queue, req>>

(***************************************************************************)
(* Frames read by polling, or read as the first frame after a grant.       *)
(***************************************************************************)
Polls(n) == node[n].state # "Initial" \/ n = "slave"
Incoming(n) ==
    /\ node[n].wait.for = "Grant" \/ (Idle(n) /\ Polls(n))
    /\ canRead(node[n]) /\ rx[n] # <<>>

\* The node once the header f was read and its sequence number accepted.
Taken(n, f) ==
    [node[n] EXCEPT !.turn = markRead(@, f.type), !.wait = NoWait,
                    !.seq = IF f.type = "Hello" THEN @ ELSE (@ + 1) % SeqMod]

\* Mutant of TurnReset: the node takes the turn instead of giving it back.
TurnTaken(n) == [node[n] EXCEPT !.turn = "WriteRequest", !.wait = NoWait]

TurnReset(n) == [node[n] EXCEPT !.turn = startState(n), !.wait = NoWait]

\* No header: it is damaged, or a grant outside the request slot.
Unreadable(n) ==
    LET f == Head(rx[n]) IN
    f.damage = "header" \/ (f.type = "Grant" /\ node[n].turn = "ReadReaction")

\* f is an intact frame that a ready node takes up, in turn and in sequence.
Dispatched(n, f) ==
    /\ Incoming(n) /\ f = Head(rx[n]) /\ ~ Unreadable(n)
    /\ ready(n) /\ f.seq = node[n].seq

\* A reaction is only written in the reaction slot; elsewhere the step fails.
React(n, v, left, f, type) ==
    LET r == IF type = "Response" THEN f.req ELSE None IN
    IF v.turn # "WriteReaction"
    THEN Update(n, v, left, <<>>) /\ UNCHANGED faults
    ELSE \E written \in Written :
            /\ Spent(written)
            /\ Update(n, Advanced(v), left, Out(written, Make(type, v.seq, f.seq, r)))

\* A polled frame that gives no header resets the connection, but a grant that
\* was not in turn leaves a handshake alone; after a grant only the turn is lost.
ReceiveUnreadable(n) ==
    /\ Incoming(n) /\ Unreadable(n)
    /\ IF Idle(n) /\ (ready(n) \/ Head(rx[n]).damage = "header")
       THEN ResetConnection(n, node[n], {})
       ELSE /\ Update(n, TurnReset(n), Rest(Head(rx[n]), Tail(rx[n])), <<>>)
            /\ UNCHANGED <<queue, req>>
    /\ UNCHANGED faults

\* While handshaking everything but a hello is stale and discarded.
ReceiveStale(n) ==
    /\ Incoming(n) /\ ~ Unreadable(n)
    /\ ~ ready(n) /\ Head(rx[n]).type # "Hello"
    /\ Update(n, TurnReset(n), <<>>, <<>>)
    /\ UNCHANGED <<queue, req, faults>>

\* A sequence number other than the expected one resets the link.
ReceiveOutOfSequence(n) ==
    /\ Incoming(n) /\ ready(n) /\ ~ Unreadable(n)
    /\ Head(rx[n]).type # "Hello" /\ Head(rx[n]).seq # node[n].seq
    /\ ResetConnection(n, node[n], {})
    /\ UNCHANGED faults

\* Master::_onHello: only the answer to the last hello completes the handshake.
MasterOnHello ==
    /\ Incoming("master") /\ Head(rx["master"]).damage # "header"
    /\ Head(rx["master"]).type = "Hello"
    /\ LET f == Head(rx["master"])
           v == Taken("master", f)
       IN  Update("master",
                  IF f.to # v.hello THEN v
                  ELSE [Deferred(v) EXCEPT !.seq = (f.seq + 1) % SeqMod,
                                           !.state = "Synced"],
                  Tail(rx["master"]), <<>>)
    /\ UNCHANGED <<queue, req, faults>>

\* Slave::_onHello: any hello, in any state, starts a connection.
SlaveOnHello ==
    /\ Incoming("slave") /\ Head(rx["slave"]).damage # "header"
    /\ Head(rx["slave"]).type = "Hello"
    /\ LET f == Head(rx["slave"])
           v == [Taken("slave", f) EXCEPT !.seq = (f.seq + 1) % SeqMod]
       IN  IF v.turn # "WriteReaction"
           THEN Update("slave", v, Tail(rx["slave"]), <<>>) /\ UNCHANGED faults
           ELSE \E written \in Written :
                  /\ Spent(written)
                  /\ Update("slave",
                            IF written
                            THEN [Deferred(Advanced(v)) EXCEPT !.hello = v.seq,
                                                               !.state = "Synced"]
                            ELSE Advanced(v),
                            Tail(rx["slave"]),
                            Out(written, Make("Hello", v.seq, f.seq, None)))
    /\ UNCHANGED <<queue, req>>

\* _receiveNop: an answer (responseTo # 0) needs no reaction.
ReceiveNop(n) ==
    LET f == Head(rx[n]) IN
        /\ Dispatched(n, f) /\ f.type = "Nop"
        /\ IF f.to # 0
           THEN Update(n, Taken(n, f), Tail(rx[n]), <<>>) /\ UNCHANGED faults
           ELSE React(n, Taken(n, f), Tail(rx[n]), f, "Nop")
        /\ UNCHANGED <<queue, req>>

\* A grant asks for nothing but the turn.  An ack, nack or response nobody waits
\* for fails the step.
ReceiveWithoutReaction(n) ==
    LET f == Head(rx[n]) IN
        /\ Dispatched(n, f) /\ f.type \in {"Grant", "Ack", "Nack", "Response"}
        /\ Update(n, Taken(n, f), Rest(f, Tail(rx[n])), <<>>)
        /\ UNCHANGED <<queue, req, faults>>

\* _receiveHeartbeat, reached by polling: an answer is only expected by a
\* master that still waits for that heartbeat.
ReceiveHeartbeat(n) ==
    LET f == Head(rx[n]) IN
        /\ Dispatched(n, f) /\ f.type = "Heartbeat"
        /\ LET v == Taken(n, f)
               late == n = "master" /\ v.hbAwait /\ f.to = v.hbSeq
               heard == [v EXCEPT !.heard = 0]
           IN  IF f.to # 0
               THEN /\ Update(n, IF late THEN [heard EXCEPT !.hbAwait = FALSE, !.missed = 0]
                                 ELSE v,
                              Tail(rx[n]), <<>>)
                    /\ UNCHANGED faults
               ELSE IF n = "slave" THEN React(n, heard, Tail(rx[n]), f, "Heartbeat")
               ELSE Update(n, heard, Tail(rx[n]), <<>>) /\ UNCHANGED faults
        /\ UNCHANGED <<queue, req>>

\* _receiveData and _receiveRequest: the handler accepts the payload or not (or
\* there is none), and the reaction says which.
ReceiveTransaction(n) ==
    LET f == Head(rx[n]) IN
        /\ Dispatched(n, f) /\ f.type \in {"Data", "Request"}
        /\ IF f.damage = "payload"
           THEN ResetConnection(n, Taken(n, f), {}) /\ UNCHANGED faults
           ELSE \E accepted \in BOOLEAN :
                  /\ React(n, Taken(n, f), Tail(rx[n]), f,
                           IF ~ accepted THEN "Nack"
                           ELSE IF f.type = "Data" THEN "Ack" ELSE "Response")
                  /\ req' = IF accepted THEN [req EXCEPT ![f.req].delivered = @ + 1] ELSE req
                  /\ UNCHANGED queue

\* Polling outside a read slot while handshaking resets the turn.
PollOutOfTurn(n) ==
    /\ Idle(n) /\ Polls(n) /\ ~ ready(n) /\ ~ canRead(node[n])
    /\ node[n].turn # startState(n)
    /\ node' = [node EXCEPT ![n] = TurnReset(n)]
    /\ UNCHANGED <<rx, queue, req, faults>>

(***************************************************************************)
(* A ready node in its request slot: heartbeat, then one transaction, then *)
(* the turn is passed on.                                                  *)
(***************************************************************************)
Writes(n) == Idle(n) /\ ready(n) /\ node[n].turn = "WriteRequest"
HeartbeatDue(n) == IF n = "master" THEN node[n].due ELSE node[n].heard >= SilenceLimit
Head1(n) == queue[n]["Data"] \o queue[n]["Request"]
Free(n) == Writes(n) /\ ~ HeartbeatDue(n)

\* The node waits for the answer to the frame it sent as v.
Waiting(v, for, r) == [Advanced(v) EXCEPT !.wait = [for |-> for, seq |-> v.seq, req |-> r]]

\* Mutant of HeartbeatStep: a missed heartbeat is not counted.
HeartbeatUncounted ==
    LET v == node["master"] IN
    /\ Writes("master") /\ HeartbeatDue("master")
    /\ Update("master", [Waiting(v, "Heartbeat", None) EXCEPT !.hbSeq = v.seq, !.due = FALSE],
              rx["master"], <<Make("Heartbeat", v.seq, 0, None)>>)
    /\ UNCHANGED <<queue, req, faults>>

\* Mutant of HeartbeatLost: one heartbeat too many may be missed.
HeartbeatLostLate(v) == v.missed > MaxMissed

HeartbeatLost(v) == v.missed >= MaxMissed

\* The master counts the last heartbeat as missed, and sends the next one.
HeartbeatStep ==
    LET v == [node["master"] EXCEPT !.missed = IF node["master"].hbAwait THEN @ + 1 ELSE @]
    IN  /\ Writes("master") /\ HeartbeatDue("master")
        /\ IF HeartbeatLost(v)
           THEN ResetConnection("master", v, {}) /\ UNCHANGED faults
           ELSE /\ \E written \in Written :
                     /\ Spent(written)
                     /\ Update("master",
                               IF written
                               THEN [Waiting(v, "Heartbeat", None)
                                       EXCEPT !.hbSeq = v.seq, !.due = FALSE]
                               ELSE Advanced(v),
                               rx["master"], Out(written, Make("Heartbeat", v.seq, 0, None)))
                /\ UNCHANGED <<queue, req>>

\* The slave resets when it heard no heartbeat for too long.
SilenceStep ==
    /\ Writes("slave") /\ HeartbeatDue("slave")
    /\ ResetConnection("slave", node["slave"], {})
    /\ UNCHANGED faults

\* _processOneSend, _processOneExchange: writes go first.  A write the UART
\* refuses fails the transaction, and for some errors the connection.
ProcessOne(n) ==
    LET r == Head(Head1(n))
        v == node[n]
    IN  /\ Free(n) /\ Head1(n) # <<>>
        /\ \/ /\ Update(n, Waiting(v, KindOf(r), r), rx[n],
                        <<Make(KindOf(r), v.seq, 0, r)>>)
              /\ queue' = [queue EXCEPT ![n][KindOf(r)] = Tail(@)]
              /\ req' = [req EXCEPT ![r].at = "sent"]
              /\ UNCHANGED faults
           \/ /\ MayFault("uart") /\ Faulted("uart")
              /\ ResetConnection(n, Advanced(v), {r})
           \/ /\ MayFault("uart") /\ Faulted("uart")
              /\ Update(n, Advanced(v), rx[n], <<>>)
              /\ queue' = [queue EXCEPT ![n][KindOf(r)] = Tail(@)]
              /\ req' = Completed({r}, "nacked")

\* The master passes the turn when the attention line asks for it.
SendTurnGrant ==
    LET v == [node["master"] EXCEPT !.attention = FALSE]
        granted == [Advanced(v) EXCEPT !.turn = step(@)]
    IN  /\ Free("master") /\ Head1("master") = <<>>
        /\ node["master"].attention \/ Asserted
        /\ \E written \in Written :
              /\ Spent(written)
              /\ Update("master",
                        IF written
                        THEN [granted EXCEPT !.wait = [for |-> "Grant", seq |-> v.seq, req |-> None]]
                        ELSE granted,
                        rx["master"], Out(written, Make("Grant", v.seq, 0, None)))
        /\ UNCHANGED <<queue, req>>

\* The slave returns a turn it does not use.
SendNopExchange ==
    LET v == node["slave"] IN
    /\ Free("slave") /\ Head1("slave") = <<>>
    /\ \E written \in Written :
          /\ Spent(written)
          /\ Update("slave", IF written THEN Waiting(v, "Nop", None) ELSE Advanced(v),
                    rx["slave"], Out(written, Make("Nop", v.seq, 0, None)))
    /\ UNCHANGED <<queue, req>>

(***************************************************************************)
(* The answer a step waits for.                                            *)
(***************************************************************************)
Transaction(n) == node[n].wait.for \in {"Data", "Request"}
LinkControl(n) == node[n].wait.for \in {"Heartbeat", "Nop"}

\* The header was read: the turn moves on unless it was damaged or a grant, and
\* the counter unless it was out of sequence.
Answered(n, f) ==
    LET v == node[n]
        read == f.damage # "header" /\ f.type # "Grant"
    IN  [v EXCEPT !.wait = NoWait, !.turn = IF read THEN step(@) ELSE @,
                  !.seq = IF read /\ f.seq = v.seq THEN (@ + 1) % SeqMod ELSE @]

\* An intact header, in sequence, that answers the frame the node sent.
Correlated(n, f) ==
    /\ f.damage # "header" /\ f.seq = node[n].seq
    /\ f.to = node[n].wait.seq

\* The answer that ends a transaction with the peer's verdict.
Verdict(n, f) ==
    /\ Correlated(n, f)
    /\ \/ f.type = "Nack"
       \/ f.type = "Ack" /\ node[n].wait.for = "Data"
       \/ f.type = "Response" /\ node[n].wait.for = "Request" /\ f.damage = "none"

Outcome(f) == IF f.type = "Nack" THEN "nacked" ELSE "acked"

TransactionAnswered(n) ==
    LET f == Head(rx[n]) IN
    /\ Transaction(n) /\ rx[n] # <<>> /\ Verdict(n, f)
    /\ Update(n, Answered(n, f), Tail(rx[n]), <<>>)
    /\ req' = Completed({node[n].wait.req}, Outcome(f))
    /\ UNCHANGED <<queue, faults>>

\* _failWrite, _failExchange: every other answer resets the connection.
TransactionFails(n) ==
    LET f == Head(rx[n]) IN
    /\ Transaction(n) /\ rx[n] # <<>> /\ ~ Verdict(n, f)
    /\ ResetConnection(n, Answered(n, f), {node[n].wait.req})
    /\ UNCHANGED faults

\* A heartbeat or a nop only loses the turn when its answer is not the expected one.
LinkAnswered(n) ==
    LET f == Head(rx[n])
        v == Answered(n, f)
        for == node[n].wait.for
        good == Correlated(n, f) /\ f.type = for
    IN  /\ LinkControl(n) /\ rx[n] # <<>>
        /\ Update(n,
                  IF good
                  THEN IF for = "Nop" THEN v
                       ELSE [v EXCEPT !.hbAwait = FALSE, !.missed = 0, !.heard = 0]
                  ELSE [v EXCEPT !.turn = startState(n),
                                 !.hbAwait = IF for = "Nop" THEN @ ELSE TRUE],
                  IF good THEN Tail(rx[n]) ELSE Rest(f, Tail(rx[n])), <<>>)
        /\ UNCHANGED <<queue, req, faults>>

\* The task of n, between two steps, has something to do.
Busy(n) ==
    \/ Incoming(n)
    \/ n = "master" /\ node[n].state = "Initial" /\ node[n].turn = "WriteRequest"
    \/ n = "master" /\ node[n].state = "HelloSent" /\ node[n].due
    \/ Polls(n) /\ ~ ready(n) /\ ~ canRead(node[n]) /\ node[n].turn # startState(n)
    \/ Writes(n) /\ (n = "slave" \/ HeartbeatDue(n) \/ Head1(n) # <<>>)

Active(n) == IF Idle(n) THEN Busy(n) ELSE rx[n] # <<>>

\* No header within transactionResponseTimeoutMs.  It is a fault when the peer
\* was about to answer.
ResponseTimeout(n) ==
    /\ ~ Idle(n) /\ rx[n] = <<>>
    /\ IF Active(Peer(n)) THEN MayFault("late") /\ Faulted("late") ELSE UNCHANGED faults
    /\ IF Transaction(n)
       THEN ResetConnection(n, node[n], {node[n].wait.req})
       ELSE /\ node' = [node EXCEPT ![n] =
                          [TurnReset(n) EXCEPT !.hbAwait =
                              IF node[n].wait.for = "Heartbeat" THEN TRUE ELSE @]]
            /\ UNCHANGED <<rx, queue, req>>

(***************************************************************************)
(* Time and faults.                                                        *)
(***************************************************************************)

Older(by) ==
    node' = [n \in Node |->
               [node[n] EXCEPT
                  !.due = @ \/ (n = "master" /\ node[n].state # "Initial"),
                  !.heard = IF ready(n) THEN IF @ + by > SilenceLimit THEN SilenceLimit ELSE @ + by
                            ELSE @]]

\* An interval passes.
Tick ==
    /\ \A n \in Node : Idle(n) /\ ~ Busy(n)
    /\ Older(1)
    /\ UNCHANGED <<rx, queue, req, faults>>

\* A task does not run for several intervals.
Stall ==
    /\ MayFault("stall") /\ Faulted("stall")
    /\ Older(SilenceLimit)
    /\ UNCHANGED <<rx, queue, req>>

\* A frame is lost before its last byte arrives.
Lose(n) ==
    /\ MayFault("lose") /\ Faulted("lose") /\ rx[n] # <<>>
    /\ rx' = [rx EXCEPT ![n] = SubSeq(@, 1, Len(@) - 1)]
    /\ UNCHANGED <<node, queue, req>>

\* A frame's header, or its payload, is damaged.
Damage(n, part) ==
    /\ MayFault(part) /\ Faulted(part) /\ rx[n] # <<>>
    /\ LET f == rx[n][Len(rx[n])] IN
         /\ f.damage = "none" /\ (part = "payload" => HasPayload(f))
    /\ rx' = [rx EXCEPT ![n][Len(rx[n])].damage = part]
    /\ UNCHANGED <<node, queue, req>>

\* A node restarts; its requests are gone with it.
Reboot(n) ==
    /\ MayFault("reboot") /\ Faulted("reboot")
    /\ node' = [node EXCEPT ![n] = NodeInit(n)]
    /\ rx' = [rx EXCEPT ![n] = <<>>]
    /\ queue' = [queue EXCEPT ![n] = [k \in Kind |-> <<>>]]
    /\ req' = [r \in Request |->
                 IF Owner(r) = n /\ req[r].at \in {"checked", "queued", "sent"}
                 THEN [req[r] EXCEPT !.at = "gone"] ELSE req[r]]

(***************************************************************************)
(* The specification.                                                      *)
(***************************************************************************)
Receive(n) ==
    \/ ReceiveUnreadable(n) \/ ReceiveStale(n) \/ ReceiveOutOfSequence(n)
    \/ ReceiveNop(n) \/ ReceiveWithoutReaction(n) \/ ReceiveHeartbeat(n)
    \/ ReceiveTransaction(n) \/ PollOutOfTurn(n)

Await(n) == TransactionAnswered(n) \/ TransactionFails(n) \/ LinkAnswered(n) \/ ResponseTimeout(n)

TaskStep(n) ==
    \/ Receive(n) \/ ProcessOne(n) \/ Await(n)
    \/ n = "master" /\ (Hello \/ MasterOnHello \/ HeartbeatStep \/ SendTurnGrant)
    \/ n = "slave" /\ (SlaveOnHello \/ SilenceStep \/ SendNopExchange)

Environment ==
    \/ Stall
    \/ \E n \in Node : Lose(n) \/ Reboot(n)
    \/ \E n \in Node, part \in {"header", "payload"} : Damage(n, part)

Next ==
    \/ \E r \in Request : Check(r) \/ Enqueue(r)
    \/ \E n \in Node : TaskStep(n)
    \/ Tick \/ Environment

\* Tasks run, a user that checked enqueues, and time passes.
Fairness ==
    /\ \A n \in Node : WF_vars(TaskStep(n))
    /\ \A r \in Request : WF_vars(Enqueue(r))
    /\ SF_vars(Tick)

Spec == Init /\ [][Next]_vars
FairSpec == Spec /\ Fairness

(***************************************************************************)
(* Properties.                                                             *)
(***************************************************************************)

\* A request is completed by exactly one call of its callbacks: by the peer's
\* verdict, by the failure of its own transaction or by a reset that empties
\* the queues, whichever comes first (_processOneSend, _failPendingTransactions).
CompletedOnce ==
    \A r \in Request : req[r].done = IF req[r].at \in {"acked", "nacked"} THEN 1 ELSE 0

\* The peer's handler takes a request at most once, and none that was not sent.
TakenOnce ==
    \A r \in Request : /\ req[r].delivered <= 1
                       /\ req[r].at \in {"new", "checked", "queued"} => req[r].delivered = 0

\* No more requests of a node are acked than its peer has taken, exchanges and
\* writes apart: an ack is never made up and never counts twice.
Acked(n, k) == {r \in Request : Owner(r) = n /\ KindOf(r) = k /\ req[r].at = "acked"}
Handled(n, k) == {r \in Request : Owner(r) = n /\ KindOf(r) = k /\ req[r].delivered > 0}
AcksEarned ==
    \A n \in Node, k \in Kind : Cardinality(Acked(n, k)) <= Cardinality(Handled(n, k))

\* An ack means that the peer's handler took this very request, once: answers
\* are matched with the frame they answer by two sequence numbers only, and no
\* answer to an earlier request, or of an earlier connection, completes a later
\* one of its kind.  That is so however many frames and payloads are lost and
\* writes refused, and with up to two faults of any kind.  With more than two, of
\* which one is a damaged header, a late answer, a stall or a restart, a stale ack
\* may pass, and what is left is TakenOnce and AcksEarned.
AckedMeansDelivered ==
    /\ TakenOnce /\ AcksEarned
    /\ \A r \in Request : req[r].at = "acked" =>
          \/ req[r].delivered = 1
          \/ faults.kinds \cap {"header", "late", "stall", "reboot"} # {} /\ faults.count > 2

\* The two turn machines never let both nodes start a frame at the same time,
\* whatever was lost, unless a header was damaged or an answer came late: then
\* the waiting side takes the turn back while the other one still holds it.  A
\* stall or a restart alone does no harm; with another fault a hello of before
\* can be taken for the one that was sent after it.
NoCollision ==
    (\A n \in Node : Writes(n)) =>
        \/ faults.kinds \cap {"header", "late"} # {}
        \/ faults.kinds \cap {"stall", "reboot"} # {} /\ faults.count > 1

Alive == \A n \in Node : ready(n) /\ node[n].heard = 0

\* The states a node never leaves by itself: a master that is synced and waits
\* for a frame of the slave, a slave that is synced and owes a reaction to a
\* frame it rejected, a master whose first hello the UART refused.
Stuck ==
    \/ ready("master") /\ Idle("master") /\ node["master"].turn # "WriteRequest"
    \/ ready("slave") /\ Idle("slave") /\ node["slave"].turn = "WriteReaction"
    \/ node["master"].state = "Initial" /\ node["master"].turn # "WriteRequest"

\* A late answer, or a reboot, may also leave the handshake retrying for ever:
\* see Hello and ReceiveStale.
Orderly == faults.kinds \cap {"late", "reboot"} = {}

\* No request waits in a queue or for an answer.
Settled == \A r \in Request : req[r].at \notin {"queued", "sent"}

\* After frames or payloads were lost, headers damaged, writes refused or tasks
\* stalled (but no late answer and no restart), the link comes back by itself and
\* stays alive, or ends in one of the stuck states: resets, retried hellos and
\* restarted task steps never chase each other for ever.  And whatever was queued
\* is completed, or its node is gone or stuck.
Recovers == []Orderly =>
    /\ []<>Alive \/ <>[]Stuck
    /\ []<>(Settled \/ Stuck)
=============================================================================
