----------------------------- MODULE Rs485Proofs -----------------------------
(***************************************************************************)
(* Proofs about Rs485, for any requests, queue sizes, sequence numbers,    *)
(* buffers and faults: types, that every request is completed once, and    *)
(* what an ack is worth when any number of faults happened.  Last, that    *)
(* losses alone never make the turn machines collide, nor an ack untrue.   *)
(*                                                                         *)
(* CompletedOnce is not inductive: nothing in it says that a request taken *)
(* from a queue, or failed by a reset, has not been completed before.      *)
(* Work adds where an open request is: in a queue of its owner, once and   *)
(* marked "queued", or in the one answer its owner waits for, marked       *)
(* "sent".  A reset completes exactly those, and the two nodes never share *)
(* a request.                                                              *)
(***************************************************************************)
EXTENDS Rs485, FiniteSetTheorems, TLAPS

(***************************************************************************)
(* The inductive invariant.                                                *)
(***************************************************************************)
NodeType == [state : {"Initial", "HelloSent", "Synced"}, turn : Turn,
             seq : SeqNo, hello : SeqNo, due : BOOLEAN,
             heard : 0 .. SilenceLimit, hbSeq : SeqNo,
             hbAwait : BOOLEAN, missed : 0 .. MaxMissed - 1,
             attention : BOOLEAN,
             wait : [for : {"none", "Data", "Request", "Heartbeat", "Nop", "Grant"},
                     seq : SeqNo, req : Request \cup {None}]]

ReqType == [at : {"new", "checked", "queued", "sent", "acked", "nacked", "gone"},
            done : Nat, delivered : Nat]

\* A queue holds open requests of its node and kind, each once.
QueueInv ==
    \A n \in Node, k \in Kind :
        /\ \A i \in DOMAIN queue[n][k] :
              LET r == queue[n][k][i] IN
              Owner(r) = n /\ KindOf(r) = k /\ req[r].at = "queued"
        /\ \A i, j \in DOMAIN queue[n][k] : queue[n][k][i] = queue[n][k][j] => i = j

\* The request a node waits for is its own and open.
WaitInv ==
    \A n \in Node : Transaction(n) =>
        /\ node[n].wait.req \in Request
        /\ Owner(node[n].wait.req) = n /\ KindOf(node[n].wait.req) = node[n].wait.for
        /\ req[node[n].wait.req].at = "sent"

Work == QueueInv /\ WaitInv /\ CompletedOnce

IInv == TypeOK /\ Work

(***************************************************************************)
(* Types: the values a node's fields are updated with.                     *)
(***************************************************************************)
LEMMA Numbers ==
    /\ 0 \in SeqNo /\ \A s \in SeqNo : (s + 1) % SeqMod \in SeqNo
    /\ 0 \in 0 .. SilenceLimit /\ 0 \in 0 .. MaxMissed - 1
    /\ SilenceLimit \in 0 .. SilenceLimit /\ SilenceLimit \in Nat
BY Rs485Assumption DEF SeqNo, SilenceLimit

LEMMA Turns ==
    /\ \A t \in Turn : step(t) \in Turn
    /\ \A t \in Turn, type \in FrameType : markRead(t, type) \in Turn
    /\ \A n \in Node : startState(n) \in Turn
<1>1. \A t \in Turn : step(t) \in Turn
  BY DEF Turn, step
<1>2. \A n \in Node : startState(n) \in Turn
  BY DEF Turn, startState
<1>. QED
  BY <1>1, <1>2 DEF markRead

LEMMA Peers == \A n \in Node : Peer(n) \in Node /\ Peer(n) # n
BY DEF Node, Peer

LEMMA Typed ==
    TypeOK <=> /\ node \in [Node -> NodeType] /\ rx \in [Node -> Seq(Frames)]
               /\ queue \in [Node -> [Kind -> Seq(Request)]]
               /\ req \in [Request -> ReqType]
               /\ faults \in [count : Nat, kinds : SUBSET FaultKind]
BY DEF TypeOK, NodeType, ReqType

LEMMA NoWaitType ==
    /\ NoWait \in [for : {"none", "Data", "Request", "Heartbeat", "Nop", "Grant"},
                   seq : SeqNo, req : Request \cup {None}]
    /\ NoWait.for = "none"
BY Numbers DEF NoWait

LEMMA NodeInitType ==
    ASSUME NEW n \in Node
    PROVE  NodeInit(n) \in NodeType /\ NodeInit(n).wait = NoWait
BY Numbers, Turns, NoWaitType DEF NodeInit, NodeType

LEMMA DisconnectedType ==
    ASSUME NEW n \in Node, NEW v \in NodeType
    PROVE  Disconnected(n, v) \in NodeType /\ Disconnected(n, v).wait = NoWait
BY NodeInitType DEF Disconnected, NodeType

LEMMA AdvancedType ==
    ASSUME NEW v \in NodeType
    PROVE  /\ Advanced(v) \in NodeType /\ Advanced(v).wait = v.wait
           /\ Advanced(v).turn = step(v.turn)
BY Numbers, Turns DEF Advanced, NodeType

LEMMA DeferredType ==
    ASSUME NEW v \in NodeType
    PROVE  Deferred(v) \in NodeType /\ Deferred(v).wait = v.wait
BY Numbers DEF Deferred, NodeType

LEMMA TakenType ==
    ASSUME TypeOK, NEW n \in Node, NEW f \in Frames
    PROVE  Taken(n, f) \in NodeType /\ Taken(n, f).wait = NoWait
<1>1. node[n] \in NodeType
  BY Typed
<1>2. f.type \in FrameType
  BY DEF Frames
<1>3. node[n].turn \in Turn
  BY <1>1 DEF NodeType
<1>4. markRead(node[n].turn, f.type) \in Turn
  BY <1>2, <1>3, Turns
<1>. QED
  BY <1>1, <1>4, Numbers, NoWaitType DEF Taken, NodeType

LEMMA TurnResetType ==
    ASSUME TypeOK, NEW n \in Node
    PROVE  TurnReset(n) \in NodeType /\ TurnReset(n).wait = NoWait
<1>1. node[n] \in NodeType
  BY Typed
<1>. QED
  BY <1>1, Turns, NoWaitType DEF TurnReset, NodeType

LEMMA WaitingType ==
    ASSUME NEW v \in NodeType, NEW r \in Request \cup {None},
           NEW for \in {"Data", "Request", "Heartbeat", "Nop", "Grant"}
    PROVE  /\ Waiting(v, for, r) \in NodeType
           /\ Waiting(v, for, r).wait = [for |-> for, seq |-> v.seq, req |-> r]
BY AdvancedType DEF Waiting, NodeType

LEMMA WaitingControl ==
    ASSUME NEW v \in NodeType, NEW for \in {"Heartbeat", "Nop"}
    PROVE  /\ Waiting(v, for, None) \in NodeType
           /\ Waiting(v, for, None).wait.for = for
<1>1. for \in {"Data", "Request", "Heartbeat", "Nop", "Grant"} /\ None \in Request \cup {None}
  OBVIOUS
<1>2. /\ Waiting(v, for, None) \in NodeType
      /\ Waiting(v, for, None).wait = [for |-> for, seq |-> v.seq, req |-> None]
  BY <1>1, WaitingType
<1>. QED
  BY <1>2

LEMMA AnsweredType ==
    ASSUME TypeOK, NEW n \in Node, NEW f \in Frames
    PROVE  Answered(n, f) \in NodeType /\ Answered(n, f).wait = NoWait
<1>1. node[n] \in NodeType
  BY Typed
<1>. QED
  BY <1>1, Numbers, Turns, NoWaitType DEF Answered, NodeType

(***************************************************************************)
(* Frames on the line.                                                     *)
(***************************************************************************)
LEMMA MakeType ==
    ASSUME NEW type \in FrameType, NEW seq \in SeqNo, NEW to \in SeqNo,
           NEW r \in Request \cup {None}
    PROVE  Make(type, seq, to, r) \in Frames
BY DEF Make, Frames

LEMMA RestType ==
    ASSUME NEW f, NEW later \in Seq(Frames)
    PROVE  Rest(f, later) \in Seq(Frames)
<1>1. [Make("Nop", 0, 0, None) EXCEPT !.damage = "header"] \in Frames
  BY Numbers DEF Make, Frames, FrameType
<1>2. Garbage \in Frames
  BY <1>1 DEF Garbage
<1>. QED
  BY <1>2 DEF Rest

LEMMA OutType ==
    ASSUME NEW written \in BOOLEAN, NEW f \in Frames
    PROVE  Out(written, f) \in Seq(Frames)
BY DEF Out

LEMMA Arrived ==
    ASSUME TypeOK, NEW n \in Node, rx[n] # <<>>
    PROVE  Head(rx[n]) \in Frames /\ Tail(rx[n]) \in Seq(Frames)
<1>1. rx[n] \in Seq(Frames)
  BY Typed
<1>. QED
  BY <1>1

LEMMA UpdateType ==
    ASSUME TypeOK, NEW n \in Node, NEW v \in NodeType, NEW left \in Seq(Frames),
           NEW out \in Seq(Frames), Update(n, v, left, out)
    PROVE  /\ node' \in [Node -> NodeType] /\ rx' \in [Node -> Seq(Frames)]
           /\ node'[n] = v /\ \A m \in Node \ {n} : node'[m] = node[m]
<1>1. node \in [Node -> NodeType] /\ rx \in [Node -> Seq(Frames)]
  BY Typed
<1>2. rx' \in [Node -> Seq(Frames)]
  <2>1. rx[Peer(n)] \o out \in Seq(Frames) /\ rx[Peer(n)] \in Seq(Frames)
    BY <1>1, Peers
  <2>2. rx' = [rx EXCEPT ![n] = left, ![Peer(n)] = IF Len(@) < RxSize THEN @ \o out ELSE @]
    BY DEF Update
  <2>. QED
    BY <1>1, <2>1, <2>2, Peers
<1>. QED
  BY <1>1, <1>2 DEF Update

LEMMA FaultedType ==
    ASSUME TypeOK, NEW k \in FaultKind
    PROVE  Faulted(k) => faults' \in [count : Nat, kinds : SUBSET FaultKind]
BY Typed DEF Faulted

LEMMA WrittenType ==
    ASSUME TypeOK, NEW written \in Written, Spent(written)
    PROVE  written \in BOOLEAN /\ faults' \in [count : Nat, kinds : SUBSET FaultKind]
<1>1. "uart" \in FaultKind
  BY DEF FaultKind
<1>. QED
  BY <1>1, FaultedType, Typed DEF Written, Spent

(***************************************************************************)
(* Requests.                                                               *)
(***************************************************************************)
LEMMA Kinds == \A r \in Request : Owner(r) \in Node /\ KindOf(r) \in Kind
BY DEF Owner, KindOf, Node, Kind

LEMMA CompletedIs ==
    ASSUME TypeOK, NEW rs, NEW result \in {"acked", "nacked"},
           req' = Completed(rs, result)
    PROVE  /\ req' \in [Request -> ReqType]
           /\ \A r \in Request : r \notin rs => req'[r] = req[r]
           /\ \A r \in Request : r \in rs => /\ req'[r].at = result
                                             /\ req'[r].done = req[r].done + 1
<1>1. req \in [Request -> ReqType]
  BY Typed
<1>2. \A r \in Request : [req[r] EXCEPT !.at = result, !.done = @ + 1] \in ReqType
  <2>1. ASSUME NEW q \in ReqType
        PROVE  [q EXCEPT !.at = result, !.done = @ + 1] \in ReqType
    <3>1. q.done + 1 \in Nat
      BY DEF ReqType
    <3>2. ASSUME NEW d \in Nat PROVE [q EXCEPT !.at = result, !.done = d] \in ReqType
      BY DEF ReqType
    <3>. QED
      BY <3>1, <3>2
  <2>. QED
    BY <1>1, <2>1
<1>3. \A r \in Request : req'[r] = IF r \in rs THEN [req[r] EXCEPT !.at = result, !.done = @ + 1]
                                   ELSE req[r]
  BY DEF Completed
<1>4. req' \in [Request -> ReqType]
  BY <1>1, <1>2 DEF Completed
<1>5. ASSUME NEW r \in Request, r \in rs
      PROVE  req'[r].at = result /\ req'[r].done = req[r].done + 1
  <2>1. req'[r] = [req[r] EXCEPT !.at = result, !.done = @ + 1] /\ req[r] \in ReqType
    BY <1>1, <1>3, <1>5
  <2>. QED
    BY <2>1 DEF ReqType
<1>. QED
  BY <1>3, <1>4, <1>5

\* Steps that touch no request and wait for no new transaction.
LEMMA QuietStep ==
    ASSUME IInv, UNCHANGED queue,
           \A r \in Request : req'[r].at = req[r].at /\ req'[r].done = req[r].done,
           \A n \in Node : node'[n].wait = node[n].wait \/ node'[n].wait.for \notin {"Data", "Request"}
    PROVE  Work'
<1>1. QueueInv'
  <2>1. queue \in [Node -> [Kind -> Seq(Request)]]
    BY Typed DEF IInv
  <2>2. \A n \in Node, k \in Kind : \A i \in DOMAIN queue[n][k] : queue[n][k][i] \in Request
    BY <2>1
  <2>. QED
    BY <2>2 DEF IInv, Work, QueueInv
<1>2. WaitInv'
  BY DEF IInv, Work, WaitInv, Transaction
<1>3. CompletedOnce'
  BY DEF IInv, Work, CompletedOnce
<1>. QED
  BY <1>1, <1>2, <1>3 DEF Work

\* A step that changes the fields of one node.
LEMMA NodeStep ==
    ASSUME IInv, NEW n \in Node, NEW v \in NodeType, NEW left \in Seq(Frames),
           NEW out \in Seq(Frames), Update(n, v, left, out), UNCHANGED <<queue, req>>,
           faults' \in [count : Nat, kinds : SUBSET FaultKind],
           v.wait.for \notin {"Data", "Request"}
    PROVE  IInv'
<1>1. TypeOK
  BY DEF IInv
<1>2. /\ node' \in [Node -> NodeType] /\ rx' \in [Node -> Seq(Frames)]
      /\ node'[n] = v /\ \A m \in Node \ {n} : node'[m] = node[m]
  BY <1>1, UpdateType
<1>3. TypeOK'
  <2>1. /\ queue' \in [Node -> [Kind -> Seq(Request)]] /\ req' \in [Request -> ReqType]
    BY <1>1, Typed
  <2>2. TypeOK' <=> /\ node' \in [Node -> NodeType] /\ rx' \in [Node -> Seq(Frames)]
               /\ queue' \in [Node -> [Kind -> Seq(Request)]]
               /\ req' \in [Request -> ReqType]
               /\ faults' \in [count : Nat, kinds : SUBSET FaultKind]
    BY DEF TypeOK, NodeType, ReqType
  <2>. QED
    BY <1>2, <2>1, <2>2
<1>4. \A m \in Node : node'[m].wait = node[m].wait \/ node'[m].wait.for \notin {"Data", "Request"}
  BY <1>2
<1>5. Work'
  BY <1>4, QuietStep
<1>. QED
  BY <1>3, <1>5 DEF IInv

\* A queued request is open.
LEMMA QueuedOpen ==
    ASSUME IInv, NEW n \in Node, NEW r \in Queued(n)
    PROVE  r \in Request /\ Owner(r) = n /\ req[r].at = "queued"
BY Kinds DEF Queued, IInv, Work, QueueInv

\* Completing open requests of one node, with none of them left in its queues or
\* awaited, completes each once.
LEMMA CompletionStep ==
    ASSUME IInv, NEW n \in Node, NEW rs, NEW result \in {"acked", "nacked"},
           req' = Completed(rs, result),
           \A r \in Request : r \in rs => Owner(r) = n /\ req[r].at \in {"queued", "sent"},
           \A m \in Node \ {n} : node'[m] = node[m] /\ queue'[m] = queue[m],
           node'[n].wait.for \notin {"Data", "Request"},
           \A k \in Kind :
              \/ queue'[n][k] = <<>>
              \/ /\ queue'[n][k] = queue[n][k]
                 /\ \A i \in DOMAIN queue[n][k] : queue[n][k][i] \notin rs
    PROVE  Work'
<1>1. TypeOK /\ Work
  BY DEF IInv
<1>2. /\ \A r \in Request : r \notin rs => req'[r] = req[r]
      /\ \A r \in Request : r \in rs => req'[r].at = result /\ req'[r].done = req[r].done + 1
  BY <1>1, CompletedIs
<1>3. CompletedOnce'
  BY <1>1, <1>2 DEF Work, CompletedOnce
<1>4. WaitInv'
  <2>. SUFFICES ASSUME NEW m \in Node, Transaction(m)'
                PROVE  /\ node'[m].wait.req \in Request
                       /\ Owner(node'[m].wait.req) = m
                       /\ KindOf(node'[m].wait.req) = node'[m].wait.for /\ req'[node'[m].wait.req].at = "sent"
    BY DEF WaitInv
  <2>1. m # n /\ node'[m] = node[m]
    BY DEF Transaction
  <2>2. /\ node[m].wait.req \in Request /\ Owner(node[m].wait.req) = m
        /\ KindOf(node[m].wait.req) = node[m].wait.for
        /\ req[node[m].wait.req].at = "sent"
    BY <1>1, <2>1 DEF Work, WaitInv, Transaction
  <2>. QED
    BY <1>2, <2>1, <2>2
<1>5. QueueInv'
  <2>1. queue \in [Node -> [Kind -> Seq(Request)]]
    BY <1>1, Typed
  <2>. SUFFICES ASSUME NEW m \in Node, NEW k \in Kind
                PROVE  /\ \A i \in DOMAIN queue'[m][k] :
                            LET r == queue'[m][k][i] IN
                            Owner(r) = m /\ KindOf(r) = k /\ req'[r].at = "queued"
                       /\ \A i, j \in DOMAIN queue'[m][k] :
                            queue'[m][k][i] = queue'[m][k][j] => i = j
    BY DEF QueueInv
  <2>2. queue[m][k] \in Seq(Request)
    BY <2>1
  <2>3. /\ \A i \in DOMAIN queue[m][k] : /\ queue[m][k][i] \in Request
                                         /\ Owner(queue[m][k][i]) = m
                                         /\ KindOf(queue[m][k][i]) = k
                                         /\ req[queue[m][k][i]].at = "queued"
        /\ \A i, j \in DOMAIN queue[m][k] : queue[m][k][i] = queue[m][k][j] => i = j
    BY <1>1, <2>2 DEF Work, QueueInv
  <2>4. CASE m # n
    <3>1. queue'[m][k] = queue[m][k]
      BY <2>4
    <3>2. \A i \in DOMAIN queue[m][k] : req'[queue[m][k][i]] = req[queue[m][k][i]]
      BY <1>2, <2>3, <2>4
    <3>. QED
      BY <2>3, <3>1, <3>2
  <2>5. CASE m = n /\ queue'[m][k] = <<>>
    BY <2>5
  <2>6. CASE m = n /\ queue'[m][k] = queue[m][k]
             /\ \A i \in DOMAIN queue[m][k] : queue[m][k][i] \notin rs
    <3>1. \A i \in DOMAIN queue[m][k] : req'[queue[m][k][i]] = req[queue[m][k][i]]
      BY <1>2, <2>3, <2>6
    <3>. QED
      BY <2>3, <2>6, <3>1
  <2>. QED
    BY <2>4, <2>5, <2>6
<1>. QED
  BY <1>3, <1>4, <1>5 DEF Work

\* A reset completes what is queued and the transaction that failed, and leaves
\* no request open.
LEMMA ResetStep ==
    ASSUME IInv, NEW n \in Node, NEW v \in NodeType, NEW current,
           ResetConnection(n, v, current),
           \A r \in Request : r \in current => Owner(r) = n /\ req[r].at \in {"queued", "sent"},
           faults' \in [count : Nat, kinds : SUBSET FaultKind]
    PROVE  IInv'
<1>1. TypeOK
  BY DEF IInv
<1>2. /\ Update(n, Disconnected(n, v), <<>>, <<>>)
      /\ queue' = [queue EXCEPT ![n] = [k \in Kind |-> <<>>]]
      /\ req' = Completed(Queued(n) \cup current, "nacked")
  BY DEF ResetConnection
<1>3. /\ node' \in [Node -> NodeType] /\ rx' \in [Node -> Seq(Frames)]
      /\ node'[n].wait = NoWait /\ \A m \in Node \ {n} : node'[m] = node[m]
  <2>1. Disconnected(n, v) \in NodeType /\ Disconnected(n, v).wait = NoWait
    BY DisconnectedType
  <2>2. <<>> \in Seq(Frames)
    OBVIOUS
  <2>. QED
    BY <1>1, <1>2, <2>1, <2>2, UpdateType
<1>4. queue \in [Node -> [Kind -> Seq(Request)]]
  BY <1>1, Typed
<1>5. /\ queue' \in [Node -> [Kind -> Seq(Request)]]
      /\ \A k \in Kind : queue'[n][k] = <<>>
      /\ \A m \in Node \ {n} : queue'[m] = queue[m]
  BY <1>2, <1>4
<1>6. req' \in [Request -> ReqType]
  BY <1>1, <1>2, CompletedIs
<1>7. TypeOK'
  BY <1>3, <1>5, <1>6 DEF TypeOK, NodeType, ReqType
<1>8. \A r \in Request : r \in Queued(n) \cup current => Owner(r) = n /\ req[r].at \in {"queued", "sent"}
  BY QueuedOpen
<1>9. Work'
  <2>1. \A m \in Node \ {n} : node'[m] = node[m] /\ queue'[m] = queue[m]
    BY <1>3, <1>5
  <2>2. node'[n].wait.for \notin {"Data", "Request"}
    BY <1>3, NoWaitType
  <2>3. "nacked" \in {"acked", "nacked"}
    OBVIOUS
  <2>4. req' = Completed(Queued(n) \cup current, "nacked")
    BY <1>2
  <2>. QED
    BY <1>5, <1>8, <2>1, <2>2, <2>3, <2>4, CompletionStep
<1>. QED
  BY <1>7, <1>9 DEF IInv

(***************************************************************************)
(* The handshake, and frames that ask for no reaction.                     *)
(***************************************************************************)
LEMMA Names == /\ "none" \in {"none", "Data", "Request", "Heartbeat", "Nop", "Grant"}
               /\ "Nop" \in FrameType /\ "Data" \in FrameType /\ "Hello" \in FrameType
               /\ "Request" \in FrameType /\ "Response" \in FrameType
               /\ "Heartbeat" \in FrameType /\ "Ack" \in FrameType
               /\ "Nack" \in FrameType /\ "Grant" \in FrameType
               /\ "master" \in Node /\ "slave" \in Node
               /\ "Data" \in Kind /\ "Request" \in Kind
BY DEF FrameType, Node, Kind

LEMMA Lines == /\ <<>> \in Seq(Frames)
               /\ TypeOK => \A n \in Node : node[n] \in NodeType /\ rx[n] \in Seq(Frames)
               /\ TypeOK => faults \in [count : Nat, kinds : SUBSET FaultKind]
BY Typed

LEMMA InitIInv == Init => IInv
<1>. SUFFICES ASSUME Init PROVE IInv
  OBVIOUS
<1>1. node \in [Node -> NodeType]
  BY NodeInitType DEF Init
<1>2. /\ rx \in [Node -> Seq(Frames)] /\ queue \in [Node -> [Kind -> Seq(Request)]]
      /\ faults \in [count : Nat, kinds : SUBSET FaultKind]
  BY DEF Init
<1>3. req \in [Request -> ReqType]
  BY DEF Init, ReqType
<1>4. QueueInv /\ CompletedOnce
  BY DEF Init, QueueInv, CompletedOnce
<1>5. WaitInv
  BY NodeInitType, NoWaitType DEF Init, WaitInv, Transaction
<1>. QED
  BY <1>1, <1>2, <1>3, <1>4, <1>5, Typed DEF IInv, Work

\* A reaction touches no request.
LEMMA ReactType ==
    ASSUME IInv, NEW n \in Node, NEW v \in NodeType, NEW left \in Seq(Frames),
           NEW f \in Frames, NEW type \in FrameType, React(n, v, left, f, type)
    PROVE  \E w \in NodeType, out \in Seq(Frames) :
              /\ Update(n, w, left, out) /\ w.wait = v.wait
              /\ faults' \in [count : Nat, kinds : SUBSET FaultKind]
<1>1. CASE v.turn # "WriteReaction"
  <2>1. Update(n, v, left, <<>>) /\ UNCHANGED faults
    BY <1>1 DEF React
  <2>. QED
    BY <2>1, Lines DEF IInv
<1>2. CASE v.turn = "WriteReaction"
  <2>1. PICK written \in Written :
          /\ Spent(written)
          /\ Update(n, Advanced(v), left,
                    Out(written, Make(type, v.seq, f.seq,
                                      IF type = "Response" THEN f.req ELSE None)))
    BY <1>2 DEF React
  <2>2. v.seq \in SeqNo /\ f.seq \in SeqNo
        /\ (IF type = "Response" THEN f.req ELSE None) \in Request \cup {None}
    BY DEF NodeType, Frames
  <2>3. Make(type, v.seq, f.seq, IF type = "Response" THEN f.req ELSE None) \in Frames
    BY <2>2, MakeType
  <2>4. written \in BOOLEAN /\ faults' \in [count : Nat, kinds : SUBSET FaultKind]
    BY <2>1, WrittenType DEF IInv
  <2>5. Out(written, Make(type, v.seq, f.seq,
                          IF type = "Response" THEN f.req ELSE None)) \in Seq(Frames)
    BY <2>3, <2>4, OutType
  <2>. QED
    BY <2>1, <2>4, <2>5, AdvancedType
<1>. QED
  BY <1>1, <1>2

LEMMA ReactStep ==
    ASSUME IInv, NEW n \in Node, NEW v \in NodeType, NEW left \in Seq(Frames),
           NEW f \in Frames, NEW type \in FrameType, React(n, v, left, f, type),
           v.wait = NoWait, UNCHANGED <<queue, req>>
    PROVE  IInv'
<1>1. PICK w \in NodeType, out \in Seq(Frames) :
              /\ Update(n, w, left, out) /\ w.wait = v.wait
              /\ faults' \in [count : Nat, kinds : SUBSET FaultKind]
  BY ReactType
<1>2. w.wait.for \notin {"Data", "Request"}
  BY <1>1, NoWaitType
<1>. QED
  BY <1>1, <1>2, NodeStep

LEMMA ArrivedFrame ==
    ASSUME IInv, NEW n \in Node, rx[n] # <<>>
    PROVE  /\ Head(rx[n]) \in Frames /\ Tail(rx[n]) \in Seq(Frames)
           /\ Taken(n, Head(rx[n])) \in NodeType
           /\ Taken(n, Head(rx[n])).wait = NoWait
           /\ Answered(n, Head(rx[n])) \in NodeType
           /\ Answered(n, Head(rx[n])).wait = NoWait
           /\ \A f : Rest(f, Tail(rx[n])) \in Seq(Frames)
BY Arrived, TakenType, AnsweredType, RestType DEF IInv

LEMMA HelloStep == ASSUME IInv, Hello PROVE IInv'
<1>. USE Names
<1>1. PICK v \in NodeType, written \in Written :
        /\ v.wait = node["master"].wait
        /\ Spent(written)
        /\ Update("master",
                  IF written
                  THEN [Advanced(v) EXCEPT !.hello = v.seq, !.due = FALSE,
                                           !.state = "HelloSent"]
                  ELSE Advanced(v),
                  rx["master"], Out(written, Make("Hello", v.seq, 0, None)))
  <2>1. node["master"] \in NodeType
    BY Lines DEF IInv
  <2>2. ASSUME NEW w \in NodeType
        PROVE  /\ [w EXCEPT !.seq = 0] \in NodeType /\ [w EXCEPT !.seq = 0].wait = w.wait
               /\ [w EXCEPT !.turn = startState("master")] \in NodeType
               /\ [w EXCEPT !.turn = startState("master")].wait = w.wait
    BY Numbers, Turns DEF NodeType
  <2>. QED
    BY <2>1, <2>2 DEF Hello
<1>2. written \in BOOLEAN /\ faults' \in [count : Nat, kinds : SUBSET FaultKind]
  BY <1>1, WrittenType DEF IInv
<1>3. Out(written, Make("Hello", v.seq, 0, None)) \in Seq(Frames) /\ rx["master"] \in Seq(Frames)
  <2>1. v.seq \in SeqNo
    BY DEF NodeType
  <2>. QED
    BY <1>2, <2>1, MakeType, OutType, Numbers, Lines DEF IInv
<1>4. ASSUME NEW w \in NodeType
      PROVE  /\ [w EXCEPT !.hello = v.seq, !.due = FALSE, !.state = "HelloSent"] \in NodeType
             /\ [w EXCEPT !.hello = v.seq, !.due = FALSE, !.state = "HelloSent"].wait = w.wait
  BY DEF NodeType
<1>5. PICK w \in NodeType :
        /\ w.wait = v.wait
        /\ Update("master", w, rx["master"], Out(written, Make("Hello", v.seq, 0, None)))
  BY <1>1, <1>4, AdvancedType
<1>6. node["master"].wait.for = "none" /\ UNCHANGED <<queue, req>>
  BY DEF Hello, Idle
<1>. QED
  BY <1>1, <1>2, <1>3, <1>5, <1>6, NodeStep

LEMMA MasterOnHelloStep == ASSUME IInv, MasterOnHello PROVE IInv'
<1>. USE Names
<1>1. rx["master"] # <<>>
  BY DEF MasterOnHello, Incoming
<1>. DEFINE f == Head(rx["master"])
            v == Taken("master", f)
<1>2. f \in Frames /\ Tail(rx["master"]) \in Seq(Frames) /\ v \in NodeType /\ v.wait = NoWait
  BY <1>1, ArrivedFrame
<1>3. PICK w \in NodeType : w.wait = NoWait /\ Update("master", w, Tail(rx["master"]), <<>>)
  <2>1. (f.seq + 1) % SeqMod \in SeqNo
    BY <1>2, Numbers DEF Frames
  <2>2. ASSUME NEW d \in NodeType, NEW s \in SeqNo
        PROVE  /\ [d EXCEPT !.seq = s, !.state = "Synced"] \in NodeType
               /\ [d EXCEPT !.seq = s, !.state = "Synced"].wait = d.wait
    BY DEF NodeType
  <2>3. \/ Update("master", v, Tail(rx["master"]), <<>>)
        \/ Update("master", [Deferred(v) EXCEPT !.seq = (f.seq + 1) % SeqMod,
                                                !.state = "Synced"],
                  Tail(rx["master"]), <<>>)
    BY DEF MasterOnHello
  <2>. QED
    BY <1>2, <2>1, <2>2, <2>3, DeferredType
<1>4. UNCHANGED <<queue, req, faults>>
  BY DEF MasterOnHello
<1>. QED
  BY <1>2, <1>3, <1>4, NodeStep, NoWaitType, Lines DEF IInv

LEMMA SlaveOnHelloStep == ASSUME IInv, SlaveOnHello PROVE IInv'
<1>. USE Names
<1>1. rx["slave"] # <<>>
  BY DEF SlaveOnHello, Incoming
<1>. DEFINE f == Head(rx["slave"])
            v == [Taken("slave", f) EXCEPT !.seq = (f.seq + 1) % SeqMod]
<1>2. f \in Frames /\ Tail(rx["slave"]) \in Seq(Frames)
  BY <1>1, ArrivedFrame
<1>3. v \in NodeType /\ v.wait = NoWait
  <2>1. Taken("slave", f) \in NodeType /\ Taken("slave", f).wait = NoWait
    BY <1>1, ArrivedFrame
  <2>2. (f.seq + 1) % SeqMod \in SeqNo
    BY <1>2, Numbers DEF Frames
  <2>3. ASSUME NEW d \in NodeType, NEW s \in SeqNo
        PROVE  [d EXCEPT !.seq = s] \in NodeType /\ [d EXCEPT !.seq = s].wait = d.wait
    BY DEF NodeType
  <2>. QED
    BY <2>1, <2>2, <2>3
<1>4. UNCHANGED <<queue, req>>
  BY DEF SlaveOnHello
<1>. HIDE DEF v
<1>5. CASE v.turn # "WriteReaction"
  <2>1. Update("slave", v, Tail(rx["slave"]), <<>>) /\ UNCHANGED faults
    BY <1>5 DEF SlaveOnHello, v
  <2>. QED
    BY <1>2, <1>3, <1>4, <2>1, NodeStep, NoWaitType, Lines DEF IInv
<1>6. CASE v.turn = "WriteReaction"
  <2>1. PICK written \in Written :
          /\ Spent(written)
          /\ Update("slave",
                    IF written
                    THEN [Deferred(Advanced(v)) EXCEPT !.hello = v.seq, !.state = "Synced"]
                    ELSE Advanced(v),
                    Tail(rx["slave"]), Out(written, Make("Hello", v.seq, f.seq, None)))
    BY <1>6 DEF SlaveOnHello, v
  <2>2. written \in BOOLEAN /\ faults' \in [count : Nat, kinds : SUBSET FaultKind]
    BY <2>1, WrittenType DEF IInv
  <2>3. Out(written, Make("Hello", v.seq, f.seq, None)) \in Seq(Frames) /\ v.seq \in SeqNo
    <3>1. v.seq \in SeqNo /\ f.seq \in SeqNo
      BY <1>2, <1>3 DEF NodeType, Frames
    <3>. QED
      BY <2>2, <3>1, MakeType, OutType
  <2>4. ASSUME NEW d \in NodeType
        PROVE  /\ [d EXCEPT !.hello = v.seq, !.state = "Synced"] \in NodeType
               /\ [d EXCEPT !.hello = v.seq, !.state = "Synced"].wait = d.wait
    BY <2>3 DEF NodeType
  <2>5. /\ Advanced(v) \in NodeType /\ Advanced(v).wait = NoWait
        /\ Deferred(Advanced(v)) \in NodeType /\ Deferred(Advanced(v)).wait = NoWait
    BY <1>3, AdvancedType, DeferredType
  <2>6. PICK w \in NodeType :
          /\ w.wait = NoWait
          /\ Update("slave", w, Tail(rx["slave"]), Out(written, Make("Hello", v.seq, f.seq, None)))
    BY <2>1, <2>4, <2>5
  <2>. QED
    BY <1>2, <1>4, <2>2, <2>3, <2>6, NodeStep, NoWaitType
<1>. QED
  BY <1>5, <1>6

LEMMA PollOutOfTurnStep == ASSUME IInv, NEW n \in Node, PollOutOfTurn(n) PROVE IInv'
<1>1. /\ node' = [node EXCEPT ![n] = TurnReset(n)] /\ UNCHANGED <<rx, queue, req, faults>>
  BY DEF PollOutOfTurn
<1>2. TurnReset(n) \in NodeType /\ TurnReset(n).wait.for = "none"
  BY TurnResetType, NoWaitType DEF IInv
<1>3. node' \in [Node -> NodeType] /\ \A m \in Node : node'[m] = node[m] \/ node'[m].wait.for = "none"
  BY <1>1, <1>2, Typed DEF IInv
<1>4. TypeOK'
  BY <1>1, <1>3, Typed DEF TypeOK, NodeType, IInv
<1>5. Work'
  BY <1>1, <1>3, QuietStep
<1>. QED
  BY <1>4, <1>5 DEF IInv

(***************************************************************************)
(* Frames a node reads by polling.                                         *)
(***************************************************************************)
LEMMA ReceiveStep ==
    ASSUME IInv, NEW n \in Node,
           \/ ReceiveUnreadable(n) \/ ReceiveStale(n) \/ ReceiveOutOfSequence(n)
           \/ ReceiveNop(n) \/ ReceiveWithoutReaction(n) \/ ReceiveHeartbeat(n)
           \/ ReceiveTransaction(n)
    PROVE  IInv'
<1>. DEFINE f == Head(rx[n])
            v == Taken(n, f)
<1>1. rx[n] # <<>>
  BY DEF ReceiveUnreadable, ReceiveStale, ReceiveOutOfSequence, ReceiveNop,
         ReceiveWithoutReaction, ReceiveHeartbeat, ReceiveTransaction, Dispatched, Incoming
<1>2. /\ f \in Frames /\ Tail(rx[n]) \in Seq(Frames) /\ v \in NodeType /\ v.wait = NoWait
      /\ Rest(f, Tail(rx[n])) \in Seq(Frames)
      /\ node[n] \in NodeType /\ <<>> \in Seq(Frames)
      /\ TurnReset(n) \in NodeType /\ TurnReset(n).wait = NoWait
      /\ NoWait.for \notin {"Data", "Request"}
  BY <1>1, ArrivedFrame, Lines, TurnResetType, NoWaitType DEF IInv
<1>3. UNCHANGED faults => faults' \in [count : Nat, kinds : SUBSET FaultKind]
  BY Lines DEF IInv
<1>. HIDE DEF v, f
<1>4. CASE ReceiveUnreadable(n)
  <2>1. UNCHANGED faults
    BY <1>4 DEF ReceiveUnreadable
  <2>2. CASE ResetConnection(n, node[n], {})
    BY <1>2, <1>3, <2>1, <2>2, ResetStep
  <2>3. CASE /\ Update(n, TurnReset(n), Rest(f, Tail(rx[n])), <<>>) /\ UNCHANGED <<queue, req>>
    BY <1>2, <1>3, <2>1, <2>3, NodeStep
  <2>. QED
    BY <1>4, <2>2, <2>3 DEF ReceiveUnreadable, f
<1>5. CASE ReceiveStale(n)
  <2>1. Update(n, TurnReset(n), <<>>, <<>>) /\ UNCHANGED <<queue, req, faults>>
    BY <1>5 DEF ReceiveStale
  <2>. QED
    BY <1>2, <1>3, <2>1, NodeStep
<1>6. CASE ReceiveOutOfSequence(n)
  <2>1. ResetConnection(n, node[n], {}) /\ UNCHANGED faults
    BY <1>6 DEF ReceiveOutOfSequence
  <2>. QED
    BY <1>2, <1>3, <2>1, ResetStep
<1>7. CASE ReceiveNop(n)
  <2>1. UNCHANGED <<queue, req>>
    BY <1>7 DEF ReceiveNop
  <2>2. CASE Update(n, v, Tail(rx[n]), <<>>) /\ UNCHANGED faults
    BY <1>2, <1>3, <2>1, <2>2, NodeStep
  <2>3. CASE React(n, v, Tail(rx[n]), f, "Nop")
    BY <1>2, <2>1, <2>3, ReactStep, Names
  <2>. QED
    BY <1>7, <2>2, <2>3 DEF ReceiveNop, v, f
<1>8. CASE ReceiveWithoutReaction(n)
  <2>1. Update(n, v, Rest(f, Tail(rx[n])), <<>>) /\ UNCHANGED <<queue, req, faults>>
    BY <1>8 DEF ReceiveWithoutReaction, v, f
  <2>. QED
    BY <1>2, <1>3, <2>1, NodeStep
<1>9. CASE ReceiveHeartbeat(n)
  <2>1. UNCHANGED <<queue, req>>
    BY <1>9 DEF ReceiveHeartbeat
  <2>2. ASSUME NEW d \in NodeType
        PROVE  /\ [d EXCEPT !.heard = 0] \in NodeType /\ [d EXCEPT !.heard = 0].wait = d.wait
               /\ [d EXCEPT !.hbAwait = FALSE, !.missed = 0] \in NodeType
               /\ [d EXCEPT !.hbAwait = FALSE, !.missed = 0].wait = d.wait
    BY Numbers DEF NodeType
  <2>3. /\ [v EXCEPT !.heard = 0] \in NodeType /\ [v EXCEPT !.heard = 0].wait = NoWait
        /\ [[v EXCEPT !.heard = 0] EXCEPT !.hbAwait = FALSE, !.missed = 0] \in NodeType
        /\ [[v EXCEPT !.heard = 0] EXCEPT !.hbAwait = FALSE, !.missed = 0].wait = NoWait
    BY <1>2, <2>2
  <2>4. \/ \E w \in NodeType : w.wait = NoWait /\ Update(n, w, Tail(rx[n]), <<>>) /\ UNCHANGED faults
        \/ \E w \in NodeType : w.wait = NoWait /\ React(n, w, Tail(rx[n]), f, "Heartbeat")
    BY <1>2, <1>9, <2>3 DEF ReceiveHeartbeat, v, f
  <2>5. ASSUME NEW w \in NodeType, w.wait = NoWait, Update(n, w, Tail(rx[n]), <<>>), UNCHANGED faults
        PROVE  IInv'
    BY <1>2, <1>3, <2>1, <2>5, NodeStep
  <2>6. ASSUME NEW w \in NodeType, w.wait = NoWait, React(n, w, Tail(rx[n]), f, "Heartbeat")
        PROVE  IInv'
    BY <1>2, <2>1, <2>6, ReactStep, Names
  <2>. QED
    BY <2>4, <2>5, <2>6
<1>10. CASE ReceiveTransaction(n)
  <2>1. CASE ResetConnection(n, v, {}) /\ UNCHANGED faults
    BY <1>2, <1>3, <2>1, ResetStep
  <2>2. CASE f.damage # "payload"
    <3>1. PICK accepted \in BOOLEAN :
            /\ React(n, v, Tail(rx[n]), f,
                     IF ~ accepted THEN "Nack" ELSE IF f.type = "Data" THEN "Ack" ELSE "Response")
            /\ req' = IF accepted THEN [req EXCEPT ![f.req].delivered = @ + 1] ELSE req
            /\ UNCHANGED queue
      BY <1>10, <2>2 DEF ReceiveTransaction, v, f
    <3>2. PICK w \in NodeType, out \in Seq(Frames) :
            /\ Update(n, w, Tail(rx[n]), out) /\ w.wait = v.wait
            /\ faults' \in [count : Nat, kinds : SUBSET FaultKind]
      BY <1>2, <3>1, ReactType, Names
    <3>3. /\ node' \in [Node -> NodeType] /\ rx' \in [Node -> Seq(Frames)]
          /\ node'[n] = w /\ \A m \in Node \ {n} : node'[m] = node[m]
      BY <1>2, <3>2, UpdateType DEF IInv
    <3>4. /\ req' \in [Request -> ReqType]
          /\ \A r \in Request : req'[r].at = req[r].at /\ req'[r].done = req[r].done
      <4>1. req \in [Request -> ReqType]
        BY Typed DEF IInv
      <4>2. ASSUME NEW q \in ReqType
            PROVE  /\ [q EXCEPT !.delivered = @ + 1] \in ReqType
                   /\ [q EXCEPT !.delivered = @ + 1].at = q.at
                   /\ [q EXCEPT !.delivered = @ + 1].done = q.done
        <5>1. q.delivered + 1 \in Nat
          BY DEF ReqType
        <5>2. ASSUME NEW d \in Nat
              PROVE  /\ [q EXCEPT !.delivered = d] \in ReqType
                     /\ [q EXCEPT !.delivered = d].at = q.at
                     /\ [q EXCEPT !.delivered = d].done = q.done
          BY DEF ReqType
        <5>. QED
          BY <5>1, <5>2
      <4>3. CASE req' = req
        BY <4>1, <4>3
      <4>4. CASE req' = [req EXCEPT ![f.req].delivered = @ + 1]
        <5>1. \A r \in Request : req'[r] = IF r = f.req THEN [req[r] EXCEPT !.delivered = @ + 1]
                                            ELSE req[r]
          BY <4>1, <4>4
        <5>2. req' = [r \in Request |-> IF r = f.req THEN [req[r] EXCEPT !.delivered = @ + 1]
                                        ELSE req[r]]
          BY <4>1, <4>4
        <5>. QED
          BY <4>1, <4>2, <5>1, <5>2
      <4>. QED
        BY <3>1, <4>3, <4>4
    <3>5. TypeOK'
      BY <3>1, <3>2, <3>3, <3>4, Typed DEF TypeOK, NodeType, ReqType, IInv
    <3>6. Work'
      <4>1. \A m \in Node : node'[m].wait = node[m].wait \/ node'[m].wait.for \notin {"Data", "Request"}
        BY <1>2, <3>2, <3>3
      <4>. QED
        BY <3>1, <3>4, <4>1, QuietStep
    <3>. QED
      BY <3>5, <3>6 DEF IInv
  <2>. QED
    BY <1>10, <2>1, <2>2 DEF ReceiveTransaction, v, f
<1>. QED
  BY <1>4, <1>5, <1>6, <1>7, <1>8, <1>9, <1>10

(***************************************************************************)
(* A node in its request slot.                                             *)
(***************************************************************************)
LEMMA UartType ==
    ASSUME IInv, MayFault("uart") /\ Faulted("uart")
    PROVE  faults' \in [count : Nat, kinds : SUBSET FaultKind]
BY FaultedType DEF IInv, FaultKind

\* A frame of the link itself that a node sends and may wait for the answer of.
LEMMA ControlStep ==
    ASSUME IInv, NEW n \in Node, NEW sent \in NodeType, NEW refused \in NodeType,
           NEW written \in Written, Spent(written), NEW f \in Frames,
           Update(n, IF written THEN sent ELSE refused, rx[n], Out(written, f)),
           sent.wait.for \notin {"Data", "Request"},
           refused.wait.for \notin {"Data", "Request"}, UNCHANGED <<queue, req>>
    PROVE  IInv'
<1>1. written \in BOOLEAN /\ faults' \in [count : Nat, kinds : SUBSET FaultKind]
  BY WrittenType DEF IInv
<1>2. Out(written, f) \in Seq(Frames) /\ rx[n] \in Seq(Frames)
  BY <1>1, OutType, Lines DEF IInv
<1>3. CASE written
  BY <1>1, <1>2, <1>3, NodeStep
<1>4. CASE ~ written
  BY <1>1, <1>2, <1>4, NodeStep
<1>. QED
  BY <1>1, <1>3, <1>4

LEMMA HeartbeatStepStep == ASSUME IInv, HeartbeatStep PROVE IInv'
<1>. USE Names
<1>. DEFINE v == [node["master"] EXCEPT !.missed = IF node["master"].hbAwait THEN @ + 1 ELSE @]
<1>1. node["master"] \in NodeType /\ node["master"].wait.for = "none"
  BY Lines DEF IInv, HeartbeatStep, Writes, Idle
<1>2. CASE HeartbeatLost(v)
  <2>1. ResetConnection("master", v, {}) /\ UNCHANGED faults
    BY <1>2 DEF HeartbeatStep
  <2>2. ResetConnection("master", node["master"], {})
    <3>1. v.seq = node["master"].seq
      BY <1>1 DEF NodeType
    <3>2. Disconnected("master", v) = Disconnected("master", node["master"])
      BY <3>1 DEF Disconnected
    <3>. QED
      BY <2>1, <3>2 DEF ResetConnection
  <2>. QED
    BY <1>1, <2>1, <2>2, ResetStep, Lines DEF IInv
<1>3. CASE ~ HeartbeatLost(v)
  <2>1. PICK written \in Written :
          /\ Spent(written)
          /\ Update("master",
                    IF written
                    THEN [Waiting(v, "Heartbeat", None) EXCEPT !.hbSeq = v.seq, !.due = FALSE]
                    ELSE Advanced(v),
                    rx["master"], Out(written, Make("Heartbeat", v.seq, 0, None)))
    BY <1>3 DEF HeartbeatStep
  <2>2. v \in NodeType /\ v.wait = node["master"].wait
    <3>1. (IF node["master"].hbAwait THEN node["master"].missed + 1 ELSE node["master"].missed)
             \in 0 .. MaxMissed - 1
      <4>1. /\ node["master"].missed \in 0 .. MaxMissed - 1 /\ MaxMissed \in Nat
            /\ node["master"].hbAwait \in BOOLEAN
        BY <1>1, Rs485Assumption DEF NodeType
      <4>2. CASE node["master"].hbAwait
        <5>1. v.missed = node["master"].missed + 1
          BY <1>1, <4>2 DEF NodeType
        <5>. HIDE DEF v
        <5>. QED
          BY <1>3, <4>1, <4>2, <5>1 DEF HeartbeatLost
      <4>. QED
        BY <4>1, <4>2
    <3>2. ASSUME NEW m \in 0 .. MaxMissed - 1
          PROVE  /\ [node["master"] EXCEPT !.missed = m] \in NodeType
                 /\ [node["master"] EXCEPT !.missed = m].wait = node["master"].wait
      BY <1>1 DEF NodeType
    <3>. QED
      BY <3>1, <3>2
  <2>3. v.seq \in SeqNo
    BY <2>2 DEF NodeType
  <2>. HIDE DEF v
  <2>4. /\ Waiting(v, "Heartbeat", None) \in NodeType
        /\ Waiting(v, "Heartbeat", None).wait.for = "Heartbeat"
        /\ Advanced(v) \in NodeType /\ Advanced(v).wait = v.wait
    BY <2>2, WaitingControl, AdvancedType
  <2>5. ASSUME NEW d \in NodeType
        PROVE  /\ [d EXCEPT !.hbSeq = v.seq, !.due = FALSE] \in NodeType
               /\ [d EXCEPT !.hbSeq = v.seq, !.due = FALSE].wait = d.wait
    BY <2>3 DEF NodeType
  <2>6. Make("Heartbeat", v.seq, 0, None) \in Frames
    BY <2>3, MakeType, Numbers
  <2>7. UNCHANGED <<queue, req>>
    BY <1>3 DEF HeartbeatStep, v
  <2>8. /\ [Waiting(v, "Heartbeat", None) EXCEPT !.hbSeq = v.seq, !.due = FALSE] \in NodeType
        /\ [Waiting(v, "Heartbeat", None) EXCEPT !.hbSeq = v.seq, !.due = FALSE].wait.for = "Heartbeat"
        /\ Advanced(v).wait.for = "none"
    BY <1>1, <2>2, <2>4, <2>5
  <2>. QED
    BY <2>1, <2>4, <2>6, <2>7, <2>8, ControlStep
<1>. QED
  BY <1>2, <1>3

LEMMA SilenceStepStep == ASSUME IInv, SilenceStep PROVE IInv'
<1>. USE Names
<1>1. ResetConnection("slave", node["slave"], {}) /\ UNCHANGED faults
  BY DEF SilenceStep
<1>. QED
  BY <1>1, ResetStep, Lines DEF IInv

LEMMA SendTurnGrantStep == ASSUME IInv, SendTurnGrant PROVE IInv'
<1>. USE Names
<1>. DEFINE v == [node["master"] EXCEPT !.attention = FALSE]
            granted == [Advanced(v) EXCEPT !.turn = step(@)]
            sent == [granted EXCEPT !.wait = [for |-> "Grant", seq |-> v.seq, req |-> None]]
<1>1. v \in NodeType /\ v.wait.for = "none" /\ v.seq \in SeqNo
  <2>1. node["master"] \in NodeType /\ node["master"].wait.for = "none"
    BY Lines DEF IInv, SendTurnGrant, Free, Writes, Idle
  <2>. QED
    BY <2>1 DEF NodeType
<1>2. PICK written \in Written :
        /\ Spent(written)
        /\ Update("master", IF written THEN sent ELSE granted, rx["master"],
                  Out(written, Make("Grant", v.seq, 0, None)))
  BY DEF SendTurnGrant
<1>3. UNCHANGED <<queue, req>>
  BY DEF SendTurnGrant
<1>. HIDE DEF v
<1>4. granted \in NodeType /\ granted.wait.for = "none"
  <2>1. ASSUME NEW d \in NodeType
        PROVE  [d EXCEPT !.turn = step(@)] \in NodeType /\ [d EXCEPT !.turn = step(@)].wait = d.wait
    BY Turns DEF NodeType
  <2>. QED
    BY <1>1, <2>1, AdvancedType
<1>5. sent \in NodeType /\ sent.wait.for = "Grant"
  <2>1. ASSUME NEW d \in NodeType
        PROVE  /\ [d EXCEPT !.wait = [for |-> "Grant", seq |-> v.seq, req |-> None]] \in NodeType
               /\ [d EXCEPT !.wait = [for |-> "Grant", seq |-> v.seq, req |-> None]].wait.for = "Grant"
    BY <1>1 DEF NodeType
  <2>. QED
    BY <1>4, <2>1
<1>6. Make("Grant", v.seq, 0, None) \in Frames
  BY <1>1, MakeType, Numbers
<1>. HIDE DEF sent, granted
<1>. QED
  BY <1>2, <1>3, <1>4, <1>5, <1>6, ControlStep

LEMMA SendNopExchangeStep == ASSUME IInv, SendNopExchange PROVE IInv'
<1>. USE Names
<1>. DEFINE v == node["slave"]
<1>1. v \in NodeType /\ v.wait.for = "none" /\ v.seq \in SeqNo
  <2>1. node["slave"] \in NodeType /\ node["slave"].wait.for = "none"
    BY Lines DEF IInv, SendNopExchange, Free, Writes, Idle
  <2>. QED
    BY <2>1 DEF NodeType
<1>2. PICK written \in Written :
        /\ Spent(written)
        /\ Update("slave", IF written THEN Waiting(v, "Nop", None) ELSE Advanced(v), rx["slave"],
                  Out(written, Make("Nop", v.seq, 0, None)))
  BY DEF SendNopExchange
<1>3. UNCHANGED <<queue, req>>
  BY DEF SendNopExchange
<1>4. /\ Waiting(v, "Nop", None) \in NodeType /\ Waiting(v, "Nop", None).wait.for = "Nop"
      /\ Advanced(v) \in NodeType /\ Advanced(v).wait.for = "none"
      /\ Make("Nop", v.seq, 0, None) \in Frames
  <2>1. Make("Nop", v.seq, 0, None) \in Frames
    BY <1>1, MakeType, Numbers
  <2>. HIDE DEF v
  <2>. QED
    BY <1>1, <2>1, WaitingControl, AdvancedType
<1>. QED
  BY <1>2, <1>3, <1>4, ControlStep

\* The first request of the queues: the head of one of them, and open.
LEMMA FirstRequest ==
    ASSUME IInv, NEW n \in Node, Head1(n) # <<>>, NEW r, r = Head(Head1(n))
    PROVE  /\ r \in Request /\ Owner(r) = n /\ req[r].at = "queued"
           /\ queue[n][KindOf(r)] # <<>> /\ r = Head(queue[n][KindOf(r)])
           /\ \A k \in Kind : \A i \in DOMAIN queue[n][k] :
                 queue[n][k][i] = r => k = KindOf(r) /\ i = 1
<1>. USE Names
<1>1. /\ queue[n]["Data"] \in Seq(Request) /\ queue[n]["Request"] \in Seq(Request)
      /\ QueueInv
  BY Typed DEF IInv, Work
<1>2. PICK k \in Kind : queue[n][k] # <<>> /\ r = queue[n][k][1]
  <2>1. ASSUME NEW s \in Seq(Request), NEW t \in Seq(Request), s \o t # <<>>
        PROVE  Head(s \o t) = IF s # <<>> THEN s[1] ELSE t[1]
    <3>1. CASE s # <<>>
      BY <3>1
    <3>2. CASE s = <<>>
      <4>1. s \o t = t
        BY <3>2
      <4>. QED
        BY <2>1, <3>2, <4>1
    <3>. QED
      BY <3>1, <3>2
  <2>2. r = IF queue[n]["Data"] # <<>> THEN queue[n]["Data"][1] ELSE queue[n]["Request"][1]
    BY <1>1, <2>1 DEF Head1
  <2>3. queue[n]["Data"] = <<>> => queue[n]["Request"] # <<>>
    BY <1>1 DEF Head1
  <2>. QED
    BY <2>2, <2>3
<1>3. 1 \in DOMAIN queue[n][k] /\ queue[n][k] \in Seq(Request)
  BY <1>1, <1>2 DEF Kind
<1>4. r \in Request /\ Owner(r) = n /\ KindOf(r) = k /\ req[r].at = "queued"
  BY <1>1, <1>2, <1>3 DEF QueueInv
<1>5. ASSUME NEW j \in Kind, NEW i \in DOMAIN queue[n][j], queue[n][j][i] = r
      PROVE  j = k /\ i = 1
  <2>1. j = k
    BY <1>1, <1>4, <1>5 DEF QueueInv
  <2>. QED
    BY <1>1, <1>2, <1>3, <1>5, <2>1 DEF QueueInv
<1>6. r = Head(queue[n][k])
  BY <1>2, <1>3
<1>. QED
  BY <1>2, <1>4, <1>5, <1>6

LEMMA Tails ==
    ASSUME NEW s \in Seq(Request), s # <<>>
    PROVE  \A i \in DOMAIN Tail(s) :
              /\ i \in Nat /\ i >= 1 /\ i + 1 \in DOMAIN s /\ i + 1 # 1
              /\ Tail(s)[i] = s[i + 1]
<1>1. /\ Len(s) \in Nat /\ DOMAIN s = 1 .. Len(s) /\ DOMAIN Tail(s) = 1 .. Len(s) - 1
  OBVIOUS
<1>2. \A i \in 1 .. Len(s) - 1 : Tail(s)[i] = s[i + 1]
  OBVIOUS
<1>. QED
  BY <1>1, <1>2

\* What remains in the queues once the first request was taken from its own.
LEMMA DequeueStep ==
    ASSUME IInv, NEW n \in Node, Head1(n) # <<>>, NEW r, r = Head(Head1(n)),
           queue' = [queue EXCEPT ![n][KindOf(r)] = Tail(@)],
           \A x \in Request : x # r => req'[x] = req[x]
    PROVE  queue' \in [Node -> [Kind -> Seq(Request)]] /\ QueueInv'
<1>1. /\ r \in Request /\ Owner(r) = n /\ KindOf(r) \in Kind
      /\ queue[n][KindOf(r)] # <<>> /\ r = Head(queue[n][KindOf(r)])
      /\ \A k \in Kind : \A i \in DOMAIN queue[n][k] :
                 queue[n][k][i] = r => k = KindOf(r) /\ i = 1
  BY FirstRequest, Kinds
<1>2. queue \in [Node -> [Kind -> Seq(Request)]] /\ QueueInv
  BY Typed DEF IInv, Work
<1>3. queue' \in [Node -> [Kind -> Seq(Request)]]
  <2>1. Tail(queue[n][KindOf(r)]) \in Seq(Request)
    BY <1>1, <1>2
  <2>. QED
    BY <1>1, <1>2, <2>1
<1>4. ASSUME NEW m \in Node, NEW k \in Kind
      PROVE  /\ \A i \in DOMAIN queue'[m][k] :
                     /\ Owner(queue'[m][k][i]) = m /\ KindOf(queue'[m][k][i]) = k
                     /\ req'[queue'[m][k][i]].at = "queued"
             /\ \A i, j \in DOMAIN queue'[m][k] :
                     queue'[m][k][i] = queue'[m][k][j] => i = j
  <2>1. /\ queue[m][k] \in Seq(Request)
        /\ \A i \in DOMAIN queue[m][k] : /\ queue[m][k][i] \in Request
                                         /\ Owner(queue[m][k][i]) = m
                                         /\ KindOf(queue[m][k][i]) = k
                                         /\ req[queue[m][k][i]].at = "queued"
        /\ \A i, j \in DOMAIN queue[m][k] : queue[m][k][i] = queue[m][k][j] => i = j
    BY <1>2 DEF QueueInv
  <2>2. CASE m # n \/ k # KindOf(r)
    <3>1. queue'[m][k] = queue[m][k]
      BY <1>1, <1>2, <2>2
    <3>2. \A i \in DOMAIN queue[m][k] : queue[m][k][i] # r
      BY <1>1, <2>1, <2>2
    <3>3. \A i \in DOMAIN queue[m][k] : req'[queue[m][k][i]] = req[queue[m][k][i]]
      BY <2>1, <3>2
    <3>. QED
      BY <2>1, <3>1, <3>3
  <2>3. CASE m = n /\ k = KindOf(r)
    <3>1. queue'[m][k] = Tail(queue[m][k]) /\ queue[m][k] # <<>>
      BY <1>1, <1>2, <2>3
    <3>2. \A i \in DOMAIN queue'[m][k] : /\ i \in Nat /\ i + 1 \in DOMAIN queue[m][k] /\ i + 1 # 1
                                         /\ queue'[m][k][i] = queue[m][k][i + 1]
      <4>1. queue[m][k] \in Seq(Request) /\ queue[m][k] # <<>>
        BY <2>1, <3>1
      <4>2. \A i \in DOMAIN Tail(queue[m][k]) :
               /\ i \in Nat /\ i + 1 \in DOMAIN queue[m][k] /\ i + 1 # 1
               /\ Tail(queue[m][k])[i] = queue[m][k][i + 1]
        BY <4>1, Tails
      <4>. QED
        BY <3>1, <4>2
    <3>3. \A i \in DOMAIN queue'[m][k] : queue'[m][k][i] # r /\ queue'[m][k][i] \in Request
      <4>1. \A i \in DOMAIN queue[m][k] : queue[m][k][i] = r => i = 1
        BY <1>1, <2>3
      <4>. QED
        BY <2>1, <3>2, <4>1
    <3>4. \A i \in DOMAIN queue'[m][k] : req'[queue'[m][k][i]] = req[queue'[m][k][i]]
      BY <3>3
    <3>5. \A i \in DOMAIN queue'[m][k] : /\ Owner(queue'[m][k][i]) = m
                                         /\ KindOf(queue'[m][k][i]) = k
                                         /\ req'[queue'[m][k][i]].at = "queued"
      BY <2>1, <3>2, <3>4
    <3>6. \A i, j \in DOMAIN queue'[m][k] : queue'[m][k][i] = queue'[m][k][j] => i = j
      BY <2>1, <3>2
    <3>. QED
      BY <3>5, <3>6
  <2>. QED
    BY <2>2, <2>3
<1>5. QueueInv'
  BY <1>4 DEF QueueInv
<1>. QED
  BY <1>3, <1>5

LEMMA ProcessOneStep == ASSUME IInv, NEW n \in Node, ProcessOne(n) PROVE IInv'
<1>. DEFINE r == Head(Head1(n))
            v == node[n]
<1>1. /\ Head1(n) # <<>> /\ v \in NodeType /\ v.wait.for = "none" /\ v.seq \in SeqNo
      /\ rx[n] \in Seq(Frames) /\ <<>> \in Seq(Frames)
  <2>1. node[n] \in NodeType /\ Head1(n) # <<>> /\ node[n].wait.for = "none"
    BY Lines DEF IInv, ProcessOne, Free, Writes, Idle
  <2>. QED
    BY <2>1, Lines DEF NodeType, IInv
<1>2. /\ r \in Request /\ Owner(r) = n /\ KindOf(r) \in Kind /\ req[r].at = "queued"
  BY <1>1, FirstRequest, Kinds
<1>3. req \in [Request -> ReqType] /\ QueueInv /\ WaitInv /\ CompletedOnce
  BY Typed DEF IInv, Work
<1>. HIDE DEF r, v
<1>4. CASE /\ Update(n, Waiting(v, KindOf(r), r), rx[n], <<Make(KindOf(r), v.seq, 0, r)>>)
           /\ queue' = [queue EXCEPT ![n][KindOf(r)] = Tail(@)]
           /\ req' = [req EXCEPT ![r].at = "sent"]
           /\ UNCHANGED faults
  <2>1. /\ Waiting(v, KindOf(r), r) \in NodeType
        /\ Waiting(v, KindOf(r), r).wait = [for |-> KindOf(r), seq |-> v.seq, req |-> r]
    <3>1. /\ KindOf(r) \in {"Data", "Request", "Heartbeat", "Nop", "Grant"}
          /\ r \in Request \cup {None}
      BY <1>2 DEF Kind
    <3>. QED
      BY <1>1, <3>1, WaitingType
  <2>2. <<Make(KindOf(r), v.seq, 0, r)>> \in Seq(Frames)
    <3>1. KindOf(r) \in FrameType
      BY <1>2, Names DEF Kind
    <3>2. Make(KindOf(r), v.seq, 0, r) \in Frames
      BY <1>1, <1>2, <3>1, MakeType, Numbers
    <3>. QED
      BY <3>2
  <2>3. /\ node' \in [Node -> NodeType] /\ rx' \in [Node -> Seq(Frames)]
        /\ node'[n] = Waiting(v, KindOf(r), r) /\ \A m \in Node \ {n} : node'[m] = node[m]
    BY <1>1, <1>4, <2>1, <2>2, UpdateType DEF IInv
  <2>4. /\ req' \in [Request -> ReqType]
        /\ req'[r].at = "sent" /\ req'[r].done = req[r].done
        /\ \A x \in Request : x # r => req'[x] = req[x]
    BY <1>2, <1>3, <1>4 DEF ReqType
  <2>5. queue' \in [Node -> [Kind -> Seq(Request)]] /\ QueueInv'
    BY <1>1, <1>4, <2>4, DequeueStep DEF r
  <2>6. CompletedOnce'
    BY <1>2, <1>3, <2>4 DEF CompletedOnce
  <2>7. WaitInv'
    <3>. SUFFICES ASSUME NEW m \in Node, Transaction(m)'
                  PROVE  /\ node'[m].wait.req \in Request
                         /\ Owner(node'[m].wait.req) = m
                         /\ KindOf(node'[m].wait.req) = node'[m].wait.for /\ req'[node'[m].wait.req].at = "sent"
      BY DEF WaitInv
    <3>1. CASE m = n
      <4>1. node'[m].wait.req = r /\ node'[m].wait.for = KindOf(r)
        BY <2>1, <2>3, <3>1
      <4>. QED
        BY <1>2, <2>4, <3>1, <4>1
    <3>2. CASE m # n
      <4>1. node'[m] = node[m] /\ Transaction(m)
        BY <2>3, <3>2 DEF Transaction
      <4>2. /\ node[m].wait.req \in Request /\ Owner(node[m].wait.req) = m
            /\ KindOf(node[m].wait.req) = node[m].wait.for
            /\ req[node[m].wait.req].at = "sent"
        BY <1>3, <4>1 DEF WaitInv
      <4>. QED
        BY <1>2, <2>4, <3>2, <4>1, <4>2
    <3>. QED
      BY <3>1, <3>2
  <2>8. TypeOK'
    BY <1>4, <2>3, <2>4, <2>5, Typed DEF TypeOK, NodeType, ReqType, IInv
  <2>. QED
    BY <2>5, <2>6, <2>7, <2>8 DEF IInv, Work
<1>5. CASE /\ MayFault("uart") /\ Faulted("uart")
           /\ ResetConnection(n, Advanced(v), {r})
  <2>1. Advanced(v) \in NodeType
    BY <1>1, AdvancedType
  <2>2. \A x \in Request : x \in {r} => Owner(x) = n /\ req[x].at \in {"queued", "sent"}
    BY <1>2
  <2>. QED
    BY <1>5, <2>1, <2>2, UartType, ResetStep
<1>6. CASE /\ MayFault("uart") /\ Faulted("uart")
           /\ Update(n, Advanced(v), rx[n], <<>>)
           /\ queue' = [queue EXCEPT ![n][KindOf(r)] = Tail(@)]
           /\ req' = Completed({r}, "nacked")
  <2>1. Advanced(v) \in NodeType /\ Advanced(v).wait.for = "none"
    BY <1>1, AdvancedType
  <2>2. /\ node' \in [Node -> NodeType] /\ rx' \in [Node -> Seq(Frames)]
        /\ node'[n] = Advanced(v) /\ \A m \in Node \ {n} : node'[m] = node[m]
    BY <1>1, <1>6, <2>1, UpdateType DEF IInv
  <2>3. "nacked" \in {"acked", "nacked"} /\ TypeOK
    BY DEF IInv
  <2>4. /\ req' \in [Request -> ReqType]
        /\ \A x \in Request : x \notin {r} => req'[x] = req[x]
        /\ \A x \in Request : x \in {r} => req'[x].at = "nacked" /\ req'[x].done = req[x].done + 1
    BY <1>6, <2>3, CompletedIs
  <2>5. queue' \in [Node -> [Kind -> Seq(Request)]] /\ QueueInv'
    BY <1>1, <1>6, <2>4, DequeueStep DEF r
  <2>6. CompletedOnce'
    BY <1>2, <1>3, <2>4 DEF CompletedOnce
  <2>7. WaitInv'
    <3>. SUFFICES ASSUME NEW m \in Node, Transaction(m)'
                  PROVE  /\ node'[m].wait.req \in Request
                         /\ Owner(node'[m].wait.req) = m
                         /\ KindOf(node'[m].wait.req) = node'[m].wait.for /\ req'[node'[m].wait.req].at = "sent"
      BY DEF WaitInv
    <3>1. m # n
      BY <2>1, <2>2 DEF Transaction
    <3>2. node'[m] = node[m] /\ Transaction(m)
      BY <2>2, <3>1 DEF Transaction
    <3>3. /\ node[m].wait.req \in Request /\ Owner(node[m].wait.req) = m
          /\ KindOf(node[m].wait.req) = node[m].wait.for
          /\ req[node[m].wait.req].at = "sent"
      BY <1>3, <3>2 DEF WaitInv
    <3>. QED
      BY <1>2, <2>4, <3>1, <3>2, <3>3
  <2>8. TypeOK'
    BY <1>6, <2>2, <2>4, <2>5, UartType DEF TypeOK, NodeType, ReqType
  <2>. QED
    BY <2>5, <2>6, <2>7, <2>8 DEF IInv, Work
<1>. QED
  BY <1>4, <1>5, <1>6 DEF ProcessOne, r, v

(***************************************************************************)
(* The answer a step waits for.                                            *)
(***************************************************************************)
LEMMA AwaitStep == ASSUME IInv, NEW n \in Node, Await(n) PROVE IInv'
<1>1. ASSUME Transaction(n)
      PROVE  \A x \in Request : x \in {node[n].wait.req} =>
                Owner(x) = n /\ req[x].at \in {"queued", "sent"}
  BY <1>1 DEF IInv, Work, WaitInv
<1>2. ASSUME rx[n] # <<>>
      PROVE  /\ Tail(rx[n]) \in Seq(Frames) /\ <<>> \in Seq(Frames)
             /\ Answered(n, Head(rx[n])) \in NodeType
             /\ Answered(n, Head(rx[n])).wait = NoWait
             /\ Rest(Head(rx[n]), Tail(rx[n])) \in Seq(Frames)
  BY <1>2, ArrivedFrame
<1>3. /\ NoWait.for \notin {"Data", "Request"} /\ node[n] \in NodeType
      /\ UNCHANGED faults => faults' \in [count : Nat, kinds : SUBSET FaultKind]
      /\ TypeOK
  BY NoWaitType, Lines DEF IInv
<1>4. CASE TransactionAnswered(n)
  <2>1. /\ Transaction(n) /\ rx[n] # <<>>
        /\ Update(n, Answered(n, Head(rx[n])), Tail(rx[n]), <<>>)
        /\ req' = Completed({node[n].wait.req}, Outcome(Head(rx[n])))
        /\ UNCHANGED <<queue, faults>>
    BY <1>4 DEF TransactionAnswered
  <2>2. Outcome(Head(rx[n])) \in {"acked", "nacked"}
    BY DEF Outcome
  <2>3. /\ node' \in [Node -> NodeType] /\ rx' \in [Node -> Seq(Frames)]
        /\ node'[n].wait = NoWait /\ \A m \in Node \ {n} : node'[m] = node[m]
    BY <1>2, <1>3, <2>1, UpdateType
  <2>4. req' \in [Request -> ReqType]
    BY <1>3, <2>1, <2>2, CompletedIs
  <2>5. \A k \in Kind : /\ queue'[n][k] = queue[n][k]
                        /\ \A i \in DOMAIN queue[n][k] : queue[n][k][i] \notin {node[n].wait.req}
    <3>1. req[node[n].wait.req].at = "sent"
      BY <2>1 DEF IInv, Work, WaitInv
    <3>2. \A k \in Kind : \A i \in DOMAIN queue[n][k] : req[queue[n][k][i]].at = "queued"
      BY DEF IInv, Work, QueueInv
    <3>. QED
      BY <2>1, <3>1, <3>2
  <2>6. \A m \in Node \ {n} : node'[m] = node[m] /\ queue'[m] = queue[m]
    BY <2>1, <2>3
  <2>7. node'[n].wait.for \notin {"Data", "Request"}
    BY <1>3, <2>3
  <2>8. Work'
    BY <1>1, <2>1, <2>2, <2>5, <2>6, <2>7, CompletionStep
  <2>9. TypeOK'
    BY <1>3, <2>1, <2>3, <2>4, Typed DEF TypeOK, NodeType, ReqType
  <2>. QED
    BY <2>8, <2>9 DEF IInv
<1>5. CASE TransactionFails(n)
  <2>1. /\ Transaction(n) /\ rx[n] # <<>> /\ UNCHANGED faults
        /\ ResetConnection(n, Answered(n, Head(rx[n])), {node[n].wait.req})
    BY <1>5 DEF TransactionFails
  <2>. QED
    BY <1>1, <1>2, <1>3, <2>1, ResetStep
<1>6. CASE LinkAnswered(n)
  <2>1. rx[n] # <<>> /\ UNCHANGED <<queue, req, faults>>
    BY <1>6 DEF LinkAnswered
  <2>2. ASSUME NEW d \in NodeType, NEW b \in BOOLEAN
        PROVE  /\ [d EXCEPT !.hbAwait = FALSE, !.missed = 0, !.heard = 0] \in NodeType
               /\ [d EXCEPT !.hbAwait = FALSE, !.missed = 0, !.heard = 0].wait = d.wait
               /\ [d EXCEPT !.turn = startState(n), !.hbAwait = b] \in NodeType
               /\ [d EXCEPT !.turn = startState(n), !.hbAwait = b].wait = d.wait
    BY Numbers, Turns DEF NodeType
  <2>. DEFINE a == Answered(n, Head(rx[n]))
  <2>3. a.hbAwait \in BOOLEAN
    BY <1>2, <2>1 DEF NodeType
  <2>4. PICK left \in {Tail(rx[n]), Rest(Head(rx[n]), Tail(rx[n]))}, b \in BOOLEAN :
          \/ Update(n, a, left, <<>>)
          \/ Update(n, [a EXCEPT !.hbAwait = FALSE, !.missed = 0, !.heard = 0], left, <<>>)
          \/ Update(n, [a EXCEPT !.turn = startState(n), !.hbAwait = b], left, <<>>)
    <3>1. \/ Update(n, a, Tail(rx[n]), <<>>)
          \/ Update(n, [a EXCEPT !.hbAwait = FALSE, !.missed = 0, !.heard = 0], Tail(rx[n]), <<>>)
          \/ Update(n, [a EXCEPT !.turn = startState(n), !.hbAwait = a.hbAwait],
                    Rest(Head(rx[n]), Tail(rx[n])), <<>>)
          \/ Update(n, [a EXCEPT !.turn = startState(n), !.hbAwait = TRUE],
                    Rest(Head(rx[n]), Tail(rx[n])), <<>>)
      BY <1>6 DEF LinkAnswered
    <3>. HIDE DEF a
    <3>. QED
      BY <2>3, <3>1
  <2>5. a \in NodeType /\ a.wait = NoWait /\ left \in Seq(Frames) /\ <<>> \in Seq(Frames)
    BY <1>2, <2>1
  <2>. HIDE DEF a
  <2>6. PICK w \in NodeType : w.wait = NoWait /\ Update(n, w, left, <<>>)
    BY <2>2, <2>4, <2>5
  <2>. QED
    BY <1>3, <2>1, <2>5, <2>6, NodeStep
<1>7. CASE ResponseTimeout(n)
  <2>1. faults' \in [count : Nat, kinds : SUBSET FaultKind]
    <3>1. "late" \in FaultKind
      BY DEF FaultKind
    <3>. QED
      BY <1>3, <1>7, <3>1, FaultedType DEF ResponseTimeout
  <2>2. CASE Transaction(n)
    <3>1. ResetConnection(n, node[n], {node[n].wait.req})
      BY <1>7, <2>2 DEF ResponseTimeout
    <3>. QED
      BY <1>1, <1>3, <2>1, <2>2, <3>1, ResetStep
  <2>3. CASE ~ Transaction(n)
    <3>. DEFINE w == [TurnReset(n) EXCEPT !.hbAwait = IF node[n].wait.for = "Heartbeat" THEN TRUE ELSE @]
    <3>1. /\ node' = [node EXCEPT ![n] = w] /\ UNCHANGED <<rx, queue, req>>
      BY <1>7, <2>3 DEF ResponseTimeout
    <3>2. w \in NodeType /\ w.wait = NoWait
      <4>1. TurnReset(n) \in NodeType /\ TurnReset(n).wait = NoWait
        BY <1>3, TurnResetType
      <4>2. ASSUME NEW d \in NodeType
            PROVE  /\ [d EXCEPT !.hbAwait = IF node[n].wait.for = "Heartbeat" THEN TRUE ELSE @] \in NodeType
                   /\ [d EXCEPT !.hbAwait = IF node[n].wait.for = "Heartbeat" THEN TRUE ELSE @].wait = d.wait
        BY DEF NodeType
      <4>. QED
        BY <4>1, <4>2
    <3>. HIDE DEF w
    <3>3. node' \in [Node -> NodeType] /\ \A m \in Node : node'[m] = node[m] \/ node'[m].wait = NoWait
      BY <1>3, <3>1, <3>2, Typed
    <3>4. TypeOK'
      BY <1>3, <2>1, <3>1, <3>3, Typed DEF TypeOK, NodeType
    <3>5. Work'
      BY <1>3, <3>1, <3>3, QuietStep
    <3>. QED
      BY <3>4, <3>5 DEF IInv
  <2>. QED
    BY <2>2, <2>3
<1>. QED
  BY <1>4, <1>5, <1>6, <1>7 DEF Await

(***************************************************************************)
(* Users, time and faults.                                                 *)
(***************************************************************************)
LEMMA CheckStep == ASSUME IInv, NEW r \in Request, Check(r) PROVE IInv'
<1>1. /\ req[r].at = "new" /\ req' = [req EXCEPT ![r].at = "checked"]
      /\ UNCHANGED <<node, rx, queue, faults>>
  BY DEF Check
<1>2. req \in [Request -> ReqType] /\ QueueInv /\ WaitInv /\ CompletedOnce
  BY Typed DEF IInv, Work
<1>3. /\ req' \in [Request -> ReqType] /\ req'[r].at = "checked" /\ req'[r].done = req[r].done
      /\ \A x \in Request : x # r => req'[x] = req[x]
  BY <1>1, <1>2 DEF ReqType
<1>4. TypeOK'
  BY <1>1, <1>3, Typed DEF TypeOK, NodeType, ReqType, IInv
<1>5. QueueInv'
  <2>1. queue \in [Node -> [Kind -> Seq(Request)]]
    BY Typed DEF IInv
  <2>2. \A n \in Node, k \in Kind : \A i \in DOMAIN queue[n][k] :
           queue[n][k][i] \in Request /\ queue[n][k][i] # r
    BY <1>1, <1>2, <2>1 DEF QueueInv
  <2>. QED
    BY <1>1, <1>2, <1>3, <2>2 DEF QueueInv
<1>6. WaitInv'
  BY <1>1, <1>2, <1>3 DEF WaitInv, Transaction
<1>7. CompletedOnce'
  BY <1>1, <1>2, <1>3 DEF CompletedOnce
<1>. QED
  BY <1>4, <1>5, <1>6, <1>7 DEF IInv, Work

LEMMA Appends ==
    ASSUME NEW s \in Seq(Request), NEW r \in Request
    PROVE  /\ Append(s, r) \in Seq(Request)
           /\ \A i \in DOMAIN Append(s, r) :
                 (i \in DOMAIN s /\ Append(s, r)[i] = s[i]) \/ (i = Len(s) + 1 /\ Append(s, r)[i] = r)
OBVIOUS

LEMMA EnqueueStep == ASSUME IInv, NEW r \in Request, Enqueue(r) PROVE IInv'
<1>. USE Names
<1>. DEFINE n == Owner(r)
            k == KindOf(r)
<1>1. /\ req[r].at = "checked"
      /\ queue' = [queue EXCEPT ![n][k] = Append(@, r)]
      /\ req' = [req EXCEPT ![r].at = "queued"]
      /\ UNCHANGED <<rx, faults>>
  BY DEF Enqueue
<1>2. /\ req \in [Request -> ReqType] /\ QueueInv /\ WaitInv /\ CompletedOnce
      /\ queue \in [Node -> [Kind -> Seq(Request)]] /\ node \in [Node -> NodeType]
      /\ n \in Node /\ k \in Kind
  BY Typed, Kinds DEF IInv, Work
<1>3. /\ node' \in [Node -> NodeType] /\ \A m \in Node : node'[m].wait = node[m].wait
  <2>1. PICK b \in BOOLEAN : node' = [node EXCEPT !["master"].attention = b]
    <3>1. node' = [node EXCEPT !["master"].attention =
                     @ \/ (Owner(r) = "slave" /\ ~ Asserted /\ ready("master"))]
      BY DEF Enqueue
    <3>2. (node["master"].attention \/ (Owner(r) = "slave" /\ ~ Asserted /\ ready("master"))) \in BOOLEAN
      OBVIOUS
    <3>. QED
      BY <3>1, <3>2
  <2>2. ASSUME NEW d \in NodeType
        PROVE  [d EXCEPT !.attention = b] \in NodeType /\ [d EXCEPT !.attention = b].wait = d.wait
    BY DEF NodeType
  <2>. QED
    BY <1>2, <2>1, <2>2
<1>4. /\ req' \in [Request -> ReqType] /\ req'[r].at = "queued" /\ req'[r].done = req[r].done
      /\ \A x \in Request : x # r => req'[x] = req[x]
  BY <1>1, <1>2 DEF ReqType
<1>5. queue' \in [Node -> [Kind -> Seq(Request)]]
  <2>1. Append(queue[n][k], r) \in Seq(Request)
    BY <1>2
  <2>. HIDE DEF n, k
  <2>. QED
    BY <1>1, <1>2, <2>1
<1>6. n = Owner(r) /\ k = KindOf(r)
  OBVIOUS
<1>. HIDE DEF n, k
<1>7. QueueInv'
  <2>. SUFFICES ASSUME NEW m \in Node, NEW j \in Kind
                PROVE  /\ \A i \in DOMAIN queue'[m][j] :
                             /\ Owner(queue'[m][j][i]) = m /\ KindOf(queue'[m][j][i]) = j
                             /\ req'[queue'[m][j][i]].at = "queued"
                       /\ \A i, l \in DOMAIN queue'[m][j] :
                             queue'[m][j][i] = queue'[m][j][l] => i = l
    BY DEF QueueInv
  <2>1. /\ queue[m][j] \in Seq(Request)
        /\ \A i \in DOMAIN queue[m][j] : /\ queue[m][j][i] \in Request
                                         /\ Owner(queue[m][j][i]) = m
                                         /\ KindOf(queue[m][j][i]) = j
                                         /\ req[queue[m][j][i]].at = "queued"
        /\ \A i, l \in DOMAIN queue[m][j] : queue[m][j][i] = queue[m][j][l] => i = l
    BY <1>2 DEF QueueInv
  <2>2. \A i \in DOMAIN queue[m][j] : /\ queue[m][j][i] # r
                                       /\ req'[queue[m][j][i]] = req[queue[m][j][i]]
    BY <1>1, <1>4, <2>1
  <2>3. CASE m # n \/ j # k
    <3>1. queue'[m][j] = queue[m][j]
      BY <1>1, <1>2, <2>3
    <3>. QED
      BY <2>1, <2>2, <3>1
  <2>4. CASE m = n /\ j = k
    <3>1. queue'[m][j] = Append(queue[m][j], r)
      BY <1>1, <1>2, <2>4
    <3>2. \A i \in DOMAIN queue'[m][j] :
             \/ i \in DOMAIN queue[m][j] /\ queue'[m][j][i] = queue[m][j][i]
             \/ i = Len(queue[m][j]) + 1 /\ queue'[m][j][i] = r
      <4>1. queue[m][j] \in Seq(Request)
        BY <2>1
      <4>2. \A i \in DOMAIN Append(queue[m][j], r) :
               \/ i \in DOMAIN queue[m][j] /\ Append(queue[m][j], r)[i] = queue[m][j][i]
               \/ i = Len(queue[m][j]) + 1 /\ Append(queue[m][j], r)[i] = r
        BY <4>1, Appends
      <4>. QED
        BY <3>1, <4>2
    <3>3. Owner(r) = m /\ KindOf(r) = j
      BY <1>6, <2>4
    <3>. QED
      BY <1>4, <2>1, <2>2, <3>2, <3>3
  <2>. QED
    BY <2>3, <2>4
<1>8. WaitInv'
  <2>. SUFFICES ASSUME NEW m \in Node, Transaction(m)'
                PROVE  /\ node'[m].wait.req \in Request
                       /\ Owner(node'[m].wait.req) = m
                       /\ KindOf(node'[m].wait.req) = node'[m].wait.for /\ req'[node'[m].wait.req].at = "sent"
    BY DEF WaitInv
  <2>1. Transaction(m) /\ node'[m].wait = node[m].wait
    BY <1>3 DEF Transaction
  <2>2. /\ node[m].wait.req \in Request /\ Owner(node[m].wait.req) = m
        /\ KindOf(node[m].wait.req) = node[m].wait.for
        /\ req[node[m].wait.req].at = "sent"
    BY <1>2, <2>1 DEF WaitInv
  <2>. QED
    BY <1>1, <1>4, <2>1, <2>2
<1>9. CompletedOnce'
  BY <1>1, <1>2, <1>4 DEF CompletedOnce
<1>10. TypeOK'
  BY <1>1, <1>3, <1>4, <1>5, Typed DEF TypeOK, NodeType, ReqType, IInv
<1>. QED
  BY <1>7, <1>8, <1>9, <1>10 DEF IInv, Work

LEMMA OlderStep ==
    ASSUME IInv, NEW by \in {1, SilenceLimit}, Older(by), UNCHANGED <<rx, queue, req>>,
           faults' \in [count : Nat, kinds : SUBSET FaultKind]
    PROVE  IInv'
<1>1. ASSUME NEW n \in Node
      PROVE  node'[n] \in NodeType /\ node'[n].wait = node[n].wait
  <2>1. node[n] \in NodeType /\ node[n].heard \in 0 .. SilenceLimit
    BY Lines DEF IInv, NodeType
  <2>2. PICK due \in BOOLEAN, heard \in 0 .. SilenceLimit :
           node'[n] = [node[n] EXCEPT !.due = due, !.heard = heard]
    <3>1. node'[n] = [node[n] EXCEPT
             !.due = @ \/ (n = "master" /\ node[n].state # "Initial"),
             !.heard = IF ready(n) THEN IF @ + by > SilenceLimit THEN SilenceLimit ELSE @ + by
                       ELSE @]
      BY DEF Older
    <3>2. (node[n].due \/ (n = "master" /\ node[n].state # "Initial")) \in BOOLEAN
      OBVIOUS
    <3>3. (IF ready(n) THEN IF node[n].heard + by > SilenceLimit THEN SilenceLimit
                            ELSE node[n].heard + by
           ELSE node[n].heard) \in 0 .. SilenceLimit
      BY <2>1, Numbers
    <3>. QED
      BY <3>1, <3>2, <3>3
  <2>. QED
    BY <2>1, <2>2 DEF NodeType
<1>2. node' \in [Node -> NodeType]
  BY <1>1 DEF Older
<1>3. TypeOK'
  BY <1>2, Typed DEF TypeOK, NodeType, ReqType, IInv
<1>4. Work'
  BY <1>1, QuietStep
<1>. QED
  BY <1>3, <1>4 DEF IInv

LEMMA TickStep == ASSUME IInv, Tick PROVE IInv'
BY OlderStep, Lines DEF Tick, IInv

LEMMA StallStep == ASSUME IInv, Stall PROVE IInv'
<1>1. "stall" \in FaultKind
  BY DEF FaultKind
<1>. QED
  BY <1>1, OlderStep, FaultedType DEF Stall, IInv

\* Frames on the way are lost or damaged.
LEMMA LineStep ==
    ASSUME IInv, UNCHANGED <<node, queue, req>>, rx' \in [Node -> Seq(Frames)],
           NEW kind \in FaultKind, Faulted(kind)
    PROVE  IInv'
<1>1. faults' \in [count : Nat, kinds : SUBSET FaultKind]
  BY FaultedType DEF IInv
<1>2. TypeOK'
  BY <1>1, Typed DEF TypeOK, NodeType, ReqType, IInv
<1>3. Work'
  BY QuietStep
<1>. QED
  BY <1>2, <1>3 DEF IInv

LEMMA LoseStep == ASSUME IInv, NEW n \in Node, Lose(n) PROVE IInv'
<1>1. /\ Faulted("lose") /\ rx[n] # <<>> /\ UNCHANGED <<node, queue, req>>
      /\ rx' = [rx EXCEPT ![n] = SubSeq(@, 1, Len(@) - 1)]
  BY DEF Lose
<1>2. SubSeq(rx[n], 1, Len(rx[n]) - 1) \in Seq(Frames) /\ rx \in [Node -> Seq(Frames)]
  <2>1. rx[n] \in Seq(Frames) /\ rx \in [Node -> Seq(Frames)]
    BY Typed DEF IInv
  <2>2. \A i \in 1 .. Len(rx[n]) - 1 : rx[n][i] \in Frames
    BY <2>1
  <2>. QED
    BY <1>1, <2>1, <2>2
<1>3. rx' \in [Node -> Seq(Frames)] /\ "lose" \in FaultKind
  BY <1>1, <1>2 DEF FaultKind
<1>. QED
  BY <1>1, <1>3, LineStep

LEMMA DamageStep ==
    ASSUME IInv, NEW n \in Node, NEW part \in {"header", "payload"}, Damage(n, part)
    PROVE  IInv'
<1>1. /\ Faulted(part) /\ rx[n] # <<>> /\ UNCHANGED <<node, queue, req>>
      /\ rx' = [rx EXCEPT ![n][Len(rx[n])].damage = part]
  BY DEF Damage
<1>2. rx \in [Node -> Seq(Frames)] /\ rx[n] \in Seq(Frames) /\ Len(rx[n]) \in DOMAIN rx[n]
  BY <1>1, Typed DEF IInv
<1>3. [rx[n][Len(rx[n])] EXCEPT !.damage = part] \in Frames
  <2>1. rx[n][Len(rx[n])] \in Frames
    BY <1>2
  <2>. QED
    BY <2>1 DEF Frames
<1>4. rx'[n] = [rx[n] EXCEPT ![Len(rx[n])] = [rx[n][Len(rx[n])] EXCEPT !.damage = part]]
  BY <1>1, <1>2
<1>5. ASSUME NEW s \in Seq(Frames), NEW i \in DOMAIN s, NEW f \in Frames
      PROVE  [s EXCEPT ![i] = f] \in Seq(Frames)
  OBVIOUS
<1>6. rx'[n] \in Seq(Frames)
  BY <1>2, <1>3, <1>4, <1>5
<1>7. rx' \in [Node -> Seq(Frames)] /\ part \in FaultKind
  BY <1>1, <1>2, <1>6 DEF FaultKind
<1>. QED
  BY <1>1, <1>7, LineStep

LEMMA RebootStep == ASSUME IInv, NEW n \in Node, Reboot(n) PROVE IInv'
<1>1. /\ Faulted("reboot")
      /\ node' = [node EXCEPT ![n] = NodeInit(n)]
      /\ rx' = [rx EXCEPT ![n] = <<>>]
      /\ queue' = [queue EXCEPT ![n] = [k \in Kind |-> <<>>]]
      /\ req' = [r \in Request |->
                   IF Owner(r) = n /\ req[r].at \in {"checked", "queued", "sent"}
                   THEN [req[r] EXCEPT !.at = "gone"] ELSE req[r]]
  BY DEF Reboot
<1>2. /\ req \in [Request -> ReqType] /\ QueueInv /\ WaitInv /\ CompletedOnce
      /\ queue \in [Node -> [Kind -> Seq(Request)]] /\ node \in [Node -> NodeType]
      /\ rx \in [Node -> Seq(Frames)]
  BY Typed DEF IInv, Work
<1>3. NodeInit(n) \in NodeType /\ NodeInit(n).wait.for = "none"
  BY NodeInitType, NoWaitType
<1>4. /\ node' \in [Node -> NodeType] /\ rx' \in [Node -> Seq(Frames)]
      /\ queue' \in [Node -> [Kind -> Seq(Request)]]
      /\ node'[n].wait.for = "none" /\ \A k \in Kind : queue'[n][k] = <<>>
      /\ \A m \in Node \ {n} : node'[m] = node[m] /\ queue'[m] = queue[m]
  BY <1>1, <1>2, <1>3
<1>5. ASSUME NEW r \in Request
      PROVE  /\ req'[r] \in ReqType /\ req'[r].done = req[r].done
             /\ req'[r].at \in {"acked", "nacked"} <=> req[r].at \in {"acked", "nacked"}
             /\ Owner(r) # n => req'[r] = req[r]
  <2>1. req[r] \in ReqType
    BY <1>2
  <2>2. req'[r] = IF Owner(r) = n /\ req[r].at \in {"checked", "queued", "sent"}
                  THEN [req[r] EXCEPT !.at = "gone"] ELSE req[r]
    BY <1>1
  <2>. QED
    BY <2>1, <2>2 DEF ReqType
<1>6. faults' \in [count : Nat, kinds : SUBSET FaultKind]
  BY <1>1, FaultedType DEF IInv, FaultKind
<1>7. req' \in [Request -> ReqType]
  BY <1>1, <1>5
<1>8. TypeOK'
  BY <1>4, <1>6, <1>7 DEF TypeOK, NodeType, ReqType
<1>9. QueueInv'
  <2>. SUFFICES ASSUME NEW m \in Node, NEW k \in Kind
                PROVE  /\ \A i \in DOMAIN queue'[m][k] :
                             /\ Owner(queue'[m][k][i]) = m /\ KindOf(queue'[m][k][i]) = k
                             /\ req'[queue'[m][k][i]].at = "queued"
                       /\ \A i, j \in DOMAIN queue'[m][k] :
                             queue'[m][k][i] = queue'[m][k][j] => i = j
    BY DEF QueueInv
  <2>1. CASE m = n
    BY <1>4, <2>1
  <2>2. CASE m # n
    <3>1. queue'[m][k] = queue[m][k]
      BY <1>4, <2>2
    <3>2. \A i \in DOMAIN queue[m][k] : req'[queue[m][k][i]] = req[queue[m][k][i]]
      <4>1. \A i \in DOMAIN queue[m][k] : queue[m][k][i] \in Request /\ Owner(queue[m][k][i]) = m
        BY <1>2 DEF QueueInv
      <4>. QED
        BY <1>5, <2>2, <4>1
    <3>. QED
      BY <1>2, <3>1, <3>2 DEF QueueInv
  <2>. QED
    BY <2>1, <2>2
<1>10. WaitInv'
  <2>. SUFFICES ASSUME NEW m \in Node, Transaction(m)'
                PROVE  /\ node'[m].wait.req \in Request
                       /\ Owner(node'[m].wait.req) = m
                       /\ KindOf(node'[m].wait.req) = node'[m].wait.for /\ req'[node'[m].wait.req].at = "sent"
    BY DEF WaitInv
  <2>1. m # n /\ node'[m] = node[m] /\ Transaction(m)
    BY <1>4 DEF Transaction
  <2>. QED
    BY <1>2, <1>5, <2>1 DEF WaitInv
<1>11. CompletedOnce'
  BY <1>2, <1>5 DEF CompletedOnce
<1>. QED
  BY <1>8, <1>9, <1>10, <1>11 DEF IInv, Work

(***************************************************************************)
(* The theorems.                                                           *)
(***************************************************************************)
LEMMA StepIInv == IInv /\ [Next]_vars => IInv'
<1>. SUFFICES ASSUME IInv, [Next]_vars PROVE IInv'
  OBVIOUS
<1>1. CASE UNCHANGED vars
  BY <1>1 DEF vars, IInv, TypeOK, Work, QueueInv, WaitInv, Transaction, CompletedOnce
<1>2. ASSUME NEW r \in Request, Check(r) \/ Enqueue(r) PROVE IInv'
  BY <1>2, CheckStep, EnqueueStep
<1>3. ASSUME NEW n \in Node, TaskStep(n) PROVE IInv'
  <2>1. ASSUME Receive(n) PROVE IInv'
    BY <2>1, ReceiveStep, PollOutOfTurnStep DEF Receive
  <2>. QED
    BY <1>3, <2>1, ProcessOneStep, AwaitStep, HelloStep, MasterOnHelloStep, HeartbeatStepStep,
       SendTurnGrantStep, SlaveOnHelloStep, SilenceStepStep, SendNopExchangeStep DEF TaskStep
<1>4. CASE Tick
  BY <1>4, TickStep
<1>5. CASE Environment
  BY <1>5, StallStep, LoseStep, RebootStep, DamageStep DEF Environment
<1>. QED
  BY <1>1, <1>2, <1>3, <1>4, <1>5 DEF Next

\* The inductive invariant holds in every reachable state, whatever is lost,
\* damaged, late or restarted, and however often.
THEOREM Inductive == Spec => []IInv
BY InitIInv, StepIInv, PTL DEF Spec

\* Every field of both nodes, their buffers and queues keeps its type, and a
\* node never counts as many missed heartbeats as reset the link (Node.hpp).
THEOREM TypeCorrect == Spec => []TypeOK
<1>1. IInv => TypeOK
  BY DEF IInv
<1>. QED
  BY <1>1, Inductive, PTL

\* Every request is completed by exactly one call of its callbacks, whether the
\* peer answers, the write fails or a reset empties the queues
\* (_processOneSend, _failPendingTransactions), under any number of faults.
THEOREM ExactlyOnce == Spec => []CompletedOnce
<1>1. IInv => CompletedOnce
  BY DEF IInv, Work
<1>. QED
  BY <1>1, Inductive, PTL

(***************************************************************************)
(* What an ack is worth.  A request is on the line in at most one frame,   *)
(* and from its delivery on in none; each answer that accepts one was made *)
(* by a delivery, and is used up by the completion it brings.              *)
(***************************************************************************)
Unsent == {"new", "checked", "queued"}
Marked == Kind \cup {"Ack", "Response"}
AckOf(k) == IF k = "Data" THEN "Ack" ELSE "Response"

OnTheWay ==
    \A n \in Node : \A i \in DOMAIN rx[n] :
        LET r == rx[n][i].req IN
        rx[n][i].type \in Kind =>
            /\ r \in Request /\ Owner(r) = Peer(n) /\ KindOf(r) = rx[n][i].type
            /\ req[r].at \notin Unsent /\ req[r].delivered = 0
            /\ \A j \in DOMAIN rx[n] : rx[n][j].type \in Kind /\ rx[n][j].req = r => j = i

\* The answers on their way to n that accept one of its requests.
Answers(n, k) == {i \in DOMAIN rx[n] : rx[n][i].type = AckOf(k)}

Earned ==
    \A n \in Node, k \in Kind :
        Cardinality(Acked(n, k)) + Cardinality(Answers(n, k)) <= Cardinality(Handled(n, k))

Worth == TakenOnce /\ OnTheWay /\ Earned

\* The steps, by what they do to requests and to the frames that carry them: d
\* frames are read, others may be lost, and at most f is new.
Kept(n, d) ==
    \A i \in DOMAIN rx'[n] : rx'[n][i].type \in Marked =>
        /\ i + d \in DOMAIN rx[n]
        /\ rx'[n][i].type = rx[n][i + d].type /\ rx'[n][i].req = rx[n][i + d].req

Calm ==
    \A r \in Request : /\ req'[r].at \in Unsent => req[r].at \in Unsent
                       /\ req'[r].at = "acked" => req[r].at = "acked"
                       /\ req'[r].delivered = req[r].delivered

Drops(n) == Calm /\ \E d \in {0, 1} : Kept(n, d) /\ Kept(Peer(n), 0)

Added(n, f) == rx'[n] = rx[n] \/ rx'[n] = Append(rx[n], f)

Sends(n) ==
    \E r, f :
        /\ r \in Request
        /\ f.type = KindOf(r) /\ f.req = r /\ Owner(r) = n /\ req[r].at = "queued"
        /\ rx'[n] = rx[n] /\ Added(Peer(n), f)
        /\ req' = [req EXCEPT ![r].at = "sent"]

Takes(n) ==
    \E f :
        /\ rx[n] # <<>> /\ Head(rx[n]).type \in Kind
        /\ f.type \in Marked => f.type = AckOf(Head(rx[n]).type)
        /\ rx'[n] = Tail(rx[n]) /\ Added(Peer(n), f)
        /\ req' = [req EXCEPT ![Head(rx[n]).req].delivered = @ + 1]

Ends(n) ==
    /\ Transaction(n) /\ rx[n] # <<>> /\ Head(rx[n]).type = AckOf(node[n].wait.for)
    /\ rx'[n] = Tail(rx[n]) /\ rx'[Peer(n)] = rx[Peer(n)]
    /\ req' = Completed({node[n].wait.req}, "acked")

LEMMA LinesAre ==
    ASSUME TypeOK, NEW n \in Node
    PROVE  /\ rx[n] \in Seq(Frames) /\ DOMAIN rx[n] = 1 .. Len(rx[n]) /\ Len(rx[n]) \in Nat
           /\ \A i \in DOMAIN rx[n] : i \in Nat /\ i >= 1 /\ rx[n][i] \in Frames
BY Typed

LEMMA LinesAfter ==
    ASSUME TypeOK', NEW n \in Node
    PROVE  /\ rx'[n] \in Seq(Frames) /\ DOMAIN rx'[n] = 1 .. Len(rx'[n]) /\ Len(rx'[n]) \in Nat
           /\ \A i \in DOMAIN rx'[n] : i \in Nat /\ i >= 1 /\ rx'[n][i] \in Frames
BY DEF TypeOK

LEMMA AckNames ==
    /\ \A k \in Kind : AckOf(k) \in {"Ack", "Response"} /\ AckOf(k) \in Marked
                       /\ AckOf(k) \notin Kind /\ k \in Marked
    /\ \A k, l \in Kind : AckOf(k) = AckOf(l) => k = l
BY DEF AckOf, Kind, Marked

LEMMA Sets ==
    ASSUME TypeOK, NEW n \in Node, NEW k \in Kind
    PROVE  /\ IsFiniteSet(Acked(n, k)) /\ IsFiniteSet(Handled(n, k)) /\ IsFiniteSet(Answers(n, k))
           /\ Cardinality(Acked(n, k)) \in Nat /\ Cardinality(Handled(n, k)) \in Nat
           /\ Cardinality(Answers(n, k)) \in Nat
<1>1. IsFiniteSet(Acked(n, k)) /\ IsFiniteSet(Handled(n, k))
  <2>1. IsFiniteSet(Request) /\ Acked(n, k) \in SUBSET Request /\ Handled(n, k) \in SUBSET Request
    BY Rs485Assumption DEF Acked, Handled
  <2>. QED  BY <2>1, FS_Subset
<1>2. IsFiniteSet(Answers(n, k))
  <2>1. Answers(n, k) \in SUBSET (1 .. Len(rx[n])) /\ Len(rx[n]) \in Nat
    BY LinesAre DEF Answers
  <2>2. IsFiniteSet(1 .. Len(rx[n]))
    BY <2>1, FS_Interval
  <2>. QED  BY <2>1, <2>2, FS_Subset
<1>. QED  BY <1>1, <1>2, FS_CardinalityType

LEMMA SetsAfter ==
    ASSUME TypeOK', NEW n \in Node, NEW k \in Kind
    PROVE  /\ IsFiniteSet(Acked(n, k)') /\ IsFiniteSet(Answers(n, k)')
           /\ Cardinality(Acked(n, k)') \in Nat /\ Cardinality(Answers(n, k)') \in Nat
<1>1. IsFiniteSet(Acked(n, k)')
  <2>1. IsFiniteSet(Request) /\ Acked(n, k)' \in SUBSET Request
    BY Rs485Assumption DEF Acked
  <2>. QED  BY <2>1, FS_Subset
<1>2. IsFiniteSet(Answers(n, k)')
  <2>1. Answers(n, k)' \in SUBSET (1 .. Len(rx'[n])) /\ Len(rx'[n]) \in Nat
    BY LinesAfter DEF Answers
  <2>2. IsFiniteSet(1 .. Len(rx'[n]))
    BY <2>1, FS_Interval
  <2>. QED  BY <2>1, <2>2, FS_Subset
<1>. QED  BY <1>1, <1>2, FS_CardinalityType

\* Reading and losing frames makes no answers.
LEMMA AnswersKept ==
    ASSUME TypeOK, NEW n \in Node, NEW k \in Kind, NEW d \in {0, 1}, NEW S \in SUBSET Answers(n, k),
           \A i \in Answers(n, k)' : i \in Int /\ i + d \in S
    PROVE  Cardinality(Answers(n, k)') <= Cardinality(S)
<1>. DEFINE A == Answers(n, k)'
            h == [i \in A |-> i + d]
<1>1. h \in [A -> S]
  OBVIOUS
<1>2. \A i, j \in A : h[i] = h[j] => i = j
  <2>1. \A i \in A : i \in Int /\ h[i] = i + d
    OBVIOUS
  <2>2. d \in Int
    OBVIOUS
  <2>3. ASSUME NEW i \in A, NEW j \in A, h[i] = h[j] PROVE i = j
    <3>1. i \in Int /\ j \in Int /\ i + d = j + d
      BY <2>1, <2>3
    <3>. QED  BY <2>2, <3>1
  <2>. QED  BY <2>3
<1>3. h \in Injection(A, S)
  BY <1>1, <1>2 DEF Injection, IsInjective
<1>4. IsFiniteSet(S)
  BY Sets, FS_Subset
<1>. HIDE DEF A, h
<1>5. Cardinality(A) <= Cardinality(S)
  BY <1>3, <1>4, FS_Injection
<1>. QED  BY <1>5 DEF A

LEMMA FewerAnswers ==
    ASSUME TypeOK, TypeOK', NEW n \in Node, NEW k \in Kind, NEW d \in {0, 1}, Kept(n, d)
    PROVE  Cardinality(Answers(n, k)') <= Cardinality(Answers(n, k))
<1>1. \A i \in Answers(n, k)' : i \in Int /\ i + d \in Answers(n, k)
  <2>1. \A i \in DOMAIN rx'[n] : i \in Nat
    BY LinesAfter
  <2>. SUFFICES ASSUME NEW i \in DOMAIN rx'[n], rx'[n][i].type = AckOf(k)
                PROVE  i \in Int /\ i + d \in Answers(n, k)
    BY DEF Answers
  <2>2. rx'[n][i].type \in Marked
    BY AckNames
  <2>. QED  BY <2>1, <2>2 DEF Kept, Answers
<1>. QED  BY <1>1, AnswersKept

LEMMA OneAnswerLess ==
    ASSUME TypeOK, TypeOK', NEW n \in Node, NEW k \in Kind, Kept(n, 1),
           rx[n] # <<>>, Head(rx[n]).type = AckOf(k)
    PROVE  Cardinality(Answers(n, k)') + 1 <= Cardinality(Answers(n, k))
<1>. DEFINE S == Answers(n, k) \ {1}
<1>1. \A i \in Answers(n, k)' : i \in Int /\ i + 1 \in S
  <2>1. \A i \in DOMAIN rx'[n] : i \in Nat /\ i >= 1
    BY LinesAfter
  <2>. SUFFICES ASSUME NEW i \in DOMAIN rx'[n], rx'[n][i].type = AckOf(k)
                PROVE  i \in Int /\ i + 1 \in Answers(n, k) /\ i + 1 # 1
    BY DEF Answers
  <2>2. rx'[n][i].type \in Marked /\ i \in Nat /\ i >= 1
    BY <2>1, AckNames
  <2>. QED  BY <2>1, <2>2 DEF Kept, Answers
<1>2. 1 \in Answers(n, k)
  BY LinesAre DEF Answers
<1>3. Cardinality(Answers(n, k)') <= Cardinality(S)
  BY <1>1, AnswersKept
<1>4. Cardinality(S) = Cardinality(Answers(n, k)) - 1
  BY <1>2, Sets, FS_RemoveElement
<1>5. Cardinality(Answers(n, k)') \in Nat /\ Cardinality(Answers(n, k)) \in Nat
  BY Sets, SetsAfter
<1>. HIDE DEF S
<1>. QED  BY <1>3, <1>4, <1>5

LEMMA OneAnswerMore ==
    ASSUME TypeOK, NEW n \in Node, NEW k \in Kind, NEW f, Added(n, f)
    PROVE  /\ Cardinality(Answers(n, k)') <= Cardinality(Answers(n, k)) + 1
           /\ f.type # AckOf(k) => Cardinality(Answers(n, k)') <= Cardinality(Answers(n, k))
<1>1. CASE rx'[n] = rx[n]
  <2>1. Answers(n, k)' = Answers(n, k)
    BY <1>1 DEF Answers
  <2>. QED  BY <2>1, Sets
<1>2. CASE rx'[n] = Append(rx[n], f)
  <2>. DEFINE m == Len(rx[n]) + 1
  <2>1. /\ DOMAIN rx'[n] = DOMAIN rx[n] \cup {m} /\ m \notin DOMAIN rx[n] /\ rx'[n][m] = f
        /\ \A i \in DOMAIN rx[n] : rx'[n][i] = rx[n][i]
    BY <1>2, LinesAre
  <2>2. Answers(n, k)' = IF f.type = AckOf(k) THEN Answers(n, k) \cup {m} ELSE Answers(n, k)
    BY <2>1 DEF Answers
  <2>3. m \notin Answers(n, k)
    BY <2>1 DEF Answers
  <2>. HIDE DEF m
  <2>4. Cardinality(Answers(n, k) \cup {m}) = Cardinality(Answers(n, k)) + 1
    BY <2>3, Sets, FS_AddElement
  <2>. QED  BY <2>2, <2>4, Sets
<1>. QED  BY <1>1, <1>2 DEF Added

LEMMA FramesKept ==
    ASSUME TypeOK', OnTheWay, \A m \in Node : \E e \in {0, 1} : Kept(m, e),
           \A r \in Request : /\ req'[r].at \in Unsent => req[r].at \in Unsent
                              /\ req'[r].delivered = req[r].delivered
    PROVE  OnTheWay'
<1>. SUFFICES ASSUME NEW m \in Node, NEW i \in DOMAIN rx'[m], rx'[m][i].type \in Kind
              PROVE  LET r == rx'[m][i].req IN
                     /\ r \in Request /\ Owner(r) = Peer(m) /\ KindOf(r) = rx'[m][i].type
                     /\ req'[r].at \notin Unsent /\ req'[r].delivered = 0
                     /\ \A j \in DOMAIN rx'[m] :
                           rx'[m][j].type \in Kind /\ rx'[m][j].req = r => j = i
  BY DEF OnTheWay
<1>1. PICK e \in {0, 1} : Kept(m, e)
  OBVIOUS
<1>2. \A j \in DOMAIN rx'[m] : j \in Nat
  BY LinesAfter
<1>3. \A j \in DOMAIN rx'[m] : rx'[m][j].type \in Kind =>
         /\ j + e \in DOMAIN rx[m] /\ rx'[m][j].type = rx[m][j + e].type
         /\ rx'[m][j].req = rx[m][j + e].req
  BY <1>1, AckNames DEF Kept
<1>. DEFINE r == rx[m][i + e].req
<1>4. /\ r \in Request /\ Owner(r) = Peer(m) /\ KindOf(r) = rx'[m][i].type
      /\ req[r].at \notin Unsent /\ req[r].delivered = 0 /\ r = rx'[m][i].req
      /\ \A j \in DOMAIN rx[m] : rx[m][j].type \in Kind /\ rx[m][j].req = r => j = i + e
  BY <1>3 DEF OnTheWay
<1>. HIDE DEF r
<1>5. req'[r].at \notin Unsent /\ req'[r].delivered = 0
  BY <1>4
<1>6. \A j \in DOMAIN rx'[m] : rx'[m][j].type \in Kind /\ rx'[m][j].req = r => j = i
  BY <1>2, <1>3, <1>4
<1>. QED  BY <1>4, <1>5, <1>6

\* Frames that were read, or that stay, and requests left alone.
LEMMA DropsStep ==
    ASSUME TypeOK, TypeOK', Worth, NEW n \in Node, Drops(n)
    PROVE  Worth'
<1>1. PICK d \in {0, 1} : Kept(n, d) /\ Kept(Peer(n), 0)
  BY DEF Drops
<1>2. Calm /\ TakenOnce /\ OnTheWay /\ Earned
  BY DEF Drops, Worth
<1>3. \A m \in Node : \E e \in {0, 1} : Kept(m, e)
  BY <1>1 DEF Node, Peer
<1>4. TakenOnce'
  BY <1>2 DEF Calm, TakenOnce, Unsent
<1>5. OnTheWay'
  BY <1>2, <1>3, FramesKept DEF Calm
<1>6. Earned'
  <2>. SUFFICES ASSUME NEW m \in Node, NEW k \in Kind
                PROVE  Cardinality(Acked(m, k)') + Cardinality(Answers(m, k)')
                          <= Cardinality(Handled(m, k)')
    BY DEF Earned
  <2>1. Acked(m, k)' \in SUBSET Acked(m, k) /\ Handled(m, k)' = Handled(m, k)
    BY <1>2 DEF Calm, Acked, Handled
  <2>2. Cardinality(Acked(m, k)') <= Cardinality(Acked(m, k))
    BY <2>1, Sets, FS_Subset
  <2>3. Cardinality(Answers(m, k)') <= Cardinality(Answers(m, k))
    BY <1>3, FewerAnswers
  <2>4. Cardinality(Acked(m, k)') \in Nat /\ Cardinality(Answers(m, k)') \in Nat
    BY SetsAfter
  <2>. QED  BY <1>2, <2>1, <2>2, <2>3, <2>4, Sets DEF Earned
<1>. QED  BY <1>4, <1>5, <1>6 DEF Worth

\* A request goes on the line for the first and only time.
LEMMA SendsStep ==
    ASSUME TypeOK, TypeOK', Worth, NEW n \in Node, Sends(n)
    PROVE  Worth'
<1>1. PICK r, f :
        /\ r \in Request
        /\ f.type = KindOf(r) /\ f.req = r /\ Owner(r) = n /\ req[r].at = "queued"
        /\ rx'[n] = rx[n] /\ Added(Peer(n), f)
        /\ req' = [req EXCEPT ![r].at = "sent"]
  BY DEF Sends
<1>2. TakenOnce /\ OnTheWay /\ Earned /\ KindOf(r) \in Kind /\ req[r].delivered = 0
  BY <1>1, Kinds DEF Worth, TakenOnce
<1>3. /\ \A x \in Request : x # r => req'[x] = req[x]
      /\ req'[r].at = "sent" /\ req'[r].delivered = req[r].delivered
  <2>1. req \in [Request -> ReqType]
    BY Typed
  <2>. QED  BY <1>1, <2>1 DEF ReqType
<1>4. TakenOnce'
  BY <1>2, <1>3 DEF TakenOnce
<1>5. OnTheWay'
  <2>. SUFFICES ASSUME NEW m \in Node, NEW i \in DOMAIN rx'[m], rx'[m][i].type \in Kind
                PROVE  LET x == rx'[m][i].req IN
                       /\ x \in Request /\ Owner(x) = Peer(m) /\ KindOf(x) = rx'[m][i].type
                       /\ req'[x].at \notin Unsent /\ req'[x].delivered = 0
                       /\ \A j \in DOMAIN rx'[m] :
                             rx'[m][j].type \in Kind /\ rx'[m][j].req = x => j = i
    BY DEF OnTheWay
  <2>1. ASSUME NEW j \in DOMAIN rx[m], rx[m][j].type \in Kind
        PROVE  /\ rx[m][j].req \in Request /\ rx[m][j].req # r
               /\ req'[rx[m][j].req] = req[rx[m][j].req]
    BY <1>1, <1>2, <1>3, <2>1 DEF OnTheWay, Unsent
  <2>2. CASE rx'[m] = rx[m]
    BY <1>2, <2>1, <2>2 DEF OnTheWay
  <2>3. CASE m = Peer(n) /\ rx'[m] = Append(rx[m], f)
    <3>. DEFINE e == Len(rx[m]) + 1
    <3>1. /\ DOMAIN rx'[m] = DOMAIN rx[m] \cup {e} /\ e \notin DOMAIN rx[m] /\ rx'[m][e] = f
          /\ \A j \in DOMAIN rx[m] : rx'[m][j] = rx[m][j]
      BY <2>3, LinesAre
    <3>. HIDE DEF e
    <3>2. Peer(m) = n
      BY <2>3 DEF Node, Peer
    <3>3. CASE i = e
      <4>1. \A j \in DOMAIN rx[m] : rx'[m][j].type \in Kind => rx'[m][j].req # r
        BY <2>1, <3>1
      <4>. QED  BY <1>1, <1>2, <1>3, <3>1, <3>2, <3>3, <4>1 DEF Unsent
    <3>4. CASE i \in DOMAIN rx[m]
      <4>1. rx[m][i].type \in Kind /\ rx'[m][i].req = rx[m][i].req /\ f.req # rx[m][i].req
        BY <1>1, <2>1, <3>1, <3>4
      <4>. QED  BY <1>2, <2>1, <3>1, <3>4, <4>1 DEF OnTheWay
    <3>. QED  BY <3>1, <3>3, <3>4
  <2>. QED  BY <1>1, <2>2, <2>3 DEF Added, Node, Peer
<1>6. Earned'
  <2>. SUFFICES ASSUME NEW m \in Node, NEW k \in Kind
                PROVE  Cardinality(Acked(m, k)') + Cardinality(Answers(m, k)')
                          <= Cardinality(Handled(m, k)')
    BY DEF Earned
  <2>1. Acked(m, k)' = Acked(m, k) /\ Handled(m, k)' = Handled(m, k)
    <3>1. \A x \in Request : /\ (req'[x].at = "acked") = (req[x].at = "acked")
                             /\ req'[x].delivered = req[x].delivered
      BY <1>1, <1>3
    <3>. QED  BY <3>1 DEF Acked, Handled
  <2>2. f.type # AckOf(k)
    BY <1>1, <1>2, AckNames
  <2>3. Added(m, f)
    BY <1>1 DEF Added, Node, Peer
  <2>4. Cardinality(Answers(m, k)') <= Cardinality(Answers(m, k))
    BY <2>2, <2>3, OneAnswerMore
  <2>. QED  BY <1>2, <2>1, <2>4, Sets, SetsAfter DEF Earned
<1>. QED  BY <1>4, <1>5, <1>6 DEF Worth

LEMMA TailOf ==
    ASSUME TypeOK, TypeOK', NEW n \in Node, rx[n] # <<>>, rx'[n] = Tail(rx[n])
    PROVE  /\ Kept(n, 1) /\ 1 \in DOMAIN rx[n] /\ Head(rx[n]) = rx[n][1]
           /\ \A i \in DOMAIN rx'[n] : /\ i \in Nat /\ i + 1 \in DOMAIN rx[n] /\ i + 1 # 1
                                       /\ rx'[n][i] = rx[n][i + 1]
<1>1. rx[n] \in Seq(Frames)
  BY LinesAre
<1>2. /\ 1 \in DOMAIN rx[n] /\ Head(rx[n]) = rx[n][1]
      /\ \A i \in DOMAIN Tail(rx[n]) : /\ i \in Nat /\ i + 1 \in DOMAIN rx[n] /\ i + 1 # 1
                                       /\ Tail(rx[n])[i] = rx[n][i + 1]
  BY <1>1
<1>. QED  BY <1>2 DEF Kept

\* The peer's handler takes a request, which leaves the line, and at most one
\* answer says so.
LEMMA TakesStep ==
    ASSUME TypeOK, TypeOK', Worth, NEW n \in Node, Takes(n)
    PROVE  Worth'
<1>. DEFINE h == Head(rx[n])
            r == h.req
<1>1. PICK f :
        /\ rx[n] # <<>> /\ h.type \in Kind
        /\ f.type \in Marked => f.type = AckOf(h.type)
        /\ rx'[n] = Tail(rx[n]) /\ Added(Peer(n), f)
        /\ req' = [req EXCEPT ![r].delivered = @ + 1]
  BY DEF Takes
<1>2. TakenOnce /\ OnTheWay /\ Earned
  BY DEF Worth
<1>3. /\ Kept(n, 1) /\ 1 \in DOMAIN rx[n] /\ h = rx[n][1]
      /\ \A i \in DOMAIN rx'[n] : /\ i \in Nat /\ i + 1 \in DOMAIN rx[n] /\ i + 1 # 1
                                  /\ rx'[n][i] = rx[n][i + 1]
  BY <1>1, TailOf
<1>4. /\ r \in Request /\ Owner(r) = Peer(n) /\ KindOf(r) = h.type
      /\ req[r].at \notin Unsent /\ req[r].delivered = 0
      /\ \A j \in DOMAIN rx[n] : rx[n][j].type \in Kind /\ rx[n][j].req = r => j = 1
  BY <1>1, <1>2, <1>3 DEF OnTheWay
<1>. HIDE DEF h, r
<1>5. /\ \A x \in Request : x # r => req'[x] = req[x]
      /\ req'[r].at = req[r].at /\ req'[r].delivered = 1
  <2>1. req \in [Request -> ReqType]
    BY Typed
  <2>2. req'[r] = [req[r] EXCEPT !.delivered = @ + 1] /\ req[r] \in ReqType
    BY <1>1, <1>4, <2>1
  <2>3. \A x \in Request : x # r => req'[x] = req[x]
    BY <1>1, <2>1
  <2>. QED  BY <1>4, <2>2, <2>3 DEF ReqType
<1>6. TakenOnce'
  BY <1>2, <1>4, <1>5 DEF TakenOnce, Unsent
<1>7. Peer(n) \in Node /\ Peer(n) # n /\ Peer(Peer(n)) = n /\ Node = {n, Peer(n)}
  BY DEF Node, Peer
<1>8. OnTheWay'
  <2>. SUFFICES ASSUME NEW m \in Node, NEW i \in DOMAIN rx'[m], rx'[m][i].type \in Kind
                PROVE  LET x == rx'[m][i].req IN
                       /\ x \in Request /\ Owner(x) = Peer(m) /\ KindOf(x) = rx'[m][i].type
                       /\ req'[x].at \notin Unsent /\ req'[x].delivered = 0
                       /\ \A j \in DOMAIN rx'[m] :
                             rx'[m][j].type \in Kind /\ rx'[m][j].req = x => j = i
    BY DEF OnTheWay
  <2>1. CASE m = n
    <3>. DEFINE x == rx[n][i + 1].req
    <3>1. /\ x \in Request /\ Owner(x) = Peer(m) /\ KindOf(x) = rx'[m][i].type /\ x = rx'[m][i].req
          /\ req[x].at \notin Unsent /\ req[x].delivered = 0 /\ x # r
          /\ \A j \in DOMAIN rx[n] : rx[n][j].type \in Kind /\ rx[n][j].req = x => j = i + 1
      <4>1. i + 1 \in DOMAIN rx[n] /\ rx[n][i + 1] = rx'[m][i] /\ i + 1 # 1
        BY <1>3, <2>1
      <4>. QED  BY <1>2, <1>4, <2>1, <4>1 DEF OnTheWay
    <3>. HIDE DEF x
    <3>2. \A j \in DOMAIN rx'[m] : rx'[m][j].type \in Kind /\ rx'[m][j].req = x => j = i
      <4>1. i \in Nat
        BY <1>3, <2>1
      <4>2. ASSUME NEW j \in DOMAIN rx'[m], rx'[m][j].type \in Kind, rx'[m][j].req = x
            PROVE  j = i
        <5>1. j \in Nat /\ j + 1 \in DOMAIN rx[n] /\ rx'[m][j] = rx[n][j + 1]
          BY <1>3, <2>1
        <5>2. j + 1 = i + 1
          BY <3>1, <4>2, <5>1
        <5>. QED  BY <4>1, <5>1, <5>2
      <4>. QED  BY <4>2
    <3>. QED  BY <1>5, <3>1, <3>2
  <2>2. CASE m = Peer(n)
    <3>1. \A j \in DOMAIN rx'[m] : rx'[m][j].type \in Kind =>
             j \in DOMAIN rx[m] /\ rx'[m][j] = rx[m][j]
      <4>1. f.type \notin Kind
        BY <1>1, AckNames
      <4>2. ASSUME rx'[m] = Append(rx[m], f)
            PROVE  \A j \in DOMAIN rx'[m] : \/ j \in DOMAIN rx[m] /\ rx'[m][j] = rx[m][j]
                                            \/ rx'[m][j] = f
        BY <4>2, LinesAre
      <4>. QED  BY <1>1, <2>2, <4>1, <4>2 DEF Added
    <3>2. /\ rx[m][i].req \in Request /\ Owner(rx[m][i].req) = n
          /\ KindOf(rx[m][i].req) = rx[m][i].type
          /\ req[rx[m][i].req].at \notin Unsent /\ req[rx[m][i].req].delivered = 0
          /\ \A j \in DOMAIN rx[m] :
                rx[m][j].type \in Kind /\ rx[m][j].req = rx[m][i].req => j = i
      BY <1>2, <1>7, <2>2, <3>1 DEF OnTheWay
    <3>3. rx[m][i].req # r
      BY <1>4, <1>7, <3>2
    <3>. QED  BY <1>5, <1>7, <2>2, <3>1, <3>2, <3>3
  <2>. QED  BY <1>7, <2>1, <2>2
<1>9. Earned'
  <2>. SUFFICES ASSUME NEW m \in Node, NEW k \in Kind
                PROVE  Cardinality(Acked(m, k)') + Cardinality(Answers(m, k)')
                          <= Cardinality(Handled(m, k)')
    BY DEF Earned
  <2>1. Acked(m, k)' = Acked(m, k)
    <3>1. \A x \in Request : req'[x].at = req[x].at
      BY <1>5
    <3>. QED  BY <3>1 DEF Acked
  <2>2. CASE m = Peer(n) /\ k = h.type
    <3>1. Handled(m, k)' = Handled(m, k) \cup {r} /\ r \notin Handled(m, k)
      BY <1>4, <1>5, <2>2 DEF Handled
    <3>2. Cardinality(Handled(m, k)') = Cardinality(Handled(m, k)) + 1
      BY <3>1, Sets, FS_AddElement
    <3>3. Cardinality(Answers(m, k)') <= Cardinality(Answers(m, k)) + 1
      BY <1>1, <2>2, OneAnswerMore
    <3>. QED  BY <1>2, <2>1, <3>2, <3>3, Sets, SetsAfter DEF Earned
  <2>3. CASE ~ (m = Peer(n) /\ k = h.type)
    <3>1. Handled(m, k)' = Handled(m, k)
      <4>1. \A x \in Request : Owner(x) = m /\ KindOf(x) = k => x # r
        BY <1>4, <2>3
      <4>. QED  BY <1>5, <4>1 DEF Handled
    <3>2. Cardinality(Answers(m, k)') <= Cardinality(Answers(m, k))
      <4>1. CASE m = n
        BY <1>3, <4>1, FewerAnswers
      <4>2. CASE m = Peer(n)
        <5>1. f.type # AckOf(k)
          BY <1>1, <2>3, <4>2, AckNames
        <5>. QED  BY <1>1, <4>2, <5>1, OneAnswerMore
      <4>. QED  BY <1>7, <4>1, <4>2
    <3>. QED  BY <1>2, <2>1, <3>1, <3>2, Sets, SetsAfter DEF Earned
  <2>. QED  BY <2>2, <2>3
<1>. QED  BY <1>6, <1>8, <1>9 DEF Worth

\* An answer ends a transaction, and is read.
LEMMA EndsStep ==
    ASSUME IInv, TypeOK', Worth, NEW n \in Node, Ends(n)
    PROVE  Worth'
<1>. DEFINE h == Head(rx[n])
            r == node[n].wait.req
            k == KindOf(r)
<1>1. /\ Transaction(n) /\ rx[n] # <<>> /\ h.type = AckOf(node[n].wait.for)
      /\ rx'[n] = Tail(rx[n]) /\ rx'[Peer(n)] = rx[Peer(n)] /\ req' = Completed({r}, "acked")
  BY DEF Ends
<1>2. TakenOnce /\ OnTheWay /\ Earned /\ TypeOK
  BY DEF Worth, IInv
<1>3. /\ r \in Request /\ Owner(r) = n /\ KindOf(r) = node[n].wait.for /\ req[r].at = "sent"
  BY <1>1 DEF IInv, Work, WaitInv
<1>4. Kept(n, 1)
  BY <1>1, <1>2, TailOf
<1>. HIDE DEF h, r
<1>5. /\ \A x \in Request : x # r => req'[x] = req[x]
      /\ req'[r].at = "acked" /\ req'[r].delivered = req[r].delivered
  <2>1. req \in [Request -> ReqType]
    BY <1>2, Typed
  <2>. QED  BY <1>1, <1>3, <2>1 DEF Completed, ReqType
<1>6. TakenOnce'
  BY <1>2, <1>3, <1>5 DEF TakenOnce
<1>7. ASSUME NEW m \in Node PROVE \E e \in {0, 1} : Kept(m, e)
  <2>1. CASE m = n
    BY <1>4, <2>1
  <2>2. CASE m = Peer(n)
    <3>1. rx'[m] = rx[m] /\ \A i \in DOMAIN rx[m] : i + 0 = i
      BY <1>1, <1>2, <2>2, LinesAre
    <3>. QED  BY <3>1 DEF Kept
  <2>. QED  BY <2>1, <2>2 DEF Node, Peer
<1>8. OnTheWay'
  <2>1. \A x \in Request : /\ req'[x].at \in Unsent => req[x].at \in Unsent
                           /\ req'[x].delivered = req[x].delivered
    BY <1>5 DEF Unsent
  <2>. QED  BY <1>2, <1>7, <2>1, FramesKept
<1>9. Earned'
  <2>. SUFFICES ASSUME NEW m \in Node, NEW l \in Kind
                PROVE  Cardinality(Acked(m, l)') + Cardinality(Answers(m, l)')
                          <= Cardinality(Handled(m, l)')
    BY DEF Earned
  <2>1. Handled(m, l)' = Handled(m, l)
    <3>1. \A x \in Request : req'[x].delivered = req[x].delivered
      BY <1>5
    <3>. QED  BY <3>1 DEF Handled
  <2>2. CASE m = n /\ l = k
    <3>1. Acked(m, l)' = Acked(m, l) \cup {r} /\ r \notin Acked(m, l)
      BY <1>3, <1>5, <2>2 DEF Acked
    <3>2. Cardinality(Acked(m, l)') = Cardinality(Acked(m, l)) + 1
      BY <1>2, <3>1, Sets, FS_AddElement
    <3>3. Cardinality(Answers(m, l)') + 1 <= Cardinality(Answers(m, l))
      BY <1>1, <1>2, <1>3, <1>4, <2>2, OneAnswerLess DEF h
    <3>. QED  BY <1>2, <2>1, <3>2, <3>3, Sets, SetsAfter DEF Earned
  <2>3. CASE ~ (m = n /\ l = k)
    <3>1. Acked(m, l)' = Acked(m, l)
      <4>1. \A x \in Request : Owner(x) = m /\ KindOf(x) = l => x # r
        BY <1>3, <2>3
      <4>. QED  BY <1>5, <4>1 DEF Acked
    <3>2. Cardinality(Answers(m, l)') <= Cardinality(Answers(m, l))
      BY <1>2, <1>7, FewerAnswers
    <3>. QED  BY <1>2, <2>1, <3>1, <3>2, Sets, SetsAfter DEF Earned
  <2>. QED  BY <2>2, <2>3
<1>. QED  BY <1>6, <1>8, <1>9 DEF Worth

(***************************************************************************)
(* Every step is one of these.                                             *)
(***************************************************************************)
Moves == \E n \in Node : Drops(n) \/ Sends(n) \/ Takes(n) \/ Ends(n)

LEMMA UpdateLines ==
    ASSUME TypeOK, NEW n \in Node, NEW v, NEW left, NEW out, NEW f, Update(n, v, left, out),
           out = <<>> \/ out = <<f>>
    PROVE  rx'[n] = left /\ Added(Peer(n), f)
<1>1. rx \in [Node -> Seq(Frames)] /\ Peer(n) \in Node /\ Peer(n) # n
  BY Typed, Peers
<1>2. rx' = [rx EXCEPT ![n] = left, ![Peer(n)] = IF Len(@) < RxSize THEN @ \o out ELSE @]
  BY DEF Update
<1>3. rx[Peer(n)] \o <<>> = rx[Peer(n)] /\ rx[Peer(n)] \o <<f>> = Append(rx[Peer(n)], f)
  BY <1>1
<1>4. rx'[n] = left /\ rx'[Peer(n)] \in {rx[Peer(n)], rx[Peer(n)] \o out}
  BY <1>1, <1>2
<1>. QED  BY <1>3, <1>4 DEF Added

LEMMA CalmSteps ==
    ASSUME TypeOK
    PROVE  /\ UNCHANGED req => Calm
           /\ \A rs : req' = Completed(rs, "nacked") => Calm
<1>1. req \in [Request -> ReqType]
  BY Typed
<1>2. ASSUME NEW rs, req' = Completed(rs, "nacked") PROVE Calm
  BY <1>1, <1>2 DEF Completed, ReqType, Calm, Unsent
<1>. QED  BY <1>2 DEF Calm

\* What a node reads leaves its line, but for the bytes of a payload.
LEMMA LeftKept ==
    ASSUME TypeOK, NEW n \in Node,
           \/ rx'[n] = rx[n] \/ rx'[n] = <<>>
           \/ /\ rx[n] # <<>>
              /\ rx'[n] = Tail(rx[n]) \/ rx'[n] = Rest(Head(rx[n]), Tail(rx[n]))
    PROVE  \E d \in {0, 1} : Kept(n, d)
<1>1. rx[n] \in Seq(Frames) /\ Garbage.type \notin Marked
  BY LinesAre DEF Garbage, Make, Marked, Kind
<1>2. CASE rx'[n] = rx[n]
  <2>1. \A i \in DOMAIN rx[n] : i + 0 = i
    BY <1>1
  <2>2. Kept(n, 0)
    BY <1>2, <2>1 DEF Kept
  <2>. QED  BY <2>2
<1>3. CASE rx'[n] = <<>>
  BY <1>3 DEF Kept
<1>4. ASSUME rx[n] # <<>>, rx'[n] = Tail(rx[n]) PROVE Kept(n, 1)
  BY <1>1, <1>4 DEF Kept
<1>5. ASSUME rx[n] # <<>>, rx'[n] = <<Garbage>> \o Tail(rx[n]) PROVE Kept(n, 0)
  <2>1. \A i \in DOMAIN rx'[n] : \/ rx'[n][i] = Garbage
                                 \/ i + 0 \in DOMAIN rx[n] /\ rx'[n][i] = rx[n][i + 0]
    BY <1>1, <1>5
  <2>. QED  BY <1>1, <2>1 DEF Kept
<1>. QED  BY <1>2, <1>3, <1>4, <1>5 DEF Rest

LEMMA AddedKept ==
    ASSUME TypeOK, NEW n \in Node, NEW f, Added(n, f), f.type \notin Marked
    PROVE  Kept(n, 0)
<1>1. rx[n] \in Seq(Frames)
  BY LinesAre
<1>2. \A i \in DOMAIN rx'[n] : \/ rx'[n][i] = f
                               \/ i + 0 \in DOMAIN rx[n] /\ rx'[n][i] = rx[n][i + 0]
  BY <1>1 DEF Added
<1>. QED  BY <1>2 DEF Kept

\* A node that reads, loses or keeps its frames and puts none of a request on
\* the line.
LEMMA QuietLines ==
    ASSUME TypeOK, NEW n \in Node, NEW v, NEW left, NEW out, NEW f, Update(n, v, left, out),
           out = <<>> \/ (out = <<f>> /\ f.type \notin Marked),
           \/ left = rx[n] \/ left = <<>>
           \/ rx[n] # <<>> /\ (left = Tail(rx[n]) \/ left = Rest(Head(rx[n]), Tail(rx[n]))),
           Calm
    PROVE  Moves
<1>1. rx'[n] = left
  BY UpdateLines
<1>2. Kept(Peer(n), 0)
  <2>1. CASE out = <<>>
    <3>1. Added(Peer(n), Garbage) /\ Garbage.type \notin Marked
      BY <2>1, UpdateLines DEF Garbage, Make, Marked, Kind
    <3>. QED  BY <3>1, AddedKept, Peers
  <2>2. CASE out = <<f>> /\ f.type \notin Marked
    BY <2>2, UpdateLines, AddedKept, Peers
  <2>. QED  BY <2>1, <2>2
<1>3. \E d \in {0, 1} : Kept(n, d)
  BY <1>1, LeftKept
<1>. QED  BY <1>2, <1>3 DEF Drops, Moves

LEMMA StillLines ==
    ASSUME TypeOK, UNCHANGED rx, Calm
    PROVE  Moves
<1>1. \A n \in Node : Kept(n, 0)
  <2>. SUFFICES ASSUME NEW n \in Node PROVE Kept(n, 0)
    OBVIOUS
  <2>1. \A i \in DOMAIN rx[n] : i + 0 = i
    BY LinesAre
  <2>. QED  BY <2>1 DEF Kept
<1>. QED  BY <1>1, Peers, Names DEF Drops, Moves

LEMMA ResetMoves ==
    ASSUME TypeOK, NEW n \in Node, NEW v, NEW current, ResetConnection(n, v, current)
    PROVE  Moves
<1>1. Update(n, Disconnected(n, v), <<>>, <<>>) /\ Calm
  BY CalmSteps DEF ResetConnection
<1>. QED  BY <1>1, QuietLines

LEMMA OutIs ==
    ASSUME NEW written, NEW type, NEW seq, NEW to, NEW r
    PROVE  /\ Make(type, seq, to, r).type = type
           /\ \/ Out(written, Make(type, seq, to, r)) = <<>>
              \/ Out(written, Make(type, seq, to, r)) = <<Make(type, seq, to, r)>>
BY DEF Out, Make

LEMMA Unmarked ==
    /\ "Nop" \notin Marked /\ "Hello" \notin Marked /\ "Heartbeat" \notin Marked
    /\ "Nack" \notin Marked /\ "Grant" \notin Marked
BY DEF Marked, Kind

\* A reaction is written or not; whatever else it is, it is of its type.
LEMMA ReactLines ==
    ASSUME TypeOK, NEW n \in Node, NEW v, NEW left, NEW f, NEW type, React(n, v, left, f, type)
    PROVE  \E w, out, g : /\ Update(n, w, left, out) /\ g.type = type
                          /\ out = <<>> \/ out = <<g>>
<1>. DEFINE g == Make(type, v.seq, f.seq, IF type = "Response" THEN f.req ELSE None)
<1>1. \E w, out : Update(n, w, left, out) /\ (out = <<>> \/ out = <<g>>)
  BY OutIs DEF React
<1>2. g.type = type
  BY OutIs
<1>. QED  BY <1>1, <1>2

LEMMA ReactMoves ==
    ASSUME TypeOK, NEW n \in Node, NEW v, NEW f, NEW type, rx[n] # <<>>,
           React(n, v, Tail(rx[n]), f, type), type \notin Marked, Calm
    PROVE  Moves
<1>1. PICK w, out, g : /\ Update(n, w, Tail(rx[n]), out) /\ g.type = type
                       /\ out = <<>> \/ out = <<g>>
  BY ReactLines
<1>. QED  BY <1>1, QuietLines

LEMMA HelloMoves ==
    ASSUME TypeOK, Hello \/ MasterOnHello \/ SlaveOnHello
    PROVE  Moves
<1>. USE Names, Unmarked
<1>1. Calm
  BY CalmSteps DEF Hello, MasterOnHello, SlaveOnHello
<1>2. CASE Hello
  <2>1. PICK v, out, f : /\ Update("master", v, rx["master"], out) /\ f.type = "Hello"
                         /\ out = <<>> \/ out = <<f>>
    <3>1. PICK v, written, seq :
             Update("master", v, rx["master"], Out(written, Make("Hello", seq, 0, None)))
      BY <1>2 DEF Hello
    <3>. QED  BY <3>1, OutIs
  <2>. QED  BY <1>1, <2>1, QuietLines
<1>3. CASE MasterOnHello
  <2>1. PICK v : Update("master", v, Tail(rx["master"]), <<>>) /\ rx["master"] # <<>>
    BY <1>3 DEF MasterOnHello, Incoming
  <2>. QED  BY <1>1, <2>1, QuietLines
<1>4. CASE SlaveOnHello
  <2>1. PICK v, out, f : /\ Update("slave", v, Tail(rx["slave"]), out) /\ f.type = "Hello"
                         /\ out = <<>> \/ out = <<f>>
    <3>1. \/ \E v : Update("slave", v, Tail(rx["slave"]), <<>>)
          \/ \E v, written, seq, to :
                Update("slave", v, Tail(rx["slave"]), Out(written, Make("Hello", seq, to, None)))
      BY <1>4 DEF SlaveOnHello
    <3>2. Make("Hello", 0, 0, None).type = "Hello" /\ rx["slave"] # <<>>
      BY <1>4, OutIs DEF SlaveOnHello, Incoming
    <3>. QED  BY <3>1, <3>2, OutIs
  <2>2. rx["slave"] # <<>>
    BY <1>4 DEF SlaveOnHello, Incoming
  <2>. QED  BY <1>1, <2>1, <2>2, QuietLines
<1>. QED  BY <1>2, <1>3, <1>4

LEMMA ReceiveMoves ==
    ASSUME TypeOK, NEW n \in Node, Receive(n)
    PROVE  Moves
<1>. USE Unmarked
<1>1. ASSUME UNCHANGED req PROVE Calm
  BY <1>1, CalmSteps
<1>2. CASE ReceiveUnreadable(n)
  <2>1. CASE ResetConnection(n, node[n], {})
    BY <2>1, ResetMoves
  <2>2. CASE /\ Update(n, TurnReset(n), Rest(Head(rx[n]), Tail(rx[n])), <<>>)
             /\ UNCHANGED <<queue, req>>
    BY <1>1, <1>2, <2>2, QuietLines DEF ReceiveUnreadable, Incoming
  <2>. QED  BY <1>2, <2>1, <2>2 DEF ReceiveUnreadable
<1>3. CASE ReceiveStale(n)
  BY <1>1, <1>3, QuietLines DEF ReceiveStale
<1>4. CASE ReceiveOutOfSequence(n)
  BY <1>4, ResetMoves DEF ReceiveOutOfSequence
<1>5. CASE ReceiveNop(n)
  <2>1. rx[n] # <<>> /\ Calm
    BY <1>1, <1>5 DEF ReceiveNop, Dispatched, Incoming
  <2>2. \/ Update(n, Taken(n, Head(rx[n])), Tail(rx[n]), <<>>)
        \/ React(n, Taken(n, Head(rx[n])), Tail(rx[n]), Head(rx[n]), "Nop")
    BY <1>5 DEF ReceiveNop
  <2>. QED  BY <2>1, <2>2, QuietLines, ReactMoves
<1>6. CASE ReceiveWithoutReaction(n)
  BY <1>1, <1>6, QuietLines DEF ReceiveWithoutReaction, Dispatched, Incoming
<1>7. CASE ReceiveHeartbeat(n)
  <2>1. rx[n] # <<>> /\ Calm
    BY <1>1, <1>7 DEF ReceiveHeartbeat, Dispatched, Incoming
  <2>2. \/ \E v : Update(n, v, Tail(rx[n]), <<>>)
        \/ \E v : React(n, v, Tail(rx[n]), Head(rx[n]), "Heartbeat")
    BY <1>7 DEF ReceiveHeartbeat
  <2>. QED  BY <2>1, <2>2, QuietLines, ReactMoves
<1>8. CASE ReceiveTransaction(n)
  <2>. DEFINE f == Head(rx[n])
  <2>1. rx[n] # <<>> /\ f.type \in Kind
    BY <1>8 DEF ReceiveTransaction, Dispatched, Incoming, Kind
  <2>2. CASE ResetConnection(n, Taken(n, f), {})
    BY <2>2, ResetMoves
  <2>3. CASE React(n, Taken(n, f), Tail(rx[n]), f, "Nack") /\ UNCHANGED req
    BY <1>1, <2>1, <2>3, ReactMoves
  <2>4. CASE /\ React(n, Taken(n, f), Tail(rx[n]), f, AckOf(f.type))
             /\ req' = [req EXCEPT ![f.req].delivered = @ + 1]
    <3>1. PICK w, out, g : /\ Update(n, w, Tail(rx[n]), out) /\ g.type = AckOf(f.type)
                           /\ out = <<>> \/ out = <<g>>
      BY <2>4, ReactLines
    <3>2. rx'[n] = Tail(rx[n]) /\ Added(Peer(n), g)
      BY <3>1, UpdateLines
    <3>. QED  BY <2>1, <2>4, <3>1, <3>2 DEF Takes, Moves
  <2>5. \/ f.damage = "payload" /\ ResetConnection(n, Taken(n, f), {})
        \/ \E accepted \in BOOLEAN :
             /\ React(n, Taken(n, f), Tail(rx[n]), f,
                      IF ~ accepted THEN "Nack"
                      ELSE IF f.type = "Data" THEN "Ack" ELSE "Response")
             /\ req' = IF accepted THEN [req EXCEPT ![f.req].delivered = @ + 1] ELSE req
    BY <1>8 DEF ReceiveTransaction
  <2>. HIDE DEF f
  <2>. QED  BY <2>2, <2>3, <2>4, <2>5 DEF AckOf
<1>9. CASE PollOutOfTurn(n)
  BY <1>1, <1>9, StillLines DEF PollOutOfTurn
<1>. QED  BY <1>2, <1>3, <1>4, <1>5, <1>6, <1>7, <1>8, <1>9 DEF Receive

LEMMA WriteMoves ==
    ASSUME IInv, HeartbeatStep \/ SilenceStep \/ SendTurnGrant \/ SendNopExchange
    PROVE  Moves
<1>. USE Names, Unmarked
<1>. TypeOK
  BY DEF IInv
<1>1. CASE HeartbeatStep
  <2>1. \/ \E v : ResetConnection("master", v, {})
        \/ /\ UNCHANGED req
           /\ \E v, written, seq :
                Update("master", v, rx["master"], Out(written, Make("Heartbeat", seq, 0, None)))
    BY <1>1 DEF HeartbeatStep
  <2>. QED  BY <2>1, ResetMoves, CalmSteps, QuietLines, OutIs
<1>2. CASE SilenceStep
  BY <1>2, ResetMoves DEF SilenceStep
<1>3. CASE SendTurnGrant
  <2>1. /\ UNCHANGED req
        /\ \E v, written, seq :
             Update("master", v, rx["master"], Out(written, Make("Grant", seq, 0, None)))
    BY <1>3 DEF SendTurnGrant
  <2>. QED  BY <2>1, CalmSteps, QuietLines, OutIs
<1>4. CASE SendNopExchange
  <2>1. /\ UNCHANGED req
        /\ \E v, written, seq :
             Update("slave", v, rx["slave"], Out(written, Make("Nop", seq, 0, None)))
    BY <1>4 DEF SendNopExchange
  <2>. QED  BY <2>1, CalmSteps, QuietLines, OutIs
<1>. QED  BY <1>1, <1>2, <1>3, <1>4

LEMMA ProcessOneMoves ==
    ASSUME IInv, NEW n \in Node, ProcessOne(n)
    PROVE  Moves
<1>. DEFINE r == Head(Head1(n))
            v == node[n]
<1>1. TypeOK /\ r \in Request /\ Owner(r) = n /\ req[r].at = "queued"
  BY FirstRequest DEF IInv, ProcessOne
<1>2. \/ /\ Update(n, Waiting(v, KindOf(r), r), rx[n], <<Make(KindOf(r), v.seq, 0, r)>>)
         /\ req' = [req EXCEPT ![r].at = "sent"]
      \/ ResetConnection(n, Advanced(v), {r})
      \/ Update(n, Advanced(v), rx[n], <<>>) /\ req' = Completed({r}, "nacked")
  BY DEF ProcessOne
<1>. HIDE DEF r, v
<1>3. CASE /\ Update(n, Waiting(v, KindOf(r), r), rx[n], <<Make(KindOf(r), v.seq, 0, r)>>)
           /\ req' = [req EXCEPT ![r].at = "sent"]
  <2>. DEFINE f == Make(KindOf(r), v.seq, 0, r)
  <2>1. rx'[n] = rx[n] /\ Added(Peer(n), f)
    BY <1>1, <1>3, UpdateLines
  <2>2. f.type = KindOf(r) /\ f.req = r
    BY DEF Make
  <2>. HIDE DEF f
  <2>. QED  BY <1>1, <1>3, <2>1, <2>2 DEF Sends, Moves
<1>4. CASE ResetConnection(n, Advanced(v), {r})
  BY <1>1, <1>4, ResetMoves
<1>5. CASE Update(n, Advanced(v), rx[n], <<>>) /\ req' = Completed({r}, "nacked")
  BY <1>1, <1>5, CalmSteps, QuietLines
<1>. QED  BY <1>2, <1>3, <1>4, <1>5

LEMMA AwaitMoves ==
    ASSUME IInv, NEW n \in Node, Await(n)
    PROVE  Moves
<1>1. TypeOK
  BY DEF IInv
<1>2. CASE TransactionAnswered(n)
  <2>. DEFINE f == Head(rx[n])
  <2>1. /\ Transaction(n) /\ rx[n] # <<>> /\ Verdict(n, f)
        /\ Update(n, Answered(n, f), Tail(rx[n]), <<>>)
        /\ req' = Completed({node[n].wait.req}, Outcome(f))
    BY <1>2 DEF TransactionAnswered
  <2>. HIDE DEF f
  <2>2. CASE f.type = "Nack"
    BY <1>1, <2>1, <2>2, CalmSteps, QuietLines DEF Outcome
  <2>3. CASE f.type # "Nack"
    <3>1. f.type = AckOf(node[n].wait.for)
      BY <2>1, <2>3 DEF Verdict, AckOf
    <3>2. rx'[n] = Tail(rx[n]) /\ rx'[Peer(n)] = rx[Peer(n)]
      <4>1. /\ rx' = [rx EXCEPT ![n] = Tail(rx[n]),
                                ![Peer(n)] = IF Len(@) < RxSize THEN @ \o <<>> ELSE @]
            /\ rx \in [Node -> Seq(Frames)]
        BY <1>1, <2>1, Typed DEF Update
      <4>. QED  BY <4>1, Peers
    <3>. QED  BY <2>1, <2>3, <3>1, <3>2 DEF Ends, Moves, Outcome, f
  <2>. QED  BY <2>2, <2>3
<1>3. CASE TransactionFails(n)
  BY <1>1, <1>3, ResetMoves DEF TransactionFails
<1>4. CASE LinkAnswered(n)
  <2>1. /\ rx[n] # <<>> /\ UNCHANGED req
        /\ \E v : \E left \in {Tail(rx[n]), Rest(Head(rx[n]), Tail(rx[n]))} : Update(n, v, left, <<>>)
    BY <1>4 DEF LinkAnswered
  <2>. QED  BY <1>1, <2>1, CalmSteps, QuietLines
<1>5. CASE ResponseTimeout(n)
  <2>1. \/ ResetConnection(n, node[n], {node[n].wait.req})
        \/ UNCHANGED <<rx, queue, req>>
    BY <1>5 DEF ResponseTimeout
  <2>. QED  BY <1>1, <2>1, ResetMoves, StillLines, CalmSteps
<1>. QED  BY <1>2, <1>3, <1>4, <1>5 DEF Await

LEMMA UserMoves ==
    ASSUME TypeOK, NEW r \in Request, Check(r) \/ Enqueue(r)
    PROVE  Moves
<1>1. UNCHANGED rx
  BY DEF Check, Enqueue
<1>2. Calm
  <2>1. req \in [Request -> ReqType] /\ req[r].at \in {"new", "checked"}
    BY Typed DEF Check, Enqueue
  <2>2. PICK at \in {"checked", "queued"} : req' = [req EXCEPT ![r].at = at]
    BY DEF Check, Enqueue
  <2>3. req'[r].at = at /\ req'[r].delivered = req[r].delivered
    BY <2>1, <2>2 DEF ReqType
  <2>4. \A x \in Request : x # r => req'[x] = req[x]
    BY <2>1, <2>2
  <2>. QED  BY <2>1, <2>3, <2>4 DEF Calm, Unsent
<1>. QED  BY <1>1, <1>2, StillLines

LEMMA EnvironmentMoves ==
    ASSUME TypeOK, Tick \/ Environment
    PROVE  Moves
<1>1. ASSUME UNCHANGED req PROVE Calm
  BY <1>1, CalmSteps
<1>2. CASE Tick \/ Stall
  BY <1>1, <1>2, StillLines DEF Tick, Stall
<1>3. ASSUME NEW n \in Node, NEW s, rx' = [rx EXCEPT ![n] = s], Calm,
             \E d \in {0, 1} : Kept(n, d)
      PROVE  Moves
  <2>1. Kept(Peer(n), 0)
    <3>1. rx'[Peer(n)] = rx[Peer(n)] /\ \A i \in DOMAIN rx[Peer(n)] : i + 0 = i
      BY <1>3, Typed, Peers, LinesAre
    <3>. QED  BY <3>1 DEF Kept
  <2>. QED  BY <1>3, <2>1 DEF Drops, Moves
<1>4. ASSUME NEW n \in Node, Lose(n) PROVE Moves
  <2>1. /\ rx' = [rx EXCEPT ![n] = SubSeq(rx[n], 1, Len(rx[n]) - 1)] /\ UNCHANGED req
        /\ rx \in [Node -> Seq(Frames)] /\ rx[n] # <<>>
    BY <1>4, Typed DEF Lose
  <2>2. Kept(n, 0)
    <3>1. /\ rx[n] \in Seq(Frames) /\ Len(rx[n]) \in Nat \ {0}
          /\ rx'[n] = SubSeq(rx[n], 1, Len(rx[n]) - 1)
      BY <2>1
    <3>2. \A i \in DOMAIN rx'[n] : i + 0 \in DOMAIN rx[n] /\ rx'[n][i] = rx[n][i + 0]
      BY <3>1
    <3>. QED  BY <3>2 DEF Kept
  <2>. QED  BY <1>1, <1>3, <2>1, <2>2
<1>5. ASSUME NEW n \in Node, NEW part \in {"header", "payload"}, Damage(n, part) PROVE Moves
  <2>1. /\ rx' = [rx EXCEPT ![n] = [rx[n] EXCEPT ![Len(rx[n])].damage = part]] /\ UNCHANGED req
        /\ rx \in [Node -> Seq(Frames)] /\ rx[n] # <<>>
    BY <1>5, Typed DEF Damage
  <2>2. Kept(n, 0)
    <3>1. rx[n] \in Seq(Frames) /\ rx'[n] = [rx[n] EXCEPT ![Len(rx[n])].damage = part]
      BY <2>1
    <3>2. \A i \in DOMAIN rx'[n] : /\ i + 0 \in DOMAIN rx[n] /\ rx'[n][i].type = rx[n][i + 0].type
                                   /\ rx'[n][i].req = rx[n][i + 0].req
      <4>1. \A i \in DOMAIN rx[n] : i + 0 = i /\ rx[n][i] \in Frames
        BY <3>1
      <4>2. \A i \in DOMAIN rx'[n] : /\ i \in DOMAIN rx[n]
                                     /\ \/ rx'[n][i] = rx[n][i]
                                        \/ rx'[n][i] = [rx[n][i] EXCEPT !.damage = part]
        BY <3>1
      <4>3. \A f \in Frames : /\ [f EXCEPT !.damage = part].type = f.type
                             /\ [f EXCEPT !.damage = part].req = f.req
        BY DEF Frames
      <4>4. \A i \in DOMAIN rx'[n] : /\ rx'[n][i].type = rx[n][i].type
                                     /\ rx'[n][i].req = rx[n][i].req
        BY <4>1, <4>2, <4>3
      <4>5. \A i \in DOMAIN rx'[n] : i + 0 \in DOMAIN rx[n] /\ i + 0 = i
        BY <4>1, <4>2
      <4>. QED  BY <4>4, <4>5
    <3>. QED  BY <3>2 DEF Kept
  <2>. QED  BY <1>1, <1>3, <2>1, <2>2
<1>6. ASSUME NEW n \in Node, Reboot(n) PROVE Moves
  <2>1. rx' = [rx EXCEPT ![n] = <<>>] /\ rx \in [Node -> Seq(Frames)]
    BY <1>6, Typed DEF Reboot
  <2>2. Kept(n, 0)
    BY <2>1 DEF Kept
  <2>3. Calm
    <3>1. req \in [Request -> ReqType]
      BY Typed
    <3>2. req' = [r \in Request |->
                 IF Owner(r) = n /\ req[r].at \in {"checked", "queued", "sent"}
                 THEN [req[r] EXCEPT !.at = "gone"] ELSE req[r]]
      BY <1>6 DEF Reboot
    <3>. QED  BY <3>1, <3>2 DEF Calm, Unsent, ReqType
  <2>. QED  BY <1>3, <2>1, <2>2, <2>3
<1>. QED  BY <1>2, <1>4, <1>5, <1>6 DEF Environment

LEMMA NextMoves == ASSUME IInv, Next PROVE Moves
<1>1. TypeOK
  BY DEF IInv
<1>2. ASSUME NEW n \in Node, TaskStep(n) PROVE Moves
  BY <1>1, <1>2, ReceiveMoves, ProcessOneMoves, AwaitMoves, HelloMoves, WriteMoves DEF TaskStep
<1>. QED  BY <1>1, <1>2, UserMoves, EnvironmentMoves DEF Next

LEMMA InitWorth == Init => Worth
<1>. SUFFICES ASSUME Init PROVE Worth
  OBVIOUS
<1>1. /\ \A r \in Request : req[r].at = "new" /\ req[r].delivered = 0
      /\ \A n \in Node : rx[n] = <<>>
  BY DEF Init
<1>2. TakenOnce /\ OnTheWay
  BY <1>1 DEF TakenOnce, OnTheWay
<1>3. Earned
  <2>. SUFFICES ASSUME NEW n \in Node, NEW k \in Kind
                PROVE  Cardinality(Acked(n, k)) + Cardinality(Answers(n, k))
                          <= Cardinality(Handled(n, k))
    BY DEF Earned
  <2>1. Acked(n, k) = {} /\ Handled(n, k) = {} /\ Answers(n, k) = {}
    BY <1>1 DEF Acked, Handled, Answers
  <2>. QED  BY <2>1, FS_EmptySet
<1>. QED  BY <1>2, <1>3 DEF Worth

LEMMA WorthStep == IInv /\ IInv' /\ Worth /\ [Next]_vars => Worth'
<1>. SUFFICES ASSUME IInv, IInv', Worth, [Next]_vars PROVE Worth'
  OBVIOUS
<1>1. TypeOK /\ TypeOK'
  BY DEF IInv
<1>2. CASE Next
  <2>1. Moves
    BY <1>2, NextMoves
  <2>. QED  BY <1>1, <2>1, DropsStep, SendsStep, TakesStep, EndsStep DEF Moves
<1>3. CASE UNCHANGED vars
  BY <1>3 DEF vars, Worth, TakenOnce, OnTheWay, Earned, Acked, Handled, Answers
<1>. QED  BY <1>2, <1>3

\* A peer's handler takes a request at most once, and none that its owner has
\* not put on the line (_receiveData, _receiveRequest), under any number of
\* faults.
THEOREM TakenAtMostOnce == Spec => []TakenOnce
<1>1. Worth => TakenOnce
  BY DEF Worth
<1>. QED  BY <1>1, InitIInv, StepIInv, InitWorth, WorthStep, PTL DEF Spec

\* Never are more writes, or more exchanges, of a node acked than its peer's
\* handler has taken, under any number of faults: an ack of an earlier
\* connection may be counted for another request, but for one only.
THEOREM NoAckMadeUp == Spec => []AcksEarned
<1>1. IInv /\ Worth => AcksEarned
  <2>. SUFFICES ASSUME IInv, Worth, NEW n \in Node, NEW k \in Kind
                PROVE  Cardinality(Acked(n, k)) <= Cardinality(Handled(n, k))
    BY DEF AcksEarned
  <2>. QED  BY Sets DEF IInv, Worth, Earned
<1>. QED  BY <1>1, InitIInv, StepIInv, InitWorth, WorthStep, PTL DEF Spec

(***************************************************************************)
(* Losses leave the two turn machines in step.  When frames are lost or    *)
(* their payloads damaged, and UARTs fail, but no header is damaged, no    *)
(* answer late and no task stalls or restarts, what is on the line follows *)
(* from where the two nodes stand.  m and s are the master and the slave,  *)
(* tm and ts the frames on the way to them, and h holds the requests that  *)
(* a handler took.                                                         *)
(***************************************************************************)
Lossy == faults.kinds \subseteq {"lose", "payload", "uart"}

Single(l) == l # <<>> /\ Tail(l) = <<>>
Intact(f) == f.damage # "header"
\* What is left of a frame whose payload was not read.
Remnant(l) == Single(l) /\ ~ Intact(Head(l)) /\ Head(l).type = "Nop"
OneHello(l) == Single(l) /\ Head(l).type = "Hello"
Unanswered(l) == l # <<>> => Head(l).type \notin {"Ack", "Nack", "Response"}

\* The master's part: it leaves the turn to the slave while it waits for an
\* answer, listens, or has no connection.
Greets(m) == m.state = "HelloSent" /\ m.turn = "ReadReaction"
Asks(m) == m.wait.for \in {"Data", "Request", "Heartbeat"}
Listens(m) == m.state = "Synced" /\ m.turn = "ReadRequest"
Yields(m) == m.state = "Initial" \/ Greets(m) \/ Asks(m) \/ Listens(m)
Lingers(m) == m.state # "Synced" /\ m.turn = "ReadReaction"

\* The frame that the master waits to be answered.
Awaited(m, f) ==
    /\ Intact(f) /\ f.to = 0
    /\ \/ Greets(m) /\ f.type = "Hello" /\ f.seq = m.hello
       \/ Asks(m) /\ f.type = m.wait.for /\ f.seq = m.wait.seq /\ f.req = m.wait.req
       \/ m.wait.for = "Grant" /\ f.type = "Grant"
Follows(m, l) == l # <<>> => Single(l) /\ Awaited(m, Head(l))

\* The answer that the master waits for.
Verdicts(for) == IF for = "Heartbeat" THEN {"Heartbeat"}
                 ELSE {"Nack", IF for = "Data" THEN "Ack" ELSE "Response"}
Reply(m, f, h) ==
    /\ Intact(f)
    /\ \/ Greets(m) /\ f.type = "Hello" /\ f.to = m.hello
       \/ /\ Asks(m) /\ f.type \in Verdicts(m.wait.for)
          /\ f.seq = m.seq /\ f.to = m.wait.seq
          /\ f.type \in {"Ack", "Response"} => m.wait.req \in h
OneReply(m, l, h) == Single(l) /\ Reply(m, Head(l), h)

\* The frame that a slave sent in its turn, and the one it waits to be answered.
OneAsk(l) ==
    /\ Single(l) /\ Intact(Head(l))
    /\ Head(l).type \in {"Nop", "Data", "Request"} /\ Head(l).to = 0
OneAsked(s, l) == OneAsk(l) /\ Head(l).type = s.wait.for /\ Head(l).req = s.wait.req

\* A slave that has the turn.
AtTurn(m, tm, ts, h) ==
    \/ tm = <<>> /\ ts = <<>> /\ Yields(m)
    \/ tm = <<>> /\ Greets(m) /\ Follows(m, ts)
    \/ ts = <<>> /\ OneReply(m, tm, h)

\* A slave that waits for a request, with a connection and without one.
Listening(m, tm, ts) ==
    \/ tm = <<>> /\ (Follows(m, ts) \/ (Asks(m) /\ Remnant(ts)))
    \/ ts = <<>> /\ Lingers(m) /\ OneAsk(tm)
Starting(m, tm, ts, h) ==
    /\ ts # <<>> /\ Head(ts).type = "Hello" => tm = <<>> /\ Follows(m, ts)
    /\ \/ tm = <<>>
       \/ ts = <<>> /\ OneReply(m, tm, h)
       \/ ts = <<>> /\ Lingers(m) /\ OneAsk(tm)
       \/ m.state = "Synced" /\ Remnant(tm)

\* A slave whose frame the UART refused.
Idling(m, tm, ts, h) ==
    \/ tm = <<>> /\ (Follows(m, ts) \/ (m.state = "HelloSent" /\ OneHello(ts)))
    \/ ts = <<>> /\ OneReply(m, tm, h)

\* A slave that waits for the answer to a nop, or to a transaction: the line to
\* it once the master has no frame left to read.
NopAnswer(m, ts) ==
    \/ Follows(m, ts)
    \/ m.state = "HelloSent" /\ OneHello(ts)
    \/ ts # <<>> /\ Head(ts).type = "Nop" /\ Follows(m, Tail(ts))
Reaction(m, s, ts, h) ==
    \/ Unanswered(ts)
    \/ Follows(m, Tail(ts)) /\ (Head(ts).type # "Nack" => s.wait.req \in h)
Answerable(m, s, tm, ts, h) ==
    \/ tm = <<>> /\ (IF s.wait.for = "Nop" THEN NopAnswer(m, ts) ELSE Reaction(m, s, ts, h))
    \/ ts = <<>> /\ OneReply(m, tm, h)
    \/ ts = <<>> /\ Yields(m) /\ OneAsked(s, tm)
    \/ ts = <<>> /\ tm # <<>> /\ Reply(m, Head(tm), h) /\ OneAsked(s, Tail(tm))
    \/ Greets(m) /\ OneHello(ts) /\ OneAsked(s, tm)
    \/ s.wait.for # "Nop" /\ m.state = "Synced" /\ Remnant(tm) /\ Unanswered(ts)

\* The turn and the counter of a node that waits.
Poised(v) ==
    /\ v.turn \in {"WriteRequest", "ReadReaction", "ReadRequest"}
    /\ v.wait.for # "none" => v.state = "Synced" /\ v.seq = (v.wait.seq + 1) % SeqMod
    /\ v.wait.for \in Kind => v.wait.req \in Request
MasterPoised(m) ==
    /\ Poised(m) /\ m.wait.for # "Nop"
    /\ m.wait.for = "Grant" => m.turn = "ReadRequest"
    /\ Asks(m) => m.turn = "ReadReaction"
    /\ m.state # "Synced" => m.turn # "ReadRequest"
SlavePoised(s) ==
    /\ Poised(s) /\ s.wait.for \notin {"Heartbeat", "Grant"} /\ s.state # "HelloSent"
    /\ s.wait.for # "none" => s.turn = "ReadReaction"
    /\ s.state = "Initial" => s.turn # "ReadReaction"

\* Before another hello the old one is gone, and so is what the slave sent.
Retrying(m, s, tm, ts) ==
    m.state = "HelloSent" /\ (m.due \/ m.turn = "WriteRequest") =>
        tm = <<>> /\ s.turn # "WriteRequest" /\ (m.due => ts = <<>>)

Placed(m, s, tm, ts, h) ==
    /\ s.turn = "WriteRequest" => AtTurn(m, tm, ts, h)
    /\ s.turn = "ReadRequest" =>
          IF s.state = "Synced" THEN Listening(m, tm, ts) ELSE Starting(m, tm, ts, h)
    /\ s.turn = "ReadReaction" =>
          IF s.wait.for = "none" THEN Idling(m, tm, ts, h) ELSE Answerable(m, s, tm, ts, h)

Fits(m, s, tm, ts, h) ==
    /\ MasterPoised(m) /\ SlavePoised(s)
    /\ Placed(m, s, tm, ts, h)
    /\ Retrying(m, s, tm, ts)

Handed == {r \in Request : req[r].delivered > 0}
InStep == Lossy => Fits(node["master"], node["slave"], rx["master"], rx["slave"], Handed)

AcksTaken == Lossy => \A r \in Request : req[r].at = "acked" => r \in Handed

(***************************************************************************)
(* Lines of one or two frames.                                             *)
(***************************************************************************)
LEMMA TailCount ==
    ASSUME NEW l \in Seq(Frames), l # <<>>
    PROVE  Len(l) \in Nat \ {0} /\ Len(Tail(l)) = Len(l) - 1 /\ Tail(l) \in Seq(Frames)
OBVIOUS

LEMMA EmptyLine == \A l \in Seq(Frames) : Len(l) = 0 <=> l = <<>>
OBVIOUS

LEMMA OneFrame ==
    ASSUME NEW l \in Seq(Frames), l # <<>>
    PROVE  Tail(l) = <<>> <=> Len(l) = 1
<1>1. Len(l) \in Nat \ {0} /\ Len(Tail(l)) = Len(l) - 1 /\ Tail(l) \in Seq(Frames)
  BY TailCount
<1>2. Len(Tail(l)) = 0 <=> Tail(l) = <<>>
  BY <1>1, EmptyLine
<1>3. Len(Tail(l)) = 0 <=> Len(l) = 1
  BY <1>1
<1>. QED  BY <1>2, <1>3

LEMMA LastFrame ==
    ASSUME NEW l \in Seq(Frames), NEW f \in Frames
    PROVE  /\ Append(l, f) \in Seq(Frames) /\ Len(Append(l, f)) = Len(l) + 1
           /\ Append(l, f)[Len(l) + 1] = f
OBVIOUS

LEMMA LaterFrames ==
    ASSUME NEW l \in Seq(Frames), l # <<>>
    PROVE  /\ \A i \in 1 .. Len(l) - 1 : Tail(l)[i] = l[i + 1]
           /\ Head(l) = l[1]
OBVIOUS

LEMMA OneLonger ==
    ASSUME NEW l \in Seq(Frames), NEW f \in Frames, Len(l) = 1
    PROVE  Tail(Append(l, f)) # <<>> /\ Head(Tail(Append(l, f))) = f /\ Tail(Tail(Append(l, f))) = <<>>
<1>. DEFINE k == Append(l, f)
            q == Tail(k)
<1>1. k \in Seq(Frames) /\ Len(k) = Len(l) + 1 /\ k[Len(l) + 1] = f
  BY LastFrame
<1>. HIDE DEF k
<1>2. Len(k) = 2 /\ k[2] = f
  BY <1>1
<1>3. k # <<>>
  BY <1>1, <1>2, EmptyLine
<1>4. q \in Seq(Frames) /\ Len(q) = Len(k) - 1 /\ \A i \in 1 .. Len(k) - 1 : q[i] = k[i + 1]
  BY <1>1, <1>3, TailCount, LaterFrames
<1>. HIDE DEF q
<1>5. q \in Seq(Frames) /\ Len(q) = 1
  BY <1>2, <1>4
<1>6. q[1] = f
  BY <1>2, <1>4
<1>7. q # <<>>
  BY <1>5, EmptyLine
<1>8. Head(q) = f /\ Tail(q) = <<>>
  BY <1>5, <1>6, <1>7, OneFrame, LaterFrames
<1>. QED  BY <1>7, <1>8 DEF k, q

\* The line l2 is l with the frame f at its end, l being empty or of one frame.
Joins(l, f, l2) ==
    /\ l2 # <<>>
    /\ l = <<>> => Head(l2) = f /\ Tail(l2) = <<>>
    /\ l # <<>> => Head(l2) = Head(l)
    /\ Single(l) => Single(Tail(l2)) /\ Head(Tail(l2)) = f
\* A full buffer drops the frame; an empty one is never full.
Carries(l, f, l2) == Joins(l, f, l2) \/ (l2 = l /\ l # <<>>)

LEMMA HelloFits ==
    ASSUME NEW m, NEW s, NEW tm, NEW ts, NEW h, NEW m2, NEW ts2, NEW f,
           Fits(m, s, tm, ts, h),
           \/ m.state = "Initial" /\ m.turn = "WriteRequest"
           \/ m.state = "HelloSent" /\ m.due,
           m2.wait = m.wait, m2.turn = "ReadReaction",
           \/ /\ m2.state = "HelloSent" /\ ~ m2.due /\ Carries(ts, f, ts2)
              /\ Intact(f) /\ f.type = "Hello" /\ f.to = 0 /\ f.seq = m2.hello
           \/ m2.state = m.state /\ m2.hello = m.hello /\ m2.due = m.due /\ ts2 = ts
    PROVE  Fits(m2, s, tm, ts2, h)
<1>. USE DEF Fits
<1>1. m.wait.for = "none" /\ MasterPoised(m2)
  BY DEF MasterPoised, Poised, Asks, Kind
<1>2. Retrying(m2, s, tm, ts2)
  BY DEF Retrying
<1>3. CASE m.state = "Initial" /\ m.turn = "WriteRequest"
  <2>1. ~ Awaited(m, Head(ts)) /\ ~ OneReply(m, tm, h) /\ ~ Reply(m, Head(tm), h) /\ ~ Lingers(m) /\ ~ Greets(m)
        /\ ~ Asks(m)
    BY <1>1, <1>3 DEF Awaited, OneReply, Reply, Greets, Asks, Lingers
  <2>. QED
    BY <1>1, <1>2, <1>3, <2>1
       DEF Placed, AtTurn, Listening, Starting, Idling, Answerable, NopAnswer, Reaction, Follows, Awaited,
           Greets, Yields, Lingers, OneHello, Carries, Joins, Single, Unanswered
<1>4. CASE m.state = "HelloSent" /\ m.due
  <2>1. tm = <<>> /\ ts = <<>> /\ s.turn # "WriteRequest"
    BY <1>4 DEF Retrying
  <2>. QED
    BY <1>1, <1>2, <1>4, <2>1
       DEF Placed, AtTurn, Listening, Starting, Idling, Answerable, NopAnswer, Reaction, Follows, Awaited,
           Greets, Yields, Lingers, OneHello, Carries, Joins, Single, Unanswered
<1>. QED
  BY <1>3, <1>4


LEMMA MasterOnHelloFits ==
    ASSUME NEW m, NEW s, NEW tm, NEW ts, NEW h, NEW m2,
           Fits(m, s, tm, ts, h), tm # <<>>,
           Intact(Head(tm)), Head(tm).type = "Hello",
           m2.wait.for = "none",
           m.turn = "ReadReaction" => m2.turn = "ReadRequest",
           Head(tm).to = m.hello => m2.state = "Synced"
    PROVE  Fits(m2, s, Tail(tm), ts, h)
<1>. USE DEF Fits
<1>1. ~ OneAsk(tm) /\ ~ Remnant(tm) /\ (Reply(m, Head(tm), h) => Greets(m) /\ Head(tm).to = m.hello)
  BY DEF OneAsk, Remnant, Reply, Asks, Verdicts
<1>2. Reply(m, Head(tm), h)
  BY <1>1 DEF Placed, AtTurn, Listening, Starting, Idling, Answerable, OneReply, OneAsked, SlavePoised, Poised
<1>3. ts = <<>> /\ Greets(m) /\ Listens(m2) /\ (Single(tm) \/ OneAsked(s, Tail(tm)))
  BY <1>1, <1>2 DEF Placed, AtTurn, Listening, Starting, Idling, Answerable, OneReply, OneAsked, SlavePoised, Poised,
     Greets, Listens
<1>4. MasterPoised(m2) /\ Retrying(m2, s, Tail(tm), ts)
  BY <1>3 DEF MasterPoised, Poised, Retrying, Listens, Asks, Kind
<1>. QED
  BY <1>1, <1>2, <1>3, <1>4
     DEF Placed, AtTurn, Listening, Starting, Idling, Answerable, NopAnswer, Reaction, Follows,
         OneReply, OneAsked, SlavePoised, Poised, Yields, Unanswered, Single, OneAsk

\* A master that read a frame, or found nothing to read, starts over.
LEMMA MasterResetFits ==
    ASSUME NEW m, NEW s, NEW tm, NEW ts, NEW h, NEW m2,
           Fits(m, s, tm, ts, h),
           m2.state = "Initial", m2.turn = "WriteRequest", m2.wait.for = "none",
           m.state = "Synced" \/ ~ Intact(Head(tm)),
           tm # <<>> \/ ts = <<>> \/ (m.wait.for = "none" /\ m.state = "Synced" /\ m.turn = "WriteRequest")
    PROVE  Fits(m2, s, <<>>, ts, h)
<1>. USE DEF Fits
<1>1. MasterPoised(m2) /\ Retrying(m2, s, <<>>, ts)
  BY DEF MasterPoised, Poised, Retrying, Asks, Kind
<1>2. CASE tm # <<>>
  BY <1>1, <1>2
     DEF Placed, AtTurn, Listening, Starting, Idling, Answerable, NopAnswer, Reaction, Follows,
         OneReply, OneAsked, SlavePoised, MasterPoised, Poised, Yields, Unanswered, Single, OneAsk, Remnant, Greets,
         Lingers, Reply
<1>3. CASE ts = <<>>
  BY <1>1, <1>3
     DEF Placed, AtTurn, Listening, Starting, Idling, Answerable, NopAnswer, Reaction, Follows,
         OneReply, OneAsked, SlavePoised, Poised, Yields, Unanswered, Single, OneAsk
<1>4. CASE m.wait.for = "none" /\ m.state = "Synced" /\ m.turn = "WriteRequest" /\ tm = <<>>
  BY <1>1, <1>4
     DEF Placed, AtTurn, Listening, Starting, Idling, Answerable, NopAnswer, Reaction, Follows, Awaited,
         OneReply, OneAsked, SlavePoised, Poised, Yields, Unanswered, Single, OneAsk, Greets, Listens, Asks
<1>. QED
  BY <1>2, <1>3, <1>4

\* A master that reads a damaged frame where it expects an answer, or another
\* frame than an answer, or nothing at all, takes the turn back.
MasterFree(m) == m.wait.for = "none" /\ m.state = "Synced" /\ m.turn = "WriteRequest"

\* The line l2 is left of l by a reader that took a header and no payload.
Leaves(l, l2) == IF HasPayload(Head(l)) THEN Single(l) => Remnant(l2) ELSE l2 = Tail(l)

LEMMA MasterRereadFits ==
    ASSUME NEW m, NEW s, NEW tm, NEW ts, NEW h, NEW m2, NEW tm2,
           Fits(m, s, tm, ts, h), MasterFree(m2), m.state = "Synced",
           \/ tm = <<>> /\ tm2 = <<>> /\ ts = <<>> /\ s.turn # "WriteRequest"
           \/ /\ tm # <<>> /\ ~ Reply(m, Head(tm), h) /\ (Intact(Head(tm)) => Asks(m))
              /\ Leaves(tm, tm2)
    PROVE  Fits(m2, s, tm2, ts, h)
<1>. USE DEF Fits, MasterFree
<1>1. MasterPoised(m2) /\ Retrying(m2, s, tm2, ts)
  BY DEF MasterPoised, Poised, Retrying, Asks, Kind
<1>2. CASE tm = <<>>
  BY <1>1, <1>2
     DEF Placed, AtTurn, Listening, Starting, Idling, Answerable, NopAnswer, Reaction, Follows,
         OneReply, OneAsked, SlavePoised, Poised, Yields, Unanswered, Single, OneAsk
<1>3. CASE tm # <<>>
  BY <1>1, <1>3
     DEF Placed, AtTurn, Listening, Starting, Idling, Answerable, NopAnswer, Reaction, Follows, Kind,
         OneReply, OneAsked, SlavePoised, MasterPoised, Poised, Yields, Unanswered, Single, OneAsk, Remnant, Greets,
         Lingers, Asks, Listens, Leaves, HasPayload
<1>. QED
  BY <1>2, <1>3

\* While greeting, a master discards what is no hello, and all that follows.
LEMMA MasterStaleFits ==
    ASSUME NEW m, NEW s, NEW tm, NEW ts, NEW h, NEW m2,
           Fits(m, s, tm, ts, h), m.state = "HelloSent", tm # <<>>,
           Intact(Head(tm)), Head(tm).type # "Hello",
           m2.state = m.state, m2.due = m.due, m2.turn = "WriteRequest", m2.wait.for = "none"
    PROVE  Fits(m2, s, <<>>, ts, h)
<1>. USE DEF Fits
<1>1. MasterPoised(m2) /\ ~ m.due
  BY DEF MasterPoised, Poised, Retrying, Asks, Kind
<1>2. ~ Reply(m, Head(tm), h)
  BY DEF MasterPoised, Poised, Asks, Kind, Reply
<1>. QED
  BY <1>1, <1>2
     DEF Placed, AtTurn, Listening, Starting, Idling, Answerable, NopAnswer, Reaction, Follows, Retrying,
         OneReply, OneAsked, SlavePoised, Poised, Yields, Unanswered, Single, OneAsk, Remnant, OneHello

\* What a ready master reads in its request slot is the frame that the slave
\* waits to be answered.
LEMMA MasterReads ==
    ASSUME NEW m, NEW s, NEW tm, NEW ts, NEW h,
           Fits(m, s, tm, ts, h), m.state = "Synced", ~ Asks(m), tm # <<>>, Intact(Head(tm))
    PROVE  /\ ts = <<>> /\ OneAsked(s, tm) /\ Listens(m)
           /\ s.turn = "ReadReaction" /\ s.wait.for # "none"
BY DEF Fits, Placed, AtTurn, Listening, Starting, Idling, Answerable, Yields, Greets, Lingers, OneReply, Reply,
       Remnant, SlavePoised, Poised

LEMMA MasterReactsFits ==
    ASSUME NEW m, NEW s, NEW tm, NEW ts, NEW h, NEW m2, NEW ts2, NEW h2, NEW f,
           Fits(m, s, tm, ts, h), m.state = "Synced", ~ Asks(m), tm # <<>>, Intact(Head(tm)),
           MasterFree(m2), h \subseteq h2,
           ts2 = ts \/ Joins(ts, f, ts2),
           Head(tm).type = "Nop" => f.type = "Nop",
           f.type \notin {"Nack", "Nop"} => Head(tm).req \in h2
    PROVE  Fits(m2, s, Tail(tm), ts2, h2)
<1>. USE DEF Fits, MasterFree
<1>1. MasterPoised(m2) /\ Retrying(m2, s, Tail(tm), ts2)
  BY DEF MasterPoised, Poised, Retrying, Asks, Kind
<1>2. /\ ts = <<>> /\ OneAsked(s, tm) /\ Listens(m)
      /\ s.turn = "ReadReaction" /\ s.wait.for # "none"
  BY MasterReads
<1>. QED
  BY <1>1, <1>2
     DEF Placed, Answerable, NopAnswer, Reaction, Follows, OneAsked, OneAsk, Unanswered, Single, Joins

\* A free master sends a frame and waits for the answer, if the UART takes it.
LEMMA MasterSendsFits ==
    ASSUME NEW m, NEW s, NEW tm, NEW ts, NEW h, NEW m2, NEW ts2, NEW f,
           Fits(m, s, tm, ts, h), MasterFree(m), MasterPoised(m2),
           m2.state = "Synced",
           \/ ts2 = ts
           \/ Carries(ts, f, ts2) /\ Awaited(m2, f) /\ f.type \notin {"Hello", "Ack", "Nack", "Response"}
    PROVE  Fits(m2, s, tm, ts2, h)
<1>. USE DEF Fits, MasterFree
<1>1. Retrying(m2, s, tm, ts2)
  BY DEF Retrying
<1>2. ~ Awaited(m, Head(ts)) /\ ~ OneReply(m, tm, h) /\ ~ Reply(m, Head(tm), h) /\ ~ Lingers(m)
      /\ ~ Yields(m) /\ ~ Greets(m) /\ ~ Asks(m)
  BY DEF Awaited, OneReply, Reply, Greets, Asks, Lingers, Yields, Listens
<1>3. ~ Awaited(m, Head(Tail(ts)))
  BY <1>2 DEF Awaited
<1>. QED
  BY <1>1, <1>2, <1>3
     DEF Placed, AtTurn, Listening, Starting, Idling, Answerable, NopAnswer, Reaction, Follows,
         OneHello, Carries, Joins, Single, Unanswered

\* The answer that the master waits for gives the turn to the slave.
LEMMA MasterAnsweredFits ==
    ASSUME NEW m, NEW s, NEW tm, NEW ts, NEW h, NEW m2,
           Fits(m, s, tm, ts, h), Asks(m), tm # <<>>, Intact(Head(tm)),
           Head(tm).type \in {"Heartbeat", "Nack", "Ack", "Response"},
           Listens(m2), m2.wait.for = "none"
    PROVE  Fits(m2, s, Tail(tm), ts, h)
<1>. USE DEF Fits
<1>1. MasterPoised(m2) /\ Retrying(m2, s, Tail(tm), ts) /\ m.state = "Synced"
  BY DEF MasterPoised, Poised, Retrying, Asks, Kind, Listens
<1>2. ~ OneAsk(tm) /\ ~ Remnant(tm)
  BY DEF OneAsk, Remnant
<1>. QED
  BY <1>1, <1>2
     DEF Placed, AtTurn, Listening, Starting, Idling, Answerable, NopAnswer, Reaction, Follows,
         OneReply, OneAsked, SlavePoised, Poised, Yields, Unanswered, Single

(***************************************************************************)
(* The slave.                                                              *)
(***************************************************************************)

\* A slave without a connection waits for a request.
SlaveAnew(s) == s.state = "Initial" /\ s.turn = "ReadRequest" /\ s.wait.for = "none"
SlaveReady(s) == s.state = "Synced" /\ s.turn = "ReadRequest" /\ s.wait.for = "none"

LEMMA SlaveAnewFits ==
    ASSUME NEW m, NEW s, NEW tm, NEW ts, NEW h, NEW s2,
           Fits(m, s, tm, ts, h), SlaveAnew(s2),
           ts # <<>> \/ s.wait.for = "none"
    PROVE  Fits(m, s2, tm, <<>>, h)
<1>. USE DEF Fits, SlaveAnew
<1>1. SlavePoised(s2) /\ Retrying(m, s2, tm, <<>>)
  BY DEF SlavePoised, MasterPoised, Poised, Retrying, Kind
<1>. QED
  BY <1>1
     DEF Placed, AtTurn, Listening, Starting, Idling, Answerable, NopAnswer, Reaction, Follows,
         OneReply, OneAsked, SlavePoised, MasterPoised, Poised, Yields, Unanswered, Single, Greets, Lingers

\* A slave whose reaction was not written polls out of its turn.
LEMMA SlavePollFits ==
    ASSUME NEW m, NEW s, NEW tm, NEW ts, NEW h, NEW s2,
           Fits(m, s, tm, ts, h), SlaveAnew(s2), s.turn = "WriteRequest"
    PROVE  Fits(m, s2, tm, ts, h)
<1>. USE DEF Fits, SlaveAnew
<1>1. SlavePoised(s2) /\ Retrying(m, s2, tm, ts)
  BY DEF SlavePoised, MasterPoised, Poised, Retrying, Kind
<1>. QED
  BY <1>1 DEF Placed, AtTurn, Starting, Follows

\* What an idle slave reads, with a connection, is what the master awaits, a
\* remnant, or a hello; and a hello is always read alone.
LEMMA SlaveReads ==
    ASSUME NEW m, NEW s, NEW tm, NEW ts, NEW h,
           Fits(m, s, tm, ts, h), s.wait.for = "none", s.turn \in {"ReadRequest", "ReadReaction"},
           ts # <<>>, s.state = "Synced" \/ Head(ts).type = "Hello"
    PROVE  /\ tm = <<>> /\ Single(ts) /\ s.turn \in {"ReadRequest", "ReadReaction"}
           /\ \/ Awaited(m, Head(ts))
              \/ Remnant(ts) /\ s.turn = "ReadRequest"
              \/ OneHello(ts) /\ s.turn = "ReadReaction"
BY DEF Fits, Placed, Listening, Starting, Idling, SlavePoised, Poised, Follows, OneHello, Remnant

\* The slave reads a frame in its answer slot: it has no turn to react.
LEMMA SlaveDropsFits ==
    ASSUME NEW m, NEW s, NEW tm, NEW ts, NEW h, NEW s2, NEW h2,
           Fits(m, s, tm, ts, h), s.wait.for = "none", s.turn = "ReadReaction", ts # <<>>,
           SlaveReady(s2), h \subseteq h2
    PROVE  Fits(m, s2, tm, Tail(ts), h2)
<1>. USE DEF Fits, SlaveReady
<1>1. tm = <<>> /\ Single(ts)
  BY DEF Placed, Idling, Follows, OneHello
<1>2. SlavePoised(s2) /\ Retrying(m, s2, tm, Tail(ts))
  BY <1>1 DEF SlavePoised, MasterPoised, Poised, Retrying, Kind, Single
<1>. QED
  BY <1>1, <1>2 DEF Placed, Listening, Follows, Single

\* The slave takes the turn: after a grant, or with its reaction, if the UART
\* takes it.
SlaveFree(s) == s.turn = "WriteRequest" /\ s.wait.for = "none" /\ s.state # "HelloSent"

LEMMA SlaveTakesTurnFits ==
    ASSUME NEW m, NEW s, NEW tm, NEW ts, NEW h, NEW s2, NEW tm2, NEW h2, NEW f,
           Fits(m, s, tm, ts, h), s.wait.for = "none", s.turn = "ReadRequest",
           ts # <<>>, Awaited(m, Head(ts)), s.state = "Synced" \/ Head(ts).type = "Hello",
           SlaveFree(s2), h \subseteq h2,
           tm2 = tm \/ (Joins(tm, f, tm2) /\ Reply(m, f, h2))
    PROVE  Fits(m, s2, tm2, Tail(ts), h2)
<1>. USE DEF Fits, SlaveFree
<1>1. tm = <<>> /\ Single(ts)
  BY SlaveReads DEF Remnant, Awaited
<1>2. m.wait.for = "Grant" => Listens(m)
  BY DEF MasterPoised, Poised, Listens
<1>3. SlavePoised(s2)
  BY DEF SlavePoised, Poised, Kind
<1>4. m.state # "HelloSent" \/ (m.turn = "ReadReaction" /\ ~ m.due)
  BY <1>1 DEF MasterPoised, Poised, Awaited, Greets, Asks, Retrying, Single
<1>5. Retrying(m, s2, tm2, Tail(ts))
  BY <1>4 DEF Retrying
<1>. QED
  BY <1>1, <1>2, <1>3, <1>5 DEF Placed, AtTurn, Awaited, Yields, OneReply, Single, Joins

\* A free slave sends a frame and waits for the answer, if the UART takes it.
LEMMA SlaveSendsFits ==
    ASSUME NEW m, NEW s, NEW tm, NEW ts, NEW h, NEW s2, NEW tm2, NEW f,
           Fits(m, s, tm, ts, h), s.turn = "WriteRequest", s.wait.for = "none", SlavePoised(s2),
           s2.turn = "ReadReaction", s2.state = "Synced",
           \/ tm2 = tm /\ s2.wait.for = "none"
           \/ /\ s2.wait.for \in {"Nop", "Data", "Request"} /\ Carries(tm, f, tm2)
              /\ Intact(f) /\ f.type = s2.wait.for /\ f.req = s2.wait.req /\ f.to = 0
    PROVE  Fits(m, s2, tm2, ts, h)
<1>. USE DEF Fits
<1>1. m.state # "HelloSent" \/ (m.turn = "ReadReaction" /\ ~ m.due)
  BY DEF MasterPoised, Poised, Retrying
<1>2. Retrying(m, s2, tm2, ts)
  BY <1>1 DEF Retrying
<1>3. Greets(m) => m.state = "HelloSent" /\ m.wait.for = "none"
  BY DEF MasterPoised, Poised, Greets
<1>4. Greets(m) /\ Follows(m, ts) => ts = <<>> \/ OneHello(ts)
  BY <1>3 DEF Follows, Awaited, Asks, OneHello
<1>. QED
  BY <1>2, <1>3, <1>4
     DEF Placed, AtTurn, Idling, Answerable, NopAnswer, Reaction, Follows, OneReply, OneAsked, OneAsk,
         Unanswered, Single, Carries, Joins, Yields, OneHello

\* The slave reads the answer to its frame, and listens.
LEMMA SlaveAnsweredFits ==
    ASSUME NEW m, NEW s, NEW tm, NEW ts, NEW h, NEW s2,
           Fits(m, s, tm, ts, h), s.wait.for \in Kind, ts # <<>>,
           Head(ts).type \in {"Ack", "Nack", "Response"},
           SlaveReady(s2)
    PROVE  Fits(m, s2, tm, Tail(ts), h)
<1>. USE DEF Fits, SlaveReady
<1>1. tm = <<>> /\ Reaction(m, s, ts, h) /\ ~ Unanswered(ts)
  BY DEF Placed, Answerable, SlavePoised, Kind, Unanswered, OneHello
<1>2. SlavePoised(s2) /\ Retrying(m, s2, tm, Tail(ts))
  BY <1>1 DEF SlavePoised, MasterPoised, Poised, Retrying, Kind
<1>. QED
  BY <1>1, <1>2 DEF Placed, Listening, Reaction

LEMMA SlaveNopFits ==
    ASSUME NEW m, NEW s, NEW tm, NEW ts, NEW h, NEW s2, NEW ts2,
           Fits(m, s, tm, ts, h), s.wait.for = "Nop", ts # <<>>,
           Leaves(ts, ts2),
           SlaveReady(s2)
    PROVE  Fits(m, s2, tm, ts2, h)
<1>. USE DEF Fits, SlaveReady
<1>1. s.turn = "ReadReaction"
  BY DEF SlavePoised
<1>2. \/ tm = <<>> /\ NopAnswer(m, ts)
      \/ Greets(m) /\ OneHello(ts) /\ OneAsk(tm)
  BY <1>1 DEF Placed, Answerable, OneAsked
<1>3. m.due => m.state # "HelloSent"
  BY DEF Retrying
<1>4. SlavePoised(s2) /\ Retrying(m, s2, tm, ts2)
  BY <1>1, <1>2, <1>3 DEF SlavePoised, Poised, Retrying, Kind, Greets
<1>5. Single(ts) /\ Awaited(m, Head(ts)) /\ HasPayload(Head(ts)) => Asks(m)
  BY DEF Awaited, HasPayload
<1>. QED
  BY <1>1, <1>2, <1>4, <1>5
     DEF Placed, Listening, NopAnswer, Follows, OneHello, Single, Greets, Lingers, Leaves, HasPayload

\* A slave that waits too long gives up its frame: the master has nothing to do.
Waits(m, tm) ==
    /\ m.wait.for # "none" => tm = <<>>
    /\ m.state # "Initial" /\ m.turn \in {"ReadRequest", "ReadReaction"} => tm = <<>>
    /\ m.state = "Initial" => m.turn # "WriteRequest"

LEMMA SlaveTimeoutFits ==
    ASSUME NEW m, NEW s, NEW tm, NEW h, NEW s2,
           Fits(m, s, tm, <<>>, h), s.wait.for # "none", Waits(m, tm),
           IF s.wait.for = "Nop" THEN SlaveReady(s2) ELSE SlaveAnew(s2)
    PROVE  Fits(m, s2, tm, <<>>, h)
<1>. USE DEF Fits, SlaveReady, SlaveAnew, Waits
<1>1. s.turn = "ReadReaction" /\ s2.turn = "ReadRequest"
  BY DEF SlavePoised
<1>2. SlavePoised(s2) /\ Retrying(m, s2, tm, <<>>)
  BY <1>1 DEF SlavePoised, Poised, Retrying, Kind
<1>. QED
  BY <1>1, <1>2
     DEF Placed, Listening, Starting, Answerable, Follows, OneReply, OneAsked, OneHello, OneAsk, Single, Reply,
         Remnant, Greets, Asks, Listens, Yields, Lingers, MasterPoised, Poised

(***************************************************************************)
(* Steps of users, time and the line.                                      *)
(***************************************************************************)
SameMaster(m, m2) ==
    /\ m2.state = m.state /\ m2.turn = m.turn /\ m2.wait = m.wait
    /\ m2.seq = m.seq /\ m2.hello = m.hello
SameSlave(s, s2) ==
    s2.state = s.state /\ s2.turn = s.turn /\ s2.wait = s.wait /\ s2.seq = s.seq

LEMMA SameFits ==
    ASSUME NEW m, NEW s, NEW tm, NEW ts, NEW h, NEW m2, NEW s2, NEW h2,
           Fits(m, s, tm, ts, h), SameMaster(m, m2), SameSlave(s, s2), h \subseteq h2,
           m2.due = m.due \/ (s.turn # "WriteRequest" /\ ts = <<>> /\ Waits(m, tm))
    PROVE  Fits(m2, s2, tm, ts, h2)
<1>. USE DEF Fits, SameMaster, SameSlave
<1>1. MasterPoised(m2) /\ SlavePoised(s2)
  BY DEF MasterPoised, SlavePoised, Poised, Asks
<1>2. Retrying(m2, s2, tm, ts)
  BY DEF Retrying, Waits, MasterPoised, Poised
<1>3. /\ Greets(m2) <=> Greets(m)
      /\ Asks(m2) <=> Asks(m)
      /\ Yields(m2) <=> Yields(m)
      /\ Lingers(m2) <=> Lingers(m)
      /\ \A f : Awaited(m2, f) <=> Awaited(m, f)
      /\ \A f : Reply(m, f, h) => Reply(m2, f, h2)
      /\ \A l : OneAsked(s2, l) <=> OneAsked(s, l)
  BY DEF Greets, Asks, Yields, Lingers, Listens, Awaited, Reply, OneAsked
<1>. QED
  BY <1>1, <1>2, <1>3
     DEF Placed, AtTurn, Listening, Starting, Idling, Answerable, NopAnswer, Reaction, Follows, OneReply

\* A damaged payload leaves a frame as it was for all that a header says.
Resembles(f, g) ==
    /\ g.type = f.type /\ g.seq = f.seq /\ g.to = f.to /\ g.req = f.req
    /\ Intact(g) <=> Intact(f)
Alike(l, k) ==
    /\ k = <<>> <=> l = <<>>
    /\ l # <<>> => Resembles(Head(l), Head(k))

LEMMA DamageFits ==
    ASSUME NEW m, NEW s, NEW tm, NEW ts, NEW h, NEW tm2, NEW ts2,
           Fits(m, s, tm, ts, h),
           Alike(tm, tm2), tm # <<>> => Alike(Tail(tm), Tail(tm2)),
           tm # <<>> /\ Tail(tm) # <<>> => Alike(Tail(Tail(tm)), Tail(Tail(tm2))),
           Alike(ts, ts2), ts # <<>> => Alike(Tail(ts), Tail(ts2)),
           ts # <<>> /\ Tail(ts) # <<>> => Alike(Tail(Tail(ts)), Tail(Tail(ts2)))
    PROVE  Fits(m, s, tm2, ts2, h)
<1>. USE DEF Fits
<1>1. Retrying(m, s, tm2, ts2)
  BY DEF Retrying, Alike
<1>2. \A f, g : Resembles(f, g) => /\ Awaited(m, f) => Awaited(m, g)
                                   /\ Reply(m, f, h) => Reply(m, g, h)
                                   /\ g.type = f.type
  BY DEF Resembles, Awaited, Reply
<1>3. /\ Follows(m, ts) => Follows(m, ts2)
      /\ Remnant(ts) => Remnant(ts2)
      /\ OneHello(ts) => OneHello(ts2)
      /\ ts # <<>> /\ Follows(m, Tail(ts)) => Follows(m, Tail(ts2))
      /\ Unanswered(ts) => Unanswered(ts2)
  BY <1>2 DEF Follows, Remnant, OneHello, Unanswered, Alike, Single, Resembles
<1>4. /\ Remnant(tm) => Remnant(tm2)
      /\ OneReply(m, tm, h) => OneReply(m, tm2, h)
      /\ tm # <<>> /\ Reply(m, Head(tm), h) => Reply(m, Head(tm2), h)
      /\ OneAsk(tm) => OneAsk(tm2)
      /\ OneAsked(s, tm) => OneAsked(s, tm2)
      /\ tm # <<>> /\ OneAsked(s, Tail(tm)) => OneAsked(s, Tail(tm2))
  BY <1>2 DEF Remnant, OneReply, OneAsk, OneAsked, Alike, Single, Resembles
<1>5. /\ ts = <<>> <=> ts2 = <<>>
      /\ tm = <<>> <=> tm2 = <<>>
      /\ ts # <<>> => Head(ts2).type = Head(ts).type
  BY DEF Alike, Resembles
<1>. QED
  BY <1>1, <1>3, <1>4, <1>5
     DEF Placed, AtTurn, Listening, Starting, Idling, Answerable, NopAnswer, Reaction, Unanswered

\* The last frame of a line is lost.
Shorter(l, k) ==
    /\ l # <<>>
    /\ k = <<>> <=> Single(l)
    /\ k # <<>> => Head(k) = Head(l)
    /\ k # <<>> /\ Single(Tail(l)) => Tail(k) = <<>>

LEMMA LoseFits ==
    ASSUME NEW m, NEW s, NEW tm, NEW ts, NEW h, NEW tm2, NEW ts2,
           Fits(m, s, tm, ts, h),
           (Shorter(tm, tm2) /\ ts2 = ts) \/ (tm2 = tm /\ Shorter(ts, ts2))
    PROVE  Fits(m, s, tm2, ts2, h)
<1>. USE DEF Fits
<1>1. Retrying(m, s, tm2, ts2)
  BY DEF Retrying, Shorter, Single
<1>2. Greets(m) => m.state = "HelloSent"
  BY DEF Greets
<1>. QED
  BY <1>1, <1>2
     DEF Placed, AtTurn, Listening, Starting, Idling, Answerable, NopAnswer, Reaction, Follows, OneReply,
         OneAsked, OneAsk, OneHello, Remnant, Unanswered, Shorter, Single, Yields, Reply, Asks

\* An answer that accepts a request reaches its owner after the handler took it.
LEMMA AckIsTrue ==
    ASSUME NEW m, NEW s, NEW tm, NEW ts, NEW h, Fits(m, s, tm, ts, h)
    PROVE  /\ m.wait.for \in Kind /\ tm # <<>> /\ Head(tm).type \in {"Ack", "Response"} => m.wait.req \in h
           /\ s.wait.for \in Kind /\ ts # <<>> /\ Head(ts).type \in {"Ack", "Response"} => s.wait.req \in h
BY DEF Fits, Placed, AtTurn, Listening, Starting, Idling, Answerable, NopAnswer, Reaction, Unanswered,
       OneReply, Reply, OneAsked, OneAsk, OneHello, Remnant, MasterPoised, SlavePoised, Poised, Greets, Asks, Kind

(***************************************************************************)
(* The steps of the nodes.  First what they make of a node's fields.       *)
(***************************************************************************)
LEMMA AdvancedFields ==
    ASSUME NEW v \in NodeType
    PROVE  /\ Advanced(v).state = v.state /\ Advanced(v).turn = step(v.turn)
           /\ Advanced(v).seq = (v.seq + 1) % SeqMod /\ Advanced(v).wait = v.wait
           /\ Advanced(v).hello = v.hello /\ Advanced(v).due = v.due
BY DEF Advanced, NodeType

LEMMA WaitingFields ==
    ASSUME NEW v \in NodeType, NEW for, NEW r
    PROVE  /\ Waiting(v, for, r).state = v.state /\ Waiting(v, for, r).turn = step(v.turn)
           /\ Waiting(v, for, r).seq = (v.seq + 1) % SeqMod
           /\ Waiting(v, for, r).wait.for = for /\ Waiting(v, for, r).wait.seq = v.seq
           /\ Waiting(v, for, r).wait.req = r
BY DEF Waiting, Advanced, NodeType

LEMMA DisconnectedFields ==
    ASSUME NEW n \in Node, NEW v \in NodeType
    PROVE  /\ Disconnected(n, v).state = "Initial" /\ Disconnected(n, v).turn = startState(n)
           /\ Disconnected(n, v).wait.for = "none"
BY DEF Disconnected, NodeInit, NoWait

LEMMA TurnResetFields ==
    ASSUME TypeOK, NEW n \in Node
    PROVE  /\ TurnReset(n).state = node[n].state /\ TurnReset(n).turn = startState(n)
           /\ TurnReset(n).due = node[n].due /\ TurnReset(n).wait.for = "none"
BY Typed DEF TurnReset, NodeType, NoWait

LEMMA TakenFields ==
    ASSUME TypeOK, NEW n \in Node, NEW f
    PROVE  /\ Taken(n, f).state = node[n].state /\ Taken(n, f).turn = markRead(node[n].turn, f.type)
           /\ Taken(n, f).due = node[n].due /\ Taken(n, f).wait = NoWait
           /\ Taken(n, f).seq = IF f.type = "Hello" THEN node[n].seq ELSE (node[n].seq + 1) % SeqMod
           /\ Taken(n, f).hello = node[n].hello
BY Typed DEF Taken, NodeType

LEMMA AnsweredFields ==
    ASSUME TypeOK, NEW n \in Node, NEW f
    PROVE  /\ Answered(n, f).state = node[n].state /\ Answered(n, f).wait.for = "none"
           /\ f.damage # "header" /\ f.type # "Grant" => Answered(n, f).turn = step(node[n].turn)
BY Typed DEF Answered, NodeType, NoWait

LEMMA TurnSteps ==
    /\ step("WriteRequest") = "ReadReaction" /\ step("ReadReaction") = "ReadRequest"
    /\ step("ReadRequest") = "WriteReaction" /\ step("WriteReaction") = "WriteRequest"
    /\ startState("master") = "WriteRequest" /\ startState("slave") = "ReadRequest"
BY DEF step, startState

\* Where a step of one node leaves both.
LEMMA UpdateIs ==
    ASSUME TypeOK, NEW n \in Node, NEW v, NEW left, NEW out, Update(n, v, left, out)
    PROVE  /\ node'[n] = v /\ node'[Peer(n)] = node[Peer(n)] /\ rx'[n] = left
           /\ out = <<>> => rx'[Peer(n)] = rx[Peer(n)]
           /\ \A f \in Frames : out = <<f>> => Carries(rx[Peer(n)], f, rx'[Peer(n)])
<1>1. /\ node \in [Node -> NodeType] /\ rx \in [Node -> Seq(Frames)]
      /\ Peer(n) \in Node /\ Peer(n) # n
  BY Typed, Peers
<1>2. /\ node' = [node EXCEPT ![n] = v]
      /\ rx' = [rx EXCEPT ![n] = left, ![Peer(n)] = IF Len(@) < RxSize THEN @ \o out ELSE @]
  BY DEF Update
<1>3. /\ node'[n] = v /\ node'[Peer(n)] = node[Peer(n)] /\ rx'[n] = left
      /\ rx'[Peer(n)] = IF Len(rx[Peer(n)]) < RxSize THEN rx[Peer(n)] \o out ELSE rx[Peer(n)]
  BY <1>1, <1>2
<1>4. out = <<>> => rx'[Peer(n)] = rx[Peer(n)]
  BY <1>1, <1>3
<1>5. ASSUME NEW f \in Frames, out = <<f>> PROVE Carries(rx[Peer(n)], f, rx'[Peer(n)])
  <2>. DEFINE l == rx[Peer(n)]
              l2 == Append(l, f)
  <2>1. l \in Seq(Frames) /\ l \o out = l2
    BY <1>1, <1>5
  <2>2. RxSize \in Nat \ {0}
    BY Rs485Assumption
  <2>. HIDE DEF l
  <2>3. Joins(l, f, l2)
    <3>1. l2 # <<>> /\ (l = <<>> => Head(l2) = f /\ Tail(l2) = <<>>) /\ (l # <<>> => Head(l2) = Head(l))
      BY <2>1
    <3>2. l # <<>> /\ Tail(l) = <<>> => Tail(l2) # <<>> /\ Head(Tail(l2)) = f /\ Tail(Tail(l2)) = <<>>
      BY <2>1, OneFrame, OneLonger
    <3>. QED  BY <3>1, <3>2 DEF Joins, Single
  <2>4. Len(l) < RxSize \/ l # <<>>
    BY <2>1, <2>2
  <2>5. rx'[Peer(n)] = l2 \/ (l # <<>> /\ rx'[Peer(n)] = l)
    BY <1>3, <2>1, <2>4 DEF l
  <2>. QED  BY <2>3, <2>5 DEF Carries, l
<1>. QED  BY <1>3, <1>4, <1>5

LEMMA LeavesRest ==
    ASSUME NEW l \in Seq(Frames), l # <<>>
    PROVE  Leaves(l, Rest(Head(l), Tail(l)))
<1>1. CASE HasPayload(Head(l)) /\ Tail(l) = <<>>
  <2>1. Rest(Head(l), Tail(l)) = <<Garbage>> \o <<>>
    BY <1>1 DEF Rest
  <2>2. <<Garbage>> \o <<>> = <<Garbage>>
    OBVIOUS
  <2>3. Garbage.damage = "header" /\ Garbage.type = "Nop"
    BY DEF Garbage, Make
  <2>4. <<Garbage>> # <<>> /\ Head(<<Garbage>>) = Garbage /\ Tail(<<Garbage>>) = <<>>
    OBVIOUS
  <2>5. Remnant(Rest(Head(l), Tail(l)))
    BY <2>1, <2>2, <2>3, <2>4 DEF Remnant, Single, Intact
  <2>. QED  BY <1>1, <2>5 DEF Leaves
<1>. QED  BY <1>1 DEF Leaves, Rest, Single

\* Steps never take back a fault, and never a delivery.
LEMMA HandedGrows == ASSUME IInv, Next PROVE Handed \subseteq Handed'
<1>1. TypeOK /\ req \in [Request -> ReqType] /\ Moves
  BY NextMoves, Typed DEF IInv
<1>2. ASSUME NEW r \in Request, req[r].delivered > 0 PROVE req'[r].delivered > 0
  <2>1. req[r].delivered \in Nat /\ req[r].delivered > 0
    BY <1>1, <1>2 DEF ReqType
  <2>2. PICK n \in Node : Drops(n) \/ Sends(n) \/ Takes(n) \/ Ends(n)
    BY <1>1 DEF Moves
  <2>3. CASE Drops(n)
    BY <1>2, <2>3 DEF Drops, Calm
  <2>4. CASE Sends(n)
    <3>1. PICK x \in Request : req' = [req EXCEPT ![x].at = "sent"]
      BY <2>4 DEF Sends
    <3>. QED  BY <1>1, <1>2, <3>1 DEF ReqType
  <2>5. CASE Takes(n)
    <3>1. req' = [req EXCEPT ![Head(rx[n]).req].delivered = @ + 1]
      BY <2>5 DEF Takes
    <3>2. CASE Head(rx[n]).req = r
      <4>1. req'[r] = [req[r] EXCEPT !.delivered = @ + 1]
        BY <1>1, <3>1, <3>2
      <4>2. req'[r].delivered = req[r].delivered + 1
        BY <1>1, <4>1 DEF ReqType
      <4>. QED  BY <2>1, <4>2
    <3>3. CASE Head(rx[n]).req # r
      BY <1>1, <1>2, <3>1, <3>3
    <3>. QED  BY <3>2, <3>3
  <2>6. CASE Ends(n)
    <3>1. req'[r] = req[r] \/ req'[r] = [req[r] EXCEPT !.at = "acked", !.done = @ + 1]
      BY <2>6 DEF Ends, Completed
    <3>. QED  BY <1>1, <1>2, <3>1 DEF ReqType
  <2>. QED  BY <2>2, <2>3, <2>4, <2>5, <2>6
<1>. QED  BY <1>2 DEF Handed

FitsNow == Fits(node["master"], node["slave"], rx["master"], rx["slave"], Handed)
FitsNext(h) == Fits(node'["master"], node'["slave"], rx'["master"], rx'["slave"], h)

LEMMA MasterUpdate ==
    ASSUME TypeOK, NEW v, NEW left, NEW out, Update("master", v, left, out)
    PROVE  /\ node'["master"] = v /\ node'["slave"] = node["slave"] /\ rx'["master"] = left
           /\ out = <<>> => rx'["slave"] = rx["slave"]
           /\ \A f \in Frames : out = <<f>> => Carries(rx["slave"], f, rx'["slave"])
<1>1. "master" \in Node /\ Peer("master") = "slave"
  BY DEF Node, Peer
<1>. QED  BY <1>1, UpdateIs

LEMMA SlaveUpdate ==
    ASSUME TypeOK, NEW v, NEW left, NEW out, Update("slave", v, left, out)
    PROVE  /\ node'["slave"] = v /\ node'["master"] = node["master"] /\ rx'["slave"] = left
           /\ out = <<>> => rx'["master"] = rx["master"]
           /\ \A f \in Frames : out = <<f>> => Carries(rx["master"], f, rx'["master"])
<1>1. "slave" \in Node /\ Peer("slave") = "master"
  BY DEF Node, Peer
<1>. QED  BY <1>1, UpdateIs

LEMMA Sent ==
    ASSUME NEW type \in FrameType, NEW seq \in SeqNo, NEW to \in SeqNo, NEW r \in Request \cup {None},
           NEW f, f = Make(type, seq, to, r)
    PROVE  /\ f \in Frames /\ Intact(f) /\ f.type = type /\ f.seq = seq /\ f.to = to /\ f.req = r
<1>1. f \in Frames
  BY MakeType
<1>2. Intact(f) /\ f.type = type /\ f.seq = seq /\ f.to = to /\ f.req = r
  BY DEF Make, Intact
<1>. QED  BY <1>1, <1>2

\* The master as it greets: again, or for the first time.
Greeter(m, u) ==
    /\ u \in NodeType /\ u.turn = "WriteRequest" /\ u.wait = m.wait /\ u.state = m.state
    /\ u.hello = m.hello /\ u.due = m.due

LEMMA HelloFitsNext ==
    ASSUME IInv, FitsNow, Hello
    PROVE  FitsNext(Handed)
<1>. USE Names
<1>1. TypeOK /\ node["master"] \in NodeType
  BY Lines DEF IInv
<1>. DEFINE m == node["master"]
<1>2. PICK u, written :
        /\ Greeter(m, u) /\ written \in Written /\ Spent(written)
        /\ Update("master",
                  IF written
                  THEN [Advanced(u) EXCEPT !.hello = u.seq, !.due = FALSE, !.state = "HelloSent"]
                  ELSE Advanced(u),
                  rx["master"], Out(written, Make("Hello", u.seq, 0, None)))
  <2>. DEFINE x == IF m.state = "Initial" THEN [m EXCEPT !.seq = 0]
                   ELSE [m EXCEPT !.turn = startState("master")]
  <2>1. m.state = "Initial" => m.turn = "WriteRequest"
    BY DEF Hello
  <2>2. Greeter(m, x)
    BY <1>1, <2>1, Numbers, TurnSteps, Turns DEF Greeter, NodeType
  <2>3. \E written \in Written :
           /\ Spent(written)
           /\ Update("master",
                     IF written
                     THEN [Advanced(x) EXCEPT !.hello = x.seq, !.due = FALSE, !.state = "HelloSent"]
                     ELSE Advanced(x),
                     rx["master"], Out(written, Make("Hello", x.seq, 0, None)))
    BY DEF Hello
  <2>. HIDE DEF x, m
  <2>. QED  BY <2>2, <2>3
<1>3. \/ m.state = "Initial" /\ m.turn = "WriteRequest"
      \/ m.state = "HelloSent" /\ m.due
  BY DEF Hello
<1>. DEFINE a == Advanced(u)
<1>0. PICK f : f = Make("Hello", u.seq, 0, None)
  OBVIOUS
<1>4. /\ f \in Frames /\ Intact(f) /\ f.type = "Hello" /\ f.seq = u.seq /\ f.to = 0
  <2>1. u.seq \in SeqNo
    BY <1>2 DEF Greeter, NodeType
  <2>2. "Hello" \in FrameType /\ 0 \in SeqNo /\ None \in Request \cup {None}
    BY Numbers
  <2>. QED  BY <1>0, <2>1, <2>2, Sent
<1>5. /\ a.state = m.state /\ a.turn = "ReadReaction" /\ a.wait = m.wait
      /\ a.hello = m.hello /\ a.due = m.due /\ a \in NodeType
  BY <1>2, AdvancedFields, AdvancedType, TurnSteps DEF Greeter
<1>6. written \in BOOLEAN
  BY <1>1, <1>2, WrittenType
<1>. HIDE DEF a, m
<1>7. CASE written
  <2>1. Update("master", [a EXCEPT !.hello = u.seq, !.due = FALSE, !.state = "HelloSent"],
               rx["master"], <<f>>)
    BY <1>0, <1>2, <1>7 DEF a, Out
  <2>. DEFINE b == [a EXCEPT !.hello = u.seq, !.due = FALSE, !.state = "HelloSent"]
  <2>2. b.state = "HelloSent" /\ b.turn = "ReadReaction" /\ b.wait = m.wait /\ ~ b.due /\ b.hello = u.seq
    BY <1>5 DEF NodeType
  <2>. HIDE DEF b
  <2>3. Carries(rx["slave"], f, rx'["slave"])
    BY <1>1, <1>4, <2>1, MasterUpdate
  <2>4. Fits(b, node["slave"], rx["master"], rx'["slave"], Handed)
    BY <1>3, <1>4, <2>2, <2>3, HelloFits DEF FitsNow, m
  <2>. QED  BY <1>1, <2>1, <2>4, MasterUpdate DEF b, FitsNext
<1>8. CASE ~ written
  <2>1. Update("master", a, rx["master"], <<>>)
    BY <1>0, <1>2, <1>8 DEF a, Out
  <2>2. Fits(a, node["slave"], rx["master"], rx["slave"], Handed)
    BY <1>3, <1>5, HelloFits DEF FitsNow, m
  <2>. QED  BY <1>1, <2>1, <2>2, MasterUpdate DEF FitsNext
<1>. QED  BY <1>6, <1>7, <1>8

LEMMA MasterOnHelloFitsNext ==
    ASSUME IInv, FitsNow, MasterOnHello
    PROVE  FitsNext(Handed)
<1>. DEFINE m == node["master"]
            f == Head(rx["master"])
            v == Taken("master", f)
<1>1. TypeOK /\ m \in NodeType
  BY Lines, Names DEF IInv
<1>2. /\ rx["master"] # <<>> /\ Intact(f) /\ f.type = "Hello"
      /\ Update("master", IF f.to # v.hello THEN v
                          ELSE [Deferred(v) EXCEPT !.seq = (f.seq + 1) % SeqMod, !.state = "Synced"],
                Tail(rx["master"]), <<>>)
  BY DEF MasterOnHello, Incoming, Intact
<1>3. v \in NodeType /\ v.wait = NoWait /\ v.hello = m.hello /\ v.turn = markRead(m.turn, f.type)
  BY <1>1, <1>2, TakenFields, ArrivedFrame, Names
<1>4. m.turn = "ReadReaction" => v.turn = "ReadRequest"
  BY <1>2, <1>3, TurnSteps DEF markRead
<1>. DEFINE w == IF f.to # v.hello THEN v
                 ELSE [Deferred(v) EXCEPT !.seq = (f.seq + 1) % SeqMod, !.state = "Synced"]
<1>. HIDE DEF m, f, v
<1>5. /\ w.wait.for = "none"
      /\ m.turn = "ReadReaction" => w.turn = "ReadRequest"
      /\ f.to = m.hello => w.state = "Synced"
  BY <1>3, <1>4, NoWaitType DEF Deferred, NodeType
<1>. HIDE DEF w
<1>6. Fits(w, node["slave"], Tail(rx["master"]), rx["slave"], Handed)
  BY <1>2, <1>5, MasterOnHelloFits DEF FitsNow, m, f
<1>. QED  BY <1>1, <1>2, <1>6, MasterUpdate DEF FitsNext, w, m, f, v

\* What resets the master's connection, read or missed.
LEMMA MasterResetFitsNext ==
    ASSUME TypeOK, FitsNow, NEW v \in NodeType, NEW current, ResetConnection("master", v, current),
           node["master"].state = "Synced" \/ ~ Intact(Head(rx["master"])),
           rx["master"] # <<>> \/ rx["slave"] = <<>> \/ MasterFree(node["master"])
    PROVE  FitsNext(Handed)
<1>. USE Names
<1>. DEFINE w == Disconnected("master", v)
<1>1. Update("master", w, <<>>, <<>>)
  BY DEF ResetConnection
<1>2. w.state = "Initial" /\ w.turn = "WriteRequest" /\ w.wait.for = "none"
  BY DisconnectedFields, TurnSteps
<1>. HIDE DEF w
<1>3. Fits(w, node["slave"], <<>>, rx["slave"], Handed)
  BY <1>2, MasterResetFits DEF FitsNow, MasterFree
<1>. QED  BY <1>1, <1>3, MasterUpdate DEF FitsNext

LEMMA MasterReadable ==
    ASSUME NEW m, NEW s, NEW tm, NEW ts, NEW h, Fits(m, s, tm, ts, h), tm # <<>>
    PROVE  Head(tm).type # "Grant"
BY DEF Fits, Placed, AtTurn, Listening, Starting, Idling, Answerable, OneReply, Reply, OneAsked, OneAsk,
       Remnant, SlavePoised, Poised, Verdicts, Asks

LEMMA MasterUnreadableFitsNext ==
    ASSUME IInv, FitsNow, ReceiveUnreadable("master")
    PROVE  FitsNext(Handed)
<1>. DEFINE m == node["master"]
            tm == rx["master"]
<1>1. TypeOK /\ m \in NodeType /\ tm \in Seq(Frames) /\ "master" \in Node
  BY Lines, Names DEF IInv
<1>2. tm # <<>> /\ ~ Intact(Head(tm))
  <2>1. tm # <<>> /\ Unreadable("master")
    BY DEF ReceiveUnreadable, Incoming
  <2>. QED  BY <2>1, MasterReadable DEF Unreadable, FitsNow, Intact
<1>3. CASE ResetConnection("master", m, {})
  BY <1>1, <1>2, <1>3, MasterResetFitsNext
<1>4. CASE Update("master", TurnReset("master"), Rest(Head(tm), Tail(tm)), <<>>) /\ ~ Idle("master")
  <2>1. m.state = "Synced"
    BY <1>4 DEF FitsNow, Fits, MasterPoised, Poised, Idle
  <2>2. MasterFree(TurnReset("master"))
    BY <1>1, <2>1, TurnResetFields, TurnSteps DEF MasterFree
  <2>3. Leaves(tm, Rest(Head(tm), Tail(tm)))
    BY <1>1, <1>2, LeavesRest
  <2>4. ~ Reply(m, Head(tm), Handed)
    BY <1>2 DEF Reply
  <2>. HIDE DEF m, tm
  <2>5. Fits(TurnReset("master"), node["slave"], Rest(Head(tm), Tail(tm)), rx["slave"], Handed)
    BY <1>2, <2>1, <2>2, <2>3, <2>4, MasterRereadFits DEF FitsNow, m, tm
  <2>. QED  BY <1>1, <1>4, <2>5, MasterUpdate DEF FitsNext, m, tm
<1>5. Intact(Head(tm)) \/ Head(tm).damage = "header"
  BY DEF Intact
<1>. QED  BY <1>2, <1>3, <1>4, <1>5 DEF ReceiveUnreadable

LEMMA MasterStaleFitsNext ==
    ASSUME IInv, FitsNow, ReceiveStale("master")
    PROVE  FitsNext(Handed)
<1>. DEFINE m == node["master"]
            tm == rx["master"]
<1>1. TypeOK /\ m \in NodeType /\ "master" \in Node
  BY Lines, Names DEF IInv
<1>2. /\ tm # <<>> /\ Intact(Head(tm)) /\ Head(tm).type # "Hello" /\ m.state # "Synced"
      /\ m.wait.for = "Grant" \/ m.state # "Initial"
      /\ Update("master", TurnReset("master"), <<>>, <<>>)
  BY DEF ReceiveStale, Incoming, Unreadable, Intact, ready, Polls
<1>3. m.state = "HelloSent"
  BY <1>1, <1>2 DEF FitsNow, Fits, MasterPoised, Poised, NodeType
<1>. DEFINE w == TurnReset("master")
<1>4. w.state = m.state /\ w.due = m.due /\ w.turn = "WriteRequest" /\ w.wait.for = "none"
  BY <1>1, TurnResetFields, TurnSteps
<1>. HIDE DEF w, m
<1>5. Fits(w, node["slave"], <<>>, rx["slave"], Handed)
  BY <1>2, <1>3, <1>4, MasterStaleFits DEF FitsNow, m
<1>. QED  BY <1>1, <1>2, <1>5, MasterUpdate DEF FitsNext, w

\* A reaction in turn: the node advances, and its frame may be on the line.
LEMMA ReactIs ==
    ASSUME TypeOK, NEW n \in Node, NEW v \in NodeType, v.turn = "WriteReaction", NEW left,
           NEW f \in Frames, NEW type \in FrameType, React(n, v, left, f, type)
    PROVE  \E g \in Frames :
              /\ Intact(g) /\ g.type = type /\ g.seq = v.seq /\ g.to = f.seq
              /\ Update(n, Advanced(v), left, <<>>) \/ Update(n, Advanced(v), left, <<g>>)
<1>. DEFINE r == IF type = "Response" THEN f.req ELSE None
<1>1. v.seq \in SeqNo /\ f.seq \in SeqNo /\ r \in Request \cup {None}
  BY DEF NodeType, Frames
<1>. HIDE DEF r
<1>2. PICK g : g = Make(type, v.seq, f.seq, r)
  OBVIOUS
<1>3. g \in Frames /\ Intact(g) /\ g.type = type /\ g.seq = v.seq /\ g.to = f.seq
  BY <1>1, <1>2, Sent
<1>4. PICK written : Update(n, Advanced(v), left, Out(written, g))
  BY <1>2 DEF React, r
<1>5. Out(written, g) = <<g>> \/ Out(written, g) = <<>>
  BY DEF Out
<1>. QED  BY <1>3, <1>4, <1>5

\* What a frame of the master's is to Incoming and Dispatched.
LEMMA MasterTakes ==
    ASSUME IInv, FitsNow, NEW f, Dispatched("master", f)
    PROVE  LET m == node["master"]
               tm == rx["master"]
               v == Taken("master", f)
           IN  /\ tm # <<>> /\ f = Head(tm) /\ f \in Frames /\ Intact(f)
               /\ m.state = "Synced" /\ ~ Asks(m) /\ rx["slave"] = <<>>
               /\ f.type \in {"Nop", "Data", "Request"} /\ f.to = 0
               /\ f.type \in Kind => f.req \in Request
               /\ v \in NodeType /\ v.turn = "WriteReaction" /\ v.state = "Synced" /\ v.wait = NoWait
<1>. DEFINE m == node["master"]
            s == node["slave"]
            tm == rx["master"]
            v == Taken("master", f)
<1>1. TypeOK /\ m \in NodeType /\ "master" \in Node
  BY Lines, Names DEF IInv
<1>2. /\ tm # <<>> /\ f = Head(tm) /\ Intact(f) /\ m.state = "Synced" /\ ~ Asks(m)
  BY DEF Dispatched, Incoming, Unreadable, Intact, ready, Asks, Idle
<1>3. f \in Frames /\ v \in NodeType /\ v.wait = NoWait /\ v.state = m.state /\ v.turn = markRead(m.turn, f.type)
  BY <1>1, <1>2, ArrivedFrame, TakenFields
<1>4. /\ rx["slave"] = <<>> /\ OneAsked(s, tm) /\ Listens(m) /\ SlavePoised(s)
      /\ s.turn = "ReadReaction" /\ s.wait.for # "none"
  BY <1>2, MasterReads DEF FitsNow, Fits
<1>. HIDE DEF s, v
<1>5. f.type \in {"Nop", "Data", "Request"} /\ f.to = 0 /\ (f.type \in Kind => f.req \in Request)
  BY <1>2, <1>4 DEF OneAsked, OneAsk, SlavePoised, Poised
<1>6. v.turn = "WriteReaction"
  BY <1>3, <1>4, <1>5, TurnSteps DEF markRead, Listens
<1>. QED  BY <1>2, <1>3, <1>4, <1>5, <1>6 DEF v

LEMMA MasterReactsFitsNext ==
    ASSUME IInv, FitsNow, NEW f, Dispatched("master", f), NEW type \in FrameType,
           React("master", Taken("master", f), Tail(rx["master"]), f, type),
           Handed \subseteq Handed',
           f.type = "Nop" => type = "Nop",
           type \notin {"Nack", "Nop"} => f.req \in Handed'
    PROVE  FitsNext(Handed')
<1>. DEFINE m == node["master"]
            tm == rx["master"]
            v == Taken("master", f)
<1>1. TypeOK /\ "master" \in Node
  BY Names DEF IInv
<1>2. /\ tm # <<>> /\ f = Head(tm) /\ f \in Frames /\ Intact(f)
      /\ m.state = "Synced" /\ ~ Asks(m) /\ rx["slave"] = <<>>
      /\ v \in NodeType /\ v.turn = "WriteReaction" /\ v.state = "Synced" /\ v.wait = NoWait
  BY MasterTakes
<1>3. React("master", v, Tail(tm), f, type)
  OBVIOUS
<1>. HIDE DEF v, tm
<1>4. PICK g \in Frames :
        /\ Intact(g) /\ g.type = type
        /\ Update("master", Advanced(v), Tail(tm), <<>>) \/ Update("master", Advanced(v), Tail(tm), <<g>>)
  <2>1. f \in Frames /\ v \in NodeType /\ v.turn = "WriteReaction"
    BY <1>2
  <2>. DEFINE left == Tail(tm)
  <2>2. React("master", v, left, f, type)
    BY <1>3
  <2>. HIDE DEF left
  <2>3. \E g \in Frames :
           /\ Intact(g) /\ g.type = type /\ g.seq = v.seq /\ g.to = f.seq
           /\ Update("master", Advanced(v), left, <<>>) \/ Update("master", Advanced(v), left, <<g>>)
    BY <1>1, <2>1, <2>2, ReactIs
  <2>. QED  BY <2>3 DEF left
<1>5. MasterFree(Advanced(v))
  BY <1>2, AdvancedFields, TurnSteps, NoWaitType DEF MasterFree
<1>6. /\ node'["master"] = Advanced(v) /\ node'["slave"] = node["slave"] /\ rx'["master"] = Tail(tm)
      /\ rx'["slave"] = rx["slave"] \/ Joins(rx["slave"], g, rx'["slave"])
  BY <1>1, <1>4, MasterUpdate DEF Carries
<1>. HIDE DEF m, tm
<1>7. Fits(Advanced(v), node["slave"], Tail(tm), rx'["slave"], Handed')
  BY <1>2, <1>4, <1>5, <1>6, MasterReactsFits DEF FitsNow, m, tm
<1>. QED  BY <1>6, <1>7 DEF FitsNext

LEMMA GrowFits ==
    ASSUME NEW m, NEW s, NEW tm, NEW ts, NEW h, NEW h2, Fits(m, s, tm, ts, h), h \subseteq h2
    PROVE  Fits(m, s, tm, ts, h2)
BY SameFits DEF SameMaster, SameSlave

LEMMA GrowFitsNext ==
    ASSUME NEW h, NEW h2, FitsNext(h), h \subseteq h2
    PROVE  FitsNext(h2)
BY GrowFits DEF FitsNext

\* The handler of n took the request.
LEMMA AcceptedHanded ==
    ASSUME TypeOK, NEW r \in Request, req' = [req EXCEPT ![r].delivered = @ + 1]
    PROVE  r \in Handed'
<1>1. req \in [Request -> ReqType] /\ req[r].delivered \in Nat
  BY Typed DEF ReqType
<1>2. req'[r] = [req[r] EXCEPT !.delivered = @ + 1] /\ req[r] \in ReqType
  BY <1>1
<1>3. req'[r].delivered = req[r].delivered + 1
  BY <1>2 DEF ReqType
<1>. QED  BY <1>1, <1>3 DEF Handed

LEMMA MasterReceiveFitsNext ==
    ASSUME IInv, FitsNow, Receive("master"), Handed \subseteq Handed'
    PROVE  FitsNext(Handed')
<1>. DEFINE f == Head(rx["master"])
<1>1. TypeOK /\ node["master"] \in NodeType /\ "master" \in Node
  BY Lines, Names DEF IInv
<1>2. CASE ReceiveUnreadable("master")
  BY <1>2, MasterUnreadableFitsNext, GrowFitsNext
<1>3. CASE ReceiveStale("master")
  BY <1>3, MasterStaleFitsNext, GrowFitsNext
<1>4. CASE ReceiveOutOfSequence("master")
  <2>1. /\ rx["master"] # <<>> /\ node["master"].state = "Synced"
        /\ ResetConnection("master", node["master"], {})
    BY <1>4 DEF ReceiveOutOfSequence, Incoming, ready
  <2>. QED  BY <1>1, <2>1, MasterResetFitsNext, GrowFitsNext
<1>5. CASE ReceiveNop("master")
  <2>1. Dispatched("master", f)
    BY <1>5 DEF ReceiveNop
  <2>2. f.to = 0
    BY <2>1, MasterTakes
  <2>3. React("master", Taken("master", f), Tail(rx["master"]), f, "Nop")
    BY <1>5, <2>2 DEF ReceiveNop
  <2>. QED  BY <2>1, <2>3, MasterReactsFitsNext, Names
<1>6. CASE ReceiveWithoutReaction("master") \/ ReceiveHeartbeat("master")
  <2>1. Dispatched("master", f) /\ f.type \in {"Grant", "Ack", "Nack", "Response", "Heartbeat"}
    BY <1>6 DEF ReceiveWithoutReaction, ReceiveHeartbeat
  <2>. QED  BY <2>1, MasterTakes
<1>7. CASE ReceiveTransaction("master")
  <2>1. Dispatched("master", f) /\ f.type \in Kind
    BY <1>7 DEF ReceiveTransaction, Kind
  <2>2. /\ rx["master"] # <<>> /\ node["master"].state = "Synced" /\ f.req \in Request
        /\ Taken("master", f) \in NodeType
    BY <2>1, MasterTakes
  <2>3. CASE ResetConnection("master", Taken("master", f), {})
    BY <1>1, <2>2, <2>3, MasterResetFitsNext, GrowFitsNext
  <2>4. CASE React("master", Taken("master", f), Tail(rx["master"]), f, "Nack")
    BY <2>1, <2>4, MasterReactsFitsNext, Names DEF Kind
  <2>5. ASSUME NEW type \in {"Ack", "Response"},
               React("master", Taken("master", f), Tail(rx["master"]), f, type),
               req' = [req EXCEPT ![f.req].delivered = @ + 1]
        PROVE  FitsNext(Handed')
    <3>1. f.req \in Handed' /\ type \in FrameType /\ f.type # "Nop"
      BY <1>1, <2>1, <2>2, <2>5, AcceptedHanded, Names DEF Kind
    <3>. QED  BY <2>1, <2>5, <3>1, MasterReactsFitsNext
  <2>6. \/ ResetConnection("master", Taken("master", f), {})
        \/ React("master", Taken("master", f), Tail(rx["master"]), f, "Nack")
        \/ \E type \in {"Ack", "Response"} :
              /\ React("master", Taken("master", f), Tail(rx["master"]), f, type)
              /\ req' = [req EXCEPT ![f.req].delivered = @ + 1]
    BY <1>7 DEF ReceiveTransaction
  <2>. QED  BY <2>3, <2>4, <2>5, <2>6
<1>8. CASE PollOutOfTurn("master")
  <2>1. /\ node["master"].state # "Synced" /\ node["master"].turn \notin {"ReadRequest", "ReadReaction"}
        /\ node["master"].turn # "WriteRequest"
    BY <1>8, TurnSteps DEF PollOutOfTurn, ready, canRead
  <2>. QED  BY <2>1 DEF FitsNow, Fits, MasterPoised, Poised
<1>. QED  BY <1>2, <1>3, <1>4, <1>5, <1>6, <1>7, <1>8 DEF Receive

(***************************************************************************)
(* The master's turn, and the answers it waits for.                        *)
(***************************************************************************)
LEMMA MasterSendsFitsNext ==
    ASSUME TypeOK, FitsNow, MasterFree(node["master"]), NEW w, NEW out,
           Update("master", w, rx["master"], out), w.state = "Synced", MasterPoised(w),
           \/ out = <<>>
           \/ \E f \in Frames : /\ out = <<f>> /\ Awaited(w, f)
                                /\ f.type \in {"Data", "Request", "Heartbeat", "Grant"}
    PROVE  FitsNext(Handed)
<1>1. PICK f : \/ out = <<>>
               \/ /\ f \in Frames /\ out = <<f>> /\ Awaited(w, f)
                  /\ f.type \in {"Data", "Request", "Heartbeat", "Grant"}
  OBVIOUS
<1>2. /\ node'["master"] = w /\ node'["slave"] = node["slave"] /\ rx'["master"] = rx["master"]
      /\ \/ rx'["slave"] = rx["slave"]
         \/ Carries(rx["slave"], f, rx'["slave"]) /\ Awaited(w, f)
            /\ f.type \notin {"Hello", "Ack", "Nack", "Response"}
  BY <1>1, MasterUpdate
<1>3. Fits(w, node["slave"], rx["master"], rx'["slave"], Handed)
  BY <1>2, MasterSendsFits DEF FitsNow
<1>. QED  BY <1>2, <1>3 DEF FitsNext

LEMMA MasterWaits ==
    ASSUME NEW w, w.state = "Synced", w.wait.for \in {"Data", "Request", "Heartbeat", "Grant"},
           w.turn = IF w.wait.for = "Grant" THEN "ReadRequest" ELSE "ReadReaction",
           w.seq = (w.wait.seq + 1) % SeqMod, w.wait.for \in Kind => w.wait.req \in Request
    PROVE  MasterPoised(w)
BY DEF MasterPoised, Poised, Asks

LEMMA MasterHeartbeatFitsNext ==
    ASSUME IInv, FitsNow, HeartbeatStep
    PROVE  FitsNext(Handed)
<1>. USE Names
<1>. DEFINE m == node["master"]
            v == [m EXCEPT !.missed = IF m.hbAwait THEN @ + 1 ELSE @]
<1>1. TypeOK /\ m \in NodeType
  BY Lines DEF IInv
<1>2. MasterFree(m)
  BY DEF HeartbeatStep, Writes, Idle, ready, MasterFree
<1>3. CASE ResetConnection("master", v, {})
  <2>1. Update("master", Disconnected("master", v), <<>>, <<>>)
    BY <1>3 DEF ResetConnection
  <2>. DEFINE w == Disconnected("master", v)
  <2>2. w.state = "Initial" /\ w.turn = "WriteRequest" /\ w.wait.for = "none"
    BY TurnSteps DEF Disconnected, NodeInit, NoWait
  <2>. HIDE DEF w
  <2>3. Fits(w, node["slave"], <<>>, rx["slave"], Handed)
    BY <1>2, <2>2, MasterResetFits DEF FitsNow, MasterFree
  <2>. QED  BY <1>1, <2>1, <2>3, MasterUpdate DEF FitsNext, w
<1>4. CASE \E written \in Written :
             Update("master",
                    IF written
                    THEN [Waiting(v, "Heartbeat", None) EXCEPT !.hbSeq = v.seq, !.due = FALSE]
                    ELSE Advanced(v),
                    rx["master"], Out(written, Make("Heartbeat", v.seq, 0, None)))
  <2>. DEFINE b == [Waiting(v, "Heartbeat", None) EXCEPT !.hbSeq = v.seq, !.due = FALSE]
              a == Advanced(v)
  <2>1. /\ v.state = "Synced" /\ v.turn = "WriteRequest" /\ v.wait = m.wait /\ v.seq = m.seq
        /\ m.seq \in SeqNo
    BY <1>1, <1>2 DEF NodeType, MasterFree
  <2>2. a.state = "Synced" /\ a.turn = "ReadReaction" /\ a.wait = m.wait
    BY <1>1, <1>2, TurnSteps DEF Advanced, NodeType, MasterFree
  <2>3. /\ b.state = "Synced" /\ b.turn = "ReadReaction" /\ b.seq = (m.seq + 1) % SeqMod
        /\ b.wait.for = "Heartbeat" /\ b.wait.seq = m.seq /\ b.wait.req = None
    BY <1>1, <1>2, TurnSteps DEF Waiting, Advanced, NodeType, MasterFree
  <2>4. PICK f : f = Make("Heartbeat", m.seq, 0, None)
    OBVIOUS
  <2>5. f \in Frames /\ Intact(f) /\ f.type = "Heartbeat" /\ f.seq = m.seq /\ f.to = 0 /\ f.req = None
    <3>1. 0 \in SeqNo /\ None \in Request \cup {None}
      BY Numbers
    <3>. QED  BY <2>1, <2>4, <3>1, Sent
  <2>6. \/ Update("master", b, rx["master"], <<f>>)
        \/ Update("master", a, rx["master"], <<>>)
    BY <1>4, <2>1, <2>4 DEF Out
  <2>. HIDE DEF a, b, v, m
  <2>7. Awaited(b, f) /\ MasterPoised(b)
    BY <2>3, <2>5, MasterWaits DEF Awaited, Asks, Kind
  <2>8. MasterPoised(a)
    BY <1>2, <2>2 DEF MasterPoised, Poised, MasterFree, Asks, Kind
  <2>9. CASE Update("master", b, rx["master"], <<f>>)
    BY <1>1, <1>2, <2>3, <2>5, <2>7, <2>9, MasterSendsFitsNext DEF m
  <2>10. CASE Update("master", a, rx["master"], <<>>)
    BY <1>1, <1>2, <2>2, <2>8, <2>10, MasterSendsFitsNext DEF m
  <2>. QED  BY <2>6, <2>9, <2>10
<1>. QED  BY <1>3, <1>4 DEF HeartbeatStep

LEMMA MasterGrantFitsNext ==
    ASSUME IInv, FitsNow, SendTurnGrant
    PROVE  FitsNext(Handed)
<1>. USE Names
<1>. DEFINE m == node["master"]
            v == [m EXCEPT !.attention = FALSE]
            a == [Advanced(v) EXCEPT !.turn = step(@)]
            b == [a EXCEPT !.wait = [for |-> "Grant", seq |-> v.seq, req |-> None]]
<1>1. TypeOK /\ m \in NodeType
  BY Lines DEF IInv
<1>2. MasterFree(m)
  BY DEF SendTurnGrant, Free, Writes, Idle, ready, MasterFree
<1>3. /\ a.state = "Synced" /\ a.turn = "ReadRequest" /\ a.wait = m.wait
      /\ b.state = "Synced" /\ b.turn = "ReadRequest" /\ b.seq = (m.seq + 1) % SeqMod
      /\ b.wait.for = "Grant" /\ b.wait.seq = m.seq /\ m.seq \in SeqNo /\ v.seq = m.seq
  BY <1>1, <1>2, TurnSteps DEF Advanced, NodeType, MasterFree
<1>4. PICK f : f = Make("Grant", m.seq, 0, None)
  OBVIOUS
<1>5. f \in Frames /\ Intact(f) /\ f.type = "Grant" /\ f.to = 0
  <2>1. 0 \in SeqNo /\ None \in Request \cup {None}
    BY Numbers
  <2>. QED  BY <1>3, <1>4, <2>1, Sent
<1>6. \/ Update("master", b, rx["master"], <<f>>)
      \/ Update("master", a, rx["master"], <<>>)
  BY <1>3, <1>4 DEF SendTurnGrant, Out
<1>. HIDE DEF a, b, v, m
<1>7. Awaited(b, f) /\ MasterPoised(b)
  BY <1>3, <1>5, MasterWaits DEF Awaited, Asks, Kind
<1>8. MasterPoised(a)
  BY <1>2, <1>3 DEF MasterPoised, Poised, MasterFree, Asks, Kind
<1>9. CASE Update("master", b, rx["master"], <<f>>)
  BY <1>1, <1>2, <1>3, <1>5, <1>7, <1>9, MasterSendsFitsNext DEF m
<1>10. CASE Update("master", a, rx["master"], <<>>)
  BY <1>1, <1>2, <1>3, <1>8, <1>10, MasterSendsFitsNext DEF m
<1>. QED  BY <1>6, <1>9, <1>10

LEMMA MasterProcessFitsNext ==
    ASSUME IInv, FitsNow, ProcessOne("master")
    PROVE  FitsNext(Handed)
<1>. USE Names
<1>. DEFINE m == node["master"]
            r == Head(Head1("master"))
            a == Advanced(m)
            b == Waiting(m, KindOf(r), r)
<1>1. TypeOK /\ m \in NodeType /\ "master" \in Node
  BY Lines DEF IInv
<1>2. MasterFree(m) /\ Head1("master") # <<>>
  BY DEF ProcessOne, Free, Writes, Idle, ready, MasterFree
<1>3. r \in Request /\ KindOf(r) \in Kind /\ KindOf(r) \in FrameType
  BY <1>1, <1>2, FirstRequest, Kinds DEF Kind
<1>4. \/ Update("master", b, rx["master"], <<Make(KindOf(r), m.seq, 0, r)>>)
      \/ ResetConnection("master", a, {r})
      \/ Update("master", a, rx["master"], <<>>)
  BY DEF ProcessOne
<1>. HIDE DEF r, m
<1>5. /\ a.state = "Synced" /\ a.turn = "ReadReaction" /\ a.wait = m.wait /\ a \in NodeType
      /\ b.state = "Synced" /\ b.turn = "ReadReaction" /\ b.seq = (m.seq + 1) % SeqMod
      /\ b.wait.for = KindOf(r) /\ b.wait.seq = m.seq /\ b.wait.req = r /\ m.seq \in SeqNo
  <2>1. m.state = "Synced" /\ m.turn = "WriteRequest" /\ m.seq \in SeqNo
    BY <1>1, <1>2 DEF MasterFree, NodeType
  <2>. QED  BY <1>1, <2>1, WaitingFields, AdvancedFields, AdvancedType, TurnSteps
<1>6. PICK f : f = Make(KindOf(r), m.seq, 0, r)
  OBVIOUS
<1>7. f \in Frames /\ Intact(f) /\ f.type = KindOf(r) /\ f.seq = m.seq /\ f.to = 0 /\ f.req = r
  <2>1. 0 \in SeqNo /\ r \in Request \cup {None}
    BY <1>3, Numbers
  <2>. QED  BY <1>3, <1>5, <1>6, <2>1, Sent
<1>. HIDE DEF a, b
<1>8. Awaited(b, f) /\ MasterPoised(b)
  BY <1>3, <1>5, <1>7, MasterWaits DEF Awaited, Asks, Kind
<1>9. MasterPoised(a)
  BY <1>2, <1>5 DEF MasterPoised, Poised, MasterFree, Asks, Kind
<1>10. CASE Update("master", b, rx["master"], <<f>>)
  BY <1>1, <1>2, <1>3, <1>5, <1>7, <1>8, <1>10, MasterSendsFitsNext DEF m, Kind
<1>11. CASE ResetConnection("master", a, {r})
  BY <1>1, <1>2, <1>5, <1>11, MasterResetFitsNext DEF m, MasterFree
<1>12. CASE Update("master", a, rx["master"], <<>>)
  BY <1>1, <1>2, <1>5, <1>9, <1>12, MasterSendsFitsNext DEF m
<1>. QED  BY <1>4, <1>6, <1>10, <1>11, <1>12

\* A task with nothing to do.
LEMMA SlaveQuiet ==
    ASSUME FitsNow, ~ Active("slave")
    PROVE  rx["slave"] = <<>> /\ node["slave"].turn # "WriteRequest"
BY TurnSteps
   DEF FitsNow, Fits, SlavePoised, Poised, Active, Busy, Incoming, Polls, canRead, Writes, Idle, ready

LEMMA MasterQuiet ==
    ASSUME FitsNow, ~ Active("master")
    PROVE  Waits(node["master"], rx["master"])
BY TurnSteps
   DEF FitsNow, Fits, MasterPoised, Poised, Active, Busy, Incoming, Polls, canRead, Writes, Idle, ready, Waits

\* The master ends a wait with the answer that it waited for.
LEMMA MasterEndsFitsNext ==
    ASSUME IInv, FitsNow, Asks(node["master"]), rx["master"] # <<>>,
           Intact(Head(rx["master"])), Head(rx["master"]).type \in {"Heartbeat", "Nack", "Ack", "Response"},
           NEW w, w.state = "Synced", w.turn = "ReadRequest", w.wait.for = "none",
           Update("master", w, Tail(rx["master"]), <<>>)
    PROVE  FitsNext(Handed)
<1>1. TypeOK
  BY DEF IInv
<1>2. Fits(w, node["slave"], Tail(rx["master"]), rx["slave"], Handed)
  BY MasterAnsweredFits DEF FitsNow, Listens
<1>. QED  BY <1>1, <1>2, MasterUpdate DEF FitsNext

LEMMA MasterVerdictFitsNext ==
    ASSUME IInv, FitsNow, TransactionAnswered("master")
    PROVE  FitsNext(Handed)
<1>. DEFINE m == node["master"]
            f == Head(rx["master"])
            w == Answered("master", f)
<1>1. TypeOK /\ m \in NodeType /\ "master" \in Node
  BY Lines, Names DEF IInv
<1>2. /\ Asks(m) /\ m.state = "Synced" /\ m.turn = "ReadReaction"
  BY DEF TransactionAnswered, Transaction, Asks, FitsNow, Fits, MasterPoised, Poised
<1>3. /\ rx["master"] # <<>> /\ Intact(f) /\ f.type \in {"Nack", "Ack", "Response"}
      /\ Update("master", w, Tail(rx["master"]), <<>>)
  BY DEF TransactionAnswered, Verdict, Correlated, Intact
<1>4. w.state = "Synced" /\ w.turn = "ReadRequest" /\ w.wait.for = "none"
  BY <1>1, <1>2, <1>3, AnsweredFields, TurnSteps DEF Intact
<1>. HIDE DEF w
<1>. QED  BY <1>2, <1>3, <1>4, MasterEndsFitsNext

LEMMA MasterLinkFitsNext ==
    ASSUME IInv, FitsNow, LinkAnswered("master")
    PROVE  FitsNext(Handed)
<1>. DEFINE m == node["master"]
            tm == rx["master"]
            f == Head(tm)
            v == Answered("master", f)
            good == Correlated("master", f) /\ f.type = m.wait.for
            w == IF good THEN [v EXCEPT !.hbAwait = FALSE, !.missed = 0, !.heard = 0]
                 ELSE [v EXCEPT !.turn = startState("master"), !.hbAwait = TRUE]
<1>1. TypeOK /\ m \in NodeType /\ tm \in Seq(Frames) /\ "master" \in Node
  BY Lines, Names DEF IInv
<1>2. /\ m.wait.for = "Heartbeat" /\ m.state = "Synced" /\ m.turn = "ReadReaction" /\ Asks(m)
      /\ m.seq = (m.wait.seq + 1) % SeqMod
  BY DEF LinkAnswered, LinkControl, Asks, FitsNow, Fits, MasterPoised, Poised
<1>3. tm # <<>> /\ Update("master", w, IF good THEN Tail(tm) ELSE Rest(f, Tail(tm)), <<>>)
  BY <1>2 DEF LinkAnswered
<1>4. v.state = "Synced" /\ v.wait.for = "none" /\ v \in NodeType
      /\ (Intact(f) /\ f.type = "Heartbeat" => v.turn = "ReadRequest")
  BY <1>1, <1>2, <1>3, AnsweredFields, ArrivedFrame, TurnSteps DEF Intact
<1>5. CASE good
  <2>1. w.state = "Synced" /\ w.turn = "ReadRequest" /\ w.wait.for = "none"
        /\ Intact(f) /\ f.type = "Heartbeat"
    <3>1. Intact(f) /\ f.type = "Heartbeat"
      BY <1>2, <1>5 DEF Correlated, Intact
    <3>. HIDE DEF v, good
    <3>. QED  BY <1>4, <1>5, <3>1 DEF NodeType
  <2>2. Update("master", w, Tail(tm), <<>>)
    BY <1>3, <1>5
  <2>. HIDE DEF w
  <2>. QED  BY <1>2, <1>3, <2>1, <2>2, MasterEndsFitsNext
<1>6. CASE ~ good
  <2>1. MasterFree(w)
    <3>. HIDE DEF v, good
    <3>. QED  BY <1>4, <1>6, TurnSteps DEF NodeType, MasterFree
  <2>2. ~ Reply(m, f, Handed)
    BY <1>2, <1>6 DEF Reply, Greets, Verdicts, Correlated, Intact
  <2>3. Leaves(tm, Rest(f, Tail(tm)))
    BY <1>1, <1>3, LeavesRest
  <2>4. Update("master", w, Rest(f, Tail(tm)), <<>>)
    BY <1>3, <1>6
  <2>. HIDE DEF w, m, tm, good
  <2>5. Fits(w, node["slave"], Rest(f, Tail(tm)), rx["slave"], Handed)
    BY <1>2, <1>3, <2>1, <2>2, <2>3, MasterRereadFits DEF FitsNow, m, tm
  <2>. QED  BY <1>1, <2>4, <2>5, MasterUpdate DEF FitsNext
<1>. QED  BY <1>5, <1>6

LEMMA MasterTimeoutFitsNext ==
    ASSUME IInv, FitsNow, Lossy', ResponseTimeout("master")
    PROVE  FitsNext(Handed)
<1>. DEFINE m == node["master"]
            w == [TurnReset("master") EXCEPT !.hbAwait = IF m.wait.for = "Heartbeat" THEN TRUE ELSE @]
<1>1. TypeOK /\ m \in NodeType /\ "master" \in Node /\ node \in [Node -> NodeType] /\ "slave" \in Node
  BY Lines, Names, Typed DEF IInv
<1>2. rx["master"] = <<>> /\ m.state = "Synced"
  BY DEF ResponseTimeout, Idle, FitsNow, Fits, MasterPoised, Poised
<1>3. ~ Active("slave")
  <2>1. Peer("master") = "slave"
    BY DEF Peer
  <2>. QED  BY <2>1 DEF ResponseTimeout, Faulted, Lossy
<1>4. rx["slave"] = <<>> /\ node["slave"].turn # "WriteRequest"
  BY <1>3, SlaveQuiet
<1>5. CASE Transaction("master")
  BY <1>1, <1>2, <1>4, <1>5, MasterResetFitsNext DEF ResponseTimeout
<1>6. CASE ~ Transaction("master")
  <2>1. node' = [node EXCEPT !["master"] = w] /\ rx' = rx
    BY <1>6 DEF ResponseTimeout
  <2>2. TurnReset("master") \in NodeType
    BY <1>1, TurnResetType
  <2>3. MasterFree(w)
    BY <1>1, <1>2, <2>2, TurnResetFields, TurnSteps DEF MasterFree, NodeType
  <2>. HIDE DEF w
  <2>4. node'["master"] = w /\ node'["slave"] = node["slave"]
    BY <1>1, <2>1
  <2>. HIDE DEF m
  <2>5. Fits(w, node["slave"], rx["master"], rx["slave"], Handed)
    BY <1>2, <1>4, <2>3, MasterRereadFits DEF FitsNow, m
  <2>. QED  BY <2>1, <2>4, <2>5 DEF FitsNext
<1>. QED  BY <1>5, <1>6

LEMMA MasterAwaitFitsNext ==
    ASSUME IInv, FitsNow, Lossy', Await("master")
    PROVE  FitsNext(Handed)
<1>1. CASE TransactionFails("master")
  <2>1. TypeOK /\ "master" \in Node
    BY Names DEF IInv
  <2>2. /\ rx["master"] # <<>> /\ node["master"].state = "Synced"
        /\ ResetConnection("master", Answered("master", Head(rx["master"])), {node["master"].wait.req})
    BY <1>1 DEF TransactionFails, Transaction, FitsNow, Fits, MasterPoised, Poised
  <2>3. Answered("master", Head(rx["master"])) \in NodeType
    BY <2>1, <2>2, ArrivedFrame
  <2>. QED  BY <2>1, <2>2, <2>3, MasterResetFitsNext
<1>. QED  BY <1>1, MasterVerdictFitsNext, MasterLinkFitsNext, MasterTimeoutFitsNext DEF Await

(***************************************************************************)
(* The slave's steps.                                                      *)
(***************************************************************************)
LEMMA SlaveResetFitsNext ==
    ASSUME TypeOK, FitsNow, NEW v \in NodeType, NEW current, ResetConnection("slave", v, current),
           rx["slave"] # <<>> \/ node["slave"].wait.for = "none"
    PROVE  FitsNext(Handed)
<1>. USE Names
<1>. DEFINE w == Disconnected("slave", v)
<1>1. Update("slave", w, <<>>, <<>>)
  BY DEF ResetConnection
<1>2. SlaveAnew(w)
  BY DisconnectedFields, TurnSteps DEF SlaveAnew
<1>. HIDE DEF w
<1>3. Fits(node["master"], w, rx["master"], <<>>, Handed)
  BY <1>2, SlaveAnewFits DEF FitsNow
<1>. QED  BY <1>1, <1>3, SlaveUpdate DEF FitsNext

\* The slave takes up what the master awaits, and may answer it.
LEMMA SlaveTurnFitsNext ==
    ASSUME TypeOK, FitsNow, node["slave"].wait.for = "none", node["slave"].turn = "ReadRequest",
           rx["slave"] # <<>>, Awaited(node["master"], Head(rx["slave"])),
           node["slave"].state = "Synced" \/ Head(rx["slave"]).type = "Hello",
           NEW w, SlaveFree(w), NEW g \in Frames, Handed \subseteq Handed',
           \/ Update("slave", w, Tail(rx["slave"]), <<>>)
           \/ Update("slave", w, Tail(rx["slave"]), <<g>>) /\ Reply(node["master"], g, Handed')
    PROVE  FitsNext(Handed')
<1>1. rx["master"] = <<>>
  BY SlaveReads DEF FitsNow
<1>2. /\ node'["slave"] = w /\ node'["master"] = node["master"] /\ rx'["slave"] = Tail(rx["slave"])
      /\ \/ rx'["master"] = rx["master"]
         \/ Joins(rx["master"], g, rx'["master"]) /\ Reply(node["master"], g, Handed')
  BY <1>1, SlaveUpdate DEF Carries
<1>3. Fits(node["master"], w, rx'["master"], Tail(rx["slave"]), Handed')
  BY <1>2, SlaveTakesTurnFits DEF FitsNow
<1>. QED  BY <1>2, <1>3 DEF FitsNext

\* The slave reads a frame where it expects an answer and waits for none.
LEMMA SlaveDropFitsNext ==
    ASSUME TypeOK, FitsNow, node["slave"].wait.for = "none", node["slave"].turn = "ReadReaction",
           rx["slave"] # <<>>, NEW w, SlaveReady(w), Handed \subseteq Handed',
           Update("slave", w, Tail(rx["slave"]), <<>>)
    PROVE  FitsNext(Handed')
<1>1. Fits(node["master"], w, rx["master"], Tail(rx["slave"]), Handed')
  BY SlaveDropsFits DEF FitsNow
<1>. QED  BY <1>1, SlaveUpdate DEF FitsNext

\* What an incoming frame finds.
LEMMA SlaveListens ==
    ASSUME IInv, FitsNow, Incoming("slave")
    PROVE  LET s == node["slave"]
           IN  /\ TypeOK /\ "slave" \in Node /\ s \in NodeType /\ rx["slave"] # <<>>
               /\ Head(rx["slave"]) \in Frames
               /\ s.wait.for = "none" /\ s.turn \in {"ReadRequest", "ReadReaction"}
               /\ s.state = "Synced" \/ (s.state = "Initial" /\ s.turn = "ReadRequest")
<1>1. TypeOK /\ "slave" \in Node /\ node["slave"] \in NodeType
  BY Lines, Names DEF IInv
<1>2. rx["slave"] # <<>>
  BY DEF Incoming
<1>3. Head(rx["slave"]) \in Frames
  BY <1>1, <1>2, ArrivedFrame
<1>. QED
  BY <1>1, <1>2, <1>3
     DEF Incoming, Idle, canRead, FitsNow, Fits, SlavePoised, Poised, NodeType

LEMMA SlaveOnHelloFitsNext ==
    ASSUME IInv, FitsNow, SlaveOnHello, Handed \subseteq Handed'
    PROVE  FitsNext(Handed')
<1>. DEFINE s == node["slave"]
            m == node["master"]
            f == Head(rx["slave"])
            v == [Taken("slave", f) EXCEPT !.seq = (f.seq + 1) % SeqMod]
            a == Advanced(v)
            b == [Deferred(a) EXCEPT !.hello = v.seq, !.state = "Synced"]
<1>1. Incoming("slave") /\ Intact(f) /\ f.type = "Hello"
  BY DEF SlaveOnHello, Intact
<1>2. /\ TypeOK /\ "slave" \in Node /\ s \in NodeType /\ rx["slave"] # <<>> /\ f \in Frames
      /\ s.wait.for = "none" /\ s.turn \in {"ReadRequest", "ReadReaction"}
      /\ s.state = "Synced" \/ (s.state = "Initial" /\ s.turn = "ReadRequest")
  BY <1>1, SlaveListens
<1>3. /\ v \in NodeType /\ v.wait = NoWait /\ v.state = s.state /\ v.turn = step(s.turn)
      /\ v.seq = (f.seq + 1) % SeqMod
  <2>1. Taken("slave", f) \in NodeType
    BY <1>2, ArrivedFrame
  <2>2. (f.seq + 1) % SeqMod \in SeqNo
    BY <1>2, Numbers DEF Frames
  <2>3. Taken("slave", f).turn = step(s.turn)
    BY <1>1, <1>2, TakenFields DEF markRead
  <2>. QED  BY <1>2, <2>1, <2>2, <2>3, TakenFields DEF NodeType
<1>4. CASE s.turn = "ReadReaction"
  <2>1. v.turn = "ReadRequest" /\ SlaveReady(v)
    BY <1>2, <1>3, <1>4, TurnSteps, NoWaitType DEF SlaveReady
  <2>2. Update("slave", v, Tail(rx["slave"]), <<>>)
    BY <2>1 DEF SlaveOnHello
  <2>. HIDE DEF v
  <2>. QED  BY <1>2, <1>4, <2>1, <2>2, SlaveDropFitsNext
<1>5. CASE s.turn = "ReadRequest"
  <2>1. v.turn = "WriteReaction"
    BY <1>3, <1>5, TurnSteps
  <2>2. PICK g : g = Make("Hello", v.seq, f.seq, None)
    OBVIOUS
  <2>3. g \in Frames /\ Intact(g) /\ g.type = "Hello" /\ g.to = f.seq
    <3>1. v.seq \in SeqNo /\ f.seq \in SeqNo /\ None \in Request \cup {None} /\ "Hello" \in FrameType
      BY <1>2, <1>3, Names DEF NodeType, Frames
    <3>. QED  BY <2>2, <3>1, Sent
  <2>4. Update("slave", b, Tail(rx["slave"]), <<g>>) \/ Update("slave", a, Tail(rx["slave"]), <<>>)
    BY <2>1, <2>2 DEF SlaveOnHello, Out
  <2>. HIDE DEF v
  <2>5. a \in NodeType /\ a.state = s.state /\ a.turn = "WriteRequest" /\ a.wait.for = "none"
    BY <1>3, <2>1, AdvancedFields, AdvancedType, TurnSteps, NoWaitType
  <2>. HIDE DEF a
  <2>6. b.state = "Synced" /\ b.turn = "WriteRequest" /\ b.wait.for = "none"
    BY <2>5 DEF Deferred, NodeType
  <2>. HIDE DEF b
  <2>7. SlaveFree(a) /\ SlaveFree(b)
    BY <1>2, <2>5, <2>6 DEF SlaveFree
  <2>8. Awaited(m, f)
    BY <1>1, <1>2, <1>5, SlaveReads DEF FitsNow, Remnant
  <2>9. Reply(m, g, Handed')
    BY <1>1, <2>3, <2>8 DEF Awaited, Reply, Asks
  <2>10. CASE Update("slave", b, Tail(rx["slave"]), <<g>>)
    BY <1>1, <1>2, <1>5, <2>3, <2>7, <2>8, <2>9, <2>10, SlaveTurnFitsNext
  <2>11. CASE Update("slave", a, Tail(rx["slave"]), <<>>)
    BY <1>1, <1>2, <1>5, <2>3, <2>7, <2>8, <2>11, SlaveTurnFitsNext
  <2>. QED  BY <2>4, <2>10, <2>11
<1>. QED  BY <1>2, <1>4, <1>5

\* What a frame of the slave's is to Incoming and Dispatched.
LEMMA SlaveTakes ==
    ASSUME IInv, FitsNow, NEW f, Dispatched("slave", f)
    PROVE  LET s == node["slave"]
               m == node["master"]
               v == Taken("slave", f)
           IN  /\ TypeOK /\ "slave" \in Node /\ rx["slave"] # <<>>
               /\ f = Head(rx["slave"]) /\ f \in Frames /\ Intact(f)
               /\ s.state = "Synced" /\ s.wait.for = "none" /\ s \in NodeType
               /\ s.turn \in {"ReadRequest", "ReadReaction"} /\ f.seq = s.seq
               /\ f.type = "Grant" => s.turn = "ReadRequest"
               /\ f.type # "Hello" => Awaited(m, f)
               /\ v \in NodeType /\ v.state = "Synced" /\ v.wait = NoWait
               /\ v.turn = markRead(s.turn, f.type)
               /\ f.type # "Hello" => v.seq = (s.seq + 1) % SeqMod
<1>. DEFINE s == node["slave"]
            m == node["master"]
            v == Taken("slave", f)
<1>1. /\ Incoming("slave") /\ f = Head(rx["slave"]) /\ Intact(f) /\ s.state = "Synced" /\ f.seq = s.seq
      /\ f.type = "Grant" => s.turn # "ReadReaction"
  BY DEF Dispatched, Unreadable, Intact, ready
<1>2. /\ TypeOK /\ "slave" \in Node /\ s \in NodeType /\ rx["slave"] # <<>> /\ f \in Frames
      /\ s.wait.for = "none" /\ s.turn \in {"ReadRequest", "ReadReaction"}
  BY <1>1, SlaveListens
<1>3. f.type # "Hello" => Awaited(m, f)
  BY <1>1, <1>2, SlaveReads DEF FitsNow, Remnant, OneHello
<1>4. v \in NodeType /\ v.state = s.state /\ v.wait = NoWait /\ v.turn = markRead(s.turn, f.type)
      /\ (f.type # "Hello" => v.seq = (s.seq + 1) % SeqMod)
  BY <1>1, <1>2, ArrivedFrame, TakenFields
<1>. QED  BY <1>1, <1>2, <1>3, <1>4

LEMMA SlaveReactsFitsNext ==
    ASSUME IInv, FitsNow, NEW f, Dispatched("slave", f), f.type \in {"Heartbeat", "Data", "Request"},
           NEW v \in NodeType, v.turn = Taken("slave", f).turn, v.state = Taken("slave", f).state,
           v.wait = NoWait, v.seq = Taken("slave", f).seq,
           NEW type \in FrameType, type \in Verdicts(f.type),
           React("slave", v, Tail(rx["slave"]), f, type),
           Handed \subseteq Handed', type \in {"Ack", "Response"} => f.req \in Handed'
    PROVE  FitsNext(Handed')
<1>. DEFINE s == node["slave"]
            m == node["master"]
            left == Tail(rx["slave"])
<1>1. /\ TypeOK /\ "slave" \in Node /\ rx["slave"] # <<>>
      /\ f = Head(rx["slave"]) /\ f \in Frames /\ Intact(f)
      /\ s.state = "Synced" /\ s.wait.for = "none"
      /\ s.turn \in {"ReadRequest", "ReadReaction"} /\ f.seq = s.seq
      /\ Awaited(m, f) /\ v.state = "Synced" /\ v.wait.for = "none"
      /\ v.turn = markRead(s.turn, f.type) /\ v.seq = (s.seq + 1) % SeqMod
  BY SlaveTakes, NoWaitType
<1>2. CASE s.turn = "ReadReaction"
  <2>1. v.turn = "ReadRequest" /\ SlaveReady(v)
    BY <1>1, <1>2, TurnSteps DEF SlaveReady, markRead
  <2>2. Update("slave", v, left, <<>>)
    BY <2>1 DEF React
  <2>. QED  BY <1>1, <1>2, <2>1, <2>2, SlaveDropFitsNext
<1>3. CASE s.turn = "ReadRequest"
  <2>1. v.turn = "WriteReaction"
    BY <1>1, <1>3, TurnSteps DEF markRead
  <2>2. React("slave", v, left, f, type)
    OBVIOUS
  <2>. HIDE DEF left
  <2>3. PICK g \in Frames :
           /\ Intact(g) /\ g.type = type /\ g.seq = v.seq /\ g.to = f.seq
           /\ Update("slave", Advanced(v), left, <<>>) \/ Update("slave", Advanced(v), left, <<g>>)
    BY <1>1, <2>1, <2>2, ReactIs
  <2>4. SlaveFree(Advanced(v))
    BY <1>1, <2>1, AdvancedFields, TurnSteps DEF SlaveFree
  <2>5. /\ Asks(m) /\ f.type = m.wait.for /\ f.seq = m.wait.seq /\ f.req = m.wait.req
        /\ m.seq = (m.wait.seq + 1) % SeqMod
    BY <1>1 DEF Awaited, Asks, FitsNow, Fits, MasterPoised, Poised
  <2>6. Reply(m, g, Handed')
    BY <1>1, <2>3, <2>5 DEF Reply
  <2>. QED  BY <1>1, <1>3, <2>3, <2>4, <2>6, SlaveTurnFitsNext DEF left
<1>. QED  BY <1>1, <1>2, <1>3

LEMMA SlaveUnreadableFitsNext ==
    ASSUME IInv, FitsNow, ReceiveUnreadable("slave")
    PROVE  FitsNext(Handed)
<1>. DEFINE s == node["slave"]
<1>1. /\ TypeOK /\ s \in NodeType /\ rx["slave"] # <<>> /\ s.wait.for = "none"
      /\ s.state = "Synced" \/ (s.state = "Initial" /\ s.turn = "ReadRequest")
  BY SlaveListens DEF ReceiveUnreadable
<1>2. ResetConnection("slave", s, {})
  BY <1>1 DEF ReceiveUnreadable, Unreadable, Idle, ready
<1>. QED  BY <1>1, <1>2, SlaveResetFitsNext

LEMMA SlaveStaleFitsNext ==
    ASSUME IInv, FitsNow, ReceiveStale("slave")
    PROVE  FitsNext(Handed)
<1>. DEFINE w == TurnReset("slave")
<1>1. /\ TypeOK /\ "slave" \in Node /\ rx["slave"] # <<>>
      /\ node["slave"].wait.for = "none" /\ node["slave"].state = "Initial"
      /\ Update("slave", w, <<>>, <<>>)
  BY SlaveListens DEF ReceiveStale, ready
<1>2. SlaveAnew(w)
  BY <1>1, TurnResetFields, TurnSteps DEF SlaveAnew
<1>. HIDE DEF w
<1>3. Fits(node["master"], w, rx["master"], <<>>, Handed)
  BY <1>1, <1>2, SlaveAnewFits DEF FitsNow
<1>. QED  BY <1>1, <1>3, SlaveUpdate DEF FitsNext

LEMMA SlavePollFitsNext ==
    ASSUME IInv, FitsNow, PollOutOfTurn("slave")
    PROVE  FitsNext(Handed)
<1>. DEFINE w == TurnReset("slave")
            s == node["slave"]
<1>1. TypeOK /\ "slave" \in Node /\ "master" \in Node /\ s \in NodeType /\ node \in [Node -> NodeType]
  BY Lines, Names, Typed DEF IInv
<1>2. node' = [node EXCEPT !["slave"] = w] /\ rx' = rx
  BY DEF PollOutOfTurn
<1>3. s.state = "Initial" /\ s.turn = "WriteRequest" /\ s.wait.for = "none"
  BY <1>1, TurnSteps
     DEF PollOutOfTurn, Idle, ready, canRead, FitsNow, Fits, SlavePoised, Poised, NodeType
<1>4. SlaveAnew(w)
  BY <1>1, <1>3, TurnResetFields, TurnSteps DEF SlaveAnew
<1>. HIDE DEF w
<1>5. node'["slave"] = w /\ node'["master"] = node["master"]
  BY <1>1, <1>2
<1>6. Fits(node["master"], w, rx["master"], rx["slave"], Handed)
  BY <1>3, <1>4, SlavePollFits DEF FitsNow
<1>. QED  BY <1>2, <1>5, <1>6 DEF FitsNext

LEMMA SlaveGrantedFitsNext ==
    ASSUME IInv, FitsNow, ReceiveWithoutReaction("slave"), Handed \subseteq Handed'
    PROVE  FitsNext(Handed')
<1>. DEFINE f == Head(rx["slave"])
            v == Taken("slave", f)
<1>1. /\ Dispatched("slave", f) /\ f.type \in {"Grant", "Ack", "Nack", "Response"}
      /\ Update("slave", v, Rest(f, Tail(rx["slave"])), <<>>)
  BY DEF ReceiveWithoutReaction
<1>2. /\ TypeOK /\ rx["slave"] # <<>> /\ f \in Frames
      /\ node["slave"].state = "Synced" /\ node["slave"].wait.for = "none"
      /\ f.type = "Grant" => node["slave"].turn = "ReadRequest"
      /\ Awaited(node["master"], f)
      /\ v.state = "Synced" /\ v.wait = NoWait
      /\ v.turn = markRead(node["slave"].turn, f.type)
  BY <1>1, SlaveTakes
<1>3. f.type = "Grant"
  BY <1>1, <1>2 DEF Awaited, Asks
<1>4. SlaveFree(v)
  BY <1>2, <1>3, TurnSteps, NoWaitType DEF SlaveFree, markRead
<1>5. Rest(f, Tail(rx["slave"])) = Tail(rx["slave"])
  BY <1>3 DEF Rest, HasPayload
<1>. HIDE DEF v
<1>. QED  BY <1>1, <1>2, <1>3, <1>4, <1>5, SlaveTurnFitsNext

LEMMA SlaveHeartbeatFitsNext ==
    ASSUME IInv, FitsNow, ReceiveHeartbeat("slave"), Handed \subseteq Handed'
    PROVE  FitsNext(Handed')
<1>. DEFINE f == Head(rx["slave"])
            t == Taken("slave", f)
            v == [t EXCEPT !.heard = 0]
<1>1. Dispatched("slave", f) /\ f.type = "Heartbeat"
  BY DEF ReceiveHeartbeat
<1>2. f.to = 0 /\ t \in NodeType /\ t.wait = NoWait
  BY <1>1, SlaveTakes DEF Awaited
<1>3. React("slave", v, Tail(rx["slave"]), f, "Heartbeat")
  BY <1>2 DEF ReceiveHeartbeat
<1>4. v \in NodeType /\ v.turn = t.turn /\ v.state = t.state /\ v.wait = NoWait /\ v.seq = t.seq
  <2>. HIDE DEF t
  <2>. QED  BY <1>2, Numbers DEF NodeType
<1>5. "Heartbeat" \in FrameType /\ "Heartbeat" \in Verdicts(f.type)
  BY <1>1, Names DEF Verdicts
<1>. HIDE DEF v, f
<1>. QED  BY <1>1, <1>3, <1>4, <1>5, SlaveReactsFitsNext DEF f

LEMMA SlaveTransactionFitsNext ==
    ASSUME IInv, FitsNow, ReceiveTransaction("slave"), Handed \subseteq Handed'
    PROVE  FitsNext(Handed')
<1>. DEFINE f == Head(rx["slave"])
            v == Taken("slave", f)
<1>1. Dispatched("slave", f) /\ f.type \in {"Data", "Request"}
  BY DEF ReceiveTransaction
<1>2. /\ TypeOK /\ rx["slave"] # <<>> /\ v \in NodeType /\ v.wait = NoWait
      /\ Awaited(node["master"], f)
  BY <1>1, SlaveTakes
<1>3. f.req \in Request
  BY <1>1, <1>2 DEF Awaited, FitsNow, Fits, MasterPoised, Poised, Kind
<1>4. CASE ResetConnection("slave", v, {})
  BY <1>2, <1>4, SlaveResetFitsNext, GrowFitsNext
<1>5. ASSUME NEW type \in Verdicts(f.type), React("slave", v, Tail(rx["slave"]), f, type),
             type # "Nack" => req' = [req EXCEPT ![f.req].delivered = @ + 1]
      PROVE  FitsNext(Handed')
  <2>1. type \in FrameType /\ (type \in {"Ack", "Response"} => f.req \in Handed')
    BY <1>1, <1>2, <1>3, <1>5, AcceptedHanded, Names DEF Verdicts
  <2>. HIDE DEF v, f
  <2>. QED  BY <1>1, <1>2, <1>5, <2>1, SlaveReactsFitsNext DEF v, f
<1>6. CASE \E accepted \in BOOLEAN :
              /\ React("slave", v, Tail(rx["slave"]), f,
                       IF ~ accepted THEN "Nack" ELSE IF f.type = "Data" THEN "Ack" ELSE "Response")
              /\ req' = IF accepted THEN [req EXCEPT ![f.req].delivered = @ + 1] ELSE req
  <2>1. PICK accepted \in BOOLEAN :
           /\ React("slave", v, Tail(rx["slave"]), f,
                    IF ~ accepted THEN "Nack" ELSE IF f.type = "Data" THEN "Ack" ELSE "Response")
           /\ req' = IF accepted THEN [req EXCEPT ![f.req].delivered = @ + 1] ELSE req
    BY <1>6
  <2>. DEFINE type == IF ~ accepted THEN "Nack" ELSE IF f.type = "Data" THEN "Ack" ELSE "Response"
  <2>2. type \in Verdicts(f.type) /\ (type # "Nack" => accepted)
    BY <1>1 DEF Verdicts
  <2>3. React("slave", v, Tail(rx["slave"]), f, type)
    BY <2>1
  <2>. HIDE DEF type, v, f
  <2>. QED  BY <1>5, <2>1, <2>2, <2>3
<1>. QED  BY <1>4, <1>6 DEF ReceiveTransaction

LEMMA SlaveReceiveFitsNext ==
    ASSUME IInv, FitsNow, Receive("slave"), Handed \subseteq Handed'
    PROVE  FitsNext(Handed')
<1>1. CASE ReceiveOutOfSequence("slave")
  <2>1. TypeOK /\ node["slave"] \in NodeType /\ rx["slave"] # <<>> /\ ResetConnection("slave", node["slave"], {})
    BY <1>1, SlaveListens DEF ReceiveOutOfSequence
  <2>. QED  BY <2>1, SlaveResetFitsNext, GrowFitsNext
<1>2. CASE ReceiveNop("slave")
  <2>1. Dispatched("slave", Head(rx["slave"])) /\ Head(rx["slave"]).type = "Nop"
    BY <1>2 DEF ReceiveNop
  <2>. QED  BY <2>1, SlaveTakes DEF Awaited, Asks
<1>. QED
  BY <1>1, <1>2, SlaveUnreadableFitsNext, SlaveStaleFitsNext, SlavePollFitsNext, SlaveGrantedFitsNext,
     SlaveHeartbeatFitsNext, SlaveTransactionFitsNext, GrowFitsNext
     DEF Receive

\* The slave's turn, and the answers it waits for.
LEMMA SlaveSendFitsNext ==
    ASSUME TypeOK, FitsNow, node["slave"].wait.for = "none", node["slave"].turn = "WriteRequest",
           node["slave"].state = "Synced",
           NEW for \in {"Nop", "Data", "Request"}, NEW r \in Request \cup {None},
           for \in Kind => r \in Request,
           LET s == node["slave"] IN
               \/ Update("slave", Waiting(s, for, r), rx["slave"], <<Make(for, s.seq, 0, r)>>)
               \/ Update("slave", Advanced(s), rx["slave"], <<>>)
    PROVE  FitsNext(Handed)
<1>. DEFINE s == node["slave"]
            a == Advanced(s)
            b == Waiting(s, for, r)
<1>1. s \in NodeType /\ s.seq \in SeqNo
  BY Lines, Names DEF NodeType
<1>2. PICK f : f = Make(for, s.seq, 0, r)
  OBVIOUS
<1>3. f \in Frames /\ Intact(f) /\ f.type = for /\ f.to = 0 /\ f.req = r
  <2>1. 0 \in SeqNo /\ for \in FrameType
    BY Numbers, Names
  <2>. QED  BY <1>1, <1>2, <2>1, Sent
<1>4. Update("slave", b, rx["slave"], <<f>>) \/ Update("slave", a, rx["slave"], <<>>)
  BY <1>2
<1>. HIDE DEF s
<1>5. /\ a.state = "Synced" /\ a.turn = "ReadReaction" /\ a.wait.for = "none"
      /\ b.state = "Synced" /\ b.turn = "ReadReaction" /\ b.seq = (s.seq + 1) % SeqMod
      /\ b.wait.for = for /\ b.wait.seq = s.seq /\ b.wait.req = r
  <2>1. s.state = "Synced" /\ s.turn = "WriteRequest" /\ s.wait.for = "none"
    BY DEF s
  <2>. QED  BY <1>1, <2>1, AdvancedFields, WaitingFields, TurnSteps
<1>. HIDE DEF a, b
<1>6. SlavePoised(a) /\ SlavePoised(b)
  BY <1>5 DEF SlavePoised, Poised, Kind
<1>7. CASE Update("slave", b, rx["slave"], <<f>>)
  <2>1. /\ node'["slave"] = b /\ node'["master"] = node["master"] /\ rx'["slave"] = rx["slave"]
        /\ Carries(rx["master"], f, rx'["master"])
    BY <1>3, <1>7, SlaveUpdate
  <2>2. Fits(node["master"], b, rx'["master"], rx["slave"], Handed)
    BY <1>3, <1>5, <1>6, <2>1, SlaveSendsFits DEF FitsNow
  <2>. QED  BY <2>1, <2>2 DEF FitsNext
<1>8. CASE Update("slave", a, rx["slave"], <<>>)
  <2>1. Fits(node["master"], a, rx["master"], rx["slave"], Handed)
    BY <1>5, <1>6, SlaveSendsFits DEF FitsNow
  <2>. QED  BY <1>8, <2>1, SlaveUpdate DEF FitsNext
<1>. QED  BY <1>4, <1>7, <1>8

LEMMA SlaveNopFitsNext ==
    ASSUME IInv, FitsNow, SendNopExchange
    PROVE  FitsNext(Handed)
<1>. DEFINE s == node["slave"]
<1>1. TypeOK /\ None \in Request \cup {None} /\ "Nop" \notin Kind
  BY DEF IInv, Kind
<1>2. s.wait.for = "none" /\ s.turn = "WriteRequest" /\ s.state = "Synced"
  BY DEF SendNopExchange, Free, Writes, Idle, ready
<1>3. \/ Update("slave", Waiting(s, "Nop", None), rx["slave"], <<Make("Nop", s.seq, 0, None)>>)
      \/ Update("slave", Advanced(s), rx["slave"], <<>>)
  BY DEF SendNopExchange, Out
<1>. QED  BY <1>1, <1>2, <1>3, SlaveSendFitsNext

LEMMA SlaveProcessFitsNext ==
    ASSUME IInv, FitsNow, ProcessOne("slave")
    PROVE  FitsNext(Handed)
<1>. DEFINE s == node["slave"]
            r == Head(Head1("slave"))
<1>1. TypeOK /\ s \in NodeType /\ "slave" \in Node
  BY Lines, Names DEF IInv
<1>2. s.wait.for = "none" /\ s.turn = "WriteRequest" /\ s.state = "Synced" /\ Head1("slave") # <<>>
  BY DEF ProcessOne, Free, Writes, Idle, ready
<1>3. r \in Request /\ KindOf(r) \in Kind
  BY <1>1, <1>2, FirstRequest, Kinds
<1>4. \/ Update("slave", Waiting(s, KindOf(r), r), rx["slave"], <<Make(KindOf(r), s.seq, 0, r)>>)
      \/ ResetConnection("slave", Advanced(s), {r})
      \/ Update("slave", Advanced(s), rx["slave"], <<>>)
  BY DEF ProcessOne
<1>. HIDE DEF r
<1>5. CASE ResetConnection("slave", Advanced(s), {r})
  BY <1>1, <1>2, <1>5, AdvancedType, SlaveResetFitsNext
<1>6. CASE \/ Update("slave", Waiting(s, KindOf(r), r), rx["slave"], <<Make(KindOf(r), s.seq, 0, r)>>)
           \/ Update("slave", Advanced(s), rx["slave"], <<>>)
  <2>1. KindOf(r) \in {"Nop", "Data", "Request"} /\ r \in Request \cup {None}
    BY <1>3 DEF Kind
  <2>. QED  BY <1>1, <1>2, <1>3, <1>6, <2>1, SlaveSendFitsNext
<1>. QED  BY <1>4, <1>5, <1>6

LEMMA SlaveVerdictFitsNext ==
    ASSUME IInv, FitsNow, TransactionAnswered("slave")
    PROVE  FitsNext(Handed)
<1>. DEFINE s == node["slave"]
            f == Head(rx["slave"])
            w == Answered("slave", f)
<1>1. TypeOK /\ "slave" \in Node
  BY Names DEF IInv
<1>2. s.wait.for \in Kind /\ s.state = "Synced" /\ s.turn = "ReadReaction"
  BY DEF TransactionAnswered, Transaction, Kind, FitsNow, Fits, SlavePoised, Poised
<1>3. /\ rx["slave"] # <<>> /\ Intact(f) /\ f.type \in {"Nack", "Ack", "Response"}
      /\ Update("slave", w, Tail(rx["slave"]), <<>>)
  BY DEF TransactionAnswered, Verdict, Correlated, Intact
<1>4. SlaveReady(w)
  BY <1>1, <1>2, <1>3, AnsweredFields, TurnSteps DEF Intact, SlaveReady
<1>. HIDE DEF w
<1>5. Fits(node["master"], w, rx["master"], Tail(rx["slave"]), Handed)
  BY <1>2, <1>3, <1>4, SlaveAnsweredFits DEF FitsNow
<1>. QED  BY <1>1, <1>3, <1>5, SlaveUpdate DEF FitsNext

LEMMA SlaveLinkFitsNext ==
    ASSUME IInv, FitsNow, LinkAnswered("slave")
    PROVE  FitsNext(Handed)
<1>. DEFINE s == node["slave"]
            ts == rx["slave"]
            f == Head(ts)
            v == Answered("slave", f)
            good == Correlated("slave", f) /\ f.type = "Nop"
            w == IF good THEN v ELSE [v EXCEPT !.turn = startState("slave")]
            left == IF good THEN Tail(ts) ELSE Rest(f, Tail(ts))
<1>1. TypeOK /\ ts \in Seq(Frames) /\ "slave" \in Node
  BY Lines, Names DEF IInv
<1>2. s.wait.for = "Nop" /\ s.state = "Synced" /\ s.turn = "ReadReaction"
  BY DEF LinkAnswered, LinkControl, FitsNow, Fits, SlavePoised, Poised
<1>3. ts # <<>> /\ Update("slave", w, left, <<>>)
  <2>1. [v EXCEPT !.turn = startState("slave"), !.hbAwait = @] = [v EXCEPT !.turn = startState("slave")]
    <3>1. v \in NodeType
      BY <1>1, ArrivedFrame DEF LinkAnswered
    <3>. HIDE DEF v
    <3>. QED  BY <3>1 DEF NodeType
  <2>. QED  BY <1>2, <2>1 DEF LinkAnswered
<1>4. /\ v.state = "Synced" /\ v.wait.for = "none" /\ v \in NodeType
      /\ Intact(f) /\ f.type = "Nop" => v.turn = "ReadRequest"
  BY <1>1, <1>2, <1>3, AnsweredFields, ArrivedFrame, TurnSteps DEF Intact
<1>5. SlaveReady(w)
  <2>1. good => Intact(f) /\ f.type = "Nop"
    BY DEF Correlated, Intact
  <2>. HIDE DEF v, good
  <2>. QED  BY <1>4, <2>1, TurnSteps DEF NodeType, SlaveReady
<1>6. Leaves(ts, left)
  <2>1. CASE good
    BY <2>1 DEF Leaves, HasPayload
  <2>2. CASE ~ good
    BY <1>1, <1>3, <2>2, LeavesRest
  <2>. QED  BY <2>1, <2>2
<1>. HIDE DEF w, left, ts
<1>7. Fits(node["master"], w, rx["master"], left, Handed)
  BY <1>2, <1>3, <1>5, <1>6, SlaveNopFits DEF FitsNow, ts
<1>. QED  BY <1>1, <1>3, <1>7, SlaveUpdate DEF FitsNext

LEMMA SlaveTimeoutFitsNext ==
    ASSUME IInv, FitsNow, Lossy', ResponseTimeout("slave")
    PROVE  FitsNext(Handed)
<1>. DEFINE s == node["slave"]
            w == [TurnReset("slave") EXCEPT !.hbAwait = IF s.wait.for = "Heartbeat" THEN TRUE ELSE @]
            d == Disconnected("slave", s)
<1>1. TypeOK /\ s \in NodeType /\ "slave" \in Node /\ node \in [Node -> NodeType] /\ "master" \in Node
  BY Lines, Names, Typed DEF IInv
<1>2. rx["slave"] = <<>> /\ s.wait.for # "none" /\ s.state = "Synced"
  BY DEF ResponseTimeout, Idle, FitsNow, Fits, SlavePoised, Poised
<1>3. Waits(node["master"], rx["master"])
  <2>1. Peer("slave") = "master"
    BY DEF Peer
  <2>2. ~ Active("master")
    BY <2>1 DEF ResponseTimeout, Faulted, Lossy
  <2>. QED  BY <2>2, MasterQuiet
<1>4. CASE Transaction("slave")
  <2>1. Update("slave", d, <<>>, <<>>)
    BY <1>4 DEF ResponseTimeout, ResetConnection
  <2>2. SlaveAnew(d) /\ s.wait.for # "Nop"
    BY <1>1, <1>4, DisconnectedFields, TurnSteps DEF SlaveAnew, Transaction
  <2>. HIDE DEF d
  <2>3. Fits(node["master"], d, rx["master"], <<>>, Handed)
    BY <1>2, <1>3, <2>2, SlaveTimeoutFits DEF FitsNow
  <2>. QED  BY <1>1, <2>1, <2>3, SlaveUpdate DEF FitsNext
<1>5. CASE ~ Transaction("slave")
  <2>1. node' = [node EXCEPT !["slave"] = w] /\ rx' = rx
    BY <1>5 DEF ResponseTimeout
  <2>2. TurnReset("slave") \in NodeType
    BY <1>1, TurnResetType
  <2>3. s.wait.for = "Nop"
    BY <1>1, <1>2, <1>5 DEF FitsNow, Fits, SlavePoised, Transaction, NodeType
  <2>4. SlaveReady(w)
    BY <1>1, <1>2, <2>2, TurnResetFields, TurnSteps DEF SlaveReady, NodeType
  <2>. HIDE DEF w
  <2>5. node'["slave"] = w /\ node'["master"] = node["master"]
    BY <1>1, <2>1
  <2>. HIDE DEF s
  <2>6. Fits(node["master"], w, rx["master"], <<>>, Handed)
    BY <1>2, <1>3, <2>3, <2>4, SlaveTimeoutFits DEF FitsNow, s
  <2>. QED  BY <1>2, <2>1, <2>5, <2>6 DEF FitsNext
<1>. QED  BY <1>4, <1>5

LEMMA SlaveAwaitFitsNext ==
    ASSUME IInv, FitsNow, Lossy', Await("slave")
    PROVE  FitsNext(Handed)
<1>1. CASE TransactionFails("slave")
  <2>1. TypeOK /\ "slave" \in Node
    BY Names DEF IInv
  <2>2. /\ rx["slave"] # <<>>
        /\ ResetConnection("slave", Answered("slave", Head(rx["slave"])), {node["slave"].wait.req})
    BY <1>1 DEF TransactionFails
  <2>3. Answered("slave", Head(rx["slave"])) \in NodeType
    BY <2>1, <2>2, ArrivedFrame
  <2>. QED  BY <2>1, <2>2, <2>3, SlaveResetFitsNext
<1>. QED  BY <1>1, SlaveVerdictFitsNext, SlaveLinkFitsNext, SlaveTimeoutFitsNext DEF Await

LEMMA SlaveSilenceFitsNext ==
    ASSUME IInv, FitsNow, SilenceStep
    PROVE  FitsNext(Handed)
<1>1. TypeOK /\ node["slave"] \in NodeType
  BY Lines, Names DEF IInv
<1>2. node["slave"].wait.for = "none" /\ ResetConnection("slave", node["slave"], {})
  BY DEF SilenceStep, Writes, Idle
<1>. QED  BY <1>1, <1>2, SlaveResetFitsNext

(***************************************************************************)
(* Users, time and the line.                                               *)
(***************************************************************************)
LEMMA UserFitsNext ==
    ASSUME TypeOK, FitsNow, NEW r \in Request, Check(r) \/ Enqueue(r)
    PROVE  FitsNext(Handed)
<1>1. CASE Check(r)
  BY <1>1 DEF Check, FitsNow, FitsNext
<1>2. CASE Enqueue(r)
  <2>. DEFINE m == node["master"]
  <2>1. PICK b : node' = [node EXCEPT !["master"].attention = b]
    BY <1>2 DEF Enqueue
  <2>2. node \in [Node -> NodeType] /\ "master" \in Node /\ "slave" \in Node
    BY Typed, Names
  <2>. DEFINE w == [m EXCEPT !.attention = b]
  <2>3. node'["master"] = w /\ node'["slave"] = node["slave"] /\ m \in NodeType
    BY <2>1, <2>2
  <2>. HIDE DEF m
  <2>4. SameMaster(m, w) /\ w.due = m.due
    BY <2>3 DEF NodeType, SameMaster
  <2>. HIDE DEF w
  <2>5. Fits(w, node["slave"], rx["master"], rx["slave"], Handed)
    BY <2>4, SameFits DEF FitsNow, SameSlave, m
  <2>6. rx' = rx
    BY <1>2 DEF Enqueue
  <2>. QED  BY <2>3, <2>5, <2>6 DEF FitsNext
<1>. QED  BY <1>1, <1>2

LEMMA TickFitsNext ==
    ASSUME TypeOK, FitsNow, Tick
    PROVE  FitsNext(Handed)
<1>1. ~ Active("master") /\ ~ Active("slave") /\ "master" \in Node /\ "slave" \in Node
  BY Names DEF Tick, Active
<1>2. /\ rx["slave"] = <<>> /\ node["slave"].turn # "WriteRequest"
      /\ Waits(node["master"], rx["master"])
  BY <1>1, SlaveQuiet, MasterQuiet
<1>3. ASSUME NEW n \in Node
      PROVE  SameMaster(node[n], node'[n]) /\ SameSlave(node[n], node'[n])
  <2>1. PICK due, heard : node'[n] = [node[n] EXCEPT !.due = due, !.heard = heard]
    BY DEF Tick, Older
  <2>2. node[n] \in NodeType
    BY Lines
  <2>. QED  BY <2>1, <2>2 DEF NodeType, SameMaster, SameSlave
<1>4. rx' = rx
  BY DEF Tick
<1>5. Fits(node'["master"], node'["slave"], rx["master"], rx["slave"], Handed)
  BY <1>1, <1>2, <1>3, SameFits DEF FitsNow
<1>. QED  BY <1>4, <1>5 DEF FitsNext

LEMMA ShorterLine ==
    ASSUME NEW l \in Seq(Frames), l # <<>>
    PROVE  Shorter(l, SubSeq(l, 1, Len(l) - 1))
<1>. DEFINE k == SubSeq(l, 1, Len(l) - 1)
<1>1. Len(l) \in Nat \ {0} /\ Tail(l) \in Seq(Frames) /\ Len(Tail(l)) = Len(l) - 1
  BY TailCount
<1>2. k \in Seq(Frames) /\ Len(k) = Len(l) - 1 /\ \A i \in 1 .. Len(l) - 1 : k[i] = l[i]
  <2>1. \A i \in 1 .. Len(l) - 1 : l[i] \in Frames
    BY <1>1
  <2>. QED  BY <1>1, <2>1
<1>. HIDE DEF k
<1>3. (k = <<>> <=> Len(l) = 1) /\ (Tail(l) = <<>> <=> Len(l) = 1)
  BY <1>1, <1>2, EmptyLine, OneFrame
<1>4. k # <<>> => Head(k) = Head(l)
  <2>1. k # <<>> => Head(k) = k[1] /\ Head(l) = l[1] /\ Len(l) - 1 >= 1
    <3>1. k # <<>> => Len(l) - 1 >= 1
      BY <1>1, <1>3
    <3>. QED  BY <1>2, <3>1, LaterFrames
  <2>. QED  BY <1>1, <1>2, <2>1
<1>5. k # <<>> /\ Single(Tail(l)) => Tail(k) = <<>>
  <2>1. Single(Tail(l)) => Len(Tail(l)) = 1
    BY <1>1, OneFrame DEF Single
  <2>2. Single(Tail(l)) => Len(k) = 1
    BY <1>1, <1>2, <2>1
  <2>. QED  BY <1>2, <2>2, OneFrame
<1>. QED  BY <1>3, <1>4, <1>5 DEF Shorter, Single, k

LEMMA LoseFitsNext ==
    ASSUME TypeOK, FitsNow, NEW n \in Node, Lose(n)
    PROVE  FitsNext(Handed)
<1>. DEFINE k == SubSeq(rx[n], 1, Len(rx[n]) - 1)
<1>1. rx[n] # <<>> /\ rx' = [rx EXCEPT ![n] = k] /\ node' = node
  BY DEF Lose
<1>2. rx \in [Node -> Seq(Frames)] /\ rx[n] \in Seq(Frames)
  BY Typed
<1>3. Shorter(rx[n], k)
  BY <1>1, <1>2, ShorterLine
<1>. HIDE DEF k
<1>4. rx'[n] = k /\ rx'[Peer(n)] = rx[Peer(n)]
  BY <1>1, <1>2, Peers
<1>5. \/ Shorter(rx["master"], rx'["master"]) /\ rx'["slave"] = rx["slave"]
      \/ rx'["master"] = rx["master"] /\ Shorter(rx["slave"], rx'["slave"])
  BY <1>3, <1>4 DEF Node, Peer
<1>6. Fits(node["master"], node["slave"], rx'["master"], rx'["slave"], Handed)
  BY <1>5, LoseFits DEF FitsNow
<1>. QED  BY <1>1, <1>6 DEF FitsNext

\* Two lines of the same headers.
Echoes(l, k) ==
    /\ l \in Seq(Frames) /\ k \in Seq(Frames) /\ Len(k) = Len(l)
    /\ \A i \in 1 .. Len(l) : Resembles(l[i], k[i])

LEMMA EchoesAlike == ASSUME NEW l, NEW k, Echoes(l, k) PROVE Alike(l, k)
<1>1. k = <<>> <=> l = <<>>
  <2>1. Len(k) = 0 <=> k = <<>>
    BY EmptyLine DEF Echoes
  <2>2. Len(l) = 0 <=> l = <<>>
    BY EmptyLine DEF Echoes
  <2>. QED  BY <2>1, <2>2 DEF Echoes
<1>2. ASSUME l # <<>> PROVE Resembles(Head(l), Head(k))
  <2>1. Head(l) = l[1] /\ Head(k) = k[1] /\ Len(l) \in Nat \ {0}
    BY <1>1, <1>2, LaterFrames, TailCount DEF Echoes
  <2>. QED  BY <2>1 DEF Echoes
<1>. QED  BY <1>1, <1>2 DEF Alike

LEMMA EchoesLater == ASSUME NEW l, NEW k, Echoes(l, k), l # <<>> PROVE Echoes(Tail(l), Tail(k))
<1>1. k # <<>> /\ l \in Seq(Frames) /\ k \in Seq(Frames)
  BY EchoesAlike DEF Alike, Echoes
<1>. DEFINE p == Tail(l)
            q == Tail(k)
<1>2. /\ p \in Seq(Frames) /\ Len(p) = Len(l) - 1 /\ Len(l) \in Nat \ {0}
      /\ \A i \in 1 .. Len(l) - 1 : p[i] = l[i + 1]
  BY <1>1, TailCount, LaterFrames
<1>3. q \in Seq(Frames) /\ Len(q) = Len(k) - 1 /\ \A i \in 1 .. Len(k) - 1 : q[i] = k[i + 1]
  BY <1>1, TailCount, LaterFrames
<1>. HIDE DEF p, q
<1>4. Len(q) = Len(p) /\ Len(k) = Len(l)
  BY <1>2, <1>3 DEF Echoes
<1>5. ASSUME NEW i \in 1 .. Len(p) PROVE Resembles(p[i], q[i])
  <2>1. i \in 1 .. Len(l) - 1 /\ i \in 1 .. Len(k) - 1 /\ i + 1 \in 1 .. Len(l)
    BY <1>2, <1>4
  <2>2. Resembles(l[i + 1], k[i + 1])
    BY <2>1 DEF Echoes
  <2>. QED  BY <1>2, <1>3, <2>1, <2>2
<1>. QED  BY <1>2, <1>3, <1>4, <1>5 DEF Echoes, p, q

LEMMA DamagedLine ==
    ASSUME NEW l \in Seq(Frames), l # <<>>, l[Len(l)].damage = "none"
    PROVE  Echoes(l, [l EXCEPT ![Len(l)].damage = "payload"])
<1>. DEFINE g == [l[Len(l)] EXCEPT !.damage = "payload"]
            k == [l EXCEPT ![Len(l)] = g]
<1>1. l[Len(l)] \in Frames /\ Len(l) \in DOMAIN l /\ DOMAIN l = 1 .. Len(l)
  OBVIOUS
<1>2. g \in Frames /\ Resembles(l[Len(l)], g)
  BY <1>1 DEF Frames, Resembles, Intact
<1>3. \A f : Resembles(f, f)
  BY DEF Resembles
<1>. HIDE DEF g
<1>4. ASSUME NEW i \in DOMAIN l, NEW f \in Frames
      PROVE  /\ [l EXCEPT ![i] = f] \in Seq(Frames) /\ Len([l EXCEPT ![i] = f]) = Len(l)
             /\ \A j \in DOMAIN l : [l EXCEPT ![i] = f][j] = IF j = i THEN f ELSE l[j]
  OBVIOUS
<1>5. /\ k \in Seq(Frames) /\ Len(k) = Len(l)
      /\ \A j \in DOMAIN l : k[j] = IF j = Len(l) THEN g ELSE l[j]
  BY <1>1, <1>2, <1>4
<1>. HIDE DEF k
<1>6. Echoes(l, k)
  BY <1>1, <1>2, <1>3, <1>5 DEF Echoes
<1>. QED  BY <1>6 DEF k, g

LEMMA SameLine == ASSUME NEW l \in Seq(Frames) PROVE Echoes(l, l)
BY DEF Echoes, Resembles

LEMMA DamageFitsNext ==
    ASSUME TypeOK, FitsNow, NEW n \in Node, Damage(n, "payload")
    PROVE  FitsNext(Handed)
<1>1. /\ rx[n] # <<>> /\ rx[n][Len(rx[n])].damage = "none"
      /\ rx' = [rx EXCEPT ![n][Len(rx[n])].damage = "payload"] /\ node' = node
  BY DEF Damage
<1>2. rx \in [Node -> Seq(Frames)]
  BY Typed
<1>3. rx'[n] = [rx[n] EXCEPT ![Len(rx[n])].damage = "payload"] /\ rx'[Peer(n)] = rx[Peer(n)]
  BY <1>1, <1>2, Peers
<1>4. Echoes(rx[n], rx'[n]) /\ Echoes(rx[Peer(n)], rx'[Peer(n)])
  BY <1>1, <1>2, <1>3, DamagedLine, SameLine, Peers
<1>5. Echoes(rx["master"], rx'["master"]) /\ Echoes(rx["slave"], rx'["slave"])
  BY <1>4 DEF Node, Peer
<1>6. ASSUME NEW l, NEW k, Echoes(l, k)
      PROVE  /\ Alike(l, k) /\ (l # <<>> => Alike(Tail(l), Tail(k)))
             /\ l # <<>> /\ Tail(l) # <<>> => Alike(Tail(Tail(l)), Tail(Tail(k)))
  BY <1>6, EchoesAlike, EchoesLater
<1>7. Fits(node["master"], node["slave"], rx'["master"], rx'["slave"], Handed)
  BY <1>5, <1>6, DamageFits DEF FitsNow
<1>. QED  BY <1>1, <1>7 DEF FitsNext

(***************************************************************************)
(* The invariant.  Faults are never forgotten, so a run that is lossy now  *)
(* was so before every step.                                               *)
(***************************************************************************)
LEMMA FaultsStay == ASSUME Next PROVE Lossy' => Lossy
<1>1. \A k : Faulted(k) => faults.kinds \subseteq faults'.kinds
  BY DEF Faulted
<1>2. \A written : Spent(written) => faults.kinds \subseteq faults'.kinds
  BY <1>1 DEF Spent
<1>3. ASSUME NEW n \in Node, NEW v, NEW left, NEW f, NEW type, React(n, v, left, f, type)
      PROVE  faults.kinds \subseteq faults'.kinds
  BY <1>2, <1>3 DEF React
<1>4. ASSUME NEW n \in Node, Receive(n) PROVE faults.kinds \subseteq faults'.kinds
  BY <1>3, <1>4
     DEF Receive, ReceiveUnreadable, ReceiveStale, ReceiveOutOfSequence, ReceiveNop, ReceiveWithoutReaction,
         ReceiveHeartbeat, ReceiveTransaction, PollOutOfTurn
<1>5. ASSUME NEW n \in Node, ProcessOne(n) \/ Await(n) PROVE faults.kinds \subseteq faults'.kinds
  BY <1>1, <1>5 DEF ProcessOne, Await, TransactionAnswered, TransactionFails, LinkAnswered, ResponseTimeout
<1>6. ASSUME \/ Hello \/ MasterOnHello \/ HeartbeatStep \/ SendTurnGrant
             \/ SlaveOnHello \/ SilenceStep \/ SendNopExchange
      PROVE  faults.kinds \subseteq faults'.kinds
  BY <1>2, <1>6
     DEF Hello, MasterOnHello, SlaveOnHello, HeartbeatStep, SendTurnGrant, SilenceStep, SendNopExchange
<1>7. ASSUME NEW n \in Node, TaskStep(n) PROVE faults.kinds \subseteq faults'.kinds
  BY <1>4, <1>5, <1>6, <1>7 DEF TaskStep
<1>8. ASSUME Tick \/ Environment PROVE faults.kinds \subseteq faults'.kinds
  BY <1>1, <1>8 DEF Tick, Environment, Stall, Lose, Reboot, Damage
<1>9. ASSUME NEW r \in Request, Check(r) \/ Enqueue(r) PROVE faults.kinds \subseteq faults'.kinds
  BY <1>9 DEF Check, Enqueue
<1>. QED  BY <1>7, <1>8, <1>9 DEF Next, Lossy

LEMMA InitInStep == Init => InStep
<1>. SUFFICES ASSUME Init PROVE FitsNow
  BY DEF InStep, FitsNow
<1>1. /\ node["master"] = NodeInit("master") /\ node["slave"] = NodeInit("slave")
      /\ rx["master"] = <<>> /\ rx["slave"] = <<>>
  BY Names DEF Init
<1>. QED
  BY <1>1, TurnSteps
     DEF NodeInit, NoWait, FitsNow, Fits, MasterPoised, SlavePoised, Poised, Asks, Kind, Placed, Starting, Retrying

LEMMA StepFits ==
    ASSUME IInv, FitsNow, Next, Lossy'
    PROVE  FitsNext(Handed')
<1>1. TypeOK /\ Handed \subseteq Handed'
  BY HandedGrows DEF IInv
<1>2. ASSUME FitsNext(Handed) PROVE FitsNext(Handed')
  BY <1>1, <1>2, GrowFitsNext
<1>3. ASSUME NEW k \in {"header", "late", "stall", "reboot"} PROVE ~ Faulted(k)
  BY <1>3 DEF Faulted, Lossy
<1>4. CASE TaskStep("master")
  BY <1>1, <1>2, <1>4, MasterReceiveFitsNext, MasterProcessFitsNext, MasterAwaitFitsNext, HelloFitsNext,
     MasterOnHelloFitsNext, MasterHeartbeatFitsNext, MasterGrantFitsNext
     DEF TaskStep
<1>5. CASE TaskStep("slave")
  BY <1>1, <1>2, <1>5, SlaveReceiveFitsNext, SlaveProcessFitsNext, SlaveAwaitFitsNext, SlaveOnHelloFitsNext,
     SlaveSilenceFitsNext, SlaveNopFitsNext
     DEF TaskStep
<1>6. CASE \E r \in Request : Check(r) \/ Enqueue(r)
  BY <1>1, <1>2, <1>6, UserFitsNext
<1>7. CASE Tick
  BY <1>1, <1>2, <1>7, TickFitsNext
<1>8. CASE Environment
  <2>1. ~ Stall /\ \A n \in Node : ~ Reboot(n) /\ ~ Damage(n, "header")
    BY <1>3 DEF Stall, Reboot, Damage
  <2>2. \E n \in Node : Lose(n) \/ Damage(n, "payload")
    BY <1>8, <2>1 DEF Environment
  <2>. QED  BY <1>1, <1>2, <2>2, LoseFitsNext, DamageFitsNext
<1>9. \A n \in Node : n = "master" \/ n = "slave"
  BY DEF Node
<1>. QED  BY <1>4, <1>5, <1>6, <1>7, <1>8, <1>9 DEF Next

LEMMA StepInStep == IInv /\ InStep /\ [Next]_vars => InStep'
<1>. SUFFICES ASSUME IInv, InStep, [Next]_vars, Lossy' PROVE FitsNext(Handed')
  BY DEF InStep, FitsNext
<1>1. CASE Next
  <2>1. FitsNow
    BY <1>1, FaultsStay DEF InStep, FitsNow
  <2>. QED  BY <1>1, <2>1, StepFits
<1>2. CASE UNCHANGED vars
  BY <1>2 DEF vars, InStep, Lossy, FitsNext, Handed
<1>. QED  BY <1>1, <1>2

LEMMA InitAcksTaken == Init => AcksTaken
BY DEF Init, AcksTaken

LEMMA StepAcksTaken == IInv /\ InStep /\ AcksTaken /\ [Next]_vars => AcksTaken'
<1>. SUFFICES ASSUME IInv, InStep, AcksTaken, [Next]_vars, Lossy',
                     NEW r \in Request, req'[r].at = "acked"
              PROVE  r \in Handed'
  BY DEF AcksTaken
<1>1. CASE UNCHANGED vars
  BY <1>1 DEF vars, AcksTaken, Lossy, Handed
<1>2. CASE Next
  <2>1. Lossy /\ FitsNow /\ Handed \subseteq Handed' /\ Moves /\ req \in [Request -> ReqType]
    BY <1>2, FaultsStay, HandedGrows, NextMoves, Typed DEF InStep, FitsNow, IInv
  <2>2. req[r].at = "acked" => r \in Handed'
    BY <2>1 DEF AcksTaken
  <2>3. PICK n \in Node : Drops(n) \/ Sends(n) \/ Takes(n) \/ Ends(n)
    BY <2>1 DEF Moves
  <2>4. CASE Drops(n)
    BY <2>2, <2>4 DEF Drops, Calm
  <2>5. CASE Sends(n)
    <3>1. PICK x \in Request : req' = [req EXCEPT ![x].at = "sent"]
      BY <2>5 DEF Sends
    <3>. QED  BY <2>1, <2>2, <3>1 DEF ReqType
  <2>6. CASE Takes(n)
    <3>1. req' = [req EXCEPT ![Head(rx[n]).req].delivered = @ + 1]
      BY <2>6 DEF Takes
    <3>. QED  BY <2>1, <2>2, <3>1 DEF ReqType
  <2>7. CASE Ends(n)
    <3>1. /\ node[n].wait.for \in Kind /\ rx[n] # <<>> /\ Head(rx[n]).type \in {"Ack", "Response"}
          /\ req' = Completed({node[n].wait.req}, "acked")
      BY <2>7 DEF Ends, Transaction, Kind, AckOf
    <3>2. node[n].wait.req \in Handed
      BY <2>1, <3>1, AckIsTrue DEF FitsNow, Node
    <3>3. r = node[n].wait.req \/ req'[r] = req[r]
      BY <3>1 DEF Completed
    <3>. QED  BY <2>1, <2>2, <3>2, <3>3
  <2>. QED  BY <2>3, <2>4, <2>5, <2>6, <2>7
<1>. QED  BY <1>1, <1>2

\* Two turns at once are a matter of the faults only: whatever was lost, however
\* often a payload was damaged or a UART failed, the two turn machines never let
\* both nodes start a frame (canWriteRequest of either TurnGuard).
THEOREM TurnsNeverMeet == Spec => [](Lossy => NoCollision)
<1>1. InStep => (Lossy => NoCollision)
  <2>. SUFFICES ASSUME FitsNow, Writes("master"), Writes("slave") PROVE FALSE
    BY Names DEF InStep, NoCollision, FitsNow
  <2>1. MasterFree(node["master"]) /\ node["slave"].turn = "WriteRequest"
    BY DEF Writes, Idle, ready, MasterFree
  <2>. QED
    BY <2>1 DEF FitsNow, Fits, Placed, AtTurn, MasterFree, Yields, Greets, Asks, Listens, OneReply, Reply
<1>. QED  BY <1>1, InitIInv, StepIInv, InitInStep, StepInStep, PTL DEF Spec

\* With the same faults an ack means what its sender reads in it: the peer's
\* handler took this very request, once (_processOneSend, _receiveData).
THEOREM AcksAreTrue == Spec => [](Lossy => AckedMeansDelivered)
<1>1. TypeOK /\ TakenOnce /\ AcksEarned /\ AcksTaken => (Lossy => AckedMeansDelivered)
  <2>. SUFFICES ASSUME TypeOK, TakenOnce, AcksTaken, Lossy, NEW r \in Request, req[r].at = "acked"
                PROVE  req[r].delivered = 1
    BY DEF AckedMeansDelivered
  <2>1. req[r].delivered > 0 /\ req[r].delivered <= 1 /\ req[r].delivered \in Nat
    BY Typed DEF AcksTaken, Handed, TakenOnce, ReqType
  <2>. QED  BY <2>1
<1>2. Spec => []AcksTaken
  BY InitIInv, StepIInv, InitInStep, StepInStep, InitAcksTaken, StepAcksTaken, PTL DEF Spec
<1>. QED  BY <1>1, <1>2, TypeCorrect, TakenAtMostOnce, NoAckMadeUp, PTL
=============================================================================
