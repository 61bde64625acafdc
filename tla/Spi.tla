-------------------------------- MODULE Spi --------------------------------
(***************************************************************************)
(* A point-to-point SPI link: the master's and the slave's transceivers,   *)
(* their tables of unacknowledged writes, and the bus.  A turn of the      *)
(* master's task clocks one slot in each direction at once; the slave only *)
(* takes part while its task has armed a transfer, and its task looks at   *)
(* what it received later.  A master's turn and a slave's step block or    *)
(* see nothing of each other in between, so each is one action.            *)
(*                                                                         *)
(* Slots carry a sequence number, frames of several kinds and the          *)
(* cumulative acknowledgement of the peer's data frames.  Nothing is sent  *)
(* twice, except a slot for which the slave had armed no transfer.         *)
(*                                                                         *)
(* Left out: exchanges (Request and Response frames) and the clock marker, *)
(* heartbeats (no configuration enables them), and pauses that only save   *)
(* processor time.  A write times out at any time after it was sent.       *)
(***************************************************************************)
EXTENDS Integers, Sequences, FiniteSets

CONSTANTS
    MasterWrite,   \* WriteRequests of the master's user: numbers, in the order of its calls
    SlaveWrite,    \* WriteRequests of the slave's user
    None,          \* nothing received
    QueueDepth,    \* txQueueDepth
    PendingDepth,  \* pendingWriteDepth
    SlotData,      \* data frames that fit maxOutboundSlotBytes
    SlotMod,       \* values of a slot sequence number (65536 in the code)
    FrameMod,      \* values of a frame sequence number (65536 in the code)
    Fault,         \* the kinds of fault that may happen
    MaxFaults      \* bound: faults of any kind

Node == {"master", "slave"}
Write == MasterWrite \cup SlaveWrite
FaultKind == {"toMaster", "toSlave", "window", "bus", "reboot"}

ASSUME SpiAssumption ==
    /\ IsFiniteSet(Write) /\ Write \subseteq Nat \ {0} /\ MasterWrite \cap SlaveWrite = {}
    /\ {QueueDepth, PendingDepth, SlotData} \subseteq Nat \ {0}
    /\ \A k \in {SlotMod, FrameMod} : k \in Nat /\ k > 2 /\ k % 2 = 0
    /\ Fault \subseteq FaultKind /\ MaxFaults \in Nat

VARIABLES
    node,      \* the fields of Master or Slave and of its transceiver
    transfer,  \* the slave's DMA transfer
    queue,     \* _txQueue, and _deferredWrite at its head
    req,       \* what became of a write: a history of its calls
    faults     \* how many faults there were, and of which kinds

vars == <<node, transfer, queue, req, faults>>

Owner(w) == IF w \in MasterWrite THEN "master" ELSE "slave"

(***************************************************************************)
(* Slots and frames.                                                       *)
(***************************************************************************)
SlotNo == 0 .. SlotMod - 1
FrameNo == 0 .. FrameMod - 1
NoAck == -1   \* SlotFlags::Ack is not set
NoWrite == 0

\* to: the frame that a nack rejects.  A HelloReply is a hello that answers one.
Frames == {f \in [type : {"Hello", "HelloReply", "Data", "Nack"}, seq : FrameNo, to : FrameNo,
                  write : Write \cup {NoWrite}] : f.type = "Data" <=> f.write \in Write}
Slots == [seq : SlotNo, hello : BOOLEAN, ack : FrameNo \cup {NoAck}, frames : Seq(Frames)]

BlankSlot(seq) == [seq |-> seq, hello |-> FALSE, ack |-> NoAck, frames |-> <<>>]
IsBlank(slot) == slot.frames = <<>> /\ ~ slot.hello /\ slot.ack = NoAck
DataOf(slot) == {slot.frames[i].write : i \in DOMAIN slot.frames} \ {NoWrite}

\* What an end reads: a slot of which the first "good" frames are intact, or
\* bytes with the preamble but no valid header, or bytes without a preamble.
Reading == [kind : {"slot", "invalid", "none"}, slot : Slots, good : Nat]
ASSUME NoneAssumption == None \notin Reading   \* "nothing received" is no reading

Read(kind, slot, good) == [kind |-> kind, slot |-> slot, good |-> good]
Intact(slot) == Read("slot", slot, Len(slot.frames))
Noisy(slot) == {Read(k, slot, 0) : k \in {"invalid", "none"}}
               \cup {Read("slot", slot, g) : g \in 0 .. Len(slot.frames) - 1}

(***************************************************************************)
(* The transceiver, as functions of a node's fields.                       *)
(***************************************************************************)
ready(v) == v.state = "Ready"
HasHeaderAck(v) == v.ackDue # v.ackSent
HasPendingTx(v) == v.tx.frames # <<>> \/ HasHeaderAck(v)

beginSlot(v) == [v EXCEPT !.tx = BlankSlot(v.slotSeq), !.slotSeq = (@ + 1) % SlotMod]

\* Only the master goes on numbering its slots.
reset(n, v) ==
    beginSlot([v EXCEPT !.state = "Initial", !.frameSeq = 1, !.expected = 1,
                        !.slotSeq = IF n = "master" THEN @ ELSE 1,
                        !.ackDue = 0, !.ackSent = 0])

Append1(v, type, to, w) ==
    [v EXCEPT !.tx.frames = Append(@, [type |-> type, seq |-> v.frameSeq, to |-> to, write |-> w]),
              !.tx.hello = @ \/ type \in {"Hello", "HelloReply"},
              !.frameSeq = (@ + 1) % FrameMod]

queueHello(v) ==
    Append1([v EXCEPT !.state = "HelloSent", !.tx = BlankSlot(v.tx.seq)], "Hello", 0, NoWrite)

finalizeTx(v) ==
    IF HasHeaderAck(v) THEN [v EXCEPT !.tx.ack = v.ackDue] ELSE v

markTxConsumed(v) ==
    beginSlot(IF v.tx.ack # NoAck THEN [v EXCEPT !.ackSent = v.tx.ack] ELSE v)

\* Only the slave answers by itself while it is not ready.
PreReadyHello(n, v) ==
    IF n = "slave" /\ ~ ready(v) /\ v.tx.frames = <<>> THEN queueHello(v) ELSE v

\* _sequenceBehind and _sequenceAtOrBefore.
NeverBehind(seq, expected) == FALSE   \* a mutant of Behind
Behind(seq, expected) == (expected - seq) % SlotMod \in 1 .. (SlotMod \div 2 - 1)
AtOrAfter(seq, ack) == (seq - ack) % FrameMod < FrameMod \div 2   \* a mutant of AtOrBefore
AtOrBefore(seq, ack) == (ack - seq) % FrameMod < FrameMod \div 2

\* A hello makes either state ready, and a ready node answers it too.
HelloUnanswered(v) == [v EXCEPT !.state = "Ready"]   \* a mutant of HelloAnswered
HelloAnswered(v) == Append1([v EXCEPT !.state = "Ready"], "HelloReply", 0, NoWrite)

\* _handleFrame; refused: the writes that the handler does not take.
Handled(n, refused, p, f) ==
    LET v == p.node IN
    CASE f.type = "Hello" -> [p EXCEPT !.node = HelloAnswered(v)]
      [] f.type = "HelloReply" -> [p EXCEPT !.node.state = "Ready"]
      [] f.type = "Nack" -> [p EXCEPT !.nacked = @ \cup {f.to}]
      [] f.type = "Data" /\ ~ ready(v) -> [p EXCEPT !.node = PreReadyHello(n, v)]
      [] f.type = "Data" /\ ready(v) /\ f.write \in refused ->
           [p EXCEPT !.node = Append1(v, "Nack", f.seq, NoWrite)]
      [] f.type = "Data" /\ ready(v) /\ f.write \notin refused ->
           [p EXCEPT !.node.ackDue = f.seq, !.delivered = @ \cup {f.write}]

\* parseRx of a slot: the node after it, the frames nacked, the header ack, the
\* writes delivered, whether a hello resynchronised the node, and the result.
Parsed(v, resynced) ==
    [node |-> v, nacked |-> {}, ack |-> NoAck, delivered |-> {}, resynced |-> resynced, ok |-> TRUE]

parseRx(n, v, r, refused) ==
    LET s == r.slot
        next == (s.seq + 1) % SlotMod
        resync == s.hello /\ s.seq # v.expected
        u == beginSlot([(IF resync THEN reset(n, v) ELSE v) EXCEPT !.expected = next])
        p[k \in 0 .. r.good] ==
            IF k = 0 THEN Parsed(u, resync) ELSE Handled(n, refused, p[k - 1], s.frames[k])
    IN  IF IsBlank(s)
        THEN Parsed(PreReadyHello(n, beginSlot(IF ready(v) THEN [v EXCEPT !.expected = next] ELSE v)), FALSE)
        ELSE IF ~ s.hello /\ Behind(s.seq, v.expected)
        THEN Parsed(PreReadyHello(n, beginSlot(v)), FALSE)
        ELSE IF r.good < Len(s.frames)
        THEN [p[r.good] EXCEPT !.ok = FALSE]
        ELSE [p[r.good] EXCEPT !.node = PreReadyHello(n, @), !.ack = s.ack]

(***************************************************************************)
(* Writes.                                                                 *)
(***************************************************************************)
Pending(n) == {e.write : e \in node[n].pending}
Queued(n) == {queue[n][i] : i \in DOMAIN queue[n]}

\* _processQueuedWrites: as many as the table and the slot have room for.
DataFrames(v) == Cardinality(DataOf(v.tx))
RoomInTable(v) == PendingDepth - Cardinality(v.pending)   \* a mutant of Room
Room(v) ==
    LET table == PendingDepth - Cardinality(v.pending)
        slot == SlotData - DataFrames(v)
    IN  IF table < slot THEN table ELSE slot
Moved(v, q) == IF Len(q) < Room(v) THEN Len(q) ELSE Room(v)

Sent(v, w) ==
    LET u == Append1(v, "Data", 0, w) IN
    [u EXCEPT !.pending = @ \cup {[seq |-> v.frameSeq, write |-> w]}]

Processed(v, q) ==
    LET after[k \in 0 .. Moved(v, q)] == IF k = 0 THEN v ELSE Sent(after[k - 1], q[k])
    IN  after[Moved(v, q)]
Taken(v, q) == {q[i] : i \in 1 .. Moved(v, q)}
Rest(v, q) == SubSeq(q, Moved(v, q) + 1, Len(q))

\* _completePendingWrite: a nack completes its own write, an ack every write up
\* to its frame.
NackedBy(v, p) == {e \in v.pending : e.seq \in p.nacked}
AckedBy(v, p) ==
    IF p.ack = NoAck THEN {} ELSE {e \in v.pending \ NackedBy(v, p) : AtOrBefore(e.seq, p.ack)}
WritesOf(es) == {e.write : e \in es}

\* The calls of completion callbacks and of the peer's handler.
History(acked, nacked, delivered, sent) ==
    [w \in Write |->
        [at |-> IF w \in acked THEN "acked" ELSE IF w \in nacked THEN "nacked"
                ELSE IF w \in sent THEN "sent" ELSE req[w].at,
         done |-> req[w].done + (IF w \in acked THEN 1 ELSE 0) + (IF w \in nacked THEN 1 ELSE 0),
         delivered |-> req[w].delivered + (IF w \in delivered THEN 1 ELSE 0)]]

(***************************************************************************)
(* Initial states.  The master's slot counter is the one that its reset    *)
(* does not set: it starts at 0.  The slave arms a transfer at once.       *)
(***************************************************************************)
Fresh ==
    [state |-> "Initial", slotSeq |-> 0, frameSeq |-> 1, expected |-> 1, ackDue |-> 0,
     ackSent |-> 0, tx |-> BlankSlot(0), pending |-> {}, listening |-> FALSE]

NodeInit(n) == IF n = "master" THEN queueHello(reset(n, Fresh)) ELSE reset(n, Fresh)

Armed == [got |-> None, sent |-> FALSE]

Init ==
    /\ node = [n \in Node |-> NodeInit(n)]
    /\ transfer = Armed
    /\ queue = [n \in Node |-> <<>>]
    /\ req = [w \in Write |-> [at |-> "new", done |-> 0, delivered |-> 0]]
    /\ faults = [count |-> 0, kinds |-> {}]

TypeOK ==
    /\ node \in [Node -> [state : {"Initial", "HelloSent", "Ready"}, slotSeq : SlotNo,
                          frameSeq : FrameNo, expected : SlotNo, ackDue : FrameNo,
                          ackSent : FrameNo, tx : Slots,
                          pending : SUBSET [seq : FrameNo, write : Write],
                          listening : BOOLEAN]]
    /\ transfer \in [got : Reading \cup {None}, sent : BOOLEAN]
    /\ queue \in [Node -> Seq(Write)]
    /\ req \in [Write -> [at : {"new", "checked", "queued", "sent", "acked", "nacked", "gone"},
                          done : Nat, delivered : Nat]]
    /\ \A n \in Node : /\ Cardinality(node[n].pending) <= PendingDepth
                       /\ Len(queue[n]) <= QueueDepth
                       /\ DataFrames(node[n]) <= SlotData
    /\ faults \in [count : Nat, kinds : SUBSET FaultKind]

MayFault(k) == k \in Fault /\ faults.count < MaxFaults
Faulted(ks) == faults' = [count |-> faults.count + Cardinality(ks), kinds |-> faults.kinds \cup ks]

(***************************************************************************)
(* The user of each end is one task, the PubSub runner.  send checks       *)
(* ready() and then enqueues: the link may be reset in between.  A full    *)
(* queue refuses the write.                                                *)
(***************************************************************************)
Check(w) ==
    /\ req[w].at = "new" /\ ready(node[Owner(w)])
    /\ \A u \in Write : Owner(u) = Owner(w) /\ u < w => req[u].at \notin {"new", "checked"}
    /\ req' = [req EXCEPT ![w].at = "checked"]
    /\ UNCHANGED <<node, transfer, queue, faults>>

Enqueue(w) ==
    LET n == Owner(w) IN
    /\ req[w].at = "checked"
    /\ IF Len(queue[n]) < QueueDepth
       THEN queue' = [queue EXCEPT ![n] = Append(@, w)] /\ req' = [req EXCEPT ![w].at = "queued"]
       ELSE req' = [req EXCEPT ![w].at = "gone"] /\ UNCHANGED queue
    /\ UNCHANGED <<node, transfer, faults>>

\* _expirePendingWrites.
Expire(n) ==
    /\ n = "slave" \/ ready(node[n])
    /\ \E e \in node[n].pending :
          /\ node' = [node EXCEPT ![n].pending = @ \ {e}]
          /\ req' = History({}, {e.write}, {}, {})
    /\ UNCHANGED <<transfer, queue, faults>>

(***************************************************************************)
(* The slave's task: what it received, the writes it can send, and the     *)
(* next transfer.                                                          *)
(***************************************************************************)

\* The slave's attention line, as its last step and send left it.
Asserted ==
    \/ ~ ready(node["slave"]) \/ HasPendingTx(node["slave"])
    \/ node["slave"].pending # {} \/ queue["slave"] # <<>>

\* A mutant of Settle: an acknowledged write stays in the table.
SettleAndKeep(v, p, failed, left) ==
    [acked |-> WritesOf(AckedBy(v, p)),
     nacked |-> WritesOf(NackedBy(v, p))
                \cup (IF failed THEN WritesOf(v.pending \ (NackedBy(v, p) \cup AckedBy(v, p)))
                                     \cup {left[i] : i \in DOMAIN left} ELSE {}),
     pending |-> IF failed THEN {} ELSE v.pending \ NackedBy(v, p),
     queue |-> IF failed THEN <<>> ELSE left]

\* What the answers complete.  failed: _resetLink, or a hello that resynchronised
\* the node, fails the writes that are still in the table and in the queue.
Settle(v, p, failed, left) ==
    LET acked == WritesOf(AckedBy(v, p))
        answered == NackedBy(v, p) \cup AckedBy(v, p)
        open == v.pending \ answered
    IN  [acked |-> acked,
         nacked |-> WritesOf(NackedBy(v, p))
                    \cup (IF failed THEN WritesOf(open) \cup {left[i] : i \in DOMAIN left} ELSE {}),
         pending |-> IF failed THEN {} ELSE open,
         queue |-> IF failed THEN <<>> ELSE left]

SlaveStep ==
    LET r == transfer.got
        before == node["slave"]
    IN  /\ r # None
        /\ \E v \in {IF transfer.sent THEN markTxConsumed(before) ELSE before},
              refused \in SUBSET (IF r.kind = "slot" THEN DataOf(r.slot) ELSE {}) :
           \E p \in {IF r.kind = "slot" THEN parseRx("slave", v, r, refused)
                     ELSE [Parsed(v, FALSE) EXCEPT !.ok = r.kind = "none"]} :
           \E done \in {Settle(v, p, ~ p.ok \/ p.resynced, queue["slave"])} :
              LET u == [(IF p.ok THEN p.node ELSE reset("slave", v)) EXCEPT !.pending = done.pending]
              IN  /\ node' = [node EXCEPT !["slave"] = finalizeTx(Processed(u, done.queue))]
                  /\ queue' = [queue EXCEPT !["slave"] = Rest(u, done.queue)]
                  /\ req' = History(done.acked, done.nacked, p.delivered, Taken(u, done.queue))
        /\ transfer' = Armed
        /\ UNCHANGED faults

(***************************************************************************)
(* A turn of the master's task.                                            *)
(***************************************************************************)
Due ==
    LET v == node["master"] IN
    \/ ~ ready(v)
    \/ v.listening /\ Asserted
    \/ HasPendingTx(v)
    \/ v.pending # {}
    \/ queue["master"] # <<>> /\ Cardinality(v.pending) < PendingDepth

\* The writes the turn takes up, while the link is ready.
Waiting == IF ready(node["master"]) THEN queue["master"] ELSE <<>>
Left == IF ready(node["master"]) THEN Rest(node["master"], Waiting) ELSE queue["master"]
Moving == Taken(node["master"], Waiting)

\* The node with the slot that the turn clocks.
Prepared == finalizeTx(Processed(node["master"], Waiting))

\* Every turn that ends without a ready link leaves a hello in the slot.
Greeting(v) == IF ready(v) THEN v ELSE queueHello(v)

\* The slave has armed no transfer, or noise hides the slot it sent: the slot is
\* kept for the next turn.
NoSlot ==
    /\ node' = [node EXCEPT !["master"] = Prepared]
    /\ queue' = [queue EXCEPT !["master"] = Left]
    /\ req' = History({}, {}, {}, Moving)

\* The slave's slot as the master reads it.
Slot(r) ==
    \E v \in {markTxConsumed(Prepared)},
       refused \in SUBSET (IF r.kind = "slot" THEN DataOf(r.slot) ELSE {}) :
    \E p \in {IF r.kind = "slot" THEN parseRx("master", v, r, refused)
              ELSE [Parsed(v, FALSE) EXCEPT !.ok = FALSE]} :
    \E done \in {Settle(v, p, p.ok /\ p.resynced, Left)} :
        LET u == [(IF p.ok THEN p.node ELSE beginSlot(p.node)) EXCEPT
                     !.pending = done.pending,
                     !.listening = ready(p.node) /\ (p.ok \/ (@ /\ ~ p.resynced))]
        IN  /\ node' = [node EXCEPT !["master"] = Greeting(u)]
            /\ queue' = [queue EXCEPT !["master"] = done.queue]
            /\ req' = History(done.acked, done.nacked, p.delivered, Moving)

Heard(k, slot) == {Intact(slot)} \cup (IF MayFault(k) THEN Noisy(slot) ELSE {})

\* A turn of a handshaking master, or of one that has no frames to send and looked
\* at the attention line too early, clocks 64 bytes: a slave's slot with data may be
\* longer.
Cut ==
    LET v == node["master"] IN
    /\ DataOf(node["slave"].tx) # {}
    /\ \/ ~ ready(v)
       \/ /\ MayFault("window") /\ Prepared.tx.frames = <<>>
          /\ HasPendingTx(v) \/ v.pending # {}

MasterTurn ==
    LET in == node["slave"].tx IN
    /\ Due
    /\ IF transfer.got # None
       THEN NoSlot /\ UNCHANGED <<transfer, faults>>
       ELSE \E out \in {Prepared.tx} :
            \E fits \in {TRUE} \cup (IF Cut THEN {FALSE} ELSE {}) :
            \E atSlave \in Heard("toSlave", out), atMaster \in Heard("toMaster", in) :
              LET ks == (IF atSlave = Intact(out) THEN {} ELSE {"toSlave"})
                        \cup (IF atMaster = Intact(in) THEN {} ELSE {"toMaster"})
                        \cup (IF fits \/ ~ ready(node["master"]) THEN {} ELSE {"window"})
              IN  /\ faults.count + Cardinality(ks) <= MaxFaults /\ Faulted(ks)
                  /\ transfer' = [got |-> atSlave, sent |-> fits]
                  /\ IF atMaster.kind = "none" THEN NoSlot
                     ELSE Slot(IF fits THEN atMaster ELSE Read("invalid", in, 0))

\* The driver fails the transfer, before it clocked anything.
TransferFails ==
    /\ Due /\ MayFault("bus") /\ Faulted({"bus"})
    /\ IF ~ ready(node["master"])
       THEN NoSlot
       ELSE \E v \in {Prepared} :
              /\ node' = [node EXCEPT !["master"] =
                            queueHello([reset("master", v) EXCEPT !.pending = {}, !.listening = FALSE])]
              /\ queue' = [queue EXCEPT !["master"] = <<>>]
              /\ req' = History({}, Settle(v, Parsed(v, FALSE), TRUE, Left).nacked, {}, {})
    /\ UNCHANGED transfer

\* A node restarts; its writes are gone with it.
Reboot(n) ==
    /\ MayFault("reboot") /\ Faulted({"reboot"})
    /\ node' = [node EXCEPT ![n] = NodeInit(n)]
    /\ queue' = [queue EXCEPT ![n] = <<>>]
    /\ transfer' = IF n = "slave" THEN Armed ELSE transfer
    /\ req' = [w \in Write |->
                 IF Owner(w) = n /\ req[w].at \in {"checked", "queued", "sent"}
                 THEN [req[w] EXCEPT !.at = "gone"] ELSE req[w]]

(***************************************************************************)
(* The specification.                                                      *)
(***************************************************************************)
Next ==
    \/ \E w \in Write : Check(w) \/ Enqueue(w)
    \/ \E n \in Node : Expire(n) \/ Reboot(n)
    \/ MasterTurn \/ SlaveStep \/ TransferFails

Spec == Init /\ [][Next]_vars
FairSpec == Spec /\ WF_vars(MasterTurn) /\ WF_vars(SlaveStep)

(***************************************************************************)
(* The properties.                                                         *)
(***************************************************************************)

\* The owner of a write that was accepted hears of it once: an answer, a timeout,
\* a link reset, a resynchronising hello and a full queue never both complete it
\* (the PubSub transport gives up its in-flight slot at the first call).
CompletedOnce ==
    \A w \in Write : req[w].done = IF req[w].at \in {"acked", "nacked"} THEN 1 ELSE 0

\* No write reaches the peer's handler twice, although a slot is clocked again
\* after a turn in which no slot of the slave was seen.  Two faults together break
\* it: noise hides the slave's slot, so that the master repeats its own, and noise
\* the other way, or a restart of the slave, makes the slave forget what it expects.
DeliveredOnce ==
    \A w \in Write : req[w].delivered > 1 =>
        /\ w \in MasterWrite /\ "toMaster" \in faults.kinds
        /\ faults.kinds \cap {"toSlave", "reboot"} # {}

\* Nothing is acknowledged to a node of which the peer's handler took no write.
AcksEarned ==
    \A n \in Node : (\E w \in Write : Owner(w) = n /\ req[w].at = "acked")
                       => \E w \in Write : Owner(w) = n /\ req[w].delivered > 0

\* A fault lost the write, and the cumulative acknowledgement of a later write of
\* the same node completed it too.
Lost(w) ==
    /\ faults.kinds # {}
    /\ \E u \in Write : Owner(u) = Owner(w) /\ u > w /\ req[u].delivered > 0

\* A hello of the slave resynchronised the master after it had sent an earlier
\* write, which it gave up; the slave takes that write all the same, and its
\* acknowledgement completes this one, whose frame has the same number again.
Stale(w) ==
    /\ w \in MasterWrite
    /\ \E u \in MasterWrite : u < w /\ req[u].at = "nacked" /\ req[u].delivered > 0

\* A write is acknowledged after the peer's handler took it, but for these two.
AckedMeansDelivered ==
    /\ AcksEarned
    /\ \A w \in Write : req[w].at = "acked" /\ req[w].delivered = 0 => Lost(w) \/ Stale(w)

\* After a fault the hello handshake makes both ends ready again, from whatever
\* slots, acknowledgements and half-completed handshakes the fault left behind.
Up == ready(node["master"]) /\ ready(node["slave"])
Recovers == []<>Up
=============================================================================
