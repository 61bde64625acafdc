------------------------------ MODULE SpiProofs ------------------------------
(***************************************************************************)
(* The SPI link for any writes, queue sizes, tables, slots, sequence       *)
(* numbers and faults: types, that every write is completed once, that the *)
(* peer's handler takes it once, and that acknowledgements are earned.     *)
(*                                                                         *)
(* CompletedOnce is not inductive: nothing in it says that a write in the  *)
(* queue, or one in the table of unacknowledged writes, has not been       *)
(* completed before.  Kept says where an open write is: in the queue of    *)
(* its owner, once and marked "queued", or in one entry of its owner's     *)
(* table, marked "sent".  A turn of the master or a step of the slave may  *)
(* do everything at once: complete some entries by a nack and others by    *)
(* the acknowledgement, fail what is left and move the queue into the      *)
(* table.  The proof follows these parts one after the other: Settling     *)
(* and Processing say what each of them does to the open writes of the     *)
(* node, and Updating concludes the step.                                  *)
(*                                                                         *)
(* The second invariant, Delivering, rests on the first one and follows a  *)
(* write through the slots: the one a node fills, the one the slave has to *)
(* read, the one the master keeps for another turn.  What the numbers of   *)
(* the slots are good for depends on the faults: while the slave read      *)
(* every slot whole and never restarted, it knows a slot that it took      *)
(* (Recognised), because the handshake never starts again at its end       *)
(* (Shaken); and while the master heard every slot of the slave, it kept   *)
(* no slot that the slave read (Heeded).                                   *)
(***************************************************************************)
EXTENDS Spi, SequenceTheorems, FiniteSetTheorems, WellFoundedInduction, TLAPS

(***************************************************************************)
(* The inductive invariant.                                                *)
(***************************************************************************)
Entry == [seq : FrameNo, write : Write]

Fields == [state : {"Initial", "HelloSent", "Ready"}, slotSeq : SlotNo,
           frameSeq : FrameNo, expected : SlotNo, ackDue : FrameNo,
           ackSent : FrameNo, tx : Slots, pending : SUBSET Entry,
           listening : BOOLEAN]

ReqType == [at : {"new", "checked", "queued", "sent", "acked", "nacked", "gone"},
            done : Nat, delivered : Nat]

Typed ==
    /\ node \in [Node -> Fields]
    /\ transfer \in [got : Reading \cup {None}, sent : BOOLEAN]
    /\ queue \in [Node -> Seq(Write)]
    /\ req \in [Write -> ReqType]
    /\ faults \in [count : Nat, kinds : SUBSET FaultKind]

\* The tables, the queues and the slots hold no more than they have room for.
Fits ==
    \A n \in Node : /\ Cardinality(node[n].pending) <= PendingDepth
                    /\ Len(queue[n]) <= QueueDepth
                    /\ DataFrames(node[n]) <= SlotData

\* A read slot has no more intact frames than frames.
ReadInv ==
    transfer.got # None /\ transfer.got.kind = "slot" =>
        transfer.got.good <= Len(transfer.got.slot.frames)

InQueue(q) == {q[i] : i \in DOMAIN q}

\* A table es and a queue q of node n: its own writes, each in one place.
Tidy(n, es, q) ==
    /\ IsFiniteSet(es) /\ es \subseteq Entry
    /\ q \in Seq(Write)
    /\ \A e, g \in es : e.write = g.write => e = g
    /\ \A i, j \in DOMAIN q : q[i] = q[j] => i = j
    /\ \A w \in WritesOf(es) \cup InQueue(q) : Owner(w) = n
    /\ WritesOf(es) \cap InQueue(q) = {}

Marked(n) ==
    /\ \A w \in WritesOf(node[n].pending) : req[w].at = "sent"
    /\ \A w \in InQueue(queue[n]) : req[w].at = "queued"

Kept == \A n \in Node : Tidy(n, node[n].pending, queue[n]) /\ Marked(n)

IInv == Typed /\ Fits /\ ReadInv /\ Kept /\ CompletedOnce

LEMMA TypeOKIs == TypeOK <=> Typed /\ Fits
BY DEF TypeOK, Typed, Fits, Fields, Entry, ReqType

(***************************************************************************)
(* Types: the operators on a node's fields.                                *)
(***************************************************************************)
LEMMA Numbers ==
    /\ 0 \in SlotNo /\ 1 \in SlotNo /\ \A s \in SlotNo : (s + 1) % SlotMod \in SlotNo
    /\ 0 \in FrameNo /\ 1 \in FrameNo /\ \A s \in FrameNo : (s + 1) % FrameMod \in FrameNo
BY SpiAssumption DEF SlotNo, FrameNo

LEMMA WritesAre == Write \subseteq Nat \ {NoWrite} /\ IsFiniteSet(Write)
BY SpiAssumption DEF NoWrite

LEMMA BlankType ==
    ASSUME NEW s \in SlotNo
    PROVE  BlankSlot(s) \in Slots /\ DataOf(BlankSlot(s)) = {} /\ BlankSlot(s).frames = <<>>
BY DEF BlankSlot, Slots, DataOf

LEMMA FieldsOf ==
    ASSUME NEW v \in Fields
    PROVE  /\ v.state \in {"Initial", "HelloSent", "Ready"} /\ v.slotSeq \in SlotNo
           /\ v.frameSeq \in FrameNo /\ v.expected \in SlotNo /\ v.ackDue \in FrameNo
           /\ v.ackSent \in FrameNo /\ v.tx \in Slots /\ v.pending \in SUBSET Entry
           /\ v.listening \in BOOLEAN
BY DEF Fields

\* u has the table of v, and the data frames ds to send.
Like(u, v, ds) == u \in Fields /\ u.pending = v.pending /\ DataOf(u.tx) = ds

LEMMA BeginType ==
    ASSUME NEW v \in Fields
    PROVE  /\ Like(beginSlot(v), v, {})
           /\ beginSlot(v).state = v.state /\ beginSlot(v).listening = v.listening
           /\ beginSlot(v).tx.frames = <<>>
<1>1. BlankSlot(v.slotSeq) \in Slots /\ (v.slotSeq + 1) % SlotMod \in SlotNo
      /\ DataOf(BlankSlot(v.slotSeq)) = {} /\ BlankSlot(v.slotSeq).frames = <<>>
  BY Numbers, BlankType, FieldsOf
<1>. QED
  BY <1>1 DEF beginSlot, Like, Fields

LEMMA ResetType ==
    ASSUME NEW v \in Fields, NEW n \in Node
    PROVE  Like(reset(n, v), v, {}) /\ reset(n, v).state = "Initial"
<1> DEFINE u == [v EXCEPT !.state = "Initial", !.frameSeq = 1, !.expected = 1,
                          !.slotSeq = IF n = "master" THEN @ ELSE 1,
                          !.ackDue = 0, !.ackSent = 0]
<1>1. u \in Fields /\ u.pending = v.pending /\ u.state = "Initial"
  BY Numbers DEF Fields
<1>2. reset(n, v) = beginSlot(u)
  BY DEF reset
<1> HIDE DEF u
<1>. QED
  BY <1>1, <1>2, BeginType DEF Like

LEMMA AppendType ==
    ASSUME NEW v \in Fields, NEW type \in {"Hello", "HelloReply", "Data", "Nack"},
           NEW to \in FrameNo, NEW w \in Write \cup {NoWrite}, type = "Data" <=> w \in Write
    PROVE  /\ Like(Append1(v, type, to, w), v, DataOf(v.tx) \cup ({w} \ {NoWrite}))
           /\ Append1(v, type, to, w).state = v.state
           /\ Append1(v, type, to, w).listening = v.listening
<1> DEFINE f == [type |-> type, seq |-> v.frameSeq, to |-> to, write |-> w]
           t == [v.tx EXCEPT !.frames = Append(@, f),
                             !.hello = @ \/ type \in {"Hello", "HelloReply"}]
           next == (v.frameSeq + 1) % FrameMod
<1>1. v.tx \in Slots /\ f \in Frames /\ next \in FrameNo
  BY Numbers, FieldsOf DEF Frames
<1>2. v.tx.frames \in Seq(Frames) /\ v.tx.hello \in BOOLEAN
  BY <1>1 DEF Slots
<1>3. Append(v.tx.frames, f) \in Seq(Frames)
  BY <1>1, <1>2
<1>4. t \in Slots /\ t.frames = Append(v.tx.frames, f)
  BY <1>1, <1>2, <1>3 DEF Slots
<1>5. DataOf(t) = DataOf(v.tx) \cup ({w} \ {NoWrite})
  <2>1. DOMAIN t.frames = DOMAIN v.tx.frames \cup {Len(v.tx.frames) + 1}
    BY <1>1, <1>2, <1>4
  <2>2. \A i \in DOMAIN v.tx.frames : t.frames[i] = v.tx.frames[i]
    BY <1>1, <1>2, <1>4
  <2>3. t.frames[Len(v.tx.frames) + 1] = f
    BY <1>1, <1>2, <1>4
  <2>4. f.write = w
    OBVIOUS
  <2> HIDE DEF t, f
  <2>5. {t.frames[i].write : i \in DOMAIN t.frames}
          = {v.tx.frames[i].write : i \in DOMAIN v.tx.frames} \cup {w}
    BY <2>1, <2>2, <2>3, <2>4
  <2>. QED
    BY <2>5 DEF DataOf
<1>6. Append1(v, type, to, w) = [v EXCEPT !.tx = t, !.frameSeq = next]
  BY DEF Append1, Fields, Slots
<1> HIDE DEF t, next
<1>. QED
  BY <1>1, <1>4, <1>5, <1>6 DEF Like, Fields

\* A frame without a write leaves the data frames to send as they are.
LEMMA AppendBare ==
    ASSUME NEW v \in Fields, NEW type \in {"Hello", "HelloReply", "Nack"},
           NEW to \in FrameNo
    PROVE  Like(Append1(v, type, to, NoWrite), v, DataOf(v.tx))
<1>1. /\ NoWrite \in Write \cup {NoWrite} /\ (type = "Data" <=> NoWrite \in Write)
      /\ type \in {"Hello", "HelloReply", "Data", "Nack"}
  BY WritesAre
<1>2. Like(Append1(v, type, to, NoWrite), v, DataOf(v.tx) \cup ({NoWrite} \ {NoWrite}))
  BY <1>1, AppendType
<1>. QED
  BY <1>2 DEF Like

LEMMA QueueHelloType ==
    ASSUME NEW v \in Fields
    PROVE  Like(queueHello(v), v, {})
<1> DEFINE u == [v EXCEPT !.state = "HelloSent", !.tx = BlankSlot(v.tx.seq)]
<1>1. v.tx.seq \in SlotNo
  BY FieldsOf DEF Slots
<1>2. u \in Fields /\ u.pending = v.pending /\ DataOf(u.tx) = {}
  BY <1>1, BlankType DEF Fields
<1>3. queueHello(v) = Append1(u, "Hello", 0, NoWrite)
  BY DEF queueHello
<1> HIDE DEF u
<1>4. Like(Append1(u, "Hello", 0, NoWrite), u, DataOf(u.tx))
  BY <1>2, AppendBare, Numbers
<1>. QED
  BY <1>2, <1>3, <1>4 DEF Like

LEMMA FinalizeType ==
    ASSUME NEW v \in Fields
    PROVE  Like(finalizeTx(v), v, DataOf(v.tx)) /\ finalizeTx(v).state = v.state
<1>1. v.tx \in Slots /\ v.ackDue \in FrameNo
  BY FieldsOf
<1> DEFINE t == [v.tx EXCEPT !.ack = v.ackDue]
<1>2. t \in Slots /\ DataOf(t) = DataOf(v.tx)
  BY <1>1 DEF Slots, DataOf
<1>3. [v EXCEPT !.tx.ack = v.ackDue] = [v EXCEPT !.tx = t]
  BY DEF Fields
<1> HIDE DEF t
<1>. QED
  BY <1>2, <1>3 DEF finalizeTx, Like, Fields

LEMMA ConsumedType ==
    ASSUME NEW v \in Fields
    PROVE  Like(markTxConsumed(v), v, {}) /\ markTxConsumed(v).state = v.state
<1> DEFINE u == IF v.tx.ack # NoAck THEN [v EXCEPT !.ackSent = v.tx.ack] ELSE v
<1>1. v.tx.ack \in FrameNo \cup {NoAck}
  BY FieldsOf DEF Slots
<1>2. u \in Fields /\ u.pending = v.pending /\ u.state = v.state
  BY <1>1 DEF Fields
<1>3. markTxConsumed(v) = beginSlot(u)
  BY DEF markTxConsumed
<1> HIDE DEF u
<1>. QED
  BY <1>2, <1>3, BeginType DEF Like

LEMMA PreReadyType ==
    ASSUME NEW v \in Fields, NEW n \in Node
    PROVE  Like(PreReadyHello(n, v), v, DataOf(v.tx))
<1>1. v.tx.frames = <<>> => DataOf(v.tx) = {}
  BY DEF DataOf
<1>. QED
  BY <1>1, QueueHelloType DEF PreReadyHello, Like

LEMMA AnsweredType ==
    ASSUME NEW v \in Fields
    PROVE  Like(HelloAnswered(v), v, DataOf(v.tx))
<1> DEFINE u == [v EXCEPT !.state = "Ready"]
<1>1. u \in Fields /\ u.pending = v.pending /\ u.tx = v.tx
  BY DEF Fields
<1>2. HelloAnswered(v) = Append1(u, "HelloReply", 0, NoWrite)
  BY DEF HelloAnswered
<1> HIDE DEF u
<1>3. Like(Append1(u, "HelloReply", 0, NoWrite), u, DataOf(u.tx))
  BY <1>1, AppendBare, Numbers
<1>. QED
  BY <1>1, <1>2, <1>3 DEF Like

(***************************************************************************)
(* Induction over the natural numbers, for a set of them.                  *)
(***************************************************************************)
LEMMA SetInduction ==
    ASSUME NEW S, 0 \in S, \A n \in Nat : n \in S => n + 1 \in S
    PROVE  Nat \subseteq S
<1> SUFFICES ASSUME Nat \ S # {} PROVE FALSE
  OBVIOUS
<1> DEFINE R == OpToRel(<, Nat)
<1>1. \A x, y \in Nat : x < y => <<x, y>> \in R
  BY DEF OpToRel
<1>2. IsWellFoundedOn(R, Nat)
  BY NatLessThanWellFounded
<1> HIDE DEF R
<1>3. PICK x \in Nat \ S : \A y \in Nat \ S : ~ (<<y, x>> \in R)
  BY <1>2, WFMin
<1>4. x # 0 /\ x - 1 \in Nat /\ x - 1 < x
  BY <1>3
<1>5. x - 1 \in S
  BY <1>1, <1>3, <1>4
<1>6. (x - 1) + 1 \in S
  BY <1>4, <1>5
<1>. QED
  BY <1>3, <1>6

(***************************************************************************)
(* Types: a received slot, frame by frame.                                 *)
(***************************************************************************)
ParsedType == [node : Fields, nacked : SUBSET FrameNo, ack : FrameNo \cup {NoAck},
               delivered : SUBSET (Write \cup {NoWrite}), resynced : BOOLEAN, ok : BOOLEAN]

\* p came of a slot that a node v received: the table is that of v.
Of(p, v) == p \in ParsedType /\ Like(p.node, v, {})

LEMMA ParsedIs ==
    ASSUME NEW v \in Fields, NEW u, Like(u, v, {}), NEW b \in BOOLEAN
    PROVE  Of(Parsed(u, b), v)
BY DEF Of, Parsed, ParsedType, Like

\* A new node in a parse.
LEMMA NodeOf ==
    ASSUME NEW v \in Fields, NEW p, Of(p, v), NEW u, Like(u, p.node, DataOf(p.node.tx))
    PROVE  Of([p EXCEPT !.node = u], v)
BY DEF Of, ParsedType, Like

LEMMA HandledOf ==
    ASSUME NEW v \in Fields, NEW n \in Node, NEW refused, NEW p, Of(p, v), NEW f \in Frames
    PROVE  Of(Handled(n, refused, p, f), v)
<1>1. /\ f.type \in {"Hello", "HelloReply", "Data", "Nack"} /\ f.seq \in FrameNo
      /\ f.to \in FrameNo /\ f.write \in Write \cup {NoWrite}
  BY DEF Frames
<1>2. p.node \in Fields /\ p \in ParsedType
  BY DEF Of, Like
<1>3. CASE f.type = "Hello"
  <2>1. Of([p EXCEPT !.node = HelloAnswered(p.node)], v)
    BY <1>2, AnsweredType, NodeOf
  <2>. QED
    BY <1>3, <2>1 DEF Handled
<1>4. CASE f.type = "HelloReply"
  <2>1. Like([p.node EXCEPT !.state = "Ready"], p.node, DataOf(p.node.tx))
    BY <1>2 DEF Like, Fields
  <2>2. Of([p EXCEPT !.node = [p.node EXCEPT !.state = "Ready"]], v)
    BY <1>2, <2>1, NodeOf
  <2>. QED
    BY <1>4, <2>2 DEF Handled
<1>5. CASE f.type = "Nack"
  <2>1. Of([p EXCEPT !.nacked = @ \cup {f.to}], v)
    BY <1>1, <1>2 DEF Of, ParsedType
  <2>. QED
    BY <1>5, <2>1 DEF Handled
<1>6. CASE f.type = "Data" /\ ~ ready(p.node)
  <2>1. Of([p EXCEPT !.node = PreReadyHello(n, p.node)], v)
    BY <1>2, PreReadyType, NodeOf
  <2>. QED
    BY <1>6, <2>1 DEF Handled
<1>7. CASE f.type = "Data" /\ ready(p.node) /\ f.write \in refused
  <2>1. Of([p EXCEPT !.node = Append1(p.node, "Nack", f.seq, NoWrite)], v)
    BY <1>1, <1>2, AppendBare, NodeOf
  <2>. QED
    BY <1>7, <2>1 DEF Handled
<1>8. CASE f.type = "Data" /\ ready(p.node) /\ f.write \notin refused
  <2>1. Like([p.node EXCEPT !.ackDue = f.seq], p.node, DataOf(p.node.tx))
    BY <1>1, <1>2 DEF Like, Fields
  <2>2. Of([p EXCEPT !.node = [p.node EXCEPT !.ackDue = f.seq]], v)
    BY <1>2, <2>1, NodeOf
  <2>3. Of([[p EXCEPT !.node = [p.node EXCEPT !.ackDue = f.seq]] EXCEPT
               !.delivered = @ \cup {f.write}], v)
    BY <1>1, <2>2 DEF Of, ParsedType
  <2>4. [[p EXCEPT !.node = [p.node EXCEPT !.ackDue = f.seq]] EXCEPT
               !.delivered = @ \cup {f.write}]
          = [p EXCEPT !.node.ackDue = f.seq, !.delivered = @ \cup {f.write}]
    BY <1>2 DEF ParsedType
  <2>. QED
    BY <1>8, <2>3, <2>4 DEF Handled
<1>. QED
  BY <1>1, <1>3, <1>4, <1>5, <1>6, <1>7, <1>8

\* f is the parse of the first m frames, prefix by prefix.
ParseOf(f, n, refused, u, b, frames, m) ==
    f = [k \in 0 .. m |->
            IF k = 0 THEN Parsed(u, b) ELSE Handled(n, refused, f[k - 1], frames[k])]

LEMMA ParseExists ==
    ASSUME NEW n, NEW refused, NEW u, NEW b, NEW frames
    PROVE  \A m \in Nat : \E f : ParseOf(f, n, refused, u, b, frames, m)
<1> DEFINE S == {m \in Nat : \E f : ParseOf(f, n, refused, u, b, frames, m)}
<1>1. 0 \in S
  <2> DEFINE f == [k \in 0 .. 0 |-> Parsed(u, b)]
  <2>1. ParseOf(f, n, refused, u, b, frames, 0)
    BY DEF ParseOf
  <2>. QED
    BY <2>1
<1>2. ASSUME NEW m \in Nat, m \in S
      PROVE  m + 1 \in S
  <2>1. PICK f : ParseOf(f, n, refused, u, b, frames, m)
    BY <1>2
  <2> DEFINE next(k) == IF k = m + 1 THEN Handled(n, refused, f[m], frames[m + 1]) ELSE f[k]
             g == [k \in 0 .. m + 1 |-> next(k)]
  <2>2. \A k \in 0 .. m :
          f[k] = IF k = 0 THEN Parsed(u, b) ELSE Handled(n, refused, f[k - 1], frames[k])
    BY <2>1 DEF ParseOf
  <2>3. \A k \in 0 .. m + 1 :
          next(k) = IF k = 0 THEN Parsed(u, b) ELSE Handled(n, refused, g[k - 1], frames[k])
    <3> SUFFICES ASSUME NEW k \in 0 .. m + 1
                 PROVE  next(k) = IF k = 0 THEN Parsed(u, b)
                                  ELSE Handled(n, refused, g[k - 1], frames[k])
      OBVIOUS
    <3>1. CASE k = m + 1
      <4>1. g[k - 1] = f[m] /\ k # 0
        BY <3>1
      <4>. QED
        BY <3>1, <4>1
    <3>2. CASE k # m + 1 /\ k # 0
      <4>1. g[k - 1] = f[k - 1] /\ k \in 0 .. m
        BY <3>2
      <4>. QED
        BY <2>2, <3>2, <4>1
    <3>3. CASE k = 0
      BY <2>2, <3>3
    <3>. QED
      BY <3>1, <3>2, <3>3
  <2>4. ParseOf(g, n, refused, u, b, frames, m + 1)
    BY <2>3, Zenon DEF ParseOf
  <2>. QED
    BY <2>4
<1>. QED
  BY <1>1, <1>2, SetInduction

LEMMA ParseLast ==
    ASSUME NEW v \in Fields, NEW n \in Node, NEW refused, NEW u, Like(u, v, {}),
           NEW b \in BOOLEAN, NEW frames \in Seq(Frames), NEW m \in Nat, m <= Len(frames),
           NEW f, ParseOf(f, n, refused, u, b, frames, m)
    PROVE  Of(f[m], v)
<1> DEFINE S == {k \in Nat : k <= m => Of(f[k], v)}
<1>1. \A k \in 0 .. m :
        f[k] = IF k = 0 THEN Parsed(u, b) ELSE Handled(n, refused, f[k - 1], frames[k])
  BY DEF ParseOf
<1>2. 0 \in S
  BY <1>1, ParsedIs
<1>3. ASSUME NEW k \in Nat, k \in S
      PROVE  k + 1 \in S
  <2> SUFFICES ASSUME k + 1 <= m PROVE Of(f[k + 1], v)
    OBVIOUS
  <2>1. Of(f[k], v) /\ k + 1 \in 0 .. m /\ k + 1 # 0 /\ (k + 1) - 1 = k
        /\ frames[k + 1] \in Frames
    BY <1>3
  <2>2. Of(Handled(n, refused, f[k], frames[k + 1]), v)
    BY <2>1, HandledOf
  <2>. QED
    BY <1>1, <2>1, <2>2
<1> HIDE DEF S
<1>4. m \in S
  BY <1>2, <1>3, SetInduction
<1>. QED
  BY <1>4 DEF S

LEMMA ParseRxOf ==
    ASSUME NEW v \in Fields, NEW n \in Node, NEW r \in Reading, NEW refused,
           r.good <= Len(r.slot.frames)
    PROVE  Of(parseRx(n, v, r, refused), v)
<1> DEFINE s == r.slot
           next == (s.seq + 1) % SlotMod
           resync == s.hello /\ s.seq # v.expected
           w == [(IF resync THEN reset(n, v) ELSE v) EXCEPT !.expected = next]
           u == beginSlot(w)
           f == CHOOSE g : ParseOf(g, n, refused, u, resync, s.frames, r.good)
           last == f[r.good]
           quiet == beginSlot(IF ready(v) THEN [v EXCEPT !.expected = next] ELSE v)
<1>1. s \in Slots /\ r.good \in Nat
  BY DEF Reading
<1>2. /\ s.frames \in Seq(Frames) /\ next \in SlotNo /\ resync \in BOOLEAN
      /\ s.ack \in FrameNo \cup {NoAck}
  BY <1>1, Numbers DEF Slots
<1>3. w \in Fields /\ w.pending = v.pending
  BY <1>2, ResetType DEF Like, Fields
<1>4. Like(u, v, {})
  BY <1>3, BeginType DEF Like
<1>5. ParseOf(f, n, refused, u, resync, s.frames, r.good)
  BY <1>1, ParseExists
<1>6. Of(last, v)
  <2> HIDE DEF f, u, resync
  <2>. QED
    BY <1>1, <1>2, <1>4, <1>5, ParseLast
<1>7. last \in ParsedType /\ last.node \in Fields /\ last.node.pending = v.pending
      /\ DataOf(last.node.tx) = {}
  BY <1>6 DEF Of, Like
<1>8. Like(quiet, v, {})
  <2> DEFINE x == IF ready(v) THEN [v EXCEPT !.expected = next] ELSE v
  <2>1. x \in Fields /\ x.pending = v.pending
    BY <1>2 DEF Fields
  <2> HIDE DEF x
  <2>2. Like(beginSlot(x), v, {})
    BY <2>1, BeginType DEF Like
  <2>. QED
    BY <2>2 DEF x
<1>9. Of(Parsed(PreReadyHello(n, quiet), FALSE), v)
  <2> HIDE DEF quiet
  <2>1. Like(PreReadyHello(n, quiet), v, {})
    BY <1>8, PreReadyType DEF Like
  <2>. QED
    BY <2>1, ParsedIs
<1>10. Of(Parsed(PreReadyHello(n, beginSlot(v)), FALSE), v)
  <2>1. Like(PreReadyHello(n, beginSlot(v)), v, {})
    BY BeginType, PreReadyType DEF Like
  <2>. QED
    BY <2>1, ParsedIs
<1>11. Of([last EXCEPT !.ok = FALSE], v)
  <2> HIDE DEF last
  <2>. QED
    BY <1>7 DEF Of, ParsedType, Like
<1>12. Of([last EXCEPT !.node = PreReadyHello(n, @), !.ack = s.ack], v)
  <2> HIDE DEF last
  <2>1. Like(PreReadyHello(n, last.node), v, {})
    BY <1>7, PreReadyType DEF Like
  <2>. QED
    BY <1>2, <1>7, <2>1 DEF Of, ParsedType, Like
<1>13. parseRx(n, v, r, refused)
         = IF IsBlank(s)
           THEN Parsed(PreReadyHello(n, quiet), FALSE)
           ELSE IF ~ s.hello /\ Behind(s.seq, v.expected)
           THEN Parsed(PreReadyHello(n, beginSlot(v)), FALSE)
           ELSE IF r.good < Len(s.frames)
           THEN [last EXCEPT !.ok = FALSE]
           ELSE [last EXCEPT !.node = PreReadyHello(n, @), !.ack = s.ack]
  BY Zenon DEF parseRx, ParseOf
<1> HIDE DEF last, quiet
<1>. QED
  BY <1>9, <1>10, <1>11, <1>12, <1>13

(***************************************************************************)
(* Moving the queue into the table, write by write.                        *)
(***************************************************************************)
LEMMA OneElement ==
    ASSUME NEW S, IsFiniteSet(S), NEW x
    PROVE  /\ IsFiniteSet(S \cup {x}) /\ Cardinality(S) \in Nat
           /\ Cardinality(S \cup {x}) \in Nat
           /\ Cardinality(S \cup {x}) <= Cardinality(S) + 1
<1>1. Cardinality(S) \in Nat
  BY FS_CardinalityType
<1>2. /\ IsFiniteSet(S \cup {x})
      /\ Cardinality(S \cup {x}) = IF x \in S THEN Cardinality(S) ELSE Cardinality(S) + 1
  BY FS_AddElement
<1>. QED
  BY <1>1, <1>2

\* The data frames of a slot are finitely many.
LEMMA DataFinite ==
    ASSUME NEW t \in Slots
    PROVE  DataOf(t) \subseteq Write /\ IsFiniteSet(DataOf(t))
<1>1. \A i \in DOMAIN t.frames : t.frames[i].write \in Write \cup {NoWrite}
  <2>1. t.frames \in Seq(Frames)
    BY DEF Slots
  <2>2. \A f \in Frames : f.write \in Write \cup {NoWrite}
    BY DEF Frames
  <2>. QED
    BY <2>1, <2>2
<1>2. DataOf(t) \subseteq Write
  BY <1>1 DEF DataOf
<1>. QED
  BY <1>2, WritesAre, FS_Subset

LEMMA SentType ==
    ASSUME NEW v \in Fields, NEW w \in Write
    PROVE  /\ Sent(v, w) \in Fields /\ Sent(v, w).state = v.state
           /\ Sent(v, w).listening = v.listening
           /\ Sent(v, w).pending = v.pending \cup {[seq |-> v.frameSeq, write |-> w]}
           /\ DataOf(Sent(v, w).tx) = DataOf(v.tx) \cup {w}
<1> DEFINE u == Append1(v, "Data", 0, w)
           e == [seq |-> v.frameSeq, write |-> w]
<1>1. w \in Write \cup {NoWrite} /\ {w} \ {NoWrite} = {w}
  BY WritesAre
<1>2. /\ Like(u, v, DataOf(v.tx) \cup ({w} \ {NoWrite}))
      /\ u.state = v.state /\ u.listening = v.listening
  BY <1>1, AppendType, Numbers
<1>3. e \in Entry /\ v.pending \cup {e} \in SUBSET Entry
  BY FieldsOf DEF Entry
<1>4. Sent(v, w) = [u EXCEPT !.pending = @ \cup {e}]
  BY DEF Sent
<1> HIDE DEF u, e
<1>5. u \in Fields /\ u.pending = v.pending /\ DataOf(u.tx) = DataOf(v.tx) \cup {w}
  BY <1>1, <1>2 DEF Like
<1>. QED
  BY <1>2, <1>3, <1>4, <1>5 DEF Fields, e

\* f is the node v after the first m writes of q, write by write.
SentOf(f, v, q, m) == f = [k \in 0 .. m |-> IF k = 0 THEN v ELSE Sent(f[k - 1], q[k])]

LEMMA SentExists ==
    ASSUME NEW v, NEW q
    PROVE  \A m \in Nat : \E f : SentOf(f, v, q, m)
<1> DEFINE S == {m \in Nat : \E f : SentOf(f, v, q, m)}
<1>1. 0 \in S
  <2> DEFINE f == [k \in 0 .. 0 |-> v]
  <2>1. SentOf(f, v, q, 0)
    BY DEF SentOf
  <2>. QED
    BY <2>1
<1>2. ASSUME NEW m \in Nat, m \in S
      PROVE  m + 1 \in S
  <2>1. PICK f : SentOf(f, v, q, m)
    BY <1>2
  <2> DEFINE next(k) == IF k = m + 1 THEN Sent(f[m], q[m + 1]) ELSE f[k]
             g == [k \in 0 .. m + 1 |-> next(k)]
  <2>2. \A k \in 0 .. m : f[k] = IF k = 0 THEN v ELSE Sent(f[k - 1], q[k])
    BY <2>1 DEF SentOf
  <2>3. \A k \in 0 .. m + 1 : next(k) = IF k = 0 THEN v ELSE Sent(g[k - 1], q[k])
    <3> SUFFICES ASSUME NEW k \in 0 .. m + 1
                 PROVE  next(k) = IF k = 0 THEN v ELSE Sent(g[k - 1], q[k])
      OBVIOUS
    <3>1. CASE k = m + 1
      <4>1. g[k - 1] = f[m] /\ k # 0
        BY <3>1
      <4>. QED
        BY <3>1, <4>1
    <3>2. CASE k # m + 1 /\ k # 0
      <4>1. g[k - 1] = f[k - 1] /\ k \in 0 .. m
        BY <3>2
      <4>. QED
        BY <2>2, <3>2, <4>1
    <3>3. CASE k = 0
      BY <2>2, <3>3
    <3>. QED
      BY <3>1, <3>2, <3>3
  <2>4. SentOf(g, v, q, m + 1)
    BY <2>3, Zenon DEF SentOf
  <2>. QED
    BY <2>4
<1>. QED
  BY <1>1, <1>2, SetInduction

First(q, k) == {q[i] : i \in 1 .. k}

\* u is v after the first k writes of q.
Moves(u, v, q, k) ==
    /\ u \in Fields /\ u.state = v.state /\ u.listening = v.listening
    /\ IsFiniteSet(u.pending) /\ Cardinality(u.pending) <= Cardinality(v.pending) + k
    /\ DataFrames(u) <= DataFrames(v) + k
    /\ WritesOf(u.pending) = WritesOf(v.pending) \cup First(q, k)
    /\ \A e, g \in u.pending : e.write = g.write => e = g

\* One more write.
LEMMA OneMore ==
    ASSUME NEW v \in Fields, NEW n, NEW q, Tidy(n, v.pending, q),
           NEW k \in Nat, k < Len(q), NEW u, Moves(u, v, q, k)
    PROVE  Moves(Sent(u, q[k + 1]), v, q, k + 1)
<1> DEFINE w == q[k + 1]
           e == [seq |-> u.frameSeq, write |-> w]
           x == Sent(u, w)
<1>1. k + 1 \in DOMAIN q /\ w \in Write /\ \A i \in 1 .. k : i \in DOMAIN q /\ q[i] # w
  <2>1. q \in Seq(Write) /\ \A i, j \in DOMAIN q : q[i] = q[j] => i = j
    BY DEF Tidy
  <2>2. k + 1 \in DOMAIN q /\ \A i \in 1 .. k : i \in DOMAIN q /\ i # k + 1
    BY <2>1
  <2>. QED
    BY <2>1, <2>2
<1>2. w \notin WritesOf(v.pending) \cup First(q, k)
  <2>1. w \in InQueue(q)
    BY <1>1 DEF InQueue
  <2>2. w \notin First(q, k)
    BY <1>1 DEF First
  <2>. QED
    BY <2>1, <2>2 DEF Tidy
<1>3. First(q, k + 1) = First(q, k) \cup {w}
  <2>1. 1 .. k + 1 = (1 .. k) \cup {k + 1}
    OBVIOUS
  <2>. QED
    BY <2>1 DEF First
<1>4. /\ x \in Fields /\ x.state = v.state /\ x.listening = v.listening
      /\ x.pending = u.pending \cup {e} /\ DataOf(x.tx) = DataOf(u.tx) \cup {w}
  BY <1>1, SentType DEF Moves
<1>5. /\ IsFiniteSet(x.pending)
      /\ Cardinality(x.pending) <= Cardinality(v.pending) + (k + 1)
  <2>1. IsFiniteSet(u.pending) /\ IsFiniteSet(v.pending)
    BY DEF Moves, Tidy
  <2>2. Cardinality(v.pending) \in Nat
    BY <2>1, FS_CardinalityType
  <2> HIDE DEF e, w, x
  <2>3. /\ IsFiniteSet(u.pending \cup {e}) /\ Cardinality(u.pending) \in Nat
        /\ Cardinality(u.pending \cup {e}) \in Nat
        /\ Cardinality(u.pending \cup {e}) <= Cardinality(u.pending) + 1
    BY <2>1, OneElement
  <2>4. Cardinality(u.pending) <= Cardinality(v.pending) + k
    BY DEF Moves
  <2>5. Cardinality(u.pending \cup {e}) <= Cardinality(v.pending) + (k + 1)
    BY <2>2, <2>3, <2>4
  <2>. QED
    BY <1>4, <2>3, <2>5
<1>6. DataFrames(x) <= DataFrames(v) + (k + 1)
  <2>1. u.tx \in Slots /\ v.tx \in Slots
    BY FieldsOf DEF Moves
  <2>2. IsFiniteSet(DataOf(u.tx)) /\ IsFiniteSet(DataOf(v.tx))
    BY <2>1, DataFinite
  <2>3. Cardinality(DataOf(v.tx)) \in Nat
    BY <2>2, FS_CardinalityType
  <2> HIDE DEF w, x
  <2>4. /\ Cardinality(DataOf(u.tx)) \in Nat /\ Cardinality(DataOf(u.tx) \cup {w}) \in Nat
        /\ Cardinality(DataOf(u.tx) \cup {w}) <= Cardinality(DataOf(u.tx)) + 1
    BY <2>2, OneElement
  <2>5. Cardinality(DataOf(u.tx)) <= Cardinality(DataOf(v.tx)) + k
    BY DEF Moves, DataFrames
  <2>6. Cardinality(DataOf(u.tx) \cup {w}) <= Cardinality(DataOf(v.tx)) + (k + 1)
    BY <2>3, <2>4, <2>5
  <2>. QED
    BY <1>4, <2>6 DEF DataFrames
<1>7. WritesOf(x.pending) = WritesOf(v.pending) \cup First(q, k + 1)
  <2>1. WritesOf(u.pending \cup {e}) = WritesOf(u.pending) \cup {e.write}
    BY DEF WritesOf
  <2>2. e.write = w
    OBVIOUS
  <2> HIDE DEF e, w, x
  <2>. QED
    BY <1>3, <1>4, <2>1, <2>2 DEF Moves
<1>8. \A g, h \in x.pending : g.write = h.write => g = h
  <2>1. \A g \in u.pending : g.write # w
    <3>1. \A g \in u.pending : g.write \in WritesOf(u.pending)
      BY DEF WritesOf
    <3>. QED
      BY <1>2, <3>1 DEF Moves
  <2>2. e.write = w
    OBVIOUS
  <2> HIDE DEF e, w, x
  <2>. QED
    BY <1>4, <2>1, <2>2 DEF Moves
<1> HIDE DEF x
<1>9. Moves(x, v, q, k + 1)
  BY <1>4, <1>5, <1>6, <1>7, <1>8 DEF Moves
<1>. QED
  BY <1>9 DEF x

LEMMA MovesAll ==
    ASSUME NEW v \in Fields, NEW n, NEW q, Tidy(n, v.pending, q),
           NEW m \in Nat, m <= Len(q), NEW f, SentOf(f, v, q, m)
    PROVE  Moves(f[m], v, q, m)
<1> DEFINE S == {k \in Nat : k <= m => Moves(f[k], v, q, k)}
<1>1. \A k \in 0 .. m : f[k] = IF k = 0 THEN v ELSE Sent(f[k - 1], q[k])
  BY DEF SentOf
<1>2. 0 \in S
  <2>1. First(q, 0) = {}
    BY DEF First
  <2>2. Cardinality(v.pending) \in Nat /\ DataFrames(v) \in Nat
    BY FieldsOf, DataFinite, FS_CardinalityType DEF Tidy, DataFrames
  <2>3. Moves(v, v, q, 0)
    BY <2>1, <2>2 DEF Moves, Tidy
  <2>. QED
    BY <1>1, <2>3
<1>3. ASSUME NEW k \in Nat, k \in S
      PROVE  k + 1 \in S
  <2> SUFFICES ASSUME k + 1 <= m PROVE Moves(f[k + 1], v, q, k + 1)
    OBVIOUS
  <2>0. Len(q) \in Nat
    BY DEF Tidy
  <2>1. Moves(f[k], v, q, k) /\ k + 1 \in 0 .. m /\ k + 1 # 0 /\ (k + 1) - 1 = k /\ k < Len(q)
    BY <1>3, <2>0
  <2>2. Moves(Sent(f[k], q[k + 1]), v, q, k + 1)
    BY <2>1, OneMore
  <2>. QED
    BY <1>1, <2>1, <2>2
<1> HIDE DEF S
<1>4. m \in S
  BY <1>2, <1>3, SetInduction
<1>. QED
  BY <1>4 DEF S

LEMMA Processing ==
    ASSUME NEW v \in Fields, NEW n, NEW q, Tidy(n, v.pending, q),
           Cardinality(v.pending) <= PendingDepth, DataFrames(v) <= SlotData
    PROVE  LET u == Processed(v, q) IN
           /\ u \in Fields /\ u.state = v.state /\ u.listening = v.listening
           /\ Tidy(n, u.pending, Rest(v, q))
           /\ WritesOf(u.pending) = WritesOf(v.pending) \cup Taken(v, q)
           /\ Taken(v, q) \subseteq InQueue(q)
           /\ InQueue(Rest(v, q)) = InQueue(q) \ Taken(v, q)
           /\ Cardinality(u.pending) <= PendingDepth /\ DataFrames(u) <= SlotData
           /\ Len(Rest(v, q)) <= Len(q)
<1> DEFINE m == Moved(v, q)
           f == CHOOSE g : SentOf(g, v, q, m)
           u == f[m]
           rest == Rest(v, q)
<1>1. /\ q \in Seq(Write) /\ Len(q) \in Nat /\ DOMAIN q = 1 .. Len(q)
      /\ \A i, j \in DOMAIN q : q[i] = q[j] => i = j
  BY DEF Tidy
<1>2. /\ Cardinality(v.pending) \in Nat /\ DataFrames(v) \in Nat
      /\ PendingDepth \in Nat /\ SlotData \in Nat
  BY SpiAssumption, FieldsOf, DataFinite, FS_CardinalityType DEF Tidy, DataFrames
<1>3. /\ m \in Nat /\ m <= Len(q)
      /\ Cardinality(v.pending) + m <= PendingDepth /\ DataFrames(v) + m <= SlotData
  BY <1>1, <1>2 DEF Moved, Room
<1>4. SentOf(f, v, q, m)
  BY <1>3, SentExists
<1>5. Processed(v, q) = u
  BY Zenon DEF Processed, SentOf
<1>6. Moves(u, v, q, m)
  <2> HIDE DEF f, m
  <2>. QED
    BY <1>3, <1>4, MovesAll
<1>7. Taken(v, q) = First(q, m)
  BY DEF Taken, First
<1>8. /\ rest \in Seq(Write) /\ Len(rest) = Len(q) - m
      /\ \A i \in 1 .. Len(rest) : rest[i] = q[m + i] /\ m + i \in DOMAIN q /\ ~ (m + i \in 1 .. m)
  <2>1. m + 1 \in Int /\ Len(q) \in Int /\ \A i \in m + 1 .. Len(q) : q[i] \in Write
    BY <1>1, <1>3
  <2>2. rest = SubSeq(q, m + 1, Len(q))
    BY DEF Rest
  <2> HIDE DEF m, rest
  <2>3. /\ rest \in Seq(Write)
        /\ Len(rest) = IF m + 1 <= Len(q) THEN Len(q) - (m + 1) + 1 ELSE 0
        /\ \A i \in 1 .. Len(q) - (m + 1) + 1 : rest[i] = q[(m + 1) + i - 1]
    BY <2>1, <2>2, SubSeqProperties
  <2>4. Len(rest) = Len(q) - m /\ Len(q) - (m + 1) + 1 = Len(rest)
    <3>1. Len(rest) = IF m + 1 <= Len(q) THEN Len(q) - (m + 1) + 1 ELSE 0
      BY <2>3
    <3>2. Len(q) \in Nat /\ m \in Nat /\ m <= Len(q)
      BY <1>1, <1>3
    <3> HIDE DEF m
    <3>. QED
      BY <3>1, <3>2, SMT
  <2>5. ASSUME NEW i \in 1 .. Len(rest)
        PROVE  rest[i] = q[m + i] /\ m + i \in DOMAIN q /\ ~ (m + i \in 1 .. m)
    <3>1. rest[i] = q[(m + 1) + i - 1]
      BY <2>3, <2>4
    <3>2. i \in Nat /\ i >= 1 /\ i <= Len(q) - m
      BY <1>1, <1>3, <2>4
    <3>3. (m + 1) + i - 1 = m + i /\ m + i \in 1 .. Len(q) /\ ~ (m + i \in 1 .. m)
      BY <1>1, <1>3, <3>2
    <3>. QED
      BY <1>1, <3>1, <3>3
  <2>. QED
    BY <2>3, <2>4, <2>5
<1> HIDE DEF f, m, rest
<1>9. InQueue(rest) = InQueue(q) \ First(q, m) /\ First(q, m) \subseteq InQueue(q)
  <2>1. First(q, m) \subseteq InQueue(q)
    BY <1>1, <1>3 DEF First, InQueue
  <2>2. InQueue(rest) \subseteq InQueue(q) \ First(q, m)
    <3> SUFFICES ASSUME NEW i \in DOMAIN rest
                 PROVE  rest[i] \in InQueue(q) \ First(q, m)
      BY DEF InQueue
    <3>1. i \in 1 .. Len(rest)
      BY <1>8
    <3>2. rest[i] = q[m + i] /\ m + i \in DOMAIN q /\ ~ (m + i \in 1 .. m)
      BY <1>8, <3>1
    <3>3. \A j \in 1 .. m : j \in DOMAIN q /\ q[j] # q[m + i]
      BY <1>1, <1>3, <3>2
    <3>. QED
      BY <3>2, <3>3 DEF InQueue, First
  <2>3. InQueue(q) \ First(q, m) \subseteq InQueue(rest)
    <3> SUFFICES ASSUME NEW i \in DOMAIN q, q[i] \notin First(q, m)
                 PROVE  q[i] \in InQueue(rest)
      BY DEF InQueue
    <3>1. ~ (i \in 1 .. m)
      BY DEF First
    <3>2. i - m \in 1 .. Len(rest) /\ m + (i - m) = i
      BY <1>1, <1>3, <1>8, <3>1
    <3>3. i - m \in DOMAIN rest /\ rest[i - m] = q[i]
      BY <1>8, <3>2
    <3>. QED
      BY <3>3 DEF InQueue
  <2>. QED
    BY <2>1, <2>2, <2>3
<1>10. Tidy(n, u.pending, rest)
  <2>1. \A i, j \in DOMAIN rest : rest[i] = rest[j] => i = j
    <3> SUFFICES ASSUME NEW i \in DOMAIN rest, NEW j \in DOMAIN rest, rest[i] = rest[j]
                 PROVE  i = j
      OBVIOUS
    <3>1. i \in 1 .. Len(rest) /\ j \in 1 .. Len(rest)
      BY <1>8
    <3>2. m + i = m + j
      BY <1>1, <1>8, <3>1
    <3>. QED
      BY <1>3, <3>1, <3>2
  <2>2. u.pending \subseteq Entry
    BY <1>6, FieldsOf DEF Moves
  <2>3. WritesOf(u.pending) \cap InQueue(rest) = {}
    BY <1>6, <1>9 DEF Moves, Tidy
  <2>4. \A w \in WritesOf(u.pending) \cup InQueue(rest) : Owner(w) = n
    BY <1>6, <1>9 DEF Moves, Tidy
  <2>. QED
    BY <1>6, <1>8, <2>1, <2>2, <2>3, <2>4 DEF Tidy, Moves
<1>11. Cardinality(u.pending) <= PendingDepth /\ DataFrames(u) <= SlotData
  <2>1. Cardinality(u.pending) \in Nat /\ DataFrames(u) \in Nat
    BY <1>6, FieldsOf, DataFinite, FS_CardinalityType DEF Moves, DataFrames
  <2>. QED
    BY <1>2, <1>3, <1>6, <2>1 DEF Moves
<1>. QED
  BY <1>1, <1>3, <1>5, <1>6, <1>7, <1>8, <1>9, <1>10, <1>11 DEF Moves, rest

(***************************************************************************)
(* Answers and resets: what they complete, and what stays open.            *)
(***************************************************************************)

\* Different entries of a tidy table have different writes.
LEMMA Apart ==
    ASSUME NEW n, NEW es, NEW q, Tidy(n, es, q), NEW a \in SUBSET es, NEW b \in SUBSET es
    PROVE  /\ WritesOf(a) \subseteq WritesOf(es)
           /\ a \cap b = {} => WritesOf(a) \cap WritesOf(b) = {}
<1>1. \A e, g \in es : e.write = g.write => e = g
  BY DEF Tidy
<1>. QED
  BY <1>1 DEF WritesOf

\* d completes some of the writes of a table es and a queue q of node n, each of
\* them once, and leaves the others open.
Settled(n, es, q, d) ==
    /\ Tidy(n, d.pending, d.queue) /\ d.pending \subseteq es
    /\ d.acked \cap d.nacked = {}
    /\ d.acked \cup d.nacked \subseteq WritesOf(es) \cup InQueue(q)
    /\ WritesOf(d.pending) \subseteq WritesOf(es) \ (d.acked \cup d.nacked)
    /\ InQueue(d.queue) \subseteq InQueue(q) \ (d.acked \cup d.nacked)
    /\ d.queue \in {q, <<>>}

LEMMA Settling ==
    ASSUME NEW n, NEW v, NEW p, NEW failed \in BOOLEAN, NEW left, Tidy(n, v.pending, left),
           NEW d, d = Settle(v, p, failed, left)
    PROVE  Settled(n, v.pending, left, d)
<1> DEFINE A == AckedBy(v, p)
           B == NackedBy(v, p)
           open == v.pending \ (B \cup A)
<1>1. /\ A \in SUBSET v.pending /\ B \in SUBSET v.pending /\ open \in SUBSET v.pending
      /\ A \cap B = {} /\ A \cap open = {} /\ B \cap open = {}
  BY DEF AckedBy, NackedBy
<1>2. /\ d.acked = WritesOf(A)
      /\ d.nacked = WritesOf(B) \cup (IF failed THEN WritesOf(open) \cup InQueue(left) ELSE {})
      /\ d.pending = IF failed THEN {} ELSE open
      /\ d.queue = IF failed THEN <<>> ELSE left
  BY DEF Settle, InQueue
<1> HIDE DEF A, B, open
<1>3. /\ WritesOf(A) \subseteq WritesOf(v.pending) /\ WritesOf(B) \subseteq WritesOf(v.pending)
      /\ WritesOf(open) \subseteq WritesOf(v.pending)
      /\ WritesOf(A) \cap WritesOf(B) = {} /\ WritesOf(A) \cap WritesOf(open) = {}
      /\ WritesOf(B) \cap WritesOf(open) = {}
  BY <1>1, Apart
<1>4. WritesOf(v.pending) \cap InQueue(left) = {}
  BY DEF Tidy
<1>5. WritesOf({}) = {} /\ InQueue(<<>>) = {}
  BY DEF WritesOf, InQueue
<1>6. Tidy(n, d.pending, d.queue) /\ d.pending \subseteq v.pending
  <2>1. IsFiniteSet(open) /\ IsFiniteSet({})
    BY <1>1, FS_Subset, FS_EmptySet DEF Tidy
  <2>2. CASE failed
    BY <1>2, <1>5, <2>1, <2>2 DEF Tidy
  <2>3. CASE ~ failed
    <3>1. d.pending = open /\ d.queue = left
      BY <1>2, <2>3
    <3>. QED
      BY <1>1, <1>3, <2>1, <3>1 DEF Tidy
  <2>. QED
    BY <2>2, <2>3
<1>7. CASE failed
  <2>1. /\ d.nacked = WritesOf(B) \cup (WritesOf(open) \cup InQueue(left))
        /\ d.pending = {} /\ d.queue = <<>>
    BY <1>2, <1>7
  <2>. QED
    BY <1>2, <1>3, <1>4, <1>5, <1>6, <2>1 DEF Settled
<1>8. CASE ~ failed
  <2>1. d.nacked = WritesOf(B) /\ d.pending = open /\ d.queue = left
    BY <1>2, <1>8
  <2>. QED
    BY <1>2, <1>3, <1>4, <1>6, <2>1 DEF Settled
<1>. QED
  BY <1>7, <1>8

(***************************************************************************)
(* A step of one node.                                                     *)
(***************************************************************************)
NodeInv ==
    /\ node \in [Node -> Fields] /\ queue \in [Node -> Seq(Write)] /\ req \in [Write -> ReqType]
    /\ Fits /\ Kept /\ CompletedOnce

LEMMA IInvIs ==
    IInv <=> /\ NodeInv /\ ReadInv
             /\ transfer \in [got : Reading \cup {None}, sent : BOOLEAN]
             /\ faults \in [count : Nat, kinds : SUBSET FaultKind]
BY DEF IInv, NodeInv, Typed

LEMMA HistoryType ==
    ASSUME NodeInv, NEW acked, NEW nacked, NEW delivered, NEW sent
    PROVE  History(acked, nacked, delivered, sent) \in [Write -> ReqType]
<1> DEFINE h(w) == [at |-> IF w \in acked THEN "acked" ELSE IF w \in nacked THEN "nacked"
                           ELSE IF w \in sent THEN "sent" ELSE req[w].at,
                    done |-> req[w].done + (IF w \in acked THEN 1 ELSE 0)
                                         + (IF w \in nacked THEN 1 ELSE 0),
                    delivered |-> req[w].delivered + (IF w \in delivered THEN 1 ELSE 0)]
<1>1. \A w \in Write : req[w] \in ReqType
  BY DEF NodeInv
<1>2. \A w \in Write : h(w) \in ReqType
  BY <1>1 DEF ReqType
<1>3. History(acked, nacked, delivered, sent) = [w \in Write |-> h(w)]
  BY DEF History
<1> HIDE DEF h
<1>. QED
  BY <1>2, <1>3

LEMMA Updating ==
    ASSUME NodeInv, NEW n \in Node, NEW u \in Fields, NEW q, Tidy(n, u.pending, q),
           NEW acked, NEW nacked, NEW delivered, NEW sent,
           node' = [node EXCEPT ![n] = u], queue' = [queue EXCEPT ![n] = q],
           req' = History(acked, nacked, delivered, sent),
           Cardinality(u.pending) <= PendingDepth, Len(q) <= QueueDepth,
           DataFrames(u) <= SlotData,
           acked \cap nacked = {},
           acked \cup nacked \subseteq WritesOf(node[n].pending) \cup InQueue(queue[n]),
           sent \subseteq InQueue(queue[n]),
           WritesOf(u.pending)
               \subseteq (WritesOf(node[n].pending) \cup sent) \ (acked \cup nacked),
           InQueue(q) \subseteq InQueue(queue[n]) \ (sent \cup acked \cup nacked)
    PROVE  NodeInv'
<1> DEFINE opened == WritesOf(node[n].pending) \cup InQueue(queue[n])
<1>1. /\ node' \in [Node -> Fields] /\ queue' \in [Node -> Seq(Write)]
      /\ node'[n] = u /\ queue'[n] = q
      /\ \A m \in Node : m # n => node'[m] = node[m] /\ queue'[m] = queue[m]
  BY DEF NodeInv, Tidy
<1>2. req' \in [Write -> ReqType]
  BY HistoryType
<1>3. Fits'
  <2>1. ASSUME NEW m \in Node
        PROVE  /\ Cardinality(node'[m].pending) <= PendingDepth
               /\ Len(queue'[m]) <= QueueDepth /\ DataFrames(node'[m]) <= SlotData
    <3>1. CASE m = n
      BY <1>1, <3>1
    <3>2. CASE m # n
      BY <1>1, <3>2 DEF NodeInv, Fits
    <3>. QED
      BY <3>1, <3>2
  <2>. QED
    BY <2>1 DEF Fits
<1>4. ASSUME NEW m \in Node
      PROVE  /\ Tidy(m, node[m].pending, queue[m])
             /\ \A w \in WritesOf(node[m].pending) : Owner(w) = m /\ req[w].at = "sent"
             /\ \A w \in InQueue(queue[m]) : Owner(w) = m /\ req[w].at = "queued"
             /\ WritesOf(node[m].pending) \cup InQueue(queue[m]) \subseteq Write
  <2>1. Tidy(m, node[m].pending, queue[m]) /\ Marked(m)
    BY DEF NodeInv, Kept
  <2>2. WritesOf(node[m].pending) \subseteq Write
    BY <2>1 DEF Tidy, WritesOf, Entry
  <2>3. InQueue(queue[m]) \subseteq Write
    BY <2>1 DEF Tidy, InQueue
  <2>. QED
    BY <2>1, <2>2, <2>3 DEF Tidy, Marked
<1>5. \A w \in Write :
        /\ req'[w].at = IF w \in acked THEN "acked" ELSE IF w \in nacked THEN "nacked"
                        ELSE IF w \in sent THEN "sent" ELSE req[w].at
        /\ req'[w].done = req[w].done + (IF w \in acked THEN 1 ELSE 0)
                                      + (IF w \in nacked THEN 1 ELSE 0)
  BY DEF History
<1>6. \A w \in opened : Owner(w) = n /\ req[w].at \in {"queued", "sent"} /\ w \in Write
  BY <1>4
<1>7. Marked(n)'
  <2>1. \A w \in WritesOf(u.pending) : req'[w].at = "sent"
    BY <1>4, <1>5
  <2>2. \A w \in InQueue(q) : req'[w].at = "queued"
    BY <1>4, <1>5
  <2>. QED
    BY <1>1, <2>1, <2>2 DEF Marked
<1>8. ASSUME NEW m \in Node, m # n
      PROVE  Marked(m)'
  <2>1. \A w \in WritesOf(node[m].pending) \cup InQueue(queue[m]) : w \in Write /\ w \notin opened
    BY <1>4, <1>6, <1>8
  <2>2. \A w \in WritesOf(node[m].pending) \cup InQueue(queue[m]) : req'[w].at = req[w].at
    BY <1>5, <2>1
  <2>. QED
    BY <1>1, <1>4, <1>8, <2>2 DEF Marked
<1>9. Kept'
  <2>1. ASSUME NEW m \in Node
        PROVE  Tidy(m, node'[m].pending, queue'[m]) /\ Marked(m)'
    <3>1. CASE m = n
      BY <1>1, <1>7, <3>1
    <3>2. CASE m # n
      BY <1>1, <1>4, <1>8, <3>2
    <3>. QED
      BY <3>1, <3>2
  <2>. QED
    BY <2>1 DEF Kept, Tidy, Marked
<1>10. CompletedOnce'
  <2>1. ASSUME NEW w \in Write
        PROVE  req'[w].done = IF req'[w].at \in {"acked", "nacked"} THEN 1 ELSE 0
    <3>1. req[w].done = IF req[w].at \in {"acked", "nacked"} THEN 1 ELSE 0
      BY DEF NodeInv, CompletedOnce
    <3>2. CASE w \in acked \cup nacked
      <4>1. req[w].done = 0
        BY <1>6, <3>1, <3>2
      <4>. QED
        BY <1>5, <3>2, <4>1
    <3>3. CASE w \notin acked \cup nacked
      <4>1. req'[w].done = req[w].done + 0 + 0 /\ req[w].done \in Nat
        BY <1>5, <3>1, <3>3
      <4>2. w \in sent => req[w].done = 0
        BY <1>4, <3>1
      <4>. QED
        BY <1>5, <3>1, <3>3, <4>1, <4>2
    <3>. QED
      BY <3>2, <3>3
  <2>. QED
    BY <2>1 DEF CompletedOnce
<1>. QED
  BY <1>1, <1>2, <1>3, <1>9, <1>10 DEF NodeInv

(***************************************************************************)
(* The initial states, a restart and the calls of the users.               *)
(***************************************************************************)
LEMMA NodesAre == "master" \in Node /\ "slave" \in Node /\ \A w : Owner(w) \in Node
BY DEF Node, Owner

LEMMA NodeFacts ==
    ASSUME NodeInv, NEW n \in Node
    PROVE  /\ node[n] \in Fields /\ queue[n] \in Seq(Write)
           /\ Tidy(n, node[n].pending, queue[n]) /\ Marked(n)
           /\ Cardinality(node[n].pending) <= PendingDepth
           /\ Len(queue[n]) <= QueueDepth /\ DataFrames(node[n]) <= SlotData
BY DEF NodeInv, Kept, Fits

LEMMA NodeInitType ==
    ASSUME NEW n \in Node
    PROVE  /\ NodeInit(n) \in Fields /\ NodeInit(n).pending = {}
           /\ DataFrames(NodeInit(n)) = 0
<1>1. Fresh \in Fields /\ Fresh.pending = {}
  <2>1. BlankSlot(0) \in Slots
    BY Numbers, BlankType
  <2>. QED
    BY <2>1, Numbers DEF Fresh, Fields
<1>2. Like(reset(n, Fresh), Fresh, {})
  BY <1>1, ResetType
<1>3. Like(queueHello(reset(n, Fresh)), Fresh, {})
  BY <1>2, QueueHelloType DEF Like
<1>4. Like(NodeInit(n), Fresh, {})
  BY <1>2, <1>3 DEF NodeInit
<1>. QED
  BY <1>1, <1>4, FS_EmptySet DEF Like, DataFrames

LEMMA NothingOpen ==
    /\ WritesOf({}) = {} /\ InQueue(<<>>) = {} /\ Cardinality({}) = 0 /\ Len(<<>>) = 0
    /\ \A n : Tidy(n, {}, <<>>)
<1>1. WritesOf({}) = {} /\ InQueue(<<>>) = {}
  BY DEF WritesOf, InQueue
<1>2. IsFiniteSet({}) /\ Cardinality({}) = 0 /\ Len(<<>>) = 0
  BY FS_EmptySet
<1>. QED
  BY <1>1, <1>2 DEF Tidy

LEMMA DepthsAre == PendingDepth \in Nat /\ QueueDepth \in Nat /\ SlotData \in Nat
BY SpiAssumption

LEMMA InitInv == Init => IInv
<1> SUFFICES ASSUME Init PROVE IInv
  OBVIOUS
<1>1. \A n \in Node : node[n] = NodeInit(n) /\ queue[n] = <<>>
  BY DEF Init
<1>2. node \in [Node -> Fields] /\ queue \in [Node -> Seq(Write)]
  BY NodeInitType DEF Init
<1>3. req \in [Write -> ReqType] /\ CompletedOnce
  BY DEF Init, ReqType, CompletedOnce
<1>4. Fits
  <2>1. \A n \in Node : /\ Cardinality(node[n].pending) = 0 /\ Len(queue[n]) = 0
                        /\ DataFrames(node[n]) = 0
    <3> SUFFICES ASSUME NEW n \in Node
                 PROVE  /\ Cardinality(node[n].pending) = 0 /\ Len(queue[n]) = 0
                        /\ DataFrames(node[n]) = 0
      OBVIOUS
    <3>1. node[n].pending = {} /\ DataFrames(node[n]) = 0 /\ queue[n] = <<>>
      BY <1>1, NodeInitType
    <3>. QED
      BY <3>1, NothingOpen
  <2>2. 0 <= PendingDepth /\ 0 <= QueueDepth /\ 0 <= SlotData
    BY DepthsAre
  <2>. QED
    BY <2>1, <2>2 DEF Fits
<1>5. Kept
  BY <1>1, NodeInitType, NothingOpen DEF Kept, Marked
<1>6. transfer \in [got : Reading \cup {None}, sent : BOOLEAN] /\ ReadInv
  BY DEF Init, Armed, ReadInv
<1>7. faults \in [count : Nat, kinds : SUBSET FaultKind]
  BY DEF Init
<1>. QED
  BY <1>2, <1>3, <1>4, <1>5, <1>6, <1>7, IInvIs DEF NodeInv

LEMMA CheckStep ==
    ASSUME IInv, NEW w \in Write, Check(w)
    PROVE  IInv'
<1>1. NodeInv
  BY IInvIs
<1>2. /\ req[w].at = "new" /\ req' = [req EXCEPT ![w].at = "checked"]
      /\ UNCHANGED <<node, transfer, queue, faults>>
  BY DEF Check
<1>3. req \in [Write -> ReqType] /\ req[w] \in ReqType
  BY <1>1 DEF NodeInv
<1>4. /\ req' \in [Write -> ReqType]
      /\ \A u \in Write : req'[u].done = req[u].done /\ (u # w => req'[u] = req[u])
      /\ req'[w].at = "checked"
  BY <1>2, <1>3 DEF ReqType
<1>5. CompletedOnce'
  BY <1>1, <1>2, <1>4 DEF NodeInv, CompletedOnce
<1>6. Kept'
  <2>1. ASSUME NEW n \in Node
        PROVE  Marked(n)'
    <3>1. Marked(n) /\ Tidy(n, node[n].pending, queue[n])
      BY <1>1, NodeFacts
    <3>2. WritesOf(node[n].pending) \cup InQueue(queue[n]) \subseteq Write
      BY <3>1 DEF Tidy, WritesOf, InQueue, Entry
    <3>. QED
      BY <1>2, <1>4, <3>1, <3>2 DEF Marked
  <2>. QED
    BY <1>1, <1>2, <2>1 DEF NodeInv, Kept, Tidy
<1>7. Fits' /\ ReadInv'
  BY <1>1, <1>2, IInvIs DEF NodeInv, Fits, ReadInv
<1>. QED
  BY <1>1, <1>2, <1>4, <1>5, <1>6, <1>7, IInvIs DEF NodeInv, IInv, Typed

LEMMA EnqueueStep ==
    ASSUME IInv, NEW w \in Write, Enqueue(w)
    PROVE  IInv'
<1> DEFINE n == Owner(w)
<1>1. NodeInv /\ n \in Node
  BY IInvIs, NodesAre
<1>2. req[w].at = "checked" /\ UNCHANGED <<node, transfer, faults>>
  BY DEF Enqueue
<1>3. req \in [Write -> ReqType] /\ req[w] \in ReqType /\ req[w].done = 0
  BY <1>1, <1>2 DEF NodeInv, CompletedOnce
<1>4. PICK a \in {"queued", "gone"} :
        /\ req' = [req EXCEPT ![w].at = a]
        /\ a = "queued" => /\ Len(queue[n]) < QueueDepth
                           /\ queue' = [queue EXCEPT ![n] = Append(queue[n], w)]
        /\ a = "gone" => queue' = queue
  BY DEF Enqueue
<1>5. /\ req' \in [Write -> ReqType]
      /\ \A u \in Write : req'[u].done = req[u].done /\ (u # w => req'[u] = req[u])
      /\ req'[w].at = a
  BY <1>3, <1>4 DEF ReqType
<1>6. CompletedOnce'
  BY <1>1, <1>3, <1>5 DEF NodeInv, CompletedOnce
<1> DEFINE q(m) == IF m = n /\ a = "queued" THEN Append(queue[m], w) ELSE queue[m]
<1>7. /\ \A m \in Node : queue'[m] = q(m)
      /\ queue' \in [Node -> Seq(Write)]
  <2>1. queue \in [Node -> Seq(Write)]
    BY <1>1 DEF NodeInv
  <2>2. CASE a = "gone"
    BY <1>4, <2>1, <2>2
  <2>3. CASE a = "queued"
    <3> HIDE DEF n
    <3>1. queue' = [queue EXCEPT ![n] = Append(queue[n], w)]
      BY <1>4, <2>3
    <3>2. Append(queue[n], w) \in Seq(Write)
      BY <1>1, <2>1
    <3>. QED
      BY <1>1, <2>1, <2>3, <3>1, <3>2
  <2>. QED
    BY <2>2, <2>3
<1>8. ASSUME NEW m \in Node
      PROVE  /\ Tidy(m, node[m].pending, q(m)) /\ Len(q(m)) <= QueueDepth
             /\ \A u \in WritesOf(node[m].pending) : req'[u].at = "sent"
             /\ \A u \in InQueue(q(m)) : req'[u].at = "queued"
  <2>1. /\ Tidy(m, node[m].pending, queue[m]) /\ Marked(m)
        /\ Len(queue[m]) <= QueueDepth /\ queue[m] \in Seq(Write)
    BY <1>1, NodeFacts
  <2>2. WritesOf(node[m].pending) \cup InQueue(queue[m]) \subseteq Write \ {w}
    <3>1. w \notin WritesOf(node[m].pending) \cup InQueue(queue[m])
      BY <1>2, <2>1 DEF Marked
    <3>. QED
      BY <2>1, <3>1 DEF Tidy, WritesOf, InQueue, Entry
  <2>3. /\ \A u \in WritesOf(node[m].pending) : req'[u].at = "sent"
        /\ \A u \in InQueue(queue[m]) : req'[u].at = "queued"
    BY <1>5, <2>1, <2>2 DEF Marked
  <2>4. CASE q(m) = queue[m]
    BY <2>1, <2>3, <2>4
  <2>5. CASE m = n /\ a = "queued"
    <3> DEFINE s == Append(queue[m], w)
    <3>1. /\ s \in Seq(Write) /\ DOMAIN s = DOMAIN queue[m] \cup {Len(queue[m]) + 1}
          /\ \A i \in DOMAIN queue[m] : s[i] = queue[m][i] /\ i # Len(queue[m]) + 1
          /\ s[Len(queue[m]) + 1] = w /\ Len(s) = Len(queue[m]) + 1
      BY <2>1
    <3> HIDE DEF s
    <3>2. InQueue(s) = InQueue(queue[m]) \cup {w}
      BY <3>1 DEF InQueue
    <3>3. \A i, j \in DOMAIN s : s[i] = s[j] => i = j
      <4>1. \A i \in DOMAIN queue[m] : s[i] # w
        BY <2>2, <3>1 DEF InQueue
      <4>2. \A i, j \in DOMAIN queue[m] : queue[m][i] = queue[m][j] => i = j
        BY <2>1 DEF Tidy
      <4>. QED
        BY <3>1, <4>1, <4>2
    <3>4. Tidy(m, node[m].pending, s)
      BY <2>1, <2>2, <2>5, <3>1, <3>2, <3>3 DEF Tidy
    <3>5. Len(s) <= QueueDepth
      BY <1>4, <2>1, <2>5, <3>1, DepthsAre
    <3>6. \A u \in InQueue(s) : req'[u].at = "queued"
      BY <1>5, <2>3, <2>5, <3>2
    <3>7. q(m) = s
      BY <2>5 DEF s
    <3>. QED
      BY <2>3, <3>4, <3>5, <3>6, <3>7
  <2>. QED
    BY <2>4, <2>5
<1> HIDE DEF q
<1>9. Kept' /\ Fits'
  BY <1>1, <1>2, <1>7, <1>8 DEF NodeInv, Kept, Marked, Tidy, Fits
<1>10. ReadInv'
  BY <1>2 DEF IInv, ReadInv
<1>. QED
  BY <1>1, <1>2, <1>5, <1>6, <1>7, <1>9, <1>10, IInvIs DEF NodeInv, IInv, Typed

LEMMA FaultsType ==
    ASSUME IInv, NEW ks \in SUBSET FaultKind, Faulted(ks)
    PROVE  faults' \in [count : Nat, kinds : SUBSET FaultKind]
<1>1. FaultKind = {} \cup {"toMaster"} \cup {"toSlave"} \cup {"window"} \cup {"bus"} \cup {"reboot"}
  BY DEF FaultKind
<1>2. IsFiniteSet(FaultKind)
  <2>1. IsFiniteSet({} \cup {"toMaster"})
    BY FS_EmptySet, OneElement
  <2>2. IsFiniteSet({} \cup {"toMaster"} \cup {"toSlave"})
    BY <2>1, OneElement
  <2>3. IsFiniteSet({} \cup {"toMaster"} \cup {"toSlave"} \cup {"window"})
    BY <2>2, OneElement
  <2>4. IsFiniteSet({} \cup {"toMaster"} \cup {"toSlave"} \cup {"window"} \cup {"bus"})
    BY <2>3, OneElement
  <2>5. IsFiniteSet({} \cup {"toMaster"} \cup {"toSlave"} \cup {"window"} \cup {"bus"}
                    \cup {"reboot"})
    BY <2>4, OneElement
  <2>. QED
    BY <1>1, <2>5
<1>3. IsFiniteSet(ks)
  BY <1>2, FS_Subset
<1>4. Cardinality(ks) \in Nat
  BY <1>3, FS_CardinalityType
<1>5. faults.count \in Nat /\ faults.kinds \in SUBSET FaultKind
  BY DEF IInv, Typed
<1>. QED
  BY <1>4, <1>5 DEF Faulted

LEMMA RebootStep ==
    ASSUME IInv, NEW n \in Node, Reboot(n)
    PROVE  IInv'
<1>1. NodeInv
  BY IInvIs
<1>2. /\ node' = [node EXCEPT ![n] = NodeInit(n)] /\ queue' = [queue EXCEPT ![n] = <<>>]
      /\ transfer' = IF n = "slave" THEN Armed ELSE transfer
      /\ Faulted({"reboot"})
  BY DEF Reboot
<1>3. \A w \in Write :
        req'[w] = IF Owner(w) = n /\ req[w].at \in {"checked", "queued", "sent"}
                  THEN [req[w] EXCEPT !.at = "gone"] ELSE req[w]
  BY DEF Reboot
<1>4. req \in [Write -> ReqType] /\ node \in [Node -> Fields] /\ queue \in [Node -> Seq(Write)]
  BY <1>1 DEF NodeInv
<1>5. req' \in [Write -> ReqType]
  <2> DEFINE h(w) == IF Owner(w) = n /\ req[w].at \in {"checked", "queued", "sent"}
                     THEN [req[w] EXCEPT !.at = "gone"] ELSE req[w]
  <2>1. \A w \in Write : h(w) \in ReqType
    BY <1>4 DEF ReqType
  <2>2. req' = [w \in Write |-> h(w)]
    BY DEF Reboot
  <2> HIDE DEF h
  <2>. QED
    BY <2>1, <2>2
<1>6. CompletedOnce'
  <2>1. \A w \in Write : req[w].done = IF req[w].at \in {"acked", "nacked"} THEN 1 ELSE 0
    BY <1>1 DEF NodeInv, CompletedOnce
  <2>2. \A w \in Write : req'[w].done = IF req'[w].at \in {"acked", "nacked"} THEN 1 ELSE 0
    BY <1>3, <1>4, <2>1 DEF ReqType
  <2>. QED
    BY <2>2 DEF CompletedOnce
<1>7. /\ node' \in [Node -> Fields] /\ queue' \in [Node -> Seq(Write)]
      /\ node'[n].pending = {} /\ DataFrames(node'[n]) = 0 /\ queue'[n] = <<>>
      /\ \A m \in Node : m # n => node'[m] = node[m] /\ queue'[m] = queue[m]
  BY <1>2, <1>4, NodeInitType
<1>8. ASSUME NEW m \in Node
      PROVE  /\ Tidy(m, node'[m].pending, queue'[m]) /\ Marked(m)'
             /\ Cardinality(node'[m].pending) <= PendingDepth
             /\ Len(queue'[m]) <= QueueDepth /\ DataFrames(node'[m]) <= SlotData
  <2>1. CASE m = n
    <3>1. Tidy(m, {}, <<>>) /\ node'[m].pending = {} /\ queue'[m] = <<>>
      BY <1>7, <2>1, NothingOpen
    <3>2. Marked(m)'
      BY <3>1, NothingOpen DEF Marked
    <3>3. /\ Cardinality(node'[m].pending) = 0 /\ Len(queue'[m]) = 0
          /\ DataFrames(node'[m]) = 0
      BY <1>7, <2>1, <3>1, NothingOpen
    <3>. QED
      BY <3>1, <3>2, <3>3, DepthsAre
  <2>2. CASE m # n
    <3>1. /\ Tidy(m, node[m].pending, queue[m]) /\ Marked(m)
          /\ Cardinality(node[m].pending) <= PendingDepth
          /\ Len(queue[m]) <= QueueDepth /\ DataFrames(node[m]) <= SlotData
      BY <1>1, NodeFacts
    <3>2. /\ WritesOf(node[m].pending) \cup InQueue(queue[m]) \subseteq Write
          /\ \A w \in WritesOf(node[m].pending) \cup InQueue(queue[m]) : Owner(w) = m
      BY <3>1 DEF Tidy, WritesOf, InQueue, Entry
    <3>3. \A w \in WritesOf(node[m].pending) \cup InQueue(queue[m]) : req'[w] = req[w]
      BY <1>3, <2>2, <3>2
    <3>4. Marked(m)'
      BY <1>7, <2>2, <3>1, <3>3 DEF Marked
    <3>. QED
      BY <1>7, <2>2, <3>1, <3>4
  <2>. QED
    BY <2>1, <2>2
<1>9. Kept' /\ Fits'
  BY <1>8 DEF Kept, Fits, Tidy
<1>10. ReadInv' /\ transfer' \in [got : Reading \cup {None}, sent : BOOLEAN]
  <2>1. CASE n = "slave"
    BY <1>2, <2>1 DEF Armed, ReadInv
  <2>2. CASE n # "slave"
    BY <1>2, <2>2 DEF IInv, Typed, ReadInv
  <2>. QED
    BY <2>1, <2>2
<1>11. {"reboot"} \in SUBSET FaultKind
  BY DEF FaultKind
<1>12. faults' \in [count : Nat, kinds : SUBSET FaultKind]
  BY <1>2, <1>11, FaultsType
<1>. QED
  BY <1>5, <1>6, <1>7, <1>9, <1>10, <1>12 DEF IInv, Typed

LEMMA ExpireStep ==
    ASSUME IInv, NEW n \in Node, Expire(n)
    PROVE  IInv'
<1>1. NodeInv
  BY IInvIs
<1>2. PICK e \in node[n].pending :
        /\ node' = [node EXCEPT ![n].pending = @ \ {e}]
        /\ req' = History({}, {e.write}, {}, {})
  BY DEF Expire
<1>3. UNCHANGED <<transfer, queue, faults>>
  BY DEF Expire
<1> DEFINE u == [node[n] EXCEPT !.pending = @ \ {e}]
           q == queue[n]
           es == node[n].pending \ {e}
<1>4. /\ node[n] \in Fields /\ q \in Seq(Write) /\ Tidy(n, node[n].pending, q)
      /\ Cardinality(node[n].pending) <= PendingDepth
      /\ Len(q) <= QueueDepth /\ DataFrames(node[n]) <= SlotData
  BY <1>1, NodeFacts
<1>5. u \in Fields /\ u.pending = es /\ DataFrames(u) <= SlotData
  BY <1>4 DEF Fields, DataFrames
<1>6. /\ IsFiniteSet(es) /\ Cardinality(es) <= PendingDepth
  <2>1. IsFiniteSet(node[n].pending) /\ es \in SUBSET node[n].pending
    BY <1>4 DEF Tidy
  <2>2. IsFiniteSet(es) /\ Cardinality(es) <= Cardinality(node[n].pending)
    BY <2>1, FS_Subset
  <2>3. Cardinality(es) \in Nat /\ Cardinality(node[n].pending) \in Nat
    BY <2>1, <2>2, FS_CardinalityType
  <2>. QED
    BY <1>4, <2>2, <2>3, DepthsAre
<1>7. /\ WritesOf(es) \subseteq WritesOf(node[n].pending) \ {e.write}
      /\ e.write \in WritesOf(node[n].pending)
  <2>1. \A g \in es : g.write # e.write
    BY <1>4 DEF Tidy
  <2>. QED
    BY <2>1 DEF WritesOf
<1>8. Tidy(n, u.pending, q)
  BY <1>4, <1>5, <1>6, <1>7 DEF Tidy
<1>9. node' = [node EXCEPT ![n] = u] /\ queue' = [queue EXCEPT ![n] = q]
  BY <1>1, <1>2, <1>3 DEF NodeInv
<1>10. InQueue(q) \subseteq InQueue(q) \ ({} \cup {} \cup {e.write})
  BY <1>4, <1>7 DEF Tidy
<1> DEFINE none == {}
           one == {e.write}
<1>11. /\ none \cap one = {}
       /\ none \cup one \subseteq WritesOf(node[n].pending) \cup InQueue(queue[n])
       /\ none \subseteq InQueue(queue[n])
       /\ WritesOf(u.pending) \subseteq (WritesOf(node[n].pending) \cup none) \ (none \cup one)
       /\ InQueue(q) \subseteq InQueue(queue[n]) \ (none \cup none \cup one)
       /\ req' = History(none, one, none, none)
  BY <1>2, <1>5, <1>7, <1>10
<1>12. Cardinality(u.pending) <= PendingDepth
  BY <1>5, <1>6
<1> HIDE DEF u, es, none, one, q
<1>13. Len(q) <= QueueDepth
  BY <1>4
<1>14. NodeInv'
  BY <1>1, <1>5, <1>8, <1>9, <1>11, <1>12, <1>13, Updating
<1>15. ReadInv' /\ transfer' = transfer /\ faults' = faults
  BY <1>3 DEF IInv, ReadInv
<1>. QED
  BY <1>14, <1>15 DEF NodeInv, IInv, Typed

(***************************************************************************)
(* The slave's step.                                                       *)
(***************************************************************************)
LEMMA SlaveStepStep ==
    ASSUME IInv, SlaveStep
    PROVE  IInv'
<1> DEFINE r == transfer.got
           before == node["slave"]
           left == queue["slave"]
<1>1. NodeInv /\ "slave" \in Node
  BY IInvIs, NodesAre
<1>2. r # None /\ transfer' = Armed /\ UNCHANGED faults
  BY DEF SlaveStep
<1>3. r \in Reading /\ (r.kind = "slot" => r.good <= Len(r.slot.frames))
  BY <1>2 DEF IInv, Typed, ReadInv
<1>4. PICK v \in {IF transfer.sent THEN markTxConsumed(before) ELSE before},
           refused \in SUBSET (IF r.kind = "slot" THEN DataOf(r.slot) ELSE {}) :
        \E p \in {IF r.kind = "slot" THEN parseRx("slave", v, r, refused)
                  ELSE [Parsed(v, FALSE) EXCEPT !.ok = r.kind = "none"]} :
        \E done \in {Settle(v, p, ~ p.ok \/ p.resynced, left)} :
           LET u == [(IF p.ok THEN p.node ELSE reset("slave", v)) EXCEPT !.pending = done.pending]
           IN  /\ node' = [node EXCEPT !["slave"] = finalizeTx(Processed(u, done.queue))]
               /\ queue' = [queue EXCEPT !["slave"] = Rest(u, done.queue)]
               /\ req' = History(done.acked, done.nacked, p.delivered, Taken(u, done.queue))
  BY DEF SlaveStep
<1>5. PICK p \in {IF r.kind = "slot" THEN parseRx("slave", v, r, refused)
                  ELSE [Parsed(v, FALSE) EXCEPT !.ok = r.kind = "none"]} :
        \E done \in {Settle(v, p, ~ p.ok \/ p.resynced, left)} :
           LET u == [(IF p.ok THEN p.node ELSE reset("slave", v)) EXCEPT !.pending = done.pending]
           IN  /\ node' = [node EXCEPT !["slave"] = finalizeTx(Processed(u, done.queue))]
               /\ queue' = [queue EXCEPT !["slave"] = Rest(u, done.queue)]
               /\ req' = History(done.acked, done.nacked, p.delivered, Taken(u, done.queue))
  BY <1>4
<1>6. PICK d : d = Settle(v, p, ~ p.ok \/ p.resynced, left) /\
           LET u == [(IF p.ok THEN p.node ELSE reset("slave", v)) EXCEPT !.pending = d.pending]
           IN  /\ node' = [node EXCEPT !["slave"] = finalizeTx(Processed(u, d.queue))]
               /\ queue' = [queue EXCEPT !["slave"] = Rest(u, d.queue)]
               /\ req' = History(d.acked, d.nacked, p.delivered, Taken(u, d.queue))
  BY <1>5
<1> DEFINE x == IF p.ok THEN p.node ELSE reset("slave", v)
           u == [x EXCEPT !.pending = d.pending]
           y == Processed(u, d.queue)
           z == finalizeTx(y)
           rest == Rest(u, d.queue)
           taken == Taken(u, d.queue)
<1>7. /\ node' = [node EXCEPT !["slave"] = z] /\ queue' = [queue EXCEPT !["slave"] = rest]
      /\ req' = History(d.acked, d.nacked, p.delivered, taken)
  BY <1>6
<1>8. /\ before \in Fields /\ left \in Seq(Write) /\ Tidy("slave", before.pending, left)
      /\ Cardinality(before.pending) <= PendingDepth
      /\ Len(left) <= QueueDepth /\ DataFrames(before) <= SlotData
  BY <1>1, NodeFacts
<1>9. \A a : Like(a, before, {}) => DataFrames(a) <= SlotData
  <2>1. Cardinality({}) = 0 /\ 0 <= SlotData
    BY FS_EmptySet, DepthsAre
  <2>. QED
    BY <2>1 DEF Like, DataFrames
<1>10. v \in Fields /\ v.pending = before.pending /\ DataFrames(v) <= SlotData
  <2>1. Like(markTxConsumed(before), before, {})
    BY <1>8, ConsumedType
  <2>. QED
    BY <1>4, <1>8, <1>9, <2>1 DEF Like
<1>11. /\ p.node \in Fields /\ p.node.pending = before.pending /\ DataFrames(p.node) <= SlotData
       /\ p.ok \in BOOLEAN /\ p.resynced \in BOOLEAN
  <2>1. CASE r.kind = "slot"
    <3>1. Of(parseRx("slave", v, r, refused), v)
      BY <1>1, <1>3, <1>10, <2>1, ParseRxOf
    <3>2. p = parseRx("slave", v, r, refused)
      BY <1>5, <2>1
    <3>3. p \in ParsedType /\ Like(p.node, v, {})
      BY <3>1, <3>2 DEF Of
    <3>4. Like(p.node, before, {})
      BY <1>10, <3>3 DEF Like
    <3>. QED
      BY <1>9, <3>3, <3>4 DEF ParsedType, Like
  <2>2. CASE r.kind # "slot"
    <3>1. p = [Parsed(v, FALSE) EXCEPT !.ok = r.kind = "none"]
      BY <1>5, <2>2
    <3>2. p.node = v /\ p.ok \in BOOLEAN /\ p.resynced = FALSE
      BY <3>1 DEF Parsed
    <3>. QED
      BY <1>10, <3>2
  <2>. QED
    BY <2>1, <2>2
<1>12. x \in Fields /\ DataFrames(x) <= SlotData
  <2>1. Like(reset("slave", v), before, {})
    BY <1>1, <1>10, ResetType DEF Like
  <2>2. reset("slave", v) \in Fields /\ DataFrames(reset("slave", v)) <= SlotData
    BY <1>9, <2>1 DEF Like
  <2>. QED
    BY <1>11, <2>2
<1>13. /\ Tidy("slave", d.pending, d.queue) /\ d.pending \subseteq before.pending
       /\ d.acked \cap d.nacked = {}
       /\ d.acked \cup d.nacked \subseteq WritesOf(before.pending) \cup InQueue(left)
       /\ WritesOf(d.pending) \subseteq WritesOf(before.pending) \ (d.acked \cup d.nacked)
       /\ InQueue(d.queue) \subseteq InQueue(left) \ (d.acked \cup d.nacked)
       /\ d.queue \in {left, <<>>}
  <2> DEFINE failed == ~ p.ok \/ p.resynced
  <2>1. failed \in BOOLEAN /\ Tidy("slave", v.pending, left) /\ d = Settle(v, p, failed, left)
    BY <1>6, <1>8, <1>10, <1>11
  <2> HIDE DEF failed, left, before
  <2>2. Settled("slave", v.pending, left, d)
    BY <2>1, Settling
  <2>. QED
    BY <1>10, <2>2 DEF Settled
<1>14. /\ Cardinality(d.pending) <= PendingDepth /\ Len(d.queue) <= QueueDepth
  <2>1. IsFiniteSet(before.pending) /\ d.pending \in SUBSET before.pending
    BY <1>8, <1>13 DEF Tidy
  <2>2. /\ IsFiniteSet(d.pending) /\ Cardinality(d.pending) <= Cardinality(before.pending)
    BY <2>1, FS_Subset
  <2>3. Cardinality(d.pending) \in Nat /\ Cardinality(before.pending) \in Nat
    BY <2>1, <2>2, FS_CardinalityType
  <2>4. Len(d.queue) <= QueueDepth
    BY <1>8, <1>13, NothingOpen, DepthsAre
  <2>. QED
    BY <1>8, <2>2, <2>3, <2>4, DepthsAre
<1> HIDE DEF r, before, left, x
<1>15. u \in Fields /\ u.pending = d.pending /\ DataFrames(u) <= SlotData
  <2>1. d.pending \in SUBSET Entry
    BY <1>13 DEF Tidy
  <2>. QED
    BY <1>12, <2>1 DEF Fields, DataFrames
<1> HIDE DEF u
<1>16. /\ y \in Fields /\ Tidy("slave", y.pending, rest)
       /\ WritesOf(y.pending) = WritesOf(d.pending) \cup taken
       /\ taken \subseteq InQueue(d.queue) /\ InQueue(rest) = InQueue(d.queue) \ taken
       /\ Cardinality(y.pending) <= PendingDepth /\ DataFrames(y) <= SlotData
       /\ Len(rest) <= Len(d.queue)
  BY <1>13, <1>14, <1>15, Processing
<1> HIDE DEF y, rest, taken
<1>17. z \in Fields /\ z.pending = y.pending /\ DataFrames(z) <= SlotData
  BY <1>16, FinalizeType DEF Like, DataFrames
<1> HIDE DEF z
<1>18. Len(rest) <= QueueDepth
  <2>1. Len(rest) \in Nat /\ Len(d.queue) \in Nat
    BY <1>13, <1>16 DEF Tidy
  <2>. QED
    BY <1>14, <1>16, <2>1, DepthsAre
<1>19. /\ Tidy("slave", z.pending, rest) /\ Cardinality(z.pending) <= PendingDepth
       /\ taken \subseteq InQueue(left)
       /\ WritesOf(z.pending) \subseteq (WritesOf(before.pending) \cup taken) \ (d.acked \cup d.nacked)
       /\ InQueue(rest) \subseteq InQueue(left) \ (taken \cup d.acked \cup d.nacked)
  BY <1>13, <1>16, <1>17
<1>20. NodeInv'
  BY <1>1, <1>7, <1>13, <1>17, <1>18, <1>19, Updating DEF before, left
<1>21. ReadInv' /\ transfer' \in [got : Reading \cup {None}, sent : BOOLEAN]
  BY <1>2 DEF Armed, ReadInv
<1>22. faults' \in [count : Nat, kinds : SUBSET FaultKind]
  BY <1>2 DEF IInv, Typed
<1>. QED
  BY <1>20, <1>21, <1>22, IInvIs DEF NodeInv, IInv, Typed

(***************************************************************************)
(* A turn of the master.                                                   *)
(***************************************************************************)

\* The node and the queue before the answers: the writes in Moving have changed
\* from the queue to the table.
LEMMA Preparing ==
    ASSUME NodeInv
    PROVE  /\ Prepared \in Fields /\ Tidy("master", Prepared.pending, Left)
           /\ WritesOf(Prepared.pending) = WritesOf(node["master"].pending) \cup Moving
           /\ Moving \subseteq InQueue(queue["master"])
           /\ InQueue(Left) = InQueue(queue["master"]) \ Moving
           /\ Cardinality(Prepared.pending) <= PendingDepth
           /\ DataFrames(Prepared) <= SlotData /\ Len(Left) <= QueueDepth
<1> DEFINE v == node["master"]
           q == queue["master"]
           u == Processed(v, Waiting)
           rest == Rest(v, Waiting)
<1>1. /\ v \in Fields /\ q \in Seq(Write) /\ Tidy("master", v.pending, q)
      /\ Cardinality(v.pending) <= PendingDepth
      /\ Len(q) <= QueueDepth /\ DataFrames(v) <= SlotData
  BY NodesAre, NodeFacts
<1>2. Tidy("master", v.pending, Waiting) /\ Waiting \in {q, <<>>}
  <2>1. Tidy("master", v.pending, <<>>)
    BY <1>1, NothingOpen DEF Tidy
  <2>. QED
    BY <1>1, <2>1 DEF Waiting
<1>3. Moving = Taken(v, Waiting) /\ Prepared = finalizeTx(u)
  BY DEF Moving, Prepared
<1> HIDE DEF v, q
<1>4. /\ u \in Fields /\ Tidy("master", u.pending, rest)
      /\ WritesOf(u.pending) = WritesOf(v.pending) \cup Moving
      /\ Moving \subseteq InQueue(Waiting) /\ InQueue(rest) = InQueue(Waiting) \ Moving
      /\ Cardinality(u.pending) <= PendingDepth /\ DataFrames(u) <= SlotData
      /\ Len(rest) <= Len(Waiting)
  BY <1>1, <1>2, <1>3, Processing
<1> HIDE DEF u, rest
<1>5. /\ Prepared \in Fields /\ Prepared.pending = u.pending
      /\ DataFrames(Prepared) <= SlotData
  BY <1>3, <1>4, FinalizeType DEF Like, DataFrames
<1>6. /\ Tidy("master", u.pending, Left) /\ Moving \subseteq InQueue(q)
      /\ InQueue(Left) = InQueue(q) \ Moving /\ Len(Left) <= QueueDepth
  <2>1. CASE ready(v)
    <3>1. Waiting = q /\ Left = rest
      BY <2>1 DEF Waiting, Left, v, q, rest
    <3>2. Len(rest) <= QueueDepth
      <4>1. Len(rest) \in Nat /\ Len(q) \in Nat
        BY <1>1, <1>4 DEF Tidy
      <4>. QED
        BY <1>1, <1>4, <3>1, <4>1, DepthsAre
    <3>. QED
      BY <1>4, <3>1, <3>2
  <2>2. CASE ~ ready(v)
    <3>1. Waiting = <<>> /\ Left = q
      BY <2>2 DEF Waiting, Left, v, q
    <3>2. Moving = {}
      BY <1>4, <3>1, NothingOpen
    <3>3. Tidy("master", u.pending, q)
      BY <1>1, <1>4, <3>2 DEF Tidy
    <3>. QED
      BY <1>1, <3>1, <3>2, <3>3
  <2>. QED
    BY <2>1, <2>2
<1>. QED
  BY <1>4, <1>5, <1>6 DEF v, q

LEMMA NoSlotStep ==
    ASSUME NodeInv, NoSlot
    PROVE  NodeInv'
<1> DEFINE none == {}
           u == Prepared
           q == Left
           sent == Moving
<1>1. /\ node' = [node EXCEPT !["master"] = u] /\ queue' = [queue EXCEPT !["master"] = q]
      /\ req' = History(none, none, none, sent)
  BY DEF NoSlot
<1>2. /\ u \in Fields /\ Tidy("master", u.pending, q)
      /\ WritesOf(u.pending) = WritesOf(node["master"].pending) \cup sent
      /\ sent \subseteq InQueue(queue["master"])
      /\ InQueue(q) = InQueue(queue["master"]) \ sent
      /\ Cardinality(u.pending) <= PendingDepth
      /\ DataFrames(u) <= SlotData /\ Len(q) <= QueueDepth
  BY Preparing
<1> HIDE DEF u, q, sent
<1>3. /\ none \cap none = {}
      /\ none \cup none \subseteq WritesOf(node["master"].pending) \cup InQueue(queue["master"])
      /\ WritesOf(u.pending)
           \subseteq (WritesOf(node["master"].pending) \cup sent) \ (none \cup none)
      /\ InQueue(q) \subseteq InQueue(queue["master"]) \ (sent \cup none \cup none)
  BY <1>2
<1> HIDE DEF none
<1>. QED
  BY <1>1, <1>2, <1>3, NodesAre, Updating

LEMMA SlotStep ==
    ASSUME NodeInv, NEW r \in Reading, r.kind = "slot" => r.good <= Len(r.slot.frames), Slot(r)
    PROVE  NodeInv'
<1>1. PICK v \in {markTxConsumed(Prepared)},
           refused \in SUBSET (IF r.kind = "slot" THEN DataOf(r.slot) ELSE {}) :
        \E p \in {IF r.kind = "slot" THEN parseRx("master", v, r, refused)
                  ELSE [Parsed(v, FALSE) EXCEPT !.ok = FALSE]} :
        \E done \in {Settle(v, p, p.ok /\ p.resynced, Left)} :
            LET u == [(IF p.ok THEN p.node ELSE beginSlot(p.node)) EXCEPT
                         !.pending = done.pending,
                         !.listening = ready(p.node) /\ (p.ok \/ (@ /\ ~ p.resynced))]
            IN  /\ node' = [node EXCEPT !["master"] = Greeting(u)]
                /\ queue' = [queue EXCEPT !["master"] = done.queue]
                /\ req' = History(done.acked, done.nacked, p.delivered, Moving)
  BY DEF Slot
<1>2. PICK p \in {IF r.kind = "slot" THEN parseRx("master", v, r, refused)
                  ELSE [Parsed(v, FALSE) EXCEPT !.ok = FALSE]} :
        \E done \in {Settle(v, p, p.ok /\ p.resynced, Left)} :
            LET u == [(IF p.ok THEN p.node ELSE beginSlot(p.node)) EXCEPT
                         !.pending = done.pending,
                         !.listening = ready(p.node) /\ (p.ok \/ (@ /\ ~ p.resynced))]
            IN  /\ node' = [node EXCEPT !["master"] = Greeting(u)]
                /\ queue' = [queue EXCEPT !["master"] = done.queue]
                /\ req' = History(done.acked, done.nacked, p.delivered, Moving)
  BY <1>1
<1>3. PICK d : d = Settle(v, p, p.ok /\ p.resynced, Left) /\
            LET u == [(IF p.ok THEN p.node ELSE beginSlot(p.node)) EXCEPT
                         !.pending = d.pending,
                         !.listening = ready(p.node) /\ (p.ok \/ (@ /\ ~ p.resynced))]
            IN  /\ node' = [node EXCEPT !["master"] = Greeting(u)]
                /\ queue' = [queue EXCEPT !["master"] = d.queue]
                /\ req' = History(d.acked, d.nacked, p.delivered, Moving)
  BY <1>2
<1> DEFINE x == IF p.ok THEN p.node ELSE beginSlot(p.node)
           u == [x EXCEPT !.pending = d.pending,
                          !.listening = ready(p.node) /\ (p.ok \/ (@ /\ ~ p.resynced))]
           z == Greeting(u)
           es == node["master"].pending
           q == queue["master"]
<1>4. /\ node' = [node EXCEPT !["master"] = z] /\ queue' = [queue EXCEPT !["master"] = d.queue]
      /\ req' = History(d.acked, d.nacked, p.delivered, Moving)
  BY <1>3
<1>5. /\ Prepared \in Fields /\ Tidy("master", Prepared.pending, Left)
      /\ WritesOf(Prepared.pending) = WritesOf(es) \cup Moving
      /\ Moving \subseteq InQueue(q) /\ InQueue(Left) = InQueue(q) \ Moving
      /\ Cardinality(Prepared.pending) <= PendingDepth /\ Len(Left) <= QueueDepth
  BY Preparing
<1>6. Like(v, Prepared, {})
  BY <1>1, <1>5, ConsumedType
<1>7. v \in Fields /\ v.pending = Prepared.pending
  BY <1>6 DEF Like
<1>8. Like(p.node, v, {}) /\ p.ok \in BOOLEAN /\ p.resynced \in BOOLEAN
  <2>1. CASE r.kind = "slot"
    <3>1. Of(parseRx("master", v, r, refused), v)
      BY <1>7, <2>1, NodesAre, ParseRxOf
    <3>2. p = parseRx("master", v, r, refused)
      BY <1>2, <2>1
    <3>3. p \in ParsedType /\ Like(p.node, v, {})
      BY <3>1, <3>2 DEF Of
    <3>. QED
      BY <3>3 DEF ParsedType
  <2>2. CASE r.kind # "slot"
    <3>1. p = [Parsed(v, FALSE) EXCEPT !.ok = FALSE]
      BY <1>2, <2>2
    <3>2. p.node = v /\ p.ok = FALSE /\ p.resynced = FALSE
      BY <3>1 DEF Parsed
    <3>. QED
      BY <1>6, <1>7, <3>2 DEF Like
  <2>. QED
    BY <2>1, <2>2
<1>9. x \in Fields /\ DataOf(x.tx) = {}
  <2>1. Like(beginSlot(p.node), p.node, {})
    BY <1>8, BeginType DEF Like
  <2>. QED
    BY <1>8, <2>1 DEF Like
<1>10. Settled("master", v.pending, Left, d)
  <2> DEFINE failed == p.ok /\ p.resynced
  <2>1. failed \in BOOLEAN /\ Tidy("master", v.pending, Left) /\ d = Settle(v, p, failed, Left)
    BY <1>3, <1>5, <1>7, <1>8
  <2> HIDE DEF failed
  <2>. QED
    BY <2>1, Settling
<1>11. u \in Fields /\ u.pending = d.pending /\ DataOf(u.tx) = {}
  <2>1. d.pending \in SUBSET Entry
    BY <1>10 DEF Settled, Tidy
  <2> DEFINE b == ready(p.node) /\ (p.ok \/ (x.listening /\ ~ p.resynced))
  <2>2. b \in BOOLEAN
    OBVIOUS
  <2>3. u = [x EXCEPT !.pending = d.pending, !.listening = b]
    BY <1>9 DEF Fields
  <2> HIDE DEF x, b, u
  <2>. QED
    BY <1>9, <2>1, <2>2, <2>3 DEF Fields
<1> HIDE DEF x, u
<1>12. z \in Fields /\ z.pending = d.pending /\ DataFrames(z) <= SlotData
  <2>1. Like(queueHello(u), u, {})
    BY <1>11, QueueHelloType
  <2>2. z \in Fields /\ z.pending = d.pending /\ DataOf(z.tx) = {}
    BY <1>11, <2>1 DEF Greeting, Like
  <2>3. Cardinality({}) = 0 /\ 0 <= SlotData
    BY FS_EmptySet, DepthsAre
  <2>. QED
    BY <2>2, <2>3 DEF DataFrames
<1> HIDE DEF z
<1>13. Cardinality(z.pending) <= PendingDepth /\ Len(d.queue) <= QueueDepth
  <2>1. IsFiniteSet(v.pending) /\ d.pending \in SUBSET v.pending
    BY <1>5, <1>7, <1>10 DEF Tidy, Settled
  <2>2. /\ IsFiniteSet(d.pending) /\ Cardinality(d.pending) <= Cardinality(v.pending)
    BY <2>1, FS_Subset
  <2>3. Cardinality(d.pending) \in Nat /\ Cardinality(v.pending) \in Nat
    BY <2>1, <2>2, FS_CardinalityType
  <2>4. Cardinality(v.pending) <= PendingDepth
    BY <1>5, <1>7
  <2>5. Cardinality(z.pending) <= PendingDepth
    BY <1>12, <2>2, <2>3, <2>4, DepthsAre
  <2>6. Len(d.queue) <= QueueDepth
    BY <1>5, <1>10, NothingOpen, DepthsAre DEF Settled
  <2>. QED
    BY <2>5, <2>6
<1> DEFINE sent == Moving
<1> HIDE DEF es, q, sent
<1>14. /\ Tidy("master", z.pending, d.queue) /\ d.acked \cap d.nacked = {}
       /\ d.acked \cup d.nacked \subseteq WritesOf(es) \cup InQueue(q)
       /\ sent \subseteq InQueue(q)
       /\ WritesOf(z.pending) \subseteq (WritesOf(es) \cup sent) \ (d.acked \cup d.nacked)
       /\ InQueue(d.queue) \subseteq InQueue(q) \ (sent \cup d.acked \cup d.nacked)
  BY <1>5, <1>7, <1>10, <1>12 DEF Settled, sent
<1>15. req' = History(d.acked, d.nacked, p.delivered, sent)
  BY <1>4 DEF sent
<1>. QED
  BY <1>4, <1>12, <1>13, <1>14, <1>15, NodesAre, Updating DEF es, q

LEMMA HeardType ==
    ASSUME NEW k, NEW slot \in Slots, NEW r \in Heard(k, slot)
    PROVE  r \in Reading /\ r.good <= Len(r.slot.frames)
<1>1. slot.frames \in Seq(Frames) /\ Len(slot.frames) \in Nat
  BY DEF Slots
<1>2. ASSUME NEW kind \in {"slot", "invalid", "none"}, NEW g \in Nat, g <= Len(slot.frames)
      PROVE  /\ Read(kind, slot, g) \in Reading
             /\ Read(kind, slot, g).good <= Len(Read(kind, slot, g).slot.frames)
  BY <1>2 DEF Read, Reading
<1>3. \/ r = Read("slot", slot, Len(slot.frames))
      \/ \E kind \in {"invalid", "none"} : r = Read(kind, slot, 0)
      \/ \E g \in 0 .. Len(slot.frames) - 1 : r = Read("slot", slot, g)
  BY DEF Heard, Intact, Noisy
<1>4. CASE r = Read("slot", slot, Len(slot.frames))
  BY <1>1, <1>2, <1>4
<1>5. CASE \E kind \in {"invalid", "none"} : r = Read(kind, slot, 0)
  BY <1>1, <1>2, <1>5
<1>6. CASE \E g \in 0 .. Len(slot.frames) - 1 : r = Read("slot", slot, g)
  <2>1. PICK g \in 0 .. Len(slot.frames) - 1 : r = Read("slot", slot, g)
    BY <1>6
  <2>2. g \in Nat /\ g <= Len(slot.frames)
    BY <1>1
  <2>. QED
    BY <1>2, <2>1, <2>2
<1>. QED
  BY <1>3, <1>4, <1>5, <1>6

LEMMA MasterTurnStep ==
    ASSUME IInv, MasterTurn
    PROVE  IInv'
<1> DEFINE in == node["slave"].tx
<1>1. NodeInv
  BY IInvIs
<1>2. CASE transfer.got # None
  <2>1. NoSlot /\ UNCHANGED <<transfer, faults>>
    BY <1>2 DEF MasterTurn
  <2>2. NodeInv'
    BY <1>1, <2>1, NoSlotStep
  <2>. QED
    BY <2>1, <2>2 DEF NodeInv, IInv, Typed, ReadInv
<1>3. CASE transfer.got = None
  <2>1. PICK out \in {Prepared.tx} : \E fits \in {TRUE} \cup (IF Cut THEN {FALSE} ELSE {}) :
            \E atSlave \in Heard("toSlave", out), atMaster \in Heard("toMaster", in) :
              LET ks == (IF atSlave = Intact(out) THEN {} ELSE {"toSlave"})
                        \cup (IF atMaster = Intact(in) THEN {} ELSE {"toMaster"})
                        \cup (IF fits \/ ~ ready(node["master"]) THEN {} ELSE {"window"})
              IN  /\ faults.count + Cardinality(ks) <= MaxFaults /\ Faulted(ks)
                  /\ transfer' = [got |-> atSlave, sent |-> fits]
                  /\ IF atMaster.kind = "none" THEN NoSlot
                     ELSE Slot(IF fits THEN atMaster ELSE Read("invalid", in, 0))
    BY <1>3 DEF MasterTurn
  <2>2. PICK fits \in {TRUE} \cup (IF Cut THEN {FALSE} ELSE {}) :
            \E atSlave \in Heard("toSlave", out), atMaster \in Heard("toMaster", in) :
              LET ks == (IF atSlave = Intact(out) THEN {} ELSE {"toSlave"})
                        \cup (IF atMaster = Intact(in) THEN {} ELSE {"toMaster"})
                        \cup (IF fits \/ ~ ready(node["master"]) THEN {} ELSE {"window"})
              IN  /\ faults.count + Cardinality(ks) <= MaxFaults /\ Faulted(ks)
                  /\ transfer' = [got |-> atSlave, sent |-> fits]
                  /\ IF atMaster.kind = "none" THEN NoSlot
                     ELSE Slot(IF fits THEN atMaster ELSE Read("invalid", in, 0))
    BY <2>1
  <2>3. PICK atSlave \in Heard("toSlave", out), atMaster \in Heard("toMaster", in) :
              LET ks == (IF atSlave = Intact(out) THEN {} ELSE {"toSlave"})
                        \cup (IF atMaster = Intact(in) THEN {} ELSE {"toMaster"})
                        \cup (IF fits \/ ~ ready(node["master"]) THEN {} ELSE {"window"})
              IN  /\ faults.count + Cardinality(ks) <= MaxFaults /\ Faulted(ks)
                  /\ transfer' = [got |-> atSlave, sent |-> fits]
                  /\ IF atMaster.kind = "none" THEN NoSlot
                     ELSE Slot(IF fits THEN atMaster ELSE Read("invalid", in, 0))
    BY <2>2
  <2> DEFINE ks == (IF atSlave = Intact(out) THEN {} ELSE {"toSlave"})
                   \cup (IF atMaster = Intact(in) THEN {} ELSE {"toMaster"})
                   \cup (IF fits \/ ~ ready(node["master"]) THEN {} ELSE {"window"})
             r == IF fits THEN atMaster ELSE Read("invalid", in, 0)
  <2>4. /\ Faulted(ks) /\ transfer' = [got |-> atSlave, sent |-> fits]
        /\ IF atMaster.kind = "none" THEN NoSlot ELSE Slot(r)
    BY <2>3
  <2>5. out \in Slots /\ in \in Slots
    BY <1>1, <2>1, NodesAre, NodeFacts, Preparing, FieldsOf
  <2>6. /\ atSlave \in Reading /\ atSlave.good <= Len(atSlave.slot.frames)
        /\ atMaster \in Reading /\ atMaster.good <= Len(atMaster.slot.frames)
        /\ fits \in BOOLEAN
    BY <2>2, <2>5, HeardType
  <2>7. r \in Reading /\ (r.kind = "slot" => r.good <= Len(r.slot.frames))
    <3>1. Read("invalid", in, 0) \in Reading /\ Read("invalid", in, 0).kind = "invalid"
      BY <2>5 DEF Read, Reading
    <3>. QED
      BY <2>6, <3>1
  <2>8. ks \in SUBSET FaultKind
    BY DEF FaultKind
  <2> HIDE DEF ks, r, in
  <2>9. NodeInv'
    BY <1>1, <2>4, <2>7, NoSlotStep, SlotStep
  <2>10. faults' \in [count : Nat, kinds : SUBSET FaultKind]
    BY <2>4, <2>8, FaultsType
  <2>11. transfer' \in [got : Reading \cup {None}, sent : BOOLEAN] /\ ReadInv'
    BY <2>4, <2>6 DEF ReadInv
  <2>. QED
    BY <2>9, <2>10, <2>11 DEF NodeInv, IInv, Typed
<1>. QED
  BY <1>2, <1>3

LEMMA TransferFailsStep ==
    ASSUME IInv, TransferFails
    PROVE  IInv'
<1>1. NodeInv
  BY IInvIs
<1>2. Faulted({"bus"}) /\ UNCHANGED transfer
  BY DEF TransferFails
<1>3. NodeInv'
  <2>1. CASE ~ ready(node["master"])
    <3>1. NoSlot
      BY <2>1 DEF TransferFails
    <3>. QED
      BY <1>1, <3>1, NoSlotStep
  <2>2. CASE ready(node["master"])
    <3> DEFINE v == Prepared
               d == Settle(v, Parsed(v, FALSE), TRUE, Left)
               x == [reset("master", v) EXCEPT !.pending = {}, !.listening = FALSE]
               u == queueHello(x)
               es == node["master"].pending
               q == queue["master"]
               none == {}
               nacked == d.nacked
    <3>1. /\ node' = [node EXCEPT !["master"] = u] /\ queue' = [queue EXCEPT !["master"] = <<>>]
          /\ req' = History(none, nacked, none, none)
      BY <2>2 DEF TransferFails
    <3>2. /\ v \in Fields /\ Tidy("master", v.pending, Left)
          /\ WritesOf(v.pending) = WritesOf(es) \cup Moving
          /\ Moving \subseteq InQueue(q) /\ InQueue(Left) = InQueue(q) \ Moving
      BY <1>1, Preparing
    <3> HIDE DEF v, es, q
    <3>3. Settled("master", v.pending, Left, d)
      <4> HIDE DEF d
      <4>1. d = Settle(v, Parsed(v, FALSE), TRUE, Left)
        BY DEF d
      <4>. QED
        BY <3>2, <4>1, Settling
    <3> HIDE DEF d
    <3>4. u \in Fields /\ u.pending = {} /\ DataOf(u.tx) = {}
      <4>1. Like(reset("master", v), v, {})
        BY <3>2, NodesAre, ResetType
      <4>2. x \in Fields /\ x.pending = {}
        BY <4>1 DEF Like, Fields
      <4> HIDE DEF x
      <4>. QED
        BY <4>2, QueueHelloType DEF Like
    <3> HIDE DEF u
    <3>5. /\ Tidy("master", u.pending, <<>>) /\ Cardinality(u.pending) <= PendingDepth
          /\ Len(<<>>) <= QueueDepth /\ DataFrames(u) <= SlotData
      BY <3>4, NothingOpen, DepthsAre DEF DataFrames
    <3>6. /\ none \cap nacked = {} /\ none \subseteq InQueue(q)
          /\ none \cup nacked \subseteq WritesOf(es) \cup InQueue(q)
          /\ WritesOf(u.pending) \subseteq (WritesOf(es) \cup none) \ (none \cup nacked)
          /\ InQueue(<<>>) \subseteq InQueue(q) \ (none \cup none \cup nacked)
      <4>1. nacked \subseteq WritesOf(es) \cup InQueue(q)
        BY <3>2, <3>3 DEF Settled
      <4>. QED
        BY <3>4, <4>1, NothingOpen
    <3> HIDE DEF none, nacked
    <3>. QED
      BY <1>1, <3>1, <3>4, <3>5, <3>6, NodesAre, Updating DEF es, q
  <2>. QED
    BY <2>1, <2>2
<1>4. {"bus"} \in SUBSET FaultKind
  BY DEF FaultKind
<1>5. faults' \in [count : Nat, kinds : SUBSET FaultKind]
  BY <1>2, <1>4, FaultsType
<1>6. ReadInv' /\ transfer' \in [got : Reading \cup {None}, sent : BOOLEAN]
  BY <1>2 DEF IInv, Typed, ReadInv
<1>. QED
  BY <1>3, <1>5, <1>6 DEF NodeInv, IInv, Typed

(***************************************************************************)
(* The theorems.                                                           *)
(***************************************************************************)
LEMMA StepInv == IInv /\ [Next]_vars => IInv'
<1> SUFFICES ASSUME IInv, [Next]_vars PROVE IInv'
  OBVIOUS
<1>1. ASSUME NEW w \in Write, Check(w) PROVE IInv'
  BY <1>1, CheckStep
<1>2. ASSUME NEW w \in Write, Enqueue(w) PROVE IInv'
  BY <1>2, EnqueueStep
<1>3. ASSUME NEW n \in Node, Expire(n) PROVE IInv'
  BY <1>3, ExpireStep
<1>4. ASSUME NEW n \in Node, Reboot(n) PROVE IInv'
  BY <1>4, RebootStep
<1>5. CASE MasterTurn
  BY <1>5, MasterTurnStep
<1>6. CASE SlaveStep
  BY <1>6, SlaveStepStep
<1>7. CASE TransferFails
  BY <1>7, TransferFailsStep
<1>8. CASE UNCHANGED vars
  BY <1>8 DEF vars, IInv, Typed, Fits, ReadInv, Kept, Tidy, Marked, CompletedOnce, DataFrames
<1>. QED
  BY <1>1, <1>2, <1>3, <1>4, <1>5, <1>6, <1>7, <1>8 DEF Next

\* In every reachable state an open write is in one place, its owner's queue or
\* one entry of its owner's table, and has not been completed.
THEOREM Inductive == Spec => []IInv
<1>. QED
  BY InitInv, StepInv, PTL DEF Spec

\* The fields of both ends, the transfer, the queues and the histories keep
\* their types; the table of unacknowledged writes, the queue and the slot never
\* hold more than they have room for (pendingWriteDepth, txQueueDepth and
\* maxOutboundSlotBytes).
THEOREM TypeCorrect == Spec => []TypeOK
<1>1. IInv => TypeOK
  BY TypeOKIs DEF IInv
<1>. QED
  BY <1>1, Inductive, PTL

\* No write is completed twice, and none that is acknowledged or failed lacks
\* its completion, whatever answers, timeouts, resynchronising hellos, link
\* resets, full queues and restarts follow each other.
THEOREM Completes == Spec => []CompletedOnce
<1>1. IInv => CompletedOnce
  BY DEF IInv
<1>. QED
  BY <1>1, Inductive, PTL

(***************************************************************************)
(* Slots: what a node's operators do to the slot it has to send, to the    *)
(* number it expects and to the acknowledgement it owes.                   *)
(***************************************************************************)
NoHello(frames) == \A i \in DOMAIN frames : frames[i].type # "Hello"
JustHello(frames) == Len(frames) = 1 /\ frames[1].type = "Hello"

\* The node has an acknowledgement to send, or sent one.
Acking(v) == v.ackDue # 0 \/ v.ackSent # 0 \/ v.tx.ack # NoAck

\* u expects the slot that v expects and acknowledges no more than v.
Heir(u, v) == u.expected = v.expected /\ (Acking(u) => Acking(v))

Empty(slot) == slot.frames = <<>> /\ slot.hello = FALSE /\ slot.ack = NoAck

LEMMA BeginSlot ==
    ASSUME NEW v \in Fields
    PROVE  /\ Heir(beginSlot(v), v) /\ beginSlot(v).state = v.state
           /\ Empty(beginSlot(v).tx)
<1> DEFINE b == BlankSlot(v.slotSeq)
           s == (v.slotSeq + 1) % SlotMod
<1>1. b.frames = <<>> /\ b.hello = FALSE /\ b.ack = NoAck
  BY DEF BlankSlot
<1>2. beginSlot(v) = [v EXCEPT !.tx = b, !.slotSeq = s]
  BY DEF beginSlot
<1> HIDE DEF b, s
<1>. QED
  BY <1>1, <1>2 DEF Heir, Acking, Empty, Fields

LEMMA ResetSlot ==
    ASSUME NEW v \in Fields, NEW n \in Node
    PROVE  /\ ~ Acking(reset(n, v)) /\ reset(n, v).state = "Initial"
           /\ Empty(reset(n, v).tx)
<1> DEFINE s == IF n = "master" THEN v.slotSeq ELSE 1
           u == [v EXCEPT !.state = "Initial", !.frameSeq = 1, !.expected = 1,
                          !.slotSeq = s, !.ackDue = 0, !.ackSent = 0]
<1>1. s \in SlotNo
  BY Numbers, FieldsOf
<1>2. u \in Fields /\ u.state = "Initial" /\ u.ackDue = 0 /\ u.ackSent = 0
  <2> HIDE DEF s
  <2>. QED
    BY <1>1, Numbers DEF Fields
<1>3. reset(n, v) = beginSlot(u)
  BY DEF reset, Fields
<1>4. beginSlot(u).ackDue = u.ackDue /\ beginSlot(u).ackSent = u.ackSent
  <2> HIDE DEF u
  <2>. QED
    BY <1>2 DEF beginSlot, Fields
<1> HIDE DEF u
<1>. QED
  BY <1>2, <1>3, <1>4, BeginSlot DEF Empty, Acking

LEMMA AppendSlot ==
    ASSUME NEW v \in Fields, NEW type \in {"Hello", "HelloReply", "Data", "Nack"},
           NEW to \in FrameNo, NEW w \in Write \cup {NoWrite}
    PROVE  LET u == Append1(v, type, to, w) IN
           /\ Heir(u, v) /\ u.state = v.state /\ u.tx.ack = v.tx.ack /\ u.tx.seq = v.tx.seq
           /\ u.tx.hello = (v.tx.hello \/ type \in {"Hello", "HelloReply"})
           /\ Len(u.tx.frames) = Len(v.tx.frames) + 1
           /\ u.tx.frames[Len(v.tx.frames) + 1].type = type
           /\ type # "Hello" /\ NoHello(v.tx.frames) => NoHello(u.tx.frames)
<1> DEFINE f == [type |-> type, seq |-> v.frameSeq, to |-> to, write |-> w]
           fs == Append(v.tx.frames, f)
           h == v.tx.hello \/ type \in {"Hello", "HelloReply"}
           t == [v.tx EXCEPT !.frames = fs, !.hello = h]
           next == (v.frameSeq + 1) % FrameMod
           u == Append1(v, type, to, w)
<1>1. v.tx \in Slots
  BY FieldsOf
<1>2. v.tx.frames \in Seq(Frames) /\ v.tx.hello \in BOOLEAN
  BY <1>1 DEF Slots
<1>3. f.type = type
  OBVIOUS
<1> HIDE DEF f
<1>4. /\ Len(fs) = Len(v.tx.frames) + 1 /\ fs[Len(v.tx.frames) + 1] = f
      /\ DOMAIN fs = DOMAIN v.tx.frames \cup {Len(v.tx.frames) + 1}
      /\ \A i \in DOMAIN v.tx.frames : fs[i] = v.tx.frames[i]
  BY <1>2
<1>5. type # "Hello" /\ NoHello(v.tx.frames) => NoHello(fs)
  <2> HIDE DEF fs
  <2>. QED
    BY <1>3, <1>4 DEF NoHello
<1>6. /\ t.frames = fs /\ t.hello = h /\ t.ack = v.tx.ack /\ t.seq = v.tx.seq
  BY <1>1 DEF Slots
<1>7. u = [v EXCEPT !.tx = t, !.frameSeq = next]
  BY DEF Append1, Fields, Slots, f
<1> HIDE DEF t, next
<1>8. u.tx = t /\ u.state = v.state /\ u.expected = v.expected /\ u.ackDue = v.ackDue
      /\ u.ackSent = v.ackSent
  BY <1>7 DEF Fields
<1> HIDE DEF u, fs, h
<1>9. Heir(u, v)
  BY <1>6, <1>8 DEF Heir, Acking
<1>. QED
  BY <1>3, <1>4, <1>5, <1>6, <1>8, <1>9 DEF u, h

LEMMA QueueHelloSlot ==
    ASSUME NEW v \in Fields
    PROVE  LET u == queueHello(v) IN
           /\ Heir(u, v) /\ u.state = "HelloSent"
           /\ u.tx.hello /\ JustHello(u.tx.frames) /\ u.tx.ack = NoAck
<1> DEFINE b == BlankSlot(v.tx.seq)
           x == [v EXCEPT !.state = "HelloSent", !.tx = b]
           u == queueHello(v)
<1>1. v.tx.seq \in SlotNo
  BY FieldsOf DEF Slots
<1>2. b \in Slots /\ b.frames = <<>> /\ b.ack = NoAck /\ Len(b.frames) = 0
  BY <1>1, BlankType DEF BlankSlot
<1> HIDE DEF b
<1>3. x \in Fields /\ x.state = "HelloSent" /\ Heir(x, v) /\ x.tx = b
  BY <1>2 DEF Fields, Heir, Acking
<1>4. u = Append1(x, "Hello", 0, NoWrite)
  BY DEF queueHello, b
<1> HIDE DEF x, u
<1>5. NoWrite \in Write \cup {NoWrite} /\ "Hello" \in {"Hello", "HelloReply", "Data", "Nack"}
      /\ 0 \in FrameNo
  BY Numbers
<1>6. /\ Heir(u, x) /\ u.state = x.state /\ u.tx.ack = x.tx.ack
      /\ u.tx.hello = (x.tx.hello \/ "Hello" \in {"Hello", "HelloReply"})
      /\ Len(u.tx.frames) = Len(x.tx.frames) + 1
      /\ u.tx.frames[Len(x.tx.frames) + 1].type = "Hello"
  BY <1>3, <1>4, <1>5, AppendSlot
<1>7. Heir(u, v) /\ u.state = "HelloSent" /\ u.tx.hello /\ u.tx.ack = NoAck
  BY <1>2, <1>3, <1>6 DEF Heir
<1>8. JustHello(u.tx.frames)
  BY <1>2, <1>3, <1>6 DEF JustHello
<1>. QED
  BY <1>7, <1>8 DEF u

LEMMA FinalizeSlot ==
    ASSUME NEW v \in Fields
    PROVE  LET u == finalizeTx(v) IN
           /\ Heir(u, v) /\ u.state = v.state /\ u.tx.frames = v.tx.frames
           /\ u.tx.hello = v.tx.hello /\ u.tx.seq = v.tx.seq
<1>1. v.tx \in Slots
  BY FieldsOf
<1> DEFINE t == [v.tx EXCEPT !.ack = v.ackDue]
<1>2. t.frames = v.tx.frames /\ t.hello = v.tx.hello /\ t.seq = v.tx.seq
  BY <1>1 DEF Slots
<1>3. [v EXCEPT !.tx.ack = v.ackDue] = [v EXCEPT !.tx = t]
  BY DEF Fields
<1> HIDE DEF t
<1>4. CASE HasHeaderAck(v)
  <2>1. finalizeTx(v) = [v EXCEPT !.tx = t] /\ Acking(v)
    BY <1>3, <1>4 DEF finalizeTx, HasHeaderAck, Acking
  <2>. QED
    BY <1>2, <2>1 DEF Heir, Fields
<1>5. CASE ~ HasHeaderAck(v)
  BY <1>5 DEF finalizeTx, Heir
<1>. QED
  BY <1>4, <1>5

LEMMA ConsumedSlot ==
    ASSUME NEW v \in Fields
    PROVE  LET u == markTxConsumed(v) IN
           Heir(u, v) /\ u.state = v.state /\ Empty(u.tx)
<1> DEFINE x == IF v.tx.ack # NoAck THEN [v EXCEPT !.ackSent = v.tx.ack] ELSE v
<1>1. v.tx.ack \in FrameNo \cup {NoAck}
  BY FieldsOf DEF Slots
<1>2. x \in Fields /\ x.state = v.state /\ Heir(x, v)
  BY <1>1 DEF Fields, Heir, Acking
<1>3. markTxConsumed(v) = beginSlot(x)
  BY DEF markTxConsumed
<1> HIDE DEF x
<1>. QED
  BY <1>2, <1>3, BeginSlot DEF Heir

LEMMA PreReadySlot ==
    ASSUME NEW v \in Fields, NEW n \in Node
    PROVE  LET u == PreReadyHello(n, v) IN
           /\ Heir(u, v) /\ (v.tx.ack = NoAck => u.tx.ack = NoAck)
           /\ n = "master" \/ ready(v) => u = v
           /\ ready(u) <=> ready(v)
<1>1. CASE n = "slave" /\ ~ ready(v) /\ v.tx.frames = <<>>
  BY <1>1, QueueHelloSlot DEF PreReadyHello, ready, Node
<1>2. CASE ~ (n = "slave" /\ ~ ready(v) /\ v.tx.frames = <<>>)
  <2>1. PreReadyHello(n, v) = v
    BY <1>2 DEF PreReadyHello
  <2>. QED
    BY <2>1 DEF Heir
<1>. QED
  BY <1>1, <1>2

LEMMA AnsweredSlot ==
    ASSUME NEW v \in Fields
    PROVE  LET u == HelloAnswered(v) IN
           /\ Heir(u, v) /\ u.tx.ack = v.tx.ack /\ ready(u)
           /\ NoHello(v.tx.frames) => NoHello(u.tx.frames)
<1> DEFINE x == [v EXCEPT !.state = "Ready"]
           u == HelloAnswered(v)
<1>1. x \in Fields /\ x.state = "Ready" /\ x.tx = v.tx /\ Heir(x, v)
  BY DEF Fields, Heir, Acking
<1>2. u = Append1(x, "HelloReply", 0, NoWrite)
  BY DEF HelloAnswered
<1> HIDE DEF x, u
<1>3. NoWrite \in Write \cup {NoWrite} /\ "HelloReply" \in {"Hello", "HelloReply", "Data", "Nack"}
      /\ 0 \in FrameNo /\ "HelloReply" # "Hello"
  BY Numbers
<1>4. /\ Heir(u, x) /\ u.state = x.state /\ u.tx.ack = x.tx.ack
      /\ NoHello(x.tx.frames) => NoHello(u.tx.frames)
  BY <1>1, <1>2, <1>3, AppendSlot
<1>. QED
  BY <1>1, <1>4 DEF Heir, ready, u

(***************************************************************************)
(* A received slot: what each frame of it adds.                            *)
(***************************************************************************)
\* h is the parse p after one more frame f.
OneFrame(n, h, p, f) ==
    /\ h.node.expected = p.node.expected /\ h.ack = p.ack
    /\ h.resynced = p.resynced /\ h.ok = p.ok
    /\ p.delivered \subseteq h.delivered
    /\ h.delivered \subseteq p.delivered \cup ({f.write} \cap Write)
    /\ Acking(h.node) => Acking(p.node) \/ h.delivered \cap Write # {}
    /\ p.node.tx.ack = NoAck => h.node.tx.ack = NoAck
    /\ n = "master" /\ f.type # "Hello" => h.node.tx.hello = p.node.tx.hello
    /\ ready(p.node) \/ f.type = "Hello" =>
          /\ ready(h.node)
          /\ NoHello(p.node.tx.frames) => NoHello(h.node.tx.frames)

LEMMA HandledFrame ==
    ASSUME NEW v \in Fields, NEW n \in Node, NEW refused, NEW p, Of(p, v), NEW f \in Frames
    PROVE  OneFrame(n, Handled(n, refused, p, f), p, f)
<1> DEFINE h == Handled(n, refused, p, f)
<1> SUFFICES OneFrame(n, h, p, f)
  OBVIOUS
<1>1. /\ f.type \in {"Hello", "HelloReply", "Data", "Nack"} /\ f.seq \in FrameNo
      /\ f.to \in FrameNo /\ f.write \in Write \cup {NoWrite}
      /\ f.type = "Data" => f.write \in Write
  BY DEF Frames
<1>2. p.node \in Fields /\ p \in ParsedType
  BY DEF Of, Like
<1>3. ASSUME NEW x, h = [p EXCEPT !.node = x],
             Heir(x, p.node), p.node.tx.ack = NoAck => x.tx.ack = NoAck,
             n = "master" /\ f.type # "Hello" => x.tx.hello = p.node.tx.hello,
             ready(p.node) \/ f.type = "Hello" =>
                /\ ready(x)
                /\ NoHello(p.node.tx.frames) => NoHello(x.tx.frames)
      PROVE  OneFrame(n, h, p, f)
  <2>1. /\ h.node = x /\ h.ack = p.ack /\ h.resynced = p.resynced /\ h.ok = p.ok
        /\ h.delivered = p.delivered
    BY <1>2, <1>3 DEF ParsedType
  <2> HIDE DEF h
  <2>. QED
    BY <1>3, <2>1 DEF OneFrame, Heir
<1>4. CASE f.type = "Hello"
  <2>1. h = [p EXCEPT !.node = HelloAnswered(p.node)]
    BY <1>4 DEF Handled
  <2> HIDE DEF h
  <2>2. LET x == HelloAnswered(p.node) IN
        /\ Heir(x, p.node) /\ x.tx.ack = p.node.tx.ack /\ ready(x)
        /\ NoHello(p.node.tx.frames) => NoHello(x.tx.frames)
    BY <1>2, AnsweredSlot
  <2>. QED
    BY <1>3, <1>4, <2>1, <2>2
<1>5. CASE f.type = "HelloReply"
  <2> DEFINE x == [p.node EXCEPT !.state = "Ready"]
  <2>1. h = [p EXCEPT !.node = x]
    BY <1>5 DEF Handled
  <2>2. Heir(x, p.node) /\ x.tx = p.node.tx /\ ready(x)
    BY <1>2 DEF Fields, Heir, Acking, ready
  <2> HIDE DEF h, x
  <2>. QED
    BY <1>3, <1>5, <2>1, <2>2
<1>6. CASE f.type = "Nack"
  <2>1. h = [p EXCEPT !.nacked = @ \cup {f.to}]
    BY <1>6 DEF Handled
  <2>2. /\ h.node = p.node /\ h.ack = p.ack /\ h.resynced = p.resynced /\ h.ok = p.ok
        /\ h.delivered = p.delivered
    BY <1>2, <2>1 DEF ParsedType
  <2> HIDE DEF h
  <2>. QED
    BY <1>6, <2>2 DEF OneFrame
<1>7. CASE f.type = "Data" /\ ~ ready(p.node)
  <2>1. h = [p EXCEPT !.node = PreReadyHello(n, p.node)]
    BY <1>7 DEF Handled
  <2> HIDE DEF h
  <2>2. LET x == PreReadyHello(n, p.node) IN
        /\ Heir(x, p.node) /\ (p.node.tx.ack = NoAck => x.tx.ack = NoAck)
        /\ n = "master" => x = p.node
    BY <1>2, PreReadySlot
  <2>. QED
    BY <1>3, <1>7, <2>1, <2>2
<1>8. CASE f.type = "Data" /\ ready(p.node) /\ f.write \in refused
  <2>1. h = [p EXCEPT !.node = Append1(p.node, "Nack", f.seq, NoWrite)]
    BY <1>8 DEF Handled
  <2> HIDE DEF h
  <2> DEFINE x == Append1(p.node, "Nack", f.seq, NoWrite)
  <2>2. NoWrite \in Write \cup {NoWrite} /\ "Nack" \in {"Hello", "HelloReply", "Data", "Nack"}
    OBVIOUS
  <2>3. /\ Heir(x, p.node) /\ x.state = p.node.state /\ x.tx.ack = p.node.tx.ack
        /\ x.tx.hello = (p.node.tx.hello \/ "Nack" \in {"Hello", "HelloReply"})
        /\ "Nack" # "Hello" /\ NoHello(p.node.tx.frames) => NoHello(x.tx.frames)
    BY <1>1, <1>2, <2>2, AppendSlot
  <2>4. x.tx.hello = p.node.tx.hello
    <3>1. p.node.tx.hello \in BOOLEAN
      BY <1>2, FieldsOf DEF Slots
    <3> HIDE DEF x
    <3>. QED
      BY <2>3, <3>1
  <2> HIDE DEF x
  <2>. QED
    BY <1>3, <1>8, <2>1, <2>3, <2>4 DEF x, ready
<1>9. CASE f.type = "Data" /\ ready(p.node) /\ f.write \notin refused
  <2> DEFINE x == [p.node EXCEPT !.ackDue = f.seq]
  <2>1. h = [p EXCEPT !.node.ackDue = f.seq, !.delivered = @ \cup {f.write}]
    BY <1>9 DEF Handled
  <2>2. /\ h.node = x /\ h.ack = p.ack /\ h.resynced = p.resynced /\ h.ok = p.ok
        /\ h.delivered = p.delivered \cup {f.write}
    BY <1>2, <2>1 DEF ParsedType
  <2> HIDE DEF h
  <2>3. x.expected = p.node.expected /\ x.tx = p.node.tx /\ x.state = p.node.state
    BY <1>2 DEF Fields
  <2> HIDE DEF x
  <2>. QED
    BY <1>1, <1>9, <2>2, <2>3 DEF OneFrame, ready
<1>. QED
  BY <1>1, <1>4, <1>5, <1>6, <1>7, <1>8, <1>9

\* q is the parse of the first k frames by a node that was u before them.
Frame(n, q, u, b, frames, k) ==
    /\ q.node.expected = u.expected /\ q.ack = NoAck /\ q.resynced = b /\ q.ok = TRUE
    /\ q.delivered \subseteq {frames[i].write : i \in 1 .. k} \cap Write
    /\ Acking(q.node) => Acking(u) \/ q.delivered \cap Write # {}
    /\ q.node.tx.ack = NoAck
    /\ n = "master" /\ NoHello(frames) => q.node.tx.hello = FALSE
    /\ ready(u) \/ (k > 0 /\ frames[1].type = "Hello") =>
          ready(q.node) /\ NoHello(q.node.tx.frames)
    /\ k = 0 => q.node = u

LEMMA FramesParsed ==
    ASSUME NEW v \in Fields, NEW n \in Node, NEW refused, NEW u, Like(u, v, {}), Empty(u.tx),
           NEW b \in BOOLEAN, NEW frames \in Seq(Frames), NEW m \in Nat, m <= Len(frames),
           NEW f, ParseOf(f, n, refused, u, b, frames, m)
    PROVE  Frame(n, f[m], u, b, frames, m)
<1> DEFINE S == {k \in Nat : k <= m => Of(f[k], v) /\ Frame(n, f[k], u, b, frames, k)
                                       /\ (k = 0 => NoHello(f[k].node.tx.frames))}
<1>1. \A k \in 0 .. m :
        f[k] = IF k = 0 THEN Parsed(u, b) ELSE Handled(n, refused, f[k - 1], frames[k])
  BY DEF ParseOf
<1>2. 0 \in S
  <2>1. f[0] = Parsed(u, b)
    BY <1>1
  <2>2. Of(f[0], v)
    BY <2>1, ParsedIs
  <2>3. NoHello(u.tx.frames) /\ u.tx.hello = FALSE /\ u.tx.ack = NoAck
    BY DEF Empty, NoHello
  <2>4. Frame(n, f[0], u, b, frames, 0)
    BY <2>1, <2>3 DEF Frame, Parsed
  <2>5. NoHello(f[0].node.tx.frames)
    BY <2>1, <2>3 DEF Parsed
  <2>. QED
    BY <2>2, <2>4, <2>5
<1>3. ASSUME NEW k \in Nat, k \in S
      PROVE  k + 1 \in S
  <2> SUFFICES ASSUME k + 1 <= m
               PROVE  Of(f[k + 1], v) /\ Frame(n, f[k + 1], u, b, frames, k + 1)
    OBVIOUS
  <2>1. /\ Of(f[k], v) /\ Frame(n, f[k], u, b, frames, k)
        /\ (k = 0 => NoHello(f[k].node.tx.frames))
        /\ k + 1 \in 0 .. m /\ k + 1 # 0 /\ (k + 1) - 1 = k
        /\ frames[k + 1] \in Frames /\ k + 1 \in DOMAIN frames
    BY <1>3
  <2> DEFINE p == f[k]
             g == frames[k + 1]
             h == Handled(n, refused, p, g)
  <2>2. f[k + 1] = h
    BY <1>1, <2>1
  <2>3. Of(h, v) /\ OneFrame(n, h, p, g)
    BY <2>1, HandledOf, HandledFrame
  <2>4. NoHello(frames) => g.type # "Hello"
    BY <2>1 DEF NoHello
  <2>5. /\ {frames[i].write : i \in 1 .. k} \subseteq {frames[i].write : i \in 1 .. k + 1}
        /\ g.write \in {frames[i].write : i \in 1 .. k + 1}
    BY <2>1
  <2> HIDE DEF p, g, h
  <2>6. h.delivered \subseteq {frames[i].write : i \in 1 .. k + 1} \cap Write
    BY <2>1, <2>3, <2>5 DEF Frame, OneFrame, p
  <2>7. Acking(h.node) => Acking(u) \/ h.delivered \cap Write # {}
    BY <2>1, <2>3 DEF Frame, OneFrame, p
  <2>8. ready(u) \/ frames[1].type = "Hello" => ready(h.node) /\ NoHello(h.node.tx.frames)
    <3>1. CASE k = 0
      <4>1. g = frames[1] /\ p.node = u /\ NoHello(p.node.tx.frames)
        BY <2>1, <3>1 DEF Frame, p, g
      <4>. QED
        BY <2>3, <4>1 DEF OneFrame
    <3>2. CASE k # 0
      BY <2>1, <2>3, <3>2 DEF OneFrame, Frame, p
    <3>. QED
      BY <3>1, <3>2
  <2>9. Frame(n, h, u, b, frames, k + 1)
    BY <2>1, <2>3, <2>4, <2>6, <2>7, <2>8 DEF Frame, OneFrame, p
  <2>. QED
    BY <2>2, <2>3, <2>9
<1> HIDE DEF S
<1>4. m \in S
  BY <1>2, <1>3, SetInduction
<1>. QED
  BY <1>4 DEF S

After(slot) == (slot.seq + 1) % SlotMod

\* p is what a node v makes of the slot that it reads in r.
SlotParsed(n, v, r, p) ==
    /\ p.delivered \subseteq DataOf(r.slot) \cap Write
    /\ p.ack \in {NoAck, r.slot.ack} /\ p.node.tx.ack = NoAck
    /\ Acking(p.node) => Acking(v) \/ p.delivered # {}
    /\ p.node.expected \in {v.expected, After(r.slot)}
    /\ p.delivered # {} => /\ p.node.expected = After(r.slot)
                           /\ r.slot.hello \/ ~ Behind(r.slot.seq, v.expected)
    /\ n = "master" /\ NoHello(r.slot.frames) => p.node.tx.hello = FALSE
    /\ /\ ready(v) \/ r.slot.hello
       /\ r.slot.hello => JustHello(r.slot.frames)
       /\ r.good = Len(r.slot.frames)
       => p.ok /\ ready(p.node) /\ NoHello(p.node.tx.frames)
    /\ r.slot.frames = <<>> /\ ready(p.node) => ready(v)

\* A slot that only moves the expected number: nothing of it is taken.
LEMMA NothingParsed ==
    ASSUME NEW v \in Fields, NEW n \in Node, NEW r \in Reading, NEW x \in Fields,
           x.state = v.state, x.expected \in {v.expected, After(r.slot)},
           Acking(x) => Acking(v), ~ r.slot.hello
    PROVE  SlotParsed(n, v, r, Parsed(PreReadyHello(n, beginSlot(x)), FALSE))
<1> DEFINE b == beginSlot(x)
           y == PreReadyHello(n, b)
           p == Parsed(y, FALSE)
<1>1. b \in Fields /\ Heir(b, x) /\ b.state = x.state /\ Empty(b.tx)
  BY BeginType, BeginSlot DEF Like
<1> HIDE DEF b
<1>2. /\ Heir(y, b) /\ (b.tx.ack = NoAck => y.tx.ack = NoAck)
      /\ (n = "master" \/ ready(b) => y = b) /\ (ready(y) <=> ready(b))
  BY <1>1, PreReadySlot
<1> HIDE DEF y
<1>3. /\ p.node = y /\ p.delivered = {} /\ p.ack = NoAck /\ p.ok = TRUE
  BY DEF Parsed
<1> HIDE DEF p
<1>4. y.expected = x.expected /\ (Acking(y) => Acking(v)) /\ y.tx.ack = NoAck
  BY <1>1, <1>2 DEF Heir, Empty
<1>5. (n = "master" => y.tx.hello = FALSE) /\ (ready(y) <=> ready(v))
      /\ (ready(v) => NoHello(y.tx.frames))
  BY <1>1, <1>2 DEF Empty, ready, NoHello
<1>. QED
  BY <1>3, <1>4, <1>5 DEF SlotParsed, p, y, b

LEMMA ParseRxSlot ==
    ASSUME NEW v \in Fields, NEW n \in Node, NEW r \in Reading, NEW refused,
           r.good <= Len(r.slot.frames)
    PROVE  SlotParsed(n, v, r, parseRx(n, v, r, refused))
<1> DEFINE s == r.slot
           next == (s.seq + 1) % SlotMod
           resync == s.hello /\ s.seq # v.expected
           base == IF resync THEN reset(n, v) ELSE v
           w == [base EXCEPT !.expected = next]
           u == beginSlot(w)
           f == CHOOSE g : ParseOf(g, n, refused, u, resync, s.frames, r.good)
           last == f[r.good]
           x == IF ready(v) THEN [v EXCEPT !.expected = next] ELSE v
<1>1. s \in Slots /\ r.good \in Nat
  BY DEF Reading
<1>2. /\ s.frames \in Seq(Frames) /\ next \in SlotNo /\ resync \in BOOLEAN
      /\ s.ack \in FrameNo \cup {NoAck} /\ s.hello \in BOOLEAN /\ Len(s.frames) \in Nat
  BY <1>1, Numbers DEF Slots
<1>3. /\ base \in Fields /\ base.pending = v.pending
      /\ Acking(base) => Acking(v)
      /\ resync => base.state = "Initial"
      /\ ~ resync => base = v
  BY ResetType, ResetSlot DEF Like
<1>4. /\ w \in Fields /\ w.pending = v.pending /\ w.expected = next
      /\ w.state = base.state /\ (Acking(w) => Acking(v))
  <2> HIDE DEF base, next
  <2>. QED
    BY <1>2, <1>3 DEF Fields, Acking
<1>5. /\ Like(u, v, {}) /\ Empty(u.tx) /\ u.expected = next /\ u.state = base.state
      /\ (Acking(u) => Acking(v))
  <2> HIDE DEF w, next, base
  <2>. QED
    BY <1>4, BeginType, BeginSlot DEF Like, Heir
<1>6. ParseOf(f, n, refused, u, resync, s.frames, r.good)
  BY <1>1, ParseExists
<1>7. Of(last, v) /\ Frame(n, last, u, resync, s.frames, r.good)
  <2> HIDE DEF f, u, resync
  <2>. QED
    BY <1>1, <1>2, <1>5, <1>6, ParseLast, FramesParsed
<1>8. parseRx(n, v, r, refused)
         = IF IsBlank(s)
           THEN Parsed(PreReadyHello(n, beginSlot(x)), FALSE)
           ELSE IF ~ s.hello /\ Behind(s.seq, v.expected)
           THEN Parsed(PreReadyHello(n, beginSlot(v)), FALSE)
           ELSE IF r.good < Len(s.frames)
           THEN [last EXCEPT !.ok = FALSE]
           ELSE [last EXCEPT !.node = PreReadyHello(n, @), !.ack = s.ack]
  BY Zenon DEF parseRx, ParseOf
<1>9. CASE IsBlank(s)
  <2>1. /\ x \in Fields /\ x.state = v.state /\ x.expected \in {v.expected, next}
        /\ (Acking(x) => Acking(v))
    BY <1>2 DEF Fields, Acking
  <2>2. ~ s.hello
    BY <1>9 DEF IsBlank
  <2> HIDE DEF x
  <2>3. SlotParsed(n, v, r, Parsed(PreReadyHello(n, beginSlot(x)), FALSE))
    BY <2>1, <2>2, NothingParsed DEF After
  <2>. QED
    BY <1>8, <1>9, <2>3
<1>10. CASE ~ IsBlank(s) /\ ~ s.hello /\ Behind(s.seq, v.expected)
  <2>1. SlotParsed(n, v, r, Parsed(PreReadyHello(n, beginSlot(v)), FALSE))
    BY <1>10, NothingParsed
  <2>. QED
    BY <1>8, <1>10, <2>1
<1> HIDE DEF x
<1>11. CASE ~ IsBlank(s) /\ ~ (~ s.hello /\ Behind(s.seq, v.expected))
  <2> DEFINE p == parseRx(n, v, r, refused)
             z == PreReadyHello(n, last.node)
  <2>1. last \in ParsedType /\ last.node \in Fields
    BY <1>7 DEF Of, Like
  <2>2. /\ Heir(z, last.node) /\ (last.node.tx.ack = NoAck => z.tx.ack = NoAck)
        /\ (n = "master" \/ ready(last.node) => z = last.node)
        /\ (ready(z) <=> ready(last.node))
    <3> HIDE DEF last
    <3>. QED
      BY <2>1, PreReadySlot
  <2>3. \/ r.good < Len(s.frames) /\ p = [last EXCEPT !.ok = FALSE]
        \/ r.good = Len(s.frames) /\ p = [last EXCEPT !.node = z, !.ack = s.ack]
    <3> HIDE DEF last, s
    <3>1. p = IF r.good < Len(s.frames) THEN [last EXCEPT !.ok = FALSE]
              ELSE [last EXCEPT !.node = z, !.ack = s.ack]
      BY <1>8, <1>11
    <3>2. r.good < Len(s.frames) \/ r.good = Len(s.frames)
      BY <1>1, <1>2 DEF s
    <3> HIDE DEF p
    <3>. QED
      BY <3>1, <3>2
  <2> HIDE DEF z, p, last
  <2>4. /\ p.node \in {last.node, z} /\ p.delivered = last.delivered
        /\ p.ack \in {last.ack, s.ack}
        /\ r.good = Len(s.frames) => p.node = z /\ p.ok = TRUE
    <3>1. last.ok = TRUE
      BY <1>7 DEF Frame
    <3>2. r.good < Len(s.frames) => r.good # Len(s.frames)
      BY <1>1, <1>2
    <3> HIDE DEF s
    <3>. QED
      BY <2>1, <2>3, <3>1, <3>2 DEF ParsedType
  <2>5. /\ p.node.expected = next /\ p.node.tx.ack = NoAck
        /\ Acking(p.node) => Acking(v) \/ p.delivered # {}
        /\ p.delivered \subseteq {s.frames[i].write : i \in 1 .. r.good} \cap Write
    BY <1>5, <1>7, <2>2, <2>4 DEF Frame, Heir
  <2>6. p.delivered \subseteq DataOf(s) \cap Write
    <3>1. 1 .. r.good \subseteq DOMAIN s.frames
      BY <1>1, <1>2
    <3>2. NoWrite \notin Write
      BY WritesAre
    <3>. QED
      BY <2>5, <3>1, <3>2 DEF DataOf
  <2>7. p.ack \in {NoAck, s.ack}
    BY <1>7, <2>4 DEF Frame
  <2>8. n = "master" /\ NoHello(s.frames) => p.node.tx.hello = FALSE
    BY <1>7, <2>2, <2>4 DEF Frame
  <2>9. /\ ready(v) \/ s.hello
        /\ s.hello => JustHello(s.frames)
        /\ r.good = Len(s.frames)
        => p.ok /\ ready(p.node) /\ NoHello(p.node.tx.frames)
    <3> SUFFICES ASSUME ready(v) \/ s.hello, s.hello => JustHello(s.frames),
                        r.good = Len(s.frames)
                 PROVE  p.ok /\ ready(p.node) /\ NoHello(p.node.tx.frames)
      OBVIOUS
    <3>1. ready(u) \/ (r.good > 0 /\ s.frames[1].type = "Hello")
      <4>1. CASE s.hello
        BY <4>1 DEF JustHello
      <4>2. CASE ~ s.hello
        <5>1. ~ resync
          BY <4>2
        <5>. QED
          BY <1>3, <1>5, <4>2, <5>1 DEF ready
      <4>. QED
        BY <4>1, <4>2
    <3>2. ready(last.node) /\ NoHello(last.node.tx.frames)
      BY <1>7, <3>1 DEF Frame
    <3>. QED
      BY <2>2, <2>4, <3>2
  <2>10. s.frames = <<>> /\ ready(p.node) => ready(v)
    <3> SUFFICES ASSUME s.frames = <<>>, ready(p.node) PROVE ready(v)
      OBVIOUS
    <3>1. r.good = 0
      BY <1>1
    <3>2. ready(u)
      BY <1>7, <2>2, <2>4, <3>1 DEF Frame
    <3>3. ~ resync
      <4> HIDE DEF u, base, resync
      <4>. QED
        BY <1>3, <1>5, <3>2 DEF ready
    <3>. QED
      BY <1>3, <1>5, <3>2, <3>3 DEF ready
  <2>11. p.delivered # {} => r.slot.hello \/ ~ Behind(r.slot.seq, v.expected)
    BY <1>11
  <2>. QED
    BY <2>5, <2>6, <2>7, <2>8, <2>9, <2>10, <2>11 DEF SlotParsed, After, p
<1>. QED
  BY <1>9, <1>10, <1>11

(***************************************************************************)
(* Moving the queue into the table: the slot that is filled.               *)
(***************************************************************************)
\* u is v with the writes ds more in its slot.
Filled(u, v, ds) ==
    /\ DataOf(u.tx) = DataOf(v.tx) \cup ds
    /\ u.expected = v.expected /\ (Acking(u) => Acking(v)) /\ u.state = v.state
    /\ u.tx.hello = v.tx.hello /\ u.tx.seq = v.tx.seq
    /\ NoHello(v.tx.frames) => NoHello(u.tx.frames)

LEMMA SentSlot ==
    ASSUME NEW v \in Fields, NEW w \in Write
    PROVE  Filled(Sent(v, w), v, {w})
<1> DEFINE a == Append1(v, "Data", 0, w)
           e == [seq |-> v.frameSeq, write |-> w]
<1>1. w \in Write \cup {NoWrite} /\ "Data" \in {"Hello", "HelloReply", "Data", "Nack"}
      /\ "Data" # "Hello" /\ 0 \in FrameNo /\ ("Data" = "Data" <=> w \in Write)
  BY Numbers
<1>2. /\ Heir(a, v) /\ a.state = v.state /\ a.tx.seq = v.tx.seq
      /\ a.tx.hello = (v.tx.hello \/ "Data" \in {"Hello", "HelloReply"})
      /\ "Data" # "Hello" /\ NoHello(v.tx.frames) => NoHello(a.tx.frames)
  BY <1>1, AppendSlot
<1>3. v.tx.hello \in BOOLEAN
  BY FieldsOf DEF Slots
<1>4. a \in Fields
  BY <1>1, AppendType DEF Like
<1>5. Sent(v, w) = [a EXCEPT !.pending = @ \cup {e}]
  BY DEF Sent
<1>6. DataOf(Sent(v, w).tx) = DataOf(v.tx) \cup {w}
  BY SentType
<1> HIDE DEF a, e
<1>7. /\ Sent(v, w).tx = a.tx /\ Sent(v, w).expected = a.expected
      /\ Sent(v, w).state = a.state /\ (Acking(Sent(v, w)) <=> Acking(a))
  BY <1>4, <1>5 DEF Fields, Acking
<1>8. a.tx.hello = v.tx.hello
  BY <1>2, <1>3
<1>. QED
  BY <1>1, <1>2, <1>6, <1>7, <1>8 DEF Filled, Heir

LEMMA SentAll ==
    ASSUME NEW v \in Fields, NEW q \in Seq(Write), NEW m \in Nat, m <= Len(q),
           NEW f, SentOf(f, v, q, m)
    PROVE  f[m] \in Fields /\ Filled(f[m], v, First(q, m))
<1> DEFINE S == {k \in Nat : k <= m => f[k] \in Fields /\ Filled(f[k], v, First(q, k))}
<1>1. \A k \in 0 .. m : f[k] = IF k = 0 THEN v ELSE Sent(f[k - 1], q[k])
  BY DEF SentOf
<1>2. 0 \in S
  <2>1. First(q, 0) = {}
    BY DEF First
  <2>. QED
    BY <1>1, <2>1 DEF Filled
<1>3. ASSUME NEW k \in Nat, k \in S
      PROVE  k + 1 \in S
  <2> SUFFICES ASSUME k + 1 <= m
               PROVE  f[k + 1] \in Fields /\ Filled(f[k + 1], v, First(q, k + 1))
    OBVIOUS
  <2>1. /\ f[k] \in Fields /\ Filled(f[k], v, First(q, k)) /\ k + 1 \in 0 .. m
        /\ k + 1 # 0 /\ (k + 1) - 1 = k /\ q[k + 1] \in Write
    BY <1>3
  <2>2. First(q, k + 1) = First(q, k) \cup {q[k + 1]}
    <3>1. 1 .. k + 1 = 1 .. k \cup {k + 1}
      BY <1>3
    <3>. QED
      BY <3>1 DEF First
  <2>3. Sent(f[k], q[k + 1]) \in Fields /\ Filled(Sent(f[k], q[k + 1]), f[k], {q[k + 1]})
    BY <2>1, SentType, SentSlot
  <2>. QED
    BY <1>1, <2>1, <2>2, <2>3 DEF Filled
<1> HIDE DEF S
<1>4. m \in S
  BY <1>2, <1>3, SetInduction
<1>. QED
  BY <1>4 DEF S

LEMMA ProcessedSlot ==
    ASSUME NEW v \in Fields, NEW n, NEW q, Tidy(n, v.pending, q),
           Cardinality(v.pending) <= PendingDepth, DataFrames(v) <= SlotData
    PROVE  /\ Processed(v, q) \in Fields /\ Filled(Processed(v, q), v, Taken(v, q))
           /\ q = <<>> => Processed(v, q) = v /\ Taken(v, q) = {}
<1> DEFINE m == Moved(v, q)
           f == CHOOSE g : SentOf(g, v, q, m)
<1>1. q \in Seq(Write) /\ Len(q) \in Nat
  BY DEF Tidy
<1>2. /\ Cardinality(v.pending) \in Nat /\ DataFrames(v) \in Nat
      /\ PendingDepth \in Nat /\ SlotData \in Nat
  BY SpiAssumption, FieldsOf, DataFinite, FS_CardinalityType DEF Tidy, DataFrames
<1>3. m \in Nat /\ m <= Len(q)
  BY <1>1, <1>2 DEF Moved, Room
<1>4. SentOf(f, v, q, m)
  BY <1>3, SentExists
<1>5. Processed(v, q) = f[m]
  BY Zenon DEF Processed, SentOf
<1>6. Taken(v, q) = First(q, m)
  BY DEF Taken, First
<1>7. f[m] \in Fields /\ Filled(f[m], v, First(q, m))
  <2> HIDE DEF f, m
  <2>. QED
    BY <1>1, <1>3, <1>4, SentAll
<1>8. ASSUME q = <<>> PROVE Processed(v, q) = v /\ Taken(v, q) = {}
  <2>1. m = 0
    BY <1>3, <1>8
  <2>2. f[0] = v
    BY <1>4, <2>1 DEF SentOf
  <2>3. First(q, 0) = {}
    BY DEF First
  <2> HIDE DEF f
  <2>. QED
    BY <1>5, <1>6, <2>1, <2>2, <2>3
<1>. QED
  BY <1>5, <1>6, <1>7, <1>8

(***************************************************************************)
(* What the slave's step and the master's turn do, in the terms of the     *)
(* invariant below.                                                        *)
(***************************************************************************)
Received == IF transfer.got = None THEN {} ELSE DataOf(transfer.got.slot)

\* Writes that are in no slot yet.
Unsent == {"new", "checked", "queued"}

\* The answers of a step are for open writes of node n, and what it sends was in
\* the queue.
Answers(n, acked, nacked, taken) ==
    /\ \A w \in acked \cup nacked : w \in Write /\ Owner(w) = n /\ req[w].at \in {"queued", "sent"}
    /\ \A w \in taken : w \in Write /\ Owner(w) = n /\ req[w].at = "queued"

LEMMA OpenWrites ==
    ASSUME NodeInv, NEW n \in Node, NEW acked, NEW nacked, NEW taken,
           acked \cup nacked \subseteq WritesOf(node[n].pending) \cup InQueue(queue[n]),
           taken \subseteq InQueue(queue[n])
    PROVE  Answers(n, acked, nacked, taken)
<1>1. Tidy(n, node[n].pending, queue[n]) /\ Marked(n)
  BY NodeFacts
<1>2. WritesOf(node[n].pending) \cup InQueue(queue[n]) \subseteq Write
  BY <1>1 DEF Tidy, WritesOf, InQueue, Entry
<1>. QED
  BY <1>1, <1>2 DEF Tidy, Marked, Answers

\* The slave read the whole slot, which is a hello and nothing else or comes to a
\* ready slave.
Orderly ==
    /\ transfer.got.kind = "slot" /\ transfer.got.good = Len(transfer.got.slot.frames)
    /\ transfer.got.slot.hello => JustHello(transfer.got.slot.frames)
    /\ ready(node["slave"]) \/ transfer.got.slot.hello

SlaveDid(z, acked, nacked, delivered, taken) ==
    /\ transfer.got # None /\ transfer' = Armed /\ faults' = faults
    /\ z \in Fields /\ node' = [node EXCEPT !["slave"] = z]
    /\ req' = History(acked, nacked, delivered, taken)
    /\ Answers("slave", acked, nacked, taken)
    /\ delivered \subseteq Received \cap Write
    /\ acked # {} => transfer.got.slot.ack # NoAck
    /\ Acking(z) => Acking(node["slave"]) \/ delivered # {}
    /\ DataOf(z.tx) \subseteq (IF transfer.sent THEN {} ELSE DataOf(node["slave"].tx)) \cup taken
    /\ Orderly =>
          /\ ready(z) /\ NoHello(z.tx.frames)
          /\ z.expected \in {node["slave"].expected, After(transfer.got.slot)}
          /\ delivered # {} =>
                /\ z.expected = After(transfer.got.slot)
                /\ \/ transfer.got.slot.hello
                   \/ ~ Behind(transfer.got.slot.seq, node["slave"].expected)

LEMMA SlaveStepDid ==
    ASSUME IInv, SlaveStep
    PROVE  \E z, acked, nacked, delivered, taken : SlaveDid(z, acked, nacked, delivered, taken)
<1> DEFINE r == transfer.got
           before == node["slave"]
           left == queue["slave"]
<1>1. NodeInv /\ "slave" \in Node
  BY IInvIs, NodesAre
<1>2. r # None /\ transfer' = Armed /\ faults' = faults
  BY DEF SlaveStep
<1>3. r \in Reading /\ (r.kind = "slot" => r.good <= Len(r.slot.frames))
  BY <1>2 DEF IInv, Typed, ReadInv
<1>4. PICK v \in {IF transfer.sent THEN markTxConsumed(before) ELSE before},
           refused \in SUBSET (IF r.kind = "slot" THEN DataOf(r.slot) ELSE {}) :
        \E p \in {IF r.kind = "slot" THEN parseRx("slave", v, r, refused)
                  ELSE [Parsed(v, FALSE) EXCEPT !.ok = r.kind = "none"]} :
        \E done \in {Settle(v, p, ~ p.ok \/ p.resynced, left)} :
           LET u == [(IF p.ok THEN p.node ELSE reset("slave", v)) EXCEPT !.pending = done.pending]
           IN  /\ node' = [node EXCEPT !["slave"] = finalizeTx(Processed(u, done.queue))]
               /\ queue' = [queue EXCEPT !["slave"] = Rest(u, done.queue)]
               /\ req' = History(done.acked, done.nacked, p.delivered, Taken(u, done.queue))
  BY DEF SlaveStep
<1>5. PICK p \in {IF r.kind = "slot" THEN parseRx("slave", v, r, refused)
                  ELSE [Parsed(v, FALSE) EXCEPT !.ok = r.kind = "none"]} :
        \E done \in {Settle(v, p, ~ p.ok \/ p.resynced, left)} :
           LET u == [(IF p.ok THEN p.node ELSE reset("slave", v)) EXCEPT !.pending = done.pending]
           IN  /\ node' = [node EXCEPT !["slave"] = finalizeTx(Processed(u, done.queue))]
               /\ queue' = [queue EXCEPT !["slave"] = Rest(u, done.queue)]
               /\ req' = History(done.acked, done.nacked, p.delivered, Taken(u, done.queue))
  BY <1>4
<1>6. PICK d : d = Settle(v, p, ~ p.ok \/ p.resynced, left) /\
           LET u == [(IF p.ok THEN p.node ELSE reset("slave", v)) EXCEPT !.pending = d.pending]
           IN  /\ node' = [node EXCEPT !["slave"] = finalizeTx(Processed(u, d.queue))]
               /\ queue' = [queue EXCEPT !["slave"] = Rest(u, d.queue)]
               /\ req' = History(d.acked, d.nacked, p.delivered, Taken(u, d.queue))
  BY <1>5
<1> DEFINE x == IF p.ok THEN p.node ELSE reset("slave", v)
           u == [x EXCEPT !.pending = d.pending]
           y == Processed(u, d.queue)
           z == finalizeTx(y)
           taken == Taken(u, d.queue)
<1>7. /\ node' = [node EXCEPT !["slave"] = z]
      /\ req' = History(d.acked, d.nacked, p.delivered, taken)
  BY <1>6
<1>8. /\ before \in Fields /\ Tidy("slave", before.pending, left)
      /\ Cardinality(before.pending) <= PendingDepth /\ DataFrames(before) <= SlotData
  BY <1>1, NodeFacts
<1>9. /\ v \in Fields /\ v.pending = before.pending /\ v.state = before.state
      /\ Heir(v, before)
      /\ DataOf(v.tx) \subseteq (IF transfer.sent THEN {} ELSE DataOf(before.tx))
  <2>1. /\ Like(markTxConsumed(before), before, {})
        /\ Heir(markTxConsumed(before), before)
        /\ markTxConsumed(before).state = before.state
    BY <1>8, ConsumedType, ConsumedSlot
  <2>2. Heir(before, before)
    BY DEF Heir
  <2>. QED
    BY <1>4, <1>8, <2>1, <2>2 DEF Like
<1>10. /\ p.node \in Fields /\ p.node.pending = v.pending
       /\ DataOf(p.node.tx) \subseteq DataOf(v.tx) /\ p.ok \in BOOLEAN /\ p.resynced \in BOOLEAN
       /\ p.delivered \subseteq DataOf(r.slot) \cap Write /\ p.ack \in {NoAck, r.slot.ack}
       /\ Acking(p.node) => Acking(v) \/ p.delivered # {}
       /\ r.kind = "slot" => SlotParsed("slave", v, r, p)
  <2>1. CASE r.kind = "slot"
    <3>1. /\ Of(parseRx("slave", v, r, refused), v)
          /\ SlotParsed("slave", v, r, parseRx("slave", v, r, refused))
      BY <1>1, <1>3, <1>9, <2>1, ParseRxOf, ParseRxSlot
    <3>2. p = parseRx("slave", v, r, refused)
      BY <1>5, <2>1
    <3>3. Of(p, v) /\ SlotParsed("slave", v, r, p)
      BY <3>1, <3>2
    <3>. QED
      BY <3>3 DEF Of, ParsedType, Like, SlotParsed
  <2>2. CASE r.kind # "slot"
    <3>1. p = [Parsed(v, FALSE) EXCEPT !.ok = r.kind = "none"]
      BY <1>5, <2>2
    <3>2. /\ p.node = v /\ p.ok \in BOOLEAN /\ p.resynced = FALSE
          /\ p.delivered = {} /\ p.ack = NoAck
      BY <3>1 DEF Parsed
    <3>. QED
      BY <1>9, <2>2, <3>2
  <2>. QED
    BY <2>1, <2>2
<1>11. /\ x \in Fields /\ DataOf(x.tx) \subseteq DataOf(v.tx)
       /\ Acking(x) => Acking(v) \/ p.delivered # {}
       /\ DataFrames(x) <= SlotData
  <2>1. /\ Like(reset("slave", v), v, {}) /\ ~ Acking(reset("slave", v))
    BY <1>1, <1>9, ResetType, ResetSlot
  <2>2. DataOf(x.tx) \subseteq DataOf(v.tx) /\ x \in Fields
    BY <1>10, <2>1 DEF Like
  <2>3. DataFrames(x) <= SlotData
    <3>1. DataOf(x.tx) \subseteq DataOf(before.tx)
      BY <1>9, <2>2
    <3>2. IsFiniteSet(DataOf(before.tx))
      BY <1>8, FieldsOf, DataFinite
    <3>3. Cardinality(DataOf(x.tx)) <= Cardinality(DataOf(before.tx))
          /\ IsFiniteSet(DataOf(x.tx))
      BY <3>1, <3>2, FS_Subset
    <3>4. Cardinality(DataOf(x.tx)) \in Nat /\ Cardinality(DataOf(before.tx)) \in Nat
      BY <3>2, <3>3, FS_CardinalityType
    <3>. QED
      BY <1>8, <3>3, <3>4, DepthsAre DEF DataFrames
  <2>. QED
    BY <1>10, <2>1, <2>2, <2>3
<1>12. Settled("slave", v.pending, left, d)
  <2> DEFINE failed == ~ p.ok \/ p.resynced
  <2>1. failed \in BOOLEAN /\ Tidy("slave", v.pending, left) /\ d = Settle(v, p, failed, left)
    BY <1>6, <1>8, <1>9, <1>10
  <2> HIDE DEF failed, left, before
  <2>. QED
    BY <2>1, Settling
<1>13. d.acked # {} => r.slot.ack # NoAck
  <2>1. d.acked = WritesOf(AckedBy(v, p))
    BY <1>6 DEF Settle
  <2>2. p.ack = NoAck => d.acked = {}
    BY <2>1 DEF AckedBy, WritesOf
  <2>. QED
    BY <1>10, <2>2
<1> HIDE DEF r, before, left, x
<1>14. /\ u \in Fields /\ u.pending = d.pending /\ u.tx = x.tx /\ u.state = x.state
       /\ u.expected = x.expected /\ (Acking(u) <=> Acking(x))
  <2>1. d.pending \in SUBSET Entry
    BY <1>12 DEF Settled, Tidy
  <2>. QED
    BY <1>11, <2>1 DEF Fields, Acking
<1>15. Cardinality(u.pending) <= PendingDepth /\ DataFrames(u) <= SlotData
  <2>1. IsFiniteSet(before.pending) /\ d.pending \in SUBSET before.pending
    BY <1>8, <1>9, <1>12 DEF Tidy, Settled
  <2>2. /\ IsFiniteSet(d.pending) /\ Cardinality(d.pending) <= Cardinality(before.pending)
    BY <2>1, FS_Subset
  <2>3. Cardinality(d.pending) \in Nat /\ Cardinality(before.pending) \in Nat
    BY <2>1, <2>2, FS_CardinalityType
  <2>4. DataFrames(u) <= SlotData
    BY <1>11, <1>14 DEF DataFrames
  <2>. QED
    BY <1>8, <1>14, <2>2, <2>3, <2>4, DepthsAre
<1> HIDE DEF u
<1>16. y \in Fields /\ Filled(y, u, taken) /\ taken \subseteq InQueue(d.queue)
  <2>1. Tidy("slave", u.pending, d.queue)
    BY <1>12, <1>14 DEF Settled
  <2>. QED
    BY <1>14, <1>15, <2>1, Processing, ProcessedSlot
<1> HIDE DEF y, taken
<1>17. /\ z \in Fields /\ Heir(z, y) /\ z.state = y.state /\ z.tx.frames = y.tx.frames
       /\ DataOf(z.tx) = DataOf(y.tx)
  BY <1>16, FinalizeType, FinalizeSlot DEF Like
<1> HIDE DEF z
<1>18. Answers("slave", d.acked, d.nacked, taken)
  <2>1. /\ d.acked \cup d.nacked \subseteq WritesOf(before.pending) \cup InQueue(left)
        /\ InQueue(d.queue) \subseteq InQueue(left)
    BY <1>9, <1>12 DEF Settled
  <2>. QED
    BY <1>1, <1>16, <2>1, OpenWrites DEF before, left
<1>19. Acking(z) => Acking(before) \/ p.delivered # {}
  BY <1>9, <1>11, <1>14, <1>16, <1>17 DEF Heir, Filled
<1>20. DataOf(z.tx) \subseteq (IF transfer.sent THEN {} ELSE DataOf(before.tx)) \cup taken
  BY <1>9, <1>11, <1>14, <1>16, <1>17 DEF Filled
<1>21. ASSUME Orderly
       PROVE  /\ ready(z) /\ NoHello(z.tx.frames)
              /\ z.expected \in {before.expected, After(r.slot)}
              /\ p.delivered # {} => /\ z.expected = After(r.slot)
                                     /\ r.slot.hello \/ ~ Behind(r.slot.seq, before.expected)
  <2>1. /\ r.kind = "slot" /\ r.good = Len(r.slot.frames)
        /\ (r.slot.hello => JustHello(r.slot.frames)) /\ (ready(before) \/ r.slot.hello)
    BY <1>21 DEF Orderly, r, before
  <2>2. SlotParsed("slave", v, r, p) /\ (ready(v) <=> ready(before)) /\ v.expected = before.expected
    BY <1>9, <1>10, <2>1 DEF ready, Heir
  <2>3. p.ok /\ ready(p.node) /\ NoHello(p.node.tx.frames)
    BY <2>1, <2>2 DEF SlotParsed
  <2>4. x = p.node
    BY <2>3 DEF x
  <2>5. ready(z) /\ NoHello(z.tx.frames) /\ z.expected = p.node.expected
    BY <1>14, <1>16, <1>17, <2>3, <2>4 DEF ready, Filled, Heir
  <2>. QED
    BY <2>2, <2>5 DEF SlotParsed
<1>22. SlaveDid(z, d.acked, d.nacked, p.delivered, taken)
  <2>1. p.delivered \subseteq Received \cap Write
    BY <1>2, <1>10 DEF Received, r
  <2>. QED
    BY <1>2, <1>7, <1>13, <1>17, <1>18, <1>19, <1>20, <1>21, <2>1
       DEF SlaveDid, r, before
<1>. QED
  BY <1>22

\* The slot that the master's turn sends.
LEMMA PreparedSlot ==
    ASSUME NodeInv
    PROVE  /\ Prepared \in Fields /\ DataOf(Prepared.tx) = DataOf(node["master"].tx) \cup Moving
           /\ Acking(Prepared) => Acking(node["master"])
           /\ Prepared.expected = node["master"].expected /\ Prepared.state = node["master"].state
           /\ Prepared.tx.hello = node["master"].tx.hello
           /\ Prepared.tx.seq = node["master"].tx.seq
           /\ ~ ready(node["master"]) => /\ Moving = {}
                                         /\ Prepared.tx.frames = node["master"].tx.frames
<1> DEFINE v == node["master"]
           q == queue["master"]
           u == Processed(v, Waiting)
<1>1. /\ v \in Fields /\ q \in Seq(Write) /\ Tidy("master", v.pending, q)
      /\ Cardinality(v.pending) <= PendingDepth /\ DataFrames(v) <= SlotData
  BY NodesAre, NodeFacts
<1>2. Tidy("master", v.pending, Waiting) /\ (~ ready(v) => Waiting = <<>>)
  <2>1. Tidy("master", v.pending, <<>>)
    BY <1>1, NothingOpen DEF Tidy
  <2>. QED
    BY <1>1, <2>1 DEF Waiting
<1>3. Moving = Taken(v, Waiting) /\ Prepared = finalizeTx(u)
  BY DEF Moving, Prepared
<1> HIDE DEF v, q
<1>4. /\ u \in Fields /\ Filled(u, v, Moving)
      /\ Waiting = <<>> => u = v /\ Moving = {}
  BY <1>1, <1>2, <1>3, ProcessedSlot
<1> HIDE DEF u
<1>5. /\ Prepared \in Fields /\ DataOf(Prepared.tx) = DataOf(u.tx) /\ Heir(Prepared, u)
      /\ Prepared.state = u.state /\ Prepared.tx.frames = u.tx.frames
      /\ Prepared.tx.hello = u.tx.hello /\ Prepared.tx.seq = u.tx.seq
  BY <1>3, <1>4, FinalizeType, FinalizeSlot DEF Like
<1>. QED
  BY <1>2, <1>4, <1>5 DEF v, Filled, Heir

LEMMA MovingWrites ==
    ASSUME NodeInv, NEW acked, NEW nacked,
           acked \cup nacked \subseteq WritesOf(Prepared.pending) \cup InQueue(Left)
    PROVE  Answers("master", acked, nacked, Moving)
<1>1. /\ WritesOf(Prepared.pending) = WritesOf(node["master"].pending) \cup Moving
      /\ Moving \subseteq InQueue(queue["master"])
      /\ InQueue(Left) = InQueue(queue["master"]) \ Moving
  BY Preparing
<1> DEFINE sent == Moving
<1>2. /\ acked \cup nacked \subseteq WritesOf(node["master"].pending) \cup InQueue(queue["master"])
      /\ sent \subseteq InQueue(queue["master"])
  BY <1>1
<1> HIDE DEF sent
<1>3. Answers("master", acked, nacked, sent)
  BY <1>2, NodesAre, OpenWrites
<1>. QED
  BY <1>3 DEF sent

\* The master read r.
MasterDid(r, z, acked, nacked, delivered) ==
    /\ z \in Fields /\ node' = [node EXCEPT !["master"] = z]
    /\ req' = History(acked, nacked, delivered, Moving)
    /\ Answers("master", acked, nacked, Moving)
    /\ DataOf(z.tx) = {} /\ delivered \subseteq DataOf(r.slot) \cap Write
    /\ r.kind # "slot" => delivered = {}
    /\ acked # {} => r.slot.ack # NoAck
    /\ Acking(z) => Acking(node["master"]) \/ delivered # {}
    /\ NoHello(r.slot.frames) =>
          /\ ready(z) <=> z.tx.hello = FALSE
          /\ ~ ready(z) => JustHello(z.tx.frames)
    /\ r.slot.frames = <<>> /\ ready(z) => ready(node["master"])

LEMMA SlotDid ==
    ASSUME NodeInv, NEW r \in Reading, r.kind = "slot" => r.good <= Len(r.slot.frames), Slot(r)
    PROVE  \E z, acked, nacked, delivered : MasterDid(r, z, acked, nacked, delivered)
<1>1. PICK v \in {markTxConsumed(Prepared)},
           refused \in SUBSET (IF r.kind = "slot" THEN DataOf(r.slot) ELSE {}) :
        \E p \in {IF r.kind = "slot" THEN parseRx("master", v, r, refused)
                  ELSE [Parsed(v, FALSE) EXCEPT !.ok = FALSE]} :
        \E done \in {Settle(v, p, p.ok /\ p.resynced, Left)} :
            LET u == [(IF p.ok THEN p.node ELSE beginSlot(p.node)) EXCEPT
                         !.pending = done.pending,
                         !.listening = ready(p.node) /\ (p.ok \/ (@ /\ ~ p.resynced))]
            IN  /\ node' = [node EXCEPT !["master"] = Greeting(u)]
                /\ queue' = [queue EXCEPT !["master"] = done.queue]
                /\ req' = History(done.acked, done.nacked, p.delivered, Moving)
  BY DEF Slot
<1>2. PICK p \in {IF r.kind = "slot" THEN parseRx("master", v, r, refused)
                  ELSE [Parsed(v, FALSE) EXCEPT !.ok = FALSE]} :
        \E done \in {Settle(v, p, p.ok /\ p.resynced, Left)} :
            LET u == [(IF p.ok THEN p.node ELSE beginSlot(p.node)) EXCEPT
                         !.pending = done.pending,
                         !.listening = ready(p.node) /\ (p.ok \/ (@ /\ ~ p.resynced))]
            IN  /\ node' = [node EXCEPT !["master"] = Greeting(u)]
                /\ queue' = [queue EXCEPT !["master"] = done.queue]
                /\ req' = History(done.acked, done.nacked, p.delivered, Moving)
  BY <1>1
<1>3. PICK d : d = Settle(v, p, p.ok /\ p.resynced, Left) /\
            LET u == [(IF p.ok THEN p.node ELSE beginSlot(p.node)) EXCEPT
                         !.pending = d.pending,
                         !.listening = ready(p.node) /\ (p.ok \/ (@ /\ ~ p.resynced))]
            IN  /\ node' = [node EXCEPT !["master"] = Greeting(u)]
                /\ queue' = [queue EXCEPT !["master"] = d.queue]
                /\ req' = History(d.acked, d.nacked, p.delivered, Moving)
  BY <1>2
<1> DEFINE x == IF p.ok THEN p.node ELSE beginSlot(p.node)
           u == [x EXCEPT !.pending = d.pending,
                          !.listening = ready(p.node) /\ (p.ok \/ (@ /\ ~ p.resynced))]
           z == Greeting(u)
<1>4. /\ node' = [node EXCEPT !["master"] = z]
      /\ req' = History(d.acked, d.nacked, p.delivered, Moving)
  BY <1>3
<1>5. /\ Prepared \in Fields /\ Tidy("master", Prepared.pending, Left)
      /\ Acking(Prepared) => Acking(node["master"])
      /\ Prepared.state = node["master"].state
  BY Preparing, PreparedSlot
<1>6. /\ Like(v, Prepared, {}) /\ Heir(v, Prepared) /\ v.state = Prepared.state /\ Empty(v.tx)
  BY <1>1, <1>5, ConsumedType, ConsumedSlot
<1>7. v \in Fields /\ v.pending = Prepared.pending /\ DataOf(v.tx) = {}
  BY <1>6 DEF Like
<1>8. /\ Like(p.node, v, {}) /\ p.ok \in BOOLEAN /\ p.resynced \in BOOLEAN
      /\ p.delivered \subseteq DataOf(r.slot) \cap Write /\ p.ack \in {NoAck, r.slot.ack}
      /\ Acking(p.node) => Acking(v) \/ p.delivered # {}
      /\ r.kind # "slot" => p.delivered = {}
      /\ NoHello(r.slot.frames) => p.node.tx.hello = FALSE
      /\ r.slot.frames = <<>> /\ ready(p.node) => ready(v)
  <2>1. CASE r.kind = "slot"
    <3>1. /\ Of(parseRx("master", v, r, refused), v)
          /\ SlotParsed("master", v, r, parseRx("master", v, r, refused))
      BY <1>7, <2>1, NodesAre, ParseRxOf, ParseRxSlot
    <3>2. p = parseRx("master", v, r, refused)
      BY <1>2, <2>1
    <3>3. p \in ParsedType /\ Like(p.node, v, {}) /\ SlotParsed("master", v, r, p)
      BY <3>1, <3>2 DEF Of
    <3>. QED
      BY <2>1, <3>3 DEF ParsedType, SlotParsed
  <2>2. CASE r.kind # "slot"
    <3>1. p = [Parsed(v, FALSE) EXCEPT !.ok = FALSE]
      BY <1>2, <2>2
    <3>2. p.node = v /\ p.ok = FALSE /\ p.resynced = FALSE /\ p.delivered = {} /\ p.ack = NoAck
      BY <3>1 DEF Parsed
    <3>. QED
      BY <1>6, <1>7, <3>2 DEF Like, Empty
  <2>. QED
    BY <2>1, <2>2
<1>9. /\ x \in Fields /\ DataOf(x.tx) = {} /\ x.state = p.node.state
      /\ Acking(x) => Acking(p.node)
      /\ NoHello(r.slot.frames) => x.tx.hello = FALSE
  <2>1. /\ Like(beginSlot(p.node), p.node, {}) /\ Heir(beginSlot(p.node), p.node)
        /\ beginSlot(p.node).state = p.node.state /\ Empty(beginSlot(p.node).tx)
    BY <1>8, BeginType, BeginSlot DEF Like
  <2>. QED
    BY <1>8, <2>1 DEF Like, Heir, Empty
<1>10. Settled("master", v.pending, Left, d)
  <2> DEFINE failed == p.ok /\ p.resynced
  <2>1. failed \in BOOLEAN /\ Tidy("master", v.pending, Left) /\ d = Settle(v, p, failed, Left)
    BY <1>3, <1>5, <1>7, <1>8
  <2> HIDE DEF failed
  <2>. QED
    BY <2>1, Settling
<1>11. d.acked # {} => r.slot.ack # NoAck
  <2>1. d.acked = WritesOf(AckedBy(v, p))
    BY <1>3 DEF Settle
  <2>2. p.ack = NoAck => d.acked = {}
    BY <2>1 DEF AckedBy, WritesOf
  <2>. QED
    BY <1>8, <2>2
<1>12. /\ u \in Fields /\ u.tx = x.tx /\ u.state = x.state /\ (Acking(u) <=> Acking(x))
  <2>1. d.pending \in SUBSET Entry
    BY <1>10 DEF Settled, Tidy
  <2> DEFINE b == ready(p.node) /\ (p.ok \/ (x.listening /\ ~ p.resynced))
  <2>2. b \in BOOLEAN
    OBVIOUS
  <2>3. u = [x EXCEPT !.pending = d.pending, !.listening = b]
    BY <1>9 DEF Fields
  <2> HIDE DEF x, b, u
  <2>. QED
    BY <1>9, <2>1, <2>2, <2>3 DEF Fields, Acking
<1> HIDE DEF x, u
<1>13. /\ z \in Fields /\ DataOf(z.tx) = {} /\ (Acking(z) => Acking(u))
       /\ (ready(z) <=> ready(u))
       /\ (ready(u) => z.tx = u.tx)
       /\ (~ ready(u) => z.tx.hello /\ JustHello(z.tx.frames))
  <2>1. CASE ready(u)
    BY <1>9, <1>12, <2>1 DEF Greeting
  <2>2. CASE ~ ready(u)
    <3>1. z = queueHello(u)
      BY <2>2 DEF Greeting
    <3>2. /\ Like(queueHello(u), u, {}) /\ Heir(queueHello(u), u)
          /\ queueHello(u).state = "HelloSent" /\ queueHello(u).tx.hello
          /\ JustHello(queueHello(u).tx.frames)
      BY <1>12, QueueHelloType, QueueHelloSlot
    <3> HIDE DEF z
    <3>. QED
      BY <2>2, <3>1, <3>2 DEF Like, Heir, ready
  <2>. QED
    BY <2>1, <2>2
<1> HIDE DEF z
<1>14. Answers("master", d.acked, d.nacked, Moving)
  <2>1. d.acked \cup d.nacked \subseteq WritesOf(Prepared.pending) \cup InQueue(Left)
    BY <1>7, <1>10 DEF Settled
  <2>. QED
    BY <2>1, MovingWrites
<1>15. Acking(z) => Acking(node["master"]) \/ p.delivered # {}
  BY <1>5, <1>6, <1>8, <1>9, <1>12, <1>13 DEF Heir
<1>16. (ready(z) <=> ready(p.node)) /\ (ready(v) <=> ready(node["master"]))
  BY <1>5, <1>6, <1>9, <1>12, <1>13 DEF ready
<1>17. NoHello(r.slot.frames) => /\ ready(z) <=> z.tx.hello = FALSE
                                 /\ ~ ready(z) => JustHello(z.tx.frames)
  BY <1>9, <1>12, <1>13
<1>18. MasterDid(r, z, d.acked, d.nacked, p.delivered)
  BY <1>4, <1>8, <1>11, <1>13, <1>14, <1>15, <1>16, <1>17 DEF MasterDid
<1>. QED
  BY <1>18

(***************************************************************************)
(* The second invariant: where a write is on its way, how often it was     *)
(* delivered, and what the ends know of each other.                        *)
(***************************************************************************)
\* A write in a slot is one of its sender's and has left the queue; before that
\* it has not been delivered.
Placed ==
    /\ \A n \in Node : \A w \in DataOf(node[n].tx) : Owner(w) = n /\ req[w].at \notin Unsent
    /\ \A w \in Received : Owner(w) = "master" /\ req[w].at \notin Unsent
    /\ \A w \in Write : req[w].at \in Unsent => req[w].delivered = 0

\* The master reads a slot of the slave once: a slot that it took is the one that
\* the slave's next step drops.
SlaveOnce ==
    /\ \A w \in Write : Owner(w) = "slave" => req[w].delivered <= 1
    /\ transfer.got = None \/ ~ transfer.sent
          => \A w \in DataOf(node["slave"].tx) : req[w].delivered = 0

MasterOnce == \A w \in Write : Owner(w) = "master" => req[w].delivered <= 1

\* While the master heard every slot of the slave, it keeps a slot of its own only
\* when the slave had armed no transfer, and so has not read it.
Heeded ==
    "toMaster" \notin faults.kinds =>
        /\ MasterOnce
        /\ \A w \in DataOf(node["master"].tx) \cup Received : req[w].delivered = 0
        /\ DataOf(node["master"].tx) \cap Received = {}

\* While the slave read every slot whole and never restarted, its first step makes
\* it ready for good: it sends no hello, and the master sends one alone in a slot,
\* as long as the master is not ready.
Shaken ==
    /\ ready(node["master"]) <=> node["master"].tx.hello = FALSE
    /\ node["master"].tx.hello => JustHello(node["master"].tx.frames)
    /\ NoHello(node["slave"].tx.frames)
    /\ transfer.got # None =>
          /\ transfer.got.kind = "slot" /\ transfer.got.good = Len(transfer.got.slot.frames)
          /\ transfer.got.slot.hello => JustHello(transfer.got.slot.frames)
    /\ ~ ready(node["slave"]) =>
          /\ node["slave"].tx.frames = <<>> /\ ~ ready(node["master"])
          /\ transfer.got # None => transfer.got.slot.hello

\* A slot that the slave took and the master still holds is the last one that the
\* slave took: the slave expects the number after it, also when it reads it again.
Recognised ==
    /\ transfer.got = None =>
          \A w \in DataOf(node["master"].tx) :
             req[w].delivered > 0 => node["slave"].expected = After(node["master"].tx)
    /\ transfer.got # None =>
          /\ \A w \in DataOf(node["master"].tx) \cup Received :
                req[w].delivered > 0 => /\ ~ transfer.got.slot.hello
                                        /\ node["slave"].expected = After(transfer.got.slot)
          /\ \A w \in DataOf(node["master"].tx) :
                req[w].delivered > 0 \/ w \in Received
                    => transfer.got.slot.seq = node["master"].tx.seq

Steady == faults.kinds \cap {"toSlave", "reboot"} = {} => MasterOnce /\ Shaken /\ Recognised

\* A write of node n reached the peer's handler.
Reached(n) == \E w \in Write : Owner(w) = n /\ req[w].delivered > 0

\* An end acknowledges only what it took, and a slot on its way is no exception.
Acknowledges ==
    /\ AcksEarned
    /\ Acking(node["master"]) => Reached("slave")
    /\ Acking(node["slave"]) => Reached("master")
    /\ transfer.got # None /\ transfer.got.slot.ack # NoAck => Reached("slave")

Delivering == Placed /\ SlaveOnce /\ Heeded /\ Steady /\ Acknowledges

LEMMA OwnersAre == Node = {"master", "slave"} /\ \A w : Owner(w) \in {"master", "slave"}
BY DEF Node, Owner

LEMMA DeliveringInit == Init => Delivering
<1> SUFFICES ASSUME Init PROVE Delivering
  OBVIOUS
<1>1. /\ node["master"] = NodeInit("master") /\ node["slave"] = NodeInit("slave")
      /\ transfer.got = None /\ transfer.sent = FALSE
      /\ \A w \in Write : req[w].at = "new" /\ req[w].delivered = 0
  BY OwnersAre DEF Init, Armed
<1>2. Fresh \in Fields
  <2>1. BlankSlot(0) \in Slots
    BY Numbers, BlankType
  <2>. QED
    BY <2>1, Numbers DEF Fresh, Fields
<1>3. \A n \in Node : /\ reset(n, Fresh) \in Fields /\ ~ Acking(reset(n, Fresh))
                      /\ reset(n, Fresh).state = "Initial" /\ Empty(reset(n, Fresh).tx)
                      /\ DataOf(reset(n, Fresh).tx) = {}
  BY <1>2, ResetType, ResetSlot DEF Like
<1>4. /\ ~ Acking(node["slave"]) /\ Empty(node["slave"].tx) /\ DataOf(node["slave"].tx) = {}
      /\ ~ ready(node["slave"])
  BY <1>1, <1>3, OwnersAre DEF NodeInit, ready
<1>5. /\ ~ Acking(node["master"]) /\ DataOf(node["master"].tx) = {} /\ ~ ready(node["master"])
      /\ node["master"].tx.hello /\ JustHello(node["master"].tx.frames)
  <2> DEFINE v == reset("master", Fresh)
  <2>1. v \in Fields /\ ~ Acking(v)
    BY <1>3, OwnersAre
  <2>2. node["master"] = queueHello(v)
    BY <1>1 DEF NodeInit
  <2> HIDE DEF v
  <2>. QED
    BY <2>1, <2>2, QueueHelloType, QueueHelloSlot DEF Like, Heir, ready
<1>6. Received = {}
  BY <1>1 DEF Received
<1>7. Placed
  BY <1>1, <1>4, <1>5, <1>6, OwnersAre DEF Placed
<1>8. SlaveOnce /\ MasterOnce
  BY <1>1, <1>4 DEF SlaveOnce, MasterOnce
<1>9. Heeded
  BY <1>5, <1>6, <1>8 DEF Heeded
<1>10. Shaken
  <2>1. NoHello(node["slave"].tx.frames)
    BY <1>4 DEF Empty, NoHello
  <2>. QED
    BY <1>1, <1>4, <1>5, <2>1 DEF Shaken, Empty
<1>11. Recognised
  BY <1>1, <1>5 DEF Recognised
<1>12. Acknowledges
  BY <1>1, <1>4, <1>5 DEF Acknowledges, AcksEarned
<1>. QED
  BY <1>7, <1>8, <1>9, <1>10, <1>11, <1>12 DEF Delivering, Steady

\* What the calls of a step make of the writes.
LEMMA Calls ==
    ASSUME NodeInv, NEW n, NEW acked, NEW nacked, NEW delivered, NEW taken,
           Answers(n, acked, nacked, taken), req' = History(acked, nacked, delivered, taken)
    PROVE  \A w \in Write :
             /\ req[w].delivered \in Nat /\ req'[w].delivered \in Nat
             /\ w \in delivered => req'[w].delivered = req[w].delivered + 1
             /\ w \notin delivered => req'[w].delivered = req[w].delivered
             /\ req'[w].at \in Unsent => req[w].at \in Unsent /\ w \notin taken
             /\ req'[w].at = "acked" => req[w].at = "acked" \/ w \in acked
<1> SUFFICES ASSUME NEW w \in Write
             PROVE  /\ req[w].delivered \in Nat /\ req'[w].delivered \in Nat
                    /\ w \in delivered => req'[w].delivered = req[w].delivered + 1
                    /\ w \notin delivered => req'[w].delivered = req[w].delivered
                    /\ req'[w].at \in Unsent => req[w].at \in Unsent /\ w \notin taken
                    /\ req'[w].at = "acked" => req[w].at = "acked" \/ w \in acked
  OBVIOUS
<1>1. req[w] \in ReqType
  BY DEF NodeInv
<1>2. /\ req'[w].at = IF w \in acked THEN "acked" ELSE IF w \in nacked THEN "nacked"
                      ELSE IF w \in taken THEN "sent" ELSE req[w].at
      /\ req'[w].delivered = req[w].delivered + (IF w \in delivered THEN 1 ELSE 0)
  BY DEF History
<1>3. req[w].delivered \in Nat
  BY <1>1 DEF ReqType
<1>4. /\ req'[w].delivered \in Nat
      /\ w \in delivered => req'[w].delivered = req[w].delivered + 1
      /\ w \notin delivered => req'[w].delivered = req[w].delivered
  BY <1>2, <1>3
<1>5. /\ req'[w].at \in Unsent => req[w].at \in Unsent /\ w \notin taken
      /\ req'[w].at = "acked" => req[w].at = "acked" \/ w \in acked
  BY <1>2 DEF Unsent, Answers
<1>. QED
  BY <1>3, <1>4, <1>5

LEMMA SlotContents ==
    ASSUME NEW slot \in Slots
    PROVE  /\ DataOf(slot) \subseteq Write
           /\ JustHello(slot.frames) => DataOf(slot) = {}
           /\ slot.frames = <<>> => DataOf(slot) = {} /\ NoHello(slot.frames)
<1>1. slot.frames \in Seq(Frames)
  BY DEF Slots
<1>2. \A i \in DOMAIN slot.frames : slot.frames[i] \in Frames
  BY <1>1
<1>3. DataOf(slot) \subseteq Write
  BY <1>2 DEF DataOf, Frames
<1>4. ASSUME JustHello(slot.frames)
      PROVE  DataOf(slot) = {}
  <2>1. DOMAIN slot.frames = {1} /\ slot.frames[1].type = "Hello"
    BY <1>1, <1>4 DEF JustHello
  <2>2. slot.frames[1].write \notin Write
    BY <1>2, <2>1 DEF Frames
  <2>. QED
    BY <1>3, <2>1, <2>2 DEF DataOf
<1>. QED
  BY <1>3, <1>4 DEF DataOf, NoHello

\* The slots of a state.
LEMMA SlotFacts ==
    ASSUME IInv
    PROVE  /\ node["master"] \in Fields /\ node["slave"] \in Fields
           /\ node["master"].tx \in Slots /\ node["slave"].tx \in Slots
           /\ DataOf(node["master"].tx) \subseteq Write /\ DataOf(node["slave"].tx) \subseteq Write
           /\ Received \subseteq Write
           /\ transfer.got # None => transfer.got \in Reading /\ transfer.got.slot \in Slots
<1>1. /\ node["master"] \in Fields /\ node["slave"] \in Fields
      /\ node["master"].tx \in Slots /\ node["slave"].tx \in Slots
  BY IInvIs, NodesAre, NodeFacts, FieldsOf
<1>2. transfer.got # None => transfer.got \in Reading /\ transfer.got.slot \in Slots
  BY DEF IInv, Typed, Reading
<1>. QED
  BY <1>1, <1>2, SlotContents DEF Received

\* A step of the users or a timeout: it touches no slot and delivers nothing.
LEMMA CalmDelivering ==
    ASSUME IInv, Delivering, transfer' = transfer, faults' = faults,
           \A n \in Node : /\ node'[n].tx = node[n].tx /\ node'[n].state = node[n].state
                           /\ node'[n].expected = node[n].expected
                           /\ node'[n].ackDue = node[n].ackDue
                           /\ node'[n].ackSent = node[n].ackSent,
           \A w \in Write : /\ req'[w].delivered = req[w].delivered
                            /\ req'[w].at \in Unsent => req[w].at \in Unsent
                            /\ req'[w].at = "acked" => req[w].at = "acked"
    PROVE  Delivering'
<1>1. /\ DataOf(node["master"].tx) \subseteq Write /\ DataOf(node["slave"].tx) \subseteq Write
      /\ Received \subseteq Write
  BY SlotFacts
<1>2. Received' = Received
  BY DEF Received
<1>3. ASSUME NEW n \in Node
      PROVE  /\ node'[n].tx = node[n].tx /\ DataOf(node'[n].tx) = DataOf(node[n].tx)
             /\ node'[n].expected = node[n].expected
             /\ (Acking(node'[n]) <=> Acking(node[n])) /\ (ready(node'[n]) <=> ready(node[n]))
  BY DEF Acking, ready
<1>4. \A n \in Node : (Reached(n) => Reached(n)')
  BY DEF Reached
<1>5. Placed'
  BY <1>1, <1>2, <1>3, OwnersAre DEF Delivering, Placed
<1>6. SlaveOnce'
  BY <1>1, <1>3, OwnersAre DEF Delivering, SlaveOnce
<1>7. MasterOnce => MasterOnce'
  BY DEF MasterOnce
<1>8. Heeded'
  BY <1>1, <1>2, <1>3, <1>7, OwnersAre DEF Delivering, Heeded
<1>9. Shaken => Shaken'
  BY <1>3, OwnersAre DEF Shaken
<1>10. Recognised => Recognised'
  BY <1>1, <1>2, <1>3, OwnersAre DEF Recognised
<1>11. Acknowledges'
  BY <1>3, <1>4, OwnersAre DEF Delivering, Acknowledges, AcksEarned, Reached
<1>. QED
  BY <1>5, <1>6, <1>7, <1>8, <1>9, <1>10, <1>11 DEF Delivering, Steady

LEMMA CheckDelivers ==
    ASSUME IInv, Delivering, NEW w \in Write, Check(w)
    PROVE  Delivering'
<1>1. /\ req[w].at = "new" /\ req' = [req EXCEPT ![w].at = "checked"]
      /\ node' = node /\ transfer' = transfer /\ faults' = faults
  BY DEF Check
<1>2. \A u \in Write : req[u] \in ReqType
  BY DEF IInv, Typed
<1>3. \A u \in Write : /\ req'[u].delivered = req[u].delivered
                       /\ req'[u].at \in Unsent => req[u].at \in Unsent
                       /\ req'[u].at = "acked" => req[u].at = "acked"
  BY <1>1, <1>2 DEF ReqType, Unsent, IInv, Typed
<1>. QED
  BY <1>1, <1>3, CalmDelivering

LEMMA EnqueueDelivers ==
    ASSUME IInv, Delivering, NEW w \in Write, Enqueue(w)
    PROVE  Delivering'
<1>1. /\ req[w].at = "checked"
      /\ req' \in {[req EXCEPT ![w].at = "queued"], [req EXCEPT ![w].at = "gone"]}
      /\ node' = node /\ transfer' = transfer /\ faults' = faults
  BY DEF Enqueue
<1>2. req \in [Write -> ReqType] /\ \A u \in Write : req[u] \in ReqType
  BY DEF IInv, Typed
<1>3. ASSUME NEW to \in {"queued", "gone"}, req' = [req EXCEPT ![w].at = to], NEW u \in Write
      PROVE  /\ req'[u].delivered = req[u].delivered
             /\ req'[u].at \in Unsent => req[u].at \in Unsent
             /\ req'[u].at = "acked" => req[u].at = "acked"
  BY <1>1, <1>2, <1>3 DEF ReqType, Unsent
<1>4. \A u \in Write : /\ req'[u].delivered = req[u].delivered
                       /\ req'[u].at \in Unsent => req[u].at \in Unsent
                       /\ req'[u].at = "acked" => req[u].at = "acked"
  BY <1>1, <1>3
<1>. QED
  BY <1>1, <1>4, CalmDelivering

LEMMA ExpireDelivers ==
    ASSUME IInv, Delivering, NEW n \in Node, Expire(n)
    PROVE  Delivering'
<1>1. NodeInv
  BY IInvIs
<1>2. PICK e \in node[n].pending :
        /\ node' = [node EXCEPT ![n].pending = @ \ {e}]
        /\ req' = History({}, {e.write}, {}, {})
  BY DEF Expire
<1>3. transfer' = transfer /\ faults' = faults
  BY DEF Expire
<1> DEFINE none == {}
           one == {e.write}
<1>4. Answers(n, none, one, none)
  <2>1. none \cup one \subseteq WritesOf(node[n].pending) \cup InQueue(queue[n])
        /\ none \subseteq InQueue(queue[n])
    BY DEF WritesOf
  <2> HIDE DEF none, one
  <2>. QED
    BY <1>1, <2>1, OpenWrites
<1>5. req' = History(none, one, none, none)
  BY <1>2
<1> HIDE DEF one, none
<1>6. \A w \in Write :
        /\ w \notin none => req'[w].delivered = req[w].delivered
        /\ req'[w].at \in Unsent => req[w].at \in Unsent
        /\ req'[w].at = "acked" => req[w].at = "acked" \/ w \in none
  BY <1>1, <1>4, <1>5, Calls
<1>7. \A w : w \notin none
  BY DEF none
<1>8. \A m \in Node : node[m] \in Fields
  BY <1>1, NodeFacts
<1>9. \A m \in Node : /\ node'[m].tx = node[m].tx /\ node'[m].state = node[m].state
                      /\ node'[m].expected = node[m].expected
                      /\ node'[m].ackDue = node[m].ackDue
                      /\ node'[m].ackSent = node[m].ackSent
  BY <1>1, <1>2, <1>8 DEF NodeInv, Fields
<1>. QED
  BY <1>3, <1>6, <1>7, <1>9, CalmDelivering

LEMMA RebootDelivers ==
    ASSUME IInv, Delivering, NEW n \in Node, Reboot(n)
    PROVE  Delivering'
<1>1. NodeInv
  BY IInvIs
<1>2. /\ node' = [node EXCEPT ![n] = NodeInit(n)]
      /\ transfer' = IF n = "slave" THEN Armed ELSE transfer
      /\ faults'.kinds = faults.kinds \cup {"reboot"}
  BY DEF Reboot, Faulted
<1>3. \A w \in Write :
        /\ req'[w].delivered = req[w].delivered
        /\ req'[w].at \in Unsent => req[w].at \in Unsent
        /\ req'[w].at = "acked" => req[w].at = "acked"
  <2> SUFFICES ASSUME NEW w \in Write
               PROVE  /\ req'[w].delivered = req[w].delivered
                      /\ req'[w].at \in Unsent => req[w].at \in Unsent
                      /\ req'[w].at = "acked" => req[w].at = "acked"
    OBVIOUS
  <2>1. req'[w] = IF Owner(w) = n /\ req[w].at \in {"checked", "queued", "sent"}
                  THEN [req[w] EXCEPT !.at = "gone"] ELSE req[w]
    BY DEF Reboot
  <2>2. req[w] \in ReqType
    BY <1>1 DEF NodeInv
  <2>. QED
    BY <2>1, <2>2 DEF ReqType, Unsent
<1>4. node'[n] = NodeInit(n) /\ \A m \in Node : m # n => node'[m] = node[m]
  BY <1>1, <1>2 DEF NodeInv
<1>5. ~ Acking(NodeInit(n)) /\ DataOf(NodeInit(n).tx) = {}
  <2>1. Fresh \in Fields
    <3>1. BlankSlot(0) \in Slots
      BY Numbers, BlankType
    <3>. QED
      BY <3>1, Numbers DEF Fresh, Fields
  <2> DEFINE v == reset(n, Fresh)
  <2>2. v \in Fields /\ ~ Acking(v) /\ DataOf(v.tx) = {}
    BY <2>1, ResetType, ResetSlot DEF Like
  <2> HIDE DEF v
  <2>3. ~ Acking(queueHello(v)) /\ DataOf(queueHello(v).tx) = {}
    BY <2>2, QueueHelloType, QueueHelloSlot DEF Like, Heir
  <2>4. NodeInit(n) \in {v, queueHello(v)}
    BY DEF NodeInit, v
  <2>. QED
    BY <2>2, <2>3, <2>4
<1>6. /\ Received' \subseteq Received
      /\ transfer.got # None /\ n # "slave" => transfer' = transfer
      /\ transfer'.got = None => Received' = {}
      /\ transfer'.got # None => transfer' = transfer /\ n # "slave"
  BY <1>2 DEF Received, Armed
<1>7. /\ DataOf(node["master"].tx) \subseteq Write /\ DataOf(node["slave"].tx) \subseteq Write
      /\ Received \subseteq Write
  BY SlotFacts
<1>8. /\ node'["master"] \in {node["master"], NodeInit(n)}
      /\ node'["slave"] \in {node["slave"], NodeInit(n)}
      /\ n = "slave" => node'["slave"] = NodeInit(n)
      /\ n # "slave" => transfer' = transfer
  BY <1>2, <1>4, OwnersAre
<1>9. \A m : Reached(m) => Reached(m)'
  BY <1>3 DEF Reached
<1>10. Placed'
  <2>1. \A m \in Node : DataOf(node'[m].tx) \subseteq DataOf(node[m].tx)
    BY <1>4, <1>5
  <2>. QED
    BY <1>3, <1>6, <1>7, <2>1, OwnersAre DEF Delivering, Placed
<1>11. SlaveOnce'
  <2>1. \A w \in DataOf(node'["slave"].tx) :
           w \in DataOf(node["slave"].tx) /\ node'["slave"] = node["slave"] /\ n # "slave"
    BY <1>5, <1>8
  <2>. QED
    BY <1>3, <1>7, <1>8, <2>1 DEF Delivering, SlaveOnce
<1>12. MasterOnce => MasterOnce'
  BY <1>3 DEF MasterOnce
<1>13. Heeded'
  <2>1. DataOf(node'["master"].tx) \subseteq DataOf(node["master"].tx)
    BY <1>5, <1>8
  <2>. QED
    BY <1>2, <1>3, <1>6, <1>7, <1>12, <2>1 DEF Delivering, Heeded
<1>14. Steady'
  BY <1>2 DEF Steady
<1>15. AcksEarned'
  BY <1>3, <1>9 DEF Delivering, Acknowledges, AcksEarned, Reached
<1>16. Acknowledges'
  BY <1>5, <1>6, <1>8, <1>9, <1>15 DEF Delivering, Acknowledges
<1>. QED
  BY <1>10, <1>11, <1>13, <1>14, <1>16 DEF Delivering

\* The slot before the one that is expected is behind it.
LEMMA NextIsBehind ==
    ASSUME NEW s \in SlotNo
    PROVE  Behind(s, (s + 1) % SlotMod)
<1>1. SlotMod \in Nat /\ SlotMod > 2 /\ SlotMod % 2 = 0
  BY SpiAssumption
<1>2. s \in Int /\ 0 <= s /\ s < SlotMod
  BY <1>1 DEF SlotNo
<1>3. (s + 1) % SlotMod = IF s + 1 = SlotMod THEN 0 ELSE s + 1
  BY <1>1, <1>2
<1>4. (((s + 1) % SlotMod) - s) % SlotMod = 1
  <2>1. CASE s + 1 = SlotMod
    <3>1. ((s + 1) % SlotMod) - s = 1 - SlotMod
      BY <1>1, <1>2, <1>3, <2>1
    <3>2. (1 - SlotMod) % SlotMod = 1
      BY <1>1
    <3>. QED
      BY <3>1, <3>2
  <2>2. CASE s + 1 # SlotMod
    BY <1>1, <1>2, <1>3, <2>2
  <2>. QED
    BY <2>1, <2>2
<1>5. SlotMod \div 2 - 1 >= 1
  BY <1>1
<1>. QED
  BY <1>1, <1>4, <1>5 DEF Behind

LEMMA SlaveStepDelivers ==
    ASSUME IInv, Delivering, SlaveStep
    PROVE  Delivering'
<1>1. PICK z, acked, nacked, delivered, taken : SlaveDid(z, acked, nacked, delivered, taken)
  BY SlaveStepDid
<1>2. NodeInv
  BY IInvIs
<1>3. /\ transfer.got # None /\ transfer'.got = None /\ transfer'.sent = FALSE
      /\ faults' = faults /\ Received' = {}
      /\ node'["slave"] = z /\ node'["master"] = node["master"]
      /\ Answers("slave", acked, nacked, taken) /\ req' = History(acked, nacked, delivered, taken)
      /\ delivered \subseteq Received \cap Write
  BY <1>1, <1>2, NodesAre DEF SlaveDid, Armed, Received, NodeInv
<1>4. \A w \in Write :
        /\ req[w].delivered \in Nat /\ req'[w].delivered \in Nat
        /\ w \in delivered => req'[w].delivered = req[w].delivered + 1
        /\ w \notin delivered => req'[w].delivered = req[w].delivered
        /\ req'[w].at \in Unsent => req[w].at \in Unsent /\ w \notin taken
        /\ req'[w].at = "acked" => req[w].at = "acked" \/ w \in acked
  BY <1>2, <1>3, Calls
<1>5. /\ DataOf(node["master"].tx) \subseteq Write /\ DataOf(node["slave"].tx) \subseteq Write
      /\ Received \subseteq Write
  BY SlotFacts
<1>6. \A w \in delivered : w \in Write /\ Owner(w) = "master" /\ req[w].at \notin Unsent
  BY <1>3 DEF Delivering, Placed
<1>7. \A w \in taken : w \in Write /\ Owner(w) = "slave" /\ req[w].delivered = 0 /\ w \notin delivered
  BY <1>3, <1>6, OwnersAre DEF Delivering, Placed, Answers, Unsent
<1>8. /\ DataOf(z.tx) \subseteq (IF transfer.sent THEN {} ELSE DataOf(node["slave"].tx)) \cup taken
      /\ DataOf(z.tx) \subseteq DataOf(node["slave"].tx) \cup taken
  BY <1>1 DEF SlaveDid
<1>9. Placed'
  <2>1. \A w \in DataOf(node'["slave"].tx) : Owner(w) = "slave" /\ req'[w].at \notin Unsent
    BY <1>3, <1>4, <1>5, <1>7, <1>8, OwnersAre DEF Delivering, Placed
  <2>2. \A w \in DataOf(node'["master"].tx) : Owner(w) = "master" /\ req'[w].at \notin Unsent
    BY <1>3, <1>4, <1>5, OwnersAre DEF Delivering, Placed
  <2>3. \A w \in Write : req'[w].at \in Unsent => req'[w].delivered = 0
    BY <1>4, <1>6 DEF Delivering, Placed
  <2>. QED
    BY <1>3, <2>1, <2>2, <2>3, OwnersAre DEF Placed
<1>10. SlaveOnce'
  <2>1. \A w \in Write : Owner(w) = "slave" => req'[w].delivered = req[w].delivered
    BY <1>4, <1>6
  <2>2. \A w \in DataOf(z.tx) : req'[w].delivered = 0
    <3> SUFFICES ASSUME NEW w \in DataOf(z.tx) PROVE req'[w].delivered = 0
      OBVIOUS
    <3>1. CASE w \in taken
      BY <1>4, <1>7, <3>1
    <3>2. CASE w \notin taken
      <4>1. ~ transfer.sent /\ w \in DataOf(node["slave"].tx) /\ w \in Write
        BY <1>5, <1>8, <3>2
      <4>2. req[w].delivered = 0 /\ Owner(w) = "slave"
        BY <4>1, OwnersAre DEF Delivering, SlaveOnce, Placed
      <4>. QED
        BY <2>1, <4>1, <4>2
    <3>. QED
      BY <3>1, <3>2
  <2>. QED
    BY <1>3, <2>1, <2>2 DEF Delivering, SlaveOnce
<1>11. Heeded'
  <2> SUFFICES ASSUME "toMaster" \notin faults.kinds
               PROVE  /\ MasterOnce'
                      /\ \A w \in DataOf(node["master"].tx) : req'[w].delivered = 0
    BY <1>3 DEF Heeded
  <2>1. /\ MasterOnce /\ \A w \in DataOf(node["master"].tx) \cup Received : req[w].delivered = 0
        /\ DataOf(node["master"].tx) \cap Received = {}
    BY DEF Delivering, Heeded
  <2>2. MasterOnce'
    <3> SUFFICES ASSUME NEW w \in Write, Owner(w) = "master" PROVE req'[w].delivered <= 1
      BY DEF MasterOnce
    <3>1. CASE w \in delivered
      BY <1>3, <1>4, <2>1, <3>1
    <3>2. CASE w \notin delivered
      BY <1>4, <2>1, <3>2 DEF MasterOnce
    <3>. QED
      BY <3>1, <3>2
  <2>. QED
    BY <1>3, <1>4, <1>5, <2>1, <2>2
<1>12. Steady'
  <2> SUFFICES ASSUME faults.kinds \cap {"toSlave", "reboot"} = {}
               PROVE  MasterOnce' /\ Shaken' /\ Recognised'
    BY <1>3 DEF Steady
  <2>1. MasterOnce /\ Shaken /\ Recognised
    BY DEF Delivering, Steady
  <2>2. Orderly
    BY <1>3, <2>1 DEF Orderly, Shaken
  <2>3. /\ ready(z) /\ NoHello(z.tx.frames)
        /\ z.expected \in {node["slave"].expected, After(transfer.got.slot)}
        /\ delivered # {} => /\ z.expected = After(transfer.got.slot)
                             /\ \/ transfer.got.slot.hello
                                \/ ~ Behind(transfer.got.slot.seq, node["slave"].expected)
    BY <1>1, <2>2 DEF SlaveDid
  <2>4. Shaken'
    BY <1>3, <2>1, <2>3 DEF Shaken
  <2>5. \A w \in delivered : req[w].delivered = 0
    <3> SUFFICES ASSUME NEW w \in delivered, req[w].delivered # 0 PROVE FALSE
      OBVIOUS
    <3>1. req[w].delivered > 0 /\ w \in Received
      BY <1>3, <1>4
    <3>2. ~ transfer.got.slot.hello /\ node["slave"].expected = After(transfer.got.slot)
      BY <1>3, <2>1, <3>1 DEF Recognised
    <3>3. transfer.got.slot.seq \in SlotNo
      BY <1>3, SlotFacts DEF Slots
    <3>4. Behind(transfer.got.slot.seq, node["slave"].expected)
      BY <3>2, <3>3, NextIsBehind DEF After
    <3>. QED
      BY <2>3, <3>2, <3>4
  <2>6. MasterOnce'
    BY <1>4, <2>1, <2>5 DEF MasterOnce
  <2>7. ASSUME NEW w \in DataOf(node["master"].tx), req'[w].delivered > 0
        PROVE  z.expected = After(node["master"].tx)
    <3>1. w \in Write /\ (req[w].delivered > 0 \/ w \in delivered)
      BY <1>4, <1>5, <2>7
    <3>2. transfer.got.slot.seq = node["master"].tx.seq
      BY <1>3, <2>1, <3>1 DEF Recognised
    <3>3. z.expected = After(transfer.got.slot)
      <4>1. CASE w \in delivered
        BY <2>3, <4>1
      <4>2. CASE req[w].delivered > 0
        <5>1. node["slave"].expected = After(transfer.got.slot)
          BY <1>3, <2>1, <4>2 DEF Recognised
        <5>. QED
          BY <2>3, <5>1
      <4>. QED
        BY <3>1, <4>1, <4>2
    <3>. QED
      BY <3>2, <3>3 DEF After
  <2>8. Recognised'
    BY <1>3, <2>7 DEF Recognised
  <2>. QED
    BY <2>4, <2>6, <2>8
<1>13. Acknowledges'
  <2>1. \A m : Reached(m) => Reached(m)'
    BY <1>4 DEF Reached
  <2>2. delivered # {} => Reached("master")'
    BY <1>4, <1>6 DEF Reached
  <2>3. acked # {} => Reached("slave")
    BY <1>1, <1>3 DEF SlaveDid, Delivering, Acknowledges
  <2>4. AcksEarned'
    <3> SUFFICES ASSUME NEW m \in Node, NEW w \in Write, Owner(w) = m, req'[w].at = "acked"
                 PROVE  Reached(m)'
      BY DEF AcksEarned, Reached
    <3>1. CASE req[w].at = "acked"
      <4>1. Reached(m)
        BY <3>1 DEF Delivering, Acknowledges, AcksEarned, Reached
      <4>. QED
        BY <2>1, <4>1
    <3>2. CASE w \in acked
      BY <1>3, <2>1, <2>3, <3>2 DEF Answers
    <3>. QED
      BY <1>4, <3>1, <3>2
  <2>5. Acking(z) => Reached("master")'
    BY <1>1, <2>1, <2>2 DEF SlaveDid, Delivering, Acknowledges
  <2>. QED
    BY <1>3, <2>1, <2>4, <2>5 DEF Delivering, Acknowledges
<1>. QED
  BY <1>9, <1>10, <1>11, <1>12, <1>13 DEF Delivering

\* A turn that changed nothing but the slot the master holds: the slave's transfer
\* was not armed, or the driver failed before it clocked anything.
LEMMA HeldDelivers ==
    ASSUME IInv, Delivering, NoSlot, transfer' = transfer,
           faults'.kinds \in {faults.kinds, faults.kinds \cup {"bus"}}
    PROVE  Delivering'
<1> DEFINE none == {}
<1>1. NodeInv /\ node' = [node EXCEPT !["master"] = Prepared]
      /\ req' = History(none, none, none, Moving)
  BY IInvIs DEF NoSlot
<1>2. Answers("master", none, none, Moving)
  BY <1>1, MovingWrites
<1> HIDE DEF none
<1>3. \A w \in Write :
        /\ req[w].delivered \in Nat
        /\ w \notin none => req'[w].delivered = req[w].delivered
        /\ req'[w].at \in Unsent => req[w].at \in Unsent /\ w \notin Moving
        /\ req'[w].at = "acked" => req[w].at = "acked" \/ w \in none
  BY <1>1, <1>2, Calls
<1>4. \A w : w \notin none
  BY DEF none
<1>5. /\ node'["master"] = Prepared /\ node'["slave"] = node["slave"]
      /\ Received' = Received
  BY <1>1, NodesAre DEF NodeInv, Received
<1>6. /\ DataOf(node["master"].tx) \subseteq Write /\ DataOf(node["slave"].tx) \subseteq Write
      /\ Received \subseteq Write
  BY SlotFacts
<1>7. /\ DataOf(Prepared.tx) = DataOf(node["master"].tx) \cup Moving
      /\ Acking(Prepared) => Acking(node["master"])
      /\ Prepared.expected = node["master"].expected
      /\ (ready(Prepared) <=> ready(node["master"]))
      /\ Prepared.tx.hello = node["master"].tx.hello
      /\ Prepared.tx.seq = node["master"].tx.seq
      /\ ~ ready(node["master"]) => Prepared.tx.frames = node["master"].tx.frames
  BY <1>1, PreparedSlot DEF ready
<1>8. \A w \in Moving : /\ w \in Write /\ Owner(w) = "master" /\ req[w].delivered = 0
                        /\ w \notin Received
  BY <1>2 DEF Delivering, Placed, Answers, Unsent
<1> DEFINE p == Prepared
           moving == Moving
<1> HIDE DEF p, moving
<1>9. /\ node'["master"] = p /\ DataOf(p.tx) = DataOf(node["master"].tx) \cup moving
      /\ \A w \in moving : /\ w \in Write /\ Owner(w) = "master" /\ req[w].delivered = 0
                           /\ w \notin Received
      /\ \A w \in Write : /\ req[w].delivered \in Nat /\ req'[w].delivered = req[w].delivered
                          /\ req'[w].at \in Unsent => req[w].at \in Unsent /\ w \notin moving
                          /\ req'[w].at = "acked" => req[w].at = "acked"
      /\ (Acking(p) => Acking(node["master"])) /\ p.expected = node["master"].expected
      /\ (ready(p) <=> ready(node["master"])) /\ p.tx.hello = node["master"].tx.hello
      /\ p.tx.seq = node["master"].tx.seq
      /\ ~ ready(node["master"]) => p.tx.frames = node["master"].tx.frames
  BY <1>3, <1>4, <1>5, <1>7, <1>8 DEF p, moving
<1>10. \A m : Reached(m) => Reached(m)'
  BY <1>9 DEF Reached
<1>11. Placed'
  BY <1>5, <1>6, <1>9, OwnersAre DEF Delivering, Placed
<1>12. SlaveOnce'
  BY <1>5, <1>6, <1>9 DEF Delivering, SlaveOnce
<1>13. MasterOnce => MasterOnce'
  BY <1>9 DEF MasterOnce
<1>14. Heeded'
  BY <1>5, <1>6, <1>9, <1>13 DEF Delivering, Heeded
<1>15. Shaken => Shaken'
  BY <1>5, <1>9 DEF Shaken
<1>16. Recognised => Recognised'
  <2>1. After(p.tx) = After(node["master"].tx)
    BY <1>9 DEF After
  <2>. QED
    BY <1>5, <1>6, <1>9, <2>1 DEF Recognised
<1>17. Acknowledges'
  <2>1. AcksEarned'
    BY <1>9, <1>10 DEF Delivering, Acknowledges, AcksEarned, Reached
  <2>. QED
    BY <1>5, <1>9, <1>10, <2>1 DEF Delivering, Acknowledges
<1>. QED
  BY <1>11, <1>12, <1>13, <1>14, <1>15, <1>16, <1>17 DEF Delivering, Steady

LEMMA HeardSlot ==
    ASSUME NEW k, NEW slot \in Slots, NEW r \in Heard(k, slot)
    PROVE  /\ r.slot = slot /\ (r.kind = "none" => r # Intact(slot))
           /\ Intact(slot).kind = "slot" /\ Intact(slot).good = Len(slot.frames)
<1>1. \/ r = Read("slot", slot, Len(slot.frames))
      \/ \E kind \in {"invalid", "none"} : r = Read(kind, slot, 0)
      \/ \E g \in 0 .. Len(slot.frames) - 1 : r = Read("slot", slot, g)
  BY DEF Heard, Intact, Noisy
<1>. QED
  BY <1>1 DEF Read, Intact

\* What the slave has to read after a turn that clocked the prepared slot.
LEMMA SentFacts ==
    ASSUME IInv, Delivering, transfer.got = None, transfer'.got # None,
           transfer'.got.slot = Prepared.tx
    PROVE  /\ Received' = DataOf(node["master"].tx) \cup Moving
           /\ transfer'.got.slot.ack # NoAck => Reached("slave")
           /\ \A w \in Moving : w \in Write /\ Owner(w) = "master" /\ req[w].delivered = 0
           /\ \A w \in Received' : Owner(w) = "master" /\ w \in Write
           /\ Shaken /\ transfer'.got = Intact(Prepared.tx) =>
                /\ transfer'.got.kind = "slot"
                /\ transfer'.got.good = Len(transfer'.got.slot.frames)
                /\ transfer'.got.slot.hello => JustHello(transfer'.got.slot.frames)
                /\ ~ ready(node["slave"]) => transfer'.got.slot.hello
           /\ Shaken /\ Recognised =>
                \A w \in Received' : req[w].delivered > 0 =>
                    /\ ~ transfer'.got.slot.hello
                    /\ node["slave"].expected = After(transfer'.got.slot)
<1>1. NodeInv
  BY IInvIs
<1>2. /\ Prepared \in Fields /\ DataOf(Prepared.tx) = DataOf(node["master"].tx) \cup Moving
      /\ Acking(Prepared) => Acking(node["master"])
      /\ Prepared.tx.hello = node["master"].tx.hello
      /\ Prepared.tx.seq = node["master"].tx.seq
      /\ ~ ready(node["master"]) => Prepared.tx.frames = node["master"].tx.frames
  BY <1>1, PreparedSlot
<1> DEFINE out == Prepared.tx
           moving == Moving
           none == {}
<1>3. Answers("master", none, none, Moving)
  BY <1>1, MovingWrites
<1>4. \A w \in Moving : w \in Write /\ Owner(w) = "master" /\ req[w].delivered = 0
  BY <1>3 DEF Delivering, Placed, Answers, Unsent
<1>5. Received' = DataOf(node["master"].tx) \cup Moving
  BY <1>2 DEF Received
<1>6. transfer'.got.slot.ack # NoAck => Reached("slave")
  BY <1>2 DEF Delivering, Acknowledges, Acking
<1>7. \A w \in DataOf(node["master"].tx) : Owner(w) = "master" /\ w \in Write
  BY SlotFacts, NodesAre DEF Delivering, Placed
<1> HIDE DEF out, moving
<1>8. /\ transfer'.got.slot = out /\ out.hello = node["master"].tx.hello
      /\ out.seq = node["master"].tx.seq
      /\ ~ ready(node["master"]) => out.frames = node["master"].tx.frames
      /\ Received' = DataOf(node["master"].tx) \cup moving
      /\ \A w \in moving : req[w].delivered = 0
      /\ Intact(Prepared.tx) = Intact(out)
  BY <1>2, <1>4, <1>5 DEF out, moving
<1>9. Shaken /\ transfer'.got = Intact(Prepared.tx) =>
        /\ transfer'.got.kind = "slot"
        /\ transfer'.got.good = Len(transfer'.got.slot.frames)
        /\ transfer'.got.slot.hello => JustHello(transfer'.got.slot.frames)
        /\ ~ ready(node["slave"]) => transfer'.got.slot.hello
  <2> SUFFICES ASSUME Shaken, transfer'.got = Intact(out)
               PROVE  /\ transfer'.got.kind = "slot"
                      /\ transfer'.got.good = Len(transfer'.got.slot.frames)
                      /\ transfer'.got.slot.hello => JustHello(transfer'.got.slot.frames)
                      /\ ~ ready(node["slave"]) => transfer'.got.slot.hello
    BY <1>8
  <2>1. Intact(out).kind = "slot" /\ Intact(out).good = Len(out.frames)
    BY DEF Intact, Read
  <2>2. node["master"].tx.hello \in BOOLEAN
    BY SlotFacts DEF Slots
  <2>. QED
    BY <1>8, <2>1, <2>2 DEF Shaken
<1>10. Shaken /\ Recognised =>
         \A w \in Received' : req[w].delivered > 0 =>
             /\ ~ transfer'.got.slot.hello
             /\ node["slave"].expected = After(transfer'.got.slot)
  <2> SUFFICES ASSUME Shaken, Recognised, NEW w \in Received', req[w].delivered > 0
               PROVE  /\ ~ out.hello /\ node["slave"].expected = After(out)
    BY <1>8
  <2>1. w \in DataOf(node["master"].tx)
    BY <1>8
  <2>2. node["slave"].expected = After(node["master"].tx)
    BY <2>1 DEF Recognised
  <2>3. ~ node["master"].tx.hello
    BY <2>1, SlotFacts, SlotContents DEF Shaken
  <2>. QED
    BY <1>8, <2>2, <2>3 DEF After
<1>. QED
  BY <1>4, <1>5, <1>6, <1>7, <1>9, <1>10

\* A turn in which noise hid the slave's slot: the master keeps the slot that the
\* slave is to read.
LEMMA KeptDelivers ==
    ASSUME IInv, Delivering, NoSlot, transfer.got = None, transfer'.got # None,
           transfer'.got.slot = Prepared.tx, "toMaster" \in faults'.kinds,
           faults.kinds \subseteq faults'.kinds,
           "toSlave" \notin faults'.kinds => transfer'.got = Intact(Prepared.tx)
    PROVE  Delivering'
<1> DEFINE none == {}
<1>1. NodeInv /\ node' = [node EXCEPT !["master"] = Prepared]
      /\ req' = History(none, none, none, Moving)
  BY IInvIs DEF NoSlot
<1>2. Answers("master", none, none, Moving)
  BY <1>1, MovingWrites
<1> HIDE DEF none
<1>3. \A w \in Write :
        /\ req[w].delivered \in Nat
        /\ w \notin none => req'[w].delivered = req[w].delivered
        /\ req'[w].at \in Unsent => req[w].at \in Unsent /\ w \notin Moving
        /\ req'[w].at = "acked" => req[w].at = "acked" \/ w \in none
  BY <1>1, <1>2, Calls
<1>4. \A w : w \notin none
  BY DEF none
<1>5. node'["master"] = Prepared /\ node'["slave"] = node["slave"]
  BY <1>1, NodesAre DEF NodeInv
<1>6. /\ DataOf(node["master"].tx) \subseteq Write /\ DataOf(node["slave"].tx) \subseteq Write
  BY SlotFacts
<1>7. /\ DataOf(Prepared.tx) = DataOf(node["master"].tx) \cup Moving
      /\ Acking(Prepared) => Acking(node["master"])
      /\ (ready(Prepared) <=> ready(node["master"]))
      /\ Prepared.tx.hello = node["master"].tx.hello
      /\ ~ ready(node["master"]) => Prepared.tx.frames = node["master"].tx.frames
  BY <1>1, PreparedSlot DEF ready
<1>8. /\ Received' = DataOf(node["master"].tx) \cup Moving
      /\ transfer'.got.slot.ack # NoAck => Reached("slave")
      /\ \A w \in Moving : w \in Write /\ Owner(w) = "master" /\ req[w].delivered = 0
      /\ \A w \in Received' : Owner(w) = "master" /\ w \in Write
      /\ Shaken /\ transfer'.got = Intact(Prepared.tx) =>
           /\ transfer'.got.kind = "slot"
           /\ transfer'.got.good = Len(transfer'.got.slot.frames)
           /\ transfer'.got.slot.hello => JustHello(transfer'.got.slot.frames)
           /\ ~ ready(node["slave"]) => transfer'.got.slot.hello
      /\ Shaken /\ Recognised =>
           \A w \in Received' : req[w].delivered > 0 =>
               /\ ~ transfer'.got.slot.hello
               /\ node["slave"].expected = After(transfer'.got.slot)
  BY SentFacts
<1> DEFINE p == Prepared
           moving == Moving
<1> HIDE DEF p, moving
<1>9. /\ node'["master"] = p /\ DataOf(p.tx) = DataOf(node["master"].tx) \cup moving
      /\ Received' = DataOf(p.tx) /\ transfer'.got.slot = p.tx
      /\ \A w \in moving : w \in Write /\ Owner(w) = "master" /\ req[w].delivered = 0
      /\ \A w \in DataOf(p.tx) : Owner(w) = "master" /\ w \in Write
      /\ \A w \in Write : /\ req[w].delivered \in Nat /\ req'[w].delivered = req[w].delivered
                          /\ req'[w].at \in Unsent => req[w].at \in Unsent /\ w \notin moving
                          /\ req'[w].at = "acked" => req[w].at = "acked"
      /\ (Acking(p) => Acking(node["master"]))
      /\ (ready(p) <=> ready(node["master"])) /\ p.tx.hello = node["master"].tx.hello
      /\ ~ ready(node["master"]) => p.tx.frames = node["master"].tx.frames
  BY <1>3, <1>4, <1>5, <1>7, <1>8 DEF p, moving
<1>10. \A m : Reached(m) => Reached(m)'
  BY <1>9 DEF Reached
<1>11. Placed'
  BY <1>5, <1>6, <1>9, OwnersAre DEF Delivering, Placed
<1>12. SlaveOnce'
  BY <1>5, <1>6, <1>9 DEF Delivering, SlaveOnce
<1>13. MasterOnce => MasterOnce'
  BY <1>9 DEF MasterOnce
<1>14. Heeded'
  BY DEF Heeded
<1>15. Steady'
  <2> SUFFICES ASSUME faults'.kinds \cap {"toSlave", "reboot"} = {}
               PROVE  MasterOnce' /\ Shaken' /\ Recognised'
    BY DEF Steady
  <2>1. MasterOnce /\ Shaken /\ Recognised /\ transfer'.got = Intact(Prepared.tx)
    BY DEF Delivering, Steady
  <2>2. Shaken'
    BY <1>5, <1>8, <1>9, <2>1 DEF Shaken
  <2>3. Recognised'
    BY <1>5, <1>8, <1>9, <2>1 DEF Recognised
  <2>. QED
    BY <1>13, <2>1, <2>2, <2>3
<1>16. Acknowledges'
  <2>1. AcksEarned'
    BY <1>9, <1>10 DEF Delivering, Acknowledges, AcksEarned, Reached
  <2>. QED
    BY <1>5, <1>8, <1>9, <1>10, <2>1 DEF Delivering, Acknowledges
<1>. QED
  BY <1>11, <1>12, <1>14, <1>15, <1>16 DEF Delivering

\* A turn in which the master read the slave's slot, or bytes in its place.
LEMMA SlotDelivers ==
    ASSUME IInv, Delivering, transfer.got = None, transfer'.got # None,
           transfer'.got.slot = Prepared.tx, faults.kinds \subseteq faults'.kinds,
           "toSlave" \notin faults'.kinds => transfer'.got = Intact(Prepared.tx),
           NEW r \in Reading, r.slot = node["slave"].tx, Slot(r),
           r.kind = "slot" => r.good <= Len(r.slot.frames),
           r.kind = "slot" => transfer'.sent
    PROVE  Delivering'
<1>1. NodeInv
  BY IInvIs
<1>2. PICK z, acked, nacked, delivered : MasterDid(r, z, acked, nacked, delivered)
  BY <1>1, SlotDid
<1> DEFINE moving == Moving
<1> HIDE DEF moving
<1>3. /\ node'["master"] = z /\ node'["slave"] = node["slave"]
      /\ z \in Fields /\ DataOf(z.tx) = {}
      /\ Answers("master", acked, nacked, moving)
      /\ req' = History(acked, nacked, delivered, moving)
      /\ delivered \subseteq DataOf(node["slave"].tx) \cap Write
      /\ r.kind # "slot" => delivered = {}
      /\ acked # {} => node["slave"].tx.ack # NoAck
      /\ Acking(z) => Acking(node["master"]) \/ delivered # {}
  BY <1>1, <1>2, NodesAre DEF MasterDid, NodeInv, moving
<1>4. \A w \in Write :
        /\ req[w].delivered \in Nat /\ req'[w].delivered \in Nat
        /\ w \in delivered => req'[w].delivered = req[w].delivered + 1
        /\ w \notin delivered => req'[w].delivered = req[w].delivered
        /\ req'[w].at \in Unsent => req[w].at \in Unsent /\ w \notin moving
        /\ req'[w].at = "acked" => req[w].at = "acked" \/ w \in acked
  BY <1>1, <1>3, Calls
<1>5. /\ DataOf(node["master"].tx) \subseteq Write /\ DataOf(node["slave"].tx) \subseteq Write
      /\ z.tx.hello \in BOOLEAN
  BY <1>3, SlotFacts, FieldsOf DEF Slots
<1>6. \A w \in delivered : /\ w \in Write /\ Owner(w) = "slave" /\ req[w].at \notin Unsent
                           /\ req[w].delivered = 0
  BY <1>3, OwnersAre DEF Delivering, Placed, SlaveOnce
<1>7. /\ Received' = DataOf(node["master"].tx) \cup moving
      /\ transfer'.got.slot.ack # NoAck => Reached("slave")
      /\ \A w \in moving : w \in Write /\ Owner(w) = "master" /\ req[w].delivered = 0
      /\ \A w \in Received' : Owner(w) = "master" /\ w \in Write
  BY SentFacts DEF moving
<1>8. \A w \in Received' : w \notin delivered /\ req'[w].delivered = req[w].delivered
  BY <1>4, <1>6, <1>7
<1>9. Placed'
  <2>1. \A w \in DataOf(node'["slave"].tx) : Owner(w) = "slave" /\ req'[w].at \notin Unsent
    BY <1>3, <1>4, <1>5, OwnersAre DEF Delivering, Placed
  <2>2. \A w \in Received' : Owner(w) = "master" /\ req'[w].at \notin Unsent
    BY <1>4, <1>5, <1>7, OwnersAre DEF Delivering, Placed
  <2>3. \A w \in Write : req'[w].at \in Unsent => req'[w].delivered = 0
    BY <1>4, <1>6 DEF Delivering, Placed
  <2>4. DataOf(node'["master"].tx) = {}
    BY <1>3
  <2>. QED
    BY <2>1, <2>2, <2>3, <2>4, OwnersAre DEF Placed
<1>10. SlaveOnce'
  <2>1. ASSUME NEW w \in Write, Owner(w) = "slave"
        PROVE  req'[w].delivered <= 1
    <3>1. CASE w \in delivered
      BY <1>4, <1>6, <3>1
    <3>2. CASE w \notin delivered
      BY <1>4, <2>1, <3>2 DEF Delivering, SlaveOnce
    <3>. QED
      BY <3>1, <3>2
  <2>2. ASSUME ~ transfer'.sent
        PROVE  \A w \in DataOf(node["slave"].tx) : req'[w].delivered = 0
    <3>1. delivered = {}
      BY <1>3, <2>2
    <3>. QED
      BY <1>4, <1>5, <3>1 DEF Delivering, SlaveOnce
  <2>. QED
    BY <1>3, <2>1, <2>2 DEF SlaveOnce
<1>11. MasterOnce => MasterOnce'
  BY <1>4, <1>6, OwnersAre DEF MasterOnce
<1>12. Heeded'
  <2> SUFFICES ASSUME "toMaster" \notin faults'.kinds
               PROVE  /\ MasterOnce'
                      /\ \A w \in Received' : req'[w].delivered = 0
    BY <1>3 DEF Heeded
  <2>1. MasterOnce /\ \A w \in DataOf(node["master"].tx) : req[w].delivered = 0
    BY DEF Delivering, Heeded
  <2>. QED
    BY <1>7, <1>8, <1>11, <2>1
<1>13. Steady'
  <2> SUFFICES ASSUME faults'.kinds \cap {"toSlave", "reboot"} = {}
               PROVE  MasterOnce' /\ Shaken' /\ Recognised'
    BY DEF Steady
  <2>1. MasterOnce /\ Shaken /\ Recognised /\ transfer'.got = Intact(Prepared.tx)
    BY DEF Delivering, Steady
  <2>2. /\ transfer'.got.kind = "slot"
        /\ transfer'.got.good = Len(transfer'.got.slot.frames)
        /\ transfer'.got.slot.hello => JustHello(transfer'.got.slot.frames)
        /\ ~ ready(node["slave"]) => transfer'.got.slot.hello
        /\ \A w \in Received' : req[w].delivered > 0 =>
              /\ ~ transfer'.got.slot.hello
              /\ node["slave"].expected = After(transfer'.got.slot)
    BY <2>1, SentFacts
  <2>3. /\ ready(z) <=> z.tx.hello = FALSE
        /\ z.tx.hello => JustHello(z.tx.frames)
        /\ ~ ready(node["slave"]) => ~ ready(z)
    <3>1. NoHello(r.slot.frames)
      BY <2>1 DEF Shaken
    <3>2. /\ ready(z) <=> z.tx.hello = FALSE
          /\ ~ ready(z) => JustHello(z.tx.frames)
          /\ r.slot.frames = <<>> /\ ready(z) => ready(node["master"])
      BY <1>2, <3>1 DEF MasterDid
    <3>. QED
      BY <1>5, <2>1, <3>2 DEF Shaken
  <2>4. Shaken'
    BY <1>3, <2>1, <2>2, <2>3 DEF Shaken
  <2>5. Recognised'
    BY <1>3, <1>8, <2>2 DEF Recognised
  <2>. QED
    BY <1>11, <2>1, <2>4, <2>5
<1>14. Acknowledges'
  <2>1. \A m : Reached(m) => Reached(m)'
    BY <1>4 DEF Reached
  <2>2. delivered # {} => Reached("slave")'
    BY <1>4, <1>6 DEF Reached
  <2>3. acked # {} => Reached("master")
    BY <1>3 DEF Delivering, Acknowledges, Acking
  <2>4. AcksEarned'
    <3> SUFFICES ASSUME NEW m \in Node, NEW w \in Write, Owner(w) = m, req'[w].at = "acked"
                 PROVE  Reached(m)'
      BY DEF AcksEarned, Reached
    <3>1. CASE req[w].at = "acked"
      <4>1. Reached(m)
        BY <3>1 DEF Delivering, Acknowledges, AcksEarned, Reached
      <4>. QED
        BY <2>1, <4>1
    <3>2. CASE w \in acked
      BY <1>3, <2>1, <2>3, <3>2 DEF Answers
    <3>. QED
      BY <1>4, <3>1, <3>2
  <2>5. Acking(z) => Reached("slave")'
    BY <1>3, <2>1, <2>2 DEF Delivering, Acknowledges
  <2>. QED
    BY <1>3, <1>7, <2>1, <2>4, <2>5 DEF Delivering, Acknowledges
<1>. QED
  BY <1>9, <1>10, <1>12, <1>13, <1>14 DEF Delivering

LEMMA MasterTurnDelivers ==
    ASSUME IInv, Delivering, MasterTurn
    PROVE  Delivering'
<1> DEFINE in == node["slave"].tx
<1>1. NodeInv
  BY IInvIs
<1>2. CASE transfer.got # None
  <2>1. NoSlot /\ UNCHANGED <<transfer, faults>>
    BY <1>2 DEF MasterTurn
  <2>. QED
    BY <2>1, HeldDelivers
<1>3. CASE transfer.got = None
  <2>1. PICK out \in {Prepared.tx} : \E fits \in {TRUE} \cup (IF Cut THEN {FALSE} ELSE {}) :
            \E atSlave \in Heard("toSlave", out), atMaster \in Heard("toMaster", in) :
              LET ks == (IF atSlave = Intact(out) THEN {} ELSE {"toSlave"})
                        \cup (IF atMaster = Intact(in) THEN {} ELSE {"toMaster"})
                        \cup (IF fits \/ ~ ready(node["master"]) THEN {} ELSE {"window"})
              IN  /\ faults.count + Cardinality(ks) <= MaxFaults /\ Faulted(ks)
                  /\ transfer' = [got |-> atSlave, sent |-> fits]
                  /\ IF atMaster.kind = "none" THEN NoSlot
                     ELSE Slot(IF fits THEN atMaster ELSE Read("invalid", in, 0))
    BY <1>3 DEF MasterTurn
  <2>2. PICK fits \in {TRUE} \cup (IF Cut THEN {FALSE} ELSE {}) :
            \E atSlave \in Heard("toSlave", out), atMaster \in Heard("toMaster", in) :
              LET ks == (IF atSlave = Intact(out) THEN {} ELSE {"toSlave"})
                        \cup (IF atMaster = Intact(in) THEN {} ELSE {"toMaster"})
                        \cup (IF fits \/ ~ ready(node["master"]) THEN {} ELSE {"window"})
              IN  /\ faults.count + Cardinality(ks) <= MaxFaults /\ Faulted(ks)
                  /\ transfer' = [got |-> atSlave, sent |-> fits]
                  /\ IF atMaster.kind = "none" THEN NoSlot
                     ELSE Slot(IF fits THEN atMaster ELSE Read("invalid", in, 0))
    BY <2>1
  <2>3. PICK atSlave \in Heard("toSlave", out), atMaster \in Heard("toMaster", in) :
              LET ks == (IF atSlave = Intact(out) THEN {} ELSE {"toSlave"})
                        \cup (IF atMaster = Intact(in) THEN {} ELSE {"toMaster"})
                        \cup (IF fits \/ ~ ready(node["master"]) THEN {} ELSE {"window"})
              IN  /\ faults.count + Cardinality(ks) <= MaxFaults /\ Faulted(ks)
                  /\ transfer' = [got |-> atSlave, sent |-> fits]
                  /\ IF atMaster.kind = "none" THEN NoSlot
                     ELSE Slot(IF fits THEN atMaster ELSE Read("invalid", in, 0))
    BY <2>2
  <2> DEFINE ks == (IF atSlave = Intact(out) THEN {} ELSE {"toSlave"})
                   \cup (IF atMaster = Intact(in) THEN {} ELSE {"toMaster"})
                   \cup (IF fits \/ ~ ready(node["master"]) THEN {} ELSE {"window"})
             r == IF fits THEN atMaster ELSE Read("invalid", in, 0)
  <2>4. /\ Faulted(ks) /\ transfer' = [got |-> atSlave, sent |-> fits]
        /\ IF atMaster.kind = "none" THEN NoSlot ELSE Slot(r)
    BY <2>3
  <2>5. out = Prepared.tx /\ out \in Slots /\ in \in Slots
    BY <1>1, <2>1, NodesAre, NodeFacts, Preparing, FieldsOf
  <2>6. /\ atSlave \in Reading /\ atMaster \in Reading /\ fits \in BOOLEAN
        /\ atMaster.good <= Len(atMaster.slot.frames)
    BY <2>2, <2>5, HeardType
  <2>7. /\ atSlave.slot = out /\ atMaster.slot = in
        /\ atMaster.kind = "none" => atMaster # Intact(in)
    <3> HIDE DEF in
    <3>. QED
      BY <2>3, <2>5, HeardSlot
  <2>8. /\ atSlave # Intact(out) => "toSlave" \in ks
        /\ atMaster # Intact(in) => "toMaster" \in ks
    OBVIOUS
  <2>9. /\ transfer'.got = atSlave /\ transfer'.sent = fits /\ transfer'.got # None
        /\ faults'.kinds = faults.kinds \cup ks
    BY <2>4, <2>6, NoneAssumption DEF Faulted
  <2>10. /\ transfer'.got.slot = Prepared.tx /\ faults.kinds \subseteq faults'.kinds
         /\ "toSlave" \notin faults'.kinds => transfer'.got = Intact(Prepared.tx)
    BY <2>5, <2>7, <2>8, <2>9
  <2>11. CASE atMaster.kind = "none"
    <3>1. NoSlot /\ "toMaster" \in faults'.kinds
      BY <2>4, <2>7, <2>8, <2>9, <2>11
    <3>. QED
      BY <1>3, <2>9, <2>10, <3>1, KeptDelivers
  <2>12. CASE atMaster.kind # "none"
    <3>1. Read("invalid", in, 0) \in Reading /\ Read("invalid", in, 0).kind = "invalid"
          /\ Read("invalid", in, 0).slot = in
      BY <2>5 DEF Read, Reading
    <3>2. /\ r \in Reading /\ r.slot = in
          /\ r.kind = "slot" => r.good <= Len(r.slot.frames) /\ transfer'.sent
      BY <2>6, <2>7, <2>9, <3>1
    <3>3. Slot(r)
      BY <2>4, <2>12
    <3> HIDE DEF r, ks
    <3>. QED
      BY <1>3, <2>9, <2>10, <3>2, <3>3, SlotDelivers
  <2>. QED
    BY <2>11, <2>12
<1>. QED
  BY <1>2, <1>3

LEMMA TransferFailsDelivers ==
    ASSUME IInv, Delivering, TransferFails
    PROVE  Delivering'
<1>1. NodeInv
  BY IInvIs
<1>2. /\ transfer' = transfer /\ Received' = Received
      /\ faults'.kinds = faults.kinds \cup {"bus"}
  BY DEF TransferFails, Faulted, Received
<1>3. CASE ~ ready(node["master"])
  <2>1. NoSlot
    BY <1>3 DEF TransferFails
  <2>. QED
    BY <1>2, <2>1, HeldDelivers
<1>4. CASE ready(node["master"])
  <2> DEFINE v == Prepared
             d == Settle(v, Parsed(v, FALSE), TRUE, Left)
             x == [reset("master", v) EXCEPT !.pending = {}, !.listening = FALSE]
             z == queueHello(x)
             none == {}
             nacked == d.nacked
  <2>1. /\ node' = [node EXCEPT !["master"] = z] /\ req' = History(none, nacked, none, none)
    BY <1>4 DEF TransferFails
  <2>2. v \in Fields /\ Tidy("master", v.pending, Left)
    BY <1>1, Preparing
  <2>3. Settled("master", v.pending, Left, d)
    <3> HIDE DEF d, v
    <3>1. d = Settle(v, Parsed(v, FALSE), TRUE, Left)
      BY DEF d
    <3>. QED
      BY <2>2, <3>1, Settling
  <2>4. Answers("master", none, nacked, none)
    <3> HIDE DEF d, v
    <3>1. none \cup nacked \subseteq WritesOf(Prepared.pending) \cup InQueue(Left)
      BY <2>3 DEF Settled, v
    <3> HIDE DEF none, nacked
    <3>2. Answers("master", none, nacked, Moving)
      BY <1>1, <3>1, MovingWrites
    <3>. QED
      BY <3>2 DEF Answers, none
  <2>5. /\ z \in Fields /\ DataOf(z.tx) = {} /\ ~ Acking(z) /\ ~ ready(z)
        /\ z.tx.hello /\ JustHello(z.tx.frames)
    <3> HIDE DEF v
    <3>1. /\ Like(reset("master", v), v, {}) /\ ~ Acking(reset("master", v))
      BY <2>2, NodesAre, ResetType, ResetSlot
    <3>2. x \in Fields /\ ~ Acking(x)
      BY <3>1 DEF Like, Fields, Acking
    <3> HIDE DEF x
    <3>. QED
      BY <3>2, QueueHelloType, QueueHelloSlot DEF Like, Heir, ready
  <2> HIDE DEF z, none, nacked, d, v
  <2>6. \A w \in Write :
          /\ req[w].delivered \in Nat
          /\ w \notin none => req'[w].delivered = req[w].delivered
          /\ req'[w].at \in Unsent => req[w].at \in Unsent
          /\ req'[w].at = "acked" => req[w].at = "acked" \/ w \in none
    BY <1>1, <2>1, <2>4, Calls
  <2>7. \A w \in Write :
          /\ req[w].delivered \in Nat
          /\ req'[w].delivered = req[w].delivered
          /\ req'[w].at \in Unsent => req[w].at \in Unsent
          /\ req'[w].at = "acked" => req[w].at = "acked"
    BY <2>6 DEF none
  <2>8. node'["master"] = z /\ node'["slave"] = node["slave"]
    BY <1>1, <2>1, NodesAre DEF NodeInv
  <2>9. DataOf(node["slave"].tx) \subseteq Write /\ Received \subseteq Write
    BY SlotFacts
  <2>10. \A m : Reached(m) => Reached(m)'
    BY <2>7 DEF Reached
  <2>11. Placed'
    BY <1>2, <2>5, <2>7, <2>8, <2>9, OwnersAre DEF Delivering, Placed
  <2>12. SlaveOnce'
    BY <1>2, <2>7, <2>8, <2>9 DEF Delivering, SlaveOnce
  <2>13. MasterOnce => MasterOnce'
    BY <2>7 DEF MasterOnce
  <2>14. Heeded'
    BY <1>2, <2>5, <2>7, <2>8, <2>9, <2>13 DEF Delivering, Heeded
  <2>15. Shaken => Shaken'
    BY <1>2, <2>5, <2>8 DEF Shaken
  <2>16. Recognised => Recognised'
    BY <1>2, <2>5, <2>7, <2>8, <2>9 DEF Recognised
  <2>17. AcksEarned'
    BY <2>7, <2>10 DEF Delivering, Acknowledges, AcksEarned, Reached
  <2>18. Acknowledges'
    BY <1>2, <2>5, <2>8, <2>10, <2>17 DEF Delivering, Acknowledges
  <2>. QED
    BY <1>2, <2>11, <2>12, <2>13, <2>14, <2>15, <2>16, <2>18 DEF Delivering, Steady
<1>. QED
  BY <1>3, <1>4

LEMMA DeliveringStep == IInv /\ Delivering /\ [Next]_vars => Delivering'
<1> SUFFICES ASSUME IInv, Delivering, [Next]_vars PROVE Delivering'
  OBVIOUS
<1>1. ASSUME NEW w \in Write, Check(w) PROVE Delivering'
  BY <1>1, CheckDelivers
<1>2. ASSUME NEW w \in Write, Enqueue(w) PROVE Delivering'
  BY <1>2, EnqueueDelivers
<1>3. ASSUME NEW n \in Node, Expire(n) PROVE Delivering'
  BY <1>3, ExpireDelivers
<1>4. ASSUME NEW n \in Node, Reboot(n) PROVE Delivering'
  BY <1>4, RebootDelivers
<1>5. CASE MasterTurn
  BY <1>5, MasterTurnDelivers
<1>6. CASE SlaveStep
  BY <1>6, SlaveStepDelivers
<1>7. CASE TransferFails
  BY <1>7, TransferFailsDelivers
<1>8. CASE UNCHANGED vars
  BY <1>8, CalmDelivering DEF vars
<1>. QED
  BY <1>1, <1>2, <1>3, <1>4, <1>5, <1>6, <1>7, <1>8 DEF Next

\* In every reachable state, whatever faults there were: a slot holds sent writes of
\* its sender only; the master takes no slot of the slave that it took before; and
\* no acknowledgement is owed, sent or on its way that no delivery earned.
THEOREM Delivers == Spec => []Delivering
<1>. QED
  BY DeliveringInit, Inductive, DeliveringStep, PTL DEF Spec

\* The peer's handler takes no write twice, except a write of the master, after noise
\* hid a slot of the slave and other noise, or a restart, made the slave forget what it
\* expects.
THEOREM DeliversOnce == Spec => []DeliveredOnce
<1>1. IInv /\ Delivering => DeliveredOnce
  <2> SUFFICES ASSUME IInv, Delivering, NEW w \in Write, req[w].delivered > 1
               PROVE  /\ w \in MasterWrite /\ "toMaster" \in faults.kinds
                      /\ faults.kinds \cap {"toSlave", "reboot"} # {}
    BY DEF DeliveredOnce
  <2>1. req[w].delivered \in Nat
    BY DEF IInv, Typed, ReqType
  <2>2. Owner(w) = "master" /\ w \in MasterWrite
    BY <2>1, OwnersAre DEF Delivering, SlaveOnce, Owner
  <2>3. ~ MasterOnce
    BY <2>1, <2>2 DEF MasterOnce
  <2>. QED
    BY <2>2, <2>3 DEF Delivering, Heeded, Steady
<1>. QED
  BY <1>1, Inductive, Delivers, PTL

\* No completion says "delivered" to a node of which the peer's handler took nothing:
\* not after noise, a restart, a handshake that reset the frame numbers or a slot that
\* was clocked twice.  The first conjunct of AckedMeansDelivered.
THEOREM EarnsAcks == Spec => []AcksEarned
<1>1. Delivering => AcksEarned
  BY DEF Delivering, Acknowledges
<1>. QED
  BY <1>1, Delivers, PTL

=============================================================================
