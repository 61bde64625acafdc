---------------------------- MODULE DrainerProofs ----------------------------
(***************************************************************************)
(* Drainer, for any values of its constants, without a bound on arrivals   *)
(* or link failures: who owns a payload, and what every pending bit of the *)
(* table stands for; that the table and the queues are never full; and     *)
(* that the node implements Retention.                                     *)
(***************************************************************************)
EXTENDS Drainer, TLAPS, SequenceTheorems, FiniteSetTheorems, SequencesExt

(***************************************************************************)
(* Type correctness.  Control ties the runner's cursor, slot and targets   *)
(* to the place it is in; without it the cursor's type is not inductive.   *)
(***************************************************************************)

Control ==
    /\ pc \in {"receive", "dispatch", "unreachable", "blocked", "sending"} => cursor \in Transport
    /\ pc \in {"route", "fanout", "release", "blocked"} =>
          /\ item \in Header
          /\ back \in {"dispatch", "sending"} => cursor \in Transport
    /\ pc = "fanout" => slot \in Slot /\ todo # {}

\* Exactly the occupied slots have a header.
OccupiedNamed ==
    \A k \in Slot : IF inFlight[k].pending = {} THEN inFlight[k].header = None
                    ELSE inFlight[k].header \in Header

TypeInv == TypeOK /\ Control /\ OccupiedNamed

LEMMA FreeSlotsType == Cardinality(FreeSlots) \in Nat
<1>1. IsFiniteSet(Slot)
  BY FS_Interval, DrainerAssumption DEF Slot
<1>2. FreeSlots \in SUBSET Slot
  BY DEF FreeSlots
<1>3. QED
  BY <1>1, <1>2, FS_Subset, FS_CardinalityType

LEMMA InitTypeInv == Init => TypeInv
<1>. SUFFICES ASSUME Init PROVE TypeInv
  OBVIOUS
<1>1. inbox \in [0 .. TransportCount -> Seq(Header)]
  BY EmptySeq DEF Init
<1>2. inFlight \in [Slot -> [header : Header \cup {None},
                            pending : SUBSET Transport]]
  BY DEF Init, Free
<1>3. sendQueue \in [Transport -> Seq(Slot)]
  BY EmptySeq DEF Init
<1>4. wire \in [Transport -> [WireSlot -> Header \cup {None}]]
  BY DEF Init
<1>5. link \in [Transport -> [at : {"idle", "ack", "release"},
                             header : Header \cup {None}]]
  BY DEF Init, Idle
<1>6. cursor \in 0 .. TransportCount + 1
  BY DrainerAssumption DEF Init
<1>. QED
  BY <1>1, <1>2, <1>3, <1>4, <1>5, <1>6 DEF Init, Free, TypeInv, TypeOK, Control, OccupiedNamed

LEMMA CursorStep ==
    ASSUME cursor \in Transport
    PROVE  cursor \in 0 .. TransportCount /\ cursor + 1 \in 0 .. TransportCount + 1
BY DrainerAssumption DEF Transport

LEMMA ClearedType ==
    ASSUME TypeOK, NEW k \in Slot, NEW t \in Transport
    PROVE  Cleared(k, t) \in [Slot -> [header : Header \cup {None},
                                       pending : SUBSET Transport]]
<1>. DEFINE T == [header : Header \cup {None}, pending : SUBSET Transport]
<1>1. Free \in T
  BY DEF Free
<1>2. inFlight \in [Slot -> T]
  BY DEF TypeOK
<1>3. [inFlight[k] EXCEPT !.pending = @ \ {t}] \in T
  BY <1>2
<1>. QED
  BY <1>1, <1>2, <1>3 DEF Cleared

\* Clearing a bit keeps exactly the occupied slots named.
LEMMA ClearedNamed ==
    ASSUME TypeOK, OccupiedNamed, NEW k \in Slot, NEW t \in Transport, NEW j \in Slot
    PROVE  IF Cleared(k, t)[j].pending = {} THEN Cleared(k, t)[j].header = None
           ELSE Cleared(k, t)[j].header \in Header
<1>. DEFINE T == [header : Header \cup {None}, pending : SUBSET Transport]
<1>1. inFlight \in [Slot -> T]
  BY DEF TypeOK
<1>2. CASE j # k
  BY <1>1, <1>2 DEF Cleared, OccupiedNamed
<1>3. CASE j = k /\ inFlight[k].pending = {t}
  BY <1>1, <1>3 DEF Cleared, Free
<1>4. CASE j = k /\ inFlight[k].pending # {t}
  <2>1. Cleared(k, t)[k] = [inFlight[k] EXCEPT !.pending = @ \ {t}]
    BY <1>1, <1>4 DEF Cleared
  <2>2. inFlight[k] \in T
    BY <1>1
  <2>3. inFlight[k].pending \ {t} = {} <=> inFlight[k].pending = {}
    BY <1>4
  <2>. QED
    BY <2>1, <2>2, <2>3, <1>4 DEF OccupiedNamed
<1>. QED
  BY <1>2, <1>3, <1>4

LEMMA NextTypeOK == TypeInv /\ [Next]_vars => TypeOK' /\ Control'
<1>. SUFFICES ASSUME TypeOK, Control, OccupiedNamed, [Next]_vars PROVE TypeOK' /\ Control'
  BY DEF TypeInv
<1>. USE DEF Control
<1>1. ASSUME NEW h \in Local, Publish(h) PROVE TypeOK' /\ Control'
  <2>1. h \in Header
    BY DEF Header
  <2>2. inbox' \in [0 .. TransportCount -> Seq(Header)]
    <3>1. 0 \in 0 .. TransportCount
      BY DrainerAssumption
    <3>2. Append(inbox[0], h) \in Seq(Header)
      BY <2>1, <3>1, AppendProperties DEF TypeOK
    <3>. QED
      BY <1>1, <3>1, <3>2 DEF Publish, TypeOK
  <2>. QED
    BY <1>1, <2>1, <2>2 DEF Publish, TypeOK, table, links, runner, history
<1>2. ASSUME NEW h \in Remote, Receive(h) PROVE TypeOK' /\ Control'
  <2>1. h \in Header
    BY DEF Header
  <2>2. inbox' \in [0 .. TransportCount -> Seq(Header)] /\ stored' \in SUBSET Header
    <3>1. cursor \in 0 .. TransportCount
      BY <1>2, CursorStep DEF Receive
    <3>2. QED
      <4>1. Append(inbox[cursor], h) \in Seq(Header)
        BY <2>1, <3>1, AppendProperties DEF TypeOK
      <4>. QED
        BY <1>2, <2>1, <3>1, <4>1 DEF Receive, EnqueueReceived, TypeOK
  <2>3. \/ UNCHANGED <<pc, item>>
        \/ pc' = "blocked" /\ item' = h
    BY <1>2 DEF Receive, EnqueueReceived
  <2>. QED
    BY <1>2, <2>1, <2>2, <2>3 DEF Receive, TypeOK, table, links
<1>3. CASE DequeueLocal
  <2>1. 0 \in 0 .. TransportCount
    BY DrainerAssumption
  <2>2. item' \in Header /\ inbox' \in [0 .. TransportCount -> Seq(Header)]
    <3>1. Head(inbox[0]) \in Header /\ Tail(inbox[0]) \in Seq(Header)
      BY <1>3, <2>1, HeadTailProperties DEF DequeueLocal, TypeOK
    <3>. QED
      BY <1>3, <2>1, <3>1 DEF DequeueLocal, TypeOK
  <2>. QED
    BY <1>3, <2>2 DEF DequeueLocal, TypeOK, table, links, bounds, history
<1>4. CASE EndQueue
  BY <1>4, DrainerAssumption DEF EndQueue, TypeOK, store, table, links, bounds, history
<1>5. CASE Poll
  BY <1>5, FreeSlotsType, CursorStep DEF Poll, TypeOK, store, table, links, history
<1>6. CASE EndPoll
  BY <1>6, DrainerAssumption DEF EndPoll, TypeOK, store, table, links, bounds, history
<1>7. CASE EndReceive
  BY <1>7, CursorStep DEF EndReceive, TypeOK, store, table, links, history
<1>8. CASE Dispatch
  <2>1. cursor \in 0 .. TransportCount
    BY <1>8, CursorStep DEF Dispatch
  <2>2. item' \in Header /\ inbox' \in [0 .. TransportCount -> Seq(Header)]
    <3>1. Head(inbox[cursor]) \in Header /\ Tail(inbox[cursor]) \in Seq(Header)
      BY <1>8, <2>1, HeadTailProperties DEF Dispatch, TypeOK
    <3>. QED
      BY <1>8, <2>1, <3>1 DEF Dispatch, TypeOK
  <2>. QED
    BY <1>8, <2>2 DEF Dispatch, TypeOK, table, links, history
<1>9. CASE EndDispatch
  BY <1>9, CursorStep DEF EndDispatch, TypeOK, store, table, links, bounds, history
<1>10. CASE Overrun
  BY <1>10 DEF Overrun, TypeOK, store, table, links, bounds
<1>11. CASE Unreachable
  <2>1. cursor \in 0 .. TransportCount
    BY <1>11, CursorStep DEF Unreachable
  <2>2. Len(inbox[cursor]) \in Nat
    BY <2>1, LenProperties DEF TypeOK
  <2>. QED
    BY <1>11, <2>2 DEF Unreachable, TypeOK, store, table, links, history
<1>12. ASSUME NEW targets \in SUBSET Transport, Route(targets) PROVE TypeOK' /\ Control'
  BY <1>12 DEF Route, TypeOK, store, links, bounds, First
<1>13. CASE Fanout
  <2>1. PICK t \in Transport : Fanout!2!(t)
    BY <1>13 DEF Fanout
  <2>2. slot \in Slot
    BY <1>13 DEF Fanout
  <2>3. CASE ready[t]
    <3>1. sendQueue' \in [Transport -> Seq(Slot)]
      <4>1. Append(sendQueue[t], slot) \in Seq(Slot)
        BY <2>2, AppendProperties DEF TypeOK
      <4>. QED
        BY <2>1, <2>3, <4>1 DEF TypeOK
    <3>2. \/ pc' = back /\ item' = None /\ slot' = 0 /\ todo' = {}
          \/ todo' = todo \ {t} /\ todo # {t} /\ UNCHANGED <<pc, item, slot>>
      BY <2>1, <2>3 DEF Return
    <3>3. UNCHANGED <<inFlight, wire, store, links, cursor, bounds, back, history>>
      BY <1>13, <2>1, <2>3 DEF Fanout
    <3>4. pc = "fanout"
      BY <1>13 DEF Fanout
    <3>5. /\ pc' = back \/ pc' = pc
          /\ item' = None \/ item' = item
          /\ slot' = 0 \/ slot' = slot
          /\ todo' \in SUBSET Transport
      BY <3>2 DEF TypeOK
    <3>6. TypeOK'
      BY <2>2, <3>1, <3>3, <3>4, <3>5 DEF TypeOK, store, links, bounds, history
    <3>7. Control'
      BY <2>2, <3>2, <3>3, <3>4 DEF TypeOK
    <3>. QED
      BY <3>6, <3>7
  <2>4. CASE ~ready[t]
    <3>1. inFlight' \in [Slot -> [header : Header \cup {None},
                                 pending : SUBSET Transport]]
      BY <2>1, <2>2, <2>4, ClearedType
    <3>2. UNCHANGED <<sendQueue, wire, store, links, cursor, bounds, back, history>>
      BY <1>13, <2>1, <2>4 DEF Fanout
    <3>3. \/ pc' = "release" /\ UNCHANGED item /\ slot' = 0 /\ todo' = {}
          \/ pc' = back /\ item' = None /\ slot' = 0 /\ todo' = {}
          \/ todo' = todo \ {t} /\ todo # {t} /\ UNCHANGED <<pc, item, slot>>
      BY <2>1, <2>4 DEF Return
    <3>4. pc = "fanout"
      BY <1>13 DEF Fanout
    <3>5. /\ pc' \in {"release", back, pc}
          /\ item' = None \/ item' = item
          /\ slot' = 0 \/ slot' = slot
          /\ todo' \in SUBSET Transport
      BY <3>3 DEF TypeOK
    <3>6. TypeOK'
      BY <2>2, <3>1, <3>2, <3>4, <3>5 DEF TypeOK, store, links, bounds, history
    <3>7. Control'
      BY <2>2, <3>2, <3>3, <3>4 DEF TypeOK
    <3>. QED
      BY <3>6, <3>7
  <2>. QED
    BY <2>3, <2>4
<1>14. CASE Release
  BY <1>14 DEF Release, Return, TypeOK, table, links, bounds, history
<1>15. CASE BeginSend
  BY <1>15, CursorStep DEF BeginSend, TypeOK, store, table, links, bounds, history
<1>16. ASSUME NEW w \in WireSlot, SendFrame(w) PROVE TypeOK' /\ Control'
  <2>1. sendQueue[cursor] \in Seq(Slot) /\ cursor \in Transport
    BY <1>16 DEF SendFrame, TypeOK
  <2>2. Head(sendQueue[cursor]) \in Slot /\ Tail(sendQueue[cursor]) \in Seq(Slot)
    BY <1>16, <2>1, HeadTailProperties DEF SendFrame
  <2>3. sendQueue' \in [Transport -> Seq(Slot)]
    BY <1>16, <2>1, <2>2 DEF SendFrame, TypeOK
  <2>4. wire' \in [Transport -> [WireSlot -> Header \cup {None}]]
    BY <1>16, <2>1, <2>2 DEF SendFrame, TypeOK
  <2>. QED
    BY <1>16, <2>3, <2>4 DEF SendFrame, TypeOK, store, links, runner, history
<1>17. CASE FinishFrame
  <2>1. sendQueue[cursor] \in Seq(Slot) /\ cursor \in Transport
    BY <1>17 DEF FinishFrame, TypeOK
  <2>2. Head(sendQueue[cursor]) \in Slot /\ Tail(sendQueue[cursor]) \in Seq(Slot)
    BY <1>17, <2>1, HeadTailProperties DEF FinishFrame
  <2>3. sendQueue' \in [Transport -> Seq(Slot)]
    BY <1>17, <2>1, <2>2 DEF FinishFrame, TypeOK
  <2>. DEFINE h == inFlight[Head(sendQueue[cursor])].header
  <2>4. CASE Acked(cursor, h) = {}
    BY <1>17, <2>1, <2>3, <2>4 DEF FinishFrame, TypeOK, store, links, bounds, history
  <2>5. CASE Acked(cursor, h) # {}
    <3>1. PICK k \in Slot :
            /\ First(k, Acked(cursor, h))
            /\ inFlight' = Cleared(k, cursor)
            /\ IF inFlight[k].pending = {cursor}
               THEN pc' = "release" /\ item' = h /\ back' = "sending"
               ELSE UNCHANGED <<pc, item, back>>
      BY <1>17, <2>5 DEF FinishFrame
    <3>2. h \in Header
      <4>1. k \in Acked(cursor, h)
        BY <3>1 DEF First
      <4>. QED
        BY <4>1, <2>2 DEF Acked, OccupiedNamed
    <3>3. inFlight' \in [Slot -> [header : Header \cup {None},
                                 pending : SUBSET Transport]]
      BY <3>1, <2>1, ClearedType
    <3>. QED
      BY <1>17, <2>1, <2>3, <3>1, <3>2, <3>3 DEF FinishFrame, TypeOK, store, links, bounds, history
  <2>. QED
    BY <2>4, <2>5
<1>18. CASE EndSend
  BY <1>18, CursorStep DEF EndSend, TypeOK, store, table, links, bounds, history
<1>19. CASE EndStep
  BY <1>19, DrainerAssumption DEF EndStep, TypeOK, store, table, links, bounds, history
<1>20. ASSUME NEW t \in Transport, NEW w \in WireSlot, Complete(t, w) PROVE TypeOK' /\ Control'
  BY <1>20 DEF Complete, TypeOK, store, runner, bounds, history
<1>21. ASSUME NEW t \in Transport, Ack(t) PROVE TypeOK' /\ Control'
  <2>1. /\ inFlight' \in [Slot -> [header : Header \cup {None},
                                 pending : SUBSET Transport]]
        /\ link' \in [Transport -> [at : {"idle", "ack", "release"},
                                   header : Header \cup {None}]]
    <3>1. CASE Acked(t, link[t].header) = {}
      <4>1. Idle \in [at : {"idle", "ack", "release"}, header : Header \cup {None}]
        BY DEF Idle
      <4>. QED
        BY <1>21, <3>1, <4>1 DEF Ack, TypeOK
    <3>2. CASE Acked(t, link[t].header) # {}
      <4>1. PICK k \in Slot :
              /\ inFlight' = Cleared(k, t)
              /\ link' = [link EXCEPT ![t] =
                            IF inFlight[k].pending = {t}
                            THEN [@ EXCEPT !.at = "release"] ELSE Idle]
        BY <1>21, <3>2 DEF Ack
      <4>2. [link[t] EXCEPT !.at = "release"] \in
              [at : {"idle", "ack", "release"}, header : Header \cup {None}]
        BY link[t] \in [at : {"idle", "ack", "release"}, header : Header \cup {None}]
           DEF TypeOK
      <4>. QED
        BY <4>1, <4>2, ClearedType DEF TypeOK, Idle
    <3>. QED
      BY <3>1, <3>2
  <2>. QED
    BY <1>21, <2>1 DEF Ack, TypeOK, store, runner, history
<1>22. ASSUME NEW t \in Transport, AckRelease(t) PROVE TypeOK' /\ Control'
  BY <1>22 DEF AckRelease, TypeOK, table, runner, bounds, history, Idle
<1>23. ASSUME NEW t \in Transport, LinkUp(t) PROVE TypeOK' /\ Control'
  BY <1>23 DEF LinkUp, TypeOK, store, table, runner, bounds, history
<1>24. ASSUME NEW t \in Transport, LinkDown(t) PROVE TypeOK' /\ Control'
  BY <1>24 DEF LinkDown, TypeOK, store, table, runner, bounds, history
<1>25. CASE UNCHANGED vars
  BY <1>25 DEF vars, TypeOK, store, table, links, runner, bounds, history
<1>. QED
  BY <1>1, <1>2, <1>3, <1>4, <1>5, <1>6, <1>7, <1>8, <1>9, <1>10, <1>11, <1>12,
     <1>13, <1>14, <1>15, <1>16, <1>17, <1>18, <1>19, <1>20, <1>21, <1>22,
     <1>23, <1>24, <1>25 DEF Next, Runner, Link

LEMMA NextOccupiedNamed == TypeInv /\ [Next]_vars => OccupiedNamed'
<1>. SUFFICES ASSUME TypeOK, Control, OccupiedNamed, [Next]_vars PROVE OccupiedNamed'
  BY DEF TypeInv
<1>1. ASSUME NEW targets \in SUBSET Transport, Route(targets) PROVE OccupiedNamed'
  <2>1. CASE UNCHANGED inFlight
    BY <2>1 DEF OccupiedNamed
  <2>2. ASSUME NEW k \in Slot, targets # {},
               inFlight' = [inFlight EXCEPT ![k] = [header |-> item, pending |-> targets]]
        PROVE  OccupiedNamed'
    <3>1. item \in Header
      BY <1>1 DEF Route, Control
    <3>. QED
      BY <2>2, <3>1 DEF TypeOK, OccupiedNamed
  <2>. QED
    BY <1>1, <2>1, <2>2 DEF Route
<1>2. ASSUME NEW k \in Slot, NEW t \in Transport, inFlight' = Cleared(k, t)
      PROVE  OccupiedNamed'
  BY <1>2, ClearedNamed DEF OccupiedNamed
<1>3. CASE Fanout
  BY <1>2, <1>3 DEF Fanout, Control, OccupiedNamed
<1>4. CASE FinishFrame
  BY <1>2, <1>4 DEF FinishFrame, Control, OccupiedNamed
<1>5. ASSUME NEW t \in Transport, Ack(t) PROVE OccupiedNamed'
  BY <1>2, <1>5 DEF Ack, OccupiedNamed
<1>6. CASE UNCHANGED inFlight
  BY <1>6 DEF OccupiedNamed
<1>. QED
  BY <1>1, <1>3, <1>4, <1>5, <1>6 DEF Next, Runner, Link, vars, table, Publish,
     Receive, DequeueLocal, EndQueue, Poll, EndPoll, EndReceive, Dispatch,
     EndDispatch, Overrun, Unreachable, Release, BeginSend, SendFrame, EndSend,
     EndStep, Complete, AckRelease, LinkUp, LinkDown

LEMMA TypeInvariant == Spec => []TypeInv
<1>1. TypeInv /\ [Next]_vars => TypeInv'
  BY NextTypeOK, NextOccupiedNamed DEF TypeInv
<1>. QED
  BY <1>1, InitTypeInv, PTL DEF Spec

\* The types of the node's state, whatever the constants are.
THEOREM TypeCorrect == Spec => []TypeOK
BY TypeInvariant, PTL DEF TypeInv

Holds(k, h) == inFlight[k].pending # {} /\ inFlight[k].header = h
Queued(t, k) == Contains(sendQueue[t], k)
OnWire(t, h) == \E w \in WireSlot : wire[t][w] = h
Acking(t, h) == link[t].at = "ack" /\ link[t].header = h
Written(t, h) == OnWire(t, h) \/ Acking(t, h)
Releasing(t, h) == link[t].at = "release" /\ link[t].header = h
Source == 0 .. TransportCount
InInbox(h) == \E s \in Source : Contains(inbox[s], h)
InHand(h) == pc \in {"route", "release", "blocked"} /\ item = h

(***************************************************************************)
(* The work of the transports.                                             *)
(***************************************************************************)

\* No handle is queued twice, no frame is written twice at the same time, and
\* the frame whose write a link's task is acknowledging has left the wire.
QueueUnique == \A t \in Transport : IsInjective(sendQueue[t])
WireUnique ==
    \A t \in Transport : \A v, w \in WireSlot :
        wire[t][v] = wire[t][w] /\ wire[t][v] # None => v = w
AckOffWire ==
    \A t \in Transport :
        /\ link[t].at # "idle" => link[t].header # None
        /\ link[t].at = "ack" => ~ OnWire(t, link[t].header)

\* Queued handles and written frames are backed by a pending bit, and a queued
\* handle is not written yet.
QueuedPending ==
    \A t \in Transport, k \in Slot : Queued(t, k) => t \in inFlight[k].pending
WrittenPending ==
    \A t \in Transport, h \in Header : Written(t, h) =>
        \E k \in Slot : t \in inFlight[k].pending /\ inFlight[k].header = h
QueuedUnwritten ==
    \A t \in Transport, k \in Slot : Queued(t, k) =>
        ~ Written(t, inFlight[k].header)

\* The targets that _publishFrame has not reached yet have their bit and nothing
\* else.
TodoPending ==
    /\ pc # "fanout" => todo = {}
    /\ pc = "fanout" =>
         /\ inFlight[slot].header = item
         /\ \A t \in todo : /\ t \in inFlight[slot].pending
                            /\ ~ Queued(t, slot)
                            /\ ~ Written(t, item)

\* Every pending bit has its work.
PendingWorked ==
    \A t \in Transport, k \in Slot : t \in inFlight[k].pending =>
        \/ slot = k /\ t \in todo
        \/ Queued(t, k)
        \/ Written(t, inFlight[k].header)

WorkInv ==
    /\ QueueUnique /\ WireUnique /\ AckOffWire
    /\ QueuedPending /\ WrittenPending /\ QueuedUnwritten
    /\ TodoPending /\ PendingWorked

(***************************************************************************)
(* The owners of the payloads.                                             *)
(***************************************************************************)

InboxUnique ==
    /\ \A s \in Source : IsInjective(inbox[s])
    /\ \A s, r \in Source : \A h \in Header :
          Contains(inbox[s], h) /\ Contains(inbox[r], h) => s = r
SlotUnique ==
    \A j, k \in Slot, h \in Header : Holds(j, h) /\ Holds(k, h) => j = k
ReleaseUnique ==
    \A t, u \in Transport, h \in Header : Releasing(t, h) /\ Releasing(u, h) => t = u
InboxAlone ==
    \A h \in Header : InInbox(h) =>
        /\ ~ InHand(h)
        /\ \A k \in Slot : ~ Holds(k, h)
        /\ \A t \in Transport : ~ Releasing(t, h)
HandAlone ==
    \A h \in Header : InHand(h) =>
        /\ \A k \in Slot : ~ Holds(k, h)
        /\ \A t \in Transport : ~ Releasing(t, h)
SlotAlone ==
    \A k \in Slot, t \in Transport, h \in Header : Holds(k, h) => ~ Releasing(t, h)

\* A payload is stored exactly as long as somebody owns it.
OwnerStored ==
    \A h \in Header :
        h \in stored <=> \/ InInbox(h) \/ InHand(h)
                         \/ \E k \in Slot : Holds(k, h)
                         \/ \E t \in Transport : Releasing(t, h)
FreshUnstored == fresh \cap stored = {}

OwnerInv ==
    /\ InboxUnique /\ SlotUnique /\ ReleaseUnique
    /\ InboxAlone /\ HandAlone /\ SlotAlone
    /\ OwnerStored /\ FreshUnstored

IInv == TypeInv /\ WorkInv /\ OwnerInv

(***************************************************************************)
(* What the operations on sequences do to membership.                      *)
(***************************************************************************)

LEMMA AppendContains ==
    ASSUME NEW S, NEW q \in Seq(S), NEW e \in S
    PROVE  /\ \A x : Contains(Append(q, e), x) <=> Contains(q, x) \/ x = e
           /\ IsInjective(q) /\ ~ Contains(q, e) => IsInjective(Append(q, e))
<1>. DEFINE n == Len(q)
<1>1. /\ n \in Nat /\ DOMAIN q = 1 .. n
      /\ Len(Append(q, e)) = n + 1 /\ DOMAIN Append(q, e) = 1 .. (n + 1)
      /\ \A i \in 1 .. n : Append(q, e)[i] = q[i]
      /\ Append(q, e)[n + 1] = e
  BY AppendProperties, LenProperties
<1>2. \A i \in 1 .. (n + 1) : i \in 1 .. n \/ i = n + 1
  BY <1>1
<1>3. 1 .. n \subseteq 1 .. (n + 1) /\ n + 1 \in 1 .. (n + 1)
  BY <1>1
<1>. HIDE DEF n
<1>. QED
  BY <1>1, <1>2, <1>3 DEF Contains, IsInjective, n

LEMMA TailContains ==
    ASSUME NEW S, NEW q \in Seq(S), q # <<>>
    PROVE  /\ Head(q) \in S /\ Tail(q) \in Seq(S)
           /\ Contains(q, Head(q))
           /\ \A x : Contains(q, x) <=> Contains(Tail(q), x) \/ x = Head(q)
           /\ IsInjective(q) => IsInjective(Tail(q)) /\ ~ Contains(Tail(q), Head(q))
<1>. DEFINE n == Len(q)
<1>1. /\ n \in Nat \ {0} /\ DOMAIN q = 1 .. n
      /\ Len(Tail(q)) = n - 1 /\ DOMAIN Tail(q) = 1 .. (n - 1)
      /\ \A i \in 1 .. (n - 1) : Tail(q)[i] = q[i + 1]
      /\ Head(q) = q[1] /\ Head(q) \in S /\ Tail(q) \in Seq(S)
  BY HeadTailProperties, LenProperties, EmptySeq
<1>2. 1 \in 1 .. n
  BY <1>1
<1>3. \A i \in 1 .. n : i # 1 => i - 1 \in 1 .. (n - 1) /\ (i - 1) + 1 = i
  BY <1>1
<1>4. \A i \in 1 .. (n - 1) : i + 1 \in 1 .. n /\ i + 1 # 1
  BY <1>1
<1>5. \A i, j \in 1 .. (n - 1) : i + 1 = j + 1 => i = j
  OBVIOUS
<1>6. ASSUME NEW x PROVE Contains(q, x) <=> Contains(Tail(q), x) \/ x = Head(q)
  <2>1. ASSUME Contains(q, x), x # Head(q) PROVE Contains(Tail(q), x)
    <3>1. PICK i \in 1 .. n : q[i] = x
      BY <1>1, <2>1 DEF Contains
    <3>2. i # 1 /\ i - 1 \in 1 .. (n - 1) /\ Tail(q)[i - 1] = x
      BY <1>1, <1>3, <2>1, <3>1
    <3>. QED
      BY <1>1, <3>2 DEF Contains
  <2>2. ASSUME Contains(Tail(q), x) PROVE Contains(q, x)
    <3>1. PICK i \in 1 .. (n - 1) : Tail(q)[i] = x
      BY <1>1, <2>2 DEF Contains
    <3>. QED
      BY <1>1, <1>4, <3>1 DEF Contains
  <2>3. Contains(q, Head(q))
    BY <1>1, <1>2 DEF Contains
  <2>. QED
    BY <2>1, <2>2, <2>3
<1>7. ASSUME IsInjective(q) PROVE IsInjective(Tail(q)) /\ ~ Contains(Tail(q), Head(q))
  BY <1>1, <1>2, <1>4, <1>5, <1>7 DEF Contains, IsInjective
<1>. QED
  BY <1>1, <1>6, <1>7

LEMMA EmptyContains ==
    ASSUME NEW x PROVE ~ Contains(<<>>, x) /\ IsInjective(<<>>)
BY DEF Contains, IsInjective

(***************************************************************************)
(* What the parts of a step do to the places.                              *)
(***************************************************************************)

LEMMA EnqueueEffect ==
    ASSUME TypeOK, NEW t \in Transport, NEW k \in Slot,
           sendQueue' = [sendQueue EXCEPT ![t] = Append(@, k)]
    PROVE  /\ \A u \in Transport, j \in Slot :
                 Queued(u, j)' <=> Queued(u, j) \/ (u = t /\ j = k)
           /\ QueueUnique /\ ~ Queued(t, k) => QueueUnique'
<1>1. sendQueue[t] \in Seq(Slot)
  BY DEF TypeOK
<1>2. \A u \in Transport : sendQueue'[u] = IF u = t THEN Append(sendQueue[t], k)
                                           ELSE sendQueue[u]
  BY DEF TypeOK
<1>. QED
  BY <1>1, <1>2, AppendContains DEF Queued, QueueUnique

LEMMA DequeueEffect ==
    ASSUME TypeOK, QueueUnique, NEW t \in Transport, sendQueue[t] # <<>>,
           sendQueue' = [sendQueue EXCEPT ![t] = Tail(@)]
    PROVE  /\ Head(sendQueue[t]) \in Slot /\ Queued(t, Head(sendQueue[t]))
           /\ \A u \in Transport, j \in Slot :
                 Queued(u, j)' <=> Queued(u, j) /\ ~ (u = t /\ j = Head(sendQueue[t]))
           /\ QueueUnique'
<1>1. sendQueue[t] \in Seq(Slot)
  BY DEF TypeOK
<1>2. \A u \in Transport : sendQueue'[u] = IF u = t THEN Tail(sendQueue[t])
                                           ELSE sendQueue[u]
  BY DEF TypeOK
<1>. QED
  BY <1>1, <1>2, TailContains DEF Queued, QueueUnique

LEMMA ClearedEffect ==
    ASSUME TypeOK, NEW k \in Slot, NEW t \in Transport, t \in inFlight[k].pending,
           inFlight' = Cleared(k, t)
    PROVE  /\ \A j \in Slot : inFlight'[j].pending =
                 IF j = k THEN inFlight[k].pending \ {t} ELSE inFlight[j].pending
           /\ \A j \in Slot : inFlight'[j].pending # {} =>
                 inFlight'[j].header = inFlight[j].header
           /\ \A j \in Slot, h \in Header :
                 Holds(j, h)' <=> Holds(j, h) /\ ~ (j = k /\ inFlight[k].pending = {t})
<1>. DEFINE T == [header : Header \cup {None}, pending : SUBSET Transport]
<1>1. inFlight \in [Slot -> T] /\ inFlight[k] \in T
  BY DEF TypeOK
<1>2. ASSUME NEW j \in Slot
      PROVE  /\ inFlight'[j].pending =
                   IF j = k THEN inFlight[k].pending \ {t} ELSE inFlight[j].pending
             /\ inFlight'[j].pending # {} => inFlight'[j].header = inFlight[j].header
  <2>1. CASE inFlight[k].pending = {t}
    <3>1. inFlight'[j] = IF j = k THEN Free ELSE inFlight[j]
      BY <1>1, <2>1 DEF Cleared
    <3>2. Free.pending = {} /\ inFlight[k].pending \ {t} = {}
      BY <2>1 DEF Free
    <3>. QED
      BY <3>1, <3>2
  <2>2. CASE inFlight[k].pending # {t}
    <3>1. inFlight'[j] =
             IF j = k THEN [inFlight[k] EXCEPT !.pending = @ \ {t}] ELSE inFlight[j]
      BY <1>1, <2>2 DEF Cleared
    <3>. QED
      BY <1>1, <3>1
  <2>. QED
    BY <2>1, <2>2
<1>4. ASSUME NEW j \in Slot, NEW h \in Header
      PROVE  Holds(j, h)' <=> Holds(j, h) /\ ~ (j = k /\ inFlight[k].pending = {t})
  <2>1. inFlight[k].pending # {} /\ (inFlight[k].pending \ {t} = {} <=> inFlight[k].pending = {t})
    OBVIOUS
  <2>. QED
    BY <1>2, <2>1 DEF Holds
<1>. QED
  BY <1>2, <1>4

\* The write in slot w of the wire of t ends, and the link's task begins its Ack.
LEMMA CompleteEffect ==
    ASSUME TypeOK, WireUnique, AckOffWire, NEW t \in Transport, NEW w \in WireSlot,
           Complete(t, w)
    PROVE  /\ \A u \in Transport, h \in Header : Written(u, h)' <=> Written(u, h)
           /\ \A u \in Transport, h \in Header : Releasing(u, h)' <=> Releasing(u, h)
           /\ WireUnique' /\ AckOffWire'
<1>1. /\ \A u \in Transport : link'[u] = IF u = t THEN [at |-> "ack", header |-> wire[t][w]]
                                         ELSE link[u]
      /\ \A u \in Transport, v \in WireSlot :
            wire'[u][v] = IF u = t /\ v = w THEN None ELSE wire[u][v]
      /\ link[t].at = "idle" /\ wire[t][w] # None
  BY DEF Complete, TypeOK, Idle
<1>2. WireUnique'
  BY <1>1 DEF WireUnique
<1>3. AckOffWire'
  BY <1>1 DEF AckOffWire, WireUnique, OnWire
<1>4. ASSUME NEW u \in Transport, NEW h \in Header
      PROVE  Written(u, h)' <=> Written(u, h)
  BY <1>1, DrainerAssumption DEF Written, OnWire, Acking
<1>5. ASSUME NEW u \in Transport, NEW h \in Header
      PROVE  Releasing(u, h)' <=> Releasing(u, h)
  BY <1>1 DEF Releasing
<1>. QED
  BY <1>2, <1>3, <1>4, <1>5

\* The link's task of t finishes its Ack, with or without a Release to do.
LEMMA LinkEffect ==
    ASSUME TypeOK, NEW t \in Transport, NEW s \in {"idle", "release"}, NEW g,
           s = "release" => g # None,
           link' = [link EXCEPT ![t] = [at |-> s, header |-> g]],
           UNCHANGED wire, AckOffWire
    PROVE  /\ \A u \in Transport, h \in Header :
                 Written(u, h)' <=> OnWire(u, h) \/ (Acking(u, h) /\ u # t)
           /\ \A u \in Transport, h \in Header :
                 Releasing(u, h)' <=> IF u = t THEN s = "release" /\ g = h
                                      ELSE Releasing(u, h)
           /\ AckOffWire'
<1>1. \A u \in Transport : link'[u] = IF u = t THEN [at |-> s, header |-> g] ELSE link[u]
  BY DEF TypeOK
<1>2. \A u \in Transport, h \in Header : Written(u, h)' <=> OnWire(u, h) \/ (Acking(u, h) /\ u # t)
  BY <1>1 DEF Written, OnWire, Acking
<1>3. \A u \in Transport, h \in Header :
         Releasing(u, h)' <=> IF u = t THEN s = "release" /\ g = h ELSE Releasing(u, h)
  BY <1>1 DEF Releasing
<1>4. AckOffWire'
  BY <1>1 DEF AckOffWire, OnWire
<1>. QED
  BY <1>2, <1>3, <1>4

LEMMA InboxAppendEffect ==
    ASSUME TypeOK, NEW s \in Source, NEW h \in Header,
           inbox' = [inbox EXCEPT ![s] = Append(@, h)]
    PROVE  /\ \A g \in Header : InInbox(g)' <=> InInbox(g) \/ g = h
           /\ InboxUnique /\ ~ InInbox(h) => InboxUnique'
<1>1. inbox[s] \in Seq(Header)
  BY DEF TypeOK, Source
<1>2. \A r \in Source : inbox'[r] = IF r = s THEN Append(inbox[s], h) ELSE inbox[r]
  BY DEF TypeOK, Source
<1>3. \A x : Contains(Append(inbox[s], h), x) <=> Contains(inbox[s], x) \/ x = h
  BY <1>1, AppendContains
<1>4. ASSUME IsInjective(inbox[s]), ~ Contains(inbox[s], h)
      PROVE  IsInjective(Append(inbox[s], h))
  BY <1>1, <1>4, AppendContains
<1>. QED
  BY <1>2, <1>3, <1>4 DEF InInbox, InboxUnique

LEMMA InboxTailEffect ==
    ASSUME TypeOK, InboxUnique, NEW s \in Source, inbox[s] # <<>>,
           inbox' = [inbox EXCEPT ![s] = Tail(@)]
    PROVE  /\ Head(inbox[s]) \in Header
           /\ InInbox(Head(inbox[s]))
           /\ \A g \in Header : InInbox(g)' <=> InInbox(g) /\ g # Head(inbox[s])
           /\ InboxUnique'
<1>. DEFINE q == inbox[s]
            e == Head(q)
<1>1. q \in Seq(Header)
  BY DEF TypeOK, Source
<1>2. \A r \in Source : inbox'[r] = IF r = s THEN Tail(q) ELSE inbox[r]
  BY DEF TypeOK, Source
<1>3. /\ e \in Header /\ Contains(q, e)
      /\ \A x : Contains(q, x) <=> Contains(Tail(q), x) \/ x = e
      /\ IsInjective(Tail(q)) /\ ~ Contains(Tail(q), e)
  BY <1>1, TailContains DEF InboxUnique
<1>. QED
  BY <1>2, <1>3 DEF InInbox, InboxUnique

(***************************************************************************)
(* Every step keeps WorkInv.                                               *)
(***************************************************************************)

LEMMA WorkUntouched ==
    ASSUME TypeInv, WorkInv, UNCHANGED <<inFlight, sendQueue, wire, link, todo, slot>>,
           pc' = "fanout" <=> pc = "fanout", pc = "fanout" => item' = item
    PROVE  WorkInv'
<1>1. /\ \A t \in Transport, k \in Slot : Queued(t, k)' <=> Queued(t, k)
      /\ \A t \in Transport : \A h : Written(t, h)' <=> Written(t, h)
  BY DEF Queued, Written, OnWire, Acking
<1>2. QueueUnique' /\ WireUnique' /\ AckOffWire'
  BY DEF WorkInv, QueueUnique, WireUnique, AckOffWire, OnWire
<1>3. QueuedPending' /\ WrittenPending' /\ QueuedUnwritten' /\ PendingWorked'
  BY <1>1 DEF WorkInv, QueuedPending, WrittenPending, QueuedUnwritten, PendingWorked
<1>4. TodoPending'
  <2>1. CASE pc = "fanout"
    BY <1>1, <2>1 DEF WorkInv, TodoPending, TypeInv, Control, TypeOK
  <2>2. CASE pc # "fanout"
    BY <2>2 DEF WorkInv, TodoPending
  <2>. QED
    BY <2>1, <2>2
<1>. QED
  BY <1>2, <1>3, <1>4 DEF WorkInv

\* The bit of t in slot k and the one piece of work it stood for disappear.
LEMMA ClearedWork ==
    ASSUME TypeInv, WorkInv, SlotUnique, NEW k \in Slot, NEW t \in Transport,
           t \in inFlight[k].pending, inFlight' = Cleared(k, t),
           \A u \in Transport, j \in Slot :
              Queued(u, j)' <=> Queued(u, j) /\ ~ (u = t /\ j = k),
           \A u \in Transport, h \in Header :
              Written(u, h)' <=> Written(u, h) /\ ~ (u = t /\ h = inFlight[k].header),
           \A u \in Transport, j \in Slot :
              slot = j /\ u \in todo /\ ~ (u = t /\ j = k) => slot' = j /\ u \in todo'
    PROVE  QueuedPending' /\ WrittenPending' /\ QueuedUnwritten' /\ PendingWorked'
<1>1. /\ \A j \in Slot : inFlight'[j].pending =
            IF j = k THEN inFlight[k].pending \ {t} ELSE inFlight[j].pending
      /\ \A j \in Slot : inFlight'[j].pending # {} =>
            inFlight'[j].header = inFlight[j].header
  BY ClearedEffect DEF TypeInv
<1>2. \A j \in Slot, u \in Transport :
         u \in inFlight'[j].pending <=> u \in inFlight[j].pending /\ ~ (u = t /\ j = k)
  BY <1>1
<1>3. \A j \in Slot, u \in Transport : u \in inFlight'[j].pending =>
         inFlight'[j].header = inFlight[j].header
  BY <1>1
<1>4. \A j \in Slot, u \in Transport : u \in inFlight[j].pending => inFlight[j].header \in Header
  BY DEF TypeInv, OccupiedNamed
<1>5. \A j \in Slot, u \in Transport :
         u \in inFlight[j].pending /\ inFlight[j].header = inFlight[k].header => j = k
  BY <1>4 DEF SlotUnique, Holds
<1>6. QueuedPending'
  BY <1>2 DEF WorkInv, QueuedPending
<1>7. WrittenPending'
  BY <1>2, <1>3 DEF WorkInv, WrittenPending
<1>8. QueuedUnwritten'
  BY <1>2, <1>3, <1>4 DEF WorkInv, QueuedPending, QueuedUnwritten
<1>9. PendingWorked'
  BY <1>2, <1>3, <1>4, <1>5 DEF WorkInv, PendingWorked
<1>. QED
  BY <1>6, <1>7, <1>8, <1>9

LEMMA RouteWork ==
    ASSUME TypeInv, WorkInv, OwnerInv, NEW targets \in SUBSET Transport, Route(targets)
    PROVE  WorkInv'
<1>1. CASE UNCHANGED inFlight /\ pc' = "release" /\ UNCHANGED <<slot, todo>>
  BY <1>1, WorkUntouched DEF Route, links
<1>2. ASSUME NEW k \in Slot, inFlight[k].pending = {}, targets # {},
             inFlight' = [inFlight EXCEPT ![k] = [header |-> item, pending |-> targets]],
             slot' = k, todo' = targets, pc' = "fanout"
      PROVE  WorkInv'
  <2>1. /\ pc = "route" /\ item \in Header /\ item' = item
        /\ UNCHANGED <<sendQueue, wire, link>>
    BY DEF Route, links, TypeInv, Control
  <2>2. \A j \in Slot : /\ inFlight'[j].pending = IF j = k THEN targets ELSE inFlight[j].pending
                        /\ inFlight'[j].header = IF j = k THEN item ELSE inFlight[j].header
    BY <1>2 DEF TypeInv, TypeOK
  <2>3. /\ \A t \in Transport, j \in Slot : Queued(t, j)' <=> Queued(t, j)
        /\ \A t \in Transport : \A h : Written(t, h)' <=> Written(t, h)
    BY <2>1 DEF Queued, Written, OnWire, Acking
  <2>4. \A j \in Slot : inFlight[j].pending # {} => inFlight[j].header # item
    BY <2>1 DEF OwnerInv, HandAlone, InHand, Holds
  <2>5. \A t \in Transport : ~ Written(t, item) /\ ~ Queued(t, k)
    BY <1>2, <2>1, <2>4 DEF WorkInv, WrittenPending, QueuedPending
  <2>6. QueueUnique' /\ WireUnique' /\ AckOffWire'
    BY <2>1 DEF WorkInv, QueueUnique, WireUnique, AckOffWire, OnWire
  <2>7. QueuedPending' /\ QueuedUnwritten'
    BY <2>2, <2>3, <2>5 DEF WorkInv, QueuedPending, QueuedUnwritten
  <2>8. WrittenPending'
    BY <1>2, <2>2, <2>3 DEF WorkInv, WrittenPending
  <2>9. TodoPending'
    BY <1>2, <2>1, <2>2, <2>3, <2>5 DEF TodoPending
  <2>10. todo = {}
    BY <2>1 DEF WorkInv, TodoPending
  <2>11. PendingWorked'
    BY <1>2, <2>2, <2>3, <2>10 DEF WorkInv, PendingWorked
  <2>. QED
    BY <2>6, <2>7, <2>8, <2>9, <2>11 DEF WorkInv
<1>. QED
  BY <1>1, <1>2 DEF Route, First, FreeSlots

LEMMA FanoutWork ==
    ASSUME TypeInv, WorkInv, OwnerInv, Fanout
    PROVE  WorkInv'
<1>1. PICK t \in Transport : t \in todo /\ Fanout!2!(t)
  BY DEF Fanout, First
<1>2. pc = "fanout" /\ slot \in Slot /\ UNCHANGED <<wire, link>>
  BY DEF Fanout, links, TypeInv, Control
<1>3. /\ t \in inFlight[slot].pending /\ ~ Queued(t, slot)
      /\ inFlight[slot].header = item /\ ~ Written(t, item)
  BY <1>1, <1>2 DEF WorkInv, TodoPending
<1>4. \A u \in Transport : \A h : Written(u, h)' <=> Written(u, h)
  BY <1>2 DEF Written, OnWire, Acking
<1>5. WireUnique' /\ AckOffWire'
  BY <1>2 DEF WorkInv, WireUnique, AckOffWire, OnWire
<1>6. back # "fanout"
  BY DEF TypeInv, TypeOK
<1>7. CASE ready[t]
  <2>1. /\ sendQueue' = [sendQueue EXCEPT ![t] = Append(@, slot)] /\ UNCHANGED inFlight
        /\ \/ todo = {t} /\ pc' = back /\ todo' = {}
           \/ todo # {t} /\ todo' = todo \ {t} /\ UNCHANGED <<pc, item, slot>>
    BY <1>1, <1>7 DEF Return
  <2>2. \A u \in Transport, j \in Slot : Queued(u, j)' <=> Queued(u, j) \/ (u = t /\ j = slot)
    BY <1>2, <2>1, EnqueueEffect DEF TypeInv
  <2>3. QueueUnique'
    BY <1>2, <1>3, <2>1, EnqueueEffect DEF TypeInv, WorkInv
  <2>4. QueuedPending'
    BY <1>3, <2>1, <2>2 DEF WorkInv, QueuedPending
  <2>5. WrittenPending' /\ QueuedUnwritten'
    BY <1>3, <1>4, <2>1, <2>2 DEF WorkInv, WrittenPending, QueuedUnwritten
  <2>6. TodoPending'
    BY <1>2, <1>4, <1>6, <2>1, <2>2 DEF WorkInv, TodoPending, TypeInv, TypeOK
  <2>7. PendingWorked'
    BY <1>4, <2>1, <2>2 DEF WorkInv, PendingWorked
  <2>. QED
    BY <1>5, <2>3, <2>4, <2>5, <2>6, <2>7 DEF WorkInv
<1>8. CASE ~ ready[t]
  <2>1. /\ inFlight' = Cleared(slot, t) /\ UNCHANGED sendQueue
        /\ \/ todo = {t} /\ pc' # "fanout" /\ todo' = {}
           \/ todo # {t} /\ todo' = todo \ {t} /\ UNCHANGED <<pc, item, slot>>
    <3>1. todo \subseteq inFlight[slot].pending
      BY <1>2 DEF WorkInv, TodoPending
    <3>. QED
      BY <1>1, <1>6, <1>8, <3>1 DEF Return
  <2>2. \A u \in Transport, j \in Slot : Queued(u, j)' <=> Queued(u, j)
    BY <2>1 DEF Queued
  <2>3. QueueUnique'
    BY <2>1 DEF WorkInv, QueueUnique
  <2>4. \A u \in Transport, j \in Slot :
           slot = j /\ u \in todo /\ ~ (u = t /\ j = slot) => slot' = j /\ u \in todo'
    BY <2>1
  <2>5. QueuedPending' /\ WrittenPending' /\ QueuedUnwritten' /\ PendingWorked'
    BY <1>2, <1>3, <1>4, <2>1, <2>2, <2>4, ClearedWork DEF OwnerInv
  <2>6. TodoPending'
    <3>1. /\ inFlight'[slot].pending = inFlight[slot].pending \ {t}
          /\ inFlight'[slot].pending # {} => inFlight'[slot].header = item
      BY <1>2, <1>3, <2>1, ClearedEffect DEF TypeInv
    <3>2. PICK k \in Slot, g \in {item} : k = slot /\ g = item
      BY <1>2
    <3>3. ASSUME NEW u \in todo, u # t
          PROVE  /\ u \in inFlight'[k].pending
                 /\ ~ Queued(u, k)' /\ ~ Written(u, g)'
      <4>1. u \in Transport
        BY DEF TypeInv, TypeOK
      <4>2. u \in inFlight[k].pending /\ ~ Queued(u, k) /\ ~ Written(u, g)
        BY <1>2, <3>2 DEF WorkInv, TodoPending
      <4>3. ~ Queued(u, k)' /\ ~ Written(u, g)'
        BY <1>4, <2>2, <4>1, <4>2
      <4>. QED
        BY <3>1, <3>2, <3>3, <4>2, <4>3
    <3>. QED
      BY <1>1, <1>2, <2>1, <3>1, <3>2, <3>3 DEF TodoPending
  <2>. QED
    BY <1>5, <2>3, <2>5, <2>6 DEF WorkInv
<1>. QED
  BY <1>7, <1>8

LEMMA SendFrameWork ==
    ASSUME TypeInv, WorkInv, SlotUnique, NEW w \in WireSlot, SendFrame(w)
    PROVE  WorkInv'
<1>. DEFINE t == cursor
            k == Head(sendQueue[t])
<1>1. /\ t \in Transport /\ pc = "sending" /\ sendQueue[t] # <<>>
      /\ wire[t][w] = None
      /\ sendQueue' = [sendQueue EXCEPT ![t] = Tail(@)]
      /\ UNCHANGED <<inFlight, link, pc, todo>>
  BY DEF SendFrame, TypeInv, Control, links, runner, FreeWire
<1>2. /\ k \in Slot /\ Queued(t, k) /\ QueueUnique'
      /\ \A u \in Transport, j \in Slot :
            Queued(u, j)' <=> Queued(u, j) /\ ~ (u = t /\ j = k)
  BY <1>1, DequeueEffect DEF TypeInv, WorkInv
<1>3. /\ t \in inFlight[k].pending /\ inFlight[k].header \in Header
      /\ ~ Written(t, inFlight[k].header)
  BY <1>1, <1>2 DEF WorkInv, QueuedPending, QueuedUnwritten, TypeInv, OccupiedNamed
<1>4. \A u \in Transport, v \in WireSlot : wire'[u][v] =
         IF u = t /\ v = w THEN inFlight[k].header ELSE wire[u][v]
  BY <1>1 DEF SendFrame, TypeInv, TypeOK
<1>. HIDE DEF t, k
<1>5. \A u \in Transport, h \in Header :
         Written(u, h)' <=> Written(u, h) \/ (u = t /\ h = inFlight[k].header)
  BY <1>1, <1>4, DrainerAssumption DEF Written, OnWire, Acking
<1>6. WireUnique'
  BY <1>3, <1>4 DEF WorkInv, WireUnique, Written, OnWire
<1>7. AckOffWire'
  BY <1>1, <1>3, <1>4 DEF WorkInv, AckOffWire, Written, OnWire, Acking
<1>8. QueuedPending' /\ WrittenPending'
  BY <1>1, <1>2, <1>3, <1>5 DEF WorkInv, QueuedPending, WrittenPending
<1>9. \A j \in Slot : t \in inFlight[j].pending /\ inFlight[j].header = inFlight[k].header
                      => j = k
  BY <1>2, <1>3 DEF SlotUnique, Holds
<1>10. QueuedUnwritten'
  <2>1. \A u \in Transport, j \in Slot :
           Queued(u, j) => u \in inFlight[j].pending /\ inFlight[j].header \in Header
    BY DEF WorkInv, QueuedPending, TypeInv, OccupiedNamed
  <2>. QED
    BY <1>1, <1>2, <1>5, <1>9, <2>1 DEF WorkInv, QueuedUnwritten
<1>11. TodoPending'
  BY <1>1 DEF WorkInv, TodoPending
<1>12. PendingWorked'
  <2>1. \A u \in Transport, j \in Slot : u \in inFlight[j].pending => inFlight[j].header \in Header
    BY DEF TypeInv, OccupiedNamed
  <2>. QED
    BY <1>1, <1>2, <1>5, <2>1 DEF WorkInv, PendingWorked, TodoPending
<1>. QED
  BY <1>2, <1>6, <1>7, <1>8, <1>10, <1>11, <1>12 DEF WorkInv

\* What FinishFrame does, given that a queued handle always has its bit.
LEMMA FinishFrameEffect ==
    ASSUME TypeInv, WorkInv, SlotUnique, FinishFrame
    PROVE  \E k \in Slot :
              /\ pc = "sending" /\ cursor \in Transport /\ Queued(cursor, k)
              /\ cursor \in inFlight[k].pending /\ inFlight[k].header \in Header
              /\ inFlight' = Cleared(k, cursor)
              /\ IF inFlight[k].pending = {cursor}
                 THEN pc' = "release" /\ item' = inFlight[k].header /\ back' = "sending"
                 ELSE UNCHANGED <<pc, item, back>>
              /\ QueueUnique'
              /\ \A u \in Transport, j \in Slot :
                    Queued(u, j)' <=> Queued(u, j) /\ ~ (u = cursor /\ j = k)
<1>. DEFINE t == cursor
            k == Head(sendQueue[t])
            h == inFlight[k].header
<1>1. /\ t \in Transport /\ pc = "sending" /\ sendQueue[t] # <<>>
      /\ sendQueue' = [sendQueue EXCEPT ![t] = Tail(@)]
  BY DEF FinishFrame, TypeInv, Control
<1>2. /\ k \in Slot /\ Queued(t, k) /\ QueueUnique'
      /\ \A u \in Transport, j \in Slot :
            Queued(u, j)' <=> Queued(u, j) /\ ~ (u = t /\ j = k)
  BY <1>1, DequeueEffect DEF TypeInv, WorkInv
<1>3. t \in inFlight[k].pending /\ h \in Header
  BY <1>1, <1>2 DEF WorkInv, QueuedPending, TypeInv, OccupiedNamed
<1>4. \A j \in Acked(t, h) : j = k
  BY <1>2, <1>3 DEF Acked, SlotUnique, Holds
<1>5. k \in Acked(t, h)
  BY <1>2, <1>3 DEF Acked
<1>6. /\ inFlight' = Cleared(k, t)
      /\ IF inFlight[k].pending = {t}
         THEN pc' = "release" /\ item' = h /\ back' = "sending"
         ELSE UNCHANGED <<pc, item, back>>
  BY <1>4, <1>5 DEF FinishFrame, First
<1>. QED
  BY <1>1, <1>2, <1>3, <1>6

LEMMA FinishFrameWork ==
    ASSUME TypeInv, WorkInv, SlotUnique, FinishFrame
    PROVE  WorkInv'
<1>1. PICK k \in Slot :
         /\ pc = "sending" /\ cursor \in Transport /\ Queued(cursor, k)
         /\ cursor \in inFlight[k].pending /\ inFlight[k].header \in Header
         /\ inFlight' = Cleared(k, cursor)
         /\ pc' \in {"release", "sending"}
         /\ QueueUnique'
         /\ \A u \in Transport, j \in Slot :
               Queued(u, j)' <=> Queued(u, j) /\ ~ (u = cursor /\ j = k)
  BY FinishFrameEffect
<1>2. UNCHANGED <<wire, link, slot, todo>>
  BY DEF FinishFrame, links
<1>3. \A u \in Transport : \A h : Written(u, h)' <=> Written(u, h)
  BY <1>2 DEF Written, OnWire, Acking
<1>4. ~ Written(cursor, inFlight[k].header)
  BY <1>1 DEF WorkInv, QueuedUnwritten
<1>5. QueuedPending' /\ WrittenPending' /\ QueuedUnwritten' /\ PendingWorked'
  BY <1>1, <1>2, <1>3, <1>4, ClearedWork
<1>6. WireUnique' /\ AckOffWire'
  BY <1>2 DEF WorkInv, WireUnique, AckOffWire, OnWire
<1>7. TodoPending'
  BY <1>1, <1>2 DEF WorkInv, TodoPending
<1>. QED
  BY <1>1, <1>5, <1>6, <1>7 DEF WorkInv

LEMMA CompleteWork ==
    ASSUME TypeInv, WorkInv, NEW t \in Transport, NEW w \in WireSlot, Complete(t, w)
    PROVE  WorkInv'
<1>1. UNCHANGED <<inFlight, sendQueue, slot, todo, pc, item>>
  BY DEF Complete, runner
<1>2. /\ \A u \in Transport, h \in Header : Written(u, h)' <=> Written(u, h)
      /\ WireUnique' /\ AckOffWire'
  BY CompleteEffect DEF TypeInv, WorkInv
<1>3. \A u \in Transport, k \in Slot : Queued(u, k)' <=> Queued(u, k)
  BY <1>1 DEF Queued
<1>4. \A u \in Transport, k \in Slot : u \in inFlight[k].pending => inFlight[k].header \in Header
  BY DEF TypeInv, OccupiedNamed
<1>5. QueueUnique'
  BY <1>1 DEF WorkInv, QueueUnique
<1>6. QueuedPending' /\ WrittenPending'
  BY <1>1, <1>2, <1>3 DEF WorkInv, QueuedPending, WrittenPending
<1>7. QueuedUnwritten' /\ PendingWorked'
  BY <1>1, <1>2, <1>3, <1>4 DEF WorkInv, QueuedPending, QueuedUnwritten, PendingWorked
<1>8. TodoPending'
  BY <1>1, <1>2, <1>3 DEF WorkInv, TodoPending, TypeInv, TypeOK, Control
<1>. QED
  BY <1>2, <1>5, <1>6, <1>7, <1>8 DEF WorkInv

\* What Ack does, given that every write is awaited.
LEMMA AckEffect ==
    ASSUME TypeInv, WorkInv, SlotUnique, NEW t \in Transport, Ack(t)
    PROVE  \E k \in Slot :
              /\ Acking(t, inFlight[k].header) /\ inFlight[k].header \in Header
              /\ t \in inFlight[k].pending /\ inFlight' = Cleared(k, t)
              /\ link' = [link EXCEPT ![t] =
                            IF inFlight[k].pending = {t}
                            THEN [at |-> "release", header |-> inFlight[k].header]
                            ELSE [at |-> "idle", header |-> None]]
<1>. DEFINE h == link[t].header
<1>1. link[t].at = "ack" /\ h \in Header
  BY DEF Ack, WorkInv, AckOffWire, TypeInv, TypeOK
<1>2. Acked(t, h) # {}
  BY <1>1 DEF WorkInv, WrittenPending, Written, Acking, Acked
<1>3. PICK k \in Slot :
         /\ k \in Acked(t, h)
         /\ inFlight' = Cleared(k, t)
         /\ link' = [link EXCEPT ![t] = IF inFlight[k].pending = {t}
                                        THEN [@ EXCEPT !.at = "release"] ELSE Idle]
  BY <1>2 DEF Ack, First
<1>4. link[t] \in [at : {"idle", "ack", "release"}, header : Header \cup {None}]
  BY DEF TypeInv, TypeOK
<1>5. [link[t] EXCEPT !.at = "release"] = [at |-> "release", header |-> h]
  BY <1>4
<1>. QED
  BY <1>1, <1>3, <1>5 DEF Acked, Acking, Idle

LEMMA AckWork ==
    ASSUME TypeInv, WorkInv, SlotUnique, NEW t \in Transport, Ack(t)
    PROVE  WorkInv'
<1>1. PICK k \in Slot :
         /\ Acking(t, inFlight[k].header) /\ inFlight[k].header \in Header
         /\ t \in inFlight[k].pending /\ inFlight' = Cleared(k, t)
         /\ link' = [link EXCEPT ![t] =
                       IF inFlight[k].pending = {t}
                       THEN [at |-> "release", header |-> inFlight[k].header]
                       ELSE [at |-> "idle", header |-> None]]
  BY AckEffect
<1>. DEFINE g == inFlight[k].header
<1>2. UNCHANGED <<sendQueue, wire, slot, todo, pc, item>>
  BY DEF Ack, runner
<1>3. PICK s \in {"idle", "release"}, f \in {g, None} :
         /\ link' = [link EXCEPT ![t] = [at |-> s, header |-> f]]
         /\ s = "release" => f # None
  BY <1>1, DrainerAssumption
<1>4. /\ \A u \in Transport, h \in Header :
            Written(u, h)' <=> OnWire(u, h) \/ (Acking(u, h) /\ u # t)
      /\ AckOffWire'
  BY <1>2, <1>3, LinkEffect DEF TypeInv, WorkInv
<1>5. ~ OnWire(t, g) /\ \A h \in Header : Acking(t, h) => h = g
  BY <1>1 DEF WorkInv, AckOffWire, Acking
<1>6. \A u \in Transport, h \in Header :
         Written(u, h)' <=> Written(u, h) /\ ~ (u = t /\ h = g)
  BY <1>1, <1>4, <1>5 DEF Written
<1>7. \A u \in Transport, j \in Slot : Queued(u, j)' <=> Queued(u, j)
  BY <1>2 DEF Queued
<1>8. ~ Queued(t, k)
  BY <1>1 DEF WorkInv, QueuedUnwritten, Written
<1>9. QueuedPending' /\ WrittenPending' /\ QueuedUnwritten' /\ PendingWorked'
  BY <1>1, <1>2, <1>6, <1>7, <1>8, ClearedWork
<1>10. QueueUnique' /\ WireUnique'
  BY <1>2 DEF WorkInv, QueueUnique, WireUnique
<1>11. TodoPending'
  <2>1. CASE pc # "fanout"
    BY <1>2, <2>1 DEF WorkInv, TodoPending
  <2>2. CASE pc = "fanout"
    <3>1. slot \in Slot /\ item \in Header /\ todo # {} /\ todo \subseteq Transport
      BY <2>2 DEF TypeInv, Control, TypeOK
    <3>2. /\ inFlight[slot].header = item
          /\ \A u \in todo : /\ u \in inFlight[slot].pending
                             /\ ~ Queued(u, slot) /\ ~ Written(u, item)
      BY <2>2 DEF WorkInv, TodoPending
    <3>3. \A u \in todo : ~ (u = t /\ slot = k)
      BY <1>1, <3>2 DEF Written
    <3>4. /\ \A j \in Slot : inFlight'[j].pending =
                IF j = k THEN inFlight[k].pending \ {t} ELSE inFlight[j].pending
          /\ \A j \in Slot : inFlight'[j].pending # {} =>
                inFlight'[j].header = inFlight[j].header
      BY <1>1, ClearedEffect DEF TypeInv
    <3>5. \A u \in todo : u \in inFlight'[slot].pending
      BY <3>1, <3>2, <3>3, <3>4
    <3>6. inFlight'[slot].header = item
      BY <3>1, <3>2, <3>4, <3>5
    <3>. QED
      BY <1>2, <1>6, <1>7, <3>1, <3>2, <3>5, <3>6, <2>2 DEF TodoPending
  <2>. QED
    BY <2>1, <2>2
<1>. QED
  BY <1>4, <1>9, <1>10, <1>11 DEF WorkInv

LEMMA AckReleaseWork ==
    ASSUME TypeInv, WorkInv, NEW t \in Transport, AckRelease(t)
    PROVE  WorkInv'
<1>1. /\ link[t].at = "release" /\ UNCHANGED <<inFlight, sendQueue, wire, runner>>
      /\ link' = [link EXCEPT ![t] = [at |-> "idle", header |-> None]]
  BY DEF AckRelease, Idle, table
<1>2. /\ \A u \in Transport, h \in Header :
            Written(u, h)' <=> OnWire(u, h) \/ (Acking(u, h) /\ u # t)
      /\ AckOffWire'
  BY <1>1, LinkEffect DEF TypeInv, WorkInv
<1>3. \A u \in Transport, h \in Header : Written(u, h)' <=> Written(u, h)
  BY <1>1, <1>2 DEF Written, Acking
<1>4. \A u \in Transport, k \in Slot : Queued(u, k)' <=> Queued(u, k)
  BY <1>1 DEF Queued
<1>5. \A u \in Transport, k \in Slot : u \in inFlight[k].pending => inFlight[k].header \in Header
  BY DEF TypeInv, OccupiedNamed
<1>6. QueueUnique' /\ WireUnique'
  BY <1>1 DEF WorkInv, QueueUnique, WireUnique
<1>7. QueuedPending' /\ WrittenPending'
  BY <1>1, <1>3, <1>4 DEF WorkInv, QueuedPending, WrittenPending
<1>8. QueuedUnwritten' /\ PendingWorked'
  BY <1>1, <1>3, <1>4, <1>5 DEF WorkInv, QueuedPending, QueuedUnwritten, PendingWorked, runner
<1>9. TodoPending'
  BY <1>1, <1>3, <1>4 DEF WorkInv, TodoPending, TypeInv, TypeOK, Control, runner
<1>. QED
  BY <1>2, <1>6, <1>7, <1>8, <1>9 DEF WorkInv

(***************************************************************************)
(* Every step keeps OwnerInv.                                              *)
(***************************************************************************)

LEMMA OwnerUntouched ==
    ASSUME OwnerInv, UNCHANGED <<fresh, stored, inbox, inFlight>>,
           \A h \in Header : InHand(h)' <=> InHand(h),
           \A t \in Transport, h \in Header : Releasing(t, h)' <=> Releasing(t, h)
    PROVE  OwnerInv'
<1>1. /\ \A h : InInbox(h)' <=> InInbox(h)
      /\ \A k \in Slot : \A h : Holds(k, h)' <=> Holds(k, h)
  BY DEF InInbox, Holds
<1>2. InboxUnique' /\ FreshUnstored'
  BY DEF OwnerInv, InboxUnique, FreshUnstored
<1>3. SlotUnique' /\ ReleaseUnique'
  BY <1>1 DEF OwnerInv, SlotUnique, ReleaseUnique
<1>4. InboxAlone' /\ HandAlone' /\ SlotAlone'
  BY <1>1 DEF OwnerInv, InboxAlone, HandAlone, SlotAlone
<1>5. OwnerStored'
  BY <1>1 DEF OwnerInv, OwnerStored
<1>. QED
  BY <1>2, <1>3, <1>4, <1>5 DEF OwnerInv

\* A payload that is not stored is stored and queued.
LEMMA ArrivalOwner ==
    ASSUME TypeInv, OwnerInv, NEW s \in Source, NEW h \in Header, h \notin stored,
           stored' = stored \cup {h}, inbox' = [inbox EXCEPT ![s] = Append(@, h)],
           fresh' \subseteq fresh, h \notin fresh', UNCHANGED <<inFlight, link, pc, item>>
    PROVE  OwnerInv'
<1>1. /\ \A g : InHand(g)' <=> InHand(g)
      /\ \A k \in Slot : \A g : Holds(k, g)' <=> Holds(k, g)
      /\ \A t \in Transport : \A g : Releasing(t, g)' <=> Releasing(t, g)
  BY DEF InHand, Holds, Releasing
<1>2. /\ ~ InInbox(h) /\ ~ InHand(h)
      /\ \A k \in Slot : ~ Holds(k, h)
      /\ \A t \in Transport : ~ Releasing(t, h)
  BY DEF OwnerInv, OwnerStored
<1>3. \A g \in Header : InInbox(g)' <=> InInbox(g) \/ g = h
  BY InboxAppendEffect DEF TypeInv
<1>4. InboxUnique'
  BY <1>2, InboxAppendEffect DEF TypeInv, OwnerInv
<1>5. SlotUnique' /\ ReleaseUnique' /\ FreshUnstored'
  BY <1>1 DEF OwnerInv, SlotUnique, ReleaseUnique, FreshUnstored
<1>6. InboxAlone' /\ HandAlone' /\ SlotAlone'
  BY <1>1, <1>2, <1>3 DEF OwnerInv, InboxAlone, HandAlone, SlotAlone
<1>7. OwnerStored'
  BY <1>1, <1>3 DEF OwnerInv, OwnerStored
<1>. QED
  BY <1>4, <1>5, <1>6, <1>7 DEF OwnerInv

\* A payload that is not stored is stored, and stays in the runner's hands.
LEMMA BlockedOwner ==
    ASSUME TypeInv, OwnerInv, NEW h \in Header, h \notin stored, h \notin fresh,
           stored' = stored \cup {h}, pc \notin {"route", "release", "blocked"},
           pc' = "blocked", item' = h, UNCHANGED <<fresh, inbox, inFlight, link>>
    PROVE  OwnerInv'
<1>1. /\ \A g : InInbox(g)' <=> InInbox(g)
      /\ \A k \in Slot : \A g : Holds(k, g)' <=> Holds(k, g)
      /\ \A t \in Transport : \A g : Releasing(t, g)' <=> Releasing(t, g)
      /\ \A g : ~ InHand(g) /\ (InHand(g)' <=> g = h)
  BY DEF InInbox, Holds, Releasing, InHand
<1>2. /\ ~ InInbox(h)
      /\ \A k \in Slot : ~ Holds(k, h)
      /\ \A t \in Transport : ~ Releasing(t, h)
  BY DEF OwnerInv, OwnerStored
<1>3. InboxUnique' /\ SlotUnique' /\ ReleaseUnique' /\ FreshUnstored'
  BY <1>1 DEF OwnerInv, InboxUnique, SlotUnique, ReleaseUnique, FreshUnstored
<1>4. InboxAlone' /\ HandAlone' /\ SlotAlone'
  BY <1>1, <1>2 DEF OwnerInv, InboxAlone, HandAlone, SlotAlone
<1>5. OwnerStored'
  BY <1>1 DEF OwnerInv, OwnerStored
<1>. QED
  BY <1>3, <1>4, <1>5 DEF OwnerInv

\* The runner takes the first envelope of a queue into its hands.
LEMMA DequeueOwner ==
    ASSUME TypeInv, OwnerInv, NEW s \in Source, inbox[s] # <<>>,
           inbox' = [inbox EXCEPT ![s] = Tail(@)], item' = Head(inbox[s]),
           pc \notin {"route", "release", "blocked"}, pc' = "route",
           UNCHANGED <<fresh, stored, inFlight, link>>
    PROVE  OwnerInv'
<1>1. /\ \A k \in Slot : \A g : Holds(k, g)' <=> Holds(k, g)
      /\ \A t \in Transport : \A g : Releasing(t, g)' <=> Releasing(t, g)
  BY DEF Holds, Releasing
<1>2. \A g : ~ InHand(g) /\ (InHand(g)' <=> g = item')
  BY DEF InHand
<1>3. /\ item' \in Header /\ InInbox(item') /\ InboxUnique'
      /\ \A g \in Header : InInbox(g)' <=> InInbox(g) /\ g # item'
  <2>1. /\ Head(inbox[s]) \in Header /\ InInbox(Head(inbox[s])) /\ InboxUnique'
        /\ \A g \in Header : InInbox(g)' <=> InInbox(g) /\ g # Head(inbox[s])
    BY InboxTailEffect DEF TypeInv, OwnerInv
  <2>. QED
    BY <2>1 DEF InInbox
<1>4. SlotUnique' /\ ReleaseUnique' /\ FreshUnstored'
  BY <1>1 DEF OwnerInv, SlotUnique, ReleaseUnique, FreshUnstored
<1>5. InboxAlone' /\ HandAlone' /\ SlotAlone'
  BY <1>1, <1>2, <1>3 DEF OwnerInv, InboxAlone, HandAlone, SlotAlone
<1>6. OwnerStored'
  BY <1>1, <1>2, <1>3 DEF OwnerInv, OwnerStored
<1>. QED
  BY <1>3, <1>4, <1>5, <1>6 DEF OwnerInv

LEMMA RouteOwner ==
    ASSUME TypeInv, OwnerInv, NEW targets \in SUBSET Transport, Route(targets)
    PROVE  OwnerInv'
<1>1. /\ pc = "route" /\ item \in Header
      /\ UNCHANGED <<fresh, stored, inbox, link, item>>
  BY DEF Route, store, links, TypeInv, Control
<1>2. \A t \in Transport : \A g : Releasing(t, g)' <=> Releasing(t, g)
  BY <1>1 DEF Releasing
<1>3. CASE pc' = "release" /\ UNCHANGED inFlight
  BY <1>1, <1>2, <1>3, OwnerUntouched DEF InHand
<1>4. ASSUME NEW k \in Slot, inFlight[k].pending = {}, targets # {},
             inFlight' = [inFlight EXCEPT ![k] = [header |-> item, pending |-> targets]],
             pc' = "fanout"
      PROVE  OwnerInv'
  <2>1. \A j \in Slot, g \in Header : Holds(j, g)' <=> Holds(j, g) \/ (j = k /\ g = item)
    <3>1. \A j \in Slot : inFlight'[j] =
             IF j = k THEN [header |-> item, pending |-> targets] ELSE inFlight[j]
      BY <1>4 DEF TypeInv, TypeOK
    <3>. QED
      BY <1>4, <3>1 DEF Holds
  <2>2. \A g : ~ InHand(g)' /\ (InHand(g) <=> g = item)
    BY <1>1, <1>4 DEF InHand
  <2>3. \A g : InInbox(g)' <=> InInbox(g)
    BY <1>1 DEF InInbox
  <2>4. \A j \in Slot : ~ Holds(j, item)
    BY <1>1, <2>2 DEF OwnerInv, HandAlone
  <2>5. InboxUnique' /\ ReleaseUnique' /\ FreshUnstored'
    BY <1>1, <1>2 DEF OwnerInv, InboxUnique, ReleaseUnique, FreshUnstored
  <2>6. SlotUnique'
    BY <2>1, <2>4 DEF OwnerInv, SlotUnique
  <2>7. InboxAlone' /\ HandAlone' /\ SlotAlone'
    BY <1>2, <2>1, <2>2, <2>3 DEF OwnerInv, InboxAlone, HandAlone, SlotAlone
  <2>8. OwnerStored'
    BY <1>1, <1>2, <2>1, <2>2, <2>3 DEF OwnerInv, OwnerStored
  <2>. QED
    BY <2>5, <2>6, <2>7, <2>8 DEF OwnerInv
<1>. QED
  BY <1>3, <1>4 DEF Route, First, FreeSlots

\* The runner clears the bit of t in slot k; with the last bit it takes the
\* frame into its hands.
LEMMA RunnerClearsOwner ==
    ASSUME TypeInv, OwnerInv, NEW k \in Slot, NEW t \in Transport,
           t \in inFlight[k].pending, inFlight' = Cleared(k, t),
           pc \notin {"route", "release", "blocked"},
           UNCHANGED <<fresh, stored, inbox, link>>,
           IF inFlight[k].pending = {t} THEN pc' = "release" /\ item' = inFlight[k].header
           ELSE pc' \notin {"route", "release", "blocked"}
    PROVE  OwnerInv'
<1>1. \A j \in Slot, g \in Header :
         Holds(j, g)' <=> Holds(j, g) /\ ~ (j = k /\ inFlight[k].pending = {t})
  BY ClearedEffect DEF TypeInv
<1>2. \A g \in Header :
         ~ InHand(g) /\ (InHand(g)' <=> inFlight[k].pending = {t} /\ Holds(k, g))
  BY DEF InHand, Holds
<1>3. /\ \A g : InInbox(g)' <=> InInbox(g)
      /\ \A u \in Transport : \A g : Releasing(u, g)' <=> Releasing(u, g)
  BY DEF InInbox, Releasing
<1>4. InboxUnique' /\ ReleaseUnique' /\ FreshUnstored'
  BY <1>3 DEF OwnerInv, InboxUnique, ReleaseUnique, FreshUnstored
<1>5. SlotUnique' /\ SlotAlone'
  BY <1>1, <1>3 DEF OwnerInv, SlotUnique, SlotAlone
<1>6. InboxAlone'
  BY <1>1, <1>2, <1>3 DEF OwnerInv, InboxAlone
<1>7. HandAlone'
  BY <1>1, <1>2, <1>3 DEF OwnerInv, HandAlone, SlotUnique, SlotAlone
<1>8. OwnerStored'
  BY <1>1, <1>2, <1>3 DEF OwnerInv, OwnerStored
<1>. QED
  BY <1>4, <1>5, <1>6, <1>7, <1>8 DEF OwnerInv

LEMMA FanoutOwner ==
    ASSUME TypeInv, WorkInv, OwnerInv, Fanout
    PROVE  OwnerInv'
<1>1. PICK t \in Transport : t \in todo /\ Fanout!2!(t)
  BY DEF Fanout, First
<1>2. /\ pc = "fanout" /\ slot \in Slot /\ UNCHANGED <<fresh, stored, inbox, link>>
      /\ back \notin {"route", "release", "blocked"}
  BY DEF Fanout, store, links, TypeInv, Control, TypeOK
<1>3. /\ t \in inFlight[slot].pending /\ inFlight[slot].header = item
      /\ todo \subseteq inFlight[slot].pending
  BY <1>1, <1>2 DEF WorkInv, TodoPending
<1>4. CASE ready[t]
  <2>1. UNCHANGED inFlight /\ pc' \notin {"route", "release", "blocked"}
    BY <1>1, <1>2, <1>4 DEF Return
  <2>2. \A h : InHand(h)' <=> InHand(h)
    BY <1>2, <2>1 DEF InHand
  <2>3. \A u \in Transport : \A h : Releasing(u, h)' <=> Releasing(u, h)
    BY <1>2 DEF Releasing
  <2>. QED
    BY <1>2, <2>1, <2>2, <2>3, OwnerUntouched
<1>5. CASE ~ ready[t]
  <2>1. /\ inFlight' = Cleared(slot, t)
        /\ IF inFlight[slot].pending = {t} THEN pc' = "release" /\ item' = inFlight[slot].header
           ELSE pc' \notin {"route", "release", "blocked"}
    BY <1>1, <1>2, <1>3, <1>5 DEF Return
  <2>. QED
    BY <1>2, <1>3, <2>1, RunnerClearsOwner
<1>. QED
  BY <1>4, <1>5

LEMMA FinishFrameOwner ==
    ASSUME TypeInv, WorkInv, OwnerInv, FinishFrame
    PROVE  OwnerInv'
<1>1. PICK k \in Slot :
         /\ pc = "sending" /\ cursor \in Transport
         /\ cursor \in inFlight[k].pending
         /\ inFlight' = Cleared(k, cursor)
         /\ IF inFlight[k].pending = {cursor}
            THEN pc' = "release" /\ item' = inFlight[k].header /\ back' = "sending"
            ELSE UNCHANGED <<pc, item, back>>
  BY FinishFrameEffect DEF OwnerInv
<1>2. UNCHANGED <<fresh, stored, inbox, link>>
  BY DEF FinishFrame, store, links
<1>. QED
  BY <1>1, <1>2, RunnerClearsOwner

LEMMA ReleaseOwner ==
    ASSUME TypeInv, OwnerInv, Release
    PROVE  OwnerInv'
<1>1. /\ pc = "release" /\ pc' \notin {"route", "release", "blocked"} /\ item \in Header
      /\ stored' = stored \ {item} /\ UNCHANGED <<fresh, inbox, inFlight, link>>
  BY DEF Release, Return, table, links, TypeInv, TypeOK, Control
<1>2. /\ \A g : InInbox(g)' <=> InInbox(g)
      /\ \A k \in Slot : \A g : Holds(k, g)' <=> Holds(k, g)
      /\ \A t \in Transport : \A g : Releasing(t, g)' <=> Releasing(t, g)
      /\ \A g : ~ InHand(g)' /\ (InHand(g) <=> g = item)
  BY <1>1 DEF InInbox, Holds, Releasing, InHand
<1>3. InboxUnique' /\ FreshUnstored'
  BY <1>1 DEF OwnerInv, InboxUnique, FreshUnstored
<1>4. SlotUnique' /\ ReleaseUnique' /\ InboxAlone' /\ HandAlone' /\ SlotAlone'
  BY <1>2 DEF OwnerInv, SlotUnique, ReleaseUnique, InboxAlone, HandAlone, SlotAlone
<1>5. OwnerStored'
  BY <1>1, <1>2 DEF OwnerInv, OwnerStored, InboxAlone, HandAlone
<1>. QED
  BY <1>3, <1>4, <1>5 DEF OwnerInv

LEMMA AckOwner ==
    ASSUME TypeInv, WorkInv, OwnerInv, NEW t \in Transport, Ack(t)
    PROVE  OwnerInv'
<1>1. PICK k \in Slot :
         /\ Acking(t, inFlight[k].header) /\ inFlight[k].header \in Header
         /\ t \in inFlight[k].pending /\ inFlight' = Cleared(k, t)
         /\ link' = [link EXCEPT ![t] =
                       IF inFlight[k].pending = {t}
                       THEN [at |-> "release", header |-> inFlight[k].header]
                       ELSE [at |-> "idle", header |-> None]]
  BY AckEffect DEF OwnerInv
<1>2. UNCHANGED <<fresh, stored, inbox, pc, item, wire>>
  BY DEF Ack, store, runner
<1>3. \A j \in Slot, g \in Header :
         Holds(j, g)' <=> Holds(j, g) /\ ~ (j = k /\ inFlight[k].pending = {t})
  BY <1>1, ClearedEffect DEF TypeInv
<1>4. /\ \A g \in Header : ~ Releasing(t, g)
      /\ \A u \in Transport, g \in Header : Releasing(u, g)' <=>
            Releasing(u, g) \/ (u = t /\ inFlight[k].pending = {t} /\ Holds(k, g))
  BY <1>1 DEF Releasing, Acking, Holds, TypeInv, TypeOK
<1>5. /\ \A g : InInbox(g)' <=> InInbox(g)
      /\ \A g : InHand(g)' <=> InHand(g)
  BY <1>2 DEF InInbox, InHand
<1>6. InboxUnique' /\ FreshUnstored'
  BY <1>2 DEF OwnerInv, InboxUnique, FreshUnstored
<1>7. SlotUnique' /\ InboxAlone' /\ HandAlone'
  BY <1>3, <1>4, <1>5 DEF OwnerInv, SlotUnique, InboxAlone, HandAlone
<1>8. ReleaseUnique'
  BY <1>4 DEF OwnerInv, ReleaseUnique, SlotAlone
<1>9. SlotAlone'
  BY <1>3, <1>4 DEF OwnerInv, SlotAlone, SlotUnique
<1>10. OwnerStored'
  BY <1>2, <1>3, <1>4, <1>5 DEF OwnerInv, OwnerStored
<1>. QED
  BY <1>6, <1>7, <1>8, <1>9, <1>10 DEF OwnerInv

LEMMA AckReleaseOwner ==
    ASSUME TypeInv, WorkInv, OwnerInv, NEW t \in Transport, AckRelease(t)
    PROVE  OwnerInv'
<1>. DEFINE h == link[t].header
<1>1. /\ link[t].at = "release"
      /\ stored' = stored \ {h}
      /\ UNCHANGED <<fresh, inbox, inFlight, pc, item, wire>>
      /\ link' = [link EXCEPT ![t] = [at |-> "idle", header |-> None]]
  BY DEF AckRelease, table, runner, Idle
<1>2. /\ \A u \in Transport, g \in Header : Releasing(u, g)' <=> Releasing(u, g) /\ u # t
      /\ \A g : Releasing(t, g) <=> g = h
  BY <1>1 DEF Releasing, TypeInv, TypeOK
<1>3. /\ \A g : InInbox(g)' <=> InInbox(g)
      /\ \A g : InHand(g)' <=> InHand(g)
      /\ \A k \in Slot : \A g : Holds(k, g)' <=> Holds(k, g)
  BY <1>1 DEF InInbox, InHand, Holds
<1>4. InboxUnique' /\ FreshUnstored'
  BY <1>1 DEF OwnerInv, InboxUnique, FreshUnstored
<1>5. SlotUnique' /\ ReleaseUnique' /\ InboxAlone' /\ HandAlone' /\ SlotAlone'
  BY <1>2, <1>3 DEF OwnerInv, SlotUnique, ReleaseUnique, InboxAlone, HandAlone, SlotAlone
<1>6. ASSUME NEW g \in Header
      PROVE  g \in stored' <=> \/ InInbox(g)' \/ InHand(g)'
                               \/ \E k \in Slot : Holds(k, g)'
                               \/ \E u \in Transport : Releasing(u, g)'
  <2>1. CASE g = h
    BY <1>1, <1>2, <1>3, <2>1 DEF OwnerInv, InboxAlone, HandAlone, SlotAlone, ReleaseUnique
  <2>2. CASE g # h
    BY <1>1, <1>2, <1>3, <2>2 DEF OwnerInv, OwnerStored
  <2>. QED
    BY <2>1, <2>2
<1>7. OwnerStored'
  BY <1>6 DEF OwnerStored
<1>. QED
  BY <1>4, <1>5, <1>7 DEF OwnerInv

(***************************************************************************)
(* IInv is inductive.                                                      *)
(***************************************************************************)

LEMMA InitIInv == Init => WorkInv /\ OwnerInv
<1>. SUFFICES ASSUME Init PROVE WorkInv /\ OwnerInv
  OBVIOUS
<1>1. /\ \A t \in Transport : \A k : ~ Queued(t, k)
      /\ \A t \in Transport : IsInjective(sendQueue[t])
      /\ \A s \in Source : IsInjective(inbox[s]) /\ \A h : ~ Contains(inbox[s], h)
  BY EmptyContains DEF Init, Queued, Source
<1>2. /\ \A k \in Slot : inFlight[k].pending = {}
      /\ \A k \in Slot : \A h : ~ Holds(k, h)
  BY DEF Init, Holds, Free
<1>3. \A t \in Transport, h \in Header : ~ Written(t, h) /\ ~ Releasing(t, h)
  BY DrainerAssumption DEF Init, Written, OnWire, Acking, Releasing, Idle
<1>4. WorkInv
  BY <1>1, <1>2, <1>3 DEF Init, Idle, WorkInv, QueueUnique, WireUnique, AckOffWire,
     QueuedPending, WrittenPending, QueuedUnwritten, TodoPending, PendingWorked
<1>5. \A h : ~ InInbox(h) /\ ~ InHand(h)
  BY <1>1 DEF InInbox, InHand, Init
<1>6. OwnerInv
  BY <1>1, <1>2, <1>3, <1>5 DEF Init, OwnerInv, InboxUnique, SlotUnique, ReleaseUnique,
     InboxAlone, HandAlone, SlotAlone, OwnerStored, FreshUnstored
<1>. QED
  BY <1>4, <1>6

LEMMA NextWorkInv == TypeInv /\ WorkInv /\ OwnerInv /\ [Next]_vars => WorkInv'
<1>. SUFFICES ASSUME TypeInv, WorkInv, OwnerInv, [Next]_vars PROVE WorkInv'
  OBVIOUS
<1>1. SlotUnique
  BY DEF OwnerInv
<1>2. ASSUME NEW targets \in SUBSET Transport, Route(targets) PROVE WorkInv'
  BY <1>2, RouteWork
<1>3. CASE Fanout
  BY <1>3, FanoutWork
<1>4. ASSUME NEW w \in WireSlot, SendFrame(w) PROVE WorkInv'
  BY <1>1, <1>4, SendFrameWork
<1>5. CASE FinishFrame
  BY <1>1, <1>5, FinishFrameWork
<1>6. ASSUME NEW t \in Transport, NEW w \in WireSlot, Complete(t, w) PROVE WorkInv'
  BY <1>6, CompleteWork
<1>7. ASSUME NEW t \in Transport, Ack(t) PROVE WorkInv'
  BY <1>1, <1>7, AckWork
<1>8. ASSUME NEW t \in Transport, AckRelease(t) PROVE WorkInv'
  BY <1>8, AckReleaseWork
<1>9. CASE Release
  <2>1. TodoPending /\ back # "fanout"
    BY DEF WorkInv, TypeInv, TypeOK
  <2>2. PendingWorked' /\ TodoPending'
    <3>1. /\ UNCHANGED <<inFlight, sendQueue, wire, link>>
          /\ todo = {} /\ todo' = {} /\ pc' # "fanout"
      BY <1>9, <2>1 DEF Release, Return, table, links, TodoPending
    <3>. QED
      BY <3>1 DEF WorkInv, PendingWorked, TodoPending, Queued, Written, OnWire, Acking
  <2>. QED
    BY <1>9, <2>2 DEF Release, table, links, WorkInv, QueueUnique, WireUnique, AckOffWire,
       QueuedPending, WrittenPending, QueuedUnwritten, Queued, Written, OnWire, Acking
<1>10. CASE \/ \E h \in Local : Publish(h)
            \/ \E h \in Remote : Receive(h)
            \/ DequeueLocal \/ EndQueue \/ Poll \/ EndPoll \/ EndReceive
            \/ Dispatch \/ EndDispatch \/ Overrun \/ Unreachable
            \/ BeginSend \/ EndSend \/ EndStep
            \/ \E t \in Transport : LinkUp(t) \/ LinkDown(t)
            \/ UNCHANGED vars
  <2>1. /\ UNCHANGED <<inFlight, sendQueue, wire, link, todo, slot>>
        /\ pc' = "fanout" <=> pc = "fanout"
        /\ pc = "fanout" => item' = item
    BY <1>10 DEF Publish, Receive, EnqueueReceived, DequeueLocal, EndQueue, Poll, EndPoll, EndReceive,
       Dispatch, EndDispatch, Overrun, Unreachable, BeginSend, EndSend, EndStep, LinkUp,
       LinkDown, vars, table, links, runner
  <2>. QED
    BY <2>1, WorkUntouched
<1>. QED
  BY <1>2, <1>3, <1>4, <1>5, <1>6, <1>7, <1>8, <1>9, <1>10 DEF Next, Runner, Link

LEMMA NextOwnerInv == TypeInv /\ WorkInv /\ OwnerInv /\ [Next]_vars => OwnerInv'
<1>. SUFFICES ASSUME TypeInv, WorkInv, OwnerInv, [Next]_vars PROVE OwnerInv'
  OBVIOUS
<1>1. ASSUME NEW h \in Local, Publish(h) PROVE OwnerInv'
  <2>1. /\ h \in fresh /\ h \in Header /\ 0 \in Source
        /\ stored' = stored \cup {h} /\ inbox' = [inbox EXCEPT ![0] = Append(@, h)]
        /\ fresh' = fresh \ {h} /\ UNCHANGED <<inFlight, link, pc, item>>
    BY <1>1, DrainerAssumption DEF Publish, table, links, runner, Header, Source
  <2>2. h \notin stored
    BY <2>1 DEF OwnerInv, FreshUnstored
  <2>3. fresh' \subseteq fresh /\ h \notin fresh'
    BY <2>1
  <2>. QED
    BY <2>1, <2>2, <2>3, ArrivalOwner
<1>2. ASSUME NEW h \in Remote, Receive(h) PROVE OwnerInv'
  <2>1. /\ h \in Header /\ cursor \in Source /\ pc = "receive" /\ fresh' = fresh
        /\ UNCHANGED <<inFlight, link>>
    BY <1>2, CursorStep DEF Receive, table, links, Header, Source, TypeInv, Control
  <2>2. h \notin fresh
    BY DrainerAssumption DEF TypeInv, TypeOK
  <2>3. CASE UNCHANGED <<stored, inbox, pc, item>>
    BY <2>1, <2>3, OwnerUntouched DEF InHand, Releasing
  <2>4. CASE /\ h \notin stored /\ stored' = stored \cup {h} /\ UNCHANGED <<pc, item>>
             /\ inbox' = [inbox EXCEPT ![cursor] = Append(@, h)]
    BY <2>1, <2>2, <2>4, ArrivalOwner
  <2>5. CASE /\ h \notin stored /\ stored' = stored \cup {h}
             /\ pc' = "blocked" /\ item' = h /\ UNCHANGED inbox
    BY <2>1, <2>2, <2>5, BlockedOwner
  <2>. QED
    BY <1>2, <2>3, <2>4, <2>5 DEF Receive, EnqueueReceived
<1>3. CASE DequeueLocal
  <2>1. /\ 0 \in Source /\ inbox[0] # <<>> /\ item' = Head(inbox[0])
        /\ inbox' = [inbox EXCEPT ![0] = Tail(@)]
        /\ pc \notin {"route", "release", "blocked"} /\ pc' = "route"
        /\ UNCHANGED <<fresh, stored, inFlight, link>>
    BY <1>3, DrainerAssumption DEF DequeueLocal, table, links, Source
  <2>. QED
    BY <2>1, DequeueOwner
<1>4. CASE Dispatch
  <2>1. /\ cursor \in Source /\ inbox[cursor] # <<>> /\ item' = Head(inbox[cursor])
        /\ inbox' = [inbox EXCEPT ![cursor] = Tail(@)]
        /\ pc \notin {"route", "release", "blocked"} /\ pc' = "route"
        /\ UNCHANGED <<fresh, stored, inFlight, link>>
    BY <1>4, CursorStep DEF Dispatch, table, links, Source, TypeInv, Control
  <2>. QED
    BY <2>1, DequeueOwner
<1>5. ASSUME NEW targets \in SUBSET Transport, Route(targets) PROVE OwnerInv'
  BY <1>5, RouteOwner
<1>6. CASE Fanout
  BY <1>6, FanoutOwner
<1>7. CASE FinishFrame
  BY <1>7, FinishFrameOwner
<1>8. CASE Release
  BY <1>8, ReleaseOwner
<1>9. ASSUME NEW t \in Transport, NEW w \in WireSlot, Complete(t, w) PROVE OwnerInv'
  <2>1. UNCHANGED <<fresh, stored, inbox, inFlight, pc, item>>
    BY <1>9 DEF Complete, store, runner
  <2>2. \A u \in Transport, h \in Header : Releasing(u, h)' <=> Releasing(u, h)
    BY <1>9, CompleteEffect DEF TypeInv, WorkInv
  <2>3. \A h : InHand(h)' <=> InHand(h)
    BY <2>1 DEF InHand
  <2>. QED
    BY <2>1, <2>2, <2>3, OwnerUntouched
<1>10. ASSUME NEW t \in Transport, Ack(t) PROVE OwnerInv'
  BY <1>10, AckOwner
<1>11. ASSUME NEW t \in Transport, AckRelease(t) PROVE OwnerInv'
  BY <1>11, AckReleaseOwner
<1>12. CASE \/ EndQueue \/ Poll \/ EndPoll \/ EndReceive \/ EndDispatch
            \/ Overrun \/ Unreachable \/ BeginSend \/ EndSend \/ EndStep
            \/ \E w \in WireSlot : SendFrame(w)
            \/ \E t \in Transport : LinkUp(t) \/ LinkDown(t)
            \/ UNCHANGED vars
  <2>1. /\ UNCHANGED <<fresh, stored, inbox, inFlight, link>>
        /\ \/ UNCHANGED <<pc, item>>
           \/ pc \notin {"route", "release", "blocked"} /\ pc' \notin {"route", "release", "blocked"}
    BY <1>12 DEF EndQueue, Poll, EndPoll, EndReceive, EndDispatch, Overrun, Unreachable,
       BeginSend, SendFrame, EndSend, EndStep, LinkUp, LinkDown, vars, store, table,
       links, runner
  <2>2. /\ \A h : InHand(h)' <=> InHand(h)
        /\ \A u \in Transport : \A h : Releasing(u, h)' <=> Releasing(u, h)
    BY <2>1 DEF InHand, Releasing
  <2>. QED
    BY <2>1, <2>2, OwnerUntouched
<1>. QED
  BY <1>1, <1>2, <1>3, <1>4, <1>5, <1>6, <1>7, <1>8, <1>9, <1>10, <1>11, <1>12
     DEF Next, Runner, Link

\* IInv holds in every reachable state.
THEOREM Invariance == Spec => []IInv
<1>1. Init => IInv
  BY InitTypeInv, InitIInv DEF IInv
<1>2. IInv /\ [Next]_vars => IInv'
  BY NextTypeOK, NextOccupiedNamed, NextWorkInv, NextOwnerInv DEF IInv, TypeInv
<1>. QED
  BY <1>1, <1>2, PTL DEF Spec

(***************************************************************************)
(* The properties of Drainer that follow from IInv.                        *)
(***************************************************************************)

\* What the four kinds of owners are.
LEMMA OwnerKinds ==
    ASSUME NEW h, NEW o
    PROVE  o \in Owners(h) <=>
              \/ \E s \in Source : \E i \in DOMAIN inbox[s] :
                    inbox[s][i] = h /\ o = <<"inbox", s, i>>
              \/ InHand(h) /\ o = <<"runner", pc>>
              \/ \E k \in Slot : Holds(k, h) /\ o = <<"slot", k>>
              \/ \E t \in Transport : Releasing(t, h) /\ o = <<"link", t>>
<1>. DEFINE at(s) == {<<"inbox", s, i>> : i \in {j \in DOMAIN inbox[s] : inbox[s][j] = h}}
            A == UNION {at(s) : s \in 0 .. TransportCount}
            B == {<<"runner", p>> : p \in {q \in {pc} : q \in {"route", "release", "blocked"} /\ item = h}}
            C == {<<"slot", k>> : k \in {j \in Slot : /\ inFlight[j].pending # {}
                                                      /\ inFlight[j].header = h}}
            D == {<<"link", t>> : t \in {u \in Transport : /\ link[u].at = "release"
                                                           /\ link[u].header = h}}
<1>1. o \in A <=> \E s \in Source : \E i \in DOMAIN inbox[s] :
                     inbox[s][i] = h /\ o = <<"inbox", s, i>>
  <2>1. \A s : o \in at(s) <=>
           \E i \in DOMAIN inbox[s] : inbox[s][i] = h /\ o = <<"inbox", s, i>>
    OBVIOUS
  <2>. HIDE DEF at
  <2>2. o \in A <=> \E s \in Source : o \in at(s)
    BY DEF Source
  <2>. QED
    BY <2>1, <2>2
<1>2. o \in B <=> InHand(h) /\ o = <<"runner", pc>>
  BY DEF InHand
<1>3. o \in C <=> \E k \in Slot : Holds(k, h) /\ o = <<"slot", k>>
  BY DEF Holds
<1>4. o \in D <=> \E t \in Transport : Releasing(t, h) /\ o = <<"link", t>>
  BY DEF Releasing
<1>5. Owners(h) = A \cup B \cup C \cup D
  BY DEF Owners
<1>. HIDE DEF A, B, C, D
<1>. QED
  BY <1>1, <1>2, <1>3, <1>4, <1>5

LEMMA OwnedOnceHolds == IInv => OwnedOnce
<1>. SUFFICES ASSUME IInv, NEW h \in Header
              PROVE  IF h \in stored THEN \E o \in Owners(h) : Owners(h) = {o}
                                     ELSE Owners(h) = {}
  BY DEF OwnedOnce
<1>1. \A s \in Source : \A i \in DOMAIN inbox[s] : inbox[s][i] = h => Contains(inbox[s], h)
  BY LenProperties DEF Contains, IInv, TypeInv, TypeOK, Source
<1>2. \A s \in Source : Contains(inbox[s], h) => \E i \in DOMAIN inbox[s] : inbox[s][i] = h
  BY LenProperties DEF Contains, IInv, TypeInv, TypeOK, Source
<1>3. \A o, p \in Owners(h) : o = p
  <2>. SUFFICES ASSUME NEW o \in Owners(h), NEW p \in Owners(h) PROVE o = p
    OBVIOUS
  <2>1. CASE InInbox(h)
    <3>1. PICK s \in Source : \E i \in DOMAIN inbox[s] : inbox[s][i] = h /\ o = <<"inbox", s, i>>
      BY <2>1, OwnerKinds DEF IInv, OwnerInv, InboxAlone
    <3>2. PICK i \in DOMAIN inbox[s] : inbox[s][i] = h /\ o = <<"inbox", s, i>>
      BY <3>1
    <3>3. PICK r \in Source : \E j \in DOMAIN inbox[r] : inbox[r][j] = h /\ p = <<"inbox", r, j>>
      BY <2>1, OwnerKinds DEF IInv, OwnerInv, InboxAlone
    <3>4. PICK j \in DOMAIN inbox[r] : inbox[r][j] = h /\ p = <<"inbox", r, j>>
      BY <3>3
    <3>5. s = r
      BY <1>1, <3>2, <3>4 DEF IInv, OwnerInv, InboxUnique
    <3>6. i = j
      BY <3>2, <3>4, <3>5 DEF IInv, OwnerInv, InboxUnique, IsInjective
    <3>. QED
      BY <3>2, <3>4, <3>5, <3>6
  <2>2. CASE ~ InInbox(h)
    <3>1. \A q \in Owners(h) :
             \/ InHand(h) /\ q = <<"runner", pc>>
             \/ \E k \in Slot : Holds(k, h) /\ q = <<"slot", k>>
             \/ \E t \in Transport : Releasing(t, h) /\ q = <<"link", t>>
      BY <1>1, <2>2, OwnerKinds DEF InInbox
    <3>. QED
      BY <3>1 DEF IInv, OwnerInv, HandAlone, SlotAlone, SlotUnique, ReleaseUnique
  <2>. QED
    BY <2>1, <2>2
<1>4. h \in stored <=> \E o : o \in Owners(h)
  <2>1. h \in stored <=> \/ InInbox(h) \/ InHand(h)
                         \/ \E k \in Slot : Holds(k, h)
                         \/ \E t \in Transport : Releasing(t, h)
    BY DEF IInv, OwnerInv, OwnerStored
  <2>2. InInbox(h) => \E o : o \in Owners(h)
    BY <1>2, OwnerKinds DEF InInbox
  <2>3. InHand(h) => \E o : o \in Owners(h)
    BY OwnerKinds
  <2>4. (\E k \in Slot : Holds(k, h)) => \E o : o \in Owners(h)
    BY OwnerKinds
  <2>5. (\E t \in Transport : Releasing(t, h)) => \E o : o \in Owners(h)
    BY OwnerKinds
  <2>6. (\E o : o \in Owners(h)) => \/ InInbox(h) \/ InHand(h)
                                    \/ \E k \in Slot : Holds(k, h)
                                    \/ \E t \in Transport : Releasing(t, h)
    BY <1>1, OwnerKinds DEF InInbox
  <2>. QED
    BY <2>1, <2>2, <2>3, <2>4, <2>5, <2>6
<1>. QED
  BY <1>3, <1>4

\* A retained payload has exactly one owner among the publish queues, the
\* runner, the in-flight table and the links' tasks; a returned one has none.
THEOREM Ownership == Spec => []OwnedOnce
BY Invariance, OwnedOnceHolds, PTL

\* Every write a link works on is awaited by a slot of the table, so that
\* Drainer::ack finds the frame of every acknowledgement a link gives it.
THEOREM Awaited == Spec => []WritesAwaited
<1>1. ASSUME IInv PROVE WritesAwaited
  <2>1. ASSUME NEW t \in Transport, NEW w \in WireSlot, wire[t][w] # None
        PROVE  Acked(t, wire[t][w]) # {}
    <3>1. wire[t][w] \in Header
      BY <1>1, <2>1 DEF IInv, TypeInv, TypeOK
    <3>2. Written(t, wire[t][w])
      BY DEF Written, OnWire
    <3>. QED
      BY <1>1, <3>1, <3>2 DEF IInv, WorkInv, WrittenPending, Acked
  <2>2. ASSUME NEW t \in Transport, link[t].at = "ack"
        PROVE  Acked(t, link[t].header) # {}
    <3>1. link[t].header \in Header
      BY <1>1, <2>2 DEF IInv, TypeInv, TypeOK, WorkInv, AckOffWire
    <3>2. Written(t, link[t].header)
      BY <2>2 DEF Written, Acking
    <3>. QED
      BY <1>1, <3>1, <3>2 DEF IInv, WorkInv, WrittenPending, Acked
  <2>. QED
    BY <2>1, <2>2 DEF WritesAwaited
<1>. QED
  BY <1>1, Invariance, PTL

\* What the four kinds of work are.
LEMMA WorkKinds ==
    ASSUME NEW k, NEW t, NEW o
    PROVE  o \in Work(k, t) <=>
              \/ slot = k /\ t \in todo /\ o = <<"todo", slot>>
              \/ \E i \in DOMAIN sendQueue[t] : sendQueue[t][i] = k /\ o = <<"queue", i>>
              \/ \E w \in WireSlot : /\ wire[t][w] # None /\ wire[t][w] = inFlight[k].header
                                     /\ o = <<"wire", w>>
              \/ Acking(t, inFlight[k].header) /\ o = <<"ack", link[t].header>>
BY DEF Work, Acking

LEMMA PendingMatchesWorkHolds == IInv => PendingMatchesWork
<1>. SUFFICES ASSUME IInv, NEW k \in Slot, NEW t \in Transport
              PROVE  IF t \in inFlight[k].pending THEN \E o \in Work(k, t) : Work(k, t) = {o}
                                                  ELSE Work(k, t) = {}
  BY DEF PendingMatchesWork
<1>. DEFINE h == inFlight[k].header
<1>1. Queued(t, k) <=> \E i \in DOMAIN sendQueue[t] : sendQueue[t][i] = k
  BY LenProperties DEF Queued, Contains, IInv, TypeInv, TypeOK
<1>2. /\ slot = k /\ t \in todo => /\ t \in inFlight[k].pending /\ ~ Queued(t, k)
                                   /\ ~ Written(t, h)
      /\ Queued(t, k) => t \in inFlight[k].pending /\ ~ Written(t, h)
  BY DEF IInv, WorkInv, TodoPending, QueuedPending, QueuedUnwritten
<1>3. h # None /\ Written(t, h) => t \in inFlight[k].pending
  <2>. SUFFICES ASSUME h # None, Written(t, h) PROVE t \in inFlight[k].pending
    OBVIOUS
  <2>1. h \in Header /\ inFlight[k].pending # {}
    BY DEF IInv, TypeInv, OccupiedNamed
  <2>2. PICK j \in Slot : t \in inFlight[j].pending /\ inFlight[j].header = h
    BY <2>1 DEF IInv, WorkInv, WrittenPending
  <2>. QED
    BY <2>1, <2>2 DEF IInv, OwnerInv, SlotUnique, Holds
<1>4. Acking(t, h) => h # None /\ ~ OnWire(t, h)
  BY DEF Acking, IInv, WorkInv, AckOffWire
<1>5. t \in inFlight[k].pending =>
         h # None /\ ((slot = k /\ t \in todo) \/ Queued(t, k) \/ Written(t, h))
  BY DrainerAssumption DEF IInv, WorkInv, PendingWorked, TypeInv, OccupiedNamed
<1>6. \A i, j \in DOMAIN sendQueue[t] : sendQueue[t][i] = k /\ sendQueue[t][j] = k => i = j
  BY DEF IInv, WorkInv, QueueUnique, IsInjective
<1>7. \A v, w \in WireSlot : wire[t][v] # None /\ wire[t][v] = h /\ wire[t][w] = h => v = w
  BY DEF IInv, WorkInv, WireUnique
<1>8. \A o, p \in Work(k, t) : o = p
  BY <1>1, <1>2, <1>4, <1>6, <1>7, WorkKinds DEF Written, OnWire
<1>9. (\E o : o \in Work(k, t)) <=> t \in inFlight[k].pending
  <2>1. (\E o : o \in Work(k, t)) => t \in inFlight[k].pending
    BY <1>1, <1>2, <1>3, <1>4, WorkKinds DEF Written, OnWire
  <2>2. t \in inFlight[k].pending => \E o : o \in Work(k, t)
    BY <1>1, <1>5, WorkKinds DEF Written, OnWire
  <2>. QED
    BY <2>1, <2>2
<1>. QED
  BY <1>8, <1>9

\* A pending bit of the table stands for exactly one piece of work of its
\* transport: a target to reach, a queued handle, a write, or its acknowledgement.
THEOREM Correspondence == Spec => []PendingMatchesWork
BY Invariance, PendingMatchesWorkHolds, PTL

(***************************************************************************)
(* The limits of the node: the in-flight table has a slot for every frame  *)
(* that is polled, and the queues the runner sends to without a timeout    *)
(* are never full.                                                         *)
(***************************************************************************)

LEMMA FreeSlotsFinite == IsFiniteSet(Slot) /\ IsFiniteSet(FreeSlots)
<1>1. IsFiniteSet(Slot)
  BY FS_Interval, DrainerAssumption DEF Slot
<1>. QED
  BY <1>1, FS_Subset DEF FreeSlots

\* Slots only become free, except in Route, which takes one.
LEMMA FreeSlotsGrow ==
    ASSUME FreeSlots \subseteq FreeSlots'
    PROVE  Cardinality(FreeSlots) <= Cardinality(FreeSlots')
<1>1. IsFiniteSet(Slot)
  BY FreeSlotsFinite
<1>2. FreeSlots' \subseteq Slot
  BY DEF FreeSlots, Slot
<1>3. IsFiniteSet(FreeSlots')
  BY <1>1, <1>2, FS_Subset
<1>. QED
  BY <1>3, FS_Subset

LEMMA ClearedFrees ==
    ASSUME TypeOK, NEW k \in Slot, NEW t \in Transport, inFlight' = Cleared(k, t)
    PROVE  FreeSlots \subseteq FreeSlots'
<1>. SUFFICES ASSUME NEW j \in Slot, inFlight[j].pending = {} PROVE inFlight'[j].pending = {}
  BY DEF FreeSlots, Slot
<1>1. inFlight \in [Slot -> [header : Header \cup {None}, pending : SUBSET Transport]]
  BY DEF TypeOK
<1>2. CASE j # k
  BY <1>1, <1>2 DEF Cleared
<1>3. CASE j = k
  BY <1>1, <1>3 DEF Cleared, Free
<1>. QED
  BY <1>2, <1>3

LEMMA RouteTakes ==
    ASSUME TypeOK, NEW k \in FreeSlots, NEW h, NEW targets, targets # {},
           inFlight' = [inFlight EXCEPT ![k] = [header |-> h, pending |-> targets]]
    PROVE  Cardinality(FreeSlots') = Cardinality(FreeSlots) - 1
<1>1. FreeSlots' = FreeSlots \ {k}
  BY DEF TypeOK, FreeSlots, Slot
<1>. QED
  BY <1>1, FS_RemoveElement, FreeSlotsFinite

(***************************************************************************)
(* Budget: while a transport is polled, the free slots are enough for the  *)
(* envelopes that maxCount still admits.                                   *)
(***************************************************************************)

Polled == pc \in {"route", "fanout", "release"} /\ back = "dispatch"

Budget ==
    /\ rejected => overrun
    /\ pc = "unreachable" => overrun
    /\ pc = "route" => back \in {"queue", "dispatch"}
    /\ pc = "route" /\ back = "queue" => FreeSlots # {}
    /\ ~ overrun =>
         /\ pc = "receive" => maxCount <= Cardinality(FreeSlots)
         /\ pc = "dispatch" \/ Polled =>
               count <= maxCount /\ maxCount <= count + Cardinality(FreeSlots)
         /\ pc = "route" /\ back = "dispatch" =>
               maxCount < count + Cardinality(FreeSlots)

LEMMA InitBudget == Init => Budget
BY DEF Init, Budget, Polled

LEMMA NextBudget == TypeInv /\ Budget /\ [Next]_vars => Budget'
<1>. SUFFICES ASSUME TypeInv, Budget, [Next]_vars PROVE Budget'
  OBVIOUS
<1>. DEFINE n == Cardinality(FreeSlots)
<1>1. /\ n \in Nat /\ maxCount \in Nat /\ count \in Nat /\ TypeOK
      /\ pc \in {"queue", "poll", "receive", "dispatch", "unreachable", "route",
                 "fanout", "release", "send", "sending", "halted", "blocked"}
      /\ back \in {"queue", "dispatch", "sending"}
      /\ overrun \in BOOLEAN /\ rejected \in BOOLEAN
  BY FreeSlotsType DEF TypeInv, TypeOK
<1>2. FreeSlots = {} <=> n = 0
  BY FreeSlotsFinite, FS_EmptySet
<1>3. /\ n' \in Nat /\ maxCount' \in Nat /\ count' \in Nat
      /\ FreeSlots' = {} <=> n' = 0
  <2>1. TypeOK' /\ Control'
    BY NextTypeOK
  <2>2. FreeSlots' \subseteq Slot /\ IsFiniteSet(FreeSlots')
    BY FreeSlotsFinite, FS_Subset DEF FreeSlots, Slot
  <2>. QED
    BY <2>1, <2>2, FS_CardinalityType, FS_EmptySet DEF TypeOK
<1>4. ASSUME UNCHANGED inFlight PROVE n' = n
  BY <1>4 DEF FreeSlots, Slot
<1>. HIDE DEF n
<1>5. ASSUME NEW h \in Local, Publish(h) PROVE Budget'
  BY <1>2, <1>3, <1>4, <1>5 DEF Publish, Budget, Polled, table, runner, history, n
<1>6. ASSUME NEW h \in Remote, Receive(h) PROVE Budget'
  <2>1. pc' \in {"receive", "blocked"}
    BY <1>6 DEF Receive, EnqueueReceived
  <2>. QED
    BY <1>4, <1>6, <2>1 DEF Receive, Budget, Polled, table, n
<1>7. CASE DequeueLocal
  BY <1>2, <1>3, <1>4, <1>7 DEF DequeueLocal, Budget, Polled, table, history, n
<1>8. CASE EndQueue \/ EndPoll \/ EndDispatch \/ BeginSend \/ EndSend \/ EndStep
  BY <1>8 DEF EndQueue, EndPoll, EndDispatch, BeginSend, EndSend, EndStep, Budget,
     Polled, history
<1>9. CASE Poll
  BY <1>1, <1>4, <1>9 DEF Poll, Budget, Polled, table, history, n
<1>10. CASE EndReceive
  BY <1>1, <1>4, <1>10 DEF EndReceive, Budget, Polled, table, history, n
<1>11. CASE Dispatch
  BY <1>1, <1>4, <1>11 DEF Dispatch, Budget, Polled, table, history, n
<1>12. CASE Overrun
  BY <1>12 DEF Overrun, Budget
<1>13. CASE Unreachable
  BY <1>13 DEF Unreachable, Budget, Polled, history
<1>14. ASSUME NEW targets \in SUBSET Transport, Route(targets) PROVE Budget'
  <2>1. pc = "route" /\ UNCHANGED <<maxCount, count, back, overrun>>
    BY <1>14 DEF Route, bounds
  <2>2. CASE targets # {} /\ FreeSlots # {}
    <3>1. PICK k \in FreeSlots :
             inFlight' = [inFlight EXCEPT ![k] = [header |-> item, pending |-> targets]]
      BY <1>14, <2>2 DEF Route, First
    <3>2. n' = n - 1
      BY <1>1, <2>2, <3>1, RouteTakes DEF n
    <3>3. pc' = "fanout" /\ UNCHANGED rejected
      BY <1>14, <2>2 DEF Route
    <3>. QED
      BY <1>1, <2>1, <3>2, <3>3 DEF Budget, Polled, n
  <2>3. CASE ~ (targets # {} /\ FreeSlots # {})
    <3>1. pc' = "release" /\ n' = n /\ (rejected' <=> rejected \/ targets # {})
      BY <1>4, <1>14, <2>3 DEF Route
    <3>2. targets # {} => overrun
      BY <1>1, <1>2, <2>1, <2>3 DEF Budget, Polled, n
    <3>. QED
      BY <1>1, <2>1, <3>1, <3>2 DEF Budget, Polled, n
  <2>. QED
    BY <2>2, <2>3
<1>15. CASE Fanout
  <2>1. /\ pc = "fanout" /\ UNCHANGED <<maxCount, count, back, overrun, rejected>>
        /\ pc' \in {"fanout", "release", back}
    BY <1>15 DEF Fanout, Return, bounds, history
  <2>2. n <= n'
    <3>1. slot \in Slot
      BY <2>1 DEF TypeInv, Control
    <3>2. FreeSlots \subseteq FreeSlots'
      BY <1>1, <1>15, <3>1, ClearedFrees DEF Fanout, FreeSlots, Slot
    <3>. QED
      BY <3>2, FreeSlotsGrow DEF n
  <2>. QED
    BY <1>1, <1>3, <2>1, <2>2 DEF Budget, Polled, n
<1>16. CASE Release
  BY <1>1, <1>4, <1>16 DEF Release, Return, Budget, Polled, table, bounds, history, n
<1>17. ASSUME NEW w \in WireSlot, SendFrame(w) PROVE Budget'
  BY <1>17 DEF SendFrame, Budget, Polled, runner, history
<1>18. CASE FinishFrame
  <2>1. /\ pc = "sending" /\ UNCHANGED <<overrun, rejected>>
        /\ \/ pc' = "sending"
           \/ pc' = "release" /\ back' = "sending"
    BY <1>18 DEF FinishFrame, history
  <2>. QED
    BY <2>1 DEF Budget, Polled
<1>19. ASSUME NEW t \in Transport, NEW w \in WireSlot, Complete(t, w) PROVE Budget'
  BY <1>2, <1>3, <1>4, <1>19 DEF Complete, Budget, Polled, runner, history, n
<1>20. ASSUME NEW t \in Transport, Ack(t) PROVE Budget'
  <2>1. UNCHANGED <<runner, history>>
    BY <1>20 DEF Ack
  <2>2. n <= n'
    <3>1. FreeSlots \subseteq FreeSlots'
      BY <1>1, <1>20, ClearedFrees DEF Ack, FreeSlots, Slot
    <3>. QED
      BY <3>1, FreeSlotsGrow DEF n
  <2>. QED
    BY <1>1, <1>2, <1>3, <2>1, <2>2 DEF Budget, Polled, runner, history, n
<1>21. CASE \/ \E t \in Transport : AckRelease(t) \/ LinkUp(t) \/ LinkDown(t)
            \/ UNCHANGED vars
  BY <1>2, <1>3, <1>4, <1>21 DEF AckRelease, LinkUp, LinkDown, vars, table, runner, history, Budget,
     Polled, n
<1>. QED
  BY <1>5, <1>6, <1>7, <1>8, <1>9, <1>10, <1>11, <1>12, <1>13, <1>14, <1>15, <1>16,
     <1>17, <1>18, <1>19, <1>20, <1>21 DEF Next, Runner, Link

\* No frame is dropped because the in-flight table is full, as long as pollInto
\* has not run past its bound.
THEOREM SlotsSuffice == Spec => []NoRejection
<1>1. TypeInv /\ Budget /\ [Next]_vars => TypeInv' /\ Budget'
  BY NextTypeOK, NextOccupiedNamed, NextBudget DEF TypeInv
<1>2. Budget => NoRejection
  BY DEF Budget, NoRejection
<1>. QED
  BY <1>1, <1>2, InitTypeInv, InitBudget, PTL DEF Spec

(***************************************************************************)
(* The queues of the runner.                                               *)
(***************************************************************************)

\* A sequence without repetitions is no longer than the set it draws from.
LEMMA InjectiveLength ==
    ASSUME NEW S, IsFiniteSet(S), NEW R, NEW q \in Seq(R), IsInjective(q),
           \A i \in DOMAIN q : q[i] \in S
    PROVE  Len(q) <= Cardinality(S)
<1>1. Len(q) \in Nat /\ DOMAIN q = 1 .. Len(q) /\ q \in [1 .. Len(q) -> R]
  BY LenProperties
<1>2. q \in [1 .. Len(q) -> S]
  BY <1>1
<1>3. q \in Injection(1 .. Len(q), S)
  BY <1>1, <1>2 DEF Injection, IsInjective
<1>4. Cardinality(1 .. Len(q)) <= Cardinality(S)
  BY <1>3, FS_Injection
<1>5. Cardinality(1 .. Len(q)) = Len(q)
  BY <1>1, FS_Interval
<1>. QED
  BY <1>4, <1>5

\* The publish queue of a transport holds remote headers only.
InboxRemote == \A t \in Transport : \A h \in Header : Contains(inbox[t], h) => h \in Remote

LEMMA NextInboxRemote == IInv /\ InboxRemote /\ [Next]_vars => InboxRemote'
<1>. SUFFICES ASSUME IInv, InboxRemote, [Next]_vars PROVE InboxRemote'
  OBVIOUS
<1>1. /\ inbox \in [Source -> Seq(Header)] /\ Transport \subseteq Source
      /\ 0 \in Source /\ 0 \notin Transport
  BY DrainerAssumption DEF IInv, TypeInv, TypeOK, Source, Transport
<1>2. ASSUME NEW h \in Local, Publish(h) PROVE InboxRemote'
  BY <1>1, <1>2 DEF Publish, InboxRemote
<1>3. ASSUME NEW h \in Remote, Receive(h) PROVE InboxRemote'
  <2>1. h \in Header /\ cursor \in Transport
    BY <1>3 DEF Receive, IInv, TypeInv, Control, Header
  <2>2. CASE UNCHANGED inbox
    BY <2>2 DEF InboxRemote
  <2>3. CASE inbox' = [inbox EXCEPT ![cursor] = Append(@, h)]
    <3>1. \A t \in Transport : inbox'[t] = IF t = cursor THEN Append(inbox[t], h) ELSE inbox[t]
      BY <1>1, <2>3
    <3>2. \A x : Contains(Append(inbox[cursor], h), x) => Contains(inbox[cursor], x) \/ x = h
      BY <1>1, <2>1, AppendContains
    <3>. QED
      BY <2>1, <3>1, <3>2 DEF InboxRemote
  <2>. QED
    BY <1>3, <2>2, <2>3 DEF Receive, EnqueueReceived
<1>4. ASSUME NEW s \in Source, inbox[s] # <<>>, inbox' = [inbox EXCEPT ![s] = Tail(@)]
      PROVE  InboxRemote'
  <2>1. \A x : Contains(Tail(inbox[s]), x) => Contains(inbox[s], x)
    BY <1>1, <1>4, TailContains
  <2>. QED
    BY <1>1, <1>4, <2>1 DEF InboxRemote
<1>5. CASE DequeueLocal
  BY <1>1, <1>4, <1>5 DEF DequeueLocal
<1>6. CASE Dispatch
  BY <1>1, <1>4, <1>6 DEF Dispatch, IInv, TypeInv, Control
<1>7. CASE UNCHANGED inbox
  BY <1>7 DEF InboxRemote
<1>. QED
  BY <1>2, <1>3, <1>5, <1>6, <1>7 DEF Next, Runner, Link, vars, store, EndQueue, Poll,
     EndPoll, EndReceive, EndDispatch, Overrun, Unreachable, Route, Fanout, Release,
     BeginSend, SendFrame, FinishFrame, EndSend, EndStep, Complete, Ack, AckRelease,
     LinkUp, LinkDown

LEMMA SendQueueRoom ==
    ASSUME IInv, pc = "fanout", NEW t \in todo
    PROVE  Len(sendQueue[t]) < QueueDepth
<1>1. t \in Transport /\ sendQueue[t] \in Seq(Slot) /\ slot \in Slot
  BY DEF IInv, TypeInv, TypeOK, Control
<1>2. IsInjective(sendQueue[t]) /\ ~ Queued(t, slot)
  BY <1>1 DEF IInv, WorkInv, QueueUnique, TodoPending
<1>3. \A i \in DOMAIN sendQueue[t] : sendQueue[t][i] \in Slot \ {slot}
  BY <1>1, <1>2, LenProperties DEF Queued, Contains
<1>4. IsFiniteSet(Slot \ {slot}) /\ Cardinality(Slot \ {slot}) = SlotCount - 1
  <2>1. IsFiniteSet(Slot)
    BY FreeSlotsFinite
  <2>2. SlotCount \in Int /\ 1 \in Int /\ SlotCount >= 1
    BY DrainerAssumption
  <2>3. Cardinality(Slot) = SlotCount
    BY <2>2, FS_Interval DEF Slot
  <2>. QED
    BY <1>1, <2>1, <2>3, FS_RemoveElement
<1>5. Len(sendQueue[t]) <= SlotCount - 1
  BY <1>1, <1>2, <1>3, <1>4, InjectiveLength
<1>6. Len(sendQueue[t]) \in Nat
  BY <1>1, LenProperties
<1>. QED
  BY <1>5, <1>6, DrainerAssumption

\* An arena that holds no more frames than the queue never fills it.
LEMMA InboxRoom ==
    ASSUME IInv, InboxRemote, IngressRecords <= QueueDepth, pc = "receive",
           Cardinality(stored \cap Remote) < IngressRecords
    PROVE  Len(inbox[cursor]) < QueueDepth
<1>1. /\ cursor \in Transport /\ cursor \in Source /\ inbox[cursor] \in Seq(Header)
      /\ stored \subseteq Header
  BY CursorStep DEF IInv, TypeInv, TypeOK, Control, Source
<1>2. IsInjective(inbox[cursor])
  BY <1>1 DEF IInv, OwnerInv, InboxUnique
<1>3. ASSUME NEW i \in DOMAIN inbox[cursor]
      PROVE  inbox[cursor][i] \in stored \cap Remote
  <2>1. inbox[cursor][i] \in Header /\ Contains(inbox[cursor], inbox[cursor][i])
    BY <1>1, LenProperties DEF Contains
  <2>. QED
    BY <1>1, <2>1 DEF IInv, OwnerInv, OwnerStored, InInbox, InboxRemote
<1>4. IsFiniteSet(stored \cap Remote)
  BY <1>1, FS_Subset, DrainerAssumption
<1>5. Len(inbox[cursor]) <= Cardinality(stored \cap Remote)
  BY <1>1, <1>2, <1>3, <1>4, InjectiveLength
<1>6. Len(inbox[cursor]) \in Nat /\ Cardinality(stored \cap Remote) \in Nat
  BY <1>1, <1>4, LenProperties, FS_CardinalityType
<1>. QED
  BY <1>5, <1>6, DrainerAssumption

\* The transport that is being polled: only its publish queue may hold envelopes,
\* unless a link failed between receive and the dispatch.
Polling(t) ==
    /\ t = cursor
    /\ pc \in {"receive", "dispatch", "unreachable", "halted", "blocked"} \/ Polled

PollInv ==
    /\ flaps = 0 => \A t \in Transport : ~ Polling(t) => inbox[t] = <<>>
    /\ pc = "receive" =>
         /\ maxCount <= SlotCount
         /\ flaps = 0 => ready[cursor] /\ Len(inbox[cursor]) <= count
    /\ pc = "blocked" => flaps > 0 /\ IngressRecords > QueueDepth

\* Steps that leave the publish queues of the transports alone, and the transport
\* that is polled if there is one.
LEMMA PollUntouched ==
    ASSUME PollInv, \A t \in Transport : inbox'[t] = inbox[t],
           \A t \in Transport : Polling(t) => Polling(t)',
           UNCHANGED flaps, pc' \notin {"receive", "blocked"}
    PROVE  PollInv'
BY DEF PollInv, Transport

LEMMA ReceivePoll ==
    ASSUME IInv, InboxRemote, PollInv, NEW h \in Remote, Receive(h)
    PROVE  PollInv'
<1>1. /\ pc = "receive" /\ cursor \in Transport /\ count < maxCount /\ count' = count + 1
      /\ UNCHANGED <<cursor, maxCount, ready, flaps>>
      /\ maxCount \in Nat /\ count \in Nat /\ flaps \in Nat
  BY DEF Receive, links, IInv, TypeInv, TypeOK, Control
<1>2. /\ inbox \in [Source -> Seq(Header)] /\ Transport \subseteq Source
      /\ inbox[cursor] \in Seq(Header) /\ Len(inbox[cursor]) \in Nat
  BY <1>1, LenProperties DEF IInv, TypeInv, TypeOK, Source, Transport
<1>3. Polling(cursor) /\ \A t \in Transport : t # cursor => ~ Polling(t)
  BY <1>1 DEF Polling
<1>4. CASE UNCHANGED <<inbox, pc>>
  BY <1>1, <1>2, <1>3, <1>4 DEF PollInv, Polling, Polled
<1>5. CASE inbox' = [inbox EXCEPT ![cursor] = Append(@, h)] /\ UNCHANGED pc
  <2>1. /\ \A t \in Transport : t # cursor => inbox'[t] = inbox[t]
        /\ Len(inbox'[cursor]) = Len(inbox[cursor]) + 1
    BY <1>1, <1>2, <1>5, AppendProperties DEF Header
  <2>2. \A t \in Transport : ~ Polling(t)' => t # cursor
    BY <1>1, <1>5 DEF Polling
  <2>. QED
    BY <1>1, <1>2, <1>3, <1>5, <2>1, <2>2 DEF PollInv
<1>6. CASE /\ pc' = "blocked" /\ UNCHANGED inbox /\ ~ (Len(inbox[cursor]) < QueueDepth)
           /\ Cardinality(stored \cap Remote) < IngressRecords
  <2>1. IngressRecords > QueueDepth
    BY <1>1, <1>6, InboxRoom, DrainerAssumption
  <2>2. flaps > 0
    BY <1>1, <1>2, <1>6, DrainerAssumption DEF PollInv
  <2>3. \A t \in Transport : ~ Polling(t)' => t # cursor
    BY <1>1, <1>6 DEF Polling
  <2>. QED
    BY <1>1, <1>6, <2>1, <2>2 DEF PollInv
<1>. QED
  BY <1>4, <1>5, <1>6 DEF Receive, EnqueueReceived

LEMMA NextPollInv == IInv /\ InboxRemote /\ PollInv /\ [Next]_vars => PollInv'
<1>. SUFFICES ASSUME IInv, InboxRemote, PollInv, [Next]_vars PROVE PollInv'
  OBVIOUS
<1>1. /\ inbox \in [Source -> Seq(Header)] /\ Transport \subseteq Source
      /\ 0 \in Source /\ 0 \notin Transport /\ back \in {"queue", "dispatch", "sending"}
      /\ flaps \in Nat
  BY DrainerAssumption DEF IInv, TypeInv, TypeOK, Source, Transport
<1>2. ASSUME NEW h \in Local, Publish(h) PROVE PollInv'
  <2>1. \A t \in Transport : inbox'[t] = inbox[t]
    BY <1>1, <1>2 DEF Publish
  <2>2. UNCHANGED <<runner, links>>
    BY <1>2 DEF Publish
  <2>. QED
    BY <2>1, <2>2 DEF PollInv, Polling, Polled, runner, bounds, links, Transport, IInv,
       TypeInv, Control
<1>3. ASSUME NEW h \in Remote, Receive(h) PROVE PollInv'
  BY <1>3, ReceivePoll
<1>4. CASE DequeueLocal
  <2>1. /\ \A t \in Transport : inbox'[t] = inbox[t] /\ ~ Polling(t)
        /\ UNCHANGED flaps /\ pc' = "route"
    BY <1>1, <1>4 DEF DequeueLocal, Polling, Polled, links
  <2>. QED
    BY <2>1, PollUntouched
<1>5. CASE \/ EndQueue \/ EndPoll \/ BeginSend \/ EndSend \/ EndStep \/ FinishFrame
           \/ \E w \in WireSlot : SendFrame(w)
  <2>1. /\ \A t \in Transport : inbox'[t] = inbox[t] /\ ~ Polling(t)
        /\ UNCHANGED flaps /\ pc' \notin {"receive", "blocked"}
    BY <1>5 DEF EndQueue, EndPoll, BeginSend, EndSend, EndStep, FinishFrame, SendFrame,
       Polling, Polled, store, links, runner
  <2>. QED
    BY <2>1, PollUntouched
<1>6. CASE Poll
  <2>1. /\ \A t \in Transport : inbox'[t] = inbox[t] /\ ~ Polling(t)
        /\ UNCHANGED <<flaps, ready>> /\ cursor \in Transport
    BY <1>6 DEF Poll, Polling, Polled, store, links
  <2>2. CASE ready[cursor]
    <3>1. /\ pc' = "receive" /\ cursor' = cursor /\ count' = 0
          /\ maxCount' = Cardinality(FreeSlots)
      BY <1>6, <2>2 DEF Poll
    <3>2. Cardinality(FreeSlots) <= SlotCount
      <4>1. SlotCount \in Int /\ 1 \in Int /\ SlotCount >= 1
        BY DrainerAssumption
      <4>2. Cardinality(Slot) = SlotCount
        BY <4>1, FS_Interval DEF Slot
      <4>3. FreeSlots \subseteq Slot
        BY DEF FreeSlots
      <4>. QED
        BY <4>2, <4>3, FreeSlotsFinite, FS_Subset
    <3>3. flaps = 0 => Len(inbox'[cursor]) <= 0
      BY <2>1, EmptySeq, LenProperties DEF PollInv
    <3>. QED
      BY <2>1, <2>2, <3>1, <3>2, <3>3 DEF PollInv, Transport
  <2>3. CASE ~ ready[cursor]
    BY <1>6, <2>1, <2>3, PollUntouched DEF Poll
  <2>. QED
    BY <2>2, <2>3
<1>7. CASE EndReceive
  <2>1. /\ pc = "receive" /\ UNCHANGED <<inbox, flaps>>
        /\ \A t \in Transport : Polling(t) => t = cursor
    BY <1>7 DEF EndReceive, Polling, store, links
  <2>2. CASE ready[cursor]
    BY <1>7, <2>1, <2>2, PollUntouched DEF EndReceive, Polling
  <2>3. CASE ~ ready[cursor]
    BY <1>7, <2>1, <2>3 DEF EndReceive, PollInv
  <2>. QED
    BY <2>2, <2>3
<1>8. CASE Dispatch
  <2>1. /\ pc = "dispatch" /\ pc' = "route" /\ back' = "dispatch" /\ UNCHANGED <<cursor, flaps>>
        /\ cursor \in Transport /\ \A t \in Transport : t # cursor => inbox'[t] = inbox[t]
    BY <1>1, <1>8 DEF Dispatch, links, IInv, TypeInv, Control
  <2>2. \A t \in Transport : (Polling(t) <=> t = cursor) /\ (Polling(t)' <=> t = cursor)
    BY <2>1 DEF Polling, Polled
  <2>. QED
    BY <2>1, <2>2 DEF PollInv, Transport
<1>9. CASE EndDispatch
  <2>1. /\ pc' = "poll" /\ inbox[cursor] = <<>> /\ UNCHANGED <<inbox, flaps>>
        /\ \A t \in Transport : Polling(t) => t = cursor
    BY <1>9 DEF EndDispatch, Polling, store, links
  <2>. QED
    BY <2>1 DEF PollInv, Transport
<1>10. CASE Overrun \/ Unreachable
  <2>1. /\ UNCHANGED <<inbox, cursor, flaps>>
        /\ pc' \in {"dispatch", "unreachable", "halted"}
    BY <1>10 DEF Overrun, Unreachable, store, links
  <2>. QED
    BY <2>1, PollUntouched DEF Polling
<1>11. ASSUME NEW targets \in SUBSET Transport, Route(targets) PROVE PollInv'
  <2>1. /\ pc = "route" /\ pc' \in {"fanout", "release"}
        /\ UNCHANGED <<inbox, cursor, back, flaps>>
    BY <1>11 DEF Route, store, links
  <2>. QED
    BY <2>1, PollUntouched DEF Polling, Polled
<1>12. CASE Fanout \/ Release
  <2>1. /\ pc \in {"fanout", "release"} /\ pc' \in {pc, "release", back}
        /\ UNCHANGED <<inbox, cursor, back, flaps>>
    BY <1>12 DEF Fanout, Release, Return, store, links
  <2>. QED
    BY <1>1, <2>1, PollUntouched DEF Polling, Polled
<1>13. CASE \E t \in Transport : LinkDown(t)
  <2>1. flaps' = flaps + 1 /\ UNCHANGED runner
    BY <1>13 DEF LinkDown
  <2>. QED
    BY <1>1, <2>1 DEF PollInv, runner, bounds
<1>14. CASE \/ \E t \in Transport : Link(t)
            \/ UNCHANGED vars
  <2>1. UNCHANGED <<inbox, runner, ready, flaps>>
    BY <1>14 DEF Link, Complete, Ack, AckRelease, vars, store, links
  <2>. QED
    BY <2>1 DEF PollInv, Polling, Polled, runner, bounds, Transport
<1>15. CASE \E t \in Transport : LinkUp(t)
  <2>1. UNCHANGED <<inbox, runner, flaps>> /\ (ready[cursor] => ready'[cursor])
    BY <1>15 DEF LinkUp, store, IInv, TypeInv, TypeOK
  <2>. QED
    BY <2>1 DEF PollInv, Polling, Polled, runner, bounds, Transport
<1>. QED
  BY <1>2, <1>3, <1>4, <1>5, <1>6, <1>7, <1>8, <1>9, <1>10, <1>11, <1>12, <1>13, <1>14,
     <1>15 DEF Next, Runner

\* The runner never waits for room in a send queue, since handles are queued once.
\* It waits for room in a transport's publish queue only after a link failed and
\* only if the arena holds more frames than the queue: a poll leaves the queue
\* empty, and receives no more than the slots of the table.
THEOREM NeverBlocks == Spec => []RunnerNeverBlocks
<1>1. Init => InboxRemote
  BY EmptyContains, DrainerAssumption DEF Init, InboxRemote, Transport
<1>2. Init => PollInv
  BY DrainerAssumption DEF Init, PollInv, Transport
<1>3. IInv /\ InboxRemote /\ [Next]_vars => InboxRemote'
  BY NextInboxRemote
<1>4. IInv /\ InboxRemote /\ PollInv /\ [Next]_vars => PollInv'
  BY NextPollInv
<1>5. IInv /\ PollInv => RunnerNeverBlocks
  BY SendQueueRoom DEF RunnerNeverBlocks, PollInv
<1>. QED
  BY <1>1, <1>2, <1>3, <1>4, <1>5, Invariance, PTL DEF Spec

(***************************************************************************)
(* Every step of the node is a step of the promise Retention or leaves it  *)
(* alone.  First the refinement mapping in terms of the places of a frame. *)
(***************************************************************************)

LEMMA RoutedMembers ==
    ASSUME TypeOK, NEW h
    PROVE  h \in Routed <=>
              /\ h \in stored /\ ~ InInbox(h)
              /\ ~ (pc \in {"route", "blocked"} /\ item = h)
<1>1. \A s \in Source : Contains(inbox[s], h) <=> \E i \in DOMAIN inbox[s] : inbox[s][i] = h
  BY LenProperties DEF Contains, TypeOK, Source
<1>. QED
  BY <1>1 DEF Routed, InInbox, Source

LEMMA OwingMembers ==
    ASSUME NEW h \in Header, NEW t
    PROVE  t \in Owing[h] <=> \E k \in Slot : inFlight[k].header = h /\ t \in inFlight[k].pending
BY DEF Owing

LEMMA OwingType ==
    ASSUME TypeOK
    PROVE  Owing \in [Header -> SUBSET Transport]
<1>1. \A h \in Header : Owing[h] \subseteq Transport
  BY OwingMembers DEF TypeOK
<1>. QED
  BY <1>1 DEF Owing

LEMMA RoutedMembersNext ==
    ASSUME TypeOK', NEW h
    PROVE  h \in Routed' <=>
              /\ h \in stored' /\ ~ InInbox(h)'
              /\ ~ (pc' \in {"route", "blocked"} /\ item' = h)
<1>1. \A s \in Source : Contains(inbox'[s], h) <=> \E i \in DOMAIN inbox'[s] : inbox'[s][i] = h
  BY LenProperties DEF Contains, TypeOK, Source
<1>. QED
  BY <1>1 DEF Routed, InInbox, Source

LEMMA OwingMembersNext ==
    ASSUME NEW h \in Header, NEW t
    PROVE  t \in Owing'[h] <=> \E k \in Slot : inFlight'[k].header = h /\ t \in inFlight'[k].pending
BY DEF Owing, Slot, Header

LEMMA OwingTypeNext ==
    ASSUME TypeOK'
    PROVE  Owing' \in [Header -> SUBSET Transport]
<1>1. \A h \in Header : Owing'[h] \subseteq Transport
  BY OwingMembersNext DEF TypeOK, Slot, Transport
<1>. QED
  BY <1>1 DEF Owing, Header

LEMMA SameRouted ==
    ASSUME TypeOK, TypeOK', UNCHANGED stored,
           \A h \in Header : (pc' \in {"route", "blocked"} /\ item' = h) \/ InInbox(h)'
                             <=> (pc \in {"route", "blocked"} /\ item = h) \/ InInbox(h)
    PROVE  Routed' = Routed
<1>1. Routed \subseteq Header /\ Routed' \subseteq Header
  BY DEF Routed, TypeOK
<1>2. \A h \in Header : h \in Routed' <=> h \in Routed
  BY RoutedMembers, RoutedMembersNext
<1>. QED
  BY <1>1, <1>2

LEMMA SameOwing ==
    ASSUME UNCHANGED inFlight
    PROVE  Owing' = Owing
BY DEF Owing

(***************************************************************************)
(* The steps that the abstract promise sees.                               *)
(***************************************************************************)

LEMMA AcceptStep ==
    ASSUME IInv, TypeOK', NEW s \in Source, NEW h \in Header, h \notin stored,
           stored' = stored \cup {h}, inbox' = [inbox EXCEPT ![s] = Append(@, h)],
           UNCHANGED <<inFlight, pc, item>>
    PROVE  Promise!Accept(h)
<1>1. \A g \in Header : InInbox(g)' <=> InInbox(g) \/ g = h
  BY InboxAppendEffect DEF IInv, TypeInv
<1>2. Routed \subseteq Header /\ Routed' \subseteq Header
  BY DEF Routed, TypeOK, IInv, TypeInv
<1>3. \A g \in Header : g \in Routed' <=> g \in Routed
  BY <1>1, RoutedMembers, RoutedMembersNext DEF IInv, TypeInv
<1>. QED
  BY <1>2, <1>3, SameOwing DEF Promise!Accept

LEMMA AcceptBlockedStep ==
    ASSUME IInv, TypeOK', NEW h \in Header, h \notin stored, stored' = stored \cup {h},
           pc \notin {"route", "blocked"}, pc' = "blocked", item' = h,
           UNCHANGED <<inbox, inFlight>>
    PROVE  Promise!Accept(h)
<1>1. \A g : InInbox(g)' <=> InInbox(g)
  BY DEF InInbox
<1>2. Routed \subseteq Header /\ Routed' \subseteq Header
  BY DEF Routed, TypeOK, IInv, TypeInv
<1>3. \A g \in Header : g \in Routed' <=> g \in Routed
  BY <1>1, RoutedMembers, RoutedMembersNext DEF IInv, TypeInv
<1>. QED
  BY <1>2, <1>3, SameOwing DEF Promise!Accept

LEMMA RouteStep ==
    ASSUME IInv, TypeOK', NEW targets \in SUBSET Transport, Route(targets)
    PROVE  \E T \in SUBSET Transport : Promise!Route(item, T)
<1>1. /\ pc = "route" /\ item \in Header /\ pc' \notin {"route", "blocked"}
      /\ UNCHANGED <<stored, inbox, item>> /\ TypeOK
  BY DEF Route, store, IInv, TypeInv, Control
<1>2. \A h : InInbox(h)' <=> InInbox(h)
  BY <1>1 DEF InInbox
<1>3. item \in stored /\ ~ InInbox(item) /\ \A k \in Slot : ~ Holds(k, item)
  BY <1>1 DEF IInv, OwnerInv, OwnerStored, InboxAlone, HandAlone, InHand
<1>4. Routed' = Routed \cup {item} /\ item \notin Routed
  <2>1. Routed \subseteq Header /\ Routed' \subseteq Header
    BY <1>1 DEF Routed, TypeOK
  <2>2. \A h \in Header : h \in Routed' <=> h \in Routed \/ h = item
    BY <1>1, <1>2, <1>3, RoutedMembers, RoutedMembersNext
  <2>3. item \notin Routed
    BY <1>1, RoutedMembers
  <2>. QED
    BY <1>1, <2>1, <2>2, <2>3
<1>5. Owing[item] = {}
  <2>1. \A t : t \notin Owing[item]
    BY <1>1, <1>3, OwingMembers DEF Holds
  <2>. QED
    BY <2>1
<1>6. CASE UNCHANGED inFlight
  <2>1. Owing' = [Owing EXCEPT ![item] = {}]
    BY <1>1, <1>5, <1>6, SameOwing, OwingType
  <2>2. Promise!Route(item, {})
    BY <1>1, <1>3, <1>4, <2>1 DEF Promise!Route
  <2>. QED
    BY <2>2
<1>7. ASSUME NEW k \in Slot, inFlight[k].pending = {}, targets # {},
             inFlight' = [inFlight EXCEPT ![k] = [header |-> item, pending |-> targets]]
      PROVE  Owing' = [Owing EXCEPT ![item] = targets]
  <2>1. \A j \in Slot : /\ inFlight'[j].pending = IF j = k THEN targets ELSE inFlight[j].pending
                        /\ inFlight'[j].header = IF j = k THEN item ELSE inFlight[j].header
    BY <1>1, <1>7 DEF TypeOK
  <2>2. ASSUME NEW h \in Header, NEW t
        PROVE  t \in Owing'[h] <=> t \in [Owing EXCEPT ![item] = targets][h]
    <3>1. t \in Owing'[h] <=>
             \/ h = item /\ t \in targets
             \/ \E j \in Slot \ {k} : inFlight[j].header = h /\ t \in inFlight[j].pending
      BY <2>1, OwingMembersNext
    <3>2. t \in Owing[h] <=>
             \E j \in Slot \ {k} : inFlight[j].header = h /\ t \in inFlight[j].pending
      BY <1>7, OwingMembers
    <3>3. h = item => t \notin Owing[h]
      BY <1>5
    <3>. QED
      BY <1>1, <3>1, <3>2, <3>3, OwingType
  <2>3. /\ Owing' \in [Header -> SUBSET Transport]
        /\ [Owing EXCEPT ![item] = targets] \in [Header -> SUBSET Transport]
    BY <1>1, OwingType, OwingTypeNext
  <2>. HIDE <1>7
  <2>4. \A h \in Header : Owing'[h] = [Owing EXCEPT ![item] = targets][h]
    BY <2>2
  <2>. QED
    BY <2>3, <2>4
<1>. QED
  BY <1>1, <1>3, <1>4, <1>6, <1>7 DEF Route, First, FreeSlots, Promise!Route

LEMMA FinishStep ==
    ASSUME IInv, TypeOK', NEW k \in Slot, NEW t \in Transport, t \in inFlight[k].pending,
           inFlight' = Cleared(k, t), UNCHANGED stored, Routed' = Routed
    PROVE  \E h \in Header : Promise!Finish(h, t)
<1>. DEFINE h == inFlight[k].header
<1>1. h \in Header /\ TypeOK
  BY DEF IInv, TypeInv, OccupiedNamed
<1>2. /\ \A j \in Slot : inFlight'[j].pending =
            IF j = k THEN inFlight[k].pending \ {t} ELSE inFlight[j].pending
      /\ \A j \in Slot : inFlight'[j].pending # {} =>
            inFlight'[j].header = inFlight[j].header
  BY <1>1, ClearedEffect
<1>3. \A j \in Slot : inFlight[j].pending # {} /\ inFlight[j].header = h => j = k
  BY <1>1 DEF IInv, OwnerInv, SlotUnique, Holds
<1>4. ASSUME NEW g \in Header, NEW u
      PROVE  u \in Owing'[g] <=> u \in [Owing EXCEPT ![h] = @ \ {t}][g]
  <2>1. u \in Owing'[g] <=> \E j \in Slot : /\ inFlight[j].header = g
                                            /\ u \in inFlight[j].pending
                                            /\ ~ (u = t /\ j = k)
    BY <1>2, OwingMembersNext
  <2>2. u \in Owing[g] <=> \E j \in Slot : inFlight[j].header = g /\ u \in inFlight[j].pending
    BY OwingMembers
  <2>3. u \in [Owing EXCEPT ![h] = @ \ {t}][g] <=> u \in Owing[g] /\ ~ (g = h /\ u = t)
    BY <1>1, OwingType
  <2>. QED
    BY <1>3, <2>1, <2>2, <2>3
<1>5. Owing' = [Owing EXCEPT ![h] = @ \ {t}]
  <2>1. /\ Owing' \in [Header -> SUBSET Transport]
        /\ [Owing EXCEPT ![h] = @ \ {t}] \in [Header -> SUBSET Transport]
    BY <1>1, OwingType, OwingTypeNext
  <2>2. \A g \in Header : Owing'[g] = [Owing EXCEPT ![h] = @ \ {t}][g]
    BY <1>4
  <2>. QED
    BY <2>1, <2>2
<1>6. t \in Owing[h]
  BY <1>1, OwingMembers
<1>. QED
  BY <1>1, <1>5, <1>6 DEF Promise!Finish

\* The payload of h is given back by the one that owned it.
LEMMA ReleaseStep ==
    ASSUME IInv, TypeOK', NEW h \in Header, h \in stored, ~ InInbox(h),
           \A k \in Slot : ~ Holds(k, h), ~ (pc \in {"route", "blocked"} /\ item = h),
           stored' = stored \ {h}, UNCHANGED <<inbox, inFlight>>,
           \A g \in Header : pc' \in {"route", "blocked"} /\ item' = g
                             <=> pc \in {"route", "blocked"} /\ item = g
    PROVE  Promise!Release(h)
<1>1. TypeOK /\ \A g : InInbox(g)' <=> InInbox(g)
  BY DEF IInv, TypeInv, InInbox
<1>2. Routed' = Routed \ {h}
  <2>1. Routed \subseteq Header /\ Routed' \subseteq Header
    BY <1>1 DEF Routed, TypeOK
  <2>2. \A g \in Header : g \in Routed' <=> g \in Routed /\ g # h
    BY <1>1, RoutedMembers, RoutedMembersNext
  <2>. QED
    BY <2>1, <2>2
<1>3. h \in Routed
  BY <1>1, RoutedMembers
<1>4. Owing[h] = {}
  <2>1. \A t : t \notin Owing[h]
    BY OwingMembers DEF Holds
  <2>. QED
    BY <2>1
<1>. QED
  BY <1>2, <1>3, <1>4, SameOwing DEF Promise!Release

LEMMA StutterStep ==
    ASSUME IInv, TypeOK', UNCHANGED <<stored, inFlight>>,
           \A h \in Header : (pc' \in {"route", "blocked"} /\ item' = h) \/ InInbox(h)'
                             <=> (pc \in {"route", "blocked"} /\ item = h) \/ InInbox(h)
    PROVE  UNCHANGED Promise!vars
BY SameRouted, SameOwing DEF IInv, TypeInv, Promise!vars

(***************************************************************************)
(* The initial state, every step, and the theorem.                         *)
(***************************************************************************)

LEMMA InitRefines == Init => Promise!Init
<1>. SUFFICES ASSUME Init PROVE Promise!Init
  OBVIOUS
<1>1. stored = {} /\ Routed = {}
  BY DEF Init, Routed
<1>2. \A h \in Header : Owing[h] = {}
  <2>1. \A h \in Header : \A t : t \notin Owing[h]
    BY OwingMembers DEF Init, Free
  <2>. QED
    BY <2>1
<1>3. Owing = [h \in Header |-> {}]
  BY <1>2 DEF Owing
<1>. QED
  BY <1>1, <1>3 DEF Promise!Init

LEMMA NextRefines == IInv /\ TypeOK' /\ [Next]_vars => [Promise!Next]_(Promise!vars)
<1>. SUFFICES ASSUME IInv, TypeOK', [Next]_vars
              PROVE  Promise!Next \/ UNCHANGED Promise!vars
  OBVIOUS
<1>1. ASSUME NEW h \in Local, Publish(h) PROVE Promise!Next
  <2>1. /\ h \in Header /\ 0 \in Source /\ h \notin stored
        /\ stored' = stored \cup {h} /\ inbox' = [inbox EXCEPT ![0] = Append(@, h)]
        /\ UNCHANGED <<inFlight, pc, item>>
    BY <1>1, DrainerAssumption DEF Publish, table, runner, Header, Source, IInv, OwnerInv,
       FreshUnstored
  <2>. QED
    BY <2>1, AcceptStep DEF Promise!Next
<1>2. ASSUME NEW h \in Remote, Receive(h) PROVE Promise!Next \/ UNCHANGED Promise!vars
  <2>1. h \in Header /\ cursor \in Source /\ pc = "receive" /\ UNCHANGED inFlight
    BY <1>2, CursorStep DEF Receive, table, Header, Source, IInv, TypeInv, Control
  <2>2. CASE UNCHANGED <<stored, inbox, pc, item>>
    BY <2>1, <2>2, StutterStep DEF InInbox
  <2>3. CASE /\ h \notin stored /\ stored' = stored \cup {h} /\ UNCHANGED <<pc, item>>
             /\ inbox' = [inbox EXCEPT ![cursor] = Append(@, h)]
    BY <2>1, <2>3, AcceptStep DEF Promise!Next
  <2>4. CASE /\ h \notin stored /\ stored' = stored \cup {h}
             /\ pc' = "blocked" /\ item' = h /\ UNCHANGED inbox
    BY <2>1, <2>4, AcceptBlockedStep DEF Promise!Next
  <2>. QED
    BY <1>2, <2>2, <2>3, <2>4 DEF Receive, EnqueueReceived
<1>3. ASSUME NEW s \in Source, inbox[s] # <<>>, inbox' = [inbox EXCEPT ![s] = Tail(@)],
             item' = Head(inbox[s]), pc \notin {"route", "blocked"}, pc' = "route",
             UNCHANGED <<stored, inFlight>>
      PROVE  UNCHANGED Promise!vars
  <2>1. \A h \in Header : (pc' \in {"route", "blocked"} /\ item' = h) \/ InInbox(h)'
                          <=> (pc \in {"route", "blocked"} /\ item = h) \/ InInbox(h)
    <3>1. /\ InInbox(Head(inbox[s]))
          /\ \A h \in Header : InInbox(h)' <=> InInbox(h) /\ h # Head(inbox[s])
      BY <1>3, InboxTailEffect DEF IInv, TypeInv, OwnerInv
    <3>. QED
      BY <1>3, <3>1
  <2>. QED
    BY <1>3, <2>1, StutterStep
<1>4. CASE DequeueLocal
  <2>1. /\ 0 \in Source /\ inbox[0] # <<>> /\ inbox' = [inbox EXCEPT ![0] = Tail(@)]
        /\ item' = Head(inbox[0]) /\ pc \notin {"route", "blocked"} /\ pc' = "route"
        /\ UNCHANGED <<stored, inFlight>>
    BY <1>4, DrainerAssumption DEF DequeueLocal, table, Source
  <2>. QED
    BY <1>3, <2>1
<1>5. CASE Dispatch
  BY <1>3, <1>5, CursorStep DEF Dispatch, table, Source, IInv, TypeInv, Control
<1>6. ASSUME NEW targets \in SUBSET Transport, Route(targets) PROVE Promise!Next
  <2>1. item \in Header
    BY <1>6 DEF Route, IInv, TypeInv, Control
  <2>. QED
    BY <1>6, <2>1, RouteStep DEF Promise!Next
<1>7. ASSUME NEW k \in Slot, NEW t \in Transport, t \in inFlight[k].pending,
             inFlight' = Cleared(k, t), UNCHANGED <<stored, inbox>>,
             pc \in {"route", "blocked"} <=> pc' \in {"route", "blocked"},
             pc \in {"route", "blocked"} => item' = item
      PROVE  Promise!Next
  <2>1. Routed' = Routed
    BY <1>7, SameRouted DEF InInbox, IInv, TypeInv
  <2>. QED
    BY <1>7, <2>1, FinishStep DEF Promise!Next
<1>8. CASE Fanout
  <2>1. PICK t \in Transport : t \in todo /\ Fanout!2!(t)
    BY <1>8 DEF Fanout, First
  <2>2. /\ pc = "fanout" /\ slot \in Slot /\ UNCHANGED <<stored, inbox>>
        /\ back \notin {"route", "blocked"} /\ t \in inFlight[slot].pending
    BY <1>8, <2>1 DEF Fanout, store, IInv, TypeInv, TypeOK, Control, WorkInv, TodoPending
  <2>3. pc' \notin {"route", "blocked"}
    BY <2>1, <2>2 DEF Return
  <2>4. CASE ready[t]
    <3>1. UNCHANGED inFlight
      BY <2>1, <2>4
    <3>. QED
      BY <2>2, <2>3, <3>1, StutterStep DEF InInbox
  <2>5. CASE ~ ready[t]
    <3>1. inFlight' = Cleared(slot, t)
      BY <2>1, <2>5
    <3>. QED
      BY <1>7, <2>2, <2>3, <3>1
  <2>. QED
    BY <2>4, <2>5
<1>9. CASE FinishFrame
  <2>1. PICK k \in Slot : /\ pc = "sending" /\ cursor \in Transport
                          /\ cursor \in inFlight[k].pending
                          /\ inFlight' = Cleared(k, cursor)
                          /\ pc' \in {"release", "sending"}
    BY <1>9, FinishFrameEffect DEF IInv, OwnerInv
  <2>2. UNCHANGED <<stored, inbox>>
    BY <1>9 DEF FinishFrame, store
  <2>. QED
    BY <1>7, <2>1, <2>2
<1>10. ASSUME NEW t \in Transport, Ack(t) PROVE Promise!Next
  <2>1. PICK k \in Slot : t \in inFlight[k].pending /\ inFlight' = Cleared(k, t)
    BY <1>10, AckEffect DEF IInv, OwnerInv
  <2>2. UNCHANGED <<stored, inbox, pc, item>>
    BY <1>10 DEF Ack, store, runner
  <2>. QED
    BY <1>7, <2>1, <2>2
<1>11. CASE Release
  <2>1. /\ pc = "release" /\ pc' \notin {"route", "blocked"} /\ item \in Header
        /\ stored' = stored \ {item} /\ UNCHANGED <<inbox, inFlight>>
    BY <1>11 DEF Release, Return, table, IInv, TypeInv, TypeOK, Control
  <2>2. /\ item \in stored /\ ~ InInbox(item)
        /\ \A k \in Slot : ~ Holds(k, item)
    BY <2>1 DEF IInv, OwnerInv, OwnerStored, InboxAlone, HandAlone, InHand
  <2>. QED
    BY <2>1, <2>2, ReleaseStep DEF Promise!Next
<1>12. ASSUME NEW t \in Transport, AckRelease(t) PROVE Promise!Next
  <2>. DEFINE h == link[t].header
  <2>1. /\ link[t].at = "release" /\ stored' = stored \ {h}
        /\ UNCHANGED <<inbox, inFlight, pc, item>>
    BY <1>12 DEF AckRelease, table, runner
  <2>2. h \in Header /\ Releasing(t, h)
    BY <2>1 DEF Releasing, IInv, WorkInv, AckOffWire, TypeInv, TypeOK
  <2>3. /\ h \in stored /\ ~ InInbox(h) /\ ~ InHand(h)
        /\ \A k \in Slot : ~ Holds(k, h)
    BY <2>2 DEF IInv, OwnerInv, OwnerStored, InboxAlone, HandAlone, SlotAlone
  <2>4. ~ (pc \in {"route", "blocked"} /\ item = h)
    BY <2>3 DEF InHand
  <2>. QED
    BY <2>1, <2>2, <2>3, <2>4, ReleaseStep DEF Promise!Next
<1>13. CASE \/ EndQueue \/ Poll \/ EndPoll \/ EndReceive \/ EndDispatch
            \/ Overrun \/ Unreachable \/ BeginSend \/ EndSend \/ EndStep
            \/ \E w \in WireSlot : SendFrame(w)
            \/ \E t \in Transport : \/ \E w \in WireSlot : Complete(t, w)
                                    \/ LinkUp(t) \/ LinkDown(t)
            \/ UNCHANGED vars
  <2>1. /\ UNCHANGED <<stored, inbox, inFlight>>
        /\ \/ UNCHANGED <<pc, item>>
           \/ pc \notin {"route", "blocked"} /\ pc' \notin {"route", "blocked"}
    BY <1>13 DEF EndQueue, Poll, EndPoll, EndReceive, EndDispatch, Overrun, Unreachable,
       BeginSend, SendFrame, EndSend, EndStep, Complete, LinkUp, LinkDown, vars, store,
       table, runner
  <2>2. \A h : InInbox(h)' <=> InInbox(h)
    BY <2>1 DEF InInbox
  <2>. QED
    BY <2>1, <2>2, StutterStep
<1>. QED
  BY <1>1, <1>2, <1>4, <1>5, <1>6, <1>8, <1>9, <1>10, <1>11, <1>12, <1>13
     DEF Next, Runner, Link

\* The node keeps the promise of Retention: each payload is routed once, kept
\* until its last transport has finished with it, and then given back once.
THEOREM Refinement == Spec => ImplementsRetention
<1>1. IInv /\ IInv' => TypeOK'
  BY DEF IInv, TypeInv
<1>2. IInv /\ IInv' /\ [Next]_vars => [Promise!Next]_(Promise!vars)
  BY <1>1, NextRefines
<1>. QED
  BY <1>2, InitRefines, Invariance, PTL DEF Spec, ImplementsRetention, Promise!Spec
==============================================================================
