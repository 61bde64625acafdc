----------------------------- MODULE ByteArena -----------------------------
(***************************************************************************)
(* A fixed buffer cut into spans, each free or holding one record.  Every  *)
(* operation runs under the arena's mutex and is one step here.  The array *)
(* of spans, ordered by offset, is a set; the slots, at most one per key,  *)
(* are a function from the keys to their offsets.  All records are         *)
(* critical, as in IngressBuffer: none is ever evicted.                    *)
(***************************************************************************)
EXTENDS Integers, FiniteSets, Sequences

CONSTANTS
    Key,         \* headers, told apart by message id and source
    Empty,       \* a byte that belongs to no record
    BufferSize,  \* Config::bufferSize
    SlotCount,   \* Config::slotCount
    SpanCount    \* Config::spanCount

ASSUME ArenaAssumption ==
    BufferSize \in Nat \ {0} /\ SlotCount \in Nat \ {0} /\ SpanCount \in Nat \ {0}

VARIABLES
    offset,  \* where the record of a key starts
    spans,   \* _spans
    buffer   \* _buffer

arena == <<offset, spans, buffer>>

Span == [offset : 0 .. BufferSize, size : 0 .. BufferSize, occupied : BOOLEAN]
Retained == DOMAIN offset
WholeBuffer == [offset |-> 0, size |-> BufferSize, occupied |-> FALSE]

ArenaInit ==
    /\ offset = [k \in {} |-> 0]
    /\ spans = {WholeBuffer}
    /\ buffer = [b \in 0 .. BufferSize - 1 |-> Empty]

\* _findFreeSpan: of the smallest free spans that fit, the first.
BestFit(s, size) ==
    LET fits == {r \in spans : ~r.occupied /\ r.size >= size} IN
    /\ s \in fits
    /\ \A r \in fits : r.size > s.size \/ (r.size = s.size /\ r.offset >= s.offset)

\* Mutant: the room in the span table is not looked at.
RefusedIfFull(size) ==
    Cardinality(Retained) >= SlotCount \/ \A s \in spans : ~BestFit(s, size)

\* A record that leaves a rest needs one more entry of the span table.
Refused(size) ==
    \/ Cardinality(Retained) >= SlotCount
    \/ \A s \in spans : BestFit(s, size) => s.size > size /\ Cardinality(spans) >= SpanCount

\* The bytes of the buffer from `first` on.
Read(first, length) == [i \in 1 .. length |-> buffer[first + i - 1]]

\* Mutant: a span that is split keeps its size.
TakenWhole(s, size) == [s EXCEPT !.occupied = TRUE]
Taken(s, size) == [offset |-> s.offset, size |-> size, occupied |-> TRUE]
Rest(s, size) ==
    IF s.size > size
    THEN {[offset |-> s.offset + size, size |-> s.size - size, occupied |-> FALSE]}
    ELSE {}

Store(k, bytes) ==
    LET size == Len(bytes) IN
    /\ k \notin Retained /\ ~Refused(size)
    /\ \E s \in spans :
         /\ BestFit(s, size)
         /\ spans' = (spans \ {s}) \cup {Taken(s, size)} \cup Rest(s, size)
         /\ offset' = [j \in Retained \cup {k} |-> IF j = k THEN s.offset ELSE offset[j]]
         /\ buffer' = [b \in DOMAIN buffer |->
                          IF b \in s.offset .. s.offset + size - 1
                          THEN bytes[b - s.offset + 1] ELSE buffer[b]]

\* The free spans a freed one is merged with.
Neighbours(s) ==
    {r \in spans : ~r.occupied /\ (r.offset = s.offset + s.size \/ r.offset + r.size = s.offset)}

\* One free span in place of several adjacent ones.
Merged(S) ==
    CHOOSE r \in Span :
        /\ ~r.occupied
        /\ \E s \in S : s.offset = r.offset
        /\ \E s \in S : s.offset + s.size = r.offset + r.size
        /\ \A s \in S : r.offset <= s.offset /\ s.offset + s.size <= r.offset + r.size

\* _releaseSlot and _releaseSpan.  What a freed byte holds does not matter
\* unless it is read without being stored first: it counts as Empty.
Release(k) ==
    /\ k \in Retained
    /\ \E s \in spans :
         /\ s.offset = offset[k] /\ s.occupied
         /\ LET freed == Neighbours(s) \cup {s} IN
              spans' = (spans \ freed) \cup {Merged(freed)}
         /\ buffer' = [b \in DOMAIN buffer |->
                          IF b \in s.offset .. s.offset + s.size - 1 THEN Empty ELSE buffer[b]]
    /\ offset' = [j \in Retained \ {k} |-> offset[j]]
=============================================================================
