------------------------ MODULE IngressBufferProofs ------------------------
(***************************************************************************)
(* The ingress buffer for any number of links' tasks, frames, sizes and    *)
(* table entries: no frame is lost or overwritten while it is held, no     *)
(* damaged payload is read, and nothing of a frame given back is kept.     *)
(***************************************************************************)
EXTENDS IngressBuffer, FiniteSetTheorems, TLAPS

(***************************************************************************)
(* The arena: every operation keeps the spans a tiling of the buffer in    *)
(* which no two free ones touch.                                           *)
(***************************************************************************)
End(s) == s.offset + s.size

SpansType == spans \subseteq Span

\* No span is empty or ends outside of the buffer.
Within == \A s \in spans : s.size > 0 /\ End(s) <= BufferSize

\* Two spans have no byte in common.
Disjoint == \A r, s \in spans : r = s \/ End(r) <= s.offset \/ End(s) <= r.offset

\* Every byte is in a span.
Covering == \A b \in 0 .. BufferSize - 1 : \E s \in spans : s.offset <= b /\ b < End(s)

\* The occupied spans are those of the retained records.
Owned ==
    /\ \A s \in spans : s.occupied => \E k \in Retained : offset[k] = s.offset
    /\ \A k \in Retained : \E s \in spans : s.occupied /\ s.offset = offset[k]
    /\ \A j, k \in Retained : offset[j] = offset[k] => j = k

\* No two free spans are adjacent.
Apart == \A r, s \in spans : r.occupied \/ s.occupied \/ End(r) # s.offset

SpanInv == SpansType /\ Within /\ Disjoint /\ Covering /\ Owned /\ Apart

LEMMA ArenaInitInv == ArenaInit => SpanInv
BY ArenaAssumption
   DEF ArenaInit, SpanInv, SpansType, Within, Disjoint, Covering, Owned, Apart, End,
       WholeBuffer, Span, Retained

(***************************************************************************)
(* Storing a record.                                                       *)
(***************************************************************************)

\* A span of which the first `size` bytes are taken: the part taken, and the
\* rest that follows it.
LEMMA TakenSpan ==
    ASSUME NEW s \in Span, End(s) <= BufferSize, NEW size \in Nat \ {0}, s.size >= size
    PROVE  /\ Taken(s, size) \in Span /\ Taken(s, size).occupied
           /\ Taken(s, size).offset = s.offset /\ Taken(s, size).size = size
           /\ End(Taken(s, size)) = s.offset + size
<1>1. size \in 0 .. BufferSize /\ s.offset \in 0 .. BufferSize
  BY ArenaAssumption DEF Span, End
<1>. QED
  BY <1>1 DEF Taken, Span, End

LEMMA RestSpan ==
    ASSUME NEW s \in Span, End(s) <= BufferSize, NEW size \in Nat \ {0}, s.size >= size
    PROVE  /\ \A r \in Rest(s, size) :
                /\ r \in Span /\ ~ r.occupied /\ r.size > 0
                /\ r.offset = s.offset + size /\ End(r) = End(s)
           /\ Rest(s, size) = {} => s.size = size
           /\ \A q, r \in Rest(s, size) : q = r
<1>1. CASE s.size > size
  <2>. DEFINE r == [offset |-> s.offset + size, size |-> s.size - size, occupied |-> FALSE]
  <2>1. Rest(s, size) = {r}
    BY <1>1 DEF Rest
  <2>2. s.offset \in Nat /\ s.size \in Nat /\ s.offset + s.size <= BufferSize
    BY ArenaAssumption DEF Span, End
  <2>3. r.offset \in 0 .. BufferSize /\ r.size \in 0 .. BufferSize
    BY <1>1, <2>2, ArenaAssumption
  <2>4. r \in Span
    BY <2>3 DEF Span
  <2>. QED
    BY <1>1, <2>1, <2>2, <2>4 DEF End
<1>2. CASE ~ (s.size > size)
  BY <1>2, ArenaAssumption DEF Rest, Span
<1>. QED
  BY <1>1, <1>2

LEMMA StoreInv ==
    ASSUME SpanInv, NEW k, NEW bytes, Len(bytes) \in Nat \ {0}, Store(k, bytes)
    PROVE  SpanInv'
<1>. DEFINE size == Len(bytes)
<1>1. PICK s \in spans :
        /\ BestFit(s, size)
        /\ spans' = (spans \ {s}) \cup {Taken(s, size)} \cup Rest(s, size)
        /\ offset' = [j \in Retained \cup {k} |-> IF j = k THEN s.offset ELSE offset[j]]
  BY DEF Store
<1>. DEFINE t == Taken(s, size)
            Pieces == {t} \cup Rest(s, size)
<1>2. s \in Span /\ ~ s.occupied /\ s.size >= size /\ s.size > 0 /\ End(s) <= BufferSize
  BY <1>1 DEF BestFit, SpanInv, SpansType, Within
<1>3. /\ t \in Span /\ t.occupied /\ t.offset = s.offset /\ t.size = size
      /\ End(t) = s.offset + size
  BY <1>2, TakenSpan
<1>4. /\ \A r \in Rest(s, size) : /\ r \in Span /\ ~ r.occupied /\ r.size > 0
                                  /\ r.offset = s.offset + size /\ End(r) = End(s)
      /\ Rest(s, size) = {} => s.size = size
      /\ \A q, r \in Rest(s, size) : q = r
  BY <1>2, RestSpan
<1>5. \A r \in spans : /\ r \in Span /\ r.size > 0 /\ End(r) <= BufferSize
                       /\ r.offset \in Nat /\ r.size \in Nat /\ End(r) = r.offset + r.size
  BY ArenaAssumption DEF SpanInv, SpansType, Within, End, Span
<1>6. \A q \in Pieces : /\ q \in Span /\ q.size > 0 /\ q.offset \in Nat /\ q.size \in Nat
                        /\ End(q) = q.offset + q.size
                        /\ s.offset <= q.offset /\ End(q) <= End(s)
  BY <1>2, <1>3, <1>4, <1>5 DEF Span, End
<1>7. spans' = (spans \ {s}) \cup Pieces
  BY <1>1
<1>8. k \notin Retained /\ Retained' = Retained \cup {k}
  BY <1>1 DEF Store, Retained
<1>9. SpansType' /\ Within'
  <2>. SUFFICES ASSUME NEW q \in spans'
                PROVE  q \in Span /\ q.size > 0 /\ End(q) <= BufferSize
    BY DEF SpansType, Within, End
  <2>1. CASE q \in spans
    BY <1>5, <2>1
  <2>2. CASE q \in Pieces
    BY <1>2, <1>5, <1>6, <2>2, ArenaAssumption
  <2>. QED
    BY <1>7, <2>1, <2>2
<1>10. Disjoint'
  <2>. SUFFICES ASSUME NEW q \in spans', NEW r \in spans', q # r
                PROVE  End(q) <= r.offset \/ End(r) <= q.offset
    BY DEF Disjoint, End
  <2>1. CASE q \in spans \ {s} /\ r \in spans \ {s}
    BY <2>1 DEF SpanInv, Disjoint
  <2>2. CASE q \in Pieces /\ r \in spans \ {s}
    <3>1. End(s) <= r.offset \/ End(r) <= s.offset
      BY <1>1, <2>2 DEF SpanInv, Disjoint
    <3>. QED
      BY <1>2, <1>5, <1>6, <2>2, <3>1
  <2>3. CASE r \in Pieces /\ q \in spans \ {s}
    <3>1. End(s) <= q.offset \/ End(q) <= s.offset
      BY <1>1, <2>3 DEF SpanInv, Disjoint
    <3>. QED
      BY <1>2, <1>5, <1>6, <2>3, <3>1
  <2>4. CASE q \in Pieces /\ r \in Pieces
    BY <1>3, <1>4, <1>6, <2>4
  <2>. QED
    BY <1>7, <2>1, <2>2, <2>3, <2>4
<1>11. Covering'
  <2>. SUFFICES ASSUME NEW b \in 0 .. BufferSize - 1
                PROVE  \E r \in spans' : r.offset <= b /\ b < End(r)
    BY DEF Covering, End
  <2>1. PICK r \in spans : r.offset <= b /\ b < End(r)
    BY DEF SpanInv, Covering
  <2>2. CASE r # s
    BY <1>7, <2>1, <2>2
  <2>3. CASE r = s /\ b < s.offset + size
    BY <1>3, <1>7, <2>1, <2>3
  <2>4. CASE r = s /\ ~ (b < s.offset + size)
    <3>1. PICK q \in Rest(s, size) : TRUE
      BY <1>2, <1>4, <1>5, <2>1, <2>4
    <3>. QED
      BY <1>2, <1>4, <1>5, <1>7, <2>1, <2>4, <3>1
  <2>. QED
    BY <2>2, <2>3, <2>4
<1>12. Owned'
  <2>1. \A j \in Retained : offset'[j] = offset[j]
    BY <1>1, <1>8
  <2>2. offset'[k] = s.offset
    BY <1>1
  <2>3. \A j \in Retained : offset[j] # s.offset
    <3>. SUFFICES ASSUME NEW j \in Retained, offset[j] = s.offset PROVE FALSE
      OBVIOUS
    <3>1. PICK r \in spans : r.occupied /\ r.offset = s.offset
      BY DEF SpanInv, Owned
    <3>2. End(r) <= s.offset \/ End(s) <= r.offset
      BY <1>1, <1>2, <3>1 DEF SpanInv, Disjoint
    <3>. QED
      BY <1>1, <1>2, <1>5, <3>1, <3>2
  <2>4. \A r \in spans' : r.occupied => \E j \in Retained' : offset'[j] = r.offset
    BY <1>3, <1>4, <1>7, <1>8, <2>1, <2>2 DEF SpanInv, Owned
  <2>5. \A j \in Retained' : \E r \in spans' : r.occupied /\ r.offset = offset'[j]
    BY <1>2, <1>3, <1>7, <1>8, <2>1, <2>2 DEF SpanInv, Owned
  <2>6. \A i, j \in Retained' : offset'[i] = offset'[j] => i = j
    BY <1>8, <2>1, <2>2, <2>3 DEF SpanInv, Owned
  <2>. QED
    BY <2>4, <2>5, <2>6 DEF Owned
<1>13. Apart'
  <2>. SUFFICES ASSUME NEW q \in spans', NEW r \in spans', ~ q.occupied, ~ r.occupied,
                       End(q) = r.offset
                PROVE  FALSE
    BY DEF Apart, End
  <2>1. q # t /\ r # t
    BY <1>3
  <2>2. CASE q \in spans /\ r \in spans
    BY <2>2 DEF SpanInv, Apart
  <2>3. CASE q \in Rest(s, size) /\ r \in spans
    BY <1>1, <1>2, <1>4, <2>3 DEF SpanInv, Apart
  <2>4. CASE q \in spans \ {s} /\ r \in Rest(s, size)
    <3>1. End(q) <= s.offset \/ End(s) <= q.offset
      BY <1>1, <2>4 DEF SpanInv, Disjoint
    <3>. QED
      BY <1>2, <1>4, <1>5, <2>4, <3>1
  <2>5. CASE q \in Rest(s, size) /\ r \in Rest(s, size)
    BY <1>4, <1>6, <2>5
  <2>. QED
    BY <1>7, <2>1, <2>2, <2>3, <2>4, <2>5
<1>. QED
  BY <1>9, <1>10, <1>11, <1>12, <1>13 DEF SpanInv

(***************************************************************************)
(* Releasing a record.                                                     *)
(***************************************************************************)

\* A free span before s, if there is one, and a free span after it are merged
\* with s into one that has their bytes and no others.
LEMMA MergedSpan ==
    ASSUME SpanInv, NEW s \in spans
    PROVE  LET S == Neighbours(s) \cup {s}
               m == Merged(S)
           IN  /\ m \in Span /\ ~ m.occupied
               /\ \E p \in S : p.offset = m.offset
               /\ \E p \in S : End(p) = End(m)
               /\ \A p \in S : m.offset <= p.offset /\ End(p) <= End(m)
<1>. DEFINE S == Neighbours(s) \cup {s}
            Fits(m) == /\ ~ m.occupied
                       /\ \E p \in S : p.offset = m.offset
                       /\ \E p \in S : p.offset + p.size = m.offset + m.size
                       /\ \A p \in S : /\ m.offset <= p.offset
                                       /\ p.offset + p.size <= m.offset + m.size
<1>1. \A p \in spans : /\ p \in Span /\ p.size > 0 /\ End(p) <= BufferSize
                       /\ p.offset \in Nat /\ p.size \in Nat /\ End(p) = p.offset + p.size
  BY ArenaAssumption DEF SpanInv, SpansType, Within, End, Span
<1>2. S \subseteq spans
  BY DEF Neighbours
<1>3. \A p \in S : p = s \/ End(p) = s.offset \/ p.offset = End(s)
  BY <1>1 DEF Neighbours
<1>4. \E low \in S : \A p \in S : low.offset <= p.offset
  <2>1. CASE \E p \in S : End(p) = s.offset
    <3>1. PICK p \in S : End(p) = s.offset
      BY <2>1
    <3>2. ASSUME NEW q \in S PROVE p.offset <= q.offset
      <4>1. p = q \/ End(p) <= q.offset \/ End(q) <= p.offset
        BY <1>2, <3>2 DEF SpanInv, Disjoint
      <4>. QED
        BY <1>1, <1>2, <1>3, <3>1, <3>2, <4>1
    <3>. QED
      BY <3>2
  <2>2. CASE ~ \E p \in S : End(p) = s.offset
    <3>1. \A p \in S : s.offset <= p.offset
      BY <1>1, <1>2, <1>3, <2>2
    <3>. QED
      BY <3>1
  <2>. QED
    BY <2>1, <2>2
<1>5. \E high \in S : \A p \in S : End(p) <= End(high)
  <2>1. CASE \E p \in S : p.offset = End(s)
    <3>1. PICK p \in S : p.offset = End(s)
      BY <2>1
    <3>2. ASSUME NEW q \in S PROVE End(q) <= End(p)
      <4>1. p = q \/ End(p) <= q.offset \/ End(q) <= p.offset
        BY <1>2, <3>2 DEF SpanInv, Disjoint
      <4>. QED
        BY <1>1, <1>2, <1>3, <3>1, <3>2, <4>1
    <3>. QED
      BY <3>2
  <2>2. CASE ~ \E p \in S : p.offset = End(s)
    <3>1. \A p \in S : End(p) <= End(s)
      BY <1>1, <1>2, <1>3, <2>2
    <3>. QED
      BY <3>1
  <2>. QED
    BY <2>1, <2>2
<1>6. \E m \in Span : Fits(m)
  <2>1. PICK low \in S : \A p \in S : low.offset <= p.offset
    BY <1>4
  <2>2. PICK high \in S : \A p \in S : End(p) <= End(high)
    BY <1>5
  <2>. DEFINE m == [offset |-> low.offset, size |-> End(high) - low.offset, occupied |-> FALSE]
  <2>3. End(low) <= End(high)
    BY <2>2
  <2>4. m \in Span
    BY <1>1, <1>2, <2>3, ArenaAssumption DEF Span
  <2>5. m.offset = low.offset /\ m.offset + m.size = End(high) /\ ~ m.occupied
    BY <1>1, <1>2
  <2>6. Fits(m)
    BY <1>1, <1>2, <2>1, <2>2, <2>5
  <2>. QED
    BY <2>4, <2>6
<1>7. Merged(S) \in Span /\ Fits(Merged(S))
  <2>1. Merged(S) = CHOOSE m \in Span : Fits(m)
    BY DEF Merged
  <2>. QED
    BY <1>6, <2>1
<1>8. \A p \in S : End(p) = p.offset + p.size
  BY <1>1, <1>2
<1>9. End(Merged(S)) = Merged(S).offset + Merged(S).size
  BY DEF End
<1>. QED
  BY <1>7, <1>8, <1>9

LEMMA OutsideMerged ==
    ASSUME SpanInv, NEW s \in spans, NEW r \in spans, r \notin Neighbours(s) \cup {s}
    PROVE  LET m == Merged(Neighbours(s) \cup {s})
           IN  End(r) <= m.offset \/ End(m) <= r.offset
<1>. DEFINE S == Neighbours(s) \cup {s}
            m == Merged(S)
<1>1. \A p \in spans : /\ p.size > 0 /\ p.offset \in Nat /\ p.size \in Nat
                       /\ End(p) = p.offset + p.size
  BY ArenaAssumption DEF SpanInv, SpansType, Within, End, Span
<1>2. S \subseteq spans /\ \A p \in S : p = s \/ End(p) = s.offset \/ p.offset = End(s)
  BY <1>1 DEF Neighbours
<1>3. \A p \in S : End(r) <= p.offset \/ End(p) <= r.offset
  BY <1>2 DEF SpanInv, Disjoint
<1>4. \A p \in S : m.offset <= p.offset /\ End(p) <= End(m)
  BY MergedSpan
<1>5. CASE End(r) <= s.offset
  <2>1. PICK p \in S : p.offset = m.offset
    BY MergedSpan
  <2>2. End(r) <= p.offset
    BY <1>1, <1>2, <1>3, <1>4, <1>5, <2>1
  <2>. QED
    BY <2>1, <2>2
<1>6. CASE End(s) <= r.offset
  <2>1. PICK p \in S : End(p) = End(m)
    BY MergedSpan
  <2>2. End(p) <= r.offset
    BY <1>1, <1>2, <1>3, <1>4, <1>6, <2>1
  <2>. QED
    BY <2>1, <2>2
<1>. QED
  BY <1>3, <1>5, <1>6

LEMMA ReleaseInv ==
    ASSUME SpanInv, NEW k, Release(k)
    PROVE  SpanInv'
<1>1. PICK s \in spans :
        /\ s.offset = offset[k] /\ s.occupied
        /\ spans' = (spans \ (Neighbours(s) \cup {s})) \cup {Merged(Neighbours(s) \cup {s})}
  BY DEF Release
<1>. DEFINE S == Neighbours(s) \cup {s}
            m == Merged(S)
<1>2. k \in Retained /\ Retained' = Retained \ {k} /\ \A j \in Retained' : offset'[j] = offset[j]
  BY DEF Release, Retained
<1>3. /\ m \in Span /\ ~ m.occupied
      /\ \E p \in S : p.offset = m.offset
      /\ \E p \in S : End(p) = End(m)
      /\ \A p \in S : m.offset <= p.offset /\ End(p) <= End(m)
  BY MergedSpan
<1>4. spans' = (spans \ S) \cup {m}
  BY <1>1
<1>5. S \subseteq spans /\ s \in S /\ \A p \in S : p = s \/ ~ p.occupied
  BY DEF Neighbours
<1>6. \A r \in spans : /\ r \in Span /\ r.size > 0 /\ End(r) <= BufferSize
                       /\ r.offset \in Nat /\ r.size \in Nat /\ End(r) = r.offset + r.size
  BY ArenaAssumption DEF SpanInv, SpansType, Within, End, Span
<1>7. m.offset \in Nat /\ m.size \in Nat /\ End(m) = m.offset + m.size
  BY <1>3, ArenaAssumption DEF Span, End
<1>8. \A r \in spans \ S : End(r) <= m.offset \/ End(m) <= r.offset
  BY OutsideMerged
<1>9. m.size > 0 /\ End(m) <= BufferSize
  <2>1. m.offset <= s.offset /\ End(s) <= End(m)
    BY <1>3
  <2>2. PICK p \in S : End(p) = End(m)
    BY <1>3
  <2>3. End(p) <= BufferSize
    BY <1>5, <1>6, <2>2
  <2>4. s.size > 0 /\ s.offset \in Nat /\ s.size \in Nat /\ End(s) = s.offset + s.size
    BY <1>6
  <2>. QED
    BY <1>7, <2>1, <2>2, <2>3, <2>4
<1>10. SpansType' /\ Within'
  <2>. SUFFICES ASSUME NEW q \in spans'
                PROVE  q \in Span /\ q.size > 0 /\ End(q) <= BufferSize
    BY DEF SpansType, Within, End
  <2>. QED
    BY <1>3, <1>4, <1>6, <1>9
<1>11. Disjoint'
  <2>. SUFFICES ASSUME NEW q \in spans', NEW r \in spans', q # r
                PROVE  End(q) <= r.offset \/ End(r) <= q.offset
    BY DEF Disjoint, End
  <2>. QED
    BY <1>4, <1>8 DEF SpanInv, Disjoint
<1>12. Covering'
  <2>. SUFFICES ASSUME NEW b \in 0 .. BufferSize - 1
                PROVE  \E r \in spans' : r.offset <= b /\ b < End(r)
    BY DEF Covering, End
  <2>1. PICK r \in spans : r.offset <= b /\ b < End(r)
    BY DEF SpanInv, Covering
  <2>2. CASE r \in S
    <3>1. m.offset <= r.offset /\ End(r) <= End(m)
      BY <1>3, <2>2
    <3>2. r.offset \in Nat /\ End(r) \in Nat
      BY <1>6
    <3>3. m.offset <= b /\ b < End(m)
      BY <1>7, <2>1, <3>1, <3>2
    <3>. QED
      BY <1>4, <3>3
  <2>. QED
    BY <1>4, <2>1, <2>2
<1>13. Owned'
  <2>1. \A r \in spans' : r.occupied => r \in spans /\ r # s
    BY <1>3, <1>4, <1>5
  <2>2. \A r \in spans : r.occupied /\ r # s => r \in spans'
    BY <1>4, <1>5
  <2>3. \A r \in spans : r.offset = s.offset => r = s
    <3>. SUFFICES ASSUME NEW r \in spans, r.offset = s.offset, r # s PROVE FALSE
      OBVIOUS
    <3>1. End(r) <= s.offset \/ End(s) <= r.offset
      BY <1>1 DEF SpanInv, Disjoint
    <3>. QED
      BY <1>1, <1>6, <3>1
  <2>4. \A r \in spans' : r.occupied => \E j \in Retained' : offset'[j] = r.offset
    <3>. SUFFICES ASSUME NEW r \in spans', r.occupied
                  PROVE  \E j \in Retained' : offset'[j] = r.offset
      OBVIOUS
    <3>1. PICK j \in Retained : offset[j] = r.offset
      BY <2>1 DEF SpanInv, Owned
    <3>2. j # k
      BY <1>1, <2>1, <2>3, <3>1
    <3>. QED
      BY <1>2, <3>1, <3>2
  <2>5. \A j \in Retained' : \E r \in spans' : r.occupied /\ r.offset = offset'[j]
    <3>. SUFFICES ASSUME NEW j \in Retained'
                  PROVE  \E r \in spans' : r.occupied /\ r.offset = offset'[j]
      OBVIOUS
    <3>1. j \in Retained /\ j # k /\ offset'[j] = offset[j]
      BY <1>2
    <3>2. PICK r \in spans : r.occupied /\ r.offset = offset[j]
      BY <3>1 DEF SpanInv, Owned
    <3>3. r # s
      BY <1>1, <1>2, <3>1, <3>2 DEF SpanInv, Owned
    <3>. QED
      BY <2>2, <3>1, <3>2, <3>3
  <2>6. \A i, j \in Retained' : offset'[i] = offset'[j] => i = j
    BY <1>2 DEF SpanInv, Owned
  <2>. QED
    BY <2>4, <2>5, <2>6 DEF Owned
<1>14. Apart'
  <2>. SUFFICES ASSUME NEW q \in spans', NEW r \in spans', ~ q.occupied, ~ r.occupied,
                       End(q) = r.offset
                PROVE  FALSE
    BY DEF Apart, End
  <2>1. CASE q \in spans \ S /\ r \in spans \ S
    BY <2>1 DEF SpanInv, Apart
  <2>2. CASE q \in spans \ S /\ r = m
    <3>1. PICK p \in S : p.offset = m.offset
      BY <1>3
    <3>2. p # s
      BY <2>2, <3>1 DEF Neighbours, End
    <3>. QED
      BY <1>5, <2>2, <3>1, <3>2 DEF SpanInv, Apart
  <2>3. CASE q = m /\ r \in spans \ S
    <3>1. PICK p \in S : End(p) = End(m)
      BY <1>3
    <3>2. p # s
      BY <2>3, <3>1 DEF Neighbours, End
    <3>. QED
      BY <1>5, <2>3, <3>1, <3>2 DEF SpanInv, Apart
  <2>4. CASE q = m /\ r = m
    BY <1>7, <1>9, <2>4
  <2>. QED
    BY <1>4, <2>1, <2>2, <2>3, <2>4
<1>. QED
  BY <1>10, <1>11, <1>12, <1>13, <1>14 DEF SpanInv

(***************************************************************************)
(* The tables of spans and slots never overflow.                           *)
(***************************************************************************)
Bounded ==
    /\ IsFiniteSet(spans) /\ Cardinality(spans) <= SpanCount
    /\ IsFiniteSet(Retained) /\ Cardinality(Retained) <= SlotCount

\* The cardinality of a set with one element more or less.
LEMMA OneMore ==
    ASSUME NEW S, NEW x, IsFiniteSet(S)
    PROVE  /\ IsFiniteSet(S \cup {x})
           /\ Cardinality(S) \in Nat /\ Cardinality(S \cup {x}) \in Nat
           /\ Cardinality(S \cup {x}) <= Cardinality(S) + 1
<1>1. Cardinality(S \cup {x}) = IF x \in S THEN Cardinality(S) ELSE Cardinality(S) + 1
  BY FS_AddElement
<1>2. Cardinality(S) \in Nat
  BY FS_CardinalityType
<1>. QED
  BY <1>1, <1>2, FS_AddElement

LEMMA OneLess ==
    ASSUME NEW S, NEW x \in S, IsFiniteSet(S)
    PROVE  /\ IsFiniteSet(S \ {x})
           /\ Cardinality(S) \in Nat /\ Cardinality(S \ {x}) \in Nat
           /\ Cardinality(S \ {x}) = Cardinality(S) - 1
<1>1. IsFiniteSet(S \ {x}) /\ Cardinality(S \ {x}) = Cardinality(S) - 1
  BY FS_RemoveElement
<1>. QED
  BY <1>1, FS_CardinalityType

LEMMA ArenaInitBounded == ArenaInit => Bounded
<1>1. Cardinality({WholeBuffer}) = 1 /\ IsFiniteSet({WholeBuffer})
  BY FS_Singleton
<1>2. ArenaInit => Retained = {}
  BY DEF ArenaInit, Retained
<1>. QED
  BY <1>1, <1>2, FS_EmptySet, ArenaAssumption DEF ArenaInit, Bounded

\* The best fit has one size.
LEMMA BestFitSize ==
    ASSUME SpansType, NEW size, NEW r, NEW s, BestFit(r, size), BestFit(s, size)
    PROVE  r.size = s.size
BY ArenaAssumption DEF BestFit, SpansType, Span

LEMMA StoreBounded ==
    ASSUME SpanInv, Bounded, NEW k, NEW bytes, Len(bytes) \in Nat \ {0}, Store(k, bytes)
    PROVE  Bounded'
<1>. DEFINE size == Len(bytes)
<1>1. PICK s \in spans :
        /\ BestFit(s, size)
        /\ spans' = (spans \ {s}) \cup {Taken(s, size)} \cup Rest(s, size)
        /\ offset' = [j \in Retained \cup {k} |-> IF j = k THEN s.offset ELSE offset[j]]
  BY DEF Store
<1>2. Retained' = Retained \cup {k} /\ k \notin Retained
  BY <1>1 DEF Store, Retained
<1>3. Cardinality(Retained) < SlotCount
  <2>1. ~ (Cardinality(Retained) >= SlotCount)
    BY DEF Store, Refused
  <2>. QED
    BY <2>1, FS_CardinalityType, ArenaAssumption DEF Bounded
<1>4. IsFiniteSet(Retained') /\ Cardinality(Retained') <= SlotCount
  <2>1. /\ IsFiniteSet(Retained') /\ Cardinality(Retained') \in Nat
        /\ Cardinality(Retained) \in Nat /\ Cardinality(Retained') <= Cardinality(Retained) + 1
    BY <1>2, OneMore DEF Bounded
  <2>. QED
    BY <1>3, <2>1, ArenaAssumption
<1>5. /\ IsFiniteSet(spans \ {s}) /\ Cardinality(spans \ {s}) = Cardinality(spans) - 1
      /\ Cardinality(spans) \in Nat
  BY <1>1, OneLess DEF Bounded
<1>. DEFINE Most == (spans \ {s}) \cup {Taken(s, size)}
<1>6. IsFiniteSet(Most) /\ Cardinality(Most) \in Nat /\ Cardinality(Most) <= Cardinality(spans)
  <2>1. IsFiniteSet(Most) /\ Cardinality(Most) \in Nat /\ Cardinality(Most) <= Cardinality(spans \ {s}) + 1
    BY <1>5, OneMore
  <2>. QED
    BY <1>5, <2>1
<1>7. CASE s.size > size
  <2>1. PICK r \in spans : BestFit(r, size) /\ ~ (r.size > size /\ Cardinality(spans) >= SpanCount)
    BY DEF Store, Refused
  <2>2. r.size > size
    BY <1>1, <1>7, <2>1, BestFitSize DEF SpanInv
  <2>3. Cardinality(spans) < SpanCount
    BY <1>5, <2>1, <2>2, ArenaAssumption
  <2>4. PICK q : Rest(s, size) = {q}
    BY <1>7 DEF Rest
  <2>5. spans' = Most \cup {q}
    BY <1>1, <2>4
  <2>6. IsFiniteSet(Most \cup {q}) /\ Cardinality(Most \cup {q}) <= Cardinality(Most) + 1
    BY <1>6, OneMore
  <2>7. Cardinality(Most \cup {q}) \in Nat
    BY <2>6, FS_CardinalityType
  <2>. QED
    BY <1>4, <1>5, <1>6, <2>3, <2>5, <2>6, <2>7, ArenaAssumption DEF Bounded
<1>8. CASE ~ (s.size > size)
  <2>1. spans' = Most
    BY <1>1, <1>8 DEF Rest
  <2>. QED
    BY <1>4, <1>5, <1>6, <2>1, ArenaAssumption DEF Bounded
<1>. QED
  BY <1>7, <1>8

LEMMA ReleaseBounded ==
    ASSUME Bounded, NEW k, Release(k)
    PROVE  Bounded'
<1>1. PICK s \in spans :
        spans' = (spans \ (Neighbours(s) \cup {s})) \cup {Merged(Neighbours(s) \cup {s})}
  BY DEF Release
<1>. DEFINE Others == spans \ (Neighbours(s) \cup {s})
            m == Merged(Neighbours(s) \cup {s})
<1>2. /\ IsFiniteSet(spans \ {s}) /\ Cardinality(spans \ {s}) = Cardinality(spans) - 1
      /\ Cardinality(spans) \in Nat
  BY <1>1, OneLess DEF Bounded
<1>3. IsFiniteSet(Others) /\ Cardinality(Others) <= Cardinality(spans \ {s})
  BY <1>2, FS_Subset, Others \subseteq spans \ {s}
<1>4. Cardinality(Others) \in Nat
  BY <1>3, FS_CardinalityType
<1>5. IsFiniteSet(Others \cup {m}) /\ Cardinality(Others \cup {m}) <= Cardinality(Others) + 1
  BY <1>3, <1>4, OneMore
<1>6. Cardinality(Others \cup {m}) \in Nat
  BY <1>5, FS_CardinalityType
<1>7. IsFiniteSet(spans') /\ Cardinality(spans') <= SpanCount
  BY <1>1, <1>2, <1>3, <1>4, <1>5, <1>6, ArenaAssumption DEF Bounded
<1>8. Retained' = Retained \ {k} /\ k \in Retained
  BY DEF Release, Retained
<1>9. IsFiniteSet(Retained') /\ Cardinality(Retained') <= SlotCount
  <2>1. IsFiniteSet(Retained') /\ Cardinality(Retained') = Cardinality(Retained) - 1 /\ Cardinality(Retained) \in Nat
    BY <1>8, OneLess DEF Bounded
  <2>. QED
    BY <2>1, ArenaAssumption DEF Bounded
<1>. QED
  BY <1>7, <1>9 DEF Bounded

(***************************************************************************)
(* A record keeps its bytes until it is released, whatever is stored and   *)
(* released meanwhile.                                                     *)
(***************************************************************************)
Addressed == DOMAIN buffer = 0 .. BufferSize - 1

Holds(k, bytes) ==
    /\ k \in Retained
    /\ \E s \in spans : s.occupied /\ s.offset = offset[k] /\ s.size = Len(bytes)
    /\ \A i \in 1 .. Len(bytes) : buffer[offset[k] + i - 1] = bytes[i]

LEMMA ArenaInitAddressed == ArenaInit => Addressed
BY DEF ArenaInit, Addressed

\* What is stored is held.
LEMMA StoreHolds ==
    ASSUME SpanInv, Addressed, NEW k, NEW bytes, Len(bytes) \in Nat \ {0}, Store(k, bytes)
    PROVE  Holds(k, bytes)' /\ Addressed'
<1>. DEFINE size == Len(bytes)
<1>1. PICK s \in spans :
        /\ BestFit(s, size)
        /\ spans' = (spans \ {s}) \cup {Taken(s, size)} \cup Rest(s, size)
        /\ offset' = [j \in Retained \cup {k} |-> IF j = k THEN s.offset ELSE offset[j]]
        /\ buffer' = [b \in DOMAIN buffer |->
                         IF b \in s.offset .. s.offset + size - 1
                         THEN bytes[b - s.offset + 1] ELSE buffer[b]]
  BY DEF Store
<1>2. s \in Span /\ s.size >= size /\ End(s) <= BufferSize
  BY <1>1 DEF BestFit, SpanInv, SpansType, Within
<1>3. s.offset \in Nat /\ s.size \in Nat /\ s.offset + size <= BufferSize
  BY <1>2, ArenaAssumption DEF Span, End
<1>4. /\ Taken(s, size).occupied /\ Taken(s, size).offset = s.offset
      /\ Taken(s, size).size = size /\ Taken(s, size) \in spans'
  BY <1>1, <1>2, TakenSpan
<1>5. k \in DOMAIN offset' /\ offset'[k] = s.offset
  BY <1>1
<1>6. ASSUME NEW i \in 1 .. size
      PROVE  buffer'[s.offset + i - 1] = bytes[i]
  <2>1. s.offset + i - 1 \in 0 .. BufferSize - 1
    BY <1>3, ArenaAssumption
  <2>2. s.offset + i - 1 \in s.offset .. s.offset + size - 1
    BY <1>3
  <2>3. (s.offset + i - 1) - s.offset + 1 = i
    BY <1>3
  <2>. QED
    BY <1>1, <2>1, <2>2, <2>3 DEF Addressed
<1>7. Addressed'
  BY <1>1 DEF Addressed
<1>. QED
  BY <1>4, <1>5, <1>6, <1>7 DEF Holds, Retained

\* The bytes a record holds are apart from another span.
LEMMA HeldApart ==
    ASSUME SpanInv, NEW r \in spans, NEW s \in spans, r # s, NEW i \in 1 .. r.size
    PROVE  /\ r.offset + i - 1 \in 0 .. BufferSize - 1
           /\ r.offset + i - 1 \notin s.offset .. s.offset + s.size - 1
<1>1. /\ r.offset \in Nat /\ r.size \in Nat /\ s.offset \in Nat /\ s.size \in Nat
      /\ r.offset + r.size <= BufferSize
  BY ArenaAssumption DEF SpanInv, SpansType, Within, Span, End
<1>2. r.offset + r.size <= s.offset \/ s.offset + s.size <= r.offset
  BY DEF SpanInv, Disjoint, End
<1>. QED
  BY <1>1, <1>2, ArenaAssumption

LEMMA StoreKeeps ==
    ASSUME SpanInv, Addressed, NEW k, NEW bytes, Len(bytes) \in Nat \ {0}, Store(k, bytes),
           NEW j, NEW other, Holds(j, other)
    PROVE  Holds(j, other)'
<1>. DEFINE size == Len(bytes)
<1>1. PICK s \in spans :
        /\ BestFit(s, size)
        /\ spans' = (spans \ {s}) \cup {Taken(s, size)} \cup Rest(s, size)
        /\ offset' = [l \in Retained \cup {k} |-> IF l = k THEN s.offset ELSE offset[l]]
        /\ buffer' = [b \in DOMAIN buffer |->
                         IF b \in s.offset .. s.offset + size - 1
                         THEN bytes[b - s.offset + 1] ELSE buffer[b]]
  BY DEF Store
<1>2. s \in Span /\ ~ s.occupied /\ s.size >= size
  BY <1>1 DEF BestFit, SpanInv, SpansType
<1>3. PICK r \in spans : r.occupied /\ r.offset = offset[j] /\ r.size = Len(other)
  BY DEF Holds
<1>4. r # s /\ r \in spans'
  BY <1>1, <1>2, <1>3
<1>5. j \in DOMAIN offset' /\ offset'[j] = offset[j]
  BY <1>1 DEF Store, Holds, Retained
<1>6. ASSUME NEW i \in 1 .. Len(other)
      PROVE  buffer'[offset[j] + i - 1] = other[i]
  <2>1. /\ offset[j] + i - 1 \in 0 .. BufferSize - 1
        /\ offset[j] + i - 1 \notin s.offset .. s.offset + s.size - 1
    BY <1>3, <1>4, HeldApart
  <2>2. offset[j] + i - 1 \notin s.offset .. s.offset + size - 1
    BY <1>2, <2>1, ArenaAssumption DEF Span
  <2>. QED
    BY <1>1, <2>1, <2>2 DEF Addressed, Holds
<1>. QED
  BY <1>3, <1>4, <1>5, <1>6 DEF Holds, Retained

LEMMA ReleaseKeeps ==
    ASSUME SpanInv, Addressed, NEW k, Release(k)
    PROVE  /\ Addressed'
           /\ \A j, other : j # k /\ Holds(j, other) => Holds(j, other)'
<1>1. PICK s \in spans :
        /\ s.offset = offset[k] /\ s.occupied
        /\ spans' = (spans \ (Neighbours(s) \cup {s})) \cup {Merged(Neighbours(s) \cup {s})}
        /\ buffer' = [b \in DOMAIN buffer |->
                         IF b \in s.offset .. s.offset + s.size - 1 THEN Empty ELSE buffer[b]]
        /\ offset' = [j \in Retained \ {k} |-> offset[j]]
        /\ k \in Retained
  BY DEF Release
<1>2. Addressed'
  BY <1>1 DEF Addressed
<1>3. ASSUME NEW j, NEW other, j # k, Holds(j, other)
      PROVE  Holds(j, other)'
  <2>1. PICK r \in spans : r.occupied /\ r.offset = offset[j] /\ r.size = Len(other)
    BY <1>3 DEF Holds
  <2>2. r # s
    BY <1>1, <1>3, <2>1 DEF SpanInv, Owned, Holds
  <2>3. r \in spans'
    BY <1>1, <2>1, <2>2 DEF Neighbours
  <2>4. j \in DOMAIN offset' /\ offset'[j] = offset[j]
    BY <1>1, <1>3 DEF Holds, Retained
  <2>5. ASSUME NEW i \in 1 .. Len(other)
        PROVE  buffer'[offset[j] + i - 1] = other[i]
    <3>1. /\ offset[j] + i - 1 \in 0 .. BufferSize - 1
          /\ offset[j] + i - 1 \notin s.offset .. s.offset + s.size - 1
      BY <2>1, <2>2, HeldApart
    <3>. QED
      BY <1>1, <1>3, <3>1 DEF Addressed, Holds
  <2>. QED
    BY <2>1, <2>3, <2>4, <2>5 DEF Holds, Retained
<1>. QED
  BY <1>2, <1>3

(***************************************************************************)
(* The three facts together, for the modules that use an arena.            *)
(***************************************************************************)
ArenaInv == SpanInv /\ Bounded /\ Addressed

LEMMA ArenaInitially == ArenaInit => ArenaInv /\ Retained = {}
BY ArenaInitInv, ArenaInitBounded, ArenaInitAddressed DEF ArenaInv, ArenaInit, Retained

LEMMA ArenaStore ==
    ASSUME ArenaInv, NEW k, NEW bytes, Len(bytes) \in Nat \ {0}, Store(k, bytes)
    PROVE  /\ ArenaInv'
           /\ k \notin Retained /\ Retained' = Retained \cup {k}
           /\ Holds(k, bytes)'
           /\ \A j, other : Holds(j, other) => Holds(j, other)'
<1>1. k \notin Retained /\ Retained' = Retained \cup {k}
  BY DEF Store, Retained
<1>. QED
  BY <1>1, StoreInv, StoreBounded, StoreHolds, StoreKeeps DEF ArenaInv

LEMMA ArenaRelease ==
    ASSUME ArenaInv, NEW k, Release(k)
    PROVE  /\ ArenaInv'
           /\ k \in Retained /\ Retained' = Retained \ {k}
           /\ \A j, other : j # k /\ Holds(j, other) => Holds(j, other)'
<1>1. k \in Retained /\ Retained' = Retained \ {k}
  BY DEF Release, Retained
<1>. QED
  BY <1>1, ReleaseInv, ReleaseBounded, ReleaseKeeps DEF ArenaInv

LEMMA ArenaUnchanged ==
    ASSUME UNCHANGED arena
    PROVE  /\ ArenaInv => ArenaInv'
           /\ Retained' = Retained
           /\ \A j, other : Holds(j, other) => Holds(j, other)'
BY DEF arena, ArenaInv, SpanInv, SpansType, Within, Disjoint, Covering, Owned, Apart, Bounded,
       Addressed, Holds, Retained, End

(***************************************************************************)
(* The ingress buffer over the arena.                                      *)
(***************************************************************************)

Storing == {"whole", "payload", "remember"}
Owning == {"remember", "clear", "release"}

Types ==
    /\ records \in [Record -> [header : Key \cup {None}, occupied : BOOLEAN, validated : BOOLEAN]]
    /\ task \in [Task -> [at : {"idle", "whole", "payload", "remember", "clear", "release"},
                          key : Key \cup {None}, record : Record \cup {0}]]
    /\ held \subseteq Retained /\ Retained \subseteq Key
    /\ content \in [Key -> Content]

\* Only the runner stores, and what it stores is new; a frame a task stores
\* or releases is held by nobody and belongs to that task alone.
Tasks ==
    /\ \A t \in Task :
         /\ task[t].at = "idle" => task[t] = Idle
         /\ task[t].at # "idle" => task[t].key \in Key
         /\ task[t].at \in Storing => t = Runner
         /\ task[t].at \in {"whole", "payload"} => task[t].key \notin Retained
         /\ task[t].at \in Owning => task[t].key \in Retained \ held
    /\ \A t, u \in Task :
         task[t].at \in Owning /\ task[u].at \in Owning /\ task[t].key = task[u].key => t = u

\* Every retained frame is held or in the hands of a task.
Accounted ==
    \A k \in Retained : k \in held \/ \E t \in Task : task[t].at \in Owning /\ task[t].key = k

\* A record of the table is that of a held frame, or a task is clearing it.
Table ==
    /\ \A r \in Record : records[r].occupied =>
         \/ records[r].header \in held
         \/ \E t \in Task : task[t].at = "clear" /\ task[t].record = r
    /\ \A q, r \in Record :
         records[q].occupied /\ records[r].occupied /\ records[q].header = records[r].header
         /\ records[r].header # None => q = r
    /\ \A t \in Task : task[t].at = "clear" =>
         /\ task[t].record \in Record
         /\ records[task[t].record].occupied /\ records[task[t].record].header = None
    /\ \A t, u \in Task :
         task[t].at = "clear" /\ task[u].at = "clear" /\ task[t].record = task[u].record => t = u

\* The arena holds the frames as they were received; what is not kept with
\* its checksum, or counts as validated, is intact.
Stored ==
    /\ \A k \in held, c \in Content : content[k] = c =>
         \/ RecordOf(k) # {} /\ Holds(k, Frame(k, c))
         \/ RecordOf(k) = {} /\ c = "intact" /\ Holds(k, Payload(k, c))
    /\ \A k \in Key, c \in Content :
         task[Runner].at = "remember" /\ task[Runner].key = k /\ content[k] = c
            => Holds(k, Frame(k, c))
    /\ task[Runner].at = "payload" => content[task[Runner].key] = "intact"
    /\ \A k \in held : \A r \in RecordOf(k) : records[r].validated => content[k] = "intact"

IInv == ArenaInv /\ Types /\ Tasks /\ Accounted /\ Table /\ Stored

(***************************************************************************)
(* Frames and payloads.                                                    *)
(***************************************************************************)
LEMMA Lengths ==
    ASSUME NEW k \in Key, NEW c
    PROVE  /\ Len(Frame(k, c)) = FrameSize(k) /\ FrameSize(k) \in Nat \ {0}
           /\ Len(Payload(k, c)) = PayloadSize[k] /\ PayloadSize[k] \in Nat \ {0}
<1>1. PayloadSize[k] \in Nat \ {0} /\ FrameSize(k) \in Nat \ {0}
  BY IngressAssumption DEF FrameSize
<1>. QED
  BY <1>1 DEF Frame, Payload

LEMMA FrameBytes ==
    ASSUME NEW k \in Key, NEW c
    PROVE  \A i \in 1 .. FrameSize(k) :
             Frame(k, c)[i] = [key |-> k, place |-> i, good |-> c = "intact" \/ i # HeaderSize + 1]
BY DEF Frame

LEMMA PayloadBytes ==
    ASSUME NEW k \in Key, NEW c
    PROVE  \A i \in 1 .. PayloadSize[k] : Payload(k, c)[i] = Frame(k, c)[HeaderSize + i]
BY DEF Payload

(***************************************************************************)
(* The initial states and the steps.                                       *)
(***************************************************************************)
LEMMA InitIInv == Init => IInv
<1>. SUFFICES ASSUME Init PROVE IInv
  OBVIOUS
<1>1. ArenaInv /\ Retained = {}
  BY ArenaInitially DEF Init
<1>2. Types
  BY <1>1, IngressAssumption DEF Init, Types, Cleared, Idle, Content
<1>3. Tasks
  BY <1>1 DEF Init, Tasks, Idle, Storing, Owning
<1>4. Accounted
  BY <1>1 DEF Accounted
<1>5. Table
  BY DEF Init, Table, Cleared, Idle
<1>6. Stored
  BY IngressAssumption DEF Init, Stored, Idle
<1>. QED
  BY <1>1, <1>2, <1>3, <1>4, <1>5, <1>6 DEF IInv

LEMMA ArriveStep ==
    ASSUME IInv, NEW k \in Key, NEW c \in Content, Arrive(k, c)
    PROVE  IInv'
<1>. USE DEF IInv
<1>1. /\ ArenaInv' /\ Retained' = Retained
      /\ \A j, other : Holds(j, other) => Holds(j, other)'
  BY ArenaUnchanged DEF Arrive
<1>2. PICK a \in {"whole", "payload"} :
        /\ task' = [task EXCEPT ![Runner] = [Idle EXCEPT !.at = a, !.key = k]]
        /\ a = "payload" => c = "intact"
  BY DEF Arrive
<1>3. task[Runner].at = "idle" /\ Runner \in Task
  BY IngressAssumption DEF Arrive, Idle
<1>4. k \notin Retained /\ content' = [content EXCEPT ![k] = c] /\ UNCHANGED <<records, held>>
  BY DEF Arrive
<1>5. /\ task'[Runner] = [at |-> a, key |-> k, record |-> 0]
      /\ \A t \in Task \ {Runner} : task'[t] = task[t]
  BY <1>2, <1>3 DEF Types, Idle
<1>6. Types'
  BY <1>1, <1>2, <1>4 DEF Types, Idle
<1>7. Tasks'
  BY <1>1, <1>2, <1>3, <1>4, <1>5 DEF Tasks, Storing, Owning
<1>8. Accounted'
  BY <1>1, <1>3, <1>4, <1>5 DEF Accounted, Owning
<1>9. Table'
  BY <1>3, <1>4, <1>5 DEF Table
<1>10. \A j \in Key : RecordOf(j)' = RecordOf(j)
  BY <1>4 DEF RecordOf
<1>11. \A j \in held : content'[j] = content[j] /\ j \in Key
  BY <1>4 DEF Types
<1>12. Stored'
  BY <1>1, <1>2, <1>4, <1>5, <1>10, <1>11 DEF Stored, Types
<1>. QED
  BY <1>1, <1>6, <1>7, <1>8, <1>9, <1>12

\* The frame the runner stores is refused, or in the arena.
LEMMA StoreFrameStep ==
    ASSUME IInv, StoreFrame
    PROVE  IInv'
<1>. USE DEF IInv
<1>1. Runner \in Task /\ task[Runner].at \in {"whole", "payload"}
  BY IngressAssumption DEF StoreFrame
<1>2. PICK k \in Key : k = task[Runner].key /\ k \notin Retained
  BY <1>1 DEF Tasks
<1>3. PICK c \in Content : c = content[k]
  BY DEF Types
<1>4. PICK bytes : bytes = Bytes(k)
  OBVIOUS
<1>5. /\ task[Runner].at = "whole" => bytes = Frame(k, c)
      /\ task[Runner].at = "payload" => bytes = Payload(k, c) /\ c = "intact"
  BY <1>1, <1>2, <1>3, <1>4 DEF Bytes, Stored
<1>6. Len(bytes) \in Nat \ {0}
  BY <1>1, <1>5, Lengths
<1>7. CASE /\ Store(k, bytes) /\ UNCHANGED <<records, content>>
           /\ task[Runner].at = "whole"
           /\ task' = [task EXCEPT ![Runner].at = "remember"]
           /\ UNCHANGED held
  <2>1. /\ ArenaInv' /\ Retained' = Retained \cup {k} /\ Holds(k, bytes)'
        /\ \A j, other : Holds(j, other) => Holds(j, other)'
    BY <1>6, <1>7, ArenaStore
  <2>2. /\ task'[Runner].at = "remember" /\ task'[Runner].key = k
        /\ \A t \in Task \ {Runner} : task'[t] = task[t]
    BY <1>1, <1>2, <1>7 DEF Types
  <2>3. Types'
    BY <1>1, <1>2, <1>7, <2>1 DEF Types
  <2>4. Tasks'
    BY <1>1, <1>2, <1>7, <2>1, <2>2 DEF Tasks, Types, Storing, Owning
  <2>5. Accounted'
    BY <1>1, <1>7, <2>1, <2>2 DEF Accounted, Owning
  <2>6. Table'
    BY <1>1, <1>7, <2>2 DEF Table
  <2>7. \A j \in Key : RecordOf(j)' = RecordOf(j)
    BY <1>7 DEF RecordOf
  <2>8. Stored'
    BY <1>2, <1>3, <1>5, <1>7, <2>1, <2>2, <2>7 DEF Stored, Types
  <2>. QED
    BY <2>1, <2>3, <2>4, <2>5, <2>6, <2>8
<1>8. CASE /\ Store(k, bytes) /\ UNCHANGED <<records, content>>
           /\ task[Runner].at = "payload"
           /\ task' = [task EXCEPT ![Runner] = Idle]
           /\ held' = held \cup {k}
  <2>1. /\ ArenaInv' /\ Retained' = Retained \cup {k} /\ Holds(k, bytes)'
        /\ \A j, other : Holds(j, other) => Holds(j, other)'
    BY <1>6, <1>8, ArenaStore
  <2>2. task'[Runner] = Idle /\ \A t \in Task \ {Runner} : task'[t] = task[t]
    BY <1>1, <1>8 DEF Types
  <2>3. Types'
    BY <1>1, <1>8, <2>1 DEF Types, Idle
  <2>4. Tasks'
    BY <1>1, <1>2, <1>8, <2>1, <2>2 DEF Tasks, Types, Storing, Owning, Idle
  <2>5. Accounted'
    BY <1>1, <1>8, <2>1, <2>2 DEF Accounted, Owning
  <2>6. Table'
    BY <1>1, <1>8, <2>2 DEF Table, Idle
  <2>7. \A j \in Key : RecordOf(j)' = RecordOf(j)
    BY <1>8 DEF RecordOf
  <2>8. RecordOf(k) = {}
    <3>1. \A r \in Record : records[r].occupied => records[r].header # k
      BY <1>2, IngressAssumption DEF Table, Types
    <3>. QED
      BY <3>1 DEF RecordOf
  <2>9. Stored'
    BY <1>2, <1>3, <1>5, <1>8, <2>1, <2>2, <2>7, <2>8 DEF Stored, Types, Idle
  <2>. QED
    BY <2>1, <2>3, <2>4, <2>5, <2>6, <2>9
<1>9. CASE /\ task' = [task EXCEPT ![Runner] = Idle]
           /\ content' = [content EXCEPT ![k] = "intact"]
           /\ UNCHANGED <<arena, records, held>>
  <2>1. /\ ArenaInv' /\ Retained' = Retained
        /\ \A j, other : Holds(j, other) => Holds(j, other)'
    BY <1>9, ArenaUnchanged
  <2>2. task'[Runner] = Idle /\ \A t \in Task \ {Runner} : task'[t] = task[t]
    BY <1>1, <1>9 DEF Types
  <2>3. Types'
    BY <1>1, <1>9, <2>1 DEF Types, Idle, Content
  <2>4. Tasks'
    BY <1>1, <1>9, <2>1, <2>2 DEF Tasks, Types, Storing, Owning, Idle
  <2>5. Accounted'
    BY <1>1, <1>9, <2>1, <2>2 DEF Accounted, Owning
  <2>6. Table'
    BY <1>1, <1>9, <2>2 DEF Table, Idle
  <2>7. \A j \in Key : RecordOf(j)' = RecordOf(j)
    BY <1>9 DEF RecordOf
  <2>8. \A j \in held : content'[j] = content[j] /\ j \in Key
    BY <1>2, <1>9 DEF Types
  <2>9. Stored'
    BY <1>9, <2>1, <2>2, <2>7, <2>8 DEF Stored, Idle
  <2>. QED
    BY <2>1, <2>3, <2>4, <2>5, <2>6, <2>9
<1>10. Store(task[Runner].key, Bytes(task[Runner].key)) <=> Store(k, bytes)
  BY <1>2, <1>4
<1>11. held \cup {task[Runner].key} = held \cup {k}
  BY <1>2
<1>12. [content EXCEPT ![task[Runner].key] = "intact"] = [content EXCEPT ![k] = "intact"]
  BY <1>2
<1>. QED
  BY <1>1, <1>7, <1>8, <1>9, <1>10, <1>11, <1>12 DEF StoreFrame

LEMMA RememberStep ==
    ASSUME IInv, Remember
    PROVE  IInv'
<1>. USE DEF IInv
<1>1. Runner \in Task /\ task[Runner].at = "remember"
  BY IngressAssumption DEF Remember
<1>2. PICK k \in Key : k = task[Runner].key /\ k \in Retained /\ k \notin held
  BY <1>1 DEF Tasks, Owning
<1>3. PICK r \in Record :
        /\ ~ records[r].occupied
        /\ records' = [records EXCEPT ![r] =
                           [header |-> k, occupied |-> TRUE, validated |-> FALSE]]
  BY <1>2 DEF Remember, Unoccupied
<1>4. /\ held' = held \cup {k} /\ UNCHANGED content
      /\ task' = [task EXCEPT ![Runner] = Idle]
  BY <1>2 DEF Remember
<1>5. /\ ArenaInv' /\ Retained' = Retained
      /\ \A j, other : Holds(j, other) => Holds(j, other)'
  BY ArenaUnchanged DEF Remember
<1>6. task'[Runner] = Idle /\ \A t \in Task \ {Runner} : task'[t] = task[t]
  BY <1>1, <1>4 DEF Types
<1>7. /\ records'[r] = [header |-> k, occupied |-> TRUE, validated |-> FALSE]
      /\ \A q \in Record \ {r} : records'[q] = records[q]
  BY <1>3 DEF Types
<1>8. \A q \in Record : records[q].occupied => records[q].header # k
  BY <1>2, IngressAssumption DEF Table, Types
<1>9. Types'
  BY <1>1, <1>2, <1>3, <1>4, <1>5 DEF Types, Idle
<1>10. Tasks'
  BY <1>1, <1>2, <1>4, <1>5, <1>6 DEF Tasks, Types, Storing, Owning, Idle
<1>11. Accounted'
  BY <1>1, <1>2, <1>4, <1>5, <1>6 DEF Accounted, Owning
<1>12. Table'
  <2>1. ASSUME NEW q \in Record, records'[q].occupied
        PROVE  \/ records'[q].header \in held'
               \/ \E t \in Task : task'[t].at = "clear" /\ task'[t].record = q
    BY <1>1, <1>4, <1>6, <1>7, <2>1 DEF Table
  <2>2. ASSUME NEW p \in Record, NEW q \in Record, records'[p].occupied, records'[q].occupied,
               records'[p].header = records'[q].header, records'[q].header # None
        PROVE  p = q
    BY <1>7, <1>8, <2>2 DEF Table
  <2>3. ASSUME NEW t \in Task, task'[t].at = "clear"
        PROVE  /\ task'[t].record \in Record
               /\ records'[task'[t].record].occupied /\ records'[task'[t].record].header = None
    BY <1>3, <1>6, <1>7, <2>3 DEF Table, Idle
  <2>4. \A t, u \in Task : task'[t].at = "clear" /\ task'[u].at = "clear"
                           /\ task'[t].record = task'[u].record => t = u
    BY <1>6 DEF Table, Idle
  <2>. QED
    BY <2>1, <2>2, <2>3, <2>4 DEF Table
<1>13. RecordOf(k)' = {r} /\ \A j \in Key \ {k} : RecordOf(j)' = RecordOf(j)
  BY <1>3, <1>7, <1>8 DEF RecordOf
<1>14. Stored'
  <2>1. ASSUME NEW j \in held', NEW c \in Content, content'[j] = c
        PROVE  \/ RecordOf(j)' # {} /\ Holds(j, Frame(j, c))'
               \/ RecordOf(j)' = {} /\ c = "intact" /\ Holds(j, Payload(j, c))'
    <3>1. CASE j = k
      BY <1>1, <1>2, <1>4, <1>5, <1>13, <2>1, <3>1 DEF Stored
    <3>2. CASE j # k
      BY <1>4, <1>5, <1>13, <2>1, <3>2 DEF Stored, Types
    <3>. QED
      BY <3>1, <3>2
  <2>2. ASSUME NEW j \in held', NEW q \in RecordOf(j)', records'[q].validated
        PROVE  content'[j] = "intact"
    <3>1. j # k
      BY <1>7, <1>13, <2>2
    <3>2. j \in held /\ j \in Key /\ q \in RecordOf(j) /\ q # r
      BY <1>3, <1>4, <1>13, <2>2, <3>1 DEF Types, RecordOf
    <3>. QED
      BY <1>4, <1>7, <2>2, <3>2 DEF Stored, RecordOf
  <2>. QED
    BY <1>6, <2>1, <2>2 DEF Stored, Idle
<1>. QED
  BY <1>5, <1>9, <1>10, <1>11, <1>12, <1>14

\* A frame whose bytes are all good was received intact.
LEMMA ValidIsIntact ==
    ASSUME NEW k \in Key, NEW c \in Content, Holds(k, Frame(k, c)), Valid(k)
    PROVE  c = "intact"
<1>. DEFINE i == HeaderSize + 1
<1>1. i \in 1 .. FrameSize(k)
  BY IngressAssumption DEF FrameSize
<1>2. Whole(k)[i] = Frame(k, c)[i]
  BY <1>1, Lengths DEF Whole, Read, Holds
<1>3. Frame(k, c)[i].good = (c = "intact" \/ i # HeaderSize + 1)
  <2>1. Frame(k, c)[i] = [key |-> k, place |-> i, good |-> c = "intact" \/ i # HeaderSize + 1]
    BY <1>1, FrameBytes
  <2>2. [key |-> k, place |-> i, good |-> c = "intact" \/ i # HeaderSize + 1].good
          = (c = "intact" \/ i # HeaderSize + 1)
    OBVIOUS
  <2>. QED
    BY <2>1, <2>2
<1>4. Whole(k)[i].good
  BY <1>1 DEF Valid
<1>. QED
  BY <1>2, <1>3, <1>4

LEMMA ValidateStep ==
    ASSUME IInv, NEW k \in Key, Validate(k)
    PROVE  IInv'
<1>. USE DEF IInv
<1>1. PICK r \in RecordOf(k) :
        /\ k \in held /\ Valid(k)
        /\ records' = [records EXCEPT ![r].validated = TRUE]
  BY DEF Validate
<1>2. UNCHANGED <<arena, task, held, content>>
  BY DEF Validate
<1>3. /\ ArenaInv' /\ Retained' = Retained
      /\ \A j, other : Holds(j, other) => Holds(j, other)'
  BY <1>2, ArenaUnchanged
<1>4. r \in Record /\ records[r].header = k
  BY <1>1 DEF RecordOf
<1>5. \A q \in Record : /\ records'[q].header = records[q].header
                        /\ records'[q].occupied = records[q].occupied
                        /\ q # r => records'[q] = records[q]
  BY <1>1, <1>4 DEF Types
<1>6. Types'
  <2> DEFINE R == [header : Key \cup {None}, occupied : BOOLEAN, validated : BOOLEAN]
  <2>1. records \in [Record -> R] /\ records[r] \in R
    BY <1>4 DEF Types
  <2>2. [records[r] EXCEPT !.validated = TRUE] \in R
    BY <2>1
  <2>3. records' = [records EXCEPT ![r] = [records[r] EXCEPT !.validated = TRUE]]
    BY <1>1, <1>4, <2>1
  <2> HIDE DEF R, IInv
  <2>4. records' \in [Record -> R]
    BY <2>1, <2>2, <2>3
  <2> USE DEF R, IInv
  <2>. QED
    BY <1>2, <1>3, <2>4, Zenon DEF Types
<1>7. Tasks' /\ Accounted'
  BY <1>2, <1>3 DEF Tasks, Accounted
<1>8. Table'
  BY <1>2, <1>5 DEF Table
<1>9. \A j \in Key : RecordOf(j)' = RecordOf(j)
  BY <1>5 DEF RecordOf
<1>10. content[k] = "intact"
  <2>1. Holds(k, Frame(k, content[k])) /\ content[k] \in Content
    BY <1>1 DEF Stored, Types
  <2>. QED
    BY <1>1, <2>1, ValidIsIntact
<1>11. Stored'
  <2>1. ASSUME NEW j \in held', NEW q \in RecordOf(j)', records'[q].validated
        PROVE  content'[j] = "intact"
    <3>1. j \in held /\ j \in Key /\ q \in RecordOf(j) /\ q \in Record
      BY <1>2, <1>9, <2>1 DEF Types, RecordOf
    <3>2. CASE q = r
      BY <1>2, <1>4, <1>10, <3>1, <3>2 DEF RecordOf
    <3>3. CASE q # r
      BY <1>2, <1>5, <2>1, <3>1, <3>3 DEF Stored
    <3>. QED
      BY <3>2, <3>3
  <2>. QED
    BY <1>2, <1>3, <1>9, <2>1 DEF Stored, Types
<1>. QED
  BY <1>3, <1>6, <1>7, <1>8, <1>11

LEMMA ReleaseFrameStep ==
    ASSUME IInv, NEW t \in Task, NEW k \in Key, ReleaseFrame(t, k)
    PROVE  IInv'
<1>. USE DEF IInv
<1>1. /\ task[t] = Idle /\ k \in held /\ k \in Retained
      /\ held' = held \ {k} /\ content' = [content EXCEPT ![k] = "intact"]
  BY DEF ReleaseFrame, Types
<1>2. /\ ArenaInv' /\ Retained' = Retained
      /\ \A j, other : Holds(j, other) => Holds(j, other)'
  BY ArenaUnchanged DEF ReleaseFrame
<1>3. \A j \in held' : content'[j] = content[j] /\ j \in held /\ j \in Key /\ j # k
  BY <1>1 DEF Types
<1>4. \A u \in Task : task[u].at \in Owning => task[u].key # k
  BY <1>1 DEF Tasks
<1>5. content' \in [Key -> Content]
  BY <1>1 DEF Types, Content
<1>6. ASSUME NEW r \in RecordOf(k),
             records' = [records EXCEPT ![r].header = None],
             task' = [task EXCEPT ![t] = [at |-> "clear", key |-> k, record |-> r]]
      PROVE  IInv'
  <2>1. r \in Record /\ records[r].occupied /\ records[r].header = k
    BY DEF RecordOf
  <2>2. /\ task'[t] = [at |-> "clear", key |-> k, record |-> r]
        /\ \A u \in Task \ {t} : task'[u] = task[u]
    BY <1>6 DEF Types
  <2>3. /\ records'[r].header = None /\ records'[r].occupied
        /\ \A q \in Record \ {r} : records'[q] = records[q]
    BY <1>6, <2>1 DEF Types
  <2>4. Types'
    BY <1>1, <1>2, <1>5, <1>6, <2>1 DEF Types
  <2>5. Tasks'
    BY <1>1, <1>2, <1>4, <2>2 DEF Tasks, Storing, Owning, Idle
  <2>6. Accounted'
    BY <1>1, <1>2, <2>2 DEF Accounted, Owning, Idle
  <2>7. \A u \in Task : task[u].at = "clear" => task[u].record # r
    BY <2>1, IngressAssumption DEF Table
  <2>8. \A q \in Record : records[q].occupied /\ records[q].header = k => q = r
    BY <2>1, IngressAssumption DEF Table
  <2>9. Table'
    <3>1. ASSUME NEW q \in Record, records'[q].occupied
          PROVE  \/ records'[q].header \in held'
                 \/ \E u \in Task : task'[u].at = "clear" /\ task'[u].record = q
      <4>1. CASE q = r
        BY <2>2, <4>1
      <4>2. CASE q # r
        BY <1>1, <2>2, <2>3, <2>8, <3>1, <4>2 DEF Table, Idle
      <4>. QED
        BY <4>1, <4>2
    <3>2. ASSUME NEW p \in Record, NEW q \in Record, records'[p].occupied, records'[q].occupied,
                 records'[p].header = records'[q].header, records'[q].header # None
          PROVE  p = q
      BY <2>3, <3>2 DEF Table
    <3>3. ASSUME NEW u \in Task, task'[u].at = "clear"
          PROVE  /\ task'[u].record \in Record
                 /\ records'[task'[u].record].occupied
                 /\ records'[task'[u].record].header = None
      BY <2>1, <2>2, <2>3, <3>3 DEF Table
    <3>4. \A u, v \in Task : task'[u].at = "clear" /\ task'[v].at = "clear"
                             /\ task'[u].record = task'[v].record => u = v
      BY <2>2, <2>7 DEF Table
    <3>. QED
      BY <3>1, <3>2, <3>3, <3>4 DEF Table
  <2>10. \A j \in held' : RecordOf(j)' = RecordOf(j)
    BY <1>3, <2>1, <2>3, IngressAssumption DEF RecordOf
  <2>11. Stored'
    <3>1. ASSUME NEW j \in held', NEW c \in Content, content'[j] = c
          PROVE  \/ RecordOf(j)' # {} /\ Holds(j, Frame(j, c))'
                 \/ RecordOf(j)' = {} /\ c = "intact" /\ Holds(j, Payload(j, c))'
      BY <1>2, <1>3, <2>10, <3>1 DEF Stored
    <3>2. ASSUME NEW j \in held', NEW q \in RecordOf(j)', records'[q].validated
          PROVE  content'[j] = "intact"
      <4>1. q \in RecordOf(j) /\ q \in Record /\ q # r
        BY <1>3, <2>1, <2>10, <3>2 DEF RecordOf
      <4>. QED
        BY <1>3, <2>3, <3>2, <4>1 DEF Stored
    <3>3. ASSUME NEW j \in Key, NEW c \in Content, task'[Runner].at = "remember",
                 task'[Runner].key = j, content'[j] = c
          PROVE  Holds(j, Frame(j, c))'
      <4>1. task[Runner].at = "remember" /\ task[Runner].key = j /\ Runner \in Task
        BY <2>2, <3>3, IngressAssumption
      <4>2. content[j] = c
        BY <1>1, <1>4, <3>3, <4>1 DEF Types, Owning
      <4>. QED
        BY <1>2, <4>1, <4>2 DEF Stored
    <3>4. task'[Runner].at = "payload" => content'[task'[Runner].key] = "intact"
      BY <1>1, <2>2, IngressAssumption DEF Stored, Types, Tasks
    <3>. QED
      BY <3>1, <3>2, <3>3, <3>4 DEF Stored
  <2>. QED
    BY <1>2, <2>4, <2>5, <2>6, <2>9, <2>11
<1>7. ASSUME RecordOf(k) = {}, UNCHANGED records,
             task' = [task EXCEPT ![t] = [at |-> "release", key |-> k, record |-> 0]]
      PROVE  IInv'
  <2>1. /\ task'[t] = [at |-> "release", key |-> k, record |-> 0]
        /\ \A u \in Task \ {t} : task'[u] = task[u]
    BY <1>7 DEF Types
  <2>2. Types'
    BY <1>1, <1>2, <1>5, <1>7 DEF Types
  <2>3. Tasks'
    BY <1>1, <1>2, <1>4, <2>1 DEF Tasks, Storing, Owning, Idle
  <2>4. Accounted'
    BY <1>1, <1>2, <2>1 DEF Accounted, Owning, Idle
  <2>5. \A q \in Record : records[q].occupied => records[q].header # k
    BY <1>7 DEF RecordOf
  <2>6. Table'
    BY <1>1, <1>7, <2>1, <2>5 DEF Table, Idle
  <2>7. \A j \in Key : RecordOf(j)' = RecordOf(j)
    BY <1>7 DEF RecordOf
  <2>8. Stored'
    <3>1. ASSUME NEW j \in Key, NEW c \in Content, task'[Runner].at = "remember",
                 task'[Runner].key = j, content'[j] = c
          PROVE  Holds(j, Frame(j, c))'
      <4>1. task[Runner].at = "remember" /\ task[Runner].key = j /\ Runner \in Task
        BY <2>1, <3>1, IngressAssumption
      <4>2. content[j] = c
        BY <1>1, <1>4, <3>1, <4>1 DEF Types, Owning
      <4>. QED
        BY <1>2, <4>1, <4>2 DEF Stored
    <3>2. task'[Runner].at = "payload" => content'[task'[Runner].key] = "intact"
      BY <1>1, <2>1, IngressAssumption DEF Stored, Types, Tasks
    <3>. QED
      BY <1>2, <1>3, <1>7, <2>7, <3>1, <3>2 DEF Stored
  <2>. QED
    BY <1>2, <2>2, <2>3, <2>4, <2>6, <2>8
<1>. QED
  BY <1>6, <1>7 DEF ReleaseFrame, Forget

LEMMA ClearStep ==
    ASSUME IInv, NEW t \in Task, Clear(t)
    PROVE  IInv'
<1>. USE DEF IInv
<1>1. PICK r \in Record :
        /\ task[t].at = "clear" /\ task[t].record = r
        /\ records[r].occupied /\ records[r].header = None
  BY DEF Clear, Table
<1>2. /\ records' = [records EXCEPT ![r] = Cleared]
      /\ task' = [task EXCEPT ![t].at = "release"]
      /\ UNCHANGED <<arena, held, content>>
  BY <1>1 DEF Clear
<1>3. /\ ArenaInv' /\ Retained' = Retained
      /\ \A j, other : Holds(j, other) => Holds(j, other)'
  BY <1>2, ArenaUnchanged
<1>4. /\ task'[t].at = "release" /\ task'[t].key = task[t].key
      /\ \A u \in Task \ {t} : task'[u] = task[u]
  BY <1>2 DEF Types
<1>5. /\ ~ records'[r].occupied
      /\ \A q \in Record \ {r} : records'[q] = records[q]
  BY <1>2 DEF Types, Cleared
<1>6. Types'
  BY <1>2, <1>3 DEF Types, Cleared
<1>7. Tasks'
  BY <1>1, <1>2, <1>3, <1>4 DEF Tasks, Types, Storing, Owning
<1>8. Accounted'
  BY <1>1, <1>2, <1>3, <1>4 DEF Accounted, Owning
<1>9. Table'
  <2>1. ASSUME NEW q \in Record, records'[q].occupied
        PROVE  \/ records'[q].header \in held'
               \/ \E u \in Task : task'[u].at = "clear" /\ task'[u].record = q
    BY <1>1, <1>2, <1>4, <1>5, <2>1 DEF Table
  <2>2. ASSUME NEW p \in Record, NEW q \in Record, records'[p].occupied, records'[q].occupied,
               records'[p].header = records'[q].header, records'[q].header # None
        PROVE  p = q
    BY <1>5, <2>2 DEF Table
  <2>3. ASSUME NEW u \in Task, task'[u].at = "clear"
        PROVE  /\ task'[u].record \in Record
               /\ records'[task'[u].record].occupied /\ records'[task'[u].record].header = None
    BY <1>1, <1>4, <1>5, <2>3 DEF Table
  <2>4. \A u, v \in Task : task'[u].at = "clear" /\ task'[v].at = "clear"
                           /\ task'[u].record = task'[v].record => u = v
    BY <1>4 DEF Table
  <2>. QED
    BY <2>1, <2>2, <2>3, <2>4 DEF Table
<1>10. \A j \in Key : RecordOf(j)' = RecordOf(j)
  BY <1>1, <1>5, IngressAssumption DEF RecordOf
<1>11. Stored'
  <2>1. ASSUME NEW j \in held', NEW q \in RecordOf(j)', records'[q].validated
        PROVE  content'[j] = "intact"
    <3>1. j \in held /\ j \in Key /\ q \in RecordOf(j) /\ q \in Record /\ q # r
      BY <1>2, <1>5, <1>10, <2>1 DEF Types, RecordOf
    <3>. QED
      BY <1>2, <1>5, <2>1, <3>1 DEF Stored
  <2>2. \A j \in held' : j \in held /\ j \in Key /\ RecordOf(j)' = RecordOf(j)
    BY <1>2, <1>10 DEF Types
  <2>3. /\ task'[Runner].at = "remember" => task[Runner].at = "remember"
        /\ task'[Runner].at = "payload" => task[Runner].at = "payload"
        /\ task'[Runner].key = task[Runner].key
    BY <1>4, IngressAssumption
  <2>. QED
    BY <1>2, <1>3, <2>1, <2>2, <2>3 DEF Stored
<1>. QED
  BY <1>3, <1>6, <1>7, <1>8, <1>9, <1>11

LEMMA ReleaseRecordStep ==
    ASSUME IInv, NEW t \in Task, ReleaseRecord(t)
    PROVE  IInv'
<1>. USE DEF IInv
<1>1. PICK k \in Key : task[t].at = "release" /\ task[t].key = k /\ k \notin held
  BY DEF ReleaseRecord, Tasks, Owning
<1>2. Release(k) /\ task' = [task EXCEPT ![t] = Idle] /\ UNCHANGED <<records, held, content>>
  <2>1. Release(task[t].key) <=> Release(k)
    BY <1>1
  <2>. QED
    BY <2>1 DEF ReleaseRecord
<1>3. /\ ArenaInv' /\ k \in Retained /\ Retained' = Retained \ {k}
      /\ \A j, other : j # k /\ Holds(j, other) => Holds(j, other)'
  BY <1>2, ArenaRelease
<1>4. task'[t] = Idle /\ \A u \in Task \ {t} : task'[u] = task[u]
  BY <1>2 DEF Types
<1>5. \A u \in Task \ {t} : task[u].at \in Owning => task[u].key # k
  BY <1>1 DEF Tasks, Owning
<1>6. Types'
  BY <1>1, <1>2, <1>3 DEF Types, Idle
<1>7. Tasks'
  BY <1>1, <1>2, <1>3, <1>4, <1>5 DEF Tasks, Types, Storing, Owning, Idle
<1>8. Accounted'
  BY <1>1, <1>2, <1>3, <1>4 DEF Accounted, Owning
<1>9. Table'
  BY <1>1, <1>2, <1>4 DEF Table, Idle
<1>10. \A j \in Key : RecordOf(j)' = RecordOf(j)
  BY <1>2 DEF RecordOf
<1>11. Stored'
  <2>1. \A j \in held' : j \in held /\ j \in Key /\ j # k /\ RecordOf(j)' = RecordOf(j)
    BY <1>1, <1>2, <1>10 DEF Types
  <2>2. /\ task'[Runner].at = "remember" =>
             /\ task[Runner].at = "remember" /\ task'[Runner].key = task[Runner].key
             /\ task[Runner].key # k
        /\ task'[Runner].at = "payload" =>
             task[Runner].at = "payload" /\ task'[Runner].key = task[Runner].key
    BY <1>4, <1>5, IngressAssumption DEF Idle, Owning
  <2>. QED
    BY <1>2, <1>3, <2>1, <2>2 DEF Stored
<1>. QED
  BY <1>3, <1>6, <1>7, <1>8, <1>9, <1>11

LEMMA StutterStep == ASSUME IInv, UNCHANGED vars PROVE IInv'
<1>. USE DEF IInv, vars
<1>1. /\ ArenaInv' /\ Retained' = Retained
      /\ \A j, other : Holds(j, other) => Holds(j, other)'
  BY ArenaUnchanged
<1>2. \A j : RecordOf(j)' = RecordOf(j)
  BY DEF RecordOf
<1>3. Types' /\ Tasks' /\ Accounted' /\ Table'
  BY <1>1 DEF Types, Tasks, Accounted, Table
<1>4. Stored'
  BY <1>1, <1>2 DEF Stored
<1>. QED
  BY <1>1, <1>3, <1>4

LEMMA StepIInv == IInv /\ [Next]_vars => IInv'
<1>. SUFFICES ASSUME IInv, [Next]_vars PROVE IInv'
  OBVIOUS
<1>1. ASSUME NEW k \in Key, NEW c \in Content, Arrive(k, c) PROVE IInv'
  BY <1>1, ArriveStep
<1>2. ASSUME NEW k \in Key, Validate(k) PROVE IInv'
  BY <1>2, ValidateStep
<1>3. ASSUME NEW t \in Task, NEW k \in Key, ReleaseFrame(t, k) PROVE IInv'
  BY <1>3, ReleaseFrameStep
<1>4. CASE StoreFrame
  BY <1>4, StoreFrameStep
<1>5. CASE Remember
  BY <1>5, RememberStep
<1>6. ASSUME NEW t \in Task, Clear(t) PROVE IInv'
  BY <1>6, ClearStep
<1>7. ASSUME NEW t \in Task, ReleaseRecord(t) PROVE IInv'
  BY <1>7, ReleaseRecordStep
<1>8. CASE UNCHANGED vars
  BY <1>8, StutterStep
<1>. QED
  BY <1>1, <1>2, <1>3, <1>4, <1>5, <1>6, <1>7, <1>8 DEF Next

\* The inductive invariant of the ingress buffer holds in every reachable
\* state (storeFrame, getRaw and release of IngressBuffer over ByteArena).
THEOREM Inductive == Spec => []IInv
BY InitIInv, StepIInv, PTL DEF Spec

(***************************************************************************)
(* What the invariant says of the arena.                                   *)
(***************************************************************************)
LEMMA TypesOK == IInv => TypeOK
BY DEF IInv, ArenaInv, SpanInv, SpansType, Bounded, Types, TypeOK

LEMMA SpanTiling == SpanInv => Tiled
<1>. SUFFICES ASSUME SpanInv PROVE Tiled
  OBVIOUS
<1>1. \A s \in spans : /\ s.offset \in Nat /\ s.size \in Nat /\ s.size > 0
                       /\ s.offset + s.size <= BufferSize
  BY ArenaAssumption DEF SpanInv, SpansType, Within, Span, End
<1>2. ASSUME NEW b \in 0 .. BufferSize - 1
      PROVE  Cardinality({s \in spans : b \in Bound(s)}) = 1
  <2>1. PICK s \in spans : s.offset <= b /\ b < s.offset + s.size
    BY DEF SpanInv, Covering, End
  <2>2. b \in Bound(s)
    BY <1>1, <2>1, ArenaAssumption DEF Bound
  <2>3. ASSUME NEW r \in spans, b \in Bound(r)
        PROVE  r = s
    <3>1. r.offset <= b /\ b < r.offset + r.size
      BY <1>1, <2>3, ArenaAssumption DEF Bound
    <3>2. r = s \/ r.offset + r.size <= s.offset \/ s.offset + s.size <= r.offset
      BY DEF SpanInv, Disjoint, End
    <3>. QED
      BY <1>1, <2>1, <3>1, <3>2, ArenaAssumption
  <2>4. {r \in spans : b \in Bound(r)} = {s}
    BY <2>2, <2>3
  <2>. QED
    BY <2>4, FS_Singleton
<1>3. {s.offset : s \in {r \in spans : r.occupied}} = {offset[k] : k \in Retained}
  BY DEF SpanInv, Owned
<1>4. \A j, k \in Retained : offset[j] = offset[k] => j = k
  BY DEF SpanInv, Owned
<1>5. \A r, s \in spans : r.occupied \/ s.occupied \/ r.offset + r.size # s.offset
  BY DEF SpanInv, Apart, End
<1>. QED
  BY <1>1, <1>2, <1>3, <1>4, <1>5 DEF Tiled

\* An arena without records is one free span.
LEMMA EmptyArena ==
    ASSUME SpanInv, Retained = {}
    PROVE  spans = {WholeBuffer}
<1>1. \A s \in spans : /\ ~ s.occupied /\ s \in Span
                       /\ s.offset \in Nat /\ s.size \in Nat /\ s.size > 0
                       /\ s.offset + s.size <= BufferSize
  BY ArenaAssumption DEF SpanInv, SpansType, Within, Owned, Span, End
<1>2. PICK s \in spans : s.offset <= 0 /\ 0 < s.offset + s.size
  BY ArenaAssumption DEF SpanInv, Covering, End
<1>3. s.offset = 0
  BY <1>1, <1>2
<1>4. s.size = BufferSize
  <2>1. SUFFICES ASSUME s.size < BufferSize PROVE FALSE
    BY <1>1, <1>3, ArenaAssumption
  <2>2. s.size \in 0 .. BufferSize - 1
    BY <1>1, <2>1, ArenaAssumption
  <2>3. PICK r \in spans : r.offset <= s.size /\ s.size < r.offset + r.size
    BY <2>2 DEF SpanInv, Covering, End
  <2>4. r = s \/ r.offset + r.size <= s.offset \/ s.offset + s.size <= r.offset
    BY DEF SpanInv, Disjoint, End
  <2>5. r.offset = s.offset + s.size
    BY <1>1, <1>3, <2>3, <2>4
  <2>. QED
    BY <1>1, <2>5 DEF SpanInv, Apart, End
<1>5. s = WholeBuffer
  BY <1>1, <1>3, <1>4 DEF WholeBuffer, Span
<1>6. ASSUME NEW r \in spans PROVE r = s
  <2>1. r = s \/ r.offset + r.size <= s.offset \/ s.offset + s.size <= r.offset
    BY DEF SpanInv, Disjoint, End
  <2>. QED
    BY <1>1, <1>3, <1>4, <2>1, ArenaAssumption
<1>. QED
  BY <1>5, <1>6

LEMMA NothingLeft == IInv => Reclaimed
<1>. SUFFICES ASSUME IInv, held = {}, \A t \in Task : task[t] = Idle
              PROVE  spans = {WholeBuffer} /\ Unoccupied = Record
  BY DEF Reclaimed
<1>1. Retained = {}
  BY DEF IInv, Accounted, Owning, Idle
<1>2. spans = {WholeBuffer}
  BY <1>1, EmptyArena DEF IInv, ArenaInv
<1>3. \A r \in Record : ~ records[r].occupied
  BY DEF IInv, Table, Idle
<1>. QED
  BY <1>2, <1>3 DEF Unoccupied

(***************************************************************************)
(* What the invariant says of the reads.                                   *)
(***************************************************************************)

\* A frame that is held reads as it was received.
LEMMA HeldReads ==
    ASSUME IInv, NEW k \in held, NEW c \in Content, content[k] = c
    PROVE  /\ PayloadRead(k) = Payload(k, c)
           /\ RecordOf(k) # {} => Whole(k) = Frame(k, c)
           /\ RecordOf(k) = {} => c = "intact"
<1>1. /\ k \in Key /\ FrameSize(k) \in Nat \ {0} /\ PayloadSize[k] \in Nat \ {0}
      /\ Len(Frame(k, c)) = FrameSize(k) /\ Len(Payload(k, c)) = PayloadSize[k]
      /\ HeaderSize \in Nat
  BY Lengths, IngressAssumption DEF IInv, Types
<1>2. offset[k] \in Nat
  <2>1. k \in Retained
    BY DEF IInv, Types
  <2>. QED
    BY <2>1, ArenaAssumption DEF IInv, ArenaInv, SpanInv, SpansType, Span, Owned
<1>3. CASE RecordOf(k) # {}
  <2>1. \A i \in 1 .. FrameSize(k) : buffer[offset[k] + i - 1] = Frame(k, c)[i]
    <3>1. Holds(k, Frame(k, c))
      BY <1>3 DEF IInv, Stored
    <3>. QED
      BY <1>1, <3>1 DEF Holds
  <2>2. Whole(k) = Frame(k, c)
    BY <2>1 DEF Whole, Read, Frame
  <2>3. Start(k) = offset[k] + HeaderSize
    BY <1>3 DEF Start
  <2>4. ASSUME NEW i \in 1 .. PayloadSize[k]
        PROVE  buffer[Start(k) + i - 1] = Frame(k, c)[HeaderSize + i]
    <3>1. HeaderSize + i \in 1 .. FrameSize(k)
      BY <1>1 DEF FrameSize
    <3>2. Start(k) + i - 1 = offset[k] + (HeaderSize + i) - 1
      BY <1>1, <1>2, <2>3
    <3>. QED
      BY <2>1, <3>1, <3>2
  <2>5. PayloadRead(k) = Payload(k, c)
    BY <2>4 DEF PayloadRead, Read, Payload
  <2>. QED
    BY <1>3, <2>2, <2>5
<1>4. CASE RecordOf(k) = {}
  <2>1. /\ c = "intact"
        /\ \A i \in 1 .. PayloadSize[k] : buffer[offset[k] + i - 1] = Payload(k, c)[i]
    <3>1. c = "intact" /\ Holds(k, Payload(k, c))
      BY <1>4 DEF IInv, Stored
    <3>. QED
      BY <1>1, <3>1 DEF Holds
  <2>2. Start(k) = offset[k]
    BY <1>2, <1>4 DEF Start
  <2>3. PayloadRead(k) = Payload(k, c)
    BY <2>1, <2>2 DEF PayloadRead, Read, Payload
  <2>. QED
    BY <1>4, <2>1, <2>3
<1>. QED
  BY <1>3, <1>4

LEMMA ValidatedReads == IInv => AccessImpliesValidation
<1>. SUFFICES ASSUME IInv, NEW k \in held,
                     RecordOf(k) = {} \/ \E r \in RecordOf(k) : records[r].validated
              PROVE  PayloadRead(k) = Payload(k, "intact")
  BY DEF AccessImpliesValidation
<1>1. PICK c \in Content : content[k] = c
  BY DEF IInv, Types
<1>2. /\ PayloadRead(k) = Payload(k, c)
      /\ RecordOf(k) = {} => c = "intact"
  BY <1>1, HeldReads
<1>3. c = "intact"
  BY <1>1, <1>2 DEF IInv, Stored
<1>. QED
  BY <1>2, <1>3

\* The payload tells whether the frame was damaged.
LEMMA PayloadTells ==
    ASSUME NEW k \in Key, NEW c \in Content, NEW d \in Content, Payload(k, c) = Payload(k, d)
    PROVE  c = d
<1>. DEFINE i == HeaderSize + 1
<1>1. 1 \in 1 .. PayloadSize[k] /\ i \in 1 .. FrameSize(k)
  BY Lengths, IngressAssumption DEF FrameSize
<1>2. Frame(k, c)[i] = Frame(k, d)[i]
  BY <1>1, PayloadBytes
<1>3. ASSUME NEW e
      PROVE  Frame(k, e)[i].good = (e = "intact" \/ i # HeaderSize + 1)
  <2>1. Frame(k, e)[i] = [key |-> k, place |-> i, good |-> e = "intact" \/ i # HeaderSize + 1]
    BY <1>1, FrameBytes
  <2>2. [key |-> k, place |-> i, good |-> e = "intact" \/ i # HeaderSize + 1].good
          = (e = "intact" \/ i # HeaderSize + 1)
    OBVIOUS
  <2>. QED
    BY <2>1, <2>2
<1>4. c = "intact" <=> d = "intact"
  BY <1>2, <1>3
<1>. QED
  BY <1>4 DEF Content

Reads == \A k \in held : ReadsAs(k) = content[k] /\ content[k] \in Content /\ k \in Key

LEMMA ReadsAsReceived == IInv => Reads
<1>. SUFFICES ASSUME IInv, NEW k \in held
              PROVE  ReadsAs(k) = content[k] /\ content[k] \in Content /\ k \in Key
  BY DEF Reads
<1>1. k \in Key
  BY DEF IInv, Types
<1>2. PICK c \in Content : content[k] = c
  BY <1>1 DEF IInv, Types
<1>3. /\ PayloadRead(k) = Payload(k, c)
      /\ RecordOf(k) # {} => Whole(k) = Frame(k, c)
  BY <1>2, HeldReads
<1>4. \A d \in Content : PayloadRead(k) = Payload(k, d) => d = c
  BY <1>1, <1>3, PayloadTells
<1>5. ReadsAs(k) = CHOOSE d \in Content : PayloadRead(k) = Payload(k, d)
  BY <1>3 DEF ReadsAs
<1>6. (CHOOSE d \in Content : PayloadRead(k) = Payload(k, d)) = c
  BY <1>3, <1>4
<1>. QED
  BY <1>1, <1>2, <1>5, <1>6

(***************************************************************************)
(* The frame store.                                                        *)
(***************************************************************************)

\* A step hands out one frame, takes one back, or does neither; what the
\* other frames were received as does not change.
LEMMA HeldSteps ==
    ASSUME IInv, [Next]_vars
    PROVE  /\ \A j \in held \cap held' : content'[j] = content[j]
           /\ \/ held' = held
              \/ \E k \in held : held' = held \ {k}
              \/ \E k \in Key \ held : held' = held \cup {k}
<1>. USE DEF IInv
<1>1. ASSUME NEW k \in Key, NEW c \in Content, Arrive(k, c)
      PROVE  held' = held /\ \A j \in held : content'[j] = content[j]
  BY <1>1 DEF Arrive, Types
<1>2. ASSUME NEW t \in Task, NEW k \in Key, ReleaseFrame(t, k)
      PROVE  k \in held /\ held' = held \ {k} /\ \A j \in held' : content'[j] = content[j]
  BY <1>2 DEF ReleaseFrame, Types
<1>3. CASE StoreFrame
  <2>1. PICK k \in Key : k = task[Runner].key /\ k \notin Retained /\ k \notin held
    BY <1>3, IngressAssumption DEF StoreFrame, Tasks, Types
  <2>2. \A j \in held : content'[j] = content[j]
    BY <1>3, <2>1 DEF StoreFrame, Types
  <2>3. held' = held \/ held' = held \cup {k}
    BY <1>3, <2>1 DEF StoreFrame
  <2>. QED
    BY <2>1, <2>2, <2>3
<1>4. CASE Remember
  <2>1. PICK k \in Key : k = task[Runner].key /\ k \notin held
    BY <1>4, IngressAssumption DEF Remember, Tasks, Owning
  <2>. QED
    BY <1>4, <2>1 DEF Remember
<1>5. CASE \/ \E k \in Key : Validate(k)
           \/ \E t \in Task : Clear(t) \/ ReleaseRecord(t)
           \/ UNCHANGED vars
  BY <1>5 DEF Validate, Clear, ReleaseRecord, vars
<1>. QED
  BY <1>1, <1>2, <1>3, <1>4, <1>5 DEF Next

LEMMA InitKept == Init => Kept!Init
<1>. SUFFICES ASSUME Init PROVE [k \in held |-> ReadsAs(k)] = [k \in {} |-> CHOOSE c \in Content : TRUE]
  BY DEF Kept!Init
<1>. QED
  BY DEF Init

LEMMA StepKept ==
    ASSUME IInv, [Next]_vars, Reads, Reads'
    PROVE  Kept!Next \/ UNCHANGED [k \in held |-> ReadsAs(k)]
<1>. DEFINE kept == [k \in held |-> ReadsAs(k)]
<1>1. kept = [k \in held |-> content[k]] /\ DOMAIN kept = held
  BY DEF Reads
<1>2. kept' = [k \in held' |-> content'[k]] /\ DOMAIN kept' = held'
  BY DEF Reads
<1>3. \A j \in held \cap held' : content'[j] = content[j]
  BY HeldSteps
<1>. HIDE DEF kept
<1>4. CASE held' = held
  BY <1>1, <1>2, <1>3, <1>4 DEF kept
<1>5. ASSUME NEW k \in held, held' = held \ {k}
      PROVE  Kept!Next
  <2>1. k \in DOMAIN kept /\ kept' = [j \in DOMAIN kept \ {k} |-> kept[j]]
    BY <1>1, <1>2, <1>3, <1>5
  <2>2. Kept!GiveBack(k)
    BY <2>1 DEF Kept!GiveBack, kept
  <2>3. k \in Key
    BY DEF Reads
  <2>. QED
    BY <2>2, <2>3 DEF Kept!Next
<1>6. ASSUME NEW k \in Key \ held, held' = held \cup {k}
      PROVE  Kept!Next
  <2>1. PICK c \in Content : content'[k] = c
    BY <1>6 DEF Reads
  <2>2. /\ k \notin DOMAIN kept
        /\ kept' = [j \in DOMAIN kept \cup {k} |-> IF j = k THEN c ELSE kept[j]]
    BY <1>1, <1>2, <1>3, <1>6, <2>1
  <2>3. Kept!Accept(k, c)
    BY <2>2 DEF Kept!Accept, kept
  <2>. QED
    BY <2>1, <2>3 DEF Kept!Next
<1>. QED
  BY <1>4, <1>5, <1>6, HeldSteps DEF kept

(***************************************************************************)
(* The theorems.                                                           *)
(***************************************************************************)

\* The span table never has more than spanCount entries, the slots no more
\* than slotCount, and a frame that is held is retained.
THEOREM TypeCorrect == Spec => []TypeOK
BY Inductive, TypesOK, PTL

\* Storing with a split and releasing with a merge (insert, _releaseSpan)
\* keep the buffer cut into spans without gap or overlap, one of them for
\* each retained frame, and no two free ones touch, whichever order frames
\* are released in.
THEOREM ArenaTiled == Spec => []Tiled
<1>1. IInv => Tiled
  BY SpanTiling DEF IInv, ArenaInv
<1>. QED
  BY <1>1, Inductive, PTL

\* Once every frame has been given back the arena is one free span and the
\* table of serialized records is empty, however the links' tasks and the
\* runner interleaved.
THEOREM NothingLeaks == Spec => []Reclaimed
BY Inductive, NothingLeft, PTL

\* No damaged payload is read without a failed check: the flag of a record
\* is never that of an earlier frame (getRaw, _forgetSerialized).
THEOREM OnlyValidatedIsRead == Spec => []AccessImpliesValidation
BY Inductive, ValidatedReads, PTL

\* The ingress buffer implements the frame store: a frame that was accepted
\* reads as it was received until it is given back.
THEOREM Refinement == Spec => ImplementsFrameStore
<1>1. IInv => Reads
  BY ReadsAsReceived
<1>2. IInv /\ Reads /\ Reads' /\ [Next]_vars => [Kept!Next]_([k \in held |-> ReadsAs(k)])
  BY StepKept
<1>. QED
  BY <1>1, <1>2, InitKept, Inductive, PTL DEF Spec, ImplementsFrameStore, Kept!Spec
=============================================================================
