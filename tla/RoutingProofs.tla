--------------------------- MODULE RoutingProofs ---------------------------
(***************************************************************************)
(* Routing in any tree of nodes, for any topics, subscriptions, faults and *)
(* reboots: nothing is delivered twice, and what is published while the    *)
(* routes are in place reaches all who listen.                             *)
(***************************************************************************)
EXTENDS Routing, SequenceTheorems, FiniteSetTheorems, TLAPS

(***************************************************************************)
(* The tree.                                                               *)
(***************************************************************************)
LEMMA Neighbours ==
    ASSUME NEW n \in Node, NEW m \in Node
    PROVE  /\ m \in Neighbour(n) <=> n \in Neighbour(m)
           /\ m \in Neighbour(n) <=> <<n, m>> \in Hop
           /\ n \notin Neighbour(n)
<1>1. {n, m} = {m, n} /\ <<n, m>>[1] = n /\ <<n, m>>[2] = m
  OBVIOUS
<1>2. {n, n} \notin Link
  <2>1. Cardinality({n}) = 1 /\ {n, n} = {n}
    BY FS_Singleton
  <2>2. \A l \in Link : Cardinality(l) = 2
    BY RoutingAssumption
  <2>. QED
    BY <2>1, <2>2
<1>. QED
  BY <1>1, <1>2 DEF Neighbour, Hop

LEMMA Hops ==
    ASSUME NEW e \in Hop
    PROVE  /\ e[1] \in Node /\ e[2] \in Node /\ e = <<e[1], e[2]>> /\ e[1] # e[2]
           /\ e[2] \in Neighbour(e[1]) /\ e[1] \in Neighbour(e[2])
<1>1. e \in Node \X Node /\ {e[1], e[2]} \in Link
  BY DEF Hop
<1>2. e[1] \in Node /\ e[2] \in Node /\ e = <<e[1], e[2]>>
  BY <1>1
<1>. QED
  BY <1>2, Neighbours

\* What is behind a neighbour: it, and whatever is linked to it but the node.
LEMMA BehindIs ==
    ASSUME NEW n \in Node, NEW m \in Neighbour(n)
    PROVE  /\ Behind[<<n, m>>] \subseteq Node /\ m \in Behind[<<n, m>>] /\ n \notin Behind[<<n, m>>]
           /\ \A x \in Behind[<<n, m>>] : Neighbour(x) \ {n} \subseteq Behind[<<n, m>>]
           /\ \A T \in SUBSET Node :
                 m \in T /\ (\A x \in T : Neighbour(x) \ {n} \subseteq T) => Behind[<<n, m>>] \subseteq T
<1> DEFINE Closed(S) == m \in S /\ \A x \in S : Neighbour(x) \ {n} \subseteq S
<1>1. m \in Node /\ <<n, m>> \in Hop /\ n # m
  BY Neighbours DEF Neighbour
<1>2. Behind[<<n, m>>] = {x \in Node : \A S \in SUBSET Node : Closed(S) => x \in S}
  BY <1>1 DEF Behind
<1> HIDE DEF Closed
<1>3. Behind[<<n, m>>] \subseteq Node
  BY <1>2
<1>4. \A T \in SUBSET Node : Closed(T) => Behind[<<n, m>>] \subseteq T
  BY <1>2
<1>5. m \in Behind[<<n, m>>]
  BY <1>1, <1>2 DEF Closed
<1>6. ASSUME NEW x \in Behind[<<n, m>>], NEW y \in Neighbour(x) \ {n}
      PROVE  y \in Behind[<<n, m>>]
  <2>1. y \in Node
    BY DEF Neighbour
  <2>2. \A S \in SUBSET Node : Closed(S) => y \in S
    BY <1>2, <1>6 DEF Closed
  <2>. QED
    BY <1>2, <2>1, <2>2
<1>7. n \notin Behind[<<n, m>>]
  <2>1. Closed(Node \ {n})
    BY <1>1 DEF Closed, Neighbour
  <2>. QED
    BY <1>4, <2>1
<1>. QED
  BY <1>3, <1>4, <1>5, <1>6, <1>7 DEF Closed

\* Branches of one node are apart.
LEMMA Apart ==
    ASSUME NEW n \in Node, NEW x \in Neighbour(n), NEW y \in Neighbour(n), x # y
    PROVE  Behind[<<n, x>>] \cap Behind[<<n, y>>] = {}
BY RoutingAssumption DEF IsTree

\* Going on from a neighbour leaves fewer nodes ahead: not the neighbour.
LEMMA Onward ==
    ASSUME NEW n \in Node, NEW m \in Neighbour(n), NEW x \in Neighbour(m), x # n
    PROVE  Behind[<<m, x>>] \subseteq Behind[<<n, m>>] \ {m}
<1> DEFINE T == Behind[<<n, m>>] \cap Behind[<<m, x>>]
<1>1. m \in Node /\ x \in Node /\ n \in Neighbour(m)
  BY Neighbours DEF Neighbour
<1>2. n \notin Behind[<<m, x>>]
  <2>1. n \in Behind[<<m, n>>]
    BY <1>1, BehindIs
  <2>. QED
    BY <1>1, <2>1, Apart
<1>3. m \notin Behind[<<m, x>>]
  BY <1>1, BehindIs
<1>4. x \in T
  BY <1>1, BehindIs
<1>5. ASSUME NEW y \in T, NEW z \in Neighbour(y) \ {m}
      PROVE  z \in T
  <2>1. z \in Behind[<<m, x>>]
    BY <1>1, <1>5, BehindIs
  <2>2. z # n
    BY <1>2, <2>1
  <2>3. z \in Behind[<<n, m>>]
    BY <1>5, <2>2, BehindIs
  <2>. QED
    BY <2>1, <2>3
<1>6. T \in SUBSET Node
  BY BehindIs
<1> HIDE DEF T
<1>7. Behind[<<m, x>>] \subseteq T
  BY <1>1, <1>4, <1>5, <1>6, BehindIs
<1>. QED
  BY <1>3, <1>7 DEF T

\* ... and leaves out none but it.
LEMMA Onwards ==
    ASSUME NEW n \in Node, NEW m \in Neighbour(n), NEW z \in Behind[<<n, m>>], z # m
    PROVE  \E x \in Neighbour(m) : x # n /\ z \in Behind[<<m, x>>]
<1> DEFINE T == {m} \cup UNION {Behind[<<m, x>>] : x \in Neighbour(m) \ {n}}
<1>1. m \in Node
  BY DEF Neighbour
<1>2. ASSUME NEW y \in T, NEW w \in Neighbour(y) \ {n}
      PROVE  w \in T
  <2>1. CASE y = m
    <3>1. w \in Behind[<<m, w>>]
      BY <1>1, <2>1, BehindIs
    <3>. QED
      BY <2>1, <3>1
  <2>2. CASE y # m
    <3>1. PICK x \in Neighbour(m) \ {n} : y \in Behind[<<m, x>>]
      BY <2>2
    <3>2. w = m \/ w \in Behind[<<m, x>>]
      BY <1>1, <3>1, BehindIs
    <3>. QED
      BY <3>1, <3>2
  <2>. QED
    BY <2>1, <2>2
<1>3. T \in SUBSET Node
  <2>1. \A x \in Neighbour(m) : Behind[<<m, x>>] \subseteq Node
    BY <1>1, BehindIs
  <2>. QED
    BY <1>1, <2>1
<1>4. m \in T
  OBVIOUS
<1> HIDE DEF T
<1>5. Behind[<<n, m>>] \subseteq T
  BY <1>2, <1>3, <1>4, BehindIs
<1>. QED
  BY <1>5 DEF T

\* Every other node is behind a neighbour.
LEMMA Somewhere ==
    ASSUME NEW n \in Node, NEW z \in Node, z # n
    PROVE  \E x \in Neighbour(n) : z \in Behind[<<n, x>>]
BY RoutingAssumption DEF IsTree

(***************************************************************************)
(* Frames in a queue or under way.                                         *)
(***************************************************************************)
Has(s, f) == \E i \in DOMAIN s : s[i] = f
Carries(s, id) == \E i \in DOMAIN s : s[i].id = id
Only(s, id, f) == \A i \in DOMAIN s : s[i].id = id => s[i] = f
Single(s, id) == \A i, j \in DOMAIN s : s[i].id = id /\ s[j].id = id => i = j

LEMMA Transit ==
    ASSUME NEW f
    PROVE  f \in InTransit <=> (\E n \in Node : Has(queue[n], f)) \/ (\E e \in Hop : Has(wire[e], f))
<1>1. \A s : f \in ToSet(s) <=> Has(s, f)
  BY DEF ToSet, Has
<1>. QED
  BY <1>1 DEF InTransit

LEMMA AppendIs ==
    ASSUME NEW s \in Seq(Frame), NEW f \in Frame
    PROVE  /\ Append(s, f) \in Seq(Frame)
           /\ \A id : Carries(Append(s, f), id) <=> Carries(s, id) \/ f.id = id
           /\ \A id : Single(s, id) /\ (f.id = id => ~Carries(s, id)) => Single(Append(s, f), id)
           /\ \A g : Has(Append(s, f), g) <=> Has(s, g) \/ f = g
           /\ \A id, g : Only(Append(s, f), id, g) <=> Only(s, id, g) /\ (f.id = id => f = g)
<1> DEFINE t == Append(s, f)
<1>1. /\ t \in Seq(Frame) /\ DOMAIN s = 1 .. Len(s) /\ DOMAIN t = 1 .. Len(s) + 1
      /\ Len(s) \in Nat /\ t[Len(s) + 1] = f
      /\ \A i \in 1 .. Len(s) : t[i] = s[i]
  OBVIOUS
<1> HIDE DEF t
<1>2. DOMAIN t = DOMAIN s \cup {Len(s) + 1}
  BY <1>1
<1>3. \A i \in DOMAIN s : t[i] = s[i]
  BY <1>1
<1>. QED
  BY <1>1, <1>2, <1>3 DEF Carries, Single, Has, Only, t

LEMMA TailIs ==
    ASSUME NEW s \in Seq(Frame), s # <<>>
    PROVE  /\ Tail(s) \in Seq(Frame) /\ Head(s) \in Frame /\ Has(s, Head(s))
           /\ \A id : Carries(s, id) <=> Head(s).id = id \/ Carries(Tail(s), id)
           /\ \A id : Single(s, id) => Single(Tail(s), id)
           /\ \A id : Single(s, id) /\ Head(s).id = id => ~Carries(Tail(s), id)
           /\ \A g : Has(Tail(s), g) => Has(s, g)
           /\ \A id, g : Only(s, id, g) => Only(Tail(s), id, g) /\ (Head(s).id = id => Head(s) = g)
<1> DEFINE t == Tail(s)
<1>1. /\ t \in Seq(Frame) /\ DOMAIN s = 1 .. Len(s) /\ DOMAIN t = 1 .. Len(s) - 1
      /\ Len(s) \in Nat /\ Len(s) > 0 /\ Head(s) = s[1] /\ s[1] \in Frame
      /\ \A i \in 1 .. Len(s) - 1 : t[i] = s[i + 1]
  BY HeadTailProperties
<1>2. \A i \in DOMAIN t : i + 1 \in DOMAIN s /\ t[i] = s[i + 1] /\ i + 1 # 1
  BY <1>1
<1>3. \A i \in DOMAIN s : i # 1 => i - 1 \in DOMAIN t /\ t[i - 1] = s[i]
  BY <1>1
<1>4. 1 \in DOMAIN s
  BY <1>1
<1>5. \A i, j \in DOMAIN t : i + 1 = j + 1 => i = j
  BY <1>1
<1> HIDE DEF t
<1>6. \A id : Carries(s, id) <=> s[1].id = id \/ Carries(t, id)
  BY <1>2, <1>3, <1>4 DEF Carries
<1>7. \A id : Single(s, id) => Single(t, id)
  BY <1>2, <1>5 DEF Single
<1>8. \A id : Single(s, id) /\ s[1].id = id => ~Carries(t, id)
  BY <1>2, <1>4 DEF Single, Carries
<1>9. \A g : Has(t, g) => Has(s, g)
  BY <1>2 DEF Has
<1>10. \A id, g : Only(s, id, g) => Only(t, id, g) /\ (s[1].id = id => s[1] = g)
  BY <1>2, <1>4 DEF Only
<1>. QED
  BY <1>1, <1>4, <1>6, <1>7, <1>8, <1>9, <1>10 DEF Has, t

LEMMA PrefixIs ==
    ASSUME NEW s \in Seq(Frame), NEW k \in Nat, k < Len(s)
    PROVE  LET t == SubSeq(s, 1, k)
           IN  /\ t \in Seq(Frame)
               /\ \A id : Carries(t, id) => Carries(s, id)
               /\ \A id : Single(s, id) => Single(t, id)
<1> DEFINE t == SubSeq(s, 1, k)
<1>1. /\ t \in Seq(Frame) /\ DOMAIN s = 1 .. Len(s) /\ DOMAIN t = 1 .. k /\ Len(s) \in Nat
      /\ \A i \in 1 .. k : t[i] = s[i]
  OBVIOUS
<1> HIDE DEF t
<1>2. \A i \in DOMAIN t : i \in DOMAIN s /\ t[i] = s[i]
  BY <1>1
<1>. QED
  BY <1>1, <1>2 DEF Carries, Single, t

LEMMA Frames ==
    ASSUME NEW f \in Frame
    PROVE  /\ f.topics \subseteq Topic /\ f.kind \in {"register", "unregister", "data"}
           /\ Control(f) => f.id = 0
           /\ f.kind = "unregister" => \E t \in Topic : f = Unregister({t}) /\ f.topics = {t}
           /\ ~Control(f) => f.id \in Message /\ \E t \in Topic : f = Data(t, f.id) /\ f.topics = {t}
<1> DEFINE D == {Data(t, id) : t \in Topic, id \in Message}
           R == {Register(s) : s \in (SUBSET Topic) \ {{}}}
           U == {Unregister({t}) : t \in Topic}
<1>1. CASE f \in D
  <2>1. PICK t \in Topic, id \in Message : f = Data(t, id)
    BY <1>1
  <2>2. f.kind = "data" /\ f.topics = {t} /\ f.id = id
    BY <2>1 DEF Data
  <2>. QED
    BY <2>1, <2>2 DEF Control
<1>2. CASE f \in R
  <2>1. PICK S \in (SUBSET Topic) \ {{}} : f = Register(S)
    BY <1>2
  <2>2. f.kind = "register" /\ f.topics = S /\ f.id = 0
    BY <2>1 DEF Register
  <2>3. S \subseteq Topic
    OBVIOUS
  <2>. QED
    BY <2>2, <2>3 DEF Control
<1>3. CASE f \in U
  <2>1. PICK t \in Topic : f = Unregister({t})
    BY <1>3
  <2>2. f.kind = "unregister" /\ f.topics = {t} /\ f.id = 0
    BY <2>1 DEF Unregister
  <2>. QED
    BY <2>1, <2>2 DEF Control
<1>4. f \in (R \cup U) \cup D
  BY DEF Frame, Event
<1> HIDE DEF R, U, D
<1>. QED
  BY <1>1, <1>2, <1>3, <1>4

LEMMA NotZero == 0 \notin Message
BY DEF Message

(***************************************************************************)
(* The inductive invariant.                                                *)
(***************************************************************************)

\* A call under way has a topic and a slot, and the listener an unsubscription
\* is to remove is still there.
Calls ==
    \A n \in Node :
        /\ app[n].at # "idle" => app[n].topic \in Topic /\ app[n].slot \in Slot
        /\ app[n].at = "unregister" => listeners[n][app[n].topic] > 0

Replays == \A n \in Node : runner[n].at = "replay" => runner[n].mask # {}

\* Each copy of a message has nodes ahead that no other copy has and that have
\* not got it: all while it is queued, those behind the hop when under way.
Copies(id) ==
    /\ \A n \in Node : Single(queue[n], id)
    /\ \A e \in Hop : Single(wire[e], id)
    /\ \A n, m \in Node : Carries(queue[n], id) /\ Carries(queue[m], id) => n = m
    /\ \A n \in Node : Carries(queue[n], id) =>
          /\ \A e \in Hop : ~Carries(wire[e], id)
          /\ \A x \in Node : delivered[id][x] = 0
    /\ \A e, f \in Hop : e # f /\ Carries(wire[e], id) /\ Carries(wire[f], id)
                            => Behind[e] \cap Behind[f] = {}
    /\ \A e \in Hop : Carries(wire[e], id) => \A x \in Behind[e] : delivered[id][x] = 0
    /\ \A x \in Node : delivered[id][x] <= 1
    /\ id > published =>
          /\ \A n \in Node : ~Carries(queue[n], id)
          /\ \A e \in Hop : ~Carries(wire[e], id)
          /\ \A x \in Node : delivered[id][x] = 0

\* While a message is owed to a node it has been delivered there or a copy is
\* on its way, and every hop to the node has a route that nothing takes away.
OwedVia(id, t) ==
    /\ \A l \in Link : ready[l]
    /\ \A n \in Node : app[n].at # "unregister" /\ ~Has(queue[n], Unregister({t}))
                       /\ ~Carries(queue[n], id)
    /\ \A e \in Hop :
          /\ ~Has(wire[e], Unregister({t}))
          /\ Only(wire[e], id, Data(t, id))
          /\ Behind[e] \cap owed[id] # {} => t \in route[e]
    /\ \A x \in owed[id] :
          /\ x \in Node /\ Listening(x, t)
          /\ delivered[id][x] = 1 \/ \E e \in Hop : x \in Behind[e] /\ Carries(wire[e], id)

Owes(id) == owed[id] # {} => \E t \in Topic : OwedVia(id, t)

IInv ==
    /\ TypeOK /\ Calls /\ Replays
    /\ \A id \in Message : Copies(id) /\ Owes(id)

(***************************************************************************)
(* Types.                                                                  *)
(***************************************************************************)
LEMMA InitTypes == Init => TypeOK /\ Calls /\ Replays
<1> SUFFICES ASSUME Init
             PROVE  TypeOK /\ Calls /\ Replays
  OBVIOUS
<1>1. subscribed \in [Node -> SUBSET Topic]
  BY DEF Init
<1>2. ASSUME NEW n \in Node
      PROVE  LET s == SetToSeq(subscribed[n])
             IN  s \in [1 .. Cardinality(subscribed[n]) -> subscribed[n]]
                 /\ Cardinality(subscribed[n]) \in Nat
  <2> DEFINE S == subscribed[n]
  <2>1. IsFiniteSet(S)
    <3>1. S \subseteq Topic /\ IsFiniteSet(Topic)
      BY <1>1, RoutingAssumption
    <3>. QED
      BY <3>1, FS_Subset
  <2> HIDE DEF S
  <2>2. Cardinality(S) \in Nat /\ ExistsBijection(1 .. Cardinality(S), S)
    BY <2>1, FS_CardinalityType
  <2>3. \E f \in [1 .. Cardinality(S) -> S] : IsInjective(f)
    BY <2>2 DEF ExistsBijection, Bijection, Injection
  <2>4. SetToSeq(S) \in [1 .. Cardinality(S) -> S]
    BY <2>3 DEF SetToSeq
  <2>. QED
    BY <2>2, <2>4 DEF S
<1>3. slots \in [Node -> [Slot -> [topic : Topic \cup {None}, count : Nat]]]
  <2>1. ASSUME NEW n \in Node, NEW k \in Slot
        PROVE  LET s == SetToSeq(subscribed[n])
               IN  k <= Len(s) => s[k] \in Topic
    <3> DEFINE s == SetToSeq(subscribed[n])
               N == Cardinality(subscribed[n])
    <3>1. s \in [1 .. N -> subscribed[n]] /\ N \in Nat
      BY <1>2
    <3> HIDE DEF s, N
    <3>2. Len(s) = N
      BY <3>1
    <3>3. k \in Nat \ {0}
      BY RoutingAssumption DEF Slot
    <3>. QED
      BY <1>1, <3>1, <3>2, <3>3 DEF s
  <2>2. ASSUME NEW n \in Node
        PROVE  Len(SetToSeq(subscribed[n])) \in Nat
    BY <1>2
  <2>3. Slot \subseteq Nat
    BY RoutingAssumption DEF Slot
  <2> DEFINE s(n) == SetToSeq(subscribed[n])
  <2>4. slots = [n \in Node |-> [k \in Slot |->
                   IF k > Len(s(n)) THEN Unused ELSE [topic |-> s(n)[k], count |-> 1]]]
    BY DEF Init
  <2>5. \A n \in Node, k \in Slot : k > Len(s(n)) \/ s(n)[k] \in Topic
    BY <2>1, <2>2, <2>3
  <2> HIDE DEF s
  <2>. QED
    BY <2>4, <2>5 DEF Unused
<1>4. /\ listeners \in [Node -> [Topic -> Nat]]
      /\ queue \in [Node -> Seq(Frame)] /\ wire \in [Hop -> Seq(Frame)]
      /\ pending \in [Node -> BOOLEAN]
      /\ delivered \in [Message -> [Node -> Nat]] /\ owed \in [Message -> SUBSET Node]
  BY DEF Init
<1>5. known \in [Hop -> BOOLEAN] /\ ready \in [Link -> BOOLEAN]
  <2>1. \A S : (\A e \in Hop : ({e[1], e[2]} \in S) \in BOOLEAN) /\ \A l \in Link : (l \in S) \in BOOLEAN
    OBVIOUS
  <2>. QED
    BY <2>1 DEF Init
<1>6. /\ app \in [Node -> [at : {"idle", "claimed", "counted", "register", "unregister"},
                         topic : Topic \cup {None}, slot : Slot \cup {0}]]
      /\ runner \in [Node -> [at : {"idle", "replay", "blocked"}, mask : SUBSET Topic]]
  <2>1. /\ Idle.at = "idle" /\ Idle.topic = None /\ Idle.slot = 0
    BY DEF Idle
  <2>. QED
    BY DEF Init, Idle, Resting
<1>7. route \in [Hop -> SUBSET Topic]
  <2>1. \A e \in Hop : Behind[e] \subseteq Node
    BY DEF Behind
  <2>. QED
    BY <1>1, <2>1 DEF Init
<1>8. changes \in 0 .. MaxChanges /\ published \in 0 .. MaxPublishes
  BY RoutingAssumption DEF Init
<1>9. Calls /\ Replays
  BY DEF Init, Calls, Replays, Idle, Resting
<1>. QED
  BY <1>1, <1>3, <1>4, <1>5, <1>6, <1>7, <1>8, <1>9 DEF TypeOK

LEMMA FanTypes ==
    ASSUME TypeOK, NEW n \in Node, NEW from \in SUBSET Neighbour(n), NEW f \in Frame,
           \A m \in from : wire[<<m, n>>] # <<>>
    PROVE  FannedOut(n, from, f) \in [Hop -> Seq(Frame)]
<1>1. ASSUME NEW e \in Hop
      PROVE  /\ wire[e] \in Seq(Frame) /\ Append(wire[e], f) \in Seq(Frame)
             /\ e[2] = n /\ e[1] \in from => Tail(wire[e]) \in Seq(Frame)
  <2>1. wire[e] \in Seq(Frame)
    BY DEF TypeOK
  <2>2. e[2] = n /\ e[1] \in from => wire[e] # <<>>
    BY Hops
  <2>. QED
    BY <2>1, <2>2, AppendIs, TailIs
<1>. QED
  BY <1>1 DEF FannedOut

\* A link that goes down keeps a prefix of what was under way.
Cut(l, kept) ==
    wire' = [e \in Hop |-> IF e \in DOMAIN kept /\ kept[e] < Len(wire[e])
                           THEN SubSeq(wire[e], 1, kept[e]) ELSE wire[e]]

LEMMA CutIs ==
    ASSUME TypeOK, NEW l, NEW kept \in [{e \in Hop : {e[1], e[2]} = l} -> 0 .. QueueDepth],
           Cut(l, kept)
    PROVE  /\ wire' \in [Hop -> Seq(Frame)]
           /\ \A e \in Hop, id \in Message :
                 /\ Carries(wire'[e], id) => Carries(wire[e], id)
                 /\ Single(wire[e], id) => Single(wire'[e], id)
<1>1. ASSUME NEW e \in Hop
      PROVE  /\ wire'[e] \in Seq(Frame)
             /\ \A id \in Message :
                   /\ Carries(wire'[e], id) => Carries(wire[e], id)
                   /\ Single(wire[e], id) => Single(wire'[e], id)
  <2>1. wire[e] \in Seq(Frame)
    BY DEF TypeOK
  <2>2. CASE e \in DOMAIN kept /\ kept[e] < Len(wire[e])
    <3>1. kept[e] \in Nat
      BY <2>2, RoutingAssumption
    <3>2. wire'[e] = SubSeq(wire[e], 1, kept[e])
      BY <2>2 DEF Cut
    <3>. QED
      BY <2>1, <2>2, <3>1, <3>2, PrefixIs
  <2>3. CASE ~(e \in DOMAIN kept /\ kept[e] < Len(wire[e]))
    <3>1. wire'[e] = wire[e]
      BY <2>3 DEF Cut
    <3>. QED
      BY <2>1, <3>1
  <2>. QED
    BY <2>2, <2>3
<1>2. wire' \in [Hop -> Seq(Frame)]
  <2>1. \A e \in Hop : wire'[e] \in Seq(Frame)
    BY <1>1
  <2>2. wire' = [e \in Hop |-> wire'[e]]
    BY DEF Cut
  <2>. QED
    BY <2>1, <2>2
<1>. QED
  BY <1>1, <1>2

LEMMA DeliverTypes ==
    ASSUME TypeOK, NEW n \in Node, NEW from, NEW f \in Frame, Deliver(n, from, f)
    PROVE  delivered' \in [Message -> [Node -> Nat]]
<1>1. f.kind = "data" => f.id \in Message
  BY Frames DEF Control
<1>. QED
  BY <1>1 DEF Deliver, TypeOK

LEMMA ReplayTypes ==
    ASSUME TypeOK, Replays, NEW n \in Node, StartReplay(n)
    PROVE  /\ runner' \in [Node -> [at : {"idle", "replay", "blocked"}, mask : SUBSET Topic]]
           /\ \A m \in Node : runner'[m].at = "replay" => runner'[m].mask # {}
<1>1. Replayable(n) \subseteq Topic
  <2>1. \A k \in Slot : slots[n][k].topic \in Topic \cup {None}
    BY DEF TypeOK
  <2>. QED
    BY <2>1 DEF Replayable
<1> DEFINE R == IF Replayable(n) = {} THEN Resting ELSE [at |-> "replay", mask |-> Replayable(n)]
<1>2. /\ R \in [at : {"idle", "replay", "blocked"}, mask : SUBSET Topic]
      /\ R.at = "replay" => R.mask # {}
  BY <1>1 DEF Resting
<1>3. runner' = [runner EXCEPT ![n] = R]
  BY DEF StartReplay
<1> HIDE DEF R
<1>. QED
  BY <1>2, <1>3 DEF TypeOK, Replays

LEMMA SlotTypes ==
    ASSUME TypeOK, NEW n \in Node, NEW k \in Slot, NEW c \in Nat, NEW t \in Topic
    PROVE  /\ [slots EXCEPT ![n][k].count = c] \in [Node -> [Slot -> [topic : Topic \cup {None}, count : Nat]]]
           /\ [slots EXCEPT ![n][k].topic = t] \in [Node -> [Slot -> [topic : Topic \cup {None}, count : Nat]]]
<1> DEFINE Entry == [topic : Topic \cup {None}, count : Nat]
           counted == [slots[n][k] EXCEPT !.count = c]
           named == [slots[n][k] EXCEPT !.topic = t]
<1>1. slots \in [Node -> [Slot -> Entry]]
  BY DEF TypeOK
<1>2. counted \in Entry /\ named \in Entry
  <2>1. slots[n][k] \in Entry
    BY <1>1
  <2>. QED
    BY <2>1
<1> HIDE DEF Entry, counted, named
<1>3. /\ [slots EXCEPT ![n] = [slots[n] EXCEPT ![k] = counted]] \in [Node -> [Slot -> Entry]]
      /\ [slots EXCEPT ![n] = [slots[n] EXCEPT ![k] = named]] \in [Node -> [Slot -> Entry]]
  BY <1>1, <1>2
<1>. QED
  BY <1>3 DEF Entry, counted, named

LEMMA EventTypes ==
    /\ \A t \in Topic : Register({t}) \in Frame /\ Unregister({t}) \in Frame
    /\ \A S \in SUBSET Topic : S # {} => Register(S) \in Frame
    /\ \A t \in Topic, id \in Message : Data(t, id) \in Frame
<1> DEFINE R == {Register(s) : s \in (SUBSET Topic) \ {{}}}
           U == {Unregister({t}) : t \in Topic}
<1>1. \A S \in (SUBSET Topic) \ {{}} : Register(S) \in R
  OBVIOUS
<1>2. \A t \in Topic : Unregister({t}) \in U
  OBVIOUS
<1>5. Frame = (R \cup U) \cup {Data(t, id) : t \in Topic, id \in Message}
  BY DEF Frame, Event
<1> HIDE DEF R, U
<1>3. \A t \in Topic, id \in Message : Data(t, id) \in Frame
  BY <1>5
<1>4. \A t \in Topic : {t} \in (SUBSET Topic) \ {{}}
  OBVIOUS
<1>. QED
  BY <1>1, <1>2, <1>3, <1>4, <1>5

\* Every step keeps the types and what a call and a replay have in hand.
LEMMA StepTypes ==
    ASSUME TypeOK, Calls, Replays, [Next]_vars
    PROVE  TypeOK' /\ Calls' /\ Replays'
<1> USE DEF local, node, transport, history, bounds
<1>1. CASE UNCHANGED vars
  BY <1>1 DEF vars, TypeOK, Calls, Replays
<1>2. ASSUME NEW n \in Node, NEW t \in Topic, Subscribe(n, t)
      PROVE  TypeOK' /\ Calls' /\ Replays'
  <2>1. changes' \in 0 .. MaxChanges
    BY <1>2, RoutingAssumption DEF Subscribe, Change, TypeOK
  <2>2. listeners' \in [Node -> [Topic -> Nat]] /\ listeners' = [listeners EXCEPT ![n][t] = @ + 1]
    BY <1>2 DEF Subscribe, TypeOK
  <2>3. PICK k \in Slot, at \in {"claimed", "counted"} :
           /\ app' = [app EXCEPT ![n] = [at |-> at, topic |-> t, slot |-> k]]
           /\ \E c \in Nat : slots' = [slots EXCEPT ![n][k].count = c]
    <3>1. \A k \in Slot : slots[n][k].count + 1 \in Nat /\ 1 \in Nat
      BY DEF TypeOK
    <3>. QED
      BY <1>2, <3>1 DEF Subscribe
  <2>4. slots' \in [Node -> [Slot -> [topic : Topic \cup {None}, count : Nat]]]
    <3>1. PICK c \in Nat : slots' = [slots EXCEPT ![n][k].count = c]
      BY <2>3
    <3>. QED
      BY <3>1, SlotTypes
  <2>5. app' \in [Node -> [at : {"idle", "claimed", "counted", "register", "unregister"},
                         topic : Topic \cup {None}, slot : Slot \cup {0}]]
    BY <2>3 DEF TypeOK
  <2>6. TypeOK'
    BY <1>2, <2>1, <2>2, <2>4, <2>5 DEF Subscribe, TypeOK
  <2>7. Calls'
    BY <1>2, <2>2, <2>3 DEF Calls, TypeOK
  <2>. QED
    BY <1>2, <2>6, <2>7 DEF Subscribe, Replays
<1>3. ASSUME NEW n \in Node, Mark(n)
      PROVE  TypeOK' /\ Calls' /\ Replays'
  <2>1. app[n].topic \in Topic /\ app[n].slot \in Slot
    BY <1>3 DEF Mark, Calls
  <2>2. slots' \in [Node -> [Slot -> [topic : Topic \cup {None}, count : Nat]]]
    BY <1>3, <2>1, SlotTypes DEF Mark
  <2>3. subscribed' \in [Node -> SUBSET Topic]
    BY <1>3, <2>1 DEF Mark, TypeOK
  <2>4. app' \in [Node -> [at : {"idle", "claimed", "counted", "register", "unregister"},
                         topic : Topic \cup {None}, slot : Slot \cup {0}]]
    <3>1. [app[n] EXCEPT !.at = "register"] \in [at : {"idle", "claimed", "counted", "register", "unregister"},
                         topic : Topic \cup {None}, slot : Slot \cup {0}]
      <4>1. app[n] \in [at : {"idle", "claimed", "counted", "register", "unregister"},
                              topic : Topic \cup {None}, slot : Slot \cup {0}]
        BY DEF TypeOK
      <4>. QED
        BY <4>1
    <3>2. Idle \in [at : {"idle", "claimed", "counted", "register", "unregister"},
                         topic : Topic \cup {None}, slot : Slot \cup {0}]
      BY DEF Idle
    <3>. QED
      BY <1>3, <3>1, <3>2 DEF Mark, TypeOK
  <2>5. TypeOK'
    BY <1>3, <2>2, <2>3, <2>4 DEF Mark, TypeOK
  <2>6. Calls'
    BY <1>3, <2>1 DEF Mark, Calls, TypeOK, Idle
  <2>. QED
    BY <1>3, <2>5, <2>6 DEF Mark, Replays
<1>4. ASSUME NEW n \in Node, NEW t \in Topic, Unsubscribe(n, t)
      PROVE  TypeOK' /\ Calls' /\ Replays'
  <2>1. changes' \in 0 .. MaxChanges
    BY <1>4, RoutingAssumption DEF Unsubscribe, Change, TypeOK
  <2>2. PICK k \in Slot :
          /\ slots' = [slots EXCEPT ![n][k].count = @ - 1]
          /\ \/ /\ slots[n][k].count > 1
                /\ listeners' = [listeners EXCEPT ![n][t] = @ - 1]
                /\ UNCHANGED <<subscribed, app>>
             \/ /\ slots[n][k].count = 1
                /\ subscribed' = [subscribed EXCEPT ![n] = @ \ {t}]
                /\ app' = [app EXCEPT ![n] = [at |-> "unregister", topic |-> t, slot |-> k]]
                /\ UNCHANGED listeners
    BY <1>4 DEF Unsubscribe
  <2>3. slots' \in [Node -> [Slot -> [topic : Topic \cup {None}, count : Nat]]]
    <3>1. slots[n][k].count \in Nat
      BY DEF TypeOK
    <3>2. slots[n][k].count - 1 \in Nat
      BY <2>2, <3>1
    <3>. QED
      BY <2>2, <3>2, SlotTypes
  <2>4. listeners[n][t] > 0 /\ listeners[n][t] \in Nat /\ app[n].at = "idle"
    BY <1>4 DEF Unsubscribe, TypeOK
  <2>5. CASE slots[n][k].count > 1
    <3>1. /\ listeners' = [listeners EXCEPT ![n][t] = listeners[n][t] - 1]
          /\ UNCHANGED <<subscribed, app>>
      BY <2>2, <2>5
    <3>2. listeners' \in [Node -> [Topic -> Nat]]
      BY <2>4, <3>1 DEF TypeOK
    <3>3. TypeOK'
      BY <1>4, <2>1, <2>3, <3>1, <3>2 DEF Unsubscribe, TypeOK
    <3>4. Calls'
      BY <2>4, <3>1 DEF Calls, TypeOK
    <3>. QED
      BY <1>4, <3>3, <3>4 DEF Unsubscribe, Replays
  <2>6. CASE slots[n][k].count = 1
    <3>1. /\ subscribed' = [subscribed EXCEPT ![n] = @ \ {t}]
          /\ app' = [app EXCEPT ![n] = [at |-> "unregister", topic |-> t, slot |-> k]]
          /\ UNCHANGED listeners
      BY <2>2, <2>6
    <3>2. subscribed' \in [Node -> SUBSET Topic]
      BY <3>1 DEF TypeOK
    <3>3. app' \in [Node -> [at : {"idle", "claimed", "counted", "register", "unregister"},
                         topic : Topic \cup {None}, slot : Slot \cup {0}]]
      BY <3>1 DEF TypeOK
    <3>4. TypeOK'
      BY <1>4, <2>1, <2>3, <3>1, <3>2, <3>3 DEF Unsubscribe, TypeOK
    <3>5. Calls'
      BY <2>4, <3>1 DEF Calls, TypeOK
    <3>. QED
      BY <1>4, <3>4, <3>5 DEF Unsubscribe, Replays
  <2>. QED
    BY <2>2, <2>5, <2>6
<1>5. ASSUME NEW n \in Node, Announce(n)
      PROVE  TypeOK' /\ Calls' /\ Replays'
  <2>1. app[n].at \in {"register", "unregister"} /\ app[n].topic \in Topic /\ app' = [app EXCEPT ![n] = Idle]
    BY <1>5 DEF Announce, Calls
  <2>2. app' \in [Node -> [at : {"idle", "claimed", "counted", "register", "unregister"},
                         topic : Topic \cup {None}, slot : Slot \cup {0}]]
    <3>1. Idle \in [at : {"idle", "claimed", "counted", "register", "unregister"},
                         topic : Topic \cup {None}, slot : Slot \cup {0}]
      BY DEF Idle
    <3>. QED
      BY <2>1, <3>1 DEF TypeOK
  <2>3. \E f \in Frame : queue' = [queue EXCEPT ![n] = Append(@, f)]
    BY <1>5, <2>1, EventTypes DEF Announce
  <2>4. queue' \in [Node -> Seq(Frame)]
    BY <2>3, AppendIs DEF TypeOK
  <2>5. listeners' \in [Node -> [Topic -> Nat]] /\ \A m \in Node \ {n} : listeners'[m] = listeners[m]
    <3> DEFINE t == app[n].topic
    <3>1. listeners \in [Node -> [Topic -> Nat]] /\ t \in Topic
      BY <2>1 DEF TypeOK
    <3>2. app[n].at = "unregister" => listeners[n][t] > 0
      BY DEF Calls
    <3>3. \/ UNCHANGED listeners
          \/ app[n].at = "unregister" /\ listeners' = [listeners EXCEPT ![n][t] = @ - 1]
      BY <1>5 DEF Announce
    <3> HIDE DEF t
    <3>. QED
      BY <3>1, <3>2, <3>3
  <2>6. TypeOK'
    BY <1>5, <2>2, <2>4, <2>5 DEF Announce, TypeOK
  <2>7. Calls'
    BY <2>1, <2>5 DEF Calls, Idle, TypeOK
  <2>. QED
    BY <1>5, <2>6, <2>7 DEF Announce, Replays
<1>6. ASSUME NEW n \in Node, NEW t \in Topic, Publish(n, t)
      PROVE  TypeOK' /\ Calls' /\ Replays'
  <2>1. published' \in Message /\ published' \in 0 .. MaxPublishes
    BY <1>6, RoutingAssumption DEF Publish, TypeOK, Message
  <2>2. Data(t, published') \in Frame
    BY <2>1, EventTypes
  <2>3. queue' \in [Node -> Seq(Frame)]
    BY <1>6, <2>2, AppendIs DEF Publish, TypeOK
  <2>. QED
    BY <1>6, <2>1, <2>3 DEF Publish, TypeOK, Calls, Replays
<1>7. ASSUME NEW n \in Node, NEW m \in Neighbour(n), Observe(n, m)
      PROVE  TypeOK' /\ Calls' /\ Replays'
  <2>1. ready[{n, m}] \in BOOLEAN
    BY Zenon DEF TypeOK, Neighbour
  <2>2. known' \in [Hop -> BOOLEAN]
    BY <1>7, <2>1, Zenon DEF Observe, TypeOK
  <2>3. pending' \in [Node -> BOOLEAN]
    <3>1. (pending[n] \/ ready[{n, m}]) \in BOOLEAN
      OBVIOUS
    <3>. QED
      BY <1>7, <3>1, Zenon DEF Observe, TypeOK
  <2>. QED
    BY <1>7, <2>2, <2>3 DEF Observe, TypeOK, Calls, Replays
<1>8. ASSUME NEW n \in Node, AvailabilityReplay(n)
      PROVE  TypeOK' /\ Calls' /\ Replays'
  <2>1. /\ runner' \in [Node -> [at : {"idle", "replay", "blocked"}, mask : SUBSET Topic]]
        /\ Replays'
    BY <1>8, ReplayTypes DEF AvailabilityReplay, Replays
  <2>2. pending' \in [Node -> BOOLEAN]
    BY <1>8, Zenon DEF AvailabilityReplay, TypeOK
  <2>. QED
    BY <1>8, <2>1, <2>2 DEF AvailabilityReplay, TypeOK, Calls
<1>9. ASSUME NEW n \in Node, PeriodicReplay(n)
      PROVE  TypeOK' /\ Calls' /\ Replays'
  <2>1. /\ runner' \in [Node -> [at : {"idle", "replay", "blocked"}, mask : SUBSET Topic]]
        /\ Replays'
    BY <1>9, ReplayTypes DEF PeriodicReplay, Replays
  <2>. QED
    BY <1>9, <2>1 DEF PeriodicReplay, TypeOK, Calls
<1>10. ASSUME NEW n \in Node, PublishReplay(n)
       PROVE  TypeOK' /\ Calls' /\ Replays'
  <2>1. Register(runner[n].mask) \in Frame
    <3>1. runner[n].mask \subseteq Topic /\ runner[n].mask # {}
      BY <1>10 DEF PublishReplay, Replays, TypeOK
    <3>. QED
      BY <3>1, EventTypes
  <2>2. queue' \in [Node -> Seq(Frame)]
    <3>1. Append(queue[n], Register(runner[n].mask)) \in Seq(Frame)
      BY <2>1, AppendIs DEF TypeOK
    <3>. QED
      BY <1>10, <3>1 DEF PublishReplay, TypeOK
  <2>3. \/ runner' = [runner EXCEPT ![n] = Resting]
        \/ runner' = [runner EXCEPT ![n] = [at |-> "blocked", mask |-> runner[n].mask]]
    <3>1. [runner[n] EXCEPT !.at = "blocked"] = [at |-> "blocked", mask |-> runner[n].mask]
      <4>1. runner[n] \in [at : {"idle", "replay", "blocked"}, mask : SUBSET Topic]
        BY DEF TypeOK
      <4>. QED
        BY <4>1
    <3>. QED
      BY <1>10, <3>1 DEF PublishReplay
  <2>4. /\ runner' \in [Node -> [at : {"idle", "replay", "blocked"}, mask : SUBSET Topic]]
        /\ Replays'
    <3>1. /\ Resting \in [at : {"idle", "replay", "blocked"}, mask : SUBSET Topic]
          /\ [at |-> "blocked", mask |-> runner[n].mask] \in [at : {"idle", "replay", "blocked"}, mask : SUBSET Topic]
          /\ Resting.at # "replay" /\ [at |-> "blocked", mask |-> runner[n].mask].at # "replay"
      BY DEF Resting, TypeOK
    <3>2. PICK R \in [at : {"idle", "replay", "blocked"}, mask : SUBSET Topic] :
            R.at # "replay" /\ runner' = [runner EXCEPT ![n] = R]
      BY <2>3, <3>1
    <3>. QED
      BY <3>2 DEF TypeOK, Replays
  <2>. QED
    BY <1>10, <2>2, <2>4 DEF PublishReplay, TypeOK, Calls
<1>11. ASSUME NEW n \in Node, DrainLocal(n)
       PROVE  TypeOK' /\ Calls' /\ Replays'
  <2> DEFINE f == Head(queue[n])
  <2>1. queue[n] \in Seq(Frame) /\ queue[n] # <<>>
    BY <1>11 DEF DrainLocal, TypeOK
  <2>2. f \in Frame /\ Tail(queue[n]) \in Seq(Frame)
    BY <2>1, TailIs
  <2>3. queue' \in [Node -> Seq(Frame)]
    BY <1>11, <2>2 DEF DrainLocal, TypeOK
  <2>4. wire' \in [Hop -> Seq(Frame)]
    BY <1>11, <2>2, FanTypes DEF DrainLocal
  <2>5. delivered' \in [Message -> [Node -> Nat]]
    BY <1>11, <2>2, DeliverTypes DEF DrainLocal
  <2>6. owed' \in [Message -> SUBSET Node]
    <3>1. \A t : (IF Steady(t) THEN {m \in Node : Listening(m, t)} ELSE {}) \in SUBSET Node
      OBVIOUS
    <3>. QED
      BY <1>11, <2>2, <3>1 DEF DrainLocal, TypeOK
  <2>. QED
    BY <1>11, <2>3, <2>4, <2>5, <2>6 DEF DrainLocal, TypeOK, Calls, Replays
<1>12. ASSUME NEW n \in Node, NEW m \in Neighbour(n), Ingress(n, m)
       PROVE  TypeOK' /\ Calls' /\ Replays'
  <2> DEFINE f == Head(wire[<<m, n>>])
  <2>1. m \in Node /\ <<n, m>> \in Hop /\ <<m, n>> \in Hop
    BY Neighbours DEF Neighbour
  <2>2. wire[<<m, n>>] \in Seq(Frame) /\ wire[<<m, n>>] # <<>>
    BY <1>12, <2>1 DEF Ingress, TypeOK
  <2>3. f \in Frame
    BY <2>2, TailIs
  <2>4. wire' \in [Hop -> Seq(Frame)]
    BY <1>12, <2>2, <2>3, FanTypes DEF Ingress
  <2>5. delivered' \in [Message -> [Node -> Nat]]
    BY <1>12, <2>3, DeliverTypes DEF Ingress
  <2>6. route' \in [Hop -> SUBSET Topic]
    <3>1. f.topics \subseteq Topic
      BY <2>3, Frames
    <3>. QED
      BY <1>12, <2>1, <3>1 DEF Ingress, TypeOK
  <2>. QED
    BY <1>12, <2>4, <2>5, <2>6 DEF Ingress, TypeOK, Calls, Replays
<1>13. ASSUME NEW l \in Link, LinkUp(l)
       PROVE  TypeOK' /\ Calls' /\ Replays'
  <2>1. ready' \in [Link -> BOOLEAN]
    BY <1>13, Zenon DEF LinkUp, TypeOK
  <2>. QED
    BY <1>13, <2>1 DEF LinkUp, TypeOK, Calls, Replays
<1>14. ASSUME NEW l \in Link, LinkDown(l)
       PROVE  TypeOK' /\ Calls' /\ Replays'
  <2>1. changes' \in 0 .. MaxChanges
    BY <1>14, RoutingAssumption DEF LinkDown, Change, TypeOK
  <2>2. ready' \in [Link -> BOOLEAN]
    BY <1>14, Zenon DEF LinkDown, TypeOK
  <2>3. wire' \in [Hop -> Seq(Frame)]
    <3>1. PICK kept \in [{e \in Hop : {e[1], e[2]} = l} -> 0 .. QueueDepth] :
            Cut(l, kept)
      BY <1>14 DEF LinkDown, Cut
    <3>. QED
      BY <3>1, CutIs
  <2>4. owed' \in [Message -> SUBSET Node]
    BY <1>14 DEF LinkDown
  <2>. QED
    BY <1>14, <2>1, <2>2, <2>3, <2>4 DEF LinkDown, TypeOK, Calls, Replays
<1>15. ASSUME NEW n \in Node, NEW m \in Neighbour(n), Lose(n, m)
       PROVE  TypeOK' /\ Calls' /\ Replays'
  <2>1. changes' \in 0 .. MaxChanges
    BY <1>15, RoutingAssumption DEF Lose, Change, TypeOK
  <2>2. wire' \in [Hop -> Seq(Frame)]
    <3>1. <<n, m>> \in Hop
      BY Neighbours DEF Neighbour
    <3>2. Tail(wire[<<n, m>>]) \in Seq(Frame)
      BY <1>15, <3>1, TailIs DEF Lose, TypeOK
    <3>. QED
      BY <1>15, <3>2 DEF Lose, TypeOK
  <2>3. owed' \in [Message -> SUBSET Node]
    BY <1>15 DEF Lose
  <2>. QED
    BY <1>15, <2>1, <2>2, <2>3 DEF Lose, TypeOK, Calls, Replays
<1>16. ASSUME NEW n \in Node, Reboot(n)
       PROVE  TypeOK' /\ Calls' /\ Replays'
  <2>1. changes' \in 0 .. MaxChanges
    BY <1>16, RoutingAssumption DEF Reboot, Change, TypeOK
  <2>2. known' \in [Hop -> BOOLEAN] /\ ready' \in [Link -> BOOLEAN]
    <3>1. /\ \A e \in Hop : (e[1] # n /\ known[e]) \in BOOLEAN
          /\ \A l \in Link : (ready[l] /\ n \notin l) \in BOOLEAN
      OBVIOUS
    <3>. QED
      BY <1>16, <3>1 DEF Reboot
  <2>3. pending' \in [Node -> BOOLEAN]
    BY <1>16, Zenon DEF Reboot, TypeOK
  <2>4. /\ slots' \in [Node -> [Slot -> [topic : Topic \cup {None}, count : Nat]]]
        /\ subscribed' \in [Node -> SUBSET Topic]
        /\ listeners' \in [Node -> [Topic -> Nat]]
    BY <1>16 DEF Reboot, TypeOK, Unused
  <2>5. /\ Idle \in [at : {"idle", "claimed", "counted", "register", "unregister"},
                         topic : Topic \cup {None}, slot : Slot \cup {0}]
        /\ Idle.at = "idle"
        /\ Resting \in [at : {"idle", "replay", "blocked"}, mask : SUBSET Topic]
        /\ Resting.at = "idle"
    BY DEF Idle, Resting
  <2>6. /\ app' \in [Node -> [at : {"idle", "claimed", "counted", "register", "unregister"},
                         topic : Topic \cup {None}, slot : Slot \cup {0}]]
        /\ runner' \in [Node -> [at : {"idle", "replay", "blocked"}, mask : SUBSET Topic]]
    BY <1>16, <2>5 DEF Reboot, TypeOK
  <2>7. /\ queue' \in [Node -> Seq(Frame)] /\ wire' \in [Hop -> Seq(Frame)]
        /\ route' \in [Hop -> SUBSET Topic] /\ owed' \in [Message -> SUBSET Node]
    BY <1>16 DEF Reboot, TypeOK
  <2>8. TypeOK'
    BY <1>16, <2>1, <2>2, <2>3, <2>4, <2>6, <2>7 DEF Reboot, TypeOK
  <2>9. Calls' /\ Replays'
    BY <1>16, <2>5 DEF Reboot, Calls, Replays, TypeOK
  <2>. QED
    BY <2>8, <2>9
<1>. QED
  BY <1>1, <1>2, <1>3, <1>4, <1>5, <1>6, <1>7, <1>8, <1>9, <1>10, <1>11, <1>12, <1>13, <1>14, <1>15, <1>16
     DEF Next, RunnerStep, Call

(***************************************************************************)
(* One copy for each part of the tree.                                     *)
(***************************************************************************)

\* What n takes in and passes on, hop by hop.
Passes(n, from, f, e, id) ==
    /\ e[2] = n /\ e[1] \in from =>
         /\ wire'[e] = Tail(wire[e]) /\ wire[e] # <<>> /\ Head(wire[e]) = f
         /\ Carries(wire[e], id) <=> f.id = id \/ Carries(wire'[e], id)
         /\ Single(wire[e], id) => Single(wire'[e], id)
         /\ Single(wire[e], id) /\ f.id = id => ~Carries(wire'[e], id)
    /\ e[1] = n /\ e[2] \in Targets(n, from, f) =>
         /\ wire'[e] = Append(wire[e], f)
         /\ Carries(wire'[e], id) <=> f.id = id \/ Carries(wire[e], id)
         /\ Single(wire[e], id) /\ (f.id = id => ~Carries(wire[e], id)) => Single(wire'[e], id)
    /\ ~(e[2] = n /\ e[1] \in from) /\ ~(e[1] = n /\ e[2] \in Targets(n, from, f)) =>
         wire'[e] = wire[e]

LEMMA FanIs ==
    ASSUME TypeOK, NEW n \in Node, NEW from \in SUBSET Neighbour(n), NEW f \in Frame,
           \A m \in from : wire[<<m, n>>] # <<>> /\ Head(wire[<<m, n>>]) = f,
           wire' = FannedOut(n, from, f), NEW e \in Hop, NEW id \in Message
    PROVE  Passes(n, from, f, e, id)
<1>1. wire[e] \in Seq(Frame) /\ e[1] # e[2] /\ e = <<e[1], e[2]>>
  BY Hops DEF TypeOK
<1>2. wire'[e] = IF e[2] = n /\ e[1] \in from THEN Tail(wire[e])
                 ELSE IF e[1] = n /\ e[2] \in Targets(n, from, f) THEN Append(wire[e], f)
                 ELSE wire[e]
  BY DEF FannedOut
<1>3. CASE e[2] = n /\ e[1] \in from
  <2>1. wire'[e] = Tail(wire[e]) /\ wire[e] # <<>> /\ Head(wire[e]) = f
    BY <1>1, <1>2, <1>3
  <2>. QED
    BY <1>1, <1>3, <2>1, TailIs DEF Passes
<1>4. CASE e[1] = n /\ e[2] \in Targets(n, from, f)
  <2>1. wire'[e] = Append(wire[e], f)
    BY <1>1, <1>2, <1>4
  <2>. QED
    BY <1>1, <1>4, <2>1, AppendIs DEF Passes
<1>. QED
  BY <1>2, <1>3, <1>4 DEF Passes

\* Copies that only get fewer stay apart.
LEMMA Fewer ==
    ASSUME NEW id \in Message, Copies(id), published \in Nat, published' \in Nat, published' >= published,
           \A x \in Node : delivered'[id][x] = delivered[id][x],
           \A n \in Node : /\ Carries(queue'[n], id) => Carries(queue[n], id)
                           /\ Single(queue[n], id) => Single(queue'[n], id),
           \A e \in Hop : /\ Carries(wire'[e], id) => Carries(wire[e], id)
                          /\ Single(wire[e], id) => Single(wire'[e], id)
    PROVE  Copies(id)'
<1>1. id \in Nat
  BY DEF Message
<1>2. id > published' => id > published
  BY <1>1
<1>3. \A n \in Node : Carries(queue'[n], id) =>
          /\ \A e \in Hop : ~Carries(wire'[e], id)
          /\ \A x \in Node : delivered'[id][x] = 0
  BY DEF Copies
<1>4. \A e, f \in Hop : e # f /\ Carries(wire'[e], id) /\ Carries(wire'[f], id)
                            => Behind[e] \cap Behind[f] = {}
  BY DEF Copies
<1>5. \A e \in Hop : Carries(wire'[e], id) => \A x \in Behind[e] : delivered'[id][x] = 0
  <2>1. \A e \in Hop : Behind[e] \subseteq Node
    BY Hops, BehindIs
  <2>. QED
    BY <2>1 DEF Copies
<1>6. id > published' =>
          /\ \A n \in Node : ~Carries(queue'[n], id)
          /\ \A e \in Hop : ~Carries(wire'[e], id)
          /\ \A x \in Node : delivered'[id][x] = 0
  BY <1>2 DEF Copies
<1>7. \A n, m \in Node : Carries(queue'[n], id) /\ Carries(queue'[m], id) => n = m
  BY DEF Copies
<1>8. /\ \A n \in Node : Single(queue'[n], id)
      /\ \A e \in Hop : Single(wire'[e], id)
      /\ \A x \in Node : delivered'[id][x] <= 1
  BY DEF Copies
<1>. QED
  BY <1>3, <1>4, <1>5, <1>6, <1>7, <1>8 DEF Copies

Put(n, f) == queue' = [queue EXCEPT ![n] = Append(@, f)]

\* Another frame put into a queue makes no copy of the message.
LEMMA QueuedOther ==
    ASSUME TypeOK, NEW id \in Message, Copies(id), NEW n \in Node, NEW f \in Frame, f.id # id,
           Put(n, f), published' \in Nat, published' >= published,
           UNCHANGED <<wire, delivered>>
    PROVE  Copies(id)'
<1>1. \A m \in Node : queue[m] \in Seq(Frame) /\ queue'[m] = IF m = n THEN Append(queue[m], f) ELSE queue[m]
  BY DEF Put, TypeOK
<1>2. ASSUME NEW m \in Node
      PROVE  /\ Carries(queue'[m], id) => Carries(queue[m], id)
             /\ Single(queue[m], id) => Single(queue'[m], id)
  BY <1>1, AppendIs
<1>3. published \in Nat
  BY RoutingAssumption DEF TypeOK
<1>. QED
  BY <1>2, <1>3, Fewer

LEMMA CopiesDrained ==
    ASSUME TypeOK, NEW id \in Message, Copies(id), NEW n \in Node, DrainLocal(n)
    PROVE  Copies(id)'
<1> DEFINE f == Head(queue[n])
<1>1. queue[n] \in Seq(Frame) /\ queue[n] # <<>>
  BY DEF DrainLocal, TypeOK
<1>2. /\ f \in Frame
      /\ Carries(queue[n], id) <=> f.id = id \/ Carries(Tail(queue[n]), id)
      /\ Single(queue[n], id) => Single(Tail(queue[n]), id)
      /\ Single(queue[n], id) /\ f.id = id => ~Carries(Tail(queue[n]), id)
  BY <1>1, TailIs
<1>3. \A m \in Node : queue'[m] = IF m = n THEN Tail(queue[m]) ELSE queue[m]
  BY DEF DrainLocal, TypeOK
<1>4. wire' = FannedOut(n, {}, f) /\ Deliver(n, {}, f)
  BY DEF DrainLocal
<1>5. published' = published /\ published \in Nat
  BY RoutingAssumption DEF DrainLocal, bounds, TypeOK
<1> HIDE DEF f
<1>6. ASSUME NEW e \in Hop
      PROVE  \/ /\ e[1] = n
                /\ Carries(wire'[e], id) <=> f.id = id \/ Carries(wire[e], id)
                /\ Single(wire[e], id) /\ (f.id = id => ~Carries(wire[e], id)) => Single(wire'[e], id)
             \/ wire'[e] = wire[e]
  <2>1. Passes(n, {}, f, e, id)
    BY <1>2, <1>4, FanIs
  <2>. QED
    BY <2>1 DEF Passes
<1>7. CASE f.id # id
  <2>1. \A x \in Node : delivered'[id][x] = delivered[id][x]
    BY <1>4, <1>7 DEF Deliver, TypeOK
  <2>. QED
    BY <1>2, <1>3, <1>5, <1>6, <1>7, <2>1, Fewer
<1>8. CASE f.id = id
  <2>1. /\ Carries(queue[n], id) /\ \A e \in Hop : ~Carries(wire[e], id)
        /\ \A x \in Node : delivered[id][x] = 0
    BY <1>2, <1>8 DEF Copies
  <2>2. \A m \in Node : ~Carries(queue'[m], id) /\ Single(queue'[m], id)
    BY <1>2, <1>3, <1>8, <2>1 DEF Copies
  <2>3. \A e \in Hop : /\ Carries(wire'[e], id) => e[1] = n
                       /\ Single(wire'[e], id)
    BY <1>6, <2>1 DEF Copies
  <2>4. \A x \in Node : delivered'[id][x] = 0 \/ (x = n /\ delivered'[id][x] = 1)
    BY <1>4, <1>8, <2>1 DEF Deliver, TypeOK
  <2>5. \A e, g \in Hop : e # g /\ e[1] = n /\ g[1] = n => Behind[e] \cap Behind[g] = {}
    BY Hops, Apart
  <2>6. \A e \in Hop : e[1] = n => n \notin Behind[e] /\ Behind[e] \subseteq Node
    BY Hops, BehindIs
  <2>7. ~(id > published)
    BY <2>1 DEF Copies
  <2>. QED
    BY <1>5, <2>2, <2>3, <2>4, <2>5, <2>6, <2>7 DEF Copies
<1>. QED
  BY <1>7, <1>8

LEMMA CopiesPassed ==
    ASSUME TypeOK, NEW id \in Message, Copies(id), NEW n \in Node, NEW m \in Neighbour(n), Ingress(n, m)
    PROVE  Copies(id)'
<1> DEFINE h == <<m, n>>
           f == Head(wire[h])
<1>1. m \in Node /\ h \in Hop /\ n \in Neighbour(m)
  BY Neighbours DEF Neighbour
<1>2. wire[h] \in Seq(Frame) /\ wire[h] # <<>>
  BY <1>1 DEF Ingress, TypeOK
<1>3. f \in Frame
  BY <1>2, TailIs
<1>4. wire' = FannedOut(n, {m}, f) /\ Deliver(n, {m}, f)
  BY DEF Ingress
<1>5. /\ published' = published /\ published \in Nat
      /\ queue' = queue
  BY RoutingAssumption DEF Ingress, bounds, node, TypeOK
<1>6. /\ \A x \in {m} : wire[<<x, n>>] # <<>> /\ Head(wire[<<x, n>>]) = f
      /\ {m} \in SUBSET Neighbour(n)
  BY <1>2
<1>7. \A e \in Hop : e[2] = n /\ e[1] = m <=> e = h
  BY Hops
<1>8. h[1] = m /\ h[2] = n
  OBVIOUS
<1> HIDE DEF h
<1> HIDE DEF f
<1>9. ASSUME NEW e \in Hop
      PROVE  /\ e = h => /\ Carries(wire[e], id) <=> f.id = id \/ Carries(wire'[e], id)
                         /\ Single(wire[e], id) => Single(wire'[e], id)
                         /\ Single(wire[e], id) /\ f.id = id => ~Carries(wire'[e], id)
             /\ e # h => \/ /\ e[1] = n /\ e[2] # m
                            /\ Carries(wire'[e], id) <=> f.id = id \/ Carries(wire[e], id)
                            /\ Single(wire[e], id) /\ (f.id = id => ~Carries(wire[e], id)) => Single(wire'[e], id)
                         \/ wire'[e] = wire[e]
  <2>1. Targets(n, {m}, f) \subseteq Neighbour(n) \ {m}
    BY DEF Targets
  <2>2. Passes(n, {m}, f, e, id)
    BY <1>3, <1>4, <1>6, FanIs
  <2>. QED
    BY <1>7, <1>8, <2>1, <2>2 DEF Passes
<1>10. CASE f.id # id
  <2>1. \A x \in Node : delivered'[id][x] = delivered[id][x]
    BY <1>4, <1>10 DEF Deliver, TypeOK
  <2>. QED
    BY <1>5, <1>9, <1>10, <2>1, Fewer
<1>11. CASE f.id = id
  <2>1. Carries(wire[h], id)
    BY <1>1, <1>9, <1>11
  <2>2. /\ \A x \in Node : ~Carries(queue[x], id)
        /\ \A x \in Behind[h] : delivered[id][x] = 0
        /\ \A e \in Hop : e # h /\ Carries(wire[e], id) => Behind[e] \cap Behind[h] = {}
    BY <1>1, <2>1 DEF Copies
  <2>3. \A e \in Hop : e[1] = n /\ e[2] # m => Behind[e] \subseteq Behind[h] \ {n} /\ e[2] \in Behind[e]
    BY <1>1, Hops, Onward, BehindIs DEF h
  <2>4. n \in Behind[h] /\ Behind[h] \subseteq Node
    BY <1>1, BehindIs DEF h
  <2>5. \A e, g \in Hop : e # g /\ e[1] = n /\ g[1] = n => Behind[e] \cap Behind[g] = {}
    BY Hops, Apart
  <2>6. ~Carries(wire'[h], id)
    BY <1>1, <1>9, <1>11 DEF Copies
  <2>7. \A e \in Hop : e[1] = n /\ e[2] # m => ~Carries(wire[e], id)
    BY <1>8, <2>2, <2>3, <2>4, <1>7
  <2>8. \A e \in Hop : Carries(wire'[e], id) => e # h /\ ((e[1] = n /\ e[2] # m) \/ Carries(wire[e], id))
    BY <1>9, <2>6
  <2>9. \A x \in Node : delivered'[id][x] = delivered[id][x] \/ (x = n /\ delivered'[id][x] = 1)
    BY <1>4, <1>11, <2>2, <2>4 DEF Deliver, TypeOK
  <2>10. \A e \in Hop : Single(wire'[e], id)
    BY <1>9, <2>7 DEF Copies
  <2>11. \A e, g \in Hop : e # g /\ Carries(wire'[e], id) /\ Carries(wire'[g], id)
                              => Behind[e] \cap Behind[g] = {}
    BY <2>2, <2>3, <2>5, <2>8 DEF Copies
  <2>12. \A e \in Hop : Carries(wire'[e], id) => \A x \in Behind[e] : delivered'[id][x] = 0
    <3>1. \A e \in Hop : Carries(wire'[e], id) => n \notin Behind[e]
      BY <2>2, <2>3, <2>4, <2>8
    <3>2. \A e \in Hop : Carries(wire'[e], id) => \A x \in Behind[e] : delivered[id][x] = 0
      BY <2>2, <2>3, <2>8 DEF Copies
    <3>3. \A e \in Hop : Behind[e] \subseteq Node
      BY Hops, BehindIs
    <3>. QED
      BY <2>9, <3>1, <3>2, <3>3
  <2>13. ~(id > published)
    BY <1>1, <2>1 DEF Copies
  <2>14. \A x \in Node : delivered'[id][x] <= 1
    BY <2>9 DEF Copies
  <2>. QED
    BY <1>5, <2>2, <2>10, <2>11, <2>12, <2>13, <2>14 DEF Copies
<1>. QED
  BY <1>10, <1>11

LEMMA CopiesStep ==
    ASSUME TypeOK, TypeOK', Calls, Replays, NEW id \in Message, Copies(id), [Next]_vars
    PROVE  Copies(id)'
<1> USE DEF local, node, transport, history, bounds
<1>1. published \in Nat /\ published' \in Nat /\ id # 0
  BY RoutingAssumption, NotZero DEF TypeOK
<1>2. CASE UNCHANGED <<queue, wire, delivered, published>>
  BY <1>1, <1>2, Fewer
<1>3. CASE UNCHANGED vars
  BY <1>2, <1>3 DEF vars
<1>4. ASSUME NEW n \in Node, NEW t \in Topic, Subscribe(n, t) \/ Unsubscribe(n, t)
      PROVE  Copies(id)'
  BY <1>2, <1>4 DEF Subscribe, Unsubscribe
<1>5. ASSUME NEW n \in Node,
             \/ Mark(n) \/ AvailabilityReplay(n) \/ PeriodicReplay(n)
             \/ \E m \in Neighbour(n) : Observe(n, m)
      PROVE  Copies(id)'
  BY <1>2, <1>5 DEF Mark, AvailabilityReplay, PeriodicReplay, Observe
<1>6. ASSUME NEW n \in Node, Announce(n)
      PROVE  Copies(id)'
  <2>1. app[n].topic \in Topic
    BY <1>6 DEF Announce, Calls
  <2>2. PICK f \in {Register({app[n].topic}), Unregister({app[n].topic})} :
           Put(n, f)
    BY <1>6 DEF Announce, Put
  <2>3. f \in Frame /\ f.id = 0
    <3>1. \A S : Register(S).id = 0 /\ Unregister(S).id = 0
      BY DEF Register, Unregister
    <3>. QED
      BY <2>1, <3>1, EventTypes
  <2>4. UNCHANGED <<wire, delivered, published>>
    BY <1>6 DEF Announce
  <2>. QED
    BY <1>1, <2>2, <2>3, <2>4, QueuedOther
<1>7. ASSUME NEW n \in Node, PublishReplay(n)
      PROVE  Copies(id)'
  <2>1. runner[n].mask \subseteq Topic /\ runner[n].mask # {}
    BY <1>7 DEF PublishReplay, Replays, TypeOK
  <2>2. Register(runner[n].mask) \in Frame /\ Register(runner[n].mask).id = 0
    <3>1. \A S : Register(S).id = 0
      BY DEF Register
    <3>. QED
      BY <2>1, <3>1, EventTypes
  <2>3. UNCHANGED <<wire, delivered, published>>
    BY <1>7 DEF PublishReplay
  <2>4. \/ UNCHANGED queue
        \/ Put(n, Register(runner[n].mask))
    BY <1>7 DEF PublishReplay, Put
  <2>. QED
    BY <1>1, <1>2, <2>2, <2>3, <2>4, QueuedOther
<1>8. ASSUME NEW n \in Node, NEW t \in Topic, Publish(n, t)
      PROVE  Copies(id)'
  <2> DEFINE f == Data(t, published')
  <2>1. /\ published' = published + 1 /\ UNCHANGED <<wire, delivered>>
        /\ Put(n, f)
    BY <1>8 DEF Publish, Put
  <2>2. f \in Frame /\ f.id = published'
    <3>1. published' \in Message
      BY <1>1, <2>1, RoutingAssumption DEF TypeOK, Message
    <3>2. f.id = published'
      BY DEF Data
    <3>. QED
      BY <3>1, <3>2, EventTypes
  <2> HIDE DEF f
  <2>3. CASE published' # id
    BY <1>1, <2>1, <2>2, <2>3, QueuedOther
  <2>4. CASE published' = id
    <3>1. /\ \A m \in Node : ~Carries(queue[m], id)
          /\ \A e \in Hop : ~Carries(wire'[e], id) /\ Single(wire'[e], id)
          /\ \A x \in Node : delivered'[id][x] = 0
      <4>1. id > published
        BY <1>1, <2>1, <2>4
      <4>. QED
        BY <2>1, <4>1 DEF Copies
    <3>2. \A m \in Node : queue[m] \in Seq(Frame) /\ Single(queue[m], id)
      BY DEF TypeOK, Copies
    <3>3. \A m \in Node : queue'[m] = IF m = n THEN Append(queue[m], f) ELSE queue[m]
      BY <2>1 DEF Put, TypeOK
    <3>4. \A m \in Node : Single(queue'[m], id) /\ (Carries(queue'[m], id) => m = n)
      BY <2>2, <3>1, <3>2, <3>3, AppendIs
    <3>5. ~(id > published')
      BY <1>1, <2>4
    <3>. QED
      BY <3>1, <3>4, <3>5 DEF Copies
  <2>. QED
    BY <2>3, <2>4
<1>9. ASSUME NEW n \in Node, DrainLocal(n) \/ \E m \in Neighbour(n) : Ingress(n, m)
      PROVE  Copies(id)'
  BY <1>9, CopiesDrained, CopiesPassed
<1>10. ASSUME NEW l \in Link, LinkDown(l)
       PROVE  Copies(id)'
  <2>1. PICK kept \in [{e \in Hop : {e[1], e[2]} = l} -> 0 .. QueueDepth] :
          Cut(l, kept)
    BY <1>10 DEF LinkDown, Cut
  <2>2. \A e \in Hop : /\ Carries(wire'[e], id) => Carries(wire[e], id)
                       /\ Single(wire[e], id) => Single(wire'[e], id)
    BY <2>1, CutIs
  <2>3. UNCHANGED <<queue, delivered, published>>
    BY <1>10 DEF LinkDown
  <2>. QED
    BY <1>1, <2>2, <2>3, Fewer
<1>11. ASSUME NEW n \in Node, NEW m \in Neighbour(n), Lose(n, m)
       PROVE  Copies(id)'
  <2>1. <<n, m>> \in Hop
    BY Neighbours DEF Neighbour
  <2>2. wire[<<n, m>>] \in Seq(Frame) /\ wire[<<n, m>>] # <<>>
    BY <1>11, <2>1 DEF Lose, TypeOK
  <2>3. \A e \in Hop : wire'[e] = IF e = <<n, m>> THEN Tail(wire[e]) ELSE wire[e]
    BY <1>11, <2>1 DEF Lose, TypeOK
  <2>4. \A e \in Hop : /\ Carries(wire'[e], id) => Carries(wire[e], id)
                       /\ Single(wire[e], id) => Single(wire'[e], id)
    BY <2>2, <2>3, TailIs
  <2>5. UNCHANGED <<queue, delivered, published>>
    BY <1>11 DEF Lose
  <2>. QED
    BY <1>1, <2>4, <2>5, Fewer
<1>12. ASSUME NEW n \in Node, Reboot(n)
       PROVE  Copies(id)'
  <2>1. ~Carries(<<>>, id) /\ Single(<<>>, id)
    BY DEF Carries, Single
  <2>2. /\ \A m \in Node : queue'[m] = queue[m] \/ queue'[m] = <<>>
        /\ \A e \in Hop : wire'[e] = wire[e] \/ wire'[e] = <<>>
        /\ UNCHANGED <<delivered, published>>
    BY <1>12 DEF Reboot, TypeOK
  <2>. QED
    BY <1>1, <2>1, <2>2, Fewer
<1>13. ASSUME NEW l \in Link, LinkUp(l)
       PROVE  Copies(id)'
  BY <1>2, <1>13 DEF LinkUp
<1>. QED
  BY <1>3, <1>4, <1>5, <1>6, <1>7, <1>8, <1>9, <1>10, <1>11, <1>12, <1>13 DEF Next, RunnerStep, Call

(***************************************************************************)
(* What is owed stays on its way.                                          *)
(***************************************************************************)

\* Nothing moves, and no queue takes in what could harm the message.
LEMMA OwedQuiet ==
    ASSUME NEW id \in Message, NEW t \in Topic, OwedVia(id, t),
           UNCHANGED <<wire, delivered, owed, route>>,
           \A l \in Link : ready'[l],
           \A n \in Node : /\ app'[n].at # "unregister"
                           /\ Has(queue'[n], Unregister({t})) => Has(queue[n], Unregister({t}))
                           /\ Carries(queue'[n], id) => Carries(queue[n], id),
           \A x \in Node : Listening(x, t) => Listening(x, t)'
    PROVE  OwedVia(id, t)'
BY DEF OwedVia

\* A frame put into a queue that neither carries the message nor unregisters.
LEMMA OwedPut ==
    ASSUME TypeOK, NEW id \in Message, NEW t \in Topic, OwedVia(id, t),
           UNCHANGED <<wire, delivered, owed, route, ready>>,
           \A n \in Node : app'[n].at # "unregister",
           NEW n \in Node, NEW f \in Frame, Put(n, f), f.id # id, f.kind # "unregister",
           \A x \in Node : Listening(x, t) => Listening(x, t)'
    PROVE  OwedVia(id, t)'
<1>1. f # Unregister({t})
  BY DEF Unregister
<1>2. \A m \in Node : queue[m] \in Seq(Frame) /\ queue'[m] = IF m = n THEN Append(queue[m], f) ELSE queue[m]
  BY DEF Put, TypeOK
<1>3. \A m \in Node : /\ Has(queue'[m], Unregister({t})) => Has(queue[m], Unregister({t}))
                      /\ Carries(queue'[m], id) => Carries(queue[m], id)
  BY <1>1, <1>2, AppendIs
<1>4. \A l \in Link : ready'[l]
  BY DEF OwedVia
<1>. QED
  BY <1>3, <1>4, OwedQuiet

\* What is owed has been published.
LEMMA OwedKnown ==
    ASSUME NEW id \in Message, NEW t \in Topic, OwedVia(id, t), Copies(id), owed[id] # {}
    PROVE  ~(id > published)
<1>1. PICK x \in owed[id] : TRUE
  OBVIOUS
<1>. QED
  BY <1>1 DEF OwedVia, Copies

\* The step that takes the message from the queue: the routes in place then
\* make a copy for each part of the tree that listens.
LEMMA OwedDrained ==
    ASSUME TypeOK, NEW id \in Message, Copies(id), Owes(id), NEW n \in Node, DrainLocal(n)
    PROVE  Owes(id)'
<1> DEFINE f == Head(queue[n])
<1>1. queue[n] \in Seq(Frame) /\ queue[n] # <<>>
  BY DEF DrainLocal, TypeOK
<1>2. /\ f \in Frame /\ Has(queue[n], f)
      /\ Carries(queue[n], id) <=> f.id = id \/ Carries(Tail(queue[n]), id)
      /\ Single(queue[n], id) /\ f.id = id => ~Carries(Tail(queue[n]), id)
      /\ \A g : Has(Tail(queue[n]), g) => Has(queue[n], g)
  BY <1>1, TailIs
<1>3. \A m \in Node : queue'[m] = IF m = n THEN Tail(queue[m]) ELSE queue[m]
  BY DEF DrainLocal, TypeOK
<1>4. /\ wire' = FannedOut(n, {}, f) /\ Deliver(n, {}, f)
      /\ UNCHANGED <<subscribed, listeners, app, ready, route>>
  BY DEF DrainLocal, local
<1>5. \/ /\ f.kind = "data"
         /\ \E t \in f.topics :
              owed' = [owed EXCEPT ![f.id] = IF Steady(t) THEN {m \in Node : Listening(m, t)} ELSE {}]
      \/ Control(f) /\ UNCHANGED owed
  BY DEF DrainLocal
<1> HIDE DEF f
<1>6. \A e \in Hop : Passes(n, {}, f, e, id)
  BY <1>2, <1>4, FanIs
<1>7. \A e \in Hop : wire'[e] = Append(wire[e], f) \/ wire'[e] = wire[e]
  BY <1>6 DEF Passes
<1>8. \A e \in Hop : wire[e] \in Seq(Frame)
  BY DEF TypeOK
<1>9. CASE f.id # id
  <2>1. owed'[id] = owed[id]
    BY <1>5, <1>9 DEF TypeOK
  <2>2. ASSUME NEW t \in Topic, OwedVia(id, t)
        PROVE  OwedVia(id, t)'
    <3>1. f # Unregister({t})
      BY <1>2, <2>2 DEF OwedVia
    <3>2. \A x \in Node : delivered'[id][x] = delivered[id][x]
      BY <1>4, <1>9 DEF Deliver, TypeOK
    <3>3. ASSUME NEW e \in Hop
          PROVE  /\ ~Has(wire'[e], Unregister({t}))
                 /\ Only(wire'[e], id, Data(t, id))
                 /\ Carries(wire[e], id) => Carries(wire'[e], id)
      <4>1. CASE wire'[e] = wire[e]
        BY <2>2, <4>1 DEF OwedVia
      <4>2. CASE wire'[e] = Append(wire[e], f)
        <5>1. /\ wire[e] \in Seq(Frame) /\ ~Has(wire[e], Unregister({t}))
              /\ Only(wire[e], id, Data(t, id))
          BY <1>8, <2>2 DEF OwedVia
        <5>2. /\ ~Has(Append(wire[e], f), Unregister({t}))
              /\ Only(Append(wire[e], f), id, Data(t, id))
              /\ Carries(wire[e], id) => Carries(Append(wire[e], f), id)
          BY <1>2, <1>9, <3>1, <5>1, AppendIs
        <5>. QED
          BY <4>2, <5>2
      <4>. QED
        BY <1>7, <4>1, <4>2
    <3>4. \A m \in Node : ~Has(queue'[m], Unregister({t})) /\ ~Carries(queue'[m], id)
      BY <1>2, <1>3, <2>2 DEF OwedVia
    <3>5. \A x : Listening(x, t) => Listening(x, t)'
      BY <1>4 DEF Listening
    <3>. QED
      BY <1>4, <2>1, <2>2, <3>2, <3>3, <3>4, <3>5 DEF OwedVia
  <2>. QED
    BY <2>1, <2>2 DEF Owes
<1>10. CASE f.id = id
  <2>1. f.kind = "data" /\ \E t \in Topic : f = Data(t, id) /\ f.topics = {t}
    BY <1>2, <1>10, Frames, NotZero DEF Control
  <2>2. PICK t \in Topic : f = Data(t, id) /\ f.topics = {t}
    BY <2>1
  <2>3. owed'[id] = IF Steady(t) THEN {m \in Node : Listening(m, t)} ELSE {}
    <3>1. PICK u \in f.topics :
            owed' = [owed EXCEPT ![f.id] = IF Steady(u) THEN {m \in Node : Listening(m, u)} ELSE {}]
      BY <1>5, <2>1 DEF Control
    <3>2. u = t /\ owed \in [Message -> SUBSET Node]
      BY <2>2, <3>1 DEF TypeOK
    <3>. QED
      BY <1>10, <3>1, <3>2
  <2>4. CASE ~Steady(t)
    BY <2>3, <2>4 DEF Owes
  <2>5. CASE Steady(t)
    <3>1. /\ \A l \in Link : ready[l]
          /\ \A m \in Node : app[m].at # "unregister" /\ ~Has(queue[m], Unregister({t}))
          /\ \A e \in Hop : ~Has(wire[e], Unregister({t}))
          /\ \A e \in Hop : (\E m \in Behind[e] : Listening(m, t)) => t \in route[e]
      BY <2>5, Transit DEF Steady, CoveredTopic
    <3>2. /\ \A m \in Node : Carries(queue[m], id) => m = n
          /\ \A e \in Hop : ~Carries(wire[e], id)
          /\ \A x \in Node : delivered[id][x] = 0
          /\ Single(queue[n], id)
      BY <1>2, <1>10 DEF Copies
    <3>3. \A m \in Node : ~Has(queue'[m], Unregister({t})) /\ ~Carries(queue'[m], id)
      BY <1>2, <1>3, <1>10, <3>1, <3>2
    <3>4. f # Unregister({t})
      BY <2>1 DEF Unregister
    <3>5. ASSUME NEW e \in Hop
          PROVE  /\ ~Has(wire'[e], Unregister({t}))
                 /\ Only(wire'[e], id, Data(t, id))
      <4>1. CASE wire'[e] = wire[e]
        BY <3>1, <3>2, <4>1 DEF Only, Carries
      <4>2. CASE wire'[e] = Append(wire[e], f)
        <5>1. Only(wire[e], id, Data(t, id))
          BY <3>2 DEF Only, Carries
        <5>2. wire[e] \in Seq(Frame) /\ ~Has(wire[e], Unregister({t})) /\ f = Data(t, id)
          BY <1>8, <2>2, <3>1
        <5>3. /\ ~Has(Append(wire[e], f), Unregister({t}))
              /\ Only(Append(wire[e], f), id, Data(t, id))
          BY <1>2, <3>4, <5>1, <5>2, AppendIs
        <5>. QED
          BY <4>2, <5>3
      <4>. QED
        BY <1>7, <4>1, <4>2
    <3>6. owed'[id] = {m \in Node : Listening(m, t)}
      BY <2>3, <2>5
    <3>7. ASSUME NEW x \in Node, Listening(x, t)
          PROVE  delivered'[id][x] = 1 \/ \E e \in Hop : x \in Behind[e] /\ Carries(wire'[e], id)
      <4>1. CASE x = n
        <5>1. f.kind = "data" /\ \E u \in f.topics : listeners[n][u] > 0
          BY <2>1, <2>2, <3>7, <4>1 DEF Listening
        <5>2. delivered' = [delivered EXCEPT ![id][n] = @ + 1]
          BY <1>4, <1>10, <5>1 DEF Deliver
        <5>3. delivered[id][n] = 0
          BY <3>2
        <5>. QED
          BY <4>1, <5>2, <5>3 DEF TypeOK
      <4>2. CASE x # n
        <5>1. PICK y \in Neighbour(n) : x \in Behind[<<n, y>>]
          BY <4>2, Somewhere
        <5>2. y \in Node /\ <<n, y>> \in Hop /\ {n, y} \in Link
          BY Neighbours DEF Neighbour
        <5>3. t \in route[<<n, y>>] /\ ready[{n, y}]
          BY <3>1, <3>7, <5>1, <5>2
        <5>4. y \in Targets(n, {}, f)
          BY <2>2, <5>3 DEF Targets, Wanted
        <5>5. Carries(wire'[<<n, y>>], id)
          <6>1. Passes(n, {}, f, <<n, y>>, id)
            BY <1>6, <5>2
          <6>2. <<n, y>>[1] = n /\ <<n, y>>[2] = y
            OBVIOUS
          <6>. QED
            BY <1>10, <5>4, <6>1, <6>2 DEF Passes
        <5>. QED
          BY <5>1, <5>2, <5>5
      <4>. QED
        BY <4>1, <4>2
    <3>8. \A x \in Node : Listening(x, t)' <=> Listening(x, t)
      BY <1>4 DEF Listening
    <3>9. \A e \in Hop : Behind[e] \cap owed'[id] # {} => t \in route'[e]
      BY <1>4, <3>1, <3>6
    <3>10. \A x \in owed'[id] : /\ x \in Node /\ Listening(x, t)'
                                /\ delivered'[id][x] = 1 \/ \E e \in Hop : x \in Behind[e] /\ Carries(wire'[e], id)
      BY <3>6, <3>7, <3>8
    <3>11. OwedVia(id, t)'
      BY <1>4, <3>1, <3>3, <3>5, <3>9, <3>10 DEF OwedVia
    <3>. QED
      BY <3>11 DEF Owes
  <2>. QED
    BY <2>4, <2>5
<1>. QED
  BY <1>9, <1>10

\* A neighbour that takes the message delivers it, or passes it on towards
\* each node behind it that is owed; any other frame leaves the routes.
LEMMA OwedPassed ==
    ASSUME TypeOK, NEW id \in Message, Copies(id), NEW t \in Topic, OwedVia(id, t),
           NEW n \in Node, NEW m \in Neighbour(n), Ingress(n, m)
    PROVE  OwedVia(id, t)'
<1> DEFINE h == <<m, n>>
           f == Head(wire[h])
<1>1. m \in Node /\ h \in Hop /\ n \in Neighbour(m)
  BY Neighbours DEF Neighbour
<1>2. wire[h] \in Seq(Frame) /\ wire[h] # <<>>
  BY <1>1 DEF Ingress, TypeOK
<1>3. /\ f \in Frame /\ Has(wire[h], f)
      /\ \A g : Has(Tail(wire[h]), g) => Has(wire[h], g)
      /\ Only(wire[h], id, Data(t, id)) => Only(Tail(wire[h]), id, Data(t, id)) /\ (f.id = id => f = Data(t, id))
  BY <1>2, TailIs
<1>4. /\ wire' = FannedOut(n, {m}, f) /\ Deliver(n, {m}, f)
      /\ UNCHANGED <<queue, subscribed, listeners, app, ready, owed>>
  BY DEF Ingress, local, node
<1>5. route' = CASE f.kind = "register" -> [route EXCEPT ![<<n, m>>] = @ \cup f.topics]
                 [] f.kind = "unregister" -> [route EXCEPT ![<<n, m>>] = @ \ f.topics]
                 [] OTHER -> route
  BY DEF Ingress
<1>6. /\ \A x \in {m} : wire[<<x, n>>] # <<>> /\ Head(wire[<<x, n>>]) = f
      /\ {m} \in SUBSET Neighbour(n)
  BY <1>2
<1>7. \A e \in Hop : e[2] = n /\ e[1] = m <=> e = h
  BY Hops
<1>8. h[1] = m /\ h[2] = n
  OBVIOUS
<1>9. Targets(n, {m}, f) \subseteq Neighbour(n) \ {m}
  BY DEF Targets
<1> HIDE DEF h
<1> HIDE DEF f
<1>10. \A e \in Hop : Passes(n, {m}, f, e, id)
  BY <1>3, <1>4, <1>6, FanIs
<1>11. \A e \in Hop : wire[e] \in Seq(Frame)
  BY DEF TypeOK
<1>12. f # Unregister({t}) /\ (f.id = id => f = Data(t, id))
  BY <1>1, <1>3 DEF OwedVia
<1>13. ASSUME NEW e \in Hop
       PROVE  /\ ~Has(wire'[e], Unregister({t}))
              /\ Only(wire'[e], id, Data(t, id))
              /\ e # h /\ Carries(wire[e], id) => Carries(wire'[e], id)
  <2>1. ~Has(wire[e], Unregister({t})) /\ Only(wire[e], id, Data(t, id))
    BY DEF OwedVia
  <2>2. CASE e = h
    <3>1. wire'[e] = Tail(wire[e])
      BY <1>7, <1>10, <2>2 DEF Passes
    <3>. QED
      BY <1>3, <2>1, <2>2, <3>1
  <2>3. CASE e # h /\ wire'[e] = wire[e]
    BY <2>1, <2>3
  <2>4. CASE e # h /\ wire'[e] = Append(wire[e], f)
    <3>1. /\ ~Has(Append(wire[e], f), Unregister({t}))
          /\ Only(Append(wire[e], f), id, Data(t, id))
          /\ Carries(wire[e], id) => Carries(Append(wire[e], f), id)
      BY <1>3, <1>11, <1>12, <2>1, AppendIs
    <3>. QED
      BY <2>4, <3>1
  <2>5. e # h => wire'[e] = wire[e] \/ wire'[e] = Append(wire[e], f)
    BY <1>7, <1>10 DEF Passes
  <2>. QED
    BY <2>2, <2>3, <2>4, <2>5
<1>14. \A e \in Hop : t \in route[e] => t \in route'[e]
  <2>1. route \in [Hop -> SUBSET Topic]
    BY DEF TypeOK
  <2>2. CASE f.kind = "register"
    <3>1. route' = [route EXCEPT ![<<n, m>>] = @ \cup f.topics]
      BY <1>5, <2>2
    <3>. QED
      BY <2>1, <3>1
  <2>3. CASE f.kind = "unregister"
    <3>1. route' = [route EXCEPT ![<<n, m>>] = @ \ f.topics]
      BY <1>5, <2>3
    <3>2. t \notin f.topics
      <4>1. PICK u \in Topic : f = Unregister({u}) /\ f.topics = {u}
        BY <1>3, <2>3, Frames
      <4>. QED
        BY <1>12, <4>1
    <3>. QED
      BY <2>1, <3>1, <3>2
  <2>4. CASE f.kind # "register" /\ f.kind # "unregister"
    BY <1>5, <2>4
  <2>. QED
    BY <2>2, <2>3, <2>4
<1>15. \A x : Listening(x, t) <=> Listening(x, t)'
  BY <1>4 DEF Listening
<1>16. ASSUME NEW x \in owed[id]
       PROVE  delivered'[id][x] = 1 \/ \E e \in Hop : x \in Behind[e] /\ Carries(wire'[e], id)
  <2>1. /\ x \in Node /\ Listening(x, t)
        /\ \/ delivered[id][x] = 1
           \/ \E e \in Hop : x \in Behind[e] /\ Carries(wire[e], id)
    BY DEF OwedVia
  <2>2. CASE delivered[id][x] = 1
    <3>1. f.id = id => x # n
      <4>1. f.id = id => Carries(wire[h], id)
        BY <1>1, <1>7, <1>8, <1>10 DEF Passes
      <4>2. n \in Behind[h]
        BY <1>1, BehindIs DEF h
      <4>. QED
        BY <1>1, <2>2, <4>1, <4>2 DEF Copies
    <3>2. delivered'[id][x] = delivered[id][x]
      BY <1>4, <2>1, <3>1 DEF Deliver, TypeOK
    <3>. QED
      BY <2>2, <3>2
  <2>3. CASE \E e \in Hop : e # h /\ x \in Behind[e] /\ Carries(wire[e], id)
    BY <1>13, <2>3
  <2>4. CASE f.id = id /\ x \in Behind[h]
    <3>1. f.kind = "data" /\ f.topics = {t}
      BY <1>12, <2>4 DEF Data
    <3>2. Carries(wire[h], id) /\ delivered[id][x] = 0
      <4>1. Carries(wire[h], id)
        BY <1>1, <1>7, <1>8, <1>10, <2>4 DEF Passes
      <4>. QED
        BY <1>1, <2>4, <4>1 DEF Copies
    <3>3. CASE x = n
      <4>1. delivered' = [delivered EXCEPT ![id][n] = @ + 1]
        BY <1>4, <2>1, <2>4, <3>1, <3>3 DEF Deliver, Listening
      <4>. QED
        BY <3>2, <3>3, <4>1 DEF TypeOK
    <3>4. CASE x # n
      <4>1. PICK y \in Neighbour(n) : y # m /\ x \in Behind[<<n, y>>]
        BY <1>1, <2>4, <3>4, Onwards DEF h
      <4>2. y \in Node /\ <<n, y>> \in Hop /\ {n, y} \in Link
        BY Neighbours DEF Neighbour
      <4>3. t \in route[<<n, y>>] /\ ready[{n, y}]
        <5>1. Behind[<<n, y>>] \cap owed[id] # {}
          BY <4>1
        <5>. QED
          BY <4>2, <5>1 DEF OwedVia
      <4>4. y \in Targets(n, {m}, f)
        BY <3>1, <4>1, <4>3 DEF Targets, Wanted
      <4>5. Carries(wire'[<<n, y>>], id)
        <5>1. Passes(n, {m}, f, <<n, y>>, id)
          BY <1>10, <4>2
        <5>2. <<n, y>>[1] = n /\ <<n, y>>[2] = y
          OBVIOUS
        <5>. QED
          BY <2>4, <4>4, <5>1, <5>2 DEF Passes
      <4>. QED
        BY <4>1, <4>2, <4>5
    <3>. QED
      BY <3>3, <3>4
  <2>5. CASE f.id # id /\ x \in Behind[h] /\ Carries(wire[h], id)
    <3>1. Carries(wire'[h], id)
      BY <1>1, <1>7, <1>8, <1>10, <2>5 DEF Passes
    <3>. QED
      BY <1>1, <2>5, <3>1
  <2>. QED
    BY <2>1, <2>2, <2>3, <2>4, <2>5
<1>. QED
  BY <1>4, <1>13, <1>14, <1>15, <1>16 DEF OwedVia

LEMMA OwesStep ==
    ASSUME TypeOK, TypeOK', Calls, Replays, NEW id \in Message, Copies(id), Owes(id), [Next]_vars
    PROVE  Owes(id)'
<1> USE DEF local, node, transport, history, bounds
<1>1. CASE owed'[id] = {}
  BY <1>1 DEF Owes
<1>2. ASSUME NEW n \in Node, DrainLocal(n)
      PROVE  Owes(id)'
  BY <1>2, OwedDrained
<1>3. ASSUME \/ \E n \in Node, t \in Topic : Unsubscribe(n, t)
             \/ \E l \in Link : LinkDown(l)
             \/ \E n \in Node, m \in Node : Lose(n, m)
             \/ \E n \in Node : Reboot(n)
      PROVE  Owes(id)'
  <2>1. owed'[id] = {}
    BY <1>3 DEF Unsubscribe, LinkDown, Lose, Reboot
  <2>. QED
    BY <1>1, <2>1
<1>4. ASSUME NEW t \in Topic, OwedVia(id, t), owed[id] # {}, owed' = owed,
             \/ UNCHANGED vars
             \/ \E l \in Link : LinkUp(l)
             \/ \E n \in Node : \/ RunnerStep(n) /\ ~DrainLocal(n)
                                \/ PeriodicReplay(n) \/ Mark(n) \/ Announce(n)
             \/ \E n \in Node, u \in Topic : Subscribe(n, u) \/ Publish(n, u)
      PROVE  OwedVia(id, t)'
  <2>1. /\ \A l \in Link : ready[l]
        /\ \A n \in Node : app[n].at # "unregister"
    BY <1>4 DEF OwedVia
  <2>2. CASE UNCHANGED <<wire, delivered, owed, route, queue, ready, app, subscribed, listeners>>
    <3>1. \A x : Listening(x, t) => Listening(x, t)'
      BY <2>2 DEF Listening
    <3>. QED
      BY <1>4, <2>1, <2>2, <3>1, OwedQuiet
  <2>3. CASE \/ UNCHANGED vars
             \/ \E n \in Node : AvailabilityReplay(n) \/ PeriodicReplay(n)
             \/ \E n, m \in Node : Observe(n, m)
    BY <2>2, <2>3 DEF vars, AvailabilityReplay, PeriodicReplay, Observe
  <2>4. ASSUME NEW l \in Link, LinkUp(l)
        PROVE  OwedVia(id, t)'
    BY <2>1, <2>4 DEF LinkUp
  <2>5. ASSUME NEW n \in Node, NEW u \in Topic, Subscribe(n, u)
        PROVE  OwedVia(id, t)'
    <3>1. \A x \in Node : app'[x].at # "unregister"
      <4>1. \E k \in Slot, at \in {"claimed", "counted"} :
               app' = [app EXCEPT ![n] = [at |-> at, topic |-> u, slot |-> k]]
        BY <2>5 DEF Subscribe
      <4>. QED
        BY <2>1, <4>1 DEF TypeOK
    <3>2. \A x \in Node : Listening(x, t) => Listening(x, t)'
      BY <2>5 DEF Subscribe, Listening, TypeOK
    <3>3. UNCHANGED <<wire, delivered, owed, route, queue, ready>>
      BY <2>5 DEF Subscribe
    <3>. QED
      BY <1>4, <2>1, <3>1, <3>2, <3>3, OwedQuiet
  <2>6. ASSUME NEW n \in Node, Mark(n)
        PROVE  OwedVia(id, t)'
    <3>1. \A x \in Node : app'[x].at # "unregister"
      BY <2>1, <2>6 DEF Mark, Idle, TypeOK
    <3>2. \A x \in Node : Listening(x, t) => Listening(x, t)'
      BY <2>6 DEF Mark, Listening, TypeOK
    <3>3. UNCHANGED <<wire, delivered, owed, route, queue, ready>>
      BY <2>6 DEF Mark
    <3>. QED
      BY <1>4, <2>1, <3>1, <3>2, <3>3, OwedQuiet
  <2>7. ASSUME NEW n \in Node, NEW f \in Frame, Put(n, f), f.id # id, f.kind # "unregister",
               UNCHANGED <<wire, delivered, owed, route, ready, subscribed, listeners>>,
               \A x \in Node : app'[x].at # "unregister"
        PROVE  OwedVia(id, t)'
    <3>1. \A x \in Node : Listening(x, t) => Listening(x, t)'
      BY <2>7 DEF Listening
    <3>. QED
      BY <1>4, <2>7, <3>1, OwedPut
  <2>8. \A S : Register(S).id # id /\ Register(S).kind # "unregister"
    BY NotZero DEF Register
  <2>9. ASSUME NEW n \in Node, Announce(n)
        PROVE  OwedVia(id, t)'
    <3>1. /\ app[n].at = "register" /\ Put(n, Register({app[n].topic}))
          /\ UNCHANGED <<wire, delivered, owed, route, ready, subscribed, listeners>>
      BY <2>1, <2>9 DEF Announce, Put
    <3>2. \A x \in Node : app'[x].at # "unregister"
      BY <2>1, <2>9 DEF Announce, Idle, TypeOK
    <3>3. Register({app[n].topic}) \in Frame
      BY <3>1, EventTypes DEF Calls
    <3>. QED
      BY <2>7, <2>8, <3>1, <3>2, <3>3
  <2>10. ASSUME NEW n \in Node, PublishReplay(n)
         PROVE  OwedVia(id, t)'
    <3>1. Register(runner[n].mask) \in Frame
      <4>1. runner[n].mask \subseteq Topic /\ runner[n].mask # {}
        BY <2>10 DEF PublishReplay, Replays, TypeOK
      <4>. QED
        BY <4>1, EventTypes
    <3>2. /\ UNCHANGED queue \/ Put(n, Register(runner[n].mask))
          /\ UNCHANGED <<wire, delivered, owed, route, ready, app, subscribed, listeners>>
      BY <2>10 DEF PublishReplay, Put
    <3>. QED
      BY <2>1, <2>2, <2>7, <2>8, <3>1, <3>2
  <2>11. ASSUME NEW n \in Node, NEW u \in Topic, Publish(n, u)
         PROVE  OwedVia(id, t)'
    <3>1. /\ published' = published + 1 /\ Put(n, Data(u, published'))
          /\ UNCHANGED <<wire, delivered, owed, route, ready, app, subscribed, listeners>>
      BY <2>11 DEF Publish, Put
    <3>2. published \in Nat /\ published' \in Message /\ id \in Nat
      BY <3>1, RoutingAssumption DEF TypeOK, Message
    <3>3. id # published'
      BY <1>4, <3>1, <3>2, OwedKnown
    <3>4. /\ Data(u, published').id = published'
          /\ Data(u, published').kind # "unregister"
      BY DEF Data
    <3>5. Data(u, published') \in Frame
      BY <3>2, EventTypes
    <3>. QED
      BY <2>1, <2>7, <3>1, <3>3, <3>4, <3>5
  <2>12. ASSUME NEW n \in Node, NEW m \in Neighbour(n), Ingress(n, m)
         PROVE  OwedVia(id, t)'
    BY <1>4, <2>12, OwedPassed
  <2>13. \A n : Neighbour(n) \subseteq Node
    BY DEF Neighbour
  <2>. QED
    BY <1>4, <2>3, <2>4, <2>5, <2>6, <2>9, <2>10, <2>11, <2>12, <2>13 DEF RunnerStep
<1>5. ASSUME \/ UNCHANGED vars
             \/ \E l \in Link : LinkUp(l)
             \/ \E n \in Node : \/ RunnerStep(n) /\ ~DrainLocal(n)
                                \/ PeriodicReplay(n) \/ Mark(n) \/ Announce(n)
             \/ \E n \in Node, u \in Topic : Subscribe(n, u) \/ Publish(n, u)
      PROVE  Owes(id)'
  <2>1. owed' = owed
    BY <1>5 DEF vars, LinkUp, RunnerStep, PeriodicReplay, Mark, Announce, Subscribe, Publish,
                AvailabilityReplay, PublishReplay, Observe, Ingress
  <2>. QED
    BY <1>4, <1>5, <2>1 DEF Owes
<1>6. \A n : Neighbour(n) \subseteq Node
  BY DEF Neighbour
<1>. QED
  BY <1>2, <1>3, <1>5, <1>6 DEF Next, Call

(***************************************************************************)
(* Results.                                                                *)
(***************************************************************************)
LEMMA InitIInv == Init => IInv
<1> SUFFICES ASSUME Init
             PROVE  IInv
  OBVIOUS
<1>1. TypeOK /\ Calls /\ Replays
  BY InitTypes
<1>2. ASSUME NEW id \in Message
      PROVE  Copies(id) /\ Owes(id)
  <2>1. ~Carries(<<>>, id) /\ Single(<<>>, id)
    BY DEF Carries, Single
  <2>2. /\ \A n \in Node : queue[n] = <<>> /\ delivered[id][n] = 0
        /\ \A e \in Hop : wire[e] = <<>>
        /\ owed[id] = {}
    BY DEF Init
  <2>3. \A e \in Hop : Behind[e] \subseteq Node
    BY Hops, BehindIs
  <2>4. Copies(id)
    BY <2>1, <2>2, <2>3 DEF Copies
  <2>. QED
    BY <2>2, <2>4 DEF Owes
<1>. QED
  BY <1>1, <1>2 DEF IInv

LEMMA IInvStep == IInv /\ [Next]_vars => IInv'
<1> SUFFICES ASSUME IInv, [Next]_vars
             PROVE  IInv'
  OBVIOUS
<1>1. TypeOK /\ Calls /\ Replays /\ \A id \in Message : Copies(id) /\ Owes(id)
  BY DEF IInv
<1>2. TypeOK' /\ Calls' /\ Replays'
  BY <1>1, StepTypes
<1>3. ASSUME NEW id \in Message
      PROVE  Copies(id)' /\ Owes(id)'
  BY <1>1, <1>2, CopiesStep, OwesStep
<1>. QED
  BY <1>2, <1>3 DEF IInv

\* In any tree, whatever links fail, frames are lost and nodes reboot: each
\* copy of a message has a part of the tree to itself, and while a message is
\* owed to a node a copy of it is on the way there over routes that stay.
THEOREM Inductive == Spec => []IInv
<1>. QED
  BY InitIInv, IInvStep, PTL DEF Spec

\* The slots, topic masks, listeners, queues, routes and frames of every node
\* stay in their domains; in particular no listener count goes below zero and
\* no replay announces an empty mask.
THEOREM TypeCorrect == Spec => []TypeOK
<1>1. IInv => TypeOK
  BY DEF IInv
<1>. QED
  BY <1>1, Inductive, PTL

\* No node's listeners are given a message twice, however the frames of
\* dispatchFor cross and links come and go.
THEOREM NotTwice == Spec => []AtMostOnce
<1>1. IInv => AtMostOnce
  BY DEF IInv, Copies, AtMostOnce
<1>. QED
  BY <1>1, Inductive, PTL

\* A message drained with all links up, all routes in place and no
\* unsubscription under way has been delivered to all who listened then once
\* no copy is left, unless a fault or an unsubscription came.
THEOREM Reaches == Spec => []ReachesListeners
<1>1. IInv => ReachesListeners
  <2> SUFFICES ASSUME IInv, NEW id \in Message, \A f \in InTransit : f.id # id, NEW n \in owed[id]
               PROVE  delivered[id][n] = 1
    BY DEF ReachesListeners
  <2>1. PICK t \in Topic : OwedVia(id, t)
    BY DEF IInv, Owes
  <2>2. \A e \in Hop : ~Carries(wire[e], id)
    <3>1. \A e \in Hop : \A i \in DOMAIN wire[e] : wire[e][i] \in InTransit
      BY Transit DEF Has
    <3>. QED
      BY <3>1 DEF Carries
  <2>. QED
    BY <2>1, <2>2 DEF OwedVia
<1>. QED
  BY <1>1, Inductive, PTL
=============================================================================
