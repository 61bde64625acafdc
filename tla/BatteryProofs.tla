--------------------------- MODULE BatteryProofs ---------------------------
(***************************************************************************)
(* The battery monitor's calibration for any packs, sizes of a session and *)
(* of the journal, and any number of power failures and failed appends.    *)
(***************************************************************************)
EXTENDS Battery, SequenceTheorems, FiniteSetTheorems, WellFoundedInduction, TLAPS

(***************************************************************************)
(* Induction over the natural numbers, for a set of them.                  *)
(***************************************************************************)
LEMMA SetInduction ==
    ASSUME NEW S, 0 \in S, \A n \in Nat : n \in S => n + 1 \in S
    PROVE  Nat \subseteq S
<1> SUFFICES ASSUME Nat \ S # {} PROVE FALSE
  OBVIOUS
<1> DEFINE R == OpToRel(<, Nat)
<1>1. \A x, y \in Nat : x < y => <<x, y>> \in R
  BY DEF OpToRel
<1>2. IsWellFoundedOn(R, Nat)
  BY NatLessThanWellFounded
<1> HIDE DEF R
<1>3. PICK x \in Nat \ S : \A y \in Nat \ S : ~ (<<y, x>> \in R)
  BY <1>2, WFMin
<1>4. x # 0 /\ x - 1 \in Nat /\ x - 1 < x
  BY <1>3
<1>5. x - 1 \in S
  BY <1>1, <1>3, <1>4
<1>6. (x - 1) + 1 \in S
  BY <1>4, <1>5
<1>. QED
  BY <1>3, <1>6

(***************************************************************************)
(* The scan of the journal, record by record.                              *)
(***************************************************************************)

\* f is the scan of the first n records of j, prefix by prefix
ScanOf(f, j, n, p) ==
    f = [i \in 0 .. n |-> IF i = 0 THEN Unscanned ELSE ScanRecord(f[i - 1], j[i], p)]

LEMMA ScanExists ==
    ASSUME NEW j, NEW p
    PROVE  \A n \in Nat : \E f : ScanOf(f, j, n, p)
<1> DEFINE S == {n \in Nat : \E f : ScanOf(f, j, n, p)}
<1>1. 0 \in S
  <2> DEFINE f == [i \in 0 .. 0 |-> Unscanned]
  <2>1. ScanOf(f, j, 0, p)
    BY DEF ScanOf
  <2>. QED
    BY <2>1
<1>2. ASSUME NEW n \in Nat, n \in S
      PROVE  n + 1 \in S
  <2>1. PICK f : ScanOf(f, j, n, p)
    BY <1>2
  <2> DEFINE next(i) == IF i = n + 1 THEN ScanRecord(f[n], j[n + 1], p) ELSE f[i]
             g == [i \in 0 .. n + 1 |-> next(i)]
  <2>2. \A i \in 0 .. n : f[i] = IF i = 0 THEN Unscanned ELSE ScanRecord(f[i - 1], j[i], p)
    BY <2>1 DEF ScanOf
  <2>3. \A i \in 0 .. n + 1 :
          next(i) = IF i = 0 THEN Unscanned ELSE ScanRecord(g[i - 1], j[i], p)
    <3>1. CASE n + 1 = n
      BY <3>1
    <3> SUFFICES ASSUME NEW i \in 0 .. n + 1
                 PROVE  next(i) = IF i = 0 THEN Unscanned ELSE ScanRecord(g[i - 1], j[i], p)
      OBVIOUS
    <3>2. CASE i = n + 1
      <4>1. g[i - 1] = f[n] /\ i # 0
        BY <3>2
      <4>. QED
        BY <3>2, <4>1
    <3>3. CASE i # n + 1 /\ i # 0
      <4>1. g[i - 1] = f[i - 1] /\ i \in 0 .. n
        BY <3>3
      <4>. QED
        BY <2>2, <3>3, <4>1
    <3>4. CASE i = 0
      BY <2>2, <3>4
    <3>. QED
      BY <3>2, <3>3, <3>4
  <2>4. ScanOf(g, j, n + 1, p)
    BY <2>3, Zenon DEF ScanOf
  <2>. QED
    BY <2>4
<1>. QED
  BY <1>1, <1>2, SetInduction

\* Two scans agree on the records two journals have in common.
LEMMA ScanUnique ==
    ASSUME NEW j, NEW k, NEW p, NEW m \in Nat, NEW n \in Nat, m <= n,
           \A i \in 1 .. m : j[i] = k[i]
    PROVE  \A f, g : ScanOf(f, j, m, p) /\ ScanOf(g, k, n, p) => f[m] = g[m]
<1> SUFFICES ASSUME NEW f, NEW g, ScanOf(f, j, m, p), ScanOf(g, k, n, p)
             PROVE  f[m] = g[m]
  OBVIOUS
<1> DEFINE S == {i \in Nat : i <= m => f[i] = g[i]}
<1>1. \A i \in 0 .. m : f[i] = IF i = 0 THEN Unscanned ELSE ScanRecord(f[i - 1], j[i], p)
  BY DEF ScanOf
<1>2. \A i \in 0 .. n : g[i] = IF i = 0 THEN Unscanned ELSE ScanRecord(g[i - 1], k[i], p)
  BY DEF ScanOf
<1>3. 0 \in S
  BY <1>1, <1>2
<1>4. ASSUME NEW i \in Nat, i \in S
      PROVE  i + 1 \in S
  <2> SUFFICES ASSUME i + 1 <= m PROVE f[i + 1] = g[i + 1]
    OBVIOUS
  <2>1. f[i] = g[i] /\ j[i + 1] = k[i + 1] /\ i + 1 \in 0 .. m /\ i + 1 \in 0 .. n
        /\ (i + 1) - 1 = i /\ i + 1 # 0
    BY <1>4
  <2>. QED
    BY <1>1, <1>2, <2>1
<1> HIDE DEF S
<1>5. m \in S
  BY <1>3, <1>4, SetInduction
<1>. QED
  BY <1>5 DEF S

LEMMA ScanIs ==
    ASSUME NEW j, NEW p, Len(j) \in Nat
    PROVE  \E f : ScanOf(f, j, Len(j), p) /\ Scan(j, p) = f[Len(j)]
<1> DEFINE f == CHOOSE g : ScanOf(g, j, Len(j), p)
<1>1. ScanOf(f, j, Len(j), p)
  BY ScanExists
<1>2. Scan(j, p) = f[Len(j)]
  BY DEF Scan, ScanOf
<1>. QED
  BY <1>1, <1>2

\* An empty journal.
LEMMA ScanEmpty == \A p : Scan(<<>>, p) = Unscanned
<1> SUFFICES ASSUME NEW p PROVE Scan(<<>>, p) = Unscanned
  OBVIOUS
<1>1. PICK f : ScanOf(f, <<>>, Len(<<>>), p) /\ Scan(<<>>, p) = f[Len(<<>>)]
  BY ScanIs
<1>2. Len(<<>>) = 0
  OBVIOUS
<1>3. f[0] = Unscanned
  BY <1>1, <1>2 DEF ScanOf
<1>. QED
  BY <1>1, <1>2, <1>3

\* One record more.
LEMMA ScanAppend ==
    ASSUME NEW D, NEW j \in Seq(D), NEW r \in D
    PROVE  \A p : Scan(Append(j, r), p) = ScanRecord(Scan(j, p), r, p)
<1> SUFFICES ASSUME NEW p PROVE Scan(Append(j, r), p) = ScanRecord(Scan(j, p), r, p)
  OBVIOUS
<1> DEFINE k == Append(j, r)
           n == Len(j)
<1>1. n \in Nat /\ Len(k) = n + 1 /\ k[n + 1] = r /\ \A i \in 1 .. n : j[i] = k[i]
  OBVIOUS
<1> HIDE DEF k
<1>2. PICK f : ScanOf(f, j, n, p) /\ Scan(j, p) = f[n]
  BY <1>1, ScanIs
<1>3. PICK g : ScanOf(g, k, n + 1, p) /\ Scan(k, p) = g[n + 1]
  BY <1>1, ScanIs
<1> HIDE DEF n
<1>4. f[n] = g[n]
  <2>1. n \in Nat /\ n + 1 \in Nat /\ n <= n + 1
    BY <1>1
  <2>2. \A i \in 1 .. n : j[i] = k[i]
    BY <1>1
  <2>3. ScanOf(f, j, n, p) /\ ScanOf(g, k, n + 1, p)
    BY <1>2, <1>3
  <2>. QED
    BY <2>1, <2>2, <2>3, ScanUnique
<1>5. g[n + 1] = ScanRecord(g[(n + 1) - 1], k[n + 1], p)
  BY <1>1, <1>3 DEF ScanOf
<1>6. (n + 1) - 1 = n
  BY <1>1
<1>. QED
  BY <1>2, <1>3, <1>1, <1>4, <1>5, <1>6 DEF k

(***************************************************************************)
(* The inductive invariant.                                                *)
(***************************************************************************)
Candidate ==
    [session : Session, next : 0 .. MaxRecords, checksum : SUBSET Sequence,
     points : SUBSET (0 .. PointCount - 1), ours : BOOLEAN]
ScanState == [candidate : Candidate, corrupt : BOOLEAN, highest : Session, profile : Session]

\* The scan stays within its types, and a session continues no further than
\* the journal goes.
ScanTypes ==
    \A p \in Pack : /\ Scanned(p) \in ScanState
                    /\ Scanned(p).candidate.next <= Len(journal)

\* Configurations differ in the profile and in whose a session is, not in
\* where the journal stands.
Agree(s, t) ==
    /\ s.corrupt = t.corrupt
    /\ s.candidate.session = t.candidate.session
    /\ s.candidate.next = t.candidate.next
    /\ s.candidate.checksum = t.candidate.checksum
    /\ s.candidate.points = t.candidate.points

ScansAgree == \A p, q \in Pack : Agree(Scanned(p), Scanned(q))

Counts ==
    /\ sequence <= Len(journal) /\ dangling.sequence <= Len(journal)
    /\ cal.interval => cal.persisted < MaxIntervals

\* What the calibration has still to write at each of its stages.
Stages ==
    /\ cal.state = "ArmedFull" =>
          ~cal.headerPending /\ ~cal.headerWritten /\ ~cal.interval /\ cal.persisted = 0
    /\ cal.state = "ArmedFull" \/ cal.headerPending =>
          sequence = 0 /\ checksum = {} /\ cal.session # 0 /\ ~cal.headerWritten
    /\ cal.state \in {"Discharging", "Finalizing"} => cal.headerPending \/ cal.headerWritten
    /\ cal.headerWritten => cal.session # 0 /\ ~rebootFooter
    /\ cal.interval => cal.headerPending \/ cal.headerWritten
    /\ cal.footerPending => cal.headerWritten /\ cal.state \notin {"ArmedFull", "Discharging"}
    /\ cal.state \in {"ArmedFull", "Discharging"} \/ cal.headerPending => built = "none"

\* A session whose header is written is the one the scan would be in, or its
\* footer is written too.
Open ==
    \A p \in Pack :
        LET c == Scanned(p).candidate
        IN  /\ c.session = cal.session /\ c.next = sequence /\ c.checksum = checksum
            /\ (c.ours <=> p = pack)
            /\ cal.state \in {"Discharging", "Finalizing"} =>
                  c.points = IF built = "done" THEN 0 .. point - 1 ELSE {}

Closed ==
    /\ ~Active(cal) /\ ~cal.interval
    /\ \E i \in DOMAIN journal : journal[i].type = "footer" /\ journal[i].session = cal.session

Running == cal.headerWritten => Open \/ Closed

\* The reboot footer is due to the session the scan ends in.
Owing ==
    rebootFooter =>
        /\ dangling.session # 0
        /\ \A p \in Pack : LET c == Scanned(p).candidate
                           IN  c.session = dangling.session /\ c.next = dangling.sequence

IInv ==
    /\ TypeOK /\ ScanTypes /\ ScansAgree /\ Counts /\ Stages
    /\ Running /\ Owing /\ ScanFaithful /\ SessionFits

(***************************************************************************)
(* One record of the scan.                                                 *)
(***************************************************************************)
\* The scan with another candidate.
LEMMA Replaced ==
    ASSUME NEW s \in ScanState, NEW c \in Candidate
    PROVE  LET t == [s EXCEPT !.candidate = c]
           IN  /\ t \in ScanState /\ t.candidate = c
               /\ t.corrupt = s.corrupt /\ t.profile = s.profile
BY DEF ScanState

\* The scan with a larger session id.
LEMMA Highest ==
    ASSUME NEW s \in ScanState, NEW i \in Session
    PROVE  LET t == [s EXCEPT !.highest = IF i > @ THEN i ELSE @]
           IN  /\ t \in ScanState /\ t.candidate = s.candidate
               /\ t.corrupt = s.corrupt /\ t.profile = s.profile
BY DEF ScanState

\* A header begins a candidate.
LEMMA ScanHeader ==
    ASSUME NEW s \in ScanState, NEW p, NEW k \in Pack, NEW i \in Session, NEW q \in Sequence,
           q < MaxRecords, NEW r, r = Header(i, q, k)
    PROVE  LET t == ScanRecord(s, r, p)
           IN  /\ t \in ScanState
               /\ t.corrupt = s.corrupt /\ t.profile = s.profile
               /\ t.candidate = [session |-> i, next |-> q + 1, checksum |-> {q},
                                 points |-> {}, ours |-> k = p]
<1> DEFINE c == [session |-> i, next |-> q + 1, checksum |-> {q}, points |-> {}, ours |-> k = p]
           u == [s EXCEPT !.highest = IF i > @ THEN i ELSE @]
<1>1. c \in Candidate
  BY BatteryAssumption DEF Candidate, Sequence
<1>2. u \in ScanState /\ u.candidate = s.candidate
      /\ u.corrupt = s.corrupt /\ u.profile = s.profile
  BY Highest
<1>3. ScanRecord(s, r, p) = [u EXCEPT !.candidate = c]
  BY DEF ScanRecord, Header
<1> HIDE DEF c, u
<1> DEFINE w == [u EXCEPT !.candidate = c]
<1>4. w \in ScanState /\ w.candidate = c /\ w.corrupt = u.corrupt /\ w.profile = u.profile
  BY <1>1, <1>2, Replaced
<1> HIDE DEF w
<1>. QED
  BY <1>2, <1>3, <1>4 DEF c, w

\* A record that continues the candidate's session.
LEMMA ScanMore ==
    ASSUME NEW s \in ScanState, NEW p, NEW r \in Record, r.type \in {"interval", "point"},
           Continues(s.candidate, r), s.candidate.next < MaxRecords
    PROVE  LET t == ScanRecord(s, r, p)
               c == s.candidate
           IN  /\ t \in ScanState
               /\ t.corrupt = s.corrupt /\ t.profile = s.profile
               /\ t.candidate.session = c.session /\ t.candidate.next = c.next + 1
               /\ t.candidate.checksum = c.checksum \cup {r.sequence}
               /\ t.candidate.ours = c.ours
               /\ t.candidate.points = IF r.type = "point" THEN c.points \cup {r.point}
                                       ELSE c.points
<1> DEFINE c == s.candidate
           t == [s EXCEPT !.highest = IF r.session > @ THEN r.session ELSE @]
           more == [c EXCEPT !.next = @ + 1, !.checksum = @ \cup {r.sequence},
                             !.points = IF r.type = "point" THEN @ \cup {r.point} ELSE @]
<1>1. ScanRecord(s, r, p) = [t EXCEPT !.candidate = more]
  BY DEF ScanRecord
<1>2. c \in Candidate
  BY DEF ScanState
<1>3. r.session \in Session /\ r.sequence \in Sequence
  BY DEF Record
<1>4. r.type = "point" => r.point \in 0 .. PointCount - 1
  BY DEF Record
<1>5. /\ more \in Candidate /\ more.session = c.session /\ more.next = c.next + 1
      /\ more.checksum = c.checksum \cup {r.sequence} /\ more.ours = c.ours
      /\ more.points = IF r.type = "point" THEN c.points \cup {r.point} ELSE c.points
  <2> DEFINE grown == IF r.type = "point" THEN c.points \cup {r.point} ELSE c.points
  <2>1. c.next + 1 \in 0 .. MaxRecords
    BY <1>2, BatteryAssumption DEF Candidate
  <2>2. c.checksum \cup {r.sequence} \in SUBSET Sequence
    BY <1>2, <1>3 DEF Candidate
  <2>3. grown \in SUBSET (0 .. PointCount - 1)
    BY <1>2, <1>4 DEF Candidate
  <2> HIDE DEF grown
  <2>4. more = [c EXCEPT !.next = @ + 1, !.checksum = @ \cup {r.sequence}, !.points = grown]
    BY DEF grown
  <2> HIDE DEF c, more
  <2>. QED
    BY <1>2, <2>1, <2>2, <2>3, <2>4 DEF Candidate, grown
<1>6. t \in ScanState /\ t.corrupt = s.corrupt /\ t.profile = s.profile
  BY <1>3, Highest
<1> HIDE DEF more, t
<1>. QED
  BY <1>1, <1>5, <1>6, Replaced

\* A footer ends the candidate, whether it continues it or not.
LEMMA ScanFooter ==
    ASSUME NEW s \in ScanState, NEW p, NEW r \in Record, r.type = "footer"
    PROVE  LET t == ScanRecord(s, r, p)
               c == s.candidate
           IN  /\ t \in ScanState
               /\ t.candidate.session = 0 /\ t.candidate.next = 0
               /\ t.candidate.checksum = {} /\ t.candidate.points = {}
               /\ Continues(c, r) => t.corrupt = s.corrupt
               /\ ~Continues(c, r) => t.corrupt = TRUE
               /\ t.profile = IF Continues(c, r) /\ Completes(c, r) /\ c.ours
                              THEN c.session ELSE s.profile
<1>1. r.session \in Session
  BY DEF Record
<1>2. NoCandidate \in Candidate
  BY BatteryAssumption DEF NoCandidate, Candidate, Session, Sequence
<1>3. s.candidate.session \in Session
  BY DEF ScanState, Candidate
<1> DEFINE u == [s EXCEPT !.highest = IF r.session > @ THEN r.session ELSE @]
<1>4. /\ u \in ScanState /\ u.candidate = s.candidate
      /\ u.corrupt = s.corrupt /\ u.profile = s.profile
  BY <1>1, Highest
<1>5. NoCandidate.session = 0 /\ NoCandidate.next = 0 /\ NoCandidate.checksum = {}
      /\ NoCandidate.points = {}
  BY DEF NoCandidate
<1> HIDE DEF u
<1>6. CASE Continues(s.candidate, r)
  <2> DEFINE i == IF Completes(s.candidate, r) /\ s.candidate.ours
                  THEN s.candidate.session ELSE u.profile
             w == [u EXCEPT !.candidate = NoCandidate, !.profile = i]
  <2>1. ScanRecord(s, r, p) = w
    BY <1>6 DEF ScanRecord, u
  <2>2. i \in Session
    BY <1>3, <1>4 DEF ScanState
  <2> HIDE DEF i
  <2>3. w \in ScanState /\ w.candidate = NoCandidate /\ w.corrupt = u.corrupt /\ w.profile = i
    BY <1>2, <1>4, <2>2 DEF ScanState
  <2> HIDE DEF w
  <2>. QED
    BY <1>4, <1>5, <1>6, <2>1, <2>3 DEF i
<1>7. CASE ~Continues(s.candidate, r)
  <2> DEFINE w == [u EXCEPT !.corrupt = TRUE, !.candidate = NoCandidate]
  <2>1. ScanRecord(s, r, p) = w
    BY <1>7 DEF ScanRecord, u
  <2>2. w \in ScanState /\ w.candidate = NoCandidate /\ w.corrupt = TRUE
        /\ w.profile = u.profile
    BY <1>2, <1>4 DEF ScanState
  <2> HIDE DEF w
  <2>. QED
    BY <1>4, <1>5, <1>7, <2>1, <2>2
<1>. QED
  BY <1>6, <1>7

(***************************************************************************)
(* What samples, requests and a late sensor may change of a session.       *)
(***************************************************************************)
Follows(c, d) ==
    /\ d \in CalibrationType
    /\ d.session = c.session /\ d.owed = c.owed /\ d.persisted = c.persisted
    /\ d.headerPending = c.headerPending /\ d.headerWritten = c.headerWritten
    /\ d.interval => c.interval \/ (c.state = "Discharging" /\ c.persisted < MaxIntervals)
    /\ \/ d.state = c.state
       \/ Terminal(d)
       \/ c.state = "Discharging" /\ d.state = "Finalizing"
    /\ d.footerPending =>
          c.footerPending \/ (c.headerWritten /\ (Terminal(d) \/ d.state = "Finalizing"))

LEMMA FollowsItself == \A c \in CalibrationType : Follows(c, c)
BY DEF Follows

LEMMA FollowsOn ==
    ASSUME NEW c, NEW d, NEW e, Follows(c, d), Follows(d, e)
    PROVE  Follows(c, e)
BY DEF Follows, Terminal

LEMMA InvalidateFollows == \A c \in CalibrationType : Follows(c, Invalidate(c))
BY DEF Follows, Invalidate, CalibrationType, Terminal

LEMMA QueueFollows ==
    ASSUME NEW c \in CalibrationType, c.state = "Discharging"
    PROVE  Follows(c, QueueInterval(c)) /\ Follows(c, QueuePartialInterval(c))
<1> DEFINE d == [c EXCEPT !.interval = TRUE, !.samples = FALSE]
<1>1. c.persisted < MaxIntervals => Follows(c, d)
  BY DEF Follows, CalibrationType, Terminal
<1>2. c.persisted \in Nat /\ MaxIntervals \in Nat
  BY BatteryAssumption DEF CalibrationType
<1> HIDE DEF d
<1>3. Follows(c, QueueInterval(c))
  BY <1>1, <1>2, InvalidateFollows DEF QueueInterval, d
<1>. QED
  BY <1>3, FollowsItself DEF QueuePartialInterval

LEMMA FinalizeFollows ==
    ASSUME NEW c \in CalibrationType, c.state = "Discharging"
    PROVE  Follows(c, [QueuePartialInterval(c) EXCEPT !.state = "Finalizing"])
<1> DEFINE d == QueuePartialInterval(c)
<1>1. Follows(c, d)
  BY QueueFollows
<1> HIDE DEF d
<1>2. Follows(c, [d EXCEPT !.state = "Finalizing"])
  BY <1>1 DEF Follows, CalibrationType, Terminal
<1>. QED
  BY <1>2 DEF d

LEMMA AbortFollows == \A c \in CalibrationType : Follows(c, Abort(c))
<1> SUFFICES ASSUME NEW c \in CalibrationType PROVE Follows(c, Abort(c))
  OBVIOUS
<1> DEFINE d == IF c.state = "Discharging" THEN QueuePartialInterval(c) ELSE c
<1>1. Follows(c, d)
  BY QueueFollows, FollowsItself
<1> HIDE DEF d
<1>2. Follows(c, [d EXCEPT !.state = "Aborted", !.footerPending = c.headerWritten])
  BY <1>1 DEF Follows, CalibrationType, Terminal
<1>. QED
  BY <1>2, FollowsItself DEF Abort, d

LEMMA RejectFollows == \A c \in CalibrationType : Follows(c, RejectStart(c))
<1> SUFFICES ASSUME NEW c \in CalibrationType PROVE Follows(c, RejectStart(c))
  OBVIOUS
<1>1. Follows(c, [c EXCEPT !.state = "Invalid"])
  BY DEF Follows, CalibrationType, Terminal
<1>. QED
  BY <1>1, FollowsItself DEF RejectStart

LEMMA TimeoutFollows ==
    ASSUME NEW c \in CalibrationType, NEW late
    PROVE  Follows(c, CheckSensorTimeout(c, late))
<1>1. CASE late /\ c.state = "Discharging"
  <2>1. Follows(c, QueuePartialInterval(c))
    BY <1>1, QueueFollows
  <2>2. QueuePartialInterval(c) \in CalibrationType
    BY <2>1 DEF Follows
  <2>. QED
    BY <1>1, <2>1, <2>2, InvalidateFollows, FollowsOn DEF CheckSensorTimeout
<1>2. CASE ~(late /\ c.state = "Discharging")
  BY <1>2, FollowsItself DEF CheckSensorTimeout
<1>. QED
  BY <1>1, <1>2

LEMMA RequestFollows == \A c \in CalibrationType : Follows(c, RequestFooterIfTerminal(c))
<1> SUFFICES ASSUME NEW c \in CalibrationType PROVE Follows(c, RequestFooterIfTerminal(c))
  OBVIOUS
<1>1. Terminal(c) /\ c.headerWritten => Follows(c, [c EXCEPT !.footerPending = TRUE])
  BY DEF Follows, CalibrationType, Terminal
<1>. QED
  BY <1>1, FollowsItself DEF RequestFooterIfTerminal

\* The steps that follow a request, in every call of work().
LEMMA ControlFollows ==
    ASSUME NEW c, NEW d, NEW late, Follows(c, d)
    PROVE  Follows(c, RequestFooterIfTerminal(CheckSensorTimeout(d, late)))
<1>1. Follows(d, CheckSensorTimeout(d, late))
  BY TimeoutFollows DEF Follows
<1>2. CheckSensorTimeout(d, late) \in CalibrationType
  BY <1>1 DEF Follows
<1>3. Follows(CheckSensorTimeout(d, late), RequestFooterIfTerminal(CheckSensorTimeout(d, late)))
  BY <1>2, RequestFollows
<1>. QED
  BY <1>1, <1>3, FollowsOn

(***************************************************************************)
(* The steps that leave the journal alone.                                 *)
(***************************************************************************)
LEMMA Quiet ==
    ASSUME ScanTypes, ScansAgree, ScanFaithful, UNCHANGED <<journal, completed>>
    PROVE  /\ \A p : Scanned(p)' = Scanned(p)
           /\ ScanTypes' /\ ScansAgree' /\ ScanFaithful'
<1>1. \A p : Scanned(p)' = Scanned(p)
  BY DEF Scanned
<1>2. Repeated' = Repeated
  BY DEF Repeated
<1>3. ScanTypes'
  BY <1>1 DEF ScanTypes
<1>4. ScansAgree'
  BY <1>1 DEF ScansAgree, Agree
<1>5. ScanFaithful'
  BY <1>1, <1>2 DEF ScanFaithful
<1>. QED
  BY <1>1, <1>3, <1>4, <1>5

\* What a step may do to the curve: nothing, drop it with the session, or build
\* it while the session is finalized.
CurveKept ==
    \/ UNCHANGED <<built, point>>
    \/ ~Active(cal)' /\ built' = "none"
    \/ /\ cal.state = "Finalizing" /\ ~cal.headerPending /\ cal' = cal
       /\ built # "done" /\ (built' = "done" => point' = 0)

Calm ==
    /\ Follows(cal, cal') /\ CurveKept
    /\ UNCHANGED <<journal, completed, pack, writer, dangling, rebootFooter>>

LEMMA CalmCounts ==
    ASSUME IInv, Calm
    PROVE  Counts' /\ Stages'
<1>1. UNCHANGED <<journal, sequence, checksum, dangling, rebootFooter>>
  BY DEF Calm, writer
<1>2. Counts'
  BY <1>1 DEF IInv, Calm, Counts, Follows
<1>3. cal \in CalibrationType /\ Follows(cal, cal')
  BY DEF IInv, TypeOK, Calm
<1>4. (cal.state \in {"ArmedFull", "Discharging"} \/ cal.headerPending => built = "none")'
  BY <1>3 DEF IInv, Stages, Calm, CurveKept, Follows, Active, Terminal
<1>. QED
  BY <1>1, <1>2, <1>3, <1>4 DEF IInv, Stages, Follows, Terminal

LEMMA CalmRunning ==
    ASSUME IInv, Calm
    PROVE  Running' /\ Owing'
<1>1. UNCHANGED <<journal, sequence, checksum, pack, dangling, rebootFooter>>
  BY DEF Calm, writer
<1>2. \A p : Scanned(p)' = Scanned(p)
  BY Quiet DEF IInv, Calm
<1>3. Owing'
  BY <1>1, <1>2 DEF IInv, Owing
<1>4. cal'.headerWritten = cal.headerWritten /\ cal'.session = cal.session
  BY DEF Calm, Follows
<1>5. ASSUME Open PROVE Open'
  <2> SUFFICES ASSUME NEW p \in Pack,
                      cal'.state \in {"Discharging", "Finalizing"}
               PROVE  Scanned(p).candidate.points = IF built' = "done" THEN 0 .. point' - 1 ELSE {}
    BY <1>1, <1>2, <1>4, <1>5 DEF Open
  <2>1. cal.state \in {"Discharging", "Finalizing"}
        /\ (cal.state # cal'.state => cal.state = "Discharging")
    BY DEF Calm, Follows, Terminal
  <2>2. Scanned(p).candidate.points = IF built = "done" THEN 0 .. point - 1 ELSE {}
    BY <1>5, <2>1 DEF Open
  <2>3. CASE UNCHANGED <<built, point>>
    BY <2>2, <2>3
  <2>4. CASE ~Active(cal)'
    BY <2>4 DEF Active
  <2>5. CASE built # "done" /\ (built' = "done" => point' = 0)
    <3>1. 0 .. 0 - 1 = {}
      OBVIOUS
    <3>. QED
      BY <2>2, <2>5, <3>1
  <2>. QED
    BY <2>3, <2>4, <2>5 DEF Calm, CurveKept
<1>6. ASSUME Closed PROVE Closed'
  <2>1. ~Active(cal)' /\ ~cal'.interval
    BY <1>6 DEF Closed, Calm, Follows, Active, Terminal
  <2>. QED
    BY <1>1, <1>4, <1>6, <2>1 DEF Closed
<1>. QED
  BY <1>3, <1>4, <1>5, <1>6 DEF IInv, Running

LEMMA CalmFits ==
    ASSUME IInv, Calm, TypeOK'
    PROVE  SessionFits'
<1> SUFFICES ASSUME Active(cal)'
             PROVE  Remaining' <= Remaining /\ Remaining' \in Nat /\ Remaining \in Nat
                    /\ UNCHANGED <<journal, rebootFooter>> /\ cal'.owed = cal.owed
                    /\ Active(cal)
  <2>1. SessionFits /\ Len(journal) \in Nat /\ MaxRecords \in Nat
    BY BatteryAssumption DEF IInv, TypeOK
  <2>. QED
    BY <2>1 DEF SessionFits
<1>1. cal.persisted \in 0 .. MaxIntervals /\ MaxIntervals \in Nat /\ PointCount \in Nat
      /\ point \in 0 .. PointCount /\ point' \in 0 .. PointCount
  BY BatteryAssumption DEF IInv, TypeOK, CalibrationType
<1>2. cal'.persisted = cal.persisted /\ cal'.headerWritten = cal.headerWritten
      /\ cal'.owed = cal.owed /\ UNCHANGED <<journal, rebootFooter>>
  BY DEF Calm, Follows
<1>3. \/ cal'.state = cal.state
      \/ cal.state = "Discharging" /\ cal'.state = "Finalizing"
  BY DEF Calm, Follows, Active, Terminal
<1>4. Active(cal)
  BY <1>3 DEF Active
<1>5. cal'.interval => cal.interval \/ (cal.state = "Discharging" /\ cal.persisted < MaxIntervals)
  BY DEF Calm, Follows
<1>6. cal.interval => cal.persisted < MaxIntervals
  BY DEF IInv, Counts
<1>7. \/ UNCHANGED <<built, point>>
      \/ built # "done" /\ (built' = "done" => point' = 0)
  BY DEF Calm, CurveKept
<1> DEFINE header == IF cal.headerWritten THEN 0 ELSE 1
           queued(c) == IF c.interval THEN 1 ELSE 0
           points(b, i) == IF b = "done" THEN PointCount - i ELSE PointCount
<1>8. /\ points(built, point) \in Nat /\ points(built', point') \in Nat
      /\ points(built', point') <= PointCount
      /\ points(built', point') <= points(built, point)
  <2>1. \A b, i : i \in 0 .. PointCount =>
           points(b, i) \in Nat /\ points(b, i) <= PointCount
           /\ (b # "done" => points(b, i) = PointCount)
    BY <1>1
  <2>2. CASE built' = built /\ point' = point
    <3> HIDE DEF points
    <3>. QED
      BY <1>1, <2>1, <2>2
  <2>3. CASE built # "done"
    <3> HIDE DEF points
    <3>1. points(built, point) = PointCount /\ points(built', point') <= PointCount
          /\ points(built', point') \in Nat
      BY <1>1, <2>1, <2>3
    <3>. QED
      BY <1>1, <3>1
  <2>. QED
    BY <1>7, <2>2, <2>3
<1>9. header \in Nat
  OBVIOUS
<1>10. CASE cal.state # "Finalizing" /\ cal'.state = cal.state
  <2>1. Remaining = header + (MaxIntervals - cal.persisted) + PointCount + 1
        /\ Remaining' = header + (MaxIntervals - cal.persisted) + PointCount + 1
    BY <1>2, <1>10 DEF Remaining
  <2>. QED
    BY <1>1, <1>2, <1>4, <1>9, <2>1
<1>11. CASE cal.state = "Discharging" /\ cal'.state = "Finalizing"
  <2>1. Remaining = header + (MaxIntervals - cal.persisted) + PointCount + 1
        /\ Remaining' = header + queued(cal') + points(built', point') + 1
    BY <1>2, <1>11 DEF Remaining
  <2>2. queued(cal') \in Nat /\ queued(cal') <= MaxIntervals - cal.persisted
    BY <1>1, <1>5, <1>6
  <2> HIDE DEF header, queued, points
  <2>. QED
    BY <1>1, <1>2, <1>4, <1>8, <1>9, <2>1, <2>2
<1>12. CASE cal.state = "Finalizing" /\ cal'.state = cal.state
  <2>1. Remaining = header + queued(cal) + points(built, point) + 1
        /\ Remaining' = header + queued(cal') + points(built', point') + 1
    BY <1>2, <1>12 DEF Remaining
  <2>2. queued(cal') \in Nat /\ queued(cal) \in Nat /\ queued(cal') <= queued(cal)
    BY <1>5, <1>12
  <2> HIDE DEF header, queued, points
  <2>. QED
    BY <1>1, <1>2, <1>4, <1>8, <1>9, <2>1, <2>2
<1>. QED
  BY <1>3, <1>10, <1>11, <1>12

\* A step that leaves the journal alone and follows the session.
LEMMA CalmStep ==
    ASSUME IInv, Calm, TypeOK'
    PROVE  IInv'
<1>1. ScanTypes' /\ ScansAgree' /\ ScanFaithful'
  BY Quiet DEF IInv, Calm
<1>. QED
  BY <1>1, CalmCounts, CalmRunning, CalmFits DEF IInv

(***************************************************************************)
(* The steps that append.                                                  *)
(***************************************************************************)
LEMMA Appending ==
    ASSUME TypeOK, NEW r \in Record, journal' = Append(journal, r)
    PROVE  /\ \A p : Scanned(p)' = ScanRecord(Scanned(p), r, p)
           /\ Len(journal) \in Nat /\ Len(journal') = Len(journal) + 1
           /\ Repeated => Repeated'
           /\ (r.type = "footer"
               /\ \E i \in DOMAIN journal : journal[i].type = "footer"
                                            /\ journal[i].session = r.session) => Repeated'
           /\ r.type = "footer" =>
                 \E i \in DOMAIN journal' : journal'[i].type = "footer"
                                            /\ journal'[i].session = r.session
<1>1. journal \in Seq(Record)
  BY DEF TypeOK
<1>2. \A p : Scanned(p)' = ScanRecord(Scanned(p), r, p)
  BY <1>1, ScanAppend DEF Scanned
<1>3. /\ Len(journal) \in Nat /\ Len(journal') = Len(journal) + 1
      /\ DOMAIN journal = 1 .. Len(journal) /\ DOMAIN journal' = 1 .. Len(journal) + 1
      /\ journal'[Len(journal) + 1] = r
      /\ \A i \in 1 .. Len(journal) : journal'[i] = journal[i]
  BY <1>1
<1>4. Repeated => Repeated'
  BY <1>3 DEF Repeated
<1>5. ASSUME r.type = "footer", NEW i \in DOMAIN journal, journal[i].type = "footer",
             journal[i].session = r.session
      PROVE  Repeated'
  <2>1. i \in DOMAIN journal' /\ Len(journal) + 1 \in DOMAIN journal' /\ i < Len(journal) + 1
    BY <1>3
  <2>2. journal'[i] = journal[i]
    BY <1>3
  <2>. QED
    BY <1>3, <1>5, <2>1, <2>2 DEF Repeated
<1>6. Len(journal) + 1 \in DOMAIN journal'
  BY <1>3
<1>. QED
  BY <1>2, <1>3, <1>4, <1>5, <1>6

LEMMA HeaderAppended ==
    ASSUME IInv, sequence = 0, Len(journal) < MaxRecords,
           journal' = Append(journal, Header(cal.session, sequence, pack)), completed' = completed
    PROVE  /\ ScanTypes' /\ ScansAgree' /\ ScanFaithful'
           /\ \A p \in Pack :
                 LET d == Scanned(p)'.candidate
                 IN  /\ d.session = cal.session /\ d.next = sequence + 1
                     /\ d.checksum = {sequence} /\ d.points = {} /\ (d.ours <=> pack = p)
<1> DEFINE r == Header(cal.session, sequence, pack)
<1>1. TypeOK /\ cal.session \in Session /\ pack \in Pack /\ sequence \in Sequence
      /\ MaxRecords \in Nat
  BY BatteryAssumption DEF IInv, TypeOK, CalibrationType
<1>2. r \in Record
  BY <1>1 DEF Header, Record
<1> HIDE DEF r
<1>3. /\ \A p : Scanned(p)' = ScanRecord(Scanned(p), r, p)
      /\ Len(journal) \in Nat /\ Len(journal') = Len(journal) + 1 /\ (Repeated => Repeated')
  BY <1>1, <1>2, Appending DEF r
<1>4. ASSUME NEW p \in Pack
      PROVE  LET d == Scanned(p)'.candidate
             IN  /\ Scanned(p)' \in ScanState
                 /\ Scanned(p)'.corrupt = Scanned(p).corrupt
                 /\ Scanned(p)'.profile = Scanned(p).profile
                 /\ d.session = cal.session /\ d.next = sequence + 1
                 /\ d.checksum = {sequence} /\ d.points = {} /\ (d.ours <=> pack = p)
  <2>1. Scanned(p) \in ScanState
    BY DEF IInv, ScanTypes
  <2>2. sequence < MaxRecords
    BY <1>1, <1>3
  <2> DEFINE s == Scanned(p)
             t == ScanRecord(s, r, p)
             c == [session |-> cal.session, next |-> sequence + 1, checksum |-> {sequence},
                   points |-> {}, ours |-> pack = p]
  <2>3. /\ t \in ScanState /\ t.corrupt = s.corrupt /\ t.profile = s.profile
        /\ t.candidate.session = cal.session /\ t.candidate.next = sequence + 1
        /\ t.candidate.checksum = {sequence} /\ t.candidate.points = {}
        /\ (t.candidate.ours <=> pack = p)
    <3> HIDE DEF s
    <3>1. /\ s \in ScanState /\ cal.session \in Session /\ pack \in Pack
          /\ sequence \in Sequence /\ sequence < MaxRecords
      BY <1>1, <2>1, <2>2 DEF s
    <3>2. r = Header(cal.session, sequence, pack)
      BY DEF r
    <3>3. t \in ScanState /\ t.corrupt = s.corrupt /\ t.profile = s.profile
          /\ t.candidate = c
      BY <3>1, <3>2, ScanHeader
    <3>4. /\ c.session = cal.session /\ c.next = sequence + 1 /\ c.checksum = {sequence}
          /\ c.points = {} /\ (c.ours <=> pack = p)
      OBVIOUS
    <3> HIDE DEF t, c
    <3>. QED
      BY <3>3, <3>4
  <2>4. Scanned(p)' = t
    BY <1>3
  <2> HIDE DEF s, t
  <2>. QED
    BY <2>3, <2>4 DEF s
<1>5. ASSUME NEW p \in Pack
      PROVE  Scanned(p)' \in ScanState /\ Scanned(p)'.candidate.next <= Len(journal')
  <2>1. Scanned(p)'.candidate.next = 0 + 1
    BY <1>4
  <2>. QED
    BY <1>3, <1>4, <2>1
<1>6. ScanTypes'
  BY <1>5 DEF ScanTypes
<1>7. ASSUME NEW p \in Pack, NEW q \in Pack
      PROVE  Agree(Scanned(p), Scanned(q))'
  <2>1. Agree(Scanned(p), Scanned(q))
    BY DEF IInv, ScansAgree
  <2>2. /\ Scanned(p)'.corrupt = Scanned(q)'.corrupt
        /\ Scanned(p)'.candidate.session = Scanned(q)'.candidate.session
        /\ Scanned(p)'.candidate.next = Scanned(q)'.candidate.next
        /\ Scanned(p)'.candidate.checksum = Scanned(q)'.candidate.checksum
        /\ Scanned(p)'.candidate.points = Scanned(q)'.candidate.points
    BY <1>4, <2>1 DEF Agree
  <2>. QED
    BY <2>2 DEF Agree
<1>8. ScansAgree'
  BY <1>7 DEF ScansAgree
<1>9. ScanFaithful'
  BY <1>3, <1>4 DEF IInv, ScanFaithful
<1>. QED
  BY <1>4, <1>6, <1>8, <1>9

LEMMA MoreAppended ==
    ASSUME IInv, NEW r \in Record, r.type \in {"interval", "point"},
           r.session = cal.session, r.sequence = sequence, cal.session # 0,
           Open, Len(journal) < MaxRecords,
           journal' = Append(journal, r), completed' = completed
    PROVE  /\ ScanTypes' /\ ScansAgree' /\ ScanFaithful'
           /\ \A p \in Pack :
                 LET c == Scanned(p).candidate
                     d == Scanned(p)'.candidate
                 IN  /\ d.session = cal.session /\ d.next = sequence + 1
                     /\ d.checksum = checksum \cup {sequence} /\ d.ours = c.ours
                     /\ d.points = IF r.type = "point" THEN c.points \cup {r.point} ELSE c.points
<1>1. TypeOK /\ sequence \in Nat /\ MaxRecords \in Nat /\ sequence <= Len(journal)
  BY BatteryAssumption DEF IInv, TypeOK, Counts, Sequence
<1>2. /\ \A p : Scanned(p)' = ScanRecord(Scanned(p), r, p)
      /\ Len(journal) \in Nat /\ Len(journal') = Len(journal) + 1 /\ (Repeated => Repeated')
  BY <1>1, Appending
<1>3. ASSUME NEW p \in Pack
      PROVE  LET c == Scanned(p).candidate
                 d == Scanned(p)'.candidate
             IN  /\ Scanned(p)' \in ScanState
                 /\ Scanned(p)'.corrupt = Scanned(p).corrupt
                 /\ Scanned(p)'.profile = Scanned(p).profile
                 /\ d.session = cal.session /\ d.next = sequence + 1
                 /\ d.checksum = checksum \cup {sequence} /\ d.ours = c.ours
                 /\ d.points = IF r.type = "point" THEN c.points \cup {r.point} ELSE c.points
  <2> DEFINE s == Scanned(p)
  <2>1. s \in ScanState
    BY DEF IInv, ScanTypes
  <2>2. s.candidate.session = cal.session /\ s.candidate.next = sequence
        /\ s.candidate.checksum = checksum
    BY DEF Open
  <2>3. s.candidate.next < MaxRecords
    BY <1>1, <1>2, <2>2
  <2>4. Continues(s.candidate, r)
    BY <2>2 DEF Continues
  <2> HIDE DEF s
  <2>5. Scanned(p)' = ScanRecord(s, r, p)
    BY <1>2 DEF s
  <2> DEFINE t == ScanRecord(s, r, p)
  <2>6. /\ t \in ScanState
        /\ t.corrupt = s.corrupt /\ t.profile = s.profile
        /\ t.candidate.session = s.candidate.session /\ t.candidate.next = s.candidate.next + 1
        /\ t.candidate.checksum = s.candidate.checksum \cup {r.sequence}
        /\ t.candidate.ours = s.candidate.ours
        /\ t.candidate.points = IF r.type = "point" THEN s.candidate.points \cup {r.point}
                                ELSE s.candidate.points
    BY <2>1, <2>3, <2>4, ScanMore
  <2> HIDE DEF t
  <2>. QED
    BY <2>2, <2>5, <2>6 DEF s, t
<1>4. ScanTypes'
  <2> SUFFICES ASSUME NEW p \in Pack
               PROVE  Scanned(p)' \in ScanState /\ Scanned(p)'.candidate.next <= Len(journal')
    BY DEF ScanTypes
  <2>1. Scanned(p)' \in ScanState /\ Scanned(p)'.candidate.next = sequence + 1
    BY <1>3
  <2>. QED
    BY <1>1, <1>2, <2>1
<1>5. ASSUME NEW p \in Pack, NEW q \in Pack
      PROVE  Agree(Scanned(p)', Scanned(q)')
  <2>1. Agree(Scanned(p), Scanned(q))
    BY DEF IInv, ScansAgree
  <2>. QED
    BY <1>3, <2>1 DEF Agree
<1>6. ScansAgree'
  BY <1>5 DEF ScansAgree
<1>7. ScanFaithful'
  BY <1>2, <1>3 DEF IInv, ScanFaithful
<1>. QED
  BY <1>3, <1>4, <1>6, <1>7

LEMMA FooterAppended ==
    ASSUME IInv, NEW r \in Record, r.type = "footer", Len(journal) < MaxRecords,
           journal' = Append(journal, r),
           \/ \A p \in Pack : Continues(Scanned(p).candidate, r)
           \/ \E i \in DOMAIN journal : journal[i].type = "footer"
                                        /\ journal[i].session = r.session,
           \A p \in Pack :
              LET c == Scanned(p).candidate
              IN  completed'[p] = IF Continues(c, r) /\ Completes(c, r) /\ c.ours
                                  THEN c.session ELSE completed[p]
    PROVE  ScanTypes' /\ ScansAgree' /\ ScanFaithful'
<1>1. TypeOK /\ MaxRecords \in Nat
  BY BatteryAssumption DEF IInv, TypeOK
<1>2. /\ \A p : Scanned(p)' = ScanRecord(Scanned(p), r, p)
      /\ Len(journal) \in Nat /\ Len(journal') = Len(journal) + 1 /\ (Repeated => Repeated')
      /\ (\E i \in DOMAIN journal : journal[i].type = "footer"
                                    /\ journal[i].session = r.session) => Repeated'
  BY <1>1, Appending
<1>3. ASSUME NEW p \in Pack
      PROVE  LET c == Scanned(p).candidate
                 t == Scanned(p)'
             IN  /\ t \in ScanState
                 /\ t.candidate.session = 0 /\ t.candidate.next = 0
                 /\ t.candidate.checksum = {} /\ t.candidate.points = {}
                 /\ Continues(c, r) => t.corrupt = Scanned(p).corrupt
                 /\ ~Continues(c, r) => t.corrupt = TRUE
                 /\ t.profile = IF Continues(c, r) /\ Completes(c, r) /\ c.ours
                                THEN c.session ELSE Scanned(p).profile
  <2> DEFINE s == Scanned(p)
  <2>1. s \in ScanState
    BY DEF IInv, ScanTypes
  <2> HIDE DEF s
  <2>2. Scanned(p)' = ScanRecord(s, r, p)
    BY <1>2 DEF s
  <2> DEFINE t == ScanRecord(s, r, p)
  <2>3. /\ t \in ScanState
        /\ t.candidate.session = 0 /\ t.candidate.next = 0
        /\ t.candidate.checksum = {} /\ t.candidate.points = {}
        /\ Continues(s.candidate, r) => t.corrupt = s.corrupt
        /\ ~Continues(s.candidate, r) => t.corrupt = TRUE
        /\ t.profile = IF Continues(s.candidate, r) /\ Completes(s.candidate, r) /\ s.candidate.ours
                       THEN s.candidate.session ELSE s.profile
    BY <2>1, ScanFooter
  <2> HIDE DEF t
  <2>. QED
    BY <2>2, <2>3 DEF s, t
<1>4. ScanTypes'
  <2> SUFFICES ASSUME NEW p \in Pack
               PROVE  Scanned(p)' \in ScanState /\ Scanned(p)'.candidate.next <= Len(journal')
    BY DEF ScanTypes
  <2>1. Scanned(p)' \in ScanState /\ Scanned(p)'.candidate.next = 0
    BY <1>3
  <2>. QED
    BY <1>2, <2>1
<1>5. ASSUME NEW p \in Pack, NEW q \in Pack
      PROVE  Agree(Scanned(p)', Scanned(q)')
  <2>1. Agree(Scanned(p), Scanned(q))
    BY DEF IInv, ScansAgree
  <2>2. Continues(Scanned(p).candidate, r) <=> Continues(Scanned(q).candidate, r)
    BY <2>1 DEF Agree, Continues
  <2>. QED
    BY <1>3, <2>1, <2>2 DEF Agree
<1>6. ScansAgree'
  BY <1>5 DEF ScansAgree
<1>7. ASSUME NEW p \in Pack
      PROVE  Scanned(p)'.profile = completed'[p] /\ (Scanned(p)'.corrupt => Repeated')
  <2>1. Scanned(p).profile = completed[p] /\ (Scanned(p).corrupt => Repeated)
    BY DEF IInv, ScanFaithful
  <2>2. Scanned(p)'.profile = completed'[p]
    BY <1>3, <2>1
  <2>3. Scanned(p)'.corrupt => Repeated'
    BY <1>2, <1>3, <2>1
  <2>. QED
    BY <2>2, <2>3
<1>8. ScanFaithful'
  BY <1>7 DEF ScanFaithful
<1>. QED
  BY <1>4, <1>6, <1>8

\* A failure ends the session in memory, whatever reached the journal.
LEMMA Failed ==
    ASSUME IInv, NEW error, HandleStorageFailure(error),
           sequence' = sequence, dangling' = dangling, Len(journal') >= Len(journal),
           Len(journal') \in Nat
    PROVE  Counts' /\ Stages' /\ Running' /\ Owing' /\ SessionFits'
<1>1. cal \in CalibrationType /\ Len(journal) \in Nat /\ sequence \in Nat
      /\ dangling.sequence \in Nat /\ sequence <= Len(journal)
      /\ dangling.sequence <= Len(journal)
  BY DEF IInv, TypeOK, Counts, Sequence
<1>2. /\ cal'.state = "Invalid" /\ ~cal'.headerPending /\ ~cal'.headerWritten
      /\ ~cal'.footerPending /\ ~cal'.interval /\ ~rebootFooter'
  BY <1>1 DEF HandleStorageFailure, StorageFailed, CalibrationType
<1>3. Counts'
  BY <1>1, <1>2 DEF Counts
<1>4. Stages'
  BY <1>2 DEF Stages
<1>. QED
  BY <1>2, <1>3, <1>4 DEF Running, Owing, SessionFits, Active

(***************************************************************************)
(* One step of each kind.                                                  *)
(***************************************************************************)

\* A sample that leaves the session be, or follows it.
LEMMA ObservationStep ==
    ASSUME IInv, NEW m \in Kind, NEW gap \in BOOLEAN, NEW counts \in BOOLEAN,
           Observation(m, gap, counts), Follows(cal, cal')
    PROVE  IInv'
<1>1. UNCHANGED <<file, pack, at, request, health, writer, curve, catalog,
                  rebootFooter, completed, faults>>
  BY DEF Observation
<1>2. Calm
  BY <1>1 DEF Calm, CurveKept, file, writer, curve, catalog
<1>3. seen' \in {"none", "full", "load", "idle", "absent"} /\ total' \in BOOLEAN
  BY DEF Observation, Estimate, Remembered, Kind, Usable, Drawing, IInv, TypeOK
<1>4. cal' \in CalibrationType
  BY DEF Follows
<1>5. TypeOK'
  BY <1>1, <1>3, <1>4 DEF IInv, TypeOK, file, writer, curve, catalog
<1>. QED
  BY <1>2, <1>5, CalmStep

LEMMA ObserveStartStep ==
    ASSUME IInv, ObserveStart
    PROVE  IInv'
<1>1. /\ UNCHANGED <<file, pack, at, request, health, writer, curve, catalog,
                     rebootFooter, completed, faults>>
      /\ cal.state = "ArmedFull" /\ seen' = "full" /\ total' = FALSE
      /\ cal' = [cal EXCEPT !.state = "Discharging", !.headerPending = TRUE, !.samples = TRUE]
  BY DEF ObserveStart
<1>2. cal \in CalibrationType
  BY DEF IInv, TypeOK
<1>3. /\ cal' \in CalibrationType /\ cal'.state = "Discharging" /\ cal'.headerPending
      /\ cal'.session = cal.session /\ cal'.owed = cal.owed /\ cal'.persisted = cal.persisted
      /\ cal'.headerWritten = cal.headerWritten /\ cal'.interval = cal.interval
      /\ cal'.footerPending = cal.footerPending
  BY <1>1, <1>2 DEF CalibrationType
<1>4. TypeOK'
  BY <1>1, <1>3 DEF IInv, TypeOK, file, writer, curve, catalog
<1>5. ScanTypes' /\ ScansAgree' /\ ScanFaithful' /\ \A p : Scanned(p)' = Scanned(p)
  BY <1>1, Quiet DEF IInv, file
<1>6. Counts'
  BY <1>1, <1>3 DEF IInv, Counts, file, writer, catalog
<1>7. Stages'
  BY <1>1, <1>3 DEF IInv, Stages, writer, curve
<1>8. Running'
  BY <1>1, <1>3 DEF IInv, Stages, Running
<1>9. Owing'
  BY <1>1, <1>5 DEF IInv, Owing, catalog
<1>10. SessionFits'
  BY <1>1, <1>3 DEF IInv, SessionFits, Remaining, Active, file, curve
<1>. QED
  BY <1>4, <1>5, <1>6, <1>7, <1>8, <1>9, <1>10 DEF IInv

LEMMA ObserveStep ==
    ASSUME IInv, Observe
    PROVE  IInv'
<1>1. cal \in CalibrationType
  BY DEF IInv, TypeOK
<1>2. CASE ObserveOutside
  BY <1>1, <1>2, FollowsItself, ObservationStep DEF ObserveOutside
<1>3. CASE ObserveStart
  BY <1>3, ObserveStartStep
<1>4. CASE ObserveNotFull
  BY <1>1, <1>4, InvalidateFollows, ObservationStep DEF ObserveNotFull
<1>5. CASE ObserveInvalid
  <2>1. Follows(cal, QueuePartialInterval(cal))
    BY <1>1, <1>5, QueueFollows DEF ObserveInvalid
  <2>2. QueuePartialInterval(cal) \in CalibrationType
    BY <2>1 DEF Follows
  <2>3. Follows(cal, Invalidate(QueuePartialInterval(cal)))
    BY <2>1, <2>2, InvalidateFollows, FollowsOn
  <2>. QED
    BY <1>5, <2>3, ObservationStep DEF ObserveInvalid
<1>6. CASE ObserveCutoff
  <2>1. Follows(cal, cal')
    BY <1>1, <1>6, FollowsItself, FinalizeFollows DEF ObserveCutoff
  <2>. QED
    BY <1>6, <2>1, ObservationStep DEF ObserveCutoff, Kind
<1>7. CASE ObserveNoLoad
  <2>1. Follows(cal, QueuePartialInterval(cal))
    BY <1>1, <1>7, QueueFollows DEF ObserveNoLoad
  <2>2. QueuePartialInterval(cal) \in CalibrationType
    BY <2>1 DEF Follows
  <2>3. Follows(cal, Invalidate(QueuePartialInterval(cal)))
    BY <2>1, <2>2, InvalidateFollows, FollowsOn
  <2>4. Follows(cal, cal')
    BY <1>1, <1>7, <2>3, FollowsItself DEF ObserveNoLoad
  <2>. QED
    BY <1>7, <2>4, ObservationStep DEF ObserveNoLoad, Kind
<1>8. CASE ObserveLoad
  <2>1. PICK m \in Drawing, counts \in BOOLEAN, due \in BOOLEAN :
           LET c == [cal EXCEPT !.samples = TRUE]
           IN  /\ Observation(m, FALSE, counts)
               /\ cal' = IF due THEN QueueInterval(c) ELSE c
    BY <1>8 DEF ObserveLoad
  <2> DEFINE c == [cal EXCEPT !.samples = TRUE]
  <2>2. Follows(cal, c) /\ c \in CalibrationType /\ c.state = "Discharging"
    BY <1>1, <1>8 DEF ObserveLoad, Follows, CalibrationType
  <2>3. cal' = QueueInterval(c) \/ cal' = c
    BY <2>1
  <2> HIDE DEF c
  <2>4. Follows(cal, cal')
    BY <2>2, <2>3, QueueFollows, FollowsOn
  <2>. QED
    BY <2>1, <2>4, ObservationStep DEF Kind, Drawing
<1>. QED
  BY <1>2, <1>3, <1>4, <1>5, <1>6, <1>7, <1>8 DEF Observe

LEMMA CommandStep ==
    ASSUME IInv, Command
    PROVE  IInv'
<1>1. UNCHANGED <<file, pack, at, health, cal, sensor, writer, curve, catalog,
                  rebootFooter, completed, faults>>
      /\ request' \in {"none", "start", "abort"}
  BY DEF Command, RequestCalibrationStart, AbortCalibration
<1>2. cal \in CalibrationType
  BY DEF IInv, TypeOK
<1>3. Calm
  BY <1>1, <1>2, FollowsItself DEF Calm, CurveKept, file, writer, curve, catalog
<1>4. TypeOK'
  BY <1>1 DEF IInv, TypeOK, file, sensor, writer, curve, catalog
<1>. QED
  BY <1>3, <1>4, CalmStep

\* A request, or none, that leaves the session be or follows it.
LEMMA ControlCalm ==
    ASSUME IInv, NEW late \in BOOLEAN, Control(late), Follows(cal, cal'), CurveKept,
           UNCHANGED <<writer, highest>>, reading' \in 0 .. MaxRecords,
           built' \in {"none", "active", "done"}, point' \in 0 .. PointCount,
           health' \in {health, "Full"}
    PROVE  IInv'
<1>1. UNCHANGED <<file, pack, total, rebootFooter, completed, faults, profile, dangling>>
      /\ at' = "persist" /\ request' = "none" /\ seen' \in {seen, "none"}
  BY DEF Control
<1>2. Calm
  BY <1>1 DEF Calm, file
<1>3. cal' \in CalibrationType
  BY DEF Follows
<1>4. TypeOK'
  BY <1>1, <1>3 DEF IInv, TypeOK, file, writer
<1>. QED
  BY <1>2, <1>4, CalmStep

\* A session is armed.
LEMMA StartStep ==
    ASSUME IInv, NEW late \in BOOLEAN, StartCalibrationOwned(late)
    PROVE  IInv'
<1>1. UNCHANGED <<file, pack, total, rebootFooter, completed, faults, profile, dangling, health>>
      /\ at' = "persist" /\ request' = "none" /\ seen' \in {seen, "none"}
      /\ highest < MaxSession /\ CanFitSession
      /\ highest' = highest + 1 /\ sequence' = 0 /\ checksum' = {}
      /\ reading' = 0 /\ built' = "none" /\ point' = 0
      /\ cal' = [NoCalibration EXCEPT !.state = "ArmedFull", !.session = highest + 1,
                                      !.owed = rebootFooter]
  BY DEF StartCalibrationOwned, Control, Admissible
<1>2. MaxSession \in Nat /\ MaxIntervals \in Nat /\ PointCount \in Nat /\ MaxRecords \in Nat
      /\ highest \in Nat /\ Len(journal) \in Nat /\ rebootFooter \in BOOLEAN
  BY BatteryAssumption DEF IInv, TypeOK, Session
<1>3. highest + 1 \in Session /\ highest + 1 # 0
  BY <1>1, <1>2 DEF Session
<1>4. /\ cal' \in CalibrationType /\ cal'.state = "ArmedFull" /\ ~cal'.headerPending
      /\ ~cal'.headerWritten /\ ~cal'.interval /\ cal'.persisted = 0 /\ ~cal'.footerPending
      /\ cal'.session = highest + 1 /\ cal'.owed = rebootFooter
  <2>1. /\ NoCalibration \in CalibrationType /\ ~NoCalibration.headerPending
        /\ ~NoCalibration.headerWritten /\ ~NoCalibration.interval
        /\ NoCalibration.persisted = 0 /\ ~NoCalibration.footerPending
    BY <1>2 DEF NoCalibration, CalibrationType, Session
  <2>. QED
    BY <1>1, <1>2, <1>3, <2>1 DEF CalibrationType
<1>5. TypeOK'
  BY <1>1, <1>2, <1>3, <1>4 DEF IInv, TypeOK, file, Sequence
<1>6. ScanTypes' /\ ScansAgree' /\ ScanFaithful' /\ \A p : Scanned(p)' = Scanned(p)
  BY <1>1, Quiet DEF IInv, file
<1>7. Counts'
  BY <1>1, <1>2, <1>4 DEF IInv, Counts, file
<1>8. Stages'
  BY <1>1, <1>3, <1>4 DEF Stages
<1>9. Running'
  BY <1>4 DEF Running
<1>10. Owing'
  BY <1>1, <1>6 DEF IInv, Owing
<1>11. SessionFits'
  <2>1. Remaining' = 1 + (MaxIntervals - 0) + PointCount + 1
    BY <1>4 DEF Remaining
  <2>2. Len(journal) + (1 + MaxIntervals + PointCount + 1) <= MaxRecords
    BY <1>1 DEF CanFitSession, SessionRecords
  <2>3. Len(journal)' + Remaining' <= MaxRecords
    BY <1>1, <1>2, <2>1, <2>2 DEF file
  <2>4. Remaining' \in Nat
    BY <1>2, <2>1
  <2>. QED
    BY <1>1, <1>2, <1>4, <2>3, <2>4 DEF SessionFits, file
<1>. QED
  BY <1>5, <1>6, <1>7, <1>8, <1>9, <1>10, <1>11 DEF IInv

LEMMA ControlStep ==
    ASSUME IInv, NEW late \in BOOLEAN,
           \/ ControlNothing(late) \/ AbortCalibrationOwned(late)
           \/ RejectStartOwned(late) \/ RefuseToArm(late) \/ StartCalibrationOwned(late)
    PROVE  IInv'
<1>1. cal \in CalibrationType /\ reading \in 0 .. MaxRecords /\ point \in 0 .. PointCount
      /\ built \in {"none", "active", "done"} /\ MaxRecords \in Nat /\ PointCount \in Nat
  BY BatteryAssumption DEF IInv, TypeOK
<1>2. CASE ControlNothing(late)
  <2>1. Follows(cal, cal')
    BY <1>1, <1>2, FollowsItself, ControlFollows DEF ControlNothing
  <2>2. UNCHANGED <<health, writer, curve, highest>> /\ Control(late)
    BY <1>2 DEF ControlNothing
  <2>. QED
    BY <1>1, <2>1, <2>2, ControlCalm DEF curve, CurveKept
<1>3. CASE AbortCalibrationOwned(late)
  <2>1. Follows(cal, Abort(cal)) /\ Follows(cal, cal')
    BY <1>1, <1>3, AbortFollows, ControlFollows DEF AbortCalibrationOwned
  <2>2. UNCHANGED <<health, writer, highest>> /\ Control(late)
        /\ IF Active(cal) THEN reading' = 0 /\ built' = "none" /\ point' = 0
                          ELSE UNCHANGED curve
    BY <1>3 DEF AbortCalibrationOwned
  <2>3. ASSUME Active(cal)
        PROVE  ~Active(cal)'
    <3> DEFINE c == Abort(cal)
    <3>1. c.state = "Aborted"
      <4> DEFINE d == IF cal.state = "Discharging" THEN QueuePartialInterval(cal) ELSE cal
      <4>1. d \in CalibrationType
        BY <1>1, QueueFollows DEF Follows
      <4>2. c = [d EXCEPT !.state = "Aborted", !.footerPending = cal.headerWritten]
        BY <2>3 DEF Abort
      <4> HIDE DEF d, c
      <4>. QED
        BY <4>1, <4>2 DEF CalibrationType
    <3>2. c \in CalibrationType
      BY <2>1 DEF Follows
    <3>3. cal' = RequestFooterIfTerminal(CheckSensorTimeout(c, late))
      BY <1>3 DEF AbortCalibrationOwned
    <3> HIDE DEF c
    <3>4. Follows(c, cal')
      BY <3>2, <3>3, FollowsItself, ControlFollows
    <3>. QED
      BY <3>1, <3>4 DEF Follows, Terminal, Active
  <2>4. CurveKept
    BY <2>2, <2>3 DEF CurveKept, curve
  <2>. QED
    BY <1>1, <2>1, <2>2, <2>4, ControlCalm DEF curve
<1>4. CASE RejectStartOwned(late)
  <2>1. Follows(cal, cal')
    BY <1>1, <1>4, RejectFollows, ControlFollows DEF RejectStartOwned
  <2>2. UNCHANGED <<writer, curve, highest>> /\ Control(late) /\ health' \in {health, "Full"}
    BY <1>4 DEF RejectStartOwned
  <2>. QED
    BY <1>1, <2>1, <2>2, ControlCalm DEF curve, CurveKept
<1>5. CASE RefuseToArm(late)
  <2>1. Follows(cal, cal')
    BY <1>1, <1>5, RejectFollows, ControlFollows DEF RefuseToArm
  <2>2. UNCHANGED <<health, writer, curve, highest>> /\ Control(late)
    BY <1>5 DEF RefuseToArm
  <2>. QED
    BY <1>1, <2>1, <2>2, ControlCalm DEF curve, CurveKept
<1>6. CASE StartCalibrationOwned(late)
  BY <1>6, StartStep
<1>. QED
  BY <1>2, <1>3, <1>4, <1>5, <1>6

\* A start: what the scan finds is what is kept in memory.
LEMMA BootStep ==
    ASSUME IInv, NEW p \in Pack, Boot(p)
    PROVE  IInv'
<1> DEFINE s == Scanned(p)
           c == s.candidate
<1>1. s \in ScanState /\ c.next <= Len(journal) /\ c \in Candidate /\ MaxRecords \in Nat
      /\ MaxIntervals \in Nat /\ PointCount \in Nat /\ MaxSession \in Nat
  BY BatteryAssumption DEF IInv, ScanTypes, ScanState
<1>2. UNCHANGED <<file, completed, faults>> /\ pack' = p /\ at' = "loop" /\ request' = "none"
      /\ cal' = NoCalibration /\ seen' = "none" /\ total' = FALSE
      /\ sequence' = 0 /\ checksum' = {} /\ reading' = 0 /\ built' = "none" /\ point' = 0
      /\ highest' = s.highest /\ profile' = s.profile /\ dangling' = Dangling(c)
      /\ health' \in {"Healthy", "Corrupt", "Full"}
      /\ rebootFooter' \in BOOLEAN /\ (rebootFooter' => dangling'.session # 0)
  BY DEF Boot
<1>3. s.highest \in Session /\ s.profile \in Session
  BY <1>1 DEF ScanState
<1>4. /\ Dangling(c) \in [session : Session, sequence : Sequence, checksum : SUBSET Sequence]
      /\ Dangling(c).sequence <= Len(journal)
      /\ Dangling(c).session # 0 =>
            Dangling(c).session = c.session /\ Dangling(c).sequence = c.next
  <2>1. Len(journal) \in Nat
    BY DEF IInv, TypeOK
  <2>2. 0 \in Session /\ 0 \in Sequence
    BY <1>1 DEF Session, Sequence
  <2>3. CASE c.ours
    <3> HIDE DEF c
    <3>. QED
      BY <1>1, <2>3 DEF Dangling, Candidate, Sequence
  <2>4. CASE ~c.ours
    <3>1. Dangling(c) = NoSession
      BY <2>4 DEF Dangling
    <3>. QED
      BY <2>1, <2>2, <3>1 DEF NoSession
  <2>. QED
    BY <2>3, <2>4
<1>5. cal' \in CalibrationType /\ cal'.state = "Idle" /\ ~cal'.headerPending
      /\ ~cal'.headerWritten /\ ~cal'.interval /\ ~cal'.footerPending
  BY <1>1, <1>2 DEF NoCalibration, CalibrationType, Session
<1>6. TypeOK'
  <2>1. UNCHANGED <<journal, torn, completed, faults>> /\ TypeOK
    BY <1>2 DEF IInv, file
  <2>2. sequence' \in Sequence /\ checksum' \subseteq Sequence /\ reading' \in 0 .. MaxRecords
        /\ point' \in 0 .. PointCount
    BY <1>1, <1>2 DEF Sequence
  <2>3. {highest', profile'} \subseteq Session
    BY <1>2, <1>3
  <2>4. dangling' \in [session : Session, sequence : Sequence, checksum : SUBSET Sequence]
    BY <1>2, <1>4
  <2> HIDE DEF s, c
  <2>. QED
    BY <1>2, <1>5, <2>1, <2>2, <2>3, <2>4 DEF TypeOK
<1>7. ScanTypes' /\ ScansAgree' /\ ScanFaithful' /\ \A q : Scanned(q)' = Scanned(q)
  BY <1>2, Quiet DEF IInv, file
<1>8. Counts'
  <2>1. Len(journal) \in Nat
    BY DEF IInv, TypeOK
  <2>. QED
    BY <1>2, <1>4, <1>5, <2>1 DEF Counts, file
<1>9. Stages'
  BY <1>5 DEF Stages
<1>10. Owing'
  <2> SUFFICES ASSUME rebootFooter', NEW q \in Pack
               PROVE  /\ dangling'.session # 0
                      /\ Scanned(q)'.candidate.session = dangling'.session
                      /\ Scanned(q)'.candidate.next = dangling'.sequence
    BY DEF Owing
  <2>1. Agree(Scanned(p), Scanned(q))
    BY DEF IInv, ScansAgree
  <2>. QED
    BY <1>2, <1>4, <1>7, <2>1 DEF Agree
<1>11. Running' /\ SessionFits'
  BY <1>5 DEF Running, SessionFits, Active
<1>. QED
  BY <1>6, <1>7, <1>8, <1>9, <1>10, <1>11 DEF IInv

\* An append, whatever its outcome.
LEMMA Appends ==
    ASSUME IInv, NEW r \in Record, NEW o, AppendRecord(r, o)
    PROVE  /\ torn' \in BOOLEAN /\ faults' \in 0 .. MaxFaults
           /\ journal' \in Seq(Record) /\ Len(journal) \in Nat
           /\ Len(journal') \in Nat /\ Len(journal') <= MaxRecords /\ Len(journal) <= Len(journal')
           /\ \/ /\ o \in {"ok", "unconfirmed"} /\ journal' = Append(journal, r)
                 /\ Len(journal) < MaxRecords /\ Len(journal') = Len(journal) + 1
              \/ o \notin {"ok", "unconfirmed"} /\ journal' = journal
<1>1. journal \in Seq(Record) /\ Len(journal) \in Nat /\ Len(journal) <= MaxRecords
      /\ MaxRecords \in Nat /\ MaxFaults \in Nat /\ torn \in BOOLEAN /\ faults \in 0 .. MaxFaults
  BY BatteryAssumption DEF IInv, TypeOK
<1>2. torn' \in BOOLEAN
  BY <1>1 DEF AppendRecord
<1>3. faults' \in 0 .. MaxFaults
  <2>1. o \in {"unwritten", "partial", "unconfirmed"} => faults < MaxFaults
    BY DEF AppendRecord, Outcomes
  <2>. QED
    BY <1>1, <2>1 DEF AppendRecord
<1>4. CASE o \in {"ok", "unconfirmed"}
  <2>1. Len(journal) < MaxRecords
    BY <1>1, <1>4 DEF AppendRecord, Outcomes
  <2>2. journal' = Append(journal, r)
    BY <1>4 DEF AppendRecord
  <2>3. journal' \in Seq(Record) /\ Len(journal') = Len(journal) + 1
    BY <1>1, <2>2
  <2>. QED
    BY <1>1, <1>2, <1>3, <1>4, <2>1, <2>2, <2>3
<1>5. CASE o \notin {"ok", "unconfirmed"}
  BY <1>1, <1>2, <1>3, <1>5 DEF AppendRecord
<1>. QED
  BY <1>4, <1>5

\* What every persistence step leaves alone.
PersistFrame == at' = "loop" /\ UNCHANGED <<pack, request, sensor, highest>>

\* A failure, in an append or before it.
LEMMA FailedStep ==
    ASSUME IInv, NEW error, HandleStorageFailure(error), PersistFrame,
           UNCHANGED <<writer, profile, dangling>>,
           journal' \in Seq(Record), Len(journal') \in Nat, Len(journal') <= MaxRecords,
           Len(journal) <= Len(journal'), torn' \in BOOLEAN, faults' \in 0 .. MaxFaults,
           completed' \in [Pack -> Session], ScanTypes', ScansAgree', ScanFaithful'
    PROVE  IInv'
<1>1. Counts' /\ Stages' /\ Running' /\ Owing' /\ SessionFits'
  <2>1. Len(journal) \in Nat
    BY DEF IInv, TypeOK
  <2>2. Len(journal') >= Len(journal)
    BY <2>1
  <2>. QED
    BY <2>2, Failed DEF writer
<1>2. cal' \in CalibrationType
  BY DEF HandleStorageFailure, StorageFailed, IInv, TypeOK, CalibrationType
<1>3. health' \in {"Healthy", "Corrupt", "WriteFailed", "Full"}
  BY DEF HandleStorageFailure
<1>4. rebootFooter' = FALSE /\ reading' = 0 /\ built' = "none" /\ point' = point
  BY Zenon DEF HandleStorageFailure
<1>5. MaxRecords \in Nat
  BY BatteryAssumption
<1>6. rebootFooter' \in BOOLEAN /\ built' \in {"none", "active", "done"} /\ point' = point
  BY <1>4, Zenon
<1>7. reading' \in 0 .. MaxRecords
  BY <1>4, <1>5
<1>8. TypeOK'
  BY <1>2, <1>3, <1>6, <1>7 DEF IInv, TypeOK, PersistFrame, writer, sensor
<1>. QED
  BY <1>1, <1>8 DEF IInv

LEMMA HeaderStep ==
    ASSUME IInv, WriteHeader
    PROVE  IInv'
<1> DEFINE r == Header(cal.session, sequence, pack)
<1>1. PICK o \in Outcomes :
         /\ AppendRecord(r, o)
         /\ IF o = "ok"
            THEN /\ sequence' = sequence + 1 /\ checksum' = checksum \cup {sequence}
                 /\ cal' = MarkHeaderWritten(cal) /\ point' = point
                 /\ UNCHANGED <<health, reading, built, rebootFooter>>
            ELSE HandleStorageFailure(o) /\ UNCHANGED writer
  BY DEF WriteHeader, WriteRecord
<1>2. PersistFrame /\ UNCHANGED <<profile, dangling, completed>> /\ Due = "header"
  BY DEF WriteHeader, WriteRecord, Persist, PersistFrame
<1>3. ~rebootFooter /\ cal.headerPending
  BY <1>2 DEF Due
<1>4. sequence = 0 /\ checksum = {} /\ cal.session # 0 /\ ~cal.headerWritten
      /\ cal.state # "ArmedFull" /\ built = "none"
  BY <1>3 DEF IInv, Stages
<1>5. cal \in CalibrationType /\ pack \in Pack /\ sequence \in Sequence /\ MaxRecords \in Nat
      /\ completed \in [Pack -> Session] /\ MaxIntervals \in Nat /\ PointCount \in Nat
  BY BatteryAssumption DEF IInv, TypeOK
<1>6. r \in Record
  BY <1>5 DEF Header, Record, CalibrationType
<1>7. /\ torn' \in BOOLEAN /\ faults' \in 0 .. MaxFaults
      /\ journal' \in Seq(Record) /\ Len(journal) \in Nat
      /\ Len(journal') \in Nat /\ Len(journal') <= MaxRecords /\ Len(journal) <= Len(journal')
      /\ \/ /\ o \in {"ok", "unconfirmed"} /\ journal' = Append(journal, r)
            /\ Len(journal) < MaxRecords /\ Len(journal') = Len(journal) + 1
         \/ o \notin {"ok", "unconfirmed"} /\ journal' = journal
  <2> HIDE DEF r
  <2>. QED
    BY <1>1, <1>6, Appends
<1>8. ScanTypes' /\ ScansAgree' /\ ScanFaithful'
  <2>1. CASE journal' = journal
    BY <1>2, <2>1, Quiet DEF IInv
  <2>2. CASE journal' = Append(journal, r) /\ Len(journal) < MaxRecords
    BY <1>2, <1>4, <2>2, HeaderAppended
  <2>. QED
    BY <1>7, <2>1, <2>2
<1>9. CASE o # "ok"
  <2>1. HandleStorageFailure(o) /\ UNCHANGED <<writer, profile, dangling>>
    BY <1>1, <1>2, <1>9
  <2> HIDE DEF r
  <2>. QED
    BY <1>2, <1>5, <1>7, <1>8, <2>1, FailedStep
<1>10. CASE o = "ok"
  <2>1. /\ sequence' = 1 /\ checksum' = {0} /\ cal' = MarkHeaderWritten(cal)
        /\ UNCHANGED <<health, reading, built, rebootFooter, point>>
        /\ journal' = Append(journal, r) /\ Len(journal) < MaxRecords
        /\ Len(journal') = Len(journal) + 1
    BY <1>1, <1>4, <1>7, <1>10
  <2>2. /\ cal' \in CalibrationType /\ cal'.headerWritten /\ ~cal'.headerPending
        /\ cal'.state = cal.state /\ cal'.session = cal.session /\ cal'.owed = cal.owed
        /\ cal'.persisted = cal.persisted /\ cal'.interval = cal.interval
        /\ cal'.footerPending = cal.footerPending
    BY <1>5, <2>1 DEF MarkHeaderWritten, CalibrationType
  <2>3. TypeOK'
    <3>1. sequence' \in Sequence /\ checksum' \subseteq Sequence
      BY <1>5, <1>7, <2>1 DEF Sequence
    <3> HIDE DEF r
    <3>. QED
      BY <1>2, <1>7, <2>1, <2>2, <3>1 DEF IInv, TypeOK, PersistFrame, sensor
  <2>4. Counts'
    BY <1>2, <1>7, <2>1, <2>2 DEF IInv, Counts, TypeOK, Sequence
  <2>5. Stages'
    BY <1>3, <1>4, <2>1, <2>2 DEF IInv, Stages
  <2>6. Open'
    <3> SUFFICES ASSUME NEW p \in Pack
                 PROVE  LET d == Scanned(p)'.candidate
                        IN  /\ d.session = cal'.session /\ d.next = sequence'
                            /\ d.checksum = checksum' /\ (d.ours <=> p = pack') /\ d.points = {}
      BY <1>4, <2>1 DEF Open
    <3>1. LET d == Scanned(p)'.candidate
          IN  /\ d.session = cal.session /\ d.next = sequence + 1
              /\ d.checksum = {sequence} /\ d.points = {} /\ (d.ours <=> pack = p)
      BY <1>2, <1>4, <2>1, HeaderAppended
    <3>2. pack' = pack
      BY <1>2 DEF PersistFrame
    <3>. QED
      BY <1>4, <2>1, <2>2, <3>1, <3>2
  <2>7. Running' /\ Owing'
    BY <1>3, <2>1, <2>6 DEF Running, Owing
  <2>8. SessionFits'
    <3> SUFFICES ASSUME Active(cal)'
                 PROVE  Remaining' = Remaining - 1 /\ Remaining \in Nat /\ Active(cal)
      <4>1. SessionFits
        BY DEF IInv
      <4>2. rebootFooter' = rebootFooter /\ cal'.owed = cal.owed /\ Len(journal') = Len(journal) + 1
        BY <2>1, <2>2
      <4> HIDE DEF r
      <4>. QED
        BY <1>5, <1>7, <4>1, <4>2 DEF SessionFits
    <3>1. Active(cal)
      BY <2>2 DEF Active
    <3>2. cal.persisted \in 0 .. MaxIntervals /\ point \in 0 .. PointCount
      BY DEF IInv, TypeOK, CalibrationType
    <3>. QED
      BY <1>4, <1>5, <2>1, <2>2, <3>1, <3>2 DEF Remaining
  <2>. QED
    BY <1>8, <2>3, <2>4, <2>5, <2>7, <2>8 DEF IInv
<1>. QED
  BY <1>9, <1>10

\* A record between the header and the footer: d is the session after it and
\* i the points written.
LEMMA MoreStep ==
    ASSUME IInv, NEW r \in Record, r.type \in {"interval", "point"},
           r.session = cal.session, r.sequence = sequence, Open,
           cal.headerWritten, ~cal.headerPending,
           NEW d \in CalibrationType, NEW i \in 0 .. PointCount,
           d.state = cal.state, d.session = cal.session, d.owed = cal.owed,
           d.headerWritten, ~d.headerPending, d.footerPending = cal.footerPending,
           \/ /\ r.type = "interval" /\ cal.interval /\ ~d.interval
              /\ d.persisted = cal.persisted + 1 /\ i = point
           \/ /\ r.type = "point" /\ r.point = point /\ d = cal /\ built = "done"
              /\ cal.state = "Finalizing" /\ i = point + 1,
           WriteRecord(r, d, i), PersistFrame, ~rebootFooter
    PROVE  IInv'
<1>1. PICK o \in Outcomes :
         /\ AppendRecord(r, o)
         /\ IF o = "ok"
            THEN /\ sequence' = sequence + 1 /\ checksum' = checksum \cup {sequence}
                 /\ cal' = d /\ point' = i
                 /\ UNCHANGED <<health, reading, built, rebootFooter>>
            ELSE HandleStorageFailure(o) /\ UNCHANGED writer
  BY DEF WriteRecord
<1>2. UNCHANGED <<profile, dangling, completed>>
  BY DEF WriteRecord
<1>3. cal \in CalibrationType /\ MaxRecords \in Nat /\ sequence \in Nat
      /\ completed \in [Pack -> Session] /\ MaxIntervals \in Nat /\ PointCount \in Nat
      /\ point \in 0 .. PointCount /\ sequence <= Len(journal)
  BY BatteryAssumption DEF IInv, TypeOK, Sequence, Counts
<1>4. cal.session # 0
  BY DEF IInv, Stages
<1>5. /\ torn' \in BOOLEAN /\ faults' \in 0 .. MaxFaults
      /\ journal' \in Seq(Record) /\ Len(journal) \in Nat
      /\ Len(journal') \in Nat /\ Len(journal') <= MaxRecords /\ Len(journal) <= Len(journal')
      /\ \/ /\ o \in {"ok", "unconfirmed"} /\ journal' = Append(journal, r)
            /\ Len(journal) < MaxRecords /\ Len(journal') = Len(journal) + 1
         \/ o \notin {"ok", "unconfirmed"} /\ journal' = journal
  BY <1>1, Appends
<1>6. ScanTypes' /\ ScansAgree' /\ ScanFaithful'
  <2>1. CASE journal' = journal
    BY <1>2, <2>1, Quiet DEF IInv
  <2>2. CASE journal' = Append(journal, r) /\ Len(journal) < MaxRecords
    BY <1>2, <1>4, <2>2, MoreAppended
  <2>. QED
    BY <1>5, <2>1, <2>2
<1>7. CASE o # "ok"
  <2>1. HandleStorageFailure(o) /\ UNCHANGED <<writer, profile, dangling>>
    BY <1>1, <1>2, <1>7
  <2>. QED
    BY <1>2, <1>3, <1>5, <1>6, <2>1, FailedStep
<1>8. CASE o = "ok"
  <2>1. /\ sequence' = sequence + 1 /\ checksum' = checksum \cup {sequence} /\ cal' = d
        /\ UNCHANGED <<health, reading, built, rebootFooter>> /\ point' = i
        /\ journal' = Append(journal, r) /\ Len(journal) < MaxRecords
        /\ Len(journal') = Len(journal) + 1
    BY <1>1, <1>5, <1>8
  <2>2. TypeOK'
    <3>1. sequence' \in Sequence /\ checksum' \subseteq Sequence
      <4>1. checksum \subseteq Sequence /\ sequence \in Sequence
        BY DEF IInv, TypeOK
      <4>2. sequence + 1 \in Sequence
        BY <1>3, <1>5, <2>1 DEF Sequence
      <4>. QED
        BY <2>1, <4>1, <4>2
    <3>. QED
      BY <1>2, <1>5, <2>1, <3>1 DEF IInv, TypeOK, PersistFrame, sensor
  <2>3. Counts'
    <3>1. dangling.sequence <= Len(journal) /\ dangling.sequence \in Nat
      BY DEF IInv, Counts, TypeOK, Sequence
    <3>2. cal'.interval => cal'.persisted < MaxIntervals
      BY <2>1 DEF IInv, Counts
    <3>. QED
      BY <1>2, <1>3, <1>5, <2>1, <3>1, <3>2 DEF Counts
  <2>4. Stages'
    BY <2>1 DEF IInv, Stages
  <2>5. Open'
    <3> SUFFICES ASSUME NEW p \in Pack
                 PROVE  LET e == Scanned(p)'.candidate
                        IN  /\ e.session = cal'.session /\ e.next = sequence'
                            /\ e.checksum = checksum' /\ (e.ours <=> p = pack')
                            /\ cal'.state \in {"Discharging", "Finalizing"} =>
                                 e.points = IF built' = "done" THEN 0 .. point' - 1 ELSE {}
      BY DEF Open
    <3> DEFINE c == Scanned(p).candidate
               e == Scanned(p)'.candidate
    <3>1. /\ e.session = cal.session /\ e.next = sequence + 1
          /\ e.checksum = checksum \cup {sequence} /\ e.ours = c.ours
          /\ e.points = IF r.type = "point" THEN c.points \cup {r.point} ELSE c.points
      BY <1>2, <1>4, <2>1, MoreAppended
    <3>2. /\ (c.ours <=> p = pack)
          /\ cal.state \in {"Discharging", "Finalizing"} =>
                c.points = IF built = "done" THEN 0 .. point - 1 ELSE {}
      BY DEF Open
    <3>3. pack' = pack
      BY DEF PersistFrame
    <3> HIDE DEF c, e
    <3>4. CASE r.type = "interval"
      BY <2>1, <3>1, <3>2, <3>3, <3>4 DEF e
    <3>5. CASE r.type = "point"
      <4>1. r.point = point /\ built = "done" /\ cal.state = "Finalizing" /\ i = point + 1
        BY <3>5
      <4>2. 0 .. (point + 1) - 1 = (0 .. point - 1) \cup {point}
        BY <1>3
      <4>3. e.points = 0 .. (point + 1) - 1
        BY <3>1, <3>2, <3>5, <4>1, <4>2
      <4>. QED
        BY <2>1, <3>1, <3>2, <3>3, <4>1, <4>3 DEF e
    <3>. QED
      BY <3>4, <3>5
  <2>6. Running' /\ Owing'
    BY <2>1, <2>5 DEF Running, Owing
  <2>7. SessionFits'
    <3> SUFFICES ASSUME Active(cal)'
                 PROVE  Remaining' = Remaining - 1 /\ Remaining \in Nat /\ Active(cal)
      <4>1. SessionFits
        BY DEF IInv
      <4>. QED
        BY <1>3, <1>5, <2>1, <4>1 DEF SessionFits
    <3>1. Active(cal)
      BY <2>1 DEF Active
    <3>2. cal.persisted \in 0 .. MaxIntervals /\ point \in 0 .. PointCount
      BY DEF IInv, TypeOK, CalibrationType
    <3>3. cal.interval => cal.persisted < MaxIntervals
      BY DEF IInv, Counts
    <3> DEFINE left == IF built = "done" THEN PointCount - point ELSE PointCount
               queued == IF cal.interval THEN 1 ELSE 0
    <3>4. left \in Nat /\ queued \in Nat
      BY <1>3
    <3>5. CASE r.type = "interval"
      <4>1. cal.interval /\ ~d.interval /\ d.persisted = cal.persisted + 1 /\ i = point
        BY <3>5
      <4>2. CASE cal.state = "Finalizing"
        <5>1. Remaining = 0 + 1 + left + 1 /\ Remaining' = 0 + 0 + left + 1
          BY <2>1, <4>1, <4>2 DEF Remaining
        <5> HIDE DEF left
        <5>. QED
          BY <3>1, <3>4, <5>1
      <4>3. CASE cal.state # "Finalizing"
        <5>1. Remaining = 0 + (MaxIntervals - cal.persisted) + PointCount + 1
              /\ Remaining' = 0 + (MaxIntervals - (cal.persisted + 1)) + PointCount + 1
          BY <2>1, <4>1, <4>3 DEF Remaining
        <5>2. \A n \in 0 .. MaxIntervals :
                 /\ 0 + (MaxIntervals - (n + 1)) + PointCount + 1
                      = (0 + (MaxIntervals - n) + PointCount + 1) - 1
                 /\ 0 + (MaxIntervals - n) + PointCount + 1 \in Nat
          BY <1>3
        <5>. QED
          BY <3>1, <3>2, <5>1, <5>2
      <4>. QED
        BY <4>2, <4>3
    <3>6. CASE r.type = "point"
      <4>1. built = "done" /\ cal.state = "Finalizing" /\ i = point + 1 /\ d = cal
        BY <3>6
      <4>2. Remaining = 0 + queued + (PointCount - point) + 1
            /\ Remaining' = 0 + queued + (PointCount - (point + 1)) + 1
        BY <2>1, <4>1 DEF Remaining
      <4> HIDE DEF queued
      <4>. QED
        BY <1>3, <3>1, <3>4, <4>2
    <3>. QED
      BY <3>5, <3>6
  <2>. QED
    BY <1>6, <2>2, <2>3, <2>4, <2>6, <2>7 DEF IInv
<1>. QED
  BY <1>7, <1>8

LEMMA IntervalStep ==
    ASSUME IInv, WriteInterval
    PROVE  IInv'
<1> DEFINE r == Interval(cal.session, sequence)
           d == MarkIntervalWritten(cal)
<1>1. WriteRecord(r, d, point) /\ PersistFrame /\ Due = "interval"
  BY DEF WriteInterval, Persist, PersistFrame
<1>2. ~rebootFooter /\ ~cal.headerPending /\ cal.interval
  BY <1>1 DEF Due
<1>3. cal.headerWritten /\ cal.persisted < MaxIntervals
  BY <1>2 DEF IInv, Stages, Counts
<1>4. Open
  BY <1>2, <1>3 DEF IInv, Running, Closed
<1>5. cal \in CalibrationType /\ sequence \in Sequence /\ point \in 0 .. PointCount
      /\ MaxIntervals \in Nat
  BY BatteryAssumption DEF IInv, TypeOK
<1>6. /\ d \in CalibrationType /\ d.state = cal.state /\ d.session = cal.session
      /\ d.owed = cal.owed /\ d.headerWritten /\ ~d.headerPending
      /\ d.footerPending = cal.footerPending /\ ~d.interval
      /\ d.persisted = cal.persisted + 1
  <2>1. cal.persisted + 1 \in 0 .. MaxIntervals
    BY <1>3, <1>5 DEF CalibrationType
  <2>. QED
    BY <1>2, <1>3, <1>5, <2>1 DEF MarkIntervalWritten, CalibrationType
<1>7. r \in Record /\ r.type = "interval" /\ r.session = cal.session /\ r.sequence = sequence
  BY <1>5 DEF Interval, Record, CalibrationType
<1> HIDE DEF r, d
<1>. QED
  BY <1>1, <1>2, <1>3, <1>4, <1>5, <1>6, <1>7, MoreStep

LEMMA PointStep ==
    ASSUME IInv, WritePoint
    PROVE  IInv'
<1> DEFINE r == Point(cal.session, sequence, point)
<1>1. WriteRecord(r, cal, point + 1) /\ PersistFrame /\ Due = "finalize"
      /\ built = "done" /\ point < PointCount
  BY DEF WritePoint, Persist, PersistFrame
<1>2. ~rebootFooter /\ ~cal.headerPending /\ cal.state = "Finalizing"
  BY <1>1 DEF Due
<1>3. cal.headerWritten
  BY <1>2 DEF IInv, Stages
<1>4. Open
  BY <1>2, <1>3 DEF IInv, Running, Closed, Active
<1>5. cal \in CalibrationType /\ sequence \in Sequence /\ point \in 0 .. PointCount - 1
      /\ point + 1 \in 0 .. PointCount
  BY <1>1, BatteryAssumption DEF IInv, TypeOK
<1>6. r \in Record /\ r.type = "point" /\ r.session = cal.session /\ r.sequence = sequence
      /\ r.point = point
  BY <1>5 DEF Point, Record, CalibrationType
<1> HIDE DEF r
<1>. QED
  BY <1>1, <1>2, <1>3, <1>4, <1>5, <1>6, MoreStep

LEMMA NothingStep ==
    ASSUME IInv, PersistNothing
    PROVE  IInv'
<1>1. PersistFrame /\ UNCHANGED <<file, health, cal, writer, curve, profile, dangling,
                                  rebootFooter, completed, faults>>
  BY DEF PersistNothing, Persist, PersistFrame
<1>2. cal \in CalibrationType
  BY DEF IInv, TypeOK
<1>3. Calm
  BY <1>1, <1>2, FollowsItself DEF Calm, CurveKept, PersistFrame, file, writer, curve
<1>4. TypeOK'
  BY <1>1 DEF IInv, TypeOK, PersistFrame, file, sensor, writer, curve
<1>. QED
  BY <1>3, <1>4, CalmStep

\* The curve's reads, and what they may find wrong.
LEMMA CurveStep ==
    ASSUME IInv, BeginCurveBuild \/ WorkCurveBuild
    PROVE  IInv'
<1>1. PersistFrame /\ Due = "finalize" /\ built # "done"
      /\ UNCHANGED <<file, writer, profile, dangling, completed, faults>>
  BY DEF BeginCurveBuild, WorkCurveBuild, Persist, PersistFrame
<1>2. TypeOK /\ cal \in CalibrationType /\ cal.state = "Finalizing" /\ ~cal.headerPending
      /\ Len(journal) \in Nat /\ Len(journal) <= MaxRecords
      /\ completed \in [Pack -> Session] /\ journal \in Seq(Record) /\ torn \in BOOLEAN
      /\ faults \in 0 .. MaxFaults
  BY <1>1 DEF IInv, TypeOK, Due
<1>3. CASE \E error : HandleStorageFailure(error)
  <2>1. PICK error : HandleStorageFailure(error)
    BY <1>3
  <2>2. ScanTypes' /\ ScansAgree' /\ ScanFaithful'
    BY <1>1, Quiet DEF IInv, file
  <2>3. UNCHANGED <<journal, torn, faults, completed, writer, profile, dangling>>
    BY <1>1 DEF file
  <2>4. /\ journal' \in Seq(Record) /\ Len(journal') \in Nat /\ Len(journal') <= MaxRecords
        /\ Len(journal) <= Len(journal') /\ torn' \in BOOLEAN /\ faults' \in 0 .. MaxFaults
        /\ completed' \in [Pack -> Session]
    BY <1>2, <2>3
  <2>. QED
    BY <1>1, <2>1, <2>2, <2>3, <2>4, FailedStep
<1>4. ASSUME ~\E error : HandleStorageFailure(error)
      PROVE  IInv'
  <2>1. /\ UNCHANGED <<health, cal, rebootFooter>> /\ reading' \in 0 .. MaxRecords
        /\ built' \in {"none", "active", "done"} /\ point' \in 0 .. PointCount
        /\ (built' = "done" => point' = 0)
    <3>1. MaxRecords \in Nat /\ PointCount \in Nat /\ RecordsPerWork \in Nat
          /\ reading \in 0 .. MaxRecords /\ point \in 0 .. PointCount
          /\ built \in {"none", "active", "done"}
      BY <1>2, BatteryAssumption DEF TypeOK
    <3>2. CASE BeginCurveBuild
      BY <1>4, <3>1, <3>2 DEF BeginCurveBuild
    <3>3. CASE WorkCurveBuild
      <4>1. CASE Len(journal) - reading >= RecordsPerWork
        <5>1. reading + RecordsPerWork \in 0 .. MaxRecords
          BY <1>2, <3>1, <4>1
        <5>. QED
          BY <1>1, <3>1, <3>3, <4>1, <5>1 DEF WorkCurveBuild
      <4>2. CASE ~(Len(journal) - reading >= RecordsPerWork)
        BY <1>4, <3>1, <3>3, <4>2 DEF WorkCurveBuild
      <4>. QED
        BY <4>1, <4>2
    <3>. QED
      BY <3>2, <3>3
  <2>2. Calm
    BY <1>1, <1>2, <2>1, FollowsItself DEF Calm, CurveKept, PersistFrame, file
  <2>3. TypeOK'
    BY <1>1, <1>2, <2>1 DEF TypeOK, PersistFrame, file, sensor, writer
  <2>. QED
    BY <2>2, <2>3, CalmStep
<1>. QED
  BY <1>3, <1>4

\* The footer of the session the last start found open.
LEMMA RebootFooterStep ==
    ASSUME IInv, WriteRebootFooter
    PROVE  IInv'
<1> DEFINE r == Footer(dangling.session, dangling.sequence, FALSE, dangling.checksum)
<1>1. PICK o \in Outcomes :
         /\ AppendRecord(r, o)
         /\ IF o = "ok" THEN /\ rebootFooter' = FALSE /\ dangling' = NoSession
                             /\ UNCHANGED <<health, cal, curve>>
                        ELSE HandleStorageFailure(o) /\ UNCHANGED dangling
  BY DEF WriteRebootFooter
<1>2. PersistFrame /\ UNCHANGED <<writer, profile, completed>> /\ rebootFooter
  BY DEF WriteRebootFooter, Persist, PersistFrame, Due
<1>3. completed \in [Pack -> Session] /\ MaxRecords \in Nat /\ MaxSession \in Nat
      /\ dangling \in [session : Session, sequence : Sequence, checksum : SUBSET Sequence]
      /\ cal \in CalibrationType /\ sequence \in Nat /\ sequence <= Len(journal)
      /\ rebootFooter \in BOOLEAN
  BY BatteryAssumption DEF IInv, TypeOK, Sequence, Counts
<1>4. r \in Record /\ r.type = "footer" /\ r.session = dangling.session
      /\ r.sequence = dangling.sequence /\ ~r.complete
  BY <1>3 DEF Footer, Record
<1> HIDE DEF r
<1>5. /\ torn' \in BOOLEAN /\ faults' \in 0 .. MaxFaults
      /\ journal' \in Seq(Record) /\ Len(journal) \in Nat
      /\ Len(journal') \in Nat /\ Len(journal') <= MaxRecords /\ Len(journal) <= Len(journal')
      /\ \/ /\ o \in {"ok", "unconfirmed"} /\ journal' = Append(journal, r)
            /\ Len(journal) < MaxRecords /\ Len(journal') = Len(journal) + 1
         \/ o \notin {"ok", "unconfirmed"} /\ journal' = journal
  BY <1>1, <1>4, Appends
<1>6. ScanTypes' /\ ScansAgree' /\ ScanFaithful'
  <2>1. CASE journal' = journal
    BY <1>2, <2>1, Quiet DEF IInv
  <2>2. CASE journal' = Append(journal, r) /\ Len(journal) < MaxRecords
    <3>1. \A p \in Pack : Continues(Scanned(p).candidate, r)
      BY <1>2, <1>4 DEF IInv, Owing, Continues
    <3>2. \A p \in Pack : ~Completes(Scanned(p).candidate, r)
      BY <1>4 DEF Completes
    <3>. QED
      BY <1>2, <1>4, <2>2, <3>1, <3>2, FooterAppended
  <2>. QED
    BY <1>5, <2>1, <2>2
<1>7. CASE o # "ok"
  <2>1. HandleStorageFailure(o) /\ UNCHANGED <<writer, profile, dangling>>
    BY <1>1, <1>2, <1>7
  <2>. QED
    BY <1>2, <1>3, <1>5, <1>6, <2>1, FailedStep
<1>8. CASE o = "ok"
  <2>1. /\ rebootFooter' = FALSE /\ dangling' = NoSession
        /\ UNCHANGED <<health, cal, curve>>
        /\ Len(journal') = Len(journal) + 1
    BY <1>1, <1>5, <1>8
  <2>2. dangling' \in [session : Session, sequence : Sequence, checksum : SUBSET Sequence]
        /\ dangling'.sequence = 0
    BY <1>3, <2>1 DEF NoSession, Session, Sequence
  <2>3. TypeOK'
    BY <1>2, <1>5, <2>1, <2>2 DEF IInv, TypeOK, PersistFrame, sensor, curve, writer
  <2>4. Counts'
    <3>1. cal.interval => cal.persisted < MaxIntervals
      BY DEF IInv, Counts
    <3>. QED
      BY <1>2, <1>3, <1>5, <2>1, <2>2, <3>1 DEF Counts, writer
  <2>5. Stages' /\ ~cal'.headerWritten
    BY <1>2, <2>1 DEF IInv, Stages, writer, curve
  <2>6. Running' /\ Owing'
    BY <2>1, <2>5 DEF Running, Owing
  <2>7. SessionFits'
    <3>1. SessionFits /\ Active(cal)' = Active(cal) /\ Remaining' = Remaining
      BY <2>1 DEF IInv, Active, Remaining, curve
    <3> SUFFICES ASSUME Active(cal)
                 PROVE  Len(journal)' + Remaining' + 0
                           <= MaxRecords + (IF cal'.owed THEN 1 ELSE 0)
      BY <2>1, <3>1 DEF SessionFits
    <3>2. Len(journal) + Remaining + 1 <= MaxRecords + (IF cal.owed THEN 1 ELSE 0)
      BY <1>2, <3>1 DEF SessionFits
    <3>3. Remaining \in Int
      BY BatteryAssumption DEF IInv, TypeOK, CalibrationType, Remaining
    <3>. QED
      BY <1>3, <1>5, <2>1, <3>1, <3>2, <3>3
  <2>. QED
    BY <1>6, <2>3, <2>4, <2>5, <2>6, <2>7 DEF IInv
<1>. QED
  BY <1>7, <1>8

\* A footer of the running session has been appended: there is nothing to write.
LEMMA FooterClosed ==
    ASSUME IInv, NEW r \in Record, r.type = "footer", r.session = cal.session,
           journal' = Append(journal, r),
           ~Active(cal)', ~cal'.interval, cal'.session = cal.session
    PROVE  Running'
<1>1. \E i \in DOMAIN journal' : journal'[i].type = "footer" /\ journal'[i].session = r.session
  BY Appending DEF IInv
<1>. QED
  BY <1>1 DEF Running, Closed

LEMMA CompleteFooterStep ==
    ASSUME IInv, WriteCompleteFooter
    PROVE  IInv'
<1> DEFINE r == Footer(cal.session, sequence, total, checksum)
<1>1. PICK o \in Outcomes :
         /\ AppendRecord(r, o)
         /\ completed' = IF o \in {"ok", "unconfirmed"} /\ total
                         THEN [completed EXCEPT ![pack] = cal.session] ELSE completed
         /\ IF o = "ok"
            THEN /\ profile' = cal.session /\ cal' = MarkComplete(cal)
                 /\ UNCHANGED <<health, curve, rebootFooter>>
            ELSE HandleStorageFailure(o) /\ UNCHANGED profile
  BY DEF WriteCompleteFooter
<1>2. PersistFrame /\ UNCHANGED <<writer, dangling>> /\ Due = "finalize"
      /\ built = "done" /\ point = PointCount
  BY DEF WriteCompleteFooter, Persist, PersistFrame
<1>3. ~rebootFooter /\ ~cal.headerPending /\ ~cal.interval /\ cal.state = "Finalizing"
  BY <1>2 DEF Due
<1>4. cal.headerWritten /\ cal.session # 0
  BY <1>3 DEF IInv, Stages
<1>5. Open
  BY <1>3, <1>4 DEF IInv, Running, Closed, Active
<1>6. completed \in [Pack -> Session] /\ MaxRecords \in Nat /\ PointCount \in Nat
      /\ cal \in CalibrationType /\ cal.session \in Session /\ sequence \in Sequence
      /\ sequence \in Nat /\ sequence <= Len(journal) /\ checksum \subseteq Sequence
      /\ total \in BOOLEAN /\ pack \in Pack
  BY BatteryAssumption DEF IInv, TypeOK, Sequence, Counts, CalibrationType
<1>7. r \in Record /\ r.type = "footer" /\ r.session = cal.session /\ r.sequence = sequence
      /\ r.complete = total /\ r.checksum = checksum
  BY <1>6 DEF Footer, Record
<1> HIDE DEF r
<1>8. /\ torn' \in BOOLEAN /\ faults' \in 0 .. MaxFaults
      /\ journal' \in Seq(Record) /\ Len(journal) \in Nat
      /\ Len(journal') \in Nat /\ Len(journal') <= MaxRecords /\ Len(journal) <= Len(journal')
      /\ \/ /\ o \in {"ok", "unconfirmed"} /\ journal' = Append(journal, r)
            /\ Len(journal) < MaxRecords /\ Len(journal') = Len(journal) + 1
         \/ o \notin {"ok", "unconfirmed"} /\ journal' = journal
  BY <1>1, <1>7, Appends
<1>9. completed' \in [Pack -> Session]
  BY <1>1, <1>6
<1>10. ScanTypes' /\ ScansAgree' /\ ScanFaithful'
  <2>1. CASE o \notin {"ok", "unconfirmed"}
    BY <1>1, <1>8, <2>1, Quiet DEF IInv
  <2>2. CASE o \in {"ok", "unconfirmed"}
    <3>1. ASSUME NEW p \in Pack
          PROVE  LET c == Scanned(p).candidate
                 IN  /\ Continues(c, r) /\ (Completes(c, r) <=> total)
                     /\ c.session = cal.session /\ (c.ours <=> p = pack)
      <4> DEFINE c == Scanned(p).candidate
      <4>1. /\ c.session = cal.session /\ c.next = sequence /\ c.checksum = checksum
            /\ (c.ours <=> p = pack) /\ c.points = 0 .. PointCount - 1
        BY <1>2, <1>3, <1>5 DEF Open
      <4> HIDE DEF c
      <4>2. Cardinality(0 .. PointCount - 1) = PointCount
        BY <1>6, FS_Interval
      <4>3. Continues(c, r)
        BY <1>4, <1>7, <4>1 DEF Continues
      <4>4. Completes(c, r) <=> total
        BY <1>7, <4>1, <4>2 DEF Completes
      <4>. QED
        BY <4>1, <4>3, <4>4 DEF c
    <3>2. ASSUME NEW p \in Pack
          PROVE  LET c == Scanned(p).candidate
                 IN  completed'[p] = IF Continues(c, r) /\ Completes(c, r) /\ c.ours
                                     THEN c.session ELSE completed[p]
      <4>1. completed'[p] = IF total /\ p = pack THEN cal.session ELSE completed[p]
        BY <1>1, <1>6, <2>2
      <4>. QED
        BY <3>1, <4>1
    <3>3. journal' = Append(journal, r) /\ Len(journal) < MaxRecords
      BY <1>8, <2>2
    <3>4. \A p \in Pack : Continues(Scanned(p).candidate, r)
      BY <3>1
    <3>. QED
      BY <1>7, <3>2, <3>3, <3>4, FooterAppended
  <2>. QED
    BY <2>1, <2>2
<1>11. CASE o # "ok"
  <2>1. HandleStorageFailure(o) /\ UNCHANGED <<writer, profile, dangling>>
    BY <1>1, <1>2, <1>11
  <2>. QED
    BY <1>2, <1>8, <1>9, <1>10, <2>1, FailedStep
<1>12. CASE o = "ok"
  <2>1. /\ profile' = cal.session /\ cal' = MarkComplete(cal)
        /\ UNCHANGED <<health, curve, rebootFooter>>
        /\ journal' = Append(journal, r)
    BY <1>1, <1>8, <1>12
  <2>2. /\ cal' \in CalibrationType /\ cal'.state = "Complete" /\ ~cal'.footerPending
        /\ cal'.session = cal.session /\ cal'.headerWritten /\ ~cal'.headerPending
        /\ ~cal'.interval
    BY <1>3, <1>4, <1>6, <2>1 DEF MarkComplete, CalibrationType
  <2>3. TypeOK'
    BY <1>2, <1>6, <1>8, <1>9, <2>1, <2>2
       DEF IInv, TypeOK, PersistFrame, sensor, curve, writer
  <2>4. Counts'
    <3>1. dangling.sequence \in Nat /\ dangling.sequence <= Len(journal)
      BY DEF IInv, Counts, TypeOK, Sequence
    <3>. QED
      BY <1>2, <1>6, <1>8, <2>2, <3>1 DEF Counts, writer
  <2>5. Stages'
    BY <1>3, <1>4, <2>1, <2>2 DEF Stages
  <2>6. Running'
    BY <1>7, <2>1, <2>2, FooterClosed DEF Active
  <2>7. Owing' /\ SessionFits'
    BY <1>3, <2>1, <2>2 DEF Owing, SessionFits, Active
  <2>. QED
    BY <1>10, <2>3, <2>4, <2>5, <2>6, <2>7 DEF IInv
<1>. QED
  BY <1>11, <1>12

\* Perhaps a second footer of the session, which the scan takes for corruption.
LEMMA TerminalFooterStep ==
    ASSUME IInv, WriteTerminalFooter
    PROVE  IInv'
<1> DEFINE r == Footer(cal.session, sequence, FALSE, checksum)
<1>1. PICK o \in Outcomes :
         /\ AppendRecord(r, o)
         /\ IF o = "ok" THEN /\ cal' = MarkFooterWritten(cal)
                             /\ UNCHANGED <<health, curve, rebootFooter>>
                        ELSE HandleStorageFailure(o)
  BY DEF WriteTerminalFooter
<1>2. PersistFrame /\ UNCHANGED <<writer, profile, dangling, completed>> /\ Due = "footer"
  BY DEF WriteTerminalFooter, Persist, PersistFrame
<1>3. ~rebootFooter /\ ~cal.headerPending /\ ~cal.interval /\ cal.state # "Finalizing"
      /\ cal.footerPending
  BY <1>2 DEF Due
<1>4. cal.headerWritten /\ cal.session # 0 /\ ~Active(cal)
  BY <1>3 DEF IInv, Stages, Active
<1>5. completed \in [Pack -> Session] /\ MaxRecords \in Nat
      /\ cal \in CalibrationType /\ cal.session \in Session /\ sequence \in Sequence
      /\ sequence \in Nat /\ sequence <= Len(journal) /\ checksum \subseteq Sequence
  BY BatteryAssumption DEF IInv, TypeOK, Sequence, Counts, CalibrationType
<1>6. r \in Record /\ r.type = "footer" /\ r.session = cal.session /\ r.sequence = sequence
      /\ ~r.complete
  BY <1>5 DEF Footer, Record
<1> HIDE DEF r
<1>7. /\ torn' \in BOOLEAN /\ faults' \in 0 .. MaxFaults
      /\ journal' \in Seq(Record) /\ Len(journal) \in Nat
      /\ Len(journal') \in Nat /\ Len(journal') <= MaxRecords /\ Len(journal) <= Len(journal')
      /\ \/ /\ o \in {"ok", "unconfirmed"} /\ journal' = Append(journal, r)
            /\ Len(journal) < MaxRecords /\ Len(journal') = Len(journal) + 1
         \/ o \notin {"ok", "unconfirmed"} /\ journal' = journal
  BY <1>1, <1>6, Appends
<1>8. ScanTypes' /\ ScansAgree' /\ ScanFaithful'
  <2>1. CASE journal' = journal
    BY <1>2, <2>1, Quiet DEF IInv
  <2>2. CASE journal' = Append(journal, r) /\ Len(journal) < MaxRecords
    <3>1. \A p \in Pack : ~Completes(Scanned(p).candidate, r)
      BY <1>6 DEF Completes
    <3>2. \A p \in Pack :
             LET c == Scanned(p).candidate
             IN  completed'[p] = IF Continues(c, r) /\ Completes(c, r) /\ c.ours
                                 THEN c.session ELSE completed[p]
      BY <1>2, <3>1
    <3>3. \/ \A p \in Pack : Continues(Scanned(p).candidate, r)
          \/ \E i \in DOMAIN journal : journal[i].type = "footer"
                                       /\ journal[i].session = r.session
      <4>1. CASE Open
        BY <1>4, <1>6, <4>1 DEF Open, Continues
      <4>2. CASE Closed
        BY <1>6, <4>2 DEF Closed
      <4>. QED
        BY <1>4, <4>1, <4>2 DEF IInv, Running
    <3>. QED
      BY <1>6, <2>2, <3>2, <3>3, FooterAppended
  <2>. QED
    BY <1>7, <2>1, <2>2
<1>9. CASE o # "ok"
  <2>1. HandleStorageFailure(o) /\ UNCHANGED <<writer, profile, dangling>>
    BY <1>1, <1>2, <1>9
  <2>2. completed' \in [Pack -> Session]
    BY <1>2, <1>5
  <2>. QED
    BY <1>2, <1>7, <1>8, <2>1, <2>2, FailedStep
<1>10. CASE o = "ok"
  <2>1. /\ cal' = MarkFooterWritten(cal) /\ UNCHANGED <<health, curve, rebootFooter>>
        /\ journal' = Append(journal, r)
    BY <1>1, <1>7, <1>10
  <2>2. /\ cal' \in CalibrationType /\ cal'.state = cal.state /\ ~cal'.footerPending
        /\ cal'.session = cal.session /\ cal'.headerWritten /\ ~cal'.headerPending
        /\ ~cal'.interval /\ ~Active(cal)'
    BY <1>3, <1>4, <1>5, <2>1 DEF MarkFooterWritten, CalibrationType, Active
  <2>3. TypeOK'
    BY <1>2, <1>7, <2>1, <2>2 DEF IInv, TypeOK, PersistFrame, sensor, curve, writer
  <2>4. Counts'
    <3>1. dangling.sequence \in Nat /\ dangling.sequence <= Len(journal)
      BY DEF IInv, Counts, TypeOK, Sequence
    <3>. QED
      BY <1>2, <1>5, <1>7, <2>2, <3>1 DEF Counts, writer
  <2>5. Stages'
    BY <1>3, <1>4, <2>1, <2>2 DEF Stages, Active
  <2>6. Running'
    BY <1>6, <2>1, <2>2, FooterClosed
  <2>7. Owing' /\ SessionFits'
    BY <1>3, <2>1, <2>2 DEF Owing, SessionFits
  <2>. QED
    BY <1>8, <2>3, <2>4, <2>5, <2>6, <2>7 DEF IInv
<1>. QED
  BY <1>9, <1>10

(***************************************************************************)
(* The invariant holds from the first boot on.                             *)
(***************************************************************************)
LEMMA Begins == Init => IInv
<1> SUFFICES ASSUME Init PROVE IInv
  OBVIOUS
<1>1. MaxRecords \in Nat /\ MaxIntervals \in Nat /\ PointCount \in Nat /\ MaxSession \in Nat
      /\ MaxFaults \in Nat
  BY BatteryAssumption
<1>2. /\ cal \in CalibrationType /\ cal.state = "Idle" /\ ~cal.headerPending
      /\ ~cal.headerWritten /\ ~cal.interval /\ ~cal.footerPending
  BY <1>1 DEF Init, NoCalibration, CalibrationType, Session
<1>3. dangling \in [session : Session, sequence : Sequence, checksum : SUBSET Sequence]
      /\ dangling.sequence = 0
  BY <1>1 DEF Init, NoSession, Session, Sequence
<1>4. journal = <<>> /\ journal \in Seq(Record) /\ Len(journal) = 0 /\ ~rebootFooter /\ sequence = 0
  BY DEF Init
<1>5. TypeOK
  <2>1. sequence \in Sequence /\ checksum \subseteq Sequence /\ {highest, profile} \subseteq Session
        /\ reading \in 0 .. MaxRecords /\ point \in 0 .. PointCount /\ faults \in 0 .. MaxFaults
        /\ completed \in [Pack -> Session]
    BY <1>1 DEF Init, Session, Sequence
  <2>2. Len(journal) <= MaxRecords
    BY <1>1, <1>4
  <2>3. torn \in BOOLEAN /\ total \in BOOLEAN /\ rebootFooter \in BOOLEAN
    BY Zenon DEF Init
  <2>4. /\ pack \in Pack /\ at \in {"loop", "persist"} /\ request \in {"none", "start", "abort"}
        /\ health \in {"Healthy", "Corrupt", "WriteFailed", "Full"}
        /\ seen \in {"none", "full", "load", "idle", "absent"}
        /\ built \in {"none", "active", "done"}
    BY DEF Init
  <2>. QED
    BY <1>2, <1>3, <1>4, <2>1, <2>2, <2>3, <2>4 DEF TypeOK
<1>6. \A p : Scanned(p) = Unscanned
  BY <1>4, ScanEmpty DEF Scanned
<1>7. /\ Unscanned \in ScanState /\ Unscanned.candidate.next = 0
      /\ Unscanned.profile = 0 /\ ~Unscanned.corrupt
  BY <1>1 DEF Unscanned, NoCandidate, ScanState, Candidate, Session, Sequence
<1>8. ScanTypes
  BY <1>4, <1>6, <1>7 DEF ScanTypes
<1>9. ScansAgree
  BY <1>6 DEF ScansAgree, Agree
<1>10. ScanFaithful
  BY <1>6, <1>7 DEF Init, ScanFaithful
<1>11. Counts /\ Stages
  BY <1>2, <1>3, <1>4 DEF Counts, Stages
<1>12. Running /\ Owing /\ SessionFits
  BY <1>2, <1>4 DEF Running, Owing, SessionFits, Active
<1>. QED
  BY <1>5, <1>8, <1>9, <1>10, <1>11, <1>12 DEF IInv

LEMMA StepKeepsInvariant == IInv /\ [Next]_vars => IInv'
<1> SUFFICES ASSUME IInv, [Next]_vars PROVE IInv'
  OBVIOUS
<1>1. CASE \E p \in Pack : Boot(p)
  BY <1>1, BootStep
<1>2. CASE Command
  BY <1>2, CommandStep
<1>3. CASE Observe
  BY <1>3, ObserveStep
<1>4. CASE Work
  <2>1. CASE \E late \in BOOLEAN :
               \/ ControlNothing(late) \/ AbortCalibrationOwned(late)
               \/ RejectStartOwned(late) \/ RefuseToArm(late) \/ StartCalibrationOwned(late)
    BY <2>1, ControlStep
  <2>2. CASE PersistNothing
    BY <2>2, NothingStep
  <2>3. CASE WriteRebootFooter
    BY <2>3, RebootFooterStep
  <2>4. CASE WriteHeader
    BY <2>4, HeaderStep
  <2>5. CASE WriteInterval
    BY <2>5, IntervalStep
  <2>6. CASE BeginCurveBuild \/ WorkCurveBuild
    BY <2>6, CurveStep
  <2>7. CASE WritePoint
    BY <2>7, PointStep
  <2>8. CASE WriteCompleteFooter
    BY <2>8, CompleteFooterStep
  <2>9. CASE WriteTerminalFooter
    BY <2>9, TerminalFooterStep
  <2>. QED
    BY <1>4, <2>1, <2>2, <2>3, <2>4, <2>5, <2>6, <2>7, <2>8, <2>9 DEF Work
<1>5. CASE UNCHANGED vars
  <2>1. UNCHANGED <<file, pack, at, request, health, cal, sensor, writer, curve, catalog,
                    rebootFooter, completed, faults>>
    BY <1>5 DEF vars
  <2>2. Calm
    <3>1. cal \in CalibrationType /\ cal' = cal /\ journal' = journal
      BY <2>1 DEF IInv, TypeOK, file
    <3>2. Follows(cal, cal')
      BY <3>1, FollowsItself
    <3>3. CurveKept
      BY <2>1 DEF CurveKept, curve
    <3>4. UNCHANGED <<journal, completed, pack, writer, dangling, rebootFooter>>
      BY <2>1, <3>1 DEF catalog
    <3>. QED
      BY <3>2, <3>3, <3>4 DEF Calm
  <2>3. TypeOK'
    BY <2>1 DEF IInv, TypeOK, file, sensor, writer, curve, catalog
  <2>. QED
    BY <2>2, <2>3, CalmStep
<1>. QED
  BY <1>1, <1>2, <1>3, <1>4, <1>5 DEF Next

\* Every state of the monitor satisfies the inductive invariant.
THEOREM Inductive == Spec => []IInv
  BY Begins, StepKeepsInvariant, PTL DEF Spec

\* Whatever fails and whenever the power goes, the state has its type: no
\* sequence number, count of records or session id leaves its range.
THEOREM TypeCorrect == Spec => []TypeOK
<1>1. IInv => TypeOK
  BY DEF IInv
<1>. QED
  BY <1>1, Inductive, PTL

\* Whenever the power goes, the scan of scanJournalRecords() finds as each
\* pack's profile the newest session completed in the journal, and takes whole
\* records for corrupt only where a session's footer was repeated.
THEOREM ScanFinds == Spec => []ScanFaithful
<1>1. IInv => ScanFaithful
  BY DEF IInv
<1>. QED
  BY <1>1, Inductive, PTL

\* The check of canFitSession(), made once when a session is armed, covers all
\* the records the session appends, but for one reboot footer.
THEOREM RoomEnough == Spec => []SessionFits
<1>1. IInv => SessionFits
  BY DEF IInv
<1>. QED
  BY <1>1, Inductive, PTL
=============================================================================
