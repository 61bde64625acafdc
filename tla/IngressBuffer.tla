--------------------------- MODULE IngressBuffer ---------------------------
(***************************************************************************)
(* The frames received from the links, kept in the arena as they came (a   *)
(* header, the payload and a checksum) or, when the table of serialized    *)
(* records is full, as payload alone.  A frame kept whole is validated     *)
(* when its payload is read first.  Only the runner stores and reads; the  *)
(* links' tasks release as well.  The table has no lock: clearing a record *)
(* takes two steps, in the order of its fields.                            *)
(***************************************************************************)
EXTENDS ByteArena

CONSTANTS
    Task,         \* the runner and the links' tasks
    Runner,
    PayloadSize,  \* bytes of payload by key
    HeaderSize,
    RecordCount,  \* maxMessageQueueSize
    None          \* the header of a cleared record

ASSUME IngressAssumption ==
    /\ Runner \in Task /\ None \notin Key
    /\ PayloadSize \in [Key -> Nat \ {0}]
    /\ HeaderSize \in Nat \ {0} /\ RecordCount \in Nat \ {0}

VARIABLES
    records,  \* _serializedRecords
    task,     \* where a task is in storeFrame or release
    held,     \* frames handed out and not given back
    content   \* whether a frame was received intact (history; "intact"
              \* when there is none)

vars == <<arena, records, task, held, content>>

Content == {"intact", "damaged"}
Record == 1 .. RecordCount
FrameSize(k) == HeaderSize + PayloadSize[k] + 1

\* A byte is named by its frame and place; damage hits a payload byte.
Frame(k, c) ==
    [i \in 1 .. FrameSize(k) |->
        [key |-> k, place |-> i, good |-> c = "intact" \/ i # HeaderSize + 1]]
Payload(k, c) == [i \in 1 .. PayloadSize[k] |-> Frame(k, c)[HeaderSize + i]]

Cleared == [header |-> None, occupied |-> FALSE, validated |-> FALSE]
Idle == [at |-> "idle", key |-> None, record |-> 0]

TypeOK ==
    /\ spans \subseteq Span /\ Cardinality(spans) <= SpanCount
    /\ Retained \subseteq Key /\ Cardinality(Retained) <= SlotCount
    /\ records \in [Record -> [header : Key \cup {None}, occupied : BOOLEAN, validated : BOOLEAN]]
    /\ task \in [Task -> [at : {"idle", "whole", "payload", "remember", "clear", "release"},
                          key : Key \cup {None}, record : Record \cup {0}]]
    /\ held \subseteq Retained
    /\ content \in [Key -> Content]

Init ==
    /\ ArenaInit
    /\ records = [r \in Record |-> Cleared]
    /\ task = [t \in Task |-> Idle]
    /\ held = {}
    /\ content = [k \in Key |-> "intact"]

\* _serializedRecordIndex
RecordOf(k) == {r \in Record : records[r].occupied /\ records[r].header = k}
Unoccupied == {r \in Record : ~records[r].occupied}

----------------------------------------------------------------------------
(***************************************************************************)
(* storeFrame.                                                             *)
(***************************************************************************)

\* A frame whose key is retained is a duplicate; one that would be kept
\* without its checksum is validated first.
Arrive(k, c) ==
    /\ task[Runner] = Idle
    /\ k \notin Retained
    /\ \/ Unoccupied # {} /\ task' = [task EXCEPT ![Runner] = [Idle EXCEPT !.at = "whole", !.key = k]]
       \/ /\ Unoccupied = {} /\ c = "intact"
          /\ task' = [task EXCEPT ![Runner] = [Idle EXCEPT !.at = "payload", !.key = k]]
    /\ content' = [content EXCEPT ![k] = c]
    /\ UNCHANGED <<arena, records, held>>

\* What is copied into the arena for the frame the runner is storing.
Bytes(k) ==
    IF task[Runner].at = "whole" THEN Frame(k, content[k]) ELSE Payload(k, content[k])

StoreFrame ==
    LET k == task[Runner].key IN
    /\ task[Runner].at \in {"whole", "payload"}
    /\ \/ Store(k, Bytes(k)) /\ UNCHANGED <<records, content>>
          /\ \/ /\ task[Runner].at = "whole"
                /\ task' = [task EXCEPT ![Runner].at = "remember"]
                /\ UNCHANGED held
             \/ /\ task[Runner].at = "payload"
                /\ task' = [task EXCEPT ![Runner] = Idle]
                /\ held' = held \cup {k}
       \/ /\ Refused(Len(Bytes(k)))
          /\ task' = [task EXCEPT ![Runner] = Idle]
          /\ content' = [content EXCEPT ![k] = "intact"]
          /\ UNCHANGED <<arena, records, held>>

Remember ==
    LET k == task[Runner].key IN
    /\ task[Runner].at = "remember"
    /\ \E r \in Unoccupied :
         /\ \A q \in Unoccupied : r <= q
         /\ records' = [records EXCEPT ![r] =
                            [header |-> k, occupied |-> TRUE, validated |-> FALSE]]
    /\ held' = held \cup {k}
    /\ task' = [task EXCEPT ![Runner] = Idle]
    /\ UNCHANGED <<arena, content>>

(***************************************************************************)
(* getRaw and release.                                                     *)
(***************************************************************************)

\* What a read of the frame copies, whether or not it may.
Whole(k) == Read(offset[k], FrameSize(k))
Start(k) == offset[k] + IF RecordOf(k) # {} THEN HeaderSize ELSE 0
PayloadRead(k) == Read(Start(k), PayloadSize[k])

\* Mutant: the flag is set before the checksum is compared.
ValidOnceAsked(k) == TRUE
\* SerDe::validateFrame
Valid(k) == \A i \in 1 .. FrameSize(k) : Whole(k)[i].good

Validate(k) ==
    /\ task[Runner] = Idle /\ k \in held
    /\ \E r \in RecordOf(k) :
         /\ ~records[r].validated /\ Valid(k)
         /\ records' = [records EXCEPT ![r].validated = TRUE]
    /\ UNCHANGED <<arena, task, held, content>>

\* Mutant: the flag is cleared before the header.
ForgetFlagFirst(t, k) ==
    \E r \in RecordOf(k) :
        /\ records' = [records EXCEPT ![r].occupied = FALSE]
        /\ task' = [task EXCEPT ![t] = [at |-> "clear", key |-> k, record |-> r]]

\* _forgetSerialized assigns the record; its fields are stored in turn.
Forget(t, k) ==
    \E r \in RecordOf(k) :
        /\ records' = [records EXCEPT ![r].header = None]
        /\ task' = [task EXCEPT ![t] = [at |-> "clear", key |-> k, record |-> r]]

ReleaseFrame(t, k) ==
    /\ task[t] = Idle /\ k \in held
    /\ held' = held \ {k}
    /\ content' = [content EXCEPT ![k] = "intact"]
    /\ \/ Forget(t, k)
       \/ /\ RecordOf(k) = {}
          /\ task' = [task EXCEPT ![t] = [at |-> "release", key |-> k, record |-> 0]]
          /\ UNCHANGED records
    /\ UNCHANGED arena

\* Mutant: the record stays taken.
ClearHeaderOnly(t) ==
    /\ task[t].at = "clear"
    /\ task' = [task EXCEPT ![t].at = "release"]
    /\ UNCHANGED <<arena, records, held, content>>

Clear(t) ==
    /\ task[t].at = "clear"
    /\ records' = [records EXCEPT ![task[t].record] = Cleared]
    /\ task' = [task EXCEPT ![t].at = "release"]
    /\ UNCHANGED <<arena, held, content>>

ReleaseRecord(t) ==
    /\ task[t].at = "release"
    /\ Release(task[t].key)
    /\ task' = [task EXCEPT ![t] = Idle]
    /\ UNCHANGED <<records, held, content>>

----------------------------------------------------------------------------
Next ==
    \/ \E k \in Key : \/ \E c \in Content : Arrive(k, c)
                      \/ Validate(k)
                      \/ \E t \in Task : ReleaseFrame(t, k)
    \/ StoreFrame \/ Remember
    \/ \E t \in Task : Clear(t) \/ ReleaseRecord(t)

Spec == Init /\ [][Next]_vars

----------------------------------------------------------------------------
Bound(s) == s.offset .. s.offset + s.size - 1

\* The spans cut the buffer into disjoint pieces without a gap, the occupied
\* ones are those of the retained records, and freed neighbours are always
\* merged: a refused frame finds no larger hole by waiting for anything but a
\* release.
Tiled ==
    /\ \A b \in 0 .. BufferSize - 1 : Cardinality({s \in spans : b \in Bound(s)}) = 1
    /\ \A s \in spans : s.size > 0 /\ s.offset + s.size <= BufferSize
    /\ {s.offset : s \in {r \in spans : r.occupied}} = {offset[k] : k \in Retained}
    /\ \A j, k \in Retained : offset[j] = offset[k] => j = k
    /\ \A r, s \in spans : r.occupied \/ s.occupied \/ r.offset + r.size # s.offset

\* When every frame has been given back and the tasks are done, the buffer is
\* one free span again and no record of the table is taken.
Reclaimed ==
    (held = {} /\ \A t \in Task : task[t] = Idle)
        => spans = {WholeBuffer} /\ Unoccupied = Record

\* "Payload access implies validation": of a frame that may be read without
\* another check, no damaged byte is copied.
AccessImpliesValidation ==
    \A k \in held :
        (RecordOf(k) = {} \/ \E r \in RecordOf(k) : records[r].validated)
            => PayloadRead(k) = Payload(k, "intact")

\* What a reader is given for a frame: its payload, and the whole frame where
\* it is kept.
ReadsAs(k) ==
    IF \E c \in Content : /\ PayloadRead(k) = Payload(k, c)
                          /\ RecordOf(k) # {} => Whole(k) = Frame(k, c)
    THEN CHOOSE c \in Content : PayloadRead(k) = Payload(k, c)
    ELSE "overwritten"

Kept == INSTANCE FrameStore WITH kept <- [k \in held |-> ReadsAs(k)]

\* Every frame handed out reads as it was received, at its own place, until
\* it is given back, whatever is stored and released meanwhile.
ImplementsFrameStore == Kept!Spec
=============================================================================
