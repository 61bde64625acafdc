----------------------------- MODULE FrameStore ----------------------------
(***************************************************************************)
(* What the transports and the drainer rely on: a frame that was accepted  *)
(* reads as it was received until it is given back.                        *)
(***************************************************************************)
CONSTANTS Key, Content

VARIABLE kept   \* contents of the frames handed out, by key

Accept(k, c) ==
    /\ k \notin DOMAIN kept
    /\ kept' = [j \in DOMAIN kept \cup {k} |-> IF j = k THEN c ELSE kept[j]]

GiveBack(k) ==
    /\ k \in DOMAIN kept
    /\ kept' = [j \in DOMAIN kept \ {k} |-> kept[j]]

Init == kept = [k \in {} |-> CHOOSE c \in Content : TRUE]
Next == \E k \in Key : GiveBack(k) \/ \E c \in Content : Accept(k, c)
Spec == Init /\ [][Next]_kept
=============================================================================
