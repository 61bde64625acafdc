-------------------------- MODULE MCIngressBuffer --------------------------
(***************************************************************************)
(* Four frames of two sizes in an arena that holds two or three of them.   *)
(***************************************************************************)
EXTENDS IngressBuffer, TLC

CONSTANTS m1, m2, m3, m4, runner, link1, link2

MCPayloadSize == [k \in Key |-> IF k \in {m1, m2} THEN 1 ELSE 2]

\* Frames of one size, and the links' tasks, are interchangeable.
MCSymmetry == Permutations({m1, m2}) \cup Permutations({m3, m4}) \cup Permutations({link1, link2})
=============================================================================
