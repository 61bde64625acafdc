----------------------------- MODULE MCDrainer -----------------------------
(* Instances of Drainer for TLC: two transports, one local publish and frames *)
(* of three remote messages, fewer slots and queue entries than messages.     *)
EXTENDS Drainer

CONSTANTS a, x, y, z

OneLocal == {a}
OneRemote == {x}
ThreeRemote == {x, y, z}

(* The remote headers are interchangeable: they are stored in this order first. *)
NamedInOrder == (y \in stored => arrivals >= 2) /\ (z \in stored => arrivals >= 3)

(* A bound: the third frame only arrives while the second transport's publish  *)
(* queue is empty; only the first transport's is filled.                       *)
ThirdFrame == arrivals = 3 => inbox[2] = <<>>
=============================================================================
