----------------------------- MODULE MCRouting -----------------------------
(***************************************************************************)
(* A hub and two leaves.                                                   *)
(***************************************************************************)
EXTENDS Routing

CONSTANTS h, a, b, t1

MCLink == {{h, a}, {h, b}}
MCInterest == {<<h, t1>>, <<b, t1>>}
MCSettled == {<<h, t1>>}
MCFragile == {{h, b}}
MCSource == {<<a, t1>>, <<h, t1>>}
=============================================================================
