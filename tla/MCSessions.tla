----------------------------- MODULE MCSessions -----------------------------
(***************************************************************************)
(* Two devices: "orderly" waits for each answer, "hasty" does not.         *)
(***************************************************************************)
EXTENDS Sessions

CONSTANTS orderly, hasty, r1, r2, r3, r4, l1, l2

Sender == [q \in Requests |-> IF q \in {r1, r2, l1} THEN orderly ELSE hasty]
=============================================================================
