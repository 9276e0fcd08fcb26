------------------------------ MODULE MCHistory ------------------------------
(***************************************************************************)
(* Two devices of one user push overlapping batches; one of them sends its *)
(* batch, which has a fraction of a second in it, again.  Another user     *)
(* pushes the same item, and an empty batch.                               *)
(***************************************************************************)
EXTENDS History

CONSTANTS ann, bob, a, b, laptop, again, phone, other, nothing

a1 == [what |-> a, when |-> 2]
a2 == [what |-> a, when |-> 3]   \* stored as 4
b2 == [what |-> b, when |-> 6]

Sender  == [p \in Pushes |-> IF p \in {other, nothing} THEN bob ELSE ann]
Retried == [p \in Pushes |-> IF p = again THEN laptop ELSE None]

Pushed ==
  [p \in Pushes |-> CASE p = phone -> <<b2, a1, b2>>
                      [] p = other -> <<a1>>
                      [] p = nothing -> <<>>
                      [] OTHER     -> <<a2, b2>>]

WholeSeconds == [p \in Pushes |-> <<a1>>]
=============================================================================
