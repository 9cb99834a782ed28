----------------------------- MODULE MCRefunds -----------------------------
(* Small instances of Refunds: two or three refunds whose amounts may exceed *)
(* the payment together, one or two workers.                                 *)
EXTENDS Refunds, TLC

Symmetric == Permutations(Refunds) \cup Permutations(Workers)
=============================================================================
