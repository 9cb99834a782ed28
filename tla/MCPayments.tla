---------------------------- MODULE MCPayments ----------------------------
(* Small instances of Payments: two payments that name the same or different *)
(* orders, and two or three other calls; which call is what, and on what, is *)
(* part of the initial state, so a run covers every combination.             *)
EXTENDS Payments, TLC

Symmetric == Permutations(Payments) \cup Permutations(Calls)
=============================================================================
