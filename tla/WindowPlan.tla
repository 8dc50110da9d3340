----------------------------- MODULE WindowPlan -----------------------------
(* What may happen in one behaviour of a window: a bound, no part of the code. *)
EXTENDS Integers

CONSTANT Plans      \* the plans, one of them chosen in Init
VARIABLE left       \* how often each thing may still happen

May(what) == left[what] > 0
Spend(what) == May(what) /\ left' = [left EXCEPT ![what] = @ - 1]
=============================================================================
