----------------------------- MODULE MCBreakers -----------------------------
(* Instances of Breakers: two calls carry one buy, a third another. *)
EXTENDS Breakers

CONSTANTS c1, c2, c3, b1, b2

CallsOrderOf == [c \in Calls |-> IF c = c3 THEN b2 ELSE b1]

\* Cooldowns outlast the windows, as in the code.
Cooldowns == [b \in BreakerNames |-> 2]
=============================================================================
