----------------------------- MODULE MCRetention -----------------------------
(* A calendar of two-day months for the model checker.                      *)
EXTENDS Retention

MCMonthOf == [d \in 0..(MaxDay + 1) |-> (d + 1) \div 2]

MCMonthEnd == [m \in 0..((MaxDay + 2) \div 2) |-> 2 * m]
=============================================================================
