------------------------------- MODULE MCInputs -------------------------------
(* Inputs for TLC: every thousandth up to more than the column holds, and limits *)
(* around every bound.                                                           *)
EXTENDS Inputs

ManyAmounts == 1..(11 * MaxCents)
SomeLimits == -3..6 \cup UNION {(2 * n - 2)..(2 * n + 2) : n \in {20, 50, 100, 120, 200}}
=============================================================================
