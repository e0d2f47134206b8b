-------------------------- MODULE MCCircuitBreaker --------------------------
(* Small instances of CircuitBreaker for TLC.                              *)
EXTENDS CircuitBreaker, TLC

CONSTANTS c1, c2, c3, c4

FourCalls == {c1, c2, c3, c4}

\* Calls are interchangeable; used where only safety is checked.
Symmetry == Permutations(Call)
=============================================================================
