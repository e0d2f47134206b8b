---------------------------- MODULE MCAdminSession ----------------------------
(* Small instances of AdminSession for TLC.                                *)
EXTENDS AdminSession, TLC

CONSTANTS w1, w2

TwoWorkers == {w1, w2}

Symmetry == Permutations(Worker)
=============================================================================
