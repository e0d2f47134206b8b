--------------------------- MODULE MCTrackingCache ---------------------------
(* Small instances of TrackingCache for TLC.                               *)
EXTENDS TrackingCache, TLC

CONSTANTS r1, r2, h1, h2, t1, t2

Symmetry == Permutations(Request) \cup Permutations(Hook) \cup Permutations(Tenant)
=============================================================================
