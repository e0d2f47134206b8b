---------------------------- MODULE MCEventBus ----------------------------
(* Small instances of EventBus for TLC.                                    *)
EXTENDS EventBus

CONSTANTS s1, s2, p1, p2
=============================================================================
