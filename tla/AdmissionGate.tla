--------------------------- MODULE AdmissionGate ---------------------------
(***************************************************************************)
(* What a circuit breaker promises to the callers of the service behind it *)
(* and to that service, without saying how it decides.  A gate is          *)
(*   "pass"  - every call goes through,                                    *)
(*   "shut"  - no call goes through,                                       *)
(*   "trial" - a bounded number of calls goes through.                     *)
(* The gate opens to trials only on a call made after a cool-down, changes *)
(* its mind only when a call returns, and never goes straight from "shut"  *)
(* to "pass".                                                              *)
(***************************************************************************)
EXTENDS Integers

CONSTANTS
  Caller,   \* the callers; each has at most one call in flight
  Trials    \* calls let through from one shutting of the gate to the next

VARIABLES
  gate,     \* "pass", "shut" or "trial"
  budget,   \* trials left; meaningful while the gate is on trial
  inside,   \* callers whose call is in flight behind the gate
  cooling   \* TRUE from the moment the gate shuts until the cool-down ends

gvars == <<gate, budget, inside, cooling>>

Init ==
  /\ gate = "pass"
  /\ budget = 0
  /\ inside = {}
  /\ cooling = FALSE

\* The gate lets the call of c through.
Admit(c) ==
  /\ c \notin inside
  /\ inside' = inside \cup {c}
  /\ UNCHANGED cooling
  /\ \/ gate = "pass" /\ UNCHANGED <<gate, budget>>
     \/ gate = "shut" /\ ~cooling /\ gate' = "trial" /\ budget' = Trials - 1
     \/ gate = "trial" /\ budget > 0 /\ budget' = budget - 1 /\ UNCHANGED gate

\* The call of c returns, or its caller abandons it; a return may shut the
\* gate, or open it fully if it was on trial.  (The cool-down of a gate that
\* shuts may have no length at all.)
Leave(c) ==
  /\ c \in inside
  /\ inside' = inside \ {c}
  /\ \/ UNCHANGED <<gate, budget, cooling>>
     \/ gate # "shut" /\ gate' = "shut" /\ budget' = 0 /\ cooling' \in BOOLEAN
     \/ gate = "trial" /\ gate' = "pass" /\ budget' = 0 /\ UNCHANGED cooling

CoolDown ==
  /\ cooling
  /\ cooling' = FALSE
  /\ UNCHANGED <<gate, budget, inside>>

Next == CoolDown \/ \E c \in Caller : Admit(c) \/ Leave(c)

Spec == Init /\ [][Next]_gvars
=============================================================================
