------------------------------- MODULE MCParts -------------------------------
(***************************************************************************)
(* Small instances, for TLC, of five parts of the system: the sessions of  *)
(* administrators, what stands before a login, orders that are paid in     *)
(* coins, the limiters, and the registry.  They share no state: a          *)
(* behaviour of this specification is one of a single part, with the       *)
(* others at rest where they start; to interleave them would multiply      *)
(* their states and show nothing more.                                     *)
(***************************************************************************)
EXTENDS MCAdminSession

CONSTANTS
  MaxCaptchas, MarkTtl, Limit, FailTtl, LockTtl,
  MaxOrders, Chain, Bases, Offsets, MaxTransfers,
  Window, Slack, SweepEvery, MaxIdle, MaxInstants, MaxCalls,
  MaxInstances, LeaseTtl

VARIABLES
  part,  \* the part this behaviour is about
  mark, fails, failTtl, lock, loginJob, loginFaults,
  served, guesses, late, age, orphan,
  status, amount, tx, transfers, coinJob, shown, met, full,
  limiter, clock, count, ttl, start, swept, log, limitJob, calls, limitFaults,
  passed, granted, refused,
  at, hosts, lease, keys, keeper, due, etcdFaults, clean, loose, over

Guard == INSTANCE LoginGuard WITH job <- loginJob, faults <- loginFaults

guardVars == <<mark, fails, failTtl, lock, loginJob, loginFaults,
               served, guesses, late, age, orphan>>

\* For TLC: every order is paid on the chain that is looked up, and the rate
\* stands still, so that the orders want the same amounts.
AllTrc == [o \in 1..MaxOrders |-> "trc20"]
OneBase == [o \in 1..MaxOrders |-> {10}]

Coins == INSTANCE CryptoPayment WITH job <- coinJob

coinVars == <<status, amount, tx, transfers, coinJob, shown, met, full>>

Limits == INSTANCE RateLimit WITH
  now <- clock, job <- limitJob, faults <- limitFaults, MaxTime <- MaxInstants

limitVars == <<limiter, clock, count, ttl, start, swept, log, limitJob, calls,
               limitFaults, passed, granted, refused>>

Registry == INSTANCE EtcdRegistry WITH faults <- etcdFaults, Process <- Worker

registryVars == <<at, hosts, lease, keys, keeper, due, etcdFaults, clean, loose, over>>

ASSUME PartsAssumption ==
  /\ Guard!GuardAssumption /\ Coins!CryptoAssumption
  /\ Limits!LimitAssumption /\ Registry!RegistryAssumption

PartsInit ==
  /\ part \in {"sessions", "guard", "coins", "limits", "registry"}
  /\ Init /\ Guard!Init /\ Coins!Init /\ Limits!Init /\ Registry!Init
  /\ part # "limits" => limiter = "log"

\* Every part but the one named is at rest.
RestBut(name) ==
  /\ name # "sessions" => UNCHANGED vars
  /\ name # "guard" => UNCHANGED guardVars
  /\ name # "coins" => UNCHANGED coinVars
  /\ name # "limits" => UNCHANGED limitVars
  /\ name # "registry" => UNCHANGED registryVars

PartsNext ==
  /\ \/ part = "sessions" /\ Next
     \/ part = "guard" /\ Guard!Next
     \/ part = "coins" /\ Coins!Next
     \/ part = "limits" /\ Limits!Next
     \/ part = "registry" /\ Registry!Next
  /\ UNCHANGED part /\ RestBut(part)

PartsSpec ==
  PartsInit /\ [][PartsNext]_<<part, vars, guardVars, coinVars, limitVars, registryVars>>

(* The properties of the parts, stated in their modules.                   *)

TypesOK ==
  /\ TypeOK /\ Guard!TypeOK /\ Coins!TypeOK /\ Limits!TypeOK /\ Registry!TypeOK

CaptchaServesOnce == part = "guard" => Guard!CaptchaServesOnce
GuessesBounded == part = "guard" => Guard!GuessesBounded
StaleNeverCounts == part = "guard" => Guard!StaleNeverCounts

AmountsDiffer == part = "coins" => Coins!AmountsDiffer
ShownIsKept == part = "coins" => Coins!ShownIsKept
TransferFindsItsOrder == Coins!TransferFindsItsOrder

NeverTooMany == part = "limits" => Limits!NeverTooMany
NeverTooFew == part = "limits" => Limits!NeverTooFew

RegisteredIsFound == part = "registry" => Registry!RegisteredIsFound
EndedIsGone == part = "registry" => Registry!EndedIsGone
=============================================================================
