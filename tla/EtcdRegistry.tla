---------------------------- MODULE EtcdRegistry ----------------------------
(***************************************************************************)
(* Instances of one service that register in etcd                          *)
(* (ecat-registry-etcd/src/lib.rs): a key on a lease, which a task keeps   *)
(* alive.  A registration removes itself when it is dropped                *)
(* (ecat-registry/src/lib.rs).                                             *)
(*                                                                         *)
(* Tasks are filed under the name of the service, and deregister removes   *)
(* the keys of the name: the instances of one name, in one process or in   *)
(* several, are in each other's way.  Etcd itself is external.             *)
(***************************************************************************)
EXTENDS Integers, FiniteSets

CONSTANTS
  Process,       \* processes, each with a registry of its own
  MaxInstances,  \* bound: instances that register
  LeaseTtl,      \* life of a lease in ticks (30 s)
  MaxFaults      \* bound: calls of etcd that fail, and processes that die

Instance == 1..MaxInstances

\* A third of the lease, one tick at least.
Interval == IF LeaseTtl \div 3 > 1 THEN LeaseTtl \div 3 ELSE 1

\* A lease outlives one keep-alive that is lost.
RegistryAssumption ==
  /\ MaxInstances \in Nat /\ MaxFaults \in Nat
  /\ LeaseTtl \in Nat /\ 2 * Interval < LeaseTtl

VARIABLES
  at,      \* how far each instance is
  hosts,   \* the instances of each process
  lease,   \* what is left of its lease; 0 if it has none
  keys,    \* the instances whose key is in etcd
  keeper,  \* keepalives of each process: the instance of the task; 0 for none
  due,     \* ticks until the task of each instance calls; -1 if it has none
  faults,
  \* History, read by nobody:
  clean,   \* registered, and no deregistration of the name under way since
  loose,   \* instances whose task was overwritten in keepalives
  over     \* ticks since the instance ended, up to one over the lease

program == <<at, hosts>>
etcd == <<lease, keys>>
tasks == <<keeper, due>>
history == <<clean, loose, over>>
vars == <<program, etcd, tasks, faults, history>>

Init ==
  /\ at = [i \in Instance |-> "new"] /\ hosts = [p \in Process |-> {}]
  /\ lease = [i \in Instance |-> 0] /\ keys = {}
  /\ keeper = [p \in Process |-> 0] /\ due = [i \in Instance |-> -1]
  /\ faults = 0
  /\ clean = {} /\ loose = {} /\ over = [i \in Instance |-> 0]

At(i, step) == at[i] = step
Become(i, step) == at' = [at EXCEPT ![i] = step]
Go(i, step) == Become(i, step) /\ UNCHANGED hosts

Host(i) == CHOOSE p \in Process : i \in hosts[p]

Works == UNCHANGED faults
Fails == faults < MaxFaults /\ faults' = faults + 1

\* Mutant: the task calls only when the lease is over.
TooLate == LeaseTtl

Period == Interval

-----------------------------------------------------------------------------
(* register.                                                               *)

Leaving == {"abort", "delete", "abortAgain", "deleteAgain"}

Register(p, i) ==
  /\ At(i, "new") /\ \A j \in Instance : j < i => ~At(j, "new")
  /\ Become(i, "grant") /\ hosts' = [hosts EXCEPT ![p] = @ \cup {i}]
  /\ clean' = IF \E j \in Instance : at[j] \in Leaving THEN clean ELSE clean \cup {i}
  /\ UNCHANGED <<etcd, tasks, faults, loose, over>>

Grant(i) ==
  /\ At(i, "grant")
  /\ \/ lease' = [lease EXCEPT ![i] = LeaseTtl] /\ Go(i, "put") /\ Works
     \/ UNCHANGED lease /\ Go(i, "failed") /\ Fails
  /\ UNCHANGED <<keys, tasks, history>>

\* If the answer is lost, register fails and the key is there; if etcd answers
\* with an error, register succeeds and the key is not there.
Put(i) ==
  /\ At(i, "put")
  /\ \/ keys' = keys \cup {i} /\ Go(i, "spawn") /\ Works /\ UNCHANGED clean
     \/ keys' \in {keys, keys \cup {i}} /\ Go(i, "failed") /\ Fails /\ UNCHANGED clean
     \/ UNCHANGED keys /\ Go(i, "spawn") /\ Fails /\ clean' = clean \ {i}
  /\ UNCHANGED <<lease, tasks, loose, over>>

\* A task that was filed under the name before is dropped, and runs on.
Spawn(i) ==
  LET p == Host(i) IN
  /\ At(i, "spawn")
  /\ keeper' = [keeper EXCEPT ![p] = i]
  /\ due' = [due EXCEPT ![i] = Period]
  /\ loose' = IF keeper[p] = 0 THEN loose ELSE loose \cup {keeper[p]}
  /\ Go(i, "held")
  /\ UNCHANGED <<etcd, faults, clean, over>>

\* The task calls; a lease that is over does not come back.
KeepAlive(i) ==
  /\ due[i] = 0
  /\ due' = [due EXCEPT ![i] = Period]
  /\ \/ lease' = [lease EXCEPT ![i] = IF @ > 0 THEN LeaseTtl ELSE 0] /\ Works
     \/ UNCHANGED lease /\ Fails
  /\ UNCHANGED <<program, keys, keeper, history>>

-----------------------------------------------------------------------------
(* deregister, called by the program, and by the drop of the registration. *)

Ask(i) ==
  /\ At(i, "held") /\ Go(i, "abort") /\ clean' = {}
  /\ UNCHANGED <<etcd, tasks, faults, loose, over>>

Drop(i) ==
  /\ at[i] \in {"held", "told"} /\ Go(i, "abortAgain") /\ clean' = {}
  /\ UNCHANGED <<etcd, tasks, faults, loose, over>>

\* Mutant: the handle is taken out of the map, and the task runs on.
RunsOn(j) == due

Aborted(j) == [due EXCEPT ![j] = -1]

\* The task under the name ends, whoever's it is.
Abort(i) ==
  LET p == Host(i) IN
  /\ \/ At(i, "abort") /\ Go(i, "delete")
     \/ At(i, "abortAgain") /\ Go(i, "deleteAgain")
  /\ due' = IF keeper[p] = 0 THEN due ELSE Aborted(keeper[p])
  /\ keeper' = [keeper EXCEPT ![p] = 0]
  /\ UNCHANGED <<etcd, faults, history>>

\* The keys of the name go.
Delete(i) ==
  /\ \/ At(i, "delete") /\ Go(i, "told")
     \/ At(i, "deleteAgain") /\ Go(i, "left")
  /\ \/ keys' = {} /\ Works
     \/ UNCHANGED keys /\ Fails
  /\ UNCHANGED <<lease, tasks, history>>

-----------------------------------------------------------------------------

Crash(p) ==
  /\ hosts[p] # {} /\ Fails
  /\ at' = [i \in Instance |-> IF i \in hosts[p] THEN "dead" ELSE at[i]]
  /\ due' = [i \in Instance |-> IF i \in hosts[p] THEN -1 ELSE due[i]]
  /\ keeper' = [keeper EXCEPT ![p] = 0]
  /\ UNCHANGED <<hosts, etcd, history>>

Ended(i) == at[i] \in {"left", "failed", "dead"}

\* Ticks are coarse: a task that is due calls, and register goes on, before the
\* next one.  A deregistration may take its time.
Tick ==
  /\ \A i \in Instance : due[i] # 0 /\ at[i] \notin {"put", "spawn"}
  /\ \E i \in Instance : lease[i] > 0
  /\ lease' = [i \in Instance |-> IF lease[i] > 0 THEN lease[i] - 1 ELSE 0]
  /\ keys' = {i \in keys : lease[i] > 1}
  /\ due' = [i \in Instance |-> IF due[i] > 0 THEN due[i] - 1 ELSE due[i]]
  /\ over' = [i \in Instance |->
                IF Ended(i) /\ over[i] <= LeaseTtl THEN over[i] + 1 ELSE over[i]]
  /\ UNCHANGED <<program, keeper, faults, clean, loose>>

Next ==
  \/ Tick
  \/ \E p \in Process : Crash(p) \/ \E i \in Instance : Register(p, i)
  \/ \E i \in Instance :
       \/ Grant(i) \/ Put(i) \/ Spawn(i) \/ KeepAlive(i)
       \/ Ask(i) \/ Drop(i) \/ Abort(i) \/ Delete(i)

Spec == Init /\ [][Next]_vars

-----------------------------------------------------------------------------
(* Properties.                                                             *)

TypeOK ==
  /\ at \in [Instance -> {"new", "grant", "put", "spawn", "held", "told", "left",
                          "failed", "dead"} \cup Leaving]
  /\ hosts \in [Process -> SUBSET Instance]
  /\ \A i \in Instance : At(i, "new") \/ \E p \in Process : i \in hosts[p]
  /\ lease \in [Instance -> 0..LeaseTtl] /\ keys \subseteq Instance
  /\ keeper \in [Process -> {0} \cup Instance] /\ due \in [Instance -> -1..LeaseTtl]
  /\ faults \in 0..MaxFaults
  /\ clean \subseteq Instance /\ loose \subseteq Instance
  /\ over \in [Instance -> 0..(LeaseTtl + 1)]

\* An instance whose key etcd took is found as long as nobody of its name has
\* deregistered since it began to register, nor was about to; one keep-alive
\* that is lost changes nothing.
RegisteredIsFound ==
  \A i \in clean : At(i, "held") /\ faults <= 1 => i \in keys

\* What has ended, with its process or without, is not found for longer than
\* a lease, even if etcd failed to remove it; unless its task was overwritten
\* by that of another instance of its process, when nobody can end it.
EndedIsGone ==
  \A i \in keys : Ended(i) => over[i] <= LeaseTtl \/ (i \in loose /\ faults > 0)
=============================================================================
