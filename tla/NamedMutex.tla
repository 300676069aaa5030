---------------------------- MODULE NamedMutex ----------------------------
(***************************************************************************)
(* What pkg/locker promises its users (the volume store and the            *)
(* libcontainerd client): one independent mutex per name.  Nothing here    *)
(* says how the mutexes are stored; Locker.tla is the implementation.      *)
(***************************************************************************)
CONSTANTS
  Proc,   \* the goroutines that use the locker
  Name    \* the names that can be locked

VARIABLE
  holders \* holders[n]: the goroutines between Lock(n) and Unlock(n)

TypeOK == holders \in [Name -> SUBSET Proc]

Init == holders = [n \in Name |-> {}]

\* Lock(n) returns to p: only when nobody holds n.
Acquire(p, n) ==
  /\ holders[n] = {}
  /\ holders' = [holders EXCEPT ![n] = {p}]

\* Unlock(n) by the goroutine that holds n.
Release(p, n) ==
  /\ p \in holders[n]
  /\ holders' = [holders EXCEPT ![n] = @ \ {p}]

Next == \E p \in Proc, n \in Name : Acquire(p, n) \/ Release(p, n)

Spec == Init /\ [][Next]_holders
===========================================================================
