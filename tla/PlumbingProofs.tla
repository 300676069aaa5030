--------------------------- MODULE PlumbingProofs ---------------------------
(***************************************************************************)
(* Locker for any number of goroutines, names and lockCtr addresses: type  *)
(* correctness, mutual exclusion per name, no leaked map entry, and the    *)
(* refinement of NamedMutex.  Events for any number of loggers, requests   *)
(* and events: none is missed and none is sent to a closed channel.        *)
(***************************************************************************)
EXTENDS Plumbing, FiniteSetTheorems, TLAPS

\* The goroutines counted in c's waiters.
WaitersOf(c) == {p \in Proc : /\ pc[p] \in {"locking", "decrementing"}
                              /\ nameLock[p] = c}

\* A lockCtr serves one name.
OneNamePerCtr ==
  \A m, n \in Name : locks[m] # None /\ locks[m] = locks[n] => m = n

\* The lockCtr's mutex is held by the goroutine that is past nameLock.Lock().
OwnerIsHolder ==
  \A p \in Proc, c \in Ctr :
    owner[c] = p <=> pc[p] \in {"decrementing", "held"} /\ nameLock[p] = c

\* A goroutine outside Lock and Unlock has no pointer to a lockCtr.
IdleHasNone == \A p \in Proc :
  /\ pc[p] = "idle" <=> nameLock[p] = None
  /\ pc[p] # "idle" => name[p] \in Name

\* The inductive invariant: mutual exclusion follows from the fact that all
\* users of a name share the mapped lockCtr, which holds only because the
\* waiters are counted exactly.
IInv ==
  /\ TypeOK
  /\ IdleHasNone
  /\ PointerIsCurrent
  /\ OneNamePerCtr
  /\ OwnerIsHolder
  /\ WaitersCounted
  /\ NoEntryLeaks

\* The initial state satisfies the inductive invariant.
LEMMA InitIInv == Init => IInv
<1> SUFFICES ASSUME Init PROVE IInv
  OBVIOUS
<1> USE LockerAssumption DEF Init
<1>1. TypeOK
  BY DEF TypeOK, PC
<1>2. IdleHasNone /\ PointerIsCurrent /\ OneNamePerCtr /\ OwnerIsHolder /\ NoEntryLeaks
  BY DEF IdleHasNone, PointerIsCurrent, OneNamePerCtr, OwnerIsHolder, NoEntryLeaks
<1>3. WaitersCounted
  <2> SUFFICES ASSUME NEW c \in Ctr PROVE waiters[c] = Cardinality(WaitersOf(c))
    BY DEF WaitersCounted, WaitersOf
  <2>1. WaitersOf(c) = {}
    BY DEF WaitersOf
  <2> QED
    BY <2>1, FS_EmptySet
<1> QED
  BY <1>1, <1>2, <1>3 DEF IInv

\* The set of counted waiters is finite, so its cardinality can be reasoned
\* about element by element.
LEMMA WaitersFinite == \A c \in Ctr : IsFiniteSet(WaitersOf(c)) /\ IsFiniteSet(WaitersOf(c)')
<1> SUFFICES ASSUME NEW c \in Ctr
             PROVE IsFiniteSet(WaitersOf(c)) /\ IsFiniteSet(WaitersOf(c)')
  OBVIOUS
<1>1. WaitersOf(c) \subseteq Proc /\ WaitersOf(c)' \subseteq Proc
  BY DEF WaitersOf
<1> QED
  BY <1>1, FS_Subset, LockerAssumption

\* Lock, the part under Locker.mu, preserves the invariant.
LEMMA LockCallIInv ==
  ASSUME NEW p \in Proc, NEW n \in Name, IInv, LockCall(p, n)
  PROVE  IInv'
<1> USE LockerAssumption
<1>0. pc[p] = "idle" /\ nameLock[p] = None
  BY DEF LockCall, IInv, IdleHasNone
<1>1. /\ name' = [name EXCEPT ![p] = n]
      /\ pc' = [pc EXCEPT ![p] = "locking"]
      /\ res' = res
  BY DEF LockCall
<1>2. TypeOK
  BY DEF IInv
<1>a. CASE /\ locks[n] # None
           /\ nameLock' = [nameLock EXCEPT ![p] = locks[n]]
           /\ waiters' = [waiters EXCEPT ![locks[n]] = @ + 1]
           /\ UNCHANGED <<locks, owner>>
  <2> DEFINE d == locks[n]
  <2>0. d \in Ctr
    BY <1>a, <1>2 DEF TypeOK
  <2>1. TypeOK'
    BY <1>a, <1>1, <1>2, <2>0 DEF TypeOK, PC
  <2>2. IdleHasNone' /\ PointerIsCurrent' /\ OneNamePerCtr' /\ NoEntryLeaks'
    BY <1>a, <1>0, <1>1, <1>2, <2>0 DEF IInv, TypeOK, PC, IdleHasNone, PointerIsCurrent,
       OneNamePerCtr, NoEntryLeaks
  <2>3. OwnerIsHolder'
    BY <1>a, <1>0, <1>1, <1>2, <2>0 DEF IInv, TypeOK, PC, OwnerIsHolder
  <2>4. WaitersCounted'
    <3> SUFFICES ASSUME NEW c \in Ctr PROVE waiters'[c] = Cardinality(WaitersOf(c)')
      BY DEF WaitersCounted, WaitersOf
    <3>0. waiters[c] = Cardinality(WaitersOf(c)) /\ IsFiniteSet(WaitersOf(c))
      BY WaitersFinite DEF IInv, WaitersCounted, WaitersOf
    <3>1. CASE c = d
      <4>1. WaitersOf(c)' = WaitersOf(c) \cup {p} /\ p \notin WaitersOf(c)
        BY <1>a, <1>0, <1>1, <1>2, <2>0, <3>1 DEF TypeOK, WaitersOf
      <4>2. waiters'[c] = waiters[c] + 1
        BY <1>a, <1>2, <2>0, <3>1 DEF TypeOK
      <4> QED
        BY <3>0, <4>1, <4>2, FS_AddElement
    <3>2. CASE c # d
      <4>1. WaitersOf(c)' = WaitersOf(c)
        BY <1>a, <1>0, <1>1, <1>2, <2>0, <3>2 DEF TypeOK, WaitersOf
      <4>2. waiters'[c] = waiters[c]
        BY <1>a, <1>2, <2>0, <3>2 DEF TypeOK
      <4> QED
        BY <3>0, <4>1, <4>2
    <3> QED
      BY <3>1, <3>2
  <2> QED
    BY <2>1, <2>2, <2>3, <2>4 DEF IInv
<1>b. ASSUME NEW d \in Ctr,
             locks[n] = None,
             Fresh(d),
             locks' = [locks EXCEPT ![n] = d],
             nameLock' = [nameLock EXCEPT ![p] = d],
             waiters' = [waiters EXCEPT ![d] = 1],
             owner' = [owner EXCEPT ![d] = None]
      PROVE  IInv'
  <2>1. TypeOK'
    BY <1>b, <1>1, <1>2 DEF TypeOK, PC
  <2>2. IdleHasNone' /\ PointerIsCurrent'
    BY <1>b, <1>0, <1>1, <1>2 DEF IInv, TypeOK, PC, IdleHasNone, PointerIsCurrent
  <2>3. OneNamePerCtr'
    BY <1>b, <1>2 DEF IInv, TypeOK, OneNamePerCtr, Fresh
  <2>4. NoEntryLeaks'
    BY <1>b, <1>0, <1>1, <1>2 DEF IInv, TypeOK, PC, NoEntryLeaks
  <2>5. OwnerIsHolder'
    <3> SUFFICES ASSUME NEW q \in Proc, NEW c \in Ctr
                 PROVE owner'[c] = q <=> pc'[q] \in {"decrementing", "held"} /\ nameLock'[q] = c
      BY DEF OwnerIsHolder
    <3>0. owner[c] = q <=> pc[q] \in {"decrementing", "held"} /\ nameLock[q] = c
      BY DEF IInv, OwnerIsHolder
    <3>1. CASE c = d
      BY <1>b, <1>0, <1>1, <1>2, <3>1 DEF Fresh, TypeOK
    <3>2. CASE c # d
      BY <1>b, <1>0, <1>1, <1>2, <3>0, <3>2 DEF TypeOK
    <3> QED
      BY <3>1, <3>2
  <2>6. WaitersCounted'
    <3> SUFFICES ASSUME NEW c \in Ctr PROVE waiters'[c] = Cardinality(WaitersOf(c)')
      BY DEF WaitersCounted, WaitersOf
    <3>1. CASE c = d
      <4>1. ASSUME NEW q \in Proc
            PROVE pc'[q] \in {"locking", "decrementing"} /\ nameLock'[q] = c <=> q = p
        BY <1>b, <1>1, <1>2, <3>1 DEF TypeOK, Fresh
      <4>2. WaitersOf(c)' = {p}
        BY <4>1 DEF WaitersOf
      <4>3. waiters'[c] = 1
        BY <1>b, <1>2, <3>1 DEF TypeOK
      <4> QED
        BY <4>2, <4>3, FS_Singleton
    <3>2. CASE c # d
      <4>1. WaitersOf(c)' = WaitersOf(c)
        BY <1>b, <1>0, <1>1, <1>2, <3>2 DEF TypeOK, WaitersOf
      <4>2. waiters'[c] = waiters[c]
        BY <1>b, <1>2, <3>2 DEF TypeOK
      <4> QED
        BY <4>1, <4>2 DEF IInv, WaitersCounted, WaitersOf
    <3> QED
      BY <3>1, <3>2
  <2> QED
    BY <2>1, <2>2, <2>3, <2>4, <2>5, <2>6 DEF IInv
<1> QED
  BY <1>a, <1>b DEF LockCall

\* nameLock.Lock() preserves the invariant.
LEMMA AcquireIInv ==
  ASSUME NEW p \in Proc, IInv, Acquire(p)
  PROVE  IInv'
<1> USE LockerAssumption
<1>0. nameLock[p] \in Ctr
  BY DEF IInv, TypeOK, Acquire, PointerIsCurrent
<1>1. TypeOK'
  BY <1>0 DEF IInv, TypeOK, PC, Acquire
<1>2. IdleHasNone' /\ PointerIsCurrent' /\ OneNamePerCtr' /\ NoEntryLeaks'
  BY DEF IInv, TypeOK, PC, Acquire, IdleHasNone, PointerIsCurrent, OneNamePerCtr, NoEntryLeaks
<1>3. OwnerIsHolder'
  BY <1>0 DEF IInv, TypeOK, PC, Acquire, OwnerIsHolder
<1>4. WaitersCounted'
  <2>1. \A c \in Ctr : WaitersOf(c)' = WaitersOf(c)
    BY DEF IInv, TypeOK, Acquire, WaitersOf
  <2> QED
    BY <2>1 DEF IInv, Acquire, WaitersCounted, WaitersOf
<1> QED
  BY <1>1, <1>2, <1>3, <1>4 DEF IInv

\* nameLock.dec() preserves the invariant.
LEMMA DecIInv ==
  ASSUME NEW p \in Proc, IInv, Dec(p)
  PROVE  IInv'
<1> USE LockerAssumption
<1> DEFINE d == nameLock[p]
<1>0. d \in Ctr /\ pc[p] = "decrementing"
  BY DEF IInv, TypeOK, Dec, PointerIsCurrent
<1>1. /\ p \in WaitersOf(d)
      /\ waiters[d] = Cardinality(WaitersOf(d))
      /\ IsFiniteSet(WaitersOf(d))
  BY <1>0, WaitersFinite DEF IInv, WaitersCounted, WaitersOf
<1>2. waiters[d] \in Nat /\ waiters[d] # 0
  BY <1>0, <1>1, FS_EmptySet DEF IInv, TypeOK
<1>3. TypeOK'
  BY <1>0, <1>2 DEF IInv, TypeOK, PC, Dec
<1>4. IdleHasNone' /\ PointerIsCurrent' /\ OneNamePerCtr' /\ NoEntryLeaks'
  BY DEF IInv, TypeOK, PC, Dec, IdleHasNone, PointerIsCurrent, OneNamePerCtr, NoEntryLeaks
<1>5. OwnerIsHolder'
  BY <1>0 DEF IInv, TypeOK, PC, Dec, OwnerIsHolder
<1>6. WaitersCounted'
  <2> SUFFICES ASSUME NEW c \in Ctr PROVE waiters'[c] = Cardinality(WaitersOf(c)')
    BY DEF WaitersCounted, WaitersOf
  <2>1. CASE c = d
    <3>1. WaitersOf(c)' = WaitersOf(c) \ {p}
      BY <1>0, <2>1 DEF IInv, TypeOK, Dec, WaitersOf
    <3>2. waiters'[c] = waiters[c] - 1
      BY <1>0, <2>1 DEF IInv, TypeOK, Dec
    <3> QED
      BY <1>1, <2>1, <3>1, <3>2, FS_RemoveElement
  <2>2. CASE c # d
    <3>1. WaitersOf(c)' = WaitersOf(c)
      BY <1>0, <2>2 DEF IInv, TypeOK, Dec, WaitersOf
    <3>2. waiters'[c] = waiters[c]
      BY <1>0, <2>2 DEF IInv, TypeOK, Dec
    <3> QED
      BY <3>1, <3>2 DEF IInv, WaitersCounted, WaitersOf
  <2> QED
    BY <2>1, <2>2
<1> QED
  BY <1>3, <1>4, <1>5, <1>6 DEF IInv

\* Nobody is counted in a lockCtr whose count() is 0.
LEMMA ZeroMeansNobody ==
  ASSUME IInv, NEW c \in Ctr
  PROVE  waiters[c] = 0 <=> WaitersOf(c) = {}
<1>1. waiters[c] = Cardinality(WaitersOf(c)) /\ IsFiniteSet(WaitersOf(c))
  BY WaitersFinite DEF IInv, WaitersCounted, WaitersOf
<1> QED
  BY <1>1, FS_EmptySet

\* Unlock preserves the invariant.  If it deletes the entry, nobody waits on
\* the lockCtr, and if it keeps it, a waiter keeps the entry in use.
LEMMA UnlockIInv ==
  ASSUME NEW p \in Proc, NEW n \in Name, IInv, Unlock(p, n)
  PROVE  IInv'
<1> USE LockerAssumption
<1>a. CASE locks[n] = None
  <2>1. pc[p] = "idle" /\ nameLock[p] = None
    BY <1>a DEF IInv, Unlock, MayUnlock, PointerIsCurrent, IdleHasNone
  <2>2. UNCHANGED <<locks, waiters, owner, pc, nameLock>>
    BY <1>a, <2>1 DEF IInv, TypeOK, Unlock
  <2>3. name' = [name EXCEPT ![p] = None] /\ res' = [res EXCEPT ![p] = "ErrNoSuchLock"]
    BY <1>a DEF Unlock
  <2>4. TypeOK' /\ IdleHasNone' /\ PointerIsCurrent' /\ OneNamePerCtr' /\ NoEntryLeaks'
    BY <2>1, <2>2, <2>3 DEF IInv, TypeOK, PC, IdleHasNone, PointerIsCurrent, OneNamePerCtr,
       NoEntryLeaks
  <2>5. OwnerIsHolder' /\ WaitersCounted'
    BY <2>2 DEF IInv, OwnerIsHolder, WaitersCounted
  <2> QED
    BY <2>4, <2>5 DEF IInv
<1>b. CASE locks[n] # None
  <2> DEFINE d == locks[n]
  <2>0. pc[p] = "held" /\ name[p] = n /\ nameLock[p] = d /\ d \in Ctr
    BY <1>b DEF IInv, TypeOK, Unlock, MayUnlock, PointerIsCurrent
  <2>1. /\ locks' = IF waiters[d] = 0 THEN [locks EXCEPT ![n] = None] ELSE locks
        /\ owner' = [owner EXCEPT ![d] = None]
        /\ pc' = [pc EXCEPT ![p] = "idle"]
        /\ name' = [name EXCEPT ![p] = None]
        /\ nameLock' = [nameLock EXCEPT ![p] = None]
        /\ res' = [res EXCEPT ![p] = "nil"]
        /\ UNCHANGED waiters
    BY <1>b DEF Unlock
  <2>2. TypeOK'
    BY <2>0, <2>1 DEF IInv, TypeOK, PC
  <2>3. IdleHasNone' /\ OneNamePerCtr'
    BY <2>0, <2>1 DEF IInv, TypeOK, PC, IdleHasNone, OneNamePerCtr
  <2>4. OwnerIsHolder'
    BY <2>0, <2>1 DEF IInv, TypeOK, PC, OwnerIsHolder
  <2>5. PointerIsCurrent'
    <3> SUFFICES ASSUME NEW q \in Proc, pc'[q] # "idle"
                 PROVE nameLock'[q] # None /\ nameLock'[q] = locks'[name'[q]]
      BY DEF PointerIsCurrent
    <3>1. /\ q # p /\ pc[q] # "idle" /\ name'[q] = name[q] /\ nameLock'[q] = nameLock[q]
          /\ nameLock[q] # None /\ nameLock[q] = locks[name[q]]
      BY <2>0, <2>1 DEF IInv, TypeOK, PointerIsCurrent
    <3>2. CASE waiters[d] = 0 /\ name[q] = n
      <4>1. pc[q] = "held" /\ nameLock[q] = d
        BY <2>0, <3>1, <3>2, ZeroMeansNobody DEF IInv, TypeOK, PC, WaitersOf
      <4>2. owner[d] = q /\ owner[d] = p
        BY <2>0, <4>1 DEF IInv, OwnerIsHolder
      <4> QED
        BY <3>1, <4>2
    <3>3. CASE ~ (waiters[d] = 0 /\ name[q] = n)
      <4>1. locks'[name[q]] = locks[name[q]]
        BY <2>1, <3>3, <3>1 DEF IInv, TypeOK, IdleHasNone
      <4> QED
        BY <3>1, <4>1
    <3> QED
      BY <3>2, <3>3
  <2>6. NoEntryLeaks'
    <3> SUFFICES ASSUME NEW m \in Name, locks'[m] # None
                 PROVE \E q \in Proc : pc'[q] # "idle" /\ name'[q] = m
      BY DEF NoEntryLeaks
    <3>1. CASE m = n
      <4>1. waiters[d] # 0
        BY <2>1, <3>1 DEF IInv, TypeOK
      <4>2. PICK q \in Proc : pc[q] \in {"locking", "decrementing"} /\ nameLock[q] = d
        BY <2>0, <4>1, ZeroMeansNobody DEF WaitersOf
      <4>3. name[q] = n /\ q # p
        BY <2>0, <4>2 DEF IInv, PointerIsCurrent, OneNamePerCtr, IdleHasNone
      <4> QED
        BY <2>1, <3>1, <4>2, <4>3 DEF IInv, TypeOK
    <3>2. CASE m # n
      <4>1. locks[m] # None
        BY <2>1, <3>2 DEF IInv, TypeOK
      <4>2. PICK q \in Proc : pc[q] # "idle" /\ name[q] = m
        BY <4>1 DEF IInv, NoEntryLeaks
      <4> QED
        BY <2>0, <2>1, <3>2, <4>2 DEF IInv, TypeOK
    <3> QED
      BY <3>1, <3>2
  <2>7. WaitersCounted'
    <3>1. \A c \in Ctr : WaitersOf(c)' = WaitersOf(c)
      BY <2>0, <2>1 DEF IInv, TypeOK, WaitersOf
    <3> QED
      BY <2>1, <3>1 DEF IInv, WaitersCounted, WaitersOf
  <2> QED
    BY <2>2, <2>3, <2>4, <2>5, <2>6, <2>7 DEF IInv
<1> QED
  BY <1>a, <1>b

\* Every step of the locker preserves the inductive invariant.
LEMMA NextIInv == IInv /\ [Next]_vars => IInv'
<1> SUFFICES ASSUME IInv, [Next]_vars PROVE IInv'
  OBVIOUS
<1>1. ASSUME NEW p \in Proc, NEW n \in Name, LockCall(p, n) PROVE IInv'
  BY <1>1, LockCallIInv
<1>2. ASSUME NEW p \in Proc, NEW n \in Name, Unlock(p, n) PROVE IInv'
  BY <1>2, UnlockIInv
<1>3. ASSUME NEW p \in Proc, Acquire(p) PROVE IInv'
  BY <1>3, AcquireIInv
<1>4. ASSUME NEW p \in Proc, Dec(p) PROVE IInv'
  BY <1>4, DecIInv
<1>5. CASE UNCHANGED vars
  BY <1>5 DEF vars, IInv, TypeOK, IdleHasNone, PointerIsCurrent, OneNamePerCtr,
     OwnerIsHolder, WaitersCounted, NoEntryLeaks
<1> QED
  BY <1>1, <1>2, <1>3, <1>4, <1>5 DEF Next

\* The locker's variables keep their types, every goroutine's pointer is the
\* mapped one, the waiters are counted and no entry leaks.
THEOREM LockerInvariant == Spec => []IInv
<1> QED
  BY InitIInv, NextIInv, PTL DEF Spec

\* Type correctness of the locker.
THEOREM LockerTypeOK == Spec => []TypeOK
<1>1. IInv => TypeOK
  BY DEF IInv
<1> QED
  BY LockerInvariant, <1>1, PTL

\* Two holders of a name would both own the one mapped lockCtr.
LEMMA IInvMutex == IInv => MutualExclusion
<1> SUFFICES ASSUME IInv, NEW p \in Proc, NEW q \in Proc, NEW n \in Name,
                    Holds(p, n), Holds(q, n)
             PROVE  p = q
  BY DEF MutualExclusion
<1>1. nameLock[p] = locks[n] /\ nameLock[q] = locks[n] /\ locks[n] \in Ctr
  BY DEF IInv, TypeOK, Holds, PointerIsCurrent
<1>2. owner[locks[n]] = p /\ owner[locks[n]] = q
  BY <1>1 DEF IInv, OwnerIsHolder, Holds
<1> QED
  BY <1>2

\* At most one goroutine is between Lock(n) and Unlock(n) for each name n.
THEOREM LockerMutualExclusion == Spec => []MutualExclusion
<1> QED
  BY LockerInvariant, IInvMutex, PTL

\* The map holds only names somebody is using.
THEOREM LockerNoEntryLeaks == Spec => []NoEntryLeaks
<1>1. IInv => NoEntryLeaks
  BY DEF IInv
<1> QED
  BY LockerInvariant, <1>1, PTL

\* Everything the callers of Lock and Unlock rely on: one holder per name, a
\* current pointer, exact waiter counts, no entry without a user.
THEOREM LockerSafe == Spec => []LocksSafe
<1>1. IInv => LocksSafe
  BY IInvMutex DEF IInv, LocksSafe
<1> QED
  BY LockerInvariant, <1>1, PTL

\* The Unlock of a goroutine that holds a name succeeds.
THEOREM LockerHolderUnlocks == Spec => HolderUnlockSucceeds
<1>1. IInv /\ [Next]_vars =>
        [\A p \in Proc : pc[p] = "held" /\ pc'[p] = "idle" => res'[p] = "nil"]_vars
  <2> SUFFICES ASSUME IInv, Next, NEW p \in Proc, pc[p] = "held", pc'[p] = "idle"
               PROVE  res'[p] = "nil"
    OBVIOUS
  <2>1. ASSUME NEW q \in Proc, NEW n \in Name, LockCall(q, n) PROVE FALSE
    BY <2>1 DEF IInv, TypeOK, LockCall
  <2>2. ASSUME NEW q \in Proc, NEW n \in Name, Unlock(q, n) PROVE res'[p] = "nil"
    <3>1. q = p
      BY <2>2 DEF IInv, TypeOK, Unlock
    <3>2. n = name[p] /\ locks[n] # None
      BY <2>2, <3>1 DEF IInv, Unlock, MayUnlock, PointerIsCurrent
    <3> QED
      BY <2>2, <3>1, <3>2 DEF IInv, TypeOK, Unlock
  <2>3. ASSUME NEW q \in Proc, Acquire(q) PROVE FALSE
    BY <2>3 DEF IInv, TypeOK, Acquire
  <2>4. ASSUME NEW q \in Proc, Dec(q) PROVE FALSE
    BY <2>4 DEF IInv, TypeOK, Dec
  <2> QED
    BY <2>1, <2>2, <2>3, <2>4 DEF Next
<1> QED
  BY LockerInvariant, <1>1, PTL DEF Spec, HolderUnlockSucceeds

\* The locker implements NamedMutex: the initial state maps to the abstract
\* one, Acquire is the abstract Acquire, the holder's Unlock the abstract
\* Release, and every other step changes no holder.
THEOREM LockerImplementsMutex == Spec => AbstractSpec
<1> DEFINE h == [n \in Name |-> {p \in Proc : Holds(p, n)}]
<1>1. Init => Abstract!Init
  BY DEF Init, Abstract!Init, Holds
<1>2. IInv /\ [Next]_vars => [Abstract!Next]_h
  <2> SUFFICES ASSUME IInv, [Next]_vars PROVE [Abstract!Next]_h
    OBVIOUS
  <2>1. ASSUME NEW p \in Proc, NEW n \in Name, LockCall(p, n) PROVE UNCHANGED h
    BY <2>1 DEF IInv, TypeOK, LockCall, Holds
  <2>2. ASSUME NEW p \in Proc, NEW n \in Name, Unlock(p, n) PROVE [Abstract!Next]_h
    <3>1. CASE pc[p] = "held" /\ name[p] = n
      <4>1. p \in h[n]
        BY <3>1 DEF Holds
      <4>2. \A m \in Name, q \in Proc : Holds(q, m)' <=> Holds(q, m) /\ ~ (m = n /\ q = p)
        BY <2>2, <3>1 DEF IInv, TypeOK, PC, Unlock, Holds
      <4>3. \A m \in Name : h'[m] = IF m = n THEN h[n] \ {p} ELSE h[m]
        BY <4>2
      <4>4. h' = [h EXCEPT ![n] = @ \ {p}]
        BY <4>3
      <4> QED
        BY <4>1, <4>4 DEF Abstract!Next, Abstract!Release
    <3>2. CASE pc[p] = "idle"
      BY <2>2, <3>2 DEF IInv, TypeOK, Unlock, MayUnlock, Holds
    <3> QED
      BY <2>2, <3>1, <3>2 DEF Unlock, MayUnlock
  <2>3. ASSUME NEW p \in Proc, Acquire(p) PROVE Abstract!Next
    <3> DEFINE n == name[p]
    <3>0. n \in Name /\ nameLock[p] = locks[n] /\ locks[n] \in Ctr /\ owner[locks[n]] = None
      BY <2>3 DEF IInv, TypeOK, Acquire, IdleHasNone, PointerIsCurrent
    <3>1. h[n] = {}
      <4> SUFFICES ASSUME NEW q \in Proc, Holds(q, n) PROVE FALSE
        BY <3>0
      <4>1. nameLock[q] = locks[n] /\ owner[locks[n]] = q
        BY <3>0 DEF IInv, PointerIsCurrent, OwnerIsHolder, Holds
      <4> QED
        BY <3>0, <4>1, LockerAssumption
    <3>2. h' = [h EXCEPT ![n] = {p}]
      <4>1. \A m \in Name, q \in Proc : Holds(q, m)' <=> Holds(q, m) \/ (m = n /\ q = p)
        BY <2>3, <3>0 DEF IInv, TypeOK, PC, Acquire, Holds
      <4>2. \A m \in Name : h'[m] = IF m = n THEN {p} ELSE h[m]
        <5> SUFFICES ASSUME NEW m \in Name
                     PROVE  h'[m] = IF m = n THEN {p} ELSE h[m]
          OBVIOUS
        <5>1. \A q \in Proc : q \in h'[m] <=> q \in h[m] \/ (m = n /\ q = p)
          BY <4>1
        <5>2. h'[m] \subseteq Proc /\ h[m] \subseteq Proc
          OBVIOUS
        <5>3. CASE m = n
          BY <3>1, <5>1, <5>2, <5>3
        <5>4. CASE m # n
          BY <5>1, <5>2, <5>4
        <5> QED
          BY <5>3, <5>4
      <4> QED
        BY <4>2
    <3> QED
      BY <3>0, <3>1, <3>2 DEF Abstract!Next, Abstract!Acquire
  <2>4. ASSUME NEW p \in Proc, Dec(p) PROVE UNCHANGED h
    BY <2>4 DEF IInv, TypeOK, Dec, Holds
  <2>5. CASE UNCHANGED vars
    BY <2>5 DEF vars, Holds
  <2> QED
    BY <2>1, <2>2, <2>3, <2>4, <2>5 DEF Next
<1> QED
  BY <1>1, <1>2, LockerInvariant, PTL DEF Spec, AbstractSpec, Abstract!Spec

-----------------------------------------------------------------------------
(* daemon/events and pkg/pubsub: the event stream                          *)

Everything == [since |-> 1, until |-> Evts!Unset]

\* What a request has, or was skipped for.
Got(s) == buffered[s] \cup Evts!Range(chan[s]) \cup received[s] \cup skipped[s]

EvtLogTypes ==
  /\ clock \in Nat
  /\ author \in [1..clock -> Logger]
  /\ events \in Seq(1..clock)
  /\ lpc \in [Logger -> {"idle", "stamped", "stored", "publishing"}]
  /\ msg \in [Logger -> Nat]
  /\ sending \in [Logger -> SUBSET Sub]
EvtSubTypes ==
  /\ subs \subseteq Sub /\ closed \subseteq Sub
  /\ chan \in [Sub -> Seq(Nat)]
  /\ spc \in [Sub -> {"new", "copied", "open", "closing", "gone"}]
  /\ win \in [Sub -> [since : Nat, until : Nat]]
  /\ covered \in [Sub -> SUBSET (1..clock)]
  /\ skipped \in [Sub -> SUBSET Nat]
  /\ DOMAIN buffered = Sub
  /\ received \in [Sub -> SUBSET Nat]

\* Publish is where a logger has senders, and its event has its stamp; who is
\* subscribed has an open channel, and who is gone a closed one; a request holds
\* e.mu from its copy of the ring to its subscription.
EvtPlaces ==
  /\ \A l \in Logger : sending[l] # {} => lpc[l] = "publishing"
  /\ \A l \in Logger : lpc[l] # "idle" => msg[l] \in 1..clock
  /\ \A s \in Sub : s \in subs <=> spc[s] \in {"open", "closing"}
  /\ \A s \in Sub : s \in closed <=> spc[s] = "gone"
  /\ \A s \in Sub : spc[s] = "copied" => emu = s

\* The event of a logger that has stored it is still to be sent to s.
ToCome(s, t) == \E l \in Logger : msg[l] = t /\ (lpc[l] = "stored" \/ s \in sending[l])

EvtServed(s) ==
  win[s] = Everything =>
    /\ spc[s] = "copied" => \A t \in covered[s] : Evts!Included(s, t) => t \in buffered[s]
    /\ spc[s] = "open" => \A t \in covered[s] : Evts!Included(s, t) => t \in Got(s) \/ ToCome(s, t)

EvtTypes == EvtLogTypes /\ EvtSubTypes
EvtInv == EvtTypes /\ EvtPlaces /\ Evts!NoSendAfterClose /\ \A s \in Sub : EvtServed(s)

-----------------------------------------------------------------------------
(* The channels and the ring *)

\* What a channel holds after a send.
LEMMA RangeAppend ==
  ASSUME NEW T, NEW q \in Seq(T), NEW x \in T
  PROVE  Evts!Range(Append(q, x)) = Evts!Range(q) \cup {x}
<1>1. Len(Append(q, x)) = Len(q) + 1 /\ Append(q, x)[Len(q) + 1] = x /\ \A i \in 1..Len(q) : Append(q, x)[i] = q[i]
  OBVIOUS
<1>2. DOMAIN q = 1..Len(q) /\ DOMAIN Append(q, x) = 1..Len(q) + 1 /\ Len(q) \in Nat
  OBVIOUS
<1>3. Evts!Range(Append(q, x)) \subseteq Evts!Range(q) \cup {x}
  <2> SUFFICES ASSUME NEW i \in 1..Len(q) + 1 PROVE Append(q, x)[i] \in Evts!Range(q) \cup {x}
    BY Zenon, <1>2 DEF Evts!Range
  <2>1. i \in 1..Len(q) \/ i = Len(q) + 1
    BY <1>2
  <2>2. QED
    BY Zenon, <2>1, <1>1, <1>2 DEF Evts!Range
<1>4. Evts!Range(q) \subseteq Evts!Range(Append(q, x))
  <2> SUFFICES ASSUME NEW i \in 1..Len(q) PROVE q[i] \in Evts!Range(Append(q, x))
    BY Zenon, <1>2 DEF Evts!Range
  <2>1. i \in 1..Len(q) + 1
    BY <1>2
  <2>2. QED
    BY Zenon, <2>1, <1>1, <1>2 DEF Evts!Range
<1>5. x \in Evts!Range(Append(q, x))
  <2>1. Len(q) + 1 \in 1..Len(q) + 1
    BY <1>2
  <2>2. QED
    BY Zenon, <2>1, <1>1, <1>2 DEF Evts!Range
<1>6. QED
  BY <1>3, <1>4, <1>5

\* What a channel holds before a receive.
LEMMA RangeHead ==
  ASSUME NEW T, NEW q \in Seq(T), q # <<>>
  PROVE  Evts!Range(q) \subseteq Evts!Range(Tail(q)) \cup {Head(q)} /\ Tail(q) \in Seq(T) /\ Head(q) \in T
<1>1. Tail(q) \in Seq(T) /\ Len(Tail(q)) = Len(q) - 1 /\ Head(q) = q[1] /\ Len(q) \in Nat \ {0} /\ Head(q) \in T
  OBVIOUS
<1>2. \A i \in 1..Len(q) - 1 : Tail(q)[i] = q[i + 1]
  OBVIOUS
<1>3. DOMAIN q = 1..Len(q) /\ DOMAIN Tail(q) = 1..Len(q) - 1
  BY <1>1
<1>4. ASSUME NEW i \in 1..Len(q) PROVE q[i] \in Evts!Range(Tail(q)) \cup {Head(q)}
  <2>1. CASE i = 1
    BY Zenon, <2>1, <1>1
  <2>2. CASE i # 1
    <3>1. i - 1 \in 1..Len(q) - 1 /\ (i - 1) + 1 = i
      BY <2>2, <1>1
    <3>2. QED
      BY Zenon, <3>1, <1>2, <1>3 DEF Evts!Range
  <2>3. QED
    BY Zenon, <2>1, <2>2
<1>5. QED
  BY Zenon, <1>1, <1>3, <1>4 DEF Evts!Range

\* The ring stays a sequence of stamps.
LEMMA PutType ==
  ASSUME NEW T, NEW q \in Seq(T), NEW x \in T, EventsLimit \in Nat \ {0}
  PROVE  Evts!Put(q, x) \in Seq(T)
<1>1. CASE Len(q) = EventsLimit
  <2>1. q # <<>>
    BY Zenon, <1>1
  <2>2. Tail(q) \in Seq(T)
    BY <2>1
  <2>3. QED
    BY <2>2, <1>1 DEF Evts!Put
<1>2. CASE Len(q) # EventsLimit
  BY <1>2 DEF Evts!Put
<1>3. QED
  BY Zenon, <1>1, <1>2

\* A request that asks for everything gets the whole ring.
LEMMA LoadEverything ==
  ASSUME EvtLogTypes, NEW s \in Sub, NEW t \in Evts!Range(events), Evts!Included(s, t)
  PROVE  t \in Evts!loadBufferedEvents(s, Everything)
<1> DEFINE old == {i \in DOMAIN events : events[i] < Everything.since}
           from == IF old = {} THEN 1 ELSE 1 + CHOOSE i \in old : \A j \in old : j <= i
           recent == {events[i] : i \in from..Len(events)}
<1>1. DOMAIN events = 1..Len(events) /\ \A i \in 1..Len(events) : events[i] \in 1..clock
  BY DEF EvtLogTypes
<1>2. Everything.since = 1 /\ Everything.until = Evts!Unset /\ 1 # Evts!Unset
  BY DEF Everything, Evts!Unset
<1>3. old = {}
  BY <1>1, <1>2 DEF EvtLogTypes
<1>4. recent = Evts!Range(events)
  BY Zenon, <1>1, <1>3 DEF Evts!Range
<1>5. Evts!loadBufferedEvents(s, Everything) = {u \in recent : (Everything.until = Evts!Unset \/ u <= Everything.until) /\ Evts!Included(s, u)}
  BY Zenon, <1>2 DEF Evts!loadBufferedEvents
<1>6. QED
  BY Zenon, <1>2, <1>4, <1>5

-----------------------------------------------------------------------------
(* The steps *)

\* The requests a step leaves alone, and what they are owed.
LEMMA ServedFrame ==
  ASSUME NEW s \in Sub, EvtServed(s), EvtSubTypes, win'[s] = win[s], spc'[s] = spc[s], covered'[s] = covered[s],
         buffered'[s] = buffered[s], Got(s) \subseteq Got(s)', \A t \in 1..clock : author'[t] = author[t],
         \A t \in covered[s] : ToCome(s, t) => t \in Got(s)' \/ ToCome(s, t)'
  PROVE  EvtServed(s)'
<1>1. \A t \in covered[s] : Evts!Included(s, t)' <=> Evts!Included(s, t)
  BY Zenon DEF EvtSubTypes, Evts!Included
<1>2. QED
  BY Zenon, <1>1 DEF EvtServed

\* A new stamp belongs to nobody else.
LEMMA LogStampKeeps ==
  ASSUME Evts!EvtParameters, EvtInv, NEW l \in Logger, Evts!LogStamp(l) PROVE EvtInv'
<1>t. EvtLogTypes /\ EvtSubTypes /\ EvtPlaces /\ Evts!NoSendAfterClose
  BY Zenon DEF EvtInv, EvtTypes
<1>v. \A r \in Sub : EvtServed(r)
  BY Zenon DEF EvtInv
<1>1. EvtLogTypes'
  <2>1. author \in Seq(Logger) /\ Len(author) = clock
    BY <1>t DEF EvtLogTypes
  <2>2. author' \in [1..clock' -> Logger]
    <3>1. Append(author, l) \in Seq(Logger) /\ Len(Append(author, l)) = clock + 1
      BY <2>1
    <3>2. ASSUME NEW q \in Seq(Logger), Len(q) = clock + 1 PROVE q \in [1..clock + 1 -> Logger]
      BY <3>2
    <3>3. Append(author, l) \in [1..clock + 1 -> Logger]
      BY Zenon, <3>1, <3>2
    <3>4. QED
      BY Zenon, <3>3 DEF Evts!LogStamp
  <2>3. events' \in Seq(1..clock')
    BY <1>t DEF EvtLogTypes, Evts!LogStamp
  <2>4. QED
    BY <2>2, <2>3, <1>t DEF EvtLogTypes, Evts!LogStamp
<1>2. EvtSubTypes'
  BY <1>t DEF EvtLogTypes, EvtSubTypes, Evts!LogStamp, Evts!request
<1>3. EvtPlaces'
  BY <1>t DEF EvtLogTypes, EvtSubTypes, EvtPlaces, Evts!LogStamp, Evts!request
<1>4. Evts!NoSendAfterClose'
  BY Zenon, <1>t DEF EvtLogTypes, EvtSubTypes, EvtPlaces, Evts!NoSendAfterClose, Evts!LogStamp, Evts!request
<1>5. ASSUME NEW r \in Sub PROVE EvtServed(r)'
  <2>1. author \in Seq(Logger) /\ Len(author) = clock
    BY <1>t DEF EvtLogTypes
  <2>2. \A t \in 1..clock : author'[t] = author[t]
    BY <2>1, <1>t DEF EvtLogTypes, Evts!LogStamp
  <2>3. \A t : ToCome(r, t) => ToCome(r, t)'
    BY Zenon, <1>t DEF ToCome, Evts!LogStamp, EvtLogTypes, EvtPlaces
  <2>4. QED
    BY Zenon, <2>2, <2>3, <1>t, <1>v, ServedFrame DEF Evts!LogStamp, Evts!request, Got
<1>6. QED
  BY Zenon, <1>1, <1>2, <1>3, <1>4, <1>5 DEF EvtInv, EvtTypes

\* Storing an event under e.mu: who has subscribed before will be sent it.
LEMMA LogStoreKeeps ==
  ASSUME Evts!EvtParameters, EvtInv, NEW l \in Logger, Evts!LogStore(l) PROVE EvtInv'
<1>t. EvtLogTypes /\ EvtSubTypes /\ EvtPlaces /\ Evts!NoSendAfterClose
  BY Zenon DEF EvtInv, EvtTypes
<1>v. \A r \in Sub : EvtServed(r)
  BY DEF EvtInv
<1>1. EvtLogTypes'
  <2>1. msg[l] \in 1..clock
    BY Zenon, <1>t DEF EvtPlaces, Evts!LogStore
  <2>2. events' \in Seq(1..clock)
    BY Zenon, <2>1, <1>t, PutType DEF EvtLogTypes, Evts!LogStore, Evts!EvtParameters
  <2>3. QED
    BY Zenon, <2>2, <1>t DEF EvtLogTypes, Evts!LogStore
<1>2. EvtSubTypes'
  <2>1. msg[l] \in 1..clock
    BY Zenon, <1>t DEF EvtPlaces, Evts!LogStore
  <2>2. QED
    BY <2>1, <1>t DEF EvtSubTypes, Evts!LogStore, Evts!request
<1>3. EvtPlaces'
  BY <1>t DEF EvtLogTypes, EvtSubTypes, EvtPlaces, Evts!LogStore, Evts!request
<1>4. Evts!NoSendAfterClose'
  BY Zenon, <1>t DEF EvtLogTypes, EvtSubTypes, EvtPlaces, Evts!NoSendAfterClose, Evts!LogStore, Evts!request
<1>5. ASSUME NEW r \in Sub PROVE EvtServed(r)'
  <2>1. \A t : ToCome(r, t) => ToCome(r, t)'
    BY Zenon, <1>t DEF ToCome, Evts!LogStore, EvtLogTypes, EvtPlaces
  <2>2. \A t : t = msg[l] => ToCome(r, t)'
    BY Zenon, <1>t DEF ToCome, Evts!LogStore, EvtLogTypes
  <2>3. spc[r] # "copied"
    BY Zenon, <1>t DEF EvtPlaces, Evts!LogStore, Evts!EvtParameters
  <2>4. \A t : Evts!Included(r, t)' <=> Evts!Included(r, t)
    BY Zenon DEF Evts!Included, Evts!LogStore
  <2>5. Got(r)' = Got(r) /\ spc'[r] = spc[r] /\ win'[r] = win[r]
    BY Zenon DEF Got, Evts!LogStore, Evts!request
  <2>6. covered'[r] \subseteq covered[r] \cup {msg[l]}
    BY Zenon, <1>t DEF Evts!LogStore
  <2>7. ASSUME win[r] = Everything, spc[r] = "open", NEW t \in covered'[r], Evts!Included(r, t) PROVE t \in Got(r)' \/ ToCome(r, t)'
    <3>1. CASE t = msg[l]
      BY Zenon, <3>1, <2>2
    <3>2. CASE t \in covered[r]
      <4>1. t \in Got(r) \/ ToCome(r, t)
        BY Zenon, <3>2, <2>7, <1>v DEF EvtServed
      <4>2. QED
        BY Zenon, <4>1, <2>1, <2>5
    <3>3. QED
      BY Zenon, <3>1, <3>2, <2>6
  <2>8. QED
    BY Zenon, <2>3, <2>4, <2>5, <2>7 DEF EvtServed
<1>6. QED
  BY Zenon, <1>1, <1>2, <1>3, <1>4, <1>5 DEF EvtInv, EvtTypes

\* Publish starts a sender for each subscriber.
LEMMA PublishKeeps ==
  ASSUME Evts!EvtParameters, EvtInv, NEW l \in Logger, Evts!Publish(l) PROVE EvtInv'
<1>t. EvtLogTypes /\ EvtSubTypes /\ EvtPlaces /\ Evts!NoSendAfterClose
  BY DEF EvtInv, EvtTypes
<1>v. \A r \in Sub : EvtServed(r)
  BY Zenon DEF EvtInv
<1>1. EvtLogTypes'
  <2>1. sending' \in [Logger -> SUBSET Sub]
    BY Zenon, <1>t DEF EvtLogTypes, EvtSubTypes, Evts!Publish
  <2>2. QED
    BY Zenon, <2>1, <1>t DEF EvtLogTypes, Evts!Publish
<1>2. EvtSubTypes'
  BY Zenon, <1>t DEF EvtLogTypes, EvtSubTypes, Evts!Publish, Evts!request
<1>3. EvtPlaces'
  BY Zenon, <1>t DEF EvtLogTypes, EvtSubTypes, EvtPlaces, Evts!Publish, Evts!request
<1>4. Evts!NoSendAfterClose'
  BY Zenon, <1>t DEF EvtLogTypes, EvtSubTypes, EvtPlaces, Evts!NoSendAfterClose, Evts!Publish
<1>5. ASSUME NEW r \in Sub PROVE EvtServed(r)'
  <2>1. CASE spc[r] = "open"
    <3>1. ASSUME NEW t \in covered[r], Evts!Included(r, t), ToCome(r, t) PROVE ToCome(r, t)'
      <4>1. PICK k \in Logger : msg[k] = t /\ (lpc[k] = "stored" \/ r \in sending[k])
        BY Zenon, <3>1 DEF ToCome
      <4>2. CASE k = l
        <5>1. r \in subs
          BY Zenon, <2>1, <1>t DEF EvtPlaces
        <5>2. r \in sending'[l]
          BY Zenon, <5>1, <4>1, <4>2, <3>1, <1>t DEF Evts!Publish, EvtLogTypes
        <5>3. QED
          BY Zenon, <5>2, <4>1, <4>2 DEF ToCome, Evts!Publish
      <4>3. CASE k # l
        <5>1. lpc'[k] = lpc[k] /\ sending'[k] = sending[k] /\ msg' = msg
          BY Zenon, <4>3, <1>t DEF Evts!Publish, EvtLogTypes
        <5>2. QED
          BY Zenon, <5>1, <4>1 DEF ToCome
      <4>4. QED
        BY Zenon, <4>2, <4>3
    <3>2. \A t : Evts!Included(r, t)' <=> Evts!Included(r, t)
      BY Zenon DEF Evts!Included, Evts!Publish
    <3>3. Got(r)' = Got(r) /\ spc'[r] = spc[r] /\ win'[r] = win[r] /\ covered'[r] = covered[r]
      BY Zenon DEF Got, Evts!Publish, Evts!request
    <3>4. QED
      BY Zenon, <3>1, <3>2, <3>3, <2>1, <1>v DEF EvtServed
  <2>2. CASE spc[r] # "open"
    <3>1. spc'[r] = spc[r] /\ win'[r] = win[r] /\ covered'[r] = covered[r] /\ buffered'[r] = buffered[r] /\ author' = author
      BY Zenon DEF Evts!Publish, Evts!request
    <3>2. QED
      BY Zenon, <3>1, <2>2, <1>v DEF EvtServed, Evts!Included
  <2>3. QED
    BY Zenon, <2>1, <2>2
<1>6. QED
  BY Zenon, <1>1, <1>2, <1>3, <1>4, <1>5 DEF EvtInv, EvtTypes

\* sendTopic delivers the event, or skips the subscriber after the timeout.
LEMMA SendTopicKeeps ==
  ASSUME Evts!EvtParameters, EvtInv, NEW l \in Logger, NEW s \in Sub, Evts!sendTopic(l, s) PROVE EvtInv'
<1>t. EvtLogTypes /\ EvtSubTypes /\ EvtPlaces /\ Evts!NoSendAfterClose
  BY Zenon DEF EvtInv, EvtTypes
<1>v. \A r \in Sub : EvtServed(r)
  BY Zenon DEF EvtInv
<1>1. EvtLogTypes'
  BY Zenon, <1>t DEF EvtLogTypes, Evts!sendTopic, Evts!request
<1>2. EvtSubTypes'
  <2>1. msg[l] \in Nat
    BY Zenon, <1>t DEF EvtLogTypes
  <2>2. chan' \in [Sub -> Seq(Nat)] /\ skipped' \in [Sub -> SUBSET Nat]
    <3>1. Append(chan[s], msg[l]) \in Seq(Nat)
      BY <2>1, <1>t DEF EvtSubTypes
    <3>2. CASE chan' = [chan EXCEPT ![s] = Append(@, msg[l])] /\ skipped' = skipped
      BY Zenon, <3>1, <3>2, <1>t DEF EvtSubTypes
    <3>3. CASE skipped' = [skipped EXCEPT ![s] = @ \cup {msg[l]}] /\ chan' = chan
      BY <3>3, <2>1, <1>t DEF EvtSubTypes
    <3>4. QED
      BY Zenon, <3>2, <3>3 DEF Evts!sendTopic
  <2>3. QED
    BY Zenon, <2>2, <1>t DEF EvtSubTypes, Evts!sendTopic, Evts!request
<1>3. EvtPlaces'
  BY Zenon, <1>t DEF EvtLogTypes, EvtSubTypes, EvtPlaces, Evts!sendTopic, Evts!request
<1>4. Evts!NoSendAfterClose'
  BY <1>t DEF EvtLogTypes, EvtSubTypes, EvtPlaces, Evts!NoSendAfterClose, Evts!sendTopic, Evts!request
<1>5. ASSUME NEW r \in Sub PROVE EvtServed(r)'
  <2>1. /\ win'[r] = win[r] /\ spc'[r] = spc[r] /\ covered'[r] = covered[r] /\ buffered'[r] = buffered[r]
        /\ received'[r] = received[r] /\ author' = author /\ lpc' = lpc /\ msg' = msg
    BY Zenon DEF Evts!sendTopic, Evts!request
  <2>2. msg[l] \in Nat /\ chan[s] \in Seq(Nat)
    BY Zenon, <1>t DEF EvtLogTypes, EvtSubTypes
  <2>3. Got(r) \subseteq Got(r)' /\ (r = s => msg[l] \in Got(r)')
    <3>1. CASE chan' = [chan EXCEPT ![s] = Append(@, msg[l])] /\ skipped' = skipped
      <4>1. r = s => Evts!Range(chan'[r]) = Evts!Range(chan[r]) \cup {msg[l]}
        <5>1. Evts!Range(Append(chan[s], msg[l])) = Evts!Range(chan[s]) \cup {msg[l]}
          BY <2>2, RangeAppend
        <5>2. chan'[s] = Append(chan[s], msg[l])
          BY Zenon, <3>1, <1>t DEF EvtSubTypes
        <5>3. QED
          BY Zenon, <5>1, <5>2
      <4>2. r # s => chan'[r] = chan[r]
        BY Zenon, <3>1, <1>t DEF EvtSubTypes
      <4>3. QED
        BY Zenon, <4>1, <4>2, <3>1, <2>1 DEF Got
    <3>2. CASE skipped' = [skipped EXCEPT ![s] = @ \cup {msg[l]}] /\ chan' = chan
      BY Zenon, <3>2, <2>1, <1>t DEF Got, EvtSubTypes
    <3>3. QED
      BY Zenon, <3>1, <3>2 DEF Evts!sendTopic
  <2>4. ASSUME NEW t, ToCome(r, t) PROVE t \in Got(r)' \/ ToCome(r, t)'
    <3>1. PICK k \in Logger : msg[k] = t /\ (lpc[k] = "stored" \/ r \in sending[k])
      BY Zenon, <2>4 DEF ToCome
    <3>2. sending' = [sending EXCEPT ![l] = @ \ {s}]
      BY Zenon DEF Evts!sendTopic
    <3>3. CASE k = l /\ r = s
      BY Zenon, <3>1, <3>3, <2>3
    <3>4. CASE ~(k = l /\ r = s)
      <4>1. r \in sending[k] => r \in sending'[k]
        BY Zenon, <3>2, <3>4, <1>t DEF EvtLogTypes
      <4>2. QED
        BY Zenon, <4>1, <3>1, <2>1 DEF ToCome
    <3>5. QED
      BY Zenon, <3>3, <3>4
  <2>5. QED
    BY Zenon, <2>1, <2>3, <2>4, <1>t, <1>v, ServedFrame
<1>6. QED
  BY Zenon, <1>1, <1>2, <1>3, <1>4, <1>5 DEF EvtInv, EvtTypes

\* Publish returns when its senders have.
LEMMA PublishReturnsKeeps ==
  ASSUME Evts!EvtParameters, EvtInv, NEW l \in Logger, Evts!PublishReturns(l) PROVE EvtInv'
<1>t. EvtLogTypes /\ EvtSubTypes /\ EvtPlaces /\ Evts!NoSendAfterClose
  BY Zenon DEF EvtInv, EvtTypes
<1>v. \A r \in Sub : EvtServed(r)
  BY Zenon DEF EvtInv
<1>1. EvtLogTypes'
  BY Zenon, <1>t DEF EvtLogTypes, Evts!PublishReturns, Evts!Unset
<1>2. EvtSubTypes'
  BY Zenon, <1>t DEF EvtLogTypes, EvtSubTypes, Evts!PublishReturns, Evts!request
<1>3. EvtPlaces'
  BY Zenon, <1>t DEF EvtLogTypes, EvtSubTypes, EvtPlaces, Evts!PublishReturns, Evts!request
<1>4. Evts!NoSendAfterClose'
  BY Zenon, <1>t DEF EvtLogTypes, EvtSubTypes, EvtPlaces, Evts!NoSendAfterClose, Evts!PublishReturns, Evts!request
<1>5. ASSUME NEW r \in Sub PROVE EvtServed(r)'
  <2>1. \A t : ToCome(r, t) => ToCome(r, t)'
    BY Zenon, <1>t DEF ToCome, Evts!PublishReturns, EvtLogTypes, EvtPlaces
  <2>2. QED
    BY Zenon, <2>1, <1>t, <1>v, ServedFrame DEF Evts!PublishReturns, Evts!request, Got
<1>6. QED
  BY Zenon, <1>1, <1>2, <1>3, <1>4, <1>5 DEF EvtInv, EvtTypes

\* SubscribeTopic copies the ring and keeps e.mu.
LEMMA SubscribeLoadKeeps ==
  ASSUME Evts!EvtParameters, EvtInv, NEW s \in Sub, NEW w \in Evts!Windows, Evts!SubscribeLoad(s, w) PROVE EvtInv'
<1>t. EvtLogTypes /\ EvtSubTypes /\ EvtPlaces /\ Evts!NoSendAfterClose
  BY Zenon DEF EvtInv, EvtTypes
<1>v. \A r \in Sub : EvtServed(r)
  BY Zenon DEF EvtInv
<1>1. EvtLogTypes'
  BY Zenon, <1>t DEF EvtLogTypes, Evts!SubscribeLoad, Evts!logs, Evts!EvtParameters
<1>2. EvtSubTypes'
  <2>1. Evts!Range(events) \in SUBSET (1..clock)
    BY <1>t DEF EvtLogTypes, Evts!Range
  <2>2. w \in [since : Nat, until : Nat]
    BY DEF Evts!Windows, Evts!Window, Evts!Time, Evts!Unset, Evts!EvtParameters
  <2>3. covered' \in [Sub -> SUBSET (1..clock)] /\ win' \in [Sub -> [since : Nat, until : Nat]]
    BY Zenon, <2>1, <2>2, <1>t DEF EvtSubTypes, Evts!SubscribeLoad
  <2>4. QED
    BY Zenon, <2>3, <1>t DEF EvtSubTypes, Evts!SubscribeLoad, Evts!logs
<1>3. EvtPlaces'
  BY Zenon, <1>t DEF EvtLogTypes, EvtSubTypes, EvtPlaces, Evts!SubscribeLoad, Evts!logs, Evts!EvtParameters
<1>4. Evts!NoSendAfterClose'
  BY Zenon, <1>t DEF EvtLogTypes, EvtSubTypes, EvtPlaces, Evts!NoSendAfterClose, Evts!SubscribeLoad, Evts!logs, Evts!EvtParameters
<1>5. ASSUME NEW r \in Sub PROVE EvtServed(r)'
  <2>1. CASE r = s
    <3>1. spc'[r] = "copied" /\ win'[r] = w /\ covered'[r] = Evts!Range(events) /\ buffered'[r] = Evts!loadBufferedEvents(r, w)
      BY Zenon, <2>1, <1>t DEF Evts!SubscribeLoad, EvtSubTypes
    <3>2. author' = author
      BY Zenon DEF Evts!SubscribeLoad, Evts!logs
    <3>3. QED
      BY Zenon, <3>1, <3>2, <1>t, LoadEverything DEF EvtServed, Evts!Included
  <2>2. CASE r # s
    <3>1. spc'[r] = spc[r] /\ win'[r] = win[r] /\ covered'[r] = covered[r] /\ buffered'[r] = buffered[r]
      BY Zenon, <2>2, <1>t DEF Evts!SubscribeLoad, EvtSubTypes
    <3>2. /\ author' = author /\ msg' = msg /\ lpc' = lpc /\ sending' = sending
          /\ chan' = chan /\ received' = received /\ skipped' = skipped
      BY Zenon DEF Evts!SubscribeLoad, Evts!logs
    <3>3. QED
      BY Zenon, <3>1, <3>2, <1>t, <1>v, ServedFrame DEF Got, ToCome
  <2>3. QED
    BY Zenon, <2>1, <2>2
<1>6. QED
  BY Zenon, <1>1, <1>2, <1>3, <1>4, <1>5 DEF EvtInv, EvtTypes

\* It subscribes before it gives e.mu back: nothing was stored in between.
LEMMA SubscribeAddKeeps ==
  ASSUME Evts!EvtParameters, EvtInv, NEW s \in Sub, Evts!SubscribeAdd(s) PROVE EvtInv'
<1>t. EvtLogTypes /\ EvtSubTypes /\ EvtPlaces /\ Evts!NoSendAfterClose
  BY Zenon DEF EvtInv, EvtTypes
<1>v. \A r \in Sub : EvtServed(r)
  BY Zenon DEF EvtInv
<1>1. EvtLogTypes'
  BY Zenon, <1>t DEF EvtLogTypes, Evts!SubscribeAdd, Evts!logs
<1>2. EvtSubTypes'
  BY Zenon, <1>t DEF EvtLogTypes, EvtSubTypes, Evts!SubscribeAdd, Evts!logs
<1>3. EvtPlaces'
  BY Zenon, <1>t DEF EvtLogTypes, EvtSubTypes, EvtPlaces, Evts!SubscribeAdd, Evts!logs
<1>4. Evts!NoSendAfterClose'
  BY Zenon, <1>t DEF EvtLogTypes, EvtSubTypes, EvtPlaces, Evts!NoSendAfterClose, Evts!SubscribeAdd, Evts!logs
<1>5. ASSUME NEW r \in Sub PROVE EvtServed(r)'
  <2>1. /\ author' = author /\ msg' = msg /\ lpc' = lpc /\ sending' = sending /\ win' = win
        /\ chan' = chan /\ received' = received /\ skipped' = skipped /\ buffered' = buffered /\ covered' = covered
    BY Zenon DEF Evts!SubscribeAdd, Evts!logs
  <2>2. CASE r = s
    <3>1. spc[r] = "copied" /\ spc'[r] \in {"open", "closing"}
      BY Zenon, <2>2, <1>t DEF Evts!SubscribeAdd, EvtSubTypes
    <3>2. QED
      BY Zenon, <2>1, <3>1, <1>v DEF EvtServed, Evts!Included, Got
  <2>3. CASE r # s
    <3>1. spc'[r] = spc[r]
      BY Zenon, <2>3, <1>t DEF Evts!SubscribeAdd, EvtSubTypes
    <3>2. QED
      BY Zenon, <2>1, <3>1, <1>t, <1>v, ServedFrame DEF Got, ToCome
  <2>4. QED
    BY Zenon, <2>2, <2>3
<1>6. QED
  BY Zenon, <1>1, <1>2, <1>3, <1>4, <1>5 DEF EvtInv, EvtTypes

\* A request receives from its channel.
LEMMA ReceiveKeeps ==
  ASSUME Evts!EvtParameters, EvtInv, NEW s \in Sub, Evts!Receive(s) PROVE EvtInv'
<1>t. EvtLogTypes /\ EvtSubTypes /\ EvtPlaces /\ Evts!NoSendAfterClose
  BY Zenon DEF EvtInv, EvtTypes
<1>v. \A r \in Sub : EvtServed(r)
  BY Zenon DEF EvtInv
<1>1. EvtLogTypes'
  BY Zenon, <1>t DEF EvtLogTypes, Evts!Receive, Evts!logs
<1>2. EvtSubTypes'
  <2>1. chan[s] \in Seq(Nat) /\ chan[s] # <<>>
    BY Zenon, <1>t DEF EvtSubTypes, Evts!Receive
  <2>2. Tail(chan[s]) \in Seq(Nat) /\ Head(chan[s]) \in Nat
    BY Zenon, <2>1, RangeHead
  <2>3. chan' \in [Sub -> Seq(Nat)] /\ received' \in [Sub -> SUBSET Nat]
    BY Zenon, <2>2, <1>t DEF EvtSubTypes, Evts!Receive
  <2>4. QED
    BY Zenon, <2>3, <1>t DEF EvtSubTypes, Evts!Receive, Evts!logs
<1>3. EvtPlaces'
  BY Zenon, <1>t DEF EvtLogTypes, EvtSubTypes, EvtPlaces, Evts!Receive, Evts!logs
<1>4. Evts!NoSendAfterClose'
  BY Zenon, <1>t DEF EvtLogTypes, EvtSubTypes, EvtPlaces, Evts!NoSendAfterClose, Evts!Receive, Evts!logs
<1>5. ASSUME NEW r \in Sub PROVE EvtServed(r)'
  <2>1. /\ author' = author /\ msg' = msg /\ lpc' = lpc /\ sending' = sending /\ win' = win
        /\ skipped' = skipped /\ buffered' = buffered /\ covered' = covered /\ spc' = spc
    BY Zenon DEF Evts!Receive, Evts!logs
  <2>2. Got(r) \subseteq Got(r)'
    <3>1. CASE r = s
      <4>1. chan[s] \in Seq(Nat) /\ chan[s] # <<>>
        BY Zenon, <1>t DEF EvtSubTypes, Evts!Receive
      <4>2. Evts!Range(chan[s]) \subseteq Evts!Range(Tail(chan[s])) \cup {Head(chan[s])}
        BY Zenon, <4>1, RangeHead
      <4>3. chan'[s] = Tail(chan[s]) /\ received'[s] = received[s] \cup {Head(chan[s])}
        BY Zenon, <1>t DEF EvtSubTypes, Evts!Receive
      <4>4. QED
        BY Zenon, <4>2, <4>3, <3>1, <2>1 DEF Got
    <3>2. CASE r # s
      <4>1. chan'[r] = chan[r] /\ received'[r] = received[r]
        BY Zenon, <3>2, <1>t DEF EvtSubTypes, Evts!Receive
      <4>2. QED
        BY Zenon, <4>1, <2>1 DEF Got
    <3>3. QED
      BY Zenon, <3>1, <3>2
  <2>3. QED
    BY Zenon, <2>1, <2>2, <1>t, <1>v, ServedFrame DEF ToCome
<1>6. QED
  BY <1>1, <1>2, <1>3, <1>4, <1>5 DEF EvtInv, EvtTypes

\* A request that ends stops receiving.
LEMMA StopReceivingKeeps ==
  ASSUME Evts!EvtParameters, EvtInv, NEW s \in Sub, Evts!StopReceiving(s) PROVE EvtInv'
<1>t. EvtLogTypes /\ EvtSubTypes /\ EvtPlaces /\ Evts!NoSendAfterClose
  BY DEF EvtInv, EvtTypes
<1>v. \A r \in Sub : EvtServed(r)
  BY DEF EvtInv
<1>1. EvtLogTypes'
  BY Zenon, <1>t DEF EvtLogTypes, Evts!StopReceiving, Evts!logs
<1>2. EvtSubTypes'
  BY Zenon, <1>t DEF EvtLogTypes, EvtSubTypes, Evts!StopReceiving, Evts!logs
<1>3. EvtPlaces'
  BY Zenon, <1>t DEF EvtLogTypes, EvtSubTypes, EvtPlaces, Evts!StopReceiving, Evts!logs
<1>4. Evts!NoSendAfterClose'
  BY Zenon, <1>t DEF EvtLogTypes, EvtSubTypes, EvtPlaces, Evts!NoSendAfterClose, Evts!StopReceiving, Evts!logs
<1>5. ASSUME NEW r \in Sub PROVE EvtServed(r)'
  <2>1. /\ author' = author /\ msg' = msg /\ lpc' = lpc /\ sending' = sending /\ win' = win
        /\ chan' = chan /\ received' = received /\ skipped' = skipped /\ buffered' = buffered /\ covered' = covered
    BY Zenon DEF Evts!StopReceiving, Evts!logs
  <2>2. CASE r = s
    <3>1. spc'[r] \in {"closing", "gone"}
      BY Zenon, <2>2, <1>t DEF Evts!StopReceiving, EvtSubTypes
    <3>2. QED
      BY Zenon, <3>1 DEF EvtServed
  <2>3. CASE r # s
    <3>1. spc'[r] = spc[r]
      BY Zenon, <2>3, <1>t DEF Evts!StopReceiving, EvtSubTypes
    <3>2. QED
      BY Zenon, <2>1, <3>1, <1>t, <1>v, ServedFrame DEF Got, ToCome
  <2>4. QED
    BY <2>2, <2>3
<1>6. QED
  BY Zenon, <1>1, <1>2, <1>3, <1>4, <1>5 DEF EvtInv, EvtTypes

\* Evict closes the channel, under the write lock: nobody is publishing.
LEMMA EvictKeeps ==
  ASSUME Evts!EvtParameters, EvtInv, NEW s \in Sub, Evts!Evict(s) PROVE EvtInv'
<1>t. EvtLogTypes /\ EvtSubTypes /\ EvtPlaces /\ Evts!NoSendAfterClose
  BY Zenon DEF EvtInv, EvtTypes
<1>v. \A r \in Sub : EvtServed(r)
  BY Zenon DEF EvtInv
<1>1. EvtLogTypes'
  BY Zenon, <1>t DEF EvtLogTypes, Evts!Evict, Evts!logs, Evts!Publishing
<1>2. EvtSubTypes'
  BY Zenon, <1>t DEF EvtLogTypes, EvtSubTypes, Evts!Evict, Evts!logs, Evts!Publishing
<1>3. EvtPlaces'
  BY Zenon, <1>t DEF EvtLogTypes, EvtSubTypes, EvtPlaces, Evts!Evict, Evts!logs, Evts!Publishing
<1>4. Evts!NoSendAfterClose'
  BY Zenon, <1>t DEF EvtLogTypes, EvtSubTypes, EvtPlaces, Evts!NoSendAfterClose, Evts!Evict, Evts!logs, Evts!Publishing
<1>5. ASSUME NEW r \in Sub PROVE EvtServed(r)'
  <2>1. /\ author' = author /\ msg' = msg /\ lpc' = lpc /\ sending' = sending /\ win' = win
        /\ chan' = chan /\ received' = received /\ skipped' = skipped /\ buffered' = buffered /\ covered' = covered
    BY Zenon DEF Evts!Evict, Evts!logs
  <2>2. CASE r = s
    <3>1. spc'[r] \in {"closing", "gone"}
      BY Zenon, <2>2, <1>t DEF Evts!Evict, EvtSubTypes
    <3>2. QED
      BY Zenon, <3>1 DEF EvtServed
  <2>3. CASE r # s
    <3>1. spc'[r] = spc[r]
      BY Zenon, <2>3, <1>t DEF Evts!Evict, EvtSubTypes
    <3>2. QED
      BY Zenon, <2>1, <3>1, <1>t, <1>v, ServedFrame DEF Got, ToCome
  <2>4. QED
    BY Zenon, <2>2, <2>3
<1>6. QED
  BY <1>1, <1>2, <1>3, <1>4, <1>5 DEF EvtInv, EvtTypes

\* At first there are no events and no requests.
LEMMA EvtInit == ASSUME Evts!EvtParameters, Evts!Init PROVE EvtInv
<1>1. author = <<>> /\ events = <<>> /\ clock = 0
  BY Zenon DEF Evts!Init
<1>2. author \in [1..clock -> Logger] /\ events \in Seq(1..clock)
  BY <1>1
<1>3. EvtLogTypes
  BY <1>1, <1>2 DEF Evts!Init, EvtLogTypes, Evts!Unset
<1>4. chan \in [Sub -> Seq(Nat)]
  <2>1. <<>> \in Seq(Nat)
    OBVIOUS
  <2>2. QED
    BY Zenon, <2>1 DEF Evts!Init
<1>5. EvtSubTypes
  BY Zenon, <1>1, <1>4 DEF Evts!Init, EvtSubTypes, Evts!Unset
<1>6. EvtPlaces /\ Evts!NoSendAfterClose
  BY Zenon DEF Evts!Init, EvtPlaces, Evts!NoSendAfterClose
<1>7. \A s \in Sub : EvtServed(s)
  BY Zenon DEF Evts!Init, EvtServed
<1>8. QED
  BY Zenon, <1>3, <1>5, <1>6, <1>7 DEF EvtInv, EvtTypes

\* EvtInv is inductive.
LEMMA EvtStep == ASSUME Evts!EvtParameters, EvtInv, [Evts!Next]_(Evts!vars) PROVE EvtInv'
<1>1. CASE UNCHANGED Evts!vars
  <2>1. (EvtLogTypes' <=> EvtLogTypes) /\ (EvtSubTypes' <=> EvtSubTypes)
    BY Zenon, <1>1 DEF Evts!vars, EvtLogTypes, EvtSubTypes
  <2>2. (EvtPlaces' <=> EvtPlaces) /\ (Evts!NoSendAfterClose' <=> Evts!NoSendAfterClose)
    BY Zenon, <1>1 DEF Evts!vars, EvtPlaces, Evts!NoSendAfterClose
  <2>3. ASSUME NEW s \in Sub PROVE EvtServed(s)' <=> EvtServed(s)
    <3>1. Got(s)' = Got(s) /\ \A t : (ToCome(s, t)' <=> ToCome(s, t)) /\ (Evts!Included(s, t)' <=> Evts!Included(s, t))
      BY Zenon, <1>1 DEF Evts!vars, Got, ToCome, Evts!Included
    <3>2. win'[s] = win[s] /\ spc'[s] = spc[s] /\ covered'[s] = covered[s] /\ buffered'[s] = buffered[s]
      BY Zenon, <1>1 DEF Evts!vars
    <3>3. QED
      BY Zenon, <3>1, <3>2 DEF EvtServed
  <2>4. QED
    BY Zenon, <2>1, <2>2, <2>3 DEF EvtInv, EvtTypes
<1>2. CASE \E l \in Logger : Evts!LogStamp(l) \/ Evts!LogStore(l) \/ Evts!Publish(l) \/ Evts!PublishReturns(l)
  BY Zenon, <1>2, LogStampKeeps, LogStoreKeeps, PublishKeeps, PublishReturnsKeeps
<1>3. CASE \E l \in Logger, s \in Sub : Evts!sendTopic(l, s)
  BY Zenon, <1>3, SendTopicKeeps
<1>4. CASE \E s \in Sub, w \in Evts!Windows : Evts!SubscribeLoad(s, w)
  BY Zenon, <1>4, SubscribeLoadKeeps
<1>5. CASE \E s \in Sub : Evts!SubscribeAdd(s) \/ Evts!Receive(s) \/ Evts!StopReceiving(s) \/ Evts!Evict(s)
  BY <1>5, SubscribeAddKeeps, ReceiveKeeps, StopReceivingKeeps, EvictKeeps
<1>6. QED
  BY Zenon, <1>1, <1>2, <1>3, <1>4, <1>5 DEF Evts!Next

\* A request that asked for everything has each event stored since it copied the ring, or a
\* sender is on its way with it; and nobody sends to a closed channel.
THEOREM EventsInvariant == ASSUME Evts!EvtParameters PROVE Evts!Spec => []EvtInv
<1>1. Evts!Init => EvtInv
  BY Zenon, EvtInit
<1>2. EvtInv /\ [Evts!Next]_(Evts!vars) => EvtInv'
  BY Zenon, EvtStep
<1>3. QED
  BY <1>1, <1>2, PTL DEF Evts!Spec

\* An event that nobody is publishing any more has arrived.
LEMMA EvtInvSafe == ASSUME EvtInv PROVE EventsSafe
<1>1. ASSUME NEW s \in Sub, spc[s] = "open", win[s] = Everything, NEW t \in covered[s], Evts!Included(s, t), ~Evts!Busy(t)
      PROVE  t \in Got(s)
  <2>1. t \in Got(s) \/ ToCome(s, t)
    BY Zenon, <1>1 DEF EvtInv, EvtServed
  <2>2. ~ToCome(s, t)
    BY Zenon, <1>1 DEF ToCome, Evts!Busy
  <2>3. QED
    BY Zenon, <2>1, <2>2
<1>2. Evts!NoneMissed
  BY Zenon, <1>1 DEF Evts!NoneMissed, Everything, Got
<1>3. QED
  BY Zenon, <1>2 DEF EvtInv, EventsSafe, Evts!EventsSafe

\* Between the ring and the subscription no event falls through, and Publish never sends on a
\* channel that Evict has closed, for any number of loggers, requests and events and any
\* sizes of ring and channels.
THEOREM EventsAreSafe == ASSUME Evts!EvtParameters PROVE Evts!Spec => []EventsSafe
BY EventsInvariant, EvtInvSafe, PTL
=============================================================================
