------------------------------ MODULE Locker ------------------------------
(***************************************************************************)
(* pkg/locker/locker.go: mutexes by name.  A lockCtr is created when a     *)
(* name is first locked and removed from the map when it is unlocked and   *)
(* nobody waits for it, so the same name is served by different lockCtr    *)
(* objects over time.  What could go wrong is that two goroutines end up   *)
(* on two different objects for one name.                                  *)
(*                                                                         *)
(* A section under Locker.mu is one step; nameLock.Lock() and the atomic   *)
(* dec() that follows it are outside Locker.mu and are steps of their own. *)
(***************************************************************************)
EXTENDS Naturals, FiniteSets

CONSTANTS
  Proc,   \* goroutines
  Name,   \* lock names
  Ctr,    \* addresses of lockCtr objects; a collected object's can return
  None    \* the nil pointer

ASSUME LockerAssumption ==
  /\ IsFiniteSet(Proc)
  /\ None \notin Proc
  /\ None \notin Ctr

VARIABLES
  locks,    \* Locker.locks: the map from a name to its lockCtr
  waiters,  \* lockCtr.waiters
  owner,    \* lockCtr.mu: the goroutine that holds it
  pc,       \* where each goroutine is in Lock / Unlock
  name,     \* the name each goroutine passed to Lock
  nameLock, \* the local variable of Lock
  res       \* the result of the goroutine's last Unlock

vars == <<locks, waiters, owner, pc, name, nameLock, res>>

PC == {"idle", "locking", "decrementing", "held"}

TypeOK ==
  /\ locks \in [Name -> Ctr \cup {None}]
  /\ waiters \in [Ctr -> Nat]
  /\ owner \in [Ctr -> Proc \cup {None}]
  /\ pc \in [Proc -> PC]
  /\ name \in [Proc -> Name \cup {None}]
  /\ nameLock \in [Proc -> Ctr \cup {None}]
  /\ res \in [Proc -> {"nil", "ErrNoSuchLock"}]

Init ==
  /\ locks = [n \in Name |-> None]
  /\ waiters = [c \in Ctr |-> 0]
  /\ owner = [c \in Ctr |-> None]
  /\ pc = [p \in Proc |-> "idle"]
  /\ name = [p \in Proc |-> None]
  /\ nameLock = [p \in Proc |-> None]
  /\ res = [p \in Proc |-> "nil"]

-----------------------------------------------------------------------------
\* An address no live pointer has: not in the map, no goroutine's local.
Fresh(c) ==
  /\ \A n \in Name : locks[n] # c
  /\ \A p \in Proc : nameLock[p] # c

\* Mutant of LockCall: inc() is forgotten.
LockCallNoInc(p, n) ==
  /\ pc[p] = "idle"
  /\ \E c \in Ctr :
       /\ IF locks[n] = None THEN Fresh(c) ELSE c = locks[n]
       /\ locks' = [locks EXCEPT ![n] = c]
       /\ nameLock' = [nameLock EXCEPT ![p] = c]
  /\ name' = [name EXCEPT ![p] = n]
  /\ pc' = [pc EXCEPT ![p] = "locking"]
  /\ UNCHANGED <<waiters, owner, res>>

\* Lock, the part under Locker.mu: find or create the name's lockCtr and
\* count the caller among its waiters.
LockCall(p, n) ==
  /\ pc[p] = "idle"
  /\ \/ /\ locks[n] # None
        /\ nameLock' = [nameLock EXCEPT ![p] = locks[n]]
        /\ waiters' = [waiters EXCEPT ![locks[n]] = @ + 1]
        /\ UNCHANGED <<locks, owner>>
     \/ /\ locks[n] = None
        /\ \E c \in Ctr :
             /\ Fresh(c)
             /\ locks' = [locks EXCEPT ![n] = c]
             /\ nameLock' = [nameLock EXCEPT ![p] = c]
             /\ waiters' = [waiters EXCEPT ![c] = 1]
             /\ owner' = [owner EXCEPT ![c] = None]
  /\ name' = [name EXCEPT ![p] = n]
  /\ pc' = [pc EXCEPT ![p] = "locking"]
  /\ UNCHANGED res

\* nameLock.Lock() succeeds.
Acquire(p) ==
  /\ pc[p] = "locking"
  /\ owner[nameLock[p]] = None
  /\ owner' = [owner EXCEPT ![nameLock[p]] = p]
  /\ pc' = [pc EXCEPT ![p] = "decrementing"]
  /\ UNCHANGED <<locks, waiters, name, nameLock, res>>

\* nameLock.dec(), and Lock returns.
Dec(p) ==
  /\ pc[p] = "decrementing"
  /\ waiters' = [waiters EXCEPT ![nameLock[p]] = @ - 1]
  /\ pc' = [pc EXCEPT ![p] = "held"]
  /\ UNCHANGED <<locks, owner, name, nameLock, res>>

\* The callers this models: the holder of n, once, and a caller that unlocks
\* a name nobody has locked (locker_test.go calls it so).
MayUnlock(p, n) ==
  \/ pc[p] = "held" /\ name[p] = n
  \/ pc[p] = "idle" /\ locks[n] = None

\* Mutants of Unlock: the entry is never deleted, always deleted, and the
\* lockCtr's own mutex is not released.
UnlockKeepsEntry(p, n) ==
  /\ MayUnlock(p, n)
  /\ \/ /\ locks[n] = None
        /\ res' = [res EXCEPT ![p] = "ErrNoSuchLock"]
        /\ UNCHANGED <<locks, owner>>
     \/ /\ locks[n] # None
        /\ locks' = locks
        /\ owner' = [owner EXCEPT ![locks[n]] = None]
        /\ res' = [res EXCEPT ![p] = "nil"]
  /\ pc' = [pc EXCEPT ![p] = "idle"]
  /\ name' = [name EXCEPT ![p] = None]
  /\ nameLock' = [nameLock EXCEPT ![p] = None]
  /\ UNCHANGED waiters

UnlockAlwaysDeletes(p, n) ==
  /\ MayUnlock(p, n)
  /\ \/ /\ locks[n] = None
        /\ res' = [res EXCEPT ![p] = "ErrNoSuchLock"]
        /\ UNCHANGED <<locks, owner>>
     \/ /\ locks[n] # None
        /\ locks' = [locks EXCEPT ![n] = None]
        /\ owner' = [owner EXCEPT ![locks[n]] = None]
        /\ res' = [res EXCEPT ![p] = "nil"]
  /\ pc' = [pc EXCEPT ![p] = "idle"]
  /\ name' = [name EXCEPT ![p] = None]
  /\ nameLock' = [nameLock EXCEPT ![p] = None]
  /\ UNCHANGED waiters

UnlockForgetsMutex(p, n) ==
  /\ MayUnlock(p, n)
  /\ \/ /\ locks[n] = None
        /\ res' = [res EXCEPT ![p] = "ErrNoSuchLock"]
        /\ UNCHANGED <<locks, owner>>
     \/ /\ locks[n] # None
        /\ locks' = IF waiters[locks[n]] = 0
                      THEN [locks EXCEPT ![n] = None] ELSE locks
        /\ owner' = owner
        /\ res' = [res EXCEPT ![p] = "nil"]
  /\ pc' = [pc EXCEPT ![p] = "idle"]
  /\ name' = [name EXCEPT ![p] = None]
  /\ nameLock' = [nameLock EXCEPT ![p] = None]
  /\ UNCHANGED waiters

\* Unlock: one section under Locker.mu.
Unlock(p, n) ==
  /\ MayUnlock(p, n)
  /\ \/ /\ locks[n] = None
        /\ res' = [res EXCEPT ![p] = "ErrNoSuchLock"]
        /\ UNCHANGED <<locks, owner>>
     \/ /\ locks[n] # None
        /\ locks' = IF waiters[locks[n]] = 0
                      THEN [locks EXCEPT ![n] = None] ELSE locks
        /\ owner' = [owner EXCEPT ![locks[n]] = None]
        /\ res' = [res EXCEPT ![p] = "nil"]
  /\ pc' = [pc EXCEPT ![p] = "idle"]
  /\ name' = [name EXCEPT ![p] = None]
  /\ nameLock' = [nameLock EXCEPT ![p] = None]
  /\ UNCHANGED waiters

Next == \E p \in Proc :
  \/ \E n \in Name : LockCall(p, n) \/ Unlock(p, n)
  \/ Acquire(p)
  \/ Dec(p)

Spec == Init /\ [][Next]_vars

\* A goroutine inside Lock keeps running; how long a name stays locked is
\* the caller's business, but every caller in the repository unlocks (defer).
Fairness == \A p \in Proc :
  /\ WF_vars(Acquire(p))
  /\ WF_vars(Dec(p))
  /\ WF_vars(\E n \in Name : pc[p] = "held" /\ Unlock(p, n))

FairSpec == Spec /\ Fairness

-----------------------------------------------------------------------------
\* A goroutine is past nameLock.Lock() and has not unlocked.
Holds(p, n) == pc[p] \in {"decrementing", "held"} /\ name[p] = n

\* No two goroutines hold one name, although the lockCtr behind a name is
\* deleted and created again while goroutines are between the map lookup and
\* nameLock.Lock() ("makes sure that the lock isn't deleted").
MutualExclusion ==
  \A p, q \in Proc, n \in Name : Holds(p, n) /\ Holds(q, n) => p = q

\* Every goroutine with a pointer to a name's lockCtr has the one that is in
\* the map, so an Unlock by the holder finds the object it locked.
PointerIsCurrent ==
  \A p \in Proc : pc[p] # "idle" =>
    /\ nameLock[p] # None
    /\ nameLock[p] = locks[name[p]]

\* waiters counts the goroutines between inc() and dec(), which is what
\* Unlock's count() == 0 relies on.
WaitersCounted ==
  \A c \in Ctr :
    waiters[c] = Cardinality({p \in Proc : /\ pc[p] \in {"locking", "decrementing"}
                                           /\ nameLock[p] = c})

\* Unlock deletes the entry when the last user leaves: a name in the map has
\* a user, so the map does not grow with the names ever locked.
NoEntryLeaks ==
  \A n \in Name : locks[n] # None => \E p \in Proc : pc[p] # "idle" /\ name[p] = n

\* What the callers of Lock and Unlock rely on: one holder per name, whose
\* pointer is the mapped lockCtr, exact waiter counts and no leaked entry.
LocksSafe == MutualExclusion /\ PointerIsCurrent /\ WaitersCounted /\ NoEntryLeaks

\* The holder's own Unlock never fails with ErrNoSuchLock.
HolderUnlockSucceeds ==
  [][\A p \in Proc : pc[p] = "held" /\ pc'[p] = "idle" => res'[p] = "nil"]_vars

\* Somebody waiting for a name is not left waiting by everybody: the name is
\* handed on (which waiter gets it is up to sync.Mutex, which is not FIFO).
HandedOn ==
  \A n \in Name :
    (\E p \in Proc : pc[p] = "locking" /\ name[p] = n)
      ~> (\E p \in Proc : Holds(p, n))

\* The locker implements one mutex per name.
Abstract == INSTANCE NamedMutex
  WITH holders <- [n \in Name |-> {p \in Proc : Holds(p, n)}]

AbstractSpec == Abstract!Spec
===========================================================================
