-------------------------- MODULE TransferManager --------------------------
(***************************************************************************)
(* distribution/xfer/transfer.go: the manager that schedules the transfers *)
(* of image layers (at most concurrencyLimit at a time), gives every       *)
(* caller that wants the same key the same transfer, cancels a transfer    *)
(* nobody watches and tells when its result may be released.               *)
(*                                                                         *)
(* The sections under tm.mu and t.mu are steps.  A transfer is its object: *)
(* objects nobody refers to any more are free and may be used again.  The  *)
(* transfer function (download.go, upload.go) waits for start, may close   *)
(* inactive once and ends by closing its progress channel.  How progress   *)
(* reaches the watchers is left out.                                       *)
(***************************************************************************)
EXTENDS Naturals, Sequences, FiniteSets, SequencesExt

CONSTANTS
  Caller,   \* the pulls and pushes that call Transfer
  Key,      \* transfer keys
  Xfer,     \* transfer objects
  None,     \* no transfer, no key
  Limits    \* the values of concurrencyLimit; 0 is no limit

ASSUME TransferAssumption ==
  /\ None \notin Xfer /\ None \notin Key
  /\ Limits \subseteq Nat

VARIABLES
  \* transferManager
  concurrencyLimit, activeTransfers,
  transfers,         \* the map of transfers in progress
  waitingTransfers,  \* the transfers whose start channel waits, in order
  \* transfers
  key,               \* the key each was made for; None for a free object
  started,           \* start is closed
  inactive,          \* the function has closed inactive
  returned,          \* the manager's goroutine is done with inactive: slot given back
  cancelled,         \* the context is cancelled
  done,              \* running is closed: the function has ended
  gone,              \* the manager's goroutine has removed it from transfers
  closed, released,
  \* callers
  pc, xfer, want

managerVars == <<concurrencyLimit, activeTransfers, transfers, waitingTransfers>>
xferVars == <<key, started, inactive, returned, cancelled, done, gone, closed, released>>
callerVars == <<pc, xfer, want>>
vars == <<managerVars, xferVars, callerVars>>

TypeOK ==
  /\ concurrencyLimit \in Limits
  /\ activeTransfers \in Nat
  /\ transfers \in [Key -> Xfer \cup {None}]
  /\ waitingTransfers \in Seq(Xfer)
  /\ key \in [Xfer -> Key \cup {None}]
  /\ started \subseteq Xfer /\ inactive \subseteq Xfer /\ returned \subseteq Xfer
  /\ cancelled \subseteq Xfer /\ done \subseteq Xfer /\ gone \subseteq Xfer
  /\ closed \subseteq Xfer /\ released \subseteq Xfer
  /\ pc \in [Caller -> {"idle", "waitDone", "looking", "watching"}]
  /\ xfer \in [Caller -> Xfer \cup {None}]
  /\ want \in [Caller -> Key \cup {None}]

Init ==
  /\ concurrencyLimit \in Limits
  /\ activeTransfers = 0
  /\ transfers = [k \in Key |-> None]
  /\ waitingTransfers = <<>>
  /\ key = [x \in Xfer |-> None]
  /\ started = {} /\ inactive = {} /\ returned = {} /\ cancelled = {}
  /\ done = {} /\ gone = {} /\ closed = {} /\ released = {}
  /\ pc = [c \in Caller |-> "idle"]
  /\ xfer = [c \in Caller |-> None]
  /\ want = [c \in Caller |-> None]

Watchers(x) == {c \in Caller : pc[c] = "watching" /\ xfer[c] = x}

-----------------------------------------------------------------------------
(* Callers *)

\* At the top of the loop of Transfer, under tm.mu: a new call, or one whose
\* cancelled transfer has ended.
Looks(c, k) == pc[c] = "idle" \/ (pc[c] = "looking" /\ want[c] = k)

\* A mutant of Join: a cancelled transfer is watched like any other.
JoinCancelled(c, k) ==
  /\ Looks(c, k) /\ transfers[k] # None
  /\ xfer' = [xfer EXCEPT ![c] = transfers[k]]
  /\ pc' = [pc EXCEPT ![c] = "watching"]
  /\ want' = [want EXCEPT ![c] = None]
  /\ UNCHANGED <<managerVars, xferVars>>

\* The transfer of this key is in progress: watch it, unless it has been
\* cancelled; then wait for its end and try again.
Join(c, k) ==
  /\ Looks(c, k) /\ transfers[k] # None
  /\ xfer' = [xfer EXCEPT ![c] = transfers[k]]
  /\ pc' = [pc EXCEPT ![c] = IF transfers[k] \in cancelled THEN "waitDone" ELSE "watching"]
  /\ want' = [want EXCEPT ![c] = None]
  /\ UNCHANGED <<managerVars, xferVars>>

\* <-xfer.Done(), and around the loop.
Yield(c) ==
  /\ pc[c] = "waitDone" /\ xfer[c] \in done
  /\ pc' = [pc EXCEPT ![c] = "looking"]
  /\ want' = [want EXCEPT ![c] = key[xfer[c]]]
  /\ xfer' = [xfer EXCEPT ![c] = None]
  /\ UNCHANGED <<managerVars, xferVars>>

\* A mutant of SlotFree: off by one.
SlotFreeOffByOne == concurrencyLimit = 0 \/ activeTransfers <= concurrencyLimit

\* A slot is free for a new transfer.
SlotFree == concurrencyLimit = 0 \/ activeTransfers < concurrencyLimit

\* A new transfer x: started at once, or put at the end of the queue.
NewTransfer(c, k, x) ==
  /\ Looks(c, k) /\ transfers[k] = None
  /\ key[x] = None
  /\ key' = [key EXCEPT ![x] = k]
  /\ transfers' = [transfers EXCEPT ![k] = x]
  /\ IF SlotFree
       THEN /\ started' = started \cup {x}
            /\ activeTransfers' = activeTransfers + 1
            /\ UNCHANGED waitingTransfers
       ELSE /\ waitingTransfers' = Append(waitingTransfers, x)
            /\ UNCHANGED <<started, activeTransfers>>
  /\ pc' = [pc EXCEPT ![c] = "watching"]
  /\ xfer' = [xfer EXCEPT ![c] = x]
  /\ want' = [want EXCEPT ![c] = None]
  /\ UNCHANGED <<concurrencyLimit, inactive, returned, cancelled, done, gone, closed, released>>

\* The last watcher of a tracked transfer cancels it; of one that is no
\* longer tracked, it closes released.
Release(c) ==
  /\ pc[c] = "watching"
  /\ LET x == xfer[c]
         last == Watchers(x) = {c} IN
     /\ cancelled' = IF last /\ x \notin closed THEN cancelled \cup {x} ELSE cancelled
     /\ released' = IF last /\ x \in closed THEN released \cup {x} ELSE released
  /\ pc' = [pc EXCEPT ![c] = "idle"]
  /\ xfer' = [xfer EXCEPT ![c] = None]
  /\ UNCHANGED <<managerVars, key, started, inactive, returned, done, gone, closed, want>>

SetConcurrency(n) ==
  /\ concurrencyLimit' = n
  /\ UNCHANGED <<activeTransfers, transfers, waitingTransfers, xferVars, callerVars>>

-----------------------------------------------------------------------------
(* The transfer function *)

\* The data is there; it now waits for its parent or registers the layer.
CloseInactive(x) ==
  /\ x \in started /\ x \notin inactive /\ x \notin done
  /\ inactive' = inactive \cup {x}
  /\ UNCHANGED <<managerVars, key, started, returned, cancelled, done, gone, closed, released,
                 callerVars>>

\* It ends: with its result, with an error, or because it was cancelled.
\* Even a cancelled function has waited for start first.
Finish(x) ==
  /\ x \in started /\ x \notin done
  /\ done' = done \cup {x}
  /\ UNCHANGED <<managerVars, key, started, inactive, returned, cancelled, gone, closed, released,
                 callerVars>>

-----------------------------------------------------------------------------
(* The goroutine of Transfer that follows one transfer *)

\* Mutants of Inactivate: the slot is passed on and freed; it is freed and
\* nobody is started.
InactivateFreesToo(x) ==
  /\ IF waitingTransfers # <<>>
       THEN /\ started' = started \cup {Head(waitingTransfers)}
            /\ waitingTransfers' = Tail(waitingTransfers)
       ELSE UNCHANGED <<started, waitingTransfers>>
  /\ activeTransfers' = activeTransfers - 1
InactivateStartsNobody(x) ==
  /\ activeTransfers' = activeTransfers - 1
  /\ UNCHANGED <<started, waitingTransfers>>

\* inactivate(start): the slot goes to the first one waiting, or is free.
Inactivate(x) ==
  IF x \notin started THEN UNCHANGED <<started, activeTransfers, waitingTransfers>>
  ELSE IF waitingTransfers # <<>>
         THEN /\ started' = started \cup {Head(waitingTransfers)}
              /\ waitingTransfers' = Tail(waitingTransfers)
              /\ UNCHANGED activeTransfers
         ELSE /\ activeTransfers' = activeTransfers - 1
              /\ UNCHANGED <<started, waitingTransfers>>

\* case <-inactive
SeeInactive(x) ==
  /\ key[x] # None
  /\ x \in inactive /\ x \notin returned /\ x \notin gone
  /\ Inactivate(x)
  /\ returned' = returned \cup {x}
  /\ UNCHANGED <<concurrencyLimit, transfers, key, inactive, cancelled, done, gone, closed, released,
                 callerVars>>

\* Mutants of SeeDone: inactive is not set to nil, so the slot is given back
\* again; Done is the context's channel; the map entry stays.
SeeDoneTwice(x) ==
  /\ x \in done /\ x \notin gone
  /\ Inactivate(x)
  /\ returned' = returned \cup {x}
  /\ transfers' = [transfers EXCEPT ![key[x]] = None]
  /\ gone' = gone \cup {x}
  /\ UNCHANGED <<concurrencyLimit, key, inactive, cancelled, done, closed, released, callerVars>>
SeeDoneOnCancel(x) ==
  /\ x \in done \cup cancelled /\ x \notin gone
  /\ IF x \in returned THEN UNCHANGED <<started, activeTransfers, waitingTransfers>>
                       ELSE Inactivate(x)
  /\ returned' = returned \cup {x}
  /\ transfers' = [transfers EXCEPT ![key[x]] = None]
  /\ gone' = gone \cup {x}
  /\ UNCHANGED <<concurrencyLimit, key, inactive, cancelled, done, closed, released, callerVars>>
SeeDoneKeepsEntry(x) ==
  /\ x \in done /\ x \notin gone
  /\ IF x \in returned THEN UNCHANGED <<started, activeTransfers, waitingTransfers>>
                       ELSE Inactivate(x)
  /\ returned' = returned \cup {x}
  /\ gone' = gone \cup {x}
  /\ UNCHANGED <<concurrencyLimit, transfers, key, inactive, cancelled, done, closed, released,
                 callerVars>>

\* case <-xfer.Done(); a select may take it although inactive is closed too.
SeeDone(x) ==
  /\ x \in done /\ x \notin gone
  /\ IF x \in returned THEN UNCHANGED <<started, activeTransfers, waitingTransfers>>
                       ELSE Inactivate(x)
  /\ returned' = returned \cup {x}
  /\ transfers' = [transfers EXCEPT ![key[x]] = None]
  /\ gone' = gone \cup {x}
  /\ UNCHANGED <<concurrencyLimit, key, inactive, cancelled, done, closed, released, callerVars>>

\* A mutant of Close: the watchers are not counted.
CloseReleases(x) ==
  /\ x \in gone /\ x \notin closed
  /\ closed' = closed \cup {x}
  /\ released' = released \cup {x}
  /\ UNCHANGED <<managerVars, key, started, inactive, returned, cancelled, done, gone, callerVars>>

\* xfer.Close(), after tm.mu has been released.
Close(x) ==
  /\ x \in gone /\ x \notin closed
  /\ closed' = closed \cup {x}
  /\ released' = IF Watchers(x) = {} THEN released \cup {x} ELSE released
  /\ UNCHANGED <<managerVars, key, started, inactive, returned, cancelled, done, gone, callerVars>>

\* The function's last goroutine sees released and lets go of its layer, and
\* nobody refers to the object any more.
Forget(x) ==
  /\ x \in released
  /\ \A c \in Caller : xfer[c] # x
  /\ key' = [key EXCEPT ![x] = None]
  /\ started' = started \ {x} /\ inactive' = inactive \ {x} /\ returned' = returned \ {x}
  /\ cancelled' = cancelled \ {x} /\ done' = done \ {x} /\ gone' = gone \ {x}
  /\ closed' = closed \ {x} /\ released' = released \ {x}
  /\ UNCHANGED <<managerVars, callerVars>>

-----------------------------------------------------------------------------
Transfer(c, k) == Join(c, k) \/ \E x \in Xfer : NewTransfer(c, k, x)
TryAgain(c) == Yield(c) \/ (pc[c] = "looking" /\ \E k \in Key : Transfer(c, k))
ManagerStep(x) == SeeInactive(x) \/ SeeDone(x) \/ Close(x)

Next ==
  \/ \E c \in Caller : Release(c) \/ Yield(c) \/ \E k \in Key : Transfer(c, k)
  \/ \E n \in Limits : SetConcurrency(n)
  \/ \E x \in Xfer : CloseInactive(x) \/ Finish(x) \/ ManagerStep(x) \/ Forget(x)

Spec == Init /\ [][Next]_vars

\* Goroutines run, a lock that is released again and again is obtained, and a
\* started transfer ends.
FairSpec ==
  /\ Spec
  /\ \A c \in Caller : SF_vars(TryAgain(c))
  /\ \A x \in Xfer : SF_vars(ManagerStep(x)) /\ WF_vars(Finish(x)) /\ WF_vars(Forget(x))

-----------------------------------------------------------------------------
(* Properties *)

\* The transfers that occupy a slot.
Holding == started \ returned

\* activeTransfers counts exactly the started transfers that have not given
\* their slot back: no slot leaks and none is given back twice, whichever of
\* inactive and Done the goroutine sees first.
SlotsExact == IsFiniteSet(Holding) /\ activeTransfers = Cardinality(Holding)

\* The queue holds exactly the transfers not started yet, each once, and while
\* it is not empty some transfer holds the slot that will be passed on.
QueueServed ==
  /\ ToSet(waitingTransfers) = {x \in Xfer : key[x] # None /\ x \notin started}
  /\ IsInjective(waitingTransfers)
  /\ waitingTransfers # <<>> => Holding # {}

\* Transfers of one key that have not ended: at most one, and it is the one
\* the map has, so that concurrent pulls of a layer share one download.
OnePerKey ==
  \A x, y \in Xfer : key[x] # None /\ key[x] = key[y] /\ x \notin done /\ y \notin done => x = y

\* released is closed only once the transfer is untracked and unwatched, so
\* the layer it holds is not released under a watcher, and not before Close,
\* whose own close of it would panic.
ReleasedAtEnd ==
  \A x \in released : x \in closed /\ Watchers(x) = {} /\ \A k \in Key : transfers[k] # x

\* A transfer that somebody watches is not cancelled, unless it had ended
\* being tracked.
WatchedNotCancelled ==
  \A c \in Caller : pc[c] = "watching" /\ xfer[c] \notin gone => xfer[c] \notin cancelled

\* What the callers of Transfer rely on: exact slots, a served queue, one
\* transfer per key, and none cancelled or released under a watcher.
TransfersSafe ==
  /\ SlotsExact /\ QueueServed /\ OnePerKey
  /\ ReleasedAtEnd /\ WatchedNotCancelled

TakesWithinLimit ==
  activeTransfers' > activeTransfers
    => concurrencyLimit = 0 \/ activeTransfers' <= concurrencyLimit

\* Starting a transfer never exceeds the limit in force: only giving back a
\* slot passes it on above a lowered limit.
LimitRespected == [][TakesWithinLimit]_vars

\* Every queued transfer starts, a cancelled one included: its function ends
\* only after start.
QueueMoves == \A x \in Xfer : key[x] # None ~> x \in started \/ key[x] = None

Releases == \E c \in Caller : Release(c)

\* A call that found a cancelled transfer returns with another one, unless
\* callers go on releasing for ever.
CallReturns ==
  <>[][~Releases]_vars => \A c \in Caller : pc[c] \in {"waitDone", "looking"} ~> pc[c] = "watching"
===========================================================================
