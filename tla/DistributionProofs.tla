------------------------- MODULE DistributionProofs -------------------------
(***************************************************************************)
(* TransferManager for any number of callers, keys and transfers and any   *)
(* limits: exact slots, a served queue, one transfer per key, and release  *)
(* only at the end.  BlobDownload for any size and number of attempts: only *)
(* the whole blob is handed on, and no temporary file is left.             *)
(***************************************************************************)
EXTENDS Distribution, FiniteSetTheorems, TLAPS

\* A free object has no history.
Fresh == \A x \in Xfer : key[x] = None =>
  /\ x \notin started /\ x \notin inactive /\ x \notin returned /\ x \notin cancelled
  /\ x \notin done /\ x \notin gone /\ x \notin closed /\ x \notin released

\* The order of a transfer's life.
Stages ==
  /\ inactive \subseteq started /\ returned \subseteq started /\ done \subseteq started
  /\ gone \subseteq done /\ gone \subseteq returned
  /\ closed \subseteq gone /\ released \subseteq closed

\* The map holds exactly the transfers the goroutine has not removed.
Tracked ==
  /\ \A x \in Xfer : key[x] # None /\ x \notin gone => transfers[key[x]] = x
  /\ \A k \in Key : transfers[k] # None => key[transfers[k]] = k /\ transfers[k] \notin gone

\* A caller inside Transfer or watching refers to an object in use.
Callers ==
  \A c \in Caller :
    /\ pc[c] \in {"waitDone", "watching"} => xfer[c] \in Xfer /\ key[xfer[c]] # None
    /\ pc[c] \in {"idle", "looking"} => xfer[c] = None

\* Nobody watches a released transfer.
ReleasedUnwatched == \A c \in Caller : pc[c] = "watching" => xfer[c] \notin released

\* The inductive invariant.  That a key has one transfer rests on the map,
\* the map on the order of a transfer's life, and the slots on the queue
\* holding nothing that was started.
IInv ==
  /\ TypeOK
  /\ Fresh
  /\ Stages
  /\ Tracked
  /\ Callers
  /\ WatchedNotCancelled
  /\ ReleasedUnwatched
  /\ QueueServed
  /\ SlotsExact

\* The queue in terms of positions, for the provers.
LEMMA QueueFacts ==
  ASSUME TypeOK, QueueServed, waitingTransfers # <<>>
  PROVE  /\ Head(waitingTransfers) \in Xfer
         /\ Head(waitingTransfers) \notin started
         /\ key[Head(waitingTransfers)] # None
         /\ Tail(waitingTransfers) \in Seq(Xfer)
         /\ ToSet(Tail(waitingTransfers)) = ToSet(waitingTransfers) \ {Head(waitingTransfers)}
         /\ IsInjective(Tail(waitingTransfers))
<1> DEFINE w == waitingTransfers
<1>1. w \in Seq(Xfer) /\ w # <<>> /\ IsInjective(w)
  BY DEF TypeOK, QueueServed
<1>2. Head(w) = w[1] /\ Head(w) \in Xfer /\ 1 \in DOMAIN w /\ Tail(w) \in Seq(Xfer)
  BY <1>1
<1>3. Head(w) \in ToSet(w)
  BY <1>2 DEF ToSet
<1>4. Head(w) \notin started /\ key[Head(w)] # None
  BY <1>3 DEF QueueServed
<1>5. /\ Len(Tail(w)) = Len(w) - 1
      /\ DOMAIN w = 1..Len(w) /\ DOMAIN Tail(w) = 1..Len(Tail(w))
      /\ Len(w) \in Nat
      /\ \A i \in 1..(Len(w) - 1) : Tail(w)[i] = w[i + 1]
  BY <1>1
<1>6. \A i, j \in DOMAIN w : w[i] = w[j] => i = j
  BY <1>1 DEF IsInjective
<1>7. IsInjective(Tail(w))
  BY <1>5, <1>6 DEF IsInjective
<1>8. ToSet(Tail(w)) = ToSet(w) \ {Head(w)}
  <2>1. ASSUME NEW y \in ToSet(Tail(w)) PROVE y \in ToSet(w) \ {Head(w)}
    BY <1>2, <1>5, <1>6 DEF ToSet
  <2>2. ASSUME NEW y \in ToSet(w), y # Head(w) PROVE y \in ToSet(Tail(w))
    <3>1. PICK i \in 1..Len(w) : y = w[i]
      BY <1>5 DEF ToSet
    <3>2. i - 1 \in 1..(Len(w) - 1) /\ Tail(w)[i - 1] = y
      BY <3>1, <2>2, <1>2, <1>5
    <3> QED
      BY <3>2, <1>5 DEF ToSet
  <2> QED
    BY <2>1, <2>2
<1> QED
  BY <1>2, <1>4, <1>7, <1>8

\* Appending an element that is not queued.
LEMMA QueueAppend ==
  ASSUME TypeOK, IsInjective(waitingTransfers), NEW x \in Xfer, x \notin ToSet(waitingTransfers)
  PROVE  /\ Append(waitingTransfers, x) \in Seq(Xfer)
         /\ Append(waitingTransfers, x) # <<>>
         /\ ToSet(Append(waitingTransfers, x)) = ToSet(waitingTransfers) \cup {x}
         /\ IsInjective(Append(waitingTransfers, x))
<1> DEFINE w == waitingTransfers
           a == Append(w, x)
<1>1. w \in Seq(Xfer)
  BY DEF TypeOK
<1>2. /\ a \in Seq(Xfer) /\ a # <<>> /\ Len(w) \in Nat
      /\ DOMAIN w = 1..Len(w) /\ DOMAIN a = 1..(Len(w) + 1)
      /\ \A i \in 1..Len(w) : a[i] = w[i]
      /\ a[Len(w) + 1] = x
  BY <1>1
<1>3. \A i, j \in 1..Len(w) : w[i] = w[j] => i = j
  BY <1>2 DEF IsInjective
<1>4. \A i \in 1..Len(w) : w[i] # x
  BY <1>2 DEF ToSet
<1>5. IsInjective(a)
  BY <1>2, <1>3, <1>4 DEF IsInjective
<1>6. ToSet(a) = ToSet(w) \cup {x}
  <2>1. \A y \in ToSet(a) : y \in ToSet(w) \cup {x}
    BY <1>2 DEF ToSet
  <2>2. \A y \in ToSet(w) : y \in ToSet(a)
    BY <1>2 DEF ToSet
  <2>3. x \in ToSet(a)
    BY <1>2 DEF ToSet
  <2> QED
    BY <2>1, <2>2, <2>3
<1> QED
  BY <1>2, <1>5, <1>6

\* Inactivate of a started transfer: what it starts was queued.
LEMMA InactivateStarts ==
  ASSUME TypeOK, QueueServed, NEW x \in Xfer, Inactivate(x)
  PROVE  /\ started \subseteq started' /\ started' \subseteq Xfer
         /\ \A y \in started' \ started : key[y] # None
         /\ waitingTransfers' \in Seq(Xfer)
<1>1. CASE x \notin started \/ waitingTransfers = <<>>
  BY <1>1 DEF Inactivate, TypeOK
<1>2. CASE x \in started /\ waitingTransfers # <<>>
  BY <1>2, QueueFacts DEF Inactivate, TypeOK
<1> QED
  BY <1>1, <1>2

\* The same for the whole of what the goroutine does with the slot.
LEMMA SlotStep ==
  ASSUME TypeOK, QueueServed, NEW x \in Xfer, SeeInactive(x) \/ SeeDone(x)
  PROVE  /\ started \subseteq started' /\ started' \subseteq Xfer
         /\ \A y \in started' \ started : key[y] # None
         /\ waitingTransfers' \in Seq(Xfer)
<1>1. CASE Inactivate(x)
  BY <1>1, InactivateStarts
<1>2. CASE UNCHANGED <<started, activeTransfers, waitingTransfers>>
  BY <1>2 DEF TypeOK
<1> QED
  BY <1>1, <1>2 DEF SeeInactive, SeeDone

\* The initial state satisfies the inductive invariant.
LEMMA InitIInv == Init => IInv
<1> SUFFICES ASSUME Init PROVE IInv
  OBVIOUS
<1> USE TransferAssumption DEF Init
<1>1. TypeOK
  BY DEF TypeOK
<1>2. Fresh /\ Stages /\ Tracked /\ Callers /\ WatchedNotCancelled /\ ReleasedUnwatched
  BY DEF Fresh, Stages, Tracked, Callers, WatchedNotCancelled, ReleasedUnwatched
<1>3. QueueServed
  BY DEF QueueServed, ToSet, IsInjective
<1>4. SlotsExact
  <2>1. Holding = {}
    BY DEF Holding
  <2> QED
    BY <2>1, FS_EmptySet DEF SlotsExact
<1> QED
  BY <1>1, <1>2, <1>3, <1>4 DEF IInv

\* Everything but the slots and the queue is preserved by what callers do.
LEMMA CallerStep ==
  ASSUME IInv, NEW c \in Caller,
         Release(c) \/ Yield(c) \/ (\E k \in Key : Join(c, k))
  PROVE  /\ Fresh' /\ Stages' /\ Tracked' /\ Callers'
         /\ WatchedNotCancelled' /\ ReleasedUnwatched'
<1> USE TransferAssumption DEF IInv, TypeOK, managerVars, xferVars
<1>1. CASE Release(c)
  <2> USE <1>1 DEF Release
  <2>1. Fresh' /\ Callers'
    BY DEF Fresh, Callers, Stages
  <2>2. Stages' /\ Tracked'
    BY DEF Stages, Tracked
  <2>3. WatchedNotCancelled' /\ ReleasedUnwatched'
    BY DEF WatchedNotCancelled, ReleasedUnwatched, Watchers
  <2> QED
    BY <2>1, <2>2, <2>3
<1>2. ASSUME NEW k \in Key, Join(c, k)
      PROVE  /\ Fresh' /\ Stages' /\ Tracked' /\ Callers'
             /\ WatchedNotCancelled' /\ ReleasedUnwatched'
  <2> USE <1>2 DEF Join
  <2>1. Fresh' /\ Stages' /\ Tracked'
    BY DEF Fresh, Stages, Tracked
  <2>2. transfers[k] \in Xfer /\ key[transfers[k]] # None /\ transfers[k] \notin gone
    BY DEF Tracked
  <2>3. Callers'
    BY <2>2 DEF Callers
  <2>4. WatchedNotCancelled' /\ ReleasedUnwatched'
    BY <2>2 DEF WatchedNotCancelled, ReleasedUnwatched, Stages
  <2> QED
    BY <2>1, <2>3, <2>4
<1>3. CASE Yield(c)
  BY <1>3 DEF Yield, Fresh, Stages, Tracked, Callers, WatchedNotCancelled, ReleasedUnwatched
<1> QED
  BY <1>1, <1>2, <1>3

\* A new transfer is an object without history and becomes its key's.
LEMMA NewStep ==
  ASSUME IInv, NEW c \in Caller, NEW k \in Key, NEW x \in Xfer, NewTransfer(c, k, x)
  PROVE  /\ Fresh' /\ Stages' /\ Tracked' /\ Callers'
         /\ WatchedNotCancelled' /\ ReleasedUnwatched'
<1> USE TransferAssumption DEF IInv, TypeOK, NewTransfer
<1>1. started \subseteq started' /\ started' \subseteq started \cup {x}
  OBVIOUS
<1>2. x \notin gone /\ x \notin cancelled /\ x \notin released
  BY DEF Fresh
<1>3. Fresh' /\ Stages'
  BY <1>1 DEF Fresh, Stages
<1>4. Tracked'
  BY <1>2 DEF Tracked
<1>5. Callers'
  BY DEF Callers
<1>6. WatchedNotCancelled' /\ ReleasedUnwatched'
  BY <1>2 DEF WatchedNotCancelled, ReleasedUnwatched, Callers
<1> QED
  BY <1>3, <1>4, <1>5, <1>6

\* And by what a transfer and its goroutine do.
LEMMA XferStep ==
  ASSUME IInv, NEW x \in Xfer,
         CloseInactive(x) \/ Finish(x) \/ SeeInactive(x) \/ SeeDone(x) \/ Close(x) \/ Forget(x)
  PROVE  /\ Fresh' /\ Stages' /\ Tracked' /\ Callers'
         /\ WatchedNotCancelled' /\ ReleasedUnwatched'
<1> USE TransferAssumption DEF IInv, managerVars, callerVars
<1>1. CASE CloseInactive(x)
  BY <1>1 DEF CloseInactive, TypeOK, Fresh, Stages, Tracked, Callers, WatchedNotCancelled,
              ReleasedUnwatched
<1>2. CASE Finish(x)
  BY <1>2 DEF Finish, TypeOK, Fresh, Stages, Tracked, Callers, WatchedNotCancelled,
              ReleasedUnwatched
<1>3. CASE SeeInactive(x)
  <2>1. started \subseteq started' /\ \A y \in started' \ started : key[y] # None
    BY <1>3, SlotStep
  <2>2. x \in started
    BY <1>3 DEF SeeInactive, Stages
  <2> QED
    BY <1>3, <2>1, <2>2 DEF SeeInactive, TypeOK, Fresh, Stages, Tracked, Callers,
       WatchedNotCancelled, ReleasedUnwatched
<1>4. CASE SeeDone(x)
  <2>1. started \subseteq started' /\ \A y \in started' \ started : key[y] # None
    BY <1>4, SlotStep
  <2>2. x \in started /\ key[x] # None /\ key[x] \in Key /\ transfers[key[x]] = x
    BY <1>4 DEF SeeDone, Stages, Fresh, Tracked, TypeOK
  <2>3. Fresh' /\ Stages'
    BY <1>4, <2>1, <2>2 DEF SeeDone, TypeOK, Fresh, Stages
  <2>4. Tracked'
    BY <1>4, <2>2 DEF SeeDone, TypeOK, Tracked
  <2>5. Callers' /\ WatchedNotCancelled' /\ ReleasedUnwatched'
    BY <1>4 DEF SeeDone, TypeOK, Callers, WatchedNotCancelled, ReleasedUnwatched
  <2> QED
    BY <2>3, <2>4, <2>5
<1>5. CASE Close(x)
  <2>1. Fresh' /\ Stages' /\ Tracked' /\ Callers' /\ WatchedNotCancelled'
    BY <1>5 DEF Close, TypeOK, Fresh, Stages, Tracked, Callers, WatchedNotCancelled
  <2>2. ReleasedUnwatched'
    BY <1>5 DEF Close, ReleasedUnwatched, Watchers
  <2> QED
    BY <2>1, <2>2
<1>6. CASE Forget(x)
  <2>1. x \in gone /\ \A k \in Key : transfers[k] # x
    BY <1>6 DEF Forget, Stages, Tracked
  <2>2. Fresh' /\ Stages' /\ Callers' /\ WatchedNotCancelled' /\ ReleasedUnwatched'
    BY <1>6 DEF Forget, TypeOK, Fresh, Stages, Callers, WatchedNotCancelled, ReleasedUnwatched
  <2>3. Tracked'
    BY <1>6, <2>1 DEF Forget, TypeOK, Tracked
  <2> QED
    BY <2>2, <2>3
<1> QED
  BY <1>1, <1>2, <1>3, <1>4, <1>5, <1>6
\* Next, one action after the other.
LEMMA NextCases ==
  ASSUME [Next]_vars
  PROVE  \/ \E c \in Caller : Release(c) \/ Yield(c) \/ (\E k \in Key : Join(c, k))
         \/ \E c \in Caller, k \in Key, x \in Xfer : NewTransfer(c, k, x)
         \/ \E n \in Limits : SetConcurrency(n)
         \/ \E x \in Xfer : CloseInactive(x) \/ Finish(x) \/ Close(x) \/ Forget(x)
         \/ \E x \in Xfer : SeeInactive(x) \/ SeeDone(x)
         \/ UNCHANGED vars
BY DEF Next, Transfer, ManagerStep

\* Every step keeps the order of a transfer's life and the callers' view of it.
LEMMA HistoryStep ==
  ASSUME IInv, [Next]_vars
  PROVE  /\ Fresh' /\ Stages' /\ Tracked' /\ Callers'
         /\ WatchedNotCancelled' /\ ReleasedUnwatched'
<1>1. CASE \E c \in Caller : Release(c) \/ Yield(c) \/ (\E k \in Key : Join(c, k))
  BY <1>1, CallerStep
<1>2. CASE \E c \in Caller, k \in Key, x \in Xfer : NewTransfer(c, k, x)
  BY <1>2, NewStep
<1>3. CASE \/ \E x \in Xfer : CloseInactive(x) \/ Finish(x) \/ Close(x) \/ Forget(x)
           \/ \E x \in Xfer : SeeInactive(x) \/ SeeDone(x)
  BY <1>3, XferStep
<1>4. CASE (\E n \in Limits : SetConcurrency(n)) \/ UNCHANGED vars
  BY <1>4 DEF SetConcurrency, vars, managerVars, xferVars, callerVars, IInv, Fresh, Stages, Tracked,
     Callers, WatchedNotCancelled, ReleasedUnwatched
<1> QED
  BY <1>1, <1>2, <1>3, <1>4, NextCases

\* The steps that touch neither the slots nor the queue.
LEMMA SlotsUntouched ==
  ASSUME IInv,
         \/ \E c \in Caller : Release(c) \/ Yield(c) \/ (\E k \in Key : Join(c, k))
         \/ \E n \in Limits : SetConcurrency(n)
         \/ \E x \in Xfer : CloseInactive(x) \/ Finish(x) \/ Close(x)
         \/ UNCHANGED vars
  PROVE  UNCHANGED <<activeTransfers, waitingTransfers, key, started, returned>>
<1>1. ASSUME NEW c \in Caller, Release(c) \/ Yield(c) \/ (\E k \in Key : Join(c, k))
      PROVE  UNCHANGED <<activeTransfers, waitingTransfers, key, started, returned>>
  BY <1>1 DEF Release, Yield, Join, managerVars, xferVars
<1>2. ASSUME NEW x \in Xfer, CloseInactive(x) \/ Finish(x) \/ Close(x)
      PROVE  UNCHANGED <<activeTransfers, waitingTransfers, key, started, returned>>
  BY <1>2 DEF CloseInactive, Finish, Close, managerVars
<1>3. CASE (\E n \in Limits : SetConcurrency(n)) \/ UNCHANGED vars
  BY <1>3 DEF SetConcurrency, vars, managerVars, xferVars
<1> QED
  BY <1>1, <1>2, <1>3

\* A new transfer takes a free slot or a place in the queue.
LEMMA NewSlots ==
  ASSUME IInv, NEW c \in Caller, NEW k \in Key, NEW x \in Xfer, NewTransfer(c, k, x)
  PROVE  QueueServed' /\ SlotsExact' /\ activeTransfers' \in Nat /\ waitingTransfers' \in Seq(Xfer)
<1> USE TransferAssumption DEF IInv
<1>1. /\ x \notin started /\ x \notin returned /\ key[x] = None
      /\ key' = [key EXCEPT ![x] = k] /\ returned' = returned
      /\ key \in [Xfer -> Key \cup {None}] /\ k # None
  BY DEF NewTransfer, Fresh, TypeOK
<1>2. x \notin ToSet(waitingTransfers) /\ IsInjective(waitingTransfers)
  BY <1>1 DEF QueueServed
<1>3. CASE SlotFree
  <2>1. /\ started' = started \cup {x} /\ waitingTransfers' = waitingTransfers
        /\ activeTransfers' = activeTransfers + 1
    BY <1>3 DEF NewTransfer
  <2>2. Holding' = Holding \cup {x} /\ x \notin Holding
    BY <2>1, <1>1 DEF Holding
  <2>3. SlotsExact'
    BY <2>1, <2>2, FS_AddElement DEF SlotsExact
  <2>4. QueueServed'
    BY <2>1, <2>2, <1>1 DEF QueueServed
  <2> QED
    BY <2>1, <2>3, <2>4 DEF TypeOK
<1>4. CASE ~SlotFree
  <2>1. /\ started' = started /\ waitingTransfers' = Append(waitingTransfers, x)
        /\ activeTransfers' = activeTransfers
    BY <1>4 DEF NewTransfer
  <2>2. Holding' = Holding
    BY <2>1, <1>1 DEF Holding
  <2>3. activeTransfers # 0
    BY <1>4 DEF SlotFree, TypeOK
  <2>4. Holding # {}
    BY <2>3, FS_EmptySet DEF SlotsExact
  <2>5. SlotsExact'
    BY <2>1, <2>2 DEF SlotsExact
  <2>6. /\ waitingTransfers' \in Seq(Xfer) /\ IsInjective(waitingTransfers')
        /\ ToSet(waitingTransfers') = ToSet(waitingTransfers) \cup {x}
    BY <2>1, <1>2, QueueAppend
  <2>7. QueueServed'
    BY <2>1, <2>2, <2>4, <2>6, <1>1 DEF QueueServed
  <2> QED
    BY <2>1, <2>5, <2>6, <2>7 DEF TypeOK
<1> QED
  BY <1>3, <1>4

\* A slot that comes back goes to the head of the queue, or is free.
LEMMA ReturnSlots ==
  ASSUME IInv, NEW x \in Xfer, SeeInactive(x) \/ SeeDone(x)
  PROVE  QueueServed' /\ SlotsExact' /\ activeTransfers' \in Nat /\ waitingTransfers' \in Seq(Xfer)
<1> USE TransferAssumption DEF IInv
<1>1. x \in started /\ returned' = returned \cup {x} /\ key' = key
  BY DEF SeeInactive, SeeDone, Stages
<1>2. CASE x \in returned
  <2>1. UNCHANGED <<started, activeTransfers, waitingTransfers>> /\ Holding' = Holding
    BY <1>1, <1>2 DEF SeeInactive, SeeDone, Holding
  <2> QED
    BY <2>1, <1>1 DEF TypeOK, QueueServed, SlotsExact
<1>3. CASE x \notin returned
  <2>1. Inactivate(x) /\ x \in Holding
    BY <1>1, <1>3 DEF SeeInactive, SeeDone, Holding
  <2>2. /\ IsFiniteSet(Holding \ {x}) /\ Cardinality(Holding \ {x}) = activeTransfers - 1
        /\ activeTransfers # 0
    BY <2>1, FS_RemoveElement, FS_EmptySet DEF SlotsExact
  <2>3. CASE waitingTransfers # <<>>
    <3> DEFINE h == Head(waitingTransfers)
    <3>1. /\ started' = started \cup {h} /\ waitingTransfers' = Tail(waitingTransfers)
          /\ activeTransfers' = activeTransfers
      BY <2>1, <2>3, <1>1 DEF Inactivate
    <3>2. /\ h \in Xfer /\ h \notin started /\ key[h] # None
          /\ waitingTransfers' \in Seq(Xfer) /\ IsInjective(waitingTransfers')
          /\ ToSet(waitingTransfers') = ToSet(waitingTransfers) \ {h}
      BY <3>1, <2>3, QueueFacts
    <3>3. h \notin returned
      BY <3>2 DEF Stages
    <3>4. Holding' = (Holding \ {x}) \cup {h} /\ h \notin Holding
      BY <3>1, <3>2, <3>3, <1>1 DEF Holding
    <3> HIDE DEF h
    <3>5. SlotsExact'
      <4>1. IsFiniteSet(Holding') /\ Cardinality(Holding') = activeTransfers - 1 + 1
        BY <3>4, <2>2, FS_AddElement
      <4> QED
        BY <4>1, <3>1 DEF SlotsExact, TypeOK
    <3>6. QueueServed'
      BY <3>1, <3>2, <3>4, <1>1 DEF QueueServed
    <3> QED
      BY <3>1, <3>2, <3>5, <3>6 DEF TypeOK
  <2>4. CASE waitingTransfers = <<>>
    <3>1. started' = started /\ waitingTransfers' = <<>> /\ activeTransfers' = activeTransfers - 1
      BY <2>1, <2>4, <1>1 DEF Inactivate
    <3>2. Holding' = Holding \ {x}
      BY <3>1, <1>1 DEF Holding
    <3>3. SlotsExact'
      BY <3>1, <3>2, <2>2 DEF SlotsExact
    <3>4. QueueServed'
      BY <3>1, <2>4, <1>1 DEF QueueServed
    <3> QED
      BY <3>1, <3>3, <3>4, <2>2, <2>4 DEF TypeOK
  <2> QED
    BY <2>3, <2>4
<1> QED
  BY <1>2, <1>3
\* Every step keeps the types, the slots and the queue.
LEMMA SlotsAndTypes ==
  ASSUME IInv, [Next]_vars
  PROVE  TypeOK' /\ QueueServed' /\ SlotsExact'
<1> USE DEF IInv
<1>1. QueueServed' /\ SlotsExact' /\ activeTransfers' \in Nat /\ waitingTransfers' \in Seq(Xfer)
  <2>1. CASE UNCHANGED <<activeTransfers, waitingTransfers, key, started, returned>>
    BY <2>1 DEF QueueServed, SlotsExact, Holding, TypeOK
  <2>2. CASE \E c \in Caller, k \in Key, x \in Xfer : NewTransfer(c, k, x)
    BY <2>2, NewSlots
  <2>3. CASE \E x \in Xfer : SeeInactive(x) \/ SeeDone(x)
    BY <2>3, ReturnSlots
  <2>4. ASSUME NEW x \in Xfer, Forget(x)
        PROVE  /\ QueueServed' /\ SlotsExact'
               /\ activeTransfers' \in Nat /\ waitingTransfers' \in Seq(Xfer)
    <3>1. x \in started /\ x \in returned
      BY <2>4 DEF Forget, Stages
    <3>2. /\ UNCHANGED <<activeTransfers, waitingTransfers>>
          /\ key' = [key EXCEPT ![x] = None]
          /\ started' = started \ {x} /\ returned' = returned \ {x}
      BY <2>4 DEF Forget, managerVars
    <3>3. Holding' = Holding
      BY <3>1, <3>2 DEF Holding
    <3>4. SlotsExact'
      BY <3>2, <3>3 DEF SlotsExact
    <3>5. QueueServed'
      BY <3>1, <3>2, <3>3 DEF QueueServed, TypeOK
    <3> QED
      BY <3>2, <3>4, <3>5 DEF TypeOK
  <2>5. CASE \E x \in Xfer : CloseInactive(x) \/ Finish(x) \/ Close(x) \/ Forget(x)
    BY <2>1, <2>4, <2>5, SlotsUntouched
  <2>6. CASE \/ \E c \in Caller : Release(c) \/ Yield(c) \/ (\E k \in Key : Join(c, k))
             \/ \E n \in Limits : SetConcurrency(n)
             \/ UNCHANGED vars
    BY <2>1, <2>6, SlotsUntouched
  <2> QED
    BY <2>2, <2>3, <2>5, <2>6, NextCases
<1>2. TypeOK'
  <2>1. ASSUME NEW c \in Caller, Release(c) \/ Yield(c) \/ (\E k \in Key : Join(c, k))
        PROVE  TypeOK'
    <3>1. CASE Release(c)
      BY <3>1 DEF Release, TypeOK, managerVars, Callers
    <3>2. CASE Yield(c)
      BY <3>2 DEF Yield, TypeOK, managerVars, xferVars, Callers
    <3>3. CASE \E k \in Key : Join(c, k)
      BY <3>3 DEF Join, TypeOK, managerVars, xferVars
    <3> QED
      BY <2>1, <3>1, <3>2, <3>3
  <2>2. ASSUME NEW c \in Caller, NEW k \in Key, NEW x \in Xfer, NewTransfer(c, k, x)
        PROVE  TypeOK'
    BY <2>2, <1>1 DEF NewTransfer, TypeOK
  <2>3. ASSUME NEW x \in Xfer, SeeInactive(x) \/ SeeDone(x)
        PROVE  TypeOK'
    <3>1. started' \subseteq Xfer
      BY <2>3, SlotStep
    <3> QED
      BY <2>3, <3>1, <1>1 DEF SeeInactive, SeeDone, TypeOK, callerVars
  <2>4. ASSUME NEW x \in Xfer, CloseInactive(x) \/ Finish(x) \/ Close(x) \/ Forget(x)
        PROVE  TypeOK'
    <3>1. CASE CloseInactive(x) \/ Finish(x) \/ Close(x)
      BY <3>1 DEF CloseInactive, Finish, Close, TypeOK, managerVars, callerVars
    <3>2. CASE Forget(x)
      BY <3>2 DEF Forget, TypeOK, managerVars, callerVars
    <3> QED
      BY <2>4, <3>1, <3>2
  <2>5. CASE (\E n \in Limits : SetConcurrency(n)) \/ UNCHANGED vars
    BY <2>5 DEF SetConcurrency, TypeOK, vars, managerVars, xferVars, callerVars
  <2> QED
    BY <2>1, <2>2, <2>3, <2>4, <2>5, NextCases
<1> QED
  BY <1>1, <1>2

\* Every step preserves the inductive invariant.
LEMMA NextIInv == IInv /\ [Next]_vars => IInv'
  BY HistoryStep, SlotsAndTypes DEF IInv

\* The inductive invariant holds in every reachable state.
THEOREM XferInvariant == Spec => []IInv
  BY InitIInv, NextIInv, PTL DEF Spec

\* Slots are counted exactly: inactivate gives every started transfer's slot
\* back once, whichever channel its goroutine sees first.
THEOREM XferSlotsExact == Spec => []SlotsExact
<1>1. IInv => SlotsExact
  BY DEF IInv
<1> QED
  BY <1>1, XferInvariant, PTL

\* The queue holds each unstarted transfer once, and while it is not empty a
\* transfer holds the slot that inactivate will pass on.
THEOREM XferQueueServed == Spec => []QueueServed
<1>1. IInv => QueueServed
  BY DEF IInv
<1> QED
  BY <1>1, XferInvariant, PTL

\* Callers of Transfer with the same key share one running transfer.
THEOREM XferOnePerKey == Spec => []OnePerKey
<1>1. IInv => OnePerKey
  BY DEF IInv, OnePerKey, Tracked, Stages
<1> QED
  BY <1>1, XferInvariant, PTL

\* released is closed only after Close, and with no watcher left.
THEOREM XferReleasedAtEnd == Spec => []ReleasedAtEnd
<1>1. IInv => ReleasedAtEnd
  BY TransferAssumption DEF IInv, TypeOK, ReleasedAtEnd, ReleasedUnwatched, Watchers, Tracked, Stages
<1> QED
  BY <1>1, XferInvariant, PTL

\* A tracked transfer somebody watches is not cancelled.
THEOREM XferWatchedNotCancelled == Spec => []WatchedNotCancelled
<1>1. IInv => WatchedNotCancelled
  BY DEF IInv
<1> QED
  BY <1>1, XferInvariant, PTL

\* Everything the callers of Transfer rely on, at once.
THEOREM XferSafe == Spec => []TransfersSafe
  BY XferSlotsExact, XferQueueServed, XferOnePerKey, XferReleasedAtEnd,
     XferWatchedNotCancelled, PTL DEF TransfersSafe

\* No step takes a slot beyond the limit in force, whatever SetConcurrency
\* has done before.
THEOREM XferLimitRespected == Spec => LimitRespected
<1>1. ASSUME IInv, [Next]_vars PROVE TakesWithinLimit
  <2> USE DEF IInv, TakesWithinLimit
  <2>1. CASE activeTransfers' = activeTransfers
    BY <1>1, <2>1 DEF TypeOK
  <2>2. CASE \E c \in Caller, k \in Key, x \in Xfer : NewTransfer(c, k, x)
    BY <1>1, <2>2, TransferAssumption DEF NewTransfer, SlotFree, TypeOK
  <2>3. CASE \E x \in Xfer : SeeInactive(x) \/ SeeDone(x)
    BY <1>1, <2>3 DEF SeeInactive, SeeDone, Inactivate, TypeOK
  <2>4. CASE \E x \in Xfer : CloseInactive(x) \/ Finish(x) \/ Close(x) \/ Forget(x)
    BY <1>1, <2>4, <2>1 DEF CloseInactive, Finish, Close, Forget, managerVars
  <2>5. CASE \/ \E c \in Caller : Release(c) \/ Yield(c) \/ (\E k \in Key : Join(c, k))
             \/ \E n \in Limits : SetConcurrency(n)
             \/ UNCHANGED vars
    BY <1>1, <2>1, <2>5, SlotsUntouched
  <2> QED
    BY <1>1, <2>2, <2>3, <2>4, <2>5, NextCases
<1>2. IInv /\ [Next]_vars => [TakesWithinLimit]_vars
  BY <1>1
<1> QED
  BY <1>2, XferInvariant, PTL DEF Spec, LimitRespected

-----------------------------------------------------------------------------
(* distribution/pull_v2.go: the download of a blob                         *)

Blob == [len |-> Size, good |-> TRUE]

\* The parts of the state that decide what becomes of the temporary file.
BlobTypes ==
  /\ phase \in {"start", "open", "copy", "verify", "retry", "handed", "failed", "over"}
  /\ file \in [len : Nat, good : BOOLEAN]
  /\ verifier \in [len : Nat, good : BOOLEAN]
  /\ offset \in Nat

\* The descriptor has its temporary file from the first attempt to the end, and
\* the file is on disk as long as the descriptor or the download manager has it.
TmpInv ==
  /\ BlobTypes
  /\ phase \in {"open", "copy", "verify", "retry"} => file # Blobs!NoFile
  /\ phase # "over" => tmp = IF file # Blobs!NoFile \/ phase = "handed" THEN 1 ELSE 0
  /\ phase = "over" => tmp = 0

InStep == verifier = file \/ (verifier = Blobs!NoFile /\ file = Blobs!Empty)

\* Without local failures the hash covers what the file holds at every step.
SyncInv ==
  /\ phase \in {"open", "copy", "retry"} => InStep
  /\ phase = "verify" => verifier = file
  /\ phase = "start" => file = Blobs!NoFile /\ verifier = Blobs!NoFile
  /\ phase = "handed" => result = Blob

\* Before the first attempt there is neither file nor hash.
LEMMA BlobInit == Blobs!Init => TmpInv /\ SyncInv
BY DEF Blobs!Init, TmpInv, SyncInv, BlobTypes, Blobs!NoFile

\* An empty file of the blob is a file.
LEMMA NoFileIsEmptyNot == Blobs!NoFile # Blobs!Empty /\ Blobs!NoFile \in [len : Nat, good : BOOLEAN] /\ Blobs!Empty \in [len : Nat, good : BOOLEAN]
BY Zenon DEF Blobs!NoFile, Blobs!Empty

\* What was received is in the file and, if all of it was written, in the hash.
LEMMA ReceivedKeeps ==
  ASSUME BlobTypes, file # Blobs!NoFile, NEW n \in Nat, NEW w \in Nat, NEW g \in BOOLEAN, Blobs!Received(n, w, g)
  PROVE  /\ file' \in [len : Nat, good : BOOLEAN]
         /\ verifier' \in [len : Nat, good : BOOLEAN]
         /\ file' # Blobs!NoFile
         /\ InStep /\ w = n /\ (n = 0 => g) => verifier' = file'
<1> DEFINE v == IF verifier = Blobs!NoFile THEN Blobs!Empty ELSE verifier
<1>1. v \in [len : Nat, good : BOOLEAN] /\ file \in [len : Nat, good : BOOLEAN]
  BY Zenon, NoFileIsEmptyNot DEF BlobTypes
<1>2. verifier' = [len |-> v.len + n, good |-> v.good /\ g /\ (n > 0 => v.len = file.len)]
  BY Zenon DEF Blobs!Received
<1>3. file' = [len |-> file.len + w, good |-> file.good /\ (g \/ w = 0)]
  BY Zenon DEF Blobs!Received
<1>4. InStep => v = file
  BY Zenon, NoFileIsEmptyNot DEF InStep
<1>5. file.len = 0 => file.good
  <2>1. file = [len |-> file.len, good |-> file.good]
    BY Zenon, <1>1
  <2>2. QED
    BY Zenon, <2>1, <1>1 DEF Blobs!NoFile
<1> HIDE DEF v
<1>6. file.len \in Nat /\ file.good \in BOOLEAN /\ v.len \in Nat /\ v.good \in BOOLEAN
  BY Zenon, <1>1
<1>7. file.len + w \in Nat /\ v.len + n \in Nat
  BY <1>6
<1>8. file' \in [len : Nat, good : BOOLEAN]
  BY Zenon, <1>3, <1>6, <1>7
<1>9. verifier' \in [len : Nat, good : BOOLEAN]
  BY Zenon, <1>2, <1>6, <1>7
<1>10. file' # Blobs!NoFile
  <2>1. SUFFICES ASSUME file.len + w = 0 PROVE file'.good
    BY Zenon, <1>3, <1>6 DEF Blobs!NoFile
  <2>2. file.len = 0 /\ w = 0
    BY <2>1, <1>6
  <2>3. QED
    BY Zenon, <2>2, <1>3, <1>5
<1>11. ASSUME InStep, w = n, n = 0 => g PROVE verifier' = file'
  <2>1. v.len = file.len /\ (v.good <=> file.good)
    BY Zenon, <1>4, <1>11
  <2>2. v.len + n = file.len + w
    BY Zenon, <2>1, <1>11
  <2>3. (v.good /\ g /\ (n > 0 => v.len = file.len)) <=> (file.good /\ (g \/ w = 0))
    BY Zenon, <2>1, <1>11
  <2>4. QED
    BY Zenon, <2>2, <2>3, <1>2, <1>3
<1>12. QED
  BY Zenon, <1>8, <1>9, <1>10, <1>11

\* Download creates the temporary file on the first attempt only.
LEMMA BeginKeeps ==
  ASSUME Blobs!BlobParameters, TmpInv, Blobs!Begin PROVE TmpInv' /\ (Blobs!BlobFaultless /\ SyncInv => SyncInv')
<1>1. TmpInv'
  BY NoFileIsEmptyNot DEF TmpInv, BlobTypes, Blobs!Begin, Blobs!DoNotRetry
<1>2. ASSUME Blobs!BlobFaultless, SyncInv PROVE SyncInv'
  BY Zenon, <1>2, NoFileIsEmptyNot DEF TmpInv, SyncInv, InStep, Blobs!BlobFaultless, Blobs!Begin, Blobs!DoNotRetry
<1>3. QED
  BY Zenon, <1>1, <1>2

\* The attempt goes on at the end of the file, or starts over with file and hash.
LEMMA OpenKeeps ==
  ASSUME Blobs!BlobParameters, TmpInv, Blobs!Open PROVE TmpInv' /\ (Blobs!BlobFaultless /\ SyncInv => SyncInv')
<1> USE DEF Blobs!Open, Blobs!StartOver, Blobs!truncateDownloadFile, Blobs!truncateFails, Blobs!Again, Blobs!DoNotRetry
<1>1. TmpInv'
  BY NoFileIsEmptyNot DEF TmpInv, BlobTypes
<1>2. ASSUME Blobs!BlobFaultless, SyncInv PROVE SyncInv'
  BY Zenon, <1>2, NoFileIsEmptyNot DEF TmpInv, SyncInv, InStep, Blobs!BlobFaultless
<1>3. QED
  BY Zenon, <1>1, <1>2

\* io.Copy through the tee: the hash gets what the file gets.
LEMMA CopyKeeps ==
  ASSUME Blobs!BlobParameters, TmpInv, Blobs!Copy PROVE TmpInv' /\ (Blobs!BlobFaultless /\ SyncInv => SyncInv')
<1>1. phase = "copy" /\ file # Blobs!NoFile /\ BlobTypes /\ tmp = 1 /\ tmp' = tmp /\ offset' = offset
  BY Zenon DEF TmpInv, Blobs!Copy
<1>2. CASE Blobs!StartOver
  <2> USE DEF Blobs!StartOver, Blobs!truncateDownloadFile, Blobs!truncateFails, Blobs!Again, Blobs!DoNotRetry
  <2>1. TmpInv'
    BY <1>1, <1>2, NoFileIsEmptyNot DEF TmpInv, BlobTypes
  <2>2. ASSUME Blobs!BlobFaultless, SyncInv PROVE SyncInv'
    BY Zenon, <1>1, <1>2, <2>2, NoFileIsEmptyNot DEF SyncInv, InStep, Blobs!BlobFaultless
  <2>3. QED
    BY <2>1, <2>2
<1>3. ASSUME NEW n \in 0..Size + 1 - file.len, NEW g \in BOOLEAN, n = 0 => g,
             Blobs!Received(n, n, g), phase' \in {"verify", "retry", "failed"}
      PROVE  TmpInv' /\ (Blobs!BlobFaultless /\ SyncInv => SyncInv')
  <2>1. n \in Nat
    BY <1>3
  <2>2. /\ file' \in [len : Nat, good : BOOLEAN]
        /\ verifier' \in [len : Nat, good : BOOLEAN]
        /\ file' # Blobs!NoFile
        /\ InStep => verifier' = file'
    BY Zenon, <1>1, <1>3, <2>1, ReceivedKeeps
  <2>3. TmpInv'
    BY Zenon, <1>1, <1>3, <2>2 DEF TmpInv, BlobTypes
  <2>4. SyncInv => SyncInv'
    BY Zenon, <1>1, <1>3, <2>2 DEF SyncInv, InStep
  <2>5. QED
    BY Zenon, <2>3, <2>4
<1>4. ASSUME NEW n \in 0..Size + 1 - file.len, NEW g \in BOOLEAN, "writefails" \in Ops, n > 0, Blobs!Received(n, n - 1, g), Blobs!Again
      PROVE  TmpInv' /\ (Blobs!BlobFaultless /\ SyncInv => SyncInv')
  <2>1. n \in Nat /\ n - 1 \in Nat
    BY <1>4
  <2>2. /\ file' \in [len : Nat, good : BOOLEAN]
        /\ verifier' \in [len : Nat, good : BOOLEAN]
        /\ file' # Blobs!NoFile
    BY Zenon, <1>1, <1>4, <2>1, ReceivedKeeps
  <2>3. TmpInv'
    BY Zenon, <1>1, <1>4, <2>2 DEF TmpInv, BlobTypes, Blobs!Again
  <2>4. QED
    BY Zenon, <2>3, <1>4 DEF Blobs!BlobFaultless
<1>5. QED
  BY Zenon, <1>2, <1>3, <1>4 DEF Blobs!Copy, Blobs!Again, Blobs!DoNotRetry

\* A blob that the hash verifies is handed over, another one makes the download start over.
LEMMA VerifyKeeps ==
  ASSUME Blobs!BlobParameters, TmpInv, Blobs!Verify PROVE TmpInv' /\ (Blobs!BlobFaultless /\ SyncInv => SyncInv')
<1> USE DEF Blobs!Verify, Blobs!StartOver, Blobs!truncateDownloadFile, Blobs!truncateFails, Blobs!Again, Blobs!DoNotRetry
<1>1. TmpInv'
  BY Zenon, NoFileIsEmptyNot DEF TmpInv, BlobTypes
<1>2. ASSUME Blobs!BlobFaultless, SyncInv PROVE SyncInv'
  BY Zenon, <1>2, NoFileIsEmptyNot DEF TmpInv, SyncInv, InStep, Blobs!BlobFaultless, Blobs!Verified, Blob
<1>3. QED
  BY Zenon, <1>1, <1>2

\* Cancellation fails the download, and Close removes the file.
LEMMA EndKeeps ==
  ASSUME Blobs!BlobParameters, TmpInv, Blobs!Cancel \/ Blobs!Close PROVE TmpInv' /\ (Blobs!BlobFaultless /\ SyncInv => SyncInv')
<1>1. TmpInv'
  BY Zenon DEF TmpInv, BlobTypes, Blobs!Cancel, Blobs!Close, Blobs!DoNotRetry
<1>2. SyncInv => SyncInv'
  BY Zenon DEF TmpInv, SyncInv, Blobs!Cancel, Blobs!Close, Blobs!DoNotRetry
<1>3. QED
  BY Zenon, <1>1, <1>2

\* TmpInv is inductive, and SyncInv with it when the file system does not fail.
LEMMA BlobStep ==
  ASSUME Blobs!BlobParameters, TmpInv, [Blobs!Next]_(Blobs!vars) PROVE TmpInv' /\ (Blobs!BlobFaultless /\ SyncInv => SyncInv')
<1>1. CASE UNCHANGED Blobs!vars
  BY Zenon, <1>1 DEF Blobs!vars, TmpInv, BlobTypes, SyncInv, InStep
<1>2. QED
  BY Zenon, <1>1, BeginKeeps, OpenKeeps, CopyKeeps, VerifyKeeps, EndKeeps DEF Blobs!Next

\* However the attempts of a download end, Close and the download manager leave no
\* temporary file, also when seeking or writing fails.
THEOREM BlobsLeaveNoTemporary ==
  ASSUME Blobs!BlobParameters PROVE Blobs!Spec => []Blobs!NoTemporaryLeft
<1>1. TmpInv => Blobs!NoTemporaryLeft
  BY Zenon DEF TmpInv, Blobs!NoTemporaryLeft
<1>2. Blobs!Init => TmpInv
  BY Zenon, BlobInit
<1>3. TmpInv /\ [Blobs!Next]_(Blobs!vars) => TmpInv'
  BY Zenon, BlobStep
<1>4. QED
  BY <1>1, <1>2, <1>3, PTL DEF Blobs!Spec

\* v2LayerDescriptor.Download hands over the blob and nothing else, for every size and number
\* of attempts and whatever the registry sends, as long as the file system does not fail:
\* the hash covers exactly what the temporary file holds.
THEOREM BlobsAreSafe ==
  ASSUME Blobs!BlobParameters, Blobs!BlobFaultless PROVE Blobs!Spec => []BlobsSafe
<1>1. TmpInv /\ SyncInv => BlobsSafe
  BY Zenon DEF TmpInv, SyncInv, InStep, Blob, BlobsSafe, Blobs!BlobsSafe, Blobs!HandedIsBlob, Blobs!VerifierInSync, Blobs!NoTemporaryLeft
<1>2. Blobs!Init => TmpInv /\ SyncInv
  BY Zenon, BlobInit
<1>3. TmpInv /\ SyncInv /\ [Blobs!Next]_(Blobs!vars) => (TmpInv /\ SyncInv)'
  BY Zenon, BlobStep
<1>4. QED
  BY <1>1, <1>2, <1>3, PTL DEF Blobs!Spec
=============================================================================
