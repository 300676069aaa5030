-------------------------- MODULE ContainerProofs --------------------------
(***************************************************************************)
(* Proofs about ContainerLifecycle for any number of clients and starts,   *)
(* any restart policy and whatever fails: types, the call stacks with the  *)
(* lock and the waiters, and the use of the restart managers.  The         *)
(* managers' own theorems come first.  ContainerProcesses goes on from     *)
(* here with the process.                                                  *)
(***************************************************************************)
EXTENDS ContainerLifecycle, TLAPS

-----------------------------------------------------------------------------
(* The restart manager: it keeps the limit of its policy and decides       *)
(* nothing once canceled, for every policy, limit and set of managers.     *)

\* A back-off goroutine runs only for an active manager: with ManagersTypeOK this is
\* what makes ShouldRestart's test of active exclude a second goroutine.
OneGoroutine == \A m \in Manager : rm[m].wait = "selecting" => rm[m].active

RmInv == ManagersTypeOK /\ RetriesBounded /\ OneGoroutine

\* Each step keeps the types, for any policy and any number of managers.
LEMMA RmTypeOKStep == ASSUME ManagersTypeOK, [ManagersNext]_rm PROVE ManagersTypeOK'
<1> USE DEF ManagersTypeOK, Wait
<1>1. CASE UNCHANGED rm
  BY <1>1
<1>2. ASSUME NEW m \in Manager, NEW x \in {0, 1}, NEW stopped \in BOOLEAN, ShouldRestart(m, x, stopped)
      PROVE ManagersTypeOK'
  <2> DEFINE new == [rm[m] EXCEPT !.restartCount = @ + 1, !.active = TRUE, !.wait = "selecting"]
  <2>1. new \in [canceled : BOOLEAN, active : BOOLEAN, restartCount : Nat, wait : Wait]
    <3>1. rm[m].restartCount + 1 \in Nat
      OBVIOUS
    <3>2. QED
      BY <3>1
  <2>2. rm' = [rm EXCEPT ![m] = new]
    BY <1>2 DEF ShouldRestart
  <2>3. QED
    BY <2>1, <2>2
<1>3. ASSUME NEW m \in Manager, TimerFires(m)
      PROVE ManagersTypeOK'
  BY <1>3 DEF TimerFires
<1>4. ASSUME NEW m \in Manager, CancelSeen(m)
      PROVE ManagersTypeOK'
  BY <1>4 DEF CancelSeen
<1>5. ASSUME NEW m \in Manager, Receive(m)
      PROVE ManagersTypeOK'
  BY <1>5 DEF Receive
<1>6. ASSUME NEW m \in Manager, Cancel(m)
      PROVE ManagersTypeOK'
  BY <1>6 DEF Cancel
<1>7. QED
  BY <1>1, <1>2, <1>3, <1>4, <1>5, <1>6 DEF ManagersNext

\* Each step keeps the retry limit: only ShouldRestart counts, and below the
\* limit only.
LEMMA RmRetriesStep == ASSUME ManagersTypeOK, RetriesBounded, [ManagersNext]_rm PROVE RetriesBounded'
<1> USE DEF ManagersTypeOK, Wait, RetriesBounded
<1> SUFFICES ASSUME PolicyName = "on-failure", MaximumRetryCount > 0,
                    NEW n \in Manager
             PROVE  rm'[n].restartCount <= MaximumRetryCount
  OBVIOUS
<1>1. CASE UNCHANGED rm
  BY <1>1
<1>2. ASSUME NEW m \in Manager, NEW x \in {0, 1}, NEW stopped \in BOOLEAN, ShouldRestart(m, x, stopped)
      PROVE rm'[n].restartCount <= MaximumRetryCount
  <2>1. rm[m].restartCount < MaximumRetryCount
    BY <1>2, PolicyAssumption DEF ShouldRestart, MayRestart, PolicyWants
  <2>2. rm'[n].restartCount = IF n = m THEN rm[m].restartCount + 1 ELSE rm[n].restartCount
    BY <1>2 DEF ShouldRestart
  <2>3. QED
    BY <2>1, <2>2, PolicyAssumption
<1>3. ASSUME NEW m \in Manager, TimerFires(m) \/ CancelSeen(m) \/ Receive(m) \/ Cancel(m)
      PROVE rm'[n].restartCount <= MaximumRetryCount
  <2>1. rm'[n].restartCount = rm[n].restartCount
    BY <1>3 DEF TimerFires, CancelSeen, Receive, Cancel
  <2>2. QED
    BY <2>1
<1>4. QED
  BY <1>1, <1>2, <1>3 DEF ManagersNext

\* A step never turns the one goroutine of a manager loose.
LEMMA RmGoroutineStep == ASSUME ManagersTypeOK, OneGoroutine, [ManagersNext]_rm PROVE OneGoroutine'
<1> USE DEF ManagersTypeOK, Wait, OneGoroutine
<1>1. CASE UNCHANGED rm
  BY <1>1
<1>2. ASSUME NEW m \in Manager, NEW x \in {0, 1}, NEW stopped \in BOOLEAN, ShouldRestart(m, x, stopped)
      PROVE OneGoroutine'
  BY <1>2 DEF ShouldRestart
<1>3. ASSUME NEW m \in Manager, TimerFires(m) \/ CancelSeen(m) \/ Receive(m) \/ Cancel(m)
      PROVE OneGoroutine'
  BY <1>3 DEF TimerFires, CancelSeen, Receive, Cancel
<1>4. QED
  BY <1>1, <1>2, <1>3 DEF ManagersNext

\* The types, the retry limit ("on-failure:N") and the single goroutine hold
\* in every behaviour of the manager.
THEOREM RmInvariant == ManagersSpec => []RmInv
<1>1. ManagersInit => RmInv
  BY PolicyAssumption DEF ManagersInit, RmInv, ManagersTypeOK, Wait, NewManager, RetriesBounded, OneGoroutine
<1>2. RmInv /\ [ManagersNext]_rm => RmInv'
  BY RmTypeOKStep, RmRetriesStep, RmGoroutineStep DEF RmInv
<1>3. QED
  BY <1>1, <1>2, PTL DEF ManagersSpec

\* ShouldRestart respects MaximumRetryCount, whatever the order of calls.
THEOREM RmRetriesBounded == ManagersSpec => []RetriesBounded
<1>1. RmInv => RetriesBounded
  BY DEF RmInv
<1>2. QED
  BY <1>1, RmInvariant, PTL

\* After Cancel a manager decides no restart, and stays canceled.
THEOREM RmNoDecisionAfterCancel == ManagersSpec => NoDecisionAfterCancel
<1>1. RmInv /\ [ManagersNext]_rm => [DecidesNothingWhenCanceled]_rm
  <2> SUFFICES ASSUME ManagersTypeOK, ManagersNext, NEW n \in Manager, rm[n].canceled
               PROVE  rm'[n].restartCount = rm[n].restartCount /\ rm'[n].canceled
    BY DEF RmInv, DecidesNothingWhenCanceled
  <2>1. ASSUME NEW m \in Manager, NEW x \in {0, 1}, NEW stopped \in BOOLEAN, ShouldRestart(m, x, stopped)
        PROVE rm'[n].restartCount = rm[n].restartCount /\ rm'[n].canceled
    BY <2>1 DEF ShouldRestart, MayRestart, ManagersTypeOK
  <2>2. ASSUME NEW m \in Manager, TimerFires(m) \/ CancelSeen(m) \/ Receive(m) \/ Cancel(m)
        PROVE rm'[n].restartCount = rm[n].restartCount /\ rm'[n].canceled
    BY <2>2 DEF TimerFires, CancelSeen, Receive, Cancel, ManagersTypeOK
  <2>3. QED
    BY <2>1, <2>2 DEF ManagersNext
<1>2. QED
  BY <1>1, RmInvariant, PTL DEF ManagersSpec, NoDecisionAfterCancel

-----------------------------------------------------------------------------
(* The call stacks, the lock and the waiters, whatever fails *)

\* The labels at which a call holds the container's lock.
Holding == {"create", "signal", "setPaused", "setResumed", "paused", "resumed", "stateSet"}

\* The labels a call returns to.
Continuation == {"stop1", "stop2", "stop3", "stop4", "end", "kill1", "kill2", "direct",
                 "rmKilled", "rmStopped", "restart1"}

\* Between SetRemovalInProgress and its deferred reset.
Removing == {"rmCheck", "rmKilled", "rmStopped", "rmRemove", "rmEnd"}

\* containerPause and containerUnpause are called by nobody else.
Freezing == {"pause", "unpause", "setPaused", "setResumed", "paused", "resumed", "stateSet"}

TopOf(s) == IF s = <<>> THEN "idle" ELSE Head(s)
BottomOf(s) == IF s = <<>> THEN "idle" ELSE s[Len(s)]
Top(c) == TopOf(pc[c])
Bottom(c) == BottomOf(pc[c])

\* What is below the top of a stack waits for a return; the labels of a removal
\* are at the bottom.
StackOK(s) ==
  /\ \A i \in 2..Len(s) : s[i] \in Continuation
  /\ \A i \in 1..(Len(s) - 1) : s[i] \notin Removing \cup {"rm"}
  /\ TopOf(s) \in Freezing => Len(s) = 1

StacksOK == \A c \in Client : StackOK(pc[c])

\* The lock's holder is the call that is at a label of Holding.
LockOK == \A c \in Client : mu = c <=> Top(c) \in Holding

\* RemovalInProgress belongs to one call.
RemovalOK ==
  /\ \A c, d \in Client : Bottom(c) \in Removing /\ Bottom(d) \in Removing => c = d
  /\ state.RemovalInProgress <=> \E c \in Client : Bottom(c) \in Removing

CallInv == TypeOK /\ StacksOK /\ LockOK /\ RemovalOK /\ NoLostWakeup

-----------------------------------------------------------------------------
(* The restart managers in use, whatever fails *)

\* The callbacks still to run, and the events still to be handled.
Callbacks == {queue[i] : i \in 1..Len(queue)}
Stream == {events[i] : i \in 1..Len(events)}

\* Nothing refers to the manager of start e, and it has counted nothing.
Unused(e) ==
  /\ ctr # e /\ restarter[e] = "none"
  /\ rm[e].wait = "none" /\ ~rm[e].active /\ rm[e].restartCount = 0
  /\ \A q \in Callbacks : q.epoch # e

ManagersUsed ==
  /\ \A e \in Epoch : e > epoch \/ (e = epoch /\ \E c \in Client : Top(c) = "create")
                        => Unused(e)
  /\ \A e \in Epoch : rm[e].wait = "restart" => ~rm[e].active
  /\ ctr # 0 => rm[ctr].wait = "none" /\ ~rm[ctr].active
  /\ \A c \in Client : Top(c) = "create" => epoch # 0

-----------------------------------------------------------------------------
(* The callbacks and the events *)

Queued(st) == \E q \in Callbacks : q.state = st
Sent(type) == \E e \in Stream : e.type = type

\* At most one callback, or event, is of one of these kinds.
QueuedOnce(S) == \A i, j \in 1..Len(queue) : queue[i].state \in S /\ queue[j].state \in S => i = j
SentOnce(S) == \A i, j \in 1..Len(events) : events[i].type \in S /\ events[j].type \in S => i = j

\* Nothing follows the exit of the process.
ExitIsLast == \A i \in 1..Len(events) : events[i].type = "exit" => i = Len(events)

-----------------------------------------------------------------------------
(* The operations on a call stack *)

\* A call enters label a: what Goto does to its stack.
LEMMA ReplaceTop ==
  ASSUME NEW s \in Seq(Label), s # <<>>, NEW a \in Label, StackOK(s),
         a \in Removing \cup {"rm"} => Head(s) \in Removing \cup {"rm"},
         Head(s) \in Removing => a \in Removing,
         a \in Freezing => Head(s) \in Freezing
  PROVE  LET t == <<a>> \o Tail(s) IN
         /\ t \in Seq(Label) /\ StackOK(t) /\ TopOf(t) = a
         /\ Head(s) # "rm" => (BottomOf(t) \in Removing <=> BottomOf(s) \in Removing)
         /\ Head(s) = "rm" => BottomOf(t) = a /\ BottomOf(s) = "rm"
<1> DEFINE t == <<a>> \o Tail(s)
<1>1. Tail(s) \in Seq(Label) /\ Len(Tail(s)) = Len(s) - 1 /\ \A i \in 1..(Len(s) - 1) : Tail(s)[i] = s[i + 1]
  OBVIOUS
<1>2. t \in Seq(Label) /\ Len(t) = Len(s) /\ t # <<>>
  BY <1>1
<1>3. t[1] = a /\ Head(t) = a
  BY <1>1
<1>4. \A i \in 2..Len(s) : t[i] = s[i]
  BY <1>1
<1>5. Head(s) = s[1] /\ Len(s) \in Nat /\ Len(s) >= 1
  OBVIOUS
<1> HIDE DEF t
<1>6. StackOK(t)
  <2>1. \A i \in 2..Len(t) : t[i] \in Continuation
    BY Zenon, <1>2, <1>4 DEF StackOK
  <2>2. ASSUME NEW i \in 1..(Len(t) - 1) PROVE t[i] \notin Removing \cup {"rm"}
    <3>1. CASE i = 1
      BY Zenon, <1>2, <1>3, <1>5, <3>1 DEF StackOK
    <3>2. CASE i # 1
      BY <1>2, <1>4, <1>5, <3>2 DEF StackOK
    <3>3. QED
      BY <3>1, <3>2
  <2>3. TopOf(t) \in Freezing => Len(t) = 1
    BY Zenon, <1>2, <1>3 DEF StackOK, TopOf
  <2>4. QED
    BY Zenon, <2>1, <2>2, <2>3 DEF StackOK
<1>7. CASE Len(s) = 1
  <2>1. BottomOf(t) = a /\ BottomOf(s) = Head(s)
    BY Zenon, <1>2, <1>3, <1>5, <1>7 DEF BottomOf
  <2>2. "rm" \notin Removing
    BY DEF Removing
  <2>3. QED
    BY Zenon, <1>2, <1>3, <1>6, <2>1, <2>2 DEF t, TopOf
<1>8. CASE Len(s) # 1
  <2>1. BottomOf(t) = BottomOf(s)
    BY <1>2, <1>4, <1>5, <1>8 DEF BottomOf
  <2>2. Head(s) # "rm"
    <3>1. 1 \in 1..(Len(s) - 1)
      BY <1>5, <1>8
    <3>2. QED
      BY <1>5, <3>1 DEF StackOK
  <2>3. QED
    BY Zenon, <1>2, <1>3, <1>6, <2>1, <2>2 DEF t, TopOf
<1>9. QED
  BY <1>7, <1>8 DEF t

\* A call calls a and goes on at b: what Call does to its stack.
LEMMA PushTop ==
  ASSUME NEW s \in Seq(Label), s # <<>>, NEW a \in Label, NEW b \in Continuation, StackOK(s),
         a \notin Removing \cup {"rm"} \cup Freezing,
         b \in Removing <=> Head(s) \in Removing
  PROVE  LET t == <<a, b>> \o Tail(s) IN
         /\ t \in Seq(Label) /\ StackOK(t) /\ TopOf(t) = a
         /\ BottomOf(t) \in Removing <=> BottomOf(s) \in Removing
<1> DEFINE t == <<a, b>> \o Tail(s)
<1>1. Tail(s) \in Seq(Label) /\ Len(Tail(s)) = Len(s) - 1 /\ \A i \in 1..(Len(s) - 1) : Tail(s)[i] = s[i + 1]
  OBVIOUS
<1>2. t \in Seq(Label) /\ Len(t) = Len(s) + 1 /\ t # <<>>
  <2>1. b \in Label
    BY DEF Continuation, Label
  <2>2. QED
    BY <1>1, <2>1
<1>3. t[1] = a /\ Head(t) = a /\ t[2] = b
  BY <1>1
<1>4. \A i \in 3..(Len(s) + 1) : t[i] = s[i - 1]
  BY <1>1
<1>5. Head(s) = s[1] /\ Len(s) \in Nat /\ Len(s) >= 1
  OBVIOUS
<1> HIDE DEF t
<1>6. StackOK(t)
  <2>1. ASSUME NEW i \in 2..Len(t) PROVE t[i] \in Continuation
    <3>1. CASE i = 2
      BY Zenon, <1>3, <3>1
    <3>2. CASE i # 2
      <4>1. i \in 3..(Len(s) + 1) /\ i - 1 \in 2..Len(s)
        BY <1>2, <1>5, <3>2
      <4>2. QED
        BY Zenon, <1>4, <4>1 DEF StackOK
    <3>3. QED
      BY Zenon, <3>1, <3>2
  <2>2. ASSUME NEW i \in 1..(Len(t) - 1) PROVE t[i] \notin Removing \cup {"rm"}
    <3>1. CASE i = 1
      BY Zenon, <1>3, <3>1
    <3>2. CASE i = 2
      <4>1. 1 \in 1..(Len(s) - 1)
        BY <1>2, <1>5, <3>2
      <4>2. Head(s) \notin Removing
        BY <1>5, <4>1 DEF StackOK
      <4>3. QED
        BY Zenon, <1>3, <3>2, <4>2 DEF Continuation
    <3>3. CASE i # 1 /\ i # 2
      <4>1. i \in 3..(Len(s) + 1) /\ i - 1 \in 1..(Len(s) - 1)
        BY <1>2, <1>5, <3>3
      <4>2. QED
        BY Zenon, <1>4, <4>1 DEF StackOK
    <3>4. QED
      BY Zenon, <3>1, <3>2, <3>3
  <2>3. TopOf(t) \notin Freezing
    BY Zenon, <1>2, <1>3 DEF TopOf
  <2>4. QED
    BY Zenon, <2>1, <2>2, <2>3 DEF StackOK
<1>7. BottomOf(t) \in Removing <=> BottomOf(s) \in Removing
  <2>1. CASE Len(s) = 1
    BY <1>2, <1>3, <1>5, <2>1 DEF BottomOf
  <2>2. CASE Len(s) # 1
    <3>1. \A n \in Nat : n >= 1 /\ n # 1 => n + 1 \in 3..(n + 1) /\ (n + 1) - 1 = n
      OBVIOUS
    <3>2. Len(s) + 1 \in 3..(Len(s) + 1) /\ (Len(s) + 1) - 1 = Len(s)
      BY Zenon, <1>5, <2>2, <3>1
    <3>3. t[Len(s) + 1] = s[Len(s)]
      BY Zenon, <1>4, <3>2
    <3>4. QED
      BY Zenon, <1>2, <3>3 DEF BottomOf
  <2>3. QED
    BY Zenon, <2>1, <2>2
<1>8. QED
  BY <1>2, <1>3, <1>6, <1>7 DEF t, TopOf

\* A call returns: what Return does to its stack.
LEMMA PopTop ==
  ASSUME NEW s \in Seq(Label), s # <<>>, StackOK(s)
  PROVE  LET t == Tail(s) IN
         /\ t \in Seq(Label) /\ StackOK(t) /\ TopOf(t) \in Continuation \cup {"idle"}
         /\ Head(s) \notin Removing => (BottomOf(t) \in Removing <=> BottomOf(s) \in Removing)
         /\ Head(s) \in Removing => BottomOf(t) = "idle" /\ BottomOf(s) = Head(s)
<1> DEFINE t == Tail(s)
<1>1. t \in Seq(Label) /\ Len(t) = Len(s) - 1 /\ \A i \in 1..(Len(s) - 1) : t[i] = s[i + 1]
  OBVIOUS
<1>2. Head(s) = s[1] /\ Len(s) \in Nat /\ Len(s) >= 1
  OBVIOUS
<1>3. t = <<>> <=> Len(s) = 1
  BY <1>1, <1>2
<1>4. t # <<>> => Head(t) = t[1]
  BY <1>1
<1> HIDE DEF t
<1>5. \A i \in 1..Len(t) : t[i] \in Continuation
  BY <1>1, <1>2 DEF StackOK
<1>6. TopOf(t) \in Continuation \cup {"idle"}
  BY <1>1, <1>2, <1>3, <1>4, <1>5 DEF TopOf
<1>7. StackOK(t)
  <2>1. \A i \in 1..(Len(t) - 1) : t[i] \notin Removing \cup {"rm"}
    BY <1>1, <1>2 DEF StackOK
  <2>2. TopOf(t) \notin Freezing
    BY <1>6 DEF Freezing, Continuation
  <2>3. QED
    BY <1>1, <1>5, <2>1, <2>2 DEF StackOK
<1>8. CASE Len(s) = 1
  <2>1. BottomOf(t) = "idle" /\ BottomOf(s) = Head(s)
    BY Zenon, <1>2, <1>3, <1>8 DEF BottomOf
  <2>2. "idle" \notin Removing
    BY DEF Removing
  <2>3. QED
    BY Zenon, <1>1, <1>6, <1>7, <2>1, <2>2 DEF t
<1>9. CASE Len(s) # 1
  <2>1. BottomOf(t) = BottomOf(s)
    BY <1>1, <1>2, <1>3, <1>9 DEF BottomOf
  <2>2. Head(s) \notin Removing
    <3>1. 1 \in 1..Len(t)
      BY <1>1, <1>2, <1>9
    <3>2. QED
      BY <1>1, <1>2, <3>1 DEF StackOK
  <2>3. QED
    BY Zenon, <1>1, <1>6, <1>7, <2>1, <2>2 DEF t
<1>10. QED
  BY Zenon, <1>8, <1>9

-----------------------------------------------------------------------------
(* What the actions do, in terms of the top and the bottom of the stacks *)

\* Call c moves to a label of T, and neither enters nor leaves a removal.
Step(c, T) ==
  /\ \E t \in Seq(Label) : /\ pc' = [pc EXCEPT ![c] = t] /\ StackOK(t) /\ TopOf(t) \in T
                           /\ BottomOf(t) \in Removing <=> Bottom(c) \in Removing
  /\ res' \in [Client -> {"ok", "err"}]

Stacks == TypeOK /\ StacksOK

\* What a step of call c does to the stacks.
LEMMA StepEffect ==
  ASSUME Stacks, NEW c \in Client, NEW T, Step(c, T)
  PROVE  /\ pc' \in [Client -> Seq(Label)] /\ StacksOK'
         /\ Top(c)' \in T
         /\ \A d \in Client \ {c} : Top(d)' = Top(d)
         /\ \A d \in Client : Bottom(d)' \in Removing <=> Bottom(d) \in Removing
<1>1. PICK t \in Seq(Label) : /\ pc' = [pc EXCEPT ![c] = t] /\ StackOK(t) /\ TopOf(t) \in T
                              /\ BottomOf(t) \in Removing <=> Bottom(c) \in Removing
  BY Zenon DEF Step
<1>2. pc \in [Client -> Seq(Label)]
  BY Zenon DEF Stacks, TypeOK
<1>3. pc' \in [Client -> Seq(Label)]
  BY Zenon, <1>1, <1>2
<1>4. pc'[c] = t /\ \A d \in Client \ {c} : pc'[d] = pc[d]
  BY Zenon, <1>1, <1>2
<1>5. StacksOK'
  BY Zenon, <1>1, <1>4 DEF Stacks, StacksOK
<1>6. QED
  BY Zenon, <1>1, <1>3, <1>4, <1>5 DEF Top, Bottom

\* Goto, Call and Return are steps.
LEMMA GotoStep ==
  ASSUME Stacks, NEW c \in Client, pc[c] # <<>>, NEW a \in Label, Goto(c, a),
         Top(c) # "rm", a \in Removing \cup {"rm"} <=> Top(c) \in Removing, a # "rm",
         a \in Freezing => Top(c) \in Freezing
  PROVE  Step(c, {a})
<1>1. pc[c] \in Seq(Label) /\ StackOK(pc[c]) /\ Top(c) = Head(pc[c])
  BY Zenon DEF Stacks, TypeOK, StacksOK, Top, TopOf
<1> DEFINE t == <<a>> \o Tail(pc[c])
<1>2. t \in Seq(Label) /\ StackOK(t) /\ TopOf(t) = a
        /\ (BottomOf(t) \in Removing <=> Bottom(c) \in Removing)
  BY <1>1, ReplaceTop DEF Bottom
<1>3. pc' = [pc EXCEPT ![c] = t] /\ res' = res
  BY Zenon DEF Goto
<1>4. QED
  BY Zenon, <1>2, <1>3 DEF Step, Stacks, TypeOK

\* A call to another routine: its label goes on top of the continuation.
LEMMA CallStep ==
  ASSUME Stacks, NEW c \in Client, pc[c] # <<>>, NEW a \in Label, NEW b \in Continuation, Call(c, a, b),
         a \notin Removing \cup {"rm"} \cup Freezing,
         b \in Removing <=> Top(c) \in Removing
  PROVE  Step(c, {a})
<1>1. pc[c] \in Seq(Label) /\ StackOK(pc[c]) /\ Top(c) = Head(pc[c])
  BY Zenon DEF Stacks, TypeOK, StacksOK, Top, TopOf
<1> DEFINE t == <<a, b>> \o Tail(pc[c])
<1>2. t \in Seq(Label) /\ StackOK(t) /\ TopOf(t) = a
        /\ (BottomOf(t) \in Removing <=> Bottom(c) \in Removing)
  BY <1>1, PushTop DEF Bottom
<1>3. pc' = [pc EXCEPT ![c] = t] /\ res' = res
  BY Zenon DEF Call
<1>4. QED
  BY Zenon, <1>2, <1>3 DEF Step, Stacks, TypeOK

\* A return: the top goes, the continuation below it goes on.
LEMMA ReturnStep ==
  ASSUME Stacks, NEW c \in Client, pc[c] # <<>>, NEW r \in {"ok", "err"}, Return(c, r),
         Top(c) \notin Removing
  PROVE  Step(c, Continuation \cup {"idle"})
<1>1. pc[c] \in Seq(Label) /\ StackOK(pc[c]) /\ Top(c) = Head(pc[c])
  BY Zenon DEF Stacks, TypeOK, StacksOK, Top, TopOf
<1> DEFINE t == Tail(pc[c])
<1>2. t \in Seq(Label) /\ StackOK(t) /\ TopOf(t) \in Continuation \cup {"idle"}
        /\ (BottomOf(t) \in Removing <=> Bottom(c) \in Removing)
  BY <1>1, PopTop DEF Bottom
<1>3. pc' = [pc EXCEPT ![c] = t] /\ res' = [res EXCEPT ![c] = r]
  BY Zenon DEF Return
<1>4. res' \in [Client -> {"ok", "err"}]
  BY Zenon, <1>3 DEF Stacks, TypeOK
<1>5. QED
  BY Zenon, <1>2, <1>3, <1>4 DEF Step

\* The labels the invariants do not speak of.
Marked == Holding \cup {"waiting", "waitingForever", "rmRemove"}
Unmarked == (Label \cup {"idle"}) \ Marked

\* A step of call c between such labels, which changes nothing else.
Passive(c) ==
  /\ Top(c) \in Unmarked /\ Step(c, Unmarked)
  /\ UNCHANGED <<daemonVars, clientVars, containerdVars>>
  /\ sig' \in [Client -> {"TERM", "KILL"}] /\ opt' \in [Client -> {"", "force", "forever"}]

\* A call that is at a label has it on top of its stack.
LEMMA AtTop == ASSUME NEW c, NEW l, At(c, l) PROVE pc[c] # <<>> /\ Top(c) = l
BY Zenon DEF At, Top, TopOf

\* To name the labels a step leaves and enters is enough.
LEMMA StepWeaken ==
  ASSUME NEW c, NEW T, NEW U, Step(c, T), T \subseteq U
  PROVE  Step(c, U)
BY Zenon DEF Step

\* How the sets of labels lie in each other.
LEMMA Labels ==
  /\ Continuation \subseteq Label /\ Continuation \cap Marked = {} /\ "idle" \notin Marked
  /\ Continuation \cup {"idle"} \subseteq Unmarked
  /\ Holding \subseteq Marked /\ Holding \subseteq Label
BY DEF Continuation, Label, Marked, Unmarked, Holding

\* The steps that change nothing but the stack of one call.
Still == /\ UNCHANGED <<daemonVars, clientVars, containerdVars>>
         /\ sig' \in [Client -> {"TERM", "KILL"}] /\ opt' \in [Client -> {"", "force", "forever"}]

\* A step that changes no variable but the stacks changes nothing that counts.
LEMMA MovesStill == ASSUME TypeOK, Moves PROVE Still
BY Zenon DEF Moves, Still, TypeOK

\* A return from a label without a mark is passive.
LEMMA PassiveReturn ==
  ASSUME Stacks, NEW c \in Client, NEW l \in Unmarked \ Removing, At(c, l),
         NEW r \in {"ok", "err"}, Return(c, r), Still
  PROVE  Passive(c)
<1>1. pc[c] # <<>> /\ Top(c) = l
  BY Zenon, AtTop
<1>2. Step(c, Continuation \cup {"idle"})
  BY Zenon, <1>1, ReturnStep
<1>3. Step(c, Unmarked)
  BY Zenon, <1>2, StepWeaken, Labels
<1>4. QED
  BY Zenon, <1>1, <1>3 DEF Passive, Still

\* So is a jump between two such labels.
LEMMA PassiveGoto ==
  ASSUME Stacks, NEW c \in Client, NEW l \in Unmarked \ {"rm"}, At(c, l), NEW a \in Unmarked \ {"idle", "rm"},
         a \in Removing <=> l \in Removing, a \notin Freezing, Goto(c, a), Still
  PROVE  Passive(c)
<1>1. pc[c] # <<>> /\ Top(c) = l
  BY Zenon, AtTop
<1>2. a \in Label
  BY Zenon DEF Unmarked
<1>3. Step(c, {a})
  BY Zenon, <1>1, <1>2, GotoStep
<1>4. Step(c, Unmarked)
  BY <1>3, StepWeaken
<1>5. QED
  BY Zenon, <1>1, <1>4 DEF Passive, Still

\* So is a call of such a label.
LEMMA PassiveCall ==
  ASSUME Stacks, NEW c \in Client, NEW l \in Unmarked, At(c, l),
         NEW a \in Unmarked \ {"idle", "rm"}, NEW b \in Continuation,
         a \notin Removing, a \notin Freezing, b \in Removing <=> l \in Removing,
         Call(c, a, b), Still
  PROVE  Passive(c)
<1>1. pc[c] # <<>> /\ Top(c) = l
  BY Zenon, AtTop
<1>2. a \in Label
  BY Zenon DEF Unmarked
<1>3. Step(c, {a})
  BY Zenon, <1>1, <1>2, CallStep
<1>4. Step(c, Unmarked)
  BY <1>3, StepWeaken
<1>5. QED
  BY Zenon, <1>1, <1>4 DEF Passive, Still

\* The labels of a passive step.
LEMMA Passing ==
  /\ {"start", "stop", "stop1", "stop2", "stop3", "stop4", "end", "kill", "kill1", "kill2", "direct",
      "ks", "waitStop", "waitForever", "restart1", "pause", "unpause", "rm"} \subseteq Unmarked \ (Removing \cup {"idle"})
  /\ {"rmCheck", "rmKilled", "rmStopped", "rmEnd"} \subseteq Unmarked \cap Removing
  /\ {"start", "stop", "kill", "ks", "waitStop", "waitForever", "rmEnd"} \cap Freezing = {}
  /\ {"stop1", "stop2", "stop3", "stop4", "end", "kill1", "kill2", "direct", "restart1"}
        \subseteq Continuation \ Removing
  /\ {"rmKilled", "rmStopped"} \subseteq Continuation \cap Removing
  /\ "rm" \notin Removing /\ "rmRemove" \in Removing
BY DEF Unmarked, Marked, Holding, Label, Removing, Freezing, Continuation

-----------------------------------------------------------------------------
(* The actions of a call; what is not passive is described by its effect *)

StartBegins(c) ==
  /\ Top(c) = "start" /\ Step(c, {"create"}) /\ mu = None /\ mu' = c
  /\ ~state.Running /\ ~state.Dead /\ epoch < MaxEpoch /\ epoch' = epoch + 1
  /\ UNCHANGED <<state, woken, manual, registered, rm, clientVars, containerdVars, sig, opt>>

\* containerStart returns early, or holds the lock and sets up the container.
LEMMA ContainerStartDoes ==
  ASSUME Stacks, NEW c \in Client, ContainerStart(c)
  PROVE  Passive(c) \/ StartBegins(c)
<1>1. At(c, "start") /\ pc[c] # <<>> /\ Top(c) = "start"
  BY Zenon, AtTop DEF ContainerStart
<1>2. ASSUME NEW r \in {"ok", "err"}, Return(c, r), Moves PROVE Passive(c)
  BY Zenon, <1>1, <1>2, PassiveReturn, MovesStill, Passing DEF Stacks
<1>3. ASSUME Goto(c, "create") PROVE Step(c, {"create"})
  BY Zenon, <1>1, <1>3, GotoStep DEF Label, Removing, Freezing
<1>4. QED
  BY Zenon, <1>1, <1>2, <1>3 DEF ContainerStart, StartBegins, AlreadyRunning, MarkedForRemoval

\* The labels a call may return to.
Resume == Continuation \cup {"idle"}

\* The end of containerStart, Create of libcontainerd included, returns.
LEMMA CreateDoes ==
  ASSUME Stacks, NEW c \in Client, Create(c)
  PROVE  Top(c) = "create" /\ Step(c, Resume)
<1>1. At(c, "create") /\ pc[c] # <<>> /\ Top(c) = "create"
  BY Zenon, AtTop DEF Create
<1>2. ASSUME NEW r \in {"ok", "err"}, Return(c, r) PROVE Step(c, Resume)
  BY Zenon, <1>1, <1>2, ReturnStep DEF Removing, Resume
<1>3. Return(c, "ok") \/ Return(c, "err")
  BY Zenon DEF Create
<1>4. QED
  BY Zenon, <1>1, <1>2, <1>3

KillBegins(c) ==
  /\ Top(c) = "ks" /\ mu = None /\ ~state.Paused /\ state.Running
  /\ Cancel(epoch) /\ manual' = TRUE
  /\ \/ state.Restarting /\ Step(c, Resume) /\ UNCHANGED mu
     \/ ~state.Restarting /\ Step(c, {"signal"}) /\ mu' = c
  /\ UNCHANGED <<state, woken, registered, epoch, clientVars, containerdVars, sig, opt>>

\* killWithSignal returns early, or cancels the restart manager under the lock.
LEMMA KillWithSignalDoes ==
  ASSUME Stacks, NEW c \in Client, KillWithSignal(c)
  PROVE  Passive(c) \/ KillBegins(c)
<1>1. At(c, "ks") /\ pc[c] # <<>> /\ Top(c) = "ks" /\ mu = None
  BY Zenon, AtTop DEF KillWithSignal
<1>2. ASSUME Return(c, "err"), UNCHANGED <<daemonVars, clientVars, containerdVars, sig, opt>> PROVE Passive(c)
  <2>1. Still
    BY Zenon, <1>2 DEF Stacks, TypeOK, Still
  <2>2. QED
    BY Zenon, <1>1, <1>2, <2>1, PassiveReturn, Passing
<1>3. ASSUME Return(c, "ok") PROVE Step(c, Resume)
  BY Zenon, <1>1, <1>3, ReturnStep DEF Removing, Resume
<1>4. ASSUME Goto(c, "signal") PROVE Step(c, {"signal"})
  BY Zenon, <1>1, <1>4, GotoStep DEF Label, Removing, Freezing
<1>5. CASE state.Paused \/ ~state.Running
  BY Zenon, <1>2, <1>5 DEF KillWithSignal, daemonVars
<1>6. CASE ~(state.Paused \/ ~state.Running)
  BY Zenon, <1>1, <1>3, <1>4, <1>6 DEF KillWithSignal, KillBegins
<1>7. QED
  BY Zenon, <1>5, <1>6

\* The signal is sent and killWithSignal returns.
LEMMA SignalDoes ==
  ASSUME Stacks, NEW c \in Client, Signal(c)
  PROVE  Top(c) = "signal" /\ Step(c, Resume)
<1>1. At(c, "signal") /\ pc[c] # <<>> /\ Top(c) = "signal"
  BY Zenon, AtTop DEF Signal
<1>2. QED
  BY Zenon, <1>1, ReturnStep DEF Signal, Removing, Resume

WaitBegins(c) ==
  /\ Top(c) \in {"waitStop", "waitForever"} /\ Step(c, {"waiting", "waitingForever"})
  /\ state.Running
  /\ Moves

\* WaitStop returns at once for a stopped container, or begins to wait.
LEMMA WaitStopDoes ==
  ASSUME Stacks, NEW c \in Client, WaitStop(c)
  PROVE  Passive(c) \/ WaitBegins(c)
<1>1. PICK l \in {"waitStop", "waitForever"} : At(c, l)
  BY Zenon DEF WaitStop
<1>2. pc[c] # <<>> /\ Top(c) = l
  BY Zenon, <1>1, AtTop
<1>3. Moves
  BY Zenon DEF WaitStop
<1>4. ASSUME Return(c, "ok") PROVE Passive(c)
  BY Zenon, <1>1, <1>3, <1>4, PassiveReturn, MovesStill, Passing DEF Stacks
<1>5. ASSUME NEW a \in {"waiting", "waitingForever"}, Goto(c, a) PROVE Step(c, {"waiting", "waitingForever"})
  <2>1. Step(c, {a})
    BY Zenon, <1>1, <1>2, <1>5, GotoStep DEF Label, Removing, Freezing
  <2>2. QED
    BY <2>1, StepWeaken
<1>6. CASE Return(c, "ok")
  BY Zenon, <1>4, <1>6
<1>7. CASE state.Running /\ Goto(c, IF At(c, "waitStop") THEN "waiting" ELSE "waitingForever")
  BY Zenon, <1>2, <1>3, <1>5, <1>7 DEF WaitBegins
<1>8. QED
  BY Zenon, <1>6, <1>7 DEF WaitStop

WaitEnds(c) ==
  /\ Top(c) \in {"waiting", "waitingForever"} /\ Step(c, Resume)
  /\ woken' = woken \ {c}
  /\ UNCHANGED <<state, mu, manual, registered, epoch, rm, clientVars, containerdVars, sig, opt>>

\* A wait ends with the closed channel or with the timeout.
LEMMA WaitStopReturns ==
  ASSUME Stacks, NEW c \in Client, WaitStopDone(c) \/ WaitStopTimeout(c)
  PROVE  WaitEnds(c)
<1>1. PICK l \in {"waiting", "waitingForever"} : At(c, l)
  BY Zenon DEF WaitStopDone, WaitStopTimeout
<1>2. pc[c] # <<>> /\ Top(c) = l
  BY Zenon, <1>1, AtTop
<1>3. PICK r \in {"ok", "err"} : Return(c, r)
  BY Zenon DEF WaitStopDone, WaitStopTimeout
<1>4. Step(c, Resume)
  BY Zenon, <1>2, <1>3, ReturnStep DEF Removing, Resume
<1>5. QED
  BY Zenon, <1>2, <1>4 DEF WaitEnds, WaitStopDone, WaitStopTimeout

\* containerStop calls other routines and changes nothing itself.
LEMMA ContainerStopDoes ==
  ASSUME Stacks, NEW c \in Client, ContainerStop(c) \/ ContainerStopWaited(c) \/ End(c)
  PROVE  Passive(c)
<1>1. ASSUME NEW l \in {"stop", "stop1", "stop2", "stop3", "stop4", "end"}, At(c, l),
             NEW r \in {"ok", "err"}, Return(c, r), Still
      PROVE  Passive(c)
  BY <1>1, PassiveReturn, Passing
<1>2. ASSUME NEW l \in {"stop", "stop1", "stop2", "stop3", "stop4"}, At(c, l),
             NEW a \in {"ks", "waitStop", "waitForever", "kill"},
             NEW b \in {"stop1", "stop2", "stop3", "stop4", "end"}, Call(c, a, b), Still
      PROVE  Passive(c)
  <2>1. l \in Unmarked /\ a \in Unmarked \ {"idle", "rm"} /\ b \in Continuation
    BY Passing
  <2>2. a \notin Removing /\ a \notin Freezing /\ b \notin Removing /\ l \notin Removing
    BY Passing
  <2>3. QED
    BY Zenon, <1>2, <2>1, <2>2, PassiveCall
<1>3. ASSUME NEW v \in {"TERM", "KILL"}, sig' = [sig EXCEPT ![c] = v],
             UNCHANGED <<daemonVars, clientVars, containerdVars, opt>>
      PROVE  Still
  BY Zenon, <1>3 DEF Still, Stacks, TypeOK
<1>4. ASSUME UNCHANGED <<daemonVars, clientVars, containerdVars, opt>>, UNCHANGED sig
      PROVE  Still
  BY Zenon, <1>4 DEF Still, Stacks, TypeOK
<1>5. ASSUME Moves PROVE Still
  BY Zenon, <1>5, MovesStill DEF Stacks
<1>6. CASE ContainerStop(c)
  BY Zenon, <1>1, <1>2, <1>3, <1>4, <1>5, <1>6 DEF ContainerStop
<1>7. CASE ContainerStopWaited(c)
  BY Zenon, <1>1, <1>2, <1>5, <1>7 DEF ContainerStopWaited
<1>8. CASE End(c)
  BY Zenon, <1>1, <1>5, <1>8 DEF End
<1>9. QED
  BY Zenon, <1>6, <1>7, <1>8

\* Kill calls other routines and changes nothing itself.
LEMMA KillDoes ==
  ASSUME Stacks, NEW c \in Client, Kill(c) \/ KillSent(c)
  PROVE  Passive(c)
<1>1. ASSUME NEW l \in {"kill", "kill1", "kill2"}, At(c, l), Return(c, "err"), Still
      PROVE  Passive(c)
  BY <1>1, PassiveReturn, Passing
<1>2. ASSUME NEW l \in {"kill", "kill1", "kill2"}, At(c, l),
             NEW a \in {"ks", "waitStop"}, NEW b \in {"kill1", "kill2", "direct"}, Call(c, a, b), Still
      PROVE  Passive(c)
  <2>1. l \in Unmarked /\ a \in Unmarked \ {"idle", "rm"} /\ b \in Continuation
    BY Passing
  <2>2. a \notin Removing /\ a \notin Freezing /\ b \notin Removing /\ l \notin Removing
    BY Passing
  <2>3. QED
    BY Zenon, <1>2, <2>1, <2>2, PassiveCall
<1>3. ASSUME sig' = [sig EXCEPT ![c] = "KILL"] \/ UNCHANGED sig,
             UNCHANGED <<daemonVars, clientVars, containerdVars, opt>>
      PROVE  Still
  BY Zenon, <1>3 DEF Still, Stacks, TypeOK
<1>4. ASSUME Moves PROVE Still
  BY <1>4, MovesStill DEF Stacks
<1>5. CASE Kill(c)
  BY Zenon, <1>1, <1>2, <1>3, <1>5 DEF Kill
<1>6. CASE KillSent(c)
  <2>1. ASSUME NEW b \in {"kill2", "direct"}, At(c, "kill1") \/ At(c, "kill2"), Call(c, "waitStop", b), Moves
        PROVE  Passive(c)
    BY Zenon, <1>2, <1>4, <2>1
  <2>2. ASSUME At(c, "kill2"), Return(c, "err"), Moves PROVE Passive(c)
    BY Zenon, <1>1, <1>4, <2>2
  <2>3. QED
    BY Zenon, <1>6, <2>1, <2>2 DEF KillSent
<1>7. QED
  BY Zenon, <1>5, <1>6

KillsProcess(c) ==
  /\ Top(c) \in Unmarked /\ Step(c, Unmarked)
  /\ proc' = [proc EXCEPT !.killed = TRUE]
  /\ UNCHANGED <<daemonVars, clientVars, events, execs, sig, opt>>

\* killProcessDirectly returns, or kills the process by its pid.
LEMMA KillProcessDirectlyDoes ==
  ASSUME Stacks, NEW c \in Client, KillProcessDirectly(c)
  PROVE  Passive(c) \/ KillsProcess(c)
<1>1. At(c, "direct") /\ pc[c] # <<>> /\ Top(c) = "direct" /\ "direct" \in Unmarked
  BY AtTop, Passing DEF KillProcessDirectly
<1>2. ASSUME UNCHANGED proc PROVE Still
  BY Zenon, <1>2 DEF KillProcessDirectly, Still, containerdVars, Stacks, TypeOK
<1>3. ASSUME Call(c, "waitForever", "end") PROVE Step(c, Unmarked)
  <2>1. "waitForever" \in Label /\ "waitForever" \notin Removing \cup {"rm"} \cup Freezing
    BY Zenon DEF Label, Removing, Freezing
  <2>2. "end" \in Continuation /\ "end" \notin Removing /\ "direct" \notin Removing
    BY Zenon, Passing
  <2>3. Step(c, {"waitForever"})
    BY Zenon, <1>1, <1>3, <2>1, <2>2, CallStep
  <2>4. QED
    BY <2>3, StepWeaken, Passing
<1>4. ASSUME Step(c, Unmarked), UNCHANGED proc PROVE Passive(c)
  BY Zenon, <1>1, <1>2, <1>4 DEF Passive, Still
<1>5. ASSUME Return(c, "ok"), UNCHANGED proc PROVE Passive(c)
  BY Zenon, <1>1, <1>2, <1>5, PassiveReturn, Passing
<1>6. ASSUME Call(c, "waitForever", "end"), proc' = [proc EXCEPT !.killed = TRUE] PROVE KillsProcess(c)
  BY Zenon, <1>1, <1>3, <1>6 DEF KillProcessDirectly, KillsProcess
<1>7. QED
  BY Zenon, <1>3, <1>4, <1>5, <1>6 DEF KillProcessDirectly

\* Call c enters, or leaves, a removal.
RemovalBegins(c) ==
  /\ \E t \in Seq(Label) : /\ pc' = [pc EXCEPT ![c] = t] /\ StackOK(t)
                           /\ TopOf(t) = "rmCheck" /\ BottomOf(t) = "rmCheck"
  /\ Top(c) = "rm" /\ Bottom(c) = "rm" /\ res' = res /\ mu = None
  /\ ~state.RemovalInProgress
  /\ state' = [state EXCEPT !.RemovalInProgress = TRUE]
  /\ UNCHANGED <<mu, woken, manual, registered, epoch, rm, clientVars, containerdVars, sig, opt>>

RemovalEnds(c) ==
  /\ \E t \in Seq(Label) : /\ pc' = [pc EXCEPT ![c] = t] /\ StackOK(t)
                           /\ TopOf(t) \in Resume /\ BottomOf(t) = "idle"
  /\ Top(c) = "rmEnd" /\ Bottom(c) = "rmEnd"
  /\ res' \in [Client -> {"ok", "err"}] /\ mu = None
  /\ state' = [state EXCEPT !.RemovalInProgress = FALSE]
  /\ UNCHANGED <<mu, woken, manual, registered, epoch, rm, clientVars, containerdVars, sig, opt>>

\* ContainerRm refuses a second removal, or marks the container.
LEMMA SetRemovalInProgressDoes ==
  ASSUME Stacks, NEW c \in Client, SetRemovalInProgress(c)
  PROVE  Passive(c) \/ RemovalBegins(c)
<1>1. At(c, "rm") /\ pc[c] # <<>> /\ Top(c) = "rm" /\ Head(pc[c]) = "rm" /\ mu = None
  BY Zenon, AtTop DEF SetRemovalInProgress, At
<1>2. ASSUME Return(c, "ok"), UNCHANGED state PROVE Passive(c)
  <2>1. Still
    BY Zenon, <1>2 DEF SetRemovalInProgress, daemonVars, Still, Stacks, TypeOK
  <2>2. QED
    BY Zenon, <1>1, <1>2, <2>1, PassiveReturn, Passing
<1>3. ASSUME Goto(c, "rmCheck"), ~state.RemovalInProgress, state' = [state EXCEPT !.RemovalInProgress = TRUE]
      PROVE  RemovalBegins(c)
  <2> DEFINE t == <<"rmCheck">> \o Tail(pc[c])
  <2>1. pc[c] \in Seq(Label) /\ StackOK(pc[c])
    BY Zenon DEF Stacks, TypeOK, StacksOK
  <2>2. "rmCheck" \in Label /\ "rmCheck" \in Removing /\ "rmCheck" \notin Freezing /\ "rm" \notin Removing
    BY Zenon DEF Label, Removing, Freezing
  <2>3. /\ t \in Seq(Label) /\ StackOK(t) /\ TopOf(t) = "rmCheck"
        /\ BottomOf(t) = "rmCheck" /\ BottomOf(pc[c]) = "rm"
    BY Zenon, <1>1, <2>1, <2>2, ReplaceTop
  <2>4. pc' = [pc EXCEPT ![c] = t] /\ res' = res
    BY Zenon, <1>3 DEF Goto
  <2> HIDE DEF t
  <2>5. QED
    BY Zenon, <1>1, <1>3, <2>3, <2>4 DEF RemovalBegins, SetRemovalInProgress, Bottom
<1>4. QED
  BY Zenon, <1>2, <1>3 DEF SetRemovalInProgress

\* The deferred ResetRemovalInProgress ends the removal.
LEMMA ResetRemovalInProgressDoes ==
  ASSUME Stacks, NEW c \in Client, ResetRemovalInProgress(c)
  PROVE  RemovalEnds(c)
<1>1. At(c, "rmEnd") /\ pc[c] # <<>> /\ Top(c) = "rmEnd" /\ Head(pc[c]) = "rmEnd"
  BY Zenon, AtTop DEF ResetRemovalInProgress, At
<1> DEFINE t == Tail(pc[c])
<1>2. pc[c] \in Seq(Label) /\ StackOK(pc[c])
  BY Zenon DEF Stacks, TypeOK, StacksOK
<1>3. /\ t \in Seq(Label) /\ StackOK(t) /\ TopOf(t) \in Resume
      /\ BottomOf(t) = "idle" /\ BottomOf(pc[c]) = "rmEnd"
  BY Zenon, <1>1, <1>2, PopTop, Passing DEF Resume
<1>4. pc' = [pc EXCEPT ![c] = t] /\ res' \in [Client -> {"ok", "err"}]
  BY Zenon DEF ResetRemovalInProgress, Return, Stacks, TypeOK
<1> HIDE DEF t
<1>5. QED
  BY Zenon, <1>1, <1>3, <1>4 DEF RemovalEnds, ResetRemovalInProgress, Bottom

\* A call that is in a removal has nothing below it.
LEMMA RemovalAlone ==
  ASSUME Stacks, NEW c \in Client, pc[c] # <<>>, Top(c) \in Removing
  PROVE  Bottom(c) \in Removing
<1>1. pc[c] \in Seq(Label) /\ StackOK(pc[c]) /\ Head(pc[c]) \in Removing
  BY Zenon DEF Stacks, TypeOK, StacksOK, Top, TopOf
<1>2. BottomOf(pc[c]) = Head(pc[c])
  BY Zenon, <1>1, PopTop
<1>3. QED
  BY Zenon, <1>1, <1>2 DEF Bottom

\* The removal gives up, or is done.
LEMMA ToRmEnd ==
  ASSUME Stacks, NEW c \in Client, pc[c] # <<>>, Top(c) \in Removing,
         pc' = [pc EXCEPT ![c] = <<"rmEnd">>], res' \in [Client -> {"ok", "err"}]
  PROVE  Step(c, {"rmEnd"})
<1> DEFINE t == <<"rmEnd">>
<1>1. t \in Seq(Label) /\ Len(t) = 1 /\ t[1] = "rmEnd" /\ t # <<>> /\ Head(t) = "rmEnd"
  BY DEF Label
<1> HIDE DEF t
<1>2. TopOf(t) = "rmEnd" /\ BottomOf(t) = "rmEnd"
  BY Zenon, <1>1 DEF TopOf, BottomOf
<1>3. StackOK(t)
  BY <1>1, <1>2 DEF StackOK, Freezing
<1>4. "rmEnd" \in Removing
  BY Zenon DEF Removing
<1>5. Bottom(c) \in Removing
  BY Zenon, RemovalAlone
<1>6. pc' = [pc EXCEPT ![c] = t]
  BY Zenon DEF t
<1>7. QED
  BY Zenon, <1>1, <1>2, <1>3, <1>4, <1>5, <1>6 DEF Step

\* cleanupContainer refuses a running container or has it killed; no state changes.
LEMMA RmCheckDoes ==
  ASSUME Stacks, NEW c \in Client, RmCheck(c) \/ RmKilled(c)
  PROVE  Passive(c)
<1>1. PICK l \in {"rmCheck", "rmKilled"} : At(c, l)
  BY Zenon DEF RmCheck, RmKilled
<1>2. pc[c] # <<>> /\ Top(c) = l
  BY Zenon, <1>1, AtTop
<1>3. l \in Unmarked /\ l \in Removing
  BY Zenon, Passing
<1>4. Still
  BY Zenon, MovesStill DEF RmCheck, RmKilled, Stacks
<1>5. ASSUME NEW r \in {"ok", "err"}, pc' = [pc EXCEPT ![c] = <<"rmEnd">>], res' = [res EXCEPT ![c] = r]
      PROVE  Passive(c)
  <2>1. res' \in [Client -> {"ok", "err"}]
    BY Zenon, <1>5 DEF Stacks, TypeOK
  <2>2. Step(c, {"rmEnd"})
    BY Zenon, <1>2, <1>3, <1>5, <2>1, ToRmEnd
  <2>3. Step(c, Unmarked)
    BY <2>2, StepWeaken, Passing
  <2>4. QED
    BY Zenon, <1>2, <1>3, <1>4, <2>3 DEF Passive, Still
<1>6. ASSUME NEW a \in {"kill", "stop"}, NEW b \in {"rmKilled", "rmStopped"}, Call(c, a, b)
      PROVE  Passive(c)
  <2>1. a \in Unmarked \ {"idle", "rm"} /\ b \in Continuation
    BY Zenon, Passing
  <2>2. a \notin Removing /\ a \notin Freezing /\ b \in Removing
    BY Zenon, Passing
  <2>3. QED
    BY Zenon, <1>1, <1>3, <1>4, <1>6, <2>1, <2>2, PassiveCall
<1>7. ASSUME Goto(c, "rmEnd") PROVE Passive(c)
  <2>1. l # "rm" /\ "rmEnd" \in Unmarked \ {"idle", "rm"} /\ "rmEnd" \in Removing /\ "rmEnd" \notin Freezing
    BY Zenon, Passing
  <2>2. QED
    BY Zenon, <1>1, <1>3, <1>4, <1>7, <2>1, PassiveGoto
<1>8. CASE RmCheck(c)
  BY Zenon, <1>5, <1>6, <1>8 DEF RmCheck
<1>9. CASE RmKilled(c)
  BY Zenon, <1>6, <1>7, <1>9 DEF RmKilled
<1>10. QED
  BY Zenon, <1>8, <1>9

Dies(c) ==
  /\ Top(c) = "rmStopped" /\ Step(c, {"rmRemove"}) /\ mu = None
  /\ state' = [state EXCEPT !.Dead = TRUE]
  /\ UNCHANGED <<mu, woken, manual, registered, epoch, rm, clientVars, containerdVars, sig, opt>>

\* SetDead marks the container unless stopping it failed.
LEMMA SetDeadDoes ==
  ASSUME Stacks, NEW c \in Client, SetDead(c)
  PROVE  Passive(c) \/ Dies(c)
<1>1. At(c, "rmStopped") /\ pc[c] # <<>> /\ Top(c) = "rmStopped"
  BY Zenon, AtTop DEF SetDead
<1>2. ASSUME Goto(c, "rmEnd"), UNCHANGED state PROVE Passive(c)
  <2>1. Still
    BY Zenon, <1>2 DEF SetDead, daemonVars, Still, Stacks, TypeOK
  <2>2. "rmStopped" \in Unmarked \ {"rm"} /\ "rmEnd" \in Unmarked \ {"idle", "rm"}
    BY Zenon, Passing
  <2>3. "rmEnd" \in Removing /\ "rmStopped" \in Removing /\ "rmEnd" \notin Freezing
    BY Zenon, Passing
  <2>4. QED
    BY Zenon, <1>1, <1>2, <2>1, <2>2, <2>3, PassiveGoto
<1>3. ASSUME Goto(c, "rmRemove") PROVE Step(c, {"rmRemove"})
  BY Zenon, <1>1, <1>3, GotoStep DEF Label, Removing, Freezing
<1>4. QED
  BY Zenon, <1>1, <1>2, <1>3 DEF SetDead, Dies

\* The removal from the registers comes to its deferred end.
LEMMA RmRemoveDoes ==
  ASSUME Stacks, NEW c \in Client, RmRemove(c)
  PROVE  Top(c) = "rmRemove" /\ Step(c, {"rmEnd"})
<1>1. pc[c] # <<>> /\ Top(c) = "rmRemove"
  BY Zenon, AtTop DEF RmRemove
<1>2. res' \in [Client -> {"ok", "err"}]
  BY Zenon DEF RmRemove, Stacks, TypeOK
<1>3. QED
  BY Zenon, <1>1, <1>2, ToRmEnd, Passing DEF RmRemove

\* containerRestart calls the stop and then the start.
LEMMA ContainerRestartDoes ==
  ASSUME Stacks, NEW c \in Client, ContainerRestart(c)
  PROVE  Passive(c)
<1>1. At(c, "restart1") /\ Still
  BY Zenon, MovesStill DEF ContainerRestart, Stacks
<1>2. ASSUME Goto(c, "start") PROVE Passive(c)
  <2>1. "restart1" \in Unmarked \ {"rm"} /\ "start" \in Unmarked \ {"idle", "rm"}
    BY Zenon, Passing
  <2>2. "start" \notin Removing /\ "restart1" \notin Removing /\ "start" \notin Freezing
    BY Zenon, Passing
  <2>3. QED
    BY Zenon, <1>1, <1>2, <2>1, <2>2, PassiveGoto
<1>3. ASSUME Return(c, "err") PROVE Passive(c)
  BY Zenon, <1>1, <1>3, PassiveReturn, Passing
<1>4. QED
  BY Zenon, <1>2, <1>3 DEF ContainerRestart

FreezeBegins(c) ==
  /\ \/ Top(c) = "pause" /\ Step(c, {"setPaused"}) /\ ~state.Paused /\ ~state.Restarting
     \/ Top(c) = "unpause" /\ Step(c, {"setResumed"}) /\ state.Paused
  /\ mu = None /\ mu' = c /\ state.Running
  /\ UNCHANGED <<state, woken, manual, registered, epoch, rm, clientVars, containerdVars, sig, opt>>

\* containerPause and containerUnpause refuse, or go to setState with the lock held.
LEMMA ContainerPauseDoes ==
  ASSUME Stacks, NEW c \in Client, ContainerPause(c)
  PROVE  Passive(c) \/ FreezeBegins(c)
<1>1. PICK l \in {"pause", "unpause"} : At(c, l)
  BY Zenon DEF ContainerPause
<1>2. pc[c] # <<>> /\ Top(c) = l
  BY Zenon, <1>1, AtTop
<1>3. ASSUME Return(c, "err"), UNCHANGED mu PROVE Passive(c)
  <2>1. Still
    BY Zenon, <1>3 DEF ContainerPause, daemonVars, Still, Stacks, TypeOK
  <2>2. QED
    BY Zenon, <1>1, <1>3, <2>1, PassiveReturn, Passing
<1>4. ASSUME NEW a \in {"setPaused", "setResumed"}, Goto(c, a) PROVE Step(c, {a})
  BY Zenon, <1>2, <1>4, GotoStep DEF Label, Removing, Freezing
<1>5. ASSUME NEW m, At(c, m) PROVE Top(c) = m
  BY Zenon, <1>5, AtTop
<1>6. QED
  BY Zenon, <1>3, <1>4, <1>5 DEF ContainerPause, FreezeBegins

Froze(c) ==
  /\ \/ /\ Top(c) = "setPaused" /\ Step(c, {"paused"})
        /\ proc.state = "running" /\ proc' = [proc EXCEPT !.state = "paused"]
        /\ events' = Append(events, [type |-> "pause", code |-> 0])
     \/ /\ Top(c) = "setResumed" /\ Step(c, {"resumed"})
        /\ proc.state = "paused" /\ proc' = [proc EXCEPT !.state = "running"]
        /\ events' = Append(events, [type |-> "resume", code |-> 0])
  /\ ctr # 0 /\ clk = 0
  /\ UNCHANGED <<mu, state, woken, manual, registered, epoch, rm, clientVars, execs, sig, opt>>

FreezeEnds(c) ==
  /\ Top(c) \in {"setPaused", "setResumed", "stateSet"} /\ Step(c, Resume)
  /\ mu' = None
  /\ UNCHANGED <<state, woken, manual, registered, epoch, rm, clientVars, containerdVars, sig, opt>>

\* setState changes the process and waits, or returns with an error.
LEMMA SetStateDoes ==
  ASSUME Stacks, NEW c \in Client, SetState(c)
  PROVE  Froze(c) \/ FreezeEnds(c)
<1>1. PICK l \in {"setPaused", "setResumed"} : At(c, l)
  BY Zenon DEF SetState
<1>2. pc[c] # <<>> /\ Top(c) = l
  BY Zenon, <1>1, AtTop
<1>3. ASSUME Return(c, "err"), mu' = None, UNCHANGED <<proc, events>> PROVE FreezeEnds(c)
  <2>1. Step(c, Resume)
    BY Zenon, <1>2, <1>3, ReturnStep DEF Removing, Resume
  <2>2. QED
    BY Zenon, <1>2, <1>3, <2>1 DEF SetState, FreezeEnds, containerdVars
<1>4. ASSUME NEW a \in {"paused", "resumed"}, Goto(c, a) PROVE Step(c, {a})
  BY Zenon, <1>2, <1>4, GotoStep DEF Label, Removing, Freezing
<1>5. At(c, "setPaused") <=> l = "setPaused"
  BY Zenon, <1>1, <1>2, AtTop
<1>6. CASE l = "setPaused"
  BY Zenon, <1>2, <1>3, <1>4, <1>5, <1>6 DEF SetState, Froze
<1>7. CASE l = "setResumed"
  BY Zenon, <1>2, <1>3, <1>4, <1>5, <1>7 DEF SetState, Froze
<1>8. QED
  BY Zenon, <1>6, <1>7

\* The call that waited in setState returns.
LEMMA SetStateDoneDoes ==
  ASSUME Stacks, NEW c \in Client, SetStateDone(c)
  PROVE  FreezeEnds(c)
<1>1. pc[c] # <<>> /\ Top(c) = "stateSet"
  BY Zenon, AtTop DEF SetStateDone
<1>2. Step(c, Resume)
  BY Zenon, <1>1, ReturnStep DEF SetStateDone, Removing, Resume
<1>3. QED
  BY Zenon, <1>1, <1>2 DEF SetStateDone, FreezeEnds

\* A new request only enters its first label.
LEMMA RequestDoes ==
  ASSUME Stacks, NEW c \in Client, NEW op \in Ops, Request(c, op)
  PROVE  Passive(c)
<1>1. Top(c) = "idle" /\ Bottom(c) = "idle" /\ "idle" \in Unmarked /\ "idle" \notin Removing
  BY Zenon DEF Request, Top, TopOf, Bottom, BottomOf, Unmarked, Marked, Holding, Removing
<1>2. Still
  BY Zenon DEF Request, Still, Stacks, TypeOK
<1>3. ASSUME NEW l \in {"start", "stop", "kill", "ks", "rm", "pause", "unpause", "waitForever"},
             pc' = [pc EXCEPT ![c] = <<l>>]
      PROVE  Step(c, Unmarked)
  <2> DEFINE t == <<l>>
  <2>1. l \in Label /\ l \in Unmarked \ Removing
    BY Passing DEF Unmarked
  <2>2. t \in Seq(Label) /\ Len(t) = 1 /\ t[1] = l /\ t # <<>> /\ Head(t) = l
    BY <2>1
  <2>3. pc' = [pc EXCEPT ![c] = t]
    BY Zenon, <1>3
  <2> HIDE DEF t
  <2>4. TopOf(t) = l /\ BottomOf(t) = l
    BY Zenon, <2>2 DEF TopOf, BottomOf
  <2>5. StackOK(t)
    BY <2>2 DEF StackOK
  <2>6. res' \in [Client -> {"ok", "err"}]
    BY Zenon DEF Request, Stacks, TypeOK
  <2>7. QED
    BY Zenon, <1>1, <2>1, <2>2, <2>3, <2>4, <2>5, <2>6 DEF Step
<1>4. ASSUME pc' = [pc EXCEPT ![c] = <<"stop", "restart1">>]
      PROVE  Step(c, Unmarked)
  <2> DEFINE t == <<"stop", "restart1">>
  <2>1. "stop" \in Label /\ "restart1" \in Label /\ "stop" \in Unmarked \ Removing
          /\ "restart1" \in Continuation \ Removing /\ "stop" \notin Freezing
    BY Passing DEF Unmarked, Label
  <2>2. t \in Seq(Label) /\ Len(t) = 2 /\ t[1] = "stop" /\ t[2] = "restart1" /\ t # <<>> /\ Head(t) = "stop"
    BY <2>1
  <2>3. pc' = [pc EXCEPT ![c] = t]
    BY Zenon, <1>4
  <2> HIDE DEF t
  <2>4. TopOf(t) = "stop" /\ BottomOf(t) = "restart1"
    BY Zenon, <2>2 DEF TopOf, BottomOf
  <2>5. StackOK(t)
    <3>1. \A i \in 2..Len(t) : t[i] \in Continuation
      BY <2>1, <2>2
    <3>2. \A i \in 1..(Len(t) - 1) : t[i] \notin Removing \cup {"rm"}
      BY <2>1, <2>2
    <3>3. QED
      BY Zenon, <2>1, <2>4, <3>1, <3>2 DEF StackOK
  <2>6. res' \in [Client -> {"ok", "err"}]
    BY Zenon DEF Request, Stacks, TypeOK
  <2>7. QED
    BY Zenon, <1>1, <2>1, <2>2, <2>3, <2>4, <2>5, <2>6 DEF Step
<1>5. op \in {"start", "stop", "stopForever", "kill", "signal", "rm", "rmForce",
               "restart", "pause", "unpause", "wait"}
  BY Zenon, LifecycleAssumption
<1>6. Step(c, Unmarked)
  BY Zenon, <1>3, <1>4, <1>5 DEF Request
<1>7. QED
  BY Zenon, <1>1, <1>2, <1>6 DEF Passive, Still

\* pauseMonitor lets the calls go on that wait for this event.
Released(c, st) == (st = "pause" /\ Top(c) = "paused") \/ (st = "resume" /\ Top(c) = "resumed")

\* A callback for pause or resume moves exactly the calls that wait for it.
LEMMA HandlePauseDoes ==
  ASSUME Stacks, NEW st, HandlePause(st)
  PROVE  /\ pc' \in [Client -> Seq(Label)] /\ StacksOK'
         /\ \A c \in Client : Bottom(c)' \in Removing <=> Bottom(c) \in Removing
         /\ \A c \in Client : Released(c, st) => Top(c)' = "stateSet"
         /\ \A c \in Client : ~Released(c, st) => Top(c)' = Top(c)
<1> DEFINE t == <<"stateSet">>
<1>1. t \in Seq(Label) /\ Len(t) = 1 /\ t[1] = "stateSet" /\ t # <<>> /\ Head(t) = "stateSet"
  BY DEF Label
<1>2. pc' = [c \in Client |-> IF \/ st = "pause" /\ At(c, "paused")
                                 \/ st = "resume" /\ At(c, "resumed")
                                THEN t ELSE pc[c]]
  BY Zenon DEF HandlePause
<1> HIDE DEF t
<1>3. TopOf(t) = "stateSet" /\ BottomOf(t) = "stateSet" /\ "stateSet" \notin Removing
  BY Zenon, <1>1 DEF TopOf, BottomOf, Removing
<1>4. StackOK(t)
  BY <1>1, <1>3 DEF StackOK, Removing
<1>5. pc' \in [Client -> Seq(Label)]
  BY Zenon, <1>1, <1>2 DEF Stacks, TypeOK
<1>6. StacksOK'
  BY Zenon, <1>2, <1>4 DEF Stacks, StacksOK
<1>7. ASSUME NEW c \in Client
      PROVE  /\ At(c, "paused") <=> Top(c) = "paused"
             /\ At(c, "resumed") <=> Top(c) = "resumed"
  BY Zenon DEF At, Top, TopOf
<1>8. ASSUME NEW c \in Client, Top(c) \in {"paused", "resumed"}
      PROVE  Bottom(c) \notin Removing
  <2>1. pc[c] \in Seq(Label) /\ pc[c] # <<>> /\ Head(pc[c]) = Top(c) /\ Len(pc[c]) = 1
    BY Zenon, <1>8 DEF Stacks, TypeOK, StacksOK, StackOK, Top, TopOf, Freezing
  <2>2. Bottom(c) = Top(c)
    BY <2>1 DEF Bottom, BottomOf
  <2>3. QED
    BY Zenon, <1>8, <2>2 DEF Removing
<1>9. ASSUME NEW c \in Client
      PROVE  /\ Bottom(c)' \in Removing <=> Bottom(c) \in Removing
             /\ Released(c, st) => Top(c)' = "stateSet"
             /\ ~Released(c, st) => Top(c)' = Top(c)
  <2>1. CASE Released(c, st)
    <3>1. pc'[c] = t
      BY Zenon, <1>2, <1>7, <2>1 DEF Released
    <3>2. Bottom(c)' = "stateSet" /\ Top(c)' = "stateSet"
      BY Zenon, <1>3, <3>1 DEF Top, Bottom
    <3>3. QED
      BY Zenon, <1>3, <1>8, <2>1, <3>2 DEF Released
  <2>2. CASE ~Released(c, st)
    <3>1. pc'[c] = pc[c]
      BY Zenon, <1>2, <1>7, <2>2 DEF Released
    <3>2. Bottom(c)' = Bottom(c) /\ Top(c)' = Top(c)
      BY Zenon, <3>1 DEF Top, Bottom
    <3>3. QED
      BY Zenon, <2>2, <3>2
  <2>3. QED
    BY Zenon, <2>1, <2>2
<1>10. QED
  BY Zenon, <1>5, <1>6, <1>9

-----------------------------------------------------------------------------
(* What a step of a call keeps *)

Waiting == {"waiting", "waitingForever"}

\* The epochs are an initial segment of the numbers.
LEMMA Epochs == MaxEpoch \in Nat /\ Epoch = 1..MaxEpoch /\ Manager = 1..MaxEpoch
<1>1. Cardinality(Manager) \in Nat
  BY Zenon, LifecycleAssumption
<1>2. QED
  BY Zenon, <1>1, LifecycleAssumption DEF MaxEpoch, Epoch

\* A step that neither takes nor releases the lock, or does so as its labels say.
LEMMA LockKept ==
  ASSUME Stacks, LockOK, NEW c \in Client, NEW T, Step(c, T),
         \/ mu' = mu /\ Top(c) \notin Holding /\ T \cap Holding = {}
         \/ mu' = mu /\ Top(c) \in Holding /\ T \subseteq Holding
         \/ mu = None /\ mu' = c /\ T \subseteq Holding
         \/ mu' = None /\ Top(c) \in Holding /\ T \cap Holding = {}
  PROVE  LockOK'
<1>1. Top(c)' \in T /\ \A d \in Client \ {c} : Top(d)' = Top(d)
  BY Zenon, StepEffect
<1>2. None \notin Client
  BY Zenon, LifecycleAssumption
<1>3. \A d \in Client : mu = d <=> Top(d) \in Holding
  BY Zenon DEF LockOK
<1>4. ASSUME NEW d \in Client PROVE (mu' = d <=> Top(d)' \in Holding)
  <2>1. CASE d = c
    BY Zenon, <1>1, <1>2, <1>3, <2>1
  <2>2. CASE d # c
    BY Zenon, <1>1, <1>2, <1>3, <2>2
  <2>3. QED
    BY Zenon, <2>1, <2>2
<1>5. QED
  BY Zenon, <1>4 DEF LockOK

\* A step that stays in, or out of, a removal.
LEMMA RemovalKept ==
  ASSUME Stacks, RemovalOK, NEW c \in Client, NEW T, Step(c, T),
         state'.RemovalInProgress = state.RemovalInProgress
  PROVE  RemovalOK'
<1>1. \A d \in Client : Bottom(d)' \in Removing <=> Bottom(d) \in Removing
  BY Zenon, StepEffect
<1>2. QED
  BY Zenon, <1>1 DEF RemovalOK

\* NoLostWakeup in terms of the label on top.
LEMMA WaitingTop ==
  NoLostWakeup <=> \A d \in Client : Top(d) \in Waiting /\ ~state.Running => d \in woken
BY Zenon DEF NoLostWakeup, At, Top, TopOf, Waiting

\* A step that begins no wait and stops nothing loses no wake-up.
LEMMA WakeupKept ==
  ASSUME Stacks, NoLostWakeup, NEW c \in Client, NEW T, Step(c, T), T \cap Waiting = {},
         ~state'.Running => ~state.Running, woken \ {c} \subseteq woken'
  PROVE  NoLostWakeup'
<1>1. Top(c)' \in T /\ \A d \in Client \ {c} : Top(d)' = Top(d)
  BY Zenon, StepEffect
<1>2. \A d \in Client : Top(d) \in Waiting /\ ~state.Running => d \in woken
  BY Zenon, WaitingTop
<1>3. \A d \in Client : Top(d)' \in Waiting /\ ~state'.Running => d \in woken'
  BY Zenon, <1>1, <1>2
<1>4. NoLostWakeup' <=> \A d \in Client : Top(d)' \in Waiting /\ ~state'.Running => d \in woken'
  BY Zenon DEF NoLostWakeup, At, Top, TopOf, Waiting
<1>5. QED
  BY Zenon, <1>3, <1>4

\* More on how the sets of labels lie in each other.
LEMMA LabelSets ==
  /\ Resume \cap Holding = {} /\ Resume \cap Waiting = {} /\ Resume \subseteq Unmarked
  /\ Unmarked \cap Holding = {} /\ Unmarked \cap Waiting = {}
  /\ {"create", "signal", "setPaused", "setResumed", "paused", "resumed", "stateSet"} \subseteq Holding \ Waiting
  /\ {"rmRemove", "rmEnd", "rmStopped", "rmCheck", "rm", "waiting", "waitingForever", "waitStop", "waitForever",
      "start", "ks", "pause", "unpause"} \cap Holding = {}
  /\ {"rmRemove", "rmEnd", "rmCheck"} \cap Waiting = {}
BY DEF Resume, Continuation, Holding, Waiting, Unmarked, Marked, Label

\* The types of everything but the stacks.
RestOK ==
  /\ state \in [Running : BOOLEAN, Paused : BOOLEAN, Restarting : BOOLEAN, Dead : BOOLEAN,
                RemovalInProgress : BOOLEAN, Pid : Nat]
  /\ mu \in Client \cup {None}
  /\ woken \subseteq Client
  /\ manual \in BOOLEAN /\ registered \in BOOLEAN
  /\ epoch \in 0..MaxEpoch
  /\ ManagersTypeOK
  /\ ctr \in 0..MaxEpoch
  /\ restarting \subseteq Epoch
  /\ restarter \in [Epoch -> {"none", "waiting", "started"}]
  /\ clk \in 0..MaxEpoch
  /\ queue \in Seq(StateInfo)
  /\ proc \in [inc : Nat, state : {"none", "running", "paused"}, killed : BOOLEAN]
  /\ events \in Seq(Event)
  /\ execs \in 0..MaxExec
  /\ sig \in [Client -> {"TERM", "KILL"}]
  /\ opt \in [Client -> {"", "force", "forever"}]

\* The types of the daemon's part of it.
DaemonOK ==
  /\ state \in [Running : BOOLEAN, Paused : BOOLEAN, Restarting : BOOLEAN, Dead : BOOLEAN,
                RemovalInProgress : BOOLEAN, Pid : Nat]
  /\ mu \in Client \cup {None}
  /\ woken \subseteq Client
  /\ manual \in BOOLEAN /\ registered \in BOOLEAN
  /\ epoch \in 0..MaxEpoch
  /\ ManagersTypeOK

\* A step that leaves libcontainerd's client and containerd alone keeps the types
\* if it keeps those of the daemon and of the calls' arguments.
LEMMA RestKept ==
  ASSUME RestOK, UNCHANGED <<clientVars, containerdVars>>, DaemonOK',
         sig' \in [Client -> {"TERM", "KILL"}], opt' \in [Client -> {"", "force", "forever"}]
  PROVE  RestOK'
<1>1. ctr' = ctr /\ restarting' = restarting /\ restarter' = restarter /\ clk' = clk /\ queue' = queue
  BY Zenon DEF clientVars
<1>2. proc' = proc /\ events' = events /\ execs' = execs
  BY Zenon DEF containerdVars
<1>3. ctr' \in 0..MaxEpoch /\ restarting' \subseteq Epoch /\ clk' \in 0..MaxEpoch
  BY Zenon, <1>1 DEF RestOK
<1>4. restarter' \in [Epoch -> {"none", "waiting", "started"}] /\ queue' \in Seq(StateInfo)
  BY Zenon, <1>1 DEF RestOK
<1>5. /\ proc' \in [inc : Nat, state : {"none", "running", "paused"}, killed : BOOLEAN]
      /\ events' \in Seq(Event) /\ execs' \in 0..MaxExec
  BY Zenon, <1>2 DEF RestOK
<1>6. QED
  BY Zenon, <1>3, <1>4, <1>5 DEF RestOK, DaemonOK

\* The type invariant, with the stacks apart from the rest.
LEMMA TypeSplit == TypeOK <=> RestOK /\ pc \in [Client -> Seq(Label)] /\ res \in [Client -> {"ok", "err"}]
BY Zenon DEF TypeOK, RestOK

\* A step of a call whose other effects keep the types keeps CallInv.
LEMMA CallStepKeeps ==
  ASSUME CallInv, NEW c \in Client, NEW T, Step(c, T), RestOK',
         \/ mu' = mu /\ Top(c) \notin Holding /\ T \cap Holding = {}
         \/ mu' = mu /\ Top(c) \in Holding /\ T \subseteq Holding
         \/ mu = None /\ mu' = c /\ T \subseteq Holding
         \/ mu' = None /\ Top(c) \in Holding /\ T \cap Holding = {},
         state'.RemovalInProgress = state.RemovalInProgress, NoLostWakeup'
  PROVE  CallInv'
<1>1. Stacks /\ LockOK /\ RemovalOK
  BY Zenon DEF CallInv, Stacks
<1>2. pc' \in [Client -> Seq(Label)] /\ StacksOK'
  BY Zenon, <1>1, StepEffect
<1>3. res' \in [Client -> {"ok", "err"}]
  BY Zenon DEF Step
<1>4. TypeOK'
  BY Zenon, <1>2, <1>3, TypeSplit DEF TypeOK, RestOK
<1>5. LockOK'
  BY Zenon, <1>1, LockKept
<1>6. RemovalOK'
  BY Zenon, <1>1, RemovalKept
<1>7. QED
  BY Zenon, <1>2, <1>4, <1>5, <1>6 DEF CallInv

\* CallInv for the steps that only move a call on.
LEMMA PassiveCallInv == ASSUME CallInv, NEW c \in Client, Passive(c) PROVE CallInv'
<1>1. RestOK /\ Stacks /\ NoLostWakeup
  BY Zenon, TypeSplit DEF CallInv, Stacks
<1>2. RestOK'
  <2>1. UNCHANGED <<state, mu, woken, manual, registered, epoch, rm>> /\ UNCHANGED <<clientVars, containerdVars>>
    BY Zenon DEF Passive, daemonVars
  <2>2. DaemonOK'
    BY Zenon, <1>1, <2>1 DEF RestOK, DaemonOK, ManagersTypeOK
  <2>3. sig' \in [Client -> {"TERM", "KILL"}] /\ opt' \in [Client -> {"", "force", "forever"}]
    BY Zenon DEF Passive
  <2>4. QED
    BY Zenon, <1>1, <2>1, <2>2, <2>3, RestKept
<1>3. UNCHANGED <<mu, state, woken>> /\ Step(c, Unmarked) /\ Top(c) \in Unmarked
  BY Zenon DEF Passive, daemonVars
<1>4. NoLostWakeup'
  BY Zenon, <1>1, <1>3, WakeupKept, LabelSets
<1>5. QED
  BY Zenon, <1>2, <1>3, <1>4, CallStepKeeps, LabelSets

\* A new process.
ProcOK == proc \in [inc : Nat, state : {"none", "running", "paused"}, killed : BOOLEAN]

\* The number of a process, and of the next one.
LEMMA ProcType == ASSUME ProcOK PROVE proc.inc \in Nat /\ proc.inc + 1 \in Nat
BY DEF ProcOK

\* A created process has its type.
LEMMA SpawnType == ASSUME ProcOK, Spawn PROVE ProcOK'
<1> DEFINE n == proc.inc + 1
<1>1. n \in Nat
  BY Zenon, ProcType
<1>2. proc' = [inc |-> n, state |-> "running", killed |-> FALSE]
  BY Zenon DEF Spawn
<1> HIDE DEF n
<1>3. QED
  BY Zenon, <1>1, <1>2 DEF ProcOK

\* Before the first start there is no manager, and Cancel(0) does nothing.
LEMMA CancelType == ASSUME ManagersTypeOK, NEW e, Cancel(e) PROVE ManagersTypeOK'
<1>1. rm' = [rm EXCEPT ![e].canceled = TRUE]
  BY Zenon DEF Cancel
<1>2. QED
  BY Zenon, <1>1 DEF ManagersTypeOK

\* The other steps of the calls.
LEMMA StartCallInv == ASSUME CallInv, NEW c \in Client, StartBegins(c) PROVE CallInv'
<1>1. RestOK /\ Stacks /\ NoLostWakeup
  BY TypeSplit DEF CallInv, Stacks
<1>2. Step(c, {"create"}) /\ mu = None /\ mu' = c /\ UNCHANGED <<state, woken>>
  BY Zenon DEF StartBegins
<1>3. RestOK'
  <2>1. epoch \in 0..MaxEpoch
    BY Zenon, <1>1 DEF RestOK
  <2>2. epoch' \in 0..MaxEpoch
    BY <2>1, Epochs DEF StartBegins
  <2>3. QED
    BY Zenon, <1>1, <2>2 DEF StartBegins, clientVars, containerdVars, RestOK, ManagersTypeOK
<1>4. NoLostWakeup'
  BY <1>1, <1>2, WakeupKept, LabelSets
<1>5. QED
  BY Zenon, <1>2, <1>3, <1>4, CallStepKeeps, LabelSets

\* CallInv for the cancel of killWithSignal.
LEMMA KillCallInv == ASSUME CallInv, NEW c \in Client, KillBegins(c) PROVE CallInv'
<1>1. RestOK /\ Stacks /\ NoLostWakeup
  BY Zenon, TypeSplit DEF CallInv, Stacks
<1>2. /\ \/ Step(c, Resume) /\ mu' = mu
         \/ Step(c, {"signal"}) /\ mu' = c
      /\ Top(c) = "ks" /\ mu = None /\ UNCHANGED <<state, woken>>
  BY Zenon DEF KillBegins
<1>3. RestOK'
  <2>1. ManagersTypeOK'
    BY Zenon, <1>1, CancelType DEF KillBegins, RestOK
  <2>2. QED
    BY Zenon, <1>1, <2>1 DEF KillBegins, clientVars, containerdVars, RestOK
<1>4. NoLostWakeup'
  BY <1>1, <1>2, WakeupKept, LabelSets
<1>5. QED
  BY Zenon, <1>2, <1>3, <1>4, CallStepKeeps, LabelSets

\* CallInv for the begin of a wait: the container runs.
LEMMA WaitCallInv == ASSUME CallInv, NEW c \in Client, WaitBegins(c) PROVE CallInv'
<1>1. RestOK /\ Stacks /\ NoLostWakeup
  BY Zenon, TypeSplit DEF CallInv, Stacks
<1>2. /\ Top(c) \in {"waitStop", "waitForever"} /\ Step(c, Waiting)
      /\ state.Running /\ UNCHANGED <<mu, state, woken>>
  BY Zenon DEF WaitBegins, Waiting, Moves, daemonVars
<1>3. RestOK'
  BY Zenon, <1>1 DEF WaitBegins, Moves, daemonVars, clientVars, containerdVars, RestOK, ManagersTypeOK
<1>4. NoLostWakeup'
  BY Zenon, <1>2 DEF NoLostWakeup
<1>5. QED
  BY Zenon, <1>2, <1>3, <1>4, CallStepKeeps, LabelSets DEF Waiting

\* CallInv for the end of a wait.
LEMMA WaitEndsCallInv == ASSUME CallInv, NEW c \in Client, WaitEnds(c) PROVE CallInv'
<1>1. RestOK /\ Stacks /\ NoLostWakeup
  BY Zenon, TypeSplit DEF CallInv, Stacks
<1>2. /\ Top(c) \in {"waiting", "waitingForever"} /\ Step(c, Resume)
      /\ woken' = woken \ {c} /\ UNCHANGED <<mu, state>>
  BY Zenon DEF WaitEnds
<1>3. RestOK'
  <2>1. UNCHANGED <<state, mu, manual, registered, epoch, rm>> /\ UNCHANGED <<clientVars, containerdVars, sig, opt>>
    BY Zenon DEF WaitEnds
  <2>2. woken' \subseteq Client
    BY <1>1 DEF WaitEnds, RestOK
  <2>3. DaemonOK'
    BY Zenon, <1>1, <2>1, <2>2 DEF RestOK, DaemonOK, ManagersTypeOK
  <2>4. QED
    BY Zenon, <1>1, <2>1, <2>3, RestKept DEF RestOK
<1>4. NoLostWakeup'
  BY Zenon, <1>1, <1>2, WakeupKept, LabelSets
<1>5. QED
  BY Zenon, <1>2, <1>3, <1>4, CallStepKeeps, LabelSets

\* CallInv for killProcessDirectly.
LEMMA KillsProcessCallInv == ASSUME CallInv, NEW c \in Client, KillsProcess(c) PROVE CallInv'
<1>1. RestOK /\ Stacks /\ NoLostWakeup
  BY TypeSplit DEF CallInv, Stacks
<1>2. Top(c) \in Unmarked /\ Step(c, Unmarked) /\ UNCHANGED <<mu, state, woken>>
  BY DEF KillsProcess, daemonVars
<1>3. RestOK'
  BY Zenon, <1>1 DEF KillsProcess, daemonVars, clientVars, RestOK, ManagersTypeOK
<1>4. NoLostWakeup'
  BY Zenon, <1>1, <1>2, WakeupKept, LabelSets
<1>5. QED
  BY Zenon, <1>2, <1>3, <1>4, CallStepKeeps, LabelSets

\* CallInv for the signal.
LEMMA SignalCallInv == ASSUME CallInv, NEW c \in Client, Signal(c) PROVE CallInv'
<1>1. RestOK /\ Stacks /\ NoLostWakeup
  BY TypeSplit DEF CallInv, Stacks
<1>2. Top(c) = "signal" /\ Step(c, Resume) /\ mu' = None /\ UNCHANGED <<state, woken>>
  BY Zenon, <1>1, SignalDoes DEF Signal
<1>3. RestOK'
  BY Zenon, <1>1 DEF Signal, clientVars, RestOK, ManagersTypeOK
<1>4. NoLostWakeup'
  BY Zenon, <1>1, <1>2, WakeupKept, LabelSets
<1>5. QED
  BY Zenon, <1>2, <1>3, <1>4, CallStepKeeps, LabelSets

\* CallInv for SetDead.
LEMMA DiesCallInv == ASSUME CallInv, NEW c \in Client, Dies(c) PROVE CallInv'
<1>1. RestOK /\ Stacks /\ NoLostWakeup
  BY TypeSplit DEF CallInv, Stacks
<1>2. /\ Top(c) = "rmStopped" /\ Step(c, {"rmRemove"}) /\ UNCHANGED <<mu, woken>>
      /\ state' = [state EXCEPT !.Dead = TRUE]
      /\ state'.RemovalInProgress = state.RemovalInProgress /\ state'.Running = state.Running
  BY Zenon, <1>1 DEF Dies, RestOK
<1>3. RestOK'
  BY Zenon, <1>1 DEF Dies, clientVars, containerdVars, RestOK, ManagersTypeOK
<1>4. NoLostWakeup'
  BY <1>1, <1>2, WakeupKept, LabelSets
<1>5. QED
  BY <1>2, <1>3, <1>4, CallStepKeeps, LabelSets

\* CallInv for the removal from the registers.
LEMMA RmRemoveCallInv == ASSUME CallInv, NEW c \in Client, RmRemove(c) PROVE CallInv'
<1>1. RestOK /\ Stacks /\ NoLostWakeup
  BY TypeSplit DEF CallInv, Stacks
<1>2. Top(c) = "rmRemove" /\ Step(c, {"rmEnd"}) /\ UNCHANGED <<mu, state, woken>>
  BY Zenon, <1>1, RmRemoveDoes DEF RmRemove
<1>3. RestOK'
  <2>1. UNCHANGED <<state, mu, woken, manual, epoch, rm>> /\ UNCHANGED <<clientVars, containerdVars, sig, opt>>
    BY Zenon DEF RmRemove
  <2>2. registered' \in BOOLEAN
    BY <1>1 DEF RmRemove, RestOK
  <2>3. DaemonOK'
    BY Zenon, <1>1, <2>1, <2>2 DEF RestOK, DaemonOK, ManagersTypeOK
  <2>4. QED
    BY Zenon, <1>1, <2>1, <2>3, RestKept DEF RestOK
<1>4. NoLostWakeup'
  BY Zenon, <1>1, <1>2, WakeupKept, LabelSets
<1>5. QED
  BY Zenon, <1>2, <1>3, <1>4, CallStepKeeps, LabelSets

\* CallInv for a pause that takes the lock.
LEMMA FreezeCallInv == ASSUME CallInv, NEW c \in Client, FreezeBegins(c) PROVE CallInv'
<1>1. RestOK /\ Stacks /\ NoLostWakeup
  BY TypeSplit DEF CallInv, Stacks
<1>2. /\ Step(c, {"setPaused"}) \/ Step(c, {"setResumed"})
      /\ mu = None /\ mu' = c /\ UNCHANGED <<state, woken>>
  BY Zenon DEF FreezeBegins
<1>3. RestOK'
  BY Zenon, <1>1 DEF FreezeBegins, clientVars, containerdVars, RestOK, ManagersTypeOK
<1>4. NoLostWakeup'
  BY <1>1, <1>2, WakeupKept, LabelSets
<1>5. QED
  BY Zenon, <1>2, <1>3, <1>4, CallStepKeeps, LabelSets

\* CallInv for a pause that waits for its event.
LEMMA FrozeCallInv == ASSUME CallInv, NEW c \in Client, Froze(c) PROVE CallInv'
<1>1. RestOK /\ Stacks /\ NoLostWakeup
  BY TypeSplit DEF CallInv, Stacks
<1>2. /\ Top(c) \in {"setPaused", "setResumed"} /\ (Step(c, {"paused"}) \/ Step(c, {"resumed"}))
      /\ UNCHANGED <<mu, state, woken>>
  BY Zenon DEF Froze
<1>3. RestOK'
  <2>1. events' \in Seq(Event)
    <3>1. [type |-> "pause", code |-> 0] \in Event /\ [type |-> "resume", code |-> 0] \in Event
      BY Zenon DEF Event
    <3>2. events \in Seq(Event)
      BY Zenon, <1>1 DEF RestOK
    <3>3. QED
      BY <3>1, <3>2 DEF Froze
  <2>2. proc' \in [inc : Nat, state : {"none", "running", "paused"}, killed : BOOLEAN]
    BY Zenon, <1>1 DEF Froze, RestOK
  <2>3. QED
    BY Zenon, <1>1, <2>1, <2>2 DEF Froze, clientVars, RestOK, ManagersTypeOK
<1>4. NoLostWakeup'
  BY <1>1, <1>2, WakeupKept, LabelSets
<1>5. QED
  BY Zenon, <1>2, <1>3, <1>4, CallStepKeeps, LabelSets

\* CallInv for a pause that releases the lock.
LEMMA FreezeEndsCallInv == ASSUME CallInv, NEW c \in Client, FreezeEnds(c) PROVE CallInv'
<1>1. RestOK /\ Stacks /\ NoLostWakeup
  BY TypeSplit DEF CallInv, Stacks
<1>2. /\ Top(c) \in {"setPaused", "setResumed", "stateSet"} /\ Step(c, Resume)
      /\ mu' = None /\ UNCHANGED <<state, woken>>
  BY Zenon DEF FreezeEnds
<1>3. RestOK'
  BY Zenon, <1>1 DEF FreezeEnds, clientVars, containerdVars, RestOK, ManagersTypeOK
<1>4. NoLostWakeup'
  BY Zenon, <1>1, <1>2, WakeupKept, LabelSets
<1>5. QED
  BY Zenon, <1>2, <1>3, <1>4, CallStepKeeps, LabelSets

\* CallInv for Create, which releases the lock.
LEMMA CreateCallInv == ASSUME CallInv, NEW c \in Client, Create(c) PROVE CallInv'
<1>1. RestOK /\ Stacks /\ NoLostWakeup
  BY TypeSplit DEF CallInv, Stacks
<1>2. /\ Top(c) = "create" /\ Step(c, Resume) /\ mu' = None /\ UNCHANGED woken
      /\ state'.RemovalInProgress = state.RemovalInProgress
      /\ ~state'.Running => ~state.Running
  BY Zenon, <1>1, CreateDoes DEF Create, SetRunning, RestOK
<1>3. RestOK'
  <2>1. proc.inc + 1 \in Nat
    BY Zenon, <1>1, ProcType DEF ProcOK, RestOK
  <2>2. ProcOK'
    <3>1. UNCHANGED proc \/ Spawn
      BY Zenon DEF Create
    <3>2. QED
      BY Zenon, <1>1, <3>1, SpawnType DEF ProcOK, RestOK
  <2>3. state' \in [Running : BOOLEAN, Paused : BOOLEAN, Restarting : BOOLEAN, Dead : BOOLEAN,
                    RemovalInProgress : BOOLEAN, Pid : Nat]
    BY Zenon, <1>1, <2>1 DEF Create, SetRunning, RestOK
  <2>4. ctr' \in 0..MaxEpoch /\ manual' \in BOOLEAN
    BY Zenon, <1>1, Epochs DEF Create, SetRunning, RestOK
  <2>5. QED
    BY Zenon, <1>1, <2>2, <2>3, <2>4 DEF Create, RestOK, ProcOK, ManagersTypeOK
<1>4. NoLostWakeup'
  BY Zenon, <1>1, <1>2, WakeupKept, LabelSets
<1>5. QED
  BY Zenon, <1>2, <1>3, <1>4, CallStepKeeps, LabelSets

\* CallInv for the begin of a removal: there was none.
LEMMA RemovalBeginsCallInv == ASSUME CallInv, NEW c \in Client, RemovalBegins(c) PROVE CallInv'
<1>1. RestOK /\ Stacks /\ NoLostWakeup /\ LockOK /\ RemovalOK
  BY Zenon, TypeSplit DEF CallInv, Stacks
<1>2. PICK t \in Seq(Label) : /\ pc' = [pc EXCEPT ![c] = t] /\ StackOK(t)
                              /\ TopOf(t) = "rmCheck" /\ BottomOf(t) = "rmCheck"
  BY Zenon DEF RemovalBegins
<1>3. pc \in [Client -> Seq(Label)] /\ StacksOK
  BY Zenon, <1>1 DEF Stacks, TypeOK
<1>4. pc' \in [Client -> Seq(Label)] /\ pc'[c] = t /\ \A d \in Client \ {c} : pc'[d] = pc[d]
  BY Zenon, <1>2, <1>3
<1>5. StacksOK'
  BY Zenon, <1>2, <1>3, <1>4 DEF StacksOK
<1>6. Top(c)' = "rmCheck" /\ Bottom(c)' = "rmCheck"
        /\ \A d \in Client \ {c} : Top(d)' = Top(d) /\ Bottom(d)' = Bottom(d)
  BY Zenon, <1>2, <1>4 DEF Top, Bottom
<1>7. /\ state'.RemovalInProgress = TRUE /\ ~state.RemovalInProgress /\ state'.Running = state.Running
      /\ mu' = mu /\ woken' = woken /\ Top(c) = "rm"
  BY Zenon, <1>1 DEF RemovalBegins, RestOK
<1>8. RestOK'
  BY Zenon, <1>1 DEF RemovalBegins, clientVars, containerdVars, RestOK, ManagersTypeOK
<1>9. TypeOK'
  BY Zenon, <1>1, <1>4, <1>8 DEF RemovalBegins, Stacks, TypeOK, RestOK
<1>10. LockOK'
  BY Zenon, <1>1, <1>6, <1>7, LabelSets DEF LockOK
<1>11. RemovalOK'
  <2>1. \A d \in Client : Bottom(d) \notin Removing
    BY Zenon, <1>1, <1>7 DEF RemovalOK
  <2>2. \A d \in Client : Bottom(d)' \in Removing <=> d = c
    BY Zenon, <1>6, <2>1, Passing
  <2>3. QED
    BY Zenon, <1>7, <2>2 DEF RemovalOK
<1>12. NoLostWakeup'
  <2>1. \A d \in Client : Top(d) \in Waiting /\ ~state.Running => d \in woken
    BY Zenon, <1>1, WaitingTop
  <2>2. \A d \in Client : Top(d)' \in Waiting /\ ~state'.Running => d \in woken'
    BY Zenon, <1>6, <1>7, <2>1, LabelSets
  <2>3. QED
    BY Zenon, <2>2 DEF NoLostWakeup, At, Top, TopOf, Waiting
<1>13. QED
  BY Zenon, <1>5, <1>9, <1>10, <1>11, <1>12 DEF CallInv

\* CallInv for the end of a removal: there is none left.
LEMMA RemovalEndsCallInv == ASSUME CallInv, NEW c \in Client, RemovalEnds(c) PROVE CallInv'
<1>1. RestOK /\ Stacks /\ NoLostWakeup /\ LockOK /\ RemovalOK
  BY Zenon, TypeSplit DEF CallInv, Stacks
<1>2. PICK t \in Seq(Label) : /\ pc' = [pc EXCEPT ![c] = t] /\ StackOK(t)
                              /\ TopOf(t) \in Resume /\ BottomOf(t) = "idle"
  BY Zenon DEF RemovalEnds
<1>3. pc \in [Client -> Seq(Label)] /\ StacksOK
  BY Zenon, <1>1 DEF Stacks, TypeOK
<1>4. pc' \in [Client -> Seq(Label)] /\ pc'[c] = t /\ \A d \in Client \ {c} : pc'[d] = pc[d]
  BY Zenon, <1>2, <1>3
<1>5. StacksOK'
  BY Zenon, <1>2, <1>3, <1>4 DEF StacksOK
<1>6. Top(c)' \in Resume /\ Bottom(c)' = "idle"
        /\ \A d \in Client \ {c} : Top(d)' = Top(d) /\ Bottom(d)' = Bottom(d)
  BY Zenon, <1>2, <1>4 DEF Top, Bottom
<1>7. /\ state'.RemovalInProgress = FALSE /\ state'.Running = state.Running
      /\ mu' = mu /\ woken' = woken /\ Top(c) = "rmEnd" /\ Bottom(c) = "rmEnd"
  BY Zenon, <1>1 DEF RemovalEnds, RestOK
<1>8. RestOK'
  BY Zenon, <1>1 DEF RemovalEnds, clientVars, containerdVars, RestOK, ManagersTypeOK
<1>9. TypeOK'
  BY Zenon, <1>1, <1>4, <1>8 DEF RemovalEnds, Stacks, TypeOK, RestOK
<1>10. LockOK'
  BY Zenon, <1>1, <1>6, <1>7, LabelSets DEF LockOK
<1>11. RemovalOK'
  <2>1. \A d \in Client : Bottom(d) \in Removing => d = c
    BY Zenon, <1>1, <1>7, Passing DEF RemovalOK
  <2>2. "idle" \notin Removing
    BY Zenon DEF Removing
  <2>3. \A d \in Client : Bottom(d)' \notin Removing
    BY Zenon, <1>6, <2>1, <2>2
  <2>4. QED
    BY Zenon, <1>7, <2>3 DEF RemovalOK
<1>12. NoLostWakeup'
  <2>1. \A d \in Client : Top(d) \in Waiting /\ ~state.Running => d \in woken
    BY <1>1, WaitingTop
  <2>2. \A d \in Client : Top(d)' \in Waiting /\ ~state'.Running => d \in woken'
    BY Zenon, <1>6, <1>7, <2>1, LabelSets
  <2>3. QED
    BY <2>2 DEF NoLostWakeup, At, Top, TopOf, Waiting
<1>13. QED
  BY <1>5, <1>9, <1>10, <1>11, <1>12 DEF CallInv

\* A step that leaves the stacks alone.
LEMMA OtherStepKeeps ==
  ASSUME CallInv, RestOK', UNCHANGED <<pc, res, mu>>,
         state'.RemovalInProgress = state.RemovalInProgress, NoLostWakeup'
  PROVE  CallInv'
<1>1. TypeOK'
  BY Zenon DEF CallInv, TypeOK, RestOK
<1>2. StacksOK' /\ LockOK' /\ RemovalOK'
  BY Zenon DEF CallInv, StacksOK, LockOK, RemovalOK, Top, Bottom
<1>3. QED
  BY Zenon, <1>1, <1>2 DEF CallInv

\* A counted restart, and the other operations of a manager, keep its type.
LEMMA ShouldRestartType ==
  ASSUME ManagersTypeOK, NEW m \in Manager, NEW x, ShouldRestart(m, x, FALSE)
  PROVE  ManagersTypeOK'
<1> DEFINE new == [rm[m] EXCEPT !.restartCount = @ + 1, !.active = TRUE, !.wait = "selecting"]
<1>1. rm[m].restartCount + 1 \in Nat
  BY DEF ManagersTypeOK
<1>2. new \in [canceled : BOOLEAN, active : BOOLEAN, restartCount : Nat, wait : Wait]
  BY Zenon, <1>1 DEF ManagersTypeOK, Wait
<1>3. rm' = [rm EXCEPT ![m] = new]
  BY Zenon DEF ShouldRestart
<1> HIDE DEF new
<1>4. QED
  BY Zenon, <1>2, <1>3 DEF ManagersTypeOK

\* The steps of a manager keep its type.
LEMMA ManagerStepType ==
  ASSUME ManagersTypeOK, NEW m \in Manager, TimerFires(m) \/ CancelSeen(m) \/ Receive(m)
  PROVE  ManagersTypeOK'
BY DEF ManagersTypeOK, Wait, TimerFires, CancelSeen, Receive

\* What containerd and libcontainerd's event loop do.
LEMMA ExitCallInv == ASSUME CallInv, ProcessExit \/ ExecExit PROVE CallInv'
<1>1. RestOK /\ NoLostWakeup
  BY Zenon, TypeSplit DEF CallInv
<1>2. UNCHANGED <<daemonVars, clientVars, callVars>>
  BY Zenon DEF ProcessExit, ExecExit
<1>3. UNCHANGED <<state, mu, woken, pc, res>>
  BY Zenon, <1>2 DEF daemonVars, callVars
<1>4. events' \in Seq(Event)
  <2>1. events \in Seq(Event)
    BY Zenon, <1>1 DEF RestOK
  <2>2. \A code \in {0, 1} : [type |-> "exit", code |-> code] \in Event
    BY Zenon DEF Event
  <2>3. [type |-> "exitProcess", code |-> 0] \in Event
    BY Zenon DEF Event
  <2>4. CASE ProcessExit
    BY <2>1, <2>2, <2>4 DEF ProcessExit
  <2>5. CASE ExecExit
    BY <2>1, <2>3, <2>5 DEF ExecExit
  <2>6. QED
    BY <2>4, <2>5
<1>5. execs' \in 0..MaxExec /\ ProcOK'
  <2>1. execs \in 0..MaxExec /\ ProcOK /\ MaxExec \in Nat
    BY Zenon, <1>1, LifecycleAssumption DEF RestOK, ProcOK
  <2>2. CASE ProcessExit
    BY Zenon, <2>1, <2>2 DEF ProcessExit, ProcOK
  <2>3. CASE ExecExit
    BY <2>1, <2>3 DEF ExecExit, ProcOK
  <2>4. QED
    BY Zenon, <2>2, <2>3
<1>6. RestOK'
  BY Zenon, <1>1, <1>2, <1>4, <1>5 DEF daemonVars, clientVars, callVars, RestOK, ProcOK, ManagersTypeOK
<1>7. NoLostWakeup'
  BY Zenon, <1>1, <1>3 DEF NoLostWakeup, At
<1>8. QED
  BY Zenon, <1>3, <1>6, <1>7, OtherStepKeeps

\* CallInv for handleEvent.
LEMMA HandleEventCallInv == ASSUME CallInv, HandleEvent PROVE CallInv'
<1>1. RestOK /\ NoLostWakeup
  BY Zenon, TypeSplit DEF CallInv
<1>2. UNCHANGED <<state, mu, woken, pc, res>>
  BY Zenon DEF HandleEvent, callVars
<1>3. events \in Seq(Event) /\ queue \in Seq(StateInfo) /\ ctr \in 0..MaxEpoch /\ restarting \subseteq Epoch
  BY Zenon, <1>1 DEF RestOK
<1>4. ctr # 0 => ctr \in Epoch /\ ctr \in Manager
  BY <1>3, Epochs
<1>5. events # <<>> /\ events' = Tail(events) /\ Head(events) \in Event
  BY <1>3 DEF HandleEvent
<1>6. events' \in Seq(Event)
  BY <1>3, <1>5
<1>7. ManagersTypeOK'
  <2>1. rm' = rm \/ \E x : ctr # 0 /\ ShouldRestart(ctr, x, FALSE)
    BY Zenon DEF HandleEvent, HandleExit
  <2>2. QED
    BY Zenon, <1>1, <1>4, <2>1, ShouldRestartType DEF RestOK, ManagersTypeOK
<1>8. ctr' \in 0..MaxEpoch /\ restarting' \subseteq Epoch
  <2>1. (ctr' = ctr \/ ctr' = 0) /\ (restarting' = restarting \/ (ctr # 0 /\ restarting' = restarting \cup {ctr}))
    BY Zenon DEF HandleEvent, HandleExit
  <2>2. 0 \in 0..MaxEpoch
    BY Epochs
  <2>3. QED
    BY Zenon, <1>3, <1>4, <2>1, <2>2
<1>9. queue' \in Seq(StateInfo)
  <2>1. ASSUME NEW st \in {"exit", "restart", "pause", "resume", "exitProcess"}, ctr # 0
        PROVE  Append(queue, [state |-> st, epoch |-> ctr]) \in Seq(StateInfo)
    <3>1. [state |-> st, epoch |-> ctr] \in StateInfo
      BY Zenon, <1>4, <2>1 DEF StateInfo
    <3>2. QED
      BY <1>3, <3>1
  <2>2. Head(events).type \in {"exit", "pause", "resume", "exitProcess"}
    BY Zenon, <1>5 DEF Event
  <2>3. \/ queue' = queue
        \/ /\ ctr # 0
           /\ \E st \in {"exit", "restart", "pause", "resume", "exitProcess"} :
                queue' = Append(queue, [state |-> st, epoch |-> ctr])
    BY Zenon, <2>2 DEF HandleEvent, HandleExit
  <2>4. QED
    BY Zenon, <1>3, <2>1, <2>3
<1>10. RestOK'
  <2>1. UNCHANGED <<state, mu, woken, manual, registered, epoch, restarter, clk, proc, execs, sig, opt>>
    BY Zenon DEF HandleEvent, callVars
  <2>2. DaemonOK'
    BY Zenon, <1>1, <1>7, <2>1 DEF RestOK, DaemonOK
  <2>3. /\ restarter' \in [Epoch -> {"none", "waiting", "started"}] /\ clk' \in 0..MaxEpoch
        /\ proc' \in [inc : Nat, state : {"none", "running", "paused"}, killed : BOOLEAN]
        /\ execs' \in 0..MaxExec
        /\ sig' \in [Client -> {"TERM", "KILL"}] /\ opt' \in [Client -> {"", "force", "forever"}]
    BY Zenon, <1>1, <2>1 DEF RestOK
  <2>4. QED
    BY Zenon, <1>6, <1>8, <1>9, <2>2, <2>3 DEF RestOK, DaemonOK
<1>11. NoLostWakeup'
  BY Zenon, <1>1, <1>2 DEF NoLostWakeup, At
<1>12. QED
  BY Zenon, <1>2, <1>10, <1>11, OtherStepKeeps

\* CallInv for the restart that starts.
LEMMA RestartReceiveCallInv == ASSUME CallInv, NEW e \in Epoch, RestartReceive(e) PROVE CallInv'
<1>1. RestOK /\ NoLostWakeup
  BY Zenon, TypeSplit DEF CallInv
<1>2. UNCHANGED <<state, mu, woken, pc, res>>
  BY Zenon DEF RestartReceive, callVars
<1>3. e \in Manager /\ e \in 0..MaxEpoch
  BY Epochs DEF Epoch
<1>4. ManagersTypeOK'
  BY Zenon, <1>1, <1>3, ManagerStepType DEF RestartReceive, RestOK
<1>5. queue' \in Seq(StateInfo)
  <2>1. [state |-> "exit", epoch |-> e] \in StateInfo
    BY Zenon DEF StateInfo
  <2>2. queue' = queue \/ queue' = Append(queue, [state |-> "exit", epoch |-> e])
    BY Zenon DEF RestartReceive
  <2>3. queue \in Seq(StateInfo)
    BY Zenon, <1>1 DEF RestOK
  <2>4. QED
    BY <2>1, <2>2, <2>3
<1>6. ProcOK'
  <2>1. UNCHANGED proc \/ Spawn
    BY Zenon DEF RestartReceive
  <2>2. QED
    BY Zenon, <1>1, <2>1, SpawnType DEF RestOK, ProcOK
<1>7. ctr' \in 0..MaxEpoch /\ clk' \in 0..MaxEpoch /\ restarting' \subseteq Epoch
  BY Zenon, <1>1, <1>3 DEF RestartReceive, RestOK
<1>8. restarter' \in [Epoch -> {"none", "waiting", "started"}]
  BY Zenon, <1>1 DEF RestartReceive, RestOK
<1>9. RestOK'
  BY Zenon, <1>1, <1>4, <1>5, <1>6, <1>7, <1>8 DEF RestartReceive, callVars, RestOK, ProcOK
<1>10. NoLostWakeup'
  BY Zenon, <1>1, <1>2 DEF NoLostWakeup, At
<1>11. QED
  BY Zenon, <1>2, <1>9, <1>10, OtherStepKeeps

\* CallInv for the restart that is reported.
LEMMA RestartStartedCallInv == ASSUME CallInv, NEW e \in Epoch, RestartStarted(e) PROVE CallInv'
<1>1. RestOK /\ NoLostWakeup
  BY TypeSplit DEF CallInv
<1>2. UNCHANGED <<mu, woken, pc, res>>
  BY Zenon DEF RestartStarted, callVars
<1>3. proc.inc \in Nat
  BY Zenon, <1>1, ProcType DEF RestOK, ProcOK
<1>4. /\ state' \in [Running : BOOLEAN, Paused : BOOLEAN, Restarting : BOOLEAN, Dead : BOOLEAN,
                     RemovalInProgress : BOOLEAN, Pid : Nat]
      /\ state'.RemovalInProgress = state.RemovalInProgress
      /\ ~state'.Running => ~state.Running
  BY Zenon, <1>1, <1>3 DEF RestartStarted, SetRunning, RestOK
<1>5. queue' \in Seq(StateInfo)
  <2>1. [state |-> "exit", epoch |-> e] \in StateInfo
    BY DEF StateInfo
  <2>2. queue' = queue \/ queue' = Append(queue, [state |-> "exit", epoch |-> e])
    BY Zenon DEF RestartStarted
  <2>3. queue \in Seq(StateInfo)
    BY Zenon, <1>1 DEF RestOK
  <2>4. QED
    BY <2>1, <2>2, <2>3
<1>6. manual' \in BOOLEAN /\ clk' \in 0..MaxEpoch
  <2>1. (manual' = manual \/ manual' = FALSE) /\ clk' = 0
    BY DEF RestartStarted, SetRunning
  <2>2. manual \in BOOLEAN /\ 0 \in 0..MaxEpoch
    <3>1. 0 \in 0..MaxEpoch
      BY Epochs
    <3>2. manual \in BOOLEAN
      BY Zenon, <1>1 DEF RestOK
    <3>3. QED
      BY Zenon, <3>1, <3>2
  <2>3. QED
    BY Zenon, <2>1, <2>2
<1>7. restarter' \in [Epoch -> {"none", "waiting", "started"}]
  BY Zenon, <1>1 DEF RestartStarted, RestOK
<1>8. RestOK'
  BY Zenon, <1>1, <1>4, <1>5, <1>6, <1>7 DEF RestartStarted, containerdVars, callVars, RestOK, ManagersTypeOK
<1>9. NoLostWakeup'
  BY Zenon, <1>1, <1>2, <1>4 DEF NoLostWakeup, At
<1>10. QED
  BY Zenon, <1>2, <1>4, <1>8, <1>9, OtherStepKeeps

\* CallInv for a manager's timer.
LEMMA BackOffCallInv == ASSUME CallInv, NEW e \in Epoch, BackOff(e) PROVE CallInv'
<1>1. RestOK /\ NoLostWakeup
  BY Zenon, TypeSplit DEF CallInv
<1>2. UNCHANGED <<state, mu, woken, pc, res>>
  BY Zenon DEF BackOff, callVars
<1>3. ManagersTypeOK'
  BY Zenon, <1>1, ManagerStepType DEF BackOff, RestOK, Epoch
<1>4. RestOK'
  <2>1. /\ UNCHANGED <<state, mu, woken, manual, registered, epoch>>
        /\ UNCHANGED <<clientVars, containerdVars, sig, opt>>
    BY Zenon DEF BackOff, callVars
  <2>2. DaemonOK'
    BY Zenon, <1>1, <1>3, <2>1 DEF RestOK, DaemonOK
  <2>3. QED
    BY Zenon, <1>1, <2>1, <2>2, RestKept DEF RestOK
<1>5. NoLostWakeup'
  BY <1>1, <1>2 DEF NoLostWakeup, At
<1>6. QED
  BY <1>2, <1>4, <1>5, OtherStepKeeps

\* What StateChanged does to the flags and to the waiters.
LEMMA StateChangedDoes ==
  ASSUME RestOK, NEW st, StateChanged(st)
  PROVE  /\ state' \in [Running : BOOLEAN, Paused : BOOLEAN, Restarting : BOOLEAN, Dead : BOOLEAN,
                        RemovalInProgress : BOOLEAN, Pid : Nat]
         /\ state'.RemovalInProgress = state.RemovalInProgress
         /\ state'.Dead = state.Dead
         /\ woken' = woken \/ WakeWaiters
         /\ ~state'.Running => ~state.Running \/ WakeWaiters
<1>1. state \in [Running : BOOLEAN, Paused : BOOLEAN, Restarting : BOOLEAN, Dead : BOOLEAN,
                 RemovalInProgress : BOOLEAN, Pid : Nat]
  BY Zenon DEF RestOK
<1>2. CASE UNCHANGED <<state, woken>>
  BY Zenon, <1>1, <1>2
<1>3. CASE SetStopped
  BY Zenon, <1>1, <1>3 DEF SetStopped
<1>4. CASE SetRestarting
  BY Zenon, <1>1, <1>4 DEF SetRestarting
<1>5. ASSUME NEW b \in BOOLEAN, state' = [state EXCEPT !.Paused = b], UNCHANGED woken
      PROVE  /\ state' \in [Running : BOOLEAN, Paused : BOOLEAN, Restarting : BOOLEAN, Dead : BOOLEAN,
                            RemovalInProgress : BOOLEAN, Pid : Nat]
             /\ state'.RemovalInProgress = state.RemovalInProgress
             /\ state'.Dead = state.Dead
             /\ ~state'.Running => ~state.Running
  BY <1>1, <1>5
<1>6. \/ UNCHANGED <<state, woken>> \/ SetStopped \/ SetRestarting
      \/ \E b \in BOOLEAN : state' = [state EXCEPT !.Paused = b] /\ UNCHANGED woken
  BY Zenon DEF StateChanged
<1>7. QED
  BY <1>2, <1>3, <1>4, <1>5, <1>6

\* CallInv for a callback: StateChanged wakes whoever waits before it stops the container.
LEMMA RunCallbackCallInv == ASSUME CallInv, RunCallback PROVE CallInv'
<1>1. RestOK /\ NoLostWakeup /\ Stacks /\ LockOK /\ RemovalOK
  BY Zenon, TypeSplit DEF CallInv, Stacks
<1> DEFINE q == Head(queue)
<1>2. queue \in Seq(StateInfo) /\ queue # <<>> /\ queue' = Tail(queue)
  BY Zenon, <1>1 DEF RunCallback, RestOK
<1>3. q \in StateInfo /\ queue' \in Seq(StateInfo)
  BY <1>2
<1>4. StateChanged(q.state) /\ HandlePause(q.state)
  BY Zenon DEF RunCallback
<1>5. q.epoch \in Epoch
  BY <1>3 DEF StateInfo
<1>6. restarter' \in [Epoch -> {"none", "waiting", "started"}]
  BY Zenon, <1>1 DEF RunCallback, RestOK
<1> HIDE DEF q
<1>7. /\ state' \in [Running : BOOLEAN, Paused : BOOLEAN, Restarting : BOOLEAN, Dead : BOOLEAN,
                     RemovalInProgress : BOOLEAN, Pid : Nat]
      /\ state'.RemovalInProgress = state.RemovalInProgress
      /\ woken' = woken \/ WakeWaiters
      /\ ~state'.Running => ~state.Running \/ WakeWaiters
  BY Zenon, <1>1, <1>4, StateChangedDoes
<1>8. /\ pc' \in [Client -> Seq(Label)] /\ StacksOK'
      /\ \A c \in Client : Bottom(c)' \in Removing <=> Bottom(c) \in Removing
      /\ \A c \in Client : Released(c, q.state) => Top(c)' = "stateSet"
      /\ \A c \in Client : ~Released(c, q.state) => Top(c)' = Top(c)
  BY Zenon, <1>1, <1>4, HandlePauseDoes
<1>9. woken' \subseteq Client
  BY Zenon, <1>1, <1>7 DEF RestOK, WakeWaiters
<1>10. RestOK'
  BY Zenon, <1>1, <1>3, <1>6, <1>7, <1>9 DEF RunCallback, containerdVars, RestOK, ManagersTypeOK
<1>11. TypeOK'
  <2>1. res' \in [Client -> {"ok", "err"}]
    BY Zenon, <1>1 DEF RunCallback, Stacks, TypeOK
  <2>2. QED
    BY Zenon, <1>8, <1>10, <2>1 DEF TypeOK, RestOK
<1>12. LockOK'
  <2>1. mu' = mu
    BY Zenon DEF RunCallback
  <2>2. \A c \in Client : Top(c)' \in Holding <=> Top(c) \in Holding
    BY Zenon, <1>8 DEF Released, Holding
  <2>3. QED
    BY Zenon, <1>1, <2>1, <2>2 DEF LockOK
<1>13. RemovalOK'
  BY Zenon, <1>1, <1>7, <1>8 DEF RemovalOK
<1>14. NoLostWakeup'
  <2>1. \A c \in Client : Top(c) \in Waiting /\ ~state.Running => c \in woken
    BY Zenon, <1>1, WaitingTop
  <2>2. \A c \in Client : Top(c)' \in Waiting => Top(c) \in Waiting
    BY Zenon, <1>8 DEF Released, Waiting
  <2>3. ASSUME WakeWaiters, NEW c \in Client, Top(c) \in Waiting PROVE c \in woken'
    BY Zenon, <2>3 DEF WakeWaiters, Waiting, Top, TopOf, At
  <2>4. \A c \in Client : Top(c)' \in Waiting /\ ~state'.Running => c \in woken'
    BY Zenon, <1>7, <2>1, <2>2, <2>3
  <2>5. NoLostWakeup' <=> \A d \in Client : Top(d)' \in Waiting /\ ~state'.Running => d \in woken'
    BY Zenon DEF NoLostWakeup, At, Top, TopOf, Waiting
  <2>6. QED
    BY Zenon, <2>4, <2>5
<1>15. QED
  BY Zenon, <1>8, <1>11, <1>12, <1>13, <1>14 DEF CallInv

-----------------------------------------------------------------------------
(* CallInv is inductive *)

\* The steps of a call, by effect.
CallEffect(c) ==
  \/ Passive(c)
  \/ StartBegins(c) \/ Create(c) \/ KillBegins(c) \/ Signal(c) \/ KillsProcess(c)
  \/ WaitBegins(c) \/ WaitEnds(c)
  \/ RemovalBegins(c) \/ Dies(c) \/ RmRemove(c) \/ RemovalEnds(c)
  \/ FreezeBegins(c) \/ Froze(c) \/ FreezeEnds(c)

\* Every step of a call has one of these effects.
LEMMA CallDoes ==
  ASSUME Stacks, NEW c \in Client,
         ApiStep(c) \/ WaitStopTimeout(c) \/ \E op \in Ops : Request(c, op)
  PROVE  CallEffect(c)
<1> USE DEF CallEffect
<1>1. CASE ContainerStart(c) \/ Create(c) \/ KillWithSignal(c) \/ Signal(c)
  BY Zenon, <1>1, ContainerStartDoes, KillWithSignalDoes
<1>2. CASE WaitStop(c) \/ WaitStopDone(c) \/ WaitStopTimeout(c)
  BY Zenon, <1>2, WaitStopDoes, WaitStopReturns
<1>3. CASE ContainerStop(c) \/ ContainerStopWaited(c) \/ End(c)
  BY Zenon, <1>3, ContainerStopDoes
<1>4. CASE Kill(c) \/ KillSent(c) \/ KillProcessDirectly(c)
  BY Zenon, <1>4, KillDoes, KillProcessDirectlyDoes
<1>5. CASE SetRemovalInProgress(c) \/ ResetRemovalInProgress(c)
  BY Zenon, <1>5, SetRemovalInProgressDoes, ResetRemovalInProgressDoes
<1>6. CASE RmCheck(c) \/ RmKilled(c) \/ SetDead(c) \/ RmRemove(c)
  BY Zenon, <1>6, RmCheckDoes, SetDeadDoes
<1>7. CASE ContainerRestart(c) \/ ContainerPause(c) \/ SetState(c) \/ SetStateDone(c)
  BY Zenon, <1>7, ContainerRestartDoes, ContainerPauseDoes, SetStateDoes, SetStateDoneDoes
<1>8. CASE \E op \in Ops : Request(c, op)
  BY Zenon, <1>8, RequestDoes
<1>9. QED
  BY Zenon, <1>1, <1>2, <1>3, <1>4, <1>5, <1>6, <1>7, <1>8 DEF ApiStep

\* The steps of everybody else.
OtherEffect ==
  \/ ProcessExit \/ ExecExit \/ HandleEvent \/ RunCallback
  \/ \E e \in Epoch : BackOff(e) \/ RestartReceive(e) \/ RestartStarted(e)

\* Every step is one of a call or one of these.
LEMMA NextDoes ==
  ASSUME Stacks, [Next]_vars
  PROVE  (\E c \in Client : CallEffect(c)) \/ OtherEffect \/ UNCHANGED vars
<1>1. ASSUME NEW c \in Client, ApiStep(c) \/ WaitStopTimeout(c) \/ \E op \in Ops : Request(c, op)
      PROVE  CallEffect(c)
  BY Zenon, <1>1, CallDoes
<1>2. QED
  BY Zenon, <1>1 DEF Next, DaemonStep, OtherEffect

\* CallInv holds when the daemon has created the container.
LEMMA InitCallInv == Init => CallInv
<1> SUFFICES ASSUME Init PROVE CallInv
  OBVIOUS
<1>1. \A c \in Client : pc[c] = <<>>
  BY Zenon DEF Init
<1>2. \A c \in Client : Top(c) = "idle" /\ Bottom(c) = "idle"
  BY Zenon, <1>1 DEF Top, TopOf, Bottom, BottomOf
<1>3. StacksOK
  BY <1>1 DEF StacksOK, StackOK, TopOf, Freezing
<1>4. LockOK /\ RemovalOK
  BY Zenon, <1>2, LifecycleAssumption DEF LockOK, RemovalOK, Holding, Removing, Init
<1>5. NoLostWakeup
  BY Zenon, <1>1 DEF NoLostWakeup, At
<1>6. ManagersTypeOK
  BY Zenon DEF Init, ManagersInit, NewManager, ManagersTypeOK, Wait
<1>7. pc \in [Client -> Seq(Label)] /\ res \in [Client -> {"ok", "err"}]
  <2>1. <<>> \in Seq(Label)
    OBVIOUS
  <2>2. QED
    BY Zenon, <2>1 DEF Init
<1>8. RestOK
  <2>1. state \in [Running : BOOLEAN, Paused : BOOLEAN, Restarting : BOOLEAN, Dead : BOOLEAN,
                   RemovalInProgress : BOOLEAN, Pid : Nat]
    BY Zenon DEF Init
  <2>2. proc \in [inc : Nat, state : {"none", "running", "paused"}, killed : BOOLEAN]
    BY Zenon DEF Init
  <2>3. epoch \in 0..MaxEpoch /\ ctr \in 0..MaxEpoch /\ clk \in 0..MaxEpoch /\ execs \in 0..MaxExec
    <3>1. epoch = 0 /\ ctr = 0 /\ clk = 0 /\ execs = 0
      BY Zenon DEF Init
    <3>2. 0 \in 0..MaxEpoch
      BY Epochs
    <3>3. 0 \in 0..MaxExec
      BY LifecycleAssumption
    <3>4. QED
      BY Zenon, <3>1, <3>2, <3>3
  <2>4. queue \in Seq(StateInfo) /\ events \in Seq(Event)
    <3>1. queue = <<>> /\ events = <<>>
      BY Zenon DEF Init
    <3>2. QED
      BY <3>1
  <2>5. /\ mu \in Client \cup {None} /\ woken \subseteq Client /\ manual \in BOOLEAN
        /\ registered \in BOOLEAN /\ restarting \subseteq Epoch
        /\ restarter \in [Epoch -> {"none", "waiting", "started"}]
        /\ sig \in [Client -> {"TERM", "KILL"}] /\ opt \in [Client -> {"", "force", "forever"}]
    BY Zenon DEF Init
  <2>6. QED
    BY Zenon, <1>6, <2>1, <2>2, <2>3, <2>4, <2>5 DEF RestOK
<1>9. QED
  BY Zenon, <1>3, <1>4, <1>5, <1>7, <1>8, TypeSplit DEF CallInv

\* CallInv is inductive.
LEMMA CallInvStep == CallInv /\ [Next]_vars => CallInv'
<1> SUFFICES ASSUME CallInv, [Next]_vars PROVE CallInv'
  OBVIOUS
<1>1. Stacks
  BY Zenon DEF CallInv, Stacks
<1>2. ASSUME NEW c \in Client, CallEffect(c) PROVE CallInv'
  BY Zenon, <1>2, PassiveCallInv, StartCallInv, CreateCallInv, KillCallInv, SignalCallInv,
     KillsProcessCallInv, WaitCallInv, WaitEndsCallInv, RemovalBeginsCallInv, DiesCallInv,
     RmRemoveCallInv, RemovalEndsCallInv, FreezeCallInv, FrozeCallInv, FreezeEndsCallInv
     DEF CallEffect
<1>3. CASE OtherEffect
  BY Zenon, <1>3, ExitCallInv, HandleEventCallInv, RunCallbackCallInv, BackOffCallInv,
     RestartReceiveCallInv, RestartStartedCallInv DEF OtherEffect
<1>4. CASE UNCHANGED vars
  <2>1. UNCHANGED <<pc, res, mu, state>> /\ RestOK /\ NoLostWakeup
    BY Zenon, <1>4, TypeSplit DEF vars, daemonVars, callVars, CallInv
  <2>2. RestOK'
    BY Zenon, <1>4, <2>1 DEF vars, daemonVars, clientVars, containerdVars, callVars, RestOK, ManagersTypeOK
  <2>3. NoLostWakeup'
    BY Zenon, <1>4, <2>1 DEF vars, daemonVars, NoLostWakeup, At
  <2>4. QED
    BY Zenon, <2>1, <2>2, <2>3, OtherStepKeeps
<1>5. QED
  BY Zenon, <1>1, <1>2, <1>3, <1>4, NextDoes

\* The call stacks, the lock, the removal and the waiters of any number of
\* clients stay consistent, whatever other systems fail to do.
THEOREM LifecycleCalls == Spec => []CallInv
BY InitCallInv, CallInvStep, PTL DEF Spec

\* Types: State's flags, libcontainerd's queue and the call stacks.
THEOREM LifecycleTypeOK == Spec => []TypeOK
<1>1. CallInv => TypeOK
  BY DEF CallInv
<1>2. QED
  BY <1>1, LifecycleCalls, PTL

\* SetRemovalInProgress admits one removal at a time, and WaitStop loses no
\* wake-up (State's wait channel), whatever fails.
THEOREM LifecycleCallsSafe == Spec => []CallsSafe
<1>1. CallInv => CallsSafe
  <2> SUFFICES ASSUME CallInv PROVE CallsSafe
    OBVIOUS
  <2> DEFINE removing == {c \in Client : pc[c] # <<>> /\ pc[c][Len(pc[c])]
                     \in {"rmCheck", "rmKilled", "rmStopped", "rmRemove", "rmEnd"}}
  <2>1. removing = {c \in Client : Bottom(c) \in Removing}
    BY Zenon DEF Bottom, BottomOf, Removing
  <2> HIDE DEF removing
  <2>2. \A c, d \in removing : c = d
    BY Zenon, <2>1 DEF CallInv, RemovalOK
  <2>4. state.RemovalInProgress \in BOOLEAN
    BY Zenon DEF CallInv, TypeOK
  <2>5. state.RemovalInProgress <=> removing # {}
    BY Zenon, <2>1 DEF CallInv, RemovalOK
  <2>6. state.RemovalInProgress = (removing # {})
    BY Zenon, <2>4, <2>5
  <2>7. QED
    BY Zenon, <2>2, <2>6 DEF CallsSafe, OneRemoval, CallInv, removing
<1>2. QED
  BY <1>1, LifecycleCalls, PTL

-----------------------------------------------------------------------------
(* Queues *)

\* The positions of a queue after a callback or an event is added.
LEMMA AppendAt ==
  ASSUME NEW S, NEW s \in Seq(S), NEW x \in S, NEW t, t = Append(s, x)
  PROVE  /\ t \in Seq(S) /\ Len(t) = Len(s) + 1 /\ Len(s) \in Nat
         /\ t[Len(s) + 1] = x
         /\ \A i \in 1..Len(s) : i \in 1..Len(t) /\ t[i] = s[i]
         /\ \A i \in 1..Len(t) : i = Len(s) + 1 \/ i \in 1..Len(s)
OBVIOUS

\* ... and after the first one is taken.
LEMMA TailAt ==
  ASSUME NEW S, NEW s \in Seq(S), s # <<>>, NEW t, t = Tail(s)
  PROVE  /\ t \in Seq(S) /\ Len(t) = Len(s) - 1 /\ Len(s) \in Nat /\ Len(s) >= 1
         /\ s[1] = Head(s) /\ Head(s) \in S
         /\ \A i \in 1..Len(t) : i + 1 \in 1..Len(s) /\ t[i] = s[i + 1]
         /\ \A i \in 1..Len(s) : i = 1 \/ (i - 1 \in 1..Len(t) /\ t[i - 1] = s[i])
OBVIOUS

\* A callback is queued.
LEMMA QueueGrows ==
  ASSUME queue \in Seq(StateInfo), NEW x \in StateInfo, queue' = Append(queue, x)
  PROVE  /\ Callbacks' = Callbacks \cup {x}
         /\ \A S : QueuedOnce(S) /\ (x.state \in S => \A st \in S : ~Queued(st)) => QueuedOnce(S)'
<1>1. /\ Len(queue') = Len(queue) + 1 /\ Len(queue) \in Nat
      /\ queue'[Len(queue) + 1] = x
      /\ \A i \in 1..Len(queue) : i \in 1..Len(queue') /\ queue'[i] = queue[i]
      /\ \A i \in 1..Len(queue') : i = Len(queue) + 1 \/ i \in 1..Len(queue)
  BY AppendAt
<1>2. Callbacks' = Callbacks \cup {x}
  <2>1. Len(queue) + 1 \in 1..Len(queue')
    BY <1>1
  <2>2. QED
    BY Zenon, <1>1, <2>1 DEF Callbacks
<1>3. ASSUME NEW S, QueuedOnce(S), x.state \in S => \A st \in S : ~Queued(st),
             NEW i \in 1..Len(queue'), NEW j \in 1..Len(queue'),
             queue'[i].state \in S, queue'[j].state \in S
      PROVE  i = j
  <2>1. \A k \in 1..Len(queue) : queue[k].state \in S => x.state \notin S
    BY Zenon, <1>3 DEF Queued, Callbacks
  <2>2. CASE i \in 1..Len(queue) /\ j \in 1..Len(queue)
    BY Zenon, <1>1, <1>3, <2>2 DEF QueuedOnce
  <2>3. CASE i \notin 1..Len(queue) \/ j \notin 1..Len(queue)
    BY Zenon, <1>1, <1>3, <2>1, <2>3
  <2>4. QED
    BY Zenon, <2>2, <2>3
<1>4. QED
  BY Zenon, <1>2, <1>3 DEF QueuedOnce

\* The next callback is taken.
LEMMA QueueShrinks ==
  ASSUME queue \in Seq(StateInfo), queue # <<>>, queue' = Tail(queue)
  PROVE  /\ Head(queue) \in StateInfo
         /\ Callbacks = Callbacks' \cup {Head(queue)}
         /\ \A S : QueuedOnce(S) => QueuedOnce(S)'
         /\ \A S : QueuedOnce(S) /\ Head(queue).state \in S => \A st \in S : ~Queued(st)'
<1>1. /\ Len(queue') = Len(queue) - 1 /\ Len(queue) \in Nat /\ Len(queue) >= 1
      /\ queue[1] = Head(queue) /\ Head(queue) \in StateInfo
      /\ \A i \in 1..Len(queue') : i + 1 \in 1..Len(queue) /\ queue'[i] = queue[i + 1]
      /\ \A i \in 1..Len(queue) : i = 1 \/ (i - 1 \in 1..Len(queue') /\ queue'[i - 1] = queue[i])
  BY TailAt
<1>2. Callbacks = Callbacks' \cup {Head(queue)}
  <2>1. 1 \in 1..Len(queue)
    BY <1>1
  <2>2. Callbacks' \subseteq Callbacks
    BY <1>1 DEF Callbacks
  <2>3. Callbacks \subseteq Callbacks' \cup {Head(queue)}
    BY <1>1 DEF Callbacks
  <2>4. Head(queue) \in Callbacks
    BY Zenon, <1>1, <2>1 DEF Callbacks
  <2>5. QED
    BY Zenon, <2>2, <2>3, <2>4
<1>3. ASSUME NEW S, QueuedOnce(S),
             NEW i \in 1..Len(queue'), NEW j \in 1..Len(queue'),
             queue'[i].state \in S, queue'[j].state \in S
      PROVE  i = j
  <2>1. i + 1 \in 1..Len(queue) /\ queue[i + 1].state \in S /\ j + 1 \in 1..Len(queue) /\ queue[j + 1].state \in S
    BY Zenon, <1>1, <1>3
  <2>2. i + 1 = j + 1
    BY Zenon, <1>3, <2>1 DEF QueuedOnce
  <2>3. QED
    BY <2>2
<1>4. ASSUME NEW S, QueuedOnce(S), Head(queue).state \in S, NEW st \in S, Queued(st)'
      PROVE  FALSE
  <2>1. PICK i \in 1..Len(queue') : queue'[i].state = st
    BY Zenon, <1>4 DEF Queued, Callbacks
  <2>2. i + 1 \in 1..Len(queue) /\ queue[i + 1].state \in S /\ 1 \in 1..Len(queue) /\ queue[1].state \in S
    BY <1>1, <1>4, <2>1
  <2>3. i + 1 = 1
    BY Zenon, <1>4, <2>2 DEF QueuedOnce
  <2>4. QED
    BY <2>3
<1>5. QED
  BY Zenon, <1>1, <1>2, <1>3, <1>4 DEF QueuedOnce

-----------------------------------------------------------------------------
(* ManagersUsed is inductive, whatever fails *)

\* The numbers of the starts.
LEMMA Numbers ==
  ASSUME CallInv
  PROVE  /\ epoch \in Nat /\ ctr \in Nat /\ clk \in Nat
         /\ epoch # 0 => epoch \in Epoch
         /\ ctr # 0 => ctr \in Epoch
         /\ clk # 0 => clk \in Epoch
         /\ \A e \in Epoch : e \in Nat /\ e # 0
<1>1. epoch \in 0..MaxEpoch /\ ctr \in 0..MaxEpoch /\ clk \in 0..MaxEpoch
  BY Zenon DEF CallInv, TypeOK
<1>2. MaxEpoch \in Nat /\ Epoch = 1..MaxEpoch
  BY Zenon, Epochs
<1>3. QED
  BY <1>1, <1>2

\* A manager that is in use is not an unused one.
LEMMA UsedIsNotUnused ==
  ASSUME NEW e, \/ ctr = e \/ restarter[e] # "none" \/ rm[e].wait # "none" \/ rm[e].active
                \/ \E q \in Callbacks : q.epoch = e
  PROVE  ~Unused(e)
BY Zenon DEF Unused

\* Nothing that the managers' invariant is about changes.
Idle(c) ==
  /\ \A d \in Client \ {c} : Top(d)' = Top(d)
  /\ Top(c)' # "create"
  /\ UNCHANGED <<ctr, restarter, queue, epoch>>
  /\ \A e \in Epoch : /\ rm'[e].wait = rm[e].wait /\ rm'[e].active = rm[e].active
                       /\ rm'[e].restartCount = rm[e].restartCount

\* A step that leaves managers, queue and entry alone keeps ManagersUsed.
LEMMA IdleUsed == ASSUME ManagersUsed, CallInv, NEW c \in Client, Idle(c) PROVE ManagersUsed'
<1>1. \A d \in Client : Top(d)' = "create" => Top(d) = "create"
  BY Zenon DEF Idle
<1>2. \A e \in Epoch : Unused(e) => Unused(e)'
  BY Zenon DEF Idle, Unused, Callbacks
<1>3. epoch' = epoch /\ ctr' = ctr
  BY Zenon DEF Idle
<1>4. \A e \in Epoch : e > epoch' \/ (e = epoch' /\ \E d \in Client : Top(d)' = "create") => Unused(e)'
  BY Zenon, <1>1, <1>2, <1>3 DEF ManagersUsed
<1>5. \A e \in Epoch : rm'[e].wait = "restart" => ~rm'[e].active
  BY Zenon DEF Idle, ManagersUsed
<1>6. ctr' # 0 => rm'[ctr'].wait = "none" /\ ~rm'[ctr'].active
  <2>1. ctr # 0 => ctr \in Epoch
    BY Zenon, Numbers
  <2>2. QED
    BY Zenon, <1>3, <2>1 DEF Idle, ManagersUsed
<1>7. \A d \in Client : Top(d)' = "create" => epoch' # 0
  BY Zenon, <1>1, <1>3 DEF ManagersUsed
<1>8. QED
  BY Zenon, <1>4, <1>5, <1>6, <1>7 DEF ManagersUsed

\* The steps of a call that leave the managers' invariant alone.
LEMMA CallIdle ==
  ASSUME CallInv, NEW c \in Client,
         \/ Passive(c) \/ KillBegins(c) \/ Signal(c) \/ KillsProcess(c)
         \/ WaitBegins(c) \/ WaitEnds(c)
         \/ RemovalBegins(c) \/ Dies(c) \/ RmRemove(c) \/ RemovalEnds(c)
         \/ FreezeBegins(c) \/ Froze(c) \/ FreezeEnds(c)
  PROVE  Idle(c)
<1>1. Stacks
  BY Zenon DEF CallInv, Stacks
<1>2. UNCHANGED <<ctr, restarter, queue, epoch>>
  BY Zenon DEF Passive, KillBegins, Signal, KillsProcess, WaitBegins, Moves, WaitEnds, RemovalBegins, Dies,
         RmRemove, RemovalEnds, FreezeBegins, Froze, FreezeEnds, daemonVars, clientVars
<1>3. \A e \in Epoch : /\ rm'[e].wait = rm[e].wait /\ rm'[e].active = rm[e].active
                       /\ rm'[e].restartCount = rm[e].restartCount
  <2>1. CASE KillBegins(c)
    <3>1. ManagersTypeOK
      BY Zenon DEF CallInv, TypeOK
    <3>2. QED
      BY <2>1, <3>1 DEF KillBegins, Cancel, Epoch, ManagersTypeOK
  <2>2. CASE ~KillBegins(c)
    <3>1. UNCHANGED rm
      BY Zenon, <2>2 DEF Passive, Signal, KillsProcess, WaitBegins, Moves, WaitEnds, RemovalBegins, Dies,
         RmRemove, RemovalEnds, FreezeBegins, Froze, FreezeEnds, daemonVars
    <3>2. QED
      BY Zenon, <3>1
  <2>3. QED
    BY Zenon, <2>1, <2>2
<1>4. CASE RemovalBegins(c) \/ RemovalEnds(c)
  <2>1. PICK t \in Seq(Label) : pc' = [pc EXCEPT ![c] = t] /\ TopOf(t) \in Resume \cup {"rmCheck"}
    BY Zenon, <1>4 DEF RemovalBegins, RemovalEnds
  <2>2. pc'[c] = t /\ \A d \in Client \ {c} : pc'[d] = pc[d]
    BY Zenon, <2>1 DEF CallInv, TypeOK
  <2>3. Top(c)' \in Resume \cup {"rmCheck"} /\ \A d \in Client \ {c} : Top(d)' = Top(d)
    BY Zenon, <2>1, <2>2 DEF Top
  <2>4. QED
    BY Zenon, <1>2, <1>3, <2>3 DEF Idle, Resume, Continuation
<1>5. CASE ~(RemovalBegins(c) \/ RemovalEnds(c))
  <2>1. PICK T : Step(c, T) /\ "create" \notin T
    <3>1. "create" \notin Unmarked /\ "create" \notin Resume
      BY Zenon DEF Unmarked, Marked, Holding, Resume, Continuation
    <3>2. CASE Signal(c) \/ RmRemove(c)
      BY <1>1, <3>1, <3>2, SignalDoes, RmRemoveDoes
    <3>3. CASE ~(Signal(c) \/ RmRemove(c))
      <4>1. \/ Step(c, Unmarked) \/ Step(c, Resume) \/ Step(c, {"signal"}) \/ Step(c, {"waiting", "waitingForever"})
            \/ Step(c, {"rmRemove"}) \/ Step(c, {"setPaused"}) \/ Step(c, {"setResumed"})
            \/ Step(c, {"paused"}) \/ Step(c, {"resumed"})
        BY Zenon, <1>5, <3>3 DEF Passive, KillBegins, KillsProcess, WaitBegins, WaitEnds, Dies,
           FreezeBegins, Froze, FreezeEnds
      <4>2. QED
        BY <3>1, <4>1
    <3>4. QED
      BY Zenon, <3>2, <3>3
  <2>2. Top(c)' \in T /\ \A d \in Client \ {c} : Top(d)' = Top(d)
    BY Zenon, <1>1, <2>1, StepEffect
  <2>3. QED
    BY Zenon, <1>2, <1>3, <2>1, <2>2 DEF Idle
<1>6. QED
  BY Zenon, <1>4, <1>5

\* ManagersUsed for a start: it takes the first manager not yet used.
LEMMA StartUsed == ASSUME ManagersUsed, CallInv, NEW c \in Client, StartBegins(c) PROVE ManagersUsed'
<1>1. epoch' = epoch + 1 /\ epoch \in Nat
  BY Zenon, Numbers DEF StartBegins
<1>2. UNCHANGED <<ctr, restarter, queue, rm>>
  BY Zenon DEF StartBegins, clientVars
<1>3. \A e \in Epoch : Unused(e) => Unused(e)'
  BY Zenon, <1>2 DEF Unused, Callbacks
<1>4. \A e \in Epoch : e >= epoch' => e > epoch
  BY <1>1, Epochs
<1>5. \A e \in Epoch : e > epoch' \/ e = epoch' => Unused(e)'
  BY <1>1, <1>3, <1>4, Epochs DEF ManagersUsed
<1>6. QED
  BY <1>1, <1>2, <1>5 DEF ManagersUsed

\* The call at "create" is the only one there.
LEMMA CreatesAlone ==
  ASSUME CallInv, NEW c \in Client, Create(c)
  PROVE  Top(c) = "create" /\ \A d \in Client : Top(d)' # "create" /\ (d # c => Top(d)' = Top(d))
<1>1. Stacks /\ LockOK
  BY Zenon DEF CallInv, Stacks
<1>2. Top(c) = "create" /\ Step(c, Resume)
  BY Zenon, <1>1, CreateDoes
<1>3. Top(c)' \in Resume /\ \A d \in Client \ {c} : Top(d)' = Top(d)
  BY Zenon, <1>1, <1>2, StepEffect
<1>4. \A d \in Client \ {c} : Top(d) # "create"
  BY <1>1, <1>2 DEF LockOK, Holding
<1>5. QED
  BY Zenon, <1>2, <1>3, <1>4 DEF Resume, Continuation

\* ManagersUsed for Create: the entry has an idle manager.
LEMMA CreateUsed == ASSUME ManagersUsed, CallInv, NEW c \in Client, Create(c) PROVE ManagersUsed'
<1>1. Top(c) = "create" /\ \A d \in Client : Top(d)' # "create"
  BY CreatesAlone
<1>2. UNCHANGED <<epoch, rm, restarter, queue>> /\ ctr' \in {0, ctr, epoch}
  BY Zenon DEF Create
<1>3. epoch \in Epoch /\ Unused(epoch)
  BY Zenon, <1>1, Numbers DEF ManagersUsed
<1>4. \A e \in Epoch : e > epoch => Unused(e)'
  BY <1>2, <1>3, Epochs DEF ManagersUsed, Unused, Callbacks
<1>5. ctr' # 0 => rm[ctr'].wait = "none" /\ ~rm[ctr'].active
  BY Zenon, <1>2, <1>3 DEF ManagersUsed, Unused
<1>6. QED
  BY Zenon, <1>1, <1>2, <1>4, <1>5 DEF ManagersUsed

\* A step that uses only the manager of start m, which is in use already.
LEMMA OtherUsed ==
  ASSUME ManagersUsed, CallInv, NEW m \in Epoch, ~Unused(m),
         \A c \in Client : Top(c)' = "create" <=> Top(c) = "create",
         epoch' = epoch, ctr' \in {0, ctr, m},
         \A e \in Epoch \ {m} : restarter'[e] = restarter[e] /\ rm'[e] = rm[e],
         \A q \in Callbacks' : q \in Callbacks \/ q.epoch = m,
         rm'[m].wait = "restart" => ~rm'[m].active,
         ctr' = m => rm'[m].wait = "none" /\ ~rm'[m].active
  PROVE  ManagersUsed'
<1>1. ASSUME NEW e \in Epoch, Unused(e) PROVE Unused(e)'
  <2>1. e # m
    BY Zenon, <1>1
  <2>2. ctr' # e
    <3>1. e # 0
      BY Epochs
    <3>2. QED
      BY Zenon, <1>1, <2>1, <3>1 DEF Unused
  <2>3. restarter'[e] = restarter[e] /\ rm'[e] = rm[e]
    BY Zenon, <1>1, <2>1
  <2>4. \A q \in Callbacks' : q.epoch # e
    BY Zenon, <1>1, <2>1 DEF Unused
  <2>5. QED
    BY Zenon, <1>1, <2>2, <2>3, <2>4 DEF Unused
<1>2. \A e \in Epoch : e > epoch' \/ (e = epoch' /\ \E d \in Client : Top(d)' = "create") => Unused(e)'
  BY Zenon, <1>1 DEF ManagersUsed
<1>3. \A e \in Epoch : rm'[e].wait = "restart" => ~rm'[e].active
  BY Zenon DEF ManagersUsed
<1>4. ctr' # 0 => rm'[ctr'].wait = "none" /\ ~rm'[ctr'].active
  <2>1. ctr # 0 => ctr \in Epoch
    BY Zenon, Numbers
  <2>2. QED
    BY Zenon, <2>1 DEF ManagersUsed
<1>5. QED
  BY Zenon, <1>2, <1>3, <1>4 DEF ManagersUsed

\* Nothing the managers' invariant is about changes.
LEMMA StillUsed ==
  ASSUME ManagersUsed, UNCHANGED <<ctr, restarter, queue, epoch, rm, pc>>
  PROVE  ManagersUsed'
<1>1. \A c \in Client : Top(c)' = Top(c)
  BY Zenon DEF Top
<1>2. \A e \in Epoch : Unused(e)' <=> Unused(e)
  BY Zenon DEF Unused, Callbacks
<1>3. QED
  BY Zenon, <1>1, <1>2 DEF ManagersUsed

\* ManagersUsed for handleEvent: the entry goes as its manager becomes active.
LEMMA HandleEventUsed == ASSUME ManagersUsed, CallInv, HandleEvent PROVE ManagersUsed'
<1>1. UNCHANGED <<epoch, restarter, pc>>
  BY Zenon DEF HandleEvent, callVars
<1>2. CASE ctr = 0
  BY Zenon, <1>1, <1>2, StillUsed DEF HandleEvent
<1>3. CASE ctr # 0
  <2>1. ctr \in Epoch
    BY Zenon, <1>3, Numbers
  <2>2. ~Unused(ctr)
    BY Zenon, UsedIsNotUnused
  <2>3. \A c \in Client : Top(c)' = Top(c)
    BY Zenon, <1>1 DEF Top
  <2>4. queue \in Seq(StateInfo) /\ ManagersTypeOK /\ events \in Seq(Event)
    BY Zenon DEF CallInv, TypeOK
  <2>5. PICK st \in {"exit", "restart", "pause", "resume", "exitProcess"} :
          queue' = Append(queue, [state |-> st, epoch |-> ctr])
    <3>1. Head(events).type \in {"exit", "pause", "resume", "exitProcess"}
      <4>1. events # <<>>
        BY Zenon DEF HandleEvent
      <4>2. Head(events) \in Event
        BY <2>4, <4>1
      <4>3. QED
        BY Zenon, <4>2 DEF Event
    <3>2. QED
      BY Zenon, <1>3, <3>1 DEF HandleEvent, HandleExit
  <2>6. \A q \in Callbacks' : q \in Callbacks \/ q.epoch = ctr
    <3>1. [state |-> st, epoch |-> ctr] \in StateInfo
      BY Zenon, <2>1 DEF StateInfo
    <3>2. QED
      BY <2>4, <2>5, <3>1, QueueGrows
  <2>7. \/ ctr' = 0 /\ \E x : ShouldRestart(ctr, x, FALSE)
        \/ ctr' \in {0, ctr} /\ rm' = rm
    BY Zenon, <1>3 DEF HandleEvent, HandleExit
  <2>8. /\ \A e \in Epoch \ {ctr} : rm'[e] = rm[e]
        /\ rm'[ctr].wait = "restart" => ~rm'[ctr].active
    <3>1. ASSUME NEW x, ShouldRestart(ctr, x, FALSE)
          PROVE  (\A e \in Epoch \ {ctr} : rm'[e] = rm[e]) /\ rm'[ctr].wait = "selecting"
      BY <2>1, <2>4, <3>1 DEF ShouldRestart, ManagersTypeOK, Epoch
    <3>2. rm[ctr].wait = "restart" => ~rm[ctr].active
      BY Zenon, <2>1 DEF ManagersUsed
    <3>3. QED
      BY Zenon, <2>7, <3>1, <3>2
  <2>9. ctr' = ctr => rm'[ctr].wait = "none" /\ ~rm'[ctr].active
    BY Zenon, <1>3, <2>7 DEF ManagersUsed
  <2>10. QED
    BY Zenon, <1>1, <2>1, <2>2, <2>3, <2>6, <2>7, <2>8, <2>9, OtherUsed
<1>4. QED
  BY Zenon, <1>2, <1>3

\* What the next callback does to the stacks.
LEMMA CallbackTops ==
  ASSUME CallInv, RunCallback
  PROVE  /\ \A c \in Client : Released(c, Head(queue).state) => Top(c)' = "stateSet"
         /\ \A c \in Client : ~Released(c, Head(queue).state) => Top(c)' = Top(c)
         /\ \A c \in Client : Top(c)' = "create" <=> Top(c) = "create"
         /\ \A c \in Client : Top(c)' = "rmRemove" <=> Top(c) = "rmRemove"
<1>1. Stacks /\ HandlePause(Head(queue).state)
  BY Zenon DEF CallInv, Stacks, RunCallback
<1>2. /\ \A c \in Client : Released(c, Head(queue).state) => Top(c)' = "stateSet"
      /\ \A c \in Client : ~Released(c, Head(queue).state) => Top(c)' = Top(c)
  BY Zenon, <1>1, HandlePauseDoes
<1>3. QED
  BY Zenon, <1>2 DEF Released

\* ManagersUsed for a callback.
LEMMA RunCallbackUsed == ASSUME ManagersUsed, CallInv, RunCallback PROVE ManagersUsed'
<1> DEFINE q == Head(queue)
<1>1. UNCHANGED <<epoch, rm, ctr>>
  BY Zenon DEF RunCallback
<1>2. queue \in Seq(StateInfo) /\ queue # <<>> /\ queue' = Tail(queue)
  BY Zenon DEF RunCallback, CallInv, TypeOK
<1>3. q \in StateInfo /\ Callbacks = Callbacks' \cup {q}
  BY Zenon, <1>2, QueueShrinks
<1>4. q.epoch \in Epoch
  BY Zenon, <1>3 DEF StateInfo
<1>5. \A e \in Epoch \ {q.epoch} : restarter'[e] = restarter[e]
  BY Zenon DEF RunCallback, CallInv, TypeOK
<1> HIDE DEF q
<1>6. ~Unused(q.epoch)
  BY Zenon, <1>3, UsedIsNotUnused
<1>7. \A c \in Client : Top(c)' = "create" <=> Top(c) = "create"
  BY Zenon, CallbackTops
<1>8. /\ rm[q.epoch].wait = "restart" => ~rm[q.epoch].active
      /\ ctr = q.epoch => rm[q.epoch].wait = "none" /\ ~rm[q.epoch].active
  BY Zenon, <1>4, Numbers DEF ManagersUsed
<1>9. QED
  BY Zenon, <1>1, <1>3, <1>4, <1>5, <1>6, <1>7, <1>8, OtherUsed

\* ManagersUsed for the restart that starts: its manager has been received from.
LEMMA RestartReceiveUsed ==
  ASSUME ManagersUsed, CallInv, NEW e \in Epoch, RestartReceive(e) PROVE ManagersUsed'
<1>1. UNCHANGED <<epoch, pc>>
  BY Zenon DEF RestartReceive, callVars
<1>2. restarter[e] = "waiting" /\ ~Unused(e)
  BY Zenon, UsedIsNotUnused DEF RestartReceive
<1>3. \A c \in Client : Top(c)' = Top(c)
  BY Zenon, <1>1 DEF Top
<1>4. queue \in Seq(StateInfo) /\ ManagersTypeOK /\ restarter \in [Epoch -> {"none", "waiting", "started"}]
  BY Zenon DEF CallInv, TypeOK
<1>5. \A q \in Callbacks' : q \in Callbacks \/ q.epoch = e
  <2>1. [state |-> "exit", epoch |-> e] \in StateInfo
    BY Zenon DEF StateInfo
  <2>2. CASE queue' = queue
    BY Zenon, <2>2 DEF Callbacks
  <2>3. CASE queue' = Append(queue, [state |-> "exit", epoch |-> e])
    BY <1>4, <2>1, <2>3, QueueGrows
  <2>4. QED
    BY Zenon, <2>2, <2>3 DEF RestartReceive
<1>6. Receive(e)
  BY Zenon DEF RestartReceive
<1>7. /\ \A d \in Epoch \ {e} : rm'[d] = rm[d]
      /\ rm'[e].wait = "none" /\ rm'[e].active = rm[e].active
  BY <1>4, <1>6 DEF Receive, ManagersTypeOK, Epoch
<1>8. \A d \in Epoch \ {e} : restarter'[d] = restarter[d]
  BY Zenon, <1>4 DEF RestartReceive
<1>9. ctr' \in {ctr, e} /\ (ctr' = e => rm[e].wait = "restart" \/ ctr = e)
  BY Zenon DEF RestartReceive
<1>10. ctr # e
  BY Zenon, <1>6, Numbers DEF Receive, ManagersUsed
<1>11. ctr' = e => ~rm[e].active
  BY Zenon, <1>9, <1>10 DEF ManagersUsed
<1>12. QED
  BY Zenon, <1>1, <1>2, <1>3, <1>5, <1>7, <1>8, <1>9, <1>11, OtherUsed

\* ManagersUsed for the restart that is reported.
LEMMA RestartStartedUsed ==
  ASSUME ManagersUsed, CallInv, NEW e \in Epoch, RestartStarted(e) PROVE ManagersUsed'
<1>1. UNCHANGED <<epoch, pc, rm, ctr>>
  BY Zenon DEF RestartStarted, callVars
<1>2. ~Unused(e)
  BY Zenon, UsedIsNotUnused DEF RestartStarted
<1>3. \A c \in Client : Top(c)' = Top(c)
  BY Zenon, <1>1 DEF Top
<1>4. queue \in Seq(StateInfo) /\ restarter \in [Epoch -> {"none", "waiting", "started"}]
  BY Zenon DEF CallInv, TypeOK
<1>5. \A q \in Callbacks' : q \in Callbacks \/ q.epoch = e
  <2>1. [state |-> "exit", epoch |-> e] \in StateInfo
    BY DEF StateInfo
  <2>2. CASE queue' = queue
    BY Zenon, <2>2 DEF Callbacks
  <2>3. CASE queue' = Append(queue, [state |-> "exit", epoch |-> e])
    BY <1>4, <2>1, <2>3, QueueGrows
  <2>4. QED
    BY Zenon, <2>2, <2>3 DEF RestartStarted
<1>6. \A d \in Epoch \ {e} : restarter'[d] = restarter[d]
  BY Zenon, <1>4 DEF RestartStarted
<1>7. /\ rm[e].wait = "restart" => ~rm[e].active
      /\ ctr = e => rm[e].wait = "none" /\ ~rm[e].active
  BY Zenon, Numbers DEF ManagersUsed
<1>8. QED
  BY Zenon, <1>1, <1>2, <1>3, <1>5, <1>6, <1>7, OtherUsed

\* ManagersUsed for a timer: the manager is inactive once it says restart.
LEMMA BackOffUsed ==
  ASSUME ManagersUsed, CallInv, NEW e \in Epoch, BackOff(e) PROVE ManagersUsed'
<1>1. UNCHANGED <<epoch, pc, ctr, restarter, queue>>
  BY Zenon DEF BackOff, callVars, clientVars
<1>2. rm[e].wait = "selecting" /\ ~Unused(e)
  BY Zenon, UsedIsNotUnused DEF BackOff, TimerFires, CancelSeen
<1>3. \A c \in Client : Top(c)' = Top(c)
  BY Zenon, <1>1 DEF Top
<1>4. ManagersTypeOK
  BY Zenon DEF CallInv, TypeOK
<1>5. /\ \A d \in Epoch \ {e} : rm'[d] = rm[d]
      /\ rm'[e].wait = "restart" => ~rm'[e].active
  BY <1>4 DEF BackOff, TimerFires, CancelSeen, ManagersTypeOK, Epoch
<1>6. ctr # e
  BY Zenon, <1>2, Numbers DEF ManagersUsed
<1>7. Callbacks' = Callbacks
  BY Zenon, <1>1 DEF Callbacks
<1>8. QED
  BY Zenon, <1>1, <1>2, <1>3, <1>5, <1>6, <1>7, OtherUsed

\* Nothing is queued and nobody calls when the daemon starts.
LEMMA InitEmpty ==
  ASSUME Init
  PROVE  /\ Callbacks = {} /\ Stream = {} /\ \A c \in Client : Top(c) = "idle"
         /\ ctr = 0 /\ epoch = 0 /\ clk = 0 /\ queue = <<>> /\ events = <<>>
<1>1. queue = <<>> /\ events = <<>> /\ ctr = 0 /\ epoch = 0 /\ clk = 0 /\ \A c \in Client : pc[c] = <<>>
  BY Zenon DEF Init
<1>2. Callbacks = {} /\ Stream = {}
  BY <1>1 DEF Callbacks, Stream
<1>3. QED
  BY Zenon, <1>1, <1>2 DEF Top, TopOf

\* No manager is in use at first.
LEMMA InitUsed == Init => ManagersUsed
<1> SUFFICES ASSUME Init PROVE ManagersUsed
  OBVIOUS
<1>1. Callbacks = {} /\ \A c \in Client : Top(c) = "idle"
  BY Zenon, InitEmpty
<1>2. ctr = 0 /\ epoch = 0 /\ \A e \in Epoch : e # 0
  BY Zenon, InitEmpty, InitCallInv, Numbers
<1>3. \A e \in Epoch : rm[e] = NewManager /\ restarter[e] = "none"
  BY Zenon DEF Init, ManagersInit, Epoch
<1>4. \A e \in Epoch : Unused(e)
  BY <1>1, <1>2, <1>3 DEF Unused, NewManager
<1>5. QED
  BY <1>1, <1>2, <1>3, <1>4 DEF ManagersUsed, NewManager

\* ManagersUsed is inductive.
LEMMA ManagersUsedStep == CallInv /\ ManagersUsed /\ [Next]_vars => ManagersUsed'
<1> SUFFICES ASSUME CallInv, ManagersUsed, [Next]_vars PROVE ManagersUsed'
  OBVIOUS
<1>1. ASSUME NEW c \in Client, CallEffect(c) PROVE ManagersUsed'
  <2>1. CASE StartBegins(c)
    BY Zenon, <2>1, StartUsed
  <2>2. CASE Create(c)
    BY Zenon, <2>2, CreateUsed
  <2>3. CASE ~StartBegins(c) /\ ~Create(c)
    <3>1. Idle(c)
      BY Zenon, <1>1, <2>3, CallIdle DEF CallEffect
    <3>2. QED
      BY Zenon, <3>1, IdleUsed
  <2>4. QED
    BY Zenon, <2>1, <2>2, <2>3
<1>2. CASE ProcessExit \/ ExecExit \/ UNCHANGED vars
  <2>1. UNCHANGED <<ctr, restarter, queue, epoch, rm, pc>>
    BY Zenon, <1>2 DEF ProcessExit, ExecExit, vars, daemonVars, clientVars, callVars
  <2>2. QED
    BY Zenon, <2>1, StillUsed
<1>3. CASE HandleEvent \/ RunCallback
  BY Zenon, <1>3, HandleEventUsed, RunCallbackUsed
<1>4. ASSUME NEW e \in Epoch, BackOff(e) \/ RestartReceive(e) \/ RestartStarted(e) PROVE ManagersUsed'
  BY Zenon, <1>4, BackOffUsed, RestartReceiveUsed, RestartStartedUsed
<1>5. Stacks
  BY Zenon DEF CallInv, Stacks
<1>6. QED
  BY Zenon, <1>1, <1>2, <1>3, <1>4, <1>5, NextDoes DEF OtherEffect

\* Each start has a restart manager of its own, which handleEvent consults only
\* when its last answer has been received, whatever fails.
THEOREM LifecycleManagers == Spec => [](CallInv /\ ManagersUsed)
<1>1. Init => CallInv /\ ManagersUsed
  BY Zenon, InitCallInv, InitUsed
<1>2. CallInv /\ ManagersUsed /\ [Next]_vars => (CallInv /\ ManagersUsed)'
  BY Zenon, CallInvStep, ManagersUsedStep
<1>3. QED
  BY <1>1, <1>2, PTL DEF Spec

\* What a step of the daemon does to the restart managers.
LEMMA ManagersStep == CallInv /\ ManagersUsed /\ [Next]_vars => [ManagersNext]_rm
<1> SUFFICES ASSUME CallInv, ManagersUsed, [Next]_vars PROVE [ManagersNext]_rm
  OBVIOUS
<1>1. ASSUME NEW c \in Client, CallEffect(c) PROVE [ManagersNext]_rm
  <2>1. CASE KillBegins(c)
    <3>1. Cancel(epoch)
      BY Zenon, <2>1 DEF KillBegins
    <3>2. CASE epoch \in Manager
      BY Zenon, <3>1, <3>2 DEF ManagersNext
    <3>3. CASE epoch \notin Manager
      <4>1. ManagersTypeOK /\ rm' = [rm EXCEPT ![epoch].canceled = TRUE]
        BY Zenon, <3>1 DEF Cancel, CallInv, TypeOK
      <4>2. rm' = rm
        BY <3>3, <4>1 DEF ManagersTypeOK
      <4>3. QED
        BY Zenon, <4>2
    <3>4. QED
      BY Zenon, <3>2, <3>3
  <2>2. CASE ~KillBegins(c)
    BY Zenon, <1>1, <2>2 DEF CallEffect, Passive, StartBegins, Create, Signal, KillsProcess, WaitBegins, Moves,
       WaitEnds, RemovalBegins, Dies, RmRemove, RemovalEnds, FreezeBegins, Froze, FreezeEnds, daemonVars
  <2>3. QED
    BY Zenon, <2>1, <2>2
<1>2. CASE HandleEvent
  <2>1. events \in Seq(Event) /\ events # <<>>
    BY Zenon, <1>2 DEF HandleEvent, CallInv, TypeOK
  <2>2. Head(events) \in Event
    BY <2>1
  <2>3. Head(events).code \in {0, 1}
    BY Zenon, <2>2 DEF Event
  <2>4. UNCHANGED rm \/ (ctr # 0 /\ ShouldRestart(ctr, Head(events).code, FALSE))
    BY Zenon, <1>2 DEF HandleEvent, HandleExit
  <2>5. ctr # 0 => ctr \in Manager /\ rm[ctr].wait = "none"
    BY Zenon, Numbers DEF ManagersUsed, Epoch
  <2>6. QED
    BY Zenon, <2>3, <2>4, <2>5 DEF ManagersNext
<1>3. CASE ProcessExit \/ ExecExit \/ RunCallback \/ UNCHANGED vars
  BY Zenon, <1>3 DEF ProcessExit, ExecExit, RunCallback, vars, daemonVars
<1>4. ASSUME NEW e \in Epoch, BackOff(e) \/ RestartReceive(e) \/ RestartStarted(e)
      PROVE  [ManagersNext]_rm
  BY Zenon, <1>4 DEF BackOff, RestartReceive, RestartStarted, ManagersNext, Epoch
<1>5. Stacks
  BY Zenon DEF CallInv, Stacks
<1>6. QED
  BY Zenon, <1>1, <1>2, <1>3, <1>4, <1>5, NextDoes DEF OtherEffect

\* The daemon uses its restart managers as RestartManager says: what is proved
\* of ManagersSpec holds of the daemon, through every race and failure.
THEOREM LifecycleUsesManagers == Spec => ManagersSpec
<1>1. Init => ManagersInit
  BY Zenon DEF Init
<1>2. QED
  BY <1>1, ManagersStep, LifecycleManagers, PTL DEF Spec, ManagersSpec

\* ShouldRestart counts at most MaximumRetryCount restarts of one start.
THEOREM LifecycleRetriesBounded == Spec => []RetriesBounded
BY LifecycleUsesManagers, RmRetriesBounded, PTL

\* Once killWithSignal has canceled a restart manager, no restart is decided.
THEOREM LifecycleNoDecisionAfterCancel == Spec => NoDecisionAfterCancel
BY LifecycleUsesManagers, RmNoDecisionAfterCancel, PTL
=============================================================================
