------------------------- MODULE ContainerProcesses -------------------------
(***************************************************************************)
(* Proofs about ContainerLifecycle, continued: what the daemon records of  *)
(* a container agrees with containerd, and the processes of an             *)
(* on-failure:N container are counted, for any number of clients and       *)
(* starts, when no call fails whose failure leaves a process behind.       *)
(***************************************************************************)
EXTENDS ContainerProofs

-----------------------------------------------------------------------------
(* The process, when no step fails that leaves one behind *)

\* An entry of clnt.containers stands for the process, or for one whose exit
\* event is still to be handled; without one there is neither.
EntryOK ==
  /\ ctr = 0 => events = <<>> /\ ~Alive
  /\ ctr # 0 => ctr = epoch /\ state.Running /\ (Alive \/ Sent("exit"))
  /\ ExitIsLast /\ (Sent("exit") => ~Alive)

\* A restart is queued, waited for or under way, and never two of these.
RestartOK ==
  /\ QueuedOnce({"restart"})
  /\ \A q \in Callbacks : q.state = "restart" =>
       ctr = 0 /\ state.Running /\ q.epoch = epoch /\ restarter[q.epoch] = "none"
  /\ \A e \in Epoch : restarter[e] = "waiting" =>
       /\ e = epoch /\ ctr = 0 /\ state.Running
       /\ registered => state.Restarting /\ ~state.Paused
  /\ \A e \in Epoch : restarter[e] = "started" =>
       /\ e = epoch /\ ctr = e /\ clk = e /\ proc.state # "paused"
       /\ registered => state.Restarting /\ ~state.Paused
  /\ clk # 0 => restarter[clk] = "started"

\* While the container is registered a queued exit is the end of its run.
ExitOK ==
  registered =>
    /\ QueuedOnce({"exit"})
    /\ Queued("exit") => /\ ctr = 0 /\ state.Running /\ ~Queued("restart")
                         /\ \A e \in Epoch : restarter[e] = "none"

\* Who is about to create the process found the container stopped, and it
\* cannot be removed meanwhile.
CreateOK ==
  /\ \A c \in Client : Top(c) = "create" => ~state.Running /\ ~state.Dead
  /\ \A c \in Client : Top(c) = "rmRemove" => state.Dead
  /\ registered \/ state.Dead

\* The flags of a registered container.
FlagsOK ==
  /\ ~state.Running => state.Pid = 0 /\ ~state.Paused /\ ~state.Restarting
  /\ registered /\ state.Running =>
       ctr # 0 \/ Queued("restart") \/ Queued("exit") \/ \E e \in Epoch : restarter[e] = "waiting"
  /\ registered /\ state.Restarting => (\E e \in Epoch : restarter[e] # "none") \/ Queued("exit")
  /\ registered /\ ctr # 0 /\ (\A e \in Epoch : restarter[e] # "started") => state.Pid = proc.inc

\* A pause or resume on its way to the daemon, and the call that waits for it.
Flying(type) == Sent(type) \/ Queued(type)

PauseOK ==
  /\ SentOnce({"pause", "resume"}) /\ QueuedOnce({"pause", "resume"})
  /\ ~ ((Sent("pause") \/ Sent("resume")) /\ (Queued("pause") \/ Queued("resume")))
  /\ Flying("pause") => proc.state = "paused" /\ \E c \in Client : Top(c) = "paused"
  /\ Flying("resume") => proc.state # "paused" /\ \E c \in Client : Top(c) = "resumed"
  /\ registered => (state.Paused <=> (proc.state = "paused" /\ ~Flying("pause")) \/ Flying("resume"))

ProcessInv == EntryOK /\ RestartOK /\ ExitOK /\ CreateOK /\ FlagsOK /\ PauseOK

\* The processes of this start and of the ones before.
Creating == \E c \in Client : Top(c) = "create"
Restarts == Queued("restart") \/ \E e \in Epoch : restarter[e] = "waiting"
Due == (IF Creating THEN 1 ELSE 0) + (IF Restarts THEN 1 ELSE 0)
Limit(e) == (e - 1) * (1 + MaximumRetryCount) + 1 + rm[e].restartCount
CountOK ==
  PolicyName = "on-failure" /\ MaximumRetryCount > 0 =>
    /\ epoch = 0 => proc.inc = 0
    /\ epoch # 0 => proc.inc + Due <= Limit(epoch)

-----------------------------------------------------------------------------
(* ProcessInv is inductive, when no step fails that leaves a process behind *)

\* The steps that change nothing ProcessInv is about.
Unaffected ==
  /\ \A d \in Client : \A l \in {"create", "rmRemove"} : Top(d)' = l => Top(d) = l
  /\ \A d \in Client : \A l \in {"paused", "resumed"} : Top(d)' = l <=> Top(d) = l
  /\ UNCHANGED <<ctr, events, epoch, queue, restarter, registered, clk>>
  /\ proc'.inc = proc.inc /\ proc'.state = proc.state
  /\ state'.Running = state.Running /\ state'.Paused = state.Paused
  /\ state'.Restarting = state.Restarting /\ state'.Dead = state.Dead /\ state'.Pid = state.Pid

\* The queue, or the stream, is as it was.
LEMMA SameQueue ==
  ASSUME queue' = queue
  PROVE  /\ Callbacks' = Callbacks
         /\ \A st : Queued(st)' <=> Queued(st)
         /\ \A S : QueuedOnce(S)' <=> QueuedOnce(S)
BY Zenon DEF Callbacks, Queued, QueuedOnce

\* The stream is as it was.
LEMMA SameStream ==
  ASSUME events' = events
  PROVE  /\ Stream' = Stream
         /\ \A type : Sent(type)' <=> Sent(type)
         /\ \A S : SentOnce(S)' <=> SentOnce(S)
         /\ ExitIsLast' <=> ExitIsLast
BY Zenon DEF Stream, Sent, SentOnce, ExitIsLast

\* A step that leaves flags, process and queues alone keeps ProcessInv.
LEMMA UnaffectedProcess == ASSUME ProcessInv, Unaffected PROVE ProcessInv'
<1>1. /\ Callbacks' = Callbacks
      /\ \A st : Queued(st)' <=> Queued(st)
      /\ \A S : QueuedOnce(S)' <=> QueuedOnce(S)
  BY Zenon, SameQueue DEF Unaffected
<1>2. /\ \A type : Sent(type)' <=> Sent(type)
      /\ \A S : SentOnce(S)' <=> SentOnce(S)
      /\ ExitIsLast' <=> ExitIsLast
  BY Zenon, SameStream DEF Unaffected
<1>3. Alive' <=> Alive
  BY Zenon DEF Unaffected, Alive
<1>4. EntryOK'
  BY Zenon, <1>2, <1>3 DEF ProcessInv, EntryOK, Unaffected
<1>5. RestartOK'
  BY Zenon, <1>1 DEF ProcessInv, RestartOK, Unaffected
<1>6. ExitOK'
  BY Zenon, <1>1 DEF ProcessInv, ExitOK, Unaffected
<1>7. CreateOK'
  BY Zenon DEF ProcessInv, CreateOK, Unaffected
<1>8. FlagsOK'
  BY Zenon, <1>1 DEF ProcessInv, FlagsOK, Unaffected
<1>9. PauseOK'
  <2>1. \A type : Flying(type)' <=> Flying(type)
    BY Zenon, <1>1, <1>2 DEF Flying
  <2>2. QED
    BY Zenon, <1>1, <1>2, <2>1 DEF ProcessInv, PauseOK, Unaffected
<1>10. QED
  BY Zenon, <1>4, <1>5, <1>6, <1>7, <1>8, <1>9 DEF ProcessInv

\* Most steps of a call are such steps.
LEMMA CallUnaffected ==
  ASSUME CallInv, NEW c \in Client,
         \/ Passive(c) \/ KillBegins(c) \/ Signal(c) \/ KillsProcess(c)
         \/ WaitBegins(c) \/ WaitEnds(c)
         \/ RemovalBegins(c) \/ RemovalEnds(c)
         \/ FreezeBegins(c) \/ FreezeEnds(c)
  PROVE  Unaffected
<1> DEFINE L == {"create", "rmRemove", "paused", "resumed"}
<1>1. Stacks
  BY Zenon DEF CallInv, Stacks
<1>2. UNCHANGED <<ctr, events, epoch, queue, restarter, registered, clk>>
  BY Zenon DEF Passive, KillBegins, Signal, KillsProcess, WaitBegins, Moves, WaitEnds, RemovalBegins,
         RemovalEnds, FreezeBegins, FreezeEnds, daemonVars, clientVars, containerdVars
<1>3. proc'.inc = proc.inc /\ proc'.state = proc.state
  <2>1. proc' = proc \/ \E b : proc' = [proc EXCEPT !.killed = b]
    BY Zenon DEF Passive, KillBegins, Signal, KillsProcess, WaitBegins, Moves, WaitEnds, RemovalBegins,
           RemovalEnds, FreezeBegins, FreezeEnds, containerdVars
  <2>2. proc \in [inc : Nat, state : {"none", "running", "paused"}, killed : BOOLEAN]
    BY Zenon DEF CallInv, TypeOK
  <2>3. QED
    BY Zenon, <2>1, <2>2
<1>4. /\ state'.Running = state.Running /\ state'.Paused = state.Paused
      /\ state'.Restarting = state.Restarting /\ state'.Dead = state.Dead /\ state'.Pid = state.Pid
  <2>1. state' = state \/ \E b : state' = [state EXCEPT !.RemovalInProgress = b]
    BY Zenon DEF Passive, KillBegins, Signal, KillsProcess, WaitBegins, Moves, WaitEnds, RemovalBegins,
           RemovalEnds, FreezeBegins, FreezeEnds, daemonVars
  <2>2. state \in [Running : BOOLEAN, Paused : BOOLEAN, Restarting : BOOLEAN, Dead : BOOLEAN,
                   RemovalInProgress : BOOLEAN, Pid : Nat]
    BY Zenon DEF CallInv, TypeOK
  <2>3. QED
    BY Zenon, <2>1, <2>2
<1>5. Top(c) \notin L
  <2>1. Top(c) \in Unmarked \/ Top(c) \in {"ks", "signal", "waitStop", "waitForever", "waiting", "waitingForever",
                                           "rm", "rmEnd", "pause", "unpause", "setPaused", "setResumed", "stateSet"}
    BY Zenon, <1>1, SignalDoes DEF Passive, KillBegins, KillsProcess, WaitBegins, WaitEnds, RemovalBegins,
           RemovalEnds, FreezeBegins, FreezeEnds
  <2>2. QED
    BY Zenon, <2>1 DEF Unmarked, Marked, Holding
<1>6. Top(c)' \notin L /\ \A d \in Client \ {c} : Top(d)' = Top(d)
  <2>1. CASE RemovalBegins(c) \/ RemovalEnds(c)
    <3>1. PICK t \in Seq(Label) : pc' = [pc EXCEPT ![c] = t] /\ TopOf(t) \in Resume \cup {"rmCheck"}
      BY Zenon, <2>1 DEF RemovalBegins, RemovalEnds
    <3>2. pc'[c] = t /\ \A d \in Client \ {c} : pc'[d] = pc[d]
      BY Zenon, <3>1 DEF CallInv, TypeOK
    <3>3. Top(c)' \in Resume \cup {"rmCheck"} /\ \A d \in Client \ {c} : Top(d)' = Top(d)
      BY Zenon, <3>1, <3>2 DEF Top
    <3>4. QED
      BY Zenon, <3>3 DEF Resume, Continuation
  <2>2. CASE ~(RemovalBegins(c) \/ RemovalEnds(c))
    <3>1. PICK T : Step(c, T) /\ T \cap L = {}
      <4>1. Unmarked \cap L = {} /\ Resume \cap L = {}
        BY Zenon DEF Unmarked, Marked, Holding, Resume, Continuation
      <4>2. \/ Step(c, Unmarked) \/ Step(c, Resume) \/ Step(c, {"signal"}) \/ Step(c, {"waiting", "waitingForever"})
            \/ Step(c, {"setPaused"}) \/ Step(c, {"setResumed"})
        BY Zenon, <1>1, <2>2, SignalDoes DEF Passive, KillBegins, KillsProcess, WaitBegins, WaitEnds,
           FreezeBegins, FreezeEnds
      <4>3. QED
        BY <4>1, <4>2
    <3>2. Top(c)' \in T /\ \A d \in Client \ {c} : Top(d)' = Top(d)
      BY Zenon, <1>1, <3>1, StepEffect
    <3>3. QED
      BY Zenon, <3>1, <3>2
  <2>3. QED
    BY Zenon, <2>1, <2>2
<1>7. \A d \in Client : \A l \in L : Top(d)' = l <=> Top(d) = l
  BY Zenon, <1>5, <1>6
<1>8. QED
  BY Zenon, <1>2, <1>3, <1>4, <1>7 DEF Unaffected

\* A container that does not run has no entry, no process and no restart.
LEMMA StoppedIsIdle ==
  ASSUME CallInv, ProcessInv, ~state.Running
  PROVE  /\ ctr = 0 /\ ~Alive /\ events = <<>> /\ clk = 0
         /\ ~Queued("restart") /\ (registered => ~Queued("exit"))
         /\ \A e \in Epoch : restarter[e] = "none"
<1>1. ctr = 0 /\ ~Alive /\ events = <<>>
  BY Zenon DEF ProcessInv, EntryOK
<1>2. ~Queued("restart") /\ (registered => ~Queued("exit"))
  BY Zenon DEF ProcessInv, RestartOK, ExitOK, Queued
<1>3. \A e \in Epoch : restarter[e] = "none"
  <2>1. \A e \in Epoch : restarter[e] \in {"none", "waiting", "started"}
    BY Zenon DEF CallInv, TypeOK
  <2>2. \A e \in Epoch : restarter[e] # "waiting"
    BY Zenon DEF ProcessInv, RestartOK
  <2>3. \A e \in Epoch : restarter[e] # "started"
    BY Zenon, <1>1, Numbers DEF ProcessInv, RestartOK
  <2>4. QED
    BY Zenon, <2>1, <2>2, <2>3
<1>4. clk = 0
  BY Zenon, <1>3, Numbers DEF ProcessInv, RestartOK
<1>5. QED
  BY Zenon, <1>1, <1>2, <1>3, <1>4

\* A pause or a resume flies only while the call that waits for it holds the
\* container's lock.
LEMMA NothingFlies ==
  ASSUME CallInv, PauseOK,
         mu = None \/ \E c \in Client : mu = c /\ Top(c) \notin {"paused", "resumed"}
  PROVE  /\ ~Flying("pause") /\ ~Flying("resume")
         /\ ~Sent("pause") /\ ~Sent("resume") /\ ~Queued("pause") /\ ~Queued("resume")
<1>1. \A d \in Client : Top(d) \notin {"paused", "resumed"}
  BY Zenon, LifecycleAssumption DEF CallInv, LockOK, Holding
<1>2. ~Flying("pause") /\ ~Flying("resume")
  BY Zenon, <1>1 DEF PauseOK
<1>3. QED
  BY Zenon, <1>2 DEF Flying

\* With the lock free no call is at a label that holds it.
LEMMA Unlocked == ASSUME CallInv, mu = None PROVE \A d \in Client : Top(d) \notin Holding
BY Zenon, LifecycleAssumption DEF CallInv, LockOK

\* The tops of the stacks after a step of call c.
LEMMA StepTops ==
  ASSUME CallInv, NEW c \in Client, NEW T, Step(c, T)
  PROVE  Top(c)' \in T /\ \A d \in Client \ {c} : Top(d)' = Top(d)
<1>1. Stacks
  BY Zenon DEF CallInv, Stacks
<1>2. QED
  BY Zenon, <1>1, StepEffect

\* ProcessInv for a start: the container is stopped, so nothing of it is left.
LEMMA StartProcess ==
  ASSUME CallInv, ProcessInv, NEW c \in Client, StartBegins(c) PROVE ProcessInv'
<1>1. UNCHANGED <<state, registered, ctr, restarter, clk, queue, proc, events>>
  BY Zenon DEF StartBegins, clientVars, containerdVars
<1>2. ~state.Running /\ ~state.Dead
  BY Zenon DEF StartBegins
<1>3. /\ ctr = 0 /\ ~Alive /\ events = <<>> /\ clk = 0
      /\ ~Queued("restart") /\ (registered => ~Queued("exit"))
      /\ \A e \in Epoch : restarter[e] = "none"
  BY Zenon, <1>2, StoppedIsIdle
<1>4. Top(c) = "start" /\ Top(c)' = "create" /\ \A d \in Client \ {c} : Top(d)' = Top(d)
  BY StepTops DEF StartBegins
<1>5. /\ Callbacks' = Callbacks
      /\ \A st : Queued(st)' <=> Queued(st)
      /\ \A S : QueuedOnce(S)' <=> QueuedOnce(S)
  BY Zenon, <1>1, SameQueue
<1>6. /\ \A type : Sent(type)' <=> Sent(type)
      /\ \A S : SentOnce(S)' <=> SentOnce(S)
      /\ ExitIsLast' <=> ExitIsLast
  BY Zenon, <1>1, SameStream
<1>7. EntryOK'
  BY Zenon, <1>1, <1>3, <1>6 DEF ProcessInv, EntryOK, Alive
<1>8. RestartOK'
  BY Zenon, <1>1, <1>3, <1>5 DEF ProcessInv, RestartOK, Queued
<1>9. ExitOK'
  BY Zenon, <1>1, <1>5 DEF ProcessInv, ExitOK
<1>10. CreateOK'
  BY Zenon, <1>1, <1>2, <1>4 DEF ProcessInv, CreateOK
<1>11. FlagsOK'
  BY Zenon, <1>1, <1>5 DEF ProcessInv, FlagsOK
<1>12. PauseOK'
  <2>1. \A type : Flying(type)' <=> Flying(type)
    BY Zenon, <1>5, <1>6 DEF Flying
  <2>2. \A d \in Client : (Top(d)' = "paused" <=> Top(d) = "paused") /\ (Top(d)' = "resumed" <=> Top(d) = "resumed")
    BY Zenon, <1>4
  <2>3. QED
    BY Zenon, <1>1, <1>5, <1>6, <2>1, <2>2 DEF ProcessInv, PauseOK
<1>13. QED
  BY Zenon, <1>7, <1>8, <1>9, <1>10, <1>11, <1>12 DEF ProcessInv

\* A failing step that leaves a process or an entry of clnt.containers behind:
\* AttachStreams or saving the container after the process was created, and a
\* restart that fails.
NothingLeftBehind == Failures \cap {"attach", "save", "restart", "restartAttach"} = {}

\* The process is created, and the daemon says so.
Creates ==
  /\ ~Alive /\ Spawn /\ SetRunning(proc.inc + 1) /\ ctr' = epoch
  /\ UNCHANGED <<registered, epoch, restarter, clk, queue, events>>

\* ProcessInv for Create: process, entry and flags come together.
LEMMA CreateProcess ==
  ASSUME NothingLeftBehind, CallInv, ManagersUsed, ProcessInv, NEW c \in Client, Create(c) PROVE ProcessInv'
<1>1. Top(c) = "create" /\ \A d \in Client : Top(d)' # "create" /\ (d # c => Top(d)' = Top(d))
  BY Zenon, CreatesAlone
<1>2. ~state.Running /\ ~state.Dead /\ epoch # 0
  BY Zenon, <1>1 DEF ProcessInv, CreateOK, ManagersUsed
<1>3. /\ ctr = 0 /\ ~Alive /\ events = <<>> /\ clk = 0
      /\ ~Queued("restart") /\ (registered => ~Queued("exit"))
      /\ \A e \in Epoch : restarter[e] = "none"
  BY Zenon, <1>2, StoppedIsIdle
<1>4. mu = c
  BY Zenon, <1>1 DEF CallInv, LockOK, Holding
<1>5. /\ ~Flying("pause") /\ ~Flying("resume")
      /\ ~Sent("pause") /\ ~Sent("resume") /\ ~Queued("pause") /\ ~Queued("resume")
  BY Zenon, <1>1, <1>4, NothingFlies DEF ProcessInv
<1>6. UNCHANGED <<registered, epoch, restarter, clk, queue, events>>
  BY Zenon DEF Create
<1>7. /\ Callbacks' = Callbacks
      /\ \A st : Queued(st)' <=> Queued(st)
      /\ \A S : QueuedOnce(S)' <=> QueuedOnce(S)
  BY Zenon, <1>6, SameQueue
<1>8. /\ \A type : Sent(type)' <=> Sent(type)
      /\ \A S : SentOnce(S)' <=> SentOnce(S)
      /\ ExitIsLast' <=> ExitIsLast
  BY Zenon, <1>6, SameStream
<1>9. \A type : Flying(type)' <=> Flying(type)
  BY Zenon, <1>7, <1>8 DEF Flying
<1>10. Top(c)' \in Resume
  <2>1. Stacks
    BY Zenon DEF CallInv, Stacks
  <2>2. Step(c, Resume)
    BY Zenon, <2>1, CreateDoes
  <2>3. QED
    BY Zenon, <2>2, StepTops
<1>11. Top(c)' \notin {"create", "rmRemove", "paused", "resumed"}
  BY Zenon, <1>10 DEF Resume, Continuation
<1>12. CASE UNCHANGED <<state, ctr, proc>>
  <2>1. Unaffected
    BY Zenon, <1>1, <1>6, <1>11, <1>12 DEF Unaffected
  <2>2. QED
    BY Zenon, <2>1, UnaffectedProcess
<1>13. CASE Creates
  <2>1. /\ state'.Running /\ ~state'.Paused /\ ~state'.Restarting /\ state'.Pid = proc.inc + 1
        /\ state'.Dead = state.Dead
    <3>1. state \in [Running : BOOLEAN, Paused : BOOLEAN, Restarting : BOOLEAN, Dead : BOOLEAN,
                     RemovalInProgress : BOOLEAN, Pid : Nat]
      BY Zenon DEF CallInv, TypeOK
    <3>2. QED
      BY <1>13, <3>1 DEF Creates, SetRunning
  <2>2. proc'.state = "running" /\ proc'.inc = proc.inc + 1 /\ Alive'
    BY Zenon, <1>13 DEF Creates, Spawn, Alive
  <2>3. ctr' = epoch /\ ctr' # 0
    BY Zenon, <1>2, <1>13 DEF Creates
  <2>4. EntryOK'
    <3>1. ~Sent("exit")
      BY <1>3 DEF Sent, Stream
    <3>2. QED
      BY Zenon, <1>6, <1>8, <2>1, <2>2, <2>3, <3>1 DEF ProcessInv, EntryOK
  <2>5. RestartOK'
    BY Zenon, <1>3, <1>6, <1>7 DEF ProcessInv, RestartOK, Queued
  <2>6. ExitOK'
    BY Zenon, <1>3, <1>6, <1>7 DEF ProcessInv, ExitOK
  <2>7. CreateOK'
    BY Zenon, <1>1, <1>6, <1>11, <2>1 DEF ProcessInv, CreateOK
  <2>8. FlagsOK'
    BY Zenon, <2>1, <2>2, <2>3 DEF FlagsOK
  <2>9. PauseOK'
    BY Zenon, <1>5, <1>7, <1>8, <1>9, <2>1, <2>2 DEF ProcessInv, PauseOK
  <2>10. QED
    BY Zenon, <2>4, <2>5, <2>6, <2>7, <2>8, <2>9 DEF ProcessInv
<1>14. UNCHANGED <<state, ctr, proc>> \/ Creates
  BY Zenon, <1>3, <1>6 DEF Create, Creates, NothingLeftBehind
<1>15. QED
  BY Zenon, <1>12, <1>13, <1>14

\* ProcessInv for SetDead.
LEMMA DiesProcess == ASSUME CallInv, ProcessInv, NEW c \in Client, Dies(c) PROVE ProcessInv'
<1>1. UNCHANGED <<registered, epoch, ctr, restarter, clk, queue, proc, events>>
  BY Zenon DEF Dies, clientVars, containerdVars
<1>2. /\ state'.Running = state.Running /\ state'.Paused = state.Paused
      /\ state'.Restarting = state.Restarting /\ state'.Dead /\ state'.Pid = state.Pid
  <2>1. state \in [Running : BOOLEAN, Paused : BOOLEAN, Restarting : BOOLEAN, Dead : BOOLEAN,
                   RemovalInProgress : BOOLEAN, Pid : Nat]
    BY Zenon DEF CallInv, TypeOK
  <2>2. QED
    BY <2>1 DEF Dies
<1>3. Top(c) = "rmStopped" /\ Top(c)' = "rmRemove" /\ \A d \in Client \ {c} : Top(d)' = Top(d)
  BY StepTops DEF Dies
<1>4. \A d \in Client : Top(d)' # "create"
  BY Zenon, <1>3, Unlocked DEF Dies, Holding
<1>5. /\ Callbacks' = Callbacks
      /\ \A st : Queued(st)' <=> Queued(st)
      /\ \A S : QueuedOnce(S)' <=> QueuedOnce(S)
  BY <1>1, SameQueue
<1>6. /\ \A type : Sent(type)' <=> Sent(type)
      /\ \A S : SentOnce(S)' <=> SentOnce(S)
      /\ ExitIsLast' <=> ExitIsLast
  BY Zenon, <1>1, SameStream
<1>7. EntryOK'
  BY Zenon, <1>1, <1>2, <1>6 DEF ProcessInv, EntryOK, Alive
<1>8. RestartOK'
  BY Zenon, <1>1, <1>2, <1>5 DEF ProcessInv, RestartOK
<1>9. ExitOK'
  BY Zenon, <1>1, <1>2, <1>5 DEF ProcessInv, ExitOK
<1>10. CreateOK'
  BY Zenon, <1>2, <1>4 DEF CreateOK
<1>11. FlagsOK'
  BY Zenon, <1>1, <1>2, <1>5 DEF ProcessInv, FlagsOK
<1>12. PauseOK'
  <2>1. \A type : Flying(type)' <=> Flying(type)
    BY Zenon, <1>5, <1>6 DEF Flying
  <2>2. \A d \in Client : (Top(d)' = "paused" <=> Top(d) = "paused") /\ (Top(d)' = "resumed" <=> Top(d) = "resumed")
    BY Zenon, <1>3
  <2>3. QED
    BY Zenon, <1>1, <1>2, <1>5, <1>6, <2>1, <2>2 DEF ProcessInv, PauseOK
<1>13. QED
  BY Zenon, <1>7, <1>8, <1>9, <1>10, <1>11, <1>12 DEF ProcessInv

\* ProcessInv for the removal from the registers.
LEMMA RmRemoveProcess == ASSUME CallInv, ProcessInv, NEW c \in Client, RmRemove(c) PROVE ProcessInv'
<1>1. UNCHANGED <<state, epoch, ctr, restarter, clk, queue, proc, events>>
  BY Zenon DEF RmRemove, clientVars, containerdVars
<1>2. registered' => registered
  BY Zenon DEF RmRemove
<1>3. Top(c) = "rmRemove" /\ Top(c)' = "rmEnd" /\ \A d \in Client \ {c} : Top(d)' = Top(d)
  <2>1. Stacks
    BY DEF CallInv, Stacks
  <2>2. Top(c) = "rmRemove" /\ Step(c, {"rmEnd"})
    BY <2>1, RmRemoveDoes
  <2>3. QED
    BY <2>2, StepTops
<1>4. state.Dead
  BY Zenon, <1>3 DEF ProcessInv, CreateOK
<1>5. /\ Callbacks' = Callbacks
      /\ \A st : Queued(st)' <=> Queued(st)
      /\ \A S : QueuedOnce(S)' <=> QueuedOnce(S)
  BY Zenon, <1>1, SameQueue
<1>6. /\ \A type : Sent(type)' <=> Sent(type)
      /\ \A S : SentOnce(S)' <=> SentOnce(S)
      /\ ExitIsLast' <=> ExitIsLast
  BY Zenon, <1>1, SameStream
<1>7. EntryOK'
  BY Zenon, <1>1, <1>6 DEF ProcessInv, EntryOK, Alive
<1>8. RestartOK'
  BY Zenon, <1>1, <1>2, <1>5 DEF ProcessInv, RestartOK
<1>9. ExitOK'
  BY Zenon, <1>1, <1>2, <1>5 DEF ProcessInv, ExitOK
<1>10. CreateOK'
  BY Zenon, <1>1, <1>3, <1>4 DEF ProcessInv, CreateOK
<1>11. FlagsOK'
  BY Zenon, <1>1, <1>2, <1>5 DEF ProcessInv, FlagsOK
<1>12. PauseOK'
  <2>1. \A type : Flying(type)' <=> Flying(type)
    BY Zenon, <1>5, <1>6 DEF Flying
  <2>2. \A d \in Client : (Top(d)' = "paused" <=> Top(d) = "paused") /\ (Top(d)' = "resumed" <=> Top(d) = "resumed")
    BY Zenon, <1>3
  <2>3. QED
    BY Zenon, <1>1, <1>2, <1>5, <1>6, <2>1, <2>2 DEF ProcessInv, PauseOK
<1>13. QED
  BY Zenon, <1>7, <1>8, <1>9, <1>10, <1>11, <1>12 DEF ProcessInv

\* An event is sent.
LEMMA StreamGrows ==
  ASSUME events \in Seq(Event), NEW x \in Event, events' = Append(events, x)
  PROVE  /\ Stream' = Stream \cup {x}
         /\ \A type : Sent(type)' <=> Sent(type) \/ x.type = type
         /\ \A S : SentOnce(S) /\ (x.type \in S => \A t \in S : ~Sent(t)) => SentOnce(S)'
         /\ ~Sent("exit") => ExitIsLast'
         /\ events' # <<>>
<1>1. /\ Len(events') = Len(events) + 1 /\ Len(events) \in Nat
      /\ events'[Len(events) + 1] = x
      /\ \A i \in 1..Len(events) : i \in 1..Len(events') /\ events'[i] = events[i]
      /\ \A i \in 1..Len(events') : i = Len(events) + 1 \/ i \in 1..Len(events)
  BY AppendAt
<1>2. Stream' = Stream \cup {x}
  <2>1. Len(events) + 1 \in 1..Len(events')
    BY <1>1
  <2>2. QED
    BY <1>1, <2>1 DEF Stream
<1>3. \A type : Sent(type)' <=> Sent(type) \/ x.type = type
  BY Zenon, <1>2 DEF Sent
<1>4. ASSUME NEW S, SentOnce(S), x.type \in S => \A t \in S : ~Sent(t),
             NEW i \in 1..Len(events'), NEW j \in 1..Len(events'),
             events'[i].type \in S, events'[j].type \in S
      PROVE  i = j
  <2>1. \A k \in 1..Len(events) : events[k].type \in S => x.type \notin S
    BY Zenon, <1>4 DEF Sent, Stream
  <2>2. CASE i \in 1..Len(events) /\ j \in 1..Len(events)
    BY Zenon, <1>1, <1>4, <2>2 DEF SentOnce
  <2>3. CASE i \notin 1..Len(events) \/ j \notin 1..Len(events)
    BY Zenon, <1>1, <1>4, <2>1, <2>3
  <2>4. QED
    BY <2>2, <2>3
<1>5. ASSUME ~Sent("exit") PROVE ExitIsLast'
  <2>1. \A i \in 1..Len(events) : events[i].type # "exit"
    BY Zenon, <1>5 DEF Sent, Stream
  <2>2. QED
    BY Zenon, <1>1, <2>1 DEF ExitIsLast
<1>6. events' # <<>>
  BY <1>1
<1>7. QED
  BY Zenon, <1>2, <1>3, <1>4, <1>5, <1>6 DEF SentOnce

\* The next event is taken.
LEMMA StreamShrinks ==
  ASSUME events \in Seq(Event), events # <<>>, events' = Tail(events)
  PROVE  /\ Head(events) \in Event
         /\ \A type : Sent(type) <=> Sent(type)' \/ Head(events).type = type
         /\ \A S : SentOnce(S) => SentOnce(S)'
         /\ \A S : SentOnce(S) /\ Head(events).type \in S => \A t \in S : ~Sent(t)'
         /\ ExitIsLast => ExitIsLast'
         /\ ExitIsLast /\ Head(events).type = "exit" => events' = <<>>
<1>1. /\ Len(events') = Len(events) - 1 /\ Len(events) \in Nat /\ Len(events) >= 1
      /\ events[1] = Head(events) /\ Head(events) \in Event
      /\ \A i \in 1..Len(events') : i + 1 \in 1..Len(events) /\ events'[i] = events[i + 1]
      /\ \A i \in 1..Len(events) : i = 1 \/ (i - 1 \in 1..Len(events') /\ events'[i - 1] = events[i])
  BY TailAt
<1>2. 1 \in 1..Len(events)
  BY <1>1
<1>3. ASSUME NEW type PROVE Sent(type) <=> Sent(type)' \/ Head(events).type = type
  <2>1. ASSUME Sent(type)' PROVE Sent(type)
    BY <1>1, <2>1 DEF Sent, Stream
  <2>2. ASSUME Head(events).type = type PROVE Sent(type)
    BY Zenon, <1>1, <1>2, <2>2 DEF Sent, Stream
  <2>3. ASSUME Sent(type) PROVE Sent(type)' \/ Head(events).type = type
    <3>1. PICK i \in 1..Len(events) : events[i].type = type
      BY Zenon, <2>3 DEF Sent, Stream
    <3>2. CASE i = 1
      BY Zenon, <1>1, <3>1, <3>2
    <3>3. CASE i # 1
      <4>1. i - 1 \in 1..Len(events') /\ events'[i - 1].type = type
        BY Zenon, <1>1, <3>1, <3>3
      <4>2. QED
        BY Zenon, <4>1 DEF Sent, Stream
    <3>4. QED
      BY Zenon, <3>2, <3>3
  <2>4. QED
    BY Zenon, <2>1, <2>2, <2>3
<1>4. ASSUME NEW S, SentOnce(S),
             NEW i \in 1..Len(events'), NEW j \in 1..Len(events'),
             events'[i].type \in S, events'[j].type \in S
      PROVE  i = j
  <2>1. i + 1 \in 1..Len(events) /\ events[i + 1].type \in S /\ j + 1 \in 1..Len(events) /\ events[j + 1].type \in S
    BY Zenon, <1>1, <1>4
  <2>2. i + 1 = j + 1
    BY Zenon, <1>4, <2>1 DEF SentOnce
  <2>3. QED
    BY <2>2
<1>5. ASSUME NEW S, SentOnce(S), Head(events).type \in S, NEW t \in S, Sent(t)'
      PROVE  FALSE
  <2>1. PICK i \in 1..Len(events') : events'[i].type = t
    BY Zenon, <1>5 DEF Sent, Stream
  <2>2. i + 1 \in 1..Len(events) /\ events[i + 1].type \in S /\ events[1].type \in S
    BY Zenon, <1>1, <1>5, <2>1
  <2>3. i + 1 = 1
    BY Zenon, <1>2, <1>5, <2>2 DEF SentOnce
  <2>4. QED
    BY <2>3
<1>6. ASSUME ExitIsLast PROVE ExitIsLast'
  <2>1. ASSUME NEW i \in 1..Len(events'), events'[i].type = "exit" PROVE i = Len(events')
    <3>1. i + 1 \in 1..Len(events) /\ events[i + 1].type = "exit"
      BY Zenon, <1>1, <2>1
    <3>2. i + 1 = Len(events) /\ Len(events) \in Nat /\ Len(events') = Len(events) - 1
      BY Zenon, <1>1, <1>6, <3>1 DEF ExitIsLast
    <3>3. i \in Nat
      BY <3>2
    <3>4. QED
      BY <3>2, <3>3
  <2>2. QED
    BY Zenon, <2>1 DEF ExitIsLast
<1>7. ASSUME ExitIsLast, Head(events).type = "exit" PROVE events' = <<>>
  <2>1. Len(events) = 1
    BY Zenon, <1>1, <1>2, <1>7 DEF ExitIsLast
  <2>2. events' \in Seq(Event)
    BY Zenon, TailAt
  <2>3. QED
    BY <1>1, <2>1, <2>2
<1>8. QED
  BY <1>1, <1>3, <1>4, <1>5, <1>6, <1>7 DEF SentOnce

\* ProcessInv for a pause or resume of the process.
LEMMA FrozeProcess == ASSUME CallInv, ProcessInv, NEW c \in Client, Froze(c) PROVE ProcessInv'
<1>1. UNCHANGED <<state, registered, epoch, ctr, restarter, clk, queue>> /\ ctr # 0 /\ clk = 0
  BY DEF Froze, clientVars
<1>2. PICK p \in {"pause", "resume"} :
        /\ p = "pause" => Top(c) = "setPaused" /\ proc.state = "running" /\ proc'.state = "paused" /\ Top(c)' = "paused"
        /\ p = "resume" => Top(c) = "setResumed" /\ proc.state = "paused" /\ proc'.state = "running" /\ Top(c)' = "resumed"
        /\ proc'.inc = proc.inc
        /\ events' = Append(events, [type |-> p, code |-> 0])
        /\ \A d \in Client \ {c} : Top(d)' = Top(d)
  <2>1. proc \in [inc : Nat, state : {"none", "running", "paused"}, killed : BOOLEAN]
    BY Zenon DEF CallInv, TypeOK
  <2>2. CASE Top(c) = "setPaused"
    <3>1. /\ Step(c, {"paused"}) /\ proc.state = "running" /\ proc' = [proc EXCEPT !.state = "paused"]
          /\ events' = Append(events, [type |-> "pause", code |-> 0])
      BY <2>2 DEF Froze
    <3>2. Top(c)' = "paused" /\ \A d \in Client \ {c} : Top(d)' = Top(d)
      BY <3>1, StepTops
    <3>3. QED
      BY Zenon, <2>1, <2>2, <3>1, <3>2
  <2>3. CASE Top(c) = "setResumed"
    <3>1. /\ Step(c, {"resumed"}) /\ proc.state = "paused" /\ proc' = [proc EXCEPT !.state = "running"]
          /\ events' = Append(events, [type |-> "resume", code |-> 0])
      BY <2>3 DEF Froze
    <3>2. Top(c)' = "resumed" /\ \A d \in Client \ {c} : Top(d)' = Top(d)
      BY <3>1, StepTops
    <3>3. QED
      BY <2>1, <2>3, <3>1, <3>2
  <2>4. QED
    BY Zenon, <2>2, <2>3 DEF Froze
<1>3. mu = c /\ Top(c) \notin {"paused", "resumed", "create", "rmRemove"}
  BY Zenon, <1>2 DEF CallInv, LockOK, Holding
<1>4. /\ ~Flying("pause") /\ ~Flying("resume")
      /\ ~Sent("pause") /\ ~Sent("resume") /\ ~Queued("pause") /\ ~Queued("resume")
  BY Zenon, <1>3, NothingFlies DEF ProcessInv
<1>5. /\ Callbacks' = Callbacks
      /\ \A st : Queued(st)' <=> Queued(st)
      /\ \A S : QueuedOnce(S)' <=> QueuedOnce(S)
  BY Zenon, <1>1, SameQueue
<1>6. Alive /\ Alive' /\ ~Sent("exit")
  BY Zenon, <1>2 DEF Alive, ProcessInv, EntryOK
<1>7. /\ \A type : Sent(type)' <=> Sent(type) \/ p = type
      /\ SentOnce({"pause", "resume"})'
      /\ ExitIsLast'
  <2>1. [type |-> p, code |-> 0] \in Event /\ events \in Seq(Event)
    BY Zenon DEF Event, CallInv, TypeOK
  <2>2. SentOnce({"pause", "resume"})
    BY Zenon DEF ProcessInv, PauseOK
  <2>3. QED
    BY Zenon, <1>2, <1>4, <1>6, <2>1, <2>2, StreamGrows
<1>8. EntryOK'
  BY Zenon, <1>1, <1>6, <1>7 DEF ProcessInv, EntryOK
<1>9. RestartOK'
  <2>1. \A e \in Epoch : restarter[e] # "started"
    BY Zenon, <1>1, Numbers DEF ProcessInv, RestartOK
  <2>2. QED
    BY Zenon, <1>1, <1>5, <2>1 DEF ProcessInv, RestartOK
<1>10. ExitOK'
  BY Zenon, <1>1, <1>5 DEF ProcessInv, ExitOK
<1>11. CreateOK'
  BY Zenon, <1>1, <1>2 DEF ProcessInv, CreateOK
<1>12. FlagsOK'
  BY Zenon, <1>1, <1>2, <1>5 DEF ProcessInv, FlagsOK
<1>13. PauseOK'
  <2>1. \A type : Flying(type)' <=> Flying(type) \/ p = type
    BY Zenon, <1>5, <1>7 DEF Flying
  <2>2. QED
    BY Zenon, <1>1, <1>2, <1>4, <1>5, <1>7, <2>1 DEF ProcessInv, PauseOK
<1>14. QED
  BY Zenon, <1>8, <1>9, <1>10, <1>11, <1>12, <1>13 DEF ProcessInv

\* The process, or a process of an exec, exits.
LEMMA ExitProcess == ASSUME CallInv, ProcessInv, ProcessExit \/ ExecExit PROVE ProcessInv'
<1>1. UNCHANGED <<state, registered, epoch, ctr, restarter, clk, queue, pc>>
  BY Zenon DEF ProcessExit, ExecExit, daemonVars, clientVars, callVars
<1>2. PICK x \in Event :
        /\ events' = Append(events, x)
        /\ \/ x.type = "exit" /\ proc'.state = "none"
           \/ x.type = "exitProcess" /\ proc'.state = proc.state
        /\ proc'.inc = proc.inc /\ proc.state = "running"
  <2>1. proc \in [inc : Nat, state : {"none", "running", "paused"}, killed : BOOLEAN]
    BY Zenon DEF CallInv, TypeOK
  <2>2. CASE ProcessExit
    <3>1. PICK code \in {0, 1} : events' = Append(events, [type |-> "exit", code |-> code])
      BY Zenon, <2>2 DEF ProcessExit
    <3>2. [type |-> "exit", code |-> code] \in Event
      BY Zenon DEF Event
    <3>3. proc'.state = "none" /\ proc'.inc = proc.inc /\ proc.state = "running"
      BY Zenon, <2>1, <2>2 DEF ProcessExit
    <3>4. QED
      BY Zenon, <3>1, <3>2, <3>3
  <2>3. CASE ExecExit
    <3>1. [type |-> "exitProcess", code |-> 0] \in Event
      BY Zenon DEF Event
    <3>2. QED
      BY Zenon, <2>3, <3>1 DEF ExecExit
  <2>4. QED
    BY Zenon, <2>2, <2>3
<1>3. Alive /\ ~Sent("exit") /\ ctr # 0
  BY Zenon, <1>2 DEF Alive, ProcessInv, EntryOK
<1>4. /\ \A type : Sent(type)' <=> Sent(type) \/ x.type = type
      /\ SentOnce({"pause", "resume"})'
      /\ ExitIsLast'
  <2>1. events \in Seq(Event)
    BY Zenon DEF CallInv, TypeOK
  <2>2. SentOnce({"pause", "resume"}) /\ x.type \notin {"pause", "resume"}
    BY Zenon, <1>2 DEF ProcessInv, PauseOK
  <2>3. QED
    BY Zenon, <1>2, <1>3, <2>1, <2>2, StreamGrows
<1>5. /\ Callbacks' = Callbacks
      /\ \A st : Queued(st)' <=> Queued(st)
      /\ \A S : QueuedOnce(S)' <=> QueuedOnce(S)
  BY Zenon, <1>1, SameQueue
<1>6. \A d \in Client : Top(d)' = Top(d)
  BY Zenon, <1>1 DEF Top
<1>7. EntryOK'
  BY Zenon, <1>1, <1>2, <1>3, <1>4 DEF ProcessInv, EntryOK, Alive
<1>8. RestartOK'
  BY Zenon, <1>1, <1>2, <1>5 DEF ProcessInv, RestartOK
<1>9. ExitOK'
  BY Zenon, <1>1, <1>5 DEF ProcessInv, ExitOK
<1>10. CreateOK'
  BY Zenon, <1>1, <1>6 DEF ProcessInv, CreateOK
<1>11. FlagsOK'
  BY Zenon, <1>1, <1>2, <1>5 DEF ProcessInv, FlagsOK
<1>12. PauseOK'
  <2>1. \A type \in {"pause", "resume"} : (Flying(type)' <=> Flying(type)) /\ (Sent(type)' <=> Sent(type))
    BY Zenon, <1>2, <1>4, <1>5 DEF Flying
  <2>2. ~Flying("pause")
    BY Zenon, <1>2 DEF ProcessInv, PauseOK
  <2>3. QED
    BY Zenon, <1>1, <1>2, <1>4, <1>5, <1>6, <2>1, <2>2 DEF ProcessInv, PauseOK
<1>13. QED
  BY Zenon, <1>7, <1>8, <1>9, <1>10, <1>11, <1>12 DEF ProcessInv

\* While clnt.containers has an entry and nobody holds the client's lock, no
\* restart and no exit is pending.
LEMMA EntryIsIdle ==
  ASSUME CallInv, ProcessInv, ctr # 0, clk = 0
  PROVE  /\ ~Queued("restart") /\ (registered => ~Queued("exit"))
         /\ \A e \in Epoch : restarter[e] = "none"
<1>1. ~Queued("restart") /\ (registered => ~Queued("exit"))
  BY Zenon DEF ProcessInv, RestartOK, ExitOK, Queued
<1>2. \A e \in Epoch : restarter[e] \in {"none", "waiting", "started"}
  BY Zenon DEF CallInv, TypeOK
<1>3. \A e \in Epoch : restarter[e] # "waiting" /\ restarter[e] # "started"
  BY Zenon, Numbers DEF ProcessInv, RestartOK
<1>4. QED
  BY Zenon, <1>1, <1>2, <1>3

\* handleEvent for the exit of the process.
LEMMA HandleExitProcess ==
  ASSUME CallInv, ProcessInv, HandleEvent, Head(events).type = "exit" PROVE ProcessInv'
<1>1. UNCHANGED <<state, registered, epoch, restarter, clk, proc, pc>>
  BY Zenon DEF HandleEvent, callVars
<1>2. events \in Seq(Event) /\ events # <<>> /\ events' = Tail(events) /\ queue \in Seq(StateInfo)
  BY Zenon DEF HandleEvent, CallInv, TypeOK
<1>3. ctr # 0 /\ clk = 0 /\ ctr' = 0
  BY Zenon, <1>2 DEF HandleEvent, HandleExit, ProcessInv, EntryOK
<1>4. ctr = epoch /\ state.Running /\ ctr \in Epoch
  BY Zenon, <1>3, Numbers DEF ProcessInv, EntryOK
<1>5. PICK st \in {"exit", "restart"} : queue' = Append(queue, [state |-> st, epoch |-> ctr])
  BY Zenon, <1>3 DEF HandleEvent, HandleExit
<1>6. /\ \A type : Sent(type) <=> Sent(type)' \/ Head(events).type = type
      /\ SentOnce({"pause", "resume"})' /\ ExitIsLast' /\ events' = <<>>
  <2>1. SentOnce({"pause", "resume"}) /\ ExitIsLast
    BY Zenon DEF ProcessInv, PauseOK, EntryOK
  <2>2. QED
    BY Zenon, <1>2, <2>1, StreamShrinks
<1>7. ~Alive /\ ~Alive'
  BY Zenon, <1>1, <1>6 DEF ProcessInv, EntryOK, Alive
<1>8. /\ ~Queued("restart") /\ (registered => ~Queued("exit"))
      /\ \A e \in Epoch : restarter[e] = "none"
  BY Zenon, <1>3, EntryIsIdle
<1>9. registered => ~state.Restarting
  BY Zenon, <1>8 DEF ProcessInv, FlagsOK
<1>10. /\ Callbacks' = Callbacks \cup {[state |-> st, epoch |-> ctr]}
       /\ \A s \in {"exit", "restart", "pause", "resume", "exitProcess"} : Queued(s)' <=> Queued(s) \/ s = st
       /\ QueuedOnce({"restart"})' /\ (registered => QueuedOnce({"exit"})') /\ QueuedOnce({"pause", "resume"})'
  <2> DEFINE x == [state |-> st, epoch |-> ctr]
  <2>1. x \in StateInfo /\ x.state = st
    BY Zenon, <1>4 DEF StateInfo
  <2>2. QueuedOnce({"restart"}) /\ (registered => QueuedOnce({"exit"})) /\ QueuedOnce({"pause", "resume"})
    BY Zenon DEF ProcessInv, RestartOK, ExitOK, PauseOK
  <2> HIDE DEF x
  <2>3. /\ Callbacks' = Callbacks \cup {x}
        /\ \A S : QueuedOnce(S) /\ (x.state \in S => \A s \in S : ~Queued(s)) => QueuedOnce(S)'
    BY Zenon, <1>2, <1>5, <2>1, QueueGrows DEF x
  <2>4. QueuedOnce({"restart"})' /\ (registered => QueuedOnce({"exit"})') /\ QueuedOnce({"pause", "resume"})'
    BY Zenon, <1>8, <2>1, <2>2, <2>3
  <2>5. \A s : Queued(s)' <=> Queued(s) \/ s = st
    BY Zenon, <2>1, <2>3 DEF Queued
  <2>6. QED
    BY Zenon, <2>3, <2>4, <2>5 DEF x
<1>11. \A d \in Client : Top(d)' = Top(d)
  BY Zenon, <1>1 DEF Top
<1>12. EntryOK'
  <2>1. ~Sent("exit")'
    BY <1>6 DEF Sent, Stream
  <2>2. QED
    BY Zenon, <1>3, <1>6, <1>7, <2>1 DEF EntryOK
<1>13. RestartOK'
  <2>1. ASSUME NEW q \in Callbacks', q.state = "restart"
        PROVE  ctr' = 0 /\ state'.Running /\ q.epoch = epoch' /\ restarter'[q.epoch] = "none"
    <3>1. q \notin Callbacks
      BY Zenon, <1>8, <2>1 DEF Queued
    <3>2. q = [state |-> st, epoch |-> ctr]
      BY Zenon, <1>10, <2>1, <3>1
    <3>3. q.epoch = ctr
      BY <3>2
    <3>4. QED
      BY Zenon, <1>1, <1>3, <1>4, <1>8, <3>3
  <2>2. \A e \in Epoch : restarter'[e] = "none"
    BY Zenon, <1>1, <1>8
  <2>3. clk' = 0 /\ QueuedOnce({"restart"})'
    BY Zenon, <1>1, <1>3, <1>10
  <2>4. QED
    BY Zenon, <2>1, <2>2, <2>3 DEF RestartOK
<1>14. ExitOK'
  BY Zenon, <1>1, <1>3, <1>4, <1>8, <1>10 DEF ProcessInv, ExitOK
<1>15. CreateOK'
  BY Zenon, <1>1, <1>11 DEF ProcessInv, CreateOK
<1>16. FlagsOK'
  BY Zenon, <1>1, <1>3, <1>4, <1>9, <1>10 DEF FlagsOK
<1>17. PauseOK'
  <2>1. \A s \in {"pause", "resume"} : (Flying(s)' <=> Flying(s)) /\ (Queued(s)' <=> Queued(s)) /\ ~Sent(s)'
    <3>1. \A s : ~Sent(s)'
      BY <1>6 DEF Sent, Stream
    <3>2. \A s \in {"pause", "resume"} : ~Sent(s)
      BY Zenon, <1>6, <3>1
    <3>3. QED
      BY Zenon, <1>10, <3>1, <3>2 DEF Flying
  <2>2. QED
    BY Zenon, <1>1, <1>6, <1>10, <1>11, <2>1 DEF ProcessInv, PauseOK
<1>18. QED
  BY Zenon, <1>12, <1>13, <1>14, <1>15, <1>16, <1>17 DEF ProcessInv

\* handleEvent for the other events: a callback is queued.
LEMMA HandleOtherProcess ==
  ASSUME CallInv, ProcessInv, HandleEvent, Head(events).type # "exit" PROVE ProcessInv'
<1> DEFINE st == Head(events).type
<1>1. UNCHANGED <<state, registered, epoch, restarter, clk, proc, pc>>
  BY Zenon DEF HandleEvent, callVars
<1>2. events \in Seq(Event) /\ events # <<>> /\ events' = Tail(events) /\ queue \in Seq(StateInfo)
  BY Zenon DEF HandleEvent, CallInv, TypeOK
<1>3. ctr # 0 /\ clk = 0 /\ ctr' = ctr /\ queue' = Append(queue, [state |-> st, epoch |-> ctr])
  BY Zenon, <1>2 DEF HandleEvent, ProcessInv, EntryOK
<1>4. /\ Head(events) \in Event
      /\ \A type : Sent(type) <=> Sent(type)' \/ st = type
      /\ SentOnce({"pause", "resume"})' /\ ExitIsLast'
      /\ st \in {"pause", "resume"} => ~Sent("pause")' /\ ~Sent("resume")'
  <2>1. SentOnce({"pause", "resume"}) /\ ExitIsLast
    BY Zenon DEF ProcessInv, PauseOK, EntryOK
  <2>2. QED
    BY Zenon, <1>2, <2>1, StreamShrinks
<1>5. st \in {"pause", "resume", "exitProcess"}
  BY Zenon, <1>4 DEF Event
<1> HIDE DEF st
<1>6. /\ Callbacks' = Callbacks \cup {[state |-> st, epoch |-> ctr]}
      /\ \A s : Queued(s)' <=> Queued(s) \/ s = st
      /\ QueuedOnce({"restart"})' /\ (registered => QueuedOnce({"exit"})') /\ QueuedOnce({"pause", "resume"})'
  <2> DEFINE x == [state |-> st, epoch |-> ctr]
  <2>1. x \in StateInfo /\ x.state = st
    BY Zenon, <1>3, <1>5, Numbers DEF StateInfo
  <2>2. QueuedOnce({"restart"}) /\ (registered => QueuedOnce({"exit"})) /\ QueuedOnce({"pause", "resume"})
    BY Zenon DEF ProcessInv, RestartOK, ExitOK, PauseOK
  <2>3. st \in {"pause", "resume"} => ~Queued("pause") /\ ~Queued("resume")
    <3>1. st \in {"pause", "resume"} => Sent("pause") \/ Sent("resume")
      BY Zenon, <1>4
    <3>2. QED
      BY Zenon, <3>1 DEF ProcessInv, PauseOK
  <2> HIDE DEF x
  <2>4. /\ Callbacks' = Callbacks \cup {x}
        /\ \A S : QueuedOnce(S) /\ (x.state \in S => \A s \in S : ~Queued(s)) => QueuedOnce(S)'
    BY Zenon, <1>2, <1>3, <2>1, QueueGrows DEF x
  <2>5. QueuedOnce({"restart"})' /\ (registered => QueuedOnce({"exit"})') /\ QueuedOnce({"pause", "resume"})'
    BY Zenon, <1>5, <2>1, <2>2, <2>3, <2>4
  <2>6. \A s : Queued(s)' <=> Queued(s) \/ s = st
    BY Zenon, <2>1, <2>4 DEF Queued
  <2>7. QED
    BY Zenon, <2>4, <2>5, <2>6 DEF x
<1>7. \A d \in Client : Top(d)' = Top(d)
  BY Zenon, <1>1 DEF Top
<1>8. EntryOK'
  <2>1. Sent("exit")' <=> Sent("exit")
    BY Zenon, <1>4, <1>5
  <2>2. QED
    BY Zenon, <1>1, <1>3, <1>4, <2>1 DEF ProcessInv, EntryOK, Alive
<1>9. RestartOK'
  BY <1>1, <1>3, <1>5, <1>6 DEF ProcessInv, RestartOK
<1>10. ExitOK'
  BY Zenon, <1>1, <1>3, <1>5, <1>6 DEF ProcessInv, ExitOK
<1>11. CreateOK'
  BY Zenon, <1>1, <1>7 DEF ProcessInv, CreateOK
<1>12. FlagsOK'
  BY Zenon, <1>1, <1>3, <1>5, <1>6 DEF ProcessInv, FlagsOK
<1>13. PauseOK'
  <2>1. \A s \in {"pause", "resume"} : Flying(s)' <=> Flying(s)
    BY Zenon, <1>4, <1>5, <1>6 DEF Flying
  <2>2. ~ ((Sent("pause")' \/ Sent("resume")') /\ (Queued("pause")' \/ Queued("resume")'))
    BY Zenon, <1>4, <1>5, <1>6 DEF ProcessInv, PauseOK
  <2>3. QED
    BY Zenon, <1>1, <1>4, <1>6, <1>7, <2>1, <2>2 DEF ProcessInv, PauseOK
<1>14. QED
  BY Zenon, <1>8, <1>9, <1>10, <1>11, <1>12, <1>13 DEF ProcessInv

\* What taking the next callback does, whatever it is.
LEMMA CallbackTaken ==
  ASSUME CallInv, ProcessInv, RunCallback
  PROVE  /\ UNCHANGED <<mu, registered, epoch, ctr, clk, proc, events>>
         /\ Head(queue) \in StateInfo /\ Head(queue).epoch \in Epoch
         /\ Callbacks' \subseteq Callbacks /\ Head(queue) \in Callbacks
         /\ \A s : Queued(s) <=> Queued(s)' \/ s = Head(queue).state
         /\ QueuedOnce({"restart"})' /\ (registered => QueuedOnce({"exit"})') /\ QueuedOnce({"pause", "resume"})'
         /\ Head(queue).state = "restart" => ~Queued("restart")'
         /\ registered /\ Head(queue).state = "exit" => ~Queued("exit")'
         /\ Head(queue).state \in {"pause", "resume"} => ~Queued("pause")' /\ ~Queued("resume")'
<1>1. queue \in Seq(StateInfo) /\ queue # <<>> /\ queue' = Tail(queue)
  BY Zenon DEF RunCallback, CallInv, TypeOK
<1>2. /\ Head(queue) \in StateInfo
      /\ Callbacks = Callbacks' \cup {Head(queue)}
      /\ \A S : QueuedOnce(S) => QueuedOnce(S)'
      /\ \A S : QueuedOnce(S) /\ Head(queue).state \in S => \A st \in S : ~Queued(st)'
  BY Zenon, <1>1, QueueShrinks
<1>3. QueuedOnce({"restart"}) /\ (registered => QueuedOnce({"exit"})) /\ QueuedOnce({"pause", "resume"})
  BY Zenon DEF ProcessInv, RestartOK, ExitOK, PauseOK
<1>4. \A s : Queued(s) <=> Queued(s)' \/ s = Head(queue).state
  BY Zenon, <1>2 DEF Queued
<1>5. Head(queue).epoch \in Epoch
  BY Zenon, <1>2 DEF StateInfo
<1>6. UNCHANGED <<mu, registered, epoch, ctr, clk, proc, events>>
  BY Zenon DEF RunCallback, containerdVars
<1>7. QED
  BY Zenon, <1>2, <1>3, <1>4, <1>5, <1>6

\* The exit callback of a registered container: SetStopped.
LEMMA ExitCallbackProcess ==
  ASSUME CallInv, ProcessInv, RunCallback, Head(queue).state = "exit", registered PROVE ProcessInv'
<1>1. /\ UNCHANGED <<mu, registered, epoch, ctr, clk, proc, events>>
      /\ Callbacks' \subseteq Callbacks
      /\ \A s : Queued(s) <=> Queued(s)' \/ s = "exit"
      /\ QueuedOnce({"restart"})' /\ QueuedOnce({"exit"})' /\ QueuedOnce({"pause", "resume"})'
      /\ ~Queued("exit")'
  BY Zenon, CallbackTaken
<1>2. /\ ctr = 0 /\ ~Queued("restart")
      /\ \A e \in Epoch : restarter[e] = "none"
  BY Zenon, <1>1 DEF ProcessInv, ExitOK
<1>3. mu = None /\ SetStopped /\ restarter' = restarter
  BY DEF RunCallback, StateChanged
<1>4. ~state'.Running /\ ~state'.Paused /\ ~state'.Restarting /\ state'.Pid = 0 /\ state'.Dead = state.Dead
  <2>1. state \in [Running : BOOLEAN, Paused : BOOLEAN, Restarting : BOOLEAN, Dead : BOOLEAN,
                   RemovalInProgress : BOOLEAN, Pid : Nat]
    BY Zenon DEF CallInv, TypeOK
  <2>2. QED
    BY Zenon, <1>3, <2>1 DEF SetStopped
<1>5. /\ ~Flying("pause") /\ ~Flying("resume")
      /\ ~Sent("pause") /\ ~Sent("resume") /\ ~Queued("pause") /\ ~Queued("resume")
  BY Zenon, <1>3, NothingFlies DEF ProcessInv
<1>6. \A d \in Client : \A l \in {"create", "rmRemove"} : Top(d)' = l => Top(d) = l
  BY Zenon, CallbackTops
<1>7. /\ \A type : Sent(type)' <=> Sent(type)
      /\ \A S : SentOnce(S)' <=> SentOnce(S)
      /\ ExitIsLast' <=> ExitIsLast
  BY Zenon, <1>1, SameStream
<1>8. ~Alive /\ ~Alive'
  BY Zenon, <1>1, <1>2 DEF ProcessInv, EntryOK, Alive
<1>9. EntryOK'
  BY Zenon, <1>1, <1>2, <1>7, <1>8 DEF ProcessInv, EntryOK
<1>10. RestartOK'
  BY Zenon, <1>1, <1>2, <1>3 DEF ProcessInv, RestartOK, Queued
<1>11. ExitOK'
  BY Zenon, <1>1 DEF ExitOK
<1>12. CreateOK'
  BY Zenon, <1>1, <1>4, <1>6 DEF ProcessInv, CreateOK
<1>13. FlagsOK'
  BY Zenon, <1>1, <1>2, <1>4 DEF FlagsOK
<1>14. PauseOK'
  <2>1. \A s \in {"pause", "resume"} : ~Flying(s)' /\ ~Sent(s)' /\ ~Queued(s)'
    BY Zenon, <1>1, <1>5, <1>7 DEF Flying
  <2>2. proc'.state # "paused"
    BY Zenon, <1>8 DEF Alive
  <2>3. QED
    BY Zenon, <1>1, <1>4, <1>7, <2>1, <2>2 DEF ProcessInv, PauseOK
<1>15. QED
  BY Zenon, <1>9, <1>10, <1>11, <1>12, <1>13, <1>14 DEF ProcessInv

\* The restart callback: SetRestarting if the container is registered, and the
\* goroutine that restarts.
LEMMA RestartCallbackProcess ==
  ASSUME CallInv, ProcessInv, RunCallback, Head(queue).state = "restart" PROVE ProcessInv'
<1>1. /\ UNCHANGED <<mu, registered, epoch, ctr, clk, proc, events>>
      /\ Head(queue).epoch \in Epoch
      /\ Callbacks' \subseteq Callbacks /\ Head(queue) \in Callbacks
      /\ \A s : Queued(s) <=> Queued(s)' \/ s = "restart"
      /\ QueuedOnce({"restart"})' /\ (registered => QueuedOnce({"exit"})') /\ QueuedOnce({"pause", "resume"})'
      /\ ~Queued("restart")'
  BY Zenon, CallbackTaken
<1>2. /\ ctr = 0 /\ state.Running /\ Head(queue).epoch = epoch /\ restarter[epoch] = "none"
      /\ registered => ~Queued("exit")
  BY Zenon, <1>1 DEF ProcessInv, RestartOK, ExitOK
<1>3. restarter' = [restarter EXCEPT ![epoch] = "waiting"]
  BY Zenon, <1>2 DEF RunCallback
<1>4. restarter'[epoch] = "waiting" /\ \A e \in Epoch : e # epoch => restarter'[e] = restarter[e]
  BY Zenon, <1>1, <1>2, <1>3 DEF CallInv, TypeOK
<1>5. \A e \in Epoch : restarter[e] = "none"
  <2>1. \A e \in Epoch : restarter[e] \in {"none", "waiting", "started"}
    BY Zenon DEF CallInv, TypeOK
  <2>2. QED
    BY Zenon, <1>2, <2>1 DEF ProcessInv, RestartOK
<1>6. clk = 0
  BY Zenon, <1>5, Numbers DEF ProcessInv, RestartOK
<1>7. /\ registered => mu = None /\ SetRestarting
      /\ ~registered => UNCHANGED state
  BY DEF RunCallback, StateChanged
<1>8. /\ state'.Running /\ state'.Dead = state.Dead /\ state'.Paused = state.Paused
      /\ registered => state'.Restarting
  <2>1. state \in [Running : BOOLEAN, Paused : BOOLEAN, Restarting : BOOLEAN, Dead : BOOLEAN,
                   RemovalInProgress : BOOLEAN, Pid : Nat]
    BY Zenon DEF CallInv, TypeOK
  <2>2. QED
    BY Zenon, <1>2, <1>7, <2>1 DEF SetRestarting
<1>9. registered => ~Flying("pause") /\ ~Flying("resume")
  BY Zenon, <1>7, NothingFlies DEF ProcessInv
<1>10. ~Alive /\ ~Alive' /\ proc.state = "none"
  BY Zenon, <1>1, <1>2 DEF ProcessInv, EntryOK, Alive
<1>11. registered => ~state.Paused
  BY Zenon, <1>9, <1>10 DEF ProcessInv, PauseOK
<1>12. /\ \A d \in Client : \A l \in {"create", "rmRemove"} : Top(d)' = l => Top(d) = l
       /\ \A d \in Client : Top(d)' = Top(d)
  BY Zenon, CallbackTops DEF Released
<1>13. /\ \A type : Sent(type)' <=> Sent(type)
       /\ \A S : SentOnce(S)' <=> SentOnce(S)
       /\ ExitIsLast' <=> ExitIsLast
  BY Zenon, <1>1, SameStream
<1>14. EntryOK'
  BY Zenon, <1>1, <1>2, <1>10, <1>13 DEF ProcessInv, EntryOK
<1>15. RestartOK'
  BY Zenon, <1>1, <1>2, <1>4, <1>5, <1>6, <1>8, <1>11 DEF ProcessInv, RestartOK, Queued
<1>16. ExitOK'
  BY Zenon, <1>1, <1>2 DEF ExitOK
<1>17. CreateOK'
  <2>1. \A d \in Client : Top(d) # "create"
    BY Zenon, <1>2 DEF ProcessInv, CreateOK
  <2>2. QED
    BY Zenon, <1>1, <1>8, <1>12, <2>1 DEF ProcessInv, CreateOK
<1>18. FlagsOK'
  BY Zenon, <1>1, <1>2, <1>4, <1>8 DEF FlagsOK
<1>19. PauseOK'
  <2>1. \A s \in {"pause", "resume"} : (Flying(s)' <=> Flying(s)) /\ (Queued(s)' <=> Queued(s))
    BY Zenon, <1>1, <1>13 DEF Flying
  <2>2. QED
    BY Zenon, <1>1, <1>8, <1>12, <1>13, <2>1 DEF ProcessInv, PauseOK
<1>20. QED
  BY Zenon, <1>14, <1>15, <1>16, <1>17, <1>18, <1>19 DEF ProcessInv

\* The other callbacks, and those of a container no longer registered.
LEMMA OtherCallbackProcess ==
  ASSUME CallInv, ProcessInv, RunCallback, Head(queue).state # "restart",
         Head(queue).state = "exit" => ~registered
  PROVE  ProcessInv'
<1> DEFINE st == Head(queue).state
<1>1. /\ UNCHANGED <<mu, registered, epoch, ctr, clk, proc, events>>
      /\ Head(queue) \in StateInfo
      /\ Callbacks' \subseteq Callbacks
      /\ \A s : Queued(s) <=> Queued(s)' \/ s = st
      /\ QueuedOnce({"restart"})' /\ (registered => QueuedOnce({"exit"})') /\ QueuedOnce({"pause", "resume"})'
      /\ st \in {"pause", "resume"} => ~Queued("pause")' /\ ~Queued("resume")'
  BY Zenon, CallbackTaken
<1>2. st \in {"exit", "pause", "resume", "exitProcess"}
  BY Zenon, <1>1 DEF StateInfo
<1>3. restarter' = restarter
  BY Zenon DEF RunCallback
<1>4. /\ registered /\ st = "pause" => state' = [state EXCEPT !.Paused = TRUE]
      /\ registered /\ st = "resume" => state' = [state EXCEPT !.Paused = FALSE]
      /\ ~registered \/ st = "exitProcess" => state' = state
  BY Zenon DEF RunCallback, StateChanged
<1>5. /\ \A d \in Client : (st = "pause" /\ Top(d) = "paused") \/ (st = "resume" /\ Top(d) = "resumed")
                             => Top(d)' = "stateSet"
      /\ \A d \in Client : ~((st = "pause" /\ Top(d) = "paused") \/ (st = "resume" /\ Top(d) = "resumed"))
                             => Top(d)' = Top(d)
      /\ \A d \in Client : \A l \in {"create", "rmRemove"} : Top(d)' = l => Top(d) = l
  BY Zenon, CallbackTops DEF Released
<1> HIDE DEF st
<1>6. /\ state'.Running = state.Running /\ state'.Restarting = state.Restarting
      /\ state'.Dead = state.Dead /\ state'.Pid = state.Pid
      /\ registered /\ st = "pause" => state'.Paused
      /\ registered /\ st = "resume" => ~state'.Paused
      /\ ~registered \/ st = "exitProcess" => state'.Paused = state.Paused
  <2>1. state \in [Running : BOOLEAN, Paused : BOOLEAN, Restarting : BOOLEAN, Dead : BOOLEAN,
                   RemovalInProgress : BOOLEAN, Pid : Nat]
    BY Zenon DEF CallInv, TypeOK
  <2>2. \/ state' = [state EXCEPT !.Paused = TRUE] /\ registered /\ st = "pause"
        \/ state' = [state EXCEPT !.Paused = FALSE] /\ registered /\ st = "resume"
        \/ state' = state /\ (~registered \/ st = "exitProcess")
    BY Zenon, <1>2, <1>4 DEF st
  <2>3. QED
    BY Zenon, <2>1, <2>2
<1>7. /\ \A type : Sent(type)' <=> Sent(type)
      /\ \A S : SentOnce(S)' <=> SentOnce(S)
      /\ ExitIsLast' <=> ExitIsLast
  BY Zenon, <1>1, SameStream
<1>8. st = "pause" => proc.state = "paused" /\ state.Running /\ ctr # 0
  <2>1. st = "pause" => proc.state = "paused"
    BY Zenon, <1>1 DEF ProcessInv, PauseOK, Flying
  <2>2. QED
    BY Zenon, <2>1 DEF ProcessInv, EntryOK, Alive
<1>9. EntryOK'
  BY Zenon, <1>1, <1>6, <1>7 DEF ProcessInv, EntryOK, Alive
<1>10. RestartOK'
  <2>1. \A e \in Epoch : restarter[e] # "none" /\ registered => ~state'.Paused
    <3>1. RestartOK /\ \A e \in Epoch : restarter[e] \in {"none", "waiting", "started"}
      BY Zenon DEF CallInv, TypeOK, ProcessInv
    <3>2. \A e \in Epoch : restarter[e] # "none" /\ registered => ~state.Paused
      BY Zenon, <3>1 DEF RestartOK
    <3>3. \A e \in Epoch : restarter[e] # "none" => st # "pause"
      BY Zenon, <1>8, <3>1 DEF RestartOK
    <3>4. QED
      BY Zenon, <1>2, <1>6, <3>2, <3>3 DEF st
  <2>2. QED
    BY Zenon, <1>1, <1>3, <1>6, <2>1 DEF ProcessInv, RestartOK
<1>11. ExitOK'
  BY Zenon, <1>1, <1>3, <1>6 DEF ProcessInv, ExitOK
<1>12. CreateOK'
  BY Zenon, <1>1, <1>5, <1>6 DEF ProcessInv, CreateOK
<1>13. FlagsOK'
  <2>1. registered => \A s \in {"restart", "exit"} : Queued(s)' <=> Queued(s)
    BY Zenon, <1>1 DEF st
  <2>2. ~state'.Running => ~state'.Paused
    BY Zenon, <1>2, <1>6, <1>8 DEF ProcessInv, FlagsOK, st
  <2>3. QED
    BY Zenon, <1>1, <1>3, <1>6, <2>1, <2>2 DEF ProcessInv, FlagsOK
<1>14. PauseOK'
  <2>1. CASE st \in {"pause", "resume"}
    <3>1. ~Sent("pause") /\ ~Sent("resume")
      BY Zenon, <1>1, <2>1 DEF ProcessInv, PauseOK
    <3>2. \A s \in {"pause", "resume"} : ~Sent(s)' /\ ~Queued(s)' /\ ~Flying(s)'
      BY Zenon, <1>1, <1>7, <2>1, <3>1 DEF Flying
    <3>3. st = "resume" => proc.state # "paused"
      BY Zenon, <1>1 DEF ProcessInv, PauseOK, Flying
    <3>4. registered => (state'.Paused <=> proc.state = "paused")
      BY Zenon, <1>6, <1>8, <2>1, <3>3
    <3>5. QED
      BY Zenon, <1>1, <1>7, <3>2, <3>4 DEF ProcessInv, PauseOK
  <2>2. CASE st \notin {"pause", "resume"}
    <3>1. \A s \in {"pause", "resume"} : (Queued(s)' <=> Queued(s)) /\ (Flying(s)' <=> Flying(s))
      BY Zenon, <1>1, <1>7, <2>2 DEF Flying
    <3>2. \A d \in Client : Top(d)' = Top(d)
      BY Zenon, <1>5, <2>2
    <3>3. registered => state'.Paused = state.Paused
      BY Zenon, <1>2, <1>6, <2>2 DEF st
    <3>4. QED
      BY Zenon, <1>1, <1>7, <3>1, <3>2, <3>3 DEF ProcessInv, PauseOK
  <2>3. QED
    BY Zenon, <2>1, <2>2
<1>15. QED
  BY Zenon, <1>9, <1>10, <1>11, <1>12, <1>13, <1>14 DEF ProcessInv

\* The exit of a run is queued.
LEMMA ExitQueued ==
  ASSUME CallInv, ProcessInv, NEW e \in Epoch,
         queue' = Append(queue, [state |-> "exit", epoch |-> e]),
         registered => ~Queued("exit")
  PROVE  /\ \A q \in Callbacks' : q \in Callbacks \/ q.state = "exit"
         /\ \A s : Queued(s)' <=> Queued(s) \/ s = "exit"
         /\ QueuedOnce({"restart"})' /\ (registered => QueuedOnce({"exit"})') /\ QueuedOnce({"pause", "resume"})'
<1> DEFINE x == [state |-> "exit", epoch |-> e]
<1>1. x \in StateInfo /\ x.state = "exit" /\ queue \in Seq(StateInfo) /\ queue' = Append(queue, x)
  BY Zenon DEF StateInfo, CallInv, TypeOK
<1> HIDE DEF x
<1>2. QueuedOnce({"restart"}) /\ (registered => QueuedOnce({"exit"})) /\ QueuedOnce({"pause", "resume"})
  BY Zenon DEF ProcessInv, RestartOK, ExitOK, PauseOK
<1>3. /\ Callbacks' = Callbacks \cup {x}
      /\ \A S : QueuedOnce(S) /\ (x.state \in S => \A s \in S : ~Queued(s)) => QueuedOnce(S)'
  BY Zenon, <1>1, QueueGrows
<1>4. QueuedOnce({"restart"})' /\ (registered => QueuedOnce({"exit"})') /\ QueuedOnce({"pause", "resume"})'
  BY Zenon, <1>1, <1>2, <1>3
<1>5. \A s : Queued(s)' <=> Queued(s) \/ s = "exit"
  BY Zenon, <1>1, <1>3 DEF Queued
<1>6. QED
  BY Zenon, <1>1, <1>3, <1>4, <1>5

\* ProcessInv for the restart that starts.
LEMMA RestartReceiveProcess ==
  ASSUME NothingLeftBehind, CallInv, ProcessInv, NEW e \in Epoch, RestartReceive(e) PROVE ProcessInv'
<1>1. UNCHANGED <<state, registered, epoch, events, pc>>
  BY Zenon DEF RestartReceive, callVars
<1>2. restarter[e] = "waiting" /\ clk = 0
  BY Zenon DEF RestartReceive
<1>3. e = epoch /\ ctr = 0 /\ state.Running /\ (registered => state.Restarting /\ ~state.Paused)
  BY Zenon, <1>2 DEF ProcessInv, RestartOK
<1>4. ~Alive /\ events = <<>> /\ proc.state = "none"
  BY Zenon, <1>3 DEF ProcessInv, EntryOK, Alive
<1>5. ~Queued("restart") /\ (registered => ~Queued("exit"))
  BY Zenon, <1>2, <1>3 DEF ProcessInv, RestartOK, ExitOK, Queued
<1>6. \A d \in Epoch : d # e => restarter[d] = "none"
  <2>1. \A d \in Epoch : restarter[d] \in {"none", "waiting", "started"}
    BY Zenon DEF CallInv, TypeOK
  <2>2. QED
    BY Zenon, <1>3, <2>1 DEF ProcessInv, RestartOK
<1>7. \A d \in Client : Top(d)' = Top(d)
  BY Zenon, <1>1 DEF Top
<1>8. /\ \A type : Sent(type)' <=> Sent(type)
      /\ \A S : SentOnce(S)' <=> SentOnce(S)
      /\ ExitIsLast' <=> ExitIsLast
  BY Zenon, <1>1, SameStream
<1>9. CreateOK'
  BY Zenon, <1>1, <1>7 DEF ProcessInv, CreateOK
<1>10. ~Flying("pause")
  BY Zenon, <1>4 DEF ProcessInv, PauseOK
<1>11. restarter \in [Epoch -> {"none", "waiting", "started"}]
  BY Zenon DEF CallInv, TypeOK
<1>12. CASE rm[e].wait = "canceled"
  <2>1. /\ queue' = Append(queue, [state |-> "exit", epoch |-> e])
        /\ restarter' = [restarter EXCEPT ![e] = "none"]
        /\ UNCHANGED <<ctr, clk, proc>>
    BY Zenon, <1>12 DEF RestartReceive
  <2>2. \A d \in Epoch : restarter'[d] = "none"
    BY Zenon, <1>6, <1>11, <2>1
  <2>3. /\ \A q \in Callbacks' : q \in Callbacks \/ q.state = "exit"
        /\ \A s : Queued(s)' <=> Queued(s) \/ s = "exit"
        /\ QueuedOnce({"restart"})' /\ (registered => QueuedOnce({"exit"})') /\ QueuedOnce({"pause", "resume"})'
    BY Zenon, <1>5, <2>1, ExitQueued
  <2>4. EntryOK'
    BY Zenon, <1>1, <1>8, <2>1 DEF ProcessInv, EntryOK, Alive
  <2>5. RestartOK'
    BY Zenon, <1>2, <1>5, <2>1, <2>2, <2>3 DEF RestartOK, Queued
  <2>6. ExitOK'
    BY Zenon, <1>1, <1>3, <1>5, <2>1, <2>2, <2>3 DEF ExitOK
  <2>7. FlagsOK'
    BY Zenon, <1>1, <1>3, <2>1, <2>3 DEF FlagsOK
  <2>8. PauseOK'
    <3>1. \A s \in {"pause", "resume"} : (Queued(s)' <=> Queued(s)) /\ (Flying(s)' <=> Flying(s))
      BY Zenon, <1>8, <2>3 DEF Flying
    <3>2. QED
      BY Zenon, <1>1, <1>7, <1>8, <2>1, <2>3, <3>1 DEF ProcessInv, PauseOK
  <2>9. QED
    BY Zenon, <1>9, <2>4, <2>5, <2>6, <2>7, <2>8 DEF ProcessInv
<1>13. CASE rm[e].wait = "restart"
  <2>1. ctr' = e /\ Spawn /\ clk' = e /\ restarter' = [restarter EXCEPT ![e] = "started"] /\ queue' = queue
    BY Zenon, <1>4, <1>13 DEF RestartReceive, NothingLeftBehind
  <2>2. restarter'[e] = "started" /\ \A d \in Epoch : d # e => restarter'[d] = "none"
    BY Zenon, <1>6, <1>11, <2>1
  <2>3. /\ Callbacks' = Callbacks
        /\ \A st : Queued(st)' <=> Queued(st)
        /\ \A S : QueuedOnce(S)' <=> QueuedOnce(S)
    BY Zenon, <2>1, SameQueue
  <2>4. proc'.state = "running" /\ Alive' /\ ctr' # 0
    BY Zenon, <2>1, Numbers DEF Spawn, Alive
  <2>5. EntryOK'
    <3>1. ~Sent("exit")
      BY <1>4 DEF Sent, Stream
    <3>2. QED
      BY Zenon, <1>1, <1>3, <1>8, <2>1, <2>4, <3>1 DEF ProcessInv, EntryOK
  <2>6. RestartOK'
    BY Zenon, <1>1, <1>3, <1>5, <2>1, <2>2, <2>3, <2>4 DEF ProcessInv, RestartOK, Queued
  <2>7. ExitOK'
    BY Zenon, <1>1, <1>5, <2>3 DEF ProcessInv, ExitOK
  <2>8. FlagsOK'
    BY Zenon, <1>1, <1>3, <2>2, <2>4 DEF FlagsOK
  <2>9. PauseOK'
    <3>1. \A s : Flying(s)' <=> Flying(s)
      BY Zenon, <1>8, <2>3 DEF Flying
    <3>2. QED
      BY Zenon, <1>1, <1>4, <1>7, <1>8, <1>10, <2>3, <2>4, <3>1 DEF ProcessInv, PauseOK
  <2>10. QED
    BY <1>9, <2>5, <2>6, <2>7, <2>8, <2>9 DEF ProcessInv
<1>14. QED
  BY Zenon, <1>12, <1>13 DEF RestartReceive

\* ProcessInv for the restart that is reported.
LEMMA RestartStartedProcess ==
  ASSUME NothingLeftBehind, CallInv, ProcessInv, NEW e \in Epoch, RestartStarted(e) PROVE ProcessInv'
<1>1. /\ UNCHANGED <<registered, epoch, ctr, proc, events, pc>> /\ clk' = 0
      /\ restarter' = [restarter EXCEPT ![e] = "none"]
  BY Zenon DEF RestartStarted, callVars, containerdVars
<1>2. restarter[e] = "started"
  BY Zenon DEF RestartStarted
<1>3. e = epoch /\ ctr = e /\ ctr # 0 /\ proc.state # "paused" /\ (registered => ~state.Paused)
  BY Zenon, <1>2, Numbers DEF ProcessInv, RestartOK
<1>4. state.Running
  BY Zenon, <1>3 DEF ProcessInv, EntryOK
<1>5. ~Queued("restart") /\ (registered => ~Queued("exit"))
  BY Zenon, <1>3 DEF ProcessInv, RestartOK, ExitOK, Queued
<1>6. \A d \in Epoch : restarter'[d] = "none"
  <2>1. restarter \in [Epoch -> {"none", "waiting", "started"}]
    BY Zenon DEF CallInv, TypeOK
  <2>2. \A d \in Epoch : d # e => restarter[d] = "none"
    BY Zenon, <1>3, <2>1 DEF ProcessInv, RestartOK
  <2>3. QED
    BY Zenon, <1>1, <2>1, <2>2
<1>7. \A d \in Client : Top(d)' = Top(d)
  BY Zenon, <1>1 DEF Top
<1>8. /\ \A type : Sent(type)' <=> Sent(type)
      /\ \A S : SentOnce(S)' <=> SentOnce(S)
      /\ ExitIsLast' <=> ExitIsLast
  BY Zenon, <1>1, SameStream
<1>9. registered => ~Flying("resume")
  BY Zenon, <1>3 DEF ProcessInv, PauseOK
<1>10. CASE registered
  <2>1. SetRunning(proc.inc) /\ queue' = queue
    BY Zenon, <1>10 DEF RestartStarted, NothingLeftBehind
  <2>2. /\ state'.Running /\ ~state'.Paused /\ ~state'.Restarting /\ state'.Pid = proc.inc
        /\ state'.Dead = state.Dead
    <3>1. state \in [Running : BOOLEAN, Paused : BOOLEAN, Restarting : BOOLEAN, Dead : BOOLEAN,
                     RemovalInProgress : BOOLEAN, Pid : Nat]
      BY Zenon DEF CallInv, TypeOK
    <3>2. QED
      BY <2>1, <3>1 DEF SetRunning
  <2>3. /\ Callbacks' = Callbacks
        /\ \A st : Queued(st)' <=> Queued(st)
        /\ \A S : QueuedOnce(S)' <=> QueuedOnce(S)
    BY Zenon, <2>1, SameQueue
  <2>4. EntryOK'
    BY Zenon, <1>1, <1>3, <1>8, <2>2 DEF ProcessInv, EntryOK, Alive
  <2>5. RestartOK'
    BY Zenon, <1>1, <1>5, <1>6, <2>3 DEF ProcessInv, RestartOK, Queued
  <2>6. ExitOK'
    BY Zenon, <1>5, <1>10, <2>3 DEF ProcessInv, ExitOK
  <2>7. CreateOK'
    <3>1. \A d \in Client : Top(d) # "create"
      BY Zenon, <1>4 DEF ProcessInv, CreateOK
    <3>2. QED
      BY Zenon, <1>1, <1>7, <1>10, <2>2, <3>1 DEF ProcessInv, CreateOK
  <2>8. FlagsOK'
    BY Zenon, <1>1, <1>3, <2>2 DEF FlagsOK
  <2>9. PauseOK'
    <3>1. \A s : Flying(s)' <=> Flying(s)
      BY <1>8, <2>3 DEF Flying
    <3>2. QED
      BY Zenon, <1>1, <1>3, <1>7, <1>8, <1>9, <1>10, <2>2, <2>3, <3>1 DEF ProcessInv, PauseOK
  <2>10. QED
    BY Zenon, <2>4, <2>5, <2>6, <2>7, <2>8, <2>9 DEF ProcessInv
<1>11. CASE ~registered
  <2>1. state' = state /\ queue' = Append(queue, [state |-> "exit", epoch |-> e])
    BY Zenon, <1>11 DEF RestartStarted
  <2>2. /\ \A q \in Callbacks' : q \in Callbacks \/ q.state = "exit"
        /\ \A s : Queued(s)' <=> Queued(s) \/ s = "exit"
        /\ QueuedOnce({"restart"})' /\ QueuedOnce({"pause", "resume"})'
    BY Zenon, <1>11, <2>1, ExitQueued
  <2>3. EntryOK'
    BY Zenon, <1>1, <1>8, <2>1 DEF ProcessInv, EntryOK, Alive
  <2>4. RestartOK'
    BY Zenon, <1>1, <1>5, <1>6, <2>2 DEF RestartOK, Queued
  <2>5. ExitOK'
    BY Zenon, <1>1, <1>11 DEF ExitOK
  <2>6. CreateOK'
    BY Zenon, <1>1, <1>7, <2>1 DEF ProcessInv, CreateOK
  <2>7. FlagsOK'
    BY Zenon, <1>1, <1>11, <2>1 DEF ProcessInv, FlagsOK
  <2>8. PauseOK'
    <3>1. \A s \in {"pause", "resume"} : (Queued(s)' <=> Queued(s)) /\ (Flying(s)' <=> Flying(s))
      BY Zenon, <1>8, <2>2 DEF Flying
    <3>2. QED
      BY Zenon, <1>1, <1>7, <1>8, <1>11, <2>2, <3>1 DEF ProcessInv, PauseOK
  <2>9. QED
    BY <2>3, <2>4, <2>5, <2>6, <2>7, <2>8 DEF ProcessInv
<1>12. QED
  BY Zenon, <1>10, <1>11

\* At first there is no process, no entry and nothing queued.
LEMMA InitProcess == Init => ProcessInv
<1> SUFFICES ASSUME Init PROVE ProcessInv
  OBVIOUS
<1>1. /\ Callbacks = {} /\ Stream = {} /\ \A c \in Client : Top(c) = "idle"
      /\ ctr = 0 /\ epoch = 0 /\ clk = 0 /\ queue = <<>> /\ events = <<>>
  BY Zenon, InitEmpty
<1>2. /\ ~state.Running /\ ~state.Paused /\ ~state.Restarting /\ ~state.Dead /\ state.Pid = 0
      /\ registered /\ proc.state = "none" /\ \A e \in Epoch : restarter[e] = "none"
  BY Zenon DEF Init
<1>3. \A s : ~Queued(s) /\ ~Sent(s) /\ ~Flying(s)
  BY Zenon, <1>1 DEF Queued, Sent, Flying
<1>4. (\A S : QueuedOnce(S) /\ SentOnce(S)) /\ ExitIsLast
  BY <1>1 DEF QueuedOnce, SentOnce, ExitIsLast
<1>5. EntryOK /\ CreateOK
  BY Zenon, <1>1, <1>2, <1>3, <1>4 DEF EntryOK, CreateOK, Alive
<1>6. RestartOK /\ ExitOK
  BY Zenon, <1>1, <1>2, <1>3, <1>4 DEF RestartOK, ExitOK
<1>7. FlagsOK /\ PauseOK
  BY Zenon, <1>1, <1>2, <1>3, <1>4 DEF FlagsOK, PauseOK
<1>8. QED
  BY Zenon, <1>5, <1>6, <1>7 DEF ProcessInv

\* ProcessInv is inductive.
LEMMA ProcessInvStep ==
  ASSUME NothingLeftBehind, CallInv, ManagersUsed, ProcessInv, [Next]_vars
  PROVE  ProcessInv'
<1>1. ASSUME NEW c \in Client, CallEffect(c) PROVE ProcessInv'
  <2>1. CASE StartBegins(c) \/ Create(c)
    BY Zenon, <2>1, StartProcess, CreateProcess
  <2>2. CASE Dies(c) \/ RmRemove(c) \/ Froze(c)
    BY Zenon, <2>2, DiesProcess, RmRemoveProcess, FrozeProcess
  <2>3. CASE ~(StartBegins(c) \/ Create(c) \/ Dies(c) \/ RmRemove(c) \/ Froze(c))
    <3>1. Unaffected
      BY Zenon, <1>1, <2>3, CallUnaffected DEF CallEffect
    <3>2. QED
      BY <3>1, UnaffectedProcess
  <2>4. QED
    BY Zenon, <2>1, <2>2, <2>3
<1>2. CASE UNCHANGED vars \/ \E e \in Epoch : BackOff(e)
  <2>1. UNCHANGED <<state, registered, epoch, ctr, restarter, clk, queue, proc, events, pc>>
    BY Zenon, <1>2 DEF BackOff, vars, daemonVars, clientVars, containerdVars, callVars
  <2>2. Unaffected
    BY Zenon, <2>1 DEF Unaffected, Top
  <2>3. QED
    BY Zenon, <2>2, UnaffectedProcess
<1>3. CASE ProcessExit \/ ExecExit
  BY <1>3, ExitProcess
<1>4. CASE HandleEvent
  BY Zenon, <1>4, HandleExitProcess, HandleOtherProcess
<1>5. CASE RunCallback
  BY Zenon, <1>5, ExitCallbackProcess, RestartCallbackProcess, OtherCallbackProcess
<1>6. ASSUME NEW e \in Epoch, RestartReceive(e) \/ RestartStarted(e) PROVE ProcessInv'
  BY Zenon, <1>6, RestartReceiveProcess, RestartStartedProcess
<1>7. Stacks
  BY DEF CallInv, Stacks
<1>8. QED
  BY Zenon, <1>1, <1>2, <1>3, <1>4, <1>5, <1>6, <1>7, NextDoes DEF OtherEffect

\* Process, event stream, callback queue and flags fit together at every step.
THEOREM LifecycleProcess ==
  ASSUME NothingLeftBehind
  PROVE  Spec => [](CallInv /\ ManagersUsed /\ ProcessInv)
<1>1. Init => CallInv /\ ManagersUsed /\ ProcessInv
  BY Zenon, InitCallInv, InitUsed, InitProcess
<1>2. CallInv /\ ManagersUsed /\ ProcessInv /\ [Next]_vars => (CallInv /\ ManagersUsed /\ ProcessInv)'
  BY Zenon, CallInvStep, ManagersUsedStep, ProcessInvStep
<1>3. QED
  BY <1>1, <1>2, PTL DEF Spec

\* What the invariants say about a container at rest and about its starters.
LEMMA ProcessInvAgrees == ASSUME CallInv, ManagersUsed, ProcessInv PROVE ProcessesAgree
<1>1. FlagsAgree
  <2> SUFFICES ASSUME Quiet, registered
               PROVE  /\ state.Running = Alive
                      /\ state.Paused = (proc.state = "paused")
                      /\ ~state.Restarting
                      /\ state.Pid = (IF Alive THEN proc.inc ELSE 0)
                      /\ ctr = (IF Alive THEN epoch ELSE 0)
    BY Zenon DEF FlagsAgree
  <2>1. Callbacks = {} /\ Stream = {} /\ \A e \in Epoch : restarter[e] = "none"
    BY DEF Quiet, Callbacks, Stream
  <2>2. \A s : ~Queued(s) /\ ~Sent(s) /\ ~Flying(s)
    BY Zenon, <2>1 DEF Queued, Sent, Flying
  <2>3. state.Running <=> ctr # 0
    BY Zenon, <2>1, <2>2 DEF ProcessInv, FlagsOK, EntryOK
  <2>4. Alive <=> ctr # 0
    BY Zenon, <2>2 DEF ProcessInv, EntryOK
  <2>5. state.Paused <=> proc.state = "paused"
    BY Zenon, <2>2 DEF ProcessInv, PauseOK
  <2>6. ~state.Restarting
    BY Zenon, <2>1, <2>2 DEF ProcessInv, FlagsOK
  <2>7. ctr # 0 => ctr = epoch /\ state.Pid = proc.inc
    BY Zenon, <2>1 DEF ProcessInv, EntryOK, FlagsOK
  <2>8. ctr = 0 => state.Pid = 0
    BY Zenon, <2>3 DEF ProcessInv, FlagsOK
  <2>9. state.Running \in BOOLEAN /\ state.Paused \in BOOLEAN
    BY Zenon DEF CallInv, TypeOK
  <2>10. Alive \in BOOLEAN
    BY Zenon DEF Alive
  <2>11. state.Running = Alive /\ state.Paused = (proc.state = "paused")
    BY Zenon, <2>3, <2>4, <2>5, <2>9, <2>10
  <2>12. QED
    BY Zenon, <2>4, <2>6, <2>7, <2>8, <2>11
<1>2. StoppedHasNoProcess
  BY Zenon DEF ProcessInv, EntryOK, StoppedHasNoProcess
<1>3. StarterIsAlone
  <2> DEFINE restarts == {e \in Epoch : restarter[e] = "waiting"}
             creates == {c \in Client : At(c, "create")}
  <2>1. \A e \in restarts : e = epoch /\ ctr = 0 /\ state.Running
    BY Zenon DEF ProcessInv, RestartOK
  <2>2. \A c \in creates : mu = c /\ ~state.Running
    BY Zenon, AtTop DEF ProcessInv, CreateOK, CallInv, LockOK, Holding
  <2>3. \A x, y \in restarts \cup creates : x = y
    BY Zenon, <2>1, <2>2
  <2>4. restarts \cup creates # {} => ctr = 0
    BY Zenon, <2>1, <2>2 DEF ProcessInv, EntryOK
  <2>5. restarts \cup creates # {} => ~Alive /\ ctr = 0
    BY Zenon, <2>4 DEF ProcessInv, EntryOK
  <2> HIDE DEF restarts, creates
  <2>7. QED
    BY Zenon, <2>3, <2>5 DEF StarterIsAlone, restarts, creates
<1>4. ManagerReady
  BY Zenon DEF ManagersUsed, ManagerReady
<1>5. QED
  BY Zenon, <1>1, <1>2, <1>3, <1>4 DEF ProcessesAgree

\* At rest the flags, pid and entry the daemon shows are those of the process
\* containerd runs; a stopped container has no process; at most one goroutine
\* is about to create one; handleEvent never meets an active restart manager.
\* For any number of clients, starts and restarts, unless a failure leaves a
\* process behind.
THEOREM LifecycleProcessesAgree == ASSUME NothingLeftBehind PROVE Spec => []ProcessesAgree
<1>1. CallInv /\ ManagersUsed /\ ProcessInv => ProcessesAgree
  BY ProcessInvAgrees
<1>2. QED
  BY <1>1, LifecycleProcess, PTL

-----------------------------------------------------------------------------
(* The processes of an on-failure:N container are counted *)

\* What is due is a number.
LEMMA DueType == Due \in Nat
BY DEF Due

\* The limit is a number, and the next start raises it by 1 + MaximumRetryCount.
LEMMA Limits ==
  ASSUME NEW e \in Nat
  PROVE  /\ e * (1 + MaximumRetryCount) \in Nat
         /\ (e + 1) * (1 + MaximumRetryCount) = e * (1 + MaximumRetryCount) + 1 + MaximumRetryCount
BY PolicyAssumption

\* What is needed of the numbers before a step.
LEMMA CountTypes ==
  ASSUME CallInv
  PROVE  /\ proc.inc \in Nat /\ epoch \in Nat
         /\ epoch # 0 => epoch \in Epoch /\ rm[epoch].restartCount \in Nat /\ Limit(epoch) \in Nat
<1>1. proc.inc \in Nat
  BY Zenon DEF CallInv, TypeOK
<1>2. epoch \in Nat /\ (epoch # 0 => epoch \in Epoch)
  BY Zenon, Numbers
<1>3. epoch # 0 => rm[epoch].restartCount \in Nat
  BY Zenon, <1>2 DEF CallInv, TypeOK, ManagersTypeOK, Epoch
<1>4. ASSUME epoch # 0 PROVE Limit(epoch) \in Nat
  <2>1. epoch - 1 \in Nat
    BY <1>2, <1>4
  <2>2. (epoch - 1) * (1 + MaximumRetryCount) \in Nat
    BY Zenon, <2>1, Limits
  <2> DEFINE n == (epoch - 1) * (1 + MaximumRetryCount)
  <2>3. n \in Nat
    BY Zenon, <2>2
  <2> HIDE DEF n
  <2>4. n + 1 + rm[epoch].restartCount \in Nat
    BY <1>3, <1>4, <2>3
  <2>5. QED
    BY Zenon, <2>4 DEF Limit, n
<1>5. QED
  BY Zenon, <1>1, <1>2, <1>3, <1>4

\* A step that creates no process and raises no count.
LEMMA CountKept ==
  ASSUME CallInv, CountOK, proc'.inc = proc.inc, epoch' = epoch,
         \A e \in Epoch : rm'[e].restartCount = rm[e].restartCount,
         Creating' => Creating, Restarts' => Restarts
  PROVE  CountOK'
<1> SUFFICES ASSUME PolicyName = "on-failure", MaximumRetryCount > 0
             PROVE  /\ epoch' = 0 => proc'.inc = 0
                    /\ epoch' # 0 => proc'.inc + Due' <= Limit(epoch)'
  BY Zenon DEF CountOK
<1>1. epoch # 0 => Limit(epoch)' = Limit(epoch) /\ Limit(epoch) \in Nat
  BY Zenon, CountTypes DEF Limit
<1>2. Due \in Nat /\ Due' \in Nat /\ Due' <= Due
  BY DueType DEF Due
<1>3. QED
  BY <1>1, <1>2, CountTypes DEF CountOK

\* A call that starts nothing leaves the count alone.
LEMMA CallCount ==
  ASSUME CallInv, CountOK, NEW c \in Client,
         Idle(c), proc'.inc = proc.inc
  PROVE  CountOK'
<1>1. UNCHANGED <<restarter, queue, epoch>> /\ \A e \in Epoch : rm'[e].restartCount = rm[e].restartCount
  BY Zenon DEF Idle
<1>2. Creating' => Creating
  BY Zenon DEF Idle, Creating
<1>3. Restarts' => Restarts
  <2>1. Queued("restart")' <=> Queued("restart")
    BY Zenon, <1>1, SameQueue
  <2>2. QED
    BY Zenon, <1>1, <2>1 DEF Restarts
<1>4. QED
  BY Zenon, <1>1, <1>2, <1>3, CountKept

\* A start raises the limit by a whole run of the policy before it creates.
LEMMA StartCount ==
  ASSUME CallInv, ManagersUsed, ProcessInv, RetriesBounded, CountOK, NEW c \in Client, StartBegins(c)
  PROVE  CountOK'
<1> SUFFICES ASSUME PolicyName = "on-failure", MaximumRetryCount > 0
             PROVE  /\ epoch' = 0 => proc'.inc = 0
                    /\ epoch' # 0 => proc'.inc + Due' <= Limit(epoch)'
  BY Zenon DEF CountOK
<1>1. /\ proc.inc \in Nat /\ epoch \in Nat
      /\ epoch # 0 => epoch \in Epoch /\ rm[epoch].restartCount \in Nat
  BY Zenon, CountTypes
<1>2. epoch' = epoch + 1 /\ epoch < MaxEpoch /\ ~state.Running /\ UNCHANGED <<rm, proc, restarter, queue>>
  BY Zenon DEF StartBegins, clientVars, containerdVars
<1>3. epoch + 1 \in Epoch /\ rm[epoch + 1].restartCount \in Nat
  <2>1. epoch + 1 \in Epoch
    BY <1>1, <1>2, Epochs
  <2>2. QED
    BY Zenon, <2>1 DEF CallInv, TypeOK, ManagersTypeOK, Epoch
<1>4. ~Restarts'
  <2>1. ~Queued("restart") /\ \A e \in Epoch : restarter[e] = "none"
    BY Zenon, <1>2, StoppedIsIdle
  <2>2. Queued("restart")' <=> Queued("restart")
    BY Zenon, <1>2, SameQueue
  <2>3. QED
    BY Zenon, <1>2, <2>1, <2>2 DEF Restarts
<1>5. Due' \in Nat /\ Due' <= 1
  BY <1>4, DueType DEF Due
<1> DEFINE n == epoch * (1 + MaximumRetryCount)
<1>6. n \in Nat /\ MaximumRetryCount \in Nat
  BY Zenon, <1>1, Limits, PolicyAssumption
<1>7. proc.inc <= n
  <2>1. CASE epoch = 0
    BY <1>1, <1>6, <2>1 DEF CountOK
  <2>2. CASE epoch # 0
    <3> DEFINE b == (epoch - 1) * (1 + MaximumRetryCount)
    <3>1. epoch - 1 \in Nat /\ (epoch - 1) + 1 = epoch
      BY <1>1, <2>2
    <3>2. b \in Nat /\ n = b + 1 + MaximumRetryCount
      BY Zenon, <3>1, Limits
    <3>3. proc.inc + Due <= b + 1 + rm[epoch].restartCount
      BY Zenon, <2>2 DEF CountOK, Limit
    <3>4. rm[epoch].restartCount <= MaximumRetryCount
      BY Zenon, <1>1, <2>2 DEF RetriesBounded, Epoch
    <3> HIDE DEF b, n
    <3>5. QED
      BY <1>1, <1>6, <2>2, <3>2, <3>3, <3>4, DueType
  <2>3. QED
    BY Zenon, <2>1, <2>2
<1>8. Limit(epoch)' = n + 1 + rm[epoch + 1].restartCount
  <2>1. (epoch + 1) - 1 = epoch
    BY <1>1
  <2>2. QED
    BY Zenon, <1>2, <2>1 DEF Limit
<1> HIDE DEF n
<1>9. QED
  BY <1>1, <1>2, <1>3, <1>5, <1>6, <1>7, <1>8

\* A due process is created, or is not.
LEMMA OneIsCreated ==
  ASSUME NEW i \in Nat, NEW j \in Nat, NEW d \in Nat, NEW e \in Nat, NEW l \in Nat,
         j <= i + 1, e + 1 = d, i + d <= l
  PROVE  j + e <= l
OBVIOUS

\* Create gives the start its process.
LEMMA CreateCount ==
  ASSUME CallInv, ManagersUsed, CountOK, NEW c \in Client, Create(c) PROVE CountOK'
<1> SUFFICES ASSUME PolicyName = "on-failure", MaximumRetryCount > 0
             PROVE  /\ epoch' = 0 => proc'.inc = 0
                    /\ epoch' # 0 => proc'.inc + Due' <= Limit(epoch)'
  BY Zenon DEF CountOK
<1>1. Top(c) = "create" /\ \A d \in Client : Top(d)' # "create"
  BY Zenon, CreatesAlone
<1>2. UNCHANGED <<epoch, rm, restarter, queue>> /\ epoch # 0
  BY Zenon, <1>1 DEF Create, ManagersUsed
<1>3. proc'.inc = proc.inc \/ proc'.inc = proc.inc + 1
  BY DEF Create, Spawn
<1>4. Creating /\ ~Creating'
  BY Zenon, <1>1 DEF Creating
<1>5. Restarts' <=> Restarts
  <2>1. Queued("restart")' <=> Queued("restart")
    BY Zenon, <1>2, SameQueue
  <2>2. QED
    BY Zenon, <1>2, <2>1 DEF Restarts
<1>6. Due \in Nat /\ Due' \in Nat /\ Due' + 1 = Due
  BY <1>4, <1>5, DueType DEF Due
<1>7. Limit(epoch)' = Limit(epoch) /\ Limit(epoch) \in Nat
  BY Zenon, <1>2, CountTypes DEF Limit
<1>8. proc.inc \in Nat /\ proc.inc + Due <= Limit(epoch)
  BY Zenon, <1>2, CountTypes DEF CountOK
<1>9. proc'.inc \in Nat /\ proc'.inc <= proc.inc + 1
  BY <1>3, <1>8
<1>10. proc'.inc + Due' <= Limit(epoch)
  BY Zenon, <1>6, <1>7, <1>8, <1>9, OneIsCreated
<1>11. QED
  BY Zenon, <1>2, <1>7, <1>10

\* The restart that is decided is counted.
LEMMA HandleEventCount == ASSUME CallInv, ProcessInv, CountOK, HandleEvent PROVE CountOK'
<1>1. UNCHANGED <<epoch, restarter, proc, pc>>
  BY Zenon DEF HandleEvent, callVars
<1>2. \A d \in Client : Top(d)' = Top(d)
  BY Zenon, <1>1 DEF Top
<1>3. ctr # 0 /\ ctr = epoch /\ epoch \in Epoch
  BY Zenon, Numbers DEF HandleEvent, ProcessInv, EntryOK
<1>4. Creating' <=> Creating
  BY Zenon, <1>2 DEF Creating
<1>5. queue \in Seq(StateInfo) /\ ManagersTypeOK
  BY Zenon DEF CallInv, TypeOK
<1>6. CASE \E x : ShouldRestart(ctr, x, FALSE)
  <2> SUFFICES ASSUME PolicyName = "on-failure", MaximumRetryCount > 0
               PROVE  /\ epoch' = 0 => proc'.inc = 0
                      /\ epoch' # 0 => proc'.inc + Due' <= Limit(epoch)'
    BY Zenon DEF CountOK
  <2>1. ~Restarts
    <3>1. ~Queued("restart")
      BY Zenon, <1>3 DEF ProcessInv, RestartOK, Queued
    <3>2. \A e \in Epoch : restarter[e] # "waiting"
      BY Zenon, <1>3 DEF ProcessInv, RestartOK
    <3>3. QED
      BY Zenon, <3>1, <3>2 DEF Restarts
  <2>2. Due \in Nat /\ Due' \in Nat /\ Due' <= Due + 1
    BY <1>4, <2>1, DueType DEF Due
  <2>3. rm'[epoch].restartCount = rm[epoch].restartCount + 1 /\ rm[epoch].restartCount \in Nat
    BY <1>3, <1>5, <1>6 DEF ShouldRestart, ManagersTypeOK, Epoch
  <2> DEFINE n == (epoch - 1) * (1 + MaximumRetryCount)
  <2>4. n \in Nat
    <3>1. epoch - 1 \in Nat
      BY <1>3, Numbers
    <3>2. QED
      BY Zenon, <3>1, Limits
  <2>5. Limit(epoch) = n + 1 + rm[epoch].restartCount /\ Limit(epoch)' = n + 1 + rm'[epoch].restartCount
    BY Zenon, <1>1 DEF Limit
  <2> HIDE DEF n
  <2>6. Limit(epoch)' = Limit(epoch) + 1 /\ Limit(epoch) \in Nat
    BY <2>3, <2>4, <2>5
  <2>7. proc.inc \in Nat /\ proc.inc + Due <= Limit(epoch) /\ epoch # 0
    BY Zenon, <1>3, CountTypes, Numbers DEF CountOK
  <2>8. QED
    BY <1>1, <2>2, <2>6, <2>7
<1>7. CASE ~\E x : ShouldRestart(ctr, x, FALSE)
  <2>1. rm' = rm /\ \E st \in {"exit", "pause", "resume", "exitProcess"} :
                        queue' = Append(queue, [state |-> st, epoch |-> ctr])
    <3>1. events \in Seq(Event) /\ events # <<>>
      BY Zenon DEF HandleEvent, CallInv, TypeOK
    <3>2. Head(events) \in Event
      BY <3>1
    <3>3. Head(events).type \in {"exit", "pause", "resume", "exitProcess"}
      BY Zenon, <3>2 DEF Event
    <3>4. QED
      BY Zenon, <1>3, <1>7, <3>3 DEF HandleEvent, HandleExit
  <2>2. PICK st \in {"exit", "pause", "resume", "exitProcess"} :
          queue' = Append(queue, [state |-> st, epoch |-> ctr])
    BY Zenon, <2>1
  <2> DEFINE x == [state |-> st, epoch |-> ctr]
  <2>3. x \in StateInfo /\ x.state = st /\ queue' = Append(queue, x)
    BY Zenon, <1>3, <2>2 DEF StateInfo
  <2> HIDE DEF x
  <2>4. Callbacks' = Callbacks \cup {x}
    BY Zenon, <1>5, <2>3, QueueGrows
  <2>5. Restarts' => Restarts
    BY Zenon, <1>1, <2>3, <2>4 DEF Restarts, Queued
  <2>6. QED
    BY Zenon, <1>1, <1>4, <2>1, <2>5, CountKept
<1>8. QED
  BY Zenon, <1>6, <1>7

\* The goroutine that waits for the manager takes the place of the callback.
LEMMA RunCallbackCount == ASSUME CallInv, ProcessInv, CountOK, RunCallback PROVE CountOK'
<1>1. UNCHANGED <<epoch, rm, proc>>
  BY Zenon DEF RunCallback, containerdVars
<1>2. Creating' => Creating
  BY Zenon, CallbackTops DEF Creating
<1>3. Restarts' => Restarts
  <2>1. \A s : Queued(s) <=> Queued(s)' \/ s = Head(queue).state
    BY Zenon, CallbackTaken
  <2>2. CASE Head(queue).state = "restart"
    BY Zenon, <2>1, <2>2 DEF Restarts
  <2>3. CASE Head(queue).state # "restart"
    <3>1. restarter' = restarter
      BY Zenon, <2>3 DEF RunCallback
    <3>2. QED
      BY Zenon, <2>1, <3>1 DEF Restarts
  <2>4. QED
    BY Zenon, <2>2, <2>3
<1>4. QED
  BY Zenon, <1>1, <1>2, <1>3, CountKept

\* The restart that was due has its process, or is given up.
LEMMA RestartReceiveCount ==
  ASSUME CallInv, ProcessInv, CountOK, NEW e \in Epoch, RestartReceive(e) PROVE CountOK'
<1> SUFFICES ASSUME PolicyName = "on-failure", MaximumRetryCount > 0
             PROVE  /\ epoch' = 0 => proc'.inc = 0
                    /\ epoch' # 0 => proc'.inc + Due' <= Limit(epoch)'
  BY Zenon DEF CountOK
<1>1. UNCHANGED <<epoch, pc>> /\ restarter[e] = "waiting"
  BY Zenon DEF RestartReceive, callVars
<1>2. e = epoch /\ epoch # 0
  BY Zenon, <1>1, Numbers, Epochs DEF ProcessInv, RestartOK
<1>3. Creating' <=> Creating
  BY Zenon, <1>1 DEF Creating, Top
<1>4. Restarts
  BY Zenon, <1>1 DEF Restarts
<1>5. ~Restarts'
  <2>1. ~Queued("restart")
    BY Zenon, <1>1, <1>2 DEF ProcessInv, RestartOK, Queued
  <2>2. ~Queued("restart")'
    <3>1. CASE queue' = queue
      BY Zenon, <2>1, <3>1, SameQueue
    <3>2. CASE queue' = Append(queue, [state |-> "exit", epoch |-> e])
      <4> DEFINE x == [state |-> "exit", epoch |-> e]
      <4>1. x \in StateInfo /\ x.state = "exit" /\ queue' = Append(queue, x) /\ queue \in Seq(StateInfo)
        BY Zenon, <3>2 DEF StateInfo, CallInv, TypeOK
      <4> HIDE DEF x
      <4>2. Callbacks' = Callbacks \cup {x}
        BY Zenon, <4>1, QueueGrows
      <4>3. QED
        BY Zenon, <2>1, <4>1, <4>2 DEF Queued
    <3>3. QED
      BY Zenon, <3>1, <3>2 DEF RestartReceive
  <2>3. \A d \in Epoch : restarter'[d] # "waiting"
    <3>1. restarter \in [Epoch -> {"none", "waiting", "started"}]
      BY Zenon DEF CallInv, TypeOK
    <3>2. restarter' = [restarter EXCEPT ![e] = "none"] \/ restarter' = [restarter EXCEPT ![e] = "started"]
      BY Zenon DEF RestartReceive
    <3>3. \A d \in Epoch : d # e => restarter[d] # "waiting"
      BY Zenon, <1>2 DEF ProcessInv, RestartOK
    <3>4. QED
      BY Zenon, <3>1, <3>2, <3>3
  <2>4. QED
    BY Zenon, <2>2, <2>3 DEF Restarts
<1>6. Due \in Nat /\ Due' \in Nat /\ Due' + 1 = Due
  BY <1>3, <1>4, <1>5, DueType DEF Due
<1>7. Limit(epoch)' = Limit(epoch) /\ Limit(epoch) \in Nat
  <2>1. rm'[epoch].restartCount = rm[epoch].restartCount
    <3>1. ManagersTypeOK /\ Receive(e)
      BY Zenon DEF RestartReceive, CallInv, TypeOK
    <3>2. QED
      BY <1>2, <3>1 DEF Receive, ManagersTypeOK, Epoch
  <2>2. QED
    BY Zenon, <1>1, <1>2, <2>1, CountTypes DEF Limit
<1>8. proc.inc \in Nat /\ proc.inc + Due <= Limit(epoch)
  BY Zenon, <1>2, CountTypes DEF CountOK
<1>9. proc'.inc = proc.inc \/ proc'.inc = proc.inc + 1
  <2>1. proc' = proc \/ proc' = [inc |-> proc.inc + 1, state |-> "running", killed |-> FALSE]
    BY Zenon DEF RestartReceive, Spawn
  <2>2. QED
    BY <2>1
<1>10. proc'.inc \in Nat /\ proc'.inc <= proc.inc + 1
  BY <1>8, <1>9
<1>11. proc'.inc + Due' <= Limit(epoch)
  BY Zenon, <1>6, <1>7, <1>8, <1>10, OneIsCreated
<1>12. QED
  BY Zenon, <1>1, <1>2, <1>7, <1>11

\* Reporting a restart creates nothing.
LEMMA RestartStartedCount ==
  ASSUME CallInv, CountOK, NEW e \in Epoch, RestartStarted(e) PROVE CountOK'
<1>1. UNCHANGED <<epoch, rm, proc, pc>>
  BY Zenon DEF RestartStarted, containerdVars, callVars
<1>2. Creating' => Creating
  BY Zenon, <1>1 DEF Creating, Top
<1>3. Queued("restart")' => Queued("restart")
  <2>1. CASE queue' = queue
    BY Zenon, <2>1, SameQueue
  <2>2. CASE queue' = Append(queue, [state |-> "exit", epoch |-> e])
    <3> DEFINE x == [state |-> "exit", epoch |-> e]
    <3>1. x \in StateInfo /\ x.state = "exit" /\ queue' = Append(queue, x) /\ queue \in Seq(StateInfo)
      BY Zenon, <2>2 DEF StateInfo, CallInv, TypeOK
    <3> HIDE DEF x
    <3>2. Callbacks' = Callbacks \cup {x}
      BY Zenon, <3>1, QueueGrows
    <3>3. QED
      BY Zenon, <3>1, <3>2 DEF Queued
  <2>3. QED
    BY Zenon, <2>1, <2>2 DEF RestartStarted
<1>4. \A d \in Epoch : restarter'[d] = "waiting" => restarter[d] = "waiting"
  BY Zenon DEF RestartStarted, CallInv, TypeOK
<1>5. QED
  BY Zenon, <1>1, <1>2, <1>3, <1>4, CountKept DEF Restarts

\* Neither do exits and timers.
LEMMA BackOffCount ==
  ASSUME CallInv, CountOK, UNCHANGED vars \/ ProcessExit \/ ExecExit \/ \E e \in Epoch : BackOff(e)
  PROVE  CountOK'
<1>1. UNCHANGED <<epoch, pc, restarter, queue>> /\ proc'.inc = proc.inc
  <2>1. UNCHANGED <<epoch, pc, restarter, queue>>
    BY Zenon DEF BackOff, ProcessExit, ExecExit, vars, daemonVars, clientVars, containerdVars, callVars
  <2>2. proc' = proc \/ \E st, k : proc' = [proc EXCEPT !.state = st, !.killed = k]
    BY Zenon DEF BackOff, ProcessExit, ExecExit, vars, daemonVars, clientVars, containerdVars, callVars
  <2>3. QED
    BY Zenon, <2>1, <2>2 DEF CallInv, TypeOK
<1>2. \A e \in Epoch : rm'[e].restartCount = rm[e].restartCount
  <2>1. CASE UNCHANGED rm
    BY Zenon, <2>1
  <2>2. CASE \E e \in Epoch : BackOff(e)
    <3>1. ManagersTypeOK /\ \E e \in Epoch : TimerFires(e) \/ CancelSeen(e)
      BY Zenon, <2>2 DEF BackOff, CallInv, TypeOK
    <3>2. QED
      BY <3>1 DEF TimerFires, CancelSeen, ManagersTypeOK, Epoch
  <2>3. QED
    BY Zenon, <2>1, <2>2 DEF ProcessExit, ExecExit, vars, daemonVars
<1>3. Creating' => Creating
  BY Zenon, <1>1 DEF Creating, Top
<1>4. Restarts' => Restarts
  BY Zenon, <1>1, SameQueue DEF Restarts
<1>5. QED
  BY Zenon, <1>1, <1>2, <1>3, <1>4, CountKept

\* The count is kept by every step.
LEMMA CountStep ==
  ASSUME CallInv, ManagersUsed, ProcessInv, RetriesBounded, CountOK, [Next]_vars
  PROVE  CountOK'
<1>1. ASSUME NEW c \in Client, CallEffect(c) PROVE CountOK'
  <2>1. CASE StartBegins(c) \/ Create(c)
    BY Zenon, <2>1, StartCount, CreateCount
  <2>2. CASE ~(StartBegins(c) \/ Create(c))
    <3>1. Idle(c)
      BY Zenon, <1>1, <2>2, CallIdle DEF CallEffect
    <3>2. proc'.inc = proc.inc
      <4>1. CASE Dies(c) \/ RmRemove(c) \/ Froze(c)
        BY Zenon, <4>1 DEF Dies, RmRemove, Froze, containerdVars, CallInv, TypeOK
      <4>2. CASE ~(Dies(c) \/ RmRemove(c) \/ Froze(c))
        BY Zenon, <1>1, <2>2, <4>2, CallUnaffected DEF CallEffect, Unaffected
      <4>3. QED
        BY Zenon, <4>1, <4>2
    <3>3. QED
      BY Zenon, <3>1, <3>2, CallCount
  <2>3. QED
    BY Zenon, <2>1, <2>2
<1>2. CASE UNCHANGED vars \/ ProcessExit \/ ExecExit \/ \E e \in Epoch : BackOff(e)
  BY <1>2, BackOffCount
<1>3. CASE HandleEvent \/ RunCallback
  BY <1>3, HandleEventCount, RunCallbackCount
<1>4. ASSUME NEW e \in Epoch, RestartReceive(e) \/ RestartStarted(e) PROVE CountOK'
  BY Zenon, <1>4, RestartReceiveCount, RestartStartedCount
<1>5. Stacks
  BY Zenon DEF CallInv, Stacks
<1>6. QED
  BY Zenon, <1>1, <1>2, <1>3, <1>4, <1>5, NextDoes DEF OtherEffect

\* Nothing has been started at first.
LEMMA InitCount == Init => CountOK
<1>1. ASSUME Init PROVE epoch = 0 /\ proc.inc = 0
  <2>1. epoch = 0
    BY Zenon, <1>1 DEF Init
  <2>2. proc = [inc |-> 0, state |-> "none", killed |-> FALSE]
    BY Zenon, <1>1 DEF Init
  <2>3. QED
    BY Zenon, <2>1, <2>2
<1>2. QED
  BY Zenon, <1>1 DEF CountOK

\* The count gives the limit.
LEMMA CountLimits == ASSUME CallInv, CountOK, RetriesBounded PROVE RestartsBounded
<1> SUFFICES ASSUME PolicyName = "on-failure", MaximumRetryCount > 0
             PROVE  proc.inc <= epoch * (1 + MaximumRetryCount)
  BY Zenon DEF RestartsBounded
<1>1. /\ proc.inc \in Nat /\ epoch \in Nat
      /\ epoch # 0 => epoch \in Epoch /\ rm[epoch].restartCount \in Nat
  BY Zenon, CountTypes
<1>2. CASE epoch = 0
  <2>1. 0 * (1 + MaximumRetryCount) \in Nat
    BY Zenon, Limits
  <2>2. QED
    BY <1>2, <2>1 DEF CountOK
<1>3. CASE epoch # 0
  <2> DEFINE n == epoch * (1 + MaximumRetryCount)
             b == (epoch - 1) * (1 + MaximumRetryCount)
  <2>1. epoch - 1 \in Nat /\ (epoch - 1) + 1 = epoch
    BY <1>1, <1>3
  <2>2. b \in Nat /\ n = b + 1 + MaximumRetryCount
    BY Zenon, <2>1, Limits
  <2>3. proc.inc + Due <= b + 1 + rm[epoch].restartCount
    BY Zenon, <1>3 DEF CountOK, Limit
  <2>4. rm[epoch].restartCount <= MaximumRetryCount
    BY Zenon, <1>1, <1>3 DEF RetriesBounded, Epoch
  <2>5. MaximumRetryCount \in Nat
    BY Zenon, PolicyAssumption
  <2> HIDE DEF b, n
  <2>6. proc.inc <= n
    BY <1>1, <1>3, <2>2, <2>3, <2>4, <2>5, DueType
  <2>7. QED
    BY Zenon, <2>6 DEF n
<1>4. QED
  BY Zenon, <1>2, <1>3

\* A container with the policy on-failure:N gets at most 1 + N processes for
\* every start of a client, and its manager never counts more than N restarts,
\* however exits, cancels and starts interleave; unless a failure leaves a
\* process behind.
THEOREM LifecycleRestartsLimited == ASSUME NothingLeftBehind PROVE Spec => []RestartsLimited
<1> DEFINE I == CallInv /\ ManagersUsed /\ ProcessInv
<1>1. Init => CountOK
  BY Zenon, InitCount
<1>2. I /\ RetriesBounded /\ CountOK /\ [Next]_vars => CountOK'
  BY Zenon, CountStep
<1>3. I /\ CountOK /\ RetriesBounded => RestartsLimited
  BY Zenon, CountLimits DEF RestartsLimited
<1>4. Spec => []I
  BY Zenon, LifecycleProcess
<1>5. Spec => []RetriesBounded
  BY Zenon, LifecycleRetriesBounded
<1> HIDE DEF I
<1>6. QED
  BY <1>1, <1>2, <1>3, <1>4, <1>5, PTL DEF Spec
===========================================================================
