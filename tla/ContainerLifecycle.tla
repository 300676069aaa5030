------------------------ MODULE ContainerLifecycle ------------------------
(***************************************************************************)
(* One container of the daemon, from the API handlers that start, stop,    *)
(* kill, pause, restart and remove it down to containerd's events:         *)
(*                                                                         *)
(*   daemon/{start,stop,kill,pause,unpause,restart,delete,monitor}.go      *)
(*   container/state.go           the flags, the lock, the wait channel    *)
(*   restartmanager/              the automatic restarts (RestartManager)  *)
(*   libcontainerd/*_linux.go     the client: its map of containers, its   *)
(*                                per-container lock and callback queue    *)
(*   containerd                   external: the process and its events     *)
(*                                                                         *)
(* An API call is a goroutine: pc[c] is its call stack, the label it is at *)
(* first and the labels its callers continue at after it.  A step is what  *)
(* happens between two points where the goroutine may be delayed: waiting  *)
(* for the container's lock (mu), for the client's lock (clk), for the     *)
(* wait channel or for the answer to a pause.  A request that is refused   *)
(* by a check that changes nothing is not a step.                          *)
(***************************************************************************)
EXTENDS RestartManager, Naturals, Sequences, FiniteSets

CONSTANTS
  Client,             \* goroutines of the API server
  None,               \* no holder
  Ops,                \* the API calls the clients make
  Failures,           \* the calls to other systems that may fail
  MaxInc,             \* bound: processes that may exit without being killed
  MaxExec             \* bound: exits of exec processes

ASSUME LifecycleAssumption ==
  /\ None \notin Client
  /\ Ops \subseteq {"start", "stop", "stopForever", "kill", "signal", "rm", "rmForce",
                    "restart", "pause", "unpause", "wait"}
  /\ Failures \subseteq {"setup", "create", "attach", "save", "restart", "restartAttach", "remove"}
  /\ Cardinality(Manager) \in Nat /\ Manager = 1..Cardinality(Manager)
  /\ MaxInc \in Nat /\ MaxExec \in Nat

VARIABLES
  \* container.Container
  state,       \* the flags of container.State
  mu,          \* holder of the container's lock
  woken,       \* the clients whose waitChan, read before, has been closed
  manual,      \* HasBeenManuallyStopped
  registered,  \* daemon.containers has the container
  epoch,       \* number of RestartManager(true) calls: its current restartManager
  \* libcontainerd client
  ctr,         \* clnt.containers[id]: the container object of that epoch, 0 if none
  restarting,  \* the epochs whose container object has restarting = true
  restarter,   \* the goroutine of handleEvent that restarts, by epoch
  clk,         \* holder of clnt.lock(id) between steps: an epoch's restarter, or 0
  queue,       \* clnt.q: the callbacks still to run, in order
  \* containerd
  proc,        \* the init process: its number, its state, whether it got SIGKILL
  events,      \* the event stream
  execs,       \* number of exec processes that have exited
  \* the API calls
  pc, res, sig, opt

daemonVars == <<state, mu, woken, manual, registered, epoch, rm>>
clientVars == <<ctr, restarting, restarter, clk, queue>>
containerdVars == <<proc, events, execs>>
callVars == <<pc, res, sig, opt>>
vars == <<daemonVars, clientVars, containerdVars, callVars>>

\* The restart managers are numbered by the starts; Manager bounds them.
Epoch == Manager
MaxEpoch == Cardinality(Epoch)

Label == {"start", "create", "ks", "signal", "stop", "stop1", "stop2", "stop3", "stop4",
          "waitStop", "waitForever", "waiting", "waitingForever", "end",
          "kill", "kill1", "kill2", "direct",
          "rm", "rmCheck", "rmKilled", "rmStopped", "rmRemove", "rmEnd",
          "restart1", "pause", "unpause", "setPaused", "setResumed", "paused", "resumed",
          "stateSet"}

StateInfo == [state : {"exit", "restart", "pause", "resume", "exitProcess"}, epoch : Epoch]
Event == [type : {"exit", "pause", "resume", "exitProcess"}, code : {0, 1}]

TypeOK ==
  /\ state \in [Running : BOOLEAN, Paused : BOOLEAN, Restarting : BOOLEAN, Dead : BOOLEAN,
                RemovalInProgress : BOOLEAN, Pid : Nat]
  /\ mu \in Client \cup {None}
  /\ woken \subseteq Client
  /\ manual \in BOOLEAN /\ registered \in BOOLEAN
  /\ epoch \in 0..MaxEpoch
  /\ ManagersTypeOK
  /\ ctr \in 0..MaxEpoch
  /\ restarting \subseteq Epoch
  /\ restarter \in [Epoch -> {"none", "waiting", "started"}]
  /\ clk \in 0..MaxEpoch
  /\ queue \in Seq(StateInfo)
  /\ proc \in [inc : Nat, state : {"none", "running", "paused"}, killed : BOOLEAN]
  /\ events \in Seq(Event)
  /\ execs \in 0..MaxExec
  /\ pc \in [Client -> Seq(Label)]
  /\ res \in [Client -> {"ok", "err"}]
  /\ sig \in [Client -> {"TERM", "KILL"}]
  /\ opt \in [Client -> {"", "force", "forever"}]

\* A container that was created and never started.
Init ==
  /\ state = [Running |-> FALSE, Paused |-> FALSE, Restarting |-> FALSE, Dead |-> FALSE,
              RemovalInProgress |-> FALSE, Pid |-> 0]
  /\ mu = None /\ woken = {} /\ manual = FALSE /\ registered = TRUE /\ epoch = 0
  /\ ManagersInit
  /\ ctr = 0 /\ restarting = {} /\ restarter = [e \in Epoch |-> "none"] /\ clk = 0
  /\ queue = <<>>
  /\ proc = [inc |-> 0, state |-> "none", killed |-> FALSE]
  /\ events = <<>> /\ execs = 0
  /\ pc = [c \in Client |-> <<>>]
  /\ res = [c \in Client |-> "ok"]
  /\ sig = [c \in Client |-> "TERM"]
  /\ opt = [c \in Client |-> ""]

-----------------------------------------------------------------------------
\* The call stacks.
At(c, label) == pc[c] # <<>> /\ Head(pc[c]) = label
Goto(c, label) == /\ pc' = [pc EXCEPT ![c] = <<label>> \o Tail(@)]
                  /\ UNCHANGED res
Call(c, label, then) == /\ pc' = [pc EXCEPT ![c] = <<label, then>> \o Tail(@)]
                        /\ UNCHANGED res
Return(c, r) == /\ pc' = [pc EXCEPT ![c] = Tail(@)]
                /\ res' = [res EXCEPT ![c] = r]

\* A step of call c that changes nothing but where it is.
Moves == UNCHANGED <<daemonVars, clientVars, containerdVars, sig, opt>>

Alive == proc.state # "none"
Spawn == proc' = [inc |-> proc.inc + 1, state |-> "running", killed |-> FALSE]

\* close(s.waitChan); s.waitChan = make(...)
WakeWaiters ==
  woken' = woken \cup {c \in Client : At(c, "waiting") \/ At(c, "waitingForever")}

\* Mutants of the three setters.
SetRunningKeepsRestarting(pid) ==
  /\ state' = [state EXCEPT !.Running = TRUE, !.Paused = FALSE, !.Pid = pid]
  /\ manual' = FALSE

SetStoppedWakesNobody ==
  /\ state' = [state EXCEPT !.Running = FALSE, !.Paused = FALSE, !.Restarting = FALSE,
                            !.Pid = 0]
  /\ UNCHANGED woken

SetStoppedUnsetsPid ==
  /\ state' = [state EXCEPT !.Running = FALSE, !.Paused = FALSE, !.Restarting = FALSE,
                            !.Pid = None]
  /\ WakeWaiters

SetRestartingNotRunning ==
  /\ state' = [state EXCEPT !.Running = FALSE, !.Restarting = TRUE, !.Pid = 0]
  /\ WakeWaiters

\* State.SetRunning, by StateChanged(StateStart), and what that handler adds.
SetRunning(pid) ==
  /\ state' = [state EXCEPT !.Running = TRUE, !.Paused = FALSE, !.Restarting = FALSE,
                            !.Pid = pid]
  /\ manual' = FALSE

SetStopped ==
  /\ state' = [state EXCEPT !.Running = FALSE, !.Paused = FALSE, !.Restarting = FALSE,
                            !.Pid = 0]
  /\ WakeWaiters

SetRestarting ==
  /\ state' = [state EXCEPT !.Running = TRUE, !.Restarting = TRUE, !.Pid = 0]
  /\ WakeWaiters

-----------------------------------------------------------------------------
(* containerStart *)

\* Mutants of AlreadyRunning and MarkedForRemoval.
RunningNow == state.Running /\ ~state.Restarting
NeverMarked == FALSE

AlreadyRunning == state.Running
MarkedForRemoval == state.RemovalInProgress \/ state.Dead

\* Up to container.RestartManager(true); mounting, networking and the spec
\* come before it and may fail.
ContainerStart(c) ==
  /\ At(c, "start") /\ mu = None
  /\ \/ /\ AlreadyRunning
        /\ Return(c, "ok")
        /\ Moves
     \/ /\ ~AlreadyRunning
        /\ MarkedForRemoval \/ epoch = MaxEpoch \/ "setup" \in Failures
        /\ Return(c, "err")
        /\ Moves
     \/ /\ ~AlreadyRunning /\ ~MarkedForRemoval
        /\ epoch < MaxEpoch
        /\ epoch' = epoch + 1
        /\ mu' = c
        /\ Goto(c, "create")
        /\ UNCHANGED <<state, woken, manual, registered, rm, clientVars, containerdVars, sig, opt>>

\* containerd.Create under the client's lock, then the lock is released.
\* It refuses an active entry of clnt.containers.  When anything after that
\* fails, the entry is deleted: CreateContainer itself, AttachStreams after
\* it, or saving the container after SetRunning.
Create(c) ==
  /\ At(c, "create") /\ clk = 0
  /\ LET active == ctr # 0 /\ ctr \notin restarting IN
     \/ /\ active
        /\ Return(c, "err")
        /\ UNCHANGED <<state, manual, ctr, proc>>
     \/ /\ ~active
        /\ Alive \/ "create" \in Failures
        /\ ctr' = 0
        /\ Return(c, "err")
        /\ UNCHANGED <<state, manual, proc>>
     \/ /\ ~active /\ ~Alive
        /\ "attach" \in Failures
        /\ Spawn
        /\ ctr' = 0
        /\ Return(c, "err")
        /\ UNCHANGED <<state, manual>>
     \/ /\ ~active /\ ~Alive
        /\ "save" \in Failures
        /\ Spawn
        /\ SetRunning(proc.inc + 1)
        /\ ctr' = 0
        /\ Return(c, "err")
     \/ /\ ~active /\ ~Alive
        /\ Spawn
        /\ SetRunning(proc.inc + 1)
        /\ ctr' = epoch
        /\ Return(c, "ok")
  /\ mu' = None
  /\ UNCHANGED <<woken, registered, epoch, rm, restarting, restarter, clk, queue,
                 events, execs, sig, opt>>

-----------------------------------------------------------------------------
(* killWithSignal *)

\* Up to the signal: refuse a paused or stopped container, cancel the restart
\* manager (ExitOnNext), note that the user stopped it.
KillWithSignal(c) ==
  /\ At(c, "ks") /\ mu = None
  /\ \/ /\ state.Paused \/ ~state.Running
        /\ Return(c, "err")
        /\ UNCHANGED <<rm, manual, mu>>
     \/ /\ ~state.Paused /\ state.Running
        /\ Cancel(epoch)
        /\ manual' = TRUE
        /\ \/ state.Restarting /\ Return(c, "ok") /\ UNCHANGED mu
           \/ ~state.Restarting /\ Goto(c, "signal") /\ mu' = c
  /\ UNCHANGED <<state, woken, registered, epoch, clientVars, containerdVars, sig, opt>>

\* containerd.Signal; that there is no process is no error.
Signal(c) ==
  /\ At(c, "signal") /\ clk = 0
  /\ proc' = [proc EXCEPT !.killed = @ \/ (Alive /\ sig[c] = "KILL")]
  /\ mu' = None
  /\ Return(c, "ok")
  /\ UNCHANGED <<state, woken, manual, registered, epoch, rm, clientVars, events, execs, sig, opt>>

-----------------------------------------------------------------------------
(* State.WaitStop *)

WaitStop(c) ==
  /\ At(c, "waitStop") \/ At(c, "waitForever")
  /\ mu = None
  /\ \/ ~state.Running /\ Return(c, "ok")
     \/ state.Running /\ Goto(c, IF At(c, "waitStop") THEN "waiting" ELSE "waitingForever")
  /\ Moves

WaitStopDone(c) ==
  /\ At(c, "waiting") \/ At(c, "waitingForever")
  /\ c \in woken /\ mu = None
  /\ woken' = woken \ {c}
  /\ Return(c, "ok")
  /\ UNCHANGED <<state, mu, manual, registered, epoch, rm, clientVars, containerdVars, sig, opt>>

WaitStopTimeout(c) ==
  /\ At(c, "waiting")
  /\ woken' = woken \ {c}
  /\ Return(c, "err")
  /\ UNCHANGED <<state, mu, manual, registered, epoch, rm, clientVars, containerdVars, sig, opt>>

-----------------------------------------------------------------------------
(* containerStop *)

\* 1. Send a stop signal, and SIGKILL if that fails; 2. wait.
ContainerStop(c) ==
  \/ /\ At(c, "stop") /\ mu = None
     /\ \/ ~state.Running /\ Return(c, "ok") /\ UNCHANGED sig
        \/ state.Running /\ Call(c, "ks", "stop1") /\ sig' = [sig EXCEPT ![c] = "TERM"]
     /\ UNCHANGED <<daemonVars, clientVars, containerdVars, opt>>
  \/ /\ At(c, "stop1") /\ res[c] = "err"
     /\ Call(c, "ks", "stop2")
     /\ sig' = [sig EXCEPT ![c] = "KILL"]
     /\ UNCHANGED <<daemonVars, clientVars, containerdVars, opt>>
  \/ /\ At(c, "stop2") /\ res[c] = "err"
     /\ Return(c, "err")
     /\ Moves
  \/ /\ At(c, "stop1") \/ At(c, "stop2")
     /\ res[c] = "ok"
     /\ Call(c, IF opt[c] = "forever" THEN "waitForever" ELSE "waitStop", "stop3")
     /\ Moves

\* 3. After the timeout Kill; an error of that is not an error of the stop.
ContainerStopWaited(c) ==
  \/ /\ At(c, "stop3") \/ At(c, "stop4")
     /\ res[c] = "ok"
     /\ Return(c, "ok")
     /\ Moves
  \/ At(c, "stop3") /\ res[c] = "err" /\ Call(c, "kill", "stop4") /\ Moves
  \/ At(c, "stop4") /\ res[c] = "err" /\ Call(c, "waitForever", "end") /\ Moves

End(c) == At(c, "end") /\ Return(c, "ok") /\ Moves

-----------------------------------------------------------------------------
(* Kill *)

Kill(c) ==
  /\ At(c, "kill") /\ mu = None
  /\ \/ ~state.Running /\ Return(c, "err") /\ UNCHANGED sig
     \/ state.Running /\ Call(c, "ks", "kill1") /\ sig' = [sig EXCEPT ![c] = "KILL"]
  /\ UNCHANGED <<daemonVars, clientVars, containerdVars, opt>>

\* A failed signal is an error only if two seconds later it still runs.
KillSent(c) ==
  \/ At(c, "kill1") /\ res[c] = "ok" /\ Call(c, "waitStop", "direct") /\ Moves
  \/ /\ At(c, "kill1") /\ res[c] = "err" /\ mu = None
     /\ Call(c, "waitStop", IF state.Running THEN "kill2" ELSE "direct")
     /\ Moves
  \/ /\ At(c, "kill2") /\ mu = None
     /\ \/ state.Running /\ Return(c, "err")
        \/ ~state.Running /\ Call(c, "waitStop", "direct")
     /\ Moves

\* killProcessDirectly after its wait; a pid whose process is gone ends Kill
\* without the last wait.
KillProcessDirectly(c) ==
  /\ At(c, "direct")
  /\ \/ /\ res[c] = "ok" \/ (mu = None /\ state.Pid = 0)
        /\ Call(c, "waitForever", "end")
        /\ UNCHANGED proc
     \/ /\ res[c] = "err" /\ mu = None /\ state.Pid # 0
        /\ IF Alive /\ proc.inc = state.Pid
             THEN proc' = [proc EXCEPT !.killed = TRUE] /\ Call(c, "waitForever", "end")
             ELSE UNCHANGED proc /\ Return(c, "ok")
  /\ UNCHANGED <<daemonVars, clientVars, events, execs, sig, opt>>

-----------------------------------------------------------------------------
(* ContainerRm *)

\* A mutant of SetRemovalInProgress: the flag is not tested.
SetRemovalAgain(c) ==
  /\ At(c, "rm") /\ mu = None
  /\ state' = [state EXCEPT !.RemovalInProgress = TRUE]
  /\ Goto(c, "rmCheck")
  /\ UNCHANGED <<mu, woken, manual, registered, epoch, rm, clientVars, containerdVars, sig, opt>>

SetRemovalInProgress(c) ==
  /\ At(c, "rm") /\ mu = None
  /\ \/ state.RemovalInProgress /\ Return(c, "ok") /\ UNCHANGED state
     \/ /\ ~state.RemovalInProgress
        /\ state' = [state EXCEPT !.RemovalInProgress = TRUE]
        /\ Goto(c, "rmCheck")
  /\ UNCHANGED <<mu, woken, manual, registered, epoch, rm, clientVars, containerdVars, sig, opt>>

\* Then cleanupContainer, unless another removal has deregistered it.
RmCheck(c) ==
  /\ At(c, "rmCheck") /\ mu = None
  /\ \/ ~registered /\ pc' = [pc EXCEPT ![c] = <<"rmEnd">>] /\ res' = [res EXCEPT ![c] = "ok"]
     \/ /\ registered /\ state.Running /\ opt[c] # "force"
        /\ pc' = [pc EXCEPT ![c] = <<"rmEnd">>]
        /\ res' = [res EXCEPT ![c] = "err"]
     \/ registered /\ state.Running /\ opt[c] = "force" /\ Call(c, "kill", "rmKilled")
     \/ registered /\ ~state.Running /\ Call(c, "stop", "rmStopped")
  /\ Moves

RmKilled(c) ==
  /\ At(c, "rmKilled")
  /\ IF res[c] = "ok" THEN Call(c, "stop", "rmStopped") ELSE Goto(c, "rmEnd")
  /\ Moves

\* container.SetDead()
SetDead(c) ==
  /\ At(c, "rmStopped")
  /\ \/ res[c] = "err" /\ Goto(c, "rmEnd") /\ UNCHANGED state
     \/ /\ res[c] = "ok" /\ mu = None
        /\ state' = [state EXCEPT !.Dead = TRUE]
        /\ Goto(c, "rmRemove")
  /\ UNCHANGED <<mu, woken, manual, registered, epoch, rm, clientVars, containerdVars, sig, opt>>

\* Removing the files and the read-write layer; on success, or by force, the
\* container leaves the daemon's indexes.
RmRemove(c) ==
  /\ At(c, "rmRemove")
  /\ \/ /\ res' = [res EXCEPT ![c] = "ok"]
        /\ registered' = FALSE
     \/ /\ "remove" \in Failures
        /\ res' = [res EXCEPT ![c] = "err"]
        /\ registered' = (registered /\ opt[c] # "force")
  /\ pc' = [pc EXCEPT ![c] = <<"rmEnd">>]
  /\ UNCHANGED <<state, mu, woken, manual, epoch, rm, clientVars, containerdVars, sig, opt>>

ResetRemovalInProgress(c) ==
  /\ At(c, "rmEnd") /\ mu = None
  /\ state' = [state EXCEPT !.RemovalInProgress = FALSE]
  /\ Return(c, res[c])
  /\ UNCHANGED <<mu, woken, manual, registered, epoch, rm, clientVars, containerdVars, sig, opt>>

\* containerRestart between its stop and its start.
ContainerRestart(c) ==
  /\ At(c, "restart1")
  /\ IF res[c] = "ok" THEN Goto(c, "start") ELSE Return(c, "err")
  /\ Moves

-----------------------------------------------------------------------------
(* containerPause and containerUnpause; both keep the lock to their end *)

ContainerPause(c) ==
  /\ mu = None
  /\ \/ /\ At(c, "pause")
        /\ state.Running /\ ~state.Paused /\ ~state.Restarting
        /\ mu' = c
        /\ Goto(c, "setPaused")
     \/ /\ At(c, "unpause")
        /\ state.Running /\ state.Paused
        /\ mu' = c
        /\ Goto(c, "setResumed")
     \/ /\ \/ At(c, "pause") /\ (~state.Running \/ state.Paused \/ state.Restarting)
           \/ At(c, "unpause") /\ (~state.Running \/ ~state.Paused)
        /\ Return(c, "err")
        /\ UNCHANGED mu
  /\ UNCHANGED <<state, woken, manual, registered, epoch, rm, clientVars, containerdVars, sig, opt>>

\* client.setState: containerd freezes or thaws the process and sends the
\* event; the goroutine then waits for pauseMonitor to handle that event.
SetState(c) ==
  /\ At(c, "setPaused") \/ At(c, "setResumed")
  /\ clk = 0
  /\ LET pausing == At(c, "setPaused")
         possible == ctr # 0 /\ proc.state = (IF pausing THEN "running" ELSE "paused") IN
     \/ /\ possible
        /\ proc' = [proc EXCEPT !.state = IF pausing THEN "paused" ELSE "running"]
        /\ events' = Append(events, [type |-> IF pausing THEN "pause" ELSE "resume", code |-> 0])
        /\ Goto(c, IF pausing THEN "paused" ELSE "resumed")
        /\ UNCHANGED mu
     \/ /\ ~possible
        /\ Return(c, "err")
        /\ mu' = None
        /\ UNCHANGED <<proc, events>>
  /\ UNCHANGED <<state, woken, manual, registered, epoch, rm, clientVars, execs, sig, opt>>

SetStateDone(c) ==
  /\ At(c, "stateSet")
  /\ mu' = None
  /\ Return(c, "ok")
  /\ UNCHANGED <<state, woken, manual, registered, epoch, rm, clientVars, containerdVars, sig, opt>>

-----------------------------------------------------------------------------
(* API requests; the ones refused by a check of the handler change nothing *)

Request(c, op) ==
  /\ pc[c] = <<>> /\ registered
  /\ op = "start" => mu = None /\ ~state.Paused /\ ~state.Running
  /\ op \in {"stop", "stopForever"} => mu = None /\ state.Running
  /\ pc' = [pc EXCEPT ![c] = CASE op = "stopForever" -> <<"stop">>
                               [] op = "signal"      -> <<"ks">>
                               [] op = "rmForce"     -> <<"rm">>
                               [] op = "restart"     -> <<"stop", "restart1">>
                               [] op = "wait"        -> <<"waitForever">>
                               [] OTHER              -> <<op>>]
  /\ opt' = [opt EXCEPT ![c] = CASE op = "stopForever" -> "forever"
                                 [] op = "rmForce"     -> "force"
                                 [] OTHER              -> ""]
  /\ sig' = [sig EXCEPT ![c] = "TERM"]
  /\ UNCHANGED <<res, daemonVars, clientVars, containerdVars>>

ApiStep(c) ==
  \/ ContainerStart(c) \/ Create(c)
  \/ KillWithSignal(c) \/ Signal(c)
  \/ WaitStop(c) \/ WaitStopDone(c)
  \/ ContainerStop(c) \/ ContainerStopWaited(c) \/ End(c)
  \/ Kill(c) \/ KillSent(c) \/ KillProcessDirectly(c)
  \/ SetRemovalInProgress(c) \/ RmCheck(c) \/ RmKilled(c) \/ SetDead(c) \/ RmRemove(c)
  \/ ResetRemovalInProgress(c)
  \/ ContainerRestart(c)
  \/ ContainerPause(c) \/ SetState(c) \/ SetStateDone(c)

-----------------------------------------------------------------------------
(* containerd *)

\* The process exits: because it got SIGKILL or on its own.
ProcessExit ==
  /\ proc.state = "running"
  /\ proc.killed \/ proc.inc < MaxInc
  /\ \E code \in {0, 1} :
       /\ proc.killed => code # 0
       /\ events' = Append(events, [type |-> "exit", code |-> code])
  /\ proc' = [proc EXCEPT !.state = "none", !.killed = FALSE]
  /\ UNCHANGED <<daemonVars, clientVars, execs, callVars>>

\* A process started by exec in the running container exits.
ExecExit ==
  /\ proc.state = "running" /\ execs < MaxExec
  /\ execs' = execs + 1
  /\ events' = Append(events, [type |-> "exitProcess", code |-> 0])
  /\ UNCHANGED <<daemonVars, clientVars, proc, callVars>>

-----------------------------------------------------------------------------
(* libcontainerd's event loop, callback queue and restart goroutine *)

\* A mutant of HandleExit: the error of a canceled manager ends the handler.
HandleExitGivesUp(code) ==
  /\ ctr' = 0
  /\ \/ /\ ShouldRestart(ctr, code, FALSE)
        /\ restarting' = restarting \cup {ctr}
        /\ queue' = Append(queue, [state |-> "restart", epoch |-> ctr])
     \/ /\ ~MayRestart(ctr, code, FALSE)
        /\ queue' = IF rm[ctr].canceled THEN queue
                    ELSE Append(queue, [state |-> "exit", epoch |-> ctr])
        /\ UNCHANGED <<rm, restarting>>

\* handleEvent for the exit of the init process: restart it or not; either
\* way the entry of clnt.containers goes and StateChanged is queued.
HandleExit(code) ==
  /\ ctr' = 0
  /\ \/ /\ ShouldRestart(ctr, code, FALSE)
        /\ restarting' = restarting \cup {ctr}
        /\ queue' = Append(queue, [state |-> "restart", epoch |-> ctr])
     \/ /\ ~MayRestart(ctr, code, FALSE)
        /\ queue' = Append(queue, [state |-> "exit", epoch |-> ctr])
        /\ UNCHANGED <<rm, restarting>>

\* handleEventStream and container.handleEvent.  An event of a container that
\* is not in clnt.containers is dropped.
HandleEvent ==
  /\ events # <<>>
  /\ events' = Tail(events)
  /\ LET e == Head(events) IN
     \/ /\ ctr = 0
        /\ UNCHANGED <<rm, ctr, restarting, queue>>
     \/ /\ ctr # 0 /\ clk = 0
        /\ e.type = "exit"
        /\ HandleExit(e.code)
     \/ /\ ctr # 0 /\ clk = 0
        /\ e.type # "exit"
        /\ queue' = Append(queue, [state |-> e.type, epoch |-> ctr])
        /\ UNCHANGED <<rm, ctr, restarting>>
  /\ UNCHANGED <<state, mu, woken, manual, registered, epoch, restarter, clk,
                 proc, execs, callVars>>

\* daemon.StateChanged; the exits and the restart take the container's lock.
\* A container that is no longer registered is ignored.
StateChanged(st) ==
  IF ~registered THEN UNCHANGED <<state, woken>> ELSE
    /\ st \in {"exit", "restart", "exitProcess"} => mu = None
    /\ CASE st = "exit"    -> SetStopped
         [] st = "restart" -> SetRestarting
         [] st = "pause"   -> state' = [state EXCEPT !.Paused = TRUE] /\ UNCHANGED woken
         [] st = "resume"  -> state' = [state EXCEPT !.Paused = FALSE] /\ UNCHANGED woken
         [] OTHER          -> UNCHANGED <<state, woken>>

\* pauseMonitor.handle.
HandlePause(st) ==
  pc' = [c \in Client |-> IF \/ st = "pause" /\ At(c, "paused")
                             \/ st = "resume" /\ At(c, "resumed")
                            THEN <<"stateSet">> ELSE pc[c]]

\* The next callback of the queue: StateChanged, and the restart goroutine or
\* the waiters of pauseMonitor after it.
RunCallback ==
  /\ queue # <<>>
  /\ queue' = Tail(queue)
  /\ LET st == Head(queue) IN
     /\ StateChanged(st.state)
     /\ restarter' = IF st.state = "restart" THEN [restarter EXCEPT ![st.epoch] = "waiting"]
                                             ELSE restarter
     /\ HandlePause(st.state)
  /\ UNCHANGED <<mu, manual, registered, epoch, rm, ctr, restarting, clk, containerdVars,
                 res, sig, opt>>

\* The goroutine has received from the restart manager's channel and takes the
\* client's lock.  start() enters the container object in clnt.containers
\* before CreateContainer; when that fails the entry stays.
RestartReceive(e) ==
  /\ restarter[e] = "waiting" /\ clk = 0
  /\ Receive(e)
  /\ restarting' = restarting \ {e}
  /\ \/ /\ rm[e].wait = "canceled"
        /\ queue' = Append(queue, [state |-> "exit", epoch |-> e])
        /\ restarter' = [restarter EXCEPT ![e] = "none"]
        /\ UNCHANGED <<ctr, clk, proc>>
     \/ /\ rm[e].wait = "restart"
        /\ Alive \/ "restart" \in Failures
        /\ ctr' = e
        /\ queue' = Append(queue, [state |-> "exit", epoch |-> e])
        /\ restarter' = [restarter EXCEPT ![e] = "none"]
        /\ UNCHANGED <<clk, proc>>
     \/ /\ rm[e].wait = "restart"
        /\ ~Alive
        /\ ctr' = e
        /\ Spawn
        /\ clk' = e
        /\ restarter' = [restarter EXCEPT ![e] = "started"]
        /\ UNCHANGED queue
  /\ UNCHANGED <<state, mu, woken, manual, registered, epoch, events, execs, callVars>>

\* AttachStreams and StateChanged(StateStart), which does not take the
\* container's lock here; both fail for a container no longer registered.
RestartStarted(e) ==
  /\ restarter[e] = "started"
  /\ \/ /\ registered
        /\ SetRunning(proc.inc)
        /\ UNCHANGED queue
     \/ /\ ~registered \/ "restartAttach" \in Failures
        /\ queue' = Append(queue, [state |-> "exit", epoch |-> e])
        /\ UNCHANGED <<state, manual>>
  /\ restarter' = [restarter EXCEPT ![e] = "none"]
  /\ clk' = 0
  /\ UNCHANGED <<mu, woken, registered, epoch, rm, ctr, restarting, containerdVars, callVars>>

\* The back-off goroutine of the restart manager.
BackOff(e) ==
  /\ TimerFires(e) \/ CancelSeen(e)
  /\ UNCHANGED <<state, mu, woken, manual, registered, epoch, clientVars, containerdVars, callVars>>

DaemonStep ==
  \/ HandleEvent
  \/ RunCallback
  \/ \E e \in Epoch : BackOff(e) \/ RestartReceive(e) \/ RestartStarted(e)

Next ==
  \/ \E c \in Client : \/ \E op \in Ops : Request(c, op)
                       \/ ApiStep(c)
                       \/ WaitStopTimeout(c)
  \/ ProcessExit
  \/ ExecExit
  \/ DaemonStep

Spec == Init /\ [][Next]_vars

\* Every goroutine that can go on does, timers fire, and a process that got
\* SIGKILL exits.  A goroutine waiting for a lock that is released again and
\* again gets it in the end (strong fairness).  Nobody is obliged to call the
\* API, and a process need not exit by itself or on SIGTERM.
Fairness ==
  /\ \A c \in Client : SF_vars(ApiStep(c)) /\ WF_vars(WaitStopTimeout(c))
  /\ WF_vars(ProcessExit /\ proc.killed)
  /\ SF_vars(HandleEvent)
  /\ SF_vars(RunCallback)
  /\ \A e \in Epoch : WF_vars(BackOff(e)) /\ SF_vars(RestartReceive(e)) /\ WF_vars(RestartStarted(e))

FairSpec == Spec /\ Fairness

-----------------------------------------------------------------------------
(* Properties *)

\* Nothing is in flight: no lock held, no event, callback or restart pending.
Quiet == /\ mu = None /\ clk = 0 /\ queue = <<>> /\ events = <<>>
         /\ \A e \in Epoch : restarter[e] = "none"

\* When nothing is in flight, the flags the daemon shows (SetRunning,
\* SetStopped, SetRestarting, StateChanged), its pid and the entry of
\* clnt.containers agree with the process containerd runs.
FlagsAgree ==
  Quiet /\ registered =>
    /\ state.Running = Alive
    /\ state.Paused = (proc.state = "paused")
    /\ ~state.Restarting
    /\ state.Pid = (IF Alive THEN proc.inc ELSE 0)
    /\ ctr = (IF Alive THEN epoch ELSE 0)

\* At no moment, quiet or not, does the daemon call a container stopped whose
\* process is alive.
StoppedHasNoProcess == ~state.Running => ~Alive

\* At most one goroutine, an API call in containerd.Create or a restart
\* goroutine of handleEvent, is about to create the process, and then there
\* is no process and no entry in clnt.containers.
StarterIsAlone ==
  LET starting == {e \in Epoch : restarter[e] = "waiting"}
                    \cup {c \in Client : At(c, "create")} IN
  /\ \A x, y \in starting : x = y
  /\ starting # {} => ~Alive /\ ctr = 0

\* handleEvent never meets an active restart manager ("invalid call on active
\* restartmanager"), which would leave the exited container stopped.
ManagerReady ==
  events # <<>> /\ Head(events).type = "exit" /\ ctr # 0
    => ~rm[ctr].active

\* "on-failure:N" creates at most N further processes per start, through every
\* race of restarts with stops, kills and starts.
RestartsBounded ==
  PolicyName = "on-failure" /\ MaximumRetryCount > 0
    => proc.inc <= epoch * (1 + MaximumRetryCount)

\* The flags, the process and whoever is about to create one agree: the four
\* invariants above together.
ProcessesAgree == FlagsAgree /\ StoppedHasNoProcess /\ StarterIsAlone /\ ManagerReady

\* The limit of the restart policy holds for the processes created and for the
\* count the manager keeps.
RestartsLimited == RestartsBounded /\ RetriesBounded

\* WaitStop loses no wake-up: a goroutine that still waits once the container
\* is stopped holds a channel that has been closed, whatever fails.
NoLostWakeup ==
  \A c \in Client : (At(c, "waiting") \/ At(c, "waitingForever")) /\ ~state.Running
                      => c \in woken

\* RemovalInProgress admits one removal at a time and is set exactly while
\* one goroutine is between SetRemovalInProgress and its deferred reset.
OneRemoval ==
  LET removing == {c \in Client : pc[c] # <<>> /\ pc[c][Len(pc[c])]
                     \in {"rmCheck", "rmKilled", "rmStopped", "rmRemove", "rmEnd"}} IN
  /\ \A c, d \in removing : c = d
  /\ state.RemovalInProgress = (removing # {})

\* The waits and the removals of the API calls: the two invariants above.
CallsSafe == NoLostWakeup /\ OneRemoval

\* A removed container is gone for good: when the policy restarts nothing, no
\* process is ever created for a container once it is Dead.
DeadStaysDead == [][state.Dead => proc'.inc = proc.inc]_vars

\* The exit of the process is noticed: Running does not outlive it for ever.
ExitNoticed == state.Running /\ ~Alive ~> ~state.Running \/ Alive \/ ~registered

\* An API call returns, when nobody else operates the container.
CallsReturn == \A c \in Client : pc[c] # <<>> ~> pc[c] = <<>>

-----------------------------------------------------------------------------
(* What comments and documents say, and the code does not do *)

\* restart.go: containerRestart stops and then starts the container; with no
\* other client, containerStart then finds it stopped.
RestartFindsStopped == \A c \in Client : At(c, "start") => ~state.Running

\* start.go: a start that fails has "any other setup cleaned up properly"; in
\* particular no process is left.
FailedStartLeavesNothing ==
  [][\A c \in Client : At(c, "create") /\ pc'[c] # pc[c] /\ res'[c] = "err" => proc'.state = "none"]_vars

\* pause.go: "The execution can be resumed by calling containerUnpause."
UnpauseResumes == \A c \in Client : At(c, "unpause") ~> proc.state # "paused"
===========================================================================
