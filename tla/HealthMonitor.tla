--------------------------- MODULE HealthMonitor ---------------------------
(***************************************************************************)
(* daemon/health.go and container/health.go: the goroutine that probes a   *)
(* running container, and the handlers that start and stop it.             *)
(*                                                                         *)
(* A monitor is its stop channel: h.stop is the channel of the last one    *)
(* started.  Stopping is a send on that unbuffered channel, which          *)
(* completes when the monitor selects it.  The handlers that send are the  *)
(* callbacks of the event queue and the starts, one of each at a time, and *)
(* any number of stop requests.  Only what the monitor depends on is kept  *)
(* of the life cycle (see ContainerLifecycle): Running, Paused, the lock.  *)
(***************************************************************************)
EXTENDS Naturals, Sequences, FiniteSets

CONSTANTS
  Monitor,   \* monitor goroutines, each with its stop channel
  Stopper,   \* concurrent calls of containerStop
  None,      \* no channel, no holder
  Retries,   \* Healthcheck.Retries, or its default
  MaxRuns,   \* bound: starts and restarts of the container
  MaxStreak  \* bound: no probe is started after so many failures in a row

Handler == Stopper \cup {"queue", "starter"}

ASSUME HealthAssumption ==
  /\ None \notin Monitor /\ None \notin Handler
  /\ "queue" \notin Stopper /\ "starter" \notin Stopper
  /\ Retries \in Nat \ {0} /\ MaxRuns \in Nat /\ MaxStreak \in Nat

VARIABLES
  \* the container
  running, paused, restarting,
  lock,       \* who holds the container's lock between steps
  \* container.Health
  stop, status, failingStreak,
  \* the monitors
  monitor,    \* where each goroutine is
  probe,      \* its probe goroutine, or the result that goroutine is sending
  born,       \* history: the run of the container it was started in
  \* the handlers
  pc,
  channel,    \* the channel a handler is sending on
  \* containerd and its client
  process,    \* the container's process is alive
  queue,      \* the callbacks still to run
  pending,    \* an automatic restart waits for its back-off
  run         \* number of starts and restarts

containerVars == <<running, paused, restarting, process, queue, pending, run>>
healthVars == <<status, failingStreak>>
monitorVars == <<monitor, probe, born>>
vars == <<containerVars, healthVars, monitorVars, lock, stop, pc, channel>>

Results == {"healthy", "failed"}

Event == {"oom", "exit", "restart", "pause", "resume"}

\* The variables keep their types, and every probe adds at most one to the
\* failing streak, a timed out one included (handleProbeResult, then <-results).
TypeOK ==
  /\ running \in BOOLEAN /\ paused \in BOOLEAN /\ restarting \in BOOLEAN
  /\ process \in BOOLEAN /\ pending \in BOOLEAN
  /\ lock \in {"queue", "starter", "pauser", None}
  /\ stop \in Monitor \cup {None}
  /\ status \in {"starting", "healthy", "unhealthy"}
  /\ failingStreak \in 0..MaxStreak
  /\ monitor \in [Monitor -> {"none", "idle", "probing", "timedOut", "draining"} \cup Results]
  /\ probe \in [Monitor -> {"none", "asked", "running"} \cup Results]
  /\ born \in [Monitor -> Nat]
  /\ pc \in [Handler -> {"idle", "close", "found", "sending", "sent", "open", "done"}]
  /\ channel \in [Handler -> Monitor \cup {None}]
  /\ queue \in Seq(Event)
  /\ run \in Nat

Init ==
  /\ running = FALSE /\ paused = FALSE /\ restarting = FALSE
  /\ process = FALSE /\ pending = FALSE
  /\ lock = None
  /\ stop = None /\ status = "starting" /\ failingStreak = 0
  /\ monitor = [m \in Monitor |-> "none"]
  /\ probe = [m \in Monitor |-> "none"]
  /\ born = [m \in Monitor |-> 0]
  /\ pc = [t \in Handler |-> "idle"]
  /\ channel = [t \in Handler |-> None]
  /\ queue = <<>>
  /\ run = 0

Live(m) == monitor[m] # "none"

-----------------------------------------------------------------------------
(* Stopping and starting a monitor *)

Goto(t, label) == pc' = [pc EXCEPT ![t] = label]

\* Where CloseMonitorChannel returns to: initHealthMonitor goes on.
AfterClose(t) == IF t = "starter" THEN "open" ELSE "done"

\* CloseMonitorChannel's test of s.stop.
Close(t) ==
  /\ pc[t] = "close"
  /\ Goto(t, IF stop = None THEN AfterClose(t) ELSE "found")
  /\ UNCHANGED <<containerVars, healthVars, monitorVars, lock, stop, channel>>

\* s.stop <- struct{}{} reads s.stop again.  It may be nil by now, and a send
\* on a nil channel never ends.
Send(t) ==
  /\ pc[t] = "found"
  /\ Goto(t, "sending")
  /\ channel' = [channel EXCEPT ![t] = stop]
  /\ UNCHANGED <<containerVars, healthVars, monitorVars, lock, stop>>

\* A mutant of Stopped: the monitor finishes its probe first.
StoppedLater(t, m) ==
  /\ pc[t] = "sending" /\ channel[t] = m
  /\ Live(m)
  /\ monitor' = [monitor EXCEPT ![m] = IF @ = "idle" THEN "none" ELSE @]
  /\ born' = born
  /\ Goto(t, "sent")
  /\ UNCHANGED <<containerVars, healthVars, probe, lock, stop, channel>>

\* The monitor is at one of its two selects and takes the stop request; a
\* probe that runs is told to end and not waited for.
Stopped(t, m) ==
  /\ pc[t] = "sending" /\ channel[t] = m
  /\ monitor[m] \in {"idle", "probing"}
  /\ monitor' = [monitor EXCEPT ![m] = "none"]
  /\ born' = [born EXCEPT ![m] = 0]
  /\ Goto(t, "sent")
  /\ UNCHANGED <<containerVars, healthVars, probe, lock, stop, channel>>

\* s.stop = nil
Sent(t) ==
  /\ pc[t] = "sent"
  /\ stop' = None
  /\ channel' = [channel EXCEPT ![t] = None]
  /\ Goto(t, AfterClose(t))
  /\ UNCHANGED <<containerVars, healthVars, monitorVars, lock>>

\* A goroutine that has returned, and nobody has its channel.
Free(m) == /\ ~Live(m) /\ probe[m] = "none" /\ stop # m
           /\ \A t \in Handler : channel[t] # m

\* OpenMonitorChannel, and go monitor(...) if it made a channel.  A start has
\* reset the health state first.
Open(t) ==
  /\ pc[t] = "open"
  /\ Goto(t, "done")
  /\ IF t = "starter" THEN status' = "starting" /\ failingStreak' = 0
                      ELSE UNCHANGED healthVars
  /\ \/ /\ stop = None
        /\ \E m \in Monitor : /\ Free(m)
                              /\ stop' = m
                              /\ monitor' = [monitor EXCEPT ![m] = "idle"]
                              /\ born' = [born EXCEPT ![m] = run]
     \/ /\ stop # None
        /\ UNCHANGED <<stop, monitor, born>>
  /\ UNCHANGED <<containerVars, probe, lock, channel>>

\* The handler returns and gives the container's lock back if it has it.
Done(t) ==
  /\ pc[t] = "done"
  /\ Goto(t, "idle")
  /\ lock' = IF lock = t THEN None ELSE lock
  /\ UNCHANGED <<containerVars, healthVars, monitorVars, stop, channel>>

-----------------------------------------------------------------------------
(* The handlers *)

\* A mutant of Update: a paused container is probed.
UpdateIgnoresPause(t) == Goto(t, IF running' THEN "open" ELSE "close")

\* updateHealthMonitor, with the flags the handler leaves.
Update(t) == Goto(t, IF running' /\ ~paused' THEN "open" ELSE "close")

\* containerStop: stopHealthchecks, without the lock.
ContainerStop(t) ==
  /\ pc[t] = "idle"
  /\ running /\ lock = None
  /\ Goto(t, "close")
  /\ UNCHANGED <<containerVars, healthVars, monitorVars, lock, stop, channel>>

\* StateChanged, called for the next callback of the queue.  StateOOM takes no
\* lock; SetRestarting leaves Running true; StatePause and StateResume run on
\* behalf of the call that holds the lock and waits for them.
StateChanged ==
  /\ pc["queue"] = "idle" /\ queue # <<>>
  /\ queue' = Tail(queue)
  /\ \/ /\ Head(queue) = "oom"
        /\ UNCHANGED <<running, paused, restarting, pending, lock>>
     \/ /\ Head(queue) = "exit" /\ lock = None
        /\ lock' = "queue"
        /\ running' = FALSE /\ paused' = FALSE /\ restarting' = FALSE
        /\ UNCHANGED pending
     \/ /\ Head(queue) = "restart" /\ lock = None
        /\ lock' = "queue"
        /\ running' = TRUE /\ restarting' = TRUE /\ pending' = TRUE
        /\ UNCHANGED paused
     \/ /\ Head(queue) \in {"pause", "resume"}
        /\ lock' = "queue"
        /\ paused' = (Head(queue) = "pause")
        /\ UNCHANGED <<running, restarting, pending>>
  /\ Update("queue")
  /\ UNCHANGED <<process, run, healthVars, monitorVars, stop, channel>>

\* containerPause and containerUnpause: they keep the lock until the callback
\* of their event has returned.
PauseOrResume ==
  /\ lock = None /\ pc["starter"] = "idle"
  /\ running /\ process
  /\ \/ ~paused /\ ~restarting /\ queue' = Append(queue, "pause")
     \/ paused /\ queue' = Append(queue, "resume")
  /\ lock' = "pauser"
  /\ UNCHANGED <<running, paused, restarting, process, pending, run>>
  /\ UNCHANGED <<healthVars, monitorVars, stop, pc, channel>>

\* SetRunning and initHealthMonitor's call of stopHealthchecks.
StateStart ==
  /\ pc["starter"] = "idle" /\ run < MaxRuns
  /\ running' = TRUE /\ paused' = FALSE /\ restarting' = FALSE
  /\ process' = TRUE /\ pending' = FALSE
  /\ run' = run + 1
  /\ UNCHANGED <<queue, healthVars, monitorVars, stop, channel>>

\* containerStart, under the container's lock.
ContainerStart ==
  /\ ~running /\ ~process /\ lock = None
  /\ lock' = "starter"
  /\ Goto("starter", "close")
  /\ StateStart

\* A mutant of Restart: initHealthMonitor does not stop the monitor.
RestartKeeps ==
  /\ pending /\ pc["queue"] = "idle"
  /\ UNCHANGED lock
  /\ Goto("starter", "open")
  /\ StateStart

\* The automatic restart, without the lock, once the callback has returned.
Restart ==
  /\ pending /\ pc["queue"] = "idle"
  /\ UNCHANGED lock
  /\ Goto("starter", "close")
  /\ StateStart

\* The restart is canceled or fails: StateExit after all.
RestartFails ==
  /\ pending /\ pc["queue"] = "idle" /\ pc["starter"] = "idle"
  /\ pending' = FALSE
  /\ queue' = Append(queue, "exit")
  /\ UNCHANGED <<running, paused, restarting, process, run, healthVars, monitorVars, lock, stop, pc, channel>>

\* containerd's events; at most one OOM event waits.  The client's lock keeps
\* them back during a start.
ProcessEvent ==
  /\ process /\ pc["starter"] = "idle"
  /\ \/ \E e \in {"exit", "restart"} : process' = FALSE /\ queue' = Append(queue, e)
     \/ queue = <<>> /\ queue' = <<"oom">> /\ UNCHANGED process
  /\ UNCHANGED <<running, paused, restarting, pending, run, healthVars, monitorVars, lock, stop, pc, channel>>

-----------------------------------------------------------------------------
(* The monitor *)

\* What the monitor's steps leave alone
others == <<containerVars, lock, stop, pc, channel, born>>

\* case <-time.After(probeInterval): starts the probe.
Tick(m) ==
  /\ monitor[m] = "idle" /\ failingStreak < MaxStreak
  /\ monitor' = [monitor EXCEPT ![m] = "probing"]
  /\ probe' = [probe EXCEPT ![m] = "asked"]
  /\ UNCHANGED <<others, healthVars>>

\* getExecConfig's conditions
Execable == running /\ ~paused /\ ~restarting

\* getExecConfig takes the container's lock to look at its state.
ProbeStarts(m) ==
  /\ probe[m] = "asked" /\ lock = None
  /\ probe' = [probe EXCEPT ![m] = IF Execable THEN "running" ELSE "failed"]
  /\ UNCHANGED <<others, healthVars, monitor>>

\* The exec process ends; its exit code is read after the same look.
ProbeEnds(m) ==
  /\ probe[m] = "running"
  /\ \E r \in Results : /\ r = "healthy" => lock = None /\ Execable
                        /\ probe' = [probe EXCEPT ![m] = r]
  /\ UNCHANGED <<others, healthVars, monitor>>

\* case result := <-results
Receive(m) ==
  /\ monitor[m] = "probing" /\ probe[m] \in Results
  /\ monitor' = [monitor EXCEPT ![m] = probe[m]]
  /\ probe' = [probe EXCEPT ![m] = "none"]
  /\ UNCHANGED <<others, healthVars>>

\* case <-ctx.Done()
Timeout(m) ==
  /\ monitor[m] = "probing"
  /\ monitor' = [monitor EXCEPT ![m] = "timedOut"]
  /\ UNCHANGED <<others, healthVars, probe>>

\* A mutant of Record.
RecordOffByOne(r) ==
  /\ failingStreak' = IF r = "healthy" THEN 0 ELSE failingStreak + 1
  /\ status' = IF r = "healthy" THEN "healthy"
               ELSE IF failingStreak' > Retries THEN "unhealthy" ELSE status

\* What handleProbeResult makes of a result.
Record(r) ==
  /\ failingStreak' = IF r = "healthy" THEN 0 ELSE failingStreak + 1
  /\ status' = IF r = "healthy" THEN "healthy"
               ELSE IF failingStreak' >= Retries THEN "unhealthy" ELSE status

\* handleProbeResult, under the container's lock.
HandleProbeResult(m) ==
  /\ monitor[m] \in Results \cup {"timedOut"} /\ lock = None
  /\ Record(monitor[m])
  /\ monitor' = [monitor EXCEPT ![m] = IF @ = "timedOut" THEN "draining" ELSE "idle"]
  /\ UNCHANGED <<others, probe>>

\* A mutant of Drain: the late result counts too.
DrainHandles(m) ==
  /\ monitor[m] = "draining" /\ probe[m] \in Results
  /\ monitor' = [monitor EXCEPT ![m] = probe[m]]
  /\ probe' = [probe EXCEPT ![m] = "none"]
  /\ UNCHANGED <<others, healthVars>>

\* <-results: the late result is dropped.
Drain(m) ==
  /\ monitor[m] = "draining" /\ probe[m] \in Results
  /\ monitor' = [monitor EXCEPT ![m] = "idle"]
  /\ probe' = [probe EXCEPT ![m] = "none"]
  /\ UNCHANGED <<others, healthVars>>

-----------------------------------------------------------------------------
Handle(t) == Close(t) \/ Send(t) \/ Sent(t) \/ Open(t) \/ Done(t) \/ \E m \in Monitor : Stopped(t, m)

Monitors(m) == \/ Tick(m) \/ ProbeStarts(m) \/ ProbeEnds(m) \/ Receive(m)
               \/ Timeout(m) \/ HandleProbeResult(m) \/ Drain(m)

Next ==
  \/ \E t \in Handler : Handle(t)
  \/ \E t \in Stopper : ContainerStop(t)
  \/ StateChanged \/ PauseOrResume \/ ContainerStart \/ Restart \/ RestartFails \/ ProcessEvent
  \/ \E m \in Monitor : Monitors(m)

Spec == Init /\ [][Next]_vars

\* Goroutines run, probes end (ctx kills them), and a lock that is released
\* again and again is obtained.
FairSpec ==
  /\ Spec
  /\ \A t \in Handler : SF_vars(Handle(t))
  /\ SF_vars(StateChanged)
  /\ \A m \in Monitor : /\ WF_vars(Receive(m)) /\ WF_vars(ProbeEnds(m)) /\ WF_vars(Drain(m))
                        /\ SF_vars(ProbeStarts(m)) /\ SF_vars(HandleProbeResult(m))

-----------------------------------------------------------------------------
(* Properties *)

\* health.go: "There is never more than one monitor thread running per
\* container at a time": the one that runs is the one h.stop can stop, in
\* spite of stop requests that do not hold the lock.
OneMonitor == \A m \in Monitor : Live(m) => stop = m

\* A container that was started again is judged by probes of that run only:
\* initHealthMonitor's Status and FailingStreak are not spoilt by a monitor of
\* the run before, automatic restarts included.
FreshMonitor ==
  pc["starter"] = "idle" => \A m \in Monitor : Live(m) => born[m] = run

\* Unhealthy exactly when at least Retries results in a row have failed since
\* the last success or start.
StatusExact == status = "unhealthy" <=> failingStreak >= Retries

\* Between handlers, a container that does not run or is paused is not probed:
\* no order of OOM, pause, exit and restart callbacks and of stop requests
\* leaves a monitor behind.
NoMonitorUnlessRunning ==
  (pc["queue"] = "idle" /\ pc["starter"] = "idle" /\ (~running \/ paused)) =>
    \A m \in Monitor : ~Live(m)

\* The promises of the health check together: one monitor, of this run, none
\* unless the container runs, and a status that is exact.
MonitorsSafe == OneMonitor /\ FreshMonitor /\ StatusExact /\ NoMonitorUnlessRunning

-----------------------------------------------------------------------------
(* What a comment says, and the code does not do *)

\* health.go: monitor runs "until notified via stop", so a handler that
\* notifies it gets through.
StopGetsThrough == \A t \in Handler : pc[t] = "sending" ~> pc[t] # "sending"
=============================================================================
