----------------------------- MODULE SwarmTask -----------------------------
(***************************************************************************)
(* The controller that runs a task of a swarm service as a container.      *)
(*                                                                         *)
(*   daemon/cluster/executor/container/controller.go                       *)
(*   daemon/cluster/executor/container/adapter.go                          *)
(*                                                                         *)
(* The agent that drives it is swarmkit, which is external: it calls       *)
(* Prepare, Start and Wait in this order, one call at a time, interrupts a *)
(* call when the task is updated and repeats it, and calls Shutdown,       *)
(* Remove and Close when the task is no longer wanted.  The engine the     *)
(* controller calls is modelled by what it answers: the container with its *)
(* state and health, and the events it publishes to who subscribed.        *)
(***************************************************************************)
EXTENDS Integers, Sequences

CONSTANTS
    Codes,      \* exit statuses of the container's process
    HasHealth,  \* the container has a health check
    Ops,        \* environment: "fails" (a call of the engine fails),
                \* "early" (events before the subscription), "crash" (the
                \* engine stops), "crashcreate" (and also between two steps
                \* of a creation),
                \* "destroy" (somebody else removes the container)
    MaxUpdates  \* bound on updates of the task

VARIABLES
    st,         \* the state of the task the agent holds
    desired,    \* "run", "shutdown", "remove"
    updates,
    pc,         \* where the call at work has got to, or "idle"
    cancelled,  \* its context was cancelled
    closed,     \* controller.closed
    pull,       \* controller.pulled: "none", "pulling", "done"
    eventq,     \* events of Start's subscription
    healthErr,  \* Start: the health check failed;  Wait: the channel
    watch,      \* Wait's health goroutine: "none", "begin", "wait"
    stopping,   \* one is about to stop the container: "none", that of the
                \* Wait at work ("own") or of one interrupted ("old")
    healthq,    \* events of its subscription
    networks,   \* the networks of the task exist
    ctr         \* the container: state, code, complete, health, cause

vars == <<st, desired, updates, pc, cancelled, closed, pull, eventq,
          healthErr, watch, stopping, healthq, networks, ctr>>
agent == <<st, desired, updates>>
watching == <<watch, stopping, healthq>>

Unsubscribed == <<"unsubscribed">>
NoContainer == [state |-> "none", code |-> 0, complete |-> FALSE,
                health |-> "none", cause |-> "none"]
Fails == "fails" \in Ops

----------------------------------------------------------------------------
(* The engine's side.                                                      *)

Deliver(q, e) == IF q = Unsubscribed THEN q ELSE Append(q, e)

Publish(e) ==
    /\ eventq' = Deliver(eventq, e)
    /\ healthq' = Deliver(healthq, e)

(* Unless "early" is set, nothing happens to the container before the call *)
(* that watches it has subscribed.                                         *)
Watched ==
    \/ "early" \in Ops
    \/ pc # "subscribe" /\ watch # "begin" /\ ~(st = "running" /\ pc = "idle")

ContainerExits ==
    /\ ctr.state = "running"
    /\ Watched
    /\ \E c \in Codes : ctr' = [ctr EXCEPT !.state = "exited", !.code = c]
    /\ Publish("die")
    /\ UNCHANGED <<agent, pc, cancelled, closed, pull, healthErr, watch,
                   stopping, networks>>

(* A change of the health status is published once.                        *)
HealthChanges ==
    /\ HasHealth
    /\ ctr.state = "running"
    /\ Watched
    /\ \E h \in {"healthy", "unhealthy"} \ {ctr.health} :
         /\ ctr' = [ctr EXCEPT !.health = h]
         /\ Publish(h)
    /\ Len(eventq) < 2 /\ Len(healthq) < 2
    /\ UNCHANGED <<agent, pc, cancelled, closed, pull, healthErr, watch,
                   stopping, networks>>

ContainerDestroyed ==
    /\ "destroy" \in Ops
    /\ ctr.state = "exited"
    /\ ctr' = NoContainer
    /\ Publish("destroy")
    /\ UNCHANGED <<agent, pc, cancelled, closed, pull, healthErr, watch,
                   stopping, networks>>

(* ContainerStop, as the controller calls it: the container has stopped,   *)
(* or was not there, when it returns.                                      *)
Stopped(by) ==
    IF ctr.state = "running"
    THEN \E c \in Codes :
           /\ ctr' = [ctr EXCEPT !.state = "exited", !.code = c, !.cause = by]
           /\ Publish("die")
    ELSE UNCHANGED <<ctr, eventq, healthq>>

----------------------------------------------------------------------------
(* The agent.                                                              *)

Call(l) ==
    /\ pc = "idle"
    /\ pc' = l
    /\ cancelled' = FALSE

Return(s) ==
    /\ pc' = "idle"
    /\ st' = s
    /\ eventq' = Unsubscribed

(* A call that was interrupted is repeated; it is not an error of the task. *)
Interrupted(l) ==
    /\ pc = l
    /\ cancelled
    /\ Return(st)
    /\ UNCHANGED <<desired, updates, cancelled, closed, pull, healthErr,
                   watching, networks, ctr>>

Update ==
    /\ updates < MaxUpdates
    /\ updates' = updates + 1
    /\ desired' \in IF desired = "run" THEN {"run", "shutdown", "remove"}
                    ELSE {"remove"}
    /\ cancelled' = TRUE
    /\ UNCHANGED <<st, pc, closed, pull, eventq, healthErr, watching,
                   networks, ctr>>

----------------------------------------------------------------------------
(* Prepare.                                                                *)

Prepare ==
    /\ st = "preparing" /\ desired = "run"
    /\ ~closed
    /\ Call("networks")
    /\ UNCHANGED <<agent, closed, pull, eventq, healthErr, watching, networks,
                   ctr>>

(* createNetworks, createVolumes, and the pull, which is forked so that it *)
(* goes on when Prepare is interrupted, and not begun again.               *)
createNetworks ==
    /\ pc = "networks"
    /\ \/ /\ networks' = TRUE
          /\ pull' = IF pull = "none" THEN "pulling" ELSE pull
          /\ pc' = "pull"
          /\ UNCHANGED <<st, eventq>>
       \/ Fails /\ Return("rejected") /\ UNCHANGED <<networks, pull>>
    /\ UNCHANGED <<desired, updates, cancelled, closed, healthErr, watching,
                   ctr>>

pullImage ==
    /\ pull = "pulling"
    /\ pull' = "done"
    /\ UNCHANGED <<agent, pc, cancelled, closed, eventq, healthErr, watching,
                   networks, ctr>>

(* An image that could not be pulled may be there all the same.            *)
Pulled ==
    /\ pc = "pull"
    /\ pull = "done"
    /\ pc' = "create"
    /\ UNCHANGED <<agent, cancelled, closed, pull, eventq, healthErr,
                   watching, networks, ctr>>

(* adapter.create: CreateManagedContainer, where a container of the task's *)
(* name counts as prepared ...                                             *)
create ==
    /\ pc = "create"
    /\ \/ /\ ctr.state # "none"
          /\ Return("starting")
          /\ UNCHANGED ctr
       \/ /\ ctr.state = "none"
          /\ ctr' = [NoContainer EXCEPT !.state = "created"]
          /\ pc' = "connect"
          /\ UNCHANGED <<st, eventq>>
       \/ /\ ctr.state = "none" /\ Fails
          /\ Return("rejected")
          /\ UNCHANGED ctr
    /\ UNCHANGED <<desired, updates, cancelled, closed, pull, healthErr,
                   watching, networks>>

\* Mutant: an error of a connection is not returned.
ConnectAnyway ==
    /\ pc = "connect"
    /\ \E ok \in {TRUE, ~Fails} : ctr' = [ctr EXCEPT !.complete = ok]
    /\ Return("starting")
    /\ UNCHANGED <<desired, updates, cancelled, closed, pull, healthErr,
                   watching, networks>>

(* ... then the other networks and the service configuration.              *)
Connect ==
    /\ pc = "connect"
    /\ \/ /\ ctr' = [ctr EXCEPT !.complete = TRUE]
          /\ Return("starting")
       \/ /\ Fails
          /\ Return("rejected")
          /\ UNCHANGED ctr
    /\ UNCHANGED <<desired, updates, cancelled, closed, pull, healthErr,
                   watching, networks>>

----------------------------------------------------------------------------
(* Start.                                                                  *)

(* A container that has ever been started is not started again.            *)
StartInspect ==
    /\ st = "starting" /\ desired = "run"
    /\ ~closed
    /\ pc = "idle"
    /\ cancelled' = FALSE
    /\ healthErr' = FALSE
    /\ CASE ctr.state = "created" -> pc' = "start" /\ UNCHANGED <<st, eventq>>
         [] ctr.state = "none" -> Return("failed")
         [] OTHER -> Return("running")
    /\ UNCHANGED <<desired, updates, closed, pull, watching, networks, ctr>>

(* adapter.start, repeated with the networks created when one is missing.  *)
start ==
    /\ pc = "start"
    /\ \/ /\ ctr.state = "created" /\ networks
          /\ ctr' = [ctr EXCEPT !.state = "running",
                                !.health = IF HasHealth THEN "starting"
                                           ELSE "none"]
          /\ IF HasHealth THEN pc' = "subscribe" /\ UNCHANGED <<st, eventq>>
             ELSE Return("running")
          /\ UNCHANGED networks
       \/ /\ ~networks
          /\ networks' = TRUE
          /\ UNCHANGED <<st, pc, eventq, ctr>>
       \/ /\ Fails \/ ctr.state # "created"
          /\ Return("failed")
          /\ UNCHANGED <<networks, ctr>>
    /\ UNCHANGED <<desired, updates, cancelled, closed, pull, healthErr,
                   watching>>

(* adapter.events: no past events are asked for.                           *)
Subscribe ==
    /\ pc = "subscribe"
    /\ eventq' = <<>>
    /\ pc' = "health"
    /\ UNCHANGED <<agent, cancelled, closed, pull, healthErr, watching,
                   networks, ctr>>

\* Mutant: an exit with status 0 is not terminal.
StartDiedOnError ==
    IF ctr.state = "none" \/ ctr.code # 0 THEN Return("failed")
    ELSE eventq' = Tail(eventq) /\ UNCHANGED <<st, pc>>

(* An exit with status 0 is no error.                                      *)
StartDied ==
    Return(IF ctr.state = "none" \/ ctr.code # 0 THEN "failed" ELSE "running")

StartEvent ==
    /\ pc = "health"
    /\ eventq # <<>> /\ eventq # Unsubscribed
    /\ LET e == eventq[1] IN
       CASE e = "die" ->
              StartDied /\ UNCHANGED <<healthErr, ctr, healthq>>
         [] e = "destroy" ->
              Return("failed") /\ UNCHANGED <<healthErr, ctr, healthq>>
         [] e = "healthy" ->
              Return("running") /\ UNCHANGED <<healthErr, ctr, healthq>>
         [] e = "unhealthy" ->
              /\ eventq' = Tail(eventq)
              /\ pc' = "unhealthy"
              /\ UNCHANGED <<st, healthErr, ctr, healthq>>
    /\ UNCHANGED <<desired, updates, cancelled, closed, pull, watch, stopping, networks>>

(* Shutdown of an unhealthy container; Start waits for its "die".          *)
StartUnhealthy ==
    /\ pc = "unhealthy"
    /\ Stopped("unhealthy")
    /\ pc' = "health"
    /\ healthErr' = TRUE
    /\ UNCHANGED <<agent, cancelled, closed, pull, watch, stopping, networks>>

----------------------------------------------------------------------------
(* Wait, and the goroutine that watches the health meanwhile.              *)

Wait ==
    /\ st = "running" /\ desired = "run"
    /\ ~closed
    /\ Call("wait")
    /\ healthErr' = FALSE
    /\ watch' = "begin"
    /\ healthq' = Unsubscribed
    /\ ctr' = [ctr EXCEPT !.cause = "none"]
    /\ UNCHANGED <<agent, closed, pull, eventq, stopping, networks>>

CheckHealth ==
    /\ watch = "begin"
    /\ watch' = "wait"
    /\ healthq' = <<>>
    /\ UNCHANGED <<agent, pc, cancelled, closed, pull, eventq, healthErr,
                   stopping, networks, ctr>>

\* Mutant: the error is not put into the channel first.
HealthEventSilent ==
    /\ watch = "wait"
    /\ healthq # <<>>
    /\ watch' = "none" /\ healthq' = Unsubscribed
    /\ stopping' = IF healthq[1] = "unhealthy" THEN "own" ELSE stopping
    /\ UNCHANGED <<agent, pc, cancelled, closed, pull, eventq, healthErr,
                   networks, ctr>>

(* The error is put into the channel, then the container is shut down.     *)
HealthEvent ==
    /\ watch = "wait"
    /\ healthq # <<>>
    /\ IF healthq[1] = "unhealthy"
       THEN /\ watch' = "none" /\ healthq' = Unsubscribed
            /\ stopping' = "own"
            /\ healthErr' = TRUE
       ELSE healthq' = Tail(healthq) /\ UNCHANGED <<watch, stopping, healthErr>>
    /\ UNCHANGED <<agent, pc, cancelled, closed, pull, eventq, networks, ctr>>

HealthShutdown ==
    /\ stopping # "none"
    /\ stopping' = "none"
    /\ IF closed THEN UNCHANGED <<ctr, eventq, healthq>>
       ELSE Stopped(IF stopping = "own" THEN "watch" ELSE "unhealthy")
    /\ UNCHANGED <<agent, pc, cancelled, closed, pull, healthErr, watch,
                   networks>>

(* The context of the goroutine ends with Wait, which a Shutdown it has    *)
(* begun does not notice.                                                  *)
WaitEnds(s) ==
    /\ pc = "wait"
    /\ Return(s)
    /\ watch' = "none" /\ healthq' = Unsubscribed
    /\ stopping' = IF stopping = "own" THEN "old" ELSE stopping
    /\ UNCHANGED <<desired, updates, cancelled, closed, pull, healthErr,
                   networks, ctr>>

(* adapter.wait returned.                                                  *)
Waited ==
    /\ ~cancelled
    /\ ctr.state \in {"exited", "none"}
    /\ WaitEnds(IF ctr.state = "none" \/ ctr.code # 0
                THEN IF healthErr THEN "failed unhealthy" ELSE "failed"
                ELSE "completed")

WaitInterrupted ==
    /\ cancelled
    /\ WaitEnds(st)

----------------------------------------------------------------------------
(* Shutdown, Remove and Close.                                             *)

Terminal(s) == s \in {"completed", "failed", "failed unhealthy", "rejected",
                      "shutdown"}

CancelPull == pull' = IF pull = "pulling" THEN "done" ELSE pull

\* Mutant: only a task known to run is stopped.
ShutdownRunning ==
    /\ desired # "run"
    /\ ~Terminal(st)
    /\ ~closed
    /\ pc = "idle"
    /\ CancelPull
    /\ IF st = "running" THEN Stopped("agent")
       ELSE UNCHANGED <<ctr, eventq, healthq>>
    /\ st' = "shutdown"
    /\ UNCHANGED <<desired, updates, pc, cancelled, closed, healthErr, watch,
                   stopping, networks>>

Shutdown ==
    /\ desired # "run"
    /\ ~Terminal(st)
    /\ ~closed
    /\ pc = "idle"
    /\ CancelPull
    /\ Stopped("agent")
    /\ st' = "shutdown"
    /\ UNCHANGED <<desired, updates, pc, cancelled, closed, healthErr, watch,
                   stopping, networks>>

(* Remove: Shutdown, the networks nobody uses, then the container.         *)
Remove ==
    /\ desired = "remove" /\ Terminal(st)
    /\ ~closed
    /\ Call("remove")
    /\ CancelPull
    /\ Stopped("agent")
    /\ UNCHANGED <<agent, closed, healthErr, watch, stopping, networks>>

removeNetworks ==
    /\ pc = "remove"
    /\ \/ pc' = "rm" /\ networks' \in {networks, FALSE}
       \/ Fails /\ pc' = "idle" /\ UNCHANGED networks
    /\ UNCHANGED <<agent, cancelled, closed, pull, eventq, healthErr,
                   watching, ctr>>

remove ==
    /\ pc = "rm"
    /\ pc' = "close"
    /\ ctr' = NoContainer
    /\ UNCHANGED <<agent, cancelled, closed, pull, eventq, healthErr,
                   watching, networks>>

Close ==
    /\ pc = "close"
    /\ closed' = TRUE
    /\ CancelPull
    /\ pc' = "idle"
    /\ UNCHANGED <<agent, cancelled, eventq, healthErr, watching, networks,
                   ctr>>

(* The engine, and the controller in it, stop and come back; the container *)
(* stays as it was saved and the agent begins anew.                        *)
Crash ==
    /\ "crash" \in Ops
    /\ pc = "connect" => "crashcreate" \in Ops
    /\ updates < MaxUpdates
    /\ updates' = updates + 1
    /\ pc' = "idle" /\ cancelled' = FALSE
    /\ pull' = "none"
    /\ eventq' = Unsubscribed /\ healthq' = Unsubscribed
    /\ healthErr' = FALSE /\ watch' = "none" /\ stopping' = "none"
    /\ UNCHANGED <<st, desired, closed, networks, ctr>>

Init ==
    /\ st = "preparing" /\ desired = "run" /\ updates = 0
    /\ pc = "idle" /\ cancelled = FALSE /\ closed = FALSE
    /\ pull = "none"
    /\ eventq = Unsubscribed /\ healthErr = FALSE
    /\ watch = "none" /\ stopping = "none" /\ healthq = Unsubscribed
    /\ networks = FALSE
    /\ ctr = NoContainer

Handler ==
    \/ createNetworks \/ Pulled \/ create \/ Connect
    \/ start \/ Subscribe \/ StartEvent \/ StartUnhealthy
    \/ Interrupted("pull") \/ Interrupted("health")
    \/ Waited \/ WaitInterrupted
    \/ removeNetworks \/ remove \/ Close

HealthWatch == CheckHealth \/ HealthEvent \/ HealthShutdown

Agent == Prepare \/ StartInspect \/ Wait \/ Shutdown \/ Remove

Next ==
    \/ Agent \/ Handler \/ pullImage \/ HealthWatch \/ Update
    \/ ContainerExits \/ HealthChanges \/ ContainerDestroyed \/ Crash

Spec == Init /\ [][Next]_vars

(* The goroutines of the agent and of the controller run.                  *)
Fairness ==
    /\ WF_vars(Agent)
    /\ WF_vars(Handler)
    /\ WF_vars(pullImage)
    /\ WF_vars(HealthWatch)

FairSpec == Spec /\ Fairness

----------------------------------------------------------------------------
TypeOK ==
    /\ st \in {"preparing", "starting", "running"} \/ Terminal(st)
    /\ desired \in {"run", "shutdown", "remove"}
    /\ pc \in {"idle", "networks", "pull", "create", "connect", "start",
               "subscribe", "health", "unhealthy", "wait", "remove", "rm",
               "close"}
    /\ pull \in {"none", "pulling", "done"}
    /\ watch \in {"none", "begin", "wait"}
    /\ stopping \in {"none", "own", "old"}
    /\ ctr.state \in {"none", "created", "running", "exited"}
    /\ ctr.cause \in {"none", "unhealthy", "watch", "agent"}

(* A task whose container the controller stopped for being unhealthy while *)
(* it waited is reported as failed for that reason: the error is in the    *)
(* channel before the container can have exited of it.                     *)
UnhealthyIsReported ==
    [][(pc = "wait" /\ pc' = "idle" /\ st' = "failed"
           /\ ctr.state = "exited")
       => ctr.cause # "watch"]_vars

(* A task that is started has all of its networks and its service          *)
(* configuration, whichever call of Prepare created its container.         *)
PreparedIsComplete ==
    ctr.state = "running" => ctr.complete

(* A task that is no longer wanted ends up without a process, wherever it  *)
(* was interrupted.                                                        *)
ShutdownStops ==
    (desired # "run") ~> (ctr.state # "running")

(* Start exits on terminal events: it does not wait for the health of a    *)
(* container that died.                                                    *)
StartReturns ==
    (pc = "health" /\ ctr.state = "exited") ~> (pc # "health")
=============================================================================
