------------------------------ MODULE MCSwarm -------------------------------
(* The swarm node of the engine and a task it runs. The parts share no     *)
(* state; one of them takes the steps of a behaviour.                      *)
EXTENDS TLC

CONSTANTS
  n1, n2, r1

VARIABLES
  which,   \* the part that takes the steps
  node, stop, delay, saved, cert, provider, ext, manager, exit, flag,
  loops, req, readers, wwait, up, left, st, desired, updates, pc,
  cancelled, closed, pull, eventq, healthErr, watch, stopping, healthq,
  networks, ctr

Clus == INSTANCE Cluster WITH
  Node <- {n1, n2}, Req <- {r1}, Ops <- {"startfails"}

Task == INSTANCE SwarmTask WITH
  Codes <- {0, 1}, HasHealth <- TRUE, Ops <- {"fails", "destroy", "crash"},
  MaxUpdates <- 3

clusVars ==
  <<node, stop, delay, saved, cert, provider, ext, manager, exit, flag,
    loops, req, readers, wwait, up, left>>
taskVars ==
  <<st, desired, updates, pc, cancelled, closed, pull, eventq,
    healthErr, watch, stopping, healthq, networks, ctr>>
allVars == <<which, clusVars, taskVars>>

AllInit ==
  /\ which \in {"node", "task"}
  /\ Clus!Init
  /\ Task!Init

AllNext ==
  \/ which = "node" /\ Clus!Next
     /\ UNCHANGED <<which, taskVars>>
  \/ which = "task" /\ Task!Next
     /\ UNCHANGED <<which, clusVars>>

InNode(A) == which = "node" /\ A /\ UNCHANGED <<which, taskVars>>
InTask(A) == which = "task" /\ A /\ UNCHANGED <<which, clusVars>>

(* The fairness of every part.  One part takes the steps, so a condition of *)
(* one and a condition of another are joined into one.                     *)
AllSpec ==
  /\ AllInit /\ [][AllNext]_allVars
  /\ WF_allVars(\/ InNode(Clus!Lock(<<"exit", n1>>))
                \/ InTask(Task!Agent))
  /\ WF_allVars(\/ InNode(\E l \in loops : l.n = n1 /\ Clus!Lock(<<"loop", l>>))
                \/ InTask(Task!Handler))
  /\ WF_allVars(\/ InNode(Clus!Lock(<<"exit", n2>>))
                \/ InTask(Task!pullImage))
  /\ WF_allVars(\/ InNode(\E l \in loops : l.n = n2 /\ Clus!Lock(<<"loop", l>>))
                \/ InTask(Task!HealthWatch))
  /\ WF_allVars(InNode(Clus!Waiting(r1)))
  /\ SF_allVars(InNode(Clus!Work(n1)))
  /\ SF_allVars(InNode(Clus!Reconnect(n1)))
  /\ SF_allVars(InNode(Clus!Work(n2)))
  /\ SF_allVars(InNode(Clus!Reconnect(n2)))

-----------------------------------------------------------------------------
(* Type correctness of the parts.                                          *)
PartsTypeOK ==
  /\ which = "node" => Clus!TypeOK
  /\ which = "task" => Task!TypeOK

(* The swarm node and its task under fair scheduling. A node that has      *)
(* ended without a request to stop it is started again (unless the names   *)
(* of nodes, which bound the instance, have run out). A task whose         *)
(* container the controller stopped for being unhealthy while it waited    *)
(* is reported as failed for that reason: the error is in the channel      *)
(* before the container can have exited of it. A task that is no longer    *)
(* wanted ends up without a process, wherever it was interrupted. Start    *)
(* exits on terminal events: it does not wait for the health of a          *)
(* container that died.                                                    *)
SwarmProgress ==
  /\ Clus!Reconnects
  /\ Task!UnhealthyIsReported
  /\ Task!ShutdownStops
  /\ Task!StartReturns

(* A task that is started has all of its networks and its service          *)
(* configuration, whichever call of Prepare created its container.         *)
PreparedIsComplete == which = "task" => Task!PreparedIsComplete
=============================================================================
