------------------------------ MODULE Cluster ------------------------------
(***************************************************************************)
(* daemon/cluster: the engine's part in a swarm.  Requests start and stop  *)
(* a swarm node, a goroutine per node notices that it has ended, and a     *)
(* reconnect loop starts another in its place.  All of them meet at one    *)
(* RWMutex, which stopNode gives up while it waits.                        *)
(*                                                                         *)
(* The swarm node is external: it becomes ready, fails, or is stopped.  A  *)
(* node is named by a number that is used again once nobody refers to it.  *)
(* A section under the write lock is one step, taken by a goroutine that   *)
(* has called Lock (it is in wwait) when no reader is left; a goroutine    *)
(* that calls RLock waits for those that have called Lock before it.       *)
(***************************************************************************)
EXTENDS Naturals, FiniteSets

CONSTANTS
  Node,    \* names of swarm nodes
  Req,     \* API requests at a time
  Ops      \* "force": Init with ForceNewCluster; "info": Info requests;
           \* "restart": the daemon may stop, die and start; "startfails":
           \* startNewNode may fail when a request calls it; "rejoin": an
           \* Init or Join may come during the delay of a reconnect loop

Nobody == "none"

VARIABLES
  node,            \* c.node, or Nobody
  stop, delay,     \* c.stop, and whether c.cancelDelay is set
  saved, cert,     \* the state file, and the certificate of the node, on disk
  provider,        \* the backend's cluster provider is set
  ext,             \* each swarm node: "off", "starting", "ready" or "over"
  manager,         \* the swarm nodes that are managers, with a control socket
  exit,            \* each node's exit goroutine: "none", "wait", "close", "done"
  flag,            \* nodes whose ready flag is set
  loops,           \* reconnect loops: [n, pc]
  req,             \* each request: [op, pc, n, force]
  readers, wwait,  \* holders of the read lock and callers of Lock
  up, left         \* the daemon runs; a Leave was served, no Init or Join since

vars == <<node, stop, delay, saved, cert, provider, ext, manager, exit, flag,
          loops, req, readers, wwait, up, left>>
state == <<node, stop, delay>>
disk == <<saved, cert, provider>>
nodes == <<ext, manager, exit, flag>>

Idle == [op |-> "none", pc |-> "idle", n |-> Nobody, force |-> FALSE]
Loop == [n : Node, pc : {"watch", "delay", "start"}]
NeedsLock ==
  {<<"exit", n>> : n \in {m \in Node : ext[m] = "over" /\ exit[m] = "wait"}} \cup
  {<<"loop", l>> : l \in {k \in loops : k.pc = "start" \/ (k.pc = "watch" /\ exit[k.n] = "done")}} \cup
  {<<"req", r>> : r \in {q \in Req : req[q].pc \in {"begin", "stopped", "stoperr"}}}

TypeOK ==
  /\ node \in Node \cup {Nobody}
  /\ {stop, delay, saved, cert, provider, up, left} \subseteq BOOLEAN
  /\ ext \in [Node -> {"off", "starting", "ready", "over"}]
  /\ manager \subseteq Node /\ flag \subseteq Node
  /\ exit \in [Node -> {"none", "wait", "close", "done"}]
  /\ loops \subseteq Loop
  /\ req \in [Req -> [op : {"none", "init", "join", "leave", "cleanup", "new", "info"},
                      pc : {"idle", "begin", "stopping", "stopped", "stoperr", "waiting",
                            "clear", "read", "inspect"},
                      n : Node \cup {Nobody}, force : BOOLEAN]]
  /\ readers \subseteq Req /\ wwait \subseteq NeedsLock

Init ==
  /\ node = Nobody /\ stop = FALSE /\ delay = FALSE
  /\ saved = FALSE /\ cert = FALSE /\ provider = FALSE
  /\ ext = [n \in Node |-> "off"] /\ manager = {}
  /\ exit = [n \in Node |-> "none"] /\ flag = {}
  /\ loops = {} /\ req = [r \in Req |-> Idle]
  /\ readers = {} /\ wwait = {}
  /\ up = TRUE /\ left = FALSE

----------------------------------------------------------------------------
\* The daemon is gone: what is on disk is left.
Down ==
  /\ up' = FALSE
  /\ node' = Nobody /\ stop' = FALSE /\ delay' = FALSE /\ provider' = FALSE
  /\ ext' = [n \in Node |-> "off"] /\ exit' = [n \in Node |-> "none"] /\ flag' = {}
  /\ loops' = {} /\ req' = [r \in Req |-> Idle] /\ readers' = {} /\ wwait' = {}
  /\ manager' = {}
  /\ UNCHANGED <<saved, cert, left>>

\* A goroutine calls c.Lock.
Lock(p) ==
  /\ up /\ p \in NeedsLock \ wwait
  /\ wwait' = wwait \cup {p}
  /\ UNCHANGED <<state, disk, nodes, loops, req, readers, up, left>>

\* A mutant of Locked: the lock is not given back.
LockedKeeps(p) == p \in wwait /\ readers = {} /\ UNCHANGED wwait

\* It has the lock, and gives it back at the end of the step.
Locked(p) ==
  /\ p \in wwait /\ readers = {}
  /\ wwait' = wwait \ {p}

Free == {n \in Node : /\ ext[n] = "off"
                      /\ \A l \in loops : l.n /= n
                      /\ \A r \in Req : req[r].n /= n}

\* startNewNode, from c.node = nil on: the node runs, the state is saved and
\* the three goroutines of the node are started.
startNewNode(n, isManager) ==
  /\ Free /= {} /\ n = CHOOSE m \in Free : TRUE
  /\ node' = n /\ delay' = FALSE /\ stop' = FALSE
  /\ ext' = [ext EXCEPT ![n] = "starting"]
  /\ manager' = IF isManager THEN manager \cup {n} ELSE manager \ {n}
  /\ exit' = [exit EXCEPT ![n] = "wait"]
  /\ flag' = flag \ {n}
  /\ saved' = TRUE /\ provider' = TRUE /\ UNCHANGED cert

\* swarmagent.NewNode or Start fails, c.node has been reset before.
startFails ==
  /\ "startfails" \in Ops
  /\ node' = Nobody /\ delay' = FALSE /\ stop' = FALSE
  /\ UNCHANGED <<disk, nodes>>

\* An address is refused, or the daemon is not swarm compatible.
Invalid == "startfails" \in Ops /\ UNCHANGED <<state, disk, nodes>>

Done(r) == req' = [req EXCEPT ![r] = Idle]
Goto(r, pc) == req' = [req EXCEPT ![r].pc = pc]
Watch(n) == loops' = loops \cup {[n |-> n, pc |-> "watch"]}

\* No reconnect loop is between its two looks at c.node.
Settled == \A l \in loops : l.pc = "watch" /\ exit[l.n] /= "done"

Call(r, op, f) ==
  /\ up /\ req[r].pc = "idle"
  /\ op \in {"init", "join"} /\ "rejoin" \notin Ops => Settled
  /\ req' = [req EXCEPT ![r] = [op |-> op, pc |-> IF op = "info" THEN "read" ELSE "begin",
                                n |-> Nobody, force |-> f]]
  /\ left' = (left /\ op \notin {"init", "join"})
  /\ UNCHANGED <<state, disk, nodes, loops, readers, wwait, up>>

\* The end of Init's and Join's section under the lock.
Start(r) ==
  \/ \E n \in Node, m \in BOOLEAN :
       /\ req[r].op = "init" => m
       /\ startNewNode(n, m)
       /\ req' = [req EXCEPT ![r].pc = "waiting", ![r].n = n]
  \/ (startFails \/ Invalid) /\ Done(r)

\* stopNode up to c.Unlock
StopBegin(r) ==
  /\ stop' = TRUE /\ delay' = FALSE
  /\ req' = [req EXCEPT ![r].pc = "stopping", ![r].n = node]
  /\ UNCHANGED <<node, disk, nodes>>

Refuse(r) == Done(r) /\ UNCHANGED <<state, disk, nodes>>

\* A mutant of InitJoin: a node that runs is not looked for.
InitJoinAnyway(r) ==
  /\ req[r].op \in {"init", "join"} /\ req[r].pc = "begin" /\ Locked(<<"req", r>>)
  /\ Start(r)
  /\ UNCHANGED <<loops, readers, up, left>>

InitJoin(r) ==
  /\ req[r].op \in {"init", "join"} /\ req[r].pc = "begin" /\ Locked(<<"req", r>>)
  /\ "rejoin" \notin Ops => Settled
  /\ \/ node = Nobody /\ Start(r)
     \/ node /= Nobody /\ ~req[r].force /\ Refuse(r)
     \/ node /= Nobody /\ req[r].force /\ StopBegin(r)
  /\ UNCHANGED <<loops, readers, up, left>>

\* Leave refuses on a manager unless forced; Cleanup, at shutdown, does not.
Leave(r) ==
  /\ req[r].op = "leave" /\ req[r].pc = "begin" /\ Locked(<<"req", r>>)
  /\ \/ (node = Nobody \/ (node \in manager /\ ~req[r].force)) /\ Refuse(r)
     \/ node /= Nobody /\ (node \in manager => req[r].force) /\ StopBegin(r)
  /\ UNCHANGED <<loops, readers, up, left>>

Cleanup(r) ==
  /\ req[r].op = "cleanup" /\ req[r].pc = "begin"
  /\ \/ /\ node = Nobody /\ <<"req", r>> \in wwait /\ readers = {}
        /\ Down
     \/ /\ node /= Nobody /\ Locked(<<"req", r>>)
        /\ StopBegin(r)
        /\ UNCHANGED <<loops, readers, up, left>>

\* Node.Stop: the node ends and its exit goroutine is waited for, or the
\* fifteen seconds pass.
StopNode(r) ==
  /\ req[r].pc = "stopping"
  /\ LET n == req[r].n
     IN  \/ /\ ext[n] \in {"starting", "ready"}
            /\ ext' = [ext EXCEPT ![n] = "over"]
            /\ UNCHANGED req
         \/ /\ exit[n] = "done"
            /\ Goto(r, "stopped") /\ UNCHANGED ext
         \/ /\ ext[n] \in {"starting", "ready"}
            /\ Goto(r, "stoperr") /\ UNCHANGED ext
  /\ UNCHANGED <<state, disk, manager, exit, flag, loops, readers, wwait, up, left>>

\* stopNode returns with the lock taken again.  Init goes on to start its
\* node, Leave removes the containers of the node and then the state.
Stopped(r) ==
  /\ req[r].op \in {"init", "leave"} /\ Locked(<<"req", r>>)
  /\ \/ req[r].op = "init" /\ req[r].pc = "stopped" /\ Start(r)
     \/ /\ req[r].op = "leave" /\ req[r].pc = "stopped"
        /\ Goto(r, "clear") /\ UNCHANGED <<state, disk, nodes>>
     \/ req[r].pc = "stoperr" /\ Refuse(r)
  /\ UNCHANGED <<loops, readers, up, left>>

\* The shutdown goes on, whether the node has stopped or not.
CleanedUp(r) ==
  /\ req[r].op = "cleanup" /\ req[r].pc \in {"stopped", "stoperr"}
  /\ <<"req", r>> \in wwait /\ readers = {}
  /\ Down

clearState == saved' = FALSE /\ cert' = FALSE /\ provider' = FALSE

LeaveClears(r) ==
  /\ req[r].op = "leave" /\ req[r].pc = "clear"
  /\ clearState
  /\ left' = TRUE
  /\ Done(r)
  /\ UNCHANGED <<state, nodes, loops, readers, wwait, up>>

\* Init, Join and New wait for the node: it is ready (and Init may fail to set
\* the cluster's spec), it has ended, or (Join and New) the time is up and the
\* loop will go on trying.
Waiting(r) ==
  /\ req[r].pc = "waiting"
  /\ LET n == req[r].n
     IN  \/ /\ ext[n] = "ready"
            /\ Watch(n) /\ UNCHANGED disk
         \/ /\ req[r].op = "init" /\ ext[n] = "ready" /\ "startfails" \in Ops
            /\ UNCHANGED <<disk, loops>>
         \/ /\ req[r].op \in {"join", "new"} /\ ext[n] /= "ready"
            /\ Watch(n) /\ UNCHANGED disk
         \/ /\ exit[n] = "done" /\ req[r].op /= "new"
            /\ IF req[r].op = "init" /\ ~req[r].force THEN clearState ELSE UNCHANGED disk
            /\ UNCHANGED loops
  /\ Done(r)
  /\ UNCHANGED <<state, nodes, readers, wwait, up, left>>

\* New's node has ended: the daemon does not start.
NewFails(r) ==
  /\ req[r].op = "new" /\ req[r].pc = "waiting" /\ exit[req[r].n] = "done"
  /\ Down

----------------------------------------------------------------------------
\* The goroutines of a node
NodeReady(n) ==
  /\ up /\ ext[n] = "starting"
  /\ ext' = [ext EXCEPT ![n] = "ready"]
  /\ cert' = TRUE
  /\ UNCHANGED <<state, saved, provider, manager, exit, flag, loops, req, readers, wwait, up, left>>

NodeFails(n) ==
  /\ up /\ ext[n] \in {"starting", "ready"}
  /\ ext' = [ext EXCEPT ![n] = "over"]
  /\ UNCHANGED <<state, disk, manager, exit, flag, loops, req, readers, wwait, up, left>>

\* A mutant of NodeExit: c.node is not reset.
NodeExitKeeps(n) ==
  /\ exit[n] = "wait" /\ Locked(<<"exit", n>>)
  /\ exit' = [exit EXCEPT ![n] = "close"]
  /\ UNCHANGED <<state, disk, ext, manager, flag, loops, req, readers, up, left>>

\* n.Err returned: c.node = nil, whichever node that is.
NodeExit(n) ==
  /\ exit[n] = "wait" /\ Locked(<<"exit", n>>)
  /\ node' = Nobody
  /\ exit' = [exit EXCEPT ![n] = "close"]
  /\ UNCHANGED <<stop, delay, disk, ext, manager, flag, loops, req, readers, up, left>>

\* close(node.done)
NodeDone(n) ==
  /\ exit[n] = "close"
  /\ exit' = [exit EXCEPT ![n] = "done"]
  /\ UNCHANGED <<state, disk, ext, manager, flag, loops, req, readers, wwait, up, left>>

NodeSetsReady(n) ==
  /\ up /\ ext[n] = "ready" /\ n \notin flag /\ readers = {}
  /\ flag' = flag \cup {n}
  /\ UNCHANGED <<state, disk, ext, manager, exit, loops, req, readers, wwait, up, left>>

\* Nobody refers to the node any more; its number may be used again.
Forget(n) ==
  /\ exit[n] = "done"
  /\ \A l \in loops : l.n /= n
  /\ \A r \in Req : req[r].n /= n
  /\ ext' = [ext EXCEPT ![n] = "off"] /\ exit' = [exit EXCEPT ![n] = "none"]
  /\ flag' = flag \ {n} /\ manager' = manager \ {n}
  /\ UNCHANGED <<state, disk, loops, req, readers, wwait, up, left>>

\* A mutant of LoopWakes: c.stop is not looked at.
LoopWakesAnyway(l) ==
  /\ l \in loops /\ l.pc = "watch" /\ exit[l.n] = "done" /\ Locked(<<"loop", l>>)
  /\ loops' = (loops \ {l}) \cup {[l EXCEPT !.pc = "delay"]} /\ delay' = TRUE
  /\ UNCHANGED <<node, stop, disk, nodes, req, readers, up, left>>

\* A mutant of LoopWakes: the loop gives up when no node runs.
LoopWakesEnds(l) ==
  /\ l \in loops /\ l.pc = "watch" /\ exit[l.n] = "done" /\ Locked(<<"loop", l>>)
  /\ loops' = loops \ {l}
  /\ UNCHANGED <<state, disk, nodes, req, readers, up, left>>

\* reconnectOnFailure: n.done is closed
LoopWakes(l) ==
  /\ l \in loops /\ l.pc = "watch" /\ exit[l.n] = "done" /\ Locked(<<"loop", l>>)
  /\ IF stop \/ node /= Nobody
     THEN loops' = loops \ {l} /\ UNCHANGED delay
     ELSE loops' = (loops \ {l}) \cup {[l EXCEPT !.pc = "delay"]} /\ delay' = TRUE
  /\ UNCHANGED <<node, stop, disk, nodes, req, readers, up, left>>

\* The delay is over; nothing cancels it.
LoopDelayed(l) ==
  /\ up /\ l \in loops /\ l.pc = "delay"
  /\ loops' = (loops \ {l}) \cup {[l EXCEPT !.pc = "start"]}
  /\ UNCHANGED <<state, disk, nodes, req, readers, wwait, up, left>>

LoopRestarts(l) ==
  /\ l \in loops /\ l.pc = "start" /\ Locked(<<"loop", l>>)
  /\ IF node /= Nobody
     THEN loops' = loops \ {l} /\ UNCHANGED <<state, disk, nodes>>
     ELSE \E n \in Node :
            /\ startNewNode(n, l.n \in manager)
            /\ loops' = (loops \ {l}) \cup {[n |-> n, pc |-> "watch"]}
  /\ UNCHANGED <<req, readers, up, left>>

----------------------------------------------------------------------------
\* Info: under the read lock, and on a manager with a control socket Inspect
\* takes the read lock again.
Info(r) ==
  /\ up /\ req[r].op = "info" /\ wwait = {}
  /\ \/ /\ req[r].pc = "read"
        /\ IF node \in manager /\ ext[node] = "ready"
           THEN Goto(r, "inspect") /\ readers' = readers \cup {r}
           ELSE Done(r) /\ UNCHANGED readers
     \/ /\ req[r].pc = "inspect"
        /\ readers' = readers \ {r}
        /\ Done(r)
  /\ UNCHANGED <<state, disk, nodes, loops, wwait, up, left>>

Crash == up /\ "restart" \in Ops /\ Down

\* New: without a certificate there is nothing to restore.
New(r) ==
  /\ ~up /\ "restart" \in Ops /\ up' = TRUE
  /\ flag' = {}
  /\ loops' = {} /\ readers' = {} /\ wwait' = {}
  /\ IF saved /\ cert
     THEN LET n == CHOOSE m \in Node : TRUE IN
            /\ ext' = [m \in Node |-> IF m = n THEN "starting" ELSE "off"]
            /\ exit' = [m \in Node |-> IF m = n THEN "wait" ELSE "none"]
            /\ node' = n /\ stop' = FALSE /\ delay' = FALSE
            /\ provider' = TRUE /\ manager' \in {{}, {n}}
            /\ req' = [q \in Req |-> IF q = r THEN [Idle EXCEPT !.op = "new", !.pc = "waiting", !.n = n]
                                     ELSE Idle]
            /\ UNCHANGED <<saved, cert>>
     ELSE /\ clearState
          /\ ext' = [n \in Node |-> "off"]
          /\ exit' = [n \in Node |-> "none"]
          /\ node' = Nobody /\ stop' = FALSE /\ delay' = FALSE
          /\ req' = [q \in Req |-> Idle] /\ manager' = {}
  /\ UNCHANGED left

Calls == {<<"init", FALSE>>, <<"join", FALSE>>, <<"leave", FALSE>>, <<"leave", TRUE>>}
         \cup (IF "force" \in Ops THEN {<<"init", TRUE>>} ELSE {})
         \cup (IF "info" \in Ops THEN {<<"info", FALSE>>} ELSE {})
         \cup (IF "restart" \in Ops THEN {<<"cleanup", FALSE>>} ELSE {})

Next ==
  \/ Crash \/ \E p \in NeedsLock : Lock(p)
  \/ \E r \in Req : \/ \E c \in Calls : Call(r, c[1], c[2])
                    \/ InitJoin(r) \/ Leave(r) \/ Cleanup(r) \/ StopNode(r)
                    \/ Stopped(r) \/ CleanedUp(r)
                    \/ LeaveClears(r) \/ Waiting(r) \/ NewFails(r) \/ Info(r) \/ New(r)
  \/ \E n \in Node : NodeReady(n) \/ NodeFails(n) \/ NodeExit(n) \/ NodeDone(n)
                     \/ NodeSetsReady(n) \/ Forget(n)
  \/ \E l \in loops : LoopWakes(l) \/ LoopDelayed(l) \/ LoopRestarts(l)

Spec == Init /\ [][Next]_vars

Work(n) == NodeExit(n) \/ NodeDone(n) \/ NodeSetsReady(n) \/ Forget(n)
Reconnect(n) == \E l \in loops : /\ l.n = n
                                 /\ LoopWakes(l) \/ LoopDelayed(l) \/ LoopRestarts(l)

\* Goroutines run on, and one that has called Lock gets it in the end.
Fairness ==
  /\ \A n \in Node : /\ WF_vars(Lock(<<"exit", n>>)) /\ SF_vars(Work(n))
                      /\ WF_vars(\E l \in loops : l.n = n /\ Lock(<<"loop", l>>))
                      /\ SF_vars(Reconnect(n))
  /\ \A r \in Req : WF_vars(Waiting(r)) /\ SF_vars(Info(r))

FairSpec == Spec /\ Fairness

----------------------------------------------------------------------------
Running(n) == ext[n] \in {"starting", "ready"}

\* At most one swarm node runs, whatever requests and reconnect loops start.
OneNode == Cardinality({n \in Node : Running(n)}) <= 1

\* c.node is a node that has not been found to have ended: no exit goroutine
\* clears the node of another, or leaves an old one behind.
NodeIsCurrent ==
  /\ node /= Nobody => exit[node] = "wait"
  /\ \A n \in Node : Running(n) => node = n

\* An engine that has left its swarm stays out of it, also over a restart,
\* until it is told to join again: the reconnect loop has been stopped and
\* nothing is left to restore.
StaysLeft ==
  left /\ (\A r \in Req : req[r].op = "info" \/ req[r].pc \in {"idle", "begin"}) =>
    /\ node = Nobody /\ ~saved
    /\ \A n \in Node : ~Running(n)

\* A node that has ended without a request to stop it is started again (unless
\* the names of nodes, which bound the instance, have run out).
Reconnects ==
  \A n \in Node : (\E l \in loops : l.n = n /\ l.pc = "watch") /\ exit[n] = "done" /\ ~stop
                  ~> (node /= Nobody \/ stop \/ ~up \/ Free = {})

\* "Info returns information about the current cluster state"
\* (daemon/cluster/cluster.go, Info).
InfoReturns == \A r \in Req : req[r].op = "info" ~> req[r].op /= "info"
=============================================================================
