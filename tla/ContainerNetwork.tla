-------------------------- MODULE ContainerNetwork --------------------------
(***************************************************************************)
(* A container and its networks.                                           *)
(*                                                                         *)
(*   daemon/container_operations.go       allocateNetwork, releaseNetwork, *)
(*                                        connectToNetwork,                *)
(*                                        disconnectFromNetwork            *)
(*   daemon/container_operations_unix.go  ConnectToNetwork,                *)
(*                                        DisconnectFromNetwork            *)
(*   daemon/network.go                    createNetwork, deleteNetwork     *)
(*   daemon/start.go, daemon/monitor.go   the callers of the first two     *)
(*   container/container.go               the NetworkSettings              *)
(*                                                                         *)
(* The engine keeps, per network, an entry in NetworkSettings.Networks;    *)
(* libnetwork, which is external, keeps the networks, one sandbox for the  *)
(* container and one endpoint per network, named after the container.      *)
(* Starting and stopping hold the container's lock, connecting and         *)
(* disconnecting do not.  Every call into libnetwork is a step of its own. *)
(***************************************************************************)
EXTENDS Integers, FiniteSets

CONSTANTS
    Net,        \* networks a user may create
    Bridge,     \* the default network
    Caller,     \* API requests at work at one time
    Ops         \* environment: "byid" (a network is named by its ID),
                \* "fails" (libnetwork fails), "races" (API requests overlap
                \* a start or a stop), "empties" (the last network may be left)

L == "lifecycle"    \* the goroutine that holds the container's lock
Proc == Caller \cup {L}
AllNets == Net \cup {Bridge}
Key == [net : AllNets, by : {"name", "id"}]
SandboxIDs == {1, 2}
NoSandbox == 0

VARIABLES
    nets,       \* networks that exist
    sandbox,    \* the sandbox libnetwork keeps for container.ID
    eps,        \* networks with an endpoint of the container
    joined,     \* those whose endpoint joined the sandbox
    Networks,   \* keys of NetworkSettings.Networks
    withID,     \* those entries with an EndpointID
    SandboxID,  \* NetworkSettings.SandboxID
    Running,
    op,         \* per goroutine: where it is, the entry it works on and
                \* the sandbox it found
    todo        \* entries left to connect at a start

vars == <<nets, sandbox, eps, joined, Networks, withID, SandboxID, Running,
          op, todo>>
libnetwork == <<nets, sandbox, eps, joined>>
settings == <<Networks, withID, SandboxID>>

ByName(n) == [net |-> n, by |-> "name"]
Quiet == \A p \in Proc : op[p].pc = "idle"
Fails == "fails" \in Ops

Idle == [pc |-> "idle", key |-> ByName(Bridge), sb |-> NoSandbox]

Goto(p, l) == op' = [op EXCEPT ![p] = IF l = "idle" THEN Idle
                                      ELSE [@ EXCEPT !.pc = l]]

\* Mutant: a start goes on with the next network when one fails.
ReturnGoesOn(p) == Goto(p, IF p = L THEN "next" ELSE "idle")

(* A failure, or the end, of an API request; a failed start is cleaned up. *)
Return(p) == Goto(p, IF p = L THEN "release" ELSE "idle")

----------------------------------------------------------------------------
(* connectToNetwork, for a start and for a request.                        *)

(* A network that has an entry, under its name or its ID, gets no second.  *)
updateNetworkSettings(n) ==
    IF \E k \in Networks : k.net = n THEN Networks ELSE Networks \cup {ByName(n)}

(* updateNetworkConfig: the network is looked up by name or by ID, and the *)
(* request's entry is made.  A start does not update the settings.         *)
updateNetworkConfig(p) ==
    /\ op[p].pc = "config"
    /\ IF op[p].key.net \in nets
       THEN /\ Networks' = IF p = L THEN Networks
                           ELSE updateNetworkSettings(op[p].key.net)
            /\ Goto(p, "create")
       ELSE Return(p) /\ UNCHANGED Networks
    /\ UNCHANGED <<libnetwork, withID, SandboxID, Running, todo>>

(* getNetworkSandbox, BuildCreateEndpointOptions and CreateEndpoint: an    *)
(* endpoint's name is unique in its network.                               *)
CreateEndpoint(p) ==
    LET n == op[p].key.net IN
    /\ op[p].pc = "create"
    /\ \/ /\ n \in nets /\ n \notin eps
          /\ eps' = eps \cup {n}
          /\ Networks' = Networks \cup {ByName(n)}
          /\ withID' = withID \cup {ByName(n)}
          /\ op' = [op EXCEPT ![p].sb = sandbox,
                    ![p].pc = IF sandbox = NoSandbox THEN "sandbox" ELSE "join"]
       \/ /\ Fails \/ n \notin nets \/ n \in eps
          /\ Return(p)
          /\ UNCHANGED <<eps, Networks, withID>>
    /\ UNCHANGED <<nets, sandbox, joined, SandboxID, Running, todo>>

(* NewSandbox refuses a second sandbox for the container.                  *)
NewSandbox(p) ==
    /\ op[p].pc = "sandbox"
    /\ \/ /\ sandbox = NoSandbox
          /\ \E i \in SandboxIDs \ {SandboxID} :
               /\ sandbox' = i
               /\ SandboxID' = i
               /\ op' = [op EXCEPT ![p].sb = i, ![p].pc = "join"]
       \/ /\ Fails \/ sandbox # NoSandbox
          /\ Goto(p, "rollback")
          /\ UNCHANGED <<sandbox, SandboxID>>
    /\ UNCHANGED <<nets, eps, joined, Networks, withID, Running, todo>>

(* Join; a start goes on with the next entry, and at the end it runs.      *)
Join(p) ==
    LET n == op[p].key.net IN
    /\ op[p].pc = "join"
    /\ \/ /\ op[p].sb = sandbox /\ n \in eps
          /\ joined' = joined \cup {n}
          /\ Goto(p, IF p = L THEN "next" ELSE "idle")
       \/ /\ Fails \/ op[p].sb # sandbox \/ n \notin eps
          /\ Goto(p, "rollback")
          /\ UNCHANGED joined
    /\ UNCHANGED <<nets, sandbox, eps, settings, Running, todo>>

\* Mutant: a failed connection is not rolled back.
RollbackNothing(p) ==
    /\ op[p].pc = "rollback"
    /\ Return(p)
    /\ UNCHANGED <<libnetwork, settings, Running, todo>>

(* The deferred ep.Delete(false) of a failed connection.                   *)
Rollback(p) ==
    /\ op[p].pc = "rollback"
    /\ eps' = IF op[p].key.net \in joined THEN eps ELSE eps \ {op[p].key.net}
    /\ Return(p)
    /\ UNCHANGED <<nets, sandbox, joined, settings, Running, todo>>

----------------------------------------------------------------------------
(* Sandbox.Delete, SandboxDestroy: the endpoints in it leave and go.       *)
SandboxDelete ==
    /\ sandbox' = NoSandbox
    /\ eps' = eps \ joined
    /\ joined' = {}

(* containerStart, initializeNetworking: a stale sandbox is destroyed, and *)
(* a container with no network at all gets the default one.                *)
allocateNetwork ==
    /\ op[L].pc = "idle"
    /\ ~Running
    /\ "races" \notin Ops => Quiet
    /\ SandboxDelete
    /\ LET all == IF Networks = {} THEN {ByName(Bridge)} ELSE Networks
       IN  /\ Networks' = all
           /\ todo' = all
    /\ Goto(L, "next")
    /\ UNCHANGED <<nets, withID, SandboxID, Running>>

(* The default network is connected first, the others in any order.        *)
NextNetwork ==
    /\ op[L].pc = "next"
    /\ IF todo = {}
       THEN /\ Running' = TRUE
            /\ Goto(L, "idle")
            /\ UNCHANGED todo
       ELSE /\ \E k \in todo :
                 /\ ByName(Bridge) \in todo => k = ByName(Bridge)
                 /\ op' = [op EXCEPT ![L].key = k, ![L].pc = "config"]
                 /\ todo' = todo \ {k}
            /\ UNCHANGED Running
    /\ UNCHANGED <<libnetwork, settings>>

(* The process ends: StateChanged marks the container and cleans up.       *)
StateExit ==
    /\ op[L].pc = "idle"
    /\ Running
    /\ "races" \notin Ops => Quiet
    /\ Running' = FALSE
    /\ Goto(L, "release")
    /\ UNCHANGED <<libnetwork, settings, todo>>

(* releaseNetwork returns before it looks for the sandbox when there is no *)
(* entry left.                                                             *)
releaseNetwork ==
    /\ op[L].pc = "release"
    /\ IF SandboxID = NoSandbox \/ Networks = {}
       THEN UNCHANGED <<sandbox, eps, joined, withID>>
       ELSE /\ withID' = {}
            /\ IF sandbox # SandboxID
               THEN UNCHANGED <<sandbox, eps, joined>>
               ELSE SandboxDelete
    /\ Goto(L, "idle")
    /\ todo' = {}
    /\ UNCHANGED <<nets, Networks, SandboxID, Running>>

----------------------------------------------------------------------------
(* API requests.                                                           *)

Called(p) ==
    /\ op[p].pc = "idle"
    /\ "races" \notin Ops => op[L].pc = "idle"

(* ConnectToNetwork reads Running without the lock.  On a container that   *)
(* does not run it stores the entry under the name or ID it was given.     *)
ConnectToNetwork(p, k) ==
    /\ Called(p)
    /\ k.by = "id" => "byid" \in Ops
    /\ IF Running
       THEN /\ op' = [op EXCEPT ![p].key = k, ![p].pc = "config"]
            /\ UNCHANGED <<Networks, withID>>
       ELSE /\ k.net \in nets
            /\ Networks' = updateNetworkSettings(k.net) \cup {k}
            /\ withID' = withID \ {k}
            /\ UNCHANGED op
    /\ UNCHANGED <<libnetwork, SandboxID, Running, todo>>

\* Mutant: the entry goes when the endpoint could not leave.
DisconnectForgets(p, n) ==
    /\ Called(p)
    /\ ByName(n) \in Networks
    /\ Networks' = Networks \ {ByName(n)}
    /\ withID' = withID \ {ByName(n)}
    /\ UNCHANGED <<libnetwork, SandboxID, Running, op, todo>>

(* DisconnectFromNetwork: only the entry goes, or the endpoint leaves.     *)
DisconnectFromNetwork(p, n) ==
    /\ Called(p)
    /\ n \in nets
    /\ "empties" \in Ops \/ Cardinality(Networks) > 1
    /\ IF Running
       THEN /\ n \in joined
            /\ joined' = joined \ {n}
            /\ op' = [op EXCEPT ![p].key = ByName(n), ![p].pc = "delete"]
            /\ UNCHANGED <<Networks, withID>>
       ELSE /\ ByName(n) \in Networks
            /\ Networks' = Networks \ {ByName(n)}
            /\ withID' = withID \ {ByName(n)}
            /\ UNCHANGED <<joined, op>>
    /\ UNCHANGED <<nets, sandbox, eps, SandboxID, Running, todo>>

EndpointDelete(p) ==
    /\ op[p].pc = "delete"
    /\ eps' = eps \ {op[p].key.net}
    /\ Networks' = Networks \ {ByName(op[p].key.net)}
    /\ withID' = withID \ {ByName(op[p].key.net)}
    /\ Goto(p, "idle")
    /\ UNCHANGED <<nets, sandbox, joined, SandboxID, Running, todo>>

(* A network with endpoints cannot be deleted, nor a predefined one.       *)
createNetwork(n) ==
    /\ n \notin nets
    /\ nets' = nets \cup {n}
    /\ UNCHANGED <<sandbox, eps, joined, settings, Running, op, todo>>

deleteNetwork(n) ==
    /\ n \in nets \cap Net
    /\ n \notin eps
    /\ nets' = nets \ {n}
    /\ UNCHANGED <<sandbox, eps, joined, settings, Running, op, todo>>

Init ==
    /\ nets = AllNets
    /\ sandbox = NoSandbox
    /\ eps = {} /\ joined = {}
    /\ Networks = {ByName(Bridge)} /\ withID = {}
    /\ SandboxID = NoSandbox
    /\ Running = FALSE
    /\ op = [p \in Proc |-> Idle]
    /\ todo = {}

connectToNetwork(p) ==
    \/ updateNetworkConfig(p) \/ CreateEndpoint(p) \/ NewSandbox(p)
    \/ Join(p) \/ Rollback(p)

Next ==
    \/ \E p \in Proc : connectToNetwork(p)
    \/ allocateNetwork \/ NextNetwork \/ StateExit \/ releaseNetwork
    \/ \E p \in Caller :
         \/ \E k \in Key : ConnectToNetwork(p, k)
         \/ \E n \in AllNets : DisconnectFromNetwork(p, n)
         \/ EndpointDelete(p)
    \/ \E n \in Net : createNetwork(n) \/ deleteNetwork(n)

Spec == Init /\ [][Next]_vars

----------------------------------------------------------------------------
TypeOK ==
    /\ nets \subseteq AllNets
    /\ sandbox \in SandboxIDs \cup {NoSandbox}
    /\ eps \subseteq AllNets
    /\ joined \subseteq AllNets
    /\ Networks \subseteq Key
    /\ withID \subseteq Key
    /\ SandboxID \in SandboxIDs \cup {NoSandbox}
    /\ Running \in BOOLEAN
    /\ op \in [Proc -> [pc : {"idle", "config", "create", "sandbox", "join",
                               "rollback", "next", "release", "delete"},
                         key : Key, sb : SandboxIDs \cup {NoSandbox}]]
    /\ todo \subseteq Key

(* A network the container takes part in has an entry in its settings, so  *)
(* that a disconnection, a stop and an inspection can find it, whatever    *)
(* fails while it is connected.                                            *)
JoinedIsKnown == Quiet => \A n \in joined : ByName(n) \in Networks

(* A container that stopped, or whose start failed halfway, leaves no      *)
(* endpoint behind: its networks can be deleted and joined again.          *)
StoppedHasNoEndpoint == (Quiet /\ ~Running) => eps = {}

StartConnectsAllStep ==
    (~Running /\ Running') => \A k \in Networks : k.net \in joined

(* A start that succeeds has connected every network in the settings.      *)
StartConnectsAll == [][StartConnectsAllStep]_vars

(* Cleanup releases any network resources allocated to the container, its  *)
(* sandbox among them.                                                     *)
CleanupReleases == (Quiet /\ ~Running) => sandbox = NoSandbox

(* What a user of networks relies on between requests.                     *)
NetworksSafe == JoinedIsKnown /\ StoppedHasNoEndpoint

(* The container's goroutine is not a request, and requests do not overlap *)
(* a start or a stop.                                                      *)
NetParameters == L \notin Caller /\ "races" \notin Ops

=============================================================================
