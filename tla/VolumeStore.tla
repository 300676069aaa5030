---------------------------- MODULE VolumeStore ----------------------------
(***************************************************************************)
(* Volumes and the mount points that use them: volume/store keeps which    *)
(* driver owns a volume name and which containers refer to it, the local   *)
(* driver (volume/local) counts active mounts, and the daemon takes and    *)
(* drops references while it creates, starts, stops and removes            *)
(* containers and when it restarts.                                        *)
(*                                                                         *)
(* Every store operation holds the lock of its volume name throughout, so  *)
(* it is one step here.  The daemon's loops over mount points take no lock *)
(* across two store operations, so each turn of a loop is a step.  Labels, *)
(* scopes and paths are left out; every local volume is taken to have      *)
(* options, which is when the driver really mounts and counts.             *)
(***************************************************************************)
EXTENDS Integers, FiniteSets

CONSTANTS
  Container, Name, Driver, Dest, Caller,
  DefaultDriver,    \* volume.DefaultDriverName, "local"
  None,             \* "" or nil
  Configs,          \* host configurations a client may ask for
  AnonName,         \* the generated name of a container's anonymous volume
  Ops,              \* optional requests: "hostconfig", "early", "restart"
  MaxRestarts, MaxStarts

VARIABLES
  volumes,    \* the volumes each driver has, on disk
  names,      \* s.names: the driver recorded for a name
  refs,       \* s.refs: the containers that refer to a name
  mounts,     \* container.MountPoints, by destination
  pending,    \* the mountPoints map registerMountPoints builds
  conf,       \* the host configuration being applied
  todo,       \* destinations the current loop has not visited
  pc,         \* where the container's request is
  active,     \* localVolume.active.count
  mounted,    \* localVolume.active.mounted
  doomed,     \* the dereferenced mount point whose volume is removed next
  held,       \* the volume VolumeRm got and is about to remove
  restarts, starts

vars == <<volumes, names, refs, mounts, pending, conf, todo, pc, active,
          mounted, doomed, held, restarts, starts>>

storeVars == <<volumes, names, refs, active, mounted>>

Volume == Name \X Driver
HostConfig == [from : Container \cup {None},
               binds : [Dest -> Volume \cup {None}],
               anon : SUBSET Dest]
MountPoint == [name : Name, driver : Driver, named : BOOLEAN,
               source : BOOLEAN, volume : BOOLEAN]
NoMounts == [d \in Dest |-> None]

\* Only registered containers are found by daemon.GetContainer.
Registered == {c \in Container : pc[c] \in {"created", "starting", "running",
                                            "refrom", "rebinds"}}

TypeOK ==
  /\ volumes \in [Driver -> SUBSET Name]
  /\ names \in [Name -> Driver \cup {None}]
  /\ refs \in [Name -> SUBSET Container]
  /\ mounts \in [Container -> [Dest -> MountPoint \cup {None}]]
  /\ pending \in [Container -> [Dest -> MountPoint \cup {None}]]
  /\ conf \in [Container -> HostConfig \cup {None}]
  /\ todo \in [Container -> SUBSET Dest]
  /\ pc \in [Container -> {"none", "from", "binds", "anon", "undo", "created",
                           "refrom", "rebinds", "starting", "running",
                           "removing", "purging", "gone"}]
  /\ active \in [Volume -> Int]
  /\ mounted \in SUBSET Volume
  /\ doomed \in [Container -> Dest \cup {None}]
  /\ held \in [Caller -> Volume \cup {None}]
  /\ restarts \in 0..MaxRestarts
  /\ starts \in 0..MaxStarts

Init ==
  /\ volumes = [d \in Driver |-> {}]
  /\ names = [n \in Name |-> None]
  /\ refs = [n \in Name |-> {}]
  /\ mounts = [c \in Container |-> NoMounts]
  /\ pending = [c \in Container |-> NoMounts]
  /\ conf = [c \in Container |-> None]
  /\ todo = [c \in Container |-> {}]
  /\ pc = [c \in Container |-> "none"]
  /\ active = [v \in Volume |-> 0]
  /\ mounted = {}
  /\ doomed = [c \in Container |-> None]
  /\ held = [u \in Caller |-> None]
  /\ restarts = 0
  /\ starts = 0

\* Generated names are not guessed by clients.
UserName == Name \ {AnonName[c] : c \in Container}

Mounts(m) == {d \in Dest : m[d] /= None}

----------------------------------------------------------------------------
(* The store's operations, each under the lock of its volume name.         *)

\* A mutant of setNamed: the reference replaces the others.
setNamedAlone(n, d, ref) ==
  /\ names' = [names EXCEPT ![n] = d]
  /\ refs' = [refs EXCEPT ![n] = ref \ {None}]

\* setNamed
setNamed(n, d, ref) ==
  /\ names' = [names EXCEPT ![n] = d]
  /\ refs' = [refs EXCEPT ![n] = @ \cup (ref \ {None})]

\* The driver create ends up with: the recorded one, unless the caller names
\* another that is not the default; otherwise the caller's, or for "" any
\* driver that already has the volume, or the default.
CreateDrivers(n, d) ==
  IF names[n] /= None
  THEN IF d \in {names[n], None, DefaultDriver} THEN {names[n]} ELSE {}
  ELSE IF d /= None THEN {d}
  ELSE LET having == {e \in Driver : n \in volumes[e]}
       IN  IF having /= {} THEN having ELSE {DefaultDriver}

\* Root.Create of the local driver: a volume that exists is reused.
RootCreate(n, d) ==
  /\ volumes' = [volumes EXCEPT ![d] = @ \cup {n}]
  /\ IF n \in volumes[d]
     THEN UNCHANGED <<active, mounted>>
     ELSE /\ active' = [active EXCEPT ![<<n, d>>] = 0]
          /\ mounted' = mounted \ {<<n, d>>}

\* Create and CreateWithRef
CreateWithRef(n, d, ref) ==
  /\ d \in Driver
  /\ setNamed(n, d, ref)
  /\ RootCreate(n, d)

\* GetWithRef asks the driver it is given, whatever names says.
GetWithRef(n, d, ref) ==
  /\ n \in volumes[d]
  /\ setNamed(n, d, ref)
  /\ UNCHANGED <<volumes, active, mounted>>

\* A mutant of Dereference: the name's references all go.
DereferenceAll(n, c) ==
  /\ refs' = [refs EXCEPT ![n] = {}]
  /\ UNCHANGED <<volumes, names, active, mounted>>

\* Dereference
Dereference(n, c) ==
  /\ refs' = [refs EXCEPT ![n] = @ \ {c}]
  /\ UNCHANGED <<volumes, names, active, mounted>>

\* Root.Remove: the volume's directory goes, mounted or not.
RootRemove(n, d) ==
  /\ volumes' = [volumes EXCEPT ![d] = @ \ {n}]
  /\ UNCHANGED <<active, mounted>>

\* purge
purge(n) ==
  /\ names' = [names EXCEPT ![n] = None]
  /\ refs' = [refs EXCEPT ![n] = {}]

\* A mutant of Remove: whether the name is referred to is not asked.
RemoveInUse(n, d) ==
  /\ RootRemove(n, d)
  /\ names' = [names EXCEPT ![n] = None]
  /\ UNCHANGED refs

\* Remove: refused while anything refers to the name, and the name is
\* purged whatever driver it was recorded for.
Remove(n, d) ==
  IF refs[n] /= {} THEN UNCHANGED storeVars ELSE RootRemove(n, d) /\ purge(n)

\* localVolume.Mount and Unmount, for the volumes of a set of mount points.
Mount(v) ==
  /\ active' = [active EXCEPT ![v] = @ + 1]
  /\ mounted' = mounted \cup {v}

Uses(c, v) == {d \in Mounts(mounts[c]) : /\ mounts[c][d].volume
                                         /\ mounts[c][d].name = v[1]
                                         /\ mounts[c][d].driver = v[2]}

\* UnmountVolumes calls Unmount on every mount point that has its volume,
\* whether or not this container's start had mounted it.
UnmountVolumes(c) ==
  /\ active' = [v \in Volume |-> active[v] - Cardinality(Uses(c, v))]
  /\ mounted' = {v \in mounted : \/ active[v] <= 0
                                 \/ active[v] > Cardinality(Uses(c, v))}
  /\ UNCHANGED <<volumes, names, refs>>

----------------------------------------------------------------------------
(* Creating a container.                                                   *)

Go(c, step) == pc' = [pc EXCEPT ![c] = step]

\* registerMountPoints fails: the references of the points gathered so far
\* are dropped, also those of points the container already had.
RegisterError(c) ==
  /\ refs' = [n \in Name |->
                IF \E d \in Mounts(pending[c]) : /\ pending[c][d].volume
                                                 /\ pending[c][d].name = n
                THEN refs[n] \ {c} ELSE refs[n]]
  /\ Go(c, IF pc[c] \in {"from", "binds"} THEN "gone" ELSE "created")
  /\ pending' = [pending EXCEPT ![c] = NoMounts]
  /\ conf' = [conf EXCEPT ![c] = None]
  /\ todo' = [todo EXCEPT ![c] = {}]
  /\ UNCHANGED <<volumes, names, mounts, active, mounted, doomed, held, restarts, starts>>

\* daemon.create up to the first loop of registerMountPoints
ContainerCreate(c, hc) ==
  /\ pc[c] = "none"
  /\ hc.from /= c
  /\ conf' = [conf EXCEPT ![c] = hc]
  /\ pending' = [pending EXCEPT ![c] = mounts[c]]
  /\ todo' = [todo EXCEPT ![c] = IF hc.from \in Registered
                                 THEN Mounts(mounts[hc.from]) ELSE {}]
  /\ Go(c, IF hc.from = None \/ hc.from \in Registered THEN "from" ELSE "gone")
  /\ UNCHANGED <<storeVars, mounts, doomed, held, restarts, starts>>

\* One mount point of --volumes-from: a reference is taken only when the
\* copied point has no Source.
RegisterFrom(c, d) ==
  /\ pc[c] \in {"from", "refrom"}
  /\ d \in todo[c]
  /\ LET m == mounts[conf[c].from][d]
         add(vol) == pending' = [pending EXCEPT ![c][d] = [m EXCEPT !.volume = vol]]
     IN  \/ /\ m = None \/ m.source
            /\ IF m = None THEN UNCHANGED pending ELSE add(FALSE)
            /\ UNCHANGED storeVars
            /\ todo' = [todo EXCEPT ![c] = @ \ {d}]
            /\ UNCHANGED <<mounts, conf, pc, doomed, held, restarts, starts>>
         \/ /\ m /= None /\ ~m.source
            /\ GetWithRef(m.name, m.driver, {c})
            /\ add(TRUE)
            /\ todo' = [todo EXCEPT ![c] = @ \ {d}]
            /\ UNCHANGED <<mounts, conf, pc, doomed, held, restarts, starts>>
         \/ /\ m /= None /\ ~m.source
            /\ m.name \notin volumes[m.driver]
            /\ RegisterError(c)

RegisterBinds(c) ==
  /\ pc[c] \in {"from", "refrom"}
  /\ todo[c] = {}
  /\ todo' = [todo EXCEPT ![c] = Mounts(conf[c].binds)]
  /\ Go(c, IF pc[c] = "from" THEN "binds" ELSE "rebinds")
  /\ UNCHANGED <<storeVars, mounts, pending, conf, doomed, held, restarts, starts>>

\* One named volume of Binds; it replaces a point taken over before.
RegisterBind(c, d) ==
  /\ pc[c] \in {"binds", "rebinds"}
  /\ d \in todo[c]
  /\ LET n == conf[c].binds[d][1]
         es == CreateDrivers(n, conf[c].binds[d][2])
     IN  \/ \E e \in es :
              /\ CreateWithRef(n, e, {c})
              /\ pending' = [pending EXCEPT ![c][d] =
                               [name |-> n, driver |-> e, named |-> TRUE,
                                source |-> TRUE, volume |-> TRUE]]
              /\ todo' = [todo EXCEPT ![c] = @ \ {d}]
              /\ UNCHANGED <<mounts, conf, pc, doomed, held, restarts, starts>>
         \/ /\ es = {}
            /\ RegisterError(c)

\* The last part of registerMountPoints: references of the points about to
\* be reassigned are dropped by volume name, then the map is installed.
InstallMountPoints(c) ==
  /\ pc[c] \in {"binds", "rebinds"}
  /\ todo[c] = {}
  /\ LET stale == {d \in Mounts(pending[c]) :
                     /\ pending[c][d].source \/ pending[c][d].driver = DefaultDriver
                     /\ mounts[c][d] /= None
                     /\ mounts[c][d].volume}
     IN refs' = [n \in Name |-> IF \E d \in stale : mounts[c][d].name = n
                                THEN refs[n] \ {c} ELSE refs[n]]
  /\ mounts' = [mounts EXCEPT ![c] = pending[c]]
  /\ IF pc[c] = "binds"
     THEN /\ Go(c, "anon")
          /\ todo' = [todo EXCEPT ![c] = {d \in conf[c].anon : pending[c][d] = None}]
     ELSE /\ Go(c, "starting")
          /\ todo' = [todo EXCEPT ![c] = Mounts(pending[c])]
  /\ pending' = [pending EXCEPT ![c] = NoMounts]
  /\ conf' = [conf EXCEPT ![c] = None]
  /\ UNCHANGED <<volumes, names, active, mounted, doomed, held, restarts, starts>>

\* An anonymous volume of the image; when relabelling it fails the mount
\* point is not added, and its reference stays.
CreateAnonymous(c, d) ==
  /\ pc[c] = "anon"
  /\ d \in todo[c]
  /\ \E e \in CreateDrivers(AnonName[c], None) : CreateWithRef(AnonName[c], e, {c})
     /\ \/ /\ mounts' = [mounts EXCEPT ![c][d] =
                           [name |-> AnonName[c], driver |-> e, named |-> FALSE,
                            source |-> FALSE, volume |-> TRUE]]
           /\ todo' = [todo EXCEPT ![c] = @ \ {d}]
           /\ UNCHANGED pc
        \/ /\ todo' = [todo EXCEPT ![c] = Mounts(mounts[c])]
           /\ Go(c, "undo")
           /\ UNCHANGED mounts
  /\ UNCHANGED <<pending, conf, doomed, held, restarts, starts>>

CreateDone(c) ==
  /\ pc[c] = "anon"
  /\ todo[c] = {}
  /\ Go(c, "created")
  /\ UNCHANGED <<storeVars, mounts, pending, conf, todo, doomed, held, restarts, starts>>

----------------------------------------------------------------------------
(* Removing mount points: after a failed create, and by ContainerRm.       *)

\* One turn of removeMountPoints: the reference goes first, and only with
\* RemoveVolume, for a point that is not named, the volume itself.
removeMountPoint(c, d) ==
  /\ pc[c] \in {"undo", "removing", "purging"}
  /\ doomed[c] = None
  /\ d \in todo[c]
  /\ LET m == mounts[c][d]
     IN  IF m.volume
         THEN /\ Dereference(m.name, c)
              /\ doomed' = [doomed EXCEPT ![c] =
                              IF pc[c] = "removing" \/ m.named THEN None ELSE d]
         ELSE UNCHANGED <<storeVars, doomed>>
  /\ todo' = [todo EXCEPT ![c] = @ \ {d}]
  /\ UNCHANGED <<mounts, pending, conf, pc, held, restarts, starts>>

\* daemon.volumes.Remove of that point; "in use" is not an error.
removeVolume(c) ==
  /\ doomed[c] /= None
  /\ Remove(mounts[c][doomed[c]].name, mounts[c][doomed[c]].driver)
  /\ doomed' = [doomed EXCEPT ![c] = None]
  /\ UNCHANGED <<mounts, pending, conf, todo, pc, held, restarts, starts>>

removeMountPointsDone(c) ==
  /\ pc[c] \in {"undo", "removing", "purging"}
  /\ todo[c] = {} /\ doomed[c] = None
  /\ Go(c, "gone")
  /\ UNCHANGED <<storeVars, mounts, pending, conf, todo, doomed, held, restarts, starts>>

\* ContainerRm of a stopped container, with or without RemoveVolume
ContainerRm(c, rm) ==
  /\ pc[c] = "created"
  /\ todo' = [todo EXCEPT ![c] = Mounts(mounts[c])]
  /\ Go(c, IF rm THEN "purging" ELSE "removing")
  /\ UNCHANGED <<storeVars, mounts, pending, conf, doomed, held, restarts, starts>>

----------------------------------------------------------------------------
(* Starting and stopping.                                                  *)

ContainerStart(c) ==
  /\ pc[c] = "created"
  /\ starts < MaxStarts
  /\ starts' = starts + 1
  /\ todo' = [todo EXCEPT ![c] = Mounts(mounts[c])]
  /\ Go(c, "starting")
  /\ UNCHANGED <<storeVars, mounts, pending, conf, doomed, held, restarts>>

\* The deprecated start with a host configuration registers again.
ContainerStartHostConfig(c, hc) ==
  /\ "hostconfig" \in Ops
  /\ pc[c] = "created"
  /\ starts < MaxStarts
  /\ starts' = starts + 1
  /\ hc.from = None
  /\ conf' = [conf EXCEPT ![c] = hc]
  /\ pending' = [pending EXCEPT ![c] = mounts[c]]
  /\ todo' = [todo EXCEPT ![c] = {}]
  /\ Go(c, "refrom")
  /\ UNCHANGED <<storeVars, mounts, doomed, held, restarts>>

\* One turn of setupMounts: lazyInitializeVolume, then Setup mounts it.
\* When the volume cannot be found the start fails, and Cleanup unmounts.
setupMount(c, d) ==
  /\ pc[c] = "starting"
  /\ d \in todo[c]
  /\ LET m == mounts[c][d]
     IN  \/ /\ \/ m.volume /\ UNCHANGED <<names, refs>>
               \/ ~m.volume /\ m.name \in volumes[m.driver]
                  /\ setNamed(m.name, m.driver, {c})
            /\ Mount(<<m.name, m.driver>>)
            /\ mounts' = [mounts EXCEPT ![c][d].volume = TRUE]
            /\ todo' = [todo EXCEPT ![c] = @ \ {d}]
            /\ UNCHANGED <<volumes, pc>>
         \/ /\ ~m.volume /\ m.name \notin volumes[m.driver]
            /\ UnmountVolumes(c)
            /\ Go(c, "created")
            /\ todo' = [todo EXCEPT ![c] = {}]
            /\ UNCHANGED mounts
  /\ UNCHANGED <<pending, conf, doomed, held, restarts, starts>>

\* containerStart fails before it reaches setupMounts (the network, say).
StartFails(c) ==
  /\ "early" \in Ops
  /\ pc[c] = "starting"
  /\ UnmountVolumes(c)
  /\ Go(c, "created")
  /\ todo' = [todo EXCEPT ![c] = {}]
  /\ UNCHANGED <<mounts, pending, conf, doomed, held, restarts, starts>>

Started(c) ==
  /\ pc[c] = "starting"
  /\ todo[c] = {}
  /\ Go(c, "running")
  /\ UNCHANGED <<storeVars, mounts, pending, conf, todo, doomed, held, restarts, starts>>

\* The process exits; StateChanged calls Cleanup.
Exit(c) ==
  /\ pc[c] = "running"
  /\ UnmountVolumes(c)
  /\ Go(c, "created")
  /\ UNCHANGED <<mounts, pending, conf, todo, doomed, held, restarts, starts>>

----------------------------------------------------------------------------
(* The volume API, and a restart of the daemon.                            *)

VolumeCreate(n, d) ==
  /\ \E e \in CreateDrivers(n, d) : CreateWithRef(n, e, {})
  /\ UNCHANGED <<mounts, pending, conf, todo, pc, doomed, held, restarts, starts>>

\* VolumeRm: Get records the driver it found, Remove comes after.
VolumeRmGet(u, n) ==
  /\ held[u] = None
  /\ \E d \in IF names[n] /= None THEN {names[n]} ELSE Driver :
       /\ GetWithRef(n, d, {})
       /\ held' = [held EXCEPT ![u] = <<n, d>>]
  /\ UNCHANGED <<mounts, pending, conf, todo, pc, doomed, restarts, starts>>

VolumeRmRemove(u) ==
  /\ held[u] /= None
  /\ Remove(held[u][1], held[u][2])
  /\ held' = [held EXCEPT ![u] = None]
  /\ UNCHANGED <<mounts, pending, conf, todo, pc, doomed, restarts, starts>>

\* The daemon dies and comes back: the store and the mount points' volumes
\* are forgotten, what ToDisk saved is loaded, and prepareMountPoints takes
\* the references again.  It gives a container up at its first volume whose
\* driver does not answer.
DaemonRestart(down) ==
  /\ "restart" \in Ops
  /\ restarts < MaxRestarts
  /\ restarts' = restarts + 1
  /\ pc' = [c \in Container |->
              IF pc[c] \in {"none", "gone", "from", "binds", "removing", "purging"}
              THEN (IF pc[c] = "none" THEN "none" ELSE "gone") ELSE "created"]
  /\ \E ready \in SUBSET (Container \X Dest) :
       /\ \A c \in Container, d \in Dest :
            LET usable == {e \in Mounts(mounts[c]) :
                             /\ mounts[c][e].driver \notin down
                             /\ mounts[c][e].name \in volumes[mounts[c][e].driver]}
            IN  /\ <<c, d>> \in ready => pc'[c] = "created" /\ d \in usable
                /\ pc'[c] = "created" /\ usable = Mounts(mounts[c]) /\ d \in usable
                     => <<c, d>> \in ready
       /\ mounts' = [c \in Container |-> [d \in Dest |->
                       IF mounts[c][d] = None THEN None
                       ELSE [mounts[c][d] EXCEPT !.volume = <<c, d>> \in ready]]]
       /\ refs' = [n \in Name |-> {c \in Container :
                     \E d \in Dest : <<c, d>> \in ready /\ mounts[c][d].name = n}]
       /\ names' \in [Name -> Driver \cup {None}]
       /\ \A n \in Name :
            LET ds == {mounts[r[1]][r[2]].driver :
                         r \in {q \in ready : mounts[q[1]][q[2]].name = n}}
            IN  IF ds = {} THEN names'[n] = None ELSE names'[n] \in ds
  /\ pending' = [c \in Container |-> NoMounts]
  /\ conf' = [c \in Container |-> None]
  /\ todo' = [c \in Container |-> {}]
  /\ doomed' = [c \in Container |-> None]
  /\ held' = [u \in Caller |-> None]
  /\ active' = [v \in Volume |-> 0]
  /\ mounted' = {}
  /\ UNCHANGED <<volumes, starts>>

Next ==
  \/ \E c \in Container :
       \/ \E hc \in Configs : \/ ContainerCreate(c, hc)
                              \/ ContainerStartHostConfig(c, hc)
       \/ \E d \in Dest : \/ RegisterFrom(c, d)
                          \/ RegisterBind(c, d)
                          \/ CreateAnonymous(c, d)
                          \/ removeMountPoint(c, d)
                          \/ setupMount(c, d)
       \/ \E rm \in BOOLEAN : ContainerRm(c, rm)
       \/ RegisterBinds(c)
       \/ InstallMountPoints(c)
       \/ CreateDone(c)
       \/ removeVolume(c)
       \/ removeMountPointsDone(c)
       \/ ContainerStart(c)
       \/ StartFails(c)
       \/ Started(c)
       \/ Exit(c)
  \/ \E n \in UserName, d \in Driver \cup {None} : VolumeCreate(n, d)
  \/ \E u \in Caller : \/ \E n \in Name : VolumeRmGet(u, n)
                       \/ VolumeRmRemove(u)
  \/ \E down \in SUBSET Driver : DaemonRestart(down)

Spec == Init /\ [][Next]_vars

----------------------------------------------------------------------------
(* Properties.                                                             *)

\* A name something refers to still has its volume: Remove refuses while
\* s.refs has an entry, under the same lock every reference is taken with.
ReferencedExists ==
  \A n \in Name : refs[n] /= {} => \E d \in Driver : n \in volumes[d]

\* A running container refers to every volume it mounts, whichever way the
\* mount point came about (bind, anonymous, copied from another container,
\* loaded after a restart), so none of them can be removed under it.
RunningHoldsReferences ==
  \A c \in Container : pc[c] = "running" =>
    \A d \in Mounts(mounts[c]) : /\ mounts[c][d].volume
                                 /\ c \in refs[mounts[c][d].name]

MountedNotRemovedStep ==
  \A c \in Container : pc[c] = "running" =>
    \A d \in Mounts(mounts[c]) :
      mounts[c][d].name \in volumes[mounts[c][d].driver]
        => mounts[c][d].name \in volumes'[mounts[c][d].driver]

\* No step takes a volume away from the driver that a running container has
\* mounted it from.
MountedNotRemoved == [][MountedNotRemovedStep]_vars

\* "active refcounts the active mounts": the local driver has every volume
\* of a running container mounted.
ActiveMounts ==
  \A c \in Container : pc[c] = "running" =>
    \A d \in Mounts(mounts[c]) : <<mounts[c][d].name, mounts[c][d].driver>> \in mounted

\* "If the volume is referenced by a container it is not removed": a volume
\* that a registered container mounts by name stays.
UsedVolumesStay ==
  \A c \in Registered : \A d \in Mounts(mounts[c]) :
    mounts[c][d].name \in volumes[mounts[c][d].driver]

(* What containers rely on.                                                *)
VolumesSafe == ReferencedExists /\ RunningHoldsReferences

(* None is no name of anything, and the instance is made of its sets.      *)
VolParameters ==
  /\ None \notin Driver \cup Dest \cup Container \cup Volume \cup MountPoint \cup HostConfig
  /\ DefaultDriver \in Driver
  /\ Configs \subseteq HostConfig
  /\ AnonName \in [Container -> Name]
  /\ \A S \in SUBSET Dest : Cardinality(S) \in Nat
  /\ MaxRestarts \in Nat /\ MaxStarts \in Nat

=============================================================================
