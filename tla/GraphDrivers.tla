---------------------------- MODULE GraphDrivers ----------------------------
(* The graph drivers: what Create, Get, Put, ApplyDiff and Remove do to    *)
(* the directories of a layer, to its mount and to the reference counter,  *)
(* with calls that fail and a daemon that is killed in between.            *)
(*                                                                         *)
(* A layer on disk has a whole tree (root: a btrfs subvolume, a zfs        *)
(* dataset, a thin device, a vfs directory, overlay's "root"), or the      *)
(* files it adds to others (up: aufs and overlay2's "diff", overlay's      *)
(* "upper") and the list of the layers below (lower: the files "layers",   *)
(* "lower" and "lower-id").  A file has a version; 0 is no file, and Thru  *)
(* in an upper directory lets the layers below show through.               *)
EXTENDS Integers, Sequences

CONSTANTS
  Kind,        \* the drivers
  Id, File, Parent, None,
  Archive,     \* image layer -> the diff that is applied to it
  Caller,      \* those that mount layers
  Container,   \* the callers that are containers: they outlive the daemon
  Layer,       \* container -> its layer
  Serial,      \* whether calls for one layer follow one another
  Ops,         \* the faults: "mount", "busy", "create", "crash"
  maxDepth, MaxFaults,
  MaxIdle      \* how often overlay and overlay2 put a plain directory

VARIABLES
  kind,        \* the driver in use
  disk,        \* layer -> [root, up, lower], or None
  made,        \* layer -> "no", "created" or "ready" for others to build on
  mounts,      \* layer -> how many mounts are stacked on its mount point
  ctr,         \* graphdriver.RefCounter: layer -> [count, check]
  pathCache,   \* aufs: layer -> the path Get has chosen, or None
  call,        \* caller -> [op, id, path]
  faults

vars == <<kind, disk, made, mounts, ctr, pathCache, call, faults>>

Thru == -1
Empty == [f \in File |-> 0]
Clear == [f \in File |-> Thru]
Idle == [op |-> "idle", id |-> None, path |-> None]
NewCtr == [i \in Id |-> [count |-> 0, check |-> FALSE]]

Stacking == {"overlay", "overlay2"}
Plain == {"btrfs", "vfs"}   \* nothing is ever mounted or counted
Over(up, low) == [f \in File |-> IF up[f] = Thru THEN low[f] ELSE up[f]]
Solid(up) == Over(up, Empty)
(* A union shows the topmost of the directories that has the file. *)
Union(i) ==
  LET dirs == <<i>> \o IF disk[i].lower = None THEN <<>> ELSE disk[i].lower
      dir(k) == IF disk[dirs[k]].root /= None THEN disk[dirs[k]].root ELSE disk[dirs[k]].up
      With(f) == {k \in DOMAIN dirs : dir(k)[f] /= Thru}
  IN [f \in File |-> IF With(f) = {} THEN 0 ELSE dir(CHOOSE k \in With(f) : \A l \in With(f) : k <= l)[f]]
View(i) == IF disk[i].root /= None THEN disk[i].root ELSE Union(i)

Children(i) == {j \in Id : Parent[j] = i /\ disk[j] /= None}
Used(i) == {c \in Caller : call[c].id = i}
Fault(f) == f \in Ops /\ faults < MaxFaults /\ faults' = faults + 1
Layered(i, up, low) == [root |-> None, up |-> up, lower |-> low]
Whole(t) == [root |-> t, up |-> None, lower |-> None]
Lower(i) == IF disk[i].lower = None THEN <<>> ELSE disk[i].lower

Init ==
  /\ kind \in Kind
  /\ disk = [i \in Id |-> None] /\ made = [i \in Id |-> "no"] /\ faults = 0
  /\ mounts = [i \in Id |-> 0] /\ ctr = NewCtr /\ pathCache = [i \in Id |-> None]
  /\ call = [c \in Caller |-> Idle]

(***************************************************************************)
(* Create.  Created is what it leaves when it succeeds, Partial what it    *)
(* may leave when it is cut short.                                         *)
(***************************************************************************)

aufsCreate(i, p) ==
  Layered(i, Clear, IF p = None THEN <<>> ELSE <<p>> \o Lower(p))
overlay2Create(i, p) ==
  Layered(i, Clear, IF p = None THEN None ELSE <<p>> \o Lower(p))
overlayCreate(i, p) ==
  IF p = None THEN Whole(Empty)
  ELSE IF disk[p].root /= None THEN Layered(i, Clear, <<p>>)
  ELSE Layered(i, disk[p].up, disk[p].lower)
snapshotCreate(i, p) == Whole(IF p = None THEN Empty ELSE disk[p].root)

Created(i, p) ==
  CASE kind = "aufs" -> aufsCreate(i, p)
    [] kind = "overlay2" -> overlay2Create(i, p)
    [] kind = "overlay" -> overlayCreate(i, p)
    [] OTHER -> snapshotCreate(i, p)

Partial(i) ==
  CASE kind = "aufs" -> {Layered(i, Clear, None), Layered(i, Clear, <<>>)}
    [] kind = "overlay2" -> {Layered(i, Clear, None)}
    [] kind = "overlay" -> {Layered(i, Clear, None)}
    [] kind = "vfs" -> {Whole(Empty)}
    [] OTHER -> {None}

TooDeep(p) == kind = "overlay2" /\ p /= None /\ Len(<<p>> \o Lower(p)) > maxDepth

Buildable(i) == disk[i] = None /\ (Parent[i] /= None => made[Parent[i]] = "ready")

(* An image layer is ready once its diff is applied.  The layer store      *)
(* never uses a name again, unless it has removed what was there.          *)
Create(i) ==
  /\ Buildable(i) /\ ~TooDeep(Parent[i])
  /\ disk' = [disk EXCEPT ![i] = Created(i, Parent[i])]
  /\ made' = [made EXCEPT ![i] = IF i \in DOMAIN Archive THEN "created" ELSE "ready"]
  /\ UNCHANGED <<kind, mounts, ctr, pathCache, call, faults>>

(* overlay and overlay2 remove the directory on their way out, and the     *)
(* others leave what they have made.                                       *)
CreateFails(i) ==
  /\ Buildable(i) /\ Fault("create")
  /\ \E d \in IF kind \in Stacking THEN {None} ELSE Partial(i) :
       disk' = [disk EXCEPT ![i] = d]
  /\ UNCHANGED <<kind, made, mounts, ctr, pathCache, call>>

(***************************************************************************)
(* graphdriver.RefCounter.  A path it sees for the first time may be       *)
(* mounted since before the daemon was started.                            *)
(***************************************************************************)

\* A mutant of Counted: a mount that an earlier daemon left is not counted.
CountedFromNothing(i, n) == [count |-> ctr[i].count + n, check |-> TRUE]

Counted(i, n) ==
  [count |-> ctr[i].count + n + IF ~ctr[i].check /\ mounts[i] > 0 THEN 1 ELSE 0, check |-> TRUE]
Increment(i) == Counted(i, 1)
Decrement(i) == Counted(i, -1)

(***************************************************************************)
(* Get and Put.  Where Get hands out a plain directory nothing is mounted; *)
(* path is that directory, or "mnt".                                       *)
(***************************************************************************)

aufsPath(i) ==
  IF pathCache[i] /= None THEN pathCache[i] ELSE IF Lower(i) = <<>> THEN "up" ELSE "mnt"

GetPath(i) ==
  CASE kind = "aufs" -> aufsPath(i)
    [] kind = "overlay2" -> IF disk[i].lower = None THEN "up" ELSE "mnt"
    [] kind = "overlay" -> IF disk[i].root /= None THEN "root" ELSE "mnt"
    [] kind \in Plain -> "root"
    [] OTHER -> "mnt"

(* aufs counts the references to a plain directory too. *)
Counts(i) == kind = "aufs" \/ GetPath(i) = "mnt"
InTurn(i) == Serial => \A c \in Used(i) : call[c].op = "held"

Get(c, i) ==
  LET n == Increment(i) IN
  /\ call[c].op = "idle" /\ InTurn(i)
  /\ made[i] /= "no" /\ (c \in Container => i = Layer[c])
  /\ ctr[i].count > -MaxIdle
  /\ ctr' = IF Counts(i) THEN [ctr EXCEPT ![i] = n] ELSE ctr
  /\ call' = [call EXCEPT ![c] = [op |-> IF GetPath(i) = "mnt" /\ n.count <= 1 THEN "mount" ELSE "held",
                                  id |-> i, path |-> GetPath(i)]]
  /\ pathCache' = IF kind = "aufs" /\ GetPath(i) = "up" THEN [pathCache EXCEPT ![i] = "up"] ELSE pathCache
  /\ UNCHANGED <<kind, disk, made, mounts, faults>>

(* overlay and overlay2 mount over what is there; the others look whether  *)
(* the layer is mounted already.                                           *)
Mount(c) ==
  LET i == call[c].id IN
  /\ call[c].op = "mount"
  /\ mounts' = [mounts EXCEPT ![i] = IF kind \notin Stacking /\ @ > 0 THEN @ ELSE @ + 1]
  /\ pathCache' = IF kind = "aufs" THEN [pathCache EXCEPT ![i] = call[c].path] ELSE pathCache
  /\ call' = [call EXCEPT ![c].op = "held"]
  /\ UNCHANGED <<kind, disk, made, ctr, faults>>

(* The mount fails, or what follows it does and the mount is undone.  All  *)
(* drivers but aufs take the reference back.                               *)
MountFails(c) ==
  LET i == call[c].id IN
  /\ call[c].op = "mount" /\ Fault("mount")
  /\ ctr' = IF kind = "aufs" THEN ctr ELSE [ctr EXCEPT ![i] = Decrement(i)]
  /\ call' = [call EXCEPT ![c] = Idle]
  /\ UNCHANGED <<kind, disk, made, mounts, pathCache>>

(* overlay and overlay2 take a reference from the counter though Get took  *)
(* none for a plain directory.                                             *)
Put(c) ==
  LET i == call[c].id
      n == Decrement(i) IN
  /\ call[c].op = "held" /\ InTurn(i)
  /\ pathCache' = IF kind = "aufs" /\ pathCache[i] = None THEN [pathCache EXCEPT ![i] = "mnt"] ELSE pathCache
  /\ ctr' = IF kind \in Plain THEN ctr ELSE [ctr EXCEPT ![i] = n]
  /\ call' = [call EXCEPT ![c] = IF kind \in Plain \/ n.count > 0 THEN Idle ELSE [@ EXCEPT !.op = "umount"]]
  /\ UNCHANGED <<kind, disk, made, mounts, faults>>

Unmount(c) ==
  LET i == call[c].id IN
  /\ call[c].op = "umount"
  /\ mounts' = [mounts EXCEPT ![i] = IF @ > 0 THEN @ - 1 ELSE 0]
  /\ call' = [call EXCEPT ![c] = Idle]
  /\ UNCHANGED <<kind, disk, made, ctr, pathCache, faults>>

(* The mount is in use: it stays, and the reference is gone. *)
UnmountBusy(c) ==
  /\ call[c].op = "umount" /\ mounts[call[c].id] > 0 /\ Fault("busy")
  /\ call' = [call EXCEPT ![c] = Idle]
  /\ UNCHANGED <<kind, disk, made, mounts, ctr, pathCache>>

(***************************************************************************)
(* What is written into a layer.                                           *)
(***************************************************************************)

Written(i, t) ==
  IF disk[i].root /= None THEN Whole(Over(t, disk[i].root))
  ELSE [disk[i] EXCEPT !.up = Over(t, @)]

Seen(c) ==
  LET i == call[c].id IN
  CASE call[c].path = "root" -> disk[i].root
    [] call[c].path = "up" -> Solid(disk[i].up)
    [] OTHER -> IF mounts[i] > 0 THEN View(i) ELSE Empty

(* A file is written or removed by a process in the container. *)
Write(c, f, v) ==
  LET i == call[c].id IN
  /\ call[c].op = "held" /\ i \notin DOMAIN Archive /\ Children(i) = {}
  /\ call[c].path = "mnt" => mounts[i] > 0
  /\ disk' = [disk EXCEPT ![i] = Written(i, [Clear EXCEPT ![f] = v])]
  /\ UNCHANGED <<kind, made, mounts, ctr, pathCache, call, faults>>

(* overlay makes a new root out of the parent's when that has one, puts it *)
(* in place with one rename and removes the upper directory.  aufs and     *)
(* overlay2 unpack into the directory of the diff.  Otherwise              *)
(* NaiveDiffDriver gets the layer, unpacks over its files and puts it.     *)
overlayApply(i, p) == Whole(Over(Archive[i], disk[p].root))
Linked(i) == kind = "overlay" /\ Parent[i] /= None /\ disk[Parent[i]].root /= None
Naive(i) == kind \notin {"aufs", "overlay2"} \cup Plain /\ ~Linked(i)

ApplyDiff(i) ==
  /\ i \in DOMAIN Archive /\ made[i] = "created" /\ Used(i) = {}
  /\ disk' = [disk EXCEPT ![i] = IF Linked(i) THEN overlayApply(i, Parent[i]) ELSE Written(i, Archive[i])]
  /\ made' = [made EXCEPT ![i] = "ready"]
  /\ ctr' = IF ~Naive(i) THEN ctr
            ELSE [ctr EXCEPT ![i] = [count |-> @.count - (IF Counts(i) THEN 0 ELSE 1), check |-> TRUE]]
  /\ UNCHANGED <<kind, mounts, pathCache, call, faults>>

(***************************************************************************)
(* Remove, for a layer nobody holds or builds on.  A mount that was left   *)
(* behind is undone by aufs, stops zfs and devicemapper, and makes overlay *)
(* and overlay2 fail when the rest of the layer is already gone.           *)
(***************************************************************************)

Removable(i) == disk[i] /= None /\ Used(i) = {} /\ Children(i) = {}

(* The next layer in this place has another name. *)
Remove(i) ==
  /\ Removable(i) /\ (kind /= "aufs" => mounts[i] = 0)
  /\ disk' = [disk EXCEPT ![i] = None] /\ made' = [made EXCEPT ![i] = "no"]
  /\ mounts' = [mounts EXCEPT ![i] = 0] /\ ctr' = [ctr EXCEPT ![i] = NewCtr[i]]
  /\ pathCache' = [pathCache EXCEPT ![i] = None]
  /\ UNCHANGED <<kind, call, faults>>

RemoveFails(i) ==
  /\ Removable(i) /\ kind \in Stacking /\ mounts[i] > 0 /\ made[i] /= "no"
  /\ disk' = [disk EXCEPT ![i] = Layered(i, Clear, None)] /\ made' = [made EXCEPT ![i] = "no"]
  /\ UNCHANGED <<kind, mounts, ctr, pathCache, call, faults>>

(***************************************************************************)
(* The daemon ends, killed or with containers that stay (live restore), or *)
(* in order.  What it had in memory is lost.  Layers under construction    *)
(* are forgotten, and a Create may have been cut short.                    *)
(***************************************************************************)

Forget ==
  /\ ctr' = NewCtr /\ pathCache' = [i \in Id |-> None]
  /\ made' = [i \in Id |-> IF made[i] = "created" THEN "no" ELSE made[i]]
  /\ call' = [c \in Caller |-> IF c \in Container /\ call[c].op = "held" THEN call[c] ELSE Idle]

Killed ==
  /\ Fault("crash") /\ Forget
  /\ \E i \in Id : \E d \in IF Buildable(i) THEN Partial(i) \cup {None} ELSE {disk[i]} :
       disk' = [disk EXCEPT ![i] = d]
  /\ UNCHANGED <<kind, mounts>>

(* Cleanup, and cleanupMounts, whose patterns do not match overlay2. *)
Shutdown ==
  /\ "crash" \in Ops /\ \A c \in Caller : call[c].op = "idle"
  /\ Forget
  /\ mounts' = IF kind = "overlay2" THEN mounts ELSE [i \in Id |-> 0]
  /\ UNCHANGED <<kind, disk, faults>>

Next ==
  \/ \E i \in Id : Create(i) \/ CreateFails(i) \/ ApplyDiff(i) \/ Remove(i) \/ RemoveFails(i)
  \/ \E c \in Caller : \/ \E i \in Id : Get(c, i)
                       \/ Mount(c) \/ MountFails(c) \/ Put(c) \/ Unmount(c) \/ UnmountBusy(c)
                       \/ \E f \in File, v \in 0..1 : Write(c, f, v)
  \/ Killed \/ Shutdown
Spec == Init /\ [][Next]_vars

-----------------------------------------------------------------------------
TypeOK ==
  /\ kind \in Kind /\ made \in [Id -> {"no", "created", "ready"}]
  /\ mounts \in [Id -> 0..(MaxFaults + 1)] /\ faults \in 0..MaxFaults
  /\ pathCache \in [Id -> {None, "up", "mnt"}]
  /\ \A i \in Id : ctr[i].count \in Int /\ ctr[i].check \in BOOLEAN
  /\ \A c \in Caller : call[c].op \in {"idle", "mount", "held", "umount"}

(* A caller that was given a layer sees all the files of the layer, until  *)
(* it puts it back: "Returns the absolute path to the mounted layered      *)
(* filesystem."  The mount is not taken away by others that get and put    *)
(* the same layer, nor by a daemon that was started anew and has forgotten *)
(* that a container still uses it.                                         *)
GotIsMounted == \A c \in Caller : call[c].op = "held" => Seen(c) = View(call[c].id)

Content == [i \in Id |-> IF made[i] = "no" THEN None ELSE View(i)]
Promise == INSTANCE ProtoDriver WITH content <- Content

LayersKeepStep == Content' = Content \/ Promise!Next

(* The driver's layers behave as ProtoDriver says: a new layer shows what  *)
(* its parent shows, whichever driver made it and whatever was left behind *)
(* before, and no other call changes what a layer shows.                   *)
LayersKeep == [][LayersKeepStep]_vars
=============================================================================
