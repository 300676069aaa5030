----------------------------- MODULE MCStorage ------------------------------
(* Volumes, networks and images, thin devices, graph drivers and the       *)
(* archives of layers. The parts share no state; one of them takes the     *)
(* steps of a behaviour. Parts about which only safety is checked use the  *)
(* same variables v1, v2, ... in turn.                                     *)
EXTENDS Storage, TLC

CONSTANTS
  l1, l2, in, rw, a, b, k1, k2, n1, vol1, vol2, local, d1, d2, u1, u2,
  tag, digest

VARIABLES
  which,   \* the part that takes the steps
  v1, v2, v3, v4, v5, v6, v7, v8, v9, v10, v11, v12, v13, v14, v15, v16,
  v17, v18, v19, v20, v21, v22, v23

Unbound == [d \in {d1, d2} |-> None]
VolumeConfigs ==
  {[from |-> None, binds |-> [Unbound EXCEPT ![d1] = <<n1, local>>], anon |-> {d2}],
   [from |-> k1, binds |-> Unbound, anon |-> {}],
   [from |-> k1, binds |-> [Unbound EXCEPT ![d2] = <<n1, local>>], anon |-> {}]}
Anonymous == k1 :> vol1 @@ k2 :> vol2
Repos == tag :> "repo" @@ digest :> "repo"
DiffPaths == <<<<"a">>, <<"a", "x">>, <<"a", "y">>, <<"b">>>>
DiffLowers ==
  LET Absent == <<"none", 0, FALSE>>
      Plain == {Absent, <<"file", 1, FALSE>>} IN
  {t \in [{<<"a">>, <<"a", "x">>, <<"a", "y">>, <<"b">>} -> Plain \cup {<<"dir", 1, FALSE>>}] :
     /\ \A p \in {<<"a", "x">>, <<"a", "y">>, <<"b">>} : t[p] \in Plain
     /\ t[<<"a">>][1] /= "dir" => t[<<"a", "x">>] = Absent /\ t[<<"a", "y">>] = Absent}

Devs == INSTANCE DeviceSet WITH
  Hash <- {a, b}, MaxDeviceID <- 2,
  Ops <- {"crashadd", "crashbase", "fails", "leak"}, MaxCrashes <- 2,
  MaxAdds <- 2, MaxTransactions <- 7, pool <- v1, ptid <- v2, active <- v3,
  mounted <- v4, leak <- v5, sched <- v6, files <- v7, trans <- v8,
  setmeta <- v9, Devices <- v10, idmap <- v11, NextDeviceID <- v12,
  TransactionID <- v13, nrDeletedDevices <- v14, OpenTransactionID <- v15,
  lock <- v16, ilock <- v17, up <- v18, th <- v19, user <- v20,
  deferred <- v21, crashes <- v22, adds <- v23

Devx == INSTANCE DeviceSet WITH
  Hash <- {a, b}, MaxDeviceID <- 2, Ops <- {"closefails", "fails"},
  MaxCrashes <- 1, MaxAdds <- 2, MaxTransactions <- 5, pool <- v1,
  ptid <- v2, active <- v3, mounted <- v4, leak <- v5, sched <- v6,
  files <- v7, trans <- v8, setmeta <- v9, Devices <- v10, idmap <- v11,
  NextDeviceID <- v12, TransactionID <- v13, nrDeletedDevices <- v14,
  OpenTransactionID <- v15, lock <- v16, ilock <- v17, up <- v18, th <- v19,
  user <- v20, deferred <- v21, crashes <- v22, adds <- v23

Volx == INSTANCE VolumeStore WITH
  Ops <- {"hostconfig", "early"}, MaxRestarts <- 0, MaxStarts <- 1,
  volumes <- v1, names <- v2, refs <- v3, mounts <- v4, pending <- v5,
  conf <- v6, todo <- v7, pc <- v8, active <- v9, mounted <- v10,
  doomed <- v11, held <- v12, restarts <- v13, starts <- v14

Imgx == INSTANCE ImageStore WITH
  Container <- User, Ops <- {"recreate", "savefails"}, MaxRequests <- 2,
  MaxCrashes <- 0, content <- v1, parent <- v2, images <- v3,
  children <- v4, repos <- v5, cache <- v6, saved <- v7, req <- v8,
  cont <- v9, requests <- v10, crashes <- v11, disturbed <- v12

Driv == INSTANCE GraphDrivers WITH
  Kind <- {"aufs", "overlay", "overlay2", "btrfs", "zfs", "vfs", "devicemapper"},
  Ops <- {"busy", "create", "crash"}, maxDepth <- 3, MaxFaults <- 1,
  MaxIdle <- 1, Id <- {l1, l2, in, rw}, File <- {"f"},
  Parent <- (l1 :> None @@ l2 :> l1 @@ in :> l2 @@ rw :> in),
  Archive <- (l1 :> [f |-> 1] @@ l2 :> [f |-> 0]), Caller <- {u1, u2},
  Container <- {u1}, Layer <- (u1 :> rw), Serial <- TRUE, kind <- v1,
  disk <- v2, made <- v3, mounts <- v4, ctr <- v5, pathCache <- v6,
  call <- v7, faults <- v8

Drix == INSTANCE GraphDrivers WITH
  Kind <- {"overlay", "overlay2", "zfs", "devicemapper"}, Ops <- {"mount"},
  maxDepth <- 3, MaxFaults <- 1, MaxIdle <- 1, Id <- {l1, l2, in, rw},
  File <- {"f"}, Parent <- (l1 :> None @@ l2 :> l1 @@ in :> l2 @@ rw :> in),
  Archive <- (l1 :> [f |-> 1] @@ l2 :> [f |-> 0]), Caller <- {u1, u2},
  Container <- {u1}, Layer <- (u1 :> rw), Serial <- TRUE, kind <- v1,
  disk <- v2, made <- v3, mounts <- v4, ctr <- v5, pathCache <- v6,
  call <- v7, faults <- v8

Diff == INSTANCE LayerDiff WITH
  Paths <- DiffPaths, Lowers <- DiffLowers, MaxWrites <- 4, lower <- v1,
  upper <- v2, writes <- v3

(* The proofs' hypotheses about the parameters hold of these instances.    *)
ASSUME PartsAssumption ==
  /\ VolParameters /\ "hostconfig" \notin Ops
  /\ Volx!VolParameters
  /\ Nets!NetParameters
  /\ Imgs!ImgParameters /\ Imgs!CrashAlone
  /\ Imgx!ImgParameters /\ Imgx!CrashAlone

baseVars ==
  <<volumes, names, refs, mounts, pending, conf, todo, pc, active,
    mounted, doomed, held, restarts, starts>>
netsVars ==
  <<nets, sandbox, eps, joined, Networks, withID, SandboxID, Running,
    op, toConnect>>
imgsVars ==
  <<content, parent, images, children, repos, cache, saved, req, cont,
    requests, crashes, disturbed>>
slots ==
  <<v1, v2, v3, v4, v5, v6, v7, v8, v9, v10, v11, v12, v13, v14, v15,
    v16, v17, v18, v19, v20, v21, v22, v23>>
allVars == <<which, baseVars, netsVars, imgsVars, slots>>

AllInit ==
  /\ which \in {"volumes", "networks", "images", "devices", "deviceerrors",
                "volumeerrors", "imageerrors", "drivers", "drivererrors", "diffs"}
  /\ Init
  /\ Nets!Init
  /\ Imgs!Init
  /\ \/ /\ which \in {"volumes", "networks", "images"}
        /\ v1 = 0 /\ v2 = 0 /\ v3 = 0 /\ v4 = 0 /\ v5 = 0 /\ v6 = 0 /\ v7 = 0
        /\ v8 = 0 /\ v9 = 0 /\ v10 = 0 /\ v11 = 0 /\ v12 = 0 /\ v13 = 0
        /\ v14 = 0 /\ v15 = 0 /\ v16 = 0 /\ v17 = 0 /\ v18 = 0 /\ v19 = 0
        /\ v20 = 0 /\ v21 = 0 /\ v22 = 0 /\ v23 = 0
     \/ which = "devices" /\ Devs!Init
     \/ which = "deviceerrors" /\ Devx!Init
     \/ which = "volumeerrors" /\ Volx!Init
        /\ v15 = 0 /\ v16 = 0 /\ v17 = 0 /\ v18 = 0 /\ v19 = 0 /\ v20 = 0
        /\ v21 = 0 /\ v22 = 0 /\ v23 = 0
     \/ which = "imageerrors" /\ Imgx!Init
        /\ v13 = 0 /\ v14 = 0 /\ v15 = 0 /\ v16 = 0 /\ v17 = 0 /\ v18 = 0
        /\ v19 = 0 /\ v20 = 0 /\ v21 = 0 /\ v22 = 0 /\ v23 = 0
     \/ which = "drivers" /\ Driv!Init
        /\ v9 = 0 /\ v10 = 0 /\ v11 = 0 /\ v12 = 0 /\ v13 = 0 /\ v14 = 0
        /\ v15 = 0 /\ v16 = 0 /\ v17 = 0 /\ v18 = 0 /\ v19 = 0 /\ v20 = 0
        /\ v21 = 0 /\ v22 = 0 /\ v23 = 0
     \/ which = "drivererrors" /\ Drix!Init
        /\ v9 = 0 /\ v10 = 0 /\ v11 = 0 /\ v12 = 0 /\ v13 = 0 /\ v14 = 0
        /\ v15 = 0 /\ v16 = 0 /\ v17 = 0 /\ v18 = 0 /\ v19 = 0 /\ v20 = 0
        /\ v21 = 0 /\ v22 = 0 /\ v23 = 0
     \/ which = "diffs" /\ Diff!Init
        /\ v4 = 0 /\ v5 = 0 /\ v6 = 0 /\ v7 = 0 /\ v8 = 0 /\ v9 = 0
        /\ v10 = 0 /\ v11 = 0 /\ v12 = 0 /\ v13 = 0 /\ v14 = 0 /\ v15 = 0
        /\ v16 = 0 /\ v17 = 0 /\ v18 = 0 /\ v19 = 0 /\ v20 = 0 /\ v21 = 0
        /\ v22 = 0 /\ v23 = 0

AllNext ==
  \/ which = "volumes" /\ Next
     /\ UNCHANGED <<which, netsVars, imgsVars, slots>>
  \/ which = "networks" /\ Nets!Next
     /\ UNCHANGED <<which, baseVars, imgsVars, slots>>
  \/ which = "images" /\ Imgs!Next
     /\ UNCHANGED <<which, baseVars, netsVars, slots>>
  \/ which = "devices" /\ Devs!Next
     /\ UNCHANGED <<which, baseVars, netsVars, imgsVars>>
  \/ which = "deviceerrors" /\ Devx!Next
     /\ UNCHANGED <<which, baseVars, netsVars, imgsVars>>
  \/ which = "volumeerrors" /\ Volx!Next
     /\ UNCHANGED <<which, baseVars, netsVars, imgsVars, v15, v16, v17, v18, v19,
                    v20, v21, v22, v23>>
  \/ which = "imageerrors" /\ Imgx!Next
     /\ UNCHANGED <<which, baseVars, netsVars, imgsVars, v13, v14, v15, v16, v17,
                    v18, v19, v20, v21, v22, v23>>
  \/ which = "drivers" /\ Driv!Next
     /\ UNCHANGED <<which, baseVars, netsVars, imgsVars, v9, v10, v11, v12, v13,
                    v14, v15, v16, v17, v18, v19, v20, v21, v22, v23>>
  \/ which = "drivererrors" /\ Drix!Next
     /\ UNCHANGED <<which, baseVars, netsVars, imgsVars, v9, v10, v11, v12, v13,
                    v14, v15, v16, v17, v18, v19, v20, v21, v22, v23>>
  \/ which = "diffs" /\ Diff!Next
     /\ UNCHANGED <<which, baseVars, netsVars, imgsVars, v4, v5, v6, v7, v8, v9,
                    v10, v11, v12, v13, v14, v15, v16, v17, v18, v19, v20, v21,
                    v22, v23>>

AllSpec ==
  /\ AllInit /\ [][AllNext]_allVars

-----------------------------------------------------------------------------
(* Type correctness of the parts.                                          *)
PartsTypeOK ==
  /\ TypeOK
  /\ which = "networks" => Nets!TypeOK
  /\ which = "images" => Imgs!TypeOK
  /\ which = "devices" => Devs!TypeOK
  /\ which = "deviceerrors" => Devx!TypeOK
  /\ which = "volumeerrors" => Volx!TypeOK
  /\ which = "imageerrors" => Imgx!TypeOK
  /\ which = "drivers" => Driv!TypeOK
  /\ which = "drivererrors" => Drix!TypeOK
  /\ which = "diffs" => Diff!TypeOK

(* The pool, the files on disk and the daemon agree. Whatever failed and   *)
(* whenever the daemon died while adding devices: when no transaction is   *)
(* under way, every metadata file belongs to a thin device made for it,    *)
(* and every thin device has its file, so none is leaked. No id is handed  *)
(* out twice: the ids of the devices on record are marked, and no others   *)
(* are, but for one that is being deleted. The deletion worker looks for   *)
(* work only when nrDeletedDevices is not 0. A mounted device shows its    *)
(* own contents, also after a restart.                                     *)
DevicesSafe ==
  /\ which = "devices" => Devs!PoolMatchesFiles
  /\ which = "deviceerrors" => Devx!PoolMatchesFiles
  /\ which = "devices" => Devs!IdsMarked
  /\ which = "deviceerrors" => Devx!IdsMarked
  /\ which = "devices" => Devs!DeletedCounted
  /\ which = "deviceerrors" => Devx!DeletedCounted
  /\ which = "devices" => Devs!MountedIsOwn
  /\ which = "deviceerrors" => Devx!MountedIsOwn

(* Layers as the graph drivers show and archive them. A caller that was    *)
(* given a layer sees all the files of the layer, until it puts it back:   *)
(* "Returns the absolute path to the mounted layered filesystem." The      *)
(* mount is not taken away by others that get and put the same layer, nor  *)
(* by a daemon that was started anew and has forgotten that a container    *)
(* still uses it. The archive one driver makes of a layer, applied to the  *)
(* parent by any driver, gives the layer again: every file, every removal  *)
(* and the mode of every directory. (For overlay2 only layers without      *)
(* opaque directories.) The list of changes from the layer's own           *)
(* directory names the same added, changed and removed files as the        *)
(* comparison of the two trees. The driver's layers behave as ProtoDriver  *)
(* says: a new layer shows what its parent shows, whichever driver made    *)
(* it and whatever was left behind before, and no other call changes what  *)
(* a layer shows.                                                          *)
LayersSound ==
  /\ [](which = "drivers" => Driv!GotIsMounted)
  /\ [](which = "drivererrors" => Drix!GotIsMounted)
  /\ [](which = "diffs" => Diff!DiffsPortable)
  /\ [](which = "diffs" => Diff!ChangesAgree)
  /\ [][(which = "drivers" => Driv!LayersKeepStep)]_allVars

(* What stays true of volumes and images under faults that the proofs      *)
(* exclude, or that two containers meet. A name something refers to still  *)
(* has its volume: Remove refuses while s.refs has an entry, under the     *)
(* same lock every reference is taken with. What the stores promise of     *)
(* images and names.                                                       *)
FaultsContained ==
  /\ which = "volumeerrors" => Volx!ReferencedExists
  /\ which = "imageerrors" => Imgx!ImagesSafe
=============================================================================
