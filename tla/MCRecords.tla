----------------------------- MODULE MCRecords ------------------------------
(* Streams, pulls that fail, the swarm node, builds and an engine that     *)
(* restarts. The parts share no state; one of them takes the steps of a    *)
(* behaviour. Parts about which only safety is checked use the same        *)
(* variables v1, v2, ... in turn.                                          *)
EXTENDS TLC

CONSTANTS
  u1, u2, n1, n2, None

VARIABLES
  which,   \* the part that takes the steps
  v1, v2, v3, v4, v5, v6, v7, v8, v9, v10, v11, v12, v13, v14, v15, v16,
  v17, v18, v19, v20

D == INSTANCE Dockerfile
FileA == <<D!Instr("from", <<D!Lit(1)>>), D!Instr("arg", <<D!Lit("v")>>), D!Instr("workdir", <<D!Lit("w")>>),
           D!Instr("run", <<D!Lit("x")>>), D!Instr("copy", <<D!Lit("f"), D!Lit("d")>>)>>
FileB == <<D!Instr("from", <<D!Lit(1)>>), D!Instr("arg", <<D!Lit("v")>>), D!Instr("workdir", <<D!Lit("w")>>),
           D!Instr("run", <<D!Lit("x")>>), D!Instr("env", <<D!Lit("e"), D!Var("v")>>)>>
FileC ==
  <<D!Instr("from", <<D!Lit(1)>>), D!Instr("maintainer", <<D!Lit("m")>>), D!Instr("arg", <<D!Lit("v"), D!Lit(3)>>),
    D!Instr("label", <<D!Lit("l"), D!Var("v")>>), D!JSON("shell", <<D!Lit("s")>>), D!Instr("expose", <<D!Lit("p")>>),
    D!Instr("run", <<D!Lit("x")>>), D!Instr("user", <<D!Lit("u")>>), D!Instr("volume", <<D!Lit("y")>>),
    D!Instr("cmd", <<D!Lit("c")>>), D!Instr("healthcheck", <<D!Lit("cmd"), D!Lit("h")>>),
    D!Instr("add", <<D!Lit("f"), D!Lit("g"), D!Lit("d")>>), D!Instr("entrypoint", <<D!Lit("e")>>),
    D!Instr("stopsignal", <<D!Lit("9")>>), D!OnBuild(D!Instr("run", <<D!Lit("t")>>))>>

Strm == INSTANCE Streams WITH
  Client <- {u1, u2}, PipeSize <- 1, Ops <- {}, MaxRuns <- 1, MaxOut <- 3,
  run <- v1, proc <- v2, fifo <- v3, cp <- v4, piece <- v5, at <- v6,
  evict <- v7, bmu <- v8, writers <- v9, queue <- v10, shut <- v11,
  driver <- v12, copier <- v13, log <- v14, hpc <- v15, event <- v16,
  late <- v17, att <- v18, seen <- v19, cast <- v20

Rest == INSTANCE Restore WITH
  Codes <- {0, 3}, Policy <- "unless-stopped",
  LiveRestores <- {TRUE, FALSE},
  Ops <- {"pause", "break", "reboot", "rm", "save"}, MaxEvents <- 4,
  MaxCrashes <- 2, proc <- v1, log <- v2, lastExit <- v3, disk <- v4,
  ts <- v5, crashes <- v6, live <- v7, phase <- v8, mem <- v9,
  restoreTs <- v10, cont <- v11, ev <- v12, locked <- v13, notified <- v14,
  ctr <- v15, stream <- v16, queue <- v17, waiting <- v18, canceled <- v19

Load == INSTANCE LayerDownload WITH
  Pull <- {u1, u2}, Layers <- (u1 :> <<"a">> @@ u2 :> <<"a", "a">>),
  Gen <- {1, 2}, maxDownloadAttempts <- 2, Ops <- {"fails", "mismatch"},
  Cancelled <- {}, known <- v1, holders <- v2, inMap <- v3, st <- v4,
  cancelled <- v5, closed <- v6, err <- v7, attempts <- v8, watchers <- v9,
  parent <- v10, source <- v11, pull <- v12, config <- v13, ctx <- v14

Clus == INSTANCE Cluster WITH
  Node <- {n1, n2}, Req <- {u1},
  Ops <- {"force", "restart", "startfails", "info"}, node <- v1, stop <- v2,
  delay <- v3, saved <- v4, cert <- v5, provider <- v6, ext <- v7,
  manager <- v8, exit <- v9, flag <- v10, loops <- v11, req <- v12,
  readers <- v13, wwait <- v14, up <- v15, left <- v16

Bild == INSTANCE Builder WITH
  Build <- {u1, u2}, File <- (u1 :> FileA @@ u2 :> FileB),
  Args <- (u1 :> {<<"v", 1>>} @@ u2 :> {<<"v", 2>>}),
  Context <- [b \in {u1, u2} |-> [f |-> 1]],
  Base <- <<[D!NewConfig EXCEPT !.OnBuild = <<D!Instr("run", <<D!Lit("t")>>)>>, !.Cmd = <<<<"c">>>>]>>,
  Flags <- {"rm", "forcerm"}, Ops <- {"run"}, images <- v1,
  containers <- v2, build <- v3

Bilx == INSTANCE Builder WITH
  Build <- {u1}, File <- (u1 :> FileC),
  Args <- (u1 :> {<<"v", 1>>, <<"http_proxy", 2>>}),
  Context <- [b \in {u1} |-> [f |-> 1, g |-> 2]], Base <- <<D!NewConfig>>,
  Flags <- {"rm", "forcerm"},
  Ops <- {"cancel", "create", "run", "copy", "commit"}, images <- v1,
  containers <- v2, build <- v3

slots ==
  <<v1, v2, v3, v4, v5, v6, v7, v8, v9, v10, v11, v12, v13, v14, v15,
    v16, v17, v18, v19, v20>>
allVars == <<which, slots>>

AllInit ==
  /\ which \in {"streams", "restore", "pulls", "node", "builds", "builderrors"}
  /\ \/ which = "streams" /\ Strm!Init
     \/ which = "restore" /\ Rest!Init /\ v20 = 0
     \/ which = "pulls" /\ Load!Init
        /\ v15 = 0 /\ v16 = 0 /\ v17 = 0 /\ v18 = 0 /\ v19 = 0 /\ v20 = 0
     \/ which = "node" /\ Clus!Init
        /\ v17 = 0 /\ v18 = 0 /\ v19 = 0 /\ v20 = 0
     \/ which = "builds" /\ Bild!Init
        /\ v4 = 0 /\ v5 = 0 /\ v6 = 0 /\ v7 = 0 /\ v8 = 0 /\ v9 = 0
        /\ v10 = 0 /\ v11 = 0 /\ v12 = 0 /\ v13 = 0 /\ v14 = 0 /\ v15 = 0
        /\ v16 = 0 /\ v17 = 0 /\ v18 = 0 /\ v19 = 0 /\ v20 = 0
     \/ which = "builderrors" /\ Bilx!Init
        /\ v4 = 0 /\ v5 = 0 /\ v6 = 0 /\ v7 = 0 /\ v8 = 0 /\ v9 = 0
        /\ v10 = 0 /\ v11 = 0 /\ v12 = 0 /\ v13 = 0 /\ v14 = 0 /\ v15 = 0
        /\ v16 = 0 /\ v17 = 0 /\ v18 = 0 /\ v19 = 0 /\ v20 = 0

AllNext ==
  \/ which = "streams" /\ Strm!Next
     /\ UNCHANGED <<which>>
  \/ which = "restore" /\ Rest!Next
     /\ UNCHANGED <<which, v20>>
  \/ which = "pulls" /\ Load!Next
     /\ UNCHANGED <<which, v15, v16, v17, v18, v19, v20>>
  \/ which = "node" /\ Clus!Next
     /\ UNCHANGED <<which, v17, v18, v19, v20>>
  \/ which = "builds" /\ Bild!Next
     /\ UNCHANGED <<which, v4, v5, v6, v7, v8, v9, v10, v11, v12, v13, v14, v15,
                    v16, v17, v18, v19, v20>>
  \/ which = "builderrors" /\ Bilx!Next
     /\ UNCHANGED <<which, v4, v5, v6, v7, v8, v9, v10, v11, v12, v13, v14, v15,
                    v16, v17, v18, v19, v20>>

AllSpec ==
  /\ AllInit /\ [][AllNext]_allVars

-----------------------------------------------------------------------------
(* Type correctness of the parts.                                          *)
PartsTypeOK ==
  /\ which = "streams" => Strm!TypeOK
  /\ which = "restore" => Rest!TypeOK
  /\ which = "pulls" => Load!TypeOK
  /\ which = "node" => Clus!TypeOK
  /\ which = "builds" => Bild!TypeOK
  /\ which = "builderrors" => Bilx!TypeOK

(* What is kept of a run of a container. When the exit of a container has  *)
(* been handled, and its log copier needed less than ten seconds, the log  *)
(* has the whole output of the last run, in order: the handler waits for   *)
(* the copying goroutine before it closes the pipes, and for the log       *)
(* copier before it closes the driver. A client has been given a section   *)
(* of what was broadcast without a gap, whatever other clients were        *)
(* evicted or reset meanwhile. A client attached to a container that runs  *)
(* is one of the writers, until its pipe is closed: no eviction hits the   *)
(* wrong writer. Once the engine has handled every event, what it says of  *)
(* a container is what containerd says: it runs, or is paused, exactly     *)
(* when its process does, and libcontainerd knows it, so that its exit     *)
(* will be seen. This holds through every crash, between any two steps of  *)
(* handling an event, of saving the container, and of Restore itself. And  *)
(* a container that stopped carries the status its process ended with,     *)
(* also when the engine was down at that moment or died between handling   *)
(* the exit and saving it.                                                 *)
RunsRecorded ==
  /\ which = "streams" => Strm!LoggedOnExit
  /\ which = "streams" => Strm!NoGaps
  /\ which = "streams" => Strm!AttachedIsServed
  /\ which = "restore" => Rest!StateAgrees
  /\ which = "restore" => Rest!ExitCodeKept

(* Layers that pulls share. Between the end of a Download that succeeded   *)
(* and the call of its release function, all layers of the image are in    *)
(* the layer store, although the transfers below the top and the layers    *)
(* found have been let go. A transfer registers its layer on the layer of  *)
(* the transfer it was made to follow, and its result stays for those who  *)
(* watch it.                                                               *)
PullsSafe ==
  /\ which = "pulls" => Load!LayersKept
  /\ which = "pulls" => Load!ResultKept

(* The swarm node of the engine. At most one swarm node runs, whatever     *)
(* requests and reconnect loops start. c.node is a node that has not been  *)
(* found to have ended: no exit goroutine clears the node of another, or   *)
(* leaves an old one behind. An engine that has left its swarm stays out   *)
(* of it, also over a restart, until it is told to join again: the         *)
(* reconnect loop has been stopped and nothing is left to restore.         *)
NodeSafe ==
  /\ which = "node" => Clus!OneNode
  /\ which = "node" => Clus!NodeIsCurrent
  /\ which = "node" => Clus!StaysLeft

(* Builds of images. The image of a finished build has the layers and the  *)
(* configuration its file describes, whatever of it came from the cache    *)
(* and whatever other builds committed meanwhile. Only the default         *)
(* command may be another build's: the cache does not compare it.          *)
(* "without leaking it to the final image": a build-arg is in the          *)
(* environment of no image, unless an ENV sets a variable of that name. A  *)
(* build that ends, in success or with --force-rm in any way, leaves no    *)
(* intermediate container behind.                                          *)
BuildsSound ==
  /\ which = "builds" => Bild!CacheTransparent
  /\ which = "builderrors" => Bilx!CacheTransparent
  /\ which = "builds" => Bild!ArgsNotKept
  /\ which = "builderrors" => Bilx!ArgsNotKept
  /\ which = "builds" => Bild!NoContainerLeft
  /\ which = "builderrors" => Bilx!NoContainerLeft
=============================================================================
