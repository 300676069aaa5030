------------------------------ MODULE Restore ------------------------------
(***************************************************************************)
(* The engine that dies and comes back while its containers live on: what  *)
(* it keeps on disk, the events containerd kept for it, and how the two    *)
(* are put together again.                                                 *)
(*                                                                         *)
(*   libcontainerd/remote_linux.go   New, startEventsMonitor,              *)
(*                                   handleEventStream, the timestamp file *)
(*   libcontainerd/client_linux.go   Restore, restore, setExited,          *)
(*                                   getContainerLastEvent                 *)
(*   libcontainerd/container_linux.go  handleEvent                         *)
(*   daemon/daemon.go                restore, Shutdown                     *)
(*   daemon/monitor.go               StateChanged                          *)
(*                                                                         *)
(* One container is followed.  containerd is external: it owns the process *)
(* and an ordered log of events, and outlives the engine.  An event is     *)
(* known by its place in the log, which also stands for its timestamp.     *)
(***************************************************************************)
EXTENDS Integers, Sequences, FiniteSets

CONSTANTS
    Codes,          \* exit statuses of the container's process
    Policy,         \* restart policy: "no", "always" or "unless-stopped"
    LiveRestores,   \* the values the live-restore option may have
    Ops,            \* environment: "pause", "exec", "break", "reboot", "rm",
                    \* "save", "late", "hang", "diskfails"
    MaxEvents,      \* bound on containerd's log, but for a last exit
    MaxCrashes      \* bound on how often the engine stops

Nowhere == -1          \* no place in the log
FixedCode == 1      \* Event{Type: StateExit, Status: 1}: nothing is known
ForcedCode == 255   \* setExited(containerID, uint32(255))

VARIABLES
    proc,       \* the process, as containerd sees it
    log,        \* containerd's events
    lastExit,   \* the status the last process really ended with
    disk,       \* config.v2.json
    ts,         \* event.ts: place of the last handled event, or Nowhere
    crashes,
    live,       \* the live-restore option, read when the engine starts
    phase,      \* where the start of the engine has got to
    mem,        \* container.State
    restoreTs,  \* remote.restoreFromTimestamp
    cont, ev,   \* Restore: the answers of containerd
    locked,     \* remote.Lock is held
    notified,   \* the exitNotifier was closed
    ctr,        \* clnt.containers[id]: "none", "plain", "managed"
    stream,     \* handleEventStream: [pc, pos]
    queue,      \* callbacks appended to client.q
    waiting,    \* a restart sleeps in the restart manager
    canceled    \* restartManager.canceled

vars == <<proc, log, lastExit, disk, ts, crashes, live, phase, mem, restoreTs,
          cont, ev, locked, notified, ctr, stream, queue, waiting, canceled>>

external == <<proc, log, lastExit>>
life == <<crashes, live>>
restoring == <<restoreTs, cont, ev, locked, notified>>

State == [Running : BOOLEAN, Paused : BOOLEAN, Restarting : BOOLEAN,
          ExitCode : Codes \cup {0, FixedCode, ForcedCode},
          HasBeenManuallyStopped : BOOLEAN,
          RemovalInProgress : BOOLEAN, Dead : BOOLEAN]

Event == [type : {"start", "exit", "pause", "resume", "exec"},
          code : Codes \cup {0}]

Up == phase # "down"
Ready == phase = "ready"

----------------------------------------------------------------------------
(* What containerd is asked.                                               *)

Now == Len(log)

getLastEventTimestamp == IF ts = Nowhere THEN Now ELSE ts

(* The last exit, pause or resume after a time.  The exit of an exec'd     *)
(* process is an event of the same type, so it counts too.                 *)
getContainerLastEventSinceTime(t) ==
    LET found == {i \in t + 1 .. Len(log) : log[i].type # "start"}
    IN  IF found = {} THEN Nowhere
        ELSE CHOOSE i \in found : \A j \in found : j <= i

(* A mutant of getContainerLastEvent: only later events are looked at.     *)
getContainerLastEventOnce == getContainerLastEventSinceTime(restoreTs)

getContainerLastEvent ==
    LET i == getContainerLastEventSinceTime(restoreTs)
    IN  IF i = Nowhere THEN getContainerLastEventSinceTime(0) ELSE i

----------------------------------------------------------------------------
(* The state of the container and its copy on disk.                        *)

Stopped(s, code) ==
    [s EXCEPT !.Running = FALSE, !.Paused = FALSE, !.Restarting = FALSE,
              !.ExitCode = code]

Running(s) ==
    [s EXCEPT !.Running = TRUE, !.Paused = FALSE, !.Restarting = FALSE,
              !.ExitCode = 0, !.HasBeenManuallyStopped = FALSE]

Save(s) == /\ mem' = s
           /\ disk' = s

Emit(type, code) ==
    /\ Len(log) < MaxEvents
    /\ log' = Append(log, [type |-> type, code |-> code])

shouldRestart(manual) ==
    \/ Policy = "always"
    \/ Policy = "unless-stopped" /\ ~manual

----------------------------------------------------------------------------
(* remote_linux.go, New: the time of the last event is read and the events *)
(* monitor is started.  There is no client yet.                            *)
New ==
    /\ phase = "down"
    /\ phase' = "remote"
    /\ live' \in LiveRestores
    /\ mem' = disk
    /\ restoreTs' = getLastEventTimestamp
    /\ stream' = [pc |-> "recv", pos |-> getLastEventTimestamp]
    /\ UNCHANGED <<external, disk, ts, crashes, cont, ev, locked, notified,
                   ctr, queue, waiting, canceled>>

(* NewDaemon: Client(d), then restore loads and registers the container.   *)
(* Only a container that was running has to be restored.                   *)
Load ==
    /\ phase = "remote"
    /\ phase' = IF mem.Running THEN "restore" ELSE "decide"
    /\ UNCHANGED <<external, disk, ts, life, mem, restoring, ctr, stream,
                   queue, waiting, canceled>>

(* Unless "late" is set, the exit of an earlier process of the container   *)
(* has been received by the time its present process becomes known.        *)
OldExitsReceived ==
    "late" \notin Ops =>
        ~\E i, j \in stream.pos + 1 .. Len(log) :
            i < j /\ log[i].type = "exit" /\ log[j].type = "start"

(* client_linux.go, Restore: containerd is asked for the container under   *)
(* remote.Lock, then for its last event.  Both answers may be old by the   *)
(* time they are used.                                                     *)
RestoreState ==
    /\ phase = "restore"
    /\ ~locked
    /\ OldExitsReceived
    /\ locked' = TRUE
    /\ cont' = proc
    /\ phase' = "events"
    /\ UNCHANGED <<external, disk, ts, life, mem, restoreTs, ev, notified,
                   ctr, stream, queue, waiting, canceled>>

RestoreEvents ==
    /\ phase = "events"
    /\ ev' = getContainerLastEvent
    /\ phase' = IF cont = "none" THEN "exited"
                ELSE IF live THEN "alive" ELSE "kill"
    /\ UNCHANGED <<external, disk, ts, life, mem, restoreTs, cont, locked,
                   notified, ctr, stream, queue, waiting, canceled>>

(* The container is gone.  Its status is that of the last event when this  *)
(* is an exit, 1 when containerd has no event, and 0 after a pause.        *)
exitStatus ==
    IF ev = Nowhere THEN FixedCode
    ELSE IF log[ev].type \in {"exit", "exec"} THEN log[ev].code ELSE 0

setExited ==
    /\ phase = "exited"
    /\ IF ev = Nowhere /\ ctr # "none"
       THEN UNCHANGED <<mem, disk>>
       ELSE Save(Stopped(mem, exitStatus))
    /\ locked' = FALSE
    /\ phase' = "decide"
    /\ UNCHANGED <<external, ts, life, restoreTs, cont, ev, notified, ctr,
                   stream, queue, waiting, canceled>>

(* A mutant of restore: the last event is not applied.                     *)
restoreUnpaused ==
    /\ phase = "alive"
    /\ ctr' = "managed"
    /\ Save(Running(mem))
    /\ locked' = FALSE
    /\ phase' = "decide"
    /\ UNCHANGED <<external, ts, life, restoreTs, cont, ev, notified,
                   stream, queue, waiting, canceled>>

(* The container is alive and stays: its streams are attached, it becomes  *)
(* known again and running, and a pause or a resume nobody saw is applied. *)
(* When its state cannot be saved it is forgotten again.                   *)
restore ==
    /\ phase = "alive"
    /\ \/ /\ ctr' = "managed"
          /\ disk' = Running(mem)
          /\ mem' = IF ev # Nowhere /\ log[ev].type = "pause"
                    THEN [Running(mem) EXCEPT !.Paused = TRUE]
                    ELSE Running(mem)
       \/ /\ "diskfails" \in Ops
          /\ mem' = Running(mem)
          /\ UNCHANGED <<ctr, disk>>
    /\ locked' = FALSE
    /\ phase' = "decide"
    /\ UNCHANGED <<external, ts, life, restoreTs, cont, ev, notified,
                   stream, queue, waiting, canceled>>

(* A mutant of RestoreKill: remote.Lock is kept.                           *)
RestoreKillLocked ==
    /\ phase = "kill"
    /\ ctr' = "plain"
    /\ notified' = FALSE
    /\ phase' = "killwait"
    /\ UNCHANGED <<external, disk, ts, life, mem, restoreTs, cont, ev, locked,
                   stream, queue, waiting, canceled>>

(* The container is alive and must not be.  It becomes known, without a    *)
(* restart manager, is sent SIGTERM, and remote.Lock is given up so that   *)
(* the main loop can see it exit.                                          *)
RestoreKill ==
    /\ phase = "kill"
    /\ ctr' = "plain"
    /\ notified' = FALSE
    /\ locked' = FALSE
    /\ phase' = "killwait"
    /\ UNCHANGED <<external, disk, ts, life, mem, restoreTs, cont, ev,
                   stream, queue, waiting, canceled>>

RestoreKilled ==
    /\ phase = "killwait"
    /\ notified
    /\ phase' = "decide"
    /\ UNCHANGED <<external, disk, ts, life, mem, restoring, ctr, stream,
                   queue, waiting, canceled>>

(* Twelve seconds, and a SIGKILL, later the process is still there.        *)
RestoreGivesUp ==
    /\ phase = "killwait"
    /\ "hang" \in Ops
    /\ proc # "none"
    /\ ~notified
    /\ ctr' = "none"
    /\ Save(Stopped(mem, ForcedCode))
    /\ phase' = "decide"
    /\ UNCHANGED <<external, ts, life, restoring, stream, queue, waiting,
                   canceled>>

(* daemon/daemon.go, restore, the rest of the goroutine of a container.    *)
Decide ==
    /\ phase = "decide"
    /\ IF mem.RemovalInProgress
       THEN Save([mem EXCEPT !.RemovalInProgress = FALSE, !.Dead = TRUE])
       ELSE UNCHANGED <<mem, disk>>
    /\ phase' = IF ~mem.Running /\ shouldRestart(mem.HasBeenManuallyStopped)
                THEN "starting" ELSE "ready"
    /\ UNCHANGED <<external, ts, life, restoring, ctr, stream, queue,
                   waiting, canceled>>

----------------------------------------------------------------------------
(* The container is started: by the engine's start, by its restart policy, *)
(* or by a client.  libcontainerd makes it known before containerd creates *)
(* the process and tells of it.                                            *)
start ==
    /\ proc = "none"
    /\ proc' = "running"
    /\ Emit("start", 0)
    /\ ctr' = "managed"
    /\ Save(Running(mem))
    /\ UNCHANGED lastExit

(* A mutant of Startable: a mark for removal is not looked at.             *)
StartableAnyway(s) == ~s.Running

(* containerStart refuses a container that runs or is marked for removal.  *)
Startable(s) == ~s.Running /\ ~s.RemovalInProgress /\ ~s.Dead

(* Unless "late" is set, the events the last life of the engine missed are *)
(* received before its next life starts the container anew.  The start may *)
(* fail.                                                                   *)
CaughtUp ==
    "late" \notin Ops => stream = [pc |-> "recv", pos |-> Len(log)]

StartAtBoot ==
    /\ phase = "starting"
    /\ CaughtUp
    /\ phase' = "ready"
    /\ \/ Startable(mem) /\ ctr = "none" /\ start /\ canceled' = FALSE
       \/ UNCHANGED <<external, mem, disk, ctr, canceled>>
    /\ UNCHANGED <<ts, life, restoring, stream, queue, waiting>>

ContainerStart ==
    /\ Ready
    /\ Startable(mem)
    /\ CaughtUp
    /\ ctr = "none"
    /\ start
    /\ canceled' = FALSE
    /\ UNCHANGED <<ts, life, phase, restoring, stream, queue, waiting>>

(* container_linux.go, the goroutine of handleEvent that waited for the    *)
(* restart manager, unless "late" is set for longer than it takes to write *)
(* down that the exit was handled.                                         *)
Restarted ==
    /\ Up
    /\ waiting
    /\ "late" \notin Ops => stream.pc = "recv"
    /\ waiting' = FALSE
    /\ IF canceled
       THEN /\ queue' = Append(queue, [type |-> "exit", code |-> mem.ExitCode])
            /\ UNCHANGED <<external, mem, disk, ctr>>
       ELSE start /\ UNCHANGED queue
    /\ UNCHANGED <<ts, life, phase, restoring, stream, canceled>>

(* daemon/kill.go: the signal of a stop marks the container, and cancels   *)
(* its restarts.                                                           *)
ContainerStop ==
    /\ Ready
    /\ mem.Running
    /\ ~mem.HasBeenManuallyStopped
    /\ mem' = [mem EXCEPT !.HasBeenManuallyStopped = TRUE]
    /\ canceled' = TRUE
    /\ UNCHANGED <<external, disk, ts, life, phase, restoring, ctr, stream,
                   queue, waiting>>

(* daemon/delete.go, cleanupContainer: marked, saved as dead.              *)
ContainerRm ==
    /\ "rm" \in Ops
    /\ Ready
    /\ ~mem.Running
    /\ ~mem.RemovalInProgress
    /\ Save([mem EXCEPT !.RemovalInProgress = TRUE, !.Dead = TRUE])
    /\ UNCHANGED <<external, ts, life, phase, restoring, ctr, stream,
                   queue, waiting, canceled>>

(* Any operation that saves the container: a rename, an update.            *)
ToDisk ==
    /\ "save" \in Ops
    /\ Ready
    /\ disk # mem
    /\ disk' = mem
    /\ UNCHANGED <<external, ts, life, phase, mem, restoring, ctr, stream,
                   queue, waiting, canceled>>

----------------------------------------------------------------------------
(* containerd.                                                             *)

PauseOrResume ==
    /\ "pause" \in Ops
    /\ Ready
    /\ mem.Running /\ ~mem.Restarting /\ ctr # "none"
    /\ \/ /\ proc = "running" /\ ~mem.Paused
          /\ proc' = "paused"
          /\ Emit("pause", 0)
       \/ /\ proc = "paused" /\ mem.Paused
          /\ proc' = "running"
          /\ Emit("resume", 0)
    /\ UNCHANGED <<lastExit, disk, ts, life, phase, mem, restoring, ctr,
                   stream, queue, waiting, canceled>>

Exit ==
    /\ proc # "none"
    /\ \E c \in Codes :
         /\ log' = Append(log, [type |-> "exit", code |-> c])
         /\ lastExit' = c
    /\ proc' = "none"
    /\ UNCHANGED <<disk, ts, life, phase, mem, restoring, ctr, stream,
                   queue, waiting, canceled>>

(* An exec'd process ends, at the latest right after the container.        *)
ExecExit ==
    /\ "exec" \in Ops
    /\ log # <<>>
    /\ log[Len(log)].type # "exec"
    /\ Emit("exec", 0)
    /\ UNCHANGED <<proc, lastExit, disk, ts, life, phase, mem, restoring,
                   ctr, stream, queue, waiting, canceled>>

----------------------------------------------------------------------------
(* remote_linux.go, handleEventStream.  A container is looked up under     *)
(* remote.RLock; the event of an unknown one is dropped.                   *)
Receive ==
    /\ Up
    /\ stream.pc = "recv"
    /\ stream.pos < Len(log)
    /\ ~locked
    /\ stream' = IF ctr = "none" THEN [stream EXCEPT !.pos = @ + 1]
                 ELSE [stream EXCEPT !.pos = @ + 1, !.pc = "handle"]
    /\ UNCHANGED <<external, disk, ts, life, phase, mem, restoring, ctr,
                   queue, waiting, canceled>>

(* container_linux.go, handleEvent: an exit is turned into a restart when  *)
(* the restart manager says so, and the container is forgotten; the rest   *)
(* is left to a callback of the queue.                                     *)
handleEvent ==
    LET e == log[stream.pos]
        restart == ctr = "managed" /\ ~canceled /\ shouldRestart(FALSE)
    IN  /\ stream.pc = "handle"
        /\ stream' = [stream EXCEPT !.pc = "truncate"]
        /\ queue' = IF e.type = "start" THEN queue
                    ELSE IF e.type = "exit" /\ restart
                         THEN Append(queue, [e EXCEPT !.type = "restart"])
                         ELSE Append(queue, e)
        /\ ctr' = IF e.type = "exit" THEN "none" ELSE ctr
        /\ UNCHANGED <<external, disk, ts, life, phase, mem, restoring,
                       waiting, canceled>>

(* A mutant of updateEventTimestamp: the time written is a little later.   *)
updateEventTimestampLate ==
    /\ stream.pc = "truncate"
    /\ ts' = stream.pos + 1
    /\ stream' = [stream EXCEPT !.pc = "recv"]
    /\ UNCHANGED <<external, disk, life, phase, mem, restoring, ctr, queue,
                   waiting, canceled>>

(* updateEventTimestamp opens the file with O_TRUNC, then writes it.       *)
updateEventTimestamp ==
    /\ \/ /\ stream.pc = "truncate"
          /\ ts' = Nowhere
          /\ stream' = [stream EXCEPT !.pc = "write"]
       \/ /\ stream.pc = "write"
          /\ ts' = stream.pos
          /\ stream' = [stream EXCEPT !.pc = "recv"]
    /\ UNCHANGED <<external, disk, life, phase, mem, restoring, ctr, queue,
                   waiting, canceled>>

(* The connection breaks; another monitor goes on from the file.  The file *)
(* is taken to exist: an event has been handled before.  Events dropped    *)
(* for want of a container are received again; unless "late" is set, no    *)
(* exit is among them.                                                     *)
startEventsMonitor ==
    /\ "break" \in Ops
    /\ Up
    /\ stream.pc = "recv"
    /\ ts # Nowhere
    /\ stream.pos # ts
    /\ \/ "late" \in Ops
       \/ \A i \in ts + 1 .. stream.pos : log[i].type # "exit"
    /\ stream' = [stream EXCEPT !.pos = ts]
    /\ UNCHANGED <<external, disk, ts, life, phase, mem, restoring, ctr,
                   queue, waiting, canceled>>

(* daemon/monitor.go, StateChanged, run by the queue in the order of the   *)
(* events; an exit then wakes Restore.                                     *)
StateChanged ==
    /\ Up
    /\ queue # <<>>
    /\ queue' = Tail(queue)
    /\ LET e == queue[1] IN
       /\ CASE e.type = "exit" -> Save(Stopped(mem, e.code))
            [] e.type = "restart" ->
                 Save([mem EXCEPT !.Running = TRUE, !.Restarting = TRUE,
                                  !.ExitCode = e.code])
            [] e.type = "pause" ->
                 mem' = [mem EXCEPT !.Paused = TRUE] /\ UNCHANGED disk
            [] e.type = "resume" ->
                 mem' = [mem EXCEPT !.Paused = FALSE] /\ UNCHANGED disk
            [] e.type = "exec" -> UNCHANGED <<mem, disk>>
       /\ waiting' = (waiting \/ e.type = "restart")
       /\ notified' = (notified \/ e.type \in {"exit", "restart", "exec"})
    /\ UNCHANGED <<external, ts, life, phase, restoreTs, cont, ev, locked,
                   ctr, stream, canceled>>

----------------------------------------------------------------------------
(* The engine stops.  A crash loses its memory and nothing else.           *)
Down ==
    /\ phase' = "down"
    /\ crashes' = crashes + 1
    /\ UNCHANGED live
    /\ mem' = disk
    /\ restoreTs' = 0 /\ cont' = "none" /\ ev' = Nowhere
    /\ locked' = FALSE /\ notified' = FALSE
    /\ ctr' = "none"
    /\ stream' = [pc |-> "recv", pos |-> 0]
    /\ queue' = <<>>
    /\ waiting' = FALSE /\ canceled' = FALSE

Crash ==
    /\ Up
    /\ crashes < MaxCrashes
    /\ Down
    /\ UNCHANGED <<external, disk, ts>>

(* Daemon.Shutdown keeps the containers with live-restore, else it stops   *)
(* them first and sees each of them stopped.                               *)
Shutdown ==
    /\ Ready
    /\ crashes < MaxCrashes
    /\ ~live => ~mem.Running
    /\ Down
    /\ UNCHANGED <<external, disk, ts>>

(* The machine restarts: the state directory of containerd is gone, the    *)
(* processes with it.                                                      *)
Reboot ==
    /\ "reboot" \in Ops
    /\ crashes < MaxCrashes
    /\ proc # "none"
    /\ Down
    /\ proc' = "none" /\ log' = <<>> /\ ts' = Nowhere /\ lastExit' = FixedCode
    /\ UNCHANGED disk

Init ==
    /\ proc = "none" /\ log = <<>> /\ lastExit = 0
    /\ disk = [Running |-> FALSE, Paused |-> FALSE, Restarting |-> FALSE,
               ExitCode |-> 0, HasBeenManuallyStopped |-> FALSE,
               RemovalInProgress |-> FALSE, Dead |-> FALSE]
    /\ mem = disk
    /\ ts = 0
    /\ crashes = 0
    /\ live \in LiveRestores
    /\ phase = "ready"
    /\ restoreTs = 0 /\ cont = "none" /\ ev = Nowhere
    /\ locked = FALSE /\ notified = FALSE
    /\ ctr = "none"
    /\ stream = [pc |-> "recv", pos |-> 0]
    /\ queue = <<>>
    /\ waiting = FALSE /\ canceled = FALSE

Boot == \/ New \/ Load \/ RestoreState \/ RestoreEvents \/ setExited
        \/ restore \/ RestoreKill \/ RestoreKilled \/ RestoreGivesUp
        \/ Decide \/ StartAtBoot

Monitor == Receive \/ handleEvent \/ updateEventTimestamp

Next ==
    \/ Boot \/ Monitor
    \/ ContainerStart \/ Restarted \/ ContainerStop \/ ContainerRm \/ ToDisk
    \/ PauseOrResume \/ Exit \/ ExecExit
    \/ startEventsMonitor \/ StateChanged
    \/ Crash \/ Shutdown \/ Reboot

Spec == Init /\ [][Next]_vars

(* The goroutines of the engine run, and a process that was sent a signal  *)
(* ends.                                                                   *)
Fairness ==
    /\ WF_vars(Boot)
    /\ WF_vars(Monitor)
    /\ WF_vars(StateChanged)
    /\ WF_vars(phase = "killwait" /\ Exit)

FairSpec == Spec /\ Fairness

----------------------------------------------------------------------------
TypeOK ==
    /\ proc \in {"none", "running", "paused"}
    /\ log \in Seq(Event)
    /\ lastExit \in Codes \cup {0, FixedCode}
    /\ disk \in State
    /\ mem \in State
    /\ ts \in {Nowhere} \cup 0 .. MaxEvents + 1
    /\ restoreTs \in 0 .. MaxEvents + 1
    /\ crashes \in 0 .. MaxCrashes
    /\ live \in BOOLEAN
    /\ phase \in {"down", "remote", "restore", "events", "exited", "alive",
                  "kill", "killwait", "decide", "starting", "ready"}
    /\ cont \in {"none", "running", "paused"}
    /\ ev \in {Nowhere} \cup 1 .. MaxEvents + 1
    /\ locked \in BOOLEAN
    /\ notified \in BOOLEAN
    /\ ctr \in {"none", "plain", "managed"}
    /\ stream \in [pc : {"recv", "handle", "truncate", "write"},
                   pos : 0 .. MaxEvents + 1]
    /\ waiting \in BOOLEAN
    /\ canceled \in BOOLEAN

(* Nothing is under way: the engine has handled all that containerd told.  *)
Settled ==
    /\ Ready
    /\ stream = [pc |-> "recv", pos |-> Len(log)]
    /\ queue = <<>>
    /\ ~waiting

(* Once the engine has handled every event, what it says of a container is *)
(* what containerd says: it runs, or is paused, exactly when its process   *)
(* does, and libcontainerd knows it, so that its exit will be seen.  This  *)
(* holds through every crash, between any two steps of handling an event,  *)
(* of saving the container, and of Restore itself.                         *)
StateAgrees ==
    Settled => /\ mem.Running <=> proc # "none"
               /\ mem.Paused <=> proc = "paused"
               /\ proc # "none" => ctr # "none"

(* And a container that stopped carries the status its process ended with, *)
(* also when the engine was down at that moment or died between handling   *)
(* the exit and saving it.                                                 *)
ExitCodeKept ==
    (Settled /\ ~mem.Running) => mem.ExitCode = lastExit

(* A container whose removal began is never started again, whatever its    *)
(* restart policy and wherever the removal was cut short.                  *)
RemovedStaysDown ==
    [][disk.Dead /\ proc' = "running" => proc # "none"]_vars

(* Every start of the engine comes to an end: Restore does not wait for    *)
(* the events monitor while it holds the lock the monitor needs.           *)
BootEnds == (phase = "remote") ~> (Ready \/ phase = "down")
=============================================================================
