------------------------------ MODULE MCEngine ------------------------------
(* One container under every operation, and the restart of the engine      *)
(* with a container that lives on or not, and the output streams of a      *)
(* container. The parts share no state; one of them takes the steps of a   *)
(* behaviour.                                                              *)
EXTENDS ContainerLifecycle, TLC

CONSTANTS
  c1

VARIABLES
  which,   \* the part that takes the steps
  restProc, log, lastExit, disk, ts, crashes, live, phase, mem, restoreTs,
  cont, ev, locked, notified, restCtr, stream, restQueue, waiting,
  canceled, run, strmProc, fifo, cp, piece, at, evict, bmu, writers,
  strmQueue, shut, driver, copier, strmLog, hpc, event, late, att, seen,
  cast

Rest == INSTANCE Restore WITH
  Codes <- {3}, Policy <- "unless-stopped", LiveRestores <- {TRUE, FALSE},
  Ops <- {"pause", "break", "rm", "save", "exec", "hang", "diskfails", "late"},
  MaxEvents <- 2, MaxCrashes <- 1, proc <- restProc, ctr <- restCtr,
  queue <- restQueue

Strm == INSTANCE Streams WITH
  Client <- {c1}, PipeSize <- 1, Ops <- {"loggerfails"}, MaxRuns <- 1,
  MaxOut <- 2, proc <- strmProc, queue <- strmQueue, log <- strmLog

baseVars ==
  <<rm, state, mu, woken, manual, registered, epoch, ctr, restarting,
    restarter, clk, queue, proc, events, execs, pc, res, sig, opt>>
restVars ==
  <<restProc, log, lastExit, disk, ts, crashes, live, phase, mem,
    restoreTs, cont, ev, locked, notified, restCtr, stream, restQueue,
    waiting, canceled>>
strmVars ==
  <<run, strmProc, fifo, cp, piece, at, evict, bmu, writers, strmQueue,
    shut, driver, copier, strmLog, hpc, event, late, att, seen, cast>>
allVars == <<which, baseVars, restVars, strmVars>>

AllInit ==
  /\ which \in {"container", "restore", "streams"}
  /\ Init
  /\ Rest!Init
  /\ Strm!Init

AllNext ==
  \/ which = "container" /\ Next
     /\ UNCHANGED <<which, restVars, strmVars>>
  \/ which = "restore" /\ Rest!Next
     /\ UNCHANGED <<which, baseVars, strmVars>>
  \/ which = "streams" /\ Strm!Next
     /\ UNCHANGED <<which, baseVars, restVars>>

InContainer(A) == which = "container" /\ A /\ UNCHANGED <<which, restVars, strmVars>>
InRestore(A) == which = "restore" /\ A /\ UNCHANGED <<which, baseVars, strmVars>>
InStreams(A) == which = "streams" /\ A /\ UNCHANGED <<which, baseVars, restVars>>

(* The fairness of every part.  One part takes the steps, so a condition of *)
(* one and a condition of another are joined into one.                     *)
AllSpec ==
  /\ AllInit /\ [][AllNext]_allVars
  /\ WF_allVars(\/ InContainer(WaitStopTimeout(c1))
                \/ InRestore(Rest!Boot)
                \/ InStreams(Strm!Steps))
  /\ WF_allVars(\/ InContainer(ProcessExit /\ proc.killed)
                \/ InRestore(Rest!Monitor))
  /\ WF_allVars(\/ InContainer(BackOff(1))
                \/ InRestore(Rest!StateChanged))
  /\ WF_allVars(\/ InContainer(BackOff(2))
                \/ InRestore(phase = "killwait" /\ Rest!Exit))
  /\ WF_allVars(InContainer(RestartStarted(1)))
  /\ WF_allVars(InContainer(RestartStarted(2)))
  /\ SF_allVars(InContainer(ApiStep(c1)))
  /\ SF_allVars(InContainer(HandleEvent))
  /\ SF_allVars(InContainer(RunCallback))
  /\ SF_allVars(InContainer(RestartReceive(1)))
  /\ SF_allVars(InContainer(RestartReceive(2)))

-----------------------------------------------------------------------------
(* Type correctness of the parts.                                          *)
PartsTypeOK ==
  /\ TypeOK
  /\ which = "restore" => Rest!TypeOK
  /\ which = "streams" => Strm!TypeOK

(* What was removed does not come back. A removed container is gone for    *)
(* good: when the policy restarts nothing, no process is ever created for  *)
(* a container once it is Dead. A container whose removal began is never   *)
(* started again, whatever its restart policy and wherever the removal     *)
(* was cut short.                                                          *)
StaysRemoved ==
  /\ DeadStaysDead
  /\ Rest!RemovedStaysDown

(* Calls, exits and starts of the engine under fair scheduling. An API     *)
(* call returns, when nobody else operates the container. The exit of the  *)
(* process is noticed: Running does not outlive it for ever. Every start   *)
(* of the engine comes to an end: Restore does not wait for the events     *)
(* monitor while it holds the lock the monitor needs. The exit of a        *)
(* container is handled to the end, as long as every attached client       *)
(* reads on or leaves.                                                     *)
EngineProgress ==
  /\ CallsReturn
  /\ ExitNoticed
  /\ Rest!BootEnds
  /\ Strm!ExitHandled
=============================================================================
