----------------------------- MODULE MCPlumbing -----------------------------
(* The named locks, byte pipes, event subscriptions and the layers of two  *)
(* pulls, each on a small instance. The parts share no state; one of them  *)
(* takes the steps of a behaviour. Locker has 3 goroutines and 2 names:    *)
(* two of them contend for a name while the third locks it anew or uses    *)
(* the other one. A goroutine uses one lockCtr at a time, so 3 addresses   *)
(* never run out.                                                          *)
EXTENDS Plumbing, TLC

CONSTANTS
  p1, p2, p3, l1, l2, s1

VARIABLES
  which,   \* the part that takes the steps
  buf, bufLen, pipeClosed, mu, waiting, wpc, rest, rpc, room, sent, out,
  eof, known, holders, inMap, st, cancelled, loadClosed, err, attempts,
  watchers, parent, source, pull, config, ctx

Everything == [s \in {s1} |-> {l1, l2}]

Pipe == INSTANCE BytesPipe WITH
  MinCap <- 1, MaxCap <- 2, BlockThreshold <- 3, MaxWrite <- 2,
  MaxRead <- 3, MaxBytes <- 5, closed <- pipeClosed

Load == INSTANCE LayerDownload WITH
  Pull <- {p1, p2}, Layers <- (p1 :> <<"a">> @@ p2 :> <<"a", "b">>),
  Gen <- {1, 2}, maxDownloadAttempts <- 1, Ops <- {}, Cancelled <- {p1},
  closed <- loadClosed

(* The proofs' hypotheses about the parameters hold of these instances.    *)
ASSUME PartsAssumption ==
  /\ Evts!EvtParameters

baseVars ==
  <<locks, waiters, owner, pc, name, nameLock, res>>
pipeVars ==
  <<buf, bufLen, pipeClosed, mu, waiting, wpc, rest, rpc, room, sent,
    out, eof>>
evtsVars ==
  <<clock, author, events, stored, emu, lpc, msg, sending, subs, chan,
    closed, spc, win, covered, buffered, received, skipped>>
loadVars ==
  <<known, holders, inMap, st, cancelled, loadClosed, err, attempts,
    watchers, parent, source, pull, config, ctx>>
allVars == <<which, baseVars, pipeVars, evtsVars, loadVars>>

AllInit ==
  /\ which \in {"locker", "pipe", "events", "layers"}
  /\ Init
  /\ Pipe!Init
  /\ Evts!Init
  /\ Load!Init

AllNext ==
  \/ which = "locker" /\ Next
     /\ UNCHANGED <<which, pipeVars, evtsVars, loadVars>>
  \/ which = "pipe" /\ Pipe!Next
     /\ UNCHANGED <<which, baseVars, evtsVars, loadVars>>
  \/ which = "events" /\ Evts!Next
     /\ UNCHANGED <<which, baseVars, pipeVars, loadVars>>
  \/ which = "layers" /\ Load!Next
     /\ UNCHANGED <<which, baseVars, pipeVars, evtsVars>>

InLocker(A) == which = "locker" /\ A /\ UNCHANGED <<which, pipeVars, evtsVars, loadVars>>
InPipe(A) == which = "pipe" /\ A /\ UNCHANGED <<which, baseVars, evtsVars, loadVars>>
InEvents(A) == which = "events" /\ A /\ UNCHANGED <<which, baseVars, pipeVars, loadVars>>
InLayers(A) == which = "layers" /\ A /\ UNCHANGED <<which, baseVars, pipeVars, evtsVars>>

(* The fairness of every part.  One part takes the steps, so a condition of *)
(* one and a condition of another are joined into one.                     *)
AllSpec ==
  /\ AllInit /\ [][AllNext]_allVars
  /\ WF_allVars(\/ InLocker(Acquire(p1) \/ Dec(p1) \/ \E n \in Name : pc[p1] = "held" /\ Unlock(p1, n))
                \/ InPipe(Pipe!Steps)
                \/ InEvents(Evts!Steps)
                \/ InLayers(Load!Steps))
  /\ WF_allVars(InLocker(Acquire(p2) \/ Dec(p2) \/ \E n \in Name : pc[p2] = "held" /\ Unlock(p2, n)))
  /\ WF_allVars(InLocker(Acquire(p3) \/ Dec(p3) \/ \E n \in Name : pc[p3] = "held" /\ Unlock(p3, n)))

-----------------------------------------------------------------------------
(* Type correctness of the parts.                                          *)
PartsTypeOK ==
  /\ TypeOK
  /\ which = "pipe" => Pipe!TypeOK
  /\ which = "events" => Evts!TypeOK
  /\ which = "layers" => Load!TypeOK

(* A byte pipe is a queue. What was read followed by what is buffered is   *)
(* what was written, in order, nothing lost or doubled across buffers,     *)
(* and bufLen is its length. The end is reported only after everything     *)
(* that was accepted was read. No wake-up is missed: with the mutex free   *)
(* the reader waits only while there is neither data nor an end to         *)
(* report, and the writer only while the threshold is reached. It needs    *)
(* slices no longer than BlockThreshold, as io.Copy's 32 KiB are against   *)
(* 1e6: a longer one fills the buffers and waits without having woken the  *)
(* reader.                                                                 *)
PipesSafe ==
  /\ which = "pipe" => Pipe!InOrder
  /\ which = "pipe" => Pipe!EndAfterData
  /\ which = "pipe" => Pipe!NoMissedWakeup

(* Locks, pipes, event streams and shared layers under fair scheduling.    *)
(* The holder's own Unlock never fails with ErrNoSuchLock. Somebody        *)
(* waiting for a name is not left waiting by everybody: the name is        *)
(* handed on (which waiter gets it is up to sync.Mutex, which is not       *)
(* FIFO). Write and Read do not wait on each other for ever: a call of     *)
(* Write returns, whatever it waits for, as long as the reader keeps       *)
(* reading. What is written is read: the reader catches up with the        *)
(* writer, who writes MaxBytes at most. A stalled subscriber does not      *)
(* hold up the engine: Log returns. Subscribe and Evict, which wait for    *)
(* every Publish, get the lock. The pulls end, and then the layer store    *)
(* keeps only what images hold: no transfer and no pull leaves a           *)
(* reference behind.                                                       *)
PlumbingProgress ==
  /\ HolderUnlockSucceeds
  /\ HandedOn
  /\ Pipe!WriteReturns
  /\ Pipe!DataArrives
  /\ Evts!LogReturns
  /\ Evts!RequestServed
  /\ Load!NothingLeaks
=============================================================================
