------------------------------ MODULE Streams ------------------------------
(***************************************************************************)
(* A container's output on its way out: the goroutine that copies a run's  *)
(* fifo into the broadcaster (AttachStreams of the daemon), the            *)
(* broadcaster that hands each piece to every pipe in turn, the log copier *)
(* and the attached clients that read those pipes, and the exit and        *)
(* restart events that shut all of it down (Reset).                        *)
(*                                                                         *)
(* A piece of output is <<run, number>>.  A pipe is a BytesPipe seen       *)
(* through what it promises: in order, blocking when full, an error once   *)
(* closed.                                                                 *)
(***************************************************************************)
EXTENDS Naturals, Sequences, FiniteSets, SequencesExt

CONSTANTS
  Client,       \* attach requests
  PipeSize,     \* pieces a pipe holds before its writer waits
  Ops,          \* "loggerfails": a log driver may fail to start
  MaxRuns, MaxOut  \* bounds: runs of the container, pieces written in all

VARIABLES
  run, proc,    \* the run that was started last, and whether its process lives
  fifo,         \* output of each run not yet copied
  cp,           \* the copying goroutine of each run
  piece, at,    \* the piece being broadcast, and the index of the next writer
  evict,        \* indexes of writers that failed in this Write
  bmu,          \* Unbuffered.mu: the run whose copy holds it, or 0
  writers,      \* Unbuffered.writers
  queue, shut,  \* each pipe's contents, and the pipes that are closed
  driver,       \* the run whose LogDriver is open, or 0
  copier,       \* the log copier of each run
  log,          \* what the log driver has stored
  hpc, event,   \* StateChanged: its step and the event it handles
  late,         \* runs whose log copier was not waited for to the end
  att, seen,    \* each client's attach call and what it has been given
  cast          \* every piece whose broadcast has begun

vars == <<run, proc, fifo, cp, piece, at, evict, bmu, writers, queue, shut, driver,
          copier, log, hpc, event, late, att, seen, cast>>
source == <<run, proc>>
broadcast == <<piece, at, evict, bmu, cast>>
pipes == <<writers, queue, shut>>
logging == <<driver, copier, log, late>>
handler == <<hpc, event>>
clients == <<att, seen>>

Run == 1..MaxRuns
LogPipe(r) == r
Pipe == Run \cup Client
Piece == Run \X (1..MaxOut)
NoPiece == <<0, 0>>

TypeOK ==
  /\ run \in 0..MaxRuns /\ proc \in BOOLEAN
  /\ fifo \in [Run -> Seq(Piece)]
  /\ cp \in [Run -> {"none", "read", "write", "done"}]
  /\ piece \in Piece \cup {NoPiece} /\ at \in Nat /\ evict \subseteq Nat
  /\ bmu \in 0..MaxRuns
  /\ writers \in Seq(Pipe) /\ IsInjective(writers)
  /\ queue \in [Pipe -> Seq(Piece)] /\ shut \subseteq Pipe
  /\ driver \in 0..MaxRuns
  /\ copier \in [Run -> {"none", "reading", "done"}]
  /\ log \in Seq(Piece)
  /\ hpc \in {"idle", "wait", "clean", "logger", "cleanup"}
  /\ event \in {"none", "exit", "restart", "fail"}
  /\ late \subseteq Run
  /\ att \in [Client -> {"none", "copying", "ended"}]
  /\ seen \in [Client -> Seq(Piece)]
  /\ cast \in Seq(Piece)

Init ==
  /\ run = 0 /\ proc = FALSE
  /\ fifo = [r \in Run |-> <<>>] /\ cp = [r \in Run |-> "none"]
  /\ piece = NoPiece /\ at = 0 /\ evict = {} /\ bmu = 0
  /\ writers = <<>> /\ queue = [p \in Pipe |-> <<>>] /\ shut = {}
  /\ driver = 0 /\ copier = [r \in Run |-> "none"] /\ log = <<>> /\ late = {}
  /\ hpc = "idle" /\ event = "none"
  /\ att = [c \in Client |-> "none"] /\ seen = [c \in Client |-> <<>>]
  /\ cast = <<>>

----------------------------------------------------------------------------
\* AttachStreams of a start: StartLogging adds the logger's pipe and runs
\* the copier; then one goroutine copies the fifo.
AttachStreams ==
  /\ ~proc /\ hpc = "idle" /\ event \in {"none", "restart"} /\ run < MaxRuns /\ bmu = 0
  /\ LET r == run + 1
     IN  /\ run' = r /\ proc' = TRUE
         /\ writers' = Append(writers, LogPipe(r))
         /\ copier' = [copier EXCEPT ![r] = "reading"]
         /\ driver' = r
         /\ cp' = [cp EXCEPT ![r] = "read"]
  /\ UNCHANGED <<fifo, broadcast, queue, shut, log, late, handler, clients>>

\* The log driver cannot be started: Reset(false), and the start fails.
AttachStreamsFails ==
  /\ "loggerfails" \in Ops
  /\ ~proc /\ hpc = "idle" /\ event \in {"none", "restart"}
  /\ hpc' = "clean" /\ event' = "fail"
  /\ UNCHANGED <<source, fifo, cp, broadcast, pipes, logging, clients>>

Outputs == Len(cast) + Len(FlattenSeq(fifo))

Output ==
  /\ proc /\ Outputs < MaxOut
  /\ fifo' = [fifo EXCEPT ![run] = Append(@, <<run, Outputs + 1>>)]
  /\ UNCHANGED <<source, cp, broadcast, pipes, logging, handler, clients>>

\* The process ends; libcontainerd reports an exit, or a restart to come.
ProcessEnds(e) ==
  /\ proc /\ hpc = "idle"
  /\ proc' = FALSE
  /\ event' = e
  /\ hpc' = IF e = "exit" THEN "wait" ELSE "clean"
  /\ UNCHANGED <<run, fifo, cp, broadcast, pipes, logging, clients>>

----------------------------------------------------------------------------
\* io.Copy(s.Stdout(), iop.Stdout): read a piece and call Unbuffered.Write.
CopyRead(r) ==
  /\ cp[r] = "read" /\ fifo[r] /= <<>> /\ bmu = 0
  /\ bmu' = r
  /\ piece' = Head(fifo[r]) /\ fifo' = [fifo EXCEPT ![r] = Tail(@)]
  /\ cast' = Append(cast, Head(fifo[r]))
  /\ at' = 1 /\ evict' = {}
  /\ cp' = [cp EXCEPT ![r] = "write"]
  /\ UNCHANGED <<source, pipes, logging, handler, clients>>

\* The end of the fifo; s.Done().
CopyDone(r) ==
  /\ cp[r] = "read" /\ fifo[r] = <<>> /\ (r < run \/ ~proc)
  /\ cp' = [cp EXCEPT ![r] = "done"]
  /\ UNCHANGED <<source, fifo, broadcast, pipes, logging, handler, clients>>

\* A mutant of WriteOne: a full pipe is passed over.
WriteOneSkips(r) ==
  /\ cp[r] = "write" /\ at <= Len(writers)
  /\ queue' = IF writers[at] \in shut \/ Len(queue[writers[at]]) = PipeSize THEN queue
              ELSE [queue EXCEPT ![writers[at]] = Append(@, piece)]
  /\ evict' = IF writers[at] \in shut THEN evict \cup {at} ELSE evict
  /\ at' = at + 1
  /\ UNCHANGED <<source, fifo, cp, piece, bmu, cast, writers, shut, logging, handler, clients>>

\* sw.Write(p): it waits while the pipe is full and fails once it is closed.
WriteOne(r) ==
  /\ cp[r] = "write" /\ at <= Len(writers)
  /\ LET p == writers[at]
     IN  \/ /\ p \in shut
            /\ evict' = evict \cup {at}
            /\ UNCHANGED queue
         \/ /\ p \notin shut /\ Len(queue[p]) < PipeSize
            /\ queue' = [queue EXCEPT ![p] = Append(@, piece)]
            /\ UNCHANGED evict
  /\ at' = at + 1
  /\ UNCHANGED <<source, fifo, cp, piece, bmu, cast, writers, shut, logging, handler, clients>>

\* A mutant of Evict: the indexes are one too high.
EvictUnshifted(ws, gone) ==
  LET kept == SetToSortSeq(DOMAIN ws \ {i + 1 : i \in gone}, <)
  IN  [i \in DOMAIN kept |-> ws[kept[i]]]

\* The writers with an index in gone are cut out of the slice, one by one,
\* each index lowered by the number cut out before it.
Evict(ws, gone) ==
  LET kept == SetToSortSeq(DOMAIN ws \ gone, <)
  IN  [i \in DOMAIN kept |-> ws[kept[i]]]

WriteReturns(r) ==
  /\ cp[r] = "write" /\ at > Len(writers)
  /\ writers' = Evict(writers, evict)
  /\ bmu' = 0 /\ piece' = NoPiece /\ at' = 0 /\ evict' = {}
  /\ cp' = [cp EXCEPT ![r] = "read"]
  /\ UNCHANGED <<source, fifo, cast, queue, shut, logging, handler, clients>>

----------------------------------------------------------------------------
\* copySrc of the log copier: a line is logged, and lost when the driver has
\* been closed meanwhile; the end of the pipe ends it.
CopySrc(r) ==
  /\ copier[r] = "reading"
  /\ \/ /\ queue[LogPipe(r)] /= <<>>
        /\ queue' = [queue EXCEPT ![LogPipe(r)] = Tail(@)]
        /\ log' = IF driver = r THEN Append(log, Head(queue[LogPipe(r)])) ELSE log
        /\ UNCHANGED copier
     \/ /\ queue[LogPipe(r)] = <<>> /\ LogPipe(r) \in shut
        /\ copier' = [copier EXCEPT ![r] = "done"]
        /\ UNCHANGED <<queue, log>>
  /\ UNCHANGED <<source, fifo, cp, broadcast, writers, shut, driver, late, handler, clients>>

\* A mutant of Wait: the copying goroutines are not waited for.
WaitNot ==
  /\ hpc = "wait"
  /\ hpc' = "clean"
  /\ UNCHANGED <<source, fifo, cp, broadcast, pipes, logging, event, clients>>

\* A mutant of Wait: it waits for the log copier, which ends with its pipe.
WaitForLogger ==
  /\ hpc = "wait"
  /\ \A r \in Run : cp[r] \in {"none", "done"} /\ copier[r] \in {"none", "done"}
  /\ hpc' = "clean"
  /\ UNCHANGED <<source, fifo, cp, broadcast, pipes, logging, event, clients>>

\* StateExit: c.Wait() for every copying goroutine.
Wait ==
  /\ hpc = "wait"
  /\ \A r \in Run : cp[r] \in {"none", "done"}
  /\ hpc' = "clean"
  /\ UNCHANGED <<source, fifo, cp, broadcast, pipes, logging, event, clients>>

\* Reset, CloseStreams: Clean closes every writer and forgets them.
Clean ==
  /\ hpc = "clean" /\ bmu = 0
  /\ shut' = shut \cup Range(writers)
  /\ writers' = <<>>
  /\ hpc' = "logger"
  /\ UNCHANGED <<source, fifo, cp, broadcast, queue, logging, event, clients>>

\* Reset: the log copier has ten seconds, then its driver is closed; a start
\* that failed in StartLogging has none.
CloseLogger ==
  /\ hpc = "logger"
  /\ driver' = 0
  /\ late' = IF driver /= 0 /\ copier[driver] = "reading" THEN late \cup {driver} ELSE late
  /\ hpc' = IF event = "exit" THEN "cleanup" ELSE "idle"
  /\ UNCHANGED <<source, fifo, cp, broadcast, pipes, copier, log, event, clients>>

\* Cleanup: CancelAttachContext closes the pipes of every attach call.
Cleanup ==
  /\ hpc = "cleanup"
  /\ hpc' = "idle"
  /\ shut' = shut \cup {c \in Client : att[c] = "copying"}
  /\ UNCHANGED <<source, fifo, cp, broadcast, writers, queue, logging, event, clients>>

----------------------------------------------------------------------------
\* Attach: StdoutPipe adds a pipe to the broadcaster.
Attach(c) ==
  /\ att[c] = "none" /\ bmu = 0
  /\ att' = [att EXCEPT ![c] = "copying"]
  /\ writers' = Append(writers, c)
  /\ UNCHANGED <<source, fifo, cp, broadcast, queue, shut, logging, handler, seen>>

\* attachStream: io.Copy to the client.
ClientReads(c) ==
  /\ att[c] = "copying" /\ queue[c] /= <<>>
  /\ seen' = [seen EXCEPT ![c] = Append(@, Head(queue[c]))]
  /\ queue' = [queue EXCEPT ![c] = Tail(@)]
  /\ UNCHANGED <<source, fifo, cp, broadcast, writers, shut, logging, handler, att>>

\* The end of the pipe, or an error of the client's connection, after which
\* the pipe is closed and left.
ClientEnds(c) ==
  /\ att[c] = "copying"
  /\ att' = [att EXCEPT ![c] = "ended"]
  /\ shut' = shut \cup {c}
  /\ UNCHANGED <<source, fifo, cp, broadcast, writers, queue, logging, handler, seen>>

Next ==
  \/ AttachStreams \/ AttachStreamsFails \/ Output
  \/ \E e \in {"exit", "restart"} : ProcessEnds(e)
  \/ \E r \in Run : CopyRead(r) \/ CopyDone(r) \/ WriteOne(r) \/ WriteReturns(r) \/ CopySrc(r)
  \/ Wait \/ Clean \/ CloseLogger \/ Cleanup
  \/ \E c \in Client : Attach(c) \/ ClientReads(c) \/ ClientEnds(c)

Spec == Init /\ [][Next]_vars

\* The daemon's goroutines run on.  A client either keeps reading or goes
\* away: one that stalls for ever with a full pipe holds up the broadcaster,
\* and with it the exit of the container.
\* Every behaviour has finitely many steps of these, so fairness to all of
\* them together is fairness to each.
Steps ==
  \/ \E r \in Run : \/ CopyRead(r) \/ CopyDone(r) \/ WriteOne(r)
                   \/ WriteReturns(r) \/ CopySrc(r)
  \/ Wait \/ Clean \/ CloseLogger \/ Cleanup
  \/ \E c \in Client : ClientReads(c)

Fairness == WF_vars(Steps)

FairSpec == Spec /\ Fairness

----------------------------------------------------------------------------
Logged(r) == SelectSeq(log, LAMBDA p : p[1] = r)
Written(r) == SelectSeq(cast \o fifo[r], LAMBDA p : p[1] = r)

\* When the exit of a container has been handled, and its log copier needed
\* less than ten seconds, the log has the whole output of the last run, in
\* order: the handler waits for the copying goroutine before it closes the
\* pipes, and for the log copier before it closes the driver.
LoggedOnExit ==
  event = "exit" /\ hpc = "idle" /\ run \notin late => Logged(run) = Written(run)

\* A client has been given a section of what was broadcast without a gap,
\* whatever other clients were evicted or reset meanwhile.
NoGaps ==
  \A c \in Client :
    LET got == seen[c] \o queue[c]
    IN  \E i \in 0..Len(cast) : i + Len(got) <= Len(cast) /\ got = SubSeq(cast, i + 1, i + Len(got))

\* A client attached to a container that runs is one of the writers, until
\* its pipe is closed: no eviction hits the wrong writer.
AttachedIsServed ==
  bmu = 0 => \A c \in Client : att[c] = "copying" /\ c \notin shut => c \in Range(writers)

\* The exit of a container is handled to the end, as long as every attached
\* client reads on or leaves.
ExitHandled == hpc /= "idle" ~> hpc = "idle"
=============================================================================
