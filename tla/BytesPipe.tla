----------------------------- MODULE BytesPipe -----------------------------
(***************************************************************************)
(* ioutils.BytesPipe, through which a container's output reaches an        *)
(* attached client: a queue of growing fixed-size buffers between a writer *)
(* that waits while too much is buffered and a reader that waits while     *)
(* nothing is.  Both wait on one condition variable, so every wake-up      *)
(* depends on who calls Broadcast and when.                                *)
(*                                                                         *)
(* One goroutine writes and one reads, as in the repository's uses; any    *)
(* goroutine may close.  Bytes are numbered in the order they are written. *)
(***************************************************************************)
EXTENDS Naturals, Sequences, SequencesExt

CONSTANTS
  MinCap, MaxCap,    \* minCap and maxCap of a buffer
  BlockThreshold,    \* blockThreshold
  MaxWrite,          \* the longest slice passed to Write
  MaxRead,           \* the longest slice passed to Read
  MaxBytes           \* bound: bytes written in all

VARIABLES
  buf,        \* bp.buf: buffers with their capacity, contents and read index
  bufLen,     \* bp.bufLen
  closed,     \* bp.closeErr is set
  mu,         \* bp.mu: "free", "writer" or "reader"
  waiting,    \* goroutines in bp.wait
  wpc, rest,  \* the writer, and what it has still to write
  rpc, room,  \* the reader, and how much of its slice is free
  sent,       \* bytes put into buffers so far
  out,        \* what the reader has been given
  eof         \* the reader has been told of the end

vars == <<buf, bufLen, closed, mu, waiting, wpc, rest, rpc, room, sent, out, eof>>
writer == <<wpc, rest>>
reader == <<rpc, room, out, eof>>

Buffer == [cap : MinCap..MaxCap, data : Seq(1..MaxBytes), lastRead : Nat]
NewBuffer(c) == [cap |-> c, data |-> <<>>, lastRead |-> 0]

\* A mutant of Space: every buffer is taken to be of the largest size.
SpaceMax(b) == MaxCap - Len(b.data)

\* What a buffer still takes: fixedBuffer.Write
Space(b) == b.cap - Len(b.data)
Unread(b) == SubSeq(b.data, b.lastRead + 1, Len(b.data))

TypeOK ==
  /\ \A i \in DOMAIN buf : /\ buf[i] \in Buffer
                           /\ Len(buf[i].data) <= buf[i].cap
                           /\ buf[i].lastRead <= Len(buf[i].data)
  /\ bufLen \in 0..MaxBytes
  /\ closed \in BOOLEAN
  /\ mu \in {"free", "writer", "reader"}
  /\ waiting \subseteq {"writer", "reader"}
  /\ wpc \in {"idle", "loop", "full", "wait", "failed"}
  /\ rest \in Seq(1..MaxBytes)
  /\ rpc \in {"idle", "copy", "wait"}
  /\ room \in 0..MaxRead
  /\ sent \in 0..MaxBytes
  /\ out \in Seq(1..MaxBytes)
  /\ eof \in BOOLEAN

\* NewBytesPipe
Init ==
  /\ buf = <<NewBuffer(MinCap)>>
  /\ bufLen = 0
  /\ closed = FALSE
  /\ mu = "free"
  /\ waiting = {}
  /\ wpc = "idle" /\ rest = <<>>
  /\ rpc = "idle" /\ room = 0
  /\ sent = 0
  /\ out = <<>>
  /\ eof = FALSE

Broadcast == waiting' = {}

\* bp.wait.Wait: the mutex is given up and taken again once woken.
Wait(who) ==
  /\ waiting' = waiting \cup {who}
  /\ mu' = "free"

----------------------------------------------------------------------------
WriteCall(n) ==
  /\ wpc = "idle" /\ mu = "free"
  /\ sent + n <= MaxBytes
  /\ mu' = "writer"
  /\ rest' = [i \in 1..n |-> sent + i]
  /\ wpc' = "loop"
  /\ UNCHANGED <<buf, bufLen, closed, waiting, sent, reader>>

\* A mutant of WriteLoop: the readers are not woken.
WriteLoopQuiet ==
  /\ wpc = "loop" /\ mu = "writer"
  /\ LET bs == IF buf = <<>> THEN <<NewBuffer(MinCap)>> ELSE buf
         b == Last(bs)
         space == Space(b)
         n == IF space < Len(rest) THEN space ELSE Len(rest)
     IN  /\ buf' = Append(Front(bs), [b EXCEPT !.data = @ \o SubSeq(rest, 1, n)])
         /\ bufLen' = bufLen + n
         /\ sent' = sent + n
         /\ rest' = SubSeq(rest, n + 1, Len(rest))
         /\ mu' = IF n = Len(rest) THEN "free" ELSE mu
         /\ wpc' = IF n = Len(rest) THEN "idle" ELSE "full"
  /\ UNCHANGED <<closed, waiting, reader>>

\* One turn of loop0 up to the point where the slice is used up or the last
\* buffer is full; then Broadcast and return, or on to the threshold.  A
\* writer that gets ErrClosed (io.Copy, the broadcaster) writes no more.
WriteLoop ==
  /\ wpc = "loop" /\ mu = "writer"
  /\ IF closed
     THEN /\ mu' = "free" /\ wpc' = "failed" /\ rest' = <<>>
          /\ UNCHANGED <<buf, bufLen, waiting, sent>>
     ELSE LET bs == IF buf = <<>> THEN <<NewBuffer(MinCap)>> ELSE buf
              b == Last(bs)
              space == Space(b)
              n == IF space < Len(rest) THEN space ELSE Len(rest)
          IN  /\ buf' = Append(Front(bs), [b EXCEPT !.data = @ \o SubSeq(rest, 1, n)])
              /\ bufLen' = bufLen + n
              /\ sent' = sent + n
              /\ rest' = SubSeq(rest, n + 1, Len(rest))
              /\ IF n = Len(rest)
                 THEN mu' = "free" /\ wpc' = "idle" /\ Broadcast
                 ELSE wpc' = "full" /\ UNCHANGED <<mu, waiting>>
  /\ UNCHANGED <<closed, reader>>

\* The writer waits while the threshold is reached, without a Broadcast of
\* its own, and then adds a buffer twice the size of the last it filled.
WriteFull ==
  /\ wpc = "full" /\ mu = "writer"
  /\ IF bufLen >= BlockThreshold
     THEN Wait("writer") /\ wpc' = "wait" /\ UNCHANGED buf
     ELSE /\ LET c == IF buf = <<>> THEN MinCap ELSE Last(buf).cap
             IN buf' = Append(buf, NewBuffer(IF 2 * c > MaxCap THEN MaxCap ELSE 2 * c))
          /\ wpc' = "loop"
          /\ UNCHANGED <<mu, waiting>>
  /\ UNCHANGED <<bufLen, closed, rest, sent, reader>>

WriteWoken ==
  /\ wpc = "wait" /\ "writer" \notin waiting /\ mu = "free"
  /\ mu' = "writer"
  /\ wpc' = IF closed THEN "loop" ELSE "full"
  /\ UNCHANGED <<buf, bufLen, closed, waiting, rest, sent, reader>>

\* A mutant of CloseWithError: nobody is woken.
CloseQuiet ==
  /\ mu = "free"
  /\ ~closed
  /\ closed' = TRUE
  /\ UNCHANGED <<buf, bufLen, mu, waiting, sent, writer, reader>>

\* CloseWithError and Close, by whoever ends the stream
CloseWithError ==
  /\ mu = "free"
  /\ ~closed
  /\ closed' = TRUE
  /\ Broadcast
  /\ UNCHANGED <<buf, bufLen, mu, sent, writer, reader>>

----------------------------------------------------------------------------
\* A mutant of ReadCall: the end is reported before what is left.
ReadCallEnds(n) ==
  /\ rpc = "idle" /\ mu = "free" /\ ~eof
  /\ IF closed
     THEN eof' = TRUE /\ UNCHANGED <<mu, waiting, rpc, room>>
     ELSE /\ IF bufLen > 0
             THEN mu' = "reader" /\ rpc' = "copy" /\ UNCHANGED waiting
             ELSE Wait("reader") /\ rpc' = "wait"
          /\ room' = n
          /\ UNCHANGED eof
  /\ UNCHANGED <<buf, bufLen, closed, writer, sent, out>>

\* Read with a slice of n bytes: it waits at most once.
ReadCall(n) ==
  /\ rpc = "idle" /\ mu = "free" /\ ~eof
  /\ \/ /\ bufLen > 0
        /\ mu' = "reader" /\ rpc' = "copy" /\ room' = n
        /\ UNCHANGED <<waiting, eof>>
     \/ /\ bufLen = 0 /\ closed
        /\ eof' = TRUE
        /\ UNCHANGED <<mu, waiting, rpc, room>>
     \/ /\ bufLen = 0 /\ ~closed
        /\ Wait("reader") /\ rpc' = "wait" /\ room' = n
        /\ UNCHANGED eof
  /\ UNCHANGED <<buf, bufLen, closed, writer, sent, out>>

ReadWoken ==
  /\ rpc = "wait" /\ "reader" \notin waiting /\ mu = "free"
  /\ IF bufLen = 0 /\ closed
     THEN /\ eof' = TRUE /\ rpc' = "idle" /\ room' = 0
          /\ UNCHANGED mu
     ELSE /\ mu' = "reader" /\ rpc' = "copy"
          /\ UNCHANGED <<room, eof>>
  /\ UNCHANGED <<buf, bufLen, closed, waiting, writer, sent, out>>

\* A mutant of ReadCopy: the read index of a buffer stays.
ReadCopyAgain ==
  /\ rpc = "copy" /\ mu = "reader"
  /\ bufLen > 0 /\ room > 0
  /\ LET b == Head(buf)
         n == IF room < Len(Unread(b)) THEN room ELSE Len(Unread(b))
     IN  /\ out' = out \o SubSeq(Unread(b), 1, n)
         /\ bufLen' = bufLen - n
         /\ room' = room - n
         /\ buf' = IF n = Len(Unread(b)) THEN Tail(buf) ELSE buf
  /\ UNCHANGED <<closed, mu, waiting, rpc, eof, writer, sent>>

\* One turn of the copy loop; a buffer read to its end is dropped, also when
\* it was not full.
ReadCopy ==
  /\ rpc = "copy" /\ mu = "reader"
  /\ bufLen > 0 /\ room > 0
  /\ LET b == Head(buf)
         n == IF room < Len(Unread(b)) THEN room ELSE Len(Unread(b))
     IN  /\ out' = out \o SubSeq(Unread(b), 1, n)
         /\ bufLen' = bufLen - n
         /\ room' = room - n
         /\ buf' = IF n = Len(Unread(b)) THEN Tail(buf)
                   ELSE [buf EXCEPT ![1].lastRead = @ + n]
  /\ UNCHANGED <<closed, mu, waiting, rpc, eof, writer, sent>>

\* A mutant of ReadReturn: a waiting writer is not woken.
ReadReturnQuiet ==
  /\ rpc = "copy" /\ mu = "reader"
  /\ bufLen = 0 \/ room = 0
  /\ mu' = "free" /\ rpc' = "idle" /\ room' = 0
  /\ UNCHANGED <<buf, bufLen, closed, waiting, writer, sent, out, eof>>

ReadReturn ==
  /\ rpc = "copy" /\ mu = "reader"
  /\ bufLen = 0 \/ room = 0
  /\ mu' = "free" /\ rpc' = "idle" /\ room' = 0
  /\ Broadcast
  /\ UNCHANGED <<buf, bufLen, closed, writer, sent, out, eof>>

Next ==
  \/ \E n \in 1..MaxWrite : WriteCall(n)
  \/ WriteLoop \/ WriteFull \/ WriteWoken
  \/ CloseWithError
  \/ \E n \in 1..MaxRead : ReadCall(n)
  \/ ReadWoken \/ ReadCopy \/ ReadReturn

Spec == Init /\ [][Next]_vars

\* A goroutine inside Write or Read runs on, and the reader (an io.Copy)
\* calls Read until it is told of the end.
\* Every behaviour has finitely many steps of these, so fairness to all of
\* them together is fairness to each.
Steps ==
  \/ WriteLoop \/ WriteFull \/ WriteWoken
  \/ ReadWoken \/ ReadCopy \/ ReadReturn
  \/ (bufLen > 0 \/ closed) /\ \E n \in 1..MaxRead : ReadCall(n)

Fairness == WF_vars(Steps)

FairSpec == Spec /\ Fairness

----------------------------------------------------------------------------
Buffered == FlattenSeq([i \in DOMAIN buf |-> Unread(buf[i])])

\* What was read followed by what is buffered is what was written, in order,
\* nothing lost or doubled across buffers, and bufLen is its length.
InOrder ==
  /\ out \o Buffered = [i \in 1..sent |-> i]
  /\ bufLen = Len(Buffered)

\* The end is reported only after everything that was accepted was read.
EndAfterData == eof => Len(out) = sent

\* No wake-up is missed: with the mutex free the reader waits only while
\* there is neither data nor an end to report, and the writer only while
\* the threshold is reached.  It needs slices no longer than BlockThreshold,
\* as io.Copy's 32 KiB are against 1e6: a longer one fills the buffers and
\* waits without having woken the reader.
NoMissedWakeup ==
  mu = "free" =>
    /\ "reader" \in waiting => ~closed /\ bufLen = 0
    /\ "writer" \in waiting => ~closed /\ bufLen >= BlockThreshold

\* Write and Read do not wait on each other for ever: a call of Write
\* returns, whatever it waits for, as long as the reader keeps reading.
WriteReturns == wpc \notin {"idle", "failed"} ~> wpc \in {"idle", "failed"}

\* What is written is read: the reader catches up with the writer, who
\* writes MaxBytes at most.
DataArrives == sent > Len(out) ~> sent = Len(out)
=============================================================================
