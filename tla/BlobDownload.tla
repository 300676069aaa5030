---------------------------- MODULE BlobDownload ----------------------------
(***************************************************************************)
(* distribution/pull_v2.go, v2LayerDescriptor: the download of one blob to *)
(* a temporary file by the attempts of the loop in xfer/download.go.  An   *)
(* attempt goes on where the one before stopped; the verifier, which hashes *)
(* what is received, has to cover exactly what the file holds.             *)
(*                                                                         *)
(* Of the bytes in the file and in the hash their number is kept, and      *)
(* whether they are the blob's.  The registry is external: it may break    *)
(* off, refuse a range, send something else, more or less than the blob.   *)
(***************************************************************************)
EXTENDS Naturals

CONSTANTS
  Size,                  \* bytes of the blob
  maxDownloadAttempts,
  Ops                    \* "seekfails": the end of the temporary file may not
                         \* be found; "writefails": it may take less than was read

VARIABLES
  pc,        \* "start", "open", "copy", "verify", "retry", "handed", "over"
  file,      \* the temporary file of the descriptor: [len, good], or NoFile
  verifier,  \* what the hash covers, or NoFile
  offset,    \* where the attempt began
  size,      \* what the registry said the size is; 0 is unknown
  retries,
  tmp,       \* temporary files on disk
  result     \* the file the download manager got, or NoFile

vars == <<pc, file, verifier, offset, size, retries, tmp, result>>

NoFile == [len |-> 0, good |-> FALSE]
Empty == [len |-> 0, good |-> TRUE]
Bytes == [len : 0..Size + 1, good : BOOLEAN]

TypeOK ==
  /\ pc \in {"start", "open", "copy", "verify", "retry", "handed", "failed", "over"}
  /\ file \in Bytes /\ verifier \in [len : 0..2 * (Size + 1), good : BOOLEAN] /\ result \in Bytes
  /\ offset \in 0..Size + 1 /\ size \in {0, Size}
  /\ retries \in 0..maxDownloadAttempts
  /\ tmp \in 0..1

Init ==
  /\ pc = "start" /\ file = NoFile /\ verifier = NoFile
  /\ offset = 0 /\ size = 0 /\ retries = 0 /\ tmp = 0 /\ result = NoFile

----------------------------------------------------------------------------
\* A mutant of Again: the attempts are not limited.
AgainForever == retries' = retries + 1 /\ pc' = "retry"

\* A mutant of Again: the attempts are not counted.
AgainUncounted == pc' = "retry" /\ UNCHANGED retries

\* The loop of makeDownloadFunc around an attempt that failed
Again ==
  /\ retries' = retries + 1
  /\ pc' = IF retries + 1 = maxDownloadAttempts THEN "failed" ELSE "retry"

DoNotRetry == pc' = "failed" /\ UNCHANGED retries

\* A mutant of truncateDownloadFile: the hash is kept.
truncateDownloadFileOnly == file' = Empty /\ UNCHANGED verifier

truncateDownloadFile == verifier' = NoFile /\ file' = Empty

truncateFails == "seekfails" \in Ops /\ verifier' = NoFile /\ DoNotRetry /\ UNCHANGED file

\* An attempt that cannot go on where the last one stopped.
StartOver == (truncateDownloadFile /\ Again) \/ truncateFails

\* The temporary file is made, or its end is where the attempt begins.
Begin ==
  /\ pc \in {"start", "retry"}
  /\ \/ /\ file = NoFile
        /\ file' = Empty /\ tmp' = 1 /\ offset' = 0
        /\ pc' = "open" /\ UNCHANGED retries
     \/ /\ file = NoFile
        /\ DoNotRetry /\ UNCHANGED <<file, tmp, offset>>
     \/ /\ file /= NoFile
        /\ offset' = file.len /\ pc' = "open"
        /\ UNCHANGED <<file, tmp, retries>>
     \/ /\ file /= NoFile /\ "seekfails" \in Ops
        /\ \/ file' = Empty /\ offset' = 0 /\ pc' = "open" /\ UNCHANGED <<tmp, retries>>
           \/ file' = NoFile /\ tmp' = 0 /\ DoNotRetry /\ UNCHANGED offset
  /\ UNCHANGED <<verifier, size, result>>

\* ld.open and the two Seeks: the offset is asked for, the size learnt, and a
\* file that is larger than the blob is started over.
Open ==
  /\ pc = "open"
  /\ \/ /\ Again \/ DoNotRetry
        /\ UNCHANGED <<file, verifier, offset, size>>
     \/ /\ offset /= 0
        /\ StartOver
        /\ UNCHANGED <<offset, size>>
     \/ \E s \in {0, Size} :
          /\ size' = s /\ pc' = "copy" /\ UNCHANGED retries
          /\ IF s /= 0 /\ offset > s
             THEN truncateDownloadFile /\ offset' = 0
             ELSE UNCHANGED <<file, verifier, offset>>
     \/ /\ offset > Size /\ truncateFails
        /\ UNCHANGED <<offset, size>>
  /\ UNCHANGED <<tmp, result>>

\* n bytes are read, w of them written to the file; a hash that is ahead of
\* the file or behind it is not the blob's any more.  Then the copy ends, breaks
\* off, or turns out not to be the range asked for.
Received(n, w, g) ==
  LET v == IF verifier = NoFile THEN Empty ELSE verifier
  IN  /\ verifier' = [len |-> v.len + n,
                       good |-> v.good /\ g /\ (n > 0 => v.len = file.len)]
      /\ file' = [len |-> file.len + w, good |-> file.good /\ (g \/ w = 0)]

Copy ==
  /\ pc = "copy"
  /\ \/ \E n \in 0..Size + 1 - file.len, g \in BOOLEAN :
          /\ n = 0 => g
          /\ \/ /\ Received(n, n, g)
                /\ \/ /\ size = 0 \/ file.len + n = Size
                      /\ pc' = "verify" /\ UNCHANGED retries
                   \/ Again \/ DoNotRetry
             \/ /\ "writefails" \in Ops /\ n > 0
                /\ Received(n, n - 1, g) /\ Again
     \/ offset /= 0 /\ StartOver
  /\ UNCHANGED <<offset, size, tmp, result>>

\* A mutant of Verified: only the length is compared.
VerifiedLength == verifier.len = Size

Verified == verifier = [len |-> Size, good |-> TRUE]

\* The file is handed to the download manager, which closes and removes it
\* after the registration.  What was resumed may be tried again.
Verify ==
  /\ pc = "verify"
  /\ \/ /\ Verified
        /\ result' = file /\ file' = NoFile
        /\ pc' = "handed" /\ UNCHANGED <<verifier, tmp, retries>>
     \/ /\ Verified
        /\ file' = NoFile /\ verifier' = NoFile /\ tmp' = 0
        /\ DoNotRetry /\ UNCHANGED result
     \/ /\ ~Verified /\ offset /= 0
        /\ StartOver
        /\ UNCHANGED <<tmp, result>>
     \/ /\ ~Verified /\ offset = 0
        /\ DoNotRetry
        /\ UNCHANGED <<file, verifier, tmp, result>>
  /\ UNCHANGED <<offset, size>>

\* The context is cancelled during an attempt or the delay before the next.
Cancel ==
  /\ pc \in {"open", "copy", "retry"}
  /\ DoNotRetry
  /\ UNCHANGED <<file, verifier, offset, size, tmp, result>>

\* A mutant of Close: only what was handed on is removed.
CloseKeepsFile ==
  /\ pc \in {"failed", "handed"}
  /\ tmp' = IF pc = "handed" THEN 0 ELSE tmp
  /\ pc' = "over"
  /\ UNCHANGED <<file, verifier, offset, size, retries, result>>

\* descriptor.Close, or the end of the registration
Close ==
  /\ pc \in {"failed", "handed"}
  /\ tmp' = IF file /= NoFile \/ pc = "handed" THEN 0 ELSE tmp
  /\ pc' = "over"
  /\ UNCHANGED <<file, verifier, offset, size, retries, result>>

Next == Begin \/ Open \/ Copy \/ Verify \/ Cancel \/ Close

Spec == Init /\ [][Next]_vars

Fairness == WF_vars(Next)

FairSpec == Spec /\ Fairness

----------------------------------------------------------------------------
\* What the download manager registers as the layer is the blob, all of it and
\* nothing else, over however many attempts it was received.
HandedIsBlob == pc = "handed" => result = [len |-> Size, good |-> TRUE]

\* The hash covers exactly what the temporary file holds whenever an attempt
\* begins: neither is cut back or replaced without the other.
VerifierInSync ==
  pc \in {"start", "retry"} /\ file /= NoFile =>
    \/ verifier = file
    \/ verifier = NoFile /\ file = Empty

\* No temporary file outlives the download.
NoTemporaryLeft == pc = "over" => tmp = 0

\* A download that has begun ends, whatever the registry does.
Ends == pc /= "start" ~> pc = "over"

\* What the download manager relies on.
BlobsSafe == HandedIsBlob /\ VerifierInSync /\ NoTemporaryLeft

\* A blob is not empty, and there is an attempt.
BlobParameters == Size \in Nat \ {0} /\ maxDownloadAttempts \in Nat \ {0}

\* The local file system does not fail.
BlobFaultless == "seekfails" \notin Ops /\ "writefails" \notin Ops

=============================================================================
