---------------------------- MODULE Distribution ----------------------------
(***************************************************************************)
(* What a pull is made of, side by side: the transfers the callers share   *)
(* (distribution/xfer) and the download of one blob over several attempts  *)
(* (distribution/pull_v2.go).  They share no state; the transfers are      *)
(* extended, the download is an instance.                                  *)
(***************************************************************************)
EXTENDS TransferManager

CONSTANTS
  Size, maxDownloadAttempts,
  Ops           \* which calls of the file system may fail

VARIABLES phase, file, verifier, offset, size, retries, tmp, result

Blobs == INSTANCE BlobDownload WITH pc <- phase

\* What a download hands on.  What the download manager registers as the layer
\* is the blob, all of it and nothing else, over however many attempts it was
\* received.  The hash covers exactly what the temporary file holds whenever
\* an attempt begins: neither is cut back or replaced without the other.  No
\* temporary file outlives the download.
BlobsSafe == Blobs!BlobsSafe
=============================================================================
