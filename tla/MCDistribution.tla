--------------------------- MODULE MCDistribution ---------------------------
(* Transfers, the download of a blob in several attempts, and the choice   *)
(* of an endpoint. The parts share no state; one of them takes the steps   *)
(* of a behaviour. Parts about which only safety is checked use the same   *)
(* variables v1, v2, ... in turn.                                          *)
EXTENDS Distribution, TLC

CONSTANTS
  c1, c2, x1, x2

VARIABLES
  which,   \* the part that takes the steps
  v1, v2, v3, v4, v5, v6, v7, v8, v9, v10, v11, v12, v13, v14

Bloe == INSTANCE BlobDownload WITH
  Size <- 2, maxDownloadAttempts <- 2, Ops <- {"seekfails", "writefails"},
  pc <- v1, file <- v2, verifier <- v3, offset <- v4, size <- v5,
  retries <- v6, tmp <- v7, result <- v8

Endp == INSTANCE Endpoints WITH
  Mirrors <- {<<>>, <<"m">>}, op <- v1, ref <- v2, endpoints <- v3, i <- v4,
  pc <- v5, confirmed <- v6, confirmedV2 <- v7, confirmedTLS <- v8,
  discardNoSupportErrors <- v9, lastErr <- v10, result <- v11, tried <- v12,
  knows <- v13, relevant <- v14

(* The proofs' hypotheses about the parameters hold of these instances.    *)
ASSUME PartsAssumption ==
  /\ Blobs!BlobParameters /\ Blobs!BlobFaultless
  /\ Bloe!BlobParameters

baseVars ==
  <<concurrencyLimit, activeTransfers, transfers, waitingTransfers, key,
    started, inactive, returned, cancelled, done, gone, closed,
    released, pc, xfer, want>>
blobsVars ==
  <<phase, file, verifier, offset, size, retries, tmp, result>>
slots ==
  <<v1, v2, v3, v4, v5, v6, v7, v8, v9, v10, v11, v12, v13, v14>>
allVars == <<which, baseVars, blobsVars, slots>>

AllInit ==
  /\ which \in {"transfers", "blob", "bloberrors", "endpoints"}
  /\ Init /\ (which # "transfers" => concurrencyLimit = 0)
  /\ Blobs!Init
  /\ \/ /\ which \in {"transfers", "blob"}
        /\ v1 = 0 /\ v2 = 0 /\ v3 = 0 /\ v4 = 0 /\ v5 = 0 /\ v6 = 0 /\ v7 = 0
        /\ v8 = 0 /\ v9 = 0 /\ v10 = 0 /\ v11 = 0 /\ v12 = 0 /\ v13 = 0
        /\ v14 = 0
     \/ which = "bloberrors" /\ Bloe!Init
        /\ v9 = 0 /\ v10 = 0 /\ v11 = 0 /\ v12 = 0 /\ v13 = 0 /\ v14 = 0
     \/ which = "endpoints" /\ Endp!Init

AllNext ==
  \/ which = "transfers" /\ Next
     /\ UNCHANGED <<which, blobsVars, slots>>
  \/ which = "blob" /\ Blobs!Next
     /\ UNCHANGED <<which, baseVars, slots>>
  \/ which = "bloberrors" /\ Bloe!Next
     /\ UNCHANGED <<which, baseVars, blobsVars, v9, v10, v11, v12, v13, v14>>
  \/ which = "endpoints" /\ Endp!Next
     /\ UNCHANGED <<which, baseVars, blobsVars>>

InTransfers(A) == which = "transfers" /\ A /\ UNCHANGED <<which, blobsVars, slots>>
InBlob(A) == which = "blob" /\ A /\ UNCHANGED <<which, baseVars, slots>>

(* The fairness of every part.  One part takes the steps, so a condition of *)
(* one and a condition of another are joined into one.                     *)
AllSpec ==
  /\ AllInit /\ [][AllNext]_allVars
  /\ WF_allVars(\/ InTransfers(Finish(x1))
                \/ InBlob(Blobs!Next))
  /\ WF_allVars(InTransfers(Finish(x2)))
  /\ WF_allVars(InTransfers(Forget(x1)))
  /\ WF_allVars(InTransfers(Forget(x2)))
  /\ SF_allVars(InTransfers(TryAgain(c1)))
  /\ SF_allVars(InTransfers(TryAgain(c2)))
  /\ SF_allVars(InTransfers(ManagerStep(x1)))
  /\ SF_allVars(InTransfers(ManagerStep(x2)))

-----------------------------------------------------------------------------
(* Type correctness of the parts.                                          *)
PartsTypeOK ==
  /\ TypeOK
  /\ which = "blob" => Blobs!TypeOK
  /\ which = "bloberrors" => Bloe!TypeOK
  /\ which = "endpoints" => Endp!TypeOK

(* What attempts at a registry learn, and leave behind when the disk       *)
(* fails. The error a pull returns is the relevant one: that a v1          *)
(* registry does not support a pull by digest is not reported when         *)
(* another endpoint has failed for another reason (Pull,                   *)
(* discardNoSupportErrors). "The v2 registry knows about this repository,  *)
(* so we will not allow fallback to the v1 protocol even if we encounter   *)
(* an error later on" (pullV2Repository): not at this endpoint and not at  *)
(* any later one. No temporary file outlives the download.                 *)
AttemptsSound ==
  /\ [](which = "endpoints" => Endp!ErrorIsRelevant)
  /\ [][(which = "endpoints" => Endp!V2StaysStep)]_allVars
  /\ [](which = "bloberrors" => Bloe!NoTemporaryLeft)

(* Transfers and downloads under fair scheduling. Every queued transfer    *)
(* starts, a cancelled one included: its function ends only after start.   *)
(* A call that found a cancelled transfer returns with another one,        *)
(* unless callers go on releasing for ever. A download that has begun      *)
(* ends, whatever the registry does.                                       *)
DistributionProgress ==
  /\ QueueMoves
  /\ CallReturns
  /\ Blobs!Ends
=============================================================================
