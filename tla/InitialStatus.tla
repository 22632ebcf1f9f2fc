----------------------------- MODULE InitialStatus -----------------------------
(***************************************************************************)
(* The recovery decision of the certificate status checker: what to do     *)
(* with the local storage, given the last certificates the AggLayer and    *)
(* the local storage report (aggsender/statuschecker/initial_state.go).    *)
(*                                                                         *)
(* A header is a record with at least the fields "cert" (the certificate,  *)
(* which also stands for its ID: the ID is a hash of all its fields) and   *)
(* "status".  A nil pointer is NoCert.  An initial status is a record      *)
(*   [agglayerSettled, agglayerPending, local, localSettled].              *)
(***************************************************************************)
EXTENDS Naturals

CONSTANT NoCert

HeightOf(h) == h.cert.height

IsInError(h) == h.status = "InError"
IsSettled(h) == h.status = "Settled"
IsOpen(h)    == h.status = "Open"

(***************************************************************************)
(* Results of process(): the storage actions "None", "Update", "InsertNew" *)
(* and "Skip" (a nil result), and the two kinds of error: "Wait" (retried, *)
(* expected to clear by itself) and "Wipe" (manualDBWipeRequiredErrorf).   *)
(***************************************************************************)
Result(action, h) == [action |-> action, header |-> h]
Errors == {"Wait", "Wipe"}
IsError(result) == result.action \in Errors

manualDBWipeRequired == Result("Wipe", NoCert)

\* Whether the two certificates the AggLayer reports fit together.
checkAgglayerConsistenceCerts(i) ==
    \/ i.agglayerPending = NoCert
    \/ /\ i.agglayerSettled = NoCert
       /\ IsInError(i.agglayerPending) \/ HeightOf(i.agglayerPending) = 0
    \/ /\ i.agglayerSettled # NoCert
       /\ \/ HeightOf(i.agglayerPending) > HeightOf(i.agglayerSettled)
          \/ IsInError(i.agglayerSettled)

getLatestAggLayerCert(i) ==
    IF i.agglayerPending = NoCert THEN i.agglayerSettled ELSE i.agglayerPending

\* The first pending certificate, seen by an aggsender with nothing stored.
processFirstPending(pending) ==
    IF HeightOf(pending) = 0 THEN Result("InsertNew", pending)
    ELSE IF IsInError(pending) THEN Result("None", NoCert)
    ELSE Result("Wait", NoCert)

\* Mutant: the certificate IDs are not compared (case 4).
MutantCompareLastCerts(local, agglayer) ==
    IF HeightOf(agglayer) < HeightOf(local) THEN manualDBWipeRequired
    ELSE IF HeightOf(agglayer) = HeightOf(local) + 1 THEN Result("InsertNew", agglayer)
    ELSE Result("Update", agglayer)

\* Both sides have a certificate: cases 3.1, 3.2, 4 and 5, in this order.
compareLastCerts(local, agglayer) ==
    IF HeightOf(agglayer) < HeightOf(local) THEN manualDBWipeRequired
    ELSE IF HeightOf(agglayer) = HeightOf(local) + 1 THEN Result("InsertNew", agglayer)
    ELSE IF agglayer.cert # local.cert THEN manualDBWipeRequired
    ELSE Result("Update", agglayer)

processLastLocalCert(i) ==
    LET agglayer == getLatestAggLayerCert(i) IN
    IF i.local = NoCert /\ i.agglayerSettled = NoCert /\ i.agglayerPending # NoCert
    THEN processFirstPending(i.agglayerPending)
    ELSE IF i.local = NoCert /\ agglayer = NoCert THEN Result("None", NoCert)
    ELSE IF i.local = NoCert THEN Result("InsertNew", agglayer)
    ELSE IF agglayer = NoCert THEN manualDBWipeRequired
    ELSE compareLastCerts(i.local, agglayer)

\* Settled certificates on both sides: cases 4, 5.1, 5.2 and 6.
compareSettledCerts(local, agglayer) ==
    IF HeightOf(local) > HeightOf(agglayer) THEN manualDBWipeRequired
    ELSE IF HeightOf(local) < HeightOf(agglayer) THEN Result("InsertNew", agglayer)
    ELSE IF local.cert # agglayer.cert THEN manualDBWipeRequired
    ELSE Result("None", agglayer)

processLastSettledCert(i) ==
    IF i.agglayerPending = NoCert THEN Result("Skip", NoCert)
    ELSE IF i.agglayerSettled = NoCert
    THEN IF i.localSettled # NoCert THEN manualDBWipeRequired ELSE Result("None", NoCert)
    ELSE IF i.localSettled = NoCert THEN Result("InsertNew", i.agglayerSettled)
    ELSE compareSettledCerts(i.localSettled, i.agglayerSettled)

\* The storage actions to execute in order, or the one error that stops the check.
process(i) ==
    LET last    == processLastLocalCert(i)
        settled == processLastSettledCert(i)
    IN  IF ~checkAgglayerConsistenceCerts(i) THEN <<Result("Wait", NoCert)>>
        ELSE IF IsError(last) THEN <<last>>
        ELSE IF IsError(settled) THEN <<settled>>
        ELSE <<last, settled>>
=============================================================================
