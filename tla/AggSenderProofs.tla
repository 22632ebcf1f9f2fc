---------------------------- MODULE AggSenderProofs ----------------------------
(***************************************************************************)
(* Proofs about AggSender, for every value of its constants.               *)
(***************************************************************************)
EXTENDS AggSender, TLAPS

-----------------------------------------------------------------------------
(***************************************************************************)
(* The inductive invariant.                                                *)
(***************************************************************************)

\* lerAt and lastClaimAt name the last bridge exit and the last claim up to a block.
IsLastUpTo(set, n, last) ==
    /\ last \in set \cup {0} /\ last <= n
    /\ \A m \in set : m <= n => m <= last

IsLastIn(set, at) == \A n \in 0..tip : IsLastUpTo(set, n, at[n])

L2Inv == IsLastIn(bridges, lerAt) /\ IsLastIn(claims, lastClaimAt)

\* The AggLayer's settled certificates.
SettledInv ==
    /\ \A i \in 1..Len(settled) : settled[i].height = i - 1
    /\ settled = <<>> => settledIbe = 0
    /\ SettledBoundary <= tip
    /\ NothingSkipped

\* cert is what BuildCertificate makes of the blocks from..to after the settled ones.
Follows(cert, from, to) ==
    /\ from = SettledBoundary + 1 /\ to \in from..tip
    /\ cert.prev = LastSettledLER
    /\ cert.bridges = BlocksIn(bridges, from, to)
    /\ cert.ibes = BlocksIn(claims, from, to)
    /\ cert.new = IF cert.bridges = {} THEN LastSettledLER ELSE lerAt[to]
    /\ cert.lastIbe = IF cert.ibes = {} THEN 0 ELSE lastClaimAt[to]

\* The AggLayer's undecided certificate, and the one about to be sent unless outdated.
PendingInv ==
    pending # NoCert =>
       /\ pending.status \in {"Open", "InError"}
       /\ pending.cert.height = Len(settled)
       /\ \E to \in 0..tip : Follows(pending.cert, SettledBoundary + 1, to)

ParamsInv ==
    params # NoCert =>
       /\ params.status = "Open"
       /\ params.from > 0
       /\ params.cert.height <= Len(settled)
       /\ params.cert.height = Len(settled) => Follows(params.cert, params.from, params.to)

IsSettledCert(cert) == cert.height < Len(settled) /\ settled[cert.height + 1] = cert

SeenInv == seen # NoCert => IsSettled(seen) /\ IsSettledCert(seen.cert)

\* A row that is not settled is outdated, or starts right after the settled blocks.
RowInv(row) ==
    /\ IsSettled(row) => IsSettledCert(row.cert)
    /\ ~IsSettled(row) =>
          /\ row.from > 0
          /\ row.cert.height <= Len(settled)
          /\ row.cert.height = Len(settled) =>
                row.from = SettledBoundary + 1 /\ row.cert.prev = LastSettledLER

StorageInv == \A row \in db.info : RowInv(row)

IInv == TypeOK /\ L2Inv /\ SettledInv /\ PendingInv /\ ParamsInv /\ SeenInv /\ StorageInv

-----------------------------------------------------------------------------
(***************************************************************************)
(* Lemmas about the recovery decision and the storage operations.          *)
(***************************************************************************)

\* What process() may ask of the storage: an update is for the local certificate with the
\* status the AggLayer reports for it, an insertion is of a certificate of the AggLayer.
GoodResult(result, i) ==
    /\ result.action \in {"InsertNew", "Update"} =>
          /\ result.header \in {i.agglayerSettled, i.agglayerPending}
          /\ result.header # NoCert
    /\ result.action = "Update" => i.local # NoCert /\ result.header.cert = i.local.cert

\* process() returns one error or two good results, for whatever the two sides report.
LEMMA ProcessResults ==
    ASSUME NEW i
    PROVE  LET results == process(i) IN
           /\ \/ DOMAIN results = 1..1 /\ IsError(results[1])
              \/ DOMAIN results = 1..2 /\ ~IsError(results[1]) /\ ~IsError(results[2])
           /\ \A k \in DOMAIN results : GoodResult(results[k], i)
           /\ DOMAIN results = 1..2 => results[2].action # "Update"
  <1> DEFINE last == processLastLocalCert(i)
             old == processLastSettledCert(i)
  <1>1. GoodResult(last, i)
    BY Zenon DEF processLastLocalCert, processFirstPending, compareLastCerts, Result,
       manualDBWipeRequired, GoodResult, getLatestAggLayerCert
  <1>2. GoodResult(old, i) /\ old.action # "Update"
    BY DEF processLastSettledCert, compareSettledCerts, Result, manualDBWipeRequired, GoodResult
  <1>3. GoodResult(Result("Wait", NoCert), i) /\ IsError(Result("Wait", NoCert))
    BY DEF Result, GoodResult, IsError, Errors
  <1> HIDE DEF last, old
  <1> QED
    BY <1>1, <1>2, <1>3 DEF process, last, old

\* A status update keeps every row but for the status of those of the given ID.
LEMMA UpdateRows ==
    ASSUME NEW storage \in Storage, NEW cert, NEW status \in Statuses
    PROVE  /\ UpdateCertificateStatus(storage, cert, status) \in Storage
           /\ \A new \in UpdateCertificateStatus(storage, cert, status).info :
                 \E old \in storage.info :
                    \/ new = old
                    \/ old.cert = cert /\ new = [old EXCEPT !.status = status]
  BY DEF UpdateCertificateStatus, Storage, Row

\* A status refresh keeps every row but for the status of the given open ones.
LEMMA RefreshRows ==
    ASSUME NEW storage \in Storage, NEW rows,
           \A cert \in Certificate : AgglayerStatus(cert) \in Statuses
    PROVE  /\ RefreshStatuses(storage, rows) \in Storage
           /\ \A new \in RefreshStatuses(storage, rows).info :
                 \E old \in storage.info :
                    \/ new = old
                    \/ old \in rows /\ new = [old EXCEPT !.status = AgglayerStatus(old.cert)]
  BY DEF RefreshStatuses, Storage, Row

\* The retention policy only removes rows, or moves them to the history.
LEMMA OnNewCertRows ==
    ASSUME NEW storage \in Storage, NEW height, NEW retryCount
    PROVE  /\ OnNewCert(storage, height, retryCount) \in Storage
           /\ OnNewCert(storage, height, retryCount).info \subseteq storage.info
  BY DEF OnNewCert, MoveCertificateToHistory, DeleteCertificate, DeleteOldCertificates, RowsAt, Storage

\* Storing a sent certificate adds its row and no other.
LEMMA SaveRows ==
    ASSUME NEW storage \in Storage, NEW row \in Row
    PROVE  /\ SaveLastSentCertificate(storage, row) \in Storage
           /\ SaveLastSentCertificate(storage, row).info \subseteq storage.info \cup {row}
  <1>1. /\ OnNewCert(storage, HeightOf(row), row.retryCount) \in Storage
        /\ OnNewCert(storage, HeightOf(row), row.retryCount).info \subseteq storage.info
    BY OnNewCertRows
  <1> QED
    BY <1>1 DEF SaveLastSentCertificate, Storage

\* Storing a settled certificate of the AggLayer adds its row or updates the row of its ID.
LEMMA SaveOrUpdateRows ==
    ASSUME NEW storage \in Storage, NEW row \in Row
    PROVE  /\ SaveOrUpdateCertificate(storage, row) \in Storage
           /\ \A new \in SaveOrUpdateCertificate(storage, row).info :
                 \/ new = row
                 \/ \E old \in storage.info :
                       \/ new = old
                       \/ old.cert = row.cert /\ new = [old EXCEPT !.status = row.status]
  <1>1. CASE RowsAt(storage.info, HeightOf(row)) = {}
    BY <1>1 DEF SaveOrUpdateCertificate, Storage
  <1>2. CASE RowsAt(storage.info, HeightOf(row)) # {}
    <2>1. row.status \in Statuses
      BY DEF Row
    <2>2. SaveOrUpdateCertificate(storage, row) = UpdateCertificateStatus(storage, row.cert, row.status)
      BY <1>2 DEF SaveOrUpdateCertificate
    <2> QED
      BY <2>1, <2>2, UpdateRows
  <1> QED
    BY <1>1, <1>2

\* new is a row of the storage, one that has taken the status of a header, or a new one
\* for a settled header.
OfHeaders(storage, headers, new) ==
    \/ new \in storage.info
    \/ \E old \in storage.info, h \in headers :
          old.cert = h.cert /\ new = [old EXCEPT !.status = h.status]
    \/ \E h \in headers : IsSettled(h) /\ new = newSettledCertificateInfo(h)

\* Executing a good result adds the row of a settled certificate of the AggLayer, or
\* gives a row the status the AggLayer reports for its certificate.
LEMMA ExecuteRows ==
    ASSUME settledIbe \in 0..MaxBlock,
           NEW storage \in Storage, NEW headers \in SUBSET Header,
           NEW result, NEW local,
           result.action \in {"InsertNew", "Update"} => result.header \in headers,
           result.action = "Update" => result.header.cert = local.cert
    PROVE  LET after == executeInitialStatusAction(storage, result, local) IN
           /\ after \in Storage
           /\ \A new \in after.info : OfHeaders(storage, headers, new)
  <1>1. CASE result.action = "Update"
    <2>1. result.header \in headers /\ result.header \in Header /\ result.header.status \in Statuses
      BY <1>1 DEF Header
    <2>2. executeInitialStatusAction(storage, result, local)
             = UpdateCertificateStatus(storage, result.header.cert, result.header.status)
      BY <1>1 DEF executeInitialStatusAction
    <2> QED
      BY <2>1, <2>2, UpdateRows DEF OfHeaders
  <1>2. CASE result.action = "InsertNew" /\ IsSettled(result.header)
    <2>1. result.header \in headers /\ result.header \in Header
      BY <1>2
    <2> DEFINE row == newSettledCertificateInfo(result.header)
    <2>2. row \in Row /\ row.cert = result.header.cert /\ row.status = result.header.status
      BY <2>1, BoundsAssumption
         DEF newSettledCertificateInfo, GetLastSettledCertificateToBlock, Max2, Row, Header, Certificate
    <2>3. executeInitialStatusAction(storage, result, local) = SaveOrUpdateCertificate(storage, row)
      BY <1>2 DEF executeInitialStatusAction
    <2> HIDE DEF row
    <2>4. /\ SaveOrUpdateCertificate(storage, row) \in Storage
          /\ \A new \in SaveOrUpdateCertificate(storage, row).info :
                 \/ new = row
                 \/ \E old \in storage.info :
                       \/ new = old
                       \/ old.cert = row.cert /\ new = [old EXCEPT !.status = row.status]
      BY <2>2, SaveOrUpdateRows
    <2> QED
      BY <1>2, <2>1, <2>2, <2>3, <2>4 DEF row, OfHeaders
  <1>3. CASE result.action # "Update" /\ ~(result.action = "InsertNew" /\ IsSettled(result.header))
    BY <1>3 DEF executeInitialStatusAction, OfHeaders
  <1> QED
    BY <1>1, <1>2, <1>3

\* The status the AggLayer reports is a status.
LEMMA AgglayerStatusType ==
    ASSUME pending \in Header \cup {NoCert}, NEW cert
    PROVE  AgglayerStatus(cert) \in Statuses
  BY DEF AgglayerStatus, Header, Statuses

-----------------------------------------------------------------------------
(***************************************************************************)
(* Type correctness.                                                       *)
(***************************************************************************)
USE BoundsAssumption

\* The initial state is well typed.
LEMMA TypeInit == Init => TypeOK
  BY DEF Init, TypeOK, L2TypeOK, AgglayerTypeOK, ProcessTypeOK, Storage, EmptyStorage, InitialLER

\* A new L2 block keeps the types.
LEMMA SyncL2Types == L2TypeOK /\ SyncL2Block => L2TypeOK'
  <1> SUFFICES ASSUME L2TypeOK, SyncL2Block PROVE L2TypeOK'
    OBVIOUS
  <1>1. leafCount' \in 0..MaxLeafCount
    BY DEF L2TypeOK, SyncL2Block
  <1>2. tip \in Nat /\ tip < MaxBlock /\ tip' = tip + 1 /\ tip' \in 0..MaxBlock
    BY DEF SyncL2Block, L2TypeOK
  <1>3. PICK exits \in SUBSET {tip + 1}, imports \in SUBSET {tip + 1} : StoreEvents(exits, imports)
    BY DEF SyncL2Block
  <1>4. bridges' \subseteq 1..tip' /\ claims' \subseteq 1..tip'
    <2>1. \A n \in 1..tip : n \in 1..(tip + 1)
      BY <1>2
    <2>2. tip + 1 \in 1..(tip + 1)
      BY <1>2
    <2> QED
      BY <1>3, <1>2, <2>1, <2>2, Zenon DEF L2TypeOK, StoreEvents
  <1>5. lerAt' \in [0..MaxBlock -> 0..MaxBlock]
    BY <1>2, <1>3, Zenon DEF L2TypeOK, StoreEvents
  <1>6. lastClaimAt' \in [0..MaxBlock -> 0..MaxBlock]
    BY <1>2, <1>3, Zenon DEF L2TypeOK, StoreEvents
  <1> QED
    BY <1>1, <1>2, <1>4, <1>5, <1>6, Zenon DEF L2TypeOK

\* A step of the environment (syncers, AggLayer) keeps the types.
LEMMA TypeEnvironment == TypeOK /\ Environment => TypeOK'
  <1> SUFFICES ASSUME TypeOK, Environment PROVE TypeOK'
    OBVIOUS
  <1> USE DEF TypeOK
  <1>1. CASE SyncL2Block
    <2>1. L2TypeOK'
      BY <1>1, SyncL2Types
    <2>2. UNCHANGED <<agglayerVars, db, alarm, pc, memory, faults>>
      BY <1>1 DEF SyncL2Block
    <2> QED
      BY <2>1, <2>2 DEF agglayerVars, memory, AgglayerTypeOK, ProcessTypeOK
  <1>2. CASE FinalizeL1InfoRoot
    <2>1. leafCount' \in 0..MaxLeafCount
      BY <1>2 DEF FinalizeL1InfoRoot, L2TypeOK
    <2>2. UNCHANGED <<tip, bridges, claims, lerAt, lastClaimAt>>
      BY <1>2 DEF FinalizeL1InfoRoot
    <2>3. L2TypeOK'
      BY <2>1, <2>2, Zenon DEF L2TypeOK
    <2>4. UNCHANGED <<agglayerVars, db, alarm, pc, memory, faults>>
      BY <1>2 DEF FinalizeL1InfoRoot
    <2> QED
      BY <2>3, <2>4 DEF agglayerVars, memory, AgglayerTypeOK, ProcessTypeOK
  <1>3. CASE SettleCertificate
    <2>1. AgglayerTypeOK'
      BY <1>3 DEF SettleCertificate, AgglayerTypeOK, Header, Certificate
    <2>2. UNCHANGED <<l2Vars, db, alarm, pc, memory, faults>>
      BY <1>3 DEF SettleCertificate
    <2> QED
      BY <2>1, <2>2, Zenon DEF l2Vars, memory, L2TypeOK, ProcessTypeOK
  <1>4. CASE RejectCertificate
    <2>1. AgglayerTypeOK' /\ faults' \in 0..MaxFaults
      BY <1>4 DEF RejectCertificate, AgglayerTypeOK, Header, Statuses, Fault
    <2>2. UNCHANGED <<l2Vars, db, alarm, pc, memory>>
      BY <1>4 DEF RejectCertificate
    <2> QED
      BY <2>1, <2>2, Zenon DEF l2Vars, memory, L2TypeOK, ProcessTypeOK
  <1> QED
    BY <1>1, <1>2, <1>3, <1>4 DEF Environment

\* The ways between the control points keep the types.
LEMMA ForgetTypes ==
    ASSUME NEW point \in {"idle", "down"}, ForgetAndGoTo(point)
    PROVE  ProcessTypeOK'
  <1>1. pc' \in {"idle", "down"} /\ mode' = "none" /\ seen' = NoCert /\ params' = NoCert
    BY DEF ForgetAndGoTo
  <1>2. checkFailed' = FALSE /\ attempt' = 0
    BY DEF ForgetAndGoTo
  <1>3. attempt' \in 0..MaxAttempts
    BY <1>2
  <1>4. checkFailed' \in BOOLEAN
    BY <1>2, Zenon
  <1> QED
    BY <1>1, <1>3, <1>4 DEF ProcessTypeOK

\* A failed attempt keeps the types.
LEMMA AttemptFailedTypes ==
    ASSUME ProcessTypeOK, AttemptFailed
    PROVE  ProcessTypeOK'
  <1>1. CASE Idle
    BY <1>1, ForgetTypes DEF Idle
  <1>2. CASE /\ attempt < MaxAttempts /\ pc' = "build" /\ attempt' = attempt + 1 /\ params' = NoCert
             /\ UNCHANGED <<mode, seen, checkFailed>>
    BY <1>2 DEF ProcessTypeOK
  <1> QED
    BY <1>1, <1>2 DEF AttemptFailed

\* The end of the check of the last certificate keeps the types.
LEMMA CheckLastDoneTypes ==
    ASSUME ProcessTypeOK, NEW failed \in BOOLEAN, CheckLastDone(failed)
    PROVE  ProcessTypeOK'
  BY Zenon DEF CheckLastDone, ProcessTypeOK

\* So does its failure, as a literal argument.
LEMMA CheckLastFailed ==
    ASSUME ProcessTypeOK, CheckLastDone(TRUE)
    PROVE  ProcessTypeOK'
  BY CheckLastDoneTypes, Zenon

\* A fault is counted within its bound.
LEMMA FaultTypes ==
    ASSUME NEW kind, faults \in 0..MaxFaults, Fault(kind)
    PROVE  faults' \in 0..MaxFaults
  BY DEF Fault

\* The end of the check of the pending certificates keeps the types.
LEMMA CheckPendingDoneTypes ==
    ASSUME ProcessTypeOK, NEW p \in BOOLEAN, NEW e \in BOOLEAN, CheckPendingDone(p, e)
    PROVE  ProcessTypeOK'
  <1>1. /\ pc' \in {"readSettled", "build", "idle"}
        /\ mode' \in {mode, "none"}
        /\ UNCHANGED <<seen, params>>
    BY DEF CheckPendingDone
  <1>2. checkFailed' \in BOOLEAN
    BY Zenon DEF CheckPendingDone, ProcessTypeOK
  <1>3. attempt' = attempt \/ attempt' = 0 \/ attempt' = 1
    BY DEF CheckPendingDone
  <1>4. attempt' \in 0..MaxAttempts
    BY <1>3 DEF ProcessTypeOK
  <1> QED
    BY <1>1, <1>2, <1>4 DEF ProcessTypeOK

\* The results of a check in state: good for the storage operations of ExecuteRows.
LEMMA RecoverResults ==
    ASSUME TypeOK, NEW local, NEW localSettled, NEW actions,
           actions = process([agglayerSettled |-> seen, agglayerPending |-> pending,
                              local |-> local, localSettled |-> localSettled])
    PROVE  \A k \in {1, 2} : ~ActionFails(actions[1]) =>
              /\ actions[k].action \in {"InsertNew", "Update"} =>
                    actions[k].header \in {seen, pending} \ {NoCert}
              /\ actions[k].action = "Update" => actions[k].header.cert = local.cert
  <1> DEFINE i == [agglayerSettled |-> seen, agglayerPending |-> pending,
                   local |-> local, localSettled |-> localSettled]
  <1>1. /\ \/ DOMAIN actions = 1..1 /\ IsError(actions[1])
           \/ DOMAIN actions = 1..2 /\ ~IsError(actions[1]) /\ ~IsError(actions[2])
        /\ \A k \in DOMAIN actions : GoodResult(actions[k], i)
    BY ProcessResults
  <1>2. ASSUME ~ActionFails(actions[1]) PROVE \A k \in {1, 2} : GoodResult(actions[k], i)
    BY <1>1, <1>2 DEF ActionFails
  <1>3. i.agglayerSettled = seen /\ i.agglayerPending = pending /\ i.local = local
    OBVIOUS
  <1> HIDE DEF i
  <1> QED
    BY <1>2, <1>3 DEF GoodResult

\* A step of the status checker keeps the types.
LEMMA TypeCheck == TypeOK /\ Check => TypeOK'
  <1> SUFFICES ASSUME TypeOK, Check PROVE TypeOK'
    OBVIOUS
  <1> USE DEF TypeOK
  <1>1. CASE ReadSettled
    <2>1. LatestSettledHeader \in Header \cup {NoCert}
      BY DEF LatestSettledHeader, AgglayerTypeOK, Header, Statuses
    <2>2. ProcessTypeOK' /\ alarm' \in BOOLEAN /\ faults' \in 0..MaxFaults
      <3>1. CASE Fault("call") /\ CheckLastDone(TRUE) /\ alarm' = FALSE
        BY <3>1, CheckLastFailed, FaultTypes, Zenon
      <3>2. CASE /\ seen' = LatestSettledHeader /\ pc' = "readPending"
                 /\ UNCHANGED <<alarm, mode, checkFailed, attempt, params, faults>>
        BY <3>2, <2>1 DEF ProcessTypeOK
      <3> QED
        BY <1>1, <3>1, <3>2, Zenon DEF ReadSettled
    <2>3. UNCHANGED <<l2Vars, agglayerVars, db>>
      BY <1>1 DEF ReadSettled
    <2> QED
      BY <2>2, <2>3, Zenon DEF l2Vars, agglayerVars, L2TypeOK, AgglayerTypeOK
  <1>2. CASE ReadPendingAndRecover
    <2>1. UNCHANGED <<l2Vars, agglayerVars>>
      BY <1>2 DEF ReadPendingAndRecover
    <2>2. CASE Fault("call") /\ CheckLastDone(TRUE) /\ alarm' = FALSE /\ UNCHANGED db
      <3>1. ProcessTypeOK' /\ alarm' \in BOOLEAN /\ faults' \in 0..MaxFaults
        BY <2>2, CheckLastFailed, FaultTypes, Zenon
      <3> QED
        BY <2>1, <2>2, <3>1, Zenon DEF l2Vars, agglayerVars, L2TypeOK, AgglayerTypeOK
    <2>3. ASSUME NEW local, NEW localSettled, NEW actions,
                 actions = process([agglayerSettled |-> seen, agglayerPending |-> pending,
                                    local |-> local, localSettled |-> localSettled]),
                 \/ /\ db' = IF ActionFails(actions[1]) THEN db
                             ELSE executeInitialStatusAction(
                                    executeInitialStatusAction(db, actions[1], local),
                                    actions[2], local)
                    /\ alarm' = (actions[1] = manualDBWipeRequired)
                    /\ CheckLastDone(\E i \in DOMAIN actions : ActionFails(actions[i]))
                    /\ UNCHANGED faults
                 \/ /\ ~ActionFails(actions[1]) /\ Fault("store")
                    /\ db' = executeInitialStatusAction(db, actions[1], local)
                    /\ alarm' = FALSE
                    /\ CheckLastDone(TRUE)
          PROVE  TypeOK'
      <3> DEFINE headers == {seen, pending} \ {NoCert}
                 first == executeInitialStatusAction(db, actions[1], local)
                 second == executeInitialStatusAction(first, actions[2], local)
      <3>1. headers \in SUBSET Header /\ settledIbe \in 0..MaxBlock
        BY DEF ProcessTypeOK, AgglayerTypeOK
      <3>2. ASSUME ~ActionFails(actions[1]) PROVE first \in Storage /\ second \in Storage
        <4>1. \A k \in {1, 2} :
                 /\ actions[k].action \in {"InsertNew", "Update"} => actions[k].header \in headers
                 /\ actions[k].action = "Update" => actions[k].header.cert = local.cert
          BY <2>3, <3>2, RecoverResults
        <4> HIDE DEF headers
        <4>2. first \in Storage
          BY <3>1, <4>1, ExecuteRows, Zenon
        <4> HIDE DEF first
        <4>3. second \in Storage
          BY <3>1, <4>1, <4>2, ExecuteRows, Zenon
        <4> QED
          BY <4>2, <4>3
      <3>3. db' \in Storage
        BY <2>3, <3>2, Zenon
      <3>4. ProcessTypeOK' /\ alarm' \in BOOLEAN /\ faults' \in 0..MaxFaults
        <4>1. CASE Fault("store") /\ alarm' = FALSE /\ CheckLastDone(TRUE)
          BY <4>1, CheckLastFailed, FaultTypes, Zenon
        <4> DEFINE failed == \E i \in DOMAIN actions : ActionFails(actions[i])
        <4>2. CASE CheckLastDone(failed) /\ UNCHANGED faults /\ alarm' = (actions[1] = manualDBWipeRequired)
          <5>1. failed \in BOOLEAN /\ alarm' \in BOOLEAN
            BY <4>2
          <5> HIDE DEF failed
          <5> QED
            BY <4>2, <5>1, CheckLastDoneTypes
        <4> QED
          BY <2>3, <4>1, <4>2, Zenon
      <3> QED
        BY <2>1, <3>3, <3>4, Zenon DEF l2Vars, agglayerVars, L2TypeOK, AgglayerTypeOK
    <2> QED
      BY <1>2, <2>2, <2>3, Zenon DEF ReadPendingAndRecover
  <1>3. CASE checkPendingCertificatesStatus
    <2>1. db' \in Storage
      BY <1>3, RefreshRows, AgglayerStatusType, Zenon DEF checkPendingCertificatesStatus, AgglayerTypeOK
    <2> DEFINE open == GetCertificateHeadersByStatus(db, {"Open"})
               stillOpen == \E row \in open : AgglayerStatus(row.cert) = "Open"
               inError == GetCertificateHeadersByStatus(db', {"InError"}) # {}
    <2>2. ProcessTypeOK' /\ faults' \in 0..MaxFaults
      <3>1. CASE CheckPendingDone(stillOpen, inError) /\ UNCHANGED faults
        <4>1. stillOpen \in BOOLEAN /\ inError \in BOOLEAN
          OBVIOUS
        <4> HIDE DEF stillOpen, inError
        <4> QED
          BY <3>1, <4>1, CheckPendingDoneTypes
      <3>2. CASE CheckPendingDone(TRUE, FALSE) /\ Fault("call")
        <4>1. ProcessTypeOK'
          BY <3>2, CheckPendingDoneTypes, Zenon
        <4> QED
          BY <3>2, <4>1, FaultTypes
      <3> QED
        BY <1>3, <3>1, <3>2, Zenon DEF checkPendingCertificatesStatus
    <2>3. UNCHANGED <<l2Vars, agglayerVars, alarm>>
      BY <1>3 DEF checkPendingCertificatesStatus
    <2> QED
      BY <2>1, <2>2, <2>3, Zenon DEF l2Vars, agglayerVars, L2TypeOK, AgglayerTypeOK
  <1> QED
    BY <1>1, <1>2, <1>3 DEF Check

\* What the builder derives from the last row is in range.
LEMMA BuildTypes ==
    ASSUME TypeOK, NEW last \in db.info \cup {NoCert}
    PROVE  /\ PreviousToBlock(last) \in 0..MaxBlock
           /\ RetryCount(last) \in Nat /\ NextHeight(last) \in Nat /\ PreviousLER(last) \in 0..MaxBlock
  <1>1. last # NoCert => last \in Row
    BY DEF TypeOK, Storage
  <1>2. settledIbe \in 0..MaxBlock
    BY DEF TypeOK, AgglayerTypeOK
  <1>3. PreviousToBlock(last) \in 0..MaxBlock
    BY <1>1, <1>2 DEF PreviousToBlock, GetLastSettledCertificateToBlock, Max2, StartL2Block, Row, Certificate
  <1> QED
    BY <1>1, <1>3 DEF RetryCount, NextHeight, PreviousLER, HeightOf, InitialLER, Row, Certificate

\* A built certificate, and its parameters, are well typed.
LEMMA BuiltTypes ==
    ASSUME TypeOK, NEW last \in db.info \cup {NoCert}, NEW from, from = PreviousToBlock(last) + 1,
           NEW to \in from..tip
    PROVE  /\ BuildCertificate(last, from, to) \in Certificate
           /\ [cert |-> BuildCertificate(last, from, to), status |-> "Open",
               retryCount |-> RetryCount(last), from |-> from, to |-> to] \in Row
  <1>1. from \in 1..MaxBlock /\ to \in 1..MaxBlock
    BY BuildTypes DEF TypeOK, L2TypeOK
  <1>2. lerAt[to] \in 0..MaxBlock /\ lastClaimAt[to] \in 0..MaxBlock
    BY <1>1 DEF TypeOK, L2TypeOK
  <1>3. BlocksIn(bridges, from, to) \in SUBSET (1..MaxBlock) /\ BlocksIn(claims, from, to) \in SUBSET (1..MaxBlock)
    <2>1. \A n \in 1..tip : n \in 1..MaxBlock
      BY DEF TypeOK, L2TypeOK
    <2>2. bridges \subseteq 1..tip /\ claims \subseteq 1..tip
      BY Zenon DEF TypeOK, L2TypeOK
    <2> QED
      BY <2>1, <2>2, Zenon DEF BlocksIn
  <1>4. leafCount \in 0..MaxLeafCount
    BY DEF TypeOK, L2TypeOK
  <1>5. BuildCertificate(last, from, to) \in Certificate
    BY <1>2, <1>3, <1>4, BuildTypes DEF BuildCertificate, Certificate
  <1> QED
    BY <1>1, <1>5, BuildTypes DEF Row, Statuses

\* A step of sendCertificate keeps the types.
LEMMA TypeSendOne == TypeOK /\ SendOne => TypeOK'
  <1> SUFFICES ASSUME TypeOK, SendOne PROVE TypeOK'
    OBVIOUS
  <1> USE DEF TypeOK
  <1>1. CASE Build
    <2>1. PICK last \in db.info \cup {NoCert} :
             LET from == PreviousToBlock(last) + 1 IN
             \/ Idle
             \/ AttemptFailed
             \/ /\ \E to \in from..tip :
                      params' = [cert |-> BuildCertificate(last, from, to), status |-> "Open",
                                 retryCount |-> RetryCount(last), from |-> from, to |-> to]
                /\ pc' = "send" /\ UNCHANGED <<mode, seen, checkFailed, attempt>>
      BY <1>1, SMTT(30) DEF Build
    <2> DEFINE from == PreviousToBlock(last) + 1
    <2>2. ProcessTypeOK'
      <3>1. CASE Idle
        BY <3>1, ForgetTypes DEF Idle
      <3>2. CASE AttemptFailed
        BY <3>2, AttemptFailedTypes
      <3>3. CASE /\ \E to \in from..tip :
                      params' = [cert |-> BuildCertificate(last, from, to), status |-> "Open",
                                 retryCount |-> RetryCount(last), from |-> from, to |-> to]
                 /\ pc' = "send" /\ UNCHANGED <<mode, seen, checkFailed, attempt>>
        <4>1. params' \in Row
          BY <3>3, BuiltTypes
        <4> QED
          BY <3>3, <4>1, NoCertAssumption DEF ProcessTypeOK
      <3> QED
        BY <2>1, <3>1, <3>2, <3>3
    <2>3. UNCHANGED <<l2Vars, agglayerVars, db, alarm, faults>>
      BY <1>1 DEF Build
    <2> QED
      BY <2>2, <2>3 DEF l2Vars, agglayerVars, L2TypeOK, AgglayerTypeOK
  <1>2. CASE BuildOrSendFails
    <2>1. ProcessTypeOK' /\ faults' \in 0..MaxFaults
      BY <1>2, AttemptFailedTypes, FaultTypes DEF BuildOrSendFails
    <2> QED
      BY <1>2, <2>1, Zenon DEF BuildOrSendFails, l2Vars, agglayerVars, L2TypeOK, AgglayerTypeOK
  <1>3. CASE SendCertificate
    <2>1. params \in Row
      BY <1>3 DEF SendCertificate, ProcessTypeOK
    <2>2. pending' \in Header \cup {NoCert}
      BY <1>3, <2>1 DEF SendCertificate, Header, Row, Statuses, AgglayerTypeOK
    <2>3. ProcessTypeOK' /\ faults' \in 0..MaxFaults
      <3>1. CASE pc' = "save" /\ UNCHANGED <<memory, faults>>
        BY <3>1, <2>1, NoCertAssumption DEF memory, ProcessTypeOK
      <3>2. CASE Fault("reply") /\ AttemptFailed
        BY <3>2, AttemptFailedTypes, FaultTypes
      <3>3. CASE AttemptFailed /\ UNCHANGED faults
        BY <3>3, AttemptFailedTypes
      <3> QED
        BY <1>3, <3>1, <3>2, <3>3 DEF SendCertificate
    <2>4. UNCHANGED <<l2Vars, settled, settledIbe, db, alarm>>
      BY <1>3 DEF SendCertificate
    <2> QED
      BY <2>2, <2>3, <2>4, Zenon DEF l2Vars, L2TypeOK, AgglayerTypeOK
  <1>4. CASE SaveCertificate
    <2>1. params \in Row
      BY <1>4 DEF SaveCertificate, ProcessTypeOK
    <2>2. db' \in Storage
      BY <1>4, <2>1, SaveRows DEF SaveCertificate
    <2>3. ProcessTypeOK' /\ faults' \in 0..MaxFaults
      BY <1>4, ForgetTypes, AttemptFailedTypes, FaultTypes DEF SaveCertificate, Idle
    <2>4. UNCHANGED <<l2Vars, agglayerVars, alarm>>
      BY <1>4 DEF SaveCertificate
    <2> QED
      BY <2>2, <2>3, <2>4, Zenon DEF l2Vars, agglayerVars, L2TypeOK, AgglayerTypeOK
  <1> QED
    BY <1>1, <1>2, <1>3, <1>4 DEF SendOne

\* Every step keeps the types.
LEMMA TypeStep == TypeOK /\ [Next]_vars => TypeOK'
  <1> SUFFICES ASSUME TypeOK, [Next]_vars PROVE TypeOK'
    OBVIOUS
  <1> USE DEF TypeOK
  <1>1. CASE Start \/ Tick \/ Trigger
    BY <1>1, Zenon DEF Start, Tick, Trigger, l2Vars, agglayerVars, L2TypeOK, AgglayerTypeOK, ProcessTypeOK
  <1>2. CASE Crash
    <2>1. ProcessTypeOK' /\ faults' \in 0..MaxFaults
      BY <1>2, ForgetTypes, FaultTypes DEF Crash, Stopped
    <2> QED
      BY <1>2, <2>1, Zenon DEF Crash, l2Vars, agglayerVars, L2TypeOK, AgglayerTypeOK
  <1>3. CASE WipeDatabase
    <2>1. ProcessTypeOK' /\ db' \in Storage /\ alarm' \in BOOLEAN
      BY <1>3, ForgetTypes, Zenon DEF WipeDatabase, Stopped, Storage, EmptyStorage
    <2> QED
      BY <1>3, <2>1, Zenon DEF WipeDatabase, l2Vars, agglayerVars, L2TypeOK, AgglayerTypeOK
  <1>4. CASE UNCHANGED vars
    BY <1>4, ZenonT(30) DEF vars, l2Vars, agglayerVars, memory, L2TypeOK, AgglayerTypeOK, ProcessTypeOK
  <1> QED
    BY <1>1, <1>2, <1>3, <1>4, TypeEnvironment, TypeCheck, TypeSendOne DEF Next

\* Every reachable state of the aggsender and its environment is well typed.
THEOREM TypeCorrect == Spec => []TypeOK
  BY TypeInit, TypeStep, PTL DEF Spec

-----------------------------------------------------------------------------
(***************************************************************************)
(* The settled blocks and the certificate that follows them.               *)
(***************************************************************************)

\* The boundary is one of the two blocks the AggLayer reports, and the larger one.
LEMMA Boundary ==
    ASSUME TypeOK
    PROVE  /\ LastSettledLER \in 0..MaxBlock /\ settledIbe \in 0..MaxBlock
           /\ SettledBoundary \in {LastSettledLER, settledIbe}
           /\ LastSettledLER <= SettledBoundary /\ settledIbe <= SettledBoundary
           /\ SettledBoundary \in 0..MaxBlock
  <1>1. LastSettledLER \in 0..MaxBlock
    <2>1. CASE settled = <<>>
      BY <2>1 DEF LastSettledLER, InitialLER
    <2>2. CASE settled # <<>>
      <3>1. settled \in Seq(Certificate)
        BY DEF TypeOK, AgglayerTypeOK
      <3>2. settled[Len(settled)] \in Certificate
        BY <2>2, <3>1
      <3> QED
        BY <2>2, <3>2 DEF LastSettledLER, Certificate
    <2> QED
      BY <2>1, <2>2
  <1>2. settledIbe \in 0..MaxBlock
    BY DEF TypeOK, AgglayerTypeOK
  <1> HIDE DEF LastSettledLER
  <1> QED
    BY <1>1, <1>2 DEF SettledBoundary, Max2

\* Block numbers are natural numbers from 1 to the tip.
LEMMA Blocks ==
    ASSUME TypeOK
    PROVE  /\ tip \in Nat /\ bridges \in SUBSET Nat /\ claims \in SUBSET Nat
           /\ \A n \in bridges \cup claims : 1 <= n /\ n <= tip
  <1>1. tip \in 0..MaxBlock
    BY DEF TypeOK, L2TypeOK
  <1>2. bridges \subseteq 1..tip /\ claims \subseteq 1..tip
    BY Zenon DEF TypeOK, L2TypeOK
  <1>3. tip \in Nat /\ \A n \in 1..tip : n \in Nat /\ 1 <= n /\ n <= tip
    BY <1>1
  <1> QED
    BY <1>2, <1>3

\* The last element of a set up to "to" is the last element of the part after D.
LEMMA LastOfRange ==
    ASSUME NEW S \in SUBSET Nat, NEW D \in Nat, NEW to \in Nat, NEW last, NEW R
    PROVE  /\ last \in S \cup {0} /\ last <= to /\ (\A m \in S : m <= to => m <= last)
           /\ R = BlocksIn(S, D + 1, to)
           =>
           /\ \A n \in S : n > D /\ n <= to => R # {} /\ n <= last
           /\ R # {} => last \in S /\ D < last
  <1> SUFFICES ASSUME last \in S \cup {0}, last <= to, \A m \in S : m <= to => m <= last,
                      R = BlocksIn(S, D + 1, to)
               PROVE  /\ \A n \in S : n > D /\ n <= to => R # {} /\ n <= last
                      /\ R # {} => last \in S /\ D < last
    OBVIOUS
  <1>1. ASSUME NEW n \in S, n > D, n <= to PROVE R # {} /\ n <= last
    BY <1>1 DEF BlocksIn
  <1>2. ASSUME R # {} PROVE last \in S /\ D < last
    <2>1. PICK n \in S : D + 1 <= n /\ n <= to
      BY <1>2, Zenon DEF BlocksIn
    <2>2. n <= last /\ n \in Nat /\ last \in Nat
      BY <2>1
    <2> QED
      BY <2>1, <2>2
  <1> QED
    BY <1>1, <1>2

\* What the blocks of a certificate tell about its LER and its last imported exit.
LEMMA FollowsFacts ==
    ASSUME TypeOK, L2Inv, NEW cert \in Certificate, NEW to \in 0..tip,
           Follows(cert, SettledBoundary + 1, to)
    PROVE  /\ to > SettledBoundary
           /\ \A n \in bridges : n > SettledBoundary /\ n <= to => cert.bridges # {} /\ n <= cert.new
           /\ cert.bridges = {} => cert.new = LastSettledLER
           /\ cert.bridges # {} => cert.new \in bridges /\ SettledBoundary < cert.new /\ cert.new <= to
           /\ \A n \in claims : n > SettledBoundary /\ n <= to => cert.ibes # {} /\ n <= cert.lastIbe
           /\ cert.ibes # {} => cert.lastIbe \in claims /\ SettledBoundary < cert.lastIbe /\ cert.lastIbe <= to
  <1> DEFINE D == SettledBoundary
  <1>1. D \in Nat /\ to \in Nat /\ bridges \in SUBSET Nat /\ claims \in SUBSET Nat
    <2>1. D \in 0..MaxBlock
      BY Boundary
    <2> QED
      BY <2>1, Blocks
  <1>2. D + 1 <= to
    BY <1>1 DEF Follows
  <1>3. /\ lerAt[to] \in bridges \cup {0} /\ lerAt[to] <= to
        /\ \A m \in bridges : m <= to => m <= lerAt[to]
    BY DEF L2Inv, IsLastIn, IsLastUpTo
  <1>4. /\ lastClaimAt[to] \in claims \cup {0} /\ lastClaimAt[to] <= to
        /\ \A m \in claims : m <= to => m <= lastClaimAt[to]
    BY DEF L2Inv, IsLastIn, IsLastUpTo
  <1>5. cert.bridges = BlocksIn(bridges, D + 1, to) /\ cert.ibes = BlocksIn(claims, D + 1, to)
    BY DEF Follows
  <1>6. /\ cert.new = IF cert.bridges = {} THEN LastSettledLER ELSE lerAt[to]
        /\ cert.lastIbe = IF cert.ibes = {} THEN 0 ELSE lastClaimAt[to]
    BY DEF Follows
  <1> HIDE DEF D
  <1>7. /\ \A n \in bridges : n > D /\ n <= to => cert.bridges # {} /\ n <= lerAt[to]
        /\ cert.bridges # {} => lerAt[to] \in bridges /\ D < lerAt[to]
    <2> DEFINE last == lerAt[to]
               R == cert.bridges
    <2>1. /\ last \in bridges \cup {0} /\ last <= to /\ (\A m \in bridges : m <= to => m <= last)
          /\ R = BlocksIn(bridges, D + 1, to)
      BY <1>3, <1>5
    <2> HIDE DEF last, R
    <2>2. /\ \A n \in bridges : n > D /\ n <= to => R # {} /\ n <= last
          /\ R # {} => last \in bridges /\ D < last
      BY <1>1, <2>1, LastOfRange
    <2> QED
      BY <2>2 DEF last, R
  <1>8. /\ \A n \in claims : n > D /\ n <= to => cert.ibes # {} /\ n <= lastClaimAt[to]
        /\ cert.ibes # {} => lastClaimAt[to] \in claims /\ D < lastClaimAt[to]
    <2> DEFINE last == lastClaimAt[to]
               R == cert.ibes
    <2>1. /\ last \in claims \cup {0} /\ last <= to /\ (\A m \in claims : m <= to => m <= last)
          /\ R = BlocksIn(claims, D + 1, to)
      BY <1>4, <1>5
    <2> HIDE DEF last, R
    <2>2. /\ \A n \in claims : n > D /\ n <= to => R # {} /\ n <= last
          /\ R # {} => last \in claims /\ D < last
      BY <1>1, <2>1, LastOfRange
    <2> QED
      BY <2>2 DEF last, R
  <1>9. D < to
    BY <1>1, <1>2
  <1> QED
    BY <1>3, <1>4, <1>6, <1>7, <1>8, <1>9 DEF D

\* The AggLayer can prove a certificate that follows the settled blocks.
LEMMA FollowsProvable ==
    ASSUME TypeOK, L2Inv, SettledInv, NEW cert \in Certificate, NEW to \in 0..tip,
           Follows(cert, SettledBoundary + 1, to)
    PROVE  Provable(cert)
  <1>1. cert.prev = LastSettledLER
    BY DEF Follows
  <1>2. /\ \A n \in bridges : n \in Nat
        /\ \A n \in claims : n \in Nat /\ n >= 1
        /\ SettledBoundary \in Nat /\ LastSettledLER \in Nat /\ LastSettledLER <= SettledBoundary
        /\ to \in Nat
    <2>1. SettledBoundary \in 0..MaxBlock /\ LastSettledLER \in 0..MaxBlock /\ LastSettledLER <= SettledBoundary
      BY Boundary
    <2> QED
      BY <2>1, Blocks
  <1>3. \A n \in bridges : ~(LastSettledLER + 1 <= n /\ n <= SettledBoundary)
    BY DEF SettledInv, NothingSkipped, BlocksIn
  <1>4. SettledClaims = {n \in claims : 1 <= n /\ n <= SettledBoundary}
    BY DEF SettledInv, NothingSkipped, BlocksIn
  <1>5. /\ cert.bridges = {n \in bridges : SettledBoundary + 1 <= n /\ n <= to}
        /\ cert.ibes = {n \in claims : SettledBoundary + 1 <= n /\ n <= to}
    BY DEF Follows, BlocksIn
  <1>6. cert.bridges = {n \in bridges : LastSettledLER + 1 <= n /\ n <= cert.new}
    <2>1. ASSUME NEW n \in bridges
          PROVE  (SettledBoundary + 1 <= n /\ n <= to) <=> (LastSettledLER + 1 <= n /\ n <= cert.new)
      <3>1. cert.new \in Nat
        BY DEF Certificate
      <3> QED
        BY <1>2, <1>3, <3>1, FollowsFacts
    <2> QED
      BY <1>5, <2>1
  <1>7. cert.ibes \subseteq claims /\ cert.ibes \cap SettledClaims = {}
    BY <1>2, <1>4, <1>5
  <1> QED
    BY <1>1, <1>6, <1>7 DEF Provable, BlocksIn

-----------------------------------------------------------------------------
(***************************************************************************)
(* Steps that leave the settled certificates alone.                        *)
(***************************************************************************)

\* The derived state of the AggLayer changes with the settled certificates only.
LEMMA SameSettled ==
    ASSUME UNCHANGED <<settled, settledIbe>>
    PROVE  /\ SettledBoundary' = SettledBoundary /\ LastSettledLER' = LastSettledLER
           /\ SettledClaims' = SettledClaims
           /\ \A cert : IsSettledCert(cert)' <=> IsSettledCert(cert)
  BY DEF SettledBoundary, LastSettledLER, SettledClaims, IsSettledCert, InitialLER

\* So do the invariants of the process's memory and storage, row by row.
LEMMA SameRows ==
    ASSUME UNCHANGED <<settled, settledIbe>>
    PROVE  \A row : RowInv(row)' <=> RowInv(row)
  BY SameSettled DEF RowInv, IsSettled

\* With the same L2 blocks, the same certificates follow the settled blocks.
LEMMA SameFollows ==
    ASSUME UNCHANGED <<l2Vars, settled, settledIbe>>
    PROVE  \A cert, from, to : Follows(cert, from, to)' <=> Follows(cert, from, to)
  BY SameSettled DEF Follows, BlocksIn, l2Vars

\* The invariants of the chain and of the settled certificates survive such a step.
LEMMA SameWorld ==
    ASSUME L2Inv, SettledInv, UNCHANGED <<l2Vars, settled, settledIbe>>
    PROVE  L2Inv' /\ SettledInv'
  <1>1. L2Inv'
    BY DEF L2Inv, IsLastIn, IsLastUpTo, l2Vars
  <1>2. SettledInv'
    BY SameSettled DEF SettledInv, NothingSkipped, BlocksIn, l2Vars
  <1> QED
    BY <1>1, <1>2

\* And those of the undecided certificate and of the certificate in memory, if unchanged.
LEMMA SamePending ==
    ASSUME PendingInv, UNCHANGED <<l2Vars, settled, settledIbe, pending>>
    PROVE  PendingInv'
  BY SameSettled, SameFollows DEF PendingInv, l2Vars

\* The certificate in memory, kept or dropped.
LEMMA SameParams ==
    ASSUME ParamsInv, UNCHANGED <<l2Vars, settled, settledIbe>>, params' \in {params, NoCert}
    PROVE  ParamsInv'
  BY SameFollows DEF ParamsInv

\* The header in memory, kept or dropped.
LEMMA SameSeen ==
    ASSUME SeenInv, UNCHANGED <<settled, settledIbe>>, seen' \in {seen, NoCert}
    PROVE  SeenInv'
  BY SameSettled DEF SeenInv, IsSettled

\* The storage, if its rows are good.
LEMMA SameStorage ==
    ASSUME UNCHANGED <<settled, settledIbe>>, \A row \in db'.info : RowInv(row)
    PROVE  StorageInv'
  BY SameRows DEF StorageInv

-----------------------------------------------------------------------------
(***************************************************************************)
(* A new L2 block.                                                         *)
(***************************************************************************)

\* The last element up to a block, after one block more at the end of the set.
LEMMA LastAfterNewBlock ==
    ASSUME NEW n0 \in Nat, NEW S \in SUBSET (1..n0), NEW added \in SUBSET {n0 + 1}
    PROVE  /\ \A n \in 0..n0 : \A last : IsLastUpTo(S, n, last) => IsLastUpTo(S \cup added, n, last)
           /\ \A last \in Nat : IsLastUpTo(S, n0, last) =>
                 IsLastUpTo(S \cup added, n0 + 1, IF added = {} THEN last ELSE n0 + 1)
  <1>1. \A m \in S : m \in Nat /\ 1 <= m /\ m <= n0
    OBVIOUS
  <1>2. added = {} \/ added = {n0 + 1}
    BY Zenon
  <1>3. ASSUME NEW n \in 0..n0, NEW last, IsLastUpTo(S, n, last)
        PROVE  IsLastUpTo(S \cup added, n, last)
    <2>1. \A m \in added : ~(m <= n)
      BY <1>2
    <2> QED
      BY <1>3, <2>1 DEF IsLastUpTo
  <1>4. ASSUME NEW last \in Nat, IsLastUpTo(S, n0, last)
        PROVE  IsLastUpTo(S \cup added, n0 + 1, IF added = {} THEN last ELSE n0 + 1)
    <2>1. CASE added = {}
      BY <1>1, <1>4, <2>1 DEF IsLastUpTo
    <2>2. CASE added = {n0 + 1}
      BY <1>1, <2>2 DEF IsLastUpTo
    <2> QED
      BY <1>2, <2>1, <2>2
  <1> QED
    BY <1>3, <1>4

\* The new block changes nothing at or before the old tip.
LEMMA OldBlocksStay ==
    ASSUME TypeOK, SyncL2Block
    PROVE  /\ tip' = tip + 1 /\ tip \in Nat
           /\ \A from \in Nat, to \in 0..tip :
                 /\ BlocksIn(bridges, from, to)' = BlocksIn(bridges, from, to)
                 /\ BlocksIn(claims, from, to)' = BlocksIn(claims, from, to)
           /\ \A to \in 0..tip : lerAt'[to] = lerAt[to] /\ lastClaimAt'[to] = lastClaimAt[to]
  <1>1. tip \in Nat /\ tip < MaxBlock /\ tip' = tip + 1
    BY DEF SyncL2Block, TypeOK, L2TypeOK
  <1>2. PICK exits \in SUBSET {tip + 1}, imports \in SUBSET {tip + 1} : StoreEvents(exits, imports)
    BY DEF SyncL2Block
  <1>3. ASSUME NEW from \in Nat, NEW to \in 0..tip
        PROVE  /\ BlocksIn(bridges, from, to)' = BlocksIn(bridges, from, to)
               /\ BlocksIn(claims, from, to)' = BlocksIn(claims, from, to)
    <2>1. ~(tip + 1 <= to)
      BY <1>1
    <2>2. bridges' = bridges \cup exits /\ claims' = claims \cup imports
      BY <1>2 DEF StoreEvents
    <2>3. \A n \in exits \cup imports : n = tip + 1
      BY <1>2
    <2> QED
      BY <2>1, <2>2, <2>3, Zenon DEF BlocksIn
  <1>4. ASSUME NEW to \in 0..tip
        PROVE  lerAt'[to] = lerAt[to] /\ lastClaimAt'[to] = lastClaimAt[to]
    <2>1. to \in 0..MaxBlock /\ to # tip + 1
      BY <1>1
    <2> QED
      BY <1>2, <2>1 DEF StoreEvents, TypeOK, L2TypeOK
  <1> QED
    BY <1>1, <1>3, <1>4

\* A new block keeps the chain's own invariant.
LEMMA SyncKeepsL2 == TypeOK /\ L2Inv /\ SyncL2Block => L2Inv'
  <1> SUFFICES ASSUME TypeOK, L2Inv, SyncL2Block PROVE L2Inv'
    OBVIOUS
  <1>1. tip \in Nat /\ tip < MaxBlock /\ tip' = tip + 1
    BY DEF SyncL2Block, TypeOK, L2TypeOK
  <1>2. PICK exits \in SUBSET {tip + 1}, imports \in SUBSET {tip + 1} : StoreEvents(exits, imports)
    BY DEF SyncL2Block
  <1>3. bridges \in SUBSET (1..tip) /\ claims \in SUBSET (1..tip)
    BY Zenon DEF TypeOK, L2TypeOK
  <1> DEFINE n1 == tip + 1
  <1>6. tip \in 0..MaxBlock /\ n1 \in 0..MaxBlock
    BY <1>1
  <1>7. lerAt \in [0..MaxBlock -> 0..MaxBlock] /\ lastClaimAt \in [0..MaxBlock -> 0..MaxBlock]
    BY Zenon DEF TypeOK, L2TypeOK
  <1>4. IsLastIn(bridges, lerAt)'
    <2>1. ASSUME NEW n \in 0..tip PROVE IsLastUpTo(bridges \cup exits, n, lerAt'[n])
      <3>1. lerAt'[n] = lerAt[n]
        BY OldBlocksStay
      <3>2. IsLastUpTo(bridges, n, lerAt[n])
        BY DEF L2Inv, IsLastIn
      <3> QED
        BY <1>1, <1>2, <1>3, <3>1, <3>2, LastAfterNewBlock, Zenon
    <2>2. IsLastUpTo(bridges \cup exits, tip + 1, lerAt'[tip + 1])
      <3>1. lerAt'[tip + 1] = IF exits = {} THEN lerAt[tip] ELSE tip + 1
        <4>1. lerAt' = [lerAt EXCEPT ![n1] = IF exits = {} THEN lerAt[tip] ELSE n1]
          BY <1>2 DEF StoreEvents
        <4> HIDE DEF n1
        <4>2. lerAt'[n1] = IF exits = {} THEN lerAt[tip] ELSE n1
          BY <1>6, <1>7, <4>1
        <4> QED
          BY <4>2 DEF n1
      <3>2. lerAt[tip] \in Nat
        <4>1. lerAt[tip] \in 0..MaxBlock
          BY <1>6, <1>7, Zenon
        <4> QED
          BY <4>1
      <3>3. IsLastUpTo(bridges, tip, lerAt[tip])
        BY <1>1 DEF L2Inv, IsLastIn
      <3> QED
        BY <1>1, <1>2, <1>3, <3>1, <3>2, <3>3, LastAfterNewBlock, Zenon
    <2>3. \A n \in 0..tip' : n \in 0..tip \/ n = tip + 1
      BY <1>1
    <2>4. bridges' = bridges \cup exits
      BY <1>2 DEF StoreEvents
    <2> QED
      BY <2>1, <2>2, <2>3, <2>4 DEF IsLastIn, IsLastUpTo
  <1>5. IsLastIn(claims, lastClaimAt)'
    <2>1. ASSUME NEW n \in 0..tip PROVE IsLastUpTo(claims \cup imports, n, lastClaimAt'[n])
      <3>1. lastClaimAt'[n] = lastClaimAt[n]
        BY OldBlocksStay
      <3>2. IsLastUpTo(claims, n, lastClaimAt[n])
        BY DEF L2Inv, IsLastIn
      <3> QED
        BY <1>1, <1>2, <1>3, <3>1, <3>2, LastAfterNewBlock, Zenon
    <2>2. IsLastUpTo(claims \cup imports, tip + 1, lastClaimAt'[tip + 1])
      <3>1. lastClaimAt'[tip + 1] = IF imports = {} THEN lastClaimAt[tip] ELSE tip + 1
        <4>1. lastClaimAt' = [lastClaimAt EXCEPT ![n1] = IF imports = {} THEN lastClaimAt[tip] ELSE n1]
          BY <1>2 DEF StoreEvents
        <4> HIDE DEF n1
        <4>2. lastClaimAt'[n1] = IF imports = {} THEN lastClaimAt[tip] ELSE n1
          BY <1>6, <1>7, <4>1
        <4> QED
          BY <4>2 DEF n1
      <3>2. lastClaimAt[tip] \in Nat
        <4>1. lastClaimAt[tip] \in 0..MaxBlock
          BY <1>6, <1>7, Zenon
        <4> QED
          BY <4>1
      <3>3. IsLastUpTo(claims, tip, lastClaimAt[tip])
        BY <1>1 DEF L2Inv, IsLastIn
      <3> QED
        BY <1>1, <1>2, <1>3, <3>1, <3>2, <3>3, LastAfterNewBlock, Zenon
    <2>3. \A n \in 0..tip' : n \in 0..tip \/ n = tip + 1
      BY <1>1
    <2>4. claims' = claims \cup imports
      BY <1>2 DEF StoreEvents
    <2> QED
      BY <2>1, <2>2, <2>3, <2>4 DEF IsLastIn, IsLastUpTo
  <1> QED
    BY <1>4, <1>5 DEF L2Inv

\* A new block keeps every certificate that follows the settled blocks following them.
LEMMA SyncKeepsFollows ==
    ASSUME TypeOK, SyncL2Block, NEW cert, NEW from, NEW to, Follows(cert, from, to)
    PROVE  Follows(cert, from, to)'
  <1>1. UNCHANGED <<settled, settledIbe>>
    BY DEF SyncL2Block, agglayerVars
  <1>2. SettledBoundary \in Nat
    <2>1. SettledBoundary \in 0..MaxBlock
      BY Boundary
    <2> QED
      BY <2>1
  <1>3. from = SettledBoundary + 1 /\ to \in from..tip /\ tip \in Nat /\ tip' = tip + 1
    BY OldBlocksStay DEF Follows
  <1>4. from \in Nat /\ to \in 0..tip /\ to \in from..tip'
    BY <1>2, <1>3, SMTT(30)
  <1>5. /\ BlocksIn(bridges, from, to)' = BlocksIn(bridges, from, to)
        /\ BlocksIn(claims, from, to)' = BlocksIn(claims, from, to)
        /\ lerAt'[to] = lerAt[to] /\ lastClaimAt'[to] = lastClaimAt[to]
    BY <1>4, OldBlocksStay
  <1>6. SettledBoundary' = SettledBoundary /\ LastSettledLER' = LastSettledLER
    BY <1>1, SameSettled
  <1> QED
    BY <1>3, <1>4, <1>5, <1>6 DEF Follows

\* A new block keeps what is known of the settled certificates.
LEMMA SyncKeepsSettled == TypeOK /\ SettledInv /\ SyncL2Block => SettledInv'
  <1> SUFFICES ASSUME TypeOK, SettledInv, SyncL2Block PROVE SettledInv'
    OBVIOUS
  <1>1. UNCHANGED <<settled, settledIbe>>
    BY DEF SyncL2Block, agglayerVars
  <1>2. /\ SettledBoundary' = SettledBoundary /\ LastSettledLER' = LastSettledLER
        /\ SettledClaims' = SettledClaims
    BY <1>1, SameSettled
  <1>3. SettledBoundary \in 0..MaxBlock /\ LastSettledLER \in 0..MaxBlock
    BY Boundary
  <1>4. tip \in Nat /\ tip' = tip + 1
    BY OldBlocksStay
  <1>5. SettledBoundary \in 0..tip /\ SettledBoundary <= tip' /\ LastSettledLER + 1 \in Nat
    BY <1>3, <1>4 DEF SettledInv
  <1>6. /\ BlocksIn(claims, 1, SettledBoundary)' = BlocksIn(claims, 1, SettledBoundary)
        /\ BlocksIn(bridges, LastSettledLER + 1, SettledBoundary)' = BlocksIn(bridges, LastSettledLER + 1, SettledBoundary)
    <2> DEFINE D == SettledBoundary
               f == LastSettledLER + 1
    <2>1. D \in 0..tip /\ f \in Nat
      BY <1>5
    <2>2. BlocksIn(bridges, f, D)' = BlocksIn(bridges', f', D') /\ BlocksIn(claims, 1, D)' = BlocksIn(claims', 1, D')
      OBVIOUS
    <2>3. f' = f /\ D' = D
      BY <1>2
    <2> HIDE DEF D, f
    <2>4. BlocksIn(claims', 1, D) = BlocksIn(claims, 1, D) /\ BlocksIn(bridges', f, D) = BlocksIn(bridges, f, D)
      BY <2>1, OldBlocksStay
    <2> QED
      BY <2>3, <2>4 DEF D, f
  <1>7. NothingSkipped'
    BY <1>2, <1>6 DEF SettledInv, NothingSkipped
  <1> QED
    BY <1>1, <1>2, <1>5, <1>7 DEF SettledInv

\* A new L2 block keeps the inductive invariant.
LEMMA SyncKeepsIInv == IInv /\ SyncL2Block => IInv'
  <1> SUFFICES ASSUME IInv, SyncL2Block PROVE IInv'
    OBVIOUS
  <1>1. TypeOK' /\ L2Inv' /\ SettledInv'
    BY TypeEnvironment, SyncKeepsL2, SyncKeepsSettled, SMTT(30) DEF IInv, Environment
  <1>2. UNCHANGED <<settled, settledIbe, pending, params, seen, db>> /\ tip' = tip + 1 /\ tip \in Nat
    BY OldBlocksStay DEF SyncL2Block, agglayerVars, memory, IInv
  <1>3. PendingInv'
    <2>1. SUFFICES ASSUME pending # NoCert PROVE PendingInv'
      BY <1>2 DEF PendingInv
    <2>2. PICK to \in 0..tip : Follows(pending.cert, SettledBoundary + 1, to)
      BY <2>1 DEF IInv, PendingInv
    <2> DEFINE cert == pending.cert
               from == SettledBoundary + 1
    <2>3. Follows(cert, from, to)
      BY <2>2
    <2>4. cert' = cert /\ from' = from
      BY <1>2, SameSettled
    <2>5. to \in 0..tip'
      BY <1>2
    <2>6. Follows(cert, from, to)'
      <3>1. PICK c, f : c = cert /\ f = from
        OBVIOUS
      <3>2. Follows(c, f, to)'
        BY <2>3, <3>1, SyncKeepsFollows DEF IInv
      <3> QED
        BY <2>4, <3>1, <3>2
    <2> QED
      BY <1>2, <2>1, <2>5, <2>6 DEF IInv, PendingInv
  <1>4. ParamsInv'
    BY <1>2, SyncKeepsFollows DEF IInv, ParamsInv
  <1>5. SeenInv' /\ StorageInv'
    BY <1>2, SameSeen, SameStorage DEF IInv, StorageInv
  <1> QED
    BY <1>1, <1>3, <1>4, <1>5 DEF IInv

-----------------------------------------------------------------------------
(***************************************************************************)
(* The AggLayer decides a certificate.                                     *)
(***************************************************************************)

\* What Append does to the sequence of settled certificates.
LEMMA AppendSettled ==
    ASSUME settled \in Seq(Certificate), NEW cert \in Certificate, settled' = Append(settled, cert)
    PROVE  /\ Len(settled') = Len(settled) + 1 /\ Len(settled) \in Nat
           /\ \A i \in 1..Len(settled) : settled'[i] = settled[i]
           /\ settled'[Len(settled) + 1] = cert
           /\ settled' # <<>>
           /\ LastSettledLER' = cert.new
           /\ SettledClaims' = SettledClaims \cup cert.ibes
           /\ \A c \in Certificate : IsSettledCert(c) => IsSettledCert(c)'
  <1>1. /\ Len(settled') = Len(settled) + 1 /\ Len(settled) \in Nat
        /\ \A i \in 1..Len(settled) : settled'[i] = settled[i]
        /\ settled'[Len(settled) + 1] = cert
        /\ settled' # <<>>
    OBVIOUS
  <1>2. LastSettledLER' = cert.new
    BY <1>1 DEF LastSettledLER
  <1>3. SettledClaims' = SettledClaims \cup cert.ibes
    <2>1. \A i : i \in 1..Len(settled') <=> i \in 1..Len(settled) \/ i = Len(settled) + 1
      BY <1>1
    <2>2. ASSUME NEW n PROVE n \in SettledClaims' <=> n \in SettledClaims \/ n \in cert.ibes
      BY <1>1, <2>1 DEF SettledClaims
    <2> QED
      BY <2>2
  <1>4. ASSUME NEW c \in Certificate, IsSettledCert(c) PROVE IsSettledCert(c)'
    <2>1. c.height \in Nat
      BY DEF Certificate
    <2>2. c.height + 1 \in 1..Len(settled) /\ c.height < Len(settled')
      BY <1>1, <1>4, <2>1 DEF IsSettledCert
    <2> QED
      BY <1>1, <1>4, <2>2 DEF IsSettledCert
  <1> QED
    BY <1>1, <1>2, <1>3, <1>4

\* The undecided certificate, if there is one, with the block its range ends at.
LEMMA PendingFollows ==
    ASSUME TypeOK, PendingInv, pending # NoCert
    PROVE  /\ pending.cert \in Certificate
           /\ \E to \in 0..tip : Follows(pending.cert, SettledBoundary + 1, to)
  BY DEF TypeOK, AgglayerTypeOK, Header, PendingInv

\* Settling a certificate that follows the settled blocks moves the boundary to its last
\* event, and leaves no event behind it.
LEMMA SettleBoundary ==
    ASSUME TypeOK, L2Inv, SettledInv, SettleCertificate, NEW cert \in Certificate, cert = pending.cert,
           NEW to \in 0..tip, Follows(cert, SettledBoundary + 1, to)
    PROVE  /\ SettledBoundary <= SettledBoundary' /\ SettledBoundary' <= to
           /\ SettledBoundary' \in Nat /\ LastSettledLER' = cert.new
           /\ cert.new <= SettledBoundary'
           /\ \A n \in claims : n > SettledBoundary /\ n <= to => n <= SettledBoundary'
  <1> DEFINE D == SettledBoundary
  <1>1. D \in Nat /\ to \in Nat /\ LastSettledLER \in Nat /\ settledIbe \in Nat /\ LastSettledLER <= D /\ settledIbe <= D
        /\ (D = LastSettledLER \/ D = settledIbe)
    <2>1. D \in 0..MaxBlock /\ LastSettledLER \in 0..MaxBlock /\ settledIbe \in 0..MaxBlock
          /\ LastSettledLER <= D /\ settledIbe <= D /\ D \in {LastSettledLER, settledIbe}
      BY Boundary
    <2> QED
      BY <2>1, Blocks
  <1>2. cert.new \in Nat /\ cert.lastIbe \in Nat
    BY SMTT(30) DEF Certificate
  <1>3. LastSettledLER' = cert.new /\ settledIbe' = IF cert.ibes = {} THEN settledIbe ELSE cert.lastIbe
    BY AppendSettled DEF SettleCertificate, TypeOK, AgglayerTypeOK
  <1>4. SettledBoundary' = Max2(cert.new, settledIbe')
    BY <1>3 DEF SettledBoundary, Max2
  <1>5. /\ to > D
        /\ cert.bridges = {} => cert.new = LastSettledLER
        /\ cert.bridges # {} => D < cert.new /\ cert.new <= to
        /\ cert.ibes # {} => D < cert.lastIbe /\ cert.lastIbe <= to
    BY FollowsFacts
  <1>6. \A n \in claims : n \in Nat /\ (n > D /\ n <= to => cert.ibes # {} /\ n <= cert.lastIbe)
    BY FollowsFacts, Blocks
  <1> HIDE DEF D
  <1>7. D <= SettledBoundary' /\ SettledBoundary' <= to /\ SettledBoundary' \in Nat /\ cert.new <= SettledBoundary'
    BY <1>1, <1>2, <1>3, <1>4, <1>5 DEF Max2
  <1>8. cert.ibes # {} => cert.lastIbe <= SettledBoundary'
    BY <1>2, <1>3, <1>4 DEF Max2
  <1>9. ASSUME NEW n \in claims, n > D, n <= to PROVE n <= SettledBoundary'
    BY <1>2, <1>6, <1>7, <1>8, <1>9, SMTT(30)
  <1> QED
    BY <1>3, <1>7, <1>9 DEF D

\* Settling keeps NothingSkipped and the rest of what is known of the settled certificates.
LEMMA SettleKeepsSettled ==
    ASSUME TypeOK, L2Inv, SettledInv, PendingInv, SettleCertificate
    PROVE  SettledInv'
  <1> DEFINE cert == pending.cert
             D == SettledBoundary
             E == SettledBoundary'
  <1>1. PICK to \in 0..tip : Follows(cert, D + 1, to)
    BY PendingFollows DEF SettleCertificate
  <1>2. cert \in Certificate /\ cert.height = Len(settled)
    BY PendingFollows, SMTT(30) DEF SettleCertificate, PendingInv
  <1>3. UNCHANGED <<tip, bridges, claims, lerAt, lastClaimAt>> /\ settled' = Append(settled, cert)
    BY DEF SettleCertificate, l2Vars
  <1>4. /\ Len(settled') = Len(settled) + 1 /\ Len(settled) \in Nat
        /\ \A i \in 1..Len(settled) : settled'[i] = settled[i]
        /\ settled'[Len(settled) + 1] = cert
        /\ settled' # <<>>
        /\ SettledClaims' = SettledClaims \cup cert.ibes
    BY <1>2, <1>3, AppendSettled DEF TypeOK, AgglayerTypeOK
  <1>5. /\ D <= E /\ E <= to /\ E \in Nat /\ LastSettledLER' = cert.new /\ cert.new <= E
        /\ \A n \in claims : n > D /\ n <= to => n <= E
    BY <1>1, <1>2, SettleBoundary
  <1>6. D \in Nat /\ to \in Nat /\ tip \in Nat /\ to <= tip /\ LastSettledLER \in Nat /\ cert.new \in Nat
    <2>1. D \in 0..MaxBlock /\ LastSettledLER \in 0..MaxBlock
      BY Boundary
    <2>2. tip \in Nat
      BY Blocks
    <2> QED
      BY <1>2, <2>1, <2>2 DEF Certificate
  <1>7. \A i \in 1..Len(settled') : settled'[i].height = i - 1
    <2>1. \A i \in 1..Len(settled') : i \in 1..Len(settled) \/ i = Len(settled) + 1
      BY <1>4
    <2> QED
      BY <1>2, <1>4, <2>1, SMTT(30) DEF SettledInv
  <1>8. \A n \in bridges \cup claims : n \in Nat /\ 1 <= n
    BY Blocks
  <1>9. cert.ibes = BlocksIn(claims, D + 1, to) /\ SettledClaims = BlocksIn(claims, 1, D)
        /\ BlocksIn(bridges, LastSettledLER + 1, D) = {}
    BY <1>1 DEF Follows, SettledInv, NothingSkipped
  <1>10. /\ \A n \in bridges : n > D /\ n <= to => n <= cert.new
         /\ cert.bridges = {} => cert.new = LastSettledLER
         /\ cert.bridges # {} => D < cert.new
    BY <1>1, <1>2, FollowsFacts
  <1> HIDE DEF cert, D, E
  <1>11. BlocksIn(claims, 1, E) = SettledClaims'
    <2>1. ASSUME NEW n \in claims
          PROVE  1 <= n /\ n <= E <=> (1 <= n /\ n <= D) \/ (D + 1 <= n /\ n <= to)
      BY <1>5, <1>6, <1>8
    <2> QED
      BY <1>4, <1>9, <2>1 DEF BlocksIn
  <1>12. BlocksIn(bridges, cert.new + 1, E) = {}
    <2>1. SUFFICES ASSUME NEW n \in bridges, cert.new + 1 <= n, n <= E PROVE FALSE
      BY DEF BlocksIn
    <2>2. n \in Nat /\ n <= to /\ ~(n <= cert.new)
      BY <1>5, <1>6, <1>8, <2>1
    <2>3. n <= D
      BY <1>6, <1>10, <2>2
    <2>4. cert.new = LastSettledLER
      BY <1>6, <1>10, <2>2, <2>3
    <2> QED
      BY <1>9, <2>1, <2>3, <2>4 DEF BlocksIn
  <1>13. NothingSkipped'
    BY <1>3, <1>5, <1>11, <1>12 DEF NothingSkipped, BlocksIn, E
  <1>14. SettledBoundary' <= tip'
    BY <1>3, <1>5, <1>6 DEF E
  <1> QED
    BY <1>4, <1>7, <1>13, <1>14, SMTT(30) DEF SettledInv

\* A decision of the AggLayer keeps the inductive invariant: what the process or its
\* storage still holds of the settled height becomes outdated.
LEMMA SettleKeepsIInv == IInv /\ SettleCertificate => IInv'
  <1> SUFFICES ASSUME IInv, SettleCertificate PROVE IInv'
    OBVIOUS
  <1> USE DEF IInv
  <1>1. TypeOK' /\ SettledInv'
    BY TypeEnvironment, SettleKeepsSettled, SMTT(30) DEF Environment
  <1>2. L2Inv'
    BY SMTT(30) DEF SettleCertificate, l2Vars, L2Inv, IsLastIn, IsLastUpTo
  <1>3. PendingInv'
    BY DEF SettleCertificate, PendingInv
  <1>4. UNCHANGED <<params, seen, db>>
    BY SMTT(30) DEF SettleCertificate, memory
  <1>5. /\ Len(settled') = Len(settled) + 1 /\ Len(settled) \in Nat
        /\ \A c \in Certificate : IsSettledCert(c) => IsSettledCert(c)'
    BY PendingFollows, AppendSettled DEF SettleCertificate, TypeOK, AgglayerTypeOK
  <1>6. \A h \in Nat : h <= Len(settled) => h <= Len(settled') /\ h # Len(settled')
    BY <1>5
  <1>7. ParamsInv'
    <2>1. params # NoCert => params.cert.height \in Nat
      BY DEF TypeOK, ProcessTypeOK, Row, Certificate
    <2> QED
      BY <1>4, <1>6, <2>1 DEF ParamsInv
  <1>8. SeenInv'
    <2>1. seen # NoCert => seen.cert \in Certificate
      BY DEF TypeOK, ProcessTypeOK, Header
    <2> QED
      BY <1>4, <1>5, <2>1 DEF SeenInv, IsSettled
  <1>9. ASSUME NEW row \in db.info PROVE RowInv(row)'
    <2>1. row.cert \in Certificate /\ row.cert.height \in Nat
      BY DEF TypeOK, Storage, Row, Certificate
    <2>2. RowInv(row)
      BY DEF StorageInv
    <2> QED
      BY <1>5, <1>6, <2>1, <2>2 DEF RowInv, IsSettled
  <1>10. StorageInv'
    BY <1>4, <1>9 DEF StorageInv
  <1> QED
    BY <1>1, <1>2, <1>3, <1>7, <1>8, <1>10

\* A rejection changes the status of the undecided certificate only.
LEMMA RejectKeepsIInv == IInv /\ RejectCertificate => IInv'
  <1> SUFFICES ASSUME IInv, RejectCertificate PROVE IInv'
    OBVIOUS
  <1> USE DEF IInv
  <1>1. TypeOK'
    BY TypeEnvironment DEF Environment
  <1>2. UNCHANGED <<l2Vars, settled, settledIbe>> /\ UNCHANGED <<params, seen, db>>
    BY DEF RejectCertificate, memory
  <1>3. L2Inv' /\ SettledInv' /\ ParamsInv' /\ SeenInv' /\ StorageInv'
    BY <1>2, SameWorld, SameParams, SameSeen, SameStorage DEF StorageInv
  <1>4. pending # NoCert /\ pending \in Header /\ pending' = [pending EXCEPT !.status = "InError"]
    BY DEF RejectCertificate, TypeOK, AgglayerTypeOK
  <1>5. pending'.cert = pending.cert /\ pending'.status = "InError"
    BY <1>4 DEF Header
  <1>6. PendingInv'
    BY <1>2, <1>4, <1>5, SameSettled, SameFollows DEF PendingInv, l2Vars
  <1> QED
    BY <1>1, <1>3, <1>6

\* A new L1 info root is in no conjunct of the invariant but the types.
LEMMA FinalizeKeepsIInv == IInv /\ FinalizeL1InfoRoot => IInv'
  <1> SUFFICES ASSUME IInv, FinalizeL1InfoRoot PROVE IInv'
    OBVIOUS
  <1> USE DEF IInv
  <1>1. TypeOK'
    BY TypeEnvironment DEF Environment
  <1>2. UNCHANGED <<tip, bridges, claims, lerAt, lastClaimAt>> /\ UNCHANGED <<settled, settledIbe, pending>>
        /\ UNCHANGED <<params, seen, db>>
    BY SMTT(30) DEF FinalizeL1InfoRoot, agglayerVars, memory
  <1>3. \A cert, from, to : Follows(cert, from, to)' <=> Follows(cert, from, to)
    BY <1>2, SameSettled DEF Follows, BlocksIn
  <1>4. L2Inv'
    BY <1>2 DEF L2Inv, IsLastIn, IsLastUpTo
  <1>5. SettledInv'
    BY <1>2, SameSettled, SMTT(30) DEF SettledInv, NothingSkipped, BlocksIn
  <1>6. PendingInv' /\ ParamsInv'
    BY <1>2, <1>3, SameSettled, SMTT(30) DEF PendingInv, ParamsInv
  <1>7. SeenInv' /\ StorageInv'
    BY <1>2, SameSeen, SameStorage, SMTT(30) DEF StorageInv
  <1> QED
    BY <1>1, <1>4, <1>5, <1>6, <1>7

-----------------------------------------------------------------------------
(***************************************************************************)
(* Steps of the process.                                                   *)
(***************************************************************************)

\* A step of the process alone has to account for its memory and its storage.
LEMMA ProcessKeepsIInv ==
    ASSUME IInv, TypeOK', UNCHANGED <<l2Vars, agglayerVars>>,
           params' \in {params, NoCert}, seen' \in {seen, NoCert}, \A row \in db'.info : RowInv(row)
    PROVE  IInv'
  <1>1. UNCHANGED <<l2Vars, settled, settledIbe, pending>>
    BY DEF agglayerVars
  <1> QED
    BY <1>1, SameWorld, SamePending, SameParams, SameSeen, SameStorage DEF IInv

\* The ways between the control points drop what the process holds, or keep it.
LEMMA Memory ==
    /\ \A point : ForgetAndGoTo(point) => params' = NoCert /\ seen' = NoCert
    /\ AttemptFailed => params' = NoCert /\ seen' \in {seen, NoCert}
  BY DEF ForgetAndGoTo, AttemptFailed, Idle

\* Starting, ticking, crashing and wiping.
LEMMA ControlKeepsIInv == IInv /\ (Start \/ Tick \/ Trigger \/ Crash \/ WipeDatabase) => IInv'
  <1> SUFFICES ASSUME IInv, Start \/ Tick \/ Trigger \/ Crash \/ WipeDatabase PROVE IInv'
    OBVIOUS
  <1>1. TypeOK'
    BY TypeStep DEF IInv, Next
  <1>2. UNCHANGED <<l2Vars, agglayerVars>>
    BY DEF Start, Tick, Trigger, Crash, WipeDatabase
  <1>3. params' \in {params, NoCert} /\ seen' \in {seen, NoCert}
    BY Memory DEF Start, Tick, Trigger, Crash, WipeDatabase, Stopped
  <1>4. db' = db \/ db' = EmptyStorage
    BY DEF Start, Tick, Trigger, Crash, WipeDatabase
  <1>5. \A row \in db'.info : RowInv(row)
    BY <1>4 DEF IInv, StorageInv, EmptyStorage
  <1> QED
    BY <1>1, <1>2, <1>3, <1>5, ProcessKeepsIInv

\* What the AggLayer reports of a certificate, as a header: a settled one is in the settled
\* sequence, any other one has the next height.
GoodHeader(h) ==
    /\ h \in Header
    /\ IsSettled(h) => IsSettledCert(h.cert)
    /\ ~IsSettled(h) => h.cert.height = Len(settled)

\* The two certificates newInitialStatus reads are good headers, though the AggLayer may
\* have moved on between the two reads.
LEMMA SeenHeaders ==
    ASSUME IInv, NEW h \in {seen, pending} \ {NoCert}
    PROVE  GoodHeader(h)
  BY DEF IInv, TypeOK, ProcessTypeOK, AgglayerTypeOK, SeenInv, PendingInv, GoodHeader, IsSettled

\* A row that takes the status of a good header of its certificate stays good.
LEMMA StatusFromHeader ==
    ASSUME IInv, NEW old \in Row, RowInv(old), NEW h, GoodHeader(h), old.cert = h.cert,
           NEW new, new = [old EXCEPT !.status = h.status]
    PROVE  RowInv(new)
  <1>1. new.cert = old.cert /\ new.status = h.status /\ new.from = old.from
    BY DEF Row
  <1>2. CASE IsSettled(h)
    BY <1>1, <1>2 DEF RowInv, IsSettled, GoodHeader
  <1>3. CASE ~IsSettled(h)
    <2>1. ~IsSettled(old)
      <3>1. old.cert.height = Len(settled) /\ Len(settled) \in Nat
        BY <1>3 DEF GoodHeader, IInv, TypeOK, AgglayerTypeOK
      <3>2. ~(old.cert.height < Len(settled))
        BY <3>1, SMTT(30)
      <3> QED
        BY <3>2 DEF RowInv, IsSettledCert
    <2> QED
      BY <1>1, <1>3, <2>1 DEF RowInv, IsSettled
  <1> QED
    BY <1>2, <1>3

\* Executing one recovery action keeps every row good.
LEMMA ExecuteKeepsRows ==
    ASSUME IInv, NEW storage \in Storage, \A row \in storage.info : RowInv(row),
           NEW headers \in SUBSET Header, \A h \in headers : GoodHeader(h),
           NEW result, NEW local,
           result.action \in {"InsertNew", "Update"} => result.header \in headers,
           result.action = "Update" => result.header.cert = local.cert
    PROVE  LET after == executeInitialStatusAction(storage, result, local) IN
           after \in Storage /\ \A row \in after.info : RowInv(row)
  <1> DEFINE after == executeInitialStatusAction(storage, result, local)
  <1>1. settledIbe \in 0..MaxBlock
    BY DEF IInv, TypeOK, AgglayerTypeOK
  <1>2. /\ after \in Storage
        /\ \A new \in after.info : OfHeaders(storage, headers, new)
    BY <1>1, ExecuteRows, Zenon
  <1> HIDE DEF after
  <1>3. ASSUME NEW new \in after.info PROVE RowInv(new)
    <2>1. CASE new \in storage.info
      BY <2>1
    <2>2. ASSUME NEW old \in storage.info, NEW h \in headers,
                 old.cert = h.cert, new = [old EXCEPT !.status = h.status]
          PROVE  RowInv(new)
      <3>1. old \in Row /\ RowInv(old) /\ GoodHeader(h)
        BY SMTT(30) DEF Storage
      <3> QED
        BY <2>2, <3>1, StatusFromHeader
    <2>3. ASSUME NEW h \in headers, IsSettled(h), new = newSettledCertificateInfo(h) PROVE RowInv(new)
      BY <2>3 DEF newSettledCertificateInfo, RowInv, GoodHeader, IsSettled
    <2> QED
      BY <1>2, <2>1, <2>2, <2>3 DEF OfHeaders
  <1> QED
    BY <1>2, <1>3, SMTT(30) DEF after

\* The header read first stays good: it is settled when it is read.
LEMMA ReadSettledKeepsIInv == IInv /\ ReadSettled => IInv'
  <1> SUFFICES ASSUME IInv, ReadSettled PROVE IInv'
    OBVIOUS
  <1>1. TypeOK' /\ UNCHANGED <<l2Vars, agglayerVars, db>>
    BY TypeCheck, ZenonT(30) DEF IInv, Check, ReadSettled
  <1>2. CASE CheckLastDone(TRUE)
    <2>1. params' = params /\ seen' = NoCert
      BY <1>2 DEF CheckLastDone
    <2> QED
      BY <1>1, <2>1, ProcessKeepsIInv DEF IInv, StorageInv
  <1>3. CASE seen' = LatestSettledHeader /\ params' = params
    <2>1. UNCHANGED <<l2Vars, settled, settledIbe, pending, db>>
      BY <1>1, SMTT(30) DEF agglayerVars
    <2>2. SeenInv'
      <3>1. SUFFICES ASSUME settled # <<>> PROVE SeenInv'
        BY <1>3 DEF LatestSettledHeader, SeenInv
      <3>2. Len(settled) \in Nat \ {0} /\ settled[Len(settled)].height = Len(settled) - 1
        BY <3>1 DEF IInv, TypeOK, AgglayerTypeOK, SettledInv
      <3>3. IsSettledCert(settled[Len(settled)])
        BY <3>2 DEF IsSettledCert
      <3>4. seen' = [cert |-> settled[Len(settled)], status |-> "Settled"]
        BY <1>3, <3>1 DEF LatestSettledHeader
      <3>5. seen'.cert = settled[Len(settled)] /\ seen'.status = "Settled"
        BY <3>4, SMTT(30)
      <3> QED
        BY <2>1, <3>3, <3>5, SameSettled DEF SeenInv, IsSettled
    <2>3. L2Inv' /\ SettledInv' /\ PendingInv' /\ ParamsInv' /\ StorageInv'
      BY <1>3, <2>1, SameWorld, SamePending, SameParams, SameStorage, Zenon DEF IInv, StorageInv
    <2> QED
      BY <1>1, <2>2, <2>3 DEF IInv
  <1> QED
    BY <1>2, <1>3, Zenon DEF ReadSettled

\* The recovery executes good results on good rows.
LEMMA RecoverKeepsIInv == IInv /\ ReadPendingAndRecover => IInv'
  <1> SUFFICES ASSUME IInv, ReadPendingAndRecover PROVE IInv'
    OBVIOUS
  <1>1. TypeOK' /\ UNCHANGED <<l2Vars, agglayerVars>>
    BY TypeCheck, ZenonT(30) DEF IInv, Check, ReadPendingAndRecover
  <1>2. params' = params /\ seen' = NoCert
    BY Zenon DEF ReadPendingAndRecover, CheckLastDone
  <1>3. \A row \in db.info : RowInv(row)
    BY DEF IInv, StorageInv
  <1>4. ASSUME NEW local, NEW localSettled, NEW actions,
               actions = process([agglayerSettled |-> seen, agglayerPending |-> pending,
                                  local |-> local, localSettled |-> localSettled]),
               \/ db' = IF ActionFails(actions[1]) THEN db
                        ELSE executeInitialStatusAction(
                               executeInitialStatusAction(db, actions[1], local),
                               actions[2], local)
               \/ ~ActionFails(actions[1]) /\ db' = executeInitialStatusAction(db, actions[1], local)
        PROVE  \A row \in db'.info : RowInv(row)
    <2> DEFINE headers == {seen, pending} \ {NoCert}
               first == executeInitialStatusAction(db, actions[1], local)
               second == executeInitialStatusAction(first, actions[2], local)
    <2>1. headers \in SUBSET Header /\ \A h \in headers : GoodHeader(h)
      BY SeenHeaders DEF GoodHeader
    <2>2. db \in Storage
      BY SMTT(30) DEF IInv, TypeOK
    <2>3. CASE ActionFails(actions[1])
      BY <1>3, <1>4, <2>3, SMTT(30)
    <2>4. CASE ~ActionFails(actions[1])
      <3>1. \A k \in {1, 2} :
               /\ actions[k].action \in {"InsertNew", "Update"} => actions[k].header \in headers
               /\ actions[k].action = "Update" => actions[k].header.cert = local.cert
        BY <1>4, <2>4, RecoverResults, SMTT(30) DEF IInv
      <3> HIDE DEF headers
      <3>2. first \in Storage /\ \A row \in first.info : RowInv(row)
        BY <1>3, <2>1, <2>2, <3>1, ExecuteKeepsRows, Zenon
      <3> HIDE DEF first
      <3>3. \A row \in second.info : RowInv(row)
        BY <2>1, <3>1, <3>2, ExecuteKeepsRows, Zenon
      <3> QED
        BY <1>4, <2>4, <3>2, <3>3, SMTT(30) DEF first
    <2> QED
      BY <2>3, <2>4
  <1>5. \A row \in db'.info : RowInv(row)
    BY <1>3, <1>4, ZenonT(30) DEF ReadPendingAndRecover
  <1> QED
    BY <1>1, <1>2, <1>5, ProcessKeepsIInv, SMTT(30)

\* An open row that takes the status the AggLayer reports for its ID stays good.
LEMMA RefreshKeepsIInv == IInv /\ checkPendingCertificatesStatus => IInv'
  <1> SUFFICES ASSUME IInv, checkPendingCertificatesStatus PROVE IInv'
    OBVIOUS
  <1>1. TypeOK' /\ UNCHANGED <<l2Vars, agglayerVars>>
    BY TypeCheck, Zenon DEF IInv, Check, checkPendingCertificatesStatus
  <1>2. params' = params /\ seen' = seen
    BY DEF checkPendingCertificatesStatus, CheckPendingDone
  <1>3. PICK rows \in SUBSET GetCertificateHeadersByStatus(db, {"Open"}) : db' = RefreshStatuses(db, rows)
    BY Zenon DEF checkPendingCertificatesStatus
  <1>4. ASSUME NEW old \in db.info, old \in rows, NEW new, new = [old EXCEPT !.status = AgglayerStatus(old.cert)]
        PROVE  RowInv(new)
    <2>1. old \in Row /\ RowInv(old) /\ ~IsSettled(old)
      BY <1>3, <1>4 DEF IInv, TypeOK, Storage, StorageInv, GetCertificateHeadersByStatus, IsSettled
    <2>2. new.cert = old.cert /\ new.from = old.from /\ new.status = AgglayerStatus(old.cert)
      BY <1>4, <2>1 DEF Row
    <2>3. IsSettled(new) => IsSettledCert(old.cert)
      <3>1. SUFFICES ASSUME AgglayerStatus(old.cert) = "Settled" PROVE IsSettledCert(old.cert)
        BY <2>2, SMTT(30) DEF IsSettled
      <3>2. PICK i \in 1..Len(settled) : settled[i] = old.cert
        BY <3>1 DEF AgglayerStatus, IInv, PendingInv
      <3>3. settled[i].height = i - 1 /\ Len(settled) \in Nat
        BY DEF IInv, SettledInv, TypeOK, AgglayerTypeOK
      <3>4. old.cert.height = i - 1
        BY <3>2, <3>3
      <3> QED
        BY <3>2, <3>3, <3>4 DEF IsSettledCert
    <2> QED
      BY <2>1, <2>2, <2>3, Zenon DEF RowInv
  <1>5. ASSUME NEW new \in db'.info PROVE RowInv(new)
    <2>1. \A cert \in Certificate : AgglayerStatus(cert) \in Statuses
      BY AgglayerStatusType DEF IInv, TypeOK, AgglayerTypeOK
    <2>2. PICK old \in db.info :
             new = old \/ (old \in rows /\ new = [old EXCEPT !.status = AgglayerStatus(old.cert)])
      BY <1>3, <2>1, RefreshRows, SMTT(30) DEF IInv, TypeOK
    <2> QED
      BY <1>4, <2>2 DEF IInv, StorageInv
  <1> QED
    BY <1>1, <1>2, <1>5, ProcessKeepsIInv, Zenon

\* What is built on a good last row is outdated or follows the settled blocks.
LEMMA BuiltFollows ==
    ASSUME IInv, NEW last \in db.info \cup {NoCert}, ~NotClosed(last),
           NEW from, from = PreviousToBlock(last) + 1, NEW to \in from..tip,
           NEW cert, cert = BuildCertificate(last, from, to)
    PROVE  /\ from > 0
           /\ cert.height <= Len(settled)
           /\ cert.height = Len(settled) => Follows(cert, from, to)
  <1>1. Len(settled) \in Nat /\ settled \in Seq(Certificate)
    BY SMTT(30) DEF IInv, TypeOK, AgglayerTypeOK
  <1>2. last # NoCert => last \in Row /\ last.cert \in Certificate /\ last.cert.height \in Nat /\ RowInv(last)
    BY SMTT(30) DEF IInv, TypeOK, Storage, Row, Certificate, StorageInv
  <1>3. from > 0
    <2>1. PreviousToBlock(last) \in 0..MaxBlock
      BY BuildTypes, SMTT(30) DEF IInv
    <2> QED
      BY <2>1, SMTT(30)
  <1>4. cert.height = NextHeight(last) /\ cert.prev = PreviousLER(last)
    BY SMTT(30) DEF BuildCertificate
  <1>5. /\ NextHeight(last) <= Len(settled)
        /\ NextHeight(last) = Len(settled) => from = SettledBoundary + 1 /\ PreviousLER(last) = LastSettledLER
    <2>1. CASE last = NoCert
      <3>1. NextHeight(last) = 0 /\ PreviousLER(last) = 0 /\ from = 1
        BY <2>1 DEF NextHeight, PreviousLER, InitialLER, PreviousToBlock, StartL2Block
      <3>2. ASSUME Len(settled) = 0 PROVE SettledBoundary = 0 /\ LastSettledLER = 0
        <4>1. settled = <<>>
          BY <1>1, <3>2
        <4>2. settledIbe = 0
          BY <4>1 DEF IInv, SettledInv
        <4>3. LastSettledLER = 0
          BY <4>1, SMTT(30) DEF LastSettledLER, InitialLER
        <4> QED
          BY <4>2, <4>3 DEF SettledBoundary, Max2
      <3> QED
        BY <1>1, <3>1, <3>2, SMTT(30)
    <2>2. CASE last # NoCert /\ IsSettled(last)
      <3>1. last.cert.height < Len(settled) /\ settled[last.cert.height + 1] = last.cert
        BY <1>2, <2>2, SMTT(30) DEF RowInv, IsSettledCert
      <3>2. NextHeight(last) = last.cert.height + 1 /\ PreviousLER(last) = last.cert.new
        BY <2>2, SMTT(30) DEF NextHeight, PreviousLER, HeightOf
      <3>3. from = Max2(last.cert.new, settledIbe) + 1
        BY <2>2 DEF PreviousToBlock, GetLastSettledCertificateToBlock
      <3>4. ASSUME NextHeight(last) = Len(settled) PROVE LastSettledLER = last.cert.new
        <4>1. last.cert.height + 1 = Len(settled)
          BY <3>2, <3>4, SMTT(30)
        <4>2. settled[Len(settled)] = last.cert
          BY <3>1, <4>1, SMTT(30)
        <4>3. settled # <<>>
          BY <1>1, <1>2, <2>2, <4>1, SMTT(30)
        <4> QED
          BY <4>2, <4>3, SMTT(30) DEF LastSettledLER
      <3>5. NextHeight(last) <= Len(settled)
        BY <1>1, <1>2, <2>2, <3>1, <3>2, SMTT(30)
      <3> QED
        BY <3>2, <3>3, <3>4, <3>5, SMTT(30) DEF SettledBoundary
    <2>3. CASE last # NoCert /\ ~IsSettled(last)
      <3>1. IsInError(last)
        BY <1>2, <2>3, SMTT(30) DEF NotClosed, IsOpen, IsSettled, IsInError, Row, Statuses
      <3>2. last.from \in Nat /\ last.from > 0 /\ last.cert.height <= Len(settled)
        BY <1>2, <2>3, SMTT(30) DEF RowInv, Row
      <3>3. NextHeight(last) = last.cert.height /\ PreviousLER(last) = last.cert.prev
        BY <2>3, SMTT(30) DEF NextHeight, PreviousLER, HeightOf
      <3>4. from = last.from
        BY <2>3, <3>1, <3>2, SMTT(30) DEF PreviousToBlock
      <3> QED
        BY <1>2, <2>3, <3>2, <3>3, <3>4, SMTT(30) DEF RowInv
    <2> QED
      BY <2>1, <2>2, <2>3, SMTT(30)
  <1>6. /\ cert.bridges = BlocksIn(bridges, from, to) /\ cert.ibes = BlocksIn(claims, from, to)
        /\ cert.new = IF cert.bridges = {} THEN cert.prev ELSE lerAt[to]
        /\ cert.lastIbe = IF cert.ibes = {} THEN 0 ELSE lastClaimAt[to]
    BY ZenonT(30) DEF BuildCertificate
  <1> QED
    BY <1>3, <1>4, <1>5, <1>6, Zenon DEF Follows

\* Building keeps the invariant.
LEMMA BuildKeepsIInv == IInv /\ Build => IInv'
  <1> SUFFICES ASSUME IInv, Build PROVE IInv'
    OBVIOUS
  <1>1. TypeOK' /\ UNCHANGED <<l2Vars, agglayerVars, db>>
    BY TypeSendOne, Zenon DEF IInv, SendOne, Build
  <1>2. \A row \in db'.info : RowInv(row)
    BY <1>1 DEF IInv, StorageInv
  <1>3. CASE params' = NoCert /\ seen' \in {seen, NoCert}
    BY <1>1, <1>2, <1>3, ProcessKeepsIInv, SMTT(30)
  <1>4. ASSUME NEW last \in db.info \cup {NoCert}, ~NotClosed(last),
               NEW from, from = PreviousToBlock(last) + 1, NEW to \in from..tip,
               params' = [cert |-> BuildCertificate(last, from, to), status |-> "Open",
                          retryCount |-> RetryCount(last), from |-> from, to |-> to],
               seen' = seen
        PROVE  IInv'
    <2> DEFINE cert == BuildCertificate(last, from, to)
    <2>1. /\ from > 0 /\ cert.height <= Len(settled)
          /\ cert.height = Len(settled) => Follows(cert, from, to)
      BY <1>4, BuiltFollows, ZenonT(30)
    <2>2. params'.cert = cert /\ params'.status = "Open" /\ params'.from = from /\ params'.to = to
      BY <1>4, Zenon
    <2> HIDE DEF cert
    <2>3. UNCHANGED <<l2Vars, settled, settledIbe, pending, db>>
      BY <1>1, SMTT(30) DEF agglayerVars
    <2>4. ParamsInv'
      BY <2>1, <2>2, <2>3, SameFollows DEF ParamsInv
    <2> QED
      BY <1>1, <1>2, <1>4, <2>3, <2>4, SameWorld, SamePending, SameSeen, SameStorage, SMTT(30) DEF IInv
  <1> QED
    BY <1>3, <1>4, Memory, ZenonT(30) DEF Build, Idle

\* What the AggLayer accepts has the next height, so it follows the settled blocks.
LEMMA SendKeepsIInv == IInv /\ SendCertificate => IInv'
  <1> SUFFICES ASSUME IInv, SendCertificate PROVE IInv'
    OBVIOUS
  <1>1. TypeOK' /\ UNCHANGED <<l2Vars, settled, settledIbe, db>>
    BY TypeSendOne, SMTT(30) DEF IInv, SendOne, SendCertificate
  <1>2. params' \in {params, NoCert} /\ seen' \in {seen, NoCert}
    BY Memory, SMTT(30) DEF SendCertificate, memory
  <1>3. L2Inv' /\ SettledInv' /\ ParamsInv' /\ SeenInv' /\ StorageInv'
    BY <1>1, <1>2, SameWorld, SameParams, SameSeen, SameStorage, SMTT(30) DEF IInv, StorageInv
  <1>4. PendingInv'
    <2>1. CASE pending' = pending
      BY <1>1, <2>1, SamePending DEF IInv
    <2>2. CASE Accepts(params.cert) /\ pending' = [cert |-> params.cert, status |-> "Open"]
      <3>1. params # NoCert /\ params.cert.height = Len(settled)
        BY <2>2 DEF SendCertificate, IInv, TypeOK, ProcessTypeOK, Accepts
      <3>2. Follows(params.cert, params.from, params.to)
        BY <3>1, SMTT(30) DEF IInv, ParamsInv
      <3>3. params.from = SettledBoundary + 1 /\ params.to \in params.from..tip
        BY <3>2 DEF Follows
      <3>4. SettledBoundary \in 0..MaxBlock
        BY Boundary DEF IInv
      <3>5. params.to \in 0..tip
        BY <3>3, <3>4
      <3>6. pending'.cert = params.cert /\ pending'.status = "Open"
        BY <2>2
      <3>7. SettledBoundary' = SettledBoundary /\ Follows(params.cert, SettledBoundary + 1, params.to)
        BY <1>1, <3>2, <3>3, SameSettled
      <3>8. tip' = tip
        BY <1>1 DEF l2Vars
      <3>9. \A c, f, t : Follows(c, f, t)' <=> Follows(c, f, t)
        BY <1>1, SameFollows
      <3>10. \E to \in 0..tip' : Follows(pending.cert, SettledBoundary + 1, to)'
        <4> DEFINE to == params.to
        <4>1. PICK c, f, t : c = params.cert /\ f = SettledBoundary + 1 /\ t = params.to
          OBVIOUS
        <4>2. Follows(c, f, t)' /\ t \in 0..tip'
          BY <3>5, <3>7, <3>8, <3>9, <4>1
        <4>3. pending'.cert = c /\ SettledBoundary' + 1 = f
          BY <3>6, <3>7, <4>1
        <4> QED
          BY <4>2, <4>3
      <3> QED
        BY <1>1, <3>1, <3>6, <3>10, SMTT(30) DEF PendingInv
    <2> QED
      BY <2>1, <2>2 DEF SendCertificate
  <1> QED
    BY <1>1, <1>3, <1>4, SMTT(30) DEF IInv

\* Storing what was sent, and giving up, keep the invariant.
LEMMA SaveKeepsIInv == IInv /\ (SaveCertificate \/ BuildOrSendFails) => IInv'
  <1> SUFFICES ASSUME IInv, SaveCertificate \/ BuildOrSendFails PROVE IInv'
    OBVIOUS
  <1>1. TypeOK' /\ UNCHANGED <<l2Vars, agglayerVars>>
    BY TypeSendOne DEF IInv, SendOne, SaveCertificate, BuildOrSendFails
  <1>2. params' = NoCert /\ seen' \in {seen, NoCert}
    BY Memory, SMTT(30) DEF SaveCertificate, BuildOrSendFails, Idle
  <1>3. CASE db' = db
    BY <1>1, <1>2, <1>3, ProcessKeepsIInv, SMTT(30) DEF IInv, StorageInv
  <1>4. CASE pc = "save" /\ db' = SaveLastSentCertificate(db, params)
    <2>1. params # NoCert /\ params \in Row
      BY <1>4, SMTT(30) DEF IInv, TypeOK, ProcessTypeOK
    <2>2. db'.info \subseteq db.info \cup {params}
      BY <1>4, <2>1, SaveRows, SMTT(30) DEF IInv, TypeOK
    <2>3. RowInv(params)
      BY <2>1 DEF IInv, ParamsInv, RowInv, IsSettled, Follows
    <2> QED
      BY <1>1, <1>2, <2>2, <2>3, ProcessKeepsIInv, SMTT(30) DEF IInv, StorageInv
  <1> QED
    BY <1>3, <1>4 DEF SaveCertificate, BuildOrSendFails

-----------------------------------------------------------------------------
(***************************************************************************)
(* The theorems.                                                           *)
(***************************************************************************)

\* The initial state satisfies the inductive invariant.
LEMMA InitIInv == Init => IInv
  <1> SUFFICES ASSUME Init PROVE IInv
    OBVIOUS
  <1>1. TypeOK
    BY TypeInit
  <1>2. tip = 0 /\ bridges = {} /\ claims = {} /\ settled = <<>> /\ settledIbe = 0
    BY DEF Init
  <1>3. L2Inv
    <2>1. \A n \in 0..0 : lerAt[n] = 0 /\ lastClaimAt[n] = 0
      BY DEF Init, InitialLER
    <2> QED
      BY <1>2, <2>1 DEF L2Inv, IsLastIn, IsLastUpTo
  <1>4. SettledBoundary = 0 /\ LastSettledLER = 0 /\ SettledClaims = {}
    BY <1>2 DEF SettledBoundary, LastSettledLER, SettledClaims, InitialLER, Max2
  <1>5. SettledInv
    BY <1>2, <1>4, SMTT(30) DEF SettledInv, NothingSkipped, BlocksIn
  <1>6. PendingInv /\ ParamsInv /\ SeenInv /\ StorageInv
    BY DEF Init, PendingInv, ParamsInv, SeenInv, StorageInv, EmptyStorage
  <1> QED
    BY <1>1, <1>3, <1>5, <1>6 DEF IInv

\* Every step keeps the inductive invariant.
LEMMA StepIInv == IInv /\ [Next]_vars => IInv'
  <1> SUFFICES ASSUME IInv, [Next]_vars PROVE IInv'
    OBVIOUS
  <1>1. CASE Environment
    BY <1>1, SyncKeepsIInv, FinalizeKeepsIInv, SettleKeepsIInv, RejectKeepsIInv DEF Environment
  <1>2. CASE Start \/ Tick \/ Trigger \/ Crash \/ WipeDatabase
    BY <1>2, ControlKeepsIInv
  <1>3. CASE Check
    BY <1>3, ReadSettledKeepsIInv, RecoverKeepsIInv, RefreshKeepsIInv DEF Check
  <1>4. CASE SendOne
    BY <1>4, BuildKeepsIInv, SendKeepsIInv, SaveKeepsIInv, SMTT(30) DEF SendOne
  <1>5. CASE UNCHANGED vars
    <2>1. TypeOK'
      BY TypeStep DEF IInv
    <2>2. UNCHANGED <<l2Vars, agglayerVars>> /\ params' = params /\ seen' = seen /\ db' = db
      BY <1>5 DEF vars, memory
    <2> QED
      BY <2>1, <2>2, ProcessKeepsIInv DEF IInv, StorageInv
  <1> QED
    BY <1>1, <1>2, <1>3, <1>4, <1>5 DEF Next

\* The inductive invariant holds in every reachable state.
THEOREM Invariant == Spec => []IInv
  BY InitIInv, StepIInv, PTL DEF Spec

\* NextCertificateBlockRange never skips an event: every claim up to the block the next
\* range starts after is settled, and there is no bridge exit between the settled LER and
\* that block.
THEOREM NothingIsSkipped == Spec => []NothingSkipped
  <1>1. IInv => NothingSkipped
    BY DEF IInv, SettledInv
  <1> QED
    BY <1>1, Invariant, PTL

\* Whatever the AggLayer has accepted from the aggsender can be proved, whichever calls,
\* answers or writes failed and however often the process was restarted or wiped.
THEOREM SubmittedIsProvable == Spec => []SubmittedProvable
  <1>1. IInv => SubmittedProvable
    <2> SUFFICES ASSUME IInv, pending # NoCert PROVE Provable(pending.cert)
      BY DEF SubmittedProvable
    <2>1. PICK to \in 0..tip : Follows(pending.cert, SettledBoundary + 1, to)
      BY PendingFollows DEF IInv
    <2>2. pending.cert \in Certificate
      BY PendingFollows DEF IInv
    <2> QED
      BY <2>1, <2>2, FollowsProvable DEF IInv
  <1> QED
    BY <1>1, Invariant, PTL

\* A row the local storage holds as settled is the certificate the AggLayer settled at
\* that height, whatever the two reads of the status checker saw in between.
THEOREM StoredSettledIsSettled ==
    Spec => [](\A row \in db.info : IsSettled(row) =>
                  HeightOf(row) < Len(settled) /\ settled[HeightOf(row) + 1] = row.cert)
  <1>1. IInv => (\A row \in db.info : IsSettled(row) =>
                    HeightOf(row) < Len(settled) /\ settled[HeightOf(row) + 1] = row.cert)
    BY DEF IInv, StorageInv, RowInv, IsSettledCert, HeightOf
  <1> QED
    BY <1>1, Invariant, PTL
=============================================================================
