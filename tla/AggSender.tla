------------------------------- MODULE AggSender -------------------------------
(***************************************************************************)
(* The life of a certificate: the aggsender main loop                      *)
(* (aggsender/aggsender.go), the status checker that keeps the local       *)
(* storage in step with the AggLayer (aggsender/statuschecker), the        *)
(* pessimistic-proof builder flow that picks the next block range          *)
(* (aggsender/flows), the storage (CertStorage) and, as their environment, *)
(* the synced L2 chain and the AggLayer.                                   *)
(*                                                                         *)
(* An L2 block may hold bridge exits and claims.  A local exit root (LER)  *)
(* is represented by the number of the block that holds its last bridge    *)
(* exit, 0 for the initial LER: block ranges are block-aligned, so the two *)
(* determine each other.  A certificate is the record of the fields its ID *)
(* hashes, and stands for its ID:                                          *)
(*   [height, prev, new (LERs), bridges, ibes (blocks of its events),      *)
(*    lastIbe (block of its last imported bridge exit), leafCount].        *)
(* The three open statuses Pending, Proven and Candidate, which the code   *)
(* never tells apart, are one status "Open".                               *)
(***************************************************************************)
EXTENDS CertStorage, Integers, Sequences

CONSTANTS MaxBlock,               \* bound: L2 blocks produced
          MaxLeafCount,           \* bound: L1 info tree leaves after the first
          MaxAttempts,            \* RetriesToBuildAndSendCertificate
          MaxFaults,              \* bound: environment faults in a behaviour
          Faults,                 \* the kinds of faults that may happen
          RetryCertAfterInError,  \* configuration of the status tick
          ForceOneBridgeExit      \* configuration of the builder flow

ASSUME BoundsAssumption ==
    /\ MaxBlock \in Nat /\ MaxLeafCount \in Nat
    /\ MaxAttempts \in Nat \ {0} /\ MaxFaults \in Nat
ASSUME FaultsAssumption == Faults \subseteq {"crash", "call", "reply", "store", "proof"}
ASSUME ConfigAssumption == RetryCertAfterInError \in BOOLEAN /\ ForceOneBridgeExit \in BOOLEAN

VARIABLES
    \* The L2 chain as bridgesync and claimsync have stored it, and the L1 info tree.
    tip, bridges, claims,
    lerAt,          \* block -> LER after that block
    lastClaimAt,    \* block -> block of the last claim up to it, 0 for none
    leafCount,
    \* The AggLayer: settled certificates by height, the last non-settled one, and the
    \* last settled imported bridge exit of the network info.
    settled, pending, settledIbe,
    \* The aggsender database, and whether the last check asked for a manual wipe of it.
    db, alarm,
    \* The aggsender process: control point, what runs it, and what it holds in memory.
    pc, mode, seen, checkFailed, attempt, params,
    faults

l2Vars       == <<tip, bridges, claims, lerAt, lastClaimAt, leafCount>>
agglayerVars == <<settled, pending, settledIbe>>
memory       == <<mode, seen, checkFailed, attempt, params>>
vars         == <<l2Vars, agglayerVars, db, alarm, pc, memory, faults>>

InitialLER == 0
StartL2Block == 0

Max2(a, b) == IF a >= b THEN a ELSE b
BlocksIn(set, from, to) == {n \in set : from <= n /\ n <= to}

Init ==
    /\ tip = 0 /\ bridges = {} /\ claims = {}
    /\ lerAt = [n \in 0..MaxBlock |-> InitialLER]
    /\ lastClaimAt = [n \in 0..MaxBlock |-> 0]
    /\ leafCount = 0
    /\ settled = <<>> /\ pending = NoCert /\ settledIbe = 0
    /\ db = EmptyStorage /\ alarm = FALSE
    /\ pc = "down" /\ mode = "none" /\ seen = NoCert /\ checkFailed = FALSE
    /\ attempt = 0 /\ params = NoCert
    /\ faults = 0

Fault(kind) ==
    /\ kind \in Faults
    /\ faults < MaxFaults
    /\ faults' = faults + 1

-----------------------------------------------------------------------------
(***************************************************************************)
(* Environment: the L2 chain, the L1 info tree and the AggLayer.           *)
(***************************************************************************)

\* The syncers store one more L2 block, with or without bridge exits and claims.
StoreEvents(exits, imports) ==
    /\ bridges' = bridges \cup exits
    /\ claims' = claims \cup imports
    /\ lerAt' = [lerAt EXCEPT ![tip + 1] = IF exits = {} THEN lerAt[tip] ELSE tip + 1]
    /\ lastClaimAt' = [lastClaimAt EXCEPT ![tip + 1] = IF imports = {} THEN lastClaimAt[tip] ELSE tip + 1]

SyncL2Block ==
    /\ tip < MaxBlock
    /\ tip' = tip + 1
    /\ \E exits, imports \in SUBSET {tip + 1} : StoreEvents(exits, imports)
    /\ UNCHANGED <<leafCount, agglayerVars, db, alarm, pc, memory, faults>>

\* A new L1 info tree root is finalized.
FinalizeL1InfoRoot ==
    /\ leafCount < MaxLeafCount
    /\ leafCount' = leafCount + 1
    /\ UNCHANGED <<tip, bridges, claims, lerAt, lastClaimAt, agglayerVars, db, alarm, pc, memory, faults>>

LastSettledLER == IF settled = <<>> THEN InitialLER ELSE settled[Len(settled)].new
SettledClaims == UNION {settled[i].ibes : i \in 1..Len(settled)}

\* What the AggLayer's pessimistic proof demands of a certificate.
Provable(cert) ==
    /\ cert.prev = LastSettledLER
    /\ cert.bridges = BlocksIn(bridges, cert.prev + 1, cert.new)
    /\ cert.ibes \subseteq claims
    /\ cert.ibes \cap SettledClaims = {}

\* The AggLayer takes a certificate of the next height, unless one is being processed.
Accepts(cert) ==
    /\ cert.height = Len(settled)
    /\ pending # NoCert => IsInError(pending)

SettleCertificate ==
    /\ pending # NoCert /\ IsOpen(pending)
    /\ Provable(pending.cert)
    /\ settled' = Append(settled, pending.cert)
    /\ settledIbe' = IF pending.cert.ibes = {} THEN settledIbe ELSE pending.cert.lastIbe
    /\ pending' = NoCert
    /\ UNCHANGED <<l2Vars, db, alarm, pc, memory, faults>>

\* A certificate that cannot be proved ends in error; a provable one only by a fault.
RejectCertificate ==
    /\ pending # NoCert /\ IsOpen(pending)
    /\ \/ ~Provable(pending.cert) /\ UNCHANGED faults
       \/ Provable(pending.cert) /\ Fault("proof")
    /\ pending' = [pending EXCEPT !.status = "InError"]
    /\ UNCHANGED <<l2Vars, settled, settledIbe, db, alarm, pc, memory>>

\* GetLatestSettledCertificateHeader and GetCertificateHeader of the AggLayer client.
LatestSettledHeader ==
    IF settled = <<>> THEN NoCert
    ELSE [cert |-> settled[Len(settled)], status |-> "Settled"]

AgglayerStatus(cert) ==
    IF pending # NoCert /\ pending.cert = cert THEN pending.status
    ELSE IF \E i \in 1..Len(settled) : settled[i] = cert THEN "Settled"
    ELSE "InError"

-----------------------------------------------------------------------------
(***************************************************************************)
(* The process: its control points and the ways between them.              *)
(***************************************************************************)

ForgetAndGoTo(point) ==
    /\ pc' = point /\ mode' = "none" /\ seen' = NoCert /\ checkFailed' = FALSE
    /\ attempt' = 0 /\ params' = NoCert

Idle == ForgetAndGoTo("idle")

\* Mutant: one attempt too many.
MutantAttemptFailed ==
    \/ /\ mode = "trigger" /\ attempt <= MaxAttempts
       /\ pc' = "build" /\ attempt' = attempt + 1 /\ params' = NoCert
       /\ UNCHANGED <<mode, seen, checkFailed>>
    \/ /\ mode # "trigger"
       /\ Idle

\* sendCertificate returned an error: a trigger retries it, a status tick does not.
AttemptFailed ==
    \/ /\ mode = "trigger" /\ attempt < MaxAttempts
       /\ pc' = "build" /\ attempt' = attempt + 1 /\ params' = NoCert
       /\ UNCHANGED <<mode, seen, checkFailed>>
    \/ /\ mode # "trigger" \/ attempt = MaxAttempts
       /\ Idle

Start ==
    /\ pc = "down"
    /\ pc' = "checkPending" /\ mode' = "init"
    /\ UNCHANGED <<l2Vars, agglayerVars, db, alarm, seen, checkFailed, attempt, params, faults>>

\* The status ticker and the certificate trigger of sendCertificates.
Tick ==
    /\ pc = "idle"
    /\ pc' = "readSettled" /\ mode' = "tick"
    /\ UNCHANGED <<l2Vars, agglayerVars, db, alarm, seen, checkFailed, attempt, params, faults>>

Trigger ==
    /\ pc = "idle"
    /\ pc' = "readSettled" /\ mode' = "trigger"
    /\ UNCHANGED <<l2Vars, agglayerVars, db, alarm, seen, checkFailed, attempt, params, faults>>

-----------------------------------------------------------------------------
(***************************************************************************)
(* The status checker.                                                     *)
(***************************************************************************)

\* How the check of the last certificate ends: the initial check is repeated until it
\* succeeds, the periodical one goes on to the pending certificates.
CheckLastDone(failed) ==
    /\ UNCHANGED <<attempt, params>>
    /\ seen' = NoCert
    /\ IF mode = "init" /\ ~failed
       THEN pc' = "idle" /\ mode' = "none" /\ checkFailed' = FALSE
       ELSE pc' = "checkPending" /\ mode' = mode /\ checkFailed' = (mode # "init" /\ failed)

\* newInitialStatus, first read: the AggLayer is asked twice, not in one call.
ReadSettled ==
    /\ pc = "readSettled"
    /\ \/ /\ seen' = LatestSettledHeader /\ pc' = "readPending"
          /\ UNCHANGED <<alarm, mode, checkFailed, attempt, params, faults>>
       \/ /\ Fault("call") /\ CheckLastDone(TRUE) /\ alarm' = FALSE
    /\ UNCHANGED <<l2Vars, agglayerVars, db>>

\* Mutant: the boundary is one block too far.
MutantGetLastSettledCertificateToBlock(cert) == Max2(cert.new, settledIbe) + 1

\* GetLastSettledCertificateToBlock for a pessimistic-proof network (no FEP block).
GetLastSettledCertificateToBlock(cert) == Max2(cert.new, settledIbe)

newSettledCertificateInfo(header) ==
    [cert |-> header.cert, status |-> header.status, retryCount |-> 0,
     from |-> 0, to |-> GetLastSettledCertificateToBlock(header.cert)]

\* Mutant: an unknown certificate in error is waited for, like an open one.
MutantActionFails(result) ==
    \/ IsError(result)
    \/ result.action = "InsertNew" /\ ~IsSettled(result.header)

ActionFails(result) ==
    \/ IsError(result)
    \/ result.action = "InsertNew" /\ IsOpen(result.header)

executeInitialStatusAction(storage, result, local) ==
    IF result.action = "Update"
    THEN UpdateCertificateStatus(storage, local.cert, result.header.status)
    ELSE IF result.action = "InsertNew" /\ IsSettled(result.header)
    THEN SaveOrUpdateCertificate(storage, newSettledCertificateInfo(result.header))
    ELSE storage

\* newInitialStatus, second read, and the rest of checkLastCertificateFromAgglayer.
ReadPendingAndRecover ==
    /\ pc = "readPending"
    /\ \/ \E local, localSettled \in db.info \cup {NoCert} :
             LET actions == process([agglayerSettled |-> seen, agglayerPending |-> pending,
                                     local |-> local, localSettled |-> localSettled])
                 failed  == \E i \in DOMAIN actions : ActionFails(actions[i])
             IN  /\ IsLastSentCertificate(db, local)
                 /\ IsLastSettledCertificate(db, localSettled)
                 /\ \/ /\ db' = IF ActionFails(actions[1]) THEN db
                                ELSE executeInitialStatusAction(
                                       executeInitialStatusAction(db, actions[1], local),
                                       actions[2], local)
                       /\ alarm' = (actions[1] = manualDBWipeRequired)
                       /\ CheckLastDone(failed)
                       /\ UNCHANGED faults
                    \/ \* The second action cannot be stored.
                       /\ ~ActionFails(actions[1]) /\ Fault("store")
                       /\ db' = executeInitialStatusAction(db, actions[1], local)
                       /\ alarm' = FALSE
                       /\ CheckLastDone(TRUE)
       \/ \* The second read, or the first action, fails.
          /\ Fault("call") /\ CheckLastDone(TRUE) /\ alarm' = FALSE
          /\ UNCHANGED db
    /\ UNCHANGED <<l2Vars, agglayerVars>>

\* The stored open rows take the status the AggLayer reports for their ID.
RefreshStatuses(storage, rows) ==
    [storage EXCEPT !.info =
        {IF row \in rows THEN [row EXCEPT !.status = AgglayerStatus(row.cert)] ELSE row : row \in @}]

\* What the caller of the periodical check does with its result.
CheckPendingDone(existPending, existInError) ==
    /\ UNCHANGED <<seen, params>>
    /\ IF mode = "init"
       THEN pc' = "readSettled" /\ UNCHANGED <<mode, checkFailed, attempt>>
       ELSE IF /\ ~checkFailed /\ ~existPending
               /\ mode = "trigger" \/ (existInError /\ RetryCertAfterInError)
       THEN pc' = "build" /\ attempt' = 1 /\ UNCHANGED <<mode, checkFailed>>
       ELSE pc' = "idle" /\ mode' = "none" /\ checkFailed' = FALSE /\ attempt' = 0

checkPendingCertificatesStatus ==
    /\ pc = "checkPending"
    /\ LET open == GetCertificateHeadersByStatus(db, {"Open"}) IN
       \/ /\ db' = RefreshStatuses(db, open)
          /\ CheckPendingDone(\E row \in open : AgglayerStatus(row.cert) = "Open",
                              GetCertificateHeadersByStatus(db', {"InError"}) # {})
          /\ UNCHANGED faults
       \/ \* A header cannot be read or stored: the rows before it have been updated.
          \E done \in SUBSET open :
             /\ done # open
             /\ Fault("call")
             /\ db' = RefreshStatuses(db, done)
             /\ CheckPendingDone(TRUE, FALSE)
    /\ UNCHANGED <<l2Vars, agglayerVars, alarm>>

-----------------------------------------------------------------------------
(***************************************************************************)
(* Building, sending and storing a certificate (sendCertificate).          *)
(***************************************************************************)

\* Mutant: a retry continues after the certificate in error.
MutantPreviousToBlock(last) ==
    IF last = NoCert THEN StartL2Block
    ELSE IF IsSettled(last) THEN GetLastSettledCertificateToBlock(last.cert)
    ELSE last.to

\* NextCertificateBlockRange: the block before the next range, given the last row.
PreviousToBlock(last) ==
    IF last = NoCert THEN StartL2Block
    ELSE IF IsSettled(last) THEN GetLastSettledCertificateToBlock(last.cert)
    ELSE IF IsInError(last) /\ last.from > 0 THEN last.from - 1
    ELSE last.to

\* Mutant: the retry count is not advanced.
MutantRetryCount(last) == IF last # NoCert /\ IsInError(last) THEN last.retryCount ELSE 0

RetryCount(last) == IF last # NoCert /\ IsInError(last) THEN last.retryCount + 1 ELSE 0

\* getNextHeightAndPreviousLER, for a closed last certificate.
NextHeight(last) ==
    IF last = NoCert THEN 0
    ELSE IF IsSettled(last) THEN HeightOf(last) + 1
    ELSE HeightOf(last)

\* Mutant: a retry builds on the LER of the certificate in error.
MutantPreviousLER(last) == IF last = NoCert THEN InitialLER ELSE last.cert.new

PreviousLER(last) ==
    IF last = NoCert THEN InitialLER
    ELSE IF IsSettled(last) THEN last.cert.new
    ELSE last.cert.prev

BuildCertificate(last, from, to) ==
    LET exits    == BlocksIn(bridges, from, to)
        imported == BlocksIn(claims, from, to)
    IN  [height |-> NextHeight(last), prev |-> PreviousLER(last),
         new |-> IF exits = {} THEN PreviousLER(last) ELSE lerAt[to],
         bridges |-> exits, ibes |-> imported,
         lastIbe |-> IF imported = {} THEN 0 ELSE lastClaimAt[to],
         leafCount |-> leafCount]

\* GetCertificateBuildParams returns nil: nothing to send.
NothingToSend(from) ==
    \/ from > tip
    \/ BlocksIn(bridges, from, tip) = {} /\ (ForceOneBridgeExit \/ BlocksIn(claims, from, tip) = {})

\* verifyRetryCertStartingBlock
RetryStartsElsewhere(last, from) == RetryCount(last) > 0 /\ from # last.from

\* getNextHeightAndPreviousLER builds on a closed certificate only.
NotClosed(last) == last # NoCert /\ IsOpen(last)

\* AdjustBlockRange may cut the range at any block that leaves something to send.
Build ==
    /\ pc = "build"
    /\ \E last \in db.info \cup {NoCert} :
          LET from == PreviousToBlock(last) + 1 IN
          /\ IsLastSentCertificate(db, last)
          /\ IF NothingToSend(from) THEN Idle
             ELSE IF RetryStartsElsewhere(last, from) \/ NotClosed(last) THEN AttemptFailed
             ELSE /\ \E to \in from..tip :
                        /\ BlocksIn(bridges \cup claims, from, to) # {}
                        /\ params' = [cert |-> BuildCertificate(last, from, to), status |-> "Open",
                                      retryCount |-> RetryCount(last), from |-> from, to |-> to]
                  /\ pc' = "send"
                  /\ UNCHANGED <<mode, seen, checkFailed, attempt>>
    /\ UNCHANGED <<l2Vars, agglayerVars, db, alarm, faults>>

\* A query of the build, the validator poll or the call itself fails.
BuildOrSendFails ==
    /\ pc \in {"build", "send"}
    /\ Fault("call")
    /\ AttemptFailed
    /\ UNCHANGED <<l2Vars, agglayerVars, db, alarm>>

SendCertificate ==
    /\ pc = "send"
    /\ \/ /\ Accepts(params.cert)
          /\ pending' = [cert |-> params.cert, status |-> "Open"]
          /\ \/ /\ pc' = "save"
                /\ UNCHANGED <<memory, faults>>
             \/ /\ Fault("reply")
                /\ AttemptFailed
       \/ /\ ~Accepts(params.cert)
          /\ AttemptFailed
          /\ UNCHANGED <<pending, faults>>
    /\ UNCHANGED <<l2Vars, settled, settledIbe, db, alarm>>

\* saveCertificateToStorage: an insert that meets a used key would fail at each of
\* MaxRetriesStoreCertificate attempts (AcceptedCanBeSaved: none does); a storage
\* that is unavailable for that long makes it give up.
SaveCertificate ==
    /\ pc = "save"
    /\ \/ /\ CanSaveLastSentCertificate(db, params)
          /\ db' = SaveLastSentCertificate(db, params)
          /\ Idle
          /\ UNCHANGED faults
       \/ /\ Fault("store")
          /\ AttemptFailed
          /\ UNCHANGED db
    /\ UNCHANGED <<l2Vars, agglayerVars, alarm>>

-----------------------------------------------------------------------------
Stopped == ForgetAndGoTo("down")

Crash ==
    /\ pc # "down"
    /\ Fault("crash")
    /\ Stopped
    /\ UNCHANGED <<l2Vars, agglayerVars, db, alarm>>

\* The operator follows the error message: stop, wipe the database, restart.
WipeDatabase ==
    /\ alarm
    /\ db' = EmptyStorage /\ alarm' = FALSE
    /\ Stopped
    /\ UNCHANGED <<l2Vars, agglayerVars, faults>>

Check == ReadSettled \/ ReadPendingAndRecover \/ checkPendingCertificatesStatus
SendOne == Build \/ BuildOrSendFails \/ SendCertificate \/ SaveCertificate
Environment == SyncL2Block \/ FinalizeL1InfoRoot \/ SettleCertificate \/ RejectCertificate

Next ==
    \/ Environment
    \/ Start \/ Tick \/ Trigger
    \/ Check \/ SendOne
    \/ Crash \/ WipeDatabase

Spec == Init /\ [][Next]_vars

(***************************************************************************)
(* Fairness.  The goroutine of the main loop keeps running; the trigger    *)
(* channel holds an event until the loop takes it, and a Go select between *)
(* it and the ticker is random, so a trigger is not passed over for ever   *)
(* (strong fairness); the AggLayer decides every certificate it accepted.  *)
(***************************************************************************)
RunningFairness ==
    /\ WF_vars(Start) /\ WF_vars(Check) /\ WF_vars(SendOne)
    /\ SF_vars(Trigger)
    /\ WF_vars(SettleCertificate \/ RejectCertificate)

\* Without an operator, and with one that obeys the wipe request.
UnattendedSpec == Spec /\ RunningFairness
AttendedSpec == Spec /\ RunningFairness /\ WF_vars(WipeDatabase)

-----------------------------------------------------------------------------
(***************************************************************************)
(* Properties                                                              *)
(***************************************************************************)

Certificate ==
    [height : Nat, prev : 0..MaxBlock, new : 0..MaxBlock, bridges : SUBSET (1..MaxBlock),
     ibes : SUBSET (1..MaxBlock), lastIbe : 0..MaxBlock, leafCount : 0..MaxLeafCount]
Statuses == {"Open", "InError", "Settled"}
Row ==
    [cert : Certificate, status : Statuses, retryCount : Nat, from : 0..MaxBlock, to : 0..MaxBlock]
Header == [cert : Certificate, status : Statuses]
Storage == [info : SUBSET Row, history : SUBSET Row]

\* NoCert, a nil pointer, is not a row.
ASSUME NoCertAssumption == NoCert \notin Row


L2TypeOK ==
    /\ tip \in 0..MaxBlock /\ bridges \subseteq 1..tip /\ claims \subseteq 1..tip
    /\ lerAt \in [0..MaxBlock -> 0..MaxBlock] /\ lastClaimAt \in [0..MaxBlock -> 0..MaxBlock]
    /\ leafCount \in 0..MaxLeafCount
AgglayerTypeOK ==
    settled \in Seq(Certificate) /\ pending \in Header \cup {NoCert} /\ settledIbe \in 0..MaxBlock
ProcessTypeOK ==
    /\ pc \in {"down", "idle", "readSettled", "readPending", "checkPending", "build", "send", "save"}
    /\ mode \in {"none", "init", "tick", "trigger"}
    /\ seen \in Header \cup {NoCert} /\ checkFailed \in BOOLEAN
    /\ attempt \in 0..MaxAttempts /\ params \in Row \cup {NoCert}
    /\ pc \in {"send", "save"} => params # NoCert

\* Every variable has its type, on the L2, the AggLayer and the aggsender side; the
\* process holds the certificate it sends or stores, and its retries are bounded.
TypeOK ==
    /\ L2TypeOK /\ AgglayerTypeOK /\ ProcessTypeOK
    /\ db \in Storage /\ alarm \in BOOLEAN
    /\ faults \in 0..MaxFaults

\* The block up to which the AggLayer's settled state, read back by the aggsender, reaches.
SettledBoundary == Max2(LastSettledLER, settledIbe)

\* No bridge exit and no claim is skipped: once the boundary the next range starts from
\* (NextCertificateBlockRange) has passed a block, the claims of that block are settled;
\* its bridge exits are, since the boundary is at or below the settled LER or the LER has
\* no exit in between.
NothingSkipped ==
    /\ BlocksIn(claims, 1, SettledBoundary) = SettledClaims
    /\ BlocksIn(bridges, LastSettledLER + 1, SettledBoundary) = {}

\* Whatever the AggLayer has accepted and not yet decided can be proved: it extends the
\* settled LER by exactly the missing bridge exits and imports no claim twice, across
\* crashes, lost answers, retries and wipes.
SubmittedProvable ==
    pending # NoCert /\ IsOpen(pending) => Provable(pending.cert)

\* The local storage never holds a settled certificate the AggLayer does not have at that
\* height, and never more than one open certificate.
StorageAgreesWithAgglayer ==
    /\ \A row \in db.info : IsSettled(row) =>
          HeightOf(row) < Len(settled) /\ settled[HeightOf(row) + 1] = row.cert
    /\ \A r1, r2 \in db.info : IsOpen(r1) /\ IsOpen(r2) => r1 = r2

\* Storing a certificate the AggLayer has accepted never meets a used primary key of
\* certificate_info or certificate_info_history, which saveCertificateToStorage would
\* retry forever.
AcceptedCanBeSaved == pc = "save" => CanSaveLastSentCertificate(db, params)

\* A build is never refused for the state of the last certificate: it is closed, and a
\* retry starts at the block the certificate in error started at.
BuildNeverRefused ==
    pc = "build" =>
       \A last \in db.info \cup {NoCert} :
          IsLastSentCertificate(db, last) =>
             ~NotClosed(last) /\ ~RetryStartsElsewhere(last, PreviousToBlock(last) + 1)

\* A settled certificate of the local storage keeps its status and leaves the storage only
\* by retention, for a newer certificate, or by a wipe.
SettledIsFinal ==
    [][\A row \in db.info : IsSettled(row) /\ row \notin db'.info =>
          \/ \E newer \in db'.info : HeightOf(newer) > HeightOf(row) /\ RowsAt(db'.info, HeightOf(row)) = {}
          \/ db' = EmptyStorage /\ alarm]_vars

\* Every bridge exit and every claim is eventually settled, once faults stop.
EventuallySettled ==
    \A n \in 1..MaxBlock :
       /\ n \in bridges ~> n <= LastSettledLER
       /\ n \in claims ~> n \in SettledClaims

\* CASE 3.2 of processLastLocalCert: after "aggsender stopped between sending to agglayer
\* and storing to the local storage", the initial check ends and the main loop runs.
InitialCheckEnds == pc = "down" ~> pc = "idle"

\* The wipe request of manualDBWipeRequiredErrorf is made only when the local storage
\* holds a certificate the AggLayer does not know.
WipeRequestJustified ==
    alarm => \E row \in db.info :
                /\ \A i \in 1..Len(settled) : settled[i] # row.cert
                /\ pending # NoCert => pending.cert # row.cert
=============================================================================
