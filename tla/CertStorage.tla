------------------------------ MODULE CertStorage ------------------------------
(***************************************************************************)
(* The aggsender's SQLite storage (aggsender/db): the tables               *)
(* certificate_info (one row per height, "info") and                       *)
(* certificate_info_history (one row per height and retry, "history").     *)
(* Operators take a storage value [info, history] and return one; each     *)
(* stands for one committed transaction.                                   *)
(***************************************************************************)
EXTENDS InitialStatus

CONSTANTS RetainCertificatesCount,  \* 0 keeps every certificate
          KeepCertificatesHistory   \* whether replaced retries go to the history

KeepAllCertificates == 0

ASSUME RetainAssumption == RetainCertificatesCount \in Nat
ASSUME HistoryAssumption == KeepCertificatesHistory \in BOOLEAN

EmptyStorage == [info |-> {}, history |-> {}]

RowsAt(table, height) == {row \in table : HeightOf(row) = height}

\* ORDER BY height DESC LIMIT 1: row is the one the query returns (NoCert for no rows).
IsLast(rows, row) ==
    \/ rows = {} /\ row = NoCert
    \/ row \in rows /\ \A other \in rows : HeightOf(other) <= HeightOf(row)

IsLastSentCertificate(db, row)    == IsLast(db.info, row)
IsLastSettledCertificate(db, row) == IsLast({r \in db.info : IsSettled(r)}, row)

GetCertificateHeadersByStatus(db, statuses) == {row \in db.info : row.status \in statuses}

\* Mutant: the WHERE clause is missing.
MutantUpdateCertificateStatus(db, cert, status) ==
    [db EXCEPT !.info = {[row EXCEPT !.status = status] : row \in @}]

\* UPDATE certificate_info SET status WHERE certificate_id: rows of other IDs stay.
UpdateCertificateStatus(db, cert, status) ==
    [db EXCEPT !.info = {IF row.cert = cert THEN [row EXCEPT !.status = status] ELSE row : row \in @}]

MoveCertificateToHistory(db, height) ==
    [info    |-> db.info \ RowsAt(db.info, height),
     history |-> db.history \cup RowsAt(db.info, height)]

DeleteCertificate(db, height) ==
    [info    |-> db.info \ RowsAt(db.info, height),
     history |-> db.history \ RowsAt(db.history, height)]

DeleteOldCertificates(db, height) ==
    [info    |-> {row \in db.info : HeightOf(row) >= height},
     history |-> {row \in db.history : HeightOf(row) >= height}]

OnNewCert(db, height, retryCount) ==
    IF retryCount > 0
    THEN IF KeepCertificatesHistory THEN MoveCertificateToHistory(db, height)
                                    ELSE DeleteCertificate(db, height)
    ELSE IF RetainCertificatesCount = KeepAllCertificates \/ height < RetainCertificatesCount
    THEN db
    ELSE DeleteOldCertificates(db, height - RetainCertificatesCount)

(***************************************************************************)
(* Whether the transaction of SaveLastSentCertificate commits: moving a    *)
(* retry to the history needs the row and a free history key, and the      *)
(* insert needs a free height (the primary keys of the two tables).        *)
(***************************************************************************)
CanSaveLastSentCertificate(db, row) ==
    /\ RowsAt(OnNewCert(db, HeightOf(row), row.retryCount).info, HeightOf(row)) = {}
    /\ row.retryCount > 0 /\ KeepCertificatesHistory =>
          /\ RowsAt(db.info, HeightOf(row)) # {}
          /\ \A old \in RowsAt(db.info, HeightOf(row)), kept \in RowsAt(db.history, HeightOf(row)) :
                old.retryCount # kept.retryCount

SaveLastSentCertificate(db, row) ==
    LET retained == OnNewCert(db, HeightOf(row), row.retryCount)
    IN  [retained EXCEPT !.info = @ \cup {row}]

\* An existing row of the height is not replaced: only a row of the same ID is updated.
SaveOrUpdateCertificate(db, row) ==
    IF RowsAt(db.info, HeightOf(row)) = {}
    THEN [db EXCEPT !.info = @ \cup {row}]
    ELSE UpdateCertificateStatus(db, row.cert, row.status)
=============================================================================
