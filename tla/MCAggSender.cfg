CONSTANTS
    NoCert = NoCert
    RetainCertificatesCount = 1
    KeepCertificatesHistory = TRUE
    MaxBlock = 3
    MaxLeafCount = 1
    MaxAttempts = 2
    MaxFaults = 2
    Faults = {"crash", "call", "reply", "store", "proof"}
    RetryCertAfterInError = TRUE
    ForceOneBridgeExit = FALSE
SPECIFICATION Spec
INVARIANTS TypeOK NothingSkipped SubmittedProvable StorageAgreesWithAgglayer AcceptedCanBeSaved BuildNeverRefused
PROPERTIES SettledIsFinal
