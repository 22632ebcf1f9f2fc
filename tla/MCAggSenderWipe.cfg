CONSTANTS
    NoCert = NoCert
    RetainCertificatesCount = 0
    KeepCertificatesHistory = TRUE
    MaxBlock = 2
    MaxLeafCount = 0
    MaxAttempts = 2
    MaxFaults = 2
    Faults = {}
    RetryCertAfterInError = TRUE
    ForceOneBridgeExit = FALSE
SPECIFICATION Spec
INVARIANTS WipeRequestJustified
