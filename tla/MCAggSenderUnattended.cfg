CONSTANTS
    NoCert = NoCert
    RetainCertificatesCount = 0
    KeepCertificatesHistory = TRUE
    MaxBlock = 2
    MaxLeafCount = 0
    MaxAttempts = 2
    MaxFaults = 2
    Faults = {"crash", "reply", "proof"}
    RetryCertAfterInError = TRUE
    ForceOneBridgeExit = FALSE
SPECIFICATION UnattendedSpec
PROPERTIES InitialCheckEnds
