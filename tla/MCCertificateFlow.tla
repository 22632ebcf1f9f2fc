------------------------- MODULE MCCertificateFlow -------------------------
EXTENDS CertificateFlow

Plain == [MaxL2BlockNumber |-> 0, MaxL2BlockRange |-> 0, MaxCertSize |-> 0,
          forceOneBridgeExit |-> FALSE, threshold |-> 2]

MCPlain == {Plain}

MCOptions ==
    {Plain,
     [Plain EXCEPT !.MaxCertSize = 1],
     [Plain EXCEPT !.MaxL2BlockNumber = 2, !.threshold = 1],
     [Plain EXCEPT !.MaxL2BlockRange = 1, !.threshold = 1],
     [Plain EXCEPT !.forceOneBridgeExit = TRUE, !.MaxL2BlockRange = 1]}
=============================================================================
