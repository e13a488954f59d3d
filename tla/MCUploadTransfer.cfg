SPECIFICATION Spec
CONSTANTS
    x1 = x1
    x2 = x2
    f1 = f1
    f2 = f2
    s1 = s1
    s2 = s2
    Transfer <- MCTransfer
    File <- MCFile
    Size <- MCSize
    SongOf <- MCSongOf
    MaxFlaw = 1
SYMMETRY MCSymmetry
INVARIANTS
    TypeOK
    PublishedIsWhole
    StagingMatchesBatches
    FailedFileIsRetryable
    
