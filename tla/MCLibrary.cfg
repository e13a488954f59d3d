SPECIFICATION Spec
CONSTANTS
    a = a
    b = b
    title = title
    permit = permit
    None = None
    Path <- MCPath
    Changing <- MCChanging
    Uploaded <- MCUploaded
    MaxVersion = 2
    Tagged <- MCTagged
    Correction <- MCCorrection
    Permit <- MCPermit
    Capacity = 1
    MaxCalls = 2
    HelperRun <- MCHelperRun
INVARIANTS
    TypeOK
    NoTrackIsForgotten
    LabelIsOfTheFile
    CorrectionsAreShown
PROPERTIES
    EveryJobEnds
