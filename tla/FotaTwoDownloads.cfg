SPECIFICATION FirmwareSpec
CONSTANTS
    app = app
    other = other
    v1 = v1
    v2 = v2
    long = long
    Image <- MCImage
    Installed <- MCInstalled
    ImageLen <- MCImageLen
    SlotLen = 2
    Transfer = {t1, t2}
    NULL = NULL
    SaveProgress = FALSE
    Field <- MCField
    Order <- MCOrder
    Value <- MCValue
    TooLong = {long}
    Cut <- MCCut
    Unset = Unset
    Assignments <- MCAssignments
    Deletions <- MCDeletions
    MaxSent = 1
SYMMETRY Symmetry
INVARIANTS
    OneDownload
