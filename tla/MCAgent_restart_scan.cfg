\* A failed scan always reports "error"; one crash of the agent container.
CONSTANTS
    c1 = c1
    c2 = c2
    c3 = c3
    Commits <- MCCommits
    NoCommit = NoCommit
    MaxPushes = 1
    MaxPauses = 0
    MaxCrashes = 1
    StatusWriteCanFail = FALSE
    ErrorTextMayLack = FALSE
SPECIFICATION Spec
SYMMETRY MCSymmetry
INVARIANT SyncedStatusIsLoaded
