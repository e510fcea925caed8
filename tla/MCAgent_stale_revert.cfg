\* Status writes land; two pushes, so the ref can be moved back.
CONSTANTS
    c1 = c1
    c2 = c2
    c3 = c3
    Commits <- MCCommits
    NoCommit = NoCommit
    MaxPushes = 2
    MaxPauses = 0
    MaxCrashes = 0
    StatusWriteCanFail = FALSE
    ErrorTextMayLack = TRUE
SPECIFICATION Spec
PROPERTY EventuallyConverged
