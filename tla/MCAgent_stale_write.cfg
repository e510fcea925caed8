\* Status writes can fail; one push, no crash, no revert of the ref.
CONSTANTS
    c1 = c1
    c2 = c2
    c3 = c3
    Commits <- MCCommits
    NoCommit = NoCommit
    MaxPushes = 1
    MaxPauses = 0
    MaxCrashes = 0
    StatusWriteCanFail = TRUE
    ErrorTextMayLack = TRUE
SPECIFICATION Spec
PROPERTY EventuallyConverged
