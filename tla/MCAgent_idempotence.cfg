\* spec.md (8) idempotence of triggers; one push, no crash.
CONSTANTS
    c1 = c1
    c2 = c2
    c3 = c3
    Commits <- MCCommits
    NoCommit = NoCommit
    MaxPushes = 1
    MaxPauses = 0
    MaxCrashes = 0
    StatusWriteCanFail = FALSE
    ErrorTextMayLack = TRUE
SPECIFICATION Spec
SYMMETRY MCSymmetry
PROPERTY IdempotentTrigger
