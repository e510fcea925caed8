\* The orchestrator with fetch, engine, metadata-read and health-check
\* failures, one crash, two pushes and two pause edits, status writes
\* landing.  No symmetry: the run checks liveness.
CONSTANTS
    c1 = c1
    c2 = c2
    c3 = c3
    Commits <- MCTwoCommits
    NoCommit = NoCommit
    MaxPushes = 2
    MaxPauses = 2
    MaxCrashes = 1
    StatusWriteCanFail = FALSE
    ErrorTextMayLack = TRUE
SPECIFICATION Spec
INVARIANT TypeOK
INVARIANT LastSyncedIsLive
INVARIANT IdleSyncedStatusIsLive
PROPERTY EventuallyLiveConverged
