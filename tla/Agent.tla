------------------------------- MODULE Agent -------------------------------
(***************************************************************************)
(* The sync agent's orchestrator (src/internal/agent/agent.go) in the      *)
(* environment it runs in.                                                 *)
(*                                                                         *)
(* The agent is one thread of control: Run waits for the metadata          *)
(* ConfigMap, clones, runs one initial syncOnce, marks the health server   *)
(* ready, then handles watch events one at a time (handleSyncTrigger ->    *)
(* CloneOrFetch -> syncOnce).  Each blocking call is one step, so the      *)
(* environment can act between them:                                       *)
(*   - the git server: the tracked ref is pushed;                          *)
(*   - the controller: resolves the ref into metadata.commit, (un)pauses;  *)
(*   - the watcher: buffers one trigger event (a coalescing channel);      *)
(*   - the gateway: scans the live directory once on first boot;           *)
(*   - kubelet: the agent container crashes or exits and is restarted.     *)
(* In-memory state (lastSyncedCommit, initialSyncDone, readiness, the      *)
(* event buffer) is lost on exit; the checked-out repository, the live     *)
(* directory and the status ConfigMap survive.                             *)
(*                                                                         *)
(* Commit content is abstracted to commit identity: filesChanged > 0 iff   *)
(* the live directory held a different commit than the one promoted.       *)
(***************************************************************************)
EXTENDS Naturals

CONSTANTS
    Commits,            \* commit SHAs the tracked ref may point at
    NoCommit,           \* the empty string "" used for "no commit"
    MaxPushes,          \* bound on pushes to the tracked ref
    MaxPauses,          \* bound on pause / unpause edits of the CR
    MaxCrashes,         \* bound on agent container crashes
    StatusWriteCanFail, \* whether a WriteStatusConfigMap call may fail
    ErrorTextMayLack    \* whether a failed scan / health call's result text
                        \* may lack the substring "error"

ASSUME NoCommit \notin Commits
ASSUME MaxPushes \in Nat /\ MaxPauses \in Nat /\ MaxCrashes \in Nat
ASSUME StatusWriteCanFail \in BOOLEAN /\ ErrorTextMayLack \in BOOLEAN

VARIABLES
    remote,           \* commit the tracked ref points at on the git server
    meta,             \* metadata ConfigMap: [commit, paused]
    pending,          \* a trigger event is buffered in Watcher.Events()
    pc,               \* where the agent's thread of control is
    metaCommit,       \* meta.Commit as read by the handler in progress
    cycleCommit,      \* result.Commit of the last CloneOrFetch: syncOnce's commit
    initial,          \* syncOnce's isInitial argument
    changed,          \* filesChanged > 0 in the syncOnce in progress
    repo,             \* commit checked out in RepoPath
    live,             \* commit whose files are in DataPath (the live dir)
    lastSyncedCommit, \* Agent.lastSyncedCommit
    initialSyncDone,  \* Agent.initialSyncDone
    ready,            \* HealthServer readiness flag
    status,           \* this gateway's GatewayStatus in the status ConfigMap
    loaded,           \* commit whose files the gateway has scanned
    gwBooted,         \* the gateway has done its first-boot scan
    syncedObserved,   \* history: metaCommit of the cycle that last set lastSyncedCommit
    pushes, pauses, crashes

env   == <<remote, meta, pending, loaded, gwBooted, pushes, pauses, crashes>>
agent == <<pc, metaCommit, cycleCommit, initial, changed, repo, live,
           lastSyncedCommit, initialSyncDone, ready, status, syncedObserved>>
vars  == <<env, agent>>

AnyCommit   == Commits \cup {NoCommit}
Phases      == {"down", "waitMeta", "clone", "loop", "fetch", "engine", "report"}
NoStatus    == [state |-> "None", commit |-> NoCommit]
StatusRec   == [state : {"None", "Synced", "Error"}, commit : AnyCommit]

\* Outcomes of a WriteStatusConfigMap call: TRUE when the write lands.
WriteOutcomes == IF StatusWriteCanFail THEN BOOLEAN ELSE {TRUE}

TypeOK ==
    /\ remote \in Commits
    /\ meta \in [commit : AnyCommit, paused : BOOLEAN]
    /\ pending \in BOOLEAN
    /\ pc \in Phases
    /\ {metaCommit, cycleCommit, repo, live, lastSyncedCommit,
        loaded, syncedObserved} \subseteq AnyCommit
    /\ {initial, changed, initialSyncDone, ready, gwBooted} \subseteq BOOLEAN
    /\ status \in StatusRec
    /\ pushes \in 0..MaxPushes /\ pauses \in 0..MaxPauses
    /\ crashes \in 0..MaxCrashes

Init ==
    /\ remote \in Commits
    /\ meta = [commit |-> NoCommit, paused |-> FALSE]
    /\ pending = FALSE
    /\ pc = "waitMeta"
    /\ metaCommit = NoCommit /\ cycleCommit = NoCommit
    /\ initial = FALSE /\ changed = FALSE
    /\ repo = NoCommit
    /\ live \in AnyCommit          \* the data volume may hold an older sync
    /\ lastSyncedCommit = NoCommit
    /\ initialSyncDone = FALSE /\ ready = FALSE
    /\ status = NoStatus
    /\ loaded = NoCommit /\ gwBooted = FALSE
    /\ syncedObserved = NoCommit
    /\ pushes = 0 /\ pauses = 0 /\ crashes = 0

-----------------------------------------------------------------------------
(* Helpers shared by the agent's steps.                                    *)

\* reportError / the tail of syncOnce: WriteStatusConfigMap overwrites the
\* gateway's entry when the write lands; a failed write leaves it as it was.
WriteStatus(rec, landed) == status' = IF landed THEN rec ELSE status

\* Back in Run after the initial syncOnce (errors or not) or back in the
\* main loop after handleSyncTrigger: initialSyncDone and MarkReady are
\* set after the initial sync and already hold after later ones.
EndCycle ==
    /\ pc' = "loop"
    /\ initialSyncDone' = TRUE
    /\ ready' = TRUE

\* The process ends (Run returned an error, or the container was killed):
\* everything held in memory is gone.
Exit ==
    /\ pc' = "down"
    /\ pending' = FALSE
    /\ lastSyncedCommit' = NoCommit
    /\ initialSyncDone' = FALSE
    /\ ready' = FALSE
    /\ syncedObserved' = NoCommit

-----------------------------------------------------------------------------
(* Agent steps.                                                            *)

\* waitForMetadata: the poll returns once metadata.commit is non-empty.
\* A failed read or an empty commit just sleeps 3s and polls again.
PollMetadata ==
    /\ pc = "waitMeta"
    /\ meta.commit # NoCommit
    /\ pc' = "clone"
    /\ metaCommit' = meta.commit
    /\ UNCHANGED <<env, cycleCommit, initial, changed, repo, live,
                   lastSyncedCommit, initialSyncDone, ready, status, syncedObserved>>

\* Run: the initial CloneOrFetch of meta.Ref.  It leaves RepoPath at the
\* ref's current head and syncOnce(result.Commit, isInitial=true) follows.
InitialCloneOk ==
    /\ pc = "clone"
    /\ repo' = remote
    /\ cycleCommit' = remote
    /\ initial' = TRUE
    /\ pc' = "engine"
    /\ UNCHANGED <<env, metaCommit, changed, live, lastSyncedCommit,
                   initialSyncDone, ready, status, syncedObserved>>

\* Run: the initial clone fails; Run returns the error and the process exits.
InitialCloneFails ==
    /\ pc = "clone"
    /\ Exit
    /\ UNCHANGED <<remote, meta, loaded, gwBooted, pushes, pauses, crashes,
                   metaCommit, cycleCommit, initial, changed, repo, live, status>>

\* syncOnce: SyncEngine.Sync promotes the checked-out tree into the live
\* directory (atomically, by the engine's contract).
SyncEngineOk ==
    /\ pc = "engine"
    /\ live' = repo
    /\ changed' = (live # repo)
    /\ pc' = "report"
    /\ UNCHANGED <<env, metaCommit, cycleCommit, initial, repo, lastSyncedCommit,
                   initialSyncDone, ready, status, syncedObserved>>

\* Mutant: a failed engine run still counts as a completed attempt and
\* advances lastSyncedCommit.
SyncEngineFailsAdvances ==
    /\ pc = "engine"
    /\ \E landed \in WriteOutcomes :
          WriteStatus([state |-> "Error", commit |-> cycleCommit], landed)
    /\ lastSyncedCommit' = cycleCommit
    /\ EndCycle
    /\ UNCHANGED <<env, metaCommit, cycleCommit, initial, changed, repo, live,
                   syncedObserved>>

\* syncOnce: SyncEngine.Sync fails; reportError(commit) and return before
\* lastSyncedCommit is touched.  The live directory is not changed.
SyncEngineFails ==
    /\ pc = "engine"
    /\ \E landed \in WriteOutcomes :
          WriteStatus([state |-> "Error", commit |-> cycleCommit], landed)
    /\ EndCycle
    /\ UNCHANGED <<env, metaCommit, cycleCommit, initial, changed, repo, live,
                   lastSyncedCommit, syncedObserved>>

\* Mutant: the status names meta.Commit instead of the fetched result.Commit.
ReportMetaCommit(landed) ==
    /\ pc = "report"
    /\ WriteStatus([state |-> "Synced", commit |-> metaCommit], landed)
    /\ lastSyncedCommit' = cycleCommit
    /\ syncedObserved' = metaCommit
    /\ EndCycle
    /\ UNCHANGED <<remote, meta, pending, loaded, gwBooted, pushes, pauses, crashes,
                   metaCommit, cycleCommit, initial, changed, repo, live>>

\* Mutant: the agent marks its entry Syncing while it reports.
ReportSyncing(landed) ==
    /\ pc = "report"
    /\ WriteStatus([state |-> "Syncing", commit |-> cycleCommit], landed)
    /\ lastSyncedCommit' = cycleCommit
    /\ syncedObserved' = metaCommit
    /\ EndCycle
    /\ UNCHANGED <<remote, meta, pending, loaded, gwBooted, pushes, pauses, crashes,
                   metaCommit, cycleCommit, initial, changed, repo, live>>

\* syncOnce after a successful engine run.  Not initial and files changed:
\* TriggerScan (when it works the gateway loads the live directory).
\* Initial: HealthCheck only.  A failed call yields a result string that
\* may or may not contain "error"; the status is Error exactly when it does.
\* The status is written, and lastSyncedCommit is advanced regardless.
Report(landed) ==
    /\ pc = "report"
    /\ LET called == initial \/ changed
       IN \E ok \in BOOLEAN, mentionsError \in BOOLEAN :
            /\ called \/ (ok /\ ~mentionsError)
            /\ ok => ~mentionsError
            /\ ~ok /\ ~ErrorTextMayLack => mentionsError
            /\ loaded' = IF ~initial /\ changed /\ ok THEN live ELSE loaded
            /\ WriteStatus([state  |-> IF mentionsError THEN "Error" ELSE "Synced",
                            commit |-> cycleCommit], landed)
    /\ lastSyncedCommit' = cycleCommit
    /\ syncedObserved' = metaCommit
    /\ EndCycle
    /\ UNCHANGED <<remote, meta, pending, gwBooted, pushes, pauses, crashes,
                   metaCommit, cycleCommit, initial, changed, repo, live>>

\* Main loop receives an event; handleSyncTrigger's metadata read fails and
\* it returns.
TriggerReadFails ==
    /\ pc = "loop"
    /\ pending
    /\ pending' = FALSE
    /\ UNCHANGED <<remote, meta, loaded, gwBooted, pushes, pauses, crashes, agent>>

\* handleSyncTrigger returns without syncing: the CR is paused, or
\* meta.Commit equals lastSyncedCommit.
TriggerSkipped ==
    /\ pc = "loop"
    /\ pending
    /\ meta.paused \/ meta.commit = lastSyncedCommit
    /\ pending' = FALSE
    /\ UNCHANGED <<remote, meta, loaded, gwBooted, pushes, pauses, crashes, agent>>

\* Mutant: the gate compares with the commit observed last time, not with
\* lastSyncedCommit.
TriggerAcceptedVsObserved ==
    /\ pc = "loop"
    /\ pending
    /\ ~meta.paused
    /\ meta.commit # metaCommit
    /\ pending' = FALSE
    /\ metaCommit' = meta.commit
    /\ pc' = "fetch"
    /\ UNCHANGED <<remote, meta, loaded, gwBooted, pushes, pauses, crashes,
                   cycleCommit, initial, changed, repo, live, lastSyncedCommit,
                   initialSyncDone, ready, status, syncedObserved>>

\* handleSyncTrigger: metadata read, not paused, a commit other than
\* lastSyncedCommit: go on to fetch meta.Ref.
TriggerAccepted ==
    /\ pc = "loop"
    /\ pending
    /\ ~meta.paused
    /\ meta.commit # lastSyncedCommit
    /\ pending' = FALSE
    /\ metaCommit' = meta.commit
    /\ pc' = "fetch"
    /\ UNCHANGED <<remote, meta, loaded, gwBooted, pushes, pauses, crashes,
                   cycleCommit, initial, changed, repo, live, lastSyncedCommit,
                   initialSyncDone, ready, status, syncedObserved>>

\* handleSyncTrigger: CloneOrFetch(meta.Ref) succeeds and leaves RepoPath
\* at the ref's current head, then syncOnce(result.Commit, false).
FetchOk ==
    /\ pc = "fetch"
    /\ repo' = remote
    /\ cycleCommit' = remote
    /\ initial' = FALSE
    /\ pc' = "engine"
    /\ UNCHANGED <<env, metaCommit, changed, live, lastSyncedCommit,
                   initialSyncDone, ready, status, syncedObserved>>

\* handleSyncTrigger: the fetch fails; reportError(meta.Commit) and return.
FetchFails ==
    /\ pc = "fetch"
    /\ \E landed \in WriteOutcomes :
          WriteStatus([state |-> "Error", commit |-> metaCommit], landed)
    /\ pc' = "loop"
    /\ UNCHANGED <<env, metaCommit, cycleCommit, initial, changed, repo, live,
                   lastSyncedCommit, initialSyncDone, ready, syncedObserved>>

-----------------------------------------------------------------------------
(* Environment steps.                                                      *)

\* Someone pushes to the tracked ref (or force-pushes it back).
Push ==
    /\ pushes < MaxPushes
    /\ \E c \in Commits \ {remote} : remote' = c
    /\ pushes' = pushes + 1
    /\ UNCHANGED <<meta, pending, loaded, gwBooted, pauses, crashes, agent>>

\* The controller resolves the ref and writes metadata.commit.
ControllerResolve ==
    /\ meta.commit # remote
    /\ meta' = [meta EXCEPT !.commit = remote]
    /\ UNCHANGED <<remote, pending, loaded, gwBooted, pushes, pauses, crashes, agent>>

\* The CR is paused or unpaused; the controller mirrors it into metadata.
TogglePause ==
    /\ pauses < MaxPauses
    /\ meta' = [meta EXCEPT !.paused = ~@]
    /\ pauses' = pauses + 1
    /\ UNCHANGED <<remote, pending, loaded, gwBooted, pushes, crashes, agent>>

\* The watcher (started after the initial sync) delivers a trigger event:
\* on a watch notification or on its periodic resync.  Events coalesce.
WatcherEmit ==
    /\ pc # "down"
    /\ initialSyncDone
    /\ ~pending
    /\ pending' = TRUE
    /\ UNCHANGED <<remote, meta, loaded, gwBooted, pushes, pauses, crashes, agent>>

\* The gateway boots once, after the initial sync, and scans the live dir.
GatewayBoot ==
    /\ ~gwBooted
    /\ initialSyncDone
    /\ gwBooted' = TRUE
    /\ loaded' = live
    /\ UNCHANGED <<remote, meta, pending, pushes, pauses, crashes, agent>>

\* The agent container is killed at any point.
Crash ==
    /\ pc # "down"
    /\ crashes < MaxCrashes
    /\ crashes' = crashes + 1
    /\ Exit
    /\ UNCHANGED <<remote, meta, loaded, gwBooted, pushes, pauses,
                   metaCommit, cycleCommit, initial, changed, repo, live, status>>

\* kubelet restarts the agent container: Run starts from waitForMetadata.
Restart ==
    /\ pc = "down"
    /\ pc' = "waitMeta"
    /\ UNCHANGED <<env, metaCommit, cycleCommit, initial, changed, repo, live,
                   lastSyncedCommit, initialSyncDone, ready, status, syncedObserved>>

-----------------------------------------------------------------------------
AgentNext ==
    \/ PollMetadata
    \/ InitialCloneOk \/ InitialCloneFails
    \/ SyncEngineOk \/ SyncEngineFails
    \/ \E landed \in WriteOutcomes : Report(landed)
    \/ TriggerReadFails \/ TriggerSkipped \/ TriggerAccepted
    \/ FetchOk \/ FetchFails

EnvNext ==
    \/ Push \/ ControllerResolve \/ TogglePause
    \/ WatcherEmit \/ GatewayBoot
    \/ Crash \/ Restart

Next == AgentNext \/ EnvNext

(***************************************************************************)
(* Fairness.  The agent's thread keeps running while the process is up    *)
(* (weak fairness on each step).  Fetches, engine runs, metadata reads and *)
(* status writes fail transiently: a step that keeps being possible        *)
(* eventually succeeds (strong fairness on the success outcomes).  The     *)
(* watcher resyncs periodically, the controller keeps resolving the ref,   *)
(* kubelet keeps restarting the container and the gateway does boot.       *)
(***************************************************************************)
Fairness ==
    /\ WF_vars(AgentNext)
    /\ SF_vars(InitialCloneOk) /\ SF_vars(SyncEngineOk) /\ SF_vars(FetchOk)
    /\ SF_vars(TriggerAccepted) /\ SF_vars(Report(TRUE))
    /\ WF_vars(WatcherEmit) /\ WF_vars(ControllerResolve)
    /\ WF_vars(Restart) /\ WF_vars(GatewayBoot)

Spec == Init /\ [][Next]_vars /\ Fairness

-----------------------------------------------------------------------------
(* Properties.                                                             *)

\* The skip gate of handleSyncTrigger (meta.Commit = lastSyncedCommit) is
\* sound: whenever the main loop is idle, the commit it would skip is the
\* one the live directory holds.  A syncOnce that fails must not move it.
LastSyncedIsLive ==
    (pc = "loop" /\ lastSyncedCommit # NoCommit) => live = lastSyncedCommit

\* Once the loop is idle, a Synced status names the commit in the live
\* directory: syncOnce reports the commit it promoted, not a newer or
\* older one (status writes assumed to land).
IdleSyncedStatusIsLive ==
    (pc = "loop" /\ status.state = "Synced") => status.commit = live

\* If the CR ends up unpaused, the live directory converges to the ref's
\* final head, through fetch and engine failures, failed metadata reads,
\* coalesced events, crashes and failed initial clones.
EventuallyLiveConverged == (<>[] ~meta.paused) => <>[] (live = remote)

\* spec.md (3): "Status is always written for a sync attempt ... so the bus
\* never holds stale state indefinitely": if the CR ends up unpaused, the
\* status entry ends up naming the commit in the live directory, which is
\* the ref's final head.
Converged == live = remote /\ status.commit = remote
EventuallyConverged == (<>[] ~meta.paused) => <>[] Converged

\* spec.md (8): "given an unchanged observed commit, a trigger event must
\* not re-invoke the sync engine".  handleSyncTrigger goes on to fetch
\* only for an observed metadata commit other than the one observed by the
\* cycle that set lastSyncedCommit.
IdempotentTrigger ==
    [][(pc = "loop" /\ pc' = "fetch" /\ lastSyncedCommit # NoCommit)
          => metaCommit' # syncedObserved]_vars

\* A Synced status means the gateway runs that commit: once the gateway has
\* booted and the loop is idle, a Synced entry names the commit the gateway
\* last scanned.
SyncedStatusIsLoaded ==
    (gwBooted /\ pc = "loop" /\ status.state = "Synced") => loaded = status.commit

=============================================================================
