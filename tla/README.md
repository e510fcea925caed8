# TLA+ models of the ignition-sync operator

This directory holds TLC-checkable models of the sync agent in `src/internal/agent` and of the parts around it. Each module is translated from the Go source. `PROJECT.json` maps every definition to the lines it models, and lists the runs, mutants, findings and hazards.

## 1. The system

### Components, their state and their operations

| Component | Source | State | Operations |
|---|---|---|---|
| Agent orchestrator | `agent/agent.go` | `lastSyncedCommit`, `initialSyncDone`, readiness, the checked-out repo, the live directory | `Run`, `waitForMetadata`, `handleSyncTrigger`, `syncOnce`, `reportError`, `resolveFileAuth` |
| Status types | `pkg/types/sync_status.go` | one `GatewayStatus` per gateway in the status ConfigMap | written by `syncOnce` and `reportError` |
| Sync plan compiler | `agent/profile.go` | the plan being built | `resolveTemplate`, `validateResolvedPath`, `buildSyncPlan`, `buildTemplateContext` (`buildApplyTemplateFunc` is not modelled) |
| Git auth resolver | `git/auth.go`, `git/githubapp.go` | none: pure functions of the secrets, plus one HTTP exchange | `ResolveAuth`, the SSH, token and GitHub App variants, `ExchangeGitHubAppToken`, `ParseRSAPrivateKey` |
| RBAC reconciliation | `controller/rbac.go` | a RoleBinding in the cluster | `ensureAgentRoleBinding`, `collectServiceAccountsFromPods`, `buildSubjects`, `subjectsEqual` |
| Metrics | `agent/metrics.go`, `controller/metrics.go` | Prometheus collectors | instrumentation only |

The sync engine, git client, watcher, Ignition API client and metadata ConfigMap IO are not under `src/`. They appear only as the environment of the agent and as the outcomes of its calls.

### How the components interact

The controller resolves the CR's git ref to a commit and writes it, with the pause flag, into a metadata ConfigMap. Each gateway pod runs the agent, a single thread that does the following:

1. Polls for the metadata.
2. Clones `meta.Ref`.
3. Runs one initial `syncOnce`, which engine-copies the checkout into the live directory. It calls `HealthCheck` only, because the gateway scans on first boot.
4. Marks itself ready.
5. Handles watcher events one at a time. A trigger re-reads the metadata and skips when the CR is paused or `meta.Commit == lastSyncedCommit`. Otherwise it fetches `meta.Ref` and runs `syncOnce`, which calls `TriggerScan` when files changed, writes the gateway's status entry and sets `lastSyncedCommit`.

`buildSyncPlan` turns a profile into the engine's plan.

### What is hard

- **Several actors.** Pushes to the ref, the controller, the watcher, the gateway and kubelet all act between the agent's blocking calls.
- **Ref versus commit.** The agent fetches the ref, not the commit it observed.
- **Failures that only log.** Failed fetches, engine runs and status writes are logged and the agent carries on.
- **One buffered event.** Events coalesce.
- **Crash and restart.** A crash loses the in-memory gate but keeps the live directory and the status.
- **Initial versus steady-state sync.** The agent treats them differently.
- **Lexical path checks.** In the compiler, variable values spliced into templates must not escape the root, and the checks are only lexical.

### What makes each component correct

- **Agent**
  - The skip gate never hides a commit that the live directory does not hold.
  - The live directory and the status converge to the ref's head once the CR stays unpaused.
  - A trigger for an unchanged commit does no work.
  - The status names what is synced and what the gateway runs.
- **Compiler**
  - The path check accepts exactly the paths that stay under their root.
  - A compiled plan never escapes its root.
- **Git auth**
  - The agent authenticates the way the controller does, from the same secrets.
  - The GitHub App exchange tolerates the clock skew its backdated `iat` is meant for.
  - A mounted SSH key takes priority in the agent; an unusable one is an error, not a silent fallback.
- **RBAC**
  - A reconcile never cuts off a running agent.
  - The RoleBinding converges to the pods' service accounts in the CR's namespace.

## 2. Modules

| Module | Models | Composes |
|---|---|---|
| `Agent` | `agent.go` and `sync_status.go`, with the environment | — |
| `MCAgent` | three commits as model values, symmetry | `Agent` |
| `PlanCompiler` | `profile.go`: `resolveTemplate`, `validateResolvedPath`, `buildSyncPlan` | — |
| `MCPlanCompiler` | small token, value and repo-path sets | `PlanCompiler` |
| `GitAuth` | `auth.go`, `githubapp.go`, and `resolveFileAuth` of `agent.go` | — |
| `MCGitAuth` | the GitHub API responses | `GitAuth` |
| `AgentRBAC` | `rbac.go`: `ensureAgentRoleBinding` and its helpers | — |
| `MCAgentRBAC` | three pods with their service accounts and CR annotations | `AgentRBAC` |

### Agent

Agent holds the following state:
- `pc`: where `Run` is.
  - `waitMeta` is `waitForMetadata`.
  - `clone` is the initial clone.
  - `engine` and `report` are the two halves of `syncOnce`.
  - `loop` is the `select`.
  - `fetch` is inside `handleSyncTrigger`.
  - `down` means the process has exited.
- `lastSyncedCommit`, `initialSyncDone` and `ready`.
- `repo` (the checkout) and `live` (the live directory).
- `status`: the gateway's entry, abstracted to `[state, commit]`.
- Environment variables: `remote` (the ref's head), `meta` (metadata commit and pause flag), `pending` (a buffered event), and `loaded` and `gwBooted` (the commit the gateway scanned).

Each blocking call is one action, with its failure as a separate action:
- `PollMetadata`
- `InitialCloneOk` / `InitialCloneFails`
- `SyncEngineOk` / `SyncEngineFails`
- `Report`: the rest of `syncOnce`, with the scan or health call, the `"error"` substring test, the status write and `lastSyncedCommit`
- `TriggerReadFails` / `TriggerSkipped` / `TriggerAccepted`
- `FetchOk` / `FetchFails`

`Exit` models `Run` returning or the container being killed. It clears everything in memory.

Two constants control outcomes:
- `StatusWriteCanFail` lets status writes fail.
- `ErrorTextMayLack` lets a failed scan or health call produce text without `"error"`.

Commit content is abstracted to commit identity: files changed iff `live # repo`.

`SyncEngineOk` sets the live directory to the checkout in one step. This is the engine's contract in spec.md section 3. The engine is not under `src/`, so that contract is assumed and not checked.

### PlanCompiler

- A path is a sequence of segments.
- `filepath.Clean` is the recursive `CleanWalk`.
- A template is a sequence of literal and `{{.Vars.k}}` tokens. A variable's value splices in its segments.
- `CompileMapping` is one loop iteration up to its early returns, including the type default (`TypeOf`). `FinishPlan` is the return.
- `Contained` is the reference definition of "stays under the root": a walk that never goes above depth 0.

### GitAuth

The controller's `ResolveAuth` and the agent's `resolveFileAuth` are pure functions of their inputs, so the model has no interleaving:
- `Init` picks every auth spec, secret state, SSH key and PEM encoding, and GitHub API response.
- One step computes both results.

Key material is abstracted to its kind (valid, PKCS#1, PKCS#8 RSA or EC, unparsable). A credential is abstracted to its shape.

The GitHub App exchange also has a time dimension, in integer seconds:
- `skew` is the client clock's offset from GitHub's.
- `JWTClaims` is the code's `iat = now - 60` and `exp = now + 10 min`.
- `GitHubAccepts` is GitHub's documented check. `iat` must not be in the future, and `exp` must be in the future but at most 10 minutes ahead, both within `Leeway`.
- GitHub answers 401 to a refused JWT.

### AgentRBAC

One `ensureAgentRoleBinding` call is one step per API call:
- `ListPods`
- `GetBinding`
- `CreateBinding`, `DeleteBinding` or `UpdateBinding`
- `ApiFails`: any call failing, which requeues the CR

controller-runtime never runs two reconciles of one CR at once, so one call is in flight. An Update carries the Get's resourceVersion, so it fails with Conflict (`stale`) when another writer changed the binding since the Get.

The environment has three actions:
- `PodChange` creates or deletes a pod.
- `Enqueue` is an event or a resync.
- `Drift` is another writer (an older chart, a manual apply). It either recreates the binding with a legacy roleRef (`Recreated`), or, when `NsDriftPossible`, moves one subject to another namespace (`Moved`).

## 3. Runs

| Run | Expect | Shows |
|---|---|---|
| `agent` | pass | With pushes, pauses, a crash and failures of every call but the status write (that case is `agent_stale_write`), the skip gate is sound (`LastSyncedIsLive`), and an idle Synced entry names the live commit (`IdleSyncedStatusIsLive`). The live directory converges (`EventuallyLiveConverged`). |
| `agent_idempotence` | violation | `IdempotentTrigger` fails (finding 1). |
| `agent_stale_write` | violation | `EventuallyConverged` fails through a failed status write (finding 2). |
| `agent_stale_revert` | violation | `EventuallyConverged` fails through a fetch failure followed by a revert of the ref (finding 3). |
| `agent_restart_scan` | violation | `SyncedStatusIsLoaded` fails after a restart (finding 4). |
| `compiler` | pass | `ValidationExact` and `PlanStaysInside` hold for every profile of up to 2 mappings. |
| `auth_conform` | pass | `AgentAgreesWithController`: for every auth spec, secret state, key encoding, API response and clock, whenever the controller resolves an SSH key, a token or no auth, the agent's file-based resolution gives the same credential. |
| `auth_ssh_fallback` | violation | `NoSilentSSHFallback` fails (finding 6). |
| `auth_jwt_skew` | violation | `JWTToleratesSkew` fails with the client clock 1 s ahead of GitHub's (finding 7). |
| `rbac` | pass | `NoRevocationOfLivePods` and `EventuallyBound` hold with pod churn, a legacy roleRef and API errors. |
| `rbac_list_error` | violation | `NoRevocationOfLivePods` fails when the pod List fails (finding 5). |
| `rbac_ns_drift` | violation | `EventuallyBound` fails when another writer moves a subject to another namespace (finding 8). |

### Findings

1. **The agent fetches the ref, not the commit it observed.** If the ref moved past `metadata.commit`, `lastSyncedCommit` becomes the newer head. Every later trigger with the same metadata then fetches and syncs again, against spec section 8.
2. **A failed status write still advances `lastSyncedCommit`.** The status for that commit is then never written.
3. **An Error entry can stay forever.** A fetch failure writes Error for a new commit. If the ref then returns to `lastSyncedCommit`, every trigger is skipped and the Error entry stays, although the gateway is in sync.
4. **No scan after an agent restart.** A restarted agent's initial sync promotes new files without a scan. The gateway keeps the old files while the status says Synced.
5. **A failed pod List rewrites the RoleBinding to `"default"` only.** `collectServiceAccountsFromPods` returns nil on a List error (`rbac.go:122`). The binding is then created or updated without the running pods' service accounts.
6. **An SSH key that does not parse is silently skipped by the agent** (`agent.go:280`). The agent falls back to the token or to no auth, while spec.md section 4 gives the mounted SSH key priority and the controller fails on the same key.
7. **The JWT's clock-skew buffer does not cover a clock that runs ahead** (`githubapp.go:41`).
   - `iat` is backdated 60 s. spec.md section 5 calls this the exchange's clock-skew tolerance.
   - `exp` is `now + 10 min`, GitHub's documented maximum. With the client 1 s ahead, `exp` is 601 s ahead of GitHub's clock and the exchange is refused.
   - The backdating never helps: whenever `iat` would be in GitHub's future, `exp` is already past the limit.
   - `Leeway` models any tolerance GitHub applies beyond its documented limits. With leeway `L`, a clock ahead by up to `L` passes, whatever the backdating.
8. **A subject moved to another namespace is never repaired** (`rbac.go:164`).
   - `subjectsEqual` compares the subjects' names only.
   - Another writer changes the namespace of the binding's subject. The next reconcile's Get then finds the subjects equal and returns nil.
   - The binding keeps granting the agent ClusterRole to a service account in the wrong namespace, and the gateway pods' own account has no access. No later event changes this.
   - `buildSubjects` builds every subject in the CR's namespace, and the comment at lines 33-34 says the binding is for the gateway pods' service accounts.

Code notes not checked by a run:
- The check for the substring `"error"` (`agent.go:232`). Whether a failed scan's text contains `"error"` is decided by the Ignition API client, which is not under `src/`. The `agent` run lets the text lack it, and its properties hold. `SyncedStatusIsLoaded` would catch a failed scan reported as Synced, but `agent_restart_scan` keeps the text containing `"error"`, so that its counterexample is the restart.
- `reportError` writes the failed commit into `SyncedCommit`, which `sync_status.go` documents as "currently synced".
- `buildSyncPlan` fails a required mapping only on `IsNotExist` (`profile.go:117`). A source under a regular file (`ENOTDIR`) or behind an unreadable directory (`EACCES`) passes as existing. `buildSyncPlan` has no caller, so this never reaches a sync.
- `resolveGitHubAppAuth` drops the token's `ExpiresAt` (`auth.go:54`). A caller that keeps the credential past the token's hour fetches with an expired token. Nothing under `src/` can set the token-expiry gauge from it either. The callers are not under `src/`.
- `syncOnce` calls `SyncEngine.Sync(srcRoot, dstRoot)` directly and never calls `buildSyncPlan`. The profile's excludes, templates and dry-run flag therefore do not reach the engine in the code under `src/`.

### Bounds

- **Agent.**
  - Three commits, so a push can move the ref to a commit that is neither the live one nor the observed one.
  - Two pushes, two pause toggles and one crash. These reach every trace above, including fetch-then-revert and crash-after-boot.
  - Symmetry over commits is sound because commits are only compared for equality. It is used only in the safety-only violation runs.
- **Compiler.**
  - Up to 2 mappings.
  - Source templates of 1 to 2 tokens over `a`, `..`, `.`, empty, and two keys (one defined, one missing).
  - Values `a`, `..`, `/a` and `../a`.
  - Mapping types `""` (defaulted to `dir`) and `file`.

  These cover absolute paths, `..` at the front, inside and after a variable, `a/../..`, the missing-key error and required mappings that exist or not.
- **Git auth.**
  - Every input combination of spec, secrets, keys and responses.
  - Client clock offsets of -60, 0 and +1 s in the passing run, and of -60, 0, +1 and +60 s in `auth_jwt_skew`. The offsets sit at the edges of the 60 s buffer.
  - GitHub's clock is 0 and its leeway is 0, the documented limits.
- **RBAC.**
  - Three pods: one with a named service account, one with none (giving `"default"`), and one annotated for another CR.
  - Three pod changes and two drifts, so a pod can appear between the List and the write, and a recreated binding meets a pending Update.
  - Two namespaces, so a subject can be moved out of the CR's namespace.

### Fairness

- **Weak fairness on the agent's steps.** The agent is one thread that blocks only in the calls modelled.
- **Strong fairness on the success outcomes.** This applies to clone, fetch, engine, metadata read and status write: their failures are transient, and the code retries on every trigger.
- **Weak fairness on the environment.**
  - The watcher resyncs periodically.
  - The controller keeps reconciling.
  - kubelet restarts crashed containers.
  - The gateway boots.
- **RBAC.**
  - Weak fairness on the reconcile worker.
  - Strong fairness on each successful API call, since errors requeue the CR.
  - Weak fairness on `Enqueue`, for controller-runtime's periodic resync.

Pushes, pauses, crashes, pod changes and drifts are bounded and get no fairness. `GitAuth` is checked for safety only, and its runs stop (`CHECK_DEADLOCK FALSE`) when the run or resolution ends.

### Mutants

Every property of a passing run is broken by a plausible bug in the definition it is about:
- **Agent**
  - a failed engine run that advances the gate;
  - a status naming `meta.Commit`;
  - a new status state;
  - a gate that compares with the last observed commit.
- **Compiler**
  - validation of raw templates;
  - a dropped `../` prefix test;
  - a mapping type left empty instead of defaulting to "dir".
- **Git auth**
  - an agent that tries the token file before the SSH key;
  - a token sent as a bearer credential.
- **RBAC**
  - raw service account names kept;
  - no roleRef check;
  - subjects without a namespace.

## 4. Not modelled

- **The other JWT claims and the signature.** `iss` and the RS256 signature are not modelled; a key that parses is taken to sign.
- **`buildTemplateContext` as a step.** It only copies fields and maps. Its `Vars` are the `vars` that `PlanCompiler`'s Init chooses, and a `Ref` token names one of them. The other fields, such as the gateway name and the commit, are fixed for a plan and come from the controller. A variable is the worst case for path escape, because the profile's author controls its value.
- **`formatSANames`** and the GitHub API URL default. These are formatting.
- **Metrics.** They are instrumentation and change no state the system reads, and spec.md section 1 puts metric wiring out of scope. `NewAgentMetrics` only registers collectors, and nothing under `src/` updates them. The controller's `observeGatewayMetrics` sets three gauges from the CR status and has no caller under `src/`.
- **The `gitURL == ""` return of `Run`** (`agent.go:87`). It is `Exit`, like any other return of `Run`. The model's controller always writes `gitURL` together with the commit, since spec.md section 3 requires it to be non-empty.
- **Logging, status message text, timings and the other `GatewayStatus` fields.** No property reads them.
- **Rotation of mounted credentials and changes of `gitURL`.** Both are read once by `Run`, as spec.md section 2 prescribes. The model's fetch outcomes do not depend on a credential lifetime or a remote URL.
- **The sync engine.** It is not under `src/`. spec.md section 3 describes it as staging followed by one promotion, so a model of it would be atomic by construction and would check nothing of this repository. The agent takes that contract as given.
- **`buildApplyTemplateFunc`.** Its effect lands only inside the engine. It is reached only through `buildSyncPlan`, which has no caller under `src/`.
- **How a GitHub App token reaches the agent.** `resolveFileAuth` reads only an SSH key file and a token file. Whatever mounts an App token for the agent is not under `src/`, so `AgentAgreesWithController` leaves out the auth specs that the controller resolves through the App.
- **The git client, watcher, Ignition API and metadata ConfigMap IO.** They are not under `src/`. They appear as environment steps and as the nondeterministic outcomes of the agent's calls.
