------------------------------ MODULE AgentRBAC ------------------------------
(***************************************************************************)
(* The controller's agent RoleBinding (src/internal/controller/rbac.go).   *)
(* ensureAgentRoleBinding runs inside the reconcile of one GatewaySync CR: *)
(* it lists the namespace's pods, keeps the service accounts of those      *)
(* annotated with this CR, gets the RoleBinding and then creates it,       *)
(* deletes it (wrong roleRef) or updates its subjects.  controller-runtime *)
(* never reconciles one CR twice at once, so one reconcile is in flight.   *)
(* Each API call is one step; between them pods come and go and other     *)
(* writers may edit the binding.  An error return requeues the CR; a nil   *)
(* return does not, and the next reconcile waits for the next event.      *)
(***************************************************************************)
EXTENDS Naturals, FiniteSets

CONSTANTS
    Pods,          \* pod identities
    PodSA,         \* Pods -> spec.serviceAccountName ("" when unset)
    PodCR,         \* Pods -> value of the stoker.io/cr-name annotation
    ThisCR,        \* the GatewaySync being reconciled
    Namespaces,    \* namespaces a subject may name
    Ns,            \* the CR's namespace
    Roles,         \* ClusterRole names a roleRef may name
    MaxPodChanges, \* bound on pod creations and deletions
    MaxDrifts,     \* bound on edits of the binding by other writers
    ListCanFail,   \* whether the pod List may fail
    NsDriftPossible \* whether other writers may move a subject to another namespace

\* agentClusterRoleName
AgentRole == "stoker-agent"

ASSUME AgentRole \in Roles /\ Ns \in Namespaces
ASSUME ListCanFail \in BOOLEAN /\ NsDriftPossible \in BOOLEAN

VARIABLES
    running,   \* pods that exist
    rb,        \* the RoleBinding stoker-agent-<cr>: [exists, roleRef, subjects]
    rpc,       \* step of ensureAgentRoleBinding in flight ("idle" between reconciles)
    queued,    \* the CR's key is in the controller's work queue
    saNames,   \* saNames of the reconcile in flight (after the "default" fallback)
    stale,     \* the binding was written by someone else since the reconcile's Get
    stable,    \* history: pods that existed at the List and still exist
    podChanges, drifts

rvars == <<running, rb, rpc, queued, saNames, stale, stable, podChanges, drifts>>

SANames  == {PodSA[p] : p \in Pods} \cup {"default"}
Subject  == [name : SANames, ns : Namespaces]
NoBinding == [exists |-> FALSE, roleRef |-> AgentRole, subjects |-> {}]

\* collectServiceAccountsFromPods: an unset service account is "default".
EffectiveSA(p) == IF PodSA[p] = "" THEN "default" ELSE PodSA[p]

\* Mutant: the subjects are built without a namespace.
BuildSubjectsNoNs(names) == {[name |-> n] : n \in names}

\* buildSubjects: one ServiceAccount subject in the CR's namespace per name.
BuildSubjects(names) == {[name |-> n, ns |-> Ns] : n \in names}

\* subjectsEqual: same length and the same sorted list of names; Kind and
\* Namespace are not compared.
SubjectsEqual(a, b) ==
    /\ Cardinality(a) = Cardinality(b)
    /\ \A n \in SANames :
          Cardinality({s \in a : s.name = n}) = Cardinality({s \in b : s.name = n})

\* The service accounts of this CR's pods that exist now.
CurrentSAs == {EffectiveSA(p) : p \in {q \in running : PodCR[q] = ThisCR}}

TypeOK ==
    /\ running \subseteq Pods /\ stable \subseteq Pods
    /\ rb \in [exists : BOOLEAN, roleRef : Roles, subjects : SUBSET Subject]
    /\ rpc \in {"idle", "get", "create", "delete", "update"}
    /\ queued \in BOOLEAN /\ stale \in BOOLEAN
    /\ saNames \subseteq SANames
    /\ podChanges \in 0..MaxPodChanges /\ drifts \in 0..MaxDrifts

Init ==
    /\ running \in SUBSET Pods
    /\ rb = NoBinding
    /\ rpc = "idle"
    /\ queued = TRUE
    /\ saNames = {}
    /\ stale = FALSE
    /\ stable = {}
    /\ podChanges = 0 /\ drifts = 0

ListOutcomes == IF ListCanFail THEN BOOLEAN ELSE {TRUE}

-----------------------------------------------------------------------------
(* ensureAgentRoleBinding, one step per API call.                          *)

\* Mutant: the pods' service accounts are taken as written ("" kept).
ListPodsRawSA ==
    /\ rpc = "idle" /\ queued
    /\ \E ok \in ListOutcomes :
         LET names == IF ok THEN {PodSA[p] : p \in {q \in running : PodCR[q] = ThisCR}}
                            ELSE {}
         IN  saNames' = IF names = {} THEN {"default"} ELSE names
    /\ rpc' = "get" /\ queued' = FALSE
    /\ stable' = running
    /\ UNCHANGED <<running, rb, stale, podChanges, drifts>>

\* The reconcile dequeues the CR; collectServiceAccountsFromPods lists the
\* namespace's pods (a List error yields no names); no names become
\* ["default"].
ListPods ==
    /\ rpc = "idle" /\ queued
    /\ \E ok \in ListOutcomes :
         LET names == IF ok THEN CurrentSAs ELSE {}
         IN  saNames' = IF names = {} THEN {"default"} ELSE names
    /\ rpc' = "get" /\ queued' = FALSE
    /\ stable' = running
    /\ UNCHANGED <<running, rb, stale, podChanges, drifts>>

\* Mutant: an existing binding's roleRef is not checked.
GetBindingNoRoleRefCheck ==
    /\ rpc = "get"
    /\ stale' = FALSE
    /\ rpc' = CASE ~rb.exists                                         -> "create"
                [] SubjectsEqual(rb.subjects, BuildSubjects(saNames)) -> "idle"
                [] OTHER                                               -> "update"
    /\ UNCHANGED <<running, rb, queued, saNames, stable, podChanges, drifts>>

\* r.Get of the binding: NotFound -> create; wrong roleRef -> delete;
\* subjects not equal -> update; otherwise return nil.
GetBinding ==
    /\ rpc = "get"
    /\ stale' = FALSE
    /\ rpc' = CASE ~rb.exists                                         -> "create"
                [] rb.roleRef # AgentRole                              -> "delete"
                [] SubjectsEqual(rb.subjects, BuildSubjects(saNames)) -> "idle"
                [] OTHER                                               -> "update"
    /\ UNCHANGED <<running, rb, queued, saNames, stable, podChanges, drifts>>

\* r.Create with the desired subjects.
CreateBinding ==
    /\ rpc = "create"
    /\ ~rb.exists
    /\ rb' = [exists |-> TRUE, roleRef |-> AgentRole, subjects |-> BuildSubjects(saNames)]
    /\ rpc' = "idle"
    /\ UNCHANGED <<running, queued, saNames, stale, stable, podChanges, drifts>>

\* r.Delete of the mismatched binding, then return nil: the binding is
\* recreated only by a later reconcile.
DeleteBinding ==
    /\ rpc = "delete"
    /\ rb' = NoBinding
    /\ rpc' = "idle"
    /\ UNCHANGED <<running, queued, saNames, stale, stable, podChanges, drifts>>

\* r.Update with the resourceVersion of the Get: refused (Conflict) when
\* another writer changed the binding since.
UpdateBinding ==
    /\ rpc = "update"
    /\ ~stale
    /\ rb' = [rb EXCEPT !.subjects = BuildSubjects(saNames)]
    /\ rpc' = "idle"
    /\ UNCHANGED <<running, queued, saNames, stale, stable, podChanges, drifts>>

\* The Get, Create, Delete or Update returns an error (transient, a
\* Conflict, AlreadyExists): ensureAgentRoleBinding returns it and the CR
\* is requeued.  A Delete's NotFound is not an error.
ApiFails ==
    /\ rpc \in {"get", "create", "delete", "update"}
    /\ rpc' = "idle"
    /\ queued' = TRUE
    /\ UNCHANGED <<running, rb, saNames, stale, stable, podChanges, drifts>>

-----------------------------------------------------------------------------
(* Environment.                                                            *)

\* A pod annotated for some CR is created or deleted.
PodChange ==
    /\ podChanges < MaxPodChanges
    /\ \E p \in Pods :
         /\ running' = IF p \in running THEN running \ {p} ELSE running \cup {p}
         /\ stable'  = stable \ {p}
    /\ podChanges' = podChanges + 1
    /\ UNCHANGED <<rb, rpc, queued, saNames, stale, drifts>>

\* An event for the CR (its own watch, an owned object, periodic resync).
Enqueue ==
    /\ ~queued
    /\ queued' = TRUE
    /\ UNCHANGED <<running, rb, rpc, saNames, stale, stable, podChanges, drifts>>

\* Bindings another writer (an older chart, a manual apply) may leave: the
\* binding recreated with another roleRef, or, when NsDriftPossible, one
\* subject moved to another namespace.
Recreated == {[exists |-> TRUE, roleRef |-> r, subjects |-> rb.subjects] : r \in Roles \ {AgentRole}}
Moved == IF NsDriftPossible /\ rb.exists
         THEN {[rb EXCEPT !.subjects = (@ \ {s}) \cup {[s EXCEPT !.ns = n]}] :
                  s \in rb.subjects, n \in Namespaces \ {Ns}}
         ELSE {}

Drift ==
    /\ drifts < MaxDrifts
    /\ \E new \in Recreated \cup Moved : rb' = new
    /\ stale' = TRUE
    /\ drifts' = drifts + 1
    /\ UNCHANGED <<running, rpc, queued, saNames, stable, podChanges>>

ReconcileNext ==
    \/ ListPods \/ GetBinding \/ CreateBinding \/ DeleteBinding \/ UpdateBinding
    \/ ApiFails

Next == ReconcileNext \/ PodChange \/ Enqueue \/ Drift

(***************************************************************************)
(* Fairness.  The reconcile worker keeps running; API errors are           *)
(* transient, so a call that keeps being retried eventually succeeds       *)
(* (strong fairness on each successful call).  controller-runtime's        *)
(* periodic resync re-enqueues the CR.                                     *)
(***************************************************************************)
Fairness ==
    /\ WF_rvars(ReconcileNext)
    /\ SF_rvars(GetBinding) /\ SF_rvars(CreateBinding)
    /\ SF_rvars(DeleteBinding) /\ SF_rvars(UpdateBinding)
    /\ WF_rvars(Enqueue)

Spec == Init /\ [][Next]_rvars /\ Fairness

-----------------------------------------------------------------------------
(* Properties.                                                             *)

\* The controller only grants what the pods need: a binding it writes (on
\* Create or Update) keeps the service account of every pod of this CR
\* that existed from the List to the write.  Agents already running are
\* never cut off by a reconcile.
NoRevocationOfLivePods ==
    [][ (rpc \in {"create", "update"} /\ rpc' = "idle" /\ rb' # rb) =>
          {EffectiveSA(p) : p \in {q \in stable' : PodCR[q] = ThisCR}}
              \subseteq {s.name : s \in rb'.subjects} ]_rvars

\* Once pods and other writers stop, the binding ends up, and stays, with
\* the agent ClusterRole and exactly the subjects the pods need, each in
\* the CR's namespace (or "default" when no pod exists).
Bound ==
    /\ rb.exists /\ rb.roleRef = AgentRole
    /\ rb.subjects = BuildSubjects(IF CurrentSAs = {} THEN {"default"} ELSE CurrentSAs)

EventuallyBound == <>[] Bound

=============================================================================
