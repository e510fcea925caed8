\* Pods come and go, the binding is recreated with a legacy roleRef, API calls fail: no reconcile cuts off a live agent, and the RoleBinding converges to the pods' service accounts.
CONSTANTS
    p1 = p1
    p2 = p2
    p3 = p3
    Pods <- MCPods
    PodSA <- MCPodSA
    PodCR <- MCPodCR
    ThisCR = "site-a"
    Namespaces = {"site", "elsewhere"}
    Ns = "site"
    Roles = {"stoker-agent", "legacy-agent"}
    MaxPodChanges = 3
    MaxDrifts = 2
    ListCanFail = FALSE
    NsDriftPossible = FALSE
SPECIFICATION Spec
INVARIANT TypeOK
PROPERTY NoRevocationOfLivePods
PROPERTY EventuallyBound
