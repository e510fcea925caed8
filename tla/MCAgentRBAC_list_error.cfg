\* A failed pod List during a reconcile rewrites the binding's subjects.
CONSTANTS
    p1 = p1
    p2 = p2
    p3 = p3
    Pods <- MCPods
    PodSA <- MCPodSA
    PodCR <- MCPodCR
    ThisCR = "site-a"
    Namespaces = {"site", "elsewhere"}
    Ns = "site"
    Roles = {"stoker-agent", "legacy-agent"}
    MaxPodChanges = 2
    MaxDrifts = 0
    ListCanFail = TRUE
    NsDriftPossible = FALSE
SPECIFICATION Spec
PROPERTY NoRevocationOfLivePods
