\* Another writer moves a subject of the binding to another namespace.
CONSTANTS
    p1 = p1
    p2 = p2
    p3 = p3
    Pods <- MCPods
    PodSA <- MCPodSA
    PodCR <- MCPodCR
    ThisCR = "site-a"
    Namespaces = {"site", "elsewhere"}
    Ns = "site"
    Roles = {"stoker-agent", "legacy-agent"}
    MaxPodChanges = 1
    MaxDrifts = 2
    ListCanFail = FALSE
    NsDriftPossible = TRUE
SPECIFICATION Spec
PROPERTY EventuallyBound
