\* Every auth spec, secret state, key encoding, GitHub API outcome and client clock: whenever the controller resolves an SSH key, a token or no auth, the agent authenticates the same way.
CONSTANTS
    Methods = {"ssh", "token", "app"}
    SecretStates = {"getErr", "noKey", "ok"}
    SSHKeys = {"valid", "invalid"}
    AppPems = {"none", "pkcs1", "pkcs8rsa", "pkcs8ec", "pkcs8bad", "other"}
    Responses <- MCResponses
    Skews <- MCSkewsConform
    Leeway = 0
SPECIFICATION Spec
CHECK_DEADLOCK FALSE
INVARIANT TypeOK
INVARIANT AgentAgreesWithController
