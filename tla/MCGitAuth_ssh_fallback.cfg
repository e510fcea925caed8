\* A mounted SSH key that does not parse.
CONSTANTS
    Methods = {"ssh", "token", "app"}
    SecretStates = {"getErr", "noKey", "ok"}
    SSHKeys = {"valid", "invalid"}
    AppPems = {"none", "pkcs1", "pkcs8rsa", "pkcs8ec", "pkcs8bad", "other"}
    Responses <- MCResponses
    Skews <- MCSkewsConform
    Leeway = 0
SPECIFICATION Spec
CHECK_DEADLOCK FALSE
INVARIANT NoSilentSSHFallback
