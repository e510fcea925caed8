\* A client clock within the 60 s the JWT is backdated by, GitHub documenting no leeway.
CONSTANTS
    Methods = {"ssh", "token", "app"}
    SecretStates = {"getErr", "noKey", "ok"}
    SSHKeys = {"valid", "invalid"}
    AppPems = {"none", "pkcs1", "pkcs8rsa", "pkcs8ec", "pkcs8bad", "other"}
    Responses <- MCResponses
    Skews <- MCSkews
    Leeway = 0
SPECIFICATION Spec
CHECK_DEADLOCK FALSE
INVARIANT JWTToleratesSkew
