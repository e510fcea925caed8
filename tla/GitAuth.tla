------------------------------ MODULE GitAuth ------------------------------
(***************************************************************************)
(* Git credential resolution.  The controller resolves the CR's auth spec  *)
(* (src/internal/git/auth.go ResolveAuth, the GitHub App exchange of      *)
(* githubapp.go); the agent resolves the secrets mounted into its pod      *)
(* (src/internal/agent/agent.go resolveFileAuth).  Both are functions of   *)
(* their inputs: Init picks any auth spec, secret contents, key encodings  *)
(* and GitHub API response, and one step computes both results.           *)
(* Key material is abstracted to its kind; a credential to its shape.     *)
(***************************************************************************)
EXTENDS Integers

CONSTANTS
    Methods,       \* the auth spec's optional fields: "ssh", "token", "app"
    SecretStates,  \* "getErr" (Get fails), "noKey" (key absent), "ok"
    SSHKeys,       \* SSH key PEMs: "valid" or "invalid" (does not parse)
    AppPems,       \* GitHub App PEM blocks: "none", "pkcs1", "pkcs8rsa", "pkcs8ec", "pkcs8bad", "other"
    Responses,     \* GitHub API outcomes for a JWT GitHub accepts: [transport, status, body]
    Skews,         \* the client clock minus GitHub's clock, in seconds
    Leeway         \* seconds GitHub tolerates beyond its documented JWT limits

ASSUME Skews \subseteq Int /\ Leeway \in Nat

VARIABLES
    spec,      \* the CR's GitAuthSpec: [present, methods]
    secret,    \* state of the secret each method references
    sshKey,    \* content of the SSH key secret
    appPem,    \* content of the GitHub App PEM secret
    resp,      \* what the POST to access_tokens returns for an accepted JWT
    skew,      \* the client clock's offset from GitHub's (GitHub's now is 0)
    ctrl,      \* ResolveAuth's result: [err, cred]
    agentCred  \* resolveFileAuth's result

avars == <<spec, secret, sshKey, appPem, resp, skew, ctrl, agentCred>>

Creds  == {"none", "ssh", "basic", "unresolved"}
Result(e, c) == [err |-> e, cred |-> c]
Err == Result(TRUE, "none")

-----------------------------------------------------------------------------
(* githubapp.go                                                            *)

\* ParseRSAPrivateKey: PKCS#1 parses; PKCS#8 must parse and hold an RSA key.
ParseRSAOk(pem) == pem \in {"pkcs1", "pkcs8rsa"}

\* Only 201 Created is success.
StatusCreated(r) == r.status = 201

\* The claims signed at the client's time.Now(): issued 60 s back, expiring
\* 10 minutes on.
JWTClaims(now) == [iat |-> now - 60, exp |-> now + 600]

\* GitHub's documented check of an App JWT against its own clock (0):
\* issued in the past, not expired, expiring at most 10 minutes ahead.
GitHubAccepts(c) == c.iat <= Leeway /\ c.exp > -Leeway /\ c.exp <= 600 + Leeway

\* GitHub answers 401 to a JWT it refuses.
GitHubAnswer(r) ==
    IF GitHubAccepts(JWTClaims(skew)) THEN r ELSE [r EXCEPT !.status = 401]

\* ExchangeGitHubAppToken: parse the key, sign the JWT, POST, read the
\* body, require 201, decode the JSON; any failure is an error.
ExchangeOk(pem, r) ==
    /\ ParseRSAOk(pem)
    /\ GitHubAnswer(r).transport = "ok"
    /\ StatusCreated(GitHubAnswer(r))
    /\ GitHubAnswer(r).body = "json"

-----------------------------------------------------------------------------
(* auth.go                                                                 *)

\* The Get of the method's secret and the lookup of its key.
SecretOk(m) == secret[m] = "ok"

\* Mutant: the token is sent as a bearer credential instead of basic auth
\* with the x-access-token user.
ResolveTokenBearer == IF SecretOk("token") THEN Result(FALSE, "bearer") ELSE Err

ResolveSSH   == IF SecretOk("ssh") /\ sshKey = "valid" THEN Result(FALSE, "ssh") ELSE Err
ResolveToken == IF SecretOk("token") THEN Result(FALSE, "basic") ELSE Err
ResolveApp   == IF SecretOk("app") /\ ExchangeOk(appPem, resp) THEN Result(FALSE, "basic") ELSE Err

\* ResolveAuth: a nil spec is anonymous; otherwise the first configured
\* method in the order SSH key, token, GitHub App.
ResolveAuth ==
    CASE ~spec.present                -> Result(FALSE, "none")
      [] "ssh" \in spec.methods       -> ResolveSSH
      [] "token" \in spec.methods     -> ResolveToken
      [] "app" \in spec.methods       -> ResolveApp
      [] OTHER                        -> Result(FALSE, "none")

-----------------------------------------------------------------------------
(* agent.go resolveFileAuth: the SSH key file wins if it parses, else the  *)
(* token file, else no auth.  A file is there when its method is           *)
(* configured and its secret holds the key.                                *)

Mounted(m) == spec.present /\ m \in spec.methods /\ SecretOk(m)

\* Mutant: the token file is tried before the SSH key.
ResolveFileAuthTokenFirst ==
    CASE Mounted("token")                    -> "basic"
      [] Mounted("ssh") /\ sshKey = "valid" -> "ssh"
      [] OTHER                               -> "none"

ResolveFileAuth ==
    CASE Mounted("ssh") /\ sshKey = "valid" -> "ssh"
      [] Mounted("token")                    -> "basic"
      [] OTHER                               -> "none"

-----------------------------------------------------------------------------
TypeOK ==
    /\ spec \in [present : BOOLEAN, methods : SUBSET Methods]
    /\ secret \in [Methods -> SecretStates]
    /\ sshKey \in SSHKeys /\ appPem \in AppPems /\ resp \in Responses /\ skew \in Skews
    /\ ctrl \in [err : BOOLEAN, cred : Creds]
    /\ agentCred \in Creds

Init ==
    /\ spec \in [present : BOOLEAN, methods : SUBSET Methods]
    /\ secret \in [Methods -> SecretStates]
    /\ sshKey \in SSHKeys /\ appPem \in AppPems /\ resp \in Responses /\ skew \in Skews
    /\ ctrl = Result(FALSE, "unresolved")
    /\ agentCred = "unresolved"

\* The controller and the agent each resolve their credential.
Resolve ==
    /\ ctrl.cred = "unresolved"
    /\ ctrl' = ResolveAuth
    /\ agentCred' = ResolveFileAuth
    /\ UNCHANGED <<spec, secret, sshKey, appPem, resp, skew>>

Spec == Init /\ [][Resolve]_avars

-----------------------------------------------------------------------------
(* Properties.                                                             *)

\* ResolveAuth resolves the auth spec by the GitHub App.
AppChosen == spec.present /\ "app" \in spec.methods /\ spec.methods \cap {"ssh", "token"} = {}

\* The controller resolves the ref with ResolveAuth and the agent fetches
\* it with resolveFileAuth, from the same secrets: whenever the controller
\* gets a credential from an SSH key or a token, or needs none, the agent
\* authenticates the same way.  (How a GitHub App token reaches the agent's
\* files is not under src/, so a resolution by the App is left out.)
AgentAgreesWithController ==
    (ctrl.cred # "unresolved" /\ ~ctrl.err /\ ~AppChosen) => agentCred = ctrl.cred

\* spec.md section 5: the backdated iat is the exchange's clock-skew
\* tolerance: with the key valid and GitHub answering, a client clock off
\* by at most those 60 s either way still gets an installation token.
JWTToleratesSkew ==
    ( /\ ctrl.cred # "unresolved" /\ spec.present /\ spec.methods = {"app"}
      /\ SecretOk("app") /\ ParseRSAOk(appPem)
      /\ resp = [transport |-> "ok", status |-> 201, body |-> "json"]
      /\ skew \in -60..60 )
    => ctrl = Result(FALSE, "basic")

\* spec.md section 4: file-mounted credentials take priority, SSH key over
\* token.  When an SSH key is mounted, the agent authenticates with it or
\* fails with an error; it never silently falls back to the token or to
\* anonymous access (resolveFileAuth has no error result, so a fix would
\* add the "error" outcome).
NoSilentSSHFallback ==
    (agentCred # "unresolved" /\ Mounted("ssh")) => agentCred \in {"ssh", "error"}

=============================================================================
