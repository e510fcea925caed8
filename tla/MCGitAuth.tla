------------------------------ MODULE MCGitAuth ------------------------------
(* Model-checking instance of GitAuth: every GitHub API outcome of a      *)
(* transport error, a read error, 200, 201 and 401, with a JSON or a      *)
(* garbled body.                                                           *)
EXTENDS GitAuth

MCResponses == [transport : {"ok", "doErr", "readErr"},
                status    : {200, 201, 401},
                body      : {"json", "garbage"}]

\* Client clocks behind GitHub's by the full backdating, level, and ahead by
\* one second and by the full backdating.
MCSkewsConform == {-60, 0, 1}
MCSkews        == {-60, 0, 1, 60}

=============================================================================
