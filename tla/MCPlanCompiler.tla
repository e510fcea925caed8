--------------------------- MODULE MCPlanCompiler ---------------------------
(* Model-checking instance of PlanCompiler: one variable r that a profile *)
(* may define and one m it never defines; values that are a plain name,   *)
(* "..", "/a" and "../a"; sources of up to two tokens.                     *)
EXTENDS PlanCompiler

Tokens == {Lit("a"), Lit(".."), Lit("."), Lit(""), Ref("r"), Ref("m")}

MCKeys == {"r"}
MCValues == {<<"a">>, <<"..">>, <<"", "a">>, <<"..", "a">>}
MCSrcTemplates == {<<t>> : t \in Tokens} \cup {<<t, u>> : t, u \in Tokens}
MCDstTemplates == {<<Lit("a")>>, <<Ref("r")>>}
\* The checkout holds a/ (and its root).
MCRepoPaths == {<<".">>, <<"a">>}

=============================================================================
