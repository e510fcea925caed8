------------------------------ MODULE MCAgent ------------------------------
(* Model-checking instance of Agent: three commits, the empty-string       *)
(* commit as a model value, and small bounds on the environment.          *)
EXTENDS Agent, TLC

CONSTANTS c1, c2, c3

MCCommits == {c1, c2, c3}

\* Two commits suffice for liveness: a push can still move the ref back.
MCTwoCommits == {c1, c2}

\* Commit names are interchangeable: no action compares them but for equality.
MCSymmetry == Permutations(MCCommits)

=============================================================================
