---------------------------- MODULE PlanCompiler ----------------------------
(***************************************************************************)
(* The sync-plan compiler of src/internal/agent/profile.go: buildSyncPlan  *)
(* walks the profile's mappings in order; for each it resolves the source  *)
(* and destination templates (resolveTemplate, missingkey=error), checks   *)
(* both resolved paths (validateResolvedPath), joins the source onto the   *)
(* repository and, for a required mapping, stats it.  The first failure    *)
(* returns (nil, err): no plan at all.                                     *)
(*                                                                         *)
(* A path is a sequence of segments: the string split at "/".  "" is an    *)
(* empty segment, so <<"", "a">> is "/a" and <<"a", "", "b">> is "a//b".   *)
(* A template is a sequence of tokens, each a literal segment or a         *)
(* reference {{.Vars.k}}; a variable's value is itself a path, and         *)
(* substituting it splices its segments in (a value "../x" adds two).      *)
(***************************************************************************)
EXTENDS Integers, Sequences, SequencesExt

CONSTANTS
    Keys,          \* variable names templates may reference
    Values,        \* variable values, as segment sequences
    SrcTemplates,  \* mapping sources the profile may hold
    DstTemplates,  \* mapping destinations the profile may hold
    RepoPaths,     \* cleaned relative paths that exist in the checkout
    MappingTypes,  \* mapping types a profile may give ("" for none)
    MaxMappings    \* bound on the number of mappings in a profile

Lit(s) == [kind |-> "lit", val |-> s]
Ref(k) == [kind |-> "ref", val |-> k]

VARIABLES
    mappings,  \* profile.Mappings: <<[src, dst, required]>>
    vars,      \* tmplCtx.Vars: a function on the keys the profile defines
    i,         \* loop index of buildSyncPlan
    plan,      \* plan.Mappings built so far: <<[src, dst, type]>>, src under repoPath
    result     \* "running", "ok" (plan returned) or "error" (nil, err)

cvars == <<mappings, vars, i, plan, result>>

-----------------------------------------------------------------------------
(* path/filepath on a Unix build.                                          *)

IsAbs(p) == Len(p) > 1 /\ p[1] = ""

\* filepath.Clean's lexical rules: drop empty and "." elements, let ".."
\* remove the preceding non-".." element, drop ".." at the root of a rooted
\* path, and turn an empty result into "." (or "/").
RECURSIVE CleanWalk(_, _, _)
CleanWalk(segs, rooted, out) ==
    IF segs = <<>> THEN out
    ELSE LET s    == Head(segs)
             next == CASE s \in {"", "."}                 -> out
                       [] s = ".." /\ out # <<>> /\ Last(out) # ".." -> Front(out)
                       [] s = ".." /\ rooted               -> out
                       [] OTHER                            -> Append(out, s)
         IN CleanWalk(Tail(segs), rooted, next)

Clean(p) ==
    LET out == CleanWalk(p, IsAbs(p), <<>>)
    IN  IF IsAbs(p) THEN <<"">> \o (IF out = <<>> THEN <<"">> ELSE out)
        ELSE IF out = <<>> THEN <<".">> ELSE out

\* filepath.Join(repoPath, src), kept relative to repoPath.
JoinRepo(src) == Clean(src)

-----------------------------------------------------------------------------
(* profile.go                                                              *)

HasTemplate(t) == \E j \in DOMAIN t : t[j].kind = "ref"

\* resolveTemplate: no "{{" returns the text as it is; otherwise executing
\* with missingkey=error fails on a key vars lacks.  Result: [failed, path].
Resolve(t, v) ==
    IF ~HasTemplate(t) THEN [failed |-> FALSE, path |-> [j \in DOMAIN t |-> t[j].val]]
    ELSE IF \E j \in DOMAIN t : t[j].kind = "ref" /\ t[j].val \notin DOMAIN v
         THEN [failed |-> TRUE, path |-> <<>>]
         ELSE [failed |-> FALSE,
               path   |-> FlattenSeq([j \in DOMAIN t |->
                            IF t[j].kind = "lit" THEN <<t[j].val>> ELSE v[t[j].val]])]

\* Mutant: the "../" prefix test is left out.
ValidPathNoPrefix(p) ==
    LET c == Clean(p)
    IN  /\ ~IsAbs(p)
        /\ c # <<"..">>
        /\ ~(\E j \in 2..(Len(c) - 1) : c[j] = "..")

\* validateResolvedPath: reject absolute paths, then clean and reject ".."
\* and any "../" prefix or "/../" infix of the cleaned string.
ValidPath(p) ==
    LET c == Clean(p)
    IN  /\ ~IsAbs(p)
        /\ c # <<"..">>
        /\ ~(Len(c) >= 2 /\ c[1] = "..")                    \* HasPrefix "../"
        /\ ~(\E j \in 2..(Len(c) - 1) : c[j] = "..")         \* Contains "/../"

\* os.Stat(absSrc): a path of the checkout exists; for any other the error
\* is IsNotExist or, when the stat itself fails, some other error.
StatOutcomes(src) ==
    IF JoinRepo(src) \in RepoPaths THEN {"exists"} ELSE {"notExist", "otherErr"}

\* Mutant: the empty type is passed through instead of defaulting to "dir".
TypeOfNoDefault(t) == t

\* The mapping's type, "dir" when the profile leaves it empty.
TypeOf(t) == IF t = "" THEN "dir" ELSE t

\* Mutant: the templates are validated as written, before resolution.
CompileMappingRawValidate ==
    /\ result = "running"
    /\ i <= Len(mappings)
    /\ LET m   == mappings[i]
           raw(t) == [j \in DOMAIN t |-> t[j].val]
           src == Resolve(m.src, vars)
           dst == Resolve(m.dst, vars)
       IN  \/ /\ \/ src.failed \/ dst.failed
                 \/ ~ValidPath(raw(m.src)) \/ ~ValidPath(raw(m.dst))
              /\ result' = "error"
              /\ plan' = <<>>
              /\ UNCHANGED i
           \/ /\ ~src.failed /\ ~dst.failed
              /\ ValidPath(raw(m.src)) /\ ValidPath(raw(m.dst))
              /\ \E stat \in StatOutcomes(src.path) :
                   IF m.required /\ stat = "notExist"
                   THEN /\ result' = "error"
                        /\ plan' = <<>>
                        /\ UNCHANGED i
                   ELSE /\ plan' = Append(plan, [src |-> JoinRepo(src.path), dst |-> dst.path, type |-> TypeOf(m.type)])
                        /\ i' = i + 1
                        /\ UNCHANGED result
    /\ UNCHANGED <<mappings, vars>>

\* One iteration of the mapping loop, up to the early return it takes.
CompileMapping ==
    /\ result = "running"
    /\ i <= Len(mappings)
    /\ LET m   == mappings[i]
           src == Resolve(m.src, vars)
           dst == Resolve(m.dst, vars)
       IN  \/ /\ \/ src.failed \/ dst.failed
                 \/ ~ValidPath(src.path) \/ ~ValidPath(dst.path)
              /\ result' = "error"
              /\ plan' = <<>>
              /\ UNCHANGED i
           \/ /\ ~src.failed /\ ~dst.failed /\ ValidPath(src.path) /\ ValidPath(dst.path)
              /\ \E stat \in StatOutcomes(src.path) :
                   IF m.required /\ stat = "notExist"
                   THEN /\ result' = "error"
                        /\ plan' = <<>>
                        /\ UNCHANGED i
                   ELSE /\ plan' = Append(plan, [src |-> JoinRepo(src.path), dst |-> dst.path, type |-> TypeOf(m.type)])
                        /\ i' = i + 1
                        /\ UNCHANGED result
    /\ UNCHANGED <<mappings, vars>>

\* After the loop: the excludes are attached and the plan returned.
FinishPlan ==
    /\ result = "running"
    /\ i > Len(mappings)
    /\ result' = "ok"
    /\ UNCHANGED <<mappings, vars, i, plan>>

Profiles ==
    LET Mapping == [src : SrcTemplates, dst : DstTemplates, required : BOOLEAN,
                   type : MappingTypes]
    IN  UNION {[1..n -> Mapping] : n \in 1..MaxMappings}

VarMaps == UNION {[D -> Values] : D \in SUBSET Keys}

TypeOK ==
    /\ mappings \in Profiles
    /\ vars \in VarMaps
    /\ i \in 1..(MaxMappings + 1)
    /\ plan \in Seq([src : Seq(STRING), dst : Seq(STRING), type : {"dir", "file"}])
    /\ result \in {"running", "ok", "error"}

\* Any profile and variables the controller can hand over.
Init ==
    /\ mappings \in Profiles
    /\ vars \in VarMaps
    /\ i = 1
    /\ plan = <<>>
    /\ result = "running"

Next == CompileMapping \/ FinishPlan

Spec == Init /\ [][Next]_cvars

-----------------------------------------------------------------------------
(* Reference definition: walking a relative path from the root one element *)
(* at a time, never stepping above the root.                               *)

Step(s) == CASE s = ".." -> -1 [] s \in {"", "."} -> 0 [] OTHER -> 1

RECURSIVE StaysInside(_, _)
StaysInside(p, depth) ==
    \/ p = <<>>
    \/ /\ depth + Step(Head(p)) >= 0
       /\ StaysInside(Tail(p), depth + Step(Head(p)))

Contained(p) == ~IsAbs(p) /\ StaysInside(p, 0)

(* Properties.                                                             *)

\* validateResolvedPath accepts exactly the paths that stay under the root:
\* every resolved source and destination of the profile is accepted iff
\* walking it never leaves the root (no false rejections of "a/../b" or
\* "..a", no acceptance of "a/../../b").
ValidationExact ==
    \A j \in DOMAIN mappings :
        \A r \in {Resolve(mappings[j].src, vars), Resolve(mappings[j].dst, vars)} :
            ~r.failed => (ValidPath(r.path) <=> Contained(r.path))

\* No variable value can make a compiled plan reach outside the checkout
\* or the live directory: every planned source and destination stays
\* under its root.
PlanStaysInside ==
    result = "ok" =>
        \A j \in DOMAIN plan : Contained(plan[j].src) /\ Contained(plan[j].dst)

=============================================================================
