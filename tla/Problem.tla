------------------------------ MODULE Problem -------------------------------
(* The configuration of a problem (infrastructure/problem.ts): from the    *)
(* parsed problem.yaml to the signature, the limits and the assets that a  *)
(* command works with.  A YAML node is a tree: map (of field), list, int,  *)
(* null and string; a string "list[int]" is the text "list" with "int" as  *)
(* its child, a text whose brackets do not close is an atom of its own.    *)
EXTENDS Codec

CONSTANTS IntValue,       \* the integer an int text stands for
          DefaultLimits,  \* DEFAULT_LIMITS: a number for each known name
          ValidSlugs      \* the texts isValidSlug() accepts

ASSUME ProblemLimits ==
    /\ "inputBytes" \in DOMAIN DefaultLimits
    /\ \A name \in DOMAIN DefaultLimits : DefaultLimits[name] \in Nat \ {0}

Absent == Leaf("absent", "")
NoProblem == [kind |-> "none"]
names(map) == {map.kids[i].atom : i \in DOMAIN map.kids}
get(map, name) ==
    IF name \notin names(map) THEN Absent
    ELSE map.kids[CHOOSE i \in DOMAIN map.kids : map.kids[i].atom = name].kids[1]

-----------------------------------------------------------------------------
(* What init writes and what it is read as.                                *)
\* parseScalar() on a text without quotes or brackets.
parseScalar(text) ==
    Leaf(CASE text \in {"null", "~"} -> "null"
           [] text \in {"true", "false"} -> "bool"
           [] text \in DOMAIN IntValue -> "int"
           [] OTHER -> "string", text)
\* A capital letter makes a string of any text, digits have none.
titleForSlug(slug) == IF slug \in DOMAIN IntValue THEN slug ELSE "Title"
starterProblemYaml(slug) ==
    LET Scalar(name, text) == V("field", name, <<parseScalar(text)>>)
        Empty(name, tag) == V("field", name, <<Leaf(tag, "")>>)
    IN V("map", "", <<Scalar("schemaVersion", "1"), Scalar("slug", slug),
                      Scalar("title", titleForSlug(slug)), Scalar("entrypoint", "solution.py"),
                      Empty("limits", "map"), Scalar("casesDir", "cases"),
                      Empty("args", "list"), Scalar("returns", "null")>>)

-----------------------------------------------------------------------------
(* Types and signatures.                                                   *)
ScalarTypes == {"int", "float", "str", "bool", "null"}
AdapterTypes == {"ListNode", "TreeNode"}

\* typeOf() and typeText(): an adapter without brackets holds integers, a
\* YAML null, and so an empty value, is the type null.
typeOf[node \in Trees] ==
    CASE node.tag = "null" -> Leaf("null", "")
      [] node.tag = "string" /\ node.kids = <<>> /\ node.atom \in ScalarTypes ->
            Leaf(node.atom, "")
      [] node.tag = "string" /\ node.kids = <<>> /\ node.atom \in AdapterTypes ->
            V(node.atom, "", <<Leaf("int", "")>>)
      [] node.tag = "string" /\ node.kids # <<>> /\ node.atom \in {"list"} \cup AdapterTypes ->
            Pack(node.atom, "", <<typeOf[node.kids[1]]>>)
      [] OTHER -> Bad
typeList(node) ==
    IF node.tag # "list" THEN Bad
    ELSE Pack("types", "", [i \in DOMAIN node.kids |-> typeOf[node.kids[i]]])

Method(spec) == [args |-> typeList(get(spec, "args")), returns |-> typeOf[get(spec, "returns")]]
MethodOk(spec) ==
    /\ spec.tag = "map" /\ names(spec) \subseteq {"args", "returns"}
    /\ ~IsFault(Method(spec).args) /\ ~IsFault(Method(spec).returns)
MethodsOk(node) ==
    /\ node.tag = "map" /\ node.kids # <<>>
    /\ \A name \in names(node) : MethodOk(get(node, name))
methodsOf(node) ==
    [name \in names(node) |-> [args |-> Method(get(node, name)).args.kids,
                               returns |-> Method(get(node, name)).returns]]

-----------------------------------------------------------------------------
(* Limits.                                                                 *)
\* `name in DEFAULT_LIMITS` also finds what every object inherits.
Inherited == {"toString", "constructor"}
LimitOk(name, node) ==
    /\ name \in DOMAIN DefaultLimits \cup Inherited
    /\ node.tag = "int" /\ IsSafeInt(node.atom) /\ IntValue[node.atom] > 0
\* Mutant: an empty mapping is refused.
LimitsOkSome(node) ==
    node = Absent \/ /\ node.tag = "map" /\ node.kids # <<>>
                     /\ \A name \in names(node) : LimitOk(name, get(node, name))
LimitsOk(node) ==
    node = Absent \/ /\ node.tag = "map"
                     /\ \A name \in names(node) : LimitOk(name, get(node, name))
\* The limits of a run: what the problem states, and the defaults for the rest.
limits(node) ==
    [name \in DOMAIN DefaultLimits |->
        IF node # Absent /\ name \in names(node) THEN IntValue[get(node, name).atom]
        ELSE DefaultLimits[name]]

-----------------------------------------------------------------------------
(* The document.                                                           *)
Shared == {"schemaVersion", "slug", "title", "entrypoint", "casesDir",
           "generator", "naive", "limits"}
FieldsOf(node) ==
    Shared \cup (IF "class" \in names(node) THEN {"class", "constructor", "methods"}
                 ELSE {"args", "returns"})
string(node) == node.tag = "string" /\ (node.atom # "" \/ node.kids # <<>>)
SharedOk(node) ==
    /\ get(node, "schemaVersion") = Leaf("int", "1")
    /\ \A name \in {"slug", "title", "entrypoint"} : string(get(node, name))
    /\ get(node, "slug").atom \in ValidSlugs
    /\ \A name \in {"casesDir", "generator", "naive"} :
          get(node, name) = Absent \/ string(get(node, name))
    /\ LimitsOk(get(node, "limits"))
SignatureOk(node) ==
    IF "class" \in names(node)
    THEN /\ string(get(node, "class")) /\ ~IsFault(typeList(get(node, "constructor")))
         /\ MethodsOk(get(node, "methods"))
    ELSE ~IsFault(typeList(get(node, "args"))) /\ ~IsFault(typeOf[get(node, "returns")])
Signature(node) ==
    IF "class" \in names(node)
    THEN [kind |-> "class", className |-> get(node, "class").atom,
          ctor |-> typeList(get(node, "constructor")).kids,
          methods |-> methodsOf(get(node, "methods"))]
    ELSE [kind |-> "function", args |-> typeList(get(node, "args")).kids,
          returns |-> typeOf[get(node, "returns")]]
\* NoProblem stands for the ProblemError.
parseProblem(node) ==
    IF node.tag = "map" /\ names(node) \subseteq FieldsOf(node)
       /\ SharedOk(node) /\ SignatureOk(node)
    THEN Signature(node) @@ [slug |-> get(node, "slug").atom,
                             limits |-> limits(get(node, "limits"))]
    ELSE NoProblem

-----------------------------------------------------------------------------
(* The context of a run.                                                   *)
\* A request names a problem and overrides some of its files; places says
\* where the path used for an asset leads, after links: inside the problem,
\* outside it, or nowhere.
AssetsOf(node, request) ==
    {"entrypoint", "casesDir", "statement"}
    \cup {name \in {"generator", "naive"} :
            name \in names(node) \/ name \in request.overrides}
confinedRealpath(name, request) ==
    \/ request.places[name] = "inside"
    \/ request.places[name] = "outside" /\ name \in request.overrides
loadRunContext(node, request) ==
    LET problem == parseProblem(node)
    IN IF /\ problem # NoProblem /\ problem.slug = request.slug
          /\ \A name \in AssetsOf(node, request) : confinedRealpath(name, request)
          /\ request.executables = {"uv", "python3"}
       THEN problem ELSE NoProblem
=============================================================================
