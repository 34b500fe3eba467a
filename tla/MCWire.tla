------------------------------- MODULE MCWire -------------------------------
(* Instance of Wire: cases of every declared type, values of every tag,    *)
(* recorded lines canonical and not, and targets that echo, change their   *)
(* argument, raise, print, and return what no signature describes.         *)
EXTENDS Wire

MCAtomOrder == <<"", "-0", "-0.0", "-1", "0", "1", "1.5", "1.50", "1.5e3", "12",
    "1E+2", "1e2", "2", "5", "90", "9007199254740992", "ClassTrace", "Counter",
    "ListNode", "Title", "TreeNode", "Two Sum", "ValueError", "absent", "add", "args",
    "array", "bad", "bool", "boolean", "bytes", "cases", "casesDir", "chain", "class",
    "complex", "constructor", "date", "datetime", "decimal", "deep", "dict", "entry",
    "entrypoint", "enum", "exception", "expected", "false", "field", "float",
    "frozenset", "gap", "gen.py", "generator", "get", "input", "inputBytes", "int",
    "limits", "list", "malformed", "map", "methods", "naive", "namedtuple", "nil",
    "none", "null", "number", "object", "op", "other", "path", "record", "returns",
    "schemaVersion", "set", "slug", "solution.py", "speed", "str", "string",
    "surrogate", "time", "title", "toString", "tree", "true", "tuple", "two-sum",
    "types", "uuid", "x", "y">>
MCNumberOf == [t \in {"0", "-0", "1", "1.5", "2", "1e2", "1E+2"} |->
    CASE t \in {"0", "-0"} -> 0 [] t = "1" -> 10 [] t = "1.5" -> 15 [] t = "2" -> 20
      [] OTHER -> 1000]
MCPyNumber == [t \in {"9007199254740992", "true", "false"} \cup DOMAIN MCNumberOf |->
    CASE t = "true" -> 10 [] t = "false" -> 0 [] t = "9007199254740992" -> 90000
      [] OTHER -> MCNumberOf[t]]
MCPySpelling == "1e2" :> "1E+2"
MCFloatText == ("1" :> "1") @@ ("2" :> "2") @@ ("-0.0" :> "-0") @@ ("1.5" :> "1.5") @@ ("1.50" :> "1.5")
               @@ ("9007199254740992" :> "9007199254740992")
MCNoTolerance == -1

-----------------------------------------------------------------------------
(* Case files and problem files.                                           *)
N(text) == Leaf("number", text)
S(text) == Leaf("string", text)
Nil == Leaf("nil", "")
Array(items) == V("array", "", items)
UpTo(A, n) == UNION {[1..k -> A] : k \in 0..n}
Field(name, v) == V("field", name, <<v>>)
JsonObject(fields) == V("object", "", fields)
Case(in, out) == JsonObject(<<Field("input", in), Field("expected", out)>>)
Group(cases) == JsonObject(<<Field("cases", Array(cases))>>)

Map(fields) == V("map", "", fields)
Types(types) == V("list", "", types)
Of(name, item) == V("string", name, <<item>>)
I(text) == Leaf("int", text)
Common == <<Field("schemaVersion", I("1")), Field("slug", S("two-sum")),
           Field("title", S("x")), Field("entrypoint", S("solution.py"))>>
Function(args, returns) == Common \o <<Field("args", Types(args)), Field("returns", returns)>>
Unary(type) == Function(<<type>>, type)
Limits(name, value) == <<Field("limits", Map(<<Field(name, value)>>))>>

MCIntValue == [t \in {"0", "1", "2", "5", "12", "90", "-1"} |->
    CASE t = "0" -> 0 [] t = "1" -> 1 [] t = "2" -> 2 [] t = "5" -> 5 [] t = "12" -> 12
      [] t = "90" -> 90 [] OTHER -> -1]
Wide == 60
MCDefaultLimits == [inputBytes |-> Wide, wallTimeMs |-> 2]
Assets == {"entrypoint", "casesDir", "statement", "generator", "naive"}
Request(slug, overrides, places, executables) ==
    [slug |-> slug, overrides |-> overrides, places |-> places, executables |-> executables]
Inside == [name \in Assets |-> "inside"]
Tools == {"uv", "python3"}
Usual == Request("two-sum", {}, Inside, Tools)
Trip(fields, document, target, request) ==
    [kind |-> "case", yaml |-> Map(fields), request |-> request, document |-> document,
     target |-> target, tolerance |-> MCNoTolerance]

Scalars == {N("1"), N("1.50"), N("-0.0"), N("1.5e3"), N("9007199254740992"), S("1"),
            Leaf("boolean", "true"), Nil}
Lists == {Array(s) : s \in UpTo({N("1"), N("2")}, 2)} \cup {Nil}
TreeArrays == {Array(s) : s \in UpTo({N("1"), Nil}, 5)} \cup {Nil}
NestedArrays == {Array(<<l>>) : l \in Lists} \cup {Array(<<Array(<<Array(<<N("1")>>)>>)>>)}
          \cup {Array(<<S("1"), S("x")>>)}
Cases ==
    {Trip(Unary(type), Case(Array(<<in>>), out), target, Usual) :
        type \in {S(t) : t \in ScalarTypes}, in \in Scalars, out \in Scalars,
        target \in {"echo", "raise"}}
    \cup {Trip(Unary(type) \o more, Case(Array(<<in>>), out), target, Usual) :
            type \in {Of("list", S("int")), S("ListNode")}, in \in Lists, out \in Lists,
            target \in {"echo", "loop", "print", "drop", "nest"},
            more \in {<<>>, Limits("inputBytes", I("12"))}}
    \cup {Trip(Unary(type), Case(Array(<<in>>), in), target, Usual) :
            type \in {S("TreeNode"), Of("TreeNode", S("null"))}, in \in TreeArrays,
            target \in {"echo", "mirror"}}
    \cup {Trip(Unary(Of("list", type)), Case(Array(<<in>>), in), "echo", Usual) :
            type \in {S("str"), S("TreeNode"), S("ListNode"), Of("list", S("int"))},
            in \in NestedArrays}

\* Groups of up to two cases, and documents that are not case files.
One == Case(Array(<<N("1")>>), N("1"))
Two == Case(Array(<<N("2")>>), N("1"))
Documents ==
    {Group(s) : s \in UpTo({One, Two, Case(Array(<<>>), N("1")), Group(<<One>>), Nil}, 2)}
    \cup {Nil, Array(<<One>>), JsonObject(<<>>), Case(N("1"), N("1")),
          JsonObject(<<Field("cases", Nil)>>),
          JsonObject(<<Field("cases", Array(<<One>>)), Field("input", Nil)>>),
          JsonObject(<<Field("input", Array(<<N("1")>>))>>)}
\* What a problem file may say beside the signature, right and wrong.
Extras ==
    {<<>>} \cup {<<Field("generator", S("gen.py"))>>, <<Field("naive", S(""))>>,
                 <<Field("casesDir", I("1"))>>, <<Field("methods", Map(<<>>))>>,
                 <<Field("limits", Types(<<>>))>>}
    \cup {Limits("inputBytes", I(n)) :
             n \in {"0", "-1", "5", "90", "9007199254740992"}}
    \cup {Limits("toString", I("5")), Limits("speed", I("5")), Limits("inputBytes", S("5"))}
BadFunctions ==
    {Function(<<S("list")>>, S("int")), Function(<<Of("set", S("int"))>>, S("int")),
     Function(<<S("int")>>, Types(<<>>)), Function(<<S("int")>>, Leaf("null", "")),
     Common \o <<Field("args", Types(<<S("int")>>))>>, Tail(Unary(S("int"))),
     [Unary(S("int")) EXCEPT ![1] = Field("schemaVersion", I("2"))],
     [Unary(S("int")) EXCEPT ![2] = Field("slug", S("Two Sum"))],
     [Unary(S("int")) EXCEPT ![5] = Field("args", S("int"))]}
Requests ==
    {Usual, Request("other", {}, Inside, Tools), Request("two-sum", {}, Inside, {"uv"})}
    \cup {Request("two-sum", overrides, [Inside EXCEPT ![name] = place], Tools) :
             overrides \in {{}, {"entrypoint"}, {"naive"}},
             name \in {"entrypoint", "generator", "naive"}, place \in {"outside", "missing"}}
Problems ==
    {Trip(Unary(S("int")) \o more, document, "echo", Usual) :
        more \in Extras, document \in Documents}
    \cup {Trip(fields, One, "echo", Usual) : fields \in BadFunctions}
    \cup {Trip(Unary(S("int")) \o more, One, "echo", request) :
            request \in Requests, more \in {<<>>, <<Field("generator", S("gen.py"))>>}}
    \cup {[Trip(<<>>, Case(Array(<<>>), Nil), "first", Request(slug, {}, Inside, Tools))
            EXCEPT !.yaml = starterProblemYaml(slug)] :
            slug \in {"two-sum", "other", "2", "90", "null", "true"}}
    \cup {[Trip(<<>>, One, "echo", Usual) EXCEPT !.yaml = Leaf("malformed", "")]}

Counter(methods) ==
    Common \o <<Field("class", S("Counter")), Field("constructor", Types(<<>>)),
               Field("methods", methods)>>
Methods == Map(<<Field("add", Map(<<Field("args", Types(<<S("int")>>)),
                                    Field("returns", S("int"))>>)),
                 Field("get", Map(<<Field("args", Types(<<>>)),
                                    Field("returns", S("ListNode"))>>))>>)
BadMethods == {Map(<<>>), S("x"), Map(<<Field("get", S("int"))>>),
    Map(<<Field("get", Map(<<Field("args", Types(<<>>)), Field("x", Nil)>>))>>)}
Calls == {<<S("add"), Array(<<N("1")>>)>>, <<S("add"), Array(<<>>)>>,
          <<S("get"), Array(<<>>)>>, <<S("x"), Array(<<>>)>>, <<N("1"), Nil>>}
Column(calls, k) == Array([i \in DOMAIN calls |-> calls[i][k]])
ClassCase(calls, outs) ==
    LET all == <<<<S("Counter"), Array(<<>>)>>>> \o calls
    IN Case(Array(<<Column(all, 1), Column(all, 2)>>), Array(<<Nil>> \o outs))
ClassCases ==
    {Trip(Counter(Methods), ClassCase(calls, outs), target, Usual) :
        calls \in UpTo(Calls, 2), outs \in UpTo({N("1"), Nil}, 2), target \in {"first", "raise", "missing"}}
    \cup {Trip(Counter(methods), ClassCase(<<>>, <<>>), "first", Usual) : methods \in BadMethods}
    \cup {Trip(Counter(Methods), Case(in, Array(<<Nil>>)), "first", Usual) :
            in \in {Array(<<>>), Array(<<Array(<<>>), Array(<<>>)>>),
                    Array(<<Array(<<S("x")>>), Array(<<Array(<<>>)>>)>>), Nil}}
-----------------------------------------------------------------------------
(* Canonical values, and lines that may not be canonical.                  *)
Keys == {I("1"), I("2"), Leaf("bool", "true"), Leaf("float", "1"), Leaf("decimal", "1e2"),
         V("list", "", <<I("1")>>)}
Entry(k, v) == V("entry", "", <<k, v>>)
RECURSIVE Deep(_, _)
Deep(tag, n) == IF n = 0 THEN I("1") ELSE V(tag, IF tag = "list" THEN "" ELSE "x", <<Deep(tag, n - 1)>>)
Exception(details) == V("exception", "ValueError", details)
Values ==
    Keys
    \cup {V(tag, "", s) : tag \in {"list", "tuple", "set", "frozenset"}, s \in UpTo(Keys, 2)}
    \cup {V("dict", "", [i \in DOMAIN s |-> Entry(s[i], I("2"))]) : s \in UpTo(Keys, 2)}
    \cup {V("ListNode", c, s) : c \in {"none", "0", "1"}, s \in UpTo({I("1")}, 2)}
    \cup {V("TreeNode", "", s) : s \in UpTo({I("1"), Gap}, 5)}
    \cup {V("TreeNode", "", <<I("1"), Gap, I("1"), Gap, Gap, I("1")>>)}
    \cup {V("record", "namedtuple", s) : s \in UpTo({Field("x", I("1")), Field("y", I("2"))}, 2)}
    \cup {V("complex", "", s) : s \in [1..2 -> {I("1"), Leaf("float", "1.5"), Leaf("str", "x")}]}
    \cup {Deep(tag, n) : tag \in {"list", "enum"}, n \in 0..5}
    \cup {Exception(<<>>), Exception(<<Deep("list", 4)>>)}
    \cup {Leaf(t, "x") : t \in {"str", "bytes", "date", "time", "uuid", "path"}}
    \cup {Leaf("datetime", "naive"), Leaf("str", "surrogate"), I("9007199254740992"), Null}
Wires == {Encode[v][0] : v \in Values} \cup Values
    \cup {V("int", "", <<Leaf(s, t)>>) : s \in {"number", "string"}, t \in {"1", "9007199254740992"}}
ValueTrips ==
    {[kind |-> "value", value |-> v, target |-> target, inputBytes |-> Wide,
      tolerance |-> MCNoTolerance] : v \in Values, target \in {"echo", "bump", "drop", "raiseDeep"}}
    \cup {[kind |-> "value", value |-> I("1"), target |-> target, inputBytes |-> Wide,
           tolerance |-> MCNoTolerance] : target \in {"wide", "complexes"}}
    \cup {[kind |-> "value", value |-> Leaf("float", "1"), target |-> "float",
           inputBytes |-> Wide, tolerance |-> t] : t \in {MCNoTolerance, 4, 5}}
RecordedTrips ==
    {[kind |-> "recorded", wire |-> w, target |-> target, inputBytes |-> Wide,
      tolerance |-> MCNoTolerance] : w \in Wires \ {Bad, TooDeep}, target \in {"echo", "raise"}}
MCTrips == Cases \cup Problems \cup ClassCases \cup ValueTrips \cup RecordedTrips

-----------------------------------------------------------------------------
(* The targets.                                                            *)
Outcome(kind, value) == [kind |-> kind, value |-> value]
\* Every integer 1 of a value becomes a 2, and every True a False.
RECURSIVE Bump(_)
Bump(n) ==
    CASE n.tag \in {"chain", "tree"} ->
            [n EXCEPT !.kids = [i \in DOMAIN n.kids |->
                                  [n.kids[i] EXCEPT !.val = Bump(n.kids[i].val)]]]
      [] n.tag = "int" -> IF n.atom = "1" THEN I("2") ELSE n
      [] n.tag = "bool" -> Leaf("bool", "false")
      [] OTHER -> [n EXCEPT !.kids = [i \in DOMAIN n.kids |-> Bump(n.kids[i])]]
First(args) == IF args = <<>> THEN Null ELSE args[1]
MCApply(target, args) ==
    CASE target \in {"echo", "first"} -> Outcome("returns", First(args))
      [] target = "raise" -> Outcome("raises", Exception(<<>>))
      [] target = "missing" -> Outcome(IF args = <<>> THEN "returns" ELSE "missing", Null)
      [] target = "raiseDeep" -> Outcome("raises", Exception(<<Deep("list", 4)>>))
      [] target = "print" -> Outcome("prints", First(args))
      [] target = "bump" -> Outcome("returns", Bump(First(args)))
      [] target = "nest" -> Outcome("returns", Deep("list", 5))
      [] target = "wide" -> Outcome("returns", V("list", "", [i \in 1..14 |-> I("1")]))
      [] target = "complexes" ->
            LET part == Leaf("float", "1.5")
            IN Outcome("returns",
                   V("list", "", [i \in 1..5 |-> V("complex", "", <<part, part>>)]))
      [] target = "float" -> Outcome("returns", Leaf("float", "1.5"))
      [] target = "loop" -> Outcome("returns", build_list(<<I("1")>>, "0"))
      [] target = "drop" ->
            LET it == First(args)
            IN Outcome("returns", IF it.tag = "list" /\ it.kids # <<>>
                                  THEN V("list", "", Tail(it.kids)) ELSE it)
      [] target = "mirror" ->
            LET it == First(args)
            IN Outcome("returns", IF it.tag # "tree" THEN it
                  ELSE V("tree", "", [i \in DOMAIN it.kids |->
                           [val |-> it.kids[i].val, left |-> it.kids[i].right,
                            right |-> it.kids[i].left]]))
=============================================================================
