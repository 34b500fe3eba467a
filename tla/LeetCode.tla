------------------------------ MODULE LeetCode ------------------------------
(* The signature-directed reading of a case file (judging/leetcode.ts): a  *)
(* JSON node and a declared type give a canonical value.  JSON nodes and   *)
(* types are trees of the same shape: nodes are number, string, boolean,   *)
(* nil, array and object, a type is its name with its item type as child.     *)
EXTENDS Codec

CONSTANTS FloatText,   \* the float of a number text the grammar takes: its
                       \* String(Number(raw)), or "-0" with negativeZero set
          IntTexts     \* the texts that are decimal integers

integer(node) ==
    IF node.tag \in {"number", "string"} /\ node.atom \in IntTexts
    THEN Leaf("int", node.atom) ELSE Bad
float(node) ==
    IF node.tag = "number" /\ node.atom \in DOMAIN FloatText
    THEN Leaf("float", FloatText[node.atom]) ELSE Bad

\* Every null slot is skipped: only real nodes own the next two slots.  A
\* slot is reachable when a real node before it has not used up its two.
validateTree(slots) ==
    \A i \in 2..Len(slots) :
        slots[i] # Gap =>
            2 * Cardinality({j \in 1..(i - 1) : slots[j] # Gap}) >= i - 1
RootOk(slots) == slots # <<>> /\ slots[1] = Gap => \A i \in DOMAIN slots : slots[i] = Gap

\* A missing head or root is an empty adapter value, at the top of a return
\* it is null.
Nothing(type, topLevelReturn) ==
    IF topLevelReturn THEN Null
    ELSE V(type.tag, IF type.tag = "ListNode" THEN "none" ELSE "", <<>>)
decodeListNode(node, type, topLevelReturn, items) ==
    IF node.tag = "nil" THEN Nothing(type, topLevelReturn)
    ELSE IF node.tag # "array" THEN Bad
    ELSE Pack("ListNode", "none", items)
decodeTreeNode(node, type, topLevelReturn, items) ==
    LET slots == [i \in DOMAIN node.kids |->
                     IF node.kids[i].tag = "nil" THEN Gap ELSE items[i]]
    IN IF node.tag = "nil" THEN Nothing(type, topLevelReturn)
       ELSE IF node.tag # "array" THEN Bad
       ELSE IF ~RootOk(slots) \/ ~validateTree(slots) THEN Bad
       ELSE Pack("TreeNode", "", StripGaps(slots))

\* The items are what the item type makes of the children.
DecodeBy(node, type, topLevelReturn, items) ==
    CASE type.tag = "int" -> integer(node)
      [] type.tag = "float" -> float(node)
      [] type.tag = "str" -> IF node.tag = "string" THEN Leaf("str", node.atom) ELSE Bad
      [] type.tag = "bool" -> IF node.tag = "boolean" THEN Leaf("bool", node.atom) ELSE Bad
      [] type.tag = "null" -> IF node.tag = "nil" THEN Null ELSE Bad
      [] type.tag = "list" -> IF node.tag = "array" THEN Pack("list", "", items) ELSE Bad
      [] type.tag = "ListNode" -> decodeListNode(node, type, topLevelReturn, items)
      [] type.tag = "TreeNode" -> decodeTreeNode(node, type, topLevelReturn, items)
decode[node \in Trees, type \in Trees, topLevelReturn \in BOOLEAN] ==
    DecodeBy(node, type, topLevelReturn,
             [i \in DOMAIN node.kids |-> decode[node.kids[i], type.kids[1], FALSE]])

decodeArguments(node, types) ==
    IF node.tag # "array" \/ Len(node.kids) # Len(types) THEN Bad
    ELSE Pack("args", "", [i \in DOMAIN types |-> decode[node.kids[i], types[i], FALSE]])

NoCase == [input |-> Bad, expected |-> Bad]
decodeFunctionCase(input, expected, problem) ==
    LET args == decodeArguments(input, problem.args)
    IN [input |-> IF IsFault(args) THEN Bad ELSE V("tuple", "", args.kids),
        expected |-> decode[expected, problem.returns, TRUE]]
\* The input of a class case is [operations, arguments], the first of them
\* the constructor's, whose expected value is null.
decodeClassCase(input, expected, problem) ==
    LET operations == input.kids[1]
        arguments == input.kids[2]
        Known(i) == /\ operations.kids[i].tag = "string"
                    /\ operations.kids[i].atom \in DOMAIN problem.methods
        Method(i) == problem.methods[operations.kids[i].atom]
        Op(i) == IF ~Known(i) THEN Bad
                 ELSE Pack("op", operations.kids[i].atom,
                           <<decodeArguments(arguments.kids[i], Method(i).args)>>)
        Return(i) == IF ~Known(i) THEN Bad
                     ELSE decode[expected.kids[i], Method(i).returns, TRUE]
        n == Len(operations.kids)
        shapeOk == /\ input.tag = "array" /\ Len(input.kids) = 2 /\ expected.tag = "array"
                   /\ operations.tag = "array" /\ arguments.tag = "array" /\ n > 0
                   /\ Len(arguments.kids) = n /\ Len(expected.kids) = n
                   /\ operations.kids[1] = Leaf("string", problem.className)
                   /\ expected.kids[1].tag = "nil"
    IN IF ~shapeOk THEN NoCase
       ELSE [input |-> Pack("ClassTrace", problem.className,
                            <<decodeArguments(arguments.kids[1], problem.ctor)>>
                            \o [i \in 1..(n - 1) |-> Op(i + 1)]),
             expected |-> Pack("list", "", <<Null>> \o [i \in 1..(n - 1) |-> Return(i + 1)])]
decodeLeetCodeCase(input, expected, problem) ==
    IF problem.kind = "function" THEN decodeFunctionCase(input, expected, problem)
    ELSE decodeClassCase(input, expected, problem)

isLeetCodeValue[v \in Trees] ==
    CASE v.tag \in {"null", "bool", "int", "float", "str"} -> TRUE
      [] v.tag \in {"list", "tuple"} \/ (v.tag = "ListNode" /\ v.atom = "none") ->
            \A i \in DOMAIN v.kids : isLeetCodeValue[v.kids[i]]
      [] v.tag = "TreeNode" ->
            \A i \in DOMAIN v.kids : v.kids[i] = Gap \/ isLeetCodeValue[v.kids[i]]
      [] OTHER -> FALSE
=============================================================================
