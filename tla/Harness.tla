------------------------------ MODULE Harness ------------------------------
(* The Python harness: wire to native objects, the invocation of the       *)
(* target, native objects back to the wire (harness/canonical/decode.py,   *)
(* encode.py, adapters.py and runner.py).  Native values are the trees of  *)
(* Codec with three exceptions: None is Null, a linked list is a "chain"   *)
(* and a binary tree a "tree", whose kids are cells with links (0 = None). *)
(* A fault of any kind ends the process with status 1 and no response.     *)
EXTENDS Codec

CONSTANTS PyNumber,     \* the number a numeric or Boolean text stands for
          PySpelling,   \* how str() spells a decimal or a time, where it differs
          Apply(_, _)   \* what a target does when called with arguments

Respell(text) == IF text \in DOMAIN PySpelling THEN PySpelling[text] ELSE text
IsFaulty(kids) == \E i \in DOMAIN kids : IsFault(kids[i])

\* A list has a cell, and no more of them than its encoder would count nodes;
\* links lead to cells.
Chains(items) ==
    {o \in [tag : {"chain"}, atom : {""}, kids : Seq([val : items, next : Nat])] :
        /\ Len(o.kids) \in 1..MaxNodes
        /\ \A i \in DOMAIN o.kids : o.kids[i].next <= Len(o.kids)}
\* No cell is linked to twice: what two nodes share is listed twice, like two.
Children(cell) == <<cell.left, cell.right>>
BinaryTrees(items) ==
    {o \in [tag : {"tree"}, atom : {""}, kids : Seq([val : items, left : Nat, right : Nat])] :
        /\ o.kids # <<>>
        /\ \A i \in DOMAIN o.kids : /\ o.kids[i].left <= Len(o.kids)
                                     /\ o.kids[i].right <= Len(o.kids)
        /\ \A i, j \in DOMAIN o.kids : \A a, b \in 1..2 :
              LET child == Children(o.kids[i])[a]
              IN child = Children(o.kids[j])[b] /\ child # 0 => child # 1 /\ <<i, a>> = <<j, b>>}
Dicts(items) ==
    {o \in [tag : {"dict"}, atom : Words, kids : Seq(items)] :
        \A i \in DOMAIN o.kids : o.kids[i].tag = "entry" /\ Len(o.kids[i].kids) = 2}
\* The objects that are written in at most n levels: an integer has its
\* spelling below it.
ObjectsUpTo[n \in 0..MaxNesting] ==
    IF n < 2 THEN {}
    ELSE LET items == ObjectsUpTo[n - 1]
         IN [tag : STRING \ {"chain", "tree", "dict"}, atom : Words, kids : Seq(items)]
            \cup Chains(items) \cup BinaryTrees(items) \cup Dicts(items)
Objects == ObjectsUpTo[MaxNesting]
\* What a function of objects gives for the items of n.
Item(n, i) == IF n.tag \in {"chain", "tree"} THEN n.kids[i].val ELSE n.kids[i]
OfItems(f, n) == [i \in DOMAIN n.kids |-> f[Item(n, i)]]

-----------------------------------------------------------------------------
(* adapters.py                                                             *)
ZeroBased(index, length) == CHOOSE i \in 1..length : ToString(i - 1) = index
build_list(values, cycle) ==
    LET n == Len(values)
        Next(i) == IF i < n THEN i + 1
                   ELSE IF cycle = "none" THEN 0 ELSE ZeroBased(cycle, n)
    IN IF n = 0 THEN Null
       ELSE V("chain", "", [i \in 1..n |-> [val |-> values[i], next |-> Next(i)]])

\* The cells met when the links are followed, 0 after the last.
Followed(cells) ==
    LET at[k \in 0..Len(cells)] ==
            IF k = 0 THEN 1
            ELSE LET before == at[k - 1]
                 IN IF before = 0 THEN 0 ELSE cells[before].next
    IN at
\* They are followed until None or a cell met before.
list_to_canonical(chain) ==
    LET at == Followed(chain.kids)
        Met(k) == {j \in 0..(k - 1) : at[j] = at[k]}
        stop == CHOOSE k \in DOMAIN at :
                    /\ at[k] = 0 \/ Met(k) # {}
                    /\ \A j \in 0..(k - 1) : at[j] # 0 /\ Met(j) = {}
    IN [order |-> [k \in 1..stop |-> at[k - 1]],
        cycle |-> IF at[stop] = 0 THEN "none" ELSE ToString(CHOOSE j \in Met(stop) : TRUE)]

\* The children of the parent at the head of the queue are the next two
\* slots; the queue holds the nodes in the order they were made.
Hang(cells, parent, side, slot) ==
    IF slot = Null THEN cells
    ELSE Append([cells EXCEPT ![parent][side] = Len(cells) + 1],
                [val |-> slot, left |-> 0, right |-> 0])
Consume(state, slots) ==
    LET cells == state.cells
        index == state.index
        withLeft == Hang(cells, state.parent, "left", slots[index])
        withBoth == IF index + 1 > Len(slots) THEN withLeft
                    ELSE Hang(withLeft, state.parent, "right", slots[index + 1])
    IN IF state.parent > Len(cells) \/ index > Len(slots) THEN state
       ELSE [cells |-> withBoth, parent |-> state.parent + 1, index |-> index + 2]
build_tree(slots) ==
    LET root == [val |-> slots[1], left |-> 0, right |-> 0]
        start == [cells |-> <<root>>, parent |-> 1, index |-> 2]
    IN IF slots = <<>> \/ slots[1] = Null THEN Null
       ELSE V("tree", "", FoldLeft(LAMBDA state, slot : Consume(state, slots), start, slots).cells)

\* The places of the values in level order, 0 for an absent child.
Visit(state, cells) ==
    LET node == Head(state.queue)
        rest == Tail(state.queue)
    IN IF state.queue = <<>> THEN state
       ELSE [slots |-> Append(state.slots, node),
             queue |-> IF node = 0 THEN rest ELSE rest \o Children(cells[node])]
Visited(cells) ==
    LET after[k \in 0..(2 * Len(cells) + 1)] ==
            IF k = 0 THEN [queue |-> <<1>>, slots |-> <<>>] ELSE Visit(after[k - 1], cells)
    IN after
LevelOrder(cells) == Visited(cells)[2 * Len(cells) + 1].slots
\* A node whose value is None counts as absent.
Absentee(tree, k) == k = 0 \/ tree.kids[k].val = Null
\* Mutant: the absent slots at the end are listed.
StripNoneNever(tree, slots) == slots
StripNone(tree, slots) ==
    SubSeq(slots, 1, CHOOSE n \in 0..Len(slots) :
                        /\ n # 0 => ~Absentee(tree, slots[n])
                        /\ \A i \in (n + 1)..Len(slots) : Absentee(tree, slots[i]))
tree_to_canonical(tree) == StripNone(tree, LevelOrder(tree.kids))

-----------------------------------------------------------------------------
(* decode.py                                                               *)
\* Python's == on hashable values: numbers of any type compare by value.
EqualityKey[n \in Objects] ==
    IF n.tag \in {"bool", "int", "float", "decimal"}
    THEN Leaf("number", ToString(PyNumber[n.atom]))
    ELSE [n EXCEPT !.kids = OfKids(EqualityKey, n)]
IsHashable[n \in Objects] ==
    /\ n.tag \notin {"list", "set", "dict"}
    /\ n.tag \in {"tuple", "frozenset", "record"} =>
          \A i \in DOMAIN n.kids : IsHashable[n.kids[i]]
\* set(items): the first of equal members stays, an unhashable one is a TypeError.
DistinctMembers(items) ==
    SelectSeq([i \in DOMAIN items |-> <<i, items[i]>>],
              LAMBDA p : \A j \in 1..(p[1] - 1) :
                            EqualityKey[items[j]] # EqualityKey[p[2]])
build_set(tag, items) ==
    LET kept == DistinctMembers(items)
    IN IF IsFaulty(items) THEN Bad
       ELSE IF \E i \in DOMAIN items : ~IsHashable[items[i]] THEN Bad
       ELSE V(tag, "", [i \in DOMAIN kept |-> kept[i][2]])
\* result[key] = value: the first of equal keys stays with the last value.
build_dict(entries) ==
    LET keys == [i \in DOMAIN entries |-> entries[i].kids[1]]
        kept == DistinctMembers(keys)
        LastOf(key) == CHOOSE i \in DOMAIN keys :
                          /\ EqualityKey[keys[i]] = EqualityKey[key]
                          /\ \A j \in (i + 1)..Len(keys) :
                                EqualityKey[keys[j]] # EqualityKey[key]
    IN IF IsFaulty(entries) THEN Bad
       ELSE IF \E i \in DOMAIN keys : ~IsHashable[keys[i]] THEN Bad
       ELSE V("dict", "", [i \in DOMAIN kept |->
                V("entry", "", <<kept[i][2], entries[LastOf(kept[i][2])].kids[2]>>)])

\* Mutant: nothing is counted.
DeeperUnmetered(depth, built) == built
Deeper(depth, built) == IF depth + 1 > MaxDepth THEN TooDeep ELSE built

py_int(w) ==
    IF w.kids[1].tag = (IF IsSafeInt(w.kids[1].atom) THEN "number" ELSE "string")
    THEN Leaf("int", w.kids[1].atom) ELSE Bad
\* complex(float, float): the parts become floats whatever their tag was.
py_complex(parts) ==
    IF \E i \in DOMAIN parts : parts[i].tag \notin NumericTags THEN Bad
    ELSE V("complex", "", [i \in DOMAIN parts |-> Leaf("float", parts[i].atom)])
\* An enum decodes to its underlying value, a record to a namedtuple.
py_enum(w, items) == IF w.atom = "" THEN Bad ELSE items[1]
py_list_node(w, values) == IF IsFaulty(values) THEN Bad ELSE build_list(values, w.atom)
py_tree_node(w, values) ==
    LET slots == [i \in DOMAIN w.kids |-> IF w.kids[i] = Gap THEN Null ELSE values[i]]
    IN IF IsFaulty(slots) \/ EndsInGap(w.kids) \/ Unreachable(w.kids)
       THEN Bad ELSE build_tree(slots)

\* The order of a set and the uniqueness of its members are not checked, the
\* input is trusted to be canonical.
PyBuildBy(w, kids, depth) ==
    LET items == At(kids, depth + 1)
    IN CASE w.tag = "int" -> py_int(w)
         [] w.tag \in TextTags ->
               IF w.atom \in Malformed THEN Bad ELSE Leaf(w.tag, Respell(w.atom))
         [] w.tag = "null" -> Null
         [] w.tag = "complex" -> py_complex(At(kids, depth))
         [] w.tag \in {"list", "tuple", "ClassTrace", "exception"} ->
               Deeper(depth, Pack(w.tag, w.atom, items))
         [] w.tag \in {"set", "frozenset"} -> Deeper(depth, build_set(w.tag, items))
         [] w.tag = "dict" -> Deeper(depth, build_dict(items))
         [] w.tag = "enum" -> Deeper(depth, py_enum(w, items))
         [] w.tag = "record" -> Deeper(depth, Pack("record", "namedtuple", items))
         [] w.tag = "ListNode" -> Deeper(depth, py_list_node(w, items))
         [] w.tag = "TreeNode" -> Deeper(depth, py_tree_node(w, items))
         [] w.tag \in PartTags -> Pack(w.tag, w.atom, At(kids, depth))
         [] OTHER -> Bad
\* _build().
PyBuild[w \in Trees] == [depth \in Nat |-> PyBuildBy(w, OfKids(PyBuild, w), depth)]
py_decode(w) ==
    LET native == PyBuild[w][0]
    IN IF NodesOf[w] > MaxNodes THEN TooDeep ELSE native

-----------------------------------------------------------------------------
(* encode.py                                                               *)
\* Mutant: the order of iteration is kept.
py_encode_setUnsorted(n, items) == Pack(n.tag, "", items)
py_encode_set(n, items) ==
    LET built == Pack(n.tag, "", items)
    IN IF IsFault(built) THEN Bad ELSE Ordered(built, TextsOf(built.kids))
py_encode_dict(n, items) ==
    LET built == Pack("dict", "", items)
    IN IF IsFault(built) THEN Bad ELSE Ordered(built, KeysOf(built.kids))
py_encode_list(n, items) ==
    LET list == list_to_canonical(n)
    IN Pack("ListNode", list.cycle, [k \in DOMAIN list.order |-> items[list.order[k]]])
py_encode_tree(n, items) ==
    LET slots == tree_to_canonical(n)
    IN Pack("TreeNode", "", [i \in DOMAIN slots |->
              IF Absentee(n, slots[i]) THEN Gap ELSE items[slots[i]]])

\* Exceptions and enums do not enter a level, a ClassTrace is not a value a
\* target can return.
PyEncodeBy(n, kids, depth) ==
    LET items == At(kids, depth + 1)
    IN CASE n.tag = "int" -> EncodeInt(n)
         [] n.tag \in TextTags -> EncodeText(n)
         [] n.tag = "null" -> Null
         [] n.tag \in {"list", "tuple", "record"} ->
               Deeper(depth, Pack(n.tag, n.atom, items))
         [] n.tag \in {"set", "frozenset"} -> Deeper(depth, py_encode_set(n, items))
         [] n.tag = "dict" -> Deeper(depth, py_encode_dict(n, items))
         [] n.tag = "chain" -> Deeper(depth, py_encode_list(n, items))
         [] n.tag = "tree" -> Deeper(depth, py_encode_tree(n, items))
         [] n.tag \in {"complex", "enum", "exception", "entry", "field"} ->
               Pack(n.tag, n.atom, At(kids, depth))
         [] OTHER -> Bad
\* _encode_node().
PyEncode[n \in Objects] == [depth \in Nat |-> PyEncodeBy(n, OfItems(PyEncode, n), depth)]
\* A complex number is one node here, and three for the decoders.
PyNodes[w \in Trees] ==
    IF w.tag = "complex" THEN 1 ELSE NodesBy(w, OfKids(PyNodes, w))
\* An object of another kind is refused, and one on which Python recurses too
\* deep: only an enum or an exception gets past the budget.
py_encode(n) ==
    IF n \notin Objects THEN Bad
    ELSE LET wire == PyEncode[n][0]
         IN IF IsFault(wire) THEN Bad ELSE IF PyNodes[wire] > MaxNodes THEN Bad ELSE wire

-----------------------------------------------------------------------------
(* runner.py                                                               *)
\* Apply(target, arguments) is the outcome [kind, value] of a call: "returns",
\* "raises", "prints" (it returns, after writing to stdout) or "missing" (the
\* module has no such symbol, or the class no such method: a HarnessError).  A
\* namedtuple is a tuple and is spread like one.
PositionalArgs(input) ==
    CASE input.tag = "tuple" -> input.kids
      [] input.tag = "record" -> [i \in DOMAIN input.kids |-> input.kids[i].kids[1]]
      [] OTHER -> <<input>>
\* A ClassTrace is constructed once, then each operation is called; the first
\* exception or missing method ends it.  The constructor's place among the
\* returns is a None.
run_class_trace(target, trace) ==
    LET n == Len(trace.kids) - 1
        ArgsOf(i) == IF i = 0 THEN trace.kids[1].kids ELSE trace.kids[i + 1].kids[1].kids
        outcomes == [i \in 0..n |-> Apply(target, ArgsOf(i))]
        ending == {i \in 0..n : outcomes[i].kind \in {"raises", "missing"}}
        printed == \E i \in 0..n : outcomes[i].kind = "prints"
    IN IF ending # {} THEN outcomes[CHOOSE i \in ending : \A j \in ending : i <= j]
       ELSE [kind |-> IF printed THEN "prints" ELSE "returns",
             value |-> V("list", "", <<Null>> \o [i \in 1..n |-> outcomes[i].value])]
run(target, input) ==
    IF input.tag = "ClassTrace" THEN run_class_trace(target, input)
    ELSE Apply(target, PositionalArgs(input))
=============================================================================
