------------------------------- MODULE Codec -------------------------------
(* The tagged-jsonl-v1 codec of the host (judging/codec/encode.ts and      *)
(* decode.ts).  A value and its wire form are both trees                   *)
(* [tag, atom, kids]: the parsed JSON object of a tag, the text it carries *)
(* and its children.  Object keys, punctuation and escaping are left out;  *)
(* what is kept is what the two directions can disagree about: the order   *)
(* and uniqueness of members, the two spellings of an integer, the slots   *)
(* of a tree, the index of a cycle, required names and the two budgets.    *)
EXTENDS CanonicalOrder, SequencesExt

CONSTANTS MaxDepth,    \* MAX_DEPTH of limits.ts
          MaxNodes,    \* MAX_NODES of limits.ts
          MaxNesting,  \* JSON_MAX_STRUCTURAL_DEPTH of json.ts
          AtomOrder    \* the texts of the instance, in UTF-8 order

ASSUME CodecLimits == MaxDepth \in Nat /\ MaxNodes \in Nat /\ MaxNesting \in Nat
ASSUME AtomsOrdered ==
    /\ AtomOrder \in Seq(STRING)
    /\ \A i, j \in DOMAIN AtomOrder : AtomOrder[i] = AtomOrder[j] => i = j
\* The encoders' own words are among them.
OwnWords == {"", "none", "gap", "number", "string", "dict", "ListNode", "TreeNode"}
ASSUME AtomsSuffice == OwnWords \subseteq {AtomOrder[i] : i \in DOMAIN AtomOrder}

V(tag, atom, kids) == [tag |-> tag, atom |-> atom, kids |-> kids]
Leaf(tag, atom) == V(tag, atom, <<>>)
Null == Leaf("null", "")
Gap == Leaf("gap", "")          \* an absent slot of a TreeNode: JSON null

\* What a leaf may say; the index of a cycle is a number.
Words == STRING \cup {ToString(i) : i \in 0..MaxNodes}
\* The trees that nest at most n levels, up to what the JSON parser reads.
Nested[n \in 0..MaxNesting] ==
    IF n = 0 THEN {} ELSE [tag : STRING, atom : Words, kids : Seq(Nested[n - 1])]
Trees == Nested[MaxNesting]
\* What a function of trees gives for the children of v.
OfKids(f, v) == [i \in DOMAIN v.kids |-> f[v.kids[i]]]
At(conversions, depth) == [i \in DOMAIN conversions |-> conversions[i][depth]]

\* What a failed conversion yields: a validation error, or the error of an
\* exhausted budget, which the callers do not treat alike.
Bad == Leaf("bad", "")
TooDeep == Leaf("deep", "")
IsFault(v) == v.tag \in {"bad", "deep"}

NumericTags == {"int", "float", "decimal"}
TextTags == {"bool", "float", "decimal", "str", "bytes", "date", "time",
             "datetime", "uuid", "path"}
\* The objects inside a dict, a record and a ClassTrace that are not values.
PartTags == {"entry", "field", "args", "op"}

\* "9007199254740992" is 2^53, the first integer outside the safe range.
IsSafeInt(text) == text \notin {"9007199254740992", "-9007199254740992"}
\* The texts of the instance that a leaf's grammar refuses: a float with a
\* trailing zero, a naive datetime, a lone surrogate.
Malformed == {"1.50", "naive", "surrogate"}

FirstFault(kids) ==
    kids[CHOOSE i \in DOMAIN kids :
            IsFault(kids[i]) /\ \A j \in 1..(i - 1) : ~IsFault(kids[j])]
Pack(tag, atom, kids) ==
    IF \E i \in DOMAIN kids : IsFault(kids[i]) THEN FirstFault(kids)
    ELSE V(tag, atom, kids)
Checked(built, ok) == IF IsFault(built) \/ ok THEN built ELSE Bad

-----------------------------------------------------------------------------
(* The order of the canonical bytes.                                       *)
\* A word that is not in the instance has none, and is never compared.
RankOf(text) ==
    LET places == {i \in DOMAIN AtomOrder : AtomOrder[i] = text}
    IN IF places = {} THEN 0 ELSE CHOOSE i \in places : TRUE

\* canonicalStringOf(), as the sequence of the ranks of its texts.
TextBy(w, texts) ==
    <<RankOf(w.tag), RankOf(w.atom), Len(w.kids)>> \o FlattenSeq(texts)
Text[w \in Trees] == TextBy(w, OfKids(Text, w))

\* countNode() is called for values, not for the JSON around them.
NodesBy(v, counts) ==
    IF v.tag = "int" THEN 1
    ELSE (IF v.tag \in {"gap"} \cup PartTags THEN 0 ELSE 1) + FoldFunction(+, 0, counts)
NodesOf[v \in Trees] == NodesBy(v, OfKids(NodesOf, v))

-----------------------------------------------------------------------------
(* encode.ts: value to wire.  Each operator is given, for every child, its *)
(* conversion: a function of the depth at which it is reached.             *)
\* budget.enter(), the children, budget.leave().
EncodeWithin(v, kids, depth) ==
    IF depth + 1 > MaxDepth THEN TooDeep
    ELSE Pack(v.tag, v.atom, At(kids, depth + 1))

IntSpelling(text) == Leaf(IF IsSafeInt(text) THEN "number" ELSE "string", text)
EncodeInt(v) == V("int", "", <<IntSpelling(v.atom)>>)
EncodeText(v) == IF v.atom \in Malformed THEN Bad ELSE Leaf(v.tag, v.atom)
EncodeComplex(v, kids, depth) ==
    IF \E i \in DOMAIN v.kids : v.kids[i].tag \notin NumericTags THEN Bad
    ELSE Pack(v.tag, v.atom, At(kids, depth))
TextsOf(items) == [i \in DOMAIN items |-> Text[items[i]]]
KeysOf(entries) == [i \in DOMAIN entries |-> Text[entries[i].kids[1]]]
\* encoded.sort(), and the refusal of two that are the same.
Ordered(built, texts) ==
    IF Repeats(texts) THEN Bad ELSE [built EXCEPT !.kids = SortedBy(@, texts)]
EncodeSet(v, kids, depth) ==
    LET built == EncodeWithin(v, kids, depth)
    IN IF IsFault(built) THEN built ELSE Ordered(built, TextsOf(built.kids))
EncodeDict(v, kids, depth) ==
    LET built == EncodeWithin(v, kids, depth)
    IN IF IsFault(built) THEN built ELSE Ordered(built, KeysOf(built.kids))
SomeAtomTwice(v) == \E i, j \in DOMAIN v.kids : i # j /\ v.kids[i].atom = v.kids[j].atom
EncodeRecord(v, kids, depth) ==
    IF SomeAtomTwice(v) THEN Bad ELSE EncodeWithin(v, kids, depth)
InCycleRange(v) == v.atom = "none" \/ \E i \in DOMAIN v.kids : v.atom = ToString(i - 1)
EncodeListNode(v, kids, depth) ==
    Checked(EncodeWithin(v, kids, depth), InCycleRange(v))

\* Trailing null slots are dropped.
LastReal(slots) ==
    CHOOSE k \in 0..Len(slots) : /\ k # 0 => slots[k] # Gap
                                 /\ \A i \in (k + 1)..Len(slots) : slots[i] = Gap
StripGaps(slots) == SubSeq(slots, 1, LastReal(slots))
\* The encoder looks for the children of slot i (from 0) at 2i+1 and 2i+2.
Unreachable(slots) ==
    \E i \in DOMAIN slots :
        /\ slots[i] = Gap
        /\ \E child \in {2 * i, 2 * i + 1} \cap DOMAIN slots : slots[child] # Gap
EncodeTreeNode(v, kids, depth) ==
    IF Unreachable(StripGaps(v.kids)) THEN Bad
    ELSE EncodeWithin(v, SubSeq(kids, 1, LastReal(v.kids)), depth)

\* enum and exception do not enter a level here; decode.ts enters one.
EncodeUnmetered(v, kids, depth) == Pack(v.tag, v.atom, At(kids, depth))

EncodeBy(v, kids, depth) ==
    CASE v.tag = "int" -> EncodeInt(v)
      [] v.tag \in TextTags -> EncodeText(v)
      [] v.tag = "complex" -> EncodeComplex(v, kids, depth)
      [] v.tag \in {"set", "frozenset"} -> EncodeSet(v, kids, depth)
      [] v.tag = "dict" -> EncodeDict(v, kids, depth)
      [] v.tag = "record" -> EncodeRecord(v, kids, depth)
      [] v.tag = "ListNode" -> EncodeListNode(v, kids, depth)
      [] v.tag = "TreeNode" -> EncodeTreeNode(v, kids, depth)
      [] v.tag \in {"list", "tuple", "ClassTrace"} -> EncodeWithin(v, kids, depth)
      [] OTHER -> EncodeUnmetered(v, kids, depth)
\* encodeNode().
Encode[v \in Trees] == [depth \in Nat |-> EncodeBy(v, OfKids(Encode, v), depth)]

\* encodeValue() presents an exhausted budget as an encode error.
encodeValue(v) ==
    LET wire == Encode[v][0]
    IN IF IsFault(wire) \/ NodesOf[v] > MaxNodes THEN Bad ELSE wire
canonicalStringOf(v) == Text[Encode[v][0]]

-----------------------------------------------------------------------------
(* decode.ts: wire to value.  A validation error is found in the order of  *)
(* the traversal; the children of a level are built before its order is    *)
(* checked.                                                                *)
\* fields(): a dict holds entries, a record fields, a ClassTrace the
\* arguments of the constructor and operations; a value holds values.
Place(w, i) ==
    CASE w.tag = "dict" -> "entry"
      [] w.tag = "record" -> "field"
      [] w.tag = "ClassTrace" -> IF i = 1 THEN "args" ELSE "op"
      [] w.tag = "op" /\ i = 1 -> "args"
      [] OTHER -> "value"
Misplaced(w, i) ==
    IF Place(w, i) = "value" THEN w.kids[i].tag \in PartTags
    ELSE w.kids[i].tag # Place(w, i)
BuildAll(w, kids, depth) ==
    [i \in DOMAIN w.kids |-> IF Misplaced(w, i) THEN Bad ELSE kids[i][depth]]
BuildWithin(w, kids, depth) ==
    IF depth + 1 > MaxDepth THEN TooDeep
    ELSE Pack(w.tag, w.atom, BuildAll(w, kids, depth + 1))
\* Mutant: either spelling is accepted.
intOfAny(w) == IF Len(w.kids) = 1 THEN Leaf("int", w.kids[1].atom) ELSE Bad
\* intOf(): a number inside the safe range, a string outside it.
intOf(w) ==
    IF w.atom = "" /\ Len(w.kids) = 1 /\ w.kids[1] = IntSpelling(w.kids[1].atom)
    THEN Leaf("int", w.kids[1].atom) ELSE Bad
BuildText(w) == IF w.atom \in Malformed \/ w.kids # <<>> THEN Bad ELSE w
BuildNull(w) == IF w = Null THEN Null ELSE Bad
leafOf(built) == Checked(built, built.tag \in NumericTags)
BuildComplex(w, kids, depth) ==
    LET parts == BuildAll(w, kids, depth)
    IN IF Len(w.kids) # 2 THEN Bad
       ELSE Pack(w.tag, w.atom, [i \in DOMAIN parts |-> leafOf(parts[i])])
BuildSet(w, kids, depth) ==
    LET built == BuildWithin(w, kids, depth)
    IN Checked(built, assertSortedUnique(
           [i \in DOMAIN built.kids |-> canonicalStringOf(built.kids[i])]))
BuildDict(w, kids, depth) ==
    LET built == BuildWithin(w, kids, depth)
    IN Checked(built, assertSortedUnique(
           [i \in DOMAIN built.kids |-> canonicalStringOf(built.kids[i].kids[1])]))
BuildEnum(w, kids, depth) ==
    LET built == BuildWithin(w, kids, depth)
    IN IF Len(w.kids) # 1 THEN Bad ELSE Checked(built, w.atom # "")
\* The name is required before the fields are read, a repeated field is
\* refused where it is met.
BuildRecord(w, kids, depth) ==
    LET fields == [i \in DOMAIN w.kids |->
                      IF \E j \in 1..(i - 1) : w.kids[j].atom = w.kids[i].atom
                      THEN Bad ELSE BuildAll(w, kids, depth + 1)[i]]
    IN IF w.atom = "" THEN Bad ELSE IF depth + 1 > MaxDepth THEN TooDeep
       ELSE Pack(w.tag, w.atom, fields)
BuildException(w, kids, depth) ==
    LET built == BuildWithin(w, kids, depth)
    IN IF Len(w.kids) > 1 THEN Bad ELSE Checked(built, w.atom # "")
BuildListNode(w, kids, depth) == Checked(BuildWithin(w, kids, depth), InCycleRange(w))
EndsInGap(slots) == slots # <<>> /\ slots[Len(slots)] = Gap
BuildTreeNode(w, kids, depth) ==
    LET slots == [i \in DOMAIN w.kids |->
                     IF w.kids[i] = Gap THEN Gap ELSE BuildAll(w, kids, depth + 1)[i]]
    IN IF EndsInGap(w.kids) \/ Unreachable(w.kids) THEN Bad
       ELSE IF depth + 1 > MaxDepth THEN TooDeep
       ELSE Pack(w.tag, w.atom, slots)
\* The constructor's arguments, then the operations: a method with its
\* arguments and, if recorded, the expected return.
BuildClassTrace(w, kids, depth) ==
    IF w.atom = "" \/ w.kids = <<>> THEN Bad ELSE BuildWithin(w, kids, depth)
PartOk(w) ==
    CASE w.tag = "entry" -> Len(w.kids) = 2
      [] w.tag = "field" -> Len(w.kids) = 1
      [] w.tag = "op" -> w.atom # "" /\ Len(w.kids) \in {1, 2}
      [] OTHER -> TRUE
BuildPart(w, kids, depth) ==
    IF PartOk(w) THEN Pack(w.tag, w.atom, BuildAll(w, kids, depth)) ELSE Bad

\* The tag decides, an unknown one is refused.
BuildBy(w, kids, depth) ==
    CASE w.tag = "int" -> intOf(w)
      [] w.tag \in TextTags -> BuildText(w)
      [] w.tag = "null" -> BuildNull(w)
      [] w.tag = "complex" -> BuildComplex(w, kids, depth)
      [] w.tag \in {"list", "tuple"} -> BuildWithin(w, kids, depth)
      [] w.tag \in {"set", "frozenset"} -> BuildSet(w, kids, depth)
      [] w.tag = "dict" -> BuildDict(w, kids, depth)
      [] w.tag = "enum" -> BuildEnum(w, kids, depth)
      [] w.tag = "record" -> BuildRecord(w, kids, depth)
      [] w.tag = "exception" -> BuildException(w, kids, depth)
      [] w.tag = "ListNode" -> BuildListNode(w, kids, depth)
      [] w.tag = "TreeNode" -> BuildTreeNode(w, kids, depth)
      [] w.tag = "ClassTrace" -> BuildClassTrace(w, kids, depth)
      [] w.tag \in PartTags -> BuildPart(w, kids, depth)
      [] OTHER -> Bad
\* build().
Build[w \in Trees] == [depth \in Nat |-> BuildBy(w, OfKids(Build, w), depth)]
\* buildValue(), on what the parser has read: it refuses a deeper text.
buildValue(w) ==
    IF w \notin Trees \/ w.tag \in PartTags THEN Bad
    ELSE LET built == Build[w][0]
         IN IF ~IsFault(built) /\ NodesOf[w] > MaxNodes THEN TooDeep ELSE built
=============================================================================
