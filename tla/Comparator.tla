----------------------------- MODULE Comparator -----------------------------
(* The exact-v1 comparison of two decoded values                           *)
(* (judging/comparator/semantic.ts): the first mismatch in the order of    *)
(* the traversal, as the path of the node that is reported.                *)
EXTENDS Codec

CONSTANTS NumberOf,     \* the number a numeric text stands for, in tenths
          NoTolerance   \* a policy without tolerance

Equal == <<-1>>               \* no mismatch; a path holds positions from 1
Differ == <<>>                \* the node itself is reported

Down(i, path) == IF path = Equal THEN Equal ELSE <<i>> \o path
\* The first mismatch of a sequence of results.
FirstOf(results) ==
    LET found == {i \in DOMAIN results : results[i] # Equal}
        first == CHOOSE i \in found : \A j \in found : i <= j
    IN IF found = {} THEN Equal ELSE Down(first, results[first])

\* Each operator is given the comparison of every child.
sequenceMismatch(e, a, results) ==
    IF Len(e.kids) # Len(a.kids) THEN Differ ELSE FirstOf(results)

\* Only the absolute bound; the relative one is out of the integers.
withinTolerance(x, y, tol) == x - y <= tol /\ y - x <= tol
numberMismatch(e, a, tol) ==
    LET same == IF tol = NoTolerance THEN e.atom = a.atom
                ELSE withinTolerance(NumberOf[e.atom], NumberOf[a.atom], tol)
    IN IF same THEN Equal ELSE Differ
\* An entry of a dict: the key by its canonical bytes, the value by the policy.
entryMismatch(e, a, results) ==
    IF canonicalStringOf(e.kids[1]) # canonicalStringOf(a.kids[1]) THEN <<1>>
    ELSE Down(2, results[2])
\* Mutant: neither the class nor the cycle is looked at.
identityMismatchBlind(e, a, results) == sequenceMismatch(e, a, results)
\* enum, record, a field, a linked list: the identity first, then the children.
identityMismatch(e, a, results) ==
    IF e.atom # a.atom THEN Differ ELSE sequenceMismatch(e, a, results)
\* The class, the constructor's arguments, the number of operations, then
\* each operation: method, arguments and whether a return is recorded.
traceMismatch(e, a, results) ==
    IF e.atom # a.atom THEN Differ
    ELSE IF results[1] # Equal THEN Down(1, results[1])
    ELSE sequenceMismatch(e, a, results)

MismatchBy(e, a, tol, results) ==
    IF e.tag # a.tag THEN Differ
    ELSE CASE e.tag = "null" -> Equal
      [] e.tag \in {"float", "decimal"} -> numberMismatch(e, a, tol)
      [] e.tag \in {"complex", "list", "tuple", "set", "frozenset", "dict", "args", "TreeNode"} ->
            sequenceMismatch(e, a, results)
      [] e.tag = "entry" -> entryMismatch(e, a, results)
      [] e.tag \in {"enum", "record", "field", "ListNode"} -> identityMismatch(e, a, results)
      [] e.tag = "exception" ->
            IF canonicalStringOf(e) = canonicalStringOf(a) THEN Equal ELSE Differ
      [] e.tag \in {"ClassTrace", "op"} -> traceMismatch(e, a, results)
      [] OTHER -> IF e.atom = a.atom THEN Equal ELSE Differ
\* An absent slot of a tree differs from every value by its tag.
semanticMismatch[e \in Trees, a \in Trees, tol \in Int] ==
    MismatchBy(e, a, tol,
        [i \in DOMAIN e.kids |-> semanticMismatch[e.kids[i], a.kids[i], tol]])
=============================================================================
