------------------------------ MODULE CaseFile ------------------------------
(* The case files of a problem (application/fixed-cases.ts): a JSON        *)
(* document holds one case, or a group of them under the key "cases".  An  *)
(* object is a tree of fields; what does not parse is a leaf of its own.   *)
EXTENDS LeetCode, Problem

CONSTANT MaxPayload      \* MAX_PAYLOAD_BYTES of limits.ts

\* A byte for each node: plain JSON is shorter than its wire form, which
\* has a tag, a text and a length for each value.
DocumentSize[node \in Trees] == 1 + FoldFunction(+, 0, OfKids(DocumentSize, node))

isGroupedDocument(node) == node.tag = "object" /\ "cases" \in names(node)
\* requireGroupObject(), or the one member of a document that is not grouped.
MembersOf(node) ==
    IF ~isGroupedDocument(node) THEN <<node>>
    ELSE IF names(node) = {"cases"} /\ get(node, "cases").tag = "array"
    THEN get(node, "cases").kids ELSE <<>>
decodeCaseNode(node, problem) ==
    IF node.tag # "object" \/ names(node) # {"input", "expected"} THEN NoCase
    ELSE decodeLeetCodeCase(get(node, "input"), get(node, "expected"), problem)

Readable(case) == ~IsFault(case.input) /\ ~IsFault(case.expected)
\* Mutant: the members that can be read are used.
readFixedCasesLenient(node, problem) ==
    SelectSeq([i \in DOMAIN MembersOf(node) |-> decodeCaseNode(MembersOf(node)[i], problem)],
              Readable)
\* readFixedCases(): every member is decoded before the first is used.  No
\* case at all stands for the FixedCaseError.
readFixedCases(node, problem) ==
    LET maxBytes == problem.limits["inputBytes"]
        cases == [i \in DOMAIN MembersOf(node) |-> decodeCaseNode(MembersOf(node)[i], problem)]
    IN IF /\ maxBytes <= MaxPayload /\ DocumentSize[node] <= maxBytes
          /\ \A i \in DOMAIN cases : Readable(cases[i])
       THEN cases ELSE <<>>
=============================================================================
