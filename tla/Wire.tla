-------------------------------- MODULE Wire --------------------------------
(* The trip of one case: the problem is loaded, a case file or a recorded  *)
(* request is read, its input is encoded and framed, the harness decodes   *)
(* it, invokes the target and encodes what it got, the host decodes the    *)
(* answer and judges it (problem.ts, fixed-cases.ts, test-command.ts       *)
(* executeOne, execute-case.ts, envelope.ts, __main__.py, protocol.py).    *)
(* What the sandbox may do to the process is Sandbox's subject: here it    *)
(* exits by itself.                                                        *)
EXTENDS Comparator, Harness, CaseFile

CONSTANT Trips           \* what is started with, see TripOk

\* "case": test executes a member of a case file for the problem that a
\* request names.  "value": the round-trip of python-harness.roundtrip.test.ts.
\* "recorded": the line of an artifact, which replay executes.
TripOk(t) ==
    /\ t.kind \in {"case", "value", "recorded"}
    /\ t.kind # "case" => t.inputBytes \in Nat
ASSUME TripsOk == \A t \in Trips : TripOk(t)

VARIABLES trip, stage,
          problem, member,  \* the loaded problem, the place in its case file
          input, expected,  \* decoded values of the host
          line,             \* the message on the harness's stdin or stdout
          outcome,          \* what the harness holds after invoking the target
          output,           \* the value the host decoded from the answer
          answer            \* the case's status, or how the command failed
vars == <<trip, stage, problem, member, input, expected, line, outcome, output, answer>>

Stages == {"load", "read", "send", "invoke", "reply", "receive", "judge", "done"}
Answers == {"none", "invalid_problem", "invalid_case", "invalid_input", "threw", "nonzero_exit",
            "protocol_error", "exception", "wrong_answer", "passed"}
Nothing_ == Leaf("none", "")
NoLine == [kind |-> "none", payload |-> Nothing_, lines |-> 0, limit |-> 0]
NoOutcome == [kind |-> "none", value |-> Nothing_]

Init ==
    /\ trip \in Trips
    /\ stage = (IF trip.kind = "case" THEN "load" ELSE "read") /\ answer = "none"
    /\ problem = NoProblem /\ member = 0
    /\ input = Nothing_ /\ expected = Nothing_ /\ output = Nothing_
    /\ line = NoLine /\ outcome = NoOutcome

\* messageLimitBytes is checked before the payload is decoded.
Size(w) == Len(Text[w])
Framed(message) == message.lines = 1 /\ Size(message.payload) <= message.limit
\* buildOrReject() turns a validation error into a protocol error; the error
\* of an exhausted budget passes it and toErrorResult().
decodeLine(message) == IF Framed(message) THEN buildValue(message.payload) ELSE Bad
Ends(status) == stage' = "done" /\ answer' = status

-----------------------------------------------------------------------------
(* The host reads the problem and the case.                                *)
LoadProblem ==
    /\ stage = "load"
    /\ problem' = loadRunContext(trip.yaml, trip.request)
    /\ IF problem' = NoProblem THEN Ends("invalid_problem")
       ELSE stage' = "read" /\ UNCHANGED answer
    /\ UNCHANGED <<trip, member, input, expected, line, outcome, output>>
ReadCase ==
    /\ stage = "read" /\ trip.kind = "case"
    /\ LET cases == readFixedCases(trip.document, problem)
       IN IF cases = <<>>
          THEN Ends("invalid_case") /\ UNCHANGED <<member, input, expected>>
          ELSE \E k \in DOMAIN cases :
                  /\ member' = k
                  /\ input' = cases[k].input /\ expected' = cases[k].expected
                  /\ stage' = "send" /\ UNCHANGED answer
    /\ UNCHANGED <<trip, problem, line, outcome, output>>
TakeValue ==
    /\ stage = "read" /\ trip.kind = "value"
    /\ input' = trip.value /\ expected' = trip.value /\ stage' = "send"
    /\ UNCHANGED <<trip, problem, member, line, outcome, output, answer>>
decodeRequestLine ==
    /\ stage = "read" /\ trip.kind = "recorded"
    /\ LET message == [kind |-> "request", payload |-> trip.wire, lines |-> 1,
                       limit |-> trip.inputBytes]
           built == decodeLine(message)
       IN /\ line' = message
          /\ IF built = Bad THEN Ends("invalid_input") /\ UNCHANGED <<input, expected>>
             ELSE IF built = TooDeep THEN Ends("threw") /\ UNCHANGED <<input, expected>>
             ELSE /\ input' = built /\ expected' = built
                  /\ stage' = "send" /\ UNCHANGED answer
    /\ UNCHANGED <<trip, problem, member, outcome, output>>

InputBytes ==
    IF trip.kind = "case" THEN problem.limits["inputBytes"] ELSE trip.inputBytes
\* encodeRequestLine() throws what cannot be encoded, its callers what is
\* larger than the input limit.
encodeRequestLine ==
    /\ stage = "send"
    /\ LET wire == encodeValue(input)
       IN IF IsFault(wire) \/ Size(wire) > InputBytes
          THEN Ends("threw") /\ UNCHANGED line
          ELSE /\ line' = [kind |-> "request", payload |-> wire, lines |-> 1,
                           limit |-> InputBytes]
               /\ stage' = "invoke" /\ UNCHANGED answer
    /\ UNCHANGED <<trip, problem, member, input, expected, outcome, output>>

-----------------------------------------------------------------------------
(* The harness: one request, one invocation, one line.                     *)
Invoke ==
    /\ stage = "invoke"
    /\ LET native == py_decode(line.payload)
           result == run(trip.target, native)
       IN IF IsFault(native) \/ result.kind = "missing"
          THEN Ends("nonzero_exit") /\ UNCHANGED outcome
          ELSE outcome' = result /\ stage' = "reply" /\ UNCHANGED answer
    /\ UNCHANGED <<trip, problem, member, input, expected, line, output>>
\* A target that prints writes to the stream of the response.
encodeResponseLine ==
    /\ stage = "reply"
    /\ LET wire == py_encode(outcome.value)
       IN IF IsFault(wire) THEN Ends("nonzero_exit") /\ UNCHANGED line
          ELSE /\ line' = [kind |-> IF outcome.kind = "raises" THEN "exception" ELSE "output",
                           payload |-> wire, limit |-> line.limit,
                           lines |-> IF outcome.kind = "prints" THEN 2 ELSE 1]
               /\ stage' = "receive" /\ UNCHANGED answer
    /\ UNCHANGED <<trip, problem, member, input, expected, outcome, output>>

-----------------------------------------------------------------------------
(* The host reads and judges the answer.                                   *)
\* executeOne() takes an exception for a protocol error; executeEncodedCase()
\* keeps it, and takes only the values a signature can describe.
decodeResponseLine ==
    /\ stage = "receive"
    /\ LET built == decodeLine(line)
           raised == line.kind = "exception"
           refused == \/ built = Bad
                      \/ raised /\ trip.kind = "case"
                      \/ ~raised /\ trip.kind = "recorded" /\ ~isLeetCodeValue[built]
       IN IF built = TooDeep THEN Ends("threw") /\ UNCHANGED output
          ELSE IF refused THEN Ends("protocol_error") /\ UNCHANGED output
          ELSE IF raised THEN Ends("exception") /\ output' = built
          ELSE output' = built /\ stage' = "judge" /\ UNCHANGED answer
    /\ UNCHANGED <<trip, problem, member, input, expected, line, outcome>>
Mismatch == semanticMismatch[expected, output, trip.tolerance]
Judge ==
    /\ stage = "judge"
    /\ Ends(IF Mismatch = Equal THEN "passed" ELSE "wrong_answer")
    /\ UNCHANGED <<trip, problem, member, input, expected, line, outcome, output>>

Next ==
    \/ LoadProblem \/ ReadCase \/ TakeValue \/ decodeRequestLine \/ encodeRequestLine
    \/ Invoke \/ encodeResponseLine
    \/ decodeResponseLine \/ Judge
Spec == Init /\ [][Next]_vars

-----------------------------------------------------------------------------
(* Properties.                                                             *)
Parts[v \in Trees] == {v} \cup UNION Range(OfKids(Parts, v))

\* The place of each node of a tree in heap order, in which the children of
\* place p are at 2p and 2p + 1.
HeapPlaces(cells) ==
    LET place[k \in DOMAIN cells] ==
            LET parent == CHOOSE p \in DOMAIN cells : k \in {cells[p].left, cells[p].right}
            IN IF k = 1 THEN 1
               ELSE 2 * place[parent] + (IF cells[parent].left = k THEN 0 ELSE 1)
    IN {place[k] : k \in DOMAIN cells}
\* LeetCode's level order lists no children for an absent node, heap order
\* keeps their places: the two agree when every node has the same place.
OrdersAgree(slots) ==
    LET cells == build_tree([i \in DOMAIN slots |->
                                IF slots[i] = Gap THEN Null ELSE slots[i]]).kids
        real == {i \in DOMAIN slots : slots[i] # Gap}
    IN /\ Len(cells) = Cardinality(real)
       /\ real = HeapPlaces(cells)
TreesAgree(v) == \A t \in Parts[v] : t.tag = "TreeNode" => OrdersAgree(t.kids)
\* An adapter value without a node: the harness makes it None.
HasEmptyAdapter(v) == \E t \in Parts[v] : t.tag \in {"ListNode", "TreeNode"} /\ t.kids = <<>>

\* A case whose expected output is its own argument, solved by returning
\* that argument, is passed, with two exceptions: a tree on which heap order
\* and level order disagree cannot be sent, and an expected empty array for a
\* list or tree is not the null that comes back.
EchoIsJudged ==
    /\ stage = "done" /\ member # 0 /\ trip.target = "echo"
    /\ problem.kind = "function" /\ problem.args = <<problem.returns>>
    /\ LET case == MembersOf(trip.document)[member]
       IN get(case, "input").kids = <<get(case, "expected")>>
    /\ Size(Encode[input][0]) <= InputBytes
    => answer = IF ~TreesAgree(expected) THEN "threw"
                ELSE IF HasEmptyAdapter(expected) THEN "wrong_answer" ELSE "passed"

\* An object without the numbers of its cells: trees as root, left, right.
Object[n \in Objects] ==
    LET items == OfItems(Object, n)
        subtree[k \in 0..Len(n.kids)] ==
            IF k = 0 THEN Null
            ELSE V("node", "", <<items[k], subtree[n.kids[k].left], subtree[n.kids[k].right]>>)
    IN CASE n.tag = "tree" -> subtree[1]
         [] n.tag = "chain" -> n
         [] OTHER -> [n EXCEPT !.kids = items]
\* Whatever the target does, a case is passed only when it returned the
\* object that the expected output denotes in the harness's own decoding.
NoFalsePass ==
    stage = "done" /\ answer = "passed" /\ trip.tolerance = NoTolerance
    => /\ outcome.kind = "returns"
       /\ Object[outcome.value] = Object[py_decode(encodeValue(expected))]

\* The objects of the harness that a type in problem.yaml stands for.
Inhabits[n \in Objects, type \in Trees] ==
    LET item == IF type.kids = <<>> THEN Leaf("string", "int") ELSE type.kids[1]
        ItemsInhabit == \A i \in DOMAIN n.kids : Inhabits[Item(n, i), item]
    IN CASE type.tag = "null" \/ type.atom = "null" -> n = Null
         [] type.atom = "list" -> n.tag = "list" /\ ItemsInhabit
         [] type.atom = "ListNode" -> n = Null \/ (n.tag = "chain" /\ ItemsInhabit)
         [] type.atom = "TreeNode" -> n = Null \/ (n.tag = "tree" /\ ItemsInhabit)
         [] OTHER -> n.tag = type.atom
Fit(args, types) ==
    /\ Len(args) = Len(types.kids)
    /\ \A i \in DOMAIN args : Inhabits[args[i], types.kids[i]]
\* A target is called with the objects that problem.yaml declares, whatever
\* the case file says, and with nothing from a file with a case that cannot
\* be read.
ArgumentsAreDeclared ==
    trip.kind = "case" /\ line.kind = "request" =>
        LET native == py_decode(line.payload)
            Declared(method) == get(get(get(trip.yaml, "methods"), method), "args")
        IN /\ IF "class" \notin names(trip.yaml)
              THEN Fit(PositionalArgs(native), get(trip.yaml, "args"))
              ELSE /\ Fit(native.kids[1].kids, get(trip.yaml, "constructor"))
                   /\ \A i \in 2..Len(native.kids) :
                         Fit(native.kids[i].kids[1].kids, Declared(native.kids[i].atom))
           /\ \A i \in DOMAIN MembersOf(trip.document) :
                 Readable(decodeCaseNode(MembersOf(trip.document)[i], problem))

\* The problem that init writes is one that every command loads, and its
\* starter solution passes the empty case, unless YAML reads the slug, which
\* is written without quotes, as something else than a string.
StartersRun ==
    stage = "done" /\ trip.kind = "case"
    /\ trip.yaml = starterProblemYaml(trip.request.slug)
    => answer = IF parseScalar(trip.request.slug).tag = "string" THEN "passed"
                ELSE "invalid_problem"

\* A message has one spelling: what the host accepts it writes again text
\* for text, whether it was written by its own encoder, by the harness's
\* encoder or stored in an artifact.
CanonicalFormIsUnique ==
    line # NoLine =>
        LET built == buildValue(line.payload)
        IN ~IsFault(built) => encodeValue(built) = line.payload

\* The encoder of the harness mirrors the decoder of the host: an answer in
\* one line is turned down as not canonical only for a tree on which the two
\* orders disagree, and a tree that the host accepts is the tree it was.
MirrorAgrees ==
    line.kind \in {"output", "exception"} =>
        (buildValue(line.payload) = Bad) = ~TreesAgree(line.payload)

\* An answer is judged or classified, never an error of the command, unless
\* it holds an enum or an exception, for which the two encoders do not count a
\* level, or a complex number, which the harness's encoder counts as one node.
AnswersAreClassified ==
    stage = "done" /\ answer = "threw" /\ line.kind \in {"output", "exception"}
    => \E t \in Parts[line.payload] : t.tag \in {"enum", "exception", "complex"}

\* leetcode.ts:257 says of the trees it reads: "[1, null, 2, 3] is valid".
\* A case that was accepted and whose request fits is executed.
AcceptedCasesRun ==
    stage = "done" /\ trip.kind = "case" /\ answer = "threw" /\ line = NoLine
    => Size(Encode[input][0]) > InputBytes
=============================================================================
