-------------------------- MODULE MCCompiledWorkflow --------------------------
(* Drafts for CompiledWorkflow: the nodes are given, and every subset of a set of *)
(* edges is drawn between them.                                                   *)
EXTENDS CompiledWorkflow, TLC

A(x) == <<x, "author", 0>>
None == <<"", "", 0>>

SortedIds == <<A("a"), A("b"), A("c"), A("in"), A("out")>>

Plain(type) ==
  [type |-> type, task |-> "none", write |-> FALSE, docs |-> FALSE, cmds |-> <<>>, files |-> 0,
   hint |-> 0, scope |-> 0, up |-> None, field |-> "none", operand |-> TRUE, agent |-> "auto",
   valid |-> TRUE, allowed |-> TRUE]

Read == [Plain("agent_task") EXCEPT !.task = "analyze"]
Write(cmds) == [Plain("agent_task") EXCEPT !.task = "implement", !.write = TRUE, !.files = 1, !.cmds = cmds]
Docs(cmds) == [Write(cmds) EXCEPT !.task = "docs", !.docs = TRUE, !.hint = 2]
If(up, field) == [Plain("if") EXCEPT !.up = A(up), !.field = field]

Agents ==
  {[id |-> "coder", canRun |-> TRUE, auto |-> TRUE,
    caps |-> {"read_code", "implement", "docs", "analyze", "write_files", "generate_patch"}],
   [id |-> "reviewer", canRun |-> TRUE, auto |-> TRUE,
    caps |-> {"read_code", "docs", "write_files", "generate_patch", "risk_review"}],
   [id |-> "stopped", canRun |-> FALSE, auto |-> TRUE, caps |-> {"read_code", "review"}]}

Nodes(f) == f @@ (A("in") :> Plain("input")) @@ (A("out") :> Plain("output"))

Edge(x, cond, y) == [id |-> 0, from |-> A(x), to |-> A(y), cond |-> cond, sys |-> FALSE]

\* The edges from x, which is node n, to the nodes Y: every outcome it has.
From(x, n, Y) == {Edge(x, c, y) : c \in Emits(n.type), y \in Y}

-------------------------------------------------------------------------------
\* Two nodes in any arrangement.
Pairs ==
  LET S == {Edge("in", "success", y) : y \in {"a", "b", "out"}}
  IN  {[node |-> Nodes((A("a") :> m) @@ (A("b") :> n)),
        edges |-> S \cup From("a", m, {"b", "out"})
                    \cup (From("b", n, {"a", "out"}) \ {Edge("b", "failure", "a")})] :
         m \in {Read, Write(<<"c1">>), Docs(<<>>), Docs(<<"c1">>), If("in", "outcome")},
         n \in {Read, Write(<<"c1", "c2">>), Docs(<<>>), If("a", "effective_risk"), If("a", "status")}}

\* Two branches that may meet at a third node, which asks about one of them.
Diamonds ==
  {[node |-> Nodes((A("a") :> m) @@ (A("b") :> n) @@ (A("c") :> If(up, "outcome"))),
    edges |-> {Edge("in", "success", "a"), Edge("in", "success", "b"), Edge("a", "success", "b"),
               Edge("a", "success", "c"), Edge("a", "failure", "c"), Edge("a", "failure", "out"),
               Edge("b", "success", "c"), Edge("b", "failure", "out"), Edge("b", "success", "a"),
               Edge("c", "matched", "out"), Edge("c", "not_matched", "out"),
               Edge("c", "not_matched", "a")}] :
     m \in {Read, Write(<<"c1">>)}, n \in {Read, Docs(<<>>)}, up \in {"a", "b", "in"}}

\* One node, with edges and nodes that a draft must not have.
Oddities ==
  {[node |-> Nodes(A("a") :> m),
    edges |-> From("a", m, {"a", "out"})
              \cup {Edge("in", "success", "a"), Edge("out", "success", "a"), Edge("in", "success", "c"),
                    [Edge("a", "success", "out") EXCEPT !.id = 1],
                    [Edge("a", "failure", "out") EXCEPT !.sys = TRUE]}] :
     m \in {Write(<<"c1">>), Write(<<>>), Write(<<"c1", "c1">>), Plain("merge"), Plain("output"),
            Plain("context_builder"), If("in", "tests_passed"),
            [Read EXCEPT !.agent = "stopped"], [Read EXCEPT !.agent = "coder"],
            [Read EXCEPT !.task = "review"],
            [Write(<<"c1">>) EXCEPT !.hint = 4], [Write(<<"c1">>) EXCEPT !.scope = 4], [Docs(<<>>) EXCEPT !.scope = 3], [Write(<<"c1">>) EXCEPT !.files = 0],
            [Write(<<"c1">>) EXCEPT !.allowed = FALSE], [Read EXCEPT !.valid = FALSE],
            [If("in", "status") EXCEPT !.operand = FALSE], If("out", "status")}}

Drafts == Pairs \cup Diamonds \cup Oddities

===============================================================================
