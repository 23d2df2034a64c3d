--------------------------- MODULE CompiledWorkflow ---------------------------
(***************************************************************************)
(* A draft on its way to a run: an author draws it, it is compiled and       *)
(* checked (WorkflowApplication._validate_loaded), and what passes is run     *)
(* node by node with the reconciliation of RunGraph.  The handlers' verdicts  *)
(* are arbitrary, so the properties are about the graph alone.                *)
(***************************************************************************)
EXTENDS ExecutableValidator

CONSTANTS Scenarios     \* set of [node, edges]: the nodes of a draft and the edges to draw

\* A draft is finite, sorted() lists its ids, its commands are a list, and an edge is a
\* WorkflowEdge.  No author id is one that the compiler gives (_system_id: "sys-" and a digest):
\* DraftValidator lets one pass, and ExecutableValidator then refuses the graph for its
\* duplicate_node_id, so such a draft is rejected too.
ASSUME ScenarioAssumption ==
  /\ Len(Sorted) \in Nat
  /\ \A s \in Scenarios :
       /\ IsFiniteSet(DOMAIN s.node) /\ IsFiniteSet(s.edges)
       /\ DOMAIN s.node \subseteq {Sorted[i] : i \in 1 .. Len(Sorted)}
       /\ \A n \in DOMAIN s.node :
            LET cmds == s.node[n].cmds
            IN  /\ n = <<n[1], "author", 0>> /\ n # NoNode
                /\ Len(cmds) \in Nat /\ cmds = [k \in 1 .. Len(cmds) |-> cmds[k]]
                /\ \A k \in 1 .. Len(cmds) : cmds[k] # "none"
       /\ \A e \in s.edges :
            /\ e = [id |-> e.id, from |-> e.from, to |-> e.to, cond |-> e.cond, sys |-> e.sys]
            /\ e.sys \in BOOLEAN

VARIABLES stage,   \* "new", "draft", "compiled", "rejected" or "running"
          canvas,  \* the edges the author may draw
          draft,   \* the author graph
          graph,   \* the compiled graph
          st       \* the node runs

vars == <<stage, canvas, draft, graph, st>>

NoGraph == [node |-> <<>>, edges |-> {}]

R == INSTANCE RunGraph WITH
       Nodes <- Ids(graph), Edges <- graph.edges, Order <- <<>>,
       Kind <- [n \in Ids(graph) |-> graph.node[n].kind],
       Source <- [n \in Ids(graph) |-> graph.node[n].source]

Init ==
  /\ stage = "new"
  /\ \E s \in Scenarios : draft = [node |-> s.node, edges |-> {}] /\ canvas = s.edges
  /\ graph = NoGraph /\ st = <<>>

Submit ==
  /\ stage = "new"
  /\ \E E \in SUBSET canvas : draft' = [draft EXCEPT !.edges = E]
  /\ stage' = "draft" /\ canvas' = {}
  /\ UNCHANGED <<graph, st>>

\* A graph over the CompiledGraph model's own limits already raises here in the code
\* (protocol/workflow.py); the model leaves it to Validate, which rejects it for the same limits.
Compile ==
  /\ stage = "draft"
  /\ IF Compiles(draft)
     THEN stage' = "compiled" /\ graph' = Compiled(draft)
     ELSE stage' = "rejected" /\ graph' = NoGraph
  /\ UNCHANGED <<canvas, draft, st>>

\* A graph that compiled with an error is checked too, and not accepted.
Accepted == ~TestMissing(draft) /\ Executable(graph)

Validate ==
  /\ stage = "compiled"
  /\ IF Accepted
     THEN stage' = "running" /\ st' = R!Reconciled([n \in Ids(graph) |-> R!Pending])
     ELSE stage' = "rejected" /\ st' = st
  /\ UNCHANGED <<canvas, draft, graph>>

-------------------------------------------------------------------------------
(* The run *)

Done(o) == [status |-> "completed", outcome |-> o]
Failed == [status |-> "failed", outcome |-> "failure"]
Blocked == [status |-> "blocked_by_guard", outcome |-> "blocked"]

\* IfNodeHandler: a field the upstream node does not have fails the node.
IfResults(x) ==
  IF \/ x.field = "effective_risk" /\ graph.node[x.up].floor < 0
     \/ x.field = "tests_passed" /\ graph.node[x.up].kind # "test"
  THEN {} ELSE {Done("matched"), Done("not_matched")}

OutputSucceeds(n) == Done("success")

\* OutputNodeHandler: the worst outcome that led here.
OutputResult(n) ==
  LET outcomes == {st[e.from].outcome : e \in {f \in Into(graph.edges, n) : R!EdgeSatisfied(f, st)}}
  IN  CASE "blocked" \in outcomes -> Blocked
        [] "failure" \in outcomes -> Failed
        [] "rejected" \in outcomes -> Done("rejected")
        [] OTHER -> Done("success")

\* What the handler of a node may return; an exception is a failure.
HandlerResults(n) ==
  LET x == graph.node[n]
  IN  {Failed} \cup
      CASE x.kind = "if" -> IfResults(x)
        [] x.kind = "approval" -> {Done("approved"), Done("rejected"), Blocked}
        [] x.kind = "output" -> {OutputResult(n)}
        [] x.kind \in {"input", "context_builder"} -> {Done("success")}
        [] OTHER -> {Done("success"), Blocked}

\* What follows a merge is released whatever the merge comes to.
FinishMergeEarly(n) ==
  /\ stage = "running" /\ n \in R!ReadyNodes(st)
  /\ \E x \in HandlerResults(n) :
       LET y == IF graph.node[n].kind = "merge" THEN Done("success") ELSE x
       IN  st' = [R!Reconciled([st EXCEPT ![n] = y]) EXCEPT ![n] = x]
  /\ UNCHANGED <<stage, canvas, draft, graph>>

Finish(n) ==
  /\ stage = "running" /\ n \in R!ReadyNodes(st)
  /\ \E x \in HandlerResults(n) : st' = R!Reconciled([st EXCEPT ![n] = x])
  /\ UNCHANGED <<stage, canvas, draft, graph>>

Next ==
  \/ Submit \/ Compile \/ Validate
  \/ \E n \in Ids(graph) : Finish(n)

Spec == Init /\ [][Next]_vars

-------------------------------------------------------------------------------
(* Properties *)

DraftEdges == ValidEdges(draft)

Roots == {n \in Ids(draft) : Into(DraftEdges, n) = {}}

\* x is on every path from a root to n.
OnEveryPath(x, n) ==
  n \notin Closure(Roots \ {x}, {e \in DraftEdges : x \notin {e.from, e.to}})

\* The two fixpoints the validators rest on are exact, whatever the order of the ids:
\* _contains_cycle finds a cycle when, and only when, some nodes each have a predecessor
\* among themselves, and _dominators, which stops after as many sweeps as there are nodes,
\* has then found the nodes on every path and no others.
GraphChecksExact ==
  stage = "draft" =>
    /\ ContainsCycle(Ids(draft), DraftEdges) <=>
         \E S \in (SUBSET Ids(draft)) \ {{}} : \A n \in S : \E e \in Into(DraftEdges, n) : e.from \in S
    /\ \A n \in Ids(draft) :
         Dominators(Ids(draft), DraftEdges)[n] = {x \in Ids(draft) : x = n \/ OnEveryPath(x, n)}

\* Each outcome of a draft's node leads to one node, and branches meet at the output.
SinglePath(g) ==
  /\ \A e, f \in g.edges : e.from = f.from /\ e.cond = f.cond => e = f
  /\ \A n \in Ids(g) \ OfType(g, "output") : Cardinality(Into(g.edges, n)) <= 1

\* The compiler and the last check agree: of the graphs that compile without an
\* error and are not too large, those of single-path drafts are accepted and no others.
AcceptsWhatIsInjected ==
  stage = "compiled" /\ ~TestMissing(draft)
    /\ Cardinality(Ids(graph)) <= MaxCompiledNodes /\ Cardinality(graph.edges) <= MaxCompiledEdges
    => (Executable(graph) <=> SinglePath(draft))

\* What can follow the success of w without the success of its merge: only the
\* merge's own success edges are cut, so what an approval leads to is included.
BeforeMerge(g, w) ==
  Closure({e.to : e \in {f \in Out(g.edges, w) : f.cond = "success"}},
          {e \in g.edges : ~ /\ g.node[e.from].kind = "merge"
                             /\ g.node[e.from].source = w
                             /\ e.cond = "success"})

Guarded(g) ==
  \A w \in KindNodes(g, "write_task") :
    BeforeMerge(g, w) \subseteq SystemOf(g, w) \cup KindNodes(g, "output")

\* The graph in which e and f lead to each other's target, as the compiler's own edges.
Swapped(e, f) ==
  LET To(x, n) == [x EXCEPT !.to = n, !.sys = IsSystem(graph, x.from) \/ IsSystem(graph, n)]
  IN  [graph EXCEPT !.edges = (graph.edges \ {e, f}) \cup {To(e, f.to), To(f, e.to)}]

\* An accepted graph leads a write task's success to nothing but its own chain and the
\* output until its merge succeeds, whatever the guards, the tests and the reviewer said
\* before: not even an approval leads past the merge.  And so does every accepted graph
\* that a compiler which confused the targets of two edges would have made: the last
\* check does not rely on PolicyInjector.
BypassRefused ==
  stage = "running" /\ (\E n \in KindNodes(graph, "input") : st[n] = R!Ready) =>
    /\ Guarded(graph)
    /\ \A e, f \in graph.edges : Executable(Swapped(e, f)) => Guarded(Swapped(e, f))

\* Nobody's work starts between a write task's success and the merge of its
\* ChangeSet: until then only its own chain and the output become ready.
NothingBeforeMerge ==
  [][stage = "running" =>
       \A w \in KindNodes(graph, "write_task"), n \in Ids(graph) :
         /\ st[w].outcome = "success" /\ st'[n] = R!Ready /\ st[n] # R!Ready
         /\ \A m \in SystemOf(graph, w) : graph.node[m].kind = "merge" => st'[m].outcome # "success"
         => n \in SystemOf(graph, w) \cup KindNodes(graph, "output")]_vars

\* A reviewer is asked only after the patch guard and after every command that the
\* author's draft names, or the documentation check if it names none, has passed.
TestedBeforeReview ==
  stage = "running" =>
    \A w \in KindNodes(graph, "write_task") :
      (\E n \in SystemOf(graph, w) : graph.node[n].kind = "approval" /\ st[n] = R!Ready) =>
        LET passed == {graph.node[n] : n \in {m \in SystemOf(graph, w) : st[m].outcome = "success"}}
            cmds == draft.node[w].cmds
        IN  /\ \E x \in passed : x.kind = "patch_guard"
            /\ \A i \in DOMAIN cmds : \E x \in passed : x.kind = "test" /\ x.argv = cmds[i]
            /\ cmds = <<>> => \E x \in passed : x.test = "docs_static"

\* A run that ends with success has merged the work of every write task that
\* succeeded, and no failure, block or rejection of a sealed chain is behind it.
SuccessMeansMerged ==
  stage = "running" /\ (\E n \in KindNodes(graph, "output") : st[n] = Done("success")) =>
    \A w \in KindNodes(graph, "write_task") : st[w].outcome = "success" =>
      \A n \in SystemOf(graph, w) : st[n].outcome = Happy(graph.node[n].kind)

===============================================================================
