---------------------------- MODULE WorkflowCompiler ----------------------------
(***************************************************************************)
(* From a valid draft to a compiled graph (workflow/compiler.py and the     *)
(* agent router, master/router.py): every task gets an agent and a risk      *)
(* floor, and the success of every write task is led through a sealed chain. *)
(* A node of a chain is named <<task, rule, ordinal>>.                       *)
(***************************************************************************)
EXTENDS DraftValidator

CONSTANTS Catalog      \* set of [id, canRun, auto, caps]

\* "none" stands for None, which is no agent_id.
ASSUME CatalogAssumption == \A a \in Catalog : a.id # "none"

L4 == 4

-------------------------------------------------------------------------------
(* AgentRouter *)

Requirements(x) ==
  {"read_code", x.task} \cup (IF x.write THEN {"write_files", "generate_patch"} ELSE {})

\* AUTO takes any agent that may be assigned, an explicit assignment only its own.
Candidates(x) ==
  {a \in Catalog : /\ a.canRun
                   /\ IF x.agent = "auto" THEN a.auto ELSE a.id = x.agent
                   /\ Requirements(x) \subseteq a.caps}

\* The bonus of an agent that reviews risks counts from the author's hint, not from the paths.
Score(x, a) == IF x.hint >= 2 /\ "risk_review" \in a.caps THEN 1 ELSE 0

\* One of the best; the code takes the smallest id among equals.
Route(x) ==
  CHOOSE a \in Candidates(x) :
    \A b \in Candidates(x) : Score(x, b) <= Score(x, a)

-------------------------------------------------------------------------------
(* compile: the permissions a task keeps *)

\* _max_risk of the author's hint and, for a write task, of its paths and L1.
LeastRisk(hint, scope, write) ==
  LET least == IF ~write THEN 0 ELSE IF scope = 0 THEN 1 ELSE scope
  IN  IF hint < least THEN least ELSE hint

RiskFloor(x) == LeastRisk(x.hint, x.scope, x.write)

TaskCompiles(x) ==
  /\ Candidates(x) # {}
  /\ x.allowed                       \* PathPolicy and CommandGuard accept the candidates
  /\ x.write => x.files > 0
  /\ RiskFloor(x) # L4

FirstCommand(x) == SubSeq(x.cmds, 1, IF x.cmds = <<>> THEN 0 ELSE 1)

\* The argv templates a task may run: normalized, then approved by the guard.
EffectiveCommands(x) == x.cmds

\* A compiled node of the author.  A task gets its floor; -1 stands for None.
Sealed(x) ==
  [kind |-> IF x.type # "agent_task" THEN x.type
            ELSE IF x.write THEN "write_task" ELSE "read_task",
   source |-> NoNode, rule |-> <<"author", 0>>, hint |-> x.hint, scope |-> x.scope, files |-> x.files,
   floor |-> IF x.type = "agent_task" THEN RiskFloor(x) ELSE 0 - 1,
   cmds |-> EffectiveCommands(x), docs |-> x.docs,
   agent |-> IF x.type = "agent_task" THEN Route(x).id ELSE "none",
   test |-> "none", argv |-> "none", up |-> x.up, field |-> x.field]

-------------------------------------------------------------------------------
(* PolicyInjector *)

\* _is_docs_static: a documentation task without commands and a plain scope.
IsDocsStatic(x) == x.docs /\ x.cmds = <<>>

Step(kind, name, k, test, argv) ==
  [kind |-> kind, rule |-> <<name, k>>, test |-> test, argv |-> argv]

CommandTests(cmds) ==
  [i \in 1 .. 2 * Len(cmds) |->
     LET k == (i + 1) \div 2
     IN  IF i % 2 = 1 THEN Step("command_guard", "command_guard", k, "none", "none")
         ELSE Step("test", "command_test", k, "command", cmds[k])]

MissingTest ==
  <<Step("command_guard", "command_guard", 0, "none", "none"),
    Step("test", "command_test", 0, "command", "none")>>

DocsTest == <<Step("test", "docs_static_test", 0, "docs_static", "none")>>

\* The tests of a write task: its own commands, each behind a guard.
Tests(x) ==
  IF IsDocsStatic(x) THEN DocsTest
  ELSE IF x.cmds # <<>> THEN CommandTests(x.cmds) ELSE MissingTest

\* _build_chain: the nodes.
ChainSteps(x) ==
  <<Step("patch_guard", "patch_guard", 0, "none", "none")>>
  \o Tests(x)
  \o <<Step("risk", "risk_classifier", 0, "none", "none"),
       Step("approval", "changeset_approval", 0, "none", "none"),
       Step("merge", "merge_patch", 0, "none", "none")>>

StepsOf(x) == {ChainSteps(x)[i] : i \in DOMAIN ChainSteps(x)}

SystemId(w, s) == <<w[1], s.rule[1], s.rule[2]>>

ChainNode(w, x, s) ==
  [kind |-> s.kind, source |-> w, rule |-> s.rule, hint |-> 0, scope |-> 0, files |-> 0,
   floor |-> x.floor, cmds |-> <<>>, docs |-> FALSE, agent |-> "none", test |-> s.test, argv |-> s.argv, up |-> NoNode,
   field |-> "none"]

SystemEdge(k, m, cond, n) == [id |-> k, from |-> m, to |-> n, cond |-> cond, sys |-> TRUE]

Happy(kind) == IF kind = "approval" THEN "approved" ELSE "success"
Unhappy(kind) == IF kind = "approval" THEN "rejected" ELSE "failure"

\* The merge resumes every success edge the task had, or finishes.
ResumeEdges(merge, originals, output) ==
  IF originals = {} THEN {SystemEdge(0, merge, "success", output)}
  ELSE {SystemEdge(e.id, merge, "success", e.to) : e \in originals}

\* _build_chain: the edges.
ChainEdges(w, x, originals, output) ==
  LET steps == ChainSteps(x)
      id == [i \in DOMAIN steps |-> SystemId(w, steps[i])]
  IN  {SystemEdge(0, w, "success", id[1])}
      \cup {SystemEdge(i, id[i], Happy(steps[i].kind), id[i + 1]) : i \in 1 .. Len(steps) - 1}
      \cup {SystemEdge(i, id[i], Unhappy(steps[i].kind), output) : i \in DOMAIN steps}
      \cup ResumeEdges(id[Len(steps)], originals, output)

SuccessEdges(edges, w) == {e \in Out(edges, w) : e.cond = "success"}

\* A chain takes the place of the success edges of its write task.
Replaced(edges, writes) == UNION {SuccessEdges(edges, w) : w \in writes}

\* inject
Inject(node, edges) ==
  LET writes == {n \in DOMAIN node : node[n].kind = "write_task"}
      output == CHOOSE n \in DOMAIN node : node[n].kind = "output"
      added == UNION {{[id |-> SystemId(w, s), is |-> ChainNode(w, node[w], s)] :
                         s \in StepsOf(node[w])} : w \in writes}
  IN  [node |-> [n \in DOMAIN node \cup {a.id : a \in added} |->
                   IF n \in DOMAIN node THEN node[n] ELSE (CHOOSE a \in added : a.id = n).is],
       edges |-> (edges \ Replaced(edges, writes))
                 \cup UNION {ChainEdges(w, node[w], SuccessEdges(edges, w), output) : w \in writes}]

-------------------------------------------------------------------------------
\* WorkflowCompiler.compile: a graph is made when the draft is valid and every
\* task compiles; a write task without a test leaves an error beside the graph.
Compiles(g) ==
  /\ DraftValid(g)
  /\ \A n \in OfType(g, "agent_task") : TaskCompiles(g.node[n])

Compiled(g) == Inject([n \in Ids(g) |-> Sealed(g.node[n])], g.edges)

TestMissing(g) ==
  \E n \in OfType(g, "agent_task") :
    LET x == g.node[n] IN x.write /\ ~IsDocsStatic(x) /\ x.cmds = <<>>

===============================================================================
