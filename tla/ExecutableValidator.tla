--------------------------- MODULE ExecutableValidator ---------------------------
(***************************************************************************)
(* The last check before a compiled graph may run                           *)
(* (workflow/executable_validator.py).  It trusts nothing the compiler did:  *)
(* the sealed chain of every write task is followed edge by edge and         *)
(* compared with the task's own permissions.                                 *)
(***************************************************************************)
EXTENDS WorkflowCompiler

CONSTANTS MaxCompiledNodes, MaxCompiledEdges

SystemKinds == {"patch_guard", "command_guard", "test", "risk", "approval", "merge"}

KindNodes(g, k) == {n \in Ids(g) : g.node[n].kind = k}

IsSystem(g, n) == g.node[n].kind \in SystemKinds

\* The sealed nodes of write task w.
SystemOf(g, w) == {n \in Ids(g) : g.node[n].source = w}

-------------------------------------------------------------------------------
(* _validate_node and _validate_test_node: a node carries what its kind may *)

TestNodeValid(g, x) ==
  \/ x.test = "command" /\ x.argv # "none"
  \/ x.test = "docs_static" /\ x.argv = "none" /\ x.source \in Ids(g) /\ g.node[x.source].docs

\* A task keeps its frozen agent, its scope and the risk floor of the policy.
TaskExecutable(x) ==
  /\ x.agent # "none" /\ x.source = NoNode /\ x.test = "none" /\ x.argv = "none"
  /\ x.floor = LeastRisk(x.hint, x.scope, x.kind = "write_task")
  /\ IF x.kind = "write_task" THEN x.files > 0 ELSE x.cmds = <<>>

\* A sealed node belongs to a write task, has its floor, and nothing of a task.
SystemNodeExecutable(g, x) ==
  /\ x.source \in Ids(g) /\ g.node[x.source].kind = "write_task"
  /\ x.floor = g.node[x.source].floor
  /\ x.files = 0 /\ x.cmds = <<>> /\ x.agent = "none" /\ x.up = NoNode
  /\ IF x.kind = "test" THEN TestNodeValid(g, x) ELSE x.test = "none" /\ x.argv = "none"

NodeExecutable(g, x) ==
  CASE x.kind \in SystemKinds -> SystemNodeExecutable(g, x)
    [] x.kind \in {"write_task", "read_task"} -> TaskExecutable(x)
    [] OTHER -> /\ x.source = NoNode /\ x.agent = "none" /\ x.floor < 0
                /\ x.test = "none" /\ x.argv = "none"

-------------------------------------------------------------------------------
(* Edges *)

EmitsCompiled(kind) ==
  CASE kind = "if" -> {"matched", "not_matched", "failure"}
    [] kind = "approval" -> {"approved", "rejected"}
    [] OTHER -> {"success", "failure"}

\* Only the compiler's edges touch a sealed node, and none leads from one chain
\* into another.
EdgeExecutable(g, e) ==
  /\ e.from \in Ids(g) /\ e.to \in Ids(g)
  /\ e.cond \in EmitsCompiled(g.node[e.from].kind)
  /\ e.sys <=> IsSystem(g, e.from) \/ IsSystem(g, e.to)
  /\ IsSystem(g, e.from) /\ IsSystem(g, e.to) => g.node[e.from].source = g.node[e.to].source

\* _validate_boundaries
BoundariesValid(g) ==
  /\ Cardinality(KindNodes(g, "input")) = 1 /\ Cardinality(KindNodes(g, "output")) = 1
  /\ \A n \in KindNodes(g, "input") : Into(g.edges, n) = {} /\ ReachableFrom(n, g.edges) = Ids(g)
  /\ \A n \in KindNodes(g, "output") : /\ Out(g.edges, n) = {}
                                       /\ ReachableFrom(n, Reversed(g.edges)) = Ids(g)
  /\ \A n \in Ids(g) \ KindNodes(g, "output") : Out(g.edges, n) # {}

FanoutValidAnyJoin(g) == \A e, f \in g.edges : e.from = f.from /\ e.cond = f.cond => e = f

\* _validate_fanout_and_joins: one edge per outcome, joins only at the output.
FanoutAndJoinsValid(g) ==
  /\ \A e, f \in g.edges : e.from = f.from /\ e.cond = f.cond => e = f
  /\ \A n \in Ids(g) \ KindNodes(g, "output") : Cardinality(Into(g.edges, n)) <= 1

\* _validate_outcome_branches
OutcomeBranchesValid(g) ==
  /\ \A n \in KindNodes(g, "if"), c \in {"matched", "not_matched"} : Count(g.edges, n, c) = 1
  /\ \A n \in KindNodes(g, "approval"), c \in {"approved", "rejected"} : Count(g.edges, n, c) = 1

-------------------------------------------------------------------------------
(* _validate_security_chains *)

HappyEdges(g, n) == {e \in Out(g.edges, n) : e.cond = Happy(g.node[n].kind)}

\* The nodes after w along the happy edges, as long as they are sealed for w.
HappyChain(g, w) ==
  LET n == Cardinality(Ids(g))
      chain[k \in 0 .. n] ==
        IF k = 0 THEN <<>>
        ELSE LET c == chain[k - 1]
                 at == IF c = <<>> THEN w ELSE c[Len(c)]
                 next == {e.to : e \in HappyEdges(g, at)} \cap SystemOf(g, w)
             IN  IF Len(c) = k - 1 /\ Cardinality(HappyEdges(g, at)) = 1 /\ next # {}
                 THEN Append(c, CHOOSE m \in next : TRUE) ELSE c
  IN  chain[n]

\* _validate_security_sequence: the order, the sealed rules, and exactly the
\* commands the task was allowed.
SequenceValid(g, w, chain) ==
  LET last == Len(chain)
      cmds == g.node[w].cmds
      Is(i, kind, rule) == g.node[chain[i]].kind = kind /\ g.node[chain[i]].rule = rule
      x(i) == g.node[chain[i]]
  IN  /\ last >= 5
      /\ Is(1, "patch_guard", <<"patch_guard", 0>>)
      /\ Is(last - 2, "risk", <<"risk_classifier", 0>>)
      /\ Is(last - 1, "approval", <<"changeset_approval", 0>>)
      /\ Is(last, "merge", <<"merge_patch", 0>>)
      /\ IF last = 5
         THEN Is(2, "test", <<"docs_static_test", 0>>) /\ x(2).test = "docs_static" /\ cmds = <<>>
         ELSE /\ last = 2 * Len(cmds) + 4
              /\ \A k \in DOMAIN cmds :
                   /\ Is(2 * k, "command_guard", <<"command_guard", k>>)
                   /\ Is(2 * k + 1, "test", <<"command_test", k>>)
                   /\ x(2 * k + 1).test = "command" /\ x(2 * k + 1).argv = cmds[k]

UnhappyEdges(g, n) == {e \in Out(g.edges, n) : e.cond = Unhappy(g.node[n].kind)}

\* Every sealed node gives up at the output.
ExitsValid(g, w) ==
  \A n \in SystemOf(g, w) :
    /\ Cardinality(UnhappyEdges(g, n)) = 1
    /\ \A e \in UnhappyEdges(g, n) : e.to \in KindNodes(g, "output")

\* The nodes of the chain are there; nothing is said of the way through them.
SecurityChainsOnlyPresent(g) ==
  \A w \in KindNodes(g, "write_task") :
    \A k \in {"patch_guard", "risk", "approval", "merge"} :
      Cardinality({n \in SystemOf(g, w) : g.node[n].kind = k}) = 1

SecurityChainsValid(g) ==
  \A w \in KindNodes(g, "write_task") :
    LET chain == HappyChain(g, w)
    IN  /\ \A k \in {"patch_guard", "risk", "approval", "merge"} :
             Cardinality({n \in SystemOf(g, w) : g.node[n].kind = k}) = 1
        /\ \E n \in SystemOf(g, w) : g.node[n].kind = "test"
        /\ \A m, n \in SystemOf(g, w) : g.node[m].rule = g.node[n].rule => m = n
        /\ g.node[w].floor # L4
        /\ {chain[i] : i \in DOMAIN chain} = SystemOf(g, w)
        /\ \A n \in {w} \cup SystemOf(g, w) : Cardinality(HappyEdges(g, n)) = 1
        /\ SequenceValid(g, w, chain)
        /\ ExitsValid(g, w)

Executable(g) ==
  /\ Cardinality(Ids(g)) <= MaxCompiledNodes /\ Cardinality(g.edges) <= MaxCompiledEdges
  /\ \A n \in Ids(g) : NodeExecutable(g, g.node[n])
  /\ \A e \in g.edges : EdgeExecutable(g, e)
  /\ ~ContainsCycle(Ids(g), g.edges)
  /\ BoundariesValid(g)
  /\ FanoutAndJoinsValid(g)
  /\ OutcomeBranchesValid(g)
  /\ SecurityChainsValid(g)

===============================================================================
