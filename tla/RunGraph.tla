-------------------------------- MODULE RunGraph --------------------------------
(***************************************************************************)
(* A compiled workflow graph and the state of its node runs: when a pending *)
(* node becomes ready or is skipped, and what a run whose nodes are all     *)
(* terminal has come to.  This is _reconcile_in, _edge_satisfied and the    *)
(* topological order of storage/workflow_run_repository.py, as operators on *)
(* a state st : [Nodes -> NodeState].                                       *)
(***************************************************************************)
EXTENDS Naturals, Sequences, FiniteSets

CONSTANTS Nodes,   \* node ids of the compiled snapshot
          NoNode,  \* not a node id
          Kind,    \* node -> its node type
          Source,  \* node of a sealed chain -> its write task; NoNode for others
          Edges,   \* set of [from, to, cond]
          Order    \* the nodes, in the order _topological_order lists them

Kinds == {"input", "context_builder", "if", "read_task", "write_task", "patch_guard",
          "command_guard", "test", "risk", "approval", "merge", "output"}

Conditions == {"success", "failure", "matched", "not_matched", "approved", "rejected"}

ASSUME GraphAssumption ==
  /\ IsFiniteSet(Nodes) /\ NoNode \notin Nodes
  /\ Kind \in [Nodes -> Kinds]
  /\ Edges \subseteq [from : Nodes, to : Nodes, cond : Conditions]
  /\ Order \in [1 .. Cardinality(Nodes) -> Nodes]

\* _topological_order: every node once, edges point forward.
ASSUME OrderAssumption ==
  /\ \A n \in Nodes : \E i \in DOMAIN Order : Order[i] = n
  /\ \A e \in Edges : \E i, j \in DOMAIN Order :
       i < j /\ Order[i] = e.from /\ Order[j] = e.to

\* The compiler leaves exactly one output node.
ASSUME OutputAssumption ==
  /\ \E n \in Nodes : Kind[n] = "output"
  /\ \A m, n \in Nodes : Kind[m] = "output" /\ Kind[n] = "output" => m = n

Writes == {n \in Nodes : Kind[n] = "write_task"}

\* PolicyInjector: what touches a ChangeSet is in the chain of a write task.
ChainKinds == {"write_task", "patch_guard", "command_guard", "test", "risk", "approval", "merge"}

ASSUME SourceAssumption ==
  /\ Source \in [Nodes -> Writes \cup {NoNode}]
  /\ \A n \in Nodes : Kind[n] \in ChainKinds <=> Source[n] # NoNode
  /\ \A w \in Writes : Source[w] = w

NodeStatuses == {"pending", "ready", "running", "waiting_approval", "blocked_by_guard",
                 "failed", "completed", "skipped", "cancelled", "orphaned"}

NodeTerminal == {"blocked_by_guard", "failed", "completed", "skipped", "cancelled",
                 "orphaned"}

Outcomes == {"none", "success", "failure", "matched", "not_matched", "approved",
             "rejected", "blocked", "cancelled"}

NodeState == [status : NodeStatuses, outcome : Outcomes]

Pending == [status |-> "pending", outcome |-> "none"]
Ready == [status |-> "ready", outcome |-> "none"]
Skipped == [status |-> "skipped", outcome |-> "none"]

-------------------------------------------------------------------------------
(* Edges.  A definition whose name says how it is wrong is a mutation used to  *)
(* test the properties.                                                        *)

In(n) == {e \in Edges : e.to = n}

\* The upstream outcomes that satisfy an edge condition.
Accepts(cond) == IF cond = "failure" THEN {"failure", "blocked"} ELSE {cond}

EdgeSatisfied(e, st) ==
  /\ st[e.from].status # "skipped"
  /\ st[e.from].outcome \in Accepts(e.cond)

Enabled(n, st) == \E e \in In(n) : EdgeSatisfied(e, st)

\* Every upstream node is terminal.
ResolvedAnyUpstream(n, st) ==
  In(n) = {} \/ \E e \in In(n) : st[e.from].status \in NodeTerminal

Resolved(n, st) == \A e \in In(n) : st[e.from].status \in NodeTerminal

-------------------------------------------------------------------------------
(* _reconcile_in: sweep over the pending nodes until nothing changes *)

\* A pending node is skipped when every upstream node is terminal or skipped
\* itself, and no incoming edge is satisfied.
Dropped(st) ==
  LET skip[n \in Nodes] ==
        /\ st[n].status = "pending" /\ Kind[n] # "input"
        /\ \A e \in In(n) : st[e.from].status \in NodeTerminal \/ skip[e.from]
        /\ ~Enabled(n, st)
  IN  skip

AfterSkips(st) ==
  LET skip == Dropped(st)
  IN  [n \in Nodes |-> IF skip[n] THEN Skipped ELSE st[n]]

\* A pending input, or a pending node reached by its branch, becomes ready.
AfterReadies(st) ==
  [n \in Nodes |-> IF /\ st[n].status = "pending"
                      /\ Kind[n] = "input" \/ (Resolved(n, st) /\ Enabled(n, st))
                   THEN Ready ELSE st[n]]

Reconciled(st) == AfterReadies(AfterSkips(st))

AllTerminal(st) == \A n \in Nodes : st[n].status \in NodeTerminal

OutputNode == CHOOSE n \in Nodes : Kind[n] = "output"

\* The status of a running run whose reconciled nodes are st.
RunVerdict(st) ==
  IF ~AllTerminal(st) THEN "running"
  ELSE IF st[OutputNode].status = "completed" /\ st[OutputNode].outcome \in {"success", "rejected"}
       THEN "completed"
  ELSE IF \E n \in Nodes : st[n].status = "blocked_by_guard" THEN "blocked"
  ELSE "failed"

-------------------------------------------------------------------------------
(* claim_next *)

ReadyNodes(st) == {n \in Nodes : st[n].status = "ready"}

\* The first ready node in topological order, if there is one.
FirstReady(st) ==
  {n \in ReadyNodes(st) : \E i \in DOMAIN Order :
     Order[i] = n /\ \A j \in DOMAIN Order : j < i => Order[j] \notin ReadyNodes(st)}

===============================================================================
