----------------------------- MODULE DraftValidator -----------------------------
(***************************************************************************)
(* The checks of an author's graph (workflow/validation.py).  A graph is    *)
(* [node : [ids -> node], edges : set of edges]; an edge is                  *)
(* [id, from, to, cond, sys], the id telling parallel edges apart.  What a   *)
(* path, a command or a text may look like is the field valid of a node.     *)
(***************************************************************************)
EXTENDS Naturals, Sequences, FiniteSets

CONSTANTS Sorted,       \* every id a draft may use, in the order of sorted()
          NoNode,       \* not an id
          MaxAuthorEdges

AuthorTypes == {"input", "agent_task", "context_builder", "if", "output"}

IfFields == {"status", "outcome", "effective_risk", "tests_passed"}

Ids(g) == DOMAIN g.node

OfType(g, t) == {n \in Ids(g) : g.node[n].type = t}

ValidEdges(g) == {e \in g.edges : e.from \in Ids(g) /\ e.to \in Ids(g)}

Out(E, n) == {e \in E : e.from = n}
Into(E, n) == {e \in E : e.to = n}
Count(E, n, cond) == Cardinality({e \in Out(E, n) : e.cond = cond})

-------------------------------------------------------------------------------
(* Graph algorithms.  A definition whose name says how it is wrong is a        *)
(* mutation used to test the properties.                                       *)

Closure(S, E) ==
  LET n == Cardinality(E)
      reached[k \in 0 .. n] ==
        IF k = 0 THEN S
        ELSE LET r == reached[k - 1] IN r \cup {e.to : e \in {f \in E : f.from \in r}}
  IN  reached[n]

Reversed(E) == {[e EXCEPT !.from = e.to, !.to = e.from] : e \in E}

ReachableFrom(start, E) == Closure({start}, E)

TransitivePredecessors(target, E) ==
  Closure({e.from : e \in Into(E, target)}, Reversed(E))

\* Kahn's algorithm: take off the nodes whose predecessors are all taken off.
ContainsCycle(nodes, E) ==
  LET n == Cardinality(nodes)
      visited[k \in 0 .. n] ==
        IF k = 0 THEN {}
        ELSE LET v == visited[k - 1]
             IN  {m \in nodes : \A e \in Into(E, m) : e.from \in v}
  IN  visited[n] # nodes

Common(dom, preds) == {m \in UNION {dom[p] : p \in preds} : \A p \in preds : m \in dom[p]}

\* m again, from the nodes common to its predecessors; without any it stays {m}.
Redone(d, m, preds) ==
  IF m \notin DOMAIN d \/ preds[m] = {} THEN d
  ELSE [d EXCEPT ![m] = {m} \cup Common(d, preds[m])]

\* One sweep over the sorted ids, in place.
Swept(d, preds) ==
  LET after[j \in 0 .. Len(Sorted)] ==
        IF j = 0 THEN d ELSE Redone(after[j - 1], Sorted[j], preds)
  IN  after[Len(Sorted)]

\* Start from every node.
DominatorsAfter(sweeps, nodes, E) ==
  LET preds == [m \in nodes |-> {e.from : e \in Into(E, m)}]
      dom[k \in 0 .. sweeps] ==
        IF k = 0 THEN [m \in nodes |-> IF preds[m] = {} THEN {m} ELSE nodes]
        ELSE Swept(dom[k - 1], preds)
  IN  dom[sweeps]

DominatorsOneSweep(nodes, E) == DominatorsAfter(1, nodes, E)

\* One sweep per node at most; the code stops when a sweep changes nothing.
Dominators(nodes, E) == DominatorsAfter(Cardinality(nodes), nodes, E)

-------------------------------------------------------------------------------
(* DraftValidator.validate *)

\* _validate_candidate_commands: no command twice.
CommandsValid(x) == \A i, j \in DOMAIN x.cmds : x.cmds[i] = x.cmds[j] => i = j

\* _validate_candidate_paths: canonical paths of the repository, none twice.
PathsValid(x) == x.valid

NodeValid(x) ==
  /\ x.type \in AuthorTypes
  /\ IF x.type = "agent_task" THEN PathsValid(x) /\ CommandsValid(x) ELSE ~x.write /\ x.files = 0
  /\ x.cmds # <<>> => x.write
  /\ x.type = "if" <=> x.up # NoNode

Emits(type) ==
  IF type = "if" THEN {"matched", "not_matched", "failure"} ELSE {"success", "failure"}

EdgeValid(g, e) ==
  /\ e.from \in Ids(g) /\ e.to \in Ids(g)
  /\ e.from # e.to
  /\ ~e.sys
  /\ e.cond \in Emits(g.node[e.from].type)

IfBranchesValid(g, n) ==
  LET E == ValidEdges(g)
  IN  /\ Count(E, n, "matched") = 1 /\ Count(E, n, "not_matched") = 1
      /\ Count(E, n, "failure") <= 1

\* The upstream node is completed on every path to the if node, and the operand
\* suits the operator and the field.
IfConditionValid(g, n) ==
  LET x == g.node[n]
      E == ValidEdges(g)
  IN  /\ x.up \in TransitivePredecessors(n, E)
      /\ x.up \in Dominators(Ids(g), E)[n]
      /\ x.operand

Complete(g) ==
  LET E == ValidEdges(g)
  IN  /\ Cardinality(OfType(g, "input")) = 1 /\ Cardinality(OfType(g, "output")) = 1
      /\ \A n \in OfType(g, "input") : Into(E, n) = {}
      /\ \A n \in OfType(g, "output") : Out(E, n) = {}
      /\ \A n \in Ids(g) \ OfType(g, "output") : Out(E, n) # {}
      /\ \A n \in Ids(g) : Cardinality(Ids(g)) > 1 => Into(E, n) \cup Out(E, n) # {}
      /\ \A n \in OfType(g, "input") : Ids(g) \subseteq ReachableFrom(n, E)

DraftValid(g) ==
  /\ Cardinality(g.edges) <= MaxAuthorEdges
  /\ \A n \in Ids(g) : NodeValid(g.node[n])
  /\ \A e \in g.edges : EdgeValid(g, e)
  /\ Complete(g)
  /\ ~ContainsCycle(Ids(g), ValidEdges(g))
  /\ \A n \in OfType(g, "if") : IfBranchesValid(g, n) /\ IfConditionValid(g, n)

===============================================================================
