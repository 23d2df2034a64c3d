----------------------------- MODULE MCWorkflowRun -----------------------------
(* Compiled graphs for WorkflowRun.  A node is named <<task, type>>: the sealed *)
(* chain of write task "a" is <<"a", "write_task">> ... <<"a", "merge">>        *)
(* (workflow/compiler.py, _build_chain).                                        *)
EXTENDS WorkflowRun

Edge(m, c, n) == [from |-> m, to |-> n, cond |-> c]

In_ == <<"", "input">>
Out_ == <<"", "output">>

KindOf(S) == [n \in S |-> n[2]]
SourceOf(S) ==
  [n \in S |-> IF n[2] \in ChainKinds THEN <<n[1], "write_task">> ELSE NoNode]
Elements(s) == {s[i] : i \in DOMAIN s}

\* The chain after write task w with the given checks, and its edges to the output.
Chain(w, checks) ==
  LET seq == <<"write_task", "patch_guard">> \o checks \o <<"risk", "approval", "merge">>
      Cond(k) == IF k = "approval" THEN "approved" ELSE "success"
  IN  {Edge(<<w, seq[i]>>, Cond(seq[i]), <<w, seq[i + 1]>>) : i \in 1 .. Len(seq) - 1}
      \cup {Edge(<<w, k>>, "failure", Out_) : k \in Elements(Tail(seq)) \ {"approval"}}
      \cup {Edge(<<w, "approval">>, "rejected", Out_)}

-------------------------------------------------------------------------------
\* One write task with a static test.
OneOrder ==
  <<In_, <<"a", "write_task">>, <<"a", "patch_guard">>, <<"a", "test">>, <<"a", "risk">>,
    <<"a", "approval">>, <<"a", "merge">>, Out_>>
OneNodes == Elements(OneOrder)
OneEdges ==
  {Edge(In_, "success", <<"a", "write_task">>), Edge(<<"a", "merge">>, "success", Out_)}
  \cup Chain("a", <<"test">>)

-------------------------------------------------------------------------------
\* Two write tasks, the second after the merge of the first, which has a command test.
SerialOrder ==
  <<In_, <<"a", "write_task">>, <<"a", "patch_guard">>, <<"a", "command_guard">>, <<"a", "test">>,
    <<"a", "risk">>, <<"a", "approval">>, <<"a", "merge">>, <<"b", "write_task">>,
    <<"b", "patch_guard">>, <<"b", "test">>, <<"b", "risk">>, <<"b", "approval">>, <<"b", "merge">>,
    Out_>>
SerialNodes == Elements(SerialOrder)
SerialEdges ==
  {Edge(In_, "success", <<"a", "write_task">>),
   Edge(<<"a", "merge">>, "success", <<"b", "write_task">>),
   Edge(<<"b", "merge">>, "success", Out_)}
  \cup Chain("a", <<"command_guard", "test">>) \cup Chain("b", <<"test">>)

-------------------------------------------------------------------------------
\* Two write tasks side by side, with static tests.
TwoOrder ==
  <<In_, <<"a", "write_task">>, <<"b", "write_task">>, <<"a", "patch_guard">>,
    <<"b", "patch_guard">>, <<"a", "test">>, <<"b", "test">>, <<"a", "risk">>, <<"b", "risk">>,
    <<"a", "approval">>, <<"b", "approval">>, <<"a", "merge">>, <<"b", "merge">>, Out_>>
TwoNodes == Elements(TwoOrder)
TwoEdges ==
  {Edge(In_, "success", <<w, "write_task">>) : w \in {"a", "b"}}
  \cup {Edge(<<w, "merge">>, "success", Out_) : w \in {"a", "b"}}
  \cup Chain("a", <<"test">>) \cup Chain("b", <<"test">>)

-------------------------------------------------------------------------------
\* A read-only task beside a branch to a write task, joined at the output.
BranchOrder ==
  <<In_, <<"x", "read_task">>, <<"", "context_builder">>, <<"", "if">>, <<"a", "write_task">>,
    <<"a", "patch_guard">>, <<"a", "command_guard">>, <<"a", "test">>, <<"a", "risk">>,
    <<"a", "approval">>, <<"a", "merge">>, Out_>>
BranchNodes == Elements(BranchOrder)
BranchEdges ==
  {Edge(In_, "success", <<"x", "read_task">>), Edge(In_, "success", <<"", "context_builder">>),
   Edge(<<"x", "read_task">>, "success", Out_), Edge(<<"x", "read_task">>, "failure", Out_),
   Edge(<<"", "context_builder">>, "success", <<"", "if">>),
   Edge(<<"", "if">>, "matched", <<"a", "write_task">>), Edge(<<"", "if">>, "not_matched", Out_),
   Edge(<<"a", "merge">>, "success", Out_)}
  \cup Chain("a", <<"command_guard", "test">>)

OneKind == KindOf(OneNodes)
OneSource == SourceOf(OneNodes)
SerialKind == KindOf(SerialNodes)
SerialSource == SourceOf(SerialNodes)
TwoKind == KindOf(TwoNodes)
TwoSource == SourceOf(TwoNodes)
BranchKind == KindOf(BranchNodes)
BranchSource == SourceOf(BranchNodes)

===============================================================================
