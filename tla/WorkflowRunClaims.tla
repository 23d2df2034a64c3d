--------------------------- MODULE WorkflowRunClaims ---------------------------
(***************************************************************************)
(* A sentence of agent-hub-development-plan.md about workflow runs that the *)
(* code does not keep, refuted by a run of its own.                         *)
(***************************************************************************)
EXTENDS MCWorkflowRun

AllDown == \A p \in Procs : At(p, "down")

\* Line 2717-2727: after the user approves, the gate is completed and the executor
\* goes on.  enter_waiting_approval finds a decision that came before it and
\* returns with the node running, where claim_next never finds it again.
ApprovedGateProceeds ==
  \A r \in Runs, n \in ApprovalNodes :
    approval[r][Source[n]].status = "approved" /\ run[r].status = "running"
      ~> node[r][n].status \in NodeTerminal \/ AllDown

===============================================================================
