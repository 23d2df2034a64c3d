------------------------------ MODULE WorkflowRun ------------------------------
(***************************************************************************)
(* A durable workflow run and the Master processes that drive it: the       *)
(* scheduler's tick, the node handlers, the approval gate, the merge with   *)
(* its finalizing mark, cancellation, and recovery after a restart          *)
(* (workflow/scheduler.py, executor.py, handlers/, recovery.py and the      *)
(* repositories they write through).                                        *)
(*                                                                         *)
(* Each action is one database transaction, or one piece of work outside    *)
(* the database (Git, the Agent) between two transactions.  Another API     *)
(* call, another process, a crash or an expired lease can come between any  *)
(* two of them.  A run has a session, with a repository, of its own.  A      *)
(* commit of that repository is the set of the write tasks merged into it.   *)
(*                                                                         *)
(* Leases are abstracted to what MasterLease and WorkspaceLease establish:  *)
(* at any time at most one process passes the fence.  Payloads, hashes and  *)
(* artifacts are left out; where they decide between success and failure    *)
(* the choice is nondeterministic.                                          *)
(***************************************************************************)
EXTENDS RunGraph

CONSTANTS Procs,       \* serve processes; a process may be started again
          RunCount,    \* runs, numbered in order of creation
          MaxDowns,    \* bound of the model: crashes and shutdowns
          Stalls       \* may a lease expire while its owner, suspended, lives on?

ASSUME ProcAssumption == "none" \notin Procs /\ "dead" \notin Procs
ASSUME RunAssumption == RunCount \in Nat \ {0}
ASSUME CrashAssumption == MaxDowns \in Nat /\ Stalls \in BOOLEAN

Runs == 1 .. RunCount

VARIABLES run,       \* run -> [status, cancel, finalizing]
          node,      \* run -> node -> NodeState
          cs,        \* run -> write task -> [status, base] of its ChangeSet
          approval,  \* run -> write task -> [status, overdue] of its approval
          head,      \* run -> integration_head_commit = current_commit
          repo,      \* run -> [head, dirty], the session's Git repository
          master,    \* the process whose Master lease is valid
          ws,        \* run -> the process whose workspace lease is valid
          proc,      \* process -> what it is doing
          downs      \* crashes and shutdowns so far

vars == <<run, node, cs, approval, head, repo, master, ws, proc, downs>>

RunStatuses == {"pending", "running", "waiting_approval", "blocked", "failed",
                "completed", "cancelled", "orphaned"}
RunTerminal == {"blocked", "failed", "completed", "cancelled", "orphaned"}
CsStatuses == {"none", "captured", "abandoned_partial", "guard_passed", "guard_rejected",
               "quarantined", "test_passed", "test_failed", "policy_rejected",
               "pending_approval", "approved", "rejected", "merged", "cancelled"}
ApprovalStatuses == {"none", "pending", "approved", "rejected", "invalidated"}
Commits == SUBSET Writes

\* A lease is valid for nobody, for a process, or for one that has died.
Holders == Procs \cup {"none", "dead"}

\* Where a process is.  m_: in the merge handler, r_: recovering a merge.
Labels == {"down", "recover", "r_hold", "r_inspect", "r_clear", "r_finalize", "r_orphan",
           "poll", "tick", "claim", "exec", "agent", "capture", "persist", "wait",
           "m_begin", "m_apply", "m_commit", "m_finalize", "m_fail", "m_clear", "m_done",
           "complete", "post"}

Success == [status |-> "completed", outcome |-> "success"]
Failure == [status |-> "failed", outcome |-> "failure"]
Blocked == [status |-> "blocked_by_guard", outcome |-> "blocked"]
Outcome(o) == [status |-> "completed", outcome |-> o]

\* The handler of a write task failed and left the row of its task running.
Unfinished == [status |-> "failed", outcome |-> "none"]
HandlerResults == [status : {"completed", "failed", "blocked_by_guard"}, outcome : Outcomes]

\* What a process does: the run and node it works on, the run's current_commit
\* it read with them, the result to store, the runs left to recover.
Idle == [pc |-> "down", run |-> 1, node |-> NoNode, commit |-> {}, res |-> Failure, todo |-> {}]

RunState == [status : RunStatuses, cancel : BOOLEAN, finalizing : BOOLEAN]
ChangeSetState == [status : CsStatuses, base : Commits]
ApprovalState == [status : ApprovalStatuses, overdue : BOOLEAN]
RepoState == [head : Commits, dirty : BOOLEAN]
ProcState == [pc : Labels, run : Runs, node : Nodes \cup {NoNode}, commit : Commits,
              res : HandlerResults, todo : SUBSET Runs]

TypeOK ==
  /\ run \in [Runs -> RunState]
  /\ node \in [Runs -> [Nodes -> NodeState]]
  /\ cs \in [Runs -> [Writes -> ChangeSetState]]
  /\ approval \in [Runs -> [Writes -> ApprovalState]]
  /\ head \in [Runs -> Commits]
  /\ repo \in [Runs -> RepoState]
  /\ master \in Holders
  /\ ws \in [Runs -> Holders]
  /\ proc \in [Procs -> ProcState]
  /\ downs \in 0 .. MaxDowns

Init ==
  /\ run = [r \in Runs |-> [status |-> "pending", cancel |-> FALSE, finalizing |-> FALSE]]
  /\ node = [r \in Runs |-> [n \in Nodes |-> Pending]]
  /\ cs = [r \in Runs |-> [w \in Writes |-> [status |-> "none", base |-> {}]]]
  /\ approval = [r \in Runs |-> [w \in Writes |-> [status |-> "none", overdue |-> FALSE]]]
  /\ head = [r \in Runs |-> {}]
  /\ repo = [r \in Runs |-> [head |-> {}, dirty |-> FALSE]]
  /\ master = "none"
  /\ ws = [r \in Runs |-> "none"]
  /\ proc = [p \in Procs |-> Idle]
  /\ downs = 0

-------------------------------------------------------------------------------
(* The processes.  A definition whose name says how it is wrong is a mutation *)
(* used to test the properties.                                               *)

At(p, l) == proc[p].pc = l
Run(p) == proc[p].run
Node(p) == proc[p].node
Task(p) == Source[proc[p].node]
Goto(p, l) == proc' = [proc EXCEPT ![p].pc = l]

\* The handler is over with result x; complete_node is next.
Return(p, x) == proc' = [proc EXCEPT ![p].pc = "complete", ![p].res = x]

\* The process waits for the next poll.
Rest(p) == proc' = [proc EXCEPT ![p] = [Idle EXCEPT !.pc = "poll"]]

\* Fences of a transaction: the Master lease, and the lease of the workspace.
Fenced(p) == master = p
HoldsWorkspace(p) == ws[Run(p)] = p

\* The durable state of the runs, left alone by most steps.
runVars == <<run, node, cs, approval, head>>

\* hold: one attempt to take the workspace lease, and its release at the end.
TakeWorkspace(p, r) == ws[r] = "none" /\ ws' = [ws EXCEPT ![r] = p]
ReleaseWorkspace(p, r) == ws' = [ws EXCEPT ![r] = IF @ = p THEN "none" ELSE @]

\* The node runs of r become what reconciliation makes of st, in a running run.
Reconcile(r, st) ==
  LET after == Reconciled(st)
  IN  /\ node' = [node EXCEPT ![r] = after]
      /\ run' = [run EXCEPT ![r].status = RunVerdict(after)]

\* The server exits: holds and serve release what leases they still have.
Leave(p) ==
  /\ proc' = [proc EXCEPT ![p] = Idle]
  /\ master' = IF master = p THEN "none" ELSE master
  /\ ws' = [r \in Runs |-> IF ws[r] = p THEN "none" ELSE ws[r]]
  /\ UNCHANGED <<runVars, repo>>

Exit(p) == Leave(p) /\ UNCHANGED downs

-------------------------------------------------------------------------------
(* serve: acquire the Master lease, then recover every recoverable run *)

Recoverable(r) ==
  run[r].status \in {"running", "waiting_approval", "orphaned"} \/ run[r].finalizing

Start(p) ==
  /\ At(p, "down") /\ master = "none"
  /\ master' = p
  /\ proc' = [proc EXCEPT ![p].pc = "recover", ![p].todo = {r \in Runs : Recoverable(r)}]
  /\ UNCHANGED <<runVars, repo, ws, downs>>

\* Runs are taken in the order of their creation.
IsOldest(r, S) == r \in S /\ \A q \in S : r <= q

\* mark_orphaned
NodesOrphaned(r) ==
  [n \in Nodes |-> IF node[r][n].status \in {"running", "waiting_approval"}
                   THEN [node[r][n] EXCEPT !.status = "orphaned"]
                   ELSE node[r][n]]

MarkOrphaned(r) ==
  /\ node' = IF run[r].status \in RunTerminal \ {"orphaned"} THEN node
             ELSE [node EXCEPT ![r] = NodesOrphaned(r)]
  /\ run' = IF run[r].status \in RunTerminal THEN run
            ELSE [run EXCEPT ![r].status = "orphaned"]
  /\ UNCHANGED <<cs, approval, head>>

RecoverNextKeepsRunning(p) ==
  /\ At(p, "recover") /\ Fenced(p) /\ proc[p].todo # {}
  /\ \E r \in Runs :
       /\ IsOldest(r, proc[p].todo)
       /\ \/ run[r].finalizing /\ proc' = [proc EXCEPT ![p].pc = "r_hold", ![p].run = r]
          \/ ~run[r].finalizing /\ proc' = [proc EXCEPT ![p].todo = @ \ {r}]
  /\ UNCHANGED <<runVars, repo, master, ws, downs>>

RecoverNextRequeues(p) ==
  /\ At(p, "recover") /\ Fenced(p) /\ proc[p].todo # {}
  /\ \E r \in Runs :
       /\ IsOldest(r, proc[p].todo)
       /\ \/ run[r].finalizing /\ proc' = [proc EXCEPT ![p].pc = "r_hold", ![p].run = r] /\ UNCHANGED node
          \/ /\ ~run[r].finalizing
             /\ proc' = [proc EXCEPT ![p].todo = @ \ {r}]
             /\ node' = [node EXCEPT ![r] = [n \in Nodes |-> IF @[n].status = "running" THEN Ready ELSE @[n]]]
  /\ UNCHANGED <<run, cs, approval, head, repo, master, ws, downs>>

\* recover: a finalizing run needs its repository inspected; another running
\* run is orphaned as a whole; a waiting or orphaned one is left alone.
RecoverNext(p) ==
  /\ At(p, "recover") /\ Fenced(p) /\ proc[p].todo # {}
  /\ \E r \in Runs :
       LET done == [proc EXCEPT ![p].todo = @ \ {r}]
       IN  /\ IsOldest(r, proc[p].todo)
           /\ \/ /\ run[r].finalizing
                 /\ proc' = [proc EXCEPT ![p].pc = "r_hold", ![p].run = r]
                 /\ UNCHANGED runVars
              \/ /\ ~run[r].finalizing /\ run[r].status = "running"
                 /\ proc' = done
                 /\ MarkOrphaned(r)
              \/ /\ ~run[r].finalizing /\ run[r].status # "running"
                 /\ proc' = done
                 /\ UNCHANGED runVars
  /\ UNCHANGED <<repo, master, ws, downs>>

RecoverDone(p) ==
  /\ At(p, "recover") /\ proc[p].todo = {}
  /\ Rest(p)
  /\ UNCHANGED <<runVars, repo, master, ws, downs>>

-------------------------------------------------------------------------------
(* _recover_finalizing *)

\* hold, as recovery: if the dead owner's lease still runs, the run is orphaned.
RecoverHold(p) ==
  /\ At(p, "r_hold")
  /\ \/ TakeWorkspace(p, Run(p)) /\ Goto(p, "r_inspect")
     \/ ws[Run(p)] # "none" /\ Goto(p, "r_orphan") /\ UNCHANGED ws
  /\ UNCHANGED <<runVars, repo, master, downs>>

\* The approval the merge of w relies on: approved, unexpired, of an approved
\* ChangeSet.
MergeApproved(r, w) ==
  /\ approval[r][w].status = "approved" /\ ~approval[r][w].overdue
  /\ cs[r][w].status = "approved"

\* The commit the ChangeSet of w was captured on, tested on and approved for.
ReviewedBaseIsHead(r, w) == head[r]
ReviewedBase(r, w) == cs[r][w].base

\* What the repository shows of the merge of w: nothing published, exactly the
\* approved commit on the expected parent, or neither.
InspectIgnoresCommit(r, w) ==
  IF MergeApproved(r, w) /\ ~repo[r].dirty THEN "r_clear" ELSE "r_orphan"

Inspect(r, w) ==
  IF ~MergeApproved(r, w) THEN "r_orphan"
  ELSE IF repo[r] = [head |-> head[r], dirty |-> FALSE] THEN "r_clear"
  ELSE IF /\ ReviewedBase(r, w) = head[r]
          /\ repo[r] = [head |-> head[r] \cup {w}, dirty |-> FALSE]
       THEN "r_finalize"
  ELSE "r_orphan"

\* The evidence of a running merge node, the first in the order of the ids; if
\* there is none or something is missing or unreadable, the run is orphaned.
RecoverInspect(p) ==
  /\ At(p, "r_inspect")
  /\ \/ /\ ~run[Run(p)].cancel
        /\ \E m \in Nodes :
             /\ Kind[m] = "merge" /\ node[Run(p)][m].status = "running"
             /\ proc' = [proc EXCEPT ![p].pc = Inspect(Run(p), Source[m]), ![p].node = m]
     \/ Goto(p, "r_orphan")
  /\ UNCHANGED <<runVars, repo, master, ws, downs>>

\* The back of the recovery loop, for the run just recovered.
RecoveredRun(p) ==
  /\ proc' = [proc EXCEPT ![p] = [Idle EXCEPT !.pc = "recover", !.todo = proc[p].todo \ {Run(p)}]]
  /\ ReleaseWorkspace(p, Run(p))

RecoverClearForgets(p) ==
  /\ At(p, "r_clear") /\ Fenced(p) /\ HoldsWorkspace(p)
  /\ RecoveredRun(p)
  /\ UNCHANGED <<runVars, repo, master, downs>>

\* clear_merge_finalizing: nothing was published; the run is left "retryable".
RecoverClear(p) ==
  /\ At(p, "r_clear") /\ Fenced(p) /\ HoldsWorkspace(p)
  /\ run' = [run EXCEPT ![Run(p)].finalizing = FALSE]
  /\ RecoveredRun(p)
  /\ UNCHANGED <<node, cs, approval, head, repo, master, downs>>

\* finalize_merge, by the merge handler or by recovery, for merge node n of r.
CanFinalize(p, r, n) ==
  /\ Fenced(p) /\ ws[r] = p
  /\ node[r][n].status = "running" /\ run[r].status = "running"
  /\ run[r].finalizing /\ ~run[r].cancel
  /\ cs[r][Source[n]].status = "approved"

Published(r, n) ==
  /\ head' = [head EXCEPT ![r] = ReviewedBase(r, Source[n]) \cup {Source[n]}]
  /\ cs' = [cs EXCEPT ![r][Source[n]].status = "merged"]

Finalize(r, n) ==
  LET st == Reconciled([node[r] EXCEPT ![n] = Success])
  IN  /\ Published(r, n)
      /\ node' = [node EXCEPT ![r] = st]
      /\ run' = [run EXCEPT ![r].status = RunVerdict(st), ![r].finalizing = FALSE]
      /\ UNCHANGED approval

RecoverFinalize(p) ==
  /\ At(p, "r_finalize")
  /\ CanFinalize(p, Run(p), Node(p)) /\ Finalize(Run(p), Node(p))
  /\ RecoveredRun(p)
  /\ UNCHANGED <<repo, master, downs>>

\* Evidence that does not add up, or a workspace lease lost meanwhile.
RecoverOrphan(p) ==
  /\ \/ At(p, "r_orphan")
     \/ proc[p].pc \in {"r_clear", "r_finalize"} /\ ~HoldsWorkspace(p)
  /\ Fenced(p)
  /\ MarkOrphaned(Run(p))
  /\ RecoveredRun(p)
  /\ UNCHANGED <<repo, master, downs>>

-------------------------------------------------------------------------------
(* The scheduler: poll, tick *)

Schedulable == {r \in Runs : run[r].status \in {"pending", "running"} /\ ~run[r].cancel}

\* next_schedulable_run_id: the oldest pending or running run, if there is one.
Poll(p) ==
  /\ At(p, "poll") /\ Fenced(p)
  /\ \/ \E r \in Runs : /\ IsOldest(r, Schedulable)
                       /\ proc' = [proc EXCEPT ![p].pc = "tick", ![p].run = r]
     \/ Schedulable = {} /\ UNCHANGED proc
  /\ UNCHANGED <<runVars, repo, master, ws, downs>>

\* start_and_reconcile, before the claim and again after the handler.
StartAndReconcile(p) ==
  /\ proc[p].pc \in {"tick", "post"} /\ Fenced(p)
  /\ LET r == Run(p)
         started == run[r].status = "running" \/ (run[r].status = "pending" /\ ~run[r].cancel)
     IN  /\ IF started THEN Reconcile(r, node[r]) ELSE UNCHANGED <<run, node>>
         /\ IF At(p, "tick") /\ run'[r].status = "running" THEN Goto(p, "claim") ELSE Rest(p)
  /\ UNCHANGED <<cs, approval, head, repo, master, ws, downs>>

\* claim_next: at most one node, the first ready one.
ClaimNext(p) ==
  /\ At(p, "claim") /\ Fenced(p)
  /\ LET r == Run(p)
     IN  IF run[r].status = "running" /\ ~run[r].cancel /\ ReadyNodes(node[r]) # {}
         THEN \E n \in FirstReady(node[r]) :
                /\ node' = [node EXCEPT ![r][n].status = "running"]
                /\ proc' = [proc EXCEPT ![p].pc = "exec", ![p].node = n, ![p].commit = head[r]]
         ELSE Goto(p, "post") /\ UNCHANGED node
  /\ UNCHANGED <<run, cs, approval, head, repo, master, ws, downs>>

\* What complete_node demands of a write task before its node may become x: a success has
\* its captured ChangeSet, anything else has none that is live and no task still running.
\* The workspace token cannot have moved on while p is the Master that ran the task.
Accountable(p, x) ==
  Kind[Node(p)] = "write_task" =>
    /\ proc[p].res # Unfinished
    /\ x = Success <=> cs[Run(p)][Node(p)].status = "captured"

CompletableRun(p) ==
  /\ ~run[Run(p)].cancel /\ run[Run(p)].status = "running"
  /\ node[Run(p)][Node(p)].status = "running"

CompleteNodeUnchecked(p) ==
  /\ At(p, "complete") /\ Fenced(p)
  /\ \E x \in {proc[p].res, Failure} : /\ Accountable(p, x)
                                     /\ node' = [node EXCEPT ![Run(p)][Node(p)] = x]
  /\ Goto(p, "post")
  /\ UNCHANGED <<run, cs, approval, head, repo, master, ws, downs>>

\* complete_node takes the handler's result, or a failure if its artifact was
\* invalid or could not be stored.
CompleteNode(p) ==
  /\ At(p, "complete") /\ Fenced(p) /\ CompletableRun(p)
  /\ \E x \in {proc[p].res, Failure} : /\ Accountable(p, x)
                                     /\ node' = [node EXCEPT ![Run(p)][Node(p)] = x]
  /\ Goto(p, "post")
  /\ UNCHANGED <<run, cs, approval, head, repo, master, ws, downs>>

\* SnapshotIntegrityError: a failure is to be stored while the task still runs or its
\* ChangeSet is live.  The error leaves the poll loop, and the server exits.
CompletionRefused(p) ==
  /\ At(p, "complete") /\ Fenced(p) /\ CompletableRun(p)
  /\ \E x \in {proc[p].res, Failure} : ~Accountable(p, x)
  /\ Exit(p)

\* ConcurrencyConflict: the run was cancelled under the handler; likewise.
CompletionConflict(p) ==
  /\ At(p, "complete") /\ Fenced(p) /\ ~CompletableRun(p)
  /\ Exit(p)

-------------------------------------------------------------------------------
(* Handlers that do not write to the workspace *)

ActiveOutcomes(r, n) == {node[r][e.from].outcome : e \in {f \in In(n) : EdgeSatisfied(f, node[r])}}

\* OutputNodeHandler: the worst of the satisfied incoming edges.
OutputResult(r, n) ==
  IF "blocked" \in ActiveOutcomes(r, n) THEN Blocked
  ELSE IF "failure" \in ActiveOutcomes(r, n) THEN Failure
  ELSE IF "rejected" \in ActiveOutcomes(r, n) THEN Outcome("rejected")
  ELSE Success

\* What a handler that reads only the run may return; an exception is a failure.
Results(r, n) ==
  {Failure} \cup
  CASE Kind[n] \in {"input", "context_builder"} -> {Success}
    [] Kind[n] = "if" -> {Outcome("matched"), Outcome("not_matched")}
    [] Kind[n] = "read_task" -> {Success, Blocked}
    [] Kind[n] = "output" -> {OutputResult(r, n)}
    [] OTHER -> {}

Handle(p) ==
  /\ At(p, "exec") /\ Kind[Node(p)] \notin ChainKinds
  /\ \E x \in Results(Run(p), Node(p)) : Return(p, x)
  /\ UNCHANGED <<runVars, repo, master, ws, downs>>

AfterTestNodeStatus(n) == "completed"

\* The ChangeSet passed its last test unless another test follows.
AfterTest(n) ==
  IF \E e \in Edges : e.from = n /\ Kind[e.to] \in {"command_guard", "test"}
  THEN "guard_passed" ELSE "test_passed"

\* What a guard, test or risk node makes of a ChangeSet with status c.  Each
\* expects one status, and transition is a compare-and-swap from it.
Judgements(n, c) ==
  CASE Kind[n] = "patch_guard" /\ c = "captured" ->
         {<<Success, "guard_passed">>, <<Blocked, "guard_rejected">>, <<Blocked, "quarantined">>}
    [] Kind[n] = "command_guard" /\ c = "guard_passed" ->
         {<<Success, c>>, <<Blocked, "test_failed">>}
    [] Kind[n] = "test" /\ c = "guard_passed" ->
         {<<Success, AfterTest(n)>>, <<Failure, "test_failed">>}
    [] Kind[n] = "risk" /\ c = "test_passed" ->
         {<<Success, c>>, <<Blocked, "policy_rejected">>}
    [] OTHER -> {}

\* The verdict moves the ChangeSet and is the result; an exception is a failure
\* that leaves the ChangeSet alone.
Judge(p) ==
  /\ At(p, "exec") /\ Fenced(p)
  /\ Kind[Node(p)] \in {"patch_guard", "command_guard", "test", "risk"}
  /\ LET c == cs[Run(p)][Task(p)].status
     IN  \E x \in Judgements(Node(p), c) \cup {<<Failure, c>>} :
           /\ cs' = [cs EXCEPT ![Run(p)][Task(p)].status = x[2]]
           /\ Return(p, x[1])
  /\ UNCHANGED <<run, node, approval, head, repo, master, ws, downs>>

-------------------------------------------------------------------------------
(* AgentTaskNodeHandler, write task: hold, begin, Agent, capture, persist *)

\* The lease and a clean workspace at the expected HEAD.  An Agent that is not available
\* blocks the node, an error before the task is created or a workspace that begin refuses
\* fails it, and an error in between, the lease refused, leaves the task running.
AgentBegin(p) ==
  /\ At(p, "exec") /\ Kind[Node(p)] = "write_task" /\ Fenced(p)
  /\ \/ /\ repo[Run(p)] = [head |-> proc[p].commit, dirty |-> FALSE]
        /\ TakeWorkspace(p, Run(p)) /\ Goto(p, "agent")
     \/ (\E x \in {Blocked, Failure, Unfinished} : Return(p, x)) /\ UNCHANGED ws
  /\ UNCHANGED <<runVars, repo, master, downs>>

\* The Agent process edits the shared repository.
AgentEdit(p) ==
  /\ At(p, "agent")
  /\ repo' = [repo EXCEPT ![Run(p)].dirty = TRUE]
  /\ Goto(p, "capture")
  /\ UNCHANGED <<runVars, master, ws, downs>>

\* capture_and_restore, under run_fenced; a restore may fail and leave edits.  The error
\* then finishes the task as failed, which may fail in turn.
AgentCapture(p) ==
  /\ At(p, "capture") /\ HoldsWorkspace(p)
  /\ \/ /\ repo' = [repo EXCEPT ![Run(p)].dirty = FALSE]
        /\ Goto(p, "persist") /\ UNCHANGED ws
     \/ /\ \E x \in {Failure, Unfinished} : Return(p, x)
        /\ ReleaseWorkspace(p, Run(p)) /\ UNCHANGED repo
  /\ UNCHANGED <<runVars, master, downs>>

\* persist_capture: the ChangeSet of a still running task, or none if the Agent
\* changed nothing, or if it failed and so did the second attempt, as abandoned.
AgentPersist(p) ==
  /\ At(p, "persist") /\ Fenced(p) /\ HoldsWorkspace(p)
  /\ LET r == Run(p)
         live == /\ ~run[r].cancel /\ run[r].status = "running"
                 /\ node[r][Node(p)].status = "running" /\ head[r] = proc[p].commit
         Capture(x) == cs' = [cs EXCEPT ![r][Task(p)] = [status |-> x, base |-> proc[p].commit]]
     IN  /\ \/ live /\ Capture("captured") /\ Return(p, Success)
            \/ /\ live /\ Capture("abandoned_partial")
               /\ \E x \in {Failure, Blocked} : Return(p, x)
            \/ \E x \in {Failure, Blocked, Unfinished} : Return(p, x) /\ UNCHANGED cs
         /\ ReleaseWorkspace(p, r)
  /\ UNCHANGED <<run, node, approval, head, repo, master, downs>>

-------------------------------------------------------------------------------
(* The approval gate *)

\* prepare_changeset: a decided approval is the result; otherwise create one.
PrepareApproval(p) ==
  /\ At(p, "exec") /\ Kind[Node(p)] = "approval" /\ Fenced(p)
  /\ LET r == Run(p)
         w == Task(p)
         a == approval[r][w]
     IN  \/ /\ a.status = "none" /\ cs[r][w].status \in {"test_passed", "pending_approval"}
            /\ ~run[r].cancel /\ run[r].status \notin RunTerminal \ {"blocked"}
            /\ approval' = [approval EXCEPT ![r][w].status = "pending"]
            /\ cs' = [cs EXCEPT ![r][w].status = "pending_approval"]
            /\ Goto(p, "wait")
         \/ /\ a.status = "approved" /\ ~a.overdue
            /\ Return(p, Outcome("approved"))
            /\ UNCHANGED <<approval, cs>>
         \/ Return(p, Failure) /\ UNCHANGED <<approval, cs>>
  /\ UNCHANGED <<run, node, head, repo, master, ws, downs>>

\* resume_after_approval_in, for the decision `approved` on gate n of r.
Resumable(r, n) ==
  \/ node[r][n].status = "waiting_approval" /\ run[r].status = "waiting_approval"
  \/ node[r][n].status = "running" /\ run[r].status = "running"

Resume(r, n, approved) ==
  IF ~approved THEN Reconcile(r, [node[r] EXCEPT ![n] = Outcome("rejected")])
  ELSE IF node[r][n].status = "waiting_approval"
       THEN /\ node' = [node EXCEPT ![r][n] = Ready]
            /\ run' = [run EXCEPT ![r].status = "running"]
       ELSE UNCHANGED <<run, node>>

\* enter_waiting_approval: an approval decided in between resumes the gate.
EnterWaiting(p) ==
  /\ At(p, "wait") /\ Fenced(p)
  /\ LET r == Run(p)
         n == Node(p)
         a == approval[r][Source[n]].status
     IN  /\ node[r][n].status = "running" /\ run[r].status = "running" /\ ~run[r].cancel
         /\ IF a \in {"approved", "rejected"}
            THEN Resume(r, n, a = "approved")
            ELSE /\ node' = [node EXCEPT ![r][n].status = "waiting_approval"]
                 /\ run' = [run EXCEPT ![r].status = "waiting_approval"]
  /\ Goto(p, "post")
  /\ UNCHANGED <<cs, approval, head, repo, master, ws, downs>>

\* The gate was rejected or cancelled before it waited: ConcurrencyConflict.
WaitConflict(p) ==
  /\ At(p, "wait") /\ Fenced(p)
  /\ \/ node[Run(p)][Node(p)].status # "running" \/ run[Run(p)].status # "running"
     \/ run[Run(p)].cancel
  /\ Exit(p)

-------------------------------------------------------------------------------
(* The API of a serving process: decide, cancel *)

Serving(p) ==
  proc[p].pc \notin {"down", "recover", "r_hold", "r_inspect", "r_clear", "r_finalize", "r_orphan"}

ApprovalNodes == {n \in Nodes : Kind[n] = "approval"}

\* A pending approval that is not overdue, of a run that is not over, is
\* decided; ChangeSet, gate and run move in the same transaction.

Decide(p, r, n, approved) ==
  /\ Serving(p) /\ Fenced(p)
  /\ approval[r][Source[n]].status = "pending" /\ ~approval[r][Source[n]].overdue
  /\ ~run[r].cancel /\ run[r].status \notin {"cancelled", "completed", "failed", "orphaned"}
  /\ cs[r][Source[n]].status = "pending_approval"
  /\ Resumable(r, n) /\ Resume(r, n, approved)
  /\ approval' = [approval EXCEPT ![r][Source[n]].status = IF approved THEN "approved" ELSE "rejected"]
  /\ cs' = [cs EXCEPT ![r][Source[n]].status = IF approved THEN "approved" ELSE "rejected"]
  /\ UNCHANGED <<head, repo, master, ws, proc, downs>>

NodesCancelled(r) ==
  [n \in Nodes |-> IF node[r][n].status \in NodeTerminal THEN node[r][n]
                   ELSE [status |-> "cancelled", outcome |-> "cancelled"]]

\* The approvals and ChangeSets of r are withdrawn.
ApprovalsInvalidated(r) ==
  [w \in Writes |-> IF approval[r][w].status = "pending"
                    THEN [approval[r][w] EXCEPT !.status = "invalidated"] ELSE approval[r][w]]

ChangeSetsCancelledAtGate(r) ==
  [w \in Writes |-> IF cs[r][w].status = "pending_approval"
                    THEN [cs[r][w] EXCEPT !.status = "cancelled"] ELSE cs[r][w]]

ChangeSetsCancelled(r) ==
  [w \in Writes |-> IF cs[r][w].status \in {"pending_approval", "approved"}
                    THEN [cs[r][w] EXCEPT !.status = "cancelled"] ELSE cs[r][w]]

\* cancel_with_cleanup: refused once the merge is finalizing.
MayCancelAlways(r) == run[r].status \notin RunTerminal
MayCancel(r) == run[r].status \notin RunTerminal /\ ~run[r].finalizing

Cancel(p, r) ==
  /\ Serving(p) /\ Fenced(p) /\ MayCancel(r)
  /\ run' = [run EXCEPT ![r].cancel = TRUE, ![r].status = "cancelled"]
  /\ node' = [node EXCEPT ![r] = NodesCancelled(r)]
  /\ approval' = [approval EXCEPT ![r] = ApprovalsInvalidated(r)]
  /\ cs' = [cs EXCEPT ![r] = ChangeSetsCancelled(r)]
  /\ UNCHANGED <<head, repo, master, ws, proc, downs>>

\* expires_at passes.
ApprovalOverdue(r, w) ==
  /\ approval[r][w].status \in {"pending", "approved"} /\ ~approval[r][w].overdue
  /\ approval' = [approval EXCEPT ![r][w].overdue = TRUE]
  /\ UNCHANGED <<run, node, cs, head, repo, master, ws, proc, downs>>

-------------------------------------------------------------------------------
(* MergePatchNodeHandler *)

\* Check the approval and take the workspace; any refusal fails the node.
MergeHold(p) ==
  /\ At(p, "exec") /\ Kind[Node(p)] = "merge"
  /\ \/ /\ MergeApproved(Run(p), Task(p))
        /\ TakeWorkspace(p, Run(p)) /\ Goto(p, "m_begin")
     \/ Return(p, Failure) /\ UNCHANGED ws
  /\ UNCHANGED <<runVars, repo, master, downs>>

\* The workspace is clean, at the commit the run expects and the ChangeSet was
\* captured on.
OnReviewedBase(p) ==
  /\ repo[Run(p)] = [head |-> proc[p].commit, dirty |-> FALSE]
  /\ ReviewedBase(Run(p), Task(p)) = proc[p].commit

\* begin_merge_finalizing: from here on cancel is refused.
MayBegin(p) ==
  /\ Fenced(p) /\ HoldsWorkspace(p)
  /\ run[Run(p)].status = "running" /\ ~run[Run(p)].cancel /\ ~run[Run(p)].finalizing
  /\ node[Run(p)][Node(p)].status = "running"

MergeBegin(p) ==
  /\ At(p, "m_begin") /\ OnReviewedBase(p) /\ MayBegin(p)
  /\ run' = [run EXCEPT ![Run(p)].finalizing = TRUE]
  /\ Goto(p, "m_apply")
  /\ UNCHANGED <<node, cs, approval, head, repo, master, ws, downs>>

\* A refusal or an error before the mark is set.
MergeRefused(p) ==
  /\ At(p, "m_begin")
  /\ Return(p, Failure) /\ ReleaseWorkspace(p, Run(p))
  /\ UNCHANGED <<runVars, repo, master, downs>>

\* The approval is checked again and the patch applied.  Git is outside the
\* database: only assert_healthy, which knows what the heartbeat saw, guards it.
MergeApply(p) ==
  /\ At(p, "m_apply")
  /\ MergeApproved(Run(p), Task(p)) /\ ~repo[Run(p)].dirty
  /\ repo' = [repo EXCEPT ![Run(p)].dirty = TRUE]
  /\ Goto(p, "m_commit")
  /\ UNCHANGED <<runVars, master, ws, downs>>

\* commit_approved_patch, on top of the ChangeSet's base.
MergeCommit(p) ==
  /\ At(p, "m_commit")
  /\ repo[Run(p)] = [head |-> ReviewedBase(Run(p), Task(p)), dirty |-> TRUE]
  /\ repo' = [repo EXCEPT ![Run(p)] = [head |-> @.head \cup {Task(p)}, dirty |-> FALSE]]
  /\ Goto(p, "m_finalize")
  /\ UNCHANGED <<runVars, master, ws, downs>>

MergeFinalize(p) ==
  /\ At(p, "m_finalize")
  /\ CanFinalize(p, Run(p), Node(p)) /\ Finalize(Run(p), Node(p))
  /\ Goto(p, "m_done")
  /\ UNCHANGED <<repo, master, ws, downs>>

\* The hold ends; complete_node then finds the node completed and accepts it.
MergeDone(p) ==
  /\ At(p, "m_done") /\ Fenced(p) /\ HoldsWorkspace(p)
  /\ ReleaseWorkspace(p, Run(p)) /\ Goto(p, "post")
  /\ UNCHANGED <<runVars, repo, master, downs>>

\* Git failed, a check failed, or finalize_merge was refused.
MergeError(p) ==
  /\ proc[p].pc \in {"m_apply", "m_commit", "m_finalize"}
  /\ Goto(p, "m_fail")
  /\ UNCHANGED <<runVars, repo, master, ws, downs>>

\* _recover_failure: restore the workspace under the fence, if nothing was
\* published.
RestoredSkipped(state) == state
Restored(state) == [state EXCEPT !.dirty = FALSE]

MergeRestore(p) ==
  /\ At(p, "m_fail") /\ HoldsWorkspace(p)
  /\ repo[Run(p)].head = proc[p].commit
  /\ repo' = [repo EXCEPT ![Run(p)] = Restored(@)]
  /\ Goto(p, "m_clear")
  /\ UNCHANGED <<runVars, master, ws, downs>>

\* The mark is cleared and the handler's error fails the node.
MergeClear(p) ==
  /\ At(p, "m_clear") /\ Fenced(p) /\ HoldsWorkspace(p)
  /\ run' = [run EXCEPT ![Run(p)].finalizing = FALSE]
  /\ Return(p, Failure) /\ ReleaseWorkspace(p, Run(p))
  /\ UNCHANGED <<node, cs, approval, head, repo, master, downs>>

\* ChangeSetReconciliationRequired: a commit is out, or the restore failed; the
\* mark stays for recovery and the server exits.
MergeAmbiguous(p) ==
  /\ proc[p].pc \in {"m_fail", "m_clear"}
  /\ Exit(p)

-------------------------------------------------------------------------------
(* Lost leases, crashes, shutdown *)

\* A fenced transaction, or a heartbeat, finds a lease gone: the server exits.
LeaseLost(p) ==
  /\ \/ /\ proc[p].pc \in {"recover", "r_clear", "r_finalize", "r_orphan", "poll", "tick",
                           "claim", "exec", "persist", "wait", "complete", "post",
                           "m_begin", "m_finalize", "m_clear", "m_done"}
        /\ ~Fenced(p)
     \/ /\ proc[p].pc \in {"capture", "persist", "m_begin", "m_apply", "m_commit",
                           "m_finalize", "m_fail", "m_clear", "m_done"}
        /\ ~HoldsWorkspace(p)
  /\ Exit(p)

\* Between two ticks the server may be asked to stop; it waits for its tasks.
Stop(p) ==
  /\ At(p, "poll") /\ downs < MaxDowns
  /\ downs' = downs + 1
  /\ Leave(p)

\* The process dies anywhere; its leases stay until they expire.
Crash(p) ==
  /\ ~At(p, "down") /\ downs < MaxDowns
  /\ downs' = downs + 1
  /\ proc' = [proc EXCEPT ![p] = Idle]
  /\ master' = IF master = p THEN "dead" ELSE master
  /\ ws' = [r \in Runs |-> IF ws[r] = p THEN "dead" ELSE ws[r]]
  /\ UNCHANGED <<runVars, repo>>

\* A live owner renews its lease, unless it is suspended for longer than a TTL.
MayExpire(h) == h = "dead" \/ (Stalls /\ h # "none")

MasterExpire ==
  /\ MayExpire(master)
  /\ master' = "none"
  /\ UNCHANGED <<runVars, repo, ws, proc, downs>>

WorkspaceExpire(r) ==
  /\ MayExpire(ws[r])
  /\ ws' = [ws EXCEPT ![r] = "none"]
  /\ UNCHANGED <<runVars, repo, master, proc, downs>>

-------------------------------------------------------------------------------

Recovering(p) ==
  \/ RecoverNext(p) \/ RecoverDone(p) \/ RecoverHold(p) \/ RecoverInspect(p)
  \/ RecoverClear(p) \/ RecoverFinalize(p) \/ RecoverOrphan(p)

Scheduling(p) ==
  \/ Poll(p) \/ StartAndReconcile(p) \/ ClaimNext(p) \/ CompleteNode(p)
  \/ CompletionRefused(p) \/ CompletionConflict(p) \/ Handle(p) \/ Judge(p)
  \/ AgentBegin(p) \/ AgentEdit(p)
  \/ AgentCapture(p) \/ AgentPersist(p) \/ PrepareApproval(p) \/ EnterWaiting(p)
  \/ WaitConflict(p)

Merging(p) ==
  \/ MergeHold(p) \/ MergeBegin(p) \/ MergeRefused(p) \/ MergeApply(p) \/ MergeCommit(p)
  \/ MergeFinalize(p) \/ MergeDone(p) \/ MergeError(p) \/ MergeRestore(p)
  \/ MergeClear(p) \/ MergeAmbiguous(p)

\* What a running server does by itself.
Work(p) == Recovering(p) \/ Scheduling(p) \/ Merging(p) \/ LeaseLost(p)

Next ==
  \/ \E p \in Procs : Start(p) \/ Work(p) \/ Stop(p) \/ Crash(p)
  \/ \E p \in Procs, r \in Runs :
       Cancel(p, r) \/ \E n \in ApprovalNodes, approved \in BOOLEAN : Decide(p, r, n, approved)
  \/ \E r \in Runs, w \in Writes : ApprovalOverdue(r, w)
  \/ MasterExpire \/ \E r \in Runs : WorkspaceExpire(r)

Spec == Init /\ [][Next]_vars

\* A running server keeps working and time passes; nobody has to start one,
\* decide an approval or cancel a run.
Fairness ==
  /\ \A p \in Procs : WF_vars(Work(p))
  /\ WF_vars(MasterExpire)
  /\ \A r \in Runs : WF_vars(WorkspaceExpire(r))
  /\ \A r \in Runs, w \in Writes : WF_vars(ApprovalOverdue(r, w))

FairSpec == Spec /\ Fairness

\* Besides, the operator starts a server again when none holds the lease.
RestartSpec == FairSpec /\ WF_vars(\E p \in Procs : Start(p))

-------------------------------------------------------------------------------
(* Safety *)

Started == NodeStatuses \ {"pending", "skipped", "cancelled"}

\* A branch is taken or dropped for good reasons, whatever was cancelled, decided
\* or recovered meanwhile: a started node has all upstream nodes over and the
\* condition of an incoming edge met, a skipped one has them over and none met
\* (_reconcile_in, claim_next).
BranchesSound ==
  \A r \in Runs, n \in Nodes :
    LET over == \A e \in In(n) : node[r][e.from].status \in NodeTerminal
    IN  /\ node[r][n].status \in Started /\ Kind[n] # "input" => over /\ Enabled(n, node[r])
        /\ node[r][n].status = "skipped" => over /\ ~Enabled(n, node[r])

\* A run that is over, other than an orphaned one, has no node left that could
\* still run: reconciliation, cancellation and late results leave none behind.
FinishedRunsQuiet ==
  \A r \in Runs : run[r].status \in RunTerminal \ {"orphaned"} => AllTerminal(node[r])

\* A ChangeSet is in the repository only if a user approved it, and a
\* cancellation never overtakes its merge: the finalizing mark orders them, so a
\* cancelled run has no unfinalized commit (begin_merge_finalizing, cancel).
CommitOnlyApproved ==
  \A r \in Runs : \A w \in repo[r].head :
    /\ approval[r][w].status = "approved"
    /\ cs[r][w].status \in {"approved", "merged"}
    /\ run[r].status = "cancelled" => cs[r][w].status = "merged"

\* The database and Git disagree about HEAD only under the finalizing mark, so
\* recovery always knows where to look.
HeadsAgree ==
  \A r \in Runs : repo[r].head # head[r] => run[r].finalizing

\* Uncommitted changes in the session's repository always belong to somebody: to a merge
\* under its mark, or to a write task that is running or ended without success.  A write
\* task that completed or was blocked, and a merge that was published or given up with its
\* mark cleared, leave none behind.  After a failed restore the dirt stays
\* for the rest of the run: the guards and tests of other branches, which work on clones of
\* the commit, go on beside it, while the next Agent and the next merge refuse it.
DirtyAccountedFor ==
  \A r \in Runs : repo[r].dirty =>
    \/ run[r].finalizing
    \/ \E n \in Nodes : /\ Kind[n] = "write_task"
                        /\ node[r][n].status \in {"running", "orphaned", "failed", "cancelled"}

\* One transaction moves the run, its gate, the approval and the ChangeSet, so
\* they never tell different stories.
RecordsAgree ==
  \A r \in Runs :
    /\ \A w \in Writes :
         /\ cs[r][w].status = "merged" <=> w \in head[r]
         /\ approval[r][w].status = "pending" =>
              cs[r][w].status = "pending_approval" /\ ~run[r].cancel
         /\ cs[r][w].status \in {"pending_approval", "approved"} => run[r].status # "cancelled"
    /\ run[r].status = "waiting_approval" =>
         \E n \in ApprovalNodes : /\ node[r][n].status = "waiting_approval"
                                  /\ approval[r][Source[n]].status = "pending"

Executing(p) ==
  proc[p].pc \in {"exec", "agent", "capture", "persist", "wait", "m_begin", "m_apply", "m_commit",
                  "m_finalize", "m_fail", "m_clear", "m_done", "complete"}

\* No node is executed twice, not even when a process that lost its leases has
\* not noticed yet: what the new Master executes, the old one does not.
ExclusiveExecution ==
  \A p, q \in Procs :
    p # q /\ Executing(p) /\ Executing(q) => Run(p) # Run(q) \/ Node(p) # Node(q)

-------------------------------------------------------------------------------
(* Action properties *)

\* Results are final: no late handler result, decision, cancellation or recovery
\* changes the status of a terminal run, a node of it, or a terminal node.
ResultsFinal ==
  [][\A r \in Runs :
       /\ run[r].status \in RunTerminal => run'[r].status = run[r].status /\ node'[r] = node[r]
       /\ \A n \in Nodes : node[r][n].status \in NodeTerminal => node'[r][n] = node[r][n]]_vars

\* No lost update: every commit that becomes the session's integration HEAD puts
\* one ChangeSet on top of the very commit it was captured, tested and approved
\* on, so a merge never drops or silently combines another one.
PublishedOnReviewedBase ==
  [][\A r \in Runs : head'[r] # head[r] =>
       \E w \in Writes \ head[r] :
         /\ head'[r] = head[r] \cup {w} /\ repo[r].head = head'[r]
         /\ cs[r][w].base = head[r]]_vars

-------------------------------------------------------------------------------
(* Liveness *)

\* Two nodes the code is known to leave running without an executor while it
\* serves: a gate approved before it waited, and a merge that recovery found
\* unpublished.  WorkflowRunClaims shows what the plan says of them.
Stranded(r) ==
  /\ \E p \in Procs : Serving(p)
  /\ \E n \in Nodes : /\ Kind[n] \in {"approval", "merge"} /\ node[r][n].status = "running"
                      /\ \A p \in Procs : ~Executing(p) \/ Run(p) # r \/ Node(p) # n

\* A run never stays running for ever: it waits for a user or is over some day,
\* through crashes, stops, restarts and lost leases, or it is stranded.
RunSettles ==
  \A r \in Runs : run[r].status = "running" ~> run[r].status # "running" \/ Stranded(r)

\* A merge that was interrupted anywhere is eventually resolved or quarantined:
\* the finalizing mark does not outlive the next recovery of a live run.
MergeResolved ==
  \A r \in Runs : run[r].finalizing ~> ~run[r].finalizing \/ run[r].status = "orphaned"

\* Every queued run gets its turn although the poll loop always takes the oldest run first:
\* only an older one that stays stranded for ever holds the scheduler for ever, since it is
\* neither executed nor over (next_schedulable_run_id).
PendingRunStarts ==
  \A r \in Runs :
    \/ run[r].status = "pending" ~> run[r].status # "pending"
    \/ \E q \in Runs : q < r /\ <>[]Stranded(q)

===============================================================================
