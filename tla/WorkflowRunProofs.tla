--------------------------- MODULE WorkflowRunProofs ---------------------------
(***************************************************************************)
(* Proofs about WorkflowRun, for every compiled graph, every number of runs *)
(* and processes, any number of crashes, and leases that may expire under   *)
(* their owner.  Part one is about types and nodes: what a step may do to   *)
(* a run (RunStep), and which branches are taken.  Part two is about the    *)
(* records: who executes what, and the database against the repository.     *)
(*                                                                         *)
(* The ChangeSets, approvals and integration HEAD of a run change in a few  *)
(* ways only (RecordStep).  Why a merge publishes exactly one ChangeSet on  *)
(* the current HEAD is what its process knows since it claimed the node:    *)
(* every write is fenced, and a process never gets the Master lease back    *)
(* without starting again, so nobody else wrote meanwhile.  So RecordsAgree *)
(* holds even where leases expire under their owner.  ExclusiveExecution    *)
(* does too: the node a process carries was claimed, and a claimed node is  *)
(* never claimable again while it is carried.                               *)
(*                                                                         *)
(* Git is outside the fence.  What is said of it (HeadsAgree,               *)
(* CommitOnlyApproved, DirtyAccountedFor, PublishedOnReviewedBase) needs    *)
(* ~Stalls: then one process at a time acts at all (Sole), and what it saw  *)
(* of the repository is still true when it uses it (Sees).                  *)
(***************************************************************************)
EXTENDS WorkflowRun, FiniteSetTheorems, TLAPS

\* The nodes a handler's labels are about.
Suits(l, n) ==
  /\ l \in {"exec", "complete"} => n \in Nodes
  /\ l \in {"agent", "capture", "persist"} => n \in Nodes /\ Kind[n] = "write_task"
  /\ l = "wait" => n \in Nodes /\ Kind[n] = "approval"
  /\ l \in {"m_begin", "m_apply", "m_commit", "m_finalize", "m_fail", "m_clear", "m_done",
            "r_clear", "r_finalize"} => n \in Nodes /\ Kind[n] = "merge"

\* A node that nobody has claimed yet.
Unstarted(x) == x.status \in {"pending", "ready"}

\* Types of the processes, of the database, and of the rest.
ProcOK == proc \in [Procs -> ProcState] /\ \A p \in Procs : Suits(proc[p].pc, proc[p].node)
DataOK ==
  /\ run \in [Runs -> RunState]
  /\ node \in [Runs -> [Nodes -> NodeState]]
  /\ cs \in [Runs -> [Writes -> ChangeSetState]]
  /\ approval \in [Runs -> [Writes -> ApprovalState]]
  /\ head \in [Runs -> Commits]
RestOK ==
  /\ repo \in [Runs -> RepoState]
  /\ master \in Holders
  /\ ws \in [Runs -> Holders]
  /\ downs \in 0 .. MaxDowns

TypeInv == ProcOK /\ DataOK /\ RestOK

-------------------------------------------------------------------------------
(* The operators of RunGraph *)

\* A node that touches a ChangeSet knows its write task.
LEMMA ChainSource ==
  ASSUME NEW n \in Nodes, Kind[n] \in ChainKinds
  PROVE Source[n] \in Writes
BY SourceAssumption DEF Writes

\* A set of numbers has a least one: the induction principle used below.
LEMMA LeastNumber ==
  ASSUME NEW T \in SUBSET Nat, T # {}
  PROVE \E m \in T : \A k \in T : m <= k
<1> DEFINE R == {ss \in Nat \X Nat : ss[1] < ss[2]}
<1>1. IsWellFoundedOn(R, Nat) BY NatLessThanWellFounded DEF OpToRel
<1>2. \A k, m \in T : <<k, m>> \notin R => m <= k OBVIOUS
<1> HIDE DEF R
<1>3. \E m \in T : \A k \in T : ~(<<k, m>> \in R) BY <1>1, WFMin
<1> QED BY <1>2, <1>3

\* Every node has one place in Order, after those of its upstream nodes.
LEMMA OrderFacts ==
  /\ Cardinality(Nodes) \in Nat
  /\ \A i, j \in 1 .. Cardinality(Nodes) : Order[i] = Order[j] => i = j
  /\ \A n \in Nodes : \E i \in 1 .. Cardinality(Nodes) : Order[i] = n
  /\ \A e \in Edges : \E i, j \in 1 .. Cardinality(Nodes) :
       i < j /\ Order[i] = e.from /\ Order[j] = e.to
<1> DEFINE N == Cardinality(Nodes)
<1>1. N \in Nat BY GraphAssumption, FS_CardinalityType
<1> HIDE DEF N
<1>2. Order \in [1 .. N -> Nodes] /\ DOMAIN Order = 1 .. N BY GraphAssumption DEF N
<1>3. Order \in Surjection(1 .. N, Nodes) BY <1>2, OrderAssumption DEF Surjection
<1>4. IsFiniteSet(1 .. N) /\ Cardinality(1 .. N) = N BY <1>1, FS_Interval
<1>5. Order \in Injection(1 .. N, Nodes)
  BY <1>3, <1>4, FS_SurjSameCardinalityImpliesInj DEF N
<1>6. \A i, j \in 1 .. N : Order[i] = Order[j] => i = j
  BY <1>2, <1>5 DEF Injection, IsInjective
<1> QED BY <1>1, <1>2, <1>6, OrderAssumption DEF N

\* One round of the sweep: whether n is skipped when f says which others are.
Drops(st, f, n) ==
  /\ st[n].status = "pending" /\ Kind[n] # "input"
  /\ \A e \in In(n) : st[e.from].status \in NodeTerminal \/ f[e.from]
  /\ ~Enabled(n, st)

\* The sweep has a result, built along the topological order.
LEMMA SweepEnds ==
  ASSUME NEW st
  PROVE \E f \in [Nodes -> BOOLEAN] : f = [n \in Nodes |-> Drops(st, f, n)]
<1> DEFINE N == Cardinality(Nodes)
           Upto(f, k) == \A i \in 1 .. k : f[Order[i]] <=> Drops(st, f, Order[i])
           T == {k \in 0 .. N : ~\E f \in [Nodes -> BOOLEAN] : Upto(f, k)}
<1>0. /\ N \in Nat
      /\ \A i, j \in 1 .. N : Order[i] = Order[j] => i = j
      /\ \A n \in Nodes : \E i \in 1 .. N : Order[i] = n
      /\ \A e \in Edges : \E i, j \in 1 .. N : i < j /\ Order[i] = e.from /\ Order[j] = e.to
      /\ \A i \in 1 .. N : Order[i] \in Nodes
  BY OrderFacts, GraphAssumption
<1> HIDE DEF N
<1>1. \A f, n : Drops(st, f, n) \in BOOLEAN BY DEF Drops
<1>2. ASSUME NEW k \in 1 .. N, NEW f \in [Nodes -> BOOLEAN], Upto(f, k - 1)
      PROVE \E g \in [Nodes -> BOOLEAN] : Upto(g, k)
  <2> DEFINE g == [f EXCEPT ![Order[k]] = Drops(st, f, Order[k])]
  <2>1. g \in [Nodes -> BOOLEAN] BY <1>0, <1>1
  <2>2. /\ g[Order[k]] = Drops(st, f, Order[k])
        /\ \A n \in Nodes : n # Order[k] => g[n] = f[n]
    BY <1>0
  <2> HIDE DEF g
  <2>3. ASSUME NEW i \in 1 .. k PROVE Drops(st, g, Order[i]) <=> Drops(st, f, Order[i])
    <3>1. ASSUME NEW e \in In(Order[i]) PROVE g[e.from] = f[e.from]
      <4>1. PICK a, b \in 1 .. N : a < b /\ Order[a] = e.from /\ Order[b] = Order[i]
        BY <1>0, <3>1 DEF In
      <4>2. b = i /\ i \in 1 .. N /\ k \in 1 .. N BY <1>0, <4>1
      <4>3. a # k BY <4>1, <4>2
      <4>4. e.from # Order[k] BY <1>0, <4>1, <4>2, <4>3
      <4> QED BY <1>0, <2>2, <4>1, <4>4
    <3> QED BY <3>1 DEF Drops
  <2>4. ASSUME NEW i \in 1 .. k PROVE g[Order[i]] <=> Drops(st, g, Order[i])
    <3>1. CASE i = k BY <2>2, <2>3, <3>1
    <3>2. CASE i # k
      <4>1. i \in 1 .. k - 1 /\ i \in 1 .. N BY <1>0, <3>2
      <4>2. Order[i] # Order[k] /\ Order[i] \in Nodes BY <1>0, <3>2, <4>1
      <4>3. f[Order[i]] <=> Drops(st, f, Order[i]) BY <1>2, <4>1
      <4> QED BY <2>2, <2>3, <4>2, <4>3
    <3> QED BY <3>1, <3>2
  <2> QED BY <2>1, <2>4
<1>3. ASSUME T # {} PROVE FALSE
  <2>1. T \in SUBSET Nat BY <1>0
  <2>2. PICK m \in T : \A k \in T : m <= k
    <3> HIDE DEF T
    <3> QED BY <1>3, <2>1, LeastNumber
  <2>3. m # 0
    <3>1. [n \in Nodes |-> TRUE] \in [Nodes -> BOOLEAN] /\ Upto([n \in Nodes |-> TRUE], 0) OBVIOUS
    <3> HIDE DEF Upto
    <3> QED BY <3>1
  <2>4. m \in 1 .. N /\ m - 1 \in 0 .. N /\ ~(m <= m - 1) BY <1>0, <2>2, <2>3
  <2>5. \E f \in [Nodes -> BOOLEAN] : Upto(f, m - 1) BY <2>2, <2>4
  <2> HIDE DEF Upto
  <2> QED BY <1>2, <2>2, <2>4, <2>5
<1>4. N \in 0 .. N BY <1>0
<1>5. PICK f \in [Nodes -> BOOLEAN] : Upto(f, N)
  <2> HIDE DEF Upto
  <2> QED BY <1>3, <1>4
<1>6. \A n \in Nodes : f[n] = Drops(st, f, n)
  <2> SUFFICES ASSUME NEW n \in Nodes PROVE f[n] <=> Drops(st, f, n)
    BY <1>1
  <2>1. PICK i \in 1 .. N : Order[i] = n BY <1>0
  <2> QED BY <1>5, <2>1
<1>7. f = [n \in Nodes |-> Drops(st, f, n)] BY <1>6
<1> QED BY <1>7

\* So Dropped satisfies its equation.
LEMMA DroppedFacts ==
  ASSUME NEW st, NEW n \in Nodes
  PROVE /\ Dropped(st)[n] \in BOOLEAN
        /\ Dropped(st)[n] <=> Drops(st, Dropped(st), n)
<1>1. PICK f \in [Nodes -> BOOLEAN] : f = [m \in Nodes |-> Drops(st, f, m)] BY SweepEnds
<1>2. Dropped(st) = CHOOSE g : g = [m \in Nodes |-> Drops(st, g, m)] BY DEF Dropped, Drops
<1>3. Dropped(st) = [m \in Nodes |-> Drops(st, Dropped(st), m)] BY <1>1, <1>2
<1>4. Drops(st, Dropped(st), n) \in BOOLEAN BY DEF Drops
<1> QED BY <1>3, <1>4

\* Reconciliation moves pending nodes only, and keeps a state a state.
LEMMA ReconciledFrame ==
  ASSUME NEW st \in [Nodes -> NodeState]
  PROVE /\ AfterSkips(st) \in [Nodes -> NodeState]
        /\ Reconciled(st) \in [Nodes -> NodeState]
        /\ \A n \in Nodes : st[n].status # "pending" => Reconciled(st)[n] = st[n]
<1> DEFINE mid == AfterSkips(st)
<1>1. \A n \in Nodes : mid[n] = st[n] \/ (st[n].status = "pending" /\ mid[n] = Skipped)
  BY DroppedFacts DEF AfterSkips, Drops
<1>2. Skipped \in NodeState /\ Ready \in NodeState
  BY DEF Skipped, Ready, NodeState, NodeStatuses, Outcomes
<1>3. mid \in [Nodes -> NodeState]
  BY <1>1, <1>2 DEF AfterSkips
<1> HIDE DEF mid
<1>4. /\ AfterReadies(mid) \in [Nodes -> NodeState]
      /\ \A n \in Nodes : mid[n].status # "pending" => AfterReadies(mid)[n] = mid[n]
  BY <1>2, <1>3 DEF AfterReadies
<1> QED
  BY <1>1, <1>3, <1>4 DEF Reconciled, mid

\* A run is over only when all its nodes are.
LEMMA VerdictOfTerminal ==
  ASSUME NEW st
  PROVE /\ RunVerdict(st) \in {"running", "completed", "blocked", "failed"}
        /\ RunVerdict(st) # "running" => AllTerminal(st)
BY DEF RunVerdict

\* Members of the types, as the actions write them.
LEMMA LabelFacts ==
  /\ "down" \in Labels /\ "recover" \in Labels /\ "r_hold" \in Labels
  /\ "r_inspect" \in Labels /\ "r_clear" \in Labels /\ "r_finalize" \in Labels
  /\ "r_orphan" \in Labels /\ "poll" \in Labels /\ "tick" \in Labels
  /\ "claim" \in Labels /\ "exec" \in Labels /\ "agent" \in Labels
  /\ "capture" \in Labels /\ "persist" \in Labels /\ "wait" \in Labels
  /\ "m_begin" \in Labels /\ "m_apply" \in Labels /\ "m_commit" \in Labels
  /\ "m_finalize" \in Labels /\ "m_fail" \in Labels /\ "m_clear" \in Labels
  /\ "m_done" \in Labels /\ "complete" \in Labels /\ "post" \in Labels
BY DEF Labels

\* Run statuses the transactions set.
LEMMA RunStatusFacts ==
  /\ "running" \in RunStatuses /\ "waiting_approval" \in RunStatuses /\ "blocked" \in RunStatuses
  /\ "failed" \in RunStatuses /\ "completed" \in RunStatuses /\ "cancelled" \in RunStatuses
  /\ "orphaned" \in RunStatuses
BY DEF RunStatuses

\* Results of handlers, and the other states a node is given.
LEMMA ResultFacts ==
  /\ Success \in HandlerResults /\ Failure \in HandlerResults /\ Blocked \in HandlerResults
  /\ Unfinished \in HandlerResults
  /\ HandlerResults \subseteq NodeState
  /\ \A x \in HandlerResults : ~Unstarted(x) /\ x.status \notin {"waiting_approval", "skipped"}
  /\ Ready \in NodeState /\ [status |-> "cancelled", outcome |-> "cancelled"] \in NodeState
  /\ \A o \in Outcomes : Outcome(o) \in HandlerResults
  /\ \A x \in NodeState, s \in NodeStatuses : [x EXCEPT !.status = s] \in NodeState
  /\ "running" \in NodeStatuses /\ "waiting_approval" \in NodeStatuses
BY DEF Success, Failure, Blocked, Unfinished, Ready, Outcome, Unstarted, HandlerResults, NodeState, NodeStatuses,
   Outcomes

\* A process that is down.
LEMMA IdleType == Idle \in ProcState
BY RunAssumption, ResultFacts, LabelFacts DEF Idle, ProcState, Commits, Runs

-------------------------------------------------------------------------------
(* What the parts of the actions do to the types *)

\* A process may take any state that suits its node.
LEMMA ProcUpdate ==
  ASSUME ProcOK, NEW p \in Procs, NEW x \in ProcState, Suits(x.pc, x.node),
         proc' = [proc EXCEPT ![p] = x]
  PROVE ProcOK'
BY DEF ProcOK

\* The next label of a handler.
LEMMA GotoOK ==
  ASSUME ProcOK, NEW p \in Procs, NEW l \in Labels, Suits(l, Node(p)), Goto(p, l)
  PROVE ProcOK'
<1> DEFINE x == [proc[p] EXCEPT !.pc = l]
<1>1. x \in ProcState /\ x.pc = l /\ x.node = Node(p) BY DEF ProcOK, ProcState, Node
<1>2. proc' = [proc EXCEPT ![p] = x] BY DEF Goto
<1> QED BY <1>1, <1>2, ProcUpdate

\* The end of a handler.
LEMMA ReturnOK ==
  ASSUME ProcOK, NEW p \in Procs, NEW v \in HandlerResults, Node(p) \in Nodes, Return(p, v)
  PROVE ProcOK'
<1> DEFINE x == [proc[p] EXCEPT !.pc = "complete", !.res = v]
<1>1. x \in ProcState /\ x.pc = "complete" /\ x.node = Node(p)
  BY LabelFacts DEF ProcOK, ProcState, Node
<1>2. proc' = [proc EXCEPT ![p] = x] BY DEF Return
<1>3. Suits(x.pc, x.node) BY <1>1 DEF Suits
<1> QED BY <1>1, <1>2, <1>3, ProcUpdate

\* The end of a tick.
LEMMA RestingOK ==
  ASSUME ProcOK, NEW p \in Procs, Rest(p) PROVE ProcOK'
<1> DEFINE x == [Idle EXCEPT !.pc = "poll"]
<1>1. x \in ProcState /\ x.pc = "poll" BY IdleType, LabelFacts DEF ProcState
<1>2. proc' = [proc EXCEPT ![p] = x] BY DEF Rest
<1>3. Suits(x.pc, x.node) BY <1>1 DEF Suits
<1> QED BY <1>1, <1>2, <1>3, ProcUpdate

\* The end of a process.
LEMMA IdleOK ==
  ASSUME ProcOK, NEW p \in Procs, proc' = [proc EXCEPT ![p] = Idle] PROVE ProcOK'
<1>1. Suits(Idle.pc, Idle.node) BY DEF Suits, Idle
<1> QED BY <1>1, IdleType, ProcUpdate

\* The end of the recovery of a run.
LEMMA RecoveredOK ==
  ASSUME ProcOK, NEW p \in Procs, RecoveredRun(p) PROVE ProcOK'
<1> DEFINE x == [Idle EXCEPT !.pc = "recover", !.todo = proc[p].todo \ {Run(p)}]
<1>1. x \in ProcState /\ x.pc = "recover"
  BY IdleType, LabelFacts DEF ProcOK, ProcState
<1>2. proc' = [proc EXCEPT ![p] = x] BY DEF RecoveredRun
<1>3. Suits(x.pc, x.node) BY <1>1 DEF Suits
<1> QED BY <1>1, <1>2, <1>3, ProcUpdate

\* LockManager.hold takes and gives back the workspace.
LEMMA WorkspaceOK ==
  ASSUME RestOK, NEW p \in Procs, NEW r \in Runs, TakeWorkspace(p, r) \/ ReleaseWorkspace(p, r)
  PROVE ws' \in [Runs -> Holders]
BY DEF RestOK, TakeWorkspace, ReleaseWorkspace, Holders

\* A server that exits.
LEMMA LeaveOK ==
  ASSUME TypeInv, NEW p \in Procs, Leave(p)
  PROVE ProcOK' /\ DataOK' /\ (downs' \in 0 .. MaxDowns => RestOK')
<1>1. ProcOK' BY IdleOK DEF Leave, TypeInv
<1>2. DataOK' BY DEF Leave, TypeInv, DataOK, runVars
<1>3. repo' \in [Runs -> RepoState] /\ master' \in Holders /\ ws' \in [Runs -> Holders]
  BY DEF Leave, TypeInv, RestOK, Holders
<1> QED BY <1>1, <1>2, <1>3 DEF RestOK

\* Columns of workflow_runs.
LEMMA RunUpdate ==
  ASSUME DataOK, NEW r \in Runs
  PROVE /\ \A s \in RunStatuses : [run EXCEPT ![r].status = s] \in [Runs -> RunState]
        /\ \A b \in BOOLEAN : [run EXCEPT ![r].finalizing = b] \in [Runs -> RunState]
        /\ \A s \in RunStatuses, b \in BOOLEAN :
             [run EXCEPT ![r].status = s, ![r].finalizing = b] \in [Runs -> RunState]
        /\ \A s \in RunStatuses, b \in BOOLEAN :
             [run EXCEPT ![r].cancel = b, ![r].status = s] \in [Runs -> RunState]
BY DEF DataOK, RunState

\* Columns of change_sets.
LEMMA ChangeSetUpdate ==
  ASSUME DataOK, NEW r \in Runs, NEW w \in Writes
  PROVE /\ \A s \in CsStatuses : [cs EXCEPT ![r][w].status = s] \in [Runs -> [Writes -> ChangeSetState]]
        /\ \A s \in CsStatuses, b \in Commits :
             [cs EXCEPT ![r][w] = [status |-> s, base |-> b]] \in [Runs -> [Writes -> ChangeSetState]]
<1>1. \A x \in ChangeSetState, s \in CsStatuses : [x EXCEPT !.status = s] \in ChangeSetState
  BY DEF ChangeSetState
<1>2. \A s \in CsStatuses, b \in Commits : [status |-> s, base |-> b] \in ChangeSetState
  BY DEF ChangeSetState
<1>3. \A x \in ChangeSetState : [cs EXCEPT ![r][w] = x] \in [Runs -> [Writes -> ChangeSetState]]
  BY DEF DataOK
<1>4. cs[r][w] \in ChangeSetState BY DEF DataOK
<1>5. \A s \in CsStatuses :
        [cs EXCEPT ![r][w].status = s] = [cs EXCEPT ![r][w] = [cs[r][w] EXCEPT !.status = s]]
  OBVIOUS
<1> QED BY <1>1, <1>2, <1>3, <1>4, <1>5

\* Columns of approvals.
LEMMA ApprovalUpdate ==
  ASSUME DataOK, NEW r \in Runs, NEW w \in Writes
  PROVE /\ \A s \in ApprovalStatuses :
             [approval EXCEPT ![r][w].status = s] \in [Runs -> [Writes -> ApprovalState]]
        /\ [approval EXCEPT ![r][w].overdue = TRUE] \in [Runs -> [Writes -> ApprovalState]]
<1>1. \A x \in ApprovalState : /\ \A s \in ApprovalStatuses : [x EXCEPT !.status = s] \in ApprovalState
                               /\ [x EXCEPT !.overdue = TRUE] \in ApprovalState
  BY DEF ApprovalState
<1>2. \A x \in ApprovalState : [approval EXCEPT ![r][w] = x] \in [Runs -> [Writes -> ApprovalState]]
  BY DEF DataOK
<1>3. approval[r][w] \in ApprovalState BY DEF DataOK
<1>4. /\ \A s \in ApprovalStatuses :
           [approval EXCEPT ![r][w].status = s]
             = [approval EXCEPT ![r][w] = [approval[r][w] EXCEPT !.status = s]]
      /\ [approval EXCEPT ![r][w].overdue = TRUE]
           = [approval EXCEPT ![r][w] = [approval[r][w] EXCEPT !.overdue = TRUE]]
  OBVIOUS
<1> QED BY <1>1, <1>2, <1>3, <1>4

\* The verdict is a run status.
LEMMA VerdictType ==
  ASSUME NEW st PROVE RunVerdict(st) \in RunStatuses
BY VerdictOfTerminal, RunStatusFacts

\* _reconcile_in keeps the tables typed.
LEMMA ReconcileOK ==
  ASSUME DataOK, NEW r \in Runs, NEW st \in [Nodes -> NodeState], Reconcile(r, st)
  PROVE run' \in [Runs -> RunState] /\ node' \in [Runs -> [Nodes -> NodeState]]
<1>1. run' \in [Runs -> RunState] BY RunUpdate, VerdictType DEF Reconcile
<1>2. node' \in [Runs -> [Nodes -> NodeState]] BY ReconciledFrame DEF Reconcile, DataOK
<1> QED BY <1>1, <1>2

\* So does resume_after_approval_in.
LEMMA ResumeOK ==
  ASSUME DataOK, NEW r \in Runs, NEW n \in Nodes, NEW b \in BOOLEAN, Resume(r, n, b)
  PROVE run' \in [Runs -> RunState] /\ node' \in [Runs -> [Nodes -> NodeState]]
<1>1. Outcome("rejected") \in HandlerResults BY ResultFacts DEF Outcomes
<1>2. [node[r] EXCEPT ![n] = Outcome("rejected")] \in [Nodes -> NodeState]
  BY <1>1, ResultFacts DEF DataOK
<1>3. CASE ~b BY <1>2, <1>3, ReconcileOK DEF Resume
<1>4. CASE b
  <2>1. CASE UNCHANGED <<run, node>> BY <2>1 DEF DataOK
  <2>2. CASE /\ node' = [node EXCEPT ![r][n] = Ready]
             /\ run' = [run EXCEPT ![r].status = "running"]
    <3>1. run' \in [Runs -> RunState] BY <2>2, RunUpdate, RunStatusFacts
    <3>2. node' \in [Runs -> [Nodes -> NodeState]] BY <2>2, ResultFacts DEF DataOK
    <3> QED BY <3>1, <3>2
  <2> QED BY <1>4, <2>1, <2>2 DEF Resume
<1> QED BY <1>3, <1>4

\* So does mark_orphaned.
LEMMA OrphanedOK ==
  ASSUME DataOK, NEW r \in Runs, MarkOrphaned(r) PROVE DataOK'
<1>1. run' \in [Runs -> RunState]
  BY RunUpdate, RunStatusFacts DEF MarkOrphaned, DataOK
<1>2. "orphaned" \in NodeStatuses BY DEF NodeStatuses
<1>3. NodesOrphaned(r) \in [Nodes -> NodeState]
  BY <1>2, ResultFacts DEF NodesOrphaned, DataOK
<1>4. node' \in [Runs -> [Nodes -> NodeState]] BY <1>3 DEF MarkOrphaned, DataOK
<1> QED BY <1>1, <1>4 DEF MarkOrphaned, DataOK

\* So does finalize_merge.
LEMMA FinalizeOK ==
  ASSUME DataOK, NEW r \in Runs, NEW n \in Nodes, Source[n] \in Writes, Finalize(r, n)
  PROVE DataOK'
<1> DEFINE st == [node[r] EXCEPT ![n] = Success]
<1>1. st \in [Nodes -> NodeState] BY ResultFacts DEF DataOK
<1>2. Reconciled(st) \in [Nodes -> NodeState] BY <1>1, ReconciledFrame
<1>3. node' \in [Runs -> [Nodes -> NodeState]] BY <1>2 DEF Finalize, DataOK
<1>4. run' \in [Runs -> RunState] BY RunUpdate, VerdictType DEF Finalize
<1>5. head' \in [Runs -> Commits]
  BY DEF Finalize, Published, ReviewedBase, DataOK, ChangeSetState, Commits
<1>6. cs' \in [Runs -> [Writes -> ChangeSetState]]
  <2>1. "merged" \in CsStatuses BY DEF CsStatuses
  <2> QED BY <2>1, ChangeSetUpdate DEF Finalize, Published
<1> QED BY <1>3, <1>4, <1>5, <1>6 DEF Finalize, DataOK

\* What a process works on.
LEMMA LocalFacts ==
  ASSUME ProcOK, NEW p \in Procs
  PROVE /\ Run(p) \in Runs /\ proc[p].commit \in Commits /\ proc[p].res \in HandlerResults
        /\ proc[p].todo \subseteq Runs /\ proc[p] \in ProcState
        /\ proc[p].pc \in {"exec", "complete"} => Node(p) \in Nodes
        /\ proc[p].pc \in {"agent", "capture", "persist"} =>
             Node(p) \in Nodes /\ Kind[Node(p)] = "write_task" /\ Task(p) \in Writes
        /\ proc[p].pc = "wait" => Node(p) \in Nodes /\ Kind[Node(p)] = "approval" /\ Task(p) \in Writes
        /\ proc[p].pc \in {"m_begin", "m_apply", "m_commit", "m_finalize", "m_fail", "m_clear",
                           "m_done", "r_clear", "r_finalize"} =>
             Node(p) \in Nodes /\ Kind[Node(p)] = "merge" /\ Task(p) \in Writes
<1>1. proc[p] \in ProcState /\ Suits(proc[p].pc, proc[p].node) BY DEF ProcOK
<1>2. \A n \in Nodes : Kind[n] \in {"write_task", "approval", "merge"} => Source[n] \in Writes
  BY ChainSource DEF ChainKinds
<1>3. /\ proc[p].run \in Runs /\ proc[p].commit \in Commits /\ proc[p].res \in HandlerResults
      /\ proc[p].todo \subseteq Runs
  BY <1>1 DEF ProcState
<1> QED BY <1>1, <1>2, <1>3 DEF Run, Node, Task, Suits

-------------------------------------------------------------------------------
(* Every step keeps the types *)

\* Start and recovery.
LEMMA RecoveringTypes ==
  ASSUME TypeInv, NEW p \in Procs, Start(p) \/ Recovering(p) PROVE TypeInv'
<1> USE LabelFacts, LocalFacts DEF TypeInv
<1>1. CASE Start(p)
  <2> DEFINE x == [proc[p] EXCEPT !.pc = "recover", !.todo = {r \in Runs : Recoverable(r)}]
  <2>1. x \in ProcState /\ x.pc = "recover" BY DEF ProcState
  <2>2. proc' = [proc EXCEPT ![p] = x] BY <1>1 DEF Start
  <2>3. Suits(x.pc, x.node) BY <2>1 DEF Suits
  <2>4. ProcOK' BY <2>1, <2>2, <2>3, ProcUpdate
  <2> QED BY <1>1, <2>4 DEF Start, DataOK, RestOK, runVars, Holders
<1>2. CASE RecoverNext(p)
  <2>1. PICK r \in Runs :
          /\ \/ proc' = [proc EXCEPT ![p].pc = "r_hold", ![p].run = r]
             \/ proc' = [proc EXCEPT ![p].todo = @ \ {r}]
          /\ UNCHANGED runVars \/ MarkOrphaned(r)
    BY <1>2 DEF RecoverNext
  <2>2. DataOK' BY <2>1, OrphanedOK DEF runVars, DataOK
  <2>3. ProcOK'
    <3> DEFINE x == [proc[p] EXCEPT !.pc = "r_hold", !.run = r]
               y == [proc[p] EXCEPT !.todo = @ \ {r}]
    <3>1. x \in ProcState /\ x.pc = "r_hold" BY DEF ProcState
    <3>2. y \in ProcState /\ y.pc = "recover" BY <1>2 DEF ProcState, RecoverNext, At
    <3>3. Suits(x.pc, x.node) /\ Suits(y.pc, y.node) BY <3>1, <3>2 DEF Suits
    <3>4. proc' = [proc EXCEPT ![p] = x] \/ proc' = [proc EXCEPT ![p] = y] BY <2>1
    <3> QED BY <3>1, <3>2, <3>3, <3>4, ProcUpdate
  <2> QED BY <1>2, <2>2, <2>3 DEF RecoverNext, RestOK
<1>3. CASE RecoverDone(p)
  BY <1>3, RestingOK DEF RecoverDone, DataOK, RestOK, runVars
<1>4. CASE RecoverHold(p)
  <2>1. Suits("r_inspect", Node(p)) /\ Suits("r_orphan", Node(p)) BY DEF Suits
  <2>2. ProcOK' BY <1>4, <2>1, GotoOK DEF RecoverHold
  <2>3. ws' \in [Runs -> Holders] BY <1>4, WorkspaceOK DEF RecoverHold, RestOK
  <2> QED BY <1>4, <2>2, <2>3 DEF RecoverHold, DataOK, RestOK, runVars
<1>5. CASE RecoverInspect(p)
  <2>1. ASSUME NEW m \in Nodes, Kind[m] = "merge", NEW l \in {"r_clear", "r_finalize", "r_orphan"},
               proc' = [proc EXCEPT ![p].pc = l, ![p].node = m]
        PROVE ProcOK'
    <3> DEFINE x == [proc[p] EXCEPT !.pc = l, !.node = m]
    <3>1. x \in ProcState /\ x.pc = l /\ x.node = m BY <2>1 DEF ProcState
    <3>2. Suits(x.pc, x.node) BY <2>1, <3>1 DEF Suits
    <3> QED BY <2>1, <3>1, <3>2, ProcUpdate
  <2>2. Suits("r_orphan", Node(p)) BY DEF Suits
  <2>3. \A r, w : Inspect(r, w) \in {"r_clear", "r_finalize", "r_orphan"} BY DEF Inspect
  <2>4. ProcOK' BY <1>5, <2>1, <2>2, <2>3, GotoOK DEF RecoverInspect
  <2> QED BY <1>5, <2>4 DEF RecoverInspect, DataOK, RestOK, runVars
<1>6. ASSUME RecoveredRun(p), DataOK', UNCHANGED <<repo, master, downs>> PROVE TypeInv'
  <2>1. ws' \in [Runs -> Holders] BY <1>6, WorkspaceOK DEF RecoveredRun
  <2> QED BY <1>6, <2>1, RecoveredOK DEF RestOK
<1>7. CASE RecoverClear(p)
  BY <1>6, <1>7, RunUpdate DEF RecoverClear, DataOK
<1>8. CASE RecoverFinalize(p)
  <2>1. DataOK' BY <1>8, FinalizeOK DEF RecoverFinalize, At, Task, Node
  <2> QED BY <1>6, <1>8, <2>1 DEF RecoverFinalize
<1>9. CASE RecoverOrphan(p)
  <2>1. DataOK' BY <1>9, OrphanedOK DEF RecoverOrphan
  <2> QED BY <1>6, <1>9, <2>1 DEF RecoverOrphan
<1> QED
  BY <1>1, <1>2, <1>3, <1>4, <1>5, <1>7, <1>8, <1>9 DEF Recovering

\* The scheduler and the handlers, one step per action.
LEMMA SchedulingTypes ==
  ASSUME TypeInv, NEW p \in Procs, Scheduling(p) PROVE TypeInv'
<1> USE LabelFacts, ResultFacts, LocalFacts DEF TypeInv
<1>1. CASE Poll(p)
  <2>1. ASSUME NEW r \in Runs, proc' = [proc EXCEPT ![p].pc = "tick", ![p].run = r] PROVE ProcOK'
    <3> DEFINE x == [proc[p] EXCEPT !.pc = "tick", !.run = r]
    <3>1. x \in ProcState /\ x.pc = "tick" BY DEF ProcState
    <3>2. Suits(x.pc, x.node) BY <3>1 DEF Suits
    <3> QED BY <2>1, <3>1, <3>2, ProcUpdate
  <2>2. ProcOK' BY <1>1, <2>1 DEF Poll, ProcOK
  <2> QED BY <1>1, <2>2 DEF Poll, DataOK, RestOK, runVars
<1>2. CASE StartAndReconcile(p)
  <2>1. run' \in [Runs -> RunState] /\ node' \in [Runs -> [Nodes -> NodeState]]
    <3>1. node[Run(p)] \in [Nodes -> NodeState] BY DEF DataOK
    <3>2. Reconcile(Run(p), node[Run(p)]) \/ UNCHANGED <<run, node>>
      BY <1>2 DEF StartAndReconcile
    <3> QED BY <3>1, <3>2, ReconcileOK DEF DataOK
  <2>2. Suits("claim", Node(p)) BY DEF Suits
  <2>3. ProcOK' BY <1>2, <2>2, GotoOK, RestingOK DEF StartAndReconcile
  <2> QED BY <1>2, <2>1, <2>3 DEF StartAndReconcile, DataOK, RestOK
<1>3. CASE ClaimNext(p)
  <2>1. ASSUME NEW n \in Nodes,
               node' = [node EXCEPT ![Run(p)][n].status = "running"],
               proc' = [proc EXCEPT ![p].pc = "exec", ![p].node = n, ![p].commit = head[Run(p)]]
        PROVE node' \in [Runs -> [Nodes -> NodeState]] /\ ProcOK'
    <3> DEFINE x == [proc[p] EXCEPT !.pc = "exec", !.node = n, !.commit = head[Run(p)]]
               y == [node[Run(p)][n] EXCEPT !.status = "running"]
    <3>1. x \in ProcState /\ x.pc = "exec" /\ x.node = n BY DEF ProcState, DataOK
    <3>2. Suits(x.pc, x.node) BY <3>1 DEF Suits
    <3>3. y \in NodeState BY DEF DataOK
    <3>4. node' = [node EXCEPT ![Run(p)][n] = y] BY <2>1
    <3>5. node' \in [Runs -> [Nodes -> NodeState]] BY <3>3, <3>4 DEF DataOK
    <3>6. proc' = [proc EXCEPT ![p] = x] BY <2>1
    <3> QED BY <3>1, <3>2, <3>5, <3>6, ProcUpdate
  <2>2. Suits("post", Node(p)) BY DEF Suits
  <2>3. ProcOK' /\ node' \in [Runs -> [Nodes -> NodeState]]
    BY <1>3, <2>1, <2>2, GotoOK DEF ClaimNext, FirstReady, ReadyNodes, DataOK
  <2> QED BY <1>3, <2>3 DEF ClaimNext, DataOK, RestOK
<1>4. CASE CompleteNode(p)
  <2>1. Suits("post", Node(p)) BY DEF Suits
  <2>2. ProcOK' BY <1>4, <2>1, GotoOK DEF CompleteNode
  <2>3. PICK x \in NodeState : node' = [node EXCEPT ![Run(p)][Node(p)] = x]
    BY <1>4 DEF CompleteNode
  <2>4. node' \in [Runs -> [Nodes -> NodeState]] BY <2>3 DEF DataOK
  <2> QED BY <1>4, <2>2, <2>4 DEF CompleteNode, DataOK, RestOK
<1>5. CASE CompletionRefused(p) \/ CompletionConflict(p) \/ WaitConflict(p)
  BY <1>5, LeaveOK DEF CompletionRefused, CompletionConflict, WaitConflict, Exit, RestOK
<1>6. CASE Handle(p)
  <2>1. OutputResult(Run(p), Node(p)) \in HandlerResults BY DEF OutputResult, Outcomes
  <2>2. Outcome("matched") \in HandlerResults /\ Outcome("not_matched") \in HandlerResults BY DEF Outcomes
  <2>3. Results(Run(p), Node(p)) \subseteq HandlerResults BY <2>1, <2>2 DEF Results
  <2>4. ProcOK' BY <1>6, <2>3, ReturnOK DEF Handle, At
  <2> QED BY <1>6, <2>4 DEF Handle, DataOK, RestOK, runVars
<1>7. CASE Judge(p)
  <2>1. Node(p) \in Nodes /\ Task(p) \in Writes
    BY <1>7, ChainSource DEF Judge, At, ChainKinds, Task, Node
  <2>2. ASSUME NEW c \in CsStatuses, NEW x \in Judgements(Node(p), c) \cup {<<Failure, c>>}
        PROVE x[1] \in HandlerResults /\ x[2] \in CsStatuses
    BY DEF Judgements, AfterTest, CsStatuses
  <2>3. cs[Run(p)][Task(p)].status \in CsStatuses BY <2>1 DEF DataOK, ChangeSetState
  <2>4. PICK x : /\ x[1] \in HandlerResults /\ x[2] \in CsStatuses
                 /\ cs' = [cs EXCEPT ![Run(p)][Task(p)].status = x[2]]
                 /\ Return(p, x[1])
    BY <1>7, <2>2, <2>3 DEF Judge
  <2>5. cs' \in [Runs -> [Writes -> ChangeSetState]] BY <2>1, <2>4, ChangeSetUpdate
  <2>6. ProcOK' BY <2>1, <2>4, ReturnOK
  <2> QED BY <1>7, <2>5, <2>6 DEF Judge, DataOK, RestOK
<1>8. CASE AgentBegin(p)
  <2>1. Kind[Node(p)] = "write_task" => Suits("agent", Node(p)) BY <1>8 DEF AgentBegin, At, Suits
  <2>2. ProcOK' BY <1>8, <2>1, GotoOK, ReturnOK DEF AgentBegin, At
  <2>3. ws' \in [Runs -> Holders] BY <1>8, WorkspaceOK DEF AgentBegin, RestOK
  <2> QED BY <1>8, <2>2, <2>3 DEF AgentBegin, DataOK, RestOK, runVars
<1>9. CASE AgentEdit(p)
  <2>1. Suits("capture", Node(p)) BY <1>9 DEF AgentEdit, At, Suits
  <2>2. ProcOK' BY <1>9, <2>1, GotoOK DEF AgentEdit
  <2>3. repo' \in [Runs -> RepoState] BY <1>9 DEF AgentEdit, RestOK, RepoState
  <2> QED BY <1>9, <2>2, <2>3 DEF AgentEdit, DataOK, RestOK, runVars
<1>10. CASE AgentCapture(p)
  <2>1. Suits("persist", Node(p)) BY <1>10 DEF AgentCapture, At, Suits
  <2>2. ProcOK' BY <1>10, <2>1, GotoOK, ReturnOK DEF AgentCapture, At
  <2>3. repo' \in [Runs -> RepoState] BY <1>10 DEF AgentCapture, RestOK, RepoState
  <2>4. ws' \in [Runs -> Holders] BY <1>10, WorkspaceOK DEF AgentCapture, RestOK
  <2> QED BY <1>10, <2>2, <2>3, <2>4 DEF AgentCapture, DataOK, RestOK, runVars
<1>11. CASE AgentPersist(p)
  <2>1. ProcOK' BY <1>11, ReturnOK DEF AgentPersist, At
  <2>2. "captured" \in CsStatuses /\ "abandoned_partial" \in CsStatuses BY DEF CsStatuses
  <2>3. Task(p) \in Writes BY <1>11 DEF AgentPersist, At
  <2>4. cs' \in [Runs -> [Writes -> ChangeSetState]]
    <3>1. \/ UNCHANGED cs
          \/ \E s \in CsStatuses :
               cs' = [cs EXCEPT ![Run(p)][Task(p)] = [status |-> s, base |-> proc[p].commit]]
      BY <1>11, <2>2 DEF AgentPersist
    <3>2. CASE UNCHANGED cs BY <3>2 DEF DataOK
    <3>3. ASSUME NEW s \in CsStatuses,
                 cs' = [cs EXCEPT ![Run(p)][Task(p)] = [status |-> s, base |-> proc[p].commit]]
          PROVE cs' \in [Runs -> [Writes -> ChangeSetState]]
      <4>1. proc[p].commit \in Commits OBVIOUS
      <4> QED BY <2>3, <3>3, <4>1, ChangeSetUpdate
    <3> QED BY <3>1, <3>2, <3>3
  <2>5. ws' \in [Runs -> Holders] BY <1>11, WorkspaceOK DEF AgentPersist
  <2> QED BY <1>11, <2>1, <2>4, <2>5 DEF AgentPersist, DataOK, RestOK
<1>12. CASE PrepareApproval(p)
  <2>1. Node(p) \in Nodes /\ Kind[Node(p)] = "approval" BY <1>12 DEF PrepareApproval, At
  <2>2. Task(p) \in Writes BY <2>1, ChainSource DEF ChainKinds, Task, Node
  <2>3. Suits("wait", Node(p)) BY <2>1 DEF Suits
  <2>4. Outcome("approved") \in HandlerResults BY DEF Outcomes
  <2>5. ProcOK' BY <1>12, <2>1, <2>3, <2>4, GotoOK, ReturnOK DEF PrepareApproval
  <2>6. "pending_approval" \in CsStatuses /\ "pending" \in ApprovalStatuses
    BY DEF CsStatuses, ApprovalStatuses
  <2>7. CASE UNCHANGED <<approval, cs>>
    BY <1>12, <2>5, <2>7 DEF PrepareApproval, DataOK, RestOK
  <2>8. CASE /\ approval' = [approval EXCEPT ![Run(p)][Task(p)].status = "pending"]
             /\ cs' = [cs EXCEPT ![Run(p)][Task(p)].status = "pending_approval"]
    <3>1. cs' \in [Runs -> [Writes -> ChangeSetState]] BY <2>2, <2>6, <2>8, ChangeSetUpdate
    <3>2. approval' \in [Runs -> [Writes -> ApprovalState]] BY <2>2, <2>6, <2>8, ApprovalUpdate
    <3> QED BY <1>12, <2>5, <3>1, <3>2 DEF PrepareApproval, DataOK, RestOK
  <2> QED BY <1>12, <2>7, <2>8 DEF PrepareApproval
<1>13. CASE EnterWaiting(p)
  <2>1. Node(p) \in Nodes BY <1>13 DEF EnterWaiting, At
  <2>2. Suits("post", Node(p)) BY DEF Suits
  <2>3. ProcOK' BY <1>13, <2>2, GotoOK DEF EnterWaiting
  <2>4. run' \in [Runs -> RunState] /\ node' \in [Runs -> [Nodes -> NodeState]]
    <3>1. ASSUME NEW b \in BOOLEAN, Resume(Run(p), Node(p), b)
          PROVE run' \in [Runs -> RunState] /\ node' \in [Runs -> [Nodes -> NodeState]]
      BY <2>1, <3>1, ResumeOK
    <3>2. ASSUME node' = [node EXCEPT ![Run(p)][Node(p)].status = "waiting_approval"],
                 run' = [run EXCEPT ![Run(p)].status = "waiting_approval"]
          PROVE run' \in [Runs -> RunState] /\ node' \in [Runs -> [Nodes -> NodeState]]
      <4>1. run' \in [Runs -> RunState] BY <3>2, RunUpdate, RunStatusFacts
      <4>2. [node[Run(p)][Node(p)] EXCEPT !.status = "waiting_approval"] \in NodeState
        BY <2>1 DEF DataOK
      <4>3. node' = [node EXCEPT ![Run(p)][Node(p)] =
                       [node[Run(p)][Node(p)] EXCEPT !.status = "waiting_approval"]]
        BY <3>2
      <4>4. node' \in [Runs -> [Nodes -> NodeState]] BY <4>2, <4>3 DEF DataOK
      <4> QED BY <4>1, <4>4
    <3> QED BY <1>13, <3>1, <3>2 DEF EnterWaiting
  <2> QED BY <1>13, <2>3, <2>4 DEF EnterWaiting, DataOK, RestOK
<1> QED
  BY <1>1, <1>2, <1>3, <1>4, <1>5, <1>6, <1>7, <1>8, <1>9, <1>10, <1>11, <1>12, <1>13
  DEF Scheduling

\* The merge handler.
LEMMA MergingTypes ==
  ASSUME TypeInv, NEW p \in Procs, Merging(p) PROVE TypeInv'
<1> USE LabelFacts, ResultFacts, LocalFacts DEF TypeInv
<1>1. \A n \in Nodes : Kind[n] = "merge" =>
        /\ Suits("m_begin", n) /\ Suits("m_apply", n) /\ Suits("m_commit", n)
        /\ Suits("m_finalize", n) /\ Suits("m_fail", n) /\ Suits("m_clear", n) /\ Suits("m_done", n)
  BY DEF Suits
<1>2. CASE MergeHold(p)
  <2>1. ProcOK' BY <1>1, <1>2, GotoOK, ReturnOK DEF MergeHold, At
  <2>2. ws' \in [Runs -> Holders] BY <1>2, WorkspaceOK DEF MergeHold, RestOK
  <2> QED BY <1>2, <2>1, <2>2 DEF MergeHold, DataOK, RestOK, runVars
<1>3. CASE MergeBegin(p)
  <2>1. ProcOK' BY <1>1, <1>3, GotoOK DEF MergeBegin, At
  <2>2. run' \in [Runs -> RunState] BY <1>3, RunUpdate DEF MergeBegin
  <2> QED BY <1>3, <2>1, <2>2 DEF MergeBegin, DataOK, RestOK
<1>4. CASE MergeRefused(p)
  <2>1. ProcOK' BY <1>4, ReturnOK DEF MergeRefused, At
  <2>2. ws' \in [Runs -> Holders] BY <1>4, WorkspaceOK DEF MergeRefused
  <2> QED BY <1>4, <2>1, <2>2 DEF MergeRefused, DataOK, RestOK, runVars
<1>5. CASE MergeApply(p)
  <2>1. ProcOK' BY <1>1, <1>5, GotoOK DEF MergeApply, At
  <2>2. repo' \in [Runs -> RepoState] BY <1>5 DEF MergeApply, RestOK, RepoState
  <2> QED BY <1>5, <2>1, <2>2 DEF MergeApply, DataOK, RestOK, runVars
<1>6. CASE MergeCommit(p)
  <2>1. ProcOK' BY <1>1, <1>6, GotoOK DEF MergeCommit, At
  <2>2. Task(p) \in Writes BY <1>6 DEF MergeCommit, At
  <2>3. [head |-> repo[Run(p)].head \cup {Task(p)}, dirty |-> FALSE] \in RepoState
    BY <2>2 DEF RestOK, RepoState, Commits
  <2>4. repo' \in [Runs -> RepoState] BY <1>6, <2>3 DEF MergeCommit, RestOK
  <2> QED BY <1>6, <2>1, <2>4 DEF MergeCommit, DataOK, RestOK, runVars
<1>7. CASE MergeFinalize(p)
  <2>1. ProcOK' BY <1>1, <1>7, GotoOK DEF MergeFinalize, At
  <2>2. DataOK' BY <1>7, FinalizeOK DEF MergeFinalize, At, Task, Node
  <2> QED BY <1>7, <2>1, <2>2 DEF MergeFinalize, RestOK
<1>8. CASE MergeDone(p)
  <2>1. Suits("post", Node(p)) BY DEF Suits
  <2>2. ProcOK' BY <1>8, <2>1, GotoOK DEF MergeDone
  <2>3. ws' \in [Runs -> Holders] BY <1>8, WorkspaceOK DEF MergeDone
  <2> QED BY <1>8, <2>2, <2>3 DEF MergeDone, DataOK, RestOK, runVars
<1>9. CASE MergeError(p)
  <2>1. ProcOK' BY <1>1, <1>9, GotoOK DEF MergeError
  <2> QED BY <1>9, <2>1 DEF MergeError, DataOK, RestOK, runVars
<1>10. CASE MergeRestore(p)
  <2>1. ProcOK' BY <1>1, <1>10, GotoOK DEF MergeRestore, At
  <2>2. repo' \in [Runs -> RepoState] BY <1>10 DEF MergeRestore, Restored, RestOK, RepoState
  <2> QED BY <1>10, <2>1, <2>2 DEF MergeRestore, DataOK, RestOK, runVars
<1>11. CASE MergeClear(p)
  <2>1. ProcOK' BY <1>11, ReturnOK DEF MergeClear, At
  <2>2. run' \in [Runs -> RunState] BY <1>11, RunUpdate DEF MergeClear
  <2>3. ws' \in [Runs -> Holders] BY <1>11, WorkspaceOK DEF MergeClear
  <2> QED BY <1>11, <2>1, <2>2, <2>3 DEF MergeClear, DataOK, RestOK
<1>12. CASE MergeAmbiguous(p)
  BY <1>12, LeaveOK DEF MergeAmbiguous, Exit, RestOK
<1> QED
  BY <1>2, <1>3, <1>4, <1>5, <1>6, <1>7, <1>8, <1>9, <1>10, <1>11, <1>12 DEF Merging

\* decide and cancel, called through the API.
LEMMA ServiceTypes ==
  ASSUME TypeInv, NEW p \in Procs, NEW r \in Runs,
         Cancel(p, r) \/ \E n \in ApprovalNodes, b \in BOOLEAN : Decide(p, r, n, b)
  PROVE TypeInv'
<1> USE DEF TypeInv
<1>1. CASE Cancel(p, r)
  <2>1. run' \in [Runs -> RunState] BY <1>1, RunUpdate, RunStatusFacts DEF Cancel
  <2>2. NodesCancelled(r) \in [Nodes -> NodeState] BY ResultFacts DEF NodesCancelled, DataOK
  <2>3. node' \in [Runs -> [Nodes -> NodeState]] BY <1>1, <2>2 DEF Cancel, DataOK
  <2>4. ApprovalsInvalidated(r) \in [Writes -> ApprovalState]
    <3>1. "invalidated" \in ApprovalStatuses BY DEF ApprovalStatuses
    <3>2. \A x \in ApprovalState : [x EXCEPT !.status = "invalidated"] \in ApprovalState
      BY <3>1 DEF ApprovalState
    <3> QED BY <3>2 DEF ApprovalsInvalidated, DataOK
  <2>5. ChangeSetsCancelled(r) \in [Writes -> ChangeSetState]
    <3>1. "cancelled" \in CsStatuses BY DEF CsStatuses
    <3>2. \A x \in ChangeSetState : [x EXCEPT !.status = "cancelled"] \in ChangeSetState
      BY <3>1 DEF ChangeSetState
    <3> QED BY <3>2 DEF ChangeSetsCancelled, DataOK
  <2>6. /\ approval' \in [Runs -> [Writes -> ApprovalState]]
        /\ cs' \in [Runs -> [Writes -> ChangeSetState]]
    BY <1>1, <2>4, <2>5 DEF Cancel, DataOK
  <2> QED BY <1>1, <2>1, <2>3, <2>6 DEF Cancel, DataOK, RestOK, ProcOK
<1>2. ASSUME NEW n \in ApprovalNodes, NEW b \in BOOLEAN, Decide(p, r, n, b) PROVE TypeInv'
  <2>1. n \in Nodes /\ Source[n] \in Writes BY ChainSource DEF ApprovalNodes, ChainKinds
  <2>2. run' \in [Runs -> RunState] /\ node' \in [Runs -> [Nodes -> NodeState]]
    BY <1>2, <2>1, ResumeOK DEF Decide
  <2>3. PICK x : /\ x \in CsStatuses /\ x \in ApprovalStatuses
                 /\ approval' = [approval EXCEPT ![r][Source[n]].status = x]
                 /\ cs' = [cs EXCEPT ![r][Source[n]].status = x]
    <3>1. (IF b THEN "approved" ELSE "rejected") \in CsStatuses \cap ApprovalStatuses
      BY DEF CsStatuses, ApprovalStatuses
    <3> QED BY <1>2, <3>1 DEF Decide
  <2>4. approval' \in [Runs -> [Writes -> ApprovalState]] BY <2>1, <2>3, ApprovalUpdate
  <2>5. cs' \in [Runs -> [Writes -> ChangeSetState]] BY <2>1, <2>3, ChangeSetUpdate
  <2> QED BY <1>2, <2>2, <2>4, <2>5 DEF Decide, DataOK, RestOK, ProcOK
<1> QED BY <1>1, <1>2

\* Every step.
LEMMA TypeStep == TypeInv /\ [Next]_vars => TypeInv'
<1> SUFFICES ASSUME TypeInv, [Next]_vars PROVE TypeInv'
  OBVIOUS
<1>1. ASSUME NEW p \in Procs, Start(p) \/ Work(p) PROVE TypeInv'
  <2>1. CASE LeaseLost(p) BY <2>1, LeaveOK DEF LeaseLost, Exit, TypeInv, RestOK
  <2> QED BY <1>1, <2>1, RecoveringTypes, SchedulingTypes, MergingTypes DEF Work
<1>2. ASSUME NEW p \in Procs, Stop(p) PROVE TypeInv'
  BY <1>2, LeaveOK, CrashAssumption DEF Stop, TypeInv, RestOK
<1>3. ASSUME NEW p \in Procs, Crash(p) PROVE TypeInv'
  <2>1. ProcOK' BY <1>3, IdleOK DEF Crash, TypeInv
  <2>2. DataOK' BY <1>3 DEF Crash, TypeInv, DataOK, runVars
  <2>3. RestOK' BY <1>3, CrashAssumption DEF Crash, TypeInv, RestOK, Holders
  <2> QED BY <2>1, <2>2, <2>3 DEF TypeInv
<1>4. ASSUME NEW r \in Runs, NEW w \in Writes, ApprovalOverdue(r, w) PROVE TypeInv'
  <2>1. approval' \in [Runs -> [Writes -> ApprovalState]]
    BY <1>4, ApprovalUpdate DEF ApprovalOverdue, TypeInv
  <2> QED BY <1>4, <2>1 DEF ApprovalOverdue, TypeInv, ProcOK, DataOK, RestOK
<1>5. CASE MasterExpire
  BY <1>5 DEF MasterExpire, TypeInv, ProcOK, DataOK, RestOK, Holders, runVars
<1>6. ASSUME NEW r \in Runs, WorkspaceExpire(r) PROVE TypeInv'
  BY <1>6 DEF WorkspaceExpire, TypeInv, ProcOK, DataOK, RestOK, Holders, runVars
<1>7. CASE UNCHANGED vars
  BY <1>7 DEF vars, TypeInv, ProcOK, DataOK, RestOK
<1> QED
  BY <1>1, <1>2, <1>3, <1>4, <1>5, <1>6, <1>7, ServiceTypes DEF Next

\* The first state.
LEMMA InitTypes == Init => TypeInv
<1> SUFFICES ASSUME Init PROVE TypeInv
  OBVIOUS
<1>1. ProcOK
  <2>1. Suits(Idle.pc, Idle.node) BY DEF Suits, Idle
  <2> QED BY <2>1, IdleType DEF Init, ProcOK
<1>2. DataOK
  <2>1. [status |-> "pending", cancel |-> FALSE, finalizing |-> FALSE] \in RunState
    BY DEF RunState, RunStatuses
  <2>2. Pending \in NodeState BY DEF Pending, NodeState, NodeStatuses, Outcomes
  <2>3. [status |-> "none", base |-> {}] \in ChangeSetState
    BY DEF ChangeSetState, CsStatuses, Commits
  <2>4. [status |-> "none", overdue |-> FALSE] \in ApprovalState
    BY DEF ApprovalState, ApprovalStatuses
  <2> QED BY <2>1, <2>2, <2>3, <2>4 DEF Init, DataOK, Commits
<1>3. RestOK
  <2>1. [head |-> {}, dirty |-> FALSE] \in RepoState BY DEF RepoState, Commits
  <2> QED BY <2>1, CrashAssumption DEF Init, RestOK, Holders
<1> QED BY <1>1, <1>2, <1>3 DEF TypeInv

\* The tables, the repositories, the leases and the processes stay in their
\* types, and a handler never works on a node of another kind.
THEOREM TypeCorrect == Spec => []TypeOK
<1>1. TypeInv => TypeOK BY DEF TypeInv, TypeOK, ProcOK, DataOK, RestOK
<1> QED BY <1>1, InitTypes, TypeStep, PTL DEF Spec

-------------------------------------------------------------------------------
(* Runs and their nodes *)

\* An orphaned run has nothing running or waiting.
OrphansQuiet ==
  \A r \in Runs, n \in Nodes :
    run[r].status = "orphaned" => node[r][n].status \notin {"running", "waiting_approval"}

\* The cancel mark and the status of a run are set together, for good.
CancelIsFinal ==
  \A r \in Runs : run[r].cancel <=> run[r].status = "cancelled"

RunInv == TypeInv /\ FinishedRunsQuiet /\ OrphansQuiet /\ CancelIsFinal

\* All that a step may do to the status of a run and to its nodes.
Left(r) == run'[r].status = run[r].status /\ node'[r] = node[r]

\* A claim, a result or an approval: who waited is made ready, a running write task
\* gets what its handler returned or a failure, and nobody is made to wait.
Moves(r, n, x) ==
  /\ node[r][n].status \notin NodeTerminal \cup {"pending"}
  /\ Unstarted(x) => Kind[n] = "approval" /\ node[r][n].status = "waiting_approval"
  /\ x.status \notin {"waiting_approval", "skipped"}
  /\ n \in Writes /\ node[r][n].status = "running" =>
       \E p \in Procs : /\ At(p, "complete") /\ Run(p) = r /\ Node(p) = n
                        /\ x \in {proc[p].res, Failure}

MovedNode(r) ==
  /\ run'[r].status = "running"
  /\ \E n \in Nodes, x \in NodeState : /\ Moves(r, n, x)
                                       /\ node'[r] = [node[r] EXCEPT ![n] = x]

Paused(r) ==
  /\ run'[r].status = "waiting_approval"
  /\ \E p \in Procs :
       /\ At(p, "wait") /\ Run(p) = r /\ ~run[r].cancel /\ proc'[p].pc = "post"
       /\ approval[r][Task(p)].status \notin {"approved", "rejected"}
       /\ node[r][Node(p)].status = "running"
       /\ node'[r] = [node[r] EXCEPT ![Node(p)].status = "waiting_approval"]

\* The result of a gate or a merge turns old into st, or nothing does.
Follows(st, old) ==
  \A n \in Nodes : /\ old[n].status \in NodeTerminal \/ n \in Writes => st[n] = old[n]
                   /\ Unstarted(st[n]) => Unstarted(old[n])
                   /\ st[n].status = "waiting_approval" => old[n].status = "waiting_approval"
                   /\ st[n] # old[n] => old[n].status # "pending" /\ st[n].status # "skipped"

Settled(r) ==
  /\ run'[r].status = RunVerdict(node'[r])
  /\ \E st \in [Nodes -> NodeState] :
       /\ Follows(st, node[r])
       /\ node'[r] = Reconciled(st)

Cancelled(r) ==
  run'[r].status = "cancelled" /\ run'[r].cancel /\ node'[r] = NodesCancelled(r)
Orphaned(r) == run'[r].status = "orphaned" /\ node'[r] = NodesOrphaned(r)

RunStep(r) ==
  \/ Left(r) /\ run'[r].cancel = run[r].cancel
  \/ run[r].status \notin RunTerminal /\ Cancelled(r)
  \/ /\ run[r].status \notin RunTerminal /\ run'[r].cancel = run[r].cancel
     /\ MovedNode(r) \/ Paused(r) \/ Settled(r) \/ Orphaned(r)

\* mark_orphaned ends a live run and leaves a finished one alone.
LEMMA OrphanRunStep ==
  ASSUME RunInv, NEW r \in Runs, MarkOrphaned(r), NEW q \in Runs PROVE RunStep(q)
<1> USE DEF RunInv, TypeInv, DataOK
<1>1. CASE q # r BY <1>1 DEF MarkOrphaned, RunStep, Left
<1>2. CASE q = r /\ run[r].status \notin RunTerminal
  BY <1>2 DEF MarkOrphaned, RunStep, Orphaned, RunState
<1>3. CASE q = r /\ run[r].status \in RunTerminal \ {"orphaned"}
  BY <1>3 DEF MarkOrphaned, RunStep, Left
<1>4. CASE q = r /\ run[r].status = "orphaned"
  <2>1. NodesOrphaned(r) = node[r] BY <1>4 DEF NodesOrphaned, OrphansQuiet
  <2> QED BY <1>4, <2>1 DEF MarkOrphaned, RunStep, Left, RunTerminal
<1> QED BY <1>1, <1>2, <1>3, <1>4

\* Reconciliation settles a live run.
LEMMA SettledRunStep ==
  ASSUME RunInv, NEW r \in Runs, NEW st \in [Nodes -> NodeState],
         run[r].status \notin RunTerminal,
         Follows(st, node[r]),
         node' = [node EXCEPT ![r] = Reconciled(st)],
         \A q \in Runs : /\ run'[q].status = IF q = r THEN RunVerdict(Reconciled(st)) ELSE run[q].status
                         /\ run'[q].cancel = run[q].cancel,
         NEW q \in Runs
  PROVE RunStep(q)
<1> USE DEF RunInv, TypeInv, DataOK
<1>1. CASE q # r BY <1>1 DEF RunStep, Left
<1>2. CASE q = r BY <1>2 DEF RunStep, Settled
<1> QED BY <1>1, <1>2

\* The same, as the transactions write it.
LEMMA ReconcileRunStep ==
  ASSUME RunInv, NEW r \in Runs, NEW st \in [Nodes -> NodeState],
         run[r].status \notin RunTerminal,
         Follows(st, node[r]),
         Reconcile(r, st), NEW q \in Runs
  PROVE RunStep(q)
<1>1. \A u \in Runs : /\ run'[u].status = IF u = r THEN RunVerdict(Reconciled(st)) ELSE run[u].status
                      /\ run'[u].cancel = run[u].cancel
  BY DEF Reconcile, RunInv, TypeInv, DataOK, RunState
<1>2. node' = [node EXCEPT ![r] = Reconciled(st)] BY DEF Reconcile
<1> QED BY <1>1, <1>2, SettledRunStep

\* A result or a claim moves one node of a live run.
LEMMA MovedRunStep ==
  ASSUME RunInv, NEW r \in Runs, NEW n \in Nodes, NEW x \in NodeState,
         run[r].status \notin RunTerminal, Moves(r, n, x),
         node' = [node EXCEPT ![r][n] = x],
         run'[r].status = "running",
         \A q \in Runs : /\ q # r => run'[q].status = run[q].status
                         /\ run'[q].cancel = run[q].cancel,
         NEW q \in Runs
  PROVE RunStep(q)
<1> USE DEF RunInv, TypeInv, DataOK
<1>1. CASE q # r BY <1>1 DEF RunStep, Left
<1>2. CASE q = r BY <1>2 DEF RunStep, MovedNode
<1> QED BY <1>1, <1>2

\* Statuses that are not final.
LEMMA ActiveNode ==
  /\ \A x \in {"ready", "running", "waiting_approval"} : x \notin NodeTerminal
  /\ \A x \in {"pending", "running", "waiting_approval"} : x \notin RunTerminal
BY DEF NodeTerminal, RunTerminal

\* A decision moves its gate, or settles the run.
LEMMA ResumeRunStep ==
  ASSUME RunInv, NEW r \in Runs, NEW n \in Nodes, Kind[n] = "approval", NEW b \in BOOLEAN,
         Resumable(r, n), Resume(r, n, b), NEW q \in Runs
  PROVE RunStep(q)
<1>1. /\ run[r].status \notin RunTerminal
      /\ node[r][n].status \notin NodeTerminal /\ node[r][n].status # "pending"
  BY ActiveNode DEF Resumable
<1>2. Outcome("rejected") \in HandlerResults BY ResultFacts DEF Outcomes
<1>3. CASE ~b
  <2> DEFINE st == [node[r] EXCEPT ![n] = Outcome("rejected")]
  <2>1. st \in [Nodes -> NodeState] BY <1>2, ResultFacts DEF RunInv, TypeInv, DataOK
  <2>2. Follows(st, node[r])
    BY <1>1, <1>2, ResultFacts DEF RunInv, TypeInv, DataOK, Follows, Writes
  <2>3. Reconcile(r, st) BY <1>3 DEF Resume
  <2> HIDE DEF st
  <2> QED BY <1>1, <2>1, <2>2, <2>3, ReconcileRunStep
<1>4. CASE /\ node' = [node EXCEPT ![r][n] = Ready] /\ node[r][n].status = "waiting_approval"
           /\ run' = [run EXCEPT ![r].status = "running"]
  <2>1. run'[r].status = "running" /\ Ready \in NodeState
    BY <1>4, ResultFacts DEF RunInv, TypeInv, DataOK, RunState
  <2>2. \A u \in Runs : /\ u # r => run'[u].status = run[u].status
                        /\ run'[u].cancel = run[u].cancel
    BY <1>4 DEF RunInv, TypeInv, DataOK, RunState
  <2>3. Moves(r, n, Ready) BY <1>1, <1>4 DEF Moves, Ready, Writes
  <2> QED BY <1>1, <1>4, <2>1, <2>2, <2>3, MovedRunStep
<1>5. CASE UNCHANGED <<run, node>> BY <1>5 DEF RunStep, Left
<1> QED BY <1>3, <1>4, <1>5 DEF Resume

\* finalize_merge settles the run.
LEMMA FinalizeRunStep ==
  ASSUME RunInv, NEW p, NEW r \in Runs, NEW n \in Nodes, Kind[n] = "merge", CanFinalize(p, r, n),
         Finalize(r, n), NEW q \in Runs
  PROVE RunStep(q)
<1> DEFINE st == [node[r] EXCEPT ![n] = Success]
<1>1. st \in [Nodes -> NodeState] BY ResultFacts DEF RunInv, TypeInv, DataOK
<1>2. Follows(st, node[r])
  BY ActiveNode, ResultFacts DEF CanFinalize, RunInv, TypeInv, DataOK, Follows, Writes
<1>3. run[r].status \notin RunTerminal BY ActiveNode DEF CanFinalize
<1>4. node' = [node EXCEPT ![r] = Reconciled(st)] BY DEF Finalize
<1>5. run' = [run EXCEPT ![r].status = RunVerdict(Reconciled(st)), ![r].finalizing = FALSE]
  BY DEF Finalize
<1> HIDE DEF st
<1>6. \A u \in Runs : /\ run'[u].status = IF u = r THEN RunVerdict(Reconciled(st)) ELSE run[u].status
                      /\ run'[u].cancel = run[u].cancel
  BY <1>5 DEF RunInv, TypeInv, DataOK, RunState
<1> QED BY <1>1, <1>2, <1>3, <1>4, <1>6, SettledRunStep

\* Every step does one of these things to every run.
LEMMA StepIsRunStep ==
  ASSUME RunInv, [Next]_vars, NEW q \in Runs PROVE RunStep(q)
<1>0. TypeInv BY DEF RunInv
<1>1. CASE UNCHANGED <<run, node>> BY <1>1 DEF RunStep, Left
<1>2. ASSUME NEW p \in Procs, Start(p) \/ LeaseLost(p) \/ Stop(p) \/ Crash(p) PROVE RunStep(q)
  BY <1>1, <1>2 DEF Start, LeaseLost, Stop, Crash, Exit, Leave, runVars
<1>3. ASSUME NEW p \in Procs, NEW r \in Runs, Cancel(p, r) PROVE RunStep(q)
  <2> USE <1>3 DEF Cancel, MayCancel, RunInv, TypeInv, DataOK
  <2>1. CASE q # r BY <2>1 DEF RunStep, Left
  <2>2. CASE q = r BY <2>2 DEF RunStep, Cancelled, RunState
  <2> QED BY <2>1, <2>2
<1>4. ASSUME NEW p \in Procs, NEW r \in Runs, NEW n \in ApprovalNodes, NEW b \in BOOLEAN,
             Decide(p, r, n, b)
      PROVE RunStep(q)
  BY <1>4, ResumeRunStep DEF Decide, ApprovalNodes
<1>5. ASSUME NEW p \in Procs, Recovering(p) PROVE RunStep(q)
  <2>1. Run(p) \in Runs BY <1>0, LocalFacts DEF TypeInv
  <2>2. CASE RecoverNext(p)
    <3>1. UNCHANGED runVars \/ \E r \in Runs : MarkOrphaned(r) BY <2>2 DEF RecoverNext
    <3> QED BY <1>1, <3>1, OrphanRunStep DEF runVars
  <2>3. CASE RecoverFinalize(p)
    <3>1. Node(p) \in Nodes /\ Kind[Node(p)] = "merge"
      BY <1>0, <2>3, LocalFacts DEF TypeInv, RecoverFinalize, At
    <3> QED BY <2>1, <2>3, <3>1, FinalizeRunStep DEF RecoverFinalize
  <2>4. CASE RecoverOrphan(p) BY <2>1, <2>4, OrphanRunStep DEF RecoverOrphan
  <2>5. CASE RecoverClear(p)
    BY <2>1, <2>5 DEF RecoverClear, RunInv, TypeInv, DataOK, RunState, RunStep, Left
  <2>6. CASE RecoverDone(p) \/ RecoverHold(p) \/ RecoverInspect(p)
    BY <1>1, <2>6 DEF RecoverDone, RecoverHold, RecoverInspect, runVars
  <2> QED BY <1>5, <2>2, <2>3, <2>4, <2>5, <2>6 DEF Recovering
<1>6. ASSUME NEW p \in Procs, Scheduling(p) PROVE RunStep(q)
  <2>1. Run(p) \in Runs /\ proc[p].res \in HandlerResults BY <1>0, LocalFacts DEF TypeInv
  <2>2. CASE StartAndReconcile(p)
    <3>1. node[Run(p)] \in [Nodes -> NodeState] BY <2>1 DEF RunInv, TypeInv, DataOK
    <3>2. \/ UNCHANGED <<run, node>>
          \/ Reconcile(Run(p), node[Run(p)]) /\ run[Run(p)].status \in {"pending", "running"}
      BY <2>2 DEF StartAndReconcile
    <3>3. Follows(node[Run(p)], node[Run(p)]) BY DEF Follows
    <3> QED BY <1>1, <2>1, <3>1, <3>2, <3>3, ReconcileRunStep, ActiveNode
  <2>3. CASE ClaimNext(p)
    <3>1. CASE UNCHANGED <<run, node>> BY <1>1, <3>1
    <3>2. ASSUME NEW n \in ReadyNodes(node[Run(p)]), run[Run(p)].status = "running", UNCHANGED run,
                 node' = [node EXCEPT ![Run(p)][n].status = "running"]
          PROVE RunStep(q)
      <4> DEFINE x == [node[Run(p)][n] EXCEPT !.status = "running"]
      <4>1. n \in Nodes /\ node[Run(p)][n].status \notin NodeTerminal
        BY ActiveNode DEF ReadyNodes
      <4>2. x \in NodeState BY <2>1, <4>1, ResultFacts DEF RunInv, TypeInv, DataOK
      <4>3. node' = [node EXCEPT ![Run(p)][n] = x] BY <3>2
      <4>4. x.status = "running" BY <2>1, <4>1 DEF RunInv, TypeInv, DataOK, NodeState
      <4> HIDE DEF x
      <4>5. Moves(Run(p), n, x) BY <3>2, <4>1, <4>4 DEF Moves, Unstarted, ReadyNodes
      <4> QED BY <2>1, <3>2, <4>1, <4>2, <4>3, <4>5, MovedRunStep, ActiveNode
    <3> QED BY <2>3, <3>1, <3>2 DEF ClaimNext, FirstReady
  <2>4. CASE CompleteNode(p)
    <3>1. PICK x \in {proc[p].res, Failure} : node' = [node EXCEPT ![Run(p)][Node(p)] = x]
      BY <2>4 DEF CompleteNode
    <3>2. Node(p) \in Nodes BY <1>0, <2>4, LocalFacts DEF TypeInv, CompleteNode, At
    <3>3. x \in NodeState /\ ~Unstarted(x) /\ x.status \notin {"waiting_approval", "skipped"}
      BY <2>1, ResultFacts
    <3>4. At(p, "complete") /\ node[Run(p)][Node(p)].status \notin NodeTerminal \cup {"pending"}
      BY <2>4, ActiveNode DEF CompleteNode, CompletableRun
    <3>5. Moves(Run(p), Node(p), x) BY <3>3, <3>4 DEF Moves
    <3> QED BY <2>1, <2>4, <3>1, <3>2, <3>3, <3>5, MovedRunStep, ActiveNode DEF CompleteNode, CompletableRun
  <2>5. CASE EnterWaiting(p)
    <3>1. Node(p) \in Nodes /\ Kind[Node(p)] = "approval"
      BY <1>0, <2>5, LocalFacts DEF TypeInv, EnterWaiting, At
    <3>2. /\ Resumable(Run(p), Node(p))
          /\ node[Run(p)][Node(p)].status = "running" /\ run[Run(p)].status = "running"
      BY <2>5 DEF EnterWaiting, Resumable
    <3>3. ASSUME NEW b \in BOOLEAN, Resume(Run(p), Node(p), b) PROVE RunStep(q)
      BY <2>1, <3>1, <3>2, <3>3, ResumeRunStep
    <3>4. ASSUME approval[Run(p)][Source[Node(p)]].status \notin {"approved", "rejected"},
                 node' = [node EXCEPT ![Run(p)][Node(p)].status = "waiting_approval"],
                 run' = [run EXCEPT ![Run(p)].status = "waiting_approval"]
          PROVE RunStep(q)
      <4>1. /\ run'[Run(p)].status = "waiting_approval"
            /\ \A u \in Runs : /\ u # Run(p) => run'[u].status = run[u].status
                              /\ run'[u].cancel = run[u].cancel
        BY <2>1, <3>4 DEF RunInv, TypeInv, DataOK, RunState
      <4>2. CASE q # Run(p)
        BY <2>1, <3>4, <4>1, <4>2 DEF RunStep, Left, RunInv, TypeInv, DataOK
      <4>3. CASE q = Run(p)
        <5>1. /\ At(p, "wait") /\ ~run[q].cancel
              /\ approval[q][Task(p)].status \notin {"approved", "rejected"}
          BY <2>5, <3>4, <4>3 DEF EnterWaiting, Task, Node
        <5>2. node'[q] = [node[q] EXCEPT ![Node(p)].status = "waiting_approval"]
          BY <2>1, <3>4, <4>3 DEF RunInv, TypeInv, DataOK
        <5>3. Goto(p, "post") /\ proc[p] \in ProcState /\ proc \in [Procs -> ProcState]
          BY <1>0, <2>5 DEF EnterWaiting, TypeInv, ProcOK
        <5>4. proc'[p].pc = "post" BY <5>3 DEF Goto, ProcState
        <5>5. Paused(q) BY <3>2, <4>1, <4>3, <5>1, <5>2, <5>4 DEF Paused
        <5> QED BY <3>2, <4>1, <4>3, <5>5, ActiveNode DEF RunStep
      <4> QED BY <4>2, <4>3
    <3>5. approval[Run(p)][Source[Node(p)]].status \in {"approved", "rejected"} =>
            \E b \in BOOLEAN : Resume(Run(p), Node(p), b)
      BY <2>5 DEF EnterWaiting
    <3> QED BY <2>5, <3>3, <3>4, <3>5 DEF EnterWaiting
  <2>6. CASE Poll(p) \/ Handle(p) \/ Judge(p) \/ AgentBegin(p) \/ AgentEdit(p) \/ AgentCapture(p)
             \/ AgentPersist(p) \/ PrepareApproval(p)
             \/ CompletionRefused(p) \/ CompletionConflict(p) \/ WaitConflict(p)
    BY <1>1, <2>6 DEF Poll, Handle, Judge, AgentBegin, AgentEdit, AgentCapture, AgentPersist,
       PrepareApproval, CompletionRefused, CompletionConflict, WaitConflict, Exit, Leave, runVars
  <2> QED BY <1>6, <2>2, <2>3, <2>4, <2>5, <2>6 DEF Scheduling
<1>7. ASSUME NEW p \in Procs, Merging(p) PROVE RunStep(q)
  <2>1. Run(p) \in Runs BY <1>0, LocalFacts DEF TypeInv
  <2>2. CASE MergeFinalize(p)
    <3>1. Node(p) \in Nodes /\ Kind[Node(p)] = "merge"
      BY <1>0, <2>2, LocalFacts DEF TypeInv, MergeFinalize, At
    <3> QED BY <2>1, <2>2, <3>1, FinalizeRunStep DEF MergeFinalize
  <2>3. CASE MergeBegin(p) \/ MergeClear(p)
    <3>1. UNCHANGED node /\ \E b \in BOOLEAN : run' = [run EXCEPT ![Run(p)].finalizing = b]
      BY <2>3 DEF MergeBegin, MergeClear
    <3>2. run'[q].status = run[q].status /\ run'[q].cancel = run[q].cancel
      BY <2>1, <3>1 DEF RunInv, TypeInv, DataOK, RunState
    <3> QED BY <3>1, <3>2 DEF RunStep, Left
  <2>4. CASE MergeHold(p) \/ MergeRefused(p) \/ MergeApply(p) \/ MergeCommit(p) \/ MergeDone(p)
             \/ MergeError(p) \/ MergeRestore(p) \/ MergeAmbiguous(p)
    BY <1>1, <2>4 DEF MergeHold, MergeRefused, MergeApply, MergeCommit, MergeDone, MergeError,
       MergeRestore, MergeAmbiguous, Exit, Leave, runVars
  <2> QED BY <1>7, <2>2, <2>3, <2>4 DEF Merging
<1>8. CASE MasterExpire \/ \E r \in Runs : WorkspaceExpire(r)
  BY <1>1, <1>8 DEF MasterExpire, WorkspaceExpire, runVars
<1>9. CASE UNCHANGED vars \/ \E r \in Runs, w \in Writes : ApprovalOverdue(r, w)
  BY <1>1, <1>9 DEF vars, ApprovalOverdue
<1> QED
  BY <1>2, <1>3, <1>4, <1>5, <1>6, <1>7, <1>8, <1>9 DEF Next, Work

\* The first state.
LEMMA InitRuns == Init => RunInv
BY InitTypes DEF RunInv, Init, FinishedRunsQuiet, OrphansQuiet, CancelIsFinal, RunTerminal

\* Every step, from what it may do to a run.
LEMMA RunInvStep == RunInv /\ [Next]_vars => RunInv'
<1> SUFFICES ASSUME RunInv, [Next]_vars PROVE RunInv'
  OBVIOUS
<1>1. TypeInv' BY TypeStep DEF RunInv
<1>2. ASSUME NEW r \in Runs, run'[r].status \in RunTerminal \ {"orphaned"}
      PROVE AllTerminal(node'[r])
  <2>1. CASE Left(r) BY <1>2, <2>1 DEF Left, RunInv, FinishedRunsQuiet
  <2>2. CASE MovedNode(r) \/ Paused(r) BY <1>2, <2>2 DEF MovedNode, Paused, RunTerminal
  <2>3. CASE Settled(r) BY <1>2, <2>3, VerdictOfTerminal, ActiveNode DEF Settled
  <2>4. CASE Cancelled(r)
    BY <2>4 DEF Cancelled, NodesCancelled, AllTerminal, NodeTerminal
  <2>5. CASE Orphaned(r) BY <1>2, <2>5 DEF Orphaned
  <2> QED BY <2>1, <2>2, <2>3, <2>4, <2>5, StepIsRunStep DEF RunStep
<1>3. ASSUME NEW r \in Runs, NEW n \in Nodes, run'[r].status = "orphaned"
      PROVE node'[r][n].status \notin {"running", "waiting_approval"}
  <2>1. CASE Left(r) BY <1>3, <2>1 DEF Left, RunInv, OrphansQuiet
  <2>2. CASE MovedNode(r) \/ Paused(r) BY <1>3, <2>2 DEF MovedNode, Paused
  <2>3. CASE Settled(r) BY <1>3, <2>3, VerdictOfTerminal DEF Settled
  <2>4. CASE Cancelled(r) BY <1>3, <2>4 DEF Cancelled
  <2>5. CASE Orphaned(r)
    <3>1. node[r][n] \in NodeState BY DEF RunInv, TypeInv, DataOK
    <3> QED BY <2>5, <3>1 DEF Orphaned, NodesOrphaned, NodeState
  <2> QED BY <2>1, <2>2, <2>3, <2>4, <2>5, StepIsRunStep DEF RunStep
<1>4. ASSUME NEW r \in Runs PROVE run'[r].cancel <=> run'[r].status = "cancelled"
  <2>1. run[r].cancel <=> run[r].status = "cancelled" BY DEF RunInv, CancelIsFinal
  <2>2. "cancelled" \in RunTerminal BY DEF RunTerminal
  <2>3. CASE Left(r) /\ run'[r].cancel = run[r].cancel BY <2>1, <2>3 DEF Left
  <2>4. CASE Cancelled(r) BY <2>4 DEF Cancelled
  <2>5. CASE /\ run[r].status \notin RunTerminal /\ run'[r].cancel = run[r].cancel
             /\ MovedNode(r) \/ Paused(r) \/ Settled(r) \/ Orphaned(r)
    <3>1. run'[r].status # "cancelled"
      BY <2>5, VerdictOfTerminal DEF MovedNode, Paused, Settled, Orphaned
    <3> QED BY <2>1, <2>2, <2>5, <3>1
  <2> QED BY <2>3, <2>4, <2>5, StepIsRunStep DEF RunStep
<1> QED BY <1>1, <1>2, <1>3, <1>4 DEF RunInv, FinishedRunsQuiet, OrphansQuiet, CancelIsFinal

\* So it holds throughout.
LEMMA RunInvariance == Spec => []RunInv
BY InitRuns, RunInvStep, PTL DEF Spec

\* When a run ends no node of it can still run, whichever of reconciliation,
\* cancellation, a rejected approval and recovery ended it.
THEOREM FinishedIsQuiet == Spec => []FinishedRunsQuiet
<1> RunInv => FinishedRunsQuiet BY DEF RunInv
<1> QED BY RunInvariance, PTL

\* No late result, decision, cancellation or recovery, of however many stale
\* processes, changes a run or a node that is over.
THEOREM ResultsAreFinal == Spec => ResultsFinal
<1> DEFINE Final(r) ==
      /\ run[r].status \in RunTerminal => run'[r].status = run[r].status /\ node'[r] = node[r]
      /\ \A n \in Nodes : node[r][n].status \in NodeTerminal => node'[r][n] = node[r][n]
<1>1. ASSUME RunInv, [Next]_vars, NEW r \in Runs PROVE Final(r)
  <2>1. RunStep(r) BY <1>1, StepIsRunStep
  <2>2. run[r].status \in RunTerminal => Left(r) BY <2>1 DEF RunStep
  <2>3. ASSUME NEW n \in Nodes, node[r][n].status \in NodeTerminal PROVE node'[r][n] = node[r][n]
    <3>1. CASE Left(r) BY <3>1 DEF Left
    <3>2. CASE MovedNode(r) \/ Paused(r)
      BY <1>1, <2>3, <3>2, ActiveNode DEF MovedNode, Moves, Paused, RunInv, TypeInv, DataOK
    <3>3. CASE Settled(r)
      <4>1. PICK st \in [Nodes -> NodeState] : st[n] = node[r][n] /\ node'[r] = Reconciled(st)
        BY <2>3, <3>3 DEF Settled, Follows
      <4>2. st[n].status # "pending" BY <2>3, <4>1 DEF NodeTerminal
      <4> QED BY <4>1, <4>2, ReconciledFrame
    <3>4. CASE Cancelled(r) BY <2>3, <3>4 DEF Cancelled, NodesCancelled
    <3>5. CASE Orphaned(r)
      BY <2>3, <3>5 DEF Orphaned, NodesOrphaned, NodeTerminal
    <3> QED BY <2>1, <3>1, <3>2, <3>3, <3>4, <3>5 DEF RunStep
  <2> QED BY <2>2, <2>3 DEF Left
<1>2. RunInv /\ [Next]_vars => [\A r \in Runs : Final(r)]_vars
  BY <1>1
<1> QED BY <1>2, RunInvariance, PTL DEF Spec, ResultsFinal

-------------------------------------------------------------------------------
(* Which branches are taken *)

\* BranchesSound for one node of one run.
SoundAt(n, st) ==
  /\ st[n].status \in Started /\ Kind[n] # "input" => Resolved(n, st) /\ Enabled(n, st)
  /\ st[n].status = "skipped" => Resolved(n, st) /\ ~Enabled(n, st)

Sound(st) == \A n \in Nodes : SoundAt(n, st)

\* No step but reconciliation starts or skips a pending node, and none undoes an
\* end.
Keeps(old, st) ==
  \A n \in Nodes : /\ old[n].status \in NodeTerminal => st[n] = old[n]
                   /\ st[n].status \in Started => old[n].status \in Started
                   /\ st[n].status = "skipped" => old[n].status = "skipped"

\* What decided about a node is over, so it does not change any more.
LEMMA DecidedForGood ==
  ASSUME NEW old, NEW st, NEW n \in Nodes, Resolved(n, old),
         \A m \in Nodes : old[m].status \in NodeTerminal => st[m] = old[m]
  PROVE Resolved(n, st) /\ (Enabled(n, st) <=> Enabled(n, old))
<1>1. \A e \in In(n) : e.from \in Nodes BY GraphAssumption DEF In
<1>2. \A e \in In(n) : st[e.from] = old[e.from] BY <1>1 DEF Resolved
<1>3. Resolved(n, st) BY <1>2 DEF Resolved
<1>4. \A e \in In(n) : EdgeSatisfied(e, st) <=> EdgeSatisfied(e, old) BY <1>2 DEF EdgeSatisfied
<1> QED BY <1>3, <1>4 DEF Enabled

\* So such steps keep the branches sound.
LEMMA KeepsSound ==
  ASSUME NEW old, NEW st, Sound(old), Keeps(old, st) PROVE Sound(st)
<1> SUFFICES ASSUME NEW n \in Nodes PROVE SoundAt(n, st) BY DEF Sound
<1>1. \A m \in Nodes : old[m].status \in NodeTerminal => st[m] = old[m] BY DEF Keeps
<1>2. SoundAt(n, old) BY DEF Sound
<1>3. Resolved(n, old) => Resolved(n, st) /\ (Enabled(n, st) <=> Enabled(n, old))
  BY <1>1, DecidedForGood
<1> QED BY <1>2, <1>3 DEF SoundAt, Keeps

\* Skipping sweeps to the end: a node it drops has every upstream node over, the
\* dropped ones included, and dropping those satisfies no edge.
LEMMA SkipsSound ==
  ASSUME NEW st \in [Nodes -> NodeState], Sound(st) PROVE Sound(AfterSkips(st))
<1> DEFINE skip == Dropped(st)
           mid == AfterSkips(st)
<1>1. \A m \in Nodes : /\ skip[m] \in BOOLEAN
                       /\ skip[m] <=> Drops(st, skip, m)
                       /\ mid[m] = IF skip[m] THEN Skipped ELSE st[m]
  BY DroppedFacts DEF AfterSkips
<1>2. \A m \in Nodes : skip[m] => st[m].status = "pending" BY <1>1 DEF Drops
<1> HIDE DEF skip, mid
<1>3. \A m \in Nodes : st[m].status \in NodeTerminal => mid[m] = st[m]
  BY <1>1, <1>2 DEF NodeTerminal
<1>4. Skipped.status = "skipped" /\ "skipped" \in NodeTerminal /\ "skipped" \notin Started
  BY DEF Skipped, NodeTerminal, Started
<1>5. ASSUME NEW n \in Nodes, ~skip[n] PROVE SoundAt(n, mid)
  <2>1. mid[n] = st[n] /\ SoundAt(n, st) BY <1>1, <1>5 DEF Sound
  <2>2. Resolved(n, st) => Resolved(n, mid) /\ (Enabled(n, mid) <=> Enabled(n, st))
    BY <1>3, DecidedForGood
  <2> QED BY <2>1, <2>2 DEF SoundAt
<1>6. ASSUME NEW n \in Nodes, skip[n] PROVE SoundAt(n, mid)
  <2>1. \A e \in In(n) : e.from \in Nodes BY GraphAssumption DEF In
  <2>2. /\ \A e \in In(n) : st[e.from].status \in NodeTerminal \/ skip[e.from]
        /\ ~Enabled(n, st)
    BY <1>1, <1>6 DEF Drops
  <2>3. Resolved(n, mid) BY <1>1, <1>3, <1>4, <2>1, <2>2 DEF Resolved
  <2>4. \A e \in In(n) : ~EdgeSatisfied(e, mid)
    BY <1>1, <1>4, <2>1, <2>2 DEF EdgeSatisfied, Enabled
  <2>5. ~Enabled(n, mid) BY <2>4 DEF Enabled
  <2>6. mid[n].status = "skipped" BY <1>1, <1>4, <1>6
  <2> QED BY <1>4, <2>3, <2>5, <2>6 DEF SoundAt
<1> QED BY <1>1, <1>5, <1>6 DEF Sound, mid

\* A node becomes ready for the reason it should.
LEMMA ReadiesSound ==
  ASSUME NEW st \in [Nodes -> NodeState], Sound(st) PROVE Sound(AfterReadies(st))
<1> DEFINE new == AfterReadies(st)
<1>1. ASSUME NEW m \in Nodes
      PROVE \/ new[m] = st[m]
            \/ /\ st[m].status = "pending" /\ new[m] = Ready
               /\ Kind[m] = "input" \/ (Resolved(m, st) /\ Enabled(m, st))
  BY DEF AfterReadies
<1> HIDE DEF new
<1>2. \A m \in Nodes : st[m].status \in NodeTerminal => new[m] = st[m]
  BY <1>1 DEF NodeTerminal
<1> SUFFICES ASSUME NEW n \in Nodes PROVE SoundAt(n, new) BY DEF Sound, new
<1>3. Resolved(n, st) => Resolved(n, new) /\ (Enabled(n, new) <=> Enabled(n, st))
  BY <1>2, DecidedForGood
<1>4. CASE new[n] = st[n]
  <2>1. SoundAt(n, st) BY DEF Sound
  <2> QED BY <1>3, <1>4, <2>1 DEF SoundAt
<1>5. CASE new[n] = Ready /\ (Kind[n] = "input" \/ (Resolved(n, st) /\ Enabled(n, st)))
  <2>1. Ready.status # "skipped" BY DEF Ready
  <2> QED BY <1>3, <1>5, <2>1 DEF SoundAt
<1> QED BY <1>1, <1>4, <1>5

\* Whatever a step does to a run, its branches stay sound.
LEMMA SoundStep ==
  ASSUME RunInv, [Next]_vars, NEW r \in Runs, Sound(node[r]) PROVE Sound(node'[r])
<1>0. RunStep(r) /\ node[r] \in [Nodes -> NodeState]
  BY StepIsRunStep DEF RunInv, TypeInv, DataOK
<1>1. CASE Left(r) BY <1>1 DEF Left
<1>2. CASE MovedNode(r)
  <2>1. PICK n \in Nodes, x \in NodeState : Moves(r, n, x) /\ node'[r] = [node[r] EXCEPT ![n] = x]
    BY <1>2 DEF MovedNode
  <2>2. /\ node'[r][n] = x
        /\ \A m \in Nodes : m # n => node'[r][m] = node[r][m]
    BY <1>0, <2>1
  <2>3. /\ node[r][n].status \in Started /\ node[r][n].status \notin NodeTerminal
        /\ x.status # "skipped"
    BY <1>0, <2>1 DEF Moves, Started, NodeState, NodeTerminal
  <2>4. Keeps(node[r], node'[r]) BY <2>2, <2>3 DEF Keeps
  <2> QED BY <2>4, KeepsSound
<1>3. CASE Paused(r)
  <2>1. PICK p \in Procs :
          /\ node[r][Node(p)].status = "running"
          /\ node'[r] = [node[r] EXCEPT ![Node(p)].status = "waiting_approval"]
    BY <1>3 DEF Paused
  <2>2. /\ "running" \in Started /\ "running" \notin NodeTerminal
        /\ "waiting_approval" # "skipped"
    BY DEF Started, NodeStatuses, NodeTerminal
  <2>3. \A m \in Nodes : /\ m # Node(p) => node'[r][m] = node[r][m]
                         /\ m = Node(p) => node'[r][m].status = "waiting_approval"
    BY <1>0, <2>1 DEF NodeState
  <2>4. Keeps(node[r], node'[r]) BY <2>1, <2>2, <2>3 DEF Keeps
  <2> QED BY <2>4, KeepsSound
<1>4. CASE Settled(r)
  <2>1. PICK st \in [Nodes -> NodeState] : Follows(st, node[r]) /\ node'[r] = Reconciled(st)
    BY <1>4 DEF Settled
  <2>2. ASSUME NEW n \in Nodes
        PROVE /\ node[r][n].status \in NodeTerminal => st[n] = node[r][n]
              /\ st[n] # node[r][n] => node[r][n].status # "pending" /\ st[n].status # "skipped"
    BY <2>1 DEF Follows
  <2>3. \A x \in NodeState : x.status \notin NodeTerminal /\ x.status # "pending" => x.status \in Started
    BY DEF NodeState, Started, NodeTerminal
  <2>4. Keeps(node[r], st) BY <1>0, <2>2, <2>3 DEF Keeps
  <2>5. Sound(AfterSkips(st)) BY <2>4, KeepsSound, SkipsSound
  <2>6. AfterSkips(st) \in [Nodes -> NodeState] BY ReconciledFrame
  <2> QED BY <2>1, <2>5, <2>6, ReadiesSound DEF Reconciled
<1>5. CASE Cancelled(r)
  <2>1. \A n \in Nodes : node'[r][n] = node[r][n] \/
          (node[r][n].status \notin NodeTerminal /\ node'[r][n].status = "cancelled")
    BY <1>5 DEF Cancelled, NodesCancelled
  <2>2. "cancelled" \notin Started BY DEF Started
  <2>3. Keeps(node[r], node'[r]) BY <2>1, <2>2 DEF Keeps
  <2> QED BY <2>3, KeepsSound
<1>6. CASE Orphaned(r)
  <2>1. \A n \in Nodes : node'[r][n] = node[r][n] \/
          /\ node[r][n].status \in {"running", "waiting_approval"}
          /\ node'[r][n].status = "orphaned"
    BY <1>0, <1>6 DEF Orphaned, NodesOrphaned, NodeState
  <2>2. \A s \in {"running", "waiting_approval"} : s \in Started /\ s \notin NodeTerminal
    BY DEF Started, NodeStatuses, NodeTerminal
  <2>3. Keeps(node[r], node'[r]) BY <2>1, <2>2 DEF Keeps
  <2> QED BY <2>3, KeepsSound
<1> QED BY <1>0, <1>1, <1>2, <1>3, <1>4, <1>5, <1>6 DEF RunStep

\* Whatever is cancelled, decided, orphaned or answered late, and for every graph:
\* no node starts before its upstream nodes are over and a branch leads to it, and
\* none is skipped while one might.
THEOREM BranchesAreSound == Spec => []BranchesSound
<1> DEFINE AllSound == \A r \in Runs : Sound(node[r])
<1>1. Init => AllSound
  BY DEF Init, Sound, SoundAt, Pending, Started
<1>2. RunInv /\ AllSound /\ [Next]_vars => AllSound' BY SoundStep
<1>3. AllSound => BranchesSound BY DEF Sound, SoundAt, Resolved, BranchesSound
<1> QED BY <1>1, <1>2, <1>3, RunInvariance, PTL DEF Spec

-------------------------------------------------------------------------------
(* The records of a run *)

\* What the process with the Master lease can rely on: the write task it
\* executes has no ChangeSet yet, nothing was merged since it claimed its node,
\* and the ChangeSet it merges was captured on the current commit.
Informed(p) ==
  /\ proc[p].pc \in {"exec", "agent", "capture", "persist"} /\ Node(p) \in Writes =>
       cs[Run(p)][Node(p)].status = "none"
  /\ proc[p].pc \in {"exec", "agent", "capture", "persist", "m_begin", "m_apply", "m_commit",
                     "m_finalize"} =>
       proc[p].commit = head[Run(p)]
  /\ proc[p].pc \in {"m_apply", "m_commit", "m_finalize", "r_finalize"} =>
       cs[Run(p)][Task(p)].base = head[Run(p)]

\* A process about to wait at a gate has asked for the approval.
Asked(p) == At(p, "wait") => approval[Run(p)][Task(p)].status # "none"

ProcKnowledge == \A p \in Procs : (Fenced(p) => Informed(p)) /\ Asked(p)

\* The records of run r: RecordsAgree, in the parts that the steps disturb.
HeadRecorded(r) == \A w \in Writes : cs[r][w].status = "merged" <=> w \in head[r]
GateRecorded(r) ==
  \A w \in Writes :
    /\ approval[r][w].status = "pending" => cs[r][w].status = "pending_approval"
    /\ approval[r][w].status = "pending" \/ cs[r][w].status \in {"pending_approval", "approved"}
         => ~run[r].cancel
    /\ approval[r][w].status = "invalidated" => run[r].cancel
TasksRecorded(r) ==
  \A w \in Writes : Unstarted(node[r][w]) => cs[r][w].status = "none"
PauseRecorded(r) ==
  run[r].status = "waiting_approval" =>
    \E n \in ApprovalNodes : /\ node[r][n].status = "waiting_approval"
                             /\ approval[r][Source[n]].status = "pending"

Recorded(r) == HeadRecorded(r) /\ GateRecorded(r) /\ TasksRecorded(r) /\ PauseRecorded(r)

RecordInv == RunInv /\ ProcKnowledge /\ \A r \in Runs : Recorded(r)

-------------------------------------------------------------------------------
(* All that a step may do to the records of run r *)

SameCancel(r) == run'[r].cancel = run[r].cancel
SameHead(r) == head'[r] = head[r] /\ SameCancel(r)

Kept(r) ==
  /\ SameHead(r) /\ cs'[r] = cs[r]
  /\ \A w \in Writes : approval'[r][w].status = approval[r][w].status

Judged(r) ==
  /\ SameHead(r) /\ approval'[r] = approval[r]
  /\ \E w \in Writes, x \in CsStatuses \ {"none", "pending_approval", "approved", "merged"} :
       /\ cs[r][w].status \in {"captured", "guard_passed", "test_passed"}
       /\ cs'[r] = [cs[r] EXCEPT ![w].status = x]

Captured(r) ==
  /\ SameHead(r) /\ approval'[r] = approval[r]
  /\ \E w \in Writes, x \in {"captured", "abandoned_partial"}, b \in Commits :
       /\ cs[r][w].status = "none" /\ ~Unstarted(node[r][w])
       /\ cs'[r] = [cs[r] EXCEPT ![w] = [status |-> x, base |-> b]]

Prepared(r) ==
  /\ SameHead(r) /\ ~run[r].cancel
  /\ \E w \in Writes :
       /\ cs[r][w].status \in {"test_passed", "pending_approval"}
       /\ approval[r][w].status = "none"
       /\ approval'[r] = [approval[r] EXCEPT ![w].status = "pending"]
       /\ cs'[r] = [cs[r] EXCEPT ![w].status = "pending_approval"]

Decided(r) ==
  /\ SameHead(r) /\ ~run[r].cancel /\ run'[r].status # "waiting_approval"
  /\ \E w \in Writes, x \in {"approved", "rejected"} :
       /\ cs[r][w].status = "pending_approval" /\ approval[r][w].status = "pending"
       /\ approval'[r] = [approval[r] EXCEPT ![w].status = x]
       /\ cs'[r] = [cs[r] EXCEPT ![w].status = x]

Withdrawn(r) ==
  /\ head'[r] = head[r] /\ run'[r].cancel /\ run'[r].status = "cancelled"
  /\ approval'[r] = ApprovalsInvalidated(r) /\ cs'[r] = ChangeSetsCancelled(r)

MergedOne(r) ==
  /\ SameCancel(r) /\ approval'[r] = approval[r]
  /\ \E w \in Writes :
       /\ cs[r][w].status = "approved" /\ cs[r][w].base = head[r]
       /\ head'[r] = head[r] \cup {w}
       /\ cs'[r] = [cs[r] EXCEPT ![w].status = "merged"]

RecordStep(r) ==
  \/ Kept(r) \/ Judged(r) \/ Captured(r) \/ Prepared(r) \/ Decided(r) \/ Withdrawn(r)
  \/ MergedOne(r)

\* A claimed write task never goes back: only an approved gate is made ready again.
LEMMA WritesOnward ==
  ASSUME RunInv, NEW r \in Runs, RunStep(r), NEW w \in Writes, Unstarted(node'[r][w])
  PROVE Unstarted(node[r][w])
<1>0. w \in Nodes /\ Kind[w] = "write_task" /\ node[r] \in [Nodes -> NodeState]
  BY DEF Writes, RunInv, TypeInv, DataOK
<1>1. CASE Left(r) BY <1>1 DEF Left
<1>2. CASE MovedNode(r) BY <1>0, <1>2 DEF MovedNode, Moves
<1>3. CASE Paused(r)
  BY <1>0, <1>3 DEF Paused, Unstarted, NodeState
<1>4. CASE Settled(r)
  <2>1. PICK st \in [Nodes -> NodeState] : Follows(st, node[r]) /\ node'[r] = Reconciled(st)
    BY <1>4 DEF Settled
  <2>2. Unstarted(st[w]) BY <1>0, <2>1, ReconciledFrame DEF Unstarted
  <2> QED BY <1>0, <2>1, <2>2 DEF Follows
<1>5. CASE Cancelled(r)
  BY <1>0, <1>5 DEF Cancelled, NodesCancelled, Unstarted
<1>6. CASE Orphaned(r)
  BY <1>0, <1>6 DEF Orphaned, NodesOrphaned, Unstarted, NodeState
<1> QED BY <1>1, <1>2, <1>3, <1>4, <1>5, <1>6 DEF RunStep

\* Such a step keeps the head, the gates and the tasks recorded.
LEMMA RecordStepKeeps ==
  ASSUME RecordInv, NEW r \in Runs, RecordStep(r), RunStep(r)
  PROVE HeadRecorded(r)' /\ GateRecorded(r)' /\ TasksRecorded(r)'
<1>0. /\ HeadRecorded(r) /\ GateRecorded(r) /\ TasksRecorded(r) /\ RunInv
      /\ \A w \in Writes : cs[r][w] \in ChangeSetState /\ approval[r][w] \in ApprovalState
      /\ cs[r] \in [Writes -> ChangeSetState] /\ approval[r] \in [Writes -> ApprovalState]
      /\ head[r] \in Commits
  BY DEF RecordInv, Recorded, RunInv, TypeInv, DataOK
<1>1. \A w \in Writes : Unstarted(node'[r][w]) => Unstarted(node[r][w])
  BY <1>0, WritesOnward
<1> USE DEF SameHead, SameCancel
<1>2. CASE Kept(r)
  BY <1>0, <1>1, <1>2 DEF Kept, HeadRecorded, GateRecorded, TasksRecorded
<1>3. CASE Judged(r)
  <2>1. PICK w \in Writes, x \in CsStatuses \ {"none", "pending_approval", "approved", "merged"} :
          /\ cs[r][w].status \in {"captured", "guard_passed", "test_passed"}
          /\ cs'[r] = [cs[r] EXCEPT ![w].status = x]
    BY <1>3 DEF Judged
  <2>2. /\ cs'[r][w].status = x
        /\ \A v \in Writes : v # w => cs'[r][v] = cs[r][v]
    BY <1>0, <2>1 DEF ChangeSetState
  <2> QED BY <1>0, <1>1, <1>3, <2>1, <2>2 DEF Judged, HeadRecorded, GateRecorded, TasksRecorded
<1>4. CASE Captured(r)
  <2>1. PICK w \in Writes, x \in {"captured", "abandoned_partial"}, b \in Commits :
          /\ cs[r][w].status = "none" /\ ~Unstarted(node[r][w])
          /\ cs'[r] = [cs[r] EXCEPT ![w] = [status |-> x, base |-> b]]
    BY <1>4 DEF Captured
  <2>2. /\ cs'[r][w].status = x
        /\ \A v \in Writes : v # w => cs'[r][v] = cs[r][v]
    BY <1>0, <2>1
  <2> QED BY <1>0, <1>1, <1>4, <2>1, <2>2 DEF Captured, HeadRecorded, GateRecorded, TasksRecorded
<1>5. CASE Prepared(r)
  <2>1. PICK w \in Writes :
          /\ cs[r][w].status \in {"test_passed", "pending_approval"}
          /\ approval[r][w].status = "none"
          /\ approval'[r] = [approval[r] EXCEPT ![w].status = "pending"]
          /\ cs'[r] = [cs[r] EXCEPT ![w].status = "pending_approval"]
    BY <1>5 DEF Prepared
  <2>2. /\ cs'[r][w].status = "pending_approval" /\ approval'[r][w].status = "pending"
        /\ \A v \in Writes : v # w => cs'[r][v] = cs[r][v] /\ approval'[r][v] = approval[r][v]
    BY <1>0, <2>1 DEF ChangeSetState, ApprovalState
  <2> QED BY <1>0, <1>1, <1>5, <2>1, <2>2 DEF Prepared, HeadRecorded, GateRecorded, TasksRecorded
<1>6. CASE Decided(r)
  <2>1. PICK w \in Writes, x \in {"approved", "rejected"} :
          /\ cs[r][w].status = "pending_approval" /\ approval[r][w].status = "pending"
          /\ approval'[r] = [approval[r] EXCEPT ![w].status = x]
          /\ cs'[r] = [cs[r] EXCEPT ![w].status = x]
    BY <1>6 DEF Decided
  <2>2. /\ cs'[r][w].status = x /\ approval'[r][w].status = x
        /\ \A v \in Writes : v # w => cs'[r][v] = cs[r][v] /\ approval'[r][v] = approval[r][v]
    BY <1>0, <2>1 DEF ChangeSetState, ApprovalState
  <2> QED BY <1>0, <1>1, <1>6, <2>1, <2>2 DEF Decided, HeadRecorded, GateRecorded, TasksRecorded
<1>7. CASE Withdrawn(r)
  <2>1. \A w \in Writes :
          /\ approval'[r][w].status = IF approval[r][w].status = "pending" THEN "invalidated"
                                      ELSE approval[r][w].status
          /\ cs'[r][w].status = IF cs[r][w].status \in {"pending_approval", "approved"} THEN "cancelled"
                                ELSE cs[r][w].status
    BY <1>0, <1>7
    DEF Withdrawn, ApprovalsInvalidated, ChangeSetsCancelled, ChangeSetState, ApprovalState
  <2> QED BY <1>0, <1>1, <1>7, <2>1 DEF Withdrawn, HeadRecorded, GateRecorded, TasksRecorded
<1>8. CASE MergedOne(r)
  <2>1. PICK w \in Writes :
          /\ cs[r][w].status = "approved"
          /\ head'[r] = head[r] \cup {w}
          /\ cs'[r] = [cs[r] EXCEPT ![w].status = "merged"]
    BY <1>8 DEF MergedOne
  <2>2. /\ cs'[r][w].status = "merged"
        /\ \A v \in Writes : v # w => cs'[r][v] = cs[r][v]
    BY <1>0, <2>1 DEF ChangeSetState
  <2> QED BY <1>0, <1>1, <1>8, <2>1, <2>2 DEF MergedOne, HeadRecorded, GateRecorded, TasksRecorded
<1> QED
  BY <1>2, <1>3, <1>4, <1>5, <1>6, <1>7, <1>8 DEF RecordStep

\* A run that waits has a gate that waits and a pending approval.
LEMMA PauseKept ==
  ASSUME RecordInv, NEW r \in Runs, RecordStep(r), RunStep(r) PROVE PauseRecorded(r)'
<1> SUFFICES ASSUME run'[r].status = "waiting_approval"
             PROVE \E n \in ApprovalNodes : /\ node'[r][n].status = "waiting_approval"
                                            /\ approval'[r][Source[n]].status = "pending"
  BY DEF PauseRecorded
<1>0. /\ approval[r] \in [Writes -> ApprovalState] /\ node[r] \in [Nodes -> NodeState]
      /\ PauseRecorded(r) /\ GateRecorded(r)
  BY DEF RecordInv, Recorded, RunInv, TypeInv, DataOK
<1>1. \A w \in Writes : approval[r][w].status = "pending" => approval'[r][w].status = "pending"
  <2>1. CASE Kept(r) BY <2>1 DEF Kept
  <2>2. CASE Judged(r) \/ Captured(r) \/ MergedOne(r) BY <2>2 DEF Judged, Captured, MergedOne
  <2>3. CASE Prepared(r) BY <1>0, <2>3 DEF Prepared
  <2>4. CASE Decided(r) \/ Withdrawn(r) BY <2>4 DEF Decided, Withdrawn
  <2> QED BY <2>1, <2>2, <2>3, <2>4 DEF RecordStep
<1>2. \A n \in ApprovalNodes : n \in Nodes /\ Source[n] \in Writes
  BY ChainSource DEF ApprovalNodes, ChainKinds
<1>3. CASE Left(r) BY <1>0, <1>1, <1>2, <1>3 DEF Left, PauseRecorded
<1>4. CASE Paused(r)
  <2>1. PICK p \in Procs :
          /\ At(p, "wait") /\ Run(p) = r /\ ~run[r].cancel
          /\ approval[r][Task(p)].status \notin {"approved", "rejected"}
          /\ node'[r] = [node[r] EXCEPT ![Node(p)].status = "waiting_approval"]
    BY <1>4 DEF Paused
  <2>2. Node(p) \in Nodes /\ Node(p) \in ApprovalNodes /\ Task(p) \in Writes
    BY <2>1, LocalFacts DEF RecordInv, RunInv, TypeInv, At, ApprovalNodes
  <2>3. approval[r][Task(p)].status \in ApprovalStatuses \ {"none", "invalidated", "approved", "rejected"}
    BY <1>0, <2>1, <2>2 DEF RecordInv, ProcKnowledge, Asked, GateRecorded, ApprovalState
  <2>4. approval[r][Task(p)].status = "pending" BY <2>3 DEF ApprovalStatuses
  <2>5. node'[r][Node(p)].status = "waiting_approval" BY <1>0, <2>1, <2>2 DEF NodeState
  <2> QED BY <1>1, <2>2, <2>4, <2>5 DEF Task, Node
<1>5. CASE MovedNode(r) \/ Settled(r) \/ Cancelled(r) \/ Orphaned(r)
  BY <1>5, VerdictOfTerminal DEF MovedNode, Settled, Cancelled, Orphaned
<1> QED BY <1>3, <1>4, <1>5 DEF RunStep

\* A finalized merge puts one approved ChangeSet on the current HEAD.
LEMMA FinalizeRecords ==
  ASSUME RecordInv, NEW p \in Procs, At(p, "m_finalize") \/ At(p, "r_finalize"),
         CanFinalize(p, Run(p), Node(p)), Finalize(Run(p), Node(p)), NEW r \in Runs
  PROVE RecordStep(r)
<1>0. DataOK /\ ProcOK BY DEF RecordInv, RunInv, TypeInv
<1>1. Run(p) \in Runs /\ Task(p) \in Writes /\ Task(p) = Source[Node(p)]
  BY <1>0, LocalFacts DEF At, Task, Node
<1>2. run' = [run EXCEPT ![Run(p)].status = RunVerdict(Reconciled([node[Run(p)] EXCEPT ![Node(p)] = Success])),
                         ![Run(p)].finalizing = FALSE]
  BY DEF Finalize
<1>3. SameCancel(r) BY <1>0, <1>1, <1>2 DEF DataOK, RunState, SameCancel
<1>4. cs[Run(p)][Task(p)].base = head[Run(p)] /\ cs[Run(p)][Task(p)].status = "approved"
  BY <1>1 DEF RecordInv, ProcKnowledge, Informed, CanFinalize, At
<1>5. /\ head' = [head EXCEPT ![Run(p)] = head[Run(p)] \cup {Task(p)}]
      /\ cs' = [cs EXCEPT ![Run(p)][Task(p)].status = "merged"]
      /\ approval' = approval
  BY <1>1, <1>4 DEF Finalize, Published, ReviewedBase
<1>6. CASE r = Run(p)
  BY <1>0, <1>1, <1>3, <1>4, <1>5, <1>6 DEF RecordStep, MergedOne, DataOK
<1>7. CASE r # Run(p)
  BY <1>0, <1>1, <1>3, <1>5, <1>7 DEF RecordStep, Kept, SameHead, DataOK
<1> QED BY <1>6, <1>7

\* Every step is one of them, for every run.
LEMMA StepIsRecordStep ==
  ASSUME RecordInv, [Next]_vars, NEW r \in Runs PROVE RecordStep(r)
<1>0. DataOK /\ ProcOK /\ RunInv BY DEF RecordInv, RunInv, TypeInv
<1>1. ASSUME UNCHANGED <<cs, approval, head>>, SameCancel(r) PROVE RecordStep(r)
  BY <1>1 DEF RecordStep, Kept, SameHead
<1>2. CASE UNCHANGED <<run, cs, approval, head>> BY <1>1, <1>2 DEF SameCancel
<1>3. ASSUME NEW u \in Runs, UNCHANGED <<cs, approval, head>>,
             \/ \E b \in BOOLEAN : run' = [run EXCEPT ![u].finalizing = b]
             \/ \E x \in RunStatuses : run' = [run EXCEPT ![u].status = x]
      PROVE RecordStep(r)
  <2>1. ASSUME NEW b \in BOOLEAN, run' = [run EXCEPT ![u].finalizing = b] PROVE SameCancel(r)
    BY <1>0, <2>1 DEF SameCancel, DataOK, RunState
  <2>2. ASSUME NEW x \in RunStatuses, run' = [run EXCEPT ![u].status = x] PROVE SameCancel(r)
    BY <1>0, <2>2 DEF SameCancel, DataOK, RunState
  <2> QED BY <1>1, <1>3, <2>1, <2>2
<1>4. ASSUME NEW u \in Runs, MarkOrphaned(u) PROVE RecordStep(r)
  <2>1. run' = run \/ run' = [run EXCEPT ![u].status = "orphaned"] BY <1>4 DEF MarkOrphaned
  <2>2. UNCHANGED <<cs, approval, head>> BY <1>4 DEF MarkOrphaned
  <2> QED BY <1>2, <1>3, <2>1, <2>2, RunStatusFacts
<1>5. ASSUME NEW u \in Runs, NEW st, Reconcile(u, st), UNCHANGED <<cs, approval, head>>
      PROVE RecordStep(r)
  <2>1. run' = [run EXCEPT ![u].status = RunVerdict(Reconciled(st))] BY <1>5 DEF Reconcile
  <2> QED BY <1>3, <1>5, <2>1, VerdictType
<1>6. ASSUME NEW p \in Procs, Start(p) \/ LeaseLost(p) \/ Stop(p) \/ Crash(p) PROVE RecordStep(r)
  BY <1>2, <1>6 DEF Start, LeaseLost, Stop, Crash, Exit, Leave, runVars
<1>7. ASSUME NEW p \in Procs, NEW u \in Runs, Cancel(p, u) PROVE RecordStep(r)
  <2>1. CASE r = u
    BY <1>0, <1>7, <2>1 DEF Cancel, RecordStep, Withdrawn, DataOK, RunState
  <2>2. CASE r # u
    BY <1>0, <1>7, <2>2 DEF Cancel, RecordStep, Kept, SameHead, SameCancel, DataOK
  <2> QED BY <2>1, <2>2
<1>8. ASSUME NEW p \in Procs, NEW u \in Runs, NEW n \in ApprovalNodes, NEW b \in BOOLEAN,
             Decide(p, u, n, b)
      PROVE RecordStep(r)
  <2>1. n \in Nodes /\ Source[n] \in Writes BY ChainSource DEF ApprovalNodes, ChainKinds
  <2>2. PICK x \in {"approved", "rejected"} :
          /\ approval' = [approval EXCEPT ![u][Source[n]].status = x]
          /\ cs' = [cs EXCEPT ![u][Source[n]].status = x]
    BY <1>8 DEF Decide
  <2>3. /\ cs[u][Source[n]].status = "pending_approval"
        /\ approval[u][Source[n]].status = "pending"
        /\ ~run[u].cancel /\ head' = head /\ Resumable(u, n) /\ Resume(u, n, b)
    BY <1>8 DEF Decide
  <2>4. \/ UNCHANGED run /\ run[u].status = "running"
        \/ \E y \in RunStatuses \ {"waiting_approval"} : run' = [run EXCEPT ![u].status = y]
    <3>1. CASE ~b
      <4> DEFINE st == [node[u] EXCEPT ![n] = Outcome("rejected")]
      <4>1. Reconcile(u, st) BY <2>3, <3>1 DEF Resume
      <4>2. run' = [run EXCEPT ![u].status = RunVerdict(Reconciled(st))] BY <4>1 DEF Reconcile
      <4>3. RunVerdict(Reconciled(st)) \in RunStatuses \ {"waiting_approval"}
        BY VerdictOfTerminal, VerdictType
      <4> QED BY <4>2, <4>3
    <3>2. CASE b /\ node[u][n].status = "waiting_approval"
      <4>1. run' = [run EXCEPT ![u].status = "running"] BY <2>3, <3>2 DEF Resume
      <4> QED BY <4>1, RunStatusFacts
    <3>3. CASE b /\ node[u][n].status # "waiting_approval"
      BY <2>3, <3>3 DEF Resume, Resumable
    <3> QED BY <3>1, <3>2, <3>3
  <2>5. SameHead(r) /\ run'[u].status # "waiting_approval"
    <3>1. CASE UNCHANGED run /\ run[u].status = "running"
      BY <2>3, <3>1 DEF SameHead, SameCancel
    <3>2. ASSUME NEW y \in RunStatuses \ {"waiting_approval"}, run' = [run EXCEPT ![u].status = y]
          PROVE SameHead(r) /\ run'[u].status # "waiting_approval"
      BY <1>0, <2>3, <3>2 DEF SameHead, SameCancel, DataOK, RunState
    <3> QED BY <2>4, <3>1, <3>2
  <2>6. CASE r = u
    <3>1. /\ approval'[r] = [approval[r] EXCEPT ![Source[n]].status = x]
          /\ cs'[r] = [cs[r] EXCEPT ![Source[n]].status = x]
      BY <1>0, <2>2, <2>6 DEF DataOK
    <3> QED BY <2>1, <2>3, <2>5, <2>6, <3>1 DEF RecordStep, Decided
  <2>7. CASE r # u
    BY <1>0, <2>2, <2>5, <2>7 DEF RecordStep, Kept, DataOK
  <2> QED BY <2>6, <2>7
<1>9. ASSUME NEW p \in Procs, Recovering(p) PROVE RecordStep(r)
  <2>1. Run(p) \in Runs BY <1>0, LocalFacts
  <2>2. CASE RecoverNext(p)
    <3>1. UNCHANGED runVars \/ \E u \in Runs : MarkOrphaned(u) BY <2>2 DEF RecoverNext
    <3> QED BY <1>2, <1>4, <3>1 DEF runVars
  <2>3. CASE RecoverFinalize(p) BY <2>3, FinalizeRecords DEF RecoverFinalize
  <2>4. CASE RecoverOrphan(p) BY <1>4, <2>1, <2>4 DEF RecoverOrphan
  <2>5. CASE RecoverClear(p) BY <1>3, <2>1, <2>5 DEF RecoverClear
  <2>6. CASE RecoverDone(p) \/ RecoverHold(p) \/ RecoverInspect(p)
    BY <1>2, <2>6 DEF RecoverDone, RecoverHold, RecoverInspect, runVars
  <2> QED BY <1>9, <2>2, <2>3, <2>4, <2>5, <2>6 DEF Recovering
<1>10. ASSUME NEW p \in Procs, Scheduling(p) PROVE RecordStep(r)
  <2>1. Run(p) \in Runs /\ proc[p].commit \in Commits BY <1>0, LocalFacts
  <2>2. CASE StartAndReconcile(p)
    <3>1. UNCHANGED <<cs, approval, head>> BY <2>2 DEF StartAndReconcile
    <3>2. Reconcile(Run(p), node[Run(p)]) \/ UNCHANGED run BY <2>2 DEF StartAndReconcile
    <3> QED BY <1>2, <1>5, <2>1, <3>1, <3>2
  <2>3. CASE EnterWaiting(p)
    <3>1. UNCHANGED <<cs, approval, head>> BY <2>3 DEF EnterWaiting
    <3>2. \/ \E b \in BOOLEAN : Resume(Run(p), Node(p), b)
          \/ run' = [run EXCEPT ![Run(p)].status = "waiting_approval"]
      BY <2>3 DEF EnterWaiting
    <3>3. \/ Reconcile(Run(p), [node[Run(p)] EXCEPT ![Node(p)] = Outcome("rejected")])
          \/ \E x \in RunStatuses : run' = [run EXCEPT ![Run(p)].status = x]
          \/ UNCHANGED run
      BY <3>2, RunStatusFacts DEF Resume
    <3> QED BY <1>2, <1>3, <1>5, <2>1, <3>1, <3>3
  <2>4. CASE Judge(p)
    <3>1. Node(p) \in Nodes /\ Task(p) \in Writes
      BY <1>0, <2>4, ChainSource, LocalFacts DEF Judge, At, ChainKinds, Task, Node
    <3> DEFINE c == cs[Run(p)][Task(p)].status
    <3>2. PICK x \in Judgements(Node(p), c) \cup {<<Failure, c>>} :
            cs' = [cs EXCEPT ![Run(p)][Task(p)].status = x[2]]
      BY <2>4 DEF Judge
    <3>3. UNCHANGED <<run, approval, head>> BY <2>4 DEF Judge
    <3>4. cs' = cs \/ /\ c \in {"captured", "guard_passed", "test_passed"}
                      /\ x[2] \in CsStatuses \ {"none", "pending_approval", "approved", "merged"}
      <4>1. CASE x = <<Failure, c>>
        <5>1. cs[Run(p)] \in [Writes -> ChangeSetState] /\ cs[Run(p)][Task(p)] \in ChangeSetState
          BY <1>0, <2>1, <3>1 DEF DataOK
        <5>2. [cs[Run(p)][Task(p)] EXCEPT !.status = c] = cs[Run(p)][Task(p)]
          BY <5>1 DEF ChangeSetState
        <5>3. cs' = [cs EXCEPT ![Run(p)][Task(p)] = cs[Run(p)][Task(p)]]
          BY <3>2, <4>1, <5>2
        <5> QED BY <1>0, <2>1, <3>1, <5>3 DEF DataOK
      <4>2. CASE x \in Judgements(Node(p), c) BY <4>2 DEF Judgements, AfterTest, CsStatuses
      <4> QED BY <4>1, <4>2
    <3>5. CASE cs' = cs BY <1>2, <3>3, <3>5
    <3>6. CASE cs' # cs
      <4>1. r # Run(p) => Kept(r)
        BY <1>0, <2>1, <3>2, <3>3 DEF Kept, SameHead, SameCancel, DataOK
      <4>2. r = Run(p) => cs'[r] = [cs[r] EXCEPT ![Task(p)].status = x[2]]
        BY <1>0, <2>1, <3>2 DEF DataOK
      <4>3. r = Run(p) => Judged(r)
        BY <3>1, <3>3, <3>4, <3>6, <4>2 DEF Judged, SameHead, SameCancel
      <4> QED BY <4>1, <4>3 DEF RecordStep
    <3> QED BY <3>5, <3>6
  <2>5. CASE AgentPersist(p)
    <3>1. Node(p) \in Writes /\ Task(p) = Node(p)
      BY <1>0, <2>5, LocalFacts, SourceAssumption DEF AgentPersist, At, Task, Node, Writes
    <3>2. UNCHANGED <<run, approval, head>> BY <2>5 DEF AgentPersist
    <3>3. CASE UNCHANGED cs BY <1>2, <3>2, <3>3
    <3>4. ASSUME NEW x \in {"captured", "abandoned_partial"},
                 node[Run(p)][Node(p)].status = "running",
                 cs' = [cs EXCEPT ![Run(p)][Task(p)] = [status |-> x, base |-> proc[p].commit]]
          PROVE RecordStep(r)
      <4>1. cs[Run(p)][Node(p)].status = "none"
        BY <2>5, <3>1 DEF RecordInv, ProcKnowledge, Informed, AgentPersist, At
      <4>2. ~Unstarted(node[Run(p)][Node(p)]) BY <3>4 DEF Unstarted
      <4>3. r # Run(p) => Kept(r)
        BY <1>0, <2>1, <3>2, <3>4 DEF Kept, SameHead, SameCancel, DataOK
      <4>4. r = Run(p) => cs'[r] = [cs[r] EXCEPT ![Node(p)] = [status |-> x, base |-> proc[p].commit]]
        BY <1>0, <2>1, <3>1, <3>4 DEF DataOK
      <4>5. r = Run(p) => Captured(r)
        BY <2>1, <3>1, <3>2, <4>1, <4>2, <4>4 DEF Captured, SameHead, SameCancel
      <4> QED BY <4>3, <4>5 DEF RecordStep
    <3> QED BY <2>5, <3>3, <3>4 DEF AgentPersist
  <2>6. CASE PrepareApproval(p)
    <3>1. Task(p) \in Writes
      BY <1>0, <2>6, ChainSource, LocalFacts DEF PrepareApproval, At, ChainKinds, Task, Node
    <3>2. UNCHANGED <<run, head>> BY <2>6 DEF PrepareApproval
    <3>3. CASE UNCHANGED <<approval, cs>> BY <1>2, <3>2, <3>3
    <3>4. CASE /\ approval[Run(p)][Task(p)].status = "none" /\ ~run[Run(p)].cancel
               /\ cs[Run(p)][Task(p)].status \in {"test_passed", "pending_approval"}
               /\ approval' = [approval EXCEPT ![Run(p)][Task(p)].status = "pending"]
               /\ cs' = [cs EXCEPT ![Run(p)][Task(p)].status = "pending_approval"]
      <4>1. r # Run(p) => Kept(r)
        BY <1>0, <2>1, <3>2, <3>4 DEF Kept, SameHead, SameCancel, DataOK
      <4>2. r = Run(p) => /\ approval'[r] = [approval[r] EXCEPT ![Task(p)].status = "pending"]
                          /\ cs'[r] = [cs[r] EXCEPT ![Task(p)].status = "pending_approval"]
        BY <1>0, <2>1, <3>4 DEF DataOK
      <4>3. r = Run(p) => Prepared(r)
        BY <3>1, <3>2, <3>4, <4>2 DEF Prepared, SameHead, SameCancel
      <4> QED BY <4>1, <4>3 DEF RecordStep
    <3> QED BY <2>6, <3>3, <3>4 DEF PrepareApproval
  <2>7. CASE Poll(p) \/ ClaimNext(p) \/ CompleteNode(p) \/ Handle(p) \/ AgentBegin(p) \/ AgentEdit(p)
             \/ AgentCapture(p) \/ CompletionRefused(p) \/ CompletionConflict(p) \/ WaitConflict(p)
    BY <1>2, <2>7 DEF Poll, ClaimNext, CompleteNode, Handle, AgentBegin, AgentEdit, AgentCapture,
       CompletionRefused, CompletionConflict, WaitConflict, Exit, Leave, runVars
  <2> QED BY <1>10, <2>2, <2>3, <2>4, <2>5, <2>6, <2>7 DEF Scheduling
<1>11. ASSUME NEW p \in Procs, Merging(p) PROVE RecordStep(r)
  <2>1. Run(p) \in Runs BY <1>0, LocalFacts
  <2>2. CASE MergeFinalize(p) BY <2>2, FinalizeRecords DEF MergeFinalize
  <2>3. CASE MergeBegin(p) \/ MergeClear(p) BY <1>3, <2>1, <2>3 DEF MergeBegin, MergeClear
  <2>4. CASE MergeHold(p) \/ MergeRefused(p) \/ MergeApply(p) \/ MergeCommit(p) \/ MergeDone(p)
             \/ MergeError(p) \/ MergeRestore(p) \/ MergeAmbiguous(p)
    BY <1>2, <2>4 DEF MergeHold, MergeRefused, MergeApply, MergeCommit, MergeDone, MergeError,
       MergeRestore, MergeAmbiguous, Exit, Leave, runVars
  <2> QED BY <1>11, <2>2, <2>3, <2>4 DEF Merging
<1>12. ASSUME NEW u \in Runs, NEW w \in Writes, ApprovalOverdue(u, w) PROVE RecordStep(r)
  BY <1>0, <1>12 DEF ApprovalOverdue, RecordStep, Kept, SameHead, SameCancel, DataOK, ApprovalState
<1>13. CASE UNCHANGED vars \/ MasterExpire \/ \E u \in Runs : WorkspaceExpire(u)
  BY <1>2, <1>13 DEF vars, MasterExpire, WorkspaceExpire, runVars
<1> QED
  BY <1>6, <1>7, <1>8, <1>9, <1>10, <1>11, <1>12, <1>13 DEF Next, Work

-------------------------------------------------------------------------------
(* What the processes know *)

\* A process that did not move still knows what it knew if it does not have the
\* lease, or had it before and no ChangeSet it relies on changed.
LEMMA KnowledgeKept ==
  ASSUME RecordInv, NEW q \in Procs, proc'[q] = proc[q],
         \A r \in Runs, w \in Writes : approval'[r][w].status = "none" => approval[r][w].status = "none",
         master' = q =>
           /\ master = q /\ head' = head
           /\ \A r \in Runs, w \in Writes : /\ cs'[r][w].base = cs[r][w].base
                                            /\ cs[r][w].status = "none" => cs'[r][w].status = "none"
  PROVE (Fenced(q)' => Informed(q)') /\ Asked(q)'
<1>0. ProcOK /\ (Fenced(q) => Informed(q)) /\ Asked(q)
  BY DEF RecordInv, RunInv, TypeInv, ProcKnowledge
<1>1. Run(q)' = Run(q) /\ Node(q)' = Node(q) /\ Task(q)' = Task(q) BY DEF Run, Node, Task
<1>2. /\ Run(q) \in Runs
      /\ At(q, "wait") => Task(q) \in Writes
      /\ proc[q].pc \in {"m_apply", "m_commit", "m_finalize", "r_finalize"} => Task(q) \in Writes
  BY <1>0, LocalFacts DEF At
<1>3. Asked(q)' BY <1>0, <1>1, <1>2 DEF Asked, At
<1>4. Fenced(q)' => Informed(q)'
  BY <1>0, <1>1, <1>2 DEF Fenced, Informed
<1> QED BY <1>3, <1>4

\* The approvals that have been asked for stay asked for.
LEMMA AskedForGood ==
  ASSUME RecordInv, NEW r \in Runs, RecordStep(r), NEW w \in Writes,
         approval'[r][w].status = "none"
  PROVE approval[r][w].status = "none"
<1>0. approval[r] \in [Writes -> ApprovalState] /\ approval[r][w] \in ApprovalState
  BY DEF RecordInv, RunInv, TypeInv, DataOK
<1>1. CASE Kept(r) \/ Judged(r) \/ Captured(r) \/ MergedOne(r)
  BY <1>1 DEF Kept, Judged, Captured, MergedOne
<1>2. CASE Prepared(r)
  BY <1>0, <1>2 DEF Prepared, ApprovalState
<1>3. CASE Decided(r)
  BY <1>0, <1>3 DEF Decided, ApprovalState
<1>4. CASE Withdrawn(r)
  BY <1>0, <1>4 DEF Withdrawn, ApprovalsInvalidated, ApprovalState
<1> QED BY <1>1, <1>2, <1>3, <1>4 DEF RecordStep

\* The labels at which a process relies on nothing.
Careless(p) ==
  proc[p].pc \notin {"exec", "agent", "capture", "persist", "wait", "m_begin", "m_apply", "m_commit",
                     "m_finalize", "r_finalize"}

\* A step of process p: the others do not move, do not get the lease, and have
\* it only if p wrote nothing.
LEMMA StepOfOne ==
  ASSUME RecordInv, [Next]_vars, NEW p \in Procs,
         \A q \in Procs \ {p} : proc'[q] = proc[q] /\ (master' = q => master = q),
         UNCHANGED <<cs, head>> \/ Fenced(p),
         (Fenced(p)' => Informed(p)') /\ Asked(p)'
  PROVE ProcKnowledge'
<1> SUFFICES ASSUME NEW q \in Procs \ {p} PROVE (Fenced(q)' => Informed(q)') /\ Asked(q)'
  BY DEF ProcKnowledge
<1>1. \A r \in Runs, w \in Writes : approval'[r][w].status = "none" => approval[r][w].status = "none"
  BY StepIsRecordStep, AskedForGood
<1>2. master' = q => master = q /\ UNCHANGED <<cs, head>> BY DEF Fenced
<1> QED BY <1>1, <1>2, KnowledgeKept

\* A process that relies on nothing knows all it needs.
LEMMA CarelessKnows ==
  ASSUME NEW p \in Procs, Careless(p)' PROVE (Fenced(p)' => Informed(p)') /\ Asked(p)'
BY DEF Careless, Informed, Asked, At

Alone(p) == \A q \in Procs \ {p} : proc'[q] = proc[q]
AtHome(p) == Run(p)' = Run(p) /\ Node(p)' = Node(p) /\ proc'[p].commit = proc[p].commit

\* Where each kind of step leaves a process.
LEMMA ProcMoves ==
  ASSUME ProcOK, NEW p \in Procs
  PROVE /\ \A l : Goto(p, l) => Alone(p) /\ AtHome(p) /\ proc'[p].pc = l
        /\ \A v : Return(p, v) => Alone(p) /\ AtHome(p) /\ proc'[p].pc = "complete" /\ proc'[p].res = v
        /\ Rest(p) => Alone(p) /\ proc'[p].pc = "poll"
        /\ RecoveredRun(p) => Alone(p) /\ proc'[p].pc = "recover"
        /\ proc' = [proc EXCEPT ![p] = Idle] => Alone(p) /\ proc'[p].pc = "down"
<1>0. proc \in [Procs -> ProcState] /\ proc[p] \in ProcState BY DEF ProcOK
<1>1. ASSUME NEW l, Goto(p, l) PROVE Alone(p) /\ AtHome(p) /\ proc'[p].pc = l
  <2>1. proc' = [proc EXCEPT ![p] = [proc[p] EXCEPT !.pc = l]] BY <1>1 DEF Goto
  <2>2. proc'[p] = [proc[p] EXCEPT !.pc = l] /\ Alone(p) BY <1>0, <2>1 DEF Alone
  <2> QED BY <1>0, <2>2 DEF AtHome, Run, Node, ProcState
<1>2. ASSUME NEW v, Return(p, v)
      PROVE Alone(p) /\ AtHome(p) /\ proc'[p].pc = "complete" /\ proc'[p].res = v
  <2>1. proc' = [proc EXCEPT ![p] = [proc[p] EXCEPT !.pc = "complete", !.res = v]] BY <1>2 DEF Return
  <2>2. proc'[p] = [proc[p] EXCEPT !.pc = "complete", !.res = v] /\ Alone(p) BY <1>0, <2>1 DEF Alone
  <2> QED BY <1>0, <2>2 DEF AtHome, Run, Node, ProcState
<1>3. ASSUME Rest(p) PROVE Alone(p) /\ proc'[p].pc = "poll"
  BY <1>0, <1>3 DEF Rest, Idle, Alone
<1>4. ASSUME RecoveredRun(p) PROVE Alone(p) /\ proc'[p].pc = "recover"
  BY <1>0, <1>4 DEF RecoveredRun, Idle, Alone
<1>5. ASSUME proc' = [proc EXCEPT ![p] = Idle] PROVE Alone(p) /\ proc'[p].pc = "down"
  BY <1>0, <1>5 DEF Idle, Alone
<1> QED BY <1>1, <1>2, <1>3, <1>4, <1>5

\* A step after which p relies on nothing.
LEMMA CarelessStep ==
  ASSUME RecordInv, [Next]_vars, NEW p \in Procs, Alone(p), master' \in {master, p, "none", "dead"},
         UNCHANGED <<cs, head>> \/ Fenced(p), Careless(p)'
  PROVE ProcKnowledge'
<1>1. \A q \in Procs \ {p} : proc'[q] = proc[q] /\ (master' = q => master = q)
  BY ProcAssumption DEF Alone
<1> QED BY <1>1, CarelessKnows, StepOfOne

\* Every step keeps what the processes know, action by action.
LEMMA KnowledgeStep ==
  ASSUME RecordInv, [Next]_vars PROVE ProcKnowledge'
<1>0. DataOK /\ ProcOK /\ ProcKnowledge BY DEF RecordInv, RunInv, TypeInv
<1>1. ASSUME NEW p \in Procs, Leave(p) \/ Crash(p) PROVE ProcKnowledge'
  <2>1. Alone(p) /\ proc'[p].pc = "down" BY <1>0, <1>1, ProcMoves DEF Leave, Crash
  <2>2. Careless(p)' BY <2>1 DEF Careless
  <2>3. UNCHANGED <<cs, head>> /\ master' \in {master, p, "none", "dead"}
    BY <1>1 DEF Leave, Crash, runVars
  <2> QED BY <2>1, <2>2, <2>3, CarelessStep
<1>2. ASSUME NEW p \in Procs, UNCHANGED <<cs, head>> \/ Fenced(p), UNCHANGED master,
             \/ \E v : Return(p, v)
             \/ Rest(p) \/ RecoveredRun(p)
             \/ \E l \in {"recover", "r_hold", "r_inspect", "r_orphan", "tick", "claim", "m_fail",
                          "m_clear", "m_done", "post"} : Goto(p, l)
      PROVE ProcKnowledge'
  <2>1. Alone(p) /\ Careless(p)' BY <1>0, <1>2, ProcMoves DEF Careless
  <2> QED BY <1>2, <2>1, CarelessStep
<1>3. ASSUME NEW p \in Procs, Recovering(p) \/ Start(p) PROVE ProcKnowledge'
  <2>0. proc \in [Procs -> ProcState] /\ proc[p] \in ProcState BY <1>0 DEF ProcOK
  <2>1. CASE Start(p)
    <3>1. Alone(p) /\ proc'[p].pc = "recover" BY <2>0, <2>1 DEF Start, Alone, ProcState
    <3>2. Careless(p)' BY <3>1 DEF Careless
    <3> QED BY <2>1, <3>1, <3>2, CarelessStep DEF Start, runVars
  <2>2. CASE RecoverNext(p)
    <3>1. /\ At(p, "recover") /\ Fenced(p) /\ UNCHANGED master
          /\ \E r \in Runs : \/ proc' = [proc EXCEPT ![p].pc = "r_hold", ![p].run = r]
                             \/ proc' = [proc EXCEPT ![p].todo = @ \ {r}]
      BY <2>2 DEF RecoverNext
    <3>2. Alone(p) BY <2>0, <3>1 DEF Alone
    <3>3. proc'[p].pc \in {"recover", "r_hold"} BY <2>0, <3>1 DEF At, ProcState
    <3>4. Careless(p)' BY <3>3 DEF Careless
    <3> QED BY <3>1, <3>2, <3>4, CarelessStep
  <2>3. CASE RecoverInspect(p)
    <3>1. UNCHANGED <<cs, head, master, approval>> BY <2>3 DEF RecoverInspect, runVars
    <3>2. CASE Goto(p, "r_orphan") BY <1>2, <3>1, <3>2
    <3>3. ASSUME NEW m \in Nodes,
                 proc' = [proc EXCEPT ![p].pc = Inspect(Run(p), Source[m]), ![p].node = m]
          PROVE ProcKnowledge'
      <4>1. Alone(p) BY <2>0, <3>3 DEF Alone
      <4>2. proc'[p] = [proc[p] EXCEPT !.pc = Inspect(Run(p), Source[m]), !.node = m] BY <2>0, <3>3
      <4>3. /\ proc'[p].pc = Inspect(Run(p), Source[m])
            /\ Run(p)' = Run(p) /\ Task(p)' = Source[m]
        BY <2>0, <4>2 DEF ProcState, Run, Task
      <4>4. /\ proc'[p].pc \in {"r_clear", "r_finalize", "r_orphan"}
            /\ proc'[p].pc = "r_finalize" => cs[Run(p)][Source[m]].base = head[Run(p)]
        BY <4>3 DEF Inspect, ReviewedBase
      <4>5. Informed(p)' /\ Asked(p)' BY <3>1, <4>3, <4>4 DEF Informed, Asked, At
      <4> QED BY <3>1, <4>1, <4>5, StepOfOne DEF Alone
    <3> QED BY <2>3, <3>2, <3>3 DEF RecoverInspect
  <2>4. CASE RecoverDone(p) \/ RecoverHold(p)
    BY <1>2, <2>4 DEF RecoverDone, RecoverHold, runVars
  <2>5. CASE RecoverClear(p) \/ RecoverFinalize(p) \/ RecoverOrphan(p)
    BY <1>2, <2>5 DEF RecoverClear, RecoverFinalize, CanFinalize, RecoverOrphan
  <2> QED BY <1>3, <2>1, <2>2, <2>3, <2>4, <2>5 DEF Recovering
<1>4. ASSUME NEW p \in Procs, UNCHANGED <<cs, head, master>>, Fenced(p) => Informed(p),
             NEW l \in {"agent", "capture", "persist", "m_begin", "m_commit", "m_finalize"},
             Goto(p, l),
             \/ l = "agent" /\ At(p, "exec")
             \/ l = "capture" /\ At(p, "agent")
             \/ l = "persist" /\ At(p, "capture")
             \/ l = "m_begin" /\ At(p, "exec")
             \/ l = "m_commit" /\ At(p, "m_apply")
             \/ l = "m_finalize" /\ At(p, "m_commit")
      PROVE ProcKnowledge'
  <2>1. Alone(p) /\ AtHome(p) /\ proc'[p].pc = l BY <1>0, <1>4, ProcMoves
  <2>2. Task(p)' = Task(p) BY <2>1 DEF AtHome, Task, Node
  <2>3. Fenced(p)' => Informed(p)'
    BY <1>4, <2>1, <2>2 DEF Informed, AtHome, At, Fenced
  <2>4. Asked(p)' BY <1>4, <2>1 DEF Asked, At
  <2> QED BY <1>4, <2>1, <2>3, <2>4, StepOfOne DEF Alone
<1>5. ASSUME NEW p \in Procs, Scheduling(p) PROVE ProcKnowledge'
  <2>0. /\ proc \in [Procs -> ProcState] /\ proc[p] \in ProcState /\ Run(p) \in Runs
        /\ Fenced(p) => Informed(p)
    BY <1>0, LocalFacts DEF ProcOK, ProcKnowledge
  <2>1. CASE Poll(p)
    <3>1. At(p, "poll") /\ Fenced(p) /\ UNCHANGED master BY <2>1 DEF Poll
    <3>2. UNCHANGED proc \/ \E r \in Runs : proc' = [proc EXCEPT ![p].pc = "tick", ![p].run = r]
      BY <2>1 DEF Poll
    <3>3. Alone(p) BY <2>0, <3>2 DEF Alone
    <3>4. proc'[p].pc \in {"poll", "tick"} BY <2>0, <3>1, <3>2 DEF At, ProcState
    <3>5. Careless(p)' BY <3>4 DEF Careless
    <3> QED BY <3>1, <3>3, <3>5, CarelessStep
  <2>2. CASE ClaimNext(p)
    <3>1. Fenced(p) /\ UNCHANGED <<cs, head, master>> BY <2>2 DEF ClaimNext
    <3>2. CASE Goto(p, "post") BY <1>2, <3>1, <3>2
    <3>3. ASSUME NEW n \in ReadyNodes(node[Run(p)]),
                 proc' = [proc EXCEPT ![p].pc = "exec", ![p].node = n, ![p].commit = head[Run(p)]]
          PROVE ProcKnowledge'
      <4>1. Alone(p) BY <2>0, <3>3 DEF Alone
      <4>2. proc'[p] = [proc[p] EXCEPT !.pc = "exec", !.node = n, !.commit = head[Run(p)]]
        BY <2>0, <3>3
      <4>3. /\ proc'[p].pc = "exec" /\ Run(p)' = Run(p) /\ Node(p)' = n
            /\ proc'[p].commit = head[Run(p)]
        BY <2>0, <4>2 DEF ProcState, Run, Node
      <4>4. n \in Writes => cs[Run(p)][n].status = "none"
        BY <2>0, <3>3 DEF RecordInv, Recorded, TasksRecorded, Unstarted, ReadyNodes
      <4>5. Informed(p)' /\ Asked(p)' BY <3>1, <4>3, <4>4 DEF Informed, Asked, At
      <4> QED BY <3>1, <4>1, <4>5, StepOfOne DEF Alone
    <3> QED BY <2>2, <3>2, <3>3 DEF ClaimNext, FirstReady
  <2>3. CASE PrepareApproval(p)
    <3>1. Fenced(p) /\ UNCHANGED master /\ Kind[Node(p)] = "approval" /\ At(p, "exec")
      BY <2>3 DEF PrepareApproval
    <3>2. CASE \E v : Return(p, v) BY <1>2, <3>1, <3>2
    <3>3. CASE /\ Goto(p, "wait")
               /\ approval' = [approval EXCEPT ![Run(p)][Task(p)].status = "pending"]
      <4>1. Alone(p) /\ AtHome(p) /\ proc'[p].pc = "wait" BY <1>0, <3>3, ProcMoves
      <4>2. Task(p)' = Task(p) BY <4>1 DEF AtHome, Task, Node
      <4>3. Task(p) \in Writes
        BY <1>0, <3>1, ChainSource, LocalFacts DEF At, ChainKinds, Task, Node
      <4>4. approval'[Run(p)][Task(p)].status = "pending"
        BY <1>0, <2>0, <3>3, <4>3 DEF DataOK, ApprovalState
      <4>5. Informed(p)' /\ Asked(p)' BY <4>1, <4>2, <4>4 DEF Informed, Asked, At, AtHome
      <4> QED BY <3>1, <4>1, <4>5, StepOfOne DEF Alone
    <3> QED BY <2>3, <3>2, <3>3 DEF PrepareApproval
  <2>4. CASE StartAndReconcile(p) \/ CompleteNode(p) \/ Judge(p) \/ AgentPersist(p) \/ EnterWaiting(p)
    BY <1>2, <2>4 DEF StartAndReconcile, CompleteNode, Judge, AgentPersist, EnterWaiting
  <2>5. CASE Handle(p) BY <1>2, <2>5 DEF Handle, runVars
  <2>6. CASE CompletionRefused(p) \/ CompletionConflict(p) \/ WaitConflict(p)
    BY <1>1, <2>6 DEF CompletionRefused, CompletionConflict, WaitConflict, Exit
  <2>7. CASE AgentBegin(p) BY <1>2, <1>4, <2>0, <2>7 DEF AgentBegin, runVars
  <2>8. CASE AgentEdit(p) BY <1>4, <2>0, <2>8 DEF AgentEdit, runVars
  <2>9. CASE AgentCapture(p) BY <1>2, <1>4, <2>0, <2>9 DEF AgentCapture, runVars
  <2> QED BY <1>5, <2>1, <2>2, <2>3, <2>4, <2>5, <2>6, <2>7, <2>8, <2>9 DEF Scheduling
<1>6. ASSUME NEW p \in Procs, Merging(p) PROVE ProcKnowledge'
  <2>0. Fenced(p) => Informed(p) BY <1>0 DEF ProcKnowledge
  <2>1. CASE MergeHold(p) BY <1>2, <1>4, <2>0, <2>1 DEF MergeHold, runVars
  <2>2. CASE MergeBegin(p)
    <3>1. /\ Fenced(p) /\ UNCHANGED <<cs, head, master>> /\ Goto(p, "m_apply") /\ At(p, "m_begin")
          /\ cs[Run(p)][Task(p)].base = proc[p].commit
      BY <2>2 DEF MergeBegin, MayBegin, OnReviewedBase, ReviewedBase
    <3>2. Alone(p) /\ AtHome(p) /\ proc'[p].pc = "m_apply" BY <1>0, <3>1, ProcMoves
    <3>3. Task(p)' = Task(p) BY <3>2 DEF AtHome, Task, Node
    <3>4. proc[p].commit = head[Run(p)] BY <2>0, <3>1 DEF Informed, At
    <3>5. Informed(p)' /\ Asked(p)' BY <3>1, <3>2, <3>3, <3>4 DEF Informed, Asked, At, AtHome
    <3> QED BY <3>1, <3>2, <3>5, StepOfOne DEF Alone
  <2>3. CASE MergeApply(p) BY <1>4, <2>0, <2>3 DEF MergeApply, runVars
  <2>4. CASE MergeCommit(p) BY <1>4, <2>0, <2>4 DEF MergeCommit, runVars
  <2>5. CASE MergeFinalize(p) BY <1>2, <2>5 DEF MergeFinalize, CanFinalize
  <2>6. CASE MergeRefused(p) \/ MergeError(p) \/ MergeRestore(p) \/ MergeDone(p) \/ MergeClear(p)
    BY <1>2, <2>6 DEF MergeRefused, MergeError, MergeRestore, MergeDone, MergeClear, runVars
  <2>7. CASE MergeAmbiguous(p) BY <1>1, <2>7 DEF MergeAmbiguous, Exit
  <2> QED BY <1>6, <2>1, <2>2, <2>3, <2>4, <2>5, <2>6, <2>7 DEF Merging
<1>7. ASSUME UNCHANGED proc, master' \in {master, "none"}, head' = head,
             \A r \in Runs, w \in Writes : /\ cs'[r][w].base = cs[r][w].base
                                           /\ cs[r][w].status = "none" => cs'[r][w].status = "none"
      PROVE ProcKnowledge'
  <2>1. \A r \in Runs, w \in Writes : approval'[r][w].status = "none" => approval[r][w].status = "none"
    BY StepIsRecordStep, AskedForGood
  <2> SUFFICES ASSUME NEW q \in Procs PROVE (Fenced(q)' => Informed(q)') /\ Asked(q)'
    BY DEF ProcKnowledge
  <2>2. master' = q => master = q BY <1>7, ProcAssumption
  <2> QED BY <1>7, <2>1, <2>2, KnowledgeKept
<1>8. ASSUME NEW p \in Procs, NEW u \in Runs, Cancel(p, u) PROVE ProcKnowledge'
  <2>1. \A r \in Runs, w \in Writes : /\ cs'[r][w].base = cs[r][w].base
                                      /\ cs[r][w].status = "none" => cs'[r][w].status = "none"
    BY <1>0, <1>8 DEF Cancel, ChangeSetsCancelled, DataOK, ChangeSetState
  <2> QED BY <1>7, <1>8, <2>1 DEF Cancel
<1>9. ASSUME NEW p \in Procs, NEW u \in Runs, NEW n \in ApprovalNodes, NEW b \in BOOLEAN,
             Decide(p, u, n, b)
      PROVE ProcKnowledge'
  <2>1. /\ cs' = [cs EXCEPT ![u][Source[n]].status = IF b THEN "approved" ELSE "rejected"]
        /\ cs[u][Source[n]].status # "none"
        /\ UNCHANGED <<proc, master, head>>
    BY <1>9 DEF Decide
  <2>2. \A r \in Runs, w \in Writes : /\ cs'[r][w].base = cs[r][w].base
                                      /\ cs[r][w].status = "none" => cs'[r][w].status = "none"
    BY <1>0, <2>1 DEF DataOK, ChangeSetState
  <2> QED BY <1>7, <2>1, <2>2
<1>10. CASE UNCHANGED vars \/ MasterExpire \/ (\E u \in Runs : WorkspaceExpire(u))
            \/ \E u \in Runs, w \in Writes : ApprovalOverdue(u, w)
  BY <1>7, <1>10 DEF vars, MasterExpire, WorkspaceExpire, ApprovalOverdue, runVars
<1>11. ASSUME NEW p \in Procs, LeaseLost(p) \/ Stop(p) \/ Crash(p) PROVE ProcKnowledge'
  BY <1>1, <1>11 DEF LeaseLost, Stop, Exit
<1> QED
  BY <1>3, <1>5, <1>6, <1>8, <1>9, <1>10, <1>11 DEF Next, Work

-------------------------------------------------------------------------------

\* So the records are in order throughout.
LEMMA RecordInvariance == Spec => []RecordInv
<1>1. Init => RecordInv
  <2> SUFFICES ASSUME Init PROVE RecordInv
    OBVIOUS
  <2>1. RunInv BY InitRuns
  <2>2. ProcKnowledge
    BY DEF Init, ProcKnowledge, Informed, Asked, At, Idle
  <2>3. ASSUME NEW r \in Runs PROVE Recorded(r)
    BY DEF Init, Recorded, HeadRecorded, GateRecorded, TasksRecorded, PauseRecorded
  <2> QED BY <2>1, <2>2, <2>3 DEF RecordInv
<1>2. RecordInv /\ [Next]_vars => RecordInv'
  <2> SUFFICES ASSUME RecordInv, [Next]_vars PROVE RecordInv'
    OBVIOUS
  <2>1. RunInv' BY RunInvStep DEF RecordInv
  <2>2. ASSUME NEW r \in Runs PROVE Recorded(r)'
    <3>1. RecordStep(r) /\ RunStep(r) BY StepIsRecordStep, StepIsRunStep DEF RecordInv
    <3> QED BY <3>1, RecordStepKeeps, PauseKept DEF Recorded
  <2> QED BY <2>1, <2>2, KnowledgeStep DEF RecordInv
<1> QED BY <1>1, <1>2, PTL DEF Spec

\* Whatever is crashed, cancelled, decided or recovered, and however stale the
\* processes that act, the merged ChangeSets are those of the integration HEAD,
\* a pending approval has a ChangeSet that waits for it in a run that is not
\* cancelled, and a run that waits has a gate and an approval to decide.
THEOREM RecordsAlwaysAgree == Spec => []RecordsAgree
<1>1. RecordInv => RecordsAgree
  BY DEF RecordInv, Recorded, HeadRecorded, GateRecorded, PauseRecorded, RecordsAgree, RunInv,
     CancelIsFinal
<1> QED BY <1>1, RecordInvariance, PTL

-------------------------------------------------------------------------------
(* Who executes what *)

\* A node in the hands of a process has been claimed, and neither is it handed back nor
\* does it wait for a user; no node is in the hands of two processes.
Claimed(x) == x.status \notin {"pending", "ready", "waiting_approval"}
ExecInv ==
  /\ ExclusiveExecution
  /\ \A p \in Procs : Executing(p) => Claimed(node[Run(p)][Node(p)])

\* What a step may do to the node that p executes: keep or drop it, or claim a ready one.
Carries(p) == Executing(p)' => Executing(p) /\ Run(p)' = Run(p) /\ Node(p)' = Node(p)
Claims(p) ==
  /\ ~Executing(p) /\ Run(p)' = Run(p) /\ Node(p)' \in Nodes
  /\ node[Run(p)][Node(p)'].status = "ready"
  /\ node'[Run(p)][Node(p)'].status = "running"

\* Every step leaves every process with the node it had, or lets one claim a node.
LEMMA StepCarries ==
  ASSUME RunInv, [Next]_vars
  PROVE (\A q \in Procs : Carries(q)) \/ \E p \in Procs : Alone(p) /\ Claims(p)
<1>0. ProcOK /\ DataOK /\ proc \in [Procs -> ProcState] BY DEF RunInv, TypeInv, ProcOK
<1> DEFINE Goal == (\A q \in Procs : Carries(q)) \/ \E p \in Procs : Alone(p) /\ Claims(p)
<1>1. ASSUME NEW p \in Procs, Alone(p), Carries(p) PROVE Goal
  BY <1>1 DEF Alone, Carries, Executing, Run, Node
<1>2. CASE UNCHANGED proc BY <1>2 DEF Carries, Executing, Run, Node
<1>3. ASSUME NEW p \in Procs, Alone(p), ~Executing(p)' PROVE Goal BY <1>1, <1>3 DEF Carries
<1>4. ASSUME NEW p \in Procs, Leave(p) \/ Crash(p) \/ Rest(p) \/ RecoveredRun(p) PROVE Goal
  <2>1. Alone(p) /\ proc'[p].pc \in {"down", "poll", "recover"}
    BY <1>0, <1>4, ProcMoves DEF Leave, Crash
  <2> QED BY <1>3, <2>1 DEF Executing
<1>5. ASSUME NEW p \in Procs, NEW l, Goto(p, l),
             Executing(p) \/ l \in {"r_inspect", "r_orphan", "claim", "post"}
      PROVE Goal
  <2>1. Alone(p) /\ AtHome(p) /\ proc'[p].pc = l BY <1>0, <1>5, ProcMoves
  <2> QED BY <1>1, <1>5, <2>1 DEF Carries, AtHome, Executing
<1>6. ASSUME NEW p \in Procs, NEW v, Return(p, v), Executing(p) PROVE Goal
  <2>1. Alone(p) /\ AtHome(p) BY <1>0, <1>6, ProcMoves
  <2> QED BY <1>1, <1>6, <2>1 DEF Carries, AtHome
<1>7. ASSUME NEW p \in Procs, Start(p) \/ Recovering(p) PROVE Goal
  <2>0. proc[p] \in ProcState BY <1>0
  <2>1. CASE Start(p)
    <3>1. Alone(p) /\ proc'[p].pc = "recover" BY <1>0, <2>0, <2>1 DEF Start, Alone, ProcState
    <3> QED BY <1>3, <3>1 DEF Executing
  <2>2. CASE RecoverNext(p)
    <3>1. At(p, "recover") /\ \E r \in Runs : \/ proc' = [proc EXCEPT ![p].pc = "r_hold", ![p].run = r]
                                            \/ proc' = [proc EXCEPT ![p].todo = @ \ {r}]
      BY <2>2 DEF RecoverNext
    <3>2. Alone(p) BY <1>0, <3>1 DEF Alone
    <3>3. proc'[p].pc \in {"recover", "r_hold"} BY <1>0, <2>0, <3>1 DEF At, ProcState
    <3> QED BY <1>3, <3>2, <3>3 DEF Executing
  <2>3. CASE RecoverInspect(p)
    <3>1. CASE Goto(p, "r_orphan") BY <1>5, <3>1
    <3>2. ASSUME NEW m \in Nodes,
                 proc' = [proc EXCEPT ![p].pc = Inspect(Run(p), Source[m]), ![p].node = m]
          PROVE Goal
      <4>1. Alone(p) BY <1>0, <3>2 DEF Alone
      <4>2. proc'[p] = [proc[p] EXCEPT !.pc = Inspect(Run(p), Source[m]), !.node = m]
        BY <1>0, <3>2
      <4>3. proc'[p].pc = Inspect(Run(p), Source[m]) BY <2>0, <4>2 DEF ProcState
      <4>4. proc'[p].pc \in {"r_clear", "r_finalize", "r_orphan"} BY <4>3 DEF Inspect
      <4> QED BY <1>3, <4>1, <4>4 DEF Executing
    <3> QED BY <2>3, <3>1, <3>2 DEF RecoverInspect
  <2>4. CASE RecoverHold(p) BY <1>5, <2>4 DEF RecoverHold
  <2>5. CASE RecoverDone(p) \/ RecoverClear(p) \/ RecoverFinalize(p) \/ RecoverOrphan(p)
    BY <1>4, <2>5 DEF RecoverDone, RecoverClear, RecoverFinalize, RecoverOrphan
  <2> QED BY <1>7, <2>1, <2>2, <2>3, <2>4, <2>5 DEF Recovering
<1>8. ASSUME NEW p \in Procs, Scheduling(p) PROVE Goal
  <2>0. proc[p] \in ProcState /\ Run(p) \in Runs BY <1>0, LocalFacts
  <2>1. CASE Poll(p)
    <3>1. At(p, "poll") /\ (UNCHANGED proc \/ \E r \in Runs : proc' = [proc EXCEPT ![p].pc = "tick", ![p].run = r])
      BY <2>1 DEF Poll
    <3>2. Alone(p) BY <1>0, <3>1 DEF Alone
    <3>3. proc'[p].pc \in {"poll", "tick"} BY <1>0, <2>0, <3>1 DEF At, ProcState
    <3> QED BY <1>3, <3>2, <3>3 DEF Executing
  <2>2. CASE StartAndReconcile(p) BY <1>4, <1>5, <2>2 DEF StartAndReconcile
  <2>3. CASE ClaimNext(p)
    <3>1. CASE Goto(p, "post") BY <1>5, <3>1
    <3>2. ASSUME NEW n \in ReadyNodes(node[Run(p)]),
                 node' = [node EXCEPT ![Run(p)][n].status = "running"],
                 proc' = [proc EXCEPT ![p].pc = "exec", ![p].node = n, ![p].commit = head[Run(p)]]
          PROVE Goal
      <4>1. Alone(p) BY <1>0, <3>2 DEF Alone
      <4>2. proc'[p] = [proc[p] EXCEPT !.pc = "exec", !.node = n, !.commit = head[Run(p)]]
        BY <1>0, <3>2
      <4>3. Run(p)' = Run(p) /\ Node(p)' = n BY <2>0, <4>2 DEF ProcState, Run, Node
      <4>4. n \in Nodes /\ node[Run(p)][n].status = "ready" BY <3>2 DEF ReadyNodes
      <4>5. node[Run(p)] \in [Nodes -> NodeState] /\ node[Run(p)][n] \in NodeState
        BY <1>0, <2>0, <4>4 DEF DataOK
      <4>6. node'[Run(p)] = [node[Run(p)] EXCEPT ![n].status = "running"]
        BY <1>0, <2>0, <3>2 DEF DataOK
      <4>7. node'[Run(p)][n].status = "running" BY <4>4, <4>5, <4>6 DEF NodeState
      <4>8. ~Executing(p) BY <2>3 DEF ClaimNext, At, Executing
      <4>9. Claims(p) BY <4>3, <4>4, <4>7, <4>8 DEF Claims
      <4> QED BY <4>1, <4>9
    <3> QED BY <2>3, <3>1, <3>2 DEF ClaimNext, FirstReady
  <2>4. CASE CompletionRefused(p) \/ CompletionConflict(p) \/ WaitConflict(p)
    BY <1>4, <2>4 DEF CompletionRefused, CompletionConflict, WaitConflict, Exit
  <2>5. CASE Handle(p) \/ Judge(p) \/ AgentPersist(p)
    <3>1. Executing(p) BY <2>5 DEF Handle, Judge, AgentPersist, At, Executing
    <3>2. \E v : Return(p, v) BY <2>5 DEF Handle, Judge, AgentPersist
    <3> QED BY <1>6, <3>1, <3>2
  <2>6. CASE CompleteNode(p) \/ EnterWaiting(p) BY <1>5, <2>6 DEF CompleteNode, EnterWaiting
  <2>7. CASE AgentBegin(p) \/ AgentEdit(p) \/ AgentCapture(p) \/ PrepareApproval(p)
    <3>1. Executing(p) BY <2>7 DEF AgentBegin, AgentEdit, AgentCapture, PrepareApproval, At, Executing
    <3>2. (\E l : Goto(p, l)) \/ \E v : Return(p, v)
      BY <2>7 DEF AgentBegin, AgentEdit, AgentCapture, PrepareApproval
    <3> QED BY <1>5, <1>6, <3>1, <3>2
  <2> QED BY <1>8, <2>1, <2>2, <2>3, <2>4, <2>5, <2>6, <2>7 DEF Scheduling
<1>9. ASSUME NEW p \in Procs, Merging(p) PROVE Goal
  <2>1. CASE MergeAmbiguous(p) BY <1>4, <2>1 DEF MergeAmbiguous, Exit
  <2>2. CASE MergeHold(p) \/ MergeBegin(p) \/ MergeRefused(p) \/ MergeApply(p) \/ MergeCommit(p)
    <3>1. Executing(p) BY <2>2 DEF MergeHold, MergeBegin, MergeRefused, MergeApply, MergeCommit, At, Executing
    <3>2. (\E l : Goto(p, l)) \/ \E v : Return(p, v)
      BY <2>2 DEF MergeHold, MergeBegin, MergeRefused, MergeApply, MergeCommit
    <3> QED BY <1>5, <1>6, <3>1, <3>2
  <2>3. CASE MergeFinalize(p) \/ MergeDone(p) \/ MergeError(p) \/ MergeRestore(p) \/ MergeClear(p)
    <3>1. Executing(p) BY <2>3 DEF MergeFinalize, MergeDone, MergeError, MergeRestore, MergeClear, At, Executing
    <3>2. (\E l : Goto(p, l)) \/ \E v : Return(p, v)
      BY <2>3 DEF MergeFinalize, MergeDone, MergeError, MergeRestore, MergeClear
    <3> QED BY <1>5, <1>6, <3>1, <3>2
  <2> QED BY <1>9, <2>1, <2>2, <2>3 DEF Merging
<1>10. ASSUME NEW p \in Procs, LeaseLost(p) \/ Stop(p) \/ Crash(p) PROVE Goal
  BY <1>4, <1>10 DEF LeaseLost, Stop, Exit
<1>11. ASSUME NEW p \in Procs, NEW r \in Runs,
              Cancel(p, r) \/ \E n \in ApprovalNodes, b \in BOOLEAN : Decide(p, r, n, b)
       PROVE Goal
  BY <1>2, <1>11 DEF Cancel, Decide
<1>12. CASE UNCHANGED vars \/ MasterExpire \/ (\E r \in Runs : WorkspaceExpire(r))
            \/ \E r \in Runs, w \in Writes : ApprovalOverdue(r, w)
  BY <1>2, <1>12 DEF vars, MasterExpire, WorkspaceExpire, ApprovalOverdue
<1> QED
  BY <1>7, <1>8, <1>9, <1>10, <1>11, <1>12 DEF Next, Work

\* A node in the hands of a process stays claimed while it is there.
LEMMA StaysClaimed ==
  ASSUME RunInv, ExecInv, NEW p \in Procs, Executing(p), Executing(p)', NEW n \in Nodes, Node(p) = n,
         NEW r \in Runs, Run(p) = r, RunStep(r)
  PROVE Claimed(node'[r][n])
<1>0. node[r] \in [Nodes -> NodeState] /\ node[r][n] \in NodeState /\ Claimed(node[r][n])
  BY DEF RunInv, TypeInv, DataOK, ExecInv
<1>1. CASE Left(r) BY <1>0, <1>1 DEF Left
<1>2. CASE MovedNode(r)
  BY <1>0, <1>2 DEF MovedNode, Moves, Claimed, Unstarted
<1>3. CASE Paused(r)
  <2>1. PICK q \in Procs :
          /\ At(q, "wait") /\ Run(q) = r /\ proc'[q].pc = "post"
          /\ node'[r] = [node[r] EXCEPT ![Node(q)].status = "waiting_approval"]
    BY <1>3 DEF Paused
  <2>2. q # p /\ Executing(q) BY <2>1 DEF At, Executing
  <2>3. Node(q) # n BY <2>1, <2>2 DEF ExecInv, ExclusiveExecution
  <2> QED BY <1>0, <2>1, <2>3
<1>4. CASE Settled(r)
  <2>1. PICK st \in [Nodes -> NodeState] : Follows(st, node[r]) /\ node'[r] = Reconciled(st)
    BY <1>4 DEF Settled
  <2>2. Claimed(st[n]) BY <1>0, <2>1 DEF Follows, Claimed, Unstarted
  <2> QED BY <2>1, <2>2, ReconciledFrame DEF Claimed
<1>5. CASE Cancelled(r)
  <2>1. node'[r][n] = node[r][n] \/ node'[r][n].status = "cancelled"
    BY <1>5 DEF Cancelled, NodesCancelled
  <2> QED BY <1>0, <2>1 DEF Claimed
<1>6. CASE Orphaned(r)
  <2>1. node'[r][n] = node[r][n] \/ node'[r][n].status = "orphaned"
    BY <1>0, <1>6 DEF Orphaned, NodesOrphaned, NodeState
  <2> QED BY <1>0, <2>1 DEF Claimed
<1> QED BY <1>1, <1>2, <1>3, <1>4, <1>5, <1>6 DEF RunStep

\* The nodes that processes execute.
LEMMA ExecutesNode ==
  ASSUME ProcOK, NEW p \in Procs, Executing(p) PROVE Node(p) \in Nodes /\ Run(p) \in Runs
BY LocalFacts DEF Executing

\* A step keeps them apart: a ready node is in nobody's hands.
LEMMA ExecInvStep == RunInv /\ ExecInv /\ [Next]_vars => ExecInv'
<1> SUFFICES ASSUME RunInv, ExecInv, [Next]_vars PROVE ExecInv'
  OBVIOUS
<1>0. ProcOK BY DEF RunInv, TypeInv
<1>1. ASSUME NEW p \in Procs, Executing(p)', Carries(p)
      PROVE Claimed(node[Run(p)][Node(p)])'
  <2>1. Executing(p) /\ Run(p)' = Run(p) /\ Node(p)' = Node(p) BY <1>1 DEF Carries
  <2>2. Node(p) \in Nodes /\ Run(p) \in Runs BY <1>0, <2>1, ExecutesNode
  <2>3. Claimed(node'[Run(p)][Node(p)]) BY <1>1, <2>1, <2>2, StaysClaimed, StepIsRunStep
  <2> QED BY <2>1, <2>3 DEF Claimed
<1>2. CASE \A q \in Procs : Carries(q)
  <2>1. \A p \in Procs : Executing(p)' => Claimed(node[Run(p)][Node(p)])' BY <1>1, <1>2
  <2>2. ExclusiveExecution'
    <3> SUFFICES ASSUME NEW p \in Procs, NEW q \in Procs, p # q, Executing(p)', Executing(q)'
                 PROVE Run(p)' # Run(q)' \/ Node(p)' # Node(q)'
      BY DEF ExclusiveExecution
    <3>1. /\ Executing(p) /\ Run(p)' = Run(p) /\ Node(p)' = Node(p)
          /\ Executing(q) /\ Run(q)' = Run(q) /\ Node(q)' = Node(q)
      BY <1>2 DEF Carries
    <3> QED BY <3>1 DEF ExecInv, ExclusiveExecution
  <2> QED BY <2>1, <2>2 DEF ExecInv
<1>3. ASSUME NEW p \in Procs, Alone(p), Claims(p) PROVE ExecInv'
  <2>1. ASSUME NEW q \in Procs \ {p} PROVE Carries(q)
    BY <1>3 DEF Alone, Carries, Executing, Run, Node
  <2>2. Claimed(node[Run(p)][Node(p)])' BY <1>3 DEF Claims, Claimed
  <2>3. ASSUME NEW q \in Procs \ {p}, Executing(q)'
        PROVE Run(q)' # Run(p)' \/ Node(q)' # Node(p)'
    <3>1. Executing(q) /\ Run(q)' = Run(q) /\ Node(q)' = Node(q) BY <2>1, <2>3 DEF Carries
    <3>2. Claimed(node[Run(q)][Node(q)]) BY <3>1 DEF ExecInv
    <3>3. node[Run(p)][Node(p)'].status = "ready" /\ Run(p)' = Run(p) BY <1>3 DEF Claims
    <3> QED BY <3>1, <3>2, <3>3 DEF Claimed
  <2>4. ExclusiveExecution'
    <3> SUFFICES ASSUME NEW u \in Procs, NEW q \in Procs, u # q, Executing(u)', Executing(q)'
                 PROVE Run(u)' # Run(q)' \/ Node(u)' # Node(q)'
      BY DEF ExclusiveExecution
    <3>1. CASE u = p \/ q = p BY <2>3, <3>1
    <3>2. CASE u # p /\ q # p
      <4>1. /\ Executing(u) /\ Run(u)' = Run(u) /\ Node(u)' = Node(u)
            /\ Executing(q) /\ Run(q)' = Run(q) /\ Node(q)' = Node(q)
        BY <2>1, <3>2 DEF Carries
      <4> QED BY <4>1 DEF ExecInv, ExclusiveExecution
    <3> QED BY <3>1, <3>2
  <2> QED BY <1>1, <2>1, <2>2, <2>4 DEF ExecInv
<1> QED BY <1>2, <1>3, StepCarries

\* No node is executed twice, however stale the processes: a node that recovery found running is
\* orphaned, never handed out again, and a node is handed out only while it is in nobody's hands.
THEOREM NodesExecutedOnce == Spec => []ExclusiveExecution
<1>1. Init => ExecInv
  BY DEF Init, ExecInv, ExclusiveExecution, Executing, Idle
<1>2. ExecInv => ExclusiveExecution BY DEF ExecInv
<1> QED BY <1>1, <1>2, ExecInvStep, RunInvariance, PTL DEF Spec

-------------------------------------------------------------------------------
(* The database and the repository, while no lease expires under a living owner *)

\* A process that is up holds the Master lease.
Sole == \A p \in Procs : ~At(p, "down") => master = p

Soiled == {"running", "orphaned", "failed", "cancelled"}

\* What dirt there is in the workspace of p is not the dirt of its own node.
Innocent(p) ==
  \/ ~repo[Run(p)].dirty \/ run[Run(p)].finalizing
  \/ \E n \in Writes \ {Node(p)} : node[Run(p)][n].status \in Soiled

\* What a process knows of the repository of its run: a merge that has begun stands under
\* the mark, on the commit it was claimed on; what it found or published there is still
\* there; a captured workspace is clean; a write task that has not begun, or did not fail,
\* left no dirt; one that has not been captured is not over, unless its run is.
Sees(p) ==
  /\ proc[p].pc \in {"m_apply", "m_commit", "m_finalize", "m_fail", "m_clear"} =>
       run[Run(p)].finalizing /\ proc[p].commit = head[Run(p)]
  /\ At(p, "m_commit") => cs[Run(p)][Task(p)].status = "approved"
  /\ proc[p].pc \in {"m_finalize", "r_finalize"} =>
       repo[Run(p)] = [head |-> head[Run(p)] \cup {Task(p)}, dirty |-> FALSE]
  /\ proc[p].pc \in {"m_clear", "r_clear"} =>
       repo[Run(p)] = [head |-> head[Run(p)], dirty |-> FALSE]
  /\ At(p, "persist") => ~repo[Run(p)].dirty
  /\ At(p, "exec") \/ (At(p, "complete") /\ proc[p].res.status # "failed") =>
       Node(p) \notin Writes \/ Innocent(p)
  /\ proc[p].pc \in {"exec", "agent", "capture"} /\ Node(p) \in Writes =>
       node[Run(p)][Node(p)].status \in {"running", "cancelled", "orphaned"}

\* The repository of run r: HeadsAgree, DirtyAccountedFor, and what of CommitOnlyApproved the
\* records do not say already.
MarkRecorded(r) == run[r].finalizing => ~run[r].cancel
HeadMarked(r) == repo[r].head # head[r] => run[r].finalizing
ExtraApproved(r) == \A w \in repo[r].head \ head[r] : cs[r][w].status = "approved"
ApprovedByUser(r) ==
  \A w \in Writes : cs[r][w].status \in {"approved", "merged"} => approval[r][w].status = "approved"
DirtMarked(r) ==
  repo[r].dirty => run[r].finalizing \/ \E n \in Writes : node[r][n].status \in Soiled

GitRecorded(r) ==
  MarkRecorded(r) /\ HeadMarked(r) /\ ExtraApproved(r) /\ ApprovedByUser(r) /\ DirtMarked(r)

GitInv == ~Stalls /\ Sole /\ (\A p \in Procs : Sees(p)) /\ \A r \in Runs : GitRecorded(r)

\* All that a step may do to the mark of run r: it keeps a cancelled run unmarked, and takes
\* the mark away or moves the integration HEAD only where the repository is clean and at it.
MarkStep(r) ==
  /\ run'[r].finalizing => ~run'[r].cancel
  /\ \/ head'[r] = head[r] /\ (run[r].finalizing => run'[r].finalizing)
     \/ repo[r] = [head |-> head'[r], dirty |-> FALSE]

\* A process that is up is the only one.
LEMMA OthersDown ==
  ASSUME Sole, NEW p \in Procs, ~At(p, "down"), NEW q \in Procs, q # p PROVE At(q, "down")
BY DEF Sole

\* A write task in the making, and the dirt of one that failed, stay what they are.
LEMMA SoiledStays ==
  ASSUME RunInv, NEW r \in Runs, RunStep(r), NEW w \in Writes, node[r][w].status \in Soiled,
         \A p \in Procs : At(p, "complete") /\ Run(p) = r /\ Node(p) = w => proc[p].res.status = "failed"
  PROVE node'[r][w].status \in Soiled
<1>0. w \in Nodes /\ node[r] \in [Nodes -> NodeState] /\ node[r][w] \in NodeState /\ Kind[w] # "approval"
  BY DEF RunInv, TypeInv, DataOK, Writes
<1>1. CASE Left(r) BY <1>1 DEF Left
<1>2. CASE MovedNode(r)
  <2>1. PICK n \in Nodes, x \in NodeState : Moves(r, n, x) /\ node'[r] = [node[r] EXCEPT ![n] = x]
    BY <1>2 DEF MovedNode
  <2>2. CASE n # w BY <1>0, <2>1, <2>2
  <2>3. CASE n = w
    <3>1. node[r][w].status = "running" BY <2>1, <2>3 DEF Moves, Soiled, NodeTerminal
    <3>2. x.status = "failed" BY <2>1, <2>3, <3>1 DEF Moves, Failure
    <3> QED BY <1>0, <2>1, <2>3, <3>2 DEF Soiled
  <2> QED BY <2>2, <2>3
<1>3. CASE Paused(r)
  <2>1. PICK q \in Procs :
          /\ At(q, "wait")
          /\ node'[r] = [node[r] EXCEPT ![Node(q)].status = "waiting_approval"]
    BY <1>3 DEF Paused
  <2>2. Node(q) # w BY <1>0, <2>1, LocalFacts DEF RunInv, TypeInv, At
  <2> QED BY <1>0, <2>1, <2>2
<1>4. CASE Settled(r)
  <2>1. PICK st \in [Nodes -> NodeState] : Follows(st, node[r]) /\ node'[r] = Reconciled(st)
    BY <1>4 DEF Settled
  <2>2. st[w] = node[r][w] BY <1>0, <2>1 DEF Follows
  <2> QED BY <1>0, <2>1, <2>2, ReconciledFrame DEF Soiled
<1>5. CASE Cancelled(r)
  <2>1. node'[r][w] = node[r][w] \/ node'[r][w].status = "cancelled"
    BY <1>0, <1>5 DEF Cancelled, NodesCancelled
  <2> QED BY <2>1 DEF Soiled
<1>6. CASE Orphaned(r)
  <2>1. node'[r][w] = node[r][w] \/ node'[r][w].status = "orphaned"
    BY <1>0, <1>6 DEF Orphaned, NodesOrphaned, NodeState
  <2> QED BY <2>1 DEF Soiled
<1> QED BY <1>1, <1>2, <1>3, <1>4, <1>5, <1>6 DEF RunStep

\* So does one that runs, until its result is stored.
LEMMA RunningStays ==
  ASSUME RunInv, NEW r \in Runs, RunStep(r), NEW w \in Writes,
         node[r][w].status \in {"running", "cancelled", "orphaned"},
         \A p \in Procs : At(p, "complete") => ~(Run(p) = r /\ Node(p) = w)
  PROVE node'[r][w].status \in {"running", "cancelled", "orphaned"}
<1>0. w \in Nodes /\ node[r] \in [Nodes -> NodeState] /\ node[r][w] \in NodeState
  BY DEF RunInv, TypeInv, DataOK, Writes
<1>1. CASE Left(r) BY <1>1 DEF Left
<1>2. CASE MovedNode(r)
  <2>1. PICK n \in Nodes, x \in NodeState : Moves(r, n, x) /\ node'[r] = [node[r] EXCEPT ![n] = x]
    BY <1>2 DEF MovedNode
  <2>2. n # w BY <2>1 DEF Moves, NodeTerminal
  <2> QED BY <1>0, <2>1, <2>2
<1>3. CASE Paused(r)
  <2>1. PICK q \in Procs :
          /\ At(q, "wait")
          /\ node'[r] = [node[r] EXCEPT ![Node(q)].status = "waiting_approval"]
    BY <1>3 DEF Paused
  <2>2. Node(q) # w BY <2>1, LocalFacts DEF RunInv, TypeInv, At, Writes
  <2> QED BY <1>0, <2>1, <2>2
<1>4. CASE Settled(r)
  <2>1. PICK st \in [Nodes -> NodeState] : Follows(st, node[r]) /\ node'[r] = Reconciled(st)
    BY <1>4 DEF Settled
  <2>2. st[w] = node[r][w] BY <1>0, <2>1 DEF Follows
  <2> QED BY <1>0, <2>1, <2>2, ReconciledFrame
<1>5. CASE Cancelled(r)
  BY <1>0, <1>5 DEF Cancelled, NodesCancelled
<1>6. CASE Orphaned(r)
  BY <1>0, <1>6 DEF Orphaned, NodesOrphaned, NodeState
<1> QED BY <1>1, <1>2, <1>3, <1>4, <1>5, <1>6 DEF RunStep

\* A ChangeSet is approved, and merged, with the approval of a user.
LEMMA ApprovedKept ==
  ASSUME RecordInv, NEW r \in Runs, RecordStep(r), ApprovedByUser(r) PROVE ApprovedByUser(r)'
<1>0. cs[r] \in [Writes -> ChangeSetState] /\ approval[r] \in [Writes -> ApprovalState]
  BY DEF RecordInv, RunInv, TypeInv, DataOK
<1> SUFFICES ASSUME NEW v \in Writes, cs'[r][v].status \in {"approved", "merged"}
             PROVE approval'[r][v].status = "approved"
  BY DEF ApprovedByUser
<1>1. /\ cs[r][v] \in ChangeSetState /\ approval[r][v] \in ApprovalState
      /\ cs[r][v].status \in {"approved", "merged"} => approval[r][v].status = "approved"
  BY <1>0 DEF ApprovedByUser
<1>2. CASE Kept(r) BY <1>1, <1>2 DEF Kept
<1>3. CASE Judged(r) BY <1>0, <1>1, <1>3 DEF Judged, ChangeSetState
<1>4. CASE Captured(r) BY <1>0, <1>1, <1>4 DEF Captured
<1>5. CASE Prepared(r) BY <1>0, <1>1, <1>5 DEF Prepared, ChangeSetState
<1>6. CASE Decided(r) BY <1>0, <1>1, <1>6 DEF Decided, ChangeSetState, ApprovalState
<1>7. CASE Withdrawn(r)
  BY <1>0, <1>1, <1>7 DEF Withdrawn, ChangeSetsCancelled, ApprovalsInvalidated, ChangeSetState
<1>8. CASE MergedOne(r) BY <1>0, <1>1, <1>8 DEF MergedOne, ChangeSetState
<1> QED BY <1>2, <1>3, <1>4, <1>5, <1>6, <1>7, <1>8 DEF RecordStep

\* An approved ChangeSet is only withdrawn with its run, or merged.
LEMMA ApprovedStays ==
  ASSUME RecordInv, NEW r \in Runs, RecordStep(r), ~run'[r].cancel,
         NEW v \in Writes, cs[r][v].status = "approved", v \notin head'[r]
  PROVE cs'[r][v].status = "approved"
<1>0. cs[r] \in [Writes -> ChangeSetState] /\ cs[r][v] \in ChangeSetState
  BY DEF RecordInv, RunInv, TypeInv, DataOK
<1>1. CASE Kept(r) BY <1>1 DEF Kept
<1>2. CASE Judged(r) BY <1>0, <1>2 DEF Judged
<1>3. CASE Captured(r) BY <1>0, <1>3 DEF Captured
<1>4. CASE Prepared(r) BY <1>0, <1>4 DEF Prepared
<1>5. CASE Decided(r) BY <1>0, <1>5 DEF Decided
<1>6. CASE Withdrawn(r) BY <1>6 DEF Withdrawn
<1>7. CASE MergedOne(r) BY <1>0, <1>7 DEF MergedOne
<1> QED BY <1>1, <1>2, <1>3, <1>4, <1>5, <1>6, <1>7 DEF RecordStep

\* A step that leaves the repository of r alone keeps its records.
LEMMA GitKept ==
  ASSUME RecordInv, GitInv, NEW r \in Runs, repo'[r] = repo[r], RecordStep(r), RunStep(r), MarkStep(r)
  PROVE GitRecorded(r)'
<1>0. /\ GitRecorded(r) /\ RunInv /\ repo[r] \in RepoState
      /\ Sole /\ \A p \in Procs : Sees(p)
  BY DEF GitInv, RecordInv, RunInv, TypeInv, RestOK
<1>1. MarkRecorded(r)' BY DEF MarkStep, MarkRecorded
<1>2. HeadMarked(r)' BY <1>0 DEF MarkStep, HeadMarked, GitRecorded
<1>3. ExtraApproved(r)'
  <2> SUFFICES ASSUME NEW w \in repo'[r].head \ head'[r] PROVE cs'[r][w].status = "approved"
    BY DEF ExtraApproved
  <2>1. head'[r] = head[r] /\ (run[r].finalizing => run'[r].finalizing)
    BY DEF MarkStep
  <2>2. run[r].finalizing BY <1>0, <2>1 DEF GitRecorded, HeadMarked
  <2>3. ~run'[r].cancel BY <2>1, <2>2 DEF MarkStep
  <2>4. w \in Writes /\ cs[r][w].status = "approved"
    BY <1>0, <2>1 DEF GitRecorded, ExtraApproved, RepoState, Commits
  <2> QED BY <2>3, <2>4, ApprovedStays
<1>4. ApprovedByUser(r)' BY <1>0, ApprovedKept DEF GitRecorded
<1>5. DirtMarked(r)'
  <2> SUFFICES ASSUME repo'[r].dirty, ~run'[r].finalizing
               PROVE \E n \in Writes : node'[r][n].status \in Soiled
    BY DEF DirtMarked
  <2>1. ~run[r].finalizing BY DEF MarkStep
  <2>2. PICK n \in Writes : node[r][n].status \in Soiled
    BY <1>0, <2>1 DEF GitRecorded, DirtMarked
  <2>3. PICK m \in Writes :
          /\ node[r][m].status \in Soiled
          /\ \A p \in Procs : At(p, "complete") /\ Run(p) = r /\ Node(p) = m => proc[p].res.status = "failed"
    <3>1. CASE \A p \in Procs : At(p, "complete") /\ Run(p) = r /\ Node(p) = n => proc[p].res.status = "failed"
      BY <2>2, <3>1
    <3>2. ASSUME NEW p \in Procs, At(p, "complete"), Run(p) = r, Node(p) = n, proc[p].res.status # "failed"
          PROVE \E m \in Writes :
                  /\ node[r][m].status \in Soiled
                  /\ \A q \in Procs : At(q, "complete") /\ Run(q) = r /\ Node(q) = m => proc[q].res.status = "failed"
      <4>1. Innocent(p) BY <1>0, <2>2, <3>2 DEF Sees
      <4>2. PICK m \in Writes \ {n} : node[r][m].status \in Soiled BY <2>1, <3>2, <4>1 DEF Innocent
      <4>3. ASSUME NEW q \in Procs, At(q, "complete"), Node(q) = m PROVE FALSE
        <5>1. q # p /\ ~At(p, "down") /\ ~At(q, "down") BY <3>2, <4>2, <4>3 DEF At
        <5> QED BY <1>0, <5>1, OthersDown
      <4> QED BY <4>2, <4>3
    <3> QED BY <3>1, <3>2
  <2> QED BY <1>0, <2>3, SoiledStays
<1> QED BY <1>1, <1>2, <1>3, <1>4, <1>5 DEF GitRecorded

\* Who sets, clears and moves under the mark: the merge handler and recovery, when they have
\* seen the repository; a cancellation finds none.
LEMMA StepMarks ==
  ASSUME RecordInv, GitInv, [Next]_vars, NEW r \in Runs PROVE MarkStep(r)
<1>0. /\ DataOK /\ ProcOK /\ MarkRecorded(r) /\ Sole /\ \A p \in Procs : Sees(p)
      /\ run \in [Runs -> RunState] /\ head \in [Runs -> Commits] /\ run[r] \in RunState
  BY DEF RecordInv, RunInv, TypeInv, GitInv, GitRecorded, DataOK
<1>1. ASSUME head' = head, run'[r].finalizing = run[r].finalizing, run'[r].cancel = run[r].cancel
      PROVE MarkStep(r)
  BY <1>0, <1>1 DEF MarkStep, MarkRecorded
<1>2. CASE UNCHANGED <<run, head>> BY <1>1, <1>2
<1>3. ASSUME NEW u \in Runs, NEW x, run' = [run EXCEPT ![u].status = x], head' = head PROVE MarkStep(r)
  <2>1. run'[r].finalizing = run[r].finalizing /\ run'[r].cancel = run[r].cancel
    BY <1>0, <1>3 DEF RunState
  <2> QED BY <1>1, <1>3, <2>1
<1>4. ASSUME NEW u \in Runs, MarkOrphaned(u) PROVE MarkStep(r)
  BY <1>2, <1>3, <1>4 DEF MarkOrphaned
<1>5. ASSUME NEW u \in Runs, NEW n, NEW b \in BOOLEAN, Resume(u, n, b), head' = head PROVE MarkStep(r)
  BY <1>2, <1>3, <1>5 DEF Resume, Reconcile
<1>6. ASSUME NEW u \in Runs, run' = [run EXCEPT ![u].finalizing = FALSE], head' = head,
             repo[u] = [head |-> head[u], dirty |-> FALSE]
      PROVE MarkStep(r)
  <2>1. CASE u # r
    <3>1. run'[r] = run[r] BY <1>0, <1>6, <2>1
    <3> QED BY <1>1, <1>6, <3>1
  <2>2. CASE u = r
    <3>1. ~run'[r].finalizing BY <1>0, <1>6, <2>2 DEF RunState
    <3> QED BY <1>6, <2>2, <3>1 DEF MarkStep
  <2> QED BY <2>1, <2>2
<1>7. ASSUME NEW p \in Procs, At(p, "m_finalize") \/ At(p, "r_finalize"),
             CanFinalize(p, Run(p), Node(p)), Finalize(Run(p), Node(p))
      PROVE MarkStep(r)
  <2>1. Run(p) \in Runs /\ Task(p) = Source[Node(p)] BY <1>0, LocalFacts DEF Task, Node
  <2>2. /\ cs[Run(p)][Task(p)].base = head[Run(p)]
        /\ repo[Run(p)] = [head |-> head[Run(p)] \cup {Task(p)}, dirty |-> FALSE]
    BY <1>0, <1>7 DEF RecordInv, ProcKnowledge, Informed, CanFinalize, At, Sees
  <2>3. head' = [head EXCEPT ![Run(p)] = head[Run(p)] \cup {Task(p)}]
    BY <1>7, <2>1, <2>2 DEF Finalize, Published, ReviewedBase
  <2>4. PICK x : run' = [run EXCEPT ![Run(p)].status = x, ![Run(p)].finalizing = FALSE]
    BY <1>7 DEF Finalize
  <2>5. CASE Run(p) # r
    <3>1. run'[r] = run[r] /\ head'[r] = head[r] BY <1>0, <2>1, <2>3, <2>4, <2>5
    <3> QED BY <1>0, <3>1 DEF MarkStep, MarkRecorded
  <2>6. CASE Run(p) = r
    <3>1. ~run'[r].finalizing BY <1>0, <2>4, <2>6 DEF RunState
    <3>2. head'[r] = head[r] \cup {Task(p)} BY <1>0, <2>3, <2>6
    <3> QED BY <2>2, <2>6, <3>1, <3>2 DEF MarkStep
  <2> QED BY <2>5, <2>6
<1>8. ASSUME NEW p \in Procs, Start(p) \/ LeaseLost(p) \/ Stop(p) \/ Crash(p) PROVE MarkStep(r)
  BY <1>2, <1>8 DEF Start, LeaseLost, Stop, Crash, Exit, Leave, runVars
<1>9. ASSUME NEW p \in Procs, NEW u \in Runs, Cancel(p, u) PROVE MarkStep(r)
  <2>1. /\ ~run[u].finalizing /\ head' = head
        /\ run' = [run EXCEPT ![u].cancel = TRUE, ![u].status = "cancelled"]
    BY <1>9 DEF Cancel, MayCancel
  <2>2. CASE u # r
    <3>1. run'[r] = run[r] BY <1>0, <2>1, <2>2
    <3> QED BY <1>1, <2>1, <3>1
  <2>3. CASE u = r
    <3>1. ~run'[r].finalizing BY <1>0, <2>1, <2>3 DEF RunState
    <3> QED BY <2>1, <2>3, <3>1 DEF MarkStep
  <2> QED BY <2>2, <2>3
<1>10. ASSUME NEW p \in Procs, NEW u \in Runs, NEW n \in ApprovalNodes, NEW b \in BOOLEAN,
              Decide(p, u, n, b)
       PROVE MarkStep(r)
  BY <1>5, <1>10 DEF Decide
<1>11. ASSUME NEW p \in Procs, Recovering(p) PROVE MarkStep(r)
  <2>1. Run(p) \in Runs BY <1>0, LocalFacts
  <2>2. CASE RecoverNext(p)
    <3>1. UNCHANGED runVars \/ \E u \in Runs : MarkOrphaned(u) BY <2>2 DEF RecoverNext
    <3> QED BY <1>2, <1>4, <3>1 DEF runVars
  <2>3. CASE RecoverFinalize(p) BY <1>7, <2>3 DEF RecoverFinalize
  <2>4. CASE RecoverOrphan(p) BY <1>4, <2>1, <2>4 DEF RecoverOrphan
  <2>5. CASE RecoverClear(p)
    <3>1. repo[Run(p)] = [head |-> head[Run(p)], dirty |-> FALSE]
      BY <1>0, <2>5 DEF RecoverClear, At, Sees
    <3> QED BY <1>6, <2>1, <2>5, <3>1 DEF RecoverClear
  <2>6. CASE RecoverDone(p) \/ RecoverHold(p) \/ RecoverInspect(p)
    BY <1>2, <2>6 DEF RecoverDone, RecoverHold, RecoverInspect, runVars
  <2> QED BY <1>11, <2>2, <2>3, <2>4, <2>5, <2>6 DEF Recovering
<1>12. ASSUME NEW p \in Procs, Scheduling(p) PROVE MarkStep(r)
  <2>1. Run(p) \in Runs BY <1>0, LocalFacts
  <2>2. CASE StartAndReconcile(p)
    <3>1. head' = head BY <2>2 DEF StartAndReconcile
    <3>2. Reconcile(Run(p), node[Run(p)]) \/ UNCHANGED run BY <2>2 DEF StartAndReconcile
    <3> QED BY <1>2, <1>3, <2>1, <3>1, <3>2 DEF Reconcile
  <2>3. CASE EnterWaiting(p)
    <3>1. head' = head BY <2>3 DEF EnterWaiting
    <3>2. \/ \E b \in BOOLEAN : Resume(Run(p), Node(p), b)
          \/ run' = [run EXCEPT ![Run(p)].status = "waiting_approval"]
      BY <2>3 DEF EnterWaiting
    <3> QED BY <1>3, <1>5, <2>1, <3>1, <3>2
  <2>4. CASE Judge(p) \/ AgentPersist(p) \/ PrepareApproval(p) \/ ClaimNext(p) \/ CompleteNode(p)
    BY <1>2, <2>4 DEF Judge, AgentPersist, PrepareApproval, ClaimNext, CompleteNode
  <2>5. CASE Poll(p) \/ Handle(p) \/ AgentBegin(p) \/ AgentEdit(p) \/ AgentCapture(p)
             \/ CompletionRefused(p) \/ CompletionConflict(p) \/ WaitConflict(p)
    BY <1>2, <2>5 DEF Poll, Handle, AgentBegin, AgentEdit, AgentCapture, CompletionRefused,
       CompletionConflict, WaitConflict, Exit, Leave, runVars
  <2> QED BY <1>12, <2>2, <2>3, <2>4, <2>5 DEF Scheduling
<1>13. ASSUME NEW p \in Procs, Merging(p) PROVE MarkStep(r)
  <2>1. Run(p) \in Runs BY <1>0, LocalFacts
  <2>2. CASE MergeFinalize(p) BY <1>7, <2>2 DEF MergeFinalize
  <2>3. CASE MergeClear(p)
    <3>1. repo[Run(p)] = [head |-> head[Run(p)], dirty |-> FALSE]
      BY <1>0, <2>3 DEF MergeClear, At, Sees
    <3> QED BY <1>6, <2>1, <2>3, <3>1 DEF MergeClear
  <2>4. CASE MergeBegin(p)
    <3>1. /\ ~run[Run(p)].cancel /\ head' = head
          /\ run' = [run EXCEPT ![Run(p)].finalizing = TRUE]
      BY <2>4 DEF MergeBegin, MayBegin
    <3>2. CASE Run(p) # r
      <4>1. run'[r] = run[r] BY <1>0, <3>1, <3>2
      <4> QED BY <1>1, <3>1, <4>1
    <3>3. CASE Run(p) = r
      <4>1. run'[r].finalizing /\ ~run'[r].cancel BY <1>0, <3>1, <3>3 DEF RunState
      <4> QED BY <3>1, <4>1 DEF MarkStep
    <3> QED BY <3>2, <3>3
  <2>5. CASE MergeHold(p) \/ MergeRefused(p) \/ MergeApply(p) \/ MergeCommit(p) \/ MergeDone(p)
             \/ MergeError(p) \/ MergeRestore(p) \/ MergeAmbiguous(p)
    BY <1>2, <2>5 DEF MergeHold, MergeRefused, MergeApply, MergeCommit, MergeDone, MergeError,
       MergeRestore, MergeAmbiguous, Exit, Leave, runVars
  <2> QED BY <1>13, <2>2, <2>3, <2>4, <2>5 DEF Merging
<1>14. CASE UNCHANGED vars \/ MasterExpire \/ (\E u \in Runs : WorkspaceExpire(u))
            \/ \E u \in Runs, w \in Writes : ApprovalOverdue(u, w)
  BY <1>2, <1>14 DEF vars, MasterExpire, WorkspaceExpire, ApprovalOverdue, runVars
<1> QED
  BY <1>8, <1>9, <1>10, <1>11, <1>12, <1>13, <1>14 DEF Next, Work

-------------------------------------------------------------------------------
(* What the only process sees *)

Seen == Sole /\ \A q \in Procs : Sees(q)

\* The labels at which a process needs to know nothing of the repository.
Blind(p) ==
  proc[p].pc \notin {"m_apply", "m_commit", "m_finalize", "m_fail", "m_clear", "r_clear", "r_finalize",
                     "exec", "agent", "capture", "persist", "complete"}

\* Nothing to know, nothing to see.
LEMMA BlindSees == ASSUME NEW p \in Procs, Blind(p)' PROVE Sees(p)'
BY DEF Blind, Sees, At

\* A step of the process that is up, of which only its own view remains to be shown.
LEMMA OwnStep ==
  ASSUME GitInv, NEW p \in Procs, ~At(p, "down"), Alone(p), UNCHANGED master, Sees(p)' PROVE Seen'
<1>1. Sole /\ master = p BY DEF GitInv, Sole
<1>2. ASSUME NEW q \in Procs \ {p} PROVE At(q, "down")'
  <2>1. At(q, "down") BY <1>1, OthersDown
  <2> QED BY <2>1 DEF Alone, At
<1>3. \A q \in Procs \ {p} : Sees(q)' BY <1>2, BlindSees DEF Blind, At
<1> QED BY <1>1, <1>2, <1>3 DEF Seen, Sole

\* The end of that process, and a start.
LEMMA LastStep ==
  ASSUME GitInv, ProcOK, NEW p \in Procs, (~At(p, "down") /\ (Leave(p) \/ Crash(p))) \/ Start(p)
  PROVE Seen'
<1>0. Sole /\ proc \in [Procs -> ProcState] /\ proc[p] \in ProcState BY DEF GitInv, ProcOK
<1>1. CASE ~At(p, "down") /\ (Leave(p) \/ Crash(p))
  <2>1. Alone(p) /\ At(p, "down")' BY <1>1, ProcMoves DEF Leave, Crash, At
  <2>2. ASSUME NEW q \in Procs PROVE At(q, "down")'
    BY <1>0, <1>1, <2>1, OthersDown DEF Alone, At
  <2>3. \A q \in Procs : Sees(q)' BY <2>2, BlindSees DEF Blind, At
  <2> QED BY <2>2, <2>3 DEF Seen, Sole
<1>2. CASE Start(p)
  <2>1. Alone(p) /\ proc'[p].pc = "recover" BY <1>0, <1>2 DEF Start, Alone, ProcState
  <2>2. ASSUME NEW q \in Procs \ {p} PROVE At(q, "down")'
    BY <1>0, <1>2, <2>1, ProcAssumption DEF Start, Sole, Alone, At
  <2>3. \A q \in Procs : Sees(q)' BY <2>1, <2>2, BlindSees DEF Blind, At
  <2>4. master' = p BY <1>2 DEF Start
  <2> QED BY <2>2, <2>3, <2>4 DEF Seen, Sole
<1> QED BY <1>1, <1>2

\* A step of nobody's own: a decision, a cancellation, the clock.
LEMMA StillSees ==
  ASSUME RecordInv, GitInv, [Next]_vars, UNCHANGED <<proc, repo, head>>,
         \A r \in Runs : run'[r].finalizing = run[r].finalizing, NEW q \in Procs
  PROVE Sees(q)'
<1>0. /\ ProcOK /\ RunInv /\ Sees(q) /\ Sole /\ Run(q) \in Runs
      /\ Run(q)' = Run(q) /\ Node(q)' = Node(q) /\ Task(q)' = Task(q)
  BY LocalFacts DEF GitInv, RecordInv, RunInv, TypeInv, Run, Node, Task
<1>1. ASSUME At(q, "m_commit") PROVE cs'[Run(q)][Task(q)].status = "approved"
  <2>1. Task(q) \in Writes BY <1>0, <1>1, LocalFacts DEF At
  <2>2. run'[Run(q)].finalizing /\ cs[Run(q)][Task(q)].status = "approved"
    BY <1>0, <1>1 DEF Sees, At
  <2>3. ~run'[Run(q)].cancel BY <1>0, <2>2, StepMarks DEF MarkStep
  <2>4. Task(q) \notin head'[Run(q)]
    BY <1>0, <2>1, <2>2 DEF RecordInv, Recorded, HeadRecorded
  <2>5. RecordStep(Run(q)) BY <1>0, StepIsRecordStep
  <2> QED BY <1>0, <2>1, <2>2, <2>3, <2>4, <2>5, ApprovedStays
<1>2. ASSUME proc[q].pc \in {"exec", "agent", "capture"}, Node(q) \in Writes
      PROVE node'[Run(q)][Node(q)].status \in {"running", "cancelled", "orphaned"}
  <2>1. node[Run(q)][Node(q)].status \in {"running", "cancelled", "orphaned"}
    BY <1>0, <1>2 DEF Sees
  <2>2. \A p \in Procs : ~At(p, "complete")
    <3> SUFFICES ASSUME NEW p \in Procs, At(p, "complete") PROVE FALSE
      OBVIOUS
    <3>1. p # q /\ ~At(q, "down") BY <1>2 DEF At
    <3>2. At(p, "down") BY <1>0, <3>1, OthersDown
    <3> QED BY <3>2 DEF At
  <2>3. RunStep(Run(q)) BY <1>0, StepIsRunStep
  <2> QED BY <1>0, <1>2, <2>1, <2>2, <2>3, RunningStays
<1>3. ASSUME At(q, "exec") \/ At(q, "complete"), Innocent(q) PROVE Innocent(q)'
  <2>1. repo' = repo /\ run'[Run(q)].finalizing = run[Run(q)].finalizing BY <1>0
  <2>2. ASSUME NEW n \in Writes \ {Node(q)}, node[Run(q)][n].status \in Soiled
        PROVE node'[Run(q)][n].status \in Soiled
    <3>1. \A p \in Procs : At(p, "complete") => Node(p) # n
      <4> SUFFICES ASSUME NEW p \in Procs, At(p, "complete"), Node(p) = n PROVE FALSE
        OBVIOUS
      <4>1. p # q /\ ~At(q, "down") /\ ~At(p, "down") BY <1>3 DEF At
      <4> QED BY <1>0, <4>1, OthersDown
    <3>2. RunStep(Run(q)) BY <1>0, StepIsRunStep
    <3> QED BY <1>0, <2>2, <3>1, <3>2, SoiledStays
  <2> QED BY <1>0, <1>3, <2>1, <2>2 DEF Innocent
<1> QED BY <1>0, <1>1, <1>2, <1>3 DEF Sees, At

\* The result of a handler that failed, of another node than a write task, or of a write task
\* that left no dirt.
Harmless(p, v) ==
  \/ v.status = "failed" \/ Node(p) \notin Writes \/ ~repo'[Run(p)].dirty
  \/ Innocent(p) /\ UNCHANGED <<repo, run, node>>

LEMMA ReturnSees ==
  ASSUME ProcOK, NEW p \in Procs, NEW v, Return(p, v), Harmless(p, v)
  PROVE Sees(p)'
<1>1. AtHome(p) /\ proc'[p].pc = "complete" /\ proc'[p].res = v BY ProcMoves
<1>2. Run(p)' = Run(p) /\ Node(p)' = Node(p) BY <1>1 DEF AtHome
<1>3. v.status = "failed" \/ Node(p)' \notin Writes \/ Innocent(p)'
  BY <1>2 DEF Harmless, Innocent
<1> QED BY <1>1, <1>2, <1>3 DEF Sees, At

\* A process that went on to l, with all it knew before.
Went(p, l) ==
  /\ Alone(p) /\ Run(p)' = Run(p) /\ Node(p)' = Node(p) /\ Task(p)' = Task(p)
  /\ proc'[p].commit = proc[p].commit /\ proc'[p].pc = l

\* Every step keeps what the only process sees, action by action.
LEMMA SeenStep ==
  ASSUME RecordInv, GitInv, [Next]_vars PROVE Seen'
<1>0. /\ DataOK /\ ProcOK /\ Sole /\ ~Stalls /\ proc \in [Procs -> ProcState]
      /\ repo \in [Runs -> RepoState]
  BY DEF RecordInv, RunInv, TypeInv, GitInv, ProcOK, RestOK
<1>1. ASSUME NEW p \in Procs, ~At(p, "down"), Alone(p), UNCHANGED master, Blind(p)' PROVE Seen'
  BY <1>1, BlindSees, OwnStep
<1>2. ASSUME NEW p \in Procs, ~At(p, "down"), UNCHANGED master,
             \/ Rest(p) \/ RecoveredRun(p)
             \/ \E l \in {"r_inspect", "r_orphan", "claim", "wait", "m_begin", "m_done", "post"} : Goto(p, l)
      PROVE Seen'
  <2>1. Alone(p) /\ Blind(p)' BY <1>0, <1>2, ProcMoves DEF Blind
  <2> QED BY <1>1, <1>2, <2>1
<1>3. ASSUME NEW p \in Procs, ~At(p, "down"), UNCHANGED master, NEW v, Return(p, v), Harmless(p, v)
      PROVE Seen'
  <2>1. Alone(p) BY <1>0, <1>3, ProcMoves
  <2> QED BY <1>0, <1>3, <2>1, ReturnSees, OwnStep
<1>4. ASSUME NEW p \in Procs, NEW l, Goto(p, l) PROVE Went(p, l)
  <2>1. Alone(p) /\ AtHome(p) /\ proc'[p].pc = l BY <1>0, <1>4, ProcMoves
  <2>2. Task(p)' = Task(p) BY <2>1 DEF AtHome, Task, Node
  <2> QED BY <2>1, <2>2 DEF AtHome, Went
<1>5. ASSUME NEW p \in Procs, Recovering(p) PROVE Seen'
  <2>0. /\ ~At(p, "down") /\ UNCHANGED master /\ proc[p] \in ProcState
    BY <1>0, <1>5 DEF Recovering, RecoverNext, RecoverDone, RecoverHold, RecoverInspect, RecoverClear,
       RecoverFinalize, RecoverOrphan, At
  <2>1. CASE RecoverNext(p)
    <3>1. At(p, "recover") /\ \E r \in Runs : \/ proc' = [proc EXCEPT ![p].pc = "r_hold", ![p].run = r]
                                            \/ proc' = [proc EXCEPT ![p].todo = @ \ {r}]
      BY <2>1 DEF RecoverNext
    <3>2. Alone(p) BY <1>0, <3>1 DEF Alone
    <3>3. proc'[p].pc \in {"recover", "r_hold"} BY <1>0, <2>0, <3>1 DEF At, ProcState
    <3> QED BY <1>1, <2>0, <3>2, <3>3 DEF Blind
  <2>2. CASE RecoverInspect(p)
    <3>1. CASE Goto(p, "r_orphan") BY <1>2, <2>0, <3>1
    <3>2. ASSUME NEW m \in Nodes,
                 proc' = [proc EXCEPT ![p].pc = Inspect(Run(p), Source[m]), ![p].node = m]
          PROVE Seen'
      <4>1. Alone(p) BY <1>0, <3>2 DEF Alone
      <4>2. proc'[p] = [proc[p] EXCEPT !.pc = Inspect(Run(p), Source[m]), !.node = m]
        BY <1>0, <3>2
      <4>3. proc'[p].pc = Inspect(Run(p), Source[m]) /\ Run(p)' = Run(p) /\ Task(p)' = Source[m]
        BY <2>0, <4>2 DEF ProcState, Run, Task
      <4>4. /\ proc'[p].pc \in {"r_clear", "r_finalize", "r_orphan"}
            /\ proc'[p].pc = "r_clear" => repo[Run(p)] = [head |-> head[Run(p)], dirty |-> FALSE]
            /\ proc'[p].pc = "r_finalize" =>
                 repo[Run(p)] = [head |-> head[Run(p)] \cup {Source[m]}, dirty |-> FALSE]
        BY <4>3 DEF Inspect
      <4>5. UNCHANGED <<repo, head>> BY <2>2 DEF RecoverInspect, runVars
      <4>6. Sees(p)' BY <4>3, <4>4, <4>5 DEF Sees, At
      <4> QED BY <2>0, <4>1, <4>6, OwnStep
    <3> QED BY <2>2, <3>1, <3>2 DEF RecoverInspect
  <2>3. CASE RecoverDone(p) \/ RecoverHold(p) \/ RecoverClear(p) \/ RecoverFinalize(p) \/ RecoverOrphan(p)
    BY <1>2, <2>0, <2>3 DEF RecoverDone, RecoverHold, RecoverClear, RecoverFinalize, RecoverOrphan
  <2> QED BY <1>5, <2>1, <2>2, <2>3 DEF Recovering
<1>6. ASSUME NEW p \in Procs, ~At(p, "down"), Leave(p) \/ Crash(p) PROVE Seen'
  BY <1>0, <1>6, LastStep
<1>7. ASSUME NEW p \in Procs, Scheduling(p) PROVE Seen'
  <2>0. ~At(p, "down") /\ proc[p] \in ProcState /\ Run(p) \in Runs /\ Sees(p)
    BY <1>0, <1>7, LocalFacts
    DEF Scheduling, Poll, StartAndReconcile, ClaimNext, CompleteNode, CompletionRefused, CompletionConflict,
       Handle, Judge, AgentBegin, AgentEdit, AgentCapture, AgentPersist, PrepareApproval, EnterWaiting, WaitConflict, At,
       GitInv
  <2>1. CASE Poll(p)
    <3>1. /\ At(p, "poll") /\ UNCHANGED master
          /\ UNCHANGED proc \/ \E r \in Runs : proc' = [proc EXCEPT ![p].pc = "tick", ![p].run = r]
      BY <2>1 DEF Poll
    <3>2. Alone(p) BY <1>0, <3>1 DEF Alone
    <3>3. proc'[p].pc \in {"poll", "tick"} BY <1>0, <2>0, <3>1 DEF At, ProcState
    <3> QED BY <1>1, <2>0, <3>1, <3>2, <3>3 DEF Blind
  <2>2. CASE StartAndReconcile(p) BY <1>2, <2>0, <2>2 DEF StartAndReconcile
  <2>3. CASE ClaimNext(p)
    <3>0. UNCHANGED master BY <2>3 DEF ClaimNext
    <3>1. CASE Goto(p, "post") BY <1>2, <2>0, <3>0, <3>1
    <3>2. ASSUME NEW n \in ReadyNodes(node[Run(p)]),
                 node' = [node EXCEPT ![Run(p)][n].status = "running"],
                 proc' = [proc EXCEPT ![p].pc = "exec", ![p].node = n, ![p].commit = head[Run(p)]]
          PROVE Seen'
      <4>1. Alone(p) BY <1>0, <3>2 DEF Alone
      <4>2. proc'[p] = [proc[p] EXCEPT !.pc = "exec", !.node = n, !.commit = head[Run(p)]]
        BY <1>0, <3>2
      <4>3. proc'[p].pc = "exec" /\ Run(p)' = Run(p) /\ Node(p)' = n
        BY <2>0, <4>2 DEF ProcState, Run, Node
      <4>4. n \in Nodes BY <3>2 DEF ReadyNodes
      <4>5. node[Run(p)] \in [Nodes -> NodeState] /\ node[Run(p)][n] \in NodeState
        BY <1>0, <2>0, <4>4 DEF DataOK
      <4>6. node'[Run(p)] = [node[Run(p)] EXCEPT ![n].status = "running"]
        BY <1>0, <2>0, <3>2 DEF DataOK
      <4>7. node'[Run(p)][n].status = "running" BY <4>4, <4>5, <4>6 DEF NodeState
      <4>8. Innocent(p)'
        <5>1. UNCHANGED <<repo, run>> /\ DirtMarked(Run(p)) BY <2>0, <2>3 DEF ClaimNext, GitInv, GitRecorded
        <5>2. ASSUME NEW m \in Writes, node[Run(p)][m].status \in Soiled
              PROVE m # n /\ node'[Run(p)][m].status \in Soiled
          <6>1. m # n BY <3>2, <5>2 DEF ReadyNodes, Soiled
          <6>2. m \in Nodes BY DEF Writes
          <6> QED BY <4>5, <4>6, <5>2, <6>1, <6>2
        <5> QED BY <4>3, <5>1, <5>2 DEF DirtMarked, Innocent
      <4>9. Sees(p)' BY <4>3, <4>7, <4>8 DEF Sees, At
      <4> QED BY <2>0, <3>0, <4>1, <4>9, OwnStep
    <3> QED BY <2>3, <3>1, <3>2 DEF ClaimNext, FirstReady
  <2>4. CASE CompletionRefused(p) \/ CompletionConflict(p) \/ WaitConflict(p)
    BY <1>6, <2>0, <2>4 DEF CompletionRefused, CompletionConflict, WaitConflict, Exit
  <2>5. CASE CompleteNode(p) \/ EnterWaiting(p) BY <1>2, <2>0, <2>5 DEF CompleteNode, EnterWaiting
  <2>6. CASE Handle(p) \/ Judge(p)
    <3>1. Node(p) \notin Writes BY <2>6 DEF Handle, Judge, Writes, ChainKinds
    <3>2. UNCHANGED master /\ \E v : Return(p, v) BY <2>6 DEF Handle, Judge
    <3> QED BY <1>3, <2>0, <3>1, <3>2 DEF Harmless
  <2>7. CASE PrepareApproval(p)
    <3>1. Node(p) \notin Writes /\ UNCHANGED master BY <2>7 DEF PrepareApproval, Writes
    <3>2. Goto(p, "wait") \/ \E v : Return(p, v) BY <2>7 DEF PrepareApproval
    <3> QED BY <1>2, <1>3, <2>0, <3>1, <3>2 DEF Harmless
  <2>8. CASE AgentBegin(p)
    <3>1. UNCHANGED <<master, repo, run, node>> /\ At(p, "exec") BY <2>8 DEF AgentBegin, runVars
    <3>2. ASSUME NEW x, Return(p, x) PROVE Seen'
      <4>1. Node(p) \notin Writes \/ Innocent(p) BY <2>0, <3>1 DEF Sees
      <4>2. Harmless(p, x) BY <3>1, <4>1 DEF Harmless
      <4> QED BY <1>3, <2>0, <3>1, <3>2, <4>2
    <3>3. CASE Goto(p, "agent")
      <4>1. Went(p, "agent") BY <1>4, <3>3
      <4>2. Sees(p)' BY <2>0, <3>1, <4>1 DEF Sees, At, Went
      <4> QED BY <2>0, <3>1, <4>1, <4>2, OwnStep DEF Went
    <3> QED BY <2>8, <3>2, <3>3 DEF AgentBegin
  <2>9. CASE AgentEdit(p)
    <3>1. UNCHANGED <<master, node>> /\ At(p, "agent") /\ Goto(p, "capture") BY <2>9 DEF AgentEdit, runVars
    <3>2. Went(p, "capture") BY <1>4, <3>1
    <3>3. Sees(p)' BY <2>0, <3>1, <3>2 DEF Sees, At, Went
    <3> QED BY <2>0, <3>1, <3>2, <3>3, OwnStep DEF Went
  <2>10. CASE AgentCapture(p)
    <3>1. UNCHANGED master BY <2>10 DEF AgentCapture
    <3>2. ASSUME NEW x \in {Failure, Unfinished}, Return(p, x) PROVE Seen'
      <4>1. Harmless(p, x) BY DEF Harmless, Failure, Unfinished
      <4> QED BY <1>3, <2>0, <3>1, <3>2, <4>1
    <3>3. CASE Goto(p, "persist") /\ repo' = [repo EXCEPT ![Run(p)].dirty = FALSE]
      <4>1. ~repo'[Run(p)].dirty BY <1>0, <2>0, <3>3 DEF RepoState
      <4>2. Went(p, "persist") BY <1>4, <3>3
      <4>3. Sees(p)' BY <4>1, <4>2 DEF Sees, At, Went
      <4> QED BY <2>0, <3>1, <4>2, <4>3, OwnStep DEF Went
    <3> QED BY <2>10, <3>2, <3>3 DEF AgentCapture
  <2>11. CASE AgentPersist(p)
    <3>1. UNCHANGED <<master, repo>> /\ At(p, "persist") /\ \E v : Return(p, v) BY <2>11 DEF AgentPersist
    <3>2. ~repo'[Run(p)].dirty BY <2>0, <3>1 DEF Sees
    <3> QED BY <1>3, <2>0, <3>1, <3>2 DEF Harmless
  <2> QED
    BY <1>7, <2>1, <2>2, <2>3, <2>4, <2>5, <2>6, <2>7, <2>8, <2>9, <2>10, <2>11 DEF Scheduling
<1>8. ASSUME NEW p \in Procs, Merging(p) PROVE Seen'
  <2>a. ~At(p, "down") /\ Run(p) \in Runs /\ Sees(p)
    BY <1>0, <1>8, LocalFacts
    DEF Merging, MergeHold, MergeBegin, MergeRefused, MergeApply, MergeCommit, MergeFinalize, MergeDone,
       MergeError, MergeRestore, MergeClear, MergeAmbiguous, At, GitInv
  <2>b. Informed(p) BY <1>0, <2>a DEF Sole, Fenced, RecordInv, ProcKnowledge
  <2>0. ~At(p, "down") /\ Run(p) \in Runs /\ Sees(p) /\ Informed(p) BY <2>a, <2>b
  <2>1. CASE MergeHold(p) BY <1>2, <1>3, <2>0, <2>1 DEF MergeHold, Harmless, Failure
  <2>2. CASE MergeRefused(p) \/ MergeClear(p)
    BY <1>3, <2>0, <2>2 DEF MergeRefused, MergeClear, Harmless, Failure
  <2>3. CASE MergeAmbiguous(p) BY <1>6, <2>0, <2>3 DEF MergeAmbiguous, Exit
  <2>4. CASE MergeFinalize(p) \/ MergeDone(p) BY <1>2, <2>0, <2>4 DEF MergeFinalize, MergeDone
  <2>5. CASE MergeBegin(p)
    <3>1. /\ UNCHANGED <<master, head>> /\ At(p, "m_begin") /\ Goto(p, "m_apply")
          /\ run' = [run EXCEPT ![Run(p)].finalizing = TRUE]
      BY <2>5 DEF MergeBegin
    <3>2. run'[Run(p)].finalizing BY <1>0, <2>0, <3>1 DEF DataOK, RunState
    <3>3. Went(p, "m_apply") BY <1>4, <3>1
    <3>4. Sees(p)' BY <2>0, <3>1, <3>2, <3>3 DEF Sees, Informed, At, Went
    <3> QED BY <2>0, <3>1, <3>3, <3>4, OwnStep DEF Went
  <2>6. CASE MergeApply(p)
    <3>1. /\ UNCHANGED <<master, run, head, cs>> /\ At(p, "m_apply") /\ Goto(p, "m_commit")
          /\ cs[Run(p)][Task(p)].status = "approved"
      BY <2>6 DEF MergeApply, MergeApproved, runVars
    <3>2. Went(p, "m_commit") BY <1>4, <3>1
    <3>3. Sees(p)' BY <2>0, <3>1, <3>2 DEF Sees, At, Went
    <3> QED BY <2>0, <3>1, <3>2, <3>3, OwnStep DEF Went
  <2>7. CASE MergeCommit(p)
    <3>1. /\ UNCHANGED <<master, run, head>> /\ At(p, "m_commit") /\ Goto(p, "m_finalize")
          /\ repo[Run(p)].head = cs[Run(p)][Task(p)].base
          /\ repo' = [repo EXCEPT ![Run(p)] = [head |-> repo[Run(p)].head \cup {Task(p)}, dirty |-> FALSE]]
      BY <2>7 DEF MergeCommit, runVars, ReviewedBase
    <3>2. cs[Run(p)][Task(p)].base = head[Run(p)] BY <2>0, <3>1 DEF Informed, At
    <3>3. repo'[Run(p)] = [head |-> head'[Run(p)] \cup {Task(p)}, dirty |-> FALSE]
      BY <1>0, <2>0, <3>1, <3>2
    <3>4. Went(p, "m_finalize") BY <1>4, <3>1
    <3>5. Sees(p)' BY <2>0, <3>1, <3>3, <3>4 DEF Sees, At, Went
    <3> QED BY <2>0, <3>1, <3>4, <3>5, OwnStep DEF Went
  <2>8. CASE MergeError(p)
    <3>1. /\ UNCHANGED <<master, run, head>> /\ Goto(p, "m_fail")
          /\ proc[p].pc \in {"m_apply", "m_commit", "m_finalize"}
      BY <2>8 DEF MergeError, runVars
    <3>2. Went(p, "m_fail") BY <1>4, <3>1
    <3>3. Sees(p)' BY <2>0, <3>1, <3>2 DEF Sees, At, Went
    <3> QED BY <2>0, <3>1, <3>2, <3>3, OwnStep DEF Went
  <2>9. CASE MergeRestore(p)
    <3>1. /\ UNCHANGED <<master, run, head>> /\ At(p, "m_fail") /\ Goto(p, "m_clear")
          /\ repo[Run(p)].head = proc[p].commit
          /\ repo' = [repo EXCEPT ![Run(p)] = [repo[Run(p)] EXCEPT !.dirty = FALSE]]
      BY <2>9 DEF MergeRestore, Restored, runVars
    <3>2. proc[p].commit = head[Run(p)] BY <2>0, <3>1 DEF Sees, At
    <3>3. repo'[Run(p)] = [repo[Run(p)] EXCEPT !.dirty = FALSE] /\ repo[Run(p)] \in RepoState
      BY <1>0, <2>0, <3>1
    <3>4. repo'[Run(p)] = [head |-> head'[Run(p)], dirty |-> FALSE]
      BY <3>1, <3>2, <3>3 DEF RepoState
    <3>5. Went(p, "m_clear") BY <1>4, <3>1
    <3>6. Sees(p)' BY <2>0, <3>1, <3>4, <3>5 DEF Sees, At, Went
    <3> QED BY <2>0, <3>1, <3>5, <3>6, OwnStep DEF Went
  <2> QED BY <1>8, <2>1, <2>2, <2>3, <2>4, <2>5, <2>6, <2>7, <2>8, <2>9 DEF Merging
<1>9. ASSUME NEW p \in Procs, Start(p) \/ LeaseLost(p) \/ Stop(p) \/ Crash(p) PROVE Seen'
  <2>1. CASE Start(p) BY <1>0, <2>1, LastStep
  <2>2. CASE LeaseLost(p) \/ Stop(p) \/ Crash(p)
    BY <1>6, <2>2 DEF LeaseLost, Stop, Crash, Exit, At
  <2> QED BY <1>9, <2>1, <2>2
<1>10. ASSUME UNCHANGED <<proc, repo, head>>,
              \A p \in Procs : master = p => master' = p,
              \A r \in Runs : run'[r].finalizing = run[r].finalizing
       PROVE Seen'
  <2>1. \A q \in Procs : Sees(q)' BY <1>10, StillSees
  <2>2. Sole' BY <1>0, <1>10 DEF Sole, At
  <2> QED BY <2>1, <2>2 DEF Seen
<1>11. ASSUME NEW p \in Procs, NEW u \in Runs, Cancel(p, u) PROVE Seen'
  <2>1. \A r \in Runs : run'[r].finalizing = run[r].finalizing
    BY <1>0, <1>11 DEF Cancel, DataOK, RunState
  <2> QED BY <1>10, <1>11, <2>1 DEF Cancel
<1>12. ASSUME NEW p \in Procs, NEW u \in Runs, NEW n \in ApprovalNodes, NEW b \in BOOLEAN,
              Decide(p, u, n, b)
       PROVE Seen'
  <2>1. run' = run \/ \E x : run' = [run EXCEPT ![u].status = x]
    BY <1>12 DEF Decide, Resume, Reconcile
  <2>2. \A r \in Runs : run'[r].finalizing = run[r].finalizing
    <3>1. ASSUME NEW x, run' = [run EXCEPT ![u].status = x], NEW r \in Runs
          PROVE run'[r].finalizing = run[r].finalizing
      BY <1>0, <3>1 DEF DataOK, RunState
    <3> QED BY <2>1, <3>1
  <2> QED BY <1>10, <1>12, <2>2 DEF Decide
<1>13. CASE MasterExpire
  <2>1. \A p \in Procs : master # p BY <1>0, <1>13, ProcAssumption DEF MasterExpire, MayExpire
  <2> QED BY <1>10, <1>13, <2>1 DEF MasterExpire, runVars
<1>14. CASE UNCHANGED vars \/ (\E u \in Runs : WorkspaceExpire(u))
            \/ \E u \in Runs, w \in Writes : ApprovalOverdue(u, w)
  BY <1>10, <1>14 DEF vars, WorkspaceExpire, ApprovalOverdue, runVars
<1> QED
  BY <1>5, <1>7, <1>8, <1>9, <1>11, <1>12, <1>13, <1>14 DEF Next, Work

-------------------------------------------------------------------------------

\* The steps that write to a repository: the Agent, the capture that restores it, and the merge.
LEMMA WritesRepository ==
  ASSUME [Next]_vars, repo' # repo
  PROVE \E p \in Procs : \/ AgentEdit(p) \/ AgentCapture(p)
                         \/ MergeApply(p) \/ MergeCommit(p) \/ MergeRestore(p)
<1>1. ASSUME NEW p \in Procs, Start(p) \/ LeaseLost(p) \/ Stop(p) \/ Crash(p) PROVE repo' = repo
  BY <1>1 DEF Start, LeaseLost, Stop, Crash, Exit, Leave
<1>2. ASSUME NEW p \in Procs, Recovering(p) PROVE repo' = repo
  BY <1>2 DEF Recovering, RecoverNext, RecoverDone, RecoverHold, RecoverInspect, RecoverClear,
     RecoverFinalize, RecoverOrphan
<1>3. ASSUME NEW p \in Procs, Scheduling(p) PROVE repo' = repo \/ AgentEdit(p) \/ AgentCapture(p)
  BY <1>3 DEF Scheduling, Poll, StartAndReconcile, ClaimNext, CompleteNode, CompletionRefused, CompletionConflict,
     Handle, Judge, AgentBegin, AgentPersist, PrepareApproval, EnterWaiting, WaitConflict, Exit, Leave
<1>4. ASSUME NEW p \in Procs, Merging(p)
      PROVE repo' = repo \/ MergeApply(p) \/ MergeCommit(p) \/ MergeRestore(p)
  BY <1>4 DEF Merging, MergeHold, MergeBegin, MergeRefused, MergeFinalize, MergeDone, MergeError,
     MergeClear, MergeAmbiguous, Exit, Leave
<1>5. ASSUME NEW p \in Procs, NEW r \in Runs,
             Cancel(p, r) \/ \E n \in ApprovalNodes, b \in BOOLEAN : Decide(p, r, n, b)
      PROVE repo' = repo
  BY <1>5 DEF Cancel, Decide
<1>6. CASE UNCHANGED vars \/ MasterExpire \/ (\E r \in Runs : WorkspaceExpire(r))
           \/ \E r \in Runs, w \in Writes : ApprovalOverdue(r, w)
  BY <1>6 DEF vars, MasterExpire, WorkspaceExpire, ApprovalOverdue
<1> QED
  BY <1>1, <1>2, <1>3, <1>4, <1>5, <1>6 DEF Next, Work

\* Such a step writes under the mark, or to the workspace of a write task that is not over.
LEMMA RepositoryWritten ==
  ASSUME RecordInv, GitInv, NEW p \in Procs, NEW r \in Runs, r = Run(p),
         AgentEdit(p) \/ AgentCapture(p) \/ MergeApply(p) \/ MergeCommit(p) \/ MergeRestore(p)
  PROVE GitRecorded(r)'
<1>0. /\ ProcOK /\ GitRecorded(r) /\ Sees(p) /\ Sole
      /\ repo \in [Runs -> RepoState] /\ repo[r] \in RepoState
  BY DEF RecordInv, RunInv, TypeInv, GitInv, RestOK
<1>1. UNCHANGED runVars
  BY DEF AgentEdit, AgentCapture, MergeApply, MergeCommit, MergeRestore
<1>2. MarkRecorded(r)' /\ ApprovedByUser(r)'
  BY <1>0, <1>1 DEF runVars, GitRecorded, MarkRecorded, ApprovedByUser
<1>3. ASSUME repo'[r].head = repo[r].head PROVE HeadMarked(r)' /\ ExtraApproved(r)'
  BY <1>0, <1>1, <1>3 DEF runVars, GitRecorded, HeadMarked, ExtraApproved
<1>4. CASE AgentEdit(p)
  <2>1. repo'[r].head = repo[r].head BY <1>0, <1>4 DEF AgentEdit, RepoState
  <2>2. Node(p) \in Writes /\ node[r][Node(p)].status \in Soiled
    BY <1>0, <1>4, LocalFacts DEF AgentEdit, At, Sees, Writes, Soiled
  <2>3. DirtMarked(r)' BY <1>1, <2>2 DEF DirtMarked, runVars
  <2> QED BY <1>2, <1>3, <2>1, <2>3 DEF GitRecorded
<1>5. CASE AgentCapture(p)
  <2>1. repo'[r] = repo[r] \/ (repo'[r].head = repo[r].head /\ ~repo'[r].dirty)
    BY <1>0, <1>5 DEF AgentCapture, RepoState
  <2>2. DirtMarked(r)' BY <1>0, <1>1, <2>1 DEF DirtMarked, runVars, GitRecorded
  <2> QED BY <1>2, <1>3, <2>1, <2>2 DEF GitRecorded
<1>6. CASE MergeApply(p)
  <2>1. repo'[r].head = repo[r].head BY <1>0, <1>6 DEF MergeApply, RepoState
  <2>2. run[r].finalizing BY <1>0, <1>6 DEF MergeApply, Sees, At
  <2>3. DirtMarked(r)' BY <1>1, <2>2 DEF DirtMarked, runVars
  <2> QED BY <1>2, <1>3, <2>1, <2>3 DEF GitRecorded
<1>7. CASE MergeCommit(p)
  <2>1. /\ run[r].finalizing /\ cs[r][Task(p)].status = "approved"
    BY <1>0, <1>7 DEF MergeCommit, Sees, At
  <2>2. Fenced(p) BY <1>0, <1>7 DEF MergeCommit, At, Sole, Fenced
  <2>3. cs[r][Task(p)].base = head[r]
    BY <1>7, <2>2 DEF MergeCommit, At, RecordInv, ProcKnowledge, Informed
  <2>4. repo'[r] = [head |-> head[r] \cup {Task(p)}, dirty |-> FALSE]
    BY <1>0, <1>7, <2>3 DEF MergeCommit, ReviewedBase
  <2>5. HeadMarked(r)' BY <1>1, <2>1 DEF HeadMarked, runVars
  <2>6. ExtraApproved(r)' BY <1>1, <2>1, <2>4 DEF ExtraApproved, runVars
  <2>7. DirtMarked(r)' BY <2>4 DEF DirtMarked
  <2> QED BY <1>2, <2>5, <2>6, <2>7 DEF GitRecorded
<1>8. CASE MergeRestore(p)
  <2>1. repo'[r].head = repo[r].head /\ ~repo'[r].dirty
    BY <1>0, <1>8 DEF MergeRestore, Restored, RepoState
  <2>2. DirtMarked(r)' BY <2>1 DEF DirtMarked
  <2> QED BY <1>2, <1>3, <2>1, <2>2 DEF GitRecorded
<1> QED BY <1>4, <1>5, <1>6, <1>7, <1>8

\* A step keeps the database and the repositories in agreement.
LEMMA GitInvStep == RecordInv /\ GitInv /\ [Next]_vars => GitInv'
<1> SUFFICES ASSUME RecordInv, GitInv, [Next]_vars PROVE GitInv'
  OBVIOUS
<1>0. RunInv /\ ProcOK /\ ~Stalls /\ repo \in [Runs -> RepoState]
  BY DEF RecordInv, RunInv, TypeInv, RestOK, GitInv
<1>1. ASSUME NEW r \in Runs, repo'[r] = repo[r] PROVE GitRecorded(r)'
  BY <1>0, <1>1, StepIsRecordStep, StepIsRunStep, StepMarks, GitKept
<1>2. ASSUME NEW r \in Runs PROVE GitRecorded(r)'
  <2>1. CASE repo' = repo BY <1>1, <2>1
  <2>2. ASSUME NEW p \in Procs,
               AgentEdit(p) \/ AgentCapture(p) \/ MergeApply(p) \/ MergeCommit(p) \/ MergeRestore(p)
        PROVE GitRecorded(r)'
    <3>1. CASE r = Run(p) BY <2>2, <3>1, RepositoryWritten
    <3>2. CASE r # Run(p)
      <4>1. repo'[r] = repo[r]
        BY <1>0, <2>2, <3>2 DEF AgentEdit, AgentCapture, MergeApply, MergeCommit, MergeRestore
      <4> QED BY <1>1, <4>1
    <3> QED BY <3>1, <3>2
  <2> QED BY <2>1, <2>2, WritesRepository
<1> QED BY <1>0, <1>2, SeenStep DEF GitInv, Seen

\* So they agree throughout.
LEMMA GitInvariance == ~Stalls /\ Spec => []GitInv
<1>1. ~Stalls /\ Init => GitInv
  BY DEF Init, GitInv, Sole, Sees, At, Idle, GitRecorded, MarkRecorded, HeadMarked, ExtraApproved,
     ApprovedByUser, DirtMarked
<1> QED BY <1>1, GitInvStep, RecordInvariance, PTL DEF Spec

\* While no lease expires under a process that lives on: wherever a crash comes between the commit
\* in Git and the transaction that records it, the finalizing mark is there for recovery to find.
THEOREM HeadsAlwaysAgree == ~Stalls /\ Spec => []HeadsAgree
<1>1. GitInv => HeadsAgree BY DEF GitInv, GitRecorded, HeadMarked, HeadsAgree
<1> QED BY <1>1, GitInvariance, PTL

\* What is in the repository was approved by a user, at every moment between the commit and the end
\* of the run, and a cancelled run leaves no commit behind that is not recorded as merged.
THEOREM OnlyApprovedCommitted == ~Stalls /\ Spec => []CommitOnlyApproved
<1>1. RecordInv /\ GitInv => CommitOnlyApproved
  <2> SUFFICES ASSUME RecordInv, GitInv, NEW r \in Runs, NEW w \in repo[r].head
               PROVE /\ approval[r][w].status = "approved"
                     /\ cs[r][w].status \in {"approved", "merged"}
                     /\ run[r].status = "cancelled" => cs[r][w].status = "merged"
    BY DEF CommitOnlyApproved
  <2>1. /\ Recorded(r) /\ GitRecorded(r) /\ repo[r] \in RepoState
        /\ run[r].cancel <=> run[r].status = "cancelled"
    BY DEF RecordInv, GitInv, RunInv, TypeInv, RestOK, CancelIsFinal
  <2>2. w \in Writes BY <2>1 DEF RepoState, Commits
  <2>3. cs[r][w].status \in {"approved", "merged"}
    BY <2>1, <2>2 DEF Recorded, HeadRecorded, GitRecorded, ExtraApproved
  <2>4. approval[r][w].status = "approved" BY <2>1, <2>2, <2>3 DEF GitRecorded, ApprovedByUser
  <2>5. run[r].status = "cancelled" => cs[r][w].status = "merged"
    BY <2>1, <2>2, <2>3 DEF Recorded, GateRecorded
  <2> QED BY <2>3, <2>4, <2>5
<1> QED BY <1>1, RecordInvariance, GitInvariance, PTL

\* Uncommitted changes are those of a merge under the mark or of a write task that is running or
\* ended without success, whatever failed or crashed: whoever completed left none behind.
THEOREM DirtAccounted == ~Stalls /\ Spec => []DirtyAccountedFor
<1>1. GitInv => DirtyAccountedFor
  BY DEF GitInv, GitRecorded, DirtMarked, DirtyAccountedFor, Soiled, Writes
<1> QED BY <1>1, GitInvariance, PTL

\* Every publication, by the merge handler or by recovery, puts one ChangeSet on top of the very
\* commit it was captured, tested and approved on, and records the commit that is in Git.
THEOREM MergesOnReviewedBase == ~Stalls /\ Spec => PublishedOnReviewedBase
<1> DEFINE Published1(r) ==
      head'[r] # head[r] =>
        \E w \in Writes \ head[r] :
          /\ head'[r] = head[r] \cup {w} /\ repo[r].head = head'[r]
          /\ cs[r][w].base = head[r]
<1>1. ASSUME RecordInv, GitInv, [Next]_vars, NEW r \in Runs PROVE Published1(r)
  <2> SUFFICES ASSUME head'[r] # head[r]
               PROVE \E w \in Writes \ head[r] :
                       /\ head'[r] = head[r] \cup {w} /\ repo[r].head = head'[r]
                       /\ cs[r][w].base = head[r]
    OBVIOUS
  <2>1. MergedOne(r)
    BY <1>1, StepIsRecordStep DEF RecordStep, Kept, Judged, Captured, Prepared, Decided, Withdrawn, SameHead
  <2>2. repo[r].head = head'[r]
    <3>1. MarkStep(r) BY <1>1, StepMarks
    <3>2. repo[r] = [head |-> head'[r], dirty |-> FALSE] BY <3>1 DEF MarkStep
    <3> QED BY <3>2
  <2>3. PICK w \in Writes : /\ cs[r][w].status = "approved" /\ cs[r][w].base = head[r]
                            /\ head'[r] = head[r] \cup {w}
    BY <2>1 DEF MergedOne
  <2>4. w \notin head[r] BY <1>1, <2>3 DEF RecordInv, Recorded, HeadRecorded
  <2> QED BY <2>2, <2>3, <2>4
<1>2. RecordInv /\ GitInv /\ [Next]_vars => [\A r \in Runs : Published1(r)]_vars
  BY <1>1
<1> QED BY <1>2, RecordInvariance, GitInvariance, PTL DEF Spec, PublishedOnReviewedBase

===============================================================================
