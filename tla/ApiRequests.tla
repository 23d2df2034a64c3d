------------------------------ MODULE ApiRequests ------------------------------
(***************************************************************************)
(* Retryable requests and what they create (app/api.py, app/services.py,    *)
(* storage/idempotency_repository.py, planner_repository.py,                *)
(* repositories.py).                                                         *)
(*                                                                         *)
(* A client may repeat a request whose answer it did not get, with the same  *)
(* idempotency key, also while the first delivery is still being served.     *)
(* Every delivery is served by a handler in several steps: a look-up of the  *)
(* key, work outside of any transaction (a clone, a compilation under the    *)
(* workspace lease), and one transaction that looks the key up again,        *)
(* changes the database and stores the answer.  Meanwhile the Scheduler      *)
(* plans, other clients edit, merges move the head, leases are lost and the   *)
(* Master is replaced.                                                      *)
(*                                                                         *)
(* There is one session with one workflow and one approval, and the sessions *)
(* that requests create.  A row is named by the delivery that inserted it.   *)
(***************************************************************************)
EXTENDS Naturals, FiniteSets

CONSTANTS Deliveries,   \* deliveries of requests
          Keys,         \* idempotency keys
          Ops,          \* operations the clients use
          MaxRestarts, MaxMoves, MaxExpiries   \* bounds of the model

AllOps == {"session", "plan", "update", "validate", "run", "decide"}

ASSUME OpsAssumption == Ops \subseteq AllOps
ASSUME BoundAssumption == MaxRestarts \in Nat /\ MaxMoves \in Nat /\ MaxExpiries \in Nat
ASSUME DeliveryAssumption == /\ IsFiniteSet(Deliveries)
                             /\ Deliveries \cap {"none", "earlier", "conflict", "error"} = {}

VARIABLES keys,      \* <<operation, key>> -> stored request and answer
          sessions,  \* rows of sessions created by requests
          clones,    \* their repositories on disk
          plans,     \* delivery -> status and base commit of its planner run
          results,   \* planner runs whose workflow was created
          wf,        \* the workflow: version, graph and compiled preview
          runs,      \* delivery -> snapshot of its workflow run
          active,    \* the session's run that is not over
          approval,  \* status, and request of its decision
          head, catalog,   \* head of the session; the catalog of Agents
          ws,        \* holder of the workspace lease
          epoch,     \* fencing token of the Master lease
          working,   \* planner runs being executed, with the token of the Scheduler
          del,       \* delivery -> its handler
          applied,   \* history: deliveries whose mutation was committed
          expiries   \* history: <<operation, key>> -> how often it expired

vars == <<keys, sessions, clones, plans, results, wf, runs, active, approval, head,
          catalog, ws, epoch, working, del, applied, expiries>>
dbVars == <<sessions, plans, results, wf, runs, active, approval>>
envVars == <<head, catalog, epoch, working, expiries>>

None == "none"
Earlier == "earlier"   \* a run that was created before
Graphs == {1, 2}
Moves == 0 .. MaxMoves
Versions == 1 .. Cardinality(Deliveries) + 1
Snapshots == [version : Versions, graph : Graphs, base : Moves, catalog : Moves]
NoSnapshot == [version |-> 0, graph |-> 0, base |-> 0, catalog |-> 0]
Seen == {NoSnapshot} \cup Snapshots \cup {[NoSnapshot EXCEPT !.version = v] : v \in Versions}
Requests == [op : AllOps, key : Keys, body : {1, 2}, seen : Seen]
Answers == {None, "conflict", "error"} \cup Deliveries
NoRequest == [op |-> None, key |-> None, body |-> 0, seen |-> NoSnapshot]
NoRow == [req |-> NoRequest, answer |-> None]
PlanStatuses == {"none", "pending", "running", "succeeded", "failed", "orphaned"}
PlanEnded == {"succeeded", "failed", "orphaned"}
Steps == {"idle", "lookup", "clone", "lease", "load", "compile", "confirm", "execute", "settle",
          "discard", "done", "dead"}

Current == [version |-> wf.version, graph |-> wf.graph, base |-> head, catalog |-> catalog]
Scope(r) == <<r.op, r.key>>

TypeOK ==
  /\ keys \in [Ops \X Keys -> {NoRow} \cup [req : Requests, answer : Deliveries]]
  /\ sessions \subseteq Deliveries /\ clones \subseteq Deliveries /\ applied \subseteq Deliveries
  /\ plans \in [Deliveries -> [status : PlanStatuses, base : Moves]]
  /\ results \subseteq Deliveries
  /\ wf.version \in Versions /\ wf.graph \in Graphs
  /\ wf.preview \in {NoSnapshot} \cup Snapshots
  /\ runs \in [Deliveries -> {NoSnapshot} \cup Snapshots]
  /\ active \in Deliveries \cup {None, Earlier}
  /\ approval \in {NoRow} \cup [req : Requests, answer : Deliveries]
  /\ head \in Moves /\ catalog \in Moves /\ epoch \in 0 .. MaxRestarts
  /\ ws \in Deliveries \cup {None}
  /\ working \subseteq Deliveries \X (0 .. MaxRestarts)
  /\ \A d \in Deliveries :
       /\ del[d].step \in Steps /\ del[d].answer \in Answers /\ del[d].epoch \in 0 .. MaxRestarts
       /\ del[d].step # "idle" => del[d].req \in Requests
       /\ del[d].got \in {NoSnapshot} \cup Snapshots
  /\ expiries \in [Ops \X Keys -> 0 .. MaxExpiries]

Handler == [step |-> "idle", req |-> NoRequest, got |-> NoSnapshot, answer |-> None, epoch |-> 0]

Init ==
  /\ keys = [s \in Ops \X Keys |-> NoRow]
  /\ sessions = {} /\ clones = {} /\ results = {} /\ applied = {} /\ working = {}
  /\ plans = [d \in Deliveries |-> [status |-> "none", base |-> 0]]
  /\ wf = [version |-> 1, graph |-> 1, preview |-> NoSnapshot]
  /\ runs = [d \in Deliveries |-> NoSnapshot]
  /\ approval = NoRow /\ active = Earlier
  /\ head = 0 /\ catalog = 0 /\ epoch = 0 /\ ws = None
  /\ del = [d \in Deliveries |-> Handler]
  /\ expiries = [s \in Ops \X Keys |-> 0]

-------------------------------------------------------------------------------
(* A definition whose name says how it is wrong is a mutation used to test the *)
(* properties.                                                                 *)

At(d, s) == del[d].step = s
Req(d) == del[d].req
Go(d, s) == del' = [del EXCEPT ![d].step = s]
Answer(d, a) == del' = [del EXCEPT ![d] = [Handler EXCEPT !.step = "done", !.req = Req(d), !.answer = a]]
Row(d) == keys[Scope(Req(d))]

\* What a request says of the workflow its client sees: the version, and for a run the
\* hash of the compiled snapshot.
SeenBy(o) == CASE o = "run" -> Current
               [] o \in {"update", "validate"} -> [NoSnapshot EXCEPT !.version = wf.version]
               [] OTHER -> NoSnapshot

\* The requests sent so far, and the keys a client may use now: deliveries and keys that
\* were not used yet are interchangeable.
Sent == {Req(e) : e \in {e \in Deliveries : ~At(e, "idle")}}
Usable ==
  LET used == {r.key : r \in Sent}
  IN  IF used = Keys THEN Keys ELSE used \cup {CHOOSE k \in Keys : k \notin used}

\* A new request, or one that was sent before.
Sendable == Sent \cup {[op |-> o, key |-> k, body |-> b, seen |-> SeenBy(o)] :
                         o \in Ops, k \in Usable, b \in {1, 2}}

\* A handler is called with a request.
Deliver(d) ==
  /\ At(d, "idle") /\ d = CHOOSE e \in Deliveries : At(e, "idle")
  /\ \E r \in Sendable :
       /\ r.body = 2 => r.op \in {"update", "decide"}
       /\ del' = [del EXCEPT ![d] = [Handler EXCEPT !.step = "lookup", !.req = r, !.epoch = epoch]]
  /\ UNCHANGED <<keys, clones, ws, applied, dbVars, envVars>>

AnyRequest(row, r) == TRUE
SameRequest(row, r) == row.req = r

\* What a stored row answers to the request r.
Replay(row, r) == IF SameRequest(row, r) THEN row.answer ELSE "conflict"

\* The step of a handler after the look-up of its key.
AfterLookup(r) == CASE r.op = "session" -> "clone"
                    [] r.op \in {"validate", "run"} -> "lease"
                    [] OTHER -> "execute"

\* lookup outside of a transaction, and the check of the version that follows it.
Lookup(d) ==
  LET r == Req(d)
  IN  /\ At(d, "lookup") /\ r.op # "decide"
      /\ IF Row(d) # NoRow THEN Answer(d, Replay(Row(d), r))
         ELSE IF r.op \in {"validate", "run"} /\ r.seen.version # wf.version
              THEN Answer(d, "error")
              ELSE Go(d, AfterLookup(r))
      /\ UNCHANGED <<keys, clones, ws, applied, dbVars, envVars>>

\* prepare_session_in_worker; when the request is cancelled meanwhile, the clone is
\* removed before the cancellation goes on.
PrepareClone(d) ==
  /\ At(d, "clone")
  /\ \/ Go(d, "execute") /\ clones' = clones \cup {d}
     \/ Answer(d, "error") /\ UNCHANGED clones
  /\ UNCHANGED <<keys, ws, applied, dbVars, envVars>>

\* temporary_workspace
TakeWorkspace(d) ==
  /\ At(d, "lease")
  /\ IF ws = None THEN ws' = d /\ Go(d, "load")
                  ELSE Answer(d, "error") /\ UNCHANGED ws
  /\ UNCHANGED <<keys, clones, applied, dbVars, envVars>>

\* Leave the lease, if it is still held.
Free(d) == ws' = IF ws = d THEN None ELSE ws

\* prepare_validation reads the workflow and the head of the session...
LoadWorkflow(d) ==
  /\ At(d, "load")
  /\ del' = [del EXCEPT ![d].step = "compile", ![d].got = Current]
  /\ UNCHANGED <<keys, clones, ws, applied, dbVars, envVars>>

\* ... then the catalog, and compiles (_validate_loaded); the client must have asked for
\* this version.  A graph with errors has no preview, but a validation still reports them.
Compile(d) ==
  /\ At(d, "compile")
  /\ IF del[d].got.version # Req(d).seen.version
     THEN Answer(d, "error") /\ Free(d)
     ELSE \/ /\ del' = [del EXCEPT ![d].step = IF Req(d).op = "run" THEN "confirm" ELSE "execute",
                                   ![d].got.catalog = catalog]
             /\ UNCHANGED ws
          \/ Req(d).op = "run" /\ Answer(d, "error") /\ Free(d)
          \/ /\ Req(d).op = "validate"
             /\ del' = [del EXCEPT ![d].step = "execute", ![d].got = NoSnapshot]
             /\ UNCHANGED ws
  /\ UNCHANGED <<keys, clones, applied, dbVars, envVars>>

ConfirmedAlways(d) == TRUE
\* The compiled hash depends on the graph, the base commit and the catalog.
Confirmed(d) ==
  /\ del[d].got.graph = Req(d).seen.graph
  /\ del[d].got.base = Req(d).seen.base
  /\ del[d].got.catalog = Req(d).seen.catalog

\* prepare_run compares the compiled hash, the repository and the catalog once more.
Confirm(d) ==
  /\ At(d, "confirm")
  /\ IF Confirmed(d) /\ head = del[d].got.base /\ catalog = del[d].got.catalog
     THEN Go(d, "execute") /\ UNCHANGED ws
     ELSE Answer(d, "error") /\ Free(d)
  /\ UNCHANGED <<keys, clones, applied, dbVars, envVars>>

-------------------------------------------------------------------------------
(* The transaction of a request *)

Fenced(d) == del[d].epoch = epoch
HoldsWorkspace(d) == ws = d

\* save_compiled_preview_in
Previewable(d) ==
  HoldsWorkspace(d) /\ wf.version = del[d].got.version /\ wf.graph = del[d].got.graph

StillCurrentAlways(d) == TRUE
\* The checks of WorkflowRunRepository.create.
StillCurrent(d) == del[d].got = Current

\* The mutations of requests; one that raises is disabled.
InsertSession(d) ==
  /\ sessions' = sessions \cup {d}
  /\ UNCHANGED <<plans, results, wf, runs, active, approval>>

\* enqueue_plan, with the head as of the transaction
InsertPlan(d) ==
  /\ plans' = [plans EXCEPT ![d] = [status |-> "pending", base |-> head]]
  /\ UNCHANGED <<sessions, results, wf, runs, active, approval>>

Advanced(v) == v + 1

UpdateAuthorGraph(d) ==
  /\ wf.version = Req(d).seen.version
  /\ wf' = [wf EXCEPT !.version = Advanced(@), !.graph = Req(d).body]
  /\ UNCHANGED <<sessions, plans, results, runs, active, approval>>

SavePreview(d) == Previewable(d) /\ wf' = [wf EXCEPT !.preview = del[d].got]

StoreValidation(d) ==
  /\ IF del[d].got = NoSnapshot THEN UNCHANGED wf ELSE SavePreview(d)
  /\ UNCHANGED <<sessions, plans, results, runs, active, approval>>

\* ux_workflow_runs_active_session: one run of a session at a time.
InsertRun(d) ==
  /\ SavePreview(d) /\ StillCurrent(d) /\ active = None
  /\ runs' = [runs EXCEPT ![d] = del[d].got]
  /\ active' = d
  /\ UNCHANGED <<sessions, plans, results, approval>>

Mutate(d) ==
  /\ Fenced(d)
  /\ CASE Req(d).op = "session"  -> InsertSession(d)
       [] Req(d).op = "plan"     -> InsertPlan(d)
       [] Req(d).op = "update"   -> UpdateAuthorGraph(d)
       [] Req(d).op = "validate" -> StoreValidation(d)
       [] Req(d).op = "run"      -> InsertRun(d)

Stores(d) ==
  /\ Mutate(d)
  /\ keys' = [keys EXCEPT ![Scope(Req(d))] = [req |-> Req(d), answer |-> d]]
  /\ applied' = applied \cup {d}

StoredUnchecked(d) == FALSE
\* The look-up of execute, inside the transaction.
Stored(d) == Row(d) # NoRow

\* The step of a handler whose transaction ended with answer a.
After(d, a) ==
  /\ IF Req(d).op # "session" \/ a = d THEN Answer(d, a)
     ELSE del' = [del EXCEPT ![d].answer = a,
                             ![d].step = IF a \in Deliveries THEN "discard" ELSE "settle"]
  /\ Free(d)

\* IdempotencyRepository.execute.  `raised`: the mutation or the commit raised, in the
\* second case after the commit or before it.
Execute(d) ==
  /\ At(d, "execute") /\ Req(d).op # "decide"
  /\ IF Stored(d)
     THEN After(d, Replay(Row(d), Req(d))) /\ UNCHANGED <<keys, applied, dbVars>>
     ELSE \/ Stores(d) /\ After(d, d)
          \/ Stores(d) /\ After(d, "error")
          \/ After(d, "error") /\ UNCHANGED <<keys, applied, dbVars>>
  /\ UNCHANGED <<clones, envVars>>

MayDiscardAlways(d) == TRUE
\* create_session after an exception: the clone goes when no session refers to it.  This
\* read, and the removal, are assumed to succeed.
MayDiscard(d) == d \notin sessions

Settle(d) ==
  /\ At(d, "settle")
  /\ Go(d, IF MayDiscard(d) THEN "discard" ELSE "done")
  /\ UNCHANGED <<keys, clones, ws, applied, dbVars, envVars>>

Discarded(d) == clones \ {d}

\* discard_prepared_session_in_worker, also of a clone whose request was a replay
Discard(d) ==
  /\ At(d, "discard")
  /\ clones' = Discarded(d)
  /\ Go(d, "done")
  /\ UNCHANGED <<keys, ws, applied, dbVars, envVars>>

DecidableAlways(r) == TRUE
\* ApprovalRepository.decide keeps the request of the decision in the approval's row.
Decidable(r) == approval = NoRow

Decide(d) ==
  LET r == Req(d)
  IN  /\ At(d, "lookup") /\ r.op = "decide"
      /\ IF Fenced(d) /\ approval # NoRow /\ approval.req.key = r.key
         THEN Answer(d, IF approval.req = r THEN approval.answer ELSE "conflict")
              /\ UNCHANGED <<approval, applied>>
         ELSE IF Fenced(d) /\ Decidable(r)
              THEN /\ approval' = [req |-> r, answer |-> d] /\ applied' = applied \cup {d}
                   /\ \E a \in {d, "error"} : Answer(d, a)
              ELSE Answer(d, "error") /\ UNCHANGED <<approval, applied>>
      /\ UNCHANGED <<keys, clones, ws, sessions, plans, results, wf, runs, active, envVars>>

-------------------------------------------------------------------------------
(* Planner runs *)

\* The Scheduler executes one planner run at a time.
StartPlan(d) ==
  /\ plans[d].status = "pending" /\ ~\E w \in working : w[2] = epoch
  /\ plans' = [plans EXCEPT ![d].status = "running"]
  /\ working' = working \cup {<<d, epoch>>}
  /\ UNCHANGED <<keys, clones, sessions, results, wf, runs, active, approval, head, catalog, ws, epoch,
                 del, applied, expiries>>

BaseCurrentAlways(d) == TRUE
BaseCurrent(d) == plans[d].base = head

SucceedWithWorkflow(d) ==
  /\ plans[d].status = "running" /\ BaseCurrent(d)
  /\ plans' = [plans EXCEPT ![d].status = "succeeded"]
  /\ results' = results \cup {d}

FailPlan(d) ==
  /\ plans[d].status = "running"
  /\ plans' = [plans EXCEPT ![d].status = "failed"]
  /\ UNCHANGED results

\* LeaseLost ends a Scheduler that is not the Master any more.
FinishPlan(w) ==
  /\ w \in working /\ working' = working \ {w}
  /\ IF w[2] = epoch THEN SucceedWithWorkflow(w[1]) \/ FailPlan(w[1])
                     ELSE UNCHANGED <<plans, results>>
  /\ UNCHANGED <<keys, clones, sessions, wf, runs, active, approval, head, catalog, ws, epoch, del,
                 applied, expiries>>

-------------------------------------------------------------------------------
(* The environment *)

\* A run merges under the workspace lease...
MoveHead ==
  /\ head + catalog < MaxMoves /\ ws = None /\ active # None
  /\ head' = head + 1
  /\ UNCHANGED <<keys, clones, dbVars, catalog, ws, epoch, working, del, applied, expiries>>

\* ... and comes to an end.
EndRun ==
  /\ active # None /\ active' = None
  /\ UNCHANGED <<keys, clones, sessions, plans, results, wf, runs, approval, envVars, ws, del, applied>>

ChangeCatalog ==
  /\ head + catalog < MaxMoves
  /\ catalog' = catalog + 1
  /\ UNCHANGED <<keys, clones, dbVars, head, ws, epoch, working, del, applied, expiries>>

\* The workspace lease of a slow request expires.
LoseWorkspace ==
  /\ ws # None /\ ws' = None
  /\ UNCHANGED <<keys, clones, dbVars, envVars, del, applied>>

\* The time to live of a key is over: it is as if it were not stored.
ExpireKey(s) ==
  /\ keys[s] # NoRow /\ expiries[s] < MaxExpiries
  /\ keys' = [keys EXCEPT ![s] = NoRow]
  /\ expiries' = [expiries EXCEPT ![s] = @ + 1]
  /\ UNCHANGED <<clones, dbVars, head, catalog, ws, epoch, working, del, applied>>

\* orphan_running
Orphaned == [d \in Deliveries |->
               IF plans[d].status = "running" THEN [plans[d] EXCEPT !.status = "orphaned"]
                                              ELSE plans[d]]

\* Another process becomes Master and recovers; the old one is dead, or stalled and still
\* serving its requests with the old token.
Restart ==
  /\ epoch < MaxRestarts /\ epoch' = epoch + 1
  /\ plans' = Orphaned
  /\ \/ UNCHANGED <<working, del, ws>>
     \/ /\ working' = {} /\ ws' = None
        /\ del' = [d \in Deliveries |->
                     IF del[d].step \in {"idle", "done"} THEN del[d]
                     ELSE [Handler EXCEPT !.step = "dead", !.req = Req(d)]]
  /\ UNCHANGED <<keys, clones, sessions, results, wf, runs, active, approval, head, catalog, applied, expiries>>

Serve(d) ==
  \/ Lookup(d) \/ PrepareClone(d) \/ TakeWorkspace(d) \/ LoadWorkflow(d) \/ Compile(d)
  \/ Confirm(d) \/ Execute(d) \/ Settle(d) \/ Discard(d) \/ Decide(d)

Plan == \/ \E d \in Deliveries : StartPlan(d)
        \/ \E w \in working : FinishPlan(w)

Next ==
  \/ \E d \in Deliveries : Deliver(d) \/ Serve(d)
  \/ Plan
  \/ MoveHead \/ EndRun \/ ChangeCatalog \/ LoseWorkspace \/ Restart
  \/ \E s \in Ops \X Keys : ExpireKey(s)

Spec == Init /\ [][Next]_vars

\* The event loop serves every handler and the Scheduler polls.
FairSpec == /\ Spec /\ WF_vars(Plan)
            /\ \A d \in Deliveries : WF_vars(Serve(d))

-------------------------------------------------------------------------------
(* Properties *)

SameScope(d, e) == ~At(d, "idle") /\ ~At(e, "idle") /\ Scope(Req(d)) = Scope(Req(e))

\* However often a request is delivered, at once or after a lost answer, a commit that
\* raised or a restart, its mutation is committed once, unless its key has expired
\* (idempotency_repository.execute, ApprovalRepository.decide).
OncePerKey ==
  \A d \in applied :
    Cardinality({e \in applied : SameScope(d, e)}) <= 1 + expiries[Scope(Req(d))]

\* Deliveries with one key get one answer: the row that one of them created, and only when
\* they asked for the same (IdempotencyResult.replayed, IdempotencyConflict).
AnswersAgree ==
  \A d, e \in Deliveries :
    SameScope(d, e) /\ del[d].answer \in Deliveries /\ del[e].answer \in Deliveries
      => /\ del[d].answer \in applied
         /\ expiries[Scope(Req(d))] = 0 => del[d].answer = del[e].answer /\ Req(d) = Req(e)

\* Sessions and repositories correspond: a clone is never removed that an ambiguous commit
\* may already refer to, and a create_session that ended, as a replay or with an error,
\* leaves none behind (create_session).
ClonesMatchSessions ==
  /\ sessions \subseteq clones
  /\ \A d \in clones \ sessions : ~At(d, "done")

\* A run is created from what its client has seen and confirmed, and that is still the
\* workflow, the head and the catalog in the transaction that creates it; a preview, from
\* which the client confirms, is stored only while the graph it was compiled from is still
\* the workflow's (prepare_run, WorkflowRunRepository.create, save_compiled_preview_in).
RunAsConfirmed ==
  [][/\ \A d \in Deliveries : runs'[d] # runs[d] => runs'[d] = Req(d).seen /\ runs'[d] = Current
     /\ wf'.preview # wf.preview => /\ wf'.preview.version = wf'.version
                                    /\ wf'.preview.graph = wf'.graph
                                    /\ wf'.preview.version >= wf.preview.version]_vars

\* A planner run has a workflow exactly when it succeeded, and it succeeds only on the head
\* it was planned for, even under a Scheduler that lost the Master lease meanwhile
\* (succeed_with_workflow).
PlannedOnHead ==
  [][/\ results' = {d \in Deliveries : plans'[d].status = "succeeded"}
     /\ \A d \in Deliveries : plans[d].status \in PlanEnded => plans'[d] = plans[d]
     /\ \A d \in results' \ results : plans[d].base = head]_vars


================================================================================
