--------------------------- MODULE ChangeSetCapture ---------------------------
(***************************************************************************)
(* What a write task stores: its policy and report artifacts and the        *)
(* ChangeSet with its artifacts (handlers/agent_task.py, storage/            *)
(* change_set_repository.py, artifact_repository.py).                        *)
(*                                                                         *)
(* Files cannot take part in a database transaction.  They are staged       *)
(* before it, published inside it and finalized after it; when the          *)
(* transaction fails they are removed, and when the commit itself raises     *)
(* the writer first has to find out whether it was committed.               *)
(*                                                                         *)
(* Every task has a writer, a handler in some serving process.  A job of a   *)
(* writer is one `create` (of "policy" or "report") or one `persist_capture` *)
(* (of a "captured" or an "abandoned" ChangeSet).                            *)
(***************************************************************************)
EXTENDS ArtifactStore, FiniteSets, Sequences

CONSTANTS Tasks,       \* write tasks of one session
          Parts,       \* the artifacts of a ChangeSet, in the order they are staged
          Size,        \* name of an artifact -> its size
          Quota,       \* max_session_artifact_bytes
          MaxCrashes   \* bound of the model

Captures == {"captured", "abandoned"}
Names == {"policy", "report"} \cup {Parts[i] : i \in DOMAIN Parts}
Artifacts == Tasks \X Names

ASSUME PartsAssumption ==
  /\ Parts \in Seq({Parts[i] : i \in DOMAIN Parts}) /\ Parts # <<>>
  /\ \A i, j \in DOMAIN Parts : Parts[i] = Parts[j] => i = j
  /\ {"policy", "report"} \cap {Parts[i] : i \in DOMAIN Parts} = {}
ASSUME TaskAssumption == "free" \notin Tasks
ASSUME SizeAssumption == Size \in [Names -> Nat] /\ Quota \in Nat /\ MaxCrashes \in Nat

VARIABLES rows,      \* committed rows of artifacts
          lock,      \* the writer inside a BEGIN IMMEDIATE transaction, or "free"
          task,      \* task -> status of its row
          cs,        \* task -> status of its ChangeSet's row
          run,       \* task -> is its run still running?
          leased,    \* task -> does its writer pass the fences?
          job,       \* task -> what its writer is doing
          crashes

vars == <<handle, temp, final, faults, rows, lock, task, cs, run, leased, job, crashes>>
dbVars == <<rows, task, cs>>
envVars == <<run, leased, crashes>>

Steps == {"stage", "begin", "publish", "linked", "insert", "commit", "finalize", "reconcile",
          "abort", "start", "drop", "unlink", "agent", "finish", "done", "dead"}
Results == {"none", "ok", "interrupted", "error", "lost", "unresolved"}

\* i: the artifact the job is at; res: what the job will report; outer: the handler is in its
\* except clause, whose own failure nothing follows.
Job(s, w) == [step |-> s, what |-> w, i |-> 1, res |-> "none", outer |-> FALSE]

TypeOK ==
  /\ handle \in [Artifacts -> HandleStates]
  /\ temp \in [Artifacts -> BOOLEAN] /\ final \in [Artifacts -> BOOLEAN]
  /\ faults \in 0 .. MaxFaults /\ crashes \in 0 .. MaxCrashes
  /\ rows \subseteq Artifacts /\ lock \in Tasks \cup {"free"}
  /\ task \in [Tasks -> {"none", "running", "succeeded", "failed", "cancelled"}]
  /\ cs \in [Tasks -> {"none"} \cup Captures]
  /\ run \in [Tasks -> {"running", "cancelled"}] /\ leased \in [Tasks -> BOOLEAN]
  /\ job \in [Tasks -> [step : Steps, what : {"policy", "report"} \cup Captures,
                        i : 0 .. Len(Parts), res : Results, outer : BOOLEAN]]

Init ==
  /\ handle = [a \in Artifacts |-> "none"]
  /\ temp = [a \in Artifacts |-> FALSE] /\ final = [a \in Artifacts |-> FALSE]
  /\ faults = 0 /\ crashes = 0
  /\ rows = {} /\ lock = "free"
  /\ task = [t \in Tasks |-> "none"] /\ cs = [t \in Tasks |-> "none"]
  /\ run = [t \in Tasks |-> "running"] /\ leased = [t \in Tasks |-> TRUE]
  /\ job = [t \in Tasks |-> Job("stage", "policy")]

-------------------------------------------------------------------------------
(* A definition whose name says how it is wrong is a mutation used to test the *)
(* properties.                                                                 *)

At(t, s) == job[t].step = s
Capturing(t) == job[t].what \in Captures
Items(t) == IF Capturing(t) THEN [i \in DOMAIN Parts |-> <<t, Parts[i]>>] ELSE <<<<t, job[t].what>>>>
Item(t) == Items(t)[job[t].i]
Ids(t) == {Items(t)[i] : i \in DOMAIN Items(t)}
Last(t) == job[t].i = Len(Items(t))
Ended == {"done", "dead"}

Goto(t, s, i) == job' = [job EXCEPT ![t].step = s, ![t].i = i]

\* The artifact after this one, or the first one at step s.
Advance(t, s) == IF Last(t) THEN Goto(t, s, 1) ELSE Goto(t, job[t].step, job[t].i + 1)

\* The except clause: what was captured is kept as abandoned, once more if that is what failed.
Again == [Job("stage", "abandoned") EXCEPT !.outer = TRUE]

\* A job has ended with result x: what the handler does next.  A lost lease and a commit that
\* could not be reconciled are raised past the except clause.
Following(t, x) ==
  LET w == job[t].what
      over == [job[t] EXCEPT !.step = "done", !.res = x]
  IN  CASE w = "policy" -> IF x = "ok" THEN Job("start", w) ELSE over
        [] w = "report" /\ x = "ok" -> Job("stage", "captured")
        [] w = "report" /\ x # "ok" -> IF task[t] = "running" THEN Again ELSE over
        [] w \in Captures /\ x = "error" -> IF task[t] = "running" /\ ~job[t].outer THEN Again ELSE over
        [] OTHER -> over
EndJob(t, x) == job' = [job EXCEPT ![t] = Following(t, x)]

\* The fences of a transaction raise LeaseLost; whatever else fails is an error.
Raised(t) == IF At(t, "begin") /\ ~leased[t] THEN "lost" ELSE "error"

BodyFailsWithoutRollback(t, made) ==
  /\ job' = [job EXCEPT ![t].step = "abort", ![t].i = made, ![t].res = Raised(t)]
  /\ UNCHANGED lock

\* The transaction is rolled back and the staged artifacts are aborted, last first.
BodyFails(t, made) ==
  /\ job' = [job EXCEPT ![t].step = "abort", ![t].i = made, ![t].res = Raised(t)]
  /\ lock' = IF lock = t THEN "free" ELSE lock

-------------------------------------------------------------------------------
(* Jobs: create and persist_capture *)

Stage(t) ==
  /\ At(t, "stage") /\ WriteTemp(Item(t))
  /\ Advance(t, "begin")
  /\ UNCHANGED <<lock, dbVars, envVars>>

\* create fails before it has anything to clean up.
StageFails(t) ==
  /\ At(t, "stage") /\ WriteTempFails(Item(t))
  /\ IF Capturing(t) /\ job[t].i > 1 THEN BodyFails(t, job[t].i - 1)
                                     ELSE EndJob(t, "error") /\ UNCHANGED lock
  /\ UNCHANGED <<dbVars, envVars>>

\* Fences and lineage of a capture: its leases, its running run, node and task.
Accepts(t) == leased[t] /\ run[t] = "running" /\ task[t] = "running" /\ cs[t] = "none"

Begin(t) ==
  /\ At(t, "begin") /\ lock = "free"
  /\ IF Capturing(t) => Accepts(t) THEN Goto(t, "publish", 1) /\ lock' = t
                                   ELSE BodyFails(t, Len(Items(t)))
  /\ UNCHANGED <<storeVars, dbVars, envVars>>

SizeOf(A) == LET n[B \in SUBSET A] == IF B = {} THEN 0
                                      ELSE LET a == CHOOSE b \in B : TRUE IN Size[a[2]] + n[B \ {a}]
             IN  n[A]

\* The rows this transaction sees: the committed ones and those it has inserted.
Inserted(t) == {Items(t)[i] : i \in 1 .. job[t].i - 1}
WithinQuota(t) == SizeOf(rows \cup Inserted(t)) + Size[Item(t)[2]] <= Quota

Publish(t) ==
  /\ At(t, "publish") /\ WithinQuota(t)
  /\ \/ Link(Item(t)) /\ Goto(t, "linked", job[t].i) /\ UNCHANGED lock
     \/ LinkFails(Item(t)) /\ BodyFails(t, Len(Items(t)))
  /\ UNCHANGED <<dbVars, envVars>>

OverQuota(t) ==
  /\ At(t, "publish") /\ ~WithinQuota(t)
  /\ BodyFails(t, Len(Items(t)))
  /\ UNCHANGED <<storeVars, dbVars, envVars>>

\* publish returns and the artifact's row is inserted.
Register(t) ==
  /\ At(t, "linked") /\ FinishPublish(Item(t))
  /\ IF Last(t) THEN Goto(t, IF Capturing(t) THEN "insert" ELSE "commit", 1)
                ELSE Goto(t, "publish", job[t].i + 1)
  /\ UNCHANGED <<lock, dbVars, envVars>>

RegisterFails(t) ==
  /\ At(t, "linked") /\ FinishPublishFails(Item(t))
  /\ BodyFails(t, Len(Items(t)))
  /\ UNCHANGED <<dbVars, envVars>>

\* _insert_capture_in and _finish_task_in write the ChangeSet, the node and the task.
InsertCapture(t) ==
  /\ At(t, "insert")
  /\ \/ Goto(t, "commit", 1) /\ UNCHANGED <<lock, faults>>
     \/ BodyFails(t, Len(Items(t))) /\ faults < MaxFaults /\ faults' = faults + 1
  /\ UNCHANGED <<handle, temp, final, dbVars, envVars>>

\* What the transaction of t makes durable.
Target(w) == IF w = "captured" THEN "succeeded" ELSE "failed"
Persist(t) ==
  /\ rows' = rows \cup Ids(t)
  /\ cs' = IF Capturing(t) THEN [cs EXCEPT ![t] = job[t].what] ELSE cs
  /\ task' = IF Capturing(t) THEN [task EXCEPT ![t] = Target(job[t].what)] ELSE task

Commit(t) ==
  /\ At(t, "commit") /\ lock' = "free"
  /\ Persist(t)
  /\ job' = [job EXCEPT ![t].step = "finalize", ![t].i = 1, ![t].res = "ok"]
  /\ UNCHANGED <<storeVars, envVars>>

\* The commit raises, or the handler is cancelled in it: committed or not.
CommitRaises(t) ==
  /\ At(t, "commit") /\ lock' = "free" /\ faults < MaxFaults /\ faults' = faults + 1
  /\ Persist(t) \/ UNCHANGED dbVars
  /\ \E x \in {"ok", "interrupted"} :
       job' = [job EXCEPT ![t].step = "reconcile", ![t].i = 1, ![t].res = x]
  /\ UNCHANGED <<handle, temp, final, envVars>>

\* get_and_verify of one artifact, and of all that a ChangeSet refers to.
Loads(a) == a \in rows /\ Readable(a)
VerifiedRecord(t) == \A a \in Ids(t) : Loads(a)

\* _reconcile_capture_commit: everything was committed and reads back, nothing was, or
\* the state is not one of these two.
CaptureCommitted(t) ==
  /\ cs[t] = job[t].what /\ task[t] = Target(job[t].what) /\ run[t] = "running"
  /\ VerifiedRecord(t)
CaptureRolledBackAssumed(t) == TRUE
CaptureRolledBack(t) ==
  Ids(t) \cap rows = {} /\ cs[t] = "none" /\ task[t] = "running" /\ run[t] = "running"

ReconcileCapture(t) ==
  /\ At(t, "reconcile") /\ Capturing(t)
  /\ IF CaptureCommitted(t) THEN Goto(t, "finalize", 1)
     ELSE IF CaptureRolledBack(t)
          THEN job' = [job EXCEPT ![t].step = "abort", ![t].i = Len(Items(t)), ![t].res = "error"]
          ELSE EndJob(t, "unresolved")
  /\ UNCHANGED <<storeVars, lock, dbVars, envVars>>

\* The trouble that broke the commit lasts, or a cancellation arrives: the outcome cannot be
\* read, and nothing is finalized or aborted.
ReconcileCaptureFails(t) ==
  /\ At(t, "reconcile") /\ Capturing(t)
  /\ EndJob(t, "unresolved")
  /\ UNCHANGED <<storeVars, lock, dbVars, envVars>>

\* _reconcile_create_commit does the same in a transaction of its own.
ReconcileCreate(t) ==
  /\ At(t, "reconcile") /\ ~Capturing(t) /\ lock = "free"
  /\ IF Item(t) \in rows
     THEN Finalize(Item(t)) /\ EndJob(t, job[t].res)
     ELSE Abort(Item(t)) /\ EndJob(t, IF handle'[Item(t)] = "discarded" THEN "error" ELSE "unresolved")
  /\ UNCHANGED <<lock, dbVars, envVars>>

FinalizePublished(t) ==
  /\ At(t, "finalize")
  /\ \/ Finalize(Item(t)) /\ IF Last(t) THEN EndJob(t, job[t].res)
                                        ELSE Goto(t, "finalize", job[t].i + 1)
     \/ FinalizeFails(Item(t)) /\ EndJob(t, "unresolved")
  /\ UNCHANGED <<lock, dbVars, envVars>>

\* _abort_staged_artifacts goes on after a failure and reports it; create ignores it.
AbortStaged(t) ==
  /\ At(t, "abort") /\ Abort(Item(t))
  /\ LET x == IF Capturing(t) /\ handle'[Item(t)] # "discarded" THEN "unresolved" ELSE job[t].res
     IN  IF job[t].i = 1 THEN EndJob(t, x)
                         ELSE job' = [job EXCEPT ![t].i = @ - 1, ![t].res = x]
  /\ UNCHANGED <<lock, dbVars, envVars>>

-------------------------------------------------------------------------------
(* The handler around its jobs *)

\* create_and_start_task binds the policy to a new running task; it may raise after
\* its commit, and the handler then tries to delete the policy.
StartTask(t) ==
  /\ At(t, "start") /\ lock = "free"
  /\ \/ /\ leased[t] /\ run[t] = "running"
        /\ task' = [task EXCEPT ![t] = "running"]
        /\ \/ Goto(t, "agent", 1) /\ UNCHANGED faults
           \/ Goto(t, "drop", 1) /\ faults < MaxFaults /\ faults' = faults + 1
     \/ ~(leased[t] /\ run[t] = "running") /\ Goto(t, "drop", 1) /\ UNCHANGED <<task, faults>>
  /\ UNCHANGED <<handle, temp, final, lock, rows, cs, envVars>>

\* The foreign key of tasks keeps the policy that a task refers to.
DeletableAlways(a) == TRUE
Deletable(a) == task[a[1]] = "none"

\* delete: the row first, the file after the commit.
DropPolicy(t) ==
  /\ At(t, "drop") /\ lock = "free"
  /\ IF Deletable(<<t, "policy">>)
     THEN rows' = rows \ {<<t, "policy">>} /\ Goto(t, "unlink", 1)
     ELSE Goto(t, "done", 1) /\ UNCHANGED rows
  /\ UNCHANGED <<storeVars, lock, task, cs, envVars>>

UnlinkPolicy(t) ==
  /\ At(t, "unlink") /\ DeleteFile(<<t, "policy">>)
  /\ Goto(t, "done", 1)
  /\ UNCHANGED <<lock, dbVars, envVars>>

\* The Agent has run and its edits were captured: success, a failure that it reports or that
\* is raised, with changes, and a failure without any.
AgentEnds(t) ==
  /\ At(t, "agent")
  /\ \E next \in {Job("stage", "report"), Job("stage", "abandoned"), Again, Job("finish", "report")} :
       job' = [job EXCEPT ![t] = next]
  /\ UNCHANGED <<storeVars, lock, dbVars, envVars>>

\* finish_task without a ChangeSet.
FinishTask(t) ==
  /\ At(t, "finish") /\ lock = "free"
  /\ task' = IF Accepts(t) THEN [task EXCEPT ![t] = "failed"] ELSE task
  /\ job' = [job EXCEPT ![t].step = "done", ![t].res = "error"]
  /\ UNCHANGED <<storeVars, lock, rows, cs, envVars>>

-------------------------------------------------------------------------------
(* The environment *)

\* The status of a task after the cancellation of its run.
AfterCancel(s) == IF s = "running" THEN "cancelled" ELSE s

\* cancel_with_cleanup: the run and its running task are cancelled in one transaction.
CancelRun(t) ==
  /\ lock = "free" /\ run[t] = "running"
  /\ run' = [run EXCEPT ![t] = "cancelled"]
  /\ task' = [task EXCEPT ![t] = AfterCancel(@)]
  /\ UNCHANGED <<storeVars, lock, rows, cs, leased, job, crashes>>

LoseLease(t) ==
  /\ lock # t /\ leased[t] /\ job[t].step \notin Ended
  /\ leased' = [leased EXCEPT ![t] = FALSE]
  /\ UNCHANGED <<storeVars, lock, dbVars, run, job, crashes>>

\* The process of t dies; SQLite rolls its transaction back.
Crash(t) ==
  /\ job[t].step \notin Ended /\ crashes < MaxCrashes
  /\ crashes' = crashes + 1
  /\ Forget({t} \X Names)
  /\ job' = [job EXCEPT ![t].step = "dead"]
  /\ lock' = IF lock = t THEN "free" ELSE lock
  /\ UNCHANGED <<dbVars, run, leased>>

Work(t) ==
  \/ Stage(t) \/ StageFails(t) \/ Begin(t) \/ Publish(t) \/ OverQuota(t)
  \/ Register(t) \/ RegisterFails(t) \/ InsertCapture(t) \/ Commit(t) \/ CommitRaises(t)
  \/ ReconcileCapture(t) \/ ReconcileCaptureFails(t) \/ ReconcileCreate(t)
  \/ FinalizePublished(t) \/ AbortStaged(t)
  \/ StartTask(t) \/ DropPolicy(t) \/ UnlinkPolicy(t) \/ AgentEnds(t) \/ FinishTask(t)

Next == \E t \in Tasks : Work(t) \/ CancelRun(t) \/ LoseLease(t) \/ Crash(t)

Spec == Init /\ [][Next]_vars

\* Handlers are tasks of an event loop and SQLite serves waiting transactions.
FairSpec == Spec /\ \A t \in Tasks : SF_vars(Work(t))

-------------------------------------------------------------------------------
(* Properties *)

\* A committed artifact can be read: no failed transaction, retry, clean-up, deletion or
\* crash leaves a row whose file is missing or still has its temporary name
\* (artifact_repository.get_and_verify, change_set_repository._verified_record).
RowsReadable == \A a \in rows : Readable(a)

\* A capture is all or nothing, whatever failed and however its commit ended.  One that
\* reports an error or a lost lease has left nothing, and so the one that is tried after it, as
\* abandoned, finds nothing: no row, no ChangeSet, no published file.  One that returns, or is interrupted after it was found
\* committed, is durable as a whole: ChangeSet, task and every artifact, with all handles
\* finalized (persist_capture, _reconcile_capture_commit, _abort_staged_artifacts).
AllOrNothing ==
  \A t \in Tasks :
    /\ \/ Capturing(t) /\ At(t, "done") /\ job[t].res \in {"error", "lost"}
       \/ job[t].what = "abandoned" /\ At(t, "stage") /\ job[t].i = 1
       => /\ cs[t] = "none"
          /\ \A i \in DOMAIN Parts : <<t, Parts[i]>> \notin rows /\ ~final[<<t, Parts[i]>>]
    /\ Capturing(t) /\ At(t, "done") /\ job[t].res \in {"ok", "interrupted"}
       => /\ cs[t] = job[t].what /\ task[t] = Target(job[t].what)
          /\ VerifiedRecord(t) /\ \A a \in Ids(t) : handle[a] = "finalized"

\* A task that was ever started has its policy, even when its start raised after the commit
\* and the handler tried to delete the policy again (_delete_unbound_policy).
StartedHasPolicy == \A t \in Tasks : task[t] # "none" => <<t, "policy">> \in rows

\* Every writer comes to an end, however often its clean-up fails or it is cancelled.
WritersEnd == \A t \in Tasks : <>(job[t].step \in Ended)

================================================================================
