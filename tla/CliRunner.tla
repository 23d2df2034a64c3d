------------------------------- MODULE CliRunner -------------------------------
(***************************************************************************)
(* One CliAgentRunner and the process tree it owns, over several runs        *)
(* (adapters/cli/runner.py, events.py, execution_seal.py, windows_job.py).   *)
(*                                                                         *)
(* run seals the executable, spawns the root of a process group (POSIX) or   *)
(* of a Job (Windows), pumps its two output streams into a shared budget,    *)
(* and waits for the first of: the exit, cancel(), the output limit, the     *)
(* deadline, the cancellation of its own task.  Whatever comes first, and    *)
(* whatever comes while it cleans up, it must end with the tree stopped.     *)
(*                                                                         *)
(* An action lasts from one await of run to the next.  Output is counted in  *)
(* units; every chunk that is fed makes one event.                           *)
(***************************************************************************)
EXTENDS Naturals, FiniteSets

CONSTANTS Callers,      \* tasks that may call cancel(), each of them once
          Limit,        \* total_output_limit
          MaxEvents,    \* MAX_EVENTS
          MaxRuns, MaxAborts, MaxOutput   \* bounds of the model

ASSUME LimitAssumption == Limit \in Nat \ {0} /\ MaxEvents \in Nat
ASSUME BoundAssumption == MaxRuns \in Nat /\ MaxAborts \in Nat /\ MaxOutput \in Nat

VARIABLES platform,   \* "posix" or "windows"
          pc,         \* where run is
          next,       \* where it goes after a reap
          local,      \* timed_out, cancelled, orphaned, error_code and exit_code of run
          result,     \* of the last run
          number,     \* runs started
          cancelEvent,
          waiting,    \* caller -> run it waits for
          seal, job,  \* execution seal held; state of the Job Object
          root, child,   \* the root process; does the group have other members?
          escaped,    \* a process that left the group holds the pipes
          resisted,   \* history: the last stop of this run left members alive
          pipe, reader,  \* stream -> unread output; stream -> state of its pump
          budget,     \* used, truncated, exceeded
          events,     \* kept, dropped
          fed, aborts, written, wanted   \* history and bounds

procVars == <<root, child, escaped, resisted>>
outVars == <<pipe, reader, budget, events, fed>>
vars == <<platform, pc, next, local, result, number, cancelEvent, waiting, seal, job, procVars,
          outVars, aborts, written, wanted>>

Streams == {"stdout", "stderr"}
Codes == {"ok", "exit_non_zero", "timed_out", "cancelled", "output_limit", "spawn_failed",
          "identity_drift", "orphaned", "isolation"}
Steps == {"idle", "begin", "spawn", "watch", "reap", "returncode", "settle", "drain", "survivors",
          "finally", "last_reap"}
Exits == {"none", "zero", "nonzero"}
Locals == [code : Codes, timed_out : BOOLEAN, cancelled : BOOLEAN, orphaned : BOOLEAN, exit : Exits]
Results == Codes \cup {"none", "raised", "failed"}

TypeOK ==
  /\ platform \in {"posix", "windows"} /\ pc \in Steps /\ next \in Steps
  /\ local \in Locals /\ result \in Results
  /\ number \in 0 .. MaxRuns /\ aborts \in 0 .. MaxAborts /\ written \in 0 .. MaxOutput
  /\ cancelEvent \in BOOLEAN /\ wanted \in BOOLEAN /\ seal \in BOOLEAN
  /\ waiting \in [Callers -> 0 .. MaxRuns + 1]
  /\ job \in {"none", "open", "assigned"}
  /\ root \in {"none", "suspended", "running", "zero", "nonzero", "killed"}
  /\ child \in BOOLEAN /\ escaped \in BOOLEAN /\ resisted \in BOOLEAN
  /\ pipe \in [Streams -> 0 .. MaxOutput]
  /\ reader \in [Streams -> {"off", "reading", "ended"}]
  /\ budget.used \in 0 .. MaxOutput /\ budget.truncated \in 0 .. MaxOutput /\ budget.exceeded \in BOOLEAN
  /\ events.kept \in 0 .. MaxEvents /\ events.dropped \in Nat /\ fed \in Nat

Fresh == [code |-> "ok", timed_out |-> FALSE, cancelled |-> FALSE, orphaned |-> FALSE, exit |-> "none"]
NoOutput == /\ pipe = [s \in Streams |-> 0] /\ reader = [s \in Streams |-> "off"]
            /\ budget = [used |-> 0, truncated |-> 0, exceeded |-> FALSE]
            /\ events = [kept |-> 0, dropped |-> 0] /\ fed = 0
NotYet == MaxRuns + 1

Init ==
  /\ platform \in {"posix", "windows"}
  /\ pc = "idle" /\ next = "idle" /\ local = Fresh /\ result = "none" /\ number = 0
  /\ cancelEvent = FALSE /\ wanted = FALSE /\ waiting = [c \in Callers |-> NotYet]
  /\ seal = FALSE /\ job = "none" /\ root = "none" /\ child = FALSE /\ escaped = FALSE
  /\ resisted = FALSE
  /\ NoOutput /\ aborts = 0 /\ written = 0

-------------------------------------------------------------------------------
(* The process tree; a process does what it likes when it likes *)

Alive == root = "running" \/ child
HoldsPipes == Alive \/ escaped

runVars == <<platform, pc, next, local, result, number, cancelEvent, waiting, seal, job, aborts, wanted>>

Exit ==
  /\ root = "running" /\ root' \in {"zero", "nonzero"}
  /\ UNCHANGED <<runVars, child, escaped, resisted, outVars, written>>
Fork ==
  /\ Alive /\ child' = TRUE
  /\ UNCHANGED <<runVars, root, escaped, resisted, outVars, written>>
ChildExit ==
  /\ child /\ child' = FALSE
  /\ UNCHANGED <<runVars, root, escaped, resisted, outVars, written>>
\* setsid; a Job cannot be left.
Escape ==
  /\ child /\ platform = "posix" /\ child' \in BOOLEAN /\ escaped' = TRUE
  /\ UNCHANGED <<runVars, root, resisted, outVars, written>>
Write(s) ==
  /\ HoldsPipes /\ written < MaxOutput
  /\ pipe' = [pipe EXCEPT ![s] = @ + 1] /\ written' = written + 1
  /\ UNCHANGED <<runVars, procVars, reader, budget, events, fed>>

-------------------------------------------------------------------------------
(* The pumps.  A definition whose name says how it is wrong is a mutation used to *)
(* test the properties.                                                            *)

Consumed(b, size) ==
  LET used == b.used + size
  IN  [used |-> used,
       truncated |-> IF b.exceeded THEN b.truncated + size
                     ELSE IF used > Limit THEN b.truncated + used - Limit ELSE b.truncated,
       exceeded |-> b.exceeded \/ used > Limit]

Emitted == IF events.kept >= MaxEvents THEN [events EXCEPT !.dropped = @ + 1]
                                       ELSE [events EXCEPT !.kept = @ + 1]

Pump(s) ==
  /\ reader[s] = "reading" /\ pipe[s] > 0
  /\ \E size \in 1 .. pipe[s] :
       LET b == Consumed(budget, size)
       IN  /\ pipe' = [pipe EXCEPT ![s] = @ - size]
           /\ budget' = b
           /\ IF b.exceeded
              THEN reader' = [reader EXCEPT ![s] = "ended"] /\ UNCHANGED <<events, fed>>
              ELSE events' = Emitted /\ fed' = fed + size /\ UNCHANGED reader
  /\ UNCHANGED <<runVars, procVars, written>>

PumpEnds(s) ==
  /\ reader[s] = "reading" /\ pipe[s] = 0 /\ ~HoldsPipes
  /\ reader' = [reader EXCEPT ![s] = "ended"]
  /\ UNCHANGED <<runVars, procVars, pipe, budget, events, fed, written>>

ReadersCancelled == [s \in Streams |-> IF reader[s] = "reading" THEN "ended" ELSE reader[s]]
ReadersDone == \A s \in Streams : reader[s] # "reading"

-------------------------------------------------------------------------------
(* run *)

keep == <<platform, number, cancelEvent, waiting, aborts, written, wanted, pipe, budget, events, fed>>
Goto(s) == pc' = s /\ UNCHANGED next
ReapThen(s) == pc' = "reap" /\ next' = s
Return(code) == local' = [local EXCEPT !.code = code] /\ UNCHANGED result

\* A run is started, also right after a cancel() that found none.
Start ==
  /\ pc = "idle" /\ number < MaxRuns
  /\ pc' = "begin" /\ number' = number + 1 /\ local' = Fresh /\ result' = "none"
  /\ root' = "none" /\ child' = FALSE /\ escaped' = FALSE /\ resisted' = FALSE /\ job' = "none"
  /\ pipe' = [s \in Streams |-> 0] /\ reader' = [s \in Streams |-> "off"]
  /\ budget' = [used |-> 0, truncated |-> 0, exceeded |-> FALSE]
  /\ events' = [kept |-> 0, dropped |-> 0] /\ fed' = 0 /\ written' = 0
  /\ UNCHANGED <<platform, next, cancelEvent, waiting, seal, aborts, wanted>>

\* ExecutionSeal.acquire and path_still_bound
SealsExecutable == seal' = TRUE
DriftsOrFails ==
  \/ Return("spawn_failed") /\ UNCHANGED seal          \* argv, environment
  \/ Return("identity_drift") /\ seal' \in BOOLEAN     \* acquire; path_still_bound
  \/ platform = "windows" /\ Return("isolation") /\ seal' = TRUE   \* WindowsJob()

\* Up to the first await.
Prepare ==
  /\ pc = "begin"
  /\ IF cancelEvent
     THEN /\ local' = [local EXCEPT !.code = "cancelled", !.cancelled = TRUE]
          /\ Goto("finally") /\ UNCHANGED <<result, seal, job>>
     ELSE \/ DriftsOrFails /\ Goto("finally") /\ UNCHANGED job
          \/ /\ SealsExecutable /\ job' = (IF platform = "windows" THEN "open" ELSE "none")
             /\ Goto("spawn") /\ UNCHANGED <<local, result>>
  /\ UNCHANGED <<keep, procVars, reader>>

SpawnFails ==
  /\ pc = "spawn"
  /\ Return("spawn_failed") /\ Goto("finally")
  /\ UNCHANGED <<keep, procVars, reader, seal, job>>

Spawned == root' = (IF platform = "windows" THEN "suspended" ELSE "running")
Reading == reader' = [s \in Streams |-> "reading"]
Cancels == local' = [local EXCEPT !.code = "cancelled", !.cancelled = TRUE]

\* The spawn returned.  On Windows the root is assigned to the Job and its image is
\* verified before it is resumed.
Spawn ==
  /\ pc = "spawn"
  /\ \/ /\ cancelEvent /\ Spawned /\ Cancels /\ ReapThen("finally")
        /\ UNCHANGED <<seal, job, reader>>
     \/ /\ ~cancelEvent /\ platform = "posix" /\ Spawned /\ Reading
        /\ seal' = FALSE /\ Goto("watch") /\ UNCHANGED <<local, job>>
     \/ /\ ~cancelEvent /\ platform = "windows" /\ Reading
        /\ \/ /\ job' = "assigned" /\ root' = "running" /\ seal' = FALSE
              /\ Goto("watch") /\ UNCHANGED local
           \/ /\ Spawned /\ job' \in {"open", "assigned"} /\ UNCHANGED seal
              /\ \E code \in {"isolation", "identity_drift"} :
                   /\ code = "identity_drift" => job' = "assigned"
                   /\ local' = [local EXCEPT !.code = code]
              /\ ReapThen("finally")
  /\ UNCHANGED <<keep, child, escaped, resisted, result>>

\* asyncio.wait returned: with cancel(), ...
NoticeCancel ==
  /\ pc = "watch" /\ cancelEvent
  /\ Cancels /\ ReapThen("settle")
  /\ UNCHANGED <<keep, procVars, reader, seal, job, result>>

\* ... the output limit, ...
NoticeLimit ==
  /\ pc = "watch" /\ budget.exceeded
  /\ local' = [local EXCEPT !.code = "output_limit"] /\ ReapThen("returncode")
  /\ UNCHANGED <<keep, procVars, reader, seal, job, result>>

\* ... the exit of the root, ...
NoticeExit ==
  /\ pc = "watch" /\ root \in {"zero", "nonzero"}
  /\ local' = [local EXCEPT !.exit = root] /\ Goto("drain")
  /\ UNCHANGED <<keep, procVars, reader, seal, job, result>>

DeadlineUnmarked(l) == [l EXCEPT !.exit = "zero"]
TimedOut(l) == [l EXCEPT !.code = "timed_out", !.timed_out = TRUE]

\* ... or nothing within timeout_seconds.
Deadline ==
  /\ pc = "watch"
  /\ local' = TimedOut(local) /\ ReapThen(IF local'.timed_out THEN "settle" ELSE "drain")
  /\ UNCHANGED <<keep, procVars, reader, seal, job, result>>

-------------------------------------------------------------------------------
(* Cleaning up *)

RootAlive == root \in {"running", "suspended"}
StopRoot == root' = (IF RootAlive THEN "killed" ELSE root) /\ UNCHANGED <<child, resisted>>

Stopped == root' = (IF RootAlive THEN "killed" ELSE root) /\ child' = FALSE /\ resisted' = FALSE
\* Members that may not be signalled (PermissionError, AccessDenied) or outlive the grace
\* period stay, and nothing is raised; only the end of a Job is verified.
Resisted == /\ job # "assigned" /\ resisted' = TRUE
            /\ root' \in (IF RootAlive THEN {root, "killed"} ELSE {root}) /\ child' \in {child, FALSE}
            /\ root' \in {"running", "suspended"} \/ child'

\* _posix_group_stop, terminate_and_close; without a Job _psutil_tree_stop_sync, which
\* needs a living root.
StopTree ==
  IF platform = "posix" \/ job = "assigned" \/ RootAlive
  THEN Stopped \/ Resisted
  ELSE UNCHANGED <<root, child, resisted>>

\* _shielded_reap: cancellations that arrive meanwhile are swallowed.
Reap ==
  /\ pc = "reap" /\ StopTree
  /\ job' = "none" /\ pc' = next
  /\ UNCHANGED <<keep, next, escaped, reader, seal, local, result>>

\* terminate_and_close fails; the tree is stopped as far as possible and run raises.
TerminateFails ==
  /\ job = "assigned" /\ job' = "none"
  /\ root' \in (IF RootAlive THEN {root, "killed"} ELSE {root}) /\ child' \in {child, FALSE}
  /\ UNCHANGED resisted

ReapFails ==
  /\ pc = "reap" /\ TerminateFails
  /\ result' = "failed" /\ Goto("finally")
  /\ UNCHANGED <<keep, escaped, reader, seal, local>>

\* _bounded_returncode: the root is reaped within the grace period, or the result is
\* refused by _check_invariants.
ReturnCode ==
  /\ pc = "returncode"
  /\ \/ ~RootAlive /\ local' = [local EXCEPT !.exit = IF root = "zero" THEN "zero" ELSE "nonzero"]
        /\ Goto("settle") /\ UNCHANGED result
     \/ result' = "raised" /\ Goto("finally") /\ UNCHANGED local
  /\ UNCHANGED <<keep, procVars, reader, seal, job>>

\* After a timeout, a cancellation or the limit: no drain.
Settle ==
  /\ pc = "settle" /\ reader' = ReadersCancelled /\ Goto("finally")
  /\ UNCHANGED <<keep, procVars, seal, job, local, result>>

Drain ==
  /\ pc = "drain" /\ ReadersDone /\ Goto("survivors")
  /\ UNCHANGED <<keep, procVars, reader, seal, job, local, result>>

\* _has_survivors; a Job that cannot be queried is taken to have some.
Survivors == {Alive} \cup (IF job = "assigned" THEN {TRUE} ELSE {})

MayDrainForever == FALSE
\* DRAIN_TIMEOUT_SECONDS are over.
MayGiveUp == ~ReadersDone

DrainTimeout ==
  /\ pc = "drain" /\ MayGiveUp
  /\ reader' = ReadersCancelled
  /\ \/ TRUE \in Survivors /\ local' = [local EXCEPT !.orphaned = TRUE] /\ ReapThen("survivors")
     \/ FALSE \in Survivors /\ Goto("survivors") /\ UNCHANGED local
  /\ UNCHANGED <<keep, procVars, seal, job, result>>

Verdict(l) == IF l.orphaned THEN "orphaned" ELSE IF l.exit = "nonzero" THEN "exit_non_zero" ELSE "ok"

SurvivorsChecked ==
  /\ pc = "survivors"
  /\ \/ /\ TRUE \in Survivors /\ ReapThen("finally")
        /\ local' = [local EXCEPT !.orphaned = TRUE, !.code = "orphaned"]
     \/ /\ FALSE \in Survivors /\ Goto("finally")
        /\ local' = [local EXCEPT !.code = Verdict(local)]
  /\ UNCHANGED <<keep, procVars, reader, seal, job, result>>

Cleared == FALSE

\* The end of run: the last reap is over, or was skipped.
Finish(r) ==
  /\ result' = r /\ seal' = FALSE /\ Goto("idle")
  /\ cancelEvent' = Cleared /\ wanted' = FALSE
  /\ UNCHANGED <<platform, number, waiting, aborts, written, pipe, budget, events, fed, escaped, local>>

\* The tasks that are left are cancelled...
Finally ==
  /\ pc = "finally" /\ reader' = ReadersCancelled /\ Goto("last_reap")
  /\ UNCHANGED <<keep, procVars, seal, job, local, result>>

\* ... and the tree, if there is one, is reaped once more.
LastReap ==
  /\ pc = "last_reap"
  /\ \/ StopTree /\ job' = "none" /\ Finish(IF result = "none" THEN local.code ELSE result)
     \/ TerminateFails /\ Finish("failed")
  /\ UNCHANGED reader

-------------------------------------------------------------------------------
(* Cancellation *)

\* _run_done as cancel() finds it
WaitsFor == IF pc = "idle" THEN 0 ELSE number
Over(n) == number > n \/ (number = n /\ pc = "idle")

\* cancel()
Cancel(c) ==
  /\ waiting[c] = NotYet
  /\ cancelEvent' = TRUE /\ wanted' = TRUE
  /\ waiting' = [waiting EXCEPT ![c] = WaitsFor]
  /\ UNCHANGED <<platform, pc, next, local, result, number, seal, job, procVars, outVars, aborts, written>>

CancelReturns(c) ==
  /\ waiting[c] \in 1 .. MaxRuns /\ Over(waiting[c])
  /\ waiting' = [waiting EXCEPT ![c] = 0]
  /\ UNCHANGED <<platform, pc, next, local, result, number, cancelEvent, seal, job, procVars, outVars,
                 aborts, written, wanted>>

\* CancelledError at an await of run.  In the spawn it is held back until the process is
\* there; in the last clean-up it skips the reap, and run raises.
Abort ==
  /\ aborts < MaxAborts /\ aborts' = aborts + 1 /\ wanted' = (pc # "finally")
  /\ \/ /\ pc = "spawn" /\ Spawned /\ Cancels /\ ReapThen("finally")
        /\ UNCHANGED <<reader, seal, result, cancelEvent>>
     \/ /\ pc \in {"watch", "returncode"} /\ Cancels /\ ReapThen("settle")
        /\ UNCHANGED <<root, reader, seal, result, cancelEvent>>
     \/ /\ pc \in {"settle", "drain"} \cup (IF platform = "windows" THEN {"survivors"} ELSE {})
        /\ Cancels /\ ReapThen("finally")
        /\ UNCHANGED <<root, reader, seal, result, cancelEvent>>
     \/ /\ pc = "finally" /\ \E s \in Streams : reader[s] # "off"
        /\ reader' = ReadersCancelled /\ seal' = FALSE /\ Goto("idle")
        /\ result' = IF result = "failed" THEN "failed" ELSE "raised"
        /\ cancelEvent' = Cleared /\ UNCHANGED <<root, local>>
  /\ UNCHANGED <<platform, number, waiting, written, pipe, budget, events, fed, child, escaped, resisted, job>>

Runner ==
  \/ Prepare \/ SpawnFails \/ Spawn \/ NoticeCancel \/ NoticeLimit \/ NoticeExit \/ Deadline
  \/ Reap \/ ReapFails \/ ReturnCode \/ Settle \/ Drain \/ DrainTimeout \/ SurvivorsChecked
  \/ Finally \/ LastReap

Agent == Exit \/ Fork \/ ChildExit \/ Escape \/ \E s \in Streams : Write(s)

Next ==
  \/ Start \/ Runner \/ Agent \/ Abort
  \/ \E s \in Streams : Pump(s) \/ PumpEnds(s)
  \/ \E c \in Callers : Cancel(c) \/ CancelReturns(c)

Spec == Init /\ [][Next]_vars

\* The event loop runs every task that can go on, timers included; the Agent owes nothing.
FairSpec == /\ Spec /\ WF_vars(Runner)
            /\ \A c \in Callers : WF_vars(CancelReturns(c))

-------------------------------------------------------------------------------
(* Properties *)

\* When run is over, by whatever way, no process of its group or Job is left, unless a Job
\* could not be terminated, which an exception reports, or the last stop was resisted, which nothing
\* reports (_posix_group_stop and _psutil_tree_stop_sync ignore what their last wait saw).  It
\* owns nothing either: the seal is closed, the pumps have ended, the Job is closed unless a
\* cancellation hit the very last clean-up (_reap, the finally of run).
NothingLeft ==
  pc = "idle" =>
    /\ result # "failed" /\ ~resisted => ~Alive /\ root # "suspended"
    /\ ~seal /\ ReadersDone
    /\ result # "raised" => job = "none"

\* What a run reports is what happened.  A process that the deadline, a cancellation or a
\* reap stopped is never reported as one that ended by itself; an Agent that leaves members of
\* its group alive is reported neither ok nor as a mere exit code, also when they resist being
\* stopped; the cancellation of a run does not spill over to the next one; two pumps that share
\* one budget feed no more than the limit, and what they read beyond it is counted as truncated.
\* The part below the limit of the chunk that passes it is dropped too and counted nowhere
\* (CliRunResult, the clear in run, _OutputBudget.consume, _pump).
ReportedTruly ==
  /\ result = "ok" => root = "zero"
  /\ result = "exit_non_zero" => root = "nonzero"
  /\ result \in {"ok", "exit_non_zero"} => ~child
  /\ result = "orphaned" => root \in {"zero", "nonzero"}
  /\ local.cancelled /\ pc # "idle" => wanted
  /\ fed <= Limit
  /\ budget.truncated = IF budget.used > Limit THEN budget.used - Limit ELSE 0

\* Every run ends, also when the Agent never exits, never stops to write, ignores signals
\* sent to it or leaves its group with the pipes in its hands; and so does every cancel(),
\* which waits for the run it was meant for (run, cancel).
RunEnds ==
  /\ pc # "idle" ~> pc = "idle"
  /\ \A c \in Callers : waiting[c] \in 1 .. MaxRuns ~> waiting[c] = 0
================================================================================
