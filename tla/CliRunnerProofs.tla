---------------------------- MODULE CliRunnerProofs ----------------------------
(***************************************************************************)
(* Proofs about CliRunner, for every set of callers, output limit, event    *)
(* cap and bound.  Two inductive invariants that do not need each other      *)
(* carry them: one about the shared output budget, one about where run is,   *)
(* what it has decided so far and what is left of the tree by then.          *)
(***************************************************************************)
EXTENDS CliRunner, TLAPS

-------------------------------------------------------------------------------
(* The output *)

Budgets == [used : Nat, truncated : Nat, exceeded : BOOLEAN]
Counts == [kept : Nat, dropped : Nat]

\* What is written is read or still in a pipe; what is read is fed until the limit is
\* passed, and from there on counted as lost.
OutputInv ==
  /\ pipe \in [Streams -> Nat] /\ budget \in Budgets /\ events \in Counts
  /\ fed \in Nat /\ written \in 0 .. MaxOutput
  /\ events.kept <= MaxEvents
  /\ budget.used + (pipe["stdout"] + pipe["stderr"]) = written
  /\ budget.exceeded <=> budget.used > Limit
  /\ budget.truncated = IF budget.used > Limit THEN budget.used - Limit ELSE 0
  /\ ~budget.exceeded => fed = budget.used
  /\ fed <= Limit

-------------------------------------------------------------------------------
(* The course of run *)

ControlType ==
  /\ platform \in {"posix", "windows"} /\ pc \in Steps /\ next \in Steps
  /\ local \in Locals /\ result \in Results
  /\ number \in 0 .. MaxRuns /\ aborts \in 0 .. MaxAborts
  /\ cancelEvent \in BOOLEAN /\ wanted \in BOOLEAN /\ seal \in BOOLEAN
  /\ waiting \in [Callers -> 0 .. MaxRuns + 1]
  /\ job \in {"none", "open", "assigned"}
  /\ root \in {"none", "suspended", "running", "zero", "nonzero", "killed"}
  /\ child \in BOOLEAN /\ escaped \in BOOLEAN /\ resisted \in BOOLEAN
  /\ reader \in [Streams -> {"off", "reading", "ended"}]

\* Where run is, or will be once the reap that it waits for is over.
At(s) == pc = s \/ (pc = "reap" /\ next = s)

\* Nothing of the tree is left to kill.
Gone == root \notin {"running", "suspended"} /\ ~child

\* What is left of the tree: a reap that is not resisted leaves nothing of it, run passes the
\* places behind it with the tree gone, and on Windows nothing runs outside the Job.
TreeInv ==
  /\ pc \in {"begin", "spawn"} => Gone /\ result = "none"
  /\ pc \in {"returncode", "settle", "finally", "last_reap", "idle"} /\ result # "failed" => Gone \/ resisted
  /\ platform = "windows" /\ job # "assigned" /\ result # "failed" /\ ~resisted => root # "running" /\ ~child
  /\ pc \in {"watch", "drain", "survivors"} => root # "suspended"
  /\ pc = "reap" => next \in {"returncode", "settle", "survivors", "finally"}
  /\ result # "none" => pc \in {"finally", "last_reap", "idle"}
  /\ result = "failed" => job = "none"
  /\ pc = "idle" => ~seal /\ (result # "raised" => job = "none")
  /\ pc \in {"last_reap", "idle"} => \A s \in Streams : reader[s] # "reading"

\* The codes that say how the root ended agree with how it ended.
TrueCode(code) ==
  /\ code = "ok" => root = "zero"
  /\ code = "exit_non_zero" => root = "nonzero"
  /\ code \in {"ok", "exit_non_zero"} => ~child
  /\ code = "orphaned" => root \in {"zero", "nonzero"}

\* What run has decided so far.
CodeInv ==
  /\ pc \in {"begin", "spawn", "watch"} => local.code = "ok"
  /\ At("drain") \/ At("survivors") =>
       local.code = "ok" /\ local.exit = root /\ root \in {"zero", "nonzero"}
  /\ At("returncode") \/ At("settle") => local.code \in {"cancelled", "timed_out", "output_limit"}
  /\ At("finally") \/ At("last_reap") => (result = "none" => TrueCode(local.code))
  /\ pc # "idle" => result \in {"none", "raised", "failed"}
  /\ TrueCode(result)
  /\ cancelEvent => wanted
  /\ local.cancelled /\ pc # "idle" => wanted

CourseInv == ControlType /\ TreeInv /\ CodeInv

CliInv == OutputInv /\ CourseInv

-------------------------------------------------------------------------------
(* Preservation: the output *)

outputVars == <<pipe, budget, events, fed, written>>

LEMMA OutputInit == Init => OutputInv
BY LimitAssumption, BoundAssumption DEF Init, NoOutput, OutputInv, Budgets, Counts, Streams

\* Only a new run, a write and a pump touch the output.
LEMMA OutputSteps ==
  [Next]_vars => \/ UNCHANGED outputVars
                 \/ Start
                 \/ \E s \in Streams : Write(s) \/ Pump(s)
<1> USE DEF outputVars, keep, outVars, runVars, procVars
<1>1. Runner => UNCHANGED outputVars
  BY DEF Runner, Prepare, SpawnFails, Spawn, NoticeCancel, NoticeLimit, NoticeExit, Deadline,
     Reap, ReapFails, ReturnCode, Settle, Drain, DrainTimeout, SurvivorsChecked, Finally,
     LastReap, Finish
<1>2. ASSUME Agent PROVE UNCHANGED outputVars \/ \E s \in Streams : Write(s)
  BY <1>2 DEF Agent, Exit, Fork, ChildExit, Escape
<1>3. Abort => UNCHANGED outputVars
  BY DEF Abort
<1>4. ASSUME NEW s \in Streams, PumpEnds(s) PROVE UNCHANGED outputVars
  BY <1>4 DEF PumpEnds
<1>5. ASSUME NEW c \in Callers, Cancel(c) \/ CancelReturns(c) PROVE UNCHANGED outputVars
  BY <1>5 DEF Cancel, CancelReturns
<1>6. UNCHANGED vars => UNCHANGED outputVars
  BY DEF vars
<1> QED
  BY <1>1, <1>2, <1>3, <1>4, <1>5, <1>6 DEF Next

\* One chunk more, whatever came before: consume counts it, and loses what is beyond the limit.
LEMMA ConsumedFacts ==
  ASSUME NEW b \in Budgets, NEW size \in Nat \ {0},
         b.exceeded <=> b.used > Limit,
         b.truncated = IF b.used > Limit THEN b.used - Limit ELSE 0
  PROVE  LET n == Consumed(b, size)
         IN  /\ n \in Budgets /\ n.used = b.used + size
             /\ n.exceeded <=> n.used > Limit
             /\ n.truncated = IF n.used > Limit THEN n.used - Limit ELSE 0
             /\ ~n.exceeded => ~b.exceeded
<1>1. b.used \in Nat /\ b.truncated \in Nat /\ b.exceeded \in BOOLEAN
  BY DEF Budgets
<1>2. CASE b.exceeded
  BY <1>1, <1>2, LimitAssumption DEF Budgets, Consumed
<1>3. CASE ~b.exceeded /\ b.used + size > Limit
  <2>1. b.truncated = 0
    BY <1>1, <1>3, LimitAssumption
  <2>2. b.truncated + (b.used + size) - Limit = b.used + size - Limit
    BY <1>1, <2>1, LimitAssumption
  <2>3. Consumed(b, size) = [used |-> b.used + size, truncated |-> b.used + size - Limit,
                             exceeded |-> TRUE]
    BY <1>3, <2>2 DEF Consumed
  <2> QED
    BY <1>1, <1>3, <2>3, LimitAssumption DEF Budgets
<1>4. CASE ~b.exceeded /\ ~(b.used + size > Limit)
  BY <1>1, <1>4, LimitAssumption DEF Budgets, Consumed
<1> QED
  BY <1>2, <1>3, <1>4

LEMMA OutputStep == OutputInv /\ [Next]_vars => OutputInv'
<1> SUFFICES ASSUME OutputInv, [Next]_vars PROVE OutputInv'
  OBVIOUS
<1>1. CASE UNCHANGED outputVars
  BY <1>1 DEF OutputInv, outputVars
<1>2. CASE Start
  BY <1>2, LimitAssumption, BoundAssumption DEF Start, OutputInv, Budgets, Counts, Streams
<1>3. ASSUME NEW s \in Streams, Write(s) PROVE OutputInv'
  <2>1. /\ pipe' \in [Streams -> Nat]
        /\ pipe'["stdout"] + pipe'["stderr"] = pipe["stdout"] + pipe["stderr"] + 1
    BY <1>3 DEF Write, OutputInv, Streams
  <2>2. budget.used \in Nat /\ pipe["stdout"] \in Nat /\ pipe["stderr"] \in Nat
    BY DEF OutputInv, Budgets, Streams
  <2>3. written' \in 0 .. MaxOutput /\ written' = written + 1
    BY <1>3, BoundAssumption DEF Write, OutputInv
  <2>4. UNCHANGED <<budget, events, fed>>
    BY <1>3 DEF Write
  <2> QED
    BY <2>1, <2>2, <2>3, <2>4 DEF OutputInv
<1>4. ASSUME NEW s \in Streams, Pump(s) PROVE OutputInv'
  <2>1. PICK size \in 1 .. pipe[s] :
          /\ pipe' = [pipe EXCEPT ![s] = @ - size]
          /\ budget' = Consumed(budget, size)
          /\ \/ budget'.exceeded /\ UNCHANGED <<events, fed>>
             \/ ~budget'.exceeded /\ events' = Emitted /\ fed' = fed + size
          /\ UNCHANGED written
    BY <1>4 DEF Pump
  <2>2. size \in Nat \ {0} /\ pipe[s] \in Nat /\ size <= pipe[s]
    BY DEF OutputInv
  <2>3. /\ budget' \in Budgets /\ budget'.used = budget.used + size
        /\ budget'.exceeded <=> budget'.used > Limit
        /\ budget'.truncated = IF budget'.used > Limit THEN budget'.used - Limit ELSE 0
        /\ ~budget'.exceeded => ~budget.exceeded
    BY <2>1, <2>2, ConsumedFacts DEF OutputInv
  <2>4. /\ pipe' \in [Streams -> Nat]
        /\ pipe'["stdout"] + pipe'["stderr"] + size = pipe["stdout"] + pipe["stderr"]
    BY <2>1, <2>2 DEF OutputInv, Streams
  <2>5. budget.used \in Nat /\ budget'.used \in Nat /\ budget'.exceeded \in BOOLEAN
    BY <2>3 DEF OutputInv, Budgets
  <2>6. events' \in Counts /\ events'.kept <= MaxEvents
    BY <2>1, LimitAssumption DEF OutputInv, Emitted, Counts
  <2>7. fed' \in Nat /\ fed' <= Limit /\ (~budget'.exceeded => fed' = budget'.used)
    BY <2>1, <2>2, <2>3, <2>5, LimitAssumption DEF OutputInv
  <2>8. budget'.used + (pipe'["stdout"] + pipe'["stderr"]) = written'
    <3>1. /\ pipe["stdout"] \in Nat /\ pipe["stderr"] \in Nat
          /\ pipe'["stdout"] \in Nat /\ pipe'["stderr"] \in Nat
      BY <2>4 DEF OutputInv, Streams
    <3> QED
      BY <2>1, <2>2, <2>3, <2>4, <2>5, <3>1 DEF OutputInv
  <2> QED
    BY <2>1, <2>3, <2>4, <2>6, <2>7, <2>8 DEF OutputInv
<1> QED
  BY <1>1, <1>2, <1>3, <1>4, OutputSteps

LEMMA OutputTyped ==
  OutputInv => /\ pipe \in [Streams -> 0 .. MaxOutput]
               /\ budget.used \in 0 .. MaxOutput /\ budget.truncated \in 0 .. MaxOutput
               /\ budget.exceeded \in BOOLEAN
               /\ events.kept \in 0 .. MaxEvents /\ events.dropped \in Nat /\ fed \in Nat
               /\ written \in 0 .. MaxOutput
<1> SUFFICES ASSUME OutputInv PROVE
               /\ pipe \in [Streams -> 0 .. MaxOutput]
               /\ budget.used \in 0 .. MaxOutput /\ budget.truncated \in 0 .. MaxOutput
               /\ budget.exceeded \in BOOLEAN
               /\ events.kept \in 0 .. MaxEvents /\ events.dropped \in Nat /\ fed \in Nat
               /\ written \in 0 .. MaxOutput
  OBVIOUS
<1>1. /\ pipe["stdout"] \in Nat /\ pipe["stderr"] \in Nat
      /\ budget.used \in Nat /\ budget.truncated \in Nat /\ budget.exceeded \in BOOLEAN
      /\ events.kept \in Nat /\ events.dropped \in Nat /\ fed \in Nat
  BY DEF OutputInv, Streams, Budgets, Counts
<1>2. /\ pipe["stdout"] <= MaxOutput /\ pipe["stderr"] <= MaxOutput
      /\ budget.used <= MaxOutput /\ budget.truncated <= budget.used
  BY <1>1, LimitAssumption, BoundAssumption DEF OutputInv
<1>3. pipe \in [Streams -> 0 .. MaxOutput]
  BY <1>1, <1>2, BoundAssumption DEF OutputInv, Streams
<1> QED
  BY <1>1, <1>2, <1>3, BoundAssumption, LimitAssumption DEF OutputInv

-------------------------------------------------------------------------------
(* Preservation: the course of run *)

\* What the assignments to the locals of run leave of them.
LEMMA CodeSet ==
  ASSUME NEW l \in Locals, NEW c \in Codes, NEW m, m = [l EXCEPT !.code = c]
  PROVE  m \in Locals /\ m.code = c /\ (m.cancelled <=> l.cancelled)
BY DEF Locals

LEMMA ExitSet ==
  ASSUME NEW l \in Locals, NEW e \in Exits, NEW m, m = [l EXCEPT !.exit = e]
  PROVE  m \in Locals /\ m.exit = e /\ m.code = l.code /\ (m.cancelled <=> l.cancelled)
BY DEF Locals

LEMMA OrphanSet ==
  ASSUME NEW l \in Locals, NEW m, m = [l EXCEPT !.orphaned = TRUE]
  PROVE  m \in Locals /\ m.exit = l.exit /\ m.code = l.code /\ (m.cancelled <=> l.cancelled)
BY DEF Locals

LEMMA OrphanCodeSet ==
  ASSUME NEW l \in Locals, NEW m, m = [l EXCEPT !.orphaned = TRUE, !.code = "orphaned"]
  PROVE  m \in Locals /\ m.code = "orphaned" /\ (m.cancelled <=> l.cancelled)
BY DEF Locals, Codes

LEMMA CancelSet ==
  ASSUME NEW l \in Locals, NEW m, m = [l EXCEPT !.code = "cancelled", !.cancelled = TRUE]
  PROVE  m \in Locals /\ m.code = "cancelled"
BY DEF Locals, Codes

LEMMA TimeoutSet ==
  ASSUME NEW l \in Locals, NEW m, m = TimedOut(l)
  PROVE  m \in Locals /\ m.code = "timed_out" /\ m.timed_out /\ (m.cancelled <=> l.cancelled)
BY DEF Locals, Codes, TimedOut

LEMMA FreshFacts == Fresh \in Locals /\ Fresh.code = "ok" /\ ~Fresh.cancelled
BY DEF Fresh, Locals, Codes, Exits

LEMMA CourseInit == Init => CourseInv
<1> SUFFICES ASSUME Init PROVE CourseInv
  OBVIOUS
<1>1. local \in Locals /\ ~local.cancelled
  BY FreshFacts DEF Init
<1>2. waiting \in [Callers -> 0 .. MaxRuns + 1]
  BY BoundAssumption DEF Init, NotYet
<1>3. /\ cancelEvent \in BOOLEAN /\ wanted \in BOOLEAN /\ seal \in BOOLEAN
      /\ child \in BOOLEAN /\ escaped \in BOOLEAN /\ resisted \in BOOLEAN
  BY DEF Init
<1>4. ControlType
  BY <1>1, <1>2, <1>3, BoundAssumption DEF Init, NoOutput, ControlType, Steps, Results
<1>5. TreeInv
  BY DEF Init, NoOutput, TreeInv, Gone
<1>6. CodeInv
  BY <1>1 DEF Init, CodeInv, At, TrueCode
<1> QED
  BY <1>4, <1>5, <1>6 DEF CourseInv

\* A reap: what StopTree leaves behind.
LEMMA StoppedTree ==
  ASSUME CourseInv, StopTree
  PROVE  /\ result # "failed" => Gone' \/ resisted'
         /\ root' \in {"none", "suspended", "running", "zero", "nonzero", "killed"}
         /\ child' \in BOOLEAN /\ resisted' \in BOOLEAN
         /\ root \in {"zero", "nonzero"} => root' = root
         /\ child' => child
BY DEF CourseInv, ControlType, TreeInv, Gone, StopTree, Stopped, Resisted, RootAlive

LEMMA CourseStep == CourseInv /\ [Next]_vars => CourseInv'
<1> SUFFICES ASSUME CourseInv, [Next]_vars PROVE CourseInv'
  OBVIOUS
<1>l. local \in Locals
  BY DEF CourseInv, ControlType
<1> USE BoundAssumption
    DEF CourseInv, ControlType, TreeInv, CodeInv, At, Gone, TrueCode, Steps, Results, Streams,
        keep, runVars, procVars, outVars, Goto, ReapThen, Return, Cancels, Alive, Survivors,
        ReadersCancelled, ReadersDone, Finish, Cleared
<1>1. CASE Start
  <2>1. local' \in Locals /\ local'.code = "ok" /\ ~local'.cancelled
    BY <1>1, FreshFacts DEF Start
  <2>2. child' \in BOOLEAN /\ escaped' \in BOOLEAN /\ resisted' \in BOOLEAN
    BY <1>1 DEF Start
  <2>3. ControlType'
    BY <1>1, <2>1, <2>2 DEF Start
  <2>4. TreeInv'
    BY <1>1, <2>1, <2>2 DEF Start
  <2>5. CodeInv'
    BY <1>1, <2>1, <2>2 DEF Start
  <2> QED
    BY <2>3, <2>4, <2>5
<1>2. CASE Prepare
  <2>1. CASE cancelEvent
    <3>1. local' = [local EXCEPT !.code = "cancelled", !.cancelled = TRUE]
      BY <1>2, <2>1 DEF Prepare
    <3>2. local' \in Locals /\ local'.code = "cancelled"
      BY <3>1, <1>l, CancelSet
    <3> QED
      BY <1>2, <2>1, <3>2 DEF Prepare
  <2>2. CASE ~cancelEvent /\ DriftsOrFails /\ Goto("finally") /\ UNCHANGED job
    <3>1. PICK c \in {"spawn_failed", "identity_drift", "isolation"} :
            local' = [local EXCEPT !.code = c]
      BY <2>2 DEF DriftsOrFails
    <3>2. local' \in Locals /\ local'.code = c /\ (local'.cancelled <=> local.cancelled)
      BY <3>1, <1>l, CodeSet DEF Codes
    <3>3. seal' \in BOOLEAN /\ UNCHANGED result
      BY <2>2 DEF DriftsOrFails
    <3> QED
      BY <1>2, <2>2, <3>2, <3>3 DEF Prepare
  <2>3. CASE ~cancelEvent /\ Goto("spawn") /\ UNCHANGED <<local, result>>
             /\ job' = (IF platform = "windows" THEN "open" ELSE "none") /\ seal' = TRUE
    BY <1>2, <2>3 DEF Prepare
  <2> QED
    BY <1>2, <2>1, <2>2, <2>3 DEF Prepare, SealsExecutable
<1>3. CASE SpawnFails
  <2>1. local' \in Locals /\ local'.code = "spawn_failed" /\ (local'.cancelled <=> local.cancelled)
    BY <1>3, <1>l, CodeSet DEF SpawnFails, Codes
  <2> QED
    BY <1>3, <2>1 DEF SpawnFails
<1>4. CASE Spawn
  <2>1. CASE cancelEvent
    <3>1. local' \in Locals /\ local'.code = "cancelled"
      BY <1>4, <2>1, <1>l, CancelSet DEF Spawn
    <3> QED
      BY <1>4, <2>1, <3>1 DEF Spawn, Spawned
  <2>2. CASE ~cancelEvent /\ pc' = "watch"
    BY <1>4, <2>2 DEF Spawn, Spawned, Reading
  <2>3. CASE ~cancelEvent /\ pc' = "reap"
    <3>1. PICK c \in {"isolation", "identity_drift"} : local' = [local EXCEPT !.code = c]
      BY <1>4, <2>3 DEF Spawn
    <3>2. local' \in Locals /\ local'.code = c /\ (local'.cancelled <=> local.cancelled)
      BY <3>1, <1>l, CodeSet DEF Codes
    <3> QED
      BY <1>4, <2>3, <3>2 DEF Spawn, Spawned, Reading
  <2> QED
    BY <1>4, <2>1, <2>2, <2>3 DEF Spawn
<1>5. CASE NoticeCancel
  <2>1. local' \in Locals /\ local'.code = "cancelled"
    BY <1>5, <1>l, CancelSet DEF NoticeCancel
  <2> QED
    BY <1>5, <2>1 DEF NoticeCancel
<1>6. CASE NoticeLimit
  <2>1. local' \in Locals /\ local'.code = "output_limit" /\ (local'.cancelled <=> local.cancelled)
    BY <1>6, <1>l, CodeSet DEF NoticeLimit, Codes
  <2> QED
    BY <1>6, <2>1 DEF NoticeLimit
<1>7. CASE NoticeExit
  <2>1. /\ local' \in Locals /\ local'.exit = root /\ local'.code = local.code
        /\ (local'.cancelled <=> local.cancelled)
    BY <1>7, <1>l, ExitSet DEF NoticeExit, Exits
  <2> QED
    BY <1>7, <2>1 DEF NoticeExit
<1>8. CASE Deadline
  <2>1. /\ local' \in Locals /\ local'.code = "timed_out" /\ local'.timed_out
        /\ (local'.cancelled <=> local.cancelled)
    BY <1>8, <1>l, TimeoutSet DEF Deadline
  <2> QED
    BY <1>8, <2>1 DEF Deadline
<1>9. CASE Reap
  BY <1>9, StoppedTree DEF Reap
<1>10. CASE ReapFails
  <2>1. child' \in BOOLEAN
    BY <1>10 DEF ReapFails, TerminateFails
  <2>2. ControlType'
    BY <1>10, <2>1 DEF ReapFails, TerminateFails, RootAlive
  <2>3. TreeInv'
    BY <1>10, <2>1 DEF ReapFails, TerminateFails, RootAlive
  <2>4. CodeInv'
    BY <1>10, <2>1 DEF ReapFails, TerminateFails, RootAlive
  <2> QED
    BY <2>2, <2>3, <2>4
<1>11. CASE ReturnCode
  <2>1. CASE UNCHANGED local
    BY <1>11, <2>1 DEF ReturnCode
  <2>2. CASE pc' = "settle" /\ UNCHANGED result
    <3>1. PICK e \in Exits : local' = [local EXCEPT !.exit = e]
      BY <1>11, <2>2 DEF ReturnCode, Exits
    <3>2. local' \in Locals /\ local'.code = local.code /\ (local'.cancelled <=> local.cancelled)
      BY <3>1, <1>l, ExitSet
    <3> QED
      BY <1>11, <2>2, <3>2 DEF ReturnCode
  <2> QED
    BY <1>11, <2>1, <2>2 DEF ReturnCode
<1>12. CASE Settle
  BY <1>12 DEF Settle
<1>13. CASE Drain
  BY <1>13 DEF Drain
<1>14. CASE DrainTimeout
  <2>1. /\ local' \in Locals /\ local'.exit = local.exit /\ local'.code = local.code
        /\ (local'.cancelled <=> local.cancelled)
    BY <1>14, <1>l, OrphanSet DEF DrainTimeout
  <2>2. ControlType'
    BY <1>14, <2>1 DEF DrainTimeout
  <2>3. TreeInv'
    BY <1>14, <2>1 DEF DrainTimeout
  <2>4. CodeInv'
    BY <1>14, <2>1 DEF DrainTimeout
  <2> QED
    BY <2>2, <2>3, <2>4
<1>15. CASE SurvivorsChecked
  <2>1. CASE pc' = "reap"
    <3>1. local' \in Locals /\ local'.code = "orphaned" /\ (local'.cancelled <=> local.cancelled)
      BY <1>15, <2>1, <1>l, OrphanCodeSet DEF SurvivorsChecked
    <3> QED
      BY <1>15, <2>1, <3>1 DEF SurvivorsChecked
  <2>2. CASE pc' = "finally"
    <3>1. /\ local' \in Locals /\ local'.code = Verdict(local)
          /\ (local'.cancelled <=> local.cancelled)
      BY <1>15, <2>2, <1>l, CodeSet DEF SurvivorsChecked, Verdict, Codes
    <3>2. ~child
      BY <1>15, <2>2 DEF SurvivorsChecked
    <3> QED
      BY <1>15, <2>2, <3>1, <3>2 DEF SurvivorsChecked, Verdict
  <2> QED
    BY <1>15, <2>1, <2>2 DEF SurvivorsChecked
<1>16. CASE Finally
  BY <1>16 DEF Finally
<1>17. CASE LastReap
  <2>0. /\ seal' \in BOOLEAN /\ cancelEvent' \in BOOLEAN /\ wanted' \in BOOLEAN
        /\ ~seal' /\ ~cancelEvent' /\ pc' = "idle" /\ job' = "none"
        /\ UNCHANGED <<platform, next, local, number, waiting, aborts, escaped, reader>>
        /\ pc = "last_reap"
    BY <1>17 DEF LastReap, TerminateFails
  <2>1. CASE StopTree /\ result' = IF result = "none" THEN local.code ELSE result
    <3>1. /\ result # "failed" => Gone' \/ resisted'
          /\ root' \in {"none", "suspended", "running", "zero", "nonzero", "killed"}
          /\ child' \in BOOLEAN /\ resisted' \in BOOLEAN
          /\ root \in {"zero", "nonzero"} => root' = root
          /\ child' => child
      BY <2>1, StoppedTree
    <3>2. result' \in Results /\ (result = "failed" => result' = "failed")
      BY <2>0, <2>1, <1>l DEF Locals, Codes
    <3>3. ControlType'
      BY <2>0, <3>1, <3>2
    <3>4. TreeInv'
      BY <2>0, <3>1, <3>2
    <3>5. CodeInv'
      BY <2>0, <2>1, <3>1
    <3> QED
      BY <3>3, <3>4, <3>5
  <2>2. CASE TerminateFails /\ result' = "failed"
    <3>1. /\ root' \in {"none", "suspended", "running", "zero", "nonzero", "killed"}
          /\ child' \in BOOLEAN /\ resisted' \in BOOLEAN
      BY <2>2 DEF TerminateFails, RootAlive
    <3>2. ControlType'
      BY <2>0, <2>2, <3>1
    <3>3. TreeInv'
      BY <2>0, <2>2
    <3>4. CodeInv'
      BY <2>0, <2>2
    <3> QED
      BY <3>2, <3>3, <3>4
  <2> QED
    BY <1>17, <2>1, <2>2 DEF LastReap
<1>18. CASE Exit \/ Fork \/ ChildExit \/ Escape
  <2>1. child' \in BOOLEAN /\ escaped' \in BOOLEAN
    BY <1>18 DEF Exit, Fork, ChildExit, Escape
  <2>2. ControlType'
    BY <1>18, <2>1 DEF Exit, Fork, ChildExit, Escape
  <2>3. TreeInv'
    BY <1>18, <2>1 DEF Exit, Fork, ChildExit, Escape
  <2>4. CodeInv'
    BY <1>18, <2>1 DEF Exit, Fork, ChildExit, Escape
  <2> QED
    BY <2>2, <2>3, <2>4
<1>19. ASSUME NEW s \in Streams, Write(s) PROVE CourseInv'
  BY <1>19 DEF Write
<1>20. ASSUME NEW s \in Streams, Pump(s) \/ PumpEnds(s) PROVE CourseInv'
  BY <1>20 DEF Pump, PumpEnds
<1>21. ASSUME NEW c \in Callers, Cancel(c) PROVE CourseInv'
  BY <1>21 DEF Cancel, WaitsFor
<1>22. ASSUME NEW c \in Callers, CancelReturns(c) PROVE CourseInv'
  BY <1>22 DEF CancelReturns
<1>23. CASE Abort
  <2>1. CASE pc = "finally"
    <3>0. wanted' \in BOOLEAN /\ seal' \in BOOLEAN /\ cancelEvent' \in BOOLEAN
      BY <1>23, <2>1 DEF Abort
    <3>1. ControlType'
      BY <1>23, <2>1, <3>0 DEF Abort
    <3>2. TreeInv'
      BY <1>23, <2>1, <3>0 DEF Abort
    <3>3. CodeInv'
      BY <1>23, <2>1, <3>0 DEF Abort
    <3> QED
      BY <3>1, <3>2, <3>3
  <2>2. CASE pc # "finally"
    <3>0. wanted' \in BOOLEAN /\ wanted' /\ UNCHANGED <<seal, cancelEvent, reader, result, child, escaped, job>>
      BY <1>23, <2>2 DEF Abort
    <3>4. local' \in Locals /\ local'.code = "cancelled"
      BY <1>23, <2>2, <1>l, CancelSet DEF Abort
    <3>1. ControlType'
      BY <1>23, <2>2, <3>0, <3>4 DEF Abort, Spawned
    <3>2. TreeInv'
      BY <1>23, <2>2, <3>0, <3>4 DEF Abort, Spawned
    <3>3. CodeInv'
      BY <1>23, <2>2, <3>0, <3>4 DEF Abort, Spawned
    <3> QED
      BY <3>1, <3>2, <3>3
  <2> QED
    BY <2>1, <2>2
<1>24. CASE UNCHANGED vars
  BY <1>24 DEF vars
<1> QED
  BY <1>1, <1>2, <1>3, <1>4, <1>5, <1>6, <1>7, <1>8, <1>9, <1>10, <1>11, <1>12, <1>13, <1>14,
     <1>15, <1>16, <1>17, <1>18, <1>19, <1>20, <1>21, <1>22, <1>23, <1>24 DEF Next, Runner, Agent

-------------------------------------------------------------------------------
(* Theorems *)

LEMMA CliInvariant == Spec => []CliInv
<1>1. Init => CliInv
  BY OutputInit, CourseInit DEF CliInv
<1>2. CliInv /\ [Next]_vars => CliInv'
  BY OutputStep, CourseStep DEF CliInv
<1> QED
  BY <1>1, <1>2, PTL DEF Spec

\* Whatever a process tree does and whenever it is cancelled, run keeps to its states and
\* every counter to its bound: the budget counts no byte twice and the event list never
\* passes MAX_EVENTS (CliAgentRunner.run, _OutputBudget).
THEOREM CliTyped == Spec => []TypeOK
<1>1. CliInv => TypeOK
  BY OutputTyped DEF CliInv, CourseInv, ControlType, TypeOK
<1> QED
  BY <1>1, CliInvariant, PTL

\* However run ends, by the exit, the limit, the deadline, cancel(), a cancelled task or
\* several of them at once, no process of the tree outlives it, unless a Job's end failed, which
\* it reports by an exception, or the last stop was resisted, which it does not report; and it
\* owns neither seal nor pump nor, but for a cancellation in the very last clean-up, a Job (run
\* and its finally, _reap, _posix_group_stop).
THEOREM TreeStoppedUnlessResisted == Spec => []NothingLeft
<1>1. CliInv => NothingLeft
  BY DEF CliInv, CourseInv, TreeInv, NothingLeft, Gone, Alive, ReadersDone
<1> QED
  BY <1>1, CliInvariant, PTL

\* What run reports is what happened, for every number of runs and every output: a stopped
\* process never counts as one that ended by itself, leftover members never go with an ok or a
\* mere exit code however they resist, a cancellation never spills over to the next run, and no
\* more than the limit is fed (CliRunResult, _has_survivors, _OutputBudget.consume).
THEOREM RunsReportTruly == Spec => []ReportedTruly
<1>1. CliInv => ReportedTruly
  BY DEF CliInv, CourseInv, CodeInv, OutputInv, TrueCode, ReportedTruly
<1> QED
  BY <1>1, CliInvariant, PTL
================================================================================
