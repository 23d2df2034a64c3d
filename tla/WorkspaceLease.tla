----------------------------- MODULE WorkspaceLease -----------------------------
(***************************************************************************)
(* The write lease of one session's workspace: WorkspaceLeaseRepository of  *)
(* storage/leases.py, held the way LockManager.hold holds it (workspace/    *)
(* lock_manager.py): a body that does workspace I/O, a heartbeat task that  *)
(* runs beside it, and an exit that validates and releases.                 *)
(*                                                                         *)
(* As in MasterLease, acquire, heartbeat and release read the clock before  *)
(* they wait for the database.  run_fenced is different: it keeps the write *)
(* transaction open while the I/O runs, so it is two steps with the         *)
(* database locked in between, and the clock may pass the expiry meanwhile. *)
(* An owner is one hold: its kind, operation id and process together.       *)
(***************************************************************************)
EXTENDS Integers

CONSTANTS Owners,     \* one per hold
          NoOwner,    \* nobody: no row yet, or no transaction open
          TTL,        \* workspace_lease_ttl_seconds
          MaxClock    \* bound of the model: the clock stops there

ASSUME OwnerAssumption == NoOwner \notin Owners
ASSUME TtlAssumption == TTL \in Nat \ {0}
ASSUME ClockAssumption == MaxClock \in Nat

VARIABLES clock,     \* wall clock, in seconds
          row,       \* the file_locks row of the session
          db,        \* the owner whose fenced I/O keeps the write transaction open
          phase,     \* owner -> where its hold is
          token,     \* owner -> fencing token it was given, 0 if none
          stamp,     \* owner -> time read by an acquire or release in flight
          beat,      \* owner -> time read by the heartbeat in flight, NoStamp if none
          failed,    \* owner -> heartbeat_error is set
          written    \* token of the newest fenced I/O

vars == <<clock, row, db, phase, token, stamp, beat, failed, written>>

NoStamp == -1

Phases == {"new", "acquiring", "body", "fenced", "exiting", "releasing", "gone"}

Row == [owner : Owners \cup {NoOwner}, token : Nat, expires : Nat, released : BOOLEAN]

NoRow == [owner |-> NoOwner, token |-> 0, expires |-> 0, released |-> TRUE]

TypeOK ==
  /\ clock \in Nat
  /\ row \in Row
  /\ db \in Owners \cup {NoOwner}
  /\ phase \in [Owners -> Phases]
  /\ token \in [Owners -> Nat]
  /\ stamp \in [Owners -> Nat]
  /\ beat \in [Owners -> Nat \cup {NoStamp}]
  /\ failed \in [Owners -> BOOLEAN]
  /\ written \in Nat

Init ==
  /\ clock = 0
  /\ row = NoRow
  /\ db = NoOwner
  /\ phase = [o \in Owners |-> "new"]
  /\ token = [o \in Owners |-> 0]
  /\ stamp = [o \in Owners |-> 0]
  /\ beat = [o \in Owners |-> NoStamp]
  /\ failed = [o \in Owners |-> FALSE]
  /\ written = 0

-------------------------------------------------------------------------------
(* The row as the SQL conditions see it.  A definition whose name says how it  *)
(* is wrong is a mutation used to test the properties.                         *)

Active(t) == ~row.released /\ row.expires > t

Matches(o, t) ==
  row.owner = o /\ row.token = token[o] /\ ~row.released /\ row.expires > t

Renewed(t) == [row EXCEPT !.expires = t + TTL]

Released(t) == [row EXCEPT !.expires = t, !.released = TRUE]

TakenOver(o, t) ==
  [owner |-> o, token |-> row.token + 1, expires |-> t + TTL, released |-> FALSE]

\* BEGIN IMMEDIATE waits while a fenced I/O has the write transaction.
DatabaseNeverBusy == TRUE
DatabaseFree == db = NoOwner

-------------------------------------------------------------------------------
(* hold: acquire once, without waiting for the lease *)

StampAcquire(o) ==
  /\ phase[o] = "new"
  /\ phase' = [phase EXCEPT ![o] = "acquiring"]
  /\ stamp' = [stamp EXCEPT ![o] = clock]
  /\ UNCHANGED <<clock, row, db, token, beat, failed, written>>

Acquire(o) ==
  /\ phase[o] = "acquiring" /\ DatabaseFree
  /\ ~Active(stamp[o])
  /\ row' = TakenOver(o, stamp[o])
  /\ token' = [token EXCEPT ![o] = TakenOver(o, stamp[o]).token]
  /\ phase' = [phase EXCEPT ![o] = "body"]
  /\ UNCHANGED <<clock, db, stamp, beat, failed, written>>

\* LeaseUnavailable.
AcquireUnavailable(o) ==
  /\ phase[o] = "acquiring" /\ DatabaseFree
  /\ Active(stamp[o])
  /\ phase' = [phase EXCEPT ![o] = "gone"]
  /\ UNCHANGED <<clock, row, db, token, stamp, beat, failed, written>>

-------------------------------------------------------------------------------
(* heartbeat_loop: it cannot run while the event loop is inside a fenced I/O  *)

StampHeartbeat(o) ==
  /\ phase[o] = "body"
  /\ beat[o] = NoStamp /\ ~failed[o]
  /\ beat' = [beat EXCEPT ![o] = clock]
  /\ UNCHANGED <<clock, row, db, phase, token, stamp, failed, written>>

HeartbeatRenew(o) ==
  /\ phase[o] = "body" /\ DatabaseFree
  /\ beat[o] # NoStamp
  /\ Matches(o, beat[o])
  /\ row' = Renewed(beat[o])
  /\ beat' = [beat EXCEPT ![o] = NoStamp]
  /\ UNCHANGED <<clock, db, phase, token, stamp, failed, written>>

\* LeaseLost, or any database error: heartbeat_error is set and the loop ends;
\* the body is cancelled at its next await.
HeartbeatFailed(o) ==
  /\ phase[o] = "body"
  /\ beat[o] # NoStamp
  /\ failed' = [failed EXCEPT ![o] = TRUE]
  /\ beat' = [beat EXCEPT ![o] = NoStamp]
  /\ UNCHANGED <<clock, row, db, phase, token, stamp, written>>

-------------------------------------------------------------------------------
(* run_fenced *)

\* assert_healthy, BEGIN IMMEDIATE, assert_valid_in, and the I/O starts.
BeginFencedUnchecked(o) ==
  /\ phase[o] = "body" /\ ~failed[o] /\ DatabaseFree
  /\ db' = o
  /\ written' = token[o]
  /\ phase' = [phase EXCEPT ![o] = "fenced"]
  /\ UNCHANGED <<clock, row, token, stamp, beat, failed>>

BeginFenced(o) ==
  /\ phase[o] = "body" /\ ~failed[o] /\ DatabaseFree
  /\ Matches(o, clock)
  /\ db' = o
  /\ written' = token[o]
  /\ phase' = [phase EXCEPT ![o] = "fenced"]
  /\ UNCHANGED <<clock, row, token, stamp, beat, failed>>

\* The I/O is done and the lease, still alive, is renewed in the transaction.
EndFenced(o) ==
  /\ phase[o] = "fenced"
  /\ Matches(o, clock)
  /\ row' = Renewed(clock)
  /\ db' = NoOwner
  /\ phase' = [phase EXCEPT ![o] = "body"]
  /\ UNCHANGED <<clock, token, stamp, beat, failed, written>>

\* The I/O outlived the lease (or never started): LeaseLost leaves the body.
FencedLost(o) ==
  /\ \/ phase[o] = "fenced" /\ ~Matches(o, clock)
     \/ phase[o] = "body" /\ DatabaseFree /\ (failed[o] \/ ~Matches(o, clock))
  /\ db' = IF db = o THEN NoOwner ELSE db
  /\ phase' = [phase EXCEPT ![o] = "exiting"]
  /\ beat' = [beat EXCEPT ![o] = NoStamp]
  /\ UNCHANGED <<clock, row, token, stamp, failed, written>>

-------------------------------------------------------------------------------
(* The end of hold *)

\* The body is over, normally (assert_healthy, assert_valid) or by an error or
\* a cancellation; the heartbeat task is cancelled, its transaction with it.
LeaveBody(o) ==
  /\ phase[o] = "body"
  /\ phase' = [phase EXCEPT ![o] = "exiting"]
  /\ beat' = [beat EXCEPT ![o] = NoStamp]
  /\ UNCHANGED <<clock, row, db, token, stamp, failed, written>>

StampRelease(o) ==
  /\ phase[o] = "exiting"
  /\ phase' = [phase EXCEPT ![o] = "releasing"]
  /\ stamp' = [stamp EXCEPT ![o] = clock]
  /\ UNCHANGED <<clock, row, db, token, beat, failed, written>>

\* The row stays, with its token; a rejected release changes nothing.
Release(o) ==
  /\ phase[o] = "releasing" /\ DatabaseFree
  /\ row' = IF Matches(o, stamp[o]) THEN Released(stamp[o]) ELSE row
  /\ phase' = [phase EXCEPT ![o] = "gone"]
  /\ UNCHANGED <<clock, db, token, stamp, beat, failed, written>>

\* The process dies: an open transaction rolls back, the row stays.
Crash(o) ==
  /\ phase[o] \notin {"new", "gone"}
  /\ phase' = [phase EXCEPT ![o] = "gone"]
  /\ db' = IF db = o THEN NoOwner ELSE db
  /\ beat' = [beat EXCEPT ![o] = NoStamp]
  /\ UNCHANGED <<clock, row, token, stamp, failed, written>>

Tick ==
  /\ clock < MaxClock
  /\ clock' = clock + 1
  /\ UNCHANGED <<row, db, phase, token, stamp, beat, failed, written>>

Next ==
  \/ Tick
  \/ \E o \in Owners :
       \/ StampAcquire(o) \/ Acquire(o) \/ AcquireUnavailable(o)
       \/ StampHeartbeat(o) \/ HeartbeatRenew(o) \/ HeartbeatFailed(o)
       \/ BeginFenced(o) \/ EndFenced(o) \/ FencedLost(o)
       \/ LeaveBody(o) \/ StampRelease(o) \/ Release(o) \/ Crash(o)

Spec == Init /\ [][Next]_vars

-------------------------------------------------------------------------------
(* Correctness *)

\* While a fenced I/O runs, the lease still names its owner, even when it has
\* expired meanwhile: nobody can take the workspace over before the I/O and
\* its transaction end (run_fenced, "preventing lease takeover").
NoTakeoverDuringFencedIO ==
  \A o \in Owners : phase[o] = "fenced" => /\ db = o
                                           /\ row.owner = o
                                           /\ row.token = token[o]
                                           /\ ~row.released

\* Fenced I/O happens in token order: a hold that lost the lease, by expiry or
\* by its own release, never writes after its successor.
FencedIOInOrder == [][written' >= written]_vars

\* The lease is taken from a holder only after it expired or was released.
LiveHolderKeepsLease ==
  [][row'.owner # row.owner => row.released \/ row.expires <= clock]_vars

\* Each step of the lock table is a step of the clockless fenced lock.
Lock == INSTANCE FencedLock WITH
          epoch <- row.token, holder <- row.owner, newest <- written

\* WorkspaceLeaseRepository implements FencedLock.
ImplementsFencedLock == Lock!LockSpec

===============================================================================
