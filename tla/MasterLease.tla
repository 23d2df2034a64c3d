------------------------------ MODULE MasterLease ------------------------------
(***************************************************************************)
(* The singleton Master lease: MasterLeaseRepository of storage/leases.py,  *)
(* driven by the life of a serve process (app/cli.py, _serve_application).  *)
(* Every operation of the repository is one BEGIN IMMEDIATE transaction.    *)
(* acquire, heartbeat and release read the clock BEFORE they wait for that  *)
(* transaction, so each is a Stamp step followed, any time later, by a      *)
(* transaction that works with a stale time; assert_valid_in reads the      *)
(* clock inside the transaction of the mutation it fences.                  *)
(*                                                                         *)
(* An instance id is a fresh uuid per serve process (or temporary_master    *)
(* block), so an instance lives once: a restarted Master is another member  *)
(* of Instances.                                                            *)
(***************************************************************************)
EXTENDS Integers

CONSTANTS Instances,   \* instance ids of the serve processes
          NoInstance,  \* owner of the lease before its row exists
          TTL,         \* master_lease_ttl_seconds
          MaxClock     \* bound of the model: the clock stops there

ASSUME InstanceAssumption == NoInstance \notin Instances
ASSUME TtlAssumption == TTL \in Nat \ {0}
ASSUME ClockAssumption == MaxClock \in Nat

VARIABLES clock,     \* wall clock, in seconds
          row,       \* the master_leases row
          phase,     \* instance -> where its serve process is
          token,     \* instance -> fencing token of the lease it holds, 0 if none
          stamp,     \* instance -> time read by an acquire or release in flight
          beat,      \* instance -> time read by the heartbeat in flight, NoStamp if none
          accepted   \* token of the newest fenced mutation that was committed

vars == <<clock, row, phase, token, stamp, beat, accepted>>

NoStamp == -1

Phases == {"new", "acquiring", "serving", "stopping", "releasing", "gone"}

Row == [owner : Instances \cup {NoInstance}, token : Nat, expires : Nat]

\* No row yet: token 0 is never handed out.
NoRow == [owner |-> NoInstance, token |-> 0, expires |-> 0]

TypeOK ==
  /\ clock \in Nat
  /\ row \in Row
  /\ phase \in [Instances -> Phases]
  /\ token \in [Instances -> Nat]
  /\ stamp \in [Instances -> Nat]
  /\ beat \in [Instances -> Nat \cup {NoStamp}]
  /\ accepted \in Nat

Init ==
  /\ clock = 0
  /\ row = NoRow
  /\ phase = [i \in Instances |-> "new"]
  /\ token = [i \in Instances |-> 0]
  /\ stamp = [i \in Instances |-> 0]
  /\ beat = [i \in Instances |-> NoStamp]
  /\ accepted = 0

-------------------------------------------------------------------------------
(* The row as the SQL conditions see it.  A definition whose name says how it  *)
(* is wrong (MatchesAnyOwner) is a mutation used to test the properties; it is  *)
(* not part of the specification.                                              *)

\* A row some instance may still rely on at time t.
Active(t) == row.token # 0 /\ row.expires > t

\* instance_id, process_id and fencing_token match and the lease is unexpired.
MatchesAnyOwner(i, t) == row.expires > t
Matches(i, t) == row.owner = i /\ row.token = token[i] /\ row.expires > t

RenewedFromExpiry(t) == [row EXCEPT !.expires = @ + TTL]
Renewed(t) == [row EXCEPT !.expires = t + TTL]

\* Released: expires now.
Expired(t) == [row EXCEPT !.expires = t]

\* First INSERT takes token 1, a takeover increments the token of the row.
TakenOver(i, t) == [owner |-> i, token |-> row.token + 1, expires |-> t + TTL]

-------------------------------------------------------------------------------
(* acquire *)

\* The clock is read; the transaction is still to come.  The repository lets
\* an owner acquire again; it then keeps its token.
StampAcquire(i) ==
  /\ phase[i] \in {"new", "serving"}
  /\ beat[i] = NoStamp
  /\ phase' = [phase EXCEPT ![i] = "acquiring"]
  /\ stamp' = [stamp EXCEPT ![i] = clock]
  /\ UNCHANGED <<clock, row, token, beat, accepted>>

\* No row, or an expired one: insert it or take it over with the next token.
AcquireNew(i) ==
  /\ phase[i] = "acquiring"
  /\ ~Active(stamp[i])
  /\ row' = TakenOver(i, stamp[i])
  /\ token' = [token EXCEPT ![i] = TakenOver(i, stamp[i]).token]
  /\ phase' = [phase EXCEPT ![i] = "serving"]
  /\ UNCHANGED <<clock, stamp, beat, accepted>>

\* The active row is the caller's own: extend it under the same token.
AcquireRenew(i) ==
  /\ phase[i] = "acquiring"
  /\ Active(stamp[i]) /\ row.owner = i
  /\ row' = Renewed(stamp[i])
  /\ token' = [token EXCEPT ![i] = row.token]
  /\ phase' = [phase EXCEPT ![i] = "serving"]
  /\ UNCHANGED <<clock, stamp, beat, accepted>>

\* LeaseUnavailable: another live Master; serve exits with code 2.
AcquireUnavailable(i) ==
  /\ phase[i] = "acquiring"
  /\ Active(stamp[i]) /\ row.owner # i
  /\ phase' = [phase EXCEPT ![i] = "gone"]
  /\ UNCHANGED <<clock, row, token, stamp, beat, accepted>>

-------------------------------------------------------------------------------
(* heartbeat: a task of its own, concurrent with everything the server does *)

StampHeartbeat(i) ==
  /\ phase[i] = "serving"
  /\ beat[i] = NoStamp
  /\ beat' = [beat EXCEPT ![i] = clock]
  /\ UNCHANGED <<clock, row, phase, token, stamp, accepted>>

HeartbeatRenew(i) ==
  /\ beat[i] # NoStamp
  /\ Matches(i, beat[i])
  /\ row' = Renewed(beat[i])
  /\ beat' = [beat EXCEPT ![i] = NoStamp]
  /\ UNCHANGED <<clock, phase, token, stamp, accepted>>

\* LeaseLost, or any error of the database: the heartbeat task ends and asks
\* the server to exit; what the server has in flight goes on until it stops.
HeartbeatFailed(i) ==
  /\ beat[i] # NoStamp
  /\ beat' = [beat EXCEPT ![i] = NoStamp]
  /\ phase' = [phase EXCEPT ![i] = "stopping"]
  /\ UNCHANGED <<clock, row, token, stamp, accepted>>

-------------------------------------------------------------------------------
(* release: the last step of _serve_application, after the heartbeat ended *)

StampRelease(i) ==
  /\ phase[i] \in {"serving", "stopping"}
  /\ beat[i] = NoStamp
  /\ phase' = [phase EXCEPT ![i] = "releasing"]
  /\ stamp' = [stamp EXCEPT ![i] = clock]
  /\ UNCHANGED <<clock, row, token, beat, accepted>>

\* A release is a renewal to "now"; LeaseLost is suppressed by the caller.
Release(i) ==
  /\ phase[i] = "releasing"
  /\ row' = IF Matches(i, stamp[i]) THEN Expired(stamp[i]) ELSE row
  /\ phase' = [phase EXCEPT ![i] = "gone"]
  /\ UNCHANGED <<clock, token, stamp, beat, accepted>>

-------------------------------------------------------------------------------
(* Mutations fenced by assert_valid_in, crashes and time *)

\* Any Master-owned transaction: the fence is checked inside it, at its time.
UnfencedMutation(i) ==
  /\ phase[i] \in {"serving", "acquiring", "stopping"}
  /\ token[i] # 0
  /\ accepted' = token[i]
  /\ UNCHANGED <<clock, row, phase, token, stamp, beat>>

FencedMutation(i) ==
  /\ phase[i] \in {"serving", "acquiring", "stopping"}
  /\ Matches(i, clock)
  /\ accepted' = token[i]
  /\ UNCHANGED <<clock, row, phase, token, stamp, beat>>

\* The process dies; the row stays until it expires.
Crash(i) ==
  /\ phase[i] \in {"acquiring", "serving", "stopping", "releasing"}
  /\ phase' = [phase EXCEPT ![i] = "gone"]
  /\ beat' = [beat EXCEPT ![i] = NoStamp]
  /\ UNCHANGED <<clock, row, token, stamp, accepted>>

Tick ==
  /\ clock < MaxClock
  /\ clock' = clock + 1
  /\ UNCHANGED <<row, phase, token, stamp, beat, accepted>>

Next ==
  \/ Tick
  \/ \E i \in Instances :
       \/ StampAcquire(i) \/ AcquireNew(i) \/ AcquireRenew(i) \/ AcquireUnavailable(i)
       \/ StampHeartbeat(i) \/ HeartbeatRenew(i) \/ HeartbeatFailed(i)
       \/ StampRelease(i) \/ Release(i)
       \/ FencedMutation(i) \/ Crash(i)

Spec == Init /\ [][Next]_vars

-------------------------------------------------------------------------------
(* Correctness *)

\* No fencing token is ever held by two instances, dead ones included: acquire
\* hands out a token at most once (leases.py, "fencing_token" + 1).
UniqueToken ==
  \A i, j \in Instances : i # j /\ token[i] # 0 => token[i] # token[j]

\* A crashed Master can lock its successors out for at most one TTL, however
\* late its last acquire or heartbeat transaction got the database.
BoundedOutage == row.expires <= clock + TTL

\* The mutations that commit carry non-decreasing tokens: once a newer Master
\* has written, no mutation of an older one passes assert_valid_in, also when
\* the older one renews, releases or acquires with a clock it read long ago.
FencedWritesInOrder == [][accepted' >= accepted]_vars

\* The lease is taken from its owner only when it has really expired, although
\* acquire decides that with a clock it read before it got the database.
LiveMasterKeepsLease == [][row'.owner # row.owner => row.expires <= clock]_vars

\* Each step of the lease table is a step of the clockless fenced lock.
Lock == INSTANCE FencedLock WITH
          Owners <- Instances, NoOwner <- NoInstance,
          epoch <- row.token, holder <- row.owner, newest <- accepted

\* MasterLeaseRepository implements FencedLock.
ImplementsFencedLock == Lock!LockSpec

===============================================================================
