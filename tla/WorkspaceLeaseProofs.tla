-------------------------- MODULE WorkspaceLeaseProofs --------------------------
(***************************************************************************)
(* Proofs about WorkspaceLease, for every set of holds, TTL and clock       *)
(* bound.  Besides what MasterLeaseProofs needs (past clock readings, the   *)
(* newest token in the row), the invariant says that the write transaction  *)
(* of a fenced I/O keeps everyone else away from the row.                   *)
(***************************************************************************)
EXTENDS WorkspaceLease, TLAPS

\* Every clock reading in flight is a past one.
StampsPast ==
  \A o \in Owners : stamp[o] <= clock /\ beat[o] <= clock

\* The row holds the newest token, and only its owner can present it.
RowNewest ==
  /\ written <= row.token
  /\ \A o \in Owners :
       /\ token[o] <= row.token
       /\ token[o] # 0 /\ token[o] = row.token => row.owner = o

\* The inductive invariant.
HoldInv == TypeOK /\ StampsPast /\ RowNewest /\ NoTakeoverDuringFencedIO

\* The empty lock table satisfies it.
LEMMA InitEstablishes == Init => HoldInv
BY OwnerAssumption DEF Init, HoldInv, TypeOK, StampsPast, RowNewest,
   NoTakeoverDuringFencedIO, NoRow, Row, Phases, NoStamp

\* Every operation of a hold, every tick and every crash preserves it.
LEMMA StepPreserves == HoldInv /\ [Next]_vars => HoldInv'
<1> SUFFICES ASSUME HoldInv, [Next]_vars PROVE HoldInv'
  OBVIOUS
<1> USE TtlAssumption, ClockAssumption, OwnerAssumption
    DEF HoldInv, TypeOK, StampsPast, RowNewest, NoTakeoverDuringFencedIO,
        Row, Phases, NoStamp
<1>1. CASE Tick
  BY <1>1 DEF Tick
<1>2. ASSUME NEW o \in Owners, StampAcquire(o) PROVE HoldInv'
  BY <1>2 DEF StampAcquire
<1>3. ASSUME NEW o \in Owners, Acquire(o) PROVE HoldInv'
  BY <1>3 DEF Acquire, TakenOver, DatabaseFree
<1>4. ASSUME NEW o \in Owners, AcquireUnavailable(o) PROVE HoldInv'
  BY <1>4 DEF AcquireUnavailable
<1>5. ASSUME NEW o \in Owners, StampHeartbeat(o) PROVE HoldInv'
  BY <1>5 DEF StampHeartbeat
<1>6. ASSUME NEW o \in Owners, HeartbeatRenew(o) PROVE HoldInv'
  BY <1>6 DEF HeartbeatRenew, Renewed, DatabaseFree
<1>7. ASSUME NEW o \in Owners, HeartbeatFailed(o) PROVE HoldInv'
  BY <1>7 DEF HeartbeatFailed
<1>8. ASSUME NEW o \in Owners, BeginFenced(o) PROVE HoldInv'
  BY <1>8 DEF BeginFenced, Matches, DatabaseFree
<1>9. ASSUME NEW o \in Owners, EndFenced(o) PROVE HoldInv'
  BY <1>9 DEF EndFenced, Renewed
<1>10. ASSUME NEW o \in Owners, FencedLost(o) PROVE HoldInv'
  BY <1>10 DEF FencedLost, DatabaseFree
<1>11. ASSUME NEW o \in Owners, LeaveBody(o) PROVE HoldInv'
  BY <1>11 DEF LeaveBody
<1>12. ASSUME NEW o \in Owners, StampRelease(o) PROVE HoldInv'
  BY <1>12 DEF StampRelease
<1>13. ASSUME NEW o \in Owners, Release(o) PROVE HoldInv'
  BY <1>13 DEF Release, Released, DatabaseFree
<1>14. ASSUME NEW o \in Owners, Crash(o) PROVE HoldInv'
  BY <1>14 DEF Crash
<1>15. CASE UNCHANGED vars
  BY <1>15 DEF vars
<1> QED
  BY <1>1, <1>2, <1>3, <1>4, <1>5, <1>6, <1>7, <1>8, <1>9, <1>10, <1>11, <1>12,
     <1>13, <1>14, <1>15 DEF Next

\* So it holds throughout.
LEMMA Invariance == Spec => []HoldInv
BY InitEstablishes, StepPreserves, PTL DEF Spec

\* The row of the session, the phases of the holds, their tokens and stamps, and the
\* open transaction of run_fenced stay in their types.
THEOREM HoldsTyped == Spec => []TypeOK
<1> HoldInv => TypeOK BY DEF HoldInv
<1> QED BY Invariance, PTL

\* Nobody takes the workspace over while a fenced I/O runs, even when the lease
\* expires meanwhile (run_fenced).
THEOREM FencedIOUndisturbed == Spec => []NoTakeoverDuringFencedIO
<1> HoldInv => NoTakeoverDuringFencedIO BY DEF HoldInv
<1> QED BY Invariance, PTL

-------------------------------------------------------------------------------

\* What every step does to the lock of the abstract specification.
LEMMA StepIsLockStep == HoldInv /\ [Next]_vars => [Lock!LockNext]_(Lock!lockVars)
<1> SUFFICES ASSUME HoldInv, [Next]_vars PROVE [Lock!LockNext]_(Lock!lockVars)
  OBVIOUS
<1> USE DEF HoldInv, TypeOK, Row
<1>1. ASSUME NEW o \in Owners, Acquire(o) PROVE Lock!Grant(o)
  BY <1>1 DEF Acquire, TakenOver, Lock!Grant
<1>2. ASSUME NEW o \in Owners, BeginFenced(o) PROVE Lock!Write(o)
  BY <1>2 DEF BeginFenced, Matches, Lock!Write
<1>3. ASSUME NEW o \in Owners, HeartbeatRenew(o) \/ EndFenced(o) \/ Release(o)
      PROVE UNCHANGED Lock!lockVars
  BY <1>3 DEF HeartbeatRenew, EndFenced, Release, Renewed, Released, Lock!lockVars
<1>4. ASSUME NEW o \in Owners,
             \/ StampAcquire(o) \/ AcquireUnavailable(o) \/ StampHeartbeat(o)
             \/ HeartbeatFailed(o) \/ FencedLost(o) \/ LeaveBody(o) \/ StampRelease(o)
             \/ Crash(o)
      PROVE UNCHANGED Lock!lockVars
  BY <1>4 DEF StampAcquire, AcquireUnavailable, StampHeartbeat, HeartbeatFailed,
     FencedLost, LeaveBody, StampRelease, Crash, Lock!lockVars
<1>5. CASE Tick \/ UNCHANGED vars
  BY <1>5 DEF Tick, vars, Lock!lockVars
<1> QED
  BY <1>1, <1>2, <1>3, <1>4, <1>5 DEF Next, Lock!LockNext

\* The workspace lock table implements the fenced lock.
THEOREM Refinement == Spec => ImplementsFencedLock
<1>1. Init => Lock!LockInit
  BY DEF Init, NoRow, Lock!LockInit
<1> QED
  BY <1>1, Invariance, StepIsLockStep, PTL DEF Spec, ImplementsFencedLock, Lock!LockSpec

\* A hold that lost the lease never writes to the workspace after its successor.
THEOREM WorkspaceWritesInOrder == Spec => FencedIOInOrder
<1>1. HoldInv /\ [Next]_vars => [written' >= written]_vars
  <2> SUFFICES ASSUME HoldInv, [Next]_vars PROVE written' >= written
    OBVIOUS
  <2>1. written \in Nat /\ written <= row.token /\ row.token \in Nat
    BY DEF HoldInv, TypeOK, RowNewest, Row
  <2>2. CASE UNCHANGED <<row.token, row.owner, written>>
    BY <2>1, <2>2
  <2>3. ASSUME NEW o \in Owners, Lock!Grant(o) PROVE written' >= written
    BY <2>1, <2>3 DEF Lock!Grant
  <2>4. ASSUME NEW o \in Owners, Lock!Write(o) PROVE written' >= written
    BY <2>1, <2>4 DEF Lock!Write
  <2> QED BY StepIsLockStep, <2>2, <2>3, <2>4 DEF Lock!LockNext, Lock!lockVars
<1> QED BY <1>1, Invariance, PTL DEF Spec, FencedIOInOrder

\* A hold keeps the workspace until it releases the lease or the lease expires,
\* although a rival compares the expiry with a clock it read before its turn.
THEOREM HolderKeepsLiveLease == Spec => LiveHolderKeepsLease
<1>1. HoldInv /\ [Next]_vars
        => [row'.owner # row.owner => row.released \/ row.expires <= clock]_vars
  <2> SUFFICES ASSUME HoldInv, [Next]_vars, row'.owner # row.owner
               PROVE row.released \/ row.expires <= clock
    OBVIOUS
  <2>1. PICK o \in Owners : Acquire(o)
    <3>1. ~UNCHANGED vars /\ ~Tick
      BY DEF vars, Tick
    <3>2. ASSUME NEW o \in Owners, HeartbeatRenew(o) \/ EndFenced(o) \/ Release(o)
          PROVE row'.owner = row.owner
      BY <3>2 DEF HeartbeatRenew, EndFenced, Release, Renewed, Released, HoldInv, TypeOK, Row
    <3>3. ASSUME NEW o \in Owners,
                 \/ StampAcquire(o) \/ AcquireUnavailable(o) \/ StampHeartbeat(o)
                 \/ HeartbeatFailed(o) \/ BeginFenced(o) \/ FencedLost(o) \/ LeaveBody(o)
                 \/ StampRelease(o) \/ Crash(o)
          PROVE row'.owner = row.owner
      BY <3>3 DEF StampAcquire, AcquireUnavailable, StampHeartbeat, HeartbeatFailed, BeginFenced,
         FencedLost, LeaveBody, StampRelease, Crash
    <3> QED BY <3>1, <3>2, <3>3 DEF Next
  <2> QED
    BY <2>1 DEF Acquire, Active, HoldInv, TypeOK, StampsPast, Row
<1> QED BY <1>1, Invariance, PTL DEF Spec, LiveHolderKeepsLease

===============================================================================
