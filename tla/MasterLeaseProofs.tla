--------------------------- MODULE MasterLeaseProofs ---------------------------
(***************************************************************************)
(* Proofs about MasterLease, for every set of instances, TTL and clock      *)
(* bound.  The inductive invariant adds to the properties what the          *)
(* transactions rely on: no clock read is in the future, the row carries    *)
(* the largest token, and the row's token is its owner's.                   *)
(***************************************************************************)
EXTENDS MasterLease, TLAPS

\* Every clock reading in flight is a past one.
StampsPast ==
  \A i \in Instances : stamp[i] <= clock /\ beat[i] <= clock

\* The row holds the newest token, and only its owner can present it.
RowNewest ==
  /\ accepted <= row.token
  /\ row.token = 0 => row.expires = 0
  /\ \A i \in Instances :
       /\ token[i] <= row.token
       /\ token[i] # 0 /\ token[i] = row.token => row.owner = i

LeaseInv == TypeOK /\ StampsPast /\ RowNewest /\ UniqueToken /\ BoundedOutage

\* The empty lease table satisfies the invariant.
LEMMA InitEstablishes == Init => LeaseInv
BY TtlAssumption DEF Init, LeaseInv, TypeOK, StampsPast, RowNewest, UniqueToken,
   BoundedOutage, NoRow, Row, Phases, NoStamp

\* Every operation, tick and crash of an instance preserves it.
LEMMA StepPreserves == LeaseInv /\ [Next]_vars => LeaseInv'
<1> SUFFICES ASSUME LeaseInv, [Next]_vars PROVE LeaseInv'
  OBVIOUS
<1> USE TtlAssumption, ClockAssumption, InstanceAssumption
    DEF LeaseInv, TypeOK, StampsPast, RowNewest, UniqueToken, BoundedOutage,
        Row, Phases, NoStamp
<1>1. CASE Tick
  BY <1>1 DEF Tick
<1>2. ASSUME NEW i \in Instances, StampAcquire(i) PROVE LeaseInv'
  BY <1>2 DEF StampAcquire
<1>3. ASSUME NEW i \in Instances, AcquireNew(i) PROVE LeaseInv'
  BY <1>3 DEF AcquireNew, TakenOver, Active
<1>4. ASSUME NEW i \in Instances, AcquireRenew(i) PROVE LeaseInv'
  BY <1>4 DEF AcquireRenew, Renewed, Active
<1>5. ASSUME NEW i \in Instances, AcquireUnavailable(i) PROVE LeaseInv'
  BY <1>5 DEF AcquireUnavailable
<1>6. ASSUME NEW i \in Instances, StampHeartbeat(i) PROVE LeaseInv'
  BY <1>6 DEF StampHeartbeat
<1>7. ASSUME NEW i \in Instances, HeartbeatRenew(i) PROVE LeaseInv'
  BY <1>7 DEF HeartbeatRenew, Renewed, Matches
<1>8. ASSUME NEW i \in Instances, HeartbeatFailed(i) PROVE LeaseInv'
  BY <1>8 DEF HeartbeatFailed
<1>9. ASSUME NEW i \in Instances, StampRelease(i) PROVE LeaseInv'
  BY <1>9 DEF StampRelease
<1>10. ASSUME NEW i \in Instances, Release(i) PROVE LeaseInv'
  BY <1>10 DEF Release, Expired, Matches
<1>11. ASSUME NEW i \in Instances, FencedMutation(i) PROVE LeaseInv'
  BY <1>11 DEF FencedMutation, Matches
<1>12. ASSUME NEW i \in Instances, Crash(i) PROVE LeaseInv'
  BY <1>12 DEF Crash
<1>13. CASE UNCHANGED vars
  BY <1>13 DEF vars
<1> QED
  BY <1>1, <1>2, <1>3, <1>4, <1>5, <1>6, <1>7, <1>8, <1>9, <1>10, <1>11, <1>12,
     <1>13 DEF Next

\* So it holds throughout.
LEMMA Invariance == Spec => []LeaseInv
BY InitEstablishes, StepPreserves, PTL DEF Spec

\* The lease table and every instance's view of it stay well typed.
THEOREM TypeCorrect == Spec => []TypeOK
<1> LeaseInv => TypeOK BY DEF LeaseInv
<1> QED BY Invariance, PTL

\* acquire never hands a fencing token to two instances.
THEOREM TokensUnique == Spec => []UniqueToken
<1> LeaseInv => UniqueToken BY DEF LeaseInv
<1> QED BY Invariance, PTL

\* A dead Master locks the others out for at most one TTL.
THEOREM OutageBounded == Spec => []BoundedOutage
<1> LeaseInv => BoundedOutage BY DEF LeaseInv
<1> QED BY Invariance, PTL

-------------------------------------------------------------------------------

\* What every step does to the lock of the abstract specification.
LEMMA StepIsLockStep == LeaseInv /\ [Next]_vars => [Lock!LockNext]_(Lock!lockVars)
<1> SUFFICES ASSUME LeaseInv, [Next]_vars PROVE [Lock!LockNext]_(Lock!lockVars)
  OBVIOUS
<1> USE DEF LeaseInv, TypeOK, Row
<1>1. ASSUME NEW i \in Instances, AcquireNew(i) PROVE Lock!Grant(i)
  BY <1>1 DEF AcquireNew, TakenOver, Lock!Grant
<1>2. ASSUME NEW i \in Instances, FencedMutation(i) PROVE Lock!Write(i)
  BY <1>2 DEF FencedMutation, Matches, Lock!Write
<1>3. ASSUME NEW i \in Instances,
             \/ AcquireRenew(i) \/ HeartbeatRenew(i) \/ Release(i)
      PROVE UNCHANGED Lock!lockVars
  BY <1>3 DEF AcquireRenew, HeartbeatRenew, Release, Renewed, Expired, Lock!lockVars
<1>4. ASSUME NEW i \in Instances,
             \/ StampAcquire(i) \/ AcquireUnavailable(i) \/ StampHeartbeat(i)
             \/ HeartbeatFailed(i) \/ StampRelease(i) \/ Crash(i)
      PROVE UNCHANGED Lock!lockVars
  BY <1>4 DEF StampAcquire, AcquireUnavailable, StampHeartbeat, HeartbeatFailed,
     StampRelease, Crash, Lock!lockVars
<1>5. CASE Tick \/ UNCHANGED vars
  BY <1>5 DEF Tick, vars, Lock!lockVars
<1> QED
  BY <1>1, <1>2, <1>3, <1>4, <1>5 DEF Next, Lock!LockNext

\* The lease table implements the fenced lock: epochs only grow, each belongs
\* to one Master, and only the newest one writes.
THEOREM Refinement == Spec => ImplementsFencedLock
<1>1. Init => Lock!LockInit
  BY DEF Init, NoRow, Lock!LockInit
<1> QED
  BY <1>1, Invariance, StepIsLockStep, PTL DEF Spec, ImplementsFencedLock, Lock!LockSpec

\* After a newer Master has written, no older one's mutation is accepted.
THEOREM WritesInOrder == Spec => FencedWritesInOrder
<1>1. LeaseInv /\ [Next]_vars => [accepted' >= accepted]_vars
  <2> SUFFICES ASSUME LeaseInv, [Next]_vars PROVE accepted' >= accepted
    OBVIOUS
  <2>1. accepted \in Nat /\ accepted <= row.token /\ row.token \in Nat
    BY DEF LeaseInv, TypeOK, RowNewest, Row
  <2>2. CASE UNCHANGED <<row.token, row.owner, accepted>>
    BY <2>1, <2>2
  <2>3. ASSUME NEW i \in Instances, Lock!Grant(i) PROVE accepted' >= accepted
    BY <2>1, <2>3 DEF Lock!Grant
  <2>4. ASSUME NEW i \in Instances, Lock!Write(i) PROVE accepted' >= accepted
    BY <2>1, <2>4 DEF Lock!Write
  <2> QED BY StepIsLockStep, <2>2, <2>3, <2>4 DEF Lock!LockNext, Lock!lockVars
<1> QED BY <1>1, Invariance, PTL DEF Spec, FencedWritesInOrder

\* An unexpired lease is never taken from its owner.
THEOREM OwnerKeepsLiveLease == Spec => LiveMasterKeepsLease
<1>1. LeaseInv /\ [Next]_vars => [row'.owner # row.owner => row.expires <= clock]_vars
  <2> SUFFICES ASSUME LeaseInv, [Next]_vars, row'.owner # row.owner
               PROVE row.expires <= clock
    OBVIOUS
  <2>1. \E i \in Instances : AcquireNew(i)
    <3>1. ~UNCHANGED vars /\ ~Tick
      BY DEF vars, Tick
    <3>2. ASSUME NEW i \in Instances,
                 \/ AcquireRenew(i) \/ HeartbeatRenew(i) \/ Release(i)
          PROVE row'.owner = row.owner
      BY <3>2 DEF AcquireRenew, HeartbeatRenew, Release, Renewed, Expired, LeaseInv,
         TypeOK, Row
    <3>3. ASSUME NEW i \in Instances,
                 \/ StampAcquire(i) \/ AcquireUnavailable(i) \/ StampHeartbeat(i)
                 \/ HeartbeatFailed(i) \/ StampRelease(i) \/ FencedMutation(i) \/ Crash(i)
          PROVE row'.owner = row.owner
      BY <3>3 DEF StampAcquire, AcquireUnavailable, StampHeartbeat, HeartbeatFailed,
         StampRelease, FencedMutation, Crash
    <3> QED BY <3>1, <3>2, <3>3 DEF Next
  <2>2. PICK i \in Instances : AcquireNew(i)
    BY <2>1
  <2> QED
    BY <2>2 DEF AcquireNew, Active, LeaseInv, TypeOK, StampsPast, RowNewest, Row
<1> QED BY <1>1, Invariance, PTL DEF Spec, LiveMasterKeepsLease

===============================================================================
