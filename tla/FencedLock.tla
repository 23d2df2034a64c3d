------------------------------ MODULE FencedLock ------------------------------
(***************************************************************************)
(* What a fencing lease promises, without clocks: a register that hands     *)
(* out strictly increasing epochs, each epoch to exactly one owner, and     *)
(* that accepts a write only from the owner of the newest epoch.  The       *)
(* lease tables of storage/leases.py implement it.                          *)
(***************************************************************************)
EXTENDS Naturals

CONSTANTS Owners, NoOwner

VARIABLES epoch,    \* the newest epoch granted, 0 before the first grant
          holder,   \* the owner of that epoch
          newest    \* the epoch of the newest accepted write

lockVars == <<epoch, holder, newest>>

LockInit ==
  /\ epoch = 0
  /\ holder = NoOwner
  /\ newest = 0

\* A new epoch for o; every older epoch is fenced off from here on.
Grant(o) ==
  /\ epoch' = epoch + 1
  /\ holder' = o
  /\ UNCHANGED newest

\* Only the newest epoch may write.
Write(o) ==
  /\ holder = o
  /\ newest' = epoch
  /\ UNCHANGED <<epoch, holder>>

LockNext == \E o \in Owners : Grant(o) \/ Write(o)

LockSpec == LockInit /\ [][LockNext]_lockVars
===============================================================================
