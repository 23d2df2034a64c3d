----------------------------- MODULE ArtifactStore -----------------------------
(***************************************************************************)
(* The artifact files and the one-time handles of their staged writes       *)
(* (storage/artifact_store.py).  An artifact is written to a temporary file, *)
(* published by a hard link to its final name, and finalized once its row   *)
(* is committed.  Contents are left out: a file is complete when it is       *)
(* linked, because the temporary file was flushed and its hash compared.     *)
(* Every call of the file system may fail; `faults` counts the steps in     *)
(* which one does.                                                          *)
(***************************************************************************)
EXTENDS Naturals

CONSTANT MaxFaults   \* bound of the model: steps in which files or database fail

ASSUME FaultAssumption == MaxFaults \in Nat

VARIABLES handle,  \* artifact -> state of the handle of its last staged write
          temp,    \* artifact -> does its temporary file exist?
          final,   \* artifact -> does its final file exist?
          faults   \* failures so far

storeVars == <<handle, temp, final, faults>>

HandleStates == {"none", "staged", "published", "rolled_back", "discarded", "finalized",
                 "cleanup_required"}

\* The files and the handle of a after a step; bad: did a call fail in it?
Put(a, h, t, f, bad) ==
  /\ handle' = [handle EXCEPT ![a] = h]
  /\ temp' = [temp EXCEPT ![a] = t]
  /\ final' = [final EXCEPT ![a] = f]
  /\ faults' = faults + (IF bad THEN 1 ELSE 0) /\ faults' <= MaxFaults

\* Only a file with one name is read back: a second link means it was not published.
Readable(a) == final[a] /\ ~temp[a]

WriteTemp(a) == Put(a, "staged", TRUE, final[a], FALSE)

\* The write fails, and so may the removal of what was written.
WriteTempFails(a) == \E left \in BOOLEAN : Put(a, "none", left, final[a], TRUE)

\* publish up to the link, which never overwrites.
Link(a) == handle[a] = "staged" /\ ~final[a] /\ Put(a, "staged", temp[a], TRUE, FALSE)

LinkFails(a) == IF final[a] THEN Put(a, "discarded", FALSE, TRUE, FALSE)
                            ELSE Put(a, "staged", temp[a], FALSE, TRUE)

\* publish after the link: the temporary name goes, the final file is verified.
FinishPublish(a) == Put(a, "published", FALSE, TRUE, FALSE)

\* Verification fails: the final file is removed again, if that works.
FinishPublishFails(a) ==
  \E t, f \in BOOLEAN :
    Put(a, IF f THEN "cleanup_required" ELSE "rolled_back", t, f, TRUE)

Finalize(a) == handle[a] = "published" /\ Readable(a) /\ Put(a, "finalized", FALSE, TRUE, FALSE)
FinalizeFails(a) == Put(a, handle[a], temp[a], final[a], TRUE)

\* A mutation: abort forgets the published file.
AbortTempOnly(a) == Put(a, "discarded", FALSE, final[a], FALSE)

\* abort removes what the handle has made so far; f and t: what could not be removed.
Abort(a) ==
  LET owns == handle[a] \in {"published", "cleanup_required"}
  IN  \E f, t \in BOOLEAN :
        /\ f => owns /\ final[a]
        /\ t => temp[a] /\ handle[a] # "discarded"
        /\ Put(a, CASE t /\ (f \/ ~owns) -> handle[a]
                    [] t /\ ~f /\ owns -> "rolled_back"
                    [] ~t /\ f -> "cleanup_required"
                    [] ~t /\ ~f -> "discarded",
               t, IF owns THEN f ELSE final[a], f \/ t)

\* delete: the file of an artifact whose row is gone; failures are ignored.
DeleteFile(a) == \E f \in BOOLEAN : Put(a, handle[a], temp[a], f /\ final[a], f)

\* A process dies with its handles; the files stay.
Forget(A) ==
  /\ handle' = [a \in DOMAIN handle |-> IF a \in A THEN "none" ELSE handle[a]]
  /\ UNCHANGED <<temp, final, faults>>

================================================================================
