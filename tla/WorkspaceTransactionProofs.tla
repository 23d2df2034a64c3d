---------------------- MODULE WorkspaceTransactionProofs ----------------------
(***************************************************************************)
(* Proofs about WorkspaceTransaction, for every set of tracked, cached,      *)
(* ignored and nested paths and any number of writes.  The invariant follows *)
(* one transaction through its steps: what begin pinned, what the inventory  *)
(* and the patch know, what a late write can still change, and how far the   *)
(* restore has come.                                                         *)
(***************************************************************************)
EXTENDS WorkspaceTransaction, TLAPS

Restoring == {"tracked", "new", "ignored", "directories", "assert"}

\* A regular workspace that is at its base: Cached is what it ignores.
AtBase(files) ==
  /\ files[GitIgnore] = "base"
  /\ \A p \in Tracked : Blob(files[p]) = "base"
  /\ \A p \in Cached : files[p] = "base"
  /\ \A p \in Logs \cup Nested : files[p] = "none"

\* What begin finds, and what it pins.
BeginInv ==
  /\ pc = "begin" => /\ disk[GitIgnore] = "base" /\ index = Head /\ phase = "new"
                     /\ \A p \in Cached : disk[p] = "base"
                     /\ \A p \in Logs \cup Nested : disk[p] = "none"
  /\ pc \notin {"begin", "raised", "done"} => AtBase(baseline)
  /\ ignoredNow \cap Tracked = {} /\ touched \cap Tracked = {}
  /\ \A p \in Paths : after[p] # "link"

\* What is behind the last check of the restore stays as it was checked.
EndInv ==
  /\ outcome \in {"returned", "error"} => pc = "done"
  /\ "assert" \in since => "check" \in since
  /\ (pc = "verify" \/ outcome \in {"returned", "error"}) /\ "assert" \notin since =>
       disk = baseline /\ index = Head /\ ~newDir /\ metadata
  /\ failed => pc \in Restoring \cup {"done"} /\ outcome # "returned"

\* The capture got as far as the patch.
Complete == ~failed \/ (plain /\ metadata /\ late = 0)
After(steps) == (pc \in steps /\ Complete) \/ outcome = "returned"

\* What the capture knows, step by step.
CaptureInv ==
  /\ pc \in {"seal", "evidence", "scan", "sealing", "check", "build"} /\ late = 0 => disk = left
  /\ After({"sealing", "check", "build", "verify"} \cup Restoring) =>
       /\ InventoryChangedPaths(baseline, after) \subseteq restorePaths
       /\ late = 0 => after = left
  /\ After({"check", "build", "verify"} \cup Restoring) => touched = IgnoredChanges
  /\ After({"build", "verify"} \cup Restoring) /\ "check" \notin since =>
       \A p \in restorePaths : atCheck[p] = after[p]
  /\ (pc \in {"verify"} \cup Restoring /\ ~failed) \/ outcome = "returned" => patch = CanonicalPatch
  /\ outcome = "returned" => Reproduced

\* What a path outside the restored ones was at the last check of the seal.
LateInv ==
  "check" \notin since /\ ~failed =>
    /\ pc \in {"build", "tracked"} => disk = atCheck
    /\ pc \in {"new", "ignored"} =>
         /\ \A p \in Paths \ restorePaths : disk[p] = atCheck[p]
         /\ GitIgnore \in restorePaths => disk[GitIgnore] = baseline[GitIgnore]
    /\ pc \in {"directories", "assert"} /\ disk[GitIgnore] = baseline[GitIgnore] =>
         \A p \in Paths \ (restorePaths \cup Ignores(baseline[GitIgnore])) : disk[p] = atCheck[p]
    /\ pc = "verify" \/ outcome = "returned" =>
         \A p \in Paths \ (restorePaths \cup Ignores(baseline[GitIgnore])) : atCheck[p] = baseline[p]

\* How an ordinary Agent leaves the repository, and how far the restore has come with it.
Ordinary ==
  /\ metadata /\ phase # "orphaned"
  /\ \A p \in Paths : disk[p] # "link"
  /\ \A p \in Paths \ Tracked : index[p] = "none"
  /\ \A p \in Nested : disk[p] # "none" => newDir
  /\ pc \in {"evidence", "scan", "sealing", "check", "build", "tracked", "new", "ignored"} =>
       \A p \in Nested : p \in ignoredNow => newDir
  /\ pc \in {"scan", "sealing", "check", "build", "tracked", "new"} =>
       \A p \in Nested : p \in restorePaths => newDir
  /\ pc \in {"scan", "sealing", "check", "build", "tracked"} => StagedPaths \subseteq restorePaths
  /\ pc \in {"sealing", "check", "build", "tracked", "new", "ignored", "directories"} =>
       (created <=> newDir)
  /\ pc = "tracked" => disk = left
  /\ pc \in {"new", "ignored", "directories", "assert"} => index = Head
  /\ pc = "new" => \A p \in Paths : disk[p] = IF p \in Tracked THEN baseline[p] ELSE left[p]
  /\ pc = "ignored" => \A p \in Paths : disk[p] = IF p \in Cached THEN left[p] ELSE baseline[p]
  /\ pc \in {"directories", "assert"} => disk = baseline
  /\ pc = "assert" => ~newDir

PlainInv == plain /\ metadata /\ late = 0 => Ordinary

\* A seal that an ordinary Agent broke is found by the first step of the capture.
SealInv ==
  /\ phase = "orphaned" => pc = "done"
  /\ plain /\ late = 0 /\ ~metadata => pc \in {"agent", "seal"} \/ (pc = "done" /\ phase = "orphaned")

TransactionInv == TypeOK /\ BeginInv /\ EndInv /\ CaptureInv /\ LateInv /\ PlainInv /\ SealInv

-------------------------------------------------------------------------------
(* The operators *)

LEMMA PathFacts ==
  /\ GitIgnore \in Paths /\ GitIgnore \in Tracked
  /\ Tracked \subseteq Paths /\ Cached \subseteq Paths /\ Logs \subseteq Paths /\ Nested \subseteq Paths
  /\ \A p \in Tracked : p \notin Cached /\ p \notin Logs /\ p \notin Nested
  /\ \A p \in Cached : p \notin Logs /\ p \notin Nested
  /\ \A p \in Logs : p \notin Nested
BY PathAssumption DEF Paths

LEMMA BlobFacts ==
  \A c \in Contents : /\ Blob(c) \in {"none", "base", "edit", "link"}
                      /\ c # "link" => Blob(c) \in {"none", "base", "edit"}
                      /\ Blob(c) = "none" => c = "none"
BY DEF Blob, Contents

LEMMA HeadFacts ==
  /\ Head \in [Paths -> {"none", "base", "edit", "link"}]
  /\ \A p \in Paths : Head[p] = IF p \in Tracked THEN "base" ELSE "none"
BY DEF Head

\* No pattern hides a tracked path, and the pattern of the base commit hides Cached and Logs.
LEMMA IgnoresFacts ==
  /\ \A c \in Contents : Ignores(c) \subseteq Cached \cup Logs \cup Nested
  /\ Ignores("base") = Cached \cup Logs
<1>1. ASSUME NEW c \in Contents PROVE Ignores(c) \subseteq Cached \cup Logs \cup Nested
  <2>1. CASE Blob(c) = "base"
    BY <2>1 DEF Ignores
  <2>2. CASE Blob(c) # "base" /\ c = "edit"
    BY <2>2 DEF Ignores
  <2>3. CASE Blob(c) # "base" /\ c # "edit"
    BY <2>3 DEF Ignores
  <2> QED
    BY <2>1, <2>2, <2>3
<1>2. Blob("base") = "base"
  BY DEF Blob
<1>3. Ignores("base") = Cached \cup Logs
  BY <1>2 DEF Ignores
<1> QED
  BY <1>1, <1>3

\* What the inventory of begin has ignored.
LEMMA BaseIgnored ==
  ASSUME AtBase(baseline)
  PROVE  baselineIgnored = Cached /\ Ignores(baseline[GitIgnore]) = Cached \cup Logs
BY IgnoresFacts, PathFacts DEF AtBase, baselineIgnored

LEMMA IgnoredFacts ==
  ASSUME TypeOK
  PROVE  /\ IgnoredFiles \subseteq Paths /\ IgnoredFiles \cap Tracked = {}
         /\ baselineIgnored \subseteq Paths /\ baselineIgnored \cap Tracked = {}
<1>1. disk[GitIgnore] \in Contents /\ baseline[GitIgnore] \in Contents
  BY PathFacts DEF TypeOK, Files
<1>2. /\ Ignores(disk[GitIgnore]) \subseteq Cached \cup Logs \cup Nested
      /\ Ignores(baseline[GitIgnore]) \subseteq Cached \cup Logs \cup Nested
  BY <1>1, IgnoresFacts
<1> QED
  BY <1>2, PathFacts DEF IgnoredFiles, Others, baselineIgnored

LEMMA PatchFacts ==
  ASSUME TypeOK, BeginInv
  PROVE  /\ CanonicalPatch \in [Paths -> {"same", "none", "base", "edit"}]
         /\ \A p \in Paths \ restorePaths : CanonicalPatch[p] = "same"
         /\ \A p \in restorePaths : CanonicalPatch[p] \in {"same", Blob(after[p])}
<1>1. \A p \in Paths \ restorePaths : CanonicalPatch[p] = "same"
  BY DEF CanonicalPatch, CapturedTree
<1>2. \A p \in Paths : p \in restorePaths => CanonicalPatch[p] \in {"same", Blob(after[p])}
  BY DEF CanonicalPatch, CapturedTree
<1>3. \A p \in Paths : Blob(after[p]) \in {"none", "base", "edit"}
  BY BlobFacts DEF TypeOK, BeginInv, Files
<1>4. \A p \in Paths : CanonicalPatch[p] \in {"same", "none", "base", "edit"}
  BY <1>1, <1>2, <1>3
<1>5. CanonicalPatch = [p \in Paths |-> CanonicalPatch[p]]
  BY DEF CanonicalPatch
<1> QED
  BY <1>1, <1>2, <1>4, <1>5 DEF TypeOK

\* The heart of the matter: a patch that passes the replay takes the base to the inventory,
\* although Git keeps neither permissions nor ignored files.
LEMMA ReplayIsExact ==
  ASSUME TypeOK, patch = CanonicalPatch, touched = IgnoredChanges,
         InventoryChangedPaths(baseline, after) \subseteq restorePaths, Reproduced
  PROVE  Applied(baseline) = after
<1> DEFINE excluded == (baselineIgnored \cup ignoredNow) \ touched
<1>1. ASSUME NEW p \in Paths, p \in excluded
      PROVE  after[p] = baseline[p]
  BY <1>1 DEF IgnoredChanges, InventoryChangedPaths
<1>2. \A p \in Paths : /\ Project(baseline)[p] = IF p \in excluded THEN "none" ELSE baseline[p]
                       /\ Project(after)[p] = IF p \in excluded THEN "none" ELSE after[p]
  BY DEF Project
<1>3. \A p \in Paths : Applied(baseline)[p] = IF patch[p] = "same" THEN baseline[p] ELSE patch[p]
  BY DEF Applied
<1>4. ASSUME NEW p \in Paths PROVE Applied(baseline)[p] = after[p]
  <2>1. CASE \A q \in Paths : patch[q] = "same"
    <3>1. Project(baseline)[p] = Project(after)[p]
      BY <2>1 DEF Reproduced
    <3> QED
      BY <2>1, <3>1, <1>1, <1>2, <1>3
  <2>2. CASE ~\A q \in Paths : patch[q] = "same"
    <3>1. /\ ReplayBaseline[p] = Project(baseline)[p]
          /\ Applied(ReplayBaseline)[p] = Project(after)[p]
      BY <2>2 DEF Reproduced
    <3>2. Applied(ReplayBaseline)[p] = IF patch[p] = "same" THEN ReplayBaseline[p] ELSE patch[p]
      BY DEF Applied
    <3>3. CASE p \notin excluded
      BY <3>1, <3>2, <3>3, <1>2, <1>3
    <3>4. CASE p \in excluded /\ patch[p] = "same"
      BY <3>4, <1>1, <1>3
    <3>5. CASE p \in excluded /\ patch[p] # "same"
      <4>1. patch[p] = "none"
        BY <3>1, <3>2, <3>5, <1>2
      <4>2. p \in restorePaths /\ patch[p] = Blob(after[p])
        BY <3>5 DEF CanonicalPatch, CapturedTree
      <4>3. after[p] = "none"
        BY <4>1, <4>2, BlobFacts DEF TypeOK, Files
      <4> QED
        BY <4>1, <4>3, <3>5, <1>3
    <3> QED
      BY <3>3, <3>4, <3>5
  <2> QED
    BY <2>1, <2>2
<1>5. Applied(baseline) = [p \in Paths |-> Applied(baseline)[p]]
  BY DEF Applied
<1>6. after = [p \in Paths |-> after[p]]
  BY DEF TypeOK, Files
<1> QED
  BY <1>4, <1>5, <1>6

-------------------------------------------------------------------------------
(* The steps.  Four of them are writes of the Agent. *)

AgentWrites == \/ \E p \in Paths, c \in Contents : Write(p, c)
               \/ \E p \in Paths : Stage(p)
               \/ RemoveNewDirectory \/ Tamper

\* What a write of the Agent leaves alone, and what the history says of it.
LEMMA AgentWritesFacts ==
  ASSUME TypeOK, AgentWrites
  PROVE  /\ UNCHANGED <<phase, pc, outcome, baseline, captureVars, left, atCheck>>
         /\ MayWrite /\ pc \in Capturing \cup {"agent"}
         /\ writes' \in 0 .. MaxWrites /\ late' \in 0 .. MaxLate /\ since' \subseteq {"check", "assert"}
         /\ late' = 0 => late = 0 /\ pc = "agent"
         /\ plain' => plain
         /\ metadata' => metadata
<1>1. MayWrite
  BY DEF AgentWrites, Write, Stage, RemoveNewDirectory, Tamper
<1>2. UNCHANGED <<phase, pc, outcome, baseline, captureVars, left, atCheck>>
  BY <1>1 DEF MayWrite
<1>3. pc \in Capturing \cup {"agent"}
  BY <1>1 DEF MayWrite
<1>4. late' = 0 => late = 0 /\ pc = "agent"
  BY <1>1 DEF MayWrite, TypeOK
<1>5. plain' => plain
  BY DEF AgentWrites, Write, Stage, RemoveNewDirectory, Tamper
<1>8. metadata' => metadata
  BY DEF AgentWrites, Write, Stage, RemoveNewDirectory, Tamper
<1>6. writes' \in 0 .. MaxWrites /\ late' \in 0 .. MaxLate
  BY <1>1, BoundAssumption DEF MayWrite, TypeOK
<1>7. since' \subseteq {"check", "assert"}
  <2>1. since \subseteq {"check", "assert"}
    BY DEF TypeOK
  <2> QED
    BY <1>1, <2>1 DEF MayWrite
<1> QED
  BY <1>1, <1>2, <1>3, <1>4, <1>5, <1>6, <1>7, <1>8

\* A pass of the restore over the paths of S: all of them, or some and the end.
LEMMA PutBackFacts ==
  ASSUME TypeOK, NEW S, NEW from, NEW to, PutBack(S, from, to)
  PROVE  /\ pc = from /\ UNCHANGED <<baseline, captureVars, historyVars>>
         /\ disk' \in Files
         /\ \/ /\ pc' = to /\ UNCHANGED <<phase, outcome>>
               /\ disk' = [p \in Paths |-> IF p \in S THEN baseline[p] ELSE disk[p]]
            \/ /\ Ended("orphaned", "orphaned")
               /\ \E p \in S : disk[p] = "link" \/ (p \in Nested /\ ~newDir)
<1> DEFINE possible == {p \in S : IF p \in baselineIgnored THEN Replaceable(p) ELSE Removable(p)}
           Back(T) == [p \in Paths |-> IF p \in T THEN baseline[p] ELSE disk[p]]
<1>1. \A T : Back(T) \in Files
  BY DEF TypeOK, Files
<1>2. CASE disk' = Back(S) /\ Continue(from, to)
  BY <1>1, <1>2 DEF Continue, Step
<1>3. CASE S # possible /\ pc = from /\ (\E T \in SUBSET possible : disk' = Back(T)) /\ OrphanNow
  <2>1. \E p \in S : disk[p] = "link" \/ (p \in Nested /\ ~newDir)
    BY <1>3 DEF Replaceable, Removable
  <2> QED
    BY <1>1, <1>3, <2>1 DEF OrphanNow
<1> QED
  BY <1>2, <1>3 DEF PutBack

LEMMA RemoveNewFilesFacts ==
  ASSUME TypeOK, RemoveNewFiles
  PROVE  /\ pc = "new" /\ UNCHANGED <<baseline, captureVars, historyVars, newDir, metadata>>
         /\ disk' \in Files
         /\ index' = [p \in Paths |-> IF p \in UntrackedNew THEN "none" ELSE index[p]]
         /\ \/ /\ pc' = "ignored" /\ UNCHANGED <<phase, outcome>>
               /\ disk' = [p \in Paths |-> IF p \in UntrackedNew THEN baseline[p] ELSE disk[p]]
            \/ /\ Ended("orphaned", "orphaned")
               /\ \E p \in UntrackedNew : disk[p] = "link" \/ (p \in Nested /\ ~newDir)
BY PutBackFacts DEF RemoveNewFiles

LEMMA RestoreIgnoredFacts ==
  ASSUME TypeOK, RestoreIgnored
  PROVE  /\ pc = "ignored" /\ UNCHANGED <<baseline, captureVars, historyVars, newDir, metadata, index>>
         /\ disk' \in Files
         /\ \/ /\ pc' = "directories" /\ UNCHANGED <<phase, outcome>>
               /\ disk' = [p \in Paths |-> IF p \in IgnoredToRestore THEN baseline[p] ELSE disk[p]]
            \/ /\ Ended("orphaned", "orphaned")
               /\ \E p \in IgnoredToRestore : disk[p] = "link" \/ (p \in Nested /\ ~newDir)
BY PutBackFacts DEF RestoreIgnored

LEMMA TypeStep == TypeOK /\ BeginInv /\ [Next]_vars => TypeOK'
<1> SUFFICES ASSUME TypeOK, BeginInv, [Next]_vars PROVE TypeOK'
  OBVIOUS
<1>12. CASE RemoveNewFiles
  <2>1. /\ UNCHANGED <<baseline, captureVars, historyVars, newDir, metadata>>
        /\ disk' \in Files
        /\ index' = [p \in Paths |-> IF p \in UntrackedNew THEN "none" ELSE index[p]]
        /\ (pc' = "ignored" /\ UNCHANGED <<phase, outcome>>) \/ Ended("orphaned", "orphaned")
    BY <1>12, RemoveNewFilesFacts
  <2>2. index' \in [Paths -> {"none", "base", "edit", "link"}]
    BY <2>1 DEF TypeOK
  <2> QED
    BY <2>1, <2>2 DEF TypeOK, captureVars, historyVars, Ended, Steps
<1>13. CASE RestoreIgnored
  <2>1. /\ UNCHANGED <<baseline, captureVars, historyVars, newDir, metadata, index>>
        /\ disk' \in Files
        /\ (pc' = "directories" /\ UNCHANGED <<phase, outcome>>) \/ Ended("orphaned", "orphaned")
    BY <1>13, RestoreIgnoredFacts
  <2> QED
    BY <2>1 DEF TypeOK, captureVars, historyVars, Ended, Steps
<1> USE BoundAssumption, PathFacts, BlobFacts, HeadFacts
    DEF TypeOK, Files, Steps, repoVars, captureVars, historyVars, Step, CaptureError, Ended,
        Continue, OrphanNow
<1>w. CASE AgentWrites
  <2>0. /\ UNCHANGED <<phase, pc, outcome, baseline, captureVars, left, atCheck>>
        /\ writes' \in 0 .. MaxWrites /\ late' \in 0 .. MaxLate /\ since' \subseteq {"check", "assert"}
    BY <1>w, AgentWritesFacts
  <2>1. ASSUME NEW p \in Paths, NEW c \in Contents, Write(p, c) PROVE TypeOK'
    <3>1. newDir' \in BOOLEAN /\ plain' \in BOOLEAN
      BY <2>1, Zenon DEF Write
    <3> QED
      BY <2>0, <2>1, <3>1 DEF Write
  <2>2. ASSUME NEW p \in Paths, Stage(p) PROVE TypeOK'
    <3>1. metadata' \in BOOLEAN /\ plain' \in BOOLEAN
      BY <2>2, Zenon DEF Stage
    <3> QED
      BY <2>0, <2>2, <3>1 DEF Stage
  <2>3. CASE RemoveNewDirectory
    <3>1. newDir' \in BOOLEAN
      BY <2>3 DEF RemoveNewDirectory
    <3> QED
      BY <2>0, <2>3, <3>1 DEF RemoveNewDirectory
  <2>4. CASE Tamper
    BY <2>0, <2>4 DEF Tamper
  <2> QED
    BY <1>w, <2>1, <2>2, <2>3, <2>4 DEF AgentWrites
<1>1. CASE Begin
  BY <1>1 DEF Begin
<1>2. CASE AgentEnds
  BY <1>2 DEF AgentEnds
<1>3. CASE AssertMetadataSeal
  BY <1>3, IgnoredFacts DEF AssertMetadataSeal
<1>4. CASE CaptureEvidence
  BY <1>4, IgnoredFacts DEF CaptureEvidence, StagedPaths, UnstagedPaths, UntrackedFiles, Others
<1>5. CASE EvidenceFails
  BY <1>5 DEF EvidenceFails
<1>6. CASE ScanInventory
  <2>1. /\ UNCHANGED <<phase, outcome, repoVars, baseline, ignoredNow, touched, patch, historyVars>>
        /\ created' = newDir /\ pc' \in {"tracked", "sealing"} /\ failed' \in BOOLEAN
    BY <1>6 DEF ScanInventory, CreatedDirectories
  <2>2. after' \in Files /\ restorePaths' \subseteq Paths
    BY <1>6 DEF ScanInventory, InventoryChangedPaths
  <2> QED
    BY <2>1, <2>2
<1>7. CASE SealInventoryPaths
  BY <1>7, IgnoredFacts DEF SealInventoryPaths, IgnoredChanges
<1>8. CASE AssertSealedPathsCurrent
  BY <1>8 DEF AssertSealedPathsCurrent
<1>9. CASE BuildCanonicalPatch
  BY <1>9, PatchFacts DEF BuildCanonicalPatch
<1>10. CASE CaptureFails
  BY <1>10 DEF CaptureFails
<1>11. CASE RestoreTracked
  BY <1>11 DEF RestoreTracked
<1>14. CASE RemoveCreatedDirectories
  <2>1. newDir' \in BOOLEAN
    BY <1>14, Zenon DEF RemoveCreatedDirectories
  <2>2. UNCHANGED <<disk, index, metadata, baseline, captureVars, historyVars>>
    BY <1>14 DEF RemoveCreatedDirectories
  <2>3. (pc' = "assert" /\ UNCHANGED <<phase, outcome>>) \/ Ended("orphaned", "orphaned")
    BY <1>14 DEF RemoveCreatedDirectories
  <2> QED
    BY <2>1, <2>2, <2>3
<1>15. CASE RestoreFails
  BY <1>15 DEF RestoreFails
<1>16. CASE AssertRestored
  BY <1>16 DEF AssertRestored
<1>17. CASE VerifyCanonicalPatch
  BY <1>17 DEF VerifyCanonicalPatch
<1>18. CASE VerifyFails
  BY <1>18 DEF VerifyFails
<1>19. CASE Close
  BY <1>19 DEF Close
<1>20. CASE UNCHANGED vars
  BY <1>20 DEF vars
<1> QED
  BY <1>w, <1>1, <1>2, <1>3, <1>4, <1>5, <1>6, <1>7, <1>8, <1>9, <1>10, <1>11, <1>12, <1>13, <1>14, <1>15, <1>16, <1>17, <1>18, <1>19, <1>20
     DEF Next, Agent, Capture, Restore, AgentWrites

LEMMA BeginStep == TypeOK /\ BeginInv /\ [Next]_vars => BeginInv'
<1> SUFFICES ASSUME TypeOK, BeginInv, [Next]_vars PROVE BeginInv'
  OBVIOUS
<1> USE PathFacts DEF BeginInv, repoVars, captureVars, historyVars, Step, CaptureError, Ended,
        Continue, OrphanNow
<1>w. CASE AgentWrites
  BY <1>w, AgentWritesFacts DEF Capturing
<1>1. CASE Begin
  BY <1>1, HeadFacts DEF Begin, AtBase, Dirty, UnstagedPaths, TypeOK
<1>2. CASE AgentEnds
  BY <1>2 DEF AgentEnds
<1>3. CASE AssertMetadataSeal
  BY <1>3, IgnoredFacts DEF AssertMetadataSeal
<1>4. CASE CaptureEvidence
  BY <1>4, IgnoredFacts DEF CaptureEvidence
<1>5. CASE EvidenceFails
  BY <1>5 DEF EvidenceFails
<1>6. CASE ScanInventory
  BY <1>6 DEF ScanInventory
<1>7. CASE SealInventoryPaths
  BY <1>7, IgnoredFacts DEF SealInventoryPaths, IgnoredChanges
<1>8. CASE AssertSealedPathsCurrent
  BY <1>8 DEF AssertSealedPathsCurrent
<1>9. CASE BuildCanonicalPatch
  BY <1>9 DEF BuildCanonicalPatch
<1>10. CASE CaptureFails
  BY <1>10 DEF CaptureFails
<1>11. CASE RestoreTracked
  BY <1>11 DEF RestoreTracked
<1>12. CASE RemoveNewFiles
  BY <1>12 DEF RemoveNewFiles, PutBack
<1>13. CASE RestoreIgnored
  BY <1>13 DEF RestoreIgnored, PutBack
<1>14. CASE RemoveCreatedDirectories
  BY <1>14 DEF RemoveCreatedDirectories
<1>15. CASE RestoreFails
  BY <1>15 DEF RestoreFails
<1>16. CASE AssertRestored
  BY <1>16 DEF AssertRestored
<1>17. CASE VerifyCanonicalPatch
  BY <1>17 DEF VerifyCanonicalPatch
<1>18. CASE VerifyFails
  BY <1>18 DEF VerifyFails
<1>19. CASE Close
  BY <1>19 DEF Close
<1>20. CASE UNCHANGED vars
  BY <1>20 DEF vars
<1> QED
  BY <1>w, <1>1, <1>2, <1>3, <1>4, <1>5, <1>6, <1>7, <1>8, <1>9, <1>10, <1>11, <1>12, <1>13, <1>14, <1>15, <1>16, <1>17, <1>18, <1>19, <1>20
     DEF Next, Agent, Capture, Restore, AgentWrites

LEMMA EndStep == TypeOK /\ EndInv /\ [Next]_vars => EndInv'
<1> SUFFICES ASSUME TypeOK, EndInv, [Next]_vars PROVE EndInv'
  OBVIOUS
<1> USE DEF EndInv, repoVars, captureVars, historyVars, Step, CaptureError, Ended,
        Continue, OrphanNow, Restoring
<1>w. CASE AgentWrites
  BY <1>w, AgentWritesFacts DEF Capturing, MayWrite
<1>1. CASE Begin
  BY <1>1 DEF Begin
<1>2. CASE AgentEnds
  BY <1>2 DEF AgentEnds
<1>3. CASE AssertMetadataSeal
  BY <1>3 DEF AssertMetadataSeal
<1>4. CASE CaptureEvidence
  BY <1>4 DEF CaptureEvidence
<1>5. CASE EvidenceFails
  BY <1>5 DEF EvidenceFails
<1>6. CASE ScanInventory
  BY <1>6 DEF ScanInventory
<1>7. CASE SealInventoryPaths
  BY <1>7 DEF SealInventoryPaths
<1>8. CASE AssertSealedPathsCurrent
  BY <1>8 DEF AssertSealedPathsCurrent
<1>9. CASE BuildCanonicalPatch
  BY <1>9 DEF BuildCanonicalPatch
<1>10. CASE CaptureFails
  BY <1>10 DEF CaptureFails
<1>11. CASE RestoreTracked
  BY <1>11 DEF RestoreTracked
<1>12. CASE RemoveNewFiles
  BY <1>12 DEF RemoveNewFiles, PutBack
<1>13. CASE RestoreIgnored
  BY <1>13 DEF RestoreIgnored, PutBack
<1>14. CASE RemoveCreatedDirectories
  BY <1>14 DEF RemoveCreatedDirectories
<1>15. CASE RestoreFails
  BY <1>15 DEF RestoreFails
<1>16. CASE AssertRestored
  BY <1>16 DEF AssertRestored, Restored
<1>17. CASE VerifyCanonicalPatch
  BY <1>17 DEF VerifyCanonicalPatch
<1>18. CASE VerifyFails
  BY <1>18 DEF VerifyFails
<1>19. CASE Close
  BY <1>19 DEF Close
<1>20. CASE UNCHANGED vars
  BY <1>20 DEF vars
<1> QED
  BY <1>w, <1>1, <1>2, <1>3, <1>4, <1>5, <1>6, <1>7, <1>8, <1>9, <1>10, <1>11, <1>12, <1>13, <1>14, <1>15, <1>16, <1>17, <1>18, <1>19, <1>20
     DEF Next, Agent, Capture, Restore, AgentWrites

\* What depends on the records of the capture alone.
LEMMA RecordsFrame ==
  ASSUME UNCHANGED <<baseline, captureVars>>
  PROVE  /\ UNCHANGED <<baseline, ignoredNow, restorePaths, created, touched, after, failed, patch>>
         /\ baselineIgnored' = baselineIgnored /\ IgnoredChanges' = IgnoredChanges
         /\ InventoryChangedPaths(baseline, after)' = InventoryChangedPaths(baseline, after)
         /\ CanonicalPatch' = CanonicalPatch /\ (Reproduced' <=> Reproduced)
<1>1. UNCHANGED <<baseline, ignoredNow, restorePaths, created, touched, after, failed, patch>>
  BY DEF captureVars
<1>2. /\ baselineIgnored' = baselineIgnored /\ Head' = Head
      /\ InventoryChangedPaths(baseline, after)' = InventoryChangedPaths(baseline, after)
  BY <1>1 DEF baselineIgnored, InventoryChangedPaths, Head
<1>3. BaselineTree' = BaselineTree
  BY <1>1, <1>2 DEF BaselineTree
<1>4. CapturedTree' = CapturedTree
  BY <1>1, <1>3 DEF CapturedTree
<1>5. CanonicalPatch' = CanonicalPatch
  BY <1>3, <1>4 DEF CanonicalPatch
<1>6. Project(baseline)' = Project(baseline) /\ Project(after)' = Project(after)
  BY <1>1, <1>2 DEF Project
<1>7. ReplayBaseline' = ReplayBaseline
  BY <1>1, <1>2 DEF ReplayBaseline
<1>8. Applied(ReplayBaseline)' = Applied(ReplayBaseline)
  BY <1>1, <1>7 DEF Applied
<1>9. Reproduced' <=> Reproduced
  BY <1>1, <1>6, <1>7, <1>8 DEF Reproduced
<1>10. IgnoredChanges' = IgnoredChanges
  BY <1>1, <1>2 DEF IgnoredChanges
<1> QED
  BY <1>1, <1>2, <1>5, <1>9, <1>10

\* A step of the restore that neither the records nor the history notice.
LEMMA CaptureKept ==
  ASSUME CaptureInv, EndInv, UNCHANGED <<baseline, captureVars, left, atCheck>>,
         late' = 0 => late = 0, plain' => plain, metadata' => metadata, since \subseteq since',
         \/ pc \in {"verify"} \cup Restoring /\ pc' \in {"verify"} \cup Restoring
         \/ pc' \in {"raised", "done"},
         outcome' = "returned" => (pc = "verify" /\ Reproduced) \/ outcome = "returned"
  PROVE  CaptureInv'
BY RecordsFrame DEF CaptureInv, EndInv, After, Complete, Restoring

LEMMA CaptureStep == TypeOK /\ BeginInv /\ EndInv /\ CaptureInv /\ PlainInv /\ [Next]_vars => CaptureInv'
<1> SUFFICES ASSUME TypeOK, BeginInv, EndInv, CaptureInv, PlainInv, [Next]_vars PROVE CaptureInv'
  OBVIOUS
<1>w. CASE AgentWrites
  <2>1. /\ UNCHANGED <<baseline, captureVars, left, atCheck, pc, outcome>>
        /\ late' = 0 => late = 0 /\ pc = "agent"
        /\ plain' => plain /\ (metadata' => metadata)
        /\ since \subseteq since'
        /\ pc \in {"build", "verify"} \cup Restoring => "check" \in since'
    BY <1>w, AgentWritesFacts DEF MayWrite, Restoring
  <2> QED
    BY <2>1, RecordsFrame DEF CaptureInv, After, Complete, EndInv
<1>1. CASE Begin
  BY <1>1 DEF Begin, CaptureInv, After, Complete, EndInv, Restoring
<1>2. CASE AgentEnds
  BY <1>2, RecordsFrame DEF AgentEnds, CaptureInv, After, Complete, EndInv, Restoring, repoVars
<1>3. CASE AssertMetadataSeal
  BY <1>3 DEF AssertMetadataSeal, CaptureInv, After, Complete, EndInv, Restoring, Step, Ended,
     repoVars, historyVars
<1>4. CASE CaptureEvidence
  BY <1>4 DEF CaptureEvidence, CaptureInv, After, Complete, EndInv, Restoring, Step, repoVars, historyVars
<1>5. CASE EvidenceFails
  BY <1>5 DEF EvidenceFails, CaptureInv, After, Complete, EndInv, Restoring, repoVars
<1>6. CASE ScanInventory
  <2>1. CASE pc' = "tracked"
    <3>1. ~Complete' /\ failed'
      BY <1>6, <2>1 DEF ScanInventory, CaptureError, Step, PlainInv, Ordinary, Complete, repoVars, historyVars
    <3> QED
      BY <1>6, <2>1, <3>1 DEF ScanInventory, CaptureError, Step, CaptureInv, After, EndInv, Restoring,
         repoVars, historyVars
  <2>2. CASE pc' = "sealing"
    <3>1. InventoryChangedPaths(baseline, after)' \subseteq restorePaths'
      BY <1>6, <2>2 DEF ScanInventory, CaptureError, InventoryChangedPaths
    <3>2. late' = 0 => after' = left'
      BY <1>6, <2>2 DEF ScanInventory, CaptureError, CaptureInv, historyVars
    <3> QED
      BY <1>6, <2>2, <3>1, <3>2 DEF ScanInventory, CaptureError, Step, CaptureInv, After, EndInv,
         Restoring, repoVars, historyVars
  <2> QED
    BY <1>6, <2>1, <2>2 DEF ScanInventory, CaptureError, Step
<1>7. CASE SealInventoryPaths
  <2>0. UNCHANGED <<repoVars, baseline, ignoredNow, restorePaths, created, after, patch, historyVars>>
    BY <1>7 DEF SealInventoryPaths
  <2>1. CASE pc' = "tracked"
    <3>1. ~Complete' /\ failed'
      BY <1>7, <2>1 DEF SealInventoryPaths, CaptureError, Step, CaptureInv, After, Complete,
         repoVars, historyVars, TypeOK
    <3> QED
      BY <1>7, <2>1, <3>1 DEF SealInventoryPaths, CaptureError, Step, CaptureInv, After, EndInv, Restoring,
         repoVars, historyVars
  <2>2. CASE pc' = "check"
    <3>1. touched' = IgnoredChanges'
      BY <1>7, <2>2 DEF SealInventoryPaths, CaptureError, IgnoredChanges, InventoryChangedPaths,
         baselineIgnored
    <3>2. InventoryChangedPaths(baseline, after)' = InventoryChangedPaths(baseline, after)
      BY <2>0 DEF InventoryChangedPaths
    <3> QED
      BY <1>7, <2>2, <3>1, <3>2 DEF SealInventoryPaths, CaptureError, Step, CaptureInv, After, Complete,
         EndInv, Restoring, repoVars, historyVars
  <2> QED
    BY <1>7, <2>1, <2>2 DEF SealInventoryPaths, CaptureError, Step
<1>8. CASE AssertSealedPathsCurrent
  <2>0. UNCHANGED <<repoVars, baseline, ignoredNow, restorePaths, created, touched, after, patch,
                    late, left, since, plain>> /\ atCheck' = disk /\ pc = "check"
    BY <1>8 DEF AssertSealedPathsCurrent
  <2>1. CASE ~SealedPathsCurrent /\ CaptureError
    <3>1. ~Complete' /\ failed'
      BY <2>0, <2>1 DEF SealedPathsCurrent, CaptureError, CaptureInv, After, Complete, repoVars
    <3> QED
      BY <2>0, <2>1, <3>1 DEF CaptureError, CaptureInv, After, EndInv, Restoring
  <2>2. CASE SealedPathsCurrent /\ Step("check", "build") /\ failed' = failed
    <3>1. \A p \in restorePaths' : atCheck'[p] = after'[p]
      BY <2>0, <2>2 DEF SealedPathsCurrent
    <3>2. UNCHANGED <<baseline, captureVars>>
      BY <2>0, <2>2 DEF captureVars
    <3>3. disk' = disk
      BY <2>0 DEF repoVars
    <3> QED
      BY <2>0, <2>2, <3>1, <3>2, <3>3, RecordsFrame
         DEF CaptureInv, After, Complete, EndInv, Restoring, Step
  <2> QED
    BY <1>8, <2>1, <2>2 DEF AssertSealedPathsCurrent
<1>9. CASE BuildCanonicalPatch
  <2>0. /\ UNCHANGED <<baseline, ignoredNow, restorePaths, touched, after, historyVars>>
        /\ pc = "build" /\ patch' = CanonicalPatch /\ pc' = "tracked" /\ UNCHANGED outcome
        /\ ~failed' => ~failed
    BY <1>9 DEF BuildCanonicalPatch, CaptureError, Step
  <2>1. CanonicalPatch' = CanonicalPatch
    BY <2>0 DEF CanonicalPatch, CapturedTree, BaselineTree, baselineIgnored, Head
  <2>2. IgnoredChanges' = IgnoredChanges
    BY <2>0 DEF IgnoredChanges, baselineIgnored, InventoryChangedPaths
  <2>3. InventoryChangedPaths(baseline, after)' = InventoryChangedPaths(baseline, after)
    BY <2>0 DEF InventoryChangedPaths
  <2>4. ~failed
    BY <2>0 DEF EndInv, Restoring
  <2> QED
    BY <2>0, <2>1, <2>2, <2>3, <2>4 DEF CaptureInv, After, Complete, EndInv, Restoring, historyVars
<1>10. CASE CaptureFails
  <2>1. ~Complete' /\ failed' /\ pc' = "tracked" /\ outcome' = outcome /\ outcome # "returned"
    BY <1>10 DEF CaptureFails, CaptureError, Complete, EndInv
  <2> QED
    BY <2>1 DEF CaptureInv, After, Restoring
<1>11. CASE RestoreTracked
  BY <1>11, CaptureKept DEF RestoreTracked, Continue, Step, historyVars, Restoring
<1>12. CASE RemoveNewFiles
  BY <1>12, RemoveNewFilesFacts, CaptureKept DEF Ended, historyVars, Restoring
<1>13. CASE RestoreIgnored
  BY <1>13, RestoreIgnoredFacts, CaptureKept DEF Ended, historyVars, Restoring
<1>14. CASE RemoveCreatedDirectories
  BY <1>14, CaptureKept DEF RemoveCreatedDirectories, OrphanNow, Ended, Continue, Step, historyVars,
     Restoring
<1>15. CASE RestoreFails
  BY <1>15, CaptureKept DEF RestoreFails, Ended, Restoring, repoVars
<1>16. CASE AssertRestored
  BY <1>16, CaptureKept DEF AssertRestored, Ended, Step, repoVars, historyVars, Restoring
<1>17. CASE VerifyCanonicalPatch
  BY <1>17, CaptureKept DEF VerifyCanonicalPatch, Ended, repoVars, historyVars
<1>18. CASE VerifyFails
  BY <1>18, CaptureKept DEF VerifyFails, Ended, repoVars
<1>19. CASE Close
  BY <1>19, CaptureKept DEF Close, repoVars, historyVars
<1>20. CASE UNCHANGED vars
  <2>1. UNCHANGED <<pc, outcome, disk, metadata, baseline, captureVars, late, left, atCheck, since, plain>>
    BY <1>20 DEF vars, repoVars, historyVars
  <2> QED
    BY <2>1, RecordsFrame DEF CaptureInv, After, Complete
<1> QED
  BY <1>w, <1>1, <1>2, <1>3, <1>4, <1>5, <1>6, <1>7, <1>8, <1>9, <1>10, <1>11, <1>12, <1>13, <1>14,
     <1>15, <1>16, <1>17, <1>18, <1>19, <1>20 DEF Next, Agent, Capture, Restore, AgentWrites

\* An ignored path that the last pass clears without having seen it is ignored by the base
\* commit, or .gitignore itself is changed and stays so.
LEMMA ClearedUnseen ==
  ASSUME TypeOK, BeginInv, CaptureInv, LateInv, pc = "ignored", "check" \notin since, ~failed,
         NEW p \in IgnoredToRestore, p \notin restorePaths, p \notin Ignores(baseline[GitIgnore])
  PROVE  disk[GitIgnore] # baseline[GitIgnore]
<1>1. touched = IgnoredChanges /\ InventoryChangedPaths(baseline, after) \subseteq restorePaths
  BY DEF CaptureInv, After, Complete, Restoring
<1>2. p \notin touched /\ touched = {}
  BY <1>1 DEF IgnoredChanges, IgnoredToRestore
<1>3. p \in IgnoredFiles
  BY <1>2 DEF IgnoredToRestore, baselineIgnored
<1>4. p \in Ignores(disk[GitIgnore])
  BY <1>3 DEF IgnoredFiles
<1> QED
  BY <1>4

LEMMA NotIgnored ==
  ASSUME TypeOK, BeginInv
  PROVE  GitIgnore \notin IgnoredToRestore /\ GitIgnore \notin UntrackedNew
BY IgnoredFacts, PathFacts DEF BeginInv, IgnoredToRestore, UntrackedNew

LEMMA LateStep == TypeOK /\ BeginInv /\ EndInv /\ CaptureInv /\ LateInv /\ [Next]_vars => LateInv'
<1> SUFFICES ASSUME TypeOK, BeginInv, EndInv, CaptureInv, LateInv, [Next]_vars PROVE LateInv'
  OBVIOUS
<1>w. CASE AgentWrites
  <2>1. /\ UNCHANGED <<baseline, captureVars, left, atCheck, pc, outcome>>
        /\ pc \in {"build", "verify"} \cup Restoring => "check" \in since'
        /\ pc \in Capturing \cup {"agent"}
    BY <1>w, AgentWritesFacts DEF MayWrite, Restoring
  <2> QED
    BY <2>1 DEF LateInv, EndInv, Restoring, Capturing
<1> USE DEF repoVars, captureVars, historyVars, Step, CaptureError, Ended, Continue, OrphanNow
<1>1. CASE Begin \/ AgentEnds \/ AssertMetadataSeal \/ CaptureEvidence \/ EvidenceFails
           \/ ScanInventory \/ SealInventoryPaths \/ CaptureFails \/ Close
  <2>1. pc' \in {"raised", "agent", "seal", "evidence", "scan", "sealing", "check", "done"} \/ failed'
    BY <1>1 DEF Begin, AgentEnds, AssertMetadataSeal, CaptureEvidence, EvidenceFails,
       ScanInventory, SealInventoryPaths, CaptureFails, Close
  <2>2. outcome' # "returned"
    BY <1>1 DEF Begin, AgentEnds, AssertMetadataSeal, CaptureEvidence, EvidenceFails,
       ScanInventory, SealInventoryPaths, CaptureFails, Close, EndInv
  <2> QED
    BY <2>1, <2>2 DEF LateInv
<1>2. CASE AssertSealedPathsCurrent
  BY <1>2 DEF AssertSealedPathsCurrent, LateInv, EndInv
<1>3. CASE BuildCanonicalPatch
  BY <1>3 DEF BuildCanonicalPatch, LateInv, EndInv
<1>4. CASE RestoreTracked
  BY <1>4, PathFacts DEF RestoreTracked, LateInv, EndInv
<1>5. CASE RemoveNewFiles
  <2>1. CASE pc' = "ignored"
    <3>1. /\ pc = "new" /\ UNCHANGED <<baseline, restorePaths, failed, since, atCheck, outcome>>
          /\ disk' = [p \in Paths |-> IF p \in UntrackedNew THEN baseline[p] ELSE disk[p]]
      BY <1>5, <2>1, RemoveNewFilesFacts
    <3>2. \A p \in Paths \ restorePaths : disk'[p] = disk[p]
      BY <3>1 DEF UntrackedNew
    <3>3. disk'[GitIgnore] = disk[GitIgnore]
      BY <3>1, NotIgnored, PathFacts
    <3> QED
      BY <2>1, <3>1, <3>2, <3>3 DEF LateInv, EndInv
  <2>2. CASE pc' = "done" /\ outcome' = "orphaned"
    BY <2>2 DEF LateInv
  <2> QED
    BY <1>5, <2>1, <2>2, RemoveNewFilesFacts
<1>6. CASE RestoreIgnored
  <2>1. CASE pc' = "directories"
    <3>1. /\ pc = "ignored" /\ UNCHANGED <<baseline, restorePaths, failed, since, atCheck, outcome>>
          /\ disk' = [p \in Paths |-> IF p \in IgnoredToRestore THEN baseline[p] ELSE disk[p]]
      BY <1>6, <2>1, RestoreIgnoredFacts
    <3>2. disk'[GitIgnore] = disk[GitIgnore]
      BY <3>1, NotIgnored, PathFacts
    <3>3. ASSUME "check" \notin since, ~failed, disk'[GitIgnore] = baseline[GitIgnore],
                 NEW p \in Paths, p \notin restorePaths, p \notin Ignores(baseline[GitIgnore])
          PROVE  disk'[p] = atCheck[p]
      <4>1. p \notin IgnoredToRestore
        BY <3>1, <3>2, <3>3, ClearedUnseen
      <4> QED
        BY <3>1, <3>3, <4>1 DEF LateInv
    <3> QED
      BY <2>1, <3>1, <3>3 DEF LateInv, EndInv
  <2>2. CASE pc' = "done" /\ outcome' = "orphaned"
    BY <2>2 DEF LateInv
  <2> QED
    BY <1>6, <2>1, <2>2, RestoreIgnoredFacts
<1>7. CASE RemoveCreatedDirectories
  BY <1>7 DEF RemoveCreatedDirectories, LateInv, EndInv
<1>8. CASE RestoreFails
  BY <1>8 DEF RestoreFails, LateInv
<1>9. CASE AssertRestored
  <2>1. CASE pc' = "done" /\ outcome' # "returned"
    BY <2>1 DEF LateInv
  <2>2. CASE Restored /\ ~failed /\ Step("assert", "verify")
    <3>1. disk = baseline /\ outcome # "returned"
      BY <2>2 DEF Restored, EndInv
    <3> QED
      BY <1>9, <2>2, <3>1 DEF AssertRestored, LateInv
  <2> QED
    BY <1>9, <2>1, <2>2 DEF AssertRestored
<1>10. CASE VerifyCanonicalPatch \/ VerifyFails
  BY <1>10 DEF VerifyCanonicalPatch, VerifyFails, LateInv
<1>11. CASE UNCHANGED vars
  BY <1>11 DEF vars, LateInv
<1> QED
  BY <1>w, <1>1, <1>2, <1>3, <1>4, <1>5, <1>6, <1>7, <1>8, <1>9, <1>10, <1>11
     DEF Next, Agent, Capture, Restore, AgentWrites

-------------------------------------------------------------------------------
(* An ordinary Agent *)

\* The base passes the checks that end a restore.
LEMMA BaseRestored ==
  ASSUME TypeOK, AtBase(baseline), disk = baseline, index = Head, metadata, ~newDir
  PROVE  Restored
<1>1. baselineIgnored = Cached /\ Ignores(disk[GitIgnore]) = Cached \cup Logs
  BY BaseIgnored
<1>2. Others = Cached
  BY HeadFacts, PathFacts DEF Others, AtBase, Paths, Blob
<1>3. StagedPaths = {}
  BY DEF StagedPaths
<1>4. UnstagedPaths = {}
  BY HeadFacts, PathFacts DEF UnstagedPaths, AtBase
<1> QED
  BY <1>1, <1>2, <1>3, <1>4 DEF Restored, Dirty, IgnoredFiles, UntrackedFiles

LEMMA PlainBackwards ==
  TypeOK /\ [Next]_vars => (plain' => plain) /\ (metadata' => metadata) /\ (late' = 0 => late = 0)
<1> SUFFICES ASSUME TypeOK, [Next]_vars
             PROVE (plain' => plain) /\ (metadata' => metadata) /\ (late' = 0 => late = 0)
  OBVIOUS
<1>w. CASE AgentWrites
  BY <1>w, AgentWritesFacts
<1> USE DEF historyVars, Continue, OrphanNow, repoVars
<1>1. CASE Begin \/ AgentEnds \/ Capture \/ Close
  BY <1>1 DEF Begin, AgentEnds, Capture, AssertMetadataSeal, CaptureEvidence, EvidenceFails,
     ScanInventory, SealInventoryPaths, AssertSealedPathsCurrent, BuildCanonicalPatch, CaptureFails,
     Close
<1>2. CASE RemoveNewFiles
  BY <1>2, RemoveNewFilesFacts
<1>3. CASE RestoreIgnored
  BY <1>3, RestoreIgnoredFacts
<1>4. CASE RestoreTracked \/ RemoveCreatedDirectories \/ RestoreFails \/ AssertRestored
           \/ VerifyCanonicalPatch \/ VerifyFails
  BY <1>4 DEF RestoreTracked, RemoveCreatedDirectories, RestoreFails, AssertRestored,
     VerifyCanonicalPatch, VerifyFails
<1>5. CASE UNCHANGED vars
  BY <1>5 DEF vars
<1> QED
  BY <1>w, <1>1, <1>2, <1>3, <1>4, <1>5 DEF Next, Agent, Restore, AgentWrites

LEMMA PlainStep ==
  TypeOK /\ BeginInv /\ EndInv /\ CaptureInv /\ PlainInv /\ [Next]_vars => PlainInv'
<1> SUFFICES ASSUME TypeOK, BeginInv, EndInv, CaptureInv, PlainInv, [Next]_vars,
                    plain', metadata', late' = 0
             PROVE  Ordinary'
  BY DEF PlainInv
<1>o. plain /\ metadata /\ late = 0 /\ Ordinary /\ Complete
  BY PlainBackwards DEF PlainInv, Complete
<1>w. CASE AgentWrites
  <2>0. pc = "agent" /\ UNCHANGED <<phase, pc>>
    BY <1>w, AgentWritesFacts
  <2>1. ASSUME NEW p \in Paths, NEW c \in Contents, Write(p, c) PROVE Ordinary'
    BY <1>o, <2>0, <2>1, PathFacts DEF Write, Ordinary, TypeOK, Files
  <2>2. ASSUME NEW p \in Paths, Stage(p) PROVE Ordinary'
    BY <1>o, <2>0, <2>2, PathFacts DEF Stage, Ordinary, TypeOK, Files
  <2>3. CASE RemoveNewDirectory
    BY <1>o, <2>0, <2>3 DEF RemoveNewDirectory, Ordinary
  <2>4. CASE Tamper
    BY <2>4 DEF Tamper
  <2> QED
    BY <1>w, <2>1, <2>2, <2>3, <2>4 DEF AgentWrites
<1> USE DEF repoVars, captureVars, historyVars, Step, CaptureError, Ended, Continue, OrphanNow
<1>1. CASE Begin
  BY <1>o, <1>1 DEF Begin, Ordinary
<1>2. CASE AgentEnds
  BY <1>o, <1>2 DEF AgentEnds, Ordinary
<1>3. CASE AssertMetadataSeal
  BY <1>o, <1>3, PathFacts DEF AssertMetadataSeal, Ordinary, IgnoredFiles, Others
<1>4. CASE CaptureEvidence
  <2>1. pc = "evidence" /\ pc' = "scan" /\ UNCHANGED <<phase, repoVars, ignoredNow>>
        /\ restorePaths' = StagedPaths \cup UnstagedPaths \cup UntrackedFiles
    BY <1>4 DEF CaptureEvidence
  <2>2. StagedPaths' = StagedPaths
    BY <2>1 DEF StagedPaths, Head
  <2>3. ASSUME NEW p \in Nested, p \in restorePaths' PROVE newDir
    BY <1>o, <2>1, <2>3, HeadFacts, PathFacts
       DEF Ordinary, StagedPaths, UnstagedPaths, UntrackedFiles, Others
  <2> QED
    BY <1>o, <2>1, <2>2, <2>3 DEF Ordinary
<1>5. CASE EvidenceFails \/ CaptureFails \/ RestoreFails \/ VerifyFails
  BY <1>5 DEF EvidenceFails, CaptureFails, RestoreFails, VerifyFails
<1>6. CASE ScanInventory
  <2>1. /\ pc = "scan" /\ pc' = "sealing" /\ UNCHANGED <<phase, repoVars, ignoredNow, baseline>>
        /\ created' = newDir /\ restorePaths' = restorePaths \cup InventoryChangedPaths(baseline, disk)
    BY <1>o, <1>6 DEF ScanInventory, CreatedDirectories, Ordinary
  <2>2. StagedPaths' = StagedPaths
    BY <2>1 DEF StagedPaths, Head
  <2>3. ASSUME NEW p \in Nested, p \in restorePaths' PROVE newDir
    BY <1>o, <2>1, <2>3 DEF Ordinary, InventoryChangedPaths, BeginInv, AtBase
  <2> QED
    BY <1>o, <2>1, <2>2, <2>3 DEF Ordinary
<1>7. CASE SealInventoryPaths \/ AssertSealedPathsCurrent \/ BuildCanonicalPatch
  <2>1. /\ pc \in {"sealing", "check", "build"} /\ pc' \in {"check", "build", "tracked"}
        /\ UNCHANGED <<phase, repoVars, ignoredNow, baseline, created, restorePaths, left>>
    BY <1>7 DEF SealInventoryPaths, AssertSealedPathsCurrent, BuildCanonicalPatch
  <2>2. StagedPaths' = StagedPaths
    BY <2>1 DEF StagedPaths, Head
  <2>3. disk = left
    BY <1>o, <2>1 DEF CaptureInv
  <2> QED
    BY <1>o, <2>1, <2>2, <2>3 DEF Ordinary
<1>k. /\ pc \in Restoring => /\ AtBase(baseline) /\ after = left
                             /\ InventoryChangedPaths(baseline, left) \subseteq restorePaths
                             /\ touched = IgnoredChanges /\ baselineIgnored = Cached
  BY <1>o, BaseIgnored DEF CaptureInv, After, Restoring, BeginInv
<1>8. CASE RestoreTracked
  <2>1. /\ pc = "tracked" /\ pc' = "new"
        /\ UNCHANGED <<phase, newDir, metadata, ignoredNow, baseline, created, restorePaths, left>>
        /\ disk' = [p \in Paths |-> IF p \in restorePaths \cap Tracked THEN baseline[p] ELSE disk[p]]
        /\ index' = [p \in Paths |-> IF p \in restorePaths \cap Tracked THEN Head[p] ELSE index[p]]
    BY <1>8 DEF RestoreTracked
  <2>2. disk = left /\ AtBase(baseline) /\ InventoryChangedPaths(baseline, left) \subseteq restorePaths
    BY <1>k, <1>o, <2>1 DEF Restoring, Ordinary
  <2>3. \A p \in Paths : disk'[p] = IF p \in Tracked THEN baseline[p] ELSE left[p]
    BY <2>1, <2>2 DEF InventoryChangedPaths
  <2>4. \A p \in Paths : index'[p] = Head[p]
    BY <1>o, <2>1, HeadFacts DEF Ordinary, StagedPaths
  <2>5. index' = Head
    BY <2>1, <2>4, HeadFacts
  <2>6. \A p \in Paths : disk'[p] # "link"
    <3>1. \A p \in Tracked : baseline[p] # "link"
      BY <2>2 DEF AtBase, Blob
    <3> QED
      BY <1>o, <2>2, <2>3, <3>1 DEF Ordinary
  <2>7. \A p \in Nested : disk'[p] # "none" => newDir'
    BY <1>o, <2>1, <2>2, <2>3, PathFacts DEF Ordinary
  <2> QED
    BY <1>o, <2>1, <2>3, <2>5, <2>6, <2>7, HeadFacts DEF Ordinary, Head
<1>9. CASE RemoveNewFiles
  <2>1. /\ pc = "new" /\ UNCHANGED <<baseline, captureVars, historyVars, newDir, metadata>>
        /\ index' = [p \in Paths |-> IF p \in UntrackedNew THEN "none" ELSE index[p]]
    BY <1>9, RemoveNewFilesFacts
  <2>2. /\ AtBase(baseline) /\ InventoryChangedPaths(baseline, left) \subseteq restorePaths
        /\ UntrackedNew = restorePaths \ (Tracked \cup Cached) /\ UntrackedNew \subseteq Paths
    BY <1>k, <2>1 DEF Restoring, UntrackedNew, TypeOK
  <2>3. ~\E p \in UntrackedNew : disk[p] = "link" \/ (p \in Nested /\ ~newDir)
    BY <1>o, <2>1, <2>2 DEF Ordinary
  <2>4. /\ pc' = "ignored" /\ UNCHANGED phase
        /\ disk' = [p \in Paths |-> IF p \in UntrackedNew THEN baseline[p] ELSE disk[p]]
    BY <1>9, <2>3, RemoveNewFilesFacts
  <2>5. \A p \in Paths : disk'[p] = IF p \in Cached THEN left[p] ELSE baseline[p]
    BY <1>o, <2>1, <2>2, <2>4, PathFacts DEF Ordinary, InventoryChangedPaths
  <2>6. \A p \in Paths : index'[p] = Head[p]
    BY <1>o, <2>1, <2>2, HeadFacts DEF Ordinary
  <2>7. index' = Head
    BY <2>1, <2>6, HeadFacts
  <2>8. \A p \in Paths : disk'[p] # "link"
    <3>1. \A p \in Paths : baseline[p] # "link"
      BY <2>2 DEF AtBase, Blob, Paths
    <3> QED
      BY <1>o, <2>4, <3>1 DEF Ordinary
  <2>9. \A p \in Nested : disk'[p] = "none"
    BY <2>2, <2>5, PathFacts DEF AtBase
  <2> QED
    BY <1>o, <2>1, <2>4, <2>5, <2>7, <2>8, <2>9, HeadFacts DEF Ordinary, Head
<1>10. CASE RestoreIgnored
  <2>1. pc = "ignored" /\ UNCHANGED <<baseline, captureVars, historyVars, newDir, metadata, index>>
    BY <1>10, RestoreIgnoredFacts
  <2>2. /\ AtBase(baseline) /\ after = left /\ touched = IgnoredChanges /\ baselineIgnored = Cached
        /\ \A p \in Paths : disk[p] = IF p \in Cached THEN left[p] ELSE baseline[p]
    BY <1>k, <1>o, <2>1 DEF Restoring, Ordinary
  <2>3. ASSUME NEW p \in IgnoredToRestore PROVE disk[p] # "link" /\ (p \in Nested => newDir)
    <3>1. p \in Paths
      BY IgnoredFacts DEF IgnoredToRestore, TypeOK
    <3>2. p \in Nested => p \in ignoredNow \/ p \in IgnoredFiles
      BY <2>2, PathFacts DEF IgnoredToRestore, IgnoredChanges
    <3>3. p \in Nested => p \notin IgnoredFiles
      BY <2>2, <3>1, PathFacts DEF IgnoredFiles, Others, AtBase
    <3> QED
      BY <1>o, <2>1, <3>1, <3>2, <3>3 DEF Ordinary
  <2>4. /\ pc' = "directories" /\ UNCHANGED phase
        /\ disk' = [p \in Paths |-> IF p \in IgnoredToRestore THEN baseline[p] ELSE disk[p]]
    BY <1>10, <2>3, RestoreIgnoredFacts
  <2>5. ASSUME NEW p \in Paths PROVE disk'[p] = baseline[p]
    <3>1. CASE p \in IgnoredToRestore \/ p \notin Cached
      BY <2>2, <2>4, <3>1
    <3>2. CASE p \notin IgnoredToRestore /\ p \in Cached
      <4>1. p \notin touched
        BY <3>2 DEF IgnoredToRestore
      <4>2. left[p] = baseline[p]
        BY <2>2, <3>2, <4>1 DEF IgnoredChanges, InventoryChangedPaths
      <4> QED
        BY <2>2, <2>4, <3>2, <4>2
    <3> QED
      BY <3>1, <3>2
  <2>6. disk' = baseline
    BY <2>4, <2>5 DEF TypeOK, Files
  <2>7. /\ \A p \in Paths : baseline[p] # "link"
        /\ \A p \in Nested : baseline[p] = "none"
    BY <2>2 DEF AtBase, Blob, Paths
  <2> QED
    BY <1>o, <2>1, <2>4, <2>6, <2>7, HeadFacts DEF Ordinary, Head
<1>11. CASE RemoveCreatedDirectories
  <2>1. pc = "directories"
    BY <1>11 DEF RemoveCreatedDirectories
  <2>2. disk = baseline /\ \A p \in Nested : disk[p] = "none"
    BY <1>k, <1>o, <2>1 DEF Restoring, Ordinary, AtBase
  <2>3. /\ pc' = "assert" /\ newDir' = (newDir /\ ~created)
        /\ UNCHANGED <<phase, disk, index, metadata, baseline>>
    BY <1>11, <2>2 DEF RemoveCreatedDirectories
  <2>4. ~newDir'
    BY <1>o, <2>1, <2>3 DEF Ordinary
  <2> QED
    BY <1>o, <2>1, <2>2, <2>3, <2>4, HeadFacts DEF Ordinary, Head
<1>12. CASE AssertRestored
  <2>1. pc = "assert" /\ UNCHANGED <<disk, index, newDir, metadata>>
    BY <1>12 DEF AssertRestored
  <2>2. Restored
    BY <1>k, <1>o, <2>1, BaseRestored DEF Restoring, Ordinary
  <2>3. pc' \in {"done", "verify"} /\ phase' # "orphaned"
    BY <1>12, <1>o, <2>2 DEF AssertRestored, Ordinary
  <2> QED
    BY <1>o, <2>1, <2>3 DEF Ordinary
<1>13. CASE VerifyCanonicalPatch \/ Close
  BY <1>o, <1>13 DEF VerifyCanonicalPatch, Close, Ordinary
<1>14. CASE UNCHANGED vars
  <2>1. StagedPaths' = StagedPaths /\ Head' = Head
    BY <1>14 DEF vars, StagedPaths, Head
  <2> QED
    BY <1>o, <1>14, <2>1 DEF vars, Ordinary
<1> QED
  BY <1>w, <1>1, <1>2, <1>3, <1>4, <1>5, <1>6, <1>7, <1>8, <1>9, <1>10, <1>11, <1>12, <1>13, <1>14
     DEF Next, Agent, Capture, Restore, AgentWrites

LEMMA SealStep ==
  TypeOK /\ PlainInv /\ SealInv /\ [Next]_vars => SealInv'
<1> SUFFICES ASSUME TypeOK, PlainInv, SealInv, [Next]_vars PROVE SealInv'
  OBVIOUS
<1>b. (plain' => plain) /\ (metadata' => metadata) /\ (late' = 0 => late = 0)
  BY PlainBackwards
<1>w. CASE AgentWrites
  <2>1. /\ UNCHANGED <<phase, pc>> /\ pc \in Capturing \cup {"agent"}
        /\ late' = 0 => late = 0 /\ pc = "agent"
    BY <1>w, AgentWritesFacts
  <2> QED
    BY <1>b, <2>1 DEF SealInv
<1> USE DEF repoVars, captureVars, historyVars, Step, CaptureError, Ended, Continue, OrphanNow
<1>1. CASE Begin \/ AgentEnds \/ Close
  BY <1>b, <1>1 DEF Begin, AgentEnds, Close, SealInv
<1>2. CASE AssertMetadataSeal
  BY <1>b, <1>2 DEF AssertMetadataSeal, SealInv
<1>3. CASE EvidenceFails \/ CaptureFails \/ RestoreFails \/ VerifyFails
  BY <1>b, <1>3 DEF EvidenceFails, CaptureFails, RestoreFails, VerifyFails, SealInv
<1>4. CASE \/ CaptureEvidence \/ ScanInventory \/ SealInventoryPaths
           \/ AssertSealedPathsCurrent \/ BuildCanonicalPatch
  BY <1>b, <1>4 DEF CaptureEvidence, ScanInventory, SealInventoryPaths,
     AssertSealedPathsCurrent, BuildCanonicalPatch, SealInv
<1>5. CASE RemoveNewFiles
  BY <1>b, <1>5, RemoveNewFilesFacts DEF SealInv
<1>6. CASE RestoreIgnored
  BY <1>b, <1>6, RestoreIgnoredFacts DEF SealInv
<1>7. CASE RestoreTracked \/ RemoveCreatedDirectories \/ AssertRestored \/ VerifyCanonicalPatch
  BY <1>b, <1>7 DEF RestoreTracked, RemoveCreatedDirectories, AssertRestored, VerifyCanonicalPatch,
     SealInv
<1>8. CASE UNCHANGED vars
  BY <1>8 DEF vars, SealInv
<1> QED
  BY <1>w, <1>1, <1>2, <1>3, <1>4, <1>5, <1>6, <1>7, <1>8
     DEF Next, Agent, Capture, Restore, AgentWrites

-------------------------------------------------------------------------------
(* Theorems *)

LEMMA InitEstablishes == Init => TransactionInv
<1> SUFFICES ASSUME Init PROVE TransactionInv
  OBVIOUS
<1>c. PICK c \in {"base", "perm", "edit"} :
        disk = [p \in Paths |-> CASE p = GitIgnore -> "base"
                                  [] p \in Tracked \ {GitIgnore} -> c
                                  [] p \in Cached -> "base"
                                  [] OTHER -> "none"]
  BY DEF Init
<1> DEFINE First(p) == CASE p = GitIgnore -> "base"
                         [] p \in Tracked \ {GitIgnore} -> c
                         [] p \in Cached -> "base"
                         [] OTHER -> "none"
<1>1. disk = [p \in Paths |-> First(p)]
  BY <1>c
<1>f. ASSUME NEW p \in Paths
      PROVE  /\ First(p) \in Contents /\ First(p) # "link"
             /\ p = GitIgnore => First(p) = "base"
             /\ p \in Cached => First(p) = "base"
             /\ p \in Logs \cup Nested => First(p) = "none"
  <2>1. CASE p = GitIgnore
    BY <2>1, PathFacts DEF Contents
  <2>2. CASE p # GitIgnore /\ p \in Tracked
    BY <2>2, PathFacts DEF Contents
  <2>3. CASE p # GitIgnore /\ p \notin Tracked /\ p \in Cached
    BY <2>3, PathFacts DEF Contents
  <2>4. CASE p # GitIgnore /\ p \notin Tracked /\ p \notin Cached
    BY <2>4 DEF Contents
  <2> QED
    BY <2>1, <2>2, <2>3, <2>4
<1> HIDE DEF First
<1>2. \A p \in Paths : /\ disk[p] # "link"
                       /\ p = GitIgnore => disk[p] = "base"
                       /\ p \in Cached => disk[p] = "base"
                       /\ p \in Logs \cup Nested => disk[p] = "none"
  BY <1>1, <1>f
<1>3. disk \in Files
  BY <1>1, <1>f DEF Files
<1>i. /\ phase = "new" /\ pc = "begin" /\ outcome = "none" /\ index = Head
      /\ baseline = disk /\ after = disk /\ left = disk /\ atCheck = disk
      /\ ignoredNow = {} /\ restorePaths = {} /\ touched = {} /\ since = {}
      /\ patch = [p \in Paths |-> "same"] /\ writes = 0 /\ late = 0
  BY DEF Init
<1>b. /\ newDir \in BOOLEAN /\ metadata \in BOOLEAN /\ created \in BOOLEAN /\ failed \in BOOLEAN
      /\ plain \in BOOLEAN
  BY DEF Init
<1>4. TypeOK
  BY <1>3, <1>i, <1>b, HeadFacts, BoundAssumption DEF TypeOK, Steps
<1>5. BeginInv
  <2>1. /\ disk[GitIgnore] = "base" /\ \A p \in Cached : disk[p] = "base"
        /\ \A p \in Logs \cup Nested : disk[p] = "none"
    BY <1>2, PathFacts
  <2>2. \A p \in Paths : after[p] # "link"
    BY <1>2, <1>i
  <2> QED
    BY <1>i, <2>1, <2>2 DEF BeginInv
<1>6. EndInv /\ CaptureInv /\ LateInv
  BY DEF Init, EndInv, CaptureInv, LateInv, After, Restoring
<1>7. PlainInv
  BY <1>2, PathFacts, HeadFacts DEF Init, PlainInv, Ordinary
<1>8. SealInv
  BY DEF Init, SealInv
<1> QED
  BY <1>4, <1>5, <1>6, <1>7, <1>8 DEF TransactionInv

LEMMA TransactionInvariant == Spec => []TransactionInv
<1>1. TransactionInv /\ [Next]_vars => TransactionInv'
  BY TypeStep, BeginStep, EndStep, CaptureStep, LateStep, PlainStep, SealStep DEF TransactionInv
<1> QED
  BY <1>1, InitEstablishes, PTL DEF Spec

\* The records of a transaction keep their types: no path outside the repository enters the
\* restore, and the patch never carries a symbolic link (WorkspaceTransaction, _scan_inventory).
THEOREM TransactionTyped == Spec => []TypeOK
BY TransactionInvariant, PTL DEF TransactionInv

\* However many files the Agent wrote, staged, ignored or hid, and whatever wrote during the
\* capture, a transaction that does not orphan the workspace has put back the files, the
\* index and the directories (capture_and_restore, _assert_restored).
THEOREM RestoreIsExact == Spec => []RestoredExactly
<1>1. TransactionInv => RestoredExactly
  BY DEF TransactionInv, EndInv, RestoredExactly
<1> QED
  BY <1>1, TransactionInvariant, PTL

\* The returned patch takes the base to exactly the worktree the Agent left, for any set of
\* paths and any .gitignore in force (build_canonical_patch, _verify_canonical_patch).
THEOREM CaptureIsExact == Spec => []CapturedExactly
<1>1. TransactionInv => CapturedExactly
  <2> SUFFICES ASSUME TransactionInv, outcome = "returned", late = 0 PROVE Applied(baseline) = left
    BY DEF CapturedExactly
  <2>1. /\ patch = CanonicalPatch /\ touched = IgnoredChanges /\ Reproduced /\ after = left
        /\ InventoryChangedPaths(baseline, after) \subseteq restorePaths
    BY DEF TransactionInv, CaptureInv, After
  <2> QED
    BY <2>1, ReplayIsExact DEF TransactionInv
<1> QED
  BY <1>1, TransactionInvariant, PTL

\* A process that escaped its group and writes while the capture runs is either caught by
\* the seal, or its write is in the patch, or it is to a file the base commit ignores
\* (_assert_sealed_paths_current, _restore).
THEOREM LateWritesCaught == Spec => []LateWriteCaught
<1>1. TransactionInv => LateWriteCaught
  <2> SUFFICES ASSUME TransactionInv, outcome = "returned", "check" \notin since,
                      NEW p \in Paths \ Ignores(baseline[GitIgnore])
               PROVE  Applied(baseline)[p] = atCheck[p]
    BY DEF LateWriteCaught
  <2>1. /\ patch = CanonicalPatch /\ touched = IgnoredChanges /\ Reproduced
        /\ InventoryChangedPaths(baseline, after) \subseteq restorePaths
        /\ \A q \in restorePaths : atCheck[q] = after[q]
    BY DEF TransactionInv, CaptureInv, After
  <2>2. Applied(baseline)[p] = after[p]
    BY <2>1, ReplayIsExact DEF TransactionInv
  <2>3. ~failed
    BY DEF TransactionInv, EndInv
  <2>4. CASE p \in restorePaths
    BY <2>1, <2>2, <2>4
  <2>5. CASE p \notin restorePaths
    <3>1. after[p] = baseline[p]
      BY <2>1, <2>5 DEF InventoryChangedPaths
    <3>2. atCheck[p] = baseline[p]
      BY <2>3, <2>5 DEF TransactionInv, LateInv
    <3> QED
      BY <2>2, <3>1, <3>2
  <2> QED
    BY <2>4, <2>5
<1> QED
  BY <1>1, TransactionInvariant, PTL

\* An Agent that only edits regular files and stages only tracked paths, any number of times and
\* in any order, costs the session its workspace exactly when it staged content that was no Git
\* object yet: the object-covering seal is then broken and the capture orphans the workspace at
\* once; without such a staging nothing the Agent did can make the restore fail
\* (capture_and_restore, _restore, _git_metadata_digest).
THEOREM OrdinaryAgentsRecover == Spec => []OrdinaryEditsRecover
<1>1. TransactionInv => OrdinaryEditsRecover
  <2> SUFFICES ASSUME TransactionInv PROVE OrdinaryEditsRecover
    OBVIOUS
  <2>1. plain /\ metadata /\ late = 0 => phase # "orphaned"
    BY DEF TransactionInv, PlainInv, Ordinary
  <2>2. plain /\ ~metadata /\ late = 0 => (phase = "orphaned" <=> pc = "done")
    BY DEF TransactionInv, SealInv
  <2> QED
    BY <2>1, <2>2 DEF OrdinaryEditsRecover
<1> QED
  BY <1>1, TransactionInvariant, PTL
=============================================================================
