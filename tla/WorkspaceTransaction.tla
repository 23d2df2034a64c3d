------------------------- MODULE WorkspaceTransaction -------------------------
(***************************************************************************)
(* One WorkspaceTransaction over the shared repository of a session          *)
(* (workspace/transaction.py, git_manager.py, secure_file.py): begin records  *)
(* the clean workspace, an Agent edits it, capture_and_restore turns what it  *)
(* left into a canonical patch, puts the workspace back and replays the patch *)
(* in a fresh clone before it returns it.                                    *)
(*                                                                         *)
(* A process of the Agent may have escaped its group and still write while    *)
(* the capture runs; every action below is one pass over the repository, and  *)
(* such a write may land between any two of them.                            *)
(***************************************************************************)
EXTENDS Naturals, FiniteSets

CONSTANTS Tracked,      \* paths of the base commit, all with content "base"
          GitIgnore,    \* the one of them that holds the ignore patterns
          Cached,       \* ignored files that exist before the task
          Logs,         \* ignored paths that do not
          Nested,       \* untracked paths in a directory that does not exist yet
          MaxWrites, MaxLate   \* bounds: steps of the Agent; of them, during the capture

ASSUME PathAssumption == /\ GitIgnore \in Tracked
                         /\ Tracked \cap (Cached \cup Logs \cup Nested) = {}
                         /\ Cached \cap (Logs \cup Nested) = {} /\ Logs \cap Nested = {}
ASSUME BoundAssumption == MaxWrites \in Nat /\ MaxLate \in Nat

VARIABLES phase, pc, outcome,
          disk, index,     \* the worktree and the real Git index
          newDir,          \* the directory of Nested exists
          metadata,        \* .git apart from the index is as begin sealed it
          baseline,        \* _baseline_inventory
          ignoredNow,      \* current_state.ignored_files
          restorePaths, created, touched,   \* restore_paths, created_directories, ignored_touched
          after,           \* the inventory of the capture
          failed,          \* capture_error is not None
          patch,           \* path -> the content the patch gives it, or "same"
          writes, late,    \* history: steps of the Agent; of them, during the capture
          left, atCheck,   \* history: the worktree the Agent left; at the last check of the seal
          since,           \* history: the Agent wrote after "check", after "assert"
          plain            \* history: regular files only, only tracked paths staged, no I/O error

repoVars == <<disk, index, newDir, metadata>>
captureVars == <<ignoredNow, restorePaths, created, touched, after, failed, patch>>
historyVars == <<writes, late, left, atCheck, since, plain>>
vars == <<phase, pc, outcome, repoVars, baseline, captureVars, historyVars>>

Paths == Tracked \cup Cached \cup Logs \cup Nested

\* "perm" is "base" with permission bits that Git does not keep, "link" a symbolic link.
Contents == {"none", "base", "edit", "perm", "link"}
Files == [Paths -> Contents]
Steps == {"begin", "agent", "seal", "evidence", "scan", "sealing", "check", "build", "tracked",
          "new", "ignored", "directories", "assert", "verify", "raised", "done"}
Capturing == Steps \ {"begin", "agent", "raised", "done"}

TypeOK ==
  /\ phase \in {"new", "active", "closed", "orphaned"} /\ pc \in Steps
  /\ outcome \in {"none", "returned", "error", "orphaned", "raised"}
  /\ disk \in Files /\ baseline \in Files /\ after \in Files /\ left \in Files /\ atCheck \in Files
  /\ index \in [Paths -> {"none", "base", "edit", "link"}]
  /\ newDir \in BOOLEAN /\ metadata \in BOOLEAN /\ created \in BOOLEAN /\ failed \in BOOLEAN
  /\ ignoredNow \subseteq Paths /\ restorePaths \subseteq Paths /\ touched \subseteq Paths
  /\ patch \in [Paths -> {"same", "none", "base", "edit"}]
  /\ writes \in 0 .. MaxWrites /\ late \in 0 .. MaxLate /\ since \subseteq {"check", "assert"}
  /\ plain \in BOOLEAN

-----------------------------------------------------------------------------
\* What Git sees.

\* The blob of a file: its bytes and its executable bit.
Blob(c) == IF c = "perm" THEN "base" ELSE c

Head == [p \in Paths |-> IF p \in Tracked THEN "base" ELSE "none"]

\* The edited .gitignore hides Nested and no longer hides Cached and Logs.
Ignores(c) == CASE Blob(c) = "base" -> Cached \cup Logs
                [] c = "edit" -> Nested
                [] OTHER -> {}

\* ls-files --others: with --ignored, and without.
Others == {p \in Paths : disk[p] # "none" /\ index[p] = "none"}
IgnoredFiles == Others \cap Ignores(disk[GitIgnore])
UntrackedFiles == Others \ Ignores(disk[GitIgnore])

StagedPaths == {p \in Paths : index[p] # Head[p]}
UnstagedPaths == {p \in Paths : index[p] # "none" /\ index[p] # Blob(disk[p])}
Dirty == StagedPaths \cup UnstagedPaths \cup UntrackedFiles # {}

Init ==
  /\ phase = "new" /\ pc = "begin" /\ outcome = "none"
  /\ \E c \in {"base", "perm", "edit"} :
       disk = [p \in Paths |-> CASE p = GitIgnore -> "base"
                                 [] p \in Tracked \ {GitIgnore} -> c
                                 [] p \in Cached -> "base"
                                 [] OTHER -> "none"]
  /\ index = Head /\ newDir = FALSE /\ metadata = TRUE
  /\ baseline = disk /\ after = disk /\ left = disk /\ atCheck = disk
  /\ ignoredNow = {} /\ restorePaths = {} /\ created = FALSE /\ touched = {} /\ failed = FALSE
  /\ patch = [p \in Paths |-> "same"]
  /\ writes = 0 /\ late = 0 /\ since = {} /\ plain = TRUE

-----------------------------------------------------------------------------
\* begin

\* begin refuses a dirty workspace, and otherwise pins what the restore must reach.
Begin ==
  /\ pc = "begin"
  /\ \/ Dirty /\ phase' = phase /\ pc' = "raised" /\ outcome' = "raised" /\ baseline' = baseline
     \/ ~Dirty /\ phase' = "active" /\ pc' = "agent" /\ baseline' = disk /\ outcome' = outcome
  /\ UNCHANGED <<repoVars, captureVars, historyVars>>

baselineIgnored == {p \in Paths : baseline[p] # "none"} \cap Ignores(baseline[GitIgnore])

-----------------------------------------------------------------------------
\* The Agent, and what escaped of it.

MayWrite ==
  /\ writes < MaxWrites /\ writes' = writes + 1
  /\ \/ pc = "agent" /\ late' = late
     \/ pc \in Capturing /\ late < MaxLate /\ late' = late + 1
  /\ since' = since \cup (IF pc \in {"build", "tracked", "new", "ignored", "directories", "assert"}
                          THEN {"check"} ELSE {})
                    \cup (IF pc = "verify" THEN {"check", "assert"} ELSE {})
  /\ UNCHANGED <<phase, pc, outcome, baseline, captureVars, left, atCheck>>

Write(p, c) ==
  /\ MayWrite /\ c # disk[p]
  /\ disk' = [disk EXCEPT ![p] = c] /\ newDir' = (newDir \/ p \in Nested)
  /\ plain' = (plain /\ c # "link") /\ UNCHANGED <<index, metadata>>

\* git add -f, or git rm --cached.  A blob that no object holds yet becomes a new object,
\* and the seal covers the objects.
Stage(p) ==
  /\ MayWrite /\ index[p] # Blob(disk[p])
  /\ index' = [index EXCEPT ![p] = Blob(disk[p])]
  /\ metadata' = (metadata /\ Blob(disk[p]) \in {"none", "base"})
  /\ plain' = (plain /\ p \in Tracked) /\ UNCHANGED <<disk, newDir>>

RemoveNewDirectory ==
  /\ MayWrite /\ newDir /\ \A p \in Nested : disk[p] = "none"
  /\ newDir' = FALSE /\ UNCHANGED <<disk, index, metadata, plain>>

\* A commit, a branch, a hook, the configuration.
Tamper ==
  /\ MayWrite /\ metadata /\ metadata' = FALSE
  /\ plain' = FALSE /\ UNCHANGED <<disk, index, newDir>>

AgentEnds ==
  /\ pc = "agent" /\ pc' = "seal" /\ left' = disk
  /\ UNCHANGED <<phase, outcome, repoVars, baseline, captureVars, writes, late, atCheck, since, plain>>

-----------------------------------------------------------------------------
\* capture_and_restore: the capture.  An error in it never skips the restore.

Step(from, to) == pc = from /\ pc' = to /\ UNCHANGED <<phase, outcome>>
CaptureError == failed' = TRUE /\ pc' = "tracked" /\ UNCHANGED <<phase, outcome>>
Ended(ph, result) == phase' = ph /\ outcome' = result /\ pc' = "done"

\* The control metadata first: nothing is captured or restored under a changed .git.
AssertMetadataSeal ==
  /\ pc = "seal"
  /\ \/ ~metadata /\ Ended("orphaned", "orphaned") /\ ignoredNow' = ignoredNow
     \/ metadata /\ Step("seal", "evidence") /\ ignoredNow' = IgnoredFiles
  /\ UNCHANGED <<repoVars, baseline, restorePaths, created, touched, after, failed, patch, historyVars>>

CaptureEvidence ==
  /\ Step("evidence", "scan")
  /\ restorePaths' = StagedPaths \cup UnstagedPaths \cup UntrackedFiles
  /\ touched' = baselineIgnored \cup ignoredNow
  /\ UNCHANGED <<repoVars, baseline, ignoredNow, created, after, failed, patch, historyVars>>

\* Git or the file system fails before the capture proper: the error leaves the
\* transaction active, and the caller's close marks it closed.
EvidenceFails ==
  /\ pc \in {"seal", "evidence"} /\ pc' = "raised" /\ outcome' = "raised" /\ plain' = FALSE
  /\ UNCHANGED <<phase, repoVars, baseline, captureVars, writes, late, left, atCheck, since>>

InventoryChangedPaths(before, now) == {p \in Paths : before[p] # now[p]}

CreatedNever == FALSE
CreatedDirectories == newDir

ScanInventory ==
  /\ pc = "scan"
  /\ created' = CreatedDirectories
  /\ \/ /\ \E p \in Paths : disk[p] = "link"
        /\ CaptureError /\ UNCHANGED <<after, restorePaths>>
     \/ /\ \A p \in Paths : disk[p] # "link"
        /\ Step("scan", "sealing") /\ after' = disk /\ failed' = failed
        /\ restorePaths' = restorePaths \cup InventoryChangedPaths(baseline, disk)
  /\ UNCHANGED <<repoVars, baseline, ignoredNow, touched, patch, historyVars>>

IgnoredChanges == (baselineIgnored \cup ignoredNow) \cap InventoryChangedPaths(baseline, after)

SealInventoryPaths ==
  /\ pc = "sealing"
  /\ \/ /\ \E p \in restorePaths : after[p] # "none" /\ disk[p] # after[p]
        /\ CaptureError /\ touched' = touched
     \/ /\ \A p \in restorePaths : after[p] = "none" \/ disk[p] = after[p]
        /\ Step("sealing", "check") /\ failed' = failed /\ touched' = IgnoredChanges
  /\ UNCHANGED <<repoVars, baseline, ignoredNow, restorePaths, created, after, patch, historyVars>>

SealedPathsTrusted == TRUE
SealedPathsCurrent == \A p \in restorePaths : disk[p] = after[p]

AssertSealedPathsCurrent ==
  /\ pc = "check" /\ atCheck' = disk
  /\ \/ ~SealedPathsCurrent /\ CaptureError
     \/ SealedPathsCurrent /\ Step("check", "build") /\ failed' = failed
  /\ UNCHANGED <<repoVars, baseline, ignoredNow, restorePaths, created, touched, after, patch,
                 writes, late, left, since, plain>>

\* The two trees between which git diff makes the patch, in an index and an object store of
\* their own: the base commit with the touched ignored files, and that with what was sealed.
BaselineTree == [p \in Paths |-> IF p \in touched \cap baselineIgnored THEN Blob(baseline[p]) ELSE Head[p]]
CapturedTree == [p \in Paths |-> IF p \in restorePaths THEN Blob(after[p]) ELSE BaselineTree[p]]
CanonicalPatch == [p \in Paths |-> IF CapturedTree[p] = BaselineTree[p] THEN "same" ELSE CapturedTree[p]]

\* A file that the patch adds and the inventory already had is recorded as modified, and its
\* preimage is looked for in the base commit, which does not have it.
PreimageMissing == \E p \in Paths : /\ CanonicalPatch[p] # "same" /\ BaselineTree[p] = "none"
                                    /\ baseline[p] # "none"

BuildCanonicalPatch ==
  /\ pc = "build" /\ patch' = CanonicalPatch
  /\ \/ PreimageMissing /\ CaptureError
     \/ ~PreimageMissing /\ Step("build", "tracked") /\ failed' = failed
  /\ UNCHANGED <<repoVars, baseline, ignoredNow, restorePaths, created, touched, after, historyVars>>

\* A limit, a forbidden path, a credential, an I/O error, at any point of the capture.
CaptureFails ==
  /\ pc \in {"scan", "sealing", "check", "build"} /\ CaptureError
  /\ created' \in {created, newDir} /\ plain' = FALSE
  /\ UNCHANGED <<repoVars, baseline, ignoredNow, restorePaths, touched, after, patch,
                 writes, late, left, atCheck, since>>

-----------------------------------------------------------------------------
\* capture_and_restore: the restore.

OrphanNow == /\ Ended("orphaned", "orphaned")
             /\ UNCHANGED <<baseline, captureVars, historyVars>>
Continue(from, to) == Step(from, to) /\ UNCHANGED <<baseline, captureVars, historyVars>>

\* git restore --staged --worktree, then the mode of the inventory.
RestoreTracked ==
  /\ Continue("tracked", "new")
  /\ disk' = [p \in Paths |-> IF p \in restorePaths \cap Tracked THEN baseline[p] ELSE disk[p]]
  /\ index' = [p \in Paths |-> IF p \in restorePaths \cap Tracked THEN Head[p] ELSE index[p]]
  /\ UNCHANGED <<newDir, metadata>>

\* The pinned root removes or replaces regular files only, under a parent that is there.
Removable(p) == disk[p] # "link" /\ (p \in Nested => newDir)
Replaceable(p) == disk[p] # "link"

\* Put the paths of S back, or stop at the first that cannot be handled.
PutBack(S, from, to) ==
  LET possible == {p \in S : IF p \in baselineIgnored THEN Replaceable(p) ELSE Removable(p)}
      Back(T) == [p \in Paths |-> IF p \in T THEN baseline[p] ELSE disk[p]]
  IN  \/ S = possible /\ disk' = Back(S) /\ Continue(from, to)
      \/ S # possible /\ pc = from /\ (\E T \in SUBSET possible : disk' = Back(T)) /\ OrphanNow

UntrackedNew == restorePaths \ (Tracked \cup baselineIgnored)

RemoveNewFiles ==
  /\ PutBack(UntrackedNew, "new", "ignored")
  /\ index' = [p \in Paths |-> IF p \in UntrackedNew THEN "none" ELSE index[p]]
  /\ UNCHANGED <<newDir, metadata>>

IgnoredToRestore == IF touched # {} THEN touched
                    ELSE (IgnoredFiles \ baselineIgnored) \cup (baselineIgnored \ IgnoredFiles)

RestoreIgnored ==
  /\ PutBack(IgnoredToRestore, "ignored", "directories")
  /\ UNCHANGED <<index, newDir, metadata>>

RemoveCreatedDirectories ==
  /\ \/ created /\ newDir /\ (\E p \in Nested : disk[p] # "none")
        /\ pc = "directories" /\ OrphanNow /\ newDir' = newDir
     \/ ~(created /\ newDir /\ \E p \in Nested : disk[p] # "none")
        /\ Continue("directories", "assert") /\ newDir' = (newDir /\ ~created)
  /\ UNCHANGED <<disk, index, metadata>>

\* git, an open or an unlink fails.
RestoreFails ==
  /\ pc \in {"tracked", "new", "ignored", "directories", "assert"}
  /\ Ended("orphaned", "orphaned") /\ plain' = FALSE
  /\ UNCHANGED <<repoVars, baseline, captureVars, writes, late, left, atCheck, since>>

RestoredFiles == metadata /\ disk = baseline /\ ~newDir
Restored == /\ metadata /\ ~Dirty /\ IgnoredFiles = baselineIgnored
            /\ index = Head /\ disk = baseline /\ ~newDir

AssertRestored ==
  /\ pc = "assert"
  /\ \/ ~Restored /\ Ended("orphaned", "orphaned")
     \/ Restored /\ failed /\ Ended("closed", "error")
     \/ Restored /\ ~failed /\ Step("assert", "verify")
  /\ UNCHANGED <<repoVars, baseline, captureVars, historyVars>>

\* The replay: a clone of the base commit with the preimages of the touched ignored files
\* must be the state before, and with the patch applied the state after.
Project(files) == LET excluded == (baselineIgnored \cup ignoredNow) \ touched
                  IN  [p \in Paths |-> IF p \in excluded THEN "none" ELSE files[p]]
ReplayBaseline == [p \in Paths |-> IF p \in touched \cap baselineIgnored THEN baseline[p] ELSE Head[p]]
Applied(files) == [p \in Paths |-> IF patch[p] = "same" THEN files[p] ELSE patch[p]]

ReplayTrusted == TRUE
Reproduced ==
  IF \A p \in Paths : patch[p] = "same"
  THEN Project(baseline) = Project(after)
  ELSE ReplayBaseline = Project(baseline) /\ Applied(ReplayBaseline) = Project(after)

VerifyCanonicalPatch ==
  /\ pc = "verify" /\ Ended("closed", IF Reproduced THEN "returned" ELSE "error")
  /\ UNCHANGED <<repoVars, baseline, captureVars, historyVars>>

VerifyFails ==
  /\ pc = "verify" /\ plain' = FALSE
  /\ Ended("closed", "error") \/ Ended("orphaned", "orphaned")
  /\ UNCHANGED <<repoVars, baseline, captureVars, writes, late, left, atCheck, since>>

\* close, in the finally of both callers.
Close ==
  /\ pc = "raised" /\ pc' = "done"
  /\ phase' = IF phase \in {"new", "active"} THEN "closed" ELSE phase
  /\ UNCHANGED <<outcome, repoVars, baseline, captureVars, historyVars>>

Agent == \/ \E p \in Paths, c \in Contents : Write(p, c)
         \/ \E p \in Paths : Stage(p)
         \/ RemoveNewDirectory \/ Tamper \/ AgentEnds
Capture == \/ AssertMetadataSeal \/ CaptureEvidence \/ EvidenceFails \/ ScanInventory
           \/ SealInventoryPaths \/ AssertSealedPathsCurrent \/ BuildCanonicalPatch \/ CaptureFails
Restore == \/ RestoreTracked \/ RemoveNewFiles \/ RestoreIgnored \/ RemoveCreatedDirectories
           \/ RestoreFails \/ AssertRestored \/ VerifyCanonicalPatch \/ VerifyFails

Next == Begin \/ Agent \/ Capture \/ Restore \/ Close
Spec == Init /\ [][Next]_vars

-----------------------------------------------------------------------------
\* Properties

\* capture_and_restore that ends without orphaning the workspace, with a result or with an
\* error, has put back every file, the index and the directories, whatever was staged,
\* ignored, hidden or late; only a write that lands after the restore was checked escapes it.
RestoredExactly ==
  outcome \in {"returned", "error"} /\ "assert" \notin since =>
    disk = baseline /\ index = Head /\ ~newDir /\ metadata

\* The patch that is returned takes the restored workspace to exactly what the Agent left,
\* ignored files, deletions and a changed .gitignore included, when nothing wrote later.
CapturedExactly ==
  outcome = "returned" /\ late = 0 => Applied(baseline) = left

\* A write during the capture is in the returned patch if it was on the disk when the sealed
\* paths were compared for the last time; files that the base commit ignores and that appear
\* after the inventory are the exception, because the restore clears them unseen.
LateWriteCaught ==
  outcome = "returned" /\ "check" \notin since =>
    \A p \in Paths \ Ignores(baseline[GitIgnore]) : Applied(baseline)[p] = atCheck[p]

\* An Agent that only writes, deletes and chmods regular files, and stages nothing but tracked
\* paths, costs the session its workspace exactly when it staged content that was no Git object
\* yet, which git add of an edited file does: the seal of a write task covers the objects.  It
\* may edit whatever else it likes, stage deletions and the base content, and unstage again: the
\* capture then ends in a result or in a plain error and the workspace stays in use.
OrdinaryEditsRecover ==
  plain /\ late = 0 => (phase = "orphaned" <=> pc = "done" /\ ~metadata)
=============================================================================
