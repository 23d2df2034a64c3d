SPECIFICATION Spec
CONSTANTS
  Tracked = {file, gitignore}
  GitIgnore = gitignore
  Cached = {cache}
  Logs = {log}
  Nested = {nested}
  MaxWrites = 3
  MaxLate = 2
INVARIANTS RestoredExactly CapturedExactly LateWriteCaught OrdinaryEditsRecover
CHECK_DEADLOCK FALSE
