SPECIFICATION Spec
CONSTANTS
  i = i
  j = j
  x = x
  y = y
  Absent = Absent
  Partial = Partial
  Handler = {"h1", "h2"}
  Id = {i, j}
  Sequence = {x, y}
  InitialFiles <- MCInitialFiles
  FlushOutcome = {TRUE, FALSE}
  IoOutcome = {TRUE, FALSE}
INVARIANT
  SavedIsOnDisk
