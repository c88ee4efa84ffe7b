\* Two commands for one project, with kills and edits.
SPECIFICATION FairSpec
CONSTANTS
  Procs = {p1, p2}
  NoProc = NoProc
  Projects = {j1}
  Payloads = {x1, x2}
  MaxTime = 2
  MaxUpsets = 2
INVARIANT TypeOK
PROPERTIES KeepsItsPromise RepeatWritesNothing TimeGoesForward CallsEnd
