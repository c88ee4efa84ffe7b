\* One process that is stopped once between giving the config its name and removing the
\* other one.
SPECIFICATION Spec
CONSTANTS
  Procs = {p1}
  NoProc = NoProc
  Projects = {j1}
  MaxUpsets = 1
INVARIANTS RepeatConverges
