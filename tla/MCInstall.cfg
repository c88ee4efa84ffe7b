\* Two processes, two projects, and two things that happen outside of the commands.
SYMMETRY Symmetry
SPECIFICATION Spec
CONSTANTS
  Procs = {p1, p2}
  NoProc = NoProc
  Projects = {j1, j2}
  MaxUpsets = 2
INVARIANTS TypeOK OneAtATime ReadyMeansReady UndisturbedSucceeds
PROPERTIES ProjectsStay
