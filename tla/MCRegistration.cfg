SPECIFICATION Spec
CONSTANTS
  c1 = c1  w1 = w1  c2 = c2  d1 = d1  x1 = x1
  l1 = l1  l2 = l2  l3 = l3  l4 = l4  l5 = l5
  u = u  v = v
  Procs = {p1}
  Repos = {c1, w1, c2}
  Folders = {d1}
  Externals = {x1}
  Places = {l1, l2, l3, l4, l5}
  Remotes = {u, v}
  MainOf <- MCMainOf
  RemotesOf <- MCRemotesOf
  Home <- MCHome
  MaxProjects = 3
  MaxCalls = 3
  MaxUpsets = 3
INVARIANTS TypeOK SuccessMeansReady RollbackExact BindingsExclusive
PROPERTIES KnownRepositoryKeepsItsProject NotesKept
CHECK_DEADLOCK FALSE
