SPECIFICATION Spec
CONSTANTS
  c1 = c1  w1 = w1  c2 = c2  d1 = d1  x1 = x1
  l1 = l1  l2 = l2  l3 = l3  l4 = l4  l5 = l5
  u = u  v = v
  Procs = {p1, p2}
  Repos = {c1, w1}
  Folders = {}
  Externals = {}
  Places = {l1, l2}
  Remotes = {u}
  MainOf <- SmallMainOf
  RemotesOf <- SmallRemotesOf
  Home <- SmallHome
  MaxProjects = 2
  MaxCalls = 2
  MaxUpsets = 0
INVARIANT SimultaneousRegistrationsConverge
CHECK_DEADLOCK FALSE
