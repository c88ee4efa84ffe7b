\* Two commands and the client, on the files of Codex and of agy.
SPECIFICATION Spec
CONSTANTS
  Procs = {p1, p2}
  Clients = {"codex", "agy"}
  Texts = {t1}
  Servers = {s1}
  MaxUpsets = 2
INVARIANTS TypeOK ReportsAreTrue PlanForetells
PROPERTIES NothingLostUnseen
SYMMETRY ProcSymmetry
