\* Two probers, two clients with one key, files that change.
SPECIFICATION Spec
CONSTANTS
  Clients = {codex, agy}
  Texts = {t1, t2}
  MaxUpsets = 2
  Probers = {q1, q2}
  Keys = {k1, k2}
  NoKey = NoKey
SYMMETRY Symmetry
INVARIANTS TypeOK SealsStay GivenIsCurrent
