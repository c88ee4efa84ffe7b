CONSTANTS
    Defs = {d1, d2}
    Texts = {t1, t2}
    LinkModes = {"copy", "symlink"}
    MaxEvents = 2
SPECIFICATION Spec
INVARIANTS
    TypeOK
    QuietSyncsConverge
PROPERTIES
    EditsSurviveSync
    ResolveSettles
SYMMETRY Symmetry
