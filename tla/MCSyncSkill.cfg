CONSTANTS
    Defs = {d1, d2}
    Texts = {t1, t2, t3}
    LinkModes = {"copy"}
    MaxEvents = 2
SPECIFICATION Spec
PROPERTY SkillEditsSurvive
SYMMETRY Symmetry
