\* Two processes and two bundles, with at most one crash, error or edit.
SYMMETRY Symmetry
SPECIFICATION Spec
CONSTANTS
    Procs = {p1, p2}
    NoProc = NoProc
    Bundles = {b1, b2}
    NoBundle = NoBundle
    Skills = {"s1"}
    V1Homes <- MCHomes
    MaxMishaps = 1
INVARIANTS
    TypeOK
    OneMutator
    DriftNeverApplied
PROPERTIES
    MovedFaithfully
