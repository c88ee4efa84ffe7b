\* One process and two bundles, with up to two crashes, errors and edits.
SPECIFICATION FairSpec
CONSTANTS
    Procs = {p1}
    NoProc = NoProc
    Bundles = {b1, b2}
    NoBundle = NoBundle
    Skills = {"s1"}
    V1Homes <- MCHomes
    MaxMishaps = 2
INVARIANTS
    BackupsComplete
    Reversible
PROPERTIES
    RollbackRestores
    MemoryNeverLost
    LockReleased
