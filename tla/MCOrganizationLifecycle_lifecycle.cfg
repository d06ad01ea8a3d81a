SPECIFICATION Spec
CONSTANTS
    o1 = o1
    o2 = o2
    r1 = r1
    r2 = r2
    r3 = r3
    r4 = r4
    None = None
    Org = {o1, o2}
    Founded = {o1}
    Request = {r1, r2, r3}
    MaxRestores = 2
SYMMETRY Requests
INVARIANTS
    TrailIsMinimal
PROPERTIES
    TombstoneHitsItsEpisode
    TombstoneHolds
CHECK_DEADLOCK FALSE
