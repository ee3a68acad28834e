SPECIFICATION Spec
CONSTANTS
    Key = {k1, k2, k3}
    Caller = {c1, c2}
    None = None
    Cost = 2
    Full = 4
    Refill = 1
    Capacity = 2
    MaxLag = 1
    MaxTime = 4
SYMMETRY Symmetry
INVARIANTS
    RateBounded
    NoDebt
    WithinCapacity
    OneLinePerSpell
