CONSTANTS
    s1 = s1
    s2 = s2
    Subs = {1, 2, 3, 4}
    TypeOf <- Mixed
    PerPage = 1
    Old <- Stray
    Outcomes <- Others
    Slots = {s1, s2}
    MaxClicks = 3
SPECIFICATION RegistrySpec
SYMMETRY Symmetric
CHECK_DEADLOCK FALSE
INVARIANTS
    PassSeesAll
    OnlyOwnTypes
    OwnActionShown
