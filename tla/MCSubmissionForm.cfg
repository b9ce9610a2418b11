CONSTANTS
    f1 = f1
    f2 = f2
    c1 = c1
    c2 = c2
    Files = {f1}
    Cases = {c1, c2}
    NoCase = NoCase
    MaxForms = 2
    MaxSubmits = 2
    MaxOverlaps = 0
    Expiry = TRUE
SPECIFICATION Spec
CHECK_DEADLOCK FALSE
SYMMETRY Symmetry
INVARIANTS
    SubmittedComplete
    SubmittedAsShown
    AttachmentsKept
    SubmittedOnce
    TextGoesWhereAsked
