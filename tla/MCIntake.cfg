CONSTANTS
    h1 = h1
    h2 = h2
    h3 = h3
    ann = ann
    bob = bob
    f1 = f1
    f2 = f2
    Handlers = {h1, h2, h3}
    People = {ann, bob}
    Files = {f1, f2}
    Forms <- MCForms
    Codes = {"A", "B", "C"}
    MaxYear = 2
SPECIFICATION Spec
SYMMETRY Symmetric
CHECK_DEADLOCK FALSE
INVARIANTS
    TicketsRunOn
    AllOrNothing
    RepliesReachTheAuthor
    AnonymousNamesNobody
