CONSTANTS
    ann = ann
    bob = bob
    root = root
    o1 = o1
    o2 = o2
    o3 = o3
    NoUser = NoUser
    NoOp = NoOp
    Users = {ann, bob, root}
    Admins = {root}
    Ops = {o1, o2, o3}
SPECIFICATION Spec
SYMMETRY Symmetry
CHECK_DEADLOCK FALSE
PROPERTIES
    AnsweredByOwner
