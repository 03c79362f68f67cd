SPECIFICATION Spec
CONSTANTS
    Uids = {u1, u2, u3}
    Names = {admin, n1}
    Bootstrap = admin
    Projects = {default, p1}
    Default = default
    NoUser = NoUser
    NoName = NoName
    MaxFaults = 2
SYMMETRY Symmetry
CHECK_DEADLOCK FALSE
INVARIANTS
    NamesFindUsers
    MembersHaveAccess
    IndexIsComplete
PROPERTIES
    ImplementsRegistry
