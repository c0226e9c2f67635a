\* One knot is being registered while a repository is created on another.
CONSTANTS
    alice = alice
    bob = bob
    knot1 = knot1
    knot2 = knot2
    Founded = {knot1}
    Dids = {alice, bob}
    Domains = {knot1, knot2}
    RepoNames = {"core"}
    Matches <- OwnName
    Requests = {r1, r2, r3}
    MaxInFlight = 2
    DefaultKnot = knot2
    Ops = {"RegistrationKey", "InitKnotServer", "AddMember", "Login", "NewRepo", "AddCollaborator"}
    KnotCodes = {"204", "409", "err"}
    MayCrash = FALSE
    None = None
SYMMETRY RequestSymmetry
SPECIFICATION FoundedSpec
INVARIANTS
    OwnersAreMembers
