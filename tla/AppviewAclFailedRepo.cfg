\* The knot answers repo/new with a failure that is neither an error nor 409.
CONSTANTS
    alice = alice
    bob = bob
    knot1 = knot1
    knot2 = knot2
    Founded = {knot1}
    Dids = {alice, bob}
    Domains = {knot1, knot2}
    RepoNames = {"core"}
    Matches <- OwnName
    Requests = {r1}
    MaxInFlight = 1
    DefaultKnot = knot2
    Ops = {"RegistrationKey", "InitKnotServer", "AddMember", "Login", "NewRepo", "AddCollaborator"}
    KnotCodes = {"204", "409", "err", "other"}
    MayCrash = FALSE
    None = None
SYMMETRY RequestSymmetry
SPECIFICATION FoundedSpec
INVARIANTS
    RowOnKnot
