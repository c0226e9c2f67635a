\* One request at a time; every write, commit, save and reload may fail; a crash between any two steps.
CONSTANTS
    alice = alice
    bob = bob
    knot1 = knot1
    knot2 = knot2
    Founded = {knot1}
    Dids = {alice, bob}
    Domains = {knot1}
    RepoNames = {"core"}
    Matches <- OwnName
    Requests = {r1, r2, r3, r4, r5}
    MaxInFlight = 1
    DefaultKnot = knot1
    Ops = {"RegistrationKey", "InitKnotServer", "AddMember", "Login", "NewRepo", "AddCollaborator"}
    KnotCodes = {"204", "409", "err", "other"}
    MayCrash = TRUE
    None = None
SYMMETRY RequestSymmetry
SPECIFICATION Spec
INVARIANTS
    AclBackedByRow
    RollbackIsComplete
    CommittedIsSaved
