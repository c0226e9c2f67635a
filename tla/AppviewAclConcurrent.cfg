\* Three requests at a time on a registered knot, every interleaving.
CONSTANTS
    alice = alice
    bob = bob
    knot1 = knot1
    knot2 = knot2
    Founded = {knot1}
    Dids = {alice, bob}
    Domains = {knot1, knot2}
    RepoNames = {"core", "[c]ore"}
    Matches <- Patterns
    Requests = {r1, r2, r3}
    MaxInFlight = 3
    DefaultKnot = knot2
    Ops = {"RegistrationKey", "InitKnotServer", "AddMember", "Login", "NewRepo", "AddCollaborator"}
    KnotCodes = {"204", "409", "err"}
    MayCrash = TRUE
    None = None
SYMMETRY RequestSymmetry
SPECIFICATION FoundedSpec
INVARIANTS
    TypeOK
    InviteChain
    AdmissionChain
    CreatorsAdmitted
