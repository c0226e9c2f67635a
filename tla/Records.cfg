\* Three requests of one user in any interleaving, one record of another client,
\* failures of every call, one of the ingester or its cursor, crashes and reconnects.
CONSTANTS
    alice = alice
    bob = bob
    core = core
    k1 = k1
    x1 = x1
    Users = {alice}
    Dids = {alice, bob}
    Repos = {core}
    Owner <- AliceOwns
    Keys = {k1}
    Requests = {1, 2, 3}
    Foreign = {x1}
    MaxActs = 3
    MaxFailures = 1
    None = None
SPECIFICATION Spec
INVARIANTS
    TypeOK
    NoGhost
    AnswerStands
    FollowsArrive
