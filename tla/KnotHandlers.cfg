\* Two requests or sessions, at the same time or one after the other, the firehose, failures and restarts.
CONSTANTS
    alice = alice
    bob = bob
    core = core
    glob = glob
    Dids = {alice, bob}
    Domains = {thisserver}
    RepoNames = {core, glob}
    Matches <- KnotMatches
    ThisServer = thisserver
    Http = {h1, h2}
    Firehose = firehose
    None = None
SYMMETRY HttpSymmetry
SPECIFICATION FoundedSpec
CONSTRAINT FewRepos
INVARIANTS
    TypeOK
    
    RolesChain
    OnlyKnown
    KnownIsWanted
    
PROPERTIES
    OwnersFixed
    ServesInOrder
