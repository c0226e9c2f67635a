\* One init, and a restart.
CONSTANTS
    alice = alice
    bob = bob
    core = core
    glob = glob
    Dids = {alice, bob}
    Domains = {thisserver}
    RepoNames = {core}
    Matches <- KnotMatches
    ThisServer = thisserver
    Http = {h1}
    Firehose = firehose
    None = None
SYMMETRY HttpSymmetry
SPECIFICATION Spec
INVARIANT ClosedHasOwner
