\* Three requests in any order, two repositories, failures of every call and crashes.
CONSTANTS
    alice = alice
    bob = bob
    core = core
    docs = docs
    Users = {alice, bob}
    Repos = {core, docs}
    RepoOwner <- AliceOwns
    Collaborators <- BobHelps
    CommentIds = {1}
    Requests = {t1, t2, t3}
    MaxNumber = 3
    None = None
SYMMETRY RequestSymmetry
SPECIFICATION Spec
INVARIANTS
    TypeOK
    IssueNumbers
    IssueAtOwn
    NoDanglingRecord
    AnsweredIsWhole
    ClosedIsRecorded
