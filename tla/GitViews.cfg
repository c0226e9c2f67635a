\* Two repositories that share a history of four commits with a merge, two pushes,
\* two requests; ints of four bits.
CONSTANTS
    a = a
    b = b
    d = d
    dx = dx
    core = core
    fork = fork
    main = main
    dev = dev
    v1 = v1
    Repos = {core, fork}
    Commits = {1, 2, 3, 4}
    Parents <- History4
    Files = {a, b, dx}
    Tree <- Tree4
    Entries <- Entries4
    Below <- Below4
    Selects <- Selects4
    Branches = {main, dev}
    TagNames = {v1}
    Default = main
    Views = {1, 2}
    Pages = {0, 1, 2, 5}
    PageSizes = {1, 3}
    MaxInt = 7
    MaxPushes = 2
    Root = Root
    None = None
SYMMETRY RepoSymmetry
SPECIFICATION Spec
INVARIANTS
    TypeOK
    ListingIsTrue
    LastCommitExplains
    LogIsWhole
