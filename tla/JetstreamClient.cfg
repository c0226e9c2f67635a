\* A knot's client and the appview's, two events, one failure, one restart.
CONSTANTS
    alice = alice
    bob = bob
    setup = setup
    init = init
    Dids = {alice, bob}
    Callers = {setup, init}
    Setup = setup
    Window = 1
    MaxEvents = 2
    MaxFailures = 1
    MaxRestarts = 1
    None = None
SPECIFICATION Spec
INVARIANTS
    TypeOK
    FreshSubscription
    HandledOnce
    
PROPERTIES
    CursorAdvances
    CatchesUp
    
    ServesInOrder
\* a client with nothing to read waits for ever
CHECK_DEADLOCK FALSE
