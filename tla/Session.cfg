\* Four requests of one browser; a pair of tokens lives one tick, so that the browser
\* may be at its third pair when time is up.
CONSTANTS
    Requests = {1, 2, 3, 4}
    Life = 1
    MaxTime = 5
    None = None
SPECIFICATION Spec
INVARIANTS
    TypeOK
    CookieIsLive
    LogoutHolds
