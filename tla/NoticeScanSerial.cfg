SPECIFICATION Spec
CONSTANTS
    p1 = p1
    p2 = p2
    r1 = r1
    r2 = r2
    u1 = u1
    u2 = u2
    Pkgs = {p1, p2}
    Revs = {r1, r2}
    Usns = {u1, u2}
    Affects <- MCAffects
    Scanners = {a}
    Recorders = {a}
    Scopes <- AllOrOne
    Replies = {"sent", "declined"}
    SameFs = TRUE
    SteadyListing = TRUE
    Offered = {"unlisted", "usable", "mute"}
    MaxChanges = 5
    MaxFaults = 0
    MaxLetters = 2
INVARIANTS
    TypeOK
    CleanExitInformed
    NeverNagged
PROPERTIES
    KeepsPromise
    ScopeRespected
    ForgetsOnlyDeparted
