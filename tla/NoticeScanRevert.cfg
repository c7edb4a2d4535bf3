SPECIFICATION Spec
CONSTANTS
    p1 = p1
    p2 = p2
    r1 = r1
    r2 = r2
    u1 = u1
    u2 = u2
    Pkgs = {p1, p2}
    Revs = {r1, r2}
    Usns = {u1, u2}
    Affects <- MCAffects
    Scanners = {a}
    Recorders = {a}
    Scopes <- AllPkgs
    Replies = {"sent"}
    SameFs = TRUE
    SteadyListing = FALSE
    Offered = {"unlisted", "usable", "mute"}
    MaxChanges = 5
    MaxFaults = 0
    MaxLetters = 1
INVARIANT CleanExitInformed
