SPECIFICATION FairSpec
CONSTANTS
    p1 = p1
    p2 = p2
    r1 = r1
    r2 = r2
    u1 = u1
    u2 = u2
    Pkgs = {p1, p2}
    Revs = {r1}
    Usns = {u1}
    Affects <- OneNotice
    Scanners = {a, b}
    Recorders = {a}
    Scopes <- AllPkgs
    Replies = {"sent", "raised"}
    SameFs = TRUE
    SteadyListing = FALSE
    Offered = {"unlisted", "usable", "broken", "fatal"}
    MaxChanges = 3
    MaxFaults = 1
    MaxLetters = 1
PROPERTIES
    EventuallyRecorded
    ScanEnds
