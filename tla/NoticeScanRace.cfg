SPECIFICATION Spec
CONSTANTS
    p1 = p1
    p2 = p2
    r1 = r1
    r2 = r2
    u1 = u1
    u2 = u2
    Pkgs = {p1, p2}
    Revs = {r1}
    Usns = {u1, u2}
    Affects <- OneRevision
    Scanners = {a, b}
    Recorders = {a, b}
    Scopes <- AllOrOne
    Replies = {"sent", "declined", "raised", "raised_late"}
    SameFs = TRUE
    SteadyListing = FALSE
    Offered = {"unlisted", "usable", "broken"}
    MaxChanges = 3
    MaxFaults = 1
    MaxLetters = 2
INVARIANT RecordedWasReported
