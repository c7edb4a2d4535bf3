SPECIFICATION Spec
CONSTANTS
    p1 = p1
    p2 = p2
    r1 = r1
    r2 = r2
    u1 = u1
    u2 = u2
    Pkgs = {p1, p2}
    Revs = {r1, r2}
    Usns = {u1, u2}
    Affects <- MCAffects
    Scanners = {a}
    Recorders = {a}
    Scopes <- AllOrOne
    Replies = {"sent", "declined", "raised", "raised_late"}
    SameFs = FALSE
    SteadyListing = FALSE
    Offered = {"unlisted", "usable", "mute", "broken", "fatal"}
    MaxChanges = 3
    MaxFaults = 2
    MaxLetters = 4
INVARIANT OneLetterPerFault
