SPECIFICATION FairToOne
CONSTANTS
    a = a
    b = b
    d1 = d1
    d2 = d2
    Procs = {a, b}
    Dirs = {d1, d2}
    Tools <- ReviewAndAny
    UserCommons = {TRUE, FALSE}
    MaxAge = 0
    MaxKills = 1
    MaxStuck = 1
INVARIANTS
    NothingLeft
    TouchedIsKept
PROPERTY OneIsSwept
