SPECIFICATION Spec
CONSTANTS
    a1 = a1
    a2 = a2
    f1 = f1
    f2 = f2
    f3 = f3
    m = m
    s = s
    v = v
    w = w
    Archs = {a1, a2}
    Files = {f1, f2, f3}
    Metadata = {m}
    Symbols = {s}
    Values = {v, w}
    Skipped = {f3}
    Reviews <- MCReviews
INVARIANTS
    TypeOK
    DriftReported
    KeptIsQuiet
    CleanExitWrites
    StatusCoversAll
PROPERTY RecordsOnlyReviewed
