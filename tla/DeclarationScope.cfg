SPECIFICATION Spec
CHECK_DEADLOCK FALSE
CONSTANTS
    BaseDecls <- MCBaseDecls
    SnapDecls <- ScopedDecls
    Devices <- MCDevices
    Snaps <- MCSnaps
    Numbers = {}
    Reserved = {"i1"}
    Vetted = {}
    Unused = "unused"
INVARIANT OutOfScopeUsesBase
