SPECIFICATION Spec
CHECK_DEADLOCK FALSE
CONSTANTS
    BaseDecls <- MCBaseDecls
    SnapDecls <- MCSnapDecls
    Devices <- MCDevices
    Snaps <- MCSnaps
    Numbers = {"4"}
    Reserved = {"i1"}
    Vetted = {}
    Unused = "unused"
INVARIANTS
    OnlySnapDeclarationConsulted
    OutOfScopeIsBase
    AlternativesAreOr
    AddedAttributeStillFlagged
    ReservedNamesVetted
    RaisesOnlyInScope
