SPECIFICATION Spec
CHECK_DEADLOCK FALSE
CONSTANTS
    None = None
    AutoKernel = AutoKernel
    Scans <- MCScans
    Samples <- MCSamples
    Codename <- MCCodename
    SnapRelease <- MCSnapRelease
    Tracked = {"xenial", "bionic"}
    TrackedNonLts = {"hirsute"}
    Unmatched <- MCUnmatched
    PackageVersion <- MCPackageVersion
    Ignored = {"headers"}
INVARIANTS
    VersionsOrdered
    NoticesAreExact
    NothingUnprimed
    EpochOfBinary
    AbiDecides
    ReleaseHasGrounds
    FileReportNamesAll
    LetterListsNew
