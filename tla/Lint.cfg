SPECIFICATION Spec
CHECK_DEADLOCK FALSE
CONSTANTS
    Yamls <- MCYamls
    Names <- MCNames
    BaseSides <- MCBaseSides
    Attributes <- MCAttributes
    Required <- MCRequired
    Conflicting <- MCConflicting
    Daemons = {"simple", "dbus"}
    DaemonOptions = {"daemon", "bus-name", "timer", "after", "before"}
    CliOptions = {"autostart"}
    OtherOptions = {"command", "aliases", "environment", "command-chain", "plugs", "slots"}
    HookOptions = {"environment", "command-chain", "plugs", "slots"}
    WellNamed = {"app1", "app2", "hook", "a1"}
    Files = {"run"}
    Blanks = {" "}
    BrowserVetted = {"vetted"}
    ShadowVetted <- MCShadowVetted
INVARIANTS
    RaisesOnFlaw
    ReferencesResolve
    ReadingsAgree
    NoConflict
    DbusDaemonsServed
    ActivatableWarned
    BrowserSupportReported
