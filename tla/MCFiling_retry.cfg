SPECIFICATION Spec
CONSTANTS
    None = None
    Currencies <- CurrencyNames
    Directives <- Names
    Facts <- Data
    Accounts <- AccountNames
    Files <- ThreeFiles
    Order <- MixedOrder
    Window <- MixedWindow
    Spaced <- AllButThird
    Inputs <- MixedInputs
    Flags <- AllFlags
    InitialDisk <- EmptyDisk
    MaxRuns = 3
CHECK_DEADLOCK FALSE
INVARIANTS TypeOK NoEventLost ActiveOnce EventsStayActive ReRunsActivateNothing
