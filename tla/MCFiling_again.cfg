SPECIFICATION Spec
CONSTANTS
    None = None
    Currencies <- CurrencyNames
    Directives <- Names
    Facts <- Data
    Accounts <- AccountNames
    Files <- ThreeFiles
    Order <- Ascending
    Window <- NoWindow
    Spaced <- Nowhere
    Inputs <- TransfersOfBoth
    Flags <- WriteOnly
    InitialDisk <- EmptyDisk
    MaxRuns = 2
CHECK_DEADLOCK FALSE
INVARIANT ReRunsAreIdempotent
