SPECIFICATION Spec
CONSTANTS
    None = None
    Currencies <- CurrencyNames
    Directives <- Names
    Facts <- Data
    Accounts <- AccountNames
    Files <- ThreeFiles
    Order <- Ascending
    Window <- NoWindow
    Spaced <- Nowhere
    Inputs <- PurchaseOfOne
    Flags <- WriteOnly
    InitialDisk <- EmptyDisk
    MaxRuns = 1
CHECK_DEADLOCK FALSE
INVARIANT EveryEventIsRecorded
