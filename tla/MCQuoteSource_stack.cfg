SPECIFICATION FairSpec
CONSTANTS
    Currencies = {"u", "v"}
    Rates <- MCRates
    Window = 1
    Options <- MCOptions
    Requests <- MCRequests
    PerCall = 1
    BatchSize = 2
    Burst = 1
    MaxAttempts = 2
    Slots = 2
    None = None
    MaxCalls = 2
CHECK_DEADLOCK FALSE
INVARIANTS TypeOK PricesAreTrue QuotesAreComplete
PROPERTIES EveryQuoteReturns
