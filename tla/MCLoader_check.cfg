SPECIFICATION Spec
CONSTANTS
    Accounts <- MCAccounts
    Currencies = {"u", "v"}
    Below <- MCBelow
    BalanceSheet <- MCBalanceSheet
    Income <- MCIncome
    Tags = {"virtual"}
    Malformed = Malformed
    Configs <- MCConfigs
    Files <- MCFiles
    Root = 1
    Items <- MCItems
    Disks <- MCDisks
    Registered = {"known"}
    Additions <- MCAdditions
    None = None
INVARIANTS TypeOK EveryIncludeIsLoaded AssertionsAreExact PaddedBalancesHold LifetimesAreRespected
    ClosedIsFinal ImpliedPricesAreCompared
