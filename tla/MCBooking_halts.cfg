SPECIFICATION Spec
CONSTANTS
    Accounts <- MCAccounts
    Currencies <- MCCurrencies
    Labels <- MCLabels
    None = None
    MaxTransactions = 3
    Ledgers <- MCLedgers
INVARIANT InputNeverHalts
