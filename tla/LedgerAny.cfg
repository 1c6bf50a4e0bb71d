CONSTANTS
    c1 = c1
    c2 = c2
    c3 = c3
    c4 = c4
    c5 = c5
    k1 = k1
    k2 = k2
    k3 = k3
    k4 = k4
    Call = {c1, c2, c3, c4, c5}
    Key = {k1, k2, k3, k4}
    AccountId <- MCAccountId
    Account <- MCAccount
    Currency <- MCCurrency
    CurrencyOf <- MCCurrencyOf
    NoAccount = NoAccount
    NoKey = NoKey
    NoCall = NoCall
    Workload <- AnyWorkload
SPECIFICATION FairSpec
INVARIANTS
    TypeOK
    NothingBeforeCommit
    SameAnswerPerKey
PROPERTIES
    EveryCallEnds
CHECK_DEADLOCK FALSE
