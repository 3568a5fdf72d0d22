\* Three calls on the balances of a merchant and a provider, one fault.
SPECIFICATION Spec
CONSTANTS
    Op = {o1, o2, o3}
    Merchant = {m1}
    Provider = {p1}
    Amount = {1, 2}
    MaxFaults = 1
INVARIANTS TypeOK MerchantNeverNegative BooksBalance
CHECK_DEADLOCK FALSE
