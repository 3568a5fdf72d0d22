\* A webhook and an admin dispute one transaction while a bulk request switches traffic on and
\* a deposit is routed; the provider may have no address; one fault.
SPECIFICATION Spec
CONSTANTS
    w1 = w1  w2 = w2  a1 = a1  g1 = g1  g2 = g2  t1 = t1  x1 = x1  x2 = x2
    None = None
    Webhook = {w1}
    Admin = {a1}
    Toggle = {g2}
    Tx = {t1}
    Of <- SameTx
    Provider = {x1, x2}
    ProviderOf <- FirstProvider
    Linked = {t1}
    Addressed = {}
    Plan <- Opposite
    Enables = {g2}
    Verdict = {"CLOSED", "UNDER_REVIEW"}
    Deposit = {d1}
    MaxAttempts = 2
    MaxFaults = 1
    MaxCrashes = 0
INVARIANTS BlockedIsNotRouted
PROPERTIES NoSecondDispute KeepsBlocking
CHECK_DEADLOCK FALSE
