\* Two webhooks about one transaction, no faults: do both open a dispute?
SPECIFICATION Spec
CONSTANTS
    w1 = w1  w2 = w2  a1 = a1  g1 = g1  g2 = g2  t1 = t1  x1 = x1  x2 = x2
    None = None
    Webhook = {w1, w2}
    Admin = {}
    Toggle = {}
    Tx = {t1}
    Of <- SameTx
    Provider = {x1, x2}
    ProviderOf <- FirstProvider
    Linked = {t1}
    Addressed = {x1}
    Plan <- Opposite
    Enables = {}
    Verdict = {"CLOSED"}
    Deposit = {}
    MaxAttempts = 4
    MaxFaults = 0
    MaxCrashes = 0
INVARIANTS OneOpenDispute
CHECK_DEADLOCK FALSE
