\* A disputed transaction and two bulk requests that lock the same providers in
\* opposite orders; one fault, one crash, the server's fairness.
SPECIFICATION FairSpec
CONSTANTS
    w1 = w1  w2 = w2  a1 = a1  g1 = g1  g2 = g2  t1 = t1  x1 = x1  x2 = x2
    None = None
    Webhook = {w1}
    Admin = {}
    Toggle = {g1, g2}
    Tx = {t1}
    Of <- SameTx
    Provider = {x1, x2}
    ProviderOf <- FirstProvider
    Linked = {t1}
    Addressed = {x1}
    Plan <- Opposite
    Enables = {g2}
    Verdict = {"CLOSED"}
    Deposit = {}
    MaxAttempts = 4
    MaxFaults = 1
    MaxCrashes = 1
INVARIANTS TypeOK AllOrNothing
PROPERTIES KeepsBlocking OnlyHolderWrites SessionsEnd DisputeIsReported
CHECK_DEADLOCK FALSE
