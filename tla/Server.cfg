\* One user of one trader; three requests of any kind, one fault, one stop and a
\* schema of three files of which two share a number.
SPECIFICATION FairSpec
CONSTANTS
    init = init  six = six  twin = twin  u1 = u1  c1 = c1
    None = None
    File = {init, six, twin}
    Version <- Versions
    Base = init
    Creates = {init, twin}
    User = {u1}
    Link <- Links
    Casino = {c1}
    Trader = {c1}
    Request = {1, 2, 3}
    Issued = {i1}
    Required = 2
    Openings = {1, 2}
    Sums <- Amounts
    Limit = 2
    MaxFaults = 1
    MaxCrashes = 1
    MaxChanges = 1
    MaxEvents = 1
    Images <- Deployed

INVARIANTS TypeOK OnlyDuplicatesAreSkipped ServedFilesDoNotRunAgain OneTokenPerLogin LogoutEndsSession HeldTokensWork ClaimsAreCurrent OnlyInsuredTraders TopUpsCount NeverOverReserved
PROPERTIES ServesAgain
CHECK_DEADLOCK FALSE
