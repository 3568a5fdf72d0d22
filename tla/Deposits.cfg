\* Two deposits with one idempotency key, the second a repeat by a serial client,
\* over either integration; one webhook delivery, one fault and one crash.
SPECIFICATION Spec
CONSTANTS
    r1 = r1  r2 = r2
    k1 = k1  NoKey = NoKey  None = None
    major = major  p911 = p911
    Request = {r1, r2}
    Key = {k1}
    KeyOf <- OneKey
    Identified = {r1}
    Callable = {r1}
    SerialClients = TRUE
    Provider = {major, p911}
    Kind <- KindOf
    Hook = {h1}
    HookEvent = {"payment.expired", "success"}
    Post = {}
    PostStatus = {"PAID"}
    BatchLimit = 1
    MaxFaults = 1
    MaxCrashes = 1

INVARIANTS SerialRepeatIsSafe TypeOK OrderedIsAssigned NotifiedOncePerUpdate DroppedOnlyUnlinked NewIsBeingRouted
CHECK_DEADLOCK FALSE
