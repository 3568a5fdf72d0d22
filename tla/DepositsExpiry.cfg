\* The expiry job against one webhook that reports a payment.
SPECIFICATION Spec
CONSTANTS
    r1 = r1  r2 = r2
    k1 = k1  NoKey = NoKey  None = None
    major = major  p911 = p911
    Request = {r1}
    Key = {k1}
    KeyOf <- NoKeys
    Identified = {r1}
    Callable = {r1}
    SerialClients = FALSE
    Provider = {p911}
    Kind <- KindOf
    Hook = {h1}
    HookEvent = {"success"}
    Post = {}
    PostStatus = {"PAID"}
    BatchLimit = 1
    MaxFaults = 0
    MaxCrashes = 0
PROPERTIES OnlyWaitingExpires
CHECK_DEADLOCK FALSE
