\* A client that repeats its key after a failed request.
SPECIFICATION Spec
CONSTANTS
    r1 = r1  r2 = r2
    k1 = k1  NoKey = NoKey  None = None
    major = major  p911 = p911
    Request = {r1, r2}
    Key = {k1}
    KeyOf <- OneKey
    Identified = {r1}
    Callable = {r1}
    SerialClients = TRUE
    Provider = {p911}
    Kind <- KindOf
    Hook = {}
    HookEvent = {"success"}
    Post = {}
    PostStatus = {"PAID"}
    BatchLimit = 1
    MaxFaults = 1
    MaxCrashes = 0
INVARIANTS RepeatReturnsSameTransaction
CHECK_DEADLOCK FALSE
