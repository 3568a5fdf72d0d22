\* One deposit, one webhook and one status post, one fault and one crash, under the
\* server's fairness.
SPECIFICATION FairSpec
CONSTANTS
    r1 = r1  r2 = r2
    k1 = k1  NoKey = NoKey  None = None
    major = major  p911 = p911
    Request = {r1}
    Key = {k1}
    KeyOf <- NoKeys
    Identified = {r1}
    Callable = {r1}
    SerialClients = FALSE
    Provider = {p911, major}
    Kind <- KindOf
    Hook = {h1}
    HookEvent = {"payment.success", "canceled"}
    Post = {q1}
    PostStatus = {"PAID", "NEW"}
    BatchLimit = 1
    MaxFaults = 1
    MaxCrashes = 1

PROPERTIES FollowsLifecycle FinalStaysFinal WaitingEnds UpdateIsReported
CHECK_DEADLOCK FALSE
