\* Two dashboards, four events, channels that hold one: the
\* fourth caller finds the broadcast buffer full when a client blocks the hub.
SPECIFICATION FairSpec
CONSTANTS
    Client = {c1, c2}
    Publisher = {1, 2, 3, 4}
    BroadcastBuffer = 1
    ClientBuffer = 1
    NotYet = NotYet
INVARIANTS TypeOK NoPanic
PROPERTIES KeepsPromise BroadcastReturns GoneIsForgotten
CHECK_DEADLOCK FALSE
