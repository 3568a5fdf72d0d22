----------------------------- MODULE Broadcast ------------------------------
(***************************************************************************)
(* What the hub promises the dashboards that are connected to it: a client *)
(* sees the events published after it joined, in the order they were       *)
(* published and without a gap, up to the moment it is cut off.            *)
(***************************************************************************)
EXTENDS Naturals, Sequences

CONSTANTS
    Client, Event,
    NotYet      \* no number

VARIABLES
    log,    \* the events published so far
    from,   \* how many of them were published before the client joined
    got     \* the events the client has seen

vars == <<log, from, got>>

Init ==
    /\ log = <<>>
    /\ from = [c \in Client |-> NotYet]
    /\ got = [c \in Client |-> <<>>]

Publish(e) == log' = Append(log, e) /\ UNCHANGED <<from, got>>

Join(c) ==
    /\ from[c] = NotYet
    /\ from' = [from EXCEPT ![c] = Len(log)]
    /\ UNCHANGED <<log, got>>

(* The next event this client has not seen.                                *)
See(c) ==
    /\ from[c] # NotYet
    /\ LET n == from[c] + Len(got[c]) + 1
       IN  n <= Len(log) /\ got' = [got EXCEPT ![c] = Append(@, log[n])]
    /\ UNCHANGED <<log, from>>

Next ==
    \/ \E e \in Event : Publish(e)
    \/ \E c \in Client : Join(c) \/ See(c)

Spec == Init /\ [][Next]_vars
=============================================================================
