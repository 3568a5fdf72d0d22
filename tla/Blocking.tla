------------------------------ MODULE Blocking ------------------------------
(***************************************************************************)
(* What disputes, the traffic switch and the router promise to those who   *)
(* do not see their statements, locks and goroutines: a dispute and the    *)
(* block of its provider are one step, and so is a switch of many          *)
(* providers; a deposit is given a provider that is open for traffic at    *)
(* that moment; and the provider is told of a dispute that is there, a few *)
(* times, until it answers.                                                *)
(***************************************************************************)
EXTENDS Naturals

CONSTANTS
    Filing, Blocks,             \* disputes, and the provider each one blocks
    Toggle, Moves, Enables,     \* switches, the providers they move, those that enable
    Provider, Deposit,
    Active, Verdict,            \* the statuses of an active dispute, those given by an admin
    Told, Limit,                \* the disputes whose provider is told, and how often at most
    None

VARIABLES
    disputes,
    traffic, active,    \* the providers with traffic on, and with status ACTIVE
    record,             \* who moved which provider's traffic
    chosen, routed,     \* the provider of a deposit, and the deposits that got theirs
    attempts, answered

providers == <<traffic, active, record>>
deposits == <<chosen, routed>>
calls == <<attempts, answered>>
vars == <<disputes, providers, deposits, calls>>

Open == {x \in traffic \cap active :
            \A f \in Filing : Blocks[f] = x => disputes[f] \notin Active}

Init ==
    /\ disputes = [f \in Filing |-> None]
    /\ traffic = Provider /\ active = Provider /\ record = {}
    /\ chosen = [d \in Deposit |-> None] /\ routed = {}
    /\ attempts = [f \in Filing |-> 0] /\ answered = {}

File(f) ==
    /\ disputes[f] = None /\ Blocks[f] # None
    /\ disputes' = [disputes EXCEPT ![f] = "NEW"]
    /\ traffic' = traffic \ {Blocks[f]}
    /\ record' = record \cup {<<f, Blocks[f]>>}
    /\ UNCHANGED <<active, deposits, calls>>

(* An admin may reopen or resolve a dispute; its provider's traffic stays. *)
Settle(f, status) ==
    /\ disputes[f] # None
    /\ disputes' = [disputes EXCEPT ![f] = status]
    /\ UNCHANGED <<providers, deposits, calls>>

(* A request to switch is carried out once, for all of its providers.      *)
Switch(g) ==
    /\ \A x \in Provider : <<g, x>> \notin record
    /\ traffic' = IF g \in Enables THEN traffic \cup Moves[g] ELSE traffic \ Moves[g]
    /\ record' = record \cup ({g} \X Moves[g])
    /\ UNCHANGED <<disputes, active, deposits, calls>>

SetStatus(x) ==
    /\ active' \in {active \cup {x}, active \ {x}}
    /\ UNCHANGED <<disputes, traffic, record, deposits, calls>>

Choose(d) ==
    /\ chosen[d] = None
    /\ \E x \in Open : chosen' = [chosen EXCEPT ![d] = x]
    /\ UNCHANGED <<disputes, providers, routed, calls>>

(* Between the choice and this moment the provider may have been blocked.  *)
Confirm(d) ==
    /\ chosen[d] \in active
    /\ routed' = routed \cup {d}
    /\ UNCHANGED <<disputes, providers, chosen, calls>>

Tell(f) ==
    /\ f \in Told \ answered /\ disputes[f] # None /\ attempts[f] < Limit
    /\ attempts' = [attempts EXCEPT ![f] = @ + 1]
    /\ answered' \in {answered, answered \cup {f}}
    /\ UNCHANGED <<disputes, providers, deposits>>

Next ==
    \/ \E f \in Filing : File(f) \/ Tell(f) \/ \E status \in Verdict : Settle(f, status)
    \/ \E g \in Toggle : Switch(g)
    \/ \E x \in Provider : SetStatus(x)
    \/ \E d \in Deposit : Choose(d) \/ Confirm(d)

Spec == Init /\ [][Next]_vars
=============================================================================
