----------------------------- MODULE Lifecycle ------------------------------
(***************************************************************************)
(* What the server promises about a transaction, to those who see it from  *)
(* outside: until it is assigned only its request touches it, unless       *)
(* somebody posts a status for it; a provider is asked for an order only   *)
(* after the assignment, and the order's id is stored only when there is   *)
(* one; every update of the status may be told to the merchant once, and   *)
(* nothing else is told.                                                   *)
(***************************************************************************)
EXTENDS Naturals

CONSTANTS
    Transaction,
    Final,      \* the statuses that end a transaction
    Asked       \* the statuses a status post may ask for

VARIABLES
    status,
    routing,    \* the transactions whose request looks for a provider
    posted,     \* those for which somebody posted a status
    assigned, orders, linked, paid,     \* what has been done for a transaction
    updates,    \* how often it was given each final status
    told        \* how often the merchant was told

deeds == <<assigned, orders, linked, paid>>
counts == <<updates, told>>
vars == <<status, routing, posted, deeds, counts>>

Init ==
    /\ status = [t \in Transaction |-> "absent"]
    /\ routing = {} /\ posted = {} /\ assigned = {} /\ orders = {} /\ linked = {} /\ paid = {}
    /\ updates = [t \in Transaction |-> [s \in Final |-> 0]]
    /\ told = updates

(* The request may give up on a row that it does not know to be there.     *)
Create(t) ==
    /\ status[t] = "absent"
    /\ status' = [status EXCEPT ![t] = "NEW"]
    /\ routing' \in {routing, routing \cup {t}}
    /\ UNCHANGED <<posted, deeds, counts>>

(* The request finds its transaction as it made it, unless a post came      *)
(* first: then what the post wrote is overwritten.                         *)
Untouched(t) == status[t] = "NEW" \/ t \in posted

(* A provider is found, or none is and nobody is told.                     *)
Assign(t) ==
    /\ t \in routing /\ Untouched(t)
    /\ status' = [status EXCEPT ![t] = "WAITING_PAYMENT"]
    /\ assigned' = assigned \cup {t} /\ routing' = routing \ {t}
    /\ UNCHANGED <<posted, orders, linked, paid, counts>>

Refuse(t) ==
    /\ t \in routing /\ Untouched(t)
    /\ status' = [status EXCEPT ![t] = "CANCELLED"]
    /\ routing' = routing \ {t}
    /\ UNCHANGED <<posted, deeds, counts>>

(* A failed statement or a crash leaves rows as they are.                  *)
Abandon ==
    /\ \E left \in SUBSET routing : routing' = routing \ left
    /\ UNCHANGED <<status, posted, deeds, counts>>

Order(t) ==
    /\ t \in assigned
    /\ orders' = orders \cup {t}
    /\ UNCHANGED <<status, routing, posted, assigned, linked, paid, counts>>

Link(t) ==
    /\ t \in orders
    /\ linked' = linked \cup {t}
    /\ UNCHANGED <<status, routing, posted, assigned, orders, paid, counts>>

(* Somebody posts a status, for any transaction and at any time.           *)
Ask(t) ==
    /\ status[t] # "absent"
    /\ posted' = posted \cup {t}
    /\ UNCHANGED <<status, routing, deeds, counts>>

(* Whatever the status is by now: a webhook or the expiry job settles what  *)
(* was assigned, a post writes what it asks for.                           *)
Update(t, s) ==
    /\ t \in posted \/ (t \in assigned /\ s \in Final)
    /\ status' = [status EXCEPT ![t] = s]
    /\ paid' = IF s = "PAID" THEN paid \cup {t} ELSE paid
    /\ updates' = IF s \in Final THEN [updates EXCEPT ![t][s] = @ + 1] ELSE updates
    /\ UNCHANGED <<routing, posted, assigned, orders, linked, told>>

Tell(t, s) ==
    /\ told[t][s] < updates[t][s]
    /\ told' = [told EXCEPT ![t][s] = @ + 1]
    /\ UNCHANGED <<status, routing, posted, deeds, updates>>

Next ==
    \/ Abandon
    \/ \E t \in Transaction :
          \/ Create(t) \/ Assign(t) \/ Refuse(t) \/ Order(t) \/ Link(t) \/ Ask(t)
          \/ \E s \in Final \cup Asked : Update(t, s)
          \/ \E s \in Final : Tell(t, s)

Spec == Init /\ [][Next]_vars
=============================================================================
