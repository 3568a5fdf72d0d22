----------------------------- MODULE Requisites -----------------------------
(***************************************************************************)
(* Traders' requisites and insurance (internal/merchant), the requisites   *)
(* of providers (internal/requisites, handlers/admin.go) and the daily     *)
(* limits that routing/engine.go reserves from.  A requisite of a trader   *)
(* is named after the request that makes it; a step is one SQL statement.  *)
(***************************************************************************)
EXTENDS Integers, FiniteSets, Functions

CONSTANTS
    Casino, Request,
    Trader,     \* the casinos whose merchant_type is trader
    Issued,     \* names of the requisites administrators create
    None,
    Required,   \* insurance_required
    Openings,   \* deposits a casino may start with
    Sums,       \* amounts of a request, some of them negative
    Limit,      \* daily_limit
    MaxFaults,  \* bound: statements that fail
    MaxChanges  \* bound: changes made by administrators

\* What the constants must satisfy; Server assumes it.
RequisitesAssumption ==
    /\ Trader \subseteq Casino
    /\ Issued \cap Request = {}
    /\ None \notin Casino \cup Request \cup Issued
    /\ Required \in Nat /\ Limit \in Nat /\ Openings \subseteq Nat
    /\ Sums \subseteq Int \ {0}
    /\ MaxFaults \in Nat /\ MaxChanges \in Nat

VARIABLES
    casinos,    \* rows of casinos
    opening,    \* the deposits at first (history)
    deposit, active,
    requisites, \* rows of requisites
    used, state,
    online,     \* the requisites with is_online
    call,       \* the requests, each at its next statement
    today,      \* acknowledged reservations since the last reset (history)
    access,     \* the claims of the access tokens that clients hold
    faults, changes

ownVars == <<opening, deposit, active, requisites, used, state, online, call, today>>
vars == <<ownVars, casinos, access, faults, changes>>

Id == Request \cup Issued
State == {"ACTIVE", "INACTIVE", "EXHAUSTED"}
Unfinished == {"profile", "insert", "update", "delete", "choose", "reserve"}
Positive == {s \in Sums : s > 0}

TypeOK ==
    /\ casinos \subseteq Casino /\ requisites \subseteq Id
    /\ deposit \in [Casino -> Nat] /\ active \in [Casino -> BOOLEAN]
    /\ used \in [Id -> 0..Limit] /\ state \in [Id -> State] /\ online \subseteq Id
    /\ call \in [Request ->
          [op : {"none", "create", "topup", "delete", "reserve"},
           pc : Unfinished \cup {"idle", "done", "failed", "lost"},
           casino : Casino \cup {None}, target : Id \cup {None}, amount : Sums \cup {0}]]
    /\ today \subseteq Request
    /\ faults \in 0..MaxFaults /\ changes \in 0..MaxChanges

(* Migration 016 activates every casino whose deposit is enough; the       *)
(* requisites of providers are there (006).                                *)
Init ==
    /\ casinos = Casino
    /\ opening \in [Casino -> Openings] /\ deposit = opening
    /\ active = [c \in Casino |-> opening[c] >= Required]
    /\ requisites = Issued
    /\ used = [i \in Id |-> 0] /\ state = [i \in Id |-> "ACTIVE"] /\ online = Id
    /\ call = [q \in Request |-> [op |-> "none", pc |-> "idle", casino |-> None,
                                  target |-> None, amount |-> 0]]
    /\ today = {} /\ access = {} /\ faults = 0 /\ changes = 0

Fault == faults < MaxFaults /\ faults' = faults + 1

Change == changes < MaxChanges /\ changes' = changes + 1

At(q, pc) == call' = [call EXCEPT ![q].pc = pc]

rowVars == <<requisites, used, state, online>>
casinoVars == <<casinos, opening, deposit, active>>

-----------------------------------------------------------------------------
(* The requests begin.                                                     *)

Begin(q, r) ==
    /\ call[q].pc = "idle"
    /\ call' = [call EXCEPT ![q] = r]
    /\ UNCHANGED <<casinoVars, rowVars, today, access, faults, changes>>

(* What Auth lets pass: the claims of any token, as they were when it was  *)
(* issued; no row is read.                                                 *)
Authenticated == access

(* RequireRoles(MERCHANT); an owner, whom it also lets pass, is refused by *)
(* casinoID.                                                               *)
Merchants == {a \in Authenticated : a.role = "MERCHANT"}

(* casinoID: the casinos on whose behalf merchants may call.               *)
Admitted == {a.casino : a \in Merchants} \ {None}

BeginCreate(q) ==
    \E c \in Admitted :
        Begin(q, [op |-> "create", pc |-> "profile", casino |-> c, target |-> None, amount |-> 0])

BeginDelete(q) ==
    \E c \in Admitted, i \in requisites :
        Begin(q, [op |-> "delete", pc |-> "delete", casino |-> c, target |-> i, amount |-> 0])

(* Mutant: the amount is not looked at.                                    *)
BeginTopUp_Any(q) ==
    \E c \in Admitted, s \in Sums :
        Begin(q, [op |-> "topup", pc |-> "update", casino |-> c, target |-> None, amount |-> s])

(* An amount that is not positive is refused.                              *)
BeginTopUp(q) ==
    \E c \in Admitted, s \in Sums :
        Begin(q, [op |-> "topup", pc |-> IF s > 0 THEN "update" ELSE "failed",
                  casino |-> c, target |-> None, amount |-> s])

BeginReserve(q) ==
    \E s \in Positive :
        Begin(q, [op |-> "reserve", pc |-> "choose", casino |-> None, target |-> None, amount |-> s])

-----------------------------------------------------------------------------
(* The statements of CreateRequisite, DeleteRequisite and TopUpInsurance.  *)

(* GetProfile, first in CreateRequisite and last in TopUpInsurance.  When  *)
(* it fails after a top-up the client is told that the top-up failed.      *)
GetProfile(q) ==
    LET c == call[q].casino
    IN  /\ call[q].pc = "profile"
        /\ \/ /\ call[q].op = "topup"
              /\ At(q, IF c \in casinos THEN "done" ELSE "failed") /\ UNCHANGED faults
           \/ /\ call[q].op = "create"
              /\ At(q, IF c \in casinos \cap Trader /\ active[c] THEN "insert" ELSE "failed")
              /\ UNCHANGED faults
           \/ Fault /\ At(q, "failed")
    /\ UNCHANGED <<casinoVars, rowVars, today, access, changes>>

(* Row i is new: nothing is reserved of it.                                *)
NewRow(i) ==
    /\ requisites' = requisites \cup {i}
    /\ used' = [used EXCEPT ![i] = 0] /\ state' = [state EXCEPT ![i] = "ACTIVE"]
    /\ online' = online \cup {i}

(* The row refers to the casino, which must still exist.                   *)
Insert(q) ==
    /\ call[q].pc = "insert"
    /\ \/ call[q].casino \in casinos /\ NewRow(q) /\ At(q, "done") /\ UNCHANGED faults
       \/ call[q].casino \notin casinos /\ At(q, "failed") /\ UNCHANGED <<rowVars, faults>>
       \/ /\ Fault /\ At(q, "failed")
          /\ UNCHANGED rowVars \/ (call[q].casino \in casinos /\ NewRow(q))
    /\ UNCHANGED <<casinoVars, today, access, changes>>

Owner(i) == IF i \in Issued THEN None ELSE call[i].casino

(* Only a row of the casino itself is deleted.                             *)
Delete(q) ==
    LET own == {i \in requisites : i = call[q].target /\ Owner(i) = call[q].casino}
    IN  /\ call[q].pc = "delete"
        /\ \/ /\ requisites' = requisites \ own
              /\ At(q, IF own = {} THEN "failed" ELSE "done")
              /\ UNCHANGED faults
           \/ Fault /\ At(q, "failed") /\ requisites' \in {requisites, requisites \ own}
    /\ UNCHANGED <<used, state, online, casinoVars, today, access, changes>>

(* Mutant: the new deposit is computed from the one read before.           *)
TopUp_Absolute(q) ==
    /\ call[q].pc = "update"
    /\ LET c == call[q].casino
           sum == opening[c] + call[q].amount
       IN  /\ deposit' = [deposit EXCEPT ![c] = sum]
           /\ active' = [active EXCEPT ![c] = sum >= Required]
    /\ At(q, "profile")
    /\ UNCHANGED <<casinos, opening, rowVars, today, access, faults, changes>>

(* One UPDATE adds to the deposit and decides whether the trader is active; *)
(* without the casino's row it does nothing and is no error.               *)
TopUp(q) ==
    LET c == call[q].casino
        sum == deposit[c] + call[q].amount
        Effect == IF c \in casinos
                  THEN /\ deposit' = [deposit EXCEPT ![c] = sum]
                       /\ active' = [active EXCEPT ![c] = sum >= Required]
                  ELSE UNCHANGED <<deposit, active>>
    IN  /\ call[q].pc = "update"
        /\ \/ Effect /\ At(q, "profile") /\ UNCHANGED faults
           \/ /\ Fault /\ At(q, "failed")
              /\ Effect \/ UNCHANGED <<deposit, active>>
    /\ UNCHANGED <<casinos, opening, rowVars, today, access, changes>>

-----------------------------------------------------------------------------
(* Reservation of a provider's requisite.                                  *)

Room(i) == Limit - used[i]

(* getAvailableRequisite: the active requisite online with most room, if   *)
(* it has enough.  A trader's requisite has no provider and is not found.  *)
Choose(q) ==
    LET fit == {i \in requisites \cap Issued \cap online :
                    state[i] = "ACTIVE" /\ Room(i) >= call[q].amount}
    IN  /\ call[q].pc = "choose"
        /\ \/ /\ \E i \in fit :
                    /\ \A j \in fit : Room(j) <= Room(i)
                    /\ call' = [call EXCEPT ![q].pc = "reserve", ![q].target = i]
              /\ UNCHANGED faults
           \/ fit = {} /\ At(q, "failed") /\ UNCHANGED faults
           \/ Fault /\ At(q, "failed")
    /\ UNCHANGED <<casinoVars, rowVars, today, access, changes>>

(* Mutant: the room that was read when the requisite was chosen counts.    *)
Reserve_Unchecked(q) ==
    LET i == call[q].target
    IN  /\ call[q].pc = "reserve" /\ i \in requisites
        /\ used' = [used EXCEPT ![i] = @ + call[q].amount]
        /\ today' = today \cup {q} /\ At(q, "done")
    /\ UNCHANGED <<requisites, state, online, casinoVars, access, faults, changes>>

(* ReserveRequisiteLimit looks again, in the statement that reserves.      *)
Reserve(q) ==
    LET i == call[q].target
        sum == used[i] + call[q].amount
        fits == i \in requisites /\ state[i] = "ACTIVE" /\ sum <= Limit
        Effect == /\ used' = [used EXCEPT ![i] = sum]
                  /\ state' = IF sum >= Limit THEN [state EXCEPT ![i] = "EXHAUSTED"] ELSE state
    IN  /\ call[q].pc = "reserve"
        /\ \/ fits /\ Effect /\ today' = today \cup {q} /\ At(q, "done") /\ UNCHANGED faults
           \/ ~fits /\ At(q, "failed") /\ UNCHANGED <<used, state, today, faults>>
           \/ /\ Fault /\ At(q, "failed") /\ UNCHANGED today
              /\ UNCHANGED <<used, state>> \/ (fits /\ Effect)
    /\ UNCHANGED <<requisites, online, casinoVars, access, changes>>

-----------------------------------------------------------------------------
(* Administration.                                                         *)

(* A new row; deletions, which are bounded, make room for it.              *)
CreateIssued(i) ==
    /\ i \in Issued \ requisites
    /\ NewRow(i)
    /\ today' = {q \in today : call[q].target # i}
    /\ UNCHANGED <<casinoVars, call, access, faults, changes>>

UpdateStatus(i) ==
    /\ i \in requisites /\ Change
    /\ \E s \in State \ {state[i]} : state' = [state EXCEPT ![i] = s]
    /\ UNCHANGED <<requisites, used, online, casinoVars, call, today, access, faults>>

UpdateOnlineStatus(i) ==
    /\ i \in requisites /\ Change
    /\ online' = IF i \in online THEN online \ {i} ELSE online \cup {i}
    /\ UNCHANGED <<requisites, used, state, casinoVars, call, today, access, faults>>

DeleteRequisite(i) ==
    /\ i \in requisites /\ Change
    /\ requisites' = requisites \ {i}
    /\ UNCHANGED <<used, state, online, casinoVars, call, today, access, faults>>

ResetDailyLimits ==
    /\ Change
    /\ used' = [i \in Id |-> IF i \in requisites THEN 0 ELSE used[i]]
    /\ state' = [i \in Id |-> IF i \in requisites /\ state[i] = "EXHAUSTED"
                              THEN "ACTIVE" ELSE state[i]]
    /\ today' = {}
    /\ UNCHANGED <<requisites, online, casinoVars, call, access, faults>>

(* The requisites of a casino go with it.                                  *)
DeleteCasino(c) ==
    /\ c \in casinos /\ Change
    /\ casinos' = casinos \ {c}
    /\ requisites' = {i \in requisites : Owner(i) # c}
    /\ UNCHANGED <<opening, deposit, active, used, state, online, call, today, access, faults>>

-----------------------------------------------------------------------------
BeginRequest(q) == BeginCreate(q) \/ BeginDelete(q) \/ BeginTopUp(q) \/ BeginReserve(q)

Statement(q) ==
    GetProfile(q) \/ Insert(q) \/ Delete(q) \/ TopUp(q) \/ Choose(q) \/ Reserve(q)

Administer ==
    \/ \E i \in Id : CreateIssued(i) \/ UpdateStatus(i) \/ UpdateOnlineStatus(i)
                      \/ DeleteRequisite(i)
    \/ ResetDailyLimits
    \/ \E c \in Casino : DeleteCasino(c)

(* The process stops: requests under way end where they are.               *)
Stop ==
    call' = [q \in Request |-> IF call[q].pc \in Unfinished
                               THEN [call[q] EXCEPT !.pc = "lost"] ELSE call[q]]

(* What other handlers do to the state that Requisites shares: logins (see *)
(* Sessions) issue tokens, and they fail and are told to change, too.      *)
Elsewhere ==
    /\ \/ access' = access
       \/ \E r \in {"MERCHANT", "ADMIN"}, c \in Casino \cup {None} :
             access' = access \cup {[role |-> r, casino |-> c]}
    /\ UNCHANGED faults \/ Fault
    /\ UNCHANGED changes \/ Change
    /\ UNCHANGED <<ownVars, casinos>>

Next ==
    \/ \E q \in Request : BeginRequest(q) \/ Statement(q)
    \/ Administer
    \/ Elsewhere
    \/ Stop /\ UNCHANGED <<casinoVars, rowVars, today, access, faults, changes>>

Spec == Init /\ [][Next]_vars

-----------------------------------------------------------------------------
(* Properties.                                                             *)

Total(qs) == SumFunctionOnSet([q \in Request |-> call[q].amount], qs)

\* The top-ups of casino c that have got as far as one of pcs.
TopUps(c, pcs) ==
    {q \in Request : /\ call[q].op = "topup" /\ call[q].casino = c
                     /\ call[q].amount > 0 /\ call[q].pc \in pcs}

\* What is granted of requisite i since the last reset.
Reserved(i) == {q \in today : call[q].target = i}

(* A trader's requisite belongs to a trader that exists and is insured,    *)
(* although the insurance is read in a statement before the INSERT and the *)
(* casino may be deleted or topped up between the two.                     *)
OnlyInsuredTraders ==
    \A i \in requisites \ Issued :
        /\ Owner(i) \in casinos \cap Trader
        /\ active[Owner(i)] /\ deposit[Owner(i)] >= Required

(* Every top-up that was answered is in the deposit, whatever ran beside   *)
(* it, and nothing is in it but top-ups that were asked for, of which some *)
(* may have been answered with an error.                                   *)
TopUpsCount ==
    \A c \in casinos :
        /\ opening[c] + Total(TopUps(c, {"profile", "done"})) <= deposit[c]
        /\ deposit[c] <= opening[c] + Total(TopUps(c, {"profile", "done", "failed", "lost"}))

(* The reservations granted since the limits were reset never exceed the   *)
(* daily limit, however many requests chose the same requisite at once and *)
(* whatever status an administrator gives it.                              *)
NeverOverReserved ==
    \A i \in requisites \cap Issued : Total(Reserved(i)) <= Limit
=============================================================================
