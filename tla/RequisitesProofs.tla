-------------------------- MODULE RequisitesProofs --------------------------
(***************************************************************************)
(* A trader with requisites is insured, for every set of casinos, requests *)
(* and amounts.  The argument: top-ups only add, so a trader that was      *)
(* active when a request looked is active when it inserts; and a row is    *)
(* inserted only while its casino's row is there.                          *)
(*                                                                         *)
(* Answered top-ups are in the deposit and granted reservations within the *)
(* limit, for every number of requests.  The argument: only finitely many  *)
(* requests have begun, the sum over them is a sum over a finite set, and  *)
(* every step changes at most one summand, by what it changes the row.     *)
(***************************************************************************)
EXTENDS Requisites, TLAPS, SumTheorems

Call == [op : {"none", "create", "topup", "delete", "reserve"},
         pc : Unfinished \cup {"idle", "done", "failed", "lost"},
         casino : Casino \cup {None}, target : Id \cup {None}, amount : Sums \cup {0}]

(* What request q knows at its next statement, and of the row it made.     *)
CallState(q) ==
    /\ call[q].pc \in {"profile", "insert", "update", "delete"} => call[q].casino \in Casino
    /\ call[q].pc = "insert" => call[q].casino \in Trader /\ active[call[q].casino]
    /\ call[q].pc \in {"update", "choose", "reserve"} => call[q].amount > 0
    /\ q \in requisites =>
          /\ call[q].pc \in {"done", "failed"}
          /\ call[q].casino \in casinos \cap Trader /\ active[call[q].casino]

CallsState == \A q \in Request : CallState(q)

ActiveIsInsured == \A c \in Casino : active[c] => deposit[c] >= Required

AccessTyped == \A a \in access : a.casino \in Casino \cup {None}

IInv == TypeOK /\ CallsState /\ ActiveIsInsured /\ AccessTyped

(* At moves one request to its next statement and changes nothing else.    *)
LEMMA AtMoves ==
    ASSUME TypeOK, NEW q \in Request, NEW pc \in Unfinished \cup {"done", "failed"}, At(q, pc)
    PROVE  /\ call' \in [Request -> Call]
           /\ \A p \in Request \ {q} : call'[p] = call[p]
           /\ call'[q].op = call[q].op /\ call'[q].pc = pc
           /\ call'[q].casino = call[q].casino /\ call'[q].amount = call[q].amount
    BY DEF TypeOK, At, Call

LEMMA FaultsBounded ==
    ASSUME RequisitesAssumption, TypeOK, UNCHANGED faults \/ Fault
    PROVE  faults' \in 0..MaxFaults
    BY DEF RequisitesAssumption, TypeOK, Fault

LEMMA AmountsAreIntegers ==
    ASSUME RequisitesAssumption, TypeOK, NEW q \in Request
    PROVE  call[q].amount \in Int
<1>1. call[q].amount \in Sums \cup {0}
    BY DEF TypeOK
<1>2. CASE call[q].amount \in Sums
    BY <1>2, Zenon DEF RequisitesAssumption
<1>3. CASE call[q].amount = 0
    BY <1>3
<1> QED
    BY <1>1, <1>2, <1>3

(* A step of one request that takes nothing from the casinos and makes no  *)
(* row but its own keeps the state of every other request.                 *)
LEMMA OthersKeepState ==
    ASSUME RequisitesAssumption, IInv, NEW q \in Request,
           \A p \in Request \ {q} : call'[p] = call[p],
           requisites' \subseteq requisites \cup {q},
           casinos' = casinos,
           \A c \in Casino : active[c] => active'[c]
    PROVE  \A p \in Request \ {q} : CallState(p)'
<1> SUFFICES ASSUME NEW p \in Request \ {q} PROVE CallState(p)'
    OBVIOUS
<1>1. CallState(p) /\ call'[p] = call[p]
    BY DEF IInv, CallsState
<1>2. p \in requisites' => p \in requisites
    OBVIOUS
<1>3. \A c \in Trader : active[c] => active'[c]
    BY DEF RequisitesAssumption
<1> QED
    BY <1>1, <1>2, <1>3 DEF CallState

(* A request begins: it has made no row.                                   *)
LEMMA BeginKeepsInv ==
    ASSUME RequisitesAssumption, IInv, NEW q \in Request, BeginRequest(q)
    PROVE  IInv'
<1>1. PICK r \in Call :
          /\ Begin(q, r)
          /\ r.pc \in {"profile", "delete", "update"} => r.casino \in Casino
          /\ r.pc \in {"update", "choose"} => r.amount > 0
          /\ r.pc \in {"profile", "delete", "update", "choose", "failed"}
  <2>1. Admitted \subseteq Casino
      BY DEF IInv, AccessTyped, Admitted, Merchants, Authenticated
  <2>2. CASE BeginCreate(q)
      BY <2>1, <2>2 DEF BeginCreate, Call, Unfinished
  <2>3. CASE BeginDelete(q)
      BY <2>1, <2>3 DEF BeginDelete, Call, Unfinished, IInv, TypeOK
  <2>4. CASE BeginTopUp(q)
      BY <2>1, <2>4, RequisitesAssumption DEF RequisitesAssumption, BeginTopUp, Call, Unfinished
  <2>5. CASE BeginReserve(q)
      BY <2>5, RequisitesAssumption DEF RequisitesAssumption, BeginReserve, Positive, Call,
         Unfinished
  <2> QED
      BY <2>2, <2>3, <2>4, <2>5 DEF BeginRequest
<1>2. /\ call[q].pc = "idle" /\ call' = [call EXCEPT ![q] = r]
      /\ UNCHANGED <<casinos, opening, deposit, active, requisites, used, state, online,
                     today, access, faults, changes>>
    BY <1>1 DEF Begin, casinoVars, rowVars
<1>3. TypeOK'
    BY <1>2 DEF IInv, TypeOK, Call
<1>4. call'[q] = r /\ \A p \in Request \ {q} : call'[p] = call[p]
    BY <1>2 DEF IInv, TypeOK
<1>5. CallState(q)'
  <2>1. q \notin requisites
      BY <1>2 DEF IInv, CallsState, CallState
  <2> QED
      BY <1>1, <1>2, <1>4, <2>1 DEF CallState
<1>6. CallsState'
    BY <1>2, <1>4, <1>5, OthersKeepState, RequisitesAssumption DEF CallsState
<1>7. ActiveIsInsured' /\ AccessTyped'
    BY <1>2 DEF IInv, ActiveIsInsured, AccessTyped
<1> QED
    BY <1>3, <1>6, <1>7 DEF IInv

(* A step that moves q and neither touches the casinos nor makes q's row.  *)
LEMMA MoveKeepsInv ==
    ASSUME RequisitesAssumption, IInv, NEW q \in Request, call[q].pc \in Unfinished,
           NEW pc \in {"done", "failed", "insert"}, At(q, pc),
           pc = "insert" => call[q].casino \in Trader /\ active[call[q].casino],
           requisites' \subseteq requisites,
           UNCHANGED <<casinos, deposit, active, access>>,
           TypeOK'
    PROVE  IInv'
<1>1. /\ \A p \in Request \ {q} : call'[p] = call[p]
      /\ call'[q].pc = pc /\ call'[q].casino = call[q].casino
    BY AtMoves DEF IInv, Unfinished
<1>2. q \notin requisites'
    BY DEF IInv, CallsState, CallState, Unfinished
<1>3. CallState(q)'
    BY <1>1, <1>2, RequisitesAssumption DEF CallState, RequisitesAssumption
<1>4. CallsState'
    BY <1>1, <1>3, OthersKeepState, RequisitesAssumption DEF CallsState
<1>5. ActiveIsInsured' /\ AccessTyped'
    BY DEF IInv, ActiveIsInsured, AccessTyped
<1> QED
    BY <1>4, <1>5 DEF IInv

LEMMA GetProfileKeepsInv ==
    ASSUME RequisitesAssumption, IInv, NEW q \in Request, GetProfile(q)
    PROVE  IInv'
<1>1. /\ call[q].pc = "profile"
      /\ UNCHANGED <<casinos, opening, deposit, active, requisites, used, state, online,
                     today, access, changes>>
      /\ UNCHANGED faults \/ Fault
    BY DEF GetProfile, casinoVars, rowVars
<1>2. PICK pc \in {"done", "failed", "insert"} :
          /\ At(q, pc)
          /\ pc = "insert" => call[q].casino \in Trader /\ active[call[q].casino]
    BY DEF GetProfile
<1>3. call' \in [Request -> Call]
    BY <1>2, AtMoves DEF IInv, Unfinished
<1>4. TypeOK'
    BY <1>1, <1>3, FaultsBounded, RequisitesAssumption DEF IInv, TypeOK, Call
<1> QED
    BY <1>1, <1>2, <1>4, MoveKeepsInv, RequisitesAssumption DEF Unfinished

(* The row is made while its casino is there, and the trader that was      *)
(* active when q looked still is.                                          *)
LEMMA InsertKeepsInv ==
    ASSUME RequisitesAssumption, IInv, NEW q \in Request, Insert(q)
    PROVE  IInv'
<1>1. /\ call[q].pc = "insert"
      /\ UNCHANGED <<casinos, opening, deposit, active, today, access, changes>>
      /\ UNCHANGED faults \/ Fault
      /\ UNCHANGED rowVars \/ (call[q].casino \in casinos /\ NewRow(q))
    BY DEF Insert, casinoVars
<1>2. PICK pc \in {"done", "failed"} : At(q, pc)
    BY DEF Insert
<1>3. /\ call' \in [Request -> Call]
      /\ \A p \in Request \ {q} : call'[p] = call[p]
      /\ call'[q].pc = pc /\ call'[q].casino = call[q].casino
    BY <1>2, AtMoves DEF IInv, Unfinished
<1>4. TypeOK'
  <2>1. requisites' \subseteq Id /\ online' \subseteq Id /\ state' \in [Id -> State]
      BY <1>1 DEF IInv, TypeOK, rowVars, NewRow, Id, State
  <2>2. used' \in [Id -> 0..Limit]
      BY <1>1, RequisitesAssumption DEF IInv, TypeOK, rowVars, NewRow, RequisitesAssumption
  <2> QED
      BY <1>1, <1>3, <2>1, <2>2, FaultsBounded, RequisitesAssumption DEF IInv, TypeOK, Call
<1>5. requisites' \subseteq requisites \cup {q}
    BY <1>1 DEF rowVars, NewRow
<1>6. CallState(q)'
  <2>1. q \notin requisites /\ call[q].casino \in Trader /\ active[call[q].casino]
      BY <1>1 DEF IInv, CallsState, CallState
  <2>2. q \in requisites' => call[q].casino \in casinos
      BY <1>1, <2>1 DEF rowVars
  <2> QED
      BY <1>1, <1>3, <2>1, <2>2 DEF CallState
<1>7. CallsState'
    BY <1>1, <1>3, <1>5, <1>6, OthersKeepState, RequisitesAssumption DEF CallsState
<1>8. ActiveIsInsured' /\ AccessTyped'
    BY <1>1 DEF IInv, ActiveIsInsured, AccessTyped
<1> QED
    BY <1>4, <1>7, <1>8 DEF IInv

LEMMA DeleteKeepsInv ==
    ASSUME RequisitesAssumption, IInv, NEW q \in Request, Delete(q)
    PROVE  IInv'
<1>1. /\ call[q].pc = "delete"
      /\ UNCHANGED <<used, state, online, casinos, opening, deposit, active, today, access, changes>>
      /\ UNCHANGED faults \/ Fault
      /\ requisites' \subseteq requisites
    BY DEF Delete, casinoVars
<1>2. PICK pc \in {"done", "failed"} : At(q, pc)
    BY DEF Delete
<1>3. call' \in [Request -> Call]
    BY <1>2, AtMoves DEF IInv, Unfinished
<1>4. TypeOK'
    BY <1>1, <1>3, FaultsBounded, RequisitesAssumption DEF IInv, TypeOK, Call
<1> QED
    BY <1>1, <1>2, <1>4, MoveKeepsInv, RequisitesAssumption DEF Unfinished

(* The amount of a top-up is positive, so nobody's insurance ends.         *)
LEMMA TopUpKeepsInv ==
    ASSUME RequisitesAssumption, IInv, NEW q \in Request, TopUp(q)
    PROVE  IInv'
<1> DEFINE c == call[q].casino
           sum == deposit[c] + call[q].amount
<1>1. /\ call[q].pc = "update"
      /\ UNCHANGED <<casinos, opening, requisites, used, state, online, today, access, changes>>
      /\ UNCHANGED faults \/ Fault
      /\ \/ UNCHANGED <<deposit, active>>
         \/ /\ deposit' = [deposit EXCEPT ![c] = sum]
            /\ active' = [active EXCEPT ![c] = sum >= Required]
    BY DEF TopUp, rowVars
<1>2. c \in Casino /\ call[q].amount > 0 /\ q \notin requisites
    BY <1>1 DEF IInv, CallsState, CallState
<1>3. call[q].amount \in Int /\ deposit[c] \in Nat /\ Required \in Nat
  <2>1. call[q].amount \in Int
      BY AmountsAreIntegers, RequisitesAssumption DEF IInv
  <2> QED
      BY <1>2, <2>1, RequisitesAssumption DEF IInv, TypeOK, RequisitesAssumption
<1>4. sum \in Nat /\ sum >= deposit[c]
    BY <1>2, <1>3
<1>5. PICK pc \in {"profile", "failed"} : At(q, pc)
    BY DEF TopUp
<1>6. /\ call' \in [Request -> Call]
      /\ \A p \in Request \ {q} : call'[p] = call[p]
      /\ call'[q].pc = pc /\ call'[q].casino = c
    BY <1>5, AtMoves DEF IInv, Unfinished
<1> HIDE DEF sum, c
<1>7. deposit' \in [Casino -> Nat] /\ active' \in [Casino -> BOOLEAN]
  <2>1. (sum >= Required) \in BOOLEAN
      BY <1>3, <1>4
  <2>2. CASE UNCHANGED <<deposit, active>>
      BY <2>2 DEF IInv, TypeOK
  <2>3. CASE /\ deposit' = [deposit EXCEPT ![c] = sum]
             /\ active' = [active EXCEPT ![c] = sum >= Required]
      BY <1>2, <1>4, <2>1, <2>3 DEF IInv, TypeOK
  <2> QED
      BY <1>1, <2>2, <2>3
<1>8. TypeOK'
    BY <1>1, <1>6, <1>7, FaultsBounded, RequisitesAssumption DEF IInv, TypeOK, Call
<1>9. ActiveIsInsured' /\ \A d \in Casino : active[d] => active'[d]
  <2>1. CASE UNCHANGED <<deposit, active>>
      BY <2>1 DEF IInv, ActiveIsInsured
  <2>2. CASE /\ deposit' = [deposit EXCEPT ![c] = sum]
             /\ active' = [active EXCEPT ![c] = sum >= Required]
    <3>1. deposit'[c] = sum /\ active'[c] = (sum >= Required)
        BY <1>2, <2>2 DEF IInv, TypeOK
    <3>2. \A d \in Casino \ {c} : deposit'[d] = deposit[d] /\ active'[d] = active[d]
        BY <2>2 DEF IInv, TypeOK
    <3>3. active[c] => sum >= Required
        BY <1>2, <1>3, <1>4 DEF IInv, ActiveIsInsured
    <3> QED
        BY <3>1, <3>2, <3>3 DEF IInv, ActiveIsInsured
  <2> QED
      BY <1>1, <2>1, <2>2
<1>10. CallState(q)'
    BY <1>1, <1>2, <1>6 DEF CallState
<1>11. CallsState'
    BY <1>1, <1>6, <1>9, <1>10, OthersKeepState, RequisitesAssumption DEF CallsState
<1> QED
    BY <1>1, <1>8, <1>9, <1>11 DEF IInv, AccessTyped

LEMMA ChooseKeepsInv ==
    ASSUME RequisitesAssumption, IInv, NEW q \in Request, Choose(q)
    PROVE  IInv'
<1>1. /\ call[q].pc = "choose"
      /\ UNCHANGED <<casinos, opening, deposit, active, requisites, used, state, online,
                     today, access, changes>>
      /\ UNCHANGED faults \/ Fault
    BY DEF Choose, casinoVars, rowVars
<1>2. CASE At(q, "failed")
  <2>1. call' \in [Request -> Call]
      BY <1>2, AtMoves DEF IInv, Unfinished
  <2>2. TypeOK'
      BY <1>1, <2>1, FaultsBounded, RequisitesAssumption DEF IInv, TypeOK, Call
  <2> QED
      BY <1>1, <1>2, <2>2, MoveKeepsInv, RequisitesAssumption DEF Unfinished
<1>3. CASE \E i \in Id : call' = [call EXCEPT ![q].pc = "reserve", ![q].target = i]
  <2>1. PICK i \in Id : call' = [call EXCEPT ![q].pc = "reserve", ![q].target = i]
      BY <1>3
  <2>2. /\ call' \in [Request -> Call]
        /\ \A p \in Request \ {q} : call'[p] = call[p]
        /\ call'[q].pc = "reserve" /\ call'[q].amount = call[q].amount
    <3> DEFINE moved == [call[q] EXCEPT !.pc = "reserve", !.target = i]
    <3>1. call \in [Request -> Call]
        BY DEF IInv, TypeOK, Call
    <3>2. moved \in Call /\ moved.pc = "reserve" /\ moved.amount = call[q].amount
        BY <3>1 DEF Call, Unfinished
    <3>3. call' = [call EXCEPT ![q] = moved]
        BY <2>1, <3>1
    <3> HIDE DEF moved
    <3> QED
        BY <3>1, <3>2, <3>3
  <2>3. TypeOK'
      BY <1>1, <2>2, FaultsBounded, RequisitesAssumption DEF IInv, TypeOK, Call
  <2>4. CallState(q)'
      BY <1>1, <2>2 DEF IInv, CallsState, CallState
  <2>5. CallsState'
      BY <1>1, <2>2, <2>4, OthersKeepState, RequisitesAssumption DEF CallsState
  <2> QED
      BY <1>1, <2>3, <2>5 DEF IInv, ActiveIsInsured, AccessTyped
<1> QED
    BY <1>2, <1>3 DEF Choose, Id

LEMMA ReserveKeepsInv ==
    ASSUME RequisitesAssumption, IInv, NEW q \in Request, Reserve(q)
    PROVE  IInv'
<1> DEFINE i == call[q].target
           sum == used[i] + call[q].amount
           fits == i \in requisites /\ state[i] = "ACTIVE" /\ sum <= Limit
           Effect == /\ used' = [used EXCEPT ![i] = sum]
                     /\ state' = IF sum >= Limit THEN [state EXCEPT ![i] = "EXHAUSTED"] ELSE state
<1>1. /\ call[q].pc = "reserve"
      /\ UNCHANGED <<requisites, online, casinos, opening, deposit, active, access, changes>>
      /\ UNCHANGED faults \/ Fault
      /\ today' \in {today, today \cup {q}}
      /\ UNCHANGED <<used, state>> \/ (fits /\ Effect)
    BY DEF Reserve, casinoVars
<1>2. PICK pc \in {"done", "failed"} : At(q, pc)
    BY DEF Reserve
<1>3. call' \in [Request -> Call]
    BY <1>2, AtMoves DEF IInv, Unfinished
<1>4. used' \in [Id -> 0..Limit] /\ state' \in [Id -> State]
  <2>1. CASE UNCHANGED <<used, state>>
      BY <2>1 DEF IInv, TypeOK
  <2>2. CASE fits /\ Effect
    <3>1. i \in Id /\ used[i] \in 0..Limit /\ sum <= Limit /\ Limit \in Nat
        BY <2>2, RequisitesAssumption DEF IInv, TypeOK, RequisitesAssumption
    <3>2. call[q].amount \in Int /\ call[q].amount > 0
        BY <1>1, AmountsAreIntegers, RequisitesAssumption DEF IInv, CallsState, CallState
    <3>3. sum \in 0..Limit
        BY <3>1, <3>2
    <3> HIDE DEF sum, i
    <3>4. used' \in [Id -> 0..Limit]
        BY <2>2, <3>1, <3>3 DEF IInv, TypeOK
    <3>5. state' \in [Id -> State]
        BY <2>2, <3>1 DEF IInv, TypeOK, State
    <3> QED
        BY <3>4, <3>5
  <2> QED
      BY <1>1, <2>1, <2>2
<1>5. TypeOK'
  <2>1. today' \subseteq Request
      BY <1>1 DEF IInv, TypeOK
  <2> HIDE DEF i, sum, fits, Effect
  <2>2. faults' \in 0..MaxFaults
      BY <1>1, FaultsBounded, RequisitesAssumption DEF IInv
  <2> QED
      BY <1>1, <1>3, <1>4, <2>1, <2>2 DEF IInv, TypeOK, Call
<1> QED
    BY <1>1, <1>2, <1>5, MoveKeepsInv, RequisitesAssumption DEF Unfinished

(* Administrators make no row of a request and end no insurance; the       *)
(* requisites of a casino go with it.                                      *)
LEMMA AdministerKeepsInv ==
    ASSUME RequisitesAssumption, IInv, Administer
    PROVE  IInv'
<1>1. /\ UNCHANGED <<call, deposit, active, access, faults, opening>>
      /\ changes' = changes \/ Change
    BY DEF Administer, CreateIssued, UpdateStatus, UpdateOnlineStatus, DeleteRequisite,
           ResetDailyLimits, DeleteCasino, casinoVars
<1>2. \/ casinos' = casinos /\ requisites' \subseteq requisites \cup Issued
      \/ \E c \in Casino : /\ casinos' = casinos \ {c}
                           /\ requisites' = {i \in requisites : Owner(i) # c}
    BY DEF Administer, CreateIssued, NewRow, UpdateStatus, UpdateOnlineStatus, DeleteRequisite,
           ResetDailyLimits, DeleteCasino, casinoVars, IInv, TypeOK
<1>3. today' \subseteq today
    BY DEF Administer, CreateIssued, UpdateStatus, UpdateOnlineStatus, DeleteRequisite,
           ResetDailyLimits, DeleteCasino
<1>4. online' \subseteq Id
    BY DEF Administer, CreateIssued, NewRow, UpdateStatus, UpdateOnlineStatus, DeleteRequisite,
           ResetDailyLimits, DeleteCasino, IInv, TypeOK
<1>5. used' \in [Id -> 0..Limit] /\ state' \in [Id -> State]
  <2> USE RequisitesAssumption DEF RequisitesAssumption, IInv, TypeOK, State
  <2>1. ASSUME NEW i \in Id, CreateIssued(i) PROVE used' \in [Id -> 0..Limit] /\ state' \in [Id -> State]
      BY <2>1 DEF CreateIssued, NewRow
  <2>2. ASSUME NEW i \in Id, UpdateStatus(i) PROVE used' \in [Id -> 0..Limit] /\ state' \in [Id -> State]
      BY <2>2 DEF UpdateStatus
  <2>3. ASSUME NEW i \in Id, UpdateOnlineStatus(i) \/ DeleteRequisite(i) PROVE used' \in [Id -> 0..Limit] /\ state' \in [Id -> State]
      BY <2>3 DEF UpdateOnlineStatus, DeleteRequisite
  <2>4. CASE ResetDailyLimits
      BY <2>4 DEF ResetDailyLimits
  <2>5. ASSUME NEW c \in Casino, DeleteCasino(c) PROVE used' \in [Id -> 0..Limit] /\ state' \in [Id -> State]
      BY <2>5 DEF DeleteCasino
  <2> QED
      BY <2>1, <2>2, <2>3, <2>4, <2>5 DEF Administer
<1>6. TypeOK'
  <2>1. casinos' \subseteq Casino /\ requisites' \subseteq Id
      BY <1>2 DEF IInv, TypeOK, Id
  <2>2. changes' \in 0..MaxChanges
      BY <1>1, RequisitesAssumption DEF IInv, TypeOK, Change, RequisitesAssumption
  <2> QED
      BY <1>1, <1>3, <1>4, <1>5, <2>1, <2>2 DEF IInv, TypeOK
<1>7. CallsState'
  <2> SUFFICES ASSUME NEW q \in Request PROVE CallState(q)'
      BY DEF CallsState
  <2>1. CallState(q) /\ q \notin Issued
      BY RequisitesAssumption DEF IInv, CallsState, RequisitesAssumption
  <2>2. ASSUME q \in requisites' PROVE q \in requisites /\ call[q].casino \in casinos'
    <3>1. CASE casinos' = casinos /\ requisites' \subseteq requisites \cup Issued
        BY <2>1, <2>2, <3>1 DEF CallState
    <3>2. ASSUME NEW c \in Casino, casinos' = casinos \ {c},
                 requisites' = {i \in requisites : Owner(i) # c}
          PROVE  q \in requisites /\ call[q].casino \in casinos'
        BY <2>1, <2>2, <3>2 DEF CallState, Owner
    <3> QED
        BY <1>2, <3>1, <3>2
  <2> QED
      BY <1>1, <2>1, <2>2 DEF CallState
<1>8. ActiveIsInsured' /\ AccessTyped'
    BY <1>1 DEF IInv, ActiveIsInsured, AccessTyped
<1> QED
    BY <1>6, <1>7, <1>8 DEF IInv

LEMMA ElsewhereKeepsInv ==
    ASSUME RequisitesAssumption, IInv, Elsewhere
    PROVE  IInv'
<1>1. /\ UNCHANGED <<casinos, opening, deposit, active, requisites, used, state, online, call, today>>
      /\ UNCHANGED faults \/ Fault
      /\ UNCHANGED changes \/ Change
    BY DEF Elsewhere, ownVars
<1>2. TypeOK'
  <2>1. changes' \in 0..MaxChanges
      BY <1>1, RequisitesAssumption DEF IInv, TypeOK, Change, RequisitesAssumption
  <2> QED
      BY <1>1, <2>1, FaultsBounded, RequisitesAssumption DEF IInv, TypeOK
<1>3. CallsState' /\ ActiveIsInsured'
    BY <1>1 DEF IInv, CallsState, CallState, ActiveIsInsured
<1>4. AccessTyped'
    BY DEF Elsewhere, IInv, AccessTyped
<1> QED
    BY <1>2, <1>3, <1>4 DEF IInv

(* A request that is cut off has made no row.                              *)
LEMMA StopKeepsInv ==
    ASSUME RequisitesAssumption, IInv, Stop,
           UNCHANGED <<casinoVars, rowVars, today, access, faults, changes>>
    PROVE  IInv'
<1>1. UNCHANGED <<casinos, opening, deposit, active, requisites, used, state, online,
                  today, access, faults, changes>>
    BY DEF casinoVars, rowVars
<1>2. \A q \in Request :
          call'[q] = IF call[q].pc \in Unfinished THEN [call[q] EXCEPT !.pc = "lost"] ELSE call[q]
    BY DEF Stop
<1>3. call' \in [Request -> Call]
    BY DEF Stop, IInv, TypeOK, Call
<1>4. TypeOK'
    BY <1>1, <1>3 DEF IInv, TypeOK, Call
<1>5. CallsState'
  <2> SUFFICES ASSUME NEW q \in Request PROVE CallState(q)'
      BY DEF CallsState
  <2>1. CallState(q) /\ call[q] \in Call
      BY DEF IInv, CallsState, TypeOK, Call
  <2>2. CASE call[q].pc \in Unfinished
    <3>1. call'[q].pc = "lost" /\ q \notin requisites'
        BY <1>1, <1>2, <2>1, <2>2 DEF CallState, Unfinished, Call
    <3> QED
        BY <3>1 DEF CallState
  <2>3. CASE call[q].pc \notin Unfinished
      BY <1>1, <1>2, <2>1, <2>3 DEF CallState
  <2> QED
      BY <2>2, <2>3
<1>6. ActiveIsInsured' /\ AccessTyped'
    BY <1>1 DEF IInv, ActiveIsInsured, AccessTyped
<1> QED
    BY <1>4, <1>5, <1>6 DEF IInv

LEMMA InitHasInv ==
    ASSUME RequisitesAssumption, Init
    PROVE  IInv
<1> USE RequisitesAssumption DEF RequisitesAssumption, Init
<1>1. opening \in [Casino -> Nat]
    OBVIOUS
<1>2. \A c \in Casino : (opening[c] >= Required) \in BOOLEAN
    BY <1>1
<1>3. active \in [Casino -> BOOLEAN]
    BY <1>2
<1>4. TypeOK
    BY <1>1, <1>3 DEF TypeOK, Id, State, Unfinished
<1>5. CallsState
    BY DEF CallsState, CallState, Id
<1>6. ActiveIsInsured /\ AccessTyped
    BY DEF ActiveIsInsured, AccessTyped
<1> QED
    BY <1>4, <1>5, <1>6 DEF IInv

(* The inductive invariant holds in every reachable state.                 *)
THEOREM RequisitesInvariance ==
    ASSUME RequisitesAssumption
    PROVE  Spec => []IInv
<1>1. Init => IInv
    BY InitHasInv, RequisitesAssumption
<1>2. IInv /\ [Next]_vars => IInv'
  <2> SUFFICES ASSUME IInv, [Next]_vars PROVE IInv'
      OBVIOUS
  <2>1. ASSUME NEW q \in Request, BeginRequest(q) PROVE IInv'
      BY <2>1, BeginKeepsInv, RequisitesAssumption
  <2>2. ASSUME NEW q \in Request, Statement(q) PROVE IInv'
      BY <2>2, GetProfileKeepsInv, InsertKeepsInv, DeleteKeepsInv, TopUpKeepsInv,
         ChooseKeepsInv, ReserveKeepsInv, RequisitesAssumption DEF Statement
  <2>3. CASE Administer
      BY <2>3, AdministerKeepsInv, RequisitesAssumption
  <2>4. CASE Elsewhere
      BY <2>4, ElsewhereKeepsInv, RequisitesAssumption
  <2>5. CASE Stop /\ UNCHANGED <<casinoVars, rowVars, today, access, faults, changes>>
      BY <2>5, StopKeepsInv, RequisitesAssumption
  <2>6. CASE UNCHANGED vars
      BY <2>6 DEF vars, ownVars, IInv, TypeOK, CallsState, CallState, ActiveIsInsured, AccessTyped
  <2> QED
      BY <2>1, <2>2, <2>3, <2>4, <2>5, <2>6 DEF Next
<1> QED
    BY <1>1, <1>2, PTL DEF Spec

(* What a step of Requisites does to the state it shares with Sessions.    *)
LEMMA SharedSteps ==
    ASSUME (\E q \in Request : BeginRequest(q) \/ Statement(q)) \/ Administer
    PROVE  /\ access' = access
           /\ casinos' = casinos \/ \E c \in casinos : casinos' = casinos \ {c}
           /\ UNCHANGED faults \/ Fault
           /\ UNCHANGED changes \/ Change
<1>1. ASSUME NEW q \in Request, BeginRequest(q)
      PROVE  UNCHANGED <<access, casinos, faults, changes>>
    BY <1>1 DEF BeginRequest, BeginCreate, BeginDelete, BeginTopUp, BeginReserve, Begin, casinoVars
<1>2. ASSUME NEW q \in Request, Statement(q)
      PROVE  UNCHANGED <<access, casinos, changes>> /\ (UNCHANGED faults \/ Fault)
    BY <1>2 DEF Statement, GetProfile, Insert, Delete, TopUp, Choose, Reserve, casinoVars
<1>3. ASSUME NEW i \in Id, CreateIssued(i) \/ UpdateStatus(i) \/ UpdateOnlineStatus(i)
                              \/ DeleteRequisite(i)
      PROVE  UNCHANGED <<access, casinos, faults>> /\ (UNCHANGED changes \/ Change)
    BY <1>3 DEF CreateIssued, UpdateStatus, UpdateOnlineStatus, DeleteRequisite, casinoVars
<1>4. CASE ResetDailyLimits
    BY <1>4 DEF ResetDailyLimits, casinoVars
<1>5. ASSUME NEW c \in Casino, DeleteCasino(c)
      PROVE  /\ UNCHANGED <<access, faults>> /\ Change
             /\ \E d \in casinos : casinos' = casinos \ {d}
    BY <1>5 DEF DeleteCasino
<1> QED
    BY <1>1, <1>2, <1>3, <1>4, <1>5 DEF Administer

(* A trader's requisite belongs to a trader that exists and is insured,    *)
(* although the insurance was read before the requisite was inserted.      *)
THEOREM InsuredTraders ==
    ASSUME RequisitesAssumption
    PROVE  Spec => []OnlyInsuredTraders
<1>1. IInv => OnlyInsuredTraders
  <2> SUFFICES ASSUME IInv, NEW i \in requisites \ Issued
               PROVE  /\ Owner(i) \in casinos \cap Trader
                      /\ active[Owner(i)] /\ deposit[Owner(i)] >= Required
      BY DEF OnlyInsuredTraders
  <2>1. i \in Request /\ CallState(i) /\ Owner(i) = call[i].casino
      BY DEF IInv, TypeOK, Id, CallsState, Owner
  <2>2. casinos \subseteq Casino
      BY DEF IInv, TypeOK
  <2> QED
      BY <2>1, <2>2 DEF CallState, IInv, ActiveIsInsured
<1> QED
    BY <1>1, RequisitesInvariance, RequisitesAssumption, PTL
-----------------------------------------------------------------------------
(* The sums.  A top-up that was answered has been added to the deposit,    *)
(* and one that has been added was asked for; what is granted of a         *)
(* requisite was added to what is used of it, by the statement that looked *)
(* at the limit.                                                           *)

Amounts == [q \in Request |-> call[q].amount]

\* The requests that have come, of which there are finitely many.
Begun == {q \in Request : call[q].pc # "idle"}

\* Only a top-up runs the statements of one.
OpsFit ==
    \A q \in Request :
        /\ call[q].pc = "update" => call[q].op = "topup"
        /\ call[q].pc \in {"insert", "delete", "choose", "reserve"} => call[q].op # "topup"

GrantedIsDone == \A q \in today : call[q].pc = "done"

GrantedIsUsed == \A i \in requisites \cap Issued : Total(Reserved(i)) <= used[i]

OpeningTyped == opening \in [Casino -> Nat]

SumsInv ==
    /\ IsFiniteSet(Begun) /\ OpsFit /\ OpeningTyped
    /\ TopUpsCount /\ GrantedIsDone /\ GrantedIsUsed

Answered(c) == TopUps(c, {"profile", "done"})

Sent(c) == TopUps(c, {"profile", "done", "failed", "lost"})

(* The sets that are summed over are finite, and their amounts are numbers. *)
LEMMA SumsAreDefined ==
    ASSUME RequisitesAssumption, IInv, SumsInv
    PROVE  /\ \A q \in Request : Amounts[q] \in Int /\ Amounts[q] = call[q].amount
           /\ \A S \in SUBSET Begun : IsFiniteSet(S) /\ Total(S) \in Int
           /\ \A c : Answered(c) \subseteq Sent(c) /\ Sent(c) \subseteq Begun
           /\ \A i : Reserved(i) \subseteq Begun
<1>1. \A q \in Request : Amounts[q] \in Int /\ Amounts[q] = call[q].amount
    BY AmountsAreIntegers, RequisitesAssumption DEF IInv, Amounts
<1>2. ASSUME NEW S \in SUBSET Begun PROVE IsFiniteSet(S) /\ Total(S) \in Int
  <2>1. IsFiniteSet(S)
      BY FS_Subset DEF SumsInv
  <2>2. \A q \in S : Amounts[q] \in Int
      BY <1>1 DEF Begun
  <2>3. Total(S) = SumFunctionOnSet(Amounts, S)
      BY DEF Total, Amounts
  <2> QED
      BY <2>1, <2>2, <2>3, SumType
<1>3. \A c : Answered(c) \subseteq Sent(c) /\ Sent(c) \subseteq Begun
    BY DEF Answered, Sent, TopUps, Begun
<1>4. \A i : Reserved(i) \subseteq Begun
    BY DEF Reserved, Begun, SumsInv, GrantedIsDone, IInv, TypeOK
<1> QED
    BY <1>1, <1>2, <1>3, <1>4

(* What a step of the calls does to them: at most one begins, and a call   *)
(* that has begun keeps what it asked for.                                 *)
CallsGoOn ==
    /\ \E q : Begun' \subseteq Begun \cup {q}
    /\ \A q \in Begun :
          /\ call'[q].op = call[q].op /\ call'[q].casino = call[q].casino
          /\ call'[q].amount = call[q].amount
          /\ call'[q].pc # "idle"
          /\ call[q].pc = "done" => call'[q] = call[q]

(* The sum over calls that have begun stays what it was.                   *)
LEMMA TotalsStay ==
    ASSUME RequisitesAssumption, IInv, SumsInv, CallsGoOn, NEW S \in SUBSET Begun
    PROVE  SumFunctionOnSet(Amounts', S) = Total(S)
<1>1. \A q \in S : Amounts[q] \in Int /\ Amounts[q] = Amounts'[q]
  <2>1. \A q \in Request : Amounts[q] \in Int /\ Amounts[q] = call[q].amount
      BY SumsAreDefined, RequisitesAssumption
  <2>2. \A q \in Request : Amounts'[q] = call'[q].amount
      BY DEF Amounts
  <2>3. \A q \in S : q \in Request /\ call'[q].amount = call[q].amount
      BY DEF CallsGoOn, Begun
  <2> QED
      BY <2>1, <2>2, <2>3
<1>2. IsFiniteSet(S)
    BY SumsAreDefined, RequisitesAssumption
<1>3. Total(S) = SumFunctionOnSet(Amounts, S)
    BY DEF Total, Amounts
<1> QED
    BY <1>1, <1>2, <1>3, SumAgrees

(* Only finitely many calls have begun after a step.                       *)
LEMMA BegunStaysFinite ==
    ASSUME SumsInv, CallsGoOn
    PROVE  IsFiniteSet(Begun')
<1>1. PICK q : Begun' \subseteq Begun \cup {q}
    BY DEF CallsGoOn
<1>2. IsFiniteSet(Begun \cup {q})
    BY FS_AddElement DEF SumsInv
<1> QED
    BY <1>1, <1>2, FS_Subset

TopUpsFit(c) ==
    /\ opening[c] + Total(Answered(c)) <= deposit[c]
    /\ deposit[c] <= opening[c] + Total(Sent(c))

(* A casino's deposit stays between its sums when it grows by the amounts  *)
(* of X, which is nothing or one top-up; what is answered comes from X,    *)
(* and all of X has been sent.                                             *)
LEMMA DepositFollows ==
    ASSUME RequisitesAssumption, IInv, IInv', SumsInv, CallsGoOn,
           NEW c \in casinos, NEW X, NEW d,
           \/ X = {} /\ d = 0
           \/ \E q \in Begun \ Sent(c) : X = {q} /\ d = call[q].amount,
           Answered(c)' \subseteq Answered(c) \cup X,
           Sent(c) \cup X \subseteq Sent(c)',
           opening'[c] = opening[c], deposit'[c] = deposit[c] + d
    PROVE  TopUpsFit(c)'
<1>1. /\ \A q \in Request : Amounts'[q] \in Int /\ Amounts'[q] = call'[q].amount
      /\ Sent(c)' \subseteq Begun'
  <2>1. \A q \in Request : call'[q].amount \in Int
    <3> SUFFICES ASSUME NEW q \in Request PROVE call'[q].amount \in Int
        OBVIOUS
    <3>1. call'[q].amount \in Sums \cup {0}
        BY DEF IInv, TypeOK
    <3>2. CASE call'[q].amount \in Sums
        BY <3>2, RequisitesAssumption, Zenon DEF RequisitesAssumption
    <3>3. CASE call'[q].amount = 0
        BY <3>3
    <3> QED
        BY <3>1, <3>2, <3>3
  <2>2. \A q \in Request : Amounts'[q] = call'[q].amount
      BY DEF Amounts
  <2>3. Sent(c)' \subseteq Begun'
      BY DEF Sent, TopUps, Begun
  <2> QED
      BY <2>1, <2>2, <2>3
<1> DEFINE A == Answered(c)
           S == Sent(c)
           A1 == Answered(c)'
           S1 == Sent(c)'
           v == Amounts'
<1>2. \A q \in S1 : v[q] \in Nat
  <2>1. \A q \in S1 : q \in Request /\ call'[q].amount > 0
      BY DEF Sent, TopUps
  <2> QED
      BY <1>1, <2>1
<1>3. IsFiniteSet(S1)
    BY <1>1, BegunStaysFinite, FS_Subset
<1>4. A \subseteq S /\ S \subseteq Begun
    BY SumsAreDefined, RequisitesAssumption
<1>5. SumFunctionOnSet(v, A) = Total(A) /\ SumFunctionOnSet(v, S) = Total(S)
    BY <1>4, TotalsStay, RequisitesAssumption
<1>6. Total(A) \in Int /\ Total(S) \in Int /\ opening[c] \in Int /\ deposit[c] \in Int
  <2>1. Total(A) \in Int /\ Total(S) \in Int
      BY <1>4, SumsAreDefined, RequisitesAssumption
  <2>2. c \in Casino /\ deposit[c] \in Nat
      BY DEF IInv, TypeOK
  <2> QED
      BY <2>1, <2>2 DEF SumsInv, OpeningTyped
<1>7. opening[c] + Total(A) <= deposit[c] /\ deposit[c] <= opening[c] + Total(S)
    BY DEF SumsInv, TopUpsCount, Answered, Sent
<1>8. A1 \subseteq A \cup X /\ S \cup X \subseteq S1 /\ A \cup X \subseteq S1
    BY <1>4
<1>9. Total(Answered(c))' = SumFunctionOnSet(v, A1) /\ Total(Sent(c))' = SumFunctionOnSet(v, S1)
    BY DEF Total, Amounts
<1>10. d \in Int /\ \A T \in {A, S} : SumFunctionOnSet(v, T \cup X) = SumFunctionOnSet(v, T) + d
  <2>1. CASE X = {} /\ d = 0
      BY <1>5, <1>6, <2>1
  <2>2. ASSUME NEW q \in Begun \ Sent(c), X = {q}, d = call[q].amount
        PROVE  d \in Int /\ \A T \in {A, S} : SumFunctionOnSet(v, T \cup X) = SumFunctionOnSet(v, T) + d
    <3>1. v[q] = d /\ d \in Int
      <4>1. q \in Request /\ call'[q].amount = call[q].amount
          BY <2>2 DEF CallsGoOn, Begun
      <4> QED
          BY <1>1, <2>2, <4>1
    <3> SUFFICES ASSUME NEW T \in {A, S}
                 PROVE  SumFunctionOnSet(v, T \cup {q}) = SumFunctionOnSet(v, T) + v[q]
        BY <2>2, <3>1
    <3>2. T \subseteq S /\ q \notin T
        BY <1>4
    <3>3. IsFiniteSet(T)
        BY <1>3, <1>8, <3>2, FS_Subset
    <3>4. \A p \in T \cup {q} : v[p] \in Int
        BY <1>2, <1>8, <2>2, <3>2
    <3> HIDE DEF A, S, v
    <3> QED
        BY <3>2, <3>3, <3>4, SumAdds
  <2> QED
      BY <2>1, <2>2
<1>11. TopUpsFit(c)' <=> /\ opening'[c] + Total(Answered(c))' <= deposit'[c]
                         /\ deposit'[c] <= opening'[c] + Total(Sent(c))'
    BY DEF TopUpsFit
<1>12. IsFiniteSet(A \cup X)
    BY <1>3, <1>8, FS_Subset
<1> HIDE DEF A, S, A1, S1, v
<1>13. SumFunctionOnSet(v, A1) <= SumFunctionOnSet(v, A \cup X)
    BY <1>2, <1>8, <1>12, SumGrows
<1>14. SumFunctionOnSet(v, S \cup X) <= SumFunctionOnSet(v, S1)
    BY <1>2, <1>3, <1>8, SumGrows
<1>15. SumFunctionOnSet(v, A1) \in Int /\ SumFunctionOnSet(v, S1) \in Int
  <2>1. \A q \in S1 : v[q] \in Int
      BY <1>2
  <2>2. IsFiniteSet(A1) /\ \A q \in A1 : v[q] \in Int
      BY <1>3, <1>8, <2>1, FS_Subset
  <2> QED
      BY <1>3, <2>1, <2>2, SumType
<1> QED
    BY <1>5, <1>6, <1>7, <1>9, <1>10, <1>11, <1>13, <1>14, <1>15

(* A deposit that does not change follows its sums when no top-up is       *)
(* answered that was not and none is forgotten.                            *)
LEMMA TopUpsStay ==
    ASSUME RequisitesAssumption, IInv, IInv', SumsInv, CallsGoOn,
           casinos' \subseteq casinos, UNCHANGED <<opening, deposit>>,
           \A c \in Casino : Answered(c)' \subseteq Answered(c) /\ Sent(c) \subseteq Sent(c)'
    PROVE  TopUpsCount'
<1>1. ASSUME NEW c \in casinos' PROVE TopUpsFit(c)'
  <2>1. c \in casinos /\ c \in Casino /\ deposit[c] \in Nat
      BY DEF IInv, TypeOK
  <2>2. deposit'[c] = deposit[c] + 0
      BY <2>1
  <2>3. Answered(c)' \subseteq Answered(c) \cup {} /\ Sent(c) \cup {} \subseteq Sent(c)'
      BY <2>1
  <2>4. opening'[c] = opening[c]
      OBVIOUS
  <2> QED
      BY <2>1, <2>2, <2>3, <2>4, DepositFollows, RequisitesAssumption
<1> QED
    BY <1>1 DEF TopUpsCount, TopUpsFit, Answered, Sent

(* What is granted of requisite i stays within what is used when neither   *)
(* is touched or more is used.                                             *)
LEMMA GrantStays ==
    ASSUME RequisitesAssumption, IInv, IInv', SumsInv, CallsGoOn,
           NEW i \in requisites \cap Issued, Reserved(i)' = Reserved(i), used'[i] >= used[i]
    PROVE  Total(Reserved(i))' <= used'[i]
<1>1. SumFunctionOnSet(Amounts', Reserved(i)) = Total(Reserved(i)) /\ Total(Reserved(i)) \in Int
    BY SumsAreDefined, TotalsStay, RequisitesAssumption
<1>2. Total(Reserved(i))' = SumFunctionOnSet(Amounts', Reserved(i)')
    BY DEF Total, Amounts
<1>3. Total(Reserved(i)) <= used[i]
    BY DEF SumsInv, GrantedIsUsed
<1>4. used[i] \in Int /\ used'[i] \in Int
    BY RequisitesAssumption DEF IInv, TypeOK, Id, RequisitesAssumption
<1> QED
    BY <1>1, <1>2, <1>3, <1>4

LEMMA GrantsStay ==
    ASSUME RequisitesAssumption, IInv, IInv', SumsInv, CallsGoOn,
           today' = today, requisites' \cap Issued \subseteq requisites,
           \A i \in requisites \cap Issued : used'[i] >= used[i]
    PROVE  GrantedIsDone' /\ GrantedIsUsed'
<1>1. \A q \in today : q \in Begun /\ call'[q] = call[q]
    BY DEF SumsInv, GrantedIsDone, CallsGoOn, Begun, IInv, TypeOK
<1>2. GrantedIsDone'
    BY <1>1 DEF SumsInv, GrantedIsDone
<1>3. \A i : Reserved(i)' = Reserved(i)
    BY <1>1 DEF Reserved
<1> QED
    BY <1>2, <1>3, GrantStays, RequisitesAssumption DEF GrantedIsUsed

(* A request begins: nothing of it is counted yet.                         *)
LEMMA BeginKeepsSums ==
    ASSUME RequisitesAssumption, IInv, IInv', SumsInv, NEW q \in Request, BeginRequest(q)
    PROVE  SumsInv'
<1>1. PICK r \in Call :
          /\ Begin(q, r)
          /\ \/ r.op # "topup" /\ r.pc \in {"profile", "delete", "choose"}
             \/ r.op = "topup" /\ r.pc = "update"
             \/ r.op = "topup" /\ r.pc = "failed" /\ ~(r.amount > 0)
  <2>1. Admitted \subseteq Casino
      BY DEF IInv, AccessTyped, Admitted, Merchants, Authenticated
  <2>2. CASE BeginCreate(q)
      BY <2>1, <2>2 DEF BeginCreate, Call, Unfinished
  <2>5. CASE BeginDelete(q)
      BY <2>1, <2>5 DEF BeginDelete, Call, Unfinished, IInv, TypeOK
  <2>3. CASE BeginTopUp(q)
    <3>1. PICK c \in Admitted, m \in Sums :
              Begin(q, [op |-> "topup", pc |-> IF m > 0 THEN "update" ELSE "failed",
                        casino |-> c, target |-> None, amount |-> m])
        BY <2>3 DEF BeginTopUp
    <3> QED
        BY <2>1, <3>1 DEF Call, Unfinished
  <2>4. CASE BeginReserve(q)
      BY <2>4 DEF BeginReserve, Positive, Call, Unfinished
  <2> QED
      BY <2>2, <2>3, <2>4, <2>5 DEF BeginRequest
<1>2. /\ call[q].pc = "idle" /\ call' = [call EXCEPT ![q] = r]
      /\ UNCHANGED <<casinos, opening, deposit, requisites, used, today>>
    BY <1>1 DEF Begin, casinoVars, rowVars
<1>3. call'[q] = r /\ \A p \in Request \ {q} : call'[p] = call[p]
    BY <1>2 DEF IInv, TypeOK
<1>4. CallsGoOn
    BY <1>2, <1>3 DEF CallsGoOn, Begun
<1>5. OpsFit'
    BY <1>1, <1>3 DEF SumsInv, OpsFit
<1>6. \A c \in Casino : Answered(c)' \subseteq Answered(c) /\ Sent(c) \subseteq Sent(c)'
  <2>1. \A c \in Casino : q \notin Answered(c)' /\ q \notin Sent(c)
      BY <1>1, <1>2, <1>3 DEF Answered, Sent, TopUps
  <2> QED
      BY <1>3, <2>1 DEF Answered, Sent, TopUps
<1>7. TopUpsCount'
    BY <1>2, <1>4, <1>6, TopUpsStay, RequisitesAssumption
<1>8. GrantedIsDone' /\ GrantedIsUsed'
  <2>1. \A i \in requisites \cap Issued : used'[i] >= used[i]
      BY <1>2, RequisitesAssumption DEF IInv, TypeOK, Id, RequisitesAssumption
  <2> QED
      BY <1>2, <1>4, <2>1, GrantsStay, RequisitesAssumption
<1> QED
    BY <1>2, <1>4, <1>5, <1>7, <1>8, BegunStaysFinite DEF SumsInv, OpeningTyped

(* A call that has begun moves on.                                         *)
LEMMA MovesGoOn ==
    ASSUME IInv, SumsInv, NEW q \in Request, call[q].pc \in Unfinished,
           NEW pc \in Unfinished \cup {"done", "failed"}, At(q, pc),
           pc \in {"done", "failed", "profile"} \/ (pc = "insert" /\ call[q].op # "topup")
    PROVE  CallsGoOn /\ OpsFit'
<1>1. /\ \A p \in Request \ {q} : call'[p] = call[p]
      /\ call'[q].op = call[q].op /\ call'[q].pc = pc
      /\ call'[q].casino = call[q].casino /\ call'[q].amount = call[q].amount
    BY AtMoves DEF IInv
<1>2. CallsGoOn
    BY <1>1 DEF CallsGoOn, Begun, Unfinished
<1>3. OpsFit'
    BY <1>1 DEF SumsInv, OpsFit
<1> QED
    BY <1>2, <1>3

(* A step of a call that is no top-up changes the deposit of no casino and *)
(* none of the sets summed over.                                           *)
LEMMA OthersKeepTopUps ==
    ASSUME NEW q \in Request, call[q].op # "topup", call'[q].op = call[q].op,
           \A p \in Request \ {q} : call'[p] = call[p]
    PROVE  \A c \in Casino : Answered(c)' = Answered(c) /\ Sent(c)' = Sent(c)
BY DEF Answered, Sent, TopUps

(* After the profile a top-up is answered, or failed although it counts.   *)
LEMMA GetProfileKeepsSums ==
    ASSUME RequisitesAssumption, IInv, IInv', SumsInv, NEW q \in Request, GetProfile(q)
    PROVE  SumsInv'
<1>1. /\ call[q].pc = "profile"
      /\ UNCHANGED <<casinos, opening, deposit, requisites, used, today>>
    BY DEF GetProfile, casinoVars, rowVars
<1>2. PICK pc \in {"done", "failed", "insert"} :
          At(q, pc) /\ (pc = "insert" => call[q].op = "create")
    BY DEF GetProfile
<1>3. CallsGoOn /\ OpsFit'
    BY <1>1, <1>2, MovesGoOn DEF Unfinished
<1>4. /\ \A p \in Request \ {q} : call'[p] = call[p]
      /\ call'[q].op = call[q].op /\ call'[q].pc = pc
      /\ call'[q].casino = call[q].casino /\ call'[q].amount = call[q].amount
    BY <1>2, AtMoves DEF IInv, Unfinished
<1>5. \A c \in Casino : Answered(c)' \subseteq Answered(c) /\ Sent(c) \subseteq Sent(c)'
    BY <1>1, <1>2, <1>4 DEF Answered, Sent, TopUps
<1>6. TopUpsCount'
    BY <1>1, <1>3, <1>5, TopUpsStay, RequisitesAssumption
<1>7. GrantedIsDone' /\ GrantedIsUsed'
  <2>1. \A i \in requisites \cap Issued : used'[i] >= used[i]
      BY <1>1, RequisitesAssumption DEF IInv, TypeOK, Id, RequisitesAssumption
  <2> QED
      BY <1>1, <1>3, <2>1, GrantsStay, RequisitesAssumption
<1> QED
    BY <1>1, <1>3, <1>6, <1>7, BegunStaysFinite DEF SumsInv, OpeningTyped

(* The calls about requisites leave deposits alone; unless one reserves,   *)
(* it leaves what is granted alone, too.                                   *)
LEMMA OthersKeepSums ==
    ASSUME RequisitesAssumption, IInv, IInv', SumsInv,
           NEW q \in Request, Insert(q) \/ Delete(q) \/ Choose(q)
    PROVE  SumsInv'
<1>1. /\ call[q].pc \in {"insert", "delete", "choose"}
      /\ UNCHANGED <<casinos, opening, deposit, today>>
      /\ UNCHANGED used \/ used' = [used EXCEPT ![q] = 0]
      /\ requisites' \subseteq requisites \cup {q}
    BY DEF Insert, NewRow, Delete, Choose, casinoVars, rowVars
<1>2. call[q].op # "topup"
    BY <1>1 DEF SumsInv, OpsFit
<1>3. /\ \A p \in Request \ {q} : call'[p] = call[p]
      /\ call'[q].op = call[q].op /\ call'[q].pc \in {"done", "failed", "reserve"}
      /\ call'[q].casino = call[q].casino /\ call'[q].amount = call[q].amount
    BY DEF Insert, Delete, Choose, At, IInv, TypeOK
<1>4. CallsGoOn
    BY <1>1, <1>3 DEF CallsGoOn, Begun
<1>5. OpsFit'
    BY <1>2, <1>3 DEF SumsInv, OpsFit
<1>6. TopUpsCount'
    BY <1>1, <1>2, <1>3, <1>4, OthersKeepTopUps, TopUpsStay, RequisitesAssumption
<1>7. GrantedIsDone' /\ GrantedIsUsed'
  <2>1. q \notin Issued
      BY RequisitesAssumption DEF RequisitesAssumption
  <2>2. \A i \in requisites \cap Issued : used'[i] >= used[i]
    <3> SUFFICES ASSUME NEW i \in requisites \cap Issued PROVE used'[i] >= used[i]
        OBVIOUS
    <3>1. used[i] \in Int /\ i \in Id
        BY RequisitesAssumption DEF IInv, TypeOK, Id, RequisitesAssumption
    <3>2. used'[i] = used[i]
        BY <1>1, <2>1, <3>1 DEF IInv, TypeOK
    <3> QED
        BY <3>1, <3>2
  <2>3. requisites' \cap Issued \subseteq requisites
      BY <1>1, <2>1
  <2> QED
      BY <1>1, <1>4, <2>2, <2>3, GrantsStay, RequisitesAssumption
<1> QED
    BY <1>1, <1>4, <1>5, <1>6, <1>7, BegunStaysFinite DEF SumsInv, OpeningTyped

(* The statement that adds to the deposit makes the top-up one that has    *)
(* been sent, and one that is answered only if it succeeds.                *)
LEMMA TopUpKeepsSums ==
    ASSUME RequisitesAssumption, IInv, IInv', SumsInv, NEW q \in Request, TopUp(q)
    PROVE  SumsInv'
<1> DEFINE c == call[q].casino
           m == call[q].amount
<1>1. /\ call[q].pc = "update"
      /\ UNCHANGED <<casinos, opening, requisites, used, today>>
    BY DEF TopUp, rowVars
<1>2. PICK pc \in {"profile", "failed"} :
          /\ At(q, pc)
          /\ \/ c \in casinos /\ deposit' = [deposit EXCEPT ![c] = deposit[c] + m]
             \/ (c \notin casinos \/ pc = "failed") /\ deposit' = deposit
    BY DEF TopUp
<1>3. /\ \A p \in Request \ {q} : call'[p] = call[p]
      /\ call'[q].op = call[q].op /\ call'[q].pc = pc
      /\ call'[q].casino = c /\ call'[q].amount = m
    BY <1>2, AtMoves DEF IInv, Unfinished
<1>4. CallsGoOn /\ OpsFit'
    BY <1>1, <1>2, MovesGoOn DEF Unfinished
<1>5. c \in Casino /\ m > 0 /\ call[q].op = "topup" /\ q \in Begun
    BY <1>1 DEF IInv, CallsState, CallState, SumsInv, OpsFit, Begun
<1>6. \A d : /\ q \notin Sent(d) /\ q \notin Answered(d)
             /\ q \in Sent(d)' <=> d = c
             /\ q \in Answered(d)' <=> d = c /\ pc = "profile"
             /\ \A p \in Request \ {q} : /\ p \in Sent(d)' <=> p \in Sent(d)
                                         /\ p \in Answered(d)' <=> p \in Answered(d)
    BY <1>1, <1>3, <1>5 DEF Sent, Answered, TopUps
<1>7. \A d : Sent(d) \subseteq Request /\ Sent(d)' \subseteq Request
                 /\ Answered(d) \subseteq Request /\ Answered(d)' \subseteq Request
    BY DEF Sent, Answered, TopUps
<1> HIDE DEF c, m
<1>8. TopUpsCount'
  <2>1. CASE c \in casinos /\ deposit' = [deposit EXCEPT ![c] = deposit[c] + m]
    <3>1. ASSUME NEW d \in casinos' PROVE TopUpsFit(d)'
      <4>1. d \in casinos /\ d \in Casino /\ deposit[d] \in Nat
          BY <1>1 DEF IInv, TypeOK
      <4>2. opening'[d] = opening[d]
          BY <1>1
      <4>3. CASE d = c
        <5>1. deposit'[d] = deposit[d] + m
            BY <2>1, <4>1, <4>3 DEF IInv, TypeOK
        <5>2. q \in Begun \ Sent(d) /\ m = call[q].amount
            BY <1>5, <1>6 DEF m
        <5>3. Answered(d)' \subseteq Answered(d) \cup {q} /\ Sent(d) \cup {q} \subseteq Sent(d)'
            BY <1>6, <1>7, <4>3
        <5> QED
            BY <1>4, <4>1, <4>2, <5>1, <5>2, <5>3, DepositFollows, RequisitesAssumption
      <4>4. CASE d # c
        <5>1. deposit'[d] = deposit[d] + 0
            BY <2>1, <4>1, <4>4 DEF IInv, TypeOK
        <5>2. Answered(d)' \subseteq Answered(d) \cup {} /\ Sent(d) \cup {} \subseteq Sent(d)'
            BY <1>6, <1>7, <4>4
        <5> QED
            BY <1>4, <4>1, <4>2, <5>1, <5>2, DepositFollows, RequisitesAssumption
      <4> QED
          BY <4>3, <4>4
    <3> QED
        BY <3>1 DEF TopUpsCount, TopUpsFit, Answered, Sent
  <2>2. CASE (c \notin casinos \/ pc = "failed") /\ deposit' = deposit
    <3>1. ASSUME NEW d \in casinos' PROVE TopUpsFit(d)'
      <4>1. d \in casinos /\ d \in Casino /\ deposit[d] \in Nat
          BY <1>1 DEF IInv, TypeOK
      <4>2. opening'[d] = opening[d] /\ deposit'[d] = deposit[d] + 0
          BY <1>1, <2>2, <4>1
      <4>3. Answered(d)' \subseteq Answered(d) \cup {} /\ Sent(d) \cup {} \subseteq Sent(d)'
          BY <1>6, <1>7, <2>2, <4>1
      <4> QED
          BY <1>4, <4>1, <4>2, <4>3, DepositFollows, RequisitesAssumption
    <3> QED
        BY <3>1 DEF TopUpsCount, TopUpsFit, Answered, Sent
  <2> QED
      BY <1>2, <2>1, <2>2
<1>9. GrantedIsDone' /\ GrantedIsUsed'
  <2>1. \A i \in requisites \cap Issued : used'[i] >= used[i]
      BY <1>1, RequisitesAssumption DEF IInv, TypeOK, Id, RequisitesAssumption
  <2> QED
      BY <1>1, <1>4, <2>1, GrantsStay, RequisitesAssumption
<1> QED
    BY <1>1, <1>4, <1>8, <1>9, BegunStaysFinite DEF SumsInv, OpeningTyped

(* The statement that reserves looks at the limit; what it grants it has   *)
(* added to what is used.                                                  *)
LEMMA ReserveKeepsSums ==
    ASSUME RequisitesAssumption, IInv, IInv', SumsInv, NEW q \in Request, Reserve(q)
    PROVE  SumsInv'
<1> DEFINE i == call[q].target
           sum == used[i] + call[q].amount
<1>1. call[q].pc = "reserve" /\ UNCHANGED <<requisites, casinos, opening, deposit>>
    BY DEF Reserve, casinoVars
<1>2. PICK pc \in {"done", "failed"} :
          /\ At(q, pc)
          /\ \/ pc = "done" /\ i \in requisites /\ used' = [used EXCEPT ![i] = sum]
                /\ today' = today \cup {q}
             \/ /\ today' = today
                /\ UNCHANGED used \/ (i \in requisites /\ used' = [used EXCEPT ![i] = sum])
    BY DEF Reserve
<1>3. CallsGoOn /\ OpsFit'
    BY <1>1, <1>2, MovesGoOn DEF Unfinished
<1>4. /\ \A p \in Request \ {q} : call'[p] = call[p]
      /\ call'[q].op = call[q].op /\ call'[q].pc = pc
      /\ call'[q].amount = call[q].amount
    BY <1>2, AtMoves DEF IInv, Unfinished
<1>5. call[q].op # "topup" /\ q \in Begun /\ q \notin today
    BY <1>1 DEF SumsInv, OpsFit, Begun, GrantedIsDone
<1>6. TopUpsCount'
    BY <1>1, <1>3, <1>4, <1>5, OthersKeepTopUps, TopUpsStay, RequisitesAssumption
<1>7. call[q].amount \in Int /\ call[q].amount > 0
    BY <1>1, AmountsAreIntegers, RequisitesAssumption DEF IInv, CallsState, CallState
<1>8. \A j \in requisites : j \in Id /\ used[j] \in Int /\ used'[j] \in Int
    BY <1>1, RequisitesAssumption DEF IInv, TypeOK, Id, RequisitesAssumption
<1>9. \A j \in requisites : /\ used'[j] >= used[j]
                            /\ pc = "done" /\ today' # today /\ j = i => used'[j] = used[j] + call[q].amount
  <2> SUFFICES ASSUME NEW j \in requisites
               PROVE  /\ used'[j] >= used[j]
                      /\ pc = "done" /\ today' # today /\ j = i => used'[j] = used[j] + call[q].amount
      OBVIOUS
  <2>1. j \in Id /\ used[j] \in Int /\ used \in [Id -> 0..Limit]
      BY <1>8 DEF IInv, TypeOK
  <2>2. CASE used' = used /\ today' = today
      BY <2>1, <2>2
  <2>3. CASE used' = [used EXCEPT ![i] = sum]
    <3>1. CASE j = i
        BY <1>7, <2>1, <2>3, <3>1
    <3>2. CASE j # i
        BY <2>1, <2>3, <3>2
    <3> QED
        BY <3>1, <3>2
  <2> QED
      BY <1>2, <2>2, <2>3
<1>10. CASE today' = today
  <2>1. GrantedIsDone' /\ GrantedIsUsed'
      BY <1>1, <1>3, <1>9, <1>10, GrantsStay, RequisitesAssumption
  <2> QED
      BY <1>1, <1>3, <1>6, <2>1, BegunStaysFinite DEF SumsInv, OpeningTyped
<1>11. CASE today' # today
  <2>1. pc = "done" /\ today' = today \cup {q}
      BY <1>2, <1>11
  <2>2. \A p \in today : p \in Request /\ p # q /\ call'[p] = call[p]
      BY <1>4, <1>5 DEF IInv, TypeOK
  <2>3. GrantedIsDone'
      BY <1>4, <2>1, <2>2 DEF SumsInv, GrantedIsDone
  <2>4. call'[q].target = i
      BY <1>2 DEF At, IInv, TypeOK
  <2>5. ASSUME NEW j \in requisites' \cap Issued
        PROVE  Total(Reserved(j))' <= used'[j]
    <3>1. j \in requisites \cap Issued /\ used'[j] >= used[j]
        BY <1>1, <1>9
    <3>2. CASE j # i
      <4>1. Reserved(j)' = Reserved(j)
          BY <2>1, <2>2, <2>4, <3>2 DEF Reserved
      <4> QED
          BY <1>3, <3>1, <4>1, GrantStays, RequisitesAssumption
    <3>3. CASE j = i
      <4>1. Reserved(j)' = Reserved(j) \cup {q} /\ q \notin Reserved(j)
          BY <1>5, <2>1, <2>2, <2>4, <3>3 DEF Reserved
      <4>2. /\ Reserved(j) \subseteq Begun /\ IsFiniteSet(Reserved(j)) /\ Total(Reserved(j)) \in Int
            /\ \A p \in Request : Amounts[p] \in Int /\ Amounts[p] = call[p].amount
          BY SumsAreDefined, RequisitesAssumption
      <4>3. SumFunctionOnSet(Amounts', Reserved(j)) = Total(Reserved(j))
          BY <1>3, <4>2, TotalsStay, RequisitesAssumption
      <4>4. \A p \in Request : Amounts'[p] = call'[p].amount
          BY DEF Amounts
      <4>5. \A p \in Reserved(j) \cup {q} : Amounts'[p] \in Int
        <5>1. \A p \in Reserved(j) : p \in today
            BY DEF Reserved
        <5> QED
            BY <1>4, <1>7, <2>2, <4>2, <4>4, <5>1
      <4>6. SumFunctionOnSet(Amounts', Reserved(j) \cup {q})
                = SumFunctionOnSet(Amounts', Reserved(j)) + Amounts'[q]
          BY <4>1, <4>2, <4>5, SumAdds
      <4>7. Total(Reserved(j))' = SumFunctionOnSet(Amounts', Reserved(j)')
          BY DEF Total, Amounts
      <4>8. Total(Reserved(j)) <= used[j]
          BY <3>1 DEF SumsInv, GrantedIsUsed
      <4>9. used'[j] = used[j] + call[q].amount /\ used[j] \in Int
          BY <1>8, <1>9, <1>11, <2>1, <3>1, <3>3
      <4>10. Amounts'[q] = call[q].amount
          BY <1>4, <4>4
      <4>11. Total(Reserved(j))' = Total(Reserved(j)) + call[q].amount
          BY <4>1, <4>3, <4>6, <4>7, <4>10
      <4> QED
          BY <1>7, <4>2, <4>8, <4>9, <4>11
    <3> QED
        BY <3>2, <3>3
  <2> QED
      BY <1>1, <1>3, <1>6, <2>3, <2>5, BegunStaysFinite DEF SumsInv, OpeningTyped, GrantedIsUsed
<1> QED
    BY <1>10, <1>11

(* An administrator's step may begin the counting of a requisite anew, or  *)
(* of all of them.                                                         *)
LEMMA AdministerKeepsSums ==
    ASSUME RequisitesAssumption, IInv, IInv', SumsInv, Administer
    PROVE  SumsInv'
<1>1. UNCHANGED <<call, opening, deposit>> /\ casinos' \subseteq casinos
    BY DEF Administer, CreateIssued, UpdateStatus, UpdateOnlineStatus, DeleteRequisite,
           ResetDailyLimits, DeleteCasino, casinoVars
<1>2. CallsGoOn
    BY <1>1 DEF CallsGoOn, Begun
<1>3. OpsFit' /\ OpeningTyped'
    BY <1>1 DEF SumsInv, OpsFit, OpeningTyped
<1>4. \A c \in Casino : Answered(c)' \subseteq Answered(c) /\ Sent(c) \subseteq Sent(c)'
    BY <1>1 DEF Answered, Sent, TopUps
<1>5. TopUpsCount'
    BY <1>1, <1>2, <1>4, TopUpsStay, RequisitesAssumption
<1>6. today' \subseteq today
    BY DEF Administer, CreateIssued, UpdateStatus, UpdateOnlineStatus, DeleteRequisite,
           ResetDailyLimits, DeleteCasino
<1>7. GrantedIsDone'
    BY <1>1, <1>6 DEF SumsInv, GrantedIsDone
<1>8. \A i \in Issued : used[i] \in Int /\ used'[i] \in Int /\ used'[i] >= 0
    BY RequisitesAssumption DEF IInv, TypeOK, Id, RequisitesAssumption
<1>9. GrantedIsUsed'
  <2> SUFFICES ASSUME NEW j \in requisites' \cap Issued PROVE Total(Reserved(j))' <= used'[j]
      BY DEF GrantedIsUsed
  <2>1. \/ Reserved(j)' = {}
        \/ j \in requisites /\ Reserved(j)' = Reserved(j) /\ used'[j] = used[j]
    <3>1. ASSUME NEW i \in Id, CreateIssued(i)
          PROVE  \/ Reserved(j)' = {}
                 \/ j \in requisites /\ Reserved(j)' = Reserved(j) /\ used'[j] = used[j]
      <4>1. /\ requisites' = requisites \cup {i} /\ used' = [used EXCEPT ![i] = 0]
            /\ today' = {q \in today : call[q].target # i}
          BY <3>1 DEF CreateIssued, NewRow
      <4>2. CASE j = i
          BY <1>1, <4>1, <4>2 DEF Reserved
      <4>3. CASE j # i
        <5>1. used'[j] = used[j]
            BY <4>1, <4>3 DEF IInv, TypeOK, Id
        <5> QED
            BY <1>1, <4>1, <4>3, <5>1 DEF Reserved
      <4> QED
          BY <4>2, <4>3
    <3>2. ASSUME UNCHANGED <<used, today>>, requisites' \subseteq requisites
          PROVE  j \in requisites /\ Reserved(j)' = Reserved(j) /\ used'[j] = used[j]
        BY <1>1, <3>2 DEF Reserved
    <3>3. ASSUME NEW i \in Id, UpdateStatus(i) \/ UpdateOnlineStatus(i) \/ DeleteRequisite(i)
          PROVE  UNCHANGED <<used, today>> /\ requisites' \subseteq requisites
        BY <3>3 DEF UpdateStatus, UpdateOnlineStatus, DeleteRequisite
    <3>4. CASE ResetDailyLimits
        BY <3>4 DEF ResetDailyLimits, Reserved
    <3>5. ASSUME NEW c \in Casino, DeleteCasino(c)
          PROVE  UNCHANGED <<used, today>> /\ requisites' \subseteq requisites
        BY <3>5 DEF DeleteCasino
    <3> QED
        BY <3>1, <3>2, <3>3, <3>4, <3>5 DEF Administer
  <2>2. CASE Reserved(j)' = {}
    <3>1. Total(Reserved(j))' = SumFunctionOnSet(Amounts', Reserved(j)')
        BY DEF Total, Amounts
    <3>2. SumFunctionOnSet(Amounts', {}) = 0
        BY SumOfNothing
    <3> QED
        BY <1>8, <2>2, <3>1, <3>2
  <2>3. CASE j \in requisites /\ Reserved(j)' = Reserved(j) /\ used'[j] = used[j]
    <3>1. j \in requisites \cap Issued /\ used'[j] >= used[j]
        BY <1>8, <2>3
    <3> QED
        BY <1>2, <2>3, <3>1, GrantStays, RequisitesAssumption
  <2> QED
      BY <2>1, <2>2, <2>3
<1> QED
    BY <1>2, <1>3, <1>5, <1>7, <1>9, BegunStaysFinite DEF SumsInv

(* A stop forgets no top-up that was sent, and answers none.               *)
LEMMA CallsStop ==
    ASSUME IInv, SumsInv, Stop
    PROVE  /\ CallsGoOn /\ OpsFit'
           /\ \A c \in Casino : Answered(c)' \subseteq Answered(c) /\ Sent(c) \subseteq Sent(c)'
<1>1. \A q \in Request :
          /\ call'[q].op = call[q].op /\ call'[q].casino = call[q].casino
          /\ call'[q].amount = call[q].amount
          /\ call'[q].pc = IF call[q].pc \in Unfinished THEN "lost" ELSE call[q].pc
          /\ call[q].pc = "done" => call'[q] = call[q]
    BY DEF Stop, IInv, TypeOK, Unfinished
<1>2. CallsGoOn
    BY <1>1 DEF CallsGoOn, Begun, Unfinished
<1>3. OpsFit'
    BY <1>1 DEF SumsInv, OpsFit
<1>4. \A c \in Casino : Answered(c)' \subseteq Answered(c) /\ Sent(c) \subseteq Sent(c)'
    BY <1>1 DEF Answered, Sent, TopUps, Unfinished
<1> QED
    BY <1>2, <1>3, <1>4

(* A step that leaves the sums' state alone but for a stop keeps them.     *)
LEMMA RestKeepsSums ==
    ASSUME RequisitesAssumption, IInv, IInv', SumsInv,
           Stop \/ call' = call,
           UNCHANGED <<casinos, opening, deposit, requisites, used, today>>
    PROVE  SumsInv'
<1>1. /\ CallsGoOn /\ OpsFit'
      /\ \A c \in Casino : Answered(c)' \subseteq Answered(c) /\ Sent(c) \subseteq Sent(c)'
  <2>1. CASE Stop
      BY <2>1, CallsStop
  <2>2. CASE call' = call
      BY <2>2 DEF CallsGoOn, Begun, SumsInv, OpsFit, Answered, Sent, TopUps
  <2> QED
      BY <2>1, <2>2
<1>2. TopUpsCount'
    BY <1>1, TopUpsStay, RequisitesAssumption
<1>3. GrantedIsDone' /\ GrantedIsUsed'
  <2>1. \A i \in requisites \cap Issued : used'[i] >= used[i]
      BY RequisitesAssumption DEF IInv, TypeOK, Id, RequisitesAssumption
  <2> QED
      BY <1>1, <2>1, GrantsStay, RequisitesAssumption
<1> QED
    BY <1>1, <1>2, <1>3, BegunStaysFinite DEF SumsInv, OpeningTyped

LEMMA InitHasSums ==
    ASSUME RequisitesAssumption, Init
    PROVE  SumsInv
<1>1. /\ opening \in [Casino -> Openings] /\ deposit = opening /\ today = {}
      /\ casinos = Casino /\ \A i \in Id : used[i] = 0
      /\ \A q \in Request : call[q].pc = "idle"
    BY DEF Init
<1>2. OpeningTyped
    BY <1>1, RequisitesAssumption DEF OpeningTyped, RequisitesAssumption
<1>3. Begun = {} /\ IsFiniteSet(Begun)
    BY <1>1, FS_EmptySet DEF Begun
<1>4. OpsFit /\ GrantedIsDone
    BY <1>1 DEF OpsFit, GrantedIsDone
<1>5. Total({}) = 0
    BY SumOfNothing DEF Total
<1>6. TopUpsCount
  <2> SUFFICES ASSUME NEW c \in casinos PROVE TopUpsFit(c)
      BY DEF TopUpsCount, TopUpsFit, Answered, Sent
  <2>1. Answered(c) = {} /\ Sent(c) = {}
      BY <1>1 DEF Answered, Sent, TopUps
  <2>2. opening[c] \in Nat /\ deposit[c] = opening[c]
      BY <1>1, <1>2 DEF OpeningTyped
  <2> QED
      BY <1>5, <2>1, <2>2 DEF TopUpsFit
<1>7. GrantedIsUsed
  <2> SUFFICES ASSUME NEW i \in Issued PROVE Total(Reserved(i)) <= used[i]
      BY DEF GrantedIsUsed
  <2>1. Reserved(i) = {} /\ used[i] = 0
      BY <1>1 DEF Reserved, Id
  <2> QED
      BY <1>5, <2>1
<1> QED
    BY <1>2, <1>3, <1>4, <1>6, <1>7 DEF SumsInv

(* The invariant of the sums holds in every reachable state.               *)
THEOREM SumsInvariance ==
    ASSUME RequisitesAssumption
    PROVE  Spec => []SumsInv
<1>1. Init => SumsInv
    BY InitHasSums, RequisitesAssumption
<1>2. IInv /\ IInv' /\ SumsInv /\ [Next]_vars => SumsInv'
  <2> SUFFICES ASSUME IInv, IInv', SumsInv, [Next]_vars PROVE SumsInv'
      OBVIOUS
  <2>1. ASSUME NEW q \in Request, BeginRequest(q) PROVE SumsInv'
      BY <2>1, BeginKeepsSums, RequisitesAssumption
  <2>2. ASSUME NEW q \in Request, Statement(q) PROVE SumsInv'
      BY <2>2, GetProfileKeepsSums, OthersKeepSums, TopUpKeepsSums, ReserveKeepsSums,
         RequisitesAssumption DEF Statement
  <2>3. CASE Administer
      BY <2>3, AdministerKeepsSums, RequisitesAssumption
  <2>4. CASE Elsewhere \/ UNCHANGED vars
    <3>1. UNCHANGED <<call, casinos, opening, deposit, requisites, used, today>>
        BY <2>4 DEF Elsewhere, vars, ownVars
    <3> QED
        BY <3>1, RestKeepsSums, RequisitesAssumption
  <2>5. CASE Stop /\ UNCHANGED <<casinoVars, rowVars, today, access, faults, changes>>
      BY <2>5, RestKeepsSums, RequisitesAssumption DEF casinoVars, rowVars
  <2> QED
      BY <2>1, <2>2, <2>3, <2>4, <2>5 DEF Next
<1> QED
    BY <1>1, <1>2, RequisitesInvariance, RequisitesAssumption, PTL DEF Spec

(* Every top-up that was answered is in the deposit, and nothing but       *)
(* top-ups that were asked for.                                            *)
THEOREM TopUpsAddUp ==
    ASSUME RequisitesAssumption
    PROVE  Spec => []TopUpsCount
<1>1. SumsInv => TopUpsCount
    BY DEF SumsInv
<1> QED
    BY <1>1, SumsInvariance, RequisitesAssumption, PTL

(* What is granted of a requisite since the last reset is within its limit. *)
THEOREM LimitsHold ==
    ASSUME RequisitesAssumption
    PROVE  Spec => []NeverOverReserved
<1>1. IInv /\ SumsInv => NeverOverReserved
  <2> SUFFICES ASSUME IInv, SumsInv, NEW i \in requisites \cap Issued
               PROVE  Total(Reserved(i)) <= Limit
      BY DEF NeverOverReserved
  <2>1. Total(Reserved(i)) \in Int
      BY SumsAreDefined, RequisitesAssumption
  <2>2. Total(Reserved(i)) <= used[i]
      BY DEF SumsInv, GrantedIsUsed
  <2>3. used[i] \in 0..Limit /\ Limit \in Nat
      BY RequisitesAssumption DEF IInv, TypeOK, Id, RequisitesAssumption
  <2> QED
      BY <2>1, <2>2, <2>3
<1> QED
    BY <1>1, RequisitesInvariance, SumsInvariance, RequisitesAssumption, PTL
=============================================================================
