--------------------------- MODULE SessionsProofs ---------------------------
(***************************************************************************)
(* Safety of login sessions for every set of users and requests.  The      *)
(* argument: of a login there is one token at most, counting the one that  *)
(* a request is about to store, and a request that has checked its token   *)
(* and not yet deleted it is the only one and uses that token.  A second   *)
(* request could only be one that uses the same token, which is noted.     *)
(***************************************************************************)
EXTENDS Sessions, TLAPS

Session ==
    [op : {"none", "login", "refresh", "logout"},
     pc : Unfinished \cup {"idle", "done", "failed", "lost"},
     user : User \cup {None}, token : Request \cup {None},
     login : Request \cup {None}, claims : Claims \cup {None}]

(* The requests whose claims have been read.                               *)
HasClaims(q) ==
    \/ session[q].op = "login" /\ session[q].pc \in {"store", "audit", "done"}
    \/ session[q].op = "refresh" /\ session[q].pc \in {"delete", "store", "done"}

(* Where a request of each kind may be.                                    *)
Place(op) ==
    CASE op = "none"    -> {"idle"}
      [] op = "login"   -> {"find", "store", "audit", "done", "failed", "lost"}
      [] op = "refresh" -> {"check", "find", "delete", "store", "done", "failed", "lost"}
      [] op = "logout"  -> {"delete", "done", "lost"}

(* A request that uses a token was given one that its client held.         *)
UsesToken(q) ==
    /\ session[q].token \in Held /\ session[q].token # q
    /\ session[q].user = session[session[q].token].user
    /\ session[q].login = session[session[q].token].login

(* The login that a request belongs to has ended, unless it is that login. *)
OfLogin(q) ==
    /\ session[q].user \in User /\ session[q].login \in Request
    /\ session[session[q].login].op = "login"
    /\ session[q].login # q => session[session[q].login].pc = "done"

SessionState(q) ==
    /\ session[q].pc \in Place(session[q].op)
    /\ session[q].op = "none" => session[q].login = None /\ session[q].token = None
    /\ session[q].op = "login" => session[q].login = q /\ session[q].token = None
    /\ session[q].op \in {"refresh", "logout"} => UsesToken(q)
    /\ session[q].op # "none" => OfLogin(q)
    /\ q \in tokens => /\ session[q].op \in {"login", "refresh"}
                       /\ session[q].pc \in {"audit", "done", "failed", "lost"}
    /\ HasClaims(q) => session[q].claims \in Claims

SessionsState == \A q \in Request : SessionState(q)

(* Two requests that use one token are noted while they run.               *)
RacesNoted ==
    \A p, q \in Request :
        /\ p # q /\ session[p].token = session[q].token /\ session[q].token # None
        /\ session[p].pc \in Unfinished /\ session[q].pc \in Unfinished
        => session[q].login \in loose

(* The tokens of a login, stored or about to be.                           *)
Current(l) == {t \in Request : session[t].login = l /\ (t \in tokens \/ session[t].pc = "store")}

(* The requests that have checked their token and not yet deleted it.      *)
Rotating(l) ==
    {q \in Request : /\ session[q].op = "refresh" /\ session[q].login = l
                     /\ session[q].pc \in {"find", "delete"}}

OneCurrent(l) ==
    /\ \A s, t \in Current(l) : s = t
    /\ \A p, q \in Rotating(l) : p = q
    /\ \A q \in Rotating(l), t \in Current(l) : session[q].token = t
    /\ l \in ended => Current(l) = {} /\ Rotating(l) = {}

RotationState ==
    /\ \A l \in Request \ loose : OneCurrent(l)
    /\ \A l \in ended : session[l].op = "login" /\ session[l].pc = "done"

(* HeldTokensWork, and as much of the tokens that are about to be answered. *)
HeldState ==
    faults = 0 =>
        \A t \in Request \ tokens :
            /\ session[t].op \in {"login", "refresh"} /\ session[t].pc \in {"audit", "done"}
            /\ session[t].user \in users
            => \E q \in Request : session[q].token = t /\ session[q].pc \in {"store", "done", "lost"}

(* What was noted of the user's row.                                       *)
RowsNoted ==
    \A q \in Request :
        /\ session[q].pc \in Unfinished => Row(session[q].user) \in rows[q]
        /\ HasClaims(q) => \E r \in rows[q] :
              /\ r.role = session[q].claims.role
              /\ session[q].op = "login" => r.status # "BLOCKED"

IInv == TypeOK /\ SessionsState /\ RacesNoted /\ RotationState /\ HeldState /\ RowsNoted

-----------------------------------------------------------------------------
(* What a statement does to the requests: one of them goes on.             *)

Moves(q, pc) ==
    /\ session' \in [Request -> Session]
    /\ \A p \in Request \ {q} : session'[p] = session[p]
    /\ session'[q].pc = pc
    /\ session'[q].op = session[q].op /\ session'[q].user = session[q].user
    /\ session'[q].token = session[q].token /\ session'[q].login = session[q].login

LEMMA AtMoves ==
    ASSUME TypeOK, NEW q \in Request, NEW pc \in Unfinished \cup {"done", "failed"}, At(q, pc)
    PROVE  Moves(q, pc) /\ session'[q].claims = session[q].claims
    BY DEF TypeOK, At, Moves, Session

LEMMA ClaimsMove ==
    ASSUME SessionsAssumption, TypeOK, NEW q \in Request, NEW pc \in Unfinished, NEW u \in User,
           session' = [session EXCEPT ![q].claims = ClaimsOf(u), ![q].pc = pc]
    PROVE  Moves(q, pc) /\ session'[q].claims = ClaimsOf(u) /\ ClaimsOf(u) \in Claims
<1>1. ClaimsOf(u) \in Claims
    BY DEF SessionsAssumption, TypeOK, ClaimsOf, Claims
<1> QED
    BY <1>1 DEF TypeOK, Moves, Session

LEMMA FaultsBounded ==
    ASSUME SessionsAssumption, TypeOK, UNCHANGED faults \/ Fault
    PROVE  faults' \in 0..MaxFaults /\ (faults' = 0 => faults = 0 /\ ~Fault)
    BY DEF SessionsAssumption, TypeOK, Fault

LEMMA ChangesBounded ==
    ASSUME SessionsAssumption, TypeOK, UNCHANGED changes \/ Change
    PROVE  changes' \in 0..MaxChanges
    BY DEF SessionsAssumption, TypeOK, Change

(* A request that goes on keeps the state of all, if it goes where its     *)
(* kind may go: nobody uses its token or waits for its login before it is  *)
(* done.                                                                   *)
LEMMA MoveKeepsState ==
    ASSUME SessionsAssumption, IInv, NEW q \in Request, session[q].pc \in Unfinished,
           NEW pc \in Place(session[q].op), Moves(q, pc),
           tokens' \subseteq tokens \cup {q},
           q \in tokens' => /\ session[q].op \in {"login", "refresh"}
                            /\ pc \in {"audit", "done", "failed", "lost"},
           HasClaims(q)' => session'[q].claims \in Claims
    PROVE  SessionsState'
<1> SUFFICES ASSUME NEW p \in Request PROVE SessionState(p)'
    BY DEF SessionsState
<1>1. SessionState(p) /\ SessionState(q)
    BY DEF IInv, SessionsState
<1>2. \A r \in Request : /\ session'[r].op = session[r].op /\ session'[r].user = session[r].user
                         /\ session'[r].token = session[r].token /\ session'[r].login = session[r].login
                         /\ session[r].pc = "done" => session'[r] = session[r]
    BY DEF Moves, Unfinished
<1>3. Held \subseteq Held' /\ Held \subseteq Request
    BY <1>2 DEF Held
<1>4. session[p].op \in {"refresh", "logout"} => UsesToken(p)'
    BY <1>1, <1>2, <1>3 DEF SessionState, UsesToken
<1>5. session[p].op # "none" => OfLogin(p)'
    BY <1>1, <1>2 DEF SessionState, OfLogin
<1>6. CASE p = q
    BY <1>1, <1>2, <1>4, <1>5, <1>6 DEF SessionState, Moves
<1>7. CASE p # q
  <2>1. session'[p] = session[p] /\ (p \in tokens' => p \in tokens)
      BY <1>7 DEF Moves
  <2>2. HasClaims(p)' => HasClaims(p)
      BY <2>1 DEF HasClaims
  <2> QED
      BY <1>1, <1>4, <1>5, <2>1, <2>2 DEF SessionState
<1> QED
    BY <1>6, <1>7

(* A request that goes on starts no race.                                  *)
LEMMA MoveKeepsRaces ==
    ASSUME IInv, NEW q \in Request, session[q].pc \in Unfinished,
           NEW pc, Moves(q, pc), loose \subseteq loose'
    PROVE  RacesNoted'
<1> SUFFICES ASSUME NEW r \in Request, NEW p \in Request, r # p,
                    session'[r].token = session'[p].token, session'[p].token # None,
                    session'[r].pc \in Unfinished, session'[p].pc \in Unfinished
             PROVE  session'[p].login \in loose'
    BY DEF RacesNoted
<1>1. \A s \in Request : /\ session'[s].token = session[s].token
                         /\ session'[s].login = session[s].login
                         /\ session'[s].pc \in Unfinished => session[s].pc \in Unfinished
    BY DEF Moves
<1> QED
    BY <1>1 DEF IInv, RacesNoted

(* Of the logins that no step adds to, the state is kept.                  *)
LEMMA ShrinkKeepsCurrent ==
    ASSUME NEW l, OneCurrent(l), Current(l)' \subseteq Current(l), Rotating(l)' \subseteq Rotating(l),
           \A q \in Rotating(l) : session'[q].token = session[q].token,
           l \in ended' => l \in ended
    PROVE  OneCurrent(l)'
    BY DEF OneCurrent

(* A step of q that adds to no login keeps the state of all logins.        *)
LEMMA MoveKeepsRotation ==
    ASSUME IInv, NEW q \in Request, session[q].pc \in Unfinished,
           NEW pc, Moves(q, pc), loose \subseteq loose', ended' = ended,
           tokens' \subseteq tokens \cup {q},
           pc # "store",
           q \in tokens' \ tokens => session[q].pc = "store",
           session[q].op = "refresh" /\ pc \in {"find", "delete"} => session[q].pc = "find"
    PROVE  RotationState'
<1>1. \A l \in ended' : session'[l].op = "login" /\ session'[l].pc = "done"
    BY DEF IInv, RotationState, Moves, TypeOK, Unfinished
<1>2. ASSUME NEW l \in Request \ loose' PROVE OneCurrent(l)'
  <2>1. \A p \in Request : session'[p].login = session[p].login /\ session'[p].op = session[p].op
                           /\ session'[p].token = session[p].token
      BY DEF Moves
  <2>2. Current(l)' \subseteq Current(l)
      BY <2>1 DEF Current, Moves
  <2>3. Rotating(l)' \subseteq Rotating(l)
      BY <2>1 DEF Rotating, Moves
  <2>4. \A p \in Rotating(l) : session'[p].token = session[p].token
      BY <2>1 DEF Rotating
  <2> QED
      BY <1>2, <2>2, <2>3, <2>4, ShrinkKeepsCurrent DEF IInv, RotationState
<1> QED
    BY <1>1, <1>2 DEF RotationState

(* A step of q after which the tokens that clients hold still work, if q   *)
(* goes on when it has deleted one.                                        *)
LEMMA MoveKeepsHeld ==
    ASSUME SessionsAssumption, IInv, NEW q \in Request, session[q].pc \in Unfinished,
           NEW pc, Moves(q, pc), users' = users,
           UNCHANGED faults \/ Fault,
           \A t \in tokens \ tokens' : faults' = 0 =>
               session[q].token = t /\ pc \in {"store", "done", "lost"},
           faults' = 0 /\ pc \in {"audit", "done"} /\ session[q].op \in {"login", "refresh"} =>
               session[q].pc = "audit" \/ session[q].user \notin users \/ q \in tokens',
           session[q].op = "refresh" /\ session[q].pc = "store" => pc \in {"done", "lost"}
    PROVE  HeldState'
<1> SUFFICES ASSUME faults' = 0, NEW t \in Request \ tokens',
                    session'[t].op \in {"login", "refresh"}, session'[t].pc \in {"audit", "done"},
                    session'[t].user \in users'
             PROVE  \E p \in Request : session'[p].token = t /\ session'[p].pc \in {"store", "done", "lost"}
    BY DEF HeldState
<1>1. faults = 0
    BY FaultsBounded, SessionsAssumption DEF IInv
<1>2. \A p \in Request : session'[p].op = session[p].op /\ session'[p].user = session[p].user
                         /\ session'[p].token = session[p].token
    BY DEF Moves
<1>3. CASE t \in tokens
    BY <1>2, <1>3 DEF Moves
<1>4. CASE t \notin tokens
  <2>1. session[t].pc \in {"audit", "done"}
      BY <1>2, <1>4 DEF Moves
  <2>2. PICK p \in Request : session[p].token = t /\ session[p].pc \in {"store", "done", "lost"}
      BY <1>1, <1>2, <1>4, <2>1 DEF IInv, HeldState
  <2>3. CASE p # q
      BY <1>2, <2>2, <2>3 DEF Moves
  <2>4. CASE p = q
    <3>1. session[q].pc = "store" /\ session[q].token # None
        BY <2>2, <2>4 DEF Unfinished, SessionsAssumption
    <3>2. session[q].op = "refresh"
        BY <3>1 DEF IInv, SessionsState, SessionState, Place, TypeOK
    <3> QED
        BY <1>2, <2>2, <2>4, <3>1, <3>2 DEF Moves
  <2> QED
      BY <2>3, <2>4
<1> QED
    BY <1>3, <1>4

(* A step of q that changes no user's row.                                 *)
LEMMA MoveKeepsRows ==
    ASSUME IInv, NEW q \in Request, session[q].pc \in Unfinished,
           NEW pc, Moves(q, pc), UNCHANGED <<status, role, rows>>,
           HasClaims(q)' => \/ HasClaims(q) /\ session'[q].claims = session[q].claims
                            \/ /\ session'[q].claims.role = role[session[q].user]
                               /\ session[q].op = "login" => status[session[q].user] # "BLOCKED"
    PROVE  RowsNoted'
<1> SUFFICES ASSUME NEW p \in Request
             PROVE  /\ session'[p].pc \in Unfinished => Row(session[p].user) \in rows[p]
                    /\ HasClaims(p)' => \E r \in rows[p] :
                          /\ r.role = session'[p].claims.role
                          /\ session[p].op = "login" => r.status # "BLOCKED"
    BY DEF RowsNoted, Row, Moves
<1>1. /\ session[p].pc \in Unfinished => Row(session[p].user) \in rows[p]
      /\ HasClaims(p) => \E r \in rows[p] :
            /\ r.role = session[p].claims.role
            /\ session[p].op = "login" => r.status # "BLOCKED"
    BY DEF IInv, RowsNoted
<1>2. CASE p # q
    BY <1>1, <1>2 DEF Moves, HasClaims
<1>3. CASE p = q
  <2>1. Row(session[q].user) \in rows[q]
      BY DEF IInv, RowsNoted
  <2>2. CASE HasClaims(q) /\ session'[q].claims = session[q].claims
      BY <1>1, <1>3, <2>1, <2>2
  <2>3. CASE /\ session'[q].claims.role = role[session[q].user]
             /\ session[q].op = "login" => status[session[q].user] # "BLOCKED"
      BY <1>3, <2>1, <2>3 DEF Row
  <2> QED
      BY <1>3, <2>1, <2>2, <2>3
<1> QED
    BY <1>2, <1>3

LEMMA MoveKeepsType ==
    ASSUME SessionsAssumption, TypeOK, NEW q \in Request, NEW pc, Moves(q, pc),
           UNCHANGED <<users, status, role, rows, casinos, changes>>,
           tokens' \subseteq tokens \cup {q}, audited' \subseteq audited \cup users,
           access' \subseteq access \cup Claims,
           loose' \subseteq Request, ended' \subseteq Request,
           UNCHANGED faults \/ Fault
    PROVE  TypeOK'
<1>1. faults' \in 0..MaxFaults
    BY FaultsBounded, SessionsAssumption
<1>2. session' \in [Request -> Session]
    BY DEF Moves
<1> QED
    BY <1>1, <1>2 DEF TypeOK, Session

-----------------------------------------------------------------------------
(* The statements of Login.                                                *)

LEMMA FindLoginKeepsInv ==
    ASSUME SessionsAssumption, IInv, NEW q \in Request, FindLogin(q)
    PROVE  IInv'
<1> DEFINE u == session[q].user
<1>1. /\ session[q].op = "login" /\ session[q].pc = "find" /\ session[q].pc \in Unfinished
      /\ UNCHANGED <<users, status, role, audited, tokens, access, loose, ended, rows, casinos, changes>>
      /\ UNCHANGED faults \/ Fault
    BY DEF FindLogin, userVars, Unfinished
<1>2. SessionState(q) /\ session[q].login = q /\ u \in User /\ q \notin tokens
    BY <1>1 DEF IInv, SessionsState, SessionState, OfLogin
<1>3. PICK pc \in {"store", "failed"} :
          /\ Moves(q, pc)
          /\ pc = "store" => /\ session'[q].claims = ClaimsOf(u) /\ ClaimsOf(u) \in Claims
                             /\ status[u] # "BLOCKED"
  <2>1. CASE At(q, "failed")
      BY <2>1, AtMoves DEF IInv
  <2>2. CASE /\ status[u] # "BLOCKED"
             /\ session' = [session EXCEPT ![q].claims = ClaimsOf(u), ![q].pc = "store"]
      BY <1>2, <2>2, ClaimsMove, SessionsAssumption DEF IInv, Unfinished
  <2> QED
      BY <2>1, <2>2 DEF FindLogin
<1>4. session'[q].op = "login" /\ session'[q].pc = pc
    BY <1>1, <1>3 DEF Moves
<1>5. TypeOK'
    BY <1>1, <1>3, MoveKeepsType, SessionsAssumption DEF IInv, TypeOK
<1>6. SessionsState'
    BY <1>1, <1>2, <1>3, <1>4, MoveKeepsState, SessionsAssumption DEF Place, HasClaims
<1>7. RacesNoted'
    BY <1>1, <1>3, MoveKeepsRaces
<1>8. RotationState'
  <2>1. CASE pc = "failed"
      BY <1>1, <1>2, <1>3, <2>1, MoveKeepsRotation
  <2>2. CASE pc = "store"
    <3>1. \A l \in ended' : session'[l].op = "login" /\ session'[l].pc = "done"
        BY <1>1, <1>3 DEF IInv, RotationState, Moves, TypeOK
    <3>2. \A p \in Request \ {q} : session[p].login # q
        BY <1>1 DEF IInv, SessionsState, SessionState, OfLogin, SessionsAssumption, Place, TypeOK
    <3>3. ASSUME NEW l \in Request \ loose' PROVE OneCurrent(l)'
      <4>1. CASE l = q
        <5>1. Current(q)' \subseteq {q} /\ Rotating(q)' = {}
            BY <1>3, <1>4, <3>2 DEF Current, Rotating, Moves
        <5>2. q \notin ended'
            BY <1>1 DEF IInv, RotationState
        <5> QED
            BY <4>1, <5>1, <5>2 DEF OneCurrent
      <4>2. CASE l # q
        <5>1. Current(l)' \subseteq Current(l) /\ Rotating(l)' \subseteq Rotating(l)
            BY <1>1, <1>2, <1>3, <4>2 DEF Current, Rotating, Moves
        <5>2. \A p \in Rotating(l) : session'[p].token = session[p].token
            BY <1>3 DEF Moves, Rotating
        <5> QED
            BY <1>1, <3>3, <5>1, <5>2, ShrinkKeepsCurrent DEF IInv, RotationState
      <4> QED
          BY <4>1, <4>2
    <3> QED
        BY <3>1, <3>3 DEF RotationState
  <2> QED
      BY <2>1, <2>2
<1>9. HeldState'
    BY <1>1, <1>3, MoveKeepsHeld, SessionsAssumption
<1>10. RowsNoted'
  <2>1. pc = "store" => session'[q].claims.role = role[u]
      BY <1>3 DEF ClaimsOf
  <2> QED
      BY <1>1, <1>3, <1>4, <2>1, MoveKeepsRows DEF HasClaims
<1> QED
    BY <1>5, <1>6, <1>7, <1>8, <1>9, <1>10 DEF IInv

LEMMA StoreFirstKeepsInv ==
    ASSUME SessionsAssumption, IInv, NEW q \in Request, StoreFirst(q)
    PROVE  IInv'
<1>1. /\ session[q].op = "login" /\ session[q].pc = "store" /\ session[q].pc \in Unfinished
      /\ UNCHANGED <<users, status, role, audited, access, loose, ended, rows, casinos, changes>>
      /\ UNCHANGED faults \/ Fault
      /\ tokens \subseteq tokens' /\ tokens' \subseteq tokens \cup {q}
    BY DEF StoreFirst, userVars, Unfinished, Stored
<1>2. PICK pc \in {"audit", "failed"} :
          At(q, pc) /\ (pc = "audit" => q \in tokens')
    BY DEF StoreFirst, Stored
<1>3. Moves(q, pc) /\ session'[q].claims = session[q].claims
    BY <1>2, AtMoves DEF IInv, Unfinished
<1>4. session[q].claims \in Claims /\ HasClaims(q)
    BY <1>1 DEF IInv, SessionsState, SessionState, HasClaims
<1>5. TypeOK'
    BY <1>1, <1>3, MoveKeepsType, SessionsAssumption DEF IInv, TypeOK
<1>6. SessionsState'
    BY <1>1, <1>3, <1>4, MoveKeepsState, SessionsAssumption DEF Place
<1>7. RacesNoted' /\ RotationState'
    BY <1>1, <1>3, MoveKeepsRaces, MoveKeepsRotation
<1>8. HeldState'
    BY <1>1, <1>2, <1>3, MoveKeepsHeld, SessionsAssumption
<1>9. RowsNoted'
    BY <1>1, <1>3, <1>4, MoveKeepsRows
<1> QED
    BY <1>5, <1>6, <1>7, <1>8, <1>9 DEF IInv

LEMMA WriteAuditKeepsInv ==
    ASSUME SessionsAssumption, IInv, NEW q \in Request, WriteAudit(q)
    PROVE  IInv'
<1>1. /\ session[q].pc = "audit" /\ session[q].pc \in Unfinished
      /\ UNCHANGED <<users, status, role, tokens, loose, ended, rows, casinos, changes>>
      /\ UNCHANGED faults \/ Fault
      /\ audited' \subseteq audited \cup users
      /\ At(q, "done") /\ access' = access \cup {session[q].claims}
    BY DEF WriteAudit, Answer, Unfinished
<1>2. session[q].op = "login"
    BY <1>1 DEF IInv, TypeOK, SessionsState, SessionState, Place
<1>3. Moves(q, "done") /\ session'[q].claims = session[q].claims
    BY <1>1, AtMoves DEF IInv
<1>4. session[q].claims \in Claims /\ HasClaims(q)
    BY <1>1, <1>2 DEF IInv, SessionsState, SessionState, HasClaims
<1>5. TypeOK'
    BY <1>1, <1>3, <1>4, MoveKeepsType, SessionsAssumption DEF IInv, TypeOK
<1>6. SessionsState'
    BY <1>1, <1>2, <1>3, <1>4, MoveKeepsState, SessionsAssumption DEF Place
<1>7. RacesNoted' /\ RotationState'
    BY <1>1, <1>3, MoveKeepsRaces, MoveKeepsRotation
<1>8. HeldState'
    BY <1>1, <1>2, <1>3, MoveKeepsHeld, SessionsAssumption
<1>9. RowsNoted'
    BY <1>1, <1>3, <1>4, MoveKeepsRows
<1> QED
    BY <1>5, <1>6, <1>7, <1>8, <1>9 DEF IInv

-----------------------------------------------------------------------------
(* The statements of Refresh and Logout.                                   *)

(* What a request that uses a token knows of it.                           *)
LEMMA TokenFacts ==
    ASSUME SessionsAssumption, IInv, NEW q \in Request, session[q].op \in {"refresh", "logout"}
    PROVE  /\ session[q].token \in Request \ {q} /\ session[q].token # None
           /\ session[session[q].token].pc = "done"
           /\ session[session[q].token].login = session[q].login
           /\ session[q].login \in Request \ {q} /\ session[session[q].login].op = "login"
           /\ session[session[q].login].pc = "done" /\ session[q].user \in User
<1>1. SessionState(q) /\ UsesToken(q) /\ OfLogin(q)
    BY DEF IInv, SessionsState, SessionState
<1>2. session[q].token \in Request /\ session[session[q].token].pc = "done"
    BY <1>1 DEF UsesToken, Held
<1>3. session[q].login # q
    BY <1>1 DEF OfLogin
<1> QED
    BY <1>1, <1>2, <1>3 DEF UsesToken, OfLogin, SessionsAssumption

(* A token that is stored is the only one of its login, and nobody else    *)
(* rotates it while q uses it.                                             *)
LEMMA CheckTokenKeepsInv ==
    ASSUME SessionsAssumption, IInv, NEW q \in Request, CheckToken(q)
    PROVE  IInv'
<1> DEFINE l == session[q].login
           t == session[q].token
<1>1. /\ session[q].pc = "check" /\ session[q].pc \in Unfinished
      /\ UNCHANGED <<users, status, role, audited, tokens, access, loose, ended, rows, casinos, changes>>
      /\ UNCHANGED faults \/ Fault
    BY DEF CheckToken, userVars, Unfinished
<1>2. session[q].op = "refresh" /\ q \notin tokens
    BY <1>1 DEF IInv, TypeOK, SessionsState, SessionState, Place
<1>3. PICK pc \in {"find", "failed"} : At(q, pc) /\ (pc = "find" => t \in tokens)
    BY DEF CheckToken
<1>4. Moves(q, pc) /\ session'[q].claims = session[q].claims
    BY <1>3, AtMoves DEF IInv, Unfinished
<1>5. ~HasClaims(q)'
    BY <1>2, <1>4 DEF HasClaims, Moves
<1>6. TypeOK'
    BY <1>1, <1>4, MoveKeepsType, SessionsAssumption DEF IInv, TypeOK
<1>7. SessionsState'
    BY <1>1, <1>2, <1>4, <1>5, MoveKeepsState, SessionsAssumption DEF Place
<1>8. RacesNoted' /\ HeldState' /\ RowsNoted'
    BY <1>1, <1>4, <1>5, MoveKeepsRaces, MoveKeepsHeld, MoveKeepsRows, SessionsAssumption
<1>9. CASE pc = "failed"
    BY <1>1, <1>2, <1>4, <1>6, <1>7, <1>8, <1>9, MoveKeepsRotation DEF IInv
<1>10. CASE pc = "find"
  <2>1. \A k \in ended' : session'[k].op = "login" /\ session'[k].pc = "done"
      BY <1>1, <1>4 DEF IInv, RotationState, Moves, TypeOK
  <2>2. t \in Current(l) /\ t # None /\ l \in Request
      BY <1>2, <1>3, <1>10, TokenFacts, SessionsAssumption DEF Current
  <2>3. ASSUME NEW k \in Request \ loose' PROVE OneCurrent(k)'
    <3>1. Current(k)' \subseteq Current(k)
        BY <1>1, <1>4, <1>10 DEF Current, Moves
    <3>2. OneCurrent(k)
        BY <1>1, <2>3 DEF IInv, RotationState
    <3>3. CASE k # l
      <4>1. Rotating(k)' \subseteq Rotating(k)
          BY <1>4, <3>3 DEF Rotating, Moves
      <4>2. \A p \in Rotating(k) : session'[p].token = session[p].token
          BY <1>4 DEF Moves, Rotating
      <4> QED
          BY <1>1, <3>1, <3>2, <4>1, <4>2, ShrinkKeepsCurrent
    <3>4. CASE k = l
      <4>1. \A p \in Rotating(k) : p = q
        <5> SUFFICES ASSUME NEW p \in Rotating(k), p # q PROVE FALSE
            OBVIOUS
        <5>1. session[p].token = t
            BY <2>2, <3>2, <3>4 DEF OneCurrent
        <5>2. session[p].pc \in Unfinished /\ p \in Request
            BY DEF Rotating, Unfinished
        <5>3. l \in loose
            BY <1>1, <2>2, <5>1, <5>2 DEF IInv, RacesNoted
        <5> QED
            BY <1>1, <2>3, <3>4, <5>3
      <4>2. Rotating(k)' \subseteq {q}
          BY <1>4, <4>1 DEF Rotating, Moves
      <4>3. session'[q].token = t /\ k \notin ended'
          BY <1>1, <1>4, <2>2, <3>2, <3>4 DEF Moves, OneCurrent
      <4>4. \A a \in Current(k) : a = t
          BY <2>2, <3>2, <3>4 DEF OneCurrent
      <4> HIDE DEF l, t
      <4> QED
          BY <3>1, <4>2, <4>3, <4>4 DEF OneCurrent
    <3> QED
        BY <3>3, <3>4
  <2>4. RotationState'
      BY <2>1, <2>3 DEF RotationState
  <2> QED
      BY <1>6, <1>7, <1>8, <2>4 DEF IInv
<1> QED
    BY <1>9, <1>10

LEMMA FindUserKeepsInv ==
    ASSUME SessionsAssumption, IInv, NEW q \in Request, FindUser(q)
    PROVE  IInv'
<1> DEFINE u == session[q].user
<1>1. /\ session[q].op = "refresh" /\ session[q].pc = "find" /\ session[q].pc \in Unfinished
      /\ UNCHANGED <<users, status, role, audited, tokens, access, loose, ended, rows, casinos, changes>>
      /\ UNCHANGED faults \/ Fault
    BY DEF FindUser, userVars, Unfinished
<1>2. u \in User /\ q \notin tokens
    BY <1>1 DEF IInv, SessionsState, SessionState, OfLogin
<1>3. PICK pc \in {"delete", "failed"} :
          /\ Moves(q, pc)
          /\ pc = "delete" => session'[q].claims = ClaimsOf(u) /\ ClaimsOf(u) \in Claims
  <2>1. CASE At(q, "failed")
      BY <2>1, AtMoves DEF IInv
  <2>2. CASE session' = [session EXCEPT ![q].claims = ClaimsOf(u), ![q].pc = "delete"]
      BY <1>2, <2>2, ClaimsMove, SessionsAssumption DEF IInv, Unfinished
  <2> QED
      BY <2>1, <2>2 DEF FindUser
<1>4. session'[q].op = "refresh" /\ session'[q].pc = pc
    BY <1>1, <1>3 DEF Moves
<1>5. TypeOK'
    BY <1>1, <1>3, MoveKeepsType, SessionsAssumption DEF IInv, TypeOK
<1>6. SessionsState'
    BY <1>1, <1>2, <1>3, <1>4, MoveKeepsState, SessionsAssumption DEF Place, HasClaims
<1>7. RacesNoted' /\ RotationState' /\ HeldState'
    BY <1>1, <1>2, <1>3, MoveKeepsRaces, MoveKeepsRotation, MoveKeepsHeld, SessionsAssumption
<1>8. RowsNoted'
  <2>1. pc = "delete" => session'[q].claims.role = role[u]
      BY <1>3 DEF ClaimsOf
  <2> QED
      BY <1>1, <1>3, <1>4, <2>1, MoveKeepsRows DEF HasClaims
<1> QED
    BY <1>5, <1>6, <1>7, <1>8 DEF IInv

(* The old token is deleted or the login noted; q is the only one that     *)
(* rotates, and its token is the only one, so that q's is when q stores it. *)
LEMMA DeleteOldKeepsInv ==
    ASSUME SessionsAssumption, IInv, NEW q \in Request, DeleteOld(q)
    PROVE  IInv'
<1> DEFINE t == session[q].token
<1>1. /\ session[q].op = "refresh" /\ session[q].pc = "delete" /\ session[q].pc \in Unfinished
      /\ UNCHANGED <<users, status, role, audited, access, ended, rows, casinos, changes>>
      /\ At(q, "store") /\ DeleteToken(q)
    BY DEF DeleteOld, userVars, Unfinished
<1>2. /\ UNCHANGED faults \/ Fault
      /\ tokens' \subseteq tokens /\ tokens \subseteq tokens' \cup {t}
      /\ loose' = loose \/ loose' = loose \cup {session[q].login}
      /\ session[q].login \in loose' \/ tokens' = tokens \ {t}
    BY <1>1 DEF DeleteToken
<1>3. /\ session[q].login \in Request /\ q \notin tokens /\ HasClaims(q)
      /\ session[q].claims \in Claims /\ t \in Request \ {q} /\ session[t].pc = "done"
    BY <1>1, TokenFacts, SessionsAssumption DEF IInv, SessionsState, SessionState, HasClaims
<1>4. Moves(q, "store") /\ session'[q].claims = session[q].claims
    BY <1>1, AtMoves DEF IInv, Unfinished
<1>5. TypeOK'
  <2>1. loose' \subseteq Request
      BY <1>2, <1>3 DEF IInv, TypeOK
  <2> QED
      BY <1>1, <1>2, <1>4, <2>1, MoveKeepsType, SessionsAssumption DEF IInv, TypeOK
<1>6. SessionsState'
    BY <1>1, <1>2, <1>3, <1>4, MoveKeepsState, SessionsAssumption DEF Place
<1>7. RacesNoted'
    BY <1>1, <1>2, <1>4, MoveKeepsRaces
<1>8. RotationState'
  <2>1. \A l \in ended' : session'[l].op = "login" /\ session'[l].pc = "done"
      BY <1>1, <1>4 DEF IInv, RotationState, Moves, TypeOK
  <2>2. ASSUME NEW l \in Request \ loose' PROVE OneCurrent(l)'
    <3>1. OneCurrent(l)
        BY <1>2, <2>2 DEF IInv, RotationState
    <3>2. CASE l # session[q].login
      <4>1. Current(l)' \subseteq Current(l) /\ Rotating(l)' \subseteq Rotating(l)
          BY <1>2, <1>4, <3>2 DEF Current, Rotating, Moves
      <4>2. \A p \in Rotating(l) : session'[p].token = session[p].token
          BY <1>4 DEF Moves, Rotating
      <4> QED
          BY <1>1, <3>1, <4>1, <4>2, ShrinkKeepsCurrent
    <3>3. CASE l = session[q].login
      <4>1. q \in Rotating(l)
          BY <1>1, <3>3 DEF Rotating
      <4>2. tokens' = tokens \ {t}
          BY <1>2, <2>2, <3>3
      <4>3. \A a \in Current(l) : a = t
          BY <3>1, <4>1 DEF OneCurrent
      <4>4. Current(l)' \subseteq {q}
        <5> SUFFICES ASSUME NEW a \in Current(l)', a # q PROVE FALSE
            OBVIOUS
        <5>1. a \in Current(l)
            BY <1>2, <1>4 DEF Current, Moves
        <5>2. a = t /\ session'[a].pc = "done"
            BY <1>3, <1>4, <4>3, <5>1 DEF Moves
        <5> QED
            BY <4>2, <5>2 DEF Current
      <4>5. Rotating(l)' = {} /\ l \notin ended'
          BY <1>1, <1>4, <3>1, <4>1 DEF Rotating, OneCurrent, Moves
      <4> QED
          BY <4>4, <4>5 DEF OneCurrent
    <3> QED
        BY <3>2, <3>3
  <2> QED
      BY <2>1, <2>2 DEF RotationState
<1>9. HeldState'
    BY <1>1, <1>2, <1>4, MoveKeepsHeld, SessionsAssumption
<1>10. RowsNoted'
    BY <1>1, <1>3, <1>4, MoveKeepsRows
<1> QED
    BY <1>5, <1>6, <1>7, <1>8, <1>9, <1>10 DEF IInv

LEMMA StoreNextKeepsInv ==
    ASSUME SessionsAssumption, IInv, NEW q \in Request, StoreNext(q)
    PROVE  IInv'
<1>1. /\ session[q].op = "refresh" /\ session[q].pc = "store" /\ session[q].pc \in Unfinished
      /\ UNCHANGED <<users, status, role, audited, loose, ended, rows, casinos, changes>>
      /\ UNCHANGED faults \/ Fault
      /\ tokens \subseteq tokens' /\ tokens' \subseteq tokens \cup {q}
      /\ At(q, "done") /\ access' = access \cup {session[q].claims}
    BY DEF StoreNext, Answer, userVars, Unfinished, Stored
<1>2. Moves(q, "done") /\ session'[q].claims = session[q].claims
    BY <1>1, AtMoves DEF IInv
<1>3. session[q].claims \in Claims /\ HasClaims(q)
    BY <1>1 DEF IInv, SessionsState, SessionState, HasClaims
<1>4. TypeOK'
    BY <1>1, <1>2, <1>3, MoveKeepsType, SessionsAssumption DEF IInv, TypeOK
<1>5. SessionsState'
    BY <1>1, <1>2, <1>3, MoveKeepsState, SessionsAssumption DEF Place
<1>6. RacesNoted' /\ RotationState'
    BY <1>1, <1>2, MoveKeepsRaces, MoveKeepsRotation
<1>7. faults' = 0 => session[q].user \notin users \/ q \in tokens'
    BY <1>1, FaultsBounded, SessionsAssumption DEF StoreNext, Stored, IInv
<1>8. HeldState'
    BY <1>1, <1>2, <1>7, MoveKeepsHeld, SessionsAssumption
<1>9. RowsNoted'
    BY <1>1, <1>2, <1>3, MoveKeepsRows
<1> QED
    BY <1>4, <1>5, <1>6, <1>8, <1>9 DEF IInv

(* The token that is deleted was the login's only one, and who rotates it  *)
(* is in a race with q.                                                    *)
LEMMA LogoutKeepsInv ==
    ASSUME SessionsAssumption, IInv, NEW q \in Request, Logout(q)
    PROVE  IInv'
<1> DEFINE t == session[q].token
<1>1. /\ session[q].op = "logout" /\ session[q].pc = "delete" /\ session[q].pc \in Unfinished
      /\ UNCHANGED <<users, status, role, audited, access, rows, casinos, changes>>
      /\ At(q, "done") /\ DeleteToken(q)
      /\ ended' = IF t \in tokens THEN ended \cup {session[q].login} ELSE ended
    BY DEF Logout, userVars, Unfinished
<1>2. /\ UNCHANGED faults \/ Fault
      /\ tokens' \subseteq tokens /\ tokens \subseteq tokens' \cup {t}
      /\ loose' = loose \/ loose' = loose \cup {session[q].login}
      /\ session[q].login \in loose' \/ tokens' = tokens \ {t}
    BY <1>1 DEF DeleteToken
<1>3. /\ session[q].login \in Request \ {q} /\ q \notin tokens /\ ~HasClaims(q)
      /\ t \in Request \ {q} /\ t # None
      /\ session[t].pc = "done" /\ session[t].login = session[q].login
      /\ session[session[q].login].op = "login" /\ session[session[q].login].pc = "done"
    BY <1>1, TokenFacts, SessionsAssumption DEF IInv, SessionsState, SessionState, HasClaims
<1>4. Moves(q, "done") /\ ~HasClaims(q)'
    BY <1>1, AtMoves DEF IInv, HasClaims, Moves
<1>5. TypeOK'
  <2>1. loose' \subseteq Request /\ ended' \subseteq Request
      BY <1>1, <1>2, <1>3 DEF IInv, TypeOK
  <2> QED
      BY <1>1, <1>2, <1>4, <2>1, MoveKeepsType, SessionsAssumption DEF IInv, TypeOK
<1>6. SessionsState'
    BY <1>1, <1>2, <1>3, <1>4, MoveKeepsState, SessionsAssumption DEF Place
<1>7. RacesNoted'
    BY <1>1, <1>2, <1>4, MoveKeepsRaces
<1>8. RotationState'
  <2>1. \A l \in ended' : session'[l].op = "login" /\ session'[l].pc = "done"
      BY <1>1, <1>3, <1>4 DEF IInv, RotationState, Moves, TypeOK
  <2>2. ASSUME NEW l \in Request \ loose' PROVE OneCurrent(l)'
    <3>1. OneCurrent(l) /\ Current(l)' \subseteq Current(l) /\ Rotating(l)' \subseteq Rotating(l)
        BY <1>2, <1>4, <2>2 DEF IInv, RotationState, Current, Rotating, Moves
    <3>2. \A p \in Rotating(l) : session'[p].token = session[p].token
        BY <1>4 DEF Moves, Rotating
    <3>3. CASE l # session[q].login \/ t \notin tokens
        BY <1>1, <3>1, <3>2, <3>3, ShrinkKeepsCurrent
    <3>4. CASE l = session[q].login /\ t \in tokens
      <4>1. t \in Current(l) /\ \A a \in Current(l) : a = t
          BY <1>3, <3>1, <3>4 DEF Current, OneCurrent
      <4>2. Current(l)' = {}
        <5>1. t \notin Current(l)'
            BY <1>2, <1>3, <1>4, <2>2, <3>4 DEF Current, Moves
        <5> QED
            BY <3>1, <4>1, <5>1
      <4>3. Rotating(l) = {}
        <5> SUFFICES ASSUME NEW p \in Rotating(l) PROVE FALSE
            OBVIOUS
        <5>1. p \in Request /\ p # q /\ session[p].pc \in Unfinished
            BY <1>1 DEF Rotating, Unfinished
        <5>2. session[p].token = t
            BY <3>1, <4>1 DEF OneCurrent
        <5>3. l \in loose
            BY <1>1, <1>3, <3>4, <5>1, <5>2 DEF IInv, RacesNoted
        <5> QED
            BY <1>2, <2>2, <5>3
      <4> QED
          BY <3>1, <4>2, <4>3 DEF OneCurrent
    <3> QED
        BY <3>3, <3>4
  <2> QED
      BY <2>1, <2>2 DEF RotationState
<1>9. HeldState'
    BY <1>1, <1>2, <1>4, MoveKeepsHeld, SessionsAssumption
<1>10. RowsNoted'
    BY <1>1, <1>4, MoveKeepsRows
<1> QED
    BY <1>5, <1>6, <1>7, <1>8, <1>9, <1>10 DEF IInv

-----------------------------------------------------------------------------
(* How request q begins as r.                                              *)
Begins(q, r) ==
    /\ Begin(q, r)
    /\ \/ /\ r.op = "login" /\ r.pc = "find" /\ r.token = None /\ r.login = q
          /\ r.user \in User /\ loose' = loose
       \/ /\ \/ r.op = "refresh" /\ r.pc = "check"
             \/ r.op = "logout" /\ r.pc = "delete"
          /\ r.token \in Held /\ r.user = session[r.token].user
          /\ r.login = session[r.token].login
          /\ loose' = IF \E p \in Request : session[p].token = r.token /\ session[p].pc \in Unfinished
                      THEN loose \cup {r.login} ELSE loose

(* A request begins.  If it uses a token that another request is using,    *)
(* the login is noted; nobody knows of a request that has not begun.       *)
LEMMA BeginKeepsInv ==
    ASSUME SessionsAssumption, IInv, NEW q \in Request, BeginRequest(q)
    PROVE  IInv'
<1>1. PICK r \in Session : Begins(q, r)
  <2>1. CASE BeginLogin(q)
      BY <2>1 DEF BeginLogin, Session, Unfinished, Begins
  <2>2. ASSUME NEW op, NEW pc, BeginWithToken(q, op, pc),
               \/ op = "refresh" /\ pc = "check"
               \/ op = "logout" /\ pc = "delete"
        PROVE  \E r \in Session : Begins(q, r)
    <3>1. PICK t \in Held :
              /\ Begin(q, [op |-> op, pc |-> pc, user |-> session[t].user, token |-> t,
                           login |-> session[t].login, claims |-> None])
              /\ loose' = IF \E p \in Request : session[p].token = t /\ session[p].pc \in Unfinished
                          THEN loose \cup {session[t].login} ELSE loose
        BY <2>2 DEF BeginWithToken
    <3> DEFINE r == [op |-> op, pc |-> pc, user |-> session[t].user, token |-> t,
                     login |-> session[t].login, claims |-> None]
    <3>2. r \in Session
        BY <2>2 DEF IInv, TypeOK, Session, Held, Unfinished
    <3>3. /\ r.op = op /\ r.pc = pc /\ r.user = session[t].user /\ r.token = t
          /\ r.login = session[t].login
        OBVIOUS
    <3>4. Begin(q, r)
        BY <3>1
    <3> HIDE DEF r
    <3> QED
        BY <2>2, <3>1, <3>2, <3>3, <3>4 DEF Begins
  <2> QED
      BY <2>1, <2>2 DEF BeginRequest, BeginRefresh, BeginLogout
<1> USE DEF Begins
<1>2. /\ session[q].pc = "idle" /\ session' = [session EXCEPT ![q] = r]
      /\ rows' = [rows EXCEPT ![q] = {Row(r.user)}]
      /\ UNCHANGED <<users, status, role, audited, tokens, access, ended, casinos, faults, changes>>
    BY <1>1 DEF Begins, Begin, userVars
<1>3. session'[q] = r /\ \A p \in Request \ {q} : session'[p] = session[p]
    BY <1>2 DEF IInv, TypeOK
<1>4. session[q].op = "none" /\ q \notin tokens
    BY <1>2 DEF IInv, TypeOK, SessionsState, SessionState, Place
<1>6. r.op # "login" =>
          /\ (r.op = "refresh" /\ r.pc = "check") \/ (r.op = "logout" /\ r.pc = "delete")
          /\ r.token \in Request \ {q} /\ r.token \in Held /\ r.token # None
          /\ r.user = session[r.token].user /\ r.login = session[r.token].login
          /\ r.user \in User /\ r.login \in Request /\ session[r.login].op = "login"
          /\ session[r.login].pc = "done"
  <2> SUFFICES ASSUME r.op # "login"
               PROVE  /\ (r.op = "refresh" /\ r.pc = "check") \/ (r.op = "logout" /\ r.pc = "delete")
                      /\ r.token \in Request \ {q} /\ r.token \in Held /\ r.token # None
                      /\ r.user = session[r.token].user /\ r.login = session[r.token].login
                      /\ r.user \in User /\ r.login \in Request /\ session[r.login].op = "login"
                      /\ session[r.login].pc = "done"
      OBVIOUS
  <2>1. r.token \in Request /\ r.token \in Held /\ session[r.token].pc = "done"
        /\ session[r.token].op \in {"login", "refresh"}
      BY <1>1 DEF Held
  <2>2. OfLogin(r.token)
      BY <2>1 DEF IInv, SessionsState, SessionState
  <2>3. r.user = session[r.token].user /\ r.login = session[r.token].login
        /\ ((r.op = "refresh" /\ r.pc = "check") \/ (r.op = "logout" /\ r.pc = "delete"))
      BY <1>1
  <2>4. r.token # q /\ r.token # None
      BY <1>2, <2>1 DEF SessionsAssumption
  <2>5. /\ r.user \in User /\ r.login \in Request /\ session[r.login].op = "login"
        /\ session[r.login].pc = "done"
      BY <2>1, <2>2, <2>3 DEF OfLogin
  <2> QED
      BY <2>1, <2>3, <2>4, <2>5
<1>7. TypeOK'
  <2>1. loose' \subseteq Request
      BY <1>1, <1>6 DEF IInv, TypeOK
  <2>2. session' \in [Request -> Session]
      BY <1>1, <1>2 DEF IInv, TypeOK, Session
  <2>3. rows' \in [Request -> SUBSET [status : Status, role : Role]]
      BY <1>1, <1>2, <1>6 DEF IInv, TypeOK, Row
  <2> QED
      BY <1>2, <2>1, <2>2, <2>3 DEF IInv, TypeOK, Session
<1>8. SessionsState'
  <2> SUFFICES ASSUME NEW p \in Request PROVE SessionState(p)'
      BY DEF SessionsState
  <2>1. Held' = Held
      BY <1>1, <1>2, <1>3, <1>6 DEF Held
  <2>2. CASE p # q
    <3>1. SessionState(p) /\ session'[p] = session[p]
        BY <1>3, <2>2 DEF IInv, SessionsState
    <3>2. session[p].op \in {"refresh", "logout"} => UsesToken(p)'
        BY <1>3, <1>4, <2>1, <3>1 DEF SessionState, UsesToken, Held
    <3>3. session[p].op # "none" => OfLogin(p)'
        BY <1>3, <1>4, <3>1 DEF SessionState, OfLogin
    <3> QED
        BY <1>2, <3>1, <3>2, <3>3 DEF SessionState, HasClaims
  <2>3. CASE p = q
    <3>1. r.op # "login" => UsesToken(q)'
        BY <1>3, <1>6, <2>1 DEF UsesToken
    <3>2. OfLogin(q)'
      <4>1. CASE r.op = "login"
          BY <1>1, <1>3, <4>1 DEF OfLogin
      <4>2. CASE r.op # "login"
          BY <1>2, <1>3, <1>6, <4>2 DEF OfLogin
      <4> QED
          BY <4>1, <4>2
    <3> QED
        BY <1>1, <1>2, <1>3, <1>4, <1>6, <2>3, <3>1, <3>2 DEF SessionState, HasClaims, Place
  <2> QED
      BY <2>2, <2>3
<1>9. RacesNoted'
  <2> SUFFICES ASSUME NEW s \in Request, NEW p \in Request, s # p,
                      session'[s].token = session'[p].token, session'[p].token # None,
                      session'[s].pc \in Unfinished, session'[p].pc \in Unfinished
               PROVE  session'[p].login \in loose'
      BY DEF RacesNoted
  <2>1. CASE s # q /\ p # q
      BY <1>1, <1>3, <2>1 DEF IInv, RacesNoted
  <2>2. CASE s = q \/ p = q
    <3>1. r.op # "login" /\ r.token # None
        BY <1>1, <1>3, <2>2
    <3>2. PICK o \in {s, p} \ {q} : session[o].token = r.token /\ session[o].pc \in Unfinished
        BY <1>3, <2>2
    <3>3. loose' = loose \cup {r.login}
        BY <1>1, <3>1, <3>2
    <3>4. session[o].op \in {"refresh", "logout"}
        BY <3>1, <3>2 DEF IInv, TypeOK, SessionsState, SessionState
    <3>5. session[o].login = r.login
        BY <1>6, <3>1, <3>2, <3>4, TokenFacts, SessionsAssumption
    <3> QED
        BY <1>3, <2>2, <3>2, <3>3, <3>5
  <2> QED
      BY <2>1, <2>2
<1>10. RotationState'
  <2>1. \A l \in ended' : session'[l].op = "login" /\ session'[l].pc = "done"
      BY <1>2, <1>3 DEF IInv, RotationState, TypeOK
  <2>2. ASSUME NEW l \in Request \ loose' PROVE OneCurrent(l)'
    <3>1. OneCurrent(l)
        BY <1>1, <2>2 DEF IInv, RotationState
    <3>2. Current(l)' \subseteq Current(l)
        BY <1>1, <1>2, <1>3, <1>4 DEF Current
    <3>3. Rotating(l)' \subseteq Rotating(l)
        BY <1>1, <1>3 DEF Rotating
    <3>4. \A p \in Rotating(l) : session'[p].token = session[p].token
        BY <1>3, <1>4 DEF Rotating
    <3> QED
        BY <1>2, <3>1, <3>2, <3>3, <3>4, ShrinkKeepsCurrent
  <2> QED
      BY <2>1, <2>2 DEF RotationState
<1>11. HeldState'
  <2> SUFFICES ASSUME faults = 0, NEW t \in Request \ tokens,
                      session'[t].op \in {"login", "refresh"}, session'[t].pc \in {"audit", "done"},
                      session'[t].user \in users
               PROVE  \E p \in Request : session'[p].token = t /\ session'[p].pc \in {"store", "done", "lost"}
      BY <1>2 DEF HeldState
  <2>1. t # q /\ session'[t] = session[t]
      BY <1>1, <1>3
  <2>2. PICK p \in Request : session[p].token = t /\ session[p].pc \in {"store", "done", "lost"}
      BY <2>1 DEF IInv, HeldState
  <2> QED
      BY <1>2, <1>3, <2>2
<1>12. RowsNoted'
  <2> SUFFICES ASSUME NEW p \in Request
               PROVE  /\ session'[p].pc \in Unfinished => Row(session'[p].user) \in rows'[p]
                      /\ HasClaims(p)' => \E n \in rows'[p] :
                            /\ n.role = session'[p].claims.role
                            /\ session'[p].op = "login" => n.status # "BLOCKED"
      BY <1>2 DEF RowsNoted, Row
  <2>1. CASE p # q
      BY <1>2, <1>3, <2>1 DEF IInv, RowsNoted, HasClaims, TypeOK
  <2>2. CASE p = q
    <3>1. rows'[q] = {Row(r.user)}
        BY <1>2 DEF IInv, TypeOK
    <3>2. ~HasClaims(q)'
        BY <1>1, <1>3 DEF HasClaims
    <3> QED
        BY <1>3, <2>2, <3>1, <3>2
  <2> QED
      BY <2>1, <2>2
<1> QED
    BY <1>7, <1>8, <1>9, <1>10, <1>11, <1>12 DEF IInv

-----------------------------------------------------------------------------
(* The other steps change no request, except that Stop ends them.          *)

LEMMA SameSessions ==
    ASSUME SessionsAssumption, IInv, session' = session, tokens' \subseteq tokens,
           ended' = ended, loose' = loose
    PROVE  SessionsState' /\ RacesNoted' /\ RotationState'
<1>1. SessionsState'
    BY DEF IInv, SessionsState, SessionState, UsesToken, OfLogin, HasClaims, Held
<1>2. RacesNoted'
    BY DEF IInv, RacesNoted
<1>3. ASSUME NEW l \in Request \ loose' PROVE OneCurrent(l)'
  <2>1. Current(l)' \subseteq Current(l) /\ Rotating(l)' \subseteq Rotating(l)
      BY DEF Current, Rotating
  <2> QED
      BY <1>3, <2>1, ShrinkKeepsCurrent DEF IInv, RotationState
<1>4. RotationState'
    BY <1>3 DEF IInv, RotationState
<1> QED
    BY <1>1, <1>2, <1>4

(* The requests under way note every row that u gets.                      *)
LEMMA RowChangeKeepsInv ==
    ASSUME SessionsAssumption, IInv, NEW u \in User, Observe(u),
           status' \in [User -> Status], role' \in [User -> Role],
           \A v \in User \ {u} : status'[v] = status[v] /\ role'[v] = role[v],
           UNCHANGED <<users, audited, tokens, session, access, loose, ended, casinos, faults>>,
           Change
    PROVE  IInv'
<1>1. SessionsState' /\ RacesNoted' /\ RotationState'
    BY SameSessions, SessionsAssumption
<1>2. \A q \in Request :
          rows'[q] = IF session[q].user = u /\ session[q].pc \in Unfinished
                     THEN rows[q] \cup {[status |-> status'[u], role |-> role'[u]]} ELSE rows[q]
    BY DEF Observe, Row
<1>3. TypeOK'
  <2>1. [status |-> status'[u], role |-> role'[u]] \in [status : Status, role : Role]
      OBVIOUS
  <2>2. rows' \in [Request -> SUBSET [status : Status, role : Role]]
      BY <2>1 DEF IInv, TypeOK, Observe, Row
  <2>3. changes' \in 0..MaxChanges
      BY ChangesBounded, SessionsAssumption DEF IInv
  <2> QED
      BY <2>2, <2>3 DEF IInv, TypeOK
<1>4. HeldState'
    BY DEF IInv, HeldState
<1>5. RowsNoted'
  <2> SUFFICES ASSUME NEW q \in Request
               PROVE  /\ session[q].pc \in Unfinished =>
                             [status |-> status'[session[q].user], role |-> role'[session[q].user]] \in rows'[q]
                      /\ HasClaims(q) => \E r \in rows'[q] :
                             /\ r.role = session[q].claims.role
                             /\ session[q].op = "login" => r.status # "BLOCKED"
      BY DEF RowsNoted, Row, HasClaims
  <2>1. rows[q] \subseteq rows'[q]
      BY <1>2
  <2>2. /\ session[q].pc \in Unfinished =>
               [status |-> status[session[q].user], role |-> role[session[q].user]] \in rows[q]
        /\ HasClaims(q) => \E r \in rows[q] :
               /\ r.role = session[q].claims.role
               /\ session[q].op = "login" => r.status # "BLOCKED"
      BY DEF IInv, RowsNoted, Row
  <2>3. session[q].pc \in Unfinished => session[q].user \in User
      BY DEF IInv, TypeOK, SessionsState, SessionState, Place, OfLogin, Unfinished
  <2> QED
      BY <1>2, <2>1, <2>2, <2>3
<1> QED
    BY <1>1, <1>3, <1>4, <1>5 DEF IInv

LEMMA AdministerKeepsInv ==
    ASSUME SessionsAssumption, IInv, Administer
    PROVE  IInv'
<1>1. ASSUME NEW u \in User, UpdateStatus(u) PROVE IInv'
  <2>1. /\ status' \in [User -> Status] /\ role' = role
        /\ \A v \in User \ {u} : status'[v] = status[v]
      BY <1>1 DEF UpdateStatus, IInv, TypeOK
  <2> QED
      BY <1>1, <2>1, RowChangeKeepsInv, SessionsAssumption DEF UpdateStatus, IInv, TypeOK
<1>2. ASSUME NEW u \in User, UpdateRole(u) PROVE IInv'
  <2>1. /\ role' \in [User -> Role] /\ status' = status
        /\ \A v \in User \ {u} : role'[v] = role[v]
      BY <1>2 DEF UpdateRole, IInv, TypeOK
  <2> QED
      BY <1>2, <2>1, RowChangeKeepsInv, SessionsAssumption DEF UpdateRole, IInv, TypeOK
<1>3. ASSUME NEW u \in User, DeleteUser(u) PROVE IInv'
  <2>1. /\ users' = users \ {u} /\ tokens' = {t \in tokens : session[t].user # u} /\ Change
        /\ UNCHANGED <<status, role, audited, session, access, loose, ended, rows, casinos, faults>>
      BY <1>3 DEF DeleteUser
  <2>2. SessionsState' /\ RacesNoted' /\ RotationState'
      BY <2>1, SameSessions, SessionsAssumption
  <2>3. TypeOK'
      BY <2>1, ChangesBounded, SessionsAssumption DEF IInv, TypeOK
  <2>4. HeldState' /\ RowsNoted'
      BY <2>1 DEF IInv, HeldState, RowsNoted, HasClaims, Row
  <2> QED
      BY <2>2, <2>3, <2>4 DEF IInv
<1> QED
    BY <1>1, <1>2, <1>3 DEF Administer

LEMMA ElsewhereKeepsInv ==
    ASSUME SessionsAssumption, IInv, Elsewhere
    PROVE  IInv'
<1>1. /\ UNCHANGED <<users, status, role, audited, tokens, session, access, loose, ended, rows>>
      /\ casinos' \subseteq casinos
      /\ UNCHANGED faults \/ Fault
      /\ UNCHANGED changes \/ Change
    BY DEF Elsewhere, ownVars
<1>2. SessionsState' /\ RacesNoted' /\ RotationState'
    BY <1>1, SameSessions, SessionsAssumption
<1>3. TypeOK'
    BY <1>1, FaultsBounded, ChangesBounded, SessionsAssumption DEF IInv, TypeOK
<1>4. HeldState' /\ RowsNoted'
    BY <1>1, FaultsBounded, SessionsAssumption DEF IInv, HeldState, RowsNoted, HasClaims, Row
<1> QED
    BY <1>2, <1>3, <1>4 DEF IInv

(* What ends is no longer in anybody's way, and what was answered stays.   *)
LEMMA StopKeepsInv ==
    ASSUME SessionsAssumption, IInv, Stop,
           UNCHANGED <<userVars, tokens, access, loose, ended, rows, casinos, faults, changes>>
    PROVE  IInv'
<1>1. UNCHANGED <<users, status, role, audited, tokens, access, loose, ended, rows, casinos, faults, changes>>
    BY DEF userVars
<1>2. session' \in [Request -> Session]
    BY DEF Stop, IInv, TypeOK, Session
<1>3. ASSUME NEW q \in Request
      PROVE  /\ session'[q].op = session[q].op /\ session'[q].user = session[q].user
             /\ session'[q].token = session[q].token /\ session'[q].login = session[q].login
             /\ session'[q].claims = session[q].claims
             /\ session'[q].pc = IF session[q].pc \in Unfinished THEN "lost" ELSE session[q].pc
    BY DEF Stop, IInv, TypeOK, Session
<1>4. TypeOK'
    BY <1>1, <1>2 DEF IInv, TypeOK, Session
<1>5. SessionsState'
  <2> SUFFICES ASSUME NEW q \in Request PROVE SessionState(q)'
      BY DEF SessionsState
  <2>1. SessionState(q)
      BY DEF IInv, SessionsState
  <2>2. Held' = Held
      BY <1>3 DEF Held, Unfinished
  <2>3. session[q].op \in {"refresh", "logout"} => UsesToken(q)'
      BY <1>3, <2>1, <2>2 DEF SessionState, UsesToken, Held
  <2>4. session[q].op # "none" => OfLogin(q)'
      BY <1>3, <2>1 DEF SessionState, OfLogin, Unfinished
  <2>5. session'[q].pc \in Place(session'[q].op)
    <3>1. session[q].op \in {"none", "login", "refresh", "logout"}
        BY DEF IInv, TypeOK
    <3>2. CASE session[q].pc \notin Unfinished
        BY <1>3, <2>1, <3>2 DEF SessionState
    <3>3. CASE session[q].pc \in Unfinished
        BY <1>3, <2>1, <3>1, <3>3 DEF SessionState, Place, Unfinished
    <3> QED
        BY <3>2, <3>3
  <2>6. HasClaims(q)' => HasClaims(q)
      BY <1>3 DEF HasClaims, Unfinished
  <2> QED
      BY <1>1, <1>3, <2>1, <2>3, <2>4, <2>5, <2>6 DEF SessionState, Unfinished
<1>6. RacesNoted'
    BY <1>3 DEF RacesNoted, Unfinished
<1>7. RotationState'
  <2>1. \A l \in ended' : session'[l].op = "login" /\ session'[l].pc = "done"
      BY <1>1, <1>3 DEF IInv, RotationState, TypeOK, Unfinished
  <2>2. ASSUME NEW l \in Request \ loose' PROVE OneCurrent(l)'
    <3>1. Current(l)' \subseteq Current(l)
        BY <1>1, <1>3 DEF Current
    <3>2. Rotating(l)' \subseteq Rotating(l)
        BY <1>3 DEF Rotating
    <3>3. \A p \in Rotating(l) : session'[p].token = session[p].token
        BY <1>3 DEF Rotating
    <3> QED
        BY <1>1, <2>2, <3>1, <3>2, <3>3, ShrinkKeepsCurrent DEF IInv, RotationState
  <2> QED
      BY <2>1, <2>2 DEF RotationState
<1>8. HeldState'
  <2> SUFFICES ASSUME faults = 0, NEW t \in Request \ tokens,
                      session'[t].op \in {"login", "refresh"}, session'[t].pc \in {"audit", "done"},
                      session'[t].user \in users
               PROVE  \E p \in Request : session'[p].token = t /\ session'[p].pc \in {"store", "done", "lost"}
      BY <1>1 DEF HeldState
  <2>1. session[t].op \in {"login", "refresh"} /\ session[t].pc \in {"audit", "done"}
        /\ session[t].user \in users
      BY <1>3 DEF Unfinished
  <2>2. PICK p \in Request : session[p].token = t /\ session[p].pc \in {"store", "done", "lost"}
      BY <2>1 DEF IInv, HeldState
  <2> QED
      BY <1>3, <2>2
<1>9. RowsNoted'
  <2> SUFFICES ASSUME NEW q \in Request
               PROVE  /\ session'[q].pc \notin Unfinished
                      /\ HasClaims(q)' => \E r \in rows'[q] :
                            /\ r.role = session'[q].claims.role
                            /\ session'[q].op = "login" => r.status # "BLOCKED"
      BY DEF RowsNoted, Row
  <2>1. session'[q].pc \notin Unfinished /\ (HasClaims(q)' => HasClaims(q))
      BY <1>3 DEF HasClaims, Unfinished
  <2>2. HasClaims(q) => \E r \in rows[q] :
            /\ r.role = session[q].claims.role
            /\ session[q].op = "login" => r.status # "BLOCKED"
      BY DEF IInv, RowsNoted
  <2> QED
      BY <1>1, <1>3, <2>1, <2>2
<1> QED
    BY <1>4, <1>5, <1>6, <1>7, <1>8, <1>9 DEF IInv

LEMMA InitHasInv ==
    ASSUME SessionsAssumption, Init
    PROVE  IInv
<1>1. TypeOK
    BY DEF SessionsAssumption, Init, TypeOK, Status, Role, Unfinished
<1>2. \A q \in Request : session[q].op = "none" /\ session[q].pc = "idle"
                         /\ session[q].login = None /\ session[q].token = None
    BY DEF Init
<1>3. tokens = {} /\ ended = {}
    BY DEF Init
<1>4. SessionsState
    BY <1>2, <1>3 DEF SessionsState, SessionState, Place, HasClaims
<1>5. RacesNoted
    BY <1>2 DEF RacesNoted
<1>6. RotationState
    BY <1>2, <1>3 DEF RotationState, OneCurrent, Current, Rotating
<1>7. HeldState /\ RowsNoted
    BY <1>2 DEF HeldState, RowsNoted, HasClaims, Unfinished
<1> QED
    BY <1>1, <1>4, <1>5, <1>6, <1>7 DEF IInv

(* The inductive invariant holds in every reachable state.                 *)
THEOREM SessionsInvariance ==
    ASSUME SessionsAssumption
    PROVE  Spec => []IInv
<1>1. Init => IInv
    BY InitHasInv, SessionsAssumption
<1>2. IInv /\ [Next]_vars => IInv'
  <2> SUFFICES ASSUME IInv, [Next]_vars PROVE IInv'
      OBVIOUS
  <2>1. ASSUME NEW q \in Request, BeginRequest(q) PROVE IInv'
      BY <2>1, BeginKeepsInv, SessionsAssumption
  <2>2. ASSUME NEW q \in Request, Statement(q) PROVE IInv'
      BY <2>2, FindLoginKeepsInv, StoreFirstKeepsInv, WriteAuditKeepsInv, CheckTokenKeepsInv,
         FindUserKeepsInv, DeleteOldKeepsInv, StoreNextKeepsInv, LogoutKeepsInv,
         SessionsAssumption DEF Statement
  <2>3. CASE Administer
      BY <2>3, AdministerKeepsInv, SessionsAssumption
  <2>4. CASE Elsewhere
      BY <2>4, ElsewhereKeepsInv, SessionsAssumption
  <2>5. CASE Stop /\ UNCHANGED <<userVars, tokens, access, loose, ended, rows, casinos, faults, changes>>
      BY <2>5, StopKeepsInv, SessionsAssumption
  <2>6. CASE UNCHANGED vars
    <3>1. UNCHANGED <<users, status, role, audited, tokens, session, access, loose, ended, rows,
                      casinos, faults, changes>>
        BY <2>6 DEF vars, ownVars
    <3>2. Elsewhere
        BY <3>1 DEF Elsewhere, ownVars
    <3> QED
        BY <3>2, ElsewhereKeepsInv, SessionsAssumption
  <2> QED
      BY <2>1, <2>2, <2>3, <2>4, <2>5, <2>6 DEF Next
<1> QED
    BY <1>1, <1>2, PTL DEF Spec

(* What a step of Sessions does to the state it shares with Requisites.    *)
LEMMA SharedSteps ==
    ASSUME SessionsAssumption, IInv,
           (\E q \in Request : BeginRequest(q) \/ Statement(q)) \/ Administer
    PROVE  /\ casinos' = casinos
           /\ UNCHANGED faults \/ Fault
           /\ UNCHANGED changes \/ Change
           /\ access' = access \/ \E c \in Claims : access' = access \cup {c}
<1>1. ASSUME NEW q \in Request, WriteAudit(q) \/ StoreNext(q)
      PROVE  session[q].claims \in Claims
  <2>1. session[q].op \in {"none", "login", "refresh", "logout"} /\ SessionState(q)
      BY DEF IInv, TypeOK, SessionsState
  <2>2. CASE session[q].pc = "audit"
      BY <2>1, <2>2 DEF SessionState, Place, HasClaims
  <2>3. CASE session[q].op = "refresh" /\ session[q].pc = "store"
      BY <2>1, <2>3 DEF SessionState, HasClaims
  <2> QED
      BY <1>1, <2>2, <2>3 DEF WriteAudit, StoreNext
<1>2. ASSUME NEW q \in Request, Statement(q)
      PROVE  /\ casinos' = casinos /\ changes' = changes
             /\ UNCHANGED faults \/ Fault
             /\ access' = access \/ \E c \in Claims : access' = access \cup {c}
  <2>1. CASE WriteAudit(q) \/ StoreNext(q)
      BY <1>1, <2>1 DEF WriteAudit, StoreNext, Answer
  <2>2. CASE FindLogin(q) \/ StoreFirst(q) \/ CheckToken(q) \/ FindUser(q)
      BY <2>2 DEF FindLogin, StoreFirst, CheckToken, FindUser
  <2>3. CASE DeleteOld(q) \/ Logout(q)
      BY <2>3 DEF DeleteOld, Logout, DeleteToken
  <2> QED
      BY <1>2, <2>1, <2>2, <2>3 DEF Statement
<1>3. ASSUME NEW q \in Request, BeginRequest(q)
      PROVE  UNCHANGED <<casinos, changes, faults, access>>
    BY <1>3 DEF BeginRequest, BeginLogin, BeginRefresh, BeginLogout, BeginWithToken, Begin
<1>4. CASE Administer
    BY <1>4 DEF Administer, UpdateStatus, UpdateRole, DeleteUser
<1> QED
    BY <1>2, <1>3, <1>4

(* Rotation leaves a login at most one token that works, unless two        *)
(* requests used one token at a time or its DELETE failed.                 *)
THEOREM RotationReplaces ==
    ASSUME SessionsAssumption
    PROVE  Spec => []OneTokenPerLogin
<1>1. IInv => OneTokenPerLogin
    BY DEF IInv, TypeOK, RotationState, OneCurrent, Current, Valid, OneTokenPerLogin
<1> QED
    BY <1>1, SessionsInvariance, SessionsAssumption, PTL

(* A login whose present token was logged out has no token that works and  *)
(* gets none, with the same exceptions.                                    *)
THEOREM LogoutIsFinal ==
    ASSUME SessionsAssumption
    PROVE  Spec => []LogoutEndsSession
<1>1. IInv => LogoutEndsSession
    BY DEF IInv, TypeOK, RotationState, OneCurrent, Current, Valid, LogoutEndsSession
<1> QED
    BY <1>1, SessionsInvariance, SessionsAssumption, PTL

(* A refresh token that a client holds works until it is used up, as long  *)
(* as no statement fails and the user exists.                              *)
THEOREM TokensWork ==
    ASSUME SessionsAssumption
    PROVE  Spec => []HeldTokensWork
<1>1. IInv => HeldTokensWork
    BY DEF IInv, HeldState, HeldTokensWork, Held
<1> QED
    BY <1>1, SessionsInvariance, SessionsAssumption, PTL

(* The claims of an answer were those of the user's row in the course of   *)
(* the request.                                                            *)
THEOREM ClaimsWereCurrent ==
    ASSUME SessionsAssumption
    PROVE  Spec => []ClaimsAreCurrent
<1>1. IInv => ClaimsAreCurrent
    BY DEF IInv, RowsNoted, HasClaims, ClaimsAreCurrent, Held
<1> QED
    BY <1>1, SessionsInvariance, SessionsAssumption, PTL
=============================================================================
