------------------------------ MODULE Sessions ------------------------------
(***************************************************************************)
(* Login sessions (internal/auth, pkg/jwt) and the administration of users *)
(* (internal/users, handlers/admin.go).  A refresh token is named after    *)
(* the request that issues it; a step is one SQL statement.  Tokens that   *)
(* expire are left out: a client may stop using a token at any time.       *)
(***************************************************************************)
EXTENDS Naturals

CONSTANTS
    User, Casino, Request,
    Link,       \* Link[u] is the casino u was linked to, or None
    None,
    MaxFaults,  \* bound: statements that fail
    MaxChanges  \* bound: changes made by administrators

Role == {"MERCHANT", "ADMIN"}
Status == {"ACTIVE", "BLOCKED"}

(* The claims of an access token.                                          *)
Claims == [role : Role, casino : Casino \cup {None}]

\* What the constants must satisfy; Server assumes it.
SessionsAssumption ==
    /\ Link \in [User -> Casino \cup {None}]
    /\ None \notin User \cup Casino \cup Request
    /\ MaxFaults \in Nat /\ MaxChanges \in Nat

VARIABLES
    users,      \* rows of users
    status, role,
    audited,    \* the users an audit log refers to, which keeps their rows
    tokens,     \* rows of refresh_tokens
    session,    \* the requests, each at its next statement
    access,     \* the claims of the access tokens that clients hold
    casinos,    \* rows of casinos
    loose,      \* logins with a rotation that raced or failed (history)
    ended,      \* logins whose present token was logged out (history)
    rows,       \* what the user's row said in the course of a request (history)
    faults, changes

ownVars == <<users, status, role, audited, tokens, session, access, loose, ended, rows>>
vars == <<ownVars, casinos, faults, changes>>

Unfinished == {"check", "find", "delete", "store", "audit"}

TypeOK ==
    /\ users \subseteq User /\ audited \subseteq User /\ casinos \subseteq Casino
    /\ status \in [User -> Status] /\ role \in [User -> Role]
    /\ tokens \subseteq Request
    /\ session \in [Request ->
          [op : {"none", "login", "refresh", "logout"},
           pc : Unfinished \cup {"idle", "done", "failed", "lost"},
           user : User \cup {None}, token : Request \cup {None},
           login : Request \cup {None}, claims : Claims \cup {None}]]
    /\ access \subseteq Claims
    /\ loose \subseteq Request /\ ended \subseteq Request
    /\ rows \in [Request -> SUBSET [status : Status, role : Role]]
    /\ faults \in 0..MaxFaults /\ changes \in 0..MaxChanges

Init ==
    /\ users = User /\ audited = {} /\ casinos = Casino
    /\ status = [u \in User |-> "ACTIVE"] /\ role = [u \in User |-> "MERCHANT"]
    /\ tokens = {}
    /\ session = [q \in Request |-> [op |-> "none", pc |-> "idle", user |-> None,
                                     token |-> None, login |-> None, claims |-> None]]
    /\ access = {} /\ loose = {} /\ ended = {}
    /\ rows = [q \in Request |-> {}]
    /\ faults = 0 /\ changes = 0

Fault == faults < MaxFaults /\ faults' = faults + 1

Change == changes < MaxChanges /\ changes' = changes + 1

At(q, pc) == session' = [session EXCEPT ![q].pc = pc]

Row(u) == [status |-> status[u], role |-> role[u]]

(* The claims of u's row; the link goes with its casino.                   *)
ClaimsOf(u) ==
    [role |-> role[u], casino |-> IF Link[u] \in casinos THEN Link[u] ELSE None]

userVars == <<users, status, role, audited>>

-----------------------------------------------------------------------------
(* The requests begin.                                                     *)

(* The refresh tokens that clients hold.                                   *)
Held == {t \in Request : session[t].pc = "done" /\ session[t].op \in {"login", "refresh"}}

Begin(q, r) ==
    /\ session[q].pc = "idle"
    /\ session' = [session EXCEPT ![q] = r]
    /\ rows' = [rows EXCEPT ![q] = {Row(r.user)}]
    /\ UNCHANGED <<userVars, tokens, access, ended, casinos, faults, changes>>

BeginLogin(q) ==
    /\ \E u \in User :
          Begin(q, [op |-> "login", pc |-> "find", user |-> u,
                    token |-> None, login |-> q, claims |-> None])
    /\ UNCHANGED loose

(* Two handlers that work on one token are in each other's way.            *)
BeginWithToken(q, op, pc) ==
    \E t \in Held :
        /\ Begin(q, [op |-> op, pc |-> pc, user |-> session[t].user,
                     token |-> t, login |-> session[t].login, claims |-> None])
        /\ loose' = IF \E p \in Request : session[p].token = t /\ session[p].pc \in Unfinished
                    THEN loose \cup {session[t].login} ELSE loose

BeginRefresh(q) == BeginWithToken(q, "refresh", "check")
BeginLogout(q) == BeginWithToken(q, "logout", "delete")

-----------------------------------------------------------------------------
(* The statements of Login.                                                *)

(* The user's row gives the claims of the access token.  A blocked user    *)
(* and a wrong password are refused.                                       *)
FindLogin(q) ==
    LET u == session[q].user
    IN  /\ session[q].op = "login" /\ session[q].pc = "find"
        /\ \/ /\ u \in users /\ status[u] # "BLOCKED"
              /\ session' = [session EXCEPT ![q].claims = ClaimsOf(u), ![q].pc = "store"]
              /\ UNCHANGED faults
           \/ At(q, "failed") /\ UNCHANGED faults
           \/ Fault /\ At(q, "failed")
    /\ UNCHANGED <<userVars, tokens, access, loose, ended, rows, casinos, changes>>

(* A token refers to its user, who must still exist.                       *)
Stored(q) == IF session[q].user \in users THEN tokens \cup {q} ELSE tokens

(* The refresh token is stored; an error is an error of Login.             *)
StoreFirst(q) ==
    /\ session[q].op = "login" /\ session[q].pc = "store"
    /\ \/ /\ tokens' = Stored(q)
          /\ At(q, IF session[q].user \in users THEN "audit" ELSE "failed")
          /\ UNCHANGED faults
       \/ Fault /\ tokens' \in {tokens, Stored(q)} /\ At(q, "failed")
    /\ UNCHANGED <<userVars, access, loose, ended, rows, casinos, changes>>

(* The client is answered and holds both tokens.                           *)
Answer(q) == At(q, "done") /\ access' = access \cup {session[q].claims}

(* The audit log is written, an error ignored, and the client answered.    *)
WriteAudit(q) ==
    LET logged == audited \cup ({session[q].user} \cap users)
    IN  /\ session[q].pc = "audit"
        /\ \/ audited' = logged /\ UNCHANGED faults
           \/ Fault /\ audited' \in {audited, logged}
        /\ Answer(q)
    /\ UNCHANGED <<users, status, role, tokens, loose, ended, rows, casinos, changes>>

-----------------------------------------------------------------------------
(* The statements of Refresh and Logout.                                   *)

(* Mutant: a valid signature is enough.                                    *)
CheckToken_Signature(q) ==
    /\ session[q].pc = "check"
    /\ At(q, "find")
    /\ UNCHANGED <<userVars, tokens, access, loose, ended, rows, casinos, faults, changes>>

(* Refresh asks whether the token is stored.                               *)
CheckToken(q) ==
    /\ session[q].pc = "check"
    /\ \/ At(q, IF session[q].token \in tokens THEN "find" ELSE "failed") /\ UNCHANGED faults
       \/ Fault /\ At(q, "failed")
    /\ UNCHANGED <<userVars, tokens, access, loose, ended, rows, casinos, changes>>

(* Mutant: the claims are those of the old token.                          *)
FindUser_OldClaims(q) ==
    /\ session[q].op = "refresh" /\ session[q].pc = "find"
    /\ IF session[q].user \in users
       THEN session' = [session EXCEPT ![q].claims = session[session[q].token].claims,
                                       ![q].pc = "delete"]
       ELSE At(q, "failed")
    /\ UNCHANGED <<userVars, tokens, access, loose, ended, rows, casinos, faults, changes>>

(* Refresh reads the row again but not its status: a blocked user may go on. *)
FindUser(q) ==
    LET u == session[q].user
    IN  /\ session[q].op = "refresh" /\ session[q].pc = "find"
        /\ \/ /\ u \in users
              /\ session' = [session EXCEPT ![q].claims = ClaimsOf(u), ![q].pc = "delete"]
              /\ UNCHANGED faults
           \/ u \notin users /\ At(q, "failed") /\ UNCHANGED faults
           \/ Fault /\ At(q, "failed")
    /\ UNCHANGED <<userVars, tokens, access, loose, ended, rows, casinos, changes>>

(* Deletes q's token; the error of the statement is ignored.               *)
DeleteToken(q) ==
    \/ tokens' = tokens \ {session[q].token} /\ UNCHANGED <<loose, faults>>
    \/ /\ Fault
       /\ tokens' \in {tokens, tokens \ {session[q].token}}
       /\ loose' = loose \cup {session[q].login}

(* Mutant: the hash of the new token is deleted.                           *)
DeleteOld_New(q) ==
    /\ session[q].op = "refresh" /\ session[q].pc = "delete"
    /\ tokens' = tokens \ {q}
    /\ At(q, "store")
    /\ UNCHANGED <<userVars, access, loose, ended, rows, casinos, faults, changes>>

DeleteOld(q) ==
    /\ session[q].op = "refresh" /\ session[q].pc = "delete"
    /\ DeleteToken(q) /\ At(q, "store")
    /\ UNCHANGED <<userVars, access, ended, rows, casinos, changes>>

(* The new token is stored; Refresh answers whether it was or not.         *)
StoreNext(q) ==
    /\ session[q].op = "refresh" /\ session[q].pc = "store"
    /\ \/ tokens' = Stored(q) /\ UNCHANGED faults
       \/ Fault /\ tokens' \in {tokens, Stored(q)}
    /\ Answer(q)
    /\ UNCHANGED <<userVars, loose, ended, rows, casinos, changes>>

(* Mutant: every token of the user is deleted.                             *)
Logout_OfUser(q) ==
    /\ session[q].op = "logout" /\ session[q].pc = "delete"
    /\ tokens' = {t \in tokens : session[t].user # session[q].user}
    /\ At(q, "done")
    /\ UNCHANGED <<userVars, access, loose, ended, rows, casinos, faults, changes>>

Logout(q) ==
    /\ session[q].op = "logout" /\ session[q].pc = "delete"
    /\ DeleteToken(q) /\ At(q, "done")
    /\ ended' = IF session[q].token \in tokens THEN ended \cup {session[q].login} ELSE ended
    /\ UNCHANGED <<userVars, access, rows, casinos, changes>>

-----------------------------------------------------------------------------
(* Administration of users.                                                *)

(* The requests that are under way see the user's new row.                 *)
Observe(u) ==
    rows' = [q \in Request |-> IF session[q].user = u /\ session[q].pc \in Unfinished
                               THEN rows[q] \cup {Row(u)'} ELSE rows[q]]

UpdateStatus(u) ==
    /\ u \in users /\ Change
    /\ \E s \in Status \ {status[u]} : status' = [status EXCEPT ![u] = s]
    /\ UNCHANGED <<users, role, audited, tokens, session, access, loose, ended, casinos, faults>>
    /\ Observe(u)

UpdateRole(u) ==
    /\ u \in users /\ Change
    /\ \E r \in Role \ {role[u]} : role' = [role EXCEPT ![u] = r]
    /\ UNCHANGED <<users, status, audited, tokens, session, access, loose, ended, casinos, faults>>
    /\ Observe(u)

(* The audit logs of a user keep the row from being deleted; the tokens go *)
(* with the row.                                                           *)
DeleteUser(u) ==
    /\ u \in users \ audited /\ Change
    /\ users' = users \ {u}
    /\ tokens' = {t \in tokens : session[t].user # u}
    /\ UNCHANGED <<status, role, audited, session, access, loose, ended, rows, casinos, faults>>

-----------------------------------------------------------------------------
BeginRequest(q) == BeginLogin(q) \/ BeginRefresh(q) \/ BeginLogout(q)

Statement(q) ==
    \/ FindLogin(q) \/ StoreFirst(q) \/ WriteAudit(q)
    \/ CheckToken(q) \/ FindUser(q) \/ DeleteOld(q) \/ StoreNext(q)
    \/ Logout(q)

Administer == \E u \in User : UpdateStatus(u) \/ UpdateRole(u) \/ DeleteUser(u)

(* The process stops: requests under way end where they are.               *)
Stop ==
    session' = [q \in Request |-> IF session[q].pc \in Unfinished
                                  THEN [session[q] EXCEPT !.pc = "lost"] ELSE session[q]]

(* What other handlers do to the state that Sessions shares: they delete   *)
(* casinos (see Requisites), and they fail and are told to change, too.    *)
Elsewhere ==
    /\ casinos' = casinos \/ \E c \in casinos : casinos' = casinos \ {c}
    /\ UNCHANGED faults \/ Fault
    /\ UNCHANGED changes \/ Change
    /\ UNCHANGED ownVars

Next ==
    \/ \E q \in Request : BeginRequest(q) \/ Statement(q)
    \/ Administer
    \/ Elsewhere
    \/ /\ Stop
       /\ UNCHANGED <<userVars, tokens, access, loose, ended, rows, casinos, faults, changes>>

Spec == Init /\ [][Next]_vars

-----------------------------------------------------------------------------
(* Properties.                                                             *)

Valid(l) == {t \in tokens : session[t].login = l}

(* Rotation replaces a token: one login never has two tokens that work,    *)
(* wherever a request is cut off, unless two requests used one token at    *)
(* the same time or the DELETE of the old one failed.                      *)
OneTokenPerLogin == \A l \in Request \ loose : \A s, t \in Valid(l) : s = t

(* After a logout with its present token a login has no token that works,  *)
(* and gets none, with the same exceptions.                                *)
LogoutEndsSession == \A l \in ended \ loose : Valid(l) = {}

(* A refresh token that a client was given works until it is rotated or    *)
(* logged out, as long as no statement fails and the user exists: no other *)
(* login of the user disturbs it.                                          *)
HeldTokensWork ==
    faults = 0 =>
        \A t \in Held \ tokens : session[t].user \in users => \E q \in Request :
            session[q].token = t /\ session[q].pc \in {"store", "done", "lost"}

(* The claims a request is answered with are those the user's row had at   *)
(* some moment of the request, and for a login the user was not blocked at *)
(* that moment.                                                            *)
ClaimsAreCurrent ==
    \A q \in Held : \E r \in rows[q] :
        /\ r.role = session[q].claims.role
        /\ session[q].op = "login" => r.status # "BLOCKED"
=============================================================================
