------------------------------- MODULE Server -------------------------------
(***************************************************************************)
(* The server as a process (cmd/server/main.go): it migrates the schema,   *)
(* then serves logins and merchants' requests beside administrators, and   *)
(* is stopped at any moment.  It composes Migrations, Sessions and         *)
(* Requisites over one pool of requests and one database.                  *)
(***************************************************************************)
EXTENDS Integers, FiniteSets

CONSTANTS
    File, Version, Base, Creates,
    User, Link, Casino, Trader,
    Request,                        \* numbered in the order of their arrival
    Issued, Required, Openings, Sums, Limit,
    Images, None,
    MaxFaults, MaxCrashes, MaxChanges,
    MaxEvents   \* bound: failed statements of requests, changes and stops together

VARIABLES
    phase, image, schema, recorded, pending, current, served, again, cut, breaks, crashes,
    users, status, role, audited, tokens, session, loose, ended, rows,
    opening, deposit, active, requisites, used, state, online, call, today,
    access,     \* issued by Sessions, shown to Requisites
    casinos,    \* deleted by Requisites, read by Sessions
    faults, changes

M == INSTANCE Migrations
S == INSTANCE Sessions
R == INSTANCE Requisites

ASSUME ServerAssumption ==
    /\ M!MigrationsAssumption /\ S!SessionsAssumption /\ R!RequisitesAssumption
    /\ Request \subseteq Nat /\ MaxEvents \in Nat

\* What a step of one part leaves alone of the others.
schemaVars == <<phase, image, schema, recorded, pending, current, served, again, cut, breaks, crashes>>
sessionVars == <<users, status, role, audited, tokens, session, loose, ended, rows>>
tradeVars == <<opening, deposit, active, requisites, used, state, online, call, today>>

vars == <<schemaVars, sessionVars, tradeVars, access, casinos, faults, changes>>

(* The users and casinos are there when the server first serves.           *)
Init == M!Init /\ S!Init /\ R!Init

(* The process reads its schema before it listens.                         *)
Start == M!Start /\ UNCHANGED <<sessionVars, tradeVars, access, casinos, faults, changes>>

Idle(q) == session[q].pc = "idle" /\ call[q].pc = "idle"

(* Requests arrive one after the other and then run beside each other.     *)
Arrives(q) == Idle(q) /\ \A p \in Request : p < q => ~Idle(p)

Login ==
    /\ phase = "serving"
    /\ \/ \E q \in Request : \/ Arrives(q) /\ S!BeginRequest(q)
                             \/ S!Statement(q)
       \/ S!Administer
    /\ UNCHANGED <<schemaVars, tradeVars>>

Trade ==
    /\ phase = "serving"
    /\ \/ \E q \in Request : \/ Arrives(q) /\ R!BeginRequest(q)
                             \/ R!Statement(q)
       \/ R!Administer
    /\ UNCHANGED <<schemaVars, sessionVars>>

(* main waits ten seconds for the requests under way and then exits; a     *)
(* crash does not wait.  Either way a request may be cut off.              *)
Stop ==
    /\ M!Stop /\ S!Stop /\ R!Stop
    /\ UNCHANGED <<users, status, role, audited, tokens, loose, ended, rows, access, casinos, faults, changes>>
    /\ UNCHANGED <<opening, deposit, active, requisites, used, state, online, today>>

Next ==
    /\ Start \/ Login \/ Trade \/ Stop
    /\ faults' + changes' + crashes' <= MaxEvents

Spec == Init /\ [][Next]_vars

(* A process that has ended is started again, and its start goes on by     *)
(* itself; clients and administrators owe nothing.                         *)
FairSpec == Spec /\ WF_vars(Start)

-----------------------------------------------------------------------------
(* The properties of the parts, in the composition.                        *)

TypeOK == M!TypeOK /\ S!TypeOK /\ R!TypeOK

(* Every file of the image is in effect when the server serves, except for *)
(* files that share their number with one that is.                         *)
OnlyDuplicatesAreSkipped == M!OnlyDuplicatesAreSkipped

(* What was in effect when the server served does not run again.           *)
ServedFilesDoNotRunAgain == M!ServedFilesDoNotRunAgain

(* However its starts fail, the server serves again in the end.            *)
ServesAgain == M!ServesAgain

(* Rotation leaves a login one token.                                      *)
OneTokenPerLogin == S!OneTokenPerLogin

(* A login that was logged out has no token.                               *)
LogoutEndsSession == S!LogoutEndsSession

(* A client's token works until it is rotated or logged out.               *)
HeldTokensWork == S!HeldTokensWork

(* The claims of an answer were those of the user's row.                   *)
ClaimsAreCurrent == S!ClaimsAreCurrent

(* A trader with requisites is insured.                                    *)
OnlyInsuredTraders == R!OnlyInsuredTraders

(* Answered top-ups are in the deposit.                                    *)
TopUpsCount == R!TopUpsCount

(* Reservations granted stay within the daily limit.                       *)
NeverOverReserved == R!NeverOverReserved
=============================================================================
