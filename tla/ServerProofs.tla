---------------------------- MODULE ServerProofs ----------------------------
(***************************************************************************)
(* The server implements the specification of each of its parts: to a part *)
(* every step of another one is a stutter or a step "elsewhere".  So the   *)
(* theorems about the parts hold of the composition.  Those about          *)
(* Migrations, which only the server runs, are proved here.                *)
(***************************************************************************)
EXTENDS Server, TLAPS

SP == INSTANCE SessionsProofs
RP == INSTANCE RequisitesProofs

-----------------------------------------------------------------------------
(* Migrations, for every set of files and images.  A number is recorded    *)
(* only when a file of that number is in effect, and while a start is      *)
(* under way every file of its image is pending or has its number          *)
(* recorded.                                                               *)

LEMMA MigrationsConstants == M!MigrationsAssumption
    BY ServerAssumption

RecordedInEffect == \A v \in recorded : \E g \in schema : Version[g] = v

(* What a start that is under way has to do, and what it has done.         *)
StartState ==
    /\ pending \subseteq image
    /\ phase # "down" => \A f \in image \ pending : Version[f] \in recorded
    /\ phase = "record" => current \in pending \cap schema
    /\ phase \in {"ensure", "serving"} => pending = {}

ServedRecorded == \A f \in served : Version[f] \in recorded

(* Without a cut no file that was served with is pending.                  *)
PendingIsNew == cut \/ pending \cap served = {}

SchemaInv == M!TypeOK /\ RecordedInEffect /\ StartState /\ ServedRecorded /\ PendingIsNew
            /\ M!ServedFilesDoNotRunAgain

(* Reading the versions keeps the invariant: what a whole answer leaves    *)
(* pending has never been served with, and a cut one is noted.             *)
LEMMA BootKeepsInv ==
    ASSUME SchemaInv, M!Boot
    PROVE  SchemaInv'
<1> USE MigrationsConstants DEF M!MigrationsAssumption, SchemaInv
<1>1. PICK files \in Images, seen \in SUBSET recorded :
          /\ image' = files
          /\ \/ seen = recorded /\ UNCHANGED <<breaks, cut>>
             \/ seen # recorded /\ M!Fault /\ cut' = TRUE
          /\ pending' = {f \in files : Version[f] \notin seen}
    BY DEF M!Boot
<1>2. phase' = (IF pending' = {} THEN "ensure" ELSE "apply") /\ phase = "down"
    BY DEF M!Boot, M!Continue, M!Goto
<1>3. UNCHANGED <<schema, recorded, current, served, again, crashes>>
    BY DEF M!Boot
<1>4. M!TypeOK'
  <2>1. cut' \in BOOLEAN
      BY <1>1, Zenon DEF M!TypeOK
  <2>2. breaks' \in 0..MaxFaults
      BY <1>1 DEF M!TypeOK, M!Fault
  <2>3. image' \subseteq File /\ pending' \subseteq File
      BY <1>1
  <2> QED
      BY <1>2, <1>3, <2>1, <2>2, <2>3 DEF M!TypeOK
<1>5. RecordedInEffect' /\ ServedRecorded'
    BY <1>3 DEF RecordedInEffect, ServedRecorded
<1>6. StartState'
    BY <1>1, <1>2, <1>3 DEF StartState
<1>7. PendingIsNew'
    BY <1>1, <1>3 DEF PendingIsNew, ServedRecorded
<1>8. M!ServedFilesDoNotRunAgain'
    BY <1>1, <1>3 DEF M!ServedFilesDoNotRunAgain
<1> QED
    BY <1>4, <1>5, <1>6, <1>7, <1>8

(* Applying a file keeps the invariant: it was pending, so without a cut   *)
(* it is not one that was served with.                                     *)
LEMMA ApplyKeepsInv ==
    ASSUME SchemaInv, M!Apply
    PROVE  SchemaInv'
<1> USE MigrationsConstants DEF M!MigrationsAssumption, SchemaInv
<1>1. PICK f \in pending :
          \/ /\ schema' = schema \cup {f}
             /\ again' = IF f \notin Creates \cap schema THEN again \cup ({f} \cap served) ELSE again
             /\ phase' = "record" /\ current' = f
             /\ UNCHANGED <<pending, breaks>>
          \/ /\ M!Fault
             /\ \/ /\ schema' = schema \cup {f}
                   /\ again' = IF f \notin Creates \cap schema
                               THEN again \cup ({f} \cap served) ELSE again
                \/ UNCHANGED <<schema, again>>
             /\ M!Exit
    BY DEF M!Apply, M!Goto
<1>2. phase = "apply" /\ UNCHANGED <<image, recorded, served, cut, crashes>>
    BY DEF M!Apply
<1>3. f \in File /\ schema \subseteq schema' /\ schema' \subseteq File
    BY <1>1 DEF M!TypeOK
<1>4. again' \subseteq again \cup ({f} \cap served)
    BY <1>1
<1>5. M!TypeOK'
    BY <1>1, <1>2, <1>3, <1>4 DEF M!TypeOK, M!Fault, M!Exit, M!Goto
<1>6. RecordedInEffect' /\ ServedRecorded'
    BY <1>2, <1>3 DEF RecordedInEffect, ServedRecorded
<1>7. StartState'
    BY <1>1, <1>2 DEF StartState, M!Exit, M!Goto
<1>8. PendingIsNew'
    BY <1>1, <1>2 DEF PendingIsNew, M!Exit
<1>9. M!ServedFilesDoNotRunAgain'
    BY <1>2, <1>4 DEF M!ServedFilesDoNotRunAgain, PendingIsNew
<1> QED
    BY <1>5, <1>6, <1>7, <1>8, <1>9

(* Recording a file keeps the invariant: the file is in effect.            *)
LEMMA RecordKeepsInv ==
    ASSUME SchemaInv, M!Record
    PROVE  SchemaInv'
<1> USE MigrationsConstants DEF M!MigrationsAssumption, SchemaInv
<1>1. /\ phase = "record" /\ current \in pending \cap schema /\ current \in File
      /\ UNCHANGED <<image, schema, served, again, cut, crashes>>
    BY DEF M!Record, StartState, M!TypeOK
<1>2. recorded \subseteq recorded' /\ recorded' \subseteq recorded \cup {Version[current]}
    BY DEF M!Record
<1>3. \/ /\ recorded' = recorded \cup {Version[current]}
         /\ pending' = pending \ {current} /\ current' = None
         /\ phase' = (IF pending' = {} THEN "ensure" ELSE "apply")
         /\ UNCHANGED breaks
      \/ M!Fault /\ phase' = "down" /\ pending' = {} /\ current' = None
    BY DEF M!Record, M!Continue, M!Goto, M!Exit
<1>4. M!TypeOK'
    BY <1>1, <1>2, <1>3 DEF M!TypeOK, M!Fault
<1>5. RecordedInEffect' /\ ServedRecorded'
    BY <1>1, <1>2 DEF RecordedInEffect, ServedRecorded
<1>6. StartState'
    BY <1>1, <1>2, <1>3 DEF StartState
<1>7. PendingIsNew' /\ M!ServedFilesDoNotRunAgain'
    BY <1>1, <1>3 DEF PendingIsNew, M!ServedFilesDoNotRunAgain
<1> QED
    BY <1>4, <1>5, <1>6, <1>7

(* Beginning to serve keeps the invariant: nothing is pending any more, so *)
(* the number of every file of the image is recorded.                      *)
LEMMA EnsureKeepsInv ==
    ASSUME SchemaInv, M!Ensure
    PROVE  SchemaInv'
<1> USE MigrationsConstants DEF M!MigrationsAssumption, SchemaInv
<1>1. /\ phase = "ensure" /\ pending = {}
      /\ UNCHANGED <<image, schema, recorded, again, cut, crashes>>
    BY DEF M!Ensure, StartState
<1>2. \/ /\ phase' = "serving" /\ served' = served \cup (image \cap schema)
         /\ UNCHANGED <<pending, current, breaks>>
      \/ M!Fault /\ phase' = "down" /\ pending' = {} /\ current' = None /\ UNCHANGED served
    BY DEF M!Ensure, M!Goto, M!Exit
<1>3. M!TypeOK'
    BY <1>1, <1>2 DEF M!TypeOK, M!Fault
<1>4. RecordedInEffect' /\ ServedRecorded'
    BY <1>1, <1>2 DEF RecordedInEffect, ServedRecorded, StartState
<1>5. StartState' /\ PendingIsNew' /\ M!ServedFilesDoNotRunAgain'
    BY <1>1, <1>2 DEF StartState, PendingIsNew, M!ServedFilesDoNotRunAgain
<1> QED
    BY <1>3, <1>4, <1>5

(* A stop keeps the invariant.                                             *)
LEMMA StopKeepsInv ==
    ASSUME SchemaInv, M!Stop
    PROVE  SchemaInv'
<1>1. /\ phase' = "down" /\ pending' = {} /\ current' = None
      /\ crashes < MaxCrashes /\ crashes' = crashes + 1
      /\ UNCHANGED <<image, schema, recorded, served, again, cut, breaks>>
    BY DEF M!Stop, M!Exit, M!Goto
<1>2. M!TypeOK'
    BY <1>1, MigrationsConstants DEF SchemaInv, M!TypeOK, M!MigrationsAssumption
<1> QED
    BY <1>1, <1>2 DEF SchemaInv, RecordedInEffect, StartState, ServedRecorded, PendingIsNew,
                      M!ServedFilesDoNotRunAgain

(* The inductive invariant holds in every reachable state.                 *)
THEOREM MigrationsInvariance == M!Spec => []SchemaInv
<1>1. M!Init => SchemaInv
  <2> SUFFICES ASSUME M!Init PROVE SchemaInv
      OBVIOUS
  <2>1. cut \in BOOLEAN
      BY Zenon DEF M!Init
  <2>2. schema \subseteq File /\ breaks \in 0..MaxFaults /\ crashes \in 0..MaxCrashes
      BY MigrationsConstants DEF M!MigrationsAssumption, M!Init
  <2>3. M!TypeOK
      BY <2>1, <2>2 DEF M!Init, M!TypeOK
  <2> QED
      BY <2>3 DEF M!Init, SchemaInv, RecordedInEffect, StartState, ServedRecorded, PendingIsNew,
                  M!ServedFilesDoNotRunAgain
<1>2. SchemaInv /\ [M!Next]_M!vars => SchemaInv'
  <2> SUFFICES ASSUME SchemaInv, [M!Next]_M!vars PROVE SchemaInv'
      OBVIOUS
  <2>1. CASE M!Next
      BY <2>1, BootKeepsInv, ApplyKeepsInv, RecordKeepsInv, EnsureKeepsInv, StopKeepsInv,
         MigrationsConstants DEF M!Next, M!Start
  <2>2. CASE UNCHANGED M!vars
      BY <2>2 DEF M!vars, M!ownVars, SchemaInv, M!TypeOK, RecordedInEffect, StartState, ServedRecorded,
                  PendingIsNew, M!ServedFilesDoNotRunAgain
  <2> QED
      BY <2>1, <2>2
<1> QED
    BY <1>1, <1>2, PTL DEF M!Spec

(* To Migrations a step of the server is a start, a stop or a stutter:     *)
(* requests leave the schema alone.                                        *)
LEMMA MigrationsStep == ASSUME Next PROVE [M!Next]_M!vars
<1>1. CASE Start
    BY <1>1 DEF Start, M!Next
<1>2. CASE Login \/ Trade
    BY <1>2 DEF Login, Trade, schemaVars, M!vars, M!ownVars
<1>3. CASE Stop
    BY <1>3 DEF Stop, M!Next
<1> QED
    BY <1>1, <1>2, <1>3 DEF Next

(* The server implements Migrations.                                       *)
THEOREM ServerMigrates == Spec => M!Spec
<1>1. Init => M!Init
    BY DEF Init
<1>2. [Next]_vars => [M!Next]_M!vars
  <2>1. CASE UNCHANGED vars
      BY <2>1 DEF vars, schemaVars, M!vars, M!ownVars
  <2> QED
      BY <2>1, MigrationsStep
<1> QED
    BY <1>1, <1>2, PTL DEF Spec, M!Spec

(* When the server serves, every file of its image is in effect but for    *)
(* those that share their number with another one that is.                 *)
THEOREM ServedSchemaIsWhole == Spec => []OnlyDuplicatesAreSkipped
<1>1. SchemaInv => OnlyDuplicatesAreSkipped
    BY DEF SchemaInv, StartState, RecordedInEffect, OnlyDuplicatesAreSkipped,
           M!OnlyDuplicatesAreSkipped
<1> QED
    BY <1>1, ServerMigrates, MigrationsInvariance, PTL

(* What was in effect when the server served does not run again, unless    *)
(* the versions were read over a connection that broke.                    *)
THEOREM ServedSchemaStays == Spec => []ServedFilesDoNotRunAgain
<1>1. SchemaInv => ServedFilesDoNotRunAgain
    BY DEF SchemaInv, ServedFilesDoNotRunAgain
<1> QED
    BY <1>1, ServerMigrates, MigrationsInvariance, PTL

-----------------------------------------------------------------------------
(* Sessions: other handlers delete casinos and share the bounds.           *)

(* The steps of Requisites that Trade takes.                               *)
LEMMA TradeStep ==
    ASSUME Trade
    PROVE  (\E q \in Request : RP!BeginRequest(q) \/ RP!Statement(q)) \/ RP!Administer
<1>1. ASSUME NEW q \in Request, R!BeginRequest(q) PROVE RP!BeginRequest(q)
    BY <1>1 DEF R!BeginRequest, R!BeginCreate, R!BeginDelete, R!BeginTopUp, R!BeginReserve, R!Begin,
       R!Admitted, R!Merchants, R!Authenticated, R!Positive, R!casinoVars, R!rowVars,
       RP!BeginRequest, RP!BeginCreate, RP!BeginDelete, RP!BeginTopUp, RP!BeginReserve, RP!Begin,
       RP!Admitted, RP!Merchants, RP!Authenticated, RP!Positive, RP!casinoVars, RP!rowVars
<1>2. ASSUME NEW q \in Request, R!Statement(q) PROVE RP!Statement(q)
    BY <1>2 DEF R!Statement, R!GetProfile, R!Insert, R!Delete, R!TopUp, R!Choose, R!Reserve, R!At,
       R!NewRow, R!Owner, R!Room, R!Fault, R!casinoVars, R!rowVars,
       RP!Statement, RP!GetProfile, RP!Insert, RP!Delete, RP!TopUp, RP!Choose, RP!Reserve, RP!At,
       RP!NewRow, RP!Owner, RP!Room, RP!Fault, RP!casinoVars, RP!rowVars
<1>3. ASSUME R!Administer PROVE RP!Administer
    BY <1>3 DEF R!Administer, R!CreateIssued, R!UpdateStatus, R!UpdateOnlineStatus,
       R!DeleteRequisite, R!ResetDailyLimits, R!DeleteCasino, R!NewRow, R!Owner, R!Change, R!Id,
       R!State, R!casinoVars,
       RP!Administer, RP!CreateIssued, RP!UpdateStatus, RP!UpdateOnlineStatus,
       RP!DeleteRequisite, RP!ResetDailyLimits, RP!DeleteCasino, RP!NewRow, RP!Owner, RP!Change,
       RP!Id, RP!State, RP!casinoVars
<1> QED
    BY <1>1, <1>2, <1>3 DEF Trade

(* The steps of Sessions that Login takes.                                 *)
LEMMA LoginStep ==
    ASSUME Login
    PROVE  (\E q \in Request : SP!BeginRequest(q) \/ SP!Statement(q)) \/ SP!Administer
<1>1. ASSUME NEW q \in Request, S!BeginRequest(q) PROVE SP!BeginRequest(q)
    BY <1>1 DEF S!BeginRequest, S!BeginLogin, S!BeginRefresh, S!BeginLogout, S!BeginWithToken,
       S!Begin, S!Row, S!Held, S!Unfinished, S!userVars,
       SP!BeginRequest, SP!BeginLogin, SP!BeginRefresh, SP!BeginLogout, SP!BeginWithToken,
       SP!Begin, SP!Row, SP!Held, SP!Unfinished, SP!userVars
<1>2. ASSUME NEW q \in Request, S!Statement(q) PROVE SP!Statement(q)
    BY <1>2 DEF S!Statement, S!FindLogin, S!StoreFirst, S!WriteAudit, S!CheckToken, S!FindUser,
       S!DeleteOld, S!StoreNext, S!Logout, S!DeleteToken, S!Answer, S!Stored, S!ClaimsOf, S!At,
       S!Fault, S!userVars,
       SP!Statement, SP!FindLogin, SP!StoreFirst, SP!WriteAudit, SP!CheckToken, SP!FindUser,
       SP!DeleteOld, SP!StoreNext, SP!Logout, SP!DeleteToken, SP!Answer, SP!Stored, SP!ClaimsOf,
       SP!At, SP!Fault, SP!userVars
<1>3. ASSUME S!Administer PROVE SP!Administer
    BY <1>3 DEF S!Administer, S!UpdateStatus, S!UpdateRole, S!DeleteUser, S!Change, S!Observe,
       S!Row, S!Unfinished, S!Status, S!Role,
       SP!Administer, SP!UpdateStatus, SP!UpdateRole, SP!DeleteUser, SP!Change, SP!Observe,
       SP!Row, SP!Unfinished, SP!Status, SP!Role
<1> QED
    BY <1>1, <1>2, <1>3 DEF Login

LEMMA SessionsStep == ASSUME Next PROVE [SP!Next]_SP!vars
<1>1. CASE Start
    BY <1>1 DEF Start, sessionVars, SP!vars, SP!ownVars
<1>2. CASE Login
    BY <1>2, LoginStep DEF SP!Next
<1>3. CASE Trade
  <2>1. /\ access' = access
        /\ casinos' = casinos \/ \E c \in casinos : casinos' = casinos \ {c}
        /\ UNCHANGED faults \/ RP!Fault
        /\ UNCHANGED changes \/ RP!Change
      BY <1>3, TradeStep, RP!SharedSteps
  <2> QED
      BY <1>3, <2>1 DEF Trade, sessionVars, SP!Next, SP!Elsewhere, SP!ownVars, SP!Fault, SP!Change,
         RP!Fault, RP!Change
<1>4. CASE Stop
    BY <1>4 DEF Stop, S!Stop, S!Unfinished, SP!Next, SP!Stop, SP!Unfinished, SP!userVars
<1> QED
    BY <1>1, <1>2, <1>3, <1>4 DEF Next

(* The server implements Sessions.                                         *)
THEOREM ServerAuthenticates == Spec => SP!Spec
<1>1. Init => SP!Init
    BY DEF Init, S!Init, SP!Init
<1>2. [Next]_vars => [SP!Next]_SP!vars
  <2>1. CASE UNCHANGED vars
      BY <2>1 DEF vars, sessionVars, SP!vars, SP!ownVars
  <2> QED
      BY <2>1, SessionsStep
<1> QED
    BY <1>1, <1>2, PTL DEF Spec, SP!Spec

LEMMA SessionsConstants == SP!SessionsAssumption
    BY ServerAssumption DEF S!SessionsAssumption, SP!SessionsAssumption

(* Rotation leaves a login at most one token that works, unless two        *)
(* requests used one token at a time or its DELETE failed.                 *)
THEOREM ServerRotates == Spec => []OneTokenPerLogin
<1>1. Spec => []SP!OneTokenPerLogin
    BY ServerAuthenticates, SessionsConstants, SP!RotationReplaces
<1>2. SP!OneTokenPerLogin => OneTokenPerLogin
    BY DEF SP!OneTokenPerLogin, SP!Valid, OneTokenPerLogin, S!OneTokenPerLogin, S!Valid
<1> QED
    BY <1>1, <1>2, PTL

(* A login that was logged out has no token, with the same exceptions.     *)
THEOREM ServerLogsOut == Spec => []LogoutEndsSession
<1>1. Spec => []SP!LogoutEndsSession
    BY ServerAuthenticates, SessionsConstants, SP!LogoutIsFinal
<1>2. SP!LogoutEndsSession => LogoutEndsSession
    BY DEF SP!LogoutEndsSession, SP!Valid, LogoutEndsSession, S!LogoutEndsSession, S!Valid
<1> QED
    BY <1>1, <1>2, PTL

(* A token that a client holds works until it is used up, as long as no    *)
(* statement fails and the user exists.                                    *)
THEOREM ServerKnowsTokens == Spec => []HeldTokensWork
<1>1. Spec => []SP!HeldTokensWork
    BY ServerAuthenticates, SessionsConstants, SP!TokensWork
<1>2. SP!HeldTokensWork => HeldTokensWork
    BY DEF SP!HeldTokensWork, SP!Held, HeldTokensWork, S!HeldTokensWork, S!Held
<1> QED
    BY <1>1, <1>2, PTL

(* The claims of an answer were those of the user's row.                   *)
THEOREM ServerReadsClaims == Spec => []ClaimsAreCurrent
<1>1. Spec => []SP!ClaimsAreCurrent
    BY ServerAuthenticates, SessionsConstants, SP!ClaimsWereCurrent
<1>2. SP!ClaimsAreCurrent => ClaimsAreCurrent
    BY DEF SP!ClaimsAreCurrent, SP!Held, ClaimsAreCurrent, S!ClaimsAreCurrent, S!Held
<1> QED
    BY <1>1, <1>2, PTL

-----------------------------------------------------------------------------
(* Requisites: logins issue tokens, whose claims Sessions types.           *)

LEMMA RequisitesStep == ASSUME Next, SP!IInv PROVE [RP!Next]_RP!vars
<1>1. CASE Start
    BY <1>1 DEF Start, tradeVars, RP!vars, RP!ownVars
<1>2. CASE Login
  <2>1. /\ casinos' = casinos
        /\ UNCHANGED faults \/ SP!Fault
        /\ UNCHANGED changes \/ SP!Change
        /\ access' = access \/ \E c \in SP!Claims : access' = access \cup {c}
      BY <1>2, LoginStep, SessionsConstants, SP!SharedSteps
  <2>2. \A c \in SP!Claims : \E r \in {"MERCHANT", "ADMIN"}, d \in Casino \cup {None} :
            c = [role |-> r, casino |-> d]
      BY DEF SP!Claims, SP!Role
  <2>3. /\ access' = access \/ \E r \in {"MERCHANT", "ADMIN"}, d \in Casino \cup {None} :
                access' = access \cup {[role |-> r, casino |-> d]}
        /\ UNCHANGED faults \/ RP!Fault
        /\ UNCHANGED changes \/ RP!Change
      BY <2>1, <2>2 DEF SP!Fault, SP!Change, RP!Fault, RP!Change
  <2>4. RP!Elsewhere
      BY <1>2, <2>1, <2>3 DEF Login, tradeVars, RP!Elsewhere, RP!ownVars
  <2> QED
      BY <2>4 DEF RP!Next
<1>3. CASE Trade
    BY <1>3, TradeStep DEF RP!Next
<1>4. CASE Stop
    BY <1>4 DEF Stop, R!Stop, R!Unfinished, RP!Next, RP!Stop, RP!Unfinished, RP!casinoVars, RP!rowVars
<1> QED
    BY <1>1, <1>2, <1>3, <1>4 DEF Next

(* The server implements Requisites.                                       *)
THEOREM ServerTrades == Spec => RP!Spec
<1>1. Init => RP!Init
    BY DEF Init, R!Init, RP!Init, R!Id, RP!Id
<1>2. SP!IInv /\ [Next]_vars => [RP!Next]_RP!vars
  <2>1. CASE UNCHANGED vars
      BY <2>1 DEF vars, tradeVars, RP!vars, RP!ownVars
  <2> QED
      BY <2>1, RequisitesStep
<1>3. Spec => []SP!IInv
    BY ServerAuthenticates, SessionsConstants, SP!SessionsInvariance
<1> QED
    BY <1>1, <1>2, <1>3, PTL DEF Spec, RP!Spec

LEMMA RequisitesConstants == RP!RequisitesAssumption
    BY ServerAssumption DEF R!RequisitesAssumption, RP!RequisitesAssumption

(* A trader with requisites exists and is insured.                         *)
THEOREM ServerInsures == Spec => []OnlyInsuredTraders
<1>1. Spec => []RP!OnlyInsuredTraders
    BY ServerTrades, RequisitesConstants, RP!InsuredTraders
<1>2. RP!OnlyInsuredTraders => OnlyInsuredTraders
    BY DEF RP!OnlyInsuredTraders, RP!Owner, OnlyInsuredTraders, R!OnlyInsuredTraders, R!Owner
<1> QED
    BY <1>1, <1>2, PTL

(* The sums of the module proved about are those of the server's instance. *)
LEMMA SameTotals == ASSUME NEW qs PROVE RP!Total(qs) = R!Total(qs)
    BY Zenon DEF RP!Total, RP!SumFunctionOnSet, RP!FoldFunctionOnSet, RP!MapThenFoldSet,
                 R!Total, R!SumFunctionOnSet, R!FoldFunctionOnSet, R!MapThenFoldSet

(* Answered top-ups are in the deposit of their trader.                    *)
THEOREM ServerCountsTopUps == Spec => []TopUpsCount
<1>1. Spec => []RP!TopUpsCount
    BY ServerTrades, RequisitesConstants, RP!TopUpsAddUp
<1>2. RP!TopUpsCount => TopUpsCount
    BY SameTotals DEF RP!TopUpsCount, RP!TopUps, TopUpsCount, R!TopUpsCount, R!TopUps
<1> QED
    BY <1>1, <1>2, PTL

(* The reservations granted on a requisite since the limits were last      *)
(* reset stay within its daily limit.                                      *)
THEOREM ServerKeepsLimits == Spec => []NeverOverReserved
<1>1. Spec => []RP!NeverOverReserved
    BY ServerTrades, RequisitesConstants, RP!LimitsHold
<1>2. RP!NeverOverReserved => NeverOverReserved
    BY SameTotals DEF RP!NeverOverReserved, RP!Reserved, NeverOverReserved, R!NeverOverReserved,
                      R!Reserved
<1> QED
    BY <1>1, <1>2, PTL

-----------------------------------------------------------------------------
(* Every variable of the server has its type.                              *)
THEOREM ServerTypes == Spec => []TypeOK
<1>1. Spec => []SchemaInv
    BY ServerMigrates, MigrationsInvariance, PTL
<1>2. Spec => []SP!IInv
    BY ServerAuthenticates, SessionsConstants, SP!SessionsInvariance
<1>3. Spec => []RP!IInv
    BY ServerTrades, RequisitesConstants, RP!RequisitesInvariance
<1>4. SchemaInv => M!TypeOK
    BY DEF SchemaInv
<1>5. SP!IInv => S!TypeOK
    BY DEF SP!IInv, SP!TypeOK, SP!Status, SP!Role, SP!Unfinished, SP!Claims,
           S!TypeOK, S!Status, S!Role, S!Unfinished, S!Claims
<1>6. RP!IInv => R!TypeOK
    BY DEF RP!IInv, RP!TypeOK, RP!Id, RP!State, RP!Unfinished, R!TypeOK, R!Id, R!State, R!Unfinished
<1> QED
    BY <1>1, <1>2, <1>3, <1>4, <1>5, <1>6, PTL DEF TypeOK
=============================================================================
