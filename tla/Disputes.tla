------------------------------ MODULE Disputes ------------------------------
(***************************************************************************)
(* Disputes, the traffic switch of the providers, and the router that      *)
(* reads both.                                                             *)
(*                                                                         *)
(* Opening a dispute (disputes/service.go) and switching traffic           *)
(* (traffic/service.go) are database transactions: sessions that send one  *)
(* statement after the other.  What a statement writes is kept in work     *)
(* until the session commits or rolls back, and so are the row locks of    *)
(* the providers it updates.  PostgreSQL makes what was written visible at *)
(* the commit, all at once, and aborts a session of a cycle of waits.      *)
(* Every other statement of the code is a step of its own.                 *)
(***************************************************************************)
EXTENDS Naturals, Sequences, FiniteSets, SequencesExt

CONSTANTS
    Webhook,        \* dispute events of a provider (handleDisputeWebhook)
    Admin,          \* disputes opened through POST /admin/disputes
    Toggle,         \* requests that switch traffic, for one provider or for many
    Tx,             \* transactions
    Of,             \* the transaction each dispute is about
    Provider,
    ProviderOf,     \* the provider a transaction was assigned to, or None
    Linked,         \* transactions with a provider_transaction_id
    Addressed,      \* the providers that have a base_url throughout
    Plan,           \* the providers a toggle updates, in the order of the request
    Enables,        \* the toggles that switch traffic on
    Verdict,        \* the statuses an admin gives to a dispute
    Deposit,        \* deposits being routed
    MaxAttempts,    \* attempts to tell the provider of a dispute (4 in the code)
    MaxFaults,      \* bound on failing statements
    MaxCrashes,     \* bound on crashes of the process
    None

Filing == Webhook \cup Admin
Session == Filing \cup Toggle
ActiveStatus == {"NEW", "UNDER_REVIEW", "AWAITING_PROVIDER_RESPONSE"}
ResolvedStatus == {"MERCHANT_WON", "PROVIDER_WON", "CLOSED"}
DisputeStatus == ActiveStatus \cup ResolvedStatus

ASSUME DisputesAssumption ==
    /\ IsFiniteSet(Session)
    /\ Webhook \cap Admin = {} /\ Filing \cap Toggle = {}
    /\ Of \in [Filing -> Tx]
    /\ ProviderOf \in [Tx -> Provider \cup {None}]
    /\ Linked \subseteq Tx
    /\ Addressed \subseteq Provider
    /\ Plan \in [Toggle -> Seq(Provider)]
    /\ Enables \subseteq Toggle
    /\ Verdict \subseteq DisputeStatus
    /\ MaxAttempts \in Nat \ {0}
    /\ MaxFaults \in Nat /\ MaxCrashes \in Nat
    /\ None \notin Provider \cup Session \cup DisputeStatus

VARIABLES
    disputes,   \* the disputes table: the status of the dispute each filing created
    enabled,    \* providers.traffic_enabled
    active,     \* providers.status = 'ACTIVE'
    log,        \* provider_traffic_history: which session wrote a record for which provider
    session,    \* where each session is: its label and the next of its providers
    lock,       \* the session that holds a provider's row
    work,       \* what each session wrote and has not committed
    notifier,   \* the goroutine that tells the provider of a dispute
    route,      \* the deposits in Engine.Route
    warned,     \* webhooks that came while a dispute was open that is open still (history)
    shut,       \* providers not eligible since a deposit's routing began (history)
    faults, crashes

vars == <<disputes, enabled, active, log, session, lock, work, notifier, route, warned, shut,
          faults, crashes>>

-----------------------------------------------------------------------------
(* State.                                                                  *)

Targets(s) == IF s \in Toggle THEN Plan[s] ELSE <<ProviderOf[Of[s]]>>

(* The labels of a session whose database transaction is open.             *)
Open == {"insert", "update", "record", "commit"}
SessionState == [pc: {"idle", "check", "begin", "done", "failed"} \cup Open, next: Nat]

Work == [filed: BOOLEAN, moved: SUBSET Provider, logged: SUBSET Provider]
NoWork == [filed |-> FALSE, moved |-> {}, logged |-> {}]

NotifierState ==
    [pc: {"none", "run", "skipped", "accepted", "refused", "gaveUp", "lost"}, tries: Nat]
RouteState == [pc: {"idle", "query", "confirm", "done", "failed"}, to: Provider \cup {None}]

TypeOK ==
    /\ disputes \in [Filing -> DisputeStatus \cup {None}]
    /\ enabled \subseteq Provider /\ active \subseteq Provider
    /\ log \subseteq Session \X Provider
    /\ session \in [Session -> SessionState]
    /\ lock \in [Provider -> Session \cup {None}]
    /\ work \in [Session -> Work]
    /\ notifier \in [Filing -> NotifierState]
    /\ \A f \in Filing : notifier[f].tries <= MaxAttempts
    /\ route \in [Deposit -> RouteState]
    /\ warned \subseteq Webhook
    /\ shut \in [Deposit -> SUBSET Provider]
    /\ faults \in 0 .. MaxFaults /\ crashes \in 0 .. MaxCrashes

Init ==
    /\ disputes = [f \in Filing |-> None]
    /\ enabled = Provider /\ active = Provider
    /\ log = {}
    /\ session = [s \in Session |-> [pc |-> "idle", next |-> 1]]
    /\ lock = [x \in Provider |-> None]
    /\ work = [s \in Session |-> NoWork]
    /\ notifier = [f \in Filing |-> [pc |-> "none", tries |-> 0]]
    /\ route = [d \in Deposit |-> [pc |-> "idle", to |-> None]]
    /\ warned = {}
    /\ shut = [d \in Deposit |-> {}]
    /\ faults = 0 /\ crashes = 0

Fault == faults < MaxFaults /\ faults' = faults + 1

(* What HasOpenDispute counts, and what the subquery of getMatchingRules counts. *)
HasOpenDispute(t) ==
    \E f \in Filing : Of[f] = t /\ disputes[f] \notin ResolvedStatus \cup {None}
ActiveDisputes(x) == {f \in Filing : ProviderOf[Of[f]] = x /\ disputes[f] \in ActiveStatus}

Eligible == {x \in active \cap enabled : ActiveDisputes(x) = {}}

At(s, label) == session' = [session EXCEPT ![s].pc = label]

-----------------------------------------------------------------------------
(* Opening a dispute.                                                      *)

(* An event that was matched to its transaction goes to                    *)
(* handleDisputeWebhook; the admin's request goes to CreateDispute at once. *)
File(f) ==
    /\ session[f].pc = "idle"
    /\ At(f, IF f \in Webhook THEN "check" ELSE "begin")
    /\ UNCHANGED <<disputes, enabled, active, log, lock, work, notifier, route, faults, crashes>>

(* Mutant: the answer of HasOpenDispute is not looked at.                  *)
CheckOpen_Ignores(f) ==
    /\ session[f].pc = "check"
    /\ At(f, "begin")
    /\ UNCHANGED <<disputes, enabled, active, log, lock, work, notifier, route, faults, crashes>>

(* A failing check is logged, and the dispute is created all the same.     *)
CheckOpen(f) ==
    /\ session[f].pc = "check"
    /\ \/ At(f, IF HasOpenDispute(Of[f]) THEN "done" ELSE "begin") /\ UNCHANGED faults
       \/ Fault /\ At(f, "begin")
    /\ UNCHANGED <<disputes, enabled, active, log, lock, work, notifier, route, crashes>>

(* Mutant: the provider is told while the dispute is still being written.  *)
BeginFile_Tells(f) ==
    /\ session[f].pc = "begin"
    /\ ProviderOf[Of[f]] # None
    /\ At(f, "insert")
    /\ notifier' = [notifier EXCEPT ![f].pc = "run"]
    /\ UNCHANGED <<disputes, enabled, active, log, lock, work, route, faults, crashes>>

(* The SELECT of the transaction and BEGIN.  A transaction without a        *)
(* provider cannot be scanned: no dispute.                                 *)
BeginFile(f) ==
    /\ session[f].pc = "begin"
    /\ \/ /\ At(f, IF ProviderOf[Of[f]] = None THEN "failed" ELSE "insert")
          /\ UNCHANGED faults
       \/ Fault /\ At(f, "failed")
    /\ UNCHANGED <<disputes, enabled, active, log, lock, work, notifier, route, crashes>>

InsertDispute(f) ==
    /\ session[f].pc = "insert"
    /\ At(f, "update")
    /\ work' = [work EXCEPT ![f].filed = TRUE]
    /\ UNCHANGED <<disputes, enabled, active, log, lock, notifier, route, faults, crashes>>

(* An admin sets the status of a dispute, from any status to any other.    *)
UpdateStatus(f, status) ==
    /\ disputes[f] # None
    /\ disputes' = [disputes EXCEPT ![f] = status]
    /\ UNCHANGED <<enabled, active, log, session, lock, work, notifier, route, faults, crashes>>

-----------------------------------------------------------------------------
(* Sessions.                                                               *)

(* The loop over the providers: the next one, or the commit after the last. *)
Turn(s, n) == IF n <= Len(Targets(s)) THEN "update" ELSE "commit"

BeginToggle(g) ==
    /\ session[g].pc = "idle"
    /\ At(g, Turn(g, 1))
    /\ UNCHANGED <<disputes, enabled, active, log, lock, work, notifier, route, faults, crashes>>

Current(s) == Targets(s)[session[s].next]

(* The row a session asks for, None when it asks for none.                 *)
Wanted(s) == IF session[s].pc = "update" THEN Current(s) ELSE None

(* Mutant: the UPDATE is sent on the pool, not on the transaction.         *)
UpdateProvider_OnPool(s) ==
    /\ Wanted(s) # None
    /\ lock[Wanted(s)] \in {None, s}
    /\ work' = [work EXCEPT ![s].moved = @ \cup {Wanted(s)}]
    /\ At(s, "record")
    /\ UNCHANGED <<disputes, enabled, active, log, lock, notifier, route, faults, crashes>>

(* The UPDATE of the provider's traffic, which waits for the lock of its row. *)
UpdateProvider(s) ==
    LET x == Wanted(s)
    IN  /\ x # None
        /\ lock[x] \in {None, s}
        /\ lock' = [lock EXCEPT ![x] = s]
        /\ work' = [work EXCEPT ![s].moved = @ \cup {x}]
        /\ At(s, "record")
        /\ UNCHANGED <<disputes, enabled, active, log, notifier, route, faults, crashes>>

(* Mutant: the history is written on the pool, not on the transaction.     *)
RecordTraffic_OnPool(s) ==
    /\ session[s].pc = "record"
    /\ log' = log \cup {<<s, Current(s)>>}
    /\ session' = [session EXCEPT ![s] = [pc |-> Turn(s, @.next + 1), next |-> @.next + 1]]
    /\ UNCHANGED <<disputes, enabled, active, lock, work, notifier, route, faults, crashes>>

(* The INSERT of the provider's history, and the next turn of the loop.  A *)
(* dispute adds a row to its own history before it commits.                *)
RecordTraffic(s) ==
    /\ session[s].pc = "record"
    /\ work' = [work EXCEPT ![s].logged = @ \cup {Current(s)}]
    /\ session' = [session EXCEPT ![s] = [pc |-> Turn(s, @.next + 1), next |-> @.next + 1]]
    /\ UNCHANGED <<disputes, enabled, active, log, lock, notifier, route, faults, crashes>>

Release(s) == [x \in Provider |-> IF lock[x] = s THEN None ELSE lock[x]]

(* The database transaction of s is over.                                  *)
End(s, label) ==
    /\ lock' = Release(s)
    /\ work' = [work EXCEPT ![s] = NoWork]
    /\ At(s, label)

(* What s wrote becomes visible.                                           *)
Apply(s) ==
    /\ enabled' = IF s \in Enables THEN enabled \cup work[s].moved ELSE enabled \ work[s].moved
    /\ log' = log \cup ({s} \X work[s].logged)
    /\ disputes' = IF work[s].filed THEN [disputes EXCEPT ![s] = "NEW"] ELSE disputes

(* The commit; a dispute's webhook to the provider is started after it, if  *)
(* the provider knows the transaction.  A commit that reports an error may  *)
(* have happened, and then nobody starts the webhook.                       *)
Commit(s) ==
    /\ session[s].pc = "commit"
    /\ \/ /\ Apply(s)
          /\ End(s, "done")
          /\ notifier' = IF s \in Toggle THEN notifier
                         ELSE [notifier EXCEPT ![s].pc = IF Of[s] \in Linked THEN "run"
                                                                             ELSE "skipped"]
          /\ UNCHANGED faults
       \/ /\ Fault
          /\ Apply(s) \/ UNCHANGED <<enabled, log, disputes>>
          /\ End(s, "failed")
          /\ UNCHANGED notifier
    /\ UNCHANGED <<active, route, crashes>>

(* Mutant: a statement fails and the transaction is left open.             *)
Rollback_KeepsLocks(s) ==
    /\ session[s].pc \in Open
    /\ Fault
    /\ At(s, "failed")
    /\ UNCHANGED <<disputes, enabled, active, log, lock, work, notifier, route, crashes>>

(* A statement fails: the deferred Rollback ends the session.              *)
Rollback(s) ==
    /\ session[s].pc \in Open
    /\ Fault
    /\ End(s, "failed")
    /\ UNCHANGED <<disputes, enabled, active, log, notifier, route, crashes>>

WaitsFor(s, t) == Wanted(s) # None /\ s # t /\ lock[Wanted(s)] = t

(* PostgreSQL breaks a cycle of waits: a session of it gets an error.      *)
DeadlockVictim(s) ==
    /\ \E cycle \in SUBSET Session :
          /\ s \in cycle
          /\ \A t \in cycle : \E u \in cycle : WaitsFor(u, t)
    /\ End(s, "failed")
    /\ UNCHANGED <<disputes, enabled, active, log, notifier, route, faults, crashes>>

-----------------------------------------------------------------------------
(* notifyProviderAboutDispute.                                             *)

Tried(f, pc) == notifier' = [notifier EXCEPT ![f] = [pc |-> pc, tries |-> @.tries + 1]]

(* Mutant: the count starts again after the last attempt.                  *)
Attempt_Restarts(f) ==
    /\ notifier[f].pc = "run"
    /\ \/ Tried(f, "accepted")
       \/ notifier' = [notifier EXCEPT ![f].tries = (@ + 1) % MaxAttempts]
    /\ UNCHANGED <<disputes, enabled, active, log, session, lock, work, route, faults, crashes>>

(* Mutant: the notifier never gives up.                                    *)
Attempt_Endless(f) ==
    /\ notifier[f].pc = "run"
    /\ Tried(f, "accepted") \/ Tried(f, "run")
    /\ UNCHANGED <<disputes, enabled, active, log, session, lock, work, route, faults, crashes>>

(* One attempt: accepted (2xx), refused (4xx but 409), or to be repeated   *)
(* (no answer, 409, 5xx and the rest) until MaxAttempts.  None is made     *)
(* when the provider has no base_url at that moment or its row cannot be   *)
(* read.                                                                   *)
Attempt(f) ==
    /\ notifier[f].pc = "run"
    /\ \/ /\ \/ Tried(f, "accepted")
             \/ Tried(f, "refused")
             \/ Tried(f, IF notifier[f].tries + 1 = MaxAttempts THEN "gaveUp" ELSE "run")
          /\ UNCHANGED faults
       \/ /\ notifier[f].tries = 0
          /\ notifier' = [notifier EXCEPT ![f].pc = "skipped"]
          /\ \/ ProviderOf[Of[f]] \notin Addressed /\ UNCHANGED faults
             \/ Fault
    /\ UNCHANGED <<disputes, enabled, active, log, session, lock, work, route, crashes>>

-----------------------------------------------------------------------------
(* Routing a deposit: Engine.Route without payer affinity.                 *)

BeginRoute(d) ==
    /\ route[d].pc = "idle"
    /\ route' = [route EXCEPT ![d].pc = "query"]
    /\ UNCHANGED <<disputes, enabled, active, log, session, lock, work, notifier, faults, crashes>>

(* Mutant: the rules of providers with disputes are not left out.          *)
QueryRules_IgnoresDisputes(d) ==
    /\ route[d].pc = "query"
    /\ \/ \E x \in active \cap enabled :
             route' = [route EXCEPT ![d] = [pc |-> "confirm", to |-> x]]
       \/ active \cap enabled = {} /\ route' = [route EXCEPT ![d].pc = "failed"]
    /\ UNCHANGED <<disputes, enabled, active, log, session, lock, work, notifier, faults, crashes>>

(* getMatchingRules is one statement; weightedSelect may take any of its    *)
(* rows, since a weight below one counts as one.                            *)
QueryRules(d) ==
    /\ route[d].pc = "query"
    /\ \/ /\ \/ \E x \in Eligible : route' = [route EXCEPT ![d] = [pc |-> "confirm", to |-> x]]
             \/ Eligible = {} /\ route' = [route EXCEPT ![d].pc = "failed"]
          /\ UNCHANGED faults
       \/ Fault /\ route' = [route EXCEPT ![d].pc = "failed"]
    /\ UNCHANGED <<disputes, enabled, active, log, session, lock, work, notifier, crashes>>

(* Mutant: the chosen provider is not looked at again.                     *)
ConfirmProvider_Trusts(d) ==
    /\ route[d].pc = "confirm"
    /\ route' = [route EXCEPT ![d].pc = "done"]
    /\ UNCHANGED <<disputes, enabled, active, log, session, lock, work, notifier, faults, crashes>>

(* getActiveProvider looks at the provider's status again, not at its      *)
(* traffic or its disputes.                                                *)
ConfirmProvider(d) ==
    /\ route[d].pc = "confirm"
    /\ \/ /\ route' = [route EXCEPT ![d].pc = IF route[d].to \in active THEN "done" ELSE "failed"]
          /\ UNCHANGED faults
       \/ Fault /\ route' = [route EXCEPT ![d].pc = "failed"]
    /\ UNCHANGED <<disputes, enabled, active, log, session, lock, work, notifier, crashes>>

(* PATCH /admin/providers/:id/status; the UPDATE waits for a session that  *)
(* holds the row.                                                          *)
SetProviderStatus(x) ==
    /\ lock[x] = None
    /\ active' \in {active \cup {x}, active \ {x}}
    /\ UNCHANGED <<disputes, enabled, log, session, lock, work, notifier, route, faults, crashes>>

-----------------------------------------------------------------------------
(* A crash ends every handler and goroutine; the database rolls back the   *)
(* sessions whose connection is gone.                                      *)
Crash ==
    /\ crashes < MaxCrashes
    /\ crashes' = crashes + 1
    /\ session' = [s \in Session |-> IF session[s].pc \in {"idle", "done"} THEN session[s]
                                     ELSE [session[s] EXCEPT !.pc = "failed"]]
    /\ lock' = [x \in Provider |-> None]
    /\ work' = [s \in Session |-> NoWork]
    /\ notifier' = [f \in Filing |-> IF notifier[f].pc = "run"
                                     THEN [notifier[f] EXCEPT !.pc = "lost"] ELSE notifier[f]]
    /\ route' = [d \in Deposit |-> IF route[d].pc \in {"query", "confirm"}
                                   THEN [route[d] EXCEPT !.pc = "failed"] ELSE route[d]]
    /\ UNCHANGED <<disputes, enabled, active, log, faults>>

Step ==
    \/ \E f \in Filing : \/ File(f) \/ CheckOpen(f) \/ BeginFile(f) \/ InsertDispute(f)
                        \/ Attempt(f)
    \/ \E f \in Filing, status \in Verdict : UpdateStatus(f, status)
    \/ \E g \in Toggle : BeginToggle(g)
    \/ \E s \in Session : \/ UpdateProvider(s) \/ RecordTraffic(s) \/ Commit(s)
                         \/ Rollback(s) \/ DeadlockVictim(s)
    \/ \E d \in Deposit : BeginRoute(d) \/ QueryRules(d) \/ ConfirmProvider(d)
    \/ \E x \in Provider : SetProviderStatus(x)
    \/ Crash

(* The history variables follow every step.                                *)
Observe ==
    /\ warned' = {f \in Webhook : /\ HasOpenDispute(Of[f])'
                                  /\ \/ f \in warned
                                     \/ session[f].pc = "idle" /\ session'[f].pc = "check"}
    /\ shut' = [d \in Deposit |->
                   IF route[d].pc = "idle" /\ route'[d].pc = "query" THEN Provider \ Eligible'
                   ELSE shut[d] \ Eligible']

Next == Step /\ Observe

Spec == Init /\ [][Next]_vars

(* Handlers, sessions and goroutines keep running, and PostgreSQL resolves *)
(* its deadlocks; admins and providers owe nothing.                        *)
Fairness ==
    /\ \A f \in Filing : /\ WF_vars(CheckOpen(f) /\ Observe)
                         /\ WF_vars(BeginFile(f) /\ Observe)
                         /\ WF_vars(InsertDispute(f) /\ Observe)
                         /\ WF_vars(Attempt(f) /\ Observe)
    /\ \A s \in Session : /\ WF_vars(UpdateProvider(s) /\ Observe)
                          /\ WF_vars(RecordTraffic(s) /\ Observe)
                          /\ WF_vars(Commit(s) /\ Observe)
    /\ WF_vars((\E s \in Session : DeadlockVictim(s)) /\ Observe)

FairSpec == Spec /\ Fairness

-----------------------------------------------------------------------------
(* Properties that hold.                                                   *)

(* A deposit is never routed to a provider that was blocked (traffic off,   *)
(* an active dispute, or not active) when its routing began and ever since, *)
(* even if an admin has switched its traffic on again under a dispute.      *)
BlockedIsNotRouted == \A d \in Deposit : route[d].pc = "done" => route[d].to \notin shut[d]

(* A dispute and the record of its provider's block come together or not   *)
(* at all, and so do the records of a bulk request, whatever statement     *)
(* fails and whichever session a deadlock aborts: no statement is left out *)
(* before the commit, and none is sent outside the transaction.            *)
AllOrNothing ==
    \A s \in Session :
        LET logged == {x \in Provider : <<s, x>> \in log}
        IN  /\ logged \in {{}, ToSet(Targets(s))}
            /\ s \in Filing => (disputes[s] # None <=> logged # {})
            /\ session[s].pc = "done" /\ s \in Toggle => logged = ToSet(Targets(s))

(* A webhook that came when its transaction already had an open dispute,    *)
(* which stayed open, opens no second one unless the check itself failed.   *)
NoSecondDispute ==
    [][\A f \in Webhook : disputes[f] = None /\ disputes'[f] # None =>
          f \notin warned \/ faults > 0]_vars

(* Whoever changes a provider's traffic has held its row since its UPDATE, *)
(* and ends by the change; its status changes only while nobody holds it.  *)
(* So the sessions might as well run one after the other.                  *)
OnlyHolderWrites ==
    [][\A x \in Provider :
          /\ (x \in enabled) # (x \in enabled') =>
                /\ lock[x] # None /\ session[lock[x]].pc = "commit"
                /\ session'[lock[x]].pc \in {"done", "failed"}
          /\ (x \in active) # (x \in active') => lock[x] = None]_vars

(* Disputes, traffic and routing keep the promise of Blocking: whatever is  *)
(* between the statements, a session is one step or none, and the provider *)
(* is told of nothing that was rolled back.                                *)
Promise == INSTANCE Blocking WITH
    Blocks <- [f \in Filing |-> ProviderOf[Of[f]]],
    Moves <- [g \in Toggle |-> ToSet(Plan[g])],
    Active <- ActiveStatus, Told <- {f \in Filing : Of[f] \in Linked}, Limit <- MaxAttempts,
    traffic <- enabled, record <- log,
    chosen <- [d \in Deposit |-> route[d].to],
    routed <- {d \in Deposit : route[d].pc = "done"},
    attempts <- [f \in Filing |-> notifier[f].tries],
    answered <- {f \in Filing : notifier[f].pc \in {"accepted", "refused"}}
KeepsBlocking == Promise!Spec

(* Every session that has begun ends: no lock is held for ever.            *)
SessionsEnd ==
    \A s \in Session : session[s].pc \notin {"idle", "done", "failed"}
                          ~> session[s].pc \in {"done", "failed"}

(* A provider that has an address is told of every dispute on a transaction *)
(* it knows, in at most MaxAttempts attempts, unless a fault or a crash    *)
(* comes between.                                                          *)
DisputeIsReported ==
    \A f \in Filing : disputes[f] # None /\ Of[f] \in Linked /\ ProviderOf[Of[f]] \in Addressed ~>
        notifier[f].pc \in {"accepted", "refused", "gaveUp"} \/ faults > 0 \/ crashes > 0

-----------------------------------------------------------------------------
(* Claims of comments and of the documentation that the code does not keep. *)

(* handleDisputeWebhook: no second open dispute for the same transaction.   *)
OneOpenDispute ==
    \A e, f \in Webhook :
        /\ Of[e] = Of[f]
        /\ {disputes[e], disputes[f]} \cap (ResolvedStatus \cup {None}) = {}
        => e = f

(* The integration guide: traffic is blocked until the dispute is resolved. *)
TrafficReturns ==
    \A x \in Provider :
        (x \notin enabled /\ \A f \in Filing : ProviderOf[Of[f]] = x =>
                                 disputes[f] \in ResolvedStatus \cup {None})
        ~> (x \in enabled \/ ActiveDisputes(x) # {})
=============================================================================
