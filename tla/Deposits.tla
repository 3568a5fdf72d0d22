------------------------------ MODULE Deposits ------------------------------
(***************************************************************************)
(* The life of a deposit: the transactions table, the requests that create *)
(* its rows (transactions/handler.go, transactions/service.go), and        *)
(* everything that writes a status afterwards: the webhooks of the two     *)
(* integrated providers (handlers/webhook.go), the status posts of the     *)
(* provider API and of the sandbox, the expiry job (scheduler.go), and the *)
(* goroutines that call the merchant back (webhooks/notifier.go).          *)
(*                                                                         *)
(* Every SQL statement is a step of its own, since the code holds no       *)
(* database transaction across two of them.  A statement may fail, before  *)
(* or after it took effect (a cancelled request context, a lost            *)
(* connection), and the process may crash between any two steps.           *)
(***************************************************************************)
EXTENDS Naturals, FiniteSets

CONSTANTS
    Request,        \* deposit requests; a request that inserts a row gives it its own id
    Key, NoKey,     \* values of the Idempotency-Key header (with the casino), and its absence
    KeyOf,          \* the key each request carries
    Identified,     \* the requests that carry a merchant_customer_id
    Callable,       \* those whose casino has a webhook_url and a secret_key whenever it is called back
    SerialClients,  \* TRUE: a client repeats a key only after its previous request ended
    Provider,       \* the active providers the router may pick
    Kind,           \* which integration each provider uses
    Hook,           \* webhook deliveries the providers make
    HookEvent,      \* the event names they use
    Post,           \* status posts of the provider API and of the sandbox
    PostStatus,     \* the statuses they ask for
    BatchLimit,     \* LIMIT of the expiry query (100 in the code)
    MaxFaults,      \* bound on failing statements and calls
    MaxCrashes,     \* bound on crashes of the process
    None

FinalStatus == {"PAID", "EXPIRED", "PAYOUT_SUCCESS", "PAYOUT_ERROR", "CANCELLED"}
TxStatus == {"NEW", "ASSIGNED", "WAITING_PAYMENT"} \cup FinalStatus
MajorPayEvent == {"payment.success", "payment.expired", "payout.success", "payout.error"}
Pay911Event == {"success", "fail", "canceled", "expired"}

ASSUME DepositsAssumption ==
    /\ IsFiniteSet(Request)
    /\ NoKey \notin Key
    /\ KeyOf \in [Request -> Key \cup {NoKey}]
    /\ Identified \subseteq Request /\ Callable \subseteq Request
    /\ SerialClients \in BOOLEAN
    /\ Kind \in [Provider -> {"MajorPay", "911pay"}]
    /\ HookEvent \subseteq MajorPayEvent \cup Pay911Event
    /\ PostStatus \subseteq TxStatus
    /\ BatchLimit \in Nat \ {0}
    /\ MaxFaults \in Nat /\ MaxCrashes \in Nat
    /\ Hook \cap Post = {}
    /\ None \notin Request \cup Provider \cup TxStatus

(* The expiry job runs in one goroutine: it is the one worker of its kind. *)
Scheduler == "scheduler"
Worker == Hook \cup Post \cup {Scheduler}
ASSUME SchedulerIsNoDelivery == Scheduler \notin Hook \cup Post

VARIABLES
    row,        \* the transactions table: a record per request, "absent" before the INSERT
    aged,       \* the rows whose created_at is more than 30 minutes ago
    pc,         \* where each deposit request is
    routed,     \* its local routeResult.ProviderID
    orders,     \* the transactions a provider holds an order for
    worker,     \* the calls of UpdateStatus and of the webhook handlers
    batch,      \* ids the expiry query returned that are still to be expired
    pending,    \* goroutines spawned by UpdateStatus that have not called the merchant yet
    sent,       \* callbacks that reached the merchant's endpoint
    written,    \* committed UPDATEs of UpdateStatus, by transaction and status (history)
    affinity,   \* transactions recorded in customer_requisite_history
    faults, crashes

requestVars == <<pc, routed>>
notifyVars == <<pending, sent, written, affinity>>
vars == <<row, aged, requestVars, orders, worker, batch, notifyVars, faults, crashes>>

-----------------------------------------------------------------------------
(* State.                                                                  *)

Row == [status: TxStatus \cup {"absent"}, assigned: BOOLEAN, linked: BOOLEAN,
        paidAt: BOOLEAN, requisite: BOOLEAN, key: Key \cup {NoKey}]

NoRow == [status |-> "absent", assigned |-> FALSE, linked |-> FALSE,
          paidAt |-> FALSE, requisite |-> FALSE, key |-> NoKey]

NewRow == [NoRow EXCEPT !.status = "NEW"]

Exists(r) == row[r].status # "absent"

RequestPC == {"idle", "check", "insert", "route", "cancel", "assign", "fetch", "call", "save",
              "storeKey", "done", "failed"}

(* tries counts the lookups of a webhook; saved tells whether the provider's *)
(* id had been saved when it arrived; outcome is how the call ended.         *)
WorkerState == [pc: {"idle", "lookup", "write", "notify", "done"},
                tx: Request \cup {None}, status: TxStatus \cup {None}, tries: 0 .. 3,
                kind: {"MajorPay", "911pay", "post", "timer"}, saved: BOOLEAN,
                outcome: {"none", "applied", "dropped", "error"}]

Call(at, kind, t, s, saved) ==
    [pc |-> at, tx |-> t, status |-> s, tries |-> 0, kind |-> kind, saved |-> saved,
     outcome |-> "none"]

Idle(kind) == Call("idle", kind, None, None, FALSE)

(* Callbacks are counted for the final statuses, the only ones               *)
(* NotifyMerchant acts on.                                                 *)
Counts == [Request -> [FinalStatus -> Nat]]
Zero == [r \in Request |-> [s \in FinalStatus |-> 0]]
More(c, r, s) == IF s \in FinalStatus THEN [c EXCEPT ![r][s] = @ + 1] ELSE c
Fewer(c, r, s) == [c EXCEPT ![r][s] = @ - 1]

TypeOK ==
    /\ row \in [Request -> Row]
    /\ aged \subseteq Request
    /\ pc \in [Request -> RequestPC]
    /\ routed \in [Request -> Provider \cup {None}]
    /\ orders \subseteq Request
    /\ worker \in [Worker -> WorkerState]
    /\ batch \subseteq Request
    /\ pending \in Counts /\ sent \in Counts /\ written \in Counts
    /\ affinity \subseteq Request
    /\ faults \in 0 .. MaxFaults /\ crashes \in 0 .. MaxCrashes

Init ==
    /\ row = [r \in Request |-> NoRow]
    /\ aged = {}
    /\ pc = [r \in Request |-> "idle"]
    /\ routed = [r \in Request |-> None]
    /\ orders = {}
    /\ worker = [w \in Worker |-> Idle(IF w = Scheduler THEN "timer" ELSE "post")]
    /\ batch = {}
    /\ pending = Zero /\ sent = Zero /\ written = Zero
    /\ affinity = {}
    /\ faults = 0 /\ crashes = 0

Fault == faults < MaxFaults /\ faults' = faults + 1

-----------------------------------------------------------------------------
(* POST /deposit/create: Handler.CreateDeposit and Service.CreateDeposit.  *)

To(r, label) == [pc EXCEPT ![r] = label]
Goto(r, label) == pc' = To(r, label)

(* An INSERT or UPDATE of r's row by the request itself.  When it reports  *)
(* an error the row may or may not have changed.                           *)
Statement(r, newRow, ok, err) ==
    \/ /\ row' = [row EXCEPT ![r] = newRow]
       /\ Goto(r, ok)
       /\ UNCHANGED faults
    \/ /\ Fault
       /\ row' \in {row, [row EXCEPT ![r] = newRow]}
       /\ Goto(r, err)

InProgress(r) == pc[r] \notin {"idle", "done", "failed"}

(* The request is bound; without a key the handler goes straight to the    *)
(* service.                                                                *)
Begin(r) ==
    /\ pc[r] = "idle"
    /\ SerialClients => \A q \in Request : KeyOf[q] = KeyOf[r] => ~InProgress(q)
    /\ Goto(r, IF KeyOf[r] = NoKey THEN "insert" ELSE "check")
    /\ UNCHANGED <<row, aged, routed, orders, worker, batch, notifyVars, faults, crashes>>

(* SELECT by key: a hit answers with the stored transaction; a miss, or    *)
(* any error of this query or of GetByID, goes on to create a new one.     *)
CheckKey(r) ==
    /\ pc[r] = "check"
    /\ \/ /\ Goto(r, IF \E q \in Request : row[q].key = KeyOf[r] THEN "done" ELSE "insert")
          /\ UNCHANGED faults
       \/ Fault /\ Goto(r, "insert")
    /\ UNCHANGED <<row, aged, routed, orders, worker, batch, notifyVars, crashes>>

Insert(r) ==
    /\ pc[r] = "insert"
    /\ Statement(r, NewRow, "route", "failed")
    /\ UNCHANGED <<aged, routed, orders, worker, batch, notifyVars, crashes>>

(* Mutant: the provider is called for a deposit that was never assigned.    *)
Route_SkipsAssign(r) ==
    /\ pc[r] = "route"
    /\ \/ \E p \in Provider : routed' = [routed EXCEPT ![r] = p] /\ Goto(r, "fetch")
       \/ UNCHANGED routed /\ Goto(r, "cancel")
    /\ UNCHANGED <<row, aged, orders, worker, batch, notifyVars, faults, crashes>>

(* Mutant: a routing error answers the request without cancelling the row.  *)
Route_NoCancel(r) ==
    /\ pc[r] = "route"
    /\ \/ \E p \in Provider : routed' = [routed EXCEPT ![r] = p] /\ Goto(r, "assign")
       \/ UNCHANGED routed /\ Goto(r, "storeKey")
    /\ UNCHANGED <<row, aged, orders, worker, batch, notifyVars, faults, crashes>>

(* router.Route: some active provider, or an error.                        *)
Route(r) ==
    /\ pc[r] = "route"
    /\ \/ \E p \in Provider : routed' = [routed EXCEPT ![r] = p] /\ Goto(r, "assign")
       \/ UNCHANGED routed /\ Goto(r, "cancel")
    /\ UNCHANGED <<row, aged, orders, worker, batch, notifyVars, faults, crashes>>

(* Routing failed: the row is cancelled with a plain UPDATE whose error is *)
(* ignored, and no callback is spawned.                                    *)
Cancel(r) ==
    /\ pc[r] = "cancel"
    /\ Statement(r, [row[r] EXCEPT !.status = "CANCELLED"], "storeKey", "storeKey")
    /\ UNCHANGED <<aged, routed, orders, worker, batch, notifyVars, crashes>>

(* The provider and WAITING_PAYMENT are written whatever the row's status is *)
(* by now; requisite_id is not among the columns.                            *)
Assign(r) ==
    /\ pc[r] = "assign"
    /\ Statement(r, [row[r] EXCEPT !.status = "WAITING_PAYMENT", !.assigned = TRUE],
                 "fetch", "failed")
    /\ UNCHANGED <<aged, routed, orders, worker, batch, notifyVars, crashes>>

(* Mutant: a failed read of the provider repeats the assignment.           *)
FetchProvider_Reassigns(r) ==
    /\ pc[r] = "fetch"
    /\ \/ Goto(r, "call") /\ UNCHANGED faults
       \/ Fault /\ Goto(r, "assign")
    /\ UNCHANGED <<row, aged, routed, orders, worker, batch, notifyVars, crashes>>

FetchProvider(r) ==
    /\ pc[r] = "fetch"
    /\ \/ Goto(r, "call") /\ UNCHANGED faults
       \/ Fault /\ Goto(r, "failed")
    /\ UNCHANGED <<row, aged, routed, orders, worker, batch, notifyVars, crashes>>

(* The API of 911pay or of MajorPay creates an order and answers with its   *)
(* id, or with an empty one, which links nothing.  The call is left out    *)
(* when the provider is not configured for it; when it fails the order may *)
(* exist all the same, and the request goes on without it.                 *)
CallProvider(r) ==
    /\ pc[r] = "call"
    /\ \/ orders' = orders \cup {r} /\ pc' \in {To(r, "save"), To(r, "storeKey")}
          /\ UNCHANGED faults
       \/ Fault /\ orders' \in {orders, orders \cup {r}} /\ Goto(r, "storeKey")
       \/ UNCHANGED <<orders, faults>> /\ Goto(r, "storeKey")
    /\ UNCHANGED <<row, aged, routed, worker, batch, notifyVars, crashes>>

(* The order's id is saved for the webhooks, by either integration.        *)
SaveOrder(r) ==
    /\ pc[r] = "save"
    /\ Statement(r, [row[r] EXCEPT !.linked = TRUE], "storeKey", "storeKey")
    /\ UNCHANGED <<aged, routed, orders, worker, batch, notifyVars, crashes>>

(* Mutant: the key is never stored.                                        *)
StoreKey_Forgets(r) ==
    /\ pc[r] = "storeKey"
    /\ Statement(r, row[r], "done", "done")
    /\ UNCHANGED <<aged, routed, orders, worker, batch, notifyVars, crashes>>

StoreKey(r) ==
    /\ pc[r] = "storeKey"
    /\ Statement(r, [row[r] EXCEPT !.key = KeyOf[r]], "done", "done")
    /\ UNCHANGED <<aged, routed, orders, worker, batch, notifyVars, crashes>>

RequestStep(r) ==
    \/ CheckKey(r) \/ Insert(r) \/ Route(r) \/ Cancel(r) \/ Assign(r)
    \/ FetchProvider(r) \/ CallProvider(r) \/ SaveOrder(r) \/ StoreKey(r)

-----------------------------------------------------------------------------
(* Service.UpdateStatus, run by worker w for worker[w].tx.                 *)

Ended(w, outcome) == [worker[w] EXCEPT !.pc = "done", !.outcome = outcome]

Settled(x, s) == [x EXCEPT !.status = s, !.paidAt = IF s = "PAID" THEN TRUE ELSE x.paidAt]

Written(t, s) == [row EXCEPT ![t] = Settled(row[t], s)]

(* Mutant: an error of the UPDATE is not returned.                         *)
WriteStatus_IgnoresError(w) ==
    LET t == worker[w].tx
        s == worker[w].status
    IN  /\ worker[w].pc = "write"
        /\ worker' = [worker EXCEPT ![w].pc = "notify"]
        /\ \/ /\ row' = Written(t, s)
              /\ written' = More(written, t, s)
              /\ UNCHANGED faults
           \/ Fault /\ UNCHANGED <<row, written>>
        /\ UNCHANGED <<aged, requestVars, orders, batch, pending, sent, affinity, crashes>>

(* The UPDATE has no condition on the row's present status.                *)
WriteStatus(w) ==
    LET t == worker[w].tx
        s == worker[w].status
    IN  /\ worker[w].pc = "write"
        /\ \/ /\ row' = Written(t, s)
              /\ written' = More(written, t, s)
              /\ worker' = [worker EXCEPT ![w].pc = "notify"]
              /\ UNCHANGED faults
           \/ /\ Fault
              /\ \/ UNCHANGED <<row, written>>
                 \/ row' = Written(t, s) /\ written' = More(written, t, s)
              /\ worker' = [worker EXCEPT ![w] = Ended(w, "error")]
        /\ UNCHANGED <<aged, requestVars, orders, batch, pending, sent, affinity, crashes>>

(* Mutant: EXPIRED is not taken for a final status, and nobody is told.     *)
SpawnNotify_ForgetsExpired(w) ==
    LET t == worker[w].tx
        s == worker[w].status
    IN  /\ worker[w].pc = "notify"
        /\ pending' = IF s = "EXPIRED" THEN pending ELSE More(pending, t, s)
        /\ worker' = [worker EXCEPT ![w] = Ended(w, "applied")]
        /\ UNCHANGED <<row, aged, requestVars, orders, batch, sent, written, affinity,
                       faults, crashes>>

(* After a payment the payer's requisite is remembered if the row has one; *)
(* then the goroutine that tells the merchant is spawned.                  *)
SpawnNotify(w) ==
    LET t == worker[w].tx
        s == worker[w].status
    IN  /\ worker[w].pc = "notify"
        /\ affinity' = affinity \cup
              {x \in {t} \cap Identified : s = "PAID" /\ row[x].requisite}
        /\ pending' = More(pending, t, s)
        /\ worker' = [worker EXCEPT ![w] = Ended(w, "applied")]
        /\ UNCHANGED <<row, aged, requestVars, orders, batch, sent, written, faults, crashes>>

(* NotifyMerchant makes one attempt.  It gives up before it when it cannot *)
(* read the transaction, and when the casino has no webhook_url or no      *)
(* secret_key at that moment, which casinos.Create leaves empty unless     *)
(* they are given; nothing tries again.                                    *)
Notify(r, s) ==
    /\ pending[r][s] > 0
    /\ pending' = Fewer(pending, r, s)
    /\ \/ sent' = More(sent, r, s) /\ UNCHANGED faults
       \/ r \notin Callable /\ UNCHANGED <<sent, faults>>
       \/ Fault /\ UNCHANGED sent
    /\ UNCHANGED <<row, aged, requestVars, orders, worker, batch, written, affinity, crashes>>

-----------------------------------------------------------------------------
(* Incoming webhooks.                                                      *)

MajorPayStatus(e) ==
    CASE e = "payment.success" -> "PAID"
      [] e = "payment.expired" -> "EXPIRED"
      [] e = "payout.success"  -> "PAYOUT_SUCCESS"
      [] e = "payout.error"    -> "PAYOUT_ERROR"

Pay911Status(e) ==
    CASE e = "success"             -> "PAID"
      [] e \in {"fail", "canceled"} -> "CANCELLED"
      [] e = "expired"             -> "EXPIRED"

(* A provider reports on an order it holds: any event, any number of times, *)
(* at any moment after the order exists.                                    *)
Arrive(h) ==
    /\ worker[h].pc = "idle"
    /\ \E t \in orders, e \in HookEvent :
          LET kind == Kind[routed[t]]
              s == IF kind = "MajorPay" THEN MajorPayStatus(e) ELSE Pay911Status(e)
          IN  /\ e \in (IF kind = "MajorPay" THEN MajorPayEvent ELSE Pay911Event)
              /\ worker' = [worker EXCEPT ![h] = Call("lookup", kind, t, s, row[t].linked)]
    /\ UNCHANGED <<row, aged, requestVars, orders, batch, notifyVars, faults, crashes>>

(* Mutant: the lookups have no limit.                                      *)
Lookup_Endless(h) ==
    /\ worker[h].pc = "lookup"
    /\ worker' = [worker EXCEPT ![h] =
          IF row[@.tx].linked THEN [@ EXCEPT !.pc = "write"] ELSE [@ EXCEPT !.tries = @ + 1]]
    /\ UNCHANGED <<row, aged, requestVars, orders, batch, notifyVars, faults, crashes>>

(* Mutant: a 911pay webhook is not matched by its external_id.              *)
Lookup_NoFallback(h) ==
    LET miss == [worker[h] EXCEPT !.tries = @ + 1]
    IN  /\ worker[h].pc = "lookup"
        /\ worker' = [worker EXCEPT ![h] =
              IF row[@.tx].linked THEN [@ EXCEPT !.pc = "write"]
              ELSE IF miss.tries < 3 THEN miss
              ELSE [miss EXCEPT !.pc = "done", !.outcome = "dropped"]]
        /\ UNCHANGED <<row, aged, requestVars, orders, batch, notifyVars, faults, crashes>>

(* Up to three SELECTs by provider_transaction_id.  After the third miss a  *)
(* 911pay webhook is matched by the external_id it echoes, which is the id  *)
(* of our row; a MajorPay webhook is answered 200 OK and dropped.           *)
Lookup(h) ==
    LET t == worker[h].tx
        miss == [worker[h] EXCEPT !.tries = @ + 1]
        dropped == [miss EXCEPT !.pc = "done", !.outcome = "dropped"]
        missed == IF miss.tries < 3 THEN miss
                  ELSE IF miss.kind = "911pay" /\ Exists(t) THEN [miss EXCEPT !.pc = "write"]
                  ELSE dropped
    IN  /\ worker[h].pc = "lookup"
        /\ \/ /\ worker' = [worker EXCEPT ![h] =
                    IF row[t].linked THEN [@ EXCEPT !.pc = "write"] ELSE missed]
              /\ UNCHANGED faults
           \/ /\ Fault
              /\ \/ worker' = [worker EXCEPT ![h] = missed]
                 \/ miss.tries = 3 /\ worker' = [worker EXCEPT ![h] = dropped]
        /\ UNCHANGED <<row, aged, requestVars, orders, batch, notifyVars, crashes>>

(* POST /provider/transaction/:id/status, which takes any status, and the   *)
(* sandbox's payment simulation call UpdateStatus for the id of any row, at *)
(* any time: the id is known as soon as the row is there, from the hub's    *)
(* event, the list of transactions and the audit log.                       *)
PostUpdate(p) ==
    /\ worker[p].pc = "idle"
    /\ \E t \in Request, s \in PostStatus :
          /\ Exists(t)
          /\ worker' = [worker EXCEPT ![p] = Call("write", "post", t, s, FALSE)]
    /\ UNCHANGED <<row, aged, requestVars, orders, batch, notifyVars, faults, crashes>>

-----------------------------------------------------------------------------
(* The expiry job.                                                         *)

(* Mutant: the query asks for a status nobody writes.                      *)
Due_Assigned == {r \in Request : row[r].status = "ASSIGNED" /\ r \in aged}

(* Mutant: the query also takes rows whose request is still routing them.  *)
Due_New == {r \in Request : row[r].status \in {"NEW", "WAITING_PAYMENT"} /\ r \in aged}

Due == {r \in Request : row[r].status = "WAITING_PAYMENT" /\ r \in aged}

(* Thirty minutes have passed since created_at.                            *)
Age(r) ==
    /\ Exists(r) /\ r \notin aged
    /\ aged' = aged \cup {r}
    /\ UNCHANGED <<row, requestVars, orders, worker, batch, notifyVars, faults, crashes>>

(* The query fixes the ids of this run.  The code takes the oldest rows    *)
(* first; here any BatchLimit of them.                                     *)
QueryDue ==
    /\ batch = {} /\ Due # {}
    /\ worker[Scheduler].pc \in {"idle", "done"}
    /\ \/ /\ \E ids \in SUBSET Due :
                /\ Cardinality(ids) <= BatchLimit
                /\ ids = Due \/ Cardinality(ids) = BatchLimit
                /\ batch' = ids
          /\ UNCHANGED faults
       \/ Fault /\ UNCHANGED batch
    /\ UNCHANGED <<row, aged, requestVars, orders, worker, notifyVars, crashes>>

(* The loop passes the next id to UpdateStatus, whatever became of the row *)
(* since the query; an error on the way to the next row ends the loop.     *)
NextDue ==
    /\ worker[Scheduler].pc \in {"idle", "done"}
    /\ \/ \E t \in batch :
             /\ batch' = batch \ {t}
             /\ worker' = [worker EXCEPT ![Scheduler] =
                             Call("write", "timer", t, "EXPIRED", FALSE)]
             /\ UNCHANGED faults
       \/ batch # {} /\ Fault /\ batch' = {} /\ UNCHANGED worker
    /\ UNCHANGED <<row, aged, requestVars, orders, notifyVars, crashes>>

-----------------------------------------------------------------------------
(* A crash or a restart ends every handler, job and goroutine; what the    *)
(* database committed and what the providers hold stays.                   *)
Crash ==
    /\ crashes < MaxCrashes
    /\ crashes' = crashes + 1
    /\ pc' = [r \in Request |-> IF InProgress(r) THEN "failed" ELSE pc[r]]
    /\ worker' = [w \in Worker |->
          IF worker[w].pc \in {"idle", "done"} THEN worker[w] ELSE Ended(w, "error")]
    /\ batch' = {}
    /\ pending' = Zero
    /\ UNCHANGED <<row, aged, routed, orders, sent, written, affinity, faults>>

Next ==
    \/ \E r \in Request : Begin(r) \/ RequestStep(r) \/ Age(r)
    \/ \E w \in Worker : WriteStatus(w) \/ SpawnNotify(w)
    \/ \E r \in Request, s \in FinalStatus : Notify(r, s)
    \/ \E h \in Hook : Arrive(h) \/ Lookup(h)
    \/ \E p \in Post : PostUpdate(p)
    \/ QueryDue \/ NextDue
    \/ Crash

Spec == Init /\ [][Next]_vars

(* What the server does by itself: its handlers, jobs and goroutines keep  *)
(* running (a crashed process is restarted), its clock advances.  Clients  *)
(* and providers owe it nothing.                                           *)
Fairness ==
    /\ \A r \in Request : WF_vars(RequestStep(r)) /\ WF_vars(Age(r))
    /\ \A w \in Worker : WF_vars(WriteStatus(w)) /\ WF_vars(SpawnNotify(w))
    /\ \A h \in Hook : WF_vars(Lookup(h))
    /\ \A r \in Request, s \in FinalStatus : WF_vars(Notify(r, s))
    /\ WF_vars(QueryDue) /\ WF_vars(NextDue)

FairSpec == Spec /\ Fairness

-----------------------------------------------------------------------------
(* Properties that hold.                                                   *)

(* A status post was made for r.                                           *)
Posted(r) == \E p \in Post : worker[p].tx = r

(* Worker w is about to write a status that is not final.                  *)
Reopens(w, r) ==
    worker[w].pc = "write" /\ worker[w].tx = r /\ worker[w].status \notin FinalStatus

(* Only the provider API and the sandbox take a transaction out of the      *)
(* final statuses: a post asks for it, or one came for a deposit that is   *)
(* still being routed, and the unconditional UPDATE that assigns the       *)
(* provider overwrites what is there by then.  No late webhook or expiry   *)
(* does, and no row that its request has let go is assigned again.         *)
FinalStaysFinal ==
    [][\A r \in Request : row[r].status \in FinalStatus =>
          \/ row'[r].status \in FinalStatus
          \/ \E p \in Post : Reopens(p, r)
          \/ pc[r] = "assign" /\ Posted(r)]_vars

(* A provider never holds an order for a deposit whose assignment was not  *)
(* committed before: the order is created after the UPDATE to              *)
(* WAITING_PAYMENT, so even a lost answer leaves a row the expiry job sees.*)
OrderedIsAssigned == \A r \in orders : row[r].assigned

(* The merchant gets at most one callback per committed status update, and *)
(* never one for a status that was not committed; without faults and       *)
(* crashes no callback to a casino that has an address and a key is lost   *)
(* on the way.                                                             *)
NotifiedOncePerUpdate ==
    \A r \in Request, s \in FinalStatus :
        LET spawning == Cardinality({w \in Worker : /\ worker[w].pc = "notify"
                                                    /\ worker[w].tx = r
                                                    /\ worker[w].status = s})
            accounted == sent[r][s] + pending[r][s] + spawning
        IN  /\ accounted <= written[r][s]
            /\ r \in Callable /\ faults = 0 /\ crashes = 0 => accounted = written[r][s]

(* A webhook is dropped without a fault only if it is MajorPay's and came  *)
(* before the order's id was saved: the three lookups find what was saved  *)
(* when it arrived, and 911pay's external_id finds the row in any case.    *)
DroppedOnlyUnlinked ==
    \A h \in Hook : worker[h].outcome = "dropped" =>
        faults > 0 \/ (worker[h].kind = "MajorPay" /\ ~worker[h].saved)

(* Only a fault or a crash leaves a row NEW after its request has ended,   *)
(* where neither a provider nor the expiry job will ever touch it, unless  *)
(* a post writes that status.                                              *)
NewIsBeingRouted ==
    faults = 0 /\ crashes = 0 /\ "NEW" \notin PostStatus =>
        \A r \in Request : row[r].status = "NEW" => pc[r] \in {"route", "cancel", "assign"}

(* The server keeps the promise of Lifecycle.  In particular the UPDATE    *)
(* that assigns the provider, which asks nothing of the row, finds it NEW  *)
(* unless a post came first, and nobody else touches a transaction before  *)
(* it is assigned unless a post came first.                                *)
Life == INSTANCE Lifecycle WITH
    Transaction <- Request, Final <- FinalStatus, Asked <- PostStatus,
    status <- [r \in Request |-> row[r].status],
    routing <- {r \in Request : pc[r] \in {"route", "cancel", "assign"}},
    posted <- {r \in Request : Posted(r)},
    assigned <- {r \in Request : row[r].assigned},
    linked <- {r \in Request : row[r].linked},
    paid <- {r \in Request : row[r].paidAt},
    updates <- written, told <- sent
FollowsLifecycle == Life!Spec

OneRowPerKey ==
    \A q, r \in Request :
        KeyOf[q] = KeyOf[r] /\ KeyOf[r] # NoKey /\ Exists(q) /\ Exists(r) => q = r

(* A client that repeats its key only after the previous answer gets the   *)
(* same transaction, as long as no statement fails and nothing crashes.    *)
SerialRepeatIsSafe ==
    SerialClients /\ faults = 0 /\ crashes = 0 => OneRowPerKey

(* No deposit waits for ever: whatever is lost on the way (a failed call,  *)
(* a dropped webhook, a crash), the expiry job ends the wait.  A post may  *)
(* end it with a status that is not final.                                 *)
WaitingEnds ==
    \A r \in Request : row[r].status = "WAITING_PAYMENT" ~>
        \/ row[r].status \in FinalStatus
        \/ \E p \in Post : worker[p].tx = r /\ worker[p].status \notin FinalStatus

(* Every committed status update is told in the end to a merchant that can  *)
(* be called, unless a fault or a crash comes between.                      *)
UpdateIsReported ==
    \A r \in Callable, s \in FinalStatus :
        written[r][s] > 0 ~> (sent[r][s] > 0 \/ faults > 0 \/ crashes > 0)

-----------------------------------------------------------------------------
(* Claims of the documentation and of comments that the code does not keep. *)

(* scheduler.go says the job expires transactions that are waiting for      *)
(* their payment.                                                           *)
OnlyWaitingExpires ==
    [][\A r \in Request : row[r].status # "EXPIRED" /\ row'[r].status = "EXPIRED" =>
          row[r].status = "WAITING_PAYMENT"]_vars

(* The integration guide says a repeated key returns the same transaction.  *)
RepeatReturnsSameTransaction == OneRowPerKey

(* The webhook guide says the merchant, once it has an address and a key, is *)
(* called back on every final status, CANCELLED among them.                  *)
CancelledIsReported ==
    \A r \in Callable : row[r].status = "CANCELLED" ~> sent[r]["CANCELLED"] > 0
=============================================================================
