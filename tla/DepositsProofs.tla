--------------------------- MODULE DepositsProofs ---------------------------
(***************************************************************************)
(* Safety of the deposits for every set of requests, deliveries and posts. *)
(* The argument: webhooks and the expiry job learn of a transaction from   *)
(* its assignment or from what a post wrote, so until there is either only *)
(* its request writes to its row, and the unconditional UPDATE that        *)
(* assigns the provider finds it NEW.  Two more invariants, on the rows of  *)
(* one key and on the callbacks of one update, build on it.  Last, every   *)
(* step of the server is one that Lifecycle allows.                        *)
(***************************************************************************)
EXTENDS Deposits, TLAPS, FiniteSetTheorems

(* Somebody besides the request may be writing to the row.                 *)
Known(r) == row[r].assigned \/ Posted(r)

Active(w) == worker[w].pc \in {"lookup", "write", "notify"}

(* How a row stands with its request.                                      *)
OwnRow ==
    \A r \in Request :
        /\ pc[r] \in {"idle", "check", "insert"} => row[r] = NoRow
        /\ pc[r] \in {"route", "cancel", "assign"} =>
              /\ Exists(r) /\ ~row[r].assigned
              /\ Posted(r) \/ row[r].status = "NEW"
        /\ pc[r] \in {"assign", "fetch", "call", "save"} => routed[r] # None
        /\ pc[r] \in {"fetch", "call", "save"} => row[r].assigned
        /\ row[r].assigned => Exists(r)
        /\ row[r].status = "WAITING_PAYMENT" => Known(r)

(* The statuses a worker may be about to write.                            *)
Asked(w) == IF w \in Post THEN PostStatus ELSE FinalStatus

(* Whoever else works on a transaction learned of it from its assignment or *)
(* from a post; a post names its transaction once and for all.             *)
KnownAfterwards ==
    /\ \A r \in orders : row[r].assigned /\ routed[r] # None
    /\ \A r \in batch : Known(r) /\ Exists(r)
    /\ \A w \in Worker : Active(w) =>
          /\ worker[w].tx # None /\ Known(worker[w].tx) /\ Exists(worker[w].tx)
          /\ worker[w].status \in Asked(w)
    /\ \A p \in Post : worker[p].pc = "idle" => worker[p].tx = None

LookupState ==
    \A w \in Worker : worker[w].pc = "lookup" =>
        /\ w \in Hook
        /\ worker[w].tries < 3
        /\ worker[w].kind \in {"MajorPay", "911pay"}
        /\ worker[w].saved => row[worker[w].tx].linked

IInv == TypeOK /\ OwnRow /\ KnownAfterwards /\ LookupState /\ DroppedOnlyUnlinked
            /\ NewIsBeingRouted

USE DepositsAssumption, SchedulerIsNoDelivery

-----------------------------------------------------------------------------
(* Lemmas on the operators.                                                *)

(* A SQL statement of a request, whether it reports success or an error,   *)
(* touches its own row and program counter only, and keeps their types.    *)
LEMMA StatementEffect ==
    ASSUME TypeOK, NEW r \in Request, NEW n \in Row, NEW ok \in RequestPC, NEW err \in RequestPC,
           Statement(r, n, ok, err)
    PROVE  /\ row' \in [Request -> Row]
           /\ pc' \in [Request -> RequestPC]
           /\ faults' \in 0 .. MaxFaults
           /\ faults' = 0 => faults = 0 /\ row'[r] = n /\ pc'[r] = ok
           /\ \A q \in Request \ {r} : row'[q] = row[q] /\ pc'[q] = pc[q]
           /\ row'[r] \in {row[r], n}
           /\ pc'[r] \in {ok, err}
           /\ ok # err /\ pc'[r] = ok => row'[r] = n
<1>1. CASE row' = [row EXCEPT ![r] = n] /\ pc' = [pc EXCEPT ![r] = ok] /\ UNCHANGED faults
    BY <1>1 DEF TypeOK
<1>2. CASE /\ Fault /\ row' \in {row, [row EXCEPT ![r] = n]} /\ pc' = [pc EXCEPT ![r] = err]
    BY <1>2 DEF TypeOK, Fault
<1> QED
    BY <1>1, <1>2 DEF Statement, Goto, To

(* The statement of UpdateStatus sets a status and a payment mark, nothing else. *)
LEMMA WrittenEffect ==
    ASSUME TypeOK, NEW t \in Request, NEW s \in TxStatus
    PROVE  /\ Written(t, s) \in [Request -> Row]
           /\ \A q \in Request \ {t} : Written(t, s)[q] = row[q]
           /\ Written(t, s)[t].status = s
           /\ Written(t, s)[t].linked = row[t].linked
           /\ Written(t, s)[t].assigned = row[t].assigned
<1>1. row \in [Request -> Row] /\ row[t] \in Row
    BY DEF TypeOK
<1>2. ASSUME NEW x \in Row
      PROVE  /\ Settled(x, s) \in Row
             /\ Settled(x, s).status = s
             /\ Settled(x, s).linked = x.linked
             /\ Settled(x, s).assigned = x.assigned
    BY DEF Row, Settled
<1> QED
    BY <1>1, <1>2 DEF Written

(* Both providers' events map to final statuses.                           *)
LEMMA EventStatusIsFinal ==
    /\ \A e \in MajorPayEvent : MajorPayStatus(e) \in FinalStatus
    /\ \A e \in Pay911Event : Pay911Status(e) \in FinalStatus
BY DEF MajorPayEvent, MajorPayStatus, Pay911Event, Pay911Status, FinalStatus

(* Counting up or down a callback stays within the naturals.               *)
LEMMA CountEffect ==
    ASSUME NEW c \in Counts, NEW r \in Request, NEW s
    PROVE  /\ More(c, r, s) \in Counts
           /\ s \in FinalStatus /\ c[r][s] > 0 => Fewer(c, r, s) \in Counts
BY DEF Counts, More, Fewer

(* What was posted for stays so while the posts keep their transactions.   *)
LEMMA PostedStays ==
    ASSUME \A p \in Post : worker'[p].tx = worker[p].tx
    PROVE  \A r \in Request : Posted(r)' = Posted(r)
BY DEF Posted

(* The empty table and idle workers satisfy the invariant.                 *)
LEMMA InitIInv == Init => IInv
<1> SUFFICES ASSUME Init PROVE IInv
    OBVIOUS
<1>1. NoRow \in Row /\ Zero \in Counts
    BY DEF NoRow, Row, Zero, Counts, TxStatus
<1>2. \A kind \in {"timer", "post"} : Idle(kind) \in WorkerState
    BY DEF Idle, Call, WorkerState
<1>3. TypeOK
    BY <1>1, <1>2 DEF Init, TypeOK, RequestPC, Worker
<1>4. OwnRow
    BY DEF Init, OwnRow, NoRow
<1>5. \A w \in Worker : /\ worker[w].pc = "idle" /\ worker[w].outcome = "none"
                          /\ worker[w].tx = None
    BY DEF Init, Idle, Call
<1>6. KnownAfterwards /\ LookupState /\ DroppedOnlyUnlinked
    BY <1>5 DEF Init, KnownAfterwards, LookupState, DroppedOnlyUnlinked, Active, Worker
<1>7. NewIsBeingRouted
    BY DEF Init, NewIsBeingRouted, NoRow
<1> QED
    BY <1>3, <1>4, <1>6, <1>7 DEF IInv

-----------------------------------------------------------------------------
(* The steps of a deposit request.                                         *)

(* A step of request r alone keeps the invariant when it keeps what others *)
(* know of its row: the row stays, an assignment and a link stay.          *)
LEMMA OwnStep ==
    ASSUME IInv, NEW r \in Request,
           UNCHANGED <<aged, routed, orders, worker, batch, notifyVars, crashes>>,
           row' \in [Request -> Row], pc' \in [Request -> RequestPC],
           faults' \in 0 .. MaxFaults, faults' = 0 => faults = 0,
           \A q \in Request \ {r} : row'[q] = row[q] /\ pc'[q] = pc[q],
           row[r].linked => row'[r].linked,
           row[r].assigned => row'[r].assigned,
           row'[r].assigned => row'[r].status # "absent",
           Exists(r) => row'[r].status # "absent",
           pc'[r] \in {"idle", "check", "insert"} => row'[r] = NoRow,
           pc'[r] \in {"route", "cancel", "assign"} =>
              /\ row'[r].status # "absent" /\ ~row'[r].assigned
              /\ Posted(r) \/ row'[r].status = "NEW",
           row'[r].status = "WAITING_PAYMENT" => row'[r].assigned \/ Posted(r),
           pc'[r] \in {"assign", "fetch", "call", "save"} => routed[r] # None,
           pc'[r] \in {"fetch", "call", "save"} => row'[r].assigned,
           "NEW" \notin PostStatus /\ faults' = 0 /\ crashes = 0 /\ row'[r].status = "NEW" =>
               pc'[r] \in {"route", "cancel", "assign"}
    PROVE  IInv'
<1> USE DEF IInv
<1>1. TypeOK'
    BY DEF TypeOK, notifyVars
<1>2. \A q \in Request : Posted(q)' = Posted(q)
    BY DEF Posted
<1>3. \A q \in Request :
          /\ Known(q) => Known(q)'
          /\ Exists(q) => Exists(q)'
          /\ row[q].assigned => row'[q].assigned
          /\ row[q].linked => row'[q].linked
    BY <1>2 DEF Known, Exists
<1>4. OwnRow'
    BY <1>2 DEF OwnRow, Known, Exists
<1>5. KnownAfterwards'
    <2>1. \A w \in Worker : worker[w].tx \in Request \cup {None}
        BY DEF TypeOK, WorkerState
    <2> QED
        BY <1>3, <2>1 DEF TypeOK, KnownAfterwards, Active
<1>6. LookupState'
    <2>1. \A w \in Worker : worker[w].pc = "lookup" => worker[w].tx \in Request
        BY DEF TypeOK, WorkerState, KnownAfterwards, Active
    <2> QED
        BY <1>3, <2>1 DEF LookupState
<1>7. DroppedOnlyUnlinked'
    BY DEF DroppedOnlyUnlinked, TypeOK
<1>8. NewIsBeingRouted'
    BY DEF NewIsBeingRouted
<1> QED
    BY <1>1, <1>5, <1>6, <1>7, <1>8, <1>4

(* Neither the missing row nor a new one is assigned or linked.             *)
LEMMA FreshRows ==
    /\ NoRow \in Row /\ NoRow.status = "absent" /\ ~NoRow.assigned /\ ~NoRow.linked
    /\ NewRow \in Row /\ NewRow.status = "NEW" /\ ~NewRow.assigned /\ ~NewRow.linked
BY DEF Row, NoRow, NewRow, TxStatus, FinalStatus

(* The columns the statements of a request set.                             *)
LEMMA RowEdits ==
    ASSUME NEW x \in Row, NEW k \in Key \cup {NoKey}
    PROVE  /\ LET y == [x EXCEPT !.status = "CANCELLED"]
              IN  y \in Row /\ y.status = "CANCELLED" /\ y.linked = x.linked
                            /\ y.assigned = x.assigned
           /\ LET y == [x EXCEPT !.status = "WAITING_PAYMENT", !.assigned = TRUE]
              IN  y \in Row /\ y.status = "WAITING_PAYMENT" /\ y.assigned
                            /\ y.linked = x.linked
           /\ LET y == [x EXCEPT !.linked = TRUE]
              IN  y \in Row /\ y.linked /\ y.status = x.status /\ y.assigned = x.assigned
           /\ LET y == [x EXCEPT !.key = k]
              IN  y \in Row /\ y.linked = x.linked /\ y.status = x.status
                            /\ y.assigned = x.assigned
BY DEF Row, TxStatus, FinalStatus

(* A request that begins still has its whole private part before it.       *)
LEMMA BeginIInv ==
    ASSUME IInv, NEW r \in Request, Begin(r)
    PROVE  IInv'
<1>1. pc[r] = "idle" /\ pc' = To(r, pc'[r]) /\ pc'[r] \in {"check", "insert"}
    BY DEF Begin, Goto, To, IInv, TypeOK
<1> QED
    BY <1>1, OwnStep DEF IInv, TypeOK, To, RequestPC, OwnRow, Known, Begin,
       NewIsBeingRouted, Exists

(* A repeated key ends the request without a row; a miss keeps it private. *)
LEMMA CheckKeyIInv ==
    ASSUME IInv, NEW r \in Request, CheckKey(r)
    PROVE  IInv'
<1>1. pc[r] = "check" /\ pc' = To(r, pc'[r]) /\ pc'[r] \in {"done", "insert"}
    BY DEF CheckKey, Goto, To, IInv, TypeOK
<1>2. faults' \in 0 .. MaxFaults /\ (faults' = 0 => faults = 0)
    BY DEF CheckKey, Fault, IInv, TypeOK
<1>3. row[r] = NoRow
    BY <1>1 DEF IInv, OwnRow
<1>4. /\ UNCHANGED <<aged, routed, orders, worker, batch, notifyVars, crashes>> /\ row' = row
      /\ row \in [Request -> Row]
      /\ pc' \in [Request -> RequestPC]
      /\ \A q \in Request \ {r} : pc'[q] = pc[q]
      /\ pc'[r] \in {"done", "insert"}
    BY <1>1 DEF CheckKey, IInv, TypeOK, To, RequestPC
<1> QED
    BY <1>1, <1>2, <1>3, <1>4, OwnStep, FreshRows DEF Exists

(* The INSERT, even one whose error hides that it happened, makes a NEW    *)
(* row that is not assigned.                                               *)
LEMMA InsertIInv ==
    ASSUME IInv, NEW r \in Request, Insert(r)
    PROVE  IInv'
<1> DEFINE n == NewRow
<1>1. TypeOK /\ row[r] \in Row /\ KeyOf[r] \in Key \cup {NoKey}
    BY DEF IInv, TypeOK
<1>2. n \in Row
    BY <1>1, RowEdits, FreshRows
<1>3. pc[r] = "insert" /\ Statement(r, n, "route", "failed")
      /\ UNCHANGED <<aged, routed, orders, worker, batch, notifyVars, crashes>>
    BY DEF Insert
<1> HIDE DEF n
<1>4. /\ row' \in [Request -> Row] /\ pc' \in [Request -> RequestPC]
      /\ faults' \in 0 .. MaxFaults
      /\ faults' = 0 => faults = 0 /\ row'[r] = n /\ pc'[r] = "route"
      /\ \A q \in Request \ {r} : row'[q] = row[q] /\ pc'[q] = pc[q]
      /\ row'[r] \in {row[r], n}
      /\ pc'[r] \in {"route", "failed"}
      /\ pc'[r] = "route" => row'[r] = n
    <2>1. {"route", "failed", "storeKey", "fetch", "done"} \subseteq RequestPC
        BY DEF RequestPC
    <2> QED
        BY <1>1, <1>2, <1>3, <2>1, StatementEffect
<1>5. row[r] = NoRow
    BY <1>3 DEF IInv, OwnRow
<1>6. n = NewRow /\ n.status = "NEW" /\ ~n.assigned /\ ~NoRow.assigned /\ ~NoRow.linked
      /\ NoRow.status = "absent"
    BY FreshRows DEF n
<1>7. /\ row[r].linked => row'[r].linked
      /\ row[r].assigned => row'[r].assigned
      /\ row'[r].assigned => row'[r].status # "absent"
      /\ Exists(r) => row'[r].status # "absent"
    BY <1>4, <1>5, <1>6 DEF IInv, OwnRow, Exists
<1>8. "NEW" \notin PostStatus /\ faults' = 0 /\ crashes = 0 /\ row'[r].status = "NEW" =>
         pc'[r] \in {"route", "cancel", "assign"}
    BY <1>3, <1>4, <1>5, <1>6 DEF IInv, NewIsBeingRouted
<1> QED
    BY <1>1, <1>3, <1>4, <1>5, <1>6, <1>7, <1>8, OwnStep

(* The cancellation may find its error ignored: then the row stays NEW     *)
(* after a fault.                                                          *)
LEMMA CancelIInv ==
    ASSUME IInv, NEW r \in Request, Cancel(r)
    PROVE  IInv'
<1> DEFINE n == [row[r] EXCEPT !.status = "CANCELLED"]
<1>1. TypeOK /\ row[r] \in Row /\ KeyOf[r] \in Key \cup {NoKey}
    BY DEF IInv, TypeOK
<1>2. n \in Row
    BY <1>1, RowEdits, FreshRows
<1>3. pc[r] = "cancel" /\ Statement(r, n, "storeKey", "storeKey")
      /\ UNCHANGED <<aged, routed, orders, worker, batch, notifyVars, crashes>>
    BY DEF Cancel
<1> HIDE DEF n
<1>4. /\ row' \in [Request -> Row] /\ pc' \in [Request -> RequestPC]
      /\ faults' \in 0 .. MaxFaults
      /\ faults' = 0 => faults = 0 /\ row'[r] = n /\ pc'[r] = "storeKey"
      /\ \A q \in Request \ {r} : row'[q] = row[q] /\ pc'[q] = pc[q]
      /\ row'[r] \in {row[r], n}
      /\ pc'[r] = "storeKey"
    <2>1. {"route", "failed", "storeKey", "fetch", "done"} \subseteq RequestPC
        BY DEF RequestPC
    <2> QED
        BY <1>1, <1>2, <1>3, <2>1, StatementEffect
<1>5. ~row[r].assigned /\ Exists(r) /\ (row[r].status = "WAITING_PAYMENT" => Posted(r))
    BY <1>3 DEF IInv, OwnRow, Known
<1>6. n.status = "CANCELLED" /\ n.linked = row[r].linked /\ n.assigned = row[r].assigned
    BY <1>1, RowEdits DEF n
<1>7. /\ row[r].linked => row'[r].linked
      /\ row[r].assigned => row'[r].assigned
      /\ row'[r].assigned => row'[r].status # "absent"
      /\ Exists(r) => row'[r].status # "absent"
    BY <1>4, <1>5, <1>6 DEF IInv, OwnRow, Exists
<1>8. "NEW" \notin PostStatus /\ faults' = 0 /\ crashes = 0 /\ row'[r].status = "NEW" =>
         pc'[r] \in {"route", "cancel", "assign"}
    BY <1>3, <1>4, <1>5, <1>6 DEF IInv, NewIsBeingRouted
<1> QED
    BY <1>1, <1>3, <1>4, <1>5, <1>6, <1>7, <1>8, OwnStep

(* The assignment, once committed, is the request's last word on the status. *)
LEMMA AssignIInv ==
    ASSUME IInv, NEW r \in Request, Assign(r)
    PROVE  IInv'
<1> DEFINE n == [row[r] EXCEPT !.status = "WAITING_PAYMENT", !.assigned = TRUE]
<1>1. TypeOK /\ row[r] \in Row /\ KeyOf[r] \in Key \cup {NoKey}
    BY DEF IInv, TypeOK
<1>2. n \in Row
    BY <1>1, RowEdits, FreshRows
<1>3. pc[r] = "assign" /\ Statement(r, n, "fetch", "failed")
      /\ UNCHANGED <<aged, routed, orders, worker, batch, notifyVars, crashes>>
    BY DEF Assign
<1> HIDE DEF n
<1>4. /\ row' \in [Request -> Row] /\ pc' \in [Request -> RequestPC]
      /\ faults' \in 0 .. MaxFaults
      /\ faults' = 0 => faults = 0 /\ row'[r] = n /\ pc'[r] = "fetch"
      /\ \A q \in Request \ {r} : row'[q] = row[q] /\ pc'[q] = pc[q]
      /\ row'[r] \in {row[r], n}
      /\ pc'[r] \in {"fetch", "failed"}
      /\ pc'[r] = "fetch" => row'[r] = n
    <2>1. {"route", "failed", "storeKey", "fetch", "done"} \subseteq RequestPC
        BY DEF RequestPC
    <2> QED
        BY <1>1, <1>2, <1>3, <2>1, StatementEffect
<1>5. /\ ~row[r].assigned /\ Exists(r) /\ routed[r] # None
      /\ row[r].status = "WAITING_PAYMENT" => Posted(r)
    BY <1>3 DEF IInv, OwnRow, Known
<1>6. n.status = "WAITING_PAYMENT" /\ n.assigned /\ n.linked = row[r].linked
    BY <1>1, RowEdits DEF n
<1>7. /\ row[r].linked => row'[r].linked
      /\ row[r].assigned => row'[r].assigned
      /\ row'[r].assigned => row'[r].status # "absent"
      /\ Exists(r) => row'[r].status # "absent"
    BY <1>4, <1>5, <1>6 DEF IInv, OwnRow, Exists
<1>8. "NEW" \notin PostStatus /\ faults' = 0 /\ crashes = 0 /\ row'[r].status = "NEW" =>
         pc'[r] \in {"route", "cancel", "assign"}
    BY <1>3, <1>4, <1>5, <1>6 DEF IInv, NewIsBeingRouted
<1> QED
    BY <1>1, <1>3, <1>4, <1>5, <1>6, <1>7, <1>8, OwnStep

(* Saving the order's id changes no status and no assignment.              *)
LEMMA SaveOrderIInv ==
    ASSUME IInv, NEW r \in Request, SaveOrder(r)
    PROVE  IInv'
<1> DEFINE n == [row[r] EXCEPT !.linked = TRUE]
<1>1. TypeOK /\ row[r] \in Row /\ KeyOf[r] \in Key \cup {NoKey}
    BY DEF IInv, TypeOK
<1>2. n \in Row
    BY <1>1, RowEdits, FreshRows
<1>3. pc[r] = "save" /\ Statement(r, n, "storeKey", "storeKey")
      /\ UNCHANGED <<aged, routed, orders, worker, batch, notifyVars, crashes>>
    BY DEF SaveOrder
<1> HIDE DEF n
<1>4. /\ row' \in [Request -> Row] /\ pc' \in [Request -> RequestPC]
      /\ faults' \in 0 .. MaxFaults
      /\ faults' = 0 => faults = 0 /\ row'[r] = n /\ pc'[r] = "storeKey"
      /\ \A q \in Request \ {r} : row'[q] = row[q] /\ pc'[q] = pc[q]
      /\ row'[r] \in {row[r], n}
      /\ pc'[r] = "storeKey"
    <2>1. {"route", "failed", "storeKey", "fetch", "done"} \subseteq RequestPC
        BY DEF RequestPC
    <2> QED
        BY <1>1, <1>2, <1>3, <2>1, StatementEffect
<1>5. n.linked /\ n.status = row[r].status /\ n.assigned = row[r].assigned
    BY <1>1, RowEdits DEF n
<1>6. /\ row[r].assigned /\ routed[r] # None /\ Exists(r)
      /\ "NEW" \notin PostStatus /\ faults = 0 /\ crashes = 0 => row[r].status # "NEW"
    BY <1>3 DEF IInv, OwnRow, NewIsBeingRouted
<1>7. /\ row[r].linked => row'[r].linked
      /\ row[r].assigned => row'[r].assigned
      /\ row'[r].assigned => row'[r].status # "absent"
      /\ Exists(r) => row'[r].status # "absent"
    BY <1>4, <1>5, <1>6 DEF IInv, OwnRow, Exists
<1>8. "NEW" \notin PostStatus /\ faults' = 0 /\ crashes = 0 /\ row'[r].status = "NEW" =>
         pc'[r] \in {"route", "cancel", "assign"}
    BY <1>3, <1>4, <1>5, <1>6 DEF IInv, NewIsBeingRouted
<1> QED
    BY <1>1, <1>3, <1>4, <1>5, <1>6, <1>7, <1>8, OwnStep

(* Storing the key changes no status and no assignment.                    *)
LEMMA StoreKeyIInv ==
    ASSUME IInv, NEW r \in Request, StoreKey(r)
    PROVE  IInv'
<1> DEFINE n == [row[r] EXCEPT !.key = KeyOf[r]]
<1>1. TypeOK /\ row[r] \in Row /\ KeyOf[r] \in Key \cup {NoKey}
    BY DEF IInv, TypeOK
<1>2. n \in Row
    BY <1>1, RowEdits, FreshRows
<1>3. pc[r] = "storeKey" /\ Statement(r, n, "done", "done")
      /\ UNCHANGED <<aged, routed, orders, worker, batch, notifyVars, crashes>>
    BY DEF StoreKey
<1> HIDE DEF n
<1>4. /\ row' \in [Request -> Row] /\ pc' \in [Request -> RequestPC]
      /\ faults' \in 0 .. MaxFaults
      /\ faults' = 0 => faults = 0 /\ row'[r] = n /\ pc'[r] = "done"
      /\ \A q \in Request \ {r} : row'[q] = row[q] /\ pc'[q] = pc[q]
      /\ row'[r] \in {row[r], n}
      /\ pc'[r] = "done"
    <2>1. {"route", "failed", "storeKey", "fetch", "done"} \subseteq RequestPC
        BY DEF RequestPC
    <2> QED
        BY <1>1, <1>2, <1>3, <2>1, StatementEffect
<1>5. n.linked = row[r].linked /\ n.status = row[r].status /\ n.assigned = row[r].assigned
    BY <1>1 DEF n, Row
<1>6. row[r].status = "WAITING_PAYMENT" => row[r].assigned \/ Posted(r)
    BY DEF IInv, OwnRow, Known
<1>7. /\ row[r].linked => row'[r].linked
      /\ row[r].assigned => row'[r].assigned
      /\ row'[r].assigned => row'[r].status # "absent"
      /\ Exists(r) => row'[r].status # "absent"
    BY <1>4, <1>5, <1>6 DEF IInv, OwnRow, Exists
<1>8. "NEW" \notin PostStatus /\ faults' = 0 /\ crashes = 0 /\ row'[r].status = "NEW" =>
         pc'[r] \in {"route", "cancel", "assign"}
    BY <1>3, <1>4, <1>5, <1>6 DEF IInv, NewIsBeingRouted
<1> QED
    BY <1>1, <1>3, <1>4, <1>5, <1>6, <1>7, <1>8, OwnStep

(* Routing leaves the row alone, with its request about to assign or to    *)
(* cancel it.                                                              *)
LEMMA RouteIInv ==
    ASSUME IInv, NEW r \in Request, Route(r)
    PROVE  IInv'
<1> USE DEF IInv, Route, Goto, To, requestVars, notifyVars
<1>1. TypeOK'
    BY DEF TypeOK, RequestPC
<1>2. OwnRow'
    BY DEF TypeOK, OwnRow, Known, Posted, Exists
<1>3. KnownAfterwards'
    <2>1. \A w \in Worker : worker[w].tx \in Request \cup {None}
        BY DEF TypeOK, WorkerState
    <2>2. \A q \in Request : Known(q)' = Known(q)
        BY DEF Known, Posted
    <2>3. \A q \in orders' : row[q].assigned /\ routed'[q] # None
        BY DEF TypeOK, OwnRow, KnownAfterwards
    <2>4. \A w \in Worker : Active(w) =>
             worker[w].tx \in Request /\ Known(worker[w].tx)' /\ Exists(worker[w].tx)'
        BY <2>1, <2>2 DEF KnownAfterwards, Known, Exists
    <2>5. \A q \in batch : Known(q)' /\ Exists(q)'
        BY <2>2 DEF KnownAfterwards, TypeOK, Exists
    <2> QED
        BY <2>3, <2>4, <2>5 DEF KnownAfterwards, Active
<1>4. LookupState'
    BY DEF TypeOK, LookupState, KnownAfterwards, Active, Worker
<1>5. DroppedOnlyUnlinked'
    BY DEF TypeOK, DroppedOnlyUnlinked, Worker
<1>6. NewIsBeingRouted'
    BY DEF TypeOK, NewIsBeingRouted, OwnRow
<1> QED
    BY <1>1, <1>2, <1>3, <1>4, <1>5, <1>6

(* Reading the provider comes after the assignment and changes no row.     *)
LEMMA FetchProviderIInv ==
    ASSUME IInv, NEW r \in Request, FetchProvider(r)
    PROVE  IInv'
<1> USE DEF IInv, FetchProvider, Goto, To, Fault, requestVars, notifyVars
<1>1. TypeOK'
    BY DEF TypeOK, RequestPC
<1>2. OwnRow'
    BY DEF TypeOK, OwnRow, Known, Posted, Exists
<1>3. KnownAfterwards'
    <2>1. \A w \in Worker : worker[w].tx \in Request \cup {None}
        BY DEF TypeOK, WorkerState
    <2>2. \A q \in Request : Known(q)' = Known(q)
        BY DEF Known, Posted
    <2>3. \A q \in orders' : row[q].assigned /\ routed'[q] # None
        BY DEF TypeOK, OwnRow, KnownAfterwards
    <2>4. \A w \in Worker : Active(w) =>
             worker[w].tx \in Request /\ Known(worker[w].tx)' /\ Exists(worker[w].tx)'
        BY <2>1, <2>2 DEF KnownAfterwards, Known, Exists
    <2>5. \A q \in batch : Known(q)' /\ Exists(q)'
        BY <2>2 DEF KnownAfterwards, TypeOK, Exists
    <2> QED
        BY <2>3, <2>4, <2>5 DEF KnownAfterwards, Active
<1>4. LookupState'
    BY DEF TypeOK, LookupState, KnownAfterwards, Active, Worker
<1>5. DroppedOnlyUnlinked'
    BY DEF TypeOK, DroppedOnlyUnlinked, Worker
<1>6. NewIsBeingRouted'
    BY DEF TypeOK, NewIsBeingRouted, OwnRow
<1> QED
    BY <1>1, <1>2, <1>3, <1>4, <1>5, <1>6

(* The call creates the order of a transaction that is assigned already.   *)
LEMMA CallProviderIInv ==
    ASSUME IInv, NEW r \in Request, CallProvider(r)
    PROVE  IInv'
<1> USE DEF IInv, CallProvider, Goto, To, Fault, requestVars, notifyVars
<1>1. TypeOK'
    BY DEF TypeOK, RequestPC
<1>2. OwnRow'
    BY DEF TypeOK, OwnRow, Known, Posted, Exists
<1>3. KnownAfterwards'
    <2>1. \A w \in Worker : worker[w].tx \in Request \cup {None}
        BY DEF TypeOK, WorkerState
    <2>2. \A q \in Request : Known(q)' = Known(q)
        BY DEF Known, Posted
    <2>3. \A q \in orders' : row[q].assigned /\ routed'[q] # None
        BY DEF TypeOK, OwnRow, KnownAfterwards
    <2>4. \A w \in Worker : Active(w) =>
             worker[w].tx \in Request /\ Known(worker[w].tx)' /\ Exists(worker[w].tx)'
        BY <2>1, <2>2 DEF KnownAfterwards, Known, Exists
    <2>5. \A q \in batch : Known(q)' /\ Exists(q)'
        BY <2>2 DEF KnownAfterwards, TypeOK, Exists
    <2> QED
        BY <2>3, <2>4, <2>5 DEF KnownAfterwards, Active
<1>4. LookupState'
    BY DEF TypeOK, LookupState, KnownAfterwards, Active, Worker
<1>5. DroppedOnlyUnlinked'
    BY DEF TypeOK, DroppedOnlyUnlinked, Worker
<1>6. NewIsBeingRouted'
    BY DEF TypeOK, NewIsBeingRouted, OwnRow
<1> QED
    BY <1>1, <1>2, <1>3, <1>4, <1>5, <1>6

-----------------------------------------------------------------------------
(* The steps of the webhooks, the posts and the expiry job.                *)

(* What the invariant says of one worker record x of worker w.             *)
Sound(w, x) ==
    /\ x.pc \in {"lookup", "write", "notify"} =>
          /\ x.tx \in Request /\ x.status \in Asked(w)
          /\ (w \in Post \/ Known(x.tx)) /\ Exists(x.tx)
    /\ w \in Post /\ x.pc = "idle" => x.tx = None
    /\ x.pc = "lookup" =>
          /\ w \in Hook
          /\ x.tries < 3
          /\ x.kind \in {"MajorPay", "911pay"}
          /\ x.saved => row[x.tx].linked
    /\ w \in Hook /\ x.outcome = "dropped" =>
          faults > 0 \/ (x.kind = "MajorPay" /\ ~x.saved)

(* The invariant holds of the workers when it holds of each one's record.  *)
LEMMA AllSound ==
    ASSUME IInv, NEW w \in Worker
    PROVE  worker[w] \in WorkerState /\ Sound(w, worker[w])
BY DEF IInv, TypeOK, WorkerState, KnownAfterwards, LookupState, DroppedOnlyUnlinked, Sound,
       Active, Worker

(* A step that leaves the requests alone keeps the invariant when it only   *)
(* settles rows that are assigned or posted for, keeps what was posted and *)
(* leaves sound workers.                                                   *)
LEMMA WorkerStep ==
    ASSUME IInv, UNCHANGED <<requestVars, orders>>,
           row' \in [Request -> Row],
           \A q \in Request :
              \/ row'[q] = row[q]
              \/ /\ Known(q) /\ Exists(q)
                 /\ row'[q].linked = row[q].linked
                 /\ row'[q].assigned = row[q].assigned
                 /\ row'[q].status \in FinalStatus \cup PostStatus,
           \A p \in Post : worker[p].tx # None => worker'[p].tx = worker[p].tx,
           aged' \subseteq Request, batch' \subseteq Request, affinity' \subseteq Request,
           \A q \in batch' : Known(q) /\ Exists(q),
           pending' \in Counts, sent' \in Counts, written' \in Counts,
           faults' \in 0 .. MaxFaults, crashes' \in 0 .. MaxCrashes,
           faults' = 0 => faults = 0, crashes' = 0 => crashes = 0,
           worker' \in [Worker -> WorkerState],
           \A w \in Worker : \/ Sound(w, worker'[w])
                             \/ faults' > 0 /\ worker'[w].pc = "done"
    PROVE  IInv'
<1> USE DEF IInv, requestVars
<1>1. TypeOK'
    BY DEF TypeOK
<1>2. \A q \in Request : Posted(q) => Posted(q)'
    BY DEF Posted
<1>3. \A q \in Request :
          /\ Known(q) => Known(q)'
          /\ Exists(q) => Exists(q)'
          /\ row'[q].assigned = row[q].assigned
          /\ row'[q].linked = row[q].linked
          /\ \/ row'[q] = row[q]
             \/ /\ Known(q) /\ Exists(q) /\ Exists(q)'
                /\ row'[q].status = "NEW" => "NEW" \in PostStatus
    BY <1>2 DEF Known, Exists, FinalStatus, TxStatus
<1>4. OwnRow'
    <2>1. \A q \in Request : pc[q] \in {"idle", "check", "insert"} => row'[q] = NoRow
        BY <1>3, FreshRows DEF OwnRow, Exists
    <2>2. \A q \in Request : pc[q] \in {"route", "cancel", "assign"} =>
              /\ Exists(q)' /\ ~row'[q].assigned
              /\ Posted(q)' \/ row'[q].status = "NEW"
        BY <1>2, <1>3 DEF OwnRow, Known
    <2>3. \A q \in Request : /\ row'[q].assigned => Exists(q)'
                             /\ row'[q].status = "WAITING_PAYMENT" => Known(q)'
        BY <1>3 DEF OwnRow
    <2> QED
        BY <1>3, <2>1, <2>2, <2>3 DEF OwnRow
<1>5. KnownAfterwards'
    <2>1. \A w \in Worker : Active(w)' =>
            /\ worker'[w].tx # None /\ worker'[w].status \in Asked(w)
            /\ worker'[w].tx \in Request
            /\ (w \in Post \/ Known(worker'[w].tx)) /\ Exists(worker'[w].tx)
        BY DEF Active, Sound
    <2>2. \A w \in Worker : Active(w)' =>
            Known(worker[w].tx)' /\ Exists(worker[w].tx)'
      <3> SUFFICES ASSUME NEW w \in Worker, Active(w)'
                   PROVE  Known(worker[w].tx)' /\ Exists(worker[w].tx)'
          OBVIOUS
      <3>1. Exists(worker[w].tx)'
          BY <1>3, <2>1 DEF Exists
      <3>2. w \in Post => Known(worker[w].tx)'
          BY DEF Known, Posted
      <3>3. w \notin Post => Known(worker[w].tx)'
          BY <1>2, <1>3, <2>1 DEF Known
      <3> QED
          BY <3>1, <3>2, <3>3
    <2>3. \A q \in batch' : Known(q)' /\ Exists(q)'
        BY <1>3
    <2>4. \A q \in orders : row'[q].assigned /\ routed[q] # None
        BY <1>3 DEF KnownAfterwards, TypeOK
    <2>5. \A p \in Post : worker'[p].pc = "idle" => worker'[p].tx = None
        BY DEF Sound, Worker
    <2> QED
        BY <2>1, <2>2, <2>3, <2>4, <2>5 DEF KnownAfterwards
<1>6. LookupState'
    BY <1>3 DEF LookupState, Sound
<1>7. DroppedOnlyUnlinked'
    <2>1. faults \in Nat /\ faults' \in Nat
        BY DEF TypeOK
    <2> QED
        BY <2>1 DEF DroppedOnlyUnlinked, Sound, Worker
<1>8. NewIsBeingRouted'
    BY <1>3 DEF NewIsBeingRouted
<1> QED
    BY <1>1, <1>4, <1>5, <1>6, <1>7, <1>8

(* Ending a call keeps all it knew of its webhook.                         *)
LEMMA EndedEffect ==
    ASSUME NEW w \in Worker, worker[w] \in WorkerState, NEW o \in {"applied", "error"}
    PROVE  /\ Ended(w, o) \in WorkerState
           /\ Ended(w, o).pc = "done" /\ Ended(w, o).outcome = o
           /\ Ended(w, o).tx = worker[w].tx /\ Ended(w, o).status = worker[w].status
           /\ Ended(w, o).kind = worker[w].kind /\ Ended(w, o).saved = worker[w].saved
BY DEF Ended, WorkerState

(* The clock touches nothing the invariant speaks of.                      *)
LEMMA AgeIInv ==
    ASSUME IInv, NEW r \in Request, Age(r)
    PROVE  IInv'
BY AllSound, WorkerStep DEF Age, IInv, TypeOK, KnownAfterwards, notifyVars

(* UpdateStatus settles a row that is assigned or posted for.              *)
LEMMA WriteStatusIInv ==
    ASSUME IInv, NEW w \in Worker, WriteStatus(w)
    PROVE  IInv'
<1> DEFINE t == worker[w].tx
           s == worker[w].status
<1>1. /\ worker[w] \in WorkerState /\ worker[w].pc = "write"
      /\ t \in Request /\ s \in Asked(w) /\ Known(t) /\ Exists(t)
      /\ s \in FinalStatus \cup PostStatus /\ s \in TxStatus
      /\ w \in Hook /\ worker[w].outcome = "dropped" =>
            faults > 0 \/ (worker[w].kind = "MajorPay" /\ ~worker[w].saved)
    <2>1. worker[w].pc = "write" /\ worker[w] \in WorkerState /\ Sound(w, worker[w])
        BY AllSound DEF WriteStatus
    <2>2. w \in Post => Posted(t)
        BY DEF Posted
    <2> QED
        BY <2>1, <2>2 DEF Sound, Asked, TxStatus, Known
<1>2. /\ worker' \in [Worker -> WorkerState]
      /\ \A v \in Worker : Sound(v, worker'[v]) /\ worker'[v].tx = worker[v].tx
    <2>1. worker' = [worker EXCEPT ![w] = worker'[w]]
        BY DEF WriteStatus, IInv, TypeOK
    <2>2. worker'[w] \in {[worker[w] EXCEPT !.pc = "notify"], Ended(w, "error")}
        BY DEF WriteStatus, IInv, TypeOK
    <2>3. /\ worker'[w] \in WorkerState
          /\ worker'[w].tx = t /\ worker'[w].status = s
          /\ worker'[w].kind = worker[w].kind /\ worker'[w].saved = worker[w].saved
          /\ worker'[w].pc \in {"notify", "done"}
          /\ worker'[w].outcome \in {worker[w].outcome, "error"}
        <3>1. CASE worker'[w] = [worker[w] EXCEPT !.pc = "notify"]
            BY <1>1, <3>1 DEF WorkerState
        <3>2. CASE worker'[w] = Ended(w, "error")
            BY <1>1, <3>2, EndedEffect
        <3> QED
            BY <2>2, <3>1, <3>2
    <2>4. Sound(w, worker'[w])
        BY <1>1, <2>3 DEF Sound
    <2> QED
        BY <2>1, <2>3, <2>4, AllSound DEF IInv, TypeOK
<1>3. /\ row' \in {row, Written(t, s)}
      /\ written' \in {written, More(written, t, s)}
      /\ faults' \in 0 .. MaxFaults /\ (faults' = 0 => faults = 0)
      /\ UNCHANGED <<aged, requestVars, orders, batch, pending, sent, affinity, crashes>>
    BY DEF WriteStatus, IInv, TypeOK, Fault
<1>4. written' \in Counts
    BY <1>1, <1>3, CountEffect DEF IInv, TypeOK
<1>5. /\ row' \in [Request -> Row]
      /\ \A q \in Request :
              \/ row'[q] = row[q]
              \/ /\ Known(q) /\ Exists(q)
                 /\ row'[q].linked = row[q].linked
                 /\ row'[q].assigned = row[q].assigned
                 /\ row'[q].status \in FinalStatus \cup PostStatus
    BY <1>1, <1>3, WrittenEffect DEF IInv, TypeOK
<1> QED
    BY <1>2, <1>3, <1>4, <1>5, WorkerStep DEF IInv, TypeOK, KnownAfterwards, Worker

(* Spawning the callback ends the call and leaves the rows alone.          *)
LEMMA SpawnNotifyIInv ==
    ASSUME IInv, NEW w \in Worker, SpawnNotify(w)
    PROVE  IInv'
<1>1. /\ worker[w] \in WorkerState
      /\ worker[w].tx \in Request
    BY AllSound DEF SpawnNotify, Sound
<1>2. /\ worker' \in [Worker -> WorkerState]
      /\ \A v \in Worker : Sound(v, worker'[v]) /\ worker'[v].tx = worker[v].tx
    <2>1. worker' = [worker EXCEPT ![w] = Ended(w, "applied")]
        BY DEF SpawnNotify
    <2>2. /\ Ended(w, "applied") \in WorkerState /\ Sound(w, Ended(w, "applied"))
          /\ Ended(w, "applied").tx = worker[w].tx
        BY <1>1, EndedEffect DEF Sound
    <2> QED
        BY <2>1, <2>2, AllSound DEF IInv, TypeOK
<1>3. pending' \in Counts
    BY <1>1, CountEffect DEF SpawnNotify, IInv, TypeOK
<1>4. affinity' \subseteq Request
    BY <1>1 DEF SpawnNotify, IInv, TypeOK
<1> QED
    BY <1>2, <1>3, <1>4, WorkerStep DEF SpawnNotify, IInv, TypeOK, KnownAfterwards, Worker

(* A callback counts down what is pending and leaves the rows alone.       *)
LEMMA NotifyIInv ==
    ASSUME IInv, NEW r \in Request, NEW s \in FinalStatus, Notify(r, s)
    PROVE  IInv'
<1>1. pending' \in Counts /\ sent' \in Counts
    BY CountEffect DEF Notify, IInv, TypeOK
<1>2. faults' \in 0 .. MaxFaults /\ (faults' = 0 => faults = 0)
    BY DEF Notify, Fault, IInv, TypeOK
<1> QED
    BY <1>1, <1>2, AllSound, WorkerStep DEF Notify, IInv, TypeOK, KnownAfterwards

(* A webhook that arrives knows a transaction with an order.               *)
LEMMA ArriveIInv ==
    ASSUME IInv, NEW h \in Hook, Arrive(h)
    PROVE  IInv'
<1>1. PICK t \in orders, e \in HookEvent :
          LET kind == Kind[routed[t]]
              s == IF kind = "MajorPay" THEN MajorPayStatus(e) ELSE Pay911Status(e)
          IN  /\ e \in (IF kind = "MajorPay" THEN MajorPayEvent ELSE Pay911Event)
              /\ worker' = [worker EXCEPT ![h] = Call("lookup", kind, t, s, row[t].linked)]
    BY DEF Arrive
<1> DEFINE kind == Kind[routed[t]]
           s == IF kind = "MajorPay" THEN MajorPayStatus(e) ELSE Pay911Status(e)
           saved == row[t].linked
           x == Call("lookup", kind, t, s, saved)
<1>2. t \in Request /\ Known(t) /\ Exists(t) /\ row[t] \in Row
    BY DEF IInv, TypeOK, KnownAfterwards, OwnRow, Known
<1>3. kind \in {"MajorPay", "911pay"}
    BY DEF IInv, TypeOK, KnownAfterwards
<1>4. s \in FinalStatus
    BY <1>1, <1>3, EventStatusIsFinal
<1>5. saved \in BOOLEAN /\ saved = row[t].linked
    BY <1>2 DEF Row
<1>6. worker' = [worker EXCEPT ![h] = x]
    BY <1>1
<1> HIDE DEF kind, s, saved
<1>7. x \in WorkerState /\ Sound(h, x)
    <2>1. /\ x.pc = "lookup" /\ x.tx = t /\ x.status = s /\ x.tries = 0 /\ x.kind = kind
          /\ x.saved = saved /\ x.outcome = "none"
        BY DEF Call
    <2>2. x \in WorkerState
        BY <1>2, <1>3, <1>4, <1>5 DEF WorkerState, Call, TxStatus
    <2>3. Sound(h, x)
        BY <1>2, <1>3, <1>4, <1>5, <2>1 DEF Sound, Asked
    <2> QED
        BY <2>2, <2>3
<1> HIDE DEF x
<1>8. worker' \in [Worker -> WorkerState] /\ \A v \in Worker : Sound(v, worker'[v])
    BY <1>6, <1>7, AllSound DEF IInv, TypeOK, Worker
<1>9. \A p \in Post : worker'[p] = worker[p]
    BY <1>6 DEF IInv, TypeOK, Worker
<1> QED
    BY <1>8, <1>9, WorkerStep DEF Arrive, IInv, TypeOK, KnownAfterwards, notifyVars

(* A lookup that misses counts; only a fault or an early MajorPay webhook   *)
(* comes to the third miss without a match.                                 *)
LEMMA LookupIInv ==
    ASSUME IInv, NEW h \in Hook, Lookup(h)
    PROVE  IInv'
<1> DEFINE x == worker[h]
           t == x.tx
           miss == [x EXCEPT !.tries = @ + 1]
           dropped == [miss EXCEPT !.pc = "done", !.outcome = "dropped"]
           missed == IF miss.tries < 3 THEN miss
                     ELSE IF miss.kind = "911pay" /\ Exists(t) THEN [miss EXCEPT !.pc = "write"]
                     ELSE dropped
<1>1. /\ h \in Worker /\ x = worker[h] /\ x \in WorkerState /\ x.pc = "lookup" /\ x.tx = t
      /\ t \in Request /\ x.status \in Asked(h) /\ Known(t) /\ Exists(t)
      /\ x.tries \in 0 .. 2
      /\ x.kind \in {"MajorPay", "911pay"}
      /\ x.saved \in BOOLEAN
      /\ x.outcome \in {"none", "applied", "dropped", "error"}
      /\ x.saved => row[t].linked
      /\ x.outcome = "dropped" => faults > 0 \/ (x.kind = "MajorPay" /\ ~x.saved)
    <2>1. h \in Worker /\ x.pc = "lookup"
        BY DEF Lookup, Worker
    <2> QED
        BY <2>1, AllSound DEF Sound, WorkerState
<1>2. /\ miss \in WorkerState /\ miss.tries = x.tries + 1
      /\ miss.pc = "lookup" /\ miss.tx = t /\ miss.status = x.status /\ miss.kind = x.kind
      /\ miss.saved = x.saved /\ miss.outcome = x.outcome
    BY <1>1 DEF WorkerState
<1>3. ASSUME NEW z \in WorkerState
      PROVE  LET y == [z EXCEPT !.pc = "write"]
             IN  /\ y \in WorkerState /\ y.pc = "write" /\ y.tx = z.tx /\ y.status = z.status
                 /\ y.kind = z.kind /\ y.saved = z.saved /\ y.outcome = z.outcome
    BY DEF WorkerState
<1>4. /\ dropped \in WorkerState /\ dropped.pc = "done" /\ dropped.outcome = "dropped"
      /\ dropped.kind = x.kind /\ dropped.saved = x.saved
    BY <1>1, <1>2 DEF WorkerState
<1>5. PICK y : /\ worker' = [worker EXCEPT ![h] = y]
               /\ \/ y = [x EXCEPT !.pc = "write"] /\ row[t].linked
                  \/ y = missed /\ (faults' > 0 \/ ~row[t].linked)
                  \/ y = dropped /\ faults' > 0
    <2>1. CASE /\ worker' = [worker EXCEPT ![h] =
                     IF row[t].linked THEN [@ EXCEPT !.pc = "write"] ELSE missed]
        BY <2>1 DEF IInv, TypeOK
    <2>2. CASE /\ Fault
               /\ \/ worker' = [worker EXCEPT ![h] = missed]
                  \/ miss.tries = 3 /\ worker' = [worker EXCEPT ![h] = dropped]
        BY <2>2 DEF Fault, IInv, TypeOK
    <2> QED
        BY <2>1, <2>2 DEF Lookup
<1>6. /\ faults' \in 0 .. MaxFaults /\ faults \in Nat /\ faults' \in Nat
      /\ faults' = 0 => faults = 0
      /\ UNCHANGED <<row, aged, requestVars, orders, batch, notifyVars, crashes>>
    BY DEF Lookup, Fault, IInv, TypeOK
<1> HIDE DEF x, t, miss, dropped
<1>7. y \in WorkerState /\ (Sound(h, y) \/ (faults' > 0 /\ y.pc = "done"))
    <2>1. CASE y = [x EXCEPT !.pc = "write"]
        BY <1>1, <1>3, <2>1 DEF Sound
    <2>2. CASE y = miss /\ miss.tries < 3
        BY <1>1, <1>2, <2>2 DEF Sound
    <2>3. CASE y = [miss EXCEPT !.pc = "write"]
        BY <1>1, <1>2, <1>3, <2>3 DEF Sound
    <2>4. CASE y = dropped /\ (faults' > 0 \/ (~row[t].linked /\ x.kind = "MajorPay"))
        BY <1>1, <1>4, <2>4 DEF Sound
    <2> QED
        BY <1>1, <1>2, <1>5, <2>1, <2>2, <2>3, <2>4
<1>8. /\ worker' \in [Worker -> WorkerState]
      /\ \A v \in Worker : Sound(v, worker'[v]) \/ (faults' > 0 /\ worker'[v].pc = "done")
    BY <1>1, <1>5, <1>7, AllSound DEF IInv, TypeOK
<1>9. \A p \in Post : worker'[p] = worker[p]
    BY <1>5 DEF IInv, TypeOK, Worker
<1> QED
    BY <1>6, <1>8, <1>9, WorkerStep DEF IInv, TypeOK, KnownAfterwards, notifyVars

(* A post names any row, once.                                             *)
LEMMA PostUpdateIInv ==
    ASSUME IInv, NEW p \in Post, PostUpdate(p)
    PROVE  IInv'
<1>1. PICK t \in Request, s \in PostStatus :
          /\ Exists(t)
          /\ worker' = [worker EXCEPT ![p] = Call("write", "post", t, s, FALSE)]
    BY DEF PostUpdate
<1> DEFINE x == Call("write", "post", t, s, FALSE)
<1>2. Exists(t) /\ s \in TxStatus /\ s \in Asked(p)
    BY <1>1 DEF Asked
<1>3. x \in WorkerState /\ Sound(p, x)
    BY <1>2 DEF Call, WorkerState, Sound
<1> HIDE DEF x
<1>4. worker' \in [Worker -> WorkerState] /\ \A v \in Worker : Sound(v, worker'[v])
    BY <1>1, <1>3, AllSound DEF x, IInv, TypeOK, Worker
<1>5. \A v \in Post : worker[v].tx # None => worker'[v].tx = worker[v].tx
    BY <1>1 DEF PostUpdate, IInv, TypeOK, KnownAfterwards, Worker
<1> QED
    BY <1>4, <1>5, WorkerStep DEF PostUpdate, IInv, TypeOK, KnownAfterwards, notifyVars

(* The expiry query sees what an assignment or a post left waiting.        *)
LEMMA QueryDueIInv ==
    ASSUME IInv, QueryDue
    PROVE  IInv'
<1>1. \A r \in Due : r \in Request /\ Known(r) /\ Exists(r)
    BY FreshRows DEF Due, IInv, OwnRow, Exists
<1>2. batch' \subseteq Request /\ \A r \in batch' : Known(r) /\ Exists(r)
    BY <1>1 DEF QueryDue, IInv, TypeOK, KnownAfterwards
<1>3. faults' \in 0 .. MaxFaults /\ (faults' = 0 => faults = 0)
    BY DEF QueryDue, Fault, IInv, TypeOK
<1> QED
    BY <1>2, <1>3, AllSound, WorkerStep DEF QueryDue, IInv, TypeOK, notifyVars

(* The job settles the ids that the query returned.                        *)
LEMMA NextDueIInv ==
    ASSUME IInv, NextDue
    PROVE  IInv'
<1>1. faults \in 0 .. MaxFaults /\ (UNCHANGED faults \/ Fault) /\ batch' \subseteq batch
    BY DEF NextDue, IInv, TypeOK
<1>2. faults' \in 0 .. MaxFaults /\ (faults' = 0 => faults = 0)
    BY <1>1 DEF Fault
<1>3. worker' \in [Worker -> WorkerState] /\ \A v \in Worker : Sound(v, worker'[v])
    <2>1. CASE UNCHANGED worker
        BY <2>1, AllSound DEF IInv, TypeOK
    <2>2. ASSUME NEW t \in batch,
                 worker' = [worker EXCEPT ![Scheduler] =
                            Call("write", "timer", t, "EXPIRED", FALSE)]
          PROVE  worker' \in [Worker -> WorkerState] /\ \A v \in Worker : Sound(v, worker'[v])
        <3> DEFINE x == Call("write", "timer", t, "EXPIRED", FALSE)
        <3>1. t \in Request /\ Known(t) /\ Exists(t)
            BY DEF IInv, TypeOK, KnownAfterwards
        <3>2. x \in WorkerState /\ Sound(Scheduler, x)
            BY <3>1 DEF Call, WorkerState, Sound, FinalStatus, TxStatus, Asked
        <3> HIDE DEF x
        <3> QED
            BY <2>2, <3>2, AllSound DEF x, IInv, TypeOK, Worker
    <2> QED
        BY <2>1, <2>2 DEF NextDue
<1>4. \A p \in Post : worker'[p] = worker[p]
    BY DEF NextDue, IInv, TypeOK, Worker
<1> QED
    BY <1>1, <1>2, <1>3, <1>4, WorkerStep DEF NextDue, IInv, TypeOK, KnownAfterwards, notifyVars

(* A crash forgets what was under way and nothing that was committed.      *)
LEMMA CrashIInv ==
    ASSUME IInv, Crash
    PROVE  IInv'
<1> USE DEF IInv, Crash
<1>1. crashes' \in 0 .. MaxCrashes /\ crashes' > 0 /\ crashes' # 0
    BY DEF TypeOK
<1>2. /\ pc' \in [Request -> RequestPC]
      /\ \A r \in Request : \/ pc'[r] = "failed"
                            \/ pc'[r] = pc[r] /\ pc[r] \in {"idle", "done", "failed"}
    BY DEF TypeOK, RequestPC, InProgress
<1>3. /\ worker' \in [Worker -> WorkerState]
      /\ \A w \in Worker : /\ worker'[w].pc \in {"idle", "done"}
                           /\ worker'[w].tx = worker[w].tx
                           /\ \/ worker'[w] = worker[w]
                              \/ worker'[w].pc = "done" /\ worker'[w].outcome = "error"
    <2>1. ASSUME NEW w \in Worker
          PROVE  /\ worker[w] \in WorkerState /\ Ended(w, "error") \in WorkerState
                 /\ Ended(w, "error").pc = "done" /\ Ended(w, "error").outcome = "error"
                 /\ Ended(w, "error").tx = worker[w].tx
        <3>1. worker[w] \in WorkerState
            BY DEF TypeOK
        <3> QED
            BY <3>1, EndedEffect
    <2> QED
        BY <2>1
<1>4. Zero \in Counts
    BY DEF Zero, Counts
<1>5. TypeOK'
    BY <1>1, <1>2, <1>3, <1>4 DEF TypeOK
<1>6. OwnRow'
    <2>1. \A r \in Request : Posted(r)' = Posted(r)
        BY <1>3, PostedStays DEF Worker
    <2> QED
        BY <1>2, <2>1 DEF OwnRow, Known, Exists
<1>7. KnownAfterwards'
    BY <1>2, <1>3 DEF KnownAfterwards, TypeOK, Active, Worker
<1>8. LookupState' /\ DroppedOnlyUnlinked'
    BY <1>3 DEF LookupState, DroppedOnlyUnlinked, Worker
<1>9. NewIsBeingRouted'
    BY <1>1 DEF NewIsBeingRouted
<1> QED
    BY <1>5, <1>6, <1>7, <1>8, <1>9

-----------------------------------------------------------------------------
(* The invariant and what follows from it.                                 *)

(* Every step keeps the invariant, one lemma per action.                   *)
LEMMA NextIInv ==
    ASSUME IInv, [Next]_vars
    PROVE  IInv'
<1>1. ASSUME NEW r \in Request, RequestStep(r) \/ Begin(r) \/ Age(r)
      PROVE  IInv'
    BY <1>1, BeginIInv, CheckKeyIInv, InsertIInv, RouteIInv, CancelIInv, AssignIInv,
       FetchProviderIInv, CallProviderIInv, SaveOrderIInv, StoreKeyIInv, AgeIInv
       DEF RequestStep
<1>2. ASSUME NEW w \in Worker, WriteStatus(w) \/ SpawnNotify(w)
      PROVE  IInv'
    BY <1>2, WriteStatusIInv, SpawnNotifyIInv
<1>3. ASSUME NEW r \in Request, NEW s \in FinalStatus, Notify(r, s)
      PROVE  IInv'
    BY <1>3, NotifyIInv
<1>4. ASSUME NEW h \in Hook, Arrive(h) \/ Lookup(h)
      PROVE  IInv'
    BY <1>4, ArriveIInv, LookupIInv
<1>5. ASSUME NEW p \in Post, PostUpdate(p)
      PROVE  IInv'
    BY <1>5, PostUpdateIInv
<1>6. CASE QueryDue \/ NextDue \/ Crash
    BY <1>6, QueryDueIInv, NextDueIInv, CrashIInv
<1>7. CASE UNCHANGED vars
    BY <1>7 DEF vars, requestVars, notifyVars, IInv, TypeOK, OwnRow, KnownAfterwards,
       LookupState, DroppedOnlyUnlinked, NewIsBeingRouted, Known, Posted, Active, Exists
<1> QED
    BY <1>1, <1>2, <1>3, <1>4, <1>5, <1>6, <1>7 DEF Next

(* The inductive invariant holds in every reachable state of the deposits. *)
THEOREM Invariance == Spec => []IInv
BY InitIInv, NextIInv, PTL DEF Spec

(* Every variable keeps its type, in particular a webhook looks its         *)
(* transaction up at most three times (WebhookHandler's retry loops).       *)
THEOREM TypeCorrect == Spec => []TypeOK
<1>1. IInv => TypeOK
    BY DEF IInv
<1> QED
    BY <1>1, Invariance, PTL

(* CreateDeposit calls a provider only after the assignment was committed. *)
THEOREM OrdersAreAssigned == Spec => []OrderedIsAssigned
<1>1. IInv => OrderedIsAssigned
    BY DEF IInv, KnownAfterwards, OrderedIsAssigned
<1> QED
    BY <1>1, Invariance, PTL

(* Without a fault only an early MajorPay webhook is dropped.              *)
THEOREM DropsAreEarly == Spec => []DroppedOnlyUnlinked
<1>1. IInv => DroppedOnlyUnlinked
    BY DEF IInv
<1> QED
    BY <1>1, Invariance, PTL

(* Without faults and crashes a NEW row belongs to a request that is still *)
(* to assign or to cancel it.                                              *)
THEOREM NewRowsAreRouted == Spec => []NewIsBeingRouted
<1>1. IInv => NewIsBeingRouted
    BY DEF IInv
<1> QED
    BY <1>1, Invariance, PTL

(* The statements that write a status: the INSERT finds no row, the         *)
(* cancellation writes a final status, the assignment finds the row NEW     *)
(* unless a post came first, and UpdateStatus writes what it is asked for.  *)
LEMMA NextKeepsFinal ==
    ASSUME IInv, Next, NEW q \in Request, row[q].status \in FinalStatus,
           \A p \in Post : ~Reopens(p, q), ~(pc[q] = "assign" /\ Posted(q))
    PROVE  row'[q].status \in FinalStatus
<1>1. row \in [Request -> Row] /\ row[q] \in Row /\ KeyOf \in [Request -> Key \cup {NoKey}]
    BY DEF IInv, TypeOK
<1>2. pc[q] \notin {"insert", "assign"}
    BY FreshRows DEF IInv, OwnRow, FinalStatus
<1>3. ASSUME NEW r \in Request, NEW n, NEW ok, NEW err, Statement(r, n, ok, err),
             q = r => n.status \in FinalStatus
      PROVE  row'[q].status \in FinalStatus
    BY <1>1, <1>3 DEF Statement
<1>4. ASSUME NEW r \in Request, RequestStep(r)
      PROVE  row'[q].status \in FinalStatus
    <2>1. CASE Insert(r)
        BY <1>2, <1>3, <2>1 DEF Insert
    <2>2. CASE Cancel(r)
        <3>1. q = r => [row[r] EXCEPT !.status = "CANCELLED"].status \in FinalStatus
            BY <1>1 DEF Row, FinalStatus
        <3> QED
            BY <1>3, <2>2, <3>1 DEF Cancel
    <2>3. CASE Assign(r)
        BY <1>2, <1>3, <2>3 DEF Assign
    <2>4. CASE SaveOrder(r)
        <3>1. q = r => [row[r] EXCEPT !.linked = TRUE].status \in FinalStatus
            BY <1>1 DEF Row
        <3> QED
            BY <1>3, <2>4, <3>1 DEF SaveOrder
    <2>5. CASE StoreKey(r)
        <3>1. q = r => [row[r] EXCEPT !.key = KeyOf[r]].status \in FinalStatus
            BY <1>1 DEF Row
        <3> QED
            BY <1>3, <2>5, <3>1 DEF StoreKey
    <2>6. CASE CheckKey(r) \/ Route(r) \/ FetchProvider(r) \/ CallProvider(r)
        BY <2>6 DEF CheckKey, Route, FetchProvider, CallProvider
    <2> QED
        BY <1>4, <2>1, <2>2, <2>3, <2>4, <2>5, <2>6 DEF RequestStep
<1>5. ASSUME NEW w \in Worker, WriteStatus(w)
      PROVE  row'[q].status \in FinalStatus
    <2>1. /\ worker[w].tx \in Request /\ worker[w].status \in TxStatus
          /\ worker[w].tx = q => worker[w].status \in FinalStatus
        BY <1>5, AllSound DEF WriteStatus, Sound, Asked, Reopens, TxStatus
    <2>2. row' \in {row, Written(worker[w].tx, worker[w].status)}
        BY <1>5 DEF WriteStatus
    <2> QED
        BY <2>1, <2>2, WrittenEffect DEF IInv
<1>6. ASSUME \/ \E r \in Request : Begin(r) \/ Age(r)
             \/ \E w \in Worker : SpawnNotify(w)
             \/ \E r \in Request, s \in FinalStatus : Notify(r, s)
             \/ \E h \in Hook : Arrive(h) \/ Lookup(h)
             \/ \E p \in Post : PostUpdate(p)
             \/ QueryDue \/ NextDue \/ Crash
      PROVE  row' = row
    BY <1>6 DEF Begin, Age, SpawnNotify, Notify, Arrive, Lookup, PostUpdate, QueryDue, NextDue,
       Crash
<1> QED
    BY <1>4, <1>5, <1>6 DEF Next

(* No step takes a transaction back out of a final status but UpdateStatus  *)
(* at the request of a status post, and the assignment of a deposit that   *)
(* somebody posted a status for while it was being routed.                 *)
THEOREM FinalIsFinal == Spec => FinalStaysFinal
<1>1. IInv /\ [Next]_vars =>
         [\A r \in Request : row[r].status \in FinalStatus =>
             \/ row'[r].status \in FinalStatus
             \/ \E p \in Post : Reopens(p, r)
             \/ pc[r] = "assign" /\ Posted(r)]_vars
    BY NextKeepsFinal
<1> QED
    BY <1>1, Invariance, PTL DEF Spec, FinalStaysFinal

-----------------------------------------------------------------------------
(* One transaction per key.  While a request is under way no other request *)
(* with its key is, so the key is read after it was stored.                *)

(* Another request that carries the same key.                              *)
Rival(q, r) == q # r /\ KeyOf[q] = KeyOf[r] /\ KeyOf[r] # NoKey

Quiet == SerialClients /\ faults = 0 /\ crashes = 0

SerialState ==
    Quiet =>
        /\ \A r \in Request : KeyOf[r] # NoKey =>
              /\ pc[r] # "failed"
              /\ pc[r] = "done" /\ Exists(r) => row[r].key = KeyOf[r]
        /\ \A q, r \in Request : Rival(q, r) =>
              /\ InProgress(r) => ~InProgress(q)
              /\ pc[r] = "insert" => ~Exists(q)
              /\ Exists(r) => ~Exists(q)

(* A step that moves no request, and neither makes a row nor changes its    *)
(* key, keeps what is known of the keys.                                   *)
LEMMA OthersKeepKeys ==
    ASSUME SerialState, pc' = pc,
           \A q \in Request : row'[q].key = row[q].key /\ Exists(q)' = Exists(q),
           faults' = 0 => faults = 0, crashes' = 0 => crashes = 0
    PROVE  SerialState'
BY DEF SerialState, Quiet, InProgress, Exists, Rival

(* A step of request r alone keeps it when no request with the same key is *)
(* under way, and none has a row once r is about to have one.              *)
LEMMA OwnKeepsKeys ==
    ASSUME SerialState, NEW r \in Request,
           \A q \in Request \ {r} : row'[q] = row[q] /\ pc'[q] = pc[q],
           Quiet' => Quiet,
           Quiet' => \A q \in Request : Rival(q, r) => ~InProgress(q),
           Quiet' /\ (pc'[r] = "insert" \/ Exists(r)') =>
               \A q \in Request : Rival(q, r) => ~Exists(q),
           Quiet' => pc'[r] # "failed",
           Quiet' /\ KeyOf[r] # NoKey /\ pc'[r] = "done" /\ Exists(r)' => row'[r].key = KeyOf[r]
    PROVE  SerialState'
<1> SUFFICES ASSUME Quiet'
             PROVE  /\ \A q \in Request : KeyOf[q] # NoKey =>
                          /\ pc'[q] # "failed"
                          /\ pc'[q] = "done" /\ Exists(q)' => row'[q].key = KeyOf[q]
                    /\ \A p, q \in Request : Rival(p, q) =>
                          /\ InProgress(q)' => ~InProgress(p)'
                          /\ pc'[q] = "insert" => ~Exists(p)'
                          /\ Exists(q)' => ~Exists(p)'
    BY DEF SerialState, Rival
<1>1. \A q \in Request \ {r} : InProgress(q)' = InProgress(q) /\ Exists(q)' = Exists(q)
    BY DEF InProgress, Exists
<1>2. \A q \in Request : KeyOf[q] # NoKey =>
          /\ pc'[q] # "failed"
          /\ pc'[q] = "done" /\ Exists(q)' => row'[q].key = KeyOf[q]
    BY <1>1 DEF SerialState
<1>3. ASSUME NEW p \in Request, NEW q \in Request, Rival(p, q)
      PROVE  /\ InProgress(q)' => ~InProgress(p)'
             /\ pc'[q] = "insert" => ~Exists(p)'
             /\ Exists(q)' => ~Exists(p)'
    <2>1. Rival(q, p)
        BY <1>3 DEF Rival
    <2>2. CASE q = r
        BY <1>1, <1>3, <2>2 DEF Rival
    <2>3. CASE p = r
        BY <1>1, <2>1, <2>3 DEF Rival, InProgress
    <2>4. CASE q # r /\ p # r
        BY <1>1, <1>3, <2>4 DEF SerialState
    <2> QED
        BY <2>2, <2>3, <2>4
<1> QED
    BY <1>2, <1>3

(* A serial client begins when its key's other requests have ended; they    *)
(* stored the key, so the query for it finds any row they made.            *)
LEMMA BeginKeepsKeys ==
    ASSUME IInv, SerialState, NEW r \in Request, Begin(r)
    PROVE  SerialState'
<1>1. /\ pc[r] = "idle" /\ row' = row /\ faults' = faults /\ crashes' = crashes
      /\ pc'[r] = (IF KeyOf[r] = NoKey THEN "insert" ELSE "check")
      /\ \A q \in Request \ {r} : pc'[q] = pc[q]
      /\ SerialClients => \A q \in Request : KeyOf[q] = KeyOf[r] => ~InProgress(q)
    BY DEF Begin, Goto, To, IInv, TypeOK
<1>2. ~Exists(r) /\ ~Exists(r)'
    BY <1>1, FreshRows DEF IInv, OwnRow, Exists
<1> QED
    BY <1>1, <1>2, OwnKeepsKeys DEF Quiet, Rival

LEMMA CheckKeyKeepsKeys ==
    ASSUME IInv, SerialState, NEW r \in Request, CheckKey(r)
    PROVE  SerialState'
<1>1. /\ pc[r] = "check" /\ row' = row /\ crashes' = crashes
      /\ \A q \in Request \ {r} : pc'[q] = pc[q]
      /\ faults' = 0 =>
            /\ faults = 0
            /\ pc'[r] = IF \E q \in Request : row[q].key = KeyOf[r] THEN "done" ELSE "insert"
    BY DEF CheckKey, Fault, Goto, To, IInv, TypeOK
<1>2. ~Exists(r) /\ ~Exists(r)'
    BY <1>1, FreshRows DEF IInv, OwnRow, Exists
<1>3. Quiet' => Quiet
    BY <1>1 DEF Quiet
<1>4. Quiet => \A q \in Request : Rival(q, r) => ~InProgress(q)
    BY <1>1 DEF SerialState, InProgress
<1>5. ASSUME Quiet', pc'[r] = "insert", NEW q \in Request, Rival(q, r), Exists(q)
      PROVE  FALSE
    <2>1. pc[q] # "idle"
        BY <1>5, FreshRows DEF IInv, OwnRow, Exists
    <2>2. pc[q] = "done" /\ KeyOf[q] = KeyOf[r] /\ KeyOf[q] # NoKey
        BY <1>3, <1>4, <1>5, <2>1 DEF Rival, SerialState, InProgress
    <2>3. row[q].key = KeyOf[r]
        BY <1>3, <1>5, <2>2 DEF SerialState
    <2> QED
        BY <1>1, <1>5, <2>3 DEF Quiet
<1> QED
    BY <1>1, <1>2, <1>3, <1>4, <1>5, OwnKeepsKeys DEF Quiet

(* A request that is past the check goes on alone; it makes its row only    *)
(* where no other request with the key made one.                           *)
LEMMA LaterKeepsKeys ==
    ASSUME IInv, SerialState, NEW r \in Request, InProgress(r), pc[r] # "check",
           \A q \in Request \ {r} : row'[q] = row[q] /\ pc'[q] = pc[q],
           crashes' = crashes, faults' = 0 => faults = 0,
           faults' = 0 => pc'[r] \notin {"failed", "insert"},
           Exists(r)' => Exists(r) \/ pc[r] = "insert",
           faults' = 0 /\ pc'[r] = "done" => row'[r].key = KeyOf[r]
    PROVE  SerialState'
<1>1. Quiet' => Quiet
    BY DEF Quiet
<1>2. Quiet' => \A q \in Request : Rival(q, r) => ~InProgress(q)
    BY <1>1 DEF SerialState
<1>3. Quiet' /\ (pc'[r] = "insert" \/ Exists(r)') =>
          \A q \in Request : Rival(q, r) => ~Exists(q)
    BY <1>1 DEF SerialState, Quiet
<1> QED
    BY <1>1, <1>2, <1>3, OwnKeepsKeys DEF Quiet

(* A statement of the request meets the conditions for going on.           *)
LEMMA StatementKeepsKeys ==
    ASSUME IInv, SerialState, NEW r \in Request, NEW n \in Row,
           NEW ok \in RequestPC \ {"failed", "insert"}, NEW err \in RequestPC,
           InProgress(r), pc[r] # "check", Statement(r, n, ok, err), UNCHANGED crashes,
           pc[r] = "insert" \/ Exists(r),
           ok = "done" => n.key = KeyOf[r]
    PROVE  SerialState'
<1>1. /\ faults' = 0 => faults = 0 /\ row'[r] = n /\ pc'[r] = ok
      /\ \A q \in Request \ {r} : row'[q] = row[q] /\ pc'[q] = pc[q]
    BY StatementEffect DEF IInv
<1> QED
    BY <1>1, LaterKeepsKeys

(* Each step of a request keeps what is known of the keys.                 *)
LEMMA RequestKeepsKeys ==
    ASSUME IInv, SerialState, NEW r \in Request, RequestStep(r)
    PROVE  SerialState'
<1>1. /\ row[r] \in Row /\ NewRow \in Row /\ KeyOf[r] \in Key \cup {NoKey}
      /\ row \in [Request -> Row] /\ pc \in [Request -> RequestPC]
    BY FreshRows DEF IInv, TypeOK
<1>2. /\ pc[r] \in {"route", "cancel", "assign"} => Exists(r)
      /\ pc[r] \in {"fetch", "call", "save"} => Exists(r)
    BY FreshRows DEF IInv, OwnRow, Exists
<1>3. CASE CheckKey(r)
    BY <1>3, CheckKeyKeepsKeys
<1>4. CASE Insert(r)
    BY <1>1, <1>4, StatementKeepsKeys DEF Insert, InProgress, RequestPC
<1>5. CASE Cancel(r)
    <2>1. [row[r] EXCEPT !.status = "CANCELLED"] \in Row
        BY <1>1, RowEdits
    <2> QED
        BY <1>2, <1>5, <2>1, StatementKeepsKeys DEF Cancel, InProgress, RequestPC
<1>6. CASE Assign(r)
    <2>1. [row[r] EXCEPT !.status = "WAITING_PAYMENT", !.assigned = TRUE] \in Row
        BY <1>1, RowEdits
    <2> QED
        BY <1>2, <1>6, <2>1, StatementKeepsKeys DEF Assign, InProgress, RequestPC
<1>7. CASE SaveOrder(r)
    <2>1. [row[r] EXCEPT !.linked = TRUE] \in Row
        BY <1>1, RowEdits
    <2> QED
        BY <1>2, <1>7, <2>1, StatementKeepsKeys DEF SaveOrder, InProgress, RequestPC
<1>8. CASE StoreKey(r)
    <2> DEFINE n == [row[r] EXCEPT !.key = KeyOf[r]]
    <2>1. n \in Row /\ n.key = KeyOf[r] /\ n.status = row[r].status
        BY <1>1 DEF Row
    <2>2. pc[r] = "storeKey" /\ Statement(r, n, "done", "done") /\ UNCHANGED crashes
        BY <1>8 DEF StoreKey
    <2> HIDE DEF n
    <2>3. /\ faults' = 0 => faults = 0 /\ row'[r] = n /\ pc'[r] = "done"
          /\ \A q \in Request \ {r} : row'[q] = row[q] /\ pc'[q] = pc[q]
          /\ row'[r] \in {row[r], n}
        BY <2>1, <2>2, StatementEffect DEF IInv, RequestPC
    <2> QED
        BY <2>1, <2>2, <2>3, LaterKeepsKeys DEF InProgress, Exists
<1>9. CASE Route(r) \/ FetchProvider(r) \/ CallProvider(r)
    <2>1. /\ InProgress(r) /\ pc[r] \notin {"check", "insert"}
          /\ row' = row /\ crashes' = crashes
          /\ \A q \in Request \ {r} : pc'[q] = pc[q]
          /\ faults' = 0 => faults = 0 /\ pc'[r] \notin {"failed", "insert"}
          /\ pc'[r] # "done"
        BY <1>1, <1>9 DEF Route, FetchProvider, CallProvider, Fault, Goto, To, InProgress, IInv,
           TypeOK
    <2> QED
        BY <2>1, LaterKeepsKeys DEF Exists
<1> QED
    BY <1>3, <1>4, <1>5, <1>6, <1>7, <1>8, <1>9 DEF RequestStep

(* UpdateStatus neither makes a row nor touches its key.                   *)
LEMMA WriteKeepsKeys ==
    ASSUME IInv, SerialState, NEW w \in Worker, WriteStatus(w)
    PROVE  SerialState'
<1> DEFINE t == worker[w].tx
           s == worker[w].status
<1>1. t \in Request /\ Exists(t) /\ s \in TxStatus
    BY AllSound DEF WriteStatus, Sound, Asked, TxStatus
<1>2. row \in [Request -> Row] /\ row[t] \in Row
    BY <1>1 DEF IInv, TypeOK
<1>3. row' \in {row, Written(t, s)} /\ pc' = pc /\ crashes' = crashes
      /\ (faults' = 0 => faults = 0)
    BY DEF WriteStatus, Fault, IInv, TypeOK, requestVars
<1>4. /\ \A q \in Request \ {t} : Written(t, s)[q] = row[q]
      /\ Written(t, s)[t].status = s /\ s # "absent"
    BY <1>1, WrittenEffect DEF IInv, TxStatus, FinalStatus
<1>5. Written(t, s)[t].key = row[t].key
    BY <1>1, <1>2 DEF Written, Settled, Row
<1> HIDE DEF t, s
<1>6. \A q \in Request : row'[q].key = row[q].key /\ Exists(q)' = Exists(q)
    BY <1>1, <1>3, <1>4, <1>5 DEF Exists
<1> QED
    BY <1>3, <1>6, OthersKeepKeys

(* Every step keeps what is known of the keys.                             *)
LEMMA NextSerialState ==
    ASSUME IInv, SerialState, [Next]_vars
    PROVE  SerialState'
<1>1. ASSUME NEW r \in Request, Begin(r) \/ RequestStep(r)
      PROVE  SerialState'
    BY <1>1, BeginKeepsKeys, RequestKeepsKeys
<1>2. ASSUME NEW w \in Worker, WriteStatus(w)
      PROVE  SerialState'
    BY <1>2, WriteKeepsKeys
<1>3. ASSUME \/ \E r \in Request : Age(r)
             \/ \E w \in Worker : SpawnNotify(w)
             \/ \E r \in Request, s \in FinalStatus : Notify(r, s)
             \/ \E h \in Hook : Arrive(h) \/ Lookup(h)
             \/ \E p \in Post : PostUpdate(p)
             \/ QueryDue \/ NextDue \/ UNCHANGED vars
      PROVE  SerialState'
    <2>1. row' = row /\ pc' = pc /\ crashes' = crashes
        BY <1>3 DEF Age, SpawnNotify, Notify, Arrive, Lookup, PostUpdate, QueryDue, NextDue,
           vars, requestVars
    <2>2. UNCHANGED faults \/ Fault
        BY <1>3 DEF Age, SpawnNotify, Notify, Arrive, Lookup, PostUpdate, QueryDue, NextDue, vars
    <2>3. faults' = 0 => faults = 0
        BY <2>2 DEF Fault, IInv, TypeOK
    <2> QED
        BY <2>1, <2>3, OthersKeepKeys DEF Exists
<1>4. CASE Crash
    BY <1>4 DEF Crash, SerialState, Quiet, IInv, TypeOK
<1> QED
    BY <1>1, <1>2, <1>3, <1>4 DEF Next

(* A client that repeats its key only after the previous answer gets one    *)
(* transaction (CreateDeposit's lookup by idempotency_key), when nothing    *)
(* fails and nothing crashes.                                              *)
THEOREM SerialRepeats == Spec => []SerialRepeatIsSafe
<1>1. Init => SerialState
    BY DEF Init, SerialState, InProgress, Exists, NoRow
<1>2. SerialState => SerialRepeatIsSafe
    BY DEF SerialState, SerialRepeatIsSafe, OneRowPerKey, Quiet, Rival
<1> QED
    BY <1>1, <1>2, Invariance, NextSerialState, PTL DEF Spec

-----------------------------------------------------------------------------
(* One callback per update.  Between its UPDATE and its goroutine an update *)
(* is held by the worker that wrote it.                                    *)

Spawning(r, s) == {w \in Worker : /\ worker[w].pc = "notify"
                                  /\ worker[w].tx = r
                                  /\ worker[w].status = s}

Accounted(r, s) == sent[r][s] + pending[r][s] + Cardinality(Spawning(r, s))

NotifiedState ==
    \A r \in Request, s \in FinalStatus :
        /\ IsFiniteSet(Spawning(r, s))
        /\ Accounted(r, s) <= written[r][s]
        /\ r \in Callable /\ faults = 0 /\ crashes = 0 => Accounted(r, s) = written[r][s]

(* A callback counted up or down changes one number by one.                *)
LEMMA CountedUp ==
    ASSUME NEW c \in Counts, NEW t \in Request, NEW u, NEW r \in Request, NEW s \in FinalStatus
    PROVE  /\ c[r][s] \in Nat
           /\ More(c, t, u)[r][s] = IF r = t /\ s = u THEN c[r][s] + 1 ELSE c[r][s]
BY DEF Counts, More

LEMMA CountedDown ==
    ASSUME NEW c \in Counts, NEW t \in Request, NEW u \in FinalStatus,
           NEW r \in Request, NEW s \in FinalStatus
    PROVE  Fewer(c, t, u)[r][s] = IF r = t /\ s = u THEN c[r][s] - 1 ELSE c[r][s]
BY DEF Counts, Fewer

(* A step after which the same workers hold the same updates, and no count *)
(* has changed, keeps the account.                                         *)
LEMMA OthersKeepAccount ==
    ASSUME NotifiedState, UNCHANGED <<sent, pending, written>>,
           \A w \in Worker : worker[w].pc = "notify" \/ worker'[w].pc = "notify" =>
               worker'[w] = worker[w],
           faults' = 0 => faults = 0, crashes' = 0 => crashes = 0
    PROVE  NotifiedState'
<1>1. \A r \in Request, s \in FinalStatus : Spawning(r, s)' = Spawning(r, s)
    BY DEF Spawning
<1>2. \A r \in Request, s \in FinalStatus : Accounted(r, s)' = Accounted(r, s)
    BY <1>1 DEF Accounted
<1> QED
    BY <1>1, <1>2 DEF NotifiedState

(* The worker that wrote an update holds it next; when the statement        *)
(* reported an error nobody does, and the account may only fall behind.    *)
LEMMA WriteKeepsAccount ==
    ASSUME IInv, NotifiedState, NEW w \in Worker, WriteStatus(w)
    PROVE  NotifiedState'
<1> DEFINE t == worker[w].tx
           u == worker[w].status
<1>1. /\ t \in Request /\ worker[w] \in WorkerState /\ worker[w].pc = "write"
      /\ worker \in [Worker -> WorkerState]
      /\ written \in Counts /\ sent \in Counts /\ pending \in Counts /\ faults \in Nat
    BY AllSound DEF WriteStatus, Sound, IInv, TypeOK
<1>2. /\ UNCHANGED <<sent, pending, crashes>>
      /\ \/ /\ written' = More(written, t, u) /\ UNCHANGED faults
            /\ worker' = [worker EXCEPT ![w].pc = "notify"]
         \/ /\ faults' > 0 /\ written' \in {written, More(written, t, u)}
            /\ worker' = [worker EXCEPT ![w] = Ended(w, "error")]
    BY <1>1 DEF WriteStatus, Fault
<1>3. ASSUME NEW r \in Request, NEW s \in FinalStatus
      PROVE  /\ IsFiniteSet(Spawning(r, s)') /\ Accounted(r, s)' <= written'[r][s]
             /\ r \in Callable /\ faults' = 0 /\ crashes' = 0 =>
                   Accounted(r, s)' = written'[r][s]
    <2> DEFINE S == Spawning(r, s)
    <2>1. IsFiniteSet(S) /\ Cardinality(S) \in Nat /\ w \notin S
        BY <1>1, FS_CardinalityType DEF NotifiedState, Spawning
    <2>2. /\ sent[r][s] \in Nat /\ pending[r][s] \in Nat /\ written[r][s] \in Nat
          /\ More(written, t, u)[r][s] = IF r = t /\ s = u THEN written[r][s] + 1
                                                           ELSE written[r][s]
        <3>1. sent[r][s] \in Nat /\ pending[r][s] \in Nat /\ written[r][s] \in Nat
            BY <1>1, CountedUp
        <3>2. More(written, t, u)[r][s] = IF r = t /\ s = u THEN written[r][s] + 1
                                                           ELSE written[r][s]
            BY <1>1, CountedUp
        <3> QED
            BY <3>1, <3>2
    <2>3. /\ sent[r][s] + pending[r][s] + Cardinality(S) <= written[r][s]
          /\ r \in Callable /\ faults = 0 /\ crashes = 0 =>
                sent[r][s] + pending[r][s] + Cardinality(S) = written[r][s]
        BY DEF NotifiedState, Accounted
    <2>4. CASE /\ written' = More(written, t, u) /\ UNCHANGED faults
               /\ worker' = [worker EXCEPT ![w].pc = "notify"]
        <3>1. worker'[w].pc = "notify" /\ worker'[w].tx = t /\ worker'[w].status = u
              /\ \A v \in Worker \ {w} : worker'[v] = worker[v]
            BY <1>1, <2>4 DEF WorkerState
        <3>2. Spawning(r, s)' = IF r = t /\ s = u THEN S \cup {w} ELSE S
            BY <1>1, <3>1 DEF Spawning
        <3>3. IsFiniteSet(S \cup {w}) /\ Cardinality(S \cup {w}) = Cardinality(S) + 1
            BY <2>1, FS_AddElement
        <3>4. /\ IsFiniteSet(Spawning(r, s)')
              /\ Cardinality(Spawning(r, s)') =
                    IF r = t /\ s = u THEN Cardinality(S) + 1 ELSE Cardinality(S)
            BY <2>1, <3>2, <3>3
        <3>5. /\ Accounted(r, s)' = sent[r][s] + pending[r][s] + Cardinality(Spawning(r, s)')
              /\ crashes' = crashes
            BY <1>2 DEF Accounted
        <3> HIDE DEF S
        <3>6. CASE r = t /\ s = u
            BY <2>1, <2>2, <2>3, <2>4, <3>4, <3>5, <3>6
        <3>7. CASE ~(r = t /\ s = u)
            BY <2>1, <2>2, <2>3, <2>4, <3>4, <3>5, <3>7
        <3> QED
            BY <3>6, <3>7
    <2>5. CASE /\ faults' > 0 /\ written' \in {written, More(written, t, u)}
               /\ worker' = [worker EXCEPT ![w] = Ended(w, "error")]
        <3>1. Spawning(r, s)' = S
            BY <1>1, <2>5, EndedEffect DEF Spawning
        <3> QED
            BY <1>2, <2>1, <2>2, <2>3, <2>5, <3>1 DEF Accounted
    <2> QED
        BY <1>2, <2>4, <2>5
<1> QED
    BY <1>3 DEF NotifiedState

(* The update passes from the worker to the goroutine it spawns.           *)
LEMMA SpawnKeepsAccount ==
    ASSUME IInv, NotifiedState, NEW w \in Worker, SpawnNotify(w)
    PROVE  NotifiedState'
<1> DEFINE t == worker[w].tx
           u == worker[w].status
<1>1. /\ t \in Request /\ worker[w] \in WorkerState /\ worker[w].pc = "notify"
      /\ worker \in [Worker -> WorkerState]
      /\ written \in Counts /\ sent \in Counts /\ pending \in Counts
      /\ pending' = More(pending, t, u)
      /\ worker' = [worker EXCEPT ![w] = Ended(w, "applied")]
      /\ UNCHANGED <<sent, written, faults, crashes>>
    BY AllSound DEF SpawnNotify, Sound, IInv, TypeOK
<1>2. ASSUME NEW r \in Request, NEW s \in FinalStatus
      PROVE  IsFiniteSet(Spawning(r, s)') /\ Accounted(r, s)' = Accounted(r, s)
    <2> DEFINE S == Spawning(r, s)
    <2>1. /\ IsFiniteSet(S) /\ Cardinality(S) \in Nat
          /\ w \in S <=> r = t /\ s = u
        BY <1>1, FS_CardinalityType DEF NotifiedState, Spawning
    <2>2. /\ sent[r][s] \in Nat /\ pending[r][s] \in Nat
          /\ More(pending, t, u)[r][s] = IF r = t /\ s = u THEN pending[r][s] + 1
                                                           ELSE pending[r][s]
        <3>1. sent[r][s] \in Nat /\ pending[r][s] \in Nat
            BY <1>1, CountedUp
        <3>2. More(pending, t, u)[r][s] = IF r = t /\ s = u THEN pending[r][s] + 1
                                                           ELSE pending[r][s]
            BY <1>1, CountedUp
        <3> QED
            BY <3>1, <3>2
    <2>3. Spawning(r, s)' = S \ {w}
        BY <1>1, EndedEffect DEF Spawning
    <2>4. /\ IsFiniteSet(S \ {w})
          /\ Cardinality(S \ {w}) = IF w \in S THEN Cardinality(S) - 1 ELSE Cardinality(S)
        BY <2>1, FS_RemoveElement
    <2>5. /\ IsFiniteSet(Spawning(r, s)')
          /\ Cardinality(Spawning(r, s)') =
                IF r = t /\ s = u THEN Cardinality(S) - 1 ELSE Cardinality(S)
        BY <2>1, <2>3, <2>4
    <2> QED
        BY <1>1, <2>1, <2>2, <2>5 DEF Accounted
<1> QED
    BY <1>1, <1>2 DEF NotifiedState

(* The goroutine makes its one attempt, or none where it is left out; one  *)
(* that is not sent is not counted.                                        *)
LEMMA NotifyKeepsAccount ==
    ASSUME IInv, NotifiedState, NEW t \in Request, NEW u \in FinalStatus, Notify(t, u)
    PROVE  NotifiedState'
<1>1. /\ written \in Counts /\ sent \in Counts /\ pending \in Counts /\ faults \in Nat
      /\ pending[t][u] > 0 /\ pending' = Fewer(pending, t, u)
      /\ UNCHANGED <<worker, written, crashes>>
      /\ \/ sent' = More(sent, t, u) /\ UNCHANGED faults
         \/ (t \notin Callable \/ faults' > 0) /\ sent' = sent
      /\ faults' = 0 => faults = 0
    BY DEF Notify, Fault, IInv, TypeOK
<1>2. ASSUME NEW r \in Request, NEW s \in FinalStatus
      PROVE  /\ IsFiniteSet(Spawning(r, s)') /\ Accounted(r, s)' <= written'[r][s]
             /\ r \in Callable /\ faults' = 0 /\ crashes' = 0 =>
                   Accounted(r, s)' = written'[r][s]
    <2> DEFINE S == Spawning(r, s)
    <2>1. IsFiniteSet(S) /\ Cardinality(S) \in Nat /\ Spawning(r, s)' = S
        BY <1>1, FS_CardinalityType DEF NotifiedState, Spawning
    <2>2. /\ sent[r][s] \in Nat /\ pending[r][s] \in Nat /\ written[r][s] \in Nat
          /\ More(sent, t, u)[r][s] = IF r = t /\ s = u THEN sent[r][s] + 1 ELSE sent[r][s]
          /\ Fewer(pending, t, u)[r][s] = IF r = t /\ s = u THEN pending[r][s] - 1
                                                            ELSE pending[r][s]
        <3>1. sent[r][s] \in Nat /\ pending[r][s] \in Nat /\ written[r][s] \in Nat
            BY <1>1, CountedUp
        <3>2. More(sent, t, u)[r][s] = IF r = t /\ s = u THEN sent[r][s] + 1 ELSE sent[r][s]
            BY <1>1, CountedUp
        <3>3. Fewer(pending, t, u)[r][s] = IF r = t /\ s = u THEN pending[r][s] - 1
                                                            ELSE pending[r][s]
            BY <1>1, CountedDown
        <3> QED
            BY <3>1, <3>2, <3>3
    <2>3. /\ sent[r][s] + pending[r][s] + Cardinality(S) <= written[r][s]
          /\ r \in Callable /\ faults = 0 /\ crashes = 0 =>
                sent[r][s] + pending[r][s] + Cardinality(S) = written[r][s]
        BY DEF NotifiedState, Accounted
    <2> HIDE DEF S
    <2> QED
        BY <1>1, <2>1, <2>2, <2>3 DEF Accounted
<1> QED
    BY <1>2 DEF NotifiedState

(* A crash forgets the updates on their way: the account falls behind.     *)
LEMMA CrashKeepsAccount ==
    ASSUME IInv, NotifiedState, Crash
    PROVE  NotifiedState'
<1>1. /\ crashes' # 0 /\ pending' = Zero /\ UNCHANGED <<sent, written>>
      /\ sent \in Counts /\ pending \in Counts /\ written \in Counts
    BY DEF Crash, IInv, TypeOK
<1>2. \A w \in Worker : worker'[w].pc # "notify"
    BY AllSound, EndedEffect DEF Crash
<1>3. ASSUME NEW r \in Request, NEW s \in FinalStatus
      PROVE  IsFiniteSet(Spawning(r, s)') /\ Accounted(r, s)' <= written'[r][s]
    <2> DEFINE S == Spawning(r, s)
    <2>1. Spawning(r, s)' = {}
        BY <1>2 DEF Spawning
    <2>2. IsFiniteSet({}) /\ Cardinality({}) = 0
        BY FS_EmptySet
    <2>3. IsFiniteSet(S) /\ Cardinality(S) \in Nat
        BY FS_CardinalityType DEF NotifiedState
    <2>4. /\ sent[r][s] \in Nat /\ pending[r][s] \in Nat /\ written[r][s] \in Nat
          /\ pending'[r][s] = 0
        BY <1>1 DEF Counts, Zero
    <2>5. sent[r][s] + pending[r][s] + Cardinality(S) <= written[r][s]
        BY DEF NotifiedState, Accounted
    <2> HIDE DEF S
    <2> QED
        BY <1>1, <2>1, <2>2, <2>3, <2>4, <2>5 DEF Accounted
<1> QED
    BY <1>1, <1>3 DEF NotifiedState

(* Every step keeps the account.                                           *)
LEMMA NextNotifiedState ==
    ASSUME IInv, NotifiedState, [Next]_vars
    PROVE  NotifiedState'
<1>1. ASSUME NEW w \in Worker, WriteStatus(w) \/ SpawnNotify(w)
      PROVE  NotifiedState'
    BY <1>1, WriteKeepsAccount, SpawnKeepsAccount
<1>2. ASSUME NEW r \in Request, NEW s \in FinalStatus, Notify(r, s)
      PROVE  NotifiedState'
    BY <1>2, NotifyKeepsAccount
<1>3. CASE Crash
    BY <1>3, CrashKeepsAccount
<1>4. ASSUME \/ \E r \in Request : Begin(r) \/ RequestStep(r) \/ Age(r)
             \/ QueryDue \/ UNCHANGED vars
      PROVE  NotifiedState'
    <2>1. UNCHANGED <<worker, sent, pending, written, crashes>>
        BY <1>4 DEF Begin, RequestStep, CheckKey, Insert, Route, Cancel, Assign, FetchProvider,
           CallProvider, SaveOrder, StoreKey, Age, QueryDue, vars, notifyVars
    <2>2. UNCHANGED faults \/ Fault
        BY <1>4 DEF Begin, RequestStep, CheckKey, Insert, Route, Cancel, Assign, FetchProvider,
           CallProvider, SaveOrder, StoreKey, Statement, Age, QueryDue, vars
    <2>3. faults' = 0 => faults = 0
        BY <2>2 DEF Fault, IInv, TypeOK
    <2> QED
        BY <2>1, <2>3, OthersKeepAccount
<1>5. ASSUME (\E h \in Hook : Arrive(h) \/ Lookup(h)) \/ (\E p \in Post : PostUpdate(p)) \/ NextDue
      PROVE  NotifiedState'
    <2>1. UNCHANGED <<sent, pending, written, crashes>>
        BY <1>5 DEF Arrive, Lookup, PostUpdate, NextDue, notifyVars
    <2>2. UNCHANGED faults \/ Fault
        BY <1>5 DEF Arrive, Lookup, PostUpdate, NextDue
    <2>3. faults' = 0 => faults = 0
        BY <2>2 DEF Fault, IInv, TypeOK
    <2>4. \A w \in Worker : worker[w] \in WorkerState
        BY AllSound
    <2>5. \A w \in Worker : worker[w].pc = "notify" \/ worker'[w].pc = "notify" =>
             worker'[w] = worker[w]
        <3>1. ASSUME NEW h \in Hook, Arrive(h)
              PROVE  \A w \in Worker : worker[w].pc = "notify" \/ worker'[w].pc = "notify" =>
                        worker'[w] = worker[w]
            BY <3>1 DEF Arrive, Call, Worker, IInv, TypeOK
        <3>2. ASSUME NEW h \in Hook, Lookup(h)
              PROVE  \A w \in Worker : worker[w].pc = "notify" \/ worker'[w].pc = "notify" =>
                        worker'[w] = worker[w]
            <4>1. /\ worker[h].pc = "lookup" /\ h \in Worker
                  /\ \A w \in Worker \ {h} : worker'[w] = worker[w]
                BY <3>2 DEF Lookup, Worker, IInv, TypeOK
            <4> DEFINE miss == [worker[h] EXCEPT !.tries = @ + 1]
                       dropped == [miss EXCEPT !.pc = "done", !.outcome = "dropped"]
            <4>2. /\ miss.pc = "lookup" /\ dropped.pc = "done"
                  /\ [worker[h] EXCEPT !.pc = "write"].pc = "write"
                  /\ [miss EXCEPT !.pc = "write"].pc = "write"
                BY <2>4, <4>1 DEF WorkerState
            <4>3. worker'[h] \in {miss, dropped, [worker[h] EXCEPT !.pc = "write"],
                                  [miss EXCEPT !.pc = "write"]}
                BY <3>2, <4>1 DEF Lookup, IInv, TypeOK
            <4>4. worker'[h].pc # "notify"
                BY <4>2, <4>3
            <4> QED
                BY <4>1, <4>4
        <3>3. ASSUME NEW p \in Post, PostUpdate(p)
              PROVE  \A w \in Worker : worker[w].pc = "notify" \/ worker'[w].pc = "notify" =>
                        worker'[w] = worker[w]
            BY <3>3 DEF PostUpdate, Call, Worker, IInv, TypeOK
        <3>4. CASE NextDue
            BY <3>4 DEF NextDue, Call, Worker, IInv, TypeOK
        <3> QED
            BY <1>5, <3>1, <3>2, <3>3, <3>4
    <2> QED
        BY <2>1, <2>3, <2>5, OthersKeepAccount
<1> QED
    BY <1>1, <1>2, <1>3, <1>4, <1>5 DEF Next

(* The account of the callbacks holds in every reachable state.            *)
THEOREM CallbacksAccounted == Spec => []NotifiedState
<1>1. Init => NotifiedState
    <2> SUFFICES ASSUME Init PROVE NotifiedState
        OBVIOUS
    <2>1. \A w \in Worker : worker[w].pc = "idle"
        BY DEF Init, Idle, Call
    <2>2. \A r \in Request, s \in FinalStatus : Spawning(r, s) = {}
        BY <2>1 DEF Spawning
    <2>3. \A r \in Request, s \in FinalStatus :
             sent[r][s] = 0 /\ pending[r][s] = 0 /\ written[r][s] = 0
        BY DEF Init, Zero
    <2>4. IsFiniteSet({}) /\ Cardinality({}) = 0
        BY FS_EmptySet
    <2>5. ASSUME NEW r \in Request, NEW s \in FinalStatus
          PROVE  /\ IsFiniteSet(Spawning(r, s))
                 /\ Accounted(r, s) = 0 /\ written[r][s] = 0
        <3>1. Spawning(r, s) = {} /\ sent[r][s] = 0 /\ pending[r][s] = 0 /\ written[r][s] = 0
            BY <2>2, <2>3
        <3>2. IsFiniteSet(Spawning(r, s)) /\ Cardinality(Spawning(r, s)) = 0
            BY <2>4, <3>1
        <3> QED
            BY <3>1, <3>2 DEF Accounted
    <2> QED
        BY <2>5 DEF NotifiedState
<1> QED
    BY <1>1, Invariance, NextNotifiedState, PTL DEF Spec

(* The merchant gets at most one callback per committed UpdateStatus, and   *)
(* exactly one, when nothing fails and nothing crashes, if its casino has  *)
(* a webhook_url and a secret_key.                                         *)
THEOREM CallbacksMatchUpdates == Spec => []NotifiedOncePerUpdate
<1>1. NotifiedState => NotifiedOncePerUpdate
    BY DEF NotifiedState, NotifiedOncePerUpdate, Accounted, Spawning
<1> QED
    BY <1>1, CallbacksAccounted, PTL

-----------------------------------------------------------------------------
(* The promise of Lifecycle.  A step of the server is one of its actions   *)
(* or changes nothing that it speaks of.                                   *)

Status == [r \in Request |-> row[r].status]
Routing == {r \in Request : pc[r] \in {"route", "cancel", "assign"}}
PostedFor == {r \in Request : Posted(r)}
Assigned == {r \in Request : row[r].assigned}
Linked == {r \in Request : row[r].linked}
Paid == {r \in Request : row[r].paidAt}

(* A request saves the id of an order that exists.                         *)
SavesOrders == \A r \in Request : pc[r] = "save" => r \in orders

LEMMA NextSavesOrders ==
    ASSUME IInv, SavesOrders, [Next]_vars
    PROVE  SavesOrders'
<1>1. pc \in [Request -> RequestPC]
    BY DEF IInv, TypeOK
<1>2. ASSUME NEW r \in Request, Begin(r) \/ RequestStep(r) PROVE SavesOrders'
  <2>1. CASE CallProvider(r)
      BY <1>1, <2>1 DEF CallProvider, Goto, To, SavesOrders
  <2>2. CASE ~CallProvider(r)
    <3>1. orders' = orders /\ \E l \in RequestPC \ {"save"} : pc' = To(r, l)
        BY <1>2, <2>2 DEF Begin, RequestStep, CheckKey, Insert, Route, Cancel, Assign,
           FetchProvider, SaveOrder, StoreKey, Statement, Goto, RequestPC
    <3> QED
        BY <1>1, <3>1 DEF To, SavesOrders
  <2> QED
      BY <2>1, <2>2
<1>3. CASE Crash
    BY <1>3 DEF Crash, SavesOrders
<1>4. CASE \/ \E r \in Request : Age(r)
           \/ \E w \in Worker : WriteStatus(w) \/ SpawnNotify(w)
           \/ \E r \in Request, s \in FinalStatus : Notify(r, s)
           \/ \E h \in Hook : Arrive(h) \/ Lookup(h)
           \/ \E p \in Post : PostUpdate(p)
           \/ QueryDue \/ NextDue \/ UNCHANGED vars
  <2>1. UNCHANGED <<pc, orders>>
      BY <1>4 DEF Age, WriteStatus, SpawnNotify, Notify, Arrive, Lookup, PostUpdate, QueryDue,
         NextDue, vars, requestVars
  <2> QED
      BY <2>1 DEF SavesOrders
<1> QED
    BY <1>2, <1>3, <1>4 DEF Next

(* What a new version of one row, and a move of its request, are to the    *)
(* promise.                                                                *)
LEMMA StatusMaps ==
    ASSUME row \in [Request -> Row], NEW r \in Request, NEW n \in Row,
           row' = [row EXCEPT ![r] = n]
    PROVE  /\ Status' = [Status EXCEPT ![r] = n.status]
           /\ n.status = row[r].status => Status' = Status
BY DEF Status

LEMMA AssignedMaps ==
    ASSUME row \in [Request -> Row], NEW r \in Request, NEW n \in Row,
           row' = [row EXCEPT ![r] = n]
    PROVE  (n.assigned => Assigned' = Assigned \cup {r}) /\ (n.assigned = row[r].assigned => Assigned' = Assigned)
BY DEF Assigned

LEMMA LinkedMaps ==
    ASSUME row \in [Request -> Row], NEW r \in Request, NEW n \in Row,
           row' = [row EXCEPT ![r] = n]
    PROVE  (n.linked => Linked' = Linked \cup {r}) /\ (n.linked = row[r].linked => Linked' = Linked)
BY DEF Linked

LEMMA PaidMaps ==
    ASSUME row \in [Request -> Row], NEW r \in Request, NEW n \in Row,
           row' = [row EXCEPT ![r] = n]
    PROVE  (n.paidAt => Paid' = Paid \cup {r}) /\ (n.paidAt = row[r].paidAt => Paid' = Paid)
BY DEF Paid

LEMMA MoveMaps ==
    ASSUME pc \in [Request -> RequestPC], NEW r \in Request, NEW l, pc' = To(r, l)
    PROVE  Routing' = IF l \in {"route", "cancel", "assign"} THEN Routing \cup {r}
                                                              ELSE Routing \ {r}
BY DEF Routing, To

(* Nothing that the promise speaks of has changed.                         *)
LEMMA StutterMaps ==
    ASSUME UNCHANGED <<Status, Routing, PostedFor, Assigned, orders, Linked, Paid, written, sent>>
    PROVE  UNCHANGED Life!vars
BY DEF Status, Routing, PostedFor, Assigned, Linked, Paid, Life!vars, Life!deeds, Life!counts

(* Steps that leave the posts alone.                                       *)
LEMMA PostsStay ==
    ASSUME \A p \in Post : worker'[p].tx = worker[p].tx
    PROVE  PostedFor' = PostedFor
BY PostedStays DEF PostedFor

(* The columns a statement of a request leaves alone.                      *)
LEMMA EditsKeepPayment ==
    ASSUME NEW x \in Row, NEW k
    PROVE  /\ [x EXCEPT !.status = "CANCELLED"].paidAt = x.paidAt
           /\ [x EXCEPT !.status = "WAITING_PAYMENT", !.assigned = TRUE].paidAt = x.paidAt
           /\ [x EXCEPT !.linked = TRUE].paidAt = x.paidAt
           /\ [x EXCEPT !.key = k].paidAt = x.paidAt
BY DEF Row

(* The INSERT creates a transaction, one that is abandoned at once if the  *)
(* request was told of an error.                                           *)
LEMMA InsertMaps ==
    ASSUME IInv, NEW r \in Request, Insert(r)
    PROVE  Life!Create(r) \/ UNCHANGED Life!vars
<1>1. /\ row \in [Request -> Row] /\ pc \in [Request -> RequestPC]
      /\ pc[r] = "insert" /\ row[r] = NoRow
      /\ UNCHANGED <<orders, written, sent, PostedFor>>
    BY PostsStay DEF Insert, IInv, TypeOK, OwnRow, notifyVars
<1>2. r \notin Routing /\ Status[r] = "absent"
    BY <1>1, FreshRows DEF Routing, Status
<1>3. ASSUME row' = [row EXCEPT ![r] = NewRow]
      PROVE  /\ Status' = [Status EXCEPT ![r] = "NEW"]
             /\ UNCHANGED <<Assigned, Linked, Paid>>
  <2>1. /\ NewRow.assigned = NoRow.assigned /\ NewRow.linked = NoRow.linked
        /\ NewRow.paidAt = NoRow.paidAt /\ NewRow.status = "NEW" /\ NewRow \in Row
      BY FreshRows DEF NewRow, NoRow
  <2>2. Status' = [Status EXCEPT ![r] = "NEW"]
    <3>1. Status' = [Status EXCEPT ![r] = NewRow.status]
        BY <1>1, <1>3, <2>1, StatusMaps
    <3> QED
        BY <2>1, <3>1
  <2>3. UNCHANGED Assigned /\ UNCHANGED Linked /\ UNCHANGED Paid
    <3>1. UNCHANGED Assigned
        BY <1>1, <1>3, <2>1, AssignedMaps
    <3>2. UNCHANGED Linked
        BY <1>1, <1>3, <2>1, LinkedMaps
    <3>3. UNCHANGED Paid
        BY <1>1, <1>3, <2>1, PaidMaps
    <3> QED
        BY <3>1, <3>2, <3>3
  <2> QED
      BY <2>2, <2>3
<1>4. CASE row' = [row EXCEPT ![r] = NewRow] /\ pc' = To(r, "route")
  <2>1. Routing' = Routing \cup {r}
      BY <1>1, <1>4, MoveMaps
  <2> QED
      BY <1>1, <1>2, <1>3, <1>4, <2>1
      DEF Life!Create, Life!deeds, Life!counts, Status, Routing, PostedFor, Assigned, Linked, Paid
<1>5. CASE row' = [row EXCEPT ![r] = NewRow] /\ pc' = To(r, "failed")
  <2>1. Routing' = Routing
    <3>1. Routing' = Routing \ {r}
        BY <1>1, <1>5, MoveMaps
    <3> QED
        BY <1>2, <3>1
  <2> QED
      BY <1>1, <1>2, <1>3, <1>5, <2>1
      DEF Life!Create, Life!deeds, Life!counts, Status, Routing, PostedFor, Assigned, Linked, Paid
<1>6. CASE row' = row /\ pc' = To(r, "failed")
  <2>1. Routing' = Routing
    <3>1. Routing' = Routing \ {r}
        BY <1>1, <1>6, MoveMaps
    <3> QED
        BY <1>2, <3>1
  <2>2. UNCHANGED <<Status, Assigned, Linked, Paid>>
      BY <1>6 DEF Status, Assigned, Linked, Paid
  <2> QED
      BY <1>1, <2>1, <2>2, StutterMaps
<1> QED
    BY <1>4, <1>5, <1>6 DEF Insert, Statement, Goto

(* A statement by which the request lets go of the transaction assigns,     *)
(* refuses or abandons it; its row is NEW unless a post came first.        *)
LEMMA PlacingMaps ==
    ASSUME IInv, NEW r \in Request, Cancel(r) \/ Assign(r)
    PROVE  [Life!Next]_(Life!vars)
<1> DEFINE refused == [row[r] EXCEPT !.status = "CANCELLED"]
           given == [row[r] EXCEPT !.status = "WAITING_PAYMENT", !.assigned = TRUE]
<1>1. /\ row \in [Request -> Row] /\ pc \in [Request -> RequestPC] /\ row[r] \in Row
      /\ pc[r] \in {"cancel", "assign"} /\ (Posted(r) \/ row[r].status = "NEW")
      /\ UNCHANGED <<orders, written, sent, PostedFor>>
    BY PostsStay DEF Cancel, Assign, IInv, TypeOK, OwnRow, notifyVars
<1>2. r \in Routing /\ (Status[r] = "NEW" \/ r \in PostedFor)
    BY <1>1 DEF Routing, Status, PostedFor
<1>3. \E l \in {"storeKey", "fetch", "failed"} : pc' = To(r, l)
    BY DEF Cancel, Assign, Statement, Goto
<1>4. Routing' = Routing \ {r}
    BY <1>1, <1>3, MoveMaps
<1>5. /\ refused \in Row /\ refused.status = "CANCELLED" /\ refused.linked = row[r].linked
      /\ refused.assigned = row[r].assigned /\ refused.paidAt = row[r].paidAt
      /\ given \in Row /\ given.status = "WAITING_PAYMENT" /\ given.linked = row[r].linked
      /\ given.assigned /\ given.paidAt = row[r].paidAt
    BY <1>1, RowEdits, EditsKeepPayment
<1>6. \/ row' = row
      \/ Cancel(r) /\ row' = [row EXCEPT ![r] = refused]
      \/ Assign(r) /\ row' = [row EXCEPT ![r] = given]
    BY DEF Cancel, Assign, Statement
<1> HIDE DEF refused, given
<1>7. CASE row' = [row EXCEPT ![r] = refused]
  <2>1. Status' = [Status EXCEPT ![r] = "CANCELLED"] /\ UNCHANGED <<Assigned, Linked, Paid>>
    <3>1. Status' = [Status EXCEPT ![r] = refused.status]
        BY <1>1, <1>5, <1>7, StatusMaps
    <3>2. UNCHANGED Assigned
        BY <1>1, <1>5, <1>7, AssignedMaps
    <3>3. UNCHANGED Linked
        BY <1>1, <1>5, <1>7, LinkedMaps
    <3>4. UNCHANGED Paid
        BY <1>1, <1>5, <1>7, PaidMaps
    <3> QED
        BY <1>5, <3>1, <3>2, <3>3, <3>4
  <2>2. Life!Refuse(r)
      BY <1>1, <1>2, <1>4, <2>1
      DEF Life!Refuse, Life!Untouched, Life!deeds, Life!counts, Status, Routing, PostedFor, Assigned, Linked, Paid
  <2> QED
      BY <2>2 DEF Life!Next
<1>8. CASE row' = [row EXCEPT ![r] = given]
  <2>1. /\ Status' = [Status EXCEPT ![r] = "WAITING_PAYMENT"] /\ Assigned' = Assigned \cup {r}
        /\ UNCHANGED <<Linked, Paid>>
    <3>1. Status' = [Status EXCEPT ![r] = given.status]
        BY <1>1, <1>5, <1>8, StatusMaps
    <3>2. Assigned' = Assigned \cup {r}
        BY <1>1, <1>5, <1>8, AssignedMaps
    <3>3. UNCHANGED Linked
        BY <1>1, <1>5, <1>8, LinkedMaps
    <3>4. UNCHANGED Paid
        BY <1>1, <1>5, <1>8, PaidMaps
    <3> QED
        BY <1>5, <3>1, <3>2, <3>3, <3>4
  <2>2. Life!Assign(r)
      BY <1>1, <1>2, <1>4, <2>1
      DEF Life!Assign, Life!Untouched, Life!counts, Status, Routing, PostedFor, Assigned, Linked, Paid
  <2> QED
      BY <2>2 DEF Life!Next
<1>9. CASE row' = row
  <2>1. UNCHANGED <<Status, Assigned, Linked, Paid>>
      BY <1>9 DEF Status, Assigned, Linked, Paid
  <2>2. \E left \in SUBSET Routing : Routing' = Routing \ left
    <3>1. {r} \in SUBSET Routing
        BY <1>2
    <3> QED
        BY <1>4, <3>1
  <2>3. Life!Abandon
      BY <1>1, <2>1, <2>2
      DEF Life!Abandon, Life!deeds, Life!counts, Status, Routing, PostedFor, Assigned, Linked, Paid
  <2> QED
      BY <2>3 DEF Life!Next
<1> QED
    BY <1>6, <1>7, <1>8, <1>9

(* Saving the order's id links the transaction; storing the key changes    *)
(* nothing that the promise speaks of.                                     *)
LEMMA LaterStatementMaps ==
    ASSUME IInv, SavesOrders, NEW r \in Request, SaveOrder(r) \/ StoreKey(r)
    PROVE  [Life!Next]_(Life!vars)
<1> DEFINE saved == [row[r] EXCEPT !.linked = TRUE]
           keyed == [row[r] EXCEPT !.key = KeyOf[r]]
<1>1. /\ row \in [Request -> Row] /\ pc \in [Request -> RequestPC] /\ row[r] \in Row
      /\ pc[r] \in {"save", "storeKey"} /\ KeyOf[r] \in Key \cup {NoKey}
      /\ UNCHANGED <<orders, written, sent, PostedFor>>
    BY PostsStay DEF SaveOrder, StoreKey, IInv, TypeOK, notifyVars
<1>2. Routing' = Routing
  <2>1. PICK l \in {"storeKey", "done"} : pc' = To(r, l)
      BY DEF SaveOrder, StoreKey, Statement, Goto
  <2>2. r \notin Routing
      BY <1>1 DEF Routing
  <2>3. Routing' = Routing \ {r}
      BY <1>1, <2>1, MoveMaps
  <2> QED
      BY <2>2, <2>3
<1>3. /\ saved \in Row /\ saved.status = row[r].status /\ saved.linked
      /\ saved.assigned = row[r].assigned /\ saved.paidAt = row[r].paidAt
      /\ keyed \in Row /\ keyed.status = row[r].status /\ keyed.linked = row[r].linked
      /\ keyed.assigned = row[r].assigned /\ keyed.paidAt = row[r].paidAt
  <2>1. /\ saved \in Row /\ saved.status = row[r].status /\ saved.linked
        /\ saved.assigned = row[r].assigned
      BY <1>1, RowEdits
  <2>2. keyed \in Row
      BY <1>1 DEF Row
  <2>3. /\ keyed.status = row[r].status /\ keyed.linked = row[r].linked
        /\ keyed.assigned = row[r].assigned
      BY <1>1 DEF Row
  <2> QED
      BY <1>1, <2>1, <2>2, <2>3, EditsKeepPayment
<1>4. \/ row' = row
      \/ SaveOrder(r) /\ row' = [row EXCEPT ![r] = saved]
      \/ StoreKey(r) /\ row' = [row EXCEPT ![r] = keyed]
    BY DEF SaveOrder, StoreKey, Statement
<1> HIDE DEF saved, keyed
<1>6. CASE SaveOrder(r) /\ row' = [row EXCEPT ![r] = saved]
  <2>1. UNCHANGED <<Status, Assigned, Paid>> /\ Linked' = Linked \cup {r}
    <3>1. UNCHANGED Status
        BY <1>1, <1>3, <1>6, StatusMaps
    <3>2. UNCHANGED Assigned
        BY <1>1, <1>3, <1>6, AssignedMaps
    <3>3. Linked' = Linked \cup {r}
        BY <1>1, <1>3, <1>6, LinkedMaps
    <3>4. UNCHANGED Paid
        BY <1>1, <1>3, <1>6, PaidMaps
    <3> QED
        BY <3>1, <3>2, <3>3, <3>4
  <2>2. r \in orders
      BY <1>6 DEF SaveOrder, SavesOrders
  <2>3. Life!Link(r)
      BY <1>1, <1>2, <2>1, <2>2
      DEF Life!Link, Life!counts, Status, Routing, PostedFor, Assigned, Linked, Paid
  <2> QED
      BY <2>3 DEF Life!Next
<1>7. CASE row' = [row EXCEPT ![r] = keyed]
  <2>1. UNCHANGED <<Status, Assigned, Linked, Paid>>
    <3>1. UNCHANGED Status
        BY <1>1, <1>3, <1>7, StatusMaps
    <3>2. UNCHANGED Assigned
        BY <1>1, <1>3, <1>7, AssignedMaps
    <3>3. UNCHANGED Linked
        BY <1>1, <1>3, <1>7, LinkedMaps
    <3>4. UNCHANGED Paid
        BY <1>1, <1>3, <1>7, PaidMaps
    <3> QED
        BY <3>1, <3>2, <3>3, <3>4
  <2> QED
      BY <1>1, <1>2, <2>1, StutterMaps
<1>8. CASE row' = row
  <2>1. UNCHANGED <<Status, Assigned, Linked, Paid>>
      BY <1>8 DEF Status, Assigned, Linked, Paid
  <2> QED
      BY <1>1, <1>2, <2>1, StutterMaps
<1> QED
    BY <1>4, <1>6, <1>7, <1>8

(* The other statements of a request move it before or after its routing;  *)
(* one of them may make the provider hold an order.                        *)
LEMMA RequestMaps ==
    ASSUME IInv, SavesOrders, NEW r \in Request, Begin(r) \/ RequestStep(r)
    PROVE  [Life!Next]_(Life!vars)
<1>1. pc \in [Request -> RequestPC]
    BY DEF IInv, TypeOK
<1>2. CASE Insert(r)
    BY <1>2, InsertMaps DEF Life!Next
<1>3. CASE Cancel(r) \/ Assign(r) \/ SaveOrder(r) \/ StoreKey(r)
    BY <1>3, PlacingMaps, LaterStatementMaps
<1>4. CASE Begin(r) \/ CheckKey(r) \/ Route(r) \/ FetchProvider(r) \/ CallProvider(r)
  <2>1. UNCHANGED <<row, written, sent, worker>>
      BY <1>4 DEF Begin, CheckKey, Route, FetchProvider, CallProvider, notifyVars
  <2>2. UNCHANGED <<Status, Assigned, Linked, Paid, PostedFor>>
      BY <2>1, PostsStay DEF Status, Assigned, Linked, Paid
  <2>3. Routing' = Routing
    <3>1. CASE Route(r)
      <4>1. r \in Routing
          BY <3>1 DEF Route, Routing
      <4>2. PICK l \in {"assign", "cancel"} : pc' = To(r, l)
          BY <3>1 DEF Route, Goto
      <4>3. Routing' = Routing \cup {r}
          BY <1>1, <4>2, MoveMaps
      <4> QED
          BY <4>1, <4>3
    <3>2. CASE ~Route(r)
      <4>1. r \notin Routing
          BY <1>4, <3>2 DEF Begin, CheckKey, FetchProvider, CallProvider, Routing
      <4>2. PICK l \in {"check", "insert", "done", "call", "failed", "save", "storeKey"} :
                pc' = To(r, l)
          BY <1>4, <3>2 DEF Begin, CheckKey, FetchProvider, CallProvider, Goto
      <4>3. Routing' = Routing \ {r}
          BY <1>1, <4>2, MoveMaps
      <4> QED
          BY <4>1, <4>3
    <3> QED
        BY <3>1, <3>2
  <2>4. CASE UNCHANGED orders
      BY <2>1, <2>2, <2>3, <2>4, StutterMaps
  <2>5. CASE orders' # orders
    <3>1. orders' = orders \cup {r} /\ pc[r] = "call"
        BY <1>4, <2>5 DEF Begin, CheckKey, Route, FetchProvider, CallProvider
    <3>2. r \in Assigned
        BY <3>1 DEF IInv, OwnRow, Assigned
    <3>3. Life!Order(r)
        BY <2>1, <2>2, <2>3, <3>1, <3>2
        DEF Life!Order, Life!counts, Status, Routing, PostedFor, Assigned, Linked, Paid
    <3> QED
        BY <3>3 DEF Life!Next
  <2> QED
      BY <2>4, <2>5
<1> QED
    BY <1>2, <1>3, <1>4 DEF RequestStep

(* An update is a post's, or settles a transaction that was assigned.      *)
LEMMA WriteMaps ==
    ASSUME IInv, NEW w \in Worker, WriteStatus(w)
    PROVE  [Life!Next]_(Life!vars)
<1>1. /\ worker[w].tx \in Request /\ worker[w].status \in TxStatus
      /\ worker[w].status \in Asked(w) /\ (w \in Post \/ Known(worker[w].tx))
    BY AllSound DEF WriteStatus, Sound, Asked, TxStatus
<1> SUFFICES ASSUME NEW t \in Request, NEW u \in TxStatus, t = worker[w].tx,
                    u = worker[w].status
             PROVE  [Life!Next]_(Life!vars)
    BY <1>1
<1> DEFINE n == Settled(row[t], u)
<1>2. row \in [Request -> Row] /\ row[t] \in Row
    BY DEF IInv, TypeOK
<1>3. UNCHANGED <<pc, orders, sent, PostedFor>>
  <2>1. \A p \in Post : worker[p] \in WorkerState /\ worker[w] \in WorkerState
      BY AllSound DEF Worker
  <2>2. Ended(w, "error").tx = worker[w].tx /\ [worker[w] EXCEPT !.pc = "notify"].tx = worker[w].tx
      BY <2>1, AllSound, EndedEffect DEF WorkerState
  <2>3. \A p \in Post : worker'[p].tx = worker[p].tx
      BY <2>2 DEF WriteStatus, IInv, TypeOK, Worker
  <2> QED
      BY <2>3, PostsStay DEF WriteStatus, requestVars
<1>4. Routing' = Routing
    BY <1>3 DEF Routing
<1>5. \/ UNCHANGED <<row, written>>
      \/ row' = [row EXCEPT ![t] = n] /\ written' = More(written, t, u)
    BY DEF WriteStatus, Written
<1>6. /\ n \in Row /\ n.status = u /\ n.assigned = row[t].assigned /\ n.linked = row[t].linked
      /\ n.paidAt = IF u = "PAID" THEN TRUE ELSE row[t].paidAt
    BY <1>2 DEF Settled, Row
<1>7. CASE UNCHANGED <<row, written>>
  <2>1. UNCHANGED <<Status, Assigned, Linked, Paid>>
      BY <1>7 DEF Status, Assigned, Linked, Paid
  <2> QED
      BY <1>3, <1>4, <1>7, <2>1, StutterMaps
<1>8. CASE row' = [row EXCEPT ![t] = n] /\ written' = More(written, t, u)
  <2> HIDE DEF n
  <2>1. Status' = [Status EXCEPT ![t] = n.status]
      BY <1>2, <1>6, <1>8, StatusMaps
  <2>2. UNCHANGED Assigned
      BY <1>2, <1>6, <1>8, AssignedMaps
  <2>3. UNCHANGED Linked
      BY <1>2, <1>6, <1>8, LinkedMaps
  <2>4. Paid' = IF u = "PAID" THEN Paid \cup {t} ELSE Paid
    <3>1. CASE u = "PAID"
        BY <1>2, <1>6, <1>8, <3>1, PaidMaps
    <3>2. CASE u # "PAID"
        BY <1>2, <1>6, <1>8, <3>2, PaidMaps
    <3> QED
        BY <3>1, <3>2
  <2>5. t \in PostedFor \/ (t \in Assigned /\ u \in FinalStatus)
      BY <1>1 DEF Known, Posted, PostedFor, Assigned, Asked
  <2>6. Life!Update(t, u)
      BY <1>3, <1>4, <1>6, <1>8, <2>1, <2>2, <2>3, <2>4, <2>5
      DEF Life!Update, More, Status, Routing, PostedFor, Assigned, Linked, Paid
  <2>7. u \in FinalStatus \cup PostStatus
      BY <1>1 DEF Asked
  <2> QED
      BY <2>6, <2>7 DEF Life!Next
<1> QED
    BY <1>5, <1>7, <1>8

(* A callback that is sent tells of an update that none was sent for: the  *)
(* goroutine that sends it still counts among those that are pending.      *)
LEMMA NotifyMaps ==
    ASSUME IInv, NotifiedState, NEW r \in Request, NEW s \in FinalStatus, Notify(r, s)
    PROVE  [Life!Next]_(Life!vars)
<1>1. /\ UNCHANGED <<row, pc, orders, written, worker>> /\ pending[r][s] > 0
      /\ sent' = More(sent, r, s) \/ sent' = sent
    BY DEF Notify, requestVars
<1>2. UNCHANGED <<Status, Routing, PostedFor, Assigned, Linked, Paid>>
    BY <1>1, PostsStay DEF Status, Routing, Assigned, Linked, Paid
<1>3. CASE sent' = sent
    BY <1>1, <1>2, <1>3, StutterMaps
<1>4. CASE sent' = More(sent, r, s)
  <2>1. sent[r][s] \in Nat /\ pending[r][s] \in Nat /\ written[r][s] \in Nat
      BY CountedUp DEF IInv, TypeOK
  <2>2. Cardinality(Spawning(r, s)) \in Nat
      BY FS_CardinalityType DEF NotifiedState
  <2>3. sent[r][s] < written[r][s]
      BY <1>1, <2>1, <2>2 DEF NotifiedState, Accounted
  <2>4. Life!Tell(r, s)
      BY <1>1, <1>2, <1>4, <2>3
      DEF Life!Tell, Life!deeds, More, Status, Routing, PostedFor, Assigned, Linked, Paid
  <2> QED
      BY <2>4 DEF Life!Next
<1> QED
    BY <1>1, <1>3, <1>4

(* Every step of the server is a step of Lifecycle or a stutter.           *)
LEMMA StepsFollowLifecycle ==
    ASSUME IInv, SavesOrders, NotifiedState, [Next]_vars
    PROVE  [Life!Next]_(Life!vars)
<1>1. ASSUME NEW r \in Request, Begin(r) \/ RequestStep(r) PROVE [Life!Next]_(Life!vars)
    BY <1>1, RequestMaps
<1>2. ASSUME NEW w \in Worker, WriteStatus(w) PROVE [Life!Next]_(Life!vars)
    BY <1>2, WriteMaps
<1>3. ASSUME NEW r \in Request, NEW s \in FinalStatus, Notify(r, s)
      PROVE  [Life!Next]_(Life!vars)
    BY <1>3, NotifyMaps
<1>4. CASE Crash
  <2>1. UNCHANGED <<row, orders, written, sent>>
        /\ pc' = [r \in Request |-> IF InProgress(r) THEN "failed" ELSE pc[r]]
      BY <1>4 DEF Crash
  <2>2. UNCHANGED <<Status, Assigned, Linked, Paid>>
      BY <2>1 DEF Status, Assigned, Linked, Paid
  <2>5. UNCHANGED PostedFor
    <3>1. \A w \in Worker : worker[w] \in WorkerState
        BY AllSound
    <3>2. \A w \in Worker : worker'[w].tx = worker[w].tx
        BY <1>4, <3>1, EndedEffect DEF Crash
    <3> QED
        BY <3>2, PostsStay DEF Worker
  <2>3. Routing' = Routing \ Routing
      BY <2>1 DEF Routing, InProgress
  <2>4. Life!Abandon
      BY <2>1, <2>2, <2>3, <2>5
      DEF Life!Abandon, Life!deeds, Life!counts, Status, Routing, PostedFor, Assigned, Linked, Paid
  <2> QED
      BY <2>4 DEF Life!Next
<1>5. CASE \/ \E r \in Request : Age(r)
           \/ \E w \in Worker : SpawnNotify(w)
           \/ \E h \in Hook : Arrive(h) \/ Lookup(h)
           \/ QueryDue \/ NextDue \/ UNCHANGED vars
  <2>1. UNCHANGED <<row, pc, orders, written, sent>>
      BY <1>5 DEF Age, SpawnNotify, Arrive, Lookup, QueryDue, NextDue, vars, requestVars, notifyVars
  <2>2. UNCHANGED <<Status, Routing, Assigned, Linked, Paid>>
      BY <2>1 DEF Status, Routing, Assigned, Linked, Paid
  <2>3. UNCHANGED PostedFor
    <3>1. ASSUME NEW w \in Worker, SpawnNotify(w)
          PROVE  \A p \in Post : worker'[p].tx = worker[p].tx
        BY <3>1, AllSound, EndedEffect DEF SpawnNotify, IInv, TypeOK, Worker
    <3>2. ASSUME NEW h \in Hook, Arrive(h) \/ Lookup(h)
          PROVE  \A p \in Post : worker'[p].tx = worker[p].tx
        BY <3>2 DEF Arrive, Lookup, IInv, TypeOK, Worker
    <3>3. CASE NextDue
        BY <3>3, PostsStay DEF NextDue, IInv, TypeOK, Worker
    <3>4. CASE UNCHANGED worker
        BY <3>4, PostsStay
    <3> QED
        BY <1>5, <3>1, <3>2, <3>3, <3>4, PostsStay DEF Age, QueryDue, vars
  <2> QED
      BY <2>1, <2>2, <2>3, StutterMaps
<1>6. ASSUME NEW p \in Post, PostUpdate(p) PROVE [Life!Next]_(Life!vars)
  <2>1. PICK t \in Request, s \in PostStatus :
            /\ Exists(t)
            /\ worker' = [worker EXCEPT ![p] = Call("write", "post", t, s, FALSE)]
      BY <1>6 DEF PostUpdate
  <2>2. UNCHANGED <<row, pc, orders, written, sent>>
      BY <1>6 DEF PostUpdate, requestVars, notifyVars
  <2>3. UNCHANGED <<Status, Routing, Assigned, Linked, Paid>>
      BY <2>2 DEF Status, Routing, Assigned, Linked, Paid
  <2>4. PostedFor' = PostedFor \cup {t}
    <3>1. /\ p \in Worker /\ worker[p].tx = None /\ worker'[p].tx = t
          /\ \A v \in Post \ {p} : worker'[v] = worker[v]
        BY <1>6, <2>1 DEF PostUpdate, Call, IInv, TypeOK, KnownAfterwards, Worker
    <3>2. \A r \in Request : Posted(r)' <=> Posted(r) \/ r = t
        BY <3>1 DEF Posted
    <3> QED
        BY <3>2 DEF PostedFor
  <2>5. Status[t] # "absent"
      BY <2>1 DEF Status, Exists
  <2>6. Life!Ask(t)
      BY <2>2, <2>3, <2>4, <2>5
      DEF Life!Ask, Life!deeds, Life!counts, Status, Routing, PostedFor, Assigned, Linked, Paid
  <2> QED
      BY <2>6 DEF Life!Next
<1> QED
    BY <1>1, <1>2, <1>3, <1>4, <1>5, <1>6 DEF Next

(* The server keeps the promise of Lifecycle: it assigns, cancels, orders, *)
(* updates and tells of a transaction only when the promise allows it, for *)
(* any numbers of requests, workers, faults and crashes.                   *)
THEOREM DepositsFollowLifecycle == Spec => FollowsLifecycle
<1>1. Init => Life!Init
  <2>1. ASSUME Init PROVE \A p \in Post : worker[p].tx = None
      BY <2>1 DEF Init, Idle, Call, Worker
  <2>2. Init => {r \in Request : Posted(r)} = {}
      BY <2>1 DEF Posted
  <2> QED
      BY <2>2 DEF Init, Life!Init, NoRow, Zero
<1>2. Init => SavesOrders
    BY DEF Init, SavesOrders
<1>3. Spec => []NotifiedState
    BY CallbacksAccounted
<1> QED
    BY <1>1, <1>2, <1>3, NextSavesOrders, StepsFollowLifecycle, Invariance, PTL
    DEF Spec, FollowsLifecycle, Life!Spec
=============================================================================
