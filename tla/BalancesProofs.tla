--------------------------- MODULE BalancesProofs ---------------------------
(***************************************************************************)
(* A merchant's balance is never negative and the books balance, for any   *)
(* numbers of calls, accounts and faults.  The argument for the first:     *)
(* what a call has read was a balance once, so it is not negative, and the *)
(* value written is the one that the call checked, however stale it is.    *)
(* For the second: on an account whose calls never overlapped a call       *)
(* writes beside nobody, so what it has read is what is there.             *)
(***************************************************************************)
EXTENDS Balances, TLAPS, SumTheorems

(* What a call has read of a merchant's row; only providers freeze.        *)
SeenState ==
    \A o \in Op :
        /\ call[o].on \in Merchant => call[o].seen >= 0
        /\ call[o].kind # "add" => call[o].on \in Provider

IInv == TypeOK /\ SeenState /\ MerchantNeverNegative

LEMMA AtMoves ==
    ASSUME TypeOK, NEW o \in Op, NEW pc \in {"create", "write", "done", "failed"}, At(o, pc)
    PROVE  /\ call' \in [Op -> CallState]
           /\ \A p \in Op \ {o} : call'[p] = call[p]
           /\ call'[o].on = call[o].on /\ call'[o].kind = call[o].kind
           /\ call'[o].seen = call[o].seen /\ call'[o].pc = pc
<1>1. call \in [Op -> CallState]
    BY DEF TypeOK
<1> DEFINE moved == [call[o] EXCEPT !.pc = pc]
<1>2. /\ moved \in CallState /\ moved.pc = pc
      /\ moved.on = call[o].on /\ moved.kind = call[o].kind /\ moved.seen = call[o].seen
    BY <1>1 DEF CallState
<1>3. call' = [call EXCEPT ![o] = moved]
    BY <1>1 DEF At
<1> HIDE DEF moved
<1> QED
    BY <1>1, <1>2, <1>3

LEMMA FaultsBounded ==
    ASSUME TypeOK, UNCHANGED faults \/ Fault
    PROVE  faults' \in 0 .. MaxFaults
    BY BalancesAssumption DEF BalancesAssumption, TypeOK, Fault

LEMMA AmountsAreIntegers ==
    ASSUME NEW m \in Amount
    PROVE  m \in Nat /\ m > 0
<1>1. m \in Nat \ {0}
    BY BalancesAssumption, Zenon DEF BalancesAssumption
<1> QED
    BY <1>1

LEMMA RequestKeepsInv ==
    ASSUME IInv, NEW o \in Op, Request(o)
    PROVE  IInv'
<1>1. PICK a \in Account, kind \in Kind, m \in Amount, sign \in {1, -1} :
          /\ kind = "add" \/ (a \in Provider /\ sign = 1)
          /\ call' = [call EXCEPT ![o] = [pc |-> "select", on |-> a, kind |-> kind,
                                          amount |-> sign * m, seen |-> 0, seenFrozen |-> 0]]
          /\ shared' \subseteq shared \cup {a}
          /\ UNCHANGED <<row, balance, frozen, records, faults>>
    BY DEF Request
<1>2. sign * m \in Int
    BY <1>1, AmountsAreIntegers
<1>3. [pc |-> "select", on |-> a, kind |-> kind, amount |-> sign * m, seen |-> 0, seenFrozen |-> 0]
          \in CallState
    BY <1>2 DEF CallState
<1>4. call' \in [Op -> CallState]
    BY <1>1, <1>3 DEF IInv, TypeOK
<1>5. TypeOK'
  <2>1. \A p \in Op : call'[p].pc = "write" => call'[p].on \in row'
      BY <1>1 DEF IInv, TypeOK
  <2> QED
      BY <1>1, <1>4, <2>1 DEF IInv, TypeOK
<1>6. SeenState'
    BY <1>1 DEF IInv, TypeOK, SeenState
<1>7. MerchantNeverNegative'
    BY <1>1 DEF IInv, MerchantNeverNegative
<1> QED
    BY <1>5, <1>6, <1>7 DEF IInv

(* What is read of a merchant is not negative.                             *)
LEMMA SelectKeepsInv ==
    ASSUME IInv, NEW o \in Op, SelectBalance(o)
    PROVE  IInv'
<1>1. /\ UNCHANGED <<row, balance, frozen, records, shared>>
      /\ UNCHANGED faults \/ Fault
    BY DEF SelectBalance
<1>2. \/ At(o, "create") \/ At(o, "failed")
      \/ /\ call[o].on \in row
         /\ call' = [call EXCEPT ![o].pc = "write", ![o].seen = balance[call[o].on],
                                 ![o].seenFrozen = frozen[call[o].on]]
    BY DEF SelectBalance
<1>3. MerchantNeverNegative'
    BY <1>1 DEF IInv, MerchantNeverNegative
<1>4. CASE At(o, "create") \/ At(o, "failed")
  <2>1. PICK pc \in {"create", "failed"} : At(o, pc)
      BY <1>4
  <2>2. /\ call' \in [Op -> CallState]
        /\ \A p \in Op \ {o} : call'[p] = call[p]
        /\ call'[o].on = call[o].on /\ call'[o].kind = call[o].kind
        /\ call'[o].seen = call[o].seen /\ call'[o].pc # "write"
      BY <2>1, AtMoves DEF IInv
  <2>3. TypeOK'
      BY <1>1, <2>2, FaultsBounded DEF IInv, TypeOK
  <2>4. SeenState'
      BY <2>2 DEF IInv, SeenState
  <2> QED
      BY <1>3, <2>3, <2>4 DEF IInv
<1>5. CASE /\ call[o].on \in row
           /\ call' = [call EXCEPT ![o].pc = "write", ![o].seen = balance[call[o].on],
                                   ![o].seenFrozen = frozen[call[o].on]]
  <2>1. /\ call' \in [Op -> CallState]
        /\ \A p \in Op \ {o} : call'[p] = call[p]
        /\ call'[o].on = call[o].on /\ call'[o].kind = call[o].kind
        /\ call'[o].seen = balance[call[o].on]
    <3> DEFINE moved == [call[o] EXCEPT !.pc = "write", !.seen = balance[call[o].on],
                                        !.seenFrozen = frozen[call[o].on]]
    <3>1. call \in [Op -> CallState] /\ call[o] \in CallState
        BY DEF IInv, TypeOK
    <3>2. balance[call[o].on] \in Int /\ frozen[call[o].on] \in Int
        BY <3>1 DEF IInv, TypeOK, CallState
    <3>3. /\ moved \in CallState /\ moved.on = call[o].on /\ moved.kind = call[o].kind
          /\ moved.seen = balance[call[o].on]
        BY <3>1, <3>2 DEF CallState
    <3>4. call' = [call EXCEPT ![o] = moved]
        BY <1>5, <3>1
    <3> HIDE DEF moved
    <3> QED
        BY <3>1, <3>3, <3>4
  <2>2. TypeOK'
      BY <1>1, <1>5, <2>1, FaultsBounded DEF IInv, TypeOK
  <2>3. SeenState'
      BY <2>1 DEF IInv, SeenState, MerchantNeverNegative
  <2> QED
      BY <1>3, <2>2, <2>3 DEF IInv
<1> QED
    BY <1>2, <1>4, <1>5

LEMMA CreateKeepsInv ==
    ASSUME IInv, NEW o \in Op, CreateBalance(o)
    PROVE  IInv'
<1>1. /\ UNCHANGED <<balance, frozen, records, shared>>
      /\ UNCHANGED faults \/ Fault
      /\ row' \in {row, row \cup {call[o].on}}
      /\ At(o, "failed") \/ (At(o, "write") /\ call[o].on \in row')
    BY DEF CreateBalance
<1>2. PICK pc \in {"failed", "write"} : At(o, pc) /\ (pc = "write" => call[o].on \in row')
    BY <1>1
<1>3. /\ call' \in [Op -> CallState]
      /\ \A p \in Op \ {o} : call'[p] = call[p]
      /\ call'[o].on = call[o].on /\ call'[o].kind = call[o].kind
      /\ call'[o].seen = call[o].seen
      /\ call'[o].pc = "write" => call'[o].on \in row'
    BY <1>2, AtMoves DEF IInv
<1>4. row' \subseteq Account
    BY <1>1 DEF IInv, TypeOK, CallState
<1>5. TypeOK'
    BY <1>1, <1>3, <1>4, FaultsBounded DEF IInv, TypeOK
<1>6. SeenState' /\ MerchantNeverNegative'
    BY <1>1, <1>3 DEF IInv, SeenState, MerchantNeverNegative
<1> QED
    BY <1>5, <1>6 DEF IInv

(* A transaction that leaves a merchant no negative balance, or none at    *)
(* all, keeps the invariant.                                               *)
LEMMA StoreKeepsInv ==
    ASSUME IInv, NEW o \in Op, NEW b \in Int, NEW z \in Int, NEW delta \in Int, Store(o, b, z, delta),
           call[o].on \in Merchant => b >= 0
    PROVE  IInv'
<1> DEFINE a == call[o].on
           seen == call[o].seen
           rec == [amount |-> delta, before |-> seen, after |-> seen + delta]
<1>1. /\ UNCHANGED <<row, shared>>
      /\ UNCHANGED faults \/ Fault
      /\ At(o, "done") \/ At(o, "failed")
      /\ \/ UNCHANGED <<balance, frozen, records>>
         \/ /\ balance' = [balance EXCEPT ![a] = b]
            /\ frozen' = [frozen EXCEPT ![a] = z]
            /\ records' = [records EXCEPT ![a] = Append(@, rec)]
    BY DEF Store
<1>pc. PICK pc \in {"done", "failed"} : At(o, pc)
    BY <1>1
<1>2. /\ call' \in [Op -> CallState]
      /\ \A p \in Op \ {o} : call'[p] = call[p]
      /\ call'[o].on = call[o].on /\ call'[o].kind = call[o].kind
      /\ call'[o].seen = call[o].seen
    BY <1>pc, AtMoves DEF IInv
<1>3. call'[o].pc # "write"
    BY <1>pc, AtMoves DEF IInv
<1>4. a \in Account /\ seen \in Int
    BY DEF IInv, TypeOK, CallState
<1>5. rec \in Record
    BY <1>4 DEF Record
<1> HIDE DEF a, seen, rec
<1>6. balance' \in [Account -> Int] /\ frozen' \in [Account -> Int]
    BY <1>1 DEF IInv, TypeOK
<1>7. records' \in [Account -> Seq(Record)]
  <2>1. CASE records' = records
      BY <2>1 DEF IInv, TypeOK
  <2>2. CASE records' = [records EXCEPT ![a] = Append(@, rec)]
    <3>1. records[a] \in Seq(Record)
        BY <1>4 DEF IInv, TypeOK
    <3>2. Append(records[a], rec) \in Seq(Record)
        BY <1>5, <3>1
    <3> QED
        BY <2>2, <3>2 DEF IInv, TypeOK
  <2> QED
      BY <1>1, <2>1, <2>2
<1>8. TypeOK'
    BY <1>1, <1>2, <1>3, <1>6, <1>7, FaultsBounded DEF IInv, TypeOK
<1>9. SeenState'
    BY <1>2 DEF IInv, SeenState
<1>10. a \in Merchant => b >= 0
    BY DEF a
<1>11. MerchantNeverNegative'
  <2>1. balance \in [Account -> Int] /\ Merchant \subseteq Account
      BY DEF IInv, TypeOK, Account
  <2>2. CASE balance' = balance
      BY <2>2 DEF IInv, MerchantNeverNegative
  <2>3. CASE balance' = [balance EXCEPT ![a] = b]
      BY <1>4, <1>10, <2>1, <2>3 DEF IInv, MerchantNeverNegative
  <2> QED
      BY <1>1, <2>2, <2>3
<1> QED
    BY <1>8, <1>9, <1>11 DEF IInv

LEMMA RefuseKeepsInv ==
    ASSUME IInv, NEW o \in Op, Refuse(o)
    PROVE  IInv'
<1>1. At(o, "failed") /\ UNCHANGED <<row, balance, frozen, records, shared, faults>>
    BY DEF Refuse
<1>2. /\ call' \in [Op -> CallState]
      /\ \A p \in Op \ {o} : call'[p] = call[p]
      /\ call'[o].on = call[o].on /\ call'[o].kind = call[o].kind
      /\ call'[o].seen = call[o].seen /\ call'[o].pc # "write"
    BY <1>1, AtMoves DEF IInv
<1>3. TypeOK'
    BY <1>1, <1>2 DEF IInv, TypeOK
<1>4. SeenState' /\ MerchantNeverNegative'
    BY <1>1, <1>2 DEF IInv, SeenState, MerchantNeverNegative
<1> QED
    BY <1>3, <1>4 DEF IInv

(* The value that AddMerchant checked is the one it stores.                *)
LEMMA WritesKeepInv ==
    ASSUME IInv, NEW o \in Op,
           AddMerchant(o) \/ AddProvider(o) \/ FreezeAmount(o) \/ UnfreezeAmount(o)
    PROVE  IInv'
<1> DEFINE a == call[o].on
<1>1. /\ call[o].seen \in Int /\ call[o].amount \in Int /\ a \in Account
      /\ balance[a] \in Int /\ frozen[a] \in Int
    BY DEF IInv, TypeOK, CallState
<1>2. a \in Merchant => call[o].seen >= 0
    BY DEF IInv, SeenState
<1>3. CASE AddMerchant(o)
  <2>1. CASE call[o].amount < 0 /\ call[o].seen + call[o].amount < 0
      BY <1>3, <2>1, RefuseKeepsInv DEF AddMerchant
  <2>2. CASE ~(call[o].amount < 0 /\ call[o].seen + call[o].amount < 0)
    <3>1. Store(o, call[o].seen + call[o].amount, frozen[a], call[o].amount) /\ a \in Merchant
        BY <1>3, <2>2 DEF AddMerchant, Writes
    <3>2. call[o].seen + call[o].amount \in Int /\ call[o].seen + call[o].amount >= 0
        BY <1>1, <1>2, <2>2, <3>1
    <3> QED
        BY <1>1, <3>1, <3>2, StoreKeepsInv
  <2> QED
      BY <2>1, <2>2
<1>4. CASE AddProvider(o)
  <2>1. Store(o, call[o].seen + call[o].amount, frozen[a], call[o].amount) /\ a \notin Merchant
      BY <1>4, BalancesAssumption DEF AddProvider, Writes, BalancesAssumption
  <2>2. call[o].seen + call[o].amount \in Int
      BY <1>1
  <2> QED
      BY <1>1, <2>1, <2>2, StoreKeepsInv
<1>5. CASE FreezeAmount(o)
  <2>1. Refuse(o) \/ Store(o, balance[a] - call[o].amount, frozen[a] + call[o].amount, -call[o].amount)
      BY <1>5 DEF FreezeAmount
  <2>2. a \notin Merchant
      BY <1>5, BalancesAssumption DEF FreezeAmount, Writes, BalancesAssumption
  <2>3. balance[a] - call[o].amount \in Int /\ frozen[a] + call[o].amount \in Int /\ -call[o].amount \in Int
      BY <1>1
  <2> QED
      BY <2>1, <2>2, <2>3, StoreKeepsInv, RefuseKeepsInv
<1>6. CASE UnfreezeAmount(o)
  <2>1. Refuse(o) \/ Store(o, balance[a] + call[o].amount, frozen[a] - call[o].amount, call[o].amount)
      BY <1>6 DEF UnfreezeAmount
  <2>2. a \notin Merchant
      BY <1>6, BalancesAssumption DEF UnfreezeAmount, Writes, BalancesAssumption
  <2>3. balance[a] + call[o].amount \in Int /\ frozen[a] - call[o].amount \in Int
      BY <1>1
  <2> QED
      BY <1>1, <2>1, <2>2, <2>3, StoreKeepsInv, RefuseKeepsInv
<1> QED
    BY <1>3, <1>4, <1>5, <1>6

LEMMA InitHasInv == Init => IInv
<1> SUFFICES ASSUME Init PROVE IInv
    OBVIOUS
<1>1. (CHOOSE a \in Account : TRUE) \in Account
    BY BalancesAssumption DEF BalancesAssumption
<1>2. call \in [Op -> CallState] /\ \A o \in Op : call[o].pc = "idle" /\ call[o].seen = 0
                                                /\ call[o].kind = "add"
    BY <1>1 DEF Init, CallState, Kind
<1>3. TypeOK
    BY <1>2, BalancesAssumption DEF Init, TypeOK, BalancesAssumption
<1>4. SeenState /\ MerchantNeverNegative
    BY <1>2 DEF Init, SeenState, MerchantNeverNegative, Account
<1> QED
    BY <1>3, <1>4 DEF IInv

(* The inductive invariant holds in every reachable state.                 *)
THEOREM BalancesInvariance == Spec => []IInv
<1>1. IInv /\ [Next]_vars => IInv'
  <2> SUFFICES ASSUME IInv, [Next]_vars PROVE IInv'
      OBVIOUS
  <2>1. ASSUME NEW o \in Op, Request(o) \/ SelectBalance(o) \/ CreateBalance(o) PROVE IInv'
      BY <2>1, RequestKeepsInv, SelectKeepsInv, CreateKeepsInv
  <2>2. ASSUME NEW o \in Op, AddMerchant(o) \/ AddProvider(o) \/ FreezeAmount(o) \/ UnfreezeAmount(o)
        PROVE  IInv'
      BY <2>2, WritesKeepInv
  <2>3. CASE UNCHANGED vars
      BY <2>3 DEF vars, IInv, TypeOK, SeenState, MerchantNeverNegative
  <2> QED
      BY <2>1, <2>2, <2>3 DEF Next
<1> QED
    BY <1>1, InitHasInv, PTL DEF Spec

(* Every variable keeps its type; a call that writes has a row to write.   *)
THEOREM BalancesTypes == Spec => []TypeOK
<1>1. IInv => TypeOK
    BY DEF IInv
<1> QED
    BY <1>1, BalancesInvariance, PTL

(* However stale a read was, a merchant's balance is never negative.       *)
THEOREM MerchantsStayPositive == Spec => []MerchantNeverNegative
<1>1. IInv => MerchantNeverNegative
    BY DEF IInv
<1> QED
    BY <1>1, BalancesInvariance, PTL

-----------------------------------------------------------------------------
(* The books.  On an account whose calls never overlapped there is one     *)
(* call at a time, so what a writing call has read is what is there.       *)

OneCall == \A a \in Account \ shared : \A o, p \in Busy(a) : o = p

(* What call o has read; nobody else has written since.                    *)
Fresh(o) ==
    /\ call[o].pc \in {"select", "create"} => call[o].seen = 0 /\ call[o].seenFrozen = 0
    /\ call[o].pc = "write" /\ call[o].on \notin shared =>
          call[o].seen = balance[call[o].on] /\ call[o].seenFrozen = frozen[call[o].on]
    /\ call[o].kind # "add" => call[o].amount > 0

ReadsAreFresh == \A o \in Op : Fresh(o)

NewRowsAreEmpty == \A a \in Account \ row : balance[a] = 0 /\ frozen[a] = 0

Books == OneCall /\ ReadsAreFresh /\ NewRowsAreEmpty /\ BooksBalance

(* The total of a ledger grows by the amount of a new record.              *)
LEMMA TotalOfNothing == Total(<<>>) = 0
<1>1. DOMAIN [i \in DOMAIN <<>> |-> <<>>[i].amount] = {}
    OBVIOUS
<1> QED
    BY <1>1, SumOfNothing DEF Total, SumFunction

LEMMA TotalAppends ==
    ASSUME NEW ledger \in Seq(Record), NEW rec \in Record
    PROVE  Total(Append(ledger, rec)) = Total(ledger) + rec.amount
<1> DEFINE n == Len(ledger)
           longer == Append(ledger, rec)
           v == [i \in 1..n |-> ledger[i].amount]
           w == [i \in 1..(n + 1) |-> longer[i].amount]
<1>1. n \in Nat /\ DOMAIN ledger = 1..n /\ Len(longer) = n + 1 /\ DOMAIN longer = 1..(n + 1)
    OBVIOUS
<1>2. /\ \A i \in 1..n : longer[i] = ledger[i] /\ ledger[i] \in Record
      /\ longer[n + 1] = rec
    OBVIOUS
<1>3. Total(ledger) = SumFunctionOnSet(v, 1..n) /\ Total(longer) = SumFunctionOnSet(w, 1..(n + 1))
    BY <1>1 DEF Total, SumFunction
<1>4. \A i \in 1..n : v[i] \in Int /\ v[i] = w[i]
    BY <1>1, <1>2 DEF Record
<1>5. w[n + 1] = rec.amount /\ rec.amount \in Int
    BY <1>1, <1>2 DEF Record
<1>6. IsFiniteSet(1..n) /\ 1..(n + 1) = (1..n) \cup {n + 1} /\ n + 1 \notin 1..n
  <2> HIDE DEF n
  <2>1. IsFiniteSet(1..n)
      BY <1>1, FS_Interval
  <2>2. 1..(n + 1) = (1..n) \cup {n + 1} /\ n + 1 \notin 1..n
      BY <1>1
  <2> QED
      BY <2>1, <2>2
<1> HIDE DEF n, v, w, longer
<1>7. SumFunctionOnSet(v, 1..n) = SumFunctionOnSet(w, 1..n)
    BY <1>4, <1>6, SumAgrees
<1>8. \A i \in (1..n) \cup {n + 1} : w[i] \in Int
    BY <1>4, <1>5
<1>9. SumFunctionOnSet(w, (1..n) \cup {n + 1}) = SumFunctionOnSet(w, 1..n) + w[n + 1]
    BY <1>6, <1>8, SumAdds
<1>10. Total(longer) = Total(ledger) + rec.amount
    BY <1>3, <1>5, <1>6, <1>7, <1>9
<1> QED
    BY <1>10 DEF longer

(* A call that is not alone on its account shares it from its beginning.   *)
LEMMA RequestKeepsBooks ==
    ASSUME IInv, Books, NEW o \in Op, Request(o)
    PROVE  Books'
<1>1. PICK a \in Account, kind \in Kind, m \in Amount, sign \in {1, -1} :
          /\ kind = "add" \/ (a \in Provider /\ sign = 1)
          /\ call' = [call EXCEPT ![o] = [pc |-> "select", on |-> a, kind |-> kind,
                                          amount |-> sign * m, seen |-> 0, seenFrozen |-> 0]]
          /\ shared' = (IF Busy(a) = {} THEN shared ELSE shared \cup {a})
          /\ UNCHANGED <<row, balance, frozen, records, faults>>
    BY DEF Request
<1>2. call[o].pc = "idle"
    BY DEF Request
<1>3. /\ call'[o] = [pc |-> "select", on |-> a, kind |-> kind,
                     amount |-> sign * m, seen |-> 0, seenFrozen |-> 0]
      /\ \A p \in Op \ {o} : call'[p] = call[p]
    BY <1>1 DEF IInv, TypeOK
<1>4. \A b \in Account : Busy(b)' \subseteq Busy(b) \cup {o} /\ (o \in Busy(b)' => b = a)
    BY <1>3 DEF Busy
<1>5. OneCall'
  <2> SUFFICES ASSUME NEW b \in Account \ shared', NEW p \in Busy(b)', NEW q \in Busy(b)' PROVE p = q
      BY DEF OneCall
  <2>1. b \notin shared /\ (b = a => Busy(a) = {})
      BY <1>1
  <2>2. \A x, y \in Busy(b) : x = y
      BY <2>1 DEF Books, OneCall
  <2> QED
      BY <1>4, <2>1, <2>2
<1>6. ReadsAreFresh'
  <2> SUFFICES ASSUME NEW p \in Op PROVE Fresh(p)'
      BY DEF ReadsAreFresh
  <2>1. Fresh(p)
      BY DEF Books, ReadsAreFresh
  <2>2. CASE p = o
    <3>1. kind # "add" => sign * m > 0
        BY <1>1, AmountsAreIntegers
    <3> QED
        BY <1>3, <2>2, <3>1 DEF Fresh
  <2>3. CASE p # o
      BY <1>1, <1>3, <2>1, <2>3 DEF Fresh
  <2> QED
      BY <2>2, <2>3
<1>7. NewRowsAreEmpty' /\ BooksBalance'
    BY <1>1 DEF Books, NewRowsAreEmpty, BooksBalance
<1> QED
    BY <1>5, <1>6, <1>7 DEF Books

(* A step of call o that is busy, and of no other, leaves it alone where   *)
(* it was alone.                                                           *)
LEMMA MovesKeepOneCall ==
    ASSUME Books, NEW o \in Op, call[o].pc \in {"select", "create", "write"},
           call'[o].on = call[o].on, \A p \in Op \ {o} : call'[p] = call[p],
           UNCHANGED shared
    PROVE  OneCall'
<1>1. \A b \in Account : Busy(b)' \subseteq Busy(b)
    BY DEF Busy
<1> QED
    BY <1>1 DEF Books, OneCall

(* Reading writes nothing.                                                 *)
LEMMA SelectKeepsBooks ==
    ASSUME IInv, Books, NEW o \in Op, SelectBalance(o)
    PROVE  Books'
<1>1. UNCHANGED <<row, balance, frozen, records, shared>> /\ call[o].pc = "select"
    BY DEF SelectBalance
<1>2. NewRowsAreEmpty' /\ BooksBalance'
    BY <1>1 DEF Books, NewRowsAreEmpty, BooksBalance
<1>3. /\ call'[o].on = call[o].on
      /\ \A p \in Op \ {o} : call'[p] = call[p]
      /\ call'[o].kind = call[o].kind /\ call'[o].amount = call[o].amount
      /\ \/ /\ call'[o].pc \in {"create", "failed"}
            /\ call'[o].seen = call[o].seen /\ call'[o].seenFrozen = call[o].seenFrozen
         \/ /\ call'[o].pc = "write"
            /\ call'[o].seen = balance[call[o].on] /\ call'[o].seenFrozen = frozen[call[o].on]
    BY DEF SelectBalance, At, IInv, TypeOK, CallState
<1>4. OneCall'
    BY <1>1, <1>3, MovesKeepOneCall
<1>5. ReadsAreFresh'
    BY <1>1, <1>3 DEF Books, ReadsAreFresh, Fresh
<1> QED
    BY <1>2, <1>4, <1>5 DEF Books

(* A row that is created is empty, which is what the call goes on with.    *)
LEMMA CreateKeepsBooks ==
    ASSUME IInv, Books, NEW o \in Op, CreateBalance(o)
    PROVE  Books'
<1>1. /\ UNCHANGED <<balance, frozen, records, shared>> /\ call[o].pc = "create"
      /\ row \subseteq row'
    BY DEF CreateBalance
<1>2. NewRowsAreEmpty' /\ BooksBalance'
    BY <1>1 DEF Books, NewRowsAreEmpty, BooksBalance
<1>3. /\ call'[o].on = call[o].on
      /\ \A p \in Op \ {o} : call'[p] = call[p]
      /\ call'[o].kind = call[o].kind /\ call'[o].amount = call[o].amount
      /\ call'[o].seen = call[o].seen /\ call'[o].seenFrozen = call[o].seenFrozen
      /\ call'[o].pc = "failed" \/ (call'[o].pc = "write" /\ call[o].on \notin row)
    BY DEF CreateBalance, At, IInv, TypeOK, CallState
<1>4. OneCall'
    BY <1>1, <1>3, MovesKeepOneCall
<1>5. Fresh(o)'
  <2>1. Fresh(o) /\ call[o].on \in Account
      BY DEF Books, ReadsAreFresh, IInv, TypeOK, CallState
  <2> QED
      BY <1>1, <1>3, <2>1 DEF Fresh, Books, NewRowsAreEmpty
<1>6. ReadsAreFresh'
    BY <1>1, <1>3, <1>5 DEF Books, ReadsAreFresh, Fresh
<1> QED
    BY <1>2, <1>4, <1>6 DEF Books

(* What is left of the calls when o has ended.                             *)
LEMMA EndsKeepReads ==
    ASSUME IInv, Books, NEW o \in Op, call[o].pc = "write",
           NEW pc \in {"done", "failed"}, At(o, pc),
           UNCHANGED shared,
           \A a \in Account : a # call[o].on => balance'[a] = balance[a] /\ frozen'[a] = frozen[a]
    PROVE  OneCall' /\ ReadsAreFresh'
<1>1. /\ \A p \in Op \ {o} : call'[p] = call[p]
      /\ call'[o] = [call[o] EXCEPT !.pc = pc] /\ call'[o].on = call[o].on
      /\ call'[o].kind = call[o].kind /\ call'[o].amount = call[o].amount
      /\ call'[o].pc = pc
    BY DEF At, IInv, TypeOK, CallState
<1>2. OneCall'
    BY <1>1, MovesKeepOneCall
<1>3. ReadsAreFresh'
  <2> SUFFICES ASSUME NEW p \in Op PROVE Fresh(p)'
      BY DEF ReadsAreFresh
  <2>1. Fresh(p) /\ call[p].on \in Account /\ call[o].on \in Account
      BY DEF Books, ReadsAreFresh, IInv, TypeOK, CallState
  <2>2. CASE p = o
      BY <1>1, <2>1, <2>2 DEF Fresh
  <2>3. CASE p # o /\ call[p].on # call[o].on
      BY <1>1, <2>1, <2>3 DEF Fresh
  <2>4. CASE p # o /\ call[p].on = call[o].on
    <3>1. call[p].pc = "write" => call[p].on \in shared
        BY <2>1, <2>4 DEF Books, OneCall, Busy
    <3> QED
        BY <1>1, <2>1, <2>4, <3>1 DEF Fresh
  <2> QED
      BY <2>2, <2>3, <2>4
<1> QED
    BY <1>2, <1>3

LEMMA RefuseKeepsBooks ==
    ASSUME IInv, Books, NEW o \in Op, call[o].pc = "write", Refuse(o)
    PROVE  Books'
<1>1. At(o, "failed") /\ UNCHANGED <<row, balance, frozen, records, shared, faults>>
    BY DEF Refuse
<1>2. OneCall' /\ ReadsAreFresh'
    BY <1>1, EndsKeepReads
<1>3. NewRowsAreEmpty' /\ BooksBalance'
    BY <1>1 DEF Books, NewRowsAreEmpty, BooksBalance
<1> QED
    BY <1>2, <1>3 DEF Books

(* A transaction that changes the balance by what it records keeps the     *)
(* books.                                                                  *)
LEMMA StoreKeepsBooks ==
    ASSUME IInv, Books, NEW o \in Op, call[o].pc = "write",
           NEW b \in Int, NEW z \in Int, NEW delta \in Int, Store(o, b, z, delta),
           call[o].on \notin shared => b = balance[call[o].on] + delta /\ z >= 0
    PROVE  Books'
<1> DEFINE a == call[o].on
           seen == call[o].seen
           rec == [amount |-> delta, before |-> seen, after |-> seen + delta]
<1>1. /\ UNCHANGED <<row, shared>>
      /\ At(o, "done") \/ At(o, "failed")
      /\ \/ UNCHANGED <<balance, frozen, records>>
         \/ /\ balance' = [balance EXCEPT ![a] = b]
            /\ frozen' = [frozen EXCEPT ![a] = z]
            /\ records' = [records EXCEPT ![a] = Append(@, rec)]
    BY DEF Store
<1>2. a \in Account /\ seen \in Int /\ a \in row /\ records[a] \in Seq(Record)
    BY DEF IInv, TypeOK, CallState
<1>3. rec \in Record /\ rec.amount = delta /\ rec.after = seen + delta
    BY <1>2 DEF Record
<1>4. a \notin shared => /\ b = balance[a] + delta /\ z >= 0
                         /\ seen = balance[a] /\ balance[a] = Total(records[a])
    BY <1>2 DEF Books, ReadsAreFresh, Fresh, BooksBalance
<1> PICK pc \in {"done", "failed"} : At(o, pc)
    BY <1>1
<1> HIDE DEF a, seen, rec
<1>5. CASE UNCHANGED <<balance, frozen, records>>
  <2>1. OneCall' /\ ReadsAreFresh'
      BY <1>1, <1>5, EndsKeepReads
  <2>2. NewRowsAreEmpty' /\ BooksBalance'
      BY <1>1, <1>5 DEF Books, NewRowsAreEmpty, BooksBalance
  <2> QED
      BY <2>1, <2>2 DEF Books
<1>6. CASE /\ balance' = [balance EXCEPT ![a] = b]
           /\ frozen' = [frozen EXCEPT ![a] = z]
           /\ records' = [records EXCEPT ![a] = Append(@, rec)]
  <2>1. /\ balance'[a] = b /\ frozen'[a] = z /\ records'[a] = Append(records[a], rec)
        /\ \A c \in Account \ {a} :
              balance'[c] = balance[c] /\ frozen'[c] = frozen[c] /\ records'[c] = records[c]
      BY <1>2, <1>6 DEF IInv, TypeOK
  <2>2. OneCall' /\ ReadsAreFresh'
      BY <1>1, <2>1, EndsKeepReads DEF a
  <2>3. NewRowsAreEmpty'
      BY <1>1, <1>2, <2>1 DEF Books, NewRowsAreEmpty
  <2>4. BooksBalance'
    <3> SUFFICES ASSUME NEW c \in Account \ shared'
                 PROVE  /\ balance'[c] = Total(records'[c])
                        /\ records'[c] # <<>> => Last(records'[c]).after = balance'[c]
                        /\ frozen'[c] >= 0
        BY DEF BooksBalance
    <3>1. CASE c = a
      <4>1. /\ b = balance[a] + delta /\ z >= 0
            /\ seen = balance[a] /\ balance[a] = Total(records[a])
          BY <1>1, <1>4, <3>1
      <4>2. Total(records'[a]) = Total(records[a]) + delta
          BY <1>2, <1>3, <2>1, TotalAppends
      <4>3. Last(records'[a]) = rec
        <5>1. Len(Append(records[a], rec)) = Len(records[a]) + 1 /\ Len(records[a]) \in Nat
              /\ Append(records[a], rec)[Len(records[a]) + 1] = rec
            BY <1>2
        <5> QED
            BY <2>1, <5>1 DEF Last
      <4> QED
          BY <1>3, <2>1, <3>1, <4>1, <4>2, <4>3
    <3>2. CASE c # a
        BY <1>1, <2>1, <3>2 DEF Books, BooksBalance
    <3> QED
        BY <3>1, <3>2
  <2> QED
      BY <2>2, <2>3, <2>4 DEF Books
<1> QED
    BY <1>1, <1>5, <1>6

(* Every operation records what it does to the balance it has read.        *)
LEMMA WritesKeepBooks ==
    ASSUME IInv, Books, NEW o \in Op,
           AddMerchant(o) \/ AddProvider(o) \/ FreezeAmount(o) \/ UnfreezeAmount(o)
    PROVE  Books'
<1> DEFINE a == call[o].on
           m == call[o].amount
<1>1. call[o].pc = "write"
    BY DEF AddMerchant, AddProvider, FreezeAmount, UnfreezeAmount, Writes
<1>2. /\ call[o].seen \in Int /\ call[o].seenFrozen \in Int /\ m \in Int /\ a \in Account
      /\ balance[a] \in Int /\ frozen[a] \in Int
    BY DEF IInv, TypeOK, CallState
<1>3. a \notin shared => /\ call[o].seen = balance[a] /\ call[o].seenFrozen = frozen[a]
                         /\ frozen[a] >= 0
    BY <1>1, <1>2 DEF Books, ReadsAreFresh, Fresh, BooksBalance
<1>4. call[o].kind # "add" => m > 0
    BY DEF Books, ReadsAreFresh, Fresh
<1>5. CASE AddMerchant(o) \/ AddProvider(o)
  <2>1. Refuse(o) \/ Store(o, call[o].seen + m, frozen[a], m)
      BY <1>5 DEF AddMerchant, AddProvider
  <2>2. call[o].seen + m \in Int /\ (a \notin shared => call[o].seen + m = balance[a] + m)
      BY <1>2, <1>3
  <2> QED
      BY <1>1, <1>2, <1>3, <2>1, <2>2, StoreKeepsBooks, RefuseKeepsBooks
<1>6. CASE FreezeAmount(o)
  <2>1. Refuse(o) \/ Store(o, balance[a] - m, frozen[a] + m, -m)
      BY <1>6 DEF FreezeAmount
  <2>2. m > 0
      BY <1>4, <1>6 DEF FreezeAmount, Writes
  <2>3. /\ balance[a] - m \in Int /\ frozen[a] + m \in Int /\ -m \in Int
        /\ a \notin shared => balance[a] - m = balance[a] + (-m) /\ frozen[a] + m >= 0
      BY <1>2, <1>3, <2>2
  <2> QED
      BY <1>1, <2>1, <2>3, StoreKeepsBooks, RefuseKeepsBooks
<1>7. CASE UnfreezeAmount(o)
  <2>1. Refuse(o) \/ (Store(o, balance[a] + m, frozen[a] - m, m) /\ ~(call[o].seenFrozen < m))
      BY <1>7 DEF UnfreezeAmount
  <2>2. /\ balance[a] + m \in Int /\ frozen[a] - m \in Int
        /\ a \notin shared /\ ~(call[o].seenFrozen < m) => frozen[a] - m >= 0
      BY <1>2, <1>3
  <2> QED
      BY <1>1, <1>2, <2>1, <2>2, StoreKeepsBooks, RefuseKeepsBooks
<1> QED
    BY <1>5, <1>6, <1>7

LEMMA InitHasBooks == Init => Books
<1> SUFFICES ASSUME Init PROVE Books
    OBVIOUS
<1>1. \A o \in Op : /\ call[o].pc = "idle" /\ call[o].kind = "add"
    BY DEF Init
<1>2. OneCall /\ ReadsAreFresh
    BY <1>1 DEF OneCall, Busy, ReadsAreFresh, Fresh
<1>3. NewRowsAreEmpty /\ BooksBalance
    BY TotalOfNothing DEF Init, NewRowsAreEmpty, BooksBalance
<1> QED
    BY <1>2, <1>3 DEF Books

(* The invariant of the books holds in every reachable state.              *)
THEOREM BooksInvariance == Spec => []Books
<1>1. IInv /\ Books /\ [Next]_vars => Books'
  <2> SUFFICES ASSUME IInv, Books, [Next]_vars PROVE Books'
      OBVIOUS
  <2>1. ASSUME NEW o \in Op, Request(o) \/ SelectBalance(o) \/ CreateBalance(o) PROVE Books'
      BY <2>1, RequestKeepsBooks, SelectKeepsBooks, CreateKeepsBooks
  <2>2. ASSUME NEW o \in Op, AddMerchant(o) \/ AddProvider(o) \/ FreezeAmount(o) \/ UnfreezeAmount(o)
        PROVE  Books'
      BY <2>2, WritesKeepBooks
  <2>3. CASE UNCHANGED vars
      BY <2>3 DEF vars, Books, OneCall, Busy, ReadsAreFresh, Fresh, NewRowsAreEmpty, BooksBalance
  <2> QED
      BY <2>1, <2>2, <2>3 DEF Next
<1> QED
    BY <1>1, InitHasBooks, BalancesInvariance, PTL DEF Spec

(* On an account whose calls never overlapped the balance is the sum of    *)
(* its ledger, the last record shows it, and no negative amount is frozen. *)
THEOREM LedgersAddUp == Spec => []BooksBalance
<1>1. Books => BooksBalance
    BY DEF Books
<1> QED
    BY <1>1, BooksInvariance, PTL
=============================================================================
