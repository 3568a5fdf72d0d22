------------------------------ MODULE Balances ------------------------------
(***************************************************************************)
(* The balance services of providers and merchants (balances/).  Every     *)
(* operation reads the balance first, without a lock, and then updates it  *)
(* and writes its ledger record in one database transaction.  That         *)
(* transaction is one step here: the UPDATE holds the row until the commit *)
(* and nobody sees anything of it before.  The read is a step of its own,  *)
(* so what it saw may be stale when the UPDATE runs.                       *)
(***************************************************************************)
EXTENDS Integers, Sequences, SequencesExt

CONSTANTS
    Op,             \* calls of the services
    Merchant,       \* balance rows of merchants, one per casino and currency
    Provider,       \* balance rows of providers
    Amount,         \* the amounts asked for, in minor units
    MaxFaults       \* bound on failing statements

Account == Merchant \cup Provider

ASSUME BalancesAssumption ==
    /\ Merchant \cap Provider = {} /\ Account # {}
    /\ Amount \subseteq Nat \ {0}
    /\ MaxFaults \in Nat

VARIABLES
    row,        \* the balance rows that exist
    balance, frozen,
    records,    \* the ledger of each account
    call,       \* what each call is doing and what it has read
    shared,     \* accounts on which two calls have overlapped (history)
    faults

vars == <<row, balance, frozen, records, call, shared, faults>>

Kind == {"add", "freeze", "unfreeze"}
Record == [amount : Int, before : Int, after : Int]
CallState == [pc: {"idle", "select", "create", "write", "done", "failed"},
              on: Account, kind: Kind, amount: Int, seen: Int, seenFrozen: Int]

TypeOK ==
    /\ row \subseteq Account
    /\ balance \in [Account -> Int] /\ frozen \in [Account -> Int]
    /\ records \in [Account -> Seq(Record)]
    /\ call \in [Op -> CallState]
    /\ \A o \in Op : call[o].pc = "write" => call[o].on \in row
    /\ shared \subseteq Account
    /\ faults \in 0 .. MaxFaults

Init ==
    /\ row = {}
    /\ balance = [a \in Account |-> 0] /\ frozen = [a \in Account |-> 0]
    /\ records = [a \in Account |-> <<>>]
    /\ call = [o \in Op |-> [pc |-> "idle", on |-> CHOOSE a \in Account : TRUE, kind |-> "add",
                             amount |-> 0, seen |-> 0, seenFrozen |-> 0]]
    /\ shared = {}
    /\ faults = 0

Fault == faults < MaxFaults /\ faults' = faults + 1

At(o, label) == call' = [call EXCEPT ![o].pc = label]

Busy(a) == {o \in Op : call[o].on = a /\ call[o].pc \in {"select", "create", "write"}}

-----------------------------------------------------------------------------
(* A call of AddTransaction (with either sign), FreezeAmount or            *)
(* UnfreezeAmount; merchants have the first only.                          *)
Request(o) ==
    /\ call[o].pc = "idle"
    /\ \E a \in Account, kind \in Kind, m \in Amount, sign \in {1, -1} :
          /\ kind = "add" \/ (a \in Provider /\ sign = 1)
          /\ call' = [call EXCEPT ![o] = [pc |-> "select", on |-> a, kind |-> kind,
                                          amount |-> sign * m, seen |-> 0, seenFrozen |-> 0]]
          /\ shared' = IF Busy(a) = {} THEN shared ELSE shared \cup {a}
    /\ UNCHANGED <<row, balance, frozen, records, faults>>

(* GetOrCreateBalance: any error of the SELECT leads to the INSERT of an   *)
(* empty row.  UnfreezeAmount calls GetBalance, which creates none.        *)
SelectBalance(o) ==
    LET a == call[o].on
        missed == IF call[o].kind = "unfreeze" THEN "failed" ELSE "create"
    IN  /\ call[o].pc = "select"
        /\ \/ /\ a \in row
              /\ call' = [call EXCEPT ![o].pc = "write", ![o].seen = balance[a],
                                      ![o].seenFrozen = frozen[a]]
              /\ UNCHANGED faults
           \/ a \notin row /\ At(o, missed) /\ UNCHANGED faults
           \/ Fault /\ At(o, missed)
        /\ UNCHANGED <<row, balance, frozen, records, shared>>

(* Mutant: a failing INSERT is not reported.                               *)
CreateBalance_IgnoresError(o) ==
    LET a == call[o].on
    IN  /\ call[o].pc = "create"
        /\ \/ row' = row \cup {a} /\ UNCHANGED faults
           \/ Fault /\ UNCHANGED row
        /\ At(o, "write")
        /\ UNCHANGED <<balance, frozen, records, shared>>

(* The owner and currency are unique: the INSERT fails when the row exists. *)
CreateBalance(o) ==
    LET a == call[o].on
    IN  /\ call[o].pc = "create"
        /\ \/ a \notin row /\ row' = row \cup {a} /\ At(o, "write") /\ UNCHANGED faults
           \/ a \in row /\ At(o, "failed") /\ UNCHANGED <<row, faults>>
           \/ Fault /\ row' \in {row, row \cup {a}} /\ At(o, "failed")
        /\ UNCHANGED <<balance, frozen, records, shared>>

(* The transaction of o leaves b and z in its account, and a record.  When *)
(* a statement or the commit fails it has happened as a whole or not at all. *)
Store(o, b, z, delta) ==
    LET a == call[o].on
        seen == call[o].seen
        done == /\ balance' = [balance EXCEPT ![a] = b]
                /\ frozen' = [frozen EXCEPT ![a] = z]
                /\ records' = [records EXCEPT ![a] = Append(@,
                      [amount |-> delta, before |-> seen, after |-> seen + delta])]
    IN  /\ \/ done /\ At(o, "done") /\ UNCHANGED faults
           \/ Fault /\ At(o, "failed") /\ (done \/ UNCHANGED <<balance, frozen, records>>)
        /\ UNCHANGED <<row, shared>>

Refuse(o) == At(o, "failed") /\ UNCHANGED <<row, balance, frozen, records, shared, faults>>

Writes(o, kind, owners) ==
    call[o].pc = "write" /\ call[o].kind = kind /\ call[o].on \in owners

(* Mutant: the balance is changed by the amount, after a check of what was read. *)
AddMerchant_Relative(o) ==
    LET after == call[o].seen + call[o].amount
    IN  /\ Writes(o, "add", Merchant)
        /\ IF call[o].amount < 0 /\ after < 0 THEN Refuse(o)
           ELSE Store(o, balance[call[o].on] + call[o].amount, frozen[call[o].on], call[o].amount)

(* The merchant's balance is checked and then set to what was read plus the amount. *)
AddMerchant(o) ==
    LET after == call[o].seen + call[o].amount
    IN  /\ Writes(o, "add", Merchant)
        /\ IF call[o].amount < 0 /\ after < 0 THEN Refuse(o)
           ELSE Store(o, after, frozen[call[o].on], call[o].amount)

(* A provider's balance may become negative.                               *)
AddProvider(o) ==
    /\ Writes(o, "add", Provider)
    /\ Store(o, call[o].seen + call[o].amount, frozen[call[o].on], call[o].amount)

(* Freezing checks what was read and moves the amount within the row.      *)
FreezeAmount(o) ==
    LET a == call[o].on
        m == call[o].amount
    IN  /\ Writes(o, "freeze", Provider)
        /\ IF call[o].seen < m THEN Refuse(o)
           ELSE Store(o, balance[a] - m, frozen[a] + m, -m)

(* Mutant: the record of the unfreezing is written with the sign of a freeze. *)
UnfreezeAmount_WrongSign(o) ==
    LET a == call[o].on
        m == call[o].amount
    IN  /\ Writes(o, "unfreeze", Provider)
        /\ IF call[o].seenFrozen < m THEN Refuse(o)
           ELSE Store(o, balance[a] + m, frozen[a] - m, -m)

UnfreezeAmount(o) ==
    LET a == call[o].on
        m == call[o].amount
    IN  /\ Writes(o, "unfreeze", Provider)
        /\ IF call[o].seenFrozen < m THEN Refuse(o)
           ELSE Store(o, balance[a] + m, frozen[a] - m, m)

Next ==
    \E o \in Op :
        \/ Request(o) \/ SelectBalance(o) \/ CreateBalance(o)
        \/ AddMerchant(o) \/ AddProvider(o) \/ FreezeAmount(o) \/ UnfreezeAmount(o)

Spec == Init /\ [][Next]_vars

-----------------------------------------------------------------------------
(* Properties.                                                             *)

(* However stale a read was, a merchant's balance is never negative: the    *)
(* value written is the one that was checked.                              *)
MerchantNeverNegative == \A a \in Merchant : balance[a] >= 0

Total(ledger) == SumFunction([i \in DOMAIN ledger |-> ledger[i].amount])

(* On an account whose calls never overlapped the balance is the sum of    *)
(* its ledger, the last record shows it, and what is frozen was frozen     *)
(* from it, whatever failed in between.                                    *)
BooksBalance ==
    \A a \in Account \ shared :
        /\ balance[a] = Total(records[a])
        /\ records[a] # <<>> => Last(records[a]).after = balance[a]
        /\ frozen[a] >= 0
=============================================================================
