--------------------------- MODULE DisputesProofs ---------------------------
(***************************************************************************)
(* Disputes and traffic, for any numbers of requests, transactions,        *)
(* providers, deposits, faults and crashes.  The arguments: what a session *)
(* has written and not committed is determined by where it is in its       *)
(* statements, so a commit, which comes after the last of them, makes all  *)
(* of them visible, and a session that ends otherwise none; a session      *)
(* holds the rows it has updated; a deposit takes a provider that is       *)
(* eligible at that moment; and a webhook that comes while a dispute is    *)
(* open is still at its check, or has ended, as long as nothing failed.    *)
(* One more invariant builds on these: a provider is only told of a        *)
(* committed dispute; with it the promise of Blocking is kept.             *)
(***************************************************************************)
EXTENDS Disputes, TLAPS

Ended == {"done", "failed"}
Before == {"idle", "check", "begin", "insert"}
Writing == {"update", "record", "commit"}

(* The first n providers of a session.                                     *)
Upto(s, n) == {Targets(s)[i] : i \in 1 .. n}

(* What a session has written, by its label and its turn.                  *)
Moved(s) ==
    IF session[s].pc \notin Writing THEN {}
    ELSE Upto(s, IF session[s].pc = "record" THEN session[s].next ELSE session[s].next - 1)
Logged(s) == IF session[s].pc \notin Writing THEN {} ELSE Upto(s, session[s].next - 1)

(* Where a session is in its statements, and what it has written.          *)
OwnWork(s) ==
    /\ session[s].next \in 1 .. Len(Targets(s)) + 1
    /\ session[s].pc \in Before => session[s].next = 1
    /\ session[s].pc \in {"update", "record"} => session[s].next <= Len(Targets(s))
    /\ session[s].pc = "commit" => session[s].next = Len(Targets(s)) + 1
    /\ session[s].pc = "insert" => s \in Filing
    /\ session[s].pc \in Open /\ s \in Filing => ProviderOf[Of[s]] \in Provider
    /\ work[s].filed <=> s \in Filing /\ session[s].pc \in Writing
    /\ work[s].moved = Moved(s) /\ work[s].logged = Logged(s)

(* Two-phase locking: a session holds the row of every provider it has     *)
(* updated and not committed.                                              *)
LocksHeld == \A s \in Session : \A x \in work[s].moved : lock[x] = s

TypesOfSessions ==
    /\ session \in [Session -> SessionState]
    /\ lock \in [Provider -> Session \cup {None}]
    /\ work \in [Session -> Work]

(* What the statements of the sessions keep true.                          *)
WorkInv == TypesOfSessions /\ (\A s \in Session : OwnWork(s)) /\ LocksHeld

(* A session that has not ended has left no trace.                         *)
SessionsState ==
    \A s \in Session :
        session[s].pc \notin Ended =>
            /\ \A x \in Provider : <<s, x>> \notin log
            /\ s \in Filing => disputes[s] = None /\ notifier[s] = [pc |-> "none", tries |-> 0]

RunningMayTry == \A f \in Filing : notifier[f].pc = "run" => notifier[f].tries < MaxAttempts

ChosenIsNotShut ==
    \A d \in Deposit : route[d].pc \in {"confirm", "done"} => route[d].to \notin shut[d]

WarnedState ==
    \A f \in warned :
        /\ HasOpenDispute(Of[f])
        /\ faults = 0 => session[f].pc \in {"check", "done", "failed"}

TypesOfTables ==
    /\ disputes \in [Filing -> DisputeStatus \cup {None}]
    /\ enabled \subseteq Provider /\ active \subseteq Provider
    /\ log \subseteq Session \X Provider
    /\ faults \in 0 .. MaxFaults /\ crashes \in 0 .. MaxCrashes

TypesOfNotifier ==
    /\ notifier \in [Filing -> NotifierState]
    /\ \A f \in Filing : notifier[f].tries <= MaxAttempts

TypesOfRoute == route \in [Deposit -> RouteState] /\ shut \in [Deposit -> SUBSET Provider]

(* What the commits and the notifiers keep true.                           *)
SessionInv ==
    TypesOfTables /\ TypesOfNotifier /\ SessionsState /\ RunningMayTry /\ AllOrNothing

IInv ==
    /\ WorkInv /\ SessionInv
    /\ TypesOfRoute /\ ChosenIsNotShut
    /\ warned \subseteq Webhook /\ WarnedState

-----------------------------------------------------------------------------
(* Lemmas about the providers of a session.                                *)

LEMMA FilingsAreSessions == Webhook \subseteq Filing /\ Filing \subseteq Session /\ Toggle \subseteq Session
    BY DEF Filing, Session

LEMMA SessionsAreFilingsOrToggles ==
    ASSUME NEW s \in Session
    PROVE  /\ s \in Filing \/ s \in Toggle
           /\ ~(s \in Filing /\ s \in Toggle)
    BY DisputesAssumption DEF Session, DisputesAssumption

LEMMA LengthOfTargets ==
    ASSUME NEW s \in Session
    PROVE  /\ Len(Targets(s)) \in Nat
           /\ DOMAIN Targets(s) = 1 .. Len(Targets(s))
           /\ s \in Filing => Targets(s) = <<ProviderOf[Of[s]]>> /\ Len(Targets(s)) = 1
<1>1. CASE s \in Toggle
  <2>1. Targets(s) \in Seq(Provider) /\ s \notin Filing
      BY <1>1, DisputesAssumption DEF Targets, DisputesAssumption
  <2> QED
      BY <2>1
<1>2. CASE s \notin Toggle
  <2>1. Targets(s) = <<ProviderOf[Of[s]]>>
      BY <1>2 DEF Targets
  <2> QED
      BY <2>1
<1> QED
    BY <1>1, <1>2

(* The providers of a session are providers, unless a transaction has none. *)
LEMMA TargetsAreProviders ==
    ASSUME NEW s \in Session, s \in Filing => ProviderOf[Of[s]] \in Provider,
           NEW i \in 1 .. Len(Targets(s))
    PROVE  Targets(s)[i] \in Provider
<1>1. CASE s \in Toggle
  <2>1. Targets(s) \in Seq(Provider)
      BY <1>1, DisputesAssumption DEF Targets, DisputesAssumption
  <2> QED
      BY <2>1
<1>2. CASE s \notin Toggle
  <2>1. s \in Filing /\ Targets(s) = <<ProviderOf[Of[s]]>>
      BY <1>2 DEF Session, Targets
  <2> QED
      BY <2>1
<1> QED
    BY <1>1, <1>2

LEMMA UptoGrows ==
    ASSUME NEW s \in Session, NEW n \in Nat \ {0}
    PROVE  Upto(s, n) = Upto(s, n - 1) \cup {Targets(s)[n]}
<1>1. 1 .. n = (1 .. n - 1) \cup {n}
    OBVIOUS
<1> QED
    BY <1>1 DEF Upto

LEMMA UptoNoneAndAll ==
    ASSUME NEW s \in Session
    PROVE  Upto(s, 0) = {} /\ Upto(s, Len(Targets(s))) = ToSet(Targets(s))
<1>1. Upto(s, 0) = {}
    BY DEF Upto
<1>2. Upto(s, Len(Targets(s))) = ToSet(Targets(s))
    BY LengthOfTargets DEF Upto, ToSet
<1> QED
    BY <1>1, <1>2

(* The provider of a turn.                                                 *)
LEMMA CurrentIsProvider ==
    ASSUME WorkInv, NEW s \in Session, session[s].pc \in {"update", "record"}
    PROVE  Current(s) \in Provider /\ Current(s) = Targets(s)[session[s].next]
<1>1. OwnWork(s) /\ Len(Targets(s)) \in Nat
    BY LengthOfTargets DEF WorkInv
<1>2. session[s].next \in 1 .. Len(Targets(s))
    BY <1>1 DEF OwnWork
<1>3. s \in Filing => ProviderOf[Of[s]] \in Provider
    BY <1>1 DEF OwnWork, Open
<1> QED
    BY <1>2, <1>3, TargetsAreProviders DEF Current

LEMMA WantedIsCurrent ==
    ASSUME WorkInv, NEW s \in Session, Wanted(s) # None
    PROVE  session[s].pc = "update" /\ Wanted(s) = Current(s) /\ Wanted(s) \in Provider
    BY CurrentIsProvider DEF Wanted

-----------------------------------------------------------------------------
(* The statements of the sessions.                                         *)

LEMMA AtMoves ==
    ASSUME WorkInv, NEW s \in Session,
           NEW pc \in Before \cup Writing \cup Ended, At(s, pc)
    PROVE  /\ session' \in [Session -> SessionState]
           /\ \A t \in Session \ {s} : session'[t] = session[t]
           /\ session'[s].pc = pc /\ session'[s].next = session[s].next
<1>1. session \in [Session -> SessionState]
    BY DEF WorkInv, TypesOfSessions
<1> DEFINE moved == [session[s] EXCEPT !.pc = pc]
<1>2. moved \in SessionState /\ moved.pc = pc /\ moved.next = session[s].next
    BY <1>1 DEF SessionState, Before, Writing, Ended, Open
<1>3. session' = [session EXCEPT ![s] = moved]
    BY <1>1 DEF At
<1> HIDE DEF moved
<1> QED
    BY <1>1, <1>2, <1>3

(* A session that does nothing keeps its work, and whoever moves keeps the *)
(* others their locks.                                                     *)
LEMMA OneSessionMoves ==
    ASSUME WorkInv, TypesOfSessions', NEW s \in Session, OwnWork(s)',
           \A x \in work'[s].moved : lock'[x] = s,
           \A t \in Session \ {s} : /\ session'[t] = session[t] /\ work'[t] = work[t]
                                    /\ \A x \in Provider : lock[x] = t => lock'[x] = t
    PROVE  WorkInv'
<1>1. ASSUME NEW t \in Session, t # s PROVE OwnWork(t)'
  <2>1. session'[t] = session[t] /\ work'[t] = work[t] /\ Targets(t)' = Targets(t)
      BY <1>1 DEF Targets
  <2>2. OwnWork(t)
      BY DEF WorkInv
  <2>3. Moved(t)' = Moved(t) /\ Logged(t)' = Logged(t)
      BY <2>1 DEF Moved, Logged, Upto
  <2> QED
      BY <2>1, <2>2, <2>3 DEF OwnWork
<1>2. ASSUME NEW t \in Session, NEW x \in work'[t].moved PROVE lock'[x] = t
  <2>1. CASE t = s
      BY <1>2, <2>1
  <2>2. CASE t # s
    <3>1. work'[t] = work[t] /\ lock[x] = t
        BY <1>2, <2>2 DEF WorkInv, LocksHeld
    <3>2. x \in Provider
        BY <1>2, <3>1 DEF WorkInv, TypesOfSessions, Work
    <3> QED
        BY <2>2, <3>1, <3>2
  <2> QED
      BY <2>1, <2>2
<1>3. LocksHeld'
    BY <1>2 DEF LocksHeld
<1>4. \A t \in Session : OwnWork(t)'
    BY <1>1
<1> QED
    BY <1>3, <1>4 DEF WorkInv

(* Nothing is written before the first UPDATE.                             *)
LEMMA BeginningKeepsWork ==
    ASSUME WorkInv, NEW s \in Session, NEW pc \in Before \cup Ended, At(s, pc),
           session[s].pc \in {"idle", "check", "begin"},
           pc = "insert" => s \in Filing /\ ProviderOf[Of[s]] \in Provider,
           UNCHANGED <<work, lock>>
    PROVE  WorkInv'
<1>1. /\ session' \in [Session -> SessionState]
      /\ \A t \in Session \ {s} : session'[t] = session[t]
      /\ session'[s].pc = pc /\ session'[s].next = session[s].next
    BY AtMoves
<1>2. OwnWork(s) /\ session[s].next = 1 /\ Targets(s)' = Targets(s) /\ Len(Targets(s)) \in Nat
    BY LengthOfTargets DEF WorkInv, OwnWork, Before, Targets
<1>3. ~work[s].filed /\ work[s].moved = {} /\ work[s].logged = {}
    BY <1>2 DEF OwnWork, Moved, Logged, Writing
<1>4. Moved(s)' = {} /\ Logged(s)' = {} /\ session'[s].pc \notin Writing
    BY <1>1 DEF Moved, Logged, Writing, Before, Ended
<1>5. OwnWork(s)'
    BY <1>1, <1>2, <1>3, <1>4 DEF OwnWork, Before, Ended, Open
<1>6. TypesOfSessions'
    BY <1>1 DEF WorkInv, TypesOfSessions
<1>7. \A x \in work'[s].moved : lock'[x] = s
    BY <1>3
<1> QED
    BY <1>1, <1>5, <1>6, <1>7, OneSessionMoves

LEMMA FilingBegins ==
    ASSUME WorkInv, NEW f \in Filing, File(f) \/ CheckOpen(f) \/ BeginFile(f)
    PROVE  /\ f \in Session /\ session[f].pc \in {"idle", "check", "begin"}
           /\ \E pc \in Before \cup Ended :
                 At(f, pc) /\ (pc = "insert" => ProviderOf[Of[f]] \in Provider)
           /\ UNCHANGED <<disputes, enabled, active, log, notifier, crashes, lock, work>>
           /\ UNCHANGED faults \/ Fault
<1>1. ProviderOf[Of[f]] \in Provider \cup {None}
    BY DisputesAssumption DEF DisputesAssumption
<1>2. \E pc \in Before \cup Ended :
          At(f, pc) /\ (pc = "insert" => ProviderOf[Of[f]] \in Provider)
    BY <1>1 DEF File, CheckOpen, BeginFile, Before, Ended
<1> QED
    BY <1>2, FilingsAreSessions DEF File, CheckOpen, BeginFile

LEMMA FirstTurn ==
    ASSUME WorkInv, NEW g \in Toggle, BeginToggle(g)
    PROVE  WorkInv'
<1>1. g \in Session /\ g \notin Filing
    BY FilingsAreSessions, SessionsAreFilingsOrToggles
<1>2. Len(Targets(g)) \in Nat /\ Targets(g)' = Targets(g)
    BY <1>1, LengthOfTargets DEF Targets
<1>3. PICK pc \in {"update", "commit"} :
          At(g, pc) /\ pc = Turn(g, 1)
    BY DEF BeginToggle, Turn
<1>4. session[g].pc = "idle" /\ UNCHANGED <<work, lock>>
    BY DEF BeginToggle
<1>5. /\ session' \in [Session -> SessionState]
      /\ \A t \in Session \ {g} : session'[t] = session[t]
      /\ session'[g].pc = pc /\ session'[g].next = session[g].next
    BY <1>1, <1>3, AtMoves DEF Writing
<1>6. OwnWork(g) /\ session[g].next = 1
    BY <1>1, <1>4 DEF WorkInv, OwnWork, Before
<1>7. ~work[g].filed /\ work[g].moved = {} /\ work[g].logged = {}
    BY <1>1, <1>4, <1>6 DEF OwnWork, Moved, Logged, Writing
<1>8. Upto(g, 0)' = {}
    BY DEF Upto
<1>9. Moved(g)' = {} /\ Logged(g)' = {}
    BY <1>3, <1>5, <1>6, <1>8 DEF Moved, Logged, Writing
<1>10. OwnWork(g)'
    BY <1>1, <1>2, <1>3, <1>4, <1>5, <1>6, <1>7, <1>9 DEF OwnWork, Before, Turn
<1>11. TypesOfSessions'
    BY <1>4, <1>5 DEF WorkInv, TypesOfSessions
<1>12. \A x \in work'[g].moved : lock'[x] = g
    BY <1>4, <1>7
<1> QED
    BY <1>1, <1>4, <1>5, <1>10, <1>11, <1>12, OneSessionMoves

LEMMA InsertKeepsWork ==
    ASSUME WorkInv, NEW f \in Filing, InsertDispute(f)
    PROVE  WorkInv'
<1>1. f \in Session /\ Len(Targets(f)) = 1 /\ Targets(f)' = Targets(f)
    BY FilingsAreSessions, LengthOfTargets DEF Targets
<1>2. session[f].pc = "insert" /\ At(f, "update") /\ UNCHANGED lock
    BY DEF InsertDispute
<1>3. /\ session' \in [Session -> SessionState]
      /\ \A t \in Session \ {f} : session'[t] = session[t]
      /\ session'[f].pc = "update" /\ session'[f].next = session[f].next
    BY <1>1, <1>2, AtMoves DEF Writing
<1>4. OwnWork(f) /\ session[f].next = 1 /\ ProviderOf[Of[f]] \in Provider
    BY <1>1, <1>2 DEF WorkInv, OwnWork, Before, Open
<1>5. work \in [Session -> Work] /\ work[f].moved = {} /\ work[f].logged = {}
    BY <1>2, <1>4 DEF OwnWork, Moved, Logged, Writing, WorkInv, TypesOfSessions
<1> DEFINE w == [work[f] EXCEPT !.filed = TRUE]
<1>6. w \in Work /\ w.filed = TRUE /\ w.moved = {} /\ w.logged = {}
    BY <1>1, <1>5 DEF Work
<1>7. work' = [work EXCEPT ![f] = w]
    BY <1>1, <1>5 DEF InsertDispute
<1> HIDE DEF w
<1>8. work' \in [Session -> Work] /\ work'[f] = w /\ \A t \in Session \ {f} : work'[t] = work[t]
    BY <1>1, <1>5, <1>6, <1>7
<1>9. Upto(f, 0)' = {}
    BY DEF Upto
<1>10. Moved(f)' = {} /\ Logged(f)' = {}
    BY <1>3, <1>4, <1>9 DEF Moved, Logged, Writing
<1>11. OwnWork(f)'
    BY <1>1, <1>3, <1>4, <1>6, <1>8, <1>10 DEF OwnWork, Before, Writing
<1>12. TypesOfSessions'
    BY <1>2, <1>3, <1>8 DEF WorkInv, TypesOfSessions
<1>13. \A x \in work'[f].moved : lock'[x] = f
    BY <1>6, <1>8
<1> QED
    BY <1>1, <1>2, <1>3, <1>8, <1>11, <1>12, <1>13, OneSessionMoves

LEMMA UpdateKeepsWork ==
    ASSUME WorkInv, NEW s \in Session, UpdateProvider(s)
    PROVE  WorkInv'
<1> DEFINE n == session[s].next
           x == Wanted(s)
<1>1. /\ session[s].pc = "update" /\ x = Targets(s)[n] /\ x \in Provider
      /\ lock[x] \in {None, s}
    BY WantedIsCurrent, CurrentIsProvider DEF UpdateProvider
<1>2. /\ lock' = [lock EXCEPT ![x] = s] /\ At(s, "record")
      /\ work' = [work EXCEPT ![s].moved = @ \cup {x}]
    BY DEF UpdateProvider
<1> HIDE DEF x
<1>3. OwnWork(s) /\ Targets(s)' = Targets(s) /\ Len(Targets(s)) \in Nat
    BY LengthOfTargets DEF WorkInv, Targets
<1>4. n \in Nat \ {0} /\ n <= Len(Targets(s))
    BY <1>1, <1>3 DEF OwnWork
<1>5. /\ session' \in [Session -> SessionState]
      /\ \A t \in Session \ {s} : session'[t] = session[t]
      /\ session'[s].pc = "record" /\ session'[s].next = n
    BY <1>2, AtMoves DEF Writing
<1>6. /\ work \in [Session -> Work] /\ (work[s].filed <=> s \in Filing)
      /\ work[s].moved = Upto(s, n - 1) /\ work[s].logged = Upto(s, n - 1)
    BY <1>1, <1>3 DEF OwnWork, Moved, Logged, Writing, WorkInv, TypesOfSessions
<1> DEFINE w == [work[s] EXCEPT !.moved = @ \cup {x}]
<1>7. /\ w \in Work /\ w.filed = work[s].filed
      /\ w.moved = work[s].moved \cup {x} /\ w.logged = work[s].logged
    BY <1>1, <1>6 DEF Work
<1>8. work' = [work EXCEPT ![s] = w]
    BY <1>2, <1>6
<1> HIDE DEF w
<1>9. work' \in [Session -> Work] /\ work'[s] = w /\ \A t \in Session \ {s} : work'[t] = work[t]
    BY <1>6, <1>7, <1>8
<1>10. Upto(s, n) = Upto(s, n - 1) \cup {x}
    BY <1>1, <1>4, UptoGrows
<1>11. \A m : Upto(s, m)' = Upto(s, m)
    BY <1>3 DEF Upto
<1>12. Moved(s)' = Upto(s, n) /\ Logged(s)' = Upto(s, n - 1)
    BY <1>5, <1>11 DEF Moved, Logged, Writing
<1>13. OwnWork(s)'
    BY <1>1, <1>3, <1>4, <1>5, <1>6, <1>7, <1>9, <1>10, <1>12 DEF OwnWork, Before, Open, Writing
<1>14. /\ lock' \in [Provider -> Session \cup {None}] /\ lock'[x] = s
       /\ \A y \in Provider \ {x} : lock'[y] = lock[y]
    BY <1>1, <1>2 DEF WorkInv, TypesOfSessions
<1>15. \A y \in work'[s].moved : lock'[y] = s
  <2>1. \A y \in work[s].moved : lock[y] = s /\ y \in Provider
      BY <1>6 DEF WorkInv, LocksHeld, Work
  <2> QED
      BY <1>7, <1>9, <1>14, <2>1
<1>16. \A t \in Session \ {s}, y \in Provider : lock[y] = t => lock'[y] = t
  <2>1. None \notin Session
      BY DisputesAssumption DEF DisputesAssumption
  <2> QED
      BY <1>1, <1>14, <2>1
<1>17. TypesOfSessions'
    BY <1>5, <1>9, <1>14 DEF TypesOfSessions
<1> QED
    BY <1>5, <1>9, <1>13, <1>15, <1>16, <1>17, OneSessionMoves

LEMMA RecordKeepsWork ==
    ASSUME WorkInv, NEW s \in Session, RecordTraffic(s)
    PROVE  WorkInv'
<1> DEFINE n == session[s].next
           x == Current(s)
<1>1. /\ session[s].pc = "record" /\ x = Targets(s)[n] /\ x \in Provider
    BY CurrentIsProvider DEF RecordTraffic
<1>2. /\ UNCHANGED lock
      /\ session' = [session EXCEPT ![s] = [pc |-> Turn(s, n + 1), next |-> n + 1]]
      /\ work' = [work EXCEPT ![s].logged = @ \cup {x}]
    BY DEF RecordTraffic, WorkInv, TypesOfSessions
<1> HIDE DEF x
<1>3. OwnWork(s) /\ Targets(s)' = Targets(s) /\ Len(Targets(s)) \in Nat
    BY LengthOfTargets DEF WorkInv, Targets
<1>4. n \in Nat \ {0} /\ n <= Len(Targets(s))
    BY <1>1, <1>3 DEF OwnWork
<1>5. PICK pc \in {"update", "commit"} : pc = Turn(s, n + 1)
    BY DEF Turn
<1>6. /\ session' \in [Session -> SessionState]
      /\ \A t \in Session \ {s} : session'[t] = session[t]
      /\ session'[s].pc = pc /\ session'[s].next = n + 1
  <2>1. [pc |-> pc, next |-> n + 1] \in SessionState
      BY <1>4 DEF SessionState, Open
  <2>2. session \in [Session -> SessionState]
      BY DEF WorkInv, TypesOfSessions
  <2>3. session' = [session EXCEPT ![s] = [pc |-> pc, next |-> n + 1]]
      BY <1>2, <1>5
  <2> QED
      BY <2>1, <2>2, <2>3
<1>7. /\ work \in [Session -> Work] /\ (work[s].filed <=> s \in Filing)
      /\ work[s].moved = Upto(s, n) /\ work[s].logged = Upto(s, n - 1)
    BY <1>1, <1>3 DEF OwnWork, Moved, Logged, Writing, WorkInv, TypesOfSessions
<1> DEFINE w == [work[s] EXCEPT !.logged = @ \cup {x}]
<1>8. /\ w \in Work /\ w.filed = work[s].filed
      /\ w.moved = work[s].moved /\ w.logged = work[s].logged \cup {x}
    BY <1>1, <1>7 DEF Work
<1>9. work' = [work EXCEPT ![s] = w]
    BY <1>2, <1>7
<1> HIDE DEF w
<1>10. work' \in [Session -> Work] /\ work'[s] = w /\ \A t \in Session \ {s} : work'[t] = work[t]
    BY <1>7, <1>8, <1>9
<1>11. Upto(s, n) = Upto(s, n - 1) \cup {x} /\ (n + 1) - 1 = n
    BY <1>1, <1>4, UptoGrows
<1>12. \A m : Upto(s, m)' = Upto(s, m)
    BY <1>3 DEF Upto
<1>13. Moved(s)' = Upto(s, n) /\ Logged(s)' = Upto(s, n)
    BY <1>6, <1>11, <1>12 DEF Moved, Logged, Writing
<1>14. pc = "update" <=> n + 1 <= Len(Targets(s))
    BY <1>5 DEF Turn
<1>15. OwnWork(s)'
  <2>1. work'[s].filed <=> s \in Filing /\ session'[s].pc \in Writing
      BY <1>6, <1>7, <1>8, <1>10 DEF Writing
  <2>2. work'[s].moved = Moved(s)' /\ work'[s].logged = Logged(s)'
      BY <1>7, <1>8, <1>10, <1>11, <1>13
  <2> QED
      BY <1>1, <1>3, <1>4, <1>6, <1>14, <2>1, <2>2 DEF OwnWork, Before, Open
<1>16. \A y \in work'[s].moved : lock'[y] = s
    BY <1>2, <1>8, <1>10 DEF WorkInv, LocksHeld
<1>17. TypesOfSessions'
    BY <1>2, <1>6, <1>10 DEF WorkInv, TypesOfSessions
<1> QED
    BY <1>2, <1>6, <1>10, <1>15, <1>16, <1>17, OneSessionMoves

(* The end of a session: its work is visible or gone, its rows are free.   *)
LEMMA EndKeepsWork ==
    ASSUME WorkInv, NEW s \in Session, NEW pc \in Ended, End(s, pc)
    PROVE  WorkInv'
<1>1. lock' = Release(s) /\ work' = [work EXCEPT ![s] = NoWork] /\ At(s, pc)
    BY DEF End
<1>2. /\ session' \in [Session -> SessionState]
      /\ \A t \in Session \ {s} : session'[t] = session[t]
      /\ session'[s].pc = pc /\ session'[s].next = session[s].next
    BY <1>1, AtMoves
<1>3. /\ lock' \in [Provider -> Session \cup {None}]
      /\ \A t \in Session \ {s}, x \in Provider : lock[x] = t => lock'[x] = t
    BY <1>1 DEF Release, WorkInv, TypesOfSessions
<1>4. /\ work' \in [Session -> Work] /\ work'[s] = NoWork
      /\ \A t \in Session \ {s} : work'[t] = work[t]
    BY <1>1 DEF WorkInv, TypesOfSessions, Work, NoWork
<1>5. Moved(s)' = {} /\ Logged(s)' = {} /\ session'[s].pc \notin Writing
    BY <1>2 DEF Moved, Logged, Writing, Ended
<1>6. OwnWork(s) /\ Targets(s)' = Targets(s)
    BY DEF WorkInv, Targets
<1>7. OwnWork(s)'
    BY <1>2, <1>4, <1>5, <1>6 DEF OwnWork, Ended, Before, Open, NoWork
<1>8. TypesOfSessions'
    BY <1>2, <1>3, <1>4 DEF TypesOfSessions
<1>9. \A x \in work'[s].moved : lock'[x] = s
    BY <1>4 DEF NoWork
<1> QED
    BY <1>2, <1>3, <1>4, <1>7, <1>8, <1>9, OneSessionMoves

LEMMA SessionsEndWith ==
    ASSUME NEW s \in Session, Commit(s) \/ Rollback(s) \/ DeadlockVictim(s)
    PROVE  \E pc \in Ended : End(s, pc)
    BY DEF Commit, Rollback, DeadlockVictim, Ended

LEMMA CrashKeepsWork ==
    ASSUME WorkInv, Crash
    PROVE  WorkInv'
<1>1. /\ lock' \in [Provider -> Session \cup {None}]
      /\ work' \in [Session -> Work] /\ \A s \in Session : work'[s] = NoWork
    BY DEF Crash, Work, NoWork
<1>2. /\ session' \in [Session -> SessionState]
      /\ \A s \in Session : /\ session'[s].next = session[s].next
                            /\ \/ session'[s].pc = "failed"
                               \/ session'[s].pc = session[s].pc /\ session[s].pc \in {"idle", "done"}
    BY DEF Crash, WorkInv, TypesOfSessions, SessionState
<1>3. ASSUME NEW s \in Session PROVE OwnWork(s)'
  <2>1. OwnWork(s) /\ Targets(s)' = Targets(s)
      BY DEF WorkInv, Targets
  <2>2. Moved(s)' = {} /\ Logged(s)' = {} /\ session'[s].pc \notin Writing
      BY <1>2 DEF Moved, Logged, Writing
  <2> QED
      BY <1>1, <1>2, <2>1, <2>2 DEF OwnWork, Before, Open, NoWork
<1>4. LocksHeld'
    BY <1>1 DEF LocksHeld, NoWork
<1>5. TypesOfSessions'
    BY <1>1, <1>2 DEF TypesOfSessions
<1> QED
    BY <1>3, <1>4, <1>5 DEF WorkInv

LEMMA NothingKeepsWork ==
    ASSUME WorkInv, UNCHANGED <<session, lock, work>>
    PROVE  WorkInv'
<1>1. ASSUME NEW s \in Session PROVE OwnWork(s)'
  <2>1. OwnWork(s) /\ Targets(s)' = Targets(s)
      BY DEF WorkInv, Targets
  <2>2. Moved(s)' = Moved(s) /\ Logged(s)' = Logged(s)
      BY <2>1 DEF Moved, Logged, Upto
  <2> QED
      BY <2>1, <2>2 DEF OwnWork
<1>2. TypesOfSessions' /\ LocksHeld'
    BY DEF WorkInv, TypesOfSessions, LocksHeld
<1> QED
    BY <1>1, <1>2 DEF WorkInv

LEMMA StepKeepsWork ==
    ASSUME WorkInv, Step
    PROVE  WorkInv'
<1>1. ASSUME NEW f \in Filing, File(f) \/ CheckOpen(f) \/ BeginFile(f) PROVE WorkInv'
  <2>1. PICK pc \in Before \cup Ended :
            At(f, pc) /\ (pc = "insert" => ProviderOf[Of[f]] \in Provider)
      BY <1>1, FilingBegins
  <2>2. f \in Session /\ session[f].pc \in {"idle", "check", "begin"} /\ UNCHANGED <<work, lock>>
      BY <1>1, FilingBegins
  <2> QED
      BY <2>1, <2>2, BeginningKeepsWork
<1>2. ASSUME NEW s \in Session, Commit(s) \/ Rollback(s) \/ DeadlockVictim(s) PROVE WorkInv'
    BY <1>2, SessionsEndWith, EndKeepsWork
<1>3. CASE UNCHANGED <<session, lock, work>>
    BY <1>3, NothingKeepsWork
<1> QED
    BY <1>1, <1>2, <1>3, FirstTurn, InsertKeepsWork, UpdateKeepsWork, RecordKeepsWork, CrashKeepsWork
    DEF Step, Attempt, UpdateStatus, BeginRoute, QueryRules, ConfirmProvider, SetProviderStatus

(* At the commit every provider of the session has been updated and        *)
(* recorded, its dispute is inserted, and it holds all their rows.         *)
LEMMA CommitComesLast ==
    ASSUME WorkInv, NEW s \in Session, session[s].pc = "commit"
    PROVE  /\ work[s].moved = ToSet(Targets(s)) /\ work[s].logged = ToSet(Targets(s))
           /\ work[s].filed <=> s \in Filing
           /\ ToSet(Targets(s)) \subseteq Provider
           /\ s \in Filing => ToSet(Targets(s)) = {ProviderOf[Of[s]]}
           /\ \A x \in ToSet(Targets(s)) : lock[x] = s
<1>1. OwnWork(s) /\ Len(Targets(s)) \in Nat
    BY LengthOfTargets DEF WorkInv
<1>2. session[s].next - 1 = Len(Targets(s))
    BY <1>1 DEF OwnWork
<1>3. /\ work[s].moved = Upto(s, Len(Targets(s))) /\ work[s].logged = Upto(s, Len(Targets(s)))
      /\ work[s].filed <=> s \in Filing
    BY <1>1, <1>2 DEF OwnWork, Moved, Logged, Writing
<1>4. work[s].moved = ToSet(Targets(s)) /\ work[s].logged = ToSet(Targets(s))
    BY <1>3, UptoNoneAndAll
<1>5. ToSet(Targets(s)) \subseteq Provider
    BY <1>4 DEF WorkInv, TypesOfSessions, Work
<1>6. s \in Filing => ToSet(Targets(s)) = {ProviderOf[Of[s]]}
  <2>1. s \in Filing => Targets(s) = <<ProviderOf[Of[s]]>>
      BY LengthOfTargets
  <2> QED
      BY <2>1 DEF ToSet
<1>7. \A x \in ToSet(Targets(s)) : lock[x] = s
    BY <1>4 DEF WorkInv, LocksHeld
<1> QED
    BY <1>3, <1>4, <1>5, <1>6, <1>7

-----------------------------------------------------------------------------
(* What the steps leave in the tables.                                     *)

LEMMA FaultsBounded ==
    ASSUME TypesOfTables, UNCHANGED faults \/ Fault
    PROVE  faults' \in 0 .. MaxFaults
    BY DisputesAssumption DEF DisputesAssumption, TypesOfTables, Fault

(* The only step that leaves a trace is a commit; every other step moves   *)
(* sessions on, or ends them, and keeps what is known of them.             *)
LEMMA TracesKept ==
    ASSUME SessionInv, log' = log,
           \A f \in Filing : disputes'[f] = None <=> disputes[f] = None,
           \A s \in Session : /\ session'[s].pc \notin Ended => session[s].pc \notin Ended
                              /\ s \in Toggle /\ session'[s].pc = "done" => session[s].pc = "done",
           \A f \in Filing : session[f].pc \notin Ended => notifier'[f] = notifier[f]
    PROVE  SessionsState' /\ AllOrNothing'
<1>1. SessionsState'
    BY FilingsAreSessions DEF SessionInv, SessionsState
<1>2. AllOrNothing'
    BY FilingsAreSessions DEF SessionInv, AllOrNothing
<1> QED
    BY <1>1, <1>2

(* A step of one session that keeps the tables.                            *)
LEMMA MoveKeepsSessions ==
    ASSUME WorkInv, SessionInv, NEW s \in Session,
           session[s].pc \notin Ended \/ session'[s].pc = "failed",
           s \in Toggle => session'[s].pc # "done",
           \A t \in Session \ {s} : session'[t].pc = session[t].pc,
           UNCHANGED <<disputes, enabled, active, log, notifier, crashes>>,
           UNCHANGED faults \/ Fault
    PROVE  SessionInv'
<1>1. TypesOfTables' /\ TypesOfNotifier' /\ RunningMayTry'
    BY FaultsBounded DEF SessionInv, TypesOfTables, TypesOfNotifier, RunningMayTry
<1>2. \A t \in Session : /\ session'[t].pc \notin Ended => session[t].pc \notin Ended
                         /\ t \in Toggle /\ session'[t].pc = "done" => session[t].pc = "done"
    BY DEF Ended
<1>3. SessionsState' /\ AllOrNothing'
    BY <1>2, TracesKept
<1> QED
    BY <1>1, <1>3 DEF SessionInv

(* A step that moves no session and at most the status of a dispute.       *)
LEMMA OtherKeepsSessions ==
    ASSUME SessionInv, UNCHANGED <<enabled, log, session, crashes>>,
           UNCHANGED faults \/ Fault,
           active' \subseteq Provider,
           disputes' \in [Filing -> DisputeStatus \cup {None}],
           \A f \in Filing : disputes'[f] = None <=> disputes[f] = None,
           TypesOfNotifier', RunningMayTry',
           \A f \in Filing : session[f].pc \notin Ended => notifier'[f] = notifier[f]
    PROVE  SessionInv'
<1>1. TypesOfTables'
    BY FaultsBounded DEF SessionInv, TypesOfTables
<1>2. SessionsState' /\ AllOrNothing'
    BY TracesKept
<1> QED
    BY <1>1, <1>2 DEF SessionInv

(* The steps that move a session without a commit.                         *)
SessionMoves(s) ==
    \/ s \in Filing /\ (File(s) \/ CheckOpen(s) \/ BeginFile(s) \/ InsertDispute(s))
    \/ s \in Toggle /\ BeginToggle(s)
    \/ UpdateProvider(s) \/ RecordTraffic(s) \/ Rollback(s) \/ DeadlockVictim(s)

LEMMA SessionStepsKeepSessions ==
    ASSUME WorkInv, SessionInv, NEW s \in Session, SessionMoves(s)
    PROVE  SessionInv'
<1>1. /\ UNCHANGED <<disputes, enabled, active, log, notifier, crashes>>
      /\ UNCHANGED faults \/ Fault
    BY DEF SessionMoves, File, CheckOpen, BeginFile, InsertDispute, BeginToggle, UpdateProvider,
           RecordTraffic, Rollback, DeadlockVictim
<1>2. CASE RecordTraffic(s)
  <2>1. session' = [session EXCEPT ![s] = [pc |-> Turn(s, @.next + 1), next |-> @.next + 1]]
        /\ session[s].pc = "record" /\ Turn(s, session[s].next + 1) \in {"update", "commit"}
      BY <1>2 DEF RecordTraffic, Turn
  <2>2. session'[s].pc \in {"update", "commit"} /\ \A t \in Session \ {s} : session'[t] = session[t]
      BY <2>1 DEF WorkInv, TypesOfSessions
  <2> QED
      BY <1>1, <2>1, <2>2, MoveKeepsSessions DEF Ended
<1>3. CASE ~RecordTraffic(s)
  <2>1. /\ s \in Filing => s \notin Toggle
        /\ s \in Toggle => s \notin Filing
      BY SessionsAreFilingsOrToggles
  <2>2. PICK pc \in Before \cup Writing \cup Ended :
            /\ At(s, pc)
            /\ session[s].pc \notin Ended \/ pc = "failed"
            /\ s \in Toggle => pc # "done"
    <3>1. CASE s \in Filing /\ (File(s) \/ CheckOpen(s) \/ BeginFile(s) \/ InsertDispute(s))
        BY <2>1, <3>1 DEF File, CheckOpen, BeginFile, InsertDispute, Before, Writing, Ended
    <3>2. CASE BeginToggle(s)
        BY <3>2 DEF BeginToggle, Turn, Writing, Ended
    <3>3. CASE UpdateProvider(s)
      <4>1. session[s].pc = "update" /\ At(s, "record")
          BY <3>3 DEF UpdateProvider, Wanted
      <4> QED
          BY <4>1 DEF Writing, Ended
    <3>4. CASE Rollback(s) \/ DeadlockVictim(s)
        BY <3>4 DEF Rollback, DeadlockVictim, End, Ended
    <3> QED
        BY <1>3, <3>1, <3>2, <3>3, <3>4 DEF SessionMoves
  <2>3. session'[s].pc = pc /\ \A t \in Session \ {s} : session'[t] = session[t]
      BY <2>2, AtMoves
  <2> QED
      BY <1>1, <2>2, <2>3, MoveKeepsSessions
<1> QED
    BY <1>2, <1>3

(* All of a session's providers are written, and with them its dispute.    *)
LEMMA CommitKeepsSessions ==
    ASSUME WorkInv, SessionInv, NEW s \in Session, Commit(s)
    PROVE  SessionInv'
<1> DEFINE xs == ToSet(Targets(s))
<1>1. session[s].pc = "commit" /\ UNCHANGED <<active, crashes>>
    BY DEF Commit
<1>2. xs \subseteq Provider /\ (s \in Filing => xs # {})
    BY <1>1, CommitComesLast
<1>3. PICK pc \in Ended :
          /\ At(s, pc)
          /\ Apply(s) \/ (UNCHANGED <<enabled, log, disputes>> /\ pc = "failed")
    BY DEF Commit, End, Ended
<1>4. /\ \A t \in Session \ {s} : session'[t] = session[t]
      /\ session'[s].pc = pc
    BY <1>3, AtMoves
<1>5. UNCHANGED faults \/ Fault
    BY DEF Commit
<1>6. TypesOfNotifier' /\ RunningMayTry'
      /\ \A f \in Filing \ {s} : notifier'[f] = notifier[f]
  <2>1. CASE notifier' = notifier
      BY <2>1 DEF SessionInv, TypesOfNotifier, RunningMayTry
  <2>2. CASE /\ s \in Filing
             /\ notifier' = [notifier EXCEPT ![s].pc = IF Of[s] \in Linked THEN "run" ELSE "skipped"]
    <3>1. notifier[s] = [pc |-> "none", tries |-> 0] /\ notifier \in [Filing -> NotifierState]
        BY <1>1, <2>2 DEF SessionInv, SessionsState, TypesOfNotifier, Ended
    <3>2. PICK npc \in {"run", "skipped"} : notifier' = [notifier EXCEPT ![s].pc = npc]
        BY <2>2
    <3>3. /\ notifier' \in [Filing -> NotifierState]
          /\ notifier'[s].tries = 0
          /\ \A f \in Filing \ {s} : notifier'[f] = notifier[f]
        BY <2>2, <3>1, <3>2 DEF NotifierState
    <3>4. 0 <= MaxAttempts /\ 0 < MaxAttempts
        BY DisputesAssumption DEF DisputesAssumption
    <3>5. TypesOfNotifier'
        BY <3>3, <3>4 DEF SessionInv, TypesOfNotifier
    <3>6. RunningMayTry'
        BY <3>3, <3>4 DEF SessionInv, RunningMayTry
    <3> QED
        BY <3>3, <3>5, <3>6
  <2> QED
      BY <2>1, <2>2 DEF Commit, Session
<1>7. CASE UNCHANGED <<enabled, log, disputes>> /\ pc = "failed"
  <2>1. TypesOfTables'
      BY <1>1, <1>5, <1>7, FaultsBounded DEF SessionInv, TypesOfTables
  <2>2. SessionsState'
      BY <1>4, <1>6, <1>7, FilingsAreSessions DEF SessionInv, SessionsState, Ended
  <2>3. AllOrNothing'
      BY <1>4, <1>7 DEF SessionInv, AllOrNothing
  <2> QED
      BY <1>6, <2>1, <2>2, <2>3 DEF SessionInv
<1>8. CASE Apply(s)
  <2>1. /\ enabled' \subseteq Provider
        /\ log' = log \cup ({s} \X xs)
        /\ disputes' = IF s \in Filing THEN [disputes EXCEPT ![s] = "NEW"] ELSE disputes
    <3>1. /\ work[s].moved = xs /\ work[s].logged = xs
          /\ work[s].filed <=> s \in Filing
        BY <1>1, CommitComesLast
    <3> QED
        BY <1>2, <1>8, <3>1 DEF Apply, SessionInv, TypesOfTables
  <2>2. /\ log' \subseteq Session \X Provider
        /\ \A x \in Provider : <<s, x>> \in log' <=> <<s, x>> \in log \/ x \in xs
        /\ \A t \in Session \ {s}, x \in Provider : <<t, x>> \in log' <=> <<t, x>> \in log
      BY <1>2, <2>1 DEF SessionInv, TypesOfTables
  <2>3. /\ disputes' \in [Filing -> DisputeStatus \cup {None}]
        /\ s \in Filing => disputes'[s] # None
        /\ \A f \in Filing \ {s} : disputes'[f] = disputes[f]
      BY <2>1, DisputesAssumption
      DEF SessionInv, TypesOfTables, DisputeStatus, ActiveStatus, DisputesAssumption
  <2>4. TypesOfTables'
      BY <1>1, <1>5, <2>1, <2>2, <2>3, FaultsBounded DEF SessionInv, TypesOfTables
  <2>5. SessionsState'
      BY <1>4, <1>6, <2>2, <2>3, FilingsAreSessions DEF SessionInv, SessionsState, Ended
  <2>6. AllOrNothing'
    <3>1. \A x \in Provider : <<s, x>> \in log' <=> x \in xs
        BY <1>1, <2>2 DEF SessionInv, SessionsState, Ended
    <3>2. {x \in Provider : <<s, x>> \in log'} = xs
        BY <1>2, <3>1
    <3>3. \A t \in Session \ {s} :
              {x \in Provider : <<t, x>> \in log'} = {x \in Provider : <<t, x>> \in log}
        BY <2>2
    <3> HIDE DEF xs
    <3>4. ASSUME NEW t \in Session
          PROVE  LET logged == {x \in Provider : <<t, x>> \in log'}
                 IN  /\ logged \in {{}, ToSet(Targets(t))}
                     /\ t \in Filing => (disputes'[t] # None <=> logged # {})
                     /\ session'[t].pc = "done" /\ t \in Toggle => logged = ToSet(Targets(t))
      <4>1. CASE t = s
          BY <1>2, <2>3, <3>2, <4>1 DEF xs
      <4>2. CASE t # s
          BY <1>4, <2>3, <3>3, <4>2 DEF SessionInv, AllOrNothing
      <4> QED
          BY <4>1, <4>2
    <3>5. \A t \in Session : Targets(t)' = Targets(t)
        BY DEF Targets
    <3> QED
        BY <3>4, <3>5 DEF AllOrNothing
  <2> QED
      BY <1>6, <2>4, <2>5, <2>6 DEF SessionInv
<1> QED
    BY <1>3, <1>7, <1>8

LEMMA AttemptKeepsSessions ==
    ASSUME SessionInv, NEW f \in Filing, Attempt(f)
    PROVE  SessionInv'
<1>1. /\ UNCHANGED <<disputes, enabled, active, log, session, crashes>>
      /\ UNCHANGED faults \/ Fault
      /\ notifier[f].pc = "run"
    BY DEF Attempt
<1>2. /\ notifier \in [Filing -> NotifierState]
      /\ notifier[f].tries \in Nat /\ notifier[f].tries < MaxAttempts /\ MaxAttempts \in Nat
    BY <1>1, DisputesAssumption
    DEF SessionInv, TypesOfNotifier, NotifierState, RunningMayTry, DisputesAssumption
<1>3. PICK pc \in {"run", "accepted", "refused", "gaveUp", "skipped"},
           n \in {notifier[f].tries, notifier[f].tries + 1} :
          /\ notifier' = [notifier EXCEPT ![f] = [pc |-> pc, tries |-> n]]
          /\ pc = "run" => n # MaxAttempts
  <2>1. CASE Tried(f, "accepted") \/ Tried(f, "refused")
      BY <1>2, <2>1 DEF Tried
  <2>2. CASE Tried(f, IF notifier[f].tries + 1 = MaxAttempts THEN "gaveUp" ELSE "run")
      BY <1>2, <2>2 DEF Tried
  <2>3. CASE notifier' = [notifier EXCEPT ![f].pc = "skipped"]
    <3>1. [notifier[f] EXCEPT !.pc = "skipped"] = [pc |-> "skipped", tries |-> notifier[f].tries]
        BY <1>2 DEF NotifierState
    <3>2. notifier' = [notifier EXCEPT ![f] = [pc |-> "skipped", tries |-> notifier[f].tries]]
        BY <1>2, <2>3, <3>1
    <3> QED
        BY <3>2
  <2> QED
      BY <2>1, <2>2, <2>3 DEF Attempt
<1>4. n \in Nat /\ n <= MaxAttempts /\ (pc = "run" => n < MaxAttempts)
    BY <1>2, <1>3
<1>5. [pc |-> pc, tries |-> n] \in NotifierState
    BY <1>4 DEF NotifierState
<1>6. TypesOfNotifier'
    BY <1>2, <1>3, <1>4, <1>5 DEF SessionInv, TypesOfNotifier
<1>7. RunningMayTry'
    BY <1>2, <1>3, <1>4 DEF SessionInv, RunningMayTry
<1>8. \A e \in Filing : session[e].pc \notin Ended => notifier'[e] = notifier[e]
  <2>1. session[f].pc \in Ended
      BY <1>1, FilingsAreSessions DEF SessionInv, SessionsState
  <2> QED
      BY <1>2, <1>3, <2>1
<1> QED
    BY <1>1, <1>6, <1>7, <1>8, OtherKeepsSessions DEF SessionInv, TypesOfTables

LEMMA AdminSteps ==
    ASSUME SessionInv,
           \/ \E f \in Filing, status \in Verdict : UpdateStatus(f, status)
           \/ \E x \in Provider : SetProviderStatus(x)
           \/ \E d \in Deposit : BeginRoute(d) \/ QueryRules(d) \/ ConfirmProvider(d)
    PROVE  SessionInv'
<1>1. UNCHANGED <<enabled, log, session, notifier, crashes>> /\ (UNCHANGED faults \/ Fault)
    BY DEF UpdateStatus, SetProviderStatus, BeginRoute, QueryRules, ConfirmProvider
<1>2. active' \subseteq Provider
    BY DEF UpdateStatus, SetProviderStatus, BeginRoute, QueryRules, ConfirmProvider,
           SessionInv, TypesOfTables
<1>3. /\ disputes' \in [Filing -> DisputeStatus \cup {None}]
      /\ \A f \in Filing : disputes'[f] = None <=> disputes[f] = None
  <2>1. CASE UNCHANGED disputes
      BY <2>1 DEF SessionInv, TypesOfTables
  <2>2. CASE \E f \in Filing, status \in Verdict : UpdateStatus(f, status)
    <3>1. PICK f \in Filing, status \in Verdict :
              disputes[f] # None /\ disputes' = [disputes EXCEPT ![f] = status]
        BY <2>2 DEF UpdateStatus
    <3>2. status \in DisputeStatus /\ status # None
        BY DisputesAssumption DEF DisputesAssumption
    <3> QED
        BY <3>1, <3>2 DEF SessionInv, TypesOfTables
  <2> QED
      BY <2>1, <2>2 DEF SetProviderStatus, BeginRoute, QueryRules, ConfirmProvider
<1>4. TypesOfNotifier' /\ RunningMayTry'
    BY <1>1 DEF SessionInv, TypesOfNotifier, RunningMayTry
<1> QED
    BY <1>1, <1>2, <1>3, <1>4, OtherKeepsSessions

LEMMA CrashKeepsSessions ==
    ASSUME WorkInv, SessionInv, Crash
    PROVE  SessionInv'
<1>1. UNCHANGED <<disputes, enabled, active, log, faults>>
    BY DEF Crash
<1>2. crashes' \in 0 .. MaxCrashes
    BY DisputesAssumption DEF Crash, SessionInv, TypesOfTables, DisputesAssumption
<1>3. \A s \in Session : session'[s].pc = session[s].pc \/ session'[s].pc = "failed"
    BY DEF Crash, WorkInv, TypesOfSessions, SessionState
<1>4. /\ notifier' \in [Filing -> NotifierState]
      /\ \A f \in Filing : \/ notifier'[f] = notifier[f]
                           \/ /\ notifier[f].pc = "run" /\ notifier'[f].pc = "lost"
                              /\ notifier'[f].tries = notifier[f].tries
    BY DEF Crash, SessionInv, TypesOfNotifier, NotifierState
<1>5. TypesOfTables'
    BY <1>1, <1>2 DEF SessionInv, TypesOfTables
<1>6. TypesOfNotifier' /\ RunningMayTry'
    BY <1>4 DEF SessionInv, TypesOfNotifier, RunningMayTry
<1>7. \A f \in Filing : session[f].pc \notin Ended => notifier'[f] = notifier[f]
    BY <1>4, FilingsAreSessions DEF SessionInv, SessionsState
<1>8. \A s \in Session : /\ session'[s].pc \notin Ended => session[s].pc \notin Ended
                         /\ s \in Toggle /\ session'[s].pc = "done" => session[s].pc = "done"
    BY <1>3 DEF Ended
<1>9. SessionsState' /\ AllOrNothing'
    BY <1>1, <1>7, <1>8, TracesKept
<1> QED
    BY <1>5, <1>6, <1>9 DEF SessionInv

LEMMA StepKeepsSessions ==
    ASSUME WorkInv, SessionInv, Step
    PROVE  SessionInv'
<1>1. CASE \E s \in Session : SessionMoves(s)
    BY <1>1, SessionStepsKeepSessions
<1>2. CASE ~\E s \in Session : SessionMoves(s)
    BY <1>2, FilingsAreSessions, CommitKeepsSessions, AttemptKeepsSessions, AdminSteps,
       CrashKeepsSessions DEF Step, SessionMoves
<1> QED
    BY <1>1, <1>2

-----------------------------------------------------------------------------
(* The routing.                                                            *)

(* A step that lets deposits choose only what is eligible after it.        *)
LEMMA ChoiceKeepsRoute ==
    ASSUME IInv, Observe, route' \in [Deposit -> RouteState],
           \A d \in Deposit : route'[d].pc \in {"confirm", "done"} =>
               \/ route[d].pc \in {"confirm", "done"} /\ route'[d].to = route[d].to
               \/ route'[d].pc = "confirm" /\ route'[d].to \in Eligible'
    PROVE  TypesOfRoute' /\ ChosenIsNotShut'
<1>1. \A d \in Deposit : shut'[d] = IF route[d].pc = "idle" /\ route'[d].pc = "query"
                                    THEN Provider \ Eligible' ELSE shut[d] \ Eligible'
    BY DEF Observe
<1>2. shut \in [Deposit -> SUBSET Provider]
    BY DEF IInv, TypesOfRoute
<1>3. shut' \in [Deposit -> SUBSET Provider]
    BY <1>2 DEF Observe
<1>4. ChosenIsNotShut'
    BY <1>1 DEF IInv, ChosenIsNotShut
<1> QED
    BY <1>3, <1>4 DEF TypesOfRoute

LEMMA RouteStepsKeepRoute ==
    ASSUME IInv, Observe, NEW d \in Deposit, BeginRoute(d) \/ QueryRules(d) \/ ConfirmProvider(d)
    PROVE  TypesOfRoute' /\ ChosenIsNotShut'
<1>1. route \in [Deposit -> RouteState]
    BY DEF IInv, TypesOfRoute
<1>2. CASE \E pc \in {"query", "failed"} : route' = [route EXCEPT ![d].pc = pc]
  <2>1. PICK pc \in {"query", "failed"} : route' = [route EXCEPT ![d].pc = pc]
      BY <1>2
  <2>2. route' \in [Deposit -> RouteState] /\ route'[d].pc = pc
        /\ \A e \in Deposit \ {d} : route'[e] = route[e]
      BY <1>1, <2>1 DEF RouteState
  <2> QED
      BY <2>2, ChoiceKeepsRoute
<1>3. CASE /\ \E x \in Eligible : route' = [route EXCEPT ![d] = [pc |-> "confirm", to |-> x]]
           /\ UNCHANGED <<disputes, enabled, active>>
  <2>1. PICK x \in Eligible : route' = [route EXCEPT ![d] = [pc |-> "confirm", to |-> x]]
      BY <1>3
  <2>2. x \in Eligible' /\ x \in Provider
      BY <1>3 DEF Eligible, ActiveDisputes, IInv, SessionInv, TypesOfTables
  <2>3. route' \in [Deposit -> RouteState] /\ route'[d].pc = "confirm" /\ route'[d].to = x
        /\ \A e \in Deposit \ {d} : route'[e] = route[e]
      BY <1>1, <2>1, <2>2 DEF RouteState
  <2> QED
      BY <2>2, <2>3, ChoiceKeepsRoute
<1>4. CASE route[d].pc = "confirm" /\ route' = [route EXCEPT ![d].pc = "done"]
  <2>1. /\ route' \in [Deposit -> RouteState]
        /\ route'[d].pc = "done" /\ route'[d].to = route[d].to
        /\ \A e \in Deposit \ {d} : route'[e] = route[e]
      BY <1>1, <1>4 DEF RouteState
  <2> QED
      BY <1>4, <2>1, ChoiceKeepsRoute
<1> QED
    BY <1>2, <1>3, <1>4 DEF BeginRoute, QueryRules, ConfirmProvider

LEMMA StepKeepsRoute ==
    ASSUME IInv, Step, Observe
    PROVE  TypesOfRoute' /\ ChosenIsNotShut'
<1>1. CASE UNCHANGED route
    BY <1>1, ChoiceKeepsRoute DEF IInv, TypesOfRoute
<1>2. CASE \E d \in Deposit : BeginRoute(d) \/ QueryRules(d) \/ ConfirmProvider(d)
    BY <1>2, RouteStepsKeepRoute
<1>3. CASE Crash
  <2>1. /\ route' \in [Deposit -> RouteState]
        /\ \A d \in Deposit : route'[d] = route[d] \/ route'[d].pc = "failed"
      BY <1>3 DEF Crash, IInv, TypesOfRoute, RouteState
  <2> QED
      BY <2>1, ChoiceKeepsRoute
<1> QED
    BY <1>1, <1>2, <1>3
    DEF Step, File, CheckOpen, BeginFile, InsertDispute, Attempt, UpdateStatus, BeginToggle,
        UpdateProvider, RecordTraffic, Commit, Rollback, DeadlockVictim, SetProviderStatus

-----------------------------------------------------------------------------
(* The webhooks that came while a dispute was open.                        *)

LEMMA StepKeepsWarned ==
    ASSUME IInv, Step, Observe
    PROVE  warned' \subseteq Webhook /\ WarnedState'
<1>1. /\ warned' \subseteq Webhook
      /\ \A f \in warned' : /\ HasOpenDispute(Of[f])'
                            /\ f \in warned \/ (session[f].pc = "idle" /\ session'[f].pc = "check")
    BY DEF Observe
<1>2. faults \in Nat /\ (faults' = faults \/ faults' = faults + 1)
    BY DisputesAssumption
    DEF DisputesAssumption, IInv, SessionInv, TypesOfTables, Fault, Step, File, CheckOpen,
        BeginFile, InsertDispute, Attempt, UpdateStatus, BeginToggle, UpdateProvider,
        RecordTraffic, Commit, Rollback, DeadlockVictim, BeginRoute, QueryRules,
        ConfirmProvider, SetProviderStatus, Crash
<1>3. SUFFICES ASSUME NEW f \in warned, f \in Webhook, faults' = 0, faults = 0,
                      session[f].pc \in {"check", "done", "failed"}
               PROVE  session'[f].pc \in {"check", "done", "failed"}
  <2>1. \A f \in warned : f \in Webhook /\ (faults = 0 => session[f].pc \in {"check", "done", "failed"})
      BY DEF IInv, WarnedState
  <2> QED
      BY <1>1, <1>2, <1>3, <2>1 DEF WarnedState
<1>4. f \in Session /\ session \in [Session -> SessionState] /\ HasOpenDispute(Of[f])
    BY FilingsAreSessions DEF IInv, WorkInv, TypesOfSessions, WarnedState
<1>5. CASE UNCHANGED session
    BY <1>3, <1>5
<1>6. CASE Crash
    BY <1>3, <1>4, <1>6 DEF Crash
<1>7. ASSUME NEW s \in Session, NEW pc \in Before \cup Writing \cup Ended, At(s, pc),
             s = f => pc \in {"check", "done", "failed"}
      PROVE  session'[f].pc \in {"check", "done", "failed"}
    BY <1>3, <1>4, <1>7, AtMoves DEF IInv
<1>8. ASSUME NEW s \in Session, SessionMoves(s) \/ Commit(s)
      PROVE  session'[f].pc \in {"check", "done", "failed"}
  <2>1. CASE s # f
    <3>1. session'[f] = session[f]
      <4>1. CASE RecordTraffic(s)
          BY <1>4, <2>1, <4>1 DEF RecordTraffic
      <4>2. CASE ~RecordTraffic(s)
        <5>1. \E pc : At(s, pc)
            BY <1>8, <4>2 DEF SessionMoves, File, CheckOpen, BeginFile, InsertDispute, BeginToggle,
                              UpdateProvider, Commit, Rollback, DeadlockVictim, End
        <5> QED
            BY <1>4, <2>1, <5>1 DEF At
      <4> QED
          BY <4>1, <4>2
    <3> QED
        BY <1>3, <3>1
  <2>2. CASE s = f
    <3>1. ~Fault /\ f \notin Toggle
        BY <1>3, <1>4, SessionsAreFilingsOrToggles, FilingsAreSessions DEF Fault
    <3>2. At(f, "done") \/ At(f, "failed")
        BY <1>3, <1>4, <1>8, <2>2, <3>1
        DEF SessionMoves, File, CheckOpen, BeginFile, InsertDispute, UpdateProvider, Wanted,
            RecordTraffic, Commit, Rollback, DeadlockVictim, End, Open
    <3> QED
        BY <1>4, <1>7, <3>2 DEF Ended
  <2> QED
      BY <2>1, <2>2
<1>9. ASSUME NEW e \in Filing, File(e) \/ CheckOpen(e) \/ BeginFile(e) \/ InsertDispute(e)
      PROVE  session'[f].pc \in {"check", "done", "failed"}
    BY <1>8, <1>9, FilingsAreSessions DEF SessionMoves
<1>10. ASSUME NEW g \in Toggle, BeginToggle(g) PROVE session'[f].pc \in {"check", "done", "failed"}
    BY <1>8, <1>10, FilingsAreSessions DEF SessionMoves
<1>11. ASSUME NEW s \in Session, \/ UpdateProvider(s) \/ RecordTraffic(s) \/ Commit(s)
                                 \/ Rollback(s) \/ DeadlockVictim(s)
       PROVE  session'[f].pc \in {"check", "done", "failed"}
    BY <1>8, <1>11 DEF SessionMoves
<1> QED
    BY <1>5, <1>6, <1>9, <1>10, <1>11
    DEF Step, Attempt, UpdateStatus, BeginRoute, QueryRules, ConfirmProvider, SetProviderStatus

-----------------------------------------------------------------------------
LEMMA InitHasInv == Init => IInv
<1> SUFFICES ASSUME Init PROVE IInv
    OBVIOUS
<1>1. TypesOfTables /\ TypesOfRoute /\ warned \subseteq Webhook /\ WarnedState
    BY DisputesAssumption
    DEF Init, TypesOfTables, TypesOfRoute, WarnedState, RouteState, DisputesAssumption
<1>2. TypesOfNotifier /\ RunningMayTry
    BY DisputesAssumption DEF Init, TypesOfNotifier, RunningMayTry, NotifierState, DisputesAssumption
<1>3. SessionsState /\ ChosenIsNotShut
    BY FilingsAreSessions DEF Init, SessionsState, ChosenIsNotShut
<1>4. AllOrNothing
    BY FilingsAreSessions DEF Init, AllOrNothing
<1>5. WorkInv
  <2>1. TypesOfSessions
      BY DEF Init, TypesOfSessions, SessionState, Work, NoWork
  <2>2. LocksHeld
      BY DEF Init, LocksHeld, NoWork
  <2>3. ASSUME NEW s \in Session PROVE OwnWork(s)
    <3>1. Len(Targets(s)) \in Nat
        BY LengthOfTargets
    <3>2. session[s] = [pc |-> "idle", next |-> 1] /\ work[s] = NoWork
        BY DEF Init
    <3>3. Moved(s) = {} /\ Logged(s) = {} /\ session[s].pc \notin Writing
        BY <3>2 DEF Moved, Logged, Writing
    <3> QED
        BY <3>1, <3>2, <3>3 DEF OwnWork, NoWork, Open
  <2> QED
      BY <2>1, <2>2, <2>3 DEF WorkInv
<1> QED
    BY <1>1, <1>2, <1>3, <1>4, <1>5 DEF IInv, SessionInv

(* The inductive invariant holds in every reachable state.                 *)
THEOREM DisputesInvariance == Spec => []IInv
<1>1. IInv /\ [Next]_vars => IInv'
  <2>1. ASSUME IInv, Next PROVE IInv'
      BY <2>1, StepKeepsWork, StepKeepsSessions, StepKeepsRoute, StepKeepsWarned DEF Next, IInv
  <2>2. ASSUME IInv, UNCHANGED vars PROVE IInv'
    <3>1. TypesOfTables' /\ TypesOfNotifier' /\ TypesOfRoute'
        BY <2>2 DEF vars, IInv, SessionInv, TypesOfTables, TypesOfNotifier, TypesOfRoute
    <3>2. SessionsState' /\ RunningMayTry' /\ ChosenIsNotShut'
        BY <2>2 DEF vars, IInv, SessionInv, SessionsState, RunningMayTry, ChosenIsNotShut
    <3>3. AllOrNothing'
        BY <2>2 DEF vars, IInv, SessionInv, AllOrNothing
    <3>4. warned' \subseteq Webhook /\ WarnedState'
        BY <2>2 DEF vars, IInv, WarnedState, HasOpenDispute
    <3>5. WorkInv'
        BY <2>2, NothingKeepsWork DEF vars, IInv
    <3> QED
        BY <3>1, <3>2, <3>3, <3>4, <3>5 DEF IInv, SessionInv
  <2> QED
      BY <2>1, <2>2
<1> QED
    BY <1>1, InitHasInv, PTL DEF Spec

(* Every variable keeps its type, and no notifier makes more attempts than *)
(* the code allows.                                                        *)
THEOREM DisputesTypes == Spec => []TypeOK
<1>1. IInv => TypeOK
    BY DEF IInv, WorkInv, TypesOfSessions, SessionInv, TypesOfTables, TypesOfNotifier, TypesOfRoute,
           TypeOK
<1> QED
    BY <1>1, DisputesInvariance, PTL

(* A dispute, the block of its provider and the record of it come together  *)
(* or not at all, and so do all the updates of a bulk request: a commit    *)
(* comes only after the last statement of the session, and every statement *)
(* is sent on its transaction.                                             *)
THEOREM TracesAreWhole == Spec => []AllOrNothing
<1>1. IInv => AllOrNothing
    BY DEF IInv, SessionInv
<1> QED
    BY <1>1, DisputesInvariance, PTL

(* A provider that was blocked throughout the routing of a deposit is not  *)
(* the one it is routed to.                                                *)
THEOREM RoutingRespectsBlocks == Spec => []BlockedIsNotRouted
<1>1. IInv => BlockedIsNotRouted
    BY DEF IInv, ChosenIsNotShut, BlockedIsNotRouted
<1> QED
    BY <1>1, DisputesInvariance, PTL

(* A webhook that came when a dispute was open, and stayed open, opens no  *)
(* second one unless something failed.                                     *)
THEOREM WebhooksOpenOneDispute == Spec => NoSecondDispute
<1>1. ASSUME IInv, Next, NEW f \in Webhook, disputes[f] = None, disputes'[f] # None
      PROVE  f \notin warned \/ faults > 0
  <2>1. f \in Filing /\ disputes \in [Filing -> DisputeStatus \cup {None}]
      BY <1>1, FilingsAreSessions DEF IInv, SessionInv, TypesOfTables
  <2>2. session[f].pc = "commit"
    <3>1. ASSUME NEW s \in Session, Commit(s) PROVE session[f].pc = "commit"
        BY <1>1, <2>1, <3>1 DEF Commit, Apply
    <3>2. ASSUME NEW e \in Filing, NEW status \in Verdict, UpdateStatus(e, status) PROVE FALSE
        BY <1>1, <2>1, <3>2 DEF UpdateStatus
    <3> QED
        BY <1>1, <3>1, <3>2
        DEF Next, Step, File, CheckOpen, BeginFile, InsertDispute, Attempt, BeginToggle,
            UpdateProvider, RecordTraffic, Rollback, DeadlockVictim, BeginRoute, QueryRules,
            ConfirmProvider, SetProviderStatus, Crash
  <2>3. faults \in Nat
      BY <1>1, DisputesAssumption DEF IInv, SessionInv, TypesOfTables, DisputesAssumption
  <2> QED
      BY <1>1, <2>2, <2>3 DEF IInv, WarnedState
<1>2. IInv /\ [Next]_vars =>
          [\A f \in Webhook : disputes[f] = None /\ disputes'[f] # None =>
              f \notin warned \/ faults > 0]_vars
    BY <1>1
<1> QED
    BY <1>2, DisputesInvariance, PTL DEF Spec, NoSecondDispute
-----------------------------------------------------------------------------
(* Two-phase locking.                                                      *)

(* A session holds every row it has updated and not committed, in every    *)
(* reachable state.                                                        *)
THEOREM SessionsHoldTheirRows == Spec => []LocksHeld
<1>1. IInv => LocksHeld
    BY DEF IInv, WorkInv
<1> QED
    BY <1>1, DisputesInvariance, PTL

(* Whoever changes a provider's traffic has held its row since its UPDATE, *)
(* and ends by the change.                                                 *)
THEOREM HoldersWrite == Spec => OnlyHolderWrites
<1>1. ASSUME IInv, Step, NEW x \in Provider, (x \in enabled) # (x \in enabled')
      PROVE  /\ lock[x] # None /\ session[lock[x]].pc = "commit"
             /\ session'[lock[x]].pc \in {"done", "failed"}
  <2>1. PICK s \in Session : Commit(s) /\ Apply(s)
      BY <1>1 DEF Step, File, CheckOpen, BeginFile, InsertDispute, Attempt, UpdateStatus,
         BeginToggle, UpdateProvider, RecordTraffic, Commit, Rollback, DeadlockVictim,
         BeginRoute, QueryRules, ConfirmProvider, SetProviderStatus, Crash
  <2>2. x \in work[s].moved
      BY <1>1, <2>1 DEF Apply
  <2>3. session[s].pc = "commit" /\ \E pc \in Ended : At(s, pc)
      BY <2>1 DEF Commit, End, Ended
  <2>4. lock[x] = s /\ s # None
      BY <1>1, <2>2, DisputesAssumption DEF DisputesAssumption, IInv, WorkInv, LocksHeld
  <2>5. session'[s].pc \in {"done", "failed"}
      BY <1>1, <2>3, AtMoves DEF IInv, Ended
  <2> QED
      BY <2>3, <2>4, <2>5
<1>2. ASSUME Step, NEW x \in Provider, (x \in active) # (x \in active')
      PROVE  lock[x] = None
  <2>1. PICK y \in Provider : SetProviderStatus(y)
      BY <1>2 DEF Step, File, CheckOpen, BeginFile, InsertDispute, Attempt, UpdateStatus,
         BeginToggle, UpdateProvider, RecordTraffic, Commit, Rollback, DeadlockVictim,
         BeginRoute, QueryRules, ConfirmProvider, Crash
  <2> QED
      BY <1>2, <2>1 DEF SetProviderStatus
<1>3. IInv /\ [Next]_vars =>
          [\A x \in Provider :
              /\ (x \in enabled) # (x \in enabled') =>
                    /\ lock[x] # None /\ session[lock[x]].pc = "commit"
                    /\ session'[lock[x]].pc \in {"done", "failed"}
              /\ (x \in active) # (x \in active') => lock[x] = None]_vars
    BY <1>1, <1>2 DEF Next
<1> QED
    BY <1>3, DisputesInvariance, PTL DEF Spec, OnlyHolderWrites
-----------------------------------------------------------------------------
(* The promise of Blocking.  A step of the server is one of its actions or *)
(* changes nothing that it speaks of.                                      *)

Chosen == [d \in Deposit |-> route[d].to]
Routed == {d \in Deposit : route[d].pc = "done"}
Attempts == [f \in Filing |-> notifier[f].tries]
Answered == {f \in Filing : notifier[f].pc \in {"accepted", "refused"}}

(* The provider is only told of disputes that were committed; a deposit    *)
(* that has not been chosen for has no provider.                           *)
TellsAndChoices ==
    /\ \A f \in Filing : notifier[f].pc = "run" => disputes[f] # None /\ Of[f] \in Linked
    /\ \A d \in Deposit : route[d].pc \in {"idle", "query"} => route[d].to = None

LEMMA NothingPromised ==
    ASSUME UNCHANGED <<disputes, enabled, active, log, Chosen, Routed, Attempts, Answered>>
    PROVE  UNCHANGED Promise!vars
BY DEF Promise!vars, Promise!providers, Promise!deposits, Promise!calls,
       Chosen, Routed, Attempts, Answered

LEMMA OpenIsEligible == Promise!Open = Eligible
<1>1. ASSUME NEW x
      PROVE  (\A f \in Filing : [g \in Filing |-> ProviderOf[Of[g]]][f] = x =>
                                    disputes[f] \notin ActiveStatus)
             <=> ActiveDisputes(x) = {}
    BY DEF ActiveDisputes
<1> QED
    BY <1>1 DEF Promise!Open, Eligible

(* A commit files a dispute, carries out a switch, or does nothing.        *)
LEMMA CommitIsOneStep ==
    ASSUME IInv, NEW s \in Session, Commit(s)
    PROVE  [Promise!Next]_(Promise!vars)
<1>1. /\ session[s].pc = "commit" /\ UNCHANGED <<active, route>>
      /\ \A x \in Provider : <<s, x>> \notin log
      /\ WorkInv
    BY DEF Commit, IInv, SessionInv, SessionsState, Ended
<1>2. UNCHANGED <<Chosen, Routed>>
    BY <1>1 DEF Chosen, Routed
<1>3. UNCHANGED <<Attempts, Answered>>
  <2>1. CASE notifier' = notifier
      BY <2>1 DEF Attempts, Answered
  <2>2. CASE s \in Filing /\ \E pc \in {"run", "skipped"} : notifier' = [notifier EXCEPT ![s].pc = pc]
    <3>1. PICK pc \in {"run", "skipped"} : notifier' = [notifier EXCEPT ![s].pc = pc]
        BY <2>2
    <3>2. /\ notifier \in [Filing -> NotifierState]
          /\ notifier[s].pc = "none"
        BY <1>1, <2>2 DEF IInv, SessionInv, TypesOfNotifier, SessionsState, Ended
    <3>3. \A f \in Filing : /\ notifier'[f].tries = notifier[f].tries
                            /\ f # s => notifier'[f] = notifier[f]
        BY <3>1, <3>2 DEF NotifierState
    <3>4. notifier'[s].pc = pc
        BY <2>2, <3>1, <3>2 DEF NotifierState
    <3>5. Attempts' = Attempts
        BY <3>3 DEF Attempts
    <3>6. Answered' = Answered
        BY <3>2, <3>3, <3>4 DEF Answered
    <3> QED
        BY <3>5, <3>6
  <2> QED
      BY <2>1, <2>2 DEF Commit, Session
<1>4. CASE UNCHANGED <<enabled, log, disputes>>
    BY <1>1, <1>2, <1>3, <1>4, NothingPromised
<1>5. /\ work[s].moved = ToSet(Targets(s)) /\ work[s].logged = ToSet(Targets(s))
      /\ work[s].filed <=> s \in Filing
      /\ s \in Filing => ToSet(Targets(s)) = {ProviderOf[Of[s]]}
      /\ ToSet(Targets(s)) \subseteq Provider
    BY <1>1, CommitComesLast
<1>6. CASE Apply(s) /\ s \in Filing
  <2>1. s \notin Toggle /\ s \notin Enables
      BY <1>6, DisputesAssumption DEF DisputesAssumption
  <2>2. disputes[s] = None /\ ProviderOf[Of[s]] # None
      BY <1>1, <1>5, <1>6, DisputesAssumption
      DEF IInv, SessionInv, SessionsState, Ended, DisputesAssumption
  <2>3. /\ disputes' = [disputes EXCEPT ![s] = "NEW"]
        /\ enabled' = enabled \ {ProviderOf[Of[s]]}
        /\ log' = log \cup {<<s, ProviderOf[Of[s]]>>}
      BY <1>5, <1>6, <2>1 DEF Apply
  <2>4. Promise!File(s)
      BY <1>1, <1>2, <1>3, <1>6, <2>2, <2>3
      DEF Promise!File, Promise!deposits, Promise!calls, Chosen, Routed, Attempts, Answered
  <2> QED
      BY <1>6, <2>4 DEF Promise!Next
<1>7. CASE Apply(s) /\ s \notin Filing
  <2>1. s \in Toggle
      BY <1>7 DEF Session
  <2>2. [g \in Toggle |-> ToSet(Plan[g])][s] = ToSet(Targets(s))
      BY <2>1 DEF Targets
  <2>3. /\ disputes' = disputes
        /\ enabled' = IF s \in Enables THEN enabled \cup ToSet(Targets(s))
                                       ELSE enabled \ ToSet(Targets(s))
        /\ log' = log \cup ({s} \X ToSet(Targets(s)))
      BY <1>5, <1>7 DEF Apply
  <2>4. Promise!Switch(s)
      BY <1>1, <1>2, <1>3, <1>7, <2>2, <2>3
      DEF Promise!Switch, Promise!deposits, Promise!calls, Chosen, Routed, Attempts, Answered
  <2> QED
      BY <2>1, <2>4 DEF Promise!Next
<1> QED
    BY <1>4, <1>6, <1>7 DEF Commit

(* An attempt tells of a dispute that is there.                            *)
LEMMA AttemptTells ==
    ASSUME IInv, TellsAndChoices, NEW f \in Filing, Attempt(f)
    PROVE  [Promise!Next]_(Promise!vars)
<1>1. /\ notifier[f].pc = "run" /\ notifier \in [Filing -> NotifierState]
      /\ UNCHANGED <<disputes, enabled, active, log, route>>
      /\ notifier[f].tries < MaxAttempts
      /\ disputes[f] # None /\ Of[f] \in Linked
    BY DEF Attempt, IInv, SessionInv, TypesOfNotifier, RunningMayTry, TellsAndChoices
<1>2. UNCHANGED <<Chosen, Routed>>
    BY <1>1 DEF Chosen, Routed
<1>3. ASSUME NEW pc, Tried(f, pc) PROVE Promise!Tell(f)
  <2>1. /\ \A e \in Filing \ {f} : notifier'[e] = notifier[e]
        /\ notifier'[f].tries = notifier[f].tries + 1
      BY <1>1, <1>3 DEF Tried
  <2>2. Attempts' = [Attempts EXCEPT ![f] = @ + 1]
      BY <2>1 DEF Attempts
  <2>3. Answered' \in {Answered, Answered \cup {f}}
    <3>1. CASE notifier'[f].pc \in {"accepted", "refused"}
        BY <2>1, <3>1 DEF Answered
    <3>2. CASE notifier'[f].pc \notin {"accepted", "refused"}
        BY <1>1, <2>1, <3>2 DEF Answered
    <3> QED
        BY <3>1, <3>2
  <2>4. f \notin Answered /\ Attempts[f] < MaxAttempts
      BY <1>1 DEF Answered, Attempts
  <2> QED
      BY <1>1, <1>2, <2>2, <2>3, <2>4
      DEF Promise!Tell, Promise!providers, Promise!deposits, Chosen, Routed, Attempts, Answered
<1>4. CASE notifier' = [notifier EXCEPT ![f].pc = "skipped"]
  <2>1. /\ \A e \in Filing : notifier'[e].tries = notifier[e].tries
        /\ \A e \in Filing \ {f} : notifier'[e] = notifier[e]
        /\ notifier'[f].pc = "skipped"
      BY <1>1, <1>4 DEF NotifierState
  <2>2. Attempts' = Attempts
      BY <2>1 DEF Attempts
  <2>3. Answered' = Answered
      BY <1>1, <2>1 DEF Answered
  <2> QED
      BY <1>1, <1>2, <2>2, <2>3, NothingPromised
<1>5. (\E pc : Tried(f, pc)) \/ notifier' = [notifier EXCEPT ![f].pc = "skipped"]
    BY DEF Attempt
<1> QED
    BY <1>3, <1>4, <1>5 DEF Promise!Next

(* A deposit is given a provider that is open at that moment.              *)
LEMMA RoutingChooses ==
    ASSUME IInv, TellsAndChoices, NEW d \in Deposit,
           BeginRoute(d) \/ QueryRules(d) \/ ConfirmProvider(d)
    PROVE  [Promise!Next]_(Promise!vars)
<1>1. /\ route \in [Deposit -> RouteState] /\ route[d].pc \in {"idle", "query", "confirm"}
      /\ UNCHANGED <<disputes, enabled, active, log, notifier>>
    BY DEF BeginRoute, QueryRules, ConfirmProvider, IInv, TypesOfRoute
<1>2. UNCHANGED <<Attempts, Answered>>
    BY <1>1 DEF Attempts, Answered
<1>3. CASE \E pc \in {"query", "failed"} : route' = [route EXCEPT ![d].pc = pc]
  <2>1. PICK pc \in {"query", "failed"} : route' = [route EXCEPT ![d].pc = pc]
      BY <1>3
  <2>2. /\ \A e \in Deposit : route'[e].to = route[e].to
        /\ \A e \in Deposit \ {d} : route'[e] = route[e]
        /\ route'[d].pc = pc
      BY <1>1, <2>1 DEF RouteState
  <2>3. Chosen' = Chosen
      BY <2>2 DEF Chosen
  <2>4. Routed' = Routed
      BY <1>1, <2>2 DEF Routed
  <2> QED
      BY <1>1, <1>2, <2>3, <2>4, NothingPromised
<1>4. CASE /\ route[d].pc = "query"
           /\ \E x \in Eligible : route' = [route EXCEPT ![d] = [pc |-> "confirm", to |-> x]]
  <2>1. PICK x \in Eligible : route' = [route EXCEPT ![d] = [pc |-> "confirm", to |-> x]]
      BY <1>4
  <2>2. /\ \A e \in Deposit \ {d} : route'[e] = route[e]
        /\ route'[d].to = x /\ route'[d].pc = "confirm"
      BY <1>1, <2>1
  <2>3. Chosen' = [Chosen EXCEPT ![d] = x]
      BY <2>2 DEF Chosen
  <2>4. Routed' = Routed
      BY <1>1, <2>2 DEF Routed
  <2>5. Chosen[d] = None
      BY <1>4 DEF Chosen, TellsAndChoices
  <2>6. x \in Promise!Open
      BY OpenIsEligible
  <2>7. Promise!Choose(d)
      BY <1>1, <1>2, <2>3, <2>4, <2>5, <2>6
      DEF Promise!Choose, Promise!providers, Promise!calls, Chosen, Routed, Attempts, Answered
  <2> QED
      BY <2>7 DEF Promise!Next
<1>5. CASE route[d].to \in active /\ route' = [route EXCEPT ![d].pc = "done"]
  <2>1. /\ \A e \in Deposit : route'[e].to = route[e].to
        /\ \A e \in Deposit \ {d} : route'[e] = route[e]
        /\ route'[d].pc = "done"
      BY <1>1, <1>5 DEF RouteState
  <2>2. Chosen' = Chosen
      BY <2>1 DEF Chosen
  <2>3. Routed' = Routed \cup {d}
      BY <2>1 DEF Routed
  <2>4. Chosen[d] \in active
      BY <1>5 DEF Chosen
  <2>5. Promise!Confirm(d)
      BY <1>1, <1>2, <2>2, <2>3, <2>4
      DEF Promise!Confirm, Promise!providers, Promise!calls, Chosen, Routed, Attempts, Answered
  <2> QED
      BY <2>5 DEF Promise!Next
<1> QED
    BY <1>3, <1>4, <1>5 DEF BeginRoute, QueryRules, ConfirmProvider

(* A crash ends goroutines and routings, of which the promise says nothing. *)
LEMMA CrashPromisesNothing ==
    ASSUME IInv, Crash
    PROVE  UNCHANGED Promise!vars
<1>1. UNCHANGED <<disputes, enabled, active, log>>
    BY DEF Crash
<1>2. /\ notifier \in [Filing -> NotifierState] /\ route \in [Deposit -> RouteState]
    BY DEF IInv, SessionInv, TypesOfNotifier, TypesOfRoute
<1>3. \A f \in Filing : /\ notifier'[f].tries = notifier[f].tries
                        /\ \/ notifier'[f] = notifier[f]
                           \/ notifier[f].pc = "run" /\ notifier'[f].pc = "lost"
    BY <1>2 DEF Crash, NotifierState
<1>4. \A d \in Deposit : /\ route'[d].to = route[d].to
                         /\ \/ route'[d] = route[d]
                            \/ route[d].pc \in {"query", "confirm"} /\ route'[d].pc = "failed"
    BY <1>2 DEF Crash, RouteState
<1>5. UNCHANGED Attempts
    BY <1>3 DEF Attempts
<1>6. UNCHANGED Answered
    BY <1>3 DEF Answered
<1>7. UNCHANGED Chosen
    BY <1>4 DEF Chosen
<1>8. UNCHANGED Routed
    BY <1>4 DEF Routed
<1> QED
    BY <1>1, <1>5, <1>6, <1>7, <1>8, NothingPromised

LEMMA StepsKeepBlocking ==
    ASSUME IInv, TellsAndChoices, [Next]_vars
    PROVE  [Promise!Next]_(Promise!vars)
<1>1. ASSUME NEW f \in Filing, NEW status \in Verdict, UpdateStatus(f, status)
      PROVE  Promise!Settle(f, status)
    BY <1>1 DEF UpdateStatus, Promise!Settle, Promise!providers, Promise!deposits, Promise!calls
<1>2. ASSUME NEW x \in Provider, SetProviderStatus(x) PROVE Promise!SetStatus(x)
    BY <1>2 DEF SetProviderStatus, Promise!SetStatus, Promise!deposits, Promise!calls
<1>3. CASE UNCHANGED <<disputes, enabled, active, log, route, notifier>>
    BY <1>3, NothingPromised DEF Chosen, Routed, Attempts, Answered
<1> QED
    BY <1>1, <1>2, <1>3, CommitIsOneStep, AttemptTells, RoutingChooses, CrashPromisesNothing
    DEF Next, Step, vars, Promise!Next, File, CheckOpen, BeginFile, InsertDispute, BeginToggle,
        UpdateProvider, RecordTraffic, Rollback, DeadlockVictim

LEMMA FilingCommits ==
    ASSUME IInv, NEW s \in Session, Commit(s)
    PROVE  UNCHANGED disputes \/ (s \in Filing /\ disputes' = [disputes EXCEPT ![s] = "NEW"])
<1>1. WorkInv /\ session[s].pc = "commit"
    BY DEF Commit, IInv
<1>2. work[s].filed <=> s \in Filing
    BY <1>1, CommitComesLast
<1> QED
    BY <1>2 DEF Commit, Apply

LEMMA TellsAndChoicesKept ==
    ASSUME IInv, TellsAndChoices, [Next]_vars
    PROVE  TellsAndChoices'
<1>1. /\ notifier \in [Filing -> NotifierState] /\ route \in [Deposit -> RouteState]
      /\ disputes \in [Filing -> DisputeStatus \cup {None}]
    BY DEF IInv, SessionInv, TypesOfTables, TypesOfNotifier, TypesOfRoute
<1>2. \A f \in Filing : disputes[f] # None => disputes'[f] # None
  <2>1. "NEW" # None /\ None \notin Verdict
      BY DisputesAssumption DEF DisputesAssumption, DisputeStatus, ActiveStatus
  <2>2. \/ UNCHANGED disputes
        \/ \E f \in Filing : disputes' = [disputes EXCEPT ![f] = "NEW"]
        \/ \E f \in Filing, status \in Verdict : disputes' = [disputes EXCEPT ![f] = status]
      BY FilingCommits DEF Next, Step, vars, File, CheckOpen, BeginFile, InsertDispute, Attempt,
         UpdateStatus, BeginToggle, UpdateProvider, RecordTraffic, Rollback, DeadlockVictim,
         BeginRoute, QueryRules, ConfirmProvider, SetProviderStatus, Crash
  <2> QED
      BY <1>1, <2>1, <2>2
<1>3. \A f \in Filing : notifier'[f].pc = "run" =>
          notifier[f].pc = "run" \/ (disputes'[f] # None /\ Of[f] \in Linked)
  <2>1. CASE UNCHANGED notifier
      BY <2>1
  <2>2. ASSUME NEW e \in Filing, Attempt(e)
        PROVE  \A f \in Filing : notifier'[f].pc = "run" => notifier[f].pc = "run"
      BY <1>1, <2>2 DEF Attempt, Tried
  <2>3. CASE Crash
      BY <1>1, <2>3 DEF Crash, NotifierState
  <2>4. ASSUME NEW s \in Session, Commit(s), NEW f \in Filing,
               notifier'[f].pc = "run", notifier[f].pc # "run"
        PROVE  disputes'[f] # None /\ Of[f] \in Linked
    <3>1. /\ s \in Filing /\ Apply(s)
          /\ notifier' = [notifier EXCEPT ![s].pc = IF Of[s] \in Linked THEN "run" ELSE "skipped"]
        BY <2>4 DEF Commit, Session
    <3>2. f = s /\ Of[s] \in Linked
        BY <1>1, <2>4, <3>1 DEF NotifierState
    <3>3. disputes'[s] = "NEW"
        BY <1>1, <2>4, <3>1, CommitComesLast DEF Apply, Commit, IInv
    <3> QED
        BY <3>2, <3>3, DisputesAssumption DEF DisputesAssumption, DisputeStatus, ActiveStatus
  <2> QED
      BY <2>1, <2>2, <2>3, <2>4
      DEF Next, Step, vars, File, CheckOpen, BeginFile, InsertDispute, UpdateStatus, BeginToggle,
          UpdateProvider, RecordTraffic, Rollback, DeadlockVictim, BeginRoute, QueryRules,
          ConfirmProvider, SetProviderStatus
<1>4. \A d \in Deposit : route'[d].pc \in {"idle", "query"} => route'[d].to = None
  <2>1. CASE UNCHANGED route
      BY <2>1 DEF TellsAndChoices
  <2>2. ASSUME NEW d \in Deposit, BeginRoute(d) \/ QueryRules(d) \/ ConfirmProvider(d)
        PROVE  \A e \in Deposit : route'[e].pc \in {"idle", "query"} => route'[e].to = None
      BY <1>1, <2>2 DEF BeginRoute, QueryRules, ConfirmProvider, RouteState, TellsAndChoices
  <2>3. CASE Crash
      BY <1>1, <2>3 DEF Crash, RouteState, TellsAndChoices
  <2> QED
      BY <2>1, <2>2, <2>3
      DEF Next, Step, vars, File, CheckOpen, BeginFile, InsertDispute, Attempt, UpdateStatus,
          BeginToggle, UpdateProvider, RecordTraffic, Commit, Rollback, DeadlockVictim,
          SetProviderStatus
<1> QED
    BY <1>2, <1>3, <1>4 DEF TellsAndChoices

(* Disputes, traffic and routing keep the promise of Blocking.             *)
THEOREM DisputesKeepBlocking == Spec => KeepsBlocking
<1>1. Init => Promise!Init /\ TellsAndChoices
    BY DEF Init, Promise!Init, TellsAndChoices
<1> QED
    BY <1>1, TellsAndChoicesKept, StepsKeepBlocking, DisputesInvariance, PTL
    DEF Spec, KeepsBlocking, Promise!Spec
=============================================================================
