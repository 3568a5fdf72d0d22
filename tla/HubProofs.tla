----------------------------- MODULE HubProofs ------------------------------
(***************************************************************************)
(* The hub keeps the promise of Broadcast, and never panics, for any       *)
(* numbers of clients and events and for buffers of any size.  The         *)
(* argument: what a client's peer has got, followed by what its channel    *)
(* holds, is the part of the log that begins where it joined, and for a    *)
(* client the hub knows it ends with the log, or one event before its end  *)
(* while that event is still to be offered to it.                          *)
(***************************************************************************)
EXTENDS Hub, TLAPS

(* The hub's own bookkeeping: it closes a channel once, when it forgets    *)
(* the client.                                                             *)
KnownState ==
    /\ clients \cap closed = {} /\ todo \subseteq clients
    /\ todo # {} => log # <<>>
    /\ ~panicked

(* A client begins when the hub registers it.                              *)
NewState(c) ==
    IF reader[c] \in {"none", "register"}
    THEN /\ joined[c] = NotYet /\ writer[c] = "none"
         /\ send[c] = <<>> /\ got[c] = <<>> /\ c \notin clients \cup closed
    ELSE joined[c] \in Nat

Seen(c) == joined[c] + Len(got[c])

(* What a client is still to see is what its channel holds.                *)
Window(c) ==
    writer[c] = "run" =>
        /\ joined[c] \in Nat
        /\ Seen(c) + Len(send[c]) <= Len(log)
        /\ \A i \in 1 .. Len(send[c]) : send[c][i] = log[Seen(c) + i]
        /\ c \in clients =>
              Seen(c) + Len(send[c]) = IF c \in todo THEN Len(log) - 1 ELSE Len(log)

Windows == \A c \in Client : NewState(c) /\ Window(c)

IInv == TypeOK /\ KnownState /\ Windows

LEMMA LengthsAreNumbers ==
    ASSUME TypeOK, NEW c \in Client
    PROVE  Len(got[c]) \in Nat /\ Len(send[c]) \in Nat /\ Len(log) \in Nat
    BY DEF TypeOK

LEMMA NoPanicYet == ASSUME IInv PROVE panicked = FALSE
<1>1. panicked \in BOOLEAN /\ ~panicked
    BY Zenon DEF IInv, TypeOK, KnownState
<1> QED
    BY <1>1, Zenon

LEMMA CloseOnce ==
    ASSUME IInv, NEW c \in Client, c \notin closed, CloseSend(c)
    PROVE  closed' = closed \cup {c} /\ panicked' = FALSE
<1>1. closed' = closed \cup {c} /\ panicked' = (panicked \/ c \in closed)
    BY Zenon DEF CloseSend
<1>2. (panicked \/ c \in closed) = FALSE
    BY NoPanicYet, Zenon
<1> QED
    BY <1>1, <1>2, Zenon

(* A client of which a step changes nothing keeps its window.              *)
LEMMA WindowKept ==
    ASSUME IInv, NEW c \in Client, log' = log, send'[c] = send[c], got'[c] = got[c],
           joined'[c] = joined[c], reader'[c] = reader[c], writer'[c] = writer[c],
           c \in clients' <=> c \in clients, c \in todo' <=> c \in todo,
           c \in closed' <=> c \in closed
    PROVE  NewState(c)' /\ Window(c)'
<1>1. NewState(c) /\ Window(c)
    BY DEF IInv, Windows
<1> QED
    BY <1>1 DEF NewState, Window, Seen

(* The same for a step of a client's connection that leaves what the hub   *)
(* and the writer do alone, or ends the writer.                            *)
LEMMA ConnectionKept ==
    ASSUME IInv, NEW c \in Client, log' = log, send'[c] = send[c], got'[c] = got[c],
           joined'[c] = joined[c],
           reader'[c] \in {"none", "register"} <=> reader[c] \in {"none", "register"},
           writer'[c] = writer[c] \/ (writer[c] = "run" /\ writer'[c] = "ended"),
           clients' = clients, todo' = todo, closed' = closed
    PROVE  NewState(c)' /\ Window(c)'
<1>1. NewState(c) /\ Window(c)
    BY DEF IInv, Windows
<1>2. NewState(c)'
    BY <1>1 DEF NewState
<1>3. Window(c)'
    BY <1>1 DEF Window, Seen
<1> QED
    BY <1>2, <1>3

-----------------------------------------------------------------------------
(* The publishers.                                                         *)

LEMMA PublisherSteps ==
    ASSUME IInv, NEW p \in Publisher, Call(p) \/ Enqueue(p)
    PROVE  IInv'
<1>1. UNCHANGED <<hubVars, pumpVars>>
    BY DEF Call, Enqueue
<1>2. publisher' \in [Publisher -> {"idle", "blocked", "returned"}]
  <2>1. publisher \in [Publisher -> {"idle", "blocked", "returned"}]
      BY DEF IInv, TypeOK
  <2>2. PICK pc \in {"blocked", "returned"} : publisher' = [publisher EXCEPT ![p] = pc]
      BY DEF Call, Enqueue
  <2> QED
      BY <2>1, <2>2
<1>3. broadcast' \in Seq(Publisher) /\ Len(broadcast') <= BroadcastBuffer
  <2>1. broadcast \in Seq(Publisher) /\ Len(broadcast) <= BroadcastBuffer /\ BroadcastBuffer \in Nat
      BY HubAssumption DEF IInv, TypeOK, HubAssumption
  <2>2. CASE broadcast' = broadcast
      BY <2>1, <2>2
  <2>3. CASE broadcast' = Append(broadcast, p) /\ Len(broadcast) < BroadcastBuffer
      BY <2>1, <2>3
  <2> QED
      BY <2>2, <2>3 DEF Call, Enqueue
<1>4. TypeOK'
    BY <1>1, <1>2, <1>3 DEF IInv, TypeOK, hubVars, pumpVars
<1>5. KnownState'
    BY <1>1 DEF IInv, KnownState, hubVars
<1>6. Windows'
    BY <1>1, WindowKept DEF Windows, hubVars, pumpVars
<1> QED
    BY <1>4, <1>5, <1>6 DEF IInv

-----------------------------------------------------------------------------
(* The hub.                                                                *)

LEMMA RegisterKeepsInv ==
    ASSUME IInv, NEW c \in Client, Register(c)
    PROVE  IInv'
<1>1. /\ todo = {} /\ reader[c] = "register"
      /\ clients' = clients \cup {c}
      /\ joined' = [joined EXCEPT ![c] = Len(log)]
      /\ reader' = [reader EXCEPT ![c] = "read"]
      /\ writer' = [writer EXCEPT ![c] = "run"]
      /\ UNCHANGED <<publisher, broadcast, send, closed, todo, panicked, log, conn, got>>
    BY DEF Register, Selecting
<1>2. TypeOK'
    BY <1>1, LengthsAreNumbers DEF IInv, TypeOK
<1>3. send[c] = <<>> /\ got[c] = <<>> /\ c \notin closed
    BY <1>1 DEF IInv, Windows, NewState
<1>4. KnownState'
    BY <1>1, <1>3 DEF IInv, KnownState
<1>5. joined'[c] = Len(log) /\ reader'[c] = "read" /\ Len(log) \in Nat
    BY <1>1, LengthsAreNumbers DEF IInv, TypeOK
<1>6. NewState(c)'
    BY <1>5 DEF NewState
<1>7. Window(c)'
    BY <1>1, <1>3, <1>5 DEF Window, Seen
<1>8. \A d \in Client \ {c} : NewState(d)' /\ Window(d)'
    BY <1>1, WindowKept DEF IInv, TypeOK
<1> QED
    BY <1>2, <1>4, <1>6, <1>7, <1>8 DEF IInv, Windows

LEMMA UnregisterKeepsInv ==
    ASSUME IInv, NEW c \in Client, Unregister(c)
    PROVE  IInv'
<1>1. /\ todo = {} /\ reader[c] = "unregister"
      /\ reader' = [reader EXCEPT ![c] = "ended"]
      /\ conn' = [conn EXCEPT ![c] = "closed"]
      /\ \/ c \in clients /\ clients' = clients \ {c} /\ CloseSend(c)
         \/ c \notin clients /\ UNCHANGED <<clients, closed, panicked>>
      /\ UNCHANGED <<publisher, broadcast, send, todo, log, joined, writer, got>>
    BY DEF Unregister, Selecting
<1>2. /\ clients' = clients \ {c} /\ closed \subseteq closed' /\ closed' \subseteq closed \cup {c}
      /\ clients' \cap closed' = {} /\ panicked' = FALSE
  <2>1. CASE c \in clients /\ clients' = clients \ {c} /\ CloseSend(c)
    <3>1. clients \cap closed = {}
        BY DEF IInv, KnownState
    <3>2. closed' = closed \cup {c} /\ panicked' = FALSE
        BY <2>1, <3>1, CloseOnce
    <3> QED
        BY <2>1, <3>1, <3>2
  <2>2. CASE c \notin clients /\ UNCHANGED <<clients, closed, panicked>>
      BY <2>2, NoPanicYet DEF IInv, KnownState
  <2> QED
      BY <1>1, <2>1, <2>2
<1>3. TypeOK'
    BY <1>1, <1>2 DEF IInv, TypeOK
<1>4. KnownState'
    BY <1>1, <1>2 DEF IInv, KnownState
<1>5. NewState(c)' /\ Window(c)'
  <2>1. NewState(c) /\ Window(c)
      BY DEF IInv, Windows
  <2>2. reader'[c] = "ended"
      BY <1>1 DEF IInv, TypeOK
  <2>3. NewState(c)'
      BY <1>1, <2>1, <2>2 DEF NewState
  <2>4. Window(c)'
      BY <1>1, <1>2, <2>1 DEF Window, Seen
  <2> QED
      BY <2>3, <2>4
<1>6. \A d \in Client \ {c} : NewState(d)' /\ Window(d)'
    BY <1>1, <1>2, WindowKept DEF IInv, TypeOK
<1> QED
    BY <1>3, <1>4, <1>5, <1>6 DEF IInv, Windows

(* The log grows by one event, which every known client is still to see.   *)
LEMMA TakeKeepsInv ==
    ASSUME IInv, Take
    PROVE  IInv'
<1> DEFINE e == Head(broadcast)
<1>1. /\ todo = {} /\ broadcast # <<>>
      /\ log' = Append(log, e)
      /\ broadcast' = Tail(broadcast)
      /\ todo' = clients
      /\ UNCHANGED <<publisher, clients, send, closed, panicked, joined, reader, writer, conn, got>>
    BY DEF Take, Selecting, pumpVars
<1>2. broadcast \in Seq(Publisher) /\ Len(broadcast) <= BroadcastBuffer /\ BroadcastBuffer \in Nat
      /\ log \in Seq(Publisher)
    BY HubAssumption DEF IInv, TypeOK, HubAssumption
<1>3. e \in Publisher /\ broadcast' \in Seq(Publisher) /\ Len(broadcast') <= BroadcastBuffer
    BY <1>1, <1>2
<1> HIDE DEF e
<1>4. /\ log' \in Seq(Publisher) /\ log' # <<>> /\ Len(log') = Len(log) + 1
      /\ \A i \in 1 .. Len(log) : log'[i] = log[i]
    BY <1>1, <1>2, <1>3
<1>5. TypeOK'
    BY <1>1, <1>3, <1>4 DEF IInv, TypeOK
<1>6. KnownState'
    BY <1>1, <1>4 DEF IInv, KnownState
<1>7. ASSUME NEW c \in Client PROVE NewState(c)' /\ Window(c)'
  <2>1. NewState(c) /\ Window(c)
      BY DEF IInv, Windows
  <2>2. NewState(c)'
      BY <1>1, <2>1 DEF NewState
  <2>3. Window(c)'
    <3> SUFFICES ASSUME writer[c] = "run" PROVE Window(c)'
        BY <1>1 DEF Window
    <3>1. /\ joined[c] \in Nat /\ Seen(c) \in Nat /\ Seen(c)' = Seen(c)
          /\ Seen(c) + Len(send[c]) <= Len(log)
          /\ Len(send[c]) \in Nat /\ Len(log) \in Nat
        BY <1>1, <2>1, LengthsAreNumbers DEF IInv, Window, Seen
    <3>2. ASSUME NEW i \in 1 .. Len(send[c]) PROVE send[c][i] = log'[Seen(c) + i]
      <4>1. Seen(c) + i \in 1 .. Len(log)
          BY <3>1
      <4>2. send[c][i] = log[Seen(c) + i]
          BY <2>1 DEF Window
      <4> QED
          BY <1>4, <4>1, <4>2
    <3>3. c \in clients => Seen(c) + Len(send[c]) = Len(log') - 1
        BY <1>1, <1>4, <2>1, <3>1 DEF Window
    <3>4. Seen(c) + Len(send[c]) <= Len(log')
        BY <1>4, <3>1
    <3>5. UNCHANGED <<send, joined, clients, writer>> /\ todo' = clients
        BY <1>1
    <3> QED
        BY <3>1, <3>2, <3>3, <3>4, <3>5 DEF Window
  <2> QED
      BY <2>2, <2>3
<1> QED
    BY <1>5, <1>6, <1>7 DEF IInv, Windows

LEMMA OfferKeepsInv ==
    ASSUME IInv, NEW c \in Client, Offer(c)
    PROVE  IInv'
<1>1. /\ c \in todo /\ c \in clients /\ c \notin closed /\ log # <<>>
      /\ todo' = todo \ {c}
      /\ UNCHANGED <<publisher, broadcast, log, joined, reader, writer, conn, got>>
    BY DEF Offer, pumpVars, IInv, KnownState
<1>2. /\ log \in Seq(Publisher) /\ send[c] \in Seq(Publisher) /\ Len(send[c]) <= ClientBuffer
      /\ ClientBuffer \in Nat /\ send \in [Client -> Seq(Publisher)]
    BY HubAssumption DEF IInv, TypeOK, HubAssumption
<1>3. NewState(c) /\ Window(c)
    BY DEF IInv, Windows
<1>4. reader[c] \notin {"none", "register"}
    BY <1>1, <1>3 DEF NewState
<1>5. CASE /\ Len(send[c]) < ClientBuffer
           /\ send' = [send EXCEPT ![c] = Append(@, log[Len(log)])]
           /\ panicked' = FALSE
           /\ UNCHANGED <<clients, closed>>
  <2> DEFINE e == log[Len(log)]
  <2>1. e \in Publisher
      BY <1>1, <1>2
  <2>2. /\ send' \in [Client -> Seq(Publisher)] /\ send'[c] = Append(send[c], e)
        /\ \A d \in Client \ {c} : send'[d] = send[d]
      BY <1>2, <1>5, <2>1
  <2>3. /\ Len(send'[c]) = Len(send[c]) + 1 /\ send'[c][Len(send[c]) + 1] = e
        /\ \A i \in 1 .. Len(send[c]) : send'[c][i] = send[c][i]
      BY <1>2, <2>1, <2>2
  <2>4. \A d \in Client : Len(send'[d]) <= ClientBuffer
      BY <1>2, <1>5, <2>2, <2>3 DEF IInv, TypeOK
  <2>5. TypeOK'
      BY <1>1, <1>5, <2>2, <2>4 DEF IInv, TypeOK
  <2>6. KnownState'
      BY <1>1, <1>5 DEF IInv, KnownState
  <2>7. NewState(c)'
      BY <1>1, <1>3, <1>4 DEF NewState
  <2>8. Window(c)'
    <3> SUFFICES ASSUME writer[c] = "run" PROVE Window(c)'
        BY <1>1 DEF Window
    <3>1. /\ joined[c] \in Nat /\ Seen(c) \in Nat /\ Seen(c)' = Seen(c)
          /\ Seen(c) + Len(send[c]) = Len(log) - 1
          /\ Len(send[c]) \in Nat /\ Len(log) \in Nat
        BY <1>1, <1>3, LengthsAreNumbers DEF IInv, Window, Seen
    <3>2. \A i \in 1 .. Len(send[c]) : send'[c][i] = log[Seen(c) + i]
        BY <1>3, <2>3 DEF Window
    <3>3. send'[c][Len(send[c]) + 1] = log[Seen(c) + Len(send[c]) + 1]
      <4>1. Len(log) = Seen(c) + Len(send[c]) + 1
          BY <3>1
      <4> QED
          BY <2>3, <4>1
    <3>4. \A i \in 1 .. Len(send'[c]) : send'[c][i] = log[Seen(c) + i]
      <4>1. \A i \in 1 .. Len(send'[c]) : i \in 1 .. Len(send[c]) \/ i = Len(send[c]) + 1
          BY <2>3, <3>1
      <4>2. Seen(c) + (Len(send[c]) + 1) = Seen(c) + Len(send[c]) + 1
          BY <3>1
      <4> QED
          BY <3>2, <3>3, <4>1, <4>2
    <3>5. Seen(c) + Len(send'[c]) = Len(log)
        BY <2>3, <3>1
    <3> QED
        BY <1>1, <3>1, <3>4, <3>5 DEF Window
  <2>9. \A d \in Client \ {c} : NewState(d)' /\ Window(d)'
      BY <1>1, <1>5, <2>2, WindowKept
  <2> QED
      BY <2>5, <2>6, <2>7, <2>8, <2>9 DEF IInv, Windows
<1>6. CASE CloseSend(c) /\ clients' = clients \ {c} /\ UNCHANGED send
  <2>1. closed' = closed \cup {c} /\ panicked' = FALSE
      BY <1>1, <1>6, CloseOnce
  <2>2. TypeOK'
      BY <1>1, <1>6, <2>1 DEF IInv, TypeOK
  <2>3. KnownState'
      BY <1>1, <1>6, <2>1 DEF IInv, KnownState
  <2>4. NewState(c)'
      BY <1>1, <1>3, <1>4 DEF NewState
  <2>5. Window(c)'
      BY <1>1, <1>3, <1>6 DEF Window, Seen
  <2>6. \A d \in Client \ {c} : NewState(d)' /\ Window(d)'
      BY <1>1, <1>6, <2>1, WindowKept
  <2> QED
      BY <2>2, <2>3, <2>4, <2>5, <2>6 DEF IInv, Windows
<1>7. ASSUME panicked' = (panicked \/ c \in closed) PROVE panicked' = FALSE
  <2>1. (panicked \/ c \in closed) = FALSE
      BY <1>1, NoPanicYet, Zenon
  <2> QED
      BY <1>7, <2>1, Zenon
<1> QED
    BY <1>5, <1>6, <1>7 DEF Offer

-----------------------------------------------------------------------------
(* The connections.                                                        *)

LEMMA ConnectionSteps ==
    ASSUME IInv, NEW c \in Client,
           HandleWS(c) \/ Disconnect(c) \/ ReadFails(c) \/ WriterEnds(c)
    PROVE  IInv'
<1>1. UNCHANGED <<publisher, broadcast, clients, send, closed, todo, panicked, log, joined, got>>
    BY DEF HandleWS, Disconnect, ReadFails, WriterEnds, hubVars
<1>2. /\ reader' \in [Client -> {"none", "register", "read", "unregister", "ended"}]
      /\ reader'[c] \in {"none", "register"} <=> reader[c] \in {"none", "register"}
      /\ \A d \in Client \ {c} : reader'[d] = reader[d]
    BY DEF HandleWS, Disconnect, ReadFails, WriterEnds, IInv, TypeOK
<1>3. /\ writer' \in [Client -> {"none", "run", "ended"}]
      /\ writer'[c] = writer[c] \/ (writer[c] = "run" /\ writer'[c] = "ended")
      /\ \A d \in Client \ {c} : writer'[d] = writer[d]
    BY DEF HandleWS, Disconnect, ReadFails, WriterEnds, IInv, TypeOK
<1>4. conn' \in [Client -> {"none", "open", "closed"}]
  <2>1. conn \in [Client -> {"none", "open", "closed"}]
      BY DEF IInv, TypeOK
  <2>2. conn' = conn \/ \E k \in {"open", "closed"} : conn' = [conn EXCEPT ![c] = k]
      BY DEF HandleWS, Disconnect, ReadFails, WriterEnds
  <2> QED
      BY <2>1, <2>2
<1>5. TypeOK'
    BY <1>1, <1>2, <1>3, <1>4 DEF IInv, TypeOK
<1>6. KnownState'
    BY <1>1 DEF IInv, KnownState
<1>7. \A d \in Client : NewState(d)' /\ Window(d)'
    BY <1>1, <1>2, <1>3, ConnectionKept
<1> QED
    BY <1>5, <1>6, <1>7 DEF IInv, Windows

(* What a write takes is the next event its client has not seen.           *)
LEMMA WriteFacts ==
    ASSUME IInv, NEW c \in Client, Write(c)
    PROVE  /\ joined[c] \in Nat /\ Seen(c) + 1 <= Len(log)
           /\ Head(send[c]) = log[Seen(c) + 1] /\ Head(send[c]) \in Publisher
           /\ Tail(send[c]) \in Seq(Publisher) /\ Len(Tail(send[c])) = Len(send[c]) - 1
           /\ \A i \in 1 .. Len(Tail(send[c])) : Tail(send[c])[i] = log[Seen(c) + 1 + i]
<1>1. writer[c] = "run" /\ send[c] # <<>>
    BY DEF Write
<1>2. send[c] \in Seq(Publisher) /\ Len(send[c]) \in Nat \ {0}
    BY <1>1 DEF IInv, TypeOK
<1>3. /\ joined[c] \in Nat /\ Seen(c) \in Nat /\ Len(log) \in Nat
      /\ Seen(c) + Len(send[c]) <= Len(log)
      /\ \A i \in 1 .. Len(send[c]) : send[c][i] = log[Seen(c) + i]
    BY <1>1, LengthsAreNumbers DEF IInv, Windows, Window, Seen
<1>4. Seen(c) + 1 <= Len(log)
    BY <1>2, <1>3
<1>5. Head(send[c]) = send[c][1] /\ Head(send[c]) \in Publisher /\ 1 \in 1 .. Len(send[c])
    BY <1>2
<1>6. /\ Tail(send[c]) \in Seq(Publisher) /\ Len(Tail(send[c])) = Len(send[c]) - 1
      /\ \A i \in 1 .. Len(send[c]) - 1 : Tail(send[c])[i] = send[c][i + 1]
    BY <1>1, <1>2
<1>7. ASSUME NEW i \in 1 .. Len(send[c]) - 1
      PROVE  Tail(send[c])[i] = log[Seen(c) + 1 + i]
  <2>1. i + 1 \in 1 .. Len(send[c]) /\ Seen(c) + (i + 1) = Seen(c) + 1 + i
      BY <1>2, <1>3
  <2> QED
      BY <1>3, <1>6, <2>1
<1> QED
    BY <1>3, <1>4, <1>5, <1>6, <1>7

LEMMA WriteKeepsInv ==
    ASSUME IInv, NEW c \in Client, Write(c)
    PROVE  IInv'
<1>1. /\ writer[c] = "run" /\ send' = [send EXCEPT ![c] = Tail(@)]
      /\ UNCHANGED <<publisher, broadcast, clients, closed, todo, panicked, log, joined, reader>>
    BY DEF Write
<1>2. /\ send \in [Client -> Seq(Publisher)] /\ got \in [Client -> Seq(Publisher)]
      /\ writer \in [Client -> {"none", "run", "ended"}]
      /\ conn \in [Client -> {"none", "open", "closed"}]
      /\ Len(send[c]) <= ClientBuffer /\ ClientBuffer \in Nat
    BY HubAssumption DEF IInv, TypeOK, HubAssumption
<1>3. /\ send' \in [Client -> Seq(Publisher)] /\ send'[c] = Tail(send[c])
      /\ \A d \in Client \ {c} : send'[d] = send[d]
    BY <1>1, <1>2, WriteFacts
<1>4. \A d \in Client : Len(send'[d]) <= ClientBuffer
  <2>1. Len(send'[c]) <= ClientBuffer
    <3>1. Len(send[c]) \in Nat /\ Len(Tail(send[c])) = Len(send[c]) - 1
        BY WriteFacts, LengthsAreNumbers DEF IInv
    <3> QED
        BY <1>2, <1>3, <3>1
  <2> QED
      BY <1>3, <2>1 DEF IInv, TypeOK
<1>5. KnownState'
    BY <1>1 DEF IInv, KnownState
<1>6. NewState(c) /\ Window(c) /\ reader[c] \notin {"none", "register"}
    BY <1>1 DEF IInv, Windows, NewState
<1>7. CASE /\ got' = [got EXCEPT ![c] = Append(@, Head(send[c]))]
           /\ UNCHANGED <<writer, conn>>
  <2>1. /\ got' \in [Client -> Seq(Publisher)] /\ Len(got'[c]) = Len(got[c]) + 1
        /\ \A d \in Client \ {c} : got'[d] = got[d]
      BY <1>2, <1>7, WriteFacts
  <2>2. TypeOK'
      BY <1>1, <1>3, <1>4, <1>7, <2>1 DEF IInv, TypeOK
  <2>3. NewState(c)'
      BY <1>1, <1>6 DEF NewState
  <2>4. Window(c)'
    <3>1. /\ joined[c] \in Nat /\ Len(got[c]) \in Nat /\ Len(send[c]) \in Nat /\ Len(log) \in Nat
          /\ Seen(c) = joined[c] + Len(got[c]) /\ Seen(c) \in Nat
        BY WriteFacts, LengthsAreNumbers DEF IInv, Seen
    <3>2. Len(send'[c]) = Len(send[c]) - 1
        BY <1>3, WriteFacts
    <3>3. Seen(c)' = Seen(c) + 1
      <4>1. Seen(c)' = joined[c] + (Len(got[c]) + 1)
          BY <1>1, <2>1 DEF Seen
      <4> QED
          BY <3>1, <4>1
    <3>4. Seen(c)' + Len(send'[c]) = Seen(c) + Len(send[c])
        BY <3>1, <3>2, <3>3
    <3>5. \A i \in 1 .. Len(send'[c]) : send'[c][i] = log[Seen(c)' + i]
        BY <1>3, <3>3, WriteFacts
    <3> QED
        BY <1>1, <1>6, <3>1, <3>4, <3>5 DEF Window
  <2>5. \A d \in Client \ {c} : NewState(d)' /\ Window(d)'
      BY <1>1, <1>3, <1>7, <2>1, WindowKept
  <2> QED
      BY <1>5, <2>2, <2>3, <2>4, <2>5 DEF IInv, Windows
<1>8. CASE /\ writer' = [writer EXCEPT ![c] = "ended"]
           /\ conn' = [conn EXCEPT ![c] = "closed"]
           /\ UNCHANGED got
  <2>1. TypeOK'
      BY <1>1, <1>2, <1>3, <1>4, <1>8 DEF IInv, TypeOK
  <2>2. NewState(c)' /\ Window(c)'
      BY <1>1, <1>2, <1>6, <1>8 DEF NewState, Window
  <2>3. \A d \in Client \ {c} : NewState(d)' /\ Window(d)'
      BY <1>1, <1>2, <1>3, <1>8, WindowKept
  <2> QED
      BY <1>5, <2>1, <2>2, <2>3 DEF IInv, Windows
<1> QED
    BY <1>7, <1>8 DEF Write

-----------------------------------------------------------------------------
LEMMA InitHasInv == Init => IInv
<1> SUFFICES ASSUME Init PROVE IInv
    OBVIOUS
<1>1. TypeOK
  <2>1. /\ Len(<<>>) = 0 /\ <<>> \in Seq(Publisher)
        /\ 0 <= BroadcastBuffer /\ 0 <= ClientBuffer
      BY HubAssumption DEF HubAssumption
  <2>2. \A c \in Client : Len(send[c]) <= ClientBuffer
      BY <2>1 DEF Init
  <2>3. panicked \in BOOLEAN
      BY DEF Init
  <2> QED
      BY <2>1, <2>2, <2>3 DEF Init, TypeOK
<1>2. KnownState
    BY DEF Init, KnownState
<1>3. Windows
    BY DEF Init, Windows, NewState, Window
<1> QED
    BY <1>1, <1>2, <1>3 DEF IInv

LEMMA StepKeepsInv ==
    ASSUME IInv, [Next]_vars
    PROVE  IInv'
<1>1. CASE Next
    BY <1>1, PublisherSteps, RegisterKeepsInv, UnregisterKeepsInv, TakeKeepsInv, OfferKeepsInv,
       ConnectionSteps, WriteKeepsInv DEF Next, HubStep
<1>2. CASE UNCHANGED vars
  <2>1. TypeOK'
      BY <1>2 DEF vars, hubVars, pumpVars, IInv, TypeOK
  <2>2. KnownState'
      BY <1>2 DEF vars, hubVars, IInv, KnownState
  <2>3. Windows'
      BY <1>2, WindowKept DEF vars, hubVars, pumpVars, Windows
  <2> QED
      BY <2>1, <2>2, <2>3 DEF IInv
<1> QED
    BY <1>1, <1>2

(* The inductive invariant holds in every reachable state.                 *)
THEOREM HubInvariance == Spec => []IInv
    BY InitHasInv, StepKeepsInv, PTL DEF Spec

(* Every variable keeps its type, and no buffer holds more than its        *)
(* capacity.                                                               *)
THEOREM HubTypes == Spec => []TypeOK
<1>1. IInv => TypeOK
    BY DEF IInv
<1> QED
    BY <1>1, HubInvariance, PTL

(* No channel is closed twice and nothing is sent on a closed one, whoever *)
(* of the hub and a client's reader comes first.                           *)
THEOREM HubNeverPanics == Spec => []NoPanic
<1>1. IInv => NoPanic
    BY DEF IInv, KnownState, NoPanic
<1> QED
    BY <1>1, HubInvariance, PTL

(* Every step of the hub is a step of Broadcast or changes nothing of what *)
(* it promises.                                                            *)
LEMMA StepsRefine ==
    ASSUME IInv, [Next]_vars
    PROVE  [Promise!Next]_(Promise!vars)
<1>1. CASE UNCHANGED <<log, joined, got>>
    BY <1>1 DEF Promise!vars
<1>2. CASE Take
  <2>1. broadcast \in Seq(Publisher) /\ broadcast # <<>>
      BY <1>2 DEF Take, IInv, TypeOK
  <2>2. Promise!Publish(Head(broadcast)) /\ Head(broadcast) \in Publisher
      BY <1>2, <2>1 DEF Take, pumpVars, Promise!Publish
  <2> QED
      BY <2>2 DEF Promise!Next
<1>3. ASSUME NEW c \in Client, Register(c) PROVE Promise!Next
  <2>1. joined[c] = NotYet
      BY <1>3 DEF Register, IInv, Windows, NewState
  <2>2. Promise!Join(c)
      BY <1>3, <2>1 DEF Register, Promise!Join
  <2> QED
      BY <2>2 DEF Promise!Next
<1>4. ASSUME NEW c \in Client, Write(c), ~UNCHANGED <<log, joined, got>> PROVE Promise!Next
  <2>1. got' = [got EXCEPT ![c] = Append(@, Head(send[c]))] /\ UNCHANGED <<log, joined>>
      BY <1>4 DEF Write
  <2>2. joined[c] # NotYet
      BY <1>4, WriteFacts, HubAssumption DEF HubAssumption
  <2>3. Promise!See(c)
      BY <1>4, <2>1, <2>2, WriteFacts DEF Promise!See, Seen
  <2> QED
      BY <2>3 DEF Promise!Next
<1> QED
    BY <1>1, <1>2, <1>3, <1>4
    DEF Next, HubStep, vars, hubVars, pumpVars, Call, Enqueue, Unregister, Offer, HandleWS,
        Disconnect, ReadFails, WriterEnds

(* The hub implements the abstract broadcast: every client sees the events *)
(* published after it joined, in order and without a gap, until it is cut  *)
(* off.                                                                    *)
THEOREM HubKeepsPromise == Spec => KeepsPromise
<1>1. Init => Promise!Init
    BY DEF Init, Promise!Init
<1> QED
    BY <1>1, StepsRefine, HubInvariance, PTL DEF Spec, KeepsPromise, Promise!Spec
=============================================================================
