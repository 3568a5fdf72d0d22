-------------------------------- MODULE Hub ---------------------------------
(***************************************************************************)
(* The WebSocket hub (websocket/hub.go): one goroutine that owns the set   *)
(* of clients and fans every event out to their buffered channels, two     *)
(* pumps per client, and the handlers and jobs that call Broadcast.        *)
(*                                                                         *)
(* A step is one case of a select, one channel operation, or one read or   *)
(* write on a connection.  The hub's loop over the clients is one step per *)
(* client, because the pumps run between them.                             *)
(***************************************************************************)
EXTENDS Naturals, Sequences

CONSTANTS
    Client,
    Publisher,          \* calls of Broadcast, numbered as they come to the channel;
                        \* each publishes the event of its number
    BroadcastBuffer,    \* capacity of Hub.broadcast (256 in the code)
    ClientBuffer,       \* capacity of Client.send (256 in the code)
    NotYet

ASSUME HubAssumption ==
    /\ Publisher \subseteq Nat
    /\ BroadcastBuffer \in Nat \ {0} /\ ClientBuffer \in Nat \ {0}
    /\ NotYet \notin Nat

VARIABLES
    publisher,  \* where each call of Broadcast is
    broadcast,  \* the buffered events
    clients,    \* Hub.clients
    send,       \* what each Client.send holds
    closed,     \* the clients whose send channel is closed
    todo,       \* the clients the current event is still to be offered to
    reader,     \* HandleWS up to the registration, then readPump
    writer,     \* writePump
    conn,       \* the state of each connection
    panicked,   \* a send on, or a second close of, a closed channel
    log,        \* the events the hub took from broadcast (history)
    joined,     \* Len(log) when a client was registered (history)
    got         \* what reached the peer of each connection

hubVars == <<clients, send, closed, todo, panicked, log, joined>>
pumpVars == <<reader, writer, conn, got>>
vars == <<publisher, broadcast, hubVars, pumpVars>>

TypeOK ==
    /\ publisher \in [Publisher -> {"idle", "blocked", "returned"}]
    /\ broadcast \in Seq(Publisher) /\ Len(broadcast) <= BroadcastBuffer
    /\ clients \subseteq Client /\ closed \subseteq Client /\ todo \subseteq Client
    /\ send \in [Client -> Seq(Publisher)]
    /\ \A c \in Client : Len(send[c]) <= ClientBuffer
    /\ reader \in [Client -> {"none", "register", "read", "unregister", "ended"}]
    /\ writer \in [Client -> {"none", "run", "ended"}]
    /\ conn \in [Client -> {"none", "open", "closed"}]
    /\ panicked \in BOOLEAN
    /\ log \in Seq(Publisher)
    /\ joined \in [Client -> Nat \cup {NotYet}]
    /\ got \in [Client -> Seq(Publisher)]

Init ==
    /\ publisher = [p \in Publisher |-> "idle"]
    /\ broadcast = <<>>
    /\ clients = {} /\ closed = {} /\ todo = {}
    /\ send = [c \in Client |-> <<>>]
    /\ reader = [c \in Client |-> "none"]
    /\ writer = [c \in Client |-> "none"]
    /\ conn = [c \in Client |-> "none"]
    /\ panicked = FALSE
    /\ log = <<>>
    /\ joined = [c \in Client |-> NotYet]
    /\ got = [c \in Client |-> <<>>]

-----------------------------------------------------------------------------
(* Broadcast.  The senders on a channel are served in the order they came. *)

Before(p) == {q \in Publisher : q < p}

Call(p) ==
    /\ publisher[p] = "idle"
    /\ \A q \in Before(p) : publisher[q] # "idle"
    /\ publisher' = [publisher EXCEPT ![p] = "blocked"]
    /\ UNCHANGED <<broadcast, hubVars, pumpVars>>

(* Mutant: the events queue up without a limit.                            *)
Enqueue_Unbounded(p) ==
    /\ publisher[p] = "blocked"
    /\ \A q \in Before(p) : publisher[q] = "returned"
    /\ broadcast' = Append(broadcast, p)
    /\ publisher' = [publisher EXCEPT ![p] = "returned"]
    /\ UNCHANGED <<hubVars, pumpVars>>

(* The send blocks while the buffer is full.                               *)
Enqueue(p) ==
    /\ publisher[p] = "blocked"
    /\ \A q \in Before(p) : publisher[q] = "returned"
    /\ Len(broadcast) < BroadcastBuffer
    /\ broadcast' = Append(broadcast, p)
    /\ publisher' = [publisher EXCEPT ![p] = "returned"]
    /\ UNCHANGED <<hubVars, pumpVars>>

-----------------------------------------------------------------------------
(* Hub.Run.                                                                *)

Selecting == todo = {}

(* HandleWS sends on the unbuffered register channel and starts the pumps  *)
(* when the hub has received.                                              *)
Register(c) ==
    /\ Selecting /\ reader[c] = "register"
    /\ clients' = clients \cup {c}
    /\ joined' = [joined EXCEPT ![c] = Len(log)]
    /\ reader' = [reader EXCEPT ![c] = "read"]
    /\ writer' = [writer EXCEPT ![c] = "run"]
    /\ UNCHANGED <<publisher, broadcast, send, closed, todo, panicked, log, conn, got>>

CloseSend(c) ==
    /\ closed' = closed \cup {c}
    /\ panicked' = (panicked \/ c \in closed)

(* Mutant: the hub does not ask whether it still knows the client.         *)
Unregister_Always(c) ==
    /\ Selecting /\ reader[c] = "unregister"
    /\ reader' = [reader EXCEPT ![c] = "ended"]
    /\ conn' = [conn EXCEPT ![c] = "closed"]
    /\ clients' = clients \ {c}
    /\ CloseSend(c)
    /\ UNCHANGED <<publisher, broadcast, send, todo, log, joined, writer, got>>

(* The deferred function of readPump: the hub forgets the client unless it *)
(* dropped it before, and the connection is closed.                        *)
Unregister(c) ==
    /\ Selecting /\ reader[c] = "unregister"
    /\ reader' = [reader EXCEPT ![c] = "ended"]
    /\ conn' = [conn EXCEPT ![c] = "closed"]
    /\ \/ c \in clients /\ clients' = clients \ {c} /\ CloseSend(c)
       \/ c \notin clients /\ UNCHANGED <<clients, closed, panicked>>
    /\ UNCHANGED <<publisher, broadcast, send, todo, log, joined, writer, got>>

Take ==
    /\ Selecting /\ broadcast # <<>>
    /\ log' = Append(log, Head(broadcast))
    /\ broadcast' = Tail(broadcast)
    /\ todo' = clients
    /\ UNCHANGED <<publisher, clients, send, closed, panicked, joined, pumpVars>>

(* Mutant: a client whose buffer is full misses the event and stays.       *)
Offer_Skips(c) ==
    /\ c \in todo
    /\ todo' = todo \ {c}
    /\ send' = IF Len(send[c]) < ClientBuffer THEN [send EXCEPT ![c] = Append(@, log[Len(log)])]
               ELSE send
    /\ UNCHANGED <<clients, closed, panicked, publisher, broadcast, log, joined, pumpVars>>

(* Mutant: the hub waits for room in the buffer.                           *)
Offer_Blocks(c) ==
    /\ c \in todo
    /\ Len(send[c]) < ClientBuffer
    /\ todo' = todo \ {c}
    /\ send' = [send EXCEPT ![c] = Append(@, log[Len(log)])]
    /\ UNCHANGED <<clients, closed, panicked, publisher, broadcast, log, joined, pumpVars>>

(* The event is offered without waiting; a client whose buffer is full is  *)
(* dropped and its channel closed.                                         *)
Offer(c) ==
    /\ c \in todo
    /\ todo' = todo \ {c}
    /\ \/ /\ Len(send[c]) < ClientBuffer
          /\ send' = [send EXCEPT ![c] = Append(@, log[Len(log)])]
          /\ panicked' = (panicked \/ c \in closed)
          /\ UNCHANGED <<clients, closed>>
       \/ /\ Len(send[c]) = ClientBuffer
          /\ CloseSend(c)
          /\ clients' = clients \ {c}
          /\ UNCHANGED send
    /\ UNCHANGED <<publisher, broadcast, log, joined, pumpVars>>

-----------------------------------------------------------------------------
(* The connections.                                                        *)

(* HandleWS, after the token was accepted and the connection upgraded.     *)
HandleWS(c) ==
    /\ reader[c] = "none"
    /\ reader' = [reader EXCEPT ![c] = "register"]
    /\ conn' = [conn EXCEPT ![c] = "open"]
    /\ UNCHANGED <<publisher, broadcast, hubVars, writer, got>>

(* The peer goes away, or the network does.                                *)
Disconnect(c) ==
    /\ conn[c] = "open"
    /\ conn' = [conn EXCEPT ![c] = "closed"]
    /\ UNCHANGED <<publisher, broadcast, hubVars, reader, writer, got>>

(* ReadMessage fails when the connection is closed, or when no pong came   *)
(* within 60 seconds.                                                      *)
ReadFails(c) ==
    /\ reader[c] = "read"
    /\ reader' = [reader EXCEPT ![c] = "unregister"]
    /\ UNCHANGED <<publisher, broadcast, hubVars, writer, conn, got>>

(* writePump takes a message and writes it; a write that fails ends the    *)
(* pump, which closes the connection.                                      *)
Write(c) ==
    /\ writer[c] = "run" /\ send[c] # <<>>
    /\ send' = [send EXCEPT ![c] = Tail(@)]
    /\ \/ /\ conn[c] = "open"
          /\ got' = [got EXCEPT ![c] = Append(@, Head(send[c]))]
          /\ UNCHANGED <<writer, conn>>
       \/ /\ writer' = [writer EXCEPT ![c] = "ended"]
          /\ conn' = [conn EXCEPT ![c] = "closed"]
          /\ UNCHANGED got
    /\ UNCHANGED <<publisher, broadcast, clients, closed, todo, panicked, log, joined, reader>>

(* Mutant: the write pump never pings, so only the end of its channel ends it. *)
WriterEnds_NoPing(c) ==
    /\ writer[c] = "run"
    /\ c \in closed /\ send[c] = <<>>
    /\ writer' = [writer EXCEPT ![c] = "ended"]
    /\ conn' = conn
    /\ UNCHANGED <<publisher, broadcast, hubVars, reader, got>>

(* The channel is closed and drained, or a ping on a closed connection fails. *)
WriterEnds(c) ==
    /\ writer[c] = "run"
    /\ (c \in closed /\ send[c] = <<>>) \/ conn[c] = "closed"
    /\ writer' = [writer EXCEPT ![c] = "ended"]
    /\ conn' = [conn EXCEPT ![c] = "closed"]
    /\ UNCHANGED <<publisher, broadcast, hubVars, reader, got>>

-----------------------------------------------------------------------------
HubStep == Take \/ \E c \in Client : Register(c) \/ Unregister(c) \/ Offer(c)

Next ==
    \/ \E p \in Publisher : Call(p) \/ Enqueue(p)
    \/ HubStep
    \/ \E c \in Client : HandleWS(c) \/ Disconnect(c) \/ ReadFails(c) \/ Write(c) \/ WriterEnds(c)

Spec == Init /\ [][Next]_vars

(* Goroutines that can run do.  A healthy connection may stay open for     *)
(* ever: only the reader of a closed one is sure to fail.                  *)
Fairness ==
    /\ WF_vars(HubStep)
    /\ \A c \in Client : /\ WF_vars(Register(c)) /\ WF_vars(Unregister(c))
                         /\ WF_vars(Write(c)) /\ WF_vars(WriterEnds(c))
                         /\ WF_vars(conn[c] = "closed" /\ ReadFails(c))
    /\ \A p \in Publisher : WF_vars(Enqueue(p))

FairSpec == Spec /\ Fairness

-----------------------------------------------------------------------------
(* Properties.                                                             *)

(* The hub never panics: of the two places that close a client's channel   *)
(* only the first one that comes does, and no event is offered after it.   *)
NoPanic == ~panicked

(* The hub implements the promise of Broadcast.                            *)
Promise == INSTANCE Broadcast WITH Event <- Publisher, from <- joined
KeepsPromise == Promise!Spec

(* No call of Broadcast waits for a slow client for ever.                  *)
BroadcastReturns == \A p \in Publisher : publisher[p] = "blocked" ~> publisher[p] = "returned"

(* A client the hub has dropped, or whose connection is gone, is forgotten *)
(* by everyone: the hub does not know it and both its pumps have ended.    *)
GoneIsForgotten ==
    \A c \in Client :
        conn[c] = "closed" \/ c \in closed ~>
            c \notin clients /\ reader[c] = "ended" /\ writer[c] = "ended"
=============================================================================
