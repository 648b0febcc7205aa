---------------------------- MODULE WebSocketHub ----------------------------
(***************************************************************************)
(* The WebSocket process: the hub, its clients and the subscriber that     *)
(* feeds it (hub.go, client.go, redis.go, server.go). Every client has two *)
(* goroutines: ReadPump handles what the peer sends and unregisters the    *)
(* client in the end; WritePump writes what is in the client's buffer. The *)
(* subscriber copies the clients of an event under the hub's lock and then *)
(* sends to each without it; a client whose buffer is full is closed.      *)
(* close() may be called by all three, and runs in two steps: the flag, and *)
(* then the channel and the connection.                                    *)
(*                                                                         *)
(* A send to a closed channel panics, and a panic ends the process.        *)
(***************************************************************************)
EXTENDS Integers, Subsequences, FiniteSets

CONSTANTS
    Clients,      \* connections the process may ever have
    Events,
    BufferSize,   \* sendBufferSize
    MaxMessages   \* bound on the updates the subscriber receives

ASSUME HubAssumption ==
    /\ IsFiniteSet(Clients)
    /\ BufferSize \in Nat \ {0}
    /\ MaxMessages \in Nat

VARIABLES
    clients,        \* hub.clients
    subscriptions,  \* hub.subscriptions: the clients of each event
    closed,         \* c.closed
    closings,       \* how often c.send was closed
    connected,      \* clients whose connection is not closed
    buffer,         \* c.send: numbers of updates, or an error message
    reader,         \* where ReadPump is
    writer,         \* where WritePump is
    targets,        \* clients the subscriber has still to send to
    sending,        \* where the subscriber is with the first of them
    received,       \* updates received from Redis
    owed,           \* updates broadcast to each client, till it is closed, and not written (history)
    panicked

hubVars == <<clients, subscriptions>>
closeVars == <<closed, closings, connected, owed>>
subscriberVars == <<targets, sending, received>>
vars == <<hubVars, closeVars, buffer, reader, writer, subscriberVars, panicked>>

Error == 0
Closing == {"closeFlag", "closeSend"}

\* Every variable has its type, and no buffer holds more than it can.
TypeOK ==
    /\ clients \subseteq Clients
    /\ subscriptions \in [Events -> SUBSET Clients]
    /\ closed \in [Clients -> BOOLEAN]
    /\ closings \in [Clients -> Nat]
    /\ connected \subseteq Clients
    /\ buffer \in [Clients -> Seq(0 .. MaxMessages)]
    /\ \A c \in Clients : Len(buffer[c]) <= BufferSize
    /\ reader \in [Clients -> {"none", "read", "done"} \cup Closing]
    /\ writer \in [Clients -> {"none", "write", "done"} \cup Closing]
    /\ targets \in Seq(Clients)
    /\ sending \in {"send"} \cup Closing
    /\ received \in 0 .. MaxMessages
    /\ owed \in [Clients -> Seq(1 .. MaxMessages)]
    /\ panicked \in BOOLEAN

Init ==
    /\ clients = {}
    /\ subscriptions = [e \in Events |-> {}]
    /\ closed = [c \in Clients |-> FALSE]
    /\ closings = [c \in Clients |-> 0]
    /\ connected = {}
    /\ buffer = [c \in Clients |-> << >>]
    /\ reader = [c \in Clients |-> "none"]
    /\ writer = [c \in Clients |-> "none"]
    /\ targets = << >>
    /\ sending = "send"
    /\ received = 0
    /\ owed = [c \in Clients |-> << >>]
    /\ panicked = FALSE

\* Server.Handle: the client is registered and its goroutines start.
Handle(c) ==
    /\ ~panicked
    /\ reader[c] = "none"
    /\ clients' = clients \cup {c}
    /\ connected' = connected \cup {c}
    /\ reader' = [reader EXCEPT ![c] = "read"]
    /\ writer' = [writer EXCEPT ![c] = "write"]
    /\ UNCHANGED <<subscriptions, closed, closings, owed, buffer, subscriberVars, panicked>>

-----------------------------------------------------------------------------
(* close() and Send, for whichever goroutine calls them                    *)

\* A fault: the flag is set when the channel is closed, outside the lock.
CloseStepLate(c, stage) ==
    /\ closed' = IF stage = "closeSend" THEN [closed EXCEPT ![c] = TRUE] ELSE closed
    /\ closings' = IF stage = "closeSend" THEN [closings EXCEPT ![c] = @ + 1] ELSE closings
    /\ connected' = IF stage = "closeSend" THEN connected \ {c} ELSE connected
    /\ buffer' = IF stage = "closeSend" THEN [buffer EXCEPT ![c] = << >>] ELSE buffer
    /\ owed' = [owed EXCEPT ![c] = << >>]

\* A fault: the connection is left open.
CloseStepHalf(c, stage) ==
    /\ closed' = IF stage = "closeFlag" THEN [closed EXCEPT ![c] = TRUE] ELSE closed
    /\ closings' = IF stage = "closeSend" THEN [closings EXCEPT ![c] = @ + 1] ELSE closings
    /\ buffer' = IF stage = "closeSend" THEN [buffer EXCEPT ![c] = << >>] ELSE buffer
    /\ owed' = [owed EXCEPT ![c] = << >>]
    /\ UNCHANGED connected

\* One step of close(). The flag is tested and set under c.mu; close(c.send)
\* and conn.Close() follow outside it. What is left in the buffer then counts
\* as lost, although WritePump may still write some of it between the two.
CloseStep(c, stage) ==
    /\ closed' = IF stage = "closeFlag" THEN [closed EXCEPT ![c] = TRUE] ELSE closed
    /\ closings' = IF stage = "closeSend" THEN [closings EXCEPT ![c] = @ + 1] ELSE closings
    /\ connected' = IF stage = "closeSend" THEN connected \ {c} ELSE connected
    /\ buffer' = IF stage = "closeSend" THEN [buffer EXCEPT ![c] = << >>] ELSE buffer
    /\ owed' = [owed EXCEPT ![c] = << >>]

\* Where the goroutine that took that step goes: whoever finds the flag set
\* returns at once.
AfterClose(c, stage, end) == IF stage = "closeFlag" /\ ~closed[c] THEN "closeSend" ELSE end

\* A fault: an update is dropped when the buffer is full.
SendDropping(c, m, done, full) ==
    /\ panicked' = (closings[c] > 0)
    /\ buffer' = IF closings[c] = 0 /\ Len(buffer[c]) < BufferSize
                 THEN [buffer EXCEPT ![c] = Append(@, m)] ELSE buffer
    /\ done

\* A fault: the sender waits for room.
SendBlocking(c, m, done, full) ==
    /\ panicked' = (closings[c] > 0)
    /\ closings[c] = 0 => Len(buffer[c]) < BufferSize
    /\ buffer' = IF closings[c] = 0 THEN [buffer EXCEPT ![c] = Append(@, m)] ELSE buffer
    /\ done

\* Client.Send of message m: a panic when the channel is closed, a place in
\* the buffer when there is one, and close() when there is none. "done" and
\* "full" say how the caller goes on.
Send(c, m, done, full) ==
    IF closings[c] > 0
    THEN panicked' = TRUE /\ done /\ UNCHANGED buffer
    ELSE /\ UNCHANGED panicked
         /\ IF Len(buffer[c]) < BufferSize
            THEN buffer' = [buffer EXCEPT ![c] = Append(@, m)] /\ done
            ELSE full /\ UNCHANGED buffer

-----------------------------------------------------------------------------
(* The subscriber                                                          *)

\* BroadcastEvent copies the event's clients under the read lock, in the order
\* the map happens to give them.
Targets(e) ==
    {t \in [1 .. Cardinality(subscriptions[e]) -> subscriptions[e]] :
        \A i, j \in DOMAIN t : t[i] = t[j] => i = j}

\* A trade or a depth update of event e arrives from Redis and is broadcast.
\* Anything else, or what cannot be decoded, is dropped.
Broadcast(e) ==
    /\ ~panicked
    /\ targets = << >>
    /\ received < MaxMessages
    /\ received' = received + 1
    /\ targets' \in Targets(e)
    /\ owed' = [c \in Clients |->
                  IF c \in subscriptions[e] /\ ~closed[c] THEN Append(owed[c], received') ELSE owed[c]]
    /\ UNCHANGED <<hubVars, closed, closings, connected, buffer, reader, writer, sending, panicked>>

\* It sends the update to the next of them, without the lock.
SendNext ==
    /\ ~panicked
    /\ targets # << >>
    /\ sending = "send"
    /\ Send(Head(targets), received,
            targets' = Tail(targets) /\ UNCHANGED sending,
            sending' = "closeFlag" /\ UNCHANGED targets)
    /\ UNCHANGED <<hubVars, closeVars, reader, writer, received>>

\* It closes a client that was too slow.
CloseSlow ==
    LET c == Head(targets)
    IN  /\ ~panicked
        /\ sending \in Closing
        /\ CloseStep(c, sending)
        /\ sending' = AfterClose(c, sending, "send")
        /\ targets' = IF sending' = "send" THEN Tail(targets) ELSE targets
        /\ UNCHANGED <<hubVars, reader, writer, received, panicked>>

-----------------------------------------------------------------------------
(* ReadPump. A connection that was closed may still have messages in its   *)
(* read buffer, so that reading ends some time after.                      *)

\* handleMessage: SUBSCRIBE. The client keeps the event in a set of its own,
\* which nothing reads.
Subscribe(c, e) ==
    /\ ~panicked
    /\ reader[c] = "read"
    /\ subscriptions' = [subscriptions EXCEPT ![e] = @ \cup {c}]
    /\ UNCHANGED <<clients, closeVars, buffer, reader, writer, subscriberVars, panicked>>

\* handleMessage: UNSUBSCRIBE.
Unsubscribe(c, e) ==
    /\ ~panicked
    /\ reader[c] = "read"
    /\ subscriptions' = [subscriptions EXCEPT ![e] = @ \ {c}]
    /\ UNCHANGED <<clients, closeVars, buffer, reader, writer, subscriberVars, panicked>>

\* Any other message is answered with an error.
SendError(c) ==
    /\ ~panicked
    /\ reader[c] = "read"
    /\ Send(c, Error, UNCHANGED reader, reader' = [reader EXCEPT ![c] = "closeFlag"])
    /\ UNCHANGED <<hubVars, closeVars, writer, subscriberVars>>

\* Reading fails: the peer has left, was silent for pongWait, or the connection
\* was closed. ReadPump ends, and Hub.Unregister is the first thing it does.
Unregister(c) ==
    /\ ~panicked
    /\ reader[c] = "read"
    /\ clients' = clients \ {c}
    /\ subscriptions' = [e \in Events |-> subscriptions[e] \ {c}]
    /\ reader' = [reader EXCEPT ![c] = "closeFlag"]
    /\ UNCHANGED <<closeVars, buffer, writer, subscriberVars, panicked>>

\* close(), called by Send on a full buffer or, once unregistered, in the end.
ReaderCloses(c) ==
    /\ ~panicked
    /\ reader[c] \in Closing
    /\ CloseStep(c, reader[c])
    /\ reader' = [reader EXCEPT ![c] =
                    AfterClose(c, @, IF c \in clients THEN "read" ELSE "done")]
    /\ UNCHANGED <<hubVars, writer, subscriberVars, panicked>>

-----------------------------------------------------------------------------
(* WritePump                                                               *)

\* The next message is written to a connection that is still open.
Write(c) ==
    /\ ~panicked
    /\ writer[c] = "write"
    /\ buffer[c] # << >>
    /\ c \in connected
    /\ buffer' = [buffer EXCEPT ![c] = Tail(@)]
    /\ owed' = [owed EXCEPT ![c] = IF @ # << >> /\ Head(@) = Head(buffer[c]) THEN Tail(@) ELSE @]
    /\ UNCHANGED <<hubVars, closed, closings, connected, reader, writer, subscriberVars, panicked>>

\* A write or a ping fails, or the channel is closed and empty.
WriteEnds(c) ==
    /\ ~panicked
    /\ writer[c] = "write"
    /\ \/ buffer[c] # << >> /\ buffer' = [buffer EXCEPT ![c] = Tail(@)]
       \/ UNCHANGED buffer
    /\ writer' = [writer EXCEPT ![c] = "closeFlag"]
    /\ UNCHANGED <<hubVars, closeVars, reader, subscriberVars, panicked>>

WriterCloses(c) ==
    /\ ~panicked
    /\ writer[c] \in Closing
    /\ CloseStep(c, writer[c])
    /\ writer' = [writer EXCEPT ![c] = AfterClose(c, @, "done")]
    /\ UNCHANGED <<hubVars, reader, subscriberVars, panicked>>

-----------------------------------------------------------------------------
Subscriber == SendNext \/ CloseSlow

ReadPump(c) ==
    \/ \E e \in Events : Subscribe(c, e) \/ Unsubscribe(c, e)
    \/ SendError(c) \/ Unregister(c) \/ ReaderCloses(c)

WritePump(c) == Write(c) \/ WriteEnds(c) \/ WriterCloses(c)

Next ==
    \/ \E e \in Events : Broadcast(e)
    \/ Subscriber
    \/ \E c \in Clients : Handle(c) \/ ReadPump(c) \/ WritePump(c)

Spec == Init /\ [][Next]_vars

\* The subscriber goes on with an update it has received. A goroutine goes on
\* with what it does without its peer. Once the connection is closed reading
\* and writing fail in the end; before that a peer may keep them waiting.
FairSpec ==
    /\ Spec
    /\ WF_vars(Subscriber)
    /\ \A c \in Clients :
          /\ WF_vars(ReaderCloses(c) \/ (c \notin connected /\ Unregister(c)))
          /\ WF_vars(WriterCloses(c) \/ (c \notin connected /\ WriteEnds(c)))

-----------------------------------------------------------------------------
(* Properties                                                              *)

\* The channel of a client is closed once, whoever calls close() and however
\* often: a second close would panic.
ClosedOnce == \A c \in Clients : closings[c] <= 1

\* A client that is not closed misses no update of an event it is subscribed
\* to, and gets them in order: what is owed to it is in its buffer, or about to
\* be sent. Once the flag is set that is over: until the channel is closed the
\* client may get an update after the one it was closed for.
NoGaps ==
    \A c \in Clients :
        writer[c] = "write" /\ ~closed[c] =>
            owed[c] = Filter(buffer[c], 1 .. MaxMessages)
                      \o IF \E i \in DOMAIN targets : targets[i] = c THEN <<received>> ELSE << >>

\* No client, however slow, keeps the subscriber from the next update.
BroadcastEnds == targets # << >> ~> targets = << >> \/ panicked

\* A client that was closed, by whomever, is gone in the end, and stays away:
\* it is not registered, no event has it as a subscriber, and its goroutines
\* have ended. So the time in which a send can meet its closed channel, and
\* bring the process down, ends.
ClosedLeave ==
    \A c \in Clients :
        closed[c] ~> [](\/ panicked
                       \/ /\ c \notin clients
                          /\ \A e \in Events : c \notin subscriptions[e]
                          /\ reader[c] = "done" /\ writer[c] = "done")

\* No message is sent to a client that was closed.
NoPanic == ~panicked
=============================================================================
