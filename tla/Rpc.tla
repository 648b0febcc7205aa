-------------------------------- MODULE Rpc --------------------------------
(***************************************************************************)
(* The API's requests to the engine (manager.go) and the handlers that     *)
(* make them (event.go, order.go, and Signup in auth.go). A request is a   *)
(* goroutine: it checks or writes Postgres, subscribes to a channel of its *)
(* own, takes a sequence number, appends the command to the partition's    *)
(* stream with retries, and waits for the reply that carries its id, for a *)
(* deadline or until the client leaves. CREATE_EVENT deletes the row it    *)
(* inserted when it is not answered with success.                          *)
(*                                                                         *)
(* An append that failed may have taken effect. A reply reaches whoever is *)
(* subscribed when it is published, and may be lost. The engine executes   *)
(* the stream in order, and may execute an entry again (CommandLog). When  *)
(* it cannot announce an order it has taken, it forgets the order, but not *)
(* the cash it has reserved for it, and answers with a failure.            *)
(*                                                                         *)
(* Whether an order can be paid for is left to Engine. Requests that only  *)
(* read (depth, open orders) take the same way and change nothing.         *)
(***************************************************************************)
EXTENDS Integers, Sequences, FiniteSets

CONSTANTS
    Requests,          \* ids of HTTP requests
    Workloads,         \* what the requests may ask for
    Events, Orders,
    Channels,          \* what generateClientID may return
    Partitions,        \* partitions 0 .. Partitions - 1 of the fan-out
    MaxAppendRetries,
    MaxFaults,         \* bound on failed calls, lost replies and redeliveries
    NoChannel

ASSUME RpcAssumption ==
    /\ Workloads \subseteq
         [Requests -> [type : {"CREATE_EVENT", "CREATE_ORDER", "CANCEL_ORDER", "SIGNUP"},
                       event : Events, order : Orders]]
    /\ Partitions \in Nat \ {0}
    /\ MaxAppendRetries \in Nat \ {0}
    /\ MaxFaults \in Nat
    /\ NoChannel \notin Channels
    \* CreateEvent's INSERT makes up the id of its event.
    /\ \A w \in Workloads : \A r, s \in Requests :
          w[r].type = "CREATE_EVENT" /\ w[s].type = "CREATE_EVENT" /\ w[r].event = w[s].event
             => r = s
    \* A client that submits an order again does not move it to another event.
    /\ \A w \in Workloads : \A r, s \in Requests :
          w[r].type = "CREATE_ORDER" /\ w[s].type = "CREATE_ORDER" /\ w[r].order = w[s].order
             => w[r].event = w[s].event

VARIABLES
    work,       \* what each request asks for
    pc,         \* where its goroutine is
    channel,    \* the channel it is subscribed to
    tries,      \* appends it has tried
    inbox,      \* messages on its channel it has not looked at
    result,     \* how SendAndAwait ended
    rows,       \* events in Postgres
    projected,  \* orders the DB worker has inserted
    stream,     \* the partition's command stream
    executed,   \* entries the engine has executed
    markets,    \* the engine's markets
    orders,     \* and orders
    holds,      \* reservations in its ledger that were made for each order
    announced,  \* orders whose ORDER_CREATED is on the event stream
    runs,       \* executions of each request's command (history)
    takes,      \* those that changed the engine's state (history)
    leaks,      \* those whose order was forgotten again (history)
    granted,    \* partitions whose stream has each request's USER_CREATED
    faults,
    failed      \* requests with a fan-out in which an append failed (history)

apiVars == <<channel, tries, inbox, result>>
dbVars == <<rows, projected>>
engineVars == <<executed, markets, orders, holds, announced, runs, takes, leaks>>
faultVars == <<faults, failed>>
vars == <<work, pc, apiVars, dbVars, stream, engineVars, granted, faultVars>>

Entry == [req : Requests, channel : Channels]
Message == [req : Requests, success : BOOLEAN]
Steps == {"start", "send", "append", "await", "rollback", "fanout", "done"}

\* Every variable has its type, and no command was appended more often than
\* appendCommand allows.
TypeOK ==
    /\ work \in Workloads
    /\ pc \in [Requests -> Steps]
    /\ channel \in [Requests -> Channels \cup {NoChannel}]
    /\ tries \in [Requests -> 0 .. MaxAppendRetries]
    /\ inbox \in [Requests -> Seq(Message)]
    /\ result \in [Requests -> {"none", "ok", "refused", "error"}]
    /\ rows \subseteq Events
    /\ projected \subseteq Orders
    /\ stream \in Seq(Entry)
    /\ \A r \in Requests :
          Cardinality({i \in DOMAIN stream : stream[i].req = r}) <= MaxAppendRetries
    /\ executed \in 0 .. Len(stream)
    /\ markets \subseteq Events
    /\ orders \in [Orders -> {"none", "open", "canceled"}]
    /\ runs \in [Requests -> Nat]
    /\ holds \in [Orders -> Int]
    /\ announced \subseteq Orders
    /\ takes \in [Requests -> Nat]
    /\ leaks \in [Requests -> Nat]
    /\ granted \in [Requests -> SUBSET (0 .. Partitions - 1)]
    /\ faults \in 0 .. MaxFaults
    /\ failed \subseteq Requests

Init ==
    /\ work \in Workloads
    /\ pc = [r \in Requests |-> "start"]
    /\ channel = [r \in Requests |-> NoChannel]
    /\ tries = [r \in Requests |-> 0]
    /\ inbox = [r \in Requests |-> << >>]
    /\ result = [r \in Requests |-> "none"]
    /\ rows = {}
    /\ projected = {}
    /\ stream = << >>
    /\ executed = 0
    /\ markets = {}
    /\ orders = [o \in Orders |-> "none"]
    /\ runs = [r \in Requests |-> 0]
    /\ holds = [o \in Orders |-> 0]
    /\ announced = {}
    /\ takes = [r \in Requests |-> 0]
    /\ leaks = [r \in Requests |-> 0]
    /\ granted = [r \in Requests |-> {}]
    /\ faults = 0
    /\ failed = {}

Goto(r, step) == pc' = [pc EXCEPT ![r] = step]

\* A call to Redis fails.
Fails ==
    /\ faults < MaxFaults
    /\ faults' = faults + 1

\* SendAndAwait returns: the subscription is closed, and CreateEvent goes on
\* to its rollback unless the answer was success.
Return(r, how) ==
    /\ result' = [result EXCEPT ![r] = how]
    /\ channel' = [channel EXCEPT ![r] = NoChannel]
    /\ inbox' = [inbox EXCEPT ![r] = << >>]
    /\ tries' = [tries EXCEPT ![r] = 0]
    /\ Goto(r, IF work[r].type = "CREATE_EVENT" /\ how # "ok" THEN "rollback" ELSE "done")

-----------------------------------------------------------------------------
(* The handlers                                                            *)

\* CreateEvent inserts the row and asks for a market.
CreateEvent(r) ==
    /\ pc[r] = "start"
    /\ work[r].type = "CREATE_EVENT"
    /\ rows' = rows \cup {work[r].event}
    /\ Goto(r, "send")
    /\ UNCHANGED <<work, apiVars, projected, stream, engineVars, granted, faultVars>>

\* CreateOrder looks the event up and sends the order, or answers at once.
CreateOrder(r) ==
    /\ pc[r] = "start"
    /\ work[r].type = "CREATE_ORDER"
    /\ Goto(r, IF work[r].event \in rows THEN "send" ELSE "done")
    /\ UNCHANGED <<work, apiVars, dbVars, stream, engineVars, granted, faultVars>>

\* DeleteOrder looks the order up and sends the cancellation.
DeleteOrder(r) ==
    /\ pc[r] = "start"
    /\ work[r].type = "CANCEL_ORDER"
    /\ Goto(r, IF work[r].order \in projected THEN "send" ELSE "done")
    /\ UNCHANGED <<work, apiVars, dbVars, stream, engineVars, granted, faultVars>>

\* Signup stores the user and fans USER_CREATED out.
Signup(r) ==
    /\ pc[r] = "start"
    /\ work[r].type = "SIGNUP"
    /\ Goto(r, "fanout")
    /\ UNCHANGED <<work, apiVars, dbVars, stream, engineVars, granted, faultVars>>

\* The event that order o is on.
OnEvent(o, e) ==
    \E r \in Requests : work[r].type = "CREATE_ORDER" /\ work[r].order = o /\ work[r].event = e

\* DeleteEvent takes the rows of the event's orders along (ON DELETE CASCADE).
\* It runs under the request's context: when the client has left it fails,
\* nobody looks at the error, and the row stays.
Rollback(r) ==
    /\ pc[r] = "rollback"
    /\ \/ /\ rows' = rows \ {work[r].event}
          /\ projected' = {o \in projected : ~OnEvent(o, work[r].event)}
       \/ UNCHANGED dbVars
    /\ Goto(r, "done")
    /\ UNCHANGED <<work, apiVars, stream, engineVars, granted, faultVars>>

\* A fault: the loop ends one partition early.
FanoutShort(r) ==
    /\ pc[r] = "fanout"
    /\ LET p == Cardinality(granted[r])
       IN  /\ granted' = [granted EXCEPT ![r] = @ \cup {p}]
           /\ IF p + 1 >= Partitions - 1 THEN Goto(r, "done") ELSE UNCHANGED pc
    /\ UNCHANGED <<work, apiVars, dbVars, stream, engineVars, faultVars>>

\* SendCommandFanout appends USER_CREATED to the next partition's stream.
Fanout(r) ==
    /\ pc[r] = "fanout"
    /\ LET p == Cardinality(granted[r])
       IN  /\ granted' = [granted EXCEPT ![r] = @ \cup {p}]
           /\ IF p + 1 = Partitions THEN Goto(r, "done") ELSE UNCHANGED pc
    /\ UNCHANGED <<work, apiVars, dbVars, stream, engineVars, faultVars>>

\* An append of the fan-out fails, whether or not it took effect: the rest is
\* not tried, and Signup answers as if nothing had happened.
FanoutFails(r) ==
    /\ pc[r] = "fanout"
    /\ Fails
    /\ \E effect \in BOOLEAN :
          granted' = IF effect
                     THEN [granted EXCEPT ![r] = @ \cup {Cardinality(@)}]
                     ELSE granted
    /\ failed' = failed \cup {r}
    /\ Goto(r, "done")
    /\ UNCHANGED <<work, apiVars, dbVars, stream, engineVars>>

-----------------------------------------------------------------------------
(* SendAndAwaitWithTimeout                                                 *)

\* The request subscribes to a channel with a random name, waits until that is
\* confirmed, and makes the envelope (createEnvelope; its number from INCR is
\* only ever logged).
Subscribe(r) ==
    /\ pc[r] = "send"
    /\ \E c \in Channels : channel' = [channel EXCEPT ![r] = c]
    /\ Goto(r, "append")
    /\ UNCHANGED <<work, tries, inbox, result, dbVars, stream, engineVars, granted, faultVars>>

\* The subscription is not confirmed in time: nothing was sent.
SubscribeFails(r) ==
    /\ pc[r] = "send"
    /\ Fails
    /\ Return(r, "error")
    /\ UNCHANGED <<work, dbVars, stream, engineVars, granted, failed>>

Appended(r) == Append(stream, [req |-> r, channel |-> channel[r]])

\* XADD succeeds.
AppendCommand(r) ==
    /\ pc[r] = "append"
    /\ tries' = [tries EXCEPT ![r] = @ + 1]
    /\ stream' = Appended(r)
    /\ Goto(r, "await")
    /\ UNCHANGED <<work, channel, inbox, result, dbVars, engineVars, granted, faultVars>>

\* XADD fails, whether or not it took effect: it is tried again, until
\* MaxAppendRetries appends have failed.
AppendFails(r) ==
    /\ pc[r] = "append"
    /\ Fails
    /\ \E effect \in BOOLEAN : stream' = IF effect THEN Appended(r) ELSE stream
    /\ IF tries[r] + 1 = MaxAppendRetries
       THEN Return(r, "error")
       ELSE /\ tries' = [tries EXCEPT ![r] = @ + 1]
            /\ UNCHANGED <<pc, channel, inbox, result>>
    /\ UNCHANGED <<work, dbVars, engineVars, granted, failed>>

\* A fault: any message on the channel counts.
AwaitResponseAny(r) ==
    /\ pc[r] = "await"
    /\ inbox[r] # << >>
    /\ Return(r, IF Head(inbox[r]).success THEN "ok" ELSE "refused")
    /\ UNCHANGED <<work, dbVars, stream, engineVars, granted, faultVars>>

\* awaitResponse looks at the next message: only the reply with the request's
\* own id counts.
AwaitResponse(r) ==
    /\ pc[r] = "await"
    /\ inbox[r] # << >>
    /\ IF Head(inbox[r]).req = r
       THEN Return(r, IF Head(inbox[r]).success THEN "ok" ELSE "refused")
       ELSE /\ inbox' = [inbox EXCEPT ![r] = Tail(@)]
            /\ UNCHANGED <<pc, channel, tries, result>>
    /\ UNCHANGED <<work, dbVars, stream, engineVars, granted, faultVars>>

\* The deadline passes, the client leaves, or the subscription breaks.
GiveUp(r) ==
    /\ pc[r] = "await"
    /\ Return(r, "error")
    /\ UNCHANGED <<work, dbVars, stream, engineVars, granted, faultVars>>

-----------------------------------------------------------------------------
(* The engine and the DB worker, as far as the requests see them           *)

\* A fault: a known order is created again.
TakesAgain(w) ==
    CASE w.type = "CREATE_EVENT" -> w.event \notin markets
      [] w.type = "CREATE_ORDER" -> w.event \in markets
      [] w.type = "CANCEL_ORDER" -> orders[w.order] = "open"

\* The commands that change the engine's state.
Takes(w) ==
    CASE w.type = "CREATE_EVENT" -> w.event \notin markets
      [] w.type = "CREATE_ORDER" -> w.event \in markets /\ orders[w.order] = "none"
      [] w.type = "CANCEL_ORDER" -> orders[w.order] = "open"

\* A fault: a market that exists already is an error.
ConfirmsNewEvent(w) ==
    Takes(w) \/ (w.type = "CREATE_ORDER" /\ w.event \in markets /\ orders[w.order] # "none")

\* A market, or an order, that exists already is confirmed.
Confirms(w) ==
    \/ Takes(w)
    \/ w.type = "CREATE_EVENT"
    \/ w.type = "CREATE_ORDER" /\ w.event \in markets /\ orders[w.order] # "none"

\* The reply is published to the channel in the entry: every request that is
\* subscribed gets it, unless it is lost.
Publish(entry, success) ==
    inbox' = [r \in Requests |->
                IF channel[r] = entry.channel
                THEN Append(inbox[r], [req |-> entry.req, success |-> success])
                ELSE inbox[r]]

\* What a command that is taken adds to the reservations for its order: a new
\* order is paid for, a canceled one gives its reservation back.
Holds(w) ==
    CASE w.type = "CREATE_ORDER" -> 1
      [] w.type = "CANCEL_ORDER" -> -1
      [] OTHER -> 0

\* handleMessage, and the reply when it is not lost on its way.
Execute(entry, heard) ==
    LET w == work[entry.req]
    IN  /\ markets' = IF w.type = "CREATE_EVENT" THEN markets \cup {w.event} ELSE markets
        /\ orders' = CASE w.type = "CREATE_ORDER" /\ Takes(w) -> [orders EXCEPT ![w.order] = "open"]
                       [] w.type = "CANCEL_ORDER" /\ Takes(w) -> [orders EXCEPT ![w.order] = "canceled"]
                       [] OTHER -> orders
        /\ holds' = IF Takes(w) THEN [holds EXCEPT ![w.order] = @ + Holds(w)] ELSE holds
        /\ announced' = IF w.type = "CREATE_ORDER" /\ Takes(w)
                        THEN announced \cup {w.order} ELSE announced
        /\ runs' = [runs EXCEPT ![entry.req] = @ + 1]
        /\ takes' = IF Takes(w) THEN [takes EXCEPT ![entry.req] = @ + 1] ELSE takes
        /\ UNCHANGED leaks
        /\ IF heard THEN Publish(entry, Confirms(w)) ELSE UNCHANGED inbox

\* handleCreateOrderCore when it cannot emit ORDER_CREATED: the order is
\* deleted again, its reservation is not, and the answer is a failure. The
\* event may be on the stream all the same.
ExecuteEmitFails(entry) ==
    LET w == work[entry.req]
    IN  /\ w.type = "CREATE_ORDER" /\ Takes(w)
        /\ holds' = [holds EXCEPT ![w.order] = @ + 1]
        /\ announced' \in {announced, announced \cup {w.order}}
        /\ runs' = [runs EXCEPT ![entry.req] = @ + 1]
        /\ takes' = [takes EXCEPT ![entry.req] = @ + 1]
        /\ leaks' = [leaks EXCEPT ![entry.req] = @ + 1]
        /\ Publish(entry, FALSE)
        /\ UNCHANGED <<markets, orders>>

\* The engine handles the next entry of the stream.
EngineStep ==
    /\ executed < Len(stream)
    /\ Execute(stream[executed + 1], TRUE)
    /\ executed' = executed + 1
    /\ UNCHANGED <<work, pc, channel, tries, result, dbVars, stream, granted, faultVars>>

\* The same, and the reply is lost: PUBLISH fails or the connection breaks.
EngineStepUnheard ==
    /\ executed < Len(stream)
    /\ Fails
    /\ Execute(stream[executed + 1], FALSE)
    /\ executed' = executed + 1
    /\ UNCHANGED <<work, pc, channel, tries, result, dbVars, stream, granted, failed>>

\* The same, and the order cannot be announced.
EngineStepEmitFails ==
    /\ executed < Len(stream)
    /\ Fails
    /\ ExecuteEmitFails(stream[executed + 1])
    /\ executed' = executed + 1
    /\ UNCHANGED <<work, pc, channel, tries, result, dbVars, stream, granted, failed>>

\* An entry that was not acknowledged is handled again.
Redeliver ==
    /\ \E i \in 1 .. executed :
          Fails /\ (Execute(stream[i], TRUE) \/ ExecuteEmitFails(stream[i]))
    /\ UNCHANGED <<work, pc, channel, tries, result, dbVars, stream, executed, granted, failed>>

\* The DB worker inserts an order. The row refers to the event's: without that
\* the insert fails, now and at every retry.
Project(o) ==
    /\ o \in announced \ projected
    /\ \E e \in rows : OnEvent(o, e)
    /\ projected' = projected \cup {o}
    /\ UNCHANGED <<work, pc, apiVars, rows, stream, engineVars, granted, faultVars>>

-----------------------------------------------------------------------------
\* One step of a request, without failing calls.
RequestStep(r) ==
    \/ CreateEvent(r) \/ CreateOrder(r) \/ DeleteOrder(r) \/ Signup(r)
    \/ Rollback(r) \/ Fanout(r)
    \/ Subscribe(r) \/ AppendCommand(r) \/ AwaitResponse(r) \/ GiveUp(r)

RequestFault(r) ==
    SubscribeFails(r) \/ AppendFails(r) \/ FanoutFails(r)

Next ==
    \/ \E r \in Requests : RequestStep(r) \/ RequestFault(r)
    \/ EngineStep
    \/ EngineStepUnheard
    \/ EngineStepEmitFails
    \/ Redeliver
    \/ \E o \in Orders : Project(o)

Spec == Init /\ [][Next]_vars

-----------------------------------------------------------------------------
(* Properties                                                              *)

\* What a client is told is true, whatever else was published on its channel.
\* On success the event has its row and its market, the order is known to the
\* engine, or canceled. A command that was refused has changed nothing, with
\* two exceptions: it was executed more than once, where the copy that was
\* refused may come before the one that is taken, or its reply may be the only
\* one to arrive; or its order could not be announced, and the engine does not
\* know the order (unless another copy was taken) but keeps its reservation.
AnswersTrue ==
    \A r \in Requests :
        /\ result[r] = "ok" =>
              CASE work[r].type = "CREATE_EVENT" -> work[r].event \in rows \cap markets
                [] work[r].type = "CREATE_ORDER" -> orders[work[r].order] # "none"
                [] work[r].type = "CANCEL_ORDER" -> orders[work[r].order] = "canceled"
        /\ result[r] = "refused" /\ runs[r] = 1 =>
              \/ takes[r] = 0
              \/ takes[r] = leaks[r] /\ holds[work[r].order] > 0

\* The executions of r's command whose effect stays.
Kept(r) == takes[r] - leaks[r]

\* "Commands are idempotent, so a retried append is safe": an order is created
\* once and canceled once, however often its commands are in the stream, and
\* the ledger holds one reservation for it while it is open and none later.
\* Only a copy whose order could not be announced is not safe: it leaves a
\* reservation that nothing will release.
TakenOnce ==
    /\ \A r, s \in Requests :
          /\ work[r].type \in {"CREATE_ORDER", "CANCEL_ORDER"}
          /\ work[s].type = work[r].type
          /\ work[s].order = work[r].order
          => Kept(r) + (IF s = r THEN 0 ELSE Kept(s)) <= 1
    /\ \A o \in Orders :
          LET own == IF orders[o] = "open" THEN 1 ELSE 0
          IN  IF \E r \in Requests : work[r].order = o /\ leaks[r] > 0
              THEN holds[o] > own
              ELSE holds[o] = own

\* Postgres and the engine agree on the event a client asked for, unless the
\* client was never answered. Only then may the row be gone and the market be
\* there, with orders the DB worker can never insert, or the row be there and
\* the market not, for the moment or for ever.
EventsAgree ==
    \A r \in Requests :
        work[r].type = "CREATE_EVENT" /\ pc[r] = "done" /\ result[r] # "error" =>
            (work[r].event \in rows <=> work[r].event \in markets)

\* A user who has signed up has a starting balance in every partition, unless
\* an append failed, which nobody retries.
FundedEverywhere ==
    \A r \in Requests :
        work[r].type = "SIGNUP" /\ pc[r] = "done" /\ r \notin failed =>
            granted[r] = 0 .. Partitions - 1
=============================================================================
