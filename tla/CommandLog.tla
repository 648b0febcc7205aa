----------------------------- MODULE CommandLog -----------------------------
(***************************************************************************)
(* The durable command log of one partition and the engines that consume   *)
(* it (replay.go, and consumeMessages and processStreamEntry in engine.go, *)
(* called from runPartition in worker.go). An engine that gets the lease   *)
(* replays the whole stream into the memory it has, with the emission of   *)
(* events suppressed; then it claims what others left pending, and reads   *)
(* on where the consumer group stands. Commands it handles now are         *)
(* emitted, answered and acknowledged.                                     *)
(*                                                                         *)
(* A command creates or cancels an order. Of the engine's memory only the  *)
(* partition's own part is kept: which orders are open or closed (Engine   *)
(* has the rest). Whether the user can pay for a new order is decided by   *)
(* e.balances, one ledger that the workers and the replays of all          *)
(* partitions of the process change at any time, so here it is a choice    *)
(* that every execution of the command makes anew.                         *)
(*                                                                         *)
(* Not here: failing emits (Outbox) and the fencing of what an engine      *)
(* emits after it has lost its lease (PartitionOwnership).                 *)
(***************************************************************************)
EXTENDS Integers, Sequences, FiniteSetsExt

CONSTANTS
    Engines,    \* engine processes that compete for the partition
    Orders,     \* ids clients give to their orders
    BatchSize,  \* Count of XREADGROUP
    MaxLog,     \* bound on the commands in the stream
    MaxFaults,  \* bound on crashes, lost leases and failed calls to Redis
    Free        \* value of lease while no engine holds it

ASSUME CommandLogAssumption ==
    /\ BatchSize \in Nat \ {0}
    /\ MaxLog \in Nat
    /\ MaxFaults \in Nat
    /\ Free \notin Engines

VARIABLES
    log,       \* the command stream
    cursor,    \* last entry the group has delivered
    pending,   \* entries delivered and not acknowledged
    lease,     \* the engine that holds the lease in Redis
    valid,     \* engines whose partition context is not canceled
    phase,     \* where each engine is in runPartition
    todo,      \* entries it has still to replay or to handle
    memory,    \* its orders
    created,   \* orders whose ORDER_CREATED was emitted
    canceled,  \* orders whose ORDER_CANCELED was
    live,      \* entries executed outside replay (history)
    unemitted, \* entries a replay was the first to take (history)
    taken,     \* entries an execution took (history)
    refused,   \* entries an execution refused (history)
    mishaps,   \* what has happened that may spoil an engine's memory (history)
    faults

logVars == <<log, cursor, pending>>
outVars == <<created, canceled>>
historyVars == <<live, unemitted, taken, refused, mishaps>>
vars == <<logVars, lease, valid, phase, todo, memory, outVars, historyVars, faults>>

-----------------------------------------------------------------------------
(* Commands                                                                *)

Command == [type : {"CREATE_ORDER", "CANCEL_ORDER"}, order : Orders]
Memory == [open : SUBSET Orders, closed : SUBSET Orders]
Blank == [open |-> {}, closed |-> {}]

Known(m) == m.open \cup m.closed

\* handleCreateOrderCore takes an order it does not know yet and whose user
\* has the cash (reserveOrderLocked); handleCancelOrderP takes one that is open.
Takes(m, c, pays) ==
    IF c.type = "CREATE_ORDER" THEN c.order \notin Known(m) /\ pays ELSE c.order \in m.open

\* The user cannot pay, or the order to cancel is not there. (A client that
\* submits a known order again is told that it succeeded.)
Refuses(m, c, pays) == c.order \notin Known(m) /\ ~Takes(m, c, pays)

\* What the command makes of the memory.
Execute(m, c, pays) ==
    CASE ~Takes(m, c, pays) -> m
      [] Takes(m, c, pays) /\ c.type = "CREATE_ORDER" -> [m EXCEPT !.open = @ \cup {c.order}]
      [] OTHER -> [open |-> m.open \ {c.order}, closed |-> m.closed \cup {c.order}]

\* The memory of an engine that executes the first n commands, each once, and
\* finds the cash for those that were taken.
Replayed(n) ==
    LET after[i \in 0 .. n] ==
            IF i = 0 THEN Blank ELSE Execute(after[i - 1], log[i], i \in taken)
    IN  after[n]

-----------------------------------------------------------------------------
Consuming == {"read", "handle", "ack"}

\* Every variable has its type.
TypeOK ==
    /\ log \in Seq(Command) /\ Len(log) <= MaxLog
    /\ cursor \in 0 .. Len(log)
    /\ pending \subseteq 1 .. cursor
    /\ lease \in Engines \cup {Free}
    /\ valid \subseteq Engines
    /\ phase \in [Engines -> {"idle", "replay"} \cup Consuming]
    /\ todo \in [Engines -> SUBSET (1 .. Len(log))]
    /\ memory \in [Engines -> Memory]
    /\ \A e \in Engines : memory[e].open \cap memory[e].closed = {}
    /\ created \subseteq Orders
    /\ canceled \subseteq Orders
    /\ live \subseteq 1 .. Len(log)
    /\ unemitted \subseteq 1 .. Len(log)
    /\ taken \subseteq 1 .. Len(log)
    /\ refused \subseteq 1 .. Len(log)
    /\ mishaps \subseteq {"blind", "changed", "shared", "lost"}
    /\ faults \in 0 .. MaxFaults

Init ==
    /\ log = << >>
    /\ cursor = 0
    /\ pending = {}
    /\ lease = Free
    /\ valid = {}
    /\ phase = [e \in Engines |-> "idle"]
    /\ todo = [e \in Engines |-> {}]
    /\ memory = [e \in Engines |-> Blank]
    /\ created = {}
    /\ canceled = {}
    /\ live = {}
    /\ unemitted = {}
    /\ taken = {}
    /\ refused = {}
    /\ mishaps = {}
    /\ faults = 0

\* The API appends a command. A CREATE_ORDER may be there already, from an
\* append that was retried or a client that resubmits; DeleteOrder looks the
\* order up in Postgres first, so it must have been announced.
AppendCommand(c) ==
    /\ Len(log) < MaxLog
    /\ c.type = "CANCEL_ORDER" => c.order \in created
    /\ log' = Append(log, c)
    /\ UNCHANGED <<cursor, pending, lease, valid, phase, todo, memory, outVars, historyVars, faults>>

-----------------------------------------------------------------------------
(* Ownership                                                               *)

\* SET NX succeeds, and replayCommandLog reads the stream with XRANGE.
Acquire(e) ==
    /\ phase[e] = "idle"
    /\ lease = Free
    /\ lease' = e
    /\ valid' = valid \cup {e}
    /\ phase' = [phase EXCEPT ![e] = "replay"]
    /\ todo' = [todo EXCEPT ![e] = DOMAIN log]
    /\ UNCHANGED <<logVars, memory, outVars, historyVars, faults>>

\* XRANGE fails: the error is logged and the engine consumes all the same,
\* without the state it should have rebuilt.
ReplayFails(e) ==
    /\ phase[e] = "replay"
    /\ todo[e] = DOMAIN log
    /\ faults < MaxFaults
    /\ faults' = faults + 1
    /\ todo' = [todo EXCEPT ![e] = {}]
    /\ mishaps' = mishaps \cup {"blind"}
    /\ UNCHANGED <<logVars, lease, valid, phase, memory, outVars, live, unemitted, taken, refused>>

\* The lease runs out in Redis; its holder does not know yet.
Expire ==
    /\ lease # Free
    /\ faults < MaxFaults
    /\ faults' = faults + 1
    /\ lease' = Free
    /\ UNCHANGED <<logVars, valid, phase, todo, memory, outVars, historyVars>>

\* renewLease finds that the lease is gone and cancels the partition context.
NoticeLoss(e) ==
    /\ e \in valid
    /\ lease # e
    /\ valid' = valid \ {e}
    /\ UNCHANGED <<logVars, lease, phase, todo, memory, outVars, historyVars, faults>>

\* consumeMessages returns at its next read when the context is canceled.
\* The engine keeps its memory and competes for the lease again.
Stop(e) ==
    /\ phase[e] = "read"
    /\ e \notin valid
    /\ phase' = [phase EXCEPT ![e] = "idle"]
    /\ lease' = IF lease = e THEN Free ELSE lease
    /\ UNCHANGED <<logVars, valid, todo, memory, outVars, historyVars, faults>>

\* The process dies and is started again; its lease is left to run out.
Crash(e) ==
    /\ phase[e] # "idle"
    /\ faults < MaxFaults
    /\ faults' = faults + 1
    /\ phase' = [phase EXCEPT ![e] = "idle"]
    /\ todo' = [todo EXCEPT ![e] = {}]
    /\ memory' = [memory EXCEPT ![e] = Blank]
    /\ valid' = valid \ {e}
    /\ lease' = IF lease = e THEN Free ELSE lease
    /\ UNCHANGED <<logVars, outVars, historyVars>>

-----------------------------------------------------------------------------
(* Replay and consumption                                                  *)

First(e) == Min(todo[e])

\* What an execution of entry i by engine e adds to the history.
Record(e, i, pays) ==
    LET takes == Takes(memory[e], log[i], pays)
        refuses == Refuses(memory[e], log[i], pays)
    IN  /\ taken' = IF takes THEN taken \cup {i} ELSE taken
        /\ refused' = IF refuses THEN refused \cup {i} ELSE refused
        /\ mishaps' = IF (takes /\ i \in refused) \/ (refuses /\ i \in taken)
                      THEN mishaps \cup {"changed"} ELSE mishaps

\* A fault: what was acknowledged is not replayed.
ReplayPendingOnly(e) ==
    /\ phase[e] = "replay"
    /\ todo[e] # {}
    /\ \E pays \in BOOLEAN :
          /\ memory' = [memory EXCEPT ![e] =
                          IF First(e) <= cursor /\ First(e) \notin pending
                          THEN @ ELSE Execute(@, log[First(e)], pays)]
          /\ unemitted' = IF Takes(memory[e], log[First(e)], pays) /\ First(e) \notin live \ refused
                          THEN unemitted \cup {First(e)} ELSE unemitted
          /\ Record(e, First(e), pays)
    /\ todo' = [todo EXCEPT ![e] = @ \ {First(e)}]
    /\ UNCHANGED <<logVars, lease, valid, phase, outVars, live, faults>>

\* replayCommandLog executes the next entry; emitEventP returns at once.
Replay(e) ==
    /\ phase[e] = "replay"
    /\ todo[e] # {}
    /\ \E pays \in BOOLEAN :
          /\ memory' = [memory EXCEPT ![e] = Execute(@, log[First(e)], pays)]
          /\ unemitted' = IF Takes(memory[e], log[First(e)], pays) /\ First(e) \notin live \ refused
                          THEN unemitted \cup {First(e)} ELSE unemitted
          /\ Record(e, First(e), pays)
    /\ todo' = [todo EXCEPT ![e] = @ \ {First(e)}]
    /\ UNCHANGED <<logVars, lease, valid, phase, outVars, live, faults>>

\* consumeMessages cannot create the consumer group and returns: the lease is
\* released, and the engine competes for it again with the memory it has.
GroupFails(e) ==
    /\ phase[e] = "replay"
    /\ todo[e] = {}
    /\ faults < MaxFaults
    /\ faults' = faults + 1
    /\ phase' = [phase EXCEPT ![e] = "idle"]
    /\ valid' = valid \ {e}
    /\ lease' = IF lease = e THEN Free ELSE lease
    /\ UNCHANGED <<logVars, todo, memory, outVars, historyVars>>

\* Replay is done. XAUTOCLAIM claims pending entries that have been idle for
\* ten seconds; when it fails, or the context is canceled, nothing is claimed.
Claim(e) ==
    /\ phase[e] = "replay"
    /\ todo[e] = {}
    /\ \E idle \in SUBSET (IF e \in valid THEN pending ELSE {}) :
          /\ todo' = [todo EXCEPT ![e] = idle]
          /\ phase' = [phase EXCEPT ![e] = IF idle = {} THEN "read" ELSE "handle"]
          /\ mishaps' = IF lease = e \/ idle = {} THEN mishaps ELSE mishaps \cup {"shared"}
    /\ UNCHANGED <<logVars, lease, valid, memory, outVars, live, unemitted, taken, refused, faults>>

\* A fault: entries are taken from the end of the stream.
ReadNewest(e) ==
    /\ phase[e] = "read"
    /\ e \in valid
    /\ cursor < Len(log)
    /\ todo' = [todo EXCEPT ![e] = {Len(log)}]
    /\ pending' = pending \cup {Len(log)}
    /\ cursor' = Len(log)
    /\ phase' = [phase EXCEPT ![e] = "handle"]
    /\ mishaps' = IF lease = e THEN mishaps ELSE mishaps \cup {"shared"}
    /\ UNCHANGED <<log, lease, valid, memory, outVars, live, unemitted, taken, refused, faults>>

\* XREADGROUP ">" delivers the next entries, to whichever engine asks.
Read(e) ==
    /\ phase[e] = "read"
    /\ e \in valid
    /\ \E n \in 1 .. BatchSize :
          /\ cursor + n <= Len(log)
          /\ todo' = [todo EXCEPT ![e] = cursor + 1 .. cursor + n]
          /\ pending' = pending \cup (cursor + 1 .. cursor + n)
          /\ cursor' = cursor + n
    /\ phase' = [phase EXCEPT ![e] = "handle"]
    /\ mishaps' = IF lease = e THEN mishaps ELSE mishaps \cup {"shared"}
    /\ UNCHANGED <<log, lease, valid, memory, outVars, live, unemitted, taken, refused, faults>>

\* The answer to XREADGROUP is lost: the entries are this consumer's, pending,
\* and the loop asks for the ones after them.
ReadLost(e) ==
    /\ phase[e] = "read"
    /\ e \in valid
    /\ cursor < Len(log)
    /\ faults < MaxFaults
    /\ faults' = faults + 1
    /\ cursor' = cursor + 1
    /\ pending' = pending \cup {cursor + 1}
    /\ mishaps' = mishaps \cup {"lost"}
    /\ UNCHANGED <<log, lease, valid, phase, todo, memory, outVars, live, unemitted, taken, refused>>

\* A fault: a cancellation is not announced.
HandleSilentCancel(e) ==
    LET i == First(e)
        c == log[i]
    IN  /\ phase[e] = "handle"
        /\ \E pays \in BOOLEAN :
              /\ memory' = [memory EXCEPT ![e] = Execute(@, c, pays)]
              /\ created' = IF Takes(memory[e], c, pays) /\ c.type = "CREATE_ORDER"
                            THEN created \cup {c.order} ELSE created
              /\ Record(e, i, pays)
        /\ live' = live \cup {i}
        /\ phase' = [phase EXCEPT ![e] = "ack"]
        /\ UNCHANGED <<logVars, lease, valid, todo, canceled, unemitted, faults>>

\* handleMessage for the next entry of the batch: an order that is taken, or
\* canceled, is announced on the event stream. The reply that follows goes to
\* a channel nobody here listens to (Rpc).
Handle(e) ==
    LET i == First(e)
        c == log[i]
        takes(pays) == Takes(memory[e], c, pays)
    IN  /\ phase[e] = "handle"
        /\ \E pays \in BOOLEAN :
              /\ memory' = [memory EXCEPT ![e] = Execute(@, c, pays)]
              /\ created' = IF takes(pays) /\ c.type = "CREATE_ORDER"
                            THEN created \cup {c.order} ELSE created
              /\ canceled' = IF takes(pays) /\ c.type = "CANCEL_ORDER"
                             THEN canceled \cup {c.order} ELSE canceled
              /\ Record(e, i, pays)
        /\ live' = live \cup {i}
        /\ phase' = [phase EXCEPT ![e] = "ack"]
        /\ UNCHANGED <<logVars, lease, valid, todo, unemitted, faults>>

\* A fault: the entry is acknowledged whether or not the context is canceled,
\* with all that is left of the batch.
AckBatch(e) ==
    /\ phase[e] = "ack"
    /\ pending' = pending \ todo[e]
    /\ todo' = [todo EXCEPT ![e] = @ \ {First(e)}]
    /\ phase' = [phase EXCEPT ![e] = IF todo[e] = {First(e)} THEN "read" ELSE "handle"]
    /\ UNCHANGED <<log, cursor, lease, valid, memory, outVars, historyVars, faults>>

\* The deferred XACK. Once the context is canceled it fails, and the rest of
\* the batch is handled without being acknowledged.
Ack(e) ==
    /\ phase[e] = "ack"
    /\ pending' = IF e \in valid THEN pending \ {First(e)} ELSE pending
    /\ todo' = [todo EXCEPT ![e] = @ \ {First(e)}]
    /\ phase' = [phase EXCEPT ![e] = IF todo[e] = {First(e)} THEN "read" ELSE "handle"]
    /\ UNCHANGED <<log, cursor, lease, valid, memory, outVars, historyVars, faults>>

\* XACK fails, which is logged: the entry stays pending although it was handled.
AckFails(e) ==
    /\ phase[e] = "ack"
    /\ faults < MaxFaults
    /\ faults' = faults + 1
    /\ todo' = [todo EXCEPT ![e] = @ \ {First(e)}]
    /\ phase' = [phase EXCEPT ![e] = IF todo[e] = {First(e)} THEN "read" ELSE "handle"]
    /\ UNCHANGED <<logVars, lease, valid, memory, outVars, historyVars>>

-----------------------------------------------------------------------------
\* runPartition, without its faults.
EngineStep(e) ==
    \/ Acquire(e) \/ Replay(e) \/ Claim(e)
    \/ Read(e) \/ Handle(e) \/ Ack(e)
    \/ NoticeLoss(e) \/ Stop(e)

Next ==
    \/ \E c \in Command : AppendCommand(c)
    \/ \E e \in Engines :
          \/ EngineStep(e)
          \/ ReplayFails(e) \/ GroupFails(e) \/ ReadLost(e) \/ AckFails(e) \/ Crash(e)
    \/ Expire

Spec == Init /\ [][Next]_vars

\* An engine goes on with what it can do: its goroutines are scheduled and its
\* calls to Redis return. It may lose the race for the lease for ever.
FairSpec ==
    /\ Spec
    /\ \A e \in Engines :
          /\ WF_vars(Replay(e) \/ Claim(e) \/ Read(e) \/ Handle(e) \/ Ack(e)
                     \/ NoticeLoss(e) \/ Stop(e))
          /\ WF_vars(Acquire(e))

-----------------------------------------------------------------------------
(* Properties                                                              *)

\* "Running the same command sequence twice must result in the same engine
\* state": what the lease holder has in memory while it consumes is what one
\* execution of the log would give, whatever crashes, redeliveries, duplicate
\* commands and replays into a memory that was not blank came before. Four
\* mishaps break this: a replay that failed; an entry that is taken by one
\* execution and refused by another, between which other partitions have spent
\* or freed the cash; entries read or claimed by an engine that has lost its
\* lease and does not know; entries whose delivery was lost.
StateIsLog ==
    \A e \in Engines :
        mishaps = {} /\ lease = e /\ e \in valid /\ phase[e] \in Consuming =>
            \E n \in cursor - Cardinality(todo[e]) .. Len(log) : memory[e] = Replayed(n)

\* "If we crash in between, the entry stays pending and is redelivered": an
\* entry is acknowledged only after it was executed outside a replay.
AtLeastOnce == \A i \in 1 .. cursor : i \in pending \/ i \in live

\* Every effect in the memory of the lease holder was announced on the event
\* stream, unless a replay was the first to execute the command, or took one
\* that had been refused.
EffectsAnnounced ==
    \A e \in Engines :
        lease = e =>
            /\ \A x \in memory[e].open \cup memory[e].closed :
                  x \in created \/ \E i \in unemitted : log[i] = [type |-> "CREATE_ORDER", order |-> x]
            /\ \A x \in memory[e].closed :
                  x \in canceled \/ \E i \in unemitted : log[i] = [type |-> "CANCEL_ORDER", order |-> x]

\* "Event emission is suppressed during replay because the DB projection
\* already contains those effects."
SuppressedKnown ==
    [][\A e \in Engines : phase[e] = "replay" =>
         /\ memory'[e].open \ memory[e].open \subseteq created
         /\ memory'[e].closed \ memory[e].closed \subseteq canceled]_vars

\* Every command in the stream is executed in the end: outside replay, or in
\* the replay of the engine that took the partition over, which makes up for
\* pending entries that were not idle for long enough to be claimed. A repeated
\* command has nothing left to do. Replay makes up for nothing when it fails,
\* or when the entry was delivered to a former owner, or to nobody, after it.
CommandsHandled ==
    <>[](\/ mishaps \cap {"blind", "shared", "lost"} # {}
         \/ \A i \in DOMAIN log : \/ i \in live \cup unemitted \cup refused
                                 \/ \E j \in 1 .. i - 1 : log[j] = log[i])
=============================================================================
