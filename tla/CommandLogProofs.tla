-------------------------- MODULE CommandLogProofs --------------------------
(***************************************************************************)
(* Proofs about CommandLog, for any number of engines, orders, commands    *)
(* and faults, any cash and any batch size: types, that no entry is        *)
(* acknowledged before it was executed, that no effect of a command is     *)
(* kept from the event stream unless a replay was the first to take it,    *)
(* and that the memory of a lease holder is that of a prefix of the log.   *)
(***************************************************************************)
EXTENDS CommandLog, DataTheorems

\* Whoever handles a batch has something to handle.
BatchOK == \A e \in Engines : phase[e] \in {"handle", "ack"} => todo[e] # {}

\* An entry is acknowledged after it was handled.
AckOK == \A e \in Engines : phase[e] = "ack" => First(e) \in live

\* An order that was announced when it was taken, or that a replay was the
\* first to take; and one whose cancellation was.
KnownCreated(x) ==
    x \in created \/ \E i \in unemitted : log[i] = [type |-> "CREATE_ORDER", order |-> x]
KnownCanceled(x) ==
    x \in canceled \/ \E i \in unemitted : log[i] = [type |-> "CANCEL_ORDER", order |-> x]

\* EffectsAnnounced for the memories of all engines.
MemoriesAnnounced ==
    \A e \in Engines :
        /\ \A x \in memory[e].open \cup memory[e].closed : KnownCreated(x)
        /\ \A x \in memory[e].closed : KnownCanceled(x)

\* A command that was executed outside replay, and that no execution has
\* refused, has had its effect announced.
LiveAnnounced ==
    \A i \in live \ refused :
        /\ log[i].type = "CREATE_ORDER" => KnownCreated(log[i].order)
        /\ log[i].type = "CANCEL_ORDER" => KnownCanceled(log[i].order)

\* The inductive invariant.
IInv ==
    /\ TypeOK
    /\ BatchOK
    /\ AckOK
    /\ AtLeastOnce
    /\ MemoriesAnnounced
    /\ LiveAnnounced

-----------------------------------------------------------------------------
(* Lemmas                                                                  *)

\* The next entry of a batch is one of the batch, and none comes before it.
LEMMA FirstProperties ==
    ASSUME TypeOK, NEW e \in Engines, todo[e] # {}
    PROVE  /\ First(e) \in todo[e] /\ First(e) \in 1 .. Len(log)
           /\ \A i \in todo[e] : First(e) <= i
<1>1. todo[e] \subseteq 1 .. Len(log)
    BY DEF TypeOK
<1>2. todo[e] \subseteq Nat
    BY <1>1
<1>3. \E n \in todo[e] : \A m \in todo[e] : n <= m
    BY <1>2, SmallestExists
<1>4. First(e) \in todo[e] /\ \A i \in todo[e] : First(e) <= i
    BY <1>3 DEF First, Min
<1> QED
    BY <1>1, <1>4

\* What executing a command makes of a memory: nothing that is known is
\* forgotten and nothing that is closed is opened again.
LEMMA ExecuteProperties ==
    ASSUME NEW m \in Memory, m.open \cap m.closed = {}, NEW c \in Command, NEW p \in BOOLEAN
    PROVE  LET r == Execute(m, c, p)
           IN  /\ r \in Memory
               /\ r.open \cap r.closed = {}
               /\ ~Takes(m, c, p) => r = m
               /\ Takes(m, c, p) /\ c.type = "CREATE_ORDER" =>
                     r.open = m.open \cup {c.order} /\ r.closed = m.closed
               /\ Takes(m, c, p) /\ c.type = "CANCEL_ORDER" =>
                     r.open = m.open \ {c.order} /\ r.closed = m.closed \cup {c.order}
                     /\ c.order \in m.open
<1> DEFINE x == c.order
           r == Execute(m, c, p)
<1>1. /\ m.open \subseteq Orders /\ m.closed \subseteq Orders /\ x \in Orders
      /\ c.type \in {"CREATE_ORDER", "CANCEL_ORDER"}
    BY DEF Memory, Command
<1>3. CASE ~Takes(m, c, p)
    BY <1>3 DEF Execute
<1>4. CASE Takes(m, c, p) /\ c.type = "CREATE_ORDER"
    <2>1. r = [m EXCEPT !.open = @ \cup {x}]
        BY <1>4 DEF Execute
    <2>2. r \in Memory /\ r.open = m.open \cup {x} /\ r.closed = m.closed
        BY <1>1, <2>1 DEF Memory
    <2>3. x \notin m.open /\ x \notin m.closed
        BY <1>4 DEF Takes, Known
    <2> HIDE DEF r
    <2> QED
        BY <1>4, <2>2, <2>3 DEF r
<1>5. CASE Takes(m, c, p) /\ c.type = "CANCEL_ORDER"
    <2>1. r = [open |-> m.open \ {x}, closed |-> m.closed \cup {x}]
        BY <1>5 DEF Execute
    <2>2. r \in Memory /\ r.open = m.open \ {x} /\ r.closed = m.closed \cup {x}
        BY <1>1, <2>1 DEF Memory
    <2>3. x \in m.open
        BY <1>5 DEF Takes
    <2> HIDE DEF r
    <2> QED
        BY <1>5, <2>2, <2>3 DEF r
<1> QED
    BY <1>1, <1>3, <1>4, <1>5

\* A step that neither executes a command nor crashes an engine keeps what the
\* invariant says of memories and announcements.
LEMMA QuietOK ==
    ASSUME IInv, UNCHANGED <<log, memory, outVars, live, unemitted, refused>>
    PROVE  MemoriesAnnounced' /\ LiveAnnounced'
<1>2. \A x : (KnownCreated(x)' <=> KnownCreated(x)) /\ (KnownCanceled(x)' <=> KnownCanceled(x))
    BY DEF KnownCreated, KnownCanceled, outVars
<1>3. MemoriesAnnounced'
    BY <1>2 DEF IInv, MemoriesAnnounced
<1>4. LiveAnnounced'
    BY <1>2 DEF IInv, LiveAnnounced
<1> QED
    BY <1>3, <1>4

\* What is announced stays announced.
LEMMA AnnouncedStays ==
    ASSUME TypeOK, created \subseteq created', canceled \subseteq canceled',
           unemitted \subseteq unemitted', \A i \in 1 .. Len(log) : log'[i] = log[i]
    PROVE  \A x : /\ KnownCreated(x) => KnownCreated(x)'
                  /\ KnownCanceled(x) => KnownCanceled(x)'
<1>1. \A i \in unemitted : i \in 1 .. Len(log)
    BY DEF TypeOK
<1> QED
    BY <1>1 DEF KnownCreated, KnownCanceled

\* The engines start with nothing.
LEMMA InitOK == Init => IInv
<1> SUFFICES ASSUME Init PROVE IInv
    OBVIOUS
<1>1. Blank \in Memory /\ Blank.open = {} /\ Blank.closed = {}
    BY DEF Blank, Memory
<1>3. log = << >> /\ Len(log) = 0 /\ log \in Seq(Command)
    BY DEF Init
<1>4. memory \in [Engines -> Memory] /\ \A e \in Engines : memory[e] = Blank
    BY <1>1 DEF Init
<1>5. TypeOK
    BY <1>1, <1>3, <1>4, CommandLogAssumption DEF Init, TypeOK, Consuming
<1>6. MemoriesAnnounced
    BY <1>1, <1>4 DEF MemoriesAnnounced
<1>7. BatchOK /\ AckOK /\ AtLeastOnce /\ LiveAnnounced
    BY DEF Init, BatchOK, AckOK, AtLeastOnce, LiveAnnounced
<1> QED
    BY <1>5, <1>6, <1>7 DEF IInv

\* A command at the end of the stream disturbs nothing before it.
LEMMA AppendCommandOK ==
    ASSUME IInv, NEW c \in Command, AppendCommand(c)
    PROVE  IInv'
<1>1. /\ Len(log) < MaxLog /\ log' = Append(log, c)
      /\ UNCHANGED <<cursor, pending, lease, valid, phase, todo, memory, created, canceled,
                     live, unemitted, taken, refused, mishaps, faults>>
    BY DEF AppendCommand, outVars, historyVars
<1>2. log \in Seq(Command)
    BY DEF IInv, TypeOK
<1>3. /\ Len(log) \in Nat /\ log' \in Seq(Command) /\ Len(log') = Len(log) + 1
      /\ \A i \in 1 .. Len(log) : log'[i] = log[i]
    BY <1>1, <1>2
<1>4. 1 .. Len(log) \subseteq 1 .. Len(log') /\ 0 .. Len(log) \subseteq 0 .. Len(log')
    BY <1>3
<1>5. Len(log') <= MaxLog
    BY <1>1, <1>3, CommandLogAssumption
<1>6. TypeOK'
    <2>1. todo' \in [Engines -> SUBSET (1 .. Len(log'))]
        BY <1>1, <1>4 DEF IInv, TypeOK
    <2>2. \A e \in Engines : memory'[e].open \cap memory'[e].closed = {}
        BY <1>1 DEF IInv, TypeOK
    <2>3. cursor' \in 0 .. Len(log') /\ live' \subseteq 1 .. Len(log')
          /\ unemitted' \subseteq 1 .. Len(log') /\ refused' \subseteq 1 .. Len(log')
          /\ taken' \subseteq 1 .. Len(log')
        BY <1>1, <1>4 DEF IInv, TypeOK
    <2> QED
        BY <1>1, <1>3, <1>5, <2>1, <2>2, <2>3 DEF IInv, TypeOK
<1>7. BatchOK' /\ AckOK' /\ AtLeastOnce'
    BY <1>1 DEF IInv, BatchOK, AckOK, AtLeastOnce, First
<1>8. \A x : /\ KnownCreated(x) => KnownCreated(x)'
             /\ KnownCanceled(x) => KnownCanceled(x)'
    BY <1>1, <1>3, AnnouncedStays DEF IInv
<1>9. MemoriesAnnounced'
    BY <1>1, <1>8 DEF IInv, MemoriesAnnounced
<1>10. LiveAnnounced'
    <2>1. live \subseteq 1 .. Len(log)
        BY DEF IInv, TypeOK
    <2> QED
        BY <1>1, <1>3, <1>8, <2>1 DEF IInv, LiveAnnounced
<1> QED
    BY <1>6, <1>7, <1>9, <1>10 DEF IInv

\* The steps in which leases and contexts come and go, and Redis fails.
LEMMA OwnershipOK ==
    ASSUME IInv, NEW e \in Engines,
           Acquire(e) \/ ReplayFails(e) \/ Expire \/ NoticeLoss(e) \/ Stop(e) \/ GroupFails(e)
    PROVE  IInv'
<1>1. UNCHANGED <<log, cursor, pending, memory, created, canceled, live, unemitted, taken, refused>>
    BY DEF Acquire, ReplayFails, Expire, NoticeLoss, Stop, GroupFails, logVars, outVars, historyVars
<1>2. MemoriesAnnounced' /\ LiveAnnounced'
    BY <1>1, QuietOK DEF outVars
<1>3. AtLeastOnce'
    BY <1>1 DEF IInv, AtLeastOnce
<1>4. /\ phase' \in [Engines -> {"idle", "replay"} \cup Consuming]
      /\ todo' \in [Engines -> SUBSET (1 .. Len(log))]
      /\ \A d \in Engines : phase'[d] \in {"handle", "ack"} =>
            phase'[d] = phase[d] /\ todo'[d] = todo[d]
    <2>1. DOMAIN log = 1 .. Len(log)
        BY DEF IInv, TypeOK
    <2> QED
        BY <2>1 DEF Acquire, ReplayFails, Expire, NoticeLoss, Stop, GroupFails, historyVars,
                    IInv, TypeOK, Consuming
<1>5. BatchOK' /\ AckOK'
    BY <1>1, <1>4 DEF IInv, BatchOK, AckOK, First
<1>6. /\ lease' \in Engines \cup {Free} /\ valid' \subseteq Engines
      /\ mishaps' \subseteq {"blind", "changed", "shared", "lost"}
      /\ faults' \in 0 .. MaxFaults
    <2>1. lease' \in {lease, e, Free} /\ valid' \in {valid, valid \cup {e}, valid \ {e}}
        BY DEF Acquire, ReplayFails, Expire, NoticeLoss, Stop, GroupFails
    <2>2. mishaps' \in {mishaps, mishaps \cup {"blind"}}
        BY DEF Acquire, ReplayFails, Expire, NoticeLoss, Stop, GroupFails, historyVars
    <2>3. faults' = faults \/ (faults < MaxFaults /\ faults' = faults + 1)
        BY DEF Acquire, ReplayFails, Expire, NoticeLoss, Stop, GroupFails
    <2>4. faults' \in 0 .. MaxFaults
        BY <2>3, CommandLogAssumption DEF IInv, TypeOK
    <2> QED
        BY <2>1, <2>2, <2>4 DEF IInv, TypeOK
<1>7. \A d \in Engines : memory'[d].open \cap memory'[d].closed = {}
    BY <1>1 DEF IInv, TypeOK
<1>8. TypeOK'
    BY <1>1, <1>4, <1>6, <1>7 DEF IInv, TypeOK
<1> QED
    BY <1>2, <1>3, <1>5, <1>8 DEF IInv

\* A crash empties a memory.
LEMMA CrashOK ==
    ASSUME IInv, NEW e \in Engines, Crash(e)
    PROVE  IInv'
<1>1. /\ UNCHANGED <<log, cursor, pending, created, canceled, live, unemitted, taken, refused,
                     mishaps>>
      /\ phase' = [phase EXCEPT ![e] = "idle"] /\ todo' = [todo EXCEPT ![e] = {}]
      /\ memory' = [memory EXCEPT ![e] = Blank]
      /\ valid' = valid \ {e} /\ lease' \in {lease, Free}
      /\ faults < MaxFaults /\ faults' = faults + 1
    BY DEF Crash, logVars, outVars, historyVars
<1>2. Blank \in Memory /\ Blank.open = {} /\ Blank.closed = {}
    BY DEF Blank, Memory
<1>4. /\ memory' \in [Engines -> Memory] /\ memory'[e] = Blank
      /\ \A d \in Engines : d # e => memory'[d] = memory[d]
    BY <1>1, <1>2 DEF IInv, TypeOK
<1>5. \A d \in Engines : memory'[d].open \cap memory'[d].closed = {}
    BY <1>2, <1>4 DEF IInv, TypeOK
<1>6. /\ phase' \in [Engines -> {"idle", "replay"} \cup Consuming]
      /\ todo' \in [Engines -> SUBSET (1 .. Len(log))]
      /\ \A d \in Engines : phase'[d] \in {"handle", "ack"} =>
            phase'[d] = phase[d] /\ todo'[d] = todo[d]
    BY <1>1 DEF IInv, TypeOK
<1>7. faults' \in 0 .. MaxFaults
    BY <1>1, CommandLogAssumption DEF IInv, TypeOK
<1>9. TypeOK'
    BY <1>1, <1>4, <1>5, <1>6, <1>7 DEF IInv, TypeOK
<1>11. BatchOK' /\ AckOK' /\ AtLeastOnce'
    BY <1>1, <1>6 DEF IInv, BatchOK, AckOK, AtLeastOnce, First
<1>12. \A x : (KnownCreated(x)' <=> KnownCreated(x)) /\ (KnownCanceled(x)' <=> KnownCanceled(x))
    BY <1>1 DEF KnownCreated, KnownCanceled
<1>13. MemoriesAnnounced' /\ LiveAnnounced'
    BY <1>1, <1>2, <1>4, <1>12 DEF IInv, MemoriesAnnounced, LiveAnnounced
<1> QED
    BY <1>9, <1>11, <1>13 DEF IInv

\* Entries are claimed or delivered, and pending until they are acknowledged.
LEMMA DeliveryOK ==
    ASSUME IInv, NEW e \in Engines, Claim(e) \/ Read(e) \/ ReadLost(e)
    PROVE  IInv'
<1>1. UNCHANGED <<log, lease, valid, memory, created, canceled, live, unemitted, taken, refused>>
    BY DEF Claim, Read, ReadLost, logVars, outVars
<1>2. MemoriesAnnounced' /\ LiveAnnounced'
    BY <1>1, QuietOK DEF outVars
<1>3. Len(log) \in Nat /\ cursor \in 0 .. Len(log) /\ pending \subseteq 1 .. cursor
    BY DEF IInv, TypeOK
<1>4. /\ cursor' \in 0 .. Len(log) /\ pending' \subseteq 1 .. cursor'
      /\ pending \subseteq pending' /\ \A i \in 1 .. cursor' : i \in 1 .. cursor \/ i \in pending'
    <2>1. CASE Claim(e)
        BY <1>3, <2>1 DEF Claim, logVars
    <2>2. CASE Read(e)
        <3>1. PICK n \in 1 .. BatchSize :
                 /\ cursor + n <= Len(log) /\ cursor' = cursor + n
                 /\ pending' = pending \cup (cursor + 1 .. cursor + n)
            BY <2>2 DEF Read
        <3>2. n \in Nat
            BY <3>1
        <3> QED
            BY <1>3, <3>1, <3>2
    <2>3. CASE ReadLost(e)
        <3>1. cursor < Len(log) /\ cursor' = cursor + 1 /\ pending' = pending \cup {cursor + 1}
            BY <2>3 DEF ReadLost
        <3> QED
            BY <1>3, <3>1
    <2> QED
        BY <2>1, <2>2, <2>3
<1>5. AtLeastOnce'
    BY <1>1, <1>4 DEF IInv, AtLeastOnce
<1>6. \E b \in SUBSET (1 .. Len(log)) :
         \/ todo' = todo /\ phase' = phase
         \/ /\ todo' = [todo EXCEPT ![e] = b]
            /\ phase' = [phase EXCEPT ![e] = IF b = {} THEN "read" ELSE "handle"]
    <2>1. CASE Claim(e)
        <3>1. PICK idle \in SUBSET (IF e \in valid THEN pending ELSE {}) :
                 /\ todo' = [todo EXCEPT ![e] = idle]
                 /\ phase' = [phase EXCEPT ![e] = IF idle = {} THEN "read" ELSE "handle"]
            BY <2>1 DEF Claim
        <3>2. idle \in SUBSET (1 .. Len(log))
            BY <1>3, <3>1
        <3> QED
            BY <3>1, <3>2
    <2>2. CASE Read(e)
        <3>1. PICK n \in 1 .. BatchSize :
                 /\ cursor + n <= Len(log)
                 /\ todo' = [todo EXCEPT ![e] = cursor + 1 .. cursor + n]
            BY <2>2 DEF Read
        <3> DEFINE b == cursor + 1 .. cursor + n
        <3>2. b \in SUBSET (1 .. Len(log))
            BY <1>3, <3>1
        <3>3. cursor + 1 \in b
            BY <1>3, <3>1
        <3>4. phase' = [phase EXCEPT ![e] = "handle"]
            BY <2>2 DEF Read
        <3>5. todo' = [todo EXCEPT ![e] = b]
            BY <3>1
        <3> HIDE DEF b
        <3> QED
            BY <3>2, <3>3, <3>4, <3>5
    <2>3. CASE ReadLost(e)
        BY <2>3 DEF ReadLost
    <2> QED
        BY <2>1, <2>2, <2>3
<1>7. PICK b \in SUBSET (1 .. Len(log)) :
         \/ todo' = todo /\ phase' = phase
         \/ /\ todo' = [todo EXCEPT ![e] = b]
            /\ phase' = [phase EXCEPT ![e] = IF b = {} THEN "read" ELSE "handle"]
    BY <1>6
<1>8. /\ phase' \in [Engines -> {"idle", "replay"} \cup Consuming]
      /\ todo' \in [Engines -> SUBSET (1 .. Len(log))]
    <2>1. (IF b = {} THEN "read" ELSE "handle") \in {"idle", "replay"} \cup Consuming
        BY DEF Consuming
    <2> QED
        BY <1>7, <2>1 DEF IInv, TypeOK
<1>9. BatchOK'
    BY <1>7 DEF IInv, TypeOK, BatchOK
<1>10. \A d \in Engines : phase'[d] = "ack" => phase[d] = "ack" /\ todo'[d] = todo[d]
    BY <1>7 DEF IInv, TypeOK
<1>11. AckOK'
    BY <1>1, <1>10 DEF IInv, AckOK, First
<1>12. /\ mishaps' \subseteq {"blind", "changed", "shared", "lost"}
       /\ faults' \in 0 .. MaxFaults
    <2>1. mishaps' \in {mishaps, mishaps \cup {"shared"}, mishaps \cup {"lost"}}
        BY DEF Claim, Read, ReadLost
    <2>2. faults' = faults \/ (faults < MaxFaults /\ faults' = faults + 1)
        BY DEF Claim, Read, ReadLost
    <2>3. faults' \in 0 .. MaxFaults
        BY <2>2, CommandLogAssumption DEF IInv, TypeOK
    <2> QED
        BY <2>1, <2>3 DEF IInv, TypeOK
<1>13. \A d \in Engines : memory'[d].open \cap memory'[d].closed = {}
    BY <1>1 DEF IInv, TypeOK
<1>14. TypeOK'
    BY <1>1, <1>4, <1>8, <1>12, <1>13 DEF IInv, TypeOK
<1> QED
    BY <1>2, <1>5, <1>9, <1>11, <1>14 DEF IInv

\* An acknowledgement, or what the loop does instead, is of the entry that was
\* handled, and of no other.
LEMMA AckedOK ==
    ASSUME IInv, NEW e \in Engines, Ack(e) \/ AckFails(e)
    PROVE  IInv'
<1> DEFINE i == First(e)
<1>1. /\ UNCHANGED <<log, cursor, lease, valid, memory, created, canceled, live, unemitted,
                     taken, refused, mishaps>>
      /\ phase[e] = "ack"
      /\ pending' \in {pending, pending \ {i}}
      /\ todo' = [todo EXCEPT ![e] = @ \ {i}]
      /\ phase' = [phase EXCEPT ![e] = IF todo[e] = {i} THEN "read" ELSE "handle"]
      /\ faults' = faults \/ (faults < MaxFaults /\ faults' = faults + 1)
    BY DEF Ack, AckFails, logVars, outVars, historyVars
<1>2. i \in live /\ todo[e] # {}
    BY <1>1 DEF IInv, AckOK, BatchOK
<1>3. MemoriesAnnounced' /\ LiveAnnounced'
    BY <1>1, QuietOK DEF outVars
<1>4. AtLeastOnce'
    BY <1>1, <1>2 DEF IInv, AtLeastOnce
<1> HIDE DEF i
<1>5. /\ phase'[e] \in {"read", "handle"} /\ (phase'[e] = "handle" => todo[e] # {i})
      /\ todo'[e] = todo[e] \ {i}
      /\ \A d \in Engines : d # e => phase'[d] = phase[d] /\ todo'[d] = todo[d]
    BY <1>1 DEF IInv, TypeOK
<1>6. BatchOK'
    BY <1>2, <1>5 DEF IInv, BatchOK
<1>7. AckOK'
    BY <1>1, <1>5 DEF IInv, AckOK, First
<1>8. /\ phase' \in [Engines -> {"idle", "replay"} \cup Consuming]
      /\ todo' \in [Engines -> SUBSET (1 .. Len(log))]
    <2>1. (IF todo[e] = {i} THEN "read" ELSE "handle") \in {"idle", "replay"} \cup Consuming
        BY DEF Consuming
    <2> QED
        BY <1>1, <2>1 DEF IInv, TypeOK
<1>9. faults' \in 0 .. MaxFaults
    BY <1>1, CommandLogAssumption DEF IInv, TypeOK
<1>10. \A d \in Engines : memory'[d].open \cap memory'[d].closed = {}
    BY <1>1 DEF IInv, TypeOK
<1>11. TypeOK'
    BY <1>1, <1>8, <1>9, <1>10 DEF IInv, TypeOK
<1> QED
    BY <1>3, <1>4, <1>6, <1>7, <1>11 DEF IInv

\* Engine e executes entry i.
Executes(e, i, p) == memory' = [memory EXCEPT ![e] = Execute(@, log[i], p)]

\* What an execution makes of the memories, whether in a replay or not.
LEMMA ExecutionOK ==
    ASSUME IInv, NEW e \in Engines, NEW i \in 1 .. Len(log), NEW p \in BOOLEAN,
           Executes(e, i, p)
    PROVE  /\ memory' \in [Engines -> Memory]
           /\ \A d \in Engines : memory'[d].open \cap memory'[d].closed = {}
           /\ log[i] \in Command
           /\ \A d \in Engines : d # e => memory'[d] = memory[d]
           /\ ~Takes(memory[e], log[i], p) => memory'[e] = memory[e]
           /\ Takes(memory[e], log[i], p) /\ log[i].type = "CREATE_ORDER" =>
                 /\ memory'[e].open = memory[e].open \cup {log[i].order}
                 /\ memory'[e].closed = memory[e].closed
           /\ Takes(memory[e], log[i], p) /\ log[i].type = "CANCEL_ORDER" =>
                 /\ memory'[e].open = memory[e].open \ {log[i].order}
                 /\ memory'[e].closed = memory[e].closed \cup {log[i].order}
                 /\ log[i].order \in memory[e].open
<1> DEFINE m == memory[e]
           c == log[i]
           r == Execute(m, c, p)
<1>1. c \in Command
    BY DEF IInv, TypeOK
<1>2. m \in Memory /\ m.open \cap m.closed = {}
    BY DEF IInv, TypeOK
<1>3. /\ r \in Memory
      /\ r.open \cap r.closed = {}
      /\ ~Takes(m, c, p) => r = m
      /\ Takes(m, c, p) /\ c.type = "CREATE_ORDER" =>
            r.open = m.open \cup {c.order} /\ r.closed = m.closed
      /\ Takes(m, c, p) /\ c.type = "CANCEL_ORDER" =>
            r.open = m.open \ {c.order} /\ r.closed = m.closed \cup {c.order}
            /\ c.order \in m.open
    <2> HIDE DEF m, c
    <2> QED
        BY <1>1, <1>2, ExecuteProperties
<1>4. memory'[e] = r /\ \A d \in Engines : d # e => memory'[d] = memory[d]
    BY DEF IInv, TypeOK, Executes
<1>5. memory' \in [Engines -> Memory]
    <2> HIDE DEF r
    <2>1. memory' = [memory EXCEPT ![e] = r]
        BY DEF r, Executes
    <2> QED
        BY <1>3, <2>1 DEF IInv, TypeOK
<1> HIDE DEF r
<1>6. \A d \in Engines : memory'[d].open \cap memory'[d].closed = {}
    BY <1>3, <1>4 DEF IInv, TypeOK
<1> QED
    BY <1>1, <1>3, <1>4, <1>5, <1>6

\* What the history makes of an execution.
LEMMA RecordOK ==
    ASSUME IInv, NEW e \in Engines, NEW i \in 1 .. Len(log), NEW p \in BOOLEAN, Record(e, i, p)
    PROVE  /\ refused \subseteq refused' /\ refused' \subseteq 1 .. Len(log)
           /\ taken \subseteq taken' /\ taken' \subseteq 1 .. Len(log)
           /\ i \notin refused' => Takes(memory[e], log[i], p) \/ log[i].order \in Known(memory[e])
           /\ mishaps' \subseteq {"blind", "changed", "shared", "lost"}
<1>1. /\ refused' \in {refused, refused \cup {i}} /\ taken' \in {taken, taken \cup {i}}
      /\ mishaps' \in {mishaps, mishaps \cup {"changed"}}
    BY DEF Record
<1>2. i \notin refused' => Takes(memory[e], log[i], p) \/ log[i].order \in Known(memory[e])
    BY DEF Record, Refuses
<1> QED
    BY <1>1, <1>2 DEF IInv, TypeOK

\* A replayed entry that is taken was announced when it was handled, or is one
\* that a replay is the first to take.
LEMMA ReplayOK ==
    ASSUME IInv, NEW e \in Engines, Replay(e)
    PROVE  IInv'
<1> DEFINE i == First(e)
           c == log[i]
           m == memory[e]
<1>1. PICK p \in BOOLEAN :
      /\ phase[e] = "replay" /\ todo[e] # {}
      /\ memory' = [memory EXCEPT ![e] = Execute(@, c, p)]
      /\ unemitted' = IF Takes(m, c, p) /\ i \notin live \ refused
                      THEN unemitted \cup {i} ELSE unemitted
      /\ Record(e, i, p)
      /\ todo' = [todo EXCEPT ![e] = @ \ {i}]
      /\ UNCHANGED <<log, cursor, pending, lease, valid, phase, created, canceled, live, faults>>
    BY DEF Replay, logVars, outVars
<1>2. i \in 1 .. Len(log) /\ i \in todo[e]
    BY <1>1, FirstProperties DEF IInv
<1> HIDE DEF i
<1>3. /\ memory' \in [Engines -> Memory]
      /\ \A d \in Engines : memory'[d].open \cap memory'[d].closed = {}
      /\ c \in Command
      /\ \A d \in Engines : d # e => memory'[d] = memory[d]
      /\ ~Takes(m, c, p) => memory'[e] = m
      /\ Takes(m, c, p) /\ c.type = "CREATE_ORDER" =>
            memory'[e].open = m.open \cup {c.order} /\ memory'[e].closed = m.closed
      /\ Takes(m, c, p) /\ c.type = "CANCEL_ORDER" =>
            /\ memory'[e].open = m.open \ {c.order}
            /\ memory'[e].closed = m.closed \cup {c.order}
            /\ c.order \in m.open
    <2>1. Executes(e, i, p)
        BY <1>1 DEF Executes
    <2> QED
        BY <1>2, <2>1, ExecutionOK
<1>4. /\ refused \subseteq refused' /\ refused' \subseteq 1 .. Len(log)
      /\ taken' \subseteq 1 .. Len(log)
      /\ mishaps' \subseteq {"blind", "changed", "shared", "lost"}
    BY <1>1, <1>2, RecordOK
<1>5. unemitted \subseteq unemitted' /\ unemitted' \subseteq 1 .. Len(log)
    BY <1>1, <1>2 DEF IInv, TypeOK
<1>6. \A x : /\ KnownCreated(x) => KnownCreated(x)'
             /\ KnownCanceled(x) => KnownCanceled(x)'
    BY <1>1, <1>5, AnnouncedStays DEF IInv
<1>7. c.type \in {"CREATE_ORDER", "CANCEL_ORDER"} /\ c = [type |-> c.type, order |-> c.order]
    BY <1>3 DEF Command
<1> PICK z \in Orders : z = c.order
    BY <1>3 DEF Command
<1>8. Takes(m, c, p) => /\ c.type = "CREATE_ORDER" => KnownCreated(z)'
                        /\ c.type = "CANCEL_ORDER" => KnownCanceled(z)'
    <2>1. CASE i \in live \ refused
        <3>1. /\ c.type = "CREATE_ORDER" => KnownCreated(z)
              /\ c.type = "CANCEL_ORDER" => KnownCanceled(z)
            BY <2>1 DEF IInv, LiveAnnounced
        <3> QED
            BY <1>6, <3>1
    <2>2. CASE i \notin live \ refused /\ Takes(m, c, p)
        <3>1. i \in unemitted' /\ log'[i] = c
            BY <1>1, <2>2
        <3> HIDE DEF c
        <3> QED
            BY <1>7, <3>1 DEF KnownCreated, KnownCanceled
    <2> QED
        BY <2>1, <2>2
<1>9. MemoriesAnnounced'
    <2>1. ASSUME NEW d \in Engines, d # e
          PROVE  /\ \A x \in memory'[d].open \cup memory'[d].closed : KnownCreated(x)'
                 /\ \A x \in memory'[d].closed : KnownCanceled(x)'
        BY <1>3, <1>6, <2>1 DEF IInv, MemoriesAnnounced
    <2>2. /\ \A x \in m.open \cup m.closed : KnownCreated(x)'
          /\ \A x \in m.closed : KnownCanceled(x)'
        BY <1>6 DEF IInv, MemoriesAnnounced
    <2> HIDE DEF c, m
    <2>3. /\ \A x \in memory'[e].open \cup memory'[e].closed : KnownCreated(x)'
          /\ \A x \in memory'[e].closed : KnownCanceled(x)'
        BY <1>3, <1>7, <1>8, <2>2
    <2> QED
        BY <2>1, <2>3 DEF MemoriesAnnounced
<1>10. LiveAnnounced'
    BY <1>1, <1>4, <1>6 DEF IInv, LiveAnnounced
<1>11. /\ todo' \in [Engines -> SUBSET (1 .. Len(log))]
       /\ \A d \in Engines : phase[d] \in {"handle", "ack"} => todo'[d] = todo[d]
    BY <1>1 DEF IInv, TypeOK
<1>12. BatchOK' /\ AckOK' /\ AtLeastOnce'
    BY <1>1, <1>11 DEF IInv, BatchOK, AckOK, AtLeastOnce, First
<1>14. TypeOK'
    BY <1>1, <1>3, <1>4, <1>5, <1>11 DEF IInv, TypeOK
<1> QED
    BY <1>9, <1>10, <1>12, <1>14 DEF IInv

\* A handled entry that is taken is announced; one that is neither taken nor
\* refused concerns an order that is announced already.
LEMMA HandleOK ==
    ASSUME IInv, NEW e \in Engines, Handle(e)
    PROVE  IInv'
<1> DEFINE i == First(e)
           c == log[i]
           m == memory[e]
<1>1. PICK p \in BOOLEAN :
      /\ phase[e] = "handle"
      /\ memory' = [memory EXCEPT ![e] = Execute(@, c, p)]
      /\ created' = IF Takes(m, c, p) /\ c.type = "CREATE_ORDER"
                    THEN created \cup {c.order} ELSE created
      /\ canceled' = IF Takes(m, c, p) /\ c.type = "CANCEL_ORDER"
                     THEN canceled \cup {c.order} ELSE canceled
      /\ live' = live \cup {i}
      /\ Record(e, i, p)
      /\ phase' = [phase EXCEPT ![e] = "ack"]
      /\ UNCHANGED <<log, cursor, pending, lease, valid, todo, unemitted, faults>>
    BY DEF Handle, logVars
<1>2. i \in 1 .. Len(log) /\ i \in todo[e] /\ todo[e] # {}
    BY <1>1, FirstProperties DEF IInv, BatchOK
<1>3. /\ memory' \in [Engines -> Memory]
      /\ \A d \in Engines : memory'[d].open \cap memory'[d].closed = {}
      /\ c \in Command
      /\ \A d \in Engines : d # e => memory'[d] = memory[d]
      /\ ~Takes(m, c, p) => memory'[e] = m
      /\ Takes(m, c, p) /\ c.type = "CREATE_ORDER" =>
            memory'[e].open = m.open \cup {c.order} /\ memory'[e].closed = m.closed
      /\ Takes(m, c, p) /\ c.type = "CANCEL_ORDER" =>
            /\ memory'[e].open = m.open \ {c.order}
            /\ memory'[e].closed = m.closed \cup {c.order}
            /\ c.order \in m.open
    <2>1. Executes(e, i, p)
        BY <1>1 DEF Executes
    <2> QED
        BY <1>2, <2>1, ExecutionOK
<1>4. /\ refused \subseteq refused' /\ refused' \subseteq 1 .. Len(log)
      /\ taken' \subseteq 1 .. Len(log)
      /\ i \notin refused' => Takes(m, c, p) \/ c.order \in Known(m)
      /\ mishaps' \subseteq {"blind", "changed", "shared", "lost"}
    BY <1>1, <1>2, RecordOK
<1>5. c.type \in {"CREATE_ORDER", "CANCEL_ORDER"} /\ c.order \in Orders
    BY <1>3 DEF Command
<1>6. /\ created \subseteq created' /\ created' \subseteq Orders
      /\ canceled \subseteq canceled' /\ canceled' \subseteq Orders
    <2>1. created' \in {created, created \cup {c.order}}
          /\ canceled' \in {canceled, canceled \cup {c.order}}
        BY <1>1
    <2> QED
        BY <1>5, <2>1 DEF IInv, TypeOK
<1>7. \A x : /\ KnownCreated(x) => KnownCreated(x)'
             /\ KnownCanceled(x) => KnownCanceled(x)'
    BY <1>1, <1>6, AnnouncedStays DEF IInv
<1> PICK z \in Orders : z = c.order
    BY <1>5
<1>8. Takes(m, c, p) => /\ c.type = "CREATE_ORDER" => KnownCreated(z)'
                        /\ c.type = "CANCEL_ORDER" => KnownCanceled(z)'
    BY <1>1 DEF KnownCreated, KnownCanceled
<1>9. /\ \A x \in m.open \cup m.closed : KnownCreated(x)'
      /\ \A x \in m.closed : KnownCanceled(x)'
    BY <1>7 DEF IInv, MemoriesAnnounced
<1>10. MemoriesAnnounced'
    <2>1. ASSUME NEW d \in Engines, d # e
          PROVE  /\ \A x \in memory'[d].open \cup memory'[d].closed : KnownCreated(x)'
                 /\ \A x \in memory'[d].closed : KnownCanceled(x)'
        BY <1>3, <1>7, <2>1 DEF IInv, MemoriesAnnounced
    <2> HIDE DEF c, m
    <2>2. /\ \A x \in memory'[e].open \cup memory'[e].closed : KnownCreated(x)'
          /\ \A x \in memory'[e].closed : KnownCanceled(x)'
        BY <1>3, <1>5, <1>8, <1>9
    <2> QED
        BY <2>1, <2>2 DEF MemoriesAnnounced
<1>11. LiveAnnounced'
    <2> SUFFICES ASSUME NEW j \in live' \ refused'
                 PROVE  \A x : x = log[j].order =>
                           /\ log[j].type = "CREATE_ORDER" => KnownCreated(x)'
                           /\ log[j].type = "CANCEL_ORDER" => KnownCanceled(x)'
        BY <1>1 DEF LiveAnnounced
    <2>1. CASE j \in live
        BY <1>4, <1>7, <2>1 DEF IInv, LiveAnnounced
    <2>2. CASE j = i
        <3>1. Takes(m, c, p) \/ z \in m.open \cup m.closed
            BY <1>4, <2>2 DEF Known
        <3>2. /\ c.type = "CREATE_ORDER" => Takes(m, c, p) \/ z \in m.open \cup m.closed
              /\ c.type = "CANCEL_ORDER" => Takes(m, c, p) \/ z \in m.closed
            BY <3>1 DEF Takes
        <3>3. /\ c.type = "CREATE_ORDER" => KnownCreated(z)'
              /\ c.type = "CANCEL_ORDER" => KnownCanceled(z)'
            BY <1>8, <1>9, <3>2
        <3> QED
            BY <2>2, <3>3
    <2> QED
        BY <1>1, <2>1, <2>2
<1>12. AckOK' /\ BatchOK' /\ AtLeastOnce'
    <2>1. \A d \in Engines : d # e => phase'[d] = phase[d]
        BY <1>1 DEF IInv, TypeOK
    <2>2. \A d \in Engines : First(d)' = First(d)
        BY <1>1 DEF First
    <2>3. AckOK'
        BY <1>1, <2>1, <2>2 DEF IInv, AckOK
    <2> QED
        BY <1>1, <1>2, <2>1, <2>3 DEF IInv, BatchOK, AtLeastOnce
<1>14. TypeOK'
    <2>1. live' \subseteq 1 .. Len(log)
        BY <1>1, <1>2 DEF IInv, TypeOK
    <2>2. phase' \in [Engines -> {"idle", "replay"} \cup Consuming]
        BY <1>1 DEF IInv, TypeOK, Consuming
    <2> HIDE DEF c, m, i
    <2> QED
        BY <1>1, <1>3, <1>4, <1>6, <2>1, <2>2 DEF IInv, TypeOK
<1> QED
    BY <1>10, <1>11, <1>12, <1>14 DEF IInv

\* Every step keeps the invariant.
LEMMA NextOK == IInv /\ [Next]_vars => IInv'
<1> SUFFICES ASSUME IInv, [Next]_vars PROVE IInv'
    OBVIOUS
<1>1. CASE UNCHANGED vars
    <2>1. MemoriesAnnounced' /\ LiveAnnounced'
        BY <1>1, QuietOK DEF vars, logVars, outVars, historyVars
    <2>2. TypeOK'
        BY <1>1 DEF vars, logVars, outVars, historyVars, IInv, TypeOK
    <2>3. BatchOK' /\ AckOK' /\ AtLeastOnce'
        BY <1>1 DEF vars, logVars, outVars, historyVars, IInv, BatchOK, AckOK, AtLeastOnce, First
    <2> QED
        BY <2>1, <2>2, <2>3 DEF IInv
<1>2. ASSUME NEW c \in Command, AppendCommand(c) PROVE IInv'
    BY <1>2, AppendCommandOK
<1>3. ASSUME NEW e \in Engines, EngineStep(e) PROVE IInv'
    BY <1>3, OwnershipOK, ReplayOK, DeliveryOK, HandleOK, AckedOK DEF EngineStep
<1>4. ASSUME NEW e \in Engines,
             ReplayFails(e) \/ GroupFails(e) \/ ReadLost(e) \/ AckFails(e) \/ Crash(e)
      PROVE  IInv'
    BY <1>4, OwnershipOK, DeliveryOK, AckedOK, CrashOK
<1>5. CASE Expire
    <2>1. lease \in Engines
        BY <1>5 DEF Expire, IInv, TypeOK
    <2> QED
        BY <1>5, <2>1, OwnershipOK
<1> QED
    BY <1>1, <1>2, <1>3, <1>4, <1>5 DEF Next

\* The invariant holds throughout.
THEOREM Invariance == Spec => []IInv
    BY InitOK, NextOK, PTL DEF Spec

\* Every variable keeps its type; in particular no order is both open and
\* closed, whatever is replayed into a memory or handled twice.
THEOREM TypeCorrect == Spec => []TypeOK
<1>1. IInv => TypeOK
    BY DEF IInv
<1> QED
    BY <1>1, Invariance, PTL

\* No entry leaves the pending list before it was executed outside a replay,
\* whatever crashes, failovers, lost answers and failed acknowledgements.
THEOREM AlwaysAtLeastOnce == Spec => []AtLeastOnce
<1>1. IInv => AtLeastOnce
    BY DEF IInv
<1> QED
    BY <1>1, Invariance, PTL

\* What the lease holder has in memory was announced on the event stream, or a
\* replay was the first to take the command.
THEOREM EffectsAlwaysAnnounced == Spec => []EffectsAnnounced
<1>1. IInv => EffectsAnnounced
    BY DEF IInv, MemoriesAnnounced, EffectsAnnounced, KnownCreated, KnownCanceled
<1> QED
    BY <1>1, Invariance, PTL

-----------------------------------------------------------------------------
(* What a replay computes                                                  *)

\* Whether the user can pay makes no difference to what c does to m.
Indifferent(m, c) == c.type # "CREATE_ORDER" \/ c.order \in Known(m)

\* g[i] is the memory after the first i commands of l, for i up to n, when
\* those in t find the cash.
Runs(g, l, t, n) ==
    g = [i \in 0 .. n |-> IF i = 0 THEN Blank ELSE Execute(g[i - 1], l[i], i \in t)]

\* The end of such a run.
RunTo(l, t, n) == (CHOOSE g : Runs(g, l, t, n))[n]

\* Replayed is one.
LEMMA ReplayedUnfold ==
    \A n : Replayed(n) = RunTo(log, taken, n) /\ Replayed(n)' = RunTo(log', taken', n)
    BY DEF Replayed, RunTo, Runs

\* An indifferent command does the same with and without cash.
LEMMA IndifferentExecute ==
    ASSUME NEW m, NEW c, NEW p, NEW q, Indifferent(m, c)
    PROVE  Execute(m, c, p) = Execute(m, c, q)
    BY DEF Indifferent, Execute, Takes

\* A run exists for every length.
LEMMA RunsExist ==
    ASSUME NEW l, NEW t, NEW n \in Nat
    PROVE  \E g : Runs(g, l, t, n)
<1> DEFINE B == {k \in Nat : ~\E g : Runs(g, l, t, k)}
<1>1. ASSUME B # {} PROVE FALSE
    <2>1. B \subseteq Nat
        OBVIOUS
    <2>2. PICK b \in B : \A k \in B : b <= k
        <3> HIDE DEF B
        <3> QED
            BY <1>1, <2>1, SmallestExists
    <2>3. CASE b = 0
        <3> DEFINE g == [i \in 0 .. 0 |-> Blank]
        <3>1. g = [i \in 0 .. 0 |-> IF i = 0 THEN Blank ELSE Execute(g[i - 1], l[i], i \in t)]
            <4>1. \A i \in 0 .. 0 : i = 0
                OBVIOUS
            <4> QED
                BY <4>1
        <3>2. Runs(g, l, t, 0)
            BY <3>1 DEF Runs
        <3> QED
            BY <2>2, <2>3, <3>2
    <2>4. CASE b # 0
        <3>1. b \in Nat /\ b - 1 \in Nat /\ b - 1 \notin B
            BY <2>2, <2>4
        <3>2. PICK g : Runs(g, l, t, b - 1)
            BY <3>1
        <3> DEFINE h == [i \in 0 .. b |-> IF i < b THEN g[i] ELSE Execute(g[b - 1], l[b], b \in t)]
                   r == [i \in 0 .. b |-> IF i = 0 THEN Blank ELSE Execute(h[i - 1], l[i], i \in t)]
        <3>3. ASSUME NEW i \in 0 .. b PROVE h[i] = r[i]
            <4>1. CASE i = 0
                <5>1. h[i] = g[0] /\ 0 \in 0 .. (b - 1)
                    BY <2>4, <3>1, <4>1
                <5>2. g[0] = Blank
                    BY <3>2, <5>1 DEF Runs
                <5> QED
                    BY <4>1, <5>1, <5>2
            <4>2. CASE i # 0 /\ i < b
                <5>1. i \in 0 .. (b - 1) /\ i - 1 \in 0 .. b /\ i - 1 < b
                    BY <3>1, <4>2
                <5>2. g[i] = Execute(g[i - 1], l[i], i \in t)
                    BY <3>2, <4>2, <5>1 DEF Runs
                <5>3. h[i - 1] = g[i - 1] /\ h[i] = g[i]
                    BY <4>2, <5>1
                <5>4. r[i] = Execute(h[i - 1], l[i], i \in t)
                    BY <4>2
                <5> HIDE DEF h, r
                <5> QED
                    BY <5>2, <5>3, <5>4
            <4>3. CASE i = b
                <5>1. b - 1 \in 0 .. b /\ b - 1 < b /\ ~(b < b)
                    BY <2>4, <3>1
                <5>2. h[b - 1] = g[b - 1] /\ h[b] = Execute(g[b - 1], l[b], b \in t)
                    BY <4>3, <5>1
                <5>3. r[b] = Execute(h[b - 1], l[b], b \in t)
                    BY <2>4, <4>3
                <5> HIDE DEF h, r
                <5> QED
                    BY <4>3, <5>2, <5>3
            <4> QED
                BY <3>1, <4>1, <4>2, <4>3
        <3>4. h = r
            BY <3>3
        <3>5. Runs(h, l, t, b)
            BY <3>4 DEF Runs
        <3> QED
            BY <2>2, <3>5
    <2> QED
        BY <2>3, <2>4
<1> QED
    BY <1>1

\* Two runs agree as far as their commands do, and as far as these agree on
\* the cash or are indifferent to it.
LEMMA RunsAgree ==
    ASSUME NEW l, NEW t, NEW k, NEW u, NEW n \in Nat, NEW m \in Nat, NEW g, NEW h,
           Runs(g, l, t, n), Runs(h, k, u, m), n <= m, \A i \in 1 .. n : l[i] = k[i],
           \A i \in 1 .. n : (i \in t <=> i \in u) \/ Indifferent(g[i - 1], l[i])
    PROVE  \A i \in 0 .. n : g[i] = h[i]
<1> DEFINE B == {i \in 0 .. n : g[i] # h[i]}
<1>1. ASSUME B # {} PROVE FALSE
    <2>1. B \subseteq Nat
        OBVIOUS
    <2>2. PICK b \in B : \A i \in B : b <= i
        <3> HIDE DEF B
        <3> QED
            BY <1>1, <2>1, SmallestExists
    <2>3. b \in 0 .. n /\ b \in 0 .. m /\ g[b] # h[b]
        BY <2>2
    <2>4. CASE b = 0
        BY <2>3, <2>4 DEF Runs
    <2>5. CASE b # 0
        <3>1. b \in 1 .. n /\ b - 1 \in 0 .. n /\ b - 1 < b
            BY <2>3, <2>5
        <3>2. b - 1 \notin B
            BY <2>2, <3>1
        <3>3. g[b - 1] = h[b - 1] /\ l[b] = k[b]
            BY <3>1, <3>2
        <3>4. g[b] = Execute(g[b - 1], l[b], b \in t) /\ h[b] = Execute(h[b - 1], k[b], b \in u)
            BY <2>3, <2>5 DEF Runs
        <3>5. Execute(g[b - 1], l[b], b \in t) = Execute(g[b - 1], l[b], b \in u)
            <4>1. CASE b \in t <=> b \in u
                <5>1. (b \in t) = (b \in u)
                    BY <4>1
                <5> QED
                    BY <5>1
            <4>2. CASE Indifferent(g[b - 1], l[b])
                BY <4>2, IndifferentExecute
            <4> QED
                BY <3>1, <4>1, <4>2
        <3> QED
            BY <2>3, <3>3, <3>4, <3>5
    <2> QED
        BY <2>4, <2>5
<1> QED
    BY <1>1

\* One run holds the ends of all shorter ones.
LEMMA RunToRun ==
    ASSUME NEW l, NEW t, NEW n \in Nat
    PROVE  \E g : Runs(g, l, t, n) /\ \A k \in 0 .. n : RunTo(l, t, k) = g[k]
<1>1. PICK g : Runs(g, l, t, n)
    BY RunsExist
<1>2. ASSUME NEW k \in 0 .. n PROVE RunTo(l, t, k) = g[k]
    <2>1. k \in Nat /\ k <= n /\ k \in 0 .. k
        OBVIOUS
    <2> DEFINE f == CHOOSE h : Runs(h, l, t, k)
    <2>2. Runs(f, l, t, k)
        BY <2>1, RunsExist
    <2>3. RunTo(l, t, k) = f[k]
        BY DEF RunTo
    <2> HIDE DEF f
    <2>4. \A i \in 0 .. k : f[i] = g[i]
        <3>1. \A i \in 1 .. k : l[i] = l[i]
            OBVIOUS
        <3>2. \A i \in 1 .. k : (i \in t <=> i \in t) \/ Indifferent(f[i - 1], l[i])
            OBVIOUS
        <3> QED
            BY <1>1, <2>1, <2>2, <3>1, <3>2, RunsAgree
    <2> QED
        BY <2>1, <2>3, <2>4
<1> QED
    BY <1>1, <1>2

\* A run executes one command after the other.
LEMMA RunToSteps ==
    ASSUME NEW l, NEW t
    PROVE  /\ RunTo(l, t, 0) = Blank
           /\ \A n \in Nat : RunTo(l, t, n + 1) = Execute(RunTo(l, t, n), l[n + 1], n + 1 \in t)
<1>1. RunTo(l, t, 0) = Blank
    <2>1. PICK g : Runs(g, l, t, 0) /\ \A k \in 0 .. 0 : RunTo(l, t, k) = g[k]
        BY RunToRun
    <2>2. 0 \in 0 .. 0
        OBVIOUS
    <2>3. g[0] = Blank
        BY <2>1, <2>2 DEF Runs
    <2> QED
        BY <2>1, <2>2, <2>3
<1>2. ASSUME NEW n \in Nat
      PROVE  RunTo(l, t, n + 1) = Execute(RunTo(l, t, n), l[n + 1], n + 1 \in t)
    <2> PICK k \in Nat : k = n + 1
        OBVIOUS
    <2>1. n \in 0 .. k /\ k \in 0 .. k /\ k # 0 /\ k - 1 = n
        OBVIOUS
    <2>2. PICK g : Runs(g, l, t, k) /\ \A i \in 0 .. k : RunTo(l, t, i) = g[i]
        BY RunToRun
    <2>3. g[k] = Execute(g[n], l[k], k \in t)
        BY <2>1, <2>2 DEF Runs
    <2>4. RunTo(l, t, k) = Execute(RunTo(l, t, n), l[k], k \in t)
        BY <2>1, <2>2, <2>3
    <2> QED
        BY <2>4
<1> QED
    BY <1>1, <1>2

\* Two logs are alike up to n: same commands, and same cash where it matters.
Alike(l, t, k, u, n) ==
    /\ \A i \in 1 .. n : k[i] = l[i]
    /\ \A i \in 1 .. n : (i \in t <=> i \in u) \/ Indifferent(RunTo(l, t, i - 1), l[i])

\* Runs of logs that are alike have the same ends.
LEMMA RunToKept ==
    ASSUME NEW l, NEW t, NEW k, NEW u, NEW n \in Nat, Alike(l, t, k, u, n)
    PROVE  \A i \in 0 .. n : RunTo(k, u, i) = RunTo(l, t, i)
<1>1. PICK g : Runs(g, l, t, n) /\ \A i \in 0 .. n : RunTo(l, t, i) = g[i]
    BY RunToRun
<1>2. PICK h : Runs(h, k, u, n) /\ \A i \in 0 .. n : RunTo(k, u, i) = h[i]
    BY RunToRun
<1>3. ASSUME NEW i \in 1 .. n PROVE (i \in t <=> i \in u) \/ Indifferent(g[i - 1], l[i])
    <2>1. i - 1 \in 0 .. n
        OBVIOUS
    <2> QED
        BY <1>1, <2>1 DEF Alike
<1>4. n <= n /\ \A i \in 1 .. n : l[i] = k[i]
    BY DEF Alike
<1>5. \A i \in 0 .. n : g[i] = h[i]
    BY <1>1, <1>2, <1>3, <1>4, RunsAgree
<1> QED
    BY <1>1, <1>2, <1>5

\* What Replayed gives does not depend on the commands behind it, nor on the
\* cash of those that are indifferent to it.
LEMMA ReplayedKept ==
    ASSUME NEW n \in Nat, \A i \in 1 .. n : log'[i] = log[i],
           \A i \in 1 .. n : (i \in taken <=> i \in taken') \/ Indifferent(Replayed(i - 1), log[i])
    PROVE  \A k \in 0 .. n : Replayed(k)' = Replayed(k)
<1>1. \A k : Replayed(k) = RunTo(log, taken, k) /\ Replayed(k)' = RunTo(log', taken', k)
    BY ReplayedUnfold
<1>2. Alike(log, taken, log', taken', n)
    BY <1>1 DEF Alike
<1>3. \A i \in 0 .. n : RunTo(log', taken', i) = RunTo(log, taken, i)
    BY <1>2, RunToKept
<1> QED
    BY <1>1, <1>3

\* A step that changes neither the log nor what was taken.
LEMMA ReplayedSame ==
    ASSUME NEW n \in Nat, log' = log, taken' = taken
    PROVE  \A k \in 0 .. n : Replayed(k)' = Replayed(k)
    BY ReplayedKept

-----------------------------------------------------------------------------
(* The memory is a prefix of the log                                       *)

\* Executing c again would change nothing.
Settled(m, c) ==
    c.order \in m.closed \/ (c.type = "CREATE_ORDER" /\ c.order \in m.open)

\* The memory of e is that of the first n commands, what e has still to execute
\* goes on from there without a gap, a lease holder has executed or has at hand
\* whatever was delivered, a command among the first n has had its effect or
\* was refused, and it is on record whether its user could pay if that matters.
Agrees(e, n) ==
    /\ memory[e] = Replayed(n)
    /\ \A i \in todo[e] : \A j \in n + 1 .. i : j \in todo[e]
    /\ lease = e => \A i \in n + 1 .. cursor : i \in todo[e]
    /\ phase[e] = "ack" => First(e) <= n
    /\ \A i \in 1 .. n : i \in refused \/ Settled(memory[e], log[i])
    /\ \A i \in 1 .. n : i \in taken \cup refused \/ Indifferent(Replayed(i - 1), log[i])

\* An engine between two batches has nothing at hand.
RestOK == \A e \in Engines : phase[e] \in {"idle", "read"} => todo[e] = {}

\* Every engine's memory is a prefix of the log while no mishap has happened.
LogOK == mishaps = {} => \A e \in Engines : \E n \in 0 .. Len(log) : Agrees(e, n)

\* A settled command is not taken.
LEMMA SettledNotTaken ==
    ASSUME NEW m \in Memory, m.open \cap m.closed = {}, NEW c \in Command, NEW p \in BOOLEAN,
           Settled(m, c)
    PROVE  ~Takes(m, c, p)
    BY DEF Settled, Takes, Known, Memory, Command

\* Executing a command settles it, unless it is refused, and unsettles none.
LEMMA ExecuteSettles ==
    ASSUME NEW m \in Memory, m.open \cap m.closed = {}, NEW c \in Command, NEW p \in BOOLEAN
    PROVE  /\ ~Refuses(m, c, p) => Settled(Execute(m, c, p), c)
           /\ \A b : Settled(m, b) => Settled(Execute(m, c, p), b)
<1> DEFINE r == Execute(m, c, p)
<1>1. /\ ~Takes(m, c, p) => r = m
      /\ Takes(m, c, p) /\ c.type = "CREATE_ORDER" =>
            r.open = m.open \cup {c.order} /\ r.closed = m.closed
      /\ Takes(m, c, p) /\ c.type = "CANCEL_ORDER" =>
            r.open = m.open \ {c.order} /\ r.closed = m.closed \cup {c.order}
            /\ c.order \in m.open
    BY ExecuteProperties
<1>2. c.type \in {"CREATE_ORDER", "CANCEL_ORDER"}
    BY DEF Command
<1> HIDE DEF r
<1>3. ~Refuses(m, c, p) => Settled(r, c)
    <2>1. CASE Takes(m, c, p)
        BY <1>1, <1>2, <2>1 DEF Settled
    <2>2. CASE ~Takes(m, c, p) /\ c.order \in Known(m)
        BY <1>1, <1>2, <2>2 DEF Settled, Takes, Known
    <2> QED
        BY <2>1, <2>2 DEF Refuses
<1>4. ASSUME NEW b, Settled(m, b) PROVE Settled(r, b)
    BY <1>1, <1>2, <1>4 DEF Settled
<1> QED
    BY <1>3, <1>4 DEF r

\* An engine that has started over agrees with the empty prefix.
LEMMA BlankAgrees ==
    ASSUME NEW e \in Engines, memory'[e] = Blank, todo'[e] = {}, lease' # e, phase'[e] # "ack"
    PROVE  Agrees(e, 0)'
<1>1. Replayed(0)' = Blank
    BY ReplayedUnfold, RunToSteps
<1> QED
    BY <1>1 DEF Agrees

\* Agreement survives a step that leaves the engine and its prefix alone, and
\* takes no command that was refused.
LEMMA AgreesKept ==
    ASSUME NEW d \in Engines, NEW n \in Nat, Agrees(d, n),
           \A i \in 1 .. n : log'[i] = log[i],
           memory'[d] = memory[d], todo'[d] = todo[d],
           phase'[d] = "ack" => phase[d] = "ack",
           lease' = d => lease = d /\ cursor' = cursor,
           refused \subseteq refused', taken \subseteq taken',
           \A j \in taken' \ taken : j \notin refused
    PROVE  Agrees(d, n)'
<1>1. \A i \in 1 .. n : (i \in taken <=> i \in taken') \/ Indifferent(Replayed(i - 1), log[i])
    BY DEF Agrees
<1>2. \A k \in 0 .. n : Replayed(k)' = Replayed(k)
    BY <1>1, ReplayedKept
<1>3. First(d)' = First(d)
    BY DEF First
<1>4. \A i \in 1 .. n : i \in refused' \/ Settled(memory'[d], log'[i])
    BY DEF Agrees
<1>5. ASSUME NEW i \in 1 .. n
      PROVE  i \in taken' \cup refused' \/ Indifferent(Replayed(i - 1)', log'[i])
    <2>1. i - 1 \in 0 .. n
        OBVIOUS
    <2>2. Replayed(i - 1)' = Replayed(i - 1) /\ log'[i] = log[i]
        BY <1>2, <2>1
    <2>3. i \in taken \cup refused \/ Indifferent(Replayed(i - 1), log[i])
        BY DEF Agrees
    <2> QED
        BY <2>2, <2>3
<1>6. \A i \in 1 .. n : i \in taken' \cup refused' \/ Indifferent(Replayed(i - 1), log[i])'
    BY <1>5 DEF Indifferent
<1>7. n \in 0 .. n
    OBVIOUS
<1> QED
    BY <1>2, <1>3, <1>4, <1>6, <1>7 DEF Agrees

\* As long as no mishap happens, the record of what was taken tells what an
\* execution did.
LEMMA TakenRecorded ==
    ASSUME NEW e \in Engines, NEW i, NEW p \in BOOLEAN, log[i] \in Command,
           Record(e, i, p), mishaps' = {}
    PROVE  /\ Execute(memory[e], log[i], p) = Execute(memory[e], log[i], i \in taken')
           /\ i \in taken' \cup refused' \/ Indifferent(memory[e], log[i])
<1> DEFINE m == memory[e]
           c == log[i]
<1>1. /\ taken' = IF Takes(m, c, p) THEN taken \cup {i} ELSE taken
      /\ refused' = IF Refuses(m, c, p) THEN refused \cup {i} ELSE refused
      /\ ~(Refuses(m, c, p) /\ i \in taken)
    BY DEF Record
<1> HIDE DEF m, c
<1>2. CASE Indifferent(m, c)
    BY <1>2, IndifferentExecute DEF m, c
<1>3. CASE ~Indifferent(m, c)
    <2>1. c.type = "CREATE_ORDER" /\ c.order \notin Known(m)
        BY <1>3 DEF Indifferent
    <2>2. (Takes(m, c, p) <=> p) /\ (Refuses(m, c, p) <=> ~p)
        BY <2>1 DEF Takes, Refuses
    <2>3. (i \in taken') = p /\ i \in taken' \cup refused'
        BY <1>1, <2>2
    <2> QED
        BY <2>3 DEF m, c
<1> QED
    BY <1>2, <1>3

\* Executing the next entry: it is behind the prefix and changes nothing, or it
\* is the one that follows the prefix.
LEMMA AgreesExecuted ==
    ASSUME IInv, NEW e \in Engines, NEW n \in 0 .. Len(log), Agrees(e, n), todo[e] # {},
           NEW p \in BOOLEAN,
           memory' = [memory EXCEPT ![e] = Execute(@, log[First(e)], p)],
           log' = log, Record(e, First(e), p), mishaps' = {}
    PROVE  \E k \in n .. Len(log) :
              /\ memory'[e] = Replayed(k)'
              /\ \A j \in todo[e] : \A h \in k + 1 .. j : h \in todo[e]
              /\ First(e) <= k
              /\ \A j \in 1 .. k : j \in refused' \/ Settled(memory'[e], log[j])
              /\ \A j \in 1 .. k : j \in taken' \cup refused' \/ Indifferent(Replayed(j - 1)', log[j])
<1> PICK i \in 1 .. Len(log) : i = First(e) /\ i \in todo[e] /\ \A j \in todo[e] : i <= j
    BY FirstProperties DEF IInv
<1> DEFINE m == memory[e]
           c == log[i]
<1>1. /\ m \in Memory /\ m.open \cap m.closed = {} /\ c \in Command /\ Len(log) \in Nat
      /\ todo[e] \subseteq 1 .. Len(log)
    BY DEF IInv, TypeOK
<1>2. memory'[e] = Execute(m, c, p) /\ Record(e, i, p)
    BY DEF IInv, TypeOK
<1>3. /\ refused' = IF Refuses(m, c, p) THEN refused \cup {i} ELSE refused
      /\ taken' = IF Takes(m, c, p) THEN taken \cup {i} ELSE taken
      /\ ~(Takes(m, c, p) /\ i \in refused)
    BY <1>2 DEF Record
<1>4. /\ m = Replayed(n)
      /\ \A j \in todo[e] : \A h \in n + 1 .. j : h \in todo[e]
      /\ \A j \in 1 .. n : j \in refused \/ Settled(m, log[j])
      /\ \A j \in 1 .. n : j \in taken \cup refused \/ Indifferent(Replayed(j - 1), log[j])
    BY DEF Agrees
<1>0. /\ Execute(m, c, p) = Execute(m, c, i \in taken')
      /\ i \in taken' \cup refused' \/ Indifferent(m, c)
    BY <1>1, <1>2, TakenRecorded
<1> HIDE DEF m, c
<1>5. refused \subseteq refused' /\ taken \subseteq taken'
    BY <1>3
<1>6. \A k \in 0 .. n : Replayed(k)' = Replayed(k)
    <2>1. \A j \in 1 .. n : (j \in taken <=> j \in taken') \/ Indifferent(Replayed(j - 1), log[j])
        BY <1>3, <1>4
    <2>2. n \in Nat /\ \A j \in 1 .. n : log'[j] = log[j]
        OBVIOUS
    <2> QED
        BY <2>1, <2>2, ReplayedKept
<1>7. \A j \in 1 .. n : j \in taken' \cup refused' \/ Indifferent(Replayed(j - 1)', log[j])
    <2> SUFFICES ASSUME NEW j \in 1 .. n
                 PROVE  j \in taken' \cup refused' \/ Indifferent(Replayed(j - 1)', log[j])
        OBVIOUS
    <2>1. j - 1 \in 0 .. n
        OBVIOUS
    <2>2. Replayed(j - 1)' = Replayed(j - 1)
        BY <1>6, <2>1
    <2> QED
        BY <1>4, <1>5, <2>2
<1>8. n \in 0 .. n /\ n \in Nat
    OBVIOUS
<1>9. CASE i <= n
    <2>1. i \in refused \/ Settled(m, c)
        BY <1>4, <1>9 DEF c
    <2>2. ~Takes(m, c, p)
        BY <1>1, <1>3, <2>1, SettledNotTaken
    <2>3. memory'[e] = m
        BY <1>2, <2>2 DEF Execute
    <2>4. memory'[e] = Replayed(n)'
        BY <1>4, <1>6, <1>8, <2>3
    <2>5. n \in n .. Len(log)
        BY <1>1
    <2> QED
        BY <1>4, <1>5, <1>7, <1>9, <2>3, <2>4, <2>5
<1>10. CASE ~(i <= n)
    <2>1. i = n + 1
        <3>1. n + 1 \in n + 1 .. i
            BY <1>1, <1>10
        <3>2. n + 1 \in todo[e]
            BY <1>4, <3>1
        <3> QED
            BY <1>1, <1>10, <3>2
    <2>2. i \in n .. Len(log) /\ i - 1 = n
        BY <1>1, <2>1
    <2>3. memory'[e] = Replayed(i)'
        <3>1. RunTo(log', taken', n + 1) = Execute(RunTo(log', taken', n), log'[n + 1], n + 1 \in taken')
            BY <1>8, RunToSteps
        <3>2. Replayed(i)' = Execute(Replayed(n)', c, i \in taken')
            BY <2>1, <3>1, ReplayedUnfold DEF c
        <3> QED
            BY <1>0, <1>2, <1>4, <1>6, <1>8, <3>2
    <2>4. ASSUME NEW j \in todo[e], NEW h \in i + 1 .. j PROVE h \in todo[e]
        <3>1. h \in n + 1 .. j
            BY <1>1, <2>1, <2>2
        <3> QED
            BY <1>4, <3>1
    <2>5. /\ ~Refuses(m, c, p) => Settled(memory'[e], c)
          /\ \A b : Settled(m, b) => Settled(memory'[e], b)
        BY <1>1, <1>2, ExecuteSettles
    <2>6. ASSUME NEW j \in 1 .. i
          PROVE  /\ j \in refused' \/ Settled(memory'[e], log[j])
                 /\ j \in taken' \cup refused' \/ Indifferent(Replayed(j - 1)', log[j])
        <3>1. CASE j = i
            <4>1. Replayed(j - 1)' = m
                BY <1>4, <1>6, <1>8, <2>2, <3>1
            <4> QED
                BY <1>0, <1>3, <2>5, <3>1, <4>1 DEF c
        <3>2. CASE j # i
            <4>1. j \in 1 .. n
                BY <2>1, <2>2, <3>2
            <4> QED
                BY <1>4, <1>5, <1>7, <2>5, <4>1
        <3> QED
            BY <3>1, <3>2
    <2>7. i <= i
        OBVIOUS
    <2> QED
        BY <2>2, <2>3, <2>4, <2>6, <2>7
<1> QED
    BY <1>9, <1>10

\* LogOK holds before and after every step.
LEMMA LogOKNext == IInv /\ RestOK /\ LogOK /\ [Next]_vars => LogOK'
<1> SUFFICES ASSUME IInv, RestOK, LogOK, [Next]_vars, mishaps' = {}
             PROVE  \A d \in Engines : \E n \in 0 .. Len(log') : Agrees(d, n)'
    BY DEF LogOK
<1>1. /\ log \in Seq(Command) /\ Len(log) \in Nat
      /\ Free \notin Engines /\ cursor \in 0 .. Len(log) /\ pending \subseteq 1 .. cursor
      /\ todo \in [Engines -> SUBSET (1 .. Len(log))] /\ DOMAIN phase = Engines
      /\ DOMAIN memory = Engines
    BY CommandLogAssumption DEF IInv, TypeOK
\* The engines of which a step is no concern.
<1>2. ASSUME mishaps = {}, NEW d \in Engines, memory'[d] = memory[d], todo'[d] = todo[d],
             phase'[d] = "ack" => phase[d] = "ack",
             lease' = d => lease = d /\ cursor' = cursor,
             log' = log, refused \subseteq refused', taken \subseteq taken',
             \A j \in taken' \ taken : j \notin refused
      PROVE  \E n \in 0 .. Len(log') : Agrees(d, n)'
    <2>1. PICK n \in 0 .. Len(log) : Agrees(d, n)
        BY <1>2 DEF LogOK
    <2>2. Agrees(d, n)'
        BY <1>2, <2>1, AgreesKept
    <2> QED
        BY <1>2, <2>2
<1>3. CASE UNCHANGED vars
    BY <1>2, <1>3 DEF vars, logVars, historyVars
<1>4. ASSUME NEW c \in Command, AppendCommand(c)
      PROVE  \A d \in Engines : \E n \in 0 .. Len(log') : Agrees(d, n)'
    <2> SUFFICES ASSUME NEW d \in Engines PROVE \E n \in 0 .. Len(log') : Agrees(d, n)'
        OBVIOUS
    <2>1. /\ log' = Append(log, c) /\ mishaps = {}
          /\ UNCHANGED <<cursor, lease, phase, todo, memory, taken, refused>>
        BY <1>4 DEF AppendCommand, historyVars
    <2>2. PICK n \in 0 .. Len(log) : Agrees(d, n)
        BY <2>1 DEF LogOK
    <2>3. /\ Len(log') = Len(log) + 1 /\ \A i \in 1 .. Len(log) : log'[i] = log[i]
        BY <1>1, <2>1
    <2>4. n \in 0 .. Len(log') /\ n \in Nat /\ \A i \in 1 .. n : i \in 1 .. Len(log)
        BY <1>1, <2>3
    <2>5. Agrees(d, n)'
        BY <2>1, <2>2, <2>3, <2>4, AgreesKept
    <2> QED
        BY <2>4, <2>5
<1>5. CASE Expire
    BY <1>1, <1>2, <1>5 DEF Expire, logVars, historyVars
<1>6. ASSUME NEW e \in Engines, NoticeLoss(e) \/ Stop(e) \/ GroupFails(e)
      PROVE  \A d \in Engines : \E n \in 0 .. Len(log') : Agrees(d, n)'
    BY <1>1, <1>2, <1>6 DEF NoticeLoss, Stop, GroupFails, logVars, historyVars
<1>7. ASSUME NEW e \in Engines, ReplayFails(e) \/ ReadLost(e) PROVE FALSE
    BY <1>7 DEF ReplayFails, ReadLost
\* An engine that starts over or takes over.
<1>8. ASSUME NEW e \in Engines, Crash(e)
      PROVE  \A d \in Engines : \E n \in 0 .. Len(log') : Agrees(d, n)'
    <2>1. /\ memory'[e] = Blank /\ todo'[e] = {} /\ lease' # e /\ phase'[e] # "ack"
          /\ mishaps = {} /\ UNCHANGED <<log, cursor, taken, refused>>
          /\ lease' \in {lease, Free}
          /\ \A d \in Engines : d # e => memory'[d] = memory[d] /\ todo'[d] = todo[d]
                                         /\ phase'[d] = phase[d]
        BY <1>1, <1>8 DEF Crash, logVars, historyVars
    <2>2. Agrees(e, 0)'
        BY <2>1, BlankAgrees
    <2>3. 0 \in 0 .. Len(log')
        BY <1>1, <2>1
    <2>4. ASSUME NEW d \in Engines, d # e PROVE \E n \in 0 .. Len(log') : Agrees(d, n)'
        BY <1>1, <1>2, <2>1, <2>4
    <2> QED
        BY <2>2, <2>3, <2>4
<1>9. ASSUME NEW e \in Engines, Acquire(e)
      PROVE  \A d \in Engines : \E n \in 0 .. Len(log') : Agrees(d, n)'
    <2>1. /\ todo'[e] = 1 .. Len(log) /\ phase'[e] = "replay" /\ lease' = e
          /\ mishaps = {} /\ UNCHANGED <<log, cursor, taken, refused, memory>>
          /\ \A d \in Engines : d # e => todo'[d] = todo[d] /\ phase'[d] = phase[d]
        BY <1>1, <1>9 DEF Acquire, logVars, historyVars
    <2>2. PICK n \in 0 .. Len(log) : Agrees(e, n)
        BY <2>1 DEF LogOK
    <2>3. \A k \in 0 .. n : Replayed(k)' = Replayed(k)
        BY <2>1, ReplayedSame
    <2>4. /\ \A i \in todo'[e] : \A j \in n + 1 .. i : j \in todo'[e]
          /\ \A i \in n + 1 .. cursor' : i \in todo'[e]
        BY <1>1, <2>1
    <2>5. Agrees(e, n)'
        BY <2>1, <2>2, <2>3, <2>4 DEF Agrees
    <2>6. ASSUME NEW d \in Engines, d # e PROVE \E k \in 0 .. Len(log') : Agrees(d, k)'
        BY <1>2, <2>1, <2>6
    <2> QED
        BY <2>1, <2>5, <2>6
\* A batch goes on where the engine's memory ends, or lies behind it.
<1>10. ASSUME NEW e \in Engines, Claim(e) \/ Read(e)
       PROVE  \A d \in Engines : \E n \in 0 .. Len(log') : Agrees(d, n)'
    <2>1. /\ todo[e] = {} /\ mishaps = {} /\ UNCHANGED <<log, lease, taken, refused, memory>>
          /\ phase'[e] # "ack" /\ cursor' \in Nat
          /\ \A d \in Engines : d # e => todo'[d] = todo[d] /\ phase'[d] = phase[d]
          /\ cursor' # cursor => lease = e
        <3>1. CASE Claim(e)
            <4>1. PICK idle \in SUBSET pending :
                      /\ todo' = [todo EXCEPT ![e] = idle]
                      /\ phase' = [phase EXCEPT ![e] = IF idle = {} THEN "read" ELSE "handle"]
                BY <3>1 DEF Claim
            <4>2. /\ todo[e] = {} /\ UNCHANGED <<log, lease, taken, refused, memory, cursor>>
                  /\ mishaps \subseteq mishaps'
                BY <3>1 DEF Claim, logVars
            <4> QED
                BY <1>1, <4>1, <4>2
        <3>2. CASE Read(e)
            <4>1. PICK n \in 1 .. BatchSize :
                      /\ todo' = [todo EXCEPT ![e] = cursor + 1 .. cursor + n]
                      /\ cursor' = cursor + n
                BY <3>2 DEF Read
            <4>2. /\ todo[e] = {} /\ UNCHANGED <<log, lease, taken, refused, memory>>
                  /\ phase' = [phase EXCEPT ![e] = "handle"]
                  /\ mishaps' = IF lease = e THEN mishaps ELSE mishaps \cup {"shared"}
                BY <3>2 DEF Read, RestOK
            <4>3. lease = e /\ mishaps = {}
                BY <4>2
            <4>4. cursor' \in Nat
                BY <1>1, <4>1
            <4> QED
                BY <1>1, <4>1, <4>2, <4>3, <4>4
        <3> QED
            BY <1>10, <3>1, <3>2
    <2>2. \/ lease # e /\ todo'[e] = {}
          \/ lease = e /\ cursor' = cursor /\ todo'[e] \subseteq 1 .. cursor
          \/ lease = e /\ todo'[e] = cursor + 1 .. cursor'
        <3>1. CASE Claim(e)
            <4>1. PICK idle \in SUBSET pending : /\ todo' = [todo EXCEPT ![e] = idle]
                                                 /\ lease = e \/ idle = {}
                BY <3>1 DEF Claim
            <4> QED
                BY <1>1, <3>1, <4>1 DEF Claim, logVars
        <3>2. CASE Read(e)
            BY <1>1, <3>2 DEF Read
        <3> QED
            BY <1>10, <3>1, <3>2
    <2>3. PICK n \in 0 .. Len(log) : Agrees(e, n)
        BY <2>1 DEF LogOK
    <2>4. lease = e => cursor <= n
        <3>1. lease = e => \A i \in n + 1 .. cursor : i \in {}
            BY <2>1, <2>3 DEF Agrees
        <3>2. ~(cursor <= n) => n + 1 \in n + 1 .. cursor
            BY <1>1
        <3> QED
            BY <3>1, <3>2
    <2>5. /\ \A i \in todo'[e] : \A j \in n + 1 .. i : j \in todo'[e]
          /\ lease = e => \A i \in n + 1 .. cursor' : i \in todo'[e]
        BY <1>1, <2>1, <2>2, <2>4
    <2>6. \A k \in 0 .. n : Replayed(k)' = Replayed(k)
        BY <2>1, ReplayedSame
    <2>7. Agrees(e, n)'
        BY <2>1, <2>3, <2>5, <2>6 DEF Agrees
    <2>8. ASSUME NEW d \in Engines, d # e PROVE \E k \in 0 .. Len(log') : Agrees(d, k)'
        BY <1>2, <2>1, <2>8
    <2> QED
        BY <2>1, <2>7, <2>8
<1>11. ASSUME NEW e \in Engines, Replay(e) \/ Handle(e)
       PROVE  \A d \in Engines : \E n \in 0 .. Len(log') : Agrees(d, n)'
    <2>1. PICK p \in BOOLEAN :
             /\ todo[e] # {} /\ memory' = [memory EXCEPT ![e] = Execute(@, log[First(e)], p)]
             /\ Record(e, First(e), p) /\ UNCHANGED <<log, lease, cursor>>
        BY <1>11 DEF Replay, Handle, logVars, IInv, BatchOK
    <2>2. /\ mishaps = {} /\ refused \subseteq refused' /\ taken \subseteq taken'
          /\ \A j \in taken' \ taken : j \notin refused
        BY <2>1 DEF Record
    <2>3. \A d \in Engines : d # e => memory'[d] = memory[d] /\ todo'[d] = todo[d]
                                      /\ phase'[d] = phase[d]
        BY <1>1, <1>11 DEF Replay, Handle
    <2>4. \/ phase'[e] # "ack" /\ todo'[e] = todo[e] \ {First(e)}
          \/ todo' = todo
        BY <1>1, <1>11 DEF Replay, Handle
    <2>5. PICK n \in 0 .. Len(log) : Agrees(e, n)
        BY <2>2 DEF LogOK
    <2>6. PICK k \in n .. Len(log) :
              /\ memory'[e] = Replayed(k)'
              /\ \A j \in todo[e] : \A h \in k + 1 .. j : h \in todo[e]
              /\ First(e) <= k
              /\ \A j \in 1 .. k : j \in refused' \/ Settled(memory'[e], log[j])
              /\ \A j \in 1 .. k : j \in taken' \cup refused' \/ Indifferent(Replayed(j - 1)', log[j])
        BY <2>1, <2>5, AgreesExecuted
    <2> PICK f \in 1 .. Len(log) : f = First(e)
        BY <2>1, FirstProperties DEF IInv
    <2>7. k \in Nat /\ k \in 0 .. Len(log')
        BY <1>1, <2>1
    <2>8. lease = e => \A i \in k + 1 .. cursor : i \in todo[e]
        <3>1. lease = e => \A i \in n + 1 .. cursor : i \in todo[e]
            BY <2>5 DEF Agrees
        <3>2. \A i \in k + 1 .. cursor : i \in n + 1 .. cursor
            BY <1>1
        <3> QED
            BY <3>1, <3>2
    <2>9. /\ \A i \in todo'[e] : \A j \in k + 1 .. i : j \in todo'[e]
          /\ lease = e => \A i \in k + 1 .. cursor : i \in todo'[e]
        BY <1>1, <2>4, <2>6, <2>7, <2>8
    <2>10. \A j \in 1 .. k : j \in taken' \cup refused' \/ Indifferent(Replayed(j - 1), log[j])'
        BY <2>1, <2>6 DEF Indifferent
    <2>11. phase'[e] = "ack" => First(e)' <= k
        BY <2>4, <2>6 DEF First
    <2>12. Agrees(e, k)'
        BY <2>1, <2>6, <2>9, <2>10, <2>11 DEF Agrees
    <2>13. ASSUME NEW d \in Engines, d # e PROVE \E h \in 0 .. Len(log') : Agrees(d, h)'
        BY <1>2, <2>1, <2>2, <2>3, <2>13
    <2> QED
        BY <2>7, <2>12, <2>13
\* What is acknowledged is in the prefix.
<1>12. ASSUME NEW e \in Engines, Ack(e) \/ AckFails(e)
       PROVE  \A d \in Engines : \E n \in 0 .. Len(log') : Agrees(d, n)'
    <2>1. /\ phase[e] = "ack" /\ phase'[e] # "ack" /\ todo'[e] = todo[e] \ {First(e)}
          /\ mishaps = {} /\ UNCHANGED <<log, lease, cursor, memory, taken, refused>>
          /\ \A d \in Engines : d # e => todo'[d] = todo[d] /\ phase'[d] = phase[d]
        BY <1>1, <1>12 DEF Ack, AckFails, logVars, historyVars
    <2>2. PICK n \in 0 .. Len(log) : Agrees(e, n)
        BY <2>1 DEF LogOK
    <2> PICK f \in 1 .. Len(log) : f = First(e)
        BY <2>1, FirstProperties DEF IInv, BatchOK
    <2>3. f <= n
        BY <2>1, <2>2 DEF Agrees
    <2>4. /\ \A i \in todo[e] : \A j \in n + 1 .. i : j \in todo[e]
          /\ lease = e => \A i \in n + 1 .. cursor : i \in todo[e]
        BY <2>2 DEF Agrees
    <2>5. /\ \A i \in todo'[e] : \A j \in n + 1 .. i : j \in todo'[e]
          /\ lease = e => \A i \in n + 1 .. cursor : i \in todo'[e]
        BY <1>1, <2>1, <2>3, <2>4
    <2>6. \A k \in 0 .. n : Replayed(k)' = Replayed(k)
        BY <2>1, ReplayedSame
    <2>7. Agrees(e, n)'
        BY <2>1, <2>2, <2>5, <2>6 DEF Agrees
    <2>8. ASSUME NEW d \in Engines, d # e PROVE \E k \in 0 .. Len(log') : Agrees(d, k)'
        BY <1>2, <2>1, <2>8
    <2> QED
        BY <2>1, <2>7, <2>8
<1> QED
    BY <1>3, <1>4, <1>5, <1>6, <1>7, <1>8, <1>9, <1>10, <1>11, <1>12 DEF Next, EngineStep

\* An engine between two batches has nothing at hand, whatever step is taken.
LEMMA RestOKNext == IInv /\ RestOK /\ [Next]_vars => RestOK'
<1> SUFFICES ASSUME IInv, RestOK, [Next]_vars PROVE RestOK'
    OBVIOUS
<1>1. /\ phase \in [Engines -> {"idle", "replay"} \cup Consuming] /\ DOMAIN todo = Engines
    BY DEF IInv, TypeOK
<1>2. CASE UNCHANGED vars \/ Expire \/ \E c \in Command : AppendCommand(c)
    BY <1>2 DEF vars, Expire, AppendCommand, RestOK
<1>3. ASSUME NEW e \in Engines,
             \/ Acquire(e) \/ Replay(e) \/ NoticeLoss(e) \/ Stop(e)
             \/ ReplayFails(e) \/ GroupFails(e) \/ ReadLost(e) \/ Crash(e)
      PROVE  RestOK'
    BY <1>1, <1>3 DEF Acquire, Replay, NoticeLoss, Stop, ReplayFails, GroupFails, ReadLost, Crash,
                      RestOK, Consuming
<1>4. ASSUME NEW e \in Engines, Claim(e) PROVE RestOK'
    BY <1>1, <1>4 DEF Claim, RestOK, Consuming
<1>5. ASSUME NEW e \in Engines, Read(e) \/ Handle(e) PROVE RestOK'
    BY <1>1, <1>5 DEF Read, Handle, RestOK, Consuming
<1>6. ASSUME NEW e \in Engines, Ack(e) \/ AckFails(e) PROVE RestOK'
    BY <1>1, <1>6 DEF Ack, AckFails, RestOK, Consuming
<1> QED
    BY <1>2, <1>3, <1>4, <1>5, <1>6 DEF Next, EngineStep

\* Running the log reproduces the state: what a lease holder has in memory while
\* it consumes is what one execution of a prefix of the log gives, a prefix that
\* leaves out no delivered entry but those it has at hand, as long as none of
\* the four mishaps has happened.
THEOREM StateAlwaysLog == Spec => []StateIsLog
<1>1. Init => RestOK /\ LogOK
    <2> SUFFICES ASSUME Init PROVE RestOK /\ LogOK
        OBVIOUS
    <2>1. ASSUME NEW e \in Engines PROVE Agrees(e, 0)
        <3>1. memory[e] = Blank /\ todo[e] = {} /\ lease # e /\ phase[e] # "ack"
            BY CommandLogAssumption DEF Init
        <3> QED
            BY <3>1, ReplayedUnfold, RunToSteps DEF Agrees
    <2>2. Len(log) = 0
        BY DEF Init
    <2>3. LogOK
        BY <2>1, <2>2 DEF LogOK
    <2> QED
        BY <2>3 DEF Init, RestOK
<1>2. IInv /\ LogOK => StateIsLog
    <2> SUFFICES ASSUME IInv, LogOK, NEW e \in Engines, mishaps = {}, lease = e
                 PROVE  \E n \in cursor - Cardinality(todo[e]) .. Len(log) : memory[e] = Replayed(n)
        BY DEF StateIsLog
    <2>1. PICK n \in 0 .. Len(log) : Agrees(e, n)
        BY DEF LogOK
    <2>2. /\ cursor \in Nat /\ Len(log) \in Nat /\ todo[e] \subseteq 1 .. Len(log)
        BY DEF IInv, TypeOK
    <2> DEFINE T == todo[e]
               R == n + 1 .. cursor
    <2>3. IsFiniteSet(T)
        <3>1. IsFiniteSet(1 .. Len(log))
            BY <2>2, FS_Interval
        <3> QED
            BY <2>2, <3>1, FS_Subset
    <2>4. R \subseteq T
        BY <2>1 DEF Agrees
    <2>5. Cardinality(R) <= Cardinality(T) /\ Cardinality(T) \in Nat /\ Cardinality(R) \in Nat
        <3> HIDE DEF R, T
        <3>1. IsFiniteSet(R) /\ Cardinality(R) <= Cardinality(T)
            BY <2>3, <2>4, FS_Subset
        <3> QED
            BY <2>3, <3>1, FS_CardinalityType
    <2>6. Cardinality(R) = IF n + 1 > cursor THEN 0 ELSE cursor - (n + 1) + 1
        BY <2>2, FS_Interval
    <2> HIDE DEF R
    <2>7. n \in cursor - Cardinality(T) .. Len(log)
        <3> HIDE DEF T
        <3> QED
            BY <2>2, <2>5, <2>6
    <2>8. memory[e] = Replayed(n)
        BY <2>1 DEF Agrees
    <2> QED
        BY <2>7, <2>8
<1> QED
    BY <1>1, <1>2, Invariance, RestOKNext, LogOKNext, PTL DEF Spec
=============================================================================
