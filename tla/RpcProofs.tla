------------------------------ MODULE RpcProofs ------------------------------
(***************************************************************************)
(* Rpc proved for any requests, workloads, channels, retries and faults:   *)
(* what clients are told is true, commands take effect once, Postgres and  *)
(* the engine agree on events, and a user is funded in every partition.    *)
(* The inductive invariant says what each message in flight may claim, and *)
(* where a request of each type can be.                                    *)
(***************************************************************************)
EXTENDS Rpc, SequenceTheorems, FiniteSetTheorems, TLAPS

\* How often request r's command is in the stream.
Copies(r) == Cardinality({i \in DOMAIN stream : stream[i].req = r})

\* The steps of r before its command is on its way.
Unsent(r) == pc[r] \in {"start", "send", "fanout"}

\* What request r asks for is so in the engine.
Effective(r) ==
    \/ work[r].type = "CREATE_EVENT" /\ work[r].event \in markets
    \/ work[r].type = "CREATE_ORDER" /\ orders[work[r].order] # "none"
    \/ work[r].type = "CANCEL_ORDER" /\ orders[work[r].order] = "canceled"

\* The engine has refused r's command at least once, or taken it and
\* forgotten its order again.
Refused(r) == work[r].type # "CREATE_EVENT" /\ (runs[r] > takes[r] \/ leaks[r] > 0)

\* What message m says is so.
Claims(m) == IF m.success THEN Effective(m.req) ELSE Refused(m.req)

\* A request whose command is not sent has no copy in the stream; one that is
\* appending has at most one for each try, and has a channel.
CopiesOK ==
    \A r \in Requests :
        /\ Unsent(r) => Copies(r) = 0 /\ tries[r] = 0
        /\ pc[r] = "append" =>
              Copies(r) <= tries[r] /\ tries[r] < MaxAppendRetries /\ channel[r] \in Channels

\* The steps and results a request of each type can have.
StagesOK ==
    \A r \in Requests :
        /\ pc[r] = "fanout" => work[r].type = "SIGNUP"
        /\ pc[r] \in {"send", "append", "await"} => work[r].type # "SIGNUP"
        /\ pc[r] = "rollback" => work[r].type = "CREATE_EVENT" /\ result[r] = "error"
        /\ pc[r] \in {"start", "fanout", "send", "append", "await"} => result[r] = "none"
        /\ work[r].type = "SIGNUP" => result[r] = "none"
        /\ work[r].type = "CREATE_EVENT" /\ pc[r] = "done" => result[r] \in {"ok", "error"}

\* Signup's command takes another way.
StreamOK == \A i \in DOMAIN stream : work[stream[i].req].type # "SIGNUP"

\* A message claims what is so, and stays so.
MessagesOK ==
    \A r \in Requests : \A i \in DOMAIN inbox[r] : Claims(inbox[r][i])

\* So does an answer.
ResultsOK ==
    \A r \in Requests :
        /\ result[r] = "ok" => Effective(r)
        /\ result[r] = "refused" => Refused(r)

\* The row is there while the market is asked for, and after success.
RowsOK ==
    \A r \in Requests :
        work[r].type = "CREATE_EVENT" /\ (pc[r] \in {"send", "append", "await"} \/ result[r] = "ok")
           => work[r].event \in rows

\* No command takes effect more often than it is executed, and only new
\* orders are forgotten; one whose effect stays left its trace in the order.
TakesOK ==
    \A r \in Requests :
        /\ runs[r] >= takes[r]
        /\ takes[r] >= leaks[r]
        /\ leaks[r] > 0 => work[r].type = "CREATE_ORDER"
        /\ takes[r] > leaks[r] => Effective(r)

\* Order o was taken and forgotten at least once.
Leaked(o) == \E r \in Requests : work[r].order = o /\ leaks[r] > 0

\* The reservation an order should have.
OwnHold(o) == IF orders[o] = "open" THEN 1 ELSE 0

\* The ledger has it, and at least one more for an order that was forgotten.
LedgerOK ==
    \A o \in Orders :
        /\ Leaked(o) => holds[o] > OwnHold(o)
        /\ ~Leaked(o) => holds[o] = OwnHold(o)

\* The first half of TakenOnce: no two effects of the same kind on one order
\* stay.
KeptOnce ==
    \A r, s \in Requests :
        /\ work[r].type \in {"CREATE_ORDER", "CANCEL_ORDER"}
        /\ work[s].type = work[r].type
        /\ work[s].order = work[r].order
        => Kept(r) + (IF s = r THEN 0 ELSE Kept(s)) <= 1

\* The fan-out has reached the partitions in their order.
FanoutOK ==
    \A r \in Requests :
        /\ pc[r] = "start" => granted[r] = {}
        /\ pc[r] = "fanout" => \E n \in 0 .. Partitions - 1 : granted[r] = 0 .. n - 1

\* The inductive invariant.
Inv ==
    /\ TypeOK /\ CopiesOK /\ StagesOK /\ StreamOK /\ MessagesOK /\ ResultsOK
    /\ RowsOK /\ TakesOK /\ LedgerOK /\ KeptOnce /\ FanoutOK /\ FundedEverywhere

-----------------------------------------------------------------------------
(* Lemmas about the parts of the state                                     *)

\* What a request may ask for.
LEMMA WorkTypes ==
    ASSUME NEW w \in Workloads, NEW r \in Requests
    PROVE  /\ w[r].type \in {"CREATE_EVENT", "CREATE_ORDER", "CANCEL_ORDER", "SIGNUP"}
           /\ w[r].event \in Events
           /\ w[r].order \in Orders
<1>1. w \in [Requests -> [type : {"CREATE_EVENT", "CREATE_ORDER", "CANCEL_ORDER", "SIGNUP"},
                          event : Events, order : Orders]]
    BY RpcAssumption
<1>2. w[r] \in [type : {"CREATE_EVENT", "CREATE_ORDER", "CANCEL_ORDER", "SIGNUP"},
                event : Events, order : Orders]
    BY <1>1
<1> QED
    BY <1>2

\* An entry at the end of the stream is one copy more of its command.
LEMMA CopiesAppend ==
    ASSUME NEW q \in Seq(Entry), NEW e \in Entry, NEW s
    PROVE  Cardinality({i \in DOMAIN Append(q, e) : Append(q, e)[i].req = s})
             = Cardinality({i \in DOMAIN q : q[i].req = s}) + (IF e.req = s THEN 1 ELSE 0)
<1> DEFINE A == {i \in DOMAIN q : q[i].req = s}
           B == {i \in DOMAIN Append(q, e) : Append(q, e)[i].req = s}
           n == Len(q) + 1
<1>1. /\ DOMAIN q = 1 .. Len(q)
      /\ DOMAIN Append(q, e) = 1 .. n
      /\ \A i \in 1 .. Len(q) : Append(q, e)[i] = q[i]
      /\ Append(q, e)[n] = e
      /\ Len(q) \in Nat
    BY AppendProperties
<1>2. IsFiniteSet(A) /\ n \notin A
    <2>1. A \subseteq 1 .. Len(q)
        BY <1>1
    <2>2. IsFiniteSet(1 .. Len(q))
        BY <1>1, FS_Interval
    <2> QED
        BY <1>1, <2>1, <2>2, FS_Subset
<1>3. Cardinality(A) \in Nat
    BY <1>2, FS_CardinalityType
<1>4. CASE e.req = s
    <2>1. B = A \cup {n}
        BY <1>1, <1>4
    <2>2. Cardinality(A \cup {n}) = Cardinality(A) + 1
        <3> HIDE DEF A, n
        <3> QED
            BY <1>2, FS_AddElement
    <2> QED
        BY <1>4, <2>1, <2>2
<1>5. CASE e.req # s
    <2>1. B = A
        BY <1>1, <1>5
    <2> HIDE DEF A, B
    <2>2. Cardinality(B) = Cardinality(A) + 0
        BY <1>3, <2>1
    <2> QED
        BY <1>5, <2>2 DEF A, B
<1> QED
    BY <1>4, <1>5

\* Copies counts something.
LEMMA CopiesType ==
    ASSUME NEW q \in Seq(Entry), NEW s
    PROVE  Cardinality({i \in DOMAIN q : q[i].req = s}) \in Nat
<1>1. {i \in DOMAIN q : q[i].req = s} \subseteq 1 .. Len(q) /\ Len(q) \in Nat
    BY LenProperties
<1>2. IsFiniteSet({i \in DOMAIN q : q[i].req = s})
    BY <1>1, FS_Interval, FS_Subset
<1> QED
    BY <1>2, FS_CardinalityType

\* The first n partitions are n partitions.
LEMMA FirstPartitions ==
    ASSUME NEW n \in Nat
    PROVE  /\ Cardinality(0 .. n - 1) = n
           /\ (0 .. n - 1) \cup {n} = 0 .. (n + 1) - 1
<1>1. Cardinality(0 .. n - 1) = IF 0 > n - 1 THEN 0 ELSE (n - 1) - 0 + 1
    BY FS_Interval
<1> QED
    BY <1>1

\* Return leaves the request in rollback or done, and changes nothing else of
\* any other request.
LEMMA ReturnTypes ==
    ASSUME TypeOK, NEW r \in Requests, NEW how \in {"ok", "refused", "error"}, Return(r, how)
    PROVE  /\ pc' \in [Requests -> Steps]
           /\ channel' \in [Requests -> Channels \cup {NoChannel}]
           /\ tries' \in [Requests -> 0 .. MaxAppendRetries]
           /\ inbox' \in [Requests -> Seq(Message)]
           /\ result' \in [Requests -> {"none", "ok", "refused", "error"}]
<1>1. 0 \in 0 .. MaxAppendRetries /\ << >> \in Seq(Message)
    BY RpcAssumption
<1> QED
    BY <1>1 DEF TypeOK, Return, Goto, Steps

\* What the engine may do with an entry.
Handles(e) == Execute(e, TRUE) \/ Execute(e, FALSE) \/ ExecuteEmitFails(e)

\* Executing an entry: the counts of its request, ...
LEMMA HandleCounts ==
    ASSUME TypeOK, NEW e \in Entry, Handles(e)
    PROVE  /\ runs' \in [Requests -> Nat]
           /\ takes' \in [Requests -> Nat]
           /\ leaks' \in [Requests -> Nat]
           /\ \A r \in Requests : r # e.req => /\ runs'[r] = runs[r] /\ takes'[r] = takes[r]
                                               /\ leaks'[r] = leaks[r]
           /\ runs'[e.req] = runs[e.req] + 1
           /\ takes'[e.req] = takes[e.req] + (IF Takes(work[e.req]) THEN 1 ELSE 0)
           /\ leaks'[e.req] = leaks[e.req]
              \/ (leaks'[e.req] = leaks[e.req] + 1 /\ ExecuteEmitFails(e))
<1>1. e.req \in Requests
    BY DEF Entry
<1>2. /\ runs \in [Requests -> Nat] /\ takes \in [Requests -> Nat]
      /\ leaks \in [Requests -> Nat]
    BY DEF TypeOK
<1>3. runs' = [runs EXCEPT ![e.req] = @ + 1]
    BY DEF Handles, Execute, ExecuteEmitFails
<1>4. takes' = IF Takes(work[e.req]) THEN [takes EXCEPT ![e.req] = @ + 1] ELSE takes
    BY DEF Handles, Execute, ExecuteEmitFails
<1>5. leaks' = leaks \/ (ExecuteEmitFails(e) /\ leaks' = [leaks EXCEPT ![e.req] = @ + 1])
    BY DEF Handles, Execute, ExecuteEmitFails
<1>6. /\ leaks' \in [Requests -> Nat]
      /\ \A r \in Requests : r # e.req => leaks'[r] = leaks[r]
      /\ leaks'[e.req] = leaks[e.req] \/ (leaks'[e.req] = leaks[e.req] + 1 /\ ExecuteEmitFails(e))
    BY <1>1, <1>2, <1>5
<1>7. /\ takes' \in [Requests -> Nat]
      /\ \A r \in Requests : r # e.req => takes'[r] = takes[r]
      /\ takes'[e.req] = takes[e.req] + (IF Takes(work[e.req]) THEN 1 ELSE 0)
    <2>1. CASE Takes(work[e.req])
        BY <1>1, <1>2, <1>4, <2>1
    <2>2. CASE ~Takes(work[e.req])
        <3>1. takes' = takes
            BY <1>4, <2>2
        <3> QED
            BY <1>1, <1>2, <2>2, <3>1
    <2> QED
        BY <2>1, <2>2
<1>8. /\ runs' \in [Requests -> Nat]
      /\ \A r \in Requests : r # e.req => runs'[r] = runs[r]
      /\ runs'[e.req] = runs[e.req] + 1
    BY <1>1, <1>2, <1>3
<1> QED
    BY <1>6, <1>7, <1>8

\* ... the engine's state, in which what was effective remains so, ...
LEMMA ExecuteState ==
    ASSUME TypeOK, NEW e \in Entry, work[e.req].type # "SIGNUP", NEW h \in BOOLEAN,
           Execute(e, h), work' = work
    PROVE  /\ markets' \subseteq Events
           /\ orders' \in [Orders -> {"none", "open", "canceled"}]
           /\ \A r \in Requests : Effective(r) => Effective(r)'
           /\ Confirms(work[e.req]) => Effective(e.req)'
           /\ \A w : w.type = "CREATE_EVENT" => Confirms(w)
<1> DEFINE w == work[e.req]
<1>1. e.req \in Requests
    BY DEF Entry
<1>2. /\ w.type \in {"CREATE_EVENT", "CREATE_ORDER", "CANCEL_ORDER"}
      /\ w.event \in Events /\ w.order \in Orders
    BY <1>1, WorkTypes DEF TypeOK
<1>3. markets \subseteq Events /\ orders \in [Orders -> {"none", "open", "canceled"}]
    BY DEF TypeOK
<1>8. \A v : v.type = "CREATE_EVENT" => Confirms(v)
    BY DEF Confirms
<1>4. CASE w.type = "CREATE_EVENT"
    <2>1. markets' = markets \cup {w.event} /\ orders' = orders
        BY <1>4 DEF Execute
    <2> QED
        BY <1>1, <1>2, <1>3, <1>4, <1>8, <2>1 DEF Effective
<1>5. CASE w.type = "CREATE_ORDER"
    <2>1. /\ markets' = markets
          /\ orders' = IF Takes(w) THEN [orders EXCEPT ![w.order] = "open"] ELSE orders
          /\ Takes(w) <=> w.event \in markets /\ orders[w.order] = "none"
          /\ Confirms(w) <=> w.event \in markets
        BY <1>2, <1>3, <1>5 DEF Execute, Takes, Confirms
    <2>2. ASSUME NEW r \in Requests, Effective(r) PROVE Effective(r)'
        <3>1. work[r].order \in Orders
            BY WorkTypes DEF TypeOK
        <3> QED
            BY <1>2, <1>3, <2>1, <2>2, <3>1 DEF Effective
    <2>3. Confirms(w) => Effective(e.req)'
        BY <1>2, <1>3, <1>5, <2>1 DEF Effective
    <2> QED
        BY <1>2, <1>3, <1>8, <2>1, <2>2, <2>3
<1>6. CASE w.type = "CANCEL_ORDER"
    <2>1. /\ markets' = markets
          /\ orders' = IF Takes(w) THEN [orders EXCEPT ![w.order] = "canceled"] ELSE orders
          /\ Takes(w) <=> orders[w.order] = "open"
          /\ Confirms(w) <=> Takes(w)
        BY <1>2, <1>3, <1>6 DEF Execute, Takes, Confirms
    <2>2. ASSUME NEW r \in Requests, Effective(r) PROVE Effective(r)'
        <3>1. work[r].order \in Orders
            BY WorkTypes DEF TypeOK
        <3> QED
            BY <1>2, <1>3, <2>1, <2>2, <3>1 DEF Effective
    <2>3. Confirms(w) => Effective(e.req)'
        BY <1>2, <1>3, <1>6, <2>1 DEF Effective
    <2> QED
        BY <1>2, <1>3, <1>8, <2>1, <2>2, <2>3
<1> QED
    BY <1>2, <1>4, <1>5, <1>6

\* ... also when an order is forgotten again, ...
LEMMA ForgetState ==
    ASSUME TypeOK, NEW e \in Entry, ExecuteEmitFails(e), work' = work
    PROVE  /\ UNCHANGED <<markets, orders>>
           /\ \A r \in Requests : Effective(r) => Effective(r)'
           /\ leaks'[e.req] = leaks[e.req] + 1
           /\ work[e.req].type = "CREATE_ORDER" /\ Takes(work[e.req])
<1>1. e.req \in Requests /\ leaks \in [Requests -> Nat]
    BY DEF Entry, TypeOK
<1> QED
    BY <1>1 DEF ExecuteEmitFails, Effective

\* ... the ledger and what is announced, ...
LEMMA HandleLedger ==
    ASSUME TypeOK, LedgerOK, NEW e \in Entry, work[e.req].type # "SIGNUP", Handles(e), work' = work
    PROVE  /\ holds' \in [Orders -> Int]
           /\ announced' \subseteq Orders
           /\ LedgerOK'
<1> DEFINE w == work[e.req]
<1>1. e.req \in Requests
    BY DEF Entry
<1>2. /\ w.type \in {"CREATE_EVENT", "CREATE_ORDER", "CANCEL_ORDER"}
      /\ w.event \in Events /\ w.order \in Orders
    BY <1>1, WorkTypes DEF TypeOK
<1>3. /\ holds \in [Orders -> Int] /\ announced \subseteq Orders
      /\ orders \in [Orders -> {"none", "open", "canceled"}] /\ leaks \in [Requests -> Nat]
    BY DEF TypeOK
<1>4. \A o \in Orders : OwnHold(o) \in {0, 1} /\ OwnHold(o)' \in {0, 1}
    BY DEF OwnHold
<1>5. CASE ExecuteEmitFails(e)
    <2>1. /\ orders' = orders /\ orders[w.order] = "none"
          /\ holds' = [holds EXCEPT ![w.order] = @ + 1]
          /\ announced' \subseteq announced \cup {w.order}
          /\ leaks' = [leaks EXCEPT ![e.req] = @ + 1]
        BY <1>5 DEF ExecuteEmitFails, Takes
    <2>2. \A o \in Orders : OwnHold(o)' = OwnHold(o)
        BY <2>1 DEF OwnHold
    <2>3. \A o \in Orders : o # w.order => (Leaked(o)' <=> Leaked(o)) /\ holds'[o] = holds[o]
        BY <1>1, <1>2, <1>3, <2>1 DEF Leaked
    <2>4. Leaked(w.order)'
        <3>1. leaks'[e.req] > 0
            BY <1>1, <1>3, <2>1
        <3> QED
            BY <1>1, <3>1 DEF Leaked
    <2>5. holds'[w.order] = holds[w.order] + 1 /\ holds[w.order] \in Int
        BY <1>2, <1>3, <2>1
    <2>6. holds[w.order] >= OwnHold(w.order)
        BY <1>2, <1>4, <2>5 DEF LedgerOK
    <2>7. LedgerOK'
        BY <1>2, <1>4, <2>2, <2>3, <2>4, <2>5, <2>6 DEF LedgerOK
    <2> QED
        BY <1>2, <1>3, <2>1, <2>7
<1>6. CASE Execute(e, TRUE) \/ Execute(e, FALSE)
    <2>1. /\ holds' = IF Takes(w) THEN [holds EXCEPT ![w.order] = @ + Holds(w)] ELSE holds
          /\ leaks' = leaks
          /\ announced' \subseteq announced \cup {w.order}
        BY <1>6 DEF Execute
    <2>2. \A o \in Orders : Leaked(o)' <=> Leaked(o)
        BY <2>1 DEF Leaked
    <2>3. ASSUME holds' = holds, orders' = orders
          PROVE  holds' \in [Orders -> Int] /\ announced' \subseteq Orders /\ LedgerOK'
        BY <1>2, <1>3, <2>1, <2>2, <2>3 DEF LedgerOK, OwnHold
    <2>4. CASE ~Takes(w)
        <3>1. orders' = orders
            BY <1>6, <2>4 DEF Execute
        <3> QED
            BY <2>1, <2>3, <2>4, <3>1
    <2>5. CASE Takes(w) /\ w.type = "CREATE_EVENT"
        <3>1. orders' = orders /\ Holds(w) = 0
            BY <1>6, <2>5 DEF Execute, Holds
        <3>2. holds' = holds
            BY <1>2, <1>3, <2>1, <2>5, <3>1
        <3> QED
            BY <2>3, <3>1, <3>2
    <2>6. CASE Takes(w) /\ w.type \in {"CREATE_ORDER", "CANCEL_ORDER"}
        <3>1. \A o \in Orders : o # w.order => orders'[o] = orders[o] /\ holds'[o] = holds[o]
            BY <1>2, <1>3, <1>6, <2>1, <2>6 DEF Execute
        <3>2. holds'[w.order] - holds[w.order] = OwnHold(w.order)' - OwnHold(w.order)
            <4>1. CASE w.type = "CREATE_ORDER"
                <5>1. orders[w.order] = "none" /\ orders'[w.order] = "open" /\ Holds(w) = 1
                    BY <1>2, <1>3, <1>6, <2>6, <4>1 DEF Execute, Takes, Holds
                <5> QED
                    BY <1>2, <1>3, <2>1, <2>6, <5>1 DEF OwnHold
            <4>2. CASE w.type = "CANCEL_ORDER"
                <5>1. orders[w.order] = "open" /\ orders'[w.order] = "canceled" /\ Holds(w) = -1
                    BY <1>2, <1>3, <1>6, <2>6, <4>2 DEF Execute, Takes, Holds
                <5> QED
                    BY <1>2, <1>3, <2>1, <2>6, <5>1 DEF OwnHold
            <4> QED
                BY <2>6, <4>1, <4>2
        <3>3. \A o \in Orders : o # w.order => OwnHold(o)' = OwnHold(o)
            BY <3>1 DEF OwnHold
        <3>4. holds' \in [Orders -> Int] /\ holds[w.order] \in Int
            <4>1. Holds(w) \in Int
                BY <2>6 DEF Holds
            <4> QED
                BY <1>2, <1>3, <2>1, <2>6, <4>1
        <3>5. holds'[w.order] \in Int
            BY <1>2, <3>4
        <3>6. LedgerOK'
            BY <1>2, <1>4, <2>2, <3>1, <3>2, <3>3, <3>4, <3>5 DEF LedgerOK
        <3> QED
            BY <1>2, <1>3, <2>1, <3>4, <3>6
    <2> QED
        BY <1>2, <2>4, <2>5, <2>6
<1> QED
    BY <1>5, <1>6 DEF Handles

\* ... and the messages: those that were there, and the reply.
LEMMA ReplyMessages ==
    ASSUME TypeOK, NEW e \in Entry, NEW b \in BOOLEAN, Publish(e, b) \/ inbox' = inbox
    PROVE  /\ inbox' \in [Requests -> Seq(Message)]
           /\ \A r \in Requests : \A i \in DOMAIN inbox'[r] :
                 \/ i \in DOMAIN inbox[r] /\ inbox'[r][i] = inbox[r][i]
                 \/ inbox'[r][i] = [req |-> e.req, success |-> b]
<1> DEFINE m == [req |-> e.req, success |-> b]
<1>1. m \in Message
    BY DEF Message, Entry
<1>2. inbox \in [Requests -> Seq(Message)]
    BY DEF TypeOK
<1>3. CASE inbox' = inbox
    BY <1>2, <1>3
<1>4. CASE Publish(e, b)
    <2>1. inbox' = [r \in Requests |->
                      IF channel[r] = e.channel THEN Append(inbox[r], m) ELSE inbox[r]]
        BY <1>4 DEF Publish
    <2> HIDE DEF m
    <2>2. ASSUME NEW r \in Requests
          PROVE  /\ inbox'[r] \in Seq(Message)
                 /\ \A i \in DOMAIN inbox'[r] :
                       (i \in DOMAIN inbox[r] /\ inbox'[r][i] = inbox[r][i]) \/ inbox'[r][i] = m
        <3>1. inbox[r] \in Seq(Message)
            BY <1>2
        <3>2. /\ Append(inbox[r], m) \in Seq(Message)
              /\ DOMAIN inbox[r] = 1 .. Len(inbox[r])
              /\ DOMAIN Append(inbox[r], m) = 1 .. Len(inbox[r]) + 1
              /\ \A i \in 1 .. Len(inbox[r]) : Append(inbox[r], m)[i] = inbox[r][i]
              /\ Append(inbox[r], m)[Len(inbox[r]) + 1] = m
              /\ Len(inbox[r]) \in Nat
            BY <1>1, <3>1, AppendProperties
        <3>3. CASE channel[r] = e.channel
            BY <2>1, <3>2, <3>3
        <3>4. CASE channel[r] # e.channel
            BY <2>1, <3>1, <3>4
        <3> QED
            BY <3>3, <3>4
    <2> QED
        BY <2>1, <2>2 DEF m
<1> QED
    BY <1>3, <1>4

\* The answer the engine publishes.
LEMMA HandleReply ==
    ASSUME NEW e \in Entry, Handles(e)
    PROVE  \E b \in BOOLEAN :
              /\ Publish(e, b) \/ inbox' = inbox
              /\ \/ ExecuteEmitFails(e) /\ ~b
                 \/ (Execute(e, TRUE) \/ Execute(e, FALSE)) /\ b = Confirms(work[e.req])
<1>1. CASE ExecuteEmitFails(e)
    <2>1. Publish(e, FALSE)
        BY <1>1 DEF ExecuteEmitFails
    <2> QED
        BY <1>1, <2>1
<1>2. CASE Execute(e, TRUE) \/ Execute(e, FALSE)
    <2>1. Publish(e, Confirms(work[e.req])) \/ inbox' = inbox
        BY <1>2 DEF Execute
    <2>2. Confirms(work[e.req]) \in BOOLEAN
        BY DEF Confirms
    <2> QED
        BY <1>2, <2>1, <2>2
<1> QED
    BY <1>1, <1>2 DEF Handles

\* The steps of the engine handle some entry of the stream.
LEMMA EngineMoves ==
    ASSUME TypeOK, StreamOK,
           EngineStep \/ EngineStepUnheard \/ EngineStepEmitFails \/ Redeliver
    PROVE  /\ \E e \in Entry : work[e.req].type # "SIGNUP" /\ Handles(e)
           /\ UNCHANGED <<work, pc, channel, tries, result, rows, projected, stream, granted, failed>>
           /\ executed' \in 0 .. Len(stream)
           /\ faults' \in 0 .. MaxFaults
<1>1. /\ stream \in Seq(Entry) /\ Len(stream) \in Nat /\ DOMAIN stream = 1 .. Len(stream)
      /\ executed \in 0 .. Len(stream)
    BY LenProperties DEF TypeOK
<1>2. ASSUME NEW i \in 1 .. Len(stream), Handles(stream[i])
      PROVE  \E e \in Entry : work[e.req].type # "SIGNUP" /\ Handles(e)
    <2>1. stream[i] \in Entry /\ work[stream[i].req].type # "SIGNUP"
        BY <1>1 DEF StreamOK
    <2> QED
        BY <1>2, <2>1, Zenon
<1>3. faults \in 0 .. MaxFaults /\ MaxFaults \in Nat
    BY RpcAssumption DEF TypeOK
<1>4. CASE EngineStep
    <2>1. executed + 1 \in 1 .. Len(stream)
        BY <1>1, <1>4 DEF EngineStep
    <2>2. Handles(stream[executed + 1])
        BY <1>4 DEF EngineStep, Handles
    <2> QED
        BY <1>1, <1>2, <1>3, <1>4, <2>1, <2>2 DEF EngineStep, dbVars, faultVars
<1>5. CASE EngineStepUnheard
    <2>1. executed + 1 \in 1 .. Len(stream)
        BY <1>1, <1>5 DEF EngineStepUnheard
    <2>2. Handles(stream[executed + 1])
        BY <1>5 DEF EngineStepUnheard, Handles
    <2> QED
        BY <1>1, <1>2, <1>3, <1>5, <2>1, <2>2 DEF EngineStepUnheard, Fails, dbVars
<1>6. CASE EngineStepEmitFails
    <2>1. executed + 1 \in 1 .. Len(stream)
        BY <1>1, <1>6 DEF EngineStepEmitFails
    <2>2. Handles(stream[executed + 1])
        BY <1>6 DEF EngineStepEmitFails, Handles
    <2> QED
        BY <1>1, <1>2, <1>3, <1>6, <2>1, <2>2 DEF EngineStepEmitFails, Fails, dbVars
<1>7. CASE Redeliver
    <2>1. PICK i \in 1 .. executed : Fails /\ (Execute(stream[i], TRUE) \/ ExecuteEmitFails(stream[i]))
        BY <1>7 DEF Redeliver
    <2>2. i \in 1 .. Len(stream)
        BY <1>1
    <2>3. Handles(stream[i])
        BY <2>1 DEF Handles
    <2> QED
        BY <1>1, <1>2, <1>3, <1>7, <2>1, <2>2, <2>3 DEF Redeliver, Fails, dbVars
<1> QED
    BY <1>4, <1>5, <1>6, <1>7

\* The next number of faults.
LEMMA FaultsStep ==
    ASSUME TypeOK, Fails
    PROVE  faults' \in 0 .. MaxFaults
    BY RpcAssumption DEF TypeOK, Fails

\* A command that is appended.
LEMMA AppendedEntry ==
    ASSUME TypeOK, CopiesOK, NEW r \in Requests, pc[r] = "append"
    PROVE  /\ Appended(r) \in Seq(Entry)
           /\ Len(Appended(r)) = Len(stream) + 1
           /\ \A i \in DOMAIN Appended(r) :
                 (i \in DOMAIN stream /\ Appended(r)[i] = stream[i]) \/ Appended(r)[i].req = r
           /\ \A s \in Requests :
                 Cardinality({i \in DOMAIN Appended(r) : Appended(r)[i].req = s})
                    = Copies(s) + (IF r = s THEN 1 ELSE 0)
           /\ \A s \in Requests : Copies(s) \in Nat /\ Copies(s) <= MaxAppendRetries
<1> DEFINE e == [req |-> r, channel |-> channel[r]]
<1>1. e \in Entry /\ e.req = r
    BY DEF CopiesOK, Entry
<1>2. stream \in Seq(Entry)
    BY DEF TypeOK
<1>3. \A s \in Requests : Copies(s) \in Nat /\ Copies(s) <= MaxAppendRetries
    BY <1>2, CopiesType DEF Copies, TypeOK
<1>4. \A s \in Requests :
         Cardinality({i \in DOMAIN Appended(r) : Appended(r)[i].req = s})
            = Copies(s) + (IF r = s THEN 1 ELSE 0)
    <2>1. Appended(r) = Append(stream, e)
        BY DEF Appended
    <2> HIDE DEF e
    <2>2. ASSUME NEW s \in Requests
          PROVE  Cardinality({i \in DOMAIN Append(stream, e) : Append(stream, e)[i].req = s})
                   = Copies(s) + (IF r = s THEN 1 ELSE 0)
        BY <1>1, <1>2, CopiesAppend DEF Copies
    <2> QED
        BY <2>1, <2>2
<1>5. /\ Append(stream, e) \in Seq(Entry)
      /\ Len(Append(stream, e)) = Len(stream) + 1
      /\ DOMAIN Append(stream, e) = 1 .. Len(stream) + 1
      /\ \A i \in 1 .. Len(stream) : Append(stream, e)[i] = stream[i]
      /\ Append(stream, e)[Len(stream) + 1] = e
      /\ Len(stream) \in Nat /\ DOMAIN stream = 1 .. Len(stream)
    BY <1>1, <1>2, AppendProperties, LenProperties
<1> QED
    BY <1>1, <1>3, <1>4, <1>5 DEF Appended

-----------------------------------------------------------------------------
(* The steps that send a command                                           *)

\* The stream after any step, and how often each command is in it.
LEMMA StreamStep ==
    ASSUME Inv, Next
    PROVE  /\ stream' \in Seq(Entry)
           /\ executed' \in 0 .. Len(stream')
           /\ CopiesOK'
           /\ StreamOK'
           /\ \A r \in Requests : Copies(r)' <= MaxAppendRetries
<1> USE DEF Inv
<1>0. \A s \in Requests : Copies(s) \in Nat /\ Copies(s) <= MaxAppendRetries
    BY CopiesType DEF Copies, TypeOK
<1>1. /\ stream \in Seq(Entry) /\ executed \in 0 .. Len(stream) /\ Len(stream) \in Nat
      /\ \A s \in Requests : Copies(s) \in Nat /\ Copies(s) <= MaxAppendRetries
      /\ tries \in [Requests -> 0 .. MaxAppendRetries]
      /\ channel \in [Requests -> Channels \cup {NoChannel}]
      /\ pc \in [Requests -> Steps]
      /\ MaxAppendRetries \in Nat \ {0}
    BY <1>0, LenProperties, RpcAssumption DEF TypeOK
<1>2. ASSUME UNCHANGED <<stream, work>>
      PROVE  /\ StreamOK'
             /\ \A s \in Requests : Copies(s)' = Copies(s)
             /\ \A r \in Requests : Copies(r)' <= MaxAppendRetries
    BY <1>1, <1>2 DEF StreamOK, Copies
<1>3. ASSUME NEW r \in Requests,
             CreateEvent(r) \/ CreateOrder(r) \/ DeleteOrder(r) \/ Signup(r) \/ Rollback(r)
                \/ Fanout(r) \/ Subscribe(r) \/ AwaitResponse(r) \/ GiveUp(r)
                \/ SubscribeFails(r) \/ FanoutFails(r)
      PROVE  /\ stream' = stream /\ executed' = executed /\ work' = work
             /\ \A s \in Requests : s # r => pc'[s] = pc[s] /\ tries'[s] = tries[s]
                                              /\ channel'[s] = channel[s]
             /\ Unsent(r)' => Unsent(r) /\ tries'[r] = tries[r]
             /\ pc'[r] = "append" => pc[r] = "send" /\ channel'[r] \in Channels
                                        /\ tries'[r] = tries[r]
    <2>1. CASE CreateEvent(r) \/ CreateOrder(r) \/ DeleteOrder(r) \/ Signup(r) \/ Rollback(r)
                  \/ Fanout(r) \/ FanoutFails(r)
        BY <1>1, <2>1 DEF CreateEvent, CreateOrder, DeleteOrder, Signup, Rollback, Fanout,
              FanoutFails, Goto, Unsent, apiVars, engineVars
    <2>2. CASE Subscribe(r)
        BY <1>1, <2>2 DEF Subscribe, Goto, Unsent, engineVars
    <2>3. CASE AwaitResponse(r) \/ GiveUp(r) \/ SubscribeFails(r)
        BY <1>1, <2>3 DEF AwaitResponse, GiveUp, SubscribeFails, Return, Goto, Unsent, engineVars
    <2> QED
        BY <1>3, <2>1, <2>2, <2>3
<1>4. ASSUME NEW r \in Requests,
             CreateEvent(r) \/ CreateOrder(r) \/ DeleteOrder(r) \/ Signup(r) \/ Rollback(r)
                \/ Fanout(r) \/ Subscribe(r) \/ AwaitResponse(r) \/ GiveUp(r)
                \/ SubscribeFails(r) \/ FanoutFails(r)
      PROVE  CopiesOK'
    <2>1. \A s \in Requests : Copies(s)' = Copies(s)
        BY <1>2, <1>3, <1>4
    <2>2. \A s \in Requests : s # r => (Unsent(s)' <=> Unsent(s))
        BY <1>3, <1>4 DEF Unsent
    <2>3. pc[r] = "send" => Unsent(r)
        BY DEF Unsent
    <2>4. Copies(r) \in Nat /\ 0 < MaxAppendRetries
        BY <1>1
    <2> QED
        BY <1>3, <1>4, <2>1, <2>2, <2>3, <2>4 DEF CopiesOK
<1>5. ASSUME NEW r \in Requests, AppendCommand(r) \/ AppendFails(r)
      PROVE  /\ stream' = stream \/ stream' = Appended(r)
             /\ pc[r] = "append" /\ work' = work /\ executed' = executed
             /\ \A s \in Requests : s # r => pc'[s] = pc[s] /\ tries'[s] = tries[s]
                                              /\ channel'[s] = channel[s]
             /\ ~Unsent(r)'
             /\ pc'[r] = "append" =>
                   /\ tries'[r] = tries[r] + 1 /\ tries[r] + 1 # MaxAppendRetries
                   /\ channel'[r] = channel[r]
    BY <1>1, <1>5 DEF AppendCommand, AppendFails, Return, Goto, Unsent, engineVars
<1>6. ASSUME NEW r \in Requests, AppendCommand(r) \/ AppendFails(r)
      PROVE  /\ stream' \in Seq(Entry) /\ executed' \in 0 .. Len(stream')
             /\ StreamOK' /\ CopiesOK'
             /\ \A s \in Requests : Copies(s)' <= MaxAppendRetries
    <2>1. /\ Copies(r) <= tries[r] /\ tries[r] < MaxAppendRetries /\ channel[r] \in Channels
          /\ tries[r] \in Nat /\ Copies(r) \in Nat /\ MaxAppendRetries \in Nat
        BY <1>1, <1>5, <1>6 DEF CopiesOK
    <2>2. /\ stream' \in Seq(Entry) /\ executed' \in 0 .. Len(stream') /\ StreamOK'
        <3>1. CASE stream' = stream
            BY <1>1, <1>2, <1>5, <1>6, <3>1
        <3>2. CASE stream' = Appended(r)
            <4>1. work[r].type # "SIGNUP"
                BY <1>5, <1>6 DEF StagesOK
            <4>2. /\ Appended(r) \in Seq(Entry)
                  /\ Len(Appended(r)) = Len(stream) + 1
                  /\ \A i \in DOMAIN Appended(r) :
                        (i \in DOMAIN stream /\ Appended(r)[i] = stream[i]) \/ Appended(r)[i].req = r
                BY <1>5, <1>6, AppendedEntry
            <4>3. StreamOK'
                BY <1>5, <1>6, <3>2, <4>1, <4>2 DEF StreamOK
            <4> QED
                BY <1>1, <1>5, <1>6, <3>2, <4>2, <4>3
        <3> QED
            BY <1>5, <1>6, <3>1, <3>2
    <2>3. \A s \in Requests : Copies(s)' = Copies(s) \/ (s = r /\ Copies(s)' = Copies(s) + 1)
        <3>1. CASE stream' = stream
            BY <3>1 DEF Copies
        <3>2. CASE stream' = Appended(r)
            <4>1. ASSUME NEW s \in Requests
                  PROVE  Copies(s)' = Copies(s) + (IF r = s THEN 1 ELSE 0)
                BY <1>5, <1>6, <3>2, AppendedEntry DEF Copies
            <4> QED
                BY <1>1, <4>1
        <3> QED
            BY <1>5, <1>6, <3>1, <3>2
    <2>4. \A s \in Requests : s # r => (Unsent(s)' <=> Unsent(s))
        BY <1>5, <1>6 DEF Unsent
    <2>5. CopiesOK'
        BY <1>5, <1>6, <2>1, <2>3, <2>4 DEF CopiesOK
    <2>6. \A s \in Requests : Copies(s)' <= MaxAppendRetries
        BY <1>1, <2>1, <2>3
    <2> QED
        BY <2>2, <2>5, <2>6
<1>7. CASE EngineStep \/ EngineStepUnheard \/ EngineStepEmitFails \/ Redeliver
    BY <1>1, <1>2, <1>7, EngineMoves DEF CopiesOK, Unsent
<1>8. CASE \E o \in Orders : Project(o)
    BY <1>1, <1>2, <1>8 DEF Project, apiVars, engineVars, CopiesOK, Unsent
<1> QED
    BY <1>1, <1>2, <1>3, <1>4, <1>6, <1>7, <1>8 DEF Next, RequestStep, RequestFault

-----------------------------------------------------------------------------
(* The fan-out                                                             *)

\* The partitions a fan-out has reached, after any step.
LEMMA FanoutStep ==
    ASSUME Inv, Next
    PROVE  /\ granted' \in [Requests -> SUBSET (0 .. Partitions - 1)]
           /\ failed' \subseteq Requests
           /\ FanoutOK'
           /\ FundedEverywhere'
<1> USE DEF Inv
<1>1. /\ granted \in [Requests -> SUBSET (0 .. Partitions - 1)] /\ failed \subseteq Requests
      /\ pc \in [Requests -> Steps] /\ Partitions \in Nat \ {0}
    BY RpcAssumption DEF TypeOK
<1>2. ASSUME NEW r \in Requests,
             UNCHANGED <<work, granted, failed>>,
             \A s \in Requests : s # r => pc'[s] = pc[s],
             \/ pc[r] = "start" /\ pc'[r] = "fanout"
             \/ /\ pc'[r] \notin {"start", "fanout"}
                /\ work[r].type # "SIGNUP" \/ pc'[r] # "done"
      PROVE  FanoutOK' /\ FundedEverywhere'
    <2>1. granted[r] = {} => granted[r] = 0 .. 0 - 1
        OBVIOUS
    <2>2. 0 \in 0 .. Partitions - 1
        BY <1>1
    <2>3. FanoutOK'
        BY <1>2, <2>1, <2>2 DEF FanoutOK
    <2>4. FundedEverywhere'
        BY <1>2 DEF FundedEverywhere
    <2> QED
        BY <2>3, <2>4
<1>3. ASSUME UNCHANGED <<work, pc, granted, failed>>
      PROVE  FanoutOK' /\ FundedEverywhere'
    BY <1>3 DEF FanoutOK, FundedEverywhere
<1>4. ASSUME NEW r \in Requests,
             CreateEvent(r) \/ CreateOrder(r) \/ DeleteOrder(r) \/ Signup(r) \/ Rollback(r)
                \/ Subscribe(r) \/ AwaitResponse(r) \/ GiveUp(r) \/ SubscribeFails(r)
                \/ AppendCommand(r) \/ AppendFails(r)
      PROVE  /\ UNCHANGED <<work, granted, failed>>
             /\ \/ /\ \A s \in Requests : s # r => pc'[s] = pc[s]
                   /\ \/ pc[r] = "start" /\ pc'[r] = "fanout"
                      \/ /\ pc'[r] \notin {"start", "fanout"}
                         /\ work[r].type # "SIGNUP" \/ pc'[r] # "done"
                \/ pc' = pc
    <2>1. CASE CreateEvent(r) \/ CreateOrder(r) \/ DeleteOrder(r) \/ Signup(r) \/ Rollback(r)
        BY <1>1, <2>1 DEF CreateEvent, CreateOrder, DeleteOrder, Signup, Rollback, Goto,
              StagesOK, faultVars
    <2>2. CASE Subscribe(r) \/ AppendCommand(r)
        BY <1>1, <2>2 DEF Subscribe, AppendCommand, Goto, StagesOK, faultVars
    <2>3. CASE AwaitResponse(r) \/ GiveUp(r) \/ SubscribeFails(r) \/ AppendFails(r)
        BY <1>1, <2>3 DEF AwaitResponse, GiveUp, SubscribeFails, AppendFails, Return, Goto,
              StagesOK, faultVars
    <2> QED
        BY <1>4, <2>1, <2>2, <2>3
<1>5. ASSUME NEW r \in Requests,
             CreateEvent(r) \/ CreateOrder(r) \/ DeleteOrder(r) \/ Signup(r) \/ Rollback(r)
                \/ Subscribe(r) \/ AwaitResponse(r) \/ GiveUp(r) \/ SubscribeFails(r)
                \/ AppendCommand(r) \/ AppendFails(r)
      PROVE  FanoutOK' /\ FundedEverywhere'
    BY <1>2, <1>3, <1>4, <1>5
<1>6. ASSUME NEW r \in Requests, pc[r] = "fanout"
      PROVE  \E n \in 0 .. Partitions - 1 :
                /\ granted[r] = 0 .. n - 1
                /\ Cardinality(granted[r]) = n
                /\ granted[r] \cup {n} = 0 .. (n + 1) - 1
    <2>1. PICK n \in 0 .. Partitions - 1 : granted[r] = 0 .. n - 1
        BY <1>6 DEF FanoutOK
    <2>2. n \in Nat
        BY <1>1
    <2> QED
        BY <2>1, <2>2, FirstPartitions
<1>7. ASSUME NEW r \in Requests, Fanout(r)
      PROVE  /\ granted' \in [Requests -> SUBSET (0 .. Partitions - 1)]
             /\ failed' \subseteq Requests /\ FanoutOK' /\ FundedEverywhere'
    <2>1. PICK n \in 0 .. Partitions - 1 :
             /\ granted[r] = 0 .. n - 1
             /\ Cardinality(granted[r]) = n
             /\ granted[r] \cup {n} = 0 .. (n + 1) - 1
        BY <1>6, <1>7 DEF Fanout
    <2>2. /\ granted' = [granted EXCEPT ![r] = 0 .. (n + 1) - 1]
          /\ IF n + 1 = Partitions THEN pc' = [pc EXCEPT ![r] = "done"] ELSE pc' = pc
          /\ UNCHANGED <<work, failed>>
          /\ pc[r] = "fanout"
        BY <1>1, <1>7, <2>1 DEF Fanout, Goto, faultVars
    <2>3. 0 .. (n + 1) - 1 \subseteq 0 .. Partitions - 1 /\ n + 1 \in Nat
        BY <1>1
    <2>4. FanoutOK'
        <3>1. CASE n + 1 = Partitions
            BY <1>1, <2>2, <3>1 DEF FanoutOK
        <3>2. CASE n + 1 # Partitions
            <4>1. n + 1 \in 0 .. Partitions - 1
                BY <1>1, <3>2
            <4>2. granted'[r] = 0 .. (n + 1) - 1 /\ \A s \in Requests : s # r => granted'[s] = granted[s]
                BY <1>1, <2>2
            <4>3. pc' = pc
                BY <2>2, <3>2
            <4> QED
                BY <2>2, <4>1, <4>2, <4>3 DEF FanoutOK
        <3> QED
            BY <3>1, <3>2
    <2>5. FundedEverywhere'
        BY <1>1, <2>2 DEF FundedEverywhere
    <2> QED
        BY <1>1, <2>2, <2>3, <2>4, <2>5
<1>8. ASSUME NEW r \in Requests, FanoutFails(r)
      PROVE  /\ granted' \in [Requests -> SUBSET (0 .. Partitions - 1)]
             /\ failed' \subseteq Requests /\ FanoutOK' /\ FundedEverywhere'
    <2>1. PICK n \in 0 .. Partitions - 1 :
             /\ granted[r] = 0 .. n - 1
             /\ Cardinality(granted[r]) = n
             /\ granted[r] \cup {n} = 0 .. (n + 1) - 1
        BY <1>6, <1>8 DEF FanoutFails
    <2>2. /\ \/ granted' = [granted EXCEPT ![r] = 0 .. (n + 1) - 1]
             \/ granted' = granted
          /\ pc' = [pc EXCEPT ![r] = "done"]
          /\ failed' = failed \cup {r}
          /\ UNCHANGED work
        BY <1>1, <1>8, <2>1 DEF FanoutFails, Goto
    <2>3. 0 .. (n + 1) - 1 \subseteq 0 .. Partitions - 1
        BY <1>1
    <2>4. \A s \in Requests : s # r => granted'[s] = granted[s]
        BY <1>1, <2>2
    <2>5. FanoutOK' /\ FundedEverywhere'
        BY <1>1, <2>2, <2>4 DEF FanoutOK, FundedEverywhere
    <2> QED
        BY <1>1, <2>2, <2>3, <2>5
<1>9. CASE EngineStep \/ EngineStepUnheard \/ EngineStepEmitFails \/ Redeliver
    BY <1>1, <1>3, <1>9, EngineMoves
<1>10. CASE \E o \in Orders : Project(o)
    BY <1>1, <1>3, <1>10 DEF Project, faultVars
<1> QED
    BY <1>1, <1>4, <1>5, <1>7, <1>8, <1>9, <1>10 DEF Next, RequestStep, RequestFault

-----------------------------------------------------------------------------
(* Types, and where requests are                                           *)

\* The handlers' variables after any step.
LEMMA ApiTypesStep ==
    ASSUME Inv, Next
    PROVE  /\ work' = work
           /\ pc' \in [Requests -> Steps]
           /\ channel' \in [Requests -> Channels \cup {NoChannel}]
           /\ tries' \in [Requests -> 0 .. MaxAppendRetries]
           /\ inbox' \in [Requests -> Seq(Message)]
           /\ result' \in [Requests -> {"none", "ok", "refused", "error"}]
<1> USE DEF Inv
<1>1. /\ pc \in [Requests -> Steps]
      /\ channel \in [Requests -> Channels \cup {NoChannel}]
      /\ tries \in [Requests -> 0 .. MaxAppendRetries]
      /\ inbox \in [Requests -> Seq(Message)]
      /\ result \in [Requests -> {"none", "ok", "refused", "error"}]
      /\ MaxAppendRetries \in Nat
    BY RpcAssumption DEF TypeOK
<1>2. ASSUME NEW r \in Requests, CreateEvent(r) \/ CreateOrder(r) \/ DeleteOrder(r) \/ Signup(r)
                \/ Rollback(r) \/ Fanout(r) \/ FanoutFails(r)
      PROVE  UNCHANGED <<work, channel, tries, inbox, result>> /\ pc' \in [Requests -> Steps]
    BY <1>1, <1>2 DEF CreateEvent, CreateOrder, DeleteOrder, Signup, Rollback, Fanout, FanoutFails,
          Goto, Steps, apiVars
<1>3. ASSUME NEW r \in Requests, Subscribe(r)
      PROVE  /\ UNCHANGED <<work, tries, inbox, result>> /\ pc' \in [Requests -> Steps]
             /\ channel' \in [Requests -> Channels \cup {NoChannel}]
    BY <1>1, <1>3 DEF Subscribe, Goto, Steps
<1>4. ASSUME NEW r \in Requests, AppendCommand(r) \/ AppendFails(r), ~Return(r, "error")
      PROVE  /\ UNCHANGED <<work, channel, inbox, result>> /\ pc' \in [Requests -> Steps]
             /\ tries' \in [Requests -> 0 .. MaxAppendRetries]
    <2>1. tries[r] + 1 \in 0 .. MaxAppendRetries
        BY <1>1, <1>4 DEF AppendCommand, AppendFails, CopiesOK
    <2> QED
        BY <1>1, <1>4, <2>1 DEF AppendCommand, AppendFails, Goto, Steps
<1>5. ASSUME NEW r \in Requests, AwaitResponse(r), Head(inbox[r]).req # r
      PROVE  /\ UNCHANGED <<work, pc, channel, tries, result>>
             /\ inbox' \in [Requests -> Seq(Message)]
    <2>1. inbox[r] \in Seq(Message) /\ inbox[r] # << >>
        BY <1>1, <1>5 DEF AwaitResponse
    <2>2. Tail(inbox[r]) \in Seq(Message)
        BY <2>1, HeadTailProperties
    <2> QED
        BY <1>1, <1>5, <2>2 DEF AwaitResponse
<1>6. ASSUME NEW r \in Requests, NEW how \in {"ok", "refused", "error"}, Return(r, how), work' = work
      PROVE  /\ pc' \in [Requests -> Steps]
             /\ channel' \in [Requests -> Channels \cup {NoChannel}]
             /\ tries' \in [Requests -> 0 .. MaxAppendRetries]
             /\ inbox' \in [Requests -> Seq(Message)]
             /\ result' \in [Requests -> {"none", "ok", "refused", "error"}]
    BY <1>6, ReturnTypes
<1>7. ASSUME NEW r \in Requests, GiveUp(r) \/ SubscribeFails(r)
      PROVE  work' = work /\ Return(r, "error")
    BY <1>7 DEF GiveUp, SubscribeFails
<1>8. ASSUME NEW r \in Requests, AwaitResponse(r), Head(inbox[r]).req = r
      PROVE  work' = work /\ (Return(r, "ok") \/ Return(r, "refused"))
    BY <1>8 DEF AwaitResponse
<1>9. ASSUME NEW r \in Requests, AppendFails(r) \/ AppendCommand(r)
      PROVE  work' = work
    BY <1>9 DEF AppendFails, AppendCommand
<1>10. CASE EngineStep \/ EngineStepUnheard \/ EngineStepEmitFails \/ Redeliver
    <2>1. PICK e \in Entry : Handles(e)
        BY <1>10, EngineMoves
    <2>2. PICK b \in BOOLEAN : Publish(e, b) \/ inbox' = inbox
        BY <2>1, HandleReply
    <2>3. inbox' \in [Requests -> Seq(Message)]
        BY <2>2, ReplyMessages
    <2> QED
        BY <1>1, <1>10, <2>3, EngineMoves
<1>11. CASE \E o \in Orders : Project(o)
    BY <1>1, <1>11 DEF Project, apiVars
<1> QED
    <2>1. ASSUME NEW r \in Requests, RequestStep(r) \/ RequestFault(r)
          PROVE  /\ work' = work
                 /\ pc' \in [Requests -> Steps]
                 /\ channel' \in [Requests -> Channels \cup {NoChannel}]
                 /\ tries' \in [Requests -> 0 .. MaxAppendRetries]
                 /\ inbox' \in [Requests -> Seq(Message)]
                 /\ result' \in [Requests -> {"none", "ok", "refused", "error"}]
        <3>1. CASE CreateEvent(r) \/ CreateOrder(r) \/ DeleteOrder(r) \/ Signup(r)
                      \/ Rollback(r) \/ Fanout(r) \/ FanoutFails(r)
            BY <1>1, <1>2, <3>1
        <3>2. CASE Subscribe(r)
            BY <1>1, <1>3, <3>2
        <3>3. CASE AppendCommand(r) \/ AppendFails(r)
            BY <1>1, <1>4, <1>6, <1>9, <3>3
        <3>4. CASE AwaitResponse(r)
            BY <1>1, <1>5, <1>6, <1>8, <3>4
        <3>5. CASE GiveUp(r) \/ SubscribeFails(r)
            BY <1>6, <1>7, <3>5
        <3> QED
            BY <2>1, <3>1, <3>2, <3>3, <3>4, <3>5 DEF RequestStep, RequestFault
    <2> QED
        BY <1>10, <1>11, <2>1 DEF Next

\* The type invariant after any step.
LEMMA TypeStep ==
    ASSUME Inv, Next
    PROVE  TypeOK'
<1> USE DEF Inv
<1>1. /\ rows \subseteq Events /\ projected \subseteq Orders /\ markets \subseteq Events
      /\ orders \in [Orders -> {"none", "open", "canceled"}]
      /\ runs \in [Requests -> Nat] /\ takes \in [Requests -> Nat] /\ leaks \in [Requests -> Nat]
      /\ holds \in [Orders -> Int] /\ announced \subseteq Orders
      /\ faults \in 0 .. MaxFaults /\ MaxFaults \in Nat /\ work \in Workloads
    BY RpcAssumption DEF TypeOK
<1>2. rows' \subseteq Events /\ projected' \subseteq Orders
    <2>1. \A r \in Requests : work[r].event \in Events
        BY <1>1, WorkTypes
    <2>2. ASSUME NEW r \in Requests, RequestStep(r) \/ RequestFault(r)
          PROVE  rows' \subseteq Events /\ projected' \subseteq Orders
        BY <1>1, <2>1, <2>2 DEF RequestStep, RequestFault, CreateEvent, CreateOrder, DeleteOrder,
              Signup, Rollback, Fanout, FanoutFails, Subscribe, SubscribeFails, AppendCommand,
              AppendFails, AwaitResponse, GiveUp, dbVars
    <2>3. CASE EngineStep \/ EngineStepUnheard \/ EngineStepEmitFails \/ Redeliver
        BY <1>1, <2>3, EngineMoves
    <2> QED
        BY <1>1, <2>2, <2>3 DEF Next, Project
<1>3. /\ markets' \subseteq Events /\ orders' \in [Orders -> {"none", "open", "canceled"}]
      /\ runs' \in [Requests -> Nat] /\ takes' \in [Requests -> Nat] /\ leaks' \in [Requests -> Nat]
      /\ holds' \in [Orders -> Int] /\ announced' \subseteq Orders
    <2>1. ASSUME NEW r \in Requests, RequestStep(r) \/ RequestFault(r)
          PROVE  UNCHANGED <<markets, orders, runs, takes, leaks, holds, announced>>
        BY <1>1, <2>1 DEF RequestStep, RequestFault, CreateEvent, CreateOrder, DeleteOrder,
              Signup, Rollback, Fanout, FanoutFails, Subscribe, SubscribeFails, AppendCommand,
              AppendFails, AwaitResponse, GiveUp, engineVars
    <2>2. CASE EngineStep \/ EngineStepUnheard \/ EngineStepEmitFails \/ Redeliver
        <3>1. PICK e \in Entry : work[e.req].type # "SIGNUP" /\ Handles(e)
            BY <2>2, EngineMoves
        <3>2. work' = work
            BY ApiTypesStep
        <3>3. markets' \subseteq Events /\ orders' \in [Orders -> {"none", "open", "canceled"}]
            BY <1>1, <3>1, <3>2, ExecuteState, ForgetState DEF Handles
        <3> QED
            BY <3>1, <3>2, <3>3, HandleCounts, HandleLedger
    <2>3. CASE \E o \in Orders : Project(o)
        BY <1>1, <2>3 DEF Project, engineVars
    <2> QED
        BY <1>1, <2>1, <2>2, <2>3 DEF Next
<1>4. faults' \in 0 .. MaxFaults
    <2>1. ASSUME NEW r \in Requests, RequestStep(r) \/ RequestFault(r)
          PROVE  faults' = faults \/ Fails
        BY <2>1 DEF RequestStep, RequestFault, CreateEvent, CreateOrder, DeleteOrder,
              Signup, Rollback, Fanout, FanoutFails, Subscribe, SubscribeFails, AppendCommand,
              AppendFails, AwaitResponse, GiveUp, faultVars
    <2>2. CASE EngineStep \/ EngineStepUnheard \/ EngineStepEmitFails \/ Redeliver
        BY <2>2, EngineMoves
    <2>3. CASE \E o \in Orders : Project(o)
        BY <1>1, <2>3 DEF Project, faultVars
    <2> QED
        BY <1>1, <2>1, <2>2, <2>3, FaultsStep DEF Next
<1> QED
    BY <1>1, <1>2, <1>3, <1>4, StreamStep, FanoutStep, ApiTypesStep DEF TypeOK, Copies

\* Where a request of each type can be after any step.
LEMMA StagesStep ==
    ASSUME Inv, Next
    PROVE  StagesOK'
<1> USE DEF Inv
<1>1. /\ pc \in [Requests -> Steps] /\ work' = work /\ work \in Workloads
      /\ result \in [Requests -> {"none", "ok", "refused", "error"}]
      /\ inbox \in [Requests -> Seq(Message)]
    BY ApiTypesStep DEF TypeOK
<1>2. ASSUME NEW r \in Requests, CreateEvent(r) \/ CreateOrder(r) \/ DeleteOrder(r) \/ Signup(r)
                \/ Rollback(r) \/ Fanout(r) \/ FanoutFails(r) \/ Subscribe(r) \/ AppendCommand(r)
      PROVE  StagesOK'
    <2>1. result' = result
        BY <1>2 DEF CreateEvent, CreateOrder, DeleteOrder, Signup, Rollback, Fanout, FanoutFails,
              Subscribe, AppendCommand, apiVars
    <2>2. /\ \A s \in Requests : s # r => pc'[s] = pc[s]
          /\ pc'[r] = pc[r]
             \/ (work[r].type # "SIGNUP" /\ result[r] = "none" /\ pc'[r] \in {"send", "append", "await"})
             \/ (work[r].type \notin {"SIGNUP", "CREATE_EVENT"} /\ pc'[r] = "done")
             \/ (work[r].type = "SIGNUP" /\ pc'[r] \in {"fanout", "done"})
             \/ (work[r].type = "CREATE_EVENT" /\ result[r] = "error" /\ pc'[r] = "done")
        BY <1>1, <1>2 DEF CreateEvent, CreateOrder, DeleteOrder, Signup, Rollback, Fanout, FanoutFails,
              Subscribe, AppendCommand, Goto, StagesOK
    <2> QED
        BY <1>1, <2>1, <2>2 DEF StagesOK
<1>3. ASSUME NEW r \in Requests, NEW how \in {"ok", "refused", "error"}, Return(r, how),
             work[r].type # "SIGNUP", work[r].type = "CREATE_EVENT" => how # "refused"
      PROVE  StagesOK'
    <2>1. /\ \A s \in Requests : s # r => pc'[s] = pc[s] /\ result'[s] = result[s]
          /\ result'[r] = how
          /\ pc'[r] = IF work[r].type = "CREATE_EVENT" /\ how # "ok" THEN "rollback" ELSE "done"
        BY <1>1, <1>3 DEF Return, Goto
    <2> QED
        BY <1>1, <1>3, <2>1 DEF StagesOK
<1>4. ASSUME UNCHANGED <<pc, result>> PROVE StagesOK'
    BY <1>1, <1>4 DEF StagesOK
<1>5. ASSUME NEW r \in Requests, AwaitResponse(r)
      PROVE  StagesOK'
    <2>1. inbox[r] \in Seq(Message) /\ inbox[r] # << >> /\ pc[r] = "await"
        BY <1>1, <1>5 DEF AwaitResponse
    <2>2. 1 \in DOMAIN inbox[r] /\ Head(inbox[r]) = inbox[r][1]
        BY <2>1, HeadTailProperties, LenProperties
    <2>3. ~Head(inbox[r]).success => Refused(Head(inbox[r]).req)
        BY <2>2 DEF MessagesOK, Claims
    <2>4. CASE Head(inbox[r]).req = r
        <3>1. CASE Head(inbox[r]).success
            BY <1>3, <1>5, <2>1, <2>4, <3>1 DEF AwaitResponse, StagesOK
        <3>2. CASE ~Head(inbox[r]).success
            BY <1>3, <1>5, <2>1, <2>3, <2>4, <3>2 DEF AwaitResponse, StagesOK, Refused
        <3> QED
            BY <3>1, <3>2
    <2>5. CASE Head(inbox[r]).req # r
        BY <1>4, <1>5, <2>5 DEF AwaitResponse
    <2> QED
        BY <2>4, <2>5
<1>6. ASSUME NEW r \in Requests, GiveUp(r) \/ SubscribeFails(r) \/ AppendFails(r)
      PROVE  StagesOK'
    <2>1. pc[r] \in {"send", "append", "await"} /\ (Return(r, "error") \/ UNCHANGED <<pc, result>>)
        BY <1>6 DEF GiveUp, SubscribeFails, AppendFails
    <2> QED
        BY <1>3, <1>4, <2>1 DEF StagesOK
<1>7. CASE EngineStep \/ EngineStepUnheard \/ EngineStepEmitFails \/ Redeliver
    BY <1>4, <1>7, EngineMoves
<1>8. CASE \E o \in Orders : Project(o)
    BY <1>4, <1>8 DEF Project, apiVars
<1> QED
    BY <1>2, <1>5, <1>6, <1>7, <1>8 DEF Next, RequestStep, RequestFault

-----------------------------------------------------------------------------
(* What messages and answers claim                                         *)

\* A request's own steps leave the engine alone.
LEMMA RequestLeavesEngine ==
    ASSUME NEW r \in Requests, RequestStep(r) \/ RequestFault(r)
    PROVE  UNCHANGED <<work, markets, orders, runs, takes, leaks, holds>>
    BY DEF RequestStep, RequestFault, CreateEvent, CreateOrder, DeleteOrder, Signup, Rollback,
          Fanout, FanoutFails, Subscribe, SubscribeFails, AppendCommand, AppendFails,
          AwaitResponse, GiveUp, engineVars

\* What is effective or was refused remains so, no command takes effect more
\* often than it is executed, and the ledger goes with the orders.
LEMMA ClaimsStay ==
    ASSUME Inv, Next
    PROVE  /\ \A r \in Requests : Effective(r) => Effective(r)'
           /\ \A r \in Requests : Refused(r) => Refused(r)'
           /\ TakesOK'
           /\ KeptOnce'
           /\ LedgerOK'
<1> USE DEF Inv
<1>1. ASSUME UNCHANGED <<work, markets, orders, runs, takes, leaks, holds>>
      PROVE  /\ \A r \in Requests : Effective(r) => Effective(r)'
             /\ \A r \in Requests : Refused(r) => Refused(r)'
             /\ TakesOK'
             /\ KeptOnce'
             /\ LedgerOK'
    BY <1>1 DEF Effective, Refused, TakesOK, KeptOnce, Kept, LedgerOK, Leaked, OwnHold
<1>2. CASE EngineStep \/ EngineStepUnheard \/ EngineStepEmitFails \/ Redeliver
    <2>1. PICK e \in Entry : work[e.req].type # "SIGNUP" /\ Handles(e)
        BY <1>2, EngineMoves
    <2>2. work' = work /\ e.req \in Requests
        BY ApiTypesStep DEF Entry
    <2>3. /\ \A r \in Requests : Effective(r) => Effective(r)'
          /\ ~ExecuteEmitFails(e) /\ Confirms(work[e.req]) => Effective(e.req)'
          /\ ExecuteEmitFails(e) => /\ work[e.req].type = "CREATE_ORDER" /\ Takes(work[e.req])
                                    /\ leaks'[e.req] = leaks[e.req] + 1
        BY <2>1, <2>2, ExecuteState, ForgetState DEF Handles
    <2>4. /\ \A r \in Requests : r # e.req => /\ runs'[r] = runs[r] /\ takes'[r] = takes[r]
                                              /\ leaks'[r] = leaks[r]
          /\ runs'[e.req] = runs[e.req] + 1
          /\ takes'[e.req] = takes[e.req] + (IF Takes(work[e.req]) THEN 1 ELSE 0)
          /\ leaks'[e.req] = leaks[e.req]
             \/ (leaks'[e.req] = leaks[e.req] + 1 /\ ExecuteEmitFails(e))
        BY <2>1, HandleCounts
    <2>5. /\ runs \in [Requests -> Nat] /\ takes \in [Requests -> Nat]
          /\ leaks \in [Requests -> Nat]
        BY DEF TypeOK
    <2>6. \/ takes'[e.req] = takes[e.req] /\ leaks'[e.req] = leaks[e.req]
          \/ /\ takes'[e.req] = takes[e.req] + 1 /\ leaks'[e.req] = leaks[e.req] + 1
             /\ work[e.req].type = "CREATE_ORDER"
          \/ /\ takes'[e.req] = takes[e.req] + 1 /\ leaks'[e.req] = leaks[e.req]
             /\ Takes(work[e.req]) /\ Effective(e.req)'
        <3>1. CASE ExecuteEmitFails(e)
            BY <2>3, <2>4, <3>1
        <3>2. CASE ~ExecuteEmitFails(e) /\ Takes(work[e.req])
            BY <2>3, <2>4, <3>2 DEF Confirms
        <3>3. CASE ~ExecuteEmitFails(e) /\ ~Takes(work[e.req])
            BY <2>2, <2>4, <2>5, <3>3
        <3> QED
            BY <3>1, <3>2, <3>3
    <2>7. \A r \in Requests : Refused(r) => Refused(r)'
        BY <2>2, <2>4, <2>5, <2>6 DEF Refused
    <2>8. TakesOK'
        BY <2>2, <2>3, <2>4, <2>5, <2>6 DEF TakesOK
    <2>9. LedgerOK'
        BY <2>1, <2>2, HandleLedger
    <2>10. KeptOnce'
        <3>1. ASSUME NEW r \in Requests, Takes(work[e.req]),
                     work[e.req].type \in {"CREATE_ORDER", "CANCEL_ORDER"},
                     work[r].type = work[e.req].type, work[r].order = work[e.req].order
              PROVE  Kept(r) = 0
            <4>1. ~Effective(r)
                BY <3>1 DEF Takes, Effective
            <4> QED
                BY <2>5, <4>1 DEF TakesOK, Kept
        <3>2. \A r \in Requests : r # e.req => Kept(r)' = Kept(r)
            BY <2>4 DEF Kept
        <3>3. \/ Kept(e.req)' = Kept(e.req)
              \/ Kept(e.req)' = Kept(e.req) + 1 /\ Takes(work[e.req])
            BY <2>2, <2>5, <2>6 DEF Kept
        <3>4. CASE Kept(e.req)' = Kept(e.req)
            <4>1. \A r \in Requests : Kept(r)' = Kept(r)
                BY <3>2, <3>4
            <4> QED
                BY <2>2, <4>1 DEF KeptOnce
        <3>5. CASE Kept(e.req)' = Kept(e.req) + 1 /\ Takes(work[e.req])
            <4>1. ASSUME NEW r \in Requests, NEW s \in Requests,
                         work[r].type \in {"CREATE_ORDER", "CANCEL_ORDER"},
                         work[s].type = work[r].type, work[s].order = work[r].order
                  PROVE  Kept(r)' + (IF s = r THEN 0 ELSE Kept(s)') <= 1
                <5>1. CASE r = e.req
                    <6>1. Kept(r) = 0 /\ Kept(s) = 0
                        BY <2>2, <3>1, <3>5, <4>1, <5>1
                    <6> QED
                        BY <3>2, <3>5, <5>1, <6>1
                <5>2. CASE s = e.req
                    <6>1. Kept(r) = 0 /\ Kept(s) = 0
                        BY <2>2, <3>1, <3>5, <4>1, <5>2
                    <6> QED
                        BY <3>2, <3>5, <5>2, <6>1
                <5>3. CASE r # e.req /\ s # e.req
                    BY <3>2, <4>1, <5>3 DEF KeptOnce
                <5> QED
                    BY <5>1, <5>2, <5>3
            <4> QED
                BY <2>2, <4>1 DEF KeptOnce
        <3> QED
            BY <3>3, <3>4, <3>5
    <2> QED
        BY <2>3, <2>7, <2>8, <2>9, <2>10
<1>3. CASE \E o \in Orders : Project(o)
    BY <1>1, <1>3 DEF Project, engineVars
<1> QED
    BY <1>1, <1>2, <1>3, RequestLeavesEngine DEF Next

\* The messages on a request's channel after any step: what was there, or the
\* reply to an entry the engine executes.
LEMMA MessagesStep ==
    ASSUME Inv, Next
    PROVE  MessagesOK'
<1> USE DEF Inv
<1>1. /\ \A r \in Requests : Effective(r) => Effective(r)'
      /\ \A r \in Requests : Refused(r) => Refused(r)'
    BY ClaimsStay
<1>2. inbox \in [Requests -> Seq(Message)]
    BY DEF TypeOK
<1>3. ASSUME NEW r \in Requests, NEW i \in DOMAIN inbox[r], NEW m, m = inbox[r][i]
      PROVE  Claims(m)'
    <2>1. inbox[r] \in Seq(Message)
        BY <1>2
    <2>2. m \in Message
        BY <1>3, <2>1
    <2>3. m.req \in Requests /\ Claims(m)
        BY <1>3, <2>2 DEF Message, MessagesOK
    <2> QED
        BY <1>1, <2>3 DEF Claims
<1>4. ASSUME \A r \in Requests : \A i \in DOMAIN inbox'[r] :
                \E j \in DOMAIN inbox[r] : inbox'[r][i] = inbox[r][j]
      PROVE  MessagesOK'
    <2>1. ASSUME NEW r \in Requests, NEW i \in DOMAIN inbox'[r], NEW m, m = inbox'[r][i]
          PROVE  Claims(m)'
        <3>1. PICK j \in DOMAIN inbox[r] : inbox'[r][i] = inbox[r][j]
            BY <1>4
        <3> QED
            BY <1>3, <2>1, <3>1
    <2> QED
        BY <2>1 DEF MessagesOK, Claims, Effective, Refused
<1>5. ASSUME NEW r \in Requests, RequestStep(r) \/ RequestFault(r)
      PROVE  /\ \A s \in Requests : s # r => inbox'[s] = inbox[s]
             /\ \/ inbox'[r] \in {inbox[r], << >>}
                \/ inbox[r] # << >> /\ inbox'[r] = Tail(inbox[r])
    BY <1>2, <1>5 DEF RequestStep, RequestFault, CreateEvent, CreateOrder, DeleteOrder, Signup,
          Rollback, Fanout, FanoutFails, Subscribe, SubscribeFails, AppendCommand, AppendFails,
          AwaitResponse, GiveUp, Return, apiVars
<1>6. ASSUME NEW r \in Requests, RequestStep(r) \/ RequestFault(r)
      PROVE  MessagesOK'
    <2>1. ASSUME NEW s \in Requests, NEW i \in DOMAIN inbox'[s]
          PROVE  \E j \in DOMAIN inbox[s] : inbox'[s][i] = inbox[s][j]
        <3>1. CASE s # r \/ inbox'[s] = inbox[s]
            BY <1>5, <1>6, <3>1
        <3>2. CASE inbox'[s] = << >>
            BY <3>2
        <3>3. CASE inbox[s] # << >> /\ inbox'[s] = Tail(inbox[s])
            <4>1. inbox[s] \in Seq(Message)
                BY <1>2
            <4>2. /\ Len(Tail(inbox[s])) = Len(inbox[s]) - 1
                  /\ DOMAIN Tail(inbox[s]) = 1 .. Len(inbox[s]) - 1
                  /\ DOMAIN inbox[s] = 1 .. Len(inbox[s])
                  /\ \A k \in 1 .. Len(inbox[s]) - 1 : Tail(inbox[s])[k] = inbox[s][k + 1]
                  /\ Len(inbox[s]) \in Nat
                BY <3>3, <4>1, HeadTailProperties, LenProperties
            <4>3. i + 1 \in DOMAIN inbox[s] /\ inbox'[s][i] = inbox[s][i + 1]
                BY <3>3, <4>2
            <4> QED
                BY <4>3
        <3> QED
            BY <1>5, <1>6, <3>1, <3>2, <3>3
    <2> QED
        BY <1>4, <2>1
<1>7. CASE EngineStep \/ EngineStepUnheard \/ EngineStepEmitFails \/ Redeliver
    <2>1. PICK e \in Entry : work[e.req].type # "SIGNUP" /\ Handles(e)
        BY <1>7, EngineMoves
    <2>2. work' = work /\ e.req \in Requests
        BY ApiTypesStep DEF Entry
    <2>3. PICK b \in BOOLEAN :
             /\ Publish(e, b) \/ inbox' = inbox
             /\ \/ ExecuteEmitFails(e) /\ ~b
                \/ (Execute(e, TRUE) \/ Execute(e, FALSE)) /\ b = Confirms(work[e.req])
        BY <2>1, HandleReply
    <2>4. /\ b => Effective(e.req)'
          /\ ~b => Refused(e.req)'
        <3>1. /\ runs'[e.req] = runs[e.req] + 1
              /\ takes'[e.req] = takes[e.req] + (IF Takes(work[e.req]) THEN 1 ELSE 0)
            BY <2>1, HandleCounts
        <3>2. /\ runs[e.req] \in Nat /\ takes[e.req] \in Nat /\ leaks[e.req] \in Nat
              /\ runs[e.req] >= takes[e.req]
            BY <2>2 DEF TypeOK, TakesOK
        <3>3. CASE ExecuteEmitFails(e) /\ ~b
            <4>1. leaks'[e.req] = leaks[e.req] + 1 /\ work[e.req].type = "CREATE_ORDER"
                BY <2>2, <3>3, ForgetState
            <4> QED
                BY <2>2, <3>2, <3>3, <4>1 DEF Refused
        <3>4. CASE (Execute(e, TRUE) \/ Execute(e, FALSE)) /\ b = Confirms(work[e.req])
            <4>1. Confirms(work[e.req]) => Effective(e.req)'
                BY <2>1, <2>2, <3>4, ExecuteState
            <4>2. ASSUME ~Confirms(work[e.req])
                  PROVE  ~Takes(work[e.req]) /\ work[e.req].type # "CREATE_EVENT"
                BY <4>2 DEF Confirms
            <4>3. ~Confirms(work[e.req]) => Refused(e.req)'
                BY <2>2, <3>1, <3>2, <4>2 DEF Refused
            <4> QED
                BY <3>4, <4>1, <4>3
        <3> QED
            BY <2>3, <3>3, <3>4
    <2>5. \A r \in Requests : \A i \in DOMAIN inbox'[r] :
             \/ i \in DOMAIN inbox[r] /\ inbox'[r][i] = inbox[r][i]
             \/ inbox'[r][i] = [req |-> e.req, success |-> b]
        BY <2>3, ReplyMessages
    <2>6. ASSUME NEW r \in Requests, NEW i \in DOMAIN inbox'[r], NEW m, m = inbox'[r][i]
          PROVE  Claims(m)'
        <3>1. CASE i \in DOMAIN inbox[r] /\ m = inbox[r][i]
            BY <1>3, <3>1
        <3>2. CASE m = [req |-> e.req, success |-> b]
            <4>1. m.req = e.req /\ m.success = b
                BY <3>2
            <4>2. CASE b
                BY <2>4, <4>1, <4>2 DEF Claims, Effective
            <4>3. CASE ~b
                BY <2>4, <4>1, <4>3 DEF Claims, Refused
            <4> QED
                BY <4>2, <4>3
        <3> QED
            BY <2>5, <2>6, <3>1, <3>2
    <2> QED
        BY <2>6 DEF MessagesOK, Claims, Effective, Refused
<1>8. CASE \E o \in Orders : Project(o)
    BY <1>4, <1>8 DEF Project, apiVars
<1> QED
    BY <1>6, <1>7, <1>8 DEF Next

\* The answers after any step.
LEMMA ResultsStep ==
    ASSUME Inv, Next
    PROVE  ResultsOK'
<1> USE DEF Inv
<1>1. /\ \A r \in Requests : Effective(r) => Effective(r)'
      /\ \A r \in Requests : Refused(r) => Refused(r)'
    BY ClaimsStay
<1>2. result \in [Requests -> {"none", "ok", "refused", "error"}] /\ inbox \in [Requests -> Seq(Message)]
    BY DEF TypeOK
<1>3. ASSUME result' = result PROVE ResultsOK'
    BY <1>1, <1>3 DEF ResultsOK
<1>4. ASSUME NEW r \in Requests, NEW how \in {"ok", "refused", "error"}, Return(r, how),
             how = "ok" => Effective(r), how = "refused" => Refused(r)
      PROVE  ResultsOK'
    <2>1. result' = [result EXCEPT ![r] = how]
        BY <1>4 DEF Return
    <2>2. result'[r] = how /\ \A s \in Requests : s # r => result'[s] = result[s]
        BY <1>2, <2>1
    <2> QED
        BY <1>1, <1>4, <2>2 DEF ResultsOK
<1>5. ASSUME NEW r \in Requests, AwaitResponse(r)
      PROVE  ResultsOK'
    <2>1. inbox[r] \in Seq(Message) /\ inbox[r] # << >>
        BY <1>2, <1>5 DEF AwaitResponse
    <2>2. 1 \in DOMAIN inbox[r] /\ Head(inbox[r]) = inbox[r][1]
        BY <2>1, HeadTailProperties, LenProperties
    <2>3. IF Head(inbox[r]).success THEN Effective(Head(inbox[r]).req) ELSE Refused(Head(inbox[r]).req)
        BY <2>2 DEF MessagesOK, Claims
    <2>4. CASE Head(inbox[r]).req = r
        <3>1. CASE Head(inbox[r]).success
            BY <1>4, <1>5, <2>3, <2>4, <3>1 DEF AwaitResponse
        <3>2. CASE ~Head(inbox[r]).success
            BY <1>4, <1>5, <2>3, <2>4, <3>2 DEF AwaitResponse
        <3> QED
            BY <3>1, <3>2
    <2>5. CASE Head(inbox[r]).req # r
        BY <1>3, <1>5, <2>5 DEF AwaitResponse
    <2> QED
        BY <2>4, <2>5
<1>6. ASSUME NEW r \in Requests, GiveUp(r) \/ SubscribeFails(r) \/ AppendFails(r)
      PROVE  ResultsOK'
    <2>1. Return(r, "error") \/ result' = result
        BY <1>6 DEF GiveUp, SubscribeFails, AppendFails
    <2> QED
        BY <1>3, <1>4, <2>1
<1>7. ASSUME NEW r \in Requests, CreateEvent(r) \/ CreateOrder(r) \/ DeleteOrder(r) \/ Signup(r)
                \/ Rollback(r) \/ Fanout(r) \/ FanoutFails(r) \/ Subscribe(r) \/ AppendCommand(r)
      PROVE  ResultsOK'
    <2>1. result' = result
        BY <1>7 DEF CreateEvent, CreateOrder, DeleteOrder, Signup, Rollback, Fanout, FanoutFails,
              Subscribe, AppendCommand, apiVars
    <2> QED
        BY <1>3, <2>1
<1>8. CASE EngineStep \/ EngineStepUnheard \/ EngineStepEmitFails \/ Redeliver
    BY <1>3, <1>8, EngineMoves
<1>9. CASE \E o \in Orders : Project(o)
    BY <1>3, <1>9 DEF Project, apiVars
<1> QED
    BY <1>5, <1>6, <1>7, <1>8, <1>9 DEF Next, RequestStep, RequestFault

\* The rows after any step: a rollback deletes no other request's row.
LEMMA RowsStep ==
    ASSUME Inv, Next
    PROVE  RowsOK'
<1> USE DEF Inv
<1>1. /\ work' = work /\ pc \in [Requests -> Steps] /\ work \in Workloads
      /\ result \in [Requests -> {"none", "ok", "refused", "error"}]
    BY ApiTypesStep DEF TypeOK
<1>2. ASSUME rows \subseteq rows', UNCHANGED <<pc, result>> PROVE RowsOK'
    BY <1>1, <1>2 DEF RowsOK
<1>3. ASSUME NEW r \in Requests, CreateEvent(r)
      PROVE  RowsOK'
    <2>1. /\ rows' = rows \cup {work[r].event} /\ result' = result
          /\ \A s \in Requests : s # r => pc'[s] = pc[s]
        BY <1>1, <1>3 DEF CreateEvent, Goto, apiVars
    <2> QED
        BY <1>1, <2>1 DEF RowsOK
<1>4. ASSUME NEW r \in Requests, Rollback(r)
      PROVE  RowsOK'
    <2>1. /\ rows \ {work[r].event} \subseteq rows' /\ result' = result
          /\ pc'[r] = "done" /\ \A s \in Requests : s # r => pc'[s] = pc[s]
          /\ work[r].type = "CREATE_EVENT" /\ result[r] = "error"
        BY <1>1, <1>4 DEF Rollback, Goto, apiVars, dbVars, StagesOK
    <2>2. ASSUME NEW s \in Requests, s # r, work[s].type = "CREATE_EVENT"
          PROVE  work[s].event # work[r].event
        BY <1>1, <2>1, <2>2, RpcAssumption
    <2>3. ASSUME NEW s \in Requests, work[s].type = "CREATE_EVENT",
                 pc'[s] \in {"send", "append", "await"} \/ result'[s] = "ok"
          PROVE  work[s].event \in rows'
        <3>1. s # r
            BY <2>1, <2>3
        <3>2. work[s].event \in rows
            BY <2>1, <2>3, <3>1 DEF RowsOK
        <3> QED
            BY <2>1, <2>2, <2>3, <3>1, <3>2
    <2> QED
        BY <1>1, <2>3 DEF RowsOK
<1>5. ASSUME NEW r \in Requests, CreateOrder(r) \/ DeleteOrder(r) \/ Signup(r) \/ Fanout(r)
                \/ FanoutFails(r) \/ Subscribe(r) \/ AppendCommand(r)
      PROVE  RowsOK'
    <2>1. /\ rows' = rows /\ result' = result
          /\ \A s \in Requests : s # r => pc'[s] = pc[s]
          /\ pc'[r] \in {"send", "append", "await"} /\ work[r].type = "CREATE_EVENT"
                => pc[r] \in {"send", "append"}
        BY <1>1, <1>5 DEF CreateOrder, DeleteOrder, Signup, Fanout, FanoutFails, Subscribe,
              AppendCommand, Goto, apiVars, dbVars, StagesOK
    <2> QED
        BY <1>1, <2>1 DEF RowsOK
<1>6. ASSUME NEW r \in Requests, NEW how \in {"ok", "refused", "error"}, Return(r, how),
             rows' = rows, pc[r] \in {"send", "append", "await"}
      PROVE  RowsOK'
    <2>1. /\ \A s \in Requests : s # r => pc'[s] = pc[s] /\ result'[s] = result[s]
          /\ work[r].type = "CREATE_EVENT" => work[r].event \in rows
        BY <1>1, <1>6 DEF Return, Goto, RowsOK
    <2> QED
        BY <1>1, <1>6, <2>1 DEF RowsOK
<1>7. ASSUME NEW r \in Requests, AwaitResponse(r) \/ GiveUp(r) \/ SubscribeFails(r) \/ AppendFails(r)
      PROVE  RowsOK'
    <2>1. /\ pc[r] \in {"send", "append", "await"} /\ rows' = rows
          /\ \/ Return(r, "error") \/ Return(r, "ok") \/ Return(r, "refused")
             \/ UNCHANGED <<pc, result>>
        BY <1>7 DEF AwaitResponse, GiveUp, SubscribeFails, AppendFails, dbVars
    <2> QED
        BY <1>2, <1>6, <2>1
<1>8. CASE EngineStep \/ EngineStepUnheard \/ EngineStepEmitFails \/ Redeliver
    BY <1>2, <1>8, EngineMoves
<1>9. CASE \E o \in Orders : Project(o)
    BY <1>2, <1>9 DEF Project, apiVars
<1> QED
    BY <1>3, <1>4, <1>5, <1>7, <1>8, <1>9 DEF Next, RequestStep, RequestFault

-----------------------------------------------------------------------------
(* The theorems                                                            *)

\* The initial states.
LEMMA InitInv ==
    ASSUME Init
    PROVE  Inv
<1>1. Len(stream) = 0 /\ DOMAIN stream = {} /\ stream \in Seq(Entry)
    BY DEF Init
<1>2. \A r \in Requests : Cardinality({i \in DOMAIN stream : stream[i].req = r}) = 0
    <2>1. \A r \in Requests : {i \in DOMAIN stream : stream[i].req = r} = {}
        BY <1>1
    <2> QED
        BY <2>1, FS_EmptySet
<1>3. MaxAppendRetries \in Nat \ {0} /\ MaxFaults \in Nat /\ Partitions \in Nat
    BY RpcAssumption
<1>4. TypeOK
    <2>1. inbox \in [Requests -> Seq(Message)]
        BY DEF Init
    <2>2. executed \in 0 .. Len(stream)
        BY <1>1 DEF Init
    <2> QED
        BY <1>1, <1>2, <1>3, <2>1, <2>2 DEF Init, TypeOK, Steps
<1>5. CopiesOK
    BY <1>2 DEF Init, CopiesOK, Copies, Unsent
<1>6. StagesOK /\ StreamOK /\ RowsOK /\ ResultsOK
    BY <1>1 DEF Init, StagesOK, StreamOK, RowsOK, ResultsOK
<1>7. MessagesOK
    BY DEF Init, MessagesOK
<1>8. TakesOK /\ KeptOnce
    BY DEF Init, TakesOK, KeptOnce, Kept
<1>10. LedgerOK
    <2>1. \A o \in Orders : ~Leaked(o) /\ holds[o] = 0 /\ OwnHold(o) = 0
        BY DEF Init, Leaked, OwnHold
    <2> QED
        BY <2>1 DEF LedgerOK
<1>9. FanoutOK /\ FundedEverywhere
    BY DEF Init, FanoutOK, FundedEverywhere
<1> QED
    BY <1>4, <1>5, <1>6, <1>7, <1>8, <1>9, <1>10 DEF Inv

\* Steps that change nothing.
LEMMA StutterInv ==
    ASSUME Inv, UNCHANGED vars
    PROVE  Inv'
<1> USE DEF Inv, vars, apiVars, dbVars, engineVars, faultVars
<1>1. TypeOK' /\ CopiesOK'
    BY DEF TypeOK, CopiesOK, Copies, Unsent
<1>2. StagesOK' /\ StreamOK' /\ RowsOK'
    BY DEF StagesOK, StreamOK, RowsOK
<1>3. MessagesOK' /\ ResultsOK'
    BY DEF MessagesOK, ResultsOK, Claims, Effective, Refused
<1>4. TakesOK' /\ KeptOnce' /\ LedgerOK'
    BY DEF TakesOK, KeptOnce, Kept, Effective, LedgerOK, Leaked, OwnHold
<1>5. FanoutOK' /\ FundedEverywhere'
    BY DEF FanoutOK, FundedEverywhere
<1> QED
    BY <1>1, <1>2, <1>3, <1>4, <1>5

\* The invariant is inductive.
LEMMA InvAlways == Spec => []Inv
<1>1. Inv /\ [Next]_vars => Inv'
    <2>1. ASSUME Inv, Next PROVE Inv'
        BY <2>1, TypeStep, StreamStep, StagesStep, MessagesStep, ResultsStep, RowsStep, ClaimsStay,
           FanoutStep DEF Inv
    <2> QED
        BY <2>1, StutterInv
<1> QED
    BY <1>1, InitInv, PTL DEF Spec

\* Every variable keeps its type, and appendCommand puts no command into the
\* stream more often than it may try.
THEOREM RpcTypeCorrect == Spec => []TypeOK
<1>1. Inv => TypeOK
    BY DEF Inv
<1> QED
    BY <1>1, InvAlways, PTL

\* What awaitResponse hands to a client is true, whatever else is published on
\* its channel, however often a command is appended, executed or redelivered.
THEOREM AnswersAreTrue == Spec => []AnswersTrue
<1>1. ASSUME Inv, NEW r \in Requests, result[r] = "ok"
      PROVE  CASE work[r].type = "CREATE_EVENT" -> work[r].event \in rows \cap markets
               [] work[r].type = "CREATE_ORDER" -> orders[work[r].order] # "none"
               [] work[r].type = "CANCEL_ORDER" -> orders[work[r].order] = "canceled"
    <2>1. Effective(r)
        BY <1>1 DEF Inv, ResultsOK
    <2>2. work[r].type = "CREATE_EVENT" => work[r].event \in rows
        BY <1>1 DEF Inv, RowsOK
    <2>3. CASE work[r].type = "CREATE_EVENT"
        BY <2>1, <2>2, <2>3 DEF Effective
    <2>4. CASE work[r].type = "CREATE_ORDER"
        BY <2>1, <2>4 DEF Effective
    <2>5. CASE work[r].type = "CANCEL_ORDER"
        BY <2>1, <2>5 DEF Effective
    <2> QED
        BY <2>1, <2>3, <2>4, <2>5 DEF Effective
<1>2. ASSUME Inv, NEW r \in Requests, result[r] = "refused", runs[r] = 1, takes[r] # 0
      PROVE  takes[r] = leaks[r] /\ holds[work[r].order] > 0
    <2>1. runs[r] > takes[r] \/ leaks[r] > 0
        BY <1>2 DEF Inv, ResultsOK, Refused
    <2>2. /\ runs[r] \in Nat /\ takes[r] \in Nat /\ leaks[r] \in Nat
          /\ runs[r] >= takes[r] /\ takes[r] >= leaks[r]
        BY <1>2 DEF Inv, TypeOK, TakesOK
    <2>3. takes[r] = leaks[r] /\ leaks[r] > 0
        BY <1>2, <2>1, <2>2
    <2>4. work[r].order \in Orders /\ Leaked(work[r].order)
        BY <1>2, <2>3, WorkTypes DEF Inv, TypeOK, Leaked
    <2>5. holds[work[r].order] > OwnHold(work[r].order) /\ holds[work[r].order] \in Int
        BY <1>2, <2>4 DEF Inv, LedgerOK, TypeOK
    <2>6. OwnHold(work[r].order) \in {0, 1}
        BY DEF OwnHold
    <2> QED
        BY <2>3, <2>5, <2>6
<1>3. Inv => AnswersTrue
    BY <1>1, <1>2 DEF AnswersTrue
<1> QED
    BY <1>3, InvAlways, PTL

\* Retried appends and redelivered entries are safe as long as the order can be
\* announced: it is created once and canceled once, and its reservation is
\* there while it is open and gone afterwards. An order that was forgotten
\* leaves a reservation behind for good.
THEOREM CommandsTakenOnce == Spec => []TakenOnce
<1>1. Inv => TakenOnce
    <2> SUFFICES ASSUME Inv PROVE TakenOnce
        OBVIOUS
    <2>1. /\ KeptOnce
          /\ \A o \in Orders : IF Leaked(o) THEN holds[o] > OwnHold(o) ELSE holds[o] = OwnHold(o)
        BY DEF Inv, LedgerOK
    <2> QED
        BY <2>1 DEF KeptOnce, TakenOnce, Leaked, OwnHold
<1> QED
    BY <1>1, InvAlways, PTL

\* CreateEvent leaves Postgres and the engine in agreement unless its client
\* was never answered: no other request's rollback takes its row away.
THEOREM EventsInAgreement == Spec => []EventsAgree
<1>1. ASSUME Inv, NEW r \in Requests, work[r].type = "CREATE_EVENT", pc[r] = "done",
             result[r] # "error"
      PROVE  work[r].event \in rows /\ work[r].event \in markets
    <2>1. result[r] = "ok"
        BY <1>1 DEF Inv, StagesOK
    <2> QED
        BY <1>1, <2>1 DEF Inv, RowsOK, ResultsOK, Effective
<1>2. Inv => EventsAgree
    BY <1>1 DEF EventsAgree
<1> QED
    BY <1>2, InvAlways, PTL

\* Signup's fan-out reaches every partition unless an append of it failed.
THEOREM UsersFundedEverywhere == Spec => []FundedEverywhere
<1>1. Inv => FundedEverywhere
    BY DEF Inv
<1> QED
    BY <1>1, InvAlways, PTL
====
