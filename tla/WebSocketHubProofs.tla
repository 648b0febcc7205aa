------------------------- MODULE WebSocketHubProofs -------------------------
(***************************************************************************)
(* WebSocketHub proved for any clients, events, buffer size and updates:   *)
(* a client's channel is closed once, and a client that is not closed      *)
(* misses no update. The invariants say which goroutines can be inside     *)
(* close(), and what the hub has of a client before it is connected.       *)
(***************************************************************************)
EXTENDS WebSocketHub, DataTheorems

\* The goroutine that is between the two steps of close() for client c: its
\* ReadPump, its WritePump or the subscriber.
ReaderIn(c) == reader[c] = "closeSend"
WriterIn(c) == writer[c] = "closeSend"
SubscriberIn(c) == sending = "closeSend" /\ Head(targets) = c

\* The subscriber has still to send to client c.
Awaited(c) == \E i \in DOMAIN targets : targets[i] = c

\* close() goes past the flag once: one goroutine is in it, or was.
CloseOK ==
    \A c \in Clients :
        /\ ~closed[c] => closings[c] = 0 /\ ~ReaderIn(c) /\ ~WriterIn(c) /\ ~SubscriberIn(c)
        /\ closings[c] > 0 => ~ReaderIn(c) /\ ~WriterIn(c) /\ ~SubscriberIn(c)
        /\ ~(ReaderIn(c) /\ WriterIn(c))
        /\ ~(ReaderIn(c) /\ SubscriberIn(c))
        /\ ~(WriterIn(c) /\ SubscriberIn(c))

\* The subscriber's copy has every client once, and there is an update to send.
TargetsOK ==
    /\ \A i, j \in DOMAIN targets : targets[i] = targets[j] => i = j
    /\ targets # << >> => received > 0
    /\ sending \in Closing => targets # << >>

\* Nobody knows a client before its connection is handled.
FreshOK ==
    \A c \in Clients : reader[c] = "none" =>
        /\ writer[c] = "none" /\ owed[c] = << >> /\ buffer[c] = << >> /\ ~Awaited(c)
        /\ \A e \in Events : c \notin subscriptions[e]

\* The inductive invariant.
Inv == TypeOK /\ CloseOK /\ ClosedOnce /\ TargetsOK /\ FreshOK /\ NoGaps

-----------------------------------------------------------------------------
(* Lemmas about the parts of the state                                     *)

\* The copy that BroadcastEvent makes has exactly the clients of the event.
LEMMA TargetsProperties ==
    ASSUME TypeOK, NEW e \in Events, NEW t \in Targets(e)
    PROVE  /\ t \in Seq(Clients)
           /\ \A i, j \in DOMAIN t : t[i] = t[j] => i = j
           /\ \A c \in Clients : (\E i \in DOMAIN t : t[i] = c) <=> c \in subscriptions[e]
<1> DEFINE S == subscriptions[e]
           n == Cardinality(S)
<1>1. S \subseteq Clients /\ IsFiniteSet(S)
    BY HubAssumption, FS_Subset DEF TypeOK
<1>2. n \in Nat
    BY <1>1, FS_CardinalityType
<1>3. t \in [1 .. n -> S] /\ \A i, j \in 1 .. n : t[i] = t[j] => i = j
    BY DEF Targets
<1> HIDE DEF n, S
<1>4. IsFiniteSet(1 .. n) /\ Cardinality(1 .. n) = n
    <2>1. Cardinality(1 .. n) = IF 1 > n THEN 0 ELSE n - 1 + 1
        BY <1>2, FS_Interval
    <2> QED
        BY <1>2, <2>1, FS_Interval
<1>5. t \in Injection(1 .. n, S)
    BY <1>3 DEF Injection, IsInjective
<1>6. t \in Surjection(1 .. n, S)
    BY <1>1, <1>4, <1>5, FS_Injection DEF n
<1>7. \A c \in S : \E i \in 1 .. n : t[i] = c
    BY <1>6 DEF Surjection
<1>8. t \in Seq(Clients)
    BY <1>1, <1>2, <1>3
<1> QED
    BY <1>1, <1>3, <1>7, <1>8 DEF S

\* The first of a copy is gone from the rest, and nobody else is.
LEMMA TailTargets ==
    ASSUME NEW s \in Seq(Clients), s # << >>, \A i, j \in DOMAIN s : s[i] = s[j] => i = j
    PROVE  /\ Head(s) \in Clients /\ Tail(s) \in Seq(Clients)
           /\ \A i, j \in DOMAIN Tail(s) : Tail(s)[i] = Tail(s)[j] => i = j
           /\ \A c \in Clients : (\E i \in DOMAIN Tail(s) : Tail(s)[i] = c)
                                   <=> (c # Head(s) /\ \E i \in DOMAIN s : s[i] = c)
           /\ \E i \in DOMAIN s : s[i] = Head(s)
<1>1. /\ Len(s) \in Nat \ {0} /\ DOMAIN s = 1 .. Len(s)
      /\ Head(s) = s[1] /\ Tail(s) \in Seq(Clients) /\ Head(s) \in Clients
      /\ DOMAIN Tail(s) = 1 .. Len(s) - 1
      /\ \A i \in 1 .. Len(s) - 1 : Tail(s)[i] = s[i + 1]
    BY HeadTailProperties, LenProperties, EmptySeq
<1>2. ASSUME NEW i \in DOMAIN Tail(s), NEW j \in DOMAIN Tail(s), Tail(s)[i] = Tail(s)[j]
      PROVE  i = j
    <2>1. i + 1 \in DOMAIN s /\ j + 1 \in DOMAIN s /\ s[i + 1] = s[j + 1]
        BY <1>1, <1>2
    <2>2. i + 1 = j + 1
        BY <2>1
    <2> QED
        BY <1>1, <2>2
<1>3. ASSUME NEW c \in Clients, NEW i \in DOMAIN Tail(s), Tail(s)[i] = c
      PROVE  c # Head(s) /\ \E j \in DOMAIN s : s[j] = c
    <2>1. i + 1 \in DOMAIN s /\ s[i + 1] = c /\ 1 \in DOMAIN s /\ i + 1 # 1
        BY <1>1, <1>3
    <2> QED
        BY <1>1, <2>1
<1>4. ASSUME NEW c \in Clients, c # Head(s), NEW i \in DOMAIN s, s[i] = c
      PROVE  \E j \in DOMAIN Tail(s) : Tail(s)[j] = c
    <2>1. i # 1
        BY <1>1, <1>4
    <2>2. i - 1 \in DOMAIN Tail(s) /\ Tail(s)[i - 1] = s[(i - 1) + 1] /\ (i - 1) + 1 = i
        BY <1>1, <2>1
    <2> QED
        BY <1>4, <2>2
<1>5. 1 \in DOMAIN s
    BY <1>1
<1> QED
    BY <1>1, <1>2, <1>3, <1>4, <1>5

\* The initial states.
LEMMA InitInv ==
    ASSUME Init
    PROVE  Inv
<1>1. TypeOK
    <2>1. buffer \in [Clients -> Seq(0 .. MaxMessages)] /\ \A c \in Clients : Len(buffer[c]) <= BufferSize
        BY HubAssumption, EmptySeq DEF Init
    <2>2. owed \in [Clients -> Seq(1 .. MaxMessages)] /\ targets \in Seq(Clients)
        BY EmptySeq DEF Init
    <2>3. received \in 0 .. MaxMessages
        BY HubAssumption DEF Init
    <2> QED
        BY <2>1, <2>2, <2>3 DEF Init, TypeOK
<1>2. CloseOK /\ ClosedOnce
    BY DEF Init, CloseOK, ClosedOnce, ReaderIn, WriterIn, SubscriberIn
<1>3. TargetsOK /\ FreshOK /\ NoGaps
    BY DEF Init, TargetsOK, FreshOK, NoGaps, Awaited, Closing
<1> QED
    BY <1>1, <1>2, <1>3 DEF Inv

-----------------------------------------------------------------------------
(* Types                                                                   *)

\* A message that is sent finds its place in a bounded buffer.
LEMMA SendTypes ==
    ASSUME TypeOK, NEW c \in Clients, NEW m \in 0 .. MaxMessages,
           \/ buffer' = buffer
           \/ Len(buffer[c]) < BufferSize /\ buffer' = [buffer EXCEPT ![c] = Append(@, m)]
           \/ buffer' = [buffer EXCEPT ![c] = << >>]
           \/ buffer[c] # << >> /\ buffer' = [buffer EXCEPT ![c] = Tail(@)]
    PROVE  /\ buffer' \in [Clients -> Seq(0 .. MaxMessages)]
           /\ \A d \in Clients : Len(buffer'[d]) <= BufferSize
<1>1. /\ buffer \in [Clients -> Seq(0 .. MaxMessages)]
      /\ \A d \in Clients : Len(buffer[d]) <= BufferSize /\ Len(buffer[d]) \in Nat
      /\ BufferSize \in Nat
    BY HubAssumption, LenProperties DEF TypeOK
<1>2. buffer[c] \in Seq(0 .. MaxMessages)
    BY <1>1
<1>3. CASE buffer' = buffer
    BY <1>1, <1>3
<1>4. CASE Len(buffer[c]) < BufferSize /\ buffer' = [buffer EXCEPT ![c] = Append(@, m)]
    <2>1. Append(buffer[c], m) \in Seq(0 .. MaxMessages) /\ Len(Append(buffer[c], m)) = Len(buffer[c]) + 1
        BY <1>2, AppendProperties
    <2> QED
        BY <1>1, <1>4, <2>1
<1>5. CASE buffer' = [buffer EXCEPT ![c] = << >>]
    <2>1. << >> \in Seq(0 .. MaxMessages) /\ Len(<< >>) = 0
        BY EmptySeq
    <2> QED
        BY <1>1, <1>5, <2>1
<1>6. CASE buffer[c] # << >> /\ buffer' = [buffer EXCEPT ![c] = Tail(@)]
    <2>1. Tail(buffer[c]) \in Seq(0 .. MaxMessages) /\ Len(Tail(buffer[c])) = Len(buffer[c]) - 1
        BY <1>2, <1>6, HeadTailProperties
    <2>2. Len(buffer[c]) \in Nat /\ Len(buffer[c]) <= BufferSize
        BY <1>1
    <2>3. Len(Tail(buffer[c])) <= BufferSize
        BY <1>1, <2>1, <2>2
    <2> QED
        BY <1>1, <1>6, <2>1, <2>3
<1> QED
    BY <1>3, <1>4, <1>5, <1>6

\* A step of close() on the variables it changes.
LEMMA CloseTypes ==
    ASSUME TypeOK, NEW c \in Clients, NEW stage \in Closing, CloseStep(c, stage)
    PROVE  /\ closed' \in [Clients -> BOOLEAN]
           /\ closings' \in [Clients -> Nat]
           /\ connected' \subseteq Clients
           /\ buffer' \in [Clients -> Seq(0 .. MaxMessages)]
           /\ \A d \in Clients : Len(buffer'[d]) <= BufferSize
           /\ owed' \in [Clients -> Seq(1 .. MaxMessages)]
<1>1. /\ closed \in [Clients -> BOOLEAN] /\ closings \in [Clients -> Nat] /\ connected \subseteq Clients
      /\ owed \in [Clients -> Seq(1 .. MaxMessages)]
    BY DEF TypeOK
<1>2. buffer' = buffer \/ buffer' = [buffer EXCEPT ![c] = << >>]
    BY DEF CloseStep
<1>3. 0 \in 0 .. MaxMessages
    BY HubAssumption
<1>4. /\ buffer' \in [Clients -> Seq(0 .. MaxMessages)]
      /\ \A d \in Clients : Len(buffer'[d]) <= BufferSize
    BY <1>2, <1>3, SendTypes
<1>5. owed' \in [Clients -> Seq(1 .. MaxMessages)]
    <2>1. owed' = [owed EXCEPT ![c] = << >>] /\ << >> \in Seq(1 .. MaxMessages)
        BY EmptySeq DEF CloseStep
    <2> QED
        BY <1>1, <2>1
<1>6. closings' = closings \/ closings' = [closings EXCEPT ![c] = @ + 1]
    BY DEF CloseStep
<1>7. closed' = closed \/ closed' = [closed EXCEPT ![c] = TRUE]
    BY DEF CloseStep
<1>8. connected' \subseteq Clients
    BY <1>1 DEF CloseStep
<1>9. closings' \in [Clients -> Nat]
    BY <1>1, <1>6
<1>10. closed' \in [Clients -> BOOLEAN]
    BY <1>1, <1>7
<1> QED
    BY <1>4, <1>5, <1>8, <1>9, <1>10

\* Types after any step.
LEMMA TypeStep ==
    ASSUME Inv, Next
    PROVE  TypeOK'
<1> USE DEF Inv
<1>1. /\ clients \subseteq Clients /\ subscriptions \in [Events -> SUBSET Clients]
      /\ closed \in [Clients -> BOOLEAN] /\ closings \in [Clients -> Nat] /\ connected \subseteq Clients
      /\ buffer \in [Clients -> Seq(0 .. MaxMessages)]
      /\ \A c \in Clients : Len(buffer[c]) <= BufferSize
      /\ reader \in [Clients -> {"none", "read", "done"} \cup Closing]
      /\ writer \in [Clients -> {"none", "write", "done"} \cup Closing]
      /\ targets \in Seq(Clients) /\ sending \in {"send"} \cup Closing
      /\ received \in 0 .. MaxMessages /\ owed \in [Clients -> Seq(1 .. MaxMessages)]
      /\ panicked \in BOOLEAN /\ MaxMessages \in Nat
    BY HubAssumption DEF TypeOK
<1>2. 0 \in 0 .. MaxMessages /\ Error \in 0 .. MaxMessages
    BY <1>1 DEF Error
<1>3. ASSUME NEW e \in Events, Broadcast(e) PROVE TypeOK'
    <2>1. targets' \in Seq(Clients)
        BY <1>3, TargetsProperties DEF Broadcast
    <2>2. received' \in 1 .. MaxMessages
        BY <1>1, <1>3 DEF Broadcast
    <2>3. ASSUME NEW c \in Clients PROVE owed'[c] \in Seq(1 .. MaxMessages)
        <3>1. owed[c] \in Seq(1 .. MaxMessages)
            BY <1>1
        <3>2. Append(owed[c], received') \in Seq(1 .. MaxMessages)
            BY <2>2, <3>1, AppendProperties
        <3> QED
            BY <1>3, <3>1, <3>2 DEF Broadcast
    <2>4. owed' \in [Clients -> Seq(1 .. MaxMessages)]
        BY <1>3, <2>3 DEF Broadcast
    <2>5. received' \in 0 .. MaxMessages
        BY <2>2
    <2> QED
        BY <1>1, <1>3, <2>1, <2>4, <2>5 DEF Broadcast, TypeOK, hubVars
<1>4. ASSUME SendNext PROVE TypeOK'
    <2>1. Head(targets) \in Clients /\ Tail(targets) \in Seq(Clients)
        BY <1>1, <1>4, HeadTailProperties DEF SendNext
    <2>2. /\ buffer' \in [Clients -> Seq(0 .. MaxMessages)]
          /\ \A d \in Clients : Len(buffer'[d]) <= BufferSize
        <3>1. \/ buffer' = buffer
              \/ /\ Len(buffer[Head(targets)]) < BufferSize
                 /\ buffer' = [buffer EXCEPT ![Head(targets)] = Append(@, received)]
            BY <1>4 DEF SendNext, Send
        <3> QED
            BY <1>1, <2>1, <3>1, SendTypes
    <2>3. /\ targets' \in {targets, Tail(targets)}
          /\ sending' \in {sending, "closeFlag"}
          /\ panicked' \in {panicked, TRUE}
          /\ UNCHANGED <<hubVars, closeVars, reader, writer, received>>
        BY <1>4 DEF SendNext, Send
    <2> QED
        BY <1>1, <2>1, <2>2, <2>3 DEF TypeOK, hubVars, closeVars, Closing
<1>5. ASSUME CloseSlow PROVE TypeOK'
    <2>1. targets # << >>
        BY <1>5 DEF CloseSlow, TargetsOK
    <2>2. Head(targets) \in Clients /\ Tail(targets) \in Seq(Clients)
        BY <1>1, <2>1, HeadTailProperties
    <2>3. CloseStep(Head(targets), sending) /\ sending \in Closing
        BY <1>5 DEF CloseSlow
    <2>4. /\ targets' \in {targets, Tail(targets)}
          /\ sending' \in {"send", "closeSend"}
          /\ UNCHANGED <<hubVars, reader, writer, received, panicked>>
        BY <1>5 DEF CloseSlow, AfterClose
    <2> QED
        BY <1>1, <2>2, <2>3, <2>4, CloseTypes DEF TypeOK, hubVars, Closing
<1>6. ASSUME NEW c \in Clients, Handle(c) PROVE TypeOK'
    BY <1>1, <1>6 DEF Handle, TypeOK, subscriberVars
<1>7. ASSUME NEW c \in Clients, NEW e \in Events, Subscribe(c, e) \/ Unsubscribe(c, e) PROVE TypeOK'
    <2>1. subscriptions[e] \cup {c} \in SUBSET Clients /\ subscriptions[e] \ {c} \in SUBSET Clients
        BY <1>1, <1>7
    <2>2. \/ subscriptions' = [subscriptions EXCEPT ![e] = subscriptions[e] \cup {c}]
          \/ subscriptions' = [subscriptions EXCEPT ![e] = subscriptions[e] \ {c}]
        BY <1>7 DEF Subscribe, Unsubscribe
    <2>3. subscriptions' \in [Events -> SUBSET Clients]
        BY <1>1, <2>1, <2>2
    <2> QED
        BY <1>1, <1>7, <2>3 DEF Subscribe, Unsubscribe, TypeOK, closeVars, subscriberVars
<1>8. ASSUME NEW c \in Clients, SendError(c) PROVE TypeOK'
    <2>1. /\ buffer' \in [Clients -> Seq(0 .. MaxMessages)]
          /\ \A d \in Clients : Len(buffer'[d]) <= BufferSize
        <3>1. \/ buffer' = buffer
              \/ Len(buffer[c]) < BufferSize /\ buffer' = [buffer EXCEPT ![c] = Append(@, Error)]
            BY <1>8 DEF SendError, Send
        <3> QED
            BY <1>2, <3>1, SendTypes
    <2>2. /\ reader' \in {reader, [reader EXCEPT ![c] = "closeFlag"]}
          /\ panicked' \in {panicked, TRUE}
          /\ UNCHANGED <<hubVars, closeVars, writer, subscriberVars>>
        BY <1>8 DEF SendError, Send
    <2> QED
        BY <1>1, <2>1, <2>2 DEF TypeOK, hubVars, closeVars, subscriberVars, Closing
<1>9. ASSUME NEW c \in Clients, Unregister(c) PROVE TypeOK'
    <2>1. subscriptions' \in [Events -> SUBSET Clients]
        BY <1>1, <1>9 DEF Unregister
    <2> QED
        BY <1>1, <1>9, <2>1 DEF Unregister, TypeOK, closeVars, subscriberVars, Closing
<1>10. ASSUME NEW c \in Clients, ReaderCloses(c) PROVE TypeOK'
    <2>1. /\ CloseStep(c, reader[c]) /\ reader[c] \in Closing
          /\ reader' \in {[reader EXCEPT ![c] = s] : s \in {"read", "done", "closeSend"}}
          /\ UNCHANGED <<hubVars, writer, subscriberVars, panicked>>
        BY <1>10 DEF ReaderCloses, AfterClose
    <2>2. reader' \in [Clients -> {"none", "read", "done"} \cup Closing]
        BY <1>1, <2>1 DEF Closing
    <2> QED
        BY <1>1, <2>1, <2>2, CloseTypes DEF TypeOK, hubVars, subscriberVars
<1>11. ASSUME NEW c \in Clients, Write(c) PROVE TypeOK'
    <2>1. buffer[c] # << >> /\ buffer' = [buffer EXCEPT ![c] = Tail(@)]
        BY <1>11 DEF Write
    <2>2. /\ buffer' \in [Clients -> Seq(0 .. MaxMessages)]
          /\ \A d \in Clients : Len(buffer'[d]) <= BufferSize
        BY <1>2, <2>1, SendTypes
    <2>3. owed' \in [Clients -> Seq(1 .. MaxMessages)]
        <3>1. owed' = owed \/ (owed[c] # << >> /\ owed' = [owed EXCEPT ![c] = Tail(@)])
            BY <1>1, <1>11 DEF Write
        <3>2. owed[c] # << >> => Tail(owed[c]) \in Seq(1 .. MaxMessages)
            BY <1>1, HeadTailProperties
        <3> QED
            BY <1>1, <3>1, <3>2
    <2> QED
        BY <1>1, <1>11, <2>2, <2>3 DEF Write, TypeOK, hubVars, subscriberVars
<1>12. ASSUME NEW c \in Clients, WriteEnds(c) PROVE TypeOK'
    <2>1. /\ buffer' \in [Clients -> Seq(0 .. MaxMessages)]
          /\ \A d \in Clients : Len(buffer'[d]) <= BufferSize
        BY <1>2, <1>12, SendTypes DEF WriteEnds
    <2>2. writer' \in [Clients -> {"none", "write", "done"} \cup Closing]
        BY <1>1, <1>12 DEF WriteEnds, Closing
    <2> QED
        BY <1>1, <1>12, <2>1, <2>2 DEF WriteEnds, TypeOK, hubVars, closeVars, subscriberVars
<1>13. ASSUME NEW c \in Clients, WriterCloses(c) PROVE TypeOK'
    <2>1. /\ CloseStep(c, writer[c]) /\ writer[c] \in Closing
          /\ writer' \in {[writer EXCEPT ![c] = s] : s \in {"done", "closeSend"}}
          /\ UNCHANGED <<hubVars, reader, subscriberVars, panicked>>
        BY <1>13 DEF WriterCloses, AfterClose
    <2>2. writer' \in [Clients -> {"none", "write", "done"} \cup Closing]
        BY <1>1, <2>1 DEF Closing
    <2> QED
        BY <1>1, <2>1, <2>2, CloseTypes DEF TypeOK, hubVars, subscriberVars
<1> QED
    BY <1>3, <1>4, <1>5, <1>6, <1>7, <1>8, <1>9, <1>10, <1>11, <1>12, <1>13
       DEF Next, Subscriber, ReadPump, WritePump

-----------------------------------------------------------------------------
(* close()                                                                 *)

\* Who is in close() after a goroutine has taken a step of it: the flag lets
\* one through, and it leaves with the channel closed.
LEMMA CloseEffects ==
    ASSUME TypeOK, NEW c \in Clients, NEW stage \in Closing, CloseStep(c, stage)
    PROVE  /\ \A d \in Clients : d # c => closed'[d] = closed[d] /\ closings'[d] = closings[d]
           /\ closed[c] => closed'[c]
           /\ stage = "closeFlag" => closed'[c] /\ closings'[c] = closings[c]
           /\ stage = "closeSend" => closings'[c] = closings[c] + 1
<1>1. closed \in [Clients -> BOOLEAN] /\ closings \in [Clients -> Nat]
    BY DEF TypeOK
<1>2. CASE stage = "closeFlag"
    BY <1>1, <1>2 DEF CloseStep
<1>3. CASE stage = "closeSend"
    BY <1>1, <1>3 DEF CloseStep
<1> QED
    BY <1>2, <1>3 DEF Closing

\* The channel is closed once, after any step.
LEMMA CloseStepOK ==
    ASSUME Inv, Next
    PROVE  CloseOK' /\ ClosedOnce'
<1> USE DEF Inv
<1>1. /\ closed \in [Clients -> BOOLEAN] /\ closings \in [Clients -> Nat]
      /\ reader \in [Clients -> {"none", "read", "done"} \cup Closing]
      /\ writer \in [Clients -> {"none", "write", "done"} \cup Closing]
      /\ targets \in Seq(Clients)
    BY DEF TypeOK
<1>2. ASSUME UNCHANGED <<closed, closings>>,
             \A c \in Clients : /\ ReaderIn(c)' => ReaderIn(c)
                                /\ WriterIn(c)' => WriterIn(c)
                                /\ SubscriberIn(c)' => SubscriberIn(c)
      PROVE  CloseOK' /\ ClosedOnce'
    BY <1>2 DEF CloseOK, ClosedOnce
<1>3. ASSUME NEW c \in Clients,
             Handle(c) \/ SendError(c) \/ Unregister(c) \/ Write(c) \/ WriteEnds(c)
      PROVE  CloseOK' /\ ClosedOnce'
    <2>1. UNCHANGED <<closed, closings, sending, targets>>
        BY <1>3 DEF Handle, SendError, Unregister, Write, WriteEnds, closeVars, subscriberVars
    <2>2. \A d \in Clients : (ReaderIn(d)' => ReaderIn(d)) /\ (WriterIn(d)' => WriterIn(d))
        BY <1>1, <1>3 DEF Handle, SendError, Send, Unregister, Write, WriteEnds, ReaderIn, WriterIn
    <2>3. \A d \in Clients : SubscriberIn(d)' => SubscriberIn(d)
        BY <2>1 DEF SubscriberIn
    <2> QED
        BY <1>2, <2>1, <2>2, <2>3
<1>4. ASSUME NEW c \in Clients, NEW e \in Events, Subscribe(c, e) \/ Unsubscribe(c, e)
      PROVE  CloseOK' /\ ClosedOnce'
    BY <1>2, <1>4 DEF Subscribe, Unsubscribe, closeVars, subscriberVars, ReaderIn, WriterIn, SubscriberIn
<1>5. ASSUME NEW e \in Events, Broadcast(e)
      PROVE  CloseOK' /\ ClosedOnce'
    <2>1. sending = "send"
        BY <1>5 DEF Broadcast, TargetsOK, TypeOK
    <2> QED
        BY <1>2, <1>5, <2>1 DEF Broadcast, ReaderIn, WriterIn, SubscriberIn
<1>6. ASSUME SendNext
      PROVE  CloseOK' /\ ClosedOnce'
    <2>1. sending = "send" /\ sending' \in {"send", "closeFlag"}
        BY <1>6 DEF SendNext, Send
    <2> QED
        BY <1>2, <1>6, <2>1 DEF SendNext, closeVars, ReaderIn, WriterIn, SubscriberIn
<1>7. ASSUME CloseSlow
      PROVE  CloseOK' /\ ClosedOnce'
    <2> DEFINE c == Head(targets)
    <2>1. targets # << >>
        BY <1>7 DEF CloseSlow, TargetsOK
    <2>2. c \in Clients
        BY <1>1, <2>1, HeadTailProperties
    <2>3. /\ CloseStep(c, sending) /\ sending \in Closing
          /\ sending' = AfterClose(c, sending, "send")
          /\ targets' = IF sending' = "send" THEN Tail(targets) ELSE targets
          /\ UNCHANGED <<reader, writer>>
        BY <1>7 DEF CloseSlow
    <2> HIDE DEF c
    <2>4. /\ \A d \in Clients : d # c => closed'[d] = closed[d] /\ closings'[d] = closings[d]
          /\ closed[c] => closed'[c]
          /\ sending = "closeFlag" => closed'[c] /\ closings'[c] = closings[c]
          /\ sending = "closeSend" => closings'[c] = closings[c] + 1
        BY <2>2, <2>3, CloseEffects
    <2>5. \A d \in Clients : (ReaderIn(d)' <=> ReaderIn(d)) /\ (WriterIn(d)' <=> WriterIn(d))
        BY <2>3 DEF ReaderIn, WriterIn
    <2>6. CASE sending = "closeFlag" /\ ~closed[c]
        <3>1. sending' = "closeSend" /\ targets' = targets
            BY <2>3, <2>6 DEF AfterClose
        <3>2. \A d \in Clients : SubscriberIn(d)' <=> d = c
            BY <3>1 DEF SubscriberIn, c
        <3>3. \A d \in Clients : ~SubscriberIn(d)
            BY <2>6 DEF SubscriberIn
        <3>4. closings[c] = 0 /\ closings'[c] = 0 /\ closed'[c] /\ ~ReaderIn(c) /\ ~WriterIn(c)
            BY <2>2, <2>4, <2>6 DEF CloseOK
        <3> QED
            BY <2>2, <2>4, <2>5, <3>2, <3>3, <3>4 DEF CloseOK, ClosedOnce
    <2>7. CASE sending = "closeFlag" /\ closed[c]
        <3>1. sending' = "send"
            BY <2>3, <2>7 DEF AfterClose
        <3>2. \A d \in Clients : ~SubscriberIn(d)'
            BY <3>1 DEF SubscriberIn
        <3>3. closings'[c] = closings[c] /\ closed'[c]
            BY <2>4, <2>7
        <3> QED
            BY <2>2, <2>4, <2>5, <2>7, <3>2, <3>3 DEF CloseOK, ClosedOnce
    <2>8. CASE sending = "closeSend"
        <3>1. sending' = "send"
            BY <2>3, <2>8 DEF AfterClose
        <3>2. \A d \in Clients : ~SubscriberIn(d)'
            BY <3>1 DEF SubscriberIn
        <3>3. SubscriberIn(c)
            BY <2>8 DEF SubscriberIn, c
        <3>4. closed[c] /\ closings[c] = 0 /\ ~ReaderIn(c) /\ ~WriterIn(c)
            BY <1>1, <2>2, <3>3 DEF CloseOK
        <3>5. closings'[c] = 1 /\ closed'[c]
            BY <2>4, <2>8, <3>4
        <3> QED
            BY <2>2, <2>4, <2>5, <3>2, <3>4, <3>5 DEF CloseOK, ClosedOnce
    <2> QED
        BY <2>3, <2>6, <2>7, <2>8 DEF Closing
<1>8. ASSUME NEW c \in Clients, ReaderCloses(c)
      PROVE  CloseOK' /\ ClosedOnce'
    <2>1. /\ CloseStep(c, reader[c]) /\ reader[c] \in Closing
          /\ \A d \in Clients : d # c => reader'[d] = reader[d]
          /\ reader'[c] = AfterClose(c, reader[c], IF c \in clients THEN "read" ELSE "done")
          /\ UNCHANGED <<writer, targets, sending>>
        BY <1>1, <1>8 DEF ReaderCloses, subscriberVars
    <2>2. /\ \A d \in Clients : d # c => closed'[d] = closed[d] /\ closings'[d] = closings[d]
          /\ closed[c] => closed'[c]
          /\ reader[c] = "closeFlag" => closed'[c] /\ closings'[c] = closings[c]
          /\ reader[c] = "closeSend" => closings'[c] = closings[c] + 1
        BY <2>1, CloseEffects
    <2>3. /\ \A d \in Clients : (WriterIn(d)' <=> WriterIn(d)) /\ (SubscriberIn(d)' <=> SubscriberIn(d))
          /\ \A d \in Clients : d # c => (ReaderIn(d)' <=> ReaderIn(d))
          /\ ReaderIn(c)' <=> (reader[c] = "closeFlag" /\ ~closed[c])
        BY <2>1 DEF ReaderIn, WriterIn, SubscriberIn, AfterClose
    <2>4. CASE reader[c] = "closeFlag" /\ ~closed[c]
        <3>1. closings[c] = 0 /\ closings'[c] = 0 /\ closed'[c] /\ ~WriterIn(c) /\ ~SubscriberIn(c)
            BY <2>2, <2>4 DEF CloseOK
        <3> QED
            BY <2>2, <2>3, <2>4, <3>1 DEF CloseOK, ClosedOnce
    <2>5. CASE reader[c] = "closeFlag" /\ closed[c]
        <3>1. closings'[c] = closings[c] /\ closed'[c] /\ ~ReaderIn(c)'
            BY <2>2, <2>3, <2>5
        <3> QED
            BY <2>2, <2>3, <2>5, <3>1 DEF CloseOK, ClosedOnce
    <2>6. CASE reader[c] = "closeSend"
        <3>1. ReaderIn(c)
            BY <2>6 DEF ReaderIn
        <3>2. closed[c] /\ closings[c] = 0 /\ ~WriterIn(c) /\ ~SubscriberIn(c)
            BY <1>1, <3>1 DEF CloseOK
        <3>3. closings'[c] = 1 /\ closed'[c] /\ ~ReaderIn(c)'
            BY <2>2, <2>3, <2>6, <3>2
        <3> QED
            BY <2>2, <2>3, <3>2, <3>3 DEF CloseOK, ClosedOnce
    <2> QED
        BY <2>1, <2>4, <2>5, <2>6 DEF Closing
<1>9. ASSUME NEW c \in Clients, WriterCloses(c)
      PROVE  CloseOK' /\ ClosedOnce'
    <2>1. /\ CloseStep(c, writer[c]) /\ writer[c] \in Closing
          /\ \A d \in Clients : d # c => writer'[d] = writer[d]
          /\ writer'[c] = AfterClose(c, writer[c], "done")
          /\ UNCHANGED <<reader, targets, sending>>
        BY <1>1, <1>9 DEF WriterCloses, subscriberVars
    <2>2. /\ \A d \in Clients : d # c => closed'[d] = closed[d] /\ closings'[d] = closings[d]
          /\ closed[c] => closed'[c]
          /\ writer[c] = "closeFlag" => closed'[c] /\ closings'[c] = closings[c]
          /\ writer[c] = "closeSend" => closings'[c] = closings[c] + 1
        BY <2>1, CloseEffects
    <2>3. /\ \A d \in Clients : (ReaderIn(d)' <=> ReaderIn(d)) /\ (SubscriberIn(d)' <=> SubscriberIn(d))
          /\ \A d \in Clients : d # c => (WriterIn(d)' <=> WriterIn(d))
          /\ WriterIn(c)' <=> (writer[c] = "closeFlag" /\ ~closed[c])
        BY <2>1 DEF ReaderIn, WriterIn, SubscriberIn, AfterClose
    <2>4. CASE writer[c] = "closeFlag" /\ ~closed[c]
        <3>1. closings[c] = 0 /\ closings'[c] = 0 /\ closed'[c] /\ ~ReaderIn(c) /\ ~SubscriberIn(c)
            BY <2>2, <2>4 DEF CloseOK
        <3> QED
            BY <2>2, <2>3, <2>4, <3>1 DEF CloseOK, ClosedOnce
    <2>5. CASE writer[c] = "closeFlag" /\ closed[c]
        <3>1. closings'[c] = closings[c] /\ closed'[c] /\ ~WriterIn(c)'
            BY <2>2, <2>3, <2>5
        <3> QED
            BY <2>2, <2>3, <2>5, <3>1 DEF CloseOK, ClosedOnce
    <2>6. CASE writer[c] = "closeSend"
        <3>1. WriterIn(c)
            BY <2>6 DEF WriterIn
        <3>2. closed[c] /\ closings[c] = 0 /\ ~ReaderIn(c) /\ ~SubscriberIn(c)
            BY <1>1, <3>1 DEF CloseOK
        <3>3. closings'[c] = 1 /\ closed'[c] /\ ~WriterIn(c)'
            BY <2>2, <2>3, <2>6, <3>2
        <3> QED
            BY <2>2, <2>3, <3>2, <3>3 DEF CloseOK, ClosedOnce
    <2> QED
        BY <2>1, <2>4, <2>5, <2>6 DEF Closing
<1> QED
    BY <1>3, <1>4, <1>5, <1>6, <1>7, <1>8, <1>9 DEF Next, Subscriber, ReadPump, WritePump

-----------------------------------------------------------------------------
(* Targets and clients before their connection                             *)

\* The subscriber's copy, after any step.
LEMMA TargetsStep ==
    ASSUME Inv, Next
    PROVE  TargetsOK'
<1> USE DEF Inv
<1>1. targets \in Seq(Clients) /\ received \in Nat /\ sending \in {"send"} \cup Closing
    BY HubAssumption DEF TypeOK
<1>2. ASSUME UNCHANGED <<targets, received, sending>> PROVE TargetsOK'
    BY <1>2 DEF TargetsOK
<1>3. ASSUME NEW e \in Events, Broadcast(e) PROVE TargetsOK'
    <2>1. /\ \A i, j \in DOMAIN targets' : targets'[i] = targets'[j] => i = j
          /\ received' = received + 1 /\ sending' = sending
          /\ targets = << >>
        BY <1>3, TargetsProperties DEF Broadcast
    <2> QED
        BY <1>1, <2>1 DEF TargetsOK
<1>4. ASSUME SendNext PROVE TargetsOK'
    <2>1. /\ targets # << >> /\ received' = received /\ sending = "send"
          /\ \/ targets' = Tail(targets) /\ sending' = sending
             \/ targets' = targets /\ sending' = "closeFlag"
        BY <1>4 DEF SendNext, Send
    <2>2. \A i, j \in DOMAIN Tail(targets) : Tail(targets)[i] = Tail(targets)[j] => i = j
        BY <1>1, <2>1, TailTargets DEF TargetsOK
    <2>3. \A i, j \in DOMAIN targets : targets[i] = targets[j] => i = j
        BY DEF TargetsOK
    <2>4. received > 0
        BY <2>1 DEF TargetsOK
    <2>5. \A i, j \in DOMAIN targets' : targets'[i] = targets'[j] => i = j
        BY <2>1, <2>2, <2>3
    <2>6. sending' \in Closing => targets' # << >>
        BY <2>1 DEF Closing
    <2> QED
        BY <2>1, <2>4, <2>5, <2>6 DEF TargetsOK
<1>5. ASSUME CloseSlow PROVE TargetsOK'
    <2>1. targets # << >> /\ received' = received
        BY <1>5 DEF CloseSlow, TargetsOK
    <2>2. \/ targets' = Tail(targets) /\ sending' = "send"
          \/ targets' = targets
        BY <1>5 DEF CloseSlow
    <2>3. \A i, j \in DOMAIN Tail(targets) : Tail(targets)[i] = Tail(targets)[j] => i = j
        BY <1>1, <2>1, TailTargets DEF TargetsOK
    <2>4. \A i, j \in DOMAIN targets : targets[i] = targets[j] => i = j
        BY DEF TargetsOK
    <2>5. received > 0
        BY <2>1 DEF TargetsOK
    <2>6. \A i, j \in DOMAIN targets' : targets'[i] = targets'[j] => i = j
        BY <2>2, <2>3, <2>4
    <2>7. sending' \in Closing => targets' # << >>
        BY <2>1, <2>2 DEF Closing
    <2> QED
        BY <2>1, <2>5, <2>6, <2>7 DEF TargetsOK
<1>6. ASSUME NEW c \in Clients, Handle(c) \/ ReadPump(c) \/ WritePump(c) PROVE TargetsOK'
    <2>1. UNCHANGED <<targets, received, sending>>
        BY <1>6 DEF Handle, ReadPump, WritePump, Subscribe, Unsubscribe, SendError, Unregister,
                    ReaderCloses, Write, WriteEnds, WriterCloses, subscriberVars
    <2> QED
        BY <1>2, <2>1
<1> QED
    BY <1>3, <1>4, <1>5, <1>6 DEF Next, Subscriber

\* Who the subscriber has still to send to, when it goes on to the next.
LEMMA AwaitedRest ==
    ASSUME TypeOK, TargetsOK, targets # << >>, targets' = Tail(targets)
    PROVE  \A c \in Clients : Awaited(c)' <=> (c # Head(targets) /\ Awaited(c))
<1>1. targets \in Seq(Clients)
    BY DEF TypeOK
<1>2. \A c \in Clients : (\E i \in DOMAIN Tail(targets) : Tail(targets)[i] = c)
                           <=> (c # Head(targets) /\ \E i \in DOMAIN targets : targets[i] = c)
    BY <1>1, TailTargets DEF TargetsOK
<1> QED
    BY <1>2 DEF Awaited

\* The client it is with is one of them.
LEMMA HeadAwaited ==
    ASSUME TypeOK, TargetsOK, targets # << >>
    PROVE  Head(targets) \in Clients /\ Awaited(Head(targets))
<1>1. targets \in Seq(Clients)
    BY DEF TypeOK
<1>2. Head(targets) \in Clients /\ \E i \in DOMAIN targets : targets[i] = Head(targets)
    BY <1>1, TailTargets DEF TargetsOK
<1> QED
    BY <1>2 DEF Awaited

\* An update is sent to the clients of its event.
LEMMA AwaitedBroadcast ==
    ASSUME TypeOK, NEW e \in Events, Broadcast(e)
    PROVE  \A c \in Clients : ~Awaited(c) /\ (Awaited(c)' <=> c \in subscriptions[e])
<1>1. targets' \in Targets(e) /\ targets = << >>
    BY DEF Broadcast
<1>2. \A c \in Clients : (\E i \in DOMAIN targets' : targets'[i] = c) <=> c \in subscriptions[e]
    BY <1>1, TargetsProperties
<1>3. DOMAIN targets = {}
    BY <1>1
<1> QED
    BY <1>2, <1>3 DEF Awaited

\* A client whose connection is not handled yet is unknown, after any step.
LEMMA FreshStep ==
    ASSUME Inv, Next
    PROVE  FreshOK'
<1> USE DEF Inv
<1>1. /\ reader \in [Clients -> {"none", "read", "done"} \cup Closing]
      /\ subscriptions \in [Events -> SUBSET Clients]
      /\ buffer \in [Clients -> Seq(0 .. MaxMessages)]
      /\ owed \in [Clients -> Seq(1 .. MaxMessages)]
    BY DEF TypeOK
<1>2. ASSUME NEW c \in Clients, reader[c] = "none"
      PROVE  /\ writer[c] = "none" /\ owed[c] = << >> /\ buffer[c] = << >> /\ ~Awaited(c)
             /\ \A e \in Events : c \notin subscriptions[e]
    BY <1>2 DEF FreshOK
<1>3. ASSUME NEW e \in Events, Broadcast(e) PROVE FreshOK'
    <2>1. /\ UNCHANGED <<reader, writer, subscriptions, buffer>>
          /\ \A c \in Clients : c \notin subscriptions[e] => owed'[c] = owed[c]
        BY <1>3 DEF Broadcast, hubVars
    <2>2. \A c \in Clients : Awaited(c)' <=> c \in subscriptions[e]
        BY <1>3, AwaitedBroadcast
    <2> QED
        BY <1>2, <1>3, <2>1, <2>2 DEF FreshOK
<1>4. ASSUME SendNext PROVE FreshOK'
    <2> DEFINE h == Head(targets)
    <2>1. /\ targets # << >> /\ UNCHANGED <<reader, writer, subscriptions, owed>>
          /\ targets' = Tail(targets) \/ targets' = targets
          /\ buffer' = buffer \/ buffer' = [buffer EXCEPT ![h] = Append(@, received)]
        BY <1>4 DEF SendNext, Send, hubVars, closeVars
    <2>2. h \in Clients /\ Awaited(h)
        BY <2>1, HeadAwaited
    <2> HIDE DEF h
    <2>3. \A c \in Clients : Awaited(c)' => Awaited(c)
        <3>1. CASE targets' = Tail(targets)
            BY <2>1, <3>1, AwaitedRest
        <3>2. CASE targets' = targets
            BY <3>2 DEF Awaited
        <3> QED
            BY <2>1, <3>1, <3>2
    <2>4. \A c \in Clients : c # h => buffer'[c] = buffer[c]
        BY <1>1, <2>1
    <2>5. reader[h] # "none"
        BY <1>2, <2>2
    <2> QED
        BY <1>2, <2>1, <2>3, <2>4, <2>5 DEF FreshOK
<1>5. ASSUME NEW c \in Clients, NEW stage \in Closing, CloseStep(c, stage),
             UNCHANGED subscriptions,
             \A d \in Clients : reader'[d] = "none" => reader[d] = "none" /\ writer'[d] = writer[d],
             \A d \in Clients : Awaited(d)' => Awaited(d)
      PROVE  FreshOK'
    <2>1. /\ owed' = [owed EXCEPT ![c] = << >>]
          /\ buffer' = buffer \/ buffer' = [buffer EXCEPT ![c] = << >>]
        BY <1>5 DEF CloseStep
    <2>2. \A d \in Clients : owed[d] = << >> => owed'[d] = << >>
        BY <1>1, <2>1
    <2>3. \A d \in Clients : buffer[d] = << >> => buffer'[d] = << >>
        BY <1>1, <2>1
    <2> QED
        BY <1>2, <1>5, <2>2, <2>3 DEF FreshOK
<1>6. ASSUME CloseSlow PROVE FreshOK'
    <2>1. /\ targets # << >>
        BY <1>6 DEF CloseSlow, TargetsOK
    <2>2. /\ CloseStep(Head(targets), sending) /\ sending \in Closing
          /\ UNCHANGED <<reader, writer, subscriptions>>
          /\ targets' = Tail(targets) \/ targets' = targets
        BY <1>6 DEF CloseSlow, hubVars
    <2>3. \A c \in Clients : Awaited(c)' => Awaited(c)
        <3>1. CASE targets' = Tail(targets)
            BY <2>1, <3>1, AwaitedRest
        <3>2. CASE targets' = targets
            BY <3>2 DEF Awaited
        <3> QED
            BY <2>2, <3>1, <3>2
    <2>4. Head(targets) \in Clients
        BY <2>1, HeadAwaited
    <2> QED
        BY <1>5, <2>2, <2>3, <2>4
<1>7. ASSUME NEW c \in Clients, ReaderCloses(c) \/ WriterCloses(c) PROVE FreshOK'
    <2>1. \E stage \in Closing : CloseStep(c, stage)
        BY <1>7 DEF ReaderCloses, WriterCloses
    <2>2. UNCHANGED <<subscriptions, targets>>
        BY <1>7 DEF ReaderCloses, WriterCloses, hubVars, subscriberVars
    <2>3. \A d \in Clients : reader'[d] = "none" => reader[d] = "none" /\ writer'[d] = writer[d]
        <3>1. writer \in [Clients -> {"none", "write", "done"} \cup Closing]
            BY DEF TypeOK
        <3>2. CASE ReaderCloses(c)
            BY <1>1, <3>2 DEF ReaderCloses, AfterClose
        <3>3. CASE WriterCloses(c)
            <4>1. reader' = reader /\ reader[c] # "none"
                BY <1>2, <3>3 DEF WriterCloses, Closing
            <4>2. \A d \in Clients : d # c => writer'[d] = writer[d]
                BY <3>1, <3>3 DEF WriterCloses
            <4> QED
                BY <4>1, <4>2
        <3> QED
            BY <1>7, <3>2, <3>3
    <2>4. \A d \in Clients : Awaited(d)' => Awaited(d)
        BY <2>2 DEF Awaited
    <2> QED
        BY <1>5, <2>1, <2>2, <2>3, <2>4
<1>8. ASSUME NEW c \in Clients, reader[c] = "none" => reader'[c] # "none", UNCHANGED targets,
             \A d \in Clients : reader'[d] = "none" => reader[d] = "none",
             \A d \in Clients : d # c => /\ owed'[d] = owed[d] /\ writer'[d] = writer[d] /\ buffer'[d] = buffer[d]
                                         /\ \A e \in Events : d \in subscriptions'[e] => d \in subscriptions[e]
      PROVE  FreshOK'
    <2>1. \A d \in Clients : Awaited(d)' <=> Awaited(d)
        BY <1>8 DEF Awaited
    <2>2. reader'[c] # "none"
        BY <1>8
    <2>3. \A d \in Clients : reader'[d] = "none" => d # c
        BY <2>2
    <2> QED
        BY <1>2, <1>8, <2>1, <2>3 DEF FreshOK
<1>9. ASSUME NEW c \in Clients, NEW e \in Events, Subscribe(c, e) \/ Unsubscribe(c, e) PROVE FreshOK'
    <2>1. UNCHANGED <<targets, reader, writer, owed, buffer>> /\ reader[c] = "read"
        BY <1>9 DEF Subscribe, Unsubscribe, closeVars, subscriberVars
    <2>2. \A d \in Clients : d # c => \A f \in Events : d \in subscriptions'[f] => d \in subscriptions[f]
        BY <1>1, <1>9 DEF Subscribe, Unsubscribe
    <2> QED
        BY <1>8, <2>1, <2>2
<1>10. ASSUME NEW c \in Clients, Handle(c) \/ SendError(c) \/ Unregister(c) \/ Write(c) \/ WriteEnds(c)
       PROVE  FreshOK'
    <2>1. UNCHANGED targets
        BY <1>10 DEF Handle, SendError, Unregister, Write, WriteEnds, subscriberVars
    <2>2. \A d \in Clients : reader'[d] = "none" => reader[d] = "none"
        BY <1>1, <1>10 DEF Handle, SendError, Send, Unregister, Write, WriteEnds
    <2>3. writer[c] = "write" => reader[c] # "none"
        BY <1>2
    <2>4. reader'[c] # "none"
        BY <1>1, <1>10, <2>3 DEF Handle, SendError, Send, Unregister, Write, WriteEnds
    <2>5. \A d \in Clients : d # c => owed'[d] = owed[d]
        BY <1>1, <1>10 DEF Handle, SendError, Unregister, Write, WriteEnds, closeVars
    <2>6. \A d \in Clients : d # c => buffer'[d] = buffer[d]
        BY <1>1, <1>10 DEF Handle, SendError, Send, Unregister, Write, WriteEnds
    <2>7. \A d \in Clients : \A e \in Events : d \in subscriptions'[e] => d \in subscriptions[e]
        BY <1>1, <1>10 DEF Handle, SendError, Unregister, Write, WriteEnds, hubVars
    <2>8. \A d \in Clients : d # c => writer'[d] = writer[d]
        <3>1. writer \in [Clients -> {"none", "write", "done"} \cup Closing]
            BY DEF TypeOK
        <3> QED
            BY <1>10, <3>1 DEF Handle, SendError, Unregister, Write, WriteEnds
    <2> QED
        BY <1>8, <2>1, <2>2, <2>4, <2>5, <2>6, <2>7, <2>8
<1> QED
    BY <1>3, <1>4, <1>6, <1>7, <1>9, <1>10 DEF Next, Subscriber, ReadPump, WritePump

-----------------------------------------------------------------------------
(* No client misses an update                                              *)

\* The numbers of the updates, as opposed to the error message.
Updates == 1 .. MaxMessages

\* What the subscriber has still to send to client c.
Pending(c) == IF Awaited(c) THEN <<received>> ELSE << >>

\* What is owed to client c is in its buffer, or about to be sent.
NoGap(c) == writer[c] = "write" /\ ~closed[c] => owed[c] = Filter(buffer[c], Updates) \o Pending(c)

\* NoGaps says this of every client.
LEMMA NoGapEach == /\ NoGaps <=> \A c \in Clients : NoGap(c)
                   /\ NoGaps' <=> \A c \in Clients : NoGap(c)'
    BY DEF NoGaps, NoGap, Pending, Awaited, Updates

\* What is in a buffer and what is pending are sequences of updates.
LEMMA FilteredType ==
    ASSUME TypeOK, TargetsOK, NEW c \in Clients
    PROVE  /\ Filter(buffer[c], Updates) \in Seq(Updates)
           /\ Pending(c) \in Seq(Updates)
           /\ Awaited(c) => received \in Updates
<1>1. buffer[c] \in Seq(0 .. MaxMessages)
    BY DEF TypeOK
<1>2. Filter(buffer[c], Updates) \in Seq((0 .. MaxMessages) \cap Updates)
    BY <1>1, FilterType
<1>3. (0 .. MaxMessages) \cap Updates = Updates
    BY HubAssumption DEF Updates
<1>4. Awaited(c) => received \in Updates
    <2>1. Awaited(c) => targets # << >>
        BY DEF Awaited
    <2> QED
        BY <2>1, HubAssumption DEF TypeOK, TargetsOK, Updates
<1>5. Pending(c) \in Seq(Updates)
    BY <1>4 DEF Pending
<1> QED
    BY <1>2, <1>3, <1>4, <1>5

\* A client of whom a step changes nothing that matters.
LEMMA NoGapKept ==
    ASSUME NEW c \in Clients, NoGap(c),
           writer'[c] = "write" /\ ~closed'[c] => /\ writer[c] = "write" /\ ~closed[c]
                                                  /\ owed'[c] = owed[c] /\ buffer'[c] = buffer[c]
                                                  /\ received' = received
                                                  /\ Awaited(c)' <=> Awaited(c)
    PROVE  NoGap(c)'
<1> SUFFICES ASSUME writer'[c] = "write" /\ ~closed'[c]
             PROVE  owed'[c] = Filter(buffer'[c], Updates) \o Pending(c)'
    BY DEF NoGap, Updates
<1>1. Pending(c)' = Pending(c)
    BY DEF Pending
<1>2. owed[c] = Filter(buffer[c], Updates) \o Pending(c)
    BY DEF NoGap
<1> QED
    BY <1>1, <1>2

\* An update that was awaited is put at the end of the buffer.
LEMMA NoGapSent ==
    ASSUME TypeOK, TargetsOK, NEW c \in Clients, NoGap(c), Awaited(c),
           buffer' = [buffer EXCEPT ![c] = Append(@, received)], ~Awaited(c)',
           UNCHANGED <<writer, closed, owed, received>>
    PROVE  NoGap(c)'
<1> SUFFICES ASSUME writer[c] = "write", ~closed[c]
             PROVE  owed[c] = Filter(buffer'[c], Updates) \o Pending(c)'
    BY DEF NoGap, Updates
<1>1. owed[c] = Filter(buffer[c], Updates) \o <<received>>
    BY DEF NoGap, Pending
<1>2. buffer[c] \in Seq(0 .. MaxMessages) /\ received \in 0 .. MaxMessages /\ received \in Updates
    BY FilteredType DEF TypeOK
<1>3. buffer'[c] = Append(buffer[c], received)
    BY DEF TypeOK
<1>4. Filter(buffer'[c], Updates) = Filter(buffer[c], Updates) \o One(received, Updates)
    BY <1>2, <1>3, FilterSteps
<1>5. One(received, Updates) = <<received>> /\ Pending(c)' = << >>
    BY <1>2 DEF One, Pending
<1>6. owed[c] = Filter(buffer'[c], Updates)
    BY <1>1, <1>4, <1>5
<1>7. owed[c] \in Seq(Updates)
    BY DEF TypeOK, Updates
<1>8. owed[c] \o << >> = owed[c]
    BY <1>7, ConcatEmptySeq
<1> QED
    BY <1>5, <1>6, <1>8

\* An update is broadcast to client c, which is one of the event's.
LEMMA NoGapBroadcast ==
    ASSUME TypeOK, NEW c \in Clients, NoGap(c), ~Awaited(c), NEW m, m = received', Awaited(c)',
           ~closed[c] => owed'[c] = Append(owed[c], m),
           UNCHANGED <<writer, closed, buffer>>, m \in Updates
    PROVE  NoGap(c)'
<1> SUFFICES ASSUME writer[c] = "write", ~closed[c]
             PROVE  owed'[c] = Filter(buffer[c], Updates) \o Pending(c)'
    BY DEF NoGap, Updates
<1>1. owed[c] = Filter(buffer[c], Updates) \o << >>
    BY DEF NoGap, Pending
<1>2. buffer[c] \in Seq(0 .. MaxMessages) /\ owed[c] \in Seq(Updates)
    BY DEF TypeOK, Updates
<1>3. Filter(buffer[c], Updates) \in Seq((0 .. MaxMessages) \cap Updates)
    BY <1>2, FilterType
<1>4. owed[c] = Filter(buffer[c], Updates)
    BY <1>1, <1>3, ConcatEmptySeq
<1>5. Pending(c)' = <<m>>
    BY DEF Pending
<1>6. owed'[c] = owed[c] \o <<m>>
    BY <1>2, AppendIsConcat
<1> QED
    BY <1>4, <1>5, <1>6

\* An error message is not an update.
LEMMA NoGapError ==
    ASSUME TypeOK, NEW c \in Clients, NoGap(c),
           buffer' = [buffer EXCEPT ![c] = Append(@, Error)],
           UNCHANGED <<writer, closed, owed, received, targets>>
    PROVE  NoGap(c)'
<1> SUFFICES ASSUME writer[c] = "write", ~closed[c]
             PROVE  owed[c] = Filter(buffer'[c], Updates) \o Pending(c)'
    BY DEF NoGap, Updates
<1>1. owed[c] = Filter(buffer[c], Updates) \o Pending(c)
    BY DEF NoGap
<1>2. buffer[c] \in Seq(0 .. MaxMessages) /\ Error \in 0 .. MaxMessages /\ Error \notin Updates
    BY HubAssumption DEF TypeOK, Error, Updates
<1>3. buffer'[c] = Append(buffer[c], Error)
    BY DEF TypeOK
<1>4. Filter(buffer'[c], Updates) = Filter(buffer[c], Updates) \o One(Error, Updates)
    BY <1>2, <1>3, FilterSteps
<1>5. One(Error, Updates) = << >> /\ Pending(c)' = Pending(c)
    BY <1>2 DEF One, Pending, Awaited
<1>6. Filter(buffer[c], Updates) \in Seq((0 .. MaxMessages) \cap Updates)
    BY <1>2, FilterType
<1>7. Filter(buffer'[c], Updates) = Filter(buffer[c], Updates)
    BY <1>4, <1>5, <1>6, ConcatEmptySeq
<1> QED
    BY <1>1, <1>5, <1>7

\* First element and rest of a sequence.
LEMMA FirstAndRest ==
    ASSUME NEW T, NEW x \in T, NEW r \in Seq(T), NEW o, o = <<x>> \o r
    PROVE  o # << >> /\ Head(o) = x /\ Tail(o) = r
<1>1. /\ o \in Seq(T) /\ Len(o) = 1 + Len(r) /\ Len(r) \in Nat
      /\ \A i \in 1 .. 1 + Len(r) : o[i] = IF i <= 1 THEN x ELSE r[i - 1]
    BY ConcatProperties, LenProperties
<1>2. o # << >> /\ Head(o) = x
    BY <1>1
<1>3. /\ Tail(o) \in Seq(T) /\ Len(Tail(o)) = Len(o) - 1
      /\ \A i \in 1 .. Len(Tail(o)) : Tail(o)[i] = o[i + 1]
    BY <1>1, <1>2, HeadTailProperties
<1>4. Len(Tail(o)) = Len(r) /\ \A i \in 1 .. Len(r) : Tail(o)[i] = r[i]
    <2>1. Len(Tail(o)) = Len(r)
        BY <1>1, <1>3
    <2>2. ASSUME NEW i \in 1 .. Len(r) PROVE Tail(o)[i] = r[i]
        <3>1. i + 1 \in 1 .. 1 + Len(r) /\ ~(i + 1 <= 1) /\ (i + 1) - 1 = i
            BY <1>1
        <3>2. o[i + 1] = r[(i + 1) - 1]
            BY <1>1, <3>1
        <3> QED
            BY <1>3, <2>1, <3>1, <3>2
    <2> QED
        BY <2>1, <2>2
<1> QED
    BY <1>2, <1>3, <1>4, SeqEqual

\* The rest of a sequence that begins with x.
LEMMA FirstWritten ==
    ASSUME NEW T, NEW x \in T, NEW f \in Seq(T), NEW p \in Seq(T),
           NEW q, q = <<x>> \o f, NEW o, o = q \o p
    PROVE  o # << >> /\ Head(o) = x /\ Tail(o) = f \o p
<1>1. <<x>> \in Seq(T) /\ f \o p \in Seq(T)
    BY ConcatProperties
<1>2. o = <<x>> \o (f \o p)
    BY <1>1, ConcatAssociative
<1> QED
    BY <1>1, <1>2, FirstAndRest

\* WritePump takes the first message of the buffer, and what is owed first.
LEMMA NoGapWritten ==
    ASSUME TypeOK, TargetsOK, NEW c \in Clients, NoGap(c), Write(c)
    PROVE  NoGap(c)'
<1> DEFINE b == buffer[c]
<1>1. /\ b # << >> /\ b \in Seq(0 .. MaxMessages) /\ owed[c] \in Seq(Updates)
      /\ buffer'[c] = Tail(b)
      /\ owed'[c] = IF owed[c] # << >> /\ Head(owed[c]) = Head(b) THEN Tail(owed[c]) ELSE owed[c]
      /\ UNCHANGED <<writer, closed, received, targets>>
    BY DEF Write, TypeOK, subscriberVars, Updates
<1> SUFFICES ASSUME writer[c] = "write", ~closed[c]
             PROVE  owed'[c] = Filter(buffer'[c], Updates) \o Pending(c)'
    BY <1>1 DEF NoGap, Updates
<1>2. owed[c] = Filter(b, Updates) \o Pending(c)
    BY DEF NoGap
<1>3. Pending(c)' = Pending(c)
    BY <1>1 DEF Pending, Awaited
<1>4. Pending(c) \in Seq(Updates)
    BY FilteredType
<1> HIDE DEF b
<1>5. Filter(b, Updates) = One(Head(b), Updates) \o Filter(Tail(b), Updates)
    BY <1>1, FilterFirst
<1>6. Head(b) \in 0 .. MaxMessages /\ Tail(b) \in Seq(0 .. MaxMessages)
    BY <1>1, HeadTailProperties
<1>7. Filter(Tail(b), Updates) \in Seq(Updates)
    <2>1. Filter(Tail(b), Updates) \in Seq((0 .. MaxMessages) \cap Updates)
        BY <1>6, FilterType
    <2>2. (0 .. MaxMessages) \cap Updates = Updates
        BY HubAssumption DEF Updates
    <2> QED
        BY <2>1, <2>2
<1>8. CASE Head(b) \in Updates
    <2>1. One(Head(b), Updates) = <<Head(b)>>
        BY <1>8 DEF One
    <2>2. owed[c] # << >> /\ Head(owed[c]) = Head(b) /\ Tail(owed[c]) = Filter(Tail(b), Updates) \o Pending(c)
        <3> DEFINE x == Head(b)
                   f == Filter(Tail(b), Updates)
                   p == Pending(c)
                   q == Filter(b, Updates)
                   o == owed[c]
        <3>1. x \in Updates /\ f \in Seq(Updates) /\ p \in Seq(Updates) /\ q = <<x>> \o f /\ o = q \o p
            BY <1>2, <1>4, <1>5, <1>7, <1>8, <2>1
        <3> HIDE DEF x, f, p, q, o
        <3>2. o # << >> /\ Head(o) = x /\ Tail(o) = f \o p
            BY <3>1, FirstWritten
        <3> QED
            BY <3>2 DEF x, f, p, q, o
    <2> QED
        BY <1>1, <1>3, <2>2
<1>9. CASE Head(b) \notin Updates
    <2>1. One(Head(b), Updates) = << >>
        BY <1>9 DEF One
    <2>2. Filter(b, Updates) = Filter(Tail(b), Updates)
        BY <1>5, <1>7, <2>1, ConcatEmptySeq
    <2>3. owed[c] # << >> => Head(owed[c]) \in Updates
        BY <1>1, HeadTailProperties
    <2>4. owed'[c] = owed[c]
        BY <1>1, <1>9, <2>3
    <2> QED
        BY <1>1, <1>2, <1>3, <2>2, <2>4
<1> QED
    BY <1>8, <1>9

\* No gap after any step.
LEMMA NoGapsStep ==
    ASSUME Inv, Next
    PROVE  NoGaps'
<1> USE DEF Inv
<1>1. /\ writer \in [Clients -> {"none", "write", "done"} \cup Closing]
      /\ closed \in [Clients -> BOOLEAN]
      /\ buffer \in [Clients -> Seq(0 .. MaxMessages)]
      /\ owed \in [Clients -> Seq(1 .. MaxMessages)]
      /\ received \in 0 .. MaxMessages /\ MaxMessages \in Nat
    BY HubAssumption DEF TypeOK
<1>2. \A d \in Clients : NoGap(d)
    BY NoGapEach
<1> SUFFICES ASSUME NEW d \in Clients
             PROVE  NoGap(d)'
    BY NoGapEach
<1>3. NoGap(d)
    BY <1>2
<1>4. ASSUME NEW e \in Events, Broadcast(e) PROVE NoGap(d)'
    <2>1. /\ UNCHANGED <<writer, closed, buffer>> /\ received' \in Updates
          /\ owed'[d] = IF d \in subscriptions[e] /\ ~closed[d] THEN Append(owed[d], received') ELSE owed[d]
        BY <1>1, <1>4 DEF Broadcast, Updates
    <2>2. ~Awaited(d) /\ (Awaited(d)' <=> d \in subscriptions[e])
        BY <1>4, AwaitedBroadcast
    <2>3. CASE d \in subscriptions[e]
        BY <1>3, <2>1, <2>2, <2>3, NoGapBroadcast
    <2>4. CASE d \notin subscriptions[e]
        <3>1. owed'[d] = owed[d] /\ Pending(d)' = << >> /\ Pending(d) = << >>
            BY <2>1, <2>2, <2>4 DEF Pending
        <3>2. UNCHANGED <<writer[d], closed[d], buffer[d]>>
            BY <2>1
        <3> QED
            BY <1>3, <3>1, <3>2 DEF NoGap, Updates
    <2> QED
        BY <2>3, <2>4
<1>5. ASSUME SendNext PROVE NoGap(d)'
    <2> DEFINE h == Head(targets)
    <2>1. targets # << >> /\ UNCHANGED <<writer, closed, owed, received>>
        BY <1>5 DEF SendNext, closeVars
    <2>2. h \in Clients /\ Awaited(h)
        BY <2>1, HeadAwaited
    <2>3. \/ closings[h] > 0 /\ targets' = Tail(targets) /\ buffer' = buffer
          \/ targets' = Tail(targets) /\ buffer' = [buffer EXCEPT ![h] = Append(@, received)]
          \/ targets' = targets /\ buffer' = buffer
        BY <1>5 DEF SendNext, Send
    <2>4. targets' = Tail(targets) => (Awaited(d)' <=> (d # h /\ Awaited(d)))
        BY <2>1, AwaitedRest
    <2>5. targets' = targets => (Awaited(d)' <=> Awaited(d))
        BY DEF Awaited
    <2> HIDE DEF h
    <2>6. CASE d # h
        <3>1. buffer'[d] = buffer[d] /\ (Awaited(d)' <=> Awaited(d))
            BY <1>1, <2>2, <2>3, <2>4, <2>5, <2>6
        <3> QED
            BY <1>3, <2>1, <3>1, NoGapKept
    <2>7. CASE d = h /\ closings[h] > 0
        <3>1. closings[h] \in Nat
            BY <2>2 DEF TypeOK
        <3>2. closed[d]
            BY <2>2, <2>7, <3>1 DEF CloseOK
        <3> QED
            BY <1>3, <2>1, <3>2, NoGapKept
    <2>8. CASE d = h /\ targets' = Tail(targets) /\ buffer' = [buffer EXCEPT ![h] = Append(@, received)]
        <3>1. Awaited(d) /\ ~Awaited(d)'
            BY <2>2, <2>4, <2>8
        <3> QED
            BY <1>3, <2>1, <2>8, <3>1, NoGapSent
    <2>9. CASE targets' = targets /\ buffer' = buffer
        BY <1>3, <2>1, <2>5, <2>9, NoGapKept
    <2> QED
        BY <2>3, <2>6, <2>7, <2>8, <2>9
<1>6. ASSUME NEW c \in Clients, NEW stage \in Closing, CloseStep(c, stage),
             stage = "closeSend" => closed[c],
             d # c => writer'[d] = writer[d] /\ (Awaited(d)' <=> Awaited(d)),
             UNCHANGED received
      PROVE  NoGap(d)'
    <2>1. closed'[c]
        <3>1. closed[c] => closed'[c]
            BY <1>6, CloseEffects
        <3>2. stage = "closeFlag" => closed'[c]
            BY <1>6, CloseEffects
        <3> QED
            BY <1>6, <3>1, <3>2 DEF Closing
    <2>2. d # c => closed'[d] = closed[d]
        BY <1>6, CloseEffects
    <2>3. d # c => owed'[d] = owed[d] /\ buffer'[d] = buffer[d]
        BY <1>1, <1>6 DEF CloseStep
    <2> QED
        BY <1>3, <1>6, <2>1, <2>2, <2>3, NoGapKept
<1>7. ASSUME CloseSlow PROVE NoGap(d)'
    <2>1. targets # << >>
        BY <1>7 DEF CloseSlow, TargetsOK
    <2>2. /\ CloseStep(Head(targets), sending) /\ sending \in Closing
          /\ UNCHANGED <<writer, received>>
          /\ targets' = Tail(targets) \/ targets' = targets
        BY <1>7 DEF CloseSlow
    <2>3. Head(targets) \in Clients
        BY <2>1, HeadAwaited
    <2>4. d # Head(targets) => (Awaited(d)' <=> Awaited(d))
        <3>1. CASE targets' = Tail(targets)
            BY <2>1, <3>1, AwaitedRest
        <3>2. CASE targets' = targets
            BY <3>2 DEF Awaited
        <3> QED
            BY <2>2, <3>1, <3>2
    <2>5. sending = "closeSend" => closed[Head(targets)]
        BY <2>3 DEF CloseOK, SubscriberIn
    <2> QED
        BY <1>6, <2>2, <2>3, <2>4, <2>5
<1>8. ASSUME NEW c \in Clients, ReaderCloses(c) PROVE NoGap(d)'
    <2>1. /\ CloseStep(c, reader[c]) /\ reader[c] \in Closing
          /\ UNCHANGED <<writer, received, targets>>
        BY <1>8 DEF ReaderCloses, subscriberVars
    <2>2. reader[c] = "closeSend" => closed[c]
        BY DEF CloseOK, ReaderIn
    <2>3. Awaited(d)' <=> Awaited(d)
        BY <2>1 DEF Awaited
    <2> QED
        BY <1>6, <2>1, <2>2, <2>3
<1>9. ASSUME NEW c \in Clients, WriterCloses(c) PROVE NoGap(d)'
    <2>1. /\ CloseStep(c, writer[c]) /\ writer[c] \in Closing
          /\ UNCHANGED <<received, targets>>
          /\ d # c => writer'[d] = writer[d]
        BY <1>1, <1>9 DEF WriterCloses, subscriberVars
    <2>2. writer[c] = "closeSend" => closed[c]
        BY DEF CloseOK, WriterIn
    <2>3. Awaited(d)' <=> Awaited(d)
        BY <2>1 DEF Awaited
    <2> QED
        BY <1>6, <2>1, <2>2, <2>3
<1>10. ASSUME UNCHANGED <<closed, received, targets>>,
              writer'[d] = "write" => /\ writer[d] = "write"
                                      /\ owed'[d] = owed[d] /\ buffer'[d] = buffer[d]
       PROVE  NoGap(d)'
    <2>1. Awaited(d)' <=> Awaited(d)
        BY <1>10 DEF Awaited
    <2> QED
        BY <1>3, <1>10, <2>1, NoGapKept
<1>11. ASSUME NEW c \in Clients, Handle(c) PROVE NoGap(d)'
    <2>1. /\ UNCHANGED <<closed, owed, buffer, received, targets>>
          /\ reader[c] = "none" /\ d # c => writer'[d] = writer[d]
        BY <1>1, <1>11 DEF Handle, subscriberVars
    <2>2. CASE d # c
        BY <1>10, <1>11, <2>1, <2>2 DEF Handle
    <2>3. CASE d = c
        <3>1. owed[d] = << >> /\ buffer[d] = << >> /\ ~Awaited(d)
            BY <2>1, <2>3, <1>11 DEF FreshOK, Handle
        <3>2. owed'[d] = << >> /\ buffer'[d] = << >> /\ ~Awaited(d)'
            BY <2>1, <3>1 DEF Awaited
        <3>3. Pending(d)' = << >> /\ Filter(<< >>, Updates) = << >>
            BY <3>2, FilterSteps DEF Pending
        <3>4. << >> \o << >> = << >>
            OBVIOUS
        <3>5. owed'[d] = Filter(buffer'[d], Updates) \o Pending(d)'
            BY <3>2, <3>3, <3>4
        <3> QED
            BY <3>5 DEF NoGap, Updates
    <2> QED
        BY <2>2, <2>3
<1>12. ASSUME NEW c \in Clients, SendError(c) PROVE NoGap(d)'
    <2>1. /\ UNCHANGED <<writer, closed, owed, received, targets>>
          /\ buffer' = buffer \/ buffer' = [buffer EXCEPT ![c] = Append(@, Error)]
        BY <1>12 DEF SendError, Send, closeVars, subscriberVars
    <2>2. CASE d # c \/ buffer' = buffer
        <3>1. buffer'[d] = buffer[d]
            BY <1>1, <2>1, <2>2
        <3> QED
            BY <1>10, <2>1, <3>1
    <2>3. CASE d = c /\ buffer' = [buffer EXCEPT ![c] = Append(@, Error)]
        BY <1>3, <2>1, <2>3, NoGapError
    <2> QED
        BY <2>1, <2>2, <2>3
<1>13. ASSUME NEW c \in Clients, Unregister(c) PROVE NoGap(d)'
    <2>1. UNCHANGED <<writer, closed, owed, buffer, received, targets>>
        BY <1>13 DEF Unregister, closeVars, subscriberVars
    <2> QED
        BY <1>10, <2>1
<1>14. ASSUME NEW c \in Clients, NEW e \in Events, Subscribe(c, e) \/ Unsubscribe(c, e) PROVE NoGap(d)'
    <2>1. UNCHANGED <<writer, closed, owed, buffer, received, targets>>
        BY <1>14 DEF Subscribe, Unsubscribe, closeVars, subscriberVars
    <2> QED
        BY <1>10, <2>1
<1>15. ASSUME NEW c \in Clients, Write(c) PROVE NoGap(d)'
    <2>1. CASE d = c
        BY <1>3, <1>15, <2>1, NoGapWritten
    <2>2. CASE d # c
        <3>1. UNCHANGED <<writer, closed, received, targets>> /\ owed'[d] = owed[d] /\ buffer'[d] = buffer[d]
            BY <1>1, <1>15, <2>2 DEF Write, subscriberVars
        <3> QED
            BY <1>10, <3>1
    <2> QED
        BY <2>1, <2>2
<1>16. ASSUME NEW c \in Clients, WriteEnds(c) PROVE NoGap(d)'
    <2>1. UNCHANGED <<closed, owed, received, targets>>
        BY <1>16 DEF WriteEnds, closeVars, subscriberVars
    <2>2. writer'[d] = "write" => writer[d] = "write" /\ buffer'[d] = buffer[d]
        BY <1>1, <1>16 DEF WriteEnds
    <2> QED
        BY <1>10, <2>1, <2>2
<1> QED
    BY <1>4, <1>5, <1>7, <1>8, <1>9, <1>11, <1>12, <1>13, <1>14, <1>15, <1>16
       DEF Next, Subscriber, ReadPump, WritePump

-----------------------------------------------------------------------------
(* The theorems                                                            *)

\* The invariant is inductive.
LEMMA InvStep ==
    ASSUME Inv, [Next]_vars
    PROVE  Inv'
<1>1. CASE Next
    BY <1>1, TypeStep, CloseStepOK, TargetsStep, FreshStep, NoGapsStep DEF Inv
<1>2. CASE UNCHANGED vars
    <2> USE DEF vars, hubVars, closeVars, subscriberVars
    <2>1. TypeOK' /\ ClosedOnce'
        BY <1>2 DEF Inv, TypeOK, ClosedOnce
    <2>2. CloseOK'
        BY <1>2 DEF Inv, CloseOK, ReaderIn, WriterIn, SubscriberIn
    <2>3. TargetsOK' /\ FreshOK'
        BY <1>2 DEF Inv, TargetsOK, FreshOK, Awaited
    <2>4. NoGaps'
        BY <1>2 DEF Inv, NoGaps
    <2> QED
        BY <2>1, <2>2, <2>3, <2>4 DEF Inv
<1> QED
    BY <1>1, <1>2

\* It always holds.
LEMMA InvAlways == Spec => []Inv
    BY InitInv, InvStep, PTL DEF Spec

\* Every variable of the hub has its type, and no buffer holds more than
\* sendBufferSize, whatever the clients, the subscriber and the pumps do.
THEOREM HubTypeCorrect == Spec => []TypeOK
<1>1. Inv => TypeOK
    BY DEF Inv
<1> QED
    BY <1>1, InvAlways, PTL

\* ReadPump, WritePump and the subscriber may all call close(), in any order
\* and at once: the channel of a client is never closed twice.
THEOREM ChannelsClosedOnce == Spec => []ClosedOnce
<1>1. Inv => ClosedOnce
    BY DEF Inv
<1> QED
    BY <1>1, InvAlways, PTL

\* What was broadcast to a client that is not closed and has not been written
\* is in its buffer or about to be sent, every update once and in order.
THEOREM NoUpdateMissed == Spec => []NoGaps
<1>1. Inv => NoGaps
    BY DEF Inv
<1> QED
    BY <1>1, InvAlways, PTL
====
