---------------------- MODULE PartitionOwnershipProofs ----------------------
(***************************************************************************)
(* Proofs about PartitionOwnership, for every number of engines, faults    *)
(* and events: fencing tokens are never shared, no release takes away a    *)
(* lease of another engine, and a single DB worker applies events in the   *)
(* order of their tokens.                                                  *)
(***************************************************************************)
EXTENDS PartitionOwnership, SequenceTheorems, TLAPS

\* An engine in its consume loop has a token.
OwnersHaveTokens == \A e \in Engines : pc[e] \in {"own", "draining"} => token[e] # 0

\* Events that have been emitted and not handled yet.
Waiting ==
    {stream[i] : i \in DOMAIN stream} \cup pending \cup ({hand[w] : w \in DbWorkers} \ {None})

\* They carry a token that was handed out.
EventsStamped == \A ev \in Waiting : ev.token # 0 /\ ev.token <= fence

\* Nothing a worker read, and nothing applied, is ahead of the counter.
CounterAhead == lastApplied <= fence /\ \A w \in DbWorkers : seen[w] <= fence

\* There is exactly one DB worker.
OneDbWorker == \E w : DbWorkers = {w}

\* With one DB worker, nothing is applied between its reading of the counter
\* and its decision.
ReadIsCurrent ==
    OneDbWorker => \A w \in DbWorkers : hand[w] # None => lastApplied <= seen[w]

\* The inductive invariant.
IInv ==
    /\ TypeOK
    /\ TokensUnique
    /\ OwnersHaveTokens
    /\ EventsStamped
    /\ CounterAhead
    /\ ReadIsCurrent

\* Before any engine has acquired the lease the invariant holds.
LEMMA InitOK == Init => IInv
<1> SUFFICES ASSUME Init PROVE IInv
    OBVIOUS
<1> USE OwnershipAssumption DEF Init
<1>1. TypeOK /\ TokensUnique /\ OwnersHaveTokens /\ CounterAhead /\ ReadIsCurrent
    BY DEF TypeOK, TokensUnique, OwnersHaveTokens, CounterAhead, ReadIsCurrent
<1>2. Waiting = {}
    BY DEF Waiting
<1> QED
    BY <1>1, <1>2 DEF IInv, EventsStamped

\* What waits is an event.
LEMMA WaitingTypes == TypeOK => Waiting \subseteq Event
<1> SUFFICES ASSUME TypeOK PROVE Waiting \subseteq Event
    OBVIOUS
<1>1. {stream[i] : i \in DOMAIN stream} \subseteq Event
    BY DEF TypeOK
<1>2. {hand[w] : w \in DbWorkers} \ {None} \subseteq Event
    BY DEF TypeOK
<1> QED
    BY <1>1, <1>2 DEF Waiting, TypeOK

\* A step that leaves the events, the DB workers and the engines' tokens alone
\* keeps the invariant if the counter does not go back.
LEMMA EngineFrame ==
    ASSUME IInv, TypeOK', UNCHANGED <<stream, dbVars>>, fence <= fence'
    PROVE  EventsStamped' /\ CounterAhead' /\ ReadIsCurrent'
<1> USE DEF IInv, dbVars
<1>1. Waiting' = Waiting
    BY DEF Waiting
<1>2. \A ev \in Waiting : ev.token \in Nat
    BY WaitingTypes DEF Event
<1>3. EventsStamped'
    BY <1>1, <1>2 DEF EventsStamped, TypeOK
<1>4. CounterAhead'
    BY DEF CounterAhead, TypeOK
<1>5. ReadIsCurrent'
    BY DEF ReadIsCurrent
<1> QED
    BY <1>3, <1>4, <1>5

\* Every step of runPartition but an emit keeps the invariant.
LEMMA EngineStepOK ==
    ASSUME IInv, NEW e \in Engines, EngineStep(e), ~EmitEvent(e)
    PROVE  IInv'
<1> USE OwnershipAssumption DEF engineVars, Fault
<1>1. TypeOK' /\ UNCHANGED <<stream, dbVars>> /\ fence <= fence'
      /\ TokensUnique' /\ OwnersHaveTokens'
    <2> USE DEF IInv, TypeOK, TokensUnique, OwnersHaveTokens
    <2>1. CASE Acquire(e)
        BY <2>1 DEF Acquire, dbVars
    <2>2. CASE AcquireFails(e)
        BY <2>2 DEF AcquireFails, dbVars
    <2>3. CASE NextToken(e)
        BY <2>3 DEF NextToken, dbVars
    <2>4. CASE NextTokenFails(e)
        BY <2>4 DEF NextTokenFails, Released, dbVars
    <2>5. CASE LeaseLost(e)
        BY <2>5 DEF LeaseLost, dbVars
    <2>6. CASE StopConsuming(e)
        BY <2>6 DEF StopConsuming, Released, dbVars
    <2>7. CASE Crash(e)
        BY <2>7 DEF Crash, dbVars
    <2>8. CASE Restart(e)
        BY <2>8 DEF Restart, dbVars
    <2> QED
        BY <2>1, <2>2, <2>3, <2>4, <2>5, <2>6, <2>7, <2>8 DEF EngineStep
<1> QED
    BY <1>1, EngineFrame DEF IInv

\* An event that is emitted carries a token the counter has handed out.
LEMMA EmitEventOK ==
    ASSUME IInv, NEW e \in Engines, EmitEvent(e)
    PROVE  IInv'
<1> DEFINE new == [token |-> token[e], byHolder |-> lease = e]
<1> USE DEF IInv
<1>1. /\ pc[e] \in {"own", "draining"}
      /\ emitted' = emitted + 1
      /\ stream' = Append(stream, new)
      /\ UNCHANGED <<lease, fence, pc, token, hand, seen, pending, lastApplied, dropped, faults>>
    BY DEF EmitEvent, engineVars, dbVars
<1>2. new \in Event /\ new.token = token[e] /\ token[e] # 0 /\ token[e] <= fence
    BY <1>1 DEF TypeOK, Event, OwnersHaveTokens, TokensUnique
<1>3. TypeOK'
    BY <1>1, <1>2 DEF TypeOK
<1>4. Waiting' \subseteq Waiting \cup {new}
    <2>1. {stream'[i] : i \in DOMAIN stream'} \subseteq {stream[i] : i \in DOMAIN stream} \cup {new}
        BY <1>1, <1>2 DEF TypeOK
    <2> QED
        BY <1>1, <2>1 DEF Waiting
<1> HIDE DEF new
<1>5. EventsStamped'
    BY <1>1, <1>2, <1>4 DEF EventsStamped
<1>6. TokensUnique' /\ OwnersHaveTokens' /\ CounterAhead' /\ ReadIsCurrent'
    BY <1>1 DEF TokensUnique, OwnersHaveTokens, CounterAhead, ReadIsCurrent
<1> QED
    BY <1>3, <1>5, <1>6

\* The expiry of the lease keeps the invariant.
LEMMA ExpireOK ==
    ASSUME IInv, ExpireEarly \/ ExpireIdle
    PROVE  IInv'
<1>1. TypeOK' /\ UNCHANGED <<stream, dbVars>> /\ fence <= fence'
      /\ UNCHANGED <<pc, token, fence>>
    BY DEF IInv, TypeOK, ExpireEarly, ExpireIdle, Fault, engineVars, dbVars
<1>2. TokensUnique' /\ OwnersHaveTokens'
    BY <1>1 DEF IInv, TokensUnique, OwnersHaveTokens
<1> QED
    BY <1>1, <1>2, EngineFrame DEF IInv

\* What any step of a DB worker leaves alone, and that no event appears.
LEMMA DbFrame ==
    ASSUME IInv, TypeOK', UNCHANGED <<lease, fence, engineVars>>, Waiting' \subseteq Waiting
    PROVE  TokensUnique' /\ OwnersHaveTokens' /\ EventsStamped'
    BY DEF IInv, TokensUnique, OwnersHaveTokens, EventsStamped, engineVars

\* Reading or reclaiming an event keeps the invariant.
LEMMA ReadEventOK ==
    ASSUME IInv, NEW w \in DbWorkers, ReadEvent(w) \/ ReclaimEvent(w)
    PROVE  IInv'
<1> USE DEF IInv
<1>1. PICK ev \in Event :
         /\ hand' = [hand EXCEPT ![w] = ev]
         /\ \/ stream # << >> /\ ev = Head(stream) /\ stream' = Tail(stream) /\ pending' = pending
            \/ ev \in pending /\ pending' = pending \ {ev} /\ stream' = stream
    <2>1. CASE ReadEvent(w)
        <3>1. stream # << >> => Head(stream) \in Event
            BY DEF TypeOK
        <3> QED
            BY <2>1, <3>1 DEF ReadEvent
    <2>2. CASE ReclaimEvent(w)
        BY <2>2 DEF ReclaimEvent, TypeOK
    <2> QED
        BY <2>1, <2>2
<1>2. /\ seen' = [seen EXCEPT ![w] = fence]
      /\ UNCHANGED <<lease, fence, pc, token, emitted, lastApplied, dropped, faults>>
    BY DEF ReadEvent, ReclaimEvent, engineVars
<1>3. /\ stream' \in Seq(Event)
      /\ {stream'[i] : i \in DOMAIN stream'} \subseteq {stream[i] : i \in DOMAIN stream}
    <2>1. CASE stream' = stream
        BY <2>1 DEF TypeOK
    <2>2. CASE stream # << >> /\ stream' = Tail(stream)
        <3>1. /\ Len(stream) \in Nat /\ DOMAIN stream = 1 .. Len(stream)
              /\ stream' \in Seq(Event) /\ DOMAIN stream' = 1 .. Len(stream) - 1
              /\ \A i \in 1 .. Len(stream) - 1 : stream'[i] = stream[i + 1]
            BY <2>2 DEF TypeOK
        <3>2. ASSUME NEW i \in DOMAIN stream'
              PROVE  \E j \in DOMAIN stream : stream'[i] = stream[j]
            <4>1. i + 1 \in DOMAIN stream
                BY <3>1
            <4> QED
                BY <3>1, <4>1
        <3> QED
            BY <3>1, <3>2
    <2> QED
        BY <1>1, <2>1, <2>2
<1>4. ev \in Waiting
    BY <1>1 DEF Waiting, TypeOK
<1>5. TypeOK'
    BY <1>1, <1>2, <1>3 DEF TypeOK
<1>6. Waiting' \subseteq Waiting
    <2>1. \A v \in DbWorkers : hand'[v] \in {hand[v], ev}
        BY <1>1 DEF TypeOK
    <2>2. pending' \subseteq pending
        BY <1>1
    <2> QED
        BY <1>3, <1>4, <2>1, <2>2 DEF Waiting
<1>7. CounterAhead'
    BY <1>2 DEF CounterAhead, TypeOK
<1>8. ReadIsCurrent'
    BY <1>1, <1>2 DEF ReadIsCurrent, CounterAhead, TypeOK
<1> QED
    BY <1>2, <1>5, <1>6, <1>7, <1>8, DbFrame DEF engineVars

\* handleEnvelope applies nothing that is older than what was applied last.
LEMMA DecideOK ==
    ASSUME IInv, OneDbWorker, NEW w \in DbWorkers, hand[w] # None,
           Decide(hand[w], seen[w]) \/ UNCHANGED <<lastApplied, dropped>>
    PROVE  lastApplied' >= lastApplied
<1>1. hand[w] \in Waiting
    BY DEF Waiting
<1>2. /\ hand[w].token \in Nat /\ seen[w] \in Nat /\ lastApplied \in Nat
      /\ hand[w].token # 0
    BY <1>1, WaitingTypes DEF IInv, TypeOK, Event, EventsStamped
<1>3. lastApplied <= seen[w]
    BY DEF IInv, ReadIsCurrent
<1> QED
    BY <1>2, <1>3 DEF Decide, Stale

\* Handling an event, acknowledged or not, keeps the invariant.
LEMMA HandleEventOK ==
    ASSUME IInv, NEW w \in DbWorkers, HandleEvent(w) \/ HandleFails(w)
    PROVE  IInv'
<1> USE DEF IInv
<1>1. /\ hand[w] # None
      /\ hand' = [hand EXCEPT ![w] = None]
      /\ pending' \in {pending, pending \cup {hand[w]}}
      /\ Decide(hand[w], seen[w]) \/ UNCHANGED <<lastApplied, dropped>>
      /\ faults' \in Nat
      /\ UNCHANGED <<lease, fence, pc, token, stream, emitted, seen>>
    BY DEF HandleEvent, HandleFails, Fault, engineVars, TypeOK
<1>2. /\ hand[w] \in Waiting /\ hand[w] \in Event
      /\ hand[w].token \in Nat /\ hand[w].token <= fence
    <2>1. hand[w] \in Waiting
        BY <1>1 DEF Waiting
    <2> QED
        BY <2>1, WaitingTypes DEF Event, EventsStamped
<1>3. lastApplied' \in {lastApplied, hand[w].token} /\ dropped' \subseteq Event
    BY <1>1, <1>2 DEF Decide, TypeOK
<1>4. TypeOK'
    BY <1>1, <1>2, <1>3 DEF TypeOK
<1>5. Waiting' \subseteq Waiting
    <2>1. \A v \in DbWorkers : hand'[v] \in {hand[v], None}
        BY <1>1 DEF TypeOK
    <2> QED
        BY <1>1, <1>2, <2>1 DEF Waiting
<1>6. CounterAhead'
    BY <1>1, <1>2, <1>3 DEF CounterAhead, TypeOK
<1>7. ReadIsCurrent'
    <2>1. OneDbWorker => \A v \in DbWorkers : hand'[v] = None
        BY <1>1 DEF OneDbWorker, TypeOK
    <2> QED
        BY <2>1 DEF ReadIsCurrent, OneDbWorker
<1> QED
    BY <1>1, <1>4, <1>5, <1>6, <1>7, DbFrame DEF engineVars

\* Every step keeps the inductive invariant.
LEMMA NextOK == IInv /\ [Next]_vars => IInv'
<1> SUFFICES ASSUME IInv, [Next]_vars PROVE IInv'
    OBVIOUS
<1>1. CASE UNCHANGED vars
    BY <1>1 DEF IInv, vars, engineVars, dbVars, TypeOK, TokensUnique, OwnersHaveTokens,
            EventsStamped, Waiting, CounterAhead, ReadIsCurrent
<1>2. CASE Next
    BY <1>2, EngineStepOK, EmitEventOK, ExpireOK, ReadEventOK, HandleEventOK DEF Next
<1> QED
    BY <1>1, <1>2

\* IInv holds in every reachable state.
THEOREM Invariance == Spec => []IInv
    BY InitOK, NextOK, PTL DEF Spec

\* However their acquisitions interleave (SET NX, then INCR), no two engines
\* ever hold the same fencing token.
THEOREM TokensAlwaysUnique == Spec => []TokensUnique
<1>1. IInv => TokensUnique
    BY DEF IInv
<1> QED
    BY <1>1, Invariance, PTL

\* With one DB worker handleEnvelope applies events in the order of their
\* tokens, although events of stale owners, reclaimed events and events
\* handled twice are among them.
THEOREM FencingHolds == OneDbWorker => (Spec => AppliedMonotone)
<1> SUFFICES ASSUME OneDbWorker PROVE Spec => AppliedMonotone
    OBVIOUS
<1>1. IInv /\ [Next]_vars => [lastApplied' >= lastApplied]_vars
    <2> SUFFICES ASSUME IInv, Next, UNCHANGED lastApplied \/ lastApplied' # lastApplied
                 PROVE  lastApplied' >= lastApplied
        OBVIOUS
    <2>1. lastApplied \in Nat
        BY DEF IInv, TypeOK
    <2>2. CASE UNCHANGED lastApplied
        BY <2>1, <2>2
    <2>3. CASE lastApplied' # lastApplied
        <3>1. PICK w \in DbWorkers : HandleEvent(w) \/ HandleFails(w)
            BY <2>3 DEF Next, EngineStep, Acquire, AcquireFails, NextToken, NextTokenFails,
               LeaseLost, EmitEvent, StopConsuming, Crash, Restart, ExpireEarly, ExpireIdle,
               ReadEvent, ReclaimEvent, dbVars
        <3>2. hand[w] # None /\ (Decide(hand[w], seen[w]) \/ UNCHANGED <<lastApplied, dropped>>)
            BY <3>1 DEF HandleEvent, HandleFails
        <3> QED
            BY <3>2, DecideOK
    <2> QED
        BY <2>2, <2>3
<1> QED
    BY <1>1, Invariance, PTL DEF Spec, AppliedMonotone
\* The compare-and-release of lease.Release, and every other step that is not
\* a fault, leaves the lease of an owner that goes on owning alone.
THEOREM HolderAlwaysKeepsLease == Spec => HolderKeepsLease
<1> DEFINE Kept == \A e \in Engines :
                      lease = e /\ pc[e] = "own" /\ pc'[e] = "own" /\ faults' = faults
                          => lease' = e
<1>1. IInv /\ [Next]_vars => [Kept]_vars
    <2> SUFFICES ASSUME IInv, Next, NEW e \in Engines,
                        lease = e, pc[e] = "own", pc'[e] = "own", faults' = faults
                 PROVE  lease' = e
        OBVIOUS
    <2>1. ~Fault
        BY DEF IInv, TypeOK, Fault
    <2>2. ASSUME NEW f \in Engines, EngineStep(f) PROVE lease' = e
        BY <2>1, <2>2, OwnershipAssumption
           DEF EngineStep, Acquire, AcquireFails, NextToken, NextTokenFails, LeaseLost,
               EmitEvent, StopConsuming, Released, Crash, Restart
    <2>3. CASE ExpireEarly \/ ExpireIdle
        BY <2>1, <2>3 DEF ExpireEarly, ExpireIdle
    <2>4. ASSUME NEW w \in DbWorkers,
                 ReadEvent(w) \/ ReclaimEvent(w) \/ HandleEvent(w) \/ HandleFails(w)
          PROVE  lease' = e
        BY <2>4 DEF ReadEvent, ReclaimEvent, HandleEvent, HandleFails
    <2> QED
        BY <2>2, <2>3, <2>4 DEF Next
<1> QED
    BY <1>1, Invariance, PTL DEF Spec, HolderKeepsLease
=============================================================================
