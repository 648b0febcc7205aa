-------------------------- MODULE PartitionOwnership --------------------------
(***************************************************************************)
(* Who may write for one partition: the lease (internal/partition/         *)
(* lease.go), the fencing tokens (fencing.go), the ownership loop of the   *)
(* engines (internal/engine/worker.go) and the fence in front of Postgres  *)
(* (fencingDecision in internal/dbworker/worker.go). Partitions share      *)
(* nothing here, so one is enough.                                         *)
(*                                                                         *)
(* There is no clock: a lease may expire at any time, because its holder   *)
(* may be paused, or cut off from Redis, for longer than the TTL. Commands *)
(* and their contents are left out; what matters is that an owner, or an   *)
(* engine that has lost the lease and is still in its batch, emits events. *)
(***************************************************************************)
EXTENDS Integers, Sequences, FiniteSets

CONSTANTS
    Engines,    \* engine processes; each has its own ENGINE_ID
    DbWorkers,  \* consumers of the events:out group
    MaxFaults,  \* bound on expiries, crashes and Redis errors
    MaxEvents,  \* bound on the events emitted
    None        \* no lease; no event in hand

ASSUME OwnershipAssumption ==
    /\ None \notin Engines
    /\ MaxFaults \in Nat
    /\ MaxEvents \in Nat

VARIABLES
    lease,      \* the value of the lease key
    fence,      \* the value of the fencing counter
    pc,         \* where each engine is in runPartition
    token,      \* e.partitionToken; 0 when there is none
    stream,     \* events:out, not yet read by a DB worker
    pending,    \* events read by a DB worker that failed before its XACK
    emitted,    \* number of events emitted
    hand,       \* the event each DB worker is handling
    seen,       \* the fencing counter it read for that event
    lastApplied,\* token of the event applied last (history)
    dropped,    \* events dropped as stale (history)
    faults

engineVars == <<pc, token>>
dbVars == <<hand, seen, pending, lastApplied, dropped>>
vars == <<lease, fence, engineVars, stream, emitted, dbVars, faults>>

\* An event carries a token; whether its emitter held the lease when it was
\* emitted is history.
Event == [token : Nat, byHolder : BOOLEAN]

\* Every variable has its type.
TypeOK ==
    /\ lease \in Engines \cup {None}
    /\ fence \in Nat
    /\ pc \in [Engines -> {"down", "acquire", "token", "own", "draining"}]
    /\ token \in [Engines -> Nat]
    /\ stream \in Seq(Event)
    /\ pending \subseteq Event
    /\ emitted \in Nat
    /\ hand \in [DbWorkers -> Event \cup {None}]
    /\ seen \in [DbWorkers -> Nat]
    /\ lastApplied \in Nat
    /\ dropped \subseteq Event
    /\ faults \in Nat

Init ==
    /\ lease = None
    /\ fence = 0
    /\ pc = [e \in Engines |-> "acquire"]
    /\ token = [e \in Engines |-> 0]
    /\ stream = << >>
    /\ pending = {}
    /\ emitted = 0
    /\ hand = [w \in DbWorkers |-> None]
    /\ seen = [w \in DbWorkers |-> 0]
    /\ lastApplied = 0
    /\ dropped = {}
    /\ faults = 0

\* A fault that the bound still allows.
Fault == faults < MaxFaults /\ faults' = faults + 1

-----------------------------------------------------------------------------
(* runPartition                                                            *)

\* lease.Acquire: SET NX. An engine that finds the key set sleeps and retries.
Acquire(e) ==
    /\ pc[e] = "acquire"
    /\ lease = None
    /\ lease' = e
    /\ pc' = [pc EXCEPT ![e] = "token"]
    /\ UNCHANGED <<fence, token, stream, emitted, dbVars, faults>>

\* SET NX reports an error after it took effect: the engine competes on, for a
\* key that holds its own id.
AcquireFails(e) ==
    /\ Fault
    /\ pc[e] = "acquire"
    /\ lease = None
    /\ lease' = e
    /\ UNCHANGED <<fence, engineVars, stream, emitted, dbVars>>

\* Faults: the counter is read and not incremented; it is decremented.
NextTokenRead(e) ==
    LET n == IF fence = 0 THEN 1 ELSE fence
    IN  /\ pc[e] = "token"
        /\ fence' = n
        /\ token' = [token EXCEPT ![e] = n]
        /\ pc' = [pc EXCEPT ![e] = "own"]
        /\ UNCHANGED <<lease, stream, emitted, dbVars, faults>>

\* fencing.Next: INCR, and the token is stored.
NextToken(e) ==
    /\ pc[e] = "token"
    /\ fence' = fence + 1
    /\ token' = [token EXCEPT ![e] = fence + 1]
    /\ pc' = [pc EXCEPT ![e] = "own"]
    /\ UNCHANGED <<lease, stream, emitted, dbVars, faults>>

\* A fault: DEL without a comparison.
ReleasedBlindly(e) == None

\* compare-and-release: the key goes only if it is still ours.
Released(e) == IF lease = e THEN None ELSE lease

\* It fails, perhaps after the counter was incremented: the lease is given
\* back, if Redis lets it, and the loop starts over.
NextTokenFails(e) ==
    /\ Fault
    /\ pc[e] = "token"
    /\ fence' \in {fence, fence + 1}
    /\ lease' \in {Released(e), lease}
    /\ pc' = [pc EXCEPT ![e] = "acquire"]
    /\ UNCHANGED <<token, stream, emitted, dbVars>>

\* A fault: a key that is missing counts as renewed.
LeaseLostToOther(e) ==
    /\ pc[e] = "own"
    /\ lease \notin {e, None}
    /\ pc' = [pc EXCEPT ![e] = "draining"]
    /\ UNCHANGED <<lease, fence, token, stream, emitted, dbVars, faults>>

\* renewLease finds that the key is not ours and cancels the partition
\* context. (A renewal that finds it ours only extends the TTL, and one that
\* fails is tried again.)
LeaseLost(e) ==
    /\ pc[e] = "own"
    /\ lease # e
    /\ pc' = [pc EXCEPT ![e] = "draining"]
    /\ UNCHANGED <<lease, fence, token, stream, emitted, dbVars, faults>>

\* An owner handles a command and emits an event stamped with its token. So
\* does an engine whose context is canceled, for the rest of the batch it has
\* read: processStreamEntry does not look at the context.
EmitEvent(e) ==
    /\ pc[e] \in {"own", "draining"}
    /\ emitted < MaxEvents
    /\ emitted' = emitted + 1
    /\ stream' = Append(stream, [token |-> token[e], byHolder |-> lease = e])
    /\ UNCHANGED <<lease, fence, engineVars, dbVars, faults>>

\* consumeMessages has returned (its context was canceled, or, a fault, the
\* engine is shut down or the group cannot be set up): release the lease if it
\* is ours, forget the token, and compete again or leave. An error of the
\* release is ignored.
StopConsuming(e) ==
    /\ \/ pc[e] = "draining" /\ UNCHANGED faults /\ lease' = Released(e)
       \/ pc[e] \in {"own", "draining"} /\ Fault /\ lease' \in {Released(e), lease}
    /\ token' = [token EXCEPT ![e] = 0]
    /\ \E next \in {"acquire", "down"} : pc' = [pc EXCEPT ![e] = next]
    /\ UNCHANGED <<fence, stream, emitted, dbVars>>

-----------------------------------------------------------------------------
(* Faults                                                                  *)

\* The TTL runs out under a holder that is up.
ExpireEarly ==
    /\ Fault
    /\ lease # None
    /\ lease' = None
    /\ UNCHANGED <<fence, engineVars, stream, emitted, dbVars>>

\* The TTL runs out under a holder that does not renew: it is not in the loop
\* that consumes.
ExpireIdle ==
    /\ lease # None
    /\ pc[lease] \in {"down", "acquire"}
    /\ lease' = None
    /\ UNCHANGED <<fence, engineVars, stream, emitted, dbVars, faults>>

Crash(e) ==
    /\ Fault
    /\ pc[e] # "down"
    /\ pc' = [pc EXCEPT ![e] = "down"]
    /\ token' = [token EXCEPT ![e] = 0]
    /\ UNCHANGED <<lease, fence, stream, emitted, dbVars>>

Restart(e) ==
    /\ pc[e] = "down"
    /\ pc' = [pc EXCEPT ![e] = "acquire"]
    /\ UNCHANGED <<lease, fence, token, stream, emitted, dbVars, faults>>

-----------------------------------------------------------------------------
(* The DB worker                                                           *)

\* A worker takes the next event of the group and reads the fencing counter.
ReadEvent(w) ==
    /\ hand[w] = None
    /\ stream # << >>
    /\ hand' = [hand EXCEPT ![w] = Head(stream)]
    /\ seen' = [seen EXCEPT ![w] = fence]
    /\ stream' = Tail(stream)
    /\ UNCHANGED <<lease, fence, engineVars, emitted, pending, lastApplied, dropped, faults>>

\* A worker that starts reclaims an event its predecessor left pending, at
\* once or, if it was not idle for long enough, at a later start.
ReclaimEvent(w) ==
    /\ hand[w] = None
    /\ \E ev \in pending :
          /\ hand' = [hand EXCEPT ![w] = ev]
          /\ pending' = pending \ {ev}
    /\ seen' = [seen EXCEPT ![w] = fence]
    /\ UNCHANGED <<lease, fence, engineVars, stream, emitted, lastApplied, dropped, faults>>

\* A fault: no event is ever stale.
StaleNever(tok, current) == FALSE

\* fencingDecisionForToken. No event of an owner has token 0.
Stale(tok, current) == tok # 0 /\ tok < current

\* handleEnvelope: drop a stale event, or write it to Postgres.
Decide(ev, current) ==
    IF Stale(ev.token, current)
    THEN dropped' = dropped \cup {ev} /\ UNCHANGED lastApplied
    ELSE lastApplied' = ev.token /\ UNCHANGED dropped

\* processStreamEntry: the event is handled and acknowledged.
HandleEvent(w) ==
    /\ hand[w] # None
    /\ Decide(hand[w], seen[w])
    /\ hand' = [hand EXCEPT ![w] = None]
    /\ UNCHANGED <<lease, fence, engineVars, stream, emitted, seen, pending, faults>>

\* It is not acknowledged: Postgres or Redis failed, before or after the event
\* was handled, and the worker leaves it pending and ends.
HandleFails(w) ==
    /\ Fault
    /\ hand[w] # None
    /\ Decide(hand[w], seen[w]) \/ UNCHANGED <<lastApplied, dropped>>
    /\ pending' = pending \cup {hand[w]}
    /\ hand' = [hand EXCEPT ![w] = None]
    /\ UNCHANGED <<lease, fence, engineVars, stream, emitted, seen>>

-----------------------------------------------------------------------------
EngineStep(e) ==
    \/ Acquire(e) \/ AcquireFails(e) \/ NextToken(e) \/ NextTokenFails(e) \/ LeaseLost(e)
    \/ EmitEvent(e) \/ StopConsuming(e) \/ Crash(e) \/ Restart(e)

Next ==
    \/ \E e \in Engines : EngineStep(e)
    \/ ExpireEarly \/ ExpireIdle
    \/ \E w \in DbWorkers : ReadEvent(w) \/ ReclaimEvent(w) \/ HandleEvent(w) \/ HandleFails(w)

Spec == Init /\ [][Next]_vars

\* An engine that is up goes round its loop, its renewal ticker fires, it gets
\* through its batch, and Redis expires a key that nobody renews. Two engines
\* compete for the key at every lapse, and either may win each time.
FairSpec ==
    /\ Spec
    /\ WF_vars(ExpireIdle)
    /\ \A e \in Engines :
          /\ WF_vars(Acquire(e))
          /\ WF_vars(NextToken(e))
          /\ WF_vars(LeaseLost(e))
          /\ WF_vars(pc[e] = "draining" /\ StopConsuming(e))

-----------------------------------------------------------------------------
(* Properties                                                              *)

\* No two engines ever hold the same token, however their acquisitions
\* interleave, and none holds one the counter has not handed out.
TokensUnique ==
    \A e, f \in Engines :
        /\ token[e] <= fence
        /\ e # f /\ token[e] = token[f] => token[e] = 0

\* Writes reach Postgres in the order of their tokens: once an event of a
\* newer owner is applied, no event of an older one is.
AppliedMonotone == [][lastApplied' >= lastApplied]_vars

\* An owner that goes on owning loses its lease only because it expires: no
\* engine's release, late or repeated, takes away a lease that is not its own.
HolderKeepsLease ==
    [][\A e \in Engines :
         lease = e /\ pc[e] = "own" /\ pc'[e] = "own" /\ faults' = faults => lease' = e]_vars

\* The fence never shuts out the engine that holds the lease.
HolderUnfenced ==
    \A e \in Engines : lease = e /\ pc[e] = "own" => token[e] = fence

\* Only "a stale engine (one that lost its lease and failed to notice)" has
\* its events dropped.
OnlyStaleDropped == \A ev \in dropped : ~ev.byHolder

\* Once the faults are over the partition has an owner that keeps it, unless
\* all engines are down.
FailoverCompletes ==
    \/ <>[](\E e \in Engines : lease = e /\ pc[e] = "own")
    \/ []<>(\A e \in Engines : pc[e] = "down")
=============================================================================
