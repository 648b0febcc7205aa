------------------------------- MODULE Outbox -------------------------------
(***************************************************************************)
(* The event outbox of one engine process (internal/engine/outbox.go and   *)
(* emitEventP in engine.go): an envelope is appended to a journal on disk, *)
(* added to the Redis stream events:out, published to the WebSocket        *)
(* channel if it is a trade, and then the journal is truncated. emitMu     *)
(* makes the cycles of all workers one sequence of cycles, so envelopes    *)
(* are numbered in the order of their cycles. A process that starts again  *)
(* first republishes what the journal holds (Recover).                     *)
(*                                                                         *)
(* The disk and Redis outlive the process. Each call to them may fail; one *)
(* that reports an error may have had its effect all the same.             *)
(***************************************************************************)
EXTENDS Integers, Sequences, FiniteSets

CONSTANTS
    MaxEmits,   \* bound on the envelopes the workers produce
    Trades,     \* those of them that are TRADE_EXECUTED and are broadcast
    MaxCrashes, \* bound on the crashes of the process
    RedisFails, \* may XADD and PUBLISH fail?
    DiskFails,  \* may ReadAll, Append and Reset fail?
    TornWrites  \* may a write that fails, or is cut off by a crash, leave part
                \* of a line in the file?

ASSUME OutboxAssumption ==
    /\ MaxEmits \in Nat
    /\ MaxCrashes \in Nat
    /\ Trades \subseteq 1 .. MaxEmits
    /\ RedisFails \in BOOLEAN
    /\ DiskFails \in BOOLEAN
    /\ TornWrites \in BOOLEAN

VARIABLES
    journal,  \* the lines of the journal file
    stream,   \* events:out, every XADD that took effect in order
    ws,       \* envelopes published to the WebSocket channel
    phase,    \* where the process is in emitEventP or in Recover
    emits,    \* envelopes produced; the last one is in the current cycle
    todo,     \* lines Recover has still to republish
    result,   \* what emitEventP returned for each envelope (history)
    journaled,\* envelopes whose Append returned nil (history)
    spoiled,  \* those of them written behind a torn line (history)
    failed,   \* whether a call to Redis or the disk has failed (history)
    crashes

vars == <<journal, stream, ws, phase, emits, todo, result, journaled, spoiled, failed, crashes>>

Envelopes == 1 .. MaxEmits
Elements(s) == {s[i] : i \in DOMAIN s}

\* Part of a line at the end of the journal, without its newline.
Torn == 0
EndsTorn(j) == j # << >> /\ j[Len(j)] = Torn

\* Every variable has its type.
TypeOK ==
    /\ journal \in Seq(Envelopes \cup {Torn})
    /\ stream \in Seq(Envelopes)
    /\ ws \subseteq Envelopes
    /\ phase \in {"down", "recover", "recoverPublish", "idle",
                  "append", "xadd", "publish", "reset"}
    /\ emits \in 0 .. MaxEmits
    /\ todo \in Seq(Envelopes)
    /\ result \in [Envelopes -> {"none", "ok", "error"}]
    /\ journaled \subseteq Envelopes
    /\ spoiled \subseteq journaled
    /\ failed \in BOOLEAN
    /\ crashes \in 0 .. MaxCrashes

Init ==
    /\ journal = << >>
    /\ stream = << >>
    /\ ws = {}
    /\ phase = "down"
    /\ emits = 0
    /\ todo = << >>
    /\ result = [n \in Envelopes |-> "none"]
    /\ journaled = {}
    /\ spoiled = {}
    /\ failed = FALSE
    /\ crashes = 0

\* The lines of it that can be decoded; republishEnvelope skips any other.
Lines(j) == IF EndsTorn(j) THEN SubSeq(j, 1, Len(j) - 1) ELSE j

\* The journal after the line of envelope n is written. Behind a torn line the
\* two make one line that cannot be decoded, and Recover skips it.
WriteLine(j, n) == IF EndsTorn(j) THEN Lines(j) ELSE Append(j, n)

\* What a write of it that does not complete may leave.
BrokenWrite(j, n) ==
    {j, WriteLine(j, n)} \cup
        IF TornWrites THEN {IF EndsTorn(j) THEN j ELSE Append(j, Torn)} ELSE {}

\* A call returns an error.
Note(ok) == failed' = (failed \/ ~ok)

\* Reset truncates the whole file, or fails; its callers ignore the error.
Reset ==
    \/ journal' = << >> /\ Note(TRUE)
    \/ DiskFails /\ UNCHANGED journal /\ Note(FALSE)

\* What XADD of envelope n, or PUBLISH of it, may leave behind, with `ok' the
\* result the caller sees.
XAdd(n, ok) ==
    /\ \/ ok /\ stream' = Append(stream, n)
       \/ ~ok /\ RedisFails /\ stream' \in {stream, Append(stream, n)}
    /\ Note(ok)

Publish(n, ok) ==
    /\ \/ ok /\ ws' = ws \cup {n}
       \/ ~ok /\ RedisFails /\ ws' \in {ws, ws \cup {n}}
    /\ Note(ok)

-----------------------------------------------------------------------------
(* Starting: Recover                                                       *)

\* A fault: the journal is emptied when it is read.
StartTruncates ==
    /\ phase = "down"
    /\ phase' = "recover"
    /\ todo' = Lines(journal)
    /\ journal' = << >>
    /\ UNCHANGED <<stream, ws, emits, result, journaled, spoiled, failed, crashes>>

\* A fault: the workers may start although the journal was not republished.
StartSkips ==
    /\ phase = "down"
    /\ phase' \in {"recover", "idle"}
    /\ todo' = Lines(journal)
    /\ UNCHANGED <<journal, stream, ws, emits, result, journaled, spoiled, failed, crashes>>

\* Start reads the journal. If ReadAll fails, the workers start all the same.
Start ==
    /\ phase = "down"
    /\ \/ /\ phase' = "recover"
          /\ todo' = Lines(journal)
          /\ Note(TRUE)
       \/ /\ DiskFails
          /\ phase' = "idle"
          /\ Note(FALSE)
          /\ UNCHANGED todo
    /\ UNCHANGED <<journal, stream, ws, emits, result, journaled, spoiled, crashes>>

\* A fault: recovered trades are not broadcast.
RecoverXAddOnly ==
    /\ phase = "recover"
    /\ todo # << >>
    /\ \E ok \in BOOLEAN :
          /\ XAdd(Head(todo), ok)
          /\ phase' = IF ok THEN "recover" ELSE "idle"
    /\ todo' = Tail(todo)
    /\ UNCHANGED <<journal, ws, emits, result, journaled, spoiled, crashes>>

\* A fault: an error is logged and the next line is taken.
RecoverXAddGoesOn ==
    /\ phase = "recover"
    /\ todo # << >>
    /\ \E ok \in BOOLEAN : XAdd(Head(todo), ok)
    /\ phase' = IF Head(todo) \in Trades THEN "recoverPublish" ELSE "recover"
    /\ todo' = IF Head(todo) \in Trades THEN todo ELSE Tail(todo)
    /\ UNCHANGED <<journal, ws, emits, result, journaled, spoiled, crashes>>

\* republishEnvelope adds the next line to the stream. Start logs an error of
\* Recover and goes on without it.
RecoverXAdd ==
    /\ phase = "recover"
    /\ todo # << >>
    /\ \E ok \in BOOLEAN :
          /\ XAdd(Head(todo), ok)
          /\ phase' = CASE ~ok -> "idle"
                        [] ok /\ Head(todo) \in Trades -> "recoverPublish"
                        [] OTHER -> "recover"
          /\ todo' = IF ok /\ Head(todo) \notin Trades THEN Tail(todo) ELSE todo
    /\ UNCHANGED <<journal, ws, emits, result, journaled, spoiled, crashes>>

RecoverPublish ==
    /\ phase = "recoverPublish"
    /\ \E ok \in BOOLEAN :
          /\ Publish(Head(todo), ok)
          /\ phase' = IF ok THEN "recover" ELSE "idle"
    /\ todo' = Tail(todo)
    /\ UNCHANGED <<journal, stream, emits, result, journaled, spoiled, crashes>>

\* Every line is republished: the journal is emptied, and the workers start.
RecoverDone ==
    /\ phase = "recover"
    /\ todo = << >>
    /\ phase' = "idle"
    /\ Reset
    /\ UNCHANGED <<stream, ws, emits, todo, result, journaled, spoiled, crashes>>

-----------------------------------------------------------------------------
(* emitEventP                                                              *)

\* emitEventP hands its result to the caller and unlocks emitMu.
Return(r) ==
    /\ phase' = "idle"
    /\ result' = [result EXCEPT ![emits] = r]

\* A worker locks emitMu with a new envelope.
Emit ==
    /\ phase = "idle"
    /\ emits < MaxEmits
    /\ emits' = emits + 1
    /\ phase' = "append"
    /\ UNCHANGED <<journal, stream, ws, todo, result, journaled, spoiled, failed, crashes>>

AppendOk ==
    /\ phase = "append"
    /\ journal' = WriteLine(journal, emits)
    /\ journaled' = journaled \cup {emits}
    /\ spoiled' = IF EndsTorn(journal) THEN spoiled \cup {emits} ELSE spoiled
    /\ phase' = "xadd"
    /\ UNCHANGED <<stream, ws, emits, todo, result, failed, crashes>>

\* The write or the fsync fails; the line may be on disk.
AppendFails ==
    /\ DiskFails
    /\ phase = "append"
    /\ journal' \in BrokenWrite(journal, emits)
    /\ Note(FALSE)
    /\ Return("error")
    /\ UNCHANGED <<stream, ws, emits, todo, journaled, spoiled, crashes>>

EmitXAdd ==
    /\ phase = "xadd"
    /\ \E ok \in BOOLEAN :
          /\ XAdd(emits, ok)
          /\ IF ok
             THEN /\ phase' = IF emits \in Trades THEN "publish" ELSE "reset"
                  /\ UNCHANGED result
             ELSE Return("error")
    /\ UNCHANGED <<journal, ws, emits, todo, journaled, spoiled, crashes>>

\* A fault: an error of PUBLISH is ignored.
EmitPublishIgnoresError ==
    /\ phase = "publish"
    /\ \E ok \in BOOLEAN : Publish(emits, ok)
    /\ phase' = "reset"
    /\ UNCHANGED <<journal, stream, emits, todo, result, journaled, spoiled, crashes>>

EmitPublish ==
    /\ phase = "publish"
    /\ \E ok \in BOOLEAN :
          /\ Publish(emits, ok)
          /\ IF ok THEN phase' = "reset" /\ UNCHANGED result ELSE Return("error")
    /\ UNCHANGED <<journal, stream, emits, todo, journaled, spoiled, crashes>>

\* Every target has the envelope: the journal is emptied.
EmitReset ==
    /\ phase = "reset"
    /\ Reset
    /\ Return("ok")
    /\ UNCHANGED <<stream, ws, emits, todo, journaled, spoiled, crashes>>

-----------------------------------------------------------------------------
\* The process dies, or is shut down, wherever it is.
Crash ==
    /\ phase # "down"
    /\ crashes < MaxCrashes
    /\ crashes' = crashes + 1
    /\ phase' = "down"
    /\ todo' = << >>
    /\ IF phase = "append"
       THEN journal' \in BrokenWrite(journal, emits)
       ELSE UNCHANGED journal
    /\ UNCHANGED <<stream, ws, emits, result, journaled, spoiled, failed>>

Running ==
    \/ RecoverXAdd \/ RecoverPublish \/ RecoverDone
    \/ AppendOk \/ AppendFails \/ EmitXAdd \/ EmitPublish \/ EmitReset

Next == Start \/ Emit \/ Running \/ Crash

Spec == Init /\ [][Next]_vars

\* A process that is up goes on: every call to the disk or Redis returns.
\* Nothing obliges anybody to start a process that is down.
FairSpec == Spec /\ WF_vars(Running)

-----------------------------------------------------------------------------
(* Properties                                                              *)

\* "This guarantees no trade is lost because Redis blipped": an envelope the
\* journal has accepted is still in the journal or has reached the stream.
NoneLost == journaled \subseteq Elements(journal) \cup Elements(stream)

\* That much is true of crashes, wherever they happen and whatever they leave
\* of a line, as long as every call has succeeded.
NoneLostByCrash == failed \/ NoneLost

\* The stream shows envelopes in the order they were produced, duplicates
\* left aside: no envelope arrives for the first time behind a later one.
\* A failed append to the stream leaves its envelope to the next start.
StreamInOrder ==
    failed \/ \A i, j \in DOMAIN stream :
        i < j /\ stream[j] < stream[i] => \E k \in 1 .. i : stream[k] = stream[j]

\* emitEventP returns nil only for an envelope that every target has, whatever
\* has failed before.
AckedDelivered ==
    \A n \in Envelopes :
        result[n] = "ok" => /\ n \in Elements(stream)
                            /\ n \in Trades => n \in ws

\* What is certain when Redis fails: an envelope that is neither in the stream
\* nor in the journal any more was wiped out by a Reset, that is, behind a
\* later envelope that did reach the stream; or it was written behind a torn
\* line that a failed Reset had left, and never was a line of its own.
LossOnlyBehindSuccess ==
    \A n \in journaled :
        \/ n \in Elements(journal) \cup Elements(stream)
        \/ \E m \in Elements(stream) : m > n
        \/ n \in spoiled

\* While every call succeeds, a journaled envelope reaches its targets, however
\* often the process crashes on the way, unless it is down for good.
JournaledDelivered ==
    \/ <>[](phase = "down")
    \/ <>failed
    \/ \A n \in Envelopes :
          n \in journaled ~> n \in Elements(stream) /\ (n \in Trades => n \in ws)
=============================================================================
