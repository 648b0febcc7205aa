---------------------------- MODULE OutboxProofs ----------------------------
(***************************************************************************)
(* Proofs about Outbox, for any number of envelopes and crashes, any of    *)
(* them trades, and whatever Redis, the disk and torn writes do: what      *)
(* emitEventP acknowledges has been delivered, what is lost is lost behind *)
(* a later success only, and without failing calls a crash loses nothing   *)
(* and reorders nothing.                                                   *)
(***************************************************************************)
EXTENDS Outbox, TLAPS

\* The phases of an emit, and those of a recovery.
Emitting == {"append", "xadd", "publish", "reset"}
Recovering == {"recover", "recoverPublish"}

\* Part of a line is at the end of the journal, if anywhere.
TornLast == \A i \in DOMAIN journal : journal[i] = Torn => i = Len(journal)

\* A cycle is about the last envelope, and has put it where its phase says.
CycleOK ==
    /\ phase \in Emitting => emits \in Envelopes
    /\ phase \in {"publish", "reset"} => emits \in Elements(stream)
    /\ phase = "reset" /\ emits \in Trades => emits \in ws

\* Nothing is journaled, republished or in the stream before it was produced.
ProducedOK ==
    /\ \A n \in journaled : n <= emits
    /\ \A n \in Elements(journal) : n <= emits
    /\ \A n \in Elements(todo) : n <= emits
    /\ \A n \in Elements(stream) : n <= emits

\* While Recover runs, each line of the journal is in the stream or to come,
\* and a trade is broadcast after it was added to the stream.
RecoverOK ==
    /\ phase \in Recovering => Elements(journal) \ {Torn} \subseteq Elements(stream) \cup Elements(todo)
    /\ phase = "recoverPublish" => todo # << >> /\ todo[1] \in Elements(stream)

\* As long as no call has failed: the journal is empty between two cycles and
\* holds at most the last envelope at any time, and everything journaled before
\* the current cycle is in the stream.
NoFailureOK ==
    ~failed =>
        /\ phase \in {"idle", "append"} => journal = << >>
        /\ Elements(journal) \subseteq {emits, Torn}
        /\ phase \in Recovering => Elements(todo) \subseteq {emits}
        /\ phase \in {"idle", "append"} => journaled \subseteq Elements(stream)
        /\ phase \in {"xadd", "publish", "reset"} => journaled \ {emits} \subseteq Elements(stream)
        /\ journaled \subseteq Elements(journal) \cup Elements(stream)

\* The inductive invariant.
IInv ==
    /\ TypeOK
    /\ TornLast
    /\ CycleOK
    /\ ProducedOK
    /\ RecoverOK
    /\ NoFailureOK
    /\ AckedDelivered
    /\ LossOnlyBehindSuccess
    /\ StreamInOrder

-----------------------------------------------------------------------------
(* Lemmas about sequences                                                  *)

\* What an append adds.
LEMMA AppendElements ==
    ASSUME NEW S, NEW s \in Seq(S), NEW x \in S
    PROVE  /\ Append(s, x) \in Seq(S)
           /\ Elements(Append(s, x)) = Elements(s) \cup {x}
<1>1. /\ Append(s, x) \in Seq(S)
      /\ Len(s) \in Nat /\ DOMAIN s = 1 .. Len(s)
      /\ DOMAIN Append(s, x) = 1 .. (Len(s) + 1)
      /\ \A i \in 1 .. Len(s) : Append(s, x)[i] = s[i]
      /\ Append(s, x)[Len(s) + 1] = x
    OBVIOUS
<1> DEFINE r == Append(s, x)
           n == Len(s)
<1>2. ASSUME NEW y \in Elements(r) PROVE y \in Elements(s) \cup {x}
    <2>1. PICK i \in DOMAIN r : y = r[i]
        BY DEF Elements
    <2>2. i \in 1 .. n \/ i = n + 1
        BY <1>1, <2>1
    <2> QED
        BY <1>1, <2>1, <2>2 DEF Elements
<1>3. ASSUME NEW y \in Elements(s) \cup {x} PROVE y \in Elements(r)
    <2>1. \A i \in 1 .. n : i \in DOMAIN r
        BY <1>1
    <2>2. n + 1 \in DOMAIN r
        BY <1>1
    <2> QED
        BY <1>1, <2>1, <2>2 DEF Elements
<1> QED
    BY <1>1, <1>2, <1>3

\* A sequence that is not empty is its head and its tail.
LEMMA HeadAndTail ==
    ASSUME NEW S, NEW s \in Seq(S), s # << >>
    PROVE  /\ Tail(s) \in Seq(S) /\ Head(s) = s[1] /\ Head(s) \in S
           /\ Elements(s) = {Head(s)} \cup Elements(Tail(s))
<1> DEFINE n == Len(s)
           r == Tail(s)
<1>1. /\ n \in Nat /\ n >= 1 /\ DOMAIN s = 1 .. n
      /\ r \in Seq(S) /\ Head(s) = s[1] /\ Head(s) \in S
      /\ DOMAIN r = 1 .. (n - 1)
      /\ \A i \in 1 .. (n - 1) : r[i] = s[i + 1]
    OBVIOUS
<1> HIDE DEF n, r
<1>2. ASSUME NEW y \in Elements(s) PROVE y \in {Head(s)} \cup Elements(r)
    <2>1. PICK i \in 1 .. n : y = s[i]
        BY <1>1 DEF Elements
    <2>2. CASE i = 1
        BY <1>1, <2>1, <2>2
    <2>3. CASE i # 1
        <3>1. i - 1 \in 1 .. (n - 1) /\ (i - 1) + 1 = i
            BY <1>1, <2>1, <2>3
        <3>2. r[i - 1] = s[i]
            BY <1>1, <3>1
        <3> QED
            BY <1>1, <2>1, <3>1, <3>2 DEF Elements
    <2> QED
        BY <2>2, <2>3
<1>3. ASSUME NEW y \in Elements(r) PROVE y \in Elements(s)
    <2>1. PICK i \in 1 .. (n - 1) : y = r[i]
        BY <1>1 DEF Elements
    <2>2. i + 1 \in 1 .. n
        BY <1>1, <2>1
    <2> QED
        BY <1>1, <2>1, <2>2 DEF Elements
<1>4. Head(s) \in Elements(s)
    <2>1. 1 \in 1 .. n
        BY <1>1
    <2> QED
        BY <1>1, <2>1 DEF Elements
<1> QED
    BY <1>1, <1>2, <1>3, <1>4 DEF r

\* The lines that can be decoded are those that are whole.
LEMMA LinesProperties ==
    ASSUME NEW j \in Seq(Envelopes \cup {Torn}),
           \A i \in DOMAIN j : j[i] = Torn => i = Len(j)
    PROVE  /\ Lines(j) \in Seq(Envelopes)
           /\ Elements(Lines(j)) = Elements(j) \ {Torn}
           /\ \A i \in DOMAIN Lines(j) : Lines(j)[i] # Torn
<1> DEFINE n == Len(j)
<1>1. n \in Nat /\ DOMAIN j = 1 .. n /\ \A i \in 1 .. n : j[i] \in Envelopes \cup {Torn}
    OBVIOUS
<1>2. Torn \notin Envelopes
    BY DEF Torn, Envelopes
<1>3. CASE EndsTorn(j)
    <2>1. n >= 1 /\ j[n] = Torn
        BY <1>1, <1>3 DEF EndsTorn
    <2> DEFINE r == SubSeq(j, 1, n - 1)
    <2>2. Lines(j) = r
        BY <1>3 DEF Lines
    <2>3. /\ DOMAIN r = 1 .. (n - 1) /\ Len(r) = n - 1
          /\ \A i \in 1 .. (n - 1) : r[i] = j[i]
          /\ r = [i \in 1 .. (n - 1) |-> j[i]]
        BY <1>1, <2>1
    <2>4. \A i \in 1 .. (n - 1) : i \in 1 .. n /\ j[i] # Torn
        BY <1>1, <2>1
    <2> HIDE DEF r
    <2>5. r \in Seq(Envelopes)
        BY <1>1, <2>1, <2>3, <2>4
    <2>6. ASSUME NEW y \in Elements(j) \ {Torn} PROVE y \in Elements(r)
        <3>1. PICK i \in 1 .. n : y = j[i]
            BY <1>1 DEF Elements
        <3>2. i # n
            BY <2>1, <3>1, <2>6
        <3>3. i \in 1 .. (n - 1)
            <4> HIDE DEF n
            <4> QED
                BY <1>1, <3>1, <3>2
        <3> QED
            BY <2>3, <3>1, <3>3 DEF Elements
    <2>7. Elements(r) \subseteq Elements(j) \ {Torn}
        BY <1>1, <2>3, <2>4 DEF Elements
    <2> QED
        BY <2>2, <2>3, <2>4, <2>5, <2>6, <2>7
<1>4. CASE ~EndsTorn(j)
    <2>1. Lines(j) = j
        BY <1>4 DEF Lines
    <2>2. ASSUME NEW i \in 1 .. n PROVE j[i] # Torn
        <3>1. j[i] = Torn => i = n
            BY <1>1
        <3>2. j # << >>
            BY <1>1
        <3> QED
            BY <1>4, <3>1, <3>2 DEF EndsTorn
    <2>3. j \in Seq(Envelopes)
        BY <1>1, <2>2
    <2> QED
        BY <1>1, <2>1, <2>2, <2>3 DEF Elements
<1> QED
    BY <1>3, <1>4

\* Envelopes are numbers, and so is what a torn line counts as.
LEMMA ElementsNat ==
    ASSUME TypeOK
    PROVE  \A n \in journaled \cup Elements(journal) \cup Elements(todo) \cup Elements(stream) :
              n \in Nat
<1>1. Envelopes \subseteq Nat /\ Torn \in Nat
    BY DEF Envelopes, Torn
<1>2. \A S : \A s \in Seq(S) : Elements(s) \subseteq S
    BY DEF Elements
<1>3. /\ Elements(journal) \subseteq Envelopes \cup {Torn}
      /\ Elements(todo) \subseteq Envelopes /\ Elements(stream) \subseteq Envelopes
      /\ journaled \subseteq Envelopes
    BY <1>2 DEF TypeOK
<1> QED
    BY <1>1, <1>3

\* The order StreamInOrder asks for, of any sequence.
InOrder(s) ==
    \A i, j \in DOMAIN s : i < j /\ s[j] < s[i] => \E k \in 1 .. i : s[k] = s[j]

\* It survives adding an envelope that is there already or is the latest.
LEMMA InOrderAppend ==
    ASSUME NEW s \in Seq(Envelopes), InOrder(s), NEW n \in Envelopes,
           n \in Elements(s) \/ \A m \in Elements(s) : m <= n
    PROVE  InOrder(Append(s, n))
<1> DEFINE r == Append(s, n)
           l == Len(s)
<1>1. /\ l \in Nat /\ DOMAIN s = 1 .. l
      /\ DOMAIN r = 1 .. (l + 1)
      /\ \A i \in 1 .. l : r[i] = s[i]
      /\ r[l + 1] = n
    OBVIOUS
<1>2. \A i \in 1 .. l : s[i] \in Elements(s) /\ s[i] \in Nat
    <2>1. \A i \in 1 .. l : s[i] \in Envelopes
        BY <1>1
    <2> QED
        BY <1>1, <2>1 DEF Elements, Envelopes
<1> HIDE DEF r, l
<1> SUFFICES ASSUME NEW i \in 1 .. (l + 1), NEW j \in 1 .. (l + 1), i < j, r[j] < r[i]
             PROVE  \E k \in 1 .. i : r[k] = r[j]
    BY <1>1 DEF InOrder, r
<1>3. i \in 1 .. l /\ 1 .. i \subseteq 1 .. l
    BY <1>1
<1>4. CASE j \in 1 .. l
    <2>1. \E k \in 1 .. i : s[k] = s[j]
        BY <1>1, <1>3, <1>4 DEF InOrder
    <2> QED
        BY <1>1, <1>3, <1>4, <2>1
<1>5. CASE j = l + 1
    <2>1. n < s[i] /\ n \in Nat
        BY <1>1, <1>3, <1>5 DEF Envelopes
    <2>2. n \in Elements(s)
        BY <1>2, <1>3, <2>1
    <2>3. PICK m \in 1 .. l : s[m] = n
        BY <1>1, <2>2 DEF Elements
    <2>4. \E k \in 1 .. i : s[k] = n
        <3>1. CASE m <= i
            BY <1>1, <1>3, <2>3, <3>1
        <3>2. CASE i < m
            BY <1>1, <1>3, <2>1, <2>3, <3>2 DEF InOrder
        <3> QED
            BY <1>1, <1>3, <2>3, <3>1, <3>2
    <2> QED
        BY <1>1, <1>3, <1>5, <2>4
<1> QED
    BY <1>1, <1>4, <1>5

\* What a write that completes leaves of the journal.
LEMMA WriteLineProperties ==
    ASSUME TypeOK, TornLast, NEW n \in Envelopes
    PROVE  /\ WriteLine(journal, n) \in Seq(Envelopes \cup {Torn})
           /\ \A i \in DOMAIN WriteLine(journal, n) :
                 WriteLine(journal, n)[i] = Torn => i = Len(WriteLine(journal, n))
           /\ Elements(journal) \ {Torn} \subseteq Elements(WriteLine(journal, n))
           /\ Elements(WriteLine(journal, n)) \subseteq Elements(journal) \cup {n}
           /\ ~EndsTorn(journal) => n \in Elements(WriteLine(journal, n))
<1> DEFINE w == WriteLine(journal, n)
<1>1. journal \in Seq(Envelopes \cup {Torn})
    BY DEF TypeOK
<1>2. CASE EndsTorn(journal)
    <2>1. w = Lines(journal)
        BY <1>2 DEF WriteLine
    <2>2. /\ w \in Seq(Envelopes)
          /\ Elements(w) = Elements(journal) \ {Torn}
          /\ \A i \in DOMAIN w : w[i] # Torn
        BY <1>1, <2>1, LinesProperties DEF TornLast
    <2> QED
        BY <1>2, <2>2
<1>3. CASE ~EndsTorn(journal)
    <2>1. w = Append(journal, n)
        BY <1>3 DEF WriteLine
    <2>2. Elements(w) = Elements(journal) \cup {n} /\ w \in Seq(Envelopes \cup {Torn})
        BY <1>1, <2>1, AppendElements
    <2>3. \A i \in DOMAIN w : w[i] # Torn
        <3>1. n # Torn
            BY DEF Envelopes, Torn
        <3>2. Lines(journal) = journal
            BY <1>3 DEF Lines
        <3>3. \A i \in DOMAIN journal : journal[i] # Torn
            BY <1>1, <3>2, LinesProperties DEF TornLast
        <3> QED
            BY <1>1, <2>1, <3>1, <3>3
    <2> QED
        BY <2>2, <2>3
<1> QED
    BY <1>2, <1>3

\* What a write that does not complete leaves: no line is lost, and no other
\* than the one to be written is added.
LEMMA BrokenWriteProperties ==
    ASSUME TypeOK, TornLast, NEW n \in Envelopes, NEW j \in BrokenWrite(journal, n)
    PROVE  /\ j \in Seq(Envelopes \cup {Torn})
           /\ \A i \in DOMAIN j : j[i] = Torn => i = Len(j)
           /\ Elements(journal) \ {Torn} \subseteq Elements(j)
           /\ Elements(j) \subseteq Elements(journal) \cup {n, Torn}
<1>1. journal \in Seq(Envelopes \cup {Torn})
    BY DEF TypeOK
<1>2. CASE j = journal
    BY <1>1, <1>2 DEF TornLast
<1>3. CASE j = WriteLine(journal, n)
    BY <1>3, WriteLineProperties
<1>4. CASE j = Append(journal, Torn) /\ ~EndsTorn(journal)
    <2>1. Elements(j) = Elements(journal) \cup {Torn} /\ j \in Seq(Envelopes \cup {Torn})
        BY <1>1, <1>4, AppendElements
    <2>2. Lines(journal) = journal
        BY <1>4 DEF Lines
    <2>3. \A i \in DOMAIN journal : journal[i] # Torn
        BY <1>1, <2>2, LinesProperties DEF TornLast
    <2>4. \A i \in DOMAIN j : j[i] = Torn => i = Len(j)
        BY <1>1, <1>4, <2>3
    <2> QED
        BY <2>1, <2>4
<1> QED
    BY <1>2, <1>3, <1>4 DEF BrokenWrite

\* A call that adds an envelope to the stream, and reports what it likes.
LEMMA XAddProperties ==
    ASSUME TypeOK, NEW n \in Envelopes, NEW ok \in BOOLEAN, XAdd(n, ok)
    PROVE  /\ stream' \in {stream, Append(stream, n)}
           /\ stream' \in Seq(Envelopes)
           /\ Elements(stream) \subseteq Elements(stream')
           /\ Elements(stream') \subseteq Elements(stream) \cup {n}
           /\ ok => n \in Elements(stream')
           /\ failed' \in BOOLEAN /\ (failed' <=> failed \/ ~ok)
<1>1. stream \in Seq(Envelopes) /\ failed \in BOOLEAN
    BY DEF TypeOK
<1>2. /\ Append(stream, n) \in Seq(Envelopes)
      /\ Elements(Append(stream, n)) = Elements(stream) \cup {n}
    BY <1>1, AppendElements
<1>3. stream' \in {stream, Append(stream, n)} /\ (ok => stream' = Append(stream, n))
    BY DEF XAdd
<1>4. failed' \in BOOLEAN /\ (failed' <=> failed \/ ~ok)
    BY <1>1 DEF XAdd, Note
<1> QED
    BY <1>1, <1>2, <1>3, <1>4

-----------------------------------------------------------------------------
(* The invariant                                                           *)

\* An outbox that has just been created.
LEMMA InitOK == Init => IInv
<1> SUFFICES ASSUME Init PROVE IInv
    OBVIOUS
<1>1. Elements(<< >>) = {}
    BY DEF Elements
<1>2. TypeOK
    <2>1. 0 \in 0 .. MaxEmits /\ 0 \in 0 .. MaxCrashes
        BY OutboxAssumption
    <2>2. journal \in Seq(Envelopes \cup {Torn}) /\ stream \in Seq(Envelopes) /\ todo \in Seq(Envelopes)
        BY DEF Init
    <2>3. result \in [Envelopes -> {"none", "ok", "error"}]
        BY DEF Init
    <2>4. failed \in BOOLEAN
        BY Zenon DEF Init
    <2> QED
        BY <2>1, <2>2, <2>3, <2>4 DEF Init, TypeOK
<1>3. TornLast /\ StreamInOrder
    BY DEF Init, TornLast, StreamInOrder
<1>4. CycleOK /\ RecoverOK
    BY DEF Init, CycleOK, RecoverOK, Emitting, Recovering
<1>5. ProducedOK /\ NoFailureOK
    BY <1>1 DEF Init, ProducedOK, NoFailureOK, Recovering
<1>6. AckedDelivered /\ LossOnlyBehindSuccess
    BY DEF Init, AckedDelivered, LossOnlyBehindSuccess
<1> QED
    BY <1>2, <1>3, <1>4, <1>5, <1>6 DEF IInv

\* Reading the journal takes all its whole lines.
LEMMA StartOK ==
    ASSUME IInv, Start
    PROVE  IInv'
<1>1. /\ phase = "down"
      /\ UNCHANGED <<journal, stream, ws, emits, result, journaled, spoiled, crashes>>
      /\ \/ phase' = "recover" /\ todo' = Lines(journal) /\ Note(TRUE)
         \/ phase' = "idle" /\ UNCHANGED todo /\ Note(FALSE)
    BY DEF Start
<1>2. /\ Lines(journal) \in Seq(Envelopes)
      /\ Elements(Lines(journal)) = Elements(journal) \ {Torn}
    BY LinesProperties DEF IInv, TypeOK, TornLast
<1>3. failed' \in BOOLEAN /\ (failed => failed') /\ (phase' = "idle" => failed')
    BY <1>1 DEF Note, IInv, TypeOK
<1>4. TypeOK'
    BY <1>1, <1>2, <1>3 DEF IInv, TypeOK
<1>5. TornLast' /\ AckedDelivered' /\ LossOnlyBehindSuccess' /\ ProducedOK'
    BY <1>1, <1>2 DEF IInv, TornLast, AckedDelivered, LossOnlyBehindSuccess, ProducedOK
<1>6. CycleOK'
    BY <1>1 DEF CycleOK, Emitting
<1>7. RecoverOK'
    BY <1>1, <1>2 DEF RecoverOK, Recovering
<1>8. NoFailureOK'
    BY <1>1, <1>2, <1>3 DEF IInv, NoFailureOK, Recovering
<1>9. StreamInOrder'
    BY <1>1, <1>3 DEF IInv, StreamInOrder
<1> QED
    BY <1>4, <1>5, <1>6, <1>7, <1>8, <1>9 DEF IInv

\* A new cycle.
LEMMA EmitOK ==
    ASSUME IInv, Emit
    PROVE  IInv'
<1>1. /\ phase = "idle" /\ emits < MaxEmits /\ emits' = emits + 1 /\ phase' = "append"
      /\ UNCHANGED <<journal, stream, ws, todo, result, journaled, spoiled, failed, crashes>>
    BY DEF Emit
<1>2. emits \in Nat /\ MaxEmits \in Nat /\ emits' \in 0 .. MaxEmits /\ emits' \in Envelopes
    BY <1>1, OutboxAssumption DEF IInv, TypeOK, Envelopes
<1>3. \A n \in journaled \cup Elements(journal) \cup Elements(todo) \cup Elements(stream) :
         n \in Nat
    BY ElementsNat DEF IInv
<1>4. Elements(<< >>) = {}
    BY DEF Elements
<1>5. TypeOK'
    BY <1>1, <1>2 DEF IInv, TypeOK
<1>6. TornLast' /\ AckedDelivered' /\ LossOnlyBehindSuccess' /\ StreamInOrder'
    BY <1>1 DEF IInv, TornLast, AckedDelivered, LossOnlyBehindSuccess, StreamInOrder
<1>7. ProducedOK'
    BY <1>1, <1>2, <1>3 DEF IInv, ProducedOK
<1>8. CycleOK' /\ RecoverOK'
    BY <1>1, <1>2 DEF CycleOK, RecoverOK, Recovering
<1>9. NoFailureOK'
    BY <1>1, <1>4 DEF IInv, NoFailureOK, Recovering
<1> QED
    BY <1>5, <1>6, <1>7, <1>8, <1>9 DEF IInv

\* What an XADD keeps, whoever calls it: the stream only grows, and an envelope
\* added by a call that succeeded is one that may be added.
LEMMA XAddKeeps ==
    ASSUME IInv, NEW n \in Envelopes, NEW ok \in BOOLEAN, XAdd(n, ok),
           n <= emits, ~failed => n = emits,
           UNCHANGED <<journal, ws, emits, journaled, spoiled>>,
           Elements(todo') \subseteq Elements(todo),
           \A m \in Envelopes : result'[m] = "ok" => result[m] = "ok"
    PROVE  ProducedOK' /\ AckedDelivered' /\ LossOnlyBehindSuccess' /\ StreamInOrder'
<1>1. /\ stream' \in {stream, Append(stream, n)}
      /\ Elements(stream) \subseteq Elements(stream')
      /\ Elements(stream') \subseteq Elements(stream) \cup {n}
      /\ failed' <=> failed \/ ~ok
    BY XAddProperties DEF IInv
<1>2. ProducedOK'
    BY <1>1 DEF IInv, ProducedOK
<1>3. AckedDelivered'
    BY <1>1 DEF IInv, AckedDelivered
<1>4. LossOnlyBehindSuccess'
    BY <1>1 DEF IInv, LossOnlyBehindSuccess
<1>5. StreamInOrder'
    <2> SUFFICES ASSUME ~failed' PROVE InOrder(stream')
        BY DEF StreamInOrder, InOrder
    <2>1. InOrder(stream)
        BY <1>1 DEF IInv, StreamInOrder, InOrder
    <2>2. \A m \in Elements(stream) : m <= n
        BY <1>1 DEF IInv, ProducedOK
    <2>3. stream \in Seq(Envelopes)
        BY DEF IInv, TypeOK
    <2>4. InOrder(Append(stream, n))
        BY <2>1, <2>2, <2>3, InOrderAppend
    <2> QED
        BY <1>1, <2>1, <2>4
<1> QED
    BY <1>2, <1>3, <1>4, <1>5

\* republishEnvelope: the first of the lines still to come is added.
LEMMA RecoverXAddOK ==
    ASSUME IInv, RecoverXAdd
    PROVE  IInv'
<1> DEFINE n == Head(todo)
<1>1. PICK ok \in BOOLEAN :
        /\ XAdd(n, ok)
        /\ phase' = CASE ~ok -> "idle"
                      [] ok /\ n \in Trades -> "recoverPublish"
                      [] OTHER -> "recover"
        /\ todo' = IF ok /\ n \notin Trades THEN Tail(todo) ELSE todo
    BY DEF RecoverXAdd
<1>2. /\ phase = "recover" /\ todo # << >>
      /\ UNCHANGED <<journal, ws, emits, result, journaled, spoiled, crashes>>
    BY DEF RecoverXAdd
<1>3. /\ Tail(todo) \in Seq(Envelopes) /\ n = todo[1] /\ n \in Envelopes
      /\ Elements(todo) = {n} \cup Elements(Tail(todo))
    BY <1>2, HeadAndTail DEF IInv, TypeOK
<1> HIDE DEF n
<1>4. /\ stream' \in Seq(Envelopes)
      /\ Elements(stream) \subseteq Elements(stream')
      /\ Elements(stream') \subseteq Elements(stream) \cup {n}
      /\ ok => n \in Elements(stream')
      /\ failed' \in BOOLEAN /\ (failed' <=> failed \/ ~ok)
    BY <1>1, <1>3, XAddProperties DEF IInv
<1>5. /\ ~ok => phase' = "idle" /\ todo' = todo
      /\ ok /\ n \in Trades => phase' = "recoverPublish" /\ todo' = todo
      /\ ok /\ n \notin Trades => phase' = "recover" /\ todo' = Tail(todo)
    BY <1>1
<1>6. TypeOK'
    BY <1>2, <1>3, <1>4, <1>5 DEF IInv, TypeOK
<1>7. TornLast' /\ CycleOK'
    BY <1>2, <1>5 DEF IInv, TornLast, CycleOK, Emitting
<1>8. RecoverOK'
    BY <1>2, <1>3, <1>4, <1>5 DEF IInv, RecoverOK, Recovering
<1>9. ~failed => n = emits
    BY <1>2, <1>3 DEF IInv, NoFailureOK, Recovering
<1>10. NoFailureOK'
    BY <1>2, <1>3, <1>4, <1>5 DEF IInv, NoFailureOK, Recovering
<1>11. n <= emits /\ Elements(todo') \subseteq Elements(todo)
    BY <1>1, <1>3 DEF IInv, ProducedOK
<1>12. ProducedOK' /\ AckedDelivered' /\ LossOnlyBehindSuccess' /\ StreamInOrder'
    BY <1>1, <1>2, <1>3, <1>9, <1>11, XAddKeeps
<1> QED
    BY <1>6, <1>7, <1>8, <1>10, <1>12 DEF IInv

\* What a PUBLISH keeps, whoever calls it: nothing but the channel changes.
LEMMA PublishProperties ==
    ASSUME TypeOK, NEW n \in Envelopes, NEW ok \in BOOLEAN, Publish(n, ok)
    PROVE  /\ ws' \subseteq Envelopes /\ ws \subseteq ws'
           /\ ok => n \in ws'
           /\ failed' \in BOOLEAN /\ (failed' <=> failed \/ ~ok)
<1>1. ws' \in {ws, ws \cup {n}} /\ (ok => ws' = ws \cup {n})
    BY DEF Publish
<1>2. failed' \in BOOLEAN /\ (failed' <=> failed \/ ~ok)
    BY DEF Publish, Note, TypeOK
<1> QED
    BY <1>1, <1>2 DEF TypeOK

\* republishEnvelope: the first of the lines still to come is broadcast.
LEMMA RecoverPublishOK ==
    ASSUME IInv, RecoverPublish
    PROVE  IInv'
<1> DEFINE n == Head(todo)
<1>1. PICK ok \in BOOLEAN : Publish(n, ok) /\ phase' = IF ok THEN "recover" ELSE "idle"
    BY DEF RecoverPublish
<1>2. /\ phase = "recoverPublish" /\ todo' = Tail(todo)
      /\ UNCHANGED <<journal, stream, emits, result, journaled, spoiled, crashes>>
    BY DEF RecoverPublish
<1>3. todo # << >> /\ todo[1] \in Elements(stream)
    BY <1>2 DEF IInv, RecoverOK
<1>4. /\ Tail(todo) \in Seq(Envelopes) /\ n = todo[1] /\ n \in Envelopes
      /\ Elements(todo) = {n} \cup Elements(Tail(todo))
    BY <1>3, HeadAndTail DEF IInv, TypeOK
<1> HIDE DEF n
<1>5. /\ ws' \subseteq Envelopes /\ ws \subseteq ws'
      /\ failed' \in BOOLEAN /\ (failed' <=> failed \/ ~ok)
    BY <1>1, <1>4, PublishProperties DEF IInv
<1>6. TypeOK'
    BY <1>1, <1>2, <1>4, <1>5 DEF IInv, TypeOK
<1>7. TornLast' /\ CycleOK' /\ ProducedOK'
    BY <1>1, <1>2, <1>4 DEF IInv, TornLast, CycleOK, Emitting, ProducedOK
<1>8. RecoverOK'
    BY <1>1, <1>2, <1>3, <1>4 DEF IInv, RecoverOK, Recovering
<1>9. NoFailureOK'
    BY <1>1, <1>2, <1>4, <1>5 DEF IInv, NoFailureOK, Recovering
<1>10. AckedDelivered' /\ LossOnlyBehindSuccess'
    BY <1>2, <1>5 DEF IInv, AckedDelivered, LossOnlyBehindSuccess
<1>11. StreamInOrder'
    BY <1>2, <1>5 DEF IInv, StreamInOrder
<1> QED
    BY <1>6, <1>7, <1>8, <1>9, <1>10, <1>11 DEF IInv

\* The truncation of the journal, which its callers do not look at.
LEMMA ResetProperties ==
    ASSUME TypeOK, TornLast, Reset
    PROVE  /\ journal' \in {<< >>, journal}
           /\ journal' \in Seq(Envelopes \cup {Torn})
           /\ TornLast'
           /\ Elements(journal') \subseteq Elements(journal)
           /\ failed' \in BOOLEAN /\ (failed => failed')
           /\ ~failed' => journal' = << >>
<1>1. failed' \in BOOLEAN /\ (failed => failed') /\ (~failed' => journal' = << >>)
    BY DEF Reset, Note, TypeOK
<1>2. journal' \in {<< >>, journal}
    BY DEF Reset
<1>3. Elements(<< >>) = {}
    BY DEF Elements
<1>4. TornLast'
    <2>1. CASE journal' = journal
        BY <2>1 DEF TornLast
    <2>2. CASE journal' = << >>
        BY <2>2 DEF TornLast
    <2> QED
        BY <1>2, <2>1, <2>2
<1>5. journal' \in Seq(Envelopes \cup {Torn})
    <2>1. << >> \in Seq(Envelopes \cup {Torn}) /\ journal \in Seq(Envelopes \cup {Torn})
        BY DEF TypeOK
    <2> QED
        BY <1>2, <2>1, Zenon
<1>6. Elements(journal') \subseteq Elements(journal)
    BY <1>2, <1>3
<1> QED
    BY <1>1, <1>2, <1>4, <1>5, <1>6

\* Recover empties the journal when every line of it is in the stream.
LEMMA RecoverDoneOK ==
    ASSUME IInv, RecoverDone
    PROVE  IInv'
<1>1. /\ phase = "recover" /\ todo = << >> /\ phase' = "idle" /\ Reset
      /\ UNCHANGED <<stream, ws, emits, todo, result, journaled, spoiled, crashes>>
    BY DEF RecoverDone
<1>2. /\ journal' \in {<< >>, journal}
      /\ journal' \in Seq(Envelopes \cup {Torn})
      /\ TornLast'
      /\ Elements(journal') \subseteq Elements(journal)
      /\ failed' \in BOOLEAN /\ (failed => failed')
      /\ ~failed' => journal' = << >>
    BY <1>1, ResetProperties DEF IInv
<1>3. Elements(<< >>) = {}
    BY DEF Elements
<1>4. Elements(journal) \ {Torn} \subseteq Elements(stream)
    BY <1>1, <1>3 DEF IInv, RecoverOK, Recovering
<1>5. \A n \in journaled : n # Torn
    BY DEF IInv, TypeOK, Envelopes, Torn
<1>6. TypeOK'
    BY <1>1, <1>2 DEF IInv, TypeOK
<1>7. CycleOK' /\ ProducedOK' /\ RecoverOK'
    BY <1>1, <1>2 DEF IInv, CycleOK, Emitting, ProducedOK, RecoverOK, Recovering
<1>8. NoFailureOK'
    BY <1>1, <1>2, <1>3, <1>4, <1>5 DEF IInv, NoFailureOK, Recovering
<1>9. AckedDelivered'
    BY <1>1 DEF IInv, AckedDelivered
<1>10. LossOnlyBehindSuccess'
    BY <1>1, <1>4, <1>5 DEF IInv, LossOnlyBehindSuccess
<1>11. StreamInOrder'
    BY <1>1, <1>2 DEF IInv, StreamInOrder
<1> QED
    BY <1>2, <1>6, <1>7, <1>8, <1>9, <1>10, <1>11 DEF IInv

\* The envelope of the cycle is written to the journal.
LEMMA AppendOkOK ==
    ASSUME IInv, AppendOk
    PROVE  IInv'
<1>1. /\ phase = "append" /\ journal' = WriteLine(journal, emits)
      /\ journaled' = journaled \cup {emits}
      /\ spoiled' = IF EndsTorn(journal) THEN spoiled \cup {emits} ELSE spoiled
      /\ phase' = "xadd"
      /\ UNCHANGED <<stream, ws, emits, todo, result, failed, crashes>>
    BY DEF AppendOk
<1>2. emits \in Envelopes /\ emits \in Nat
    BY <1>1 DEF IInv, CycleOK, Emitting, Envelopes
<1>3. /\ journal' \in Seq(Envelopes \cup {Torn})
      /\ TornLast'
      /\ Elements(journal) \ {Torn} \subseteq Elements(journal')
      /\ Elements(journal') \subseteq Elements(journal) \cup {emits}
      /\ ~EndsTorn(journal) => emits \in Elements(journal')
    BY <1>1, <1>2, WriteLineProperties DEF IInv, TornLast
<1>4. \A n \in journaled : n # Torn
    BY DEF IInv, TypeOK, Envelopes, Torn
<1>5. ~failed => ~EndsTorn(journal)
    BY <1>1 DEF IInv, NoFailureOK, EndsTorn
<1>6. TypeOK'
    BY <1>1, <1>2, <1>3 DEF IInv, TypeOK
<1>7. CycleOK' /\ RecoverOK'
    BY <1>1, <1>2 DEF IInv, CycleOK, RecoverOK, Recovering
<1>8. ProducedOK'
    BY <1>1, <1>2, <1>3 DEF IInv, ProducedOK
<1>9. NoFailureOK'
    BY <1>1, <1>3, <1>4, <1>5 DEF IInv, NoFailureOK, Recovering
<1>10. AckedDelivered' /\ StreamInOrder'
    BY <1>1 DEF IInv, AckedDelivered, StreamInOrder
<1>11. LossOnlyBehindSuccess'
    BY <1>1, <1>3, <1>4 DEF IInv, LossOnlyBehindSuccess
<1> QED
    BY <1>3, <1>6, <1>7, <1>8, <1>9, <1>10, <1>11 DEF IInv

\* It is not, or not as far as the process knows.
LEMMA AppendFailsOK ==
    ASSUME IInv, AppendFails
    PROVE  IInv'
<1>1. /\ phase = "append" /\ journal' \in BrokenWrite(journal, emits)
      /\ phase' = "idle" /\ result' = [result EXCEPT ![emits] = "error"] /\ Note(FALSE)
      /\ UNCHANGED <<stream, ws, emits, todo, journaled, spoiled, crashes>>
    BY DEF AppendFails, Return
<1>2. emits \in Envelopes /\ emits \in Nat
    BY <1>1 DEF IInv, CycleOK, Emitting, Envelopes
<1>3. /\ journal' \in Seq(Envelopes \cup {Torn})
      /\ TornLast'
      /\ Elements(journal) \ {Torn} \subseteq Elements(journal')
      /\ Elements(journal') \subseteq Elements(journal) \cup {emits, Torn}
    BY <1>1, <1>2, BrokenWriteProperties DEF IInv, TornLast
<1>4. \A n \in journaled : n # Torn
    BY DEF IInv, TypeOK, Envelopes, Torn
<1>5. failed' \in BOOLEAN /\ failed'
    BY <1>1 DEF Note, IInv, TypeOK
<1>6. TypeOK'
    BY <1>1, <1>2, <1>3, <1>5 DEF IInv, TypeOK
<1>7. CycleOK' /\ RecoverOK'
    BY <1>1 DEF CycleOK, Emitting, RecoverOK, Recovering
<1>8. ProducedOK'
    BY <1>1, <1>2, <1>3 DEF IInv, ProducedOK, Torn
<1>9. NoFailureOK' /\ StreamInOrder'
    BY <1>5 DEF NoFailureOK, StreamInOrder
<1>10. AckedDelivered'
    BY <1>1, <1>2 DEF IInv, AckedDelivered, TypeOK
<1>11. LossOnlyBehindSuccess'
    BY <1>1, <1>3, <1>4 DEF IInv, LossOnlyBehindSuccess
<1> QED
    BY <1>3, <1>6, <1>7, <1>8, <1>9, <1>10, <1>11 DEF IInv

\* The envelope of the cycle is added to the stream.
LEMMA EmitXAddOK ==
    ASSUME IInv, EmitXAdd
    PROVE  IInv'
<1>1. PICK ok \in BOOLEAN :
        /\ XAdd(emits, ok)
        /\ ok => phase' = (IF emits \in Trades THEN "publish" ELSE "reset") /\ result' = result
        /\ ~ok => phase' = "idle" /\ result' = [result EXCEPT ![emits] = "error"]
    BY DEF EmitXAdd, Return
<1>2. /\ phase = "xadd" /\ UNCHANGED <<journal, ws, emits, todo, journaled, spoiled, crashes>>
    BY DEF EmitXAdd
<1>3. emits \in Envelopes
    BY <1>2 DEF IInv, CycleOK, Emitting
<1>4. /\ stream' \in Seq(Envelopes)
      /\ Elements(stream) \subseteq Elements(stream')
      /\ ok => emits \in Elements(stream')
      /\ failed' \in BOOLEAN /\ (failed' <=> failed \/ ~ok)
    BY <1>1, <1>3, XAddProperties DEF IInv
<1>5. \A m \in Envelopes : result'[m] = "ok" => result[m] = "ok"
    BY <1>1, <1>3 DEF IInv, TypeOK
<1>6. TypeOK'
    <2>1. result' \in [Envelopes -> {"none", "ok", "error"}]
        BY <1>1, <1>3 DEF IInv, TypeOK
    <2> QED
        BY <1>1, <1>2, <1>4, <2>1 DEF IInv, TypeOK
<1>7. TornLast' /\ CycleOK' /\ RecoverOK'
    BY <1>1, <1>2, <1>3, <1>4 DEF IInv, TornLast, CycleOK, Emitting, RecoverOK, Recovering
<1>8. NoFailureOK'
    BY <1>1, <1>2, <1>4 DEF IInv, NoFailureOK, Recovering
<1>9. emits <= emits
    BY DEF IInv, TypeOK
<1>10. ProducedOK' /\ AckedDelivered' /\ LossOnlyBehindSuccess' /\ StreamInOrder'
    BY <1>1, <1>2, <1>3, <1>5, <1>9, XAddKeeps
<1> QED
    BY <1>6, <1>7, <1>8, <1>10 DEF IInv

\* It is broadcast.
LEMMA EmitPublishOK ==
    ASSUME IInv, EmitPublish
    PROVE  IInv'
<1>1. PICK ok \in BOOLEAN :
        /\ Publish(emits, ok)
        /\ ok => phase' = "reset" /\ result' = result
        /\ ~ok => phase' = "idle" /\ result' = [result EXCEPT ![emits] = "error"]
    BY DEF EmitPublish, Return
<1>2. /\ phase = "publish"
      /\ UNCHANGED <<journal, stream, emits, todo, journaled, spoiled, crashes>>
    BY DEF EmitPublish
<1>3. emits \in Envelopes
    BY <1>2 DEF IInv, CycleOK, Emitting
<1>4. /\ ws' \subseteq Envelopes /\ ws \subseteq ws' /\ (ok => emits \in ws')
      /\ failed' \in BOOLEAN /\ (failed' <=> failed \/ ~ok)
    BY <1>1, <1>3, PublishProperties DEF IInv
<1>5. /\ result' \in [Envelopes -> {"none", "ok", "error"}]
      /\ \A m \in Envelopes : result'[m] = "ok" => result[m] = "ok"
    BY <1>1, <1>3 DEF IInv, TypeOK
<1>6. TypeOK'
    BY <1>1, <1>2, <1>4, <1>5 DEF IInv, TypeOK
<1>7. TornLast' /\ ProducedOK' /\ LossOnlyBehindSuccess'
    BY <1>2 DEF IInv, TornLast, ProducedOK, LossOnlyBehindSuccess
<1>8. CycleOK' /\ RecoverOK'
    BY <1>1, <1>2, <1>3, <1>4 DEF IInv, CycleOK, Emitting, RecoverOK, Recovering
<1>9. NoFailureOK'
    BY <1>1, <1>2, <1>4 DEF IInv, NoFailureOK, Recovering
<1>10. AckedDelivered'
    BY <1>2, <1>4, <1>5 DEF IInv, AckedDelivered
<1>11. StreamInOrder'
    BY <1>2, <1>4 DEF IInv, StreamInOrder
<1> QED
    BY <1>6, <1>7, <1>8, <1>9, <1>10, <1>11 DEF IInv

\* The journal is emptied behind an envelope that every target has.
LEMMA EmitResetOK ==
    ASSUME IInv, EmitReset
    PROVE  IInv'
<1>1. /\ phase = "reset" /\ Reset
      /\ phase' = "idle" /\ result' = [result EXCEPT ![emits] = "ok"]
      /\ UNCHANGED <<stream, ws, emits, todo, journaled, spoiled, crashes>>
    BY DEF EmitReset, Return
<1>2. /\ emits \in Envelopes /\ emits \in Elements(stream)
      /\ emits \in Trades => emits \in ws
    BY <1>1 DEF IInv, CycleOK, Emitting
<1>3. /\ journal' \in Seq(Envelopes \cup {Torn})
      /\ TornLast'
      /\ Elements(journal') \subseteq Elements(journal)
      /\ failed' \in BOOLEAN /\ (failed => failed')
      /\ ~failed' => journal' = << >>
    BY <1>1, ResetProperties DEF IInv
<1>4. Elements(<< >>) = {}
    BY DEF Elements
<1>5. TypeOK'
    BY <1>1, <1>2, <1>3 DEF IInv, TypeOK
<1>6. CycleOK' /\ RecoverOK'
    BY <1>1 DEF CycleOK, Emitting, RecoverOK, Recovering
<1>7. ProducedOK'
    BY <1>1, <1>3 DEF IInv, ProducedOK
<1>8. NoFailureOK'
    BY <1>1, <1>2, <1>3, <1>4 DEF IInv, NoFailureOK, Recovering
<1>9. AckedDelivered'
    BY <1>1, <1>2 DEF IInv, AckedDelivered, TypeOK
<1>10. LossOnlyBehindSuccess'
    <2>1. \A n \in journaled : n \in Nat /\ n <= emits
        BY ElementsNat DEF IInv, ProducedOK
    <2>2. emits \in Nat
        BY <1>2 DEF Envelopes
    <2>3. \A n \in journaled : n \in Elements(stream) \/ emits > n
        BY <1>2, <2>1, <2>2
    <2> QED
        BY <1>1, <1>2, <2>3 DEF LossOnlyBehindSuccess
<1>11. StreamInOrder'
    BY <1>1, <1>3 DEF IInv, StreamInOrder
<1> QED
    BY <1>3, <1>5, <1>6, <1>7, <1>8, <1>9, <1>10, <1>11 DEF IInv

\* A crash leaves the disk and Redis as they are, but for a write under way.
LEMMA CrashOK ==
    ASSUME IInv, Crash
    PROVE  IInv'
<1>1. /\ crashes < MaxCrashes /\ crashes' = crashes + 1 /\ phase' = "down" /\ todo' = << >>
      /\ \/ phase = "append" /\ journal' \in BrokenWrite(journal, emits)
         \/ journal' = journal
      /\ UNCHANGED <<stream, ws, emits, result, journaled, spoiled, failed>>
    BY DEF Crash
<1>2. crashes' \in 0 .. MaxCrashes
    BY <1>1, OutboxAssumption DEF IInv, TypeOK
<1>3. /\ journal' \in Seq(Envelopes \cup {Torn})
      /\ TornLast'
      /\ Elements(journal) \ {Torn} \subseteq Elements(journal')
      /\ Elements(journal') \subseteq Elements(journal) \cup {emits, Torn}
    <2>1. CASE journal' = journal
        BY <2>1 DEF IInv, TypeOK, TornLast
    <2>2. CASE phase = "append" /\ journal' \in BrokenWrite(journal, emits)
        <3>1. emits \in Envelopes
            BY <2>2 DEF IInv, CycleOK, Emitting
        <3> QED
            BY <2>2, <3>1, BrokenWriteProperties DEF IInv, TornLast
    <2> QED
        BY <1>1, <2>1, <2>2
<1>4. \A n \in journaled : n # Torn
    BY DEF IInv, TypeOK, Envelopes, Torn
<1>5. Elements(<< >>) = {}
    BY DEF Elements
<1>6. TypeOK'
    BY <1>1, <1>2, <1>3 DEF IInv, TypeOK
<1>7. CycleOK' /\ RecoverOK'
    BY <1>1 DEF CycleOK, Emitting, RecoverOK, Recovering
<1>8. ProducedOK'
    <2>1. emits \in Nat
        BY DEF IInv, TypeOK
    <2> QED
        BY <1>1, <1>3, <1>5, <2>1 DEF IInv, ProducedOK, Torn
<1>9. NoFailureOK'
    BY <1>1, <1>3, <1>4 DEF IInv, NoFailureOK, Recovering
<1>10. AckedDelivered' /\ StreamInOrder'
    BY <1>1 DEF IInv, AckedDelivered, StreamInOrder
<1>11. LossOnlyBehindSuccess'
    BY <1>1, <1>3, <1>4 DEF IInv, LossOnlyBehindSuccess
<1> QED
    BY <1>3, <1>6, <1>7, <1>8, <1>9, <1>10, <1>11 DEF IInv

\* Every step keeps the invariant.
LEMMA NextOK == IInv /\ [Next]_vars => IInv'
<1> SUFFICES ASSUME IInv, [Next]_vars PROVE IInv'
    OBVIOUS
<1>1. CASE UNCHANGED vars
    BY <1>1 DEF vars, IInv, TypeOK, TornLast, CycleOK, ProducedOK, RecoverOK, NoFailureOK,
                AckedDelivered, LossOnlyBehindSuccess, StreamInOrder
<1> QED
    BY <1>1, StartOK, EmitOK, RecoverXAddOK, RecoverPublishOK, RecoverDoneOK, AppendOkOK,
       AppendFailsOK, EmitXAddOK, EmitPublishOK, EmitResetOK, CrashOK DEF Next, Running

\* The invariant holds throughout.
THEOREM Invariance == Spec => []IInv
    BY InitOK, NextOK, PTL DEF Spec

-----------------------------------------------------------------------------
(* What the outbox guarantees                                              *)

\* emitEventP returns nil only when the stream, and for a trade the WebSocket
\* channel, have the envelope, for any failures and crashes.
THEOREM AckedAlwaysDelivered == Spec => []AckedDelivered
<1>1. IInv => AckedDelivered
    BY DEF IInv
<1> QED
    BY <1>1, Invariance, PTL

\* A journaled envelope that Recover can no longer find, and that is not in the
\* stream, was wiped out by the Reset behind a later envelope that is there, or
\* was written behind a torn line.
THEOREM LossAlwaysBehindSuccess == Spec => []LossOnlyBehindSuccess
<1>1. IInv => LossOnlyBehindSuccess
    BY DEF IInv
<1> QED
    BY <1>1, Invariance, PTL

\* As long as no call has failed, no crash loses a journaled envelope: not
\* between any two steps of emitEventP or of Recover, nor in the middle of a
\* write.
THEOREM CrashesLoseNothing == Spec => []NoneLostByCrash
<1>1. IInv => NoneLostByCrash
    BY DEF IInv, NoFailureOK, NoneLostByCrash, NoneLost
<1> QED
    BY <1>1, Invariance, PTL

\* As long as no call has failed, the first copies of the envelopes are in the
\* stream in the order in which they were produced, however often Recover
\* republishes.
THEOREM StreamAlwaysInOrder == Spec => []StreamInOrder
<1>1. IInv => StreamInOrder
    BY DEF IInv
<1> QED
    BY <1>1, Invariance, PTL
=============================================================================
