------------------------- MODULE EmbedClientsProofs -------------------------
(***************************************************************************)
(* Theorems about the embed batcher, for every number of callers, every    *)
(* submission size and every MaxChunks and BatchLimit.                     *)
(***************************************************************************)
EXTENDS EmbedClients, Induction, SequenceTheorems

\* A submission is in one place only, once, and only while its caller waits;
\* an outstanding call covers at least one.
EachOnce ==
    /\ \A c \in Clients : InLine(queue, c) \/ InLine(batch, c) => answer[c] = Waiting
    /\ \A i, j \in DOMAIN queue : queue[i].who = queue[j].who => i = j
    /\ \A i, j \in DOMAIN batch : batch[i].who = batch[j].who => i = j
    /\ \A i \in DOMAIN queue, j \in DOMAIN batch : queue[i].who # batch[j].who
    /\ flushing <=> batch # <<>>

IInv == TypeOK /\ NothingStranded /\ EachOnce

-----------------------------------------------------------------------------
\* A promise is in one of four different states.
LEMMA Promises ==
    /\ Idle.is = "idle" /\ Waiting.is = "waiting" /\ Rejected.is = "rejected"
    /\ \A v : Vectors(v).is = "vectors"
    /\ Idle # Waiting /\ Rejected # Waiting
    /\ \A v : Vectors(v) # Waiting
  BY DEF Idle, Waiting, Rejected, Vectors

LEMMA NoChunks == \A c, n : n \in 0..MaxSize => (Chunks(c, n) = <<>> <=> n = 0)
  BY MaxSizeAssumption DEF Chunks

LEMMA ASubmission ==
    ASSUME NEW c \in Clients, NEW n \in 1..MaxSize
    PROVE  /\ [who |-> c, chunks |-> Chunks(c, n)] \in Submissions
           /\ Len(Chunks(c, n)) = n
<1>1. [who |-> c, chunks |-> Chunks(c, n)] \in
         [who : {c}, chunks : {Chunks(c, k) : k \in 1..MaxSize}]
  OBVIOUS
<1>2. [who |-> c, chunks |-> Chunks(c, n)] \in Submissions
  BY <1>1 DEF Submissions
<1>3. Len(Chunks(c, n)) = n
  BY MaxSizeAssumption DEF Chunks
<1> QED
  BY <1>2, <1>3

LEMMA Submitters ==
    ASSUME NEW s \in Submissions
    PROVE  s.who \in Clients
  BY DEF Submissions

LEMMA InitOK == Init => IInv
<1> SUFFICES ASSUME Init PROVE IInv
  OBVIOUS
<1>1. /\ queue = <<>> /\ queuedChunks = 0 /\ batch = <<>>
      /\ answer = [c \in Clients |-> Idle] /\ asked = [c \in Clients |-> 0]
      /\ timer = FALSE /\ flushing = FALSE
  BY DEF Init, BatcherInit
<1>2. queue \in Seq(Submissions) /\ batch \in Seq(Submissions) /\ queuedChunks \in Nat
  BY <1>1
<1>3. asked \in [Clients -> 0..MaxSize]
  BY <1>1, MaxSizeAssumption
<1>4. \A c \in Clients : answer[c] # Waiting /\ answer[c].is = "idle"
  BY <1>1, Promises
<1>5. TypeOK
  BY <1>1, <1>2, <1>3, <1>4, Zenon DEF TypeOK
<1>6. EachOnce
  <2>1. DOMAIN queue = {} /\ DOMAIN batch = {}
    BY <1>1
  <2> QED
    BY <1>1, <2>1, Zenon DEF EachOnce, InLine
<1> QED
  BY <1>4, <1>5, <1>6 DEF IInv, NothingStranded

-----------------------------------------------------------------------------
(* What the batcher does, handler by handler.                              *)

\* flush() over the queue as it is, with its timer gone.
LEMMA FlushOK ==
    ASSUME IInv, timer' = FALSE, Flush(queue, queuedChunks), UNCHANGED <<answer, asked>>
    PROVE  IInv'
<1>1. CASE flushing \/ queue = <<>>
  <2>1. UNCHANGED <<queue, queuedChunks, flushing, batch, answer, asked>>
    BY <1>1 DEF Flush
  <2>2. TypeOK' /\ EachOnce'
    BY <2>1, Zenon DEF IInv, TypeOK, EachOnce, InLine
  <2>3. NothingStranded'
    <3>1. CASE flushing
      BY <2>1, <3>1 DEF IInv, NothingStranded, InLine
    <3>2. CASE ~flushing /\ queue = <<>>
      <4>1. \A c \in Clients : ~InLine(queue, c)
        BY <3>2 DEF InLine
      <4> QED
        BY <2>1, <3>2, <4>1 DEF IInv, NothingStranded
    <3> QED
      BY <1>1, <3>1, <3>2
  <2> QED
    BY <2>2, <2>3 DEF IInv
<1>2. CASE ~flushing /\ queue # <<>>
  <2>1. /\ queue' = <<>> /\ queuedChunks' = 0 /\ flushing' = TRUE /\ batch' = queue
        /\ UNCHANGED <<answer, asked>>
    BY <1>2 DEF Flush
  <2>2. TypeOK'
    <3>1. queue' \in Seq(Submissions) /\ queuedChunks' \in Nat
      BY <2>1
    <3> QED
      BY <2>1, <3>1, Zenon DEF IInv, TypeOK
  <2>3. NothingStranded'
    BY <1>2, <2>1, Zenon DEF IInv, NothingStranded, InLine
  <2>4. EachOnce'
    <3>1. DOMAIN queue' = {}
      BY <2>1
    <3> QED
      BY <1>2, <2>1, <3>1, Zenon DEF IInv, EachOnce, InLine
  <2> QED
    BY <2>2, <2>3, <2>4 DEF IInv
<1> QED
  BY <1>1, <1>2

\* The end of a call that settles the promises of its batch.
LEMMA EndFlushOK ==
    ASSUME IInv, EndFlush, UNCHANGED asked, DOMAIN answer' = Clients,
           \A c \in Clients : IF InLine(batch, c)
                              THEN answer'[c].is \in {"vectors", "rejected"}
                              ELSE answer'[c] = answer[c]
    PROVE  IInv'
<1>1. /\ flushing' = FALSE /\ batch' = <<>> /\ queue' = queue
      /\ queuedChunks' = queuedChunks /\ timer' = (timer \/ queue # <<>>)
  BY DEF EndFlush
<1>2. TypeOK'
  <2>1. batch' \in Seq(Submissions)
    BY <1>1
  <2>2. \A c \in Clients : answer'[c].is \in {"idle", "waiting", "vectors", "rejected"}
    BY DEF IInv, TypeOK
  <2>3. timer' \in BOOLEAN /\ flushing' \in BOOLEAN
    BY <1>1
  <2> QED
    BY <1>1, <2>1, <2>2, <2>3, Zenon DEF IInv, TypeOK
<1>3. \A c \in Clients : answer'[c] = Waiting => answer[c] = Waiting /\ ~InLine(batch, c)
  BY Promises
<1>4. NothingStranded'
  <2> SUFFICES ASSUME NEW c \in Clients, answer'[c] = Waiting
               PROVE  InLine(queue, c)' /\ timer'
    BY DEF NothingStranded
  <2>1. InLine(queue, c)
    BY <1>3 DEF IInv, NothingStranded
  <2>2. queue # <<>>
    BY <2>1 DEF InLine
  <2> QED
    BY <1>1, <2>1, <2>2, Zenon DEF InLine
<1>5. EachOnce'
  <2>1. DOMAIN batch' = {}
    BY <1>1
  <2>2. ASSUME NEW c \in Clients, InLine(queue, c)
        PROVE  answer'[c] = Waiting
    <3>1. answer[c] = Waiting
      BY <2>2 DEF IInv, EachOnce
    <3>2. \A i \in DOMAIN queue, j \in DOMAIN batch : queue[i].who # batch[j].who
      BY DEF IInv, EachOnce
    <3>3. ~InLine(batch, c)
      BY <2>2, <3>2 DEF InLine
    <3> QED
      BY <3>1, <3>3
  <2> QED
    BY <1>1, <2>1, <2>2, Zenon DEF IInv, EachOnce, InLine
<1> QED
  BY <1>2, <1>4, <1>5 DEF IInv

LEMMA EmbedReturnsOK ==
    ASSUME IInv, EmbedReturns, UNCHANGED asked
    PROVE  IInv'
<1>1. \A c \in Clients : IF InLine(batch, c)
                         THEN answer'[c].is \in {"vectors", "rejected"}
                         ELSE answer'[c] = answer[c]
  BY Promises, Zenon DEF EmbedReturns, InLine
<1>2. DOMAIN answer' = Clients
  BY DEF EmbedReturns
<1> QED
  BY <1>1, <1>2, EndFlushOK DEF EmbedReturns

LEMMA EmbedFailsOK ==
    ASSUME IInv, EmbedFails, UNCHANGED asked
    PROVE  IInv'
<1>1. \A c \in Clients : IF InLine(batch, c)
                         THEN answer'[c].is \in {"vectors", "rejected"}
                         ELSE answer'[c] = answer[c]
  BY Promises, Zenon DEF EmbedFails, InLine
<1>2. DOMAIN answer' = Clients
  BY DEF EmbedFails
<1> QED
  BY <1>1, <1>2, EndFlushOK DEF EmbedFails

-----------------------------------------------------------------------------
(* The callers.                                                            *)

\* A step that leaves the submissions alone and changes no waiting promise.
LEMMA SameWaiting ==
    ASSUME IInv, UNCHANGED <<queue, timer, flushing, batch>>,
           \A c \in Clients : answer'[c] = Waiting <=> answer[c] = Waiting
    PROVE  NothingStranded' /\ EachOnce'
<1>1. \A c \in Clients : /\ InLine(queue, c)' <=> InLine(queue, c)
                         /\ InLine(batch, c)' <=> InLine(batch, c)
  BY DEF InLine
<1>2. NothingStranded'
  BY <1>1 DEF IInv, NothingStranded
<1>3. \A c \in Clients : InLine(queue, c)' \/ InLine(batch, c)' => answer'[c] = Waiting
  BY <1>1 DEF IInv, EachOnce
<1>4. EachOnce'
  BY <1>3, Zenon DEF IInv, EachOnce
<1> QED
  BY <1>2, <1>4

LEMMA ReceiveOK ==
    ASSUME IInv, NEW c \in Clients, Receive(c)
    PROVE  IInv'
<1>1. /\ answer[c].is \in {"vectors", "rejected"}
      /\ answer' = [answer EXCEPT ![c] = Idle]
      /\ UNCHANGED <<queue, queuedChunks, timer, flushing, batch, asked>>
  BY DEF Receive
<1>2. answer[c] # Waiting
  BY <1>1, Promises
<1>3. /\ DOMAIN answer' = Clients
      /\ \A d \in Clients : answer'[d] = IF d = c THEN Idle ELSE answer[d]
  BY <1>1 DEF IInv, TypeOK
<1>4. TypeOK'
  <2>1. \A d \in Clients : answer'[d].is \in {"idle", "waiting", "vectors", "rejected"}
    BY <1>3, Promises DEF IInv, TypeOK
  <2> QED
    BY <1>1, <1>3, <2>1, Zenon DEF IInv, TypeOK
<1>5. \A d \in Clients : answer'[d] = Waiting <=> answer[d] = Waiting
  BY <1>2, <1>3, Promises
<1> QED
  BY <1>1, <1>4, <1>5, SameWaiting DEF IInv

\* A caller that submits n chunks.
LEMMA AskOK ==
    ASSUME IInv, NEW c \in Clients, Ask(c)
    PROVE  IInv'
<1> PICK n \in 0..MaxSize : /\ asked' = [asked EXCEPT ![c] = n]
                            /\ Submit(c, Chunks(c, n))
  BY DEF Ask
<1>1. answer[c].is = "idle" /\ answer[c] # Waiting
  BY Promises DEF Ask
<1>2. asked' \in [Clients -> 0..MaxSize]
  BY DEF IInv, TypeOK
<1>3. CASE n = 0
  <2>1. /\ answer' = [answer EXCEPT ![c] = Vectors(<<>>)]
        /\ UNCHANGED <<queue, queuedChunks, timer, flushing, batch>>
    BY <1>3, NoChunks DEF Submit, SubmitNothing
  <2>2. /\ DOMAIN answer' = Clients
        /\ \A d \in Clients : answer'[d] = IF d = c THEN Vectors(<<>>) ELSE answer[d]
    BY <2>1 DEF IInv, TypeOK
  <2>3. TypeOK'
    <3>1. \A d \in Clients : answer'[d].is \in {"idle", "waiting", "vectors", "rejected"}
      BY <2>2, Promises DEF IInv, TypeOK
    <3> QED
      BY <1>2, <2>1, <2>2, <3>1, Zenon DEF IInv, TypeOK
  <2>4. \A d \in Clients : answer'[d] = Waiting <=> answer[d] = Waiting
    BY <1>1, <2>2, Promises
  <2> QED
    BY <2>1, <2>3, <2>4, SameWaiting DEF IInv
<1>4. CASE n # 0
  <2> DEFINE s == [who |-> c, chunks |-> Chunks(c, n)]
             q == Append(queue, s)
  <2>1. n \in 1..MaxSize
    BY <1>4, MaxSizeAssumption
  <2>2. SubmitChunks(c, Chunks(c, n))
    BY <1>4, NoChunks DEF Submit
  <2>3. s \in Submissions /\ s.who = c /\ q \in Seq(Submissions)
    BY <2>1, ASubmission DEF IInv, TypeOK
  <2>4. /\ queue \in Seq(Submissions)
        /\ DOMAIN q = DOMAIN queue \cup {Len(queue) + 1} /\ Len(queue) + 1 \notin DOMAIN queue
        /\ q[Len(queue) + 1] = s /\ \A i \in DOMAIN queue : q[i] = queue[i]
    BY <2>3 DEF IInv, TypeOK
  <2> DEFINE last == Len(queue) + 1
  <2>5. \A d \in Clients : InLine(q, d) <=> InLine(queue, d) \/ d = c
    <3> HIDE DEF s, q, last
    <3> QED
      BY <2>3, <2>4 DEF InLine, last
  <2>6. ~InLine(queue, c) /\ ~InLine(batch, c)
    BY <1>1 DEF IInv, EachOnce
  <2>7. /\ \A i, j \in DOMAIN q : q[i].who = q[j].who => i = j
        /\ \A i \in DOMAIN q, j \in DOMAIN batch : q[i].who # batch[j].who
    <3> HIDE DEF s, q
    <3> QED
      BY <2>3, <2>4, <2>6 DEF InLine, IInv, EachOnce
  <2>8. /\ DOMAIN answer' = Clients
        /\ \A d \in Clients : answer'[d] = IF d = c THEN Waiting ELSE answer[d]
        /\ \A d \in Clients : answer'[d].is \in {"idle", "waiting", "vectors", "rejected"}
    BY <2>2, Promises DEF SubmitChunks, IInv, TypeOK
  <2>9. queuedChunks + Len(Chunks(c, n)) \in Nat
    BY <2>1, ASubmission DEF IInv, TypeOK
  <2>10. q # <<>>
    BY <2>3, <2>4
  \* The queue, and what becomes of it.
  <2>11. \/ /\ queue' = q /\ queuedChunks' \in Nat
            /\ UNCHANGED <<flushing, batch>>
            /\ timer' \in BOOLEAN /\ (timer' \/ flushing)
         \/ /\ queue' = <<>> /\ queuedChunks' = 0 /\ timer' = FALSE
            /\ ~flushing /\ flushing' = TRUE /\ batch' = q
    <3> HIDE DEF q, s
    <3>1. CASE queuedChunks + Len(Chunks(c, n)) >= MaxChunks
      <4>1. timer' = FALSE /\ Flush(q, queuedChunks + Len(Chunks(c, n)))
        BY <2>2, <3>1, Zenon DEF SubmitChunks, q, s
      <4> QED
        BY <2>9, <2>10, <4>1, Zenon DEF Flush
    <3>2. CASE ~(queuedChunks + Len(Chunks(c, n)) >= MaxChunks)
      BY <2>2, <2>9, <3>2, Zenon DEF SubmitChunks, q, s
    <3> QED
      BY <3>1, <3>2
  <2> HIDE DEF s, q, last
  <2>12. CASE /\ queue' = q /\ queuedChunks' \in Nat
              /\ UNCHANGED <<flushing, batch>>
              /\ timer' \in BOOLEAN /\ (timer' \/ flushing)
    <3>1. TypeOK'
      BY <1>2, <2>3, <2>8, <2>12, Zenon DEF IInv, TypeOK
    <3>2. NothingStranded'
      <4> SUFFICES ASSUME NEW d \in Clients, answer'[d] = Waiting
                   PROVE  \/ flushing' /\ InLine(batch, d)'
                          \/ InLine(queue, d)' /\ (timer' \/ flushing')
        BY DEF NothingStranded
      <4>1. (flushing /\ InLine(batch, d)) \/ InLine(q, d)
        BY <2>5, <2>8 DEF IInv, NothingStranded
      <4> QED
        BY <2>12, <4>1, Zenon DEF InLine
    <3>3. EachOnce'
      <4>1. \A d \in Clients : InLine(queue, d)' \/ InLine(batch, d)' => answer'[d] = Waiting
        <5>1. \A d \in Clients : InLine(q, d) \/ InLine(batch, d) => answer'[d] = Waiting
          BY <2>5, <2>8 DEF IInv, EachOnce
        <5> QED
          BY <2>12, <5>1, Zenon DEF InLine
      <4> QED
        BY <2>7, <2>12, <4>1, Zenon DEF IInv, EachOnce
    <3> QED
      BY <3>1, <3>2, <3>3 DEF IInv
  <2>13. CASE /\ queue' = <<>> /\ queuedChunks' = 0 /\ timer' = FALSE
              /\ ~flushing /\ flushing' = TRUE /\ batch' = q
    <3>1. TypeOK'
      <4>1. queue' \in Seq(Submissions) /\ queuedChunks' \in Nat
        BY <2>13
      <4> QED
        BY <1>2, <2>3, <2>8, <2>13, <4>1, Zenon DEF IInv, TypeOK
    <3>2. NothingStranded'
      <4> SUFFICES ASSUME NEW d \in Clients, answer'[d] = Waiting
                   PROVE  InLine(batch, d)'
        BY <2>13, Zenon DEF NothingStranded
      <4>1. InLine(q, d)
        BY <2>5, <2>8, <2>13 DEF IInv, NothingStranded
      <4> QED
        BY <2>13, <4>1, Zenon DEF InLine
    <3>3. EachOnce'
      <4>1. DOMAIN queue' = {}
        BY <2>13
      <4>2. \A d \in Clients : InLine(q, d) => answer'[d] = Waiting
        BY <2>5, <2>8 DEF IInv, EachOnce
      <4> QED
        BY <2>7, <2>10, <2>13, <4>1, <4>2, Zenon DEF EachOnce, InLine
    <3> QED
      BY <3>1, <3>2, <3>3 DEF IInv
  <2> QED
    BY <2>11, <2>12, <2>13
<1> QED
  BY <1>3, <1>4

-----------------------------------------------------------------------------
LEMMA NextOK == IInv /\ [Next]_vars => IInv'
<1> SUFFICES ASSUME IInv, [Next]_vars PROVE IInv'
  OBVIOUS
<1>1. CASE \E c \in Clients : Ask(c)
  BY <1>1, AskOK
<1>2. CASE \E c \in Clients : Receive(c)
  BY <1>2, ReceiveOK
<1>3. CASE (TimerFires \/ Drain) /\ UNCHANGED asked
  BY <1>3, FlushOK DEF TimerFires, Drain
<1>4. CASE (EmbedReturns \/ EmbedFails) /\ UNCHANGED asked
  BY <1>4, EmbedReturnsOK, EmbedFailsOK
<1>5. CASE UNCHANGED vars
  BY <1>5, Zenon DEF vars, IInv, TypeOK, NothingStranded, EachOnce, InLine
<1> QED
  BY <1>1, <1>2, <1>3, <1>4, <1>5 DEF Next

\* The inductive invariant of the batcher, whatever MaxChunks and the number
\* and sizes of the submissions.
THEOREM Invariance == Spec => []IInv
  BY InitOK, NextOK, PTL DEF Spec

\* Type correctness of the batcher.
THEOREM TypeCorrect == Spec => []TypeOK
<1>1. IInv => TypeOK
  BY DEF IInv
<1> QED
  BY <1>1, Invariance, PTL

\* A blocked upsert is always on its way to an answer.
THEOREM NobodyStranded == Spec => []NothingStranded
<1>1. IInv => NothingStranded
  BY DEF IInv
<1> QED
  BY <1>1, Invariance, PTL

\* A call covers the submissions it was made for until it settles.
THEOREM CallsDoNotOverlap == Spec => OneCallAtATime
<1>1. [Next]_vars => [flushing /\ flushing' => batch' = batch]_vars
  <2> SUFFICES ASSUME [Next]_vars, flushing, flushing' PROVE batch' = batch
    OBVIOUS
  <2>1. CASE \E c \in Clients : Ask(c) \/ Receive(c)
    BY <2>1, Zenon DEF Ask, Submit, SubmitNothing, SubmitChunks, Flush, Receive
  <2>2. CASE (TimerFires \/ Drain) /\ UNCHANGED asked
    BY <2>2, Zenon DEF TimerFires, Drain, Flush
  <2>3. CASE (EmbedReturns \/ EmbedFails) /\ UNCHANGED asked
    BY <2>3, Zenon DEF EmbedReturns, EmbedFails, EndFlush
  <2>4. CASE UNCHANGED vars
    BY <2>4 DEF vars
  <2> QED
    BY <2>1, <2>2, <2>3, <2>4 DEF Next
<1> QED
  BY <1>1, PTL DEF Spec, OneCallAtATime

-----------------------------------------------------------------------------
(* One sequence after the other: what a batch becomes, and how it is cut.  *)

\* One sequence after the other.
Cat(s, t) == s \o t
Starts(u, s) ==
    /\ Len(s) \in Nat /\ Len(u) \in Nat /\ Len(s) <= Len(u)
    /\ \A x \in 1 .. Len(s) : u[x] = s[x]
Goes(u, s, t) ==
    /\ Starts(u, s) /\ Len(t) \in Nat /\ Len(u) = Len(s) + Len(t)
    /\ \A x \in 1 .. Len(t) : u[Len(s) + x] = t[x]

LEMMA CatFacts ==
    ASSUME NEW S, NEW s \in Seq(S), NEW t \in Seq(S)
    PROVE  Cat(s, t) \in Seq(S) /\ Goes(Cat(s, t), s, t)
<1> DEFINE u == s \o t
<1>1. Len(s) \in Nat /\ Len(t) \in Nat
  BY LenProperties
<1>2. /\ u \in Seq(S) /\ Len(u) = Len(s) + Len(t)
      /\ \A x \in 1 .. Len(s) + Len(t) : u[x] = IF x <= Len(s) THEN s[x] ELSE t[x - Len(s)]
  BY ConcatProperties, Zenon
<1> HIDE DEF u
<1>3. ASSUME NEW x \in 1 .. Len(t) PROVE u[Len(s) + x] = t[x]
  <2>1. /\ Len(s) + x \in 1 .. Len(s) + Len(t) /\ ~(Len(s) + x <= Len(s))
        /\ (Len(s) + x) - Len(s) = x
    BY <1>1
  <2> QED
    BY <1>2, <2>1
<1>4. Starts(u, s)
  BY <1>1, <1>2 DEF Starts
<1>5. Goes(u, s, t)
  BY <1>1, <1>2, <1>3, <1>4 DEF Goes
<1> QED
  BY <1>2, <1>5 DEF Cat, u

LEMMA NothingFirst ==
    ASSUME NEW S, NEW t \in Seq(S)
    PROVE  Cat(<<>>, t) = t
  BY ConcatEmptySeq DEF Cat

Flattens(g, seqs, S) ==
    /\ g \in [0 .. Len(seqs) -> Seq(S)]
    /\ g[0] = <<>>
    /\ \A i \in 1 .. Len(seqs) : g[i] = Cat(g[i - 1], seqs[i])

LEMMA FlattenTurns ==
    ASSUME NEW S, NEW seqs \in Seq(Seq(S))
    PROVE  \E g : Flattens(g, seqs, S) /\ FlattenSeq(seqs) = g[Len(seqs)]
<1> DEFINE n == Len(seqs)
           V == Seq(S)
           step == [p \in (1 .. n) \X V |-> Cat(p[2], seqs[p[1]])]
           Eq(f) == f = [i \in 1 .. n |-> IF i = 1 THEN seqs[i] ELSE Cat(f[i - 1], seqs[i])]
           flatten == CHOOSE f : Eq(f)
<1>1. n \in Nat /\ \A i \in 1 .. n : seqs[i] \in V
  BY LenProperties, ElementOfSeq
<1>2. <<>> \in V
  BY EmptySeq
<1>3. \A i \in 1 .. n, v \in V : Cat(v, seqs[i]) \in V /\ step[<<i, v>>] = Cat(v, seqs[i])
  BY <1>1, CatFacts
<1>4. step \in [(1 .. n) \X V -> V]
  BY <1>3
<1>5. n # 0 => FlattenSeq(seqs) = flatten[n]
  BY Zenon DEF FlattenSeq, Cat
<1> HIDE DEF step, V, n
<1>6. PICK g : IsRecursion(g, n, V, <<>>, step)
  BY <1>1, <1>2, <1>4, Recursion
<1>7. /\ g \in [0 .. n -> V] /\ g[0] = <<>>
      /\ \A i \in 1 .. n : g[i] = Cat(g[i - 1], seqs[i])
  <2>1. ASSUME NEW i \in 1 .. n PROVE g[i] = Cat(g[i - 1], seqs[i])
    <3>1. g[i - 1] \in V /\ g[i] = step[<<i, g[i - 1]>>]
      BY <1>1, <1>6 DEF IsRecursion
    <3> QED
      BY <1>3, <3>1
  <2> QED
    BY <1>6, <2>1 DEF IsRecursion
<1>8. 1 \in 1 .. n => g[1] = seqs[1]
  <2>1. 1 \in 1 .. n => g[1] = Cat(g[0], seqs[1]) /\ seqs[1] \in V
    <3>1. 1 - 1 = 0
      OBVIOUS
    <3> QED
      BY <1>1, <1>7, <3>1
  <2>2. \A v \in V : Cat(g[0], v) = v
    BY <1>7, NothingFirst DEF V
  <2> QED
    BY <2>1, <2>2
<1>9. Eq([i \in 1 .. n |-> g[i]])
  <2> DEFINE f == [i \in 1 .. n |-> g[i]]
  <2>1. ASSUME NEW i \in 1 .. n PROVE f[i] = IF i = 1 THEN seqs[i] ELSE Cat(f[i - 1], seqs[i])
    <3>1. i # 1 => i - 1 \in 1 .. n
      BY <1>1
    <3> QED
      BY <1>7, <1>8, <3>1
  <2> QED
    BY <2>1
<1>10. Eq(flatten)
  BY <1>9
<1> HIDE DEF flatten
<1> DEFINE N == {i \in Nat : i + 1 <= n => flatten[i + 1] = g[i + 1]}
<1>11. 0 \in N
  BY <1>8, <1>10
<1>12. ASSUME NEW i \in Nat, i \in N PROVE i + 1 \in N
  <2> SUFFICES ASSUME (i + 1) + 1 <= n PROVE flatten[(i + 1) + 1] = g[(i + 1) + 1]
    OBVIOUS
  <2>1. (i + 1) + 1 \in 1 .. n /\ (i + 1) + 1 # 1 /\ ((i + 1) + 1) - 1 = i + 1 /\ i + 1 <= n
    BY <1>1
  <2>2. flatten[i + 1] = g[i + 1]
    BY <1>12, <2>1
  <2>3. flatten[(i + 1) + 1] = Cat(flatten[((i + 1) + 1) - 1], seqs[(i + 1) + 1])
    BY <1>10, <2>1
  <2>4. g[(i + 1) + 1] = Cat(g[((i + 1) + 1) - 1], seqs[(i + 1) + 1])
    BY <1>7, <2>1
  <2> QED
    BY <2>1, <2>2, <2>3, <2>4
<1> HIDE DEF N
<1>13. n # 0 => n - 1 \in N /\ (n - 1) + 1 = n
  <2>1. Nat \subseteq N
    BY <1>11, <1>12, NatInduction1
  <2> QED
    BY <1>1, <2>1
<1>14. n # 0 => flatten[n] = g[n]
  BY <1>1, <1>13 DEF N
<1>15. n = 0 => FlattenSeq(seqs) = <<>>
  <2>1. n = 0 => FlattenSeq(seqs) = seqs
    BY DEF FlattenSeq, n
  <2>2. n = 0 => seqs = <<>>
    BY EmptySeq DEF n
  <2> QED
    BY <2>1, <2>2
<1>16. Flattens(g, seqs, S)
  BY <1>7 DEF Flattens, n, V
<1>17. FlattenSeq(seqs) = g[n]
  BY <1>5, <1>7, <1>14, <1>15
<1> QED
  BY <1>16, <1>17 DEF n

\* What a part begins with, the whole does, and the next part comes right after it.
LEMMA FlattenParts ==
    ASSUME NEW S, NEW seqs \in Seq(Seq(S)), NEW g, Flattens(g, seqs, S)
    PROVE  \A k \in 0 .. Len(seqs), i \in 0 .. Len(seqs) : i <= k => Starts(g[k], g[i])
<1> DEFINE n == Len(seqs)
           N == {j \in Nat : j <= n => \A i \in 0 .. j : Starts(g[j], g[i])}
<1>1. n \in Nat /\ g \in [0 .. n -> Seq(S)] /\ \A i \in 1 .. n : seqs[i] \in Seq(S)
  BY LenProperties, ElementOfSeq DEF Flattens
<1>2. \A i \in 0 .. n : Starts(g[i], g[i])
  <2>1. \A i \in 0 .. n : Len(g[i]) \in Nat
    BY <1>1, LenProperties
  <2> QED
    BY <2>1 DEF Starts
<1>3. 0 \in N
  BY <1>1, <1>2
<1>4. ASSUME NEW j \in Nat, j \in N PROVE j + 1 \in N
  <2> SUFFICES ASSUME j + 1 <= n PROVE \A i \in 0 .. j + 1 : Starts(g[j + 1], g[i])
    OBVIOUS
  <2>0. j \in 0 .. n /\ j + 1 \in 1 .. n /\ (j + 1) - 1 = j /\ j + 1 \in 0 .. n /\ j <= n
    BY <1>1
  <2>1. g[j + 1] = Cat(g[j], seqs[j + 1]) /\ g[j] \in Seq(S) /\ seqs[j + 1] \in Seq(S)
    BY <1>1, <2>0 DEF Flattens
  <2>2. Starts(g[j + 1], g[j])
    <3>1. Goes(Cat(g[j], seqs[j + 1]), g[j], seqs[j + 1])
      BY <2>1, CatFacts
    <3> QED
      BY <2>1, <3>1 DEF Goes
  <2>3. ASSUME NEW i \in 0 .. j + 1 PROVE Starts(g[j + 1], g[i])
    <3>1. CASE i = j + 1
      BY <1>2, <2>0, <3>1
    <3>2. CASE i # j + 1
      <4>1. i \in 0 .. j
        BY <3>2
      <4>2. Starts(g[j], g[i])
        BY <1>4, <2>0, <4>1
      <4> QED
        BY <2>2, <4>2 DEF Starts
    <3> QED
      BY <3>1, <3>2
  <2> QED
    BY <2>3
<1> HIDE DEF N
<1>5. Nat \subseteq N
  BY <1>3, <1>4, NatInduction1
<1>6. ASSUME NEW k \in 0 .. n, NEW i \in 0 .. n, i <= k PROVE Starts(g[k], g[i])
  <2>1. k \in N /\ i \in 0 .. k /\ k <= n
    BY <1>1, <1>5, <1>6
  <2> QED
    BY <2>1 DEF N
<1> QED
  BY <1>6

LEMMA PartsOnly ==
    ASSUME NEW S, NEW n \in Nat, NEW f \in [1 .. n -> Seq(S)]
    PROVE  f \in Seq(Seq(S)) /\ Len(f) = n
<1>1. f \in Seq(Seq(S))
  BY SeqDef
<1> QED
  BY <1>1, LenProperties

LEMMA Window ==
    ASSUME NEW S, NEW w, NEW c \in Nat, NEW l \in Nat, \A x \in c + 1 .. c + l : w[x] \in S
    PROVE  LET r == SubSeq(w, c + 1, c + l)
           IN  r \in Seq(S) /\ Len(r) = l /\ \A x \in 1 .. l : r[x] = w[c + x]
<1> DEFINE a == c + 1
           b == c + l
           r == SubSeq(w, a, b)
<1>1. a \in Int /\ b \in Int /\ \A x \in a .. b : w[x] \in S
  OBVIOUS
<1>2. /\ b - a + 1 = l /\ (IF a <= b THEN b - a + 1 ELSE 0) = l
      /\ \A x \in 1 .. l : a + x - 1 = c + x
  OBVIOUS
<1> HIDE DEF a, b
<1>3. /\ r \in Seq(S) /\ Len(r) = IF a <= b THEN b - a + 1 ELSE 0
      /\ \A x \in 1 .. b - a + 1 : r[x] = w[a + x - 1]
  BY <1>1, SubSeqProperties
<1>4. r \in Seq(S) /\ Len(r) = l /\ \A x \in 1 .. l : r[x] = w[c + x]
  BY <1>2, <1>3
<1> QED
  BY <1>4 DEF r, a, b

\* Cut where they were put together, the parts come back.
LEMMA SliceIsPart ==
    ASSUME NEW S, NEW seqs \in Seq(Seq(S)), NEW i \in 1 .. Len(seqs), NEW cursor,
           cursor = Len(FlattenSeq([j \in 1 .. (i - 1) |-> seqs[j]]))
    PROVE  SubSeq(FlattenSeq(seqs), cursor + 1, cursor + Len(seqs[i])) = seqs[i]
<1> DEFINE n == Len(seqs)
           first == [j \in 1 .. (i - 1) |-> seqs[j]]
           l == Len(seqs[i])
<1>1. /\ n \in Nat /\ i - 1 \in 0 .. n /\ i \in 0 .. n
      /\ \A j \in 1 .. n : seqs[j] \in Seq(S)
  BY LenProperties, ElementOfSeq
<1>2. PICK g : Flattens(g, seqs, S) /\ FlattenSeq(seqs) = g[n]
  BY FlattenTurns
<1>3. first \in Seq(Seq(S)) /\ Len(first) = i - 1 /\ \A j \in 1 .. i - 1 : first[j] = seqs[j]
  <2>1. first \in [1 .. i - 1 -> Seq(S)] /\ i - 1 \in Nat
    BY <1>1
  <2> HIDE DEF first
  <2>2. first \in Seq(Seq(S)) /\ Len(first) = i - 1
    BY <2>1, PartsOnly
  <2> QED
    BY <2>2 DEF first
<1> HIDE DEF first
<1>4. PICK h : Flattens(h, first, S) /\ FlattenSeq(first) = h[i - 1]
  BY <1>3, FlattenTurns
<1> DEFINE N == {k \in Nat : k <= i - 1 => h[k] = g[k]}
<1>5. 0 \in N
  BY <1>2, <1>4 DEF Flattens
<1>6. ASSUME NEW k \in Nat, k \in N PROVE k + 1 \in N
  <2> SUFFICES ASSUME k + 1 <= i - 1 PROVE h[k + 1] = g[k + 1]
    OBVIOUS
  <2>1. k + 1 \in 1 .. n /\ k + 1 \in 1 .. i - 1 /\ (k + 1) - 1 = k /\ k <= i - 1
    BY <1>1
  <2>2. h[k + 1] = Cat(h[k], first[k + 1]) /\ g[k + 1] = Cat(g[k], seqs[k + 1])
    BY <1>2, <1>3, <1>4, <2>1 DEF Flattens
  <2> QED
    BY <1>3, <1>6, <2>1, <2>2
<1> HIDE DEF N
<1>7. Nat \subseteq N
  BY <1>5, <1>6, NatInduction1
<1>8. h[i - 1] = g[i - 1]
  <2>1. i - 1 \in N /\ i - 1 <= i - 1
    BY <1>1, <1>7
  <2> QED
    BY <2>1 DEF N
<1>9. cursor = Len(g[i - 1])
  BY <1>4, <1>8 DEF first
<1>10. Goes(g[i], g[i - 1], seqs[i])
  <2>1. g[i] = Cat(g[i - 1], seqs[i]) /\ g[i - 1] \in Seq(S) /\ seqs[i] \in Seq(S)
    BY <1>1, <1>2 DEF Flattens
  <2> QED
    BY <2>1, CatFacts
<1>11. Starts(g[n], g[i]) /\ g[n] \in Seq(S)
  <2>1. i <= n /\ n \in 0 .. n
    BY <1>1
  <2> QED
    BY <1>1, <1>2, <2>1, FlattenParts DEF Flattens
<1> DEFINE w == g[n]
           r == SubSeq(w, cursor + 1, cursor + l)
<1>12. /\ cursor \in Nat /\ l \in Nat /\ Len(w) \in Nat /\ cursor + l <= Len(w)
       /\ \A x \in 1 .. l : w[cursor + x] = seqs[i][x]
  <2>1. /\ cursor \in Nat /\ l \in Nat /\ Len(g[i]) = cursor + l
        /\ \A x \in 1 .. l : g[i][cursor + x] = seqs[i][x]
    BY <1>9, <1>10 DEF Goes, Starts
  <2>2. \A x \in 1 .. l : cursor + x \in 1 .. Len(g[i])
    BY <2>1
  <2> QED
    BY <1>11, <2>1, <2>2 DEF Starts
<1>13. \A x \in cursor + 1 .. cursor + l : w[x] \in S
  <2>1. \A x \in 1 .. Len(w) : w[x] \in S
    BY <1>11, ElementOfSeq
  <2> HIDE DEF w, l
  <2> QED
    BY <1>12, <2>1
<1> HIDE DEF w, l
<1>14. r \in Seq(S) /\ Len(r) = l /\ \A x \in 1 .. l : r[x] = w[cursor + x]
  BY <1>12, <1>13, Window
<1> HIDE DEF r
<1>16. r = seqs[i]
  <2>1. seqs[i] \in Seq(S) /\ Len(seqs[i]) = l
    BY <1>1 DEF l
  <2>2. \A x \in 1 .. Len(r) : r[x] = seqs[i][x]
    BY <1>12, <1>14
  <2> QED
    BY <1>14, <2>1, <2>2, SeqEqual
<1> QED
  BY <1>2, <1>16 DEF r, w, l

-----------------------------------------------------------------------------
(* The requests of the provider.                                           *)

LEMMA Quotients ==
    ASSUME NEW a \in Nat, NEW b \in Nat \ {0}
    PROVE  a \div b \in Nat /\ b * (a \div b) <= a /\ a < b * (a \div b) + b
<1> DEFINE q == a \div b
           r == a % b
<1>1. q \in Int /\ r \in 0 .. b - 1 /\ a = b * q + r
  OBVIOUS
<1>2. q \in Nat
  OBVIOUS
<1> QED
  BY <1>1, <1>2

LEMMA Multiples ==
    ASSUME NEW l \in Nat, NEW b \in Nat \ {0}, NEW m, m = (l + b - 1) \div b
    PROVE  /\ m \in Nat /\ l <= m * b
           /\ \A k \in 1 .. m : (k - 1) * b < l /\ (k - 1) * b \in Nat /\ k * b = (k - 1) * b + b
<1> DEFINE a == l + b - 1
<1>1. a \in Nat /\ m \in Nat
  BY Quotients
<1>2. b * m <= a /\ a < b * m + b
  BY Quotients
<1>3. m * b = b * m /\ l <= m * b
  BY <1>1, <1>2
<1>4. ASSUME NEW k \in 1 .. m
      PROVE  (k - 1) * b < l /\ (k - 1) * b \in Nat /\ k * b = (k - 1) * b + b
  <2>1. k - 1 \in Nat /\ m - k \in Nat
    BY <1>1
  <2>2. k * b = (k - 1) * b + b
    BY <2>1
  <2>3. m * b = k * b + (m - k) * b
    BY <1>1, <2>1
  <2>4. (m - k) * b \in Nat /\ (k - 1) * b \in Nat
    BY <2>1
  <2> QED
    BY <1>2, <1>3, <2>2, <2>3, <2>4
<1> QED
  BY <1>1, <1>3, <1>4

\* Asked for piece by piece, the texts come back whole.
LEMMA EmbedIsWhole ==
    ASSUME NEW S, NEW texts \in Seq(S)
    PROVE  embed(texts) = texts
<1> DEFINE b == BatchLimit
           l == Len(texts)
           m == (l + b - 1) \div b
           to(k) == IF k * b < l THEN k * b ELSE l
           f == [k \in 1 .. m |-> SubSeq(texts, (k - 1) * b + 1, to(k))]
<1>1. b \in Nat \ {0} /\ l \in Nat /\ \A x \in 1 .. l : texts[x] \in S
  BY BatcherAssumption, LenProperties, ElementOfSeq
<1>2. embed(texts) = IF texts = <<>> THEN <<>> ELSE FlattenSeq(f)
  BY DEF embed, batchInputs
<1> HIDE DEF b
<1>3. /\ m \in Nat /\ l <= m * b
      /\ \A k \in 1 .. m : (k - 1) * b < l /\ (k - 1) * b \in Nat /\ k * b = (k - 1) * b + b
  BY <1>1, Multiples
<1> HIDE DEF l, m
<1>4. ASSUME NEW k \in 1 .. m
      PROVE  /\ f[k] \in Seq(S) /\ (k - 1) * b \in Nat /\ Len(f[k]) = to(k) - (k - 1) * b
             /\ to(k) \in Nat /\ (k - 1) * b <= to(k) /\ to(k) <= l
             /\ \A x \in 1 .. Len(f[k]) : f[k][x] = texts[(k - 1) * b + x]
             /\ k # 1 => to(k - 1) = (k - 1) * b
             /\ to(k) = l \/ to(k) = k * b
  <2> DEFINE p == (k - 1) * b
             q == to(k)
  <2>1. p < l /\ p \in Nat /\ k * b = p + b
    BY <1>3
  <2>2. to(k - 1) = p
    BY <2>1
  <2>3. q \in Nat /\ p <= q /\ q <= l /\ (q = l \/ q = k * b)
    <3> HIDE DEF p
    <3> QED
      BY <1>1, <2>1
  <2>4. f[k] = SubSeq(texts, p + 1, q)
    OBVIOUS
  <2> HIDE DEF p, q, to
  <2> DEFINE c == q - p
  <2>5. c \in Nat /\ q = p + c /\ \A x \in p + 1 .. p + c : texts[x] \in S
    BY <1>1, <2>1, <2>3
  <2> HIDE DEF c
  <2>6. LET r == SubSeq(texts, p + 1, p + c)
        IN  r \in Seq(S) /\ Len(r) = c /\ \A x \in 1 .. c : r[x] = texts[p + x]
    BY <2>1, <2>5, Window
  <2> HIDE DEF f
  <2>7. f[k] \in Seq(S) /\ Len(f[k]) = c /\ \A x \in 1 .. c : f[k][x] = texts[p + x]
    BY <2>4, <2>5, <2>6
  <2> QED
    BY <2>1, <2>2, <2>3, <2>7 DEF c, p, q
<1> HIDE DEF to
<1>5. f \in Seq(Seq(S)) /\ Len(f) = m
  <2>1. f \in [1 .. m -> Seq(S)]
    BY <1>4
  <2> HIDE DEF f
  <2> QED
    BY <1>3, <2>1, PartsOnly
<1> HIDE DEF f
<1>6. PICK g : Flattens(g, f, S) /\ FlattenSeq(f) = g[m]
  BY <1>5, FlattenTurns
<1> DEFINE N == {k \in Nat : k <= m => /\ Starts(texts, g[k])
                                       /\ Len(g[k]) = IF k = 0 THEN 0 ELSE to(k)}
<1>7. 0 \in N
  <2>1. g[0] = <<>> /\ Len(g[0]) = 0
    BY <1>6 DEF Flattens
  <2> QED
    BY <1>1, <2>1 DEF Starts, l
<1>8. ASSUME NEW k \in Nat, k \in N PROVE k + 1 \in N
  <2> SUFFICES ASSUME k + 1 <= m PROVE Starts(texts, g[k + 1]) /\ Len(g[k + 1]) = to(k + 1)
    OBVIOUS
  <2> DEFINE p == k * b
             part == f[k + 1]
  <2>1. k + 1 \in 1 .. m /\ (k + 1) - 1 = k /\ k <= m /\ k \in 0 .. m
    BY <1>3
  <2>2. Starts(texts, g[k]) /\ Len(g[k]) = IF k = 0 THEN 0 ELSE to(k)
    BY <1>8, <2>1
  <2>3. /\ part \in Seq(S) /\ p \in Nat /\ Len(part) = to(k + 1) - p
        /\ to(k + 1) \in Nat /\ p <= to(k + 1) /\ to(k + 1) <= l
        /\ \A x \in 1 .. Len(part) : part[x] = texts[p + x]
        /\ k # 0 => to(k) = p
    BY <1>4, <2>1
  <2>4. Len(g[k]) = p
    <3>1. k = 0 => p = 0
      BY <1>1
    <3> QED
      BY <2>2, <2>3, <3>1
  <2>5. g[k + 1] = Cat(g[k], part) /\ g[k] \in Seq(S)
    BY <1>5, <1>6, <2>1 DEF Flattens
  <2>6. Goes(g[k + 1], g[k], part)
    BY <2>3, <2>5, CatFacts
  <2> HIDE DEF p, part
  <2>7. Len(g[k + 1]) = to(k + 1) /\ Len(g[k + 1]) \in Nat
    BY <2>3, <2>4, <2>6 DEF Goes, Starts
  <2>8. ASSUME NEW x \in 1 .. Len(g[k + 1]) PROVE texts[x] = g[k + 1][x]
    <3>1. CASE x <= p
      <4>1. x \in 1 .. Len(g[k])
        BY <2>3, <2>4, <2>7, <3>1
      <4> QED
        BY <2>2, <2>6, <4>1 DEF Goes, Starts
    <3>2. CASE ~(x <= p)
      <4>1. x - p \in 1 .. Len(part) /\ p + (x - p) = x
        BY <2>3, <2>7, <3>2
      <4> QED
        <5>1. g[k + 1][Len(g[k]) + (x - p)] = part[x - p] /\ part[x - p] = texts[p + (x - p)]
          BY <2>3, <2>6, <4>1 DEF Goes
        <5> QED
          BY <2>4, <4>1, <5>1
    <3> QED
      BY <3>1, <3>2
  <2> QED
    BY <1>1, <2>3, <2>7, <2>8 DEF Starts, l
<1> HIDE DEF N
<1>9. m \in N
  BY <1>3, <1>7, <1>8, NatInduction1
<1>10. Starts(texts, g[m]) /\ Len(g[m]) = IF m = 0 THEN 0 ELSE to(m)
  BY <1>3, <1>9 DEF N
<1>11. m # 0 => to(m) = l
  BY <1>1, <1>3 DEF to
<1>12. texts # <<>> => m # 0
  <2>1. texts # <<>> => l # 0
    BY EmptySeq DEF l
  <2>2. m = 0 => m * b = 0
    BY <1>1
  <2> QED
    BY <1>1, <1>3, <2>1, <2>2
<1>13. ASSUME texts # <<>> PROVE g[m] = texts
  <2>1. Len(g[m]) = l
    BY <1>10, <1>11, <1>12, <1>13
  <2>2. g[m] \in Seq(S)
    BY <1>3, <1>5, <1>6 DEF Flattens
  <2> QED
    BY <1>10, <2>1, <2>2, SeqEqual DEF Starts, l
<1> QED
  BY <1>2, <1>6, <1>13

-----------------------------------------------------------------------------
(* Answers.                                                                *)

\* What is in line is what its caller asked for last.
OwnChunks ==
    /\ \A i \in DOMAIN queue : queue[i].chunks = Chunks(queue[i].who, asked[queue[i].who])
    /\ \A i \in DOMAIN batch : batch[i].chunks = Chunks(batch[i].who, asked[batch[i].who])

Vector == UNION {{<<c, k>> : k \in 1 .. MaxSize} : c \in Clients}

LEMMA ChunksType ==
    ASSUME NEW s \in Submissions
    PROVE  s.chunks \in Seq(Vector)
<1>1. PICK c \in Clients, n \in 1 .. MaxSize : s.chunks = Chunks(c, n)
  BY DEF Submissions
<1> DEFINE f == [k \in 1 .. n |-> <<c, k>>]
<1>2. n \in Nat /\ \A k \in 1 .. n : k \in 1 .. MaxSize
  BY MaxSizeAssumption
<1>3. f \in [1 .. n -> Vector]
  <2>1. \A k \in 1 .. n : <<c, k>> \in Vector
    BY <1>2 DEF Vector
  <2> QED
    BY <2>1
<1>4. Chunks(c, n) = f
  BY DEF Chunks
<1> HIDE DEF f
<1>5. f \in Seq(Vector)
  BY <1>2, <1>3, SeqDef
<1> QED
  BY <1>1, <1>4, <1>5

LEMMA OwnSlice ==
    ASSUME TypeOK, NEW i \in DOMAIN batch
    PROVE  Slice(embed(Texts), i) = batch[i].chunks
<1> DEFINE n == Len(batch)
           seqs == [j \in 1 .. n |-> batch[j].chunks]
<1>1. n \in Nat /\ DOMAIN batch = 1 .. n /\ \A j \in 1 .. n : batch[j] \in Submissions
  BY LenProperties, ElementOfSeq DEF TypeOK
<1>2. seqs \in [1 .. n -> Seq(Vector)] /\ \A j \in 1 .. n : seqs[j] = batch[j].chunks
  BY <1>1, ChunksType
<1>3. Texts = FlattenSeq(seqs)
  BY <1>1 DEF Texts
<1>4. i \in 1 .. n
  BY <1>1
<1>5. Cursor(i) = Len(FlattenSeq([j \in 1 .. (i - 1) |-> seqs[j]]))
  <2>1. [j \in 1 .. (i - 1) |-> batch[j].chunks] = [j \in 1 .. (i - 1) |-> seqs[j]]
    BY <1>1, <1>4
  <2> HIDE DEF seqs
  <2> QED
    BY <2>1 DEF Cursor
<1> HIDE DEF seqs
<1>6. seqs \in Seq(Seq(Vector)) /\ Len(seqs) = n
  BY <1>1, <1>2, PartsOnly
<1>7. FlattenSeq(seqs) \in Seq(Vector)
  <2>1. PICK g : Flattens(g, seqs, Vector) /\ FlattenSeq(seqs) = g[Len(seqs)]
    BY <1>6, FlattenTurns
  <2> QED
    BY <1>1, <1>6, <2>1 DEF Flattens
<1>8. embed(Texts) = FlattenSeq(seqs)
  BY <1>3, <1>7, EmbedIsWhole
<1> DEFINE cursor == Cursor(i)
<1>9. cursor = Len(FlattenSeq([j \in 1 .. (i - 1) |-> seqs[j]]))
  BY <1>5
<1>10. Slice(embed(Texts), i) = SubSeq(FlattenSeq(seqs), cursor + 1, cursor + Len(seqs[i]))
  BY <1>2, <1>4, <1>8 DEF Slice
<1> HIDE DEF cursor
<1>11. SubSeq(FlattenSeq(seqs), cursor + 1, cursor + Len(seqs[i])) = seqs[i]
  BY <1>4, <1>6, <1>9, SliceIsPart
<1> QED
  BY <1>2, <1>4, <1>10, <1>11

LEMMA OwnStart == Init => OwnChunks /\ OwnVectors
<1> SUFFICES ASSUME Init PROVE OwnChunks /\ OwnVectors
  OBVIOUS
<1>1. queue = <<>> /\ batch = <<>> /\ answer = [c \in Clients |-> Idle]
  BY DEF Init, BatcherInit
<1>2. DOMAIN queue = {} /\ DOMAIN batch = {}
  BY <1>1
<1> QED
  BY <1>1, <1>2, Promises DEF OwnChunks, OwnVectors

\* A step that changes neither what was asked nor an answer.
LEMMA OwnLines ==
    ASSUME OwnChunks, UNCHANGED asked,
           UNCHANGED <<queue, batch>> \/ Flush(queue, queuedChunks) \/ EndFlush
    PROVE  OwnChunks'
<1>1. /\ \A i \in DOMAIN queue' : queue'[i] = queue[i] /\ i \in DOMAIN queue
      /\ \A i \in DOMAIN batch' : \/ batch'[i] = batch[i] /\ i \in DOMAIN batch
                                  \/ batch'[i] = queue[i] /\ i \in DOMAIN queue
  <2>1. DOMAIN <<>> = {}
    OBVIOUS
  <2> QED
    BY <2>1, Zenon DEF Flush, EndFlush
<1> QED
  BY <1>1 DEF OwnChunks

LEMMA OwnAsk ==
    ASSUME IInv, OwnChunks, OwnVectors, NEW c \in Clients, Ask(c)
    PROVE  OwnChunks' /\ OwnVectors'
<1> PICK n \in 0 .. MaxSize : /\ asked' = [asked EXCEPT ![c] = n]
                              /\ Submit(c, Chunks(c, n))
  BY DEF Ask
<1> DEFINE s == [who |-> c, chunks |-> Chunks(c, n)]
           q == Append(queue, s)
<1>1. /\ DOMAIN answer = Clients /\ \A d \in Clients : d # c => asked'[d] = asked[d]
      /\ asked'[c] = n
  BY DEF IInv, TypeOK
<1>2. ~InLine(queue, c) /\ ~InLine(batch, c)
  <2>1. answer[c].is = "idle" /\ answer[c] # Waiting
    BY Promises DEF Ask
  <2> QED
    BY <2>1 DEF IInv, EachOnce
<1>3. \A i \in DOMAIN queue : queue[i].who \in Clients /\ queue[i].who # c
  <2>1. \A i \in DOMAIN queue : queue[i] \in Submissions
    BY DEF IInv, TypeOK
  <2> QED
    BY <1>2, <2>1, Submitters DEF InLine
<1>4. \A i \in DOMAIN batch : batch[i].who \in Clients /\ batch[i].who # c
  <2>1. \A i \in DOMAIN batch : batch[i] \in Submissions
    BY DEF IInv, TypeOK
  <2> QED
    BY <1>2, <2>1, Submitters DEF InLine
<1>5. /\ \A i \in DOMAIN queue : queue[i].chunks = Chunks(queue[i].who, asked'[queue[i].who])
      /\ \A i \in DOMAIN batch : batch[i].chunks = Chunks(batch[i].who, asked'[batch[i].who])
  BY <1>1, <1>3, <1>4 DEF OwnChunks
<1>6. CASE n = 0
  <2>1. /\ answer' = [answer EXCEPT ![c] = Vectors(<<>>)]
        /\ UNCHANGED <<queue, batch>>
    BY <1>6, NoChunks DEF Submit, SubmitNothing
  <2>2. Vectors(<<>>).vectors = Chunks(c, n)
    BY <1>6, NoChunks DEF Vectors
  <2>3. OwnVectors'
    <3> SUFFICES ASSUME NEW d \in Clients, answer'[d].is = "vectors"
                 PROVE  answer'[d].vectors = Chunks(d, asked'[d])
      BY DEF OwnVectors
    <3>1. CASE d = c
      BY <1>1, <2>1, <2>2, <3>1
    <3>2. CASE d # c
      BY <1>1, <2>1, <3>2 DEF OwnVectors
    <3> QED
      BY <3>1, <3>2
  <2> QED
    BY <1>5, <2>1, <2>3 DEF OwnChunks
<1>7. CASE n # 0
  <2>1. SubmitChunks(c, Chunks(c, n))
    BY <1>7, NoChunks DEF Submit
  <2>2. answer' = [answer EXCEPT ![c] = Waiting]
    BY <2>1 DEF SubmitChunks
  <2>3. OwnVectors'
    <3> SUFFICES ASSUME NEW d \in Clients, answer'[d].is = "vectors"
                 PROVE  answer'[d].vectors = Chunks(d, asked'[d])
      BY DEF OwnVectors
    <3>1. d # c
      BY <1>1, <2>2, Promises
    <3> QED
      BY <1>1, <2>2, <3>1 DEF OwnVectors
  <2>4. \A i \in DOMAIN q : q[i].chunks = Chunks(q[i].who, asked'[q[i].who])
    <3>1. n \in 1 .. MaxSize
      BY <1>7, MaxSizeAssumption
    <3>2. s \in Submissions /\ queue \in Seq(Submissions)
      BY <3>1, ASubmission DEF IInv, TypeOK
    <3>3. s.who = c /\ s.chunks = Chunks(c, n)
      OBVIOUS
    <3> HIDE DEF s
    <3>4. \A i \in DOMAIN q : \/ i \in DOMAIN queue /\ q[i] = queue[i]
                              \/ q[i] = s
      BY <3>2
    <3> HIDE DEF q
    <3> QED
      BY <1>1, <1>5, <3>3, <3>4
  <2>5. \/ queue' = q /\ batch' = batch
        \/ queue' = <<>> /\ batch' = q
    <3>1. \/ queue' = q /\ UNCHANGED batch
          \/ Flush(q, queuedChunks + Len(Chunks(c, n)))
      BY <2>1 DEF SubmitChunks
    <3> HIDE DEF q
    <3> QED
      BY <3>1 DEF Flush
  <2> HIDE DEF q
  <2>6. DOMAIN <<>> = {}
    OBVIOUS
  <2> QED
    BY <1>5, <2>3, <2>4, <2>5, <2>6, Zenon DEF OwnChunks
<1> QED
  BY <1>6, <1>7

LEMMA OwnReturns ==
    ASSUME IInv, OwnChunks, OwnVectors, EmbedReturns, UNCHANGED asked
    PROVE  OwnVectors'
<1> SUFFICES ASSUME NEW c \in Clients, answer'[c].is = "vectors"
             PROVE  answer'[c].vectors = Chunks(c, asked[c])
  BY DEF OwnVectors
<1> DEFINE mine == CHOOSE i \in DOMAIN batch : batch[i].who = c
<1>1. CASE \E i \in DOMAIN batch : batch[i].who = c
  <2>1. answer'[c] = Vectors(Slice(embed(Texts), mine))
    BY <1>1, Zenon DEF EmbedReturns
  <2>2. mine \in DOMAIN batch /\ batch[mine].who = c
    BY <1>1
  <2> HIDE DEF mine
  <2>3. Slice(embed(Texts), mine) = Chunks(c, asked[c])
    BY <2>2, OwnSlice DEF IInv, OwnChunks
  <2> QED
    BY <2>1, <2>3 DEF Vectors
<1>2. CASE ~\E i \in DOMAIN batch : batch[i].who = c
  <2>1. answer'[c] = answer[c]
    BY <1>2, Zenon DEF EmbedReturns
  <2> QED
    BY <2>1 DEF OwnVectors
<1> QED
  BY <1>1, <1>2

LEMMA OwnStep == IInv /\ OwnChunks /\ OwnVectors /\ [Next]_vars => OwnChunks' /\ OwnVectors'
<1> SUFFICES ASSUME IInv, OwnChunks, OwnVectors, [Next]_vars
             PROVE  OwnChunks' /\ OwnVectors'
  OBVIOUS
<1>0. DOMAIN answer = Clients
  BY DEF IInv, TypeOK
<1>1. CASE \E c \in Clients : Ask(c)
  BY <1>1, OwnAsk
<1>2. ASSUME NEW c \in Clients, Receive(c) PROVE OwnChunks' /\ OwnVectors'
  <2>1. answer' = [answer EXCEPT ![c] = Idle] /\ UNCHANGED <<queue, batch, asked>>
    BY <1>2 DEF Receive
  <2>2. OwnChunks'
    BY <2>1, OwnLines
  <2>3. \A d \in Clients : answer'[d].is = "vectors" => answer'[d] = answer[d]
    BY <1>0, <2>1, Promises
  <2> QED
    BY <2>1, <2>2, <2>3 DEF OwnVectors
<1>3. CASE (TimerFires \/ Drain) /\ UNCHANGED asked
  <2>1. Flush(queue, queuedChunks) /\ UNCHANGED <<answer, asked>>
    BY <1>3 DEF TimerFires, Drain
  <2> QED
    BY <2>1, OwnLines DEF OwnVectors
<1>4. CASE EmbedReturns /\ UNCHANGED asked
  BY <1>4, OwnReturns, OwnLines DEF EmbedReturns
<1>5. CASE EmbedFails /\ UNCHANGED asked
  <2>1. OwnChunks'
    BY <1>5, OwnLines DEF EmbedFails
  <2>2. \A c \in Clients : answer'[c].is = "vectors" => answer'[c] = answer[c]
    BY <1>5, Promises, Zenon DEF EmbedFails
  <2> QED
    BY <1>5, <2>1, <2>2 DEF OwnVectors
<1>6. CASE UNCHANGED vars
  BY <1>6, OwnLines DEF vars, OwnVectors
<1> QED
  BY <1>1, <1>2, <1>3, <1>4, <1>5, <1>6 DEF Next

\* No file is ever given the vectors of another one, whatever the sizes of the
\* submissions, MaxChunks and the limit of the provider.
THEOREM NobodysVectors == Spec => []OwnVectors
<1>1. Init => OwnChunks /\ OwnVectors
  BY OwnStart
<1>2. IInv /\ (OwnChunks /\ OwnVectors) /\ [Next]_vars => (OwnChunks /\ OwnVectors)'
  BY OwnStep
<1> QED
  BY <1>1, <1>2, Invariance, PTL DEF Spec
=============================================================================
