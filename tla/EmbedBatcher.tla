---------------------------- MODULE EmbedBatcher ----------------------------
(***************************************************************************)
(* The coalescing aggregator in front of the embedder: class EmbedBatcher  *)
(* of src/src/indexer/pipeline.ts, one per vault.                          *)
(*                                                                         *)
(* A caller (one upsert) submits the texts of its chunks and waits for one *)
(* vector per text.  Submissions queue up until a window timer fires or a  *)
(* count is reached; one `embedder.embed()` call then serves the whole     *)
(* queue, its answer is cut back into one slice per submission, and what   *)
(* queued meanwhile waits for another timer.  The embedder (external) maps *)
(* a sequence of texts to a sequence of vectors in the same order: a       *)
(* vector is named here by the text it was computed from.                  *)
(*                                                                         *)
(* EmbedClients.tla closes these operations with callers that keep coming  *)
(* back; Indexer.tla composes them with the pipeline that calls them.      *)
(* SubmitChunksWithoutTimer, CursorPerItem and EndFlushNoRearm are not the *)
(* code: each is a plausible bug of the definition it precedes.            *)
(***************************************************************************)
EXTENDS Naturals, Sequences, SequencesExt

CONSTANTS
    Clients,    \* the callers of submit()
    MaxChunks,  \* maxChunks: reaching it flushes without waiting
    BatchLimit  \* OPENAI_BATCH_LIMIT: inputs per request of the provider

ASSUME BatcherAssumption ==
    MaxChunks \in Nat \ {0} /\ BatchLimit \in Nat \ {0}

VARIABLES
    queue,        \* this.queue: submissions not handed to the embedder yet
    queuedChunks, \* this.queuedChunks
    timer,        \* this.timer # null
    flushing,     \* this.flushing: an embed() call is outstanding
    batch,        \* the submissions that call covers
    answer        \* what each client's promise holds

-----------------------------------------------------------------------------
\* The promise of a client: not asked, pending, fulfilled or rejected.
Idle == [is |-> "idle", vectors |-> <<>>]
Waiting == [is |-> "waiting", vectors |-> <<>>]
Rejected == [is |-> "rejected", vectors |-> <<>>]
Vectors(v) == [is |-> "vectors", vectors |-> v]

BatcherInit ==
    /\ queue = <<>> /\ queuedChunks = 0
    /\ timer = FALSE /\ flushing = FALSE /\ batch = <<>>
    /\ answer = [c \in Clients |-> Idle]

\* flush() with q queued and n counted: a no-op while a call is outstanding
\* or when nothing is queued.
Flush(q, n) ==
    IF flushing \/ q = <<>>
    THEN /\ queue' = q /\ queuedChunks' = n
         /\ UNCHANGED <<flushing, batch>>
    ELSE /\ queue' = <<>> /\ queuedChunks' = 0
         /\ flushing' = TRUE /\ batch' = q

\* submit(chunks).  No chunk, no embedding: the promise is fulfilled at once.
SubmitNothing(c) ==
    /\ answer' = [answer EXCEPT ![c] = Vectors(<<>>)]
    /\ UNCHANGED <<queue, queuedChunks, timer, flushing, batch>>

SubmitChunksWithoutTimer(c, chunks) ==
    LET q == Append(queue, [who |-> c, chunks |-> chunks])
        n == queuedChunks + Len(chunks)
    IN  /\ answer' = [answer EXCEPT ![c] = Waiting]
        /\ IF n >= MaxChunks
           THEN timer' = FALSE /\ Flush(q, n)
           ELSE /\ queue' = q /\ queuedChunks' = n
                /\ UNCHANGED <<timer, flushing, batch>>
SubmitChunks(c, chunks) ==
    LET q == Append(queue, [who |-> c, chunks |-> chunks])
        n == queuedChunks + Len(chunks)
    IN  /\ answer' = [answer EXCEPT ![c] = Waiting]
        /\ IF n >= MaxChunks
           THEN timer' = FALSE /\ Flush(q, n)
           ELSE /\ queue' = q /\ queuedChunks' = n /\ timer' = TRUE
                /\ UNCHANGED <<flushing, batch>>

Submit(c, chunks) ==
    \/ chunks = <<>> /\ SubmitNothing(c)
    \/ chunks # <<>> /\ SubmitChunks(c, chunks)

TimerFires ==
    /\ timer
    /\ timer' = FALSE
    /\ Flush(queue, queuedChunks)
    /\ UNCHANGED answer

\* drain(), at shutdown.
Drain ==
    /\ timer' = FALSE
    /\ Flush(queue, queuedChunks)
    /\ UNCHANGED answer

-----------------------------------------------------------------------------
(* The outstanding embed() call.                                           *)

\* The texts of the batch, in the order embed() receives them.
Texts == FlattenSeq([i \in DOMAIN batch |-> batch[i].chunks])

\* The provider asks for BatchLimit inputs at a time and concatenates the
\* answers (a vector is its text).
batchInputs(texts) ==
    [k \in 1..((Len(texts) + BatchLimit - 1) \div BatchLimit) |->
        SubSeq(texts, (k - 1) * BatchLimit + 1,
               IF k * BatchLimit < Len(texts) THEN k * BatchLimit ELSE Len(texts))]
embed(texts) == IF texts = <<>> THEN <<>> ELSE FlattenSeq(batchInputs(texts))

\* The cursor before the i-th submission of the batch, and its slice.
CursorPerItem(i) == i - 1
Cursor(i) == Len(FlattenSeq([j \in 1..(i - 1) |-> batch[j].chunks]))
Slice(vectors, i) ==
    SubSeq(vectors, Cursor(i) + 1, Cursor(i) + Len(batch[i].chunks))

\* The finally block: what queued during the call gets a timer of its own.
EndFlushNoRearm ==
    /\ flushing' = FALSE /\ batch' = <<>>
    /\ UNCHANGED <<queue, queuedChunks, timer>>
EndFlush ==
    /\ flushing' = FALSE /\ batch' = <<>>
    /\ timer' = (timer \/ queue # <<>>)
    /\ UNCHANGED <<queue, queuedChunks>>

EmbedReturns ==
    /\ flushing
    /\ LET vectors == embed(Texts)
       IN  answer' = [c \in Clients |->
                        IF \E i \in DOMAIN batch : batch[i].who = c
                        THEN Vectors(Slice(vectors, CHOOSE i \in DOMAIN batch :
                                                        batch[i].who = c))
                        ELSE answer[c]]
    /\ EndFlush

\* One failed call rejects every submission it covered.
EmbedFails ==
    /\ flushing
    /\ answer' = [c \in Clients |->
                     IF \E i \in DOMAIN batch : batch[i].who = c
                     THEN Rejected ELSE answer[c]]
    /\ EndFlush

=============================================================================
