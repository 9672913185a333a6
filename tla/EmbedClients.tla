---------------------------- MODULE EmbedClients ----------------------------
(***************************************************************************)
(* The embed batcher under its callers: upserts of different files, each   *)
(* of which submits its chunks and goes on when its promise settles.       *)
(***************************************************************************)
EXTENDS EmbedBatcher

CONSTANT MaxSize        \* bound: the chunks of one submission
ASSUME MaxSizeAssumption == MaxSize \in Nat

VARIABLE asked
vars == <<queue, queuedChunks, timer, flushing, batch, answer, asked>>

Chunks(c, n) == [k \in 1..n |-> <<c, k>>]

Init == BatcherInit /\ asked = [c \in Clients |-> 0]

Ask(c) ==
    /\ answer[c].is = "idle"
    /\ \E n \in 0..MaxSize :
          /\ asked' = [asked EXCEPT ![c] = n]
          /\ Submit(c, Chunks(c, n))

\* The caller goes on with the answer.
Receive(c) ==
    /\ answer[c].is \in {"vectors", "rejected"}
    /\ answer' = [answer EXCEPT ![c] = Idle]
    /\ UNCHANGED <<queue, queuedChunks, timer, flushing, batch, asked>>

Next ==
    \/ \E c \in Clients : Ask(c) \/ Receive(c)
    \/ (TimerFires \/ Drain \/ EmbedReturns \/ EmbedFails) /\ UNCHANGED asked

\* Timers fire and embed() calls settle.
Fairness ==
    /\ WF_vars(TimerFires /\ UNCHANGED asked)
    /\ WF_vars((EmbedReturns \/ EmbedFails) /\ UNCHANGED asked)

Spec == Init /\ [][Next]_vars /\ Fairness

-----------------------------------------------------------------------------
(* Properties.                                                             *)

Submissions == UNION {[who : {c}, chunks : {Chunks(c, n) : n \in 1..MaxSize}] :
                        c \in Clients}

\* Type invariant of the batcher and its clients.
TypeOK ==
    /\ queue \in Seq(Submissions) /\ batch \in Seq(Submissions)
    /\ queuedChunks \in Nat
    /\ timer \in BOOLEAN /\ flushing \in BOOLEAN
    /\ asked \in [Clients -> 0..MaxSize]
    /\ DOMAIN answer = Clients
    /\ \A c \in Clients : answer[c].is \in {"idle", "waiting", "vectors", "rejected"}

InLine(items, c) == \E i \in DOMAIN items : items[i].who = c

\* A caller whose upsert is blocked on submit() is always on its way to an
\* answer: its submission is in the outstanding call, or it is queued and a
\* timer or the end of the outstanding call will pick the queue up.  Neither
\* the re-entrancy guard of flush() nor a count-triggered flush that cleared
\* the timer may leave a queue nobody looks at again.
NothingStranded ==
    \A c \in Clients : answer[c] = Waiting =>
        \/ flushing /\ InLine(batch, c)
        \/ InLine(queue, c) /\ (timer \/ flushing)

\* Every answer is made of the vectors of that caller's own chunks, in order:
\* the cursor arithmetic never hands a file the vectors of another one.
OwnVectors ==
    \A c \in Clients : answer[c].is = "vectors" =>
                          answer[c].vectors = Chunks(c, asked[c])

\* At most one embed() call is outstanding: while it is, no flush changes the
\* submissions that call was made for.
OneCallAtATime == [][flushing /\ flushing' => batch' = batch]_vars

\* Every submission is answered, with vectors or with the failure of the call
\* that covered it: no upsert waits for ever.
EverySubmissionAnswered ==
    \A c \in Clients : answer[c] = Waiting ~> answer[c] # Waiting
=============================================================================
