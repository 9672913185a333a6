------------------------------- MODULE Search -------------------------------
(***************************************************************************)
(* Hybrid search over the chunks of one vault: the two arms and their      *)
(* fusion (searchHybrid in src/src/indexer/store.ts), the diversification  *)
(* and the floor (src/src/indexer/rank.ts), and the order in which         *)
(* Indexer.search applies them (src/src/indexer/index.ts).                 *)
(*                                                                         *)
(* A chunk is a position of Chunks: that is the content order by which     *)
(* ties are broken.  A path is a sequence of characters.  What LanceDB     *)
(* thinks of a chunk, its vector similarity and its BM25 score, belongs to *)
(* the query: a number for each chunk and arm, 0 where the arm has no hit. *)
(* Scores are in 1/Scale, rounded down.                                    *)
(*                                                                         *)
(* CutFirst is not the code: it is a plausible bug of the definition it    *)
(* precedes, by which a property is tried.                                 *)
(***************************************************************************)
EXTENDS Integers, SequencesExt

CONSTANTS
    Chunks,      \* the table: a sequence of [path, of], `of` its vault
    Pool, RrfK,  \* 60 and 60
    Scale

ASSUME SearchAssumption ==
    /\ Chunks \in Seq([path : Seq(STRING), of : Seq(STRING)])
    /\ {Pool, RrfK, Scale} \subseteq Nat \ {0}

PathOf(c) == Chunks[c].path

----------------------------------------------------------------------------
\* A set of hits, the best first; ties in the order of the table.
Ranked(hits) ==
    LET Above(h) == {g \in hits : \/ g.score > h.score
                                  \/ g.score = h.score /\ g.chunk < h.chunk}
    IN  [i \in 1..Cardinality(hits) |-> CHOOSE h \in hits : Cardinality(Above(h)) = i - 1]

Hit(c, score) == [chunk |-> c, path |-> PathOf(c), score |-> score]

Cut(s, n) == SubSeq(s, 1, IF n < Len(s) THEN n ELSE Len(s))
Without(s, out) ==
    FoldLeft(LAMBDA kept, x : IF x \in out THEN kept ELSE Append(kept, x), <<>>, s)

candidates(limit) == IF Pool > 3 * limit THEN Pool ELSE 3 * limit

buildFilterClause(table, prefix) == {c \in table : IsPrefix(prefix, PathOf(c))}

Arm(rows, signal, limit) ==
    Cut(Ranked({Hit(c, signal[c]) : c \in {d \in rows : signal[d] > 0}}), candidates(limit))

\* Each arm gives 1 / (k + rank); the sum is measured against the best possible.
Points(arm, c, arms) ==
    IF \E i \in DOMAIN arm : arm[i].chunk = c
    THEN LET rank == CHOOSE i \in DOMAIN arm : arm[i].chunk = c
         IN  (Scale * (RrfK + 1)) \div (arms * (RrfK + rank))
    ELSE 0
Fused(vector, fts) ==
    {Hit(c, Points(vector, c, 2) + Points(fts, c, 2)) :
        c \in {h.chunk : h \in Range(vector) \cup Range(fts)}}

\* One arm answers with its own scores, two with the fusion of their ranks.
searchHybrid(table, query, opts) ==
    LET rows == buildFilterClause(table, opts.prefix)
        vector == Arm(rows, query.vector, opts.limit)
        fts == Arm(rows, query.fts, opts.limit)
    IN  CASE opts.mode = "vector" -> vector
          [] opts.mode = "fts"    -> fts
          [] opts.mode = "hybrid" -> Ranked({h \in Fused(vector, fts) : h.score > 0})

----------------------------------------------------------------------------
\* How often the path of a candidate has been taken.
Taken(pool, picked, i) == Cardinality({j \in Range(picked) : pool[j].path = pool[i].path})

mmrScore(pool, picked, i, lambda) ==
    lambda * pool[i].score - (IF Taken(pool, picked, i) > 0 THEN (100 - lambda) * Scale ELSE 0)

\* One turn of the loop; the first of the best, so the lower position at a tie.
Pick(pool, picked, lambda, maxPerPath) ==
    LET open == {i \in DOMAIN pool \ Range(picked) : Taken(pool, picked, i) < maxPerPath}
        worth(i) == mmrScore(pool, picked, i, lambda)
    IN  IF open = {} THEN picked
        ELSE Append(picked, CHOOSE i \in open : \A j \in open :
                 worth(i) > worth(j) \/ (worth(i) = worth(j) /\ i <= j))

applyMmr(hits, lambda, maxPerPath, topK) ==
    LET pool == Cut(hits, topK)
        picked == FoldLeft(LAMBDA sofar, hit : Pick(pool, sofar, lambda, maxPerPath), <<>>, pool)
    IN  [n \in DOMAIN picked |-> pool[picked[n]]]

applyThreshold(hits, threshold) == Without(hits, {h \in Range(hits) : h.score < threshold})

\* What it is not: the cut taken before the hits are spread over the paths.
CutFirst(table, query, opts) ==
    applyThreshold(applyMmr(Cut(searchHybrid(table, query, opts), opts.limit),
                            opts.lambda, opts.maxPerPath, candidates(opts.limit)),
                   opts.threshold)

search(table, query, opts) ==
    LET diversified == applyMmr(searchHybrid(table, query, opts),
                                opts.lambda, opts.maxPerPath, candidates(opts.limit))
    IN  Cut(applyThreshold(diversified, opts.threshold), opts.limit)
=============================================================================
