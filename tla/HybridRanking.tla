---------------------------- MODULE HybridRanking ---------------------------
(***************************************************************************)
(* Hybrid search: the fusion of the index's ranking of a query with the    *)
(* ranking of the stored vectors.  Messages are numbered in the order of   *)
(* their keys.  `lexical` is the index's answer, best first, `similar` the *)
(* similarity of every stored vector, `passing` the messages that are      *)
(* indexed and pass the filters; `lexical` is within it.  The weight of    *)
(* the semantic side is w of `Weights`, each side counts 1/(K + its rank), *)
(* and `ranks` is the largest rank told apart.  Session keys are ordered   *)
(* like the keys of their messages; snippets and the model are left out.   *)
(***************************************************************************)
EXTENDS Integers, SequencesExt, Subsequences

Weights == 4
Cut(s, n) == SubSeq(s, 1, Min({n, Len(s)}))

\* The k most similar vectors, by key where they tie.
MoreSimilar(similar) ==
    {p \in (DOMAIN similar) \X (DOMAIN similar) :
        \/ similar[p[1]] > similar[p[2]]
        \/ similar[p[1]] = similar[p[2]] /\ p[1] < p[2]}
TopK(similar, k) == Cut(InOrder(DOMAIN similar, MoreSimilar(similar)), k)

\* The candidates that are indexed and pass the filters, in the same order.
FetchFiltered(keys, passing) == Picked(keys, {i \in DOMAIN keys : keys[i] \in passing})

\* 1-based; 0 for a message the pool lacks.
RankIn(pool, m, ranks) ==
    IF m \in Range(pool) THEN Min({ranks, CHOOSE i \in DOMAIN pool : pool[i] = m}) ELSE 0

\* The score as a fraction over (K + lexical rank) * (K + semantic rank).
Score(lexRank, semRank, w, K) ==
    [num |-> (IF lexRank = 0 THEN 0 ELSE (Weights - w) * (K + semRank))
               + (IF semRank = 0 THEN 0 ELSE w * (K + lexRank)),
     den |-> (K + lexRank) * (K + semRank)]

Higher(s, t) == s.num * t.den > t.num * s.den

\* The better score first, by key where they tie.
Better(score) ==
    {p \in (DOMAIN score) \X (DOMAIN score) :
        \/ Higher(score[p[1]], score[p[2]])
        \/ ~Higher(score[p[2]], score[p[1]]) /\ p[1] < p[2]}

Fuse(lexical, semantic, w, limit, K, ranks) ==
    LET all == Range(lexical) \cup Range(semantic)
        score == [m \in all |-> Score(RankIn(lexical, m, ranks), RankIn(semantic, m, ranks), w, K)]
    IN  Cut(InOrder(all, Better(score)), limit)

\* Without weight or candidates it is the lexical search.
SearchHybrid(lexical, ranked, passing, w, limit, pool, K, ranks) ==
    LET size == Max({pool, limit, 1})
    IN  IF w = 0 \/ ranked = <<>> THEN Cut(lexical, limit)
        ELSE Fuse(Cut(lexical, size), FetchFiltered(Cut(ranked, size), passing), w, limit, K, ranks)

\* The hybrid answer exists when the user agreed to the model, some vector is
\* stored and the query is embedded (`ready` says that the model works).
HybridReady(similar, ready) == ready /\ DOMAIN similar # {}
TryHybridSearch(lexical, similar, passing, w, pool, K, ranks) ==
    SearchHybrid(lexical, TopK(similar, pool), passing, w, pool, pool, K, ranks)

\* The lexical answer takes the place of a hybrid one that does not.
RawSearchHits(lexical, similar, passing, ready, w, pool, K, ranks) ==
    IF w > 0 /\ HybridReady(similar, ready)
    THEN [engine |-> "hybrid", hits |-> TryHybridSearch(lexical, similar, passing, w, pool, K, ranks)]
    ELSE [engine |-> "lexical", hits |-> Cut(lexical, pool)]

-----------------------------------------------------------------------------
(* What they promise.                                                      *)

Precedes(s, a, b) == \E i, j \in DOMAIN s : i < j /\ s[i] = a /\ s[j] = b

\* A stored vector of a message that is gone or filtered out never surfaces, and
\* no message twice.
HitsPass(lexical, similar, passing, w, pool, K, ranks) ==
    LET hits == RawSearchHits(lexical, similar, passing, TRUE, w, pool, K, ranks).hits
    IN  Range(hits) \subseteq passing /\ IsInjective(hits) /\ Len(hits) <= pool

\* With a pool as large as both rankings, whatever either side knows is listed;
\* a smaller pool may fill with the vectors of messages that are gone.
LargePoolMissesNothing(lexical, similar, passing, w, K, ranks) ==
    LET pool == Max({Len(lexical) + Cardinality(DOMAIN similar), 1})
        hits == RawSearchHits(lexical, similar, passing, TRUE, w, pool, K, ranks).hits
    IN  Range(lexical) \cup (IF w > 0 THEN DOMAIN similar \cap passing ELSE {}) = Range(hits)

\* A message both sides prefer comes first.
AgreementDecides(lexical, similar, passing, w, pool, K, ranks) ==
    LET sem == FetchFiltered(TopK(similar, pool), passing)
        hits == RawSearchHits(lexical, similar, passing, TRUE, w, pool, K, ranks).hits
    IN  \A a, b \in Range(hits) : Precedes(lexical, a, b) /\ Precedes(sem, a, b) => Precedes(hits, a, b)

\* All the weight on the semantic side: its order, then the rest by key.
SemanticOnly(lexical, similar, passing, pool, K, ranks) ==
    LET sem == FetchFiltered(TopK(similar, pool), passing)
        hits == RawSearchHits(lexical, similar, passing, TRUE, Weights, pool, K, ranks).hits
    IN  DOMAIN similar # {} /\ pool > 0 => IsPrefix(Cut(sem, Len(hits)), hits)
=============================================================================
