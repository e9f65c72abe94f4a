------------------------------ MODULE Ranking ------------------------------
(***************************************************************************)
(* Search and re-ranking of the memory service: search() and               *)
(* list_by_user() (services/memory/app/postgres.py), recency_factor() and  *)
(* rank() (ranking.py).  Rows are records with the fields id, created_at   *)
(* and embedding.  Time is counted in half-lives.                          *)
(***************************************************************************)
EXTENDS HashingBackend

CONSTANTS
  WeightSimilarity,   (* 3 and 1: only their ratio, 0.75 to 0.25, matters  *)
  WeightRecency

ASSUME RankingAssumption == WeightSimilarity \in Nat /\ WeightRecency \in Nat

(* ORDER BY ... LIMIT limit: the first rows, where before has the pairs    *)
(* that the order is strict about.  It leaves open how rows that tie come  *)
(* out, and which of them are left out.                                    *)
Answers(rows, limit, before) ==
  {s \in SeqOf(rows, limit) :
     /\ IsInjective(s)
     /\ \A i, j \in DOMAIN s : i < j => <<s[j], s[i]>> \notin before
     /\ \A r \in rows \ ToSet(s) :
          Len(s) = limit /\ \A i \in DOMAIN s : <<r, s[i]>> \notin before}

(* Faulty variant: the oldest first.                                       *)
ListOldest(rows, limit) ==
  Answers(rows, limit, {p \in rows \X rows : p[1].created_at < p[2].created_at})

(* ORDER BY created_at DESC LIMIT limit                                    *)
ListByUser(rows, limit) ==
  Answers(rows, limit, {p \in rows \X rows : p[1].created_at > p[2].created_at})

(* ORDER BY embedding <=> query LIMIT top_k, over the rows that the plan   *)
(* looks at: all of the user's, or those in the lists that the IVFFlat     *)
(* index probes.                                                           *)
Search(rows, query, top_k) ==
  LET hits == {[id |-> r.id, created_at |-> r.created_at,
                similarity |-> Cosine(r.embedding, query)] : r \in rows}
  IN  Answers(hits, top_k, {p \in hits \X hits : p[1].similarity > p[2].similarity})

(* What is left of 1 after so many half-lives.                             *)
Halved[age \in Nat] == IF age = 0 THEN One ELSE Halved[age - 1] \div 2

(* A clock ahead of ours counts as now.                                    *)
RecencyFactor(created_at, now) ==
  IF now <= created_at THEN One ELSE Halved[now - created_at]

(* Faulty variant: the weights are swapped.                                *)
ScoreSwapped(hit, now) ==
  WeightRecency * hit.similarity
    + WeightSimilarity * RecencyFactor(hit.created_at, now)

Score(hit, now) ==
  WeightSimilarity * hit.similarity
    + WeightRecency * RecencyFactor(hit.created_at, now)

(* sorted(reverse=True): hits with the same score keep their order.        *)
Ahead(hits, now, i, j) ==
  \/ Score(hits[i], now) > Score(hits[j], now)
  \/ Score(hits[i], now) = Score(hits[j], now) /\ i < j

(* The hits as ranked: the set has one element, as Ahead is a total order. *)
Rank(hits, now) ==
  {[i \in DOMAIN hits |-> hits[p[i]]] :
     p \in {p \in [DOMAIN hits -> DOMAIN hits] :
             \A i, j \in DOMAIN hits : i < j => Ahead(hits, now, p[i], p[j])}}
=============================================================================
