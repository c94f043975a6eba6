------------------------------ MODULE Retrieval ------------------------------
(***************************************************************************)
(* The retrieval pipeline: recall by several retrievers and their fusion,   *)
(* preparation (where the caller checks access), reranking by a model that  *)
(* may fail or answer nonsense, diversification and the cut.                *)
(*                                                                          *)
(* A candidate is [id, rank, score].  Scores are integers: those of the     *)
(* reciprocal rank fusion in Units, those of the reranker in percent.       *)
(***************************************************************************)
EXTENDS Integers, Sequences, FiniteSets, SequencesExt

CONSTANTS
  Ids,        \* candidate ids
  Recalls,    \* answers of a retriever: sequences of distinct ids, best first
  Retrievers, \* how many retrievers are fused
  Responses,  \* answers of the reranking model: sequences of [index, score]
  Twins,      \* pairs of ids whose vectors are the same; all others are orthogonal
  K,          \* the constant of the reciprocal rank fusion
  Unit,       \* what 1 / (k + rank) is counted in
  Keep,       \* top_k of the fusion
  TopK        \* top_k of the pipeline

\* What the cuts and the unit must be; the run's module assumes it.
Parameters ==
  /\ Retrievers \in Nat \ {0} /\ Keep \in Nat \ {0} /\ TopK \in Nat \ {0}
  /\ K \in Nat /\ Unit \in Nat /\ \A r \in 1..Cardinality(Ids) : Unit % (K + r) = 0

VARIABLES
  stage,      \* "recall", "prepare", "rerank", "diversify", "done", "failed"
  lists,      \* what the retrievers answered
  candidates, \* the candidates at this stage, in order
  allowed,    \* the ids that preparation let through
  mode        \* the diversity mode asked for

vars == <<stage, lists, candidates, allowed, mode>>

IdsOf(cs) == [i \in DOMAIN cs |-> cs[i].id]
Ranked(cs) == [i \in DOMAIN cs |-> [cs[i] EXCEPT !.rank = i]]
UpTo(s, n) == SubSeq(s, 1, IF Len(s) < n THEN Len(s) ELSE n)
Place(s, x) == CHOOSE i \in DOMAIN s : s[i] = x
FirstOnes(s) == FoldLeft(LAMBDA got, x : IF Contains(got, x) THEN got ELSE Append(got, x), << >>, s)
TotalOf(s) == FoldLeft(LAMBDA a, x : a + x, 0, s)
Unscored(ids) == [i \in DOMAIN ids |-> [id |-> ids[i], rank |-> i, score |-> 0]]

-----------------------------------------------------------------------------
(* Fusion                                                                   *)

\* Fusion.fuse: one list after the other.
Flat(ls) == FirstOnes(FlattenSeq(ls))

\* RoundRobinFusion.fuse: the first of each list, then the second of each...
RoundRobin(ls) ==
  FirstOnes(FlattenSeq([p \in 1..Cardinality(Ids) |->
    FlattenSeq([l \in DOMAIN ls |-> IF p <= Len(ls[l]) THEN <<ls[l][p]>> ELSE << >>])]))

\* RrfFusion.fuse: the sum of 1 / (k + rank); ties in the order of first appearance.
Score(ls, id) ==
  TotalOf([l \in DOMAIN ls |-> IF Contains(ls[l], id) THEN Unit \div (K + Place(ls[l], id)) ELSE 0])

Rrf(ls) ==
  LET first == Flat(ls)
  IN SortSeq(first, LAMBDA a, b : \/ Score(ls, a) > Score(ls, b)
                                  \/ Score(ls, a) = Score(ls, b) /\ Place(first, a) < Place(first, b))

Fused(kind, ls) ==
  CASE kind = "base" -> Unscored(Flat(ls))
    [] kind = "round_robin" -> Unscored(RoundRobin(ls))
    [] kind = "rrf" -> [i \in DOMAIN Rrf(ls) |-> [id |-> Rrf(ls)[i], rank |-> i, score |-> Score(ls, Rrf(ls)[i])]]

-----------------------------------------------------------------------------
(* The stages                                                               *)

\* FusionRetriever.retrieve, from RetrievalPipeline.run: every retriever has answered.
Recall ==
  /\ stage = "recall"
  /\ \E ls \in [1..Retrievers -> Recalls], kind \in {"base", "rrf", "round_robin"} :
       /\ lists' = ls
       /\ candidates' = UpTo(Fused(kind, ls), Keep)
       /\ stage' = IF candidates' = << >> THEN "done" ELSE "prepare"
  /\ UNCHANGED <<allowed, mode>>

\* A retriever or the preparation raises, or the vectors of the candidates cannot be
\* read, and so does the pipeline.
Fail ==
  /\ stage \in {"recall", "prepare"} \/ (stage = "diversify" /\ mode # "off")
  /\ stage' = "failed" /\ candidates' = << >>
  /\ UNCHANGED <<lists, allowed, mode>>

\* prepare_candidates: the caller drops what it may not show.
Prepare ==
  /\ stage = "prepare"
  /\ \E ids \in SUBSET Range(IdsOf(candidates)) :
       /\ allowed' = ids
       /\ candidates' = SelectSeq(candidates, LAMBDA c : c.id \in ids)
       /\ stage' = IF candidates' = << >> THEN "done" ELSE "rerank"
  /\ UNCHANGED <<lists, mode>>

\* _apply_response: is the answer of the model one?
Valid(response) ==
  /\ \A i \in DOMAIN response : response[i].index \in DOMAIN candidates /\ response[i].score \in 0..100
  /\ \A i, j \in DOMAIN response : i # j => response[i].index # response[j].index

\* Mutant: candidates that the model does not name are dropped.
only_named(response) ==
  [i \in DOMAIN response |-> [candidates[response[i].index] EXCEPT !.rank = i, !.score = response[i].score]]

\* Those named come first, in its order and with its scores; the others follow as they were.
Reordered(response) ==
  LET named == {response[i].index : i \in DOMAIN response}
  IN Ranked([i \in DOMAIN response |-> [candidates[response[i].index] EXCEPT !.score = response[i].score]]
              \o [i \in DOMAIN SelectSeq([n \in DOMAIN candidates |-> n], LAMBDA n : n \notin named) |->
                    candidates[SelectSeq([n \in DOMAIN candidates |-> n], LAMBDA n : n \notin named)[i]]])

\* ModelReranker.rerank: an error or a bad answer leaves the order as it was.
Rerank ==
  /\ stage = "rerank"
  /\ \/ \E response \in Responses : candidates' = IF Valid(response) THEN Reordered(response) ELSE candidates
     \/ UNCHANGED candidates
  /\ stage' = "diversify"
  /\ UNCHANGED <<lists, allowed, mode>>

\* Relevance and weight in MMR: four times lambda, and scores scaled to their range.
Least == CHOOSE x \in {candidates[i].score : i \in DOMAIN candidates} : \A i \in DOMAIN candidates : x <= candidates[i].score
Most == CHOOSE x \in {candidates[i].score : i \in DOMAIN candidates} : \A i \in DOMAIN candidates : x >= candidates[i].score
Relevance(i) == IF Most = Least THEN 1 ELSE candidates[i].score - Least
Scale == IF Most = Least THEN 1 ELSE Most - Least
Alike(a, b) == a = b \/ <<a, b>> \in Twins \/ <<b, a>> \in Twins
Penalty(i, chosen) == IF \E j \in Range(chosen) : Alike(candidates[i].id, candidates[j].id) THEN 1 ELSE 0

\* lambda * relevance - (1 - lambda) * the greatest similarity, times four times the scale.
Value(i, chosen) ==
  LET weight == IF mode = "moderate" THEN 3 ELSE 2
  IN weight * Relevance(i) - (4 - weight) * Penalty(i, chosen) * Scale

\* One more place: the best of the rest, the first of several.  (There is one: ids are
\* distinct and scores are numbers, so "best is None" does not end the choice early.)
Choose(chosen) ==
  LET rest == {i \in DOMAIN candidates : i \notin Range(chosen)}
      best == {i \in rest : \A j \in rest : Value(i, chosen) >= Value(j, chosen)}
  IN Append(chosen, CHOOSE i \in best : \A j \in best : i <= j)

\* MmrDiversity.diversify, then the cut.
Diversify ==
  /\ stage = "diversify"
  /\ LET order == IF mode = "off" THEN [i \in DOMAIN candidates |-> i]
                  ELSE FoldLeft(LAMBDA chosen, i : Choose(chosen), << >>, [i \in DOMAIN candidates |-> i])
     IN candidates' = Ranked(UpTo([p \in DOMAIN order |-> candidates[order[p]]], TopK))
  /\ stage' = "done"
  /\ UNCHANGED <<lists, allowed, mode>>

Init ==
  /\ stage = "recall" /\ lists = << >> /\ candidates = << >> /\ allowed = {}
  /\ mode \in {"off", "moderate", "high"}

Next == Recall \/ Fail \/ Prepare \/ Rerank \/ Diversify
Spec == Init /\ [][Next]_vars

-----------------------------------------------------------------------------
(* Properties                                                               *)

\* However reranking goes, the answer holds the candidates that preparation let through
\* and no other: all of them up to top_k, each once, ranked from one on.
AllowedIsAnswered ==
  /\ stage \in {"rerank", "diversify"} => Range(IdsOf(candidates)) = allowed
  /\ stage = "done" =>
       /\ Range(IdsOf(candidates)) \subseteq allowed
       /\ Len(candidates) = IF Cardinality(allowed) < TopK THEN Cardinality(allowed) ELSE TopK
       /\ IsInjective(IdsOf(candidates))
       /\ \A i \in DOMAIN candidates : candidates[i].rank = i

\* Whichever way lists are fused, a candidate that is before another in every list that
\* has the other is before it in the result, and is not cut when the other is kept.
FusionFair ==
  LET ids == IdsOf(candidates)
      Before(a, b) == \A l \in DOMAIN lists :
        Contains(lists[l], b) => Contains(lists[l], a) /\ Place(lists[l], a) < Place(lists[l], b)
  IN stage = "prepare" =>
       \A b \in Range(ids) : \A a \in Ids \ {b} :
         Before(a, b) => Contains(ids, a) /\ Place(ids, a) < Place(ids, b)

\* Diversification puts a candidate before a more relevant one only when the other is
\* more like what was chosen before; without twins the candidates come by their scores.
DiverseIsEarned ==
  [][Diversify /\ mode # "off" =>
       LET score(id) == candidates[Place(IdsOf(candidates), id)].score
           ids == IdsOf(candidates')
           Like(n, id) == \E k \in 1..n : Alike(ids[k], id)
       IN \A i \in DOMAIN ids : \A id \in Range(IdsOf(candidates)) \ Range(SubSeq(ids, 1, i)) :
            score(id) > score(ids[i]) => Like(i - 1, id) /\ ~Like(i - 1, ids[i])]_vars
=============================================================================
