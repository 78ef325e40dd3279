--------------------------- MODULE JourneyCulling ---------------------------
(***************************************************************************)
(* culling_journeys of new_default.py: the choice of max_nb_journeys among *)
(* the typed journeys of an answer.                                        *)
(***************************************************************************)
EXTENDS JourneyFilter

TypesToRetain == <<"best", "comfort", "non_pt_walk", "non_pt_bike", "non_pt_bss">>
SectionTypesToRetain == PtTypes \cup {"STREET_NETWORK"}
get_section_id(s) ==
  <<s.line, IF s.mode \in {"Ridesharing", "Car", "Bike", "Bss"} THEN s.mode ELSE "None", s.type>>
SectionIds(j) ==
  LET retained == SelectSeq(j.sections, LAMBDA s : s.type \in SectionTypesToRetain)
  IN  [k \in DOMAIN retained |-> get_section_id(retained[k])]
MustKeep(j) == j.type \in Range(TypesToRetain) \/ "best_olympics" \in j.tags

\* The indexes of the aggregated journeys: those to retain, then one for each other
\* sequence of sections.
aggregate_journeys(js) ==
  LET add(a, i) == IF \E k \in Range(a) : SectionIds(js[k]) = SectionIds(js[i]) THEN a ELSE Append(a, i)
  IN  FoldLeft(add, Those(js, MustKeep), Those(js, LAMBDA j : ~MustKeep(j)))

Grows(c, n, t) == {j \in 1 .. t : c[j] + 1 # (IF j = t THEN n + 1 ELSE c[j + 1])}
NextCombin(c, n, t) ==
  LET j == Min(Grows(c, n, t)) IN [i \in 1 .. t |-> IF i < j THEN i ELSE IF i = j THEN c[i] + 1 ELSE c[i]]
gen_all_combin(n, t) ==
  IF n <= t THEN << [i \in 1 .. n |-> i] >>
  ELSE LET first == [i \in 1 .. t |-> i]
           all[k \in 0 .. Cardinality(kSubset(t, 1 .. n))] ==
             IF k = 0 THEN << >>
             ELSE IF k = 1 THEN <<first>>
             ELSE LET before == all[k - 1] IN IF Grows(Last(before), n, t) = {} THEN before
                                              ELSE Append(before, NextCombin(Last(before), n, t))
       IN  all[Cardinality(kSubset(t, 1 .. n))]

\* What a choice of candidates covers, and how many sections it has: a section counts once
\* in a journey.
Covered(js, chosen) == UNION {Range(SectionIds(js[i])) : i \in chosen}
NbSections(js, chosen) == FoldSet(LAMBDA i, n : n + Cardinality(Range(SectionIds(js[i]))), 0, chosen)

\* One choice before another: more sections are covered, then there are fewer of them.
Better(js, a, b) ==
  LET ca == Cardinality(Covered(js, a)) cb == Cardinality(Covered(js, b))
  IN  ca > cb \/ (ca = cb /\ NbSections(js, a) < NbSections(js, b))

\* get_sorted_solutions_indexes, and the choice of least pseudo duration among the best: the
\* first in the order of the combinations.
BestSolution(js, candidates, nb, req) ==
  LET must == {i \in Range(candidates) : MustKeep(js[i])}
      combin == gen_all_combin(Len(candidates), nb)
      choices == SelectSeq([k \in DOMAIN combin |-> {candidates[i] : i \in Range(combin[k])}],
                           LAMBDA c : must \subseteq c)
      best == SelectSeq(choices, LAMBDA c : ~\E d \in Range(choices) : Better(js, d, c))
      pseudo(c) == FoldSet(LAMBDA i, n : n + get_pseudo_duration(js[i], req.datetime, req.clockwise), 0, c)
      first == SelectInSeq(best, LAMBDA c : \A d \in Range(best) : pseudo(c) <= pseudo(d))
  IN  best[first]

journey_score(j) == IF "best_olympics" \in j.tags THEN -100 ELSE SelectInSeq(TypesToRetain, LAMBDA t : t = j.type)
FirstByScore(js, must, nb) ==
  LET before(i, k) == journey_score(js[i]) < journey_score(js[k]) \/ (journey_score(js[i]) = journey_score(js[k]) /\ i < k)
      sorted == SortSeq(must, before)
  IN  {sorted[i] : i \in 1 .. nb}
KillOthers(js, kept) == [i \in DOMAIN js |-> IF i \in kept THEN js[i] ELSE mark_as_dead(js[i])]

culling_journeys(js, req) ==
  LET nb == req.max_nb_journeys
      aggregated == aggregate_journeys(js)
      others == SelectSeq(Indexes(js), LAMBDA i : i \notin Range(aggregated))
      must == SelectSeq(aggregated, LAMBDA i : MustKeep(js[i]))
      survivors == SelectSeq(Those(js, LAMBDA j : ~j.dead), LAMBDA i : i \in Range(must))
      kept == IF nb >= Len(aggregated)
              THEN Range(aggregated) \cup {others[i] : i \in 1 .. nb - Len(aggregated)}
              ELSE IF nb = Len(must) THEN Range(must)
              ELSE IF nb < Len(must) THEN FirstByScore(js, survivors, Min({nb, Len(survivors)}))
              ELSE BestSolution(js, aggregated, nb, req)
  IN  IF nb >= Len(js) THEN js ELSE delete_journeys(KillOthers(js, kept), req)
=============================================================================
