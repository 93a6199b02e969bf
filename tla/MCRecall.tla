------------------------------ MODULE MCRecall ------------------------------
(* Small instances of Recall for TLC. *)
EXTENDS Recall, TLC

CONSTANTS w1, w2, a1, a2, s1, s2, i1, i2, i3, k1, k2

WriterSymmetry == Permutations(Writer)
Subjects == [k \in Key |-> IF k = k1
               THEN [service |-> s1, similarity |-> 80, confidence |-> 90]
               ELSE [service |-> Null, similarity |-> 70, confidence |-> 65]]

\* RecallPolicy with its thresholds as they are and its list lengths cut down.
SmallPolicy ==
  [candidate_multiplier |-> 1, candidate_floor |-> 2, max_candidate_limit |-> 3,
   max_episodes |-> 2, max_facts |-> 2, max_runbooks |-> 1,
   min_episode_similarity |-> 65, min_fact_similarity |-> 60,
   min_runbook_similarity |-> 72, min_fact_confidence |-> 65,
   min_runbook_success_rate |-> 60, min_runbook_usage_count |-> 1,
   min_positive_provenance |-> 1, max_counterexample_ratio |-> 50,
   max_episode_age |-> 4]

E(id, service, incident, occurred, similarity, outcome) ==
  [id |-> id, agent |-> a1, service |-> service, incident |-> incident,
   occurred_at |-> occurred, recorded_at |-> occurred, similarity |-> similarity,
   outcome |-> outcome]

R(id, name, similarity, rate, positive, counterexamples, tags) ==
  [id |-> id, agent |-> a1, name |-> name, status |-> "active",
   similarity |-> similarity, recorded_at |-> 0, success_rate |-> rate,
   usage |-> 1, positive |-> positive, counterexamples |-> counterexamples,
   tags |-> tags, signatures |-> {}, last_used |-> Null]

\* Two episodes of one case; a tie; another service's episodes nearer than the
\* service's own; the incident's own episode; an episode of the future; two
\* versions of a runbook, one with as many counterexamples as successes.
SmallTables ==
  {[episodes |-> {E(1, s1, i1, 0, 99, "success"), E(2, s1, i2, 0, 90, "success"),
                  E(3, s1, i2, 0, 85, Null), E(4, Null, i3, 1, 70, Null),
                  E(5, s1, Null, 2, 65, Null)},
    runbooks |-> {R(1, "r", 90, 80, 1, 1, {}), R(2, "r", 85, 100, 3, 0, {"critical"}),
                  R(3, "q", 71, 80, 1, 0, {})}],
   [episodes |-> {E(1, s2, i2, 0, 90, Null), E(2, s2, i3, 0, 85, Null),
                  E(3, s2, Null, 0, 85, Null), E(4, s1, Null, 0, 75, "success")},
    runbooks |-> {R(1, "r", 90, 80, 1, 2, {}), R(2, "q", 80, 60, 1, 0, {}),
                  R(3, "p", 80, 80, 1, 0, {"batch"})}]}

\* The instant of the query is the past, the present or the future; the first
\* is asked outside any incident.
SmallQueries ==
  {[agent |-> a1, service |-> s1, incident |-> p[1], as_of |-> p[2], k |-> p[3],
    cold_start |-> p[4], tags |-> {"critical"}, signature |-> Null] :
     p \in {<<Null, 0, 1, TRUE>>, <<i1, 1, 1, FALSE>>, <<i1, 2, 3, FALSE>>}}
=============================================================================
