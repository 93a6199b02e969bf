----------------------------- MODULE Evaluation -----------------------------
(***************************************************************************)
(* The evaluation harnesses that replay a stream of incidents through the  *)
(* Conductor, arm by arm, each arm in a fresh world.                       *)
(*   "agent"     real_agent.run: the model with and without memory; it may *)
(*               answer anything, unresolved incidents stay open           *)
(*   "mechanism" EvaluationHarness.run: the scripted memory and baseline   *)
(*               responders; an unresolved incident raises                 *)
(*   "temporal"  _run_temporal_validity: the bitemporal responder          *)
(* The model is external: any plan of at most MaxPlan actions of a pool,   *)
(* any latency.                                                            *)
(***************************************************************************)
EXTENDS Conductor

CONSTANTS
  Setups,       \* the runs made: harness, stream, texts of the corpus
  Similarity,   \* of memory and incident in percent, for every choice of texts
  Pool,         \* actions the model may propose for an incident
  MaxPlan,      \* bound on the length of the model's plan
  Latencies,    \* decision_seconds of the model (bounds the inputs)
  Corpus,       \* memories: family, gold, actions, validity window
  RetrievalK,   \* retrieval_k
  Threshold     \* match_threshold, in percent

\* A stream is the schedule of a Conductor: scenarios, each once.
ASSUME EvaluationAssumption ==
  /\ Latencies \subseteq Nat
  /\ MaxPlan \in Nat
  /\ \A s \in Setups :
       /\ s.harness \in {"agent", "mechanism", "temporal"}
       /\ s.stream \in Seq(Scenario)
       /\ \A m, n \in DOMAIN s.stream : s.stream[m] = s.stream[n] => m = n

VARIABLES
  setup,     \* the run: harness, stream, texts
  world,     \* the Conductor of the arm that runs
  arm,       \* the arm that runs
  pc,        \* where its loop is
  trial,     \* the incident at hand: decision, actions left, outcomes
  results    \* per arm, the results recorded

vars == <<setup, world, arm, pc, trial, results>>

Arms ==
  CASE setup.harness = "agent" -> <<"with_memory", "no_memory">>
    [] setup.harness = "mechanism" -> <<"with_memory", "competent_baseline">>
    [] setup.harness = "temporal" -> <<"with_memory">>

Incident == setup.stream[Len(results[arm]) + 1]

NoTrial == [left |-> <<>>, outcomes |-> <<>>, invalid |-> 0, seconds |-> 0,
            abstained |-> FALSE, authorized |-> Null]

Init ==
  /\ setup \in Setups
  /\ world = LoadWorld
  /\ arm = 1
  /\ pc = "inject"
  /\ trial = NoTrial
  /\ results = <<<<>>, <<>>>>

----------------------------------------------------------------------------
(* Responders.  A decision is a plan, its latency and what authorized it.  *)

PageHuman(i) == [type |-> "no_op_page_human", target |-> Fault[i].service, params |-> <<>>]

Decision(plan, seconds, abstained, authorized) ==
  [NoTrial EXCEPT !.left = plan, !.seconds = seconds, !.abstained = abstained,
                  !.authorized = authorized]

\* _render_action fills in the templates from the observation.
RenderAction(i, a) ==
  [a EXCEPT !.target = IF @ = "$incident.service" THEN Fault[i].service ELSE @,
            !.params = [p \in DOMAIN @ |-> Expected(world, i, p, @[p])]]

\* _similarity of a memory's text and the incident's.
Near(m, i) == Similarity[setup.texts][m, i]

\* The members of a set, in some order.
Listed(S) == FoldSet(LAMBDA x, list : Append(list, x), <<>>, S)

\* The nearest memories of a set, ties by memory_id.
Retrieve(i, memories) ==
  LET nearer(m, n) ==
        \/ Near(m, i) > Near(n, i)
        \/ Near(m, i) = Near(n, i) /\ Corpus[m].rank < Corpus[n].rank
      ranked == SortSeq(Listed(memories), nearer)
  IN SubSeq(ranked, 1, IF Len(ranked) < RetrievalK THEN Len(ranked) ELSE RetrievalK)

\* The first near enough memory with a runbook is followed; else a human is paged.
Follow(i, top) ==
  LET fit == SelectSeq(top, LAMBDA m : /\ Near(m, i) >= Threshold
                                       /\ Corpus[m].actions # <<>>)
  IN IF fit = <<>> THEN Decision(<<PageHuman(i)>>, 0, TRUE, Null)
     ELSE Decision([n \in DOMAIN Corpus[fit[1]].actions |->
                      RenderAction(i, Corpus[fit[1]].actions[n])], 0, FALSE, fit[1])

\* ProceduralMemoryResponder.decide
ProceduralDecision(i) == Follow(i, Retrieve(i, DOMAIN Corpus))

\* Mutant: the end of the window is not looked at.
IsValidFrom(m, as_of) == Corpus[m].valid_from # Null => Corpus[m].valid_from <= as_of

\* _is_valid_at
IsValidAt(m, as_of) ==
  /\ Corpus[m].valid_from # Null => Corpus[m].valid_from <= as_of
  /\ Corpus[m].valid_to # Null => as_of < Corpus[m].valid_to

\* TemporalProceduralMemoryResponder.decide, as of observed_at.
TemporalDecision(i) ==
  Follow(i, Retrieve(i, {m \in DOMAIN Corpus : IsValidAt(m, world.now)}))

LOCAL Act(i, type, params) == [type |-> type, target |-> Fault[i].service, params |-> params]

\* _first_line_remediation reads the signal, which names the family except
\* that F11 looks like F2, F12 like F3 and a near miss like nothing.
FirstLineRemediation(i) ==
  LET family == Fault[i].family IN
  CASE family = "F1_BAD_DEPLOY" ->
         <<Act(i, "rollback_deploy",
               [target_version |-> world.services[Fault[i].service].stable])>>
    [] \/ family = "F2_POOL_EXHAUSTION" /\ ~Fault[i].near_miss
       \/ family = "F11_POOL_DRIVER_MIGRATION" ->
         <<Act(i, "set_config", [key |-> "db_pool_size", value |-> 80]),
           Act(i, "restart_service", <<>>)>>
    [] family \in {"F3_CACHE_OUTAGE", "F12_CACHE_TOPOLOGY_MIGRATION"} ->
         <<Act(i, "failover_dependency", [dependency_key |-> "checkout-cache",
                                          to_service |-> "redis-cluster-v2-replica"])>>
    [] family = "F4_TRAFFIC_SATURATION" ->
         <<Act(i, "scale_service", [capacity_units |-> 8]),
           Act(i, "throttle_traffic", [traffic_percent |-> 75])>>
    [] family = "F5_RETRY_STORM" ->
         <<Act(i, "throttle_traffic", [traffic_percent |-> 60])>>
    [] family = "F6_MEMORY_LEAK" -> <<Act(i, "restart_service", <<>>)>>
    [] family = "F7_CONFIG_REGRESSION" ->
         <<Act(i, "set_config", [key |-> "express_checkout_enabled", value |-> 0])>>
    [] family = "F8_DATASTORE_FAILOVER" ->
         <<Act(i, "failover_dependency", [dependency_key |-> "checkout-orders",
                                          to_service |-> "orders-db-replica"])>>
    [] family = "F9_PAYMENT_PROVIDER_OUTAGE" ->
         <<Act(i, "failover_dependency", [dependency_key |-> "payment-provider",
                                          to_service |-> "payment-provider-secondary"]),
           Act(i, "throttle_traffic", [traffic_percent |-> 50])>>
    [] OTHER -> <<PageHuman(i)>>

\* MemorylessBaselineResponder.decide
BaselineDecision(i) ==
  LET plan == FirstLineRemediation(i)
  IN Decision(plan, 0, Last(plan).type = "no_op_page_human", Null)

Paging(a) == a.type \in {"no_op_page_human", "escalate"}

----------------------------------------------------------------------------
(* The loop of _run_arm.                                                   *)

Remaining == Len(results[arm]) < Len(setup.stream)

Inject ==
  /\ pc = "inject" /\ Remaining /\ Injectable(world, Incident)
  /\ world' = InjectNext(world, Incident)
  /\ pc' = "decide"
  /\ UNCHANGED <<setup, arm, trial, results>>

\* SimulationError from inject_next ends the run.
InjectRaises ==
  /\ pc = "inject" /\ Remaining /\ ~Injectable(world, Incident)
  /\ pc' = "raised"
  /\ UNCHANGED <<setup, world, arm, trial, results>>

\* The incident is decided on as observed; the latency passes before it is
\* acted on.
Decided(d) ==
  /\ trial' = d
  /\ world' = AdvanceTime(world, d.seconds)
  /\ pc' = "act"
  /\ UNCHANGED <<setup, arm, results>>

\* BedrockIncidentResponder.decide: any plan.  What it retrieves and cites is in
\* the prompt and in the details of the report, not in its numbers.
AgentDecides ==
  /\ pc = "decide" /\ setup.harness = "agent"
  /\ \E n \in 1..MaxPlan : \E p \in [1..n -> DOMAIN Pool[Incident]], t \in Latencies :
       LET plan == [m \in 1..n |-> Pool[Incident][p[m]]]
       IN Decided(Decision(plan, t, Paging(plan[1]), Null))

\* _parse_plan finds no plan in the answer: a human is paged.
AgentUnparseable ==
  /\ pc = "decide" /\ setup.harness = "agent"
  /\ \E t \in Latencies : Decided(Decision(<<PageHuman(Incident)>>, t, TRUE, Null))

\* converse raises after its last attempt, or a step of the plan has parameters
\* that are no dictionary: nothing catches it.
AgentRaises ==
  /\ pc = "decide" /\ setup.harness = "agent"
  /\ pc' = "raised"
  /\ UNCHANGED <<setup, world, arm, trial, results>>

ScriptedDecides ==
  /\ pc = "decide" /\ setup.harness # "agent"
  /\ Decided(CASE setup.harness = "temporal" -> TemporalDecision(Incident)
              [] setup.harness = "mechanism" ->
                   IF arm = 1 THEN ProceduralDecision(Incident)
                              ELSE BaselineDecision(Incident))

\* The next action of the plan; a resolved incident ends the loop.
Apply ==
  /\ pc = "act" /\ trial.left # <<>> /\ Acceptable(world, Incident, Head(trial.left))
  /\ world' = ApplyAction(world, Incident, Head(trial.left))
  /\ trial' = [trial EXCEPT
                 !.left = IF world'.incidents[Incident].status = "resolved"
                            THEN <<>> ELSE Tail(@),
                 !.outcomes = Append(@, Last(world'.actions).outcome)]
  /\ UNCHANGED <<setup, arm, pc, results>>

\* TypeError from apply_action, which neither harness catches.
ApplyRaises ==
  /\ pc = "act" /\ trial.left # <<>> /\ RaisesTypeError(world, Incident, Head(trial.left))
  /\ pc' = "raised"
  /\ UNCHANGED <<setup, world, arm, trial, results>>

\* SimulationError from apply_action: real_agent counts it and goes on, the
\* scripted harness does not catch it.
Reject ==
  /\ pc = "act" /\ trial.left # <<>>
  /\ ~Acceptable(world, Incident, Head(trial.left))
  /\ ~RaisesTypeError(world, Incident, Head(trial.left))
  /\ IF setup.harness = "agent"
       THEN /\ trial' = [trial EXCEPT !.left = Tail(@), !.invalid = @ + 1]
            /\ UNCHANGED pc
       ELSE pc' = "raised" /\ UNCHANGED trial
  /\ UNCHANGED <<setup, world, arm, results>>

\* _oracle_required_signature and expected_id: the gold memory of the family
\* that carries the oracle's required actions.
ExpectedMemory(i) ==
  LET fits == {m \in DOMAIN Corpus : /\ Corpus[m].gold
                                     /\ Corpus[m].family = Fault[i].family
                                     /\ Corpus[m].actions = Required(i)}
  IN IF fits = {} THEN Null
     ELSE CHOOSE m \in fits : \A n \in fits : Corpus[m].rank <= Corpus[n].rank

\* Mutant: the orders of the whole world are counted.
ResultOfWorld ==
  [resolved |-> world.incidents[Incident].mttr # Null,
   mttr |-> world.incidents[Incident].mttr, seconds |-> trial.seconds,
   wrong |-> Cardinality({n \in DOMAIN trial.outcomes : trial.outcomes[n] = "no_effect"}),
   first_correct |-> trial.outcomes # <<>> /\ Head(trial.outcomes) = "success",
   abstained |-> trial.abstained,
   orders |-> FoldSet(LAMBDA i, n : world.orders[i] + n, 0, Scenario),
   authorized |-> trial.authorized]

\* What _run_arm records of an incident.
Result ==
  [resolved |-> world.incidents[Incident].mttr # Null,
   mttr |-> world.incidents[Incident].mttr, seconds |-> trial.seconds,
   wrong |-> Cardinality({n \in DOMAIN trial.outcomes : trial.outcomes[n] = "no_effect"}),
   first_correct |-> trial.outcomes # <<>> /\ Head(trial.outcomes) = "success",
   abstained |-> trial.abstained, orders |-> world.orders[Incident],
   authorized |-> trial.authorized]

\* EvaluationHarness._run_arm raises AssertionError for an unresolved incident.
Record ==
  /\ pc = "act" /\ trial.left = <<>>
  /\ IF setup.harness = "mechanism" /\ ~Result.resolved
       THEN pc' = "raised" /\ UNCHANGED <<trial, results>>
       ELSE /\ results' = [results EXCEPT ![arm] = Append(@, Result)]
            /\ trial' = NoTrial
            /\ pc' = "inject"
  /\ UNCHANGED <<setup, world, arm>>

\* The next arm replays the stream in a fresh world.
NextArm ==
  /\ pc = "inject" /\ ~Remaining /\ arm < Len(Arms)
  /\ arm' = arm + 1
  /\ world' = LoadWorld
  /\ UNCHANGED <<setup, pc, trial, results>>

\* _retrieval_metrics divides by the number of scored incidents and takes the
\* mean over the novel and the near-miss ones: each must be there.
Measurable ==
  LET has(P(_)) == \E n \in DOMAIN setup.stream : P(Fault[setup.stream[n]])
      gold == {Corpus[m].family : m \in {m \in DOMAIN Corpus : Corpus[m].gold}}
  IN /\ has(LAMBDA f : f.family \in gold /\ ~f.near_miss)
     /\ has(LAMBDA f : f.family = "F10_NOVEL")
     /\ has(LAMBDA f : f.near_miss)

\* The report; the world is no longer needed.
Report ==
  /\ pc = "inject" /\ ~Remaining /\ arm = Len(Arms)
  /\ pc' = IF setup.harness = "mechanism" /\ ~Measurable THEN "unmeasurable" ELSE "done"
  /\ world' = LoadWorld
  /\ UNCHANGED <<setup, arm, trial, results>>

Next ==
  \/ Inject \/ InjectRaises
  \/ AgentDecides \/ AgentUnparseable \/ AgentRaises \/ ScriptedDecides
  \/ Apply \/ ApplyRaises \/ Reject \/ Record
  \/ NextArm \/ Report

Spec == Init /\ [][Next]_vars

----------------------------------------------------------------------------
(* The report of real_agent: _paired_delta.                                *)

\* sum() of a list.
Total(list) ==
  LET sum[n \in 0..Len(list)] == IF n = 0 THEN 0 ELSE sum[n - 1] + list[n]
  IN sum[Len(list)]

\* Sums in place of means; the incidents are those of the stream, in order.
PairedDelta(memory, baseline) ==
  LET shared == DOMAIN memory
      both == {n \in shared : memory[n].resolved /\ baseline[n].resolved}
      count(r) == Cardinality({n \in shared : r[n].resolved})
      act(r) == Total([n \in shared |->
                         IF n \in both THEN r[n].mttr * Second - r[n].seconds ELSE 0])
      wrong(r) == Total([n \in shared |-> r[n].wrong])
      orders(r) == Total([n \in shared |-> r[n].orders])
  IN [both |-> both,
      memory_only |-> {n \in shared : memory[n].resolved /\ ~baseline[n].resolved},
      baseline_only |-> {n \in shared : baseline[n].resolved /\ ~memory[n].resolved},
      resolution_delta |-> count(memory) - count(baseline),
      act_delta |-> act(memory) - act(baseline),
      wrong_delta |-> wrong(memory) - wrong(baseline),
      orders_avoided |-> orders(baseline) - orders(memory)]

----------------------------------------------------------------------------
(* Properties.                                                             *)

\* The state of the harness and of the incidents has the types the dataclasses
\* give it.
TypeOK ==
  /\ setup \in Setups
  /\ arm \in DOMAIN Arms
  /\ pc \in {"inject", "decide", "act", "done", "raised", "unmeasurable"}
  /\ world.now \in Nat
  /\ \A i \in Scenario : world.incidents[i] # Null =>
       /\ world.incidents[i].status \in IncidentStatus
       /\ world.incidents[i].step \in 0..Len(Required(i))
       /\ world.incidents[i].mttr \in Nat \cup {Null}
  /\ trial.invalid \in Nat /\ trial.seconds \in Nat
  /\ \A n \in 1..2 : Len(results[n]) <= Len(setup.stream)

\* The simulated environment is bitemporal: whatever faults, fixes and wrong
\* fixes set a key, its revisions follow each other without gap or overlap and
\* the last one is open.
ConfigTimeline ==
  \A m \in DOMAIN world.configs :
    LET later == {n \in DOMAIN world.configs :
                    /\ n > m
                    /\ world.configs[n].service = world.configs[m].service
                    /\ world.configs[n].key = world.configs[m].key}
    IN world.configs[m].valid_to =
         IF later = {} THEN Null
         ELSE world.configs[CHOOSE n \in later : \A o \in later : n <= o].valid_from

\* The deployment list tells the truth: its last entry for a service is the
\* version that runs, and an entry marked rolled back was followed by a
\* rollback of that service.
DeploymentTrail ==
  \A m \in DOMAIN world.deployments :
    LET d == world.deployments[m]
        later == {n \in DOMAIN world.deployments : n > m /\ world.deployments[n].service = d.service}
    IN /\ later = {} => d.version = world.services[d.service].version
       /\ d.rolled_back => \E n \in later : world.deployments[n].action = "rollback"

\* MTTR measures the responder: the latency of its decision, the seconds of
\* the required actions and the penalties of its wrong ones, to the second,
\* whatever was left open or delayed by the incidents before.
MttrAccounts ==
  \A k \in 1..2 : \A n \in DOMAIN results[k] :
    LET r == results[k][n]
        oracle == OracleFor(setup.stream[n])
        spent == r.seconds + Len(oracle.required_actions) * oracle.action_seconds
                   + r.wrong * oracle.wrong_action_penalty_seconds
    IN r.resolved => spent - r.mttr * Second \in 0..(Second - 1)

\* The numbers of the paired report agree with each other: without latency the
\* arms differ by the penalties of their wrong actions (up to the second MTTR
\* is cut by), failed orders follow the wrong actions, and the change of the
\* resolution rate is what the two one-sided lists say.
ReportAgrees ==
  pc = "done" /\ setup.harness = "agent" =>
    LET d == PairedDelta(results[1], results[2])
        penalty(n) == (results[1][n].wrong - results[2][n].wrong)
                        * OracleFor(setup.stream[n]).wrong_action_penalty_seconds
        penalties == Total([n \in DOMAIN results[1] |->
                              IF n \in d.both THEN penalty(n) ELSE 0])
        slack == Cardinality(d.both) * (Second - 1)
    IN /\ d.act_delta - penalties \in (-slack)..slack
       /\ d.orders_avoided = -2 * d.wrong_delta
       /\ d.resolution_delta = Cardinality(d.memory_only) - Cardinality(d.baseline_only)

\* The mechanism check: on every stream of the fixture's incidents, whatever
\* the one before left behind, neither scripted arm fails to resolve and the
\* baseline plays no wrong first action.
MechanismResolves ==
  setup.harness = "mechanism" =>
    /\ pc = "raised" => ~Injectable(world, Incident)
    /\ \A n \in DOMAIN results[2] : results[2][n].first_correct \/ results[2][n].abstained

\* The bitemporal responder never acts on a superseded fix, whatever it finds
\* similar: penalties and unresolved incidents do not delay an incident past
\* the window in which its fix is valid.
NoStaleFix ==
  setup.harness = "temporal" =>
    \A n \in DOMAIN results[1] :
      results[1][n].authorized \in {Null, ExpectedMemory(setup.stream[n])}

\* The incident an arm works on stays visible until it is resolved: its alert
\* is active and its SLO breaching, so observe_incident finds it.
WorkedIncidentVisible ==
  pc \in {"decide", "act"} =>
    LET incident == world.incidents[Incident]
    IN (incident.status # "resolved") =
         /\ incident.cleared_at = Null
         /\ <<Fault[Incident].service, incident.slo>> \in world.breaching

\* The simulated world stays coherent over every incident, resolved or left
\* open: its configuration, its deployments and what can be observed of the
\* incident at hand.
WorldIsSound == TypeOK /\ ConfigTimeline /\ DeploymentTrail /\ WorkedIncidentVisible

=============================================================================
