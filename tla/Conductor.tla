------------------------------ MODULE Conductor ------------------------------
(***************************************************************************)
(* The simulator's Conductor: a world of services, dependencies, SLOs and  *)
(* configuration into which scheduled faults are injected, and the oracle  *)
(* that decides whether a remediation action is the required next step.    *)
(* Operators take the world and give the world after the call; a call that *)
(* raises SimulationError is excluded by Injectable or Acceptable, one that *)
(* raises TypeError is RaisesTypeError.  Time is in half seconds from       *)
(* start_time.                                                             *)
(***************************************************************************)
EXTENDS Integers, Sequences, FiniteSets, SequencesExt

CONSTANTS
  Scenario,         \* scenario ids of the fixture
  Fault,            \* the scenario of an id: family, service, schedule, fault
  FamilyOracle,     \* oracle["families"]: required actions and their seconds
  ScenarioOracle,   \* oracle["scenarios"]: overrides of single scenarios
  Catalog,          \* services of the fixture: versions and capacity
  Fleet,            \* their names, in the order of the fixture
  Wiring,           \* dependencies of the fixture: dependency_key -> to_service
  Settings,         \* configs of the fixture, in order: (service, key, value) triples
  Unhashable,       \* parameter values that cannot be a dictionary's key: lists, objects
  Null

Second == 2

IncidentStatus == {"open", "mitigating", "resolved"}

Family == {"F1_BAD_DEPLOY", "F2_POOL_EXHAUSTION", "F3_CACHE_OUTAGE",
           "F4_TRAFFIC_SATURATION", "F5_RETRY_STORM", "F6_MEMORY_LEAK",
           "F7_CONFIG_REGRESSION", "F8_DATASTORE_FAILOVER", "F9_PAYMENT_PROVIDER_OUTAGE",
           "F10_NOVEL", "F11_POOL_DRIVER_MIGRATION", "F12_CACHE_TOPOLOGY_MIGRATION"}

OracleFor(i) ==
  IF i \in DOMAIN ScenarioOracle THEN ScenarioOracle[i] ELSE FamilyOracle[Fault[i].family]

Required(i) == OracleFor(i).required_actions

\* A fixture and an oracle the Conductor can be made of: every scenario is of a
\* known family, on a service of the catalog, and has something to be done; no
\* key is configured twice.
ASSUME ConductorAssumption ==
  /\ Null \notin Nat
  /\ \A i \in Scenario :
       /\ Fault[i].family \in Family
       /\ Fault[i].service \in DOMAIN Catalog
       /\ Fault[i].inject_at \in Nat /\ Fault[i].failed_orders \in Nat
       /\ OracleFor(i).action_seconds \in Nat
       /\ OracleFor(i).wrong_action_penalty_seconds \in Nat
       /\ Len(Required(i)) \in Nat \ {0}
  /\ Len(Fleet) \in Nat /\ {Fleet[n] : n \in 1..Len(Fleet)} = DOMAIN Catalog
  /\ Len(Settings) \in Nat
  /\ \A m, n \in 1..Len(Settings) :
       Settings[m][1] = Settings[n][1] /\ Settings[m][2] = Settings[n][2] => m = n

\* The keys of the world's dictionaries are names.
ASSUME NamesAreHashable == Unhashable \cap (DOMAIN Wiring \cup DOMAIN Catalog) = {}

----------------------------------------------------------------------------
(* The world.                                                              *)

\* _load_world: every service is healthy and has one deployment.
LoadWorld ==
  [now |-> 0,
   services |-> [s \in DOMAIN Catalog |->
                   [health |-> "healthy", version |-> Catalog[s].version,
                    stable |-> Catalog[s].stable, capacity |-> Catalog[s].capacity,
                    restarts |-> 0]],
   dependencies |-> [d \in DOMAIN Wiring |-> [to |-> Wiring[d], status |-> "active"]],
   breaching |-> {},
   configs |-> [n \in 1..Len(Settings) |->
                  [service |-> Settings[n][1], key |-> Settings[n][2],
                   value |-> Settings[n][3], valid_from |-> 0, valid_to |-> Null]],
   deployments |-> [n \in 1..Len(Fleet) |->
                      [service |-> Fleet[n], version |-> Catalog[Fleet[n]].version,
                       action |-> "deploy", rolled_back |-> FALSE]],
   incidents |-> [i \in Scenario |-> Null],
   orders |-> [i \in Scenario |-> 0],
   actions |-> <<>>]

\* current_config: the place of the open revision of a key, 0 if none.
CurrentConfig(w, s, k) ==
  LET open == {n \in DOMAIN w.configs : /\ w.configs[n].service = s
                                        /\ w.configs[n].key = k
                                        /\ w.configs[n].valid_to = Null}
  IN IF open = {} THEN 0 ELSE CHOOSE n \in open : \A o \in open : o <= n

Revision(w, s, k, v) ==
  [service |-> s, key |-> k, value |-> v, valid_from |-> w.now, valid_to |-> Null]

\* Mutant: a revision is only appended, and the old one stays open.
SetConfigAppends(w, s, k, v) ==
  [w EXCEPT !.configs = Append(@, Revision(w, s, k, v))]

\* _set_config closes the open revision at the instant the new one begins.
SetConfig(w, s, k, v) ==
  LET old == CurrentConfig(w, s, k)
      closed == [n \in DOMAIN w.configs |->
                   IF n = old THEN [w.configs[n] EXCEPT !.valid_to = w.now]
                              ELSE w.configs[n]]
  IN [w EXCEPT !.configs = Append(closed, Revision(w, s, k, v))]

AdvanceTime(w, t) == [w EXCEPT !.now = @ + t]

----------------------------------------------------------------------------
(* Faults.                                                                 *)

\* _open_incident with the SLO kind its alert names.
OpenIncident(w, i, kind) ==
  [w EXCEPT !.incidents[i] = [status |-> "open", step |-> 0, opened_at |-> w.now,
                              mttr |-> Null, slo |-> kind, cleared_at |-> Null],
            !.breaching = @ \cup {<<Fault[i].service, kind>>},
            !.orders[i] = @ + Fault[i].failed_orders]

Unhealthy(w, s, health) == [w EXCEPT !.services[s].health = health]

Degraded(w, i) == Unhealthy(w, Fault[i].service, "degraded")

\* Mutant: the version that ran is not kept as the stable one.
InjectBadDeployOnly(w, i) ==
  LET s == Fault[i].service
      bad == [Degraded(w, i) EXCEPT
                !.services[s].version = Fault[i].version,
                !.deployments = Append(@, [service |-> s, version |-> Fault[i].version,
                                           action |-> "deploy", rolled_back |-> FALSE])]
  IN OpenIncident(bad, i, "error_rate")

\* The version that runs becomes the stable one, even if it is itself bad.
InjectBadDeploy(w, i) ==
  LET s == Fault[i].service
      bad == [Degraded(w, i) EXCEPT
                !.services[s].stable = w.services[s].version,
                !.services[s].version = Fault[i].version,
                !.deployments = Append(@, [service |-> s, version |-> Fault[i].version,
                                           action |-> "deploy", rolled_back |-> FALSE])]
  IN OpenIncident(bad, i, "error_rate")

\* A near miss needs no pool; _inject_pool_exhaustion raises without one.
InjectPoolExhaustion(w, i) == OpenIncident(Degraded(w, i), i, "latency")

\* The dependency is pointed back at the failed service, which goes down.
BreakDependency(w, i) ==
  [Unhealthy(Unhealthy(w, Fault[i].failed, "down"), Fault[i].service, "degraded")
     EXCEPT !.dependencies[Fault[i].dependency] = [to |-> Fault[i].failed,
                                                   status |-> "degraded"]]

InjectCacheOutage(w, i) == OpenIncident(BreakDependency(w, i), i, "availability")

InjectDatastoreFailover(w, i) == OpenIncident(BreakDependency(w, i), i, "availability")

InjectPaymentProviderOutage(w, i) == OpenIncident(BreakDependency(w, i), i, "availability")

InjectTrafficSaturation(w, i) == OpenIncident(Degraded(w, i), i, "saturation")

InjectRetryStorm(w, i) == OpenIncident(Degraded(w, i), i, "latency")

InjectMemoryLeak(w, i) == OpenIncident(Degraded(w, i), i, "saturation")

InjectNovel(w, i) == OpenIncident(Degraded(w, i), i, "latency")

InjectConfigRegression(w, i) ==
  OpenIncident(Unhealthy(SetConfig(w, Fault[i].service, Fault[i].key, Fault[i].value),
                         Fault[i].service, "degraded"), i, "error_rate")

InjectPoolDriverMigration(w, i) ==
  OpenIncident(IF Fault[i].migrated
                 THEN SetConfig(Degraded(w, i), Fault[i].service,
                                "pool_driver", "multiplexed")
                 ELSE Degraded(w, i), i, "latency")

\* The migration also takes the on-prem replica down.
InjectCacheTopologyMigration(w, i) ==
  OpenIncident(BreakDependency(
    IF Fault[i].migrated
      THEN Unhealthy(SetConfig(w, Fault[i].service, "cache_failover_target",
                               "cache-managed-primary"),
                     "cache-onprem-replica", "down")
      ELSE w, i), i, "availability")

\* inject_next raises after the scenario is consumed.
Injectable(w, i) ==
  Fault[i].family = "F2_POOL_EXHAUSTION" /\ ~Fault[i].near_miss
    => CurrentConfig(w, Fault[i].service, "db_pool_size") # 0

\* inject_next: an incident opens at its schedule, or late.
InjectNext(w, i) ==
  LET at == IF w.now >= Fault[i].inject_at THEN w ELSE [w EXCEPT !.now = Fault[i].inject_at]
      family == Fault[i].family
  IN CASE family = "F1_BAD_DEPLOY" -> InjectBadDeploy(at, i)
       [] family = "F2_POOL_EXHAUSTION" -> InjectPoolExhaustion(at, i)
       [] family = "F3_CACHE_OUTAGE" -> InjectCacheOutage(at, i)
       [] family = "F4_TRAFFIC_SATURATION" -> InjectTrafficSaturation(at, i)
       [] family = "F5_RETRY_STORM" -> InjectRetryStorm(at, i)
       [] family = "F6_MEMORY_LEAK" -> InjectMemoryLeak(at, i)
       [] family = "F7_CONFIG_REGRESSION" -> InjectConfigRegression(at, i)
       [] family = "F8_DATASTORE_FAILOVER" -> InjectDatastoreFailover(at, i)
       [] family = "F9_PAYMENT_PROVIDER_OUTAGE" -> InjectPaymentProviderOutage(at, i)
       [] family = "F10_NOVEL" -> InjectNovel(at, i)
       [] family = "F11_POOL_DRIVER_MIGRATION" -> InjectPoolDriverMigration(at, i)
       [] family = "F12_CACHE_TOPOLOGY_MIGRATION" -> InjectCacheTopologyMigration(at, i)

----------------------------------------------------------------------------
(* Remediation.  An action is its type, target service and parameters.     *)

Has(a, p) == p \in DOMAIN a.params

\* _mutate_action's checks of the parameters, all made before it changes
\* anything.
Executable(w, a) ==
  \/ /\ a.type = "rollback_deploy" /\ Has(a, "target_version")
     /\ a.params.target_version # Null
  \/ a.type = "set_config" /\ Has(a, "key") /\ Has(a, "value")
  \/ a.type \in {"restart_service", "no_op_page_human", "escalate"}
  \/ /\ a.type = "failover_dependency" /\ Has(a, "dependency_key") /\ Has(a, "to_service")
     /\ a.params.dependency_key \in DOMAIN w.dependencies
     /\ a.params.to_service \in DOMAIN w.services
  \/ a.type = "scale_service" /\ Has(a, "capacity_units") /\ a.params.capacity_units > 0
  \/ /\ a.type = "throttle_traffic" /\ Has(a, "traffic_percent")
     /\ a.params.traffic_percent \in 1..100

\* The checks of apply_action itself.
Addressed(w, i, a) ==
  /\ w.incidents[i] # Null /\ w.incidents[i].status # "resolved"
  /\ a.target \in DOMAIN w.services

Acceptable(w, i, a) == Addressed(w, i, a) /\ Executable(w, a)

\* The membership tests of failover_dependency raise TypeError for a list or an
\* object, the one for to_service after the key was found.
RaisesTypeError(w, i, a) ==
  /\ Addressed(w, i, a)
  /\ a.type = "failover_dependency" /\ Has(a, "dependency_key")
  /\ \/ a.params.dependency_key \in Unhashable
     \/ /\ a.params.dependency_key \in DOMAIN w.dependencies
        /\ Has(a, "to_service") /\ a.params.to_service \in Unhashable

\* The latest deployment of the version that runs is marked.
Rollback(w, s, version) ==
  LET running == {n \in DOMAIN w.deployments : /\ w.deployments[n].service = s
                                               /\ w.deployments[n].version
                                                    = w.services[s].version}
      marked == [n \in DOMAIN w.deployments |->
                   IF n \in running /\ \A m \in running : m <= n
                     THEN [w.deployments[n] EXCEPT !.rolled_back = TRUE]
                     ELSE w.deployments[n]]
  IN [w EXCEPT !.services[s].version = version,
               !.deployments = Append(marked, [service |-> s, version |-> version,
                                               action |-> "rollback",
                                               rolled_back |-> FALSE])]

\* _mutate_action: the effect of an action, right or wrong.
MutateAction(w, a) ==
  CASE a.type = "rollback_deploy" -> Rollback(w, a.target, a.params.target_version)
    [] a.type = "set_config" -> SetConfig(w, a.target, a.params.key, a.params.value)
    [] a.type = "restart_service" -> [w EXCEPT !.services[a.target].restarts = @ + 1]
    [] a.type = "failover_dependency" ->
         [w EXCEPT !.dependencies[a.params.dependency_key] =
                      [to |-> a.params.to_service, status |-> "active"]]
    [] a.type = "scale_service" ->
         [w EXCEPT !.services[a.target].capacity = a.params.capacity_units]
    [] a.type = "throttle_traffic" ->
         SetConfig(w, a.target, "traffic_limit_percent", a.params.traffic_percent)
    [] OTHER -> w

\* A rollback's version may be the template "$incident.previous_stable_version".
Expected(w, i, p, v) ==
  IF p = "target_version" /\ v = "$incident.previous_stable_version"
    THEN w.services[Fault[i].service].stable ELSE v

\* _matches: parameters the oracle does not name may have any value.
Matches(w, i, expected, a) ==
  /\ expected.type = a.type
  /\ a.target = IF expected.target = "$incident.service" THEN Fault[i].service
                                                         ELSE expected.target
  /\ \A p \in DOMAIN expected.params :
       Has(a, p) /\ a.params[p] = Expected(w, i, p, expected.params[p])

\* Mutant: MTTR counts from the start of the simulation.
ResolveFromStart(w, i) ==
  [w EXCEPT !.incidents[i] = [@ EXCEPT !.status = "resolved", !.cleared_at = w.now,
                                       !.mttr = w.now \div Second],
            !.services[Fault[i].service].health = "healthy",
            !.breaching = @ \ {<<Fault[i].service, w.incidents[i].slo>>}]

\* _resolve: MTTR is cut to whole seconds; the service is healthy and the SLO
\* of the alert too, whatever other incident is open on them.
Resolve(w, i) ==
  [w EXCEPT !.incidents[i] = [@ EXCEPT !.status = "resolved", !.cleared_at = w.now,
                                       !.mttr = (w.now - w.incidents[i].opened_at) \div Second],
            !.services[Fault[i].service].health = "healthy",
            !.breaching = @ \ {<<Fault[i].service, w.incidents[i].slo>>}]

\* _add_failed_orders after an ineffective action.
AddFailedOrders(w, i) == [w EXCEPT !.orders[i] = @ + 2]

\* apply_action, in the order of the code: match, mutate, let time pass.
ApplyAction(w, i, a) ==
  LET step == w.incidents[i].step
      hit == Matches(w, i, Required(i)[step + 1], a)
      acted == AdvanceTime(MutateAction(w, a),
                           IF hit THEN OracleFor(i).action_seconds
                                  ELSE OracleFor(i).wrong_action_penalty_seconds)
      judged == IF hit
                  THEN [acted EXCEPT !.incidents[i] = [@ EXCEPT !.step = step + 1,
                                                               !.status = "mitigating"]]
                  ELSE AddFailedOrders(acted, i)
      logged == [judged EXCEPT !.actions =
                   Append(@, [incident |-> i, action |-> a,
                              outcome |-> IF hit THEN "success" ELSE "no_effect"])]
  IN IF logged.incidents[i].step = Len(Required(i)) THEN Resolve(logged, i) ELSE logged
=============================================================================
