---------------------------- MODULE MCEvaluation ----------------------------
(* Instances of Evaluation for TLC, with the data of the fixtures cut down to *)
(* one or two services.                                                       *)
EXTENDS Evaluation

CONSTANT aList

Names ==
  <<"checkout-svc", "payment-svc", "redis-cluster-v2", "redis-cluster-v2-replica",
    "orders-db", "orders-db-replica", "payment-provider-primary",
    "payment-provider-secondary", "cache-onprem-primary", "cache-onprem-replica",
    "cache-managed-primary">>

Services == [s \in {Names[n] : n \in DOMAIN Names} |->
               [version |-> "v1", stable |-> Null, capacity |-> 4]]

Dependencies ==
  [d \in {"checkout-cache", "checkout-orders", "payment-provider", "storefront-cache"} |->
     CASE d = "checkout-cache" -> "redis-cluster-v2"
       [] d = "checkout-orders" -> "orders-db"
       [] d = "payment-provider" -> "payment-provider-primary"
       [] d = "storefront-cache" -> "cache-onprem-primary"]

Configs == <<<<"checkout-svc", "db_pool_size", 20>>,
             <<"checkout-svc", "express_checkout_enabled", 1>>>>

Hours(n) == n * 3600 * Second

F(family, hour) ==
  [family |-> family, service |-> "checkout-svc", inject_at |-> Hours(hour),
   failed_orders |-> 1, near_miss |-> FALSE, migrated |-> FALSE, version |-> Null,
   key |-> Null, value |-> Null, dependency |-> Null, failed |-> Null]

Broken(family, hour, dependency, failed) ==
  [F(family, hour) EXCEPT !.dependency = dependency, !.failed = failed]

Ids == {"f1", "f1-again", "f2", "f2-payment", "near-miss", "f3", "f4", "f5", "f6", "f7",
        "f8", "f9", "f10", "f11", "f11-migrated", "f12", "f12-migrated"}

Faults ==
  [i \in Ids |->
     CASE i = "f1" -> [F("F1_BAD_DEPLOY", 0) EXCEPT !.version = "v2"]
       [] i = "f1-again" -> [F("F1_BAD_DEPLOY", 0) EXCEPT !.version = "v3"]
       [] i = "f2" -> F("F2_POOL_EXHAUSTION", 0)
       [] i = "f2-payment" -> [F("F2_POOL_EXHAUSTION", 0) EXCEPT !.service = "payment-svc"]
       [] i = "near-miss" -> [F("F2_POOL_EXHAUSTION", 0) EXCEPT !.near_miss = TRUE]
       [] i = "f3" -> Broken("F3_CACHE_OUTAGE", 0, "checkout-cache", "redis-cluster-v2")
       [] i = "f4" -> F("F4_TRAFFIC_SATURATION", 0)
       [] i = "f5" -> F("F5_RETRY_STORM", 0)
       [] i = "f6" -> F("F6_MEMORY_LEAK", 0)
       [] i = "f7" -> [F("F7_CONFIG_REGRESSION", 0) EXCEPT
                         !.key = "express_checkout_enabled", !.value = 1]
       [] i = "f8" -> Broken("F8_DATASTORE_FAILOVER", 0, "checkout-orders", "orders-db")
       [] i = "f9" -> Broken("F9_PAYMENT_PROVIDER_OUTAGE", 0, "payment-provider",
                             "payment-provider-primary")
       [] i = "f10" -> F("F10_NOVEL", 0)
       [] i = "f11" -> F("F11_POOL_DRIVER_MIGRATION", 0)
       [] i = "f11-migrated" -> [F("F11_POOL_DRIVER_MIGRATION", 6) EXCEPT !.migrated = TRUE]
       [] i = "f12" -> Broken("F12_CACHE_TOPOLOGY_MIGRATION", 12, "storefront-cache",
                              "cache-onprem-primary")
       [] i = "f12-migrated" ->
            [Broken("F12_CACHE_TOPOLOGY_MIGRATION", 18, "storefront-cache",
                    "cache-onprem-primary") EXCEPT !.migrated = TRUE]]

A(type, params) == [type |-> type, target |-> "$incident.service", params |-> params]
Failover(d, s) == A("failover_dependency", [dependency_key |-> d, to_service |-> s])
Page == A("no_op_page_human", <<>>)

PoolFix == <<A("set_config", [key |-> "db_pool_size", value |-> 80]),
             A("restart_service", <<>>)>>
MultiplexFix == <<A("set_config", [key |-> "pool_multiplexing_enabled", value |-> 1])>>
OnPremFix == <<Failover("storefront-cache", "cache-onprem-replica")>>
ManagedFix == <<Failover("storefront-cache", "cache-managed-primary")>>

Fix(family) ==
  CASE family = "F1_BAD_DEPLOY" ->
         <<A("rollback_deploy", [target_version |-> "$incident.previous_stable_version"])>>
    [] family \in {"F2_POOL_EXHAUSTION", "F11_POOL_DRIVER_MIGRATION"} -> PoolFix
    [] family = "F3_CACHE_OUTAGE" -> <<Failover("checkout-cache", "redis-cluster-v2-replica")>>
    [] family = "F4_TRAFFIC_SATURATION" ->
         <<A("scale_service", [capacity_units |-> 8]),
           A("throttle_traffic", [traffic_percent |-> 75])>>
    [] family = "F5_RETRY_STORM" -> <<A("throttle_traffic", [traffic_percent |-> 60])>>
    [] family = "F6_MEMORY_LEAK" -> <<A("restart_service", <<>>)>>
    [] family = "F7_CONFIG_REGRESSION" ->
         <<A("set_config", [key |-> "express_checkout_enabled", value |-> 0])>>
    [] family = "F8_DATASTORE_FAILOVER" -> <<Failover("checkout-orders", "orders-db-replica")>>
    [] family = "F9_PAYMENT_PROVIDER_OUTAGE" ->
         <<Failover("payment-provider", "payment-provider-secondary"),
           A("throttle_traffic", [traffic_percent |-> 50])>>
    [] family = "F12_CACHE_TOPOLOGY_MIGRATION" -> OnPremFix
    [] OTHER -> <<Page>>

Families == {Faults[i].family : i \in Ids}

Rule(seconds, required) ==
  [action_seconds |-> seconds * Second, wrong_action_penalty_seconds |-> 300 * Second,
   required_actions |-> required]

Oracles == [f \in Families |-> Rule(120, Fix(f))]
Overrides == [i \in {"near-miss", "f11-migrated", "f12-migrated"} |->
                CASE i = "near-miss" -> Rule(120, <<Page>>)
                  [] i = "f11-migrated" -> Rule(90, MultiplexFix)
                  [] i = "f12-migrated" -> Rule(90, ManagedFix)]

\* One gold memory per family but the novel one; two of each drift family, with
\* the windows of the drift corpus; a hard negative without a runbook.
M(rank, family, actions, from, to) ==
  [rank |-> rank, family |-> family, gold |-> family # "HARD_NEGATIVE", actions |-> actions,
   valid_from |-> from, valid_to |-> to]

Memories == (Families \ {"F10_NOVEL"})
              \cup {"HARD_NEGATIVE", "multiplexed-pool", "managed-cache"}

MemoryCorpus ==
  [m \in Memories |->
     CASE m = "F11_POOL_DRIVER_MIGRATION" -> M(2, m, PoolFix, Null, Hours(3))
       [] m = "multiplexed-pool" ->
            M(3, "F11_POOL_DRIVER_MIGRATION", MultiplexFix, Hours(3), Null)
       [] m = "F12_CACHE_TOPOLOGY_MIGRATION" -> M(4, m, OnPremFix, Null, Hours(15))
       [] m = "managed-cache" ->
            M(5, "F12_CACHE_TOPOLOGY_MIGRATION", ManagedFix, Hours(15), Null)
       [] m = "HARD_NEGATIVE" -> M(0, m, <<>>, Null, Null)
       [] OTHER -> M(1, m, Fix(m), Null, Null)]

\* The memories whose text matches the incidents of their family: all of them,
\* or any of the drift memories.  The hard negative is nearest of all.
Texts == {Memories}
         \cup SUBSET {"F11_POOL_DRIVER_MIGRATION", "multiplexed-pool",
                      "F12_CACHE_TOPOLOGY_MIGRATION", "managed-cache"}

Similarities ==
  [S \in Texts |-> [p \in Memories \X Ids |->
     IF p[1] \notin S \/ p[2] = "near-miss" THEN 5
     ELSE IF p[1] = "HARD_NEGATIVE" THEN 80
     ELSE IF MemoryCorpus[p[1]].family = Faults[p[2]].family THEN 60 ELSE 5]]

AgentStreams == {<<"f1", "f1-again">>, <<"f2">>, <<"f7">>, <<"f9">>}

Fixture == Ids \ {"f11", "f11-migrated", "f12", "f12-migrated"}
FixtureStreams == {<<i, j>> : i, j \in Fixture}
                    \cup {<<"f10", "near-miss", i>> : i \in {"f3", "f6"}}

SmallSetups ==
  {[harness |-> "agent", stream |-> s, texts |-> Memories] : s \in AgentStreams}
  \cup {[harness |-> "mechanism", stream |-> s, texts |-> Memories]
        : s \in {s \in FixtureStreams : \A m, n \in DOMAIN s : s[m] = s[n] => m = n}}
  \cup {[harness |-> "temporal", texts |-> d,
         stream |-> <<"f11", "f11-migrated", "f12", "f12-migrated">>] : d \in Texts \ {Memories}}

\* The required actions, rendered; a wrong one with an effect; one that cannot
\* be executed; for a failed provider, failovers whose key or destination is a
\* list.
SmallPool ==
  [i \in Ids |->
     [n \in DOMAIN Fix(Faults[i].family) |->
        LET a == Fix(Faults[i].family)[n] IN
        IF a.type = "rollback_deploy"
          THEN [a EXCEPT !.target = Faults[i].service, !.params = [target_version |-> "v1"]]
          ELSE [a EXCEPT !.target = Faults[i].service]]
     \o <<[type |-> "set_config", target |-> Faults[i].service,
           params |-> [key |-> "db_pool_size", value |-> 10]],
          [type |-> "scale_service", target |-> Faults[i].service,
           params |-> [capacity_units |-> 0]]>>
     \o IF i = "f9"
          THEN <<[Failover(aList, "payment-provider-secondary") EXCEPT !.target = "checkout-svc"],
                 [Failover("payment-provider", aList) EXCEPT !.target = "checkout-svc"]>>
          ELSE <<>>]
=============================================================================
