-------------------------- MODULE EvaluationProofs --------------------------
(***************************************************************************)
(* The simulated world and the harnesses, for any fixture, oracle, corpus, *)
(* stream and plan.  Values, keys and versions are whatever the actions of *)
(* the model carry, so lists and records are described by their domains.   *)
(***************************************************************************)
EXTENDS Evaluation, FiniteSetTheorems, TLAPS

\* Induction over the naturals, for a set.
LEMMA NatSetInduction ==
  ASSUME NEW S, 0 \in S, \A n \in Nat : n \in S => n + 1 \in S
  PROVE  Nat \subseteq S
<1> SUFFICES ASSUME NEW m \in Nat \ S PROVE FALSE
  OBVIOUS
<1>1. PICK n \in Nat \ S : \A k \in Nat \ S : ~(<<k, n>> \in OpToRel(<, Nat))
  BY WFMin, NatLessThanWellFounded, Nat \ S \subseteq Nat, Nat \ S # {}
<1>2. \A k \in Nat \ S : ~(k < n)
  BY <1>1 DEF OpToRel
<1>3. n # 0
  OBVIOUS
<1>4. n - 1 \in Nat /\ n - 1 < n /\ n = (n - 1) + 1
  BY <1>3
<1> QED BY <1>2, <1>4

\* A set of naturals that is not empty has a least element.
LEMMA LeastOf ==
  ASSUME NEW S, S \subseteq Nat, S # {}
  PROVE  \E n \in S : \A m \in S : n <= m
<1>1. PICK n \in S : \A k \in S : ~(<<k, n>> \in OpToRel(<, Nat))
  BY WFMin, NatLessThanWellFounded
<1>2. \A k \in S : ~(k < n)
  BY <1>1 DEF OpToRel
<1> QED BY <1>2

\* A list of whatever values.
IsList(s) == Len(s) \in Nat /\ s = [n \in 1..Len(s) |-> s[n]]

LEMMA ListIsSeq ==
  ASSUME NEW s, IsList(s) PROVE \A T : {s[n] : n \in 1..Len(s)} \subseteq T => s \in Seq(T)
<1> SUFFICES ASSUME NEW T, {s[n] : n \in 1..Len(s)} \subseteq T PROVE s \in Seq(T)
  OBVIOUS
<1>1. s \in [1..Len(s) -> T]
  BY DEF IsList
<1> QED BY <1>1 DEF IsList

LEMMA AppendList ==
  ASSUME NEW s, IsList(s), NEW x
  PROVE  /\ IsList(Append(s, x)) /\ Len(Append(s, x)) = Len(s) + 1
         /\ DOMAIN s = 1..Len(s) /\ DOMAIN Append(s, x) = 1..(Len(s) + 1)
         /\ \A n \in 1..Len(s) : Append(s, x)[n] = s[n]
         /\ Append(s, x)[Len(s) + 1] = x
<1> DEFINE T == {s[n] : n \in 1..Len(s)} \cup {x}
<1>1. s \in Seq(T)
  BY ListIsSeq
<1>2. x \in T
  OBVIOUS
<1> HIDE DEF T
<1>3. Append(s, x) \in Seq(T)
  BY <1>1, <1>2
<1>4. /\ Len(s) \in Nat /\ Len(Append(s, x)) = Len(s) + 1
      /\ DOMAIN s = 1..Len(s) /\ DOMAIN Append(s, x) = 1..(Len(s) + 1)
      /\ \A n \in 1..Len(s) : Append(s, x)[n] = s[n]
      /\ Append(s, x)[Len(s) + 1] = x
  BY <1>1, <1>2, <1>3
<1>5. Append(s, x) = [n \in 1..Len(Append(s, x)) |-> Append(s, x)[n]]
  <2>1. ASSUME NEW l \in Seq(T) PROVE l = [n \in 1..Len(l) |-> l[n]]
    OBVIOUS
  <2> QED BY <1>3, <2>1
<1> QED BY <1>4, <1>5 DEF IsList

----------------------------------------------------------------------------
(* The revisions of the configuration.                                     *)

SameKey(c, m, n) == c[m].service = c[n].service /\ c[m].key = c[n].key

\* Revision m is the last of its key; revision n is the next after m.
LastOf(c, m) == \A n \in DOMAIN c : n > m => ~SameKey(c, m, n)
FollowedBy(c, m, n) ==
  n > m /\ SameKey(c, m, n) /\ \A o \in DOMAIN c : m < o /\ o < n => ~SameKey(c, m, o)

RevisionFields == {"service", "key", "value", "valid_from", "valid_to"}

Chain(c) ==
  /\ IsList(c)
  /\ \A m \in DOMAIN c :
       /\ DOMAIN c[m] = RevisionFields /\ c[m].valid_from \in Nat
       /\ LastOf(c, m) => c[m].valid_to = Null
       /\ \A n \in DOMAIN c : FollowedBy(c, m, n) => c[m].valid_to = c[n].valid_from

\* A revision that is not the last of its key has a next one.
LEMMA NextRevision ==
  ASSUME NEW c, IsList(c), NEW m \in DOMAIN c, ~LastOf(c, m)
  PROVE  \E n \in DOMAIN c : FollowedBy(c, m, n)
<1> DEFINE S == {n \in DOMAIN c : n > m /\ SameKey(c, m, n)}
<1>1. DOMAIN c = 1..Len(c) /\ Len(c) \in Nat
  BY DEF IsList
<1>2. S # {} /\ S \subseteq Nat
  BY <1>1 DEF LastOf
<1>3. PICK n \in S : \A k \in S : n <= k
  <2> HIDE DEF S
  <2> QED BY <1>2, LeastOf
<1>4. FollowedBy(c, m, n)
  BY <1>1, <1>3 DEF FollowedBy
<1> QED BY <1>4

\* So a chain has no gap, no overlap and an open end.
LEMMA ChainTimeline ==
  ASSUME Chain(world.configs) PROVE ConfigTimeline
<1> DEFINE c == world.configs
<1> SUFFICES ASSUME NEW m \in DOMAIN c
             PROVE  LET later == {n \in DOMAIN c : /\ n > m
                                                   /\ c[n].service = c[m].service
                                                   /\ c[n].key = c[m].key}
                    IN c[m].valid_to =
                         IF later = {} THEN Null
                         ELSE c[CHOOSE n \in later : \A o \in later : n <= o].valid_from
  BY DEF ConfigTimeline
<1> DEFINE later == {n \in DOMAIN c : /\ n > m
                                      /\ c[n].service = c[m].service
                                      /\ c[n].key = c[m].key}
<1>1. DOMAIN c = 1..Len(c) /\ Len(c) \in Nat
  BY DEF Chain, IsList
<1>2. CASE later = {}
  <2>1. LastOf(c, m)
    BY <1>2 DEF LastOf, SameKey
  <2> QED BY <1>2, <2>1 DEF Chain
<1>3. CASE later # {}
  <2> DEFINE n == CHOOSE n \in later : \A o \in later : n <= o
  <2>1. later \subseteq Nat
    BY <1>1
  <2>2. \E k \in later : \A o \in later : k <= o
    <3> HIDE DEF later
    <3> QED BY <1>3, <2>1, LeastOf
  <2>3. n \in later /\ \A o \in later : n <= o
    <3> HIDE DEF later
    <3> QED BY <2>2
  <2>4. FollowedBy(c, m, n)
    <3> HIDE DEF n
    <3> QED BY <1>1, <2>3 DEF FollowedBy, SameKey
  <2>5. c[m].valid_to = c[n].valid_from
    <3> HIDE DEF n
    <3> QED BY <2>3, <2>4 DEF Chain
  <2> QED BY <1>3, <2>5
<1> QED BY <1>2, <1>3

\* The open revision _set_config closes is the last of its key.
LEMMA CurrentIsLast ==
  ASSUME NEW w, Chain(w.configs), NEW s, NEW k
  PROVE  \A m \in DOMAIN w.configs :
           m = CurrentConfig(w, s, k)
             <=> w.configs[m].service = s /\ w.configs[m].key = k /\ LastOf(w.configs, m)
<1> DEFINE c == w.configs
           open == {n \in DOMAIN c : c[n].service = s /\ c[n].key = k /\ c[n].valid_to = Null}
<1>1. DOMAIN c = 1..Len(c) /\ Len(c) \in Nat /\ Null \notin Nat
  BY ConductorAssumption DEF Chain, IsList
<1>2. \A n \in DOMAIN c : c[n].valid_to = Null <=> LastOf(c, n)
  <2> SUFFICES ASSUME NEW n \in DOMAIN c, ~LastOf(c, n) PROVE c[n].valid_to # Null
    BY DEF Chain
  <2>1. PICK o \in DOMAIN c : FollowedBy(c, n, o)
    BY NextRevision DEF Chain
  <2> QED BY <1>1, <2>1 DEF Chain
<1>3. \A m, n \in open : m = n
  <2> SUFFICES ASSUME NEW m \in open, NEW n \in open, m < n PROVE FALSE
    BY <1>1
  <2> QED BY <1>2 DEF LastOf, SameKey
<1>4. CASE open = {}
  <2>1. CurrentConfig(w, s, k) = 0
    BY <1>4 DEF CurrentConfig
  <2> QED BY <1>1, <1>2, <1>4, <2>1
<1>5. CASE open # {}
  <2>1. PICK n \in open : TRUE
    BY <1>5
  <2>2. CurrentConfig(w, s, k) = CHOOSE m \in open : \A o \in open : o <= m
    BY <1>5 DEF CurrentConfig
  <2>3. n \in open /\ \A o \in open : o <= n
    BY <1>1, <1>3, <2>1
  <2>4. CurrentConfig(w, s, k) \in open
    <3> HIDE DEF open
    <3> QED BY <2>2, <2>3
  <2> QED BY <1>2, <1>3, <2>4
<1> QED BY <1>4, <1>5

\* The list _set_config leaves.
NewConfigs(w, s, k, v) ==
  LET old == CurrentConfig(w, s, k)
      closed == [n \in DOMAIN w.configs |->
                   IF n = old THEN [w.configs[n] EXCEPT !.valid_to = w.now]
                              ELSE w.configs[n]]
  IN Append(closed, Revision(w, s, k, v))

\* It is a chain again: the last revision of the key ends where the new one
\* begins.
LEMMA NewConfigsChain ==
  ASSUME NEW w, Chain(w.configs), w.now \in Nat, NEW s, NEW k, NEW v
  PROVE  Chain(NewConfigs(w, s, k, v))
<1> DEFINE c == w.configs
           N == Len(c)
           old == CurrentConfig(w, s, k)
           closed == [n \in DOMAIN c |-> IF n = old THEN [c[n] EXCEPT !.valid_to = w.now]
                                                    ELSE c[n]]
           d == NewConfigs(w, s, k, v)
           new == Revision(w, s, k, v)
<1>1. /\ DOMAIN c = 1..N /\ N \in Nat /\ Null \notin Nat
      /\ \A m \in 1..N : DOMAIN c[m] = RevisionFields /\ c[m].valid_from \in Nat
  BY ConductorAssumption DEF Chain, IsList
<1>2. IsList(closed) /\ Len(closed) = N
  BY <1>1 DEF IsList
<1>3. /\ IsList(d) /\ DOMAIN d = 1..(N + 1) /\ d[N + 1] = new
      /\ \A n \in 1..N : d[n] = closed[n]
  <2>1. d = Append(closed, new)
    BY DEF NewConfigs
  <2> HIDE DEF d, closed, new
  <2> QED BY <1>2, <2>1, AppendList
<1>4. /\ DOMAIN new = RevisionFields /\ new.service = s /\ new.key = k
      /\ new.valid_from = w.now /\ new.valid_to = Null
  BY DEF Revision, RevisionFields
<1>5. ASSUME NEW n \in 1..N
      PROVE  /\ DOMAIN d[n] = RevisionFields
             /\ d[n].service = c[n].service /\ d[n].key = c[n].key
             /\ d[n].valid_from = c[n].valid_from
             /\ d[n].valid_to = IF n = old THEN w.now ELSE c[n].valid_to
  <2>1. d[n] = IF n = old THEN [c[n] EXCEPT !.valid_to = w.now] ELSE c[n]
    BY <1>1, <1>3
  <2> HIDE DEF d, old
  <2> QED BY <1>1, <2>1 DEF RevisionFields
<1>6. \A m \in 1..N : m = old <=> c[m].service = s /\ c[m].key = k /\ LastOf(c, m)
  BY <1>1, CurrentIsLast
<1> HIDE DEF d, closed, new, old
<1>7. \A m, n \in 1..N : SameKey(d, m, n) <=> SameKey(c, m, n)
  BY <1>5 DEF SameKey
<1>8. \A m \in 1..N : SameKey(d, m, N + 1) <=> c[m].service = s /\ c[m].key = k
  BY <1>3, <1>4, <1>5 DEF SameKey
<1>9. ASSUME NEW m \in 1..N, LastOf(d, m) PROVE d[m].valid_to = Null
  <2>1. ~SameKey(d, m, N + 1)
    BY <1>1, <1>3, <1>9 DEF LastOf
  <2>2. LastOf(c, m)
    BY <1>1, <1>3, <1>7, <1>9 DEF LastOf
  <2> QED BY <1>1, <1>5, <1>6, <1>8, <2>1, <2>2 DEF Chain
<1>10. ASSUME NEW m \in 1..N, NEW n \in 1..N, FollowedBy(d, m, n)
       PROVE  d[m].valid_to = d[n].valid_from
  <2>1. FollowedBy(c, m, n)
    BY <1>1, <1>3, <1>7, <1>10 DEF FollowedBy
  <2>2. c[m].valid_to = c[n].valid_from /\ ~LastOf(c, m)
    BY <1>1, <2>1 DEF Chain, FollowedBy, LastOf
  <2> QED BY <1>5, <1>6, <2>2
<1>11. ASSUME NEW m \in 1..N, FollowedBy(d, m, N + 1)
       PROVE  d[m].valid_to = d[N + 1].valid_from
  <2>1. LastOf(c, m)
    BY <1>1, <1>3, <1>7, <1>11 DEF FollowedBy, LastOf
  <2>2. m = old
    BY <1>6, <1>8, <1>11, <2>1 DEF FollowedBy
  <2> QED BY <1>3, <1>4, <1>5, <2>2
<1>12. \A m, n \in 1..(N + 1) : FollowedBy(d, m, n) => m \in 1..N
  BY <1>1 DEF FollowedBy
<1>13. \A m \in 1..(N + 1) : m \in 1..N \/ m = N + 1
  BY <1>1
<1>14. ASSUME NEW m \in 1..(N + 1)
       PROVE  /\ DOMAIN d[m] = RevisionFields /\ d[m].valid_from \in Nat
              /\ LastOf(d, m) => d[m].valid_to = Null
              /\ \A n \in 1..(N + 1) : FollowedBy(d, m, n) => d[m].valid_to = d[n].valid_from
  <2>1. DOMAIN d[m] = RevisionFields /\ d[m].valid_from \in Nat
    BY <1>1, <1>3, <1>4, <1>5, <1>13
  <2>2. LastOf(d, m) => d[m].valid_to = Null
    BY <1>3, <1>4, <1>9, <1>13
  <2>3. \A n \in 1..(N + 1) : FollowedBy(d, m, n) => d[m].valid_to = d[n].valid_from
    BY <1>10, <1>11, <1>12, <1>13
  <2> QED BY <2>1, <2>2, <2>3
<1>15. Chain(d)
  BY <1>3, <1>14 DEF Chain
<1> QED BY <1>15 DEF d

----------------------------------------------------------------------------
(* The deployments.                                                        *)

DeploymentFields == {"service", "version", "action", "rolled_back"}

LastDeployed(d, m) == \A n \in DOMAIN d : n > m => d[n].service # d[m].service

\* The list agrees with the versions that run, and a rollback follows what is
\* marked as rolled back.
Entry(d, services, m) ==
  /\ DOMAIN d[m] = DeploymentFields
  /\ d[m].service \in DOMAIN Catalog /\ d[m].rolled_back \in BOOLEAN
  /\ LastDeployed(d, m) => d[m].version = services[d[m].service].version
  /\ d[m].rolled_back = TRUE =>
       \E n \in DOMAIN d : /\ n > m /\ d[n].service = d[m].service
                           /\ d[n].action = "rollback"

Trail(d, services) == IsList(d) /\ \A m \in DOMAIN d : Entry(d, services, m)

LEMMA TrailTruth ==
  ASSUME Trail(world.deployments, world.services) PROVE DeploymentTrail
<1> DEFINE d == world.deployments
<1> SUFFICES ASSUME NEW m \in DOMAIN d
             PROVE  LET later == {n \in DOMAIN d : n > m /\ d[n].service = d[m].service}
                    IN /\ later = {} => d[m].version = world.services[d[m].service].version
                       /\ d[m].rolled_back => \E n \in later : d[n].action = "rollback"
  BY DEF DeploymentTrail
<1> DEFINE later == {n \in DOMAIN d : n > m /\ d[n].service = d[m].service}
<1>1. later = {} => d[m].version = world.services[d[m].service].version
  BY DEF Trail, Entry, LastDeployed
<1>2. d[m].rolled_back = TRUE => \E n \in later : d[n].action = "rollback"
  BY DEF Trail, Entry
<1>3. d[m].rolled_back \in BOOLEAN
  BY DEF Trail, Entry
<1> QED BY <1>1, <1>2, <1>3

\* The list e is d with marks that only the rollback x sets, and x is a
\* deployment of service s.
Marked(d, e, x, s) ==
  /\ IsList(e) /\ Len(e) = Len(d)
  /\ DOMAIN x = DeploymentFields /\ x.service = s /\ x.rolled_back = FALSE
  /\ \A m \in 1..Len(d) :
       /\ DOMAIN e[m] = DeploymentFields /\ e[m].service = d[m].service
       /\ e[m].version = d[m].version /\ e[m].action = d[m].action
       /\ \/ e[m].rolled_back = d[m].rolled_back
          \/ e[m].rolled_back = TRUE /\ x.action = "rollback" /\ d[m].service = s

\* A new entry keeps the trail if it names the version that now runs, and marks
\* are set only with a rollback.
LEMMA TrailGrows ==
  ASSUME NEW d, NEW f, NEW g, Trail(d, f), NEW e, NEW x, NEW s \in DOMAIN Catalog,
         Marked(d, e, x, s), x.version = g[s].version,
         \A t \in DOMAIN Catalog : t # s => g[t].version = f[t].version
  PROVE  Trail(Append(e, x), g)
<1> DEFINE N == Len(d)
           a == Append(e, x)
<1>1. N \in Nat /\ DOMAIN d = 1..N
  BY DEF Trail, Entry, IsList
<1>2. /\ IsList(a) /\ DOMAIN a = 1..(N + 1) /\ a[N + 1] = x
      /\ \A n \in 1..N : a[n] = e[n]
  BY AppendList DEF Marked
<1>0. /\ DOMAIN x = DeploymentFields /\ x.service = s /\ x.rolled_back = FALSE
      /\ \A m \in 1..N :
           /\ DOMAIN e[m] = DeploymentFields /\ e[m].service = d[m].service
           /\ e[m].version = d[m].version /\ e[m].action = d[m].action
           /\ \/ e[m].rolled_back = d[m].rolled_back
              \/ e[m].rolled_back = TRUE /\ x.action = "rollback" /\ d[m].service = s
  BY DEF Marked
<1> USE <1>0
<1> HIDE DEF a
<1>3. ASSUME NEW m \in 1..N
      PROVE  Entry(a, g, m)
  <2>1. /\ DOMAIN a[m] = DeploymentFields /\ a[m].service = d[m].service
        /\ a[m].version = d[m].version /\ d[m].service \in DOMAIN Catalog
        /\ a[m].rolled_back \in BOOLEAN
    <3>1. d[m].service \in DOMAIN Catalog /\ d[m].rolled_back \in BOOLEAN
      BY <1>1 DEF Trail, Entry
    <3>2. a[m] = e[m]
      BY <1>2
    <3>3. e[m].rolled_back \in {d[m].rolled_back, TRUE}
      OBVIOUS
    <3>4. e[m].rolled_back \in BOOLEAN
      BY <3>1, <3>3, Zenon
    <3> QED BY <3>1, <3>2, <3>4
  <2>2. LastDeployed(a, m) => a[m].version = g[a[m].service].version
    <3> SUFFICES ASSUME LastDeployed(a, m) PROVE a[m].version = g[a[m].service].version
      OBVIOUS
    <3>1. a[m].service # s
      BY <1>1, <1>2 DEF LastDeployed
    <3>2. LastDeployed(d, m)
      BY <1>1, <1>2 DEF LastDeployed
    <3> QED BY <1>1, <2>1, <3>1, <3>2 DEF Trail, Entry
  <2>3. ASSUME a[m].rolled_back = TRUE
        PROVE  \E n \in 1..(N + 1) : /\ n > m /\ a[n].service = a[m].service
                                     /\ a[n].action = "rollback"
    <3>1. CASE d[m].rolled_back = TRUE
      <4>1. PICK n \in 1..N : /\ n > m /\ d[n].service = d[m].service
                              /\ d[n].action = "rollback"
        BY <1>1, <3>1 DEF Trail, Entry
      <4> QED BY <1>1, <1>2, <2>1, <4>1
    <3>2. CASE x.action = "rollback" /\ d[m].service = s
      <4>1. N + 1 \in 1..(N + 1) /\ N + 1 > m
        BY <1>1
      <4> QED BY <1>2, <2>1, <3>2, <4>1
    <3> QED BY <1>2, <2>3, <3>1, <3>2
  <2> QED BY <1>2, <2>1, <2>2, <2>3 DEF Entry
<1>4. \A m \in 1..(N + 1) : m \in 1..N \/ m = N + 1
  BY <1>1
<1>5. ASSUME NEW m \in 1..(N + 1)
      PROVE  Entry(a, g, m)
  <2>1. CASE m \in 1..N
    BY <1>3, <2>1
  <2>2. CASE m = N + 1
    <3>1. DOMAIN a[m] = DeploymentFields /\ a[m].service = s /\ a[m].version = g[s].version
      BY <1>2, <2>2
    <3>2. a[m].rolled_back = FALSE
      BY <1>2, <2>2
    <3> QED BY <3>1, <3>2 DEF Entry
  <2> QED BY <1>4, <2>1, <2>2
<1>6. Trail(a, g)
  BY <1>2, <1>5 DEF Trail
<1> QED BY <1>6 DEF a

----------------------------------------------------------------------------
(* The fabric: services, dependencies, configuration and deployments, all  *)
(* that faults and actions change.                                         *)

WorldFields == {"now", "services", "dependencies", "breaching", "configs",
                "deployments", "incidents", "orders", "actions"}
ServiceFields == {"health", "version", "stable", "capacity", "restarts"}

ServicesOK(f) ==
  DOMAIN f = DOMAIN Catalog /\ \A s \in DOMAIN Catalog : DOMAIN f[s] = ServiceFields

FabricOK(w) ==
  /\ DOMAIN w = WorldFields
  /\ w.now \in Nat
  /\ ServicesOK(w.services)
  /\ Chain(w.configs)
  /\ Trail(w.deployments, w.services)

\* v is w after a change of its fabric.
Touched(w, v) ==
  /\ FabricOK(v)
  /\ v.now = w.now /\ v.breaching = w.breaching /\ v.incidents = w.incidents
  /\ v.orders = w.orders /\ v.actions = w.actions

LEMMA TouchedTwice ==
  ASSUME NEW u, NEW v, NEW w, Touched(u, v), Touched(v, w) PROVE Touched(u, w)
  BY DEF Touched

\* Versions decide the trail; other fields of a service may change.
LEMMA TrailFrame ==
  ASSUME NEW d, NEW f, NEW g, Trail(d, f),
         \A s \in DOMAIN Catalog : g[s].version = f[s].version
  PROVE  Trail(d, g)
  BY DEF Trail, Entry

\* A change of one service that leaves its version alone.
LEMMA ServiceChanged ==
  ASSUME NEW w, FabricOK(w), NEW f, ServicesOK(f),
         \A s \in DOMAIN Catalog : f[s].version = w.services[s].version
  PROVE  Touched(w, [w EXCEPT !.services = f])
<1> DEFINE v == [w EXCEPT !.services = f]
<1>1. DOMAIN w = WorldFields
  BY DEF FabricOK
<1>2. /\ DOMAIN v = WorldFields /\ v.services = f
      /\ v.now = w.now /\ v.breaching = w.breaching /\ v.incidents = w.incidents
      /\ v.orders = w.orders /\ v.actions = w.actions
      /\ v.configs = w.configs /\ v.deployments = w.deployments
  BY <1>1 DEF WorldFields
<1> HIDE DEF v
<1>3. Trail(v.deployments, v.services)
  BY <1>2, TrailFrame DEF FabricOK
<1>4. Touched(w, v)
  BY <1>2, <1>3 DEF Touched, FabricOK
<1> QED BY <1>4 DEF v

LEMMA UnhealthyTouches ==
  ASSUME NEW w, FabricOK(w), NEW s, NEW h
  PROVE  Touched(w, Unhealthy(w, s, h))
<1> DEFINE f == [w.services EXCEPT ![s].health = h]
<1>1. Unhealthy(w, s, h) = [w EXCEPT !.services = f]
  BY DEF Unhealthy
<1>2. ServicesOK(f) /\ \A t \in DOMAIN Catalog : f[t].version = w.services[t].version
  BY DEF FabricOK, ServicesOK, ServiceFields
<1> HIDE DEF f
<1> QED BY <1>1, <1>2, ServiceChanged

LEMMA SetConfigTouches ==
  ASSUME NEW w, FabricOK(w), NEW s, NEW k, NEW x
  PROVE  Touched(w, SetConfig(w, s, k, x))
<1> DEFINE c == NewConfigs(w, s, k, x)
           v == [w EXCEPT !.configs = c]
<1>1. SetConfig(w, s, k, x) = v
  BY DEF SetConfig, NewConfigs
<1>2. Chain(c)
  BY NewConfigsChain DEF FabricOK
<1> HIDE DEF c
<1>3. DOMAIN w = WorldFields
  BY DEF FabricOK
<1>4. /\ DOMAIN v = WorldFields /\ v.services = w.services /\ v.configs = c
      /\ v.now = w.now /\ v.breaching = w.breaching /\ v.incidents = w.incidents
      /\ v.orders = w.orders /\ v.actions = w.actions /\ v.deployments = w.deployments
  BY <1>3 DEF WorldFields
<1> HIDE DEF v
<1>5. Touched(w, v)
  BY <1>2, <1>4 DEF Touched, FabricOK
<1> QED BY <1>1, <1>5

LEMMA DependenciesTouched ==
  ASSUME NEW w, FabricOK(w), NEW f
  PROVE  Touched(w, [w EXCEPT !.dependencies = f])
<1> DEFINE v == [w EXCEPT !.dependencies = f]
<1>1. DOMAIN w = WorldFields
  BY DEF FabricOK
<1>2. /\ DOMAIN v = WorldFields /\ v.services = w.services /\ v.configs = w.configs
      /\ v.now = w.now /\ v.breaching = w.breaching /\ v.incidents = w.incidents
      /\ v.orders = w.orders /\ v.actions = w.actions /\ v.deployments = w.deployments
  BY <1>1 DEF WorldFields
<1> HIDE DEF v
<1>3. Touched(w, v)
  BY <1>2 DEF Touched, FabricOK
<1> QED BY <1>3 DEF v

LEMMA BreakDependencyTouches ==
  ASSUME NEW w, FabricOK(w), NEW i
  PROVE  Touched(w, BreakDependency(w, i))
<1> DEFINE down == Unhealthy(w, Fault[i].failed, "down")
           both == Unhealthy(down, Fault[i].service, "degraded")
           f == [both.dependencies EXCEPT ![Fault[i].dependency] =
                   [to |-> Fault[i].failed, status |-> "degraded"]]
<1>1. BreakDependency(w, i) = [both EXCEPT !.dependencies = f]
  BY DEF BreakDependency
<1>2. Touched(w, down)
  BY UnhealthyTouches
<1>3. Touched(down, both)
  BY <1>2, UnhealthyTouches DEF Touched
<1> HIDE DEF down, both, f
<1>4. Touched(both, [both EXCEPT !.dependencies = f])
  BY <1>3, DependenciesTouched DEF Touched
<1> QED BY <1>1, <1>2, <1>3, <1>4, TouchedTwice

\* A deployment of another version: the service and the list change together.
LEMMA Deployed ==
  ASSUME NEW w, FabricOK(w), NEW s \in DOMAIN Catalog, NEW f, ServicesOK(f),
         \A t \in DOMAIN Catalog : t # s => f[t].version = w.services[t].version,
         NEW e, NEW x, Marked(w.deployments, e, x, s), x.version = f[s].version
  PROVE  Touched(w, [w EXCEPT !.services = f, !.deployments = Append(e, x)])
<1> DEFINE v == [w EXCEPT !.services = f, !.deployments = Append(e, x)]
<1>1. DOMAIN w = WorldFields
  BY DEF FabricOK
<1>2. /\ DOMAIN v = WorldFields /\ v.services = f /\ v.deployments = Append(e, x)
      /\ v.now = w.now /\ v.breaching = w.breaching /\ v.incidents = w.incidents
      /\ v.orders = w.orders /\ v.actions = w.actions /\ v.configs = w.configs
  BY <1>1 DEF WorldFields
<1> HIDE DEF v
<1>3. Trail(w.deployments, w.services)
  BY DEF FabricOK
<1>4. Trail(Append(e, x), f)
  BY <1>3, TrailGrows
<1>5. Touched(w, v)
  BY <1>2, <1>4 DEF Touched, FabricOK
<1> QED BY <1>5 DEF v

\* The world of a bad deploy, before its incident is opened.
LEMMA BadDeployTouches ==
  ASSUME NEW w, FabricOK(w), NEW s \in DOMAIN Catalog, NEW y, NEW z
  PROVE  Touched(w, [w EXCEPT !.services[s].stable = y, !.services[s].version = z,
                       !.deployments = Append(@, [service |-> s, version |-> z,
                                                  action |-> "deploy",
                                                  rolled_back |-> FALSE])])
<1> DEFINE x == [service |-> s, version |-> z, action |-> "deploy", rolled_back |-> FALSE]
           f == [w.services EXCEPT ![s].stable = y, ![s].version = z]
           d == w.deployments
           v == [w EXCEPT !.services[s].stable = y, !.services[s].version = z,
                          !.deployments = Append(@, x)]
<1>1. DOMAIN w = WorldFields /\ ServicesOK(w.services) /\ Trail(d, w.services)
  BY DEF FabricOK
<1>2. v = [w EXCEPT !.services = f, !.deployments = Append(d, x)]
  <2>1. "services" \in DOMAIN w /\ "deployments" \in DOMAIN w /\ s \in DOMAIN w.services
    BY <1>1 DEF WorldFields, ServicesOK
  <2> QED BY <2>1
<1>3. /\ ServicesOK(f) /\ f[s].version = z
      /\ \A t \in DOMAIN Catalog : t # s => f[t].version = w.services[t].version
  BY <1>1 DEF ServicesOK, ServiceFields
<1>4. /\ DOMAIN x = DeploymentFields /\ x.service = s /\ x.version = z
      /\ x.rolled_back = FALSE
  BY DEF DeploymentFields
<1>5. /\ IsList(d) /\ \A m \in 1..Len(d) : DOMAIN d[m] = DeploymentFields
  BY <1>1 DEF Trail, Entry, IsList
<1> HIDE DEF x, f, v
<1>6. Marked(d, d, x, s)
  BY <1>4, <1>5 DEF Marked
<1>7. Touched(w, v)
  BY <1>2, <1>3, <1>4, <1>6, Deployed
<1> QED BY <1>7 DEF v, x

LEMMA RollbackTouches ==
  ASSUME NEW w, FabricOK(w), NEW s \in DOMAIN Catalog, NEW z
  PROVE  Touched(w, Rollback(w, s, z))
<1> DEFINE x == [service |-> s, version |-> z, action |-> "rollback", rolled_back |-> FALSE]
           f == [w.services EXCEPT ![s].version = z]
           d == w.deployments
           running == {n \in DOMAIN d : /\ d[n].service = s
                                        /\ d[n].version = w.services[s].version}
           e == [n \in DOMAIN d |-> IF n \in running /\ \A m \in running : m <= n
                                      THEN [d[n] EXCEPT !.rolled_back = TRUE] ELSE d[n]]
           v == Rollback(w, s, z)
<1>1. DOMAIN w = WorldFields /\ ServicesOK(w.services) /\ Trail(d, w.services)
  BY DEF FabricOK
<1>2. v = [w EXCEPT !.services = f, !.deployments = Append(e, x)]
  BY <1>1 DEF Rollback
<1>3. /\ ServicesOK(f) /\ f[s].version = z
      /\ \A t \in DOMAIN Catalog : t # s => f[t].version = w.services[t].version
  BY <1>1 DEF ServicesOK, ServiceFields
<1>4. /\ DOMAIN x = DeploymentFields /\ x.service = s /\ x.version = z
      /\ x.rolled_back = FALSE /\ x.action = "rollback"
  BY DEF DeploymentFields
<1>5. /\ DOMAIN d = 1..Len(d) /\ Len(d) \in Nat
      /\ \A m \in 1..Len(d) : DOMAIN d[m] = DeploymentFields
  BY <1>1 DEF Trail, Entry, IsList
<1>6. IsList(e) /\ Len(e) = Len(d)
  BY <1>5 DEF IsList
<1>7. ASSUME NEW m \in 1..Len(d)
      PROVE  /\ DOMAIN e[m] = DeploymentFields /\ e[m].service = d[m].service
             /\ e[m].version = d[m].version /\ e[m].action = d[m].action
             /\ \/ e[m].rolled_back = d[m].rolled_back
                \/ e[m].rolled_back = TRUE /\ d[m].service = s
  <2>1. CASE m \in running /\ \A n \in running : n <= m
    <3>1. e[m] = [d[m] EXCEPT !.rolled_back = TRUE] /\ d[m].service = s
      BY <1>5, <2>1
    <3> HIDE DEF e
    <3> QED BY <1>5, <3>1 DEF DeploymentFields
  <2>2. CASE ~(m \in running /\ \A n \in running : n <= m)
    <3>1. e[m] = d[m]
      BY <1>5, <2>2
    <3> HIDE DEF e
    <3> QED BY <1>5, <3>1
  <2> QED BY <2>1, <2>2
<1> HIDE DEF x, f, v, e
<1>8. Marked(d, e, x, s)
  BY <1>4, <1>6, <1>7 DEF Marked
<1>9. Touched(w, v)
  BY <1>2, <1>3, <1>4, <1>8, Deployed
<1> QED BY <1>9 DEF v

\* Whatever an accepted action does, right or wrong.
LEMMA MutateTouches ==
  ASSUME NEW w, FabricOK(w), NEW a, a.target \in DOMAIN w.services
  PROVE  Touched(w, MutateAction(w, a))
<1>1. a.target \in DOMAIN Catalog /\ ServicesOK(w.services)
  BY DEF FabricOK, ServicesOK
<1>2. Touched(w, w)
  BY DEF Touched
<1>3. ASSUME NEW x PROVE Touched(w, [w EXCEPT !.services[a.target].capacity = x])
  <2> DEFINE f == [w.services EXCEPT ![a.target].capacity = x]
  <2>1. ServicesOK(f) /\ \A t \in DOMAIN Catalog : f[t].version = w.services[t].version
    BY <1>1 DEF ServicesOK, ServiceFields
  <2>2. [w EXCEPT !.services[a.target].capacity = x] = [w EXCEPT !.services = f]
    OBVIOUS
  <2> HIDE DEF f
  <2> QED BY <2>1, <2>2, ServiceChanged
<1>4. Touched(w, [w EXCEPT !.services[a.target].restarts = @ + 1])
  <2> DEFINE f == [w.services EXCEPT ![a.target].restarts = @ + 1]
  <2>1. ServicesOK(f) /\ \A t \in DOMAIN Catalog : f[t].version = w.services[t].version
    BY <1>1 DEF ServicesOK, ServiceFields
  <2>2. [w EXCEPT !.services[a.target].restarts = @ + 1] = [w EXCEPT !.services = f]
    OBVIOUS
  <2> HIDE DEF f
  <2> QED BY <2>1, <2>2, ServiceChanged
<1>5. ASSUME NEW d, NEW x PROVE Touched(w, [w EXCEPT !.dependencies[d] = x])
  <2>1. [w EXCEPT !.dependencies[d] = x]
          = [w EXCEPT !.dependencies = [w.dependencies EXCEPT ![d] = x]]
    OBVIOUS
  <2> QED BY <2>1, DependenciesTouched
<1>6. ASSUME NEW k, NEW x PROVE Touched(w, SetConfig(w, a.target, k, x))
  BY SetConfigTouches
<1>7. ASSUME NEW z PROVE Touched(w, Rollback(w, a.target, z))
  BY <1>1, RollbackTouches
<1>8. CASE a.type = "rollback_deploy"
  BY <1>7, <1>8 DEF MutateAction
<1>9. CASE a.type = "set_config"
  BY <1>6, <1>9 DEF MutateAction
<1>10. CASE a.type = "restart_service"
  BY <1>4, <1>10 DEF MutateAction
<1>11. CASE a.type = "failover_dependency"
  BY <1>5, <1>11 DEF MutateAction
<1>12. CASE a.type = "scale_service"
  BY <1>3, <1>12 DEF MutateAction
<1>13. CASE a.type = "throttle_traffic"
  BY <1>6, <1>13 DEF MutateAction
<1>14. CASE a.type \notin {"rollback_deploy", "set_config", "restart_service",
                           "failover_dependency", "scale_service", "throttle_traffic"}
  BY <1>2, <1>14 DEF MutateAction
<1> QED BY <1>8, <1>9, <1>10, <1>11, <1>12, <1>13, <1>14

----------------------------------------------------------------------------
(* Injection.                                                              *)

LEMMA DegradedTouches ==
  ASSUME NEW w, FabricOK(w), NEW i
  PROVE  Touched(w, Degraded(w, i))
  BY UnhealthyTouches DEF Degraded

\* Every family's fault is a change of the fabric and one opened incident.
Faulted(w, v, i) == \E u, kind : Touched(w, u) /\ v = OpenIncident(u, i, kind)

LEMMA BadDeployFaults ==
  ASSUME NEW w, FabricOK(w), NEW i \in Scenario
  PROVE  Faulted(w, InjectBadDeploy(w, i), i)
<1> DEFINE s == Fault[i].service
           d == Degraded(w, i)
           bad == [d EXCEPT !.services[s].stable = w.services[s].version,
                            !.services[s].version = Fault[i].version,
                            !.deployments = Append(@, [service |-> s,
                                                       version |-> Fault[i].version,
                                                       action |-> "deploy",
                                                       rolled_back |-> FALSE])]
<1>1. InjectBadDeploy(w, i) = OpenIncident(bad, i, "error_rate")
  BY DEF InjectBadDeploy
<1>2. Touched(w, d) /\ FabricOK(d)
  BY DegradedTouches DEF Touched
<1>3. s \in DOMAIN Catalog
  BY ConductorAssumption
<1>4. Touched(d, bad)
  <2> HIDE DEF d, s
  <2> QED BY <1>2, <1>3, BadDeployTouches
<1> HIDE DEF d, bad
<1>5. Touched(w, bad)
  BY <1>2, <1>4, TouchedTwice
<1> QED BY <1>1, <1>5 DEF Faulted

LEMMA MigrationFaults ==
  ASSUME NEW w, FabricOK(w), NEW i
  PROVE  /\ Faulted(w, InjectConfigRegression(w, i), i)
         /\ Faulted(w, InjectPoolDriverMigration(w, i), i)
         /\ Faulted(w, InjectCacheTopologyMigration(w, i), i)
<1> DEFINE s == Fault[i].service
<1>1. Faulted(w, InjectConfigRegression(w, i), i)
  <2> DEFINE c == SetConfig(w, s, Fault[i].key, Fault[i].value)
             u == Unhealthy(c, s, "degraded")
  <2>1. Touched(w, c) /\ FabricOK(c)
    BY SetConfigTouches DEF Touched
  <2> HIDE DEF c
  <2>2. Touched(w, u)
    BY <2>1, UnhealthyTouches, TouchedTwice
  <2>3. InjectConfigRegression(w, i) = OpenIncident(u, i, "error_rate")
    BY DEF InjectConfigRegression, c
  <2> HIDE DEF u
  <2> QED BY <2>2, <2>3 DEF Faulted
<1>2. Faulted(w, InjectPoolDriverMigration(w, i), i)
  <2> DEFINE d == Degraded(w, i)
             c == SetConfig(d, s, "pool_driver", "multiplexed")
             u == IF Fault[i].migrated THEN c ELSE d
  <2>1. Touched(w, d) /\ FabricOK(d)
    BY DegradedTouches DEF Touched
  <2>2. Touched(w, c)
    <3> HIDE DEF d
    <3> QED BY <2>1, SetConfigTouches, TouchedTwice
  <2>3. InjectPoolDriverMigration(w, i) = OpenIncident(u, i, "latency")
    BY DEF InjectPoolDriverMigration
  <2> HIDE DEF c, d
  <2>4. Touched(w, u)
    BY <2>1, <2>2
  <2> HIDE DEF u
  <2> QED BY <2>3, <2>4 DEF Faulted
<1>3. Faulted(w, InjectCacheTopologyMigration(w, i), i)
  <2> DEFINE c == SetConfig(w, s, "cache_failover_target", "cache-managed-primary")
             d == Unhealthy(c, "cache-onprem-replica", "down")
             v == IF Fault[i].migrated THEN d ELSE w
             u == BreakDependency(v, i)
  <2>1. Touched(w, c) /\ FabricOK(c)
    BY SetConfigTouches DEF Touched
  <2>2. Touched(w, d)
    <3> HIDE DEF c
    <3> QED BY <2>1, UnhealthyTouches, TouchedTwice
  <2>3. Touched(w, v) /\ FabricOK(v)
    <3> HIDE DEF d
    <3>1. Touched(w, w)
      BY DEF Touched
    <3>2. Touched(w, v)
      BY <2>2, <3>1
    <3> HIDE DEF v
    <3> QED BY <3>2 DEF Touched
  <2>4. Touched(w, u)
    <3> HIDE DEF v
    <3> QED BY <2>3, BreakDependencyTouches, TouchedTwice
  <2>5. InjectCacheTopologyMigration(w, i) = OpenIncident(u, i, "availability")
    BY DEF InjectCacheTopologyMigration
  <2> HIDE DEF u
  <2> QED BY <2>4, <2>5 DEF Faulted
<1> QED BY <1>1, <1>2, <1>3

LEMMA PlainFaults ==
  ASSUME NEW w, FabricOK(w), NEW i
  PROVE  /\ Faulted(w, InjectPoolExhaustion(w, i), i)
         /\ Faulted(w, InjectTrafficSaturation(w, i), i)
         /\ Faulted(w, InjectRetryStorm(w, i), i)
         /\ Faulted(w, InjectMemoryLeak(w, i), i)
         /\ Faulted(w, InjectNovel(w, i), i)
         /\ Faulted(w, InjectCacheOutage(w, i), i)
         /\ Faulted(w, InjectDatastoreFailover(w, i), i)
         /\ Faulted(w, InjectPaymentProviderOutage(w, i), i)
<1>1. ASSUME NEW kind PROVE Faulted(w, OpenIncident(Degraded(w, i), i, kind), i)
  BY DegradedTouches DEF Faulted
<1>2. ASSUME NEW kind PROVE Faulted(w, OpenIncident(BreakDependency(w, i), i, kind), i)
  BY BreakDependencyTouches DEF Faulted
<1> QED BY <1>1, <1>2 DEF InjectPoolExhaustion, InjectTrafficSaturation, InjectRetryStorm,
           InjectMemoryLeak, InjectNovel, InjectCacheOutage, InjectDatastoreFailover,
           InjectPaymentProviderOutage

\* at is w when its clock has moved on to the schedule of the incident.
Waited(w, at) ==
  /\ FabricOK(at) /\ at.now >= w.now /\ at.breaching = w.breaching
  /\ at.incidents = w.incidents /\ at.orders = w.orders /\ at.actions = w.actions

\* inject_next, from the instant the incident opens at.
LEMMA InjectFaults ==
  ASSUME NEW w, FabricOK(w), NEW i \in Scenario
  PROVE  \E at : Waited(w, at) /\ Faulted(at, InjectNext(w, i), i)
<1> DEFINE at == IF w.now >= Fault[i].inject_at THEN w
                 ELSE [w EXCEPT !.now = Fault[i].inject_at]
           family == Fault[i].family
<1>1. /\ FabricOK(at) /\ at.now >= w.now /\ at.breaching = w.breaching
      /\ at.incidents = w.incidents /\ at.orders = w.orders /\ at.actions = w.actions
  <2>1. w.now \in Nat /\ Fault[i].inject_at \in Nat /\ DOMAIN w = WorldFields
    BY ConductorAssumption DEF FabricOK
  <2>2. CASE w.now >= Fault[i].inject_at
    BY <2>1, <2>2
  <2>3. CASE ~(w.now >= Fault[i].inject_at)
    <3> DEFINE v == [w EXCEPT !.now = Fault[i].inject_at]
    <3>1. /\ DOMAIN v = WorldFields /\ v.services = w.services /\ v.configs = w.configs
          /\ v.now = Fault[i].inject_at /\ v.breaching = w.breaching
          /\ v.incidents = w.incidents /\ v.orders = w.orders /\ v.actions = w.actions
          /\ v.deployments = w.deployments
      BY <2>1 DEF WorldFields
    <3>2. at = v
      BY <2>3
    <3> HIDE DEF v, at
    <3>3. FabricOK(v) /\ v.now >= w.now
      BY <2>1, <2>3, <3>1 DEF FabricOK
    <3> QED BY <3>1, <3>2, <3>3
  <2> QED BY <2>2, <2>3
<1>2. family \in Family
  BY ConductorAssumption
<1>3. InjectNext(w, i) =
        CASE family = "F1_BAD_DEPLOY" -> InjectBadDeploy(at, i)
          [] family = "F2_POOL_EXHAUSTION" -> InjectPoolExhaustion(at, i)
          [] family = "F3_CACHE_OUTAGE" -> InjectCacheOutage(at, i)
          [] family = "F4_TRAFFIC_SATURATION" -> InjectTrafficSaturation(at, i)
          [] family = "F5_RETRY_STORM" -> InjectRetryStorm(at, i)
          [] family = "F6_MEMORY_LEAK" -> InjectMemoryLeak(at, i)
          [] family = "F7_CONFIG_REGRESSION" -> InjectConfigRegression(at, i)
          [] family = "F8_DATASTORE_FAILOVER" -> InjectDatastoreFailover(at, i)
          [] family = "F9_PAYMENT_PROVIDER_OUTAGE" -> InjectPaymentProviderOutage(at, i)
          [] family = "F10_NOVEL" -> InjectNovel(at, i)
          [] family = "F11_POOL_DRIVER_MIGRATION" -> InjectPoolDriverMigration(at, i)
          [] family = "F12_CACHE_TOPOLOGY_MIGRATION" -> InjectCacheTopologyMigration(at, i)
  BY DEF InjectNext
<1> HIDE DEF at, family
<1>4. Faulted(at, InjectNext(w, i), i)
  BY <1>1, <1>2, <1>3, BadDeployFaults, MigrationFaults, PlainFaults DEF Family
<1> QED BY <1>1, <1>4 DEF Waited

----------------------------------------------------------------------------
(* Incidents.                                                              *)

IncidentFields == {"status", "step", "opened_at", "mttr", "slo", "cleared_at"}

\* What holds of an opened incident i at an instant.
IncidentOK(i, r, now) ==
  /\ DOMAIN r = IncidentFields
  /\ r.status \in IncidentStatus
  /\ r.step \in 0..Len(Required(i))
  /\ r.opened_at \in Nat /\ r.opened_at <= now
  /\ r.status = "resolved" => r.mttr \in Nat /\ r.cleared_at \in Nat
  /\ r.status # "resolved" =>
       r.mttr = Null /\ r.cleared_at = Null /\ r.step < Len(Required(i))

Visible(w, i) == <<Fault[i].service, w.incidents[i].slo>> \in w.breaching

WorldOK(w) ==
  /\ FabricOK(w)
  /\ DOMAIN w.incidents = Scenario
  /\ \A i \in Scenario : w.incidents[i] # Null => IncidentOK(i, w.incidents[i], w.now)
  /\ w.orders \in [Scenario -> Nat]
  /\ IsList(w.actions)

\* Time that passes does an incident no harm.
LEMMA IncidentAges ==
  ASSUME NEW i \in Scenario, NEW r, NEW now \in Nat, NEW then \in Nat, now <= then,
         IncidentOK(i, r, now)
  PROVE  IncidentOK(i, r, then)
  BY DEF IncidentOK

\* The world that opens an incident.
LEMMA OpenWorld ==
  ASSUME NEW w, WorldOK(w), NEW i \in Scenario, NEW v, NEW at,
         Waited(w, at), Faulted(at, v, i)
  PROVE  /\ WorldOK(v)
         /\ IncidentOK(i, v.incidents[i], v.now)
         /\ v.incidents[i].status = "open" /\ v.incidents[i].step = 0
         /\ v.incidents[i].opened_at = v.now /\ Visible(v, i)
         /\ v.orders = [w.orders EXCEPT ![i] = @ + Fault[i].failed_orders]
<1>1. PICK u, kind : Touched(at, u) /\ v = OpenIncident(u, i, kind)
  BY DEF Faulted
<1> DEFINE r == [status |-> "open", step |-> 0, opened_at |-> u.now,
                 mttr |-> Null, slo |-> kind, cleared_at |-> Null]
<1>2. /\ FabricOK(u) /\ u.now \in Nat /\ w.now \in Nat /\ u.now >= w.now
      /\ u.incidents = w.incidents
      /\ u.orders = w.orders /\ u.actions = w.actions /\ DOMAIN u = WorldFields
  BY <1>1 DEF Touched, FabricOK, WorldOK, Waited
<1>3. v = [u EXCEPT !.incidents = [u.incidents EXCEPT ![i] = r],
                    !.breaching = u.breaching \cup {<<Fault[i].service, kind>>},
                    !.orders = [u.orders EXCEPT ![i] = @ + Fault[i].failed_orders]]
  BY <1>1 DEF OpenIncident
<1> HIDE DEF r
<1>4. /\ DOMAIN v = WorldFields /\ v.services = u.services /\ v.configs = u.configs
      /\ v.now = u.now /\ v.deployments = u.deployments /\ v.actions = u.actions
      /\ v.incidents = [w.incidents EXCEPT ![i] = r]
      /\ v.breaching = u.breaching \cup {<<Fault[i].service, kind>>}
      /\ v.orders = [w.orders EXCEPT ![i] = @ + Fault[i].failed_orders]
  BY <1>2, <1>3 DEF WorldFields
<1>5. /\ DOMAIN r = IncidentFields /\ r.status = "open" /\ r.step = 0
      /\ r.opened_at = u.now /\ r.mttr = Null /\ r.slo = kind /\ r.cleared_at = Null
  BY DEF r, IncidentFields
<1>6. Len(Required(i)) \in Nat \ {0} /\ Fault[i].failed_orders \in Nat
  BY ConductorAssumption
<1>7. v.incidents[i] = r /\ DOMAIN v.incidents = Scenario
  BY <1>4 DEF WorldOK
<1>8. IncidentOK(i, r, v.now)
  BY <1>2, <1>4, <1>5, <1>6 DEF IncidentOK, IncidentStatus
<1>9. FabricOK(v)
  BY <1>2, <1>4 DEF FabricOK
<1>10. ASSUME NEW j \in Scenario, v.incidents[j] # Null
       PROVE  IncidentOK(j, v.incidents[j], v.now)
  <2>1. CASE j = i
    BY <1>7, <1>8, <2>1
  <2>2. CASE j # i
    <3>1. v.incidents[j] = w.incidents[j] /\ v.now >= w.now /\ v.now \in Nat
      BY <1>2, <1>4, <2>2 DEF WorldOK
    <3> QED BY <1>2, <1>10, <3>1, IncidentAges DEF WorldOK
  <2> QED BY <2>1, <2>2
<1>11. WorldOK(v)
  BY <1>2, <1>4, <1>6, <1>7, <1>9, <1>10 DEF WorldOK
<1>12. Visible(v, i)
  BY <1>4, <1>5, <1>7 DEF Visible
<1> QED BY <1>4, <1>5, <1>7, <1>8, <1>11, <1>12

\* Time passes for the whole world.
LEMMA WorldAges ==
  ASSUME NEW w, WorldOK(w), NEW t \in Nat
  PROVE  LET v == AdvanceTime(w, t) IN
         /\ WorldOK(v) /\ v.now = w.now + t /\ v.incidents = w.incidents
         /\ v.orders = w.orders /\ v.breaching = w.breaching
<1> DEFINE v == AdvanceTime(w, t)
<1>1. DOMAIN w = WorldFields /\ w.now \in Nat
  BY DEF WorldOK, FabricOK
<1>2. v = [w EXCEPT !.now = w.now + t]
  BY DEF AdvanceTime
<1>3. /\ DOMAIN v = WorldFields /\ v.services = w.services /\ v.configs = w.configs
      /\ v.now = w.now + t /\ v.deployments = w.deployments /\ v.actions = w.actions
      /\ v.incidents = w.incidents /\ v.breaching = w.breaching /\ v.orders = w.orders
  BY <1>1, <1>2 DEF WorldFields
<1> HIDE DEF v
<1>4. FabricOK(v) /\ v.now \in Nat /\ w.now <= v.now
  BY <1>1, <1>3 DEF WorldOK, FabricOK
<1>5. \A j \in Scenario : v.incidents[j] # Null => IncidentOK(j, v.incidents[j], v.now)
  BY <1>1, <1>3, <1>4, IncidentAges DEF WorldOK
<1>6. WorldOK(v)
  BY <1>3, <1>4, <1>5 DEF WorldOK
<1> QED BY <1>3, <1>6 DEF v

\* The action is the required next step of the incident.
Hit(w, i, a) == Matches(w, i, Required(i)[w.incidents[i].step + 1], a)

Outcome(w, i, a) == IF Hit(w, i, a) THEN "success" ELSE "no_effect"

Takes(w, i, a) == IF Hit(w, i, a) THEN OracleFor(i).action_seconds
                                  ELSE OracleFor(i).wrong_action_penalty_seconds

\* The world after the action is executed, timed, judged and logged.
Logged(w, i, a, v) ==
  /\ FabricOK(v) /\ v.now = w.now + Takes(w, i, a) /\ v.breaching = w.breaching
  /\ v.actions = Append(w.actions, [incident |-> i, action |-> a,
                                    outcome |-> Outcome(w, i, a)])
  /\ IF Hit(w, i, a)
       THEN /\ v.incidents = [w.incidents EXCEPT ![i] =
                                [@ EXCEPT !.step = w.incidents[i].step + 1,
                                          !.status = "mitigating"]]
            /\ v.orders = w.orders
       ELSE /\ v.incidents = w.incidents
            /\ v.orders = [w.orders EXCEPT ![i] = @ + 2]

\* apply_action is that, and _resolve after the last required step.
LEMMA ApplyLogs ==
  ASSUME NEW w, WorldOK(w), NEW i \in Scenario, NEW a, a.target \in DOMAIN w.services
  PROVE  \E v : /\ Logged(w, i, a, v)
                /\ ApplyAction(w, i, a) =
                     IF v.incidents[i].step = Len(Required(i)) THEN Resolve(v, i) ELSE v
<1> DEFINE step == w.incidents[i].step
           m == MutateAction(w, a)
           acted == AdvanceTime(m, Takes(w, i, a))
           judged == IF Hit(w, i, a)
                       THEN [acted EXCEPT !.incidents[i] = [@ EXCEPT !.step = step + 1,
                                                                    !.status = "mitigating"]]
                       ELSE AddFailedOrders(acted, i)
           entry == [incident |-> i, action |-> a, outcome |-> Outcome(w, i, a)]
           logged == [judged EXCEPT !.actions = Append(@, entry)]
<1>1. ApplyAction(w, i, a) =
        IF logged.incidents[i].step = Len(Required(i)) THEN Resolve(logged, i) ELSE logged
  BY DEF ApplyAction, Hit, Takes, Outcome
<1>2. Touched(w, m) /\ DOMAIN m = WorldFields /\ m.now \in Nat
  BY MutateTouches DEF WorldOK, Touched, FabricOK
<1>3. Takes(w, i, a) \in Nat
  BY ConductorAssumption DEF Takes
<1>4. acted = [m EXCEPT !.now = m.now + Takes(w, i, a)]
  BY DEF AdvanceTime
<1> HIDE DEF m
<1>5. /\ DOMAIN acted = WorldFields /\ acted.services = m.services
      /\ acted.configs = m.configs /\ acted.now = w.now + Takes(w, i, a)
      /\ acted.deployments = m.deployments /\ acted.actions = w.actions
      /\ acted.incidents = w.incidents /\ acted.breaching = w.breaching
      /\ acted.orders = w.orders
  BY <1>2, <1>4 DEF WorldFields, Touched
<1>6. FabricOK(acted)
  BY <1>2, <1>3, <1>5 DEF Touched, FabricOK
<1> HIDE DEF acted
<1>7. /\ FabricOK(judged) /\ judged.now = acted.now /\ judged.breaching = acted.breaching
      /\ judged.actions = acted.actions
      /\ IF Hit(w, i, a)
           THEN /\ judged.incidents = [acted.incidents EXCEPT ![i] =
                                         [@ EXCEPT !.step = step + 1,
                                                   !.status = "mitigating"]]
                /\ judged.orders = acted.orders
           ELSE /\ judged.incidents = acted.incidents
                /\ judged.orders = [acted.orders EXCEPT ![i] = @ + 2]
  <2>1. CASE Hit(w, i, a)
    <3> DEFINE f == [acted.incidents EXCEPT ![i] = [@ EXCEPT !.step = step + 1,
                                                             !.status = "mitigating"]]
               v == [acted EXCEPT !.incidents = f]
    <3>1. judged = v
      BY <2>1
    <3> HIDE DEF f, judged
    <3>2. /\ DOMAIN v = WorldFields /\ v.services = acted.services
          /\ v.configs = acted.configs /\ v.now = acted.now
          /\ v.deployments = acted.deployments /\ v.actions = acted.actions
          /\ v.incidents = f /\ v.breaching = acted.breaching /\ v.orders = acted.orders
      BY <1>5 DEF WorldFields
    <3> HIDE DEF v
    <3>3. FabricOK(v)
      BY <1>6, <3>2 DEF FabricOK
    <3> QED BY <2>1, <3>1, <3>2, <3>3 DEF f
  <2>2. CASE ~Hit(w, i, a)
    <3> DEFINE f == [acted.orders EXCEPT ![i] = @ + 2]
               v == [acted EXCEPT !.orders = f]
    <3>1. judged = v
      BY <2>2 DEF AddFailedOrders
    <3> HIDE DEF f, judged
    <3>2. /\ DOMAIN v = WorldFields /\ v.services = acted.services
          /\ v.configs = acted.configs /\ v.now = acted.now
          /\ v.deployments = acted.deployments /\ v.actions = acted.actions
          /\ v.incidents = acted.incidents /\ v.breaching = acted.breaching /\ v.orders = f
      BY <1>5 DEF WorldFields
    <3> HIDE DEF v
    <3>3. FabricOK(v)
      BY <1>6, <3>2 DEF FabricOK
    <3> QED BY <2>2, <3>1, <3>2, <3>3 DEF f
  <2> QED BY <2>1, <2>2
<1> HIDE DEF judged, entry
<1>8. /\ DOMAIN logged = WorldFields /\ logged.services = judged.services
      /\ logged.configs = judged.configs /\ logged.now = judged.now
      /\ logged.deployments = judged.deployments
      /\ logged.actions = Append(judged.actions, entry)
      /\ logged.incidents = judged.incidents /\ logged.breaching = judged.breaching
      /\ logged.orders = judged.orders
  BY <1>7 DEF WorldFields, FabricOK
<1> HIDE DEF logged
<1>9. FabricOK(logged)
  BY <1>7, <1>8 DEF FabricOK
<1>10. Logged(w, i, a, logged)
  BY <1>5, <1>7, <1>8, <1>9 DEF Logged, entry
<1> QED BY <1>1, <1>10

\* v is w with incident i resolved.
ResolvedTo(w, i, v) ==
  /\ FabricOK(v) /\ v.now = w.now /\ v.actions = w.actions /\ v.orders = w.orders
  /\ v.incidents = [w.incidents EXCEPT ![i] =
                      [@ EXCEPT !.status = "resolved", !.cleared_at = w.now,
                                !.mttr = (w.now - w.incidents[i].opened_at) \div Second]]
  /\ v.breaching = w.breaching \ {<<Fault[i].service, w.incidents[i].slo>>}

\* _resolve leaves everything but the incident, its service's health and its SLO.
LEMMA ResolveEffect ==
  ASSUME NEW w, FabricOK(w), NEW i PROVE ResolvedTo(w, i, Resolve(w, i))
<1> DEFINE r == [w.incidents[i] EXCEPT
                   !.status = "resolved", !.cleared_at = w.now,
                   !.mttr = (w.now - w.incidents[i].opened_at) \div Second]
           f == [w.incidents EXCEPT ![i] = r]
           b == w.breaching \ {<<Fault[i].service, w.incidents[i].slo>>}
           g == [w.services EXCEPT ![Fault[i].service].health = "healthy"]
           u == [w EXCEPT !.services = g]
           v == Resolve(w, i)
<1>1. Touched(w, u) /\ DOMAIN u = WorldFields /\ u.services = g /\ DOMAIN w = WorldFields
  <2>1. u = Unhealthy(w, Fault[i].service, "healthy")
    BY DEF Unhealthy
  <2>2. Touched(w, u) /\ DOMAIN w = WorldFields
    BY <2>1, UnhealthyTouches DEF FabricOK
  <2> QED BY <2>2 DEF WorldFields
<1>2. v = [w EXCEPT !.incidents = f, !.services = g, !.breaching = b]
  BY DEF Resolve
<1> HIDE DEF f, g, b, v
<1>3. /\ DOMAIN v = WorldFields /\ v.services = u.services
      /\ v.configs = u.configs /\ v.now = w.now /\ u.now = w.now
      /\ v.deployments = u.deployments /\ v.actions = w.actions
      /\ v.incidents = f /\ v.breaching = b /\ v.orders = w.orders
  BY <1>1, <1>2 DEF WorldFields
<1> HIDE DEF u
<1>4. FabricOK(v)
  BY <1>1, <1>3 DEF Touched, FabricOK
<1> QED BY <1>3, <1>4 DEF ResolvedTo, v, f, b

----------------------------------------------------------------------------
(* The account of an incident: where its time and its orders went.         *)

\* decision latency, required steps taken, penalties of wrong actions.
Elapsed(i, seconds, step, wrong) ==
  seconds + step * OracleFor(i).action_seconds
    + wrong * OracleFor(i).wrong_action_penalty_seconds

Accounted(w, i, seconds, wrong) ==
  LET r == w.incidents[i] IN
  /\ IncidentOK(i, r, w.now)
  /\ w.orders[i] = Fault[i].failed_orders + 2 * wrong
  /\ r.status # "resolved" =>
       Visible(w, i) /\ w.now - r.opened_at = Elapsed(i, seconds, r.step, wrong)
  /\ r.status = "resolved" =>
       Elapsed(i, seconds, Len(Required(i)), wrong) - r.mttr * Second \in 0..(Second - 1)

LEMMA Times ==
  ASSUME NEW m \in Nat, NEW n \in Nat
  PROVE  m * n \in Nat /\ (m + 1) * n = m * n + n /\ 0 * n = 0
  OBVIOUS

LEMMA ElapsedGrows ==
  ASSUME NEW i \in Scenario, NEW seconds \in Nat, NEW step \in Nat, NEW wrong \in Nat
  PROVE  /\ Elapsed(i, seconds, step, wrong) \in Nat
         /\ Elapsed(i, seconds, step + 1, wrong)
              = Elapsed(i, seconds, step, wrong) + OracleFor(i).action_seconds
         /\ Elapsed(i, seconds, step, wrong + 1)
              = Elapsed(i, seconds, step, wrong) + OracleFor(i).wrong_action_penalty_seconds
<1> DEFINE A == OracleFor(i).action_seconds
           P == OracleFor(i).wrong_action_penalty_seconds
<1>1. A \in Nat /\ P \in Nat
  BY ConductorAssumption
<1> HIDE DEF A, P
<1>2. /\ step * A \in Nat /\ (step + 1) * A = step * A + A /\ 0 * A = 0
      /\ wrong * P \in Nat /\ (wrong + 1) * P = wrong * P + P /\ 0 * P = 0
  BY <1>1, Times
<1>3. ASSUME NEW k, NEW l PROVE Elapsed(i, seconds, k, l) = seconds + k * A + l * P
  BY DEF Elapsed, A, P
<1>4. /\ Elapsed(i, seconds, step, wrong) = seconds + step * A + wrong * P
      /\ Elapsed(i, seconds, step + 1, wrong) = seconds + (step * A + A) + wrong * P
      /\ Elapsed(i, seconds, step, wrong + 1) = seconds + step * A + (wrong * P + P)
  BY <1>2, <1>3
<1>5. /\ Elapsed(i, seconds, step, wrong) \in Nat
      /\ Elapsed(i, seconds, step + 1, wrong) = Elapsed(i, seconds, step, wrong) + A
      /\ Elapsed(i, seconds, step, wrong + 1) = Elapsed(i, seconds, step, wrong) + P
  BY <1>1, <1>2, <1>4
<1> QED BY <1>5 DEF A, P

\* MTTR in whole seconds is off by less than one.
LEMMA HalfSeconds ==
  ASSUME NEW n \in Nat
  PROVE  n \div Second \in Nat /\ n - (n \div Second) * Second \in 0..(Second - 1)
  BY DEF Second

\* The incident after the action, before it may be resolved.
LEMMA LoggedAccounts ==
  ASSUME NEW w, WorldOK(w), NEW i \in Scenario, NEW a, NEW v, Logged(w, i, a, v),
         NEW seconds \in Nat, NEW wrong \in Nat, Accounted(w, i, seconds, wrong),
         w.incidents[i].status # "resolved"
  PROVE  LET r == v.incidents[i]
             now_wrong == IF Hit(w, i, a) THEN wrong ELSE wrong + 1
         IN /\ DOMAIN r = IncidentFields /\ r.status \in {"open", "mitigating"}
            /\ r.step \in 0..Len(Required(i)) /\ r.opened_at \in Nat
            /\ r.opened_at <= v.now /\ r.mttr = Null /\ r.cleared_at = Null
            /\ Visible(v, i) /\ v.now \in Nat
            /\ v.now - r.opened_at = Elapsed(i, seconds, r.step, now_wrong)
            /\ v.orders[i] = Fault[i].failed_orders + 2 * now_wrong
            /\ v.orders \in [Scenario -> Nat]
            /\ DOMAIN v.incidents = Scenario
            /\ \A j \in Scenario : j # i => /\ v.incidents[j] = w.incidents[j]
                                            /\ v.orders[j] = w.orders[j]
<1> DEFINE r == w.incidents[i]
           s == v.incidents[i]
           A == OracleFor(i).action_seconds
           P == OracleFor(i).wrong_action_penalty_seconds
<1>1. /\ A \in Nat /\ P \in Nat /\ Len(Required(i)) \in Nat /\ Fault[i].failed_orders \in Nat
      /\ Null \notin Nat
  BY ConductorAssumption
<1>2. /\ w.now \in Nat /\ DOMAIN w.incidents = Scenario /\ w.orders \in [Scenario -> Nat]
  BY DEF WorldOK, FabricOK
<1>3. /\ DOMAIN r = IncidentFields /\ r.status \in {"open", "mitigating"}
      /\ r.step \in Nat /\ r.step < Len(Required(i))
      /\ r.opened_at \in Nat /\ r.opened_at <= w.now /\ r.mttr = Null /\ r.cleared_at = Null
      /\ <<Fault[i].service, r.slo>> \in w.breaching
      /\ w.now - r.opened_at = Elapsed(i, seconds, r.step, wrong)
      /\ w.orders[i] = Fault[i].failed_orders + 2 * wrong
  BY <1>1 DEF Accounted, IncidentOK, Visible, IncidentStatus
<1>4. /\ Elapsed(i, seconds, r.step, wrong) \in Nat
      /\ Elapsed(i, seconds, r.step + 1, wrong) = Elapsed(i, seconds, r.step, wrong) + A
      /\ Elapsed(i, seconds, r.step, wrong + 1) = Elapsed(i, seconds, r.step, wrong) + P
  <2>1. r.step \in Nat
    BY <1>3
  <2>2. ASSUME NEW k \in Nat
        PROVE  /\ Elapsed(i, seconds, k, wrong) \in Nat
               /\ Elapsed(i, seconds, k + 1, wrong) = Elapsed(i, seconds, k, wrong) + A
               /\ Elapsed(i, seconds, k, wrong + 1) = Elapsed(i, seconds, k, wrong) + P
    <3>1. i \in Scenario /\ seconds \in Nat /\ wrong \in Nat /\ k \in Nat
      OBVIOUS
    <3> HIDE DEF A, P, r, s
    <3>2. /\ Elapsed(i, seconds, k, wrong) \in Nat
          /\ Elapsed(i, seconds, k + 1, wrong)
               = Elapsed(i, seconds, k, wrong) + OracleFor(i).action_seconds
          /\ Elapsed(i, seconds, k, wrong + 1)
               = Elapsed(i, seconds, k, wrong) + OracleFor(i).wrong_action_penalty_seconds
      BY <3>1, ElapsedGrows
    <3> QED BY <3>2 DEF A, P
  <2> HIDE DEF r, A, P
  <2> QED BY <2>1, <2>2
<1>5. CASE Hit(w, i, a)
  <2>1. /\ v.now = w.now + A /\ v.breaching = w.breaching /\ v.orders = w.orders
        /\ v.incidents = [w.incidents EXCEPT ![i] = [r EXCEPT !.step = r.step + 1,
                                                              !.status = "mitigating"]]
    BY <1>5 DEF Logged, Takes
  <2>2. s = [r EXCEPT !.step = r.step + 1, !.status = "mitigating"]
    BY <1>2, <2>1
  <2>3. /\ DOMAIN v.incidents = Scenario
        /\ \A j \in Scenario : j # i => v.incidents[j] = w.incidents[j]
    BY <1>2, <2>1
  <2> HIDE DEF r, s, A, P
  <2>4. /\ DOMAIN s = IncidentFields /\ s.status = "mitigating" /\ s.step = r.step + 1
        /\ s.opened_at = r.opened_at /\ s.mttr = Null /\ s.cleared_at = Null
        /\ s.slo = r.slo
    BY <1>3, <2>2 DEF IncidentFields
  <2>5. s.step \in 0..Len(Required(i)) /\ s.opened_at <= v.now /\ v.now \in Nat
    <3>1. v.now \in Nat /\ w.now <= v.now
      BY <1>1, <1>2, <2>1
    <3>2. r.opened_at <= v.now
      BY <1>2, <1>3, <3>1
    <3>3. r.step + 1 \in 0..Len(Required(i))
      BY <1>1, <1>3
    <3> QED BY <2>4, <3>1, <3>2, <3>3
  <2>6. v.now - s.opened_at = Elapsed(i, seconds, s.step, wrong)
    <3> DEFINE E == Elapsed(i, seconds, r.step, wrong)
    <3>1. /\ E \in Nat /\ w.now - r.opened_at = E /\ v.now = w.now + A
          /\ w.now \in Nat /\ r.opened_at \in Nat /\ A \in Nat
      BY <1>1, <1>2, <1>3, <1>4, <2>1
    <3> HIDE DEF E
    <3>2. v.now - r.opened_at = E + A
      BY <3>1
    <3> QED BY <1>4, <2>4, <3>2 DEF E
  <2>7. <<Fault[i].service, s.slo>> \in v.breaching
    BY <1>3, <2>1, <2>4
  <2> QED BY <1>2, <1>3, <1>5, <2>1, <2>3, <2>4, <2>5, <2>6, <2>7 DEF s, Visible
<1>6. CASE ~Hit(w, i, a)
  <2>1. /\ v.now = w.now + P /\ v.breaching = w.breaching /\ v.incidents = w.incidents
        /\ v.orders = [w.orders EXCEPT ![i] = @ + 2]
    BY <1>6 DEF Logged, Takes
  <2>2. /\ v.orders \in [Scenario -> Nat] /\ v.orders[i] = w.orders[i] + 2
        /\ \A j \in Scenario : j # i => v.orders[j] = w.orders[j]
    BY <1>2, <2>1
  <2>3. s = r
    BY <2>1
  <2> HIDE DEF r, s, A, P
  <2>4. s.step \in 0..Len(Required(i)) /\ s.opened_at <= v.now /\ v.now \in Nat
    <3>1. v.now \in Nat /\ w.now <= v.now
      BY <1>1, <1>2, <2>1
    <3>2. r.opened_at <= v.now
      BY <1>2, <1>3, <3>1
    <3>3. r.step \in 0..Len(Required(i))
      BY <1>1, <1>3
    <3> QED BY <2>3, <3>1, <3>2, <3>3
  <2>5. v.now - s.opened_at = Elapsed(i, seconds, s.step, wrong + 1)
    <3> DEFINE E == Elapsed(i, seconds, r.step, wrong)
    <3>1. /\ E \in Nat /\ w.now - r.opened_at = E /\ v.now = w.now + P
          /\ w.now \in Nat /\ r.opened_at \in Nat /\ P \in Nat
      BY <1>1, <1>2, <1>3, <1>4, <2>1
    <3> HIDE DEF E
    <3>2. v.now - r.opened_at = E + P
      BY <3>1
    <3> QED BY <1>4, <2>3, <3>2 DEF E
  <2>6. v.orders[i] = Fault[i].failed_orders + 2 * (wrong + 1)
    BY <1>1, <1>3, <2>2
  <2>7. <<Fault[i].service, s.slo>> \in v.breaching
    BY <1>3, <2>1, <2>3
  <2> QED BY <1>2, <1>3, <1>6, <2>1, <2>2, <2>3, <2>4, <2>5, <2>6, <2>7 DEF s, Visible
<1> QED BY <1>5, <1>6

LEMMA ElapsedStarts ==
  ASSUME NEW i \in Scenario, NEW seconds \in Nat PROVE Elapsed(i, seconds, 0, 0) = seconds
<1>1. OracleFor(i).action_seconds \in Nat /\ OracleFor(i).wrong_action_penalty_seconds \in Nat
  BY ConductorAssumption
<1>2. /\ 0 * OracleFor(i).action_seconds = 0
      /\ 0 * OracleFor(i).wrong_action_penalty_seconds = 0
  BY <1>1, Times
<1> QED BY <1>2 DEF Elapsed

\* apply_action keeps the account, whether it ends the incident or not.
LEMMA ApplyAccounts ==
  ASSUME NEW w, WorldOK(w), NEW i \in Scenario, NEW a, a.target \in DOMAIN w.services,
         NEW seconds \in Nat, NEW wrong \in Nat, Accounted(w, i, seconds, wrong),
         w.incidents[i].status # "resolved"
  PROVE  LET v == ApplyAction(w, i, a) IN
         /\ WorldOK(v)
         /\ Accounted(v, i, seconds, IF Hit(w, i, a) THEN wrong ELSE wrong + 1)
         /\ Last(v.actions).outcome = Outcome(w, i, a)
         /\ \A j \in Scenario : j # i => v.orders[j] = w.orders[j]
<1> DEFINE v == ApplyAction(w, i, a)
           n == IF Hit(w, i, a) THEN wrong ELSE wrong + 1
           last == Len(Required(i))
<1>1. PICK u : /\ Logged(w, i, a, u)
               /\ v = IF u.incidents[i].step = last THEN Resolve(u, i) ELSE u
  BY ApplyLogs
<1> DEFINE r == u.incidents[i]
<1>2. /\ DOMAIN r = IncidentFields /\ r.status \in {"open", "mitigating"}
      /\ r.step \in 0..last /\ r.opened_at \in Nat
      /\ r.opened_at <= u.now /\ r.mttr = Null /\ r.cleared_at = Null
      /\ Visible(u, i) /\ u.now \in Nat
      /\ u.now - r.opened_at = Elapsed(i, seconds, r.step, n)
      /\ u.orders[i] = Fault[i].failed_orders + 2 * n
      /\ u.orders \in [Scenario -> Nat]
      /\ DOMAIN u.incidents = Scenario
      /\ \A j \in Scenario : j # i => /\ u.incidents[j] = w.incidents[j]
                                      /\ u.orders[j] = w.orders[j]
  BY <1>1, LoggedAccounts
<1>3. /\ FabricOK(u) /\ w.now \in Nat /\ w.now <= u.now /\ last \in Nat /\ n \in Nat
      /\ Null \notin Nat
  <2>1. Takes(w, i, a) \in Nat /\ w.now \in Nat /\ u.now = w.now + Takes(w, i, a)
    BY <1>1, ConductorAssumption DEF Takes, WorldOK, FabricOK, Logged
  <2>2. FabricOK(u) /\ last \in Nat /\ n \in Nat /\ Null \notin Nat
    BY <1>1, ConductorAssumption DEF Logged
  <2> QED BY <2>1, <2>2
<1>4. IsList(u.actions) /\ Last(u.actions).outcome = Outcome(w, i, a)
  <2> DEFINE e == [incident |-> i, action |-> a, outcome |-> Outcome(w, i, a)]
  <2>1. u.actions = Append(w.actions, e) /\ IsList(w.actions)
    BY <1>1 DEF Logged, WorldOK
  <2>2. e.outcome = Outcome(w, i, a)
    OBVIOUS
  <2> HIDE DEF e
  <2>3. /\ IsList(u.actions) /\ Len(u.actions) = Len(w.actions) + 1
        /\ u.actions[Len(w.actions) + 1] = e
    BY <2>1, AppendList
  <2> QED BY <2>2, <2>3 DEF Last
<1> HIDE DEF n
<1>5. ASSUME NEW j \in Scenario, j # i, w.incidents[j] # Null
      PROVE  IncidentOK(j, w.incidents[j], u.now)
  BY <1>2, <1>3, <1>5, IncidentAges DEF WorldOK
<1>6. CASE r.step # last
  <2>1. v = u
    BY <1>1, <1>6
  <2>2. IncidentOK(i, r, u.now)
    <3> HIDE DEF r
    <3>1. r.step < last /\ r.step \in 0..last
      BY <1>2, <1>3, <1>6
    <3>2. r.status \in IncidentStatus /\ r.status # "resolved"
      BY <1>2 DEF IncidentStatus
    <3> QED BY <1>2, <3>1, <3>2 DEF IncidentOK
  <2>3. WorldOK(u)
    <3>1. \A j \in Scenario : u.incidents[j] # Null => IncidentOK(j, u.incidents[j], u.now)
      BY <1>2, <1>5, <2>2
    <3> QED BY <1>2, <1>3, <1>4, <3>1 DEF WorldOK
  <2>4. Accounted(u, i, seconds, n)
    BY <1>2, <2>2 DEF Accounted
  <2> QED BY <1>2, <1>4, <2>1, <2>3, <2>4 DEF n
<1>7. CASE r.step = last
  <2> DEFINE q == (u.now - r.opened_at) \div Second
             s == [r EXCEPT !.status = "resolved", !.cleared_at = u.now, !.mttr = q]
  <2>1. v = Resolve(u, i)
    BY <1>1, <1>7
  <2>2. /\ FabricOK(v) /\ v.now = u.now /\ v.actions = u.actions /\ v.orders = u.orders
        /\ v.incidents = [u.incidents EXCEPT ![i] = s]
    <3>1. ResolvedTo(u, i, v)
      BY <1>3, <2>1, ResolveEffect
    <3> HIDE DEF v
    <3> QED BY <3>1 DEF ResolvedTo
  <2>3. q \in Nat /\ Elapsed(i, seconds, last, n) - q * Second \in 0..(Second - 1)
    <3>1. u.now - r.opened_at \in Nat /\ u.now - r.opened_at = Elapsed(i, seconds, last, n)
      <4> HIDE DEF r
      <4> QED BY <1>2, <1>7
    <3> DEFINE x == u.now - r.opened_at
    <3>2. x \in Nat /\ x = Elapsed(i, seconds, last, n) /\ q = x \div Second
      BY <3>1
    <3> HIDE DEF x, q
    <3>3. x \div Second \in Nat /\ x - (x \div Second) * Second \in 0..(Second - 1)
      BY <3>2, HalfSeconds
    <3> QED BY <3>2, <3>3
  <2>4. /\ v.incidents[i] = s /\ DOMAIN v.incidents = Scenario
        /\ \A j \in Scenario : j # i => v.incidents[j] = w.incidents[j]
    BY <1>2, <2>2
  <2> HIDE DEF q, v
  <2>5. /\ DOMAIN s = IncidentFields /\ s.status = "resolved" /\ s.cleared_at = u.now
        /\ s.mttr = q /\ s.step = r.step /\ s.opened_at = r.opened_at
    <3> HIDE DEF r
    <3> QED BY <1>2 DEF IncidentFields
  <2> HIDE DEF s
  <2>6. IncidentOK(i, s, u.now)
    BY <1>2, <1>3, <2>3, <2>5 DEF IncidentOK, IncidentStatus
  <2>7. WorldOK(v)
    <3>1. \A j \in Scenario : v.incidents[j] # Null => IncidentOK(j, v.incidents[j], u.now)
      BY <1>5, <2>4, <2>6
    <3> QED BY <1>2, <1>4, <2>2, <2>4, <3>1 DEF WorldOK
  <2>8. Accounted(v, i, seconds, n)
    BY <1>2, <2>2, <2>3, <2>4, <2>5, <2>6 DEF Accounted
  <2> QED BY <1>2, <1>4, <2>2, <2>7, <2>8 DEF n, v
<1> QED BY <1>6, <1>7

----------------------------------------------------------------------------
(* The harness.                                                            *)

TrialFields == {"left", "outcomes", "invalid", "seconds", "abstained", "authorized"}

TrialOK(t) ==
  /\ DOMAIN t = TrialFields
  /\ t.invalid \in Nat /\ t.seconds \in Nat
  /\ IsList(t.outcomes)

WrongOf(list) == {n \in DOMAIN list : list[n] = "no_effect"}
Wrong(t) == Cardinality(WrongOf(t.outcomes))

\* The loop: which arm runs, how far it is, what the arms before have recorded.
Control ==
  /\ setup \in Setups
  /\ arm \in 1..Len(Arms)
  /\ pc \in {"inject", "decide", "act", "done", "raised", "unmeasurable"}
  /\ DOMAIN results = 1..2
  /\ \A k \in 1..2 : /\ IsList(results[k])
                     /\ Len(results[k]) <= Len(setup.stream)
                     /\ k < arm => Len(results[k]) = Len(setup.stream)
  /\ pc \in {"decide", "act"} => Remaining
  /\ pc = "done" => arm = Len(Arms) /\ ~Remaining

\* The account of the incident at hand.
AtHand ==
  /\ pc = "decide" => /\ Accounted(world, Incident, 0, 0)
                      /\ world.incidents[Incident].status = "open"
                      /\ world.incidents[Incident].step = 0
  /\ pc = "act" => Accounted(world, Incident, trial.seconds, Wrong(trial))

\* The incidents the arm has not come to have cost no order.
Fresh ==
  pc \in {"inject", "decide", "act"} =>
    \A n \in DOMAIN setup.stream :
      n > Len(results[arm]) + (IF pc = "inject" THEN 0 ELSE 1)
        => world.orders[setup.stream[n]] = 0

\* The account of a recorded incident.
ResultOK(i, r) ==
  /\ r.resolved \in BOOLEAN /\ r.wrong \in Nat /\ r.seconds \in Nat
  /\ r.orders = Fault[i].failed_orders + 2 * r.wrong
  /\ r.resolved = TRUE =>
       /\ r.mttr \in Nat
       /\ Elapsed(i, r.seconds, Len(Required(i)), r.wrong) - r.mttr * Second
            \in 0..(Second - 1)

Recorded ==
  \A k \in 1..2 : \A n \in DOMAIN results[k] : ResultOK(setup.stream[n], results[k][n])

EInv == Control /\ WorldOK(world) /\ TrialOK(trial) /\ AtHand /\ Fresh /\ Recorded

\* A fresh Conductor.
LEMMA LoadedWorldOK ==
  WorldOK(LoadWorld) /\ \A i \in Scenario : LoadWorld.orders[i] = 0
<1> DEFINE w == LoadWorld
           c == [n \in 1..Len(Settings) |->
                   [service |-> Settings[n][1], key |-> Settings[n][2],
                    value |-> Settings[n][3], valid_from |-> 0, valid_to |-> Null]]
           d == [n \in 1..Len(Fleet) |->
                   [service |-> Fleet[n], version |-> Catalog[Fleet[n]].version,
                    action |-> "deploy", rolled_back |-> FALSE]]
           f == [s \in DOMAIN Catalog |->
                   [health |-> "healthy", version |-> Catalog[s].version,
                    stable |-> Catalog[s].stable, capacity |-> Catalog[s].capacity,
                    restarts |-> 0]]
<1>1. /\ DOMAIN w = WorldFields /\ w.now = 0 /\ w.services = f /\ w.configs = c
      /\ w.deployments = d /\ w.incidents = [i \in Scenario |-> Null]
      /\ w.orders = [i \in Scenario |-> 0] /\ w.actions = <<>>
  BY DEF LoadWorld, WorldFields
<1>2. ServicesOK(f) /\ \A s \in DOMAIN Catalog : f[s].version = Catalog[s].version
  BY DEF ServicesOK, ServiceFields
<1>3. Chain(c)
  <2>1. Len(Settings) \in Nat /\ DOMAIN c = 1..Len(Settings)
    BY ConductorAssumption
  <2>2. IsList(c)
    BY <2>1 DEF IsList
  <2>3. ASSUME NEW m \in DOMAIN c
        PROVE  /\ DOMAIN c[m] = RevisionFields /\ c[m].valid_from \in Nat
               /\ c[m].valid_to = Null
               /\ c[m].service = Settings[m][1] /\ c[m].key = Settings[m][2]
    BY <2>1 DEF RevisionFields
  <2> HIDE DEF c
  <2>4. ASSUME NEW m \in DOMAIN c, NEW n \in DOMAIN c PROVE ~FollowedBy(c, m, n)
    BY <2>1, <2>3, ConductorAssumption DEF FollowedBy, SameKey
  <2> QED BY <2>2, <2>3, <2>4 DEF Chain
<1>4. Trail(d, f)
  <2>1. Len(Fleet) \in Nat /\ DOMAIN d = 1..Len(Fleet)
    BY ConductorAssumption
  <2>2. IsList(d)
    BY <2>1 DEF IsList
  <2>3. ASSUME NEW m \in DOMAIN d
        PROVE  /\ DOMAIN d[m] = DeploymentFields /\ d[m].service = Fleet[m]
               /\ d[m].version = Catalog[Fleet[m]].version /\ d[m].rolled_back = FALSE
               /\ Fleet[m] \in DOMAIN Catalog
    <3>1. Fleet[m] \in DOMAIN Catalog
      BY <2>1, ConductorAssumption
    <3>2. d[m] = [service |-> Fleet[m], version |-> Catalog[Fleet[m]].version,
                  action |-> "deploy", rolled_back |-> FALSE]
      BY <2>1
    <3> HIDE DEF d
    <3> QED BY <3>1, <3>2 DEF DeploymentFields
  <2> HIDE DEF d, f
  <2>4. ASSUME NEW m \in DOMAIN d PROVE Entry(d, f, m)
    <3>1. d[m].service \in DOMAIN Catalog /\ DOMAIN d[m] = DeploymentFields
      BY <2>3
    <3>2. d[m].version = f[d[m].service].version
      BY <1>2, <2>3
    <3>3. d[m].rolled_back = FALSE
      BY <2>3
    <3> QED BY <3>1, <3>2, <3>3 DEF Entry
  <2> QED BY <2>2, <2>4 DEF Trail
<1> HIDE DEF c, d, f
<1>5. FabricOK(w)
  BY <1>1, <1>2, <1>3, <1>4 DEF FabricOK
<1>6. IsList(<<>>)
  BY DEF IsList
<1> HIDE DEF w
<1>7. \A i \in Scenario : w.incidents[i] = Null
  BY <1>1
<1>8. w.orders \in [Scenario -> Nat] /\ \A i \in Scenario : w.orders[i] = 0
  BY <1>1
<1>9. WorldOK(w)
  BY <1>1, <1>5, <1>6, <1>7, <1>8 DEF WorldOK
<1> QED BY <1>8, <1>9 DEF w

LEMMA ArmCount ==
  ASSUME setup \in Setups
  PROVE  Len(Arms) \in 1..2 /\ (setup.harness = "agent" => Len(Arms) = 2)
         /\ DOMAIN Arms = 1..Len(Arms)
<1>1. setup.harness \in {"agent", "mechanism", "temporal"}
  BY EvaluationAssumption
<1>2. /\ setup.harness = "agent" => Arms = <<"with_memory", "no_memory">>
      /\ setup.harness = "mechanism" => Arms = <<"with_memory", "competent_baseline">>
      /\ setup.harness = "temporal" => Arms = <<"with_memory">>
  BY DEF Arms
<1>3. \A a, b : Len(<<a, b>>) = 2 /\ DOMAIN <<a, b>> = 1..2
  OBVIOUS
<1>4. \A a : Len(<<a>>) = 1 /\ DOMAIN <<a>> = 1..1
  OBVIOUS
<1> QED BY <1>1, <1>2, <1>3, <1>4

\* The incident an arm works on is a scenario of its stream.
LEMMA IncidentOfStream ==
  ASSUME Control, Remaining
  PROVE  /\ Len(results[arm]) \in Nat /\ arm \in 1..2
         /\ Len(results[arm]) + 1 \in DOMAIN setup.stream
         /\ Incident \in Scenario /\ Incident = setup.stream[Len(results[arm]) + 1]
<1>1. arm \in 1..2
  BY ArmCount DEF Control
<1>2. setup.stream \in Seq(Scenario)
  BY EvaluationAssumption DEF Control
<1>3. Len(results[arm]) \in Nat /\ Len(results[arm]) < Len(setup.stream)
  BY <1>1 DEF Control, IsList, Remaining
<1>4. Len(results[arm]) + 1 \in DOMAIN setup.stream
  BY <1>2, <1>3
<1>5. setup.stream[Len(results[arm]) + 1] \in Scenario
  BY <1>2, <1>4
<1> QED BY <1>1, <1>3, <1>4, <1>5 DEF Incident

\* A wrong action more.
LEMMA WrongGrows ==
  ASSUME NEW list, IsList(list), NEW o, o \in {"success", "no_effect"}
  PROVE  /\ Cardinality(WrongOf(list)) \in Nat /\ Cardinality(WrongOf(<<>>)) = 0
         /\ Cardinality(WrongOf(Append(list, o))) =
              IF o = "success" THEN Cardinality(WrongOf(list))
                               ELSE Cardinality(WrongOf(list)) + 1
<1> DEFINE N == Len(list)
           a == Append(list, o)
<1>1. N \in Nat /\ DOMAIN list = 1..N
  BY DEF IsList
<1>2. DOMAIN a = 1..(N + 1) /\ a[N + 1] = o /\ \A n \in 1..N : a[n] = list[n]
  BY AppendList
<1> HIDE DEF a
<1>3. IsFiniteSet(WrongOf(list)) /\ N + 1 \notin WrongOf(list)
  <2>1. WrongOf(list) \subseteq 1..N
    BY <1>1 DEF WrongOf
  <2>2. IsFiniteSet(1..N)
    BY <1>1, FS_Interval
  <2> QED BY <1>1, <2>1, <2>2, FS_Subset
<1>4. \A n \in 1..(N + 1) : n \in 1..N \/ n = N + 1
  BY <1>1
<1>5. 1..N \subseteq 1..(N + 1) /\ N + 1 \in 1..(N + 1)
  BY <1>1
<1>6. WrongOf(a) = IF o = "success" THEN WrongOf(list) ELSE WrongOf(list) \cup {N + 1}
  BY <1>1, <1>2, <1>4, <1>5 DEF WrongOf
<1>7. Cardinality(WrongOf(list)) \in Nat
  BY <1>3, FS_CardinalityType
<1>8. Cardinality(WrongOf(list) \cup {N + 1}) = Cardinality(WrongOf(list)) + 1
  BY <1>3, FS_AddElement
<1>9. WrongOf(<<>>) = {}
  BY DEF WrongOf
<1>10. Cardinality(WrongOf(<<>>)) = 0
  BY <1>9, FS_EmptySet
<1> QED BY <1>6, <1>7, <1>8, <1>10 DEF a

----------------------------------------------------------------------------
(* The invariant, action by action.                                        *)

LEMMA NoTrialOK ==
  TrialOK(NoTrial) /\ NoTrial.outcomes = <<>>
<1>1. /\ DOMAIN NoTrial = TrialFields /\ NoTrial.invalid = 0 /\ NoTrial.seconds = 0
      /\ NoTrial.outcomes = <<>>
  BY DEF NoTrial, TrialFields
<1>2. IsList(<<>>)
  BY DEF IsList
<1> QED BY <1>1, <1>2 DEF TrialOK

LEMMA EInvInit == Init => EInv
<1> SUFFICES ASSUME Init PROVE EInv
  OBVIOUS
<1>1. setup.stream \in Seq(Scenario) /\ Len(setup.stream) \in Nat
  BY EvaluationAssumption DEF Init
<1>2. /\ DOMAIN results = 1..2 /\ \A k \in 1..2 : results[k] = <<>>
  BY DEF Init
<1>3. IsList(<<>>) /\ Len(<<>>) = 0
  BY DEF IsList
<1>4. Control
  <2>1. arm \in 1..Len(Arms) /\ arm = 1
    BY ArmCount DEF Init
  <2>2. \A k \in 1..2 : /\ IsList(results[k]) /\ Len(results[k]) <= Len(setup.stream)
                        /\ k < arm => Len(results[k]) = Len(setup.stream)
    BY <1>1, <1>2, <1>3, <2>1
  <2> QED BY <1>2, <2>1, <2>2 DEF Init, Control
<1>5. WorldOK(world) /\ \A i \in Scenario : world.orders[i] = 0
  BY LoadedWorldOK DEF Init
<1>6. TrialOK(trial)
  BY NoTrialOK DEF Init
<1>7. Fresh
  BY <1>1, <1>5 DEF Fresh
<1>8. Recorded
  BY <1>2 DEF Recorded
<1>9. AtHand
  BY DEF Init, AtHand
<1> QED BY <1>4, <1>5, <1>6, <1>7, <1>8, <1>9 DEF EInv

\* Steps that leave the loop where it is.
LEMMA ControlFrame ==
  ASSUME Control, setup' = setup, arm' = arm, results' = results,
         pc' \in {"inject", "decide", "act", "raised", "unmeasurable"},
         pc' \in {"decide", "act"} => Remaining
  PROVE  Control'
  BY DEF Control, Remaining, Arms

LEMMA RecordedFrame ==
  ASSUME Recorded, setup' = setup, results' = results PROVE Recorded'
  BY DEF Recorded

LEMMA InjectKeeps ==
  ASSUME EInv, Inject PROVE EInv'
<1> DEFINE i == Incident
           v == InjectNext(world, i)
           N == Len(results[arm])
<1>1. /\ Control /\ WorldOK(world) /\ TrialOK(trial) /\ Fresh /\ Recorded
      /\ Remaining /\ pc = "inject" /\ pc' = "decide" /\ world' = v
      /\ setup' = setup /\ arm' = arm /\ trial' = trial /\ results' = results
  BY DEF EInv, Inject
<1>2. /\ N \in Nat /\ arm \in 1..2 /\ N + 1 \in DOMAIN setup.stream
      /\ i \in Scenario /\ i = setup.stream[N + 1]
  BY <1>1, IncidentOfStream
<1>3. PICK at : Waited(world, at) /\ Faulted(at, v, i)
  BY <1>1, <1>2, InjectFaults DEF WorldOK
<1> HIDE DEF v, i
<1>4. /\ WorldOK(v) /\ IncidentOK(i, v.incidents[i], v.now)
      /\ v.incidents[i].status = "open" /\ v.incidents[i].step = 0
      /\ v.incidents[i].opened_at = v.now /\ Visible(v, i)
      /\ v.orders = [world.orders EXCEPT ![i] = @ + Fault[i].failed_orders]
  <2>1. WorldOK(world) /\ i \in Scenario
    BY <1>1, <1>2
  <2> QED BY <1>3, <2>1, OpenWorld
<1>5. /\ world.orders \in [Scenario -> Nat] /\ v.now \in Nat
      /\ Fault[i].failed_orders \in Nat
  BY <1>1, <1>2, <1>4, ConductorAssumption DEF WorldOK, FabricOK
<1>6. \A n \in DOMAIN setup.stream : n > N => world.orders[setup.stream[n]] = 0
  BY <1>1, <1>2 DEF Fresh
<1>7. Accounted(v, i, 0, 0)
  <2>1. world.orders[i] = 0
    BY <1>2, <1>6
  <2>2. v.orders[i] = Fault[i].failed_orders + 2 * 0
    <3>1. v.orders[i] = world.orders[i] + Fault[i].failed_orders
      BY <1>2, <1>4, <1>5
    <3> QED BY <1>5, <2>1, <3>1
  <2>3. Elapsed(i, 0, 0, 0) = 0
    BY <1>2, ElapsedStarts
  <2>4. v.now - v.incidents[i].opened_at = Elapsed(i, 0, v.incidents[i].step, 0)
    BY <1>4, <1>5, <2>3
  <2> QED BY <1>4, <2>2, <2>4 DEF Accounted
<1>8. Incident' = i
  BY <1>1 DEF i, Incident
<1>9. AtHand'
  BY <1>1, <1>4, <1>7, <1>8 DEF AtHand
<1>10. Fresh'
  <2> SUFFICES ASSUME NEW n \in DOMAIN setup.stream, n > N + 1
               PROVE  v.orders[setup.stream[n]] = 0
    BY <1>1 DEF Fresh
  <2>1. setup.stream \in Seq(Scenario) /\ setup.stream[n] # i
    BY <1>1, <1>2, EvaluationAssumption DEF Control
  <2>2. n \in Nat /\ setup.stream[n] \in Scenario
    BY <2>1
  <2>3. world.orders[setup.stream[n]] = 0
    BY <1>2, <1>6, <2>2
  <2> QED BY <1>4, <1>5, <2>1, <2>2, <2>3
<1>11. Control' /\ Recorded' /\ TrialOK(trial')
  BY <1>1, ControlFrame, RecordedFrame
<1> QED BY <1>1, <1>4, <1>9, <1>10, <1>11 DEF EInv

\* An exception of the harness ends the run.
LEMMA RaiseKeeps ==
  ASSUME EInv, UNCHANGED <<setup, world, arm, trial, results>>, pc' = "raised" PROVE EInv'
<1>1. Control' /\ Recorded' /\ AtHand' /\ Fresh'
  BY ControlFrame, RecordedFrame DEF EInv, AtHand, Fresh
<1> QED BY <1>1 DEF EInv

\* The latency of the decision passes.
LEMMA DecidedKeeps ==
  ASSUME EInv, pc = "decide", NEW plan, NEW t \in Nat, NEW b, NEW m,
         Decided(Decision(plan, t, b, m))
  PROVE  EInv'
<1> DEFINE d == Decision(plan, t, b, m)
           i == Incident
           v == AdvanceTime(world, t)
<1>1. /\ DOMAIN d = TrialFields /\ d.invalid = 0 /\ d.seconds = t /\ d.outcomes = <<>>
  BY DEF Decision, NoTrial, TrialFields
<1>2. TrialOK(d) /\ Wrong(d) = 0
  <2>1. IsList(<<>>)
    BY DEF IsList
  <2>2. Cardinality(WrongOf(<<>>)) = 0
    BY <2>1, WrongGrows
  <2> HIDE DEF d
  <2> QED BY <1>1, <2>1, <2>2 DEF TrialOK, Wrong
<1>3. /\ Control /\ WorldOK(world) /\ Fresh /\ Recorded /\ Remaining
      /\ Accounted(world, i, 0, 0) /\ world.incidents[i].status = "open"
      /\ world.incidents[i].step = 0
  BY DEF EInv, Control, AtHand
<1>4. /\ trial' = d /\ world' = v /\ pc' = "act" /\ setup' = setup /\ arm' = arm
      /\ results' = results
  BY <1>1 DEF Decided
<1> HIDE DEF d
<1>5. i \in Scenario /\ Incident' = i
  BY <1>3, <1>4, IncidentOfStream DEF Incident
<1>6. /\ WorldOK(v) /\ v.now = world.now + t /\ v.incidents = world.incidents
      /\ v.orders = world.orders /\ v.breaching = world.breaching
  BY <1>3, WorldAges
<1> HIDE DEF v, i
<1>7. Accounted(v, i, t, 0)
  <2> DEFINE r == world.incidents[i]
  <2>1. /\ IncidentOK(i, r, world.now) /\ Visible(world, i) /\ r.opened_at \in Nat
        /\ world.now - r.opened_at = Elapsed(i, 0, 0, 0)
        /\ world.orders[i] = Fault[i].failed_orders + 2 * 0
    BY <1>3 DEF Accounted, IncidentOK
  <2>2. world.now \in Nat /\ v.now \in Nat /\ world.now <= v.now
    BY <1>3, <1>6 DEF WorldOK, FabricOK
  <2>3. Elapsed(i, 0, 0, 0) = 0 /\ Elapsed(i, t, 0, 0) = t
    BY <1>5, ElapsedStarts
  <2>4. IncidentOK(i, r, v.now)
    <3> HIDE DEF r
    <3> QED BY <1>5, <2>1, <2>2, IncidentAges
  <2>5. v.now - r.opened_at = Elapsed(i, t, r.step, 0)
    BY <1>3, <1>6, <2>1, <2>2, <2>3
  <2>6. Visible(v, i)
    BY <1>6, <2>1 DEF Visible
  <2> QED BY <1>3, <1>6, <2>1, <2>4, <2>5, <2>6 DEF Accounted
<1>8. AtHand'
  BY <1>1, <1>2, <1>4, <1>5, <1>7 DEF AtHand
<1>9. Fresh'
  BY <1>3, <1>4, <1>6 DEF Fresh
<1>10. Control' /\ Recorded'
  BY <1>3, <1>4, ControlFrame, RecordedFrame
<1> QED BY <1>2, <1>4, <1>6, <1>8, <1>9, <1>10 DEF EInv

\* The scripted responders take no time.
LEMMA FollowDecides ==
  ASSUME NEW i, NEW top PROVE \E plan, b, m : Follow(i, top) = Decision(plan, 0, b, m)
<1> DEFINE fit == SelectSeq(top, LAMBDA m : /\ Near(m, i) >= Threshold
                                            /\ Corpus[m].actions # <<>>)
           plan == [n \in DOMAIN Corpus[fit[1]].actions |->
                      RenderAction(i, Corpus[fit[1]].actions[n])]
<1>1. Follow(i, top) = IF fit = <<>> THEN Decision(<<PageHuman(i)>>, 0, TRUE, Null)
                       ELSE Decision(plan, 0, FALSE, fit[1])
  BY DEF Follow
<1> HIDE DEF fit, plan
<1> QED BY <1>1

LEMMA DecideKeeps ==
  ASSUME EInv, AgentDecides \/ AgentUnparseable \/ ScriptedDecides PROVE EInv'
<1>1. CASE AgentDecides
  <2>1. PICK n \in 1..MaxPlan : \E p \in [1..n -> DOMAIN Pool[Incident]], t \in Latencies :
          LET plan == [m \in 1..n |-> Pool[Incident][p[m]]]
          IN Decided(Decision(plan, t, Paging(plan[1]), Null))
    BY <1>1 DEF AgentDecides
  <2>2. PICK p \in [1..n -> DOMAIN Pool[Incident]], t \in Latencies :
          LET plan == [m \in 1..n |-> Pool[Incident][p[m]]]
          IN Decided(Decision(plan, t, Paging(plan[1]), Null))
    BY <2>1
  <2> DEFINE plan == [m \in 1..n |-> Pool[Incident][p[m]]]
             b == Paging(plan[1])
  <2>3. Decided(Decision(plan, t, b, Null)) /\ t \in Nat /\ pc = "decide"
    BY <1>1, <2>2, EvaluationAssumption DEF AgentDecides
  <2> HIDE DEF plan, b
  <2> QED BY <2>3, DecidedKeeps
<1>2. CASE AgentUnparseable
  <2>1. PICK t \in Latencies : Decided(Decision(<<PageHuman(Incident)>>, t, TRUE, Null))
    BY <1>2 DEF AgentUnparseable
  <2>2. t \in Nat /\ pc = "decide"
    BY <1>2, EvaluationAssumption DEF AgentUnparseable
  <2> QED BY <2>1, <2>2, DecidedKeeps
<1>3. CASE ScriptedDecides
  <2> DEFINE i == Incident
  <2>1. setup.harness \in {"mechanism", "temporal"} /\ pc = "decide"
    BY <1>3, EvaluationAssumption DEF ScriptedDecides, EInv, Control
  <2>2. \/ Decided(TemporalDecision(i)) \/ Decided(ProceduralDecision(i))
        \/ Decided(BaselineDecision(i))
    BY <1>3, <2>1 DEF ScriptedDecides
  <2>3. \E plan, b, m : Decided(Decision(plan, 0, b, m))
    BY <2>2, FollowDecides DEF TemporalDecision, ProceduralDecision, BaselineDecision
  <2>4. PICK plan, b, m : Decided(Decision(plan, 0, b, m))
    BY <2>3
  <2> QED BY <2>1, <2>4, DecidedKeeps
<1> QED BY <1>1, <1>2, <1>3

LEMMA ApplyKeeps ==
  ASSUME EInv, Apply PROVE EInv'
<1> DEFINE i == Incident
           a == Head(trial.left)
           v == ApplyAction(world, i, a)
           o == Outcome(world, i, a)
           n == Wrong(trial)
           next == [trial EXCEPT !.left = IF v.incidents[i].status = "resolved"
                                            THEN <<>> ELSE Tail(@),
                                 !.outcomes = Append(@, Last(v.actions).outcome)]
<1>1. /\ Control /\ WorldOK(world) /\ TrialOK(trial) /\ Fresh /\ Recorded
      /\ Remaining /\ Accounted(world, i, trial.seconds, n)
  BY DEF EInv, Apply, Control, AtHand
<1>2. /\ pc = "act" /\ pc' = "act" /\ world' = v /\ setup' = setup /\ arm' = arm
      /\ results' = results /\ world.incidents[i].status # "resolved"
      /\ a.target \in DOMAIN world.services
  BY DEF Apply, Acceptable, Addressed
<1>3. trial' = next
  BY <1>2 DEF Apply
<1>4. i \in Scenario /\ Incident' = i
  BY <1>1, <1>2, IncidentOfStream DEF Incident
<1>5. /\ DOMAIN trial = TrialFields /\ trial.invalid \in Nat /\ trial.seconds \in Nat
      /\ IsList(trial.outcomes)
  BY <1>1 DEF TrialOK
<1>6. o \in {"success", "no_effect"} /\ (o = "success" <=> Hit(world, i, a))
  BY DEF Outcome
<1>7. n \in Nat
  BY <1>5, WrongGrows DEF Wrong
<1> HIDE DEF n, i, a
<1>8. /\ WorldOK(v)
      /\ Accounted(v, i, trial.seconds, IF Hit(world, i, a) THEN n ELSE n + 1)
      /\ Last(v.actions).outcome = o
      /\ \A j \in Scenario : j # i => v.orders[j] = world.orders[j]
  BY <1>1, <1>2, <1>4, <1>5, <1>7, ApplyAccounts
<1> HIDE DEF v, o
<1>9. /\ DOMAIN next = TrialFields /\ next.invalid = trial.invalid
      /\ next.seconds = trial.seconds /\ next.outcomes = Append(trial.outcomes, o)
  BY <1>5, <1>8 DEF TrialFields
<1> HIDE DEF next
<1>10. TrialOK(next)
  BY <1>5, <1>9, AppendList DEF TrialOK
<1>11. Wrong(next) = IF Hit(world, i, a) THEN n ELSE n + 1
  BY <1>5, <1>6, <1>9, WrongGrows DEF Wrong, n
<1>12. AtHand'
  BY <1>2, <1>3, <1>4, <1>8, <1>9, <1>11 DEF AtHand
<1>13. Fresh'
  <2> DEFINE N == Len(results[arm])
  <2> SUFFICES ASSUME NEW k \in DOMAIN setup.stream, k > N + 1
               PROVE  v.orders[setup.stream[k]] = 0
    BY <1>2 DEF Fresh
  <2>1. world.orders[setup.stream[k]] = 0
    BY <1>1, <1>2 DEF Fresh
  <2>2. N \in Nat /\ N + 1 \in DOMAIN setup.stream /\ i = setup.stream[N + 1]
    BY <1>1, IncidentOfStream DEF i
  <2>3. setup.stream \in Seq(Scenario) /\ setup.stream[k] # i
    BY <1>1, <2>2, EvaluationAssumption DEF Control
  <2>4. setup.stream[k] \in Scenario
    BY <2>3
  <2> QED BY <1>8, <2>1, <2>3, <2>4
<1>14. Control' /\ Recorded'
  BY <1>1, <1>2, ControlFrame, RecordedFrame
<1> QED BY <1>2, <1>3, <1>8, <1>10, <1>12, <1>13, <1>14 DEF EInv

LEMMA RejectKeeps ==
  ASSUME EInv, Reject PROVE EInv'
<1>1. CASE setup.harness # "agent"
  BY <1>1, RaiseKeeps DEF Reject
<1>2. CASE setup.harness = "agent"
  <2> DEFINE next == [trial EXCEPT !.left = Tail(@), !.invalid = @ + 1]
  <2>1. /\ pc = "act" /\ pc' = "act" /\ trial' = next /\ world' = world /\ setup' = setup
        /\ arm' = arm /\ results' = results
    BY <1>2 DEF Reject
  <2>2. Control /\ WorldOK(world) /\ TrialOK(trial) /\ AtHand /\ Fresh /\ Recorded /\ Remaining
    BY <2>1 DEF EInv, Control
  <2>3. /\ DOMAIN next = TrialFields /\ next.invalid \in Nat /\ next.seconds = trial.seconds
        /\ next.outcomes = trial.outcomes
    BY <2>2 DEF TrialOK, TrialFields
  <2> HIDE DEF next
  <2>4. TrialOK(next) /\ Wrong(next) = Wrong(trial)
    BY <2>2, <2>3 DEF TrialOK, Wrong
  <2>5. Incident' = Incident
    BY <2>1 DEF Incident
  <2>6. AtHand'
    BY <2>1, <2>2, <2>3, <2>4, <2>5 DEF AtHand
  <2>7. Fresh'
    BY <2>1, <2>2 DEF Fresh
  <2>8. Control' /\ Recorded'
    BY <2>1, <2>2, ControlFrame, RecordedFrame
  <2> QED BY <2>1, <2>2, <2>4, <2>6, <2>7, <2>8 DEF EInv
<1> QED BY <1>1, <1>2

\* What is recorded is the account of the incident at hand.
LEMMA ResultAccounts ==
  ASSUME EInv, pc = "act" PROVE ResultOK(Incident, Result)
<1> DEFINE i == Incident
           r == world.incidents[i]
<1>1. /\ Control /\ TrialOK(trial) /\ Remaining
      /\ Accounted(world, i, trial.seconds, Wrong(trial))
  BY DEF EInv, Control, AtHand
<1>2. /\ Result.resolved = (r.mttr # Null) /\ Result.mttr = r.mttr
      /\ Result.seconds = trial.seconds /\ Result.orders = world.orders[i]
      /\ Result.wrong = Wrong(trial)
  BY DEF Result, Wrong, WrongOf
<1>3. trial.seconds \in Nat /\ Wrong(trial) \in Nat /\ Null \notin Nat /\ i \in Scenario
  BY <1>1, WrongGrows, IncidentOfStream, ConductorAssumption DEF TrialOK, Wrong
<1> HIDE DEF i, r
<1>4. /\ IncidentOK(i, r, world.now) /\ world.orders[i] = Fault[i].failed_orders + 2 * Wrong(trial)
      /\ r.status = "resolved" =>
           Elapsed(i, trial.seconds, Len(Required(i)), Wrong(trial)) - r.mttr * Second
             \in 0..(Second - 1)
  BY <1>1 DEF Accounted, r
<1>5. Result.resolved \in BOOLEAN
  BY <1>2, Zenon
<1>6. ASSUME Result.resolved = TRUE PROVE r.status = "resolved" /\ r.mttr \in Nat
  BY <1>2, <1>4, <1>6 DEF IncidentOK
<1>7. ResultOK(i, Result)
  BY <1>2, <1>3, <1>4, <1>5, <1>6 DEF ResultOK
<1> QED BY <1>7 DEF i

LEMMA RecordKeeps ==
  ASSUME EInv, Record PROVE EInv'
<1>1. CASE pc' = "raised"
  <2>1. UNCHANGED <<setup, world, arm, trial, results>>
    BY <1>1 DEF Record
  <2> QED BY <1>1, <2>1, RaiseKeeps
<1>2. CASE pc' # "raised"
  <2> DEFINE N == Len(results[arm])
             new == Append(results[arm], Result)
  <2>1. /\ pc = "act" /\ pc' = "inject" /\ trial' = NoTrial /\ setup' = setup
        /\ world' = world /\ arm' = arm /\ results' = [results EXCEPT ![arm] = new]
    BY <1>2 DEF Record
  <2>2. Control /\ WorldOK(world) /\ Fresh /\ Recorded /\ Remaining
    BY <2>1 DEF EInv, Control
  <2>3. /\ N \in Nat /\ arm \in 1..2 /\ Incident = setup.stream[N + 1]
        /\ DOMAIN results = 1..2 /\ IsList(results[arm]) /\ N < Len(setup.stream)
    BY <2>2, IncidentOfStream DEF Control, Remaining
  <2>4. /\ IsList(new) /\ Len(new) = N + 1 /\ DOMAIN results[arm] = 1..N
        /\ DOMAIN new = 1..(N + 1) /\ new[N + 1] = Result
        /\ \A n \in 1..N : new[n] = results[arm][n]
    BY <2>3, AppendList
  <2> HIDE DEF new
  <2>5. /\ DOMAIN results' = 1..2 /\ results'[arm] = new
        /\ \A k \in 1..2 : k # arm => results'[k] = results[k]
    BY <2>1, <2>3
  <2>6. setup.stream \in Seq(Scenario) /\ Len(setup.stream) \in Nat
    BY <2>2, EvaluationAssumption DEF Control
  <2>7. Control'
    <3>1. arm' \in 1..Len(Arms') /\ setup' \in Setups
      BY <2>1, <2>2 DEF Control, Arms
    <3>2. ASSUME NEW k \in 1..2
          PROVE  /\ IsList(results'[k]) /\ Len(results'[k]) <= Len(setup.stream)
                 /\ k < arm => Len(results'[k]) = Len(setup.stream)
      <4>1. CASE k = arm
        BY <2>3, <2>4, <2>5, <2>6, <4>1
      <4>2. CASE k # arm
        BY <2>2, <2>5, <4>2 DEF Control
      <4> QED BY <4>1, <4>2
    <3> QED BY <2>1, <2>5, <3>1, <3>2 DEF Control
  <2>8. Fresh'
    <3> SUFFICES ASSUME NEW n \in DOMAIN setup.stream, n > N + 1
                 PROVE  world.orders[setup.stream[n]] = 0
      <4>1. Len(results[arm])' = N + 1 /\ N + 1 + 0 = N + 1
        BY <2>1, <2>3, <2>4, <2>5
      <4> QED BY <2>1, <4>1 DEF Fresh
    <3> QED BY <2>1, <2>2 DEF Fresh
  <2>9. Recorded'
    <3>1. ResultOK(setup.stream[N + 1], Result)
      BY <2>1, <2>3, ResultAccounts
    <3>2. \A n \in 1..(N + 1) : n \in 1..N \/ n = N + 1
      BY <2>3
    <3>3. ASSUME NEW n \in 1..(N + 1) PROVE ResultOK(setup.stream[n], new[n])
      BY <2>2, <2>3, <2>4, <3>1, <3>2 DEF Recorded
    <3>4. ASSUME NEW k \in 1..2, NEW n \in DOMAIN results'[k]
          PROVE  ResultOK(setup.stream[n], results'[k][n])
      <4>1. CASE k = arm
        BY <2>4, <2>5, <3>3, <4>1
      <4>2. CASE k # arm
        BY <2>2, <2>5, <4>2 DEF Recorded
      <4> QED BY <4>1, <4>2
    <3> QED BY <2>1, <3>4 DEF Recorded
  <2>10. AtHand'
    BY <2>1 DEF AtHand
  <2>11. TrialOK(trial')
    BY <2>1, NoTrialOK
  <2> QED BY <2>1, <2>2, <2>7, <2>8, <2>9, <2>10, <2>11 DEF EInv
<1> QED BY <1>1, <1>2

\* The next arm, and the report, start from a fresh world.
LEMMA NextArmKeeps ==
  ASSUME EInv, NextArm \/ Report PROVE EInv'
<1>1. /\ Control /\ TrialOK(trial) /\ Recorded /\ ~Remaining /\ pc = "inject"
      /\ world' = LoadWorld /\ setup' = setup /\ trial' = trial /\ results' = results
  BY DEF EInv, NextArm, Report
<1>2. Recorded' /\ WorldOK(world')
  BY <1>1, RecordedFrame, LoadedWorldOK
<1>3. setup.stream \in Seq(Scenario) /\ Len(setup.stream) \in Nat
  BY <1>1, EvaluationAssumption DEF Control
<1>4. arm \in 1..2 /\ Len(Arms) \in 1..2 /\ Len(results[arm]) = Len(setup.stream)
  <2>1. arm \in 1..2 /\ Len(Arms) \in 1..2
    BY <1>1, ArmCount DEF Control
  <2>2. Len(results[arm]) \in Nat /\ Len(results[arm]) <= Len(setup.stream)
    BY <1>1, <2>1 DEF Control, IsList
  <2> QED BY <1>1, <1>3, <2>1, <2>2 DEF Remaining
<1>5. Arms' = Arms
  BY <1>1 DEF Arms
<1>6. CASE NextArm
  <2>1. arm' = arm + 1 /\ pc' = "inject" /\ arm' \in 1..Len(Arms)
    BY <1>1, <1>4, <1>6 DEF NextArm
  <2>2. \A k \in 1..2 : k < arm' => k < arm \/ k = arm
    BY <1>4, <2>1
  <2>3. \A k \in 1..2 : /\ IsList(results[k]) /\ Len(results[k]) <= Len(setup.stream)
                        /\ k < arm' => Len(results[k]) = Len(setup.stream)
    BY <1>1, <1>4, <2>2 DEF Control
  <2>4. Control'
    BY <1>1, <1>5, <2>1, <2>3 DEF Control
  <2>5. Fresh'
    <3>1. \A n \in DOMAIN setup.stream : world'.orders[setup.stream[n]] = 0
      BY <1>1, <1>3, LoadedWorldOK
    <3> QED BY <1>1, <3>1 DEF Fresh
  <2> QED BY <1>1, <1>2, <2>1, <2>4, <2>5 DEF EInv, AtHand
<1>7. CASE Report
  <2>1. arm' = arm /\ pc' \in {"done", "unmeasurable"} /\ arm = Len(Arms)
    BY <1>7 DEF Report
  <2>2. Remaining' = Remaining
    BY <1>1, <2>1 DEF Remaining
  <2>3. Control'
    BY <1>1, <1>5, <2>1, <2>2 DEF Control
  <2> QED BY <1>1, <1>2, <2>1, <2>3 DEF EInv, AtHand, Fresh
<1> QED BY <1>6, <1>7

LEMMA EInvNext == EInv /\ [Next]_vars => EInv'
<1> SUFFICES ASSUME EInv, [Next]_vars PROVE EInv'
  OBVIOUS
<1>1. CASE Inject
  BY <1>1, InjectKeeps
<1>2. CASE InjectRaises
  BY <1>2, RaiseKeeps DEF InjectRaises
<1>3. CASE AgentDecides \/ AgentUnparseable \/ ScriptedDecides
  BY <1>3, DecideKeeps
<1>4. CASE AgentRaises \/ ApplyRaises
  BY <1>4, RaiseKeeps DEF AgentRaises, ApplyRaises
<1>5. CASE Apply
  BY <1>5, ApplyKeeps
<1>6. CASE Reject
  BY <1>6, RejectKeeps
<1>7. CASE Record
  BY <1>7, RecordKeeps
<1>8. CASE NextArm \/ Report
  BY <1>8, NextArmKeeps
<1>9. CASE UNCHANGED vars
  <2>1. /\ setup' = setup /\ world' = world /\ arm' = arm /\ pc' = pc /\ trial' = trial
        /\ results' = results
    BY <1>9 DEF vars
  <2> QED BY <2>1 DEF EInv, Control, AtHand, Fresh, Recorded, Incident, Remaining, Arms
<1> QED BY <1>1, <1>2, <1>3, <1>4, <1>5, <1>6, <1>7, <1>8, <1>9 DEF Next

LEMMA EInvAlways == Spec => []EInv
  BY EInvInit, EInvNext, PTL DEF Spec

\* The simulated world is coherent in every run of every harness: revisions
\* chained, deployments true, the incident at hand observable until resolved.
THEOREM WorldStaysSound == Spec => []WorldIsSound
<1>1. EInv => WorldIsSound
  <2> SUFFICES ASSUME EInv PROVE WorldIsSound
    OBVIOUS
  <2>1. Control /\ WorldOK(world) /\ TrialOK(trial) /\ AtHand
    BY DEF EInv
  <2>2. TypeOK
    <3>1. setup \in Setups /\ arm \in DOMAIN Arms
      BY <2>1, ArmCount DEF Control
    <3>2. world.now \in Nat /\ trial.invalid \in Nat /\ trial.seconds \in Nat
      BY <2>1 DEF WorldOK, FabricOK, TrialOK
    <3>3. ASSUME NEW i \in Scenario, world.incidents[i] # Null
          PROVE  /\ world.incidents[i].status \in IncidentStatus
                 /\ world.incidents[i].step \in 0..Len(Required(i))
                 /\ world.incidents[i].mttr \in Nat \cup {Null}
      <4>1. IncidentOK(i, world.incidents[i], world.now)
        BY <2>1, <3>3 DEF WorldOK
      <4> QED BY <4>1 DEF IncidentOK
    <3> QED BY <2>1, <3>1, <3>2, <3>3 DEF TypeOK, Control
  <2>3. ConfigTimeline
    BY <2>1, ChainTimeline DEF WorldOK, FabricOK
  <2>4. DeploymentTrail
    BY <2>1, TrailTruth DEF WorldOK, FabricOK
  <2>5. WorkedIncidentVisible
    <3> SUFFICES ASSUME pc \in {"decide", "act"}
                 PROVE  LET incident == world.incidents[Incident]
                        IN (incident.status # "resolved") =
                             /\ incident.cleared_at = Null
                             /\ <<Fault[Incident].service, incident.slo>> \in world.breaching
      BY DEF WorkedIncidentVisible
    <3> DEFINE r == world.incidents[Incident]
               seen == <<Fault[Incident].service, r.slo>> \in world.breaching
    <3>1. PICK seconds, wrong : Accounted(world, Incident, seconds, wrong)
      BY <2>1 DEF AtHand
    <3>2. /\ r.status = "resolved" => r.cleared_at \in Nat
          /\ r.status # "resolved" => r.cleared_at = Null /\ seen
      BY <3>1 DEF Accounted, IncidentOK, Visible
    <3>3. r.cleared_at \in Nat => r.cleared_at # Null
      BY ConductorAssumption
    <3> HIDE DEF r, seen
    <3>4. (r.status # "resolved") = (r.cleared_at = Null /\ seen)
      BY <3>2, <3>3
    <3> QED BY <3>4 DEF r, seen
  <2> QED BY <2>2, <2>3, <2>4, <2>5 DEF WorldIsSound
<1> QED BY <1>1, EInvAlways, PTL

\* The MTTR of a resolved incident is the latency of the decision, the seconds of
\* the required actions and the penalties of the wrong ones, whatever the world
\* went through before: no delay of an earlier incident is charged to it.
THEOREM MttrMeasuresResponder == Spec => []MttrAccounts
<1>1. EInv => MttrAccounts
  <2> SUFFICES ASSUME EInv, NEW k \in 1..2, NEW n \in DOMAIN results[k],
                      results[k][n].resolved
               PROVE  LET r == results[k][n]
                          oracle == OracleFor(setup.stream[n])
                          spent == r.seconds
                                     + Len(oracle.required_actions) * oracle.action_seconds
                                     + r.wrong * oracle.wrong_action_penalty_seconds
                      IN spent - r.mttr * Second \in 0..(Second - 1)
    BY DEF MttrAccounts
  <2>1. ResultOK(setup.stream[n], results[k][n])
    BY DEF EInv, Recorded
  <2>2. results[k][n].resolved = TRUE
    BY <2>1 DEF ResultOK
  <2> QED BY <2>1, <2>2 DEF ResultOK, Elapsed, Required
<1> QED BY <1>1, EInvAlways, PTL

----------------------------------------------------------------------------
(* Sums of lists, by induction over their length.                          *)

IsSum(f, list, n) == f = [m \in 0..n |-> IF m = 0 THEN 0 ELSE f[m - 1] + list[m]]

LEMMA SumExists ==
  ASSUME NEW list PROVE \A n \in Nat : \E f : IsSum(f, list, n)
<1> DEFINE S == {n \in Nat : \E f : IsSum(f, list, n)}
<1>1. 0 \in S
  <2>1. IsSum([m \in 0..0 |-> 0], list, 0)
    BY DEF IsSum
  <2> QED BY <2>1
<1>2. ASSUME NEW n \in Nat, n \in S PROVE n + 1 \in S
  <2>1. PICK f : IsSum(f, list, n)
    BY <1>2
  <2> DEFINE g == [m \in 0..(n + 1) |-> IF m = n + 1 THEN f[n] + list[n + 1] ELSE f[m]]
  <2>2. ASSUME NEW m \in 0..(n + 1)
        PROVE  g[m] = IF m = 0 THEN 0 ELSE g[m - 1] + list[m]
    <3>1. CASE m = n + 1
      BY <3>1
    <3>2. CASE m # n + 1
      <4>1. m \in 0..n /\ (m # 0 => m - 1 \in 0..n)
        BY <3>2
      <4>2. f[m] = IF m = 0 THEN 0 ELSE f[m - 1] + list[m]
        BY <2>1, <4>1 DEF IsSum
      <4>3. g[m] = f[m] /\ (m # 0 => g[m - 1] = f[m - 1])
        BY <3>2, <4>1
      <4> QED BY <4>2, <4>3
    <3> QED BY <3>1, <3>2
  <2>3. IsSum(g, list, n + 1)
    BY <2>2 DEF IsSum
  <2> QED BY <2>3
<1>3. Nat \subseteq S
  <2> HIDE DEF S
  <2> QED BY <1>1, <1>2, NatSetInduction
<1> QED BY <1>3

\* The sum of a list of integers is the last of its partial sums.
LEMMA TotalIsSum ==
  ASSUME NEW L \in Nat, NEW list \in [1..L -> Int]
  PROVE  \E f \in [0..L -> Int] : /\ Total(list) = f[L] /\ f[0] = 0
                                  /\ \A m \in 1..L : f[m] = f[m - 1] + list[m]
<1> DEFINE f == CHOOSE f : IsSum(f, list, L)
           S == {m \in Nat : m <= L => f[m] \in Int}
<1>1. Len(list) = L
  OBVIOUS
<1>2. \E g : IsSum(g, list, L)
  BY SumExists
<1>3. IsSum(f, list, L)
  BY <1>2
<1>4. Total(list) = f[L]
  BY <1>1 DEF Total, IsSum
<1> HIDE DEF f
<1>5. \A m \in 0..L : f[m] = IF m = 0 THEN 0 ELSE f[m - 1] + list[m]
  BY <1>3 DEF IsSum
<1>6. f[0] = 0 /\ \A m \in 1..L : f[m] = f[m - 1] + list[m]
  BY <1>5
<1>7. 0 \in S
  BY <1>6
<1>8. ASSUME NEW m \in Nat, m \in S PROVE m + 1 \in S
  <2> SUFFICES ASSUME m + 1 <= L PROVE f[m + 1] \in Int
    OBVIOUS
  <2>1. f[m] \in Int /\ m + 1 \in 1..L /\ (m + 1) - 1 = m
    BY <1>8
  <2>2. f[m + 1] = f[m] + list[m + 1] /\ list[m + 1] \in Int
    BY <1>6, <2>1
  <2> QED BY <2>1, <2>2
<1>9. Nat \subseteq S
  <2> HIDE DEF S
  <2> QED BY <1>7, <1>8, NatSetInduction
<1>10. \A m \in 0..L : f[m] \in Int
  BY <1>9
<1>11. DOMAIN f = 0..L /\ f = [m \in DOMAIN f |-> f[m]]
  BY <1>3 DEF IsSum
<1>12. f \in [0..L -> Int]
  BY <1>10, <1>11
<1> QED BY <1>4, <1>6, <1>12

LEMMA BoundsGrow ==
  ASSUME NEW d \in Int, NEW c \in Nat, d <= c, -c <= d, NEW e \in (-1)..1
  PROVE  d + e <= c + 1 /\ -(c + 1) <= d + e
  OBVIOUS

\* At the places of S, A and B differ by P up to one; elsewhere by P.
Apart(L, A, B, P, S) ==
  \A n \in 1..L : IF n \in S THEN A[n] - B[n] - P[n] \in (-1)..1
                             ELSE A[n] - B[n] - P[n] = 0

\* Lists that differ by at most one at the places of a set differ in sum by at
\* most its size.
LEMMA TotalsApart ==
  ASSUME NEW L \in Nat, NEW A \in [1..L -> Int], NEW B \in [1..L -> Int],
         NEW P \in [1..L -> Int], NEW S \in SUBSET (1..L), Apart(L, A, B, P, S)
  PROVE  /\ IsFiniteSet(S) /\ Cardinality(S) \in Nat
         /\ Total(A) \in Int /\ Total(B) \in Int /\ Total(P) \in Int
         /\ Total(A) - Total(B) - Total(P) \in (-Cardinality(S))..Cardinality(S)
<1>1. PICK f \in [0..L -> Int] : /\ Total(A) = f[L] /\ f[0] = 0
                                 /\ \A m \in 1..L : f[m] = f[m - 1] + A[m]
  BY TotalIsSum
<1>2. PICK g \in [0..L -> Int] : /\ Total(B) = g[L] /\ g[0] = 0
                                 /\ \A m \in 1..L : g[m] = g[m - 1] + B[m]
  BY TotalIsSum
<1>3. PICK h \in [0..L -> Int] : /\ Total(P) = h[L] /\ h[0] = 0
                                 /\ \A m \in 1..L : h[m] = h[m - 1] + P[m]
  BY TotalIsSum
<1> DEFINE U(m) == S \cap (1..m)
           c(m) == Cardinality(U(m))
           d(m) == f[m] - g[m] - h[m]
           Within(m) == d(m) <= c(m) /\ -c(m) <= d(m)
           T == {m \in Nat : m <= L => Within(m)}
<1>4. ASSUME NEW m \in Nat PROVE IsFiniteSet(U(m)) /\ c(m) \in Nat
  <2>1. IsFiniteSet(1..m)
    BY FS_Interval
  <2>2. IsFiniteSet(U(m))
    BY <2>1, FS_Intersection
  <2> QED BY <2>2, FS_CardinalityType
<1>5. c(0) = 0 /\ d(0) = 0
  <2>1. U(0) = {}
    OBVIOUS
  <2> QED BY <1>1, <1>2, <1>3, <2>1, FS_EmptySet
<1>6. ASSUME NEW m \in Nat, m + 1 \in 1..L
      PROVE  c(m + 1) = IF m + 1 \in S THEN c(m) + 1 ELSE c(m)
  <2>1. \A x \in Int : x \in 1..(m + 1) <=> x \in 1..m \/ x = m + 1
    OBVIOUS
  <2>2. \A x : x \in U(m + 1) <=> x \in U(m) \/ (x = m + 1 /\ m + 1 \in S)
    <3>1. \A x \in S : x \in Int
      OBVIOUS
    <3> QED BY <2>1, <3>1, Zenon
  <2>3. m + 1 \notin U(m) /\ IsFiniteSet(U(m))
    BY <1>4
  <2> HIDE DEF U
  <2>4. U(m + 1) = IF m + 1 \in S THEN U(m) \cup {m + 1} ELSE U(m)
    BY <2>2
  <2>5. Cardinality(U(m) \cup {m + 1}) = Cardinality(U(m)) + 1
    BY <2>3, FS_AddElement
  <2> QED BY <2>4, <2>5
<1>7. ASSUME NEW m \in Nat, m <= L PROVE d(m) \in Int
  BY <1>7
<1>8. ASSUME NEW m \in Nat, m + 1 \in 1..L
      PROVE  d(m + 1) = d(m) + (A[m + 1] - B[m + 1] - P[m + 1])
  <2>1. (m + 1) - 1 = m /\ m \in 0..L
    BY <1>8
  <2>2. /\ f[m + 1] = f[m] + A[m + 1] /\ g[m + 1] = g[m] + B[m + 1]
        /\ h[m + 1] = h[m] + P[m + 1]
    BY <1>1, <1>2, <1>3, <1>8, <2>1
  <2>3. /\ f[m] \in Int /\ g[m] \in Int /\ h[m] \in Int /\ A[m + 1] \in Int
        /\ B[m + 1] \in Int /\ P[m + 1] \in Int
    BY <1>8, <2>1
  <2>4. (f[m] + A[m + 1]) - (g[m] + B[m + 1]) - (h[m] + P[m + 1])
          = (f[m] - g[m] - h[m]) + (A[m + 1] - B[m + 1] - P[m + 1])
    <3> DEFINE r == f[m]
               s == g[m]
               t == h[m]
               x == A[m + 1]
               y == B[m + 1]
               z == P[m + 1]
    <3>1. r \in Int /\ s \in Int /\ t \in Int /\ x \in Int /\ y \in Int /\ z \in Int
      BY <2>3
    <3> HIDE DEF r, s, t, x, y, z
    <3>2. (r + x) - (s + y) - (t + z) = (r - s - t) + (x - y - z)
      BY <3>1
    <3> QED BY <3>2 DEF r, s, t, x, y, z
  <2> QED BY <2>2, <2>4, Zenon
<1> HIDE DEF c, d
<1>9. 0 \in T
  BY <1>5
<1>10. ASSUME NEW m \in Nat, m \in T PROVE m + 1 \in T
  <2> SUFFICES ASSUME m + 1 <= L PROVE Within(m + 1)
    OBVIOUS
  <2>1. m + 1 \in 1..L /\ m <= L
    OBVIOUS
  <2>2. c(m) \in Nat /\ d(m) \in Int /\ d(m) <= c(m) /\ -c(m) <= d(m)
    BY <1>4, <1>7, <1>10, <2>1
  <2> DEFINE e == A[m + 1] - B[m + 1] - P[m + 1]
  <2>3. d(m + 1) = d(m) + e /\ e \in Int
    BY <1>8, <2>1
  <2>4. CASE m + 1 \in S
    <3>1. e \in (-1)..1 /\ c(m + 1) = c(m) + 1
      BY <1>6, <2>1, <2>4 DEF Apart
    <3> HIDE DEF e
    <3>2. d(m) + e <= c(m) + 1 /\ -(c(m) + 1) <= d(m) + e
      BY <2>2, <3>1, BoundsGrow, Zenon
    <3> QED BY <2>3, <3>1, <3>2, Zenon
  <2>5. CASE m + 1 \notin S
    <3>1. e = 0 /\ c(m + 1) = c(m)
      BY <1>6, <2>1, <2>5 DEF Apart
    <3> HIDE DEF e
    <3> QED BY <2>2, <2>3, <3>1
  <2> QED BY <2>4, <2>5
<1>11. L \in T
  <2> HIDE DEF T
  <2> QED BY <1>9, <1>10, NatSetInduction
<1>12. S = U(L)
  OBVIOUS
<1>13. c(L) = Cardinality(S) /\ IsFiniteSet(S) /\ c(L) \in Nat
  BY <1>4, <1>12 DEF c
<1>14. Within(L) /\ d(L) \in Int
  BY <1>7, <1>11
<1>15. Total(A) \in Int /\ Total(B) \in Int /\ Total(P) \in Int
       /\ d(L) = Total(A) - Total(B) - Total(P)
  BY <1>1, <1>2, <1>3 DEF d
<1> QED BY <1>13, <1>14, <1>15

\* Q is O less two for every one that W is more than V.
InStep(L, O, Q, V, W) == \A n \in 1..L : Q[n] + (W[n] + W[n]) = O[n] + (V[n] + V[n])

TotalsInStep(O, Q, V, W) ==
  /\ Total(Q) \in Int /\ Total(O) \in Int /\ Total(V) \in Int /\ Total(W) \in Int
  /\ Total(Q) + (Total(W) + Total(W)) = Total(O) + (Total(V) + Total(V))

\* Then so are their sums.
LEMMA TotalsFollow ==
  ASSUME NEW L \in Nat, NEW O \in [1..L -> Int], NEW Q \in [1..L -> Int],
         NEW V \in [1..L -> Int], NEW W \in [1..L -> Int], InStep(L, O, Q, V, W)
  PROVE  TotalsInStep(O, Q, V, W)
<1>1. PICK o \in [0..L -> Int] : /\ Total(O) = o[L] /\ o[0] = 0
                                 /\ \A m \in 1..L : o[m] = o[m - 1] + O[m]
  BY TotalIsSum
<1>2. PICK q \in [0..L -> Int] : /\ Total(Q) = q[L] /\ q[0] = 0
                                 /\ \A m \in 1..L : q[m] = q[m - 1] + Q[m]
  BY TotalIsSum
<1>3. PICK v \in [0..L -> Int] : /\ Total(V) = v[L] /\ v[0] = 0
                                 /\ \A m \in 1..L : v[m] = v[m - 1] + V[m]
  BY TotalIsSum
<1>4. PICK w \in [0..L -> Int] : /\ Total(W) = w[L] /\ w[0] = 0
                                 /\ \A m \in 1..L : w[m] = w[m - 1] + W[m]
  BY TotalIsSum
<1> DEFINE E(m) == q[m] + (w[m] + w[m]) = o[m] + (v[m] + v[m])
           T == {m \in Nat : m <= L => E(m)}
<1>5. 0 \in T
  BY <1>1, <1>2, <1>3, <1>4
<1>6. ASSUME NEW m \in Nat, m \in T PROVE m + 1 \in T
  <2> SUFFICES ASSUME m + 1 <= L PROVE E(m + 1)
    OBVIOUS
  <2>1. m + 1 \in 1..L /\ (m + 1) - 1 = m /\ m \in 0..L /\ m <= L
    OBVIOUS
  <2>2. /\ o[m + 1] = o[m] + O[m + 1] /\ q[m + 1] = q[m] + Q[m + 1]
        /\ v[m + 1] = v[m] + V[m + 1] /\ w[m + 1] = w[m] + W[m + 1]
    BY <1>1, <1>2, <1>3, <1>4, <2>1
  <2>3. /\ o[m] \in Int /\ q[m] \in Int /\ v[m] \in Int /\ w[m] \in Int
        /\ O[m + 1] \in Int /\ Q[m + 1] \in Int /\ V[m + 1] \in Int /\ W[m + 1] \in Int
    BY <2>1
  <2>4. E(m)
    BY <1>6, <2>1
  <2>5. Q[m + 1] + (W[m + 1] + W[m + 1]) = O[m + 1] + (V[m + 1] + V[m + 1])
    BY <2>1 DEF InStep
  <2> DEFINE a == q[m]
             b == w[m]
             c == o[m]
             d == v[m]
             x == Q[m + 1]
             y == W[m + 1]
             z == O[m + 1]
             t == V[m + 1]
  <2>6. /\ a \in Int /\ b \in Int /\ c \in Int /\ d \in Int
        /\ x \in Int /\ y \in Int /\ z \in Int /\ t \in Int
        /\ a + (b + b) = c + (d + d) /\ x + (y + y) = z + (t + t)
    BY <2>3, <2>4, <2>5
  <2>7. (a + x) + ((b + y) + (b + y)) = (c + z) + ((d + t) + (d + t))
    <3> HIDE DEF a, b, c, d, x, y, z, t
    <3> QED BY <2>6
  <2> QED BY <2>2, <2>7
<1>7. L \in T
  <2> HIDE DEF T
  <2> QED BY <1>5, <1>6, NatSetInduction
<1>8. /\ Total(Q) \in Int /\ Total(O) \in Int /\ Total(V) \in Int /\ Total(W) \in Int
      /\ Total(Q) + (Total(W) + Total(W)) = Total(O) + (Total(V) + Total(V))
  BY <1>1, <1>2, <1>3, <1>4, <1>7
<1> QED BY <1>8 DEF TotalsInStep

----------------------------------------------------------------------------
(* The paired report.                                                      *)

\* An incident both arms resolved: without latency, they differ by the penalties
\* of their wrong actions, up to the second MTTR is cut by.
LEMMA PairDiffers ==
  ASSUME NEW i \in Scenario, NEW r, NEW s, ResultOK(i, r), ResultOK(i, s),
         r.resolved = TRUE, s.resolved = TRUE
  PROVE  LET penalty == (r.wrong - s.wrong) * OracleFor(i).wrong_action_penalty_seconds
             a == r.mttr * Second - r.seconds
             b == s.mttr * Second - s.seconds
         IN a \in Int /\ b \in Int /\ penalty \in Int /\ a - b - penalty \in (-1)..1
<1> DEFINE P == OracleFor(i).wrong_action_penalty_seconds
           R == Len(Required(i)) * OracleFor(i).action_seconds
           m == r.mttr * Second
           n == s.mttr * Second
           x == r.wrong * P
           y == s.wrong * P
           t == r.seconds
           u == s.seconds
<1>1. /\ P \in Nat /\ OracleFor(i).action_seconds \in Nat /\ Len(Required(i)) \in Nat
  BY ConductorAssumption
<1>2. /\ r.wrong \in Nat /\ s.wrong \in Nat /\ t \in Nat /\ u \in Nat
      /\ r.mttr \in Nat /\ s.mttr \in Nat
      /\ Elapsed(i, t, Len(Required(i)), r.wrong) - m \in 0..(Second - 1)
      /\ Elapsed(i, u, Len(Required(i)), s.wrong) - n \in 0..(Second - 1)
  BY DEF ResultOK
<1>3. /\ Elapsed(i, t, Len(Required(i)), r.wrong) = t + R + x
      /\ Elapsed(i, u, Len(Required(i)), s.wrong) = u + R + y
  BY DEF Elapsed
<1>4. R \in Nat /\ m \in Nat /\ n \in Nat
  <2>1. R \in Nat
    BY <1>1, Times
  <2>2. m \in Nat /\ n \in Nat
    BY <1>2 DEF Second
  <2> QED BY <2>1, <2>2
<1>5. x \in Nat /\ y \in Nat /\ (r.wrong - s.wrong) * P = x - y
  <2> DEFINE j == r.wrong
             k == s.wrong
  <2>1. j \in Nat /\ k \in Nat /\ P \in Nat
    BY <1>1, <1>2
  <2> HIDE DEF j, k, P
  <2>2. j * P \in Nat /\ k * P \in Nat /\ (j - k) * P = j * P - k * P
    BY <2>1
  <2> QED BY <2>2 DEF j, k
<1>6. t + R + x - m \in 0..1 /\ u + R + y - n \in 0..1
  <2>1. Second - 1 = 1
    BY DEF Second
  <2> HIDE DEF R, m, n, x, y, t, u
  <2> DEFINE a == Elapsed(i, t, Len(Required(i)), r.wrong)
             b == Elapsed(i, u, Len(Required(i)), s.wrong)
  <2>2. a = t + R + x /\ b = u + R + y /\ a - m \in 0..1 /\ b - n \in 0..1
    BY <1>2, <1>3, <2>1
  <2>3. t \in Nat /\ u \in Nat
    BY <1>2
  <2> HIDE DEF a, b
  <2> QED BY <1>4, <1>5, <2>2, <2>3
<1>7. t \in Nat /\ u \in Nat
  BY <1>2
<1> HIDE DEF R, m, n, x, y, t, u
<1>8. m - t \in Int /\ n - u \in Int /\ x - y \in Int /\ (m - t) - (n - u) - (x - y) \in (-1)..1
  BY <1>4, <1>5, <1>6, <1>7
<1> QED BY <1>5, <1>8 DEF m, n, t, u

\* The report of a finished run of the agent, from its two complete arms: deltas
\* of time, wrong actions, failed orders and resolution rate are consistent.
THEOREM ReportsAgree == Spec => []ReportAgrees
<1>1. EInv => ReportAgrees
  <2> SUFFICES ASSUME EInv, pc = "done", setup.harness = "agent" PROVE ReportAgrees
    BY DEF ReportAgrees
  <2> DEFINE M == results[1]
             B == results[2]
             L == Len(setup.stream)
             d == PairedDelta(M, B)
             both == {n \in DOMAIN M : M[n].resolved /\ B[n].resolved}
             only == {n \in DOMAIN M : M[n].resolved /\ ~B[n].resolved}
             missed == {n \in DOMAIN M : B[n].resolved /\ ~M[n].resolved}
             won == {n \in DOMAIN M : M[n].resolved}
             lost == {n \in DOMAIN M : B[n].resolved}
             act(r) == [n \in DOMAIN M |-> IF n \in both
                                             THEN r[n].mttr * Second - r[n].seconds ELSE 0]
             wrong(r) == [n \in DOMAIN M |-> r[n].wrong]
             orders(r) == [n \in DOMAIN M |-> r[n].orders]
             penalty == [n \in DOMAIN M |->
                           IF n \in both
                             THEN (M[n].wrong - B[n].wrong)
                                    * OracleFor(setup.stream[n]).wrong_action_penalty_seconds
                             ELSE 0]
  <2>1. Control /\ Recorded /\ arm = 2 /\ setup.stream \in Seq(Scenario) /\ L \in Nat
    <3>1. Control /\ Recorded
      BY DEF EInv
    <3>2. arm = 2
      BY <3>1, ArmCount DEF Control
    <3> QED BY <3>1, <3>2, EvaluationAssumption DEF Control
  <2>2. DOMAIN M = 1..L /\ DOMAIN B = 1..L
    <3>1. IsList(M) /\ IsList(B) /\ Len(M) = L /\ Len(B) <= L /\ ~(Len(B) < L)
      BY <2>1 DEF Control, Remaining
    <3> QED BY <2>1, <3>1 DEF IsList
  <2>3. ASSUME NEW n \in 1..L
        PROVE  /\ setup.stream[n] \in Scenario
               /\ ResultOK(setup.stream[n], M[n]) /\ ResultOK(setup.stream[n], B[n])
    BY <2>1, <2>2 DEF Recorded
  <2>4. /\ d.both = both /\ d.memory_only = only /\ d.baseline_only = missed
        /\ d.resolution_delta = Cardinality(won) - Cardinality(lost)
        /\ d.act_delta = Total(act(M)) - Total(act(B))
        /\ d.wrong_delta = Total(wrong(M)) - Total(wrong(B))
        /\ d.orders_avoided = Total(orders(B)) - Total(orders(M))
    BY DEF PairedDelta
  <2>5. both \in SUBSET (1..L)
    BY <2>2
  <2>6. ASSUME NEW n \in both
        PROVE  /\ act(M)[n] \in Int /\ act(B)[n] \in Int /\ penalty[n] \in Int
               /\ act(M)[n] - act(B)[n] - penalty[n] \in (-1)..1
    <3>1. n \in 1..L /\ M[n].resolved = TRUE /\ B[n].resolved = TRUE
      BY <2>2, <2>3 DEF ResultOK
    <3>2. /\ act(M)[n] = M[n].mttr * Second - M[n].seconds
          /\ act(B)[n] = B[n].mttr * Second - B[n].seconds
          /\ penalty[n] = (M[n].wrong - B[n].wrong)
                            * OracleFor(setup.stream[n]).wrong_action_penalty_seconds
      OBVIOUS
    <3> HIDE DEF act, penalty, M, B, both
    <3> QED BY <2>3, <3>1, <3>2, PairDiffers
  <2>7. ASSUME NEW n \in 1..L, n \notin both
        PROVE  act(M)[n] = 0 /\ act(B)[n] = 0 /\ penalty[n] = 0
    BY <2>2, <2>7
  <2>8. /\ DOMAIN act(M) = 1..L /\ DOMAIN act(B) = 1..L /\ DOMAIN penalty = 1..L
        /\ act(M) = [n \in 1..L |-> act(M)[n]] /\ act(B) = [n \in 1..L |-> act(B)[n]]
        /\ penalty = [n \in 1..L |-> penalty[n]]
    BY <2>2
  <2>9. /\ act(M) \in [1..L -> Int] /\ act(B) \in [1..L -> Int] /\ penalty \in [1..L -> Int]
        /\ Apart(L, act(M), act(B), penalty, both)
    <3> HIDE DEF act, penalty, both, L
    <3>1. \A n \in 1..L : act(M)[n] \in Int /\ act(B)[n] \in Int /\ penalty[n] \in Int
      BY <2>6, <2>7
    <3>2. Apart(L, act(M), act(B), penalty, both)
      BY <2>6, <2>7 DEF Apart
    <3> QED BY <2>8, <3>1, <3>2
  <2>10. /\ IsFiniteSet(both) /\ Cardinality(both) \in Nat
         /\ Total(act(M)) - Total(act(B)) - Total(penalty)
              \in (-Cardinality(both))..Cardinality(both)
    <3> HIDE DEF act, penalty, both, L
    <3> QED BY <2>1, <2>5, <2>9, TotalsApart
  <2>11. Total(orders(B)) - Total(orders(M)) = -2 * (Total(wrong(M)) - Total(wrong(B)))
    <3>1. ASSUME NEW n \in 1..L
          PROVE  /\ orders(M)[n] \in Int /\ orders(B)[n] \in Int
                 /\ wrong(M)[n] \in Int /\ wrong(B)[n] \in Int
                 /\ orders(B)[n] + (wrong(M)[n] + wrong(M)[n])
                      = orders(M)[n] + (wrong(B)[n] + wrong(B)[n])
      <4> DEFINE i == setup.stream[n]
                 f == Fault[i].failed_orders
                 x == M[n].wrong
                 y == B[n].wrong
      <4>1. /\ x \in Nat /\ y \in Nat /\ M[n].orders = f + 2 * x /\ B[n].orders = f + 2 * y
        BY <2>3 DEF ResultOK
      <4>2. f \in Nat
        BY <2>3, ConductorAssumption
      <4>3. /\ orders(M)[n] = M[n].orders /\ orders(B)[n] = B[n].orders
            /\ wrong(M)[n] = x /\ wrong(B)[n] = y
        BY <2>2
      <4> HIDE DEF f, x, y, orders, wrong
      <4> QED BY <4>1, <4>2, <4>3
    <3>2. /\ orders(M) = [n \in 1..L |-> orders(M)[n]] /\ orders(B) = [n \in 1..L |-> orders(B)[n]]
          /\ wrong(M) = [n \in 1..L |-> wrong(M)[n]] /\ wrong(B) = [n \in 1..L |-> wrong(B)[n]]
      BY <2>2
    <3> HIDE DEF orders, wrong, L
    <3>3. /\ orders(M) \in [1..L -> Int] /\ orders(B) \in [1..L -> Int]
          /\ wrong(M) \in [1..L -> Int] /\ wrong(B) \in [1..L -> Int]
      BY <3>1, <3>2
    <3>4. InStep(L, orders(M), orders(B), wrong(B), wrong(M))
      BY <3>1 DEF InStep
    <3> DEFINE O == orders(M)
               Q == orders(B)
               V == wrong(B)
               W == wrong(M)
    <3>5. /\ O \in [1..L -> Int] /\ Q \in [1..L -> Int] /\ V \in [1..L -> Int]
          /\ W \in [1..L -> Int] /\ InStep(L, O, Q, V, W) /\ L \in Nat
      BY <2>1, <3>3, <3>4
    <3> HIDE DEF O, Q, V, W
    <3>0. TotalsInStep(O, Q, V, W)
      BY <3>5, TotalsFollow
    <3> DEFINE a == Total(Q)
               b == Total(W)
               c == Total(O)
               e == Total(V)
    <3>6. a \in Int /\ b \in Int /\ c \in Int /\ e \in Int /\ a + (b + b) = c + (e + e)
      BY <3>0 DEF TotalsInStep
    <3>7. a - c = -2 * (b - e)
      <4> HIDE DEF a, b, c, e
      <4> QED BY <3>6
    <3> QED BY <3>7 DEF O, Q, V, W
  <2>12. Cardinality(won) - Cardinality(lost) = Cardinality(only) - Cardinality(missed)
    <3>1. IsFiniteSet(won) /\ IsFiniteSet(lost)
      <4>1. won \in SUBSET (1..L) /\ lost \in SUBSET (1..L) /\ IsFiniteSet(1..L)
        BY <2>1, <2>2, FS_Interval
      <4> HIDE DEF won, lost
      <4> QED BY <4>1, FS_Subset
    <3>2. only = won \ lost /\ missed = lost \ won /\ won \cap lost = lost \cap won
      OBVIOUS
    <3> HIDE DEF only, missed, won, lost
    <3>3. /\ Cardinality(won \ lost) = Cardinality(won) - Cardinality(won \cap lost)
          /\ Cardinality(lost \ won) = Cardinality(lost) - Cardinality(lost \cap won)
      BY <3>1, FS_Difference
    <3>4. /\ Cardinality(won) \in Nat /\ Cardinality(lost) \in Nat
          /\ Cardinality(won \cap lost) \in Nat
      BY <3>1, FS_CardinalityType, FS_Intersection
    <3> QED BY <3>2, <3>3, <3>4
  <2>13. /\ d.act_delta - Total(penalty)
              \in (-(Cardinality(d.both) * (Second - 1)))..(Cardinality(d.both) * (Second - 1))
         /\ d.orders_avoided = -2 * d.wrong_delta
         /\ d.resolution_delta = Cardinality(d.memory_only) - Cardinality(d.baseline_only)
    <3> HIDE DEF d, act, wrong, orders, penalty, both, only, missed, won, lost
    <3>1. Cardinality(both) * (Second - 1) = Cardinality(both)
      BY <2>10 DEF Second
    <3> QED BY <2>4, <2>10, <2>11, <2>12, <3>1
  <2> HIDE DEF d
  <2> QED BY <2>4, <2>13 DEF ReportAgrees, d
<1> QED BY <1>1, EInvAlways, PTL
=============================================================================
