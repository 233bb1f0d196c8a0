----------------------------- MODULE MCWorkLoop -----------------------------
(* Values for WorkLoop: the PostgreSQL failover of the repository's policy *)
(* (postgresPolicy.ts), with its times scaled down, and variants of it.    *)
EXTENDS WorkLoop

Cluster == "prod-cluster-a"
Scope == {<<"postgres", Cluster>>}
Lags == {512, 2000000}

Clause(field, typed, holds) ==
  [field |-> field, typed |-> typed, holds |-> holds, comparable |-> TRUE]

Rule(id, freshness, class, predicate, templates) ==
  [ id |-> id, kind |-> "OBSERVE", required |-> TRUE, scope |-> Scope,
    maxFreshness |-> freshness, classes |-> {class}, predicate |-> predicate,
    priorities |-> <<>>, minCardinality |-> 0, minPrincipals |-> 0,
    reconcile |-> FALSE, efd |-> {}, guardTemplates |-> templates ]

Template(id, target, extractor) == [id |-> id, target |-> target, extractor |-> extractor]

LagRule == Rule("omega-1-replication-lag", 1, "POSTGRES_TELEMETRY",
  {Clause("replicationLagBytes", Lags, {512})},
  {Template("guard-primary-cluster", "cluster.id", "params.clusterId")})
HealthRule == Rule("omega-2-standby-health", 2, "POSTGRES_TELEMETRY",
  {Clause("is_in_recovery", BOOLEAN, {TRUE}), Clause("role", {"standby", "offline"}, {"standby"})},
  {Template("guard-candidate-role", "candidate.role", "literal.standby"),
   Template("guard-candidate-identity", "candidate.identity", "params.candidateStandby")})
RollbackRule == Rule("omega-3-rollback-artifact", 3, "ROLLBACK_ATTESTATION",
  {Clause("valid_rollback_snapshot", BOOLEAN, {TRUE})}, {})

Threshold ==
  [ consequenceSeverity |-> 2, blastRadius |-> 1, irreversibility |-> 1,
    epistemicUncertainty |-> 1, dependencyExposure |-> 2, adversePlausibility |-> 1 ]
Policy(rules) ==
  [ epoch |-> "q3", rules |-> rules, threshold |-> Threshold,
    invariants |-> {"cluster_matches_target_scope", "candidate_differs_from_active_primary"} ]

MCPolicies ==
  { Policy(<<LagRule, HealthRule, RollbackRule>>),
    Policy(<<[LagRule EXCEPT !.required = FALSE], HealthRule>>),
    Policy(<<[LagRule EXCEPT !.priorities = [a |-> 1], !.maxFreshness = 2]>>),
    Policy(<<[HealthRule EXCEPT
               !.guardTemplates = {Template("guard-role", "role", "state.role")}]>>) }

Proposal(candidate, version) ==
  [ principal |-> "agent", action |-> "FailoverDatabase", scope |-> Scope,
    params |-> [clusterId |-> Cluster, candidateStandby |-> candidate],
    observedVersion |-> version ]
MCProposals == {Proposal("replica-02", "v1"), Proposal("replica-01", "v1")}

World(lag, role, rollback, version) ==
  [ facts |-> [replicationLagBytes |-> lag, role |-> role,
               is_in_recovery |-> (role = "standby"), valid_rollback_snapshot |-> rollback],
    view |-> [clusterId |-> Cluster, observedVersion |-> version,
              activeNodes |-> {"replica-01", "replica-02"}, firstNode |-> "replica-01",
              candidateRole |-> role, replicationEpoch |-> 1, schedulable |-> <<>>] ]
MCWorlds ==
  { World(512, "standby", TRUE, "v1"), World(2000000, "standby", TRUE, "v1"),
    World(512, "offline", TRUE, "v1"), World(512, "standby", FALSE, "v2") }

Sensor(source, class, fields) ==
  [ source |-> source, class |-> class, scope |-> Scope, fields |-> fields,
    principal |-> source, exposures |-> {} ]
LagA == Sensor("a", "POSTGRES_TELEMETRY", {"replicationLagBytes"})
LagB == Sensor("b", "POSTGRES_TELEMETRY", {"replicationLagBytes"})
Health == Sensor("a", "POSTGRES_TELEMETRY", {"is_in_recovery", "role"})
Backup == Sensor("backup", "ROLLBACK_ATTESTATION", {"valid_rollback_snapshot"})
MCSensorsFor == [id \in {LagRule.id, HealthRule.id, RollbackRule.id} |->
  CASE id = LagRule.id -> {LagB}
    [] id = HealthRule.id -> {Health}
    [] id = RollbackRule.id -> {Backup}]

Receipt(id, sensor, time, version, claim, authentic) ==
  [ id |-> <<id>>, source |-> sensor.source, class |-> sensor.class, scope |-> sensor.scope,
    principal |-> sensor.principal, authentic |-> authentic, version |-> version,
    observedAt |-> time, claim |-> claim ]
Early(w) ==
  Receipt("early", Backup, -1, w.view.observedVersion,
    [valid_rollback_snapshot |-> w.facts.valid_rollback_snapshot], TRUE)
Forged(w) ==
  { Receipt("early", Backup, -1, w.view.observedVersion, [valid_rollback_snapshot |-> TRUE], FALSE),
    Receipt("forged", LagA, 1, w.view.observedVersion, [replicationLagBytes |-> 512], FALSE) }
(* The lag was too great before the loop began; since then it may not be.  *)
Contested(w) ==
  { Receipt("before", LagA, -1, w.view.observedVersion, [replicationLagBytes |-> 2000000], TRUE),
    Receipt("now", LagB, 0, w.view.observedVersion,
      [replicationLagBytes |-> w.facts.replicationLagBytes], TRUE) }
MCInitialPools == [w \in MCWorlds |->
  {{}, {Early(w)} \cup Forged(w)}
    \cup IF w.facts.role = "standby" /\ w.view.observedVersion = "v1" THEN {Contested(w)} ELSE {}]

MCInitialGrants == [p \in {"agent"} |-> {<<"FailoverDatabase", item>> : item \in Scope}]
MCSeverity == [e \in {Cluster} |-> 2]
MCDependents == [e \in {Cluster} |-> 0]
MCProfiles == <<>>
MCLies == {}
MCFaultSets == {{}}

=============================================================================
