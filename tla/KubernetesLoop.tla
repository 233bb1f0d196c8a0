---------------------------- MODULE KubernetesLoop ----------------------------
(***************************************************************************)
(* Several agents that change one Kubernetes cluster through the           *)
(* controller and the gateway, as the end-to-end test                      *)
(* (adapters/kubernetes/tests/k8sAdapter.test.ts) and the demo             *)
(* (bin/cac-demo.ts) drive one: inspect, evaluate, take the live state,    *)
(* dispatch.  Between the inspections, before the dispatch, and in the     *)
(* awaits of the gateway, after which the adapter runs, the other agents   *)
(* and the cluster move.  Module Gateway has those awaits; each agent has  *)
(* a certificate of its own and presents it once.                          *)
(***************************************************************************)
EXTENDS KubernetesCluster, Controller, AdmissionValidation

CONSTANTS
  Agents, Proposals, InitialClusters,
  NewPods,               \* the pods that may be scheduled meanwhile, by name
  RuleFreshness,         \* rule id -> maxFreshnessMs
  MaxTime, MaxMoves      \* bounds of the model

NoCertificate == [wellFormed |-> FALSE]

VARIABLES
  now, moves,
  cluster,
  dryRun,        \* the adapter's dryRun, fixed for the run
  proposal,      \* agent -> what it asks for
  unseen,        \* agent -> the rules it has still to inspect for
  pool,          \* agent -> its receipts
  phase,
  certificate,
  outcome        \* agent -> the adapter's outcome, once dispatched

vars == <<now, moves, cluster, dryRun, proposal, unseen, pool, phase, certificate, outcome>>

(* Objects by name, none with a version ahead of the counter: addNode sees *)
(* to that, and whoever adds a deployment or a policy has to.              *)
Versioned(objects, counter) ==
  /\ objects = [o \in DOMAIN objects |-> objects[o]]
  /\ \A o \in DOMAIN objects :
       "version" \in DOMAIN objects[o] /\ objects[o].version \in 1..counter

(* A cluster of the interfaces of types.ts, as far as anything reads them, *)
(* every token of which has been issued.                                   *)
WellFormed(c) ==
  /\ c = [ nodes |-> c.nodes, pods |-> c.pods, deployments |-> c.deployments,
           policies |-> c.policies, pdbs |-> c.pdbs, counter |-> c.counter,
           tokens |-> c.tokens, issued |-> c.issued ]
  /\ c.counter \in Nat \ {0} /\ c.issued \in Nat /\ c.tokens \subseteq 1..c.issued
  /\ c.nodes \in
       [DOMAIN c.nodes -> [schedulable : BOOLEAN, ready : BOOLEAN, version : 1..c.counter]]
  /\ c.pods = [p \in DOMAIN c.pods |-> c.pods[p]] /\ IsFiniteSet(DOMAIN c.pods)
  /\ Versioned(c.deployments, c.counter) /\ Versioned(c.policies, c.counter)

ASSUME KubernetesLoopAssumption ==
  /\ MaxTime \in Nat /\ MaxMoves \in Nat /\ IsFiniteSet(Agents)
  /\ \A c \in InitialClusters : WellFormed(c)

------------------------------------------------------------------------------
Scope == {<<"kubernetes", ClusterName>>}

Clause(field, typed, holds) ==
  [field |-> field, typed |-> typed, holds |-> holds, comparable |-> TRUE]

Rule(id, predicate, templates) ==
  [ id |-> id, kind |-> "OBSERVE", required |-> TRUE, scope |-> Scope,
    maxFreshness |-> RuleFreshness[id], classes |-> {"KUBERNETES_OBSERVATION"},
    predicate |-> predicate, priorities |-> <<>>, minCardinality |-> 0,
    minPrincipals |-> 0, reconcile |-> FALSE, efd |-> {}, guardTemplates |-> templates ]

(* The dimensions of a threshold, as ranks in the schemas' orders.         *)
Threshold(severity, irreversibility, uncertainty, plausibility) ==
  [ consequenceSeverity |-> severity, blastRadius |-> 1, irreversibility |-> irreversibility,
    epistemicUncertainty |-> uncertainty, dependencyExposure |-> 2,
    adversePlausibility |-> plausibility ]

K8sDrainNodePolicyProfile ==
  [ epoch |-> "k8s", threshold |-> Threshold(2, 1, 1, 1),
    invariants |-> {"node_in_cluster_scope"},
    rules |->
      << Rule("omega-k8s-node-ready",
           {Clause("ready", BOOLEAN, {TRUE}), Clause("schedulable", BOOLEAN, {TRUE})},
           {[id |-> "guard-node-schedulable", target |-> "node.schedulable",
             extractor |-> "true"]}),
         Rule("omega-k8s-pdb-safe", {Clause("disruptionsAllowed", Nat, Nat \ {0})}, {}) >> ]

K8sRolloutPolicyProfile ==
  [ epoch |-> "k8s", threshold |-> Threshold(1, 0, 0, 0),
    invariants |-> {"deployment_in_cluster_scope"},
    rules |-> << Rule("omega-k8s-dep-health", {Clause("readyReplicas", Nat, Nat \ {0})}, {}) >> ]

K8sApplyNetworkPolicyProfile ==
  [ epoch |-> "k8s", threshold |-> Threshold(2, 1, 1, 1), invariants |-> {},
    rules |->
      << Rule("omega-k8s-netpol-obs", {Clause("rulesJson", STRING, STRING \ {""})}, {}) >> ]

PolicyFor(action) ==
  CASE action = "DrainNode" -> K8sDrainNodePolicyProfile
    [] action = "RolloutDeployment" -> K8sRolloutPolicyProfile
    [] OTHER -> K8sApplyNetworkPolicyProfile

(* A rule is inspected for on any object of its kind: nothing compares the *)
(* object a receipt speaks of with the one the proposal names.             *)
Claims(rule) ==
  CASE rule = "omega-k8s-node-ready" -> {NodeClaim(cluster, n) : n \in DOMAIN cluster.nodes}
    [] rule = "omega-k8s-pdb-safe" -> {PDBClaim(cluster, b) : b \in DOMAIN cluster.pdbs}
    [] rule = "omega-k8s-dep-health" ->
         {DeploymentClaim(cluster, d) : d \in DOMAIN cluster.deployments}
    [] OTHER -> {NetworkPolicyClaim(cluster, "netpol")}

Receipt(a, rule, class, principal, claim) ==
  [ id |-> <<a, rule, principal>>, source |-> principal, class |-> class, scope |-> Scope,
    principal |-> principal, authentic |-> TRUE, version |-> cluster.counter,
    observedAt |-> now, claim |-> claim ]

Rules(a) == {r.id : r \in ToSet(PolicyFor(proposal[a].action).rules)}

Init ==
  /\ now = 0 /\ moves = 0
  /\ cluster \in InitialClusters
  /\ dryRun \in BOOLEAN
  /\ proposal \in [Agents -> Proposals]
  /\ unseen = [a \in Agents |-> Rules(a)]
  /\ pool = [a \in Agents |-> {}]
  /\ phase = [a \in Agents |-> "inspect"]
  /\ certificate = [a \in Agents |-> NoCertificate]
  /\ outcome = [a \in Agents |-> "NONE"]

TypeOK ==
  /\ now \in 0..MaxTime /\ moves \in 0..MaxMoves
  /\ phase \in [Agents -> {"inspect", "present", "execute", "done", "closed", "blocked"}]
  /\ outcome \in [Agents -> {"NONE", "SUCCESS", "FAILED"}]
  /\ \A a \in Agents : outcome[a] = "NONE" <=> phase[a] # "done"
  /\ dryRun \in BOOLEAN
  /\ WellFormed(cluster)

------------------------------------------------------------------------------
Inspect(a) ==
  /\ phase[a] = "inspect"
  /\ \E rule \in unseen[a] : \E claim \in Claims(rule) :
       /\ unseen' = [unseen EXCEPT ![a] = @ \ {rule}]
       /\ pool' = [pool EXCEPT ![a] = @ \cup
            {Receipt(a, rule, "KUBERNETES_OBSERVATION", "cac.k8s.observer", claim)}]
  /\ UNCHANGED <<now, moves, cluster, dryRun, proposal, phase, certificate, outcome>>

(* Two people sign for the action.                                         *)
Approve(a) ==
  /\ phase[a] = "inspect" /\ proposal[a].action = "RolloutDeployment"
  /\ ~\E r \in pool[a] : r.class = "DUAL_SIGNATURE_RECEIPT"
  /\ pool' = [pool EXCEPT ![a] = @ \cup
       {Receipt(a, "approval", "DUAL_SIGNATURE_RECEIPT", p,
                [human_sre_dual_authorization |-> TRUE]) : p \in {"sre1", "sre2"}}]
  /\ UNCHANGED <<now, moves, cluster, dryRun, proposal, unseen, phase, certificate, outcome>>

Context(a) ==
  [ time |-> now, deadline |-> MaxTime, tokens |-> 1, turns |-> 1, profiles |-> <<>>,
    allowed |-> [p \in {proposal[a].principal} |->
                   {<<proposal[a].action, item>> : item \in proposal[a].scope}] ]

Evaluate(a) ==
  /\ phase[a] = "inspect" /\ unseen[a] = {}
  /\ LET verdict == Evaluation(proposal[a], VisibleState(cluster),
                      PolicyFor(proposal[a].action), pool[a], Context(a)) IN
       IF verdict.kind = "PERMIT"
         THEN /\ certificate' = [certificate EXCEPT ![a] = verdict.certificate]
              /\ phase' = [phase EXCEPT ![a] = "present"]
         ELSE /\ phase' = [phase EXCEPT ![a] = "closed"]
              /\ UNCHANGED certificate
  /\ UNCHANGED <<now, moves, cluster, dryRun, proposal, unseen, pool, outcome>>

(* authorizedDispatch up to its last await, on the live state it is given. *)
Present(a) ==
  /\ phase[a] = "present"
  /\ LET request == [certificate |-> certificate[a], requester |-> proposal[a].principal,
                     proposal |-> proposal[a]]
         sample == [time |-> now, view |-> VisibleState(cluster), policyEpoch |-> "k8s"]
     IN  phase' = [phase EXCEPT ![a] =
           IF PresentationValid(request, now) /\ SampledStateValid(request, sample, FALSE)
             THEN "execute" ELSE "blocked"]
  /\ UNCHANGED <<now, moves, cluster, dryRun, proposal, unseen, pool, certificate, outcome>>

(* The adapter, called after the awaits of the gateway.                    *)
Dispatch(a) ==
  /\ phase[a] = "execute"
  /\ LET result == Execute(cluster, proposal[a].action, proposal[a].params, dryRun) IN
       /\ cluster' = result.cluster
       /\ outcome' = [outcome EXCEPT ![a] = result.outcome]
  /\ phase' = [phase EXCEPT ![a] = "done"]
  /\ UNCHANGED <<now, moves, dryRun, proposal, unseen, pool, certificate>>

(* A caller that goes past the gateway and has no token.                   *)
RawUpdate ==
  /\ \E n \in DOMAIN cluster.nodes :
       cluster' = UpdateNode(cluster, n, [cluster.nodes[n] EXCEPT !.schedulable = FALSE],
                             {}, NoToken).cluster
  /\ UNCHANGED <<now, moves, dryRun, proposal, unseen, pool, phase, certificate, outcome>>

(* The cluster's own controllers: they do not pass the webhook.            *)
ClusterMoves ==
  /\ moves < MaxMoves /\ moves' = moves + 1
  /\ \/ \E b \in DOMAIN cluster.pdbs : \E allowed \in 0..1 :
          /\ allowed # cluster.pdbs[b].allowed
          /\ cluster' = [cluster EXCEPT !.pdbs[b].allowed = allowed]
     \/ \E n \in DOMAIN cluster.nodes :
          cluster' = [cluster EXCEPT !.nodes[n].ready = ~cluster.nodes[n].ready]
     \/ \E p \in DOMAIN NewPods :
          /\ p \notin DOMAIN cluster.pods
          /\ NewPods[p].node \in DOMAIN cluster.nodes
          /\ cluster.nodes[NewPods[p].node].schedulable
          /\ cluster' = AddPod(cluster, p, NewPods[p])
  /\ UNCHANGED <<now, dryRun, proposal, unseen, pool, phase, certificate, outcome>>

Tick ==
  /\ now < MaxTime /\ now' = now + 1
  /\ UNCHANGED <<moves, cluster, dryRun, proposal, unseen, pool, phase, certificate, outcome>>

Next ==
  \/ \E a \in Agents : Inspect(a) \/ Approve(a) \/ Evaluate(a) \/ Present(a) \/ Dispatch(a)
  \/ RawUpdate \/ ClusterMoves \/ Tick

Spec == Init /\ [][Next]_vars

------------------------------------------------------------------------------
(* What the webhook guards: cordons, evictions, images, network policies.  *)
Mutations(c, d) ==
  Cardinality({n \in DOMAIN c.nodes : c.nodes[n].schedulable # d.nodes[n].schedulable})
    + Cardinality(DOMAIN c.pods \ DOMAIN d.pods)
    + Cardinality({x \in DOMAIN c.deployments : c.deployments[x] # d.deployments[x]})
    + Cardinality({p \in DOMAIN d.policies :
                     p \notin DOMAIN c.policies \/ c.policies[p] # d.policies[p]})

Spent(c) == c.issued - Cardinality(c.tokens)

(* "intercepts any mutation" with a "single-use" token (clientModel.ts):   *)
(* however many objects one call changes, each change has used up a token  *)
(* of its own, and no call gives one back.                                 *)
TokenPerMutation == [][Mutations(cluster, cluster') <= Spent(cluster') - Spent(cluster)]_vars

(* Optimistic concurrency (Mode B): of two proposals that name the same    *)
(* version of one node or deployment at most one is carried out, wherever  *)
(* the awaits of the two dispatches fall.                                  *)
VersionedUpdatesSerialise ==
  \A a, b \in Agents :
    /\ a # b /\ ~dryRun /\ outcome[a] = "SUCCESS" /\ outcome[b] = "SUCCESS"
    /\ proposal[a].action = proposal[b].action
    /\ proposal[a].action \in {"DrainNode", "RolloutDeployment"}
    /\ proposal[a].params = proposal[b].params
    => ExpectedVersion(proposal[a].params) = {}

(* A drain is all or nothing: refused, whatever refused it, or dry, it     *)
(* leaves nodes and pods as they are; carried out, it leaves no pod on the *)
(* node, and no budget of an evicted pod was exhausted.                    *)
DrainIsAtomic ==
  [][\A a \in Agents :
       proposal[a].action = "DrainNode" /\ phase[a] = "execute" /\ phase'[a] = "done" =>
         IF outcome'[a] = "FAILED" \/ dryRun
           THEN cluster'.nodes = cluster.nodes /\ cluster'.pods = cluster.pods
           ELSE LET name == proposal[a].params.nodeName IN
                  /\ PodsOn(cluster', name) = {}
                  /\ ~cluster'.nodes[name].schedulable
                  /\ \A p \in DOMAIN cluster.pods \ DOMAIN cluster'.pods :
                       \A b \in DOMAIN cluster.pdbs :
                         Selects(cluster.pdbs[b], cluster.pods[p]) =>
                           cluster.pdbs[b].allowed > 0]_vars

(* A receipt whose version is the cluster's tells no untruth about what    *)
(* mediated actions change on nodes: eligibility looks at the version      *)
(* only, so every cordon and every eviction has to move it.                *)
CurrentVersionIsTrue ==
  \A a \in Agents : \A r \in pool[a] :
    r.version = cluster.counter /\ "podsOnNode" \in DOMAIN r.claim =>
      /\ r.claim.schedulable = cluster.nodes[r.claim.node].schedulable
      /\ r.claim.podsOnNode \subseteq PodsOn(cluster, r.claim.node)

=============================================================================
