-------------------------- MODULE KubernetesCluster --------------------------
(***************************************************************************)
(* The in-process Kubernetes cluster (adapters/kubernetes/src              *)
(* /clientModel.ts), its observer (observer.ts) and the adapter through    *)
(* which the gateway changes it (mutationAdapter.ts), as functions of a    *)
(* cluster.  Every one of them runs without an await, so each call is one  *)
(* step of its caller.                                                     *)
(*                                                                         *)
(* A cluster is a record of                                                *)
(*   nodes        name -> [schedulable, ready, version]                    *)
(*   pods         name -> [node, labels]                                   *)
(*   deployments  name -> [image, generation, readyReplicas, version]      *)
(*   policies     name -> [rules, version], the network policies           *)
(*   pdbs         name -> [selector, allowed], the disruption budgets      *)
(*   counter      currentVersionCounter                                    *)
(*   tokens       activeDispatchTokens; a token, a fresh uuid in the code, *)
(*                is the number of tokens issued when it was made          *)
(*   issued       that number                                              *)
(* A pod or budget has a version too, which nothing reads.  Labels are a   *)
(* set of key-value pairs.  An expected version is a set of at most one.   *)
(* A function that may throw yields [ok, cluster].                         *)
(***************************************************************************)
EXTENDS Integers, FiniteSets, SequencesExt

CONSTANTS
  ClusterName,
  Mediated      \* enforceCompleteMediation

NoToken == 0

Done(c) == [ok |-> TRUE, cluster |-> c]
Thrown(c) == [ok |-> FALSE, cluster |-> c]

(* registerAuthorizedDispatchToken of a token made just now.               *)
Register(c) ==
  [c EXCEPT !.issued = c.issued + 1, !.tokens = c.tokens \cup {c.issued + 1}]

(* Mutant: the webhook leaves the token it accepted in the set.            *)
ReviewAdmission_Reusable(c, token) ==
  IF ~Mediated \/ token \in c.tokens THEN Done(c) ELSE Thrown(c)

(* reviewAdmission: a mutation spends the token it presents.               *)
ReviewAdmission(c, token) ==
  IF ~Mediated THEN Done(c)
  ELSE IF token \in c.tokens THEN Done([c EXCEPT !.tokens = c.tokens \ {token}])
  ELSE Thrown(c)

(* Mutant: an update keeps the version of the object.                      *)
NextResourceVersion_Kept(c) == c

(* nextResourceVersion: the version is the counter of the result.          *)
NextResourceVersion(c) == [c EXCEPT !.counter = c.counter + 1]

VersionMatches(object, expected) == expected \subseteq {object.version}

(* Mutant: every object counts its own versions.                           *)
Update_OwnCount(c, kind, name, mutated, expected, token) ==
  LET review == ReviewAdmission(c, token)
      current == c[kind][name]
  IN  IF name \notin DOMAIN c[kind] THEN Thrown(c)
      ELSE IF ~review.ok THEN Thrown(c)
      ELSE IF ~VersionMatches(current, expected) THEN Thrown(review.cluster)
      ELSE Done([review.cluster EXCEPT
                   ![kind][name] = [mutated EXCEPT !.version = current.version + 1]])

(* The shape updateNode, updateDeployment and updateNetworkPolicy share:   *)
(* the token is spent before the version is compared.                      *)
Update(c, kind, name, mutated, expected, token) ==
  LET review == ReviewAdmission(c, token)
      next == NextResourceVersion(review.cluster)
  IN  IF name \notin DOMAIN c[kind] THEN Thrown(c)
      ELSE IF ~review.ok THEN Thrown(c)
      ELSE IF ~VersionMatches(c[kind][name], expected) THEN Thrown(review.cluster)
      ELSE Done([next EXCEPT ![kind][name] = [mutated EXCEPT !.version = next.counter]])

UpdateNode(c, name, mutated, expected, token) ==
  Update(c, "nodes", name, mutated, expected, token)
UpdateDeployment(c, name, mutated, expected, token) ==
  Update(c, "deployments", name, mutated, expected, token)
UpdateNetworkPolicy(c, name, mutated, expected, token) ==
  Update(c, "policies", name, mutated, expected, token)

(* evictPod: no budget is charged and no version moves.                    *)
EvictPod(c, name, token) ==
  LET review == ReviewAdmission(c, token) IN
    IF name \notin DOMAIN c.pods \/ ~review.ok THEN c
    ELSE [review.cluster EXCEPT !.pods = [p \in DOMAIN c.pods \ {name} |-> c.pods[p]]]

(* The objects once one of them has been set, under a new name or an old.  *)
Put(objects, name, object) ==
  [o \in DOMAIN objects \cup {name} |-> IF o = name THEN object ELSE objects[o]]

(* addNode with a version, the counter never falling behind it.            *)
AddNode(c, name, node) ==
  [c EXCEPT !.nodes = Put(c.nodes, name, node), !.counter = Max({c.counter, node.version})]

(* addPod, without a version of its own: it takes the next one.            *)
AddPod(c, name, pod) ==
  [NextResourceVersion(c) EXCEPT !.pods = Put(c.pods, name, pod)]

(* addDeployment and addNetworkPolicy with a version: the counter stays.   *)
AddDeployment(c, name, deployment) ==
  [c EXCEPT !.deployments = Put(c.deployments, name, deployment)]
AddNetworkPolicy(c, name, policy) ==
  [c EXCEPT !.policies = Put(c.policies, name, policy)]

AddPDB(c, name, pdb) == [c EXCEPT !.pdbs = Put(c.pdbs, name, pdb)]

EmptyCluster ==
  [ nodes |-> <<>>, pods |-> <<>>, deployments |-> <<>>, policies |-> <<>>,
    pdbs |-> <<>>, counter |-> 1, tokens |-> {}, issued |-> 0 ]

(* getLiveState and getControllerVisibleState.                             *)
VisibleState(c) ==
  [ clusterId |-> ClusterName, observedVersion |-> c.counter,
    activeNodes |-> DOMAIN c.nodes, firstNode |-> CHOOSE n \in DOMAIN c.nodes : TRUE,
    candidateRole |-> "unknown", replicationEpoch |-> c.counter,
    schedulable |-> [n \in DOMAIN c.nodes |-> c.nodes[n].schedulable] ]

------------------------------------------------------------------------------
(* The claims of the observer's receipts; each is stamped with the counter *)
(* of the moment.  An object that is not there is reported too.            *)
NodeClaim(c, name) ==
  LET there == name \in DOMAIN c.nodes IN
    [ node |-> name,
      ready |-> there /\ c.nodes[name].ready,
      schedulable |-> there /\ c.nodes[name].schedulable,
      podsOnNode |-> {p \in DOMAIN c.pods : c.pods[p].node = name} ]

PDBClaim(c, name) ==
  [ pdb |-> name,
    disruptionsAllowed |-> IF name \in DOMAIN c.pdbs THEN c.pdbs[name].allowed ELSE 0 ]

DeploymentClaim(c, name) ==
  [ deployment |-> name,
    readyReplicas |->
      IF name \in DOMAIN c.deployments THEN c.deployments[name].readyReplicas ELSE 0 ]

NetworkPolicyClaim(c, name) ==
  [ policy |-> name,
    rulesJson |-> IF name \in DOMAIN c.policies THEN c.policies[name].rules ELSE "{}" ]

------------------------------------------------------------------------------
Outcome(outcome, c) == [outcome |-> outcome, cluster |-> c]
Settled(result) == Outcome(IF result.ok THEN "SUCCESS" ELSE "FAILED", result.cluster)

PodsOn(c, name) == {p \in DOMAIN c.pods : c.pods[p].node = name}

Selects(pdb, pod) == pdb.selector \subseteq pod.labels

(* Every budget that selects a pod of the node allows a disruption.        *)
BudgetsAllow(c, name) ==
  \A p \in PodsOn(c, name) : \A b \in DOMAIN c.pdbs :
    Selects(c.pdbs[b], c.pods[p]) => c.pdbs[b].allowed > 0

(* Step 2 of a drain: each pod with a token of its own.                    *)
EvictAll(c, names) ==
  LET Evict(d, name) ==
        LET registered == Register(d) IN EvictPod(registered, name, registered.issued)
  IN  FoldLeft(Evict, c, SetToSeq(names))

Cordon(c, name, expected, token) ==
  UpdateNode(c, name, [c.nodes[name] EXCEPT !.schedulable = FALSE], expected, token)

ExpectedVersion(params) ==
  IF "expectedResourceVersion" \in DOMAIN params
    THEN {params.expectedResourceVersion} ELSE {}

(* Mutant: the node is cordoned before the budgets are looked at.          *)
DrainNode_CordonFirst(c, params, dryRun) ==
  LET name == params.nodeName
      expected == ExpectedVersion(params)
      cordoned == Cordon(c, name, expected, c.issued)
  IN  IF name \notin DOMAIN c.nodes THEN Outcome("FAILED", c)
      ELSE IF ~VersionMatches(c.nodes[name], expected) THEN Outcome("FAILED", c)
      ELSE IF dryRun THEN Outcome("SUCCESS", c)
      ELSE IF ~BudgetsAllow(c, name) THEN Outcome("FAILED", cordoned.cluster)
      ELSE Outcome("SUCCESS", EvictAll(cordoned.cluster, PodsOn(c, name)))

(* The case DrainNode of execute, with the token registered last.          *)
DrainNode(c, params, dryRun) ==
  LET name == params.nodeName
      expected == ExpectedVersion(params)
      cordoned == Cordon(c, name, expected, c.issued)
  IN  IF name \notin DOMAIN c.nodes THEN Outcome("FAILED", c)
      ELSE IF ~VersionMatches(c.nodes[name], expected) THEN Outcome("FAILED", c)
      ELSE IF ~BudgetsAllow(c, name) THEN Outcome("FAILED", c)
      ELSE IF dryRun THEN Outcome("SUCCESS", c)
      ELSE IF ~cordoned.ok THEN Outcome("FAILED", cordoned.cluster)
      ELSE Outcome("SUCCESS", EvictAll(cordoned.cluster, PodsOn(c, name)))

(* The case RolloutDeployment.                                             *)
RolloutDeployment(c, params, dryRun) ==
  LET name == params.deploymentName
      expected == ExpectedVersion(params)
      current == c.deployments[name]
      mutated == [current EXCEPT !.image = params.image, !.generation = current.generation + 1]
  IN  IF name \notin DOMAIN c.deployments THEN Outcome("FAILED", c)
      ELSE IF ~VersionMatches(current, expected) THEN Outcome("FAILED", c)
      ELSE IF dryRun THEN Outcome("SUCCESS", c)
      ELSE Settled(UpdateDeployment(c, name, mutated, expected, c.issued))

(* The case ApplyNetworkPolicy: it knows no dry run, and a new policy      *)
(* takes version 1, whatever is expected and wherever the counter stands.  *)
ApplyNetworkPolicy(c, params) ==
  LET name == params.policyName
      expected == ExpectedVersion(params)
      review == ReviewAdmission(c, c.issued)
      policy == [rules |-> params.spec, version |-> 1]
  IN  IF name \in DOMAIN c.policies
        THEN IF VersionMatches(c.policies[name], expected)
               THEN Settled(UpdateNetworkPolicy(c, name, policy, expected, c.issued))
               ELSE Outcome("FAILED", c)
      ELSE IF ~review.ok THEN Outcome("FAILED", review.cluster)
      ELSE Outcome("SUCCESS", AddNetworkPolicy(review.cluster, name, policy))

RequiredParams(action) ==
  CASE action = "DrainNode" -> {"nodeName"}
    [] action = "RolloutDeployment" -> {"deploymentName"}
    [] action = "ApplyNetworkPolicy" -> {"policyName", "spec"}
    [] OTHER -> {}

(* execute: the token is registered first, and an early return leaves it.  *)
Execute(c, action, params, dryRun) ==
  LET registered == Register(c) IN
    IF ~(RequiredParams(action) \subseteq DOMAIN params) THEN Outcome("FAILED", registered)
    ELSE CASE action = "DrainNode" -> DrainNode(registered, params, dryRun)
           [] action = "RolloutDeployment" -> RolloutDeployment(registered, params, dryRun)
           [] action = "ApplyNetworkPolicy" -> ApplyNetworkPolicy(registered, params)
           [] OTHER -> Outcome("FAILED", registered)

=============================================================================
