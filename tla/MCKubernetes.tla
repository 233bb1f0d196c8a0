---------------------------- MODULE MCKubernetes ----------------------------
(* Values for KubernetesLoop: the cluster of the end-to-end test with a    *)
(* second pod and a second node.                                           *)
EXTENDS KubernetesLoop

Proposed(principal, action, params) ==
  [ principal |-> principal, action |-> action, scope |-> Scope, params |-> params,
    observedVersion |-> 10 ]
MCProposals ==
  { Proposed("agent", "DrainNode", [nodeName |-> "n1", expectedResourceVersion |-> 10]),
    Proposed("agent", "DrainNode", [nodeName |-> "n1"]),
    Proposed("agent", "RolloutDeployment",
      [deploymentName |-> "d1", image |-> "v2", expectedResourceVersion |-> 3]),
    Proposed("agent", "ApplyNetworkPolicy", [policyName |-> "netpol", spec |-> "deny"]),
    Proposed("agent", "ApplyNetworkPolicy", [policyName |-> "netpol"]),
    Proposed("agent", "DeletePod", <<>>) }

Pod(node, app) == [node |-> node, labels |-> {<<"app", app>>}]
Nodes ==
  AddNode(AddNode(EmptyCluster, "n2", [schedulable |-> TRUE, ready |-> FALSE, version |-> 2]),
    "n1", [schedulable |-> TRUE, ready |-> TRUE, version |-> 10])
Deployed(c) ==
  AddDeployment(c, "d1", [image |-> "v1", generation |-> 1, readyReplicas |-> 1, version |-> 3])
(* The pods were given version 1 when they were added.                     *)
Running(c, pods) == [c EXCEPT !.pods = pods]
Budget(c, allowed) ==
  AddPDB(c, "pdb", [selector |-> {<<"app", "api">>}, allowed |-> allowed])
MCInitialClusters ==
  { Budget(Deployed(Running(Nodes, [p1 |-> Pod("n1", "api"), p2 |-> Pod("n1", "web")])), 1) }

MCNewPods == [p3 |-> Pod("n1", "api")]
MCRuleFreshness ==
  [ id \in {"omega-k8s-node-ready", "omega-k8s-pdb-safe"} |-> 1 ] @@
  [ id \in {"omega-k8s-dep-health", "omega-k8s-netpol-obs"} |-> 2 ]
Entities == {"n1", ClusterName}
MCSeverity == [e \in Entities |-> 2]
MCDependents == [e \in Entities |-> 0]
AgentSymmetry == Permutations(Agents)

=============================================================================
