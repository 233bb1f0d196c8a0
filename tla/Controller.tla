----------------------------- MODULE Controller -----------------------------
(***************************************************************************)
(* One evaluation of the admission controller (workloop/src/controller.ts) *)
(* as a function: policy (obligationResolver.ts, riskAnalyzer.ts),         *)
(* discharge, manifest, guards and certificate (certificate/src).          *)
(*                                                                         *)
(* A policy is [epoch, invariants, rules, threshold]: rules is the         *)
(* sequence of obligations, threshold the greatest risk it lets the agent  *)
(* take alone.  A proposal is [principal, action, scope, params,           *)
(* observedVersion]; an item of a scope is <<platform, cluster>>.  A view  *)
(* is the controller-visible state, the gateway's with observedVersion and *)
(* firstNode, the first of activeNodes.  A context is [time, deadline,     *)
(* tokens, turns, allowed, profiles], allowed being the pinned snapshot of *)
(* the grants.                                                             *)
(***************************************************************************)
EXTENDS Evidence, Sequences

CONSTANTS
  Severity,           \* target entity -> rank of its environment tier
  Dependents,         \* target entity -> number of its dependents
  MaxTtl,             \* maxCertificateTtlMs
  ApprovalFreshness   \* maxFreshnessMs of the approval obligation

Param(proposal, name) ==
  IF name \in DOMAIN proposal.params THEN {proposal.params[name]} ELSE {}

ClusterParam(proposal) ==
  IF "clusterId" \in DOMAIN proposal.params THEN Param(proposal, "clusterId")
  ELSE Param(proposal, "clusterName")

(* checkStaticCompliance, rule by rule.                                    *)
InvariantHolds(invariant, proposal, view) ==
  LET inClusterScope == \E item \in proposal.scope : item[2] = view.clusterId
  IN  CASE invariant = "cluster_matches_target_scope" ->
             \E c \in ClusterParam(proposal) : <<"postgres", c>> \in proposal.scope
        [] invariant = "candidate_differs_from_active_primary" ->
             view.firstNode \notin Param(proposal, "candidateStandby")
        [] invariant = "node_in_cluster_scope" ->
             /\ inClusterScope
             /\ view.activeNodes # {} => Param(proposal, "nodeName") \subseteq view.activeNodes
        [] invariant = "deployment_in_cluster_scope" -> inClusterScope
        [] OTHER -> TRUE

StaticallyCompliant(proposal, view, policy) ==
  /\ \A invariant \in policy.invariants : InvariantHolds(invariant, proposal, view)
  /\ view.activeNodes # {} => Param(proposal, "candidateStandby") \subseteq view.activeNodes

(* computeRisk, every dimension as its rank in the schemas' orders; a      *)
(* proposal that names no target has a scope of one item.                  *)
Risk(proposal, view) ==
  LET node == Param(proposal, "nodeName")
      target == CHOOSE e \in DOMAIN Severity :
        e \in IF ClusterParam(proposal) # {} THEN ClusterParam(proposal)
              ELSE IF node # {} THEN node ELSE {item[2] : item \in proposal.scope}
  IN  [ consequenceSeverity |-> Severity[target],
        blastRadius |-> IF Dependents[target] > 5 THEN 2
                        ELSE IF Dependents[target] = 0 THEN 0 ELSE 1,
        irreversibility |-> 1,
        epistemicUncertainty |->
          IF proposal.observedVersion = view.observedVersion THEN 0 ELSE 1,
        dependencyExposure |-> 2,
        adversePlausibility |-> 1 ]

(* riskLessOrEqual: a product order.                                       *)
WithinThreshold(risk, threshold) ==
  \A dimension \in DOMAIN risk : risk[dimension] <= threshold[dimension]

HumanApproval(scope) ==
  [ id |-> "omega-human-approval", kind |-> "DUAL_CONTROL", required |-> TRUE,
    scope |-> scope, maxFreshness |-> ApprovalFreshness,
    classes |-> {"DUAL_SIGNATURE_RECEIPT"},
    predicate |-> {[field |-> "human_sre_dual_authorization", typed |-> BOOLEAN,
                    holds |-> {TRUE}, comparable |-> TRUE]},
    priorities |-> <<>>, minCardinality |-> 0, minPrincipals |-> 2,
    reconcile |-> FALSE, efd |-> {}, guardTemplates |-> {} ]

(* resolveObligations: the rules of the policy bound to the proposal's     *)
(* scope, and human approval when the risk exceeds the agent's authority.  *)
Obligations(proposal, view, policy) ==
  LET bound == [i \in DOMAIN policy.rules |->
                  [policy.rules[i] EXCEPT !.scope = proposal.scope]]
  IN  IF WithinThreshold(Risk(proposal, view), policy.threshold)
        THEN bound ELSE Append(bound, HumanApproval(proposal.scope))

------------------------------------------------------------------------------
(* An outcome is [index, obligation, kind, witness]: what discharge said   *)
(* of the obligation at that place.                                        *)

(* receiptsMap: a receipt id cited by several witnesses stands for the     *)
(* receipt of the last of them.                                            *)
ReceiptOfId(id, satisfied) ==
  LET citing == {x \in satisfied : \E r \in x.witness : r.id = id}
      last == CHOOSE x \in citing : \A y \in citing : y.index <= x.index
  IN  CHOOSE r \in last.witness : r.id = id

(* Mutant: the freshness of the longest-lived obligation counts.           *)
WitnessExpirations_LatestOnly(satisfied) ==
  LET all == UNION {{ReceiptOfId(r.id, satisfied).observedAt + x.obligation.maxFreshness :
                       r \in x.witness} : x \in satisfied}
  IN  IF all = {} THEN {} ELSE {Max(all)}

(* computeWitnessExpiration, as the set of instants it is the least of;    *)
(* no required obligation, no bound.                                       *)
WitnessExpirations(satisfied) ==
  UNION {{ReceiptOfId(r.id, satisfied).observedAt + x.obligation.maxFreshness :
            r \in x.witness} : x \in satisfied}

(* The expiry mintCertificate sets in EXACT_ACTION mode.                   *)
CertificateExpiry(satisfied, issuedAt) ==
  Min({issuedAt + MaxTtl} \cup WitnessExpirations(satisfied))

(* The extractors deriveGuards knows; it throws on any other.              *)
ExtractorKnown(template) ==
  \/ template.extractor \in {"params.clusterId", "params.candidateStandby",
                             "literal.standby", "state.replicationEpoch"}
  \/ template.id = "guard-node-schedulable" /\ template.extractor = "true"

Expected(template, proposal, view) ==
  CASE template.extractor = "params.clusterId" -> proposal.params["clusterId"]
    [] template.extractor = "params.candidateStandby" -> proposal.params["candidateStandby"]
    [] template.extractor = "literal.standby" -> "standby"
    [] template.extractor = "state.replicationEpoch" -> view.replicationEpoch
    [] OTHER -> TRUE

(* deriveGuards; a template id names one template in a policy.             *)
Guards(templates, proposal, view) ==
  {[ id |-> t.id,
     target |-> IF t.id # "guard-node-schedulable" THEN t.target
                ELSE IF Param(proposal, "nodeName") = {} THEN "undefined"
                ELSE proposal.params["nodeName"],
     expected |-> Expected(t, proposal, view) ] : t \in templates}

------------------------------------------------------------------------------
(* mintCertificate, as the record the gateway's checks read.  Admission id *)
(* and nonce are fresh for every evaluation: the turn names them.          *)
Certificate(proposal, policy, guards, issuedAt, expiresAt, turn) ==
  [ wellFormed |-> TRUE, signed |-> TRUE, mode |-> "EXACT_ACTION",
    subject |-> proposal.principal, covers |-> proposal,
    admissionId |-> turn, nonce |-> turn,
    issuedAt |-> issuedAt, expiresAt |-> expiresAt,
    policyEpoch |-> policy.epoch, guards |-> guards ]

BudgetSpent(context) ==
  \/ context.tokens <= 0 \/ context.turns <= 0 \/ context.time > context.deadline

Authorized(proposal, allowed) ==
  /\ proposal.principal \in DOMAIN allowed
  /\ \A item \in proposal.scope : <<proposal.action, item>> \in allowed[proposal.principal]

Verdict(kind) == [kind |-> kind]

(* Lines 6 to 13 of the algorithm: what the outcomes of the discharges     *)
(* decide.  A violated obligation denies, whatever else is open; an open   *)
(* dual control escalates; any other open obligation defers.  `basis` and  *)
(* `open` say what the verdict rests on.                                   *)
Admission(proposal, view, policy, context, outcomes) ==
  LET Of(kind) == {x \in outcomes : x.obligation.required /\ x.kind = kind}
      satisfied == Of("SATISFIED")
      unknown == Of("UNKNOWN")
      templates == UNION {x.obligation.guardTemplates : x \in satisfied}
  IN  IF Of("VIOLATED") # {} THEN Verdict("DENY")
      ELSE IF \E x \in unknown : x.obligation.kind = "DUAL_CONTROL" THEN Verdict("ESCALATE")
      ELSE IF unknown # {} THEN [kind |-> "DEFER", open |-> {x.index : x \in unknown}]
      ELSE IF \E t \in templates : ~ExtractorKnown(t) THEN Verdict("THROWN")
      ELSE [ kind |-> "PERMIT", basis |-> satisfied,
             certificate |-> Certificate(proposal, policy, Guards(templates, proposal, view),
               context.time, CertificateExpiry(satisfied, context.time), context.turns) ]

(* evaluate.                                                               *)
Evaluation(proposal, view, policy, pool, context) ==
  LET obligations == Obligations(proposal, view, policy)
      Result(o) == Discharge(o, pool, view, context.time, context.profiles)
      Outcome(i, o, result) ==
        [index |-> i, obligation |-> o, kind |-> result.kind, witness |-> result.witness]
  IN  IF BudgetSpent(context) THEN Verdict("ABORT")
      ELSE IF ~Authorized(proposal, context.allowed) THEN Verdict("DENY")
      ELSE IF ~StaticallyCompliant(proposal, view, policy) THEN Verdict("DENY")
      ELSE Admission(proposal, view, policy, context,
             {Outcome(i, obligations[i], Result(obligations[i])) : i \in DOMAIN obligations})

=============================================================================
