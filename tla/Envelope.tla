------------------------------ MODULE Envelope ------------------------------
(***************************************************************************)
(* Execution envelopes (certificate/src/envelope.ts) and the acceptance    *)
(* test of the registry of their templates (policy/src/envelopeRegistry.ts)*)
(* as functions.  Two templates, or two proposals, have the same digest    *)
(* when they are equal.                                                    *)
(*                                                                         *)
(* A JSON value is a pair <<type, value>>; what is undefined is absent.  A *)
(* proposal is the gateway's [principal, action, scope, params] with       *)
(*   params       name -> JSON value                                       *)
(*   goal, constraints   of its intent                                     *)
(*   maxDataLoss  {constraints.maxDataLossBytes}, or {} when absent        *)
(* A template:                                                             *)
(*   templateId, version, targetAction, maxValidity                        *)
(*   resources    resource key -> the strings it may be: for EXACT and     *)
(*                ONE_OF the allowed ones, for PREFIX all that start with  *)
(*                an allowed one                                           *)
(*   parameters   set of [param, type, min, max, allowed]; min and max are *)
(*                sets of at most one bound                                *)
(*   goals, required   the allowed goals, the required intent constraints  *)
(*   maxDataLoss  {maxEstimatedDataLossBytes}, or {} when absent           *)
(*   coverage     set of [kind, family, classes]                           *)
(*   guardIds     the guards it requires                                   *)
(* An envelope is [template, covered, instantiatedAt]: its template stands *)
(* for the copies of the template's fields and for the template's digest.  *)
(***************************************************************************)
EXTENDS Integers, FiniteSets

Null == <<"null">>
Text(string) == <<"string", string>>

(* params[key], or the proposal's own field when that is null or absent    *)
(* (its strings are the two here and the observed version).                *)
ResourceValues(proposal, key) ==
  CASE key \in DOMAIN proposal.params /\ proposal.params[key] # Null -> {proposal.params[key]}
    [] key \in {"action", "principal"} -> {Text(proposal[key])}
    [] OTHER -> {}

ParameterAllowed(constraint, params) ==
  /\ constraint.param \in DOMAIN params
  /\ LET v == params[constraint.param] IN
       /\ constraint.type = "RANGE" =>
            /\ v[1] = "number"
            /\ \A min \in constraint.min : min <= v[2]
            /\ \A max \in constraint.max : v[2] <= max
       /\ constraint.type \in {"ENUM", "EXACT"} => v \in constraint.allowed

EffectAllowed(template, proposal) ==
  \A max \in template.maxDataLoss :
    \E v \in proposal.maxDataLoss : v[1] = "number" /\ 0 <= v[2] /\ v[2] <= max

(* validateProposalAgainstTemplate.                                        *)
Allows(template, proposal) ==
  /\ proposal.action = template.targetAction
  /\ template.goals # {} => proposal.goal \in template.goals
  /\ template.required \subseteq proposal.constraints
  /\ \A key \in DOMAIN template.resources :
       \E v \in ResourceValues(proposal, key) :
         v[1] = "string" /\ v[2] \in template.resources[key]
  /\ \A constraint \in template.parameters : ParameterAllowed(constraint, proposal.params)
  /\ EffectAllowed(template, proposal)

(* instantiateEnvelopeTemplate, for a proposal the template allows.        *)
Instantiated(template, proposal, time) ==
  [template |-> template, covered |-> proposal, instantiatedAt |-> time]

EnvelopeEnd(envelope) == envelope.instantiatedAt + envelope.template.maxValidity

(* manifestCovers: `manifest` is the set of the obligations it has a       *)
(* witness for, `rules` the policy's [id, kind, families, classes].        *)
ManifestCovers(manifest, invocation, envelope, rules) ==
  /\ Allows(envelope.template, invocation)
  /\ invocation = envelope.covered
  /\ \A requirement \in envelope.template.coverage :
       \E rule \in rules :
         /\ rule.kind = requirement.kind
         /\ requirement.family \in rule.families
         /\ requirement.classes \cap rule.classes # {}
         /\ rule.id \in manifest

------------------------------------------------------------------------------
(* Mutant: the attested digest is not compared with the template's.        *)
Registrable_AnyDigest(template, attestation, checksSignature) ==
  /\ template.templateId = attestation.templateId
  /\ template.version = attestation.version
  /\ checksSignature => attestation.signature \in {"authority", "insecure-dev-signature"}

(* register accepts: the attestation is for this id, version and digest,   *)
(* and signed by the policy authority when its key is given, unless it     *)
(* bears the signature that development uses.                              *)
Registrable(template, attestation, checksSignature) ==
  /\ template.templateId = attestation.templateId
  /\ template.version = attestation.version
  /\ template = attestation.digestOf
  /\ checksSignature => attestation.signature \in {"authority", "insecure-dev-signature"}

=============================================================================
