------------------------- MODULE AdmissionValidation -------------------------
(***************************************************************************)
(* The checks of admissionValid (gateway/src/validation.ts) and the live   *)
(* guards (gateway/src/guardEvaluator.ts), as predicates.                  *)
(*                                                                         *)
(* A certificate is a record of what the checks read:                      *)
(*   wellFormed  the schema accepts it and its two modes agree             *)
(*   signed      its signature verifies under the controller's key         *)
(*   subject, admissionId, nonce, issuedAt, expiresAt, policyEpoch, mode   *)
(*   covers      the proposal whose digest it binds (proposalDigest)       *)
(*   envelope    (ENVELOPE) its execution envelope, see Envelope           *)
(*   guards      the guard set, records [id, target, expected]             *)
(* A proposal is a record [principal, action, scope, params]; two          *)
(* proposals have the same digest when they are equal.                     *)
(* A request is [certificate, requester, proposal].                        *)
(***************************************************************************)
EXTENDS Envelope

(* One iteration of evaluateLiveGuards on a controller-visible state.  A   *)
(* guard that is not one of the five known ones never holds.               *)
GuardHolds(guard, view) ==
  \/ guard.id = "guard-primary-cluster" /\ view.clusterId = guard.expected
  \/ guard.id = "guard-candidate-role" /\ view.candidateRole = guard.expected
  \/ guard.id = "guard-candidate-identity" /\ guard.expected \in view.activeNodes
  \/ /\ guard.id = "guard-replication-epoch"
     /\ view.replicationEpoch = guard.expected
  \/ /\ guard.id = "guard-node-schedulable"
     /\ guard.target \in DOMAIN view.schedulable
     /\ view.schedulable[guard.target] = guard.expected

LiveGuardsHold(certificate, view) ==
  \A guard \in certificate.guards : GuardHolds(guard, view)

(* Mutant: the signature is not verified.                                  *)
PresentationValid_Unsigned(r, time) ==
  /\ r.certificate.wellFormed
  /\ r.proposal.principal = r.certificate.subject
  /\ time >= r.certificate.issuedAt
  /\ r.requester = r.certificate.subject
  /\ time <= r.certificate.expiresAt

(* Everything admissionValid checks before it awaits isUnused.             *)
PresentationValid(r, time) ==
  /\ r.certificate.wellFormed
  /\ r.proposal.principal = r.certificate.subject
  /\ time >= r.certificate.issuedAt
  /\ r.certificate.signed
  /\ r.requester = r.certificate.subject
  /\ time <= r.certificate.expiresAt

(* Mutant: any proposal the template admits passes, covered or not.        *)
ProposalValid_TemplateOnly(r, time) ==
  \/ /\ r.certificate.mode = "EXACT_ACTION"
     /\ r.proposal = r.certificate.covers
  \/ /\ r.certificate.mode = "ENVELOPE"
     /\ Allows(r.certificate.envelope.template, r.proposal)
     /\ time <= EnvelopeEnd(r.certificate.envelope)

(* Step 5: the invocation is the certified action, or lies in the envelope *)
(* and is the proposal the envelope's evidence covers.                     *)
ProposalValid(r, time) ==
  \/ /\ r.certificate.mode = "EXACT_ACTION"
     /\ r.proposal = r.certificate.covers
  \/ /\ r.certificate.mode = "ENVELOPE"
     /\ Allows(r.certificate.envelope.template, r.proposal)
     /\ r.proposal = r.certificate.envelope.covered
     /\ time <= EnvelopeEnd(r.certificate.envelope)
     /\ r.certificate.envelope.template.guardIds \subseteq {g.id : g \in r.certificate.guards}

(* Steps 5 to 7 of admissionValid, on the values the caller sampled.       *)
SampledStateValid(r, sample, skipGuards) ==
  /\ ProposalValid(r, sample.time)
  /\ skipGuards \/ LiveGuardsHold(r.certificate, sample.view)
  /\ r.certificate.policyEpoch = sample.policyEpoch

=============================================================================
