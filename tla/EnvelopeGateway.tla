--------------------------- MODULE EnvelopeGateway ---------------------------
(***************************************************************************)
(* The gateway together with where its certificates come from: templates   *)
(* are registered with an attestation (EnvelopeTemplateRegistry in         *)
(* policy/src/envelopeRegistry.ts), and an admission granted by the        *)
(* controller is minted into a certificate (certificate/src/minting.ts),   *)
(* for its very proposal or under an envelope instantiated from the        *)
(* template the registry holds at that moment.                             *)
(*                                                                         *)
(* Whoever grants under an envelope asks get, instantiateEnvelopeTemplate, *)
(* manifestCovers and mintCertificate in turn, as the tests of the         *)
(* repository do; nothing else in it issues such a certificate.  Callers   *)
(* present what has been issued, as it is or altered: an altered copy no   *)
(* longer verifies.                                                        *)
(***************************************************************************)
EXTENDS Gateway, FiniteSetsExt

CONSTANTS
  Templates, Attestations,   \* what may be offered for registration;
                             \* digestOf is the template attested
  ChecksSignature,           \* register is given the policy authority's key
  Admissions,      \* what the controller may admit: [id, mode, proposal,
                   \* templateKey, manifest, guards, witnessExpiry]
  Policy,          \* the policy snapshot admissions are evaluated under:
                   \* [epoch, rules]
  MaxTtl,          \* maxCertificateTtlMs
  LateGrants       \* FALSE, a bound of the model: nothing is registered or
                   \* issued once a dispatch was called or the world moved

VARIABLES
  templates,       \* the registry: one template for each id and version
  issued           \* the certificates minted

envelopeVars == <<templates, issued>>

KeyOf(template) == <<template.templateId, template.version>>

ASSUME EnvelopeAssumption ==
  /\ ChecksSignature \in BOOLEAN /\ LateGrants \in BOOLEAN
  /\ MaxTtl \in Nat
  /\ \A t \in Templates : t.maxValidity \in Nat
  /\ \A a \in Admissions :
       /\ a.mode \in {"EXACT_ACTION", "ENVELOPE"} /\ a.witnessExpiry \in Int
       /\ \A b \in Admissions : a.id = b.id => a = b

------------------------------------------------------------------------------
(* Mutant: the validity of the envelope does not bound the certificate's.  *)
ExpiresAt_OwnTtl(a, envelopes, issuedAt) ==
  Min({a.witnessExpiry, issuedAt + MaxTtl})

(* The instant a certificate issued now expires: the least of the expiry   *)
(* of its evidence, its time to live and the end of its envelope.          *)
ExpiresAt(a, envelopes, issuedAt) ==
  Min({a.witnessExpiry, issuedAt + MaxTtl} \cup {EnvelopeEnd(e) : e \in envelopes})

(* mintCertificate, as the record the gateway's checks read.               *)
ExactCertificate(a, time) ==
  [ wellFormed |-> TRUE, signed |-> TRUE, mode |-> "EXACT_ACTION",
    subject |-> a.proposal.principal, covers |-> a.proposal,
    admissionId |-> a.id, nonce |-> a.id, policyEpoch |-> Policy.epoch,
    guards |-> a.guards, issuedAt |-> time, expiresAt |-> ExpiresAt(a, {}, time) ]

EnvelopeCertificate(a, envelope, time) ==
  [ wellFormed |-> TRUE, signed |-> TRUE, mode |-> "ENVELOPE",
    subject |-> a.proposal.principal, covers |-> a.proposal, envelope |-> envelope,
    admissionId |-> a.id, nonce |-> a.id, policyEpoch |-> Policy.epoch,
    guards |-> a.guards, issuedAt |-> time, expiresAt |-> ExpiresAt(a, {envelope}, time) ]

(* mintCertificate does not throw.                                         *)
Mintable(a, envelope) ==
  /\ envelope.template.targetAction = a.proposal.action
  /\ envelope.covered = a.proposal

------------------------------------------------------------------------------
(* register; a registration that throws changes nothing.                   *)
Register(template, attestation) ==
  /\ Registrable(template, attestation, ChecksSignature)
  /\ templates' = {t \in templates : KeyOf(t) # KeyOf(template)} \cup {template}
  /\ UNCHANGED issued

Pending(a) == \A c \in issued : c.nonce # a.id

IssueExact(a) ==
  /\ a.mode = "EXACT_ACTION" /\ Pending(a)
  /\ issued' = issued \cup {ExactCertificate(a, now)}
  /\ UNCHANGED templates

IssueUnderEnvelope(a) ==
  /\ a.mode = "ENVELOPE" /\ Pending(a)
  /\ \E template \in templates :
       LET envelope == Instantiated(template, a.proposal, now) IN
         /\ KeyOf(template) = a.templateKey
         /\ Allows(template, a.proposal)
         /\ ManifestCovers(a.manifest, a.proposal, envelope, Policy.rules)
         /\ Mintable(a, envelope)
         /\ issued' = issued \cup {EnvelopeCertificate(a, envelope, now)}
  /\ UNCHANGED templates

Granting ==
  /\ LateGrants \/ (moves = 0 /\ \A d \in Dispatches : pc[d] = "idle")
  /\ \/ \E template \in Templates, attestation \in Attestations : Register(template, attestation)
     \/ \E a \in Admissions : IssueExact(a) \/ IssueUnderEnvelope(a)
  /\ UNCHANGED vars

(* What is presented has been issued or does not verify.                   *)
Presentable(certificate) ==
  ~certificate.signed \/ certificate \in issued

Dispatching ==
  /\ \/ \E d \in Dispatches, r \in Requests : Presentable(r.certificate) /\ CallWith(d, r)
     \/ Running
  /\ UNCHANGED envelopeVars

(* Admissions are granted under the policy in force at the start.          *)
EnvelopeInit ==
  /\ Init /\ policyEpoch = Policy.epoch
  /\ templates = {}
  /\ issued = {}

EnvelopeNext == Granting \/ Dispatching

EnvelopeSpec == EnvelopeInit /\ [][EnvelopeNext]_<<vars, envelopeVars>>

FairEnvelopeSpec == EnvelopeSpec /\ Fairness

------------------------------------------------------------------------------
(* The policy authority approved this very template.                       *)
Approved(template) ==
  \E attestation \in Attestations :
    /\ attestation.digestOf = template
    /\ ChecksSignature => attestation.signature \in {"authority", "insecure-dev-signature"}

(* An envelope never widens what was approved: what reaches the target     *)
(* under one is the proposal an admission was granted for, allowed by a    *)
(* template attested for its exact content, with a witness for whatever    *)
(* the template wants covered and each guard it demands, presented before  *)
(* the evidence or the template's validity ran out.                        *)
EnvelopeNeverWidens ==
  \A d \in forwarded :
    LET c == request[d].certificate
        t == c.envelope.template
    IN  c.mode = "ENVELOPE" =>
          \E a \in Admissions :
            /\ d \in soundCall /\ c.nonce = a.id
            /\ request[d].proposal = a.proposal /\ Approved(t) /\ Allows(t, a.proposal)
            /\ \A q \in t.coverage : \E rule \in Policy.rules :
                 q.family \in rule.families /\ rule.id \in a.manifest
            /\ t.guardIds \subseteq {g.id : g \in a.guards}
            /\ c.expiresAt <= a.witnessExpiry /\ c.expiresAt <= c.issuedAt + t.maxValidity

=============================================================================
