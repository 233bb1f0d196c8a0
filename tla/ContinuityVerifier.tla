-------------------------- MODULE ContinuityVerifier --------------------------
(***************************************************************************)
(* The five-stage verifier of a transition (cct/src/cctbench/verifier/     *)
(* cct.py, checkers.py) and the signatures it relies on (crypto.py), as    *)
(* functions.  A digest is the pair of its domain and what it is taken of  *)
(* (canonicalize.py): equal exactly when both are.  One protocol version   *)
(* is in use, so the versions and their comparison are left out.           *)
(*                                                                         *)
(*   proposal    [identity, epoch, predecessor, manifest, authority,       *)
(*                provenance]                                              *)
(*   signer      [principal, role, scope, signature]                       *)
(*   provenance  [dependencies, citations], a dependency [id, uri, digest] *)
(*   witness     [proposal, records, receipt]                              *)
(*   record      [check, evaluator, version, policy, proposal, status,     *)
(*                issued, signature]                                       *)
(*   receipt     [kernel, identity, epoch, parent, successor, core,        *)
(*                signature]                                               *)
(*   signature   [key, kind, over]: whose key signed what                  *)
(*   context     [known, identity, epoch, credentials, kernels, head,      *)
(*                archive, store, time]; known is FALSE when there is none,*)
(*                and the rest is then empty                               *)
(*   credential  [key, from, until, compromised, statusKnown, revoked]     *)
(*   head        [identity, epoch, parent, proposal, successor, exclusive] *)
(*   evidence    [identity, epoch, acquired, eventId, content, finding,    *)
(*                revision, records]                                       *)
(*   policy      [requires, canonicalHead, trustThreshold,                 *)
(*                authorityThreshold, normativeThreshold, attested, quorum,*)
(*                maxAge, evaluators, tombstoneRoles, version]; a check the*)
(*                policy or an ablation switches off is not in requires    *)
(***************************************************************************)
EXTENDS CognitiveEngine

Digest(kind, value) == <<kind, value>>

(* A failure counts more than anything unknown.                            *)
Combine(statuses) ==
  IF "FAIL" \in statuses THEN "FAIL"
  ELSE IF "UNKNOWN" \in statuses THEN "UNKNOWN" ELSE "PASS"

Or(condition, otherwise) == IF condition THEN "PASS" ELSE otherwise
Lookup(f, key) == IF key \in DOMAIN f THEN {f[key]} ELSE {}
Resolved(context, uris) == UNION {Lookup(context.store, uri) : uri \in uris}

VerifySignature(kind, payload, signature, credential, epoch) ==
  IF credential = {} \/ signature = {} THEN "UNKNOWN"
  ELSE LET c == The(credential) IN
    IF The(signature) # [key |-> c.key, kind |-> kind, over |-> payload] THEN "FAIL"
    ELSE IF ~c.statusKnown THEN "UNKNOWN"
    ELSE Or(/\ epoch >= c.from /\ \A last \in c.until : epoch <= last
            /\ \A e \in c.compromised \cup c.revoked : epoch < e, "FAIL")

AuthorityPayload(q, signer) ==
  << [q EXCEPT !.authority = {}], signer.principal, signer.role, signer.scope >>
Unsigned(record) == [record EXCEPT !.signature = {}]

ProposalDigest(q) == Digest("PROPOSAL", q)
CoreDigest(w) == Digest("WITNESS-CORE", <<w.proposal, w.records>>)
StateDigest(s) == Digest("STATE", s)

------------------------------------------------------------------------------
(* Mutant: head evidence of another epoch contradicts the transition.      *)
CheckCanonicalHead_AnyEpoch(q, candidate, policy, context) ==
  LET archived == Lookup(context.archive, q.epoch)
      evidence == IF archived # {} THEN archived ELSE context.head
  IN  IF ~policy.canonicalHead THEN "PASS"
      ELSE IF ~context.known \/ evidence = {} THEN "UNKNOWN"
      ELSE LET h == The(evidence) IN
        Or(/\ h.identity = q.identity /\ h.epoch = q.epoch /\ h.parent = q.predecessor
           /\ h.proposal = ProposalDigest(q) /\ h.successor = StateDigest(candidate)
           /\ h.exclusive = {TRUE}, "FAIL")

(* The archived evidence of the epoch comes before the current head, which *)
(* says something of its own epoch only.                                   *)
CheckCanonicalHead(q, candidate, policy, context) ==
  LET archived == Lookup(context.archive, q.epoch)
      evidence == IF archived # {} THEN archived ELSE context.head
  IN  IF ~policy.canonicalHead THEN "PASS"
      ELSE IF ~context.known \/ evidence = {} THEN "UNKNOWN"
      ELSE LET h == The(evidence) IN
        IF h.identity # q.identity \/ (archived # {} /\ h.epoch # q.epoch) THEN "FAIL"
        ELSE IF h.epoch # q.epoch THEN "UNKNOWN"
        ELSE IF \/ h.parent # q.predecessor \/ h.proposal # ProposalDigest(q)
                \/ h.successor # StateDigest(candidate) \/ h.exclusive = {FALSE} THEN "FAIL"
        ELSE Or(h.exclusive = {TRUE}, "UNKNOWN")

ReceiptBound(w, candidate, receipt) ==
  LET q == w.proposal IN
  /\ receipt.identity = q.identity /\ receipt.epoch = q.epoch
  /\ receipt.parent = q.predecessor /\ receipt.successor = StateDigest(candidate)
  /\ receipt.core = CoreDigest(w)

(* lineage_conditions.                                                     *)
LineageConditions(pred, candidate, witness, policy, context) ==
  IF witness = {}
    THEN [ lineage_binding |-> "UNKNOWN", scope |-> "UNKNOWN", receipt_binding |-> "UNKNOWN",
           receipt_signature |-> "UNKNOWN",
           canonical_head |-> Or(~policy.canonicalHead, "UNKNOWN") ]
  ELSE LET w == The(witness)
           q == w.proposal
           receipt == The(w.receipt)
       IN [ lineage_binding |-> Or(q.predecessor = StateDigest(pred), "FAIL"),
            scope |-> IF ~context.known THEN "UNKNOWN"
                      ELSE Or(q.identity = context.identity /\ q.epoch = context.epoch, "FAIL"),
            receipt_binding |-> IF w.receipt = {} THEN "UNKNOWN"
                                ELSE Or(ReceiptBound(w, candidate, receipt), "FAIL"),
            receipt_signature |->
              IF w.receipt = {} \/ ~context.known THEN "UNKNOWN"
              ELSE IF receipt.kernel \notin context.kernels THEN "FAIL"
              ELSE VerifySignature("COMMIT-RECEIPT", Unsigned(receipt), receipt.signature,
                     Lookup(context.credentials, receipt.kernel), receipt.epoch),
            canonical_head |-> CheckCanonicalHead(q, candidate, policy, context) ]

------------------------------------------------------------------------------
SignerStatus(q, signer, context) ==
  VerifySignature("AUTHORITY", AuthorityPayload(q, signer), signer.signature,
    Lookup(context.credentials, signer.principal), q.epoch)

Granted(pred, signer) ==
  \E grant \in Lookup(pred.governance, signer.principal) : grant.role = signer.role

InScope(pred, signer, m) ==
  /\ signer.scope \in {"ALL_MUTATIONS", m.op}
  /\ {"ALL_MUTATIONS", m.op} \cap pred.governance[signer.principal].scopes # {}
  /\ m.target = "normative_rules" => signer.role = "IDENTITY_CUSTODIAN"

Threshold(policy, m) ==
  IF m.target = "normative_rules" THEN policy.normativeThreshold ELSE policy.authorityThreshold

Signers(q) == IF q.authority = {} THEN <<>> ELSE The(q.authority)

(* Mutant: a principal may sign twice.                                     *)
CheckAuthority_Repeated(proposal, pred, policy, context) ==
  IF proposal = {} THEN "UNKNOWN"
  ELSE LET q == The(proposal)
           signers == Signers(q)
           statuses == {SignerStatus(q, signers[i], context) : i \in DOMAIN signers}
                       \cup {Or(Granted(pred, signers[i]), "FAIL") : i \in DOMAIN signers}
           Count(m) == Cardinality({i \in DOMAIN signers :
                         Granted(pred, signers[i]) /\ InScope(pred, signers[i], m)})
       IN IF signers = <<>> THEN "UNKNOWN"
          ELSE IF "FAIL" \in statuses THEN "FAIL"
          ELSE IF \E i \in DOMAIN q.manifest :
                    Count(q.manifest[i]) < Threshold(policy, q.manifest[i]) THEN "FAIL"
          ELSE Combine(statuses)

(* check_authority, under the predecessor's governance.                    *)
CheckAuthority(proposal, pred, policy, context) ==
  IF proposal = {} THEN "UNKNOWN"
  ELSE LET q == The(proposal)
           signers == ToSet(Signers(q))
           principals == {signer.principal : signer \in signers}
           statuses == {SignerStatus(q, signer, context) : signer \in signers}
                       \cup {Or(Granted(pred, signer), "FAIL") : signer \in signers}
           Eligible(m) == {signer \in signers :
             /\ Granted(pred, signer) /\ SignerStatus(q, signer, context) = "PASS"
             /\ InScope(pred, signer, m)}
       IN IF signers = {} THEN "UNKNOWN"
          ELSE IF Cardinality(principals) # Len(Signers(q)) \/ "FAIL" \in statuses THEN "FAIL"
          ELSE IF \E i \in DOMAIN q.manifest :
                    Cardinality(Eligible(q.manifest[i])) < Threshold(policy, q.manifest[i])
            THEN IF "UNKNOWN" \in statuses THEN "UNKNOWN" ELSE "FAIL"
          ELSE Combine(statuses)

------------------------------------------------------------------------------
EvidenceOps ==
  { "INSERT_KNOWLEDGE", "BACKDATE_KNOWLEDGE", "APPEND_CHRONICLE", "REVISE_BELIEF",
    "ANNOTATE_CORRECTION", "UPDATE_TRUST_TIER", "INSERT_SUMMARY", "FORWARD_RESTORE",
    "REBIND_SUBSTRATE" }

(* The evidence a new event or a structured claim must point at.           *)
AcquiredFrom(m) ==
  CASE m.op = "APPEND_CHRONICLE" -> {m.args.event.evidence}
    [] m.op = "INSERT_KNOWLEDGE" ->
         IF m.args.value.structured THEN {m.args.value.evidence} ELSE {}
    [] OTHER -> {}

Dependencies(proposal) ==
  IF proposal = {} \/ The(proposal).provenance = {} THEN {}
  ELSE ToSet(The(The(proposal).provenance).dependencies)

DependencyStatus(d, context) ==
  LET data == Resolved(context, {d.uri})
  IN  IF data = {} THEN "UNKNOWN" ELSE Or(d.digest = Digest("EVIDENCE", The(data)), "FAIL")

CheckProvenance(proposal, context) ==
  IF proposal = {} \/ (\A q \in proposal : q.provenance = {}) THEN "UNKNOWN"
  ELSE LET q == The(proposal)
           p == The(q.provenance)
           deps == Dependencies(proposal)
           M(i) == q.manifest[i]
           ops == DOMAIN q.manifest
           required == (UNION {M(i).ref : i \in ops}) \cup p.citations
       IN IF Cardinality({d.id : d \in deps}) # Len(p.dependencies) THEN "FAIL"
          ELSE Combine(
            {DependencyStatus(d, context) : d \in deps}
            \cup {Or(M(i).op \in EvidenceOps => M(i).ref # {}, "UNKNOWN") : i \in ops}
            \cup {Or(required \subseteq {d.id : d \in deps}, "UNKNOWN")}
            \cup {Or(\A e \in AcquiredFrom(M(i)) : e # {} /\ e \subseteq {d.uri : d \in deps},
                     "UNKNOWN") : i \in ops})

------------------------------------------------------------------------------
TombstonePayload(proposal, e) ==
  << {<<q.identity, q.epoch>> : q \in proposal}, e.id, e.original, e.timestamp, e.reason >>

(* old is what new begins with.                                            *)
Continues(old, new) == \A i \in DOMAIN old : i \in DOMAIN new /\ new[i] = old[i]

(* old stands in new, in its order: what new, naming nothing twice, leaves *)
(* when everything else is taken out of it.                                *)
InOrder(old, new) ==
  /\ ToSet(old) \subseteq ToSet(new)
  /\ \A i, j \in DOMAIN old : i < j =>
       \E a, b \in DOMAIN new : a < b /\ new[a] = old[i] /\ new[b] = old[j]

(* The event a transition newly buries: its binding, then who buried it.   *)
TombstoneStatus(old, new, pred, candidate, proposal, policy, context) ==
  IF \/ new.original # {EventCommitment(old)}
     \/ new.timestamp # old.timestamp \/ new.epoch # old.epoch THEN "FAIL"
  ELSE IF \A p \in new.principal : \A g \in Lookup(pred.governance, p) :
            g.role \notin policy.tombstoneRoles THEN "FAIL"
  ELSE VerifySignature("TOMBSTONE", TombstonePayload(proposal, new), new.signature,
         UNION {Lookup(context.credentials, p) : p \in new.principal},
         IF proposal = {} THEN candidate.epoch ELSE The(proposal).epoch)

(* Mutant: a tombstone may be replaced by a later one.                     *)
OldEventStatus_Reburied(old, new, pred, candidate, proposal, policy, context) ==
  IF ~Continues(old.annotations, new.annotations) THEN "FAIL"
  ELSE IF new.tombstone
    THEN Or(new = old, TombstoneStatus(old, new, pred, candidate, proposal, policy, context))
  ELSE Or(EventCommitment(new) = EventCommitment(old), "FAIL")

OldEventStatus(old, new, pred, candidate, proposal, policy, context) ==
  IF ~Continues(old.annotations, new.annotations) THEN "FAIL"
  ELSE IF old.tombstone THEN Or(new = old, "FAIL")
  ELSE IF new.tombstone
    THEN TombstoneStatus(old, new, pred, candidate, proposal, policy, context)
  ELSE Or(EventCommitment(new) = EventCommitment(old), "FAIL")

NewEventStatus(e, context) ==
  LET source == Resolved(context, e.evidence)
  IN  IF source = {} THEN "UNKNOWN"
      ELSE Or(The(source).content = e.content /\ The(source).eventId = e.id, "FAIL")

(* What was recorded stays, in its order; what is new is vouched for.      *)
CheckHistoricalChronicle(pred, candidate, proposal, policy, context) ==
  LET ids == EventIds(candidate)
      oldIds == EventIds(pred)
      New(old) == CHOOSE e \in ToSet(candidate.chronicle) : e.id = old.id
  IN  IF ~IsInjective(ids) \/ ~InOrder(oldIds, ids) THEN "FAIL"
      ELSE Combine(
        {OldEventStatus(old, New(old), pred, candidate, proposal, policy, context) :
           old \in ToSet(pred.chronicle)}
        \cup {NewEventStatus(e, context) :
                e \in {n \in ToSet(candidate.chronicle) : n.id \notin ToSet(oldIds)}})

------------------------------------------------------------------------------
LatestEvent(s) == Max({e.timestamp : e \in ToSet(s.chronicle)} \cup {-1})

NotBefore(source, time) ==
  IF source = {} \/ The(source).acquired = {} THEN "UNKNOWN"
  ELSE Or(time >= The(The(source).acquired), "FAIL")

(* Every claim the candidate holds is judged again, old ones too.          *)
CheckTemporal(pred, candidate, context) ==
  LET claims == {k \in Range(candidate.knowledge) : k.structured /\ k.claimed # {}}
      events == ToSet(candidate.chronicle)
      oldIds == ToSet(EventIds(pred))
  IN  IF LatestEvent(candidate) < LatestEvent(pred) THEN "FAIL"
      ELSE Combine(
        {NotBefore(Resolved(context, k.evidence), The(k.claimed)) : k \in claims}
        \cup {NotBefore(Resolved(context, e.evidence), e.timestamp) :
                e \in {n \in events : n.id \notin oldIds}}
        \cup {Or(\A a \in e.acquired : e.timestamp >= a, "FAIL") : e \in events})

------------------------------------------------------------------------------
PriorBeliefKept(old, new) ==
  /\ new # {} /\ The(new).established = old.established
  /\ Continues(old.history, The(new).history)
  /\ The(new) # old =>
       /\ \E i \in DOMAIN The(new).history :
            i > Len(old.history) /\ The(new).history[i] = BeliefSnapshot(old)
       /\ The(new).revised >= old.revised

BeliefSupport(key, new, proposal, context) ==
  LET deps == {d \in Dependencies(proposal) : d.id \in new.ref}
      source == Resolved(context, {d.uri : d \in deps})
      q == The(proposal)
  IN  IF new.ref = {} \/ deps = {} \/ source = {} THEN "UNKNOWN"
      ELSE Or(/\ The(source).identity = q.identity /\ The(source).epoch = q.epoch
              /\ The(source).revision = {<<key, new.value>>}, "FAIL")

CheckBeliefCoherence(pred, candidate, proposal, context) ==
  LET changed == {k \in DOMAIN candidate.beliefs :
                    Lookup(pred.beliefs, k) # {candidate.beliefs[k]}}
      Dated(k) ==
        /\ candidate.beliefs[k].proposition = k
        /\ candidate.beliefs[k].revised = candidate.epoch
        /\ k \notin DOMAIN pred.beliefs =>
             candidate.beliefs[k].established = candidate.epoch
  IN  IF \E k \in DOMAIN pred.beliefs :
           ~PriorBeliefKept(pred.beliefs[k], Lookup(candidate.beliefs, k)) THEN "FAIL"
      ELSE Combine({Or(Dated(k), "FAIL") : k \in changed}
        \cup {BeliefSupport(k, candidate.beliefs[k], proposal, context) : k \in changed})

------------------------------------------------------------------------------
Ranks == [DEFAULT |-> 0, HIGH |-> 1, TIER_ELEVATED |-> 1, ADMIN |-> 2]
Rank(tier) == IF tier \in DOMAIN Ranks THEN Ranks[tier] ELSE 0

RecordsKept(old, new) ==
  /\ new.tier \in DOMAIN Ranks /\ IsInjective(new.ids) /\ new.count = Len(new.ids)
  /\ \A o \in old : IsPrefix(o.ids, new.ids) /\ o.entity = new.entity

(* Mutant: the interactions of the transition itself count towards trust.  *)
Earned_Now(old, new, policy) ==
  \/ \A o \in old : Rank(new.tier) <= Rank(o.tier)
  \/ new.count >= policy.trustThreshold

(* A higher tier takes interactions the predecessor already counts.        *)
Earned(old, new, policy) ==
  LET before == IF old = {} THEN [rank |-> 0, count |-> 0]
                ELSE [rank |-> Rank(The(old).tier), count |-> The(old).count]
  IN  Rank(new.tier) > before.rank => before.count >= policy.trustThreshold

Supports(record, key, candidate) ==
  record.positive /\ record.entity = key /\ record.acquired <= candidate.timestamp

(* What one cited piece of evidence says of the relationship.              *)
CitedStatus(source, key, candidate, q) ==
  Or(/\ source.identity = q.identity /\ source.epoch = q.epoch /\ source.records # {}
     /\ \A r \in The(source.records) : Supports(r, key, candidate), "FAIL")

RelationSupport(key, new, candidate, proposal, context) ==
  LET Concerns(m) == m.op = "UPDATE_TRUST_TIER" /\ m.args.entity = key
      refs == UNION {UNION {m.ref : m \in {n \in ToSet(q.manifest) : Concerns(n)}} :
                       q \in proposal}
      deps == {d \in Dependencies(proposal) : d.id \in refs}
      sources == Resolved(context, {d.uri : d \in deps})
      scoped == {s \in sources : /\ s.records # {} /\ s.identity = The(proposal).identity
                                 /\ s.epoch = The(proposal).epoch}
      supported == {r.session : r \in {x \in UNION {The(s.records) : s \in scoped} :
                                       Supports(x, key, candidate)}}
  IN  IF refs = {} \/ {d.id : d \in deps} # refs THEN "UNKNOWN"
      ELSE Combine({CitedStatus(s, key, candidate, The(proposal)) : s \in sources}
        \cup {IF \E d \in deps : d.uri \notin DOMAIN context.store THEN "UNKNOWN"
              ELSE Or(ToSet(new.ids) \subseteq supported, "FAIL")})

CheckRelational(pred, candidate, policy, proposal, context) ==
  LET changed == {k \in DOMAIN candidate.relationships :
                    Lookup(pred.relationships, k) # {candidate.relationships[k]}}
      Status(k) ==
        LET old == Lookup(pred.relationships, k)
            new == candidate.relationships[k]
        IN  Combine({ Or(RecordsKept(old, new) /\ Earned(old, new, policy), "FAIL"),
                      RelationSupport(k, new, candidate, proposal, context) })
  IN  IF ~(DOMAIN pred.relationships \subseteq DOMAIN candidate.relationships) THEN "FAIL"
      ELSE Combine({Status(k) : k \in changed})

CheckNormative(pred, candidate) ==
  Or(\A r \in DOMAIN pred.rules :
       pred.rules[r].fixed => Lookup(candidate.rules, r) = {pred.rules[r]}, "FAIL")

------------------------------------------------------------------------------
RecordBound(r, q, policy) ==
  /\ r.evaluator \in DOMAIN policy.evaluators
  /\ r.version = policy.evaluators[r.evaluator]
  /\ r.proposal = ProposalDigest(q) /\ r.policy = policy.version

RecordStatus(r, q, context) ==
  VerifySignature("ATTESTATION", Unsigned(r), r.signature,
    Lookup(context.credentials, r.evaluator), q.epoch)

Fresh(r, policy, context) ==
  \A now \in context.time : now - r.issued \in 0..policy.maxAge

CheckAttestation(check, witness, policy, context) ==
  LET w == The(witness)
      records == w.records
      on == {i \in DOMAIN records : records[i].check = check}
      Status(i) == RecordStatus(records[i], w.proposal, context)
      Votes(s) == Cardinality({i \in on : Status(i) = "PASS" /\ records[i].status = s})
      decisions == {s \in {"PASS", "FAIL"} : Votes(s) >= policy.quorum}
  IN  IF witness = {} THEN "UNKNOWN"
      ELSE IF on = {} THEN "UNKNOWN"
      ELSE IF \/ \E i, j \in on : i # j /\ records[i].evaluator = records[j].evaluator
              \/ \E i \in on :
                   \/ ~RecordBound(records[i], w.proposal, policy) \/ Status(i) = "FAIL"
                   \/ ~Fresh(records[i], policy, context) THEN "FAIL"
      ELSE IF \/ Cardinality(decisions) # 1 \/ context.time = {}
              \/ \E i \in on : Status(i) = "UNKNOWN" THEN "UNKNOWN"
      ELSE The(decisions)

------------------------------------------------------------------------------
(* Stage 4: the manifest, applied again, gives the candidate.              *)
StateApplication(pred, proposal, candidate) ==
  IF proposal = {} THEN "UNKNOWN"
  ELSE Or(Apply(pred, The(proposal).manifest) = {candidate}, "FAIL")

Semantics == {"I_hist", "I_temp", "I_bel", "I_rel", "I_norm"}

NativeCheck(name, pred, proposal, candidate, policy, context) ==
  CASE name = "I_hist" -> CheckHistoricalChronicle(pred, candidate, proposal, policy, context)
    [] name = "I_temp" -> CheckTemporal(pred, candidate, context)
    [] name = "I_bel"  -> CheckBeliefCoherence(pred, candidate, proposal, context)
    [] name = "I_rel"  -> CheckRelational(pred, candidate, policy, proposal, context)
    [] name = "I_norm" -> CheckNormative(pred, candidate)

(* verify_cognitive_continuity: every condition is collected; the worst    *)
(* one decides.  An attested semantic check replaces the native one.       *)
Conditions(pred, witness, candidate, policy, context) ==
  LET proposal == {w.proposal : w \in witness}
      lineage == LineageConditions(pred, candidate, witness, policy, context)
      Semantic(name) ==
        IF name \in policy.attested THEN CheckAttestation(name, witness, policy, context)
        ELSE NativeCheck(name, pred, proposal, candidate, policy, context)
      Required(name, Status(_)) == IF name \in policy.requires THEN Status(name) ELSE "PASS"
  IN  (IF "I_lin" \in policy.requires THEN Range(lineage) ELSE {})
      \cup {Required("I_auth", LAMBDA n : CheckAuthority(proposal, pred, policy, context)),
            Required("I_prov", LAMBDA n : CheckProvenance(proposal, context)),
            Required("state_application",
                     LAMBDA n : StateApplication(pred, proposal, candidate))}
      \cup {Required(name, Semantic) : name \in Semantics}

(* Mutant: what is missing hides what is wrong.                            *)
Verdict_GapsFirst(pred, witness, candidate, policy, context) ==
  LET statuses == Conditions(pred, witness, candidate, policy, context)
  IN  IF "UNKNOWN" \in statuses THEN "INDETERMINATE"
      ELSE IF "FAIL" \in statuses THEN "INVALID" ELSE "VALID"

Verdict(pred, witness, candidate, policy, context) ==
  LET statuses == Conditions(pred, witness, candidate, policy, context)
  IN  IF "FAIL" \in statuses THEN "INVALID"
      ELSE IF "UNKNOWN" \in statuses THEN "INDETERMINATE" ELSE "VALID"

=============================================================================
