-------------------------- MODULE ContinuityFixtures --------------------------
(***************************************************************************)
(* An identity and the transitions proposed for it (cct/src/cctbench/      *)
(* generator/base.py and families.py), as functions of the state they      *)
(* start from.  An offer is [name, base, manifest, applied]: one of the    *)
(* generator's families, single and compound faults, or a manifest of our  *)
(* own that mixes the engine's operations (Extra); the predecessor; the    *)
(* manifest; and what the engine makes of it.  Everything else about it -  *)
(* evidence, proposal, candidate, witness - follows.                       *)
(* Times are small numbers, and the trust threshold is two interactions.   *)
(***************************************************************************)
EXTENDS ContinuityVerifier

Governors == {"gov1", "gov2"}
Evaluators == {"eval1", "eval2", "eval3", "eval4"}
Principals == Governors \cup Evaluators \cup {"runtime", "outsider", "kernel"}
Identity == "demo"

PlainEvent(i) ==
  [ id |-> <<i, "event">>, epoch |-> i, timestamp |-> 2 * i, content |-> "observed",
    evidence |-> {}, acquired |-> {}, annotations |-> <<>>, tombstone |-> FALSE, original |-> {},
    reason |-> {}, principal |-> {}, signature |-> {} ]

Genesis ==
  [ epoch |-> 4, timestamp |-> 8, chronicle |-> [i \in 1..3 |-> PlainEvent(i)],
    beliefs |-> [hypothesis |-> [proposition |-> "hypothesis", value |-> FALSE,
                   established |-> 1, revised |-> 1, ref |-> {}, history |-> <<>>]],
    memory |-> << [session |-> <<0, "old">>, expires |-> {7}],
                  [session |-> <<0, "recent">>, expires |-> {99}] >>,
    knowledge |-> [k \in {<<0, "constant">>} |->
      [structured |-> FALSE, claimed |-> {}, evidence |-> {}]],
    relationships |->
      [ collaborator |-> [entity |-> "collaborator", tier |-> "DEFAULT", count |-> 2,
                          ids |-> <<"c1", "c2">>, last |-> 0],
        stranger |-> [entity |-> "stranger", tier |-> "DEFAULT", count |-> 0,
                      ids |-> <<>>, last |-> 0] ],
    rules |-> [core |-> [text |-> "fiduciary", fixed |-> TRUE]],
    governance |-> [p \in Governors \cup {"runtime"} |->
      [ role |-> IF p \in Governors THEN "IDENTITY_CUSTODIAN" ELSE "RUNTIME",
        scopes |-> {"ALL_MUTATIONS"} ]],
    config |-> [model |-> "a", adapter |-> <<0, "adapter">>] ]

DefaultPolicy ==
  [ requires |-> Semantics \cup {"I_lin", "I_auth", "I_prov", "state_application",
                                 "attestation_resolution"},
    canonicalHead |-> TRUE, trustThreshold |-> 2, authorityThreshold |-> 1,
    normativeThreshold |-> 2, attested |-> {}, quorum |-> 2, maxAge |-> 2,
    evaluators |-> [p \in Evaluators |-> 1], tombstoneRoles |-> {"IDENTITY_CUSTODIAN"},
    version |-> 2 ]

PlainCredential(p) ==
  [ key |-> p, from |-> 0, until |-> {}, compromised |-> {}, statusKnown |-> TRUE,
    revoked |-> {} ]

Sign(p, kind, payload) == {[key |-> p, kind |-> kind, over |-> payload]}

------------------------------------------------------------------------------
Families ==
  { "L1", "L2", "L3", "L4", "L5", "L6", "L7", "L8", "L9", "L10", "I1", "I2", "I3", "I4",
    "I5", "I6", "I7", "I8", "I9", "I10", "D1", "D2", "D3", "D4" }
OnTheUpgrade ==
  { "lineage_binding", "scope", "receipt_binding", "receipt_signature",
    "head_contradiction", "head_missing", "authority_missing", "provenance",
    "provenance_missing", "provenance_unavailable", "state_application",
    "attestation_conflict", "attestation_missing", "attestation_binding" }
SingleCases ==
  OnTheUpgrade \cup {"authority", "historical", "temporal", "belief", "relational", "normative"}
CompoundCases ==
  {"authority_and_normative", "unlogged_history", "provenance_and_belief", "unknown_and_invalid"}
Extra ==
  { "succession", "amend", "amend_alone", "amend_repeated", "amend_runtime", "disguised_delete",
    "weaken", "redact", "redact_runtime", "rewrite_and_redact", "reorder", "replace_last",
    "meet", "meet_and_trust", "revise_twice", "revise_and_forget", "backdate",
    "learn_and_backdate", "set_clock", "attestation_pass", "attestation_stale" }
Names == Families \cup SingleCases \cup CompoundCases \cup Extra

(* The family whose manifest a case perturbs.                              *)
Effective(name) ==
  CASE name \in OnTheUpgrade \cup {"attestation_pass", "attestation_stale"} -> "L8"
    [] name = "authority" -> "I7"
    [] name \in {"belief", "provenance_and_belief"} -> "I2"
    [] name = "relational" -> "I4"
    [] name \in {"normative", "authority_and_normative", "unknown_and_invalid"} -> "I3"
    [] name \in {"I6", "I7", "I9", "I10", "D1", "D2", "D3", "D4", "unlogged_history"} ->
         "succession"
    [] OTHER -> name

Mutation(op, args, ref, i) ==
  [id |-> i, op |-> op, target |-> Targets[op], args |-> args, pre |-> {}, ref |-> ref]

------------------------------------------------------------------------------
(* The evidence an offer cites, under a name of its own.                   *)
Uri(o) == <<o.base.epoch, o.name>>
EventId(o) == Uri(o)

FirstEvent(s) == s.chronicle[1]
LastEvent(s) == Last(s.chronicle)

NewEvent(o, content) ==
  [ PlainEvent(1) EXCEPT !.id = EventId(o), !.epoch = o.base.epoch + 1,
      !.timestamp = o.base.timestamp + 1, !.content = content, !.evidence = {Uri(o)},
      !.acquired = {o.base.timestamp} ]

Claim(o, time) == [structured |-> TRUE, claimed |-> {time}, evidence |-> {Uri(o)}]

Learn(o, time) ==
  Mutation("INSERT_KNOWLEDGE", [key |-> Uri(o), value |-> Claim(o, time)], {Uri(o)}, 0)

Revise(o, value, i) ==
  Mutation("REVISE_BELIEF", [proposition |-> "hypothesis", value |-> value], {Uri(o)}, i)
Forget(o, i) ==
  Mutation("RETROACTIVE_BELIEF", [proposition |-> "hypothesis", established |-> 0], {Uri(o)}, i)

Relate(o, entity, tier, ids) ==
  Mutation("UPDATE_TRUST_TIER",
    [entity |-> entity, tier |-> tier, increment |-> Len(ids), ids |-> ids], {Uri(o)}, 0)

(* A deletion, signed by p for the event as the predecessor has it.        *)
Redact(o, p, i) ==
  LET e == FirstEvent(o.base)
  IN  Mutation("DELETE_CHRONICLE_EVENT",
        [ event |-> e.id, reason |-> "privacy", principal |-> {p},
          signature |-> Sign(p, "TOMBSTONE",
            << {<<Identity, o.base.epoch>>}, e.id, {EventCommitment(e)}, e.timestamp,
               {"privacy"} >>) ], {}, i)

Rewrite(s, i) ==
  Mutation("REWRITE_CHRONICLE", [event |-> FirstEvent(s).id, content |-> "rewritten"], {}, i)

Amend(rule, fixed, i) ==
  Mutation("INSERT_NORMATIVE_RULE",
           [rule |-> rule, content |-> [text |-> "amended", fixed |-> fixed]], {}, i)

(* The manifest of an offer; <<>> when the generator has none to make.     *)
Manifest(o) ==
  LET s == o.base
      case == Effective(o.name)
      expired == SelectSeq(s.memory, LAMBDA v : \E t \in v.expires : t < s.timestamp)
  IN
  CASE case = "L1" -> <<Learn(o, s.timestamp)>>
    [] case \in {"L2", "I1"} ->
         <<Mutation("APPEND_CHRONICLE",
            [event |-> NewEvent(o, IF case = "L2" THEN "finding"
                                   ELSE "fabricated")], {Uri(o)}, 0)>>
    [] case = "L3" -> <<Revise(o, ~s.beliefs["hypothesis"].value, 0)>>
    [] case = "L4" -> <<Relate(o, "collaborator", "HIGH", <<>>)>>
    [] case = "I4" -> <<Relate(o, "stranger", "HIGH", <<>>)>>
    [] case = "L5" ->
         << Mutation("EVICT_BUFFER", <<>>, {}, 0),
            Mutation("INSERT_SUMMARY", [summary |-> [session |-> Uri(o), expires |-> {}]],
                     {Uri(o)}, 1) >>
    [] case = "L6" ->
         IF expired = <<>> THEN <<>>
         ELSE <<Mutation("PRUNE_EXPIRED_CONTEXT", [session |-> Head(expired).session], {}, 0)>>
    [] case = "L7" ->
         <<Mutation("ANNOTATE_CORRECTION",
            [event |-> FirstEvent(s).id, correction |-> "updated"], {Uri(o)}, 0)>>
    [] case = "L8" -> <<Mutation("UPDATE_RUNTIME_CONFIG", [adapter |-> Uri(o)], {}, 0)>>
    [] case = "L9" -> <<Mutation("FORWARD_RESTORE", [restored |-> s.epoch], {Uri(o)}, 0)>>
    [] case = "L10" -> <<Mutation("REBIND_SUBSTRATE", [model |-> "b", proof |-> Uri(o)],
                                  {Uri(o)}, 0)>>
    [] case = "I2" -> <<Forget(o, 0)>>
    [] case = "I3" -> <<Mutation("DELETE_NORMATIVE_RULE", [rule |-> "core"], {}, 0)>>
    [] case = "I5" -> <<Mutation("REMOVE_CHRONICLE", [event |-> FirstEvent(s).id], {}, 0)>>
    [] case = "I8" -> <<Mutation("REMOVE_CHRONICLE", [event |-> LastEvent(s).id], {}, 0)>>
    [] case \in {"succession", "I7"} -> <<Mutation("CLAIM_SUCCESSION", <<>>, {}, 0)>>
    [] case = "historical" -> <<Rewrite(s, 0)>>
    [] case = "temporal" -> <<Learn(o, s.timestamp - 1)>>
    [] case \in {"amend", "amend_alone", "amend_repeated", "amend_runtime"} ->
         <<Amend("extra", FALSE, 0)>>
    [] case = "disguised_delete" ->
         <<[Mutation("DELETE_NORMATIVE_RULE", [rule |-> "extra"], {}, 0)
              EXCEPT !.target = "runtime_config"]>>
    [] case = "weaken" -> <<Amend("core", FALSE, 0)>>
    [] case = "redact" -> <<Redact(o, "gov1", 0)>>
    [] case = "redact_runtime" -> <<Redact(o, "runtime", 0)>>
    [] case = "rewrite_and_redact" -> <<Rewrite(s, 0), Redact(o, "gov1", 1)>>
    [] case = "reorder" ->
         <<Mutation("REORDER_CHRONICLE", [order |-> Reverse(EventIds(s))], {}, 0)>>
    [] case = "replace_last" ->
         << Mutation("REMOVE_CHRONICLE", [event |-> LastEvent(s).id], {}, 0),
            Mutation("APPEND_CHRONICLE",
              [event |-> [NewEvent(o, "replaced") EXCEPT !.id = LastEvent(s).id]],
              {Uri(o)}, 1) >>
    [] case = "meet" -> <<Relate(o, "stranger", "DEFAULT", <<"s1", "s2">>)>>
    [] case = "meet_and_trust" -> <<Relate(o, "stranger", "HIGH", <<"s1", "s2">>)>>
    [] case = "revise_twice" ->
         LET v == s.beliefs["hypothesis"].value IN <<Revise(o, ~v, 0), Revise(o, v, 1)>>
    [] case = "revise_and_forget" ->
         <<Revise(o, ~s.beliefs["hypothesis"].value, 0), Forget(o, 1)>>
    [] case = "backdate" ->
         LET keys == {k \in DOMAIN s.knowledge : s.knowledge[k].structured} IN
         IF keys = {} THEN <<>>
         ELSE <<Mutation("BACKDATE_KNOWLEDGE", [key |-> The(keys), claimed |-> 0], {Uri(o)}, 0)>>
    [] case = "learn_and_backdate" ->
         << Learn(o, s.timestamp),
            Mutation("BACKDATE_KNOWLEDGE", [key |-> Uri(o), claimed |-> 0], {Uri(o)}, 1) >>
    [] case = "set_clock" ->
         <<Mutation("SET_CLOCK", [epoch |-> s.epoch, timestamp |-> s.timestamp + 1], {}, 0)>>

(* The offer of that name, if there is a manifest and the engine takes it. *)
OfferOf(name, s) ==
  LET manifest == Manifest([name |-> name, base |-> s])
  IN  IF manifest = <<>> THEN {}
      ELSE {[name |-> name, base |-> s, manifest |-> manifest, applied |-> t] :
              t \in Apply(s, manifest)}

------------------------------------------------------------------------------
(* What the offline resolver says: support for the belief the manifest     *)
(* ends on and for the interactions it relies on.                          *)
SupportedRevision(o) ==
  {<<m.args.proposition, o.applied.beliefs[m.args.proposition].value>> :
     m \in {n \in ToSet(o.manifest) : n.op = "REVISE_BELIEF"}}

SupportedRecords(o) ==
  {{[session |-> id, entity |-> m.args.entity, positive |-> TRUE,
     acquired |-> o.base.timestamp - 1] :
      id \in ToSet(o.base.relationships[m.args.entity].ids \o m.args.ids)} :
     m \in {n \in ToSet(o.manifest) : n.op = "UPDATE_TRUST_TIER"}}

EvidenceOf(o) ==
  [ identity |-> Identity, epoch |-> o.base.epoch, acquired |-> {o.base.timestamp},
    eventId |-> EventId(o), content |-> "finding", finding |-> "found",
    revision |-> SupportedRevision(o), records |-> SupportedRecords(o) ]

(* What the verifier's store holds for it.                                 *)
Stored(o) ==
  IF o.name \in {"D3", "provenance_unavailable"} THEN {}
  ELSE {IF o.name \in {"I10", "provenance", "provenance_and_belief"}
          THEN [EvidenceOf(o) EXCEPT !.finding = "corrupted"] ELSE EvidenceOf(o)}

CandidateOf(o) ==
  CASE o.name \in {"I6", "state_application"} ->
         [o.applied EXCEPT !.memory = Append(@, [session |-> <<0, "injected">>, expires |-> {}])]
    [] o.name = "unlogged_history" -> [o.applied EXCEPT !.chronicle[1].content = "rewritten"]
    [] OTHER -> o.applied

SignersOf(name) ==
  CASE name \in {"I7", "authority", "authority_and_normative"} -> <<"outsider">>
    [] name = "amend_alone" -> <<"gov1">>
    [] name = "amend_repeated" -> <<"gov1", "gov1">>
    [] name = "amend_runtime" -> <<"gov1", "runtime">>
    [] OTHER -> <<"gov1", "gov2">>

ProposalOf(o) ==
  LET q == [ identity |-> IF o.name = "scope" THEN "other" ELSE Identity,
             epoch |-> o.base.epoch,
             predecessor |-> IF o.name \in {"I8", "lineage_binding"} THEN Digest("OTHER", "stale")
                             ELSE StateDigest(o.base),
             manifest |-> o.manifest, authority |-> {},
             provenance |-> IF o.name \in {"D1", "provenance_missing", "unknown_and_invalid"}
               THEN {}
               ELSE {[ dependencies |-> <<[id |-> Uri(o), uri |-> Uri(o),
                                          digest |-> Digest("EVIDENCE", EvidenceOf(o))]>>,
                       citations |-> {Uri(o)} ]} ]
      Signed(p) ==
        LET signer == [ principal |-> p, scope |-> "ALL_MUTATIONS", signature |-> {},
                        role |-> IF p = "runtime" THEN "RUNTIME" ELSE "IDENTITY_CUSTODIAN" ]
        IN  [signer EXCEPT !.signature = Sign(p, "AUTHORITY", AuthorityPayload(q, signer))]
      names == SignersOf(o.name)
  IN  [q EXCEPT !.authority = IF o.name = "authority_missing" THEN {}
                              ELSE {[i \in DOMAIN names |-> Signed(names[i])]}]

------------------------------------------------------------------------------
PolicyOf(o) ==
  [DefaultPolicy EXCEPT !.attested =
     IF o.name \in {"D4", "attestation_conflict", "attestation_missing", "attestation_binding",
                    "attestation_pass", "attestation_stale"} THEN {"I_bel"} ELSE {}]

VotesOn(name) ==
  CASE name \in {"D4", "attestation_conflict"} -> <<"PASS", "PASS", "FAIL", "FAIL">>
    [] name \in {"attestation_binding", "attestation_pass", "attestation_stale"} ->
         <<"PASS", "PASS">>
    [] OTHER -> <<>>

(* The evaluators' signed records.                                         *)
RecordsOf(o, q) ==
  LET names == <<"eval1", "eval2", "eval3", "eval4">>
      Record(i) ==
        LET r == [ check |-> "I_bel", evaluator |-> names[i], version |-> 1, policy |-> 2,
                   proposal |-> IF o.name = "attestation_binding"
                     THEN Digest("OTHER", "different") ELSE ProposalDigest(q),
                   status |-> VotesOn(o.name)[i], signature |-> {},
                   issued |-> IF o.name = "attestation_stale" THEN o.base.timestamp - 1
                              ELSE CandidateOf(o).timestamp ]
        IN  [r EXCEPT !.signature = Sign(names[i], "ATTESTATION", Unsigned(r))]
  IN  [i \in DOMAIN VotesOn(o.name) |-> Record(i)]

ReceiptOf(o, core) ==
  LET q == core.proposal
      receipt == [ kernel |-> "kernel", identity |-> q.identity, epoch |-> q.epoch,
                   parent |-> q.predecessor, successor |-> StateDigest(CandidateOf(o)),
                   core |-> IF o.name = "receipt_binding" THEN Digest("OTHER", "wrong")
                            ELSE CoreDigest(core), signature |-> {} ]
  IN  [receipt EXCEPT !.signature =
         Sign("kernel", "COMMIT-RECEIPT",
              Unsigned(IF o.name \in {"I9", "receipt_signature"}
                         THEN [receipt EXCEPT !.epoch = -1] ELSE receipt))]

(* finalize: authority first, then the records, then the receipt.          *)
WitnessOf(o) ==
  LET q == ProposalOf(o)
      core == [proposal |-> q, records |-> RecordsOf(o, q)]
  IN  [proposal |-> q, records |-> core.records, receipt |-> {ReceiptOf(o, core)}]

(* The head evidence the finished proposal leaves in the context.          *)
HeadOf(o) ==
  LET q == ProposalOf(o) IN
  IF o.name \in {"D2", "head_missing"} THEN {}
  ELSE {[ identity |-> q.identity, epoch |-> q.epoch, parent |-> q.predecessor,
          proposal |-> ProposalDigest(q), successor |-> StateDigest(CandidateOf(o)),
          exclusive |-> {o.name # "head_contradiction"} ]}

=============================================================================
