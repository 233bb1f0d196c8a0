------------------------------ MODULE MCGateway ------------------------------
(***************************************************************************)
(* Two concurrent dispatches.  The controller may admit a failover for its *)
(* exact action, and another under an envelope whose template admits one   *)
(* more candidate; the templates offered for registration are the attested *)
(* one and one that was altered after its attestation.  The certificates   *)
(* are presented properly, with another proposal the template admits, and  *)
(* as an unsigned copy with a longer life.                                 *)
(***************************************************************************)
EXTENDS EnvelopeGateway

CONSTANTS d1, d2

MCDispatches == {d1, d2}
MCPrincipals == {"agent"}
MCActions == {"FailoverDatabase"}
MCScopeItems == {"cluster"}

View(role, epoch) ==
  [clusterId |-> "prod", candidateRole |-> role, activeNodes |-> {"r1", "r2"},
   replicationEpoch |-> epoch, schedulable |-> [node \in {} |-> TRUE]]

MCViews == {View("standby", 1), View("offline", 1)}
MCPolicyEpochs == {1, 2}

Failover(candidate, loss) ==
  [principal |-> "agent", action |-> "FailoverDatabase", scope |-> {"cluster"},
   params |-> [candidateStandby |-> Text(candidate)], goal |-> "emergency",
   constraints |-> {}, maxDataLoss |-> {<<"number", loss>>}]

Guard(id, expected) == [id |-> id, target |-> "cluster", expected |-> expected]

FailoverGuards ==
  {Guard("guard-candidate-role", "standby"), Guard("guard-candidate-identity", "r2")}

Template(candidates, loss) ==
  [ templateId |-> "failover", version |-> 1, targetAction |-> "FailoverDatabase",
    resources |-> [candidateStandby |-> candidates],
    parameters |-> {}, goals |-> {"emergency"}, required |-> {},
    maxDataLoss |-> {loss}, guardIds |-> {"guard-candidate-role"}, maxValidity |-> 1,
    coverage |-> {[kind |-> "OBSERVE", family |-> "replication_lag", classes |-> {"TELEMETRY"}]} ]
AttestedTemplate == Template({"r1", "r2"}, 0)
MCTemplates == {AttestedTemplate, Template({"r1", "r2", "r3"}, 9)}
Attestation(template, signature) ==
  [ templateId |-> template.templateId, version |-> template.version,
    digestOf |-> template, signature |-> signature ]
MCAttestations ==
  { Attestation(AttestedTemplate, "authority"),
    Attestation(Template({"r1", "r2", "r3"}, 9), "forged") }

MCPolicy ==
  [ epoch |-> 1,
    rules |-> {[id |-> "omega-1", kind |-> "OBSERVE", families |-> {"replication_lag"},
                classes |-> {"TELEMETRY"}]} ]
Admission(id, mode, proposal, witnessExpiry) ==
  [ id |-> id, mode |-> mode, proposal |-> proposal, templateKey |-> <<"failover", 1>>,
    manifest |-> {"omega-1"}, guards |-> FailoverGuards, witnessExpiry |-> witnessExpiry ]
ExactAdmission == Admission("n1", "EXACT_ACTION", Failover("r2", 0), 0)
MCAdmissions ==
  { ExactAdmission, Admission("n2", "ENVELOPE", Failover("r2", 0), 2) }

Request(c, who, proposal) ==
  [certificate |-> c, requester |-> who, proposal |-> proposal]

Issuable ==
  {ExactCertificate(ExactAdmission, time) : time \in 0..MaxTime}
    \cup {EnvelopeCertificate(a, Instantiated(t, a.proposal, time), time) :
            a \in MCAdmissions \ {ExactAdmission}, t \in MCTemplates, time \in 0..MaxTime}
MCRequests ==
  {Request(c, "agent", c.covers) : c \in Issuable}
    \cup {Request(c, "agent", Failover("r1", 0)) : c \in {x \in Issuable : x.mode = "ENVELOPE"}}
    \cup {Request([ExactCertificate(ExactAdmission, 0) EXCEPT
                     !.signed = FALSE, !.expiresAt = 1], "agent", Failover("r2", 0))}

(* Bounds of the runs: the candidate is healthy at the start, and of the   *)
(* two dispatches, which are alike, d1 is called first.                    *)
InOrder(d) == d = d2 => pc[d1] # "idle"
MCDispatching ==
  /\ \/ \E d \in Dispatches, r \in Requests :
          InOrder(d) /\ Presentable(r.certificate) /\ CallWith(d, r)
     \/ Running
  /\ UNCHANGED envelopeVars
MCInit == EnvelopeInit /\ view = View("standby", 1)
MCNext == Granting \/ MCDispatching
MCGuardSpec == MCInit /\ [][MCNext]_<<vars, envelopeVars>>
MCSpec == MCGuardSpec /\ Fairness

------------------------------------------------------------------------------
(* What certificate/tests/envelope.test.ts and the schema's kinds of       *)
(* constraint say of validateProposalAgainstTemplate and manifestCovers,   *)
(* on a template that uses every kind.                                     *)
FullTemplate ==
  [Template({"replica-02", "replica-03"}, 0) EXCEPT
     !.resources = [candidateStandby |-> {"replica-02", "replica-03"}, principal |-> {"agent"}],
     !.parameters = {[param |-> "timeout", type |-> "RANGE", min |-> {1}, max |-> {60},
                      allowed |-> {}],
                     [param |-> "mode", type |-> "ENUM", min |-> {}, max |-> {},
                      allowed |-> {Text("graceful"), Text("forced")}]},
     !.required = {"zero-unreplicated-transactions"}]
Params(candidate, timeout, mode) ==
  [candidateStandby |-> candidate, timeout |-> timeout, mode |-> mode]
Sample ==
  [Failover("replica-02", 0) EXCEPT
     !.params = Params(Text("replica-02"), <<"number", 60>>, Text("forced")),
     !.constraints = {"zero-unreplicated-transactions", "quiet"}]
Without(param) == [p \in DOMAIN Sample.params \ {param} |-> Sample.params[p]]

ASSUME EnvelopeExamples ==
  /\ Allows(FullTemplate, Sample)
  /\ Allows([FullTemplate EXCEPT !.goals = {}], [Sample EXCEPT !.goal = "anything"])
  /\ \A bad \in
       {[Sample EXCEPT !.params = Params(candidate, <<"number", 60>>, Text("forced"))] :
          candidate \in {Text("replica-04"), Null, <<"number", 1>>, <<"object">>}}
         \cup {[Sample EXCEPT !.params = Params(Text("replica-02"), timeout, Text("forced"))] :
                 timeout \in {<<"number", 0>>, <<"number", 61>>, Text("60"), Null}}
         \cup {[Sample EXCEPT !.params = Without(param)] : param \in DOMAIN Sample.params}
         \cup {[Sample EXCEPT !.params["mode"] = Text("sudden")],
               [Sample EXCEPT !.action = "DropDatabase"], [Sample EXCEPT !.goal = "anything"],
               [Sample EXCEPT !.constraints = {"quiet"}], [Sample EXCEPT !.principal = "other"],
               [Sample EXCEPT !.maxDataLoss = {}],
               [Sample EXCEPT !.maxDataLoss = {<<"number", 1>>}],
               [Sample EXCEPT !.maxDataLoss = {<<"number", -1>>}]} :
       ~Allows(FullTemplate, bad)
  /\ LET envelope == Instantiated(FullTemplate, Sample, 0)
         other == [Sample EXCEPT !.params["candidateStandby"] = Text("replica-03")]
     IN  /\ ManifestCovers({"omega-1", "omega-2"}, Sample, envelope, MCPolicy.rules)
         /\ ~ManifestCovers({"omega-2"}, Sample, envelope, MCPolicy.rules)
         /\ ~ManifestCovers({"omega-1"}, Sample, envelope, {})
         /\ Allows(FullTemplate, other)
         /\ ~ManifestCovers({"omega-1"}, other, envelope, MCPolicy.rules)

=============================================================================
