# Controlled agentic change: TLA+ models and proofs

This directory holds the TLA+ development of the repository: models of the
admission control runtime and its two targets under `src/cac` (TypeScript) and of
the engine and verifier of cognitive continuity under `src/cct` (Python), TLC
configurations that check them on small instances, and TLAPS proofs of their
main properties for every value of the constants.

Contents: 1 the system, 2 what is hard about it, 3 the modules, 4 the runs,
5 fairness, 6 the proofs, 7 findings, 8 what is not modelled, 9 what could
follow, 10 how to run everything.

## 1. The system

An *agent* proposes a change of infrastructure: fail a database over, drain a
node, apply a network policy. A *controller* decides whether the evidence about
the target supports the proposal. It answers PERMIT with a certificate, DEFER
with the evidence it still wants, ESCALATE, DENY or ABORT. A *gateway* is the
only way to the target: it admits a presentation of a certificate once and calls
the target's *adapter*.

| component (source) | state it keeps | operations | interacts with |
|---|---|---|---|
| in-memory capability store (`gateway/src/capabilityStore.ts`) | map nonce -> UNUSED/CONSUMED, map nonce -> lock promise | registerNonce, isUnused, consumeOnce, reset | called by the gateway |
| on-disk capability store (same file) | one `.spent` file per consumed nonce in a directory shared by processes | isUnused, consumeOnce, registerNonce (no effect), reset (throws) | called by the gateway of each process |
| gateway (`gateway/src/dispatch.ts`, `validation.ts`, `guardEvaluator.ts`) | none of its own; the revocation list is passed in | authorizedDispatch = admissionValid, consumeOnce, adapter.execute | store, authorizer, adapter |
| live authorizer (`policy/src/authorization.ts`) | principal -> granted (action, scope item) pairs | grant, revoke, isAuthorized, createSnapshot | read live by the gateway, as a snapshot by the controller |
| certificates (`certificate/src`) | none | mintCertificate, deriveGuards, computeWitnessExpiration, instantiateEnvelope | called by controller and gateway |
| envelope registry (`policy/src/envelopeRegistry.ts`) | one template for each id and version | register, get | asked by whoever grants an admission under an envelope |
| admission controller (`workloop/src`) | audit log only | evaluate, discharge, entailment, ranking, remediation | policy, evidence, certificates |
| evidence (`evidence/src/eligibility.ts`, `setConstraints.ts`, `authenticity.ts`) | none | eligibility, set constraints, authenticity | called by discharge |
| evidence failure decomposition (`evidence/src/efd.ts`) | none | validate a fault profile, decisive coalitions, minimum fault cuts, kappaE | called by the set constraints |
| policy (`policy/src`) | registry of policies | risk, static compliance, obligation expansion | called by evaluate |
| PostgreSQL target (`adapters/postgres/src`) | cluster model: primary, standbys, WAL positions, replication epoch | observe, promote, record topology | adapter of the gateway, observer of the loop |
| Kubernetes target (`adapters/kubernetes/src`) | nodes, pods, disruption budgets, live dispatch tokens | drain, rollout, network policy | adapter of the gateway |
| schemas and core (`schemas`, `core`) | none | types, canonical JSON, hashing, logging | everywhere |
| TypeScript benchmark (`bench/cacbench`) | evidence pool and turn counter of one trial, the instrumented target and its counters | the epistemic work loop and its ablations, baselines, scenarios, the runner's score | drives controller and gateway |
| CCT engine (`src/cct/src/cctbench/engine`) | a lineage of events, epochs and heads | manifest application: append, tombstone, succession, clock | feeds the verifier |
| CCT verifier (`src/cct/src/cctbench/verifier`) | none | thirteen checks over a lineage, combined to a verdict | reads fixtures |
| CCT benchmark (rest of `src/cct`) | files | fixture generation, statistics | offline |

What makes each correct:

- **stores**: `consumeOnce` answers true to one call per nonce, whatever other
  calls, resets, process deaths or power failures do; nobody waits forever; a
  nonce answered true stays used.
- **gateway**: a certificate reaches the target at most once, only when it was
  admissible and its subject authorized; a presentation that is not admissible
  spoils nothing; the caller learns whether the target was reached.
- **controller, evidence, certificates**: a permitted action rests on evidence
  that was authentic, fresh, about this version of the target, and not
  contradicted by evidence as good; the certificate dies no later than the
  first receipt it rests on.
- **envelopes**: nothing reaches the target under an envelope but the proposal an
  admission was granted for, inside a template attested for its exact content.
- **benchmark**: a trial ends in harm because of the one mechanism an ablation
  lacks, or the one assumption a scenario breaks, and for no other reason.
- **failure decomposition**: the structural cut of a panel of verifiers is
  exactly the least number of common faults that can make it lie.
- **targets**: a drain respects disruption budgets, a failover has one primary,
  a token authorizes one mutation.
- **CCT**: no sequence of committed transitions rewrites the past, rewards
  what was not there before, or touches a rule that may not be amended; what is
  missing later never turns a committed transition into a violation; every case
  of the benchmark gets the verdict it is labelled with.

## 2. What is hard about it

`PROJECT.json` lists the hazards line by line. In summary:

- **interleaving**: several `consumeOnce` calls wake from one lock promise; two
  processes race for one file; two dispatches present one certificate; each
  `await` of the work loop and of the gateway lets the target, the clock, the
  policy and the grants move under values already read.
- **failure**: any file operation may throw after the file exists; the power may
  fail between creating a file and flushing its directory; a gateway process may
  die with the capability consumed and the target not called, or called and not
  answered; an adapter may throw after it has acted.
- **ordering**: what is sampled before an await and what is read after it
  (guards and policy epoch before, authorization and revocation after);
  evidence of both polarities; the order of the verdicts.
- **boundaries**: inclusive freshness and expiry, the expiry that is the least
  over obligations with different freshness, coalitions no fault can corrupt.
- **targets**: two agents hold certificates for one object and both have passed
  the gateway; a drain is a cordon and then evictions, each of which may be
  refused; a resource version is compared where a token has been spent already;
  a standby that crashed after its evidence was taken is promoted all the same.
- **long sequences**: an event is redacted and later rewritten, restored or
  redacted again; trust is granted by the transition that brings the
  interactions; two transitions share one epoch; a committed transition is judged
  again when heads have moved, keys are revoked and evidence is lost.

A few hazards are known and covered by no property, and are not in the list:
an error of `open` other than EEXIST leaves the nonce unburned although the class
comment says errors burn it (`capabilityStore.ts:87`; `OneShot` allows both);
thirteen eligible receipts of one obligation leave it UNKNOWN until some age out
(`discharge.ts:63`; the pools here stay below the limit); a dispatch token
registered before an early return stays live (`mutationAdapter.ts:28`);
`ApplyNetworkPolicy` does not look at `dryRun` and the policy it creates starts
at version 1 without moving the counter (`mutationAdapter.ts:146`, `182`);
`INSERT_KNOWLEDGE` stores its argument by reference (`apply.py:74`; the model has
values only).

## 3. The modules

```
OneShot  <== MemoryCapabilityStore          EpistemicCut <- EpistemicPanel
   ^     <== FileCapabilityStore                 ^
   | (INSTANCE, the gateway's store)          Evidence
Gateway -> AdmissionValidation -> Envelope       ^
   |  ^                                      Controller
   |  EnvelopeGateway                            ^
   v                                             |
MemoryAuthorizer <------------------------- WorkLoop -> AdmissionValidation

Benchmark      -> BenchmarkScenarios, Controller, AdmissionValidation

PostgresLoop   -> PostgresCluster,   Controller, AdmissionValidation
KubernetesLoop -> KubernetesCluster, Controller, AdmissionValidation

ContinuityLoop -> ContinuityFixtures -> ContinuityVerifier -> CognitiveEngine
```

`<==` is a refinement (the abstract module as a property and a theorem), other
arrows are EXTENDS or INSTANCE.

**OneShot** is what the interface `CapabilityStore` promises: a call claims a
free nonce, wins it, is refused because another call holds it, or throws; a power
failure may forget claims but no victory; a reset starts a new era.

**MemoryCapabilityStore** has one action per microtask of `consumeOnce`: the
synchronous prefix up to the first await (`ConsumeOnce`), the continuation after
an awaited lock promise (`Wake`), the critical section with its `finally`
(`CriticalSection`), and `RegisterNonce` and `ResetStore`. A lock promise is
named by the call that made it and is resolved when that call is done; `release`
deletes the map entry by key, so it may delete a lock that is not its own. Ready
microtasks run in any order, which includes the FIFO order of the job queue.
`owner`, `answer`, `era` and `wonIn` are history variables except that `answer`
is the returned value.

**FileCapabilityStore** has one action per awaited file operation, in the order
of the code (open with `wx`, fsync of the file, open, fsync and close of the
directory), one for the failure of the creation and one for a failure of any
later operation, the death of a process and a power failure. `files` is what
the running system sees and `durable` what a power failure cannot take; the file
system itself is modelled as the class comment asks for it.

**AdmissionValidation** states the checks of `admissionValid` and the live
guards as predicates on certificate, proposal, requester and sampled state.
Signatures are a Boolean; two proposals have one digest when they are equal.

**Envelope** translates the envelope templates (`certificate/src/envelope.ts`,
`policy/src/envelopeRegistry.ts`): what a template allows, the envelope it becomes for
a proposal, whether a manifest covers it, and when the registry takes a template. The
values of parameters carry their JSON type, because the checks test it.
**EnvelopeGateway** puts in front of the gateway where its certificates come from:
`Register`, `IssueExact` and `IssueUnderEnvelope` (instantiate, check the coverage,
mint). No source outside the tests issues a certificate under an envelope; the action
calls the functions in the order the tests do. What is presented has been issued or
does not verify.

**MemoryAuthorizer** is the map of grants with `Grant`, `RevokeAction`,
`RevokePrincipal` and `IsAuthorized`.

**Gateway** runs any number of `authorizedDispatch` calls. A dispatch is cut at
its awaits: `Call` up to the await of `isUnused`, `CheckNonce` its answer,
`FinishValidation` the rest of `admissionValid` (proposal, guards, epoch on the
sample; authorization and revocation live), `ClaimNonce`/`Consume` inside
`consumeOnce`, `Forward` the call of the adapter, `AdapterAnswers` its outcome.
`StoreThrows`, `Die` and `PowerFailure` are the failures. `Tick`, `Drift`,
`ChangePolicy`, `ChangeGrants` and `RevokeAdmission` move the world between any
two steps. The store is an instance of OneShot, which both stores implement, so
the gateway's results hold with either. The model's answer `REPLAY` is
the code's REJECTED with the reason that the nonce is used; `SkipGuards` is the
`skipGuards` flag.

**EpistemicCut** translates `efd.ts`: profile validation, decisive coalitions
(all-of, k-of-n, explicit), minimum hitting sets, `kappaE`, the merged minimum
cuts. **EpistemicPanel** lets verifiers join one by one and compares the cut
with direct propagation of faults.

**Evidence** translates eligibility, entailment, the four set constraints,
ranking and `discharge` as functions of a pool of receipts. **Controller**
translates static compliance, risk, obligation expansion, guard derivation,
witness expiration, minting in exact-action mode, and `evaluate`.

**WorkLoop** is the loop of the CAC controller of the benchmark
(`bench/cacbench/src/controllers/cac.ts`): `Evaluate`, `Fetch` for one open
obligation at a time, `Dispatch`. `Moves` moves clock, target or grants at the
awaits. The context is built once as in the code: policy and snapshot of grants
are pinned. The observers are sensors which report the target as it is at the
moment of the fetch, unless a fault they are exposed to is active, in which case
they report any of `Lies`. Dispatch is atomic here; its awaits are in Gateway.

**Benchmark** runs one trial: `Evaluate` is a turn of `createCACController` with any of
its ablation flags, `Compare` and `Vote` the baselines B0 to B5, AuthOnly and
LivePolicy, `Fetch` a call of `fetchTelemetry` as the runner wraps it, `Boundary` the
scenario's `beforeDispatch`, `Finish` the gate, the target's `executeAction` and the
runner's score. **BenchmarkScenarios** has the scenarios as records of what a trial
reads of them: BND1 to BND4, ROB1 to ROB4, EFD-BND1, R1 to R3 and the thirteen kinds
of the instrumented failover. A trial is one process, so only time passes between
steps. In reading the scenarios we noticed that some end as their description says
for another reason than it gives: ROB3 is blocked by the missing rollback attestation
and not by a structural cut (its policy asks for none); EFD-BND1 to EFD-BND3 are
denied by the static rules of the default PostgreSQL policy before any profile is
looked at, EFD-BND3 included.

**PostgresCluster** has the cluster model, its observer and the failover adapter
as functions of a cluster: injected faults show in what is observed and in a
promotion that times out, not in the stored nodes. `promoteStandby` is async but
awaits nothing, so one call of the adapter is one step. **PostgresLoop** lets
several agents inspect (`Inspect`), evaluate, present to the gateway's checks
(`Present`) and, after its awaits, dispatch, while `Faults` and `Tick` move the
cluster. The gateway appears by its predicates: each agent has a certificate of
its own and presents it once. `lastHeld` and `truthAge` are history.

**KubernetesCluster** has the cluster with its webhook and tokens, its observer
and the adapter, in the same way. A function that may throw returns `[ok, cluster]`,
the cluster being the one at the throw, so a half-done drain is visible; that
evictions go one by one is a fold over the pods. **KubernetesLoop** adds
agents, a caller who goes past the gateway (`RawUpdate`) and the cluster's own
controllers (`ClusterMoves`), which the webhook does not see.

**CognitiveEngine** translates `apply_mutations` operation by operation:
preconditions, errors, tombstones, snapshots into a belief's history, the clock.
**ContinuityVerifier** translates the five stages of the verifier and its checks, as
statuses (PASS, UNKNOWN, FAIL) with the code's precedence. A digest is the pair of
its domain and what it is taken of. What an ablation or a policy switches off is
absent from `requires`. **ContinuityFixtures** translates the generator: for each case
the manifest, evidence, signatures and head it comes with, starting from any
state and not only from the dataset's. An *offer* is such a case made for one
state: `[name, base, manifest, applied]`. **ContinuityLoop** proposes offers for the
committed state (`Propose`), judges them in any order (`Judge`; committed when
VALID, and then rivals proposed for the same state stay pending and stale),
archives heads, revokes keys, loses key histories and evidence. The verifier is
given the committed state as the predecessor, as `dataset.py` gives it; an offer
turned away leaves nothing behind. The cases marked `Extra` are manifests of our
own: they mix operations that no generator family mixes, and carry the evidence
records their new ids ask for.

## 4. The runs

| run | instance | question and answer |
|---|---|---|
| `memory_store` | 4 calls, 3 of them on one nonce, 2 nonces, at most 2 resets | One winner per nonce and era, mutual exclusion until the first reset, no lost wakeup, used stays used, refinement of OneShot. All hold. |
| `file_store` | 4 calls of 2 processes on 2 nonces, unbounded failures, deaths and power failures | A nonce answered true is durable and answered true once; only an unwon nonce becomes usable again; refinement of OneShot. All hold. |
| `gateway` | 2 dispatches, an attested and an altered template, an exact and an envelope admission, presentations as issued, altered or of another proposal; clock 0..1, 2 changes of the world | Executed at most once and only when admissible, rejections burn nothing, inadmissible calls burn nothing, honest answers, nothing under an envelope but what was admitted and attested, every dispatch ends. All hold. |
| `gateway_guard_window` | as `gateway` | Do the guards hold when the target is reached? No: see the findings. |
| `work_loop` | the PostgreSQL policy and three variants, 4 states of the target, early, forged and contradicting evidence; a network policy with 3 verifiers, at most one of two faults active, 6 quorum policies, approvals | What is executed was true recently enough, unless as many faults are active as the cut demanded; certificates die with their evidence; forgeries change nothing; nothing contested is certified. All hold with unique receipt ids. |
| `epistemic_panel` | 3 verifiers, 3 faults, every exposure; all-of, k in 0..4, explicit families of at most 2 coalitions, dangling exposures | The structural cut is exactly the least compromise. Holds. |
| `receipt_ids` | the failovers of `work_loop` with two sources that number their own receipts | Is the certificate bounded by its oldest evidence? No: see the findings. |
| `benchmark` | every controller on every scenario it is run on, but one trial | Does harm have the cause the scenario names; is what can be repaired repaired by those that may? Yes. |
| `kubernetes` | 2 agents, 6 proposals, 2 nodes, 2 pods and a third to come, a budget, a deployment; dry and real | One token per mutation; of two proposals for one version at most one is carried out; a drain is all or nothing within the budgets; current evidence about a node is true. All hold. |
| `postgres` | 2 agents, candidates of both nodes and a name that is none, 4 injected faults, clock 0..2 | One primary; each success is one promotion and nothing else is; who was promoted had been fit within the freshness. All hold. |
| `postgres_failback` | as `postgres`, no injected fault | Is the candidate refused as the active primary the active primary? No: see the findings. |
| `continuity` | 3 rounds of proposals, 48 generated cases and the `Extra` ones, rivals, 1 fault of keys or evidence | The past is kept; trust is earned; the core is governed; a committed transition never turns INVALID; every generated case gets its label. All hold. |

Why the bounds are enough for what they are to show:

- *memory_store*: three calls on one nonce put a holder, a parked waiter and a
  newcomer around one release; two resets let a caller of one era meet lock
  holders of two others; the fourth call is a bystander.
- *file_store*: two calls of one process and one of another race for one file;
  the call on the other nonce flushes the directory, and with it the foreign
  entry, at every moment.
- *gateway*: every hazard is about two dispatches and one certificate. The
  presentations are a good exact-action certificate, an unsigned copy of it with
  the same nonce and a longer life, an envelope certificate with the proposal it
  covers, and with one its template admits but it does not cover. A template whose
  content was changed after its attestation is offered as well. Two changes of
  the world (`MaxMoves`) allow "revoked and granted again" or "drifted and
  expired" inside one dispatch. Three bounds leave out what adds nothing: all
  is registered and issued before the first call (`LateGrants` is FALSE; a certificate
  issued later is presented later, the clock having moved before), the candidate is
  healthy at the start, and of the two dispatches, which are alike, `d1` is called
  first (`InOrder`). `EnvelopeExamples` checks the operators of Envelope on what the
  tests and the schema say of them.
- *work loop*: `MaxTurns` 3 and `TurnBudget` 5 are the code's. Freshness is
  scaled to 1, 2 and 3 ticks, so that the obligations differ and the clock
  (`MaxTime` 3, with evidence from before the start at -1) passes all of them;
  `Deadline` 2 lets the budget end a run inside it. One change of target or
  grants (`MaxMoves`) is placed at every await. The second lag sensor `a` speaks
  through the initial evidence only: fetches from it would be symmetric to those
  from `b`. `MaxReceipts` is the code's 12; pools stay below it.
  The run is of a failover or of a network policy (`OneCluster`); the clock of
  the latter stops at the deadline, for its states go into the choice of verifiers,
  lies and faults. The cuts demanded are at most 2, so one active fault is what they
  promise to withstand.
- *benchmark*: the scenarios have no size. Seeds only vary identifiers and B3's
  coin; a lag is none, tolerable or large; a fetch takes less than a millisecond
  or one, which decides whether two answers under one id differ. CAC-NoAdaptiveOmega on
  the correlated witnesses is left out: its 127 witnesses of seven agreeing
  receipts take TLC too long.
- *kubernetes*: two agents are what a lost update, a double drain and a drain
  behind a rollout need. The pods of one budget are two with the one scheduled
  meanwhile (`NewPods`), so a budget of one is asked twice by one drain. One
  move of the cluster (`MaxMoves`) at any await: a budget used up or freed, a node
  turned unready, a pod scheduled. The proposals name a version, or none, or
  an action the adapter has not. Agents are interchangeable (symmetry).
- *postgres*: two agents are enough for a promotion behind a certificate, the
  third name is a candidate there is not, and one injection or healing
  (`MaxFaults`), of a cluster that begins sound or with two faults, puts a fault
  before or behind the evidence.
  Freshness is scaled to 1, 1 and 3 ticks. Because of the failback finding a
  cluster can be failed over only once, so more agents would add refusals.
- *continuity*: a state worth attacking takes two transitions (something redacted,
  believed, trusted or amended), the attack is the third; `Rounds` names what is
  proposed in each. `Rivals` are the cases proposed against one already pending,
  among them the succession claim that shares its epoch. The trust threshold is
  two interactions instead of five, so it is reached within the rounds. One
  fault (`MaxFaults`) of a key, a key history or evidence.
- *epistemic_panel* is exhaustive for three verifiers and faults up to the named
  families. The theorems cover every size.

`CHECK_DEADLOCK FALSE` is set where the system really stops: finitely many calls
have returned, the loop has ended, or every verifier has joined. `file_store`
never stops (power can always fail), so deadlock is checked there.

Each property of each passing run is also tried on a mutant of a definition
(`PROJECT.json`, "mutants"; the definitions named `X_...` beside `X`), a
plausible bug which makes TLC report the property violated.

## 5. Fairness

Only two modules state liveness.

- `MemoryCapabilityStore`: weak fairness of `Wake(c)` and `CriticalSection(c)` of
  each call. The JavaScript job queue runs every ready microtask before anything
  else, and a call once ready stays so. Callers and resets are under no
  fairness.
- `Gateway`: weak fairness of `Progress(d)`, the continuation of each dispatch:
  the runtime resumes settled promises, the store answers (it does, by
  `EveryConsumeReturns` for the in-memory store and because the operating system
  completes or fails a file operation for the other), and the adapter returns or
  throws. The last is an assumption about adapters: the code has no timeout of
  its own around `execute`. Nothing forces a call, a death, or a move of the
  world.

The loops of the two targets and of continuity and the benchmark have no fairness: agents,
injected faults and proposals are under no schedule. The work loop is checked for
safety only; that it ends follows from its bounded
turns, which `TypeOK` of WorkLoop contains, and the harness gives no scheduling
guarantee to state more.

## 6. The proofs

TLAPS checks every proof, from the named assumptions on the constants
(`StoreAssumption`, `FileStoreAssumption`, `GatewayAssumption`, `EnvelopeAssumption`,
`PanelAssumption`, the five of WorkLoop, `PostgresLoopAssumption`,
`KubernetesLoopAssumption`, `OffersAssumption`); TLC evaluates each of these in
the runs.

| theorem | module | says |
|---|---|---|
| `OneShotSingleWinner` | MemoryCapabilityStoreProofs | whatever implements OneShot has one winner per nonce and era |
| `StoreTyped`, `MemoryStoreImplementsOneShot`, `MemoryStoreSingleWinner`, `LockIsExclusive`, `UsedNoncesStayUsed` | MemoryCapabilityStoreProofs | all safety properties of the in-memory store: `TypeOK`, `ImplementsOneShot`, `SingleWinner`, `LockExclusion`, `UsedStaysUsed` |
| `FileStoreTyped`, `WinnersAreDurable`, `FileStoreImplementsOneShot`, `FileStoreSingleWinner`, `OnlyUnwonIsReused` | FileCapabilityStoreProofs | the same of the on-disk store, with deaths and power failures |
| `GatewayTyped`, `OnlyAdmissibleIsExecuted`, `RejectionsBurnNothing`, `OnlyAdmissibleBurns`, `ResponsesAreHonest`, `GatewayExecutesOnce` | GatewayProofs | all safety invariants of the gateway run, for any certificates and presentations |
| `EnvelopeGatewayIsGateway`, `EnvelopesNeverWiden` | GatewayProofs | the gateway with registry and minting in front of it implements the gateway alone, so the results above hold of it; nothing reaches the target under an envelope but the very proposal an admission was granted for, in an attested template, in time |
| `KappaIsLeastCompromise`, `ReportedCutsAreExact`, `CutOnlyFalls` | EpistemicPanelProofs | the cut is exact, for any number of verifiers and faults |
| `WorkLoopTyped`, `ForgeriesChangeNothing`, `CertificatesDieWithTheirEvidence`, `NothingContestedIsCertified`, `ExecutedIsTrue` | WorkLoopProofs | all safety properties of the work loop, for any policies, profiles, worlds, sensors and evidence: types and turns, forged receipts are inert, nothing contested is certified; if receipt ids are unique, the expiry is bounded by the evidence and what is executed was true of the target within its freshness, unless more faults are active than the cut allows |
| `PostgresTyped`, `OnePrimary`, `SuccessIsPromotion`, `PromotedNodesWereFit` | PostgresLoopProofs | all safety invariants of the failover run: one primary, one promotion per success, and a promoted node was a standby in sync within the bounds of its rules, for any agents, candidates and faults |
| `KubernetesTyped`, `VersionsSerialise`, `ReceiptsOfTheMomentAreTrue`, `DrainsAreAtomic`, `TokensArePaid` | KubernetesLoopProofs | all properties of the Kubernetes run: no two agents carry out updates of one object on one version, a receipt of the present version is true, a dispatched drain is not left half done, every change uses up a token of its own (if the webhook is on) |
| `PastStands`, `RulesAreGoverned`, `TrustHasAHistory`, `HistoryStands`, `LabelsHold` | ContinuityLoopProofs | all safety properties of the continuity run, for any rounds, rivals and number of faults: no committed state rewrites an earlier one, the core rules stand and others change by two custodians, trust is earned before it is given and by evidence, a committed transition judged again is never INVALID, and every case of the generator proposed alone gets the verdict of its label |

Arguments:

- *OneShot.* `SingleWinner` is not inductive: a second `Win` has to be excluded by
  who owns the nonce. `OneShotInv` adds that a call answered true in the present
  era owns its nonce and that no call has won in a later era.
- *In-memory store.* `StoreInv` says that a nonce is CONSUMED exactly when it is
  owned and that an owner has been answered true. It says nothing about locks: the
  refinement rests on the critical section being one microtask, so it also
  holds after a reset has put two holders into one lock. Mutual exclusion is a
  different matter: `LockNamesHolder` ties each holder to the map entry that bears
  its name, and only until the first reset.
- *On-disk store.* `FileInv`: a nonce has an owner exactly while its file exists, a
  call in flight owns its file (a power failure that takes the file kills the
  call), a call at the last close has a durable file, a winner keeps its durable
  file. Each file operation maps to a claim, a win, a refusal, a throw or
  a stutter, and a power failure to `Forget`.
- *Gateway.* `GatewayInv` says what is known at each await: after the call, that
  the presentation was valid at the sampled time and that the call met the
  admission rule if the sample passes the remaining checks; at `consume`, that
  the dispatch was sound and was once seen authorized and unrevoked; that the owner of a nonce got to the store and
  every dispatch past it has won. `AtMostOneExecution` then follows from
  the single winner of OneShot: `GatewayStepIsStoreStep` maps each gateway step
  to a step of the store.
- *Envelopes.* A step of EnvelopeGateway is a step of Gateway or leaves its variables
  alone; no property of Gateway is proved twice. `EnvelopesNeverWiden` needs that
  every template in the registry was attested for its content, that every certificate
  issued under an envelope is one the minting makes of an admission and a registered
  template, and that a dispatch past the validation presented one of these.
- *Work loop.* Nothing but the eligible receipts reaches a verdict
  (`EvaluationForm`), and only authentic ones are eligible: `ForgeriesAreInert`
  holds in every state, reachable or not. The rest asks what a PERMIT rests on
  (`SatisfiedOutcome`): the canonical witness is one of the positive witnesses of
  the highest priority, and no negative witness ranks as high. That takes the
  existence of extremes of finite sets (`FiniteHasGreatest`, `MinOfBounded`), for
  `CHOOSE` and `Min` say nothing otherwise. A contradicting reading is a negative
  witness by itself (`PermitUncontested`). With unique ids `receiptsMap` returns the
  receipt itself (`ReceiptOfIdIsIt`), fresh receipts bound the expiries from
  below, so the least expiry exists and is the bound (`PermitExpiresInTime`).
  `WorkInv` is needed to know that ids stay unique: a fetch makes an id of the turn
  and the place of the obligation, so a new id differs from all of earlier turns
  and of the places already closed in this one (`Issued`); and that the pool stays
  finite. `PolicyAssumption` and `EvidenceAssumption` ask for what the schemas
  guarantee (rules in a sequence, freshness a number, finite fault bases) and for
  unique ids of the evidence an agent brings.
  `ExecutedIsTrue` joins the whole stack. `Attested` says of each receipt in the
  pool that what it attests to has held since it was observed, unless one of the
  rule's sensors of that source lies; `ReportsAttest` is the fetch, `HistoryGrows`
  that nothing the target does takes it back. A discharged rule has a cut of at
  least `minCut`; with fewer faults active some verifier of every decisive
  coalition is untouched (`CutLeavesOneHonest`), so some receipt of the witness
  speaks the truth (`WitnessSpeaks`). The expiry is bounded by that receipt's age
  (`PermitCovers`), and the gateway turns down an expired certificate. A deferral
  asks for rules only, never for the human approval (`VerdictRules`).
  `TruthAssumption` is what the declarations promise and the code cannot see: who
  can attest to a rule is one of its sensors, a valid profile names every fault
  they are exposed to, and what an agent brings along was true when it came.
- *PostgreSQL.* `PostgresInv` ties roles and recovery flags to `primary`; a
  promotion changes all three (`PromotionKeepsRoles`), an injected fault none.
  `SuccessIsPromotion` counts: an agent dispatches once, so its outcome
  enters the set of successes with the step that moves the epoch.
  `PromotedNodesWereFit` is an invariant about the past. `FitInv` says of each
  agent that what its receipts and its certificate vouch for has held at some
  time: the observer reports a standby in sync only of a cluster in which it is
  one, or one to which a fault lends an old truth whose age `truthAge` keeps.
  Every move of the cluster only adds to what has held (`HistoryAdds`), so
  `FitInv` survives whatever the others do. A certificate rests on receipts
  fresh by their rule and dies with them, so a promotion comes no later than the
  bound of the rule after the moment its receipt vouches for.
- *Kubernetes.* Most of it is what `execute` makes of a cluster, in closed form
  (`ExecuteForm`). The evictions of a drain are a fold over the pods of the node;
  `EvictsExactly` names what it returns after each pod and shows by the least
  counterexample that it can return nothing else. From the closed form, each step of
  the loop makes `Progress`: versions only grow, and while the counter stays
  nothing is cordoned or evicted. `KubernetesInv` then says that a receipt whose
  version is still the counter tells the truth, and that an object is past the
  version on which an agent has changed it; the second makes
  `VersionedUpdatesSerialise` inductive, since an update expects the version of
  the moment. Nothing here looks into controller or gateway, so it holds whatever
  they allow. `TokensArePaid` assumes the webhook is on (`Mediated`): without it
  a raw caller changes nodes and pays nothing, as the code intends.
  `KubernetesLoopAssumption` asks that no object of the initial cluster is ahead of
  the version counter. `addNode` sees to it; `addDeployment` and `addNetworkPolicy`
  leave it to their caller, and every set-up in the repository satisfies it. Without
  it a deployment ahead of the counter could later bear a version it bore before.
- *Continuity.* A commit needs the verdict VALID, which excludes every failed
  condition (`ValidMeansPassed`, `CommitPassed`), and the lineage check says that the
  offer was made for the committed state (`CommittedOnItsBase`). What a manifest of any
  length can change is a fold: `ApplyIsRound` writes it as a function on the positions
  folded so far, `RoundExists` shows by induction over a set of numbers that there is
  one, and `ApplyGrows`, `RoundsStay` carry along it what each mutation keeps.
  The invariant `LifeInv` is modest - log and pending offers are sequences, the state
  has its fields, an offer is one the generator makes - because the weight is in what
  one commit does:
  - `CommitKeepsEvents` and `CommitCarriesBeliefs` for one step; `EventsKeptOn` and
    `BeliefsKeptOn` show that the relation is transitive, which for a buried
    event needs that its tombstone keeps the commitment; so `PastStands`.
  - `AuthorityMeansTwo`: a change of the rules has a threshold of two, signers that
    pass are distinct (`InjectiveCount`), so two custodians have signed.
  - `CommitRelates`: who is raised has the count already, and each session counted is
    in a record whose evidence was resolved; the witness stays in a growing log.
  - `HistoryStands` is the longest. `HistInv` adds to `LifeInv` that every committed
    offer is `Sound` (its evidence stored as it is, its head finished and exclusive,
    the governor among its signers), that it was found VALID in *some* trust `X`
    (`Judged`), and that every claim in a committed state has evidence of
    a committed offer no younger than the claim (`BackedIn`). `Later(X, Y, o, full)` says
    what a trust may have become: the same keys, revoked only for epochs after the
    offer's, the same or no evidence; `full` that nothing is missing. Check by check,
    what passed in `X` *stands* in `Y`: not FAIL, and not UNKNOWN if full
    (`ProvenanceStands`, `AuthorityStands`, `HistoricalStands`, `TemporalStands`,
    `BeliefsStand`, `RelationsStand`, `AttestationStands`, `LineageStands`), hence
    `VerdictStands`. The claims are the point where one transition depends on others: the
    temporal check reads the evidence of everything ever learnt, so `CommitTold` and
    `CommitIsBacked` follow what each mutation of each case can put into a state.
  - `LabelsHold` is about exact verdicts, for each of some sixty cases, so an invariant
    of what must not happen is not enough: the values themselves are needed. `Regular`
    says of which kind the states are that the lawful cases lead to (one hypothesis,
    two entities, the rules of the genesis, an event list without tombstones, a clock
    that runs with the epochs). The `...Outcome` lemmas compute what the manifest of a
    case makes of *any* such state; `Trusting` and `Alone` say what the verifier
    trusts when no key is touched, nothing lost, no rival made. From the two follows
    each check's status, case by case (`LineageComesTo`, `GovernorsDecide`,
    `ProvenanceIs`, `ApplicationIs`, `AttestationIs`, `HistoryPasses`, `TimePasses`,
    `RevisionPasses`, `RelationPasses`, and the `...Fails` of the attacks), joined in
    `FaultFails`, `GapsAre` and `LabelOfAlone`. The inductive invariant `LabelInv`
    adds to `HistInv` that what is pending was taken by the engine and that without
    faults, after cases of the generator only, the state is `Regular` and the
    committed epochs lie before it (`Orderly`); it needs the other half of the labels
    itself, for only what is lawful may be committed on the way (`OnlyLawful`), rivals
    or not. The old claims of a state are judged again with every new case:
    `ClaimsNow` finds their evidence by epoch.
  The verifier compares a filtered sequence of identifiers and a slice of
  annotations; the model says `InOrder` and `Continues`, which can be reasoned about.
  `OrderAssumption` in MCContinuity checks on all short sequences that the two forms
  agree, for identifiers that are distinct, as the line before has made sure.
- *Panel.* `PanelInv` holds kappa to its definition. A set of faults compromises
  the panel exactly when it hits every verifier of some decisive coalition
  (`CompromiseIsCoalitionHit`), so the smallest of the smallest hitting sets per
  coalition are the smallest compromises (`CutsAreSmallestCompromises`). Existence
  of a smallest set is from the well-foundedness of cardinalities.

Only model-checked:

- the liveness properties `EveryConsumeReturns` and `EveryDispatchEnds`; the prover does
  no liveness under fairness;
- `HarmHasItsCause`: it says of each of two hundred and fifty trials how it ends, on
  the policies and evidence of that trial. The trials have no parameter left and TLC
  runs them all, so a proof would evaluate by hand what the run evaluates.

## 7. Findings

- `gateway_guard_window`: `artifact/REPRODUCING.md` says the guards are evaluated
  atomically at dispatch. `admissionValid` evaluates them on the state its caller
  sampled before the call; two awaits later the target is called without a
  second look. The run shows the drift in between.
- `receipt_ids`: `manifest.ts` defines the expiry of a certificate as the least
  over each obligation's own witness. `evaluate` keeps the receipts in one map
  keyed by id, so receipts of two obligations that share an id are confused, and
  the certificate may outlive its oldest evidence. Nothing makes ids unique
  across sources; `discharge` looks for ambiguity within one obligation only.
- `postgres_failback`: `checkStaticCompliance` refuses a candidate equal to
  `activeNodes[0]` and says it is the active primary. The list is in the order the
  nodes were added, which a promotion does not change: after a failover the old
  primary, now a standby, is refused for ever, so a cluster fails over once.

## 8. What is not modelled, and what is abstracted

- Cryptography, canonical JSON and digests: an integrity proof verifies or not;
  equal digests mean equal proposals or profiles; the digest that breaks ties
  between witnesses is a fixed choice (`CHOOSE`).
- Of an envelope certificate, the list of claims that restates its manifest; the
  attestation's signature is one of a few names.
- The reasons of an UNKNOWN and the wording of a remediation contract; audit log
  and metrics.
- The benchmark's scenarios F1 to F11, E1 and their variants, more data of the shape
  of those modelled; its studies over seeds, statistics, analysis and reports.
- The in-memory store loses everything with its process, so a crash is a
  property of the on-disk store. Gateway takes the store that forgets no winner.
- Targets: identifiers, error texts and timestamps; the fields of pods and budgets
  nothing reads; the content of a network policy beyond its text.
- CCT: traces, reasons, latencies and the harness around the verifier; schema and
  protocol versions, of which there is one; `self_model`, which no operation
  changes; the baselines, metrics, performance runs and statistics of the bench.
  The archive, the evidence store and the key registry are given to the verifier
  from outside; their losses and revocations are actions of ContinuityLoop.
  Attestations by evaluators appear in the upgrade case, the only one whose policy
  requires them. `HistoricVerdictsStand` exempts a transition whose signer's key was
  revoked at its epoch (`KeysStillGood`) or whose epoch another head shares
  (`NoRivalHead`): for neither do code or documentation promise a verdict. It also asks
  that no name of evidence was given to two pieces of evidence (`EvidenceIsKept`): the
  model names evidence by case and epoch, and after a `SET_CLOCK` that keeps the epoch
  a second offer of a case overwrites what the first one stored.
- Schemas and core, statistics, figures and stored results are data or pure output.

## 9. What could follow

Built in this order: OneShot and the two stores; AdmissionValidation,
MemoryAuthorizer, Gateway; EpistemicCut, Evidence, Controller, WorkLoop;
EpistemicPanel; KubernetesCluster and its loop; PostgresCluster and its loop;
CognitiveEngine, ContinuityVerifier, ContinuityFixtures, ContinuityLoop; Envelope,
EnvelopeGateway; BenchmarkScenarios, Benchmark.

Open, in the order of what it would add:

1. **Several presentations per agent** at the two targets, composed with the awaits
   of module Gateway instead of its predicates.
2. **Attestations and quorums of evaluators** on every case of the continuity loop.
3. **The scenarios F1 to F11** of the benchmark, as further records.

## 10. How to run

In this directory, `tlc -config X.cfg M` checks a run (module and configuration
as in `PROJECT.json`), and `tlapm M.tla` the proofs of a module. The largest
run takes about two minutes with two workers; the proofs take a few minutes.
