------------------------- MODULE KubernetesLoopProofs -------------------------
(***************************************************************************)
(* What the webhook, the resource versions and the order of a drain give   *)
(* the agents that change one cluster: for any number of agents, nodes,    *)
(* pods and proposals, any policies, and whatever the controller decides.  *)
(* None of these proofs looks into the controller or the gateway: what     *)
(* they allow, the adapter and the cluster still have to get right.        *)
(*                                                                         *)
(* First what execute makes of a cluster, in closed form (ExecuteForm),    *)
(* the loop of a drain included; then what every step keeps (Progress),    *)
(* which carries the invariant; then what one step may do.                 *)
(***************************************************************************)
EXTENDS KubernetesLoop, FiniteSetTheorems, WellFoundedInduction, TLAPS

------------------------------------------------------------------------------
(* Finite sets and sequences.                                              *)

(* The greatest of some positions of a sequence is one of them.            *)
LEMMA GreatestPosition ==
  ASSUME NEW n \in Nat, NEW s \in SUBSET (1..n), s # {}
  PROVE  Max(s) \in s
<1> DEFINE D == {n - x : x \in s}
<1>1. D \subseteq Nat /\ D # {}
  OBVIOUS
<1>2. IsWellFoundedOn({pair \in Nat \X Nat : pair[1] < pair[2]}, Nat)
  BY NatLessThanWellFounded DEF OpToRel
<1>3. PICK m \in D : \A k \in D : <<k, m>> \notin {pair \in Nat \X Nat : pair[1] < pair[2]}
  <2> HIDE DEF D
  <2>1. QED
    BY <1>1, <1>2, WFMin, Zenon
<1>4. PICK x \in s : m = n - x
  BY <1>3
<1>5. \A y \in s : x >= y
  <2>1. TAKE y \in s
  <2>2. n - y \in D /\ n - y \in Nat /\ m \in Nat
    BY <1>1, <1>3
  <2>3. ~(n - y < m)
    BY <1>3, <2>2
  <2>4. QED
    BY <1>4, <2>3
<1>6. \E z \in s : \A y \in s : z >= y
  BY <1>5
<1>7. QED
  BY <1>6 DEF Max

(* SetToSeq lists a finite set, each member once.                          *)
LEMMA Listed ==
  ASSUME NEW S, IsFiniteSet(S)
  PROVE  /\ Cardinality(S) \in Nat
         /\ SetToSeq(S) \in [1..Cardinality(S) -> S]
         /\ IsInjective(SetToSeq(S))
         /\ {SetToSeq(S)[i] : i \in 1..Cardinality(S)} = S
<1> DEFINE n == Cardinality(S)
<1>1. n \in Nat /\ ExistsBijection(1..n, S)
  BY FS_CardinalityType, Zenon
<1>2. \E f \in [1..n -> S] : IsInjective(f)
  BY <1>1 DEF ExistsBijection, Bijection, Injection
<1>3. SetToSeq(S) \in [1..n -> S] /\ IsInjective(SetToSeq(S))
  BY <1>2 DEF SetToSeq
<1>4. Cardinality(1..n) = n
  BY <1>1, FS_Interval
<1>5. SetToSeq(S) \in Injection(1..n, S)
  BY <1>3 DEF Injection
<1>6. SetToSeq(S) \in Surjection(1..n, S)
  BY <1>4, <1>5, FS_Injection, Zenon
<1>7. QED
  BY <1>1, <1>3, <1>6 DEF Surjection

------------------------------------------------------------------------------
(* The operations of the cluster, field by field.                          *)

Assembled(nodes, pods, deployments, policies, pdbs, counter, tokens, issued) ==
  [ nodes |-> nodes, pods |-> pods, deployments |-> deployments, policies |-> policies,
    pdbs |-> pdbs, counter |-> counter, tokens |-> tokens, issued |-> issued ]

(* A new token is registered and nothing else changes.                     *)
LEMMA RegisterAssembled ==
  ASSUME NEW n, NEW p, NEW d, NEW l, NEW b, NEW v, NEW t, NEW i
  PROVE  Register(Assembled(n, p, d, l, b, v, t, i))
           = Assembled(n, p, d, l, b, v, t \cup {i + 1}, i + 1)
<1> DEFINE c == Assembled(n, p, d, l, b, v, t, i)
<1>1. c.issued = i /\ c.tokens = t
  BY SMT DEF Assembled
<1>2. [c EXCEPT !.issued = i + 1] = Assembled(n, p, d, l, b, v, t, i + 1)
  BY SMT DEF Assembled
<1> HIDE DEF c
<1>3. Register(c) = [[c EXCEPT !.issued = i + 1] EXCEPT !.tokens = t \cup {i + 1}]
  BY <1>1 DEF Register
<1>4. [Assembled(n, p, d, l, b, v, t, i + 1) EXCEPT !.tokens = t \cup {i + 1}]
        = Assembled(n, p, d, l, b, v, t \cup {i + 1}, i + 1)
  BY SMT DEF Assembled
<1>5. QED
  BY <1>2, <1>3, <1>4, Zenon DEF c

(* Whether the webhook lets a mutation pass, and the tokens it then leaves.*)
Passes(token, t) == Mediated => token \in t
Left(token, t) == IF Mediated THEN t \ {token} ELSE t

(* A review takes the token it is shown, if it takes any.                  *)
LEMMA ReviewAssembled ==
  ASSUME NEW n, NEW p, NEW d, NEW l, NEW b, NEW v, NEW t, NEW i, NEW token, Passes(token, t)
  PROVE  ReviewAdmission(Assembled(n, p, d, l, b, v, t, i), token)
           = Done(Assembled(n, p, d, l, b, v, Left(token, t), i))
<1> DEFINE c == Assembled(n, p, d, l, b, v, t, i)
           left == Left(token, t)
<1>1. c.tokens = t
  BY SMT DEF Assembled
<1> HIDE DEF left
<1>2. [c EXCEPT !.tokens = left] = Assembled(n, p, d, l, b, v, left, i)
  BY SMT DEF Assembled
<1> HIDE DEF c
<1>3. CASE Mediated
  <2>1. ReviewAdmission(c, token) = Done([c EXCEPT !.tokens = left])
    BY <1>1, <1>3, Zenon DEF ReviewAdmission, Passes, Left, left
  <2>2. QED
    BY <1>2, <2>1, Zenon DEF c, left
<1>4. CASE ~Mediated
  <2>1. ReviewAdmission(c, token) = Done(c) /\ left = t
    BY <1>1, <1>4, Zenon DEF ReviewAdmission, Left, left
  <2>2. QED
    BY <2>1, Zenon DEF c, left
<1>5. QED
  BY <1>3, <1>4, Zenon

Without(p, name) == [x \in DOMAIN p \ {name} |-> p[x]]

(* An eviction that passes takes one pod and one token.                    *)
LEMMA EvictAssembled ==
  ASSUME NEW n, NEW p, NEW d, NEW l, NEW b, NEW v, NEW t, NEW i, NEW token,
         NEW name \in DOMAIN p, Passes(token, t)
  PROVE  EvictPod(Assembled(n, p, d, l, b, v, t, i), name, token)
           = Assembled(n, Without(p, name), d, l, b, v, Left(token, t), i)
<1> DEFINE c == Assembled(n, p, d, l, b, v, t, i)
           e == Assembled(n, p, d, l, b, v, Left(token, t), i)
           rest == Without(p, name)
<1>1. ReviewAdmission(c, token) = Done(e)
  BY ReviewAssembled, SMT
<1>2. c.pods = p
  BY SMT DEF Assembled
<1> HIDE DEF rest
<1>3. [e EXCEPT !.pods = rest] = Assembled(n, rest, d, l, b, v, Left(token, t), i)
  BY SMT DEF Assembled
<1> HIDE DEF c, e
<1>4. Done(e).ok /\ Done(e).cluster = e
  BY DEF Done
<1>5. EvictPod(c, name, token) = [e EXCEPT !.pods = rest]
  BY <1>1, <1>2, <1>4, Zenon DEF EvictPod, rest, Without
<1>6. QED
  BY <1>3, <1>5, Zenon DEF c, e, rest

(* A cluster has these fields and no others.                               *)
LEMMA WellFormedIsAssembled ==
  ASSUME NEW c, WellFormed(c)
  PROVE  c = Assembled(c.nodes, c.pods, c.deployments, c.policies, c.pdbs, c.counter,
                       c.tokens, c.issued)
BY Zenon DEF WellFormed, Assembled

Node(v) == [schedulable : BOOLEAN, ready : BOOLEAN, version : 1..v]

(* A cluster whose fields are well formed is.                              *)
LEMMA AssembledIsWellFormed ==
  ASSUME NEW n, NEW p, NEW d, NEW l, NEW b, NEW v \in Nat \ {0}, NEW t, NEW i \in Nat,
         n \in [DOMAIN n -> Node(v)],
         p = [x \in DOMAIN p |-> p[x]], IsFiniteSet(DOMAIN p),
         Versioned(d, v), Versioned(l, v), t \subseteq 1..i
  PROVE  WellFormed(Assembled(n, p, d, l, b, v, t, i))
<1> DEFINE c == Assembled(n, p, d, l, b, v, t, i)
<1>1. /\ c.nodes = n /\ c.pods = p /\ c.deployments = d /\ c.policies = l /\ c.pdbs = b
      /\ c.counter = v /\ c.tokens = t /\ c.issued = i
  BY SMT DEF Assembled
<1>2. c = [ nodes |-> c.nodes, pods |-> c.pods, deployments |-> c.deployments,
            policies |-> c.policies, pdbs |-> c.pdbs, counter |-> c.counter,
            tokens |-> c.tokens, issued |-> c.issued ]
  BY <1>1, SMT DEF Assembled
<1> HIDE DEF c
<1>3. QED
  BY <1>1, <1>2, Zenon DEF WellFormed, Node, c

(* A longer count allows later versions.                                   *)
LEMMA VersionedLater ==
  ASSUME NEW objects, NEW v \in Nat, NEW w \in Nat, v <= w, Versioned(objects, v)
  PROVE  Versioned(objects, w)
BY DEF Versioned

(* The tokens after n more have been issued and spent.                     *)
TokensAfter(c, n) ==
  IF Mediated THEN c.tokens ELSE c.tokens \cup (c.issued + 1 .. c.issued + n)

(* The cluster after n evictions that have removed the pods gone: each was *)
(* given a token of its own, and the webhook took it back.                 *)
AfterEvicting(c, gone, n) ==
  Assembled(c.nodes, [p \in DOMAIN c.pods \ gone |-> c.pods[p]], c.deployments, c.policies,
            c.pdbs, c.counter, TokensAfter(c, n), c.issued + n)

EvictWithToken(c, name) ==
  LET registered == Register(c) IN EvictPod(registered, name, registered.issued)

(* One more turn of the loop of a drain: its pod gone, its token spent.    *)
LEMMA EvictOne ==
  ASSUME NEW c, WellFormed(c), NEW gone \in SUBSET (DOMAIN c.pods), NEW n \in Nat,
         NEW name \in DOMAIN c.pods \ gone
  PROVE  EvictWithToken(AfterEvicting(c, gone, n), name)
           = AfterEvicting(c, gone \cup {name}, n + 1)
<1> DEFINE pods == [p \in DOMAIN c.pods \ gone |-> c.pods[p]]
           tokens == TokensAfter(c, n)
           token == c.issued + n + 1
           registered == Assembled(c.nodes, pods, c.deployments, c.policies, c.pdbs, c.counter,
                                   tokens \cup {token}, token)
<1>1. c.issued \in Nat /\ c.tokens \subseteq 1..c.issued
  BY DEF WellFormed
<1>2. name \in DOMAIN pods
  OBVIOUS
<1>3. Without(pods, name) = [p \in DOMAIN c.pods \ (gone \cup {name}) |-> c.pods[p]]
  BY DEF Without
<1>4. Left(token, tokens \cup {token}) = TokensAfter(c, n + 1)
  <2>1. token \notin c.tokens
    BY <1>1
  <2>2. (c.issued + 1 .. c.issued + n) \cup {token} = c.issued + 1 .. c.issued + (n + 1)
    BY <1>1
  <2>3. QED
    BY <2>1, <2>2 DEF Left, TokensAfter
<1>5. c.issued + (n + 1) = token
  BY <1>1
<1> HIDE DEF pods, tokens, token
<1>6. Register(AfterEvicting(c, gone, n)) = registered
  <2>1. AfterEvicting(c, gone, n)
          = Assembled(c.nodes, pods, c.deployments, c.policies, c.pdbs, c.counter, tokens,
                      c.issued + n)
    BY Zenon DEF AfterEvicting, pods, tokens
  <2>2. QED
    BY <2>1, RegisterAssembled, SMT DEF token
<1>7. registered.issued = token
  BY DEF Assembled
<1>8. EvictPod(registered, name, token)
        = Assembled(c.nodes, Without(pods, name), c.deployments, c.policies, c.pdbs, c.counter,
                    Left(token, tokens \cup {token}), token)
  <2>1. Passes(token, tokens \cup {token})
    BY DEF Passes
  <2>2. QED
    BY <1>2, <2>1, EvictAssembled, SMT
<1> HIDE DEF registered
<1>9. EvictWithToken(AfterEvicting(c, gone, n), name) = EvictPod(registered, name, token)
  BY <1>6, <1>7, Zenon DEF EvictWithToken
<1>10. QED
  BY <1>3, <1>4, <1>5, <1>8, <1>9, Zenon DEF AfterEvicting

(* The loop of a drain evicts the pods it is given and no others.          *)
LEMMA EvictsExactly ==
  ASSUME NEW c, WellFormed(c), NEW names \in SUBSET (DOMAIN c.pods)
  PROVE  EvictAll(c, names) = AfterEvicting(c, names, Cardinality(names))
<1> DEFINE n == Cardinality(names)
           seq == SetToSeq(names)
           After(s) == AfterEvicting(c, {seq[i] : i \in s}, Cardinality(s))
           Loop(f) ==
             [s \in SUBSET (1..n) |->
                IF s = {} THEN c ELSE EvictWithToken(f[s \ {Max(s)}], seq[Max(s)])]
<1>1. IsFiniteSet(names)
  BY FS_Subset DEF WellFormed
<1>2. /\ n \in Nat /\ seq \in [1..n -> names] /\ IsInjective(seq)
      /\ {seq[i] : i \in 1..n} = names
  BY <1>1, Listed, Zenon
<1>3. \A s \in SUBSET (1..n) : IsFiniteSet(s) /\ Cardinality(s) \in Nat
  <2>1. IsFiniteSet(1..n)
    BY <1>2, FS_Interval
  <2>2. QED
    BY <2>1, FS_Subset, FS_CardinalityType
<1>4. Cardinality(1..n) = n
  BY <1>2, FS_Interval
<1>5. After({}) = c
  <2>1. Cardinality({}) = 0 /\ {seq[i] : i \in {}} = {}
    BY FS_EmptySet
  <2>2. c.tokens \cup (c.issued + 1 .. c.issued + 0) = c.tokens
    BY DEF WellFormed
  <2>3. [p \in DOMAIN c.pods \ {} |-> c.pods[p]] = c.pods
    BY DEF WellFormed
  <2>4. c.issued + 0 = c.issued
    BY DEF WellFormed
  <2>5. After({}) = AfterEvicting(c, {}, 0)
    BY <2>1, Zenon
  <2>6. TokensAfter(c, 0) = c.tokens
    BY <2>2 DEF TokensAfter
  <2>7. AfterEvicting(c, {}, 0) = c
    BY <2>3, <2>4, <2>6, WellFormedIsAssembled, SMT DEF AfterEvicting
  <2>8. QED
    BY <2>5, <2>7, Zenon
<1> HIDE DEF n, seq
<1>6. ASSUME NEW s \in SUBSET (1..n), s # {}
      PROVE  After(s) = EvictWithToken(After(s \ {Max(s)}), seq[Max(s)])
  <2> DEFINE m == Max(s)
             gone == {seq[i] : i \in s \ {m}}
  <2>1. m \in s
    BY <1>2, <1>6, GreatestPosition
  <2> HIDE DEF m
  <2>2. Cardinality(s) = Cardinality(s \ {m}) + 1 /\ Cardinality(s \ {m}) \in Nat
    <3>1. Cardinality(s \ {m}) = Cardinality(s) - 1
      BY <1>3, <2>1, FS_RemoveElement
    <3>2. QED
      BY <1>3, <3>1
  <2>3. gone \in SUBSET (DOMAIN c.pods) /\ seq[m] \in DOMAIN c.pods \ gone
    BY <1>2, <2>1 DEF IsInjective
  <2>4. {seq[i] : i \in s} = gone \cup {seq[m]}
    BY <2>1
  <2> HIDE DEF gone
  <2>5. EvictWithToken(AfterEvicting(c, gone, Cardinality(s \ {m})), seq[m])
          = AfterEvicting(c, gone \cup {seq[m]}, Cardinality(s \ {m}) + 1)
    BY <2>2, <2>3, EvictOne
  <2>6. QED
    BY <2>2, <2>4, <2>5 DEF gone, m
<1> HIDE DEF After
<1>7. \A f : f = Loop(f) => \A s \in SUBSET (1..n) : f[s] = After(s)
  <2>1. SUFFICES ASSUME NEW f, f = Loop(f) PROVE \A s \in SUBSET (1..n) : f[s] = After(s)
    OBVIOUS
  <2> DEFINE off == {s \in SUBSET (1..n) : f[s] # After(s)}
  <2>2. SUFFICES ASSUME off # {} PROVE FALSE
    OBVIOUS
  <2>3. IsWellFoundedOn(StrictSubsetOrdering(1..n), FiniteSubsetsOf(1..n))
    BY <1>2, FS_Interval, FS_StrictSubsetOrderingWellFounded
  <2>4. off \subseteq FiniteSubsetsOf(1..n)
    BY <1>3 DEF FiniteSubsetsOf
  <2>5. PICK s \in off : \A t \in off : <<t, s>> \notin StrictSubsetOrdering(1..n)
    <3> HIDE DEF off
    <3>1. QED
      BY <2>2, <2>3, <2>4, WFMin, Zenon
  <2>6. s \in SUBSET (1..n) /\ f[s] = Loop(f)[s]
    BY <2>1, <2>5
  <2>7. CASE s = {}
    BY <1>5, <2>5, <2>6, <2>7
  <2>8. CASE s # {}
    <3>1. Max(s) \in s
      BY <1>2, <2>6, <2>8, GreatestPosition
    <3>2. s \ {Max(s)} \in SUBSET (1..n)
          /\ <<s \ {Max(s)}, s>> \in StrictSubsetOrdering(1..n)
      BY <2>6, <3>1 DEF StrictSubsetOrdering
    <3>2b. s \ {Max(s)} \notin off
      BY <2>5, <3>2
    <3>3. f[s \ {Max(s)}] = After(s \ {Max(s)})
      BY <3>2, <3>2b
    <3>4. QED
      BY <1>6, <2>5, <2>6, <2>8, <3>3
  <2>9. QED
    BY <2>7, <2>8
<1>8. \E f : f = Loop(f)
  <2> DEFINE g == [s \in SUBSET (1..n) |-> After(s)]
  <2>1. \A s \in SUBSET (1..n) : g[s] = Loop(g)[s]
    BY <1>5, <1>6
  <2>2. g = Loop(g)
    BY <2>1
  <2>3. QED
    BY <2>2
<1>9. EvictAll(c, names) = (CHOOSE f : f = Loop(f))[1..n]
  <2>1. DOMAIN seq = 1..n
    BY <1>2
  <2>2. EvictAll(c, names) =
          (CHOOSE f : f = [s \in SUBSET (DOMAIN seq) |->
             IF s = {} THEN c ELSE EvictWithToken(f[s \ {Max(s)}], seq[Max(s)])])[DOMAIN seq]
    BY DEF EvictAll, FoldLeft, MapThenFoldSet, EvictWithToken, seq
  <2>3. QED
    BY <2>1, <2>2
<1>10. EvictAll(c, names) = After(1..n)
  <2>1. (CHOOSE f : f = Loop(f)) = Loop(CHOOSE f : f = Loop(f))
    BY <1>8
  <2>2. QED
    BY <1>7, <1>9, <2>1
<1>11. QED
  BY <1>2, <1>4, <1>10 DEF After, n, seq

------------------------------------------------------------------------------
(* What execute makes of a cluster.                                        *)

(* It does nothing but issue a token, and perhaps spend it again.          *)
Refused(c, d) ==
  \E tokens \in {c.tokens, c.tokens \cup {c.issued + 1}} :
    d = Assembled(c.nodes, c.pods, c.deployments, c.policies, c.pdbs, c.counter,
                  tokens, c.issued + 1)

WithVersion(object, version) == [object EXCEPT !.version = version]

CordonedNode(c, name) ==
  WithVersion([c.nodes[name] EXCEPT !.schedulable = FALSE], c.counter + 1)

Cordoned(c, name) ==
  Assembled([c.nodes EXCEPT ![name] = CordonedNode(c, name)], c.pods, c.deployments,
            c.policies, c.pdbs, c.counter + 1, TokensAfter(c, 1), c.issued + 1)

Drained(c, d, params) ==
  LET name == params.nodeName IN
    /\ "nodeName" \in DOMAIN params
    /\ name \in DOMAIN c.nodes
    /\ ExpectedVersion(params) \subseteq {c.nodes[name].version}
    /\ BudgetsAllow(c, name)
    /\ d = AfterEvicting(Cordoned(c, name), PodsOn(c, name), Cardinality(PodsOn(c, name)))

Rolled(c, d, params) ==
  LET name == params.deploymentName IN
    /\ "deploymentName" \in DOMAIN params
    /\ name \in DOMAIN c.deployments
    /\ ExpectedVersion(params) \subseteq {c.deployments[name].version}
    /\ \E image, generation :
         d = Assembled(c.nodes, c.pods,
               [c.deployments EXCEPT ![name] =
                  WithVersion([c.deployments[name] EXCEPT !.image = image,
                                                          !.generation = generation],
                              c.counter + 1)],
               c.policies, c.pdbs, c.counter + 1, TokensAfter(c, 1), c.issued + 1)

(* At most one network policy is new or has changed.                       *)
AppliedAs(c, d, policies, counter, name) ==
  /\ d = Assembled(c.nodes, c.pods, c.deployments, policies, c.pdbs, counter,
                   TokensAfter(c, 1), c.issued + 1)
  /\ counter \in {c.counter, c.counter + 1}
  /\ Versioned(policies, counter)
  /\ DOMAIN c.policies \subseteq DOMAIN policies
  /\ \A p \in DOMAIN policies : p # name => p \in DOMAIN c.policies /\ policies[p] = c.policies[p]

Applied(c, d) == \E policies, counter, name : AppliedAs(c, d, policies, counter, name)

(* A registered token is good for one update of each kind of object.       *)
LEMMA FreshToken ==
  ASSUME NEW c, WellFormed(c)
  PROVE  /\ Register(c) = Assembled(c.nodes, c.pods, c.deployments, c.policies, c.pdbs,
                            c.counter, c.tokens \cup {c.issued + 1}, c.issued + 1)
         /\ Passes(c.issued + 1, c.tokens \cup {c.issued + 1})
         /\ Left(c.issued + 1, c.tokens \cup {c.issued + 1}) = TokensAfter(c, 1)
         /\ TokensAfter(c, 1) \in {c.tokens, c.tokens \cup {c.issued + 1}}
<1>1. c = Assembled(c.nodes, c.pods, c.deployments, c.policies, c.pdbs, c.counter,
                    c.tokens, c.issued)
  BY WellFormedIsAssembled, Zenon
<1>2. Register(c) = Assembled(c.nodes, c.pods, c.deployments, c.policies, c.pdbs,
                              c.counter, c.tokens \cup {c.issued + 1}, c.issued + 1)
  BY <1>1, RegisterAssembled, SMT
<1>3. c.issued \in Nat /\ c.issued + 1 \notin c.tokens
  BY DEF WellFormed
<1>4. c.issued + 1 .. c.issued + 1 = {c.issued + 1}
  BY <1>3
<1>5. QED
  BY <1>2, <1>3, <1>4 DEF Passes, Left, TokensAfter

(* An update that passes, of whichever kind of object.                     *)
LEMMA UpdateOf ==
  ASSUME NEW n, NEW p, NEW d, NEW l, NEW b, NEW v, NEW t, NEW i, NEW token, Passes(token, t),
         NEW c, c = Assembled(n, p, d, l, b, v, t, i),
         NEW kind \in {"nodes", "deployments", "policies"}, NEW name \in DOMAIN c[kind],
         NEW object, NEW expected \in SUBSET {c[kind][name].version},
         NEW next, next = Assembled(n, p, d, l, b, v + 1, Left(token, t), i)
  PROVE  Update(c, kind, name, object, expected, token)
           = Done([next EXCEPT ![kind] =
                     [c[kind] EXCEPT ![name] = WithVersion(object, v + 1)]])
<1> DEFINE left == Left(token, t)
           reviewed == Assembled(n, p, d, l, b, v, left, i)
<1>1. ReviewAdmission(c, token) = Done(reviewed)
  BY ReviewAssembled, SMT
<1>2. Done(reviewed).ok /\ Done(reviewed).cluster = reviewed
  BY DEF Done
<1> HIDE DEF left
<1>3. NextResourceVersion(reviewed) = next
  BY SMT DEF Assembled, NextResourceVersion, left
<1>4. next[kind] = c[kind] /\ next.counter = v + 1
  BY SMT DEF Assembled
<1> HIDE DEF reviewed
<1>5. QED
  BY <1>1, <1>2, <1>3, <1>4 DEF Update, VersionMatches, WithVersion

LEMMA NodeUpdate ==
  ASSUME NEW n, NEW p, NEW d, NEW l, NEW b, NEW v, NEW t, NEW i, NEW token, Passes(token, t),
         NEW name \in DOMAIN n, NEW object, NEW expected \in SUBSET {n[name].version}
  PROVE  UpdateNode(Assembled(n, p, d, l, b, v, t, i), name, object, expected, token)
           = Done(Assembled([n EXCEPT ![name] = WithVersion(object, v + 1)], p, d, l, b, v + 1,
                       Left(token, t), i))
<1> DEFINE c == Assembled(n, p, d, l, b, v, t, i)
           next == Assembled(n, p, d, l, b, v + 1, Left(token, t), i)
           objects == [n EXCEPT ![name] = WithVersion(object, v + 1)]
<1>1. c.nodes = n
  BY SMT DEF Assembled
<1> HIDE DEF objects
<1>2. [next EXCEPT !.nodes = objects] = Assembled(objects, p, d, l, b, v + 1, Left(token, t), i)
  BY SMT DEF Assembled
<1>3. c = Assembled(n, p, d, l, b, v, t, i)
      /\ next = Assembled(n, p, d, l, b, v + 1, Left(token, t), i)
  OBVIOUS
<1> HIDE DEF c, next
<1>4. Update(c, "nodes", name, object, expected, token) = Done([next EXCEPT !.nodes = objects])
  BY <1>1, <1>3, UpdateOf DEF objects
<1>5. QED
  BY <1>2, <1>4, Zenon DEF UpdateNode, c, objects

LEMMA DeploymentUpdate ==
  ASSUME NEW n, NEW p, NEW d, NEW l, NEW b, NEW v, NEW t, NEW i, NEW token, Passes(token, t),
         NEW name \in DOMAIN d, NEW object, NEW expected \in SUBSET {d[name].version}
  PROVE  UpdateDeployment(Assembled(n, p, d, l, b, v, t, i), name, object, expected, token)
           = Done(Assembled(n, p, [d EXCEPT ![name] = WithVersion(object, v + 1)], l, b, v + 1,
                       Left(token, t), i))
<1> DEFINE c == Assembled(n, p, d, l, b, v, t, i)
           next == Assembled(n, p, d, l, b, v + 1, Left(token, t), i)
           objects == [d EXCEPT ![name] = WithVersion(object, v + 1)]
<1>1. c.deployments = d
  BY SMT DEF Assembled
<1> HIDE DEF objects
<1>2. [next EXCEPT !.deployments = objects]
        = Assembled(n, p, objects, l, b, v + 1, Left(token, t), i)
  BY SMT DEF Assembled
<1>3. c = Assembled(n, p, d, l, b, v, t, i)
      /\ next = Assembled(n, p, d, l, b, v + 1, Left(token, t), i)
  OBVIOUS
<1> HIDE DEF c, next
<1>4. Update(c, "deployments", name, object, expected, token)
        = Done([next EXCEPT !.deployments = objects])
  BY <1>1, <1>3, UpdateOf DEF objects
<1>5. QED
  BY <1>2, <1>4, Zenon DEF UpdateDeployment, c, objects

LEMMA PolicyUpdate ==
  ASSUME NEW n, NEW p, NEW d, NEW l, NEW b, NEW v, NEW t, NEW i, NEW token, Passes(token, t),
         NEW name \in DOMAIN l, NEW object, NEW expected \in SUBSET {l[name].version}
  PROVE  UpdateNetworkPolicy(Assembled(n, p, d, l, b, v, t, i), name, object, expected, token)
           = Done(Assembled(n, p, d, [l EXCEPT ![name] = WithVersion(object, v + 1)], b, v + 1,
                       Left(token, t), i))
<1> DEFINE c == Assembled(n, p, d, l, b, v, t, i)
           next == Assembled(n, p, d, l, b, v + 1, Left(token, t), i)
           objects == [l EXCEPT ![name] = WithVersion(object, v + 1)]
<1>1. c.policies = l
  BY SMT DEF Assembled
<1> HIDE DEF objects
<1>2. [next EXCEPT !.policies = objects] = Assembled(n, p, d, objects, b, v + 1, Left(token, t), i)
  BY SMT DEF Assembled
<1>3. c = Assembled(n, p, d, l, b, v, t, i)
      /\ next = Assembled(n, p, d, l, b, v + 1, Left(token, t), i)
  OBVIOUS
<1> HIDE DEF c, next
<1>4. Update(c, "policies", name, object, expected, token)
        = Done([next EXCEPT !.policies = objects])
  BY <1>1, <1>3, UpdateOf DEF objects
<1>5. QED
  BY <1>2, <1>4, Zenon DEF UpdateNetworkPolicy, c, objects

(* A cordoned node is a node.                                              *)
LEMMA CordonedWellFormed ==
  ASSUME NEW c, WellFormed(c), NEW name \in DOMAIN c.nodes
  PROVE  WellFormed(Cordoned(c, name))
<1> DEFINE nodes == [c.nodes EXCEPT ![name] = CordonedNode(c, name)]
<1>1. c.counter \in Nat \ {0} /\ c.counter + 1 \in Nat \ {0} /\ c.counter <= c.counter + 1
      /\ c.issued \in Nat /\ c.issued + 1 \in Nat
  BY DEF WellFormed
<1>2. nodes \in [DOMAIN nodes -> Node(c.counter + 1)]
  <2>1. c.nodes \in [DOMAIN c.nodes -> Node(c.counter)]
    BY Zenon DEF WellFormed, Node
  <2>2. \A node \in Node(c.counter) : node \in Node(c.counter + 1)
    BY <1>1 DEF Node
  <2>3. CordonedNode(c, name) \in Node(c.counter + 1)
    <3>1. c.nodes[name] \in Node(c.counter)
      BY <2>1
    <3>2. [c.nodes[name] EXCEPT !.schedulable = FALSE] \in Node(c.counter)
      BY <3>1 DEF Node
    <3>3. QED
      <4> DEFINE node == [c.nodes[name] EXCEPT !.schedulable = FALSE]
      <4>1. \A m \in Node(c.counter) :
              [m EXCEPT !.version = c.counter + 1] \in Node(c.counter + 1)
        BY <1>1 DEF Node
      <4>2. QED
        BY <3>2, <4>1, Zenon DEF CordonedNode, WithVersion
  <2>4. QED
    BY <2>1, <2>2, <2>3
<1>3. Versioned(c.deployments, c.counter + 1) /\ Versioned(c.policies, c.counter + 1)
  BY <1>1, VersionedLater DEF WellFormed
<1>4. TokensAfter(c, 1) \subseteq 1..(c.issued + 1)
  BY <1>1 DEF WellFormed, TokensAfter
<1>5. c.pods = [x \in DOMAIN c.pods |-> c.pods[x]] /\ IsFiniteSet(DOMAIN c.pods)
  BY DEF WellFormed
<1> HIDE DEF nodes
<1>6. WellFormed(Assembled(nodes, c.pods, c.deployments, c.policies, c.pdbs, c.counter + 1,
                           TokensAfter(c, 1), c.issued + 1))
  BY <1>1, <1>2, <1>3, <1>4, <1>5, AssembledIsWellFormed, SMT
<1>7. QED
  BY <1>6, Zenon DEF Cordoned, nodes

(* The case DrainNode: the whole drain, or nothing and a FAILED.           *)
LEMMA DrainForm ==
  ASSUME NEW c, WellFormed(c), NEW params, "nodeName" \in DOMAIN params, NEW dry \in BOOLEAN
  PROVE  LET r == DrainNode(Register(c), params, dry) IN
           \/ Refused(c, r.cluster) /\ (r.outcome = "FAILED" \/ (r.outcome = "SUCCESS" /\ dry))
           \/ Drained(c, r.cluster, params) /\ r.outcome = "SUCCESS" /\ ~dry
<1> DEFINE name == params.nodeName
           expected == ExpectedVersion(params)
           e == Register(c)
           cordoned == Cordon(e, name, expected, e.issued)
           r == DrainNode(e, params, dry)
<1>1. e = Assembled(c.nodes, c.pods, c.deployments, c.policies, c.pdbs, c.counter,
                    c.tokens \cup {c.issued + 1}, c.issued + 1)
  BY FreshToken, Zenon
<1>2. e.nodes = c.nodes /\ e.pods = c.pods /\ e.pdbs = c.pdbs /\ e.issued = c.issued + 1
  BY <1>1, SMT DEF Assembled
<1>3. Refused(c, e)
  BY <1>1, Zenon DEF Refused
<1>4. BudgetsAllow(e, name) <=> BudgetsAllow(c, name)
  BY <1>2 DEF BudgetsAllow, PodsOn
<1>5. PodsOn(e, name) = PodsOn(c, name)
  BY <1>2 DEF PodsOn
<1>6. ASSUME name \in DOMAIN c.nodes, expected \subseteq {c.nodes[name].version}
      PROVE  cordoned = Done(Cordoned(c, name))
  <2>1. Passes(c.issued + 1, c.tokens \cup {c.issued + 1})
        /\ TokensAfter(c, 1) = Left(c.issued + 1, c.tokens \cup {c.issued + 1})
    BY FreshToken, Zenon
  <2> DEFINE object == [e.nodes[name] EXCEPT !.schedulable = FALSE]
             tokens == c.tokens \cup {c.issued + 1}
             left == TokensAfter(c, 1)
             token == c.issued + 1
  <2>2. cordoned = UpdateNode(e, name, object, expected, token)
    BY <1>2, Zenon DEF Cordon
  <2> HIDE DEF object, tokens, left, token
  <2>3. Passes(token, tokens) /\ left = Left(token, tokens)
    BY <2>1, Zenon DEF tokens, left, token
  <2>4. UpdateNode(Assembled(c.nodes, c.pods, c.deployments, c.policies, c.pdbs, c.counter,
                             tokens, token), name, object, expected, token)
          = Done(Assembled([c.nodes EXCEPT ![name] = WithVersion(object, c.counter + 1)],
                           c.pods, c.deployments, c.policies, c.pdbs, c.counter + 1,
                           Left(token, tokens), token))
    BY <1>6, <2>3, NodeUpdate, SMT
  <2>5. WithVersion(object, c.counter + 1) = CordonedNode(c, name)
    BY <1>2, Zenon DEF object, CordonedNode
  <2>6. QED
    BY <1>1, <2>2, <2>3, <2>4, <2>5, Zenon DEF Cordoned, tokens, left, token
<1>7. CASE \/ name \notin DOMAIN c.nodes
           \/ ~(expected \subseteq {c.nodes[name].version})
           \/ ~BudgetsAllow(c, name) \/ dry
  <2>1. r = Outcome("FAILED", e) \/ (r = Outcome("SUCCESS", e) /\ dry)
    <3> DEFINE there == name \in DOMAIN e.nodes
               matches == VersionMatches(e.nodes[name], expected)
               allowed == BudgetsAllow(e, name)
               rest == IF ~cordoned.ok THEN Outcome("FAILED", cordoned.cluster)
                       ELSE Outcome("SUCCESS", EvictAll(cordoned.cluster, PodsOn(e, name)))
    <3>1. r = IF ~there THEN Outcome("FAILED", e) ELSE IF ~matches THEN Outcome("FAILED", e)
              ELSE IF ~allowed THEN Outcome("FAILED", e)
              ELSE IF dry THEN Outcome("SUCCESS", e) ELSE rest
      BY Zenon DEF DrainNode
    <3>2. ~there \/ ~matches \/ ~allowed \/ dry
      BY <1>2, <1>4, <1>7 DEF VersionMatches
    <3> HIDE DEF there, matches, allowed, rest, r, e
    <3>3. QED
      BY <3>1, <3>2, Zenon
  <2> HIDE DEF r, e
  <2>2. Refused(c, r.cluster) /\ (r.outcome = "FAILED" \/ (r.outcome = "SUCCESS" /\ dry))
    BY <1>3, <2>1 DEF Outcome
  <2>3. QED
    BY <2>2, Zenon DEF r, e
<1>8. CASE /\ name \in DOMAIN c.nodes /\ expected \subseteq {c.nodes[name].version}
           /\ BudgetsAllow(c, name) /\ ~dry
  <2>1. Done(Cordoned(c, name)).ok /\ Done(Cordoned(c, name)).cluster = Cordoned(c, name)
    BY DEF Done
  <2>2. r = Outcome("SUCCESS", EvictAll(Cordoned(c, name), PodsOn(c, name)))
    BY <1>2, <1>4, <1>5, <1>6, <1>8, <2>1, Zenon DEF DrainNode, VersionMatches
  <2>3. Cordoned(c, name).pods = c.pods
    BY SMT DEF Cordoned, Assembled
  <2>4. WellFormed(Cordoned(c, name)) /\ PodsOn(c, name) \in SUBSET (DOMAIN Cordoned(c, name).pods)
    BY <1>8, <2>3, CordonedWellFormed DEF PodsOn
  <2>5. EvictAll(Cordoned(c, name), PodsOn(c, name))
          = AfterEvicting(Cordoned(c, name), PodsOn(c, name), Cardinality(PodsOn(c, name)))
    BY <2>4, EvictsExactly
  <2>6. Drained(c, EvictAll(Cordoned(c, name), PodsOn(c, name)), params)
    BY <1>8, <2>5, Zenon DEF Drained
  <2>7. r.outcome = "SUCCESS"
        /\ r.cluster = EvictAll(Cordoned(c, name), PodsOn(c, name))
    BY <2>2 DEF Outcome
  <2>8. QED
    BY <1>8, <2>6, <2>7
<1>9. QED
  BY <1>7, <1>8, Zenon

(* The case RolloutDeployment.                                             *)
LEMMA RolloutForm ==
  ASSUME NEW c, WellFormed(c), NEW params, "deploymentName" \in DOMAIN params, NEW dry \in BOOLEAN
  PROVE  LET r == RolloutDeployment(Register(c), params, dry) IN
           \/ Refused(c, r.cluster) /\ (r.outcome = "FAILED" \/ (r.outcome = "SUCCESS" /\ dry))
           \/ Rolled(c, r.cluster, params) /\ r.outcome = "SUCCESS" /\ ~dry
<1> DEFINE name == params.deploymentName
           expected == ExpectedVersion(params)
           e == Register(c)
           image == params.image
           generation == e.deployments[name].generation + 1
           object == [e.deployments[name] EXCEPT !.image = image, !.generation = generation]
           update == UpdateDeployment(e, name, object, expected, e.issued)
           r == RolloutDeployment(e, params, dry)
<1>1. e = Assembled(c.nodes, c.pods, c.deployments, c.policies, c.pdbs, c.counter,
                    c.tokens \cup {c.issued + 1}, c.issued + 1)
  BY FreshToken, Zenon
<1>2. e.deployments = c.deployments /\ e.issued = c.issued + 1
  BY <1>1, SMT DEF Assembled
<1>3. Refused(c, e)
  BY <1>1, Zenon DEF Refused
<1> DEFINE after == Assembled(c.nodes, c.pods,
                      [c.deployments EXCEPT ![name] = WithVersion(object, c.counter + 1)],
                      c.policies, c.pdbs, c.counter + 1, TokensAfter(c, 1), c.issued + 1)
<1>4. ASSUME name \in DOMAIN c.deployments, expected \subseteq {c.deployments[name].version}
      PROVE  update = Done(after)
  <2> DEFINE tokens == c.tokens \cup {c.issued + 1}
             left == TokensAfter(c, 1)
             token == c.issued + 1
  <2>1. Passes(token, tokens) /\ left = Left(token, tokens)
    BY FreshToken, Zenon
  <2> HIDE DEF object, tokens, left, token
  <2>2. UpdateDeployment(Assembled(c.nodes, c.pods, c.deployments, c.policies, c.pdbs, c.counter,
                             tokens, token), name, object, expected, token)
          = Done(Assembled(c.nodes, c.pods,
                   [c.deployments EXCEPT ![name] = WithVersion(object, c.counter + 1)],
                   c.policies, c.pdbs, c.counter + 1, Left(token, tokens), token))
    BY <1>4, <2>1, DeploymentUpdate, SMT
  <2>3. QED
    BY <1>1, <1>2, <2>1, <2>2, Zenon DEF tokens, left, token
<1>5. CASE \/ name \notin DOMAIN c.deployments
           \/ ~(expected \subseteq {c.deployments[name].version}) \/ dry
  <2>1. r = Outcome("FAILED", e) \/ (r = Outcome("SUCCESS", e) /\ dry)
    <3> DEFINE there == name \in DOMAIN e.deployments
               matches == VersionMatches(e.deployments[name], expected)
    <3>1. r = IF ~there THEN Outcome("FAILED", e) ELSE IF ~matches THEN Outcome("FAILED", e)
              ELSE IF dry THEN Outcome("SUCCESS", e) ELSE Settled(update)
      BY Zenon DEF RolloutDeployment
    <3>2. ~there \/ ~matches \/ dry
      BY <1>2, <1>5 DEF VersionMatches
    <3> HIDE DEF there, matches, update, r, e
    <3>3. QED
      BY <3>1, <3>2, Zenon
  <2> HIDE DEF r, e
  <2>2. Refused(c, r.cluster) /\ (r.outcome = "FAILED" \/ (r.outcome = "SUCCESS" /\ dry))
    BY <1>3, <2>1 DEF Outcome
  <2>3. QED
    BY <2>2, Zenon DEF r, e
<1>6. CASE /\ name \in DOMAIN c.deployments
           /\ expected \subseteq {c.deployments[name].version} /\ ~dry
  <2>1. r = Settled(update)
    BY <1>2, <1>6, Zenon DEF RolloutDeployment, VersionMatches
  <2>2. update = Done(after)
    BY <1>4, <1>6, Zenon
  <2>3. object = [c.deployments[name] EXCEPT !.image = image, !.generation = generation]
    BY <1>2, Zenon
  <2> HIDE DEF update
  <2>4. Rolled(c, after, params)
    <3> HIDE DEF object, image, generation
    <3>1. after = Assembled(c.nodes, c.pods,
               [c.deployments EXCEPT ![name] =
                  WithVersion([c.deployments[name] EXCEPT !.image = image,
                                                          !.generation = generation],
                              c.counter + 1)],
               c.policies, c.pdbs, c.counter + 1, TokensAfter(c, 1), c.issued + 1)
      BY <2>3, Zenon
    <3> HIDE DEF after
    <3>2. QED
      BY <1>6, <3>1, Zenon DEF Rolled
  <2> HIDE DEF after
  <2>5. r.outcome = "SUCCESS" /\ r.cluster = after
    BY <2>1, <2>2 DEF Settled, Outcome, Done
  <2>6. QED
    BY <1>6, <2>4, <2>5
<1>7. QED
  BY <1>5, <1>6, Zenon

(* The case ApplyNetworkPolicy.                                            *)
LEMMA PolicyForm ==
  ASSUME NEW c, WellFormed(c), NEW params
  PROVE  LET r == ApplyNetworkPolicy(Register(c), params) IN
           \/ Refused(c, r.cluster) /\ r.outcome = "FAILED"
           \/ Applied(c, r.cluster) /\ r.outcome = "SUCCESS"
<1> DEFINE name == params.policyName
           expected == ExpectedVersion(params)
           e == Register(c)
           tokens == c.tokens \cup {c.issued + 1}
           token == c.issued + 1
           left == Left(token, tokens)
           policy == [rules |-> params.spec, version |-> 1]
           r == ApplyNetworkPolicy(e, params)
           reviewed == Assembled(c.nodes, c.pods, c.deployments, c.policies, c.pdbs, c.counter,
                                 left, token)
           updated == [c.policies EXCEPT ![name] = WithVersion(policy, c.counter + 1)]
           added == Put(c.policies, name, policy)
           After(policies, counter) ==
             Assembled(c.nodes, c.pods, c.deployments, policies, c.pdbs, counter, left, token)
<1>1. e = Assembled(c.nodes, c.pods, c.deployments, c.policies, c.pdbs, c.counter, tokens, token)
      /\ Passes(token, tokens) /\ left = TokensAfter(c, 1)
  BY FreshToken, Zenon
<1>2. e.policies = c.policies /\ e.issued = token
  BY <1>1, SMT DEF Assembled
<1>3. c.counter \in Nat \ {0} /\ Versioned(c.policies, c.counter)
  BY DEF WellFormed
<1> HIDE DEF name, expected, e, tokens, token, left, policy
<1>4. Refused(c, e)
  BY <1>1, Zenon DEF Refused, tokens, token
<1>5. Applied(c, After(updated, c.counter + 1))
  <2>1. policy.version = 1 /\ "version" \in DOMAIN policy
    BY DEF policy
  <2>2. Versioned(updated, c.counter + 1)
    <3>1. Versioned(c.policies, c.counter + 1)
      BY <1>3, VersionedLater
    <3>2. WithVersion(policy, c.counter + 1).version = c.counter + 1
          /\ "version" \in DOMAIN WithVersion(policy, c.counter + 1)
      BY <2>1 DEF WithVersion
    <3>3. QED
      BY <1>3, <3>1, <3>2 DEF Versioned
  <2>3. DOMAIN c.policies \subseteq DOMAIN updated
        /\ \A p \in DOMAIN updated :
             p # name => p \in DOMAIN c.policies /\ updated[p] = c.policies[p]
    OBVIOUS
  <2> HIDE DEF updated
  <2>4. After(updated, c.counter + 1)
          = Assembled(c.nodes, c.pods, c.deployments, updated, c.pdbs, c.counter + 1,
                      TokensAfter(c, 1),
                      c.issued + 1)
    BY <1>1, Zenon DEF token
  <2> HIDE DEF After
  <2>5. c.counter + 1 \in {c.counter, c.counter + 1}
    OBVIOUS
  <2>6. AppliedAs(c, After(updated, c.counter + 1), updated, c.counter + 1, name)
    BY <2>2, <2>3, <2>4, <2>5 DEF AppliedAs
  <2>7. QED
    BY <2>6, Zenon DEF Applied
<1>6. Applied(c, After(added, c.counter))
  <2>1. policy.version = 1 /\ "version" \in DOMAIN policy
    BY DEF policy
  <2>2. DOMAIN added = {name} \cup DOMAIN c.policies
        /\ added = [p \in DOMAIN added |-> added[p]]
        /\ \A p \in DOMAIN added :
             \/ p = name /\ added[p] = policy
             \/ p \in DOMAIN c.policies /\ added[p] = c.policies[p]
    BY DEF Put
  <2> HIDE DEF added
  <2>3. Versioned(added, c.counter)
    BY <1>3, <2>1, <2>2 DEF Versioned
  <2>4. DOMAIN c.policies \subseteq DOMAIN added
        /\ \A p \in DOMAIN added :
             p # name => p \in DOMAIN c.policies /\ added[p] = c.policies[p]
    BY <2>2
  <2>5. After(added, c.counter)
          = Assembled(c.nodes, c.pods, c.deployments, added, c.pdbs, c.counter, TokensAfter(c, 1),
                      c.issued + 1)
    BY <1>1, Zenon DEF token
  <2> HIDE DEF After
  <2>6. c.counter \in {c.counter, c.counter + 1}
    OBVIOUS
  <2>7. AppliedAs(c, After(added, c.counter), added, c.counter, name)
    BY <2>3, <2>4, <2>5, <2>6 DEF AppliedAs
  <2>8. QED
    BY <2>7, Zenon DEF Applied
<1>7. CASE name \in DOMAIN c.policies /\ expected \subseteq {c.policies[name].version}
  <2>1. UpdateNetworkPolicy(Assembled(c.nodes, c.pods, c.deployments, c.policies, c.pdbs,
                              c.counter, tokens, token), name, policy, expected, token)
          = Done(Assembled(c.nodes, c.pods, c.deployments,
                   [c.policies EXCEPT ![name] = WithVersion(policy, c.counter + 1)],
                   c.pdbs, c.counter + 1, Left(token, tokens), token))
    BY <1>1, <1>7, PolicyUpdate, SMT
  <2>2. UpdateNetworkPolicy(e, name, policy, expected, token)
          = Done(After(updated, c.counter + 1))
    BY <1>1, <2>1, Zenon DEF left
  <2>3. r = Settled(UpdateNetworkPolicy(e, name, policy, expected, token))
    BY <1>2, <1>7, Zenon DEF ApplyNetworkPolicy, VersionMatches, name, expected, policy
  <2> HIDE DEF After, updated
  <2>4. /\ Settled(Done(After(updated, c.counter + 1))).cluster = After(updated, c.counter + 1)
        /\ Settled(Done(After(updated, c.counter + 1))).outcome = "SUCCESS"
    BY DEF Settled, Done, Outcome
  <2>5. r.cluster = After(updated, c.counter + 1) /\ r.outcome = "SUCCESS"
    BY <2>2, <2>3, <2>4, Zenon
  <2>6. QED
    BY <1>5, <2>5, Zenon DEF e
<1>8. CASE name \in DOMAIN c.policies /\ ~(expected \subseteq {c.policies[name].version})
  <2>1. r = Outcome("FAILED", e)
    BY <1>2, <1>8, Zenon DEF ApplyNetworkPolicy, VersionMatches, name, expected
  <2>2. Outcome("FAILED", e).cluster = e /\ Outcome("FAILED", e).outcome = "FAILED"
    BY DEF Outcome
  <2>3. QED
    BY <1>4, <2>1, <2>2, Zenon DEF e
<1>9. CASE name \notin DOMAIN c.policies
  <2>1. ReviewAdmission(Assembled(c.nodes, c.pods, c.deployments, c.policies, c.pdbs,
                                  c.counter, tokens, token), token)
          = Done(Assembled(c.nodes, c.pods, c.deployments, c.policies, c.pdbs, c.counter,
                           Left(token, tokens), token))
    BY <1>1, ReviewAssembled, SMT
  <2>2. ReviewAdmission(e, e.issued) = Done(reviewed)
    BY <1>1, <1>2, <2>1, Zenon DEF left
  <2>3. Done(reviewed).ok /\ Done(reviewed).cluster = reviewed
    BY DEF Done
  <2>4. reviewed.policies = c.policies
    BY SMT DEF Assembled
  <2> HIDE DEF added
  <2>5. [reviewed EXCEPT !.policies = added] = After(added, c.counter)
    BY SMT DEF Assembled
  <2> HIDE DEF reviewed, After
  <2>6. r = Outcome("SUCCESS", AddNetworkPolicy(reviewed, name, policy))
    BY <1>2, <1>9, <2>2, <2>3, Zenon DEF ApplyNetworkPolicy, name, policy
  <2>7. AddNetworkPolicy(reviewed, name, policy) = After(added, c.counter)
    BY <2>4, <2>5, Zenon DEF AddNetworkPolicy, added
  <2>8. \A x : Outcome("SUCCESS", x).cluster = x /\ Outcome("SUCCESS", x).outcome = "SUCCESS"
    BY DEF Outcome
  <2>9. QED
    BY <1>6, <2>6, <2>7, <2>8, Zenon DEF e
<1>10. QED
  BY <1>7, <1>8, <1>9, Zenon

(* Execute does nothing, or all of what its action is for.                 *)
Executed(c, action, params, dry, r) ==
  \/ Refused(c, r.cluster) /\ (r.outcome = "FAILED" \/ (r.outcome = "SUCCESS" /\ dry))
  \/ action = "DrainNode" /\ Drained(c, r.cluster, params) /\ r.outcome = "SUCCESS" /\ ~dry
  \/ /\ action = "RolloutDeployment" /\ Rolled(c, r.cluster, params)
     /\ r.outcome = "SUCCESS" /\ ~dry
  \/ action = "ApplyNetworkPolicy" /\ Applied(c, r.cluster) /\ r.outcome = "SUCCESS"

LEMMA ExecuteForm ==
  ASSUME NEW c, WellFormed(c), NEW action, NEW params, NEW dry \in BOOLEAN
  PROVE  Executed(c, action, params, dry, Execute(c, action, params, dry))
<1> DEFINE e == Register(c)
           r == Execute(c, action, params, dry)
<1> SUFFICES \/ Refused(c, r.cluster) /\ (r.outcome = "FAILED" \/ (r.outcome = "SUCCESS" /\ dry))
             \/ /\ action = "DrainNode" /\ Drained(c, r.cluster, params)
                /\ r.outcome = "SUCCESS" /\ ~dry
             \/ /\ action = "RolloutDeployment" /\ Rolled(c, r.cluster, params)
                /\ r.outcome = "SUCCESS" /\ ~dry
             \/ action = "ApplyNetworkPolicy" /\ Applied(c, r.cluster) /\ r.outcome = "SUCCESS"
  BY Zenon DEF Executed
<1>1. Refused(c, e)
  BY FreshToken, Zenon DEF Refused
<1>2. Outcome("FAILED", e).cluster = e /\ Outcome("FAILED", e).outcome = "FAILED"
  BY DEF Outcome
<1> HIDE DEF e
<1>3. CASE ~(RequiredParams(action) \subseteq DOMAIN params)
  <2>1. r = Outcome("FAILED", e)
    BY <1>3, Zenon DEF Execute, e
  <2>2. QED
    BY <1>1, <1>2, <2>1, Zenon
<1>4. CASE RequiredParams(action) \subseteq DOMAIN params
  <2>1. CASE action = "DrainNode"
    <3>1. RequiredParams(action) = {"nodeName"} /\ r = DrainNode(e, params, dry)
      BY <1>4, <2>1 DEF Execute, RequiredParams, e
    <3>2. "nodeName" \in DOMAIN params
      BY <1>4, <3>1
    <3>3. QED
      BY <2>1, <3>1, <3>2, DrainForm, Zenon DEF e
  <2>2. CASE action = "RolloutDeployment"
    <3>1. RequiredParams(action) = {"deploymentName"} /\ r = RolloutDeployment(e, params, dry)
      BY <1>4, <2>2 DEF Execute, RequiredParams, e
    <3>2. "deploymentName" \in DOMAIN params
      BY <1>4, <3>1
    <3>3. QED
      BY <2>2, <3>1, <3>2, RolloutForm, Zenon DEF e
  <2>3. CASE action = "ApplyNetworkPolicy"
    <3>1. r = ApplyNetworkPolicy(e, params)
      BY <1>4, <2>3 DEF Execute, e
    <3>2. QED
      BY <2>3, <3>1, PolicyForm, Zenon DEF e
  <2>4. CASE action \notin {"DrainNode", "RolloutDeployment", "ApplyNetworkPolicy"}
    <3>1. r = Outcome("FAILED", e)
      BY <1>4, <2>4 DEF Execute, e
    <3>2. QED
      BY <1>1, <1>2, <3>1, Zenon
  <2>5. QED
    BY <2>1, <2>2, <2>3, <2>4
<1>5. QED
  BY <1>3, <1>4

------------------------------------------------------------------------------
(* What any step makes of the cluster: versions only grow, no node or      *)
(* deployment goes away, and where the counter stays nothing is cordoned   *)
(* or evicted.                                                             *)
Progress(c, d) ==
  /\ WellFormed(d)
  /\ c.counter <= d.counter
  /\ DOMAIN c.nodes = DOMAIN d.nodes /\ DOMAIN c.deployments = DOMAIN d.deployments
  /\ \A n \in DOMAIN c.nodes : c.nodes[n].version <= d.nodes[n].version
  /\ \A n \in DOMAIN c.deployments : c.deployments[n].version <= d.deployments[n].version
  /\ c.counter = d.counter =>
       /\ \A n \in DOMAIN c.nodes : c.nodes[n].schedulable = d.nodes[n].schedulable
       /\ DOMAIN c.pods \subseteq DOMAIN d.pods
       /\ \A p \in DOMAIN c.pods : c.pods[p] = d.pods[p]

(* The facts about a well-formed cluster that the proofs below need.       *)
LEMMA Typed ==
  ASSUME NEW c, WellFormed(c)
  PROVE  /\ c.counter \in Nat \ {0} /\ c.counter + 1 \in Nat \ {0} /\ c.counter <= c.counter + 1
         /\ c.issued \in Nat /\ c.issued + 1 \in Nat /\ c.tokens \subseteq 1..c.issued
         /\ c.nodes \in [DOMAIN c.nodes -> Node(c.counter)]
         /\ c.nodes \in [DOMAIN c.nodes -> Node(c.counter + 1)]
         /\ c.pods = [p \in DOMAIN c.pods |-> c.pods[p]] /\ IsFiniteSet(DOMAIN c.pods)
         /\ Versioned(c.deployments, c.counter) /\ Versioned(c.policies, c.counter)
         /\ Versioned(c.deployments, c.counter + 1) /\ Versioned(c.policies, c.counter + 1)
         /\ \A n \in DOMAIN c.nodes : c.nodes[n].version \in Nat
         /\ \A n \in DOMAIN c.deployments : c.deployments[n].version \in Nat
         /\ c.tokens \subseteq 1..(c.issued + 1)
         /\ c.tokens \cup {c.issued + 1} \subseteq 1..(c.issued + 1)
         /\ TokensAfter(c, 1) \subseteq 1..(c.issued + 1)
<1>1. /\ c.counter \in Nat \ {0} /\ c.counter + 1 \in Nat \ {0} /\ c.counter <= c.counter + 1
      /\ c.issued \in Nat /\ c.issued + 1 \in Nat /\ c.tokens \subseteq 1..c.issued
  BY DEF WellFormed
<1>2. c.nodes \in [DOMAIN c.nodes -> Node(c.counter)]
  BY Zenon DEF WellFormed, Node
<1>3. \A n \in Node(c.counter) : n \in Node(c.counter + 1)
  BY <1>1 DEF Node
<1>4. c.nodes \in [DOMAIN c.nodes -> Node(c.counter + 1)]
  BY <1>2, <1>3
<1>5. Versioned(c.deployments, c.counter) /\ Versioned(c.policies, c.counter)
  BY DEF WellFormed
<1>6. Versioned(c.deployments, c.counter + 1) /\ Versioned(c.policies, c.counter + 1)
  BY <1>1, <1>5, VersionedLater
<1>7. \A n \in DOMAIN c.nodes : c.nodes[n].version \in Nat
  BY <1>1, <1>2 DEF Node
<1>8. \A n \in DOMAIN c.deployments : c.deployments[n].version \in Nat
  BY <1>1, <1>5 DEF Versioned
<1>9. /\ c.tokens \subseteq 1..(c.issued + 1)
      /\ c.tokens \cup {c.issued + 1} \subseteq 1..(c.issued + 1)
  BY <1>1
<1>10. TokensAfter(c, 1) \subseteq 1..(c.issued + 1)
  BY <1>9, FreshToken, Zenon
<1>11. c.pods = [p \in DOMAIN c.pods |-> c.pods[p]] /\ IsFiniteSet(DOMAIN c.pods)
  BY DEF WellFormed
<1>12. QED
  BY <1>1, <1>2, <1>4, <1>5, <1>6, <1>7, <1>8, <1>9, <1>10, <1>11, Zenon

LEMMA RefusedProgress ==
  ASSUME NEW c, WellFormed(c), NEW d, Refused(c, d)
  PROVE  Progress(c, d)
<1>1. PICK tokens \in {c.tokens, c.tokens \cup {c.issued + 1}} :
        d = Assembled(c.nodes, c.pods, c.deployments, c.policies, c.pdbs, c.counter,
                      tokens, c.issued + 1)
  BY DEF Refused
<1>2. tokens \subseteq 1..(c.issued + 1)
  BY Typed, Zenon
<1>3. /\ c.counter \in Nat \ {0} /\ c.issued + 1 \in Nat
      /\ c.nodes \in [DOMAIN c.nodes -> Node(c.counter)]
      /\ c.pods = [p \in DOMAIN c.pods |-> c.pods[p]] /\ IsFiniteSet(DOMAIN c.pods)
      /\ Versioned(c.deployments, c.counter) /\ Versioned(c.policies, c.counter)
      /\ \A n \in DOMAIN c.nodes : c.nodes[n].version \in Nat
      /\ \A n \in DOMAIN c.deployments : c.deployments[n].version \in Nat
  BY Typed, Zenon
<1>4. WellFormed(d)
  BY <1>1, <1>2, <1>3, AssembledIsWellFormed, SMT
<1>5. /\ d.nodes = c.nodes /\ d.pods = c.pods /\ d.deployments = c.deployments
      /\ d.counter = c.counter
  BY <1>1, SMT DEF Assembled
<1>6. QED
  BY <1>3, <1>4, <1>5 DEF Progress

(* What a cordon does, field by field.                                     *)
LEMMA CordonedFields ==
  ASSUME NEW c, WellFormed(c), NEW name \in DOMAIN c.nodes
  PROVE  LET e == Cordoned(c, name) IN
           /\ WellFormed(e)
           /\ e.counter = c.counter + 1 /\ e.issued = c.issued + 1 /\ e.tokens = TokensAfter(c, 1)
           /\ e.pods = c.pods /\ e.deployments = c.deployments /\ e.policies = c.policies
           /\ e.pdbs = c.pdbs
           /\ DOMAIN e.nodes = DOMAIN c.nodes
           /\ \A n \in DOMAIN c.nodes : n # name => e.nodes[n] = c.nodes[n]
           /\ ~e.nodes[name].schedulable /\ e.nodes[name].version = c.counter + 1
<1> DEFINE e == Cordoned(c, name)
           nodes == [c.nodes EXCEPT ![name] = CordonedNode(c, name)]
<1>1. c.nodes[name] \in Node(c.counter)
  BY Typed
<1>2. CordonedNode(c, name).version = c.counter + 1 /\ CordonedNode(c, name).schedulable = FALSE
  BY <1>1 DEF CordonedNode, WithVersion, Node
<1>3. DOMAIN nodes = DOMAIN c.nodes /\ nodes[name] = CordonedNode(c, name)
      /\ \A n \in DOMAIN c.nodes : n # name => nodes[n] = c.nodes[n]
  OBVIOUS
<1> HIDE DEF nodes
<1>4. e = Assembled(nodes, c.pods, c.deployments, c.policies, c.pdbs, c.counter + 1,
                    TokensAfter(c, 1), c.issued + 1)
  BY Zenon DEF Cordoned, nodes
<1>5. WellFormed(e)
  BY CordonedWellFormed
<1> HIDE DEF e
<1>6. /\ e.nodes = nodes
      /\ e.counter = c.counter + 1 /\ e.issued = c.issued + 1 /\ e.tokens = TokensAfter(c, 1)
      /\ e.pods = c.pods /\ e.deployments = c.deployments /\ e.policies = c.policies
      /\ e.pdbs = c.pdbs
  BY <1>4, SMT DEF Assembled
<1>7. ~e.nodes[name].schedulable /\ e.nodes[name].version = c.counter + 1
  BY <1>2, <1>3, <1>6
<1>8. QED
  BY <1>3, <1>5, <1>6, <1>7, Zenon DEF e

(* What the loop of a drain does, field by field.                          *)
Evicted(c, d, gone, n) ==
  /\ WellFormed(d)
  /\ d.counter = c.counter /\ d.issued = c.issued + n /\ d.tokens = TokensAfter(c, n)
  /\ d.nodes = c.nodes /\ d.deployments = c.deployments /\ d.policies = c.policies
  /\ DOMAIN d.pods = DOMAIN c.pods \ gone
  /\ \A p \in DOMAIN d.pods : d.pods[p] = c.pods[p]

LEMMA EvictingFields ==
  ASSUME NEW c, WellFormed(c), NEW gone \in SUBSET (DOMAIN c.pods), NEW n \in Nat
  PROVE  Evicted(c, AfterEvicting(c, gone, n), gone, n)
<1> DEFINE e == AfterEvicting(c, gone, n)
           pods == [p \in DOMAIN c.pods \ gone |-> c.pods[p]]
<1>1. pods = [p \in DOMAIN pods |-> pods[p]] /\ DOMAIN pods = DOMAIN c.pods \ gone
      /\ \A p \in DOMAIN pods : pods[p] = c.pods[p]
  OBVIOUS
<1>2. IsFiniteSet(DOMAIN pods)
  <2>1. DOMAIN pods \in SUBSET (DOMAIN c.pods)
    OBVIOUS
  <2> HIDE DEF pods
  <2>2. QED
    BY <2>1, Typed, FS_Subset
<1> HIDE DEF pods
<1>3. c.issued + n \in Nat /\ TokensAfter(c, n) \subseteq 1..(c.issued + n)
  <2>1. c.issued \in Nat /\ c.tokens \subseteq 1..c.issued
    BY Typed, Zenon
  <2>2. QED
    BY <2>1 DEF TokensAfter
<1>4. e = Assembled(c.nodes, pods, c.deployments, c.policies, c.pdbs, c.counter,
                    TokensAfter(c, n), c.issued + n)
  BY Zenon DEF AfterEvicting, pods
<1> HIDE DEF e
<1>5. WellFormed(e)
  <2>1. /\ c.counter \in Nat \ {0}
        /\ c.nodes \in [DOMAIN c.nodes -> Node(c.counter)]
        /\ Versioned(c.deployments, c.counter) /\ Versioned(c.policies, c.counter)
    BY Typed, Zenon
  <2>2. QED
    BY <1>1, <1>2, <1>3, <1>4, <2>1, AssembledIsWellFormed, SMT
<1>6. /\ e.counter = c.counter /\ e.issued = c.issued + n /\ e.tokens = TokensAfter(c, n)
      /\ e.nodes = c.nodes /\ e.deployments = c.deployments /\ e.policies = c.policies
      /\ e.pdbs = c.pdbs /\ e.pods = pods
  BY <1>4, SMT DEF Assembled
<1>7. QED
  BY <1>1, <1>5, <1>6, Zenon DEF Evicted, e

(* What a drain that is carried out does, field by field.                  *)
LEMMA DrainedFields ==
  ASSUME NEW c, WellFormed(c), NEW d, NEW params, Drained(c, d, params),
         NEW name, name = params.nodeName, NEW gone, gone = PodsOn(c, name),
         NEW n, n = Cardinality(gone)
  PROVE  /\ WellFormed(d) /\ n \in Nat
         /\ d.counter = c.counter + 1 /\ d.issued = c.issued + 1 + n
         /\ d.tokens = TokensAfter(c, 1 + n)
         /\ d.deployments = c.deployments /\ d.policies = c.policies
         /\ DOMAIN d.nodes = DOMAIN c.nodes
         /\ \A m \in DOMAIN c.nodes : m # name => d.nodes[m] = c.nodes[m]
         /\ name \in DOMAIN c.nodes
         /\ ~d.nodes[name].schedulable /\ d.nodes[name].version = c.counter + 1
         /\ DOMAIN d.pods = DOMAIN c.pods \ gone
         /\ \A p \in DOMAIN d.pods : d.pods[p] = c.pods[p]
<1> DEFINE e == Cordoned(c, name)
<1>1. name \in DOMAIN c.nodes /\ d = AfterEvicting(e, gone, n)
  BY Zenon DEF Drained
<1>2. gone \in SUBSET (DOMAIN c.pods)
  BY DEF PodsOn
<1>3. n \in Nat
  <2>1. IsFiniteSet(gone)
    BY <1>2, Typed, FS_Subset
  <2>2. QED
    BY <2>1, FS_CardinalityType
<1>4. /\ WellFormed(e)
      /\ e.counter = c.counter + 1 /\ e.issued = c.issued + 1 /\ e.tokens = TokensAfter(c, 1)
      /\ e.pods = c.pods /\ e.deployments = c.deployments /\ e.policies = c.policies
      /\ DOMAIN e.nodes = DOMAIN c.nodes
      /\ \A m \in DOMAIN c.nodes : m # name => e.nodes[m] = c.nodes[m]
      /\ ~e.nodes[name].schedulable /\ e.nodes[name].version = c.counter + 1
  BY <1>1, CordonedFields, Zenon
<1> HIDE DEF e
<1>5. /\ WellFormed(d)
      /\ d.counter = e.counter /\ d.issued = e.issued + n /\ d.tokens = TokensAfter(e, n)
      /\ d.nodes = e.nodes /\ d.deployments = e.deployments /\ d.policies = e.policies
      /\ DOMAIN d.pods = DOMAIN e.pods \ gone
      /\ \A p \in DOMAIN d.pods : d.pods[p] = e.pods[p]
  <2>1. gone \in SUBSET (DOMAIN e.pods)
    BY <1>2, <1>4
  <2>2. Evicted(e, AfterEvicting(e, gone, n), gone, n)
    BY <1>3, <1>4, <2>1, EvictingFields, Zenon
  <2>3. QED
    BY <1>1, <2>2, Zenon DEF Evicted
<1>6. TokensAfter(e, n) = TokensAfter(c, 1 + n)
  <2>1. c.issued \in Nat
    BY Typed
  <2>2. (c.issued + 1 .. c.issued + 1) \cup (c.issued + 1 + 1 .. c.issued + 1 + n)
          = c.issued + 1 .. c.issued + (1 + n)
    BY <1>3, <2>1
  <2>3. QED
    BY <1>4, <2>2 DEF TokensAfter
<1>7. QED
  BY <1>1, <1>3, <1>4, <1>5, <1>6

LEMMA DrainedProgress ==
  ASSUME NEW c, WellFormed(c), NEW d, NEW params, Drained(c, d, params)
  PROVE  Progress(c, d)
<1> DEFINE name == params.nodeName
           gone == PodsOn(c, name)
           n == Cardinality(gone)
<1>0. name = params.nodeName /\ gone = PodsOn(c, name) /\ n = Cardinality(gone)
  OBVIOUS
<1> HIDE DEF name, gone, n
<1>1. /\ WellFormed(d) /\ d.counter = c.counter + 1
      /\ d.deployments = c.deployments /\ DOMAIN d.nodes = DOMAIN c.nodes
      /\ \A m \in DOMAIN c.nodes : m # name => d.nodes[m] = c.nodes[m]
      /\ d.nodes[name].version = c.counter + 1
  BY <1>0, DrainedFields, SMT
<1>2. c.counter \in Nat /\ \A o \in DOMAIN c.nodes : c.nodes[o].version \in 1..c.counter
  BY Typed DEF Node
<1>3. \A o \in DOMAIN c.nodes : c.nodes[o].version <= d.nodes[o].version
  BY <1>1, <1>2
<1>4. \A o \in DOMAIN c.deployments : c.deployments[o].version <= d.deployments[o].version
  <2>1. \A o \in DOMAIN c.deployments : c.deployments[o].version \in Nat
    BY Typed, Zenon
  <2>2. QED
    BY <1>1, <2>1
<1>5. QED
  BY <1>1, <1>2, <1>3, <1>4 DEF Progress

LEMMA RolledProgress ==
  ASSUME NEW c, WellFormed(c), NEW d, NEW params, Rolled(c, d, params)
  PROVE  /\ Progress(c, d)
         /\ d.deployments[params.deploymentName].version = c.counter + 1
<1> DEFINE name == params.deploymentName
<1>1. name \in DOMAIN c.deployments
  BY DEF Rolled
<1>2. PICK image, generation :
        d = Assembled(c.nodes, c.pods,
               [c.deployments EXCEPT ![name] =
                  WithVersion([c.deployments[name] EXCEPT !.image = image,
                                                          !.generation = generation],
                              c.counter + 1)],
               c.policies, c.pdbs, c.counter + 1, TokensAfter(c, 1), c.issued + 1)
  BY DEF Rolled
<1> DEFINE object == [c.deployments[name] EXCEPT !.image = image, !.generation = generation]
           deployments == [c.deployments EXCEPT ![name] = WithVersion(object, c.counter + 1)]
<1>3. /\ c.counter \in Nat \ {0} /\ c.counter + 1 \in Nat \ {0}
      /\ c.issued + 1 \in Nat /\ TokensAfter(c, 1) \subseteq 1..(c.issued + 1)
      /\ c.nodes \in [DOMAIN c.nodes -> Node(c.counter + 1)]
      /\ c.pods = [p \in DOMAIN c.pods |-> c.pods[p]] /\ IsFiniteSet(DOMAIN c.pods)
      /\ Versioned(c.deployments, c.counter) /\ Versioned(c.deployments, c.counter + 1)
      /\ Versioned(c.policies, c.counter + 1)
      /\ \A n \in DOMAIN c.nodes : c.nodes[n].version \in Nat
  BY Typed, Zenon
<1>4. "version" \in DOMAIN object
  <2>1. "version" \in DOMAIN c.deployments[name]
    BY <1>1, <1>3 DEF Versioned
  <2>2. QED
    BY <2>1
<1> HIDE DEF object
<1>5. WithVersion(object, c.counter + 1).version = c.counter + 1
      /\ "version" \in DOMAIN WithVersion(object, c.counter + 1)
  BY <1>4 DEF WithVersion
<1>6. DOMAIN deployments = DOMAIN c.deployments
      /\ deployments[name] = WithVersion(object, c.counter + 1)
      /\ \A m \in DOMAIN c.deployments : m # name => deployments[m] = c.deployments[m]
  BY <1>1
<1>6a. deployments = [o \in DOMAIN deployments |-> deployments[o]]
  BY <1>1
<1>7. d = Assembled(c.nodes, c.pods, deployments, c.policies, c.pdbs, c.counter + 1,
                    TokensAfter(c, 1), c.issued + 1)
  BY <1>2, Zenon DEF object
<1> HIDE DEF deployments
<1>8. Versioned(deployments, c.counter + 1)
  <2>1. \A m \in DOMAIN c.deployments : "version" \in DOMAIN c.deployments[m]
          /\ c.deployments[m].version \in 1..(c.counter + 1)
    BY <1>3, Zenon DEF Versioned
  <2>2. c.counter + 1 \in 1..(c.counter + 1)
    BY <1>3
  <2>3. \A m \in DOMAIN deployments : "version" \in DOMAIN deployments[m]
          /\ deployments[m].version \in 1..(c.counter + 1)
    BY <1>5, <1>6, <2>1, <2>2, Zenon
  <2>4. deployments = [o \in DOMAIN deployments |-> deployments[o]]
    BY <1>6a
  <2>5. QED
    BY <2>3, <2>4, Zenon DEF Versioned
<1>9. WellFormed(d)
  BY <1>3, <1>7, <1>8, AssembledIsWellFormed, SMT
<1>10. /\ d.nodes = c.nodes /\ d.pods = c.pods /\ d.deployments = deployments
       /\ d.counter = c.counter + 1
  BY <1>7, SMT DEF Assembled
<1>11. \A m \in DOMAIN c.deployments : c.deployments[m].version <= d.deployments[m].version
  BY <1>3, <1>5, <1>6, <1>10 DEF Versioned
<1>12. QED
  BY <1>3, <1>5, <1>6, <1>9, <1>10, <1>11 DEF Progress

LEMMA AppliedProgress ==
  ASSUME NEW c, WellFormed(c), NEW d, Applied(c, d)
  PROVE  Progress(c, d)
<1>1. PICK policies, counter, name : AppliedAs(c, d, policies, counter, name)
  BY DEF Applied
<1>2. /\ d = Assembled(c.nodes, c.pods, c.deployments, policies, c.pdbs, counter,
                       TokensAfter(c, 1), c.issued + 1)
      /\ counter \in {c.counter, c.counter + 1} /\ Versioned(policies, counter)
  BY <1>1, Zenon DEF AppliedAs
<1>3. /\ c.counter \in Nat \ {0} /\ c.counter + 1 \in Nat \ {0}
      /\ c.issued + 1 \in Nat /\ TokensAfter(c, 1) \subseteq 1..(c.issued + 1)
      /\ c.nodes \in [DOMAIN c.nodes -> Node(c.counter)]
      /\ c.nodes \in [DOMAIN c.nodes -> Node(c.counter + 1)]
      /\ c.pods = [p \in DOMAIN c.pods |-> c.pods[p]] /\ IsFiniteSet(DOMAIN c.pods)
      /\ Versioned(c.deployments, c.counter) /\ Versioned(c.deployments, c.counter + 1)
      /\ \A n \in DOMAIN c.nodes : c.nodes[n].version \in Nat
      /\ \A n \in DOMAIN c.deployments : c.deployments[n].version \in Nat
  BY Typed, Zenon
<1>4. /\ counter \in Nat \ {0} /\ c.nodes \in [DOMAIN c.nodes -> Node(counter)]
      /\ Versioned(c.deployments, counter)
  BY <1>2, <1>3
<1>5. WellFormed(d)
  BY <1>2, <1>3, <1>4, AssembledIsWellFormed, SMT
<1>6. /\ d.nodes = c.nodes /\ d.pods = c.pods /\ d.deployments = c.deployments
      /\ d.counter = counter
  BY <1>2, SMT DEF Assembled
<1>7. QED
  BY <1>2, <1>3, <1>5, <1>6 DEF Progress

(* Whatever a dispatch does, the cluster has moved on.                     *)
LEMMA ExecuteProgress ==
  ASSUME NEW c, WellFormed(c), NEW action, NEW params, NEW dry \in BOOLEAN
  PROVE  Progress(c, Execute(c, action, params, dry).cluster)
<1> DEFINE r == Execute(c, action, params, dry)
<1>1. \/ Refused(c, r.cluster) \/ Drained(c, r.cluster, params)
      \/ Rolled(c, r.cluster, params) \/ Applied(c, r.cluster)
  <2>1. Executed(c, action, params, dry, r)
    BY ExecuteForm, Zenon
  <2> HIDE DEF r
  <2>2. QED
    BY <2>1, Zenon DEF Executed
<1> HIDE DEF r
<1>2. Progress(c, r.cluster)
  BY <1>1, RefusedProgress, DrainedProgress, RolledProgress, AppliedProgress, Zenon
<1>3. QED
  BY <1>2, Zenon DEF r

------------------------------------------------------------------------------
(* The other steps of the cluster.                                         *)

RawCordoned(c, n) ==
  UpdateNode(c, n, [c.nodes[n] EXCEPT !.schedulable = FALSE], {}, NoToken).cluster

(* A cordon without a token: nothing at all, where the webhook is on.      *)
LEMMA RawProgress ==
  ASSUME NEW c, WellFormed(c), NEW n \in DOMAIN c.nodes
  PROVE  /\ Progress(c, RawCordoned(c, n))
         /\ Mediated => RawCordoned(c, n) = c
<1> DEFINE object == [c.nodes[n] EXCEPT !.schedulable = FALSE]
           u == UpdateNode(c, n, object, {}, NoToken)
<1>1. /\ c.counter \in Nat \ {0} /\ c.counter + 1 \in Nat \ {0} /\ c.counter <= c.counter + 1
      /\ c.issued \in Nat /\ c.tokens \subseteq 1..c.issued
      /\ c.nodes \in [DOMAIN c.nodes -> Node(c.counter)]
      /\ c.nodes \in [DOMAIN c.nodes -> Node(c.counter + 1)]
      /\ c.pods = [p \in DOMAIN c.pods |-> c.pods[p]] /\ IsFiniteSet(DOMAIN c.pods)
      /\ Versioned(c.deployments, c.counter + 1) /\ Versioned(c.policies, c.counter + 1)
      /\ \A m \in DOMAIN c.nodes : c.nodes[m].version \in Nat
      /\ \A m \in DOMAIN c.deployments : c.deployments[m].version \in Nat
  BY Typed, Zenon
<1>2. CASE Mediated
  <2>1. NoToken \notin c.tokens
    BY <1>1 DEF NoToken
  <2>2. ReviewAdmission(c, NoToken) = Thrown(c)
    BY <1>2, <2>1, Zenon DEF ReviewAdmission
  <2>3. Thrown(c).ok = FALSE /\ Thrown(c).cluster = c
    BY DEF Thrown
  <2>4. u = Thrown(c)
    BY <2>2, <2>3, Zenon DEF UpdateNode, Update
  <2>5. RawCordoned(c, n) = c
    BY <2>3, <2>4, Zenon DEF RawCordoned
  <2>6. Progress(c, c)
    BY <1>1 DEF Progress
  <2>7. QED
    BY <1>2, <2>5, <2>6, Zenon
<1>3. CASE ~Mediated
  <2> DEFINE left == Left(NoToken, c.tokens)
             version == c.counter + 1
             node == WithVersion(object, version)
             nodes == [c.nodes EXCEPT ![n] = node]
  <2>1. Passes(NoToken, c.tokens) /\ left = c.tokens
    BY <1>3, Zenon DEF Passes, Left
  <2>2. c = Assembled(c.nodes, c.pods, c.deployments, c.policies, c.pdbs, c.counter,
                      c.tokens, c.issued)
    BY WellFormedIsAssembled, Zenon
  <2>3. node \in Node(version) /\ node.version = version
    <3>1. object \in Node(c.counter)
      BY <1>1 DEF Node
    <3>2. \A m \in Node(c.counter) : WithVersion(m, version) \in Node(version)
                                     /\ WithVersion(m, version).version = version
      BY <1>1 DEF Node, WithVersion
    <3> HIDE DEF object, version
    <3>3. QED
      BY <3>1, <3>2, Zenon
  <2>4. c.nodes[n].version \in Nat
    BY <1>1
  <2> HIDE DEF object, left
  <2>5. UpdateNode(Assembled(c.nodes, c.pods, c.deployments, c.policies, c.pdbs, c.counter,
                             c.tokens, c.issued), n, object, {}, NoToken)
          = Done(Assembled([c.nodes EXCEPT ![n] = WithVersion(object, c.counter + 1)],
                           c.pods, c.deployments, c.policies, c.pdbs, c.counter + 1,
                           Left(NoToken, c.tokens), c.issued))
    <3>1. {} \in SUBSET {c.nodes[n].version}
      OBVIOUS
    <3>2. QED
      BY <2>1, <3>1, NodeUpdate, SMT
  <2> DEFINE d == Assembled(nodes, c.pods, c.deployments, c.policies, c.pdbs, version,
                            c.tokens, c.issued)
  <2>6. u = Done(d)
    BY <2>1, <2>2, <2>5, Zenon DEF left
  <2>7. nodes \in [DOMAIN nodes -> Node(version)] /\ DOMAIN nodes = DOMAIN c.nodes
        /\ nodes[n] = node /\ \A m \in DOMAIN c.nodes : m # n => nodes[m] = c.nodes[m]
    <3> HIDE DEF node, version
    <3>1. c.nodes \in [DOMAIN c.nodes -> Node(version)]
      BY <1>1 DEF version
    <3>2. QED
      BY <2>3, <3>1
  <2> HIDE DEF nodes, node
  <2>8. WellFormed(d)
    BY <1>1, <2>7, AssembledIsWellFormed, SMT
  <2>9. /\ d.nodes = nodes /\ d.pods = c.pods /\ d.deployments = c.deployments
        /\ d.counter = c.counter + 1
    BY SMT DEF Assembled
  <2> HIDE DEF d
  <2>10. \A m \in DOMAIN c.nodes : c.nodes[m].version <= d.nodes[m].version
    <3>1. \A m \in DOMAIN c.nodes : c.nodes[m].version \in 1..c.counter
      BY <1>1 DEF Node
    <3>2. QED
      BY <1>1, <2>3, <2>7, <2>9, <3>1
  <2>11. Progress(c, d)
    BY <1>1, <2>7, <2>8, <2>9, <2>10 DEF Progress
  <2>12. Done(d).cluster = d
    BY DEF Done
  <2>13. QED
    BY <1>3, <2>6, <2>11, <2>12, Zenon DEF RawCordoned, object
<1>4. QED
  BY <1>2, <1>3, Zenon

(* What its own controllers do with the cluster.                           *)
Moved(c, d) ==
  /\ Progress(c, d)
  /\ d.tokens = c.tokens /\ d.issued = c.issued
  /\ d.deployments = c.deployments /\ d.policies = c.policies
  /\ DOMAIN d.nodes = DOMAIN c.nodes
  /\ \A n \in DOMAIN c.nodes : d.nodes[n].schedulable = c.nodes[n].schedulable
  /\ DOMAIN c.pods \subseteq DOMAIN d.pods

LEMMA ClusterMovesForm ==
  ASSUME WellFormed(cluster), ClusterMoves
  PROVE  Moved(cluster, cluster')
<1> DEFINE c == cluster
           d == cluster'
<1>1. /\ c.counter \in Nat \ {0} /\ c.counter + 1 \in Nat \ {0} /\ c.counter <= c.counter + 1
      /\ c.issued \in Nat /\ c.tokens \subseteq 1..c.issued
      /\ c.nodes \in [DOMAIN c.nodes -> Node(c.counter)]
      /\ c.nodes \in [DOMAIN c.nodes -> Node(c.counter + 1)]
      /\ c.pods = [p \in DOMAIN c.pods |-> c.pods[p]] /\ IsFiniteSet(DOMAIN c.pods)
      /\ Versioned(c.deployments, c.counter) /\ Versioned(c.policies, c.counter)
      /\ Versioned(c.deployments, c.counter + 1) /\ Versioned(c.policies, c.counter + 1)
      /\ \A m \in DOMAIN c.nodes : c.nodes[m].version \in Nat
      /\ \A m \in DOMAIN c.deployments : c.deployments[m].version \in Nat
  BY Typed, Zenon
<1>2. c = Assembled(c.nodes, c.pods, c.deployments, c.policies, c.pdbs, c.counter,
                    c.tokens, c.issued)
  BY WellFormedIsAssembled, Zenon
<1>3. ASSUME NEW pdbs, d = [c EXCEPT !.pdbs = pdbs]
      PROVE  Moved(c, d)
  <2>1. d = Assembled(c.nodes, c.pods, c.deployments, c.policies, pdbs, c.counter,
                      c.tokens, c.issued)
    BY <1>2, <1>3, SMT DEF Assembled
  <2>2. WellFormed(d)
    BY <1>1, <2>1, AssembledIsWellFormed, SMT
  <2>3. /\ d.nodes = c.nodes /\ d.pods = c.pods /\ d.deployments = c.deployments
        /\ d.policies = c.policies /\ d.counter = c.counter /\ d.tokens = c.tokens
        /\ d.issued = c.issued
    BY <2>1, SMT DEF Assembled
  <2>4. QED
    BY <1>1, <2>2, <2>3 DEF Progress, Moved
<1>4. ASSUME NEW n \in DOMAIN c.nodes, NEW ready \in BOOLEAN,
             d = [c EXCEPT !.nodes = [c.nodes EXCEPT ![n] = [c.nodes[n] EXCEPT !.ready = ready]]]
      PROVE  Moved(c, d)
  <2> DEFINE node == [c.nodes[n] EXCEPT !.ready = ready]
             nodes == [c.nodes EXCEPT ![n] = node]
  <2>1. node \in Node(c.counter) /\ node.version = c.nodes[n].version
        /\ node.schedulable = c.nodes[n].schedulable
    BY <1>1 DEF Node
  <2> HIDE DEF node
  <2>2. nodes \in [DOMAIN nodes -> Node(c.counter)] /\ DOMAIN nodes = DOMAIN c.nodes
        /\ \A m \in DOMAIN c.nodes : nodes[m].version = c.nodes[m].version
                                     /\ nodes[m].schedulable = c.nodes[m].schedulable
    BY <1>1, <2>1
  <2>3. d = [c EXCEPT !.nodes = nodes]
    BY <1>4, Zenon DEF node
  <2> HIDE DEF nodes
  <2>4. d = Assembled(nodes, c.pods, c.deployments, c.policies, c.pdbs, c.counter,
                      c.tokens, c.issued)
    BY <1>2, <2>3, SMT DEF Assembled
  <2>5. WellFormed(d)
    BY <1>1, <2>2, <2>4, AssembledIsWellFormed, SMT
  <2>6. /\ d.nodes = nodes /\ d.pods = c.pods /\ d.deployments = c.deployments
        /\ d.policies = c.policies /\ d.counter = c.counter /\ d.tokens = c.tokens
        /\ d.issued = c.issued
    BY <2>4, SMT DEF Assembled
  <2>7. QED
    BY <1>1, <2>2, <2>5, <2>6 DEF Progress, Moved
<1>5. ASSUME NEW name, NEW pod, name \notin DOMAIN c.pods, d = AddPod(c, name, pod)
      PROVE  Moved(c, d)
  <2> DEFINE pods == Put(c.pods, name, pod)
             version == c.counter + 1
             next == Assembled(c.nodes, c.pods, c.deployments, c.policies, c.pdbs, version,
                               c.tokens, c.issued)
  <2>1. DOMAIN pods = DOMAIN c.pods \cup {name}
        /\ pods = [p \in DOMAIN pods |-> pods[p]]
        /\ \A p \in DOMAIN c.pods : pods[p] = c.pods[p]
    BY <1>5 DEF Put
  <2> HIDE DEF pods
  <2>2. IsFiniteSet(DOMAIN pods)
    BY <1>1, <2>1, FS_AddElement
  <2>3. NextResourceVersion(c) = next
    <3> HIDE DEF version
    <3>1. NextResourceVersion(c) = [c EXCEPT !.counter = version]
      BY Zenon DEF NextResourceVersion, version
    <3>2. QED
      BY <1>2, <3>1, SMT DEF Assembled
  <2>4. [next EXCEPT !.pods = pods]
          = Assembled(c.nodes, pods, c.deployments, c.policies, c.pdbs, version,
                      c.tokens, c.issued)
    BY SMT DEF Assembled
  <2>5. d = Assembled(c.nodes, pods, c.deployments, c.policies, c.pdbs, version,
                      c.tokens, c.issued)
    BY <1>5, <2>3, <2>4, Zenon DEF AddPod, pods
  <2>6. WellFormed(d)
    BY <1>1, <2>1, <2>2, <2>5, AssembledIsWellFormed, SMT
  <2>7. /\ d.nodes = c.nodes /\ d.pods = pods /\ d.deployments = c.deployments
        /\ d.policies = c.policies /\ d.counter = c.counter + 1 /\ d.tokens = c.tokens
        /\ d.issued = c.issued
    BY <2>5, SMT DEF Assembled
  <2>8. QED
    BY <1>1, <2>1, <2>6, <2>7 DEF Progress, Moved
<1>6. CASE \E b \in DOMAIN c.pdbs : \E allowed \in 0..1 : d = [c EXCEPT !.pdbs[b].allowed = allowed]
  <2>1. PICK b \in DOMAIN c.pdbs : \E allowed \in 0..1 : d = [c EXCEPT !.pdbs[b].allowed = allowed]
    BY <1>6
  <2>2. PICK allowed \in 0..1 : d = [c EXCEPT !.pdbs[b].allowed = allowed]
    BY <2>1
  <2>3. \E pdbs : d = [c EXCEPT !.pdbs = pdbs]
    BY <2>2, Zenon
  <2>4. QED
    BY <1>3, <2>3, Zenon
<1>7. CASE \E n \in DOMAIN c.nodes : d = [c EXCEPT !.nodes[n].ready = ~c.nodes[n].ready]
  <2>1. PICK n \in DOMAIN c.nodes : d = [c EXCEPT !.nodes[n].ready = ~c.nodes[n].ready]
    BY <1>7
  <2>2. (~c.nodes[n].ready) \in BOOLEAN
    BY Zenon
  <2>3. QED
    BY <1>4, <2>1, <2>2, Zenon
<1>8. CASE \E p \in DOMAIN NewPods : p \notin DOMAIN c.pods /\ d = AddPod(c, p, NewPods[p])
  BY <1>5, <1>8, Zenon
<1>9. QED
  BY <1>6, <1>7, <1>8, Zenon DEF ClusterMoves

------------------------------------------------------------------------------
(* The inductive invariant.                                                *)

(* What a receipt says of a node is true of a cluster that stands at its   *)
(* version.                                                                *)
TellsTruth(r, c) ==
  /\ r.version \in Nat /\ r.version <= c.counter
  /\ r.version = c.counter /\ "podsOnNode" \in DOMAIN r.claim =>
       /\ r.claim.node \in DOMAIN c.nodes
       /\ r.claim.schedulable = c.nodes[r.claim.node].schedulable
       /\ r.claim.podsOnNode \subseteq PodsOn(c, r.claim.node)

(* The object a carried-out proposal names has moved past every version    *)
(* the proposal could have expected.                                       *)
MovedPast(objects, name, expected) ==
  name \in DOMAIN objects /\ \A v \in expected : v \in Nat /\ v < objects[name].version

Overtaken(p, c) ==
  /\ p.action = "DrainNode" =>
       MovedPast(c.nodes, p.params.nodeName, ExpectedVersion(p.params))
  /\ p.action = "RolloutDeployment" =>
       MovedPast(c.deployments, p.params.deploymentName, ExpectedVersion(p.params))

CarriedOut(a) == ~dryRun /\ outcome[a] = "SUCCESS"

ReceiptsTellTruth == \A a \in Agents : \A r \in pool[a] : TellsTruth(r, cluster)
ObjectsMovedPast == \A a \in Agents : CarriedOut(a) => Overtaken(proposal[a], cluster)

KubernetesInv ==
  /\ TypeOK
  /\ pool = [a \in Agents |-> pool[a]]
  /\ ReceiptsTellTruth
  /\ ObjectsMovedPast
  /\ VersionedUpdatesSerialise

(* The truth of a receipt survives whatever moves the cluster on.          *)
LEMMA TruthKept ==
  ASSUME NEW c, WellFormed(c), NEW d, Progress(c, d), NEW r, TellsTruth(r, c)
  PROVE  TellsTruth(r, d)
<1>1. c.counter \in Nat /\ d.counter \in Nat /\ c.counter <= d.counter
  BY DEF Progress, WellFormed
<1>2. CASE c.counter = d.counter
  <2>1. \A n : PodsOn(c, n) \subseteq PodsOn(d, n)
    BY <1>2 DEF PodsOn, Progress
  <2>2. QED
    BY <1>2, <2>1 DEF TellsTruth, Progress
<1>3. CASE c.counter < d.counter
  BY <1>1, <1>3 DEF TellsTruth
<1>4. QED
  BY <1>1, <1>2, <1>3

(* An overtaken proposal stays overtaken.                                  *)
LEMMA OvertakenStays ==
  ASSUME NEW c, WellFormed(c), NEW d, Progress(c, d), NEW p, Overtaken(p, c)
  PROVE  Overtaken(p, d)
<1>1. /\ \A n \in DOMAIN c.nodes : c.nodes[n].version \in Nat
      /\ \A n \in DOMAIN c.deployments : c.deployments[n].version \in Nat
  BY Typed, Zenon
<1>2. WellFormed(d)
  BY DEF Progress
<1>3. /\ \A n \in DOMAIN d.nodes : d.nodes[n].version \in Nat
      /\ \A n \in DOMAIN d.deployments : d.deployments[n].version \in Nat
  BY <1>2, Typed, Zenon
<1>4. QED
  BY <1>1, <1>3 DEF Progress, Overtaken, MovedPast

(* Where two who expect the same version of an object both went through,   *)
(* the second found the object as the first had left it.                   *)
LEMMA NothingExpected ==
  ASSUME NEW objects, NEW name, NEW expected, MovedPast(objects, name, expected),
         expected \subseteq {objects[name].version}, objects[name].version \in Nat
  PROVE  expected = {}
BY DEF MovedPast

(* A drain overtakes itself, and can only follow one that expects nothing. *)
LEMMA DrainOvertakes ==
  ASSUME NEW c, WellFormed(c), NEW d, NEW p, p.action = "DrainNode", Drained(c, d, p.params)
  PROVE  /\ Overtaken(p, d)
         /\ Overtaken(p, c) => ExpectedVersion(p.params) = {}
<1> DEFINE name == p.params.nodeName
           expected == ExpectedVersion(p.params)
           gone == PodsOn(c, name)
           n == Cardinality(gone)
<1>1. name \in DOMAIN c.nodes /\ expected \subseteq {c.nodes[name].version}
  BY Zenon DEF Drained
<1>2. name = p.params.nodeName /\ gone = PodsOn(c, name) /\ n = Cardinality(gone)
  OBVIOUS
<1> HIDE DEF name, gone, n, expected
<1>3. DOMAIN d.nodes = DOMAIN c.nodes /\ d.nodes[name].version = c.counter + 1
  BY <1>2, DrainedFields, SMT
<1>4. c.counter \in Nat /\ c.nodes[name].version \in 1..c.counter
  <2>1. c.counter \in Nat /\ c.nodes \in [DOMAIN c.nodes -> Node(c.counter)]
    BY Typed, Zenon
  <2>2. QED
    BY <1>1, <2>1 DEF Node
<1>5. MovedPast(d.nodes, name, expected)
  BY <1>1, <1>3, <1>4 DEF MovedPast
<1>6. MovedPast(c.nodes, name, expected) => expected = {}
  <2>1. c.nodes[name].version \in Nat
    BY <1>4
  <2>2. QED
    BY <1>1, <2>1, NothingExpected
<1>7. p.action # "RolloutDeployment"
  OBVIOUS
<1>8. QED
  BY <1>5, <1>6, <1>7, Zenon DEF Overtaken, name, expected

LEMMA RolloutOvertakes ==
  ASSUME NEW c, WellFormed(c), NEW d, NEW p, p.action = "RolloutDeployment",
         Rolled(c, d, p.params)
  PROVE  /\ Overtaken(p, d)
         /\ Overtaken(p, c) => ExpectedVersion(p.params) = {}
<1> DEFINE name == p.params.deploymentName
           expected == ExpectedVersion(p.params)
<1>1. name \in DOMAIN c.deployments /\ expected \subseteq {c.deployments[name].version}
  BY Zenon DEF Rolled
<1>2. DOMAIN d.deployments = DOMAIN c.deployments
      /\ d.deployments[name].version = c.counter + 1
  <2>1. Progress(c, d) /\ d.deployments[p.params.deploymentName].version = c.counter + 1
    BY RolledProgress, Zenon
  <2>2. QED
    BY <2>1 DEF Progress
<1> HIDE DEF name, expected
<1>3. c.counter \in Nat /\ c.deployments[name].version \in 1..c.counter
  <2>1. c.counter \in Nat /\ Versioned(c.deployments, c.counter)
    BY Typed, Zenon
  <2>2. QED
    BY <1>1, <2>1 DEF Versioned
<1>4. MovedPast(d.deployments, name, expected)
  BY <1>1, <1>2, <1>3 DEF MovedPast
<1>5. MovedPast(c.deployments, name, expected) => expected = {}
  <2>1. c.deployments[name].version \in Nat
    BY <1>3
  <2>2. QED
    BY <1>1, <2>1, NothingExpected
<1>6. p.action # "DrainNode"
  OBVIOUS
<1>7. QED
  BY <1>4, <1>5, <1>6, Zenon DEF Overtaken, name, expected

------------------------------------------------------------------------------
(* The steps.                                                              *)

LEMMA StandsStill ==
  ASSUME NEW c, WellFormed(c)
  PROVE  Progress(c, c)
<1>1. /\ c.counter \in Nat
      /\ \A n \in DOMAIN c.nodes : c.nodes[n].version \in Nat
      /\ \A n \in DOMAIN c.deployments : c.deployments[n].version \in Nat
  BY Typed, Zenon
<1>2. QED
  BY <1>1 DEF Progress

(* A step that only moves the cluster on.                                  *)
LEMMA ClusterProgressKept ==
  ASSUME KubernetesInv, TypeOK', Progress(cluster, cluster'),
         UNCHANGED <<dryRun, proposal, pool, outcome>>
  PROVE  KubernetesInv'
<1>1. WellFormed(cluster)
  BY DEF KubernetesInv, TypeOK
<1>2. (pool = [a \in Agents |-> pool[a]])'
  BY DEF KubernetesInv
<1>3. ReceiptsTellTruth'
  BY <1>1, TruthKept DEF KubernetesInv, ReceiptsTellTruth
<1>4. ObjectsMovedPast'
  BY <1>1, OvertakenStays DEF KubernetesInv, ObjectsMovedPast, CarriedOut
<1>5. VersionedUpdatesSerialise'
  BY DEF KubernetesInv, VersionedUpdatesSerialise
<1>6. QED
  BY <1>2, <1>3, <1>4, <1>5 DEF KubernetesInv

(* A step that only adds receipts that are true now.                       *)
LEMMA TrueReceiptsKept ==
  ASSUME KubernetesInv, TypeOK', UNCHANGED <<cluster, dryRun, proposal, outcome>>,
         NEW a \in Agents, NEW more, pool' = [pool EXCEPT ![a] = @ \cup more],
         \A r \in more : TellsTruth(r, cluster)
  PROVE  KubernetesInv'
<1>1. (pool = [b \in Agents |-> pool[b]])'
  BY DEF KubernetesInv
<1>2. \A b \in Agents : \A r \in pool'[b] : r \in pool[b] \/ r \in more
  BY DEF KubernetesInv
<1>3. ReceiptsTellTruth'
  BY <1>2 DEF KubernetesInv, ReceiptsTellTruth
<1>4. ObjectsMovedPast'
  BY DEF KubernetesInv, ObjectsMovedPast, CarriedOut
<1>5. VersionedUpdatesSerialise'
  BY DEF KubernetesInv, VersionedUpdatesSerialise
<1>6. QED
  BY <1>1, <1>3, <1>4, <1>5 DEF KubernetesInv

LEMMA KubernetesInvInit == Init => KubernetesInv
<1> SUFFICES ASSUME Init PROVE KubernetesInv
  OBVIOUS
<1>1. WellFormed(cluster)
  BY KubernetesLoopAssumption DEF Init
<1>2. TypeOK
  BY <1>1, KubernetesLoopAssumption DEF Init, TypeOK
<1>3. pool = [a \in Agents |-> pool[a]] /\ \A a \in Agents : pool[a] = {}
  BY DEF Init
<1>4. \A a \in Agents : outcome[a] = "NONE"
  BY DEF Init
<1>5. QED
  BY <1>2, <1>3, <1>4
     DEF KubernetesInv, ReceiptsTellTruth, ObjectsMovedPast, CarriedOut,
         VersionedUpdatesSerialise

(* The receipts of an inspection are stamped with the counter of a cluster *)
(* they describe.                                                          *)
LEMMA InspectionTellsTruth ==
  ASSUME WellFormed(cluster), NEW a, NEW rule, NEW class, NEW principal,
         NEW claim \in Claims(rule)
  PROVE  TellsTruth(Receipt(a, rule, class, principal, claim), cluster)
<1> DEFINE r == Receipt(a, rule, class, principal, claim)
<1>1. r.version = cluster.counter /\ r.claim = claim
  BY DEF Receipt
<1>2. cluster.counter \in Nat
  BY DEF WellFormed
<1> HIDE DEF r
<1>3. CASE \E n \in DOMAIN cluster.nodes : claim = NodeClaim(cluster, n)
  <2>1. PICK n \in DOMAIN cluster.nodes : claim = NodeClaim(cluster, n)
    BY <1>3
  <2>2. /\ claim.node = n /\ claim.schedulable = (TRUE /\ cluster.nodes[n].schedulable)
        /\ claim.podsOnNode = PodsOn(cluster, n)
    BY <2>1 DEF NodeClaim, PodsOn
  <2>3. cluster.nodes[n].schedulable \in BOOLEAN
    BY <1>2 DEF WellFormed
  <2>4. QED
    BY <1>1, <1>2, <2>2, <2>3 DEF TellsTruth, r
<1>4. CASE "podsOnNode" \notin DOMAIN claim
  BY <1>1, <1>2, <1>4 DEF TellsTruth, r
<1>5. \/ \E n \in DOMAIN cluster.nodes : claim = NodeClaim(cluster, n)
      \/ \E x : claim = PDBClaim(cluster, x)
      \/ \E x : claim = DeploymentClaim(cluster, x)
      \/ \E x : claim = NetworkPolicyClaim(cluster, x)
  BY DEF Claims
<1>6. /\ \A x : "podsOnNode" \notin DOMAIN PDBClaim(cluster, x)
      /\ \A x : "podsOnNode" \notin DOMAIN DeploymentClaim(cluster, x)
      /\ \A x : "podsOnNode" \notin DOMAIN NetworkPolicyClaim(cluster, x)
  BY DEF PDBClaim, DeploymentClaim, NetworkPolicyClaim
<1>7. QED
  BY <1>3, <1>4, <1>5, <1>6, Zenon

LEMMA TypeStep == TypeOK /\ [Next]_vars => TypeOK'
<1> SUFFICES ASSUME TypeOK, [Next]_vars PROVE TypeOK'
  OBVIOUS
<1>1. WellFormed(cluster)
  BY DEF TypeOK
<1>2. CASE UNCHANGED vars
  BY <1>2 DEF TypeOK, vars
<1>3. ASSUME NEW a \in Agents, Inspect(a) \/ Approve(a) \/ Evaluate(a) \/ Present(a)
      PROVE  TypeOK'
  BY <1>3 DEF TypeOK, Inspect, Approve, Evaluate, Present
<1>4. ASSUME NEW a \in Agents, Dispatch(a)
      PROVE  TypeOK'
  <2> DEFINE result == Execute(cluster, proposal[a].action, proposal[a].params, dryRun)
  <2>1. dryRun \in BOOLEAN
    BY DEF TypeOK
  <2>2. Progress(cluster, result.cluster)
    BY <1>1, <2>1, ExecuteProgress, Zenon
  <2>3. Executed(cluster, proposal[a].action, proposal[a].params, dryRun, result)
    BY <1>1, <2>1, ExecuteForm, Zenon
  <2> HIDE DEF result
  <2>7. result.outcome \in {"SUCCESS", "FAILED"}
    BY <2>3 DEF Executed
  <2>4. /\ cluster' = result.cluster /\ outcome' = [outcome EXCEPT ![a] = result.outcome]
        /\ phase[a] = "execute" /\ phase' = [phase EXCEPT ![a] = "done"]
        /\ UNCHANGED <<now, moves, dryRun>>
    BY <1>4, Zenon DEF Dispatch, result
  <2>5. WellFormed(cluster')
    BY <2>2, <2>4, Zenon DEF Progress
  <2>6. QED
    BY <2>4, <2>5, <2>7 DEF TypeOK
<1>5. CASE RawUpdate
  <2>1. PICK n \in DOMAIN cluster.nodes : cluster' = RawCordoned(cluster, n)
    BY <1>5, Zenon DEF RawUpdate, RawCordoned
  <2>2. WellFormed(cluster')
    BY <1>1, <2>1, RawProgress, Zenon DEF Progress
  <2>3. QED
    BY <1>5, <2>2 DEF TypeOK, RawUpdate
<1>6. CASE ClusterMoves
  <2>1. WellFormed(cluster')
    BY <1>1, <1>6, ClusterMovesForm, Zenon DEF Moved, Progress
  <2>2. QED
    BY <1>6, <2>1, KubernetesLoopAssumption DEF TypeOK, ClusterMoves
<1>7. CASE Tick
  BY <1>7, KubernetesLoopAssumption DEF TypeOK, Tick
<1>8. QED
  BY <1>2, <1>3, <1>4, <1>5, <1>6, <1>7 DEF Next

(* The step in which the versions are compared.                            *)
LEMMA DispatchKept ==
  ASSUME KubernetesInv, TypeOK', NEW a \in Agents, Dispatch(a)
  PROVE  KubernetesInv'
<1> DEFINE p == proposal[a]
           result == Execute(cluster, p.action, p.params, dryRun)
<1>1. WellFormed(cluster) /\ dryRun \in BOOLEAN
  BY DEF KubernetesInv, TypeOK
<1>2. Progress(cluster, result.cluster)
  BY <1>1, ExecuteProgress, Zenon
<1>0. Executed(cluster, p.action, p.params, dryRun, result)
  BY <1>1, ExecuteForm, Zenon
<1> HIDE DEF result, p
<1>3. ~dryRun /\ result.outcome = "SUCCESS" =>
        \/ p.action = "DrainNode" /\ Drained(cluster, result.cluster, p.params)
        \/ p.action = "RolloutDeployment" /\ Rolled(cluster, result.cluster, p.params)
        \/ p.action = "ApplyNetworkPolicy"
  BY <1>0 DEF Executed
<1>4. /\ cluster' = result.cluster /\ outcome' = [outcome EXCEPT ![a] = result.outcome]
      /\ UNCHANGED <<dryRun, proposal, pool>>
  BY Zenon DEF Dispatch, result, p
<1>5. ~dryRun /\ result.outcome = "SUCCESS" =>
        /\ Overtaken(p, cluster')
        /\ p.action \in {"DrainNode", "RolloutDeployment"} /\ Overtaken(p, cluster)
             => ExpectedVersion(p.params) = {}
  <2>1. CASE p.action = "DrainNode"
    BY <1>1, <1>3, <1>4, <2>1, DrainOvertakes, Zenon
  <2>2. CASE p.action = "RolloutDeployment"
    BY <1>1, <1>3, <1>4, <2>2, RolloutOvertakes, Zenon
  <2>3. CASE p.action \notin {"DrainNode", "RolloutDeployment"}
    BY <2>3 DEF Overtaken
  <2>4. QED
    BY <2>1, <2>2, <2>3
<1>6. /\ outcome \in [Agents -> {"NONE", "SUCCESS", "FAILED"}]
      /\ outcome'[a] = result.outcome
      /\ \A b \in Agents : b # a => outcome'[b] = outcome[b]
  BY <1>4 DEF KubernetesInv, TypeOK
<1>7. \A b \in Agents : CarriedOut(b)' => b = a \/ CarriedOut(b)
  BY <1>4, <1>6 DEF CarriedOut
<1>8. CarriedOut(a)' => ~dryRun /\ result.outcome = "SUCCESS"
  BY <1>4, <1>6 DEF CarriedOut
<1>9. (pool = [b \in Agents |-> pool[b]])'
  BY <1>4 DEF KubernetesInv
<1>10. ReceiptsTellTruth'
  BY <1>1, <1>2, <1>4, TruthKept DEF KubernetesInv, ReceiptsTellTruth
<1>11. ObjectsMovedPast'
  <2>1. ASSUME NEW b \in Agents, CarriedOut(b)'
        PROVE  Overtaken(proposal[b], cluster')
    <3>1. CASE b = a
      BY <1>5, <1>8, <2>1, <3>1 DEF p
    <3>2. CASE b # a
      <4>1. Overtaken(proposal[b], cluster)
        BY <1>7, <2>1, <3>2 DEF KubernetesInv, ObjectsMovedPast
      <4>2. QED
        BY <1>1, <1>2, <1>4, <4>1, OvertakenStays
    <3>3. QED
      BY <3>1, <3>2
  <2>2. QED
    BY <1>4, <2>1 DEF ObjectsMovedPast
<1>12. VersionedUpdatesSerialise'
  <2>1. ASSUME NEW b \in Agents, b # a, CarriedOut(a)', CarriedOut(b)',
               proposal[a].action = proposal[b].action,
               proposal[a].action \in {"DrainNode", "RolloutDeployment"},
               proposal[a].params = proposal[b].params
        PROVE  ExpectedVersion(proposal[a].params) = {}
    <3>1. Overtaken(proposal[b], cluster)
      BY <1>7, <2>1 DEF KubernetesInv, ObjectsMovedPast
    <3>2. Overtaken(p, cluster)
      BY <2>1, <3>1 DEF Overtaken, p
    <3>3. QED
      BY <1>5, <1>8, <2>1, <3>2 DEF p
  <2>2. ASSUME NEW x \in Agents, NEW y \in Agents, x # y, CarriedOut(x)', CarriedOut(y)',
               proposal[x].action = proposal[y].action,
               proposal[x].action \in {"DrainNode", "RolloutDeployment"},
               proposal[x].params = proposal[y].params
        PROVE  ExpectedVersion(proposal[x].params) = {}
    <3>1. CASE x = a
      BY <2>1, <2>2, <3>1, Zenon
    <3>2. CASE y = a
      <4>1. ExpectedVersion(proposal[a].params) = {}
        BY <2>1, <2>2, <3>2
      <4>2. QED
        BY <2>2, <3>2, <4>1, Zenon
    <3>3. CASE x # a /\ y # a
      <4>1. CarriedOut(x) /\ CarriedOut(y)
        BY <1>7, <2>2, <3>3
      <4>2. QED
        BY <2>2, <4>1 DEF KubernetesInv, VersionedUpdatesSerialise, CarriedOut
    <3>4. QED
      BY <3>1, <3>2, <3>3
  <2>3. QED
    BY <1>4, <2>2 DEF VersionedUpdatesSerialise, CarriedOut
<1>13. QED
  BY <1>9, <1>10, <1>11, <1>12 DEF KubernetesInv

LEMMA KubernetesInvStep == KubernetesInv /\ [Next]_vars => KubernetesInv'
<1> SUFFICES ASSUME KubernetesInv, [Next]_vars PROVE KubernetesInv'
  OBVIOUS
<1>1. TypeOK'
  BY TypeStep DEF KubernetesInv
<1>2. WellFormed(cluster)
  BY DEF KubernetesInv, TypeOK
<1>3. CASE UNCHANGED <<cluster, dryRun, proposal, pool, outcome>>
  <2>1. Progress(cluster, cluster')
    BY <1>2, <1>3, StandsStill
  <2>2. QED
    BY <1>1, <1>3, <2>1, ClusterProgressKept
<1>4. ASSUME NEW a \in Agents, Inspect(a)
      PROVE  KubernetesInv'
  <2>1. PICK rule \in unseen[a] : \E claim \in Claims(rule) :
          pool' = [pool EXCEPT ![a] = @ \cup
            {Receipt(a, rule, "KUBERNETES_OBSERVATION", "cac.k8s.observer", claim)}]
    BY <1>4 DEF Inspect
  <2>2. PICK claim \in Claims(rule) :
          pool' = [pool EXCEPT ![a] = @ \cup
            {Receipt(a, rule, "KUBERNETES_OBSERVATION", "cac.k8s.observer", claim)}]
    BY <2>1
  <2> DEFINE r == Receipt(a, rule, "KUBERNETES_OBSERVATION", "cac.k8s.observer", claim)
             more == {r}
  <2>3. TellsTruth(r, cluster)
    BY <1>2, InspectionTellsTruth, Zenon
  <2>4. UNCHANGED <<cluster, dryRun, proposal, outcome>>
    BY <1>4 DEF Inspect
  <2>5. pool' = [pool EXCEPT ![a] = @ \cup more]
    BY <2>2
  <2> HIDE DEF r
  <2>6. \A x \in more : TellsTruth(x, cluster)
    BY <2>3
  <2> HIDE DEF more
  <2>7. QED
    BY <1>1, <2>4, <2>5, <2>6, TrueReceiptsKept
<1>5. ASSUME NEW a \in Agents, Approve(a)
      PROVE  KubernetesInv'
  <2> DEFINE Approval(x) == Receipt(a, "approval", "DUAL_SIGNATURE_RECEIPT", x,
                                    [human_sre_dual_authorization |-> TRUE])
             more == {Approval(x) : x \in {"sre1", "sre2"}}
  <2>1. \A x : Approval(x).version = cluster.counter
               /\ "podsOnNode" \notin DOMAIN Approval(x).claim
    BY DEF Receipt
  <2>2. UNCHANGED <<cluster, dryRun, proposal, outcome>>
        /\ pool' = [pool EXCEPT ![a] = @ \cup more]
    BY <1>5 DEF Approve
  <2>3. cluster.counter \in Nat
    BY <1>2 DEF WellFormed
  <2> HIDE DEF Approval
  <2>4. \A r \in more : TellsTruth(r, cluster)
    BY <2>1, <2>3 DEF TellsTruth
  <2> HIDE DEF more
  <2>5. QED
    BY <1>1, <2>2, <2>4, TrueReceiptsKept
<1>6. CASE RawUpdate
  <2>1. PICK n \in DOMAIN cluster.nodes : cluster' = RawCordoned(cluster, n)
    BY <1>6, Zenon DEF RawUpdate, RawCordoned
  <2>2. Progress(cluster, cluster')
    BY <1>2, <2>1, RawProgress, Zenon
  <2>3. QED
    BY <1>1, <1>6, <2>2, ClusterProgressKept DEF RawUpdate
<1>7. CASE ClusterMoves
  <2>1. Progress(cluster, cluster')
    BY <1>2, <1>7, ClusterMovesForm, Zenon DEF Moved
  <2>2. QED
    BY <1>1, <1>7, <2>1, ClusterProgressKept DEF ClusterMoves
<1>8. ASSUME NEW a \in Agents, Evaluate(a) \/ Present(a)
      PROVE  UNCHANGED <<cluster, dryRun, proposal, pool, outcome>>
  BY <1>8 DEF Evaluate, Present
<1>9. Tick \/ UNCHANGED vars => UNCHANGED <<cluster, dryRun, proposal, pool, outcome>>
  BY DEF Tick, vars
<1>10. QED
  BY <1>1, <1>3, <1>4, <1>5, <1>6, <1>7, <1>8, <1>9, DispatchKept DEF Next

------------------------------------------------------------------------------
(* The cluster stays one of the interfaces of types.ts, every token of     *)
(* which was issued and no version of which is ahead of the counter.       *)
THEOREM KubernetesTyped == Spec => []TypeOK
<1>1. KubernetesInv => TypeOK
  BY DEF KubernetesInv
<1>2. QED
  BY <1>1, KubernetesInvInit, KubernetesInvStep, PTL DEF Spec

(* Of two proposals that name the same version of one object at most one   *)
(* is carried out: what was carried out has moved its object past every    *)
(* version it could have expected, and nothing moves an object back.       *)
THEOREM VersionsSerialise == Spec => []VersionedUpdatesSerialise
<1>1. KubernetesInv => VersionedUpdatesSerialise
  BY DEF KubernetesInv
<1>2. QED
  BY <1>1, KubernetesInvInit, KubernetesInvStep, PTL DEF Spec

(* A receipt of the current version tells the truth: no step cordons or    *)
(* evicts without moving the counter, whoever takes it.                    *)
THEOREM ReceiptsOfTheMomentAreTrue == Spec => []CurrentVersionIsTrue
<1>1. KubernetesInv => CurrentVersionIsTrue
  BY DEF KubernetesInv, ReceiptsTellTruth, TellsTruth, CurrentVersionIsTrue
<1>2. QED
  BY <1>1, KubernetesInvInit, KubernetesInvStep, PTL DEF Spec

------------------------------------------------------------------------------
(* What one step may do.                                                   *)

(* The adapter's answer is what the step makes of the cluster.             *)
LEMMA DispatchExecutes ==
  ASSUME TypeOK, NEW a \in Agents, Dispatch(a)
  PROVE  \E r : /\ Executed(cluster, proposal[a].action, proposal[a].params, dryRun, r)
                /\ cluster' = r.cluster /\ outcome'[a] = r.outcome
<1> DEFINE r == Execute(cluster, proposal[a].action, proposal[a].params, dryRun)
<1>1. WellFormed(cluster) /\ dryRun \in BOOLEAN
  BY DEF TypeOK
<1>2. Executed(cluster, proposal[a].action, proposal[a].params, dryRun, r)
  BY <1>1, ExecuteForm, Zenon
<1>3. cluster' = r.cluster /\ outcome' = [outcome EXCEPT ![a] = r.outcome]
  BY Zenon DEF Dispatch
<1> HIDE DEF r
<1>4. outcome'[a] = r.outcome
  BY <1>3 DEF TypeOK
<1>5. QED
  BY <1>2, <1>3, <1>4

(* Only a dispatch ends the execution of an agent.                         *)
LEMMA DoneByDispatch ==
  ASSUME TypeOK, [Next]_vars, NEW a \in Agents, phase[a] = "execute", phase'[a] = "done"
  PROVE  Dispatch(a)
<1>1. ASSUME NEW b \in Agents, Evaluate(b) \/ Present(b)
      PROVE  FALSE
  <2>1. phase[b] # "execute"
    BY <1>1 DEF Evaluate, Present
  <2>2. \E v \in {"present", "closed", "execute", "blocked"} : phase' = [phase EXCEPT ![b] = v]
    BY <1>1 DEF Evaluate, Present
  <2>3. QED
    BY <2>1, <2>2 DEF TypeOK
<1>2. ASSUME NEW b \in Agents, Dispatch(b)
      PROVE  b = a
  BY <1>2 DEF Dispatch, TypeOK
<1>3. phase' # phase
  OBVIOUS
<1>4. QED
  BY <1>1, <1>2, <1>3 DEF Next, vars, Inspect, Approve, RawUpdate, ClusterMoves, Tick

(* DrainIsAtomic, of one agent.                                            *)
DrainStep(a) ==
  proposal[a].action = "DrainNode" /\ phase[a] = "execute" /\ phase'[a] = "done" =>
    IF outcome'[a] = "FAILED" \/ dryRun
      THEN cluster'.nodes = cluster.nodes /\ cluster'.pods = cluster.pods
      ELSE LET name == proposal[a].params.nodeName IN
             /\ PodsOn(cluster', name) = {}
             /\ ~cluster'.nodes[name].schedulable
             /\ \A p \in DOMAIN cluster.pods \ DOMAIN cluster'.pods :
                  \A b \in DOMAIN cluster.pdbs :
                    Selects(cluster.pdbs[b], cluster.pods[p]) => cluster.pdbs[b].allowed > 0

(* A drain that is carried out is carried out whole.                       *)
LEMMA DrainedWhole ==
  ASSUME NEW c, WellFormed(c), NEW d, NEW params, Drained(c, d, params)
  PROVE  /\ PodsOn(d, params.nodeName) = {}
         /\ ~d.nodes[params.nodeName].schedulable
         /\ \A p \in DOMAIN c.pods \ DOMAIN d.pods :
              \A b \in DOMAIN c.pdbs : Selects(c.pdbs[b], c.pods[p]) => c.pdbs[b].allowed > 0
<1> DEFINE name == params.nodeName
           gone == PodsOn(c, name)
           n == Cardinality(gone)
<1>1. BudgetsAllow(c, name)
  BY Zenon DEF Drained
<1>2. name = params.nodeName /\ gone = PodsOn(c, name) /\ n = Cardinality(gone)
  OBVIOUS
<1> HIDE DEF name, gone, n
<1>3. /\ ~d.nodes[name].schedulable
      /\ DOMAIN d.pods = DOMAIN c.pods \ gone
      /\ \A p \in DOMAIN d.pods : d.pods[p] = c.pods[p]
  BY <1>2, DrainedFields, SMT
<1>4. PodsOn(d, name) = {}
  BY <1>2, <1>3 DEF PodsOn
<1>5. DOMAIN c.pods \ DOMAIN d.pods \subseteq PodsOn(c, name)
  BY <1>2, <1>3
<1>6. \A p \in DOMAIN c.pods \ DOMAIN d.pods :
        \A b \in DOMAIN c.pdbs : Selects(c.pdbs[b], c.pods[p]) => c.pdbs[b].allowed > 0
  BY <1>1, <1>5, Zenon DEF BudgetsAllow
<1>7. QED
  BY <1>3, <1>4, <1>6, Zenon DEF name

(* A refusal, field by field.                                              *)
LEMMA RefusedFields ==
  ASSUME NEW c, NEW d, Refused(c, d)
  PROVE  /\ d.nodes = c.nodes /\ d.pods = c.pods /\ d.deployments = c.deployments
         /\ d.policies = c.policies /\ d.issued = c.issued + 1
         /\ d.tokens \in {c.tokens, c.tokens \cup {c.issued + 1}}
<1>1. PICK tokens \in {c.tokens, c.tokens \cup {c.issued + 1}} :
        d = Assembled(c.nodes, c.pods, c.deployments, c.policies, c.pdbs, c.counter,
                      tokens, c.issued + 1)
  BY DEF Refused
<1>2. /\ d.nodes = c.nodes /\ d.pods = c.pods /\ d.deployments = c.deployments
      /\ d.policies = c.policies /\ d.issued = c.issued + 1 /\ d.tokens = tokens
  BY <1>1, SMT DEF Assembled
<1>3. QED
  BY <1>2

(* A drain is all or nothing, in whatever state of the other agents and of *)
(* the cluster it comes: with the checks of the budgets before the cordon, *)
(* nothing that can refuse stands after it.                                *)
THEOREM DrainsAreAtomic == Spec => DrainIsAtomic
<1>1. TypeOK /\ [Next]_vars => \A a \in Agents : DrainStep(a)
  <2> SUFFICES ASSUME TypeOK, [Next]_vars, NEW a \in Agents, proposal[a].action = "DrainNode",
                      phase[a] = "execute", phase'[a] = "done"
               PROVE  DrainStep(a)
    BY DEF DrainStep
  <2>1. WellFormed(cluster) /\ Dispatch(a)
    BY DoneByDispatch DEF TypeOK
  <2>2. PICK r : /\ Executed(cluster, proposal[a].action, proposal[a].params, dryRun, r)
                 /\ cluster' = r.cluster /\ outcome'[a] = r.outcome
    BY <2>1, DispatchExecutes
  <2>3. CASE Refused(cluster, cluster') /\ (outcome'[a] = "FAILED" \/ dryRun)
    <3>1. cluster'.nodes = cluster.nodes /\ cluster'.pods = cluster.pods
      BY <2>3, RefusedFields, Zenon
    <3>2. QED
      BY <2>3, <3>1 DEF DrainStep
  <2>4. CASE Drained(cluster, cluster', proposal[a].params)
             /\ outcome'[a] = "SUCCESS" /\ ~dryRun
    <3>1. /\ PodsOn(cluster', proposal[a].params.nodeName) = {}
          /\ ~cluster'.nodes[proposal[a].params.nodeName].schedulable
          /\ \A p \in DOMAIN cluster.pods \ DOMAIN cluster'.pods :
               \A b \in DOMAIN cluster.pdbs :
                 Selects(cluster.pdbs[b], cluster.pods[p]) => cluster.pdbs[b].allowed > 0
      BY <2>1, <2>4, DrainedWhole, Zenon
    <3>2. QED
      BY <2>4, <3>1 DEF DrainStep
  <2>5. QED
    BY <2>2, <2>3, <2>4 DEF Executed
<1>2. QED
  BY <1>1, KubernetesTyped, PTL DEF Spec, DrainIsAtomic, DrainStep

(* The four kinds of change that Mutations counts.                         *)
Recordoned(c, d) == {n \in DOMAIN c.nodes : c.nodes[n].schedulable # d.nodes[n].schedulable}
Gone(c, d) == DOMAIN c.pods \ DOMAIN d.pods
Redeployed(c, d) == {x \in DOMAIN c.deployments : c.deployments[x] # d.deployments[x]}
Rewritten(c, d) ==
  {p \in DOMAIN d.policies : p \notin DOMAIN c.policies \/ c.policies[p] # d.policies[p]}

(* A step changes as many objects as it changes of the four kinds.         *)
LEMMA MutationsByKind ==
  ASSUME NEW c, NEW d
  PROVE  Mutations(c, d) = Cardinality(Recordoned(c, d)) + Cardinality(Gone(c, d))
                             + Cardinality(Redeployed(c, d)) + Cardinality(Rewritten(c, d))
BY Zenon DEF Mutations, Recordoned, Gone, Redeployed, Rewritten

LEMMA AtMostOne ==
  ASSUME NEW S, NEW x, S \subseteq {x}
  PROVE  Cardinality(S) \in {0, 1}
<1>1. S = {} \/ S = {x}
  OBVIOUS
<1>2. QED
  BY <1>1, FS_EmptySet, FS_Singleton

LEMMA EmptyCounted == Cardinality({}) = 0
BY FS_EmptySet

(* A token just issued is one more than there were.                        *)
LEMMA TokensCounted ==
  ASSUME NEW c, WellFormed(c)
  PROVE  /\ Cardinality(c.tokens) \in Nat
         /\ Cardinality(c.tokens \cup {c.issued + 1}) = Cardinality(c.tokens) + 1
<1>1. c.issued \in Nat /\ c.tokens \subseteq 1..c.issued
  BY Typed, Zenon
<1>2. IsFiniteSet(c.tokens)
  <2>0. 1 \in Int /\ c.issued \in Int
    BY <1>1
  <2>1. IsFiniteSet(1..c.issued)
    BY <2>0, FS_Interval, Zenon
  <2>2. QED
    BY <1>1, <2>1, FS_Subset
<1>3. c.issued + 1 \notin c.tokens
  BY <1>1
<1>4. QED
  BY <1>2, <1>3, FS_CardinalityType, FS_AddElement

(* TokenPerMutation, of one step.                                          *)
PaidFor(c, d) == Mutations(c, d) <= Spent(d) - Spent(c)

LEMMA NothingToPay ==
  ASSUME NEW c, WellFormed(c), NEW d,
         \A n \in DOMAIN c.nodes : d.nodes[n].schedulable = c.nodes[n].schedulable,
         DOMAIN c.pods \subseteq DOMAIN d.pods,
         d.deployments = c.deployments, d.policies = c.policies
  PROVE  Mutations(c, d) = 0
<1>1. Recordoned(c, d) = {} /\ Gone(c, d) = {} /\ Redeployed(c, d) = {} /\ Rewritten(c, d) = {}
  BY DEF Recordoned, Gone, Redeployed, Rewritten
<1>2. QED
  BY <1>1, MutationsByKind, EmptyCounted, SMT

LEMMA RefusalPaid ==
  ASSUME NEW c, WellFormed(c), NEW d, Refused(c, d)
  PROVE  PaidFor(c, d)
<1>1. /\ d.nodes = c.nodes /\ d.pods = c.pods /\ d.deployments = c.deployments
      /\ d.policies = c.policies /\ d.issued = c.issued + 1
      /\ d.tokens \in {c.tokens, c.tokens \cup {c.issued + 1}}
  BY RefusedFields, Zenon
<1>2. Mutations(c, d) = 0
  BY <1>1, NothingToPay
<1>3. /\ c.issued \in Nat /\ Cardinality(c.tokens) \in Nat
      /\ Cardinality(c.tokens \cup {c.issued + 1}) = Cardinality(c.tokens) + 1
  BY Typed, TokensCounted, Zenon
<1>4. CASE d.tokens = c.tokens
  BY <1>1, <1>2, <1>3, <1>4 DEF PaidFor, Spent
<1>5. CASE d.tokens = c.tokens \cup {c.issued + 1}
  <2>1. Cardinality(d.tokens) = Cardinality(c.tokens) + 1
    BY <1>3, <1>5, Zenon
  <2>2. QED
    BY <1>1, <1>2, <1>3, <2>1 DEF PaidFor, Spent
<1>6. QED
  BY <1>1, <1>4, <1>5

LEMMA DrainPaid ==
  ASSUME Mediated, NEW c, WellFormed(c), NEW d, NEW params, Drained(c, d, params)
  PROVE  PaidFor(c, d)
<1> DEFINE name == params.nodeName
           gone == PodsOn(c, name)
           n == Cardinality(gone)
<1>1. name = params.nodeName /\ gone = PodsOn(c, name) /\ n = Cardinality(gone)
  OBVIOUS
<1>2. gone \subseteq DOMAIN c.pods
  BY DEF PodsOn
<1> HIDE DEF name, gone, n
<1>3. /\ n \in Nat /\ d.issued = c.issued + 1 + n /\ d.tokens = TokensAfter(c, 1 + n)
      /\ d.deployments = c.deployments /\ d.policies = c.policies
      /\ \A m \in DOMAIN c.nodes : m # name => d.nodes[m] = c.nodes[m]
      /\ DOMAIN d.pods = DOMAIN c.pods \ gone
  BY <1>1, DrainedFields, SMT
<1>4. d.tokens = c.tokens
  BY <1>3 DEF TokensAfter
<1>5. /\ Recordoned(c, d) \subseteq {name} /\ Gone(c, d) = gone
      /\ Redeployed(c, d) = {} /\ Rewritten(c, d) = {}
  BY <1>2, <1>3 DEF Recordoned, Gone, Redeployed, Rewritten
<1>6. Cardinality(Recordoned(c, d)) \in {0, 1}
  BY <1>5, AtMostOne
<1>7. Mutations(c, d) <= 1 + n
  <2>1. Cardinality(Gone(c, d)) = n
    BY <1>1, <1>5, Zenon
  <2>2. Cardinality(Redeployed(c, d)) = 0 /\ Cardinality(Rewritten(c, d)) = 0
    BY <1>5, EmptyCounted, Zenon
  <2>3. n \in Nat
    BY <1>3
  <2>4. QED
    BY <1>6, <2>1, <2>2, <2>3, MutationsByKind
<1>8. /\ c.issued \in Nat /\ Cardinality(c.tokens) \in Nat
      /\ Cardinality(c.tokens \cup {c.issued + 1}) = Cardinality(c.tokens) + 1
  BY Typed, TokensCounted, Zenon
<1>9. QED
  BY <1>3, <1>4, <1>7, <1>8 DEF PaidFor, Spent

LEMMA RolloutPaid ==
  ASSUME Mediated, NEW c, WellFormed(c), NEW d, NEW params, Rolled(c, d, params)
  PROVE  PaidFor(c, d)
<1> DEFINE name == params.deploymentName
<1>1. name \in DOMAIN c.deployments
  BY DEF Rolled
<1>2. PICK deployment :
        d = Assembled(c.nodes, c.pods, [c.deployments EXCEPT ![name] = deployment],
                      c.policies, c.pdbs, c.counter + 1, TokensAfter(c, 1), c.issued + 1)
  BY Zenon DEF Rolled
<1> DEFINE deployments == [c.deployments EXCEPT ![name] = deployment]
<1>3. \A m \in DOMAIN c.deployments : m # name => deployments[m] = c.deployments[m]
  BY <1>1
<1> HIDE DEF deployments
<1>4. /\ d.nodes = c.nodes /\ d.pods = c.pods /\ d.deployments = deployments
      /\ d.policies = c.policies /\ d.tokens = TokensAfter(c, 1) /\ d.issued = c.issued + 1
  BY <1>2, SMT DEF Assembled, deployments
<1> HIDE DEF name
<1>5. d.tokens = c.tokens
  BY <1>4 DEF TokensAfter
<1>6. /\ Recordoned(c, d) = {} /\ Gone(c, d) = {}
      /\ Redeployed(c, d) \subseteq {name} /\ Rewritten(c, d) = {}
  BY <1>3, <1>4 DEF Recordoned, Gone, Redeployed, Rewritten
<1>7. Cardinality(Redeployed(c, d)) \in {0, 1}
  BY <1>6, AtMostOne
<1>8. Mutations(c, d) \in {0, 1}
  <2>1. /\ Cardinality(Recordoned(c, d)) = 0 /\ Cardinality(Gone(c, d)) = 0
        /\ Cardinality(Rewritten(c, d)) = 0
    BY <1>6, EmptyCounted, Zenon
  <2>2. QED
    BY <1>7, <2>1, MutationsByKind
<1>9. /\ c.issued \in Nat /\ Cardinality(c.tokens) \in Nat
      /\ Cardinality(c.tokens \cup {c.issued + 1}) = Cardinality(c.tokens) + 1
  BY Typed, TokensCounted, Zenon
<1>10. QED
  BY <1>4, <1>5, <1>8, <1>9 DEF PaidFor, Spent

LEMMA PolicyPaid ==
  ASSUME Mediated, NEW c, WellFormed(c), NEW d, Applied(c, d)
  PROVE  PaidFor(c, d)
<1>1. PICK policies, counter, name : AppliedAs(c, d, policies, counter, name)
  BY DEF Applied
<1>2. /\ d = Assembled(c.nodes, c.pods, c.deployments, policies, c.pdbs, counter,
                       TokensAfter(c, 1), c.issued + 1)
      /\ \A p \in DOMAIN policies :
           p # name => p \in DOMAIN c.policies /\ policies[p] = c.policies[p]
  BY <1>1, Zenon DEF AppliedAs
<1>3. /\ d.nodes = c.nodes /\ d.pods = c.pods /\ d.deployments = c.deployments
      /\ d.policies = policies /\ d.tokens = TokensAfter(c, 1) /\ d.issued = c.issued + 1
  BY <1>2, SMT DEF Assembled
<1>4. d.tokens = c.tokens
  BY <1>3 DEF TokensAfter
<1>5. /\ Recordoned(c, d) = {} /\ Gone(c, d) = {} /\ Redeployed(c, d) = {}
      /\ Rewritten(c, d) \subseteq {name}
  BY <1>2, <1>3 DEF Recordoned, Gone, Redeployed, Rewritten
<1>6. Cardinality(Rewritten(c, d)) \in {0, 1}
  BY <1>5, AtMostOne
<1>7. Mutations(c, d) \in {0, 1}
  BY <1>5, <1>6, EmptyCounted, MutationsByKind, SMT
<1>8. /\ c.issued \in Nat /\ Cardinality(c.tokens) \in Nat
      /\ Cardinality(c.tokens \cup {c.issued + 1}) = Cardinality(c.tokens) + 1
  BY Typed, TokensCounted, Zenon
<1>9. QED
  BY <1>3, <1>4, <1>7, <1>8 DEF PaidFor, Spent

(* The cluster's own moves change nothing the webhook guards.              *)
LEMMA MovePaid ==
  ASSUME NEW c, WellFormed(c), NEW d, Moved(c, d)
  PROVE  PaidFor(c, d)
<1>1. Mutations(c, d) = 0
  BY NothingToPay DEF Moved
<1>2. /\ c.issued \in Nat /\ Cardinality(c.tokens) \in Nat
      /\ Cardinality(c.tokens \cup {c.issued + 1}) = Cardinality(c.tokens) + 1
  BY Typed, TokensCounted, Zenon
<1>3. QED
  BY <1>1, <1>2 DEF PaidFor, Spent, Moved

(* Where the webhook is on, every object a step changes is paid for with a *)
(* token of its own: a drain of a node with any number of pods uses up one *)
(* token for the cordon and one for each eviction, and a caller who has no *)
(* token changes nothing.                                                  *)
THEOREM TokensArePaid == ASSUME Mediated PROVE Spec => TokenPerMutation
<1>1. TypeOK /\ [Next]_vars => PaidFor(cluster, cluster')
  <2> SUFFICES ASSUME TypeOK, [Next]_vars PROVE PaidFor(cluster, cluster')
    OBVIOUS
  <2>1. WellFormed(cluster)
    BY DEF TypeOK
  <2>2. CASE cluster' = cluster
    <3>1. Mutations(cluster, cluster) = 0
      BY <2>1, NothingToPay
    <3>2. cluster.issued \in Nat /\ Cardinality(cluster.tokens) \in Nat
      BY <2>1, Typed, TokensCounted, Zenon
    <3>3. QED
      BY <2>1, <2>2, <3>1, <3>2 DEF PaidFor, Spent
  <2>3. ASSUME NEW a \in Agents, Dispatch(a)
        PROVE  PaidFor(cluster, cluster')
    <3>1. PICK r : /\ Executed(cluster, proposal[a].action, proposal[a].params, dryRun, r)
                   /\ cluster' = r.cluster /\ outcome'[a] = r.outcome
      BY <2>3, DispatchExecutes
    <3>2. \/ Refused(cluster, cluster') \/ Drained(cluster, cluster', proposal[a].params)
          \/ Rolled(cluster, cluster', proposal[a].params) \/ Applied(cluster, cluster')
      BY <3>1, Zenon DEF Executed
    <3>3. QED
      BY <2>1, <3>2, RefusalPaid, DrainPaid, RolloutPaid, PolicyPaid, Zenon
  <2>4. CASE RawUpdate
    <3>1. PICK n \in DOMAIN cluster.nodes : cluster' = RawCordoned(cluster, n)
      BY <2>4, Zenon DEF RawUpdate, RawCordoned
    <3>2. cluster' = cluster
      BY <2>1, <3>1, RawProgress, Zenon
    <3>3. QED
      BY <2>2, <3>2
  <2>5. CASE ClusterMoves
    BY <2>1, <2>5, ClusterMovesForm, MovePaid, Zenon
  <2>6. ASSUME NEW a \in Agents, Inspect(a) \/ Approve(a) \/ Evaluate(a) \/ Present(a)
        PROVE  cluster' = cluster
    BY <2>6 DEF Inspect, Approve, Evaluate, Present
  <2>7. Tick \/ UNCHANGED vars => cluster' = cluster
    BY DEF Tick, vars
  <2>8. QED
    BY <2>2, <2>3, <2>4, <2>5, <2>6, <2>7 DEF Next
<1>2. QED
  BY <1>1, KubernetesTyped, PTL DEF Spec, TokenPerMutation, PaidFor

=============================================================================
