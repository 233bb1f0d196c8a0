-------------------------- MODULE MemoryAuthorizer --------------------------
(***************************************************************************)
(* The live authorizer (policy/src/authorization.ts, MemoryAuthorizer).    *)
(* The map `allowed` takes a principal to its set of grants, a grant being *)
(* an action together with one scope item; a principal that never had, or  *)
(* wholly lost, its grants has no entry.                                   *)
(***************************************************************************)
EXTENDS FiniteSets

CONSTANTS Principals, Actions, ScopeItems

VARIABLE allowed

Grants == Actions \X ScopeItems

AuthorizerTypeOK ==
  /\ DOMAIN allowed \subseteq Principals
  /\ \A p \in DOMAIN allowed : allowed[p] \subseteq Grants

(* The entry is created by the first scope item: no item, no entry.        *)
Grant(p, action, scope) ==
  /\ scope # {}
  /\ allowed' = [q \in DOMAIN allowed \cup {p} |->
                   (IF q \in DOMAIN allowed THEN allowed[q] ELSE {})
                     \cup (IF q = p THEN {action} \X scope ELSE {})]

(* revoke(principal): the entry goes.                                      *)
RevokePrincipal(p) ==
  allowed' = [q \in DOMAIN allowed \ {p} |-> allowed[q]]

(* revoke(principal, action): the grants of the action go, the entry stays *)
(* even when nothing is left in it.                                        *)
RevokeAction(p, action) ==
  /\ p \in DOMAIN allowed
  /\ allowed' = [allowed EXCEPT ![p] = {g \in @ : g[1] # action}]

(* isAuthorized, and isAuthorizedLive, which is the same.                  *)
IsAuthorized(p, action, scope) ==
  /\ p \in DOMAIN allowed
  /\ \A s \in scope : <<action, s>> \in allowed[p]

=============================================================================
