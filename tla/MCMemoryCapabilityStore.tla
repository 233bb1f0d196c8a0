----------------------- MODULE MCMemoryCapabilityStore -----------------------
(* Four calls, three of them on one nonce: enough for a holder, a parked   *)
(* waiter and a newcomer to meet around a release or a reset, and for a    *)
(* bystander on another nonce.                                             *)
EXTENDS MemoryCapabilityStore

CONSTANTS c1, c2, c3, c4, n1, n2

MCCalls == {c1, c2, c3, c4}
MCNonces == {n1, n2}
MCNonceOf == [c \in MCCalls |-> IF c = c4 THEN n2 ELSE n1]

=============================================================================
