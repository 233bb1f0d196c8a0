------------------------ MODULE MCFileCapabilityStore ------------------------
(* Two processes compete for n1, one of them with two calls, and one call  *)
(* goes for n2: its directory fsync also flushes the entry of n1.          *)
EXTENDS FileCapabilityStore

CONSTANTS c1, c2, c3, c4, n1, n2, p1, p2

MCCalls == {c1, c2, c3, c4}
MCNonces == {n1, n2}
MCProcesses == {p1, p2}
MCNonceOf == [c \in MCCalls |-> IF c = c4 THEN n2 ELSE n1]
MCProcessOf == [c \in MCCalls |-> IF c \in {c1, c2} THEN p1 ELSE p2]

=============================================================================
