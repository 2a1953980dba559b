--------------------------- MODULE MCEventAgent ---------------------------
\* Two probes: p, whose arguments an edit changes, and q, which it removes.
EXTENDS EventAgent
CONSTANTS p, q, a, b
MCNames == {p, q}
MCArgs == {a, b}
MCStartup == [n \in {p, q} |-> a]
MCEdits == {MCStartup, [n \in {p} |-> b]}
=============================================================================
