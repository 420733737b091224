-------------------------- MODULE MCReferenceRestore --------------------------
\* Two virtual addresses, of which one exists only below M-mode with satp set
\* and the other is a different place then, and one interrupt.
EXTENDS ReferenceRestore

CONSTANTS v0, v1, p0, p1
MCPagedMap == [va \in {v0, v1} |-> IF va = v0 THEN p1 ELSE p0]
MCBareMap == [va \in {v0, v1} |-> IF va = v0 THEN p0 ELSE Fault]
=============================================================================
