-------------------------- MODULE MCProgressReporter --------------------------
\* The progress reporter for TLC: a restored run of three cycles, published in
\* every second cycle.
EXTENDS ProgressReporter

MCBoot == [cycles |-> 1, instructions |-> 2]
=============================================================================
