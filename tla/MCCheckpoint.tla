----------------------------- MODULE MCCheckpoint -----------------------------
\* Two configurations that share a base path; a cycle prints the marker, brings input or neither.
EXTENDS Checkpoint

CONSTANTS quiet, marker, key, c1, c2
MCInputs == {quiet, marker, key}
MCConfigs == {c1, c2}
OneConfig == {c1}
Keys == {key}
NoKeys == {}
=============================================================================
