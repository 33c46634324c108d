-------------------------- MODULE MCProbeLifecycle --------------------------
(* Small instances of ProbeLifecycle for TLC.                              *)
EXTENDS ProbeLifecycle

CONSTANTS plain, sorted, x1, x2, x3

\* Two records of the reordering reader, one of the other.
MCReaderOf == [x \in Records |-> IF x = x3 THEN plain ELSE sorted]
=============================================================================
