----------------------------- MODULE MCPrograms -----------------------------
(***************************************************************************)
(* Programs with small sets of threads, processes, connections and lines.  *)
(***************************************************************************)
EXTENDS Programs

\* What the programs take for granted of their constants.
ASSUME CallsAssumption == ConstantsOK
ASSUME GoAssumption == GoConstantsOK
ASSUME ReorderAssumption == Reorder!ReorderConstantsOK
ASSUME ConnAssumption == Connections!ConnConstantsOK
ASSUME ShellAssumption == Shell!ShellConstantsOK
ASSUME SqlAssumption == Sql!SqlConstantsOK
ASSUME SecretAssumption == Secrets!SecretConstantsOK

\* A call fails, returns less than the limit, or more.
MCRets == {-1, 1, 3}

\* Lengths around a chunk of 4 and around the limit of 3 chunks.
MCGoLens == {-1, 0, 1, 3, 4, 5, 8, 11, 12, 13}

\* Seven events with timestamps 0, 1, 2, 2, 3, 3, 5.
MCMono == <<0, 1, 2, 2, 3, 3, 5>>
=============================================================================
