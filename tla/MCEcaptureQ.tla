---------------------------- MODULE MCEcaptureQ ----------------------------
(* Small instances of EcaptureQ for TLC.                                    *)
EXTENDS EcaptureQ

CONSTANTS c1, c2
=============================================================================
