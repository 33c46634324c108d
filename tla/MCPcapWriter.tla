---------------------------- MODULE MCPcapWriter ----------------------------
(* Small instances of PcapWriter for TLC.                                  *)
EXTENDS PcapWriter
=============================================================================
