---------------------------- MODULE MCPerfHandle ----------------------------
(* PerfHandle with small lifetimes: long enough for two resets with the     *)
(* group scheduled for only part of each interval, and for an overflow.     *)
EXTENDS PerfHandle
=============================================================================
