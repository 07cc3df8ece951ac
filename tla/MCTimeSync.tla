------------------------------ MODULE MCTimeSync ------------------------------
(***************************************************************************)
(* Instances of TimeSync.  They have the shape of the code's defaults: the *)
(* fallback delay, 2000 * (2 << 4) milliseconds taken as seconds, is       *)
(* longer than the refresh interval, 3600 seconds, and the latency of an   *)
(* answer together.                                                        *)
(***************************************************************************)
EXTENDS TimeSync
=============================================================================
