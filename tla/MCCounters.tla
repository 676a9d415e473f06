----------------------------- MODULE MCCounters -----------------------------
(* 3, 4 or 7 rotating events (one, two or three groups), a 2-bit MBM     *)
(* counter that wraps within the traffic bound, two queued signals.       *)
EXTENDS Counters
=============================================================================
