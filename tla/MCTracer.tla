------------------------------ MODULE MCTracer -------------------------------
EXTENDS Tracer

\* NUMA node 0 holding cores 0, 1, 2, ... in order.
MCAssignableCores == <<0, 1, 2, 3>>

\* What a phase may measure: within one step (12) of a curve whose MPKI
\* falls and IPC rises by one step per way; a phase whose ways changed
\* anything on the curve; a slot never written 0.  With W = 3 the plan
\* samples every way count below W, so no division of Interp1 is inexact.
MCMpkiOf == [tag \in {NONE, MIXED} \cup 0 .. W |->
               IF tag >= 1 THEN {12 * (W + 1 - tag) + d : d \in {-12, 0, 12}}
               ELSE IF tag = MIXED THEN {12 * k : k \in 1 .. W} ELSE {0}]
MCIpcOf == [tag \in {NONE, MIXED} \cup 0 .. W |->
              IF tag >= 1 THEN {12 * tag + d : d \in {-12, 0, 12}}
              ELSE IF tag = MIXED THEN {12 * k : k \in 1 .. W} ELSE {0}]
==============================================================================
