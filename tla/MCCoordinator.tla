---------------------------- MODULE MCCoordinator ----------------------------
EXTENDS Coordinator

\* Node-0 cores numbered from 0, as on a single-socket machine.
MCAssignableCoresContiguous == <<0, 1, 2, 3>>
\* Node-0 cores interleaved with node 1 (even-numbered cores).
MCAssignableCoresInterleaved == <<0, 2, 4, 6>>

\* What a phase may measure: within one step (12) of a curve whose MPKI
\* falls and IPC rises by one step per way; a phase whose ways changed
\* anything on the curve; a slot never written 0.  With W = 3 the plan
\* samples every way count below W, so no division of Interp1 is inexact.
MCMpkiOf == [tag \in {NONE, MIXED} \cup 0 .. W |->
               IF tag >= 1 THEN {12 * (W + 1 - tag) + d : d \in {-12, 0, 12}}
               ELSE IF tag = MIXED THEN {12 * k : k \in 1 .. W} ELSE {0}]
MCIpcOf == [tag \in {NONE, MIXED} \cup 0 .. W |->
              IF tag >= 1 THEN {12 * tag + d : d \in {-12, 0, 12}}
              ELSE IF tag = MIXED THEN {12 * k : k \in 1 .. W} ELSE {0}]
==============================================================================
