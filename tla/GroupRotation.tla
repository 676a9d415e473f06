--------------------------- MODULE GroupRotation ---------------------------
(***************************************************************************)
(* What a profiled thread's counter groups promise (spec 3 and 4.3,       *)
(* "Rotation"): at any time exactly one group is active; outside MRC      *)
(* mode the active group counts Phases phases, and then the next group of *)
(* a fixed cycle becomes active; in MRC mode there is a single group and  *)
(* no rotation.  A phase is one overflow of the active group's leader.    *)
(*                                                                         *)
(* Counters.tla implements this specification (Counters!RotationRefined). *)
(***************************************************************************)
EXTENDS Naturals

CONSTANT Phases   \* PHASES_BETWEEN_SWITCHES

VARIABLES
    mrc,      \* MRC-estimation mode
    groups,   \* number of the thread's event groups
    active,   \* the active group, 0 .. groups - 1
    used      \* phases the active group has counted since it became active

rotationVars == <<mrc, groups, active, used>>

RotationInit ==
    /\ mrc \in BOOLEAN
    /\ groups \in Nat \ {0}
    /\ mrc => groups = 1
    /\ active = 0
    /\ used = 0

\* The active group's leader overflows: one more phase on it.  In MRC mode
\* the group is never exhausted and nothing is counted against it.
Phase ==
    /\ ~mrc
    /\ used < Phases
    /\ used' = used + 1
    /\ UNCHANGED <<mrc, groups, active>>

\* After Phases phases the next group of the cycle becomes active.
Rotate ==
    /\ ~mrc
    /\ used = Phases
    /\ active' = (active + 1) % groups
    /\ used' = 0
    /\ UNCHANGED <<mrc, groups>>

RotationNext == Phase \/ Rotate

RotationSpec == RotationInit /\ [][RotationNext]_rotationVars

=============================================================================
