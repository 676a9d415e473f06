-------------------------- MODULE ProfilingRounds --------------------------
(***************************************************************************)
(* What the MRC-estimation controller promises about its rounds (spec 3,  *)
(* "Coordinator state", and 4.5): the targets are profiled one at a time  *)
(* in the order 0, 1, ..., NumTargets-1; a target's round applies the     *)
(* slices of the plan one after the other and ends, after the last one,   *)
(* with exactly one estimate for that target; the round of the last       *)
(* target ends monitoring until the gate starts the next cycle.           *)
(*                                                                         *)
(* GateRestarts says whether the warmup/profile gate may start a round    *)
(* again while one is running (slice back to 1, same target).  Spec 3     *)
(* says slice_idx only advances within a round; sigthyme_handler restarts *)
(* it, so Coordinator is checked against this module with GateRestarts    *)
(* TRUE.  Spec 7's abort of a round on a counter glitch is not an action: *)
(* the handler never takes it (a glitched round waits, see KeepSlice).    *)
(*                                                                         *)
(* Coordinator.tla implements this specification (RoundsRefined).         *)
(***************************************************************************)
EXTENDS Naturals

CONSTANTS
  NumTargets,     \* profiled threads
  NumSlices,      \* slices of the plan, the warmup repeat included
  GateRestarts    \* the gate may restart a running round

ASSUME NumTargets >= 1 /\ NumSlices >= 1 /\ GateRestarts \in BOOLEAN

Targets == 0 .. NumTargets - 1

VARIABLES
  monitoring,  \* a round (or the gap between two targets' rounds) is on
  target,      \* the target of the current or next round
  slice,       \* slices applied in the current round, 0 .. NumSlices
  estimates    \* estimates emitted so far, per target

roundVars == <<monitoring, target, slice, estimates>>

RoundsInit ==
  /\ monitoring = FALSE
  /\ target = 0
  /\ slice = 0
  /\ estimates = [t \in Targets |-> 0]

\* The gate starts the target's round with the plan's first slice.
StartRound ==
  /\ ~monitoring \/ GateRestarts
  /\ monitoring' = TRUE
  /\ slice' = 1
  /\ UNCHANGED <<target, estimates>>

\* The next slice of the plan is applied.
ApplySlice ==
  /\ monitoring
  /\ slice < NumSlices
  /\ slice' = slice + 1
  /\ UNCHANGED <<monitoring, target, estimates>>

\* Every slice was applied: one estimate for the target, and the next
\* target's turn; after the last target monitoring stops.
CompleteRound ==
  /\ monitoring
  /\ slice = NumSlices
  /\ estimates' = [estimates EXCEPT ![target] = @ + 1]
  /\ target' = (target + 1) % NumTargets
  /\ monitoring' = (target + 1 < NumTargets)
  /\ slice' = 0

RoundsNext == StartRound \/ ApplySlice \/ CompleteRound

RoundsSpec == RoundsInit /\ [][RoundsNext]_roundVars

=============================================================================
