------------------------------- MODULE MCUcp --------------------------------
(***************************************************************************)
(* Input matrices for do_ucp_mrcs and do_ucp_ipcs on a 12-way LLC.         *)
(*  - Three apps, each column one of four curves: two with diminishing    *)
(*    returns, one with a cliff that only lookahead sees, and one noisy    *)
(*    curve that smoothing has to repair.                                  *)
(*  - Eleven apps: one bucket is left after the first pop, and ways 10 and *)
(*    11 end in different apps unless app 10 wins it.                     *)
(*  - Twelve apps: one way each, nothing left for the greedy loop, and     *)
(*    ways 10 and 11 in two single-way partitions (case 3, no donor).      *)
(***************************************************************************)
EXTENDS Ucp

MrcCurves ==
  { <<9, 6, 4, 3, 2, 1, 1, 1, 1, 1, 1, 1>>,
    <<5, 4, 3, 2, 1, 0, 0, 0, 0, 0, 0, 0>>,
    <<6, 6, 6, 6, 6, 6, 6, 1, 1, 1, 1, 1>>,
    <<4, 5, 3, 3, 2, 3, 1, 1, 1, 1, 1, 1>> }

IpcCurves ==
  { <<1, 2, 3, 4, 5, 5, 5, 5, 5, 5, 5, 5>>,
    <<2, 4, 5, 6, 6, 6, 6, 6, 6, 6, 6, 6>>,
    <<1, 1, 1, 1, 1, 1, 1, 4, 4, 4, 4, 4>>,
    <<2, 1, 3, 3, 2, 4, 4, 4, 4, 4, 4, 4>> }

\* Eleven columns, all flat but one that gains from a second way.
ElevenApps(flat, gain, winner) == [a \in 0 .. 10 |-> IF a = winner THEN gain ELSE flat]

\* Twelve flat columns.
TwelveApps(flat) == [a \in 0 .. 11 |-> flat]

MCMrcInputs ==
  [0 .. 2 -> MrcCurves]
  \cup {ElevenApps([i \in 1 .. 12 |-> 2], <<5, 2, 2, 2, 2, 2, 2, 2, 2, 2, 2, 2>>, w) : w \in {3, 10}}
  \cup {TwelveApps([i \in 1 .. 12 |-> 2])}

MCIpcInputs ==
  [0 .. 2 -> IpcCurves]
  \cup {ElevenApps([i \in 1 .. 12 |-> 1], <<1, 3, 3, 3, 3, 3, 3, 3, 3, 3, 3, 3>>, w) : w \in {3, 10}}
  \cup {TwelveApps([i \in 1 .. 12 |-> 1])}
==============================================================================
