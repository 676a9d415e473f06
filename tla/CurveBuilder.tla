---------------------------- MODULE CurveBuilder ----------------------------
(***************************************************************************)
(* CurveBuilder: what the sampling branch of sigthyme_handler does with a  *)
(* completed round's points (datamime-profiler.cpp :799-885) and what     *)
(* dump_mrc_estimates / dump_ipc_estimates (:303-344) do to the estimates  *)
(* kept in memory.                                                         *)
(*                                                                         *)
(* A curve is a function of rows 0 .. W-1; row r is the estimate for r+1   *)
(* ways.  Numbers are integers scaled by a common factor, so that the      *)
(* linear interpolation between two sampled way counts divides exactly     *)
(* (the scale is a multiple of every gap of the plan); NaN is a value of   *)
(* its own, and every comparison with it is false, as in IEEE-754.         *)
(***************************************************************************)
EXTENDS Integers, Sequences, Planner

LOCAL INSTANCE FiniteSetsExt

\* datamime-profiler.h:70
HIST_WINDOW_LENGTH == 3

NaN == -1   \* all measured numbers are >= 0

Rows == 0 .. W - 1

\* IEEE-754 order: false whenever one side is NaN.
Less(a, b) == a /= NaN /\ b /= NaN /\ a < b

\* std::min / std::max: (b < a) ? b : a and (a < b) ? b : a.
StdMin(a, b) == IF Less(b, a) THEN b ELSE a
StdMax(a, b) == IF Less(a, b) THEN b ELSE a

Plus(a, b) == IF a = NaN \/ b = NaN THEN NaN ELSE a + b

(***************************************************************************)
(* arma::interp1(X, Y, XI, YI, "linear") at one point xi: NaN (the default *)
(* extrap_val) outside [min X, max X]; otherwise the straight line between *)
(* the nearest sampled way counts below and above xi.  Equal way counts    *)
(* carry equal values here (slot 0 is a copy of slot 1), so which of them  *)
(* is taken does not matter.                                               *)
(***************************************************************************)
Interp1(xs, ys, xi) ==
  LET Idx == DOMAIN xs
      Xs  == {xs[i] : i \in Idx}
  IN IF xi < Min(Xs) \/ xi > Max(Xs) THEN NaN
     ELSE LET lo  == Max({x \in Xs : x <= xi})
              hi  == Min({x \in Xs : x >= xi})
              ylo == ys[CHOOSE i \in Idx : xs[i] = lo]
              yhi == ys[CHOOSE i \in Idx : xs[i] = hi]
          IN IF lo = hi THEN ylo
             ELSE (ylo * (hi - xi) + yhi * (xi - lo)) \div (hi - lo)

(***************************************************************************)
(* The new estimate column (:799-822): xx = 1 .. W, interpolated from the  *)
(* round's points (slot 0 already replaced by slot 1, EstimatePoints),     *)
(* then the last row, which lies beyond the largest sampled way count, is *)
(* overwritten with the row before it.                                     *)
(***************************************************************************)
EstimateColumn(xs, ys) ==
  LET yy == [r \in Rows |-> Interp1(xs, ys, r + 1)]
  IN [yy EXCEPT ![W - 1] = yy[W - 2]]

(***************************************************************************)
(* The in-place smoothing of dump_mrc_estimates (:307-313): for rows 1 ..  *)
(* W-1 in order, row i becomes std::min(row i-1, row i), with row i-1      *)
(* already smoothed.  dump_ipc_estimates (:328-335) does the same with     *)
(* std::max.  Both run over every column 0 .. mrc_est_index on every dump, *)
(* which changes no column a second time.                                  *)
(***************************************************************************)
RECURSIVE SmoothFrom(_, _, _)
SmoothFrom(Op(_, _), col, i) ==
  IF i > W - 1 THEN col
  ELSE SmoothFrom(Op, [col EXCEPT ![i] = Op(col[i - 1], col[i])], i + 1)

SmoothMrcFrom2(col) == SmoothFrom(StdMin, col, 2)
SmoothMrc(col) == SmoothFrom(StdMin, col, 1)

SmoothIpcFrom2(col) == SmoothFrom(StdMax, col, 2)
SmoothIpc(col) == SmoothFrom(StdMax, col, 1)

(***************************************************************************)
(* The window average (:829-855) over columns startCol .. endCol with      *)
(* endCol = mrc_est_index and startCol = max(0, endCol -                   *)
(* HIST_WINDOW_LENGTH).  cols is the sequence of columns 0 .. endCol.  The *)
(* result is the row sums; every row is divided by the same count          *)
(* endCol - startCol + 1, which the comparisons made of them do not need.  *)
(***************************************************************************)
WindowStart(endCol) == IF endCol - HIST_WINDOW_LENGTH > 0
                       THEN endCol - HIST_WINDOW_LENGTH ELSE 0

WindowSum(cols) ==
  LET endCol == Len(cols) - 1
      RECURSIVE SumFrom(_, _)
      SumFrom(r, j) == IF j > endCol THEN 0
                       ELSE Plus(cols[j + 1][r], SumFrom(r, j + 1))
  IN [r \in Rows |-> SumFrom(r, WindowStart(endCol))]

=============================================================================
