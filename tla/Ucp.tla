-------------------------------- MODULE Ucp ---------------------------------
(***************************************************************************)
(* Utility-based cache partitioning in cache_utils.cpp: do_ucp_mrcs and    *)
(* do_ucp_ipcs.  Each smooths its input curves, gives every application   *)
(* one way, hands out the remaining ways greedily by maximal marginal      *)
(* utility with lookahead, rewrites the result so that ways 10 and 11 are  *)
(* not split (verify_intel_cos_issue, inlined in both), and programs CAT   *)
(* with apply_partition_plan.  One loop iteration is one step.             *)
(*                                                                         *)
(* A curve is a sequence c with c[i] the MPKI (or IPC) at i ways, i.e.     *)
(* the code's curve[i-1].  Utilities are kept as fractions num/den with    *)
(* den > 0 and compared by cross-multiplication.  The stack of a           *)
(* partition is a sequence whose last element is the top.                 *)
(***************************************************************************)
EXTENDS Planner, SequencesExt, Functions

CONSTANTS
  NumLogicalCores,  \* num_logical_cores: partitions[] and the classes applied
  MrcInputs,        \* input mpkiVsWays matrices: [0..n-1 -> curve]
  IpcInputs,        \* input ipcVsWays matrices
  MaxCatFailures    \* model bound: cat_cbm / cat_cos calls that fail

Cos == 0 .. NumLogicalCores - 1

\* The erratum fix-up looks for ways 10 and 11; every app needs a way.
ASSUME /\ W >= 12 /\ NumLogicalCores >= 1 /\ MaxCatFailures \in Nat
       /\ \A m \in MrcInputs \cup IpcInputs :
            /\ DOMAIN m = 0 .. Cardinality(DOMAIN m) - 1
            /\ Cardinality(DOMAIN m) \in 1 .. Min({W, NumLogicalCores})
            /\ \A a \in DOMAIN m : m[a] \in [1 .. W -> Nat]
       /\ \A m \in IpcInputs : \A a \in DOMAIN m : m[a][3] > 0

VARIABLES
  kind,        \* "mrc" (do_ucp_mrcs) or "ipc" (do_ucp_ipcs)
  curve,       \* the function's copy of the matrix, one curve per app
  partitions,  \* std::stack<int> partitions[num_logical_cores]
  next,        \* buckets.top(): the buckets still to hand out are next..W-1
  step,        \* "start" | "greedy" | "apply" | "done" | "crashed"
  catWays,     \* CAT: ways of each class
  coreCos      \* CAT: class of each core

ucpVars == <<kind, curve, partitions, next, step, catWays, coreCos>>

numApps == Cardinality(DOMAIN curve)
Apps    == 0 .. numApps - 1

\* smoothenMRCs / smoothenIPCs: each entry becomes the minimum (MPKI) or
\* maximum (IPC) of itself and the already smoothed entry above it.
smoothenMRCs(c) == [i \in 1 .. W |-> Min({c[j] : j \in 1 .. i})]
smoothenIPCs(c) == [i \in 1 .. W |-> Max({c[j] : j \in 1 .. i})]

\* Marginal utility of p more ways for an app at cur ways.
MuMrc(c, cur, p) == [num |-> c[cur + p] - c[cur], den |-> p]
MuIpc(c, cur, p) == [num |-> c[cur + p] - c[cur], den |-> p * c[3]]

\* Mutant of Better: do_ucp_ipcs compares with "<" as do_ucp_mrcs does.
BetterAlwaysLess(k, m, best) == m.num * best.den < best.num * m.den

\* mu < maxMu (MPKI) or mu > maxMu (IPC), denominators being positive.
Better(k, m, best) ==
  IF k = "mrc" THEN m.num * best.den < best.num * m.den
               ELSE m.num * best.den > best.num * m.den

\* get_maxmarginalutil_*: the loop over p = 1..parts keeps the first p with
\* the best mu, i.e. the p better than every earlier one and no worse than
\* every later one; the code's "maxMu == 1000" test for an unset maximum is
\* part = 0 here, which is also the result when the loop does not run.
MaxMarginal(k, c, cur, parts) ==
  LET mu(p) == IF k = "mrc" THEN MuMrc(c, cur, p) ELSE MuIpc(c, cur, p)
      first == CHOOSE p \in 1 .. parts :
                 /\ \A q \in 1 .. p - 1 : Better(k, mu(p), mu(q))
                 /\ \A q \in p + 1 .. parts : ~Better(k, mu(q), mu(p))
  IN IF parts < 1 THEN [mu |-> [num |-> 0, den |-> 1], part |-> 0]
                  ELSE [mu |-> mu(first), part |-> first]

\* Mutant of get_maxmarginalutil_mrcs: the loop stops one short (p < parts).
get_maxmarginalutil_mrcs_short(c, cur, parts) == MaxMarginal("mrc", c, cur, parts - 1)

get_maxmarginalutil_mrcs(c, cur, parts) == MaxMarginal("mrc", c, cur, parts)
get_maxmarginalutil_ipcs(c, cur, parts) == MaxMarginal("ipc", c, cur, parts)

\* The loop over the apps in do_ucp_*: the first app whose best mu is best
\* wins (maxMuAppIdx) with its maxMuBuckets.
BestApp(k) ==
  LET rs(a) == IF k = "mrc"
               THEN get_maxmarginalutil_mrcs(curve[a], Len(partitions[a]), W - next)
               ELSE get_maxmarginalutil_ipcs(curve[a], Len(partitions[a]), W - next)
      first == CHOOSE a \in Apps :
                 /\ \A b \in 0 .. a - 1 : Better(k, rs(a).mu, rs(b).mu)
                 /\ \A b \in a + 1 .. numApps - 1 : ~Better(k, rs(b).mu, rs(a).mu)
  IN [app |-> first, buckets |-> rs(first).part]

UcpInit ==
  /\ kind \in {"mrc", "ipc"}
  /\ curve \in IF kind = "mrc" THEN MrcInputs ELSE IpcInputs
  /\ partitions = [a \in Cos |-> <<>>]
  /\ next = 0
  /\ step = "start"
  /\ catWays = [c \in Cos |-> Ways]     \* as share_all_cache_ways leaves CAT
  /\ coreCos = [k \in Cos |-> k]

\* Entry of do_ucp_mrcs/do_ucp_ipcs: smooth the copy, push ways W-1..0 on the bucket
\* stack, and pop one bucket (way a) into each app's partition.
UcpStart(k) ==
  /\ step = "start" /\ kind = k
  /\ curve' = [a \in Apps |-> IF k = "mrc" THEN smoothenMRCs(curve[a])
                                            ELSE smoothenIPCs(curve[a])]
  /\ partitions' = [a \in Cos |-> IF a < numApps THEN <<a>> ELSE <<>>]
  /\ next' = numApps
  /\ step' = "greedy"
  /\ UNCHANGED <<kind, catWays, coreCos>>

\* One iteration of while (!buckets.empty()): the winning app pushes the
\* next maxMuBuckets buckets, in the order they come off the stack.
UcpIteration(k) ==
  /\ step = "greedy" /\ kind = k /\ next < W
  /\ \E best \in {BestApp(k)} :
        /\ partitions' = [partitions EXCEPT ![best.app] =
                            @ \o [i \in 1 .. best.buckets |-> next + i - 1]]
        /\ next' = next + best.buckets
  /\ UNCHANGED <<kind, curve, step, catWays, coreCos>>

\* The app whose partition holds way w (the loop keeps the last one), or -1.
Owner(P, K, w) ==
  LET owners == {a \in 0 .. K - 1 : Contains(P[a], w)}
  IN IF owners = {} THEN -1 ELSE Max(owners)

\* Rebuild a partition's stack without its top-most element other than
\* keep; popping into a fresh stack reverses the order.
WithoutTopOther(s, keep) ==
  LET i == Max({j \in 1 .. Len(s) : s[j] # keep})
  IN [swapMe |-> s[i], rest |-> Reverse(RemoveAt(s, i))]

\* Rebuild a partition's stack without way w (order reversed).
WithoutWay(s, w) == Reverse(SelectSeq(s, LAMBDA x : x # w))

\* Mutant of SwapIntoLarger: the larger victim pushes its own way back.
SwapIntoLargerSameWay(P, big, bigWay, small, smallWay) ==
  LET r == WithoutTopOther(P[big], bigWay)
  IN [P EXCEPT ![big]   = Append(r.rest, bigWay),
               ![small] = Append(WithoutWay(P[small], smallWay), r.swapMe)]

\* Case 1 (and, with 10 and 11 exchanged, case 2): the larger victim gives
\* its top-most other way to the other victim and takes the other way.
SwapIntoLarger(P, big, bigWay, small, smallWay) ==
  LET r == WithoutTopOther(P[big], bigWay)
  IN [P EXCEPT ![big]   = Append(r.rest, smallWay),
               ![small] = Append(WithoutWay(P[small], smallWay), r.swapMe)]

\* Case 3: the first other partition of size >= 2 gives its two top ways
\* to the two single-way victims and takes 10 and 11; none: unchanged.
DonateTwo(P, K, v10, v11) ==
  LET donors == {a \in 0 .. K - 1 : a \notin {v10, v11} /\ Len(P[a]) >= 2}
      d == Min(donors)
      n == Len(P[d])
  IN IF donors = {} THEN P
     ELSE [P EXCEPT ![d]   = SubSeq(P[d], 1, n - 2) \o <<10, 11>>,
                    ![v10] = Append(Front(P[v10]), P[d][n]),
                    ![v11] = Append(Front(P[v11]), P[d][n - 1])]

\* Mutant of verify_intel_cos_issue: case 2 missing (case 3 taken instead).
verify_intel_cos_issue_no_case2(P, K) ==
  LET v10 == Owner(P, K, 10)
      v11 == Owner(P, K, 11)
  IN CASE v10 = v11              -> P
       [] Len(P[v10]) > 1        -> SwapIntoLarger(P, v10, 10, v11, 11)
       [] OTHER                  -> DonateTwo(P, K, v10, v11)

\* verify_intel_cos_issue: nothing to do when one partition holds both.
verify_intel_cos_issue(P, K) ==
  LET v10 == Owner(P, K, 10)
      v11 == Owner(P, K, 11)
  IN CASE v10 = v11              -> P
       [] Len(P[v10]) > 1        -> SwapIntoLarger(P, v10, 10, v11, 11)
       [] Len(P[v11]) > 1        -> SwapIntoLarger(P, v11, 11, v10, 10)
       [] OTHER                  -> DonateTwo(P, K, v10, v11)

\* The 10/11 workaround block inlined at the end of do_ucp_mrcs/do_ucp_ipcs.
UcpWorkaround(k) ==
  /\ step = "greedy" /\ kind = k /\ next = W
  /\ partitions' = verify_intel_cos_issue(partitions, numApps)
  /\ step' = "apply"
  /\ UNCHANGED <<kind, curve, next, catWays, coreCos>>

(***************************************************************************)
(* apply_partition_plan (:174-216) runs the cat_cbm tool for class a with  *)
(* the ways of partitions[a], for a = 0 .. num_logical_cores-1, then the   *)
(* cat_cos tool binding core a to class a.  Any system() call may fail:    *)
(* failed is the set of calls whose status is not 0.                       *)
(*  - An empty partition makes waysString.erase(end() - 1) run on an empty *)
(*    string before its call is made: the length wraps and the next        *)
(*    concatenation throws, so the tracer aborts ("crashed") with the      *)
(*    classes before it programmed and the cores not yet rebound.          *)
(*  - A failed cat_cbm call leaves its class as it was and breaks out of   *)
(*    the class loop (:202-203); the core loop still runs.                 *)
(*  - A failed cat_cos call leaves its core in its class (status ignored). *)
(***************************************************************************)
CatCalls == {"cbm", "cos"} \X Cos

\* The sets of at most k failing calls.
RECURSIVE FailingCalls(_)
FailingCalls(k) ==
  IF k = 0 THEN {{}} ELSE {F \cup {c} : F \in FailingCalls(k - 1), c \in CatCalls} \cup {{}}

CatFailures == FailingCalls(MaxCatFailures)

\* The class at which the class loop stops: the first empty partition or
\* the first failed cat_cbm call, or num_logical_cores.
ClassLoopStop(failed) ==
  Min({a \in Cos : partitions[a] = <<>> \/ <<"cbm", a>> \in failed} \cup {NumLogicalCores})

\* Mutant of apply_partition_plan: the core loop runs to cosID <= cores.
apply_partition_plan_extra_core ==
  /\ step = "apply"
  /\ \E failed \in CatFailures :
       LET stop == ClassLoopStop(failed) IN
       /\ catWays' = [c \in Cos |-> IF c < stop THEN ToSet(partitions[c]) ELSE catWays[c]]
       /\ IF stop < NumLogicalCores /\ partitions[stop] = <<>>
          THEN step' = "crashed" /\ UNCHANGED coreCos
          ELSE /\ step' = "done"
               /\ coreCos' = [k \in 0 .. NumLogicalCores |->
                               IF <<"cos", k>> \in failed THEN coreCos[k] ELSE k]
  /\ UNCHANGED <<kind, curve, partitions, next>>

apply_partition_plan ==
  /\ step = "apply"
  /\ \E failed \in CatFailures :
       LET stop == ClassLoopStop(failed) IN
       /\ catWays' = [c \in Cos |-> IF c < stop THEN ToSet(partitions[c]) ELSE catWays[c]]
       /\ IF stop < NumLogicalCores /\ partitions[stop] = <<>>
          THEN step' = "crashed" /\ UNCHANGED coreCos
          ELSE /\ step' = "done"
               /\ coreCos' = [k \in Cos |-> IF <<"cos", k>> \in failed THEN coreCos[k] ELSE k]
  /\ UNCHANGED <<kind, curve, partitions, next>>

UcpNext ==
  \/ \E k \in {"mrc", "ipc"} : UcpStart(k) \/ UcpIteration(k) \/ UcpWorkaround(k)
  \/ apply_partition_plan

\* The function runs to completion once called: weak fairness of every step.
\* For an iteration it is spelled out with the predicate that says when
\* <<UcpIteration(k)>>_ucpVars is enabled (some app is handed a bucket).
IterationEnabled(k) ==
  step = "greedy" /\ kind = k /\ next < W /\ BestApp(k).buckets >= 1

UcpFairness ==
  /\ WF_ucpVars(apply_partition_plan)
  /\ \A k \in {"mrc", "ipc"} :
       /\ WF_ucpVars(UcpStart(k)) /\ WF_ucpVars(UcpWorkaround(k))
       /\ ([]<>~IterationEnabled(k) \/ []<><<UcpIteration(k)>>_ucpVars)

UcpSpec == UcpInit /\ [][UcpNext]_ucpVars /\ UcpFairness

-----------------------------------------------------------------------------
UcpTypeOK ==
  /\ kind \in {"mrc", "ipc"}
  /\ partitions \in [Cos -> Seq(Ways)]
  /\ next \in 0 .. W
  /\ step \in {"start", "greedy", "apply", "done", "crashed"}
  /\ catWays \in [Cos -> SUBSET Ways]
  /\ coreCos \in [Cos -> Cos]

Held(a) == ToSet(partitions[a])

(* From the first pop on, every way is either still on the bucket stack or *)
(* in exactly one app's partition, each app holds at least one way, and no *)
(* partition holds a way twice: the greedy pushes and the 10/11 swaps of   *)
(* verify_intel_cos_issue neither lose nor duplicate a way.                *)
WaysPartitioned ==
  step # "start" =>
    /\ \A a \in Apps : partitions[a] # <<>>
    /\ \A a \in Cos : Len(partitions[a]) = Cardinality(Held(a))
    /\ \A a, b \in Cos : a # b => Held(a) \cap Held(b) = {}
    /\ UNION {Held(a) : a \in Cos} = 0 .. next - 1

(* Spec 8: on 12 ways, once the planner emits, ways 10 and 11 belong to   *)
(* the same partition (the erratum workaround of do_ucp_mrcs and          *)
(* do_ucp_ipcs) whenever the ways allow it, i.e. with fewer apps than     *)
(* ways.  With one way per app no partition can hold both; the workaround *)
(* then reaches case 3, finds no donor and leaves the plan as it is.      *)
Ways10And11Together ==
  step \in {"apply", "done", "crashed"} /\ numApps < W =>
    \A a \in Cos : 10 \in Held(a) <=> 11 \in Held(a)

\* Reference: every way count per app, at least one each, summing to W.
RECURSIVE Compositions(_, _)
Compositions(n, total) ==
  IF n = 1 THEN {<<total>>}
  ELSE UNION {{<<k>> \o r : r \in Compositions(n - 1, total - k)} : k \in 1 .. total - n + 1}

\* The total the partitioning optimises, scaled to integers: MPKI summed;
\* IPC relative to the app's IPC at 3 ways, times the product of all bases.
Objective(sizes) ==
  LET Base(a)   == IF kind = "mrc" THEN 1 ELSE curve[a][3]
      Weight(a) == FoldFunctionOnSet(LAMBDA x, y : x * y, 1, [b \in Apps |-> Base(b)], Apps \ {a})
  IN FoldFunctionOnSet(LAMBDA x, y : x + y, 0,
                       [a \in Apps |-> curve[a][sizes[a + 1]] * Weight(a)], Apps)

\* MPKI curves convex, IPC curves concave: diminishing returns per way.
DiminishingReturns ==
  \A a \in Apps : \A i \in 1 .. W - 2 :
    LET d1 == curve[a][i + 1] - curve[a][i]
        d2 == curve[a][i + 2] - curve[a][i + 1]
    IN IF kind = "mrc" THEN d1 <= d2 ELSE d1 >= d2

(* UCP's greedy lookahead is optimal when returns diminish: once the plan  *)
(* is final, if every smoothed curve is convex (MPKI) or concave (IPC), no  *)
(* other split of the W ways gives fewer total misses or more weighted     *)
(* IPC than the sizes the partitions ended with.                           *)
GreedyOptimal ==
  step \in {"apply", "done", "crashed"} /\ DiminishingReturns =>
    LET sizes == [i \in 1 .. numApps |-> Len(partitions[i - 1])]
    IN \A other \in Compositions(numApps, W) :
         IF kind = "mrc" THEN Objective(sizes) <= Objective(other)
                         ELSE Objective(sizes) >= Objective(other)

(* do_ucp_mrcs and do_ucp_ipcs return: every iteration of the greedy loop hands out at least *)
(* one bucket, so the function reaches apply_partition_plan and ends.      *)
UcpTerminates == <>(step \in {"done", "crashed"})
==============================================================================
