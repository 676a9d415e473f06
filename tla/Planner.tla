------------------------------ MODULE Planner -------------------------------
(***************************************************************************)
(* generate_profiling_plan(): the way allocations the profiler steps       *)
(* through for each target thread.  Slice s is the pair of CAT masks the    *)
(* handler applies in step s of a round: the target's ways and the ways of *)
(* every co-runner (the filler included).                                  *)
(***************************************************************************)
EXTENDS Integers, Sequences

CONSTANT W   \* LLC associativity, state.cache_num_ways

ASSUME W \in 3 .. 16

Ways == 0 .. W - 1

\* generate_profiling_plan(): target ways per slice, first entry repeated.
Plan ==
  CASE W = 16 -> <<15, 15, 11, 7, 4, 2, 1>>  [] W = 15 -> <<14, 14, 10, 7, 4, 2, 1>>
    [] W = 14 -> <<13, 13, 9, 6, 4, 2, 1>>   [] W = 13 -> <<12, 12, 9, 6, 4, 2, 1>>
    [] W = 12 -> <<11, 11, 8, 6, 4, 2, 1>>   [] W = 11 -> <<10, 10, 8, 6, 4, 2, 1>>
    [] W = 10 -> <<9, 9, 8, 6, 4, 2, 1>>     [] W = 9  -> <<8, 8, 6, 4, 3, 2, 1>>
    [] W = 8  -> <<7, 7, 6, 4, 3, 2, 1>>     [] W = 7  -> <<6, 6, 5, 4, 3, 2, 1>>
    [] W = 6  -> <<5, 5, 4, 3, 2, 1>>        [] W = 5  -> <<4, 4, 3, 2, 1>>
    [] W = 4  -> <<3, 3, 2, 1>>              [] W = 3  -> <<2, 2, 1>>

num_ways_to_sample == Len(Plan)

\* allAppsCacheAssignments.slice(s): row 0 the target's ways, row 1 the
\* co-runners'; on 12 ways slices 0 and 1 are rewritten so that ways 10 and
\* 11 are never split (Broadwell CAT erratum).
Slice(s) ==
  IF W = 12 /\ s \in {0, 1}
  THEN [target |-> 1 .. 11, co |-> {0}]
  ELSE [target |-> 0 .. Plan[s + 1] - 1, co |-> Plan[s + 1] .. W - 1]

\* Broadwell CAT erratum (spec 4.1): on 12 ways no slice of the plan puts
\* way 10 and way 11 into different classes.  The plan is a constant, so
\* TLC checks this as an assumption whenever W = 12 (the ucp run).
ASSUME W = 12 => \A s \in 0 .. num_ways_to_sample - 1 :
                   \/ {10, 11} \subseteq Slice(s).target
                   \/ {10, 11} \subseteq Slice(s).co
==============================================================================
