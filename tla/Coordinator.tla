----------------------------- MODULE Coordinator -----------------------------
(***************************************************************************)
(* The MRC-estimation controller of datamime-profiler: the SIGTHYME        *)
(* handler (sigthyme_handler) that every PMU overflow of a profiled thread *)
(* runs in the tracer, together with the CAT programming it performs       *)
(* (set_cacheways_to_cores, share_all_cache_ways) and the counter read     *)
(* that ends every invocation (read_counters).                             *)
(*                                                                         *)
(* Counter values and IPC/MPKI numbers are abstracted to the one thing the *)
(* curve needs to be right about: how many ways the thread held while the  *)
(* measured phase ran.  phaseWays[t] is that number for the phase thread t *)
(* is running now (MIXED when another handler changed it mid-phase);       *)
(* values[t] is the tag of the phase whose counters read_counters read     *)
(* last, and yPoints stores the tag of the sample instead of its IPC.      *)
(***************************************************************************)
EXTENDS Integers, Sequences, FiniteSets, CurveBuilder

CONSTANTS
  NumThreads,       \* number of profiled threads (-t), tidx 0..NumThreads-1
  NumCores,         \* state.num_logical_cores
  NumCos,           \* classes of service the CAT controller reports
  AssignableCores,  \* NUMA-node-0 cores in order; thread tidx gets [tidx+1]
  WarmupInterval,   \* mrc_warmup_interval, in phases
  ProfileInterval,  \* mrc_profile_interval, in phases
  NumPhases,        \* args.num_phases
  MonitorLen,       \* monitorLen (1 in the code)
  PhaseBound,       \* model bound: overflows per thread
  SampleRecord,     \* outcomes of "next ring-buffer record is a SAMPLE"
  MpkiOf,           \* MPKI a phase measures, by tag (scaled, see CurveBuilder)
  IpcOf             \* IPC a phase measures, by tag (scaled)

Threads == 0 .. NumThreads - 1
Cores   == 0 .. NumCores - 1
Cos     == 0 .. NumCos - 1

ASSUME /\ NumThreads >= 1 /\ NumCos >= 3
       /\ Len(AssignableCores) >= NumThreads + 2
       /\ \A i \in 1 .. Len(AssignableCores) : AssignableCores[i] \in Cores
       /\ WarmupInterval >= 1 /\ ProfileInterval >= 1 /\ MonitorLen >= 1
       /\ SampleRecord \subseteq BOOLEAN /\ TRUE \in SampleRecord

NONE  == -2   \* tag of a counter vector that has never been read
MIXED == -1   \* tag of a phase during which the thread's ways changed

\* The numbers behind the tags.  A slot never written this run keeps the
\* 0 of the zero-initialised yPoints_mpki / yPoints_ipc (:408-410).
ASSUME /\ MpkiOf \in [{NONE, MIXED} \cup 0 .. W -> SUBSET Nat] /\ MpkiOf[0] = {0}
       /\ IpcOf \in [{NONE, MIXED} \cup 0 .. W -> SUBSET Nat] /\ IpcOf[0] = {0}

\* main(): thread tidx is pinned to the front of assignable_cores in turn.
CoreOf(t) == AssignableCores[t + 1]

VARIABLES
  cbm, cosOf,                \* CAT MSRs: ways per class, class per core
  monitorStartFlag, firstMRCInvocation, sampleSlicesIdx,
  thr_idx_profiled_global, mrc_invoke_monitor_len, enable_array_scans,
  currentlySampling,         \* per core (row): [ways, status]
  phases, values, xPoints, yPoints, mrc_est_index, emitted,
  done, first_finished_thread,
  phaseWays,                 \* ways held during each thread's current phase
  fresh                      \* values[t] read since the last lastInstrCtr snapshot

hw     == <<cbm, cosOf>>
ctl    == <<monitorStartFlag, firstMRCInvocation, sampleSlicesIdx,
            thr_idx_profiled_global, mrc_invoke_monitor_len, enable_array_scans>>
thr    == <<phases, values, xPoints, yPoints, mrc_est_index, emitted, phaseWays, fresh>>
vars   == <<hw, ctl, currentlySampling, thr, done, first_finished_thread>>

WaysHeld(c, o, t) == Cardinality(c[o[CoreOf(t)]])

\* share_all_cache_ways(): class i gets every way and core i is bound to
\* class i; cores beyond the last class share the last class.
\* Mutants of share_all: mask loop one way short; no clamp to the last class.
ShareAllCbmShort(c) == [i \in Cos |-> IF i < NumCores THEN 0 .. W - 2 ELSE c[i]]
ShareAllCosUnclamped == [k \in Cores |-> k]

ShareAllCbm(c) == [i \in Cos |-> IF i < NumCores THEN Ways ELSE c[i]]
ShareAllCos    == [k \in Cores |-> IF k < NumCos THEN k ELSE NumCos - 1]

\* set_cacheways_to_cores(C, procIdxProfiled): class 1 gets row 0, class 2
\* row 1; core procIdxProfiled goes to class 1 and every other core to 2.
\* Mutants of set_cacheways_to_cores: the co-runner loop without its
\* "continue"; the profiled row filled from cosMap row 1 instead of row 0.
SetCosNoSkip(proc) == [k \in Cores |-> 2]
SetSamplingWrongRow(s, proc) ==
  [k \in Cores |-> [ways |-> Cardinality(Slice(s).co), status |-> 1]]

SetCbm(c, s)     == [c EXCEPT ![1] = Slice(s).target, ![2] = Slice(s).co]
SetCos(proc)     == [k \in Cores |-> IF k = proc THEN 1 ELSE 2]
SetSampling(s, proc) ==
  [k \in Cores |-> [ways   |-> IF k = proc THEN Cardinality(Slice(s).target)
                                           ELSE Cardinality(Slice(s).co),
                    status |-> 1]]

Init ==
  /\ cbm = ShareAllCbm([i \in Cos |-> Ways])   \* main(): share_all in -m mode
  /\ cosOf = ShareAllCos
  /\ monitorStartFlag = FALSE /\ firstMRCInvocation = TRUE
  /\ sampleSlicesIdx = -1 /\ thr_idx_profiled_global = 0
  /\ mrc_invoke_monitor_len = WarmupInterval /\ enable_array_scans = FALSE
  /\ currentlySampling = [k \in Cores |-> [ways |-> 0, status |-> 0]]
  /\ phases = [t \in Threads |-> 0]
  /\ values = [t \in Threads |-> NONE]
  /\ xPoints = [t \in Threads |-> [i \in 0 .. num_ways_to_sample - 1 |-> 0]]
  /\ yPoints = [t \in Threads |-> [i \in 0 .. num_ways_to_sample - 1 |-> 0]]
  /\ mrc_est_index = [t \in Threads |-> 0]
  /\ emitted = [t \in Threads |-> <<>>]
  /\ done = FALSE /\ first_finished_thread = -1
  /\ phaseWays = [t \in Threads |-> WaysHeld(cbm, cosOf, t)]
  /\ fresh = [t \in Threads |-> FALSE]

\* The curve handed to interp1: slot 0 (the warmup sample) replaced by slot 1.
EstimatePoints(xs, ys) ==
  [i \in 0 .. num_ways_to_sample - 1 |->
     [x |-> xs[IF i = 0 THEN 1 ELSE i], y |-> ys[IF i = 0 THEN 1 ELSE i]]]

\* Master thread (tidx 0) on the warmup/profile gate: start a round for
\* thr_idx_profiled_global by applying slice 0, even if one is running.
StartProfiling(t, ph) ==
  /\ ph % mrc_invoke_monitor_len = 0 /\ t = 0 /\ ph < NumPhases
  /\ IF firstMRCInvocation
     THEN /\ mrc_invoke_monitor_len' = ProfileInterval
          /\ firstMRCInvocation' = FALSE
     ELSE UNCHANGED <<mrc_invoke_monitor_len, firstMRCInvocation>>
  /\ enable_array_scans' = TRUE
  /\ monitorStartFlag' = TRUE
  /\ sampleSlicesIdx' = 1
  /\ cbm' = SetCbm(cbm, 0)
  /\ cosOf' = SetCos(thr_idx_profiled_global)
  /\ currentlySampling' = SetSampling(0, thr_idx_profiled_global)
  /\ UNCHANGED <<thr_idx_profiled_global, xPoints, yPoints, mrc_est_index, emitted>>

\* Any other invocation on the gate only snapshots the counters.
GateSnapshot(t, ph) ==
  /\ ph % mrc_invoke_monitor_len = 0 /\ ~(t = 0 /\ ph < NumPhases)
  /\ UNCHANGED <<hw, ctl, currentlySampling, xPoints, yPoints, mrc_est_index, emitted>>

\* Off the gate and not monitoring: only the snapshot of the counters.
WarmupTick(t, ph) ==
  /\ ph % mrc_invoke_monitor_len # 0
  /\ ~(monitorStartFlag /\ ph % MonitorLen = 0)
  /\ UNCHANGED <<hw, ctl, currentlySampling, xPoints, yPoints, mrc_est_index, emitted>>

\* Mutant of EmitEstimate: the round is emitted one slice early.
EmitEstimateEarly(t, xs, ys, status, rows) ==
  LET next == thr_idx_profiled_global + 1 IN
  /\ sampleSlicesIdx = num_ways_to_sample - 1 /\ status # 5
  /\ t = thr_idx_profiled_global
  /\ emitted' = [emitted EXCEPT ![t] = Append(@, EstimatePoints(xs, ys))]
  /\ mrc_est_index' = [mrc_est_index EXCEPT ![t] = @ + 1]
  /\ sampleSlicesIdx' = 0
  /\ currentlySampling' = rows
  /\ IF next >= NumThreads
     THEN /\ thr_idx_profiled_global' = 0
          /\ monitorStartFlag' = FALSE
          /\ enable_array_scans' = FALSE
          /\ cbm' = ShareAllCbm(cbm) /\ cosOf' = ShareAllCos
     ELSE /\ thr_idx_profiled_global' = next
          /\ UNCHANGED <<monitorStartFlag, enable_array_scans, hw>>
  /\ UNCHANGED <<firstMRCInvocation, mrc_invoke_monitor_len>>

\* Round complete for the profiled thread: emit its estimate and move to the
\* next target; after the last one stop the filler and share all ways.
EmitEstimate(t, xs, ys, status, rows) ==
  LET next == thr_idx_profiled_global + 1 IN
  /\ sampleSlicesIdx = num_ways_to_sample /\ status # 5
  /\ t = thr_idx_profiled_global
  /\ emitted' = [emitted EXCEPT ![t] = Append(@, EstimatePoints(xs, ys))]
  /\ mrc_est_index' = [mrc_est_index EXCEPT ![t] = @ + 1]
  /\ sampleSlicesIdx' = 0
  /\ currentlySampling' = rows
  /\ IF next >= NumThreads
     THEN /\ thr_idx_profiled_global' = 0
          /\ monitorStartFlag' = FALSE
          /\ enable_array_scans' = FALSE
          /\ cbm' = ShareAllCbm(cbm) /\ cosOf' = ShareAllCos
     ELSE /\ thr_idx_profiled_global' = next
          /\ UNCHANGED <<monitorStartFlag, enable_array_scans, hw>>
  /\ UNCHANGED <<firstMRCInvocation, mrc_invoke_monitor_len>>

\* The profiled thread collected its point: apply the next slice.
AdvanceSlice(t, status) ==
  /\ ~(sampleSlicesIdx = num_ways_to_sample /\ status # 5)
  /\ t = thr_idx_profiled_global /\ status = 0
  /\ cbm' = SetCbm(cbm, sampleSlicesIdx)
  /\ cosOf' = SetCos(thr_idx_profiled_global)
  /\ currentlySampling' = SetSampling(sampleSlicesIdx, thr_idx_profiled_global)
  /\ sampleSlicesIdx' = sampleSlicesIdx + 1
  /\ UNCHANGED <<monitorStartFlag, firstMRCInvocation, thr_idx_profiled_global,
                 mrc_invoke_monitor_len, enable_array_scans, mrc_est_index, emitted>>

\* A co-runner's point, or the profiled thread's glitched one: wait.
KeepSlice(t, status, rows) ==
  /\ t = thr_idx_profiled_global => status = 5
  /\ currentlySampling' = rows
  /\ UNCHANGED <<hw, ctl, mrc_est_index, emitted>>

\* Off the gate while monitoring: record this thread's point for slot
\* sampleSlicesIdx-1 (counters against the last snapshot), then go on.
RecordSample(t, ph) ==
  /\ ph % mrc_invoke_monitor_len # 0 /\ monitorStartFlag /\ ph % MonitorLen = 0
  /\ LET i      == sampleSlicesIdx - 1
         glitch == ~fresh[t]   \* values[1] - lastInstrCtr == 0
         slot   == 0 .. num_ways_to_sample - 1
         status == IF glitch THEN 5 ELSE 0
         rows   == [currentlySampling EXCEPT ![t].status = status]
         xs     == IF i \in slot THEN [xPoints[t] EXCEPT ![i] = currentlySampling[t].ways]
                   ELSE xPoints[t]
         ys     == IF i \in slot /\ ~glitch THEN [yPoints[t] EXCEPT ![i] = values[t]]
                   ELSE yPoints[t]
     IN /\ xPoints' = [xPoints EXCEPT ![t] = xs]
        /\ yPoints' = [yPoints EXCEPT ![t] = ys]
        /\ \/ EmitEstimate(t, xs, ys, status, rows)
           \/ AdvanceSlice(t, status)
           \/ KeepSlice(t, status, rows)

\* The handler's counter snapshots (lastInstrCtr = values[1]) happen before
\* read_counters: outside a round from the second phase on, on the gate,
\* and in the sampling branch.
Snapshot(t, ph) ==
  \/ ~monitorStartFlag /\ ph > 1
  \/ ph % mrc_invoke_monitor_len = 0
  \/ monitorStartFlag /\ ph % MonitorLen = 0

\* read_counters(): the record read now is the one of the phase that just
\* ended, so values[t] lags the phase being accounted by one overflow.  A
\* record that is not a SAMPLE makes it return before values is written.
ReadCounters(t, ph, isSample) ==
  /\ values' = [values EXCEPT ![t] = IF isSample THEN phaseWays[t] ELSE @]
  /\ fresh' = [fresh EXCEPT ![t] = isSample \/ (@ /\ ~Snapshot(t, ph))]

\* Leader reached num_phases: request termination.
DoneCheck(t, ph) ==
  IF t = 0 /\ ph >= NumPhases
  THEN /\ done' = TRUE
       /\ first_finished_thread' = IF first_finished_thread = -1 THEN 0
                                   ELSE first_finished_thread
  ELSE UNCHANGED <<done, first_finished_thread>>

\* Hardware: thread t starts a new phase with the ways it now holds; a
\* thread whose ways this handler changed ran part of its phase with each.
NewPhase(t) ==
  phaseWays' = [u \in Threads |->
                  IF u = t THEN WaysHeld(cbm', cosOf', u)
                  ELSE IF WaysHeld(cbm', cosOf', u) # WaysHeld(cbm, cosOf, u)
                       THEN MIXED ELSE phaseWays[u]]

\* One overflow of thread t and the whole handler it triggers.
Handler(t) ==
  \E isSample \in SampleRecord :
    LET ph == phases[t] + 1 IN
    /\ phases' = [phases EXCEPT ![t] = ph]
    /\ \/ StartProfiling(t, ph)
       \/ GateSnapshot(t, ph)
       \/ WarmupTick(t, ph)
       \/ RecordSample(t, ph)
    /\ ReadCounters(t, ph, isSample)
    /\ DoneCheck(t, ph)
    /\ NewPhase(t)

Next == \E t \in Threads : phases[t] < PhaseBound /\ Handler(t)

Spec == Init /\ [][Next]_vars

(***************************************************************************)
(* CurveBuilder over the emitted rounds.  A point's y tag says which ways  *)
(* the phase ran with; what its counters measured is any value of         *)
(* MpkiOf / IpcOf of that tag.  Slot 0 carries the number of slot 1       *)
(* (:808-809).  A history gives the numbers of every emitted round;        *)
(* mrcEstimates / ipcCurveEstimates hold its columns as the dumps leave    *)
(* them, and sampledMRCs.col(t) / sampledIPCs.col(t) their window average  *)
(* written at the thread's last emission (:829-884).                      *)
(***************************************************************************)
RoundValues(p, Of) ==
  { [i \in DOMAIN p |-> v[IF i = 0 THEN 1 ELSE i]] :
      v \in { f \in [DOMAIN p \ {0} -> UNION {Of[p[j].y] : j \in DOMAIN p}] :
                \A j \in DOMAIN p \ {0} : f[j] \in Of[p[j].y] } }

RECURSIVE Histories(_, _)
Histories(ps, Of) ==
  IF ps = <<>> THEN {<<>>}
  ELSE { Append(h, v) : h \in Histories(SubSeq(ps, 1, Len(ps) - 1), Of),
                        v \in RoundValues(ps[Len(ps)], Of) }

XsOf(p) == [i \in DOMAIN p |-> p[i].x]

sampledMRCs(t, hist) ==
  WindowSum([k \in 1 .. Len(hist) |-> SmoothMrc(EstimateColumn(XsOf(emitted[t][k]), hist[k]))])

sampledIPCs(t, hist) ==
  WindowSum([k \in 1 .. Len(hist) |-> SmoothIpc(EstimateColumn(XsOf(emitted[t][k]), hist[k]))])

(***************************************************************************)
(* Refinement mapping onto ProfilingRounds: the round's target is          *)
(* thr_idx_profiled_global, the slices applied are sampleSlicesIdx while   *)
(* monitorStartFlag is up (the index is -1 or 0 outside rounds), and a     *)
(* target's estimates are its mrc_est_index.  The gate restarts rounds.    *)
(***************************************************************************)
Rounds == INSTANCE ProfilingRounds
            WITH NumTargets   <- NumThreads,
                 NumSlices    <- num_ways_to_sample,
                 GateRestarts <- TRUE,
                 monitoring   <- monitorStartFlag,
                 target       <- thr_idx_profiled_global,
                 slice        <- IF monitorStartFlag THEN sampleSlicesIdx ELSE 0,
                 estimates    <- mrc_est_index

-----------------------------------------------------------------------------
Tags == {NONE, MIXED} \cup 0 .. W
Slots == 0 .. num_ways_to_sample - 1

TypeOK ==
  /\ cbm \in [Cos -> SUBSET Ways] /\ cosOf \in [Cores -> Cos]
  /\ monitorStartFlag \in BOOLEAN /\ firstMRCInvocation \in BOOLEAN
  /\ sampleSlicesIdx \in -1 .. num_ways_to_sample
  /\ thr_idx_profiled_global \in Threads
  /\ mrc_invoke_monitor_len \in {WarmupInterval, ProfileInterval}
  /\ enable_array_scans \in BOOLEAN
  /\ currentlySampling \in [Cores -> [ways : 0 .. W, status : {0, 1, 5}]]
  /\ phases \in [Threads -> 0 .. PhaseBound]
  /\ values \in [Threads -> Tags] /\ phaseWays \in [Threads -> Tags]
  /\ fresh \in [Threads -> BOOLEAN]
  /\ xPoints \in [Threads -> [Slots -> 0 .. W]]
  /\ yPoints \in [Threads -> [Slots -> Tags]]
  /\ mrc_est_index \in [Threads -> Nat]
  /\ \A t \in Threads : Len(emitted[t]) = mrc_est_index[t]
  /\ done \in BOOLEAN /\ first_finished_thread \in {-1, 0}

(* Co-runner isolation (spec 3, 8): while a round is running the two      *)
(* classes written by set_cacheways_to_cores split the cache exactly, and  *)
(* exactly one core runs in the profiled class 1; all others in class 2.   *)
Isolation ==
  monitorStartFlag =>
    /\ cbm[1] \cap cbm[2] = {} /\ cbm[1] \cup cbm[2] = Ways
    /\ cbm[1] # {} /\ cbm[2] # {}
    /\ \A k \in Cores : cosOf[k] \in {1, 2}
    /\ Cardinality({k \in Cores : cosOf[k] = 1}) = 1

(* currentlySampling is the handler's only record of how many ways each    *)
(* thread holds (it becomes xPoints); while monitoring, the row read for   *)
(* every profiled thread must equal what CAT really gives that thread's    *)
(* core.                                                                   *)
SamplingRowsMatchHardware ==
  monitorStartFlag =>
    \A t \in Threads : currentlySampling[t].ways = WaysHeld(cbm, cosOf, t)

(* Outside a profiling round every core may use the whole cache: the round *)
(* end in the handler shares all ways again, as main() did at start-up.    *)
SharedWhenIdle ==
  ~monitorStartFlag => \A k \in Cores : cbm[cosOf[k]] = Ways

(* The slot written by the sampling branch, sampleSlicesIdx-1, is a valid  *)
(* index of xPoints/yPoints whenever the branch can run.                   *)
SampleSlotInRange ==
  monitorStartFlag => sampleSlicesIdx \in 1 .. num_ways_to_sample

(* Every point of an emitted curve, warmup slot excepted, was measured     *)
(* over a phase during which the thread held exactly the ways it is        *)
(* labelled with (spec 4.6: deltas taken while holding ways_held).         *)
EmittedPointsMeasuredAtLabel ==
  \A t \in Threads : \A k \in 1 .. Len(emitted[t]) :
    \A i \in Slots : emitted[t][k][i].y = emitted[t][k][i].x

(* Spec 3: within a target's round slice_idx only advances; it is reset    *)
(* only when the round completes and the target changes.                   *)
SliceIdxMonotonic ==
  [][monitorStartFlag /\ monitorStartFlag'
     /\ thr_idx_profiled_global' = thr_idx_profiled_global
       => sampleSlicesIdx' >= sampleSlicesIdx]_vars

(* The curves a round hands on (sampledMRCs / sampledIPCs, :883-884) are    *)
(* usable whatever the round's samples measured, noisy, lagged or taken    *)
(* over a phase whose ways changed: every row is a number (the interpolation      *)
(* range and the tail copy of :815-821), the miss curve never rises and    *)
(* the IPC curve never falls with more ways (the in-place smoothing of     *)
(* dump_*_estimates before the window average).                            *)
SampledCurvesMonotone ==
  \A t \in Threads : emitted[t] /= <<>> =>
    /\ \A hist \in Histories(emitted[t], MpkiOf) :
         LET m == sampledMRCs(t, hist)
         IN \A r \in Rows : m[r] /= NaN /\ (r > 0 => m[r] <= m[r - 1])
    /\ \A hist \in Histories(emitted[t], IpcOf) :
         LET c == sampledIPCs(t, hist)
         IN \A r \in Rows : c[r] /= NaN /\ (r > 0 => c[r] >= c[r - 1])

(* The handler runs the rounds spec 3 and 4.5 describe (ProfilingRounds):  *)
(* the targets take turns in tidx order, a round applies every slice of    *)
(* the plan in order before its one estimate is emitted, only the round's  *)
(* target gets that estimate, and monitoring ends with the last target's   *)
(* round.  It relates the gate, AdvanceSlice and EmitEstimate of all       *)
(* threads' handlers over whole rounds.                                    *)
RoundsRefined == Rounds!RoundsSpec

==============================================================================
