------------------------------ MODULE Counters ------------------------------
(***************************************************************************)
(* One profiled thread's PMU event groups (CounterGroup) and its MBM      *)
(* memory-traffic accounting (BandwidthMonitor), as driven by the kernel, *)
(* the memory system and the tracer's SIGTHYME handler                    *)
(* (src/profiler/datamime-profiler.cpp).                                   *)
(*                                                                         *)
(*   - The kernel: the armed group's leader overflows every phase_len     *)
(*     reference cycles.  PERF_EVENT_IOC_REFRESH n arms a group for n     *)
(*     more overflows, after which the kernel disables it.  Every         *)
(*     overflow queues one SIGTHYME carrying the group leader's fd.       *)
(*   - The memory system: the rmid's MBM counter grows and wraps.         *)
(*   - The handler (main thread, one invocation at a time): counts the    *)
(*     phase, reads the MBM counter twice (getMemTrafficDelta, then       *)
(*     updateMemTraffic's second read), reads one ring-buffer record and, *)
(*     if it is a sample, rotates to the next group after                 *)
(*     PHASES_BETWEEN_SWITCHES phases outside MRC mode.                   *)
(*                                                                         *)
(* The Coordinator's state machine, which runs between the phase count    *)
(* and read_counters, is modelled in Coordinator.tla; it touches none of  *)
(* this module's state.                                                   *)
(***************************************************************************)
EXTENDS Integers, Sequences, Functions, FiniteSetsExt

CONSTANTS
    RotatingEventCounts, \* numbers of rotating events filter_events may leave
    MbmMax,           \* modulus of the MBM counter (cmtCtrl.getMemTrafficMax())
    TrafficStep,      \* most bytes the thread moves in one step of the model
    TrafficBound,     \* bound on the thread's total traffic
    MaxPending,       \* bound on the queued SIGTHYME signals
    MaxOpenFailures   \* most failing perf_event_open calls of create_event_groups

ASSUME /\ RotatingEventCounts \subseteq Nat /\ RotatingEventCounts /= {}
       /\ MbmMax \in Nat \ {0}
       /\ TrafficStep \in 1 .. MbmMax - 1
       /\ TrafficBound \in Nat
       /\ MaxPending \in Nat \ {0}
       /\ MaxOpenFailures \in Nat

\* datamime-profiler.h:36 and :40
MAX_GROUP_EVENTS == 6
PHASES_BETWEEN_SWITCHES == 10

\* INST_RETIRED and CPU_CLK_UNHALTED, grouped with the clock event
NumPermanentEvents == 2

\* EventGroup::add_event: a group takes one more event while it has room.
add_eventLeq(num_events) == num_events <= MAX_GROUP_EVENTS
add_event(num_events) == num_events < MAX_GROUP_EVENTS

(***************************************************************************)
(* The loop of create_event_groups (:1155-1173) with add_event's          *)
(* perf_event_open (:1085-1090).  Rotating events are numbered 1 .. n;    *)
(* sizes are the event counts of the groups built so far; fails is the    *)
(* set of opens <<e, k>> (event e's k-th perf_event_open) that fail.  The  *)
(* last group takes event e when it has room and the open succeeds; when  *)
(* it is full (no open) or the open fails, a new group of the clock and   *)
(* the permanent events is made and takes e, whose open there must        *)
(* succeed: assert(ret) aborts the tracer otherwise, the result <<>>.     *)
(***************************************************************************)
\* The same loop as built without assertions (NDEBUG): the failed retry is
\* ignored and the new group holds no rotating event.
RECURSIVE PackEventsNoAssert(_, _, _, _)
PackEventsNoAssert(n, e, sizes, fails) ==
    IF e > n THEN sizes
    ELSE LET tries == IF add_event(sizes[Len(sizes)]) THEN 1 ELSE 0
         IN IF tries = 1 /\ <<e, 1>> \notin fails
            THEN PackEventsNoAssert(n, e + 1, [sizes EXCEPT ![Len(sizes)] = @ + 1], fails)
            ELSE IF <<e, tries + 1>> \in fails
            THEN PackEventsNoAssert(n, e + 1, Append(sizes, 1 + NumPermanentEvents), fails)
            ELSE PackEventsNoAssert(n, e + 1, Append(sizes, 1 + NumPermanentEvents + 1), fails)

RECURSIVE PackEvents(_, _, _, _)
PackEvents(n, e, sizes, fails) ==
    IF e > n THEN sizes
    ELSE LET tries == IF add_event(sizes[Len(sizes)]) THEN 1 ELSE 0
         IN IF tries = 1 /\ <<e, 1>> \notin fails
            THEN PackEvents(n, e + 1, [sizes EXCEPT ![Len(sizes)] = @ + 1], fails)
            ELSE IF <<e, tries + 1>> \in fails THEN <<>>
            ELSE PackEvents(n, e + 1, Append(sizes, 1 + NumPermanentEvents + 1), fails)

\* The group sizes create_event_groups builds for n rotating events when
\* the opens in fails fail.
create_event_groups_failing(n, fails) ==
    PackEvents(n, 1, <<1 + NumPermanentEvents>>, fails)

create_event_groups(n) == create_event_groups_failing(n, {})

\* The refresh count 1 << 62 given in MRC mode, which no run exhausts; it
\* is kept apart from the counts of rotation as the marker -1.
Forever == -1

VARIABLES
    mrc_est_mode,               \* args.mrc_est_mode
    num_rotating_events,        \* tinfo.num_rotating_events
    refresh,                    \* kernel: overflows left on each group leader
    pending,                    \* kernel: queued SIGTHYME signals (si_fd = group)
    phases_with_current_group,  \* tinfo.phases_with_current_group
    pc,                         \* handler: "idle", or "read" between the two MBM reads
    fd,                         \* handler: info->si_fd of the running invocation
    mbm,                        \* hardware: the rmid's local memory-traffic counter
    memTrafficLast,             \* tinfo.memTrafficLast
    memTrafficTotal,            \* tinfo.memTrafficTotal
    trueTraffic,                \* ghost: bytes really moved since initCmt
    recordLost                  \* ghost: a rotation phase's record was not a SAMPLE

counterVars == <<mrc_est_mode, num_rotating_events, refresh, pending, phases_with_current_group,
                 pc, fd, mbm, memTrafficLast, memTrafficTotal, trueTraffic, recordLost>>

Groups == 0 .. Len(create_event_groups(Max(RotatingEventCounts))) - 1

\* The number of groups for each count of rotating events (a constant,
\* which TLC evaluates once).
GroupCount == [n \in RotatingEventCounts \cup {0} |-> Len(create_event_groups(n))]

NumGroups == GroupCount[num_rotating_events]

ActiveGroups == 0 .. NumGroups - 1

Armed(g) == refresh[g] /= 0

(***************************************************************************)
(* ThreadInfo::create_event_groups (:1114-1199) and initCmt (:293-301).   *)
(* The first group is armed with PERF_EVENT_IOC_REFRESH; every other      *)
(* leader is opened disabled.  The MBM counter has whatever value the     *)
(* hardware holds; initCmt takes it as memTrafficLast.                    *)
(***************************************************************************)
initCmt == memTrafficLast = mbm /\ memTrafficTotal = 0

CountersInit ==
    /\ mrc_est_mode \in BOOLEAN
    \* MRC mode has no rotating events, hence the one group of the clock
    \* and the permanent events.
    /\ num_rotating_events \in IF mrc_est_mode THEN {0} ELSE RotatingEventCounts
    /\ refresh = [g \in Groups |->
                    IF g # 0 THEN 0
                    ELSE IF mrc_est_mode THEN Forever ELSE PHASES_BETWEEN_SWITCHES]
    /\ pending = <<>>
    /\ phases_with_current_group = 0
    /\ pc = "idle"
    /\ fd = 0
    /\ mbm \in 0 .. MbmMax - 1
    /\ initCmt
    /\ trueTraffic = 0
    /\ recordLost = FALSE

(***************************************************************************)
(* Kernel: the armed leader of group g overflows, uses one refresh and    *)
(* queues a SIGTHYME for the group's fd (initialize_event :996-1005,      *)
(* EventGroup's F_SETSIG/F_SETOWN :1047-1065).                            *)
(***************************************************************************)
Overflow(g) ==
    /\ g \in ActiveGroups
    /\ Armed(g)
    /\ Len(pending) < MaxPending
    /\ refresh' = [refresh EXCEPT ![g] = IF @ = Forever THEN @ ELSE @ - 1]
    /\ pending' = Append(pending, g)
    /\ UNCHANGED <<mrc_est_mode, num_rotating_events, phases_with_current_group, pc, fd,
                   mbm, memTrafficLast, memTrafficTotal, trueTraffic, recordLost>>

(***************************************************************************)
(* Hardware: the thread moves n bytes; the MBM counter wraps at MbmMax.   *)
(***************************************************************************)
Traffic(n) ==
    /\ trueTraffic + n <= TrafficBound
    /\ mbm' = (mbm + n) % MbmMax
    /\ trueTraffic' = trueTraffic + n
    /\ UNCHANGED <<mrc_est_mode, num_rotating_events, refresh, pending, phases_with_current_group,
                   pc, fd, memTrafficLast, memTrafficTotal, recordLost>>

\* getMemTrafficDelta (:267-282) for the counter value memTraffic.
getMemTrafficDeltaNoWrap(memTraffic, last) == memTraffic - last
getMemTrafficDeltaLeq(memTraffic, last) ==
    IF memTraffic <= last THEN (MbmMax - last) + memTraffic
                          ELSE memTraffic - last
getMemTrafficDelta(memTraffic, last) ==
    IF memTraffic < last THEN (MbmMax - last) + memTraffic
                         ELSE memTraffic - last

(***************************************************************************)
(* sigthyme_handler's entry (:703-709) up to the first read of            *)
(* read_counters (:592-593): take the next queued signal, count the       *)
(* phase, and add getMemTrafficDelta to memTrafficTotal.  In MRC mode the *)
(* count only grows and is only compared with PHASES_BETWEEN_SWITCHES, so *)
(* it saturates there.                                                    *)
(***************************************************************************)
HandlerStart ==
    /\ pc = "idle"
    /\ pending /= <<>>
    /\ fd' = Head(pending)
    /\ pending' = Tail(pending)
    /\ phases_with_current_group' =
          IF mrc_est_mode
          THEN IF phases_with_current_group < PHASES_BETWEEN_SWITCHES
               THEN phases_with_current_group + 1 ELSE phases_with_current_group
          ELSE phases_with_current_group + 1
    /\ memTrafficTotal' = memTrafficTotal + getMemTrafficDelta(mbm, memTrafficLast)
    /\ pc' = "read"
    /\ UNCHANGED <<mrc_est_mode, num_rotating_events, refresh, mbm, memTrafficLast, trueTraffic, recordLost>>

ShouldSwitchEarly ==
    phases_with_current_group >= PHASES_BETWEEN_SWITCHES - 1 /\ ~mrc_est_mode
ShouldSwitch ==
    phases_with_current_group >= PHASES_BETWEEN_SWITCHES /\ ~mrc_est_mode

\* The group after g in event_groups' iteration order, wrapping to begin()
\* (:689-692); the order of the unordered_map is some fixed cycle.
NextGroupStay(g) == g
NextGroup(g) == (g + 1) % NumGroups

(***************************************************************************)
(* The rest of read_counters (:586-700): updateMemTraffic's second read   *)
(* becomes memTrafficLast (:286); a record that is not a                  *)
(* PERF_RECORD_SAMPLE returns early (:615-618); otherwise the values are  *)
(* read and, when ShouldSwitch, the count is reset and the next group is  *)
(* armed with PERF_EVENT_IOC_REFRESH, which adds to its refresh count.    *)
(***************************************************************************)
HandlerSkipRecord ==
    /\ pc = "read"
    /\ memTrafficLast' = mbm
    /\ pc' = "idle"
    /\ recordLost' = (recordLost \/ ShouldSwitch)
    /\ UNCHANGED <<mrc_est_mode, num_rotating_events, refresh, pending, phases_with_current_group,
                   fd, mbm, memTrafficTotal, trueTraffic>>

HandlerReadSample ==
    /\ pc = "read"
    /\ memTrafficLast' = mbm
    /\ pc' = "idle"
    /\ IF ShouldSwitch
       THEN /\ phases_with_current_group' = 0
            /\ refresh' = [refresh EXCEPT ![NextGroup(fd)] = @ + PHASES_BETWEEN_SWITCHES]
       ELSE UNCHANGED <<phases_with_current_group, refresh>>
    /\ UNCHANGED <<mrc_est_mode, num_rotating_events, pending, fd, mbm, memTrafficTotal, trueTraffic, recordLost>>

CountersNext ==
    \/ \E g \in Groups : Overflow(g)
    \/ \E n \in 1 .. TrafficStep : Traffic(n)
    \/ HandlerStart
    \/ HandlerSkipRecord
    \/ HandlerReadSample

(***************************************************************************)
(* Fairness: the profiled thread keeps running, so an armed leader keeps  *)
(* overflowing; the kernel delivers queued signals and the main thread    *)
(* runs the handler to its end.  Which record the ring buffer holds is    *)
(* not up to the handler, so only the handler's step as a whole is fair.  *)
(* Memory traffic is not required to happen.                              *)
(***************************************************************************)
CountersSpec ==
    /\ CountersInit
    /\ [][CountersNext]_counterVars
    /\ \A g \in Groups : WF_counterVars(Overflow(g))
    /\ WF_counterVars(HandlerStart)
    /\ WF_counterVars(HandlerSkipRecord \/ HandlerReadSample)

-----------------------------------------------------------------------------
CountersTypeOK ==
    /\ mrc_est_mode \in BOOLEAN
    /\ num_rotating_events \in RotatingEventCounts \cup {0}
    /\ refresh \in [Groups -> Nat \cup {Forever}]
    /\ pending \in Seq(Groups)
    /\ phases_with_current_group \in Nat
    /\ pc \in {"idle", "read"}
    /\ fd \in Groups
    /\ mbm \in 0 .. MbmMax - 1
    /\ memTrafficLast \in 0 .. MbmMax - 1
    /\ memTrafficTotal \in Nat
    /\ trueTraffic \in 0 .. TrafficBound
    /\ recordLost \in BOOLEAN

(***************************************************************************)
(* Group rotation (read_counters :686-699 against the kernel's refresh    *)
(* accounting): outside MRC mode the handler's phases_with_current_group, *)
(* the signals not yet handled and the overflows the kernel still allows  *)
(* always add up to PHASES_BETWEEN_SWITCHES, and at most one group is     *)
(* armed.  So the handler rotates exactly when the current group has      *)
(* used its last refresh, and two groups never count at once (spec 3:     *)
(* "at any time exactly one is active").                                  *)
(***************************************************************************)
RotationInStep ==
    ~mrc_est_mode =>
        /\ phases_with_current_group + Len(pending)
             + FoldFunctionOnSet(+, 0, refresh, Groups) = PHASES_BETWEEN_SWITCHES
        /\ \A g, h \in Groups : Armed(g) /\ Armed(h) => g = h

(***************************************************************************)
(* BandwidthMonitor (getMemTrafficDelta :267-282, updateMemTraffic        *)
(* :284-287): the wrap-aware delta never reports more traffic than the    *)
(* thread really moved since initCmt, whatever the counter wraps and      *)
(* however the reads interleave with the traffic.                         *)
(***************************************************************************)
NoOvercount == memTrafficTotal <= trueTraffic

(***************************************************************************)
(* create_event_groups (:1155-1173) with add_event (:1082-1097), whatever *)
(* perf_event_open calls fail (up to MaxOpenFailures of them): unless     *)
(* assert(ret) aborts the tracer, no group has more than MAX_GROUP_EVENTS *)
(* events (the PMU could not schedule it), no rotating event is dropped   *)
(* (a failed open only moves it to a new group), and there are as few    *)
(* groups as the free slots allow, plus at most one per failed open.      *)
(***************************************************************************)
GroupsFitFor(n) ==
    LET slots == MAX_GROUP_EVENTS - 1 - NumPermanentEvents
        least == IF n = 0 THEN 1 ELSE (n + slots - 1) \div slots
    IN \A k \in 0 .. MaxOpenFailures : \A fails \in kSubset(k, (1 .. n) \X {1, 2}) :
         LET sizes == create_event_groups_failing(n, fails)
         IN sizes /= <<>> =>
              /\ \A i \in DOMAIN sizes : sizes[i] <= MAX_GROUP_EVENTS
              /\ FoldFunction(+, 0, sizes) = Len(sizes) * (1 + NumPermanentEvents) + n
              /\ Len(sizes) \in least .. least + k

\* The verdict for every count of rotating events the model starts from (a
\* constant, which TLC evaluates once).
GroupsFit == [n \in RotatingEventCounts \cup {0} |-> GroupsFitFor(n)]

EventGroupsFit == GroupsFit[num_rotating_events]

-----------------------------------------------------------------------------
(***************************************************************************)
(* Refinement mapping onto GroupRotation.  The active group is the armed  *)
(* one; when none is armed, it is the group whose signals are still       *)
(* queued or, once they are all handled, the group of the last handled    *)
(* signal (fd).  The phases it has used are the refreshes it has spent.   *)
(* Overflows of the active group are Phase steps, the handler's switch is *)
(* the Rotate step, and every other step of the model stutters.           *)
(***************************************************************************)
RotActive ==
    IF \E g \in ActiveGroups : Armed(g) THEN CHOOSE g \in ActiveGroups : Armed(g)
    ELSE IF pending /= <<>> THEN Head(pending)
    ELSE fd

RotUsed ==
    IF mrc_est_mode THEN 0 ELSE PHASES_BETWEEN_SWITCHES - refresh[RotActive]

Rotation == INSTANCE GroupRotation
                WITH Phases <- PHASES_BETWEEN_SWITCHES,
                     mrc <- mrc_est_mode,
                     groups <- NumGroups,
                     active <- RotActive,
                     used <- RotUsed

(***************************************************************************)
(* The kernel's refresh accounting together with read_counters' rotation  *)
(* (:686-699) implements spec 4.3's rotation: only the active group's     *)
(* leader counts phases, the handler switches exactly after               *)
(* PHASES_BETWEEN_SWITCHES of them, to the next group of a fixed cycle,   *)
(* and MRC mode never rotates.                                            *)
(***************************************************************************)
RotationRefined == Rotation!RotationSpec

=============================================================================
