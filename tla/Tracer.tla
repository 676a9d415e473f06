------------------------------- MODULE Tracer --------------------------------
(***************************************************************************)
(* The tracer process around the Coordinator: the ptrace life cycle of the *)
(* profiled threads (attach, SIGSTOP, PTRACE_DETACH, exit), the waitpid    *)
(* loop of profile(), the SIGINT handler fini_handler, and the places      *)
(* where a SIGTHYME handler runs in between.                               *)
(*                                                                         *)
(* SIGTHYME is delivered to the tracer's main thread (the filler thread    *)
(* blocks every signal), so a handler invocation runs between any two      *)
(* steps of profile() or of fini_handler, never concurrently with them.    *)
(* Each step below is the code between two such points that matter.        *)
(***************************************************************************)
EXTENDS Coordinator

CONSTANTS
  AllowExit,       \* may a profiled workload thread exit on its own?
  AllowSigint,     \* may the user interrupt the profiler with SIGINT?
  AllowUserStop,   \* may someone else send SIGSTOP to a profiled thread?
  AllowKill        \* may a profiled thread be killed by a signal?

ASSUME {AllowExit, AllowSigint, AllowUserStop, AllowKill} \subseteq BOOLEAN

VARIABLES
  tstate,     \* per thread: running | stopped | exited | killed | detached | gone
  sigstop,    \* per thread: a SIGSTOP is pending for it
  entry,      \* per thread: tid_map[tid] is info | absent | null
  fileOpen,   \* per thread: its output FILEs are still open
  pc,         \* profile()/main/fini_handler position of the main thread
  cur,        \* pid that waitpid returned last
  finiCore,   \* next coreID of share_all_cache_ways inside fini_handler
  fault,      \* first invalid dereference or FILE use, if any
  exitCode,   \* exit status once pc = "exited" (139: killed by SIGSEGV)
  filler      \* scan_array: "check" (testing the flag) or "scan" (in a pass)

tracer == <<tstate, sigstop, entry, fileOpen, pc, cur, finiCore, fault, exitCode, filler>>
allVars == <<vars, tracer>>

Alive == pc # "exited"

\* profile(): the loop runs while tid_map holds more than the filler's
\* entry; an entry re-created by operator[] counts as well.
\* Mutant of LoopDone: the filler's own entry counted twice.
LoopDoneFillerTwice == Cardinality({t \in Threads : entry[t] # "absent"}) <= 1

LoopDone == \A t \in Threads : entry[t] = "absent"

TracerInit ==
  /\ Init
  /\ tstate = [t \in Threads |-> "running"]   \* attach(): PTRACE_SEIZE
  /\ sigstop = [t \in Threads |-> FALSE]
  /\ entry = [t \in Threads |-> "info"]
  /\ fileOpen = [t \in Threads |-> TRUE]
  /\ pc = "wait" /\ cur = 0 /\ finiCore = 0
  /\ fault = "none" /\ exitCode = 0
  /\ filler = "check"                         \* create_scan_threads()

\* A PMU overflow of a thread that runs: the whole sigthyme_handler when
\* tid_map still has the thread's record; the leader that reaches
\* num_phases sends itself SIGSTOP (tgkill).
Overflow(t) ==
  /\ Alive /\ tstate[t] \in {"running", "detached"} /\ phases[t] < PhaseBound
  /\ entry[t] = "info"
  /\ Handler(t)
  /\ sigstop' = IF first_finished_thread = -1 /\ first_finished_thread' # -1
                THEN [sigstop EXCEPT ![t] = TRUE] ELSE sigstop
  /\ fault' = IF fileOpen[t] THEN fault ELSE "closed_file"
  /\ UNCHANGED <<tstate, entry, fileOpen, pc, cur, finiCore, exitCode, filler>>

\* The same overflow once the record was erased: *tid_map[fd_map[fd]]
\* inserts a null entry and dereferences it; the tracer dies of SIGSEGV.
OverflowErased(t) ==
  /\ Alive /\ tstate[t] \in {"running", "detached"} /\ phases[t] < PhaseBound
  /\ entry[t] # "info"
  /\ entry' = [entry EXCEPT ![t] = "null"]
  /\ fault' = "null_entry" /\ pc' = "exited" /\ exitCode' = 139
  /\ UNCHANGED <<vars, tstate, sigstop, fileOpen, cur, finiCore, filler>>

\* Kernel: a running traced thread takes its pending SIGSTOP and enters
\* signal-delivery-stop, reported to waitpid.
DeliverStop(t) ==
  /\ tstate[t] = "running" /\ sigstop[t]
  /\ tstate' = [tstate EXCEPT ![t] = "stopped"]
  /\ sigstop' = [sigstop EXCEPT ![t] = FALSE]
  /\ UNCHANGED <<vars, entry, fileOpen, pc, cur, finiCore, fault, exitCode, filler>>

\* The workload thread exits; a traced one is reported to waitpid.
ThreadExit(t) ==
  /\ AllowExit /\ tstate[t] \in {"running", "detached"}
  /\ tstate' = [tstate EXCEPT ![t] = IF @ = "running" THEN "exited" ELSE "gone"]
  /\ UNCHANGED <<vars, sigstop, entry, fileOpen, pc, cur, finiCore, fault, exitCode, filler>>

\* A fatal signal (SIGKILL, or one the tracer forwarded with PTRACE_CONT)
\* kills the workload thread; a traced one is reported as WIFSIGNALED.
ThreadKilled(t) ==
  /\ AllowKill /\ tstate[t] \in {"running", "detached"}
  /\ tstate' = [tstate EXCEPT ![t] = IF @ = "running" THEN "killed" ELSE "gone"]
  /\ UNCHANGED <<vars, sigstop, entry, fileOpen, pc, cur, finiCore, exitCode, fault, filler>>

\* waitpid returns WIFSIGNALED.  The done branch comes first: its
\* PTRACE_DETACH of the reaped thread fails (ESRCH) and the tracer calls
\* exit(1).  Before done, the PTRACE_CONT (whose failure is ignored),
\* flush() and the erase.
ReapKilled(t) ==
  /\ pc = "wait" /\ ~LoopDone /\ tstate[t] = "killed"
  /\ tstate' = [tstate EXCEPT ![t] = "gone"]
  /\ cur' = t
  /\ IF done
     THEN /\ pc' = "exited" /\ exitCode' = 1 /\ UNCHANGED fileOpen
     ELSE /\ fileOpen' = [fileOpen EXCEPT ![t] = FALSE]
          /\ pc' = "erase" /\ UNCHANGED exitCode
  /\ UNCHANGED <<vars, sigstop, entry, finiCore, fault, filler>>

\* waitpid returns WIFEXITED: flush() closes the thread's files.
ReapExited(t) ==
  /\ pc = "wait" /\ ~LoopDone /\ tstate[t] = "exited"
  /\ tstate' = [tstate EXCEPT ![t] = "gone"]
  /\ fileOpen' = [fileOpen EXCEPT ![t] = FALSE]
  /\ cur' = t /\ pc' = "erase"
  /\ UNCHANGED <<vars, sigstop, entry, finiCore, fault, exitCode, filler>>

\* waitpid returns a SIGSTOP stop: before done this is the "unexpected
\* state" exit(1); once done, PTRACE_DETACH with signal 0 lets it run on.
DetachStopped(t) ==
  /\ pc = "wait" /\ ~LoopDone /\ tstate[t] = "stopped"
  /\ cur' = t
  /\ IF done
     THEN /\ tstate' = [tstate EXCEPT ![t] = "detached"]
          /\ pc' = "flush" /\ UNCHANGED exitCode
     ELSE /\ pc' = "exited" /\ exitCode' = 1 /\ UNCHANGED tstate
  /\ UNCHANGED <<vars, sigstop, entry, fileOpen, finiCore, fault, filler>>

\* tid_map[pid]->flush() after the detach.
FlushDetached ==
  /\ pc = "flush"
  /\ fileOpen' = [fileOpen EXCEPT ![cur] = FALSE]
  /\ pc' = "erase"
  /\ UNCHANGED <<vars, tstate, sigstop, entry, cur, finiCore, fault, exitCode, filler>>

\* Mutant of AfterErase: the SIGSTOP loop dropped.
AfterEraseNoStop(t) == "wait"

\* After erasing the first finished thread, SIGSTOP every other thread.
AfterErase(t) == IF t = first_finished_thread /\ tstate[t] = "detached"
                 THEN "stopothers" ELSE "wait"

\* tid_map.erase(pid).
Erase ==
  /\ pc = "erase"
  /\ entry' = [entry EXCEPT ![cur] = "absent"]
  /\ pc' = AfterErase(cur)
  /\ UNCHANGED <<vars, tstate, sigstop, fileOpen, cur, finiCore, fault, exitCode, filler>>

\* for (auto it : tid_map) tgkill(..., SIGSTOP) to every remaining thread.
\* (A null entry cannot be met here: the handler that creates one crashes.)
StopOthers ==
  /\ pc = "stopothers"
  /\ sigstop' = [t \in Threads |-> sigstop[t] \/ entry[t] = "info"]
  /\ pc' = "wait"
  /\ UNCHANGED <<vars, tstate, entry, fileOpen, cur, finiCore, fault, exitCode, filler>>

\* The loop ends: profile() returns and main() returns (exit status 0).
ProfileReturns ==
  /\ pc = "wait" /\ LoopDone
  /\ pc' = "exited" /\ exitCode' = 0
  /\ UNCHANGED <<vars, tstate, sigstop, entry, fileOpen, cur, finiCore, fault, filler>>

\* A SIGSTOP sent to a traced thread by someone else (kill -STOP).
UserStop(t) ==
  /\ AllowUserStop /\ tstate[t] = "running" /\ ~sigstop[t]
  /\ sigstop' = [sigstop EXCEPT ![t] = TRUE]
  /\ UNCHANGED <<vars, tstate, entry, fileOpen, pc, cur, finiCore, fault, exitCode, filler>>

\* SIGINT: fini_handler interrupts the main thread wherever it is.
Sigint ==
  /\ AllowSigint /\ Alive /\ pc # "fini"
  /\ pc' = "fini" /\ finiCore' = 0
  /\ UNCHANGED <<vars, tstate, sigstop, entry, fileOpen, cur, fault, exitCode, filler>>

\* Mutant of FiniShareCore: loop bound coreID <= num_logical_cores.
FiniShareCoreOffByOne ==
  /\ pc = "fini" /\ finiCore <= NumCores
  /\ cbm' = IF finiCore < NumCos THEN [cbm EXCEPT ![finiCore] = Ways] ELSE cbm
  /\ cosOf' = [cosOf EXCEPT ![finiCore] = IF finiCore < NumCos THEN finiCore
                                             ELSE NumCos - 1]
  /\ finiCore' = finiCore + 1
  /\ UNCHANGED <<ctl, currentlySampling, thr, done, first_finished_thread>>
  /\ UNCHANGED <<tstate, sigstop, entry, fileOpen, pc, cur, fault, exitCode, filler>>

\* One iteration of share_all_cache_ways inside fini_handler.
FiniShareCore ==
  /\ pc = "fini" /\ finiCore < NumCores
  /\ cbm' = IF finiCore < NumCos THEN [cbm EXCEPT ![finiCore] = Ways] ELSE cbm
  /\ cosOf' = [cosOf EXCEPT ![finiCore] = IF finiCore < NumCos THEN finiCore
                                             ELSE NumCos - 1]
  /\ finiCore' = finiCore + 1
  /\ UNCHANGED <<ctl, currentlySampling, thr, done, first_finished_thread>>
  /\ UNCHANGED <<tstate, sigstop, entry, fileOpen, pc, cur, fault, exitCode, filler>>

\* tid_map.clear(); exit(2).
FiniExit ==
  /\ pc = "fini" /\ finiCore = NumCores
  /\ entry' = [t \in Threads |-> "absent"]
  /\ pc' = "exited" /\ exitCode' = 2
  /\ UNCHANGED <<vars, tstate, sigstop, fileOpen, cur, finiCore, fault, filler>>

\* The filler thread (scan_array :230-240): under enable_array_scans_m it
\* tests the flag and, when it is set, starts a pass over its 32 MB array,
\* which it finishes without looking at the flag again.  With the flag
\* clear the test is a spin that changes nothing.  The filler dies with
\* the tracer process.
FillerCheck ==
  /\ Alive /\ filler = "check" /\ enable_array_scans
  /\ filler' = "scan"
  /\ UNCHANGED <<vars, tstate, sigstop, entry, fileOpen, pc, cur, finiCore, fault, exitCode>>

FillerPass ==
  /\ Alive /\ filler = "scan"
  /\ filler' = "check"
  /\ UNCHANGED <<vars, tstate, sigstop, entry, fileOpen, pc, cur, finiCore, fault, exitCode>>

TracerNext ==
  \/ \E t \in Threads :
       \/ Overflow(t) \/ OverflowErased(t) \/ DeliverStop(t) \/ ThreadExit(t)
       \/ UserStop(t) \/ ReapExited(t) \/ DetachStopped(t)
       \/ ThreadKilled(t) \/ ReapKilled(t)
  \/ FlushDetached \/ Erase \/ StopOthers \/ ProfileReturns
  \/ Sigint \/ FiniShareCore \/ FiniExit
  \/ FillerCheck \/ FillerPass

\* The main thread and the kernel keep making progress; an overflow is
\* bounded by PhaseBound, a thread exit, a kill or SIGINT is up to the user.
\* The filler runs on a core of its own with every signal blocked, and the
\* handler holds the flag's mutex only for one store.
TracerFairness ==
  /\ \A t \in Threads : WF_allVars(DeliverStop(t) \/ ReapExited(t) \/ DetachStopped(t) \/ ReapKilled(t))
  /\ WF_allVars(FlushDetached \/ Erase \/ StopOthers \/ ProfileReturns)
  /\ WF_allVars(FiniShareCore \/ FiniExit)
  /\ WF_allVars(FillerCheck) /\ WF_allVars(FillerPass)

TracerSpec == TracerInit /\ [][TracerNext]_allVars /\ TracerFairness

-----------------------------------------------------------------------------
TracerTypeOK ==
  /\ TypeOK
  /\ tstate \in [Threads -> {"running", "stopped", "exited", "killed", "detached", "gone"}]
  /\ sigstop \in [Threads -> BOOLEAN]
  /\ entry \in [Threads -> {"info", "absent", "null"}]
  /\ fileOpen \in [Threads -> BOOLEAN]
  /\ pc \in {"wait", "flush", "erase", "stopothers", "fini", "exited"}
  /\ cur \in Threads /\ finiCore \in 0 .. NumCores
  /\ fault \in {"none", "closed_file", "null_entry"}
  /\ exitCode \in {0, 1, 2, 139}
  /\ filler \in {"check", "scan"}

Shared == \A k \in Cores : cbm[cosOf[k]] = Ways

(* A SIGTHYME handler never runs on a thread record that profile() has     *)
(* erased from tid_map or whose files flush() has closed, and the SIGSTOP  *)
(* loop after the first detach never meets a null entry.                   *)
NoUseAfterRelease == fault = "none"

(* Spec 8, 4.8 and 7: when the tracer exits, normally (main returns 0) or  *)
(* from fini_handler on SIGINT (exit 2), every core may use every way.     *)
CacheSharedAtExit == ~Alive /\ exitCode \in {0, 2} => Shared

(* profile() returns only when every profiled thread was detached or has   *)
(* exited and been reaped: none is left traced or stopped by the tracer.   *)
ReturnOnlyWhenAllReleased ==
  ~Alive /\ exitCode = 0 => \A t \in Threads : tstate[t] \in {"detached", "gone"}

(* Spec 4.4 and 4.8: once the leader requested termination, the tracer     *)
(* drains the other threads and exits.                                     *)
ProfilerTerminates == done ~> ~Alive
==============================================================================
