---------------------------- MODULE GrailThreads ----------------------------
(***************************************************************************)
(* The life of the threads of one traced application, as the system call   *)
(* dispatcher HandleSyscallBefore (model/grail.cc) sees it: which handler  *)
(* answers a call, at which ptrace stop it leaves the thread, and which    *)
(* event runs the thread again.  The handlers that keep file descriptors   *)
(* or wait for a socket are in GrailSockets.                               *)
(*                                                                         *)
(* The events of the list run in any order.  ns-3 orders them by time;     *)
(* every order it can choose is one of these.                              *)
(***************************************************************************)
EXTENDS Tracer, FiniteSets

CONSTANTS
  Program,       \* Program[t]: the calls the code of thread t makes
  MaxRefused     \* bound: events of refused clones pending at a time

VARIABLES
  sleepers,      \* sleepers[t]: pending callbacks of nanosleep with saved_pid t
  tid_vector     \* the thread ids recorded by HandleSyscallAfterClone

vars == <<tr, ready, pid, sim, sleepers, tid_vector>>

(***************************************************************************)
(* The branches of the handlers, by what they do to the ptrace protocol:   *)
(*   "system"  HandleSyscallAfter: the kernel answers                      *)
(*   "fake"    FAKE: the simulator answers, the call returns at once       *)
(*   "store"   the answer is written to the tracee, the call is not faked  *)
(*   "bare"    the status is returned with neither                         *)
(*   "block"   passed to the kernel, which does not return until another   *)
(*             thread or the outside world acts                            *)
(*   "abort"   SYSC_ERROR, exit(1) or a failing assertion                  *)
(***************************************************************************)
PassThrough      == {"system"}                     \* execve ... uname
DupOrStat        == {"system", "abort"}
UserIds          == {"fake"}                       \* getuid ... getegid
Unsupported      == {"abort"}
HandleGetPid     == {"fake"}
HandlePipe2      == {"system", "abort"}
HandleGetRUsage  == {"fake"}
HandleIoctl      == {"fake", "system", "bare", "abort"}
HandleGetSockName == {"fake", "abort"}
HandleGetPeerName == {"fake", "abort"}
HandleGetSockOpt == {"fake", "system", "abort"}
HandleSetSockOpt == {"fake", "system", "abort"}
HandleSendTo     == {"fake", "abort"}
HandleAlarm      == {"abort"}
HandleTime       == {"fake"}
HandleGetTimeOfDay == {"fake", "abort"}
HandleClockGetTime == {"store", "fake"}
HandleClockGetRes  == {"store", "fake"}
HandleBind       == {"fake", "abort"}
HandlePoll       == {"system", "block", "abort"}
HandleGetRandom  == {"fake", "abort"}
HandleFutex      == {"fake", "system", "block"}
HandleExit       == {"bare"}

\* The switch of HandleSyscallBefore; the last three have handlers below.
Handler ==
  [passthrough |-> PassThrough, dup |-> DupOrStat, getuid |-> UserIds,
   unsupported |-> Unsupported, getpid |-> HandleGetPid,
   pipe2 |-> HandlePipe2, getrusage |-> HandleGetRUsage,
   ioctl |-> HandleIoctl, getsockname |-> HandleGetSockName,
   getpeername |-> HandleGetPeerName, getsockopt |-> HandleGetSockOpt,
   setsockopt |-> HandleSetSockOpt, sendto |-> HandleSendTo,
   alarm |-> HandleAlarm, time |-> HandleTime,
   gettimeofday |-> HandleGetTimeOfDay, clock_gettime |-> HandleClockGetTime,
   clock_getres |-> HandleClockGetRes, bind |-> HandleBind,
   poll |-> HandlePoll, getrandom |-> HandleGetRandom,
   futex |-> HandleFutex, exit |-> HandleExit,
   nanosleep |-> {"sleep"}, clone |-> {"clone"}, exit_group |-> {"exit_group"}]

SysCalls == UNION {{<<c, b>> : b \in Handler[c]} : c \in DOMAIN Handler}

ASSUME ProgramAssumption == Program \in [Threads -> SUBSET SysCalls]
ASSUME RefusedAssumption == MaxRefused \in Nat

\* What a refused clone leaves in rax: a negative error number, not a thread.
ErrTid == "-EAGAIN"
ASSUME ErrTidAssumption == ErrTid \notin Threads

Tids == Threads \cup {ErrTid}

-----------------------------------------------------------------------------
Init ==
  /\ TracerInit
  /\ ready = [t \in Tids |-> IF t = Main THEN 1 ELSE 0]
  /\ sleepers = [t \in Threads |-> 0]
  /\ tid_vector = {}

\* HandleSyscallBefore(t) has caught thread t in state r: at the entry of its
\* next call or, when the last handler did not fake it, at the call's exit.
Caught(t, r) ==
  /\ Event(t)
  /\ pid' = t
  /\ r \in WaitForSyscall(tr[t], Program[t])
  /\ r.stop # "dead"

\* waitpid reports the exit of the main thread after that of all others.
ExitUnreported(t) ==
  /\ t = Main
  /\ tr[t].stop = "entry" /\ tr[t].call = ExitCall
  /\ \E u \in Threads \ {t} : Alive(tr[u])

Takes(r, branch) == r.call[2] = branch

\* HandleSyscallAfter
HandleSyscallAfter(t) ==
  \E r \in WaitForSyscall(tr[t], Program[t]) :
    /\ Caught(t, r) /\ Takes(r, "system")
    /\ \E w \in WaitForSyscall(r, Program[t]) : tr' = [tr EXCEPT ![t] = w]
    /\ ProcessStatusCode("success", t, Consumed(ready, t))
    /\ UNCHANGED <<sleepers, tid_vector>>

\* Every handler branch that ends in FAKE and SYSC_SUCCESS or SYSC_FAILURE.
HandleFaked(t) ==
  \E r \in WaitForSyscall(tr[t], Program[t]) :
    /\ Caught(t, r) /\ Takes(r, "fake")
    /\ \E w \in Fake(r, Program[t]) : tr' = [tr EXCEPT ![t] = w]
    /\ ProcessStatusCode("success", t, Consumed(ready, t))
    /\ UNCHANGED <<sleepers, tid_vector>>

\* Mutant: the second run of the handler, at the exit stop, stores nothing.
MutStoredOnce(t) ==
  \E r \in WaitForSyscall(tr[t], Program[t]) :
    /\ Caught(t, r) /\ Takes(r, "store")
    /\ tr' = [tr EXCEPT ![t] = IF r.stop = "entry" THEN [r EXCEPT !.ans = "sim"] ELSE r]
    /\ ProcessStatusCode("success", t, Consumed(ready, t))
    /\ UNCHANGED <<sleepers, tid_vector>>

\* clock_gettime and clock_getres: the time goes to the tracee's memory, the
\* call is left to the kernel, and its exit stop is taken for a second call.
HandleStored(t) ==
  \E r \in WaitForSyscall(tr[t], Program[t]) :
    /\ Caught(t, r) /\ Takes(r, "store")
    /\ tr' = [tr EXCEPT ![t] = [r EXCEPT !.ans = "sim"]]
    /\ ProcessStatusCode("success", t, Consumed(ready, t))
    /\ UNCHANGED <<sleepers, tid_vector>>

\* Mutant: a thread that calls SYS_exit is not scheduled again.
MutExitNotContinued(t) ==
  \E r \in WaitForSyscall(tr[t], Program[t]) :
    /\ Caught(t, r) /\ Takes(r, "bare")
    /\ tr' = [tr EXCEPT ![t] = r]
    /\ ProcessStatusCode(IF r.call = ExitCall THEN "delayed" ELSE "failure",
                         t, Consumed(ready, t))
    /\ UNCHANGED <<sleepers, tid_vector>>

\* SYS_exit, and the ioctl that finds no device: a status and nothing else.
HandleBare(t) ==
  \E r \in WaitForSyscall(tr[t], Program[t]) :
    /\ Caught(t, r) /\ Takes(r, "bare")
    /\ tr' = [tr EXCEPT ![t] = r]
    /\ ProcessStatusCode("failure", t, Consumed(ready, t))
    /\ UNCHANGED <<sleepers, tid_vector>>

\* The thread has exited: WaitForSyscall returns 1, nothing is scheduled.
HandleThreadEnd(t) ==
  /\ Event(t) /\ ~ExitUnreported(t)
  /\ \E r \in WaitForSyscall(tr[t], Program[t]) :
       r.stop = "dead" /\ tr' = [tr EXCEPT ![t] = r]
  /\ pid' = t
  /\ ready' = Consumed(ready, t)
  /\ UNCHANGED <<sim, sleepers, tid_vector>>

\* waitpid does not return: the simulator is stuck inside WaitForSyscall.
HandleStuck(t) ==
  /\ Event(t)
  /\ pid' = t
  /\ \/ ExitUnreported(t) /\ UNCHANGED tr
     \/ \E r \in WaitForSyscall(tr[t], Program[t]) :
          Caught(t, r) /\ Takes(r, "block") /\ tr' = [tr EXCEPT ![t] = r]
  /\ sim' = "blocked"
  /\ ready' = Consumed(ready, t)
  /\ UNCHANGED <<sleepers, tid_vector>>

HandleError(t) ==
  \E r \in WaitForSyscall(tr[t], Program[t]) :
    /\ Caught(t, r) /\ Takes(r, "abort")
    /\ tr' = [tr EXCEPT ![t] = r]
    /\ ProcessStatusCode("error", t, Consumed(ready, t))
    /\ UNCHANGED <<sleepers, tid_vector>>

\* exit_group is not executed: the calling thread is left at its entry stop.
HandleExitGroup(t) ==
  \E r \in WaitForSyscall(tr[t], Program[t]) :
    /\ Caught(t, r) /\ Takes(r, "exit_group")
    /\ tr' = [tr EXCEPT ![t] = r]
    /\ ProcessStatusCode("system_exit", t, Consumed(ready, t))
    /\ UNCHANGED <<sleepers, tid_vector>>

\* nanosleep schedules the callback below with the pid of now (saved_pid).
HandleNanoSleep(t) ==
  \E r \in WaitForSyscall(tr[t], Program[t]) :
    /\ Caught(t, r) /\ Takes(r, "sleep")
    /\ tr' = [tr EXCEPT ![t] = r]
    /\ sleepers' = Scheduled(sleepers, t)
    /\ ProcessStatusCode("delayed", t, Consumed(ready, t))
    /\ UNCHANGED tid_vector

\* Mutant: the callback runs without having been scheduled.
MutWakeUpUnscheduled(saved_pid) ==
  /\ Running /\ Alive(tr[saved_pid])
  /\ sleepers' = Consumed(sleepers, saved_pid)
  /\ \E w \in Fake(tr[saved_pid], Program[saved_pid]) :
       tr' = [tr EXCEPT ![saved_pid] = w]
  /\ ProcessStatusCode("success", saved_pid, ready)
  /\ UNCHANGED <<pid, tid_vector>>

\* Mutant: FAKE2 in place of FAKE4, the answer goes to this->pid.
MutWakeUpThisPid(saved_pid) ==
  /\ Running /\ sleepers[saved_pid] > 0 /\ pid \in Threads
  /\ sleepers' = Consumed(sleepers, saved_pid)
  /\ \E w \in Fake(tr[pid], Program[pid]) : tr' = [tr EXCEPT ![pid] = w]
  /\ ProcessStatusCode("success", saved_pid, ready)
  /\ UNCHANGED <<pid, tid_vector>>

\* The callback: FAKE4 on saved_pid, while this->pid is any thread.
WakeUp(saved_pid) ==
  /\ Running /\ sleepers[saved_pid] > 0
  /\ sleepers' = Consumed(sleepers, saved_pid)
  /\ \E w \in Fake(tr[saved_pid], Program[saved_pid]) :
       tr' = [tr EXCEPT ![saved_pid] = w]
  /\ ProcessStatusCode("success", saved_pid, ready)
  /\ UNCHANGED <<pid, tid_vector>>

\* Mutant: HandleSyscallAfterClone does not schedule the new thread.
MutCloneNotScheduled(t, u) ==
  \E r \in WaitForSyscall(tr[t], Program[t]) :
    /\ Caught(t, r) /\ Takes(r, "clone")
    /\ tr[u].stop = "unborn"
    /\ \E w \in WaitForSyscall(r, Program[t]) :
         tr' = [tr EXCEPT ![t] = w, ![u] = Fresh]
    /\ tid_vector' = tid_vector \cup {u}
    /\ ProcessStatusCode("success", t, Consumed(ready, t))
    /\ UNCHANGED sleepers

\* HandleClone and HandleSyscallAfterClone: the kernel creates thread u, and
\* the events of the caller and of the new thread are both scheduled.
HandleClone(t, u) ==
  \E r \in WaitForSyscall(tr[t], Program[t]) :
    /\ Caught(t, r) /\ Takes(r, "clone")
    /\ tr[u].stop = "unborn"
    /\ \E w \in WaitForSyscall(r, Program[t]) :
         tr' = [tr EXCEPT ![t] = w, ![u] = Fresh]
    /\ tid_vector' = tid_vector \cup {u}
    /\ ProcessStatusCode("success", t, Scheduled(Consumed(ready, t), u))
    /\ UNCHANGED sleepers

\* The same when the kernel refuses: retval is scheduled all the same.
HandleCloneRefused(t) ==
  \E r \in WaitForSyscall(tr[t], Program[t]) :
    /\ ready[ErrTid] < MaxRefused
    /\ Caught(t, r) /\ Takes(r, "clone")
    /\ \E w \in WaitForSyscall(r, Program[t]) : tr' = [tr EXCEPT ![t] = w]
    /\ tid_vector' = tid_vector \cup {ErrTid}
    /\ ProcessStatusCode("success", t, Scheduled(Consumed(ready, t), ErrTid))
    /\ UNCHANGED sleepers

\* HandleSyscallBefore(-errno): ptrace and waitpid fail and status is never
\* written, so the loop of WaitForSyscall ends with 0 (get_reg asserts), ends
\* with 1 (the event is dropped), or does not end.
HandleErrTid ==
  /\ Event(ErrTid)
  /\ pid' = ErrTid
  /\ ready' = Consumed(ready, ErrTid)
  /\ sim' \in {"ended", "running", "blocked"}
  /\ UNCHANGED <<tr, sleepers, tid_vector>>

HandleSyscallBefore(t) ==
  \/ HandleSyscallAfter(t)
  \/ HandleFaked(t)
  \/ HandleStored(t)
  \/ HandleBare(t)
  \/ HandleThreadEnd(t)
  \/ HandleStuck(t)
  \/ HandleError(t)
  \/ HandleExitGroup(t)
  \/ HandleNanoSleep(t)
  \/ \E u \in Threads \ {t} : HandleClone(t, u)
  \/ HandleCloneRefused(t)

Next ==
  \/ \E t \in Threads : HandleSyscallBefore(t) \/ WakeUp(t)
  \/ HandleErrTid

Spec == Init /\ [][Next]_vars

(***************************************************************************)
(* ns-3 runs every scheduled event unless the simulation stops first.      *)
(* This needs simulated time to pass: a SyscallProcessingTime above 0, or  *)
(* the back-off of the poll loop detector.                                 *)
(***************************************************************************)
Fairness ==
  /\ \A t \in Threads : WF_vars(HandleSyscallBefore(t)) /\ WF_vars(WakeUp(t))

FairSpec == Spec /\ Fairness

-----------------------------------------------------------------------------
\* The variables hold values of their kind.
TypeOK ==
  /\ tr \in [Threads -> [stop : Stops, call : SysCalls \cup {NoCall}, ans : Answers]]
  /\ ready \in [Tids -> Nat]
  /\ pid \in Tids
  /\ sim \in {"running", "ended", "blocked"}
  /\ sleepers \in [Threads -> Nat]
  /\ tid_vector \subseteq Tids

\* Left at the entry of exit_group for good.
Parked(t) == tr[t].stop = "entry" /\ Takes(tr[t], "exit_group")

(***************************************************************************)
(* While the simulation runs, exactly one pending event or callback will   *)
(* run a live thread again, and none a thread that is unborn, has exited   *)
(* or is parked: no thread is lost, none is resumed twice, whatever order  *)
(* the handlers, the callbacks and the births of threads happen in.        *)
(***************************************************************************)
OneContinuation ==
  sim = "running" =>
    \A t \in Threads :
      ready[t] + sleepers[t] = IF Alive(tr[t]) /\ ~Parked(t) THEN 1 ELSE 0

(***************************************************************************)
(* The dispatcher and the ptrace stops stay in step: a thread that sleeps  *)
(* is at the entry of its nanosleep when the callback fakes it, and a      *)
(* thread with a HandleSyscallBefore event is at an exit stop, or at the   *)
(* entry of a call whose handler left it to the kernel on purpose.         *)
(***************************************************************************)
StopsMatchEvents ==
  \A t \in Threads :
    /\ sleepers[t] > 0 => tr[t].stop = "entry" /\ Takes(tr[t], "sleep")
    /\ ready[t] > 0 => \/ tr[t].stop = "user"
                       \/ tr[t].stop = "entry" /\ tr[t].call[2] \in {"store", "bare"}

\* The calls of which the application gets the kernel's answer: those no handler
\* emulates, and the ioctl for a device name that finds no device.  Its handler
\* reports SYSC_FAILURE without FAKE, so the kernel executes the ioctl on a
\* descriptor it does not know.
AnsweredByKernel(call) == call[2] \in {"system", "clone"} \/ call = <<"ioctl", "bare">>

(***************************************************************************)
(* A call that has returned carries the answer of the simulator, except    *)
(* for the calls above, which carry the kernel's: the failing ioctl is the *)
(* only emulated call the kernel answers.  That clock_gettime is not one   *)
(* depends on its handler running a second time, at the exit stop, where   *)
(* it overwrites the kernel's time.                                        *)
(***************************************************************************)
SimulatedAnswers ==
  \A t \in Threads :
    tr[t].stop = "user" /\ tr[t].call # NoCall
      => tr[t].ans = IF AnsweredByKernel(tr[t].call) THEN "kernel" ELSE "sim"

(***************************************************************************)
(* Every intercepted call returns to the application, or ends its thread   *)
(* when it is SYS_exit, unless it is exit_group or the simulator itself    *)
(* stops: no thread waits for ever while the simulation goes on.           *)
(***************************************************************************)
CallsReturn ==
  \A t \in Threads :
    tr[t].stop = "entry" ~> \/ tr[t].stop \in {"user", "dead"}
                           \/ Parked(t)
                           \/ sim # "running"
=============================================================================
