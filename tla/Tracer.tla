------------------------------- MODULE Tracer -------------------------------
(***************************************************************************)
(* What every system call handler of gRaIL is built from: the ptrace stops *)
(* of the traced threads (model/ptrace-utils.h), the FAKE macros, and the  *)
(* rescheduling done by ProcessStatusCode (model/grail.cc).                *)
(*                                                                         *)
(* The simulator is one OS thread.  An ns-3 event runs to completion, with *)
(* the blocking waitpid calls it makes, before the next event starts, so   *)
(* one event is one step.  A traced thread only moves inside               *)
(* WaitForSyscall: out of a syscall-exit stop it runs user code up to the  *)
(* entry of its next call, out of a syscall-entry stop the kernel executes *)
(* the call in orig_rax up to its exit.                                    *)
(***************************************************************************)
EXTENDS Naturals

CONSTANTS
  Threads,   \* the threads of the traced process
  Main,      \* the thread StartApplication forks (app_pid)
  MayQuit    \* the MayQuit attribute

ASSUME ThreadsAssumption == Main \in Threads
ASSUME MayQuitAssumption == MayQuit \in BOOLEAN

VARIABLES
  tr,      \* tr[t]: the ptrace state of thread t
  ready,   \* ready[t]: HandleSyscallBefore(t) events in the event list
  pid,     \* this->pid
  sim      \* "running", "ended" (exit or abort), "blocked" (inside waitpid)

tracerVars == <<tr, ready, pid, sim>>

(***************************************************************************)
(* A call is a pair: the system call, and the branch of its handler which  *)
(* the arguments select.  The arguments stay in the registers for as long  *)
(* as the call lasts, so the branch does too.                              *)
(***************************************************************************)
NoCall   == <<"none", "none">>
GetPid   == <<"getpid", "fake">>
ExitCall == <<"exit", "bare">>

Stops   == {"unborn", "user", "entry", "dead"}
Answers == {"none", "kernel", "sim"}

Unborn  == [stop |-> "unborn", call |-> NoCall, ans |-> "none"]

\* A thread that runs user code when it is continued and has made no call.
Fresh   == [stop |-> "user", call |-> NoCall, ans |-> "none"]

Alive(r) == r.stop \in {"user", "entry"}

(***************************************************************************)
(* The states WaitForSyscall may leave tracee r in, when the application   *)
(* makes its next call from the set calls.  SYS_exit is the one call that  *)
(* has no exit stop: waitpid reports WIFEXITED and the result is 1.        *)
(***************************************************************************)
WaitForSyscall(r, calls) ==
  IF r.stop = "user"
  THEN {[stop |-> "entry", call |-> c, ans |-> "none"] : c \in calls}
  ELSE IF r.call = ExitCall
       THEN {[r EXCEPT !.stop = "dead"]}
       ELSE {[r EXCEPT !.stop = "user", !.ans = "kernel"]}

(***************************************************************************)
(* FAKE, FAKE2 and FAKE4: turn the call into the harmless getpid, let it   *)
(* finish, and overwrite its result.  At an exit stop the same macro would *)
(* run user code up to the next call instead.                              *)
(***************************************************************************)
Fake(r, calls) ==
  {[w EXCEPT !.ans = "sim"] :
     w \in WaitForSyscall([r EXCEPT !.call = GetPid], calls)}

Scheduled(evs, t) == [evs EXCEPT ![t] = @ + 1]
Consumed(evs, t)  == [evs EXCEPT ![t] = @ - 1]

(***************************************************************************)
(* ProcessStatusCode: evs is the event list without the running event.     *)
(* "delayed" and "manual" leave it to the handler to register what resumes *)
(* the thread.                                                             *)
(***************************************************************************)
ProcessStatusCode(res, t, evs) ==
  /\ ready' = IF res \in {"success", "failure"} THEN Scheduled(evs, t) ELSE evs
  /\ sim' = IF res = "error" \/ (res = "system_exit" /\ ~MayQuit)
            THEN "ended" ELSE sim

\* An event of thread t is the one the simulator runs now.
Event(t) == sim = "running" /\ ready[t] > 0

\* The simulator runs something else: a timer, or a callback of a socket.
Running == sim = "running"

\* StartApplication and DoTrace: the forked process is stopped at its execve,
\* and HandleSyscallBefore(app_pid) is the first thing to happen.
TracerInit ==
  /\ tr = [t \in Threads |-> IF t = Main THEN Fresh ELSE Unborn]
  /\ pid = Main
  /\ sim = "running"
=============================================================================
