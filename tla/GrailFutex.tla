------------------------------ MODULE GrailFutex ------------------------------
(***************************************************************************)
(* Threads that wait for each other in simulated time: HandleFutex answers *)
(* every FUTEX_WAIT at once (model/grail.cc), so a thread that waits for a *)
(* mutex, a condition variable or the end of a thread polls, and only the  *)
(* processing time of calls and the back-off of the poll loop detector     *)
(* (PollLoop) let the others get on.                                       *)
(*                                                                         *)
(* The threads run the programs of mt/, each a sequence of instructions.   *)
(* A thread runs alone, inside WaitForSyscall, from one system call to its *)
(* next; the pthread functions in between are external and reduced to the  *)
(* words of memory they share and the futex calls they make.  Times are in *)
(* units of 100 ns.                                                        *)
(***************************************************************************)
EXTENDS PollLoop, Integers, Sequences

CONSTANTS
  Threads,    \* the threads of the application
  Main,       \* its first thread
  Cases       \* the programs it may be, each with attributes it may have

\* An instruction is a call the application makes, or a pthread function.
Instructions ==
  ({"write", "exit", "exit_group", "lock", "unlock", "add", "signal"} \X {"none"})
    \cup ({"sleep", "await"} \X Nat)
    \cup ({"create", "join"} \X Threads)
    \cup ({"poll"} \X {"gettimeofday", "clock_gettime"})

ASSUME MainAssumption     == Main \in Threads
ASSUME CasesAssumption ==
  Cases \subseteq [code : [Threads -> Seq(Instructions)], until : Nat]
                    \X [detection : BOOLEAN, processing : Nat]

VARIABLES
  prog,      \* the program: the code of each thread, and a deadline
  app,       \* detection and processing: PollLoopDetection, SyscallProcessingTime
  ip,        \* ip[t]: the instruction of thread t
  at,        \* at[t]: how far it has got in it
  due,       \* due[t]: time until the event of thread t, or Never
  running,   \* the thread that runs user code, or Nobody
  mem,       \* the memory the threads share
  left       \* time until the program's deadline, 0 when it has passed

detector == <<previousCallQualified, pollSteps>>
vars == <<prog, app, ip, at, due, running, mem, left, detector>>

Never  == -1
Nobody == "nobody"
ASSUME NobodyAssumption == Nobody \notin Threads

Op(t)  == prog.code[t][ip[t]][1]
Arg(t) == prog.code[t][ip[t]][2]

-----------------------------------------------------------------------------
Init ==
  /\ \E c \in Cases : prog = c[1] /\ app = c[2]
  /\ ip = [t \in Threads |-> 1]
  /\ at = [t \in Threads |-> "start"]
  /\ due = [t \in Threads |-> IF t = Main THEN 0 ELSE Never]
  /\ running = Nobody
  /\ mem = [lock |-> 0, waiters |-> 0, signals |-> 0, done |-> 0, tids |-> {Main}]
  /\ left = prog.until
  /\ PollLoopInit

\* Thread t executes instruction op, of which it has got to phase.
Executes(t, op, phase) ==
  /\ running = t /\ at[t] = phase
  /\ ip[t] \in DOMAIN prog.code[t] /\ Op(t) = op

\* The instruction is done.
Proceeds(t) == ip' = [ip EXCEPT ![t] = @ + 1] /\ at' = [at EXCEPT ![t] = "start"]
Stays(t, phase) == UNCHANGED ip /\ at' = [at EXCEPT ![t] = phase]

\* No call is made: thread t goes on with user code.
Continues == UNCHANGED <<prog, app, due, running, left, detector>>

\* HandleSyscallBefore, from the call to the handler.
Detected(syscall) ==
  IF app.detection THEN HandleSystemCall(syscall)
  ELSE UNCHANGED detector

\* ProcessStatusCode with SYSC_SUCCESS or SYSC_FAILURE, when steps is pollSteps.
Rescheduled(delays, t, steps) ==
  [delays EXCEPT ![t] = app.processing + GetDelay(steps)]

\* A call that is answered at once.
Answered(t, syscall) ==
  /\ Detected(syscall)
  /\ due' = Rescheduled(due, t, pollSteps')
  /\ running' = Nobody
  /\ UNCHANGED <<prog, app, left>>

\* A call after which the thread does not return to user code by itself.
Held(t, syscall, delay) ==
  /\ Detected(syscall)
  /\ due' = [due EXCEPT ![t] = delay]
  /\ running' = Nobody
  /\ UNCHANGED <<prog, app, left>>

-----------------------------------------------------------------------------
\* HandleSyscallBefore(t): the thread is continued.
Fire(t) ==
  /\ running = Nobody /\ due[t] = 0 /\ at[t] \notin {"asleep", "exiting"}
  /\ running' = t
  /\ due' = [due EXCEPT ![t] = Never]
  /\ UNCHANGED <<prog, app, ip, at, mem, left, detector>>

\* The same for a thread that has called SYS_exit: the kernel clears its tid.
Dies(t) ==
  /\ running = Nobody /\ due[t] = 0 /\ at[t] = "exiting"
  /\ due' = [due EXCEPT ![t] = Never]
  /\ mem' = [mem EXCEPT !.tids = @ \ {t}]
  /\ UNCHANGED <<prog, app, ip, at, running, left, detector>>

\* The callback of nanosleep: its delay is that of the detector's state now.
WakeUp(t) ==
  /\ running = Nobody /\ due[t] = 0 /\ at[t] = "asleep"
  /\ due' = Rescheduled(due, t, pollSteps)
  /\ Proceeds(t)
  /\ UNCHANGED <<prog, app, running, mem, left, detector>>

\* Every call that is answered at once and means nothing to other threads.
HandleWrite(t) ==
  /\ Executes(t, "write", "start")
  /\ Answered(t, "write")
  /\ Proceeds(t)
  /\ UNCHANGED mem

\* A loop that asks for the time, with the call named, until the deadline.
HandleTimeCall(t) ==
  /\ Executes(t, "poll", "start")
  /\ Answered(t, Arg(t))
  /\ IF left = 0 THEN Proceeds(t) ELSE Stays(t, "start")
  /\ UNCHANGED mem

HandleNanoSleep(t) ==
  /\ Executes(t, "sleep", "start")
  /\ Held(t, "nanosleep", Arg(t))
  /\ Stays(t, "asleep")
  /\ UNCHANGED mem

\* HandleClone, with HandleSyscallAfterClone: the new thread runs 100 ns later.
HandleClone(t) ==
  /\ Executes(t, "create", "start")
  /\ Detected("clone")
  /\ due' = [Rescheduled(due, t, pollSteps') EXCEPT ![Arg(t)] = 1]
  /\ running' = Nobody
  /\ mem' = [mem EXCEPT !.tids = @ \cup {Arg(t)}]
  /\ Proceeds(t)
  /\ UNCHANGED <<prog, app, left>>

HandleExit(t) ==
  /\ Executes(t, "exit", "start")
  /\ Answered(t, "exit")
  /\ Stays(t, "exiting")
  /\ UNCHANGED mem

\* SYSC_SYSTEM_EXIT: the thread is left at its call.
HandleExitGroup(t) ==
  /\ Executes(t, "exit_group", "start")
  /\ Held(t, "exit_group", Never)
  /\ Stays(t, "ended")
  /\ UNCHANGED mem

\* Mutant: FUTEX_WAIT is left to the kernel, which blocks thread and simulator.
MutFutexWaitBlocks(t) == Held(t, "futex", Never)

\* HandleFutex when *uaddr is val, as it is for each wait below: the thread has
\* compared them after its last call.  FAKE(0), although nobody has woken it.
FutexWait(t) == Answered(t, "futex")

\* HandleFutex for FUTEX_WAKE: the kernel finds nobody to wake.
FutexWake(t) == Answered(t, "futex")

-----------------------------------------------------------------------------
\* pthread_mutex_lock and pthread_mutex_unlock: the lock word is 0 when free, 1
\* when locked, 2 when a thread may wait for it.
LockFree(t) ==
  /\ Executes(t, "lock", "start") /\ mem.lock = 0
  /\ mem' = [mem EXCEPT !.lock = 1]
  /\ Proceeds(t) /\ Continues

Contends(t) ==
  \/ Executes(t, "lock", "start") /\ mem.lock # 0
  \/ Executes(t, "lock", "retry")
  \/ Executes(t, "await", "relock")

\* With the lock: after pthread_mutex_lock, or back in the loop of an await.
Locked(t) == IF Op(t) = "lock" THEN Proceeds(t) ELSE Stays(t, "woken")

\* Mutant: a wait that returns 0 is taken for the lock.
MutWokenOwnsLock(t) ==
  /\ Contends(t)
  /\ mem' = [mem EXCEPT !.lock = 2]
  /\ IF mem.lock = 0 \/ at[t] = "retry" THEN Locked(t) /\ Continues
     ELSE FutexWait(t) /\ Stays(t, IF Op(t) = "lock" THEN "retry" ELSE "relock")

\* Mutant: a thread that finds the lock free after a wait waits once more.
MutWaitsAgain(t) ==
  /\ Contends(t)
  /\ mem' = [mem EXCEPT !.lock = 2]
  /\ IF mem.lock = 0 /\ at[t] # "retry" THEN Locked(t) /\ Continues
     ELSE FutexWait(t) /\ Stays(t, IF Op(t) = "lock" THEN "retry" ELSE "relock")

\* The slow path: the lock word is exchanged for 2 until it was 0.
LockContended(t) ==
  /\ Contends(t)
  /\ mem' = [mem EXCEPT !.lock = 2]
  /\ IF mem.lock = 0 THEN Locked(t) /\ Continues
     ELSE FutexWait(t) /\ Stays(t, IF Op(t) = "lock" THEN "retry" ELSE "relock")

WakeIf(t, contended) == IF contended THEN FutexWake(t) ELSE Continues

Unlock(t) ==
  /\ Executes(t, "unlock", "start")
  /\ mem' = [mem EXCEPT !.lock = 0]
  /\ WakeIf(t, mem.lock = 2)
  /\ Proceeds(t)

Add(t) ==
  /\ Executes(t, "add", "start")
  /\ mem' = [mem EXCEPT !.done = @ + 1]
  /\ Proceeds(t) /\ Continues

\* "while (done < n)" around pthread_cond_wait, with output before and after it.
\* The thread has the lock here, and has none while it waits.
AwaitDone(t) ==
  /\ Executes(t, "await", "start") /\ mem.done >= Arg(t)
  /\ Proceeds(t) /\ Continues
  /\ UNCHANGED mem

AwaitWrites(t) ==
  /\ \/ /\ Executes(t, "await", "start") /\ mem.done < Arg(t)
        /\ Stays(t, "announced")
     \/ /\ Executes(t, "await", "woken")
        /\ Stays(t, "start")
  /\ Answered(t, "write")
  /\ UNCHANGED mem

AwaitBlocks(t) ==
  /\ Executes(t, "await", "announced")
  /\ mem' = [mem EXCEPT !.lock = 0, !.waiters = @ + 1]
  /\ WakeIf(t, mem.lock = 2)
  /\ Stays(t, "waiting")

AwaitSignal(t) ==
  /\ Executes(t, "await", "waiting")
  /\ IF mem.signals = 0 THEN FutexWait(t) /\ Stays(t, "waiting") /\ UNCHANGED mem
     ELSE /\ mem' = [mem EXCEPT !.signals = @ - 1]
          /\ Stays(t, "relock") /\ Continues

\* pthread_cond_signal: a signal is kept only for a thread that waits.
Signal(t) ==
  /\ Executes(t, "signal", "start")
  /\ mem' = IF mem.waiters = 0 THEN mem
            ELSE [mem EXCEPT !.waiters = @ - 1, !.signals = @ + 1]
  /\ WakeIf(t, mem.waiters > 0)
  /\ Proceeds(t)

\* pthread_join waits until the kernel has cleared the tid.
Join(t) ==
  /\ Executes(t, "join", "start")
  /\ IF Arg(t) \in mem.tids THEN FutexWait(t) /\ Stays(t, "start")
     ELSE Proceeds(t) /\ Continues
  /\ UNCHANGED mem

-----------------------------------------------------------------------------
Pending == {t \in Threads : due[t] # Never}

\* The next event of the list is one to come: time passes.
Advance ==
  /\ running = Nobody
  /\ \E d \in {due[t] : t \in Pending} :
       /\ d > 0
       /\ \A t \in Pending : d <= due[t]
       /\ due' = [t \in Threads |-> IF t \in Pending THEN due[t] - d ELSE Never]
       /\ left' = IF left <= d THEN 0 ELSE left - d
  /\ UNCHANGED <<prog, app, ip, at, running, mem, detector>>

Handlers(t) ==
  \/ HandleWrite(t) \/ HandleTimeCall(t) \/ HandleNanoSleep(t) \/ HandleClone(t)
  \/ HandleExit(t) \/ HandleExitGroup(t)

UserCode(t) ==
  \/ LockFree(t) \/ LockContended(t) \/ Unlock(t) \/ Add(t) \/ Signal(t) \/ Join(t)
  \/ AwaitDone(t) \/ AwaitWrites(t) \/ AwaitBlocks(t) \/ AwaitSignal(t)

Event(t) == Fire(t) \/ Dies(t) \/ WakeUp(t)

Next == Advance \/ \E t \in Threads : Event(t) \/ Handlers(t) \/ UserCode(t)

(***************************************************************************)
(* The simulator goes on for as long as it can, and an event is not passed *)
(* over for ever by others of the same time: ns-3 runs events of one time  *)
(* in the order they were scheduled in.                                    *)
(***************************************************************************)
Fairness == WF_vars(Next) /\ \A t \in Threads : SF_vars(Event(t))

FutexSpec == Init /\ [][Next]_vars /\ Fairness

-----------------------------------------------------------------------------
\* The variables hold values of their kind.
TypeOK ==
  /\ <<prog, app>> \in Cases
  /\ ip \in [Threads -> Nat]
  /\ at \in [Threads -> {"start", "asleep", "exiting", "ended", "retry",
                         "announced", "waiting", "relock", "woken"}]
  /\ due \in [Threads -> Nat \cup {Never}]
  /\ running \in Threads \cup {Nobody}
  /\ mem \in [lock : 0 .. 2, waiters : Nat, signals : Nat, done : Nat, tids : SUBSET Threads]
  /\ left \in Nat
  /\ previousCallQualified \in BOOLEAN
  /\ pollSteps \in 0 .. (StepsMod - 1)

(***************************************************************************)
(* "exponentially increasing delay, up to 1ms" (poll-detector.h): whatever *)
(* calls of whatever threads the one detector has counted, no thread is    *)
(* kept from running longer than that beyond the processing time, be it a  *)
(* thread that polls or one that wakes from nanosleep next to it.          *)
(***************************************************************************)
BackoffBounded ==
  \A t \in Threads : at[t] # "asleep" => due[t] <= app.processing + Cap

\* A lock before position i of the code has not been followed by an unlock.
InSection(code, i) ==
  \E k \in 1 .. (i - 1) :
    /\ code[k][1] = "lock"
    /\ \A j \in k .. (i - 1) : code[j][1] # "unlock"

\* Thread t has the lock: it has locked it, and does not wait for a signal.
Holds(t) ==
  /\ InSection(prog.code[t], ip[t])
  /\ Op(t) = "await" => at[t] \notin {"waiting", "relock"}

\* As POSIX demands of a program: who unlocks the mutex or waits for a condition
\* with it has locked it.
LocksPaired ==
  \A c \in Cases, t \in Threads : \A i \in DOMAIN c[1].code[t] :
    c[1].code[t][i][1] \in {"unlock", "await"} => InSection(c[1].code[t], i)

(***************************************************************************)
(* The critical sections of the test programs exclude each other although  *)
(* a thread makes calls in them and HandleFutex tells every thread that    *)
(* waits for the lock that it has been woken.                              *)
(***************************************************************************)
MutualExclusion ==
  \A t, u \in Threads : Holds(t) /\ Holds(u) => t = u

Lock == INSTANCE Mutex
          WITH holders <- {t \in Threads : Holds(t)}, free <- mem.lock = 0

(***************************************************************************)
(* The lock word, futex calls that HandleFutex answers without a wake, and *)
(* condition variables that give the lock up and take it back implement a  *)
(* mutex: no section is entered over another, no lock is taken from its    *)
(* holder, and none is left taken with nobody to release it.               *)
(***************************************************************************)
ImplementsMutex == Lock!MutexSpec

(***************************************************************************)
(* Every test program comes to its end: no thread that waits for a mutex,  *)
(* a signal, a thread or a deadline keeps simulated time from passing for  *)
(* those it waits for.                                                     *)
(***************************************************************************)
ProgramEnds == <>(at[Main] = "ended")
=============================================================================
