------------------------- MODULE GrailThreadsProofs -------------------------
(***************************************************************************)
(* The invariants of GrailThreads hold for every set of threads and every  *)
(* program.                                                                *)
(***************************************************************************)
EXTENDS GrailThreads, TracerProofs

Tracee == TraceeOf(SysCalls \cup {NoCall})

\* The call a FAKE turns every call into is one of the dispatcher's.
LEMMA GetPidCall == GetPid \in SysCalls
<1>1. "getpid" \in DOMAIN Handler /\ Handler["getpid"] = {"fake"}
  BY DEF Handler, HandleGetPid
<1> QED BY <1>1 DEF SysCalls, GetPid

\* Only two calls are neither faked, stored nor left to the kernel on purpose.
LEMMA BareCalls ==
  ASSUME NEW c \in SysCalls, c[2] = "bare"
  PROVE  c \in {ExitCall, <<"ioctl", "bare">>}
<1>1. PICK h \in DOMAIN Handler : c = <<h, "bare">> /\ "bare" \in Handler[h]
  BY DEF SysCalls
<1>2. h \in {"exit", "ioctl"}
  BY <1>1 DEF Handler, PassThrough, DupOrStat, UserIds, Unsupported, HandleGetPid,
     HandlePipe2, HandleGetRUsage, HandleIoctl, HandleGetSockName, HandleGetPeerName,
     HandleGetSockOpt, HandleSetSockOpt, HandleSendTo, HandleAlarm, HandleTime,
     HandleGetTimeOfDay, HandleClockGetTime, HandleClockGetRes, HandleBind,
     HandlePoll, HandleGetRandom, HandleFutex, HandleExit
<1> QED BY <1>1, <1>2 DEF ExitCall

\* A continued thread that ran user code is at the entry of one of its calls.
LEMMA WaitFromUser ==
  ASSUME NEW r \in Tracee, r.stop = "user", NEW calls \in SUBSET SysCalls,
         NEW w \in WaitForSyscall(r, calls)
  PROVE  w \in Tracee /\ w.stop = "entry" /\ w.call \in calls /\ w.ans = "none"
<1>1. calls \in SUBSET (SysCalls \cup {NoCall})
  OBVIOUS
<1> QED BY <1>1, WaitTracee DEF Tracee

\* A continued thread that was at an entry stop has exited, or is at the exit
\* stop of the same call.
LEMMA WaitFromEntry ==
  ASSUME NEW r \in Tracee, r.stop # "user", NEW calls \in SUBSET SysCalls,
         NEW w \in WaitForSyscall(r, calls)
  PROVE  /\ w \in Tracee /\ w.call = r.call
         /\ IF r.call = ExitCall THEN w.stop = "dead"
                                 ELSE w.stop = "user" /\ w.ans = "kernel"
<1>1. calls \in SUBSET (SysCalls \cup {NoCall})
  OBVIOUS
<1> QED BY <1>1, WaitTracee DEF Tracee

\* A FAKE at an entry stop answers the call and leaves it at its exit.
LEMMA FakeAtEntry ==
  ASSUME NEW r \in Tracee, r.stop = "entry", NEW calls \in SUBSET SysCalls,
         NEW w \in Fake(r, calls)
  PROVE  w \in Tracee /\ w.stop = "user" /\ w.ans = "sim" /\ w.call = GetPid
<1>1. calls \in SUBSET (SysCalls \cup {NoCall}) /\ GetPid \in SysCalls \cup {NoCall}
  BY GetPidCall
<1> QED BY <1>1, FakeTracee DEF Tracee

-----------------------------------------------------------------------------
(***************************************************************************)
(* The inductive invariant, thread by thread: r is the ptrace state of the *)
(* thread, n its pending events, z its pending nanosleep callbacks.        *)
(***************************************************************************)
Continued(r, n, z) ==
  n + z = IF Alive(r) /\ ~(r.stop = "entry" /\ Takes(r, "exit_group")) THEN 1 ELSE 0

Matched(r, n, z) ==
  /\ z > 0 => r.stop = "entry" /\ Takes(r, "sleep")
  /\ n > 0 => \/ r.stop = "user"
              \/ r.stop = "entry" /\ r.call[2] \in {"store", "bare"}

Answered(r) ==
  r.stop = "user" /\ r.call # NoCall
    => r.ans = IF AnsweredByKernel(r.call) THEN "kernel" ELSE "sim"

Local(run, r, n, z) ==
  (run => Continued(r, n, z)) /\ Matched(r, n, z) /\ Answered(r)

Inv == TypeOK /\ \A t \in Threads : Local(sim = "running", tr[t], ready[t], sleepers[t])

\* The inductive invariant is the conjunction of the four that TLC checks.
LEMMA InvIsConjunction ==
  Inv <=> TypeOK /\ OneContinuation /\ StopsMatchEvents /\ SimulatedAnswers
  BY DEF Inv, Local, Continued, Matched, Answered, OneContinuation,
         StopsMatchEvents, SimulatedAnswers, Parked

\* What a handler may rely on when HandleSyscallBefore calls it: the thread has
\* no other continuation, and it is at the entry of a call or, after a "store"
\* or "bare" branch, at the exit of the call that took it.
LEMMA CaughtThread ==
  ASSUME Inv, NEW t \in Threads, Event(t),
         NEW r \in WaitForSyscall(tr[t], Program[t])
  PROVE  /\ r \in Tracee
         /\ sim = "running" /\ ready[t] = 1 /\ sleepers[t] = 0
         /\ \/ r.stop = "entry"
            \/ r.stop = "user" /\ r.ans = "kernel" /\ r.call[2] \in {"store", "bare"}
            \/ r.stop = "dead"
         /\ r.call = ExitCall => r.stop # "user"
<1>1. tr[t] \in Tracee /\ Program[t] \in SUBSET SysCalls
  BY ProgramAssumption DEF Inv, TypeOK, Tracee, TraceeOf
<1>2. ready[t] \in Nat /\ sleepers[t] \in Nat /\ ready[t] > 0 /\ sim = "running"
  BY DEF Inv, TypeOK, Event, Tids
<1>3. ready[t] = 1 /\ sleepers[t] = 0
  BY <1>2 DEF Inv, Local, Continued
<1>4. \/ tr[t].stop = "user"
      \/ tr[t].stop = "entry" /\ tr[t].call[2] \in {"store", "bare"}
  BY <1>2 DEF Inv, Local, Matched
<1>5. CASE tr[t].stop = "user"
  BY <1>1, <1>2, <1>3, <1>5, WaitFromUser
<1>6. CASE tr[t].stop # "user"
  BY <1>1, <1>2, <1>3, <1>4, <1>6, WaitFromEntry
<1> QED BY <1>5, <1>6

\* A step that moves one thread t keeps the invariant if it keeps the part of
\* the invariant that is about t.
LEMMA OneThreadMoves ==
  ASSUME Inv, sim = "running", NEW t \in Threads, NEW w \in Tracee,
         NEW n \in Nat, NEW z \in Nat,
         tr' = [tr EXCEPT ![t] = w],
         ready' = [ready EXCEPT ![t] = n], sleepers' = [sleepers EXCEPT ![t] = z],
         pid' \in Tids, sim' \in {"running", "ended", "blocked"},
         tid_vector' \subseteq Tids,
         sim' = "running" => Continued(w, n, z), Matched(w, n, z), Answered(w)
  PROVE  Inv'
<1>1. TypeOK'
  BY DEF Inv, TypeOK, Tracee, TraceeOf, Tids
<1>2. ASSUME NEW x \in Threads
      PROVE  Local(sim' = "running", tr'[x], ready'[x], sleepers'[x])
  <2>1. CASE x = t
    <3>1. tr'[x] = w /\ ready'[x] = n /\ sleepers'[x] = z
      BY <2>1 DEF Inv, TypeOK, Tids
    <3> QED BY <3>1 DEF Local
  <2>2. CASE x # t
    <3>1. tr'[x] = tr[x] /\ ready'[x] = ready[x] /\ sleepers'[x] = sleepers[x]
      BY <2>2 DEF Inv, TypeOK, Tids
    <3> QED BY <3>1 DEF Inv, Local
  <2> QED BY <2>1, <2>2
<1> QED BY <1>1, <1>2 DEF Inv

-----------------------------------------------------------------------------
\* The conclusion of every handler after which the next event of the thread is
\* scheduled: w is at an exit stop, or the kernel is to execute its call.
LEMMA ThreadScheduled ==
  ASSUME Inv, sim = "running", sim' = sim, NEW t \in Threads, NEW w \in Tracee,
         Answered(w),
         w.stop = "user" \/ (w.stop = "entry" /\ w.call[2] \in {"store", "bare"}),
         tr' = [tr EXCEPT ![t] = w], ready' = [ready EXCEPT ![t] = 1],
         sleepers' = [sleepers EXCEPT ![t] = 0],
         pid' \in Tids, tid_vector' \subseteq Tids
  PROVE  Inv'
<1>1. Continued(w, 1, 0) /\ Matched(w, 1, 0)
  BY DEF Continued, Matched, Alive, Takes
<1> QED BY <1>1, OneThreadMoves

\* HandleSyscallAfter keeps the invariant.
LEMMA StepAfter ==
  ASSUME Inv, NEW t \in Threads, HandleSyscallAfter(t)
  PROVE  Inv'
<1>1. PICK r \in WaitForSyscall(tr[t], Program[t]) :
        /\ Caught(t, r) /\ Takes(r, "system")
        /\ \E w \in WaitForSyscall(r, Program[t]) : tr' = [tr EXCEPT ![t] = w]
        /\ ProcessStatusCode("success", t, Consumed(ready, t))
        /\ UNCHANGED <<sleepers, tid_vector>>
  BY DEF HandleSyscallAfter
<1>2. PICK w \in WaitForSyscall(r, Program[t]) : tr' = [tr EXCEPT ![t] = w]
  BY <1>1
<1>3. Event(t) /\ pid' = t /\ r.stop # "dead"
  BY <1>1 DEF Caught
<1>4. /\ r \in Tracee /\ sim = "running" /\ ready[t] = 1 /\ sleepers[t] = 0
      /\ r.stop = "entry" /\ r.call[2] = "system"
  BY <1>1, <1>3, CaughtThread DEF Takes
<1>5. w \in Tracee /\ w.stop = "user" /\ Answered(w)
  <2>1. r.call # ExitCall
    BY <1>4 DEF ExitCall
  <2>2. Program[t] \in SUBSET SysCalls
    BY ProgramAssumption
  <2>3. w \in Tracee /\ w.stop = "user" /\ w.call = r.call /\ w.ans = "kernel"
    BY <1>4, <2>1, <2>2, WaitFromEntry
  <2> QED BY <2>3, <1>4 DEF Answered, AnsweredByKernel
<1>6. /\ sim' = sim /\ ready' = [ready EXCEPT ![t] = 1]
      /\ sleepers' = [sleepers EXCEPT ![t] = 0]
      /\ pid' \in Tids /\ tid_vector' \subseteq Tids
  BY <1>1, <1>3, <1>4 DEF ProcessStatusCode, Scheduled, Consumed, Inv, TypeOK, Tids
<1> QED BY <1>2, <1>4, <1>5, <1>6, ThreadScheduled

\* A handler that ends in FAKE keeps the invariant.
LEMMA StepFaked ==
  ASSUME Inv, NEW t \in Threads, HandleFaked(t)
  PROVE  Inv'
<1>1. PICK r \in WaitForSyscall(tr[t], Program[t]) :
        /\ Caught(t, r) /\ Takes(r, "fake")
        /\ \E w \in Fake(r, Program[t]) : tr' = [tr EXCEPT ![t] = w]
        /\ ProcessStatusCode("success", t, Consumed(ready, t))
        /\ UNCHANGED <<sleepers, tid_vector>>
  BY DEF HandleFaked
<1>2. PICK w \in Fake(r, Program[t]) : tr' = [tr EXCEPT ![t] = w]
  BY <1>1
<1>3. Event(t) /\ pid' = t /\ r.stop # "dead"
  BY <1>1 DEF Caught
<1>4. /\ r \in Tracee /\ sim = "running" /\ ready[t] = 1 /\ sleepers[t] = 0
      /\ r.stop = "entry"
  BY <1>1, <1>3, CaughtThread DEF Takes
<1>5. w \in Tracee /\ w.stop = "user" /\ Answered(w)
  <2>1. Program[t] \in SUBSET SysCalls
    BY ProgramAssumption
  <2>2. w \in Tracee /\ w.stop = "user" /\ w.ans = "sim" /\ w.call = GetPid
    BY <1>4, <2>1, FakeAtEntry
  <2> QED BY <2>2 DEF Answered, AnsweredByKernel, GetPid
<1>6. /\ sim' = sim /\ ready' = [ready EXCEPT ![t] = 1]
      /\ sleepers' = [sleepers EXCEPT ![t] = 0]
      /\ pid' \in Tids /\ tid_vector' \subseteq Tids
  BY <1>1, <1>3, <1>4 DEF ProcessStatusCode, Scheduled, Consumed, Inv, TypeOK, Tids
<1> QED BY <1>2, <1>4, <1>5, <1>6, ThreadScheduled

\* clock_gettime and clock_getres keep the invariant, at the entry stop and
\* again at the exit stop.
LEMMA StepStored ==
  ASSUME Inv, NEW t \in Threads, HandleStored(t)
  PROVE  Inv'
<1>1. PICK r \in WaitForSyscall(tr[t], Program[t]) :
        /\ Caught(t, r) /\ Takes(r, "store")
        /\ tr' = [tr EXCEPT ![t] = [r EXCEPT !.ans = "sim"]]
        /\ ProcessStatusCode("success", t, Consumed(ready, t))
        /\ UNCHANGED <<sleepers, tid_vector>>
  BY DEF HandleStored
<1>2. Event(t) /\ pid' = t /\ r.stop # "dead"
  BY <1>1 DEF Caught
<1>3. /\ r \in Tracee /\ sim = "running" /\ ready[t] = 1 /\ sleepers[t] = 0
      /\ r.stop \in {"entry", "user"} /\ r.call[2] = "store"
  BY <1>1, <1>2, CaughtThread DEF Takes
<1> DEFINE w == [r EXCEPT !.ans = "sim"]
<1>4. w \in Tracee /\ w.stop = r.stop /\ w.call = r.call /\ w.ans = "sim"
  BY <1>3 DEF Tracee, TraceeOf, Answers
<1> HIDE DEF w
<1>5. Answered(w)
  BY <1>3, <1>4 DEF Answered, AnsweredByKernel
<1>6. /\ sim' = sim
      /\ ready' = [ready EXCEPT ![t] = 1] /\ sleepers' = [sleepers EXCEPT ![t] = 0]
      /\ pid' \in Tids /\ tid_vector' \subseteq Tids
  BY <1>1, <1>2, <1>3 DEF ProcessStatusCode, Scheduled, Consumed, Inv, TypeOK, Tids
<1>7. tr' = [tr EXCEPT ![t] = w]
  BY <1>1 DEF w
<1> QED BY <1>3, <1>4, <1>5, <1>6, <1>7, ThreadScheduled

\* SYS_exit and the ioctl without a device keep the invariant.
LEMMA StepBare ==
  ASSUME Inv, NEW t \in Threads, HandleBare(t)
  PROVE  Inv'
<1>1. PICK r \in WaitForSyscall(tr[t], Program[t]) :
        /\ Caught(t, r) /\ Takes(r, "bare")
        /\ tr' = [tr EXCEPT ![t] = r]
        /\ ProcessStatusCode("failure", t, Consumed(ready, t))
        /\ UNCHANGED <<sleepers, tid_vector>>
  BY DEF HandleBare
<1>2. Event(t) /\ pid' = t /\ r.stop # "dead"
  BY <1>1 DEF Caught
<1>3. /\ r \in Tracee /\ sim = "running" /\ ready[t] = 1 /\ sleepers[t] = 0
      /\ r.stop \in {"entry", "user"} /\ r.call[2] = "bare"
  BY <1>1, <1>2, CaughtThread DEF Takes
<1>4. Answered(r)
  <2>1. CASE r.stop = "entry"
    BY <2>1 DEF Answered
  <2>2. CASE r.stop = "user"
    <3>1. r.ans = "kernel" /\ r.call # ExitCall
      BY <1>2, <2>2, CaughtThread
    <3>2. r.call \in SysCalls
      BY <1>3 DEF Tracee, TraceeOf, NoCall
    <3> QED BY <1>3, <3>1, <3>2, BareCalls DEF Answered, AnsweredByKernel
  <2> QED BY <1>3, <2>1, <2>2
<1>5. /\ sim' = sim
      /\ ready' = [ready EXCEPT ![t] = 1] /\ sleepers' = [sleepers EXCEPT ![t] = 0]
      /\ pid' \in Tids /\ tid_vector' \subseteq Tids
  BY <1>1, <1>2, <1>3 DEF ProcessStatusCode, Scheduled, Consumed, Inv, TypeOK, Tids
<1> QED BY <1>1, <1>3, <1>4, <1>5, ThreadScheduled

-----------------------------------------------------------------------------
\* The conclusion of every handler that schedules nothing: the thread has
\* exited or called exit_group, or the simulation is over.
LEMMA ThreadUnscheduled ==
  ASSUME Inv, sim = "running", NEW t \in Threads, NEW w \in Tracee, w.stop # "user",
         sim' \in {"running", "ended", "blocked"},
         sim' = "running" =>
           w.stop = "dead" \/ (w.stop = "entry" /\ w.call[2] = "exit_group"),
         tr' = [tr EXCEPT ![t] = w], ready' = [ready EXCEPT ![t] = 0],
         sleepers' = [sleepers EXCEPT ![t] = 0],
         pid' \in Tids, tid_vector' \subseteq Tids
  PROVE  Inv'
<1>1. sim' = "running" => Continued(w, 0, 0)
  BY DEF Continued, Alive, Takes
<1>2. Matched(w, 0, 0) /\ Answered(w)
  BY DEF Matched, Answered
<1> QED BY <1>1, <1>2, OneThreadMoves

\* The event of a thread that has exited keeps the invariant.
LEMMA StepThreadEnd ==
  ASSUME Inv, NEW t \in Threads, HandleThreadEnd(t)
  PROVE  Inv'
<1>1. PICK r \in WaitForSyscall(tr[t], Program[t]) :
        r.stop = "dead" /\ tr' = [tr EXCEPT ![t] = r]
  BY DEF HandleThreadEnd
<1>2. /\ Event(t) /\ pid' = t /\ ready' = Consumed(ready, t)
      /\ UNCHANGED <<sim, sleepers, tid_vector>>
  BY DEF HandleThreadEnd
<1>3. r \in Tracee /\ sim = "running" /\ ready[t] = 1 /\ sleepers[t] = 0
  BY <1>1, <1>2, CaughtThread
<1>4. /\ ready' = [ready EXCEPT ![t] = 0] /\ sleepers' = [sleepers EXCEPT ![t] = 0]
      /\ sim' \in {"running", "ended", "blocked"}
      /\ pid' \in Tids /\ tid_vector' \subseteq Tids
  BY <1>2, <1>3 DEF Consumed, Inv, TypeOK, Tids
<1> QED BY <1>1, <1>3, <1>4, ThreadUnscheduled

\* A waitpid that does not return keeps the invariant.
LEMMA StepStuck ==
  ASSUME Inv, NEW t \in Threads, HandleStuck(t)
  PROVE  Inv'
<1>1. Event(t) /\ pid' = t /\ sim' = "blocked" /\ ready' = Consumed(ready, t)
  BY DEF HandleStuck
<1>2. tr[t] \in Tracee /\ ready[t] \in Nat /\ sleepers[t] \in Nat
  BY DEF Inv, TypeOK, Tracee, TraceeOf, Tids
<1>3. ready[t] = 1 /\ sleepers[t] = 0 /\ sim = "running"
  BY <1>1, <1>2 DEF Event, Inv, Local, Continued
<1>4. /\ ready' = [ready EXCEPT ![t] = 0] /\ sleepers' = [sleepers EXCEPT ![t] = 0]
      /\ sim' \in {"running", "ended", "blocked"}
      /\ pid' \in Tids /\ tid_vector' \subseteq Tids
  BY <1>1, <1>3 DEF HandleStuck, Consumed, Inv, TypeOK, Tids
<1>5. CASE ExitUnreported(t) /\ UNCHANGED tr
  <2>1. tr[t].stop # "user" /\ tr' = [tr EXCEPT ![t] = tr[t]]
    BY <1>5 DEF ExitUnreported, Inv, TypeOK
  <2> QED BY <1>1, <1>2, <1>3, <1>4, <2>1, ThreadUnscheduled
<1>6. CASE \E r \in WaitForSyscall(tr[t], Program[t]) :
             Caught(t, r) /\ Takes(r, "block") /\ tr' = [tr EXCEPT ![t] = r]
  <2>1. PICK r \in WaitForSyscall(tr[t], Program[t]) :
          Caught(t, r) /\ Takes(r, "block") /\ tr' = [tr EXCEPT ![t] = r]
    BY <1>6
  <2>2. r \in Tracee /\ r.stop # "user"
    BY <1>1, <2>1, CaughtThread DEF Takes
  <2> QED BY <1>1, <1>3, <1>4, <2>1, <2>2, ThreadUnscheduled
<1> QED BY <1>5, <1>6 DEF HandleStuck

\* A handler that reports SYSC_ERROR, exits or asserts keeps the invariant.
LEMMA StepError ==
  ASSUME Inv, NEW t \in Threads, HandleError(t)
  PROVE  Inv'
<1>1. PICK r \in WaitForSyscall(tr[t], Program[t]) :
        /\ Caught(t, r) /\ Takes(r, "abort")
        /\ tr' = [tr EXCEPT ![t] = r]
        /\ ProcessStatusCode("error", t, Consumed(ready, t))
        /\ UNCHANGED <<sleepers, tid_vector>>
  BY DEF HandleError
<1>2. Event(t) /\ pid' = t /\ r.stop # "dead"
  BY <1>1 DEF Caught
<1>3. /\ r \in Tracee /\ sim = "running" /\ ready[t] = 1 /\ sleepers[t] = 0
      /\ r.stop # "user"
  BY <1>1, <1>2, CaughtThread DEF Takes
<1>4. /\ sim' = "ended" /\ sim' \in {"running", "ended", "blocked"}
      /\ ready' = [ready EXCEPT ![t] = 0] /\ sleepers' = [sleepers EXCEPT ![t] = 0]
      /\ pid' \in Tids /\ tid_vector' \subseteq Tids
  BY <1>1, <1>2, <1>3 DEF ProcessStatusCode, Consumed, Inv, TypeOK, Tids
<1> QED BY <1>1, <1>3, <1>4, ThreadUnscheduled

\* exit_group keeps the invariant, whether the simulation goes on or not.
LEMMA StepExitGroup ==
  ASSUME Inv, NEW t \in Threads, HandleExitGroup(t)
  PROVE  Inv'
<1>1. PICK r \in WaitForSyscall(tr[t], Program[t]) :
        /\ Caught(t, r) /\ Takes(r, "exit_group")
        /\ tr' = [tr EXCEPT ![t] = r]
        /\ ProcessStatusCode("system_exit", t, Consumed(ready, t))
        /\ UNCHANGED <<sleepers, tid_vector>>
  BY DEF HandleExitGroup
<1>2. Event(t) /\ pid' = t /\ r.stop # "dead"
  BY <1>1 DEF Caught
<1>3. /\ r \in Tracee /\ sim = "running" /\ ready[t] = 1 /\ sleepers[t] = 0
      /\ r.stop = "entry" /\ r.call[2] = "exit_group"
  BY <1>1, <1>2, CaughtThread DEF Takes
<1>4. /\ sim' \in {"running", "ended", "blocked"}
      /\ ready' = [ready EXCEPT ![t] = 0] /\ sleepers' = [sleepers EXCEPT ![t] = 0]
      /\ pid' \in Tids /\ tid_vector' \subseteq Tids
  BY <1>1, <1>2, <1>3 DEF ProcessStatusCode, Consumed, Inv, TypeOK, Tids
<1> QED BY <1>1, <1>3, <1>4, ThreadUnscheduled

\* nanosleep keeps the invariant: the callback takes the place of the event.
LEMMA StepNanoSleep ==
  ASSUME Inv, NEW t \in Threads, HandleNanoSleep(t)
  PROVE  Inv'
<1>1. PICK r \in WaitForSyscall(tr[t], Program[t]) :
        /\ Caught(t, r) /\ Takes(r, "sleep")
        /\ tr' = [tr EXCEPT ![t] = r]
        /\ sleepers' = Scheduled(sleepers, t)
        /\ ProcessStatusCode("delayed", t, Consumed(ready, t))
        /\ UNCHANGED tid_vector
  BY DEF HandleNanoSleep
<1>2. Event(t) /\ pid' = t /\ r.stop # "dead"
  BY <1>1 DEF Caught
<1>3. /\ r \in Tracee /\ sim = "running" /\ ready[t] = 1 /\ sleepers[t] = 0
      /\ r.stop = "entry" /\ r.call[2] = "sleep"
  BY <1>1, <1>2, CaughtThread DEF Takes
<1>4. /\ sim' \in {"running", "ended", "blocked"}
      /\ ready' = [ready EXCEPT ![t] = 0] /\ sleepers' = [sleepers EXCEPT ![t] = 1]
      /\ pid' \in Tids /\ tid_vector' \subseteq Tids
  BY <1>1, <1>2, <1>3 DEF ProcessStatusCode, Scheduled, Consumed, Inv, TypeOK, Tids
<1>5. Continued(r, 0, 1) /\ Matched(r, 0, 1) /\ Answered(r)
  BY <1>3 DEF Continued, Matched, Answered, Alive, Takes
<1>6. 0 \in Nat /\ 1 \in Nat
  OBVIOUS
<1> QED BY <1>1, <1>3, <1>4, <1>5, <1>6, OneThreadMoves

\* The callback of nanosleep keeps the invariant: saved_pid is still at the
\* entry of its nanosleep, whatever this->pid has become.
LEMMA StepWakeUp ==
  ASSUME Inv, NEW t \in Threads, WakeUp(t)
  PROVE  Inv'
<1>1. PICK w \in Fake(tr[t], Program[t]) : tr' = [tr EXCEPT ![t] = w]
  BY DEF WakeUp
<1>2. /\ sim = "running" /\ sleepers[t] > 0
      /\ sleepers' = Consumed(sleepers, t)
      /\ ProcessStatusCode("success", t, ready)
      /\ UNCHANGED <<pid, tid_vector>>
  BY DEF WakeUp, Running
<1>3. /\ tr[t] \in Tracee /\ ready[t] \in Nat /\ sleepers[t] \in Nat
      /\ Program[t] \in SUBSET SysCalls
  BY ProgramAssumption DEF Inv, TypeOK, Tracee, TraceeOf, Tids
<1>4. ready[t] = 0 /\ sleepers[t] = 1 /\ tr[t].stop = "entry"
  BY <1>2, <1>3 DEF Inv, Local, Continued, Matched
<1>5. w \in Tracee /\ w.stop = "user" /\ w.ans = "sim" /\ w.call = GetPid
  BY <1>1, <1>3, <1>4, FakeAtEntry
<1>6. Answered(w)
  BY <1>5 DEF Answered, AnsweredByKernel, GetPid
<1>7. /\ sim' = sim
      /\ ready' = [ready EXCEPT ![t] = 1] /\ sleepers' = [sleepers EXCEPT ![t] = 0]
      /\ pid' \in Tids /\ tid_vector' \subseteq Tids
  BY <1>2, <1>4 DEF ProcessStatusCode, Scheduled, Consumed, Inv, TypeOK, Tids
<1> QED BY <1>1, <1>2, <1>5, <1>6, <1>7, ThreadScheduled

-----------------------------------------------------------------------------
\* What both outcomes of clone have in common: the caller w is at the exit of
\* its call with one event, and other threads are as they were.
LEMMA CloneReturns ==
  ASSUME Inv, NEW t \in Threads, Event(t),
         NEW r \in WaitForSyscall(tr[t], Program[t]), r.stop # "dead",
         Takes(r, "clone"), NEW w \in WaitForSyscall(r, Program[t])
  PROVE  /\ sim = "running" /\ ready[t] = 1 /\ sleepers[t] = 0
         /\ w \in Tracee /\ Local(TRUE, w, 1, 0)
<1>1. /\ r \in Tracee /\ sim = "running" /\ ready[t] = 1 /\ sleepers[t] = 0
      /\ r.stop = "entry" /\ r.call[2] = "clone"
  BY CaughtThread DEF Takes
<1>2. r.call # ExitCall /\ Program[t] \in SUBSET SysCalls
  BY <1>1, ProgramAssumption DEF ExitCall
<1>3. w \in Tracee /\ w.stop = "user" /\ w.call = r.call /\ w.ans = "kernel"
  BY <1>1, <1>2, WaitFromEntry
<1> QED BY <1>1, <1>3 DEF Local, Continued, Matched, Answered, AnsweredByKernel, Alive

\* clone keeps the invariant: the new thread gets its first event.
LEMMA StepClone ==
  ASSUME Inv, NEW t \in Threads, NEW u \in Threads \ {t}, HandleClone(t, u)
  PROVE  Inv'
<1>1. PICK r \in WaitForSyscall(tr[t], Program[t]) :
        /\ Caught(t, r) /\ Takes(r, "clone")
        /\ tr[u].stop = "unborn"
        /\ \E w \in WaitForSyscall(r, Program[t]) :
             tr' = [tr EXCEPT ![t] = w, ![u] = Fresh]
        /\ tid_vector' = tid_vector \cup {u}
        /\ ProcessStatusCode("success", t, Scheduled(Consumed(ready, t), u))
        /\ UNCHANGED sleepers
  BY DEF HandleClone
<1>2. PICK w \in WaitForSyscall(r, Program[t]) :
        tr' = [tr EXCEPT ![t] = w, ![u] = Fresh]
  BY <1>1
<1>3. Event(t) /\ pid' = t /\ r.stop # "dead"
  BY <1>1 DEF Caught
<1>4. /\ sim = "running" /\ ready[t] = 1 /\ sleepers[t] = 0
      /\ w \in Tracee /\ Local(TRUE, w, 1, 0)
  BY <1>1, <1>2, <1>3, CloneReturns
<1>5. /\ tr[u] \in Tracee /\ ready[u] \in Nat /\ sleepers[u] \in Nat
      /\ ready \in [Tids -> Nat] /\ sleepers \in [Threads -> Nat]
      /\ tr \in [Threads -> Tracee] /\ t \in Tids /\ u \in Tids /\ t # u
  BY DEF Inv, TypeOK, Tracee, TraceeOf, Tids
<1>6. ready[u] = 0 /\ sleepers[u] = 0
  BY <1>1, <1>4, <1>5 DEF Inv, Local, Continued, Alive
<1>7. ready' = [ready EXCEPT ![t] = 1, ![u] = 1] /\ sim' = sim
  BY <1>1, <1>4, <1>5, <1>6 DEF ProcessStatusCode, Scheduled, Consumed
<1>8. Fresh \in Tracee /\ Local(TRUE, Fresh, 1, 0)
  BY DEF Fresh, Tracee, TraceeOf, Stops, Answers, Local, Continued, Matched, Answered, Alive
<1>9. TypeOK'
  <2>1. tr' \in [Threads -> Tracee]
    BY <1>2, <1>4, <1>5, <1>8
  <2>2. ready' \in [Tids -> Nat] /\ sleepers' \in [Threads -> Nat]
    BY <1>1, <1>5, <1>7
  <2>3. /\ pid' \in Tids /\ tid_vector' \subseteq Tids
        /\ sim' \in {"running", "ended", "blocked"}
    BY <1>1, <1>3, <1>5, <1>7 DEF Inv, TypeOK
  <2> QED BY <2>1, <2>2, <2>3 DEF TypeOK, Tracee, TraceeOf
<1>10. ASSUME NEW x \in Threads
       PROVE  Local(sim' = "running", tr'[x], ready'[x], sleepers'[x])
  <2>1. CASE x = t
    <3>1. tr'[x] = w /\ ready'[x] = 1 /\ sleepers'[x] = 0
      BY <1>1, <1>2, <1>4, <1>5, <1>7, <2>1
    <3> QED BY <1>4, <3>1 DEF Local
  <2>2. CASE x = u
    <3>1. tr'[x] = Fresh /\ ready'[x] = 1 /\ sleepers'[x] = 0
      BY <1>1, <1>2, <1>5, <1>6, <1>7, <2>2
    <3> QED BY <1>8, <3>1 DEF Local
  <2>3. CASE x # t /\ x # u
    <3>1. tr'[x] = tr[x] /\ ready'[x] = ready[x] /\ sleepers'[x] = sleepers[x]
      BY <1>1, <1>2, <1>5, <1>7, <2>3 DEF Tids
    <3> QED BY <1>7, <3>1 DEF Inv
  <2> QED BY <2>1, <2>2, <2>3
<1> QED BY <1>9, <1>10 DEF Inv

\* A refused clone keeps the invariant: its stray event is no thread's.
LEMMA StepCloneRefused ==
  ASSUME Inv, NEW t \in Threads, HandleCloneRefused(t)
  PROVE  Inv'
<1>1. PICK r \in WaitForSyscall(tr[t], Program[t]) :
        /\ Caught(t, r) /\ Takes(r, "clone")
        /\ \E w \in WaitForSyscall(r, Program[t]) : tr' = [tr EXCEPT ![t] = w]
        /\ tid_vector' = tid_vector \cup {ErrTid}
        /\ ProcessStatusCode("success", t, Scheduled(Consumed(ready, t), ErrTid))
        /\ UNCHANGED sleepers
  BY DEF HandleCloneRefused
<1>2. PICK w \in WaitForSyscall(r, Program[t]) : tr' = [tr EXCEPT ![t] = w]
  BY <1>1
<1>3. Event(t) /\ pid' = t /\ r.stop # "dead"
  BY <1>1 DEF Caught
<1>4. /\ sim = "running" /\ ready[t] = 1 /\ sleepers[t] = 0
      /\ w \in Tracee /\ Local(TRUE, w, 1, 0)
  BY <1>1, <1>2, <1>3, CloneReturns
<1>5. /\ ready \in [Tids -> Nat] /\ sleepers \in [Threads -> Nat]
      /\ tr \in [Threads -> Tracee] /\ t \in Tids /\ ErrTid \in Tids /\ t # ErrTid
  BY ErrTidAssumption DEF Inv, TypeOK, Tracee, TraceeOf, Tids
<1>6. ready' = [ready EXCEPT ![t] = 1, ![ErrTid] = @ + 1] /\ sim' = sim
  BY <1>1, <1>4, <1>5 DEF ProcessStatusCode, Scheduled, Consumed
<1>7. TypeOK'
  <2>1. tr' \in [Threads -> Tracee]
    BY <1>2, <1>4, <1>5
  <2>2. ready' \in [Tids -> Nat] /\ sleepers' \in [Threads -> Nat]
    BY <1>1, <1>5, <1>6
  <2>3. /\ pid' \in Tids /\ tid_vector' \subseteq Tids
        /\ sim' \in {"running", "ended", "blocked"}
    BY <1>1, <1>3, <1>5, <1>6 DEF Inv, TypeOK
  <2> QED BY <2>1, <2>2, <2>3 DEF TypeOK, Tracee, TraceeOf
<1>8. ASSUME NEW x \in Threads
      PROVE  Local(sim' = "running", tr'[x], ready'[x], sleepers'[x])
  <2>1. CASE x = t
    <3>1. tr'[x] = w /\ ready'[x] = 1 /\ sleepers'[x] = 0
      BY <1>1, <1>2, <1>4, <1>5, <1>6, <2>1
    <3> QED BY <1>4, <3>1 DEF Local
  <2>2. CASE x # t
    <3>1. tr'[x] = tr[x] /\ ready'[x] = ready[x] /\ sleepers'[x] = sleepers[x]
      BY <1>1, <1>2, <1>5, <1>6, <2>2, ErrTidAssumption DEF Tids
    <3> QED BY <1>6, <3>1 DEF Inv
  <2> QED BY <2>1, <2>2
<1> QED BY <1>7, <1>8 DEF Inv

\* The event of a refused clone keeps the invariant.
LEMMA StepErrTid ==
  ASSUME Inv, HandleErrTid
  PROVE  Inv'
<1>1. /\ sim = "running" /\ ready[ErrTid] > 0 /\ pid' = ErrTid
      /\ ready' = Consumed(ready, ErrTid)
      /\ sim' \in {"ended", "running", "blocked"}
      /\ UNCHANGED <<tr, sleepers, tid_vector>>
  BY DEF HandleErrTid, Event
<1>2. TypeOK'
  BY <1>1 DEF Inv, TypeOK, Consumed, Tids
<1>3. ASSUME NEW x \in Threads
      PROVE  Local(sim' = "running", tr'[x], ready'[x], sleepers'[x])
  <2>1. tr'[x] = tr[x] /\ ready'[x] = ready[x] /\ sleepers'[x] = sleepers[x]
    BY <1>1, ErrTidAssumption DEF Inv, TypeOK, Consumed, Tids
  <2> QED BY <1>1, <2>1 DEF Inv, Local
<1> QED BY <1>2, <1>3 DEF Inv

-----------------------------------------------------------------------------
\* The invariant holds when StartApplication has forked the process.
LEMMA InitInv == Init => Inv
<1> SUFFICES ASSUME Init PROVE Inv
  OBVIOUS
<1>1. Fresh \in Tracee /\ Unborn \in Tracee
  BY DEF Fresh, Unborn, Tracee, TraceeOf, Stops, Answers
<1>2. TypeOK
  BY <1>1, ThreadsAssumption DEF Init, TracerInit, TypeOK, Tracee, TraceeOf, Tids
<1>3. ASSUME NEW x \in Threads
      PROVE  Local(sim = "running", tr[x], ready[x], sleepers[x])
  BY DEF Init, TracerInit, Tids, Fresh, Unborn, Local, Continued, Matched,
         Answered, Alive
<1> QED BY <1>2, <1>3 DEF Inv

\* Every step of the simulator keeps the invariant.
LEMMA NextInv == Inv /\ [Next]_vars => Inv'
<1> SUFFICES ASSUME Inv, [Next]_vars PROVE Inv'
  OBVIOUS
<1>1. CASE UNCHANGED vars
  BY <1>1 DEF vars, Inv, TypeOK, Local
<1>2. ASSUME NEW t \in Threads, HandleSyscallBefore(t) PROVE Inv'
  BY <1>2, StepAfter, StepFaked, StepStored, StepBare, StepThreadEnd, StepStuck,
     StepError, StepExitGroup, StepNanoSleep, StepClone, StepCloneRefused
     DEF HandleSyscallBefore
<1>3. ASSUME NEW t \in Threads, WakeUp(t) PROVE Inv'
  BY <1>3, StepWakeUp
<1>4. CASE HandleErrTid
  BY <1>4, StepErrTid
<1> QED BY <1>1, <1>2, <1>3, <1>4 DEF Next

\* The conjunction of the four invariants is an invariant of the system.
THEOREM Invariance == Spec => []Inv
  BY InitInv, NextInv, PTL DEF Spec

\* The variables of GrailThreads keep their types.
THEOREM TypeCorrect == Spec => []TypeOK
<1>1. Inv => TypeOK
  BY DEF Inv
<1> QED BY <1>1, Invariance, PTL

\* Whatever the program and the number of threads, every live thread has
\* exactly one continuation in the event list: none is lost, none runs twice.
THEOREM ContinuationUnique == Spec => []OneContinuation
<1>1. Inv => OneContinuation
  BY InvIsConjunction
<1> QED BY <1>1, Invariance, PTL

\* No handler runs out of step with the ptrace stop of its thread.
THEOREM DispatcherInStep == Spec => []StopsMatchEvents
<1>1. Inv => StopsMatchEvents
  BY InvIsConjunction
<1> QED BY <1>1, Invariance, PTL

\* A call that returned carries the simulator's answer if a handler emulates
\* it, whatever the program: only the ioctl for a device name that finds none
\* is emulated and carries the kernel's.
THEOREM AnswersSimulated == Spec => []SimulatedAnswers
<1>1. Inv => SimulatedAnswers
  BY InvIsConjunction
<1> QED BY <1>1, Invariance, PTL
=============================================================================
