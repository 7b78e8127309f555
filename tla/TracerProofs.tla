---------------------------- MODULE TracerProofs ----------------------------
(***************************************************************************)
(* What WaitForSyscall, FAKE and ProcessStatusCode do to a thread, for     *)
(* every set of calls the application may make.                            *)
(***************************************************************************)
EXTENDS Tracer, TLAPS

\* The states of a thread whose call is in the set calls.
TraceeOf(calls) == [stop : Stops, call : calls, ans : Answers]

\* A thread in user code is next seen at the entry of a call it makes; any
\* other wait ends at an exit stop, or with the thread.
LEMMA WaitTracee ==
  ASSUME NEW all, NEW calls \in SUBSET all, NEW r \in TraceeOf(all),
         NEW w \in WaitForSyscall(r, calls)
  PROVE  /\ w \in TraceeOf(all)
         /\ r.stop = "user" => w.stop = "entry" /\ w.call \in calls /\ w.ans = "none"
         /\ r.stop # "user" =>
              /\ w.call = r.call
              /\ IF r.call = ExitCall THEN w.stop = "dead"
                                      ELSE w.stop = "user" /\ w.ans = "kernel"
<1>1. CASE r.stop = "user"
  <2>1. PICK c \in calls : w = [stop |-> "entry", call |-> c, ans |-> "none"]
    BY <1>1 DEF WaitForSyscall
  <2> QED BY <1>1, <2>1 DEF TraceeOf, Stops, Answers
<1>2. CASE r.stop # "user"
  <2>1. \/ r.call = ExitCall /\ w = [r EXCEPT !.stop = "dead"]
        \/ r.call # ExitCall /\ w = [r EXCEPT !.stop = "user", !.ans = "kernel"]
    BY <1>2 DEF WaitForSyscall
  <2> QED BY <1>2, <2>1 DEF TraceeOf, Stops, Answers
<1> QED BY <1>1, <1>2

\* FAKE answers the call of a thread that has made one.  A thread in user code
\* is moved to the entry of its next call instead.
LEMMA FakeTracee ==
  ASSUME NEW all, NEW calls \in SUBSET all, GetPid \in all, NEW r \in TraceeOf(all),
         NEW w \in Fake(r, calls)
  PROVE  /\ w \in TraceeOf(all) /\ w.ans = "sim"
         /\ r.stop # "user" => w.stop = "user" /\ w.call = GetPid
<1> DEFINE g == [r EXCEPT !.call = GetPid]
<1>1. g \in TraceeOf(all) /\ g.stop = r.stop /\ g.call = GetPid /\ g.call # ExitCall
  BY DEF TraceeOf, GetPid, ExitCall
<1>2. PICK v \in WaitForSyscall(g, calls) : w = [v EXCEPT !.ans = "sim"]
  BY DEF Fake
<1> HIDE DEF g
<1>3. v \in TraceeOf(all) /\ (r.stop # "user" => v.stop = "user" /\ v.call = GetPid)
  BY <1>1, <1>2, WaitTracee
<1> QED BY <1>2, <1>3 DEF TraceeOf, Answers

\* The event of a handler is consumed; an answer schedules the next one.
LEMMA EventsAfter ==
  ASSUME NEW t \in Threads, ready \in [Threads -> Nat], ready[t] > 0, NEW res,
         ProcessStatusCode(res, t, Consumed(ready, t))
  PROVE  ready' = IF res \in {"success", "failure"} THEN ready
                  ELSE [ready EXCEPT ![t] = ready[t] - 1]
<1>1. ready[t] \in Nat /\ Consumed(ready, t) = [ready EXCEPT ![t] = ready[t] - 1]
  BY DEF Consumed
<1>2. CASE res \in {"success", "failure"}
  <2>1. ready' = [ready EXCEPT ![t] = ready[t] - 1 + 1]
    BY <1>1, <1>2 DEF ProcessStatusCode, Scheduled
  <2>2. ready[t] - 1 + 1 = ready[t]
    BY <1>1
  <2> QED BY <1>2, <2>1, <2>2
<1>3. CASE res \notin {"success", "failure"}
  BY <1>1, <1>3 DEF ProcessStatusCode
<1> QED BY <1>2, <1>3
=============================================================================
