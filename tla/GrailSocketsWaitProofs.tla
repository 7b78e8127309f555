----------------------- MODULE GrailSocketsWaitProofs -----------------------
(***************************************************************************)
(* The threads and callbacks of GrailSockets for every set of threads,     *)
(* descriptors and ns-3 sockets: the types of all variables, who waits for *)
(* what, and what can still resume a thread.                               *)
(***************************************************************************)
EXTENDS GrailSocketsProofs, TracerProofs

CallsOfThreads == Requests \cup {NoCall, GetPid}
CallbackTypes  == [kind : Kinds, tid : Threads, fd : FDs \cup {0}]

ThreadTypes ==
  /\ tr \in [Threads -> TraceeOf(CallsOfThreads)]
  /\ ready \in [Threads -> Nat]
  /\ pid \in Threads
  /\ sim \in {"running", "ended"}

SlotTypes ==
  /\ recvCb \in [Socks -> CallbackTypes]
  /\ sendCb \in [Socks -> CallbackTypes]
  /\ acceptCb \in [Socks -> CallbackTypes]
  /\ timer \in [Threads -> BOOLEAN]
  /\ rx \subseteq Socks /\ full \subseteq Socks

\* The types of what is not in the tables.
WaitTypes == ThreadTypes /\ SlotTypes

-----------------------------------------------------------------------------
\* The call in r is the one the handler was called for.
LEMMA CaughtThread ==
  ASSUME ThreadTypes, NEW t \in Threads, NEW name,
         NEW r \in WaitForSyscall(tr[t], Requests), Caught(t, name, r)
  PROVE  /\ r \in TraceeOf(CallsOfThreads)
         /\ sim = "running" /\ ready[t] > 0 /\ pid' = t
         /\ tr[t].stop = "user" => r.stop = "entry" /\ r.call[1] = name /\ r.call \in Requests
<1>1. tr[t] \in TraceeOf(CallsOfThreads) /\ Requests \in SUBSET CallsOfThreads
  BY DEF ThreadTypes, CallsOfThreads
<1> QED BY <1>1, WaitTracee DEF Caught, Event

\* Others stay where they are, and the event of a handler is followed by at
\* most one of the same thread.
ThreadMoves(t) ==
  /\ \A u \in Threads \ {t} : tr'[u] = tr[u] /\ ready'[u] = ready[u]
  /\ sim' = "running" => sim = "running"

\* FAKE and the return of a status.
LEMMA AnswerEffect ==
  ASSUME ThreadTypes, NEW t \in Threads, NEW name,
         NEW r \in WaitForSyscall(tr[t], Requests), Caught(t, name, r),
         NEW res \in {"success", "failure", "error"}, Answer(t, r, res)
  PROVE  /\ ThreadTypes' /\ ThreadMoves(t)
         /\ sim' = "running" => ready' = ready
         /\ tr[t].stop = "user" => tr'[t].stop = "user"
<1>1. /\ r \in TraceeOf(CallsOfThreads) /\ sim = "running" /\ ready[t] > 0 /\ pid' = t
      /\ tr[t].stop = "user" => r.stop = "entry"
  BY CaughtThread
<1>2. PICK w \in Fake(r, Requests) : tr' = [tr EXCEPT ![t] = w]
  BY DEF Answer
<1>3. w \in TraceeOf(CallsOfThreads) /\ (r.stop # "user" => w.stop = "user")
  <2>1. Requests \in SUBSET CallsOfThreads /\ GetPid \in CallsOfThreads
    BY DEF CallsOfThreads
  <2> QED BY <1>1, <2>1, FakeTracee
<1>4. ready' = IF res \in {"success", "failure"} THEN ready
               ELSE [ready EXCEPT ![t] = ready[t] - 1]
  BY <1>1, EventsAfter DEF ThreadTypes, Answer
<1>5. /\ sim' \in {"running", "ended"}
      /\ sim' = "running" => res \in {"success", "failure"}
  BY <1>1 DEF Answer, ProcessStatusCode
<1>6. ready[t] - 1 \in Nat
  BY <1>1 DEF ThreadTypes
<1>7. ThreadTypes'
  BY <1>1, <1>2, <1>3, <1>4, <1>5, <1>6 DEF ThreadTypes
<1> QED BY <1>1, <1>2, <1>3, <1>4, <1>5, <1>7 DEF ThreadTypes, ThreadMoves

\* HandleSyscallAfter of a call that is left to the kernel.
LEMMA PassEffect ==
  ASSUME ThreadTypes, NEW t \in Threads, NEW name,
         NEW r \in WaitForSyscall(tr[t], Requests), Caught(t, name, r),
         PassToKernel(t, r)
  PROVE  /\ ThreadTypes' /\ ThreadMoves(t) /\ ready' = ready
         /\ tr[t].stop = "user" => tr'[t].stop = "user"
<1>1. /\ r \in TraceeOf(CallsOfThreads) /\ sim = "running" /\ ready[t] > 0 /\ pid' = t
      /\ tr[t].stop = "user" => r.stop = "entry" /\ r.call \in Requests
  BY CaughtThread
<1>2. PICK w \in WaitForSyscall(r, Requests) : tr' = [tr EXCEPT ![t] = w]
  BY DEF PassToKernel
<1>3. /\ w \in TraceeOf(CallsOfThreads)
      /\ r.stop = "entry" /\ r.call \in Requests => w.stop = "user"
  <2>1. Requests \in SUBSET CallsOfThreads
    BY DEF CallsOfThreads
  <2>2. ExitCall \notin Requests
    BY DEF Requests, ExitCall
  <2> QED BY <1>1, <2>1, <2>2, WaitTracee
<1>4. ready' = ready /\ sim' = sim
  BY <1>1, EventsAfter DEF ThreadTypes, PassToKernel, ProcessStatusCode
<1>5. ThreadTypes'
  BY <1>1, <1>2, <1>3, <1>4 DEF ThreadTypes
<1> QED BY <1>1, <1>2, <1>3, <1>4, <1>5 DEF ThreadTypes, ThreadMoves

\* A handler without an answer leaves the thread at its call, without an event.
LEMMA LeaveEffect ==
  ASSUME ThreadTypes, NEW t \in Threads, NEW name,
         NEW r \in WaitForSyscall(tr[t], Requests), Caught(t, name, r),
         NEW res \in {"delayed", "error"}, Leave(t, r, res)
  PROVE  /\ ThreadTypes' /\ ThreadMoves(t)
         /\ sim' = "running" => res = "delayed"
         /\ ready'[t] = ready[t] - 1
         /\ tr[t].stop = "user" => tr'[t].stop = "entry" /\ tr'[t].call[1] = name
<1>1. /\ r \in TraceeOf(CallsOfThreads) /\ sim = "running" /\ ready[t] > 0 /\ pid' = t
      /\ tr[t].stop = "user" => r.stop = "entry" /\ r.call[1] = name
  BY CaughtThread
<1>2. tr' = [tr EXCEPT ![t] = r]
  BY DEF Leave
<1>3. ready' = [ready EXCEPT ![t] = ready[t] - 1]
  BY <1>1, EventsAfter DEF ThreadTypes, Leave
<1>4. sim' = IF res = "error" THEN "ended" ELSE "running"
  BY <1>1 DEF Leave, ProcessStatusCode
<1>5. ready[t] - 1 \in Nat
  BY <1>1 DEF ThreadTypes
<1>6. ThreadTypes'
  BY <1>1, <1>2, <1>3, <1>4, <1>5 DEF ThreadTypes
<1> QED BY <1>1, <1>2, <1>3, <1>4, <1>6 DEF ThreadTypes, ThreadMoves

\* The FAKE of a callback resumes thread t: u is the thread it answers.
LEMMA ResumeEffect ==
  ASSUME ThreadTypes, NEW t \in Threads, NEW u \in Threads, sim = "running",
         \E w \in Fake(tr[u], Requests) : tr' = [tr EXCEPT ![u] = w],
         ProcessStatusCode("success", t, ready), pid' = pid
  PROVE  /\ ThreadTypes' /\ sim' = sim
         /\ t = u => ThreadMoves(t)
         /\ ready'[t] = ready[t] + 1
         /\ tr[u].stop = "entry" => tr'[u].stop = "user"
<1>1. PICK w \in Fake(tr[u], Requests) : tr' = [tr EXCEPT ![u] = w]
  OBVIOUS
<1>2. w \in TraceeOf(CallsOfThreads) /\ (tr[u].stop # "user" => w.stop = "user")
  <2>1. /\ Requests \in SUBSET CallsOfThreads /\ GetPid \in CallsOfThreads
        /\ tr[u] \in TraceeOf(CallsOfThreads)
    BY DEF CallsOfThreads, ThreadTypes
  <2> QED BY <2>1, FakeTracee
<1>3. sim' = sim /\ ready' = [ready EXCEPT ![t] = ready[t] + 1]
  BY DEF ProcessStatusCode, Scheduled
<1>4. ready[t] + 1 \in Nat
  BY DEF ThreadTypes
<1>5. ThreadTypes'
  BY <1>1, <1>2, <1>3, <1>4 DEF ThreadTypes
<1> QED BY <1>1, <1>2, <1>3, <1>5 DEF ThreadTypes, ThreadMoves

-----------------------------------------------------------------------------
\* The calls that may wait for a callback or a timeout.
WaitNames == {"read", "recvfrom", "connect", "accept", "select"}

\* A thread waits in read or recvfrom of one socket.
OneReceiver ==
  \A s1, s2 \in Socks :
    /\ recvCb[s1].kind \in {"read", "recvfrom"} /\ recvCb[s2].kind \in {"read", "recvfrom"}
    /\ recvCb[s1].tid = recvCb[s2].tid
    => s1 = s2

\* A thread waits for the connection of one socket.
OneConnecting ==
  \A s1, s2 \in Socks :
    life[s1] = "syn" /\ life[s2] = "syn" /\ connectCb[s1].tid = connectCb[s2].tid => s1 = s2

\* A slot is left as it is or is given a callback that resumes nobody.
Kept(old, new) == \A s \in Socks : new[s] = old[s] \/ new[s].kind \in {"null", "default"}

\* What a step does to the callbacks that begins no wait.
NoNewWaits ==
  /\ Kept(recvCb, recvCb') /\ Kept(sendCb, sendCb') /\ Kept(acceptCb, acceptCb')
  /\ \A t \in Threads : timer'[t] => timer[t]
  /\ \A s \in Socks : life'[s] = "syn" => life[s] = "syn" /\ connectCb'[s] = connectCb[s]

\* The callbacks that answer this->pid instead of the thread they resume: that
\* of accept, and that of select for data, wrong with more than one thread.
Fake2Free ==
  \A s \in Socks :
    /\ acceptCb[s].kind # "accept"
    /\ recvCb[s].kind = "select_recv" => Threads = {Main}

\* The application enters no wait that no event of ns-3 ends.
Hopeful == Hopeless \cap Waits = {}

\* A callback left as it is, or in its place one that resumes nobody.
SameOrNone(new, old) == new = old \/ new.kind \in {"null", "default"}

\* What a step registers: callbacks of one call of thread t, on sockets that
\* will run them, and the timeout of a select.
Gains(t, name) ==
  /\ \A s \in Socks :
       /\ \/ SameOrNone(recvCb'[s], recvCb[s])
          \/ /\ recvCb'[s].tid = t /\ (Hopeful => life'[s] \in Delivering)
             /\ recvCb'[s].kind = IF name = "select" THEN "select_recv" ELSE name
       /\ \/ SameOrNone(acceptCb'[s], acceptCb[s])
          \/ /\ acceptCb'[s].tid = t /\ (Hopeful => life'[s] = "listen")
             /\ acceptCb'[s].kind = IF name = "select" THEN "select_listen" ELSE name
       /\ \/ SameOrNone(sendCb'[s], sendCb[s]) \/ sendCb'[s].kind = "write"
          \/ /\ name = "select" /\ s \in full'
             /\ sendCb'[s].tid = t /\ sendCb'[s].kind = "select_send"
       /\ life'[s] = "syn" => \/ life[s] = "syn" /\ connectCb'[s] = connectCb[s]
                              \/ name = "connect" /\ connectCb'[s].tid = t
  /\ \A u \in Threads : timer'[u] => timer[u] \/ (u = t /\ name = "select")

\* What a step may do to the waits, of which it begins one of thread t at most.
Waiting(t, name) ==
  /\ Gains(t, name)
  /\ OneReceiver /\ ~Registered(t, "read") /\ ~Registered(t, "recvfrom") => OneReceiver'
  /\ OneConnecting /\ ~Registered(t, "connect") => OneConnecting'

LEMMA NoGains ==
  ASSUME NoNewWaits, NEW t \in Threads
  PROVE  Gains(t, "write")
  BY DEF NoNewWaits, Kept, Gains, SameOrNone

LEMMA GainsRegistered ==
  ASSUME NEW t \in Threads, NEW name \in WaitNames \cup {"write"}, Gains(t, name),
         NEW u \in Threads, NEW n \in WaitNames, Registered(u, n)'
  PROVE  Registered(u, n) \/ (u = t /\ n = name)
<1>1. CASE n \in {"read", "recvfrom"}
  BY <1>1 DEF Gains, SameOrNone, Registered
<1>2. CASE n = "connect"
  BY <1>2 DEF Gains, Registered
<1>3. CASE n = "accept"
  BY <1>3 DEF Gains, SameOrNone, Registered
<1>4. CASE n = "select"
  BY <1>4 DEF Gains, SameOrNone, Registered, SelectKinds, WaitNames
<1> QED BY <1>1, <1>2, <1>3, <1>4 DEF WaitNames

LEMMA KeptWaits ==
  ASSUME NoNewWaits
  PROVE  /\ \A u \in Threads, n \in WaitNames : Registered(u, n)' => Registered(u, n)
         /\ OneReceiver => OneReceiver'
         /\ OneConnecting => OneConnecting'
         /\ Fake2Free => Fake2Free'
<1>1. ASSUME NEW u \in Threads, NEW n \in WaitNames, Registered(u, n)'
      PROVE  Registered(u, n)
  BY <1>1 DEF NoNewWaits, Kept, Registered, SelectKinds
<1>2. OneReceiver => OneReceiver'
  BY DEF NoNewWaits, Kept, OneReceiver
<1>3. OneConnecting => OneConnecting'
  BY DEF NoNewWaits, OneConnecting
<1>4. Fake2Free => Fake2Free'
  BY DEF NoNewWaits, Kept, Fake2Free
<1> QED BY <1>1, <1>2, <1>3, <1>4

\* The handler of thread t answers its call or ends the simulation.
Goes(t) ==
  /\ ThreadMoves(t) /\ sim = "running" /\ ready[t] > 0
  /\ sim' = "running" => ready' = ready
  /\ sim' = "running" /\ tr[t].stop = "user" => tr'[t].stop = "user"

\* The handler of thread t leaves it at the named call.
Stays(t, name) ==
  /\ ThreadMoves(t) /\ sim = "running" /\ ready[t] > 0 /\ ready'[t] = ready[t] - 1
  /\ tr[t].stop = "user" => tr'[t].stop = "entry" /\ tr'[t].call[1] = name

\* A handler that does not wait.
Ends(t, name, r) ==
  /\ Caught(t, name, r)
  /\ \/ \E res \in {"success", "failure", "error"} : Answer(t, r, res)
     \/ PassToKernel(t, r)
     \/ Leave(t, r, "error")

LEMMA EndsEffect ==
  ASSUME ThreadTypes, NEW t \in Threads, NEW name,
         NEW r \in WaitForSyscall(tr[t], Requests), Ends(t, name, r)
  PROVE  ThreadTypes' /\ Goes(t)
<1>1. sim = "running" /\ ready[t] > 0 /\ Caught(t, name, r)
  BY CaughtThread DEF Ends
<1>2. CASE \E res \in {"success", "failure", "error"} : Answer(t, r, res)
  BY <1>1, <1>2, AnswerEffect DEF Goes
<1>3. CASE PassToKernel(t, r)
  BY <1>1, <1>3, PassEffect DEF Goes
<1>4. CASE Leave(t, r, "error")
  BY <1>1, <1>4, LeaveEffect DEF Goes
<1> QED BY <1>2, <1>3, <1>4 DEF Ends

LEMMA StaysEffect ==
  ASSUME ThreadTypes, NEW t \in Threads, NEW name,
         NEW r \in WaitForSyscall(tr[t], Requests), Caught(t, name, r),
         Leave(t, r, "delayed")
  PROVE  ThreadTypes' /\ Stays(t, name)
<1>1. sim = "running" /\ ready[t] > 0
  BY CaughtThread
<1> QED BY <1>1, LeaveEffect DEF Stays

-----------------------------------------------------------------------------
\* The handlers that touch neither the callbacks nor the buffers.
LEMMA HandlersWithoutCallbacks ==
  ASSUME WaitTypes, NEW t \in Threads,
         \/ HandleSocketRefused(t) \/ HandleSocketNetlink(t) \/ HandleOpen(t)
         \/ HandleFcntl(t) \/ HandleAcceptPending(t)
         \/ HandleSelectNow(t) \/ HandleSelectExcept(t)
  PROVE  WaitTypes' /\ Goes(t) /\ NoNewWaits
<1>1. /\ \E r \in WaitForSyscall(tr[t], Requests), name \in CallNames : Ends(t, name, r)
      /\ UNCHANGED <<cbVars, life, rx, full>>
  <2>1. CASE HandleSocketRefused(t)
    BY <2>1 DEF HandleSocketRefused, Ends, CallNames
  <2>2. CASE HandleSocketNetlink(t) \/ HandleOpen(t)
    BY <2>2 DEF HandleSocketNetlink, HandleOpen, OutOfFDs, Ends, CallNames
  <2>3. CASE HandleFcntl(t)
    BY <2>3 DEF HandleFcntl, Ends, CallNames
  <2>4. CASE HandleAcceptPending(t)
    BY <2>4 DEF HandleAcceptPending, OutOfFDs, Ends, CallNames
  <2>5. CASE HandleSelectNow(t) \/ HandleSelectExcept(t)
    BY <2>5 DEF HandleSelectNow, HandleSelectExcept, Ends, CallNames
  <2> QED BY <2>1, <2>2, <2>3, <2>4, <2>5
<1>2. ThreadTypes' /\ Goes(t)
  BY <1>1, EndsEffect DEF WaitTypes
<1>3. SlotTypes' /\ NoNewWaits
  BY <1>1 DEF WaitTypes, SlotTypes, cbVars, NoNewWaits, Kept
<1> QED BY <1>2, <1>3 DEF WaitTypes

\* socket() and close() change what ns-3 knows of one socket.
LEMMA HandlersOfSockets ==
  ASSUME TableInv, WaitTypes, NEW t \in Threads, HandleSocketInet(t) \/ HandleClose(t)
  PROVE  WaitTypes' /\ Goes(t) /\ NoNewWaits
<1>1. /\ \E r \in WaitForSyscall(tr[t], Requests), name \in CallNames : Ends(t, name, r)
      /\ \/ UNCHANGED life
         \/ \E s \in Socks, l \in {"tcp", "udp", "closed"} : life' = [life EXCEPT ![s] = l]
      /\ rx' \in SUBSET rx /\ full' \in SUBSET full /\ UNCHANGED cbVars
  <2>1. CASE HandleSocketInet(t)
    BY <2>1 DEF HandleSocketInet, OutOfFDs, Ends, CallNames
  <2>2. CASE HandleClose(t)
    <3>1. \A fd \in FDs : m_sockets[fd] # NoSock => m_sockets[fd] \in Socks
      BY DEF TableInv, TableTypes
    <3> QED BY <2>2, <3>1 DEF HandleClose, Ends, CallNames
  <2> QED BY <2>1, <2>2
<1>2. ThreadTypes' /\ Goes(t)
  BY <1>1, EndsEffect DEF WaitTypes
<1>3. SlotTypes'
  BY <1>1 DEF WaitTypes, SlotTypes, cbVars
<1>4. NoNewWaits
  BY <1>1 DEF TableInv, TableTypes, cbVars, NoNewWaits, Kept
<1> QED BY <1>2, <1>3, <1>4 DEF WaitTypes

\* FAKE2 reaches the thread it is meant for: the accept of this process never
\* waits, and its select waits for data only if there is one thread.
Fake2Unused == "accept" \notin Waits /\ ("select_recv" \notin Waits \/ Threads = {Main})

\* What a handler may do: end without a wait, or begin one of its own thread.
Outcome(t) ==
  \/ Goes(t) /\ NoNewWaits
  \/ \E name \in WaitNames \cup {"write"} :
       /\ Stays(t, name) /\ Waiting(t, name)
       /\ IF name = "write" THEN "write" \in Waits ELSE Hopeful => Armed(t, name)'
       /\ Fake2Unused /\ Fake2Free => Fake2Free'

\* listen() registers the default callback of the listener.
LEMMA HandlerOfListen ==
  ASSUME TableInv, WaitTypes, NEW t \in Threads, HandleListen(t)
  PROVE  WaitTypes' /\ Outcome(t)
<1>1. PICK r \in WaitForSyscall(tr[t], Requests), fd \in FDs :
        /\ Ends(t, "listen", r)
        /\ \/ UNCHANGED <<life, acceptCb>>
           \/ /\ life' = [life EXCEPT ![m_sockets[fd]] = "listen"]
              /\ acceptCb' = [acceptCb EXCEPT ![m_sockets[fd]] = Callback("default", Main, fd)]
        /\ UNCHANGED <<recvCb, sendCb, connectCb, timer, rx, full>>
  BY DEF HandleListen, Ends
<1>2. ThreadTypes' /\ Goes(t)
  BY <1>1, EndsEffect DEF WaitTypes
<1>3. /\ Callback("default", Main, fd) \in CallbackTypes
      /\ Callback("default", Main, fd).kind = "default"
  BY ThreadsAssumption DEF Callback, CallbackTypes, Kinds
<1>4. SlotTypes'
  BY <1>1, <1>3 DEF WaitTypes, SlotTypes
<1>5. NoNewWaits
  BY <1>1, <1>3 DEF TableInv, TableTypes, WaitTypes, SlotTypes, NoNewWaits, Kept
<1> QED BY <1>2, <1>4, <1>5 DEF WaitTypes, Outcome

\* read() and recvfrom() of a socket with or without data.
LEMMA ReadOutcome ==
  ASSUME WaitTypes, NEW t \in Threads, NEW name \in {"read", "recvfrom"},
         NEW r \in WaitForSyscall(tr[t], Requests), Caught(t, name, r),
         NEW s \in Socks, NEW fd \in FDs, Read(t, r, s, fd, name),
         UNCHANGED <<sendCb, acceptCb, connectCb, timer, life, full>>
  PROVE  WaitTypes' /\ Outcome(t)
<1>1. CASE /\ rx' \in {rx, rx \ {s}} /\ recvCb' \in {recvCb, [recvCb EXCEPT ![s] = NoCb]}
           /\ \E res \in {"success", "failure"} : Answer(t, r, res)
  <2>1. ThreadTypes' /\ Goes(t)
    BY <1>1, EndsEffect DEF WaitTypes, Ends
  <2>2. NoCb \in CallbackTypes /\ NoCb.kind = "null"
    BY ThreadsAssumption DEF NoCb, CallbackTypes, Kinds
  <2>3. SlotTypes' /\ NoNewWaits
    BY <1>1, <2>2 DEF WaitTypes, SlotTypes, NoNewWaits, Kept
  <2> QED BY <2>1, <2>3 DEF WaitTypes, Outcome
<1>2. CASE rx' = rx /\ recvCb' = recvCb /\ Leave(t, r, "error")
  <2>1. ThreadTypes' /\ Goes(t)
    BY <1>2, EndsEffect DEF WaitTypes, Ends
  <2>2. SlotTypes' /\ NoNewWaits
    BY <1>2 DEF WaitTypes, SlotTypes, NoNewWaits, Kept
  <2> QED BY <2>1, <2>2 DEF WaitTypes, Outcome
<1>3. CASE /\ recvCb' = [recvCb EXCEPT ![s] = Callback(name, t, fd)]
           /\ life[s] \in Delivering \/ "no_peer" \in Waits
           /\ Leave(t, r, "delayed") /\ rx' = rx
  <2>1. ThreadTypes' /\ Stays(t, name)
    BY <1>3, StaysEffect DEF WaitTypes
  <2>2. /\ Callback(name, t, fd) \in CallbackTypes
        /\ Callback(name, t, fd).kind = name /\ Callback(name, t, fd).tid = t
    BY DEF Callback, CallbackTypes, Kinds, AllWaits
  <2>3. SlotTypes'
    BY <1>3, <2>2 DEF WaitTypes, SlotTypes
  <2>4. /\ recvCb'[s].kind = name /\ recvCb'[s].tid = t
        /\ \A x \in Socks \ {s} : recvCb'[x] = recvCb[x]
    BY <1>3, <2>2 DEF WaitTypes, SlotTypes
  <2>5. Gains(t, name)
    BY <1>3, <2>4 DEF Gains, SameOrNone, Hopeful, Hopeless
  <2>6. OneReceiver /\ ~Registered(t, "read") /\ ~Registered(t, "recvfrom") => OneReceiver'
    BY <2>4 DEF OneReceiver, Registered
  <2>7. OneConnecting => OneConnecting'
    BY DEF OneConnecting
  <2>8. Waiting(t, name)
    BY <2>5, <2>6, <2>7 DEF Waiting
  <2>9. (Hopeful => Armed(t, name)') /\ (Fake2Free => Fake2Free')
    BY <1>3, <2>4 DEF Armed, Hopeful, Hopeless, Fake2Free
  <2> QED BY <2>1, <2>3, <2>8, <2>9 DEF WaitTypes, Outcome, WaitNames
<1> QED BY <1>1, <1>2, <1>3 DEF Read

LEMMA HandlersOfRead ==
  ASSUME TableInv, WaitTypes, NEW t \in Threads, HandleRead(t) \/ HandleRecvFrom(t)
  PROVE  WaitTypes' /\ Outcome(t)
<1>1. PICK name \in {"read", "recvfrom"} :
        \E r \in WaitForSyscall(tr[t], Requests), fd \in FDs :
          /\ Caught(t, name, r)
          /\ \/ Ends(t, name, r) /\ UNCHANGED <<rx, recvCb>>
             \/ m_sockets[fd] \in Socks /\ Read(t, r, m_sockets[fd], fd, name)
          /\ UNCHANGED <<sendCb, acceptCb, connectCb, timer, life, full>>
  <2>1. /\ \A fd \in FDs : m_sockets[fd] # NoSock => m_sockets[fd] \in Socks
        /\ \A fd \in m_tcp : m_sockets[fd] \in Socks
    BY DEF TableInv, TableTypes, FdSetsCurrent
  <2>2. CASE HandleRead(t)
    BY <2>1, <2>2 DEF HandleRead, Ends
  <2>3. CASE HandleRecvFrom(t)
    BY <2>1, <2>3 DEF HandleRecvFrom, Ends
  <2> QED BY <2>2, <2>3
<1>2. PICK r \in WaitForSyscall(tr[t], Requests), fd \in FDs :
          /\ Caught(t, name, r)
          /\ \/ Ends(t, name, r) /\ UNCHANGED <<rx, recvCb>>
             \/ m_sockets[fd] \in Socks /\ Read(t, r, m_sockets[fd], fd, name)
          /\ UNCHANGED <<sendCb, acceptCb, connectCb, timer, life, full>>
  BY <1>1
<1>3. CASE Ends(t, name, r) /\ UNCHANGED <<rx, recvCb>>
  <2>1. ThreadTypes' /\ Goes(t)
    BY <1>3, EndsEffect DEF WaitTypes
  <2>2. SlotTypes' /\ NoNewWaits
    BY <1>2, <1>3 DEF WaitTypes, SlotTypes, NoNewWaits, Kept
  <2> QED BY <2>1, <2>2 DEF WaitTypes, Outcome
<1>4. CASE m_sockets[fd] \in Socks /\ Read(t, r, m_sockets[fd], fd, name)
  BY <1>2, <1>4, ReadOutcome
<1> QED BY <1>2, <1>3, <1>4

\* write(): the callback of a blocking one resumes nobody.
LEMMA HandlerOfWrite ==
  ASSUME TableInv, WaitTypes, NEW t \in Threads, HandleWrite(t)
  PROVE  WaitTypes' /\ Outcome(t)
<1>1. PICK r \in WaitForSyscall(tr[t], Requests), fd \in FDs :
        /\ Caught(t, "write", r)
        /\ \/ /\ Ends(t, "write", r) /\ sendCb' = sendCb
              /\ \/ full' = full
                 \/ fd \in m_connected /\ full' = full \cup {m_sockets[fd]}
           \/ /\ "write" \in Waits /\ full' = full
              /\ sendCb' = [sendCb EXCEPT ![m_sockets[fd]] = Callback("write", t, fd)]
              /\ Leave(t, r, "delayed")
        /\ UNCHANGED <<recvCb, acceptCb, connectCb, timer, life, rx>>
  BY DEF HandleWrite, Ends
<1>2. fd \in m_connected => m_sockets[fd] \in Socks
  BY DEF TableInv, TableTypes, FdSetsCurrent
<1>3. CASE /\ Ends(t, "write", r) /\ sendCb' = sendCb
           /\ \/ full' = full
              \/ fd \in m_connected /\ full' = full \cup {m_sockets[fd]}
  <2>1. ThreadTypes' /\ Goes(t)
    BY <1>3, EndsEffect DEF WaitTypes
  <2>2. SlotTypes' /\ NoNewWaits
    BY <1>1, <1>2, <1>3 DEF WaitTypes, SlotTypes, NoNewWaits, Kept
  <2> QED BY <2>1, <2>2 DEF WaitTypes, Outcome
<1>4. CASE /\ "write" \in Waits /\ full' = full
           /\ sendCb' = [sendCb EXCEPT ![m_sockets[fd]] = Callback("write", t, fd)]
           /\ Leave(t, r, "delayed")
  <2>1. ThreadTypes' /\ Stays(t, "write")
    BY <1>1, <1>4, StaysEffect DEF WaitTypes
  <2>2. Callback("write", t, fd) \in CallbackTypes /\ Callback("write", t, fd).kind = "write"
    BY DEF Callback, CallbackTypes, Kinds, AllWaits
  <2>3. SlotTypes' /\ \A s \in Socks : sendCb'[s] = sendCb[s] \/ sendCb'[s].kind = "write"
    BY <1>1, <1>4, <2>2 DEF WaitTypes, SlotTypes
  <2>4. Gains(t, "write")
    BY <1>1, <2>3 DEF Gains, SameOrNone
  <2>5. /\ OneReceiver => OneReceiver'
        /\ OneConnecting => OneConnecting'
        /\ Fake2Free => Fake2Free'
    BY <1>1 DEF OneReceiver, OneConnecting, Fake2Free
  <2> QED BY <1>4, <2>1, <2>3, <2>4, <2>5 DEF WaitTypes, Outcome, Waiting
<1> QED BY <1>1, <1>3, <1>4

\* connect(): the wait for a TCP connection replaces one of another thread.
LEMMA HandlerOfConnect ==
  ASSUME TableInv, WaitTypes, NEW t \in Threads, HandleConnect(t)
  PROVE  WaitTypes' /\ Outcome(t)
<1>1. PICK r \in WaitForSyscall(tr[t], Requests), fd \in FDs :
        /\ Caught(t, "connect", r)
        /\ \/ /\ Ends(t, "connect", r) /\ life' = life
              /\ \/ connectCb' = connectCb
                 \/ /\ life[m_sockets[fd]] = "udp"
                    /\ connectCb' = [connectCb EXCEPT ![m_sockets[fd]] = Callback("connect", t, fd)]
           \/ /\ m_sockets[fd] # NoSock
              /\ life' = [life EXCEPT ![m_sockets[fd]] = "syn"]
              /\ connectCb' = [connectCb EXCEPT ![m_sockets[fd]] = Callback("connect", t, fd)]
              /\ Leave(t, r, "delayed")
           \/ /\ life[m_sockets[fd]] # "syn" /\ life' = life /\ ~Hopeful
              /\ connectCb' = [connectCb EXCEPT ![m_sockets[fd]] = Callback("connect", t, fd)]
              /\ Leave(t, r, "delayed")
        /\ UNCHANGED <<recvCb, sendCb, acceptCb, timer, rx, full>>
  BY DEF HandleConnect, Ends, Hopeful, Hopeless
<1>2. SlotTypes'
  BY <1>1 DEF WaitTypes, SlotTypes
<1>3. TableTypes
  BY DEF TableInv
<1>4. CASE /\ Ends(t, "connect", r) /\ life' = life
           /\ \/ connectCb' = connectCb
              \/ /\ life[m_sockets[fd]] = "udp"
                 /\ connectCb' = [connectCb EXCEPT ![m_sockets[fd]] = Callback("connect", t, fd)]
  <2>1. ThreadTypes' /\ Goes(t)
    BY <1>4, EndsEffect DEF WaitTypes
  <2>2. NoNewWaits
    BY <1>1, <1>3, <1>4 DEF TableTypes, NoNewWaits, Kept
  <2> QED BY <1>2, <2>1, <2>2 DEF WaitTypes, Outcome
<1>5. CASE /\ m_sockets[fd] # NoSock
           /\ life' = [life EXCEPT ![m_sockets[fd]] = "syn"]
           /\ connectCb' = [connectCb EXCEPT ![m_sockets[fd]] = Callback("connect", t, fd)]
           /\ Leave(t, r, "delayed")
  <2> DEFINE s == m_sockets[fd]
  <2>1. ThreadTypes' /\ Stays(t, "connect")
    BY <1>1, <1>5, StaysEffect DEF WaitTypes
  <2>2. /\ s \in Socks /\ life'[s] = "syn" /\ connectCb'[s].tid = t
        /\ \A x \in Socks \ {s} : life'[x] = life[x] /\ connectCb'[x] = connectCb[x]
    BY <1>3, <1>5 DEF TableTypes, Callback
  <2> HIDE DEF s
  <2>3. Gains(t, "connect")
    BY <1>1, <2>2 DEF Gains, SameOrNone
  <2>4. OneConnecting /\ ~Registered(t, "connect") => OneConnecting'
    BY <2>2 DEF OneConnecting, Registered
  <2>5. (OneReceiver => OneReceiver') /\ (Fake2Free => Fake2Free')
    BY <1>1 DEF OneReceiver, Fake2Free
  <2>6. Armed(t, "connect")'
    BY <2>2 DEF Armed
  <2> QED BY <1>2, <2>1, <2>3, <2>4, <2>5, <2>6 DEF WaitTypes, Outcome, Waiting, WaitNames
<1>6. CASE /\ life[m_sockets[fd]] # "syn" /\ life' = life /\ ~Hopeful
           /\ connectCb' = [connectCb EXCEPT ![m_sockets[fd]] = Callback("connect", t, fd)]
           /\ Leave(t, r, "delayed")
  <2>1. ThreadTypes' /\ Stays(t, "connect")
    BY <1>1, <1>6, StaysEffect DEF WaitTypes
  <2>2. \A x \in Socks : life[x] = "syn" => connectCb'[x] = connectCb[x]
    BY <1>3, <1>6 DEF TableTypes
  <2>3. Gains(t, "connect")
    BY <1>1, <1>6, <2>2 DEF Gains, SameOrNone
  <2>4. OneConnecting => OneConnecting'
    BY <1>6, <2>2 DEF OneConnecting
  <2>5. (OneReceiver => OneReceiver') /\ (Fake2Free => Fake2Free')
    BY <1>1 DEF OneReceiver, Fake2Free
  <2> QED BY <1>2, <1>6, <2>1, <2>3, <2>4, <2>5
          DEF WaitTypes, Outcome, Waiting, WaitNames
<1> QED BY <1>1, <1>4, <1>5, <1>6

\* accept() without a pending connection.
LEMMA HandlerOfAcceptNone ==
  ASSUME TableInv, WaitTypes, NEW t \in Threads, HandleAcceptNone(t)
  PROVE  WaitTypes' /\ Outcome(t)
<1>1. PICK r \in WaitForSyscall(tr[t], Requests), fd \in FDs :
        /\ Caught(t, "accept", r)
        /\ \/ Ends(t, "accept", r) /\ acceptCb' = acceptCb
           \/ /\ fd \in m_listen /\ "accept" \in Waits
              /\ Hopeful => life[m_sockets[fd]] = "listen"
              /\ acceptCb' = [acceptCb EXCEPT ![m_sockets[fd]] = Callback("accept", t, fd)]
              /\ Leave(t, r, "delayed")
        /\ UNCHANGED <<recvCb, sendCb, connectCb, timer, life, rx, full>>
  BY DEF HandleAcceptNone, Ends, Served, Hopeful, Hopeless
<1>2. CASE Ends(t, "accept", r) /\ acceptCb' = acceptCb
  <2>1. ThreadTypes' /\ Goes(t)
    BY <1>2, EndsEffect DEF WaitTypes
  <2>2. SlotTypes' /\ NoNewWaits
    BY <1>1, <1>2 DEF WaitTypes, SlotTypes, NoNewWaits, Kept
  <2> QED BY <2>1, <2>2 DEF WaitTypes, Outcome
<1>3. CASE /\ fd \in m_listen /\ "accept" \in Waits
           /\ Hopeful => life[m_sockets[fd]] = "listen"
           /\ acceptCb' = [acceptCb EXCEPT ![m_sockets[fd]] = Callback("accept", t, fd)]
           /\ Leave(t, r, "delayed")
  <2> DEFINE s == m_sockets[fd]
  <2>1. ThreadTypes' /\ Stays(t, "accept")
    BY <1>1, <1>3, StaysEffect DEF WaitTypes
  <2>2. s \in Socks
    BY <1>3 DEF TableInv, TableTypes, FdSetsCurrent
  <2>3. /\ Callback("accept", t, fd) \in CallbackTypes
        /\ Callback("accept", t, fd).kind = "accept" /\ Callback("accept", t, fd).tid = t
    BY DEF Callback, CallbackTypes, Kinds, AllWaits
  <2>4. /\ SlotTypes' /\ acceptCb'[s].kind = "accept" /\ acceptCb'[s].tid = t
        /\ \A x \in Socks \ {s} : acceptCb'[x] = acceptCb[x]
    BY <1>1, <1>3, <2>2, <2>3 DEF WaitTypes, SlotTypes
  <2>5. Hopeful => life'[s] = "listen"
    BY <1>1, <1>3
  <2> HIDE DEF s
  <2>6. (OneReceiver => OneReceiver') /\ (OneConnecting => OneConnecting')
    BY <1>1 DEF OneReceiver, OneConnecting
  <2>7. (Hopeful => Armed(t, "accept")') /\ ~Fake2Unused
    BY <1>3, <2>2, <2>4, <2>5 DEF Armed, Fake2Unused
  <2>8. Gains(t, "accept")
    BY <1>1, <2>4, <2>5 DEF Gains, SameOrNone
  <2> QED BY <2>1, <2>4, <2>6, <2>7, <2>8 DEF WaitTypes, Outcome, Waiting, WaitNames
<1> QED BY <1>1, <1>2, <1>3

\* The slots after the callbacks of a select were registered.
LEMMA RegisteredSlots ==
  ASSUME NEW slots, slots \in [Socks -> CallbackTypes], NEW kind \in SelectKinds,
         NEW t \in Threads, NEW fds \in SUBSET FDs
  PROVE  /\ Register(slots, kind, t, fds) \in [Socks -> CallbackTypes]
         /\ \A s \in Socks :
              \/ /\ Register(slots, kind, t, fds)[s] = slots[s]
                 /\ \A fd \in fds : m_sockets[fd] # s
              \/ /\ Register(slots, kind, t, fds)[s].kind = kind
                 /\ Register(slots, kind, t, fds)[s].tid = t
                 /\ \E fd \in fds : m_sockets[fd] = s
<1>1. ASSUME NEW s \in Socks, \E fd \in fds : m_sockets[fd] = s
      PROVE  /\ Register(slots, kind, t, fds)[s] \in CallbackTypes
             /\ Register(slots, kind, t, fds)[s].kind = kind
             /\ Register(slots, kind, t, fds)[s].tid = t
  <2> DEFINE fd == CHOOSE fd \in fds : m_sockets[fd] = s
  <2>1. fd \in fds
    BY <1>1
  <2>2. Register(slots, kind, t, fds)[s] = Callback(kind, t, fd)
    BY <1>1 DEF Register
  <2> HIDE DEF fd
  <2> QED BY <2>1, <2>2 DEF Callback, CallbackTypes, Kinds, AllWaits, SelectKinds
<1>2. ASSUME NEW s \in Socks, ~\E fd \in fds : m_sockets[fd] = s
      PROVE  Register(slots, kind, t, fds)[s] = slots[s]
  BY <1>2 DEF Register
<1>3. Register(slots, kind, t, fds) \in [Socks -> CallbackTypes]
  <2>1. Register(slots, kind, t, fds) = [s \in Socks |-> Register(slots, kind, t, fds)[s]]
    BY DEF Register
  <2>2. \A s \in Socks : Register(slots, kind, t, fds)[s] \in CallbackTypes
    BY <1>1, <1>2
  <2> QED BY <2>1, <2>2
<1> QED BY <1>1, <1>2, <1>3

\* select() with nothing ready.
LEMMA HandlerOfSelectWait ==
  ASSUME TableInv, WaitTypes, NEW t \in Threads, HandleSelectWait(t)
  PROVE  WaitTypes' /\ Outcome(t)
<1>1. PICK r \in WaitForSyscall(tr[t], Requests), R \in SUBSET (FDs \ m_netlinks),
            W \in SUBSET (FDs \ m_netlinks), timeout \in BOOLEAN :
        /\ Caught(t, "select", r)
        /\ Sockets(R \cup W) # {}
        /\ \A fd \in Sockets(W) : m_sockets[fd] \in full
        /\ Hopeful => \A fd \in Sockets(R) : Served(fd)
        /\ Sockets(R) \ m_listen # {} => "select_recv" \in Waits
        /\ sendCb' = Register(sendCb, "select_send", t, Sockets(W))
        /\ acceptCb' = Register(acceptCb, "select_listen", t, Sockets(R) \cap m_listen)
        /\ recvCb' = Register(recvCb, "select_recv", t, Sockets(R) \ m_listen)
        /\ timer' = [timer EXCEPT ![t] = timeout]
        /\ Leave(t, r, "delayed")
        /\ UNCHANGED <<connectCb, life, rx, full>>
  BY DEF HandleSelectWait, WriteReady, Hopeful, Hopeless
<1>2. ThreadTypes' /\ Stays(t, "select")
  BY <1>1, StaysEffect DEF WaitTypes
<1>3. /\ Sockets(W) \in SUBSET FDs /\ Sockets(R) \cap m_listen \in SUBSET FDs
      /\ Sockets(R) \ m_listen \in SUBSET FDs
  BY <1>1 DEF Sockets
<1>4. /\ sendCb' \in [Socks -> CallbackTypes]
      /\ \A s \in Socks :
           \/ sendCb'[s] = sendCb[s] /\ \A fd \in Sockets(W) : m_sockets[fd] # s
           \/ sendCb'[s].kind = "select_send" /\ sendCb'[s].tid = t /\ s \in full
  BY <1>1, <1>3, RegisteredSlots DEF WaitTypes, SlotTypes, SelectKinds
<1>5. /\ acceptCb' \in [Socks -> CallbackTypes]
      /\ \A s \in Socks :
           \/ acceptCb'[s] = acceptCb[s] /\ \A fd \in Sockets(R) \cap m_listen : m_sockets[fd] # s
           \/ /\ acceptCb'[s].kind = "select_listen" /\ acceptCb'[s].tid = t
              /\ Hopeful => life[s] = "listen"
  BY <1>1, <1>3, RegisteredSlots DEF WaitTypes, SlotTypes, SelectKinds, Served
<1>6. /\ recvCb' \in [Socks -> CallbackTypes]
      /\ \A s \in Socks :
           \/ recvCb'[s] = recvCb[s] /\ \A fd \in Sockets(R) \ m_listen : m_sockets[fd] # s
           \/ /\ recvCb'[s].kind = "select_recv" /\ recvCb'[s].tid = t
              /\ Sockets(R) \ m_listen # {}
              /\ Hopeful => life[s] \in Delivering
  BY <1>1, <1>3, RegisteredSlots DEF WaitTypes, SlotTypes, SelectKinds, Served
<1>7. SlotTypes'
  BY <1>1, <1>4, <1>5, <1>6 DEF WaitTypes, SlotTypes
<1>8. \A u \in Threads \ {t} : timer'[u] = timer[u]
  BY <1>1 DEF WaitTypes, SlotTypes
<1>9. Gains(t, "select")
  BY <1>1, <1>4, <1>5, <1>6, <1>8 DEF Gains, SameOrNone
<1>10. OneReceiver => OneReceiver'
  BY <1>6 DEF OneReceiver
<1>11. OneConnecting => OneConnecting'
  BY <1>1 DEF OneConnecting
<1>12. Fake2Unused /\ Fake2Free => Fake2Free'
  BY <1>1, <1>5, <1>6 DEF Fake2Unused, Fake2Free
<1>13. Hopeful => Armed(t, "select")'
  <2>1. PICK fd \in Sockets(R \cup W) : m_sockets[fd] \in Socks
    BY <1>1 DEF TableInv, TableTypes, Sockets
  <2>2. \/ fd \in Sockets(W) \/ fd \in Sockets(R) \cap m_listen
        \/ fd \in Sockets(R) \ m_listen
    BY <2>1 DEF Sockets
  <2> QED BY <1>1, <1>4, <1>5, <1>6, <2>1, <2>2 DEF Armed
<1> QED BY <1>2, <1>7, <1>9, <1>10, <1>11, <1>12, <1>13
        DEF WaitTypes, Outcome, Waiting, WaitNames

-----------------------------------------------------------------------------
\* The invariants of the steps, and what makes them inductive: they hold for
\* every call that can wait, and a thread waits for one answer.
StrayFree ==
  \A t \in Threads, n \in WaitNames :
    Registered(t, n) => tr[t].stop = "entry" /\ tr[t].call[1] = n

StepInv == InStep /\ StrayFree /\ OneReceiver /\ OneConnecting /\ Fake2Free

\* What is armed is registered.
LEMMA ArmedRegistered ==
  /\ \A t, n : Armed(t, n) => Registered(t, n) /\ n \in WaitNames
  /\ \A t, n : Armed(t, n)' => Registered(t, n)' /\ n \in WaitNames
<1>1. \A t, n : Armed(t, n) => Registered(t, n) /\ n \in WaitNames
  BY DEF Armed, Registered, SelectKinds, WaitNames
<1>2. \A t, n : Armed(t, n)' => Registered(t, n)' /\ n \in WaitNames
  BY DEF Armed, Registered, SelectKinds, WaitNames
<1> QED BY <1>1, <1>2

\* A step that closes no socket and begins or ends no connection attempt.
NothingCloses ==
  \A s \in Socks :
    /\ life[s] \in Delivering \cup {"listen"} => life'[s] = life[s]
    /\ life'[s] = "syn" <=> life[s] = "syn"

\* What can end the waits of threads other than t is left to them.
OthersKept(t) == \A u \in Threads \ {t}, n \in WaitNames : Armed(u, n) => Armed(u, n)'

\* The callback or timeout that ends the wait of thread t in the call n.
Wakes(t, n) ==
  /\ sim = "running" /\ sim' = sim /\ ThreadMoves(t)
  /\ Armed(t, n) /\ NoNewWaits /\ OthersKept(t)
  /\ OneReceiver /\ OneConnecting => ~Registered(t, n)'
  /\ ready'[t] = ready[t] + 1
  /\ tr[t].stop = "entry" => tr'[t].stop = "user"

\* An event of ns-3 that resumes nobody.
Quiet ==
  /\ sim = "running" /\ UNCHANGED <<tr, ready, cbVars>> /\ NothingCloses
  /\ \A s \in full \ full' : sendCb[s].kind # "select_send"

\* A callback that stops the simulator.
Aborts == sim = "running" /\ sim' # "running" /\ UNCHANGED <<tr, cbVars, life>>

\* What an event may do, with the FAKE2 callbacks out of the picture.
EventOutcome ==
  Fake2Free => Quiet \/ Aborts \/ \E t \in Threads, n \in WaitNames : Wakes(t, n)

LEMMA HandledSlots ==
  ASSUME NEW slots, slots \in [Socks -> CallbackTypes], NEW t \in Threads
  PROVE  /\ Handled(slots, t) \in [Socks -> CallbackTypes]
         /\ Kept(slots, Handled(slots, t))
         /\ \A s \in Socks : ~(/\ Handled(slots, t)[s].kind \in SelectKinds
                               /\ Handled(slots, t)[s].tid = t)
         /\ \A s \in Socks : \/ Handled(slots, t)[s] = slots[s]
                             \/ slots[s].kind \in SelectKinds /\ slots[s].tid = t
<1>1. NoCb \in CallbackTypes /\ NoCb.kind = "null"
  BY ThreadsAssumption DEF NoCb, CallbackTypes, Kinds
<1>2. Handled(slots, t) \in [Socks -> CallbackTypes]
  BY <1>1 DEF Handled
<1> QED BY <1>1, <1>2 DEF Handled, Kept, SelectKinds

\* already_handled and the cancelled timeout leave nothing of the select.
LEMMA SelectOver ==
  ASSUME SlotTypes, NEW t \in Threads, SelectHandled(t), NothingCloses,
         \A s \in full \ full' : sendCb[s].kind # "select_send" \/ sendCb[s].tid = t
  PROVE  /\ recvCb' \in [Socks -> CallbackTypes] /\ sendCb' \in [Socks -> CallbackTypes]
         /\ acceptCb' \in [Socks -> CallbackTypes] /\ timer' \in [Threads -> BOOLEAN]
         /\ NoNewWaits /\ ~Registered(t, "select")' /\ OthersKept(t)
<1>1. /\ recvCb' = Handled(recvCb, t) /\ sendCb' = Handled(sendCb, t)
      /\ acceptCb' = Handled(acceptCb, t) /\ timer' = [timer EXCEPT ![t] = FALSE]
      /\ connectCb' = connectCb
  BY DEF SelectHandled
<1>2. /\ recvCb' \in [Socks -> CallbackTypes] /\ Kept(recvCb, recvCb')
      /\ \A s \in Socks : ~(recvCb'[s].kind \in SelectKinds /\ recvCb'[s].tid = t)
      /\ \A s \in Socks : \/ recvCb'[s] = recvCb[s]
                          \/ recvCb[s].kind \in SelectKinds /\ recvCb[s].tid = t
  BY <1>1, HandledSlots DEF SlotTypes
<1>3. /\ sendCb' \in [Socks -> CallbackTypes] /\ Kept(sendCb, sendCb')
      /\ \A s \in Socks : ~(sendCb'[s].kind \in SelectKinds /\ sendCb'[s].tid = t)
      /\ \A s \in Socks : \/ sendCb'[s] = sendCb[s]
                          \/ sendCb[s].kind \in SelectKinds /\ sendCb[s].tid = t
  BY <1>1, HandledSlots DEF SlotTypes
<1>4. /\ acceptCb' \in [Socks -> CallbackTypes] /\ Kept(acceptCb, acceptCb')
      /\ \A s \in Socks : ~(acceptCb'[s].kind \in SelectKinds /\ acceptCb'[s].tid = t)
      /\ \A s \in Socks : \/ acceptCb'[s] = acceptCb[s]
                          \/ acceptCb[s].kind \in SelectKinds /\ acceptCb[s].tid = t
  BY <1>1, HandledSlots DEF SlotTypes
<1>5. /\ timer' \in [Threads -> BOOLEAN] /\ timer'[t] = FALSE
      /\ \A u \in Threads : timer'[u] => timer[u]
      /\ \A u \in Threads \ {t} : timer[u] => timer'[u]
  BY <1>1 DEF SlotTypes
<1>6. ~Registered(t, "select")'
  BY <1>2, <1>3, <1>4, <1>5 DEF Registered
<1>7. ASSUME NEW u \in Threads \ {t}, NEW n \in WaitNames, Armed(u, n)
      PROVE  Armed(u, n)'
  <2>1. CASE n \in {"read", "recvfrom"}
    BY <1>2, <1>7, <2>1 DEF Armed, SelectKinds, NothingCloses
  <2>2. CASE n = "connect"
    BY <1>1, <1>7, <2>2 DEF Armed, NothingCloses
  <2>3. CASE n = "accept"
    BY <1>4, <1>7, <2>3 DEF Armed, SelectKinds, NothingCloses
  <2>4. CASE n = "select"
    BY <1>2, <1>3, <1>4, <1>5, <1>7, <2>4 DEF Armed, NothingCloses, SlotTypes
  <2> QED BY <2>1, <2>2, <2>3, <2>4 DEF WaitNames
<1> QED BY <1>1, <1>2, <1>3, <1>4, <1>5, <1>6, <1>7
        DEF NoNewWaits, OthersKept, NothingCloses

\* The timeout of a select.
LEMMA EventOfTimeout ==
  ASSUME WaitTypes, NEW t \in Threads, SelectTimeout(t)
  PROVE  WaitTypes' /\ EventOutcome
<1>1. /\ sim = "running" /\ timer[t] /\ SelectHandled(t) /\ Resume(t)
      /\ UNCHANGED <<life, rx, full>>
  BY DEF SelectTimeout, Running
<1>2. /\ ThreadTypes' /\ sim' = sim /\ ThreadMoves(t) /\ ready'[t] = ready[t] + 1
      /\ tr[t].stop = "entry" => tr'[t].stop = "user"
  BY <1>1, ResumeEffect DEF WaitTypes, Resume
<1>3. SlotTypes' /\ NoNewWaits /\ ~Registered(t, "select")' /\ OthersKept(t)
  BY <1>1, SelectOver DEF WaitTypes, SlotTypes, NothingCloses
<1>4. Armed(t, "select")
  BY <1>1 DEF Armed
<1> QED BY <1>1, <1>2, <1>3, <1>4 DEF WaitTypes, EventOutcome, Wakes, WaitNames

\* ns-3 has data for a socket.
LEMMA EventOfReceive ==
  ASSUME WaitTypes, NEW s \in Socks, Receive(s)
  PROVE  WaitTypes' /\ EventOutcome
<1> DEFINE cb == recvCb[s]
<1>1. /\ sim = "running" /\ life[s] \in Delivering /\ UNCHANGED <<life, full>>
      /\ \/ /\ rx' = rx \cup {s} /\ UNCHANGED <<tr, ready, pid, sim, cbVars>>
         \/ /\ cb.kind \in {"read", "recvfrom"}
            /\ rx' \in {rx \cup {s}, rx \ {s}}
            /\ recvCb' = [recvCb EXCEPT ![s] = NoCb] /\ Resume(cb.tid)
            /\ UNCHANGED <<sendCb, acceptCb, connectCb, timer>>
         \/ ProcessStatusCode("error", cb.tid, ready) /\ UNCHANGED <<rx, tr, pid, cbVars>>
         \/ /\ cb.kind = "select_recv" /\ rx' = rx \cup {s}
            /\ SelectHandled(cb.tid) /\ ResumeThisPid(cb.tid)
  BY DEF Receive, Running
<1>2. ThreadTypes /\ SlotTypes /\ cb \in CallbackTypes /\ cb.tid \in Threads
  BY DEF WaitTypes, SlotTypes, CallbackTypes
<1>3. CASE rx' = rx \cup {s} /\ UNCHANGED <<tr, ready, pid, sim, cbVars>>
  BY <1>1, <1>2, <1>3 DEF WaitTypes, ThreadTypes, SlotTypes, cbVars, EventOutcome, Quiet,
     NothingCloses
<1>4. CASE /\ cb.kind \in {"read", "recvfrom"}
           /\ rx' \in {rx \cup {s}, rx \ {s}}
           /\ recvCb' = [recvCb EXCEPT ![s] = NoCb] /\ Resume(cb.tid)
           /\ UNCHANGED <<sendCb, acceptCb, connectCb, timer>>
  <2>1. PICK t \in Threads : t = cb.tid
    BY <1>2
  <2>2. PICK n \in {"read", "recvfrom"} : n = cb.kind
    BY <1>4
  <2>3. /\ ThreadTypes' /\ sim' = sim /\ ThreadMoves(t) /\ ready'[t] = ready[t] + 1
        /\ tr[t].stop = "entry" => tr'[t].stop = "user"
    BY <1>1, <1>2, <1>4, <2>1, ResumeEffect DEF Resume
  <2>4. /\ recvCb' \in [Socks -> CallbackTypes]
        /\ recvCb'[s].kind = "null" /\ \A x \in Socks \ {s} : recvCb'[x] = recvCb[x]
    BY <1>2, <1>4, ThreadsAssumption DEF SlotTypes, NoCb, CallbackTypes, Kinds
  <2>5. SlotTypes'
    BY <1>1, <1>2, <1>4, <2>4 DEF SlotTypes
  <2>6. NoNewWaits
    BY <1>1, <1>4, <2>4 DEF NoNewWaits, Kept
  <2>7. Armed(t, n) /\ (OneReceiver => ~Registered(t, n)')
    BY <1>1, <2>1, <2>2, <2>4 DEF Armed, Registered, OneReceiver
  <2>8. OthersKept(t)
    BY <1>1, <1>4, <2>1, <2>4 DEF OthersKept, Armed
  <2> QED BY <1>1, <2>3, <2>5, <2>6, <2>7, <2>8 DEF WaitTypes, EventOutcome, Wakes, WaitNames
<1>5. CASE /\ cb.kind = "select_recv" /\ rx' = rx \cup {s}
           /\ SelectHandled(cb.tid) /\ ResumeThisPid(cb.tid)
  <2>1. PICK t \in Threads : t = cb.tid
    BY <1>2
  <2>2. /\ ThreadTypes' /\ sim' = sim /\ ready'[t] = ready[t] + 1
        /\ t = pid => ThreadMoves(t)
        /\ tr[pid].stop = "entry" => tr'[pid].stop = "user"
    BY <1>1, <1>2, <1>5, <2>1, ResumeEffect DEF ResumeThisPid, ThreadTypes
  <2>3. SlotTypes' /\ NoNewWaits /\ ~Registered(t, "select")' /\ OthersKept(t)
    BY <1>1, <1>2, <1>5, <2>1, SelectOver DEF SlotTypes, NothingCloses
  <2>4. Armed(t, "select")
    BY <1>1, <1>5, <2>1 DEF Armed
  <2>5. Fake2Free => t = pid
    BY <1>2, <1>5 DEF Fake2Free, ThreadTypes
  <2> QED BY <1>1, <2>2, <2>3, <2>4, <2>5 DEF WaitTypes, EventOutcome, Wakes, WaitNames
<1>6. CASE ProcessStatusCode("error", cb.tid, ready) /\ UNCHANGED <<rx, tr, pid, cbVars>>
  BY <1>1, <1>2, <1>6 DEF WaitTypes, ThreadTypes, SlotTypes, cbVars, EventOutcome, Aborts,
                          ProcessStatusCode
<1> QED BY <1>1, <1>3, <1>4, <1>5, <1>6

\* ns-3 has space in the send buffer of a socket.
LEMMA EventOfDrain ==
  ASSUME WaitTypes, NEW s \in Socks, Drain(s)
  PROVE  WaitTypes' /\ EventOutcome
<1> DEFINE cb == sendCb[s]
<1>1. /\ sim = "running" /\ s \in full /\ full' = full \ {s} /\ UNCHANGED <<life, rx>>
      /\ \/ cb.kind \in {"null", "write"} /\ UNCHANGED <<tr, ready, pid, sim, cbVars>>
         \/ cb.kind = "select_send" /\ SelectHandled(cb.tid) /\ Resume(cb.tid)
  BY DEF Drain, Running
<1>2. ThreadTypes /\ SlotTypes /\ cb.tid \in Threads
  BY DEF WaitTypes, SlotTypes, CallbackTypes
<1>3. CASE cb.kind \in {"null", "write"} /\ UNCHANGED <<tr, ready, pid, sim, cbVars>>
  BY <1>1, <1>2, <1>3 DEF WaitTypes, ThreadTypes, SlotTypes, cbVars, EventOutcome, Quiet,
                          NothingCloses
<1>4. CASE cb.kind = "select_send" /\ SelectHandled(cb.tid) /\ Resume(cb.tid)
  <2>1. PICK t \in Threads : t = cb.tid
    BY <1>2
  <2>2. /\ ThreadTypes' /\ sim' = sim /\ ThreadMoves(t) /\ ready'[t] = ready[t] + 1
        /\ tr[t].stop = "entry" => tr'[t].stop = "user"
    BY <1>1, <1>2, <1>4, <2>1, ResumeEffect DEF Resume
  <2>3. SlotTypes' /\ NoNewWaits /\ ~Registered(t, "select")' /\ OthersKept(t)
    BY <1>1, <1>2, <1>4, <2>1, SelectOver DEF SlotTypes, NothingCloses
  <2>4. Armed(t, "select")
    BY <1>1, <1>4, <2>1 DEF Armed
  <2> QED BY <1>1, <2>2, <2>3, <2>4 DEF WaitTypes, EventOutcome, Wakes, WaitNames
<1> QED BY <1>1, <1>3, <1>4

\* The outcome of a TCP connect, which resumes the thread that waits for it.
LEMMA EventOfConnect ==
  ASSUME TableInv, WaitTypes, NEW s \in Socks, ConnectDone(s)
  PROVE  WaitTypes' /\ EventOutcome
<1>1. /\ sim = "running" /\ life[s] = "syn"
      /\ life' \in {[life EXCEPT ![s] = l] : l \in {"established", "tcp"}}
      /\ Resume(connectCb[s].tid) /\ UNCHANGED <<cbVars, rx, full>>
  BY DEF ConnectDone, Running
<1>2. PICK t \in Threads : t = connectCb[s].tid
  BY DEF TableInv, TableTypes
<1>3. /\ ThreadTypes' /\ sim' = sim /\ ThreadMoves(t) /\ ready'[t] = ready[t] + 1
      /\ tr[t].stop = "entry" => tr'[t].stop = "user"
  BY <1>1, <1>2, ResumeEffect DEF Resume, WaitTypes
<1>4. SlotTypes'
  BY <1>1 DEF WaitTypes, SlotTypes, cbVars
<1>5. life'[s] # "syn" /\ \A x \in Socks \ {s} : life'[x] = life[x]
  BY <1>1 DEF TableInv, TableTypes
<1>6. NoNewWaits
  BY <1>1, <1>5 DEF NoNewWaits, Kept, cbVars
<1>7. Armed(t, "connect") /\ (OneConnecting => ~Registered(t, "connect")')
  BY <1>1, <1>2, <1>5 DEF Armed, Registered, OneConnecting, cbVars
<1>8. OthersKept(t)
  BY <1>1, <1>2, <1>5 DEF OthersKept, Armed, Delivering, cbVars
<1> QED BY <1>1, <1>3, <1>4, <1>6, <1>7, <1>8 DEF WaitTypes, EventOutcome, Wakes, WaitNames

\* A connection arrives at a listener.
LEMMA EventOfIncoming ==
  ASSUME TableInv, WaitTypes, NEW l \in Socks, NEW s \in Socks, Incoming(l, s)
  PROVE  WaitTypes' /\ EventOutcome
<1> DEFINE cb == acceptCb[l]
<1>1. /\ sim = "running" /\ life[l] = "listen" /\ life[s] = "fresh"
      /\ life' = [life EXCEPT ![s] = "established"]
      /\ UNCHANGED <<rx, full>>
      /\ \/ UNCHANGED <<tr, ready, pid, sim, cbVars>>
         \/ cb.kind = "select_listen" /\ SelectHandled(cb.tid) /\ Resume(cb.tid)
         \/ /\ cb.kind = "accept" /\ UNCHANGED cbVars
            /\ \/ sim' = "ended" /\ UNCHANGED <<tr, ready, pid>>
               \/ ResumeThisPid(cb.tid)
  BY DEF Incoming, Running
<1>2. ThreadTypes /\ SlotTypes /\ cb.tid \in Threads
  BY DEF WaitTypes, SlotTypes, CallbackTypes
<1>3. NothingCloses
  BY <1>1 DEF TableInv, TableTypes, NothingCloses, Delivering
<1>4. CASE UNCHANGED <<tr, ready, pid, sim, cbVars>>
  BY <1>1, <1>2, <1>3, <1>4
     DEF WaitTypes, ThreadTypes, SlotTypes, cbVars, EventOutcome, Quiet
<1>5. CASE cb.kind = "select_listen" /\ SelectHandled(cb.tid) /\ Resume(cb.tid)
  <2>1. PICK t \in Threads : t = cb.tid
    BY <1>2
  <2>2. /\ ThreadTypes' /\ sim' = sim /\ ThreadMoves(t) /\ ready'[t] = ready[t] + 1
        /\ tr[t].stop = "entry" => tr'[t].stop = "user"
    BY <1>1, <1>2, <1>5, <2>1, ResumeEffect DEF Resume
  <2>3. SlotTypes' /\ NoNewWaits /\ ~Registered(t, "select")' /\ OthersKept(t)
    BY <1>1, <1>2, <1>3, <1>5, <2>1, SelectOver DEF SlotTypes
  <2>4. Armed(t, "select")
    BY <1>1, <1>5, <2>1 DEF Armed
  <2> QED BY <1>1, <2>2, <2>3, <2>4 DEF WaitTypes, EventOutcome, Wakes, WaitNames
<1>6. CASE /\ cb.kind = "accept" /\ UNCHANGED cbVars
           /\ \/ sim' = "ended" /\ UNCHANGED <<tr, ready, pid>>
              \/ ResumeThisPid(cb.tid)
  <2>1. SlotTypes' /\ ~Fake2Free
    BY <1>1, <1>2, <1>6 DEF SlotTypes, cbVars, Fake2Free
  <2>2. CASE sim' = "ended" /\ UNCHANGED <<tr, ready, pid>>
    BY <1>2, <2>1, <2>2 DEF WaitTypes, ThreadTypes, EventOutcome
  <2>3. CASE ResumeThisPid(cb.tid)
    BY <1>1, <1>2, <2>1, <2>3, ResumeEffect
       DEF WaitTypes, ResumeThisPid, ThreadTypes, EventOutcome
  <2> QED BY <1>6, <2>1, <2>2, <2>3
<1> QED BY <1>1, <1>4, <1>5, <1>6

-----------------------------------------------------------------------------
\* Every step is one of a handler or of an event, with its outcome.
LEMMA NextOutcome ==
  ASSUME TableInv, WaitTypes, Next
  PROVE  WaitTypes' /\ (EventOutcome \/ \E t \in Threads : Outcome(t))
<1>1. ASSUME NEW t \in Threads, HandleSyscallBefore(t)
      PROVE  WaitTypes' /\ Outcome(t)
  <2>1. CASE \/ HandleSocketRefused(t) \/ HandleSocketNetlink(t) \/ HandleOpen(t)
             \/ HandleFcntl(t) \/ HandleAcceptPending(t)
             \/ HandleSelectNow(t) \/ HandleSelectExcept(t)
    BY <2>1, HandlersWithoutCallbacks DEF Outcome
  <2>2. CASE HandleSocketInet(t) \/ HandleClose(t)
    BY <2>2, HandlersOfSockets DEF Outcome
  <2>3. CASE HandleListen(t)
    BY <2>3, HandlerOfListen
  <2>4. CASE HandleConnect(t)
    BY <2>4, HandlerOfConnect
  <2>5. CASE HandleAcceptNone(t)
    BY <2>5, HandlerOfAcceptNone
  <2>6. CASE HandleRead(t) \/ HandleRecvFrom(t)
    BY <2>6, HandlersOfRead
  <2>7. CASE HandleWrite(t)
    BY <2>7, HandlerOfWrite
  <2>8. CASE HandleSelectWait(t)
    BY <2>8, HandlerOfSelectWait
  <2> QED BY <1>1, <2>1, <2>2, <2>3, <2>4, <2>5, <2>6, <2>7, <2>8 DEF HandleSyscallBefore
<1>2. ASSUME NEW t \in Threads, SelectTimeout(t) PROVE WaitTypes' /\ EventOutcome
  BY <1>2, EventOfTimeout
<1>3. ASSUME NEW s \in Socks, Receive(s) \/ Drain(s) \/ ConnectDone(s)
      PROVE  WaitTypes' /\ EventOutcome
  BY <1>3, EventOfReceive, EventOfDrain, EventOfConnect
<1>4. ASSUME NEW l \in Socks, NEW s \in Socks, Incoming(l, s)
      PROVE  WaitTypes' /\ EventOutcome
  BY <1>4, EventOfIncoming
<1> QED BY <1>1, <1>2, <1>3, <1>4 DEF Next

LEMMA InitWaits == Init => WaitTypes /\ StepInv
<1> SUFFICES ASSUME Init PROVE WaitTypes /\ StepInv
  OBVIOUS
<1>1. ThreadTypes
  <2>1. Fresh \in TraceeOf(CallsOfThreads) /\ Fresh.stop = "user"
    BY DEF Fresh, TraceeOf, CallsOfThreads, Stops, Answers
  <2> QED BY <2>1, ThreadsAssumption DEF Init, ThreadTypes
<1>2. SlotTypes
  <2>1. NoCb \in CallbackTypes
    BY ThreadsAssumption DEF NoCb, CallbackTypes, Kinds
  <2> QED BY <2>1 DEF Init, SlotTypes
<1>3. InStep
  BY DEF Init, InStep, Fresh
<1>4. \A t \in Threads, n \in WaitNames : ~Registered(t, n)
  BY DEF Init, Registered, NoCb, SelectKinds
<1>5. OneReceiver /\ OneConnecting /\ Fake2Free
  BY DEF Init, OneReceiver, OneConnecting, Fake2Free, NoCb
<1> QED BY <1>1, <1>2, <1>3, <1>4, <1>5 DEF WaitTypes, StepInv, StrayFree

\* Nothing but the tables and the slots has a type.
LEMMA NextWaitTypes ==
  ASSUME TableInv, WaitTypes, [Next]_vars
  PROVE  WaitTypes'
<1>1. CASE UNCHANGED vars
  BY <1>1 DEF vars, cbVars, WaitTypes, ThreadTypes, SlotTypes
<1> QED BY <1>1, NextOutcome

THEOREM WaitTypesInvariant == Spec => []WaitTypes
<1>1. TableInv /\ WaitTypes /\ [Next]_vars => WaitTypes'
  BY NextWaitTypes
<1> QED BY <1>1, InitWaits, TablesInvariant, PTL DEF Spec

(***************************************************************************)
(* The variables hold values of their kind, whatever the application calls *)
(* and in whatever wait its threads are, also when a FAKE2 callback moves  *)
(* the wrong thread.                                                       *)
(***************************************************************************)
THEOREM TypeCorrect == Spec => []TypeOK
<1>1. TableInv /\ WaitTypes => TypeOK
  BY DEF TableInv, TableTypes, WaitTypes, ThreadTypes, SlotTypes, TraceeOf,
         CallsOfThreads, CallbackTypes, TypeOK
<1> QED BY <1>1, TablesInvariant, WaitTypesInvariant, PTL

-----------------------------------------------------------------------------
\* A thread that has an event runs user code and waits for nothing.
LEMMA EventInUser ==
  ASSUME WaitTypes, StepInv, NEW t \in Threads, sim = "running", ready[t] > 0
  PROVE  tr[t].stop = "user" /\ ready[t] = 1 /\ \A n \in WaitNames : ~Registered(t, n)
<1>1. ready[t] = IF tr[t].stop = "user" THEN 1 ELSE 0
  BY DEF StepInv, InStep
<1>2. tr[t].stop = "user" /\ ready[t] = 1
  BY <1>1 DEF WaitTypes, ThreadTypes
<1> QED BY <1>2 DEF StepInv, StrayFree

\* The handlers keep the invariant.
LEMMA OutcomeSteps ==
  ASSUME Fake2Unused, WaitTypes, StepInv, NEW t \in Threads, Outcome(t)
  PROVE  StepInv'
<1>1. sim = "running" /\ ready[t] > 0 /\ ThreadMoves(t)
  BY DEF Outcome, Goes, Stays
<1>2. tr[t].stop = "user" /\ ready[t] = 1 /\ \A n \in WaitNames : ~Registered(t, n)
  BY <1>1, EventInUser
<1>3. \A u \in Threads \ {t} : tr'[u] = tr[u] /\ ready'[u] = ready[u]
  BY <1>1 DEF ThreadMoves
<1>4. CASE Goes(t) /\ NoNewWaits
  <2>1. InStep'
    BY <1>1, <1>2, <1>3, <1>4 DEF Goes, StepInv, InStep
  <2>2. /\ \A u \in Threads, n \in WaitNames : Registered(u, n)' => Registered(u, n)
        /\ OneReceiver' /\ OneConnecting' /\ Fake2Free'
    BY <1>4, KeptWaits DEF StepInv
  <2>3. StrayFree'
    BY <1>2, <1>3, <2>2 DEF StepInv, StrayFree
  <2> QED BY <2>1, <2>2, <2>3 DEF StepInv
<1>5. ASSUME NEW name \in WaitNames \cup {"write"}, Stays(t, name), Waiting(t, name),
             Fake2Unused /\ Fake2Free => Fake2Free'
      PROVE  StepInv'
  <2>1. tr'[t].stop = "entry" /\ tr'[t].call[1] = name /\ ready'[t] = 0
    BY <1>2, <1>5 DEF Stays
  <2>2. InStep'
    BY <1>1, <1>3, <2>1 DEF StepInv, InStep
  <2>3. StrayFree'
    BY <1>2, <1>3, <1>5, <2>1, GainsRegistered DEF Waiting, StepInv, StrayFree
  <2>4. OneReceiver' /\ OneConnecting' /\ Fake2Free'
    BY <1>2, <1>5 DEF Waiting, StepInv, WaitNames
  <2> QED BY <2>2, <2>3, <2>4 DEF StepInv
<1> QED BY <1>4, <1>5 DEF Outcome

\* The events keep the invariant: the thread they resume waits for nothing else.
LEMMA EventSteps ==
  ASSUME WaitTypes, StepInv, EventOutcome
  PROVE  StepInv'
<1>1. CASE Quiet
  <2>1. sim = "running" /\ NoNewWaits /\ UNCHANGED <<tr, ready>>
    BY <1>1 DEF Quiet, NothingCloses, NoNewWaits, Kept, cbVars
  <2> QED BY <2>1, KeptWaits DEF StepInv, InStep, StrayFree
<1>2. ASSUME NEW t \in Threads, NEW n \in WaitNames, Wakes(t, n)
      PROVE  StepInv'
  <2>1. /\ sim = "running" /\ sim' = sim /\ Registered(t, n) /\ NoNewWaits
        /\ \A u \in Threads \ {t} : tr'[u] = tr[u] /\ ready'[u] = ready[u]
        /\ ~Registered(t, n)' /\ ready'[t] = ready[t] + 1
    BY <1>2, ArmedRegistered DEF Wakes, StepInv, ThreadMoves
  <2>2. /\ tr[t].stop = "entry" /\ ready[t] = 0
        /\ \A m \in WaitNames \ {n} : ~Registered(t, m)
    BY <2>1 DEF StepInv, StrayFree, InStep
  <2>3. tr'[t].stop = "user" /\ ready'[t] = 1
    BY <1>2, <2>1, <2>2 DEF Wakes
  <2>4. /\ \A u \in Threads, m \in WaitNames : Registered(u, m)' => Registered(u, m)
        /\ OneReceiver' /\ OneConnecting' /\ Fake2Free'
    BY <2>1, KeptWaits DEF StepInv
  <2>5. InStep'
    BY <2>1, <2>3 DEF StepInv, InStep
  <2>6. StrayFree'
    BY <2>1, <2>2, <2>4 DEF StepInv, StrayFree
  <2> QED BY <2>4, <2>5, <2>6 DEF StepInv
<1>3. CASE Aborts
  <2>1. NoNewWaits /\ UNCHANGED tr /\ sim' # "running"
    BY <1>3 DEF Aborts, NoNewWaits, Kept, cbVars
  <2> QED BY <2>1, KeptWaits DEF StepInv, InStep, StrayFree
<1> QED BY <1>1, <1>2, <1>3 DEF EventOutcome, StepInv

LEMMA NextSteps ==
  ASSUME Fake2Unused, TableInv, WaitTypes, StepInv, [Next]_vars
  PROVE  StepInv'
<1>1. CASE UNCHANGED vars
  BY <1>1 DEF vars, cbVars, StepInv, InStep, StrayFree, OneReceiver, OneConnecting,
              Fake2Free, Registered
<1>2. CASE Next
  BY <1>2, NextOutcome, OutcomeSteps, EventSteps
<1> QED BY <1>1, <1>2

THEOREM StepsInvariant == Fake2Unused => (Spec => []StepInv)
<1> SUFFICES ASSUME Fake2Unused PROVE Spec => []StepInv
  OBVIOUS
<1>1. TableInv /\ WaitTypes /\ StepInv /\ [Next]_vars => StepInv'
  BY NextSteps
<1> QED BY <1>1, InitWaits, TablesInvariant, WaitTypesInvariant, PTL DEF Spec

(***************************************************************************)
(* Handlers, callbacks and stops stay in step (HandleSyscallBefore, the    *)
(* lambdas the handlers register), in whatever order threads read, write,  *)
(* connect, select and close the sockets they share, as long as no         *)
(* callback with FAKE2 answers for another thread.                         *)
(***************************************************************************)
THEOREM ThreadsInStep == Fake2Unused => (Spec => []InStep)
<1> SUFFICES ASSUME Fake2Unused PROVE Spec => []InStep
  OBVIOUS
<1>1. StepInv => InStep
  BY DEF StepInv
<1> QED BY <1>1, StepsInvariant, PTL

(***************************************************************************)
(* What can still resume a thread belongs to the call it waits in: a       *)
(* handled select leaves neither callback nor timeout (already_handled),   *)
(* and the callbacks of read, recvfrom and connect run once.               *)
(***************************************************************************)
THEOREM WakeupsBelong == Fake2Unused => (Spec => []NoStrayWakeup)
<1> SUFFICES ASSUME Fake2Unused PROVE Spec => []NoStrayWakeup
  OBVIOUS
<1>1. StepInv => NoStrayWakeup
  BY DEF StepInv, StrayFree, NoStrayWakeup, Registered, WaitNames
<1> QED BY <1>1, StepsInvariant, PTL

-----------------------------------------------------------------------------
\* What a step may do to the lives of sockets and to their send buffers.
LifeStep ==
  \A s \in Socks :
    /\ life[s] \in Delivering \cup {"listen", "closed"} => life'[s] \in {life[s], "closed"}
    /\ s \in full' \ full => life[s] # "closed"
    /\ s \in full \ full' => life'[s] = "closed" \/ sendCb'[s].kind # "select_send"

LEMMA NextLife ==
  ASSUME TableInv, WaitTypes, [Next]_vars
  PROVE  LifeStep
<1>1. ASSUME UNCHANGED <<life, full>>
      PROVE  LifeStep
  BY <1>1 DEF LifeStep
<1>2. TableTypes /\ \A fd \in FDs : m_sockets[fd] # NoSock => m_sockets[fd] \in Socks
  BY DEF TableInv, TableTypes
<1>3. ASSUME NEW t \in Threads, HandleSyscallBefore(t)
      PROVE  LifeStep
  <2>1. CASE HandleSocketInet(t)
    BY <1>2, <2>1 DEF HandleSocketInet, LifeStep, TableTypes, Delivering
  <2>2. CASE HandleClose(t)
    BY <1>2, <2>2 DEF HandleClose, LifeStep, TableTypes
  <2>3. CASE HandleListen(t)
    BY <1>2, <2>3 DEF HandleListen, LifeStep, TableTypes, Delivering
  <2>4. CASE HandleConnect(t)
    BY <1>2, <2>4 DEF HandleConnect, LifeStep, TableTypes, Delivering
  <2>5. CASE HandleWrite(t)
    <3>1. \A fd \in m_connected : m_sockets[fd] \in Socks /\ life[m_sockets[fd]] # "closed"
      BY DEF TableInv, TableTypes, FdSetsCurrent
    <3> QED BY <2>5, <3>1 DEF HandleWrite, LifeStep
  <2> QED BY <1>1, <1>3, <2>1, <2>2, <2>3, <2>4, <2>5
          DEF HandleSyscallBefore, HandleSocketRefused, HandleSocketNetlink, HandleOpen,
              HandleFcntl, HandleAcceptPending, HandleAcceptNone, HandleRead,
              HandleRecvFrom, HandleSelectNow, HandleSelectWait, HandleSelectExcept
<1>4. ASSUME NEW t \in Threads, SelectTimeout(t)
      PROVE  LifeStep
  BY <1>1, <1>4 DEF SelectTimeout
<1>5. ASSUME NEW s \in Socks, Receive(s)
      PROVE  LifeStep
  BY <1>1, <1>5 DEF Receive
<1>6. ASSUME NEW s \in Socks, Drain(s)
      PROVE  LifeStep
  <2>1. /\ full' = full \ {s} /\ life' = life
        /\ \/ sendCb[s].kind \in {"null", "write"} /\ sendCb' = sendCb
           \/ sendCb' = Handled(sendCb, sendCb[s].tid)
    BY <1>6 DEF Drain, SelectHandled, cbVars
  <2>2. Handled(sendCb, sendCb[s].tid)[s].kind # "select_send"
    BY DEF Handled, NoCb, SelectKinds
  <2>3. sendCb'[s].kind # "select_send"
    BY <2>1, <2>2
  <2> QED BY <2>1, <2>3 DEF LifeStep
<1>7. ASSUME NEW s \in Socks, ConnectDone(s)
      PROVE  LifeStep
  BY <1>2, <1>7 DEF ConnectDone, LifeStep, TableTypes, Delivering
<1>8. ASSUME NEW l \in Socks, NEW s \in Socks, Incoming(l, s)
      PROVE  LifeStep
  BY <1>2, <1>8 DEF Incoming, LifeStep, TableTypes, Delivering
<1>9. CASE UNCHANGED vars
  BY <1>1, <1>9 DEF vars
<1> QED BY <1>3, <1>4, <1>5, <1>6, <1>7, <1>8, <1>9 DEF Next

(***************************************************************************)
(* In an application without hopeless waits, a callback that resumes a     *)
(* thread is on a socket whose events run it, or on a closed one.          *)
(***************************************************************************)
SlotsLive ==
  \A s \in Socks :
    /\ recvCb[s].kind \in {"read", "recvfrom", "select_recv"}
         => life[s] \in Delivering \cup {"closed"}
    /\ acceptCb[s].kind \in {"accept", "select_listen"} => life[s] \in {"listen", "closed"}
    /\ sendCb[s].kind = "select_send" => s \in full \/ life[s] = "closed"

\* Callbacks stay live, and no wait but that of name is armed.
LEMMA GainsArmed ==
  ASSUME Hopeful, SlotsLive, LifeStep, NEW t \in Threads,
         NEW name \in WaitNames \cup {"write"}, Gains(t, name)
  PROVE  /\ SlotsLive'
         /\ \A u \in Threads, n \in WaitNames :
              Armed(u, n)' => Armed(u, n) \/ (u = t /\ n = name)
<1>1. SlotsLive'
  BY DEF SlotsLive, LifeStep, Gains, SameOrNone, Delivering
<1>2. ASSUME NEW u \in Threads, NEW n \in WaitNames, Armed(u, n)'
      PROVE  Armed(u, n) \/ (u = t /\ n = name)
  <2>1. CASE n \in {"read", "recvfrom"}
    BY <1>2, <2>1 DEF Armed, Gains, SameOrNone, SlotsLive, LifeStep, Delivering
  <2>2. CASE n = "connect"
    BY <1>2, <2>2 DEF Armed, Gains
  <2>3. CASE n = "accept"
    BY <1>2, <2>3 DEF Armed, Gains, SameOrNone, SlotsLive, LifeStep
  <2>4. CASE n = "select"
    BY <1>2, <2>4
       DEF Armed, Gains, SameOrNone, SlotsLive, LifeStep, Delivering, WaitNames
  <2> QED BY <2>1, <2>2, <2>3, <2>4 DEF WaitNames
<1> QED BY <1>1, <1>2

\* The events of ns-3 that resume nobody leave what is armed.
LEMMA QuietArmed ==
  ASSUME Quiet, NEW t, NEW n, Armed(t, n)
  PROVE  Armed(t, n)'
  BY DEF Quiet, NothingCloses, Armed, cbVars

LEMMA NextLive ==
  ASSUME Fake2Unused, Hopeful, TableInv, WaitTypes, StepInv, SlotsLive, [Next]_vars
  PROVE  SlotsLive'
<1>1. ASSUME NoNewWaits
      PROVE  SlotsLive'
  <2>1. Main \in Threads /\ "write" \in WaitNames \cup {"write"}
    BY ThreadsAssumption
  <2>2. Gains(Main, "write")
    BY <1>1, <2>1, NoGains
  <2> QED BY <2>1, <2>2, NextLife, GainsArmed
<1>2. CASE UNCHANGED vars
  BY <1>1, <1>2 DEF vars, cbVars, NoNewWaits, Kept
<1>3. ASSUME NEW t \in Threads, Outcome(t)
      PROVE  SlotsLive'
  BY <1>1, <1>3, NextLife, GainsArmed DEF Outcome, Waiting
<1>4. CASE EventOutcome
  <2>1. CASE Quiet
    BY <1>1, <2>1 DEF Quiet, NothingCloses, cbVars, NoNewWaits, Kept
  <2>2. CASE Aborts
    BY <1>1, <2>2 DEF Aborts, cbVars, NoNewWaits, Kept
  <2> QED BY <1>1, <1>4, <2>1, <2>2 DEF EventOutcome, StepInv, Wakes
<1> QED BY <1>2, <1>3, <1>4, NextOutcome

LEMMA LiveInvariant == Fake2Unused /\ Hopeful => (Spec => []SlotsLive)
<1> SUFFICES ASSUME Fake2Unused, Hopeful PROVE Spec => []SlotsLive
  OBVIOUS
<1>1. Init => SlotsLive
  BY DEF Init, SlotsLive, NoCb
<1>2. TableInv /\ WaitTypes /\ StepInv /\ SlotsLive /\ [Next]_vars => SlotsLive'
  BY NextLive
<1> QED BY <1>1, <1>2, TablesInvariant, WaitTypesInvariant, StepsInvariant, PTL DEF Spec

(***************************************************************************)
(* With one thread, no wait of another thread replaces a callback and no   *)
(* close ends one.  A blocking write is never resumed, the accept that     *)
(* waits is the one that FAKE2 answers twice, and connect without a route  *)
(* and waits on sockets without a peer are those that nothing ends.        *)
(***************************************************************************)
Resumable == Threads = {Main} /\ {"accept", "write"} \cap Waits = {} /\ Hopeful

LEMMA NextForgotten ==
  ASSUME Resumable, TableInv, WaitTypes, StepInv, NoThreadForgotten, [Next]_vars
  PROVE  NoThreadForgotten'
<1>1. CASE UNCHANGED vars
  BY <1>1 DEF vars, cbVars, NoThreadForgotten, Armed
<1>2. ASSUME NEW t \in Threads, Outcome(t)
      PROVE  NoThreadForgotten'
  <2>1. sim = "running" /\ ready[t] > 0 /\ Threads = {t}
    BY <1>2, ThreadsAssumption DEF Outcome, Goes, Stays, Resumable
  <2>2. tr[t].stop = "user"
    BY <2>1, EventInUser
  <2>3. CASE Goes(t)
    BY <2>1, <2>2, <2>3 DEF Goes, NoThreadForgotten
  <2>4. ASSUME NEW name \in WaitNames \cup {"write"}, Stays(t, name),
               IF name = "write" THEN "write" \in Waits ELSE Hopeful => Armed(t, name)'
        PROVE  NoThreadForgotten'
    <3>1. tr'[t].call[1] = name /\ Armed(t, name)'
      BY <2>2, <2>4 DEF Stays, Resumable
    <3> QED BY <2>1, <3>1 DEF NoThreadForgotten
  <2> QED BY <1>2, <2>3, <2>4 DEF Outcome
<1>3. CASE Quiet
  <2>1. ASSUME NEW t \in Threads, tr'[t].stop = "entry"
        PROVE  Armed(t, tr[t].call[1])'
    <3>1. tr' = tr /\ Armed(t, tr[t].call[1])
      BY <1>3, <2>1 DEF Quiet, NoThreadForgotten
    <3>2. PICK n \in WaitNames : n = tr[t].call[1] /\ Armed(t, n)
      BY <3>1, ArmedRegistered
    <3>3. n = tr'[t].call[1] /\ Armed(t, n)'
      BY <1>3, <3>1, <3>2, QuietArmed
    <3> QED BY <3>3
  <2> QED BY <2>1 DEF NoThreadForgotten
<1>4. CASE Aborts
  BY <1>4 DEF Aborts, NoThreadForgotten
<1>5. ASSUME NEW t \in Threads, NEW n \in WaitNames, Wakes(t, n)
      PROVE  NoThreadForgotten'
  <2>1. Threads = {t} /\ tr[t].stop = "entry"
    BY <1>5, ArmedRegistered, ThreadsAssumption DEF Wakes, Resumable, StepInv, StrayFree
  <2> QED BY <1>5, <2>1 DEF Wakes, NoThreadForgotten
<1>6. Fake2Unused
  BY DEF Resumable, Fake2Unused
<1> QED BY <1>1, <1>2, <1>3, <1>4, <1>5, <1>6, NextOutcome DEF EventOutcome, StepInv

(***************************************************************************)
(* A thread whose call is delayed can be resumed by an event of ns-3 or by *)
(* a timeout (ProcessStatusCode: "handler is expected to register required *)
(* events"), for one thread that enters no blocking write or accept, no    *)
(* connect without a route and no wait on a socket without a peer.         *)
(***************************************************************************)
THEOREM WaitersResumable == Resumable => (Spec => []NoThreadForgotten)
<1> SUFFICES ASSUME Resumable PROVE Spec => []NoThreadForgotten
  OBVIOUS
<1>1. Fake2Unused
  BY DEF Resumable, Fake2Unused
<1>2. Spec => []StepInv
  BY <1>1, StepsInvariant
<1>3. Init => NoThreadForgotten
  BY DEF Init, NoThreadForgotten, Fresh
<1>4. TableInv /\ WaitTypes /\ StepInv /\ NoThreadForgotten /\ [Next]_vars
        => NoThreadForgotten'
  BY NextForgotten
<1> QED BY <1>2, <1>3, <1>4, TablesInvariant, WaitTypesInvariant, PTL DEF Spec

-----------------------------------------------------------------------------
\* What can end a wait belongs to a call in which threads wait.
LEMMA WakersKnown ==
  /\ WakersOf = {w \in Threads \X WaitNames : sim = "running" /\ Armed(w[1], w[2])}
  /\ WakersOf' = {w \in Threads \X WaitNames : sim' = "running" /\ Armed(w[1], w[2])'}
<1>1. WaitNames \subseteq CallNames
  BY DEF WaitNames, CallNames
<1> QED BY <1>1, ArmedRegistered DEF WakersOf

\* A step that ends the simulation ends every call.
LEMMA StepEnds ==
  ASSUME sim = "running", sim' # "running"
  PROVE  Blocking!Next
<1>1. WaitsOf' = [t \in Threads |-> "none"] /\ WakersOf' = {}
  BY DEF WaitsOf, WakersOf
<1> QED BY <1>1 DEF Blocking!Next, Blocking!End, Blocking!None

\* The calls of a thread that runs: answered at once, or waiting.
LEMMA OutcomeCalls ==
  ASSUME Hopeful, SlotsLive, LifeStep, WaitTypes, StepInv, NEW t \in Threads, Outcome(t),
         sim' = "running"
  PROVE  Blocking!Next
<1>1. sim = "running" /\ ready[t] > 0 /\ ThreadMoves(t)
  BY DEF Outcome, Goes, Stays
<1>2. tr[t].stop = "user"
  BY <1>1, EventInUser
<1>3. \A u \in Threads \ {t} : tr'[u] = tr[u]
  BY <1>1 DEF ThreadMoves
<1>4. WaitsOf[t] = "none"
  BY <1>2 DEF WaitsOf
<1>5. CASE Goes(t) /\ NoNewWaits
  <2>1. WaitsOf' = WaitsOf
    BY <1>1, <1>2, <1>3, <1>5 DEF Goes, WaitsOf
  <2>2. WakersOf' \subseteq WakersOf
    <3>1. \A u \in Threads, n \in WaitNames : Armed(u, n)' => Armed(u, n) \/ n = "write"
      BY <1>5, NoGains, GainsArmed
    <3> QED BY <1>1, <3>1, WakersKnown DEF WaitNames
  <2> QED BY <1>1, <1>4, <2>1, <2>2 DEF Blocking!Next, Blocking!Call, Blocking!None
<1>6. ASSUME NEW name \in WaitNames \cup {"write"}, Stays(t, name), Waiting(t, name),
             IF name = "write" THEN "write" \in Waits ELSE Hopeful => Armed(t, name)'
      PROVE  Blocking!Next
  <2>1. tr'[t].stop = "entry" /\ tr'[t].call[1] = name
    BY <1>2, <1>6 DEF Stays
  <2>2. WaitsOf' = [WaitsOf EXCEPT ![t] = name]
    BY <1>1, <1>3, <2>1 DEF WaitsOf
  <2>3. WakersOf' \subseteq WakersOf \cup {<<t, name>>}
    <3>1. \A u \in Threads, n \in WaitNames : Armed(u, n)' => Armed(u, n) \/ (u = t /\ n = name)
      BY <1>6, GainsArmed DEF Waiting
    <3> QED BY <1>1, <3>1, WakersKnown
  <2>4. name # "write" => <<t, name>> \in WakersOf'
    BY <1>6, WakersKnown
  <2>5. name \in CallNames
    BY DEF CallNames, WaitNames
  <2> QED BY <1>1, <1>4, <2>2, <2>3, <2>4, <2>5
          DEF Blocking!Next, Blocking!Wait, Blocking!None
<1> QED BY <1>5, <1>6 DEF Outcome

\* The events of ns-3 and the timeouts: they end one wait, or none.
LEMMA EventCalls ==
  ASSUME Hopeful, SlotsLive, LifeStep, WaitTypes, StepInv, EventOutcome, sim' = "running"
  PROVE  Blocking!Next \/ UNCHANGED <<WaitsOf, WakersOf, sim>>
<1>1. ASSUME NoNewWaits
      PROVE  \A u \in Threads, n \in WaitNames : Armed(u, n)' => Armed(u, n)
  <2>1. \A u \in Threads, n \in WaitNames : Armed(u, n)' => Armed(u, n) \/ n = "write"
    BY <1>1, NoGains, GainsArmed, ThreadsAssumption
  <2> QED BY <2>1 DEF WaitNames
<1>2. CASE Quiet
  <2>1. sim' = sim /\ NoNewWaits
    BY <1>2 DEF Quiet, NothingCloses, cbVars, NoNewWaits, Kept
  <2>2. \A u \in Threads, n \in WaitNames : Armed(u, n)' <=> Armed(u, n)
    BY <1>1, <1>2, <2>1, QuietArmed
  <2>3. WakersOf' = WakersOf
    BY <2>1, <2>2, WakersKnown
  <2> QED BY <1>2, <2>1, <2>3 DEF Quiet, WaitsOf
<1>3. ASSUME NEW t \in Threads, NEW n \in WaitNames, Wakes(t, n)
      PROVE  Blocking!Next
  <2>1. /\ sim = "running" /\ Armed(t, n) /\ NoNewWaits /\ OthersKept(t)
        /\ ~Registered(t, n)' /\ \A u \in Threads \ {t} : tr'[u] = tr[u]
    BY <1>3 DEF Wakes, StepInv, ThreadMoves
  <2>2. /\ tr[t].stop = "entry" /\ tr[t].call[1] = n /\ tr'[t].stop = "user"
        /\ \A m \in WaitNames : Registered(t, m) => m = n
    BY <1>3, <2>1, ArmedRegistered DEF Wakes, StepInv, StrayFree
  <2>3. WaitsOf[t] = n /\ WaitsOf' = [WaitsOf EXCEPT ![t] = "none"]
    BY <2>1, <2>2 DEF WaitsOf
  <2>4. <<t, n>> \in WakersOf
    BY <2>1, WakersKnown
  <2>5. \A m \in WaitNames : ~Armed(t, m)'
    BY <1>1, <2>1, <2>2, ArmedRegistered
  <2>6. \A u \in Threads \ {t}, m \in WaitNames : Armed(u, m)' <=> Armed(u, m)
    BY <1>1, <2>1 DEF OthersKept
  <2>7. WakersOf' = {w \in WakersOf : w[1] # t}
    BY <1>3, <2>1, <2>5, <2>6, WakersKnown
  <2> QED BY <1>3, <2>1, <2>3, <2>4, <2>7
          DEF Wakes, Blocking!Next, Blocking!Return, Blocking!None
<1>4. ~Aborts
  BY DEF Aborts
<1> QED BY <1>2, <1>3, <1>4 DEF EventOutcome, StepInv

(***************************************************************************)
(* Handlers and callbacks implement blocking calls: a wait begins with an  *)
(* event of ns-3 or a timeout that can end it, is ended once, by one of    *)
(* them, and none of them ends or loses the wait of another thread; for    *)
(* applications that enter no connect without a route and no wait on a     *)
(* socket without a peer, and no wait that a callback with FAKE2 answers   *)
(* for another thread.                                                     *)
(***************************************************************************)
THEOREM CallsImplemented == Fake2Unused /\ Hopeful => (Spec => ImplementsCalls)
<1> SUFFICES ASSUME Fake2Unused, Hopeful PROVE Spec => ImplementsCalls
  OBVIOUS
<1>1. Init => Blocking!Init
  <2>1. \A t \in Threads, n \in WaitNames : Init => ~Registered(t, n)
    BY DEF Init, Registered, NoCb, SelectKinds, WaitNames
  <2>2. Init => WakersOf = {}
    BY <2>1, ArmedRegistered, WakersKnown
  <2> QED BY <2>2 DEF Init, Blocking!Init, Blocking!None, WaitsOf, Fresh
<1>2. ASSUME TableInv, WaitTypes, StepInv, SlotsLive, [Next]_vars
      PROVE  [Blocking!Next]_<<WaitsOf, WakersOf, sim = "running">>
  <2>1. CASE UNCHANGED vars
    <3>1. \A t, n : Armed(t, n)' <=> Armed(t, n)
      BY <2>1 DEF vars, cbVars, Armed
    <3> QED BY <2>1, <3>1 DEF vars, WaitsOf, WakersOf
  <2>2. CASE Next
    <3>1. EventOutcome \/ \E t \in Threads : Outcome(t)
      BY <1>2, <2>2, NextOutcome
    <3>2. sim = "running"
      BY <1>2, <3>1 DEF EventOutcome, Quiet, Aborts, Wakes, Outcome, Goes, Stays, StepInv
    <3>3. LifeStep
      BY <1>2, NextLife
    <3>4. sim' = "running" => Blocking!Next \/ UNCHANGED <<WaitsOf, WakersOf, sim>>
      BY <1>2, <3>1, <3>3, OutcomeCalls, EventCalls
    <3> QED BY <3>2, <3>4, StepEnds
  <2> QED BY <1>2, <2>1, <2>2
<1> QED BY <1>1, <1>2, TablesInvariant, WaitTypesInvariant, StepsInvariant, LiveInvariant,
        PTL DEF Spec, ImplementsCalls, Blocking!Spec
=============================================================================
