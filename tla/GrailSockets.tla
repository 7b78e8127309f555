---------------------------- MODULE GrailSockets ----------------------------
(***************************************************************************)
(* The emulated file descriptors of one application and the handlers that  *)
(* wait for an ns-3 socket (model/grail.cc): the descriptor tables of      *)
(* Priv, the callbacks the handlers register, and the events of ns-3 that  *)
(* run them.  The threads exist already (GrailThreads creates them) and    *)
(* share every descriptor.                                                 *)
(*                                                                         *)
(* A socket of ns-3 has one callback slot for each of receive, send,       *)
(* accept and connect; registering a callback replaces the one before.     *)
(***************************************************************************)
EXTENDS Tracer, FiniteSets

CONSTANTS
  FDs,     \* the descriptors of availableFDs (100 .. 199 in the code)
  Socks,   \* bound: the ns-3 sockets that come to exist, incoming included
  Calls,   \* the system calls the application makes
  Waits    \* the waits it enters, by the callback that ends them

CallNames == {"socket", "open", "close", "fcntl", "listen", "connect", "accept",
              "read", "recvfrom", "write", "select"}

AllWaits == {"read", "recvfrom", "write", "accept", "connect",
             "select_recv", "select_listen", "select_send"}

\* Waits that no event of ns-3 ends: connect without a route to the address, and
\* read, accept or select on a socket that is not connected or does not listen.
Hopeless == {"no_route", "no_peer"}

ASSUME FDsAssumption   == FDs \subseteq Nat
ASSUME CallsAssumption == Calls \subseteq CallNames
ASSUME WaitsAssumption == Waits \subseteq AllWaits \cup Hopeless

VARIABLES
  availableFDs,     \* descriptors not in use
  m_sockets,        \* m_sockets[fd]: the ns-3 socket of fd, or NoSock
  m_fakeAccepted,   \* m_fakeAccepted[fd]: the connection pending on listener fd
  m_tcp, m_connected, m_listen, m_nonblocking,   \* socket state sets
  m_random, m_netlinks,
  life,      \* life[s]: what ns-3 knows of socket s
  rx,        \* sockets with received data
  full,      \* sockets without space in the send buffer
  recvCb, sendCb, acceptCb, connectCb,   \* the callback slots
  timer      \* timer[t]: the timeout event of the select of thread t

fdVars == <<availableFDs, m_sockets, m_fakeAccepted, m_tcp, m_connected,
            m_listen, m_nonblocking, m_random, m_netlinks>>
cbVars == <<recvCb, sendCb, acceptCb, connectCb, timer>>
vars   == <<tr, ready, pid, sim, fdVars, cbVars, life, rx, full>>

NoSock == "no socket"
ASSUME NoSockAssumption == NoSock \notin Socks

\* What a registered lambda captures: what it is for, saved_pid and the fd.
Callback(kind, t, fd) == [kind |-> kind, tid |-> t, fd |-> fd]
Kinds == AllWaits \cup {"null", "default"}

\* A select callback whose already_handled is set returns at once, as a null
\* callback does, so NoCb stands for both.
NoCb == [kind |-> "null", tid |-> Main, fd |-> 0]

Lives == {"fresh", "tcp", "udp", "listen", "syn", "established", "closed"}

\* The lives in which ns-3 may have data for a socket.
Delivering == {"udp", "established"}

Requests == {<<c, "args">> : c \in Calls}

Sockets(fds) == {fd \in fds : m_sockets[fd] # NoSock}

FdIsEmulatedSocket(fd) ==
  m_sockets[fd] # NoSock \/ fd \in m_netlinks \/ fd \in m_random

-----------------------------------------------------------------------------
\* GrailApplication(): no descriptor is in use.
Init ==
  /\ tr = [t \in Threads |-> Fresh]
  /\ ready = [t \in Threads |-> 1]
  /\ pid = Main
  /\ sim = "running"
  /\ availableFDs = FDs
  /\ m_sockets = [fd \in FDs |-> NoSock]
  /\ m_fakeAccepted = [fd \in FDs |-> NoSock]
  /\ m_tcp = {} /\ m_connected = {} /\ m_listen = {} /\ m_nonblocking = {}
  /\ m_random = {} /\ m_netlinks = {}
  /\ life = [s \in Socks |-> "fresh"]
  /\ rx = {} /\ full = {}
  /\ recvCb = [s \in Socks |-> NoCb]
  /\ sendCb = [s \in Socks |-> NoCb]
  /\ acceptCb = [s \in Socks |-> NoCb]
  /\ connectCb = [s \in Socks |-> NoCb]
  /\ timer = [t \in Threads |-> FALSE]

\* HandleSyscallBefore(t) caught the call and is about to run its handler.
Caught(t, name, r) ==
  /\ Event(t)
  /\ pid' = t
  /\ r \in WaitForSyscall(tr[t], Requests)
  /\ r.call[1] = name

\* FAKE(...) and the return of status res.
Answer(t, r, res) ==
  /\ \E w \in Fake(r, Requests) : tr' = [tr EXCEPT ![t] = w]
  /\ ProcessStatusCode(res, t, Consumed(ready, t))

\* SYSC_DELAYED, SYSC_ERROR, exit(1) or a failing assertion: no FAKE.
Leave(t, r, res) ==
  /\ tr' = [tr EXCEPT ![t] = r]
  /\ ProcessStatusCode(res, t, Consumed(ready, t))

\* HandleSyscallAfter: the descriptor is not emulated.
PassToKernel(t, r) ==
  /\ \E w \in WaitForSyscall(r, Requests) : tr' = [tr EXCEPT ![t] = w]
  /\ ProcessStatusCode("success", t, Consumed(ready, t))

\* Mutant: FAKE2 in place of FAKE4.
MutResumeThisPid(t) ==
  /\ \E w \in Fake(tr[pid], Requests) : tr' = [tr EXCEPT ![pid] = w]
  /\ ProcessStatusCode("success", t, ready)
  /\ UNCHANGED pid

\* FAKE4 in a callback: thread t, which waits, gets its answer.
Resume(t) ==
  /\ \E w \in Fake(tr[t], Requests) : tr' = [tr EXCEPT ![t] = w]
  /\ ProcessStatusCode("success", t, ready)
  /\ UNCHANGED pid

\* FAKE2 in a callback: the answer goes to this->pid, the event to saved_pid.
ResumeThisPid(saved_pid) ==
  /\ \E w \in Fake(tr[pid], Requests) : tr' = [tr EXCEPT ![pid] = w]
  /\ ProcessStatusCode("success", saved_pid, ready)
  /\ UNCHANGED pid

\* fd is the result of GetNextFD().
GetNextFD(fd) ==
  /\ fd \in availableFDs
  /\ \A g \in availableFDs : fd <= g

\* The assertion "Out of file descriptors!" stops the simulator.
OutOfFDs(t, r) ==
  /\ availableFDs = {}
  /\ Leave(t, r, "error")

-----------------------------------------------------------------------------
\* HandleSocket, the branches that create no socket: an unsupported type or
\* domain, and the netlink protocol that is faked and then reported as error.
HandleSocketRefused(t) ==
  \E r \in WaitForSyscall(tr[t], Requests) :
    /\ Caught(t, "socket", r)
    /\ \E res \in {"failure", "error"} : Answer(t, r, res)
    /\ UNCHANGED <<fdVars, cbVars, life, rx, full>>

HandleSocketInet(t) ==
  \E r \in WaitForSyscall(tr[t], Requests), s \in Socks, type \in {"tcp", "udp"} :
    /\ Caught(t, "socket", r)
    /\ life[s] = "fresh"
    /\ life' = [life EXCEPT ![s] = type]
    /\ \/ /\ OutOfFDs(t, r)
          /\ UNCHANGED fdVars
       \/ \E fd \in FDs :
            /\ GetNextFD(fd)
            /\ availableFDs' = availableFDs \ {fd}
            /\ m_sockets' = [m_sockets EXCEPT ![fd] = s]
            /\ m_tcp' = IF type = "tcp" THEN m_tcp \cup {fd} ELSE m_tcp
            /\ Answer(t, r, "success")
            /\ UNCHANGED <<m_fakeAccepted, m_connected, m_listen, m_nonblocking,
                           m_random, m_netlinks>>
    /\ UNCHANGED <<cbVars, rx, full>>

HandleSocketNetlink(t) ==
  \E r \in WaitForSyscall(tr[t], Requests) :
    /\ Caught(t, "socket", r)
    /\ \/ /\ OutOfFDs(t, r)
          /\ UNCHANGED fdVars
       \/ \E fd \in FDs :
            /\ GetNextFD(fd)
            /\ availableFDs' = availableFDs \ {fd}
            /\ m_netlinks' = m_netlinks \cup {fd}
            /\ Answer(t, r, "success")
            /\ UNCHANGED <<m_sockets, m_fakeAccepted, m_tcp, m_connected,
                           m_listen, m_nonblocking, m_random>>
    /\ UNCHANGED <<cbVars, life, rx, full>>

\* HandleOpen and HandleOpenAt of dev/random or dev/urandom.
HandleOpen(t) ==
  \E r \in WaitForSyscall(tr[t], Requests) :
    /\ Caught(t, "open", r)
    /\ \/ /\ OutOfFDs(t, r)
          /\ UNCHANGED fdVars
       \/ \E fd \in FDs :
            /\ GetNextFD(fd)
            /\ availableFDs' = availableFDs \ {fd}
            /\ m_random' = m_random \cup {fd}
            /\ Answer(t, r, "success")
            /\ UNCHANGED <<m_sockets, m_fakeAccepted, m_tcp, m_connected,
                           m_listen, m_nonblocking, m_netlinks>>
    /\ UNCHANGED <<cbVars, life, rx, full>>

\* HandleClose: m_fakeAccepted keeps its entry.  What is in the buffers of the
\* closed socket can no longer be asked for.
HandleClose(t) ==
  \E r \in WaitForSyscall(tr[t], Requests), fd \in FDs :
    /\ Caught(t, "close", r)
    /\ \/ /\ ~FdIsEmulatedSocket(fd)
          /\ PassToKernel(t, r)
          /\ UNCHANGED <<fdVars, life, rx, full>>
       \/ /\ m_sockets[fd] # NoSock
          /\ life' = [life EXCEPT ![m_sockets[fd]] = "closed"]
          /\ rx' = rx \ {m_sockets[fd]}
          /\ full' = full \ {m_sockets[fd]}
          /\ m_sockets' = [m_sockets EXCEPT ![fd] = NoSock]
          /\ m_tcp' = m_tcp \ {fd}
          /\ m_connected' = m_connected \ {fd}
          /\ m_listen' = m_listen \ {fd}
          /\ m_nonblocking' = m_nonblocking \ {fd}
          /\ availableFDs' = availableFDs \cup {fd}
          /\ Answer(t, r, "success")
          /\ UNCHANGED <<m_fakeAccepted, m_random, m_netlinks>>
       \/ /\ fd \in m_netlinks \cup m_random
          /\ m_netlinks' = m_netlinks \ {fd}
          /\ m_random' = m_random \ {fd}
          /\ availableFDs' = availableFDs \cup {fd}
          /\ Answer(t, r, "success")
          /\ UNCHANGED <<m_sockets, m_fakeAccepted, m_tcp, m_connected, m_listen,
                         m_nonblocking, life, rx, full>>
    /\ UNCHANGED cbVars

\* HandleFcntl: only F_SETFL with exactly O_NONBLOCK changes anything.
HandleFcntl(t) ==
  \E r \in WaitForSyscall(tr[t], Requests), fd \in FDs :
    /\ Caught(t, "fcntl", r)
    /\ \/ /\ ~FdIsEmulatedSocket(fd)
          /\ PassToKernel(t, r)
          /\ UNCHANGED m_nonblocking
       \/ /\ m_sockets[fd] # NoSock
          /\ m_nonblocking' \in {m_nonblocking, m_nonblocking \cup {fd}}
          /\ Answer(t, r, "success")
       \/ /\ fd \in m_netlinks
          /\ Answer(t, r, "success")
          /\ UNCHANGED m_nonblocking
       \/ /\ FdIsEmulatedSocket(fd)
          /\ Leave(t, r, "error")
          /\ UNCHANGED m_nonblocking
    /\ UNCHANGED <<availableFDs, m_sockets, m_fakeAccepted, m_tcp, m_connected,
                   m_listen, m_random, m_netlinks, cbVars, life, rx, full>>

\* HandleListen: the descriptor counts as listening even if Listen() fails.
HandleListen(t) ==
  \E r \in WaitForSyscall(tr[t], Requests), fd \in FDs :
    /\ Caught(t, "listen", r)
    /\ \/ /\ fd \notin m_tcp \/ fd \in m_listen
          /\ Answer(t, r, "failure")
          /\ UNCHANGED <<m_listen, life, acceptCb>>
       \/ /\ fd \in m_tcp /\ fd \notin m_listen
          /\ m_listen' = m_listen \cup {fd}
          /\ IF life[m_sockets[fd]] = "tcp"
             THEN /\ life' = [life EXCEPT ![m_sockets[fd]] = "listen"]
                  /\ acceptCb' = [acceptCb EXCEPT ![m_sockets[fd]] =
                                    Callback("default", Main, fd)]
                  /\ Answer(t, r, "success")
             ELSE /\ Answer(t, r, "failure")
                  /\ UNCHANGED <<life, acceptCb>>
    /\ UNCHANGED <<availableFDs, m_sockets, m_fakeAccepted, m_tcp, m_connected,
                   m_nonblocking, m_random, m_netlinks, recvCb, sendCb,
                   connectCb, timer, rx, full>>

\* HandleConnect: the answer comes from one of the two callbacks.  For a UDP
\* socket ns-3 calls the first of them from within Connect().  Without a route
\* Connect() returns -1 and calls neither; the handler ignores its result, and
\* a connection attempt that is under way goes on as if repeated.
HandleConnect(t) ==
  \E r \in WaitForSyscall(tr[t], Requests), fd \in FDs :
    /\ Caught(t, "connect", r)
    /\ \/ /\ m_sockets[fd] = NoSock
          /\ Answer(t, r, "failure")
          /\ UNCHANGED <<m_connected, life, connectCb>>
       \/ /\ m_sockets[fd] # NoSock                \* address not AF_INET
          /\ Leave(t, r, "error")
          /\ UNCHANGED <<m_connected, life, connectCb>>
       \/ /\ m_sockets[fd] # NoSock
          /\ life[m_sockets[fd]] = "udp"
          /\ m_connected' = m_connected \cup {fd}
          /\ connectCb' = [connectCb EXCEPT ![m_sockets[fd]] = Callback("connect", t, fd)]
          /\ Answer(t, r, "success")
          /\ UNCHANGED life
       \/ /\ m_sockets[fd] # NoSock
          /\ "connect" \in Waits
          /\ life[m_sockets[fd]] \in {"tcp", "syn"}
          /\ life' = [life EXCEPT ![m_sockets[fd]] = "syn"]
          /\ connectCb' = [connectCb EXCEPT ![m_sockets[fd]] = Callback("connect", t, fd)]
          /\ Leave(t, r, "delayed")
          /\ UNCHANGED m_connected
       \/ /\ fd \in m_tcp                           \* Connect() returns -1
          /\ {"connect", "no_route"} \subseteq Waits
          /\ life[m_sockets[fd]] # "syn"
          /\ connectCb' = [connectCb EXCEPT ![m_sockets[fd]] = Callback("connect", t, fd)]
          /\ Leave(t, r, "delayed")
          /\ UNCHANGED <<m_connected, life>>
    /\ UNCHANGED <<availableFDs, m_sockets, m_fakeAccepted, m_tcp, m_listen,
                   m_nonblocking, m_random, m_netlinks, recvCb, sendCb, acceptCb,
                   timer, rx, full>>

\* Mutant: the descriptor is not taken out of availableFDs.
MutAcceptedKeepsFree(fd, s) ==
  /\ GetNextFD(fd)
  /\ m_sockets' = [m_sockets EXCEPT ![fd] = s]
  /\ m_tcp' = m_tcp \cup {fd}
  /\ m_connected' = m_connected \cup {fd}
  /\ UNCHANGED <<availableFDs, m_listen, m_nonblocking, m_random, m_netlinks>>

\* The tables after connection s got descriptor fd.
Accepted(fd, s) ==
  /\ GetNextFD(fd)
  /\ availableFDs' = availableFDs \ {fd}
  /\ m_sockets' = [m_sockets EXCEPT ![fd] = s]
  /\ m_tcp' = m_tcp \cup {fd}
  /\ m_connected' = m_connected \cup {fd}
  /\ UNCHANGED <<m_listen, m_nonblocking, m_random, m_netlinks>>

\* Mutant: the connection stays pending after it was accepted.
MutAcceptPendingKept(t) ==
  \E r \in WaitForSyscall(tr[t], Requests), fd \in m_listen, new \in FDs :
    /\ Caught(t, "accept", r)
    /\ m_fakeAccepted[fd] # NoSock
    /\ Accepted(new, m_fakeAccepted[fd])
    /\ Answer(t, r, "success")
    /\ UNCHANGED <<m_fakeAccepted, cbVars, life, rx, full>>

\* HandleAccept, when a connection is pending on the listening descriptor.
HandleAcceptPending(t) ==
  \E r \in WaitForSyscall(tr[t], Requests), fd \in m_listen :
    /\ Caught(t, "accept", r)
    /\ m_fakeAccepted[fd] # NoSock
    /\ m_fakeAccepted' = [m_fakeAccepted EXCEPT ![fd] = NoSock]
    /\ \/ /\ OutOfFDs(t, r)
          /\ UNCHANGED <<availableFDs, m_sockets, m_tcp, m_connected, m_listen,
                         m_nonblocking, m_random, m_netlinks>>
       \/ \E new \in FDs :
            /\ Accepted(new, m_fakeAccepted[fd])
            /\ Answer(t, r, "success")
    /\ UNCHANGED <<cbVars, life, rx, full>>

\* ns-3 may have for the socket of fd what its descriptor waits for: connections
\* when it is marked as listening (Listen() may have failed), data otherwise.
Served(fd) ==
  life[m_sockets[fd]] \in IF fd \in m_listen THEN {"listen"} ELSE Delivering

\* HandleAccept, the other branches: the assertion, EWOULDBLOCK, and the wait.
HandleAcceptNone(t) ==
  \E r \in WaitForSyscall(tr[t], Requests), fd \in FDs :
    /\ Caught(t, "accept", r)
    /\ \/ /\ fd \notin m_listen
          /\ Leave(t, r, "error")
          /\ UNCHANGED acceptCb
       \/ /\ fd \in m_listen \cap m_nonblocking /\ m_fakeAccepted[fd] = NoSock
          /\ Answer(t, r, "failure")
          /\ UNCHANGED acceptCb
       \/ /\ fd \in m_listen \ m_nonblocking /\ m_fakeAccepted[fd] = NoSock
          /\ "accept" \in Waits /\ (Served(fd) \/ "no_peer" \in Waits)
          /\ acceptCb' = [acceptCb EXCEPT ![m_sockets[fd]] = Callback("accept", t, fd)]
          /\ Leave(t, r, "delayed")
    /\ UNCHANGED <<fdVars, recvCb, sendCb, connectCb, timer, life, rx, full>>

\* HandleRead (TCP) and HandleRecvFrom (any ns-3 socket) of socket s.  With
\* data at hand the callback runs at once, and resets the slot at its end; that
\* of recvfrom stops the simulator when SetBsdAddress fails.
Read(t, r, s, fd, kind) ==
  \/ /\ s \in rx
     /\ rx' \in {rx, rx \ {s}}
     /\ recvCb' = [recvCb EXCEPT ![s] = NoCb]
     /\ Answer(t, r, "success")
  \/ /\ s \in rx /\ kind = "recvfrom"
     /\ Leave(t, r, "error")
     /\ UNCHANGED <<rx, recvCb>>
  \/ /\ s \notin rx /\ fd \in m_nonblocking
     /\ Answer(t, r, "failure")
     /\ UNCHANGED <<rx, recvCb>>
  \/ /\ s \notin rx /\ fd \notin m_nonblocking
     /\ kind \in Waits /\ (life[s] \in Delivering \/ "no_peer" \in Waits)
     /\ recvCb' = [recvCb EXCEPT ![s] = Callback(kind, t, fd)]
     /\ Leave(t, r, "delayed")
     /\ UNCHANGED rx

HandleRead(t) ==
  \E r \in WaitForSyscall(tr[t], Requests), fd \in FDs :
    /\ Caught(t, "read", r)
    /\ \/ /\ ~FdIsEmulatedSocket(fd)
          /\ PassToKernel(t, r)
          /\ UNCHANGED <<rx, recvCb>>
       \/ /\ fd \in m_random
          /\ Answer(t, r, "success")
          /\ UNCHANGED <<rx, recvCb>>
       \/ /\ fd \in m_tcp
          /\ Read(t, r, m_sockets[fd], fd, "read")
       \/ /\ fd \in m_netlinks \/ (m_sockets[fd] # NoSock /\ fd \notin m_tcp)
          /\ Leave(t, r, "error")
          /\ UNCHANGED <<rx, recvCb>>
    /\ UNCHANGED <<fdVars, sendCb, acceptCb, connectCb, timer, life, full>>

HandleRecvFrom(t) ==
  \E r \in WaitForSyscall(tr[t], Requests), fd \in FDs :
    /\ Caught(t, "recvfrom", r)
    /\ \/ /\ m_sockets[fd] = NoSock
          /\ Leave(t, r, "error")
          /\ UNCHANGED <<rx, recvCb>>
       \/ /\ m_sockets[fd] # NoSock
          /\ Read(t, r, m_sockets[fd], fd, "recvfrom")
    /\ UNCHANGED <<fdVars, sendCb, acceptCb, connectCb, timer, life, full>>

\* HandleWrite.  The callback of a blocking write reports UNSUPPORTED and
\* returns: it resumes nobody.
HandleWrite(t) ==
  \E r \in WaitForSyscall(tr[t], Requests), fd \in FDs :
    /\ Caught(t, "write", r)
    /\ \/ /\ ~FdIsEmulatedSocket(fd)
          /\ PassToKernel(t, r)
          /\ UNCHANGED <<full, sendCb>>
       \/ /\ FdIsEmulatedSocket(fd) /\ fd \notin m_connected
          /\ Leave(t, r, "error")
          /\ UNCHANGED <<full, sendCb>>
       \/ /\ fd \in m_connected /\ m_sockets[fd] \notin full
          /\ \/ UNCHANGED full
             \/ /\ life[m_sockets[fd]] = "established"    \* not for UDP
                /\ full' = full \cup {m_sockets[fd]}
          /\ \E res \in {"success", "error"} : Answer(t, r, res)
          /\ UNCHANGED sendCb
       \/ /\ fd \in m_connected \cap m_nonblocking /\ m_sockets[fd] \in full
          /\ Answer(t, r, "failure")
          /\ UNCHANGED <<full, sendCb>>
       \/ /\ fd \in m_connected \ m_nonblocking /\ m_sockets[fd] \in full
          /\ "write" \in Waits
          /\ sendCb' = [sendCb EXCEPT ![m_sockets[fd]] = Callback("write", t, fd)]
          /\ Leave(t, r, "delayed")
          /\ UNCHANGED full
    /\ UNCHANGED <<fdVars, recvCb, acceptCb, connectCb, timer, life, rx>>

-----------------------------------------------------------------------------
\* Descriptors select finds ready, and those it has to wait for.
ReadReady(R)  == {fd \in Sockets(R) : m_sockets[fd] \in rx \/ m_fakeAccepted[fd] # NoSock}
WriteReady(W) == {fd \in Sockets(W) : m_sockets[fd] \notin full}

\* HandleSelect, when pass 1 finds something, when the timeout is zero, or
\* when no descriptor is emulated: the answer is immediate.
HandleSelectNow(t) ==
  \E r \in WaitForSyscall(tr[t], Requests), R, W \in SUBSET (FDs \ m_netlinks),
     may_block \in BOOLEAN :
    /\ Caught(t, "select", r)
    /\ may_block => \/ ReadReady(R) \cup WriteReady(W) # {}
                    \/ Sockets(R \cup W) = {}
    /\ Answer(t, r, "success")
    /\ UNCHANGED <<fdVars, cbVars, life, rx, full>>

\* Mutant: the callbacks are not registered.
MutNotRegistered(slots, kind, t, fds) == slots

\* The slots after a select of thread t registered its callbacks: one on the
\* socket of every descriptor in fds.
Register(slots, kind, t, fds) ==
  [s \in Socks |->
     IF \E fd \in fds : m_sockets[fd] = s
     THEN Callback(kind, t, CHOOSE fd \in fds : m_sockets[fd] = s)
     ELSE slots[s]]

\* HandleSelect, when nothing is ready: callbacks on every socket of the sets
\* and, with a finite timeout, the timeout event.
HandleSelectWait(t) ==
  \E r \in WaitForSyscall(tr[t], Requests), R, W \in SUBSET (FDs \ m_netlinks),
     timeout \in BOOLEAN :
    /\ Caught(t, "select", r)
    /\ ReadReady(R) \cup WriteReady(W) = {}
    /\ Sockets(R \cup W) # {}
    /\ Sockets(R) \cap m_listen # {} => "select_listen" \in Waits
    /\ Sockets(R) \ m_listen # {} => "select_recv" \in Waits
    /\ Sockets(W) # {} => "select_send" \in Waits
    /\ (\A fd \in Sockets(R) : Served(fd)) \/ "no_peer" \in Waits
    /\ sendCb' = Register(sendCb, "select_send", t, Sockets(W))
    /\ acceptCb' = Register(acceptCb, "select_listen", t, Sockets(R) \cap m_listen)
    /\ recvCb' = Register(recvCb, "select_recv", t, Sockets(R) \ m_listen)
    /\ timer' = [timer EXCEPT ![t] = timeout]
    /\ Leave(t, r, "delayed")
    /\ UNCHANGED <<fdVars, connectCb, life, rx, full>>

\* HandleSelect with an emulated descriptor in exceptfds: UNSUPPORTED.
HandleSelectExcept(t) ==
  \E r \in WaitForSyscall(tr[t], Requests) :
    /\ Caught(t, "select", r)
    /\ Sockets(FDs) # {}
    /\ Leave(t, r, "error")
    /\ UNCHANGED <<fdVars, cbVars, life, rx, full>>

SelectKinds == {"select_recv", "select_listen", "select_send"}

\* Mutant: already_handled is not set.
MutNotHandled(slots, t) == slots

\* The slots after already_handled was set for the select of thread t.
Handled(slots, t) ==
  [s \in Socks |-> IF slots[s].kind \in SelectKinds /\ slots[s].tid = t
                   THEN NoCb ELSE slots[s]]

\* Mutant: the timeout event is not cancelled.
MutTimeoutNotCancelled(t) ==
  /\ recvCb' = Handled(recvCb, t)
  /\ sendCb' = Handled(sendCb, t)
  /\ acceptCb' = Handled(acceptCb, t)
  /\ UNCHANGED <<connectCb, timer>>

\* already_handled = true and timeout_event->Cancel() in a select callback.
SelectHandled(t) ==
  /\ recvCb' = Handled(recvCb, t)
  /\ sendCb' = Handled(sendCb, t)
  /\ acceptCb' = Handled(acceptCb, t)
  /\ timer' = [timer EXCEPT ![t] = FALSE]
  /\ UNCHANGED connectCb

\* Mutant: the timeout does not set already_handled.
MutTimeoutNotHandled(t) ==
  /\ Running /\ timer[t]
  /\ timer' = [timer EXCEPT ![t] = FALSE]
  /\ Resume(t)
  /\ UNCHANGED <<fdVars, recvCb, sendCb, acceptCb, connectCb, life, rx, full>>

\* The timeout event of select.
SelectTimeout(t) ==
  /\ Running /\ timer[t]
  /\ SelectHandled(t)
  /\ Resume(t)
  /\ UNCHANGED <<fdVars, life, rx, full>>

-----------------------------------------------------------------------------
\* ns-3 has data for socket s and runs the receive callback.
Receive(s) ==
  /\ Running
  /\ life[s] \in Delivering
  /\ LET cb == recvCb[s] IN
     \/ /\ cb.kind = "null"
        /\ rx' = rx \cup {s}
        /\ UNCHANGED <<tr, ready, pid, sim, cbVars>>
     \/ /\ cb.kind \in {"read", "recvfrom"}
        /\ rx' \in {rx \cup {s}, rx \ {s}}
        /\ recvCb' = [recvCb EXCEPT ![s] = NoCb]
        /\ Resume(cb.tid)
        /\ UNCHANGED <<sendCb, acceptCb, connectCb, timer>>
     \/ /\ cb.kind = "recvfrom"             \* SetBsdAddress fails
        /\ ProcessStatusCode("error", cb.tid, ready)
        /\ UNCHANGED <<rx, tr, pid, cbVars>>
     \/ /\ cb.kind = "select_recv"
        /\ rx' = rx \cup {s}
        /\ SelectHandled(cb.tid)
        /\ ResumeThisPid(cb.tid)
  /\ UNCHANGED <<fdVars, life, full>>

\* ns-3 has space in the send buffer of s again and runs the send callback.
Drain(s) ==
  /\ Running
  /\ s \in full
  /\ full' = full \ {s}
  /\ LET cb == sendCb[s] IN
     \/ /\ cb.kind \in {"null", "write"}
        /\ UNCHANGED <<tr, ready, pid, sim, cbVars>>
     \/ /\ cb.kind = "select_send"
        /\ SelectHandled(cb.tid)
        /\ Resume(cb.tid)
  /\ UNCHANGED <<fdVars, life, rx>>

\* Mutant: the failure callback also marks the descriptor as connected.
MutConnectFailedConnected(s) ==
  /\ Running
  /\ life[s] = "syn"
  /\ life' \in {[life EXCEPT ![s] = l] : l \in {"established", "tcp"}}
  /\ m_connected' = m_connected \cup {connectCb[s].fd}
  /\ Resume(connectCb[s].tid)
  /\ UNCHANGED <<availableFDs, m_sockets, m_fakeAccepted, m_tcp, m_listen,
                 m_nonblocking, m_random, m_netlinks, cbVars, rx, full>>

\* Mutant: the callback marks the ns-3 socket, not the descriptor it captured.
MutConnectMarksSocket(s) ==
  /\ Running
  /\ life[s] = "syn"
  /\ life' = [life EXCEPT ![s] = "established"]
  /\ m_connected' = m_connected \cup {s}
  /\ Resume(connectCb[s].tid)
  /\ UNCHANGED <<availableFDs, m_sockets, m_fakeAccepted, m_tcp, m_listen,
                 m_nonblocking, m_random, m_netlinks, cbVars, rx, full>>

\* ns-3 reports the outcome of Connect().
ConnectDone(s) ==
  /\ Running
  /\ life[s] = "syn"
  /\ \/ /\ life' = [life EXCEPT ![s] = "established"]
        /\ m_connected' = m_connected \cup {connectCb[s].fd}
     \/ /\ life' = [life EXCEPT ![s] = "tcp"]
        /\ UNCHANGED m_connected
  /\ Resume(connectCb[s].tid)
  /\ UNCHANGED <<availableFDs, m_sockets, m_fakeAccepted, m_tcp, m_listen,
                 m_nonblocking, m_random, m_netlinks, cbVars, rx, full>>

\* A connection s to listener l is complete and the accept callback of l runs.
Incoming(l, s) ==
  /\ Running
  /\ life[l] = "listen" /\ life[s] = "fresh"
  /\ life' = [life EXCEPT ![s] = "established"]
  /\ LET cb == acceptCb[l] IN
     \/ /\ cb.kind = "null"
        /\ UNCHANGED <<tr, ready, pid, sim, fdVars, cbVars>>
     \/ /\ cb.kind = "default"
        /\ m_fakeAccepted' = [m_fakeAccepted EXCEPT ![cb.fd] = s]
        /\ UNCHANGED <<tr, ready, pid, sim, availableFDs, m_sockets, m_tcp,
                       m_connected, m_listen, m_nonblocking, m_random,
                       m_netlinks, cbVars>>
     \/ /\ cb.kind = "select_listen"        \* the restored default is replaced
        /\ m_fakeAccepted' = [m_fakeAccepted EXCEPT ![cb.fd] = s]
        /\ SelectHandled(cb.tid)
        /\ Resume(cb.tid)
        /\ UNCHANGED <<availableFDs, m_sockets, m_tcp, m_connected, m_listen,
                       m_nonblocking, m_random, m_netlinks>>
     \/ /\ cb.kind = "accept"               \* the callback stays registered
        /\ \/ /\ availableFDs = {}
              /\ sim' = "ended"
              /\ UNCHANGED <<tr, ready, pid, fdVars>>
           \/ /\ \E new \in FDs : Accepted(new, s)
              /\ ResumeThisPid(cb.tid)
              /\ UNCHANGED m_fakeAccepted
        /\ UNCHANGED cbVars
  /\ UNCHANGED <<rx, full>>

HandleSyscallBefore(t) ==
  \/ HandleSocketRefused(t) \/ HandleSocketInet(t) \/ HandleSocketNetlink(t)
  \/ HandleOpen(t) \/ HandleClose(t) \/ HandleFcntl(t)
  \/ HandleListen(t) \/ HandleConnect(t)
  \/ HandleAcceptPending(t) \/ HandleAcceptNone(t)
  \/ HandleRead(t) \/ HandleRecvFrom(t) \/ HandleWrite(t)
  \/ HandleSelectNow(t) \/ HandleSelectWait(t) \/ HandleSelectExcept(t)

Next ==
  \/ \E t \in Threads : HandleSyscallBefore(t) \/ SelectTimeout(t)
  \/ \E s \in Socks : Receive(s) \/ Drain(s) \/ ConnectDone(s)
  \/ \E l, s \in Socks : Incoming(l, s)

Spec == Init /\ [][Next]_vars

-----------------------------------------------------------------------------
\* The variables hold values of their kind.
TypeOK ==
  /\ tr \in [Threads -> [stop : Stops, call : Requests \cup {NoCall, GetPid}, ans : Answers]]
  /\ ready \in [Threads -> Nat]
  /\ pid \in Threads
  /\ sim \in {"running", "ended"}
  /\ availableFDs \subseteq FDs
  /\ m_sockets \in [FDs -> Socks \cup {NoSock}]
  /\ m_fakeAccepted \in [FDs -> Socks \cup {NoSock}]
  /\ m_tcp \subseteq FDs /\ m_connected \subseteq FDs
  /\ m_listen \subseteq FDs /\ m_nonblocking \subseteq FDs
  /\ m_random \subseteq FDs /\ m_netlinks \subseteq FDs
  /\ life \in [Socks -> Lives]
  /\ rx \subseteq Socks /\ full \subseteq Socks
  /\ \A slots \in {recvCb, sendCb, acceptCb, connectCb} :
       slots \in [Socks -> [kind : Kinds, tid : Threads, fd : FDs \cup {0}]]
  /\ timer \in [Threads -> BOOLEAN]

(***************************************************************************)
(* A descriptor is free, a socket, a netlink socket or a random device,    *)
(* and only one of these, whatever is opened, accepted and closed by any   *)
(* thread or callback.                                                     *)
(***************************************************************************)
FdPartition ==
  \A fd \in FDs :
    /\ fd \in availableFDs <=> ~FdIsEmulatedSocket(fd)
    /\ fd \in m_random => fd \notin m_netlinks /\ m_sockets[fd] = NoSock
    /\ fd \in m_netlinks => m_sockets[fd] = NoSock

(***************************************************************************)
(* The socket state sets describe the socket that holds the descriptor     *)
(* now, not one that held it before: only TCP sockets listen, a connected  *)
(* descriptor is a socket ns-3 has connected, none is in a set when free.  *)
(***************************************************************************)
FdSetsCurrent ==
  /\ m_nonblocking \subseteq Sockets(FDs)
  /\ m_listen \subseteq m_tcp
  /\ \A fd \in m_tcp : m_sockets[fd] # NoSock /\ life[m_sockets[fd]] # "udp"
  /\ \A fd \in m_connected :
       m_sockets[fd] # NoSock /\ life[m_sockets[fd]] \in {"udp", "established"}

(***************************************************************************)
(* An ns-3 socket belongs to one place: two descriptors never share it,    *)
(* a connection is pending or has a descriptor but not both, and no table  *)
(* holds a socket of which the application has closed the descriptor.      *)
(***************************************************************************)
OneOwner ==
  /\ \A f, g \in Sockets(FDs) : m_sockets[f] = m_sockets[g] => f = g
  /\ \A f, g \in FDs :
       m_fakeAccepted[f] # NoSock =>
         /\ m_fakeAccepted[f] # m_sockets[g]
         /\ m_fakeAccepted[f] = m_fakeAccepted[g] => f = g
  /\ \A f \in Sockets(FDs) : life[m_sockets[f]] \notin {"fresh", "closed"}

(***************************************************************************)
(* Handlers, callbacks and ptrace stops stay in step: a thread at an exit  *)
(* stop has exactly one HandleSyscallBefore event, and a thread that waits *)
(* at an entry stop has none.                                              *)
(***************************************************************************)
InStep ==
  sim = "running" =>
    \A t \in Threads : ready[t] = IF tr[t].stop = "user" THEN 1 ELSE 0

(***************************************************************************)
(* "FAKE waits for kernel's answer to a priv. issued syscall and replaces  *)
(* kernel's answer" (ptrace-utils.h): what is faked is a call the thread   *)
(* has issued, so the thread is at the exit of that call afterwards.       *)
(***************************************************************************)
FakeAnswersIssuedCall ==
  \A t \in Threads : tr[t].ans = "sim" => tr[t].stop = "user"

(***************************************************************************)
(* "Used for callbacks with saved_pid" (ptrace-utils.h, FAKE4): a callback *)
(* answers the thread that registered it, and that thread is resumed only  *)
(* with its call answered.                                                 *)
(***************************************************************************)
ResumedThreadIsAnswered ==
  \A t \in Threads : ready[t] > 0 => tr[t].stop = "user"

\* A callback or timer that resumes thread t from the named call is registered.
Registered(t, name) ==
  \/ /\ name \in {"read", "recvfrom"}
     /\ \E s \in Socks : recvCb[s].kind = name /\ recvCb[s].tid = t
  \/ /\ name = "connect"
     /\ \E s \in Socks : life[s] = "syn" /\ connectCb[s].tid = t
  \/ /\ name = "accept"
     /\ \E s \in Socks : acceptCb[s].kind = "accept" /\ acceptCb[s].tid = t
  \/ /\ name = "select"
     /\ \/ timer[t]
        \/ \E s \in Socks, slots \in {recvCb, sendCb, acceptCb} :
             slots[s].kind \in SelectKinds /\ slots[s].tid = t

(***************************************************************************)
(* What can still resume a thread belongs to the call the thread waits in: *)
(* no callback or timeout of an answered call is left behind to fake the   *)
(* next one.                                                               *)
(***************************************************************************)
NoStrayWakeup ==
  \A t \in Threads, name \in Calls :
    Registered(t, name) => tr[t].stop = "entry" /\ tr[t].call[1] = name

\* There is an event of ns-3, possible in this state, that runs a callback or
\* timeout with which thread t returns from the named call.
Armed(t, name) ==
  \/ /\ name \in {"read", "recvfrom"}
     /\ \E s \in Socks :
          life[s] \in Delivering /\ recvCb[s].kind = name /\ recvCb[s].tid = t
  \/ /\ name = "connect"
     /\ \E s \in Socks : life[s] = "syn" /\ connectCb[s].tid = t
  \/ /\ name = "accept"
     /\ \E s \in Socks :
          life[s] = "listen" /\ acceptCb[s].kind = "accept" /\ acceptCb[s].tid = t
  \/ /\ name = "select"
     /\ \/ timer[t]
        \/ \E s \in Socks :
             \/ /\ life[s] \in Delivering
                /\ recvCb[s].kind = "select_recv" /\ recvCb[s].tid = t
             \/ /\ life[s] = "listen"
                /\ acceptCb[s].kind = "select_listen" /\ acceptCb[s].tid = t
             \/ s \in full /\ sendCb[s].kind = "select_send" /\ sendCb[s].tid = t

(***************************************************************************)
(* "do nothing, handler is expected to register required events"           *)
(* (grail.cc, ProcessStatusCode): a thread whose call is delayed can be    *)
(* resumed by an event of ns-3 or a timer, not only by a callback on a     *)
(* socket that has nothing to run it for.                                  *)
(***************************************************************************)
NoThreadForgotten ==
  sim = "running" =>
    \A t \in Threads : tr[t].stop = "entry" => Armed(t, tr[t].call[1])

\* The calls at whose entry threads wait, and what can resume them.
WaitsOf ==
  [t \in Threads |-> IF sim = "running" /\ tr[t].stop = "entry" THEN tr[t].call[1] ELSE "none"]
WakersOf ==
  {w \in Threads \X CallNames : sim = "running" /\ Armed(w[1], w[2])}

Blocking == INSTANCE BlockingCalls
  WITH Names <- CallNames, Endless <- {"write"},
       waits <- WaitsOf, wakers <- WakersOf, running <- (sim = "running")

(***************************************************************************)
(* Handlers and callbacks implement blocking calls: no wait begins without *)
(* an event of ns-3 or a timeout that can end it, each is ended by one of  *)
(* them, which takes the others along (already_handled, the reset of the   *)
(* slot), and no callback ends or loses the wait of another thread.        *)
(***************************************************************************)
ImplementsCalls == Blocking!Spec

(***************************************************************************)
(* "restore default callback handling" (grail.cc, HandleSelect): once a    *)
(* select on a listener is over, a connection that arrives while none is   *)
(* pending becomes pending, as it would have before the select.            *)
(***************************************************************************)
NoConnectionDropped ==
  [][\A s \in Socks :
       /\ life[s] = "fresh" /\ life'[s] = "established"
       /\ \A fd \in FDs : m_fakeAccepted[fd] = NoSock
       => \E fd \in FDs : s \in {m_sockets'[fd], m_fakeAccepted'[fd]}]_vars

(***************************************************************************)
(* "remove from all socket state sets" (grail.cc, HandleClose): a pending  *)
(* connection belongs to the listener it came to.                          *)
(***************************************************************************)
PendingOnListeners ==
  \A fd \in FDs : m_fakeAccepted[fd] # NoSock => fd \in m_listen
=============================================================================
