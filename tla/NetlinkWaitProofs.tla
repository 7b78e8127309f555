-------------------------- MODULE NetlinkWaitProofs --------------------------
(***************************************************************************)
(* The netlink sockets of Netlink for every set of threads, descriptors    *)
(* and sends, and every number of devices: what is queued, and who waits   *)
(* for it.                                                                 *)
(***************************************************************************)
EXTENDS NetlinkProofs, TracerProofs

Tracee  == TraceeOf(Requests \cup {NoCall, GetPid})
Replies == {"getlink", "getaddr", "done", "ack"}
NlSocks == [pid : Threads \cup {NoOne}, reply_queue : Seq(Replies),
            recv_callback : Threads \cup {NoOne}]

\* The sockets s are well formed: one that is open has a creator.
SocksOK(s) ==
  /\ s \in [FDs -> NlSocks]
  /\ \A fd \in FDs : s[fd] = NoNetlink \/ s[fd].pid \in Threads

SenderOK == sender = NoSend \/ (sender \in [tid : Threads, fd : FDs] /\ sender.fd \in Open)

TracerTypes ==
  /\ tr \in [Threads -> Tracee]
  /\ ready \in [Threads -> Nat]
  /\ pid \in Threads
  /\ sim \in {"running", "ended"}

\* The types of what the handlers of netlink sockets change, but for the table.
WaitTypes ==
  /\ TracerTypes
  /\ SocksOK(m_netlinks)
  /\ armed \in [Threads -> BOOLEAN]
  /\ SenderOK

-----------------------------------------------------------------------------
\* A closed descriptor has the state of a socket, and every call can be made.
LEMMA RequestTypes ==
  /\ NoNetlink \in NlSocks
  /\ \A name \in Calls : <<name, "netlink">> \in Requests /\ <<name, "netlink">>[1] = name
<1>1. << >> \in Seq(Replies)
  OBVIOUS
<1> QED BY <1>1 DEF NoNetlink, NlSocks, Requests

\* The state a handler catches the thread in that makes the call name.
LEMMA CaughtTracee ==
  ASSUME NEW t \in Threads, tr[t] \in Tracee, NEW name \in Calls, NEW r \in Caught(t, name)
  PROVE  /\ r \in Tracee
         /\ tr[t].stop = "user" => r.stop = "entry" /\ r.call[1] = name
<1>1. r \in WaitForSyscall(tr[t], {<<name, "netlink">>}) /\ r.call[1] = name
  BY DEF Caught
<1>2. {<<name, "netlink">>} \in SUBSET (Requests \cup {NoCall, GetPid})
  BY RequestTypes
<1> QED BY <1>1, <1>2, WaitTracee DEF Tracee

\* A FAKE leaves a thread that is not in user code at the exit of its call.
LEMMA FakedThread ==
  ASSUME NEW r \in Tracee, NEW w \in Fake(r, Requests)
  PROVE  w \in Tracee /\ (r.stop # "user" => w.stop = "user")
<1>1. /\ Requests \in SUBSET (Requests \cup {NoCall, GetPid})
      /\ GetPid \in Requests \cup {NoCall, GetPid}
  OBVIOUS
<1> QED BY <1>1, FakeTracee DEF Tracee

\* Replies come into the queue of an open socket; nothing else changes.
LEMMA QueuedSocks ==
  ASSUME SocksOK(m_netlinks), NEW fd \in Open, NEW replies \in Seq(Replies)
  PROVE  /\ SocksOK(Queued(fd, replies))
         /\ \A f \in FDs :
              /\ Queued(fd, replies)[f].pid = m_netlinks[f].pid
              /\ Queued(fd, replies)[f].recv_callback = m_netlinks[f].recv_callback
              /\ Queued(fd, replies)[f].reply_queue =
                   IF f = fd THEN m_netlinks[fd].reply_queue \o replies
                             ELSE m_netlinks[f].reply_queue
              /\ m_netlinks[f] # NoNetlink => Queued(fd, replies)[f] # NoNetlink
<1>1. fd \in FDs /\ m_netlinks[fd] # NoNetlink /\ m_netlinks[fd].pid \in Threads
  BY DEF Open, SocksOK
<1>2. m_netlinks[fd].reply_queue \o replies \in Seq(Replies)
  BY <1>1 DEF SocksOK, NlSocks
<1>3. ASSUME NEW f \in FDs
      PROVE  /\ Queued(fd, replies)[f] \in NlSocks
             /\ Queued(fd, replies)[f].pid = m_netlinks[f].pid
             /\ Queued(fd, replies)[f].recv_callback = m_netlinks[f].recv_callback
             /\ Queued(fd, replies)[f].reply_queue =
                  IF f = fd THEN m_netlinks[fd].reply_queue \o replies
                            ELSE m_netlinks[f].reply_queue
             /\ f # fd => Queued(fd, replies)[f] = m_netlinks[f]
  BY <1>1, <1>2 DEF Queued, SocksOK, NlSocks
<1>4. Queued(fd, replies)[fd] # NoNetlink
  BY <1>1, <1>3, NoOneAssumption DEF NoNetlink
<1>5. Queued(fd, replies) \in [FDs -> NlSocks]
  <2>1. Queued(fd, replies) = [f \in FDs |-> Queued(fd, replies)[f]]
    BY DEF Queued, SocksOK
  <2> QED BY <1>3, <2>1
<1> QED BY <1>1, <1>3, <1>4, <1>5 DEF SocksOK

\* No socket keeps the callback of a select that was handled.
LEMMA HandledSocks ==
  ASSUME NEW s, SocksOK(s), NEW t \in Threads
  PROVE  /\ SocksOK(Handled(s, t))
         /\ \A f \in FDs :
              /\ Handled(s, t)[f].pid = s[f].pid
              /\ Handled(s, t)[f].reply_queue = s[f].reply_queue
              /\ Handled(s, t)[f].recv_callback =
                   IF s[f].recv_callback = t THEN NoOne ELSE s[f].recv_callback
              /\ s[f] # NoNetlink => Handled(s, t)[f] # NoNetlink
<1>1. ASSUME NEW f \in FDs
      PROVE  /\ Handled(s, t)[f] \in NlSocks
             /\ Handled(s, t)[f].pid = s[f].pid
             /\ Handled(s, t)[f].reply_queue = s[f].reply_queue
             /\ Handled(s, t)[f].recv_callback =
                  IF s[f].recv_callback = t THEN NoOne ELSE s[f].recv_callback
  BY DEF Handled, SocksOK, NlSocks
<1>2. ASSUME NEW f \in FDs, s[f] # NoNetlink
      PROVE  Handled(s, t)[f] # NoNetlink /\ Handled(s, t)[f].pid \in Threads
  BY <1>1, <1>2, NoOneAssumption DEF SocksOK, NoNetlink
<1>3. ASSUME NEW f \in FDs, s[f] = NoNetlink
      PROVE  Handled(s, t)[f] = NoNetlink
  <2>1. s[f].recv_callback = NoOne /\ NoOne # t
    BY <1>3, NoOneAssumption DEF NoNetlink
  <2> QED BY <1>3, <2>1 DEF Handled
<1>4. Handled(s, t) \in [FDs -> NlSocks]
  <2>1. Handled(s, t) = [f \in FDs |-> Handled(s, t)[f]]
    BY DEF Handled
  <2> QED BY <1>1, <2>1
<1> QED BY <1>1, <1>2, <1>3, <1>4 DEF SocksOK

-----------------------------------------------------------------------------
\* Thread t moves from user code to the exit of a call it has made in between.
Answered(t) ==
  \E w \in Tracee : w.stop = "user" /\ tr' = [tr EXCEPT ![t] = w]

\* An event that is answered at once is followed by another.
LEMMA Rescheduled ==
  ASSUME TracerTypes, NEW t \in Threads, Event(t),
         ProcessStatusCode("success", t, Consumed(ready, t))
  PROVE  ready' = ready /\ sim' = sim
  BY EventsAfter DEF TracerTypes, Event, ProcessStatusCode

\* FAKE in a handler of grail.cc.
LEMMA AnswerEffect ==
  ASSUME TracerTypes, NEW t \in Threads, Event(t), pid' = t,
         NEW name \in Calls, NEW r \in Caught(t, name), Answer(t, r)
  PROVE  /\ TracerTypes' /\ ready' = ready /\ sim' = sim
         /\ tr[t].stop = "user" => Answered(t)
<1>1. r \in Tracee /\ (tr[t].stop = "user" => r.stop = "entry")
  BY CaughtTracee DEF TracerTypes
<1>2. PICK w \in Fake(r, Requests) : tr' = [tr EXCEPT ![t] = w]
  BY DEF Answer
<1>3. w \in Tracee /\ (r.stop # "user" => w.stop = "user")
  BY <1>1, FakedThread
<1>4. ready' = ready /\ sim' = sim
  BY Rescheduled DEF Answer
<1> QED BY <1>1, <1>2, <1>3, <1>4 DEF TracerTypes, Answered

\* FAKE in a member of NetlinkSocket: right if the creator has made the call.
LEMMA AnswerCreatorEffect ==
  ASSUME TracerTypes, NEW t \in Threads, Event(t), pid' = t,
         SocksOK(m_netlinks), NEW fd \in FDs, MayUse(t, fd),
         NEW name \in Calls, NEW r \in Caught(t, name), AnswerCreator(t, r, fd)
  PROVE  /\ TracerTypes' /\ ready' = ready /\ sim' = sim
         /\ tr[t].stop = "user" /\ m_netlinks[fd].pid = t => Answered(t)
<1> DEFINE c == m_netlinks[fd].pid
           q == [tr EXCEPT ![t] = r]
<1>1. r \in Tracee /\ (tr[t].stop = "user" => r.stop = "entry")
  BY CaughtTracee DEF TracerTypes
<1>2. c \in Threads
  BY DEF MayUse, Open, SocksOK
<1>3. PICK w \in Fake(q[c], Requests) : tr' = [q EXCEPT ![c] = w]
  BY DEF AnswerCreator, FakeCreator
<1>4. q \in [Threads -> Tracee] /\ q[t] = r
  BY <1>1 DEF TracerTypes
<1> HIDE DEF c
<1>5. w \in Tracee /\ (q[c].stop # "user" => w.stop = "user")
  BY <1>2, <1>4, FakedThread
<1>6. ready' = ready /\ sim' = sim
  BY Rescheduled DEF AnswerCreator
<1>7. c = t => tr' = [tr EXCEPT ![t] = w]
  BY <1>3
<1>8. tr' \in [Threads -> Tracee]
  BY <1>2, <1>3, <1>4, <1>5
<1> QED BY <1>1, <1>4, <1>5, <1>6, <1>7, <1>8 DEF TracerTypes, Answered, c

\* A handler without an answer leaves the thread at its call, without an event.
LEMMA HeldEffect ==
  ASSUME TracerTypes, NEW t \in Threads, Event(t), pid' = t,
         NEW name \in Calls, NEW r \in Caught(t, name),
         tr' = [tr EXCEPT ![t] = r], ready' = Consumed(ready, t),
         sim' \in {"running", "ended"}
  PROVE  /\ TracerTypes'
         /\ ready' = [ready EXCEPT ![t] = ready[t] - 1]
         /\ tr[t].stop = "user" => tr'[t].stop = "entry" /\ tr'[t].call[1] = name
<1>1. r \in Tracee /\ (tr[t].stop = "user" => r.stop = "entry" /\ r.call[1] = name)
  BY CaughtTracee DEF TracerTypes
<1>2. ready' = [ready EXCEPT ![t] = ready[t] - 1]
  BY DEF Consumed
<1>3. ready[t] - 1 \in Nat
  BY DEF TracerTypes, Event
<1> QED BY <1>1, <1>2, <1>3 DEF TracerTypes

\* A callback answers the select of thread t.
LEMMA ResumeEffect ==
  ASSUME TracerTypes, NEW t \in Threads, Resume(t)
  PROVE  /\ TracerTypes' /\ sim' = sim
         /\ ready' = [ready EXCEPT ![t] = ready[t] + 1]
         /\ tr[t].stop = "entry" => Answered(t)
<1>1. PICK w \in Fake(tr[t], Requests) : tr' = [tr EXCEPT ![t] = w]
  BY DEF Resume
<1>2. w \in Tracee /\ (tr[t].stop # "user" => w.stop = "user")
  BY FakedThread DEF TracerTypes
<1>3. sim' = sim /\ ready' = [ready EXCEPT ![t] = ready[t] + 1] /\ pid' = pid
  BY DEF Resume, ProcessStatusCode, Scheduled
<1>4. ready[t] + 1 \in Nat
  BY DEF TracerTypes
<1> QED BY <1>1, <1>2, <1>3, <1>4 DEF TracerTypes, Answered

\* The replies of a dump.
LEMMA DumpReplies ==
  ASSUME NEW kind \in {"getlink", "getaddr"}
  PROVE  /\ Dump(kind) \in Seq(Replies)
         /\ \A i \in 1 .. Len(Dump(kind)) :
              Dump(kind)[i] = kind =>
                i < Len(Dump(kind)) /\ Dump(kind)[i + 1] \in {kind, "done"}
         /\ \A i \in 1 .. Len(Dump(kind)) : Dump(kind)[i] \in {kind, "done"}
<1> DEFINE n == IF nDevices = 0 THEN 0 ELSE nDevices + 1
<1>1. n \in Nat /\ nDevices \in Nat
  BY DevicesAssumption
<1>2. Dump(kind) = [i \in 1 .. n |-> IF i <= nDevices THEN kind ELSE "done"]
  BY DEF Dump
<1>3. \A i \in 1 .. n : (IF i <= nDevices THEN kind ELSE "done") \in Replies
  BY DEF Replies
<1>4. Dump(kind) \in Seq(Replies) /\ Len(Dump(kind)) = n
  BY <1>1, <1>2, <1>3
<1>5. \A i \in 1 .. n : i <= nDevices => i < n /\ i + 1 \in 1 .. n
  BY <1>1
<1> QED BY <1>1, <1>2, <1>4, <1>5

-----------------------------------------------------------------------------
LEMMA InitWaitTypes == Init => WaitTypes
<1> SUFFICES ASSUME Init PROVE WaitTypes
  OBVIOUS
<1>1. TracerTypes
  <2>1. Fresh \in Tracee
    BY DEF Fresh, Tracee, TraceeOf, Stops, Answers
  <2> QED BY <2>1, ThreadsAssumption DEF Init, TracerTypes
<1>2. SocksOK(m_netlinks)
  BY RequestTypes DEF Init, SocksOK
<1> QED BY <1>1, <1>2 DEF Init, WaitTypes, SenderOK

\* The calls the handlers below are named after.
LEMMA CallNames ==
  {"socket", "bind", "getsockname", "sendto", "sendmsg", "recvmsg",
   "select", "close", "unsupported"} \subseteq Calls
  BY DEF Calls

\* The handlers that answer at once: no event comes or goes.
LEMMA AnsweringHandlers ==
  ASSUME WaitTypes, NEW t \in Threads,
         \/ HandleSocket(t) \/ HandleClose(t) \/ HandleAddress(t)
         \/ HandleRecvMsgEmpty(t) \/ HandleRecvMsg(t) \/ HandleSelectNow(t)
  PROVE  /\ TracerTypes' /\ ready' = ready /\ sim' = sim
         /\ Event(t) /\ sender = NoSend /\ sender' = NoSend /\ armed' = armed
         /\ tr[t].stop = "user" /\ ~Sharing => Answered(t)
<1>1. TracerTypes /\ SocksOK(m_netlinks)
  BY DEF WaitTypes
<1>2. CASE HandleSocket(t) \/ HandleClose(t) \/ HandleSelectNow(t)
  <2>1. PICK name \in {"socket", "close", "select"} : \E r \in Caught(t, name) :
          Begins(t) /\ Answer(t, r) /\ sender' = sender /\ armed' = armed
    BY <1>2 DEF HandleSocket, HandleClose, HandleSelectNow, nlVars
  <2> QED BY <1>1, <2>1, CallNames, AnswerEffect DEF Begins, Idle
<1>3. CASE HandleAddress(t) \/ HandleRecvMsgEmpty(t) \/ HandleRecvMsg(t)
  <2>1. PICK name \in {"bind", "getsockname", "recvmsg"} :
          \E r \in Caught(t, name), fd \in FDs :
             /\ Begins(t) /\ MayUse(t, fd) /\ AnswerCreator(t, r, fd)
             /\ sender' = sender /\ armed' = armed
    BY <1>3 DEF HandleAddress, HandleRecvMsgEmpty, HandleRecvMsg, nlVars
  <2>2. \A fd \in FDs : MayUse(t, fd) /\ ~Sharing => m_netlinks[fd].pid = t
    BY DEF MayUse
  <2> QED BY <1>1, <2>1, <2>2, CallNames, AnswerCreatorEffect DEF Begins, Idle
<1> QED BY <1>2, <1>3

(***************************************************************************)
(* What a step may do to the reply queue and the callback of a socket:     *)
(* nothing but to end a wait, or to begin one when the queue is empty;     *)
(* open or close the socket; fetch a reply; queue a dump and end the wait; *)
(* queue an acknowledgement.                                               *)
(***************************************************************************)
QueueStep(fd) ==
  LET old == m_netlinks[fd]
      new == m_netlinks'[fd]
  IN \/ /\ new.reply_queue = old.reply_queue
        /\ new.recv_callback \in {old.recv_callback, NoOne} \/ old.reply_queue = << >>
     \/ new.reply_queue = << >> /\ new.recv_callback = NoOne
     \/ /\ old.reply_queue # << >> /\ new.reply_queue = Tail(old.reply_queue)
        /\ new.recv_callback = old.recv_callback
     \/ /\ \E kind \in {"getlink", "getaddr"} :
             new.reply_queue = old.reply_queue \o Dump(kind)
        /\ new.recv_callback = NoOne
     \/ /\ new.reply_queue = old.reply_queue \o <<"ack">>
        /\ new.recv_callback = old.recv_callback

\* What the handlers that answer at once do to the sockets.
LEMMA AnsweringHandlersSocks ==
  ASSUME WaitTypes, NEW t \in Threads,
         \/ HandleSocket(t) \/ HandleClose(t) \/ HandleAddress(t)
         \/ HandleRecvMsgEmpty(t) \/ HandleRecvMsg(t) \/ HandleSelectNow(t)
  PROVE  /\ SocksOK(m_netlinks')
         /\ \A fd \in FDs :
              /\ QueueStep(fd)
              /\ m_netlinks'[fd].recv_callback \in {m_netlinks[fd].recv_callback, NoOne}
<1>1. SocksOK(m_netlinks)
  BY DEF WaitTypes
<1>2. CASE HandleSocket(t)
  <2>1. PICK fd \in FDs : m_netlinks' = [m_netlinks EXCEPT ![fd] = [NoNetlink EXCEPT !.pid = t]]
    BY <1>2 DEF HandleSocket
  <2>2. [NoNetlink EXCEPT !.pid = t] = [pid |-> t, reply_queue |-> << >>, recv_callback |-> NoOne]
    BY DEF NoNetlink
  <2>3. [NoNetlink EXCEPT !.pid = t] \in NlSocks
    BY <2>2, RequestTypes DEF NlSocks, NoNetlink
  <2> QED BY <1>1, <2>1, <2>2, <2>3 DEF SocksOK, QueueStep
<1>3. CASE HandleClose(t)
  <2>1. PICK fd \in FDs : m_netlinks' = [m_netlinks EXCEPT ![fd] = NoNetlink]
    BY <1>3 DEF HandleClose, Open
  <2> QED BY <1>1, <2>1, RequestTypes DEF SocksOK, NoNetlink, QueueStep
<1>4. CASE HandleAddress(t) \/ HandleRecvMsgEmpty(t) \/ HandleSelectNow(t)
  BY <1>1, <1>4 DEF HandleAddress, HandleRecvMsgEmpty, HandleSelectNow, nlVars, QueueStep
<1>5. CASE HandleRecvMsg(t)
  <2>1. PICK fd \in FDs :
          /\ MayUse(t, fd) /\ HasData(fd)
          /\ m_netlinks' = [m_netlinks EXCEPT ![fd].reply_queue = Tail(@)]
    BY <1>5 DEF HandleRecvMsg
  <2>2. /\ m_netlinks[fd] \in NlSocks /\ m_netlinks[fd].pid \in Threads
        /\ m_netlinks[fd].reply_queue # << >>
    BY <1>1, <2>1 DEF MayUse, Open, HasData, SocksOK
  <2>3. Tail(m_netlinks[fd].reply_queue) \in Seq(Replies)
    BY <2>2 DEF NlSocks
  <2>4. /\ m_netlinks'[fd] \in NlSocks /\ m_netlinks'[fd].pid \in Threads
        /\ m_netlinks'[fd].reply_queue = Tail(m_netlinks[fd].reply_queue)
        /\ m_netlinks'[fd].recv_callback = m_netlinks[fd].recv_callback
        /\ \A f \in FDs \ {fd} : m_netlinks'[f] = m_netlinks[f]
    BY <1>1, <2>1, <2>2, <2>3 DEF SocksOK, NlSocks
  <2>5. m_netlinks' \in [FDs -> NlSocks]
    BY <1>1, <2>1, <2>4 DEF SocksOK
  <2> QED BY <1>1, <2>2, <2>4, <2>5 DEF SocksOK, QueueStep
<1> QED BY <1>2, <1>3, <1>4, <1>5

\* Sockets that did not change, for the actions below.
LEMMA SocksUnchanged ==
  ASSUME WaitTypes, m_netlinks' = m_netlinks
  PROVE  SocksOK(m_netlinks') /\ (\A fd \in FDs : QueueStep(fd)) /\ Open' = Open
  BY DEF WaitTypes, QueueStep, Open

LEMMA StepHandleError ==
  ASSUME WaitTypes, NEW t \in Threads, HandleError(t)
  PROVE  WaitTypes' /\ \A fd \in FDs : QueueStep(fd)
<1>1. PICK r \in Caught(t, "unsupported") :
        /\ Begins(t) /\ tr' = [tr EXCEPT ![t] = r]
        /\ ProcessStatusCode("error", t, Consumed(ready, t)) /\ UNCHANGED nlVars
  BY DEF HandleError
<1>2. ready' = Consumed(ready, t) /\ sim' = "ended"
  BY <1>1 DEF ProcessStatusCode
<1>3. TracerTypes'
  BY <1>1, <1>2, CallNames, HeldEffect DEF WaitTypes, Begins
<1> QED BY <1>1, <1>3, SocksUnchanged DEF WaitTypes, SenderOK, nlVars

LEMMA StepHandleSend ==
  ASSUME WaitTypes, NEW t \in Threads, HandleSend(t)
  PROVE  WaitTypes' /\ \A fd \in FDs : QueueStep(fd)
<1>1. PICK name \in {"sendto", "sendmsg"} : \E r \in Caught(t, name), fd \in FDs :
        /\ Begins(t) /\ MayUse(t, fd)
        /\ tr' = [tr EXCEPT ![t] = r] /\ ready' = Consumed(ready, t)
        /\ sender' = [tid |-> t, fd |-> fd]
        /\ sim' = sim /\ m_netlinks' = m_netlinks /\ armed' = armed
  BY DEF HandleSend
<1>2. TracerTypes'
  BY <1>1, CallNames, HeldEffect DEF WaitTypes, TracerTypes, Begins
<1>3. SenderOK'
  BY <1>1, SocksUnchanged DEF SenderOK, MayUse
<1> QED BY <1>1, <1>2, <1>3, SocksUnchanged DEF WaitTypes

LEMMA StepHandleSelectWait ==
  ASSUME WaitTypes, NEW t \in Threads, HandleSelectWait(t)
  PROVE  WaitTypes' /\ \A fd \in FDs : QueueStep(fd)
<1>1. PICK r \in Caught(t, "select"), R \in SUBSET Open, others \in BOOLEAN :
        /\ Begins(t) /\ \A fd \in R : ~HasData(fd)
        /\ m_netlinks' = [fd \in FDs |-> IF fd \in R
                                         THEN [m_netlinks[fd] EXCEPT !.recv_callback = t]
                                         ELSE m_netlinks[fd]]
        /\ armed' = [armed EXCEPT ![t] = others]
        /\ tr' = [tr EXCEPT ![t] = r]
        /\ ProcessStatusCode("delayed", t, Consumed(ready, t))
        /\ sender' = sender
  BY DEF HandleSelectWait
<1>2. ready' = Consumed(ready, t) /\ sim' = sim
  BY <1>1 DEF ProcessStatusCode
<1>3. TracerTypes'
  BY <1>1, <1>2, CallNames, HeldEffect DEF WaitTypes, TracerTypes, Begins
<1>4. ASSUME NEW fd \in FDs
      PROVE  /\ m_netlinks'[fd] \in NlSocks
             /\ m_netlinks[fd] = NoNetlink => m_netlinks'[fd] = NoNetlink
             /\ m_netlinks[fd] # NoNetlink => m_netlinks'[fd].pid \in Threads
             /\ QueueStep(fd)
  BY <1>1 DEF WaitTypes, SocksOK, NlSocks, Open, HasData, QueueStep
<1>5. SocksOK(m_netlinks')
  <2>1. m_netlinks' \in [FDs -> NlSocks]
    BY <1>1, <1>4
  <2> QED BY <1>4, <2>1 DEF SocksOK
<1>6. sender = NoSend
  BY <1>1 DEF Begins, Idle
<1> QED BY <1>1, <1>3, <1>4, <1>5, <1>6 DEF WaitTypes, SenderOK

LEMMA StepSelectEnds ==
  ASSUME WaitTypes, NEW t \in Threads, SelectEnds(t)
  PROVE  WaitTypes' /\ \A fd \in FDs : QueueStep(fd)
<1>1. /\ m_netlinks' = Handled(m_netlinks, t) /\ armed' = [armed EXCEPT ![t] = FALSE]
      /\ Resume(t) /\ sender' = sender /\ sender = NoSend
  BY DEF SelectEnds, Idle
<1>2. TracerTypes'
  BY <1>1, ResumeEffect DEF WaitTypes
<1>3. SocksOK(m_netlinks') /\ \A fd \in FDs : QueueStep(fd)
  BY <1>1, HandledSocks DEF WaitTypes, QueueStep
<1> QED BY <1>1, <1>2, <1>3 DEF WaitTypes, SenderOK

\* A dump: who waits in select, if anyone, is resumed.
LEMMA StepDump ==
  ASSUME WaitTypes, sender # NoSend, sender' = sender, NEW m, ProcessDump(m)
  PROVE  WaitTypes' /\ \A fd \in FDs : QueueStep(fd)
<1> DEFINE queued == Queued(sender.fd, Dump(m.type))
           waiter == m_netlinks[sender.fd].recv_callback
<1>1. /\ m.type \in {"getlink", "getaddr"}
      /\ \/ waiter = NoOne /\ m_netlinks' = queued /\ UNCHANGED <<tr, ready, pid, sim, armed>>
         \/ /\ waiter # NoOne /\ m_netlinks' = Handled(queued, waiter)
            /\ armed' = [armed EXCEPT ![waiter] = FALSE] /\ Resume(waiter)
  BY DEF ProcessDump
<1>2. SocksOK(m_netlinks) /\ sender.fd \in Open /\ sender.fd \in FDs
  BY DEF WaitTypes, SenderOK, Open
<1>3. Dump(m.type) \in Seq(Replies)
  BY <1>1, DumpReplies
<1>4. waiter \in Threads \cup {NoOne}
  BY <1>2 DEF SocksOK, NlSocks
<1>5. /\ SocksOK(queued)
      /\ \A f \in FDs :
           /\ queued[f].recv_callback = m_netlinks[f].recv_callback
           /\ queued[f].reply_queue = IF f = sender.fd
                                      THEN m_netlinks[f].reply_queue \o Dump(m.type)
                                      ELSE m_netlinks[f].reply_queue
           /\ m_netlinks[f] # NoNetlink => queued[f] # NoNetlink
  BY <1>2, <1>3, QueuedSocks
<1> HIDE DEF queued
<1>6. CASE waiter = NoOne
  <2>1. m_netlinks' = queued /\ UNCHANGED <<tr, ready, pid, sim, armed>>
    BY <1>1, <1>6
  <2>2. \A fd \in FDs : QueueStep(fd)
    BY <1>1, <1>5, <1>6, <2>1 DEF QueueStep
  <2>3. SenderOK'
    BY <1>2, <1>5, <2>1 DEF WaitTypes, SenderOK, Open
  <2> QED BY <1>5, <2>1, <2>2, <2>3 DEF WaitTypes, TracerTypes
<1>7. CASE waiter # NoOne
  <2>1. /\ waiter \in Threads /\ m_netlinks' = Handled(queued, waiter)
        /\ armed' = [armed EXCEPT ![waiter] = FALSE] /\ Resume(waiter)
    BY <1>1, <1>4, <1>7
  <2>2. /\ SocksOK(m_netlinks')
        /\ \A f \in FDs :
             /\ m_netlinks'[f].reply_queue = queued[f].reply_queue
             /\ m_netlinks'[f].recv_callback = IF queued[f].recv_callback = waiter
                                               THEN NoOne ELSE queued[f].recv_callback
             /\ queued[f] # NoNetlink => m_netlinks'[f] # NoNetlink
    BY <1>5, <2>1, HandledSocks
  <2>3. \A fd \in FDs : QueueStep(fd)
    BY <1>1, <1>2, <1>5, <2>2 DEF QueueStep
  <2>4. SenderOK'
    BY <1>2, <1>5, <2>2 DEF WaitTypes, SenderOK, Open
  <2>5. TracerTypes'
    BY <2>1, ResumeEffect DEF WaitTypes
  <2> QED BY <2>1, <2>2, <2>3, <2>4, <2>5 DEF WaitTypes
<1> QED BY <1>6, <1>7

LEMMA StepRoute ==
  ASSUME WaitTypes, sender # NoSend, sender' = sender, NEW m, ProcessRoute(m)
  PROVE  WaitTypes' /\ \A fd \in FDs : QueueStep(fd)
<1>1. m_netlinks' = Queued(sender.fd, <<"ack">>) /\ UNCHANGED <<tr, ready, pid, sim, armed>>
  BY DEF ProcessRoute
<1>2. SocksOK(m_netlinks) /\ sender.fd \in Open /\ sender.fd \in FDs
  BY DEF WaitTypes, SenderOK, Open
<1>3. <<"ack">> \in Seq(Replies)
  BY DEF Replies
<1>4. /\ SocksOK(m_netlinks')
      /\ \A f \in FDs :
           /\ m_netlinks'[f].recv_callback = m_netlinks[f].recv_callback
           /\ m_netlinks'[f].reply_queue = IF f = sender.fd
                                           THEN m_netlinks[f].reply_queue \o <<"ack">>
                                           ELSE m_netlinks[f].reply_queue
           /\ m_netlinks[f] # NoNetlink => m_netlinks'[f] # NoNetlink
  BY <1>1, <1>2, <1>3, QueuedSocks
<1>5. \A fd \in FDs : QueueStep(fd)
  BY <1>4 DEF QueueStep
<1>6. SenderOK'
  BY <1>2, <1>4 DEF WaitTypes, SenderOK, Open
<1> QED BY <1>1, <1>4, <1>5, <1>6 DEF WaitTypes, TracerTypes

\* The answer to a send, which may go to a thread that has not made it.
LEMMA StepSendDone ==
  ASSUME WaitTypes, SendDone
  PROVE  WaitTypes' /\ \A fd \in FDs : QueueStep(fd)
<1> DEFINE c == m_netlinks[sender.fd].pid
<1>1. /\ sender # NoSend /\ FakeCreator(c, tr)
      /\ ProcessStatusCode("success", sender.tid, ready)
      /\ sender' = NoSend /\ pid' = pid /\ armed' = armed /\ m_netlinks' = m_netlinks
  BY DEF SendDone
<1>2. sender.tid \in Threads /\ sender.fd \in Open
  BY <1>1 DEF WaitTypes, SenderOK
<1>3. c \in Threads
  BY <1>2 DEF WaitTypes, SocksOK, Open
<1>4. PICK w \in Fake(tr[c], Requests) : tr' = [tr EXCEPT ![c] = w]
  BY <1>1 DEF FakeCreator
<1> HIDE DEF c
<1>5. w \in Tracee
  BY <1>3, FakedThread DEF WaitTypes, TracerTypes
<1>6. sim' = sim /\ ready' = [ready EXCEPT ![sender.tid] = ready[sender.tid] + 1]
  BY <1>1 DEF ProcessStatusCode, Scheduled
<1>7. ready[sender.tid] + 1 \in Nat
  BY <1>2 DEF WaitTypes, TracerTypes
<1>8. TracerTypes'
  BY <1>1, <1>4, <1>5, <1>6, <1>7 DEF WaitTypes, TracerTypes
<1> QED BY <1>1, <1>8, SocksUnchanged DEF WaitTypes, SenderOK

\* The simulation may end, between two messages or with a packet.
LEMMA StepEnds ==
  ASSUME WaitTypes, ProcessOther \/ \E d \in Addresses : PacketArrives(d)
  PROVE  WaitTypes' /\ \A fd \in FDs : QueueStep(fd)
<1>1. sim' \in {"running", "ended"} /\ UNCHANGED <<tr, ready, pid, nlVars>>
  BY DEF WaitTypes, TracerTypes, ProcessOther, PacketArrives
<1> QED BY <1>1, SocksUnchanged DEF WaitTypes, TracerTypes, SenderOK, nlVars

LEMMA NextWaitTypes ==
  ASSUME TableInv, WaitTypes, [Next]_vars
  PROVE  WaitTypes' /\ \A fd \in FDs : QueueStep(fd)
<1>1. CASE UNCHANGED vars
  BY <1>1, SocksUnchanged DEF WaitTypes, TracerTypes, SenderOK, vars, nlVars
<1>2. ASSUME NEW t \in Threads, HandleSyscallBefore(t) \/ SelectEnds(t)
      PROVE  WaitTypes' /\ \A fd \in FDs : QueueStep(fd)
  <2>1. CASE \/ HandleSocket(t) \/ HandleClose(t) \/ HandleAddress(t)
             \/ HandleRecvMsgEmpty(t) \/ HandleRecvMsg(t) \/ HandleSelectNow(t)
    <3>1. TracerTypes' /\ sender' = NoSend /\ armed' = armed
      BY <2>1, AnsweringHandlers
    <3> QED BY <2>1, <3>1, AnsweringHandlersSocks DEF WaitTypes, SenderOK
  <2>2. CASE HandleError(t)
    BY <2>2, StepHandleError
  <2>3. CASE HandleSend(t)
    BY <2>3, StepHandleSend
  <2>4. CASE HandleSelectWait(t)
    BY <2>4, StepHandleSelectWait
  <2>5. CASE SelectEnds(t)
    BY <2>5, StepSelectEnds
  <2> QED BY <1>2, <2>1, <2>2, <2>3, <2>4, <2>5 DEF HandleSyscallBefore
<1>3. CASE ProcessNlmsghdr
  <2>1. sender # NoSend /\ sender' = sender /\ (ProcessDump(Head(todo)) \/ ProcessRoute(Head(todo)))
    BY <1>3 DEF ProcessNlmsghdr, TableInv
  <2> QED BY <2>1, StepDump, StepRoute
<1>4. CASE SendDone
  BY <1>4, StepSendDone
<1>5. CASE ProcessOther \/ \E d \in Addresses : PacketArrives(d)
  BY <1>5, StepEnds
<1> QED BY <1>1, <1>2, <1>3, <1>4, <1>5 DEF Next

THEOREM WaitTypesInvariant == Spec => []WaitTypes
<1>1. TableInv /\ WaitTypes /\ [Next]_vars => WaitTypes'
  BY NextWaitTypes
<1> QED BY <1>1, InitWaitTypes, TableInvariant, PTL DEF Spec

(***************************************************************************)
(* The types of Netlink, whoever shares descriptors with whom.             *)
(***************************************************************************)
THEOREM TypeCorrect == Spec => []TypeOK
<1>1. TableInv /\ WaitTypes => TypeOK
  BY DEF TableInv, WaitTypes, TracerTypes, SocksOK, SenderOK, TypeOK,
         Tracee, TraceeOf, NlSocks, Replies, RtEntries
<1> QED BY <1>1, TableInvariant, WaitTypesInvariant, PTL

-----------------------------------------------------------------------------
(***************************************************************************)
(* Only a select that finds the queue empty sets the callback, and a dump  *)
(* clears it (HandleSelect of grail.cc, ProcessNlmsghdr of netlink.cc): no *)
(* select sleeps on the replies of a dump.                                 *)
(***************************************************************************)
THEOREM SelectsWoken == Spec => []DumpWakesSelect
<1>1. Init => DumpWakesSelect
  BY DEF Init, DumpWakesSelect, NoNetlink
<1>2. ASSUME WaitTypes, WaitTypes', DumpWakesSelect, \A fd \in FDs : QueueStep(fd)
      PROVE  DumpWakesSelect'
  <2> SUFFICES ASSUME NEW fd \in FDs, m_netlinks'[fd].recv_callback # NoOne,
                      NEW i \in DOMAIN m_netlinks'[fd].reply_queue
               PROVE  m_netlinks'[fd].reply_queue[i] = "ack"
    BY DEF DumpWakesSelect
  <2> DEFINE old == m_netlinks[fd].reply_queue
             new == m_netlinks'[fd].reply_queue
  <2>1. old \in Seq(Replies) /\ new \in Seq(Replies)
    BY <1>2 DEF WaitTypes, SocksOK, NlSocks
  <2>2. \/ new = old
        \/ old # << >> /\ new = Tail(old)
        \/ new = old \o <<"ack">>
    BY <1>2 DEF QueueStep
  <2>3. old = << >> \/ \A j \in DOMAIN old : old[j] = "ack"
    BY <1>2 DEF QueueStep, DumpWakesSelect
  <2> HIDE DEF old, new
  <2>4. \A j \in DOMAIN old : old[j] = "ack"
    BY <2>3
  <2>5. i \in 1 .. Len(new)
    BY <2>1 DEF new
  <2>6. new[i] = "ack"
    BY <2>1, <2>2, <2>4, <2>5
  <2> QED BY <2>6 DEF new
<1>3. TableInv /\ WaitTypes /\ WaitTypes' /\ DumpWakesSelect /\ [Next]_vars => DumpWakesSelect'
  BY <1>2, NextWaitTypes
<1> QED BY <1>1, <1>3, TableInvariant, WaitTypesInvariant, PTL DEF Spec

\* The dumps in queue q are whole, but for what has been fetched of the first.
Terminated(q) ==
  \A i \in DOMAIN q : q[i] \in {"getlink", "getaddr"} =>
    i < Len(q) /\ q[i + 1] \in {q[i], "done"}

LEMMA TerminatedTail ==
  ASSUME NEW q \in Seq(Replies), q # << >>, Terminated(q)
  PROVE  Terminated(Tail(q))
<1> DEFINE r == Tail(q)
<1>1. r \in Seq(Replies) /\ Len(r) = Len(q) - 1 /\ Len(q) \in Nat \ {0}
      /\ \A i \in 1 .. Len(r) : r[i] = q[i + 1]
  OBVIOUS
<1> HIDE DEF r
<1>2. ASSUME NEW i \in 1 .. Len(r), r[i] \in {"getlink", "getaddr"}
      PROVE  i < Len(r) /\ r[i + 1] \in {r[i], "done"}
  <2>1. i + 1 \in DOMAIN q /\ q[i + 1] = r[i]
    BY <1>1
  <2>2. i + 1 < Len(q) /\ q[(i + 1) + 1] \in {q[i + 1], "done"}
    BY <1>2, <2>1 DEF Terminated
  <2> QED BY <1>1, <2>1, <2>2
<1> QED BY <1>1, <1>2 DEF Terminated, r

LEMMA TerminatedConcat ==
  ASSUME NEW q \in Seq(Replies), NEW d \in Seq(Replies), Terminated(q), Terminated(d)
  PROVE  Terminated(q \o d)
<1> DEFINE r == q \o d
<1>1. /\ r \in Seq(Replies) /\ Len(r) = Len(q) + Len(d) /\ Len(q) \in Nat /\ Len(d) \in Nat
      /\ \A i \in 1 .. Len(q) : r[i] = q[i]
      /\ \A i \in 1 .. Len(d) : r[Len(q) + i] = d[i]
  OBVIOUS
<1> HIDE DEF r
<1>2. ASSUME NEW i \in 1 .. Len(r), r[i] \in {"getlink", "getaddr"}
      PROVE  i < Len(r) /\ r[i + 1] \in {r[i], "done"}
  <2>1. CASE i \in 1 .. Len(q)
    <3>1. r[i] = q[i] /\ i \in DOMAIN q
      BY <1>1, <2>1
    <3>2. i < Len(q) /\ q[i + 1] \in {q[i], "done"}
      BY <1>2, <3>1 DEF Terminated
    <3>3. i + 1 \in 1 .. Len(q) /\ i + 1 \in 1 .. Len(r)
      BY <1>1, <2>1, <3>2
    <3>4. r[i + 1] = q[i + 1]
      BY <1>1, <3>3
    <3> QED BY <1>1, <3>1, <3>2, <3>3, <3>4
  <2>2. CASE i \notin 1 .. Len(q)
    <3> DEFINE j == i - Len(q)
    <3>1. j \in 1 .. Len(d) /\ i = Len(q) + j
      BY <1>1, <2>2
    <3> HIDE DEF j
    <3>2. r[i] = d[j] /\ j \in DOMAIN d
      BY <1>1, <3>1
    <3>3. j < Len(d) /\ d[j + 1] \in {d[j], "done"}
      BY <1>2, <3>2 DEF Terminated
    <3>4. j + 1 \in 1 .. Len(d) /\ Len(q) + (j + 1) = i + 1 /\ i < Len(r)
      BY <1>1, <3>1, <3>3
    <3>5. r[i + 1] = d[j + 1]
      BY <1>1, <3>4
    <3> QED BY <3>2, <3>3, <3>4, <3>5
  <2> QED BY <2>1, <2>2
<1> QED BY <1>1, <1>2 DEF Terminated, r

(***************************************************************************)
(* Whatever is sent and fetched in whatever order, NLMSG_DONE follows the  *)
(* replies of a dump (SendDeviceInfo, SendDeviceAddresses, HandleRecvMsg). *)
(***************************************************************************)
THEOREM DumpsEnd == Spec => []DumpsTerminated
<1>1. Init => DumpsTerminated
  BY DEF Init, DumpsTerminated, NoNetlink
<1>2. DumpsTerminated <=> \A fd \in FDs : Terminated(m_netlinks[fd].reply_queue)
  BY DEF DumpsTerminated, Terminated
<1>3. ASSUME WaitTypes, DumpsTerminated, NEW fd \in FDs, QueueStep(fd)
      PROVE  Terminated(m_netlinks'[fd].reply_queue)
  <2> DEFINE old == m_netlinks[fd].reply_queue
             new == m_netlinks'[fd].reply_queue
  <2>1. old \in Seq(Replies) /\ Terminated(old)
    BY <1>2, <1>3 DEF WaitTypes, SocksOK, NlSocks
  <2>2. \/ new = old
        \/ new = << >>
        \/ old # << >> /\ new = Tail(old)
        \/ \E kind \in {"getlink", "getaddr"} : new = old \o Dump(kind)
        \/ new = old \o <<"ack">>
    BY <1>3 DEF QueueStep
  <2> HIDE DEF old, new
  <2>3. \A kind \in {"getlink", "getaddr"} : Dump(kind) \in Seq(Replies) /\ Terminated(Dump(kind))
    BY DumpReplies DEF Terminated
  <2>4. Terminated(<< >>) /\ Terminated(<<"ack">>) /\ <<"ack">> \in Seq(Replies)
    BY DEF Terminated, Replies
  <2>5. Terminated(new)
    BY <2>1, <2>2, <2>3, <2>4, TerminatedTail, TerminatedConcat
  <2> QED BY <2>5 DEF new
<1>4. TableInv /\ WaitTypes /\ DumpsTerminated /\ [Next]_vars => DumpsTerminated'
  BY <1>3, NextWaitTypes DEF DumpsTerminated, Terminated
<1> QED BY <1>1, <1>4, TableInvariant, WaitTypesInvariant, PTL DEF Spec

-----------------------------------------------------------------------------
(***************************************************************************)
(* Who waits and who runs, when every thread uses the sockets it has       *)
(* created (Sharing is FALSE): otherwise a FAKE moves a thread that has    *)
(* made no call, and none of the following holds.                          *)
(***************************************************************************)
Waits(t) == armed[t] \/ \E fd \in FDs : m_netlinks[fd].recv_callback = t

\* A send in progress is a call of the thread its answer will go to.
SendOwned ==
  sender # NoSend =>
    /\ m_netlinks[sender.fd].pid = sender.tid
    /\ tr[sender.tid].stop = "entry"
    /\ tr[sender.tid].call[1] \in {"sendto", "sendmsg"}

\* The inductive invariant, with the types.
StepInv == InStep /\ NoStrayCallback /\ SendOwned

LEMMA InitSteps == Init => StepInv
<1> SUFFICES ASSUME Init PROVE StepInv
  OBVIOUS
<1>1. \A t \in Threads : ~Waits(t) /\ tr[t].stop = "user" /\ ready[t] = 1
  BY NoOneAssumption DEF Init, Waits, NoNetlink, Fresh
<1> QED BY <1>1 DEF Init, StepInv, InStep, NoStrayCallback, SendOwned, Waits

\* A thread that has an event runs user code and waits for nothing.
LEMMA EventInUser ==
  ASSUME WaitTypes, StepInv, NEW t \in Threads, Event(t)
  PROVE  tr[t].stop = "user" /\ ready[t] = 1 /\ ~Waits(t) /\ sim = "running"
<1>1. ready[t] > 0 /\ sim = "running" /\ ready[t] \in Nat
  BY DEF Event, WaitTypes, TracerTypes
<1>2. ready[t] = IF tr[t].stop = "user" THEN 1 ELSE 0
  BY <1>1 DEF StepInv, InStep
<1> QED BY <1>1, <1>2 DEF StepInv, NoStrayCallback, Waits

\* A thread that waits is at the entry of select, without an event.
LEMMA WaiterAtSelect ==
  ASSUME StepInv, NEW t \in Threads, Waits(t), sim = "running"
  PROVE  tr[t].stop = "entry" /\ tr[t].call[1] = "select" /\ ready[t] = 0
  BY DEF StepInv, InStep, NoStrayCallback, Waits

\* Thread t moves, the others stay where they are and wait for nothing new.
LEMMA OneThreadMoves ==
  ASSUME StepInv, sim = "running", NEW t \in Threads,
         \A u \in Threads \ {t} :
           tr'[u] = tr[u] /\ ready'[u] = ready[u] /\ (Waits(u)' => Waits(u)),
         sim' = "running" => ready'[t] = IF tr'[t].stop = "user" THEN 1 ELSE 0,
         Waits(t)' => tr'[t].stop = "entry" /\ tr'[t].call[1] = "select"
  PROVE  InStep' /\ NoStrayCallback'
<1>1. InStep'
  BY DEF StepInv, InStep
<1>2. \A u \in Threads : Waits(u)' => tr'[u].stop = "entry" /\ tr'[u].call[1] = "select"
  BY WaiterAtSelect
<1>3. NoStrayCallback'
  BY <1>2 DEF NoStrayCallback, Waits
<1> QED BY <1>1, <1>3

\* No callback is set: nobody waits who did not.
LEMMA NoNewWaits ==
  ASSUME \A u \in Threads : armed'[u] => armed[u],
         \A fd \in FDs :
           m_netlinks'[fd].recv_callback \in {m_netlinks[fd].recv_callback, NoOne}
  PROVE  \A u \in Threads : Waits(u)' => Waits(u)
  BY NoOneAssumption DEF Waits

\* The move of a thread that has answered its call.
LEMMA AnsweredMove ==
  ASSUME WaitTypes, NEW t \in Threads, Answered(t)
  PROVE  tr'[t].stop = "user" /\ \A u \in Threads \ {t} : tr'[u] = tr[u]
  BY DEF Answered, WaitTypes, TracerTypes

LEMMA AnsweringHandlersSteps ==
  ASSUME ~Sharing, WaitTypes, StepInv, NEW t \in Threads,
         \/ HandleSocket(t) \/ HandleClose(t) \/ HandleAddress(t)
         \/ HandleRecvMsgEmpty(t) \/ HandleRecvMsg(t) \/ HandleSelectNow(t)
  PROVE  StepInv'
<1>1. /\ ready' = ready /\ Event(t) /\ sender' = NoSend /\ armed' = armed
      /\ tr[t].stop = "user" => Answered(t)
  BY AnsweringHandlers
<1>2. tr[t].stop = "user" /\ ready[t] = 1 /\ ~Waits(t) /\ sim = "running"
  BY <1>1, EventInUser
<1>3. tr'[t].stop = "user" /\ \A u \in Threads \ {t} : tr'[u] = tr[u]
  BY <1>1, <1>2, AnsweredMove
<1>4. \A u \in Threads : Waits(u)' => Waits(u)
  BY <1>1, AnsweringHandlersSocks, NoNewWaits
<1>5. InStep' /\ NoStrayCallback'
  BY <1>1, <1>2, <1>3, <1>4, OneThreadMoves
<1> QED BY <1>1, <1>5 DEF StepInv, SendOwned

\* The thread is left at a call without an answer.
LEMMA HeldSteps ==
  ASSUME WaitTypes, StepInv, NEW t \in Threads, Begins(t),
         NEW name \in Calls, NEW r \in Caught(t, name),
         tr' = [tr EXCEPT ![t] = r], ready' = Consumed(ready, t),
         sim' \in {"running", "ended"},
         \A u \in Threads \ {t} : Waits(u)' => Waits(u),
         Waits(t)' => Waits(t) \/ name = "select"
  PROVE  /\ InStep' /\ NoStrayCallback'
         /\ tr'[t].stop = "entry" /\ tr'[t].call[1] = name
<1>1. tr[t].stop = "user" /\ ready[t] = 1 /\ ~Waits(t) /\ sim = "running"
  BY EventInUser DEF Begins
<1>2. /\ ready' = [ready EXCEPT ![t] = ready[t] - 1]
      /\ tr'[t].stop = "entry" /\ tr'[t].call[1] = name
  BY <1>1, HeldEffect DEF WaitTypes, Begins
<1>3. \A u \in Threads \ {t} : tr'[u] = tr[u] /\ ready'[u] = ready[u]
  BY <1>2 DEF WaitTypes, TracerTypes
<1>4. ready'[t] = 0
  BY <1>1, <1>2 DEF WaitTypes, TracerTypes
<1> QED BY <1>1, <1>2, <1>3, <1>4, OneThreadMoves

LEMMA HoldingHandlersSteps ==
  ASSUME ~Sharing, WaitTypes, StepInv, NEW t \in Threads,
         HandleError(t) \/ HandleSend(t) \/ HandleSelectWait(t)
  PROVE  StepInv'
<1>1. CASE HandleError(t)
  <2>1. PICK r \in Caught(t, "unsupported") :
          /\ Begins(t) /\ tr' = [tr EXCEPT ![t] = r]
          /\ ProcessStatusCode("error", t, Consumed(ready, t)) /\ UNCHANGED nlVars
    BY <1>1 DEF HandleError
  <2>2. ready' = Consumed(ready, t) /\ sim' = "ended" /\ sender' = NoSend
    BY <2>1 DEF ProcessStatusCode, Begins, Idle, nlVars
  <2>3. \A u \in Threads : Waits(u)' => Waits(u)
    BY <2>1 DEF nlVars, Waits
  <2>4. InStep' /\ NoStrayCallback'
    BY <2>1, <2>2, <2>3, CallNames, HeldSteps
  <2> QED BY <2>2, <2>4 DEF StepInv, SendOwned
<1>2. CASE HandleSend(t)
  <2>1. PICK name \in {"sendto", "sendmsg"}, fd \in FDs : \E r \in Caught(t, name) :
          /\ Begins(t) /\ MayUse(t, fd)
          /\ tr' = [tr EXCEPT ![t] = r] /\ ready' = Consumed(ready, t)
          /\ sender' = [tid |-> t, fd |-> fd]
          /\ sim' = sim /\ m_netlinks' = m_netlinks /\ armed' = armed
    BY <1>2 DEF HandleSend
  <2>2. \A u \in Threads : Waits(u)' => Waits(u)
    BY <2>1 DEF Waits
  <2>3. InStep' /\ NoStrayCallback' /\ tr'[t].stop = "entry" /\ tr'[t].call[1] = name
    BY <2>1, <2>2, CallNames, HeldSteps DEF WaitTypes, TracerTypes
  <2>4. m_netlinks'[fd].pid = t
    BY <2>1 DEF MayUse
  <2> QED BY <2>1, <2>3, <2>4 DEF StepInv, SendOwned
<1>3. CASE HandleSelectWait(t)
  <2>1. PICK r \in Caught(t, "select"), R \in SUBSET Open, others \in BOOLEAN :
          /\ Begins(t) /\ \A fd \in R : ~HasData(fd)
          /\ m_netlinks' = [fd \in FDs |-> IF fd \in R
                                           THEN [m_netlinks[fd] EXCEPT !.recv_callback = t]
                                           ELSE m_netlinks[fd]]
          /\ armed' = [armed EXCEPT ![t] = others]
          /\ tr' = [tr EXCEPT ![t] = r]
          /\ ProcessStatusCode("delayed", t, Consumed(ready, t))
          /\ sender' = sender
    BY <1>3 DEF HandleSelectWait
  <2>2. ready' = Consumed(ready, t) /\ sim' = sim /\ sender' = NoSend
    BY <2>1 DEF ProcessStatusCode, Begins, Idle
  <2>3. \A fd \in FDs :
          m_netlinks'[fd].recv_callback \in {m_netlinks[fd].recv_callback, t}
    BY <2>1 DEF WaitTypes, SocksOK, NlSocks
  <2>4. \A u \in Threads \ {t} : Waits(u)' => Waits(u)
    BY <2>1, <2>3 DEF Waits, WaitTypes
  <2>5. InStep' /\ NoStrayCallback'
    BY <2>1, <2>2, <2>4, CallNames, HeldSteps DEF WaitTypes, TracerTypes
  <2> QED BY <2>2, <2>5 DEF StepInv, SendOwned
<1> QED BY <1>1, <1>2, <1>3

\* The select of thread t is answered and nothing else can answer it.
LEMMA ResumeSteps ==
  ASSUME WaitTypes, StepInv, sim = "running", NEW t \in Threads, Waits(t), Resume(t),
         \A u \in Threads \ {t} : Waits(u)' => Waits(u), ~Waits(t)'
  PROVE  /\ InStep' /\ NoStrayCallback'
         /\ \A u \in Threads \ {t} : tr'[u] = tr[u]
<1>1. tr[t].stop = "entry" /\ ready[t] = 0
  BY WaiterAtSelect
<1>2. /\ ready' = [ready EXCEPT ![t] = ready[t] + 1]
      /\ tr'[t].stop = "user" /\ \A u \in Threads \ {t} : tr'[u] = tr[u]
  BY <1>1, ResumeEffect, AnsweredMove DEF WaitTypes
<1>3. ready'[t] = 1 /\ \A u \in Threads \ {t} : ready'[u] = ready[u]
  BY <1>1, <1>2 DEF WaitTypes, TracerTypes
<1> QED BY <1>1, <1>2, <1>3, OneThreadMoves

LEMMA SelectEndsSteps ==
  ASSUME WaitTypes, StepInv, NEW t \in Threads, SelectEnds(t)
  PROVE  StepInv'
<1>1. /\ sim = "running" /\ Waits(t) /\ Resume(t)
      /\ m_netlinks' = Handled(m_netlinks, t) /\ armed' = [armed EXCEPT ![t] = FALSE]
      /\ sender' = NoSend
  BY DEF SelectEnds, Idle, Running, Waits
<1>2. \A fd \in FDs : m_netlinks'[fd].recv_callback =
        IF m_netlinks[fd].recv_callback = t THEN NoOne ELSE m_netlinks[fd].recv_callback
  BY <1>1, HandledSocks DEF WaitTypes
<1>3. ~Waits(t)' /\ \A u \in Threads \ {t} : Waits(u)' => Waits(u)
  BY <1>1, <1>2, NoOneAssumption DEF Waits, WaitTypes
<1>4. InStep' /\ NoStrayCallback'
  BY <1>1, <1>3, ResumeSteps
<1> QED BY <1>1, <1>4 DEF StepInv, SendOwned

\* The thread that has sent does not wait, so a dump resumes another one.
LEMMA DumpSteps ==
  ASSUME WaitTypes, StepInv, sim = "running", sender # NoSend, sender' = sender,
         NEW m, ProcessDump(m)
  PROVE  StepInv'
<1> DEFINE queued == Queued(sender.fd, Dump(m.type))
           waiter == m_netlinks[sender.fd].recv_callback
<1>1. /\ m.type \in {"getlink", "getaddr"}
      /\ \/ waiter = NoOne /\ m_netlinks' = queued /\ UNCHANGED <<tr, ready, pid, sim, armed>>
         \/ /\ waiter # NoOne /\ m_netlinks' = Handled(queued, waiter)
            /\ armed' = [armed EXCEPT ![waiter] = FALSE] /\ Resume(waiter)
  BY DEF ProcessDump
<1>2. /\ SocksOK(m_netlinks) /\ sender.fd \in Open /\ sender.fd \in FDs
      /\ sender.tid \in Threads
  BY DEF WaitTypes, SenderOK, Open
<1>3. /\ m_netlinks[sender.fd].pid = sender.tid /\ tr[sender.tid].stop = "entry"
      /\ tr[sender.tid].call[1] \in {"sendto", "sendmsg"}
  BY DEF StepInv, SendOwned
<1>4. waiter \in Threads \cup {NoOne}
  BY <1>2 DEF SocksOK, NlSocks
<1>5. /\ SocksOK(queued)
      /\ \A f \in FDs : /\ queued[f].pid = m_netlinks[f].pid
                        /\ queued[f].recv_callback = m_netlinks[f].recv_callback
  BY <1>1, <1>2, DumpReplies, QueuedSocks
<1> HIDE DEF queued
<1>6. CASE waiter = NoOne
  <2>1. m_netlinks' = queued /\ UNCHANGED <<tr, ready, pid, sim, armed>>
    BY <1>1, <1>6
  <2>2. InStep' /\ NoStrayCallback'
    BY <1>5, <2>1 DEF StepInv, InStep, NoStrayCallback
  <2> QED BY <1>2, <1>3, <1>5, <2>1, <2>2 DEF StepInv, SendOwned
<1>7. CASE waiter # NoOne
  <2> PICK w \in Threads : w = waiter
    BY <1>4, <1>7
  <2>1. /\ m_netlinks' = Handled(queued, w)
        /\ armed' = [armed EXCEPT ![w] = FALSE] /\ Resume(w)
    BY <1>1, <1>7
  <2>2. \A f \in FDs :
          /\ m_netlinks'[f].pid = m_netlinks[f].pid
          /\ m_netlinks'[f].recv_callback =
               IF m_netlinks[f].recv_callback = w THEN NoOne
               ELSE m_netlinks[f].recv_callback
    BY <1>5, <2>1, HandledSocks
  <2>3. Waits(w)
    BY <1>2 DEF Waits
  <2>4. ~Waits(w)' /\ \A u \in Threads \ {w} : Waits(u)' => Waits(u)
    BY <2>1, <2>2, NoOneAssumption DEF Waits, WaitTypes
  <2>5. /\ InStep' /\ NoStrayCallback'
        /\ \A u \in Threads \ {w} : tr'[u] = tr[u]
    BY <2>1, <2>3, <2>4, ResumeSteps
  <2>6. sender.tid # w
    BY <1>3, <2>1, <2>3, WaiterAtSelect
  <2> QED BY <1>2, <1>3, <2>2, <2>5, <2>6 DEF StepInv, SendOwned
<1> QED BY <1>6, <1>7

LEMMA RouteSteps ==
  ASSUME WaitTypes, StepInv, sender # NoSend, sender' = sender, NEW m, ProcessRoute(m)
  PROVE  StepInv'
<1>1. m_netlinks' = Queued(sender.fd, <<"ack">>) /\ UNCHANGED <<tr, ready, pid, sim, armed>>
  BY DEF ProcessRoute
<1>2. SocksOK(m_netlinks) /\ sender.fd \in Open /\ sender.fd \in FDs
  BY DEF WaitTypes, SenderOK, Open
<1>3. <<"ack">> \in Seq(Replies)
  BY DEF Replies
<1>4. \A f \in FDs : /\ m_netlinks'[f].pid = m_netlinks[f].pid
                     /\ m_netlinks'[f].recv_callback = m_netlinks[f].recv_callback
  BY <1>1, <1>2, <1>3, QueuedSocks
<1> QED BY <1>1, <1>2, <1>4 DEF StepInv, InStep, NoStrayCallback, SendOwned

LEMMA SendDoneSteps ==
  ASSUME WaitTypes, StepInv, SendDone
  PROVE  StepInv'
<1> DEFINE t == sender.tid
<1>1. /\ sim = "running" /\ sender # NoSend /\ FakeCreator(m_netlinks[sender.fd].pid, tr)
      /\ ProcessStatusCode("success", t, ready)
      /\ sender' = NoSend /\ armed' = armed /\ m_netlinks' = m_netlinks
  BY DEF SendDone, Running
<1>2. t \in Threads
  BY <1>1 DEF WaitTypes, SenderOK
<1>3. /\ m_netlinks[sender.fd].pid = t /\ tr[t].stop = "entry"
      /\ tr[t].call[1] \in {"sendto", "sendmsg"}
  BY <1>1 DEF StepInv, SendOwned
<1> HIDE DEF t
<1>4. PICK w \in Fake(tr[t], Requests) : tr' = [tr EXCEPT ![t] = w]
  BY <1>1, <1>3 DEF FakeCreator
<1>5. w \in Tracee /\ w.stop = "user"
  BY <1>2, <1>3, FakedThread DEF WaitTypes, TracerTypes
<1>6. tr'[t].stop = "user" /\ \A u \in Threads \ {t} : tr'[u] = tr[u]
  BY <1>2, <1>4, <1>5 DEF WaitTypes, TracerTypes
<1>7. ready[t] = 0 /\ ~Waits(t)
  BY <1>1, <1>2, <1>3, WaiterAtSelect DEF StepInv, InStep
<1>8. ready'[t] = 1 /\ \A u \in Threads \ {t} : ready'[u] = ready[u]
  BY <1>1, <1>2, <1>7 DEF ProcessStatusCode, Scheduled, WaitTypes, TracerTypes
<1>9. \A u \in Threads : Waits(u)' => Waits(u)
  BY <1>1 DEF Waits
<1>10. InStep' /\ NoStrayCallback'
  BY <1>1, <1>2, <1>6, <1>7, <1>8, <1>9, OneThreadMoves
<1> QED BY <1>1, <1>10 DEF StepInv, SendOwned

LEMMA NextSteps ==
  ASSUME ~Sharing, TableInv, WaitTypes, StepInv, [Next]_vars
  PROVE  StepInv'
<1>1. CASE UNCHANGED vars
  BY <1>1 DEF StepInv, InStep, NoStrayCallback, SendOwned, vars, nlVars
<1>2. ASSUME NEW t \in Threads, HandleSyscallBefore(t) \/ SelectEnds(t)
      PROVE  StepInv'
  BY <1>2, AnsweringHandlersSteps, HoldingHandlersSteps, SelectEndsSteps
     DEF HandleSyscallBefore
<1>3. CASE ProcessNlmsghdr
  <2>1. /\ sim = "running" /\ sender # NoSend /\ sender' = sender
        /\ ProcessDump(Head(todo)) \/ ProcessRoute(Head(todo))
    BY <1>3 DEF ProcessNlmsghdr, TableInv, Running
  <2> QED BY <2>1, DumpSteps, RouteSteps
<1>4. CASE SendDone
  BY <1>4, SendDoneSteps
<1>5. CASE ProcessOther \/ \E d \in Addresses : PacketArrives(d)
  <2>1. /\ sim' = "running" => sim = "running"
        /\ UNCHANGED <<tr, ready, pid, nlVars>>
    BY <1>5 DEF ProcessOther, PacketArrives, Idle, Running
  <2> QED BY <2>1 DEF StepInv, InStep, NoStrayCallback, SendOwned, nlVars
<1> QED BY <1>1, <1>2, <1>3, <1>4, <1>5 DEF Next

THEOREM StepsInvariant == ~Sharing => (Spec => []StepInv)
<1> SUFFICES ASSUME ~Sharing PROVE Spec => []StepInv
  OBVIOUS
<1>1. TableInv /\ WaitTypes /\ StepInv /\ [Next]_vars => StepInv'
  BY NextSteps
<1> QED BY <1>1, InitSteps, TableInvariant, WaitTypesInvariant, PTL DEF Spec

(***************************************************************************)
(* Threads that use the sockets they created stay in step with the         *)
(* handlers of netlink calls: one event each, and none while they wait in  *)
(* select or their send is in progress.                                    *)
(***************************************************************************)
THEOREM ThreadsInStep == ~Sharing => (Spec => []InStep)
<1> SUFFICES ASSUME ~Sharing PROVE Spec => []InStep
  OBVIOUS
<1>1. StepInv => InStep
  BY DEF StepInv
<1> QED BY <1>1, StepsInvariant, PTL

(***************************************************************************)
(* Of the netlink replies, ns-3 sockets and the timeout that a select      *)
(* waits for, only the first answers it (already_handled in HandleSelect). *)
(***************************************************************************)
THEOREM SelectsEndOnce == ~Sharing => (Spec => []NoStrayCallback)
<1> SUFFICES ASSUME ~Sharing PROVE Spec => []NoStrayCallback
  OBVIOUS
<1>1. StepInv => NoStrayCallback
  BY DEF StepInv
<1> QED BY <1>1, StepsInvariant, PTL
=============================================================================
