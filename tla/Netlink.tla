------------------------------- MODULE Netlink -------------------------------
(***************************************************************************)
(* The emulated netlink sockets (model/netlink.cc, model/netlink.h) with   *)
(* the handlers of model/grail.cc that reach them, and the routing table   *)
(* they configure (HgRouting).  A netlink socket answers the requests of   *)
(* one send at once, into its reply queue; the application fetches the     *)
(* replies with recvmsg and may wait for them in select.                   *)
(*                                                                         *)
(* One event of ns-3 is one step, as in the other modules, but for a send: *)
(* its messages are processed one step each, and nothing else happens      *)
(* until the last of them is (Idle).  All threads exist and share every    *)
(* descriptor.                                                             *)
(***************************************************************************)
EXTENDS Tracer, HgRouting, FiniteSets

CONSTANTS
  FDs,            \* descriptors the netlink sockets get
  nDevices,       \* network devices of the node
  Batches,        \* the sequences of messages the application sends
  Sharing,        \* TRUE: threads use netlink sockets they have not created
  EnableRouting,  \* the EnableRouting attribute
  MaxReplies      \* bound: replies queued when another send starts

ASSUME FDsAssumption     == FDs \subseteq Nat
ASSUME DevicesAssumption == nDevices \in Nat
ASSUME NetlinkAttributes == Sharing \in BOOLEAN /\ EnableRouting \in BOOLEAN
ASSUME RepliesAssumption == MaxReplies \in Nat

\* "other" is every message that ends the simulator: an unknown type, and those
\* of which an assertion on flags, attributes or devices fails.
Types    == {"getlink", "getaddr", "newroute", "delroute", "other"}
Messages == [type : Types, dst : Addresses, len : 0 .. Width, gw : Addresses]

ASSUME BatchesAssumption == Batches \subseteq Seq(Messages) \ {<< >>}

VARIABLES
  m_netlinks,   \* m_netlinks[fd]: the NetlinkSocket of fd, or NoNetlink
  armed,        \* armed[t]: a timeout or an ns-3 socket may end the select of t
  todo,         \* messages of the send in progress not processed yet
  sender        \* that send: its thread and descriptor, or NoSend

nlVars == <<m_netlinks, armed, todo, sender, m_entries>>
vars   == <<tr, ready, pid, sim, nlVars>>

NoOne     == "no thread"
NoNetlink == [pid |-> NoOne, reply_queue |-> << >>, recv_callback |-> NoOne]
NoSend    == [tid |-> NoOne, fd |-> 0]
ASSUME NoOneAssumption == NoOne \notin Threads

Open == {fd \in FDs : m_netlinks[fd] # NoNetlink}

HasData(fd) == m_netlinks[fd].reply_queue # << >>

Calls    == {"socket", "bind", "getsockname", "sendto", "sendmsg", "recvmsg",
             "select", "close", "unsupported"}
Requests == {<<c, "netlink">> : c \in Calls}

-----------------------------------------------------------------------------
Init ==
  /\ tr = [t \in Threads |-> Fresh]
  /\ ready = [t \in Threads |-> 1]
  /\ pid = Main
  /\ sim = "running"
  /\ m_netlinks = [fd \in FDs |-> NoNetlink]
  /\ armed = [t \in Threads |-> FALSE]
  /\ todo = << >>
  /\ sender = NoSend
  /\ m_entries = << >>

Idle == Running /\ sender = NoSend

\* HandleSyscallBefore(t) starts, and the states it may catch the thread in when
\* the handler that runs next is the one of the call name.
Begins(t) == Idle /\ Event(t) /\ pid' = t
Caught(t, name) ==
  {r \in WaitForSyscall(tr[t], {<<name, "netlink">>}) : r.call[1] = name}

\* FAKE in a handler of grail.cc: thread t, whose call it is, gets the answer.
Answer(t, r) ==
  /\ \E w \in Fake(r, Requests) : tr' = [tr EXCEPT ![t] = w]
  /\ ProcessStatusCode("success", t, Consumed(ready, t))

\* FAKE in a member of NetlinkSocket: the pid is that of the thread that created
\* the socket, and the thread that made the call is scheduled.
FakeCreator(creator, threads) ==
  \E w \in Fake(threads[creator], Requests) : tr' = [threads EXCEPT ![creator] = w]

AnswerCreator(t, r, fd) ==
  /\ FakeCreator(m_netlinks[fd].pid, [tr EXCEPT ![t] = r])
  /\ ProcessStatusCode("success", t, Consumed(ready, t))

MayUse(t, fd) == fd \in Open /\ (Sharing \/ m_netlinks[fd].pid = t)

-----------------------------------------------------------------------------
\* HandleSocket for AF_NETLINK and NETLINK_ROUTE, with GetNextFD.
HandleSocket(t) ==
  \E r \in Caught(t, "socket"), fd \in FDs \ Open :
    /\ Begins(t)
    /\ \A g \in FDs \ Open : fd <= g
    /\ m_netlinks' = [m_netlinks EXCEPT ![fd] = [NoNetlink EXCEPT !.pid = t]]
    /\ Answer(t, r)
    /\ UNCHANGED <<armed, todo, sender, m_entries>>

\* HandleClose: select callbacks registered with the socket go with it.
HandleClose(t) ==
  \E r \in Caught(t, "close"), fd \in Open :
    /\ Begins(t)
    /\ m_netlinks' = [m_netlinks EXCEPT ![fd] = NoNetlink]
    /\ Answer(t, r)
    /\ UNCHANGED <<armed, todo, sender, m_entries>>

\* HandleBind and HandleGetSockName: nl_pid is data no other handler uses.
HandleAddress(t) ==
  \E name \in {"bind", "getsockname"} : \E r \in Caught(t, name), fd \in FDs :
    /\ Begins(t)
    /\ MayUse(t, fd)
    /\ AnswerCreator(t, r, fd)
    /\ UNCHANGED nlVars

\* HandleRecvMsg with an empty reply queue: FAKE(-1).
HandleRecvMsgEmpty(t) ==
  \E r \in Caught(t, "recvmsg"), fd \in FDs :
    /\ Begins(t)
    /\ MayUse(t, fd) /\ ~HasData(fd)
    /\ AnswerCreator(t, r, fd)
    /\ UNCHANGED nlVars

\* HandleRecvMsg: the oldest reply.
HandleRecvMsg(t) ==
  \E r \in Caught(t, "recvmsg"), fd \in FDs :
    /\ Begins(t)
    /\ MayUse(t, fd) /\ HasData(fd)
    /\ m_netlinks' = [m_netlinks EXCEPT ![fd].reply_queue = Tail(@)]
    /\ AnswerCreator(t, r, fd)
    /\ UNCHANGED <<armed, todo, sender, m_entries>>

\* "unsupported" is a call that meets an assertion or an error of a handler: a
\* descriptor that is no netlink socket (bind, getsockname, sendmsg, recvmsg),
\* exceptfds in select, flags in sendto, a buffer too short for the reply.
HandleError(t) ==
  \E r \in Caught(t, "unsupported") :
    /\ Begins(t)
    /\ tr' = [tr EXCEPT ![t] = r]
    /\ ProcessStatusCode("error", t, Consumed(ready, t))
    /\ UNCHANGED nlVars

-----------------------------------------------------------------------------
\* HandleSendTo and HandleSendMsg: the messages have been read.
HandleSend(t) ==
  \E name \in {"sendto", "sendmsg"} : \E r \in Caught(t, name), fd \in FDs, batch \in Batches :
    /\ Begins(t)
    /\ MayUse(t, fd)
    /\ Len(m_netlinks[fd].reply_queue) <= MaxReplies
    /\ tr' = [tr EXCEPT ![t] = r]
    /\ ready' = Consumed(ready, t)
    /\ todo' = batch
    /\ sender' = [tid |-> t, fd |-> fd]
    /\ UNCHANGED <<sim, m_netlinks, armed, m_entries>>

Queued(fd, replies) ==
  [m_netlinks EXCEPT ![fd].reply_queue = @ \o replies]

\* Mutant: the finalizer is pushed when i, not i + 1, is nDevices.
MutDumpNotFinalized(kind) == [i \in 1 .. nDevices |-> kind]

\* The replies to a dump: one per device, and NLMSG_DONE after the last.
Dump(kind) ==
  [i \in 1 .. (IF nDevices = 0 THEN 0 ELSE nDevices + 1) |->
     IF i <= nDevices THEN kind ELSE "done"]

\* Mutant: already_handled stays false, so other sockets keep the callback.
MutHandledHereOnly(netlinks, t) == netlinks

\* The netlink sockets after already_handled was set for the select of thread t.
Handled(netlinks, t) ==
  [fd \in FDs |-> IF netlinks[fd].recv_callback = t
                  THEN [netlinks[fd] EXCEPT !.recv_callback = NoOne]
                  ELSE netlinks[fd]]

\* FAKE4 and ProcessStatusCode in a callback: the select of thread t returns.
Resume(t) ==
  /\ \E w \in Fake(tr[t], Requests) : tr' = [tr EXCEPT ![t] = w]
  /\ ProcessStatusCode("success", t, ready)
  /\ UNCHANGED pid

\* Mutant: recv_callback is not run.
MutDumpWakesNobody(m) ==
  /\ m.type \in {"getlink", "getaddr"}
  /\ m_netlinks' = Queued(sender.fd, Dump(m.type))
  /\ UNCHANGED <<tr, ready, pid, sim, armed, m_entries>>

\* RTM_GETLINK and RTM_GETADDR: the dump is queued and recv_callback is run.
ProcessDump(m) ==
  /\ m.type \in {"getlink", "getaddr"}
  /\ LET queued == Queued(sender.fd, Dump(m.type))
         waiter == m_netlinks[sender.fd].recv_callback
     IN \/ /\ waiter = NoOne
           /\ m_netlinks' = queued
           /\ UNCHANGED <<tr, ready, pid, sim, armed>>
        \/ /\ waiter # NoOne
           /\ m_netlinks' = Handled(queued, waiter)
           /\ armed' = [armed EXCEPT ![waiter] = FALSE]
           /\ Resume(waiter)
  /\ UNCHANGED m_entries

\* Mutant: destination and length are swapped.
MutEntrySwapped(m) == [dst |-> m.len, len |-> m.dst, gw |-> m.gw]

Entry(m) == [dst |-> m.dst, len |-> m.len, gw |-> m.gw]

\* RTM_NEWROUTE and RTM_DELROUTE: the table changes and an acknowledgement is
\* queued.  recv_callback is not run.
ProcessRoute(m) ==
  /\ \/ /\ m.type = "newroute"
        /\ m_entries' = AddRoute(m_entries, Entry(m))
     \/ /\ m.type = "delroute"
        /\ m_entries' = DelRoute(m_entries, Entry(m))
  /\ m_netlinks' = Queued(sender.fd, <<"ack">>)
  /\ UNCHANGED <<tr, ready, pid, sim, armed>>

\* The loop of a send over its messages; a message of another type stops it.
ProcessNlmsghdr ==
  /\ Running /\ todo # << >>
  /\ ProcessDump(Head(todo)) \/ ProcessRoute(Head(todo))
  /\ todo' = Tail(todo)
  /\ UNCHANGED sender

ProcessOther ==
  /\ Running /\ todo # << >>
  /\ Head(todo).type = "other"
  /\ sim' = "ended"
  /\ UNCHANGED <<tr, ready, pid, nlVars>>

\* The end of HandleSendTo and HandleSendMsg.
SendDone ==
  /\ Running /\ sender # NoSend /\ todo = << >>
  /\ FakeCreator(m_netlinks[sender.fd].pid, tr)
  /\ ProcessStatusCode("success", sender.tid, ready)
  /\ sender' = NoSend
  /\ UNCHANGED <<pid, m_netlinks, armed, todo, m_entries>>

-----------------------------------------------------------------------------
\* HandleSelect when a netlink socket has data, the timeout is zero, or no
\* emulated descriptor is in the sets: an immediate answer.
HandleSelectNow(t) ==
  \E r \in Caught(t, "select"), R \in SUBSET FDs, may_block \in BOOLEAN :
    /\ Begins(t)
    /\ may_block => R \cap Open = {} \/ \E fd \in R \cap Open : HasData(fd)
    /\ Answer(t, r)
    /\ UNCHANGED nlVars

\* HandleSelect when no netlink socket of the set has data: the callback is set
\* on each; others may be set on ns-3 sockets, and a timeout.
HandleSelectWait(t) ==
  \E r \in Caught(t, "select"), R \in (SUBSET Open) \ {{}}, others \in BOOLEAN :
    /\ Begins(t)
    /\ \A fd \in R : ~HasData(fd)
    /\ m_netlinks' = [fd \in FDs |-> IF fd \in R
                                     THEN [m_netlinks[fd] EXCEPT !.recv_callback = t]
                                     ELSE m_netlinks[fd]]
    /\ armed' = [armed EXCEPT ![t] = others]
    /\ tr' = [tr EXCEPT ![t] = r]
    /\ ProcessStatusCode("delayed", t, Consumed(ready, t))
    /\ UNCHANGED <<todo, sender, m_entries>>

\* Mutant: the timeout does not set already_handled.
MutSelectEndsUnhandled(t) ==
  /\ Idle /\ armed[t]
  /\ armed' = [armed EXCEPT ![t] = FALSE]
  /\ Resume(t)
  /\ UNCHANGED <<m_netlinks, todo, sender, m_entries>>

\* The timeout, or the callback of an ns-3 socket, ends the select of thread t.
SelectEnds(t) ==
  /\ Idle /\ armed[t]
  /\ m_netlinks' = Handled(m_netlinks, t)
  /\ armed' = [armed EXCEPT ![t] = FALSE]
  /\ Resume(t)
  /\ UNCHANGED <<todo, sender, m_entries>>

\* A packet for d arrives from the network: a route whose gateway no interface
\* reaches fails an assertion.
PacketArrives(d) ==
  /\ Idle /\ EnableRouting
  /\ sim' = IF RouteInput(m_entries, d, TRUE) = "assertion" THEN "ended" ELSE sim
  /\ UNCHANGED <<tr, ready, pid, nlVars>>

HandleSyscallBefore(t) ==
  \/ HandleSocket(t) \/ HandleClose(t) \/ HandleAddress(t)
  \/ HandleRecvMsgEmpty(t) \/ HandleRecvMsg(t) \/ HandleSend(t) \/ HandleError(t)
  \/ HandleSelectNow(t) \/ HandleSelectWait(t)

Next ==
  \/ \E t \in Threads : HandleSyscallBefore(t) \/ SelectEnds(t)
  \/ ProcessNlmsghdr \/ ProcessOther \/ SendDone
  \/ \E d \in Addresses : PacketArrives(d)

Spec == Init /\ [][Next]_vars

-----------------------------------------------------------------------------
\* The variables hold values of their kind.
TypeOK ==
  /\ tr \in [Threads -> [stop : Stops, call : Requests \cup {NoCall, GetPid}, ans : Answers]]
  /\ ready \in [Threads -> Nat]
  /\ pid \in Threads
  /\ sim \in {"running", "ended"}
  /\ m_netlinks \in [FDs -> [pid : Threads \cup {NoOne},
                             reply_queue : Seq({"getlink", "getaddr", "done", "ack"}),
                             recv_callback : Threads \cup {NoOne}]]
  /\ armed \in [Threads -> BOOLEAN]
  /\ todo \in Seq(Messages)
  /\ sender = NoSend \/ (sender.tid \in Threads /\ sender.fd \in Open)
  /\ m_entries \in Seq([dst : Addresses, len : 0 .. Width, gw : Addresses])

(***************************************************************************)
(* Handlers, callbacks and ptrace stops stay in step: a thread at an exit  *)
(* stop has exactly one HandleSyscallBefore event, and a thread at an      *)
(* entry stop, because it waits in select or its send is in progress, has  *)
(* none.                                                                   *)
(***************************************************************************)
InStep ==
  sim = "running" =>
    \A t \in Threads : ready[t] = IF tr[t].stop = "user" THEN 1 ELSE 0

(***************************************************************************)
(* What can still end a select belongs to a thread that waits in it: when  *)
(* a netlink reply, an ns-3 socket or the timeout has ended the select, no *)
(* other socket of its set keeps a callback that would answer a later call.*)
(***************************************************************************)
NoStrayCallback ==
  \A t \in Threads :
    armed[t] \/ (\E fd \in FDs : m_netlinks[fd].recv_callback = t)
      => tr[t].stop = "entry" /\ tr[t].call[1] = "select"

(***************************************************************************)
(* No thread sleeps on the replies of a dump: while a select waits for a   *)
(* netlink socket, only acknowledgements, which run no callback, can have  *)
(* come into its queue.                                                    *)
(***************************************************************************)
DumpWakesSelect ==
  \A fd \in FDs :
    m_netlinks[fd].recv_callback # NoOne =>
      \A i \in DOMAIN m_netlinks[fd].reply_queue : m_netlinks[fd].reply_queue[i] = "ack"

(***************************************************************************)
(* An application that calls recvmsg until NLMSG_DONE never finds the      *)
(* queue empty before: whatever is sent and fetched in whatever order, the *)
(* replies of a dump stay together and NLMSG_DONE follows the last.        *)
(***************************************************************************)
DumpsTerminated ==
  \A fd \in FDs :
    LET q == m_netlinks[fd].reply_queue IN
    \A i \in DOMAIN q : q[i] \in {"getlink", "getaddr"} =>
      i < Len(q) /\ q[i + 1] \in {q[i], "done"}

(***************************************************************************)
(* "FAKE waits for kernel's answer to a priv. issued syscall and replaces  *)
(* kernel's answer" (ptrace-utils.h): what is faked is a call the thread   *)
(* has issued, so the thread is at the exit of that call afterwards.       *)
(***************************************************************************)
FakeAnswersIssuedCall ==
  \A t \in Threads : tr[t].ans = "sim" => tr[t].stop = "user"

-----------------------------------------------------------------------------
Table == INSTANCE RouteTable
           WITH routes <- RoutesOf(m_entries), pending <- todo

(***************************************************************************)
(* The vector m_entries, changed through netlink by any thread, implements *)
(* the map from prefixes to gateways that RouteTable specifies: every      *)
(* request of every send takes effect, once and in order.                  *)
(***************************************************************************)
ImplementsTable == Table!TableSpec

(***************************************************************************)
(* The scan of m_entries finds a route exactly when a prefix of the table  *)
(* contains the destination, and then one through the gateway of a longest *)
(* such prefix.                                                            *)
(***************************************************************************)
LongestPrefixMatch ==
  \A d \in Addresses :
    LET best == Best(m_entries, d) IN
    IF Table!Covering(d) = {} THEN best = NoMatch
    ELSE best.len >= 0 /\ best.gw \in Table!NextHops(d)
=============================================================================
