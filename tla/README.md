# gRaIL: TLA+ specifications

gRaIL runs an unmodified Linux program inside the ns-3 simulator. It traces the
program with `ptrace`, stops every thread at every system call, and answers the
calls that touch time, randomness or the network from the simulation. These
modules model how it does that, the configurations check the models with TLC on
small instances, and eight modules prove results with TLAPS for every value of the
constants: `GrailThreadsProofs` about threads, `GrailSocketsProofs` about the
descriptor tables and `GrailSocketsWaitProofs` about the calls that wait,
`NetlinkProofs` and `NetlinkWaitProofs` about the routing table and the sockets that
configure it, `HgRoutingProofs` about the search for a route, `GrailFutexProofs`
about mutexes and the back-off of polling threads, and `TracerProofs` the lemmas
about ptrace that they share.

## The system

| Component | State | Operations | Models |
|---|---|---|---|
| ptrace primitives (`model/ptrace-utils.h`) | the ptrace stop, `orig_rax` and `rax` of every traced thread | `WaitForSyscall`, `FAKE`, `FAKE2`, `FAKE4`, memory copies | `Tracer`, `TracerProofs` |
| dispatcher and threads (`model/grail.cc`) | `pid`, the ns-3 event list, `tid_vector` | `HandleSyscallBefore`, `ProcessStatusCode`, `clone`, `nanosleep`, `exit`, `exit_group`, handlers without state | `GrailThreads`, `GrailThreadsProofs` |
| descriptors and sockets (`model/grail.cc`) | `availableFDs`, `m_sockets`, `m_fakeAcceptedSockets`, the socket state sets, callbacks registered with ns-3 | `socket`, `open`, `close`, `fcntl`, `listen`, `connect`, `accept`, `read`, `recvfrom`, `write`, `select`, and the callbacks | `GrailSockets`, abstractly `BlockingCalls`, `GrailSocketsProofs`, `GrailSocketsWaitProofs` |
| poll loop detection (`model/poll-detector.h`) | `previousCallQualified`, `pollSteps` | one step per call | `PollLoop`, `GrailFutexProofs` |
| futex waits in simulated time (`model/grail.cc`) | the time of each thread's next event | `futex`, `nanosleep`, `clone`, `exit`, calls answered at once | `GrailFutex`, abstractly `Mutex`, `GrailFutexProofs` |
| test programs (`mt/`, `mt/evaluation/`) | a mutex, a condition variable, a counter, thread ids | their `main` and thread functions | `MtPrograms` |
| netlink sockets (`model/netlink.cc`) | the reply queue, `recv_callback`, the creator's `pid` | `bind`, `getsockname`, `sendto`, `sendmsg`, `recvmsg`, and `socket`, `close`, `select` of `model/grail.cc` on them | `Netlink`, `NetlinkWaitProofs` |
| routing table (`model/route.cc`) | `m_entries` | `AddRoute`, `DelRoute`, `RouteOutput`, `RouteInput` | `HgRouting`, `AddressBits`, abstractly `RouteTable`, `NetlinkProofs`, `HgRoutingProofs` |
| address conversion, lambda adapters, syscall names, vDSO preload, helper, examples, runners | none | pure conversion, I/O, set-up | not modelled |

The components interact through the ns-3 event list and through callbacks. A
handler answers at once (`FAKE`, then `SYSC_SUCCESS`), or returns `SYSC_DELAYED`
after it registered a callback or scheduled an event that will answer later. The
later answer runs in the simulator's loop, when `this->pid` may be any thread,
when the descriptor may have been closed and reused, and when other callbacks of
the same call may still be registered. That is where the code is hard to test:

* which thread a callback answers (`FAKE2` uses `this->pid`, `FAKE4` uses the
  captured `saved_pid`);
* whether exactly one continuation exists for a thread at every moment;
* whether the thread is at the stop the handler assumes (a `FAKE` at an exit stop
  runs user code up to the *next* call);
* what is left in the tables and in the callback slots when a call is over;
* whether a thread that waits will ever be resumed;
* whether simulated time passes at all while a thread polls;
* whether a routing table changed by several threads routes by its longest prefix.

The full list is `hazards` in `PROJECT.json`.

## How the models correspond to the code

**Time and atomicity.** The simulator is one OS thread and an ns-3 event runs to
completion, blocking `waitpid` calls included, so one event is one action (in
`Netlink` and `GrailFutex` an event may be several, between which no other event
runs). A traced thread moves only inside `WaitForSyscall`. The order of events is
left open: ns-3 orders them by time, and the models allow every order. Only
`GrailFutex` has a clock.

**Tracer.** `tr[t]` holds the stop of thread t (`user`: it runs user code when
continued, that is, it is at an exit stop or new; `entry`: at the entry of a
call), the call, and who answered it last. A call is a pair of a name and the
branch of the handler which its arguments select; arguments stay in the registers
while the call lasts, so a handler that runs twice takes the same branch.
`WaitForSyscall(r, calls)` is the set of states the tracee may stop in next,
`Fake` is the macro built on it, and `ProcessStatusCode` is the rescheduling.
`sim` is `ended` after `exit(1)` or a failing assertion, and `blocked` when
`waitpid` does not return.

**GrailThreads.** Handlers without state of their own (`HandleIoctl`,
`HandleGetSockOpt`, ...) are sets of branches, one name per way they treat the
ptrace protocol; `Handler` is the switch. The actions are named after what the
code does with a branch: `HandleFaked`, `HandleStored` (`clock_gettime` writes its
answer but does not fake the call), `HandleBare` (`exit`, and the `ioctl` that
finds no device, which returns without `FAKE`), `HandleError`, and so on.
`nanosleep`, `clone` and `exit_group` have actions of their own; `WakeUp` is the
callback of `nanosleep`. `HandleErrTid` is `HandleSyscallBefore(-errno)` after a
clone the kernel refused; it reads an uninitialised `status`, so all its outcomes
are possible. `ExitUnreported` is the kernel's rule that the exit of a thread
group leader is reported after that of all other threads.

**GrailSockets.** The tables keep the names of `Priv` (`m_sockets[fd]` is `NoSock`
where the map has no entry). ns-3 is external and modelled from how the code uses
it: `life` is what a socket can do, `rx` and `full` are its buffers as
`GetRxAvailable` and `GetTxAvailable` report them, and each socket has one slot for
each kind of callback. `Receive`, `Drain`, `ConnectDone` and `Incoming` are the
ns-3 events that run the registered lambda, all of it: the answer, the tables, the
reset of the slot. The three `HandleSelect...` actions are the outcomes of
`HandleSelect`. A select callback whose `already_handled` is set does nothing, so
the model writes it as an empty slot. All threads exist from the start.

The modelled environment is limited where the code gives no meaning to a case:
a closed ns-3 socket delivers nothing more, an attempt to connect starts on fresh,
connecting or UDP sockets only, the send buffer of a UDP socket is never full, and
select is given no netlink descriptors (`Netlink` models those). `Connect()` of ns-3
fails at once when there is no route; `HandleConnect` ignores its result and returns
`SYSC_DELAYED`, and the model does the same.

`Waits` selects which blocking waits a run includes. Two members, `Hopeless`, stand for
the waits that no event of ns-3 ends: `no_route` for a connect without a route,
`no_peer` for a read, recvfrom, accept or select on a socket that is not connected
or does not listen. Accordingly there are two predicates on a waiting thread:
`Registered`, a callback or timeout is registered that resumes it, and `Armed`, an
event of ns-3 that is possible in this state would run one. `NoStrayWakeup` speaks
of the first and `NoThreadForgotten` of the second.

**BlockingCalls** is what all of that should amount to for a thread: its call begins
to wait with an event possible that can end it, is ended once and by such an event,
and takes along whatever else could have ended it; a callback neither ends nor loses
the wait of another thread. Only a call of a running thread may lose what others wait
for, since the code lets a `close` or a second wait on a socket do so.
`GrailSockets!ImplementsCalls` maps the threads at entry stops to the waits and the
events of ns-3 and timeouts that would resume them (`Armed`) to what can end them.

**Netlink.** `m_netlinks[fd]` has the fields of `NetlinkSocket` that decide what
happens: the `pid` of the creator, the `reply_queue` as kinds of reply, and
`recv_callback` as the thread whose select it would end. A send is an event that
runs `ProcessNlmsghdr` once per message, and a dump may run the callback of another
thread's select in the middle; `todo` and `sender` hold the send in progress, its
messages are one step each, and `Idle` lets no other event start before
`SendDone`. `armed[t]` stands for whatever else may end the select of t, its timeout
or an ns-3 socket of its set, so `SelectEnds` composes the netlink part of `select`
with the part in `GrailSockets`. As there, a callback whose `already_handled` is set
is an empty slot. `Sharing` says whether threads use sockets that others have
created, which `netlink_creator` refutes and `netlink` leaves out; a select on
another thread's socket is allowed in both. Messages on which an assertion fails
are of type "other", handlers on which one fails are `HandleError`.

**HgRouting** has the table as the vector it is, with the linear scans of
`route.cc` (`Found` for `std::find` with `operator==`, `Best` as a recursive
function for the loop over the entries, `InterfacesFor` for the two loops over the
addresses of the node). **RouteTable** is what it should amount to: a function from
prefixes to gateways, requests applied in order, once each, and a definition of the
longest matching prefix by the bits of an address. `Netlink!ImplementsTable` maps
`m_entries` to that function and `todo` to the requests that are pending.
**AddressBits** has what both say about addresses. Its powers of two are a recursive
function and not the operator `^`, of which the provers know nothing.

**PollLoop and GrailFutex.** `HandleFutex` answers a `FUTEX_WAIT` whose value matches
with 0 at once, so a waiting thread polls, and others get on only because each call
costs `SyscallProcessingTime` and the back-off of the one detector. `due[t]` is the
time until the event of thread t, relative to now, in units of 100 ns; `Advance` lets
time pass when no event is due. A thread runs alone from one call to its next;
`running` names it, and the instructions in between are one step each. The pthread
functions are external: the lock word with the values 0, 1 and 2 of glibc's mutex, a
condition variable as counts of waiters and signals, `join` as a futex wait on the
thread id that the kernel clears. `FutexWait` omits the branch where the value does
not match: the pthread functions compare it after their last call, so in these
programs it always does. **MtPrograms** gives the programs as instructions; `await` is
the wait loop of `cond-var-test` with its two output calls (`AwaitWrites`), made with
the lock held, which reset the detector for all. **Mutex** is the abstract mutex: it
is taken only when free, freed only by its holder, and free whenever nobody holds it.
`GrailFutex!ImplementsMutex` maps the sections between the `lock` and `unlock`
instructions to its holder and the lock word to whether it is free.

## What the runs check

Passing runs:

| Run | Instance | Properties |
|---|---|---|
| `threads` | 3 threads, one representative call per branch of the dispatcher, one refused clone, `MayQuit` | `TypeOK`, `OneContinuation`, `StopsMatchEvents`, `SimulatedAnswers`, `CallsReturn` |
| `sockets_fds` | 1 thread, 2 descriptors, 3 sockets, hopeless waits included | `TypeOK`, `FdPartition`, `FdSetsCurrent`, `OneOwner` |
| `sockets_steps` | 1 thread, 2 descriptors, 2 sockets | `InStep`, `NoStrayWakeup`, `NoThreadForgotten` |
| `sockets_threads` | 2 threads, 1 descriptor, 2 sockets | `InStep`, `NoStrayWakeup`, `ImplementsCalls` |
| `netlink` | 2 threads, 2 netlink sockets, addresses of 2 bits, 2 interface addresses, 8 kinds of send | `TypeOK`, `InStep`, `NoStrayCallback`, `DumpWakesSelect`, `DumpsTerminated`, `OneEntryPerPrefix`, `LongestPrefixMatch`, `ImplementsTable` |
| `futex` | 4 threads, 10 programs of `mt/` and 4 poll loops, each with up to 3 settings of the attributes | `TypeOK`, `BackoffBounded`, `MutualExclusion`, `ImplementsMutex`, `ProgramEnds` |

`OneContinuation` and `StopsMatchEvents` say that the dispatcher and the ptrace stops
never get out of step. `SimulatedAnswers` says exactly whose answer a call that has
returned carries: the kernel's if no handler emulates the call, or if it is the
`ioctl` that finds no device (`grail.cc:917` returns without `FAKE`, so the
application gets what the kernel says of a descriptor it does not know), and the
simulator's in all other cases. `CallsReturn` says that no intercepted call waits for
ever while the simulation goes on. `FdPartition`, `FdSetsCurrent` and `OneOwner` say
that descriptors can be reused safely. `InStep`, `NoStrayWakeup` and
`NoThreadForgotten` say that every wait is ended exactly once, and `ImplementsCalls`
says it of the steps, of all threads together: also with two threads no wait begins
without an event that can end it. For netlink, `NoStrayCallback` says the same of a
select that a reply, another socket and the timeout race to end; `DumpWakesSelect` and
`DumpsTerminated` are what an application relies on that waits for a dump and reads it
to its end; the other three say that the routing vector, in whatever order it was
changed, is a map of prefixes in which the longest match wins. `ProgramEnds` is the
point of the detector: no waiting thread stops the clock. `MutualExclusion` says that
mutexes survive waits that return although nobody woke the thread, `ImplementsMutex`
that such a wait neither takes the mutex from its holder nor leaves it locked for
good, and `BackoffBounded` that the price is at most a millisecond per call, also for
threads that do not poll.

Runs that show the code disagree with its own comments (`findings` in
`PROJECT.json` quotes them):

| Run | What the trace shows |
|---|---|
| `accept_twice` | the accept callback runs a second time and fakes a call that was not issued |
| `select_wrong_thread` | the receive callback of select answers another thread |
| `select_drops_connection` | after a select on a listener has ended, a connection is dropped |
| `close_keeps_pending` | a closed listener leaves its pending connection to the next owner of the descriptor |
| `connect_no_route` | a connect without a route is delayed, and nothing is left that resumes the thread |
| `netlink_creator` | a netlink call of one thread fakes a call of the thread that created the socket |

Other limits of the code that the models contain and no run reports: with `MayQuit`,
`exit_group` leaves the other threads running (`HandleExitGroup`); a clone the kernel
refuses puts its error number into `tid_vector` and schedules it
(`HandleCloneRefused`, `HandleErrTid`); a blocking write on a full socket is never
resumed; a read, recvfrom or select on a TCP socket that is not connected waits for
ever, where Linux answers at once, and so does an accept after ns-3 has refused to listen,
since `listen` marks the descriptor all the same; a route through a gateway that no
interface reaches ends the simulation with the first packet (`PacketArrives`); and
with the default attributes a loop of calls that the detector does not count, such as
`clock_gettime`, stops the clock, which is why `futex` runs those loops with a
processing time only.

The passing runs on waits leave out the waits those runs refute, and all hopeless
ones: `sockets_steps` has no blocking `accept` or `write`, and `sockets_threads` uses
only waits whose callbacks answer `saved_pid`, or nobody (the blocking `write`). With
two threads `NoThreadForgotten` is not checked, because a second wait on a socket
replaces the callback of the first, and because a thread may close the socket another
one waits on. `sockets_fds` is about the tables and includes the blocking `accept` and
the hopeless waits.

**Bounds.** Three threads are the fewest with which a thread can be created, end and
sleep while two others interleave. The name of a call does not matter to the
dispatcher once its branch is known, so one call per branch covers all of them. Two
descriptors with three sockets make descriptors run out and be reused; `sockets_fds`
leaves out the calls that touch no table. One descriptor that two threads close and
reopen is enough for a wait to outlive the socket it was for; two sockets are enough
for a select with a callback on one that ends while the other is still registered, and
for a listener with its connection. `MaxRefused` bounds the pending events of refused
clones. ns-3 sockets are interchangeable (`Interchangeable`), which is sound for
invariants.

In `netlink` a send starts only when at most `MaxReplies` replies are queued in its
socket, here none, which bounds the queue; the dump of one device already has a
finalizer to misplace, and `netlink_creator` uses two devices and a longer queue.
Two sockets are the fewest for a select whose other socket keeps a callback. The
messages add, replace and delete a default route, two prefixes of one network and a
gateway off every link, alone and several in one send. In `futex` the
longest back-off is `Cap` = 4 units in place of 10000 and `pollSteps` wraps around at
`StepsMod` = 8 in place of 2^32, so both limits are passed many times; sleeps are
3 or 5 units, longer than a short back-off and no multiple of it. Three workers of
two rounds contend for the mutex while another is inside and a third has not
started.

**Deadlock** is checked in no run, since in each the system really may stop: the
simulation ends on an error, blocks in `waitpid`, or every thread exits (in `futex`,
at the end of the program). That no thread is left waiting while the others go on
is what `CallsReturn`, `NoThreadForgotten` and `ProgramEnds` say.

**Fairness.** `FairSpec`, which `threads` checks, is weak fairness of each thread's
events and callbacks: ns-3 runs everything it has scheduled as long as simulated time
advances. That holds when `SyscallProcessingTime` is above 0; with the default of 0 it
needs the back-off of the poll loop detector, or a program that does not call in a
loop for ever. `GrailFutex` does not assume that time advances but shows it:
`FutexSpec` has weak fairness of the simulator as a whole, which runs as long as there
are events, and strong fairness of each thread's event, because ns-3 runs events of
one time in the order in which they were scheduled and so passes over none for ever.
`Advance` is a step like any other; a thread that polls without delay keeps it
disabled.

Every property of a passing run has a mutant, an operator named `Mut...` next to
the definition it alters, that makes TLC report the property as violated.

## What is proved

`GrailThreadsProofs` proves, for every set of threads, every program and every
value of `MayQuit` and `MaxRefused`:

* `TypeCorrect`: `Spec => []TypeOK`
* `ContinuationUnique`: `Spec => []OneContinuation`
* `DispatcherInStep`: `Spec => []StopsMatchEvents`
* `AnswersSimulated`: `Spec => []SimulatedAnswers`, with the failing `ioctl` named in
  `SimulatedAnswers` itself (`AnsweredByKernel`)

The assumptions are those of the modules: `Main` is a thread, `MayQuit` is Boolean,
`Program` maps threads to calls the dispatcher knows, and an error number is
not a thread id.

None of the four is inductive alone. That a handler leaves one continuation needs
that there was exactly one before; that a `FAKE` lands on an entry stop needs
`StopsMatchEvents`, which excludes that a handler other than a "store" or "bare"
one is run at an exit stop; and that needs `OneContinuation`, since an event and a
sleeping callback of one thread at a time would break it. Their conjunction `Inv`,
restated thread by thread as `Local`, is inductive. `CaughtThread` says what a
handler may rely on, `OneThreadMoves` reduces a step to the thread it moves, and one
lemma per action does the rest; `clone` moves two threads and is proved directly.

`GrailSocketsProofs` proves, for every set of threads, descriptors and ns-3 sockets
and every choice of `Calls` and `Waits`, blocking accept included:

* `DescriptorsPartitioned`: `Spec => []FdPartition`
* `SetsDescribeSocket`: `Spec => []FdSetsCurrent`
* `SocketsHaveOneOwner`: `Spec => []OneOwner`

The assumptions are that `Main` is a thread and that `NoSock` is not a
socket; what the model assumes of ns-3 is above, in particular that a closed socket
delivers nothing more. The inductive invariant `TableInv` adds the types of the
tables and two facts to the three. `PendingEstablished`: a pending connection is
established, so `socket()`, which takes a fresh ns-3 socket, cannot take a pending one.
`ConnectingOwned`: a connecting socket still has the descriptor its callback
captured, so that the late `m_connectedSockets.insert(sockfd)` marks the right
one; it holds because `close` ends the connecting. `SocketGetsDescriptor` is the
common part of `socket()` and both forms of accept, `TablesUntouched` covers the
handlers that only wait or answer, and every other action has a lemma of its own.
TLC finds `TableInv` invariant on the instances of `sockets_fds` and
`sockets_threads`.

`NetlinkProofs` proves, for every width of addresses, every set of threads,
descriptors, interfaces and sends, sockets shared between threads or not:

* `PrefixesDistinct`: `Spec => []OneEntryPerPrefix`
* `TableRefined`: `Spec => ImplementsTable`, the refinement of `RouteTable`

`TableInv` is the inductive invariant. It says that the prefixes of the vector are
distinct, and that messages are pending only while a send is in progress, so
that the next send cannot overtake them. Distinct prefixes are what makes `std::find`
meet the only match (`FoundOnce`), so that erasing and appending are the removal and
the replacement of a prefix in the map (`ErasedRoute`, `AddedRoute`).

`NetlinkWaitProofs` proves about the sockets, for every number of devices as well:

* `TypeCorrect`: `Spec => []TypeOK`
* `SelectsWoken`: `Spec => []DumpWakesSelect`
* `DumpsEnd`: `Spec => []DumpsTerminated`
* `ThreadsInStep`: `~Sharing => (Spec => []InStep)`
* `SelectsEndOnce`: `~Sharing => (Spec => []NoStrayCallback)`

`QueueStep` lists all a step may do to a queue and its callback, from which the
second and third follow by lemmas about `Tail` and `\o`. The last two need that
a thread uses only sockets it has created, which `netlink_creator` shows to be
necessary. Their inductive invariant `StepInv` is the conjunction of the two and
`SendOwned`: the thread whose send is in progress is at the entry of that call. It
therefore waits in no select, and the waiter its dump resumes is another thread.

`HgRoutingProofs` proves, for every width of addresses and every table, whatever
sequence of requests built it:

* `PacketsRouted`: `Spec => []LongestPrefixMatch`

`Best` is a recursive function, and what it finds is a statement about all tables, so
the proof is an induction. It is done by least counterexample: were there a
table position at which the statement fails there would be a first one
(`LeastNatural`, from the well-foundedness of `<` on the naturals), and the step from
the position before refutes it (`NoLeastFailure`). The same argument gives that the
two recursive functions exist at all (`Pow2Exists`, `ScanExists`).
`MaskComparesBits` is the arithmetic: masking two addresses as `RouteOutput` does and
comparing them is the same as comparing their leading bits one by one.
`TurnKeepsBest` is one turn of the loop, `BestIsLongest` the loop, and
`BestIsNextHop` relates its result to `RouteTable`, for which it needs the distinct
prefixes of `PrefixesDistinct`.

`GrailSocketsWaitProofs` proves, under the assumptions of `GrailSocketsProofs`:

* `TypeCorrect`: `Spec => []TypeOK`
* `ThreadsInStep`: `Fake2Unused => (Spec => []InStep)`
* `WakeupsBelong`: `Fake2Unused => (Spec => []NoStrayWakeup)`
* `CallsImplemented`: `Fake2Unused /\ Hopeful => (Spec => ImplementsCalls)`, the
  refinement of `BlockingCalls`
* `WaitersResumable`: `Resumable => (Spec => []NoThreadForgotten)`

The types hold without condition, also after a callback has moved the wrong thread.
`Fake2Unused` says that no `accept` waits, and that a `select` waits for data only if
there is one thread: these are the two callbacks with `FAKE2`, and `accept_twice` and
`select_wrong_thread` show that the theorems are false with them. `Resumable` says
that there is one thread, that it waits neither in `accept` nor in `write`, and that
it is `Hopeful`: `Waits` has no hopeless wait. `connect_no_route` shows that the last
is necessary. A blocking write is never resumed, and a second thread may close the
socket the first one waits on or replace its callback; each makes `NoThreadForgotten`
false. Any number of descriptors and sockets, and every order of calls and ns-3
events, are covered.

The inductive invariant `StepInv` has `InStep`; `StrayFree`, which is `NoStrayWakeup`
for all calls that can wait; `Fake2Free`, that no `FAKE2` callback is registered but
for the one thread; and two facts that say why a callback resets enough when it resets
one slot: `OneReceiver`, a thread waits in `read` or `recvfrom` of one socket, and
`OneConnecting`, the same for `connect`. A handler is summed up as `Goes` (the call is
answered) or `Stays` with `Waiting` (it waits, and begins no wait but its own), an
event as `Quiet`, `Wakes` or `Aborts`; `NextOutcome` shows that there is nothing else,
and the theorems are proved from these five, not from the actions.

That a registered callback can run is a second invariant, `SlotsLive`: in a `Hopeful`
application a callback that resumes a thread is on a socket whose events run it, or on
a closed one. `Gains` says that a wait registers callbacks only on such sockets, and
`LifeStep` that what a socket delivers it goes on delivering until it is closed.

`GrailFutexProofs` proves, for every set of threads and programs, every setting of the
attributes, every `Cap` above 0 and every width of the counter:

* `TypeCorrect`: `FutexSpec => []TypeOK`
* `DelaysBounded`: `FutexSpec => []BackoffBounded`
* `SectionsExclude`: `LocksPaired => (FutexSpec => []MutualExclusion)`
* `MutexRefined`: `LocksPaired => (FutexSpec => ImplementsMutex)`, the refinement of
  `Mutex`

The bound on delays is inductive with the types it is computed from (`BackoffInv`);
that the counter is shared by all threads and wraps around does not matter, since
`GetDelay` is at most `Cap` for every count.

`LocksPaired` is what POSIX asks of a program: a thread unlocks a mutex, or waits for a
condition with it, only after it has locked it. TLC evaluates it for the programs of
`mt/` and the poll loops (`ProgramsLockPaired`). Mutual exclusion is not inductive: that
a thread enters while another is inside is excluded by the lock word. `MutexInv` adds
that the lock word is 0 if and only if no thread holds the mutex. That a
waiter counts in the word as 2 plays no part in safety: a thread that `HandleFutex`
sends back without a wake tries the word again, and every order of such tries is
covered.

Two properties stay with TLC: `CallsReturn` and `ProgramEnds`, which are liveness under
fairness. Every invariant and every other temporal property of the passing runs is
proved, some under the hypotheses above, which the runs that check them satisfy.

## Not modelled

* Signals, and tracees killed by one: no handler of the code deals with them.
* Register access, memory copies, address conversion, the values of answers and
  the attributes of netlink messages are data no property tells apart. One of them
  is worth a look: `sendto` on a netlink socket answers with what its loop has left
  of the length (`netlink.cc:200`), which is 0.
* `nl_pid` is read before `bind` without having been set (`netlink.cc:97`); it is
  reported to the application and used nowhere else.
* The client and server programs of `mt/client-server` use sockets; `GrailSockets`
  admits their calls in every order. `mt/evaluation/busy-wait.cc` waits in a loop
  without calls, which the tracer cannot interrupt (`HandleStuck`).
* `HandleAlarm` fails an assertion at once, so its timer is never set.
* Lambda adapters, names for logging, the vDSO preload library, helper, examples and
  runners have no state of their own.

## Plan

1. Weaker hypotheses: `NoThreadForgotten` for several threads of which no two share a
   descriptor, and `ThreadsInStep` for selects of which only one thread waits for data.
2. An abstract specification of the dispatcher (a call is issued, then answered by the
   simulator or left to the kernel, once) that `GrailThreads` implements.
