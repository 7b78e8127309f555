------------------------------ MODULE MtPrograms ------------------------------
(***************************************************************************)
(* The programs of mt/ that run under the simulator, as instructions of    *)
(* GrailFutex.  The number of threads and of rounds is a parameter where   *)
(* the programs use a constant; computations make no call and are left     *)
(* out.                                                                    *)
(***************************************************************************)
EXTENDS Naturals, SequencesExt

CONSTANTS
  MtMain,    \* the thread that runs main
  Workers,   \* the threads it creates, in this order
  Rounds     \* loops of a worker

Do(op)          == <<op, "none">>
Rep(s)          == FlattenSeq([i \in 1 .. Rounds |-> s])
Each(ws, s(_))  == FlattenSeq([i \in 1 .. Len(ws) |-> s(ws[i])])

\* The program of two functions, which waits for no deadline.
Program(main, worker) ==
  [code |-> [t \in {MtMain} \cup Range(Workers) |-> IF t = MtMain THEN main ELSE worker],
   until |-> 0]

CreateVerbose(u) == <<Do("write"), <<"create", u>>>>
JoinVerbose(u)   == <<<<"join", u>>, Do("write")>>
Create(u)        == <<<<"create", u>>>>
Join(u)          == <<<<"join", u>>>>

\* main creates the threads ws and joins them; its pthread_exit is that of the
\* last thread, which glibc turns into exit_group.
MainVerbose(ws) ==
  <<Do("write")>> \o Each(ws, CreateVerbose) \o Each(ws, JoinVerbose)
    \o <<Do("write"), Do("exit_group")>>

MainQuiet == Each(Workers, Create) \o Each(Workers, Join) \o <<Do("exit_group")>>

\* One thread, and several threads, that write once.
Test1 == Program(MainVerbose(<<Workers[1]>>), <<Do("write"), Do("exit")>>)
Test2 == Program(MainVerbose(Workers), <<Do("write"), Do("exit")>>)

\* Rounds of output; io-mt-test is the same with more threads.
Test3 == Program(MainVerbose(Workers), Rep(<<Do("write")>>) \o <<Do("exit")>>)

\* Rounds of output and sleep.
Test4 ==
  Program(MainVerbose(Workers), Rep(<<Do("write"), <<"sleep", 3>>>>) \o <<Do("exit")>>)

\* Rounds of sleep.
ScalabilityTest == Program(MainQuiet, Rep(<<<<"sleep", 3>>>>) \o <<Do("exit")>>)

\* A computation.
ExpMtTest == Program(MainQuiet, <<Do("exit")>>)

\* Additions under a mutex; correctness-test is the same program.
MutexLockingTest ==
  Program(MainVerbose(Workers),
          Rep(<<Do("write"), Do("lock"), Do("add"), Do("unlock")>>) \o <<Do("exit")>>)

\* Workers count themselves done under a mutex and signal a condition variable;
\* main waits until all are, with output before and after each wait.
CondVarTest ==
  Program(<<Do("write")>> \o Each(Workers, Create)
            \o <<Do("lock"), <<"await", Len(Workers)>>, Do("write"), Do("unlock"),
                 Do("exit_group")>>,
          Rep(<<Do("write"), <<"sleep", 3>>>>)
            \o <<Do("lock"), Do("add"), Do("write"), Do("signal"), Do("unlock"), Do("exit")>>)

\* One thread that sleeps, and one that writes (test-0, io-st-test).
Sleep    == Program(<<<<"sleep", 5>>, Do("exit_group")>>, << >>)
IoStTest == Program(Rep(<<Do("write")>>) \o <<Do("exit_group")>>, << >>)

\* A protocol process that asks for the time until a deadline, here at 7.
Poller(syscall) ==
  [Program(<<<<"poll", syscall>>, Do("exit_group")>>, << >>) EXCEPT !.until = 7]

\* The same in each of several threads.
Pollers(main, worker) ==
  [Program(Each(Workers, Create) \o <<<<"poll", main>>>> \o Each(Workers, Join)
             \o <<Do("exit_group")>>,
           <<<<"poll", worker>>, Do("exit")>>) EXCEPT !.until = 7]
=============================================================================
