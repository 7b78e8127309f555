--------------------------- MODULE MCGrailThreads ---------------------------
(***************************************************************************)
(* Small instances of GrailThreads: what the code of each thread may call. *)
(***************************************************************************)
EXTENDS GrailThreads

CONSTANTS m, w1, w2

\* One representative call per branch of the dispatcher, also one that blocks in
\* the kernel and one that stops the simulator.
Branches == {<<"passthrough", "system">>, <<"getpid", "fake">>,
             <<"clock_gettime", "store">>, <<"ioctl", "bare">>,
             <<"nanosleep", "sleep">>, ExitCall, <<"clone", "clone">>,
             <<"exit_group", "exit_group">>, <<"futex", "block">>,
             <<"unsupported", "abort">>}

\* The second worker takes those that leave it neither answered nor stopped.
MCEverything ==
  [t \in Threads |->
     IF t = w2 THEN Branches \ {<<"passthrough", "system">>, <<"getpid", "fake">>,
                               <<"unsupported", "abort">>, <<"clone", "clone">>}
     ELSE Branches]
=============================================================================
