---------------------------- MODULE BlockingCalls ----------------------------
(***************************************************************************)
(* What the simulator promises to threads that wait in system calls: a     *)
(* call that waits has something registered that can end it, it is ended   *)
(* once, by something registered for it, and with it goes all that could   *)
(* have ended it.  What a thread waits for is lost only by a call of a     *)
(* running thread (a close, or a wait on the same socket).                 *)
(***************************************************************************)
CONSTANTS
  Threads,   \* the threads of the application
  Names,     \* the calls in which a thread may wait
  Endless    \* those of them that nothing ends

None == "none"

VARIABLES
  waits,     \* waits[t]: the call thread t waits in, or None
  wakers,    \* the pairs <<t, c>>: something can end the call c of thread t
  running    \* the simulation runs

Init ==
  /\ waits = [t \in Threads |-> None]
  /\ wakers = {}
  /\ running = TRUE

\* A call is answered at once.
Call(t) ==
  /\ waits[t] = None
  /\ wakers' \subseteq wakers
  /\ UNCHANGED <<waits, running>>

\* A call begins to wait.
Wait(t, c) ==
  /\ waits[t] = None
  /\ waits' = [waits EXCEPT ![t] = c]
  /\ wakers' \subseteq wakers \cup {<<t, c>>}
  /\ c \in Endless \/ <<t, c>> \in wakers'
  /\ UNCHANGED running

\* A call that waits is ended.
Return(t) ==
  /\ <<t, waits[t]>> \in wakers
  /\ waits' = [waits EXCEPT ![t] = None]
  /\ wakers' = {w \in wakers : w[1] # t}
  /\ UNCHANGED running

\* The simulation ends, and with it every call.
End ==
  /\ running' = FALSE
  /\ waits' = [t \in Threads |-> None]
  /\ wakers' = {}

Next ==
  /\ running
  /\ \/ \E t \in Threads : Call(t) \/ Return(t) \/ \E c \in Names : Wait(t, c)
     \/ End

Spec == Init /\ [][Next]_<<waits, wakers, running>>
=============================================================================
