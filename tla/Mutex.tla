-------------------------------- MODULE Mutex --------------------------------
(***************************************************************************)
(* What a mutex promises to the threads of a program: it is free or one    *)
(* thread holds it, only a free one is taken, and nothing but its holder's *)
(* release makes it free.                                                  *)
(***************************************************************************)
CONSTANT Threads

VARIABLES
  holders,   \* the threads that hold the mutex
  free       \* TRUE: the next thread that asks for it takes it

MutexInit == holders = {} /\ free = TRUE

Acquire(t) == free /\ holders' = {t} /\ free' = FALSE
Release(t) == holders = {t} /\ holders' = {} /\ free' = TRUE

MutexSpec ==
  MutexInit /\ [][\E t \in Threads : Acquire(t) \/ Release(t)]_<<holders, free>>
=============================================================================
