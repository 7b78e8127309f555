------------------------------- MODULE PollLoop -------------------------------
(***************************************************************************)
(* The poll loop detector (model/poll-detector.h): a run of calls that may *)
(* belong to a poll loop is answered later and later, so that simulated    *)
(* time passes in a loop whose calls take none.  There is one detector for *)
(* all threads of the application.  Times are in units of 100 ns.          *)
(***************************************************************************)
EXTENDS Naturals

CONSTANTS
  Cap,        \* longest back-off (10000: one millisecond)
  StepsMod    \* values of the uint32_t pollSteps (2^32)

ASSUME CapAssumption   == Cap \in Nat \ {0}
ASSUME StepsAssumption == StepsMod \in Nat \ {0}

VARIABLES
  previousCallQualified,  \* state of SimpleGettimeofdaySelectLoopDetector
  pollSteps               \* state of ExponentialBackoffStrategy

Qualifies(syscall) == syscall \in {"gettimeofday", "select", "futex"}

PollLoopInit == previousCallQualified = FALSE /\ pollSteps = 0

\* Mutant: a futex is no call of a poll loop.
MutFutexNotCounted(syscall) ==
  LET counts == Qualifies(syscall) /\ syscall # "futex" IN
  /\ previousCallQualified' = counts
  /\ pollSteps' = IF previousCallQualified /\ counts
                  THEN (pollSteps + 1) % StepsMod ELSE 0

\* Mutant: the counter does not wrap around.
MutStepsNotWrapped(syscall) ==
  /\ previousCallQualified' = Qualifies(syscall)
  /\ pollSteps' = IF previousCallQualified /\ Qualifies(syscall) THEN pollSteps + 1 ELSE 0

\* The detection strategy decides whether the call is in a loop, the back-off
\* strategy counts the calls that are.
HandleSystemCall(syscall) ==
  /\ previousCallQualified' = Qualifies(syscall)
  /\ pollSteps' = IF previousCallQualified /\ Qualifies(syscall)
                  THEN (pollSteps + 1) % StepsMod ELSE 0

\* Mutant: the back-off has no maximum.
MutUnlimited(steps) == IF steps = 0 THEN 0 ELSE 2^steps

\* std::max(1.0, std::min(std::pow(2.0, pollSteps), 10000.0)), or no delay.
GetDelay(steps) ==
  IF steps = 0 THEN 0
  ELSE IF 2^steps < 1 THEN 1
  ELSE IF 2^steps <= Cap THEN 2^steps ELSE Cap
=============================================================================
