--------------------------- MODULE GrailFutexProofs ---------------------------
(***************************************************************************)
(* The poll loop detector keeps no thread waiting for longer than its      *)
(* limit, for every set of threads, every program, every setting of the    *)
(* attributes and every width of the counter.                              *)
(***************************************************************************)
EXTENDS GrailFutex, TLAPS

Phases == {"start", "asleep", "exiting", "ended", "retry",
           "announced", "waiting", "relock", "woken"}

\* Beyond the bound: what it is a bound of, and where the times come from.
BackoffInv ==
  /\ app.processing \in Nat
  /\ prog.code \in [Threads -> Seq(Instructions)]
  /\ at \in [Threads -> Phases]
  /\ due \in [Threads -> Int]
  /\ pollSteps \in Nat
  /\ BackoffBounded

\* The longest a thread waits that is not asleep.
Limit == app.processing + Cap

-----------------------------------------------------------------------------
\* GetDelay returns at most Cap.
LEMMA DelayAtMostCap ==
  ASSUME NEW steps \in Nat
  PROVE  GetDelay(steps) \in Nat /\ GetDelay(steps) <= Cap
<1>1. 2^steps \in Int
  OBVIOUS
<1> QED BY <1>1, CapAssumption DEF GetDelay

\* The detector's counter stays a natural number.
LEMMA StepsNatural ==
  ASSUME pollSteps \in Nat, NEW syscall, Detected(syscall)
  PROVE  pollSteps' \in Nat
<1>1. (pollSteps + 1) % StepsMod \in Nat
  BY StepsAssumption
<1> QED BY <1>1 DEF Detected, HandleSystemCall, detector

\* The event that follows an answer comes within the limit.
LEMMA RescheduledInLimit ==
  ASSUME BackoffInv, NEW t \in Threads, NEW steps \in Nat
  PROVE  /\ Rescheduled(due, t, steps) \in [Threads -> Int]
         /\ Rescheduled(due, t, steps)[t] <= Limit
         /\ \A u \in Threads \ {t} : Rescheduled(due, t, steps)[u] = due[u]
<1>1. /\ app.processing + GetDelay(steps) \in Int
      /\ app.processing + GetDelay(steps) <= Limit
  <2>1. GetDelay(steps) \in Int /\ GetDelay(steps) <= Cap
    BY DelayAtMostCap
  <2> QED BY <2>1, CapAssumption DEF BackoffInv, Limit
<1> QED BY <1>1 DEF Rescheduled, BackoffInv

\* A step that changes the time of thread t only, to one within the limit
\* unless it goes to sleep, keeps the bound.
LEMMA OneThreadScheduled ==
  ASSUME BackoffInv, NEW t \in Threads,
         UNCHANGED <<app, prog>>, pollSteps' \in Nat,
         at' \in [Threads -> Phases], due' \in [Threads -> Int],
         at'[t] # "asleep" => due'[t] <= Limit,
         \A u \in Threads \ {t} : at'[u] = at[u] /\ due'[u] = due[u]
  PROVE  BackoffInv'
  BY DEF BackoffInv, BackoffBounded, Limit

\* What an instruction may do to the phase of its thread.
LEMMA PhaseOf ==
  ASSUME BackoffInv, NEW t \in Threads, NEW phase \in Phases,
         Proceeds(t) \/ Stays(t, phase)
  PROVE  /\ at' \in [Threads -> Phases]
         /\ at'[t] \in {"start", phase}
         /\ \A u \in Threads \ {t} : at'[u] = at[u]
  BY DEF BackoffInv, Proceeds, Stays, Phases

\* A call answered at once by thread t.
LEMMA StepAnswered ==
  ASSUME BackoffInv, NEW t \in Threads, NEW syscall, Answered(t, syscall),
         NEW phase \in Phases \ {"asleep"}, Proceeds(t) \/ Stays(t, phase)
  PROVE  BackoffInv'
<1>1. pollSteps' \in Nat
  BY StepsNatural DEF Answered, BackoffInv
<1>2. due' = Rescheduled(due, t, pollSteps') /\ UNCHANGED <<app, prog>>
  BY DEF Answered
<1> QED BY <1>1, <1>2, RescheduledInLimit, PhaseOf, OneThreadScheduled

\* User code between two calls of thread t, which is not asleep.
LEMMA StepContinues ==
  ASSUME BackoffInv, NEW t \in Threads, Continues, at[t] # "asleep",
         NEW phase \in Phases \ {"asleep"}, Proceeds(t) \/ Stays(t, phase)
  PROVE  BackoffInv'
<1>1. /\ UNCHANGED <<app, prog, due>> /\ pollSteps' = pollSteps
      /\ due[t] <= Limit /\ due \in [Threads -> Int]
  BY DEF Continues, detector, BackoffInv, BackoffBounded, Limit
<1> QED BY <1>1, PhaseOf, OneThreadScheduled DEF BackoffInv

\* A call of thread t that has no answer yet.
LEMMA StepHeld ==
  ASSUME BackoffInv, NEW t \in Threads, NEW syscall, NEW delay \in Int,
         Held(t, syscall, delay),
         NEW phase \in Phases, Stays(t, phase), phase = "asleep" \/ delay <= Limit
  PROVE  BackoffInv'
<1>1. pollSteps' \in Nat
  BY StepsNatural DEF Held, BackoffInv
<1>2. due' = [due EXCEPT ![t] = delay] /\ UNCHANGED <<app, prog>>
  BY DEF Held
<1>3. due' \in [Threads -> Int] /\ due'[t] = delay /\ \A u \in Threads \ {t} : due'[u] = due[u]
  BY <1>2 DEF BackoffInv
<1>4. at'[t] = phase
  BY DEF Stays, BackoffInv
<1> QED BY <1>1, <1>2, <1>3, <1>4, PhaseOf, OneThreadScheduled

\* FutexWait, FutexWake and what surrounds them are answered calls or no calls.
LEMMA StepWakeIf ==
  ASSUME BackoffInv, NEW t \in Threads, NEW contended, WakeIf(t, contended),
         at[t] # "asleep",
         NEW phase \in Phases \ {"asleep"}, Proceeds(t) \/ Stays(t, phase)
  PROVE  BackoffInv'
  BY StepAnswered, StepContinues DEF WakeIf, FutexWake

-----------------------------------------------------------------------------
LEMMA InitBackoff == Init => BackoffInv
<1> SUFFICES ASSUME Init PROVE BackoffInv
  OBVIOUS
<1>1. PICK c \in Cases : prog = c[1] /\ app = c[2]
  BY DEF Init
<1>2. app.processing \in Nat /\ prog.code \in [Threads -> Seq(Instructions)]
  BY <1>1, CasesAssumption
<1>3. /\ at = [t \in Threads |-> "start"]
      /\ due = [t \in Threads |-> IF t = Main THEN 0 ELSE Never]
      /\ pollSteps = 0
  BY DEF Init, PollLoopInit
<1>4. due \in [Threads -> Int] /\ \A t \in Threads : due[t] <= 0
  BY <1>3 DEF Never
<1>5. 0 <= app.processing + Cap
  BY <1>2, CapAssumption
<1>6. BackoffBounded
  BY <1>2, <1>4, <1>5, CapAssumption DEF BackoffBounded
<1> QED BY <1>2, <1>3, <1>4, <1>6 DEF BackoffInv, Phases

LEMMA StepEvent ==
  ASSUME BackoffInv, NEW t \in Threads, Event(t)
  PROVE  BackoffInv'
<1>1. CASE Fire(t) \/ Dies(t)
  <2>1. /\ due' = [due EXCEPT ![t] = Never] /\ at' = at
        /\ UNCHANGED <<app, prog>> /\ pollSteps' = pollSteps
    BY <1>1 DEF Fire, Dies, detector
  <2>2. Never \in Int /\ Never <= Limit
    BY CapAssumption DEF Never, Limit, BackoffInv
  <2> QED BY <2>1, <2>2, OneThreadScheduled DEF BackoffInv
<1>2. CASE WakeUp(t)
  <2>1. /\ due' = Rescheduled(due, t, pollSteps) /\ Proceeds(t)
        /\ UNCHANGED <<app, prog>> /\ pollSteps' = pollSteps
    BY <1>2 DEF WakeUp, detector
  <2>2. "start" \in Phases
    BY DEF Phases
  <2> QED BY <2>1, <2>2, RescheduledInLimit, PhaseOf, OneThreadScheduled DEF BackoffInv
<1> QED BY <1>1, <1>2 DEF Event

\* The new thread of a clone runs one unit later, which is within the limit.
LEMMA StepClone ==
  ASSUME BackoffInv, NEW t \in Threads, HandleClone(t)
  PROVE  BackoffInv'
<1> DEFINE r == Rescheduled(due, t, pollSteps')
<1>1. /\ Detected("clone") /\ UNCHANGED <<app, prog>> /\ Proceeds(t)
      /\ due' = [r EXCEPT ![Arg(t)] = 1]
  BY DEF HandleClone
<1>2. pollSteps' \in Nat
  BY <1>1, StepsNatural DEF BackoffInv
<1>3. /\ r \in [Threads -> Int] /\ r[t] <= Limit
      /\ \A u \in Threads \ {t} : r[u] = due[u]
  BY <1>2, RescheduledInLimit
<1>4. 1 <= Limit
  BY CapAssumption DEF Limit, BackoffInv
<1> HIDE DEF r
<1>5. /\ due' \in [Threads -> Int] /\ due'[t] <= Limit
      /\ \A u \in Threads \ {t} : due'[u] = due[u] \/ due'[u] <= Limit
  <2>1. \A u \in Threads : due'[u] = r[u] \/ due'[u] = 1
    BY <1>1, <1>3
  <2>2. due' = [u \in Threads |-> due'[u]]
    BY <1>1, <1>3
  <2>3. \A u \in Threads : due'[u] \in Int
    BY <1>3, <2>1
  <2>4. due' \in [Threads -> Int]
    BY <2>2, <2>3
  <2> QED BY <1>3, <1>4, <2>1, <2>4
<1>6. at' \in [Threads -> Phases] /\ at'[t] = "start" /\ \A u \in Threads \ {t} : at'[u] = at[u]
  BY <1>1 DEF Proceeds, BackoffInv, Phases
<1> QED BY <1>1, <1>2, <1>5, <1>6 DEF BackoffInv, BackoffBounded, Limit

LEMMA StepHandlers ==
  ASSUME BackoffInv, NEW t \in Threads, Handlers(t)
  PROVE  BackoffInv'
<1> USE DEF Phases
<1>1. CASE HandleWrite(t)
  BY <1>1, StepAnswered DEF HandleWrite
<1>2. CASE HandleTimeCall(t)
  BY <1>2, StepAnswered DEF HandleTimeCall
<1>3. CASE HandleExit(t)
  BY <1>3, StepAnswered DEF HandleExit
<1>4. CASE HandleClone(t)
  BY <1>4, StepClone
<1>5. CASE HandleNanoSleep(t)
  <2>1. /\ ip[t] \in DOMAIN prog.code[t] /\ Op(t) = "sleep"
        /\ Held(t, "nanosleep", Arg(t)) /\ Stays(t, "asleep")
    BY <1>5 DEF HandleNanoSleep, Executes
  <2>2. prog.code[t][ip[t]] \in Instructions
    BY <2>1 DEF BackoffInv
  <2>3. Arg(t) \in Int
    BY <2>1, <2>2 DEF Instructions, Op, Arg
  <2> QED BY <2>1, <2>3, StepHeld
<1>6. CASE HandleExitGroup(t)
  <2>1. Never \in Int /\ Never <= Limit
    BY CapAssumption DEF Never, Limit, BackoffInv
  <2> QED BY <1>6, <2>1, StepHeld DEF HandleExitGroup
<1> QED BY <1>1, <1>2, <1>3, <1>4, <1>5, <1>6 DEF Handlers

LEMMA StepUserCode ==
  ASSUME BackoffInv, NEW t \in Threads, UserCode(t)
  PROVE  BackoffInv'
<1> USE DEF Phases
<1>1. at[t] # "asleep"
  BY DEF UserCode, LockFree, LockContended, Contends, Unlock, Add, Signal, Join,
         AwaitDone, AwaitWrites, AwaitBlocks, AwaitSignal, Executes
<1>2. CASE LockFree(t) \/ Add(t) \/ AwaitDone(t)
  BY <1>1, <1>2, StepContinues DEF LockFree, Add, AwaitDone
<1>3. CASE LockContended(t)
  <2>1. CASE mem.lock = 0
    BY <1>1, <1>3, <2>1, StepContinues DEF LockContended, Locked
  <2>2. CASE mem.lock # 0
    BY <1>3, <2>2, StepAnswered DEF LockContended, FutexWait
  <2> QED BY <2>1, <2>2
<1>4. CASE Unlock(t) \/ AwaitBlocks(t) \/ Signal(t)
  BY <1>1, <1>4, StepWakeIf DEF Unlock, AwaitBlocks, Signal
<1>5. CASE AwaitSignal(t)
  BY <1>1, <1>5, StepAnswered, StepContinues DEF AwaitSignal, FutexWait
<1>6. CASE Join(t)
  BY <1>1, <1>6, StepAnswered, StepContinues DEF Join, FutexWait
<1>7. CASE AwaitWrites(t)
  BY <1>7, StepAnswered DEF AwaitWrites
<1> QED BY <1>2, <1>3, <1>4, <1>5, <1>6, <1>7 DEF UserCode

\* Time brings every pending event nearer by the same positive amount.
LEMMA StepAdvance ==
  ASSUME BackoffInv, Advance
  PROVE  BackoffInv'
<1>1. PICK d \in {due[t] : t \in Pending} :
        /\ d > 0
        /\ due' = [t \in Threads |-> IF t \in Pending THEN due[t] - d ELSE Never]
  BY DEF Advance
<1>2. d \in Int
  BY <1>1 DEF Pending, BackoffInv
<1>3. UNCHANGED <<app, prog, at>> /\ pollSteps' = pollSteps
  BY DEF Advance, detector
<1>4. Never \in Int /\ Never <= Limit /\ Limit \in Int
  BY CapAssumption DEF Never, Limit, BackoffInv
<1>5. /\ due' \in [Threads -> Int]
      /\ \A t \in Threads : due'[t] <= due[t] \/ due'[t] <= Limit
  BY <1>1, <1>2, <1>4 DEF BackoffInv
<1>6. \A t \in Threads : at[t] # "asleep" => due'[t] <= Limit
  <2> TAKE t \in Threads
  <2> HAVE at[t] # "asleep"
  <2>1. due[t] <= Limit /\ due[t] \in Int /\ due'[t] \in Int
    BY <1>5 DEF BackoffInv, BackoffBounded, Limit
  <2> QED BY <1>4, <1>5, <2>1
<1> QED BY <1>3, <1>5, <1>6 DEF BackoffInv, BackoffBounded, Limit

LEMMA NextBackoff == BackoffInv /\ [Next]_vars => BackoffInv'
<1> SUFFICES ASSUME BackoffInv, [Next]_vars PROVE BackoffInv'
  OBVIOUS
<1>1. CASE UNCHANGED vars
  BY <1>1 DEF vars, detector, BackoffInv, BackoffBounded
<1>2. CASE Advance
  BY <1>2, StepAdvance
<1>3. ASSUME NEW t \in Threads, Event(t) \/ Handlers(t) \/ UserCode(t)
      PROVE  BackoffInv'
  BY <1>3, StepEvent, StepHandlers, StepUserCode
<1> QED BY <1>1, <1>2, <1>3 DEF Next

(***************************************************************************)
(* However the calls of all threads feed the one detector, and also when   *)
(* its counter wraps around, a thread that is not asleep runs within the   *)
(* processing time and the longest back-off (HandleSystemCall and GetDelay *)
(* of poll-detector.h, ProcessStatusCode of grail.cc).                     *)
(***************************************************************************)
THEOREM DelaysBounded == FutexSpec => []BackoffBounded
<1>1. BackoffInv => BackoffBounded
  BY DEF BackoffInv
<1> QED BY <1>1, InitBackoff, NextBackoff, PTL DEF FutexSpec

-----------------------------------------------------------------------------
(***************************************************************************)
(* Types: those of what the simulator keeps, and those of the program.     *)
(***************************************************************************)
SimulatorTypes ==
  /\ <<prog, app>> \in Cases
  /\ due \in [Threads -> Nat \cup {Never}]
  /\ running \in Threads \cup {Nobody}
  /\ left \in Nat
  /\ previousCallQualified \in BOOLEAN
  /\ pollSteps \in 0 .. (StepsMod - 1)

PositionTypes == ip \in [Threads -> Nat \ {0}] /\ at \in [Threads -> Phases]

Memories == [lock : 0 .. 2, waiters : Nat, signals : Nat, done : Nat, tids : SUBSET Threads]

Types == SimulatorTypes /\ PositionTypes /\ mem \in Memories

\* What a case is made of.
LEMMA CaseTypes ==
  ASSUME <<prog, app>> \in Cases
  PROVE  /\ prog \in [code : [Threads -> Seq(Instructions)], until : Nat]
         /\ app \in [detection : BOOLEAN, processing : Nat]
  BY CasesAssumption

\* The operand of an instruction that thread t executes.
LEMMA ArgTypes ==
  ASSUME <<prog, app>> \in Cases, NEW t \in Threads, NEW op, NEW phase,
         Executes(t, op, phase)
  PROVE  /\ op \in {"sleep", "await"} => Arg(t) \in Nat
         /\ op \in {"create", "join"} => Arg(t) \in Threads
<1>1. prog.code[t] \in Seq(Instructions)
  BY CaseTypes
<1>2. ip[t] \in DOMAIN prog.code[t] /\ prog.code[t][ip[t]][1] = op
  BY DEF Executes, Op
<1>3. prog.code[t][ip[t]] \in Instructions
  BY <1>1, <1>2
<1> QED BY <1>2, <1>3 DEF Instructions, Arg

LEMMA DetectorTypes ==
  ASSUME SimulatorTypes, NEW syscall, Detected(syscall)
  PROVE  /\ previousCallQualified' \in BOOLEAN
         /\ pollSteps' \in 0 .. (StepsMod - 1)
<1>1. (pollSteps + 1) % StepsMod \in 0 .. (StepsMod - 1)
  BY StepsAssumption DEF SimulatorTypes
<1>2. 0 \in 0 .. (StepsMod - 1)
  BY StepsAssumption
<1>3. CASE app.detection
  BY <1>1, <1>2, <1>3 DEF Detected, HandleSystemCall, Qualifies
<1>4. CASE ~app.detection
  BY <1>4 DEF Detected, detector, SimulatorTypes
<1> QED BY <1>3, <1>4

LEMMA RescheduledTypes ==
  ASSUME SimulatorTypes, NEW t \in Threads, NEW steps \in Nat
  PROVE  Rescheduled(due, t, steps) \in [Threads -> Nat \cup {Never}]
<1>1. app.processing + GetDelay(steps) \in Nat
  <2>1. GetDelay(steps) \in Nat /\ app.processing \in Nat
    BY DelayAtMostCap, CaseTypes DEF SimulatorTypes
  <2> QED BY <2>1
<1> QED BY <1>1 DEF Rescheduled, SimulatorTypes

\* What a call answered, a call held and no call leave.
LEMMA CallTypes ==
  ASSUME SimulatorTypes, NEW t \in Threads, NEW syscall, NEW delay \in Nat \cup {Never},
         Answered(t, syscall) \/ Held(t, syscall, delay) \/ Continues
  PROVE  SimulatorTypes'
<1>1. CASE Answered(t, syscall)
  <2>1. previousCallQualified' \in BOOLEAN /\ pollSteps' \in 0 .. (StepsMod - 1)
    BY <1>1, DetectorTypes DEF Answered
  <2>2. pollSteps' \in Nat
    BY <2>1, StepsAssumption
  <2>3. due' \in [Threads -> Nat \cup {Never}]
    BY <1>1, <2>2, RescheduledTypes DEF Answered
  <2> QED BY <1>1, <2>1, <2>3 DEF Answered, SimulatorTypes
<1>2. CASE Held(t, syscall, delay)
  <2>1. previousCallQualified' \in BOOLEAN /\ pollSteps' \in 0 .. (StepsMod - 1)
    BY <1>2, DetectorTypes DEF Held
  <2> QED BY <1>2, <2>1 DEF Held, SimulatorTypes
<1>3. CASE Continues
  BY <1>3 DEF Continues, detector, SimulatorTypes
<1> QED BY <1>1, <1>2, <1>3

LEMMA WakeIfTypes ==
  ASSUME SimulatorTypes, NEW t \in Threads, NEW contended, WakeIf(t, contended)
  PROVE  SimulatorTypes'
  BY CallTypes DEF WakeIf, FutexWake, Never

LEMMA PositionKept ==
  ASSUME PositionTypes, NEW t \in Threads, NEW phase \in Phases,
         Proceeds(t) \/ Stays(t, phase)
  PROVE  PositionTypes'
<1>1. "start" \in Phases
  BY DEF Phases
<1> QED BY <1>1 DEF PositionTypes, Proceeds, Stays

-----------------------------------------------------------------------------
LEMMA InitTypes == Init => Types
<1> SUFFICES ASSUME Init PROVE Types
  OBVIOUS
<1>1. PICK c \in Cases : prog = c[1] /\ app = c[2]
  BY DEF Init
<1>2. <<prog, app>> \in Cases
  <2>1. c = <<c[1], c[2]>>
    BY CasesAssumption
  <2> QED BY <1>1, <2>1
<1>3. left \in Nat
  BY <1>2, CaseTypes DEF Init
<1>4. due \in [Threads -> Nat \cup {Never}] /\ running \in Threads \cup {Nobody}
  BY DEF Init
<1>5. previousCallQualified \in BOOLEAN /\ pollSteps \in 0 .. (StepsMod - 1)
  <2>1. previousCallQualified \in BOOLEAN /\ pollSteps = 0
    BY Zenon DEF Init, PollLoopInit
  <2>2. 0 \in 0 .. (StepsMod - 1)
    BY StepsAssumption
  <2> QED BY <2>1, <2>2, Zenon
<1>6. PositionTypes
  BY DEF Init, PositionTypes, Phases
<1>7. mem \in Memories
  BY MainAssumption DEF Init, Memories
<1> QED BY <1>2, <1>3, <1>4, <1>5, <1>6, <1>7 DEF SimulatorTypes, Types

LEMMA EventTypes ==
  ASSUME Types, NEW t \in Threads, Event(t)
  PROVE  Types'
<1> USE DEF Types
<1>1. CASE Fire(t)
  BY <1>1 DEF Fire, detector, SimulatorTypes, PositionTypes
<1>2. CASE Dies(t)
  <2>1. SimulatorTypes' /\ PositionTypes'
    BY <1>2 DEF Dies, detector, SimulatorTypes, PositionTypes
  <2>2. mem' \in Memories
    BY <1>2 DEF Dies, Memories
  <2> QED BY <2>1, <2>2
<1>3. CASE WakeUp(t)
  <2>1. pollSteps \in Nat
    BY StepsAssumption DEF SimulatorTypes
  <2>2. due' \in [Threads -> Nat \cup {Never}]
    BY <1>3, <2>1, RescheduledTypes DEF WakeUp
  <2>3. SimulatorTypes'
    BY <1>3, <2>2 DEF WakeUp, detector, SimulatorTypes
  <2>4. PositionTypes' /\ mem' = mem
    BY <1>3, PositionKept DEF WakeUp, Phases
  <2> QED BY <2>3, <2>4
<1> QED BY <1>1, <1>2, <1>3 DEF Event

LEMMA HandlerTypes ==
  ASSUME Types, NEW t \in Threads, Handlers(t)
  PROVE  Types'
<1> USE DEF Phases, Types
<1>1. CASE HandleWrite(t) \/ HandleTimeCall(t) \/ HandleExit(t)
  BY <1>1, CallTypes, PositionKept DEF HandleWrite, HandleTimeCall, HandleExit
<1>2. CASE HandleNanoSleep(t)
  <2>1. Arg(t) \in Nat
    BY <1>2, ArgTypes DEF HandleNanoSleep, SimulatorTypes
  <2> QED BY <1>2, <2>1, CallTypes, PositionKept DEF HandleNanoSleep
<1>3. CASE HandleExitGroup(t)
  BY <1>3, CallTypes, PositionKept DEF HandleExitGroup
<1>4. CASE HandleClone(t)
  <2>1. Arg(t) \in Threads
    BY <1>4, ArgTypes DEF HandleClone, SimulatorTypes
  <2>2. previousCallQualified' \in BOOLEAN /\ pollSteps' \in 0 .. (StepsMod - 1)
    BY <1>4, DetectorTypes DEF HandleClone
  <2>3. pollSteps' \in Nat
    BY <2>2, StepsAssumption
  <2>4. due' \in [Threads -> Nat \cup {Never}]
    BY <1>4, <2>3, RescheduledTypes DEF HandleClone
  <2>5. SimulatorTypes'
    BY <1>4, <2>2, <2>4 DEF HandleClone, SimulatorTypes
  <2>6. PositionTypes'
    BY <1>4, PositionKept DEF HandleClone
  <2>7. mem' \in Memories
    BY <1>4, <2>1 DEF HandleClone, Memories
  <2> QED BY <2>5, <2>6, <2>7
<1> QED BY <1>1, <1>2, <1>3, <1>4 DEF Handlers

LEMMA UserCodeTypes ==
  ASSUME Types, NEW t \in Threads, UserCode(t)
  PROVE  Types'
<1> USE DEF Phases, Types
<1>1. CASE LockFree(t) \/ Add(t) \/ AwaitDone(t)
  <2>1. SimulatorTypes' /\ PositionTypes'
    BY <1>1, CallTypes, PositionKept DEF LockFree, Add, AwaitDone
  <2>2. mem' \in Memories
    BY <1>1 DEF LockFree, Add, AwaitDone, Memories
  <2> QED BY <2>1, <2>2
<1>2. CASE LockContended(t)
  <2>1. SimulatorTypes'
    BY <1>2, CallTypes DEF LockContended, FutexWait
  <2>2. PositionTypes'
    BY <1>2, PositionKept DEF LockContended, Locked
  <2>3. mem' \in Memories
    BY <1>2 DEF LockContended, Memories
  <2> QED BY <2>1, <2>2, <2>3
<1>3. CASE Unlock(t) \/ AwaitBlocks(t) \/ Signal(t)
  <2>1. SimulatorTypes'
    BY <1>3, WakeIfTypes DEF Unlock, AwaitBlocks, Signal
  <2>2. PositionTypes'
    BY <1>3, PositionKept DEF Unlock, AwaitBlocks, Signal
  <2>3. mem' \in Memories
    <3>1. CASE Unlock(t)
      BY <3>1 DEF Unlock, Memories
    <3>2. CASE AwaitBlocks(t)
      <4>1. mem.waiters + 1 \in Nat
        BY DEF Memories
      <4>2. mem' = [lock |-> 0, waiters |-> mem.waiters + 1, signals |-> mem.signals,
                    done |-> mem.done, tids |-> mem.tids]
        BY <3>2 DEF AwaitBlocks, Memories
      <4> QED BY <4>1, <4>2 DEF Memories
    <3>3. CASE Signal(t) /\ mem.waiters # 0
      <4>1. mem.waiters - 1 \in Nat /\ mem.signals + 1 \in Nat
        BY <3>3 DEF Memories
      <4> QED BY <3>3, <4>1 DEF Signal, Memories
    <3>4. CASE Signal(t) /\ mem.waiters = 0
      BY <3>4 DEF Signal
    <3> QED BY <1>3, <3>1, <3>2, <3>3, <3>4
  <2> QED BY <2>1, <2>2, <2>3
<1>4. CASE AwaitSignal(t)
  <2>1. SimulatorTypes'
    BY <1>4, CallTypes DEF AwaitSignal, FutexWait
  <2>2. PositionTypes'
    BY <1>4, PositionKept DEF AwaitSignal
  <2>3. mem' \in Memories
    BY <1>4 DEF AwaitSignal, Memories
  <2> QED BY <2>1, <2>2, <2>3
<1>5. CASE Join(t)
  <2>1. SimulatorTypes'
    BY <1>5, CallTypes DEF Join, FutexWait
  <2>2. PositionTypes' /\ mem' = mem
    BY <1>5, PositionKept DEF Join
  <2> QED BY <2>1, <2>2
<1>6. CASE AwaitWrites(t)
  <2>1. SimulatorTypes'
    BY <1>6, CallTypes DEF AwaitWrites
  <2>2. PositionTypes' /\ mem' = mem
    BY <1>6, PositionKept DEF AwaitWrites
  <2> QED BY <2>1, <2>2
<1> QED BY <1>1, <1>2, <1>3, <1>4, <1>5, <1>6 DEF UserCode

\* The nearest event comes due: no other is passed.
LEMMA AdvanceTypes ==
  ASSUME Types, Advance
  PROVE  Types'
<1> USE DEF Types
<1>1. PICK d \in {due[t] : t \in Pending} :
        /\ d > 0
        /\ \A t \in Pending : d <= due[t]
        /\ due' = [t \in Threads |-> IF t \in Pending THEN due[t] - d ELSE Never]
        /\ left' = IF left <= d THEN 0 ELSE left - d
  BY DEF Advance
<1>2. d \in Nat
  BY <1>1 DEF Pending, SimulatorTypes
<1>3. \A t \in Pending : due[t] - d \in Nat
  BY <1>1, <1>2 DEF Pending, SimulatorTypes
<1>4. due' \in [Threads -> Nat \cup {Never}] /\ left' \in Nat
  BY <1>1, <1>2, <1>3 DEF SimulatorTypes
<1> QED BY <1>4 DEF Advance, detector, SimulatorTypes, PositionTypes

LEMMA NextTypes == Types /\ [Next]_vars => Types'
<1> SUFFICES ASSUME Types, [Next]_vars PROVE Types'
  OBVIOUS
<1>1. CASE UNCHANGED vars
  BY <1>1 DEF vars, detector, Types, SimulatorTypes, PositionTypes
<1>2. CASE Advance
  BY <1>2, AdvanceTypes
<1>3. ASSUME NEW t \in Threads, Event(t) \/ Handlers(t) \/ UserCode(t)
      PROVE  Types'
  BY <1>3, EventTypes, HandlerTypes, UserCodeTypes
<1> QED BY <1>1, <1>2, <1>3 DEF Next

(***************************************************************************)
(* Every delay that ProcessStatusCode and HandleNanoSleep schedule is a    *)
(* time to come, the counter of poll-detector.h stays within its width,    *)
(* and the words of memory keep the values the pthread functions know.     *)
(***************************************************************************)
THEOREM TypeCorrect == FutexSpec => []TypeOK
<1>1. Types => TypeOK
  BY DEF Types, SimulatorTypes, PositionTypes, Memories, Phases, TypeOK
<1> QED BY <1>1, InitTypes, NextTypes, PTL DEF FutexSpec

-----------------------------------------------------------------------------
(***************************************************************************)
(* The mutex.  A thread holds it by the position it has reached in its     *)
(* code, so the proof is about what each instruction does to that: only a  *)
(* lock begins a section, and an unlock ends every section of its thread.  *)
(***************************************************************************)
\* The lock word tells whether a thread holds the mutex, and only a sleep sleeps.
MutexInv ==
  /\ Types
  /\ \A t \in Threads : at[t] = "asleep" => Op(t) = "sleep"
  /\ mem.lock = 0 <=> \A t \in Threads : ~Holds(t)
  /\ MutualExclusion

\* A step as the abstract mutex allows it.
LockStep ==
  [\E t \in Threads : Lock!Acquire(t) \/ Lock!Release(t)]_<<{t \in Threads : Holds(t)}, mem.lock = 0>>

\* The section after an instruction.
LEMMA SectionAfter ==
  ASSUME NEW code, NEW i \in Nat \ {0}
  PROVE  InSection(code, i + 1) <=>
           code[i][1] = "lock" \/ (InSection(code, i) /\ code[i][1] # "unlock")
<1>1. ASSUME InSection(code, i + 1), code[i][1] # "lock"
      PROVE  InSection(code, i) /\ code[i][1] # "unlock"
  <2>1. PICK k \in 1 .. ((i + 1) - 1) :
          /\ code[k][1] = "lock"
          /\ \A j \in k .. ((i + 1) - 1) : code[j][1] # "unlock"
    BY <1>1 DEF InSection
  <2>2. k \in 1 .. (i - 1)
    BY <1>1, <2>1
  <2>3. \A j \in k .. (i - 1) : code[j][1] # "unlock"
    BY <2>1
  <2>4. i \in k .. ((i + 1) - 1)
    BY <2>2
  <2> QED BY <2>1, <2>2, <2>3, <2>4 DEF InSection
<1>2. ASSUME InSection(code, i), code[i][1] # "unlock" PROVE InSection(code, i + 1)
  <2>1. PICK k \in 1 .. (i - 1) :
          code[k][1] = "lock" /\ \A j \in k .. (i - 1) : code[j][1] # "unlock"
    BY <1>2 DEF InSection
  <2>2. k \in 1 .. ((i + 1) - 1)
    BY <2>1
  <2>3. \A j \in k .. ((i + 1) - 1) : j \in k .. (i - 1) \/ j = i
    OBVIOUS
  <2> QED BY <1>2, <2>1, <2>2, <2>3 DEF InSection
<1>3. ASSUME code[i][1] = "lock" PROVE InSection(code, i + 1)
  <2>1. i \in 1 .. ((i + 1) - 1) /\ \A j \in i .. ((i + 1) - 1) : j = i
    OBVIOUS
  <2>2. \A j \in i .. ((i + 1) - 1) : code[j][1] # "unlock"
    BY <1>3, <2>1
  <2> QED BY <1>3, <2>1, <2>2 DEF InSection
<1> QED BY <1>1, <1>2, <1>3

\* Whether the thread that makes a step holds the mutex after it.
LEMMA HoldsOnward ==
  ASSUME Types, NEW t \in Threads, Proceeds(t), prog' = prog
  PROVE  Holds(t)' <=>
           Op(t) = "lock" \/ (InSection(prog.code[t], ip[t]) /\ Op(t) # "unlock")
<1>1. ip[t] \in Nat \ {0} /\ ip'[t] = ip[t] + 1 /\ at'[t] = "start"
  BY DEF Proceeds, Types, PositionTypes
<1>2. Holds(t)' <=> InSection(prog.code[t], ip[t] + 1)
  BY <1>1 DEF Holds
<1> QED BY <1>1, <1>2, SectionAfter DEF Op

LEMMA HoldsInPlace ==
  ASSUME Types, NEW t \in Threads, NEW phase, Stays(t, phase), prog' = prog
  PROVE  Holds(t)' <=>
           /\ InSection(prog.code[t], ip[t])
           /\ Op(t) = "await" => phase \notin {"waiting", "relock"}
<1>1. ip' = ip /\ at'[t] = phase
  BY DEF Stays, Types, PositionTypes
<1> QED BY <1>1 DEF Holds, Op

\* A step of thread t leaves every other thread as it is.
LEMMA OthersHold ==
  ASSUME Types, NEW t \in Threads, NEW phase, Proceeds(t) \/ Stays(t, phase),
         prog' = prog, NEW u \in Threads \ {t}
  PROVE  /\ Holds(u)' <=> Holds(u)
         /\ at'[u] = at[u] /\ Op(u)' = Op(u)
<1>1. ip'[u] = ip[u] /\ at'[u] = at[u]
  BY DEF Proceeds, Stays, Types, PositionTypes
<1> QED BY <1>1 DEF Holds, Op

\* Nobody falls asleep by a step of thread t but t, in a sleep.
LEMMA SleepersSleep ==
  ASSUME MutexInv, NEW t \in Threads, NEW phase \in Phases,
         Proceeds(t) \/ Stays(t, phase), prog' = prog,
         phase = "asleep" => Op(t) = "sleep"
  PROVE  \A u \in Threads : at'[u] = "asleep" => Op(u)' = "sleep"
<1>1. at'[t] = "asleep" => Op(t)' = "sleep"
  <2>1. CASE Proceeds(t)
    BY <2>1 DEF Proceeds, MutexInv, Types, PositionTypes
  <2>2. CASE Stays(t, phase)
    BY <2>2 DEF Stays, Op, MutexInv, Types, PositionTypes
  <2> QED BY <2>1, <2>2
<1> QED BY <1>1, OthersHold DEF MutexInv

-----------------------------------------------------------------------------
\* A step that changes neither the holder nor whether the mutex is free.
LEMMA StepKeepsMutex ==
  ASSUME MutexInv, Types',
         \A t \in Threads : at'[t] = "asleep" => Op(t)' = "sleep",
         \A t \in Threads : Holds(t)' <=> Holds(t),
         mem'.lock = 0 <=> mem.lock = 0
  PROVE  MutexInv' /\ LockStep
<1>1. MutexInv'
  BY DEF MutexInv, MutualExclusion
<1>2. {t \in Threads : Holds(t)}' = {t \in Threads : Holds(t)}
  OBVIOUS
<1> QED BY <1>1, <1>2 DEF LockStep

\* A step of thread t alone that has nothing to do with the mutex.
LEMMA StepApart ==
  ASSUME MutexInv, Types', NEW t \in Threads, NEW phase \in Phases,
         Proceeds(t) \/ Stays(t, phase), prog' = prog,
         phase = "asleep" => Op(t) = "sleep",
         Holds(t)' <=> Holds(t), mem'.lock = 0 <=> mem.lock = 0
  PROVE  MutexInv' /\ LockStep
<1>1. \A u \in Threads : Holds(u)' <=> Holds(u)
  BY OthersHold DEF MutexInv
<1> QED BY <1>1, SleepersSleep, StepKeepsMutex

\* A step of thread t alone by which it takes the free mutex.
LEMMA StepTakes ==
  ASSUME MutexInv, Types', NEW t \in Threads, NEW phase \in Phases \ {"asleep"},
         Proceeds(t) \/ Stays(t, phase), prog' = prog,
         mem.lock = 0, mem'.lock # 0, Holds(t)'
  PROVE  MutexInv' /\ LockStep
<1>1. \A u \in Threads \ {t} : ~Holds(u)'
  BY OthersHold DEF MutexInv
<1>2. MutexInv'
  BY <1>1, SleepersSleep DEF MutexInv, MutualExclusion
<1>3. Lock!Acquire(t)
  <2>1. {u \in Threads : Holds(u)}' = {t}
    BY <1>1
  <2>2. (mem.lock = 0)' = FALSE
    OBVIOUS
  <2> QED BY <2>1, <2>2 DEF Lock!Acquire
<1> QED BY <1>2, <1>3 DEF LockStep

\* A step of thread t alone by which it gives up the mutex it holds.
LEMMA StepGives ==
  ASSUME MutexInv, Types', NEW t \in Threads, NEW phase \in Phases \ {"asleep"},
         Proceeds(t) \/ Stays(t, phase), prog' = prog,
         Holds(t), ~Holds(t)', mem'.lock = 0
  PROVE  MutexInv' /\ LockStep
<1>1. \A u \in Threads \ {t} : ~Holds(u)
  BY DEF MutexInv, MutualExclusion
<1>2. \A u \in Threads : ~Holds(u)'
  BY <1>1, OthersHold DEF MutexInv
<1>3. MutexInv'
  BY <1>2, SleepersSleep DEF MutexInv, MutualExclusion
<1>4. Lock!Release(t)
  <2>1. {u \in Threads : Holds(u)} = {t} /\ {u \in Threads : Holds(u)}' = {}
    BY <1>1, <1>2
  <2>2. (mem.lock = 0)' = TRUE
    OBVIOUS
  <2> QED BY <2>1, <2>2 DEF Lock!Release
<1> QED BY <1>3, <1>4 DEF LockStep

-----------------------------------------------------------------------------
\* Who executes an unlock or an await is in a section.
LEMMA OwnerInSection ==
  ASSUME LocksPaired, Types, NEW t \in Threads, NEW op \in {"unlock", "await"}, NEW phase,
         Executes(t, op, phase)
  PROVE  InSection(prog.code[t], ip[t])
<1>1. prog = <<prog, app>>[1] /\ <<prog, app>> \in Cases
  BY DEF Types, SimulatorTypes
<1>2. ip[t] \in DOMAIN prog.code[t] /\ prog.code[t][ip[t]][1] \in {"unlock", "await"}
  BY DEF Executes, Op
<1> QED BY <1>1, <1>2 DEF LocksPaired

LEMMA InitMutex == Init => MutexInv /\ Lock!MutexInit
<1> SUFFICES ASSUME Init PROVE MutexInv /\ Lock!MutexInit
  OBVIOUS
<1>1. mem.lock = 0 /\ \A t \in Threads : ip[t] = 1 /\ at[t] = "start"
  BY DEF Init
<1>2. \A t \in Threads : ~Holds(t)
  <2> TAKE t \in Threads
  <2>1. 1 .. (ip[t] - 1) = {}
    BY <1>1
  <2> QED BY <2>1 DEF Holds, InSection
<1>3. Types
  BY InitTypes
<1> QED BY <1>1, <1>2, <1>3 DEF MutexInv, MutualExclusion, Lock!MutexInit

LEMMA MutexEvent ==
  ASSUME MutexInv, Types', NEW t \in Threads, Event(t)
  PROVE  MutexInv' /\ LockStep
<1>1. CASE Fire(t) \/ Dies(t)
  <2>1. /\ UNCHANGED <<prog, ip, at>> /\ mem'.lock = mem.lock
    BY <1>1 DEF Fire, Dies, MutexInv, Types, Memories
  <2>2. \A u \in Threads : (Holds(u)' <=> Holds(u)) /\ Op(u)' = Op(u)
    BY <2>1 DEF Holds, Op
  <2> QED BY <2>1, <2>2, StepKeepsMutex DEF MutexInv
<1>2. CASE WakeUp(t)
  <2>1. Proceeds(t) /\ prog' = prog /\ mem' = mem /\ Op(t) = "sleep" /\ Types
    BY <1>2 DEF WakeUp, MutexInv
  <2>2. Holds(t)' <=> Holds(t)
    BY <2>1, HoldsOnward DEF Holds
  <2>3. "start" \in Phases
    BY DEF Phases
  <2> QED BY <2>1, <2>2, <2>3, StepApart
<1> QED BY <1>1, <1>2 DEF Event

LEMMA MutexHandlers ==
  ASSUME MutexInv, Types', NEW t \in Threads, Handlers(t)
  PROVE  MutexInv' /\ LockStep
<1>1. prog' = prog /\ mem'.lock = mem.lock
  BY DEF Handlers, HandleWrite, HandleTimeCall, HandleNanoSleep, HandleClone, HandleExit,
         HandleExitGroup, Answered, Held, MutexInv, Types, Memories
<1>2. PICK op \in {"write", "poll", "sleep", "create", "exit", "exit_group"} :
        Executes(t, op, "start")
  BY DEF Handlers, HandleWrite, HandleTimeCall, HandleNanoSleep, HandleClone, HandleExit,
         HandleExitGroup
<1>3. Op(t) \notin {"lock", "unlock", "await"} /\ Types
  BY <1>2 DEF MutexInv, Executes
<1>4. PICK phase \in {"start", "asleep", "exiting", "ended"} :
        /\ Proceeds(t) \/ Stays(t, phase)
        /\ phase = "asleep" => Op(t) = "sleep"
  BY DEF Handlers, HandleWrite, HandleTimeCall, HandleNanoSleep, HandleClone, HandleExit,
         HandleExitGroup, Executes
<1>5. Holds(t)' <=> Holds(t)
  BY <1>1, <1>3, <1>4, HoldsOnward, HoldsInPlace DEF Holds
<1> QED BY <1>1, <1>4, <1>5, StepApart DEF Phases

LEMMA MutexLock ==
  ASSUME LocksPaired, MutexInv, Types', NEW t \in Threads, LockFree(t) \/ LockContended(t)
  PROVE  MutexInv' /\ LockStep
<1> USE DEF Phases
<1>1. mem'.lock # 0 /\ prog' = prog /\ Types
  BY DEF LockFree, LockContended, Continues, FutexWait, Answered, MutexInv, Types, Memories
<1>2. PICK op \in {"lock", "await"}, phase \in {"start", "retry", "relock"} :
        /\ Executes(t, op, phase)
        /\ op = "await" => phase = "relock"
  BY DEF LockFree, LockContended, Contends
<1>3. Op(t) = op /\ at[t] = phase
  BY <1>1, <1>2 DEF Executes
<1>4. Op(t) = "await" => InSection(prog.code[t], ip[t])
  BY <1>1, <1>2, <1>3, OwnerInSection
<1>5. CASE mem.lock = 0
  <2>1. IF Op(t) = "lock" THEN Proceeds(t) ELSE Stays(t, "woken")
    BY <1>3, <1>5 DEF LockFree, LockContended, Locked, Executes
  <2>2. Holds(t)'
    BY <1>1, <1>2, <1>3, <1>4, <2>1, HoldsOnward, HoldsInPlace
  <2> QED BY <1>1, <1>5, <2>1, <2>2, StepTakes
<1>6. CASE mem.lock # 0
  <2>1. PICK waits \in {"retry", "relock"} :
          Stays(t, waits) /\ (Op(t) = "await" => waits = "relock")
    BY <1>6 DEF LockFree, LockContended, Executes
  <2>2. Holds(t)' <=> Holds(t)
    BY <1>1, <1>2, <1>3, <2>1, HoldsInPlace DEF Holds
  <2> QED BY <1>1, <1>6, <2>1, <2>2, StepApart
<1> QED BY <1>5, <1>6

LEMMA MutexRelease ==
  ASSUME LocksPaired, MutexInv, Types', NEW t \in Threads, Unlock(t) \/ AwaitBlocks(t)
  PROVE  MutexInv' /\ LockStep
<1> USE DEF Phases
<1>1. prog' = prog /\ mem'.lock = 0 /\ Types
  BY DEF Unlock, AwaitBlocks, WakeIf, FutexWake, Answered, Continues, MutexInv, Types, Memories
<1>2. PICK op \in {"unlock", "await"}, phase \in {"start", "announced"} :
        Executes(t, op, phase)
  BY DEF Unlock, AwaitBlocks
<1>3. Op(t) = op /\ at[t] = phase /\ InSection(prog.code[t], ip[t])
  BY <1>1, <1>2, OwnerInSection DEF Executes
<1>4. Holds(t)
  BY <1>3 DEF Holds
<1>5. CASE Unlock(t)
  <2>1. Proceeds(t) /\ Op(t) = "unlock"
    BY <1>5 DEF Unlock, Executes
  <2>2. ~Holds(t)'
    BY <1>1, <1>3, <2>1, HoldsOnward
  <2> QED BY <1>1, <1>4, <2>1, <2>2, StepGives
<1>6. CASE AwaitBlocks(t)
  <2>1. Stays(t, "waiting") /\ Op(t) = "await"
    BY <1>6 DEF AwaitBlocks, Executes
  <2>2. ~Holds(t)'
    BY <1>1, <2>1, HoldsInPlace
  <2> QED BY <1>1, <1>4, <2>1, <2>2, StepGives
<1> QED BY <1>5, <1>6

LEMMA MutexUserCode ==
  ASSUME LocksPaired, MutexInv, Types', NEW t \in Threads, UserCode(t)
  PROVE  MutexInv' /\ LockStep
<1> USE DEF Phases
<1>1. CASE LockFree(t) \/ LockContended(t)
  BY <1>1, MutexLock
<1>2. CASE Unlock(t) \/ AwaitBlocks(t)
  BY <1>2, MutexRelease
<1>3. CASE Add(t) \/ Signal(t) \/ AwaitDone(t) \/ Join(t)
  <2>1. prog' = prog /\ mem'.lock = mem.lock /\ Types
    BY <1>3 DEF Add, Signal, AwaitDone, Join, FutexWait, Answered, Continues, WakeIf,
                FutexWake, MutexInv, Types, Memories
  <2>2. PICK op \in {"add", "signal", "await", "join"} : Executes(t, op, "start")
    BY <1>3 DEF Add, Signal, AwaitDone, Join
  <2>3. Op(t) = op /\ at[t] = "start"
    BY <2>1, <2>2 DEF Executes
  <2>4. Proceeds(t) \/ Stays(t, "start")
    BY <1>3 DEF Add, Signal, AwaitDone, Join
  <2>5. Holds(t)' <=> Holds(t)
    BY <2>1, <2>2, <2>3, <2>4, HoldsOnward, HoldsInPlace DEF Holds
  <2> QED BY <2>1, <2>4, <2>5, StepApart
<1>4. CASE AwaitSignal(t)
  <2>1. prog' = prog /\ mem'.lock = mem.lock /\ Types
    BY <1>4 DEF AwaitSignal, FutexWait, Answered, Continues, MutexInv, Types, Memories
  <2>2. Op(t) = "await" /\ at[t] = "waiting"
    BY <1>4 DEF AwaitSignal, Executes
  <2>3. PICK phase \in {"waiting", "relock"} : Stays(t, phase)
    BY <1>4 DEF AwaitSignal
  <2>4. Holds(t)' <=> Holds(t)
    BY <2>1, <2>2, <2>3, HoldsInPlace DEF Holds
  <2> QED BY <2>1, <2>3, <2>4, StepApart
<1>5. CASE AwaitWrites(t)
  <2>1. prog' = prog /\ mem'.lock = mem.lock /\ Types
    BY <1>5 DEF AwaitWrites, Answered, MutexInv
  <2>2. Op(t) = "await" /\ at[t] \in {"start", "woken"}
    BY <1>5 DEF AwaitWrites, Executes
  <2>3. PICK phase \in {"announced", "start"} : Stays(t, phase)
    BY <1>5 DEF AwaitWrites
  <2>4. Holds(t)' <=> Holds(t)
    BY <2>1, <2>2, <2>3, HoldsInPlace DEF Holds
  <2> QED BY <2>1, <2>3, <2>4, StepApart
<1> QED BY <1>1, <1>2, <1>3, <1>4, <1>5 DEF UserCode

LEMMA NextMutex == LocksPaired /\ MutexInv /\ [Next]_vars => MutexInv' /\ LockStep
<1> SUFFICES ASSUME LocksPaired, MutexInv, [Next]_vars PROVE MutexInv' /\ LockStep
  OBVIOUS
<1>1. Types'
  BY NextTypes DEF MutexInv
<1>2. CASE UNCHANGED vars \/ Advance
  <2>1. UNCHANGED <<prog, ip, at, mem>>
    BY <1>2 DEF vars, Advance
  <2>2. \A u \in Threads : (Holds(u)' <=> Holds(u)) /\ Op(u)' = Op(u)
    BY <2>1 DEF Holds, Op
  <2> QED BY <1>1, <2>1, <2>2, StepKeepsMutex DEF MutexInv
<1>3. ASSUME NEW t \in Threads, Event(t) \/ Handlers(t) \/ UserCode(t)
      PROVE  MutexInv' /\ LockStep
  BY <1>1, <1>3, MutexEvent, MutexHandlers, MutexUserCode
<1> QED BY <1>2, <1>3 DEF Next

(***************************************************************************)
(* A program in which only its holder releases the mutex keeps its         *)
(* critical sections apart, for any number of threads: HandleFutex answers *)
(* 0 to every wait, but a thread that was not woken finds the lock word    *)
(* taken and waits again, and none is let in by the answer alone.          *)
(***************************************************************************)
THEOREM SectionsExclude == LocksPaired => (FutexSpec => []MutualExclusion)
<1>1. MutexInv => MutualExclusion
  BY DEF MutexInv
<1> SUFFICES ASSUME LocksPaired PROVE FutexSpec => []MutualExclusion
  OBVIOUS
<1>2. MutexInv /\ [Next]_vars => MutexInv'
  BY NextMutex
<1> QED BY <1>1, <1>2, InitMutex, PTL DEF FutexSpec

(***************************************************************************)
(* In such a program every step of the threads is a step of the abstract   *)
(* mutex or none: it is taken when free and by one thread, and only its    *)
(* holder makes it free, so that no futex wait HandleFutex answers leaves  *)
(* the lock word taken with nobody to release it.                          *)
(***************************************************************************)
THEOREM MutexRefined == LocksPaired => (FutexSpec => ImplementsMutex)
<1> SUFFICES ASSUME LocksPaired PROVE FutexSpec => ImplementsMutex
  OBVIOUS
<1>1. MutexInv /\ [Next]_vars => MutexInv' /\ LockStep
  BY NextMutex
<1>2. LockStep => [\E t \in Threads : Lock!Acquire(t) \/ Lock!Release(t)]_<<{t \in Threads : Holds(t)}, mem.lock = 0>>
  BY DEF LockStep
<1> QED BY <1>1, <1>2, InitMutex, PTL DEF FutexSpec, ImplementsMutex, Lock!MutexSpec
===============================================================================
