--------------------------- MODULE ProgressReporter ---------------------------
(***************************************************************************)
(* The thread that prints progress lines (ProgressReporter in main.cc) and *)
(* the main thread that publishes to it and stops it.  They share two      *)
(* relaxed atomic counters, and a flag with its mutex and its condition    *)
(* variable.  A relaxed load may return any value stored to its counter,   *)
(* but never one older than a load of the same thread has returned before: *)
(* each counter is the sequence of its stores, and the reporter remembers  *)
(* how far it has read.                                                    *)
(***************************************************************************)
EXTENDS Integers, Sequences

CONSTANTS
    Boot,             \* cycles and instructions at the start: 0, or a checkpoint's
    MaxCycles,        \* options.max_cycles
    RetireWidth,      \* instructions that may retire in a cycle
    PublishInterval,  \* 0x4000 in the code
    MaxTimeouts       \* bound on the timeouts and spurious wake-ups of a run

ASSUME ProgressAssumption ==
    /\ Boot \in [cycles : Nat, instructions : Nat]
    /\ MaxCycles \in Nat /\ Boot.cycles <= MaxCycles
    /\ RetireWidth \in Nat /\ PublishInterval \in Nat \ {0} /\ MaxTimeouts \in Nat

VARIABLES
    \* the main thread
    main,             \* what it does next
    caller,           \* who called finish: main itself or the destructor
    enabled,          \* progress_enabled
    joinable,         \* thread_.joinable()
    cycle, retired,   \* cycle, retired_instructions
    \* shared
    cycles, instructions, \* the stores to the two counters, in modification order
    stop, mutex,      \* stop_, and who holds mutex_
    \* the reporter thread
    reporter,         \* what it does next
    timedOut,         \* wait_until returned because of the time
    timeouts,         \* how often it woke without being notified
    readTo,           \* the newest store to each counter it has seen
    previous, current \* previous_cycles ..., cycles ... of the loop body

mainVars == <<main, caller, joinable, cycle, retired>>
counters == <<cycles, instructions>>
line == <<readTo, previous, current>>
vars == <<mainVars, enabled, counters, stop, mutex, reporter, timedOut, timeouts, line>>

Init ==
    /\ main = "cycle" /\ caller = "main"
    /\ enabled \in BOOLEAN /\ joinable = enabled
    /\ cycle = Boot.cycles /\ retired = Boot.instructions
    /\ cycles = <<Boot.cycles>> /\ instructions = <<Boot.instructions>>
    /\ stop = FALSE /\ mutex = "free"
    /\ reporter = IF enabled THEN "firstCycles" ELSE "ended"
    /\ timedOut = FALSE /\ timeouts = 0
    /\ readTo = [cycles |-> 1, instructions |-> 1]
    /\ previous = Boot /\ current = Boot

(***************************************************************************)
(* The main thread: cycles, publications, and the ways a run ends.         *)
(***************************************************************************)
MainOnly == UNCHANGED <<enabled, joinable, stop, mutex, reporter, timedOut, timeouts, line>>

\* Evaluate the model and replay what retires; publish now and then.
RunCycle ==
    /\ main = "cycle" /\ cycle < MaxCycles
    /\ retired' \in retired..(retired + RetireWidth)
    /\ main' = IF enabled /\ cycle % PublishInterval = 0 THEN "storeCycles" ELSE "decide"
    /\ UNCHANGED <<caller, cycle, counters>> /\ MainOnly

StoreCycles ==
    /\ main = "storeCycles"
    /\ cycles' = Append(cycles, cycle + 1)
    /\ main' = "storeInstructions"
    /\ UNCHANGED <<caller, cycle, retired, instructions>> /\ MainOnly

StoreInstructions ==
    /\ main = "storeInstructions"
    /\ instructions' = Append(instructions, retired)
    /\ main' = "decide"
    /\ UNCHANGED <<caller, cycle, retired, cycles>> /\ MainOnly

NextCycle ==
    /\ main = "decide"
    /\ cycle' = cycle + 1 /\ main' = "cycle"
    /\ UNCHANGED <<caller, retired, counters>> /\ MainOnly

\* An exit code, a marker or a stall ends the run in this cycle, or the limit
\* is reached; both publish once more before finish.
Ending == main = "decide" \/ (main = "cycle" /\ cycle = MaxCycles)
End ==
    /\ Ending
    /\ main' = IF enabled THEN "finalCycles" ELSE "finish"
    /\ cycle' = IF main = "decide" THEN cycle + 1 ELSE cycle
    /\ UNCHANGED <<caller, retired, counters>> /\ MainOnly

\* Mutant: the last publication is a cycle short.
Fault_FinalCycles == cycle - 1
FinalCycles == cycle
StoreFinalCycles ==
    /\ main = "finalCycles"
    /\ cycles' = Append(cycles, FinalCycles)
    /\ main' = "finalInstructions"
    /\ UNCHANGED <<caller, cycle, retired, instructions>> /\ MainOnly

StoreFinalInstructions ==
    /\ main = "finalInstructions"
    /\ instructions' = Append(instructions, retired)
    /\ main' = "finish"
    /\ UNCHANGED <<caller, cycle, retired, cycles>> /\ MainOnly

\* A mismatch with the reference: finish, report and return, in mid cycle.
Mismatch ==
    /\ main = "cycle" /\ cycle < MaxCycles
    /\ main' = "finish"
    /\ UNCHANGED <<caller, cycle, retired, counters>> /\ MainOnly

\* An exception, during a cycle, a checkpoint or the report, unwinds main:
\* the destructor of the reporter calls finish.
Throw ==
    /\ main \in {"cycle", "decide", "report"} /\ (main = "cycle" => cycle < MaxCycles)
    /\ main' = "finish" /\ caller' = "destructor"
    /\ UNCHANGED <<cycle, retired, counters>> /\ MainOnly

\* finish returns: main reports and returns, or is destroyed with its locals.
AfterFinish == IF caller = "main" THEN "report" ELSE "returned"

Finish ==
    /\ main = "finish"
    /\ main' = IF joinable THEN "lock" ELSE AfterFinish
    /\ UNCHANGED <<caller, cycle, retired, counters>> /\ MainOnly

\* Mutant: the flag is set without holding the mutex.
Fault_SetStop ==
    /\ main = "lock"
    /\ stop' = TRUE /\ main' = "notify"
    /\ UNCHANGED <<caller, enabled, joinable, cycle, retired, counters, mutex, reporter, timedOut,
                   timeouts, line>>
\* Mutant: the mutex is still locked when the reporter is notified.
FaultLocked_SetStop ==
    /\ main = "lock" /\ mutex = "free"
    /\ stop' = TRUE /\ main' = "notify" /\ mutex' = "main"
    /\ UNCHANGED <<caller, enabled, joinable, cycle, retired, counters, reporter, timedOut,
                   timeouts, line>>
\* The lock_guard's block: lock, set the flag, unlock.
SetStop ==
    /\ main = "lock" /\ mutex = "free"
    /\ stop' = TRUE /\ main' = "notify"
    /\ UNCHANGED <<caller, enabled, joinable, cycle, retired, counters, mutex, reporter, timedOut,
                   timeouts, line>>

\* notify_one wakes the reporter if it waits now, and is lost otherwise.
Notify ==
    /\ main = "notify"
    /\ reporter' = IF reporter = "waiting" THEN "awake" ELSE reporter
    /\ main' = "join"
    /\ UNCHANGED <<caller, enabled, joinable, cycle, retired, counters, stop, mutex, timedOut,
                   timeouts, line>>

\* Mutant: the thread is detached.
Fault_Join ==
    /\ main = "join"
    /\ joinable' = FALSE /\ main' = AfterFinish
    /\ UNCHANGED <<caller, enabled, cycle, retired, counters, stop, mutex, reporter, timedOut,
                   timeouts, line>>
Join ==
    /\ main = "join" /\ reporter = "ended"
    /\ joinable' = FALSE /\ main' = AfterFinish
    /\ UNCHANGED <<caller, enabled, cycle, retired, counters, stop, mutex, reporter, timedOut,
                   timeouts, line>>

\* The summary is printed; at the end of the scope the destructor runs.
Report ==
    /\ main = "report"
    /\ main' = "finish" /\ caller' = "destructor"
    /\ UNCHANGED <<cycle, retired, counters>> /\ MainOnly

Returned == main = "returned" /\ UNCHANGED vars

(***************************************************************************)
(* The reporter thread.                                                    *)
(***************************************************************************)
ReporterOnly == UNCHANGED <<mainVars, enabled, counters, stop>>

\* A relaxed load of a counter, into the counter's place in the given record.
LoadedCycles(k) == k \in readTo.cycles..Len(cycles)
LoadedInstructions(k) == k \in readTo.instructions..Len(instructions)

FirstCycles(k) ==
    /\ reporter = "firstCycles" /\ LoadedCycles(k)
    /\ previous' = [previous EXCEPT !.cycles = cycles[k]]
    /\ readTo' = [readTo EXCEPT !.cycles = k]
    /\ reporter' = "firstInstructions"
    /\ UNCHANGED <<mutex, timedOut, timeouts, current>> /\ ReporterOnly

FirstInstructions(k) ==
    /\ reporter = "firstInstructions" /\ LoadedInstructions(k)
    /\ previous' = [previous EXCEPT !.instructions = instructions[k]]
    /\ readTo' = [readTo EXCEPT !.instructions = k]
    /\ reporter' = "acquire"
    /\ UNCHANGED <<mutex, timedOut, timeouts, current>> /\ ReporterOnly

\* Before the wait, and again at the end of the loop body.
Acquire ==
    /\ reporter = "acquire" /\ mutex = "free"
    /\ mutex' = "reporter" /\ reporter' = "test"
    /\ UNCHANGED <<timedOut, timeouts, line>> /\ ReporterOnly

\* wait_for evaluates the predicate, with the mutex held.
Test ==
    /\ reporter = "test"
    /\ IF stop
       THEN reporter' = "ended" /\ mutex' = "free"
       ELSE reporter' = "block" /\ UNCHANGED mutex
    /\ UNCHANGED <<timedOut, timeouts, line>> /\ ReporterOnly

\* The mutex is released and the wait begins, atomically.
Block ==
    /\ reporter = "block"
    /\ mutex' = "free" /\ reporter' = "waiting"
    /\ UNCHANGED <<timedOut, timeouts, line>> /\ ReporterOnly

\* The interval elapses, or the wait ends for no reason.
Wake(elapsed) ==
    /\ reporter = "waiting" /\ timeouts < MaxTimeouts
    /\ reporter' = "awake" /\ timedOut' = elapsed /\ timeouts' = timeouts + 1
    /\ UNCHANGED <<mutex, line>> /\ ReporterOnly

\* Awake with the mutex again: after a timeout the predicate decides for the
\* last time, otherwise it decides whether to wait on.
Reacquire ==
    /\ reporter = "awake" /\ mutex = "free"
    /\ timedOut' = FALSE
    /\ IF stop \/ ~timedOut
       THEN reporter' = "test" /\ mutex' = "reporter"
       ELSE reporter' = "loadCycles" /\ UNCHANGED mutex    \* and lock.unlock()
    /\ UNCHANGED <<timeouts, line>> /\ ReporterOnly

LoadCycles(k) ==
    /\ reporter = "loadCycles" /\ LoadedCycles(k)
    /\ current' = [current EXCEPT !.cycles = cycles[k]]
    /\ readTo' = [readTo EXCEPT !.cycles = k]
    /\ reporter' = "loadInstructions"
    /\ UNCHANGED <<mutex, timedOut, timeouts, previous>> /\ ReporterOnly

LoadInstructions(k) ==
    /\ reporter = "loadInstructions" /\ LoadedInstructions(k)
    /\ current' = [current EXCEPT !.instructions = instructions[k]]
    /\ readTo' = [readTo EXCEPT !.instructions = k]
    /\ reporter' = "print"
    /\ UNCHANGED <<mutex, timedOut, timeouts, previous>> /\ ReporterOnly

\* The line with the differences current - previous is written to cerr.
PrintLine ==
    /\ reporter = "print"
    /\ previous' = current
    /\ reporter' = "acquire"
    /\ UNCHANGED <<mutex, timedOut, timeouts, readTo, current>> /\ ReporterOnly

MainStep ==
    \/ RunCycle \/ StoreCycles \/ StoreInstructions \/ NextCycle \/ End
    \/ StoreFinalCycles \/ StoreFinalInstructions
    \/ Mismatch \/ Throw \/ Finish \/ Notify \/ Join \/ Report
ReporterStep ==
    \/ \E k \in DOMAIN cycles : FirstCycles(k) \/ LoadCycles(k)
    \/ \E k \in DOMAIN instructions : FirstInstructions(k) \/ LoadInstructions(k)
    \/ Acquire \/ Test \/ Block \/ Reacquire \/ PrintLine
Next == \/ MainStep
        \/ SetStop
        \/ ReporterStep
        \/ \E elapsed \in BOOLEAN : Wake(elapsed)
        \/ Returned

Spec == Init /\ [][Next]_vars

(***************************************************************************)
(* Fairness: both threads are scheduled, and a thread that waits for a     *)
(* mutex which is released again and again gets it.  No timeout and no     *)
(* spurious wake-up is assumed to happen.                                  *)
(***************************************************************************)
FairSpec == Spec /\ WF_vars(MainStep) /\ WF_vars(ReporterStep) /\ SF_vars(SetStop)

(***************************************************************************)
(* Properties                                                              *)
(***************************************************************************)
Counts == [cycles : Nat, instructions : Nat]
HoldsMutex == {"test", "block"}
TypeOK ==
    /\ main \in {"cycle", "storeCycles", "storeInstructions", "decide", "finalCycles",
                 "finalInstructions", "finish", "lock", "notify", "join", "report", "returned"}
    /\ caller \in {"main", "destructor"} /\ enabled \in BOOLEAN /\ joinable \in BOOLEAN
    /\ cycle \in Nat /\ retired \in Nat
    /\ cycles \in Seq(Nat) /\ instructions \in Seq(Nat)
    /\ stop \in BOOLEAN /\ mutex \in {"free", "reporter"}
    /\ reporter \in {"firstCycles", "firstInstructions", "acquire", "waiting", "awake",
                     "loadCycles", "loadInstructions", "print", "ended"} \cup HoldsMutex
    /\ timedOut \in BOOLEAN /\ timeouts \in Nat
    /\ readTo \in Counts /\ previous \in Counts /\ current \in Counts

(* The numbers of a line never run backwards, so the unsigned differences  *)
(* it prints are real progress: a counter only ever grows, on all the      *)
(* paths that publish, and a later load never returns an older value.      *)
WindowsAreProgress ==
    reporter = "print" => /\ previous.cycles <= current.cycles
                          /\ previous.instructions <= current.instructions

(* The summary is printed, and the counters, the mutex and the condition   *)
(* variable are destroyed, only after the thread that uses them has ended  *)
(* and let go of the mutex, on every way out of main.                      *)
QuietAfterFinish ==
    main \in {"report", "returned"} => reporter = "ended" /\ mutex = "free"

(* finish returns, without waiting for the interval to elapse: the stop    *)
(* flag is never set between the reporter's test and its wait, where the   *)
(* notification would be lost.                                             *)
FinishReturns == main = "finish" ~> main = "returned"
=============================================================================
