------------------------ MODULE ProgressReporterProofs ------------------------
(***************************************************************************)
(* Proofs about the progress reporter, for every length of a run, every    *)
(* publication interval and any number of timeouts.                        *)
(***************************************************************************)
EXTENDS ProgressReporter, TLAPS

(* The inductive invariant.  The mutex is held where the code holds it, a  *)
(* thread that is no longer joinable has ended, the stores to a counter    *)
(* grow and do not run ahead of the simulation, and what the reporter      *)
(* remembers is not newer than the newest store it has seen.               *)
LockDiscipline ==
    /\ mutex = "reporter" <=> reporter \in HoldsMutex
    /\ main \in {"lock", "notify", "join"} => joinable
    /\ main \in {"report", "returned"} => ~joinable
    /\ ~joinable => reporter = "ended"

Grows(s) == \A i, j \in 1..Len(s) : i <= j => s[i] <= s[j]
Below(s, bound) == \A i \in 1..Len(s) : s[i] <= bound
Done(m, c) == IF m \in {"cycle", "storeCycles", "finalCycles"} THEN c ELSE c + 1
CyclesDone == Done(main, cycle)
CountersGrow ==
    /\ Grows(cycles) /\ Below(cycles, CyclesDone)
    /\ Grows(instructions) /\ Below(instructions, retired)

ReadsForward ==
    /\ readTo.cycles \in 1..Len(cycles) /\ readTo.instructions \in 1..Len(instructions)
    /\ previous.cycles <= cycles[readTo.cycles]
    /\ previous.instructions <= instructions[readTo.instructions]
    /\ reporter \in {"loadInstructions", "print"} =>
         previous.cycles <= current.cycles /\ current.cycles <= cycles[readTo.cycles]
    /\ reporter = "print" => /\ previous.instructions <= current.instructions
                             /\ current.instructions <= instructions[readTo.instructions]

Inv == TypeOK /\ LockDiscipline /\ CountersGrow /\ ReadsForward

(* What a publication does to the stores of a counter.                     *)
LEMMA AppendGrows ==
    ASSUME NEW s \in Seq(Nat), NEW x \in Nat, Grows(s), Below(s, x)
    PROVE  /\ Append(s, x) \in Seq(Nat) /\ Grows(Append(s, x)) /\ Below(Append(s, x), x)
           /\ Len(s) <= Len(Append(s, x))
           /\ \A i \in 1..Len(s) : i \in 1..Len(Append(s, x)) /\ Append(s, x)[i] = s[i]
<1> DEFINE t == Append(s, x)
<1>1. /\ t \in Seq(Nat) /\ Len(t) = Len(s) + 1 /\ t[Len(s) + 1] = x /\ Len(s) \in Nat
      /\ \A i \in 1..Len(s) : t[i] = s[i]
  OBVIOUS
<1>2. \A i \in 1..Len(t) : i \in 1..Len(s) \/ i = Len(s) + 1
  BY <1>1
<1>3. \A i \in 1..Len(s) : s[i] \in Nat
  OBVIOUS
<1> HIDE DEF t
<1>4. Below(t, x)
  BY <1>1, <1>2 DEF Below
<1>5. Grows(t)
  BY <1>1, <1>2, <1>3, <1>4 DEF Grows, Below
<1> QED BY <1>1, <1>4, <1>5 DEF t

\* The invariant holds before the thread is started.
LEMMA InitInv == Init => Inv
<1> SUFFICES ASSUME Init PROVE Inv
  OBVIOUS
<1> USE ProgressAssumption DEF Init
<1>1. TypeOK
  <2>1. Boot.cycles \in Nat /\ Boot.instructions \in Nat /\ Boot \in Counts
    BY DEF Counts
  <2>2. cycles \in Seq(Nat) /\ instructions \in Seq(Nat) /\ readTo \in Counts
    BY <2>1 DEF Counts
  <2>3. joinable \in BOOLEAN /\ enabled \in BOOLEAN
    BY Zenon
  <2> QED BY <2>1, <2>2, <2>3 DEF TypeOK, HoldsMutex
<1>2. LockDiscipline
  BY DEF LockDiscipline, HoldsMutex
<1>3. CountersGrow
  BY DEF CountersGrow, Grows, Below, CyclesDone, Done
<1>4. ReadsForward
  BY DEF ReadsForward
<1> QED BY <1>1, <1>2, <1>3, <1>4 DEF Inv

(* A step of the main thread that publishes nothing.                       *)
LEMMA QuietMain ==
    ASSUME Inv, MainOnly, UNCHANGED counters, cycle' \in Nat, retired' \in Nat,
           CyclesDone <= CyclesDone', retired <= retired',
           caller' \in {"main", "destructor"},
           main' \in {"cycle", "storeCycles", "decide", "finalCycles", "finish", "lock", "report", "returned"},
           main' = "lock" => joinable,
           main' \in {"report", "returned"} => ~joinable
    PROVE  Inv'
<1> SUFFICES ASSUME NEW c \in Nat, cycle' = c, NEW r \in Nat, retired' = r
             PROVE  Inv'
  OBVIOUS
<1> USE DEF Inv, MainOnly, counters, line
<1>1. TypeOK'
  BY DEF TypeOK
<1>2. LockDiscipline'
  BY DEF LockDiscipline
<1>3. CountersGrow'
  <2>1. cycle \in Nat /\ retired \in Nat /\ cycles \in Seq(Nat) /\ instructions \in Seq(Nat)
    BY DEF TypeOK
  <2>2. CyclesDone \in Nat /\ CyclesDone' \in Nat
    BY <2>1 DEF CyclesDone, Done
  <2>3. Below(cycles, CyclesDone') /\ Below(instructions, retired')
    BY <2>1, <2>2 DEF CountersGrow, Below
  <2> QED BY <2>3 DEF CountersGrow, Grows, Below
<1>4. ReadsForward'
  BY DEF ReadsForward
<1> QED BY <1>1, <1>2, <1>3, <1>4

(* A store to either counter.                                              *)
LEMMA CyclesStored ==
    ASSUME Inv, MainOnly, NEW value \in Nat, cycles' = Append(cycles, value),
           CyclesDone <= value, value <= CyclesDone',
           UNCHANGED <<caller, cycle, retired, instructions>>,
           main' \in {"storeInstructions", "finalInstructions"}
    PROVE  Inv'
<1> USE DEF Inv, MainOnly, line
<1>1. Grows(cycles) /\ Below(cycles, value)
  BY DEF CountersGrow, Below, TypeOK, CyclesDone, Done
<1>2. /\ cycles' \in Seq(Nat) /\ Grows(cycles') /\ Below(cycles', value)
      /\ \A i \in 1..Len(cycles) : i \in 1..Len(cycles') /\ cycles'[i] = cycles[i]
  BY <1>1, AppendGrows DEF TypeOK
<1>3. TypeOK'
  BY <1>2 DEF TypeOK
<1>4. LockDiscipline'
  BY DEF LockDiscipline
<1>5. CountersGrow'
  <2>1. cycle \in Nat /\ CyclesDone' \in Nat
    BY DEF TypeOK, CyclesDone, Done
  <2>2. Below(cycles', CyclesDone')
    BY <1>2, <2>1 DEF Below
  <2> QED BY <1>2, <2>2 DEF CountersGrow, Grows, Below
<1>6. ReadsForward'
  BY <1>2 DEF ReadsForward
<1> QED BY <1>3, <1>4, <1>5, <1>6

\* The second store of a publication.
LEMMA InstructionsStored ==
    ASSUME Inv, MainOnly, instructions' = Append(instructions, retired),
           CyclesDone <= CyclesDone',
           UNCHANGED <<caller, cycle, retired, cycles>>,
           main' \in {"decide", "finish"}
    PROVE  Inv'
<1> USE DEF Inv, MainOnly, line
<1>1. /\ instructions' \in Seq(Nat) /\ Grows(instructions') /\ Below(instructions', retired)
      /\ \A i \in 1..Len(instructions) :
           i \in 1..Len(instructions') /\ instructions'[i] = instructions[i]
  BY AppendGrows DEF TypeOK, CountersGrow
<1>2. TypeOK'
  BY <1>1 DEF TypeOK
<1>3. LockDiscipline'
  BY DEF LockDiscipline
<1>4. CountersGrow'
  <2>1. CyclesDone \in Nat /\ CyclesDone' \in Nat
    BY <1>2 DEF CyclesDone, Done, TypeOK
  <2>2. Below(cycles, CyclesDone')
    BY <2>1 DEF CountersGrow, Below, TypeOK
  <2> QED BY <1>1, <2>2 DEF CountersGrow, Grows, Below
<1>5. ReadsForward'
  BY <1>1 DEF ReadsForward
<1> QED BY <1>2, <1>3, <1>4, <1>5

\* Steps of the main thread keep the invariant.
LEMMA MainStepInv == Inv /\ MainStep => Inv'
<1> SUFFICES ASSUME Inv, MainStep PROVE Inv'
  OBVIOUS
<1>0. /\ cycle \in Nat /\ retired \in Nat /\ MaxCycles \in Nat /\ RetireWidth \in Nat
      /\ caller \in {"main", "destructor"} /\ joinable \in BOOLEAN
  BY ProgressAssumption DEF Inv, TypeOK
<1>1. CASE RunCycle
  BY <1>0, <1>1, QuietMain DEF RunCycle, CyclesDone, Done
<1>2. CASE StoreCycles
  BY <1>0, <1>2, CyclesStored DEF StoreCycles, CyclesDone, Done
<1>3. CASE StoreInstructions
  BY <1>0, <1>3, InstructionsStored DEF StoreInstructions, CyclesDone, Done
<1>4. CASE NextCycle
  BY <1>0, <1>4, QuietMain DEF NextCycle, CyclesDone, Done
<1>5. CASE End
  BY <1>0, <1>5, QuietMain DEF End, Ending, CyclesDone, Done
<1>6. CASE StoreFinalCycles
  BY <1>0, <1>6, CyclesStored DEF StoreFinalCycles, FinalCycles, CyclesDone, Done
<1>7. CASE StoreFinalInstructions
  BY <1>0, <1>7, InstructionsStored DEF StoreFinalInstructions, CyclesDone, Done
<1>8. CASE Mismatch
  BY <1>0, <1>8, QuietMain DEF Mismatch, CyclesDone, Done
<1>9. CASE Throw \/ Report
  BY <1>0, <1>9, QuietMain DEF Throw, Report, CyclesDone, Done
<1>10. CASE Finish
  BY <1>0, <1>10, QuietMain DEF Finish, AfterFinish, CyclesDone, Done
<1>11. CASE Notify
  BY <1>11 DEF Notify, Inv, TypeOK, LockDiscipline, CountersGrow, ReadsForward, CyclesDone, Done,
     HoldsMutex, Grows, Below, counters, line
<1>12. CASE Join
  BY <1>12 DEF Join, AfterFinish, Inv, TypeOK, LockDiscipline, CountersGrow, ReadsForward,
     CyclesDone, Done, HoldsMutex, Grows, Below, counters, line
<1> QED BY <1>1, <1>2, <1>3, <1>4, <1>5, <1>6, <1>7, <1>8, <1>9, <1>10, <1>11, <1>12 DEF MainStep

\* Setting stop_ under the mutex keeps the invariant.
LEMMA SetStopInv == Inv /\ SetStop => Inv'
BY DEF SetStop, Inv, TypeOK, LockDiscipline, CountersGrow, ReadsForward, CyclesDone, Done,
   HoldsMutex, Grows, Below, counters, line

(* A step of the reporter leaves the main thread and the counters alone.   *)
LEMMA ReporterFrame == CountersGrow /\ ReporterOnly => CountersGrow'
BY DEF ReporterOnly, mainVars, counters, CountersGrow, CyclesDone, Done, Grows, Below

\* A relaxed load reads forward, however old the store it returns.
LEMMA LoadsInv ==
    ASSUME Inv,
           \/ \E k \in DOMAIN cycles : FirstCycles(k) \/ LoadCycles(k)
           \/ \E k \in DOMAIN instructions : FirstInstructions(k) \/ LoadInstructions(k)
    PROVE  Inv'
<1> USE DEF Inv
<1>0. /\ \A k \in 1..Len(cycles) : cycles[k] \in Nat
      /\ \A k \in 1..Len(instructions) : instructions[k] \in Nat
      /\ DOMAIN cycles = 1..Len(cycles) /\ DOMAIN instructions = 1..Len(instructions)
      /\ Len(cycles) \in Nat /\ Len(instructions) \in Nat
  BY DEF TypeOK
<1>1. ASSUME NEW k \in DOMAIN cycles, FirstCycles(k) PROVE Inv'
  <2>1. cycles[readTo.cycles] <= cycles[k] /\ cycles[k] \in Nat /\ k \in Nat
    BY <1>0, <1>1 DEF FirstCycles, LoadedCycles, ReadsForward, CountersGrow, Grows
  <2>2. TypeOK' /\ LockDiscipline'
    BY <1>0, <1>1, <2>1 DEF FirstCycles, ReporterOnly, mainVars, counters, TypeOK, Counts, LockDiscipline,
       HoldsMutex
  <2>3. ReadsForward'
    BY <1>0, <1>1, <2>1 DEF FirstCycles, ReporterOnly, mainVars, counters, TypeOK, Counts, ReadsForward
  <2> QED BY <1>1, <2>2, <2>3, ReporterFrame DEF FirstCycles
<1>2. ASSUME NEW k \in DOMAIN cycles, LoadCycles(k) PROVE Inv'
  <2>1. /\ cycles[readTo.cycles] <= cycles[k] /\ cycles[k] \in Nat /\ k \in Nat
        /\ previous.cycles <= cycles[k]
    <3>1. k \in 1..Len(cycles) /\ readTo.cycles \in 1..Len(cycles) /\ readTo.cycles <= k
      BY <1>0, <1>2 DEF LoadCycles, LoadedCycles, ReadsForward
    <3>2. cycles[readTo.cycles] <= cycles[k] /\ previous.cycles <= cycles[readTo.cycles]
      BY <3>1 DEF CountersGrow, Grows, ReadsForward
    <3>3. previous.cycles \in Nat
      BY DEF TypeOK, Counts
    <3> QED BY <1>0, <3>1, <3>2, <3>3
  <2>2. TypeOK' /\ LockDiscipline'
    BY <1>0, <1>2, <2>1 DEF LoadCycles, ReporterOnly, mainVars, counters, TypeOK, Counts, LockDiscipline,
       HoldsMutex
  <2>3. ReadsForward'
    BY <1>0, <1>2, <2>1 DEF LoadCycles, ReporterOnly, mainVars, counters, TypeOK, Counts, ReadsForward
  <2> QED BY <1>2, <2>2, <2>3, ReporterFrame DEF LoadCycles
<1>3. ASSUME NEW k \in DOMAIN instructions, FirstInstructions(k) PROVE Inv'
  <2>1. instructions[readTo.instructions] <= instructions[k] /\ instructions[k] \in Nat /\ k \in Nat
    BY <1>0, <1>3 DEF FirstInstructions, LoadedInstructions, ReadsForward, CountersGrow, Grows
  <2>2. TypeOK' /\ LockDiscipline'
    BY <1>0, <1>3, <2>1 DEF FirstInstructions, ReporterOnly, mainVars, counters, TypeOK, Counts, LockDiscipline,
       HoldsMutex
  <2>3. ReadsForward'
    BY <1>0, <1>3, <2>1 DEF FirstInstructions, ReporterOnly, mainVars, counters, TypeOK, Counts, ReadsForward
  <2> QED BY <1>3, <2>2, <2>3, ReporterFrame DEF FirstInstructions
<1>4. ASSUME NEW k \in DOMAIN instructions, LoadInstructions(k) PROVE Inv'
  <2>1. /\ instructions[readTo.instructions] <= instructions[k] /\ instructions[k] \in Nat /\ k \in Nat
        /\ previous.instructions <= instructions[k]
    <3>1. k \in 1..Len(instructions) /\ readTo.instructions \in 1..Len(instructions) /\ readTo.instructions <= k
      BY <1>0, <1>4 DEF LoadInstructions, LoadedInstructions, ReadsForward
    <3>2. instructions[readTo.instructions] <= instructions[k] /\ previous.instructions <= instructions[readTo.instructions]
      BY <3>1 DEF CountersGrow, Grows, ReadsForward
    <3>3. previous.instructions \in Nat
      BY DEF TypeOK, Counts
    <3> QED BY <1>0, <3>1, <3>2, <3>3
  <2>2. TypeOK' /\ LockDiscipline'
    BY <1>0, <1>4, <2>1 DEF LoadInstructions, ReporterOnly, mainVars, counters, TypeOK, Counts, LockDiscipline,
       HoldsMutex
  <2>3. ReadsForward'
    BY <1>0, <1>4, <2>1 DEF LoadInstructions, ReporterOnly, mainVars, counters, TypeOK, Counts, ReadsForward
  <2> QED BY <1>4, <2>2, <2>3, ReporterFrame DEF LoadInstructions
<1> QED BY <1>1, <1>2, <1>3, <1>4

\* The steps of wait_until keep the discipline of the mutex.
LEMMA WaitingInv ==
    ASSUME Inv,
           \/ Acquire \/ Test \/ Block \/ Reacquire \/ PrintLine
           \/ \E elapsed \in BOOLEAN : Wake(elapsed)
    PROVE  Inv'
<1> USE DEF Inv, Acquire, Test, Block, Wake, Reacquire, PrintLine, ReporterOnly, mainVars, counters, line
<1>1. CountersGrow'
  BY ReporterFrame
<1>2. TypeOK'
  <2>1. Acquire \/ Test \/ Block \/ Reacquire \/ PrintLine => TypeOK'
    BY DEF TypeOK, HoldsMutex
  <2>2. ASSUME NEW elapsed \in BOOLEAN, Wake(elapsed) PROVE TypeOK'
    <3>1. timedOut' \in BOOLEAN
      BY <2>2, Zenon
    <3> QED BY <2>2, <3>1 DEF TypeOK
  <2> QED BY <2>1, <2>2
<1>3. LockDiscipline'
  BY DEF LockDiscipline, HoldsMutex, TypeOK
<1>4. ReadsForward'
  BY DEF ReadsForward
<1> QED BY <1>1, <1>2, <1>3, <1>4

\* The invariant is inductive.
LEMMA NextInv == Inv /\ [Next]_vars => Inv'
<1>1. Inv /\ UNCHANGED vars => Inv'
  BY DEF vars, mainVars, counters, line, Inv, TypeOK, LockDiscipline, CountersGrow, ReadsForward,
     CyclesDone, Done, Grows, Below
<1> QED BY <1>1, MainStepInv, SetStopInv, LoadsInv, WaitingInv DEF Next, ReporterStep, Returned

(* The invariant of the two threads holds in every state.                  *)
THEOREM ProgressCorrect == Spec => []Inv
BY InitInv, NextInv, PTL DEF Spec

(* The state of both threads stays well typed.                             *)
THEOREM TypeCorrect == Spec => []TypeOK
<1>1. Inv => TypeOK
  BY DEF Inv
<1> QED BY <1>1, ProgressCorrect, PTL

(* No line of the reporter shows a negative window, although it reads the  *)
(* counters with relaxed loads while they are written.                     *)
THEOREM WindowsCorrect == Spec => []WindowsAreProgress
<1>1. Inv => WindowsAreProgress
  BY DEF Inv, ReadsForward, WindowsAreProgress
<1> QED BY <1>1, ProgressCorrect, PTL

(* Nothing the reporter uses is destroyed, and no summary printed, before  *)
(* its thread has ended.                                                   *)
THEOREM QuietCorrect == Spec => []QuietAfterFinish
<1>1. Inv => QuietAfterFinish
  BY DEF Inv, TypeOK, LockDiscipline, QuietAfterFinish, HoldsMutex
<1> QED BY <1>1, ProgressCorrect, PTL
=============================================================================
