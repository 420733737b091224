-------------------------------- MODULE Cosim --------------------------------
(***************************************************************************)
(* The simulation loop of main.cc: one action per simulated clock cycle.   *)
(* In a cycle the loop polls the terminal, lets the core and its devices   *)
(* evaluate, replays every retired instruction on the reference model and  *)
(* compares, injects the traps the reference does not take by itself,      *)
(* counts cycles without retirement, and ticks the timer.                  *)
(*                                                                         *)
(* The core (Verilated RTL) and the Spike processor are external: both are *)
(* modelled by the same few instructions of a privileged machine with two  *)
(* registers.  The core executes in order, at most one instruction a cycle,*)
(* into a reorder buffer, accesses devices when it executes and retires up *)
(* to three instructions a cycle later on; the reference accesses its own  *)
(* devices when the instruction is replayed.                               *)
(***************************************************************************)
EXTENDS PlatformDevices

CONSTANTS
    Scenarios,     \* [program, mtimecmp, uart_input, faulty, difftest]: the code in memory,
                   \* the timer the firmware has programmed, --uart-input, whether results
                   \* may be wrong, and FALSE with --no-difftest
    Stvec, Mtvec,  \* the addresses of the two trap handlers
    PollInterval,  \* 1024 in the code: cycles between two polls
    StallCycles,   \* --stall-cycles, 0 for never
    MaxCycles,     \* --max-cycles; bounds the behaviours
    RobSize        \* bound: instructions executed and not retired

VARIABLES
    scenario,      \* the scenario of this run
    core,          \* the core: its architectural state after execution
    rob,           \* the core: results that have not retired, oldest first
    draining,      \* the core: a store to tohost that is not on the bus yet
    platform,      \* the devices behind the AXI port
    ref,           \* the Spike processor
    refPlatform,   \* SpikeReference::Impl::platform
    state,         \* SimulationState
    status,        \* "running", or how main returned
    sleeping,      \* history: the core is in WFI and has not trapped since
    hung,          \* history: cycles without retirement while not sleeping
    owed,          \* history: the core has taken an ecall and retired nothing since
    races          \* history: what the reference could not replay as it happened
vars == <<scenario, core, rob, draining, platform, ref, refPlatform, state, status,
          sleeping, hung, owed, races>>

Registers == {1, 2}
Modes == {"U", "S", "M"}
Operations == {"alu", "csr", "load", "store", "access", "jump", "wfi", "ecall", "sret", "mret", "exit"}
Instruction == [op : Operations, rd : Registers, address : Nat]

Transfers == {"jump", "sret", "mret"}

\* Loads and stores go to registers that exist.  A handler begins with an
\* instruction that neither traps nor transfers control, as one that saves a
\* register does: the loop of next() then skips one step at most.
CodeAssumption(p) ==
    /\ p \in [DOMAIN p -> Instruction]
    /\ DOMAIN p \subseteq Nat /\ {0, Stvec, Mtvec} \subseteq DOMAIN p
    /\ \A pc \in DOMAIN p :
         /\ p[pc].op \in {"load", "store"} =>
              isDevice(p[pc].address, 1) /\ Backed(p[pc].address)
         /\ p[pc].op = "jump" => p[pc].address \in DOMAIN p
         /\ p[pc].op \notin Transfers => pc + 1 \in DOMAIN p
    /\ \A v \in {Stvec, Mtvec} :
         p[v].op \notin Transfers \cup {"ecall"} /\ v + 1 \notin {Stvec, Mtvec}

ASSUME CosimAssumption ==
    /\ \A s \in Scenarios :
         /\ CodeAssumption(s.program)
         /\ s.mtimecmp \in Time /\ s.uart_input \in Seq(Byte)
         /\ {s.faulty, s.difftest} \subseteq BOOLEAN
    /\ {PollInterval, RobSize} \subseteq Nat \ {0}
    /\ {StallCycles, MaxCycles} \subseteq Nat

(***************************************************************************)
(* The machine both sides implement.                                       *)
(***************************************************************************)
Hart == [pc : Nat, mode : Modes, regs : [Registers -> Byte],
         sepc : Nat, spp : Modes, mepc : Nat, mpp : Modes]

Ins(h) == scenario.program[h.pc]
Writes(i) == i.op \in {"alu", "csr", "load", "access"}
AluResult(h) == (h.regs[1] + h.regs[2] + 1) % ByteBase

\* The handlers advance the saved pc past an ecall before they return.
ReturnTo(epc) == IF scenario.program[epc].op = "ecall" THEN epc + 1 ELSE epc

\* The state after an instruction that does not trap and computes value.
Execute(h, value) ==
    LET i == Ins(h)
        r == IF Writes(i) THEN [h EXCEPT !.regs[i.rd] = value] ELSE h
    IN  CASE i.op = "sret" -> [r EXCEPT !.pc = ReturnTo(h.sepc), !.mode = h.spp]
          [] i.op = "mret" -> [r EXCEPT !.pc = ReturnTo(h.mepc), !.mode = h.mpp]
          [] i.op = "jump" -> [r EXCEPT !.pc = i.address]
          [] OTHER -> [r EXCEPT !.pc = h.pc + 1]

\* Only the core decides that an access faults: its page walk reads memory that
\* its own stores may not have reached yet.
\* Page faults and ecalls from U are delegated; M is left by mret only.
TrapTarget(h, cause) ==
    IF cause = "interrupt" \/ h.mode = "M" \/ (cause = "ecall" /\ h.mode = "S") THEN "M" ELSE "S"

TrapInto(h, target) ==
    IF target = "S"
    THEN [h EXCEPT !.pc = Stvec, !.mode = "S", !.sepc = h.pc, !.spp = h.mode]
    ELSE [h EXCEPT !.pc = Mtvec, !.mode = "M", !.mepc = h.pc, !.mpp = h.mode]

ResetHart == [pc |-> 0, mode |-> "U", regs |-> [r \in Registers |-> 0],
              sepc |-> 0, spp |-> "U", mepc |-> 0, mpp |-> "U"]

(***************************************************************************)
(* The core.  A retirement record has what the debug ports show.           *)
(***************************************************************************)
Retirement(h, value) ==
    [pc |-> h.pc, op |-> Ins(h).op, rd |-> Ins(h).rd, writeValid |-> Writes(Ins(h)), value |-> value]

\* What the core may compute: a device access goes through the bus now, the
\* counter CSRs are the core's own business.
CoreResults(h, p) ==
    LET i == Ins(h)
        read == readBus(p, i.address, 1)
        written == writeBus(p, i.address, [lane \in Lanes |-> 1], {i.address % 4})
    IN  CASE i.op = "load"  -> {[value |-> read.data[i.address % 4], platform |-> read.platform]}
          [] i.op = "store" -> {[value |-> 0, platform |-> written.platform]}
          [] i.op = "csr" \/ (i.op \in {"alu", "access"} /\ scenario.faulty) ->
               {[value |-> v, platform |-> p] : v \in Byte}
          [] OTHER -> {[value |-> AluResult(h), platform |-> p]}

(***************************************************************************)
(* The reference: SpikeReference::Impl.                                    *)
(***************************************************************************)
\* What a step of the reference may compute: mmio_load and mmio_store are
\* whole accesses, made now; its counters are not those of the core.
SpikeResults(s) ==
    LET i == Ins(s.hart)
        read == readBytes(s.platform, i.address, 1)
        written == writeBytes(s.platform, i.address, <<1>>)
    IN  CASE i.op = "load"  -> {[value |-> read.bytes[1], platform |-> read.platform]}
          [] i.op = "store" -> {[value |-> 0, platform |-> written.platform]}
          [] i.op = "csr"   -> {[value |-> v, platform |-> s.platform] : v \in Byte}
          [] OTHER -> {[value |-> AluResult(s.hart), platform |-> s.platform]}

\* processor_t::step(1) with interrupts suppressed; WFI never waits.
SpikeSteps(s) ==
    IF Ins(s.hart).op = "ecall"
    THEN {[s EXCEPT !.hart = TrapInto(@, TrapTarget(@, "ecall"))]}
    ELSE {[hart |-> Execute(s.hart, r.value), platform |-> r.platform] : r \in SpikeResults(s)}

\* Mutant: only traps into M-mode are recognised.
Fault_Trapped(before, after) == after.mepc = before.pc /\ after.pc = Mtvec
\* The test of next() for a step that trapped instead of retiring.
Trapped(before, after) ==
    \/ after.mepc = before.pc /\ after.pc = Mtvec
    \/ after.sepc = before.pc /\ after.pc = Stvec

SpikeCommit(before, after) ==
    [spike  |-> after,
     commit |-> Retirement(before.hart, after.hart.regs[Ins(before.hart).rd])]

\* next(): a step that trapped is skipped, and the first step of its handler
\* is never taken for another trap.
SpikeNext(s) ==
    UNION {IF Trapped(s.hart, first.hart)
           THEN {SpikeCommit(first, second) : second \in SpikeSteps(first)}
           ELSE {SpikeCommit(s, first)} : first \in SpikeSteps(s)}

\* injectInterrupt refuses a reference that is not at the interrupted
\* instruction, or in a mode in which it would not take the interrupt.
injectInterrupt(h, trap) ==
    [ok |-> h.pc = trap.epc /\ h.mode # "M", hart |-> TrapInto(h, "M")]

injectPageFault(h, trap) ==
    [ok   |-> h.pc = trap.epc /\ trap.target = TrapTarget(h, "fault"),
     hart |-> TrapInto(h, TrapTarget(h, "fault"))]

requiresSynchronization(op) == op = "csr"

\* All registers of the reference are replaced.
synchronize(spike, registers) == [spike EXCEPT !.hart.regs = registers]

(***************************************************************************)
(* The host: what main does with the outputs of a cycle.                   *)
(***************************************************************************)
InitialState ==
    [next_cycle |-> 0, cycles_without_retirement |-> 0, retired_instructions |-> 0,
     measured_cycles |-> 0, measured_instructions |-> 0, waiting_after_wfi |-> FALSE,
     architectural_state |-> [r \in Registers |-> 0]]

\* decodeRetiredStore and storeCoversAddress, with tohost as the address.
CoversTohost(op) == op = "exit"

\* Mutant: the instructions are not counted, the marker of "none yet" stays.
Fault_Measure(s, op) ==
    IF CoversTohost(op) THEN [s EXCEPT !.measured_instructions = @ + s.retired_instructions] ELSE s
\* The first retired store to tohost fixes the numbers of the report.
Measure(s, op) ==
    IF CoversTohost(op) /\ s.measured_cycles = 0
    THEN [s EXCEPT !.measured_cycles = s.next_cycle + 1,
                   !.measured_instructions = s.retired_instructions]
    ELSE s

RecordResult(s, r) ==
    IF r.writeValid THEN [s EXCEPT !.architectural_state[r.rd] = r.value] ELSE s

\* Mutant: only the instruction stream is compared.
Fault_Mismatch(expected, r) == expected.pc # r.pc \/ expected.op # r.op
Mismatch(expected, r) ==
    \/ expected.pc # r.pc
    \/ expected.op # r.op
    \/ /\ ~requiresSynchronization(r.op)
       /\ \/ expected.writeValid # r.writeValid
          \/ expected.writeValid /\ (expected.rd # r.rd \/ expected.value # r.value)

\* The result of a counter read is recorded first and then imposed.
Synchronize(spike, s, r) ==
    IF requiresSynchronization(r.op)
    THEN synchronize(spike, RecordResult(s, r).architectural_state) ELSE spike

\* One retired instruction, as the reference may replay it.
Replayed(host, r, next) ==
    LET counted == [host.state EXCEPT !.retired_instructions = @ + 1]
    IN  IF Mismatch(next.commit, r)
        THEN [state |-> counted, spike |-> next.spike, status |-> "mismatch"]
        ELSE [state |-> RecordResult(Measure(counted, r.op), r),
              spike |-> Synchronize(next.spike, counted, r), status |-> "running"]

\* After a mismatch main has returned; without a reference nothing is compared.
RetireLane(host, r) ==
    IF host.status # "running" THEN {host}
    ELSE IF scenario.difftest THEN {Replayed(host, r, next) : next \in SpikeNext(host.spike)}
    ELSE LET counted == [host.state EXCEPT !.retired_instructions = @ + 1]
         IN  {[host EXCEPT !.state = RecordResult(Measure(counted, r.op), r)]}

\* The three lanes in order; those that are not valid change nothing.
RetireLanes(host, retiring) ==
    LET lane(hosts, k) == IF k > Len(retiring) THEN hosts
                          ELSE UNION {RetireLane(h, retiring[k]) : h \in hosts}
    IN  lane(lane(lane({host}, 1), 2), 3)

NoTrap == [cause |-> "none"]

\* Interrupts and page faults are injected after the lanes; any other trap is
\* left to the reference, which takes it when the handler's first instruction
\* retires.
InjectTrap(host, trap) ==
    LET i == CASE trap.cause = "interrupt" -> injectInterrupt(host.spike.hart, trap)
               [] trap.cause = "fault" -> injectPageFault(host.spike.hart, trap)
               [] OTHER -> [ok |-> TRUE, hart |-> host.spike.hart]
    IN  IF host.status # "running" \/ ~scenario.difftest THEN host
        ELSE IF i.ok THEN [host EXCEPT !.spike.hart = i.hart]
        ELSE [host EXCEPT !.status = "trap_failed"]

\* pending_trap exists only beside a reference.
PendingTrap(trap) == scenario.difftest /\ trap # NoTrap

\* Mutant: a trap does not end the wait.
Fault_CountIdle(s, retiring, trap) ==
    LET waiting == IF retiring # <<>> THEN Last(retiring).op = "wfi" ELSE s.waiting_after_wfi
    IN  [s EXCEPT !.waiting_after_wfi = waiting,
                  !.cycles_without_retirement =
                    IF retiring # <<>> \/ waiting THEN 0 ELSE @ + 1]
CountIdle(s, retiring, trap) ==
    LET waiting == /\ ~PendingTrap(trap)
                   /\ IF retiring # <<>> THEN Last(retiring).op = "wfi" ELSE s.waiting_after_wfi
    IN  [s EXCEPT !.waiting_after_wfi = waiting,
                  !.cycles_without_retirement =
                    IF retiring # <<>> \/ waiting THEN 0 ELSE @ + 1]

\* The end of a cycle: exit, stall and cycle limit, in this order.
Outcome(s, exited) ==
    IF exited THEN "exit"
    ELSE IF StallCycles # 0 /\ s.cycles_without_retirement >= StallCycles THEN "stall"
    ELSE IF s.next_cycle >= MaxCycles THEN "timeout"
    ELSE "running"

\* The loop body after memory.update: bus is the platform the core has used.
Host(input, bus, retiring, trap, exited) ==
    LET spike == [hart |-> ref,
                  platform |-> setTime(appendUartInput(refPlatform, input), bus.mtime)]
        start == [state |-> state, spike |-> spike, status |-> "running"]
    IN  \E lanes \in RetireLanes(start, retiring) :
          LET traps   == InjectTrap(lanes, trap)
              counted == [CountIdle(traps.state, retiring, trap) EXCEPT !.next_cycle = @ + 1]
              running == traps.status = "running"
          IN  /\ ref' = traps.spike.hart
              /\ refPlatform' = traps.spike.platform
              /\ state' = IF running THEN counted ELSE traps.state
              /\ status' = IF running THEN Outcome(counted, exited) ELSE traps.status
              /\ platform' = IF running THEN tick(bus) ELSE bus

\* The addresses of the loads that are executed and not retired.
InFlight(buffer) ==
    {scenario.program[buffer[k].pc].address : k \in {j \in DOMAIN buffer : buffer[j].op = "load"}}

\* The receive buffer and the line status show what is typed.
InputRegisters == {Uart.base, Uart.base + 5}

\* The loads in flight read the same bytes of mtime at both times.
SameTimeRead(buffer, before, after) ==
    \A address \in InFlight(buffer) :
      InClint(address) /\ MtimeByte(address) \in TimerBytes =>
        ByteOf(before, MtimeByte(address)) = ByteOf(after, MtimeByte(address))

\* A device that changes under a load the core has executed and not retired,
\* a trap that is injected into a reference that owes another one, and an
\* instruction that looks like a trap: it leads to a trap vector while the
\* exception pc still holds its own address.
Races == {"input", "time", "trap", "vector"}
Racing(input, retiring, trap) ==
    {race \in Races :
       \/ race = "input" /\ input # <<>> /\ InFlight(rob) \cap InputRegisters # {}
       \/ race = "time" /\ ~SameTimeRead(rob', platform.mtime, platform'.mtime)
       \/ race = "trap" /\ owed /\ retiring = <<>> /\ trap.cause \in {"interrupt", "fault"}
       \/ race = "vector" /\ trap = NoTrap /\ core' # core /\ Trapped(core, core')}

\* The histories look at the core and its devices, not at the reference.
Observe(input, retiring, trap) ==
    /\ owed' = (trap.cause = "ecall" \/ (owed /\ retiring = <<>> /\ trap = NoTrap))
    /\ races' = races \cup Racing(input, retiring, trap)
    /\ sleeping' = /\ trap = NoTrap
                   /\ IF retiring # <<>> THEN Last(retiring).op = "wfi" ELSE sleeping
    /\ hung' = IF retiring # <<>> \/ sleeping' THEN 0 ELSE hung + 1

(***************************************************************************)
(* One iteration of the loop, by what the core does in it.                 *)
(***************************************************************************)
Init ==
    /\ scenario \in Scenarios
    /\ core = ResetHart
    /\ rob = <<>>
    /\ draining = FALSE
    /\ platform = [InitialPlatform(0, scenario.uart_input) EXCEPT !.mtimecmp = scenario.mtimecmp]
    /\ ref = ResetHart
    /\ refPlatform = platform
    /\ state = InitialState
    /\ status = IF MaxCycles = 0 THEN "timeout" ELSE "running"
    /\ sleeping = FALSE
    /\ hung = 0
    /\ owed = FALSE
    /\ races = {}

\* driveInterrupts: the timer is the only interrupt line that is driven.
InterruptPending == timerInterrupt(platform)

\* What poll may return in this cycle.
PollResults == IF state.next_cycle % PollInterval = 0 THEN {<<>>} \cup {<<b>> : b \in Byte} ELSE {<<>>}

\* The oldest n results retire; a store to tohost then waits for the bus.
Retiring(n) == SubSeq(rob, 1, n)
DrainAfter(n, exited) ==
    ~exited /\ (draining \/ \E k \in 1..n : rob[k].op = "exit")

\* The core retires and executes nothing more: it waits, or it hangs.
CoreIdles ==
    /\ status = "running"
    /\ UNCHANGED <<scenario, core>>
    /\ \E input \in PollResults, n \in 0..Len(rob), exited \in {FALSE, draining} :
         /\ n <= 3
         /\ rob' = SubSeq(rob, n + 1, Len(rob))
         /\ draining' = DrainAfter(n, exited)
         /\ Host(input, appendUartInput(platform, input), Retiring(n), NoTrap, exited)
         /\ Observe(input, Retiring(n), NoTrap)

\* The core executes the next instruction; devices are accessed in order, when
\* nothing older is left to retire.
CoreExecutes ==
    /\ status = "running"
    /\ Ins(core).op # "ecall"
    /\ Ins(core).op \in {"load", "store"} => rob = <<>>
    /\ \E input \in PollResults, n \in 0..Len(rob), exited \in {FALSE, draining} :
         /\ n <= 3 /\ Len(rob) - n < RobSize
         /\ \E r \in CoreResults(core, appendUartInput(platform, input)) :
              /\ core' = Execute(core, r.value)
              /\ rob' = Append(SubSeq(rob, n + 1, Len(rob)), Retirement(core, r.value))
              /\ Host(input, r.platform, Retiring(n), NoTrap, exited)
         /\ draining' = DrainAfter(n, exited)
         /\ Observe(input, Retiring(n), NoTrap)
    /\ UNCHANGED scenario

\* The core takes a trap before its next instruction, after all older ones.
CoreTraps(cause) ==
    /\ status = "running"
    /\ CASE cause = "interrupt" -> InterruptPending /\ core.mode # "M"
         [] cause = "fault" -> Ins(core).op = "access" /\ core.mode # "M"
         [] cause = "ecall" -> Ins(core).op = "ecall"
    /\ Len(rob) <= 3
    /\ \E input \in PollResults, exited \in {FALSE, draining} :
         LET target == TrapTarget(core, cause)
             trap   == [cause |-> cause, epc |-> core.pc, target |-> target]
         IN  /\ core' = TrapInto(core, target)
             /\ draining' = DrainAfter(Len(rob), exited)
             /\ rob' = <<>>
             /\ Host(input, appendUartInput(platform, input), rob, trap, exited)
             /\ Observe(input, rob, trap)
    /\ UNCHANGED scenario

\* main has returned.
Returned == status # "running" /\ UNCHANGED vars

Next == CoreIdles \/ CoreExecutes \/ Returned
        \/ \E cause \in {"interrupt", "fault", "ecall"} : CoreTraps(cause)

Spec == Init /\ [][Next]_vars

SimulationStates ==
    [next_cycle : 0..MaxCycles, cycles_without_retirement : 0..MaxCycles,
     retired_instructions : 0..(3 * MaxCycles), measured_cycles : 0..MaxCycles,
     measured_instructions : 0..(3 * MaxCycles), waiting_after_wfi : BOOLEAN,
     architectural_state : [Registers -> Byte]]

Retirements == [pc : Nat, op : Operations, rd : Registers, writeValid : BOOLEAN, value : Byte]

TypeOK ==
    /\ scenario \in Scenarios
    /\ core \in Hart /\ ref \in Hart
    /\ rob \in Seq(Retirements) /\ Len(rob) <= RobSize
    /\ platform \in Platform /\ refPlatform \in Platform
    /\ state \in SimulationStates
    /\ state.measured_instructions <= state.retired_instructions
    /\ status \in {"running", "mismatch", "trap_failed", "exit", "stall", "timeout"}
    /\ {draining, sleeping, owed} \subseteq BOOLEAN
    /\ races \subseteq Races
    /\ hung \in Nat

(***************************************************************************)
(* Properties                                                              *)
(***************************************************************************)

(* A core that executes every instruction as the architecture says, takes  *)
(* its traps where it may and reads its devices when it executes is never  *)
(* reported: main does not return 126 for a mismatch or a refused trap.    *)
NoFalseAlarm == ~scenario.faulty => status \notin {"mismatch", "trap_failed"}

(* NoFalseAlarm fails in four races, and in these alone: input that is     *)
(* polled between the execution of a load from the receive buffer or the   *)
(* line status and its replay, a byte of mtime that changes between the    *)
(* execution of a load from it and its replay, a trap that the core takes before the reference has     *)
(* taken the ecall before it, and an instruction that next() takes for a   *)
(* trap.  Everywhere else a correct core passes.                           *)
AlarmsAreRaces == races = {} => NoFalseAlarm

(* Whenever everything executed has retired, the reference is in the state *)
(* of the core, except that it may owe one trap that it takes by itself,   *)
(* and its devices have seen the same accesses.  The registers recorded    *)
(* from the retirements are the reference's registers at every cycle, so   *)
(* synchronize() changes nothing but the counter that was read: it never   *)
(* hides a difference in another register.  A core that computes wrong     *)
(* results is in lockstep until it is reported: none survives retirement.  *)
(* Only input that raced with a load may leave the two queues apart.       *)
InLockstep ==
    scenario.difftest /\ status = "running" =>
      /\ state.architectural_state = ref.regs
      /\ rob = <<>> =>
           /\ \/ core = ref
              \/ Ins(ref).op = "ecall" /\ core = TrapInto(ref, TrapTarget(ref, "ecall"))
           /\ platform.input = refPlatform.input \/ "input" \in races
           /\ platform.mtimecmp = refPlatform.mtimecmp

(* A core that retires nothing for the stall window, and is not in WFI, is *)
(* reported when the window is full, not later, and no other core is: the  *)
(* wait that a WFI starts ends with the next retirement or trap.  The one  *)
(* exception: without a reference the loop does not read the trap port, so *)
(* a core that traps out of a WFI and then hangs is taken to be waiting.   *)
HangReported ==
    StallCycles # 0 =>
      /\ status = "running" /\ hung >= StallCycles =>
           ~scenario.difftest /\ state.waiting_after_wfi
      /\ status = "stall" => hung >= StallCycles
=============================================================================
