----------------------------- MODULE CosimProofs -----------------------------
(***************************************************************************)
(* Proofs about Cosim, for any programs, address map, intervals and        *)
(* limits.  The instructions that were executed and have not retired lead  *)
(* from the state of the reference to that of the core; the devices differ *)
(* by the one access among them, which is always the oldest.               *)
(***************************************************************************)
EXTENDS Cosim, PlatformDevicesProofs

(***************************************************************************)
(* The machine                                                             *)
(***************************************************************************)

\* A hart whose addresses are all code.
GoodHart(h) == h \in Hart /\ {h.pc, h.sepc, h.mepc} \subseteq DOMAIN scenario.program

NextPc(h) == CASE Ins(h).op = "sret" -> ReturnTo(h.sepc)
               [] Ins(h).op = "mret" -> ReturnTo(h.mepc)
               [] Ins(h).op = "jump" -> Ins(h).address
               [] OTHER -> h.pc + 1
NextMode(h) == CASE Ins(h).op = "sret" -> h.spp [] Ins(h).op = "mret" -> h.mpp [] OTHER -> h.mode
NextRegs(h, v) == IF Writes(Ins(h)) THEN [h.regs EXCEPT ![Ins(h).rd] = v] ELSE h.regs

\* What the assumption on the programs says of the code that runs.
LEMMA Code ==
    ASSUME scenario \in Scenarios
    PROVE  /\ scenario.program \in [DOMAIN scenario.program -> Instruction]
           /\ DOMAIN scenario.program \subseteq Nat
           /\ {0, Stvec, Mtvec} \subseteq DOMAIN scenario.program
           /\ \A pc \in DOMAIN scenario.program :
                /\ scenario.program[pc] \in Instruction
                /\ scenario.program[pc].op \in {"load", "store"} =>
                     isDevice(scenario.program[pc].address, 1) /\ Backed(scenario.program[pc].address)
                /\ scenario.program[pc].op = "jump" => scenario.program[pc].address \in DOMAIN scenario.program
                /\ scenario.program[pc].op \notin Transfers => pc + 1 \in DOMAIN scenario.program
           /\ \A v \in {Stvec, Mtvec} :
                /\ scenario.program[v].op \notin Transfers \cup {"ecall"}
                /\ v + 1 \notin {Stvec, Mtvec}
           /\ scenario.mtimecmp \in Time /\ scenario.uart_input \in Seq(Byte)
           /\ scenario.faulty \in BOOLEAN /\ scenario.difftest \in BOOLEAN
<1>1. CodeAssumption(scenario.program)
  BY CosimAssumption
<1>2. /\ scenario.mtimecmp \in Time /\ scenario.uart_input \in Seq(Byte)
      /\ scenario.faulty \in BOOLEAN /\ scenario.difftest \in BOOLEAN
  BY CosimAssumption
<1> QED
  BY <1>1, <1>2 DEF CodeAssumption

\* The instruction at the pc of a good hart is one of the program.
LEMMA Fetched ==
    ASSUME scenario \in Scenarios, NEW h, GoodHart(h)
    PROVE  /\ Ins(h) \in Instruction /\ Ins(h).op \in Operations /\ Ins(h).rd \in Registers
           /\ Ins(h).address \in Nat /\ h.pc \in Nat
  BY Code DEF GoodHart, Ins, Instruction

\* An instruction that does not trap, field by field.
LEMMA Executed ==
    ASSUME scenario \in Scenarios, NEW h, GoodHart(h), Ins(h).op # "ecall", NEW v \in Byte
    PROVE  /\ Execute(h, v) = [pc |-> NextPc(h), mode |-> NextMode(h), regs |-> NextRegs(h, v),
                               sepc |-> h.sepc, spp |-> h.spp, mepc |-> h.mepc, mpp |-> h.mpp]
           /\ GoodHart(Execute(h, v))
<1> DEFINE i == Ins(h)
           r == [h EXCEPT !.regs = NextRegs(h, v)]
           e == [pc |-> NextPc(h), mode |-> NextMode(h), regs |-> NextRegs(h, v),
                 sepc |-> h.sepc, spp |-> h.spp, mepc |-> h.mepc, mpp |-> h.mpp]
<1>1. h \in Hart
  BY DEF GoodHart
<1>2. i \in Instruction /\ i.rd \in Registers /\ h.pc \in Nat
  BY Fetched
<1>3. NextRegs(h, v) \in [Registers -> Byte]
  BY <1>1, <1>2 DEF NextRegs, Hart
<1>4. (IF Writes(i) THEN [h EXCEPT !.regs[i.rd] = v] ELSE h) = r
  BY <1>1 DEF NextRegs, Hart
<1>5. Execute(h, v) = CASE i.op = "sret" -> [r EXCEPT !.pc = ReturnTo(h.sepc), !.mode = h.spp]
                        [] i.op = "mret" -> [r EXCEPT !.pc = ReturnTo(h.mepc), !.mode = h.mpp]
                        [] i.op = "jump" -> [r EXCEPT !.pc = i.address]
                        [] OTHER -> [r EXCEPT !.pc = h.pc + 1]
  BY <1>4 DEF Execute
<1> HIDE DEF i
<1>6. Execute(h, v) = e
  <2> USE <1>1, <1>5 DEF Hart
  <2>1. CASE i.op = "sret"
    BY <2>1 DEF NextPc, NextMode, i
  <2>2. CASE i.op = "mret"
    BY <2>2 DEF NextPc, NextMode, i
  <2>3. CASE i.op = "jump"
    BY <2>3 DEF NextPc, NextMode, i
  <2>4. CASE i.op \notin {"sret", "mret", "jump"}
    BY <2>4 DEF NextPc, NextMode, i
  <2> QED
    BY <2>1, <2>2, <2>3, <2>4
<1>7. ASSUME NEW epc \in DOMAIN scenario.program PROVE ReturnTo(epc) \in DOMAIN scenario.program
  BY Code DEF ReturnTo, Transfers
<1>8. NextPc(h) \in DOMAIN scenario.program
  <2>1. {h.pc, h.sepc, h.mepc} \subseteq DOMAIN scenario.program
    BY DEF GoodHart
  <2> QED
    BY <1>7, <2>1, Code DEF NextPc, Ins, Transfers
<1>9. NextMode(h) \in Modes
  BY <1>1 DEF NextMode, Hart
<1>10. NextPc(h) \in Nat
  BY <1>8, Code
<1>11. e \in Hart
  BY <1>1, <1>3, <1>9, <1>10 DEF Hart
<1> QED
  BY <1>6, <1>8, <1>11 DEF GoodHart

\* Trap entry keeps a hart good, and the test of next() recognises it.
LEMMA TrapEntry ==
    ASSUME scenario \in Scenarios, NEW h, GoodHart(h), NEW target \in {"S", "M"}
    PROVE  /\ GoodHart(TrapInto(h, target)) /\ Trapped(h, TrapInto(h, target))
           /\ TrapInto(h, target).regs = h.regs
           /\ TrapInto(h, target).pc \in {Stvec, Mtvec}
<1>1. h \in Hart /\ {h.pc, h.sepc, h.mepc} \subseteq DOMAIN scenario.program
  BY DEF GoodHart
<1>2. Stvec \in DOMAIN scenario.program /\ Mtvec \in DOMAIN scenario.program
      /\ Stvec \in Nat /\ Mtvec \in Nat
  BY Code
<1>3. CASE target = "S"
  <2>1. TrapInto(h, target) = [pc |-> Stvec, mode |-> "S", regs |-> h.regs, sepc |-> h.pc,
                               spp |-> h.mode, mepc |-> h.mepc, mpp |-> h.mpp]
    BY <1>1, <1>3 DEF TrapInto, Hart
  <2> QED
    BY <1>1, <1>2, <2>1 DEF GoodHart, Hart, Modes, Trapped
<1>4. CASE target = "M"
  <2>1. TrapInto(h, target) = [pc |-> Mtvec, mode |-> "M", regs |-> h.regs, sepc |-> h.sepc,
                               spp |-> h.spp, mepc |-> h.pc, mpp |-> h.mode]
    BY <1>1, <1>4 DEF TrapInto, Hart
  <2> QED
    BY <1>1, <1>2, <2>1 DEF GoodHart, Hart, Modes, Trapped
<1> QED
  BY <1>3, <1>4

\* Traps go to S or M mode.
LEMMA TargetMode == \A h, cause : TrapTarget(h, cause) \in {"S", "M"}
  BY DEF TrapTarget

\* The first instruction of a handler goes on to the second one.
LEMMA HandlerGoesOn ==
    ASSUME scenario \in Scenarios, NEW h, GoodHart(h), h.pc \in {Stvec, Mtvec}
    PROVE  Ins(h).op # "ecall" /\ NextPc(h) = h.pc + 1 /\ NextPc(h) \notin {Stvec, Mtvec}
  BY Code DEF GoodHart, Ins, NextPc, Transfers

(***************************************************************************)
(* The reference                                                           *)
(***************************************************************************)
Spikes == [hart : Hart, platform : Platform]

\* What an instruction does to the devices.
Due(q, i) == CASE i.op = "load"  -> readByte(q, i.address).platform
               [] i.op = "store" -> writeByte(q, i.address, 1).platform
               [] OTHER -> q

\* The results that instruction i may have on hart h with devices q.
RightValue(h, q, v) ==
    /\ Ins(h).op = "load" => v = readByte(q, Ins(h).address).value
    /\ Ins(h).op \notin {"load", "store", "csr"} => v = AluResult(h)

\* The values the machine computes with are bytes.
LEMMA OneByte == 0 \in Byte /\ 1 \in Byte /\ ByteBase \in Nat \ {0}
  BY PlatformAssumption DEF Byte

\* So is the result of the ALU.
LEMMA AluByte == ASSUME NEW h \in Hart PROVE AluResult(h) \in Byte
<1>1. h.regs[1] \in Nat /\ h.regs[2] \in Nat
  BY OneByte DEF Hart, Registers, Byte
<1> DEFINE x == h.regs[1] + h.regs[2] + 1
<1>2. x \in Nat
  BY <1>1
<1> HIDE DEF x
<1>3. x % ByteBase \in 0..(ByteBase - 1)
  BY <1>2, OneByte
<1> QED
  BY <1>3 DEF AluResult, Byte, x

\* The devices stay devices.
LEMMA DueType ==
    ASSUME NEW q \in Platform, NEW i \in Instruction
    PROVE  Due(q, i) \in Platform
<1>1. i.address \in Nat
  BY DEF Instruction
<1> QED
  BY <1>1, OneByte, ReadByteType, WriteByteType DEF Due

\* A step of the reference on an instruction that does not trap.
LEMMA SpikeResult ==
    ASSUME scenario \in Scenarios, NEW s \in Spikes, GoodHart(s.hart),
           NEW r \in SpikeResults(s)
    PROVE  /\ r.value \in Byte /\ r.platform = Due(s.platform, Ins(s.hart))
           /\ RightValue(s.hart, s.platform, r.value)
<1> DEFINE i == Ins(s.hart)
           read == readBytes(s.platform, i.address, 1)
           written == writeBytes(s.platform, i.address, <<1>>)
<1>1. i \in Instruction /\ i.address \in Nat /\ s.hart \in Hart /\ s.platform \in Platform
  BY Fetched DEF Spikes
<1>2. i.op \in {"load", "store"} => isDevice(i.address, 1)
  BY Code DEF GoodHart, Ins
<1>3. r \in CASE i.op = "load"  -> {[value |-> read.bytes[1], platform |-> read.platform]}
              [] i.op = "store" -> {[value |-> 0, platform |-> written.platform]}
              [] i.op = "csr"   -> {[value |-> v, platform |-> s.platform] : v \in Byte}
              [] OTHER -> {[value |-> AluResult(s.hart), platform |-> s.platform]}
  BY DEF SpikeResults
<1> HIDE DEF i
<1>4. CASE i.op = "load"
  <2>1. /\ read.bytes[1] = readByte(s.platform, i.address).value
        /\ read.platform = readByte(s.platform, i.address).platform
    BY <1>1, <1>2, <1>4, ByteRead
  <2>2. readByte(s.platform, i.address).value \in Byte
    BY <1>1, ReadByteType
  <2> HIDE DEF read
  <2> QED
    BY <1>3, <1>4, <2>1, <2>2 DEF Due, RightValue, i
<1>5. CASE i.op = "store"
  <2>1. written.platform = writeByte(s.platform, i.address, 1).platform
    BY <1>1, <1>2, <1>5, OneByte, ByteWrite
  <2> HIDE DEF written
  <2> QED
    BY <1>3, <1>5, <2>1, OneByte DEF Due, RightValue, i
<1>6. CASE i.op = "csr"
  BY <1>3, <1>6 DEF Due, RightValue, i
<1>7. CASE i.op \notin {"load", "store", "csr"}
  <2>1. r = [value |-> AluResult(s.hart), platform |-> s.platform]
    BY <1>3, <1>7
  <2>2. AluResult(s.hart) \in Byte
    BY <1>1, AluByte
  <2> QED
    BY <1>7, <2>1, <2>2 DEF Due, RightValue, i
<1> QED
  BY <1>4, <1>5, <1>6, <1>7

\* What one step of the reference does to its hart and its devices.
LEMMA SpikeStep ==
    ASSUME scenario \in Scenarios, NEW s \in Spikes, GoodHart(s.hart), NEW t \in SpikeSteps(s)
    PROVE  /\ t \in Spikes /\ GoodHart(t.hart)
           /\ Ins(s.hart).op = "ecall" =>
                t.hart = TrapInto(s.hart, TrapTarget(s.hart, "ecall")) /\ t.platform = s.platform
           /\ Ins(s.hart).op # "ecall" =>
                \E v \in Byte : /\ t.hart = Execute(s.hart, v)
                                /\ t.platform = Due(s.platform, Ins(s.hart))
                                /\ RightValue(s.hart, s.platform, v)
<1>1. CASE Ins(s.hart).op = "ecall"
  <2> DEFINE e == TrapInto(s.hart, TrapTarget(s.hart, "ecall"))
  <2>1. t = [s EXCEPT !.hart = e]
    BY <1>1 DEF SpikeSteps
  <2>2. GoodHart(e)
    BY TrapEntry, TargetMode
  <2>3. e \in Hart
    BY <2>2 DEF GoodHart
  <2> HIDE DEF e
  <2>4. t \in Spikes /\ t.hart = e /\ t.platform = s.platform
    BY <2>1, <2>3 DEF Spikes
  <2> QED
    BY <1>1, <2>2, <2>4 DEF e
<1>2. CASE Ins(s.hart).op # "ecall"
  <2>1. PICK r \in SpikeResults(s) :
          t = [hart |-> Execute(s.hart, r.value), platform |-> r.platform]
    BY <1>2 DEF SpikeSteps
  <2>2. /\ r.value \in Byte /\ r.platform = Due(s.platform, Ins(s.hart))
        /\ RightValue(s.hart, s.platform, r.value)
    BY SpikeResult
  <2>3. GoodHart(Execute(s.hart, r.value))
    BY <1>2, <2>2, Executed
  <2>4. Due(s.platform, Ins(s.hart)) \in Platform
    BY Fetched, DueType DEF Spikes
  <2>5. t.hart = Execute(s.hart, r.value) /\ t.platform = Due(s.platform, Ins(s.hart))
    BY <2>1, <2>2
  <2>6. t \in Spikes
    BY <2>1, <2>2, <2>3, <2>4 DEF Spikes, GoodHart
  <2> QED
    BY <1>2, <2>2, <2>3, <2>5, <2>6
<1> QED
  BY <1>1, <1>2

\* The reference stands where hart h stands, or owes the trap that leads there.
Owing(h, e) == Ins(h).op = "ecall" /\ e = TrapInto(h, TrapTarget(h, "ecall"))

\* next() with a reference that is at instruction h, or owes the trap before
\* it: it commits h, or it takes h for a trap and commits what comes after.
LEMMA NextCommit ==
    ASSUME scenario \in Scenarios, NEW h, GoodHart(h), Ins(h).op # "ecall",
           NEW s \in Spikes, GoodHart(s.hart), s.hart = h \/ Owing(s.hart, h),
           NEW n \in SpikeNext(s)
    PROVE  /\ n.spike \in Spikes /\ GoodHart(n.spike.hart)
           /\ \/ \E v \in Byte : /\ n.spike.hart = Execute(h, v)
                                 /\ n.spike.platform = Due(s.platform, Ins(h))
                                 /\ RightValue(h, s.platform, v)
                                 /\ n.commit = Retirement(h, n.spike.hart.regs[Ins(h).rd])
              \/ n.commit.pc # h.pc /\ \A v \in Byte : Trapped(h, Execute(h, v))
<1>1. PICK first \in SpikeSteps(s) :
        n \in IF Trapped(s.hart, first.hart)
              THEN {SpikeCommit(first, second) : second \in SpikeSteps(first)}
              ELSE {SpikeCommit(s, first)}
  BY DEF SpikeNext
<1>2. first \in Spikes /\ GoodHart(first.hart)
  BY SpikeStep
<1>3. CASE s.hart # h
  <2>1. Owing(s.hart, h)
    BY <1>3
  <2>2. first.hart = h /\ first.platform = s.platform
    BY <2>1, SpikeStep DEF Owing
  <2>3. Trapped(s.hart, first.hart)
    BY <2>1, <2>2, TrapEntry, TargetMode DEF Owing
  <2>4. PICK second \in SpikeSteps(first) : n = SpikeCommit(first, second)
    BY <1>1, <2>3
  <2>5. /\ second \in Spikes /\ GoodHart(second.hart)
        /\ \E v \in Byte : /\ second.hart = Execute(h, v)
                           /\ second.platform = Due(s.platform, Ins(h))
                           /\ RightValue(h, s.platform, v)
    BY <1>2, <2>2, SpikeStep
  <2>6. n.spike = second /\ n.commit = Retirement(h, second.hart.regs[Ins(h).rd])
    BY <2>2, <2>4 DEF SpikeCommit
  <2> QED
    BY <2>5, <2>6
<1>4. CASE s.hart = h
  <2>1. PICK v \in Byte : /\ first.hart = Execute(h, v)
                          /\ first.platform = Due(s.platform, Ins(h))
                          /\ RightValue(h, s.platform, v)
    BY <1>4, SpikeStep
  <2>2. CASE ~Trapped(s.hart, first.hart)
    <3>1. n = SpikeCommit(s, first)
      BY <1>1, <2>2
    <3>2. n.spike = first /\ n.commit = Retirement(h, first.hart.regs[Ins(h).rd])
      BY <1>4, <3>1 DEF SpikeCommit
    <3> QED
      BY <1>2, <2>1, <3>2
  <2>3. CASE Trapped(s.hart, first.hart)
    <3>1. PICK second \in SpikeSteps(first) : n = SpikeCommit(first, second)
      BY <1>1, <2>3
    <3>2. second \in Spikes /\ GoodHart(second.hart)
      BY <1>2, SpikeStep
    <3>3. n.spike = second /\ n.commit.pc = first.hart.pc
      BY <3>1 DEF SpikeCommit, Retirement
    <3>4. \A w \in Byte : /\ Execute(h, w).pc = NextPc(h)
                          /\ Execute(h, w).mepc = h.mepc /\ Execute(h, w).sepc = h.sepc
      BY Executed
    <3>5. first.hart.pc \in {Stvec, Mtvec} /\ first.hart.pc = NextPc(h)
      BY <2>1, <2>3, <3>4 DEF Trapped
    <3>6. first.hart.pc # h.pc
      BY <3>5, HandlerGoesOn
    <3>7. \A w \in Byte : Trapped(h, Execute(h, w))
      BY <1>4, <2>1, <2>3, <3>4 DEF Trapped
    <3> QED
      BY <3>2, <3>3, <3>6, <3>7
  <2> QED
    BY <2>2, <2>3
<1> QED
  BY <1>3, <1>4

(***************************************************************************)
(* The counters of the loop                                                *)
(***************************************************************************)
StateType ==
    [next_cycle : Nat, cycles_without_retirement : Nat, retired_instructions : Nat,
     measured_cycles : Nat, measured_instructions : Nat, waiting_after_wfi : BOOLEAN,
     architectural_state : [Registers -> Byte]]

\* What k lanes may do to the counters.
Counted(s, t, k) ==
    /\ t \in StateType
    /\ t.next_cycle = s.next_cycle
    /\ t.cycles_without_retirement = s.cycles_without_retirement
    /\ t.waiting_after_wfi = s.waiting_after_wfi
    /\ t.retired_instructions \in s.retired_instructions..(s.retired_instructions + k)
    /\ t.measured_cycles \in {s.measured_cycles, s.next_cycle + 1}
    /\ s.measured_instructions <= s.retired_instructions =>
         t.measured_instructions <= t.retired_instructions

One(s) == [s EXCEPT !.retired_instructions = @ + 1]
Recorded(s, r) == RecordResult(Measure(One(s), r.op), r)

\* Counting a retirement counts one and changes no register.
LEMMA OneCounted ==
    ASSUME NEW s \in StateType
    PROVE  Counted(s, One(s), 1) /\ One(s).architectural_state = s.architectural_state
  BY DEF StateType, Counted, One

\* Recording a result writes the register it names.
LEMMA RecordCounted ==
    ASSUME NEW s \in StateType, NEW r \in Retirements
    PROVE  /\ Counted(s, Recorded(s, r), 1)
           /\ RecordResult(One(s), r).architectural_state = Recorded(s, r).architectural_state
           /\ Recorded(s, r).architectural_state =
                IF r.writeValid THEN [s.architectural_state EXCEPT ![r.rd] = r.value]
                ELSE s.architectural_state
<1> DEFINE o == One(s)
           m == Measure(o, r.op)
           a == IF r.writeValid THEN [s.architectural_state EXCEPT ![r.rd] = r.value]
                ELSE s.architectural_state
<1>1. /\ o \in StateType /\ o.architectural_state = s.architectural_state
      /\ o.next_cycle = s.next_cycle /\ o.cycles_without_retirement = s.cycles_without_retirement
      /\ o.waiting_after_wfi = s.waiting_after_wfi /\ o.measured_cycles = s.measured_cycles
      /\ o.measured_instructions = s.measured_instructions
      /\ o.retired_instructions = s.retired_instructions + 1
  BY DEF StateType, One
<1> HIDE DEF o
<1>2. /\ m \in StateType /\ m.architectural_state = o.architectural_state
      /\ m.next_cycle = o.next_cycle /\ m.cycles_without_retirement = o.cycles_without_retirement
      /\ m.waiting_after_wfi = o.waiting_after_wfi
      /\ m.measured_cycles \in {o.measured_cycles, o.next_cycle + 1}
      /\ m.measured_instructions \in {o.measured_instructions, o.retired_instructions}
      /\ m.retired_instructions = o.retired_instructions
  <2>1. CASE CoversTohost(r.op) /\ o.measured_cycles = 0
    <3> DEFINE c == o.next_cycle + 1
               k == o.retired_instructions
    <3>1. m = [o EXCEPT !.measured_cycles = c, !.measured_instructions = k]
      BY <2>1 DEF Measure
    <3>2. c \in Nat /\ k \in Nat
      BY <1>1 DEF StateType
    <3> HIDE DEF c, k, m
    <3>3. /\ m \in StateType /\ m.measured_cycles = c /\ m.measured_instructions = k
          /\ m.architectural_state = o.architectural_state /\ m.next_cycle = o.next_cycle
          /\ m.cycles_without_retirement = o.cycles_without_retirement
          /\ m.waiting_after_wfi = o.waiting_after_wfi
          /\ m.retired_instructions = o.retired_instructions
      BY <1>1, <3>1, <3>2 DEF StateType
    <3> QED
      BY <3>3 DEF c, k
  <2>2. CASE ~(CoversTohost(r.op) /\ o.measured_cycles = 0)
    <3>1. m = o
      BY <2>2 DEF Measure
    <3> QED
      BY <1>1, <3>1
  <2> QED
    BY <2>1, <2>2
<1> HIDE DEF m
<1>3. a \in [Registers -> Byte]
  BY DEF StateType, Retirements
<1>4. RecordResult(m, r) = [m EXCEPT !.architectural_state = a]
  BY <1>1, <1>2 DEF RecordResult, StateType
<1>5. RecordResult(o, r).architectural_state = a
  BY <1>1 DEF RecordResult, StateType
<1> HIDE DEF a
<1> DEFINE t == RecordResult(m, r)
<1>6. /\ t \in StateType /\ t.architectural_state = a
      /\ t.next_cycle = m.next_cycle /\ t.cycles_without_retirement = m.cycles_without_retirement
      /\ t.waiting_after_wfi = m.waiting_after_wfi /\ t.measured_cycles = m.measured_cycles
      /\ t.measured_instructions = m.measured_instructions
      /\ t.retired_instructions = m.retired_instructions
  BY <1>2, <1>3, <1>4 DEF StateType
<1> HIDE DEF t
<1>7. t = Recorded(s, r)
  BY DEF t, m, o, Recorded
<1>8. s.retired_instructions \in Nat /\ s.measured_instructions \in Nat
  BY DEF StateType
<1>9. Counted(s, t, 1)
  BY <1>1, <1>2, <1>6, <1>8 DEF Counted
<1> QED
  BY <1>5, <1>6, <1>7, <1>9 DEF a, o

\* Counts of consecutive retirements add up.
LEMMA CountedOn ==
    ASSUME NEW s \in StateType, NEW t, NEW u, NEW k \in Nat, NEW j \in Nat,
           Counted(s, t, k), Counted(t, u, j)
    PROVE  Counted(s, u, k + j)
<1>1. t \in StateType /\ u \in StateType
  BY DEF Counted
<1>2. s.retired_instructions \in Nat /\ t.retired_instructions \in Nat /\ u.retired_instructions \in Nat
  BY <1>1 DEF StateType
<1> QED
  BY <1>1, <1>2 DEF Counted

(***************************************************************************)
(* One retired instruction                                                 *)
(***************************************************************************)

\* The core executed h with the result of record r and went on to e; on a
\* correct core the result is what the machine computes.
Step(h, r, e) ==
    /\ GoodHart(h) /\ Ins(h).op # "ecall"
    /\ r.value \in Byte /\ r = Retirement(h, r.value) /\ e = Execute(h, r.value)
    /\ ~scenario.faulty /\ r.op \notin {"load", "store", "csr"} => r.value = AluResult(h)

Hosts == [state : StateType, spike : Spikes, status : {"running", "mismatch"}]

\* A reference that is at hart h, with the registers that were recorded.
Synced(host, h) ==
    /\ host.status = "running"
    /\ host.spike.hart = h \/ Owing(host.spike.hart, h)
    /\ host.state.architectural_state = host.spike.hart.regs

\* A record in the reorder buffer describes the step it stands for.
LEMMA StepRecord ==
    ASSUME scenario \in Scenarios, NEW h, NEW r, NEW e, Step(h, r, e)
    PROVE  /\ r \in Retirements /\ r.pc = h.pc /\ r.op = Ins(h).op /\ r.rd = Ins(h).rd
           /\ r.writeValid = Writes(Ins(h)) /\ GoodHart(e)
<1>1. /\ Ins(h) \in Instruction /\ Ins(h).op \in Operations /\ Ins(h).rd \in Registers
      /\ h.pc \in Nat
  BY Fetched DEF Step
<1>2. r = [pc |-> h.pc, op |-> Ins(h).op, rd |-> Ins(h).rd, writeValid |-> Writes(Ins(h)),
           value |-> r.value]
  BY DEF Step, Retirement
<1>3. Writes(Ins(h)) \in BOOLEAN
  BY DEF Writes
<1>4. GoodHart(e)
  BY Executed DEF Step
<1>5. r.pc = h.pc /\ r.op = Ins(h).op /\ r.rd = Ins(h).rd /\ r.writeValid = Writes(Ins(h))
  BY <1>2
<1>6. r.value \in Byte
  BY DEF Step
<1>7. r \in Retirements
  BY <1>1, <1>2, <1>3, <1>6 DEF Retirements
<1> QED
  BY <1>4, <1>5, <1>7

\* The hart after an instruction depends on the result only if it is written.
LEMMA SameResult ==
    ASSUME scenario \in Scenarios, NEW h, GoodHart(h), Ins(h).op # "ecall",
           NEW v \in Byte, NEW w \in Byte
    PROVE  /\ Writes(Ins(h)) => Execute(h, v).regs[Ins(h).rd] = v
           /\ ~Writes(Ins(h)) => Execute(h, v) = Execute(h, w)
           /\ Execute(h, v).regs = NextRegs(h, v)
           /\ [Execute(h, v) EXCEPT !.regs = NextRegs(h, w)] = Execute(h, w)
<1>1. /\ Execute(h, v) = [pc |-> NextPc(h), mode |-> NextMode(h), regs |-> NextRegs(h, v),
                          sepc |-> h.sepc, spp |-> h.spp, mepc |-> h.mepc, mpp |-> h.mpp]
      /\ Execute(h, w) = [pc |-> NextPc(h), mode |-> NextMode(h), regs |-> NextRegs(h, w),
                          sepc |-> h.sepc, spp |-> h.spp, mepc |-> h.mepc, mpp |-> h.mpp]
  BY Executed
<1>2. Execute(h, v).regs = NextRegs(h, v)
  BY <1>1
<1>3. h.regs \in [Registers -> Byte] /\ Ins(h).rd \in Registers
  BY Fetched DEF GoodHart, Hart
<1>4. Writes(Ins(h)) => NextRegs(h, v)[Ins(h).rd] = v
  BY <1>3 DEF NextRegs
<1>5. ~Writes(Ins(h)) => NextRegs(h, v) = NextRegs(h, w)
  BY DEF NextRegs
<1>6. [Execute(h, v) EXCEPT !.regs = NextRegs(h, w)] = Execute(h, w)
  BY <1>1
<1> QED
  BY <1>1, <1>2, <1>4, <1>5, <1>6

\* A lane with a reference: the instruction is reported or replayed, and a
\* correct instruction that is not taken for a trap is replayed.
LEMMA Lane ==
    ASSUME scenario \in Scenarios, scenario.difftest, NEW h, NEW r, NEW e, Step(h, r, e),
           NEW host \in Hosts, GoodHart(host.spike.hart), Synced(host, h),
           NEW after \in RetireLane(host, r)
    PROVE  /\ after \in Hosts /\ GoodHart(after.spike.hart)
           /\ Counted(host.state, after.state, 1)
           /\ after.status = "running" =>
                /\ after.spike.hart = e /\ after.spike.platform = Due(host.spike.platform, Ins(h))
                /\ after.state.architectural_state = e.regs
           /\ /\ ~scenario.faulty /\ ~Trapped(h, e)
              /\ r.op = "load" => r.value = readByte(host.spike.platform, Ins(h).address).value
              => after.status = "running"
<1> DEFINE s == host.spike
           one == One(host.state)
<1>1. /\ s \in Spikes /\ host.state \in StateType /\ host.status = "running"
      /\ s.hart = h \/ Owing(s.hart, h)
      /\ host.state.architectural_state = s.hart.regs
  BY DEF Hosts, Synced
<1>2. /\ GoodHart(h) /\ Ins(h).op # "ecall" /\ r.value \in Byte /\ r = Retirement(h, r.value)
      /\ e = Execute(h, r.value)
  BY DEF Step
<1>3. /\ r \in Retirements /\ r.pc = h.pc /\ r.op = Ins(h).op /\ r.rd = Ins(h).rd
      /\ r.writeValid = Writes(Ins(h)) /\ GoodHart(e)
  BY StepRecord
<1>4. host.state.architectural_state = h.regs
  <2>1. Owing(s.hart, h) => h.regs = s.hart.regs
    BY <1>1, TrapEntry, TargetMode DEF Owing
  <2> QED
    BY <1>1, <2>1
<1>5. PICK n \in SpikeNext(s) : after = Replayed(host, r, n)
  BY <1>1 DEF RetireLane
<1>6. /\ n.spike \in Spikes /\ GoodHart(n.spike.hart)
      /\ \/ \E v \in Byte : /\ n.spike.hart = Execute(h, v)
                            /\ n.spike.platform = Due(s.platform, Ins(h))
                            /\ RightValue(h, s.platform, v)
                            /\ n.commit = Retirement(h, n.spike.hart.regs[Ins(h).rd])
         \/ n.commit.pc # h.pc /\ \A v \in Byte : Trapped(h, Execute(h, v))
  BY <1>1, <1>2, NextCommit
<1>7. Counted(host.state, one, 1) /\ one \in StateType
  BY <1>1, OneCounted DEF Counted
<1>8. after = IF Mismatch(n.commit, r)
              THEN [state |-> one, spike |-> n.spike, status |-> "mismatch"]
              ELSE [state |-> Recorded(host.state, r), spike |-> Synchronize(n.spike, one, r),
                    status |-> "running"]
  BY <1>5 DEF Replayed, Recorded, One
<1> HIDE DEF s, one
<1>9. CASE Mismatch(n.commit, r)
  <2>1. after = [state |-> one, spike |-> n.spike, status |-> "mismatch"]
    BY <1>8, <1>9
  <2>2. /\ after \in Hosts /\ after.status = "mismatch" /\ after.spike = n.spike
        /\ after.state = one
    BY <1>6, <1>7, <2>1 DEF Hosts
  <2>3. ASSUME ~scenario.faulty, ~Trapped(h, e),
               r.op = "load" => r.value = readByte(s.platform, Ins(h).address).value
        PROVE  FALSE
    <3>1. PICK v \in Byte : /\ n.spike.hart = Execute(h, v)
                            /\ RightValue(h, s.platform, v)
                            /\ n.commit = Retirement(h, n.spike.hart.regs[Ins(h).rd])
      BY <1>2, <1>6, <2>3
    <3>2. n.commit = [pc |-> h.pc, op |-> Ins(h).op, rd |-> Ins(h).rd,
                      writeValid |-> Writes(Ins(h)), value |-> Execute(h, v).regs[Ins(h).rd]]
      BY <3>1 DEF Retirement
    <3>3. /\ Ins(h).op # "csr" /\ Writes(Ins(h))
          /\ Execute(h, v).regs[Ins(h).rd] # r.value
      BY <1>3, <1>9, <3>2 DEF Mismatch, requiresSynchronization
    <3>4. v # r.value
      BY <1>2, <3>3, SameResult
    <3>5. Ins(h).op # "store"
      BY <3>3 DEF Writes
    <3>6. CASE Ins(h).op = "load"
      BY <1>3, <2>3, <3>1, <3>4, <3>6 DEF RightValue
    <3>7. CASE Ins(h).op # "load"
      <4>1. v = AluResult(h)
        BY <3>1, <3>3, <3>5, <3>7 DEF RightValue
      <4>2. r.value = AluResult(h)
        BY <1>3, <2>3, <3>3, <3>5, <3>7 DEF Step
      <4> QED
        BY <3>4, <4>1, <4>2
    <3> QED
      BY <3>6, <3>7
  <2> QED
    BY <1>6, <1>7, <2>2, <2>3 DEF s
<1>10. CASE ~Mismatch(n.commit, r)
  <2>1. after = [state |-> Recorded(host.state, r), spike |-> Synchronize(n.spike, one, r),
                 status |-> "running"]
    BY <1>8, <1>10
  <2>2. n.commit.pc = h.pc
    BY <1>3, <1>10 DEF Mismatch
  <2>3. PICK v \in Byte : /\ n.spike.hart = Execute(h, v)
                          /\ n.spike.platform = Due(s.platform, Ins(h))
                          /\ n.commit = Retirement(h, n.spike.hart.regs[Ins(h).rd])
    BY <1>6, <2>2
  <2>4. /\ Counted(host.state, Recorded(host.state, r), 1)
        /\ RecordResult(one, r).architectural_state = Recorded(host.state, r).architectural_state
        /\ Recorded(host.state, r).architectural_state = NextRegs(h, r.value)
    BY <1>1, <1>3, <1>4, RecordCounted DEF NextRegs, one
  <2>5. e.regs = NextRegs(h, r.value)
    BY <1>2, SameResult
  <2>6. Synchronize(n.spike, one, r) = [hart |-> e, platform |-> Due(s.platform, Ins(h))]
    <3>1. n.spike = [hart |-> Execute(h, v), platform |-> Due(s.platform, Ins(h))]
      BY <1>6, <2>3 DEF Spikes
    <3>2. CASE r.op = "csr"
      <4> DEFINE regs == RecordResult(one, r).architectural_state
      <4>1. Synchronize(n.spike, one, r) = [n.spike EXCEPT !.hart.regs = regs]
        BY <3>2 DEF Synchronize, requiresSynchronization, synchronize
      <4>2. regs = NextRegs(h, r.value)
        BY <2>4
      <4> HIDE DEF regs
      <4>3. [n.spike EXCEPT !.hart.regs = regs]
              = [hart |-> [Execute(h, v) EXCEPT !.regs = regs], platform |-> Due(s.platform, Ins(h))]
        BY <3>1
      <4>4. [Execute(h, v) EXCEPT !.regs = NextRegs(h, r.value)] = e
        BY <1>2, SameResult
      <4> QED
        BY <4>1, <4>2, <4>3, <4>4
    <3>3. CASE r.op # "csr"
      <4>1. Synchronize(n.spike, one, r) = n.spike
        BY <3>3 DEF Synchronize, requiresSynchronization
      <4>2. Writes(Ins(h)) => n.spike.hart.regs[Ins(h).rd] = r.value
        BY <1>3, <1>10, <2>3, <3>3 DEF Mismatch, requiresSynchronization, Retirement
      <4>3. Writes(Ins(h)) => v = r.value
        BY <1>2, <2>3, <4>2, SameResult
      <4>4. Execute(h, v) = e
        BY <1>2, <4>3, SameResult
      <4> QED
        BY <3>1, <4>1, <4>4
    <3> QED
      BY <3>2, <3>3
  <2>7. after.spike.hart = e /\ after.spike.platform = Due(s.platform, Ins(h))
        /\ after.status = "running" /\ after.state = Recorded(host.state, r)
    BY <2>1, <2>6
  <2>8. after \in Hosts
    <3>1. Due(s.platform, Ins(h)) \in Platform /\ e \in Hart
      BY <1>1, <1>2, <1>3, Fetched, DueType DEF Spikes, GoodHart, s
    <3>2. Recorded(host.state, r) \in StateType
      BY <2>4 DEF Counted
    <3> QED
      BY <2>1, <2>6, <3>1, <3>2 DEF Hosts, Spikes
  <2> QED
    BY <1>3, <2>4, <2>5, <2>7, <2>8 DEF s
<1> QED
  BY <1>9, <1>10

(***************************************************************************)
(* The three lanes of a cycle                                              *)
(***************************************************************************)
OneLane(host, retiring, k, after) ==
    IF k > Len(retiring) THEN after = host ELSE after \in RetireLane(host, retiring[k])

\* The retirement of a cycle is three lanes, one after the other.
LEMMA ThreeLanes ==
    ASSUME NEW host, NEW retiring, NEW x \in RetireLanes(host, retiring)
    PROVE  \E a, b : /\ OneLane(host, retiring, 1, a) /\ OneLane(a, retiring, 2, b)
                     /\ OneLane(b, retiring, 3, x)
<1> DEFINE lane(hosts, k) == IF k > Len(retiring) THEN hosts
                             ELSE UNION {RetireLane(h, retiring[k]) : h \in hosts}
<1>1. ASSUME NEW hosts, NEW k, NEW y \in lane(hosts, k)
      PROVE  \E h \in hosts : OneLane(h, retiring, k, y)
  BY DEF OneLane
<1>2. x \in lane(lane(lane({host}, 1), 2), 3)
  BY DEF RetireLanes
<1> HIDE DEF lane
<1>3. PICK b \in lane(lane({host}, 1), 2) : OneLane(b, retiring, 3, x)
  BY <1>1, <1>2
<1>4. PICK a \in lane({host}, 1) : OneLane(a, retiring, 2, b)
  BY <1>1, <1>3
<1>5. OneLane(host, retiring, 1, a)
  BY <1>1, <1>4
<1> QED
  BY <1>3, <1>4, <1>5

\* The retiring instructions lead from g[0] through g[1], g[2] and so on; only
\* the first of them accesses a device.
Trace(g, retiring) ==
    /\ Len(retiring) \in Nat
    /\ \A k \in 1..Len(retiring) : Step(g[k - 1], retiring[k], g[k])
    /\ \A k \in 2..Len(retiring) : retiring[k].op \notin {"load", "store"}

\* A correct core and no instruction that looks like a trap.
Clean(g, retiring, q) ==
    /\ ~scenario.faulty
    /\ \A k \in 1..Len(retiring) : ~Trapped(g[k - 1], g[k])
    /\ Len(retiring) > 0 /\ retiring[1].op = "load" =>
         retiring[1].value = readByte(q, Ins(g[0]).address).value

\* The host after j lanes that began in start.
Progress(start, host, g, retiring, j) ==
    /\ host \in Hosts /\ GoodHart(host.spike.hart)
    /\ Counted(start.state, host.state, j)
    /\ host.status = "running" =>
         /\ Synced(host, g[j]) /\ (j > 0 => host.spike.hart = g[j])
         /\ j = 0 => host = start
         /\ host.spike.platform =
              IF j = 0 THEN start.spike.platform ELSE Due(start.spike.platform, Ins(g[0]))
    /\ Clean(g, retiring, start.spike.platform) => host.status = "running"

\* A count of retirements is an upper bound.
LEMMA CountedMore ==
    ASSUME NEW s \in StateType, NEW t, NEW j \in Nat, Counted(s, t, j)
    PROVE  Counted(s, t, j + 1)
<1>1. s.retired_instructions \in Nat
  BY DEF StateType
<1> QED
  BY <1>1 DEF Counted

\* One more lane keeps the reference on the trace of the core.
LEMMA NextLane ==
    ASSUME scenario \in Scenarios, scenario.difftest, NEW start \in Hosts, NEW g, NEW retiring,
           Trace(g, retiring), NEW j \in Nat, j < Len(retiring),
           NEW host, Progress(start, host, g, retiring, j),
           NEW after \in RetireLane(host, retiring[j + 1])
    PROVE  Progress(start, after, g, retiring, j + 1)
<1> DEFINE r == retiring[j + 1]
           h == g[j]
           e == g[j + 1]
           q == start.spike.platform
<1>1. j + 1 \in 1..Len(retiring) /\ (j + 1) - 1 = j /\ j + 1 > 0 /\ j + 1 # 0
  BY DEF Trace
<1>2. Step(h, r, e)
  BY <1>1 DEF Trace
<1>3. host \in Hosts /\ GoodHart(host.spike.hart) /\ Counted(start.state, host.state, j)
      /\ start.state \in StateType
  BY DEF Progress, Hosts
<1>4. CASE host.status # "running"
  <2>1. after = host
    BY <1>4 DEF RetireLane
  <2>2. ~Clean(g, retiring, q)
    BY <1>4 DEF Progress
  <2>3. Counted(start.state, host.state, j + 1)
    BY <1>3, CountedMore
  <2> HIDE DEF q
  <2> QED
    BY <1>3, <1>4, <2>1, <2>2, <2>3 DEF Progress, q
<1>5. CASE host.status = "running"
  <2>1. /\ Synced(host, h)
        /\ host.spike.platform = IF j = 0 THEN q ELSE Due(q, Ins(g[0]))
    BY <1>5 DEF Progress
  <2> HIDE DEF r, h, e, q
  <2>2. after \in RetireLane(host, r)
    BY DEF r
  <2>3. /\ after \in Hosts /\ GoodHart(after.spike.hart)
        /\ Counted(host.state, after.state, 1)
        /\ after.status = "running" =>
             /\ after.spike.hart = e /\ after.spike.platform = Due(host.spike.platform, Ins(h))
             /\ after.state.architectural_state = e.regs
        /\ /\ ~scenario.faulty /\ ~Trapped(h, e)
           /\ r.op = "load" => r.value = readByte(host.spike.platform, Ins(h).address).value
           => after.status = "running"
    BY <1>2, <1>3, <2>1, <2>2, Lane
  <2>4. Counted(start.state, after.state, j + 1)
    BY <1>3, <2>3, CountedOn
  <2>5. r.op = Ins(h).op
    BY <1>2, StepRecord
  <2>6. j # 0 => r.op \notin {"load", "store"}
    <3>1. j # 0 => j + 1 \in 2..Len(retiring)
      BY <1>1
    <3> QED
      BY <3>1 DEF Trace, r
  <2>7. Due(host.spike.platform, Ins(h)) = Due(q, Ins(g[0]))
    BY <2>1, <2>5, <2>6 DEF Due, h
  <2>8. after.status = "running" => Synced(after, e)
    BY <2>3 DEF Synced
  <2>9. ASSUME Clean(g, retiring, q) PROVE after.status = "running"
    <3>1. ~scenario.faulty /\ ~Trapped(h, e)
      BY <1>1, <2>9 DEF Clean, h, e
    <3>2. r.op = "load" => r.value = readByte(host.spike.platform, Ins(h).address).value
      <4>1. CASE j = 0
        <5>1. j + 1 = 1 /\ Len(retiring) > 0
          BY <4>1 DEF Trace
        <5> QED
          BY <2>1, <2>9, <4>1, <5>1 DEF Clean, r, h
      <4>2. CASE j # 0
        BY <2>6, <4>2
      <4> QED
        BY <4>1, <4>2
    <3> QED
      BY <2>3, <3>1, <3>2
  <2> QED
    BY <1>1, <2>3, <2>4, <2>7, <2>8, <2>9 DEF Progress, e, q
<1> QED
  BY <1>4, <1>5

\* All lanes of a cycle with a reference.
LEMMA LanesDone ==
    ASSUME scenario \in Scenarios, scenario.difftest, NEW start \in Hosts, NEW g, NEW retiring,
           Trace(g, retiring), Len(retiring) <= 3,
           Progress(start, start, g, retiring, 0),
           NEW after \in RetireLanes(start, retiring)
    PROVE  Progress(start, after, g, retiring, Len(retiring))
<1> DEFINE P(x, j) == Progress(start, x, g, retiring, j)
           n == Len(retiring)
<1>1. PICK a, b : /\ OneLane(start, retiring, 1, a) /\ OneLane(a, retiring, 2, b)
                  /\ OneLane(b, retiring, 3, after)
  BY ThreeLanes
<1>2. n \in Nat /\ n <= 3
  BY DEF Trace
<1>3. ASSUME NEW j \in Nat, j < n, NEW x, P(x, j), NEW y, OneLane(x, retiring, j + 1, y)
      PROVE  P(y, j + 1)
  <2>1. y \in RetireLane(x, retiring[j + 1])
    BY <1>2, <1>3 DEF OneLane
  <2> QED
    BY <1>3, <2>1, NextLane
<1>4. ASSUME NEW j \in Nat, j >= n, NEW x, NEW y, OneLane(x, retiring, j + 1, y) PROVE y = x
  BY <1>2, <1>4 DEF OneLane
<1> HIDE DEF P, n
<1>5. n \in {0, 1, 2, 3} /\ 0 + 1 = 1 /\ 1 + 1 = 2 /\ 2 + 1 = 3
  BY <1>2
<1>6. P(start, 0)
  BY DEF P
<1>7. (n <= 0 => a = start) /\ (n > 0 => P(a, 1))
  <2>1. OneLane(start, retiring, 0 + 1, a)
    BY <1>1, <1>5
  <2>2. n > 0 => P(a, 0 + 1)
    BY <1>2, <1>3, <1>6, <2>1
  <2>3. n <= 0 => a = start
    BY <1>2, <1>4, <2>1
  <2> QED
    BY <1>5, <2>2, <2>3
<1>8. (n <= 1 => b = a) /\ (n > 1 => P(b, 2))
  <2>1. OneLane(a, retiring, 1 + 1, b)
    BY <1>1, <1>5
  <2>2. n > 1 => P(b, 1 + 1)
    BY <1>2, <1>3, <1>7, <2>1
  <2>3. n <= 1 => b = a
    BY <1>2, <1>4, <2>1
  <2> QED
    BY <1>5, <2>2, <2>3
<1>9. (n <= 2 => after = b) /\ (n > 2 => P(after, 3))
  <2>1. OneLane(b, retiring, 2 + 1, after)
    BY <1>1, <1>5
  <2>2. n > 2 => P(after, 2 + 1)
    BY <1>2, <1>3, <1>8, <2>1
  <2>3. n <= 2 => after = b
    BY <1>2, <1>4, <2>1
  <2> QED
    BY <1>5, <2>2, <2>3
<1>10. P(after, n)
  BY <1>5, <1>6, <1>7, <1>8, <1>9
<1> QED
  BY <1>10 DEF P, n

\* Without a reference the lanes are only counted.
LEMMA LanesFree ==
    ASSUME scenario \in Scenarios, ~scenario.difftest, NEW start \in Hosts,
           start.status = "running", NEW retiring \in Seq(Retirements),
           NEW after \in RetireLanes(start, retiring)
    PROVE  /\ after \in Hosts /\ after.spike = start.spike /\ after.status = "running"
           /\ Counted(start.state, after.state, 3)
<1> DEFINE P(x, j) == /\ x \in Hosts /\ x.spike = start.spike /\ x.status = "running"
                      /\ Counted(start.state, x.state, j)
<1>1. PICK a, b : /\ OneLane(start, retiring, 1, a) /\ OneLane(a, retiring, 2, b)
                  /\ OneLane(b, retiring, 3, after)
  BY ThreeLanes
<1>2. ASSUME NEW j \in 0..2, NEW x, P(x, j), NEW y, OneLane(x, retiring, j + 1, y)
      PROVE  P(y, j + 1)
  <2>0. start.state \in StateType /\ x.state \in StateType /\ j \in Nat
    BY <1>2 DEF Hosts
  <2>1. CASE j + 1 > Len(retiring)
    <3>1. y = x
      BY <1>2, <2>1 DEF OneLane
    <3>2. Counted(start.state, x.state, j + 1)
      BY <1>2, <2>0, CountedMore
    <3> QED
      BY <1>2, <3>1, <3>2
  <2>2. CASE ~(j + 1 > Len(retiring))
    <3> DEFINE r == retiring[j + 1]
    <3>1. r \in Retirements
      BY <2>2
    <3> HIDE DEF r
    <3>2. y \in RetireLane(x, r)
      BY <1>2, <2>2 DEF OneLane, r
    <3>3. y = [x EXCEPT !.state = Recorded(x.state, r)]
      BY <1>2, <3>2 DEF RetireLane, Recorded, One
    <3>4. Counted(x.state, Recorded(x.state, r), 1)
      BY <2>0, <3>1, RecordCounted
    <3>5. Counted(start.state, Recorded(x.state, r), j + 1)
      BY <1>2, <2>0, <3>4, CountedOn
    <3>6. Recorded(x.state, r) \in StateType
      BY <3>4 DEF Counted
    <3>7. y \in Hosts /\ y.spike = x.spike /\ y.status = x.status /\ y.state = Recorded(x.state, r)
      BY <1>2, <3>3, <3>6 DEF Hosts
    <3> QED
      BY <1>2, <3>5, <3>7
  <2> QED
    BY <2>1, <2>2
<1>3. P(start, 0)
  <2>1. start.state \in StateType
    BY DEF Hosts
  <2>2. start.state.retired_instructions \in Nat
    BY <2>1 DEF StateType
  <2> QED
    BY <2>1, <2>2 DEF Counted
<1> HIDE DEF P
<1>4. 0 + 1 = 1 /\ 1 + 1 = 2 /\ 2 + 1 = 3 /\ 0 \in 0..2 /\ 1 \in 0..2 /\ 2 \in 0..2
  OBVIOUS
<1>5. P(a, 1)
  BY <1>1, <1>2, <1>3, <1>4
<1>6. P(b, 2)
  BY <1>1, <1>2, <1>4, <1>5
<1>7. P(after, 3)
  BY <1>1, <1>2, <1>4, <1>6
<1> QED
  BY <1>7 DEF P

(***************************************************************************)
(* The devices of the two sides                                            *)
(***************************************************************************)

\* The same access does the same to devices that agree.
LEMMA DueSame ==
    ASSUME NEW p \in Platform, NEW q \in Platform, NEW i \in Instruction, SameRegisters(p, q)
    PROVE  /\ SameRegisters(Due(p, i), Due(q, i))
           /\ p.input = q.input => Due(p, i).input = Due(q, i).input
<1>1. i.address \in Nat
  BY DEF Instruction
<1>2. CASE i.op = "load"
  <2>1. Due(p, i) = readByte(p, i.address).platform /\ Due(q, i) = readByte(q, i.address).platform
    BY <1>2 DEF Due
  <2>2. SameRegisters(Due(p, i), p) /\ SameRegisters(Due(q, i), q)
    BY <1>1, <2>1, ReadByteType
  <2>3. Due(p, i).input = InputAfter(p, i.address) /\ Due(q, i).input = InputAfter(q, i.address)
    BY <2>1, ReadInput
  <2>4. p.input = q.input => InputAfter(p, i.address) = InputAfter(q, i.address)
    BY DEF InputAfter, PopsReceiveBuffer, Dlab, SameRegisters
  <2> QED
    BY <2>2, <2>3, <2>4 DEF SameRegisters
<1>3. CASE i.op = "store"
  <2>1. Due(p, i) = writeByte(p, i.address, 1).platform /\ Due(q, i) = writeByte(q, i.address, 1).platform
    BY <1>3 DEF Due
  <2>2. SameRegisters(Due(p, i), Due(q, i))
    BY <1>1, <2>1, OneByte, WriteByteSame
  <2>3. Due(p, i).input = p.input /\ Due(q, i).input = q.input
    BY <1>1, <2>1, OneByte, WriteByteType
  <2> QED
    BY <2>2, <2>3
<1>4. CASE i.op \notin {"load", "store"}
  BY <1>4 DEF Due
<1> QED
  BY <1>2, <1>3, <1>4

\* Only a load from the receive buffer takes input.
LEMMA DueInput ==
    ASSUME NEW q \in Platform, NEW i \in Instruction, i.op = "load" => i.address # Uart.base
    PROVE  Due(q, i).input = q.input
<1>1. i.address \in Nat
  BY DEF Instruction
<1>2. CASE i.op = "load"
  <2>1. Due(q, i).input = InputAfter(q, i.address)
    BY <1>2, ReadInput DEF Due
  <2>2. ~ReceiveBuffer(i.address)
    BY <1>2 DEF ReceiveBuffer
  <2> QED
    BY <2>1, <2>2 DEF InputAfter, PopsReceiveBuffer
<1>3. CASE i.op = "store"
  BY <1>1, <1>3, OneByte, WriteByteType DEF Due
<1>4. CASE i.op \notin {"load", "store"}
  BY <1>4 DEF Due
<1> QED
  BY <1>2, <1>3, <1>4

\* The core's side of an instruction.
LEMMA CoreResult ==
    ASSUME scenario \in Scenarios, NEW h, GoodHart(h), Ins(h).op # "ecall",
           NEW p \in Platform, NEW r \in CoreResults(h, p)
    PROVE  /\ r.value \in Byte /\ r.platform = Due(p, Ins(h)) /\ r.platform \in Platform
           /\ Ins(h).op = "load" => r.value = readByte(p, Ins(h).address).value
           /\ Step(h, Retirement(h, r.value), Execute(h, r.value))
<1> DEFINE i == Ins(h)
           read == readBus(p, i.address, 1)
           written == writeBus(p, i.address, [lane \in Lanes |-> 1], {i.address % 4})
<1>1. i \in Instruction /\ i.address \in Nat /\ h \in Hart /\ i.op \in Operations
  BY Fetched DEF GoodHart
<1>2. i.op \in {"load", "store"} => isDevice(i.address, 1)
  BY Code DEF GoodHart, Ins
<1>3. r \in CASE i.op = "load"  -> {[value |-> read.data[i.address % 4], platform |-> read.platform]}
              [] i.op = "store" -> {[value |-> 0, platform |-> written.platform]}
              [] i.op = "csr" \/ (i.op \in {"alu", "access"} /\ scenario.faulty) ->
                   {[value |-> v, platform |-> p] : v \in Byte}
              [] OTHER -> {[value |-> AluResult(h), platform |-> p]}
  BY DEF CoreResults
<1>4. Due(p, i) \in Platform
  BY <1>1, DueType
<1> HIDE DEF i
<1>5. /\ r.value \in Byte /\ r.platform = Due(p, i)
      /\ i.op = "load" => r.value = readByte(p, i.address).value
      /\ ~scenario.faulty /\ i.op \notin {"load", "store", "csr"} => r.value = AluResult(h)
  <2>1. CASE i.op = "load"
    <3>1. /\ read.data[i.address % 4] = readByte(p, i.address).value
          /\ read.platform = readByte(p, i.address).platform
      BY <1>1, <1>2, <2>1, ByteRead
    <3>2. readByte(p, i.address).value \in Byte
      BY <1>1, ReadByteType
    <3> HIDE DEF read
    <3> QED
      BY <1>3, <2>1, <3>1, <3>2 DEF Due
  <2>2. CASE i.op = "store"
    <3>1. written.platform = writeByte(p, i.address, 1).platform
      BY <1>1, <1>2, <2>2, OneByte, ByteWrite
    <3> HIDE DEF written
    <3> QED
      BY <1>3, <2>2, <3>1, OneByte DEF Due
  <2>3. CASE i.op = "csr" \/ (i.op \in {"alu", "access"} /\ scenario.faulty)
    <3>1. PICK v \in Byte : r = [value |-> v, platform |-> p]
      BY <1>3, <2>3
    <3> QED
      BY <2>3, <3>1 DEF Due
  <2>4. CASE /\ i.op \notin {"load", "store", "csr"}
             /\ ~(i.op \in {"alu", "access"} /\ scenario.faulty)
    <3>1. r = [value |-> AluResult(h), platform |-> p]
      BY <1>3, <2>4
    <3> QED
      BY <1>1, <2>4, <3>1, AluByte DEF Due
  <2> QED
    BY <2>1, <2>2, <2>3, <2>4
<1>6. Step(h, Retirement(h, r.value), Execute(h, r.value))
  <2> DEFINE rec == Retirement(h, r.value)
  <2>1. rec.value = r.value /\ rec.op = i.op
    BY DEF Retirement, i
  <2> HIDE DEF rec
  <2>2. rec = Retirement(h, rec.value)
    BY <2>1 DEF rec
  <2> QED
    BY <1>5, <2>1, <2>2 DEF Step, rec
<1> QED
  BY <1>4, <1>5, <1>6 DEF i

(***************************************************************************)
(* The inductive invariant                                                 *)
(***************************************************************************)
Statuses == {"running", "mismatch", "trap_failed", "exit", "stall", "timeout"}

Types ==
    /\ scenario \in Scenarios
    /\ GoodHart(core) /\ GoodHart(ref)
    /\ rob \in Seq(Retirements) /\ Len(rob) <= RobSize
    /\ platform \in Platform /\ refPlatform \in Platform
    /\ state \in StateType /\ status \in Statuses
    /\ draining \in BOOLEAN /\ sleeping \in BOOLEAN /\ owed \in BOOLEAN
    /\ races \subseteq Races /\ hung \in Nat

\* The counters, which a cycle advances by one and by three instructions.
Counters(s, running) ==
    /\ s.measured_instructions <= s.retired_instructions
    /\ s.cycles_without_retirement <= s.next_cycle
    /\ s.next_cycle <= MaxCycles /\ s.measured_cycles <= MaxCycles
    /\ s.retired_instructions <= 3 * MaxCycles
    /\ running => /\ s.next_cycle < MaxCycles
                  /\ s.retired_instructions <= 3 * s.next_cycle
                  /\ StallCycles # 0 => s.cycles_without_retirement < StallCycles

\* The loop's idea of waiting and hanging against that of an observer.
Watched(s, asleep, idle) ==
    /\ asleep => s.waiting_after_wfi
    /\ scenario.difftest => s.waiting_after_wfi = asleep
    /\ s.waiting_after_wfi => s.cycles_without_retirement = 0
    /\ asleep => idle = 0
    /\ ~s.waiting_after_wfi => idle = s.cycles_without_retirement

Linked(g, buffer, c) == Trace(g, buffer) /\ g[Len(buffer)] = c

\* No instruction that has not retired looks like a trap.
Unmistaken(g, buffer, rc) ==
    "vector" \notin rc => \A k \in 1..Len(buffer) : ~Trapped(g[k - 1], g[k])

\* The devices agree once the oldest instruction is replayed.
DuePlatform(g, buffer, q) == IF buffer = <<>> THEN q ELSE Due(q, Ins(g[0]))
Agree(g, buffer, p, q, rc) ==
    LET d == DuePlatform(g, buffer, q)
    IN  SameRegisters(p, d) /\ ("input" \in rc \/ p.input = d.input)

\* Its replay reads what the core has read.
LoadRight(g, buffer, p, q, rc) ==
    buffer # <<>> /\ Ins(g[0]).op = "load" /\ rc = {} =>
      buffer[1].value = readByte(setTime(q, p.mtime), Ins(g[0]).address).value

\* The unretired instructions lead from the reference to the core.
LinkedTo(g, s, rf, buffer, c, ow, p, q, rc) ==
    /\ s.architectural_state = rf.regs
    /\ Linked(g, buffer, c) /\ Unmistaken(g, buffer, rc)
    /\ rf = g[0] \/ (ow /\ Owing(rf, g[0]))
    /\ Agree(g, buffer, p, q, rc)
    /\ LoadRight(g, buffer, p, q, rc)

LinkedState(g) == LinkedTo(g, state, ref, rob, core, owed, platform, refPlatform, races)

IInv ==
    /\ Types
    /\ Counters(state, status = "running")
    /\ status \in {"running", "stall"} => Watched(state, sleeping, hung)
    /\ StallCycles # 0 /\ status = "stall" => state.cycles_without_retirement >= StallCycles
    /\ scenario.difftest /\ status = "running" => \E g : LinkedState(g)
    /\ AlarmsAreRaces

(***************************************************************************)
(* The end of a cycle                                                      *)
(***************************************************************************)
HostStart(input, bus) ==
    [state |-> state,
     spike |-> [hart |-> ref, platform |-> setTime(appendUartInput(refPlatform, input), bus.mtime)],
     status |-> "running"]

HostEnd(lanes, bus, retiring, trap, exited) ==
    LET traps   == InjectTrap(lanes, trap)
        counted == [CountIdle(traps.state, retiring, trap) EXCEPT !.next_cycle = @ + 1]
        running == traps.status = "running"
    IN  /\ ref' = traps.spike.hart
        /\ refPlatform' = traps.spike.platform
        /\ state' = IF running THEN counted ELSE traps.state
        /\ status' = IF running THEN Outcome(counted, exited) ELSE traps.status
        /\ platform' = IF running THEN tick(bus) ELSE bus

\* The host's part of a cycle is its lanes and what follows them.
LEMMA HostSplit ==
    ASSUME NEW input, NEW bus, NEW retiring, NEW trap, NEW exited,
           Host(input, bus, retiring, trap, exited)
    PROVE  \E lanes \in RetireLanes(HostStart(input, bus), retiring) :
             HostEnd(lanes, bus, retiring, trap, exited)
  BY DEF Host, HostStart, HostEnd

\* Time and input reach the reference before anything retires.
LEMMA HostStartType ==
    ASSUME Types, NEW input \in Seq(Byte), NEW bus \in Platform
    PROVE  LET start == HostStart(input, bus)
               q == start.spike.platform
           IN  /\ start \in Hosts /\ start.status = "running" /\ start.state = state
               /\ start.spike.hart = ref /\ q \in Platform
               /\ SameRegisters(q, refPlatform) /\ q.mtime = bus.mtime
               /\ q.input = refPlatform.input \o input
<1> DEFINE a == appendUartInput(refPlatform, input)
           q == setTime(a, bus.mtime)
<1>1. refPlatform \in Platform /\ state \in StateType /\ ref \in Hart /\ bus.mtime \in Time
  BY DEF Types, GoodHart, Platform
<1>2. /\ a \in Platform /\ SameRegisters(a, refPlatform) /\ a.input = refPlatform.input \o input
  BY <1>1, InputAppended
<1> HIDE DEF a
<1>3. q \in Platform /\ q.mtime = bus.mtime /\ SameRegisters(q, a) /\ q.input = a.input
  BY <1>1, <1>2, TimeSet
<1> HIDE DEF q
<1>4. HostStart(input, bus) = [state |-> state, spike |-> [hart |-> ref, platform |-> q],
                               status |-> "running"]
  BY DEF HostStart, q, a
<1>5. SameRegisters(q, refPlatform)
  BY <1>2, <1>3 DEF SameRegisters
<1> QED
  BY <1>1, <1>2, <1>3, <1>4, <1>5 DEF Hosts, Spikes

\* Injection of the trap of a cycle.
LEMMA Injected ==
    ASSUME scenario \in Scenarios, NEW lanes \in Hosts, GoodHart(lanes.spike.hart), NEW trap
    PROVE  LET t == InjectTrap(lanes, trap)
               h == lanes.spike.hart
           IN  /\ t.state = lanes.state /\ t.spike.platform = lanes.spike.platform
               /\ GoodHart(t.spike.hart) /\ t.status \in {"running", "mismatch", "trap_failed"}
               /\ lanes.status # "running" \/ ~scenario.difftest => t = lanes
               /\ lanes.status = "running" /\ scenario.difftest =>
                    /\ trap.cause \notin {"interrupt", "fault"} =>
                         t.status = "running" /\ t.spike.hart = h
                    /\ trap.cause = "interrupt" =>
                         IF h.pc = trap.epc /\ h.mode # "M"
                         THEN t.status = "running" /\ t.spike.hart = TrapInto(h, "M")
                         ELSE t.status = "trap_failed"
                    /\ trap.cause = "fault" =>
                         IF h.pc = trap.epc /\ trap.target = TrapTarget(h, "fault")
                         THEN t.status = "running" /\ t.spike.hart = TrapInto(h, trap.target)
                         ELSE t.status = "trap_failed"
<1> DEFINE h == lanes.spike.hart
           i == CASE trap.cause = "interrupt" -> injectInterrupt(h, trap)
                  [] trap.cause = "fault" -> injectPageFault(h, trap)
                  [] OTHER -> [ok |-> TRUE, hart |-> h]
           t == InjectTrap(lanes, trap)
<1>1. t = IF lanes.status # "running" \/ ~scenario.difftest THEN lanes
          ELSE IF i.ok THEN [lanes EXCEPT !.spike.hart = i.hart]
          ELSE [lanes EXCEPT !.status = "trap_failed"]
  BY DEF InjectTrap
<1>2. /\ lanes = [state |-> lanes.state, spike |-> lanes.spike, status |-> lanes.status]
      /\ lanes.spike = [hart |-> h, platform |-> lanes.spike.platform]
      /\ lanes.status \in {"running", "mismatch"} /\ GoodHart(h)
  BY DEF Hosts, Spikes
<1>3. CASE lanes.status # "running" \/ ~scenario.difftest
  <2>1. t = lanes
    BY <1>1, <1>3
  <2> QED
    BY <1>2, <1>3, <2>1
<1>4. CASE lanes.status = "running" /\ scenario.difftest
  <2>1. t = IF i.ok THEN [lanes EXCEPT !.spike.hart = i.hart]
            ELSE [lanes EXCEPT !.status = "trap_failed"]
    BY <1>1, <1>4
  <2>2. GoodHart(TrapInto(h, "M")) /\ GoodHart(TrapInto(h, TrapTarget(h, "fault")))
    BY <1>2, TrapEntry, TargetMode
  <2>3. /\ trap.cause \notin {"interrupt", "fault"} => i.ok = TRUE /\ i.hart = h
        /\ trap.cause = "interrupt" =>
             i.ok = (h.pc = trap.epc /\ h.mode # "M") /\ i.hart = TrapInto(h, "M")
        /\ trap.cause = "fault" =>
             /\ i.ok = (h.pc = trap.epc /\ trap.target = TrapTarget(h, "fault"))
             /\ i.hart = TrapInto(h, TrapTarget(h, "fault"))
    BY DEF injectInterrupt, injectPageFault
  <2> HIDE DEF i, h, t
  <2>4. GoodHart(i.hart)
    BY <1>2, <2>2, <2>3
  <2>5. CASE i.ok
    <3>1. t = [lanes EXCEPT !.spike.hart = i.hart]
      BY <2>1, <2>5
    <3>2. /\ t.state = lanes.state /\ t.spike.platform = lanes.spike.platform
          /\ t.spike.hart = i.hart /\ t.status = lanes.status
      BY <1>2, <3>1
    <3> QED
      BY <1>2, <1>4, <2>2, <2>3, <2>4, <2>5, <3>2 DEF h, t
  <2>6. CASE ~i.ok
    <3>1. t = [lanes EXCEPT !.status = "trap_failed"]
      BY <2>1, <2>6
    <3>2. t.state = lanes.state /\ t.spike = lanes.spike /\ t.status = "trap_failed"
      BY <1>2, <3>1
    <3> QED
      BY <1>2, <1>4, <2>3, <2>6, <3>2 DEF h, t
  <2> QED
    BY <2>5, <2>6
<1> QED
  BY <1>2, <1>3, <1>4

\* The wait and the cycles without retirement after a cycle.
Waiting(s, retiring, trap) ==
    ~PendingTrap(trap) /\ IF retiring # <<>> THEN Last(retiring).op = "wfi" ELSE s.waiting_after_wfi

\* What a cycle does to the counters of the loop.
LEMMA CycleCounted ==
    ASSUME NEW s \in StateType, NEW retiring, NEW trap
    PROVE  LET c == [CountIdle(s, retiring, trap) EXCEPT !.next_cycle = @ + 1]
           IN  /\ c \in StateType
               /\ c.next_cycle = s.next_cycle + 1
               /\ c.waiting_after_wfi = Waiting(s, retiring, trap)
               /\ c.cycles_without_retirement =
                    IF retiring # <<>> \/ Waiting(s, retiring, trap) THEN 0
                    ELSE s.cycles_without_retirement + 1
               /\ c.retired_instructions = s.retired_instructions
               /\ c.measured_cycles = s.measured_cycles
               /\ c.measured_instructions = s.measured_instructions
               /\ c.architectural_state = s.architectural_state
<1> DEFINE w == Waiting(s, retiring, trap)
           k == IF retiring # <<>> \/ w THEN 0 ELSE s.cycles_without_retirement + 1
           d == CountIdle(s, retiring, trap)
           n == s.next_cycle + 1
           c == [d EXCEPT !.next_cycle = @ + 1]
<1>1. d = [s EXCEPT !.waiting_after_wfi = w, !.cycles_without_retirement = k]
  BY DEF CountIdle, Waiting, StateType
<1>2. s.waiting_after_wfi \in BOOLEAN
  BY DEF StateType
<1>3. w \in BOOLEAN
  BY <1>2 DEF Waiting, PendingTrap
<1>4. k \in Nat /\ n \in Nat
  BY DEF StateType
<1> HIDE DEF w, k, d, n
<1>5. /\ d \in StateType /\ d.waiting_after_wfi = w /\ d.cycles_without_retirement = k
      /\ d.next_cycle = s.next_cycle /\ d.retired_instructions = s.retired_instructions
      /\ d.measured_cycles = s.measured_cycles
      /\ d.measured_instructions = s.measured_instructions
      /\ d.architectural_state = s.architectural_state
  BY <1>1, <1>3, <1>4 DEF StateType
<1>6. c = [d EXCEPT !.next_cycle = n]
  BY <1>5 DEF n, StateType
<1>7. /\ c \in StateType /\ c.next_cycle = n /\ c.waiting_after_wfi = w
      /\ c.cycles_without_retirement = k
      /\ c.retired_instructions = s.retired_instructions
      /\ c.measured_cycles = s.measured_cycles
      /\ c.measured_instructions = s.measured_instructions
      /\ c.architectural_state = s.architectural_state
  BY <1>4, <1>5, <1>6 DEF StateType
<1> HIDE DEF c
<1> QED
  BY <1>7 DEF w, k, n, c, d

\* The counters and the waits at the end of a cycle, with or without a
\* reference.
LEMMA CycleEnd ==
    ASSUME Types, Counters(state, TRUE), Watched(state, sleeping, hung),
           NEW input, NEW bus \in Platform, NEW retiring, NEW trap, NEW exited,
           NEW lanes \in Hosts, GoodHart(lanes.spike.hart), Counted(state, lanes.state, 3),
           HostEnd(lanes, bus, retiring, trap, exited), Observe(input, retiring, trap)
    PROVE  /\ GoodHart(ref') /\ platform' \in Platform /\ refPlatform' \in Platform
           /\ state' \in StateType /\ status' \in Statuses
           /\ Counters(state', status' = "running")
           /\ status' \in {"running", "stall"} => Watched(state', sleeping', hung')
           /\ StallCycles # 0 /\ status' = "stall" =>
                state'.cycles_without_retirement >= StallCycles
           /\ owed' \in BOOLEAN /\ sleeping' \in BOOLEAN /\ hung' \in Nat /\ races' \subseteq Races
           /\ state'.architectural_state = lanes.state.architectural_state
<1> DEFINE t == InjectTrap(lanes, trap)
           s == lanes.state
           c == [CountIdle(s, retiring, trap) EXCEPT !.next_cycle = @ + 1]
<1>1. /\ scenario \in Scenarios /\ state \in StateType /\ hung \in Nat
      /\ owed \in BOOLEAN /\ sleeping \in BOOLEAN /\ races \subseteq Races
  BY DEF Types
<1>2. s \in StateType /\ lanes.spike.platform \in Platform
  BY DEF Hosts, Spikes
<1>3. /\ t.state = s /\ t.spike.platform = lanes.spike.platform /\ GoodHart(t.spike.hart)
      /\ t.status \in {"running", "mismatch", "trap_failed"}
  BY <1>1, Injected
<1>4. /\ ref' = t.spike.hart /\ refPlatform' = t.spike.platform
      /\ state' = IF t.status = "running" THEN c ELSE s
      /\ status' = IF t.status = "running" THEN Outcome(c, exited) ELSE t.status
      /\ platform' = IF t.status = "running" THEN tick(bus) ELSE bus
  BY <1>3 DEF HostEnd
<1>5. /\ c \in StateType
      /\ c.next_cycle = s.next_cycle + 1
      /\ c.waiting_after_wfi = Waiting(s, retiring, trap)
      /\ c.cycles_without_retirement =
           IF retiring # <<>> \/ Waiting(s, retiring, trap) THEN 0
           ELSE s.cycles_without_retirement + 1
      /\ c.retired_instructions = s.retired_instructions
      /\ c.measured_cycles = s.measured_cycles
      /\ c.measured_instructions = s.measured_instructions
      /\ c.architectural_state = s.architectural_state
  BY <1>2, CycleCounted
<1>6. tick(bus) \in Platform
  BY Ticked
<1> HIDE DEF t, s, c
<1>7. /\ GoodHart(ref') /\ platform' \in Platform /\ refPlatform' \in Platform
      /\ state' \in StateType /\ state'.architectural_state = s.architectural_state
  BY <1>2, <1>3, <1>4, <1>5, <1>6
<1>8. status' \in Statuses
  BY <1>3, <1>4 DEF Outcome, Statuses
<1>9. /\ {state.next_cycle, state.cycles_without_retirement, state.retired_instructions,
          state.measured_cycles, state.measured_instructions} \subseteq Nat
      /\ {s.next_cycle, s.cycles_without_retirement, s.retired_instructions,
          s.measured_cycles, s.measured_instructions} \subseteq Nat
      /\ MaxCycles \in Nat /\ StallCycles \in Nat
  BY <1>1, <1>2, CosimAssumption DEF StateType
<1>10. /\ s.next_cycle = state.next_cycle
       /\ s.cycles_without_retirement = state.cycles_without_retirement
       /\ s.waiting_after_wfi = state.waiting_after_wfi
       /\ s.retired_instructions \in state.retired_instructions..(state.retired_instructions + 3)
       /\ s.measured_cycles \in {state.measured_cycles, state.next_cycle + 1}
       /\ s.measured_instructions <= s.retired_instructions
  BY DEF Counted, Counters, s
<1>11. /\ state.cycles_without_retirement <= state.next_cycle /\ state.next_cycle < MaxCycles
       /\ state.measured_cycles <= MaxCycles
       /\ state.retired_instructions <= 3 * state.next_cycle
  BY DEF Counters
<1>12. /\ s.measured_instructions <= s.retired_instructions
       /\ s.cycles_without_retirement <= s.next_cycle
       /\ s.next_cycle < MaxCycles /\ s.measured_cycles <= MaxCycles
       /\ s.retired_instructions <= 3 * (s.next_cycle + 1)
       /\ 3 * (s.next_cycle + 1) <= 3 * MaxCycles
  BY <1>9, <1>10, <1>11
<1>13. /\ Counters(state', status' = "running")
       /\ status' \in {"running", "stall"} => Watched(state', sleeping', hung')
       /\ StallCycles # 0 /\ status' = "stall" =>
            state'.cycles_without_retirement >= StallCycles
  <2>1. CASE t.status = "running"
    <3>1. state' = c /\ status' = Outcome(c, exited)
      BY <1>4, <2>1
    <3>2. status' = "running" =>
            /\ c.next_cycle < MaxCycles
            /\ StallCycles # 0 => c.cycles_without_retirement < StallCycles
      <4>1. c.next_cycle \in Nat /\ c.cycles_without_retirement \in Nat
        BY <1>5 DEF StateType
      <4> QED
        BY <1>9, <3>1, <4>1 DEF Outcome
    <3>3. status' = "stall" => c.cycles_without_retirement >= StallCycles
      BY <3>1 DEF Outcome
    <3>4. /\ c.measured_instructions <= c.retired_instructions
          /\ c.cycles_without_retirement <= c.next_cycle
          /\ c.next_cycle <= MaxCycles /\ c.measured_cycles <= MaxCycles
          /\ c.retired_instructions <= 3 * MaxCycles
          /\ c.retired_instructions <= 3 * c.next_cycle
      BY <1>5, <1>9, <1>12, SMTT(30)
    <3>5. Counters(state', status' = "running")
      BY <1>12, <3>1, <3>2, <3>4 DEF Counters
    <3>6. Watched(state', sleeping', hung')
      <4>1. /\ sleeping' = (trap = NoTrap /\ IF retiring # <<>> THEN Last(retiring).op = "wfi" ELSE sleeping)
            /\ hung' = IF retiring # <<>> \/ sleeping' THEN 0 ELSE hung + 1
        BY DEF Observe
      <4>2. /\ sleeping => s.waiting_after_wfi
            /\ scenario.difftest => s.waiting_after_wfi = sleeping
            /\ s.waiting_after_wfi => s.cycles_without_retirement = 0
            /\ sleeping => hung = 0
            /\ ~s.waiting_after_wfi => hung = s.cycles_without_retirement
        BY <1>10 DEF Watched
      <4>3. s.waiting_after_wfi \in BOOLEAN /\ scenario.difftest \in BOOLEAN
        BY <1>1, <1>2, Code DEF StateType
      <4> DEFINE w == Waiting(s, retiring, trap)
      <4>4. /\ sleeping' => w
            /\ scenario.difftest => w = sleeping'
        BY <1>1, <4>1, <4>2, <4>3, Zenon DEF Waiting, PendingTrap
      <4>5. ~w /\ retiring = <<>> => hung = s.cycles_without_retirement
        BY <1>1, <4>1, <4>2, <4>3 DEF Waiting, PendingTrap
      <4> HIDE DEF w
      <4>6. w => c.cycles_without_retirement = 0
        BY <1>5 DEF w
      <4>7. sleeping' => hung' = 0
        BY <4>1
      <4>8. ~w => hung' = c.cycles_without_retirement
        BY <1>5, <4>1, <4>4, <4>5 DEF w
      <4> QED
        BY <1>5, <3>1, <4>4, <4>6, <4>7, <4>8 DEF Watched, w
    <3> QED
      BY <3>1, <3>3, <3>5, <3>6
  <2>2. CASE t.status # "running"
    <3>1. state' = s /\ status' \notin {"running", "stall"}
      BY <1>3, <1>4, <2>2
    <3>2. /\ s.measured_instructions <= s.retired_instructions
          /\ s.cycles_without_retirement <= s.next_cycle
          /\ s.next_cycle <= MaxCycles /\ s.measured_cycles <= MaxCycles
          /\ s.retired_instructions <= 3 * MaxCycles
      BY <1>9, <1>12
    <3> QED
      BY <3>1, <3>2 DEF Counters
  <2> QED
    BY <2>1, <2>2
<1>14. /\ owed' \in BOOLEAN /\ sleeping' \in BOOLEAN /\ hung' \in Nat /\ races' \subseteq Races
  BY <1>1 DEF Observe, Racing
<1> QED
  BY <1>7, <1>8, <1>13, <1>14 DEF s

\* The code does not change, so a fact about it is one about the next state.
LEMMA StepMoved ==
    ASSUME scenario' = scenario, NEW h, NEW r, NEW e
    PROVE  /\ GoodHart(h)' = GoodHart(h)
           /\ Ins(h)' = Ins(h)
           /\ Step(h, r, e) => Step(h, r, e)'
<1>1. GoodHart(h)' = GoodHart(h) /\ Ins(h)' = Ins(h)
  BY DEF GoodHart, Ins
<1>2. Step(h, r, e) => Step(h, r, e)'
  BY DEF Step, GoodHart, Ins, Retirement, Writes, Execute, ReturnTo, AluResult
<1> QED
  BY <1>1, <1>2

\* A link stated for the new values is the link of the new state.
LEMMA LinkMoved ==
    ASSUME scenario' = scenario,
           NEW g, LinkedTo(g, state', ref', rob', core', owed', platform', refPlatform', races')
    PROVE  LinkedState(g)'
<1> DEFINE n == Len(rob')
<1>1. PICK b, q : b = rob' /\ q = refPlatform'
  OBVIOUS
<1>2. Trace(g, b)'
  <2>1. Trace(g, b)
    BY <1>1 DEF LinkedTo, Linked
  <2>2. \A k \in 1..Len(b) : Step(g[k - 1], b[k], g[k])'
    <3>1. TAKE k \in 1..Len(b)
    <3>2. Step(g[k - 1], b[k], g[k])
      BY <2>1 DEF Trace
    <3> QED
      BY <3>2, StepMoved
  <2> QED
    BY <2>1, <2>2 DEF Trace
<1>3. Trace(g, rob)'
  BY <1>1, <1>2 DEF Trace
<1>4. /\ Linked(g, rob, core)' /\ Unmistaken(g, rob, races)'
      /\ (state.architectural_state = ref.regs)'
  BY <1>3 DEF LinkedTo, Linked, Unmistaken, Trapped
<1>5. (ref = g[0] \/ (owed /\ Owing(ref, g[0])))'
  BY DEF LinkedTo, Owing, Ins, TrapInto, TrapTarget
<1>6. Agree(g, rob, platform, refPlatform, races)'
  BY DEF LinkedTo, Agree, DuePlatform, Due, Ins
<1>7. LoadRight(g, rob, platform, refPlatform, races)'
  BY DEF LinkedTo, LoadRight, Ins
<1> QED
  BY <1>4, <1>5, <1>6, <1>7 DEF LinkedState, LinkedTo

(***************************************************************************)
(* A cycle beside a reference                                              *)
(***************************************************************************)

\* The first n instructions of a linked buffer, and the rest.
LEMMA FirstLinked ==
    ASSUME NEW g, NEW buffer \in Seq(Retirements), Trace(g, buffer), NEW n \in 0..Len(buffer)
    PROVE  LET first == SubSeq(buffer, 1, n)
               rest == SubSeq(buffer, n + 1, Len(buffer))
           IN  /\ first \in Seq(Retirements) /\ Len(first) = n /\ Trace(g, first)
               /\ \A k \in 1..n : first[k] = buffer[k]
               /\ rest \in Seq(Retirements) /\ Len(rest) = Len(buffer) - n
               /\ \A k \in 1..(Len(buffer) - n) : rest[k] = buffer[n + k]
<1> DEFINE first == SubSeq(buffer, 1, n)
           rest == SubSeq(buffer, n + 1, Len(buffer))
           m == Len(buffer)
<1>1. m \in Nat /\ n \in Nat /\ n <= m
  OBVIOUS
<1>2. first \in Seq(Retirements) /\ Len(first) = n /\ \A k \in 1..n : first[k] = buffer[k]
  BY <1>1
<1>3. rest \in Seq(Retirements) /\ Len(rest) = m - n
  BY <1>1
<1>4. \A k \in 1..(m - n) : rest[k] = buffer[n + k]
  BY <1>1
<1> HIDE DEF first, rest
<1>5. Trace(g, first)
  BY <1>1, <1>2 DEF Trace
<1> QED
  BY <1>2, <1>3, <1>4, <1>5 DEF first, rest

\* The lanes of a cycle: nothing is reported without a cause, and what has
\* retired is behind the reference too.
LEMMA CycleLanes ==
    ASSUME Types, scenario.difftest, NEW g, LinkedState(g), NEW input \in Seq(Byte),
           NEW bus \in Platform, NEW n \in 0..Len(rob), n <= 3,
           NEW lanes \in RetireLanes(HostStart(input, bus), SubSeq(rob, 1, n))
    PROVE  LET q == HostStart(input, bus).spike.platform
           IN  /\ lanes \in Hosts /\ GoodHart(lanes.spike.hart)
               /\ Counted(state, lanes.state, 3)
               /\ lanes.status = "running" =>
                    /\ lanes.state.architectural_state = lanes.spike.hart.regs
                    /\ \/ lanes.spike.hart = g[n]
                       \/ n = 0 /\ owed /\ Owing(lanes.spike.hart, g[n])
                    /\ lanes.spike.platform = IF n = 0 THEN q ELSE Due(q, Ins(g[0]))
               /\ Clean(g, SubSeq(rob, 1, n), q) => lanes.status = "running"
<1> DEFINE start == HostStart(input, bus)
           q == start.spike.platform
           first == SubSeq(rob, 1, n)
<1>1. /\ start \in Hosts /\ start.status = "running" /\ start.state = state
      /\ start.spike.hart = ref
  BY HostStartType
<1>2. scenario \in Scenarios /\ rob \in Seq(Retirements) /\ GoodHart(ref) /\ state \in StateType
  BY DEF Types
<1>3. /\ state.architectural_state = ref.regs /\ Trace(g, rob)
      /\ ref = g[0] \/ (owed /\ Owing(ref, g[0]))
  BY DEF LinkedState, LinkedTo, Linked
<1>4. Trace(g, first) /\ Len(first) = n
  BY <1>2, <1>3, FirstLinked
<1> HIDE DEF start, first
<1>5. Progress(start, start, g, first, 0)
  <2>1. Counted(state, state, 0)
    <3>1. state.retired_instructions \in Nat
      BY <1>2 DEF StateType
    <3> QED
      BY <1>2, <3>1 DEF Counted
  <2>2. Synced(start, g[0])
    BY <1>1, <1>3 DEF Synced
  <2> QED
    BY <1>1, <1>2, <2>1, <2>2 DEF Progress
<1>6. Progress(start, lanes, g, first, n)
  <2>1. lanes \in RetireLanes(start, first)
    BY DEF start, first
  <2>2. Progress(start, lanes, g, first, Len(first))
    BY <1>1, <1>2, <1>4, <1>5, <2>1, LanesDone
  <2> QED
    BY <1>4, <2>2
<1>7. lanes \in Hosts /\ GoodHart(lanes.spike.hart) /\ Counted(state, lanes.state, n)
  BY <1>1, <1>6 DEF Progress
<1>8. Counted(state, lanes.state, 3)
  <2>1. state.retired_instructions \in Nat /\ n \in 0..3
    BY <1>2 DEF StateType
  <2> QED
    BY <1>7, <2>1 DEF Counted
<1>9. ASSUME lanes.status = "running"
      PROVE  /\ lanes.state.architectural_state = lanes.spike.hart.regs
             /\ \/ lanes.spike.hart = g[n]
                \/ n = 0 /\ owed /\ Owing(lanes.spike.hart, g[n])
             /\ lanes.spike.platform = IF n = 0 THEN q ELSE Due(q, Ins(g[0]))
  <2>1. /\ Synced(lanes, g[n]) /\ (n > 0 => lanes.spike.hart = g[n])
        /\ n = 0 => lanes = start
        /\ lanes.spike.platform = IF n = 0 THEN q ELSE Due(q, Ins(g[0]))
    BY <1>6, <1>9 DEF Progress
  <2>2. n > 0 \/ n = 0
    OBVIOUS
  <2> QED
    BY <1>1, <1>3, <2>1, <2>2 DEF Synced
<1>10. Clean(g, first, q) => lanes.status = "running"
  BY <1>6 DEF Progress
<1> QED
  BY <1>7, <1>8, <1>9, <1>10 DEF start, first

\* Input that arrives while no load that shows it is in flight.
Undisturbed(input) == ~(input # <<>> /\ InFlight(rob) \cap InputRegisters # {})

\* The oldest load in flight would still read the same.
LEMMA StillRight ==
    ASSUME Types, NEW g, LinkedState(g), NEW input \in Seq(Byte), NEW t \in Time,
           NEW q \in Platform, SameRegisters(q, refPlatform), q.mtime = t,
           q.input = refPlatform.input \o input,
           rob # <<>>, Ins(g[0]).op = "load", races = {}, Undisturbed(input),
           SameTimeRead(rob, platform.mtime, t)
    PROVE  rob[1].value = readByte(q, Ins(g[0]).address).value
<1> DEFINE i == Ins(g[0])
           o == setTime(refPlatform, platform.mtime)
<1>1. /\ scenario \in Scenarios /\ rob \in Seq(Retirements) /\ refPlatform \in Platform
      /\ platform.mtime \in Time
  BY DEF Types, Platform
<1>2. 1 \in DOMAIN rob /\ 1 \in 1..Len(rob)
  BY <1>1
<1>3. Step(g[0], rob[1], g[1])
  <2>1. Trace(g, rob) /\ 1 - 1 = 0
    BY DEF LinkedState, LinkedTo, Linked
  <2> QED
    BY <1>2, <2>1 DEF Trace
<1>4. rob[1].op = "load" /\ rob[1].pc = g[0].pc /\ GoodHart(g[0])
  <2>1. rob[1].op = "load" /\ rob[1].pc = g[0].pc
    BY <1>1, <1>3, StepRecord
  <2>2. GoodHart(g[0])
    BY <1>3 DEF Step
  <2> QED
    BY <2>1, <2>2
<1>5. i.address \in Nat /\ isDevice(i.address, 1)
  <2>1. i.address \in Nat
    BY <1>1, <1>4, Fetched
  <2> QED
    BY <1>1, <1>4, <2>1, Code DEF GoodHart, Ins
<1>6. i.address \in InFlight(rob)
  <2>1. i = scenario.program[rob[1].pc]
    BY <1>4 DEF Ins
  <2> QED
    BY <1>2, <1>4, <2>1 DEF InFlight
<1>7. rob[1].value = readByte(o, i.address).value
  BY DEF LinkedState, LinkedTo, LoadRight
<1>8. /\ o \in Platform /\ o.mtime = platform.mtime /\ SameRegisters(o, refPlatform)
      /\ o.input = refPlatform.input
  BY <1>1, TimeSet
<1> HIDE DEF i, o
<1>9. SameRegisters(o, q)
  BY <1>8 DEF SameRegisters
<1>10. InClint(i.address) /\ MtimeByte(i.address) \in TimerBytes =>
         ByteOf(o.mtime, MtimeByte(i.address)) = ByteOf(q.mtime, MtimeByte(i.address))
  BY <1>6, <1>8 DEF SameTimeRead
<1>11. ~InClint(i.address) /\ i.address - Uart.base \in {0, 5} => o.input = q.input
  <2>1. refPlatform.input \in Seq(Byte)
    BY <1>1 DEF Platform
  <2>2. input = <<>> => q.input = refPlatform.input
    BY <2>1
  <2>3. i.address - Uart.base \in {0, 5} => i.address \in InputRegisters
    <3>1. Uart.base \in Nat /\ i.address \in Nat
      <4>1. Uart \in Region
        BY PlatformAssumption
      <4> QED
        BY <1>5, <4>1 DEF Region
    <3>2. ASSUME NEW a \in Nat, NEW b \in Nat, a - b \in {0, 5}
          PROVE  a = b \/ a = b + 5
      BY <3>2
    <3> QED
      BY <3>1, <3>2 DEF InputRegisters
  <2> SUFFICES ASSUME i.address - Uart.base \in {0, 5}
               PROVE  o.input = q.input
    OBVIOUS
  <2>4. i.address \in InFlight(rob) \cap InputRegisters
    BY <1>6, <2>3
  <2>5. input = <<>>
    BY <2>4 DEF Undisturbed
  <2> QED
    BY <1>8, <2>2, <2>5
<1> QED
  BY <1>5, <1>7, <1>8, <1>9, <1>10, <1>11, ReadValue DEF i

\* A correct core that did not race passes the lanes.
LEMMA CleanCycle ==
    ASSUME Types, NEW g, LinkedState(g), NEW input \in Seq(Byte), NEW bus \in Platform,
           NEW n \in 0..Len(rob), n > 0 => bus.mtime = platform.mtime,
           ~scenario.faulty, races = {}, Undisturbed(input)
    PROVE  Clean(g, SubSeq(rob, 1, n), HostStart(input, bus).spike.platform)
<1> DEFINE q == HostStart(input, bus).spike.platform
           first == SubSeq(rob, 1, n)
<1>1. /\ q \in Platform /\ SameRegisters(q, refPlatform) /\ q.mtime = bus.mtime
      /\ q.input = refPlatform.input \o input /\ bus.mtime \in Time
  BY HostStartType DEF Platform
<1>2. scenario \in Scenarios /\ rob \in Seq(Retirements) /\ Trace(g, rob) /\ Unmistaken(g, rob, races)
  BY DEF Types, LinkedState, LinkedTo, Linked
<1>3. Len(first) = n /\ \A k \in 1..n : first[k] = rob[k]
  BY <1>2, FirstLinked
<1>4. \A k \in 1..n : ~Trapped(g[k - 1], g[k])
  BY <1>2 DEF Unmistaken
<1>5. n > 0 /\ rob[1].op = "load" => rob[1].value = readByte(q, Ins(g[0]).address).value
  <2> HAVE n > 0 /\ rob[1].op = "load"
  <2>1. rob # <<>> /\ 1 \in 1..Len(rob)
    BY <1>2
  <2>2. Step(g[0], rob[1], g[1])
    <3>1. 1 - 1 = 0
      OBVIOUS
    <3> QED
      BY <1>2, <2>1, <3>1 DEF Trace
  <2>3. Ins(g[0]).op = "load"
    BY <1>2, <2>2, StepRecord
  <2>4. SameTimeRead(rob, platform.mtime, bus.mtime)
    BY DEF SameTimeRead
  <2> HIDE DEF q
  <2> QED
    BY <1>1, <2>1, <2>3, <2>4, StillRight
<1> HIDE DEF q, first
<1>6. n > 0 => first[1] = rob[1]
  BY <1>3
<1> QED
  BY <1>3, <1>4, <1>5, <1>6 DEF Clean, q, first

\* The devices after new input: those of the core agree with those of the
\* reference once it has replayed the oldest instruction.
LEMMA DevicesMove ==
    ASSUME Types, NEW g, LinkedState(g), NEW input \in Seq(Byte),
           NEW q \in Platform, SameRegisters(q, refPlatform),
           q.input = refPlatform.input \o input
    PROVE  LET b == appendUartInput(platform, input)
               d == DuePlatform(g, rob, q)
           IN  /\ d \in Platform /\ SameRegisters(b, d)
               /\ "input" \notin races /\ Undisturbed(input) => b.input = d.input
<1> DEFINE b == appendUartInput(platform, input)
           d == DuePlatform(g, rob, q)
           o == DuePlatform(g, rob, refPlatform)
           i == Ins(g[0])
<1>1. /\ scenario \in Scenarios /\ rob \in Seq(Retirements)
      /\ refPlatform \in Platform /\ platform \in Platform
  BY DEF Types
<1>2. SameRegisters(b, platform) /\ b.input = platform.input \o input
  BY <1>1, InputAppended
<1>3. SameRegisters(platform, o) /\ ("input" \in races \/ platform.input = o.input)
  BY DEF LinkedState, LinkedTo, Agree
<1>4. platform.input \in Seq(Byte) /\ refPlatform.input \in Seq(Byte)
  BY <1>1 DEF Platform
<1> HIDE DEF b
<1>5. CASE rob = <<>>
  <2>1. d = q /\ o = refPlatform
    BY <1>5 DEF DuePlatform
  <2> QED
    BY <1>2, <1>3, <2>1 DEF SameRegisters, b
<1>6. CASE rob # <<>>
  <2>1. d = Due(q, i) /\ o = Due(refPlatform, i)
    BY <1>6 DEF DuePlatform
  <2>2. 1 \in DOMAIN rob /\ 1 \in 1..Len(rob) /\ 1 - 1 = 0
    BY <1>1, <1>6
  <2>3. Step(g[0], rob[1], g[1])
    <3>1. Trace(g, rob)
      BY DEF LinkedState, LinkedTo, Linked
    <3> QED
      BY <2>2, <3>1 DEF Trace
  <2>4. rob[1].op = i.op /\ rob[1].pc = g[0].pc /\ GoodHart(g[0])
    BY <1>1, <2>3, StepRecord DEF Step
  <2>5. i \in Instruction /\ i.address \in Nat
    BY <1>1, <2>4, Fetched
  <2>6. SameRegisters(d, o) /\ d \in Platform
    <3>1. Due(q, i) \in Platform
      BY <2>5, DueType
    <3> QED
      BY <1>1, <2>1, <2>5, <3>1, DueSame
  <2>7. SameRegisters(b, d)
    BY <1>2, <1>3, <2>6 DEF SameRegisters
  <2>8. ASSUME "input" \notin races, Undisturbed(input) PROVE b.input = d.input
    <3>1. CASE i.op = "load" /\ i.address = Uart.base
      <4>3. i.address \in InFlight(rob) \cap InputRegisters
        BY <2>2, <2>4, <3>1 DEF InFlight, InputRegisters, Ins
      <4>4. input = <<>>
        BY <2>8, <4>3 DEF Undisturbed
      <4>5. b.input = platform.input /\ q.input = refPlatform.input
        BY <1>2, <1>4, <4>4
      <4>6. d.input = o.input
        BY <1>1, <2>1, <2>5, <4>5, DueSame
      <4> QED
        BY <1>3, <2>8, <4>5, <4>6
    <3>2. CASE ~(i.op = "load" /\ i.address = Uart.base)
      <4>1. d.input = q.input /\ o.input = refPlatform.input
        BY <1>1, <2>1, <2>5, <3>2, DueInput
      <4> QED
        BY <1>2, <1>3, <2>8, <4>1
    <3> QED
      BY <3>1, <3>2
  <2> QED
    BY <2>6, <2>7, <2>8 DEF b
<1> QED
  BY <1>5, <1>6

\* The reference's devices after n lanes.
Replay(g, q, n) == IF n = 0 THEN q ELSE Due(q, Ins(g[0]))

\* A cycle in which the lanes pass and no trap is injected.
LEMMA CyclePassed ==
    ASSUME Types, scenario.difftest, NEW g, LinkedState(g), NEW input \in Seq(Byte),
           NEW bus \in Platform, NEW n \in 0..Len(rob), n <= 3, NEW exited,
           NEW lanes \in RetireLanes(HostStart(input, bus), SubSeq(rob, 1, n)),
           lanes.status = "running", NEW trap, trap.cause \notin {"interrupt", "fault"},
           HostEnd(lanes, bus, SubSeq(rob, 1, n), trap, exited)
    PROVE  /\ ref' = g[n] \/ (n = 0 /\ owed /\ Owing(ref', g[n]))
           /\ state'.architectural_state = ref'.regs
           /\ refPlatform' = Replay(g, HostStart(input, bus).spike.platform, n)
           /\ SameRegisters(platform', bus) /\ platform'.input = bus.input
           /\ platform'.mtime \in Time
           /\ status' \notin {"mismatch", "trap_failed"}
<1>0. PICK first : first = SubSeq(rob, 1, n)
  OBVIOUS
<1> DEFINE t == InjectTrap(lanes, trap)
           q == HostStart(input, bus).spike.platform
           c == [CountIdle(lanes.state, first, trap) EXCEPT !.next_cycle = @ + 1]
<1>1. /\ lanes \in Hosts /\ GoodHart(lanes.spike.hart)
      /\ lanes.state.architectural_state = lanes.spike.hart.regs
      /\ lanes.spike.hart = g[n] \/ (n = 0 /\ owed /\ Owing(lanes.spike.hart, g[n]))
      /\ lanes.spike.platform = Replay(g, q, n)
  BY CycleLanes DEF Replay
<1>2. /\ t.state = lanes.state /\ t.spike.platform = lanes.spike.platform
      /\ t.status = "running" /\ t.spike.hart = lanes.spike.hart
  <2>1. scenario \in Scenarios
    BY DEF Types
  <2> QED
    BY <1>1, <2>1, Injected
<1> HIDE DEF t
<1>3. /\ ref' = lanes.spike.hart /\ refPlatform' = lanes.spike.platform
      /\ state' = c /\ platform' = tick(bus) /\ status' = Outcome(c, exited)
  BY <1>0, <1>2 DEF HostEnd, t
<1>4. c.architectural_state = lanes.state.architectural_state
  <2>1. lanes.state \in StateType
    BY <1>1 DEF Hosts
  <2>2. PICK s : s = lanes.state
    OBVIOUS
  <2>3. c \in StateType /\ c.next_cycle = s.next_cycle + 1
        /\ c.architectural_state = s.architectural_state
    BY <2>1, <2>2, CycleCounted
  <2> QED
    BY <2>2, <2>3
<1>5. /\ tick(bus) \in Platform /\ SameRegisters(tick(bus), bus) /\ tick(bus).input = bus.input
  BY Ticked
<1>6. tick(bus).mtime \in Time
  BY <1>5 DEF Platform
<1>7. Outcome(c, exited) \notin {"mismatch", "trap_failed"}
  BY DEF Outcome
<1> HIDE DEF c, q
<1> QED
  BY <1>1, <1>3, <1>4, <1>5, <1>6, <1>7 DEF q

\* Path f and buffer go on where n instructions have retired.
Shifted(f, buffer, g, n) ==
    /\ \A k \in 0..(Len(rob) - n) : f[k] = g[n + k]
    /\ \A k \in 1..(Len(rob) - n) : buffer[k] = rob[n + k]

\* What stays in the reorder buffer is still a trace.
LEMMA RestLinked ==
    ASSUME rob \in Seq(Retirements), NEW g, Trace(g, rob), NEW n \in 0..Len(rob),
           NEW f, NEW buffer, Shifted(f, buffer, g, n)
    PROVE  /\ \A k \in 1..(Len(rob) - n) : Step(f[k - 1], buffer[k], f[k])
           /\ \A k \in 2..(Len(rob) - n) : buffer[k].op \notin {"load", "store"}
           /\ n < Len(rob) /\ n > 0 => buffer[1].op \notin {"load", "store"}
           /\ f[0] = g[n] /\ f[Len(rob) - n] = g[Len(rob)]
           /\ \A rc : Unmistaken(g, rob, rc) =>
                ("vector" \notin rc => \A k \in 1..(Len(rob) - n) : ~Trapped(f[k - 1], f[k]))
<1> DEFINE m == Len(rob)
<1>1. m \in Nat /\ n \in Nat /\ n <= m
  OBVIOUS
<1>2. ASSUME NEW k \in 1..(m - n)
      PROVE  f[k - 1] = g[(n + k) - 1] /\ buffer[k] = rob[n + k] /\ f[k] = g[n + k] /\ n + k \in 1..m
  <2>1. k - 1 \in 0..(m - n) /\ k \in 0..(m - n) /\ n + (k - 1) = (n + k) - 1 /\ n + k \in 1..m
    BY <1>1
  <2> QED
    BY <2>1 DEF Shifted
<1>3. \A k \in 1..(m - n) : Step(f[k - 1], buffer[k], f[k])
  BY <1>2 DEF Trace
<1>4. \A k \in 1..(m - n) : k >= 2 \/ n > 0 => buffer[k].op \notin {"load", "store"}
  <2> TAKE k \in 1..(m - n)
  <2>1. k >= 2 \/ n > 0 => n + k \in 2..m
    BY <1>1
  <2> QED
    BY <1>2, <2>1 DEF Trace
<1>5. f[0] = g[n] /\ f[m - n] = g[m]
  <2>1. 0 \in 0..(m - n) /\ m - n \in 0..(m - n) /\ n + 0 = n /\ n + (m - n) = m
    BY <1>1
  <2> QED
    BY <2>1 DEF Shifted
<1>6. ASSUME NEW rc, Unmistaken(g, rob, rc), "vector" \notin rc, NEW k \in 1..(m - n)
      PROVE  ~Trapped(f[k - 1], f[k])
  <2>1. ~Trapped(g[(n + k) - 1], g[n + k])
    BY <1>2, <1>6 DEF Unmistaken
  <2> QED
    BY <1>2, <2>1
<1> QED
  BY <1>1, <1>3, <1>4, <1>5, <1>6

\* The instruction that is now the oldest one.
LEMMA HeadLinked ==
    ASSUME Types, NEW g, LinkedState(g), NEW n \in 0..Len(rob), n < Len(rob), NEW q
    PROVE  /\ Due(Replay(g, q, n), Ins(g[n])) = DuePlatform(g, rob, q)
           /\ Ins(g[n]).op = "load" => n = 0
<1>1. scenario \in Scenarios /\ rob \in Seq(Retirements) /\ Trace(g, rob)
  BY DEF Types, LinkedState, LinkedTo, Linked
<1>2. n + 1 \in 1..Len(rob) /\ (n + 1) - 1 = n /\ rob # <<>> /\ (n # 0 => n + 1 \in 2..Len(rob))
  BY <1>1
<1>3. Step(g[n], rob[n + 1], g[n + 1])
  BY <1>1, <1>2 DEF Trace
<1>4. rob[n + 1].op = Ins(g[n]).op
  BY <1>1, <1>3, StepRecord
<1>5. n # 0 => Ins(g[n]).op \notin {"load", "store"}
  BY <1>1, <1>2, <1>4 DEF Trace
<1> QED
  BY <1>2, <1>5 DEF Due, Replay, DuePlatform

\* A load that stays in flight.
LEMMA StaysRight ==
    ASSUME Types, NEW g, LinkedState(g), NEW input \in Seq(Byte), NEW t \in Time,
           NEW q \in Platform, SameRegisters(q, refPlatform),
           q.input = refPlatform.input \o input,
           rob # <<>>, Ins(g[0]).op = "load", races = {}, Undisturbed(input),
           SameTimeRead(rob, platform.mtime, t)
    PROVE  rob[1].value = readByte(setTime(q, t), Ins(g[0]).address).value
<1> DEFINE s == setTime(q, t)
<1>1. s \in Platform /\ s.mtime = t /\ SameRegisters(s, q) /\ s.input = q.input
  BY TimeSet
<1> HIDE DEF s
<1>2. SameRegisters(s, refPlatform) /\ s.input = refPlatform.input \o input
  BY <1>1 DEF SameRegisters
<1>3. rob[1].value = readByte(s, Ins(g[0]).address).value
  BY <1>1, <1>2, StillRight
<1> QED
  BY <1>3 DEF s

\* What a cycle without a new race says.
LEMMA RaceFree ==
    ASSUME Types, NEW input, NEW retiring, NEW trap, Observe(input, retiring, trap)
    PROVE  /\ races \subseteq races'
           /\ "input" \notin races' => Undisturbed(input)
           /\ races' = {} => SameTimeRead(rob', platform.mtime, platform'.mtime)
           /\ races' = {} /\ owed /\ retiring = <<>> => trap.cause \notin {"interrupt", "fault"}
           /\ "vector" \notin races' /\ trap = NoTrap /\ core' # core => ~Trapped(core, core')
<1>1. races' = races \cup Racing(input, retiring, trap)
  BY DEF Observe
<1>2. "input" \notin races' => Undisturbed(input)
  BY <1>1 DEF Racing, Races, Undisturbed
<1>3. "time" \notin races' => SameTimeRead(rob', platform.mtime, platform'.mtime)
  BY <1>1 DEF Racing, Races
<1>4. "trap" \notin races' /\ owed /\ retiring = <<>> => trap.cause \notin {"interrupt", "fault"}
  BY <1>1 DEF Racing, Races
<1>5. "vector" \notin races' /\ trap = NoTrap /\ core' # core => ~Trapped(core, core')
  BY <1>1 DEF Racing, Races
<1> QED
  BY <1>1, <1>2, <1>3, <1>4, <1>5

\* Nothing is executed: the core waits or hangs.
LEMMA IdlesLinked ==
    ASSUME Types, scenario.difftest, NEW g, LinkedState(g), NEW input \in Seq(Byte),
           NEW n \in 0..Len(rob), n <= 3, NEW exited,
           NEW lanes \in RetireLanes(HostStart(input, appendUartInput(platform, input)),
                                     SubSeq(rob, 1, n)),
           lanes.status = "running",
           HostEnd(lanes, appendUartInput(platform, input), SubSeq(rob, 1, n), NoTrap, exited),
           Observe(input, SubSeq(rob, 1, n), NoTrap),
           rob' = SubSeq(rob, n + 1, Len(rob)), core' = core
    PROVE  \E f : LinkedTo(f, state', ref', rob', core', owed', platform', refPlatform', races')
<1> DEFINE b == appendUartInput(platform, input)
           q == HostStart(input, b).spike.platform
           m == Len(rob)
           f == [k \in 0..(m - n) |-> g[n + k]]
           first == SubSeq(rob, 1, n)
<1>1. scenario \in Scenarios /\ rob \in Seq(Retirements) /\ platform \in Platform
  BY DEF Types
<1>2. b \in Platform
  BY <1>1, InputAppended
<1> HIDE DEF b
<1>3. /\ q \in Platform /\ SameRegisters(q, refPlatform)
      /\ q.input = refPlatform.input \o input
  BY <1>2, HostStartType
<1>4. /\ ref' = g[n] \/ (n = 0 /\ owed /\ Owing(ref', g[n]))
      /\ state'.architectural_state = ref'.regs
      /\ refPlatform' = Replay(g, q, n)
      /\ SameRegisters(platform', b) /\ platform'.input = b.input
      /\ platform'.mtime \in Time
  <2>1. NoTrap.cause \notin {"interrupt", "fault"}
    BY DEF NoTrap
  <2> QED
    BY <1>2, <2>1, CyclePassed DEF b
<1> HIDE DEF q
<1>5. /\ Trace(g, rob) /\ g[m] = core /\ Unmistaken(g, rob, races)
  BY DEF LinkedState, LinkedTo, Linked
<1>6. /\ Len(first) = n /\ rob' \in Seq(Retirements) /\ Len(rob') = m - n
      /\ \A k \in 1..(m - n) : rob'[k] = rob[n + k]
  BY <1>1, <1>5, FirstLinked
<1>7. Shifted(f, rob', g, n)
  BY <1>6 DEF Shifted
<1>8. m \in Nat /\ n \in Nat /\ n <= m /\ m - n \in Nat
  BY <1>1
<1> HIDE DEF f, m
<1>9. /\ \A k \in 1..(m - n) : Step(f[k - 1], rob'[k], f[k])
      /\ \A k \in 2..(m - n) : rob'[k].op \notin {"load", "store"}
      /\ f[0] = g[n] /\ f[m - n] = g[m]
      /\ "vector" \notin races => \A k \in 1..(m - n) : ~Trapped(f[k - 1], f[k])
  <2>1. PICK buffer : buffer = rob'
    OBVIOUS
  <2>2. Shifted(f, buffer, g, n)
    BY <1>7, <2>1
  <2>3. /\ \A k \in 1..(m - n) : Step(f[k - 1], buffer[k], f[k])
        /\ \A k \in 2..(m - n) : buffer[k].op \notin {"load", "store"}
        /\ f[0] = g[n] /\ f[m - n] = g[m]
        /\ \A rc : Unmistaken(g, rob, rc) =>
             ("vector" \notin rc => \A k \in 1..(m - n) : ~Trapped(f[k - 1], f[k]))
    BY <1>1, <1>5, <2>2, RestLinked DEF m
  <2> QED
    BY <1>5, <2>1, <2>3
<1>10. Linked(f, rob', core')
  BY <1>5, <1>6, <1>8, <1>9 DEF Linked, Trace
<1>11. /\ races \subseteq races'
       /\ "input" \notin races' => Undisturbed(input)
       /\ races' = {} => SameTimeRead(rob', platform.mtime, platform'.mtime)
  BY RaceFree
<1>12. Unmistaken(f, rob', races')
  BY <1>6, <1>9, <1>11 DEF Unmistaken
<1>13. ref' = f[0] \/ (owed' /\ Owing(ref', f[0]))
  <2>1. n = 0 /\ owed => owed'
    <3>1. n = 0 => first = <<>>
      BY <1>1
    <3> QED
      BY <3>1 DEF Observe
  <2> QED
    BY <1>4, <1>9, <2>1
<1>14. DuePlatform(f, rob', refPlatform') = DuePlatform(g, rob, q)
  <2>1. CASE n = m
    <3>1. rob' = <<>> /\ (n = 0 <=> rob = <<>>)
      BY <1>1, <1>6, <2>1 DEF m
    <3> QED
      BY <1>4, <3>1 DEF DuePlatform, Replay
  <2>2. CASE n < m
    <3>1. rob' # <<>>
      <4>1. Len(rob') # 0
        BY <1>6, <1>8, <2>2
      <4> QED
        BY <4>1
    <3>2. Due(Replay(g, q, n), Ins(g[n])) = DuePlatform(g, rob, q)
      BY <2>2, HeadLinked DEF m
    <3> QED
      BY <1>4, <1>9, <3>1, <3>2 DEF DuePlatform
  <2> QED
    BY <1>8, <2>1, <2>2
<1>15. Agree(f, rob', platform', refPlatform', races')
  <2>1. /\ SameRegisters(b, DuePlatform(g, rob, q))
        /\ "input" \notin races /\ Undisturbed(input) => b.input = DuePlatform(g, rob, q).input
    BY <1>3, DevicesMove DEF b
  <2>2. SameRegisters(platform', DuePlatform(g, rob, q))
    BY <1>4, <2>1 DEF SameRegisters
  <2> QED
    BY <1>4, <1>11, <1>14, <2>1, <2>2 DEF Agree
<1>16. LoadRight(f, rob', platform', refPlatform', races')
  <2> SUFFICES ASSUME rob' # <<>>, Ins(f[0]).op = "load", races' = {}
               PROVE  rob'[1].value =
                        readByte(setTime(refPlatform', platform'.mtime), Ins(f[0]).address).value
    BY DEF LoadRight
  <2>1. n < m
    BY <1>6, <1>8
  <2>2. n = 0 /\ f[0] = g[0]
    BY <1>9, <2>1, HeadLinked DEF m
  <2>3. rob' = rob /\ rob # <<>>
    BY <1>1, <2>1, <2>2 DEF m
  <2>4. refPlatform' = q
    BY <1>4, <2>2 DEF Replay
  <2>5. races = {} /\ Undisturbed(input) /\ SameTimeRead(rob, platform.mtime, platform'.mtime)
    BY <1>11, <2>3
  <2>6. PICK t : t = platform'.mtime
    OBVIOUS
  <2>7. rob[1].value = readByte(setTime(q, t), Ins(g[0]).address).value
    BY <1>3, <1>4, <2>2, <2>3, <2>5, <2>6, StaysRight
  <2> QED
    BY <2>2, <2>3, <2>4, <2>6, <2>7
<1> QED
  BY <1>4, <1>10, <1>12, <1>13, <1>15, <1>16 DEF LinkedTo

\* The core executes the next instruction.
LEMMA ExecutesLinked ==
    ASSUME Types, scenario.difftest, NEW g, LinkedState(g), NEW input \in Seq(Byte),
           NEW n \in 0..Len(rob), n <= 3, NEW exited,
           Ins(core).op # "ecall", Ins(core).op \in {"load", "store"} => rob = <<>>,
           NEW r \in CoreResults(core, appendUartInput(platform, input)),
           NEW lanes \in RetireLanes(HostStart(input, r.platform), SubSeq(rob, 1, n)),
           lanes.status = "running",
           HostEnd(lanes, r.platform, SubSeq(rob, 1, n), NoTrap, exited),
           Observe(input, SubSeq(rob, 1, n), NoTrap), core' = Execute(core, r.value),
           rob' = Append(SubSeq(rob, n + 1, Len(rob)), Retirement(core, r.value))
    PROVE  \E f : LinkedTo(f, state', ref', rob', core', owed', platform', refPlatform', races')
<1> DEFINE b == appendUartInput(platform, input)
           i == Ins(core)
           bus == r.platform
           q == HostStart(input, bus).spike.platform
           m == Len(rob)
           l == m - n
           e == Execute(core, r.value)
           last == Retirement(core, r.value)
           f == [k \in 0..(l + 1) |-> IF k <= l THEN g[n + k] ELSE e]
           first == SubSeq(rob, 1, n)
           rest == SubSeq(rob, n + 1, m)
<1>1. scenario \in Scenarios /\ rob \in Seq(Retirements) /\ platform \in Platform /\ GoodHart(core)
  BY DEF Types
<1>2. b \in Platform /\ b.mtime = platform.mtime
  BY <1>1, InputAppended
<1>3. /\ r.value \in Byte /\ bus = Due(b, i) /\ bus \in Platform
      /\ i.op = "load" => r.value = readByte(b, i.address).value
      /\ Step(core, last, e)
  BY <1>1, <1>2, CoreResult
<1>4. last \in Retirements /\ last.op = i.op /\ last.value = r.value /\ last.pc = core.pc
      /\ GoodHart(e) /\ i \in Instruction /\ i.address \in Nat
  <2>1. last.value = r.value
    BY DEF Retirement
  <2> HIDE DEF last, e, i
  <2>2. last \in Retirements /\ last.op = Ins(core).op /\ last.pc = core.pc /\ GoodHart(e)
    BY <1>1, <1>3, StepRecord
  <2> QED
    BY <1>1, <2>1, <2>2, Fetched DEF i
<1> HIDE DEF b
<1>5. /\ q \in Platform /\ SameRegisters(q, refPlatform)
      /\ q.input = refPlatform.input \o input
  BY <1>3, HostStartType
<1>6. /\ ref' = g[n] \/ (n = 0 /\ owed /\ Owing(ref', g[n]))
      /\ state'.architectural_state = ref'.regs
      /\ refPlatform' = Replay(g, q, n)
      /\ SameRegisters(platform', bus) /\ platform'.input = bus.input
      /\ platform'.mtime \in Time
  <2>1. NoTrap.cause \notin {"interrupt", "fault"}
    BY DEF NoTrap
  <2> QED
    BY <1>3, <2>1, CyclePassed
<1> HIDE DEF q, bus, last, e, i
<1>7. /\ Trace(g, rob) /\ g[m] = core /\ Unmistaken(g, rob, races)
  BY DEF LinkedState, LinkedTo, Linked
<1>8. /\ Len(first) = n /\ rest \in Seq(Retirements) /\ Len(rest) = l
      /\ \A k \in 1..l : rest[k] = rob[n + k]
  BY <1>1, <1>7, FirstLinked
<1>9. m \in Nat /\ n \in Nat /\ n <= m /\ l \in Nat /\ 1 \in 1..(l + 1)
  BY <1>1
<1>10. /\ rob' = Append(rest, last) /\ core' = e
  BY DEF last, e
<1> HIDE DEF rest
<1>11. /\ Len(rob') = l + 1 /\ rob'[l + 1] = last /\ \A k \in 1..l : rob'[k] = rob[n + k]
       /\ DOMAIN rob' = 1..(l + 1) /\ rob' # <<>>
  BY <1>4, <1>8, <1>9, <1>10
<1>12. f[l + 1] = e /\ \A k \in 0..l : f[k] = g[n + k]
  BY <1>9
<1>13. Shifted(f, rob', g, n)
  BY <1>11, <1>12 DEF Shifted
<1> HIDE DEF f, m, l
<1>14. /\ \A k \in 1..l : Step(f[k - 1], rob'[k], f[k])
       /\ \A k \in 2..l : rob'[k].op \notin {"load", "store"}
       /\ f[0] = g[n] /\ f[l] = core
       /\ "vector" \notin races => \A k \in 1..l : ~Trapped(f[k - 1], f[k])
  <2>1. PICK buffer : buffer = rob'
    OBVIOUS
  <2>2. Shifted(f, buffer, g, n)
    BY <1>13, <2>1
  <2>3. /\ \A k \in 1..l : Step(f[k - 1], buffer[k], f[k])
        /\ \A k \in 2..l : buffer[k].op \notin {"load", "store"}
        /\ f[0] = g[n] /\ f[l] = g[m]
        /\ \A rc : Unmistaken(g, rob, rc) =>
             ("vector" \notin rc => \A k \in 1..l : ~Trapped(f[k - 1], f[k]))
    BY <1>1, <1>7, <2>2, RestLinked DEF m, l
  <2> QED
    BY <1>7, <2>1, <2>3
<1>15. l = 0 \/ i.op \notin {"load", "store"}
  <2>1. rob = <<>> => l = 0
    BY <1>9 DEF l, m
  <2> QED
    BY <2>1 DEF i
<1>16. Linked(f, rob', core')
  <2>1. \A k \in 1..(l + 1) : k \in 1..l \/ k = l + 1
    BY <1>9
  <2>2. (l + 1) - 1 = l
    BY <1>9
  <2>3. \A k \in 1..(l + 1) : Step(f[k - 1], rob'[k], f[k])
    BY <1>3, <1>11, <1>12, <1>14, <2>1, <2>2
  <2>4. \A k \in 2..(l + 1) : rob'[k].op \notin {"load", "store"}
    <3> TAKE k \in 2..(l + 1)
    <3>1. CASE k = l + 1
      BY <1>4, <1>9, <1>11, <1>15, <3>1
    <3>2. CASE k # l + 1
      <4>1. k \in 2..l
        BY <1>9, <3>2
      <4> QED
        BY <1>14, <4>1
    <3> QED
      BY <3>1, <3>2
  <2>5. PICK buffer : buffer = rob'
    OBVIOUS
  <2>6. Len(buffer) = l + 1 /\ l + 1 \in Nat
    BY <1>9, <1>11, <2>5
  <2>7. Trace(f, buffer)
    BY <2>3, <2>4, <2>5, <2>6 DEF Trace
  <2> QED
    BY <1>10, <1>12, <2>5, <2>6, <2>7 DEF Linked
<1>17. /\ races \subseteq races'
       /\ "input" \notin races' => Undisturbed(input)
       /\ races' = {} => SameTimeRead(rob', platform.mtime, platform'.mtime)
       /\ "vector" \notin races' /\ core' # core => ~Trapped(core, core')
  BY RaceFree
<1>18. Unmistaken(f, rob', races')
  <2> SUFFICES ASSUME "vector" \notin races', NEW k \in 1..(l + 1)
               PROVE  ~Trapped(f[k - 1], f[k])
    BY <1>11 DEF Unmistaken
  <2>1. CASE k \in 1..l
    BY <1>14, <1>17, <2>1
  <2>2. CASE k = l + 1
    <3>1. f[k - 1] = core /\ f[k] = core'
      BY <1>9, <1>10, <1>12, <1>14, <2>2
    <3>2. core' = core => ~Trapped(core, core)
      <4> SUFFICES ASSUME core' = core, Trapped(core, core) PROVE FALSE
        OBVIOUS
      <4>1. core.pc \in {Stvec, Mtvec}
        BY DEF Trapped
      <4>2. core.pc = NextPc(core)
        <5>1. PICK v \in Byte : v = r.value
          BY <1>3
        <5>2. Execute(core, v) = [pc |-> NextPc(core), mode |-> NextMode(core),
                                  regs |-> NextRegs(core, v), sepc |-> core.sepc,
                                  spp |-> core.spp, mepc |-> core.mepc, mpp |-> core.mpp]
          BY <1>1, Executed
        <5>3. Execute(core, v).pc = NextPc(core)
          BY <5>2
        <5>4. core = Execute(core, v)
          BY <1>10, <5>1 DEF e
        <5> QED
          BY <5>3, <5>4
      <4> QED
        BY <1>1, <4>1, <4>2, HandlerGoesOn
    <3> QED
      BY <1>17, <3>1, <3>2
  <2> QED
    BY <1>9, <2>1, <2>2
<1>19. ref' = f[0] \/ (owed' /\ Owing(ref', f[0]))
  <2>1. n = 0 /\ owed => owed'
    <3>1. n = 0 => first = <<>>
      BY <1>1
    <3> QED
      BY <3>1 DEF Observe
  <2> QED
    BY <1>6, <1>14, <2>1
<1>20. /\ DuePlatform(g, rob, q) \in Platform /\ SameRegisters(b, DuePlatform(g, rob, q))
       /\ "input" \notin races /\ Undisturbed(input) => b.input = DuePlatform(g, rob, q).input
  BY <1>5, DevicesMove DEF b
<1>21. CASE l # 0
  <2>1. n < m /\ i.op \notin {"load", "store"}
    BY <1>9, <1>15, <1>21 DEF l
  <2>2. bus = b
    BY <1>3, <2>1 DEF Due
  <2>3. DuePlatform(f, rob', refPlatform') = DuePlatform(g, rob, q)
    <3>1. Due(Replay(g, q, n), Ins(g[n])) = DuePlatform(g, rob, q)
      BY <2>1, HeadLinked DEF m
    <3> QED
      BY <1>6, <1>11, <1>14, <3>1 DEF DuePlatform
  <2>4. Agree(f, rob', platform', refPlatform', races')
    <3>1. SameRegisters(platform', DuePlatform(g, rob, q))
      BY <1>6, <1>20, <2>2 DEF SameRegisters
    <3> QED
      BY <1>6, <1>17, <1>20, <2>2, <2>3, <3>1 DEF Agree
  <2>5. LoadRight(f, rob', platform', refPlatform', races')
    <3> SUFFICES ASSUME Ins(f[0]).op = "load", races' = {}
                 PROVE  rob'[1].value =
                          readByte(setTime(refPlatform', platform'.mtime), Ins(f[0]).address).value
      BY DEF LoadRight
    <3>1. n = 0 /\ f[0] = g[0]
      BY <1>14, <2>1, HeadLinked DEF m
    <3>2. rob'[1] = rob[1] /\ rob # <<>> /\ \A k \in DOMAIN rob : rob'[k] = rob[k] /\ k \in DOMAIN rob'
      <4>1. DOMAIN rob = 1..l /\ rob # <<>>
        BY <1>1, <1>9, <1>21, <3>1 DEF l, m
      <4>2. \A k \in 1..l : rob'[k] = rob[k] /\ k \in 1..(l + 1)
        BY <1>9, <1>11, <3>1
      <4>3. 1 \in 1..l
        BY <1>9, <1>21
      <4> QED
        BY <1>11, <4>1, <4>2, <4>3
    <3>3. SameTimeRead(rob', platform.mtime, platform'.mtime) => SameTimeRead(rob, platform.mtime, platform'.mtime)
      <4>1. ASSUME NEW address \in InFlight(rob)
            PROVE  address \in InFlight(rob')
        <5>1. PICK k \in DOMAIN rob : rob[k].op = "load" /\ address = scenario.program[rob[k].pc].address
          BY <4>1 DEF InFlight
        <5>2. rob'[k] = rob[k] /\ k \in DOMAIN rob'
          BY <3>2, <5>1
        <5> QED
          BY <1>6, <5>1, <5>2 DEF InFlight
      <4> QED
        BY <4>1 DEF SameTimeRead
    <3>4. refPlatform' = q
      BY <1>6, <3>1 DEF Replay
    <3>5. races = {} /\ Undisturbed(input) /\ SameTimeRead(rob, platform.mtime, platform'.mtime)
      BY <1>17, <3>3
    <3>6. PICK t : t = platform'.mtime
      OBVIOUS
    <3>7. rob[1].value = readByte(setTime(q, t), Ins(g[0]).address).value
      <4>1. t \in Time /\ Ins(g[0]).op = "load" /\ rob # <<>>
            /\ SameTimeRead(rob, platform.mtime, t)
        BY <1>6, <3>1, <3>2, <3>5, <3>6
      <4> QED
        BY <1>5, <3>5, <4>1, StaysRight
    <3> QED
      BY <3>1, <3>2, <3>4, <3>6, <3>7
  <2> QED
    BY <1>6, <1>16, <1>18, <1>19, <2>4, <2>5 DEF LinkedTo
<1>22. CASE l = 0
  <2>1. n = m /\ f[0] = core /\ rob'[1] = last
    <3>1. l + 1 = 1 /\ n = m
      BY <1>9, <1>22 DEF l
    <3>2. rob'[1] = last /\ f[0] = core
      BY <1>11, <1>14, <1>22, <3>1
    <3> QED
      BY <3>1, <3>2
  <2>2. refPlatform' = DuePlatform(g, rob, q)
    <3>1. n = 0 <=> rob = <<>>
      BY <1>1, <2>1 DEF m
    <3> QED
      BY <1>6, <3>1 DEF DuePlatform, Replay
  <2>3. DuePlatform(f, rob', refPlatform') = Due(DuePlatform(g, rob, q), i)
    BY <1>11, <2>1, <2>2 DEF DuePlatform, i
  <2> DEFINE d == DuePlatform(g, rob, q)
  <2> HIDE DEF d
  <2>4. /\ d \in Platform /\ SameRegisters(b, d)
        /\ "input" \notin races /\ Undisturbed(input) => b.input = d.input
    BY <1>20 DEF d
  <2>5. Agree(f, rob', platform', refPlatform', races')
    <3>1. /\ SameRegisters(Due(b, i), Due(d, i))
          /\ b.input = d.input => Due(b, i).input = Due(d, i).input
      BY <1>2, <1>4, <2>4, DueSame DEF b
    <3>2. SameRegisters(platform', Due(d, i))
      BY <1>3, <1>6, <3>1 DEF SameRegisters
    <3>3. "input" \notin races' => platform'.input = Due(d, i).input
      BY <1>3, <1>6, <1>17, <2>4, <3>1
    <3> QED
      BY <2>3, <3>2, <3>3 DEF Agree, d
  <2>6. LoadRight(f, rob', platform', refPlatform', races')
    <3> SUFFICES ASSUME i.op = "load", races' = {}
                 PROVE  rob'[1].value =
                          readByte(setTime(refPlatform', platform'.mtime), i.address).value
      BY <2>1 DEF LoadRight, i
    <3>1. PICK t : t = platform'.mtime
      OBVIOUS
    <3> DEFINE s == setTime(d, t)
    <3>2. s \in Platform /\ s.mtime = t /\ SameRegisters(s, d) /\ s.input = d.input
      BY <1>6, <2>4, <3>1, TimeSet
    <3>3. isDevice(i.address, 1)
      BY <1>1, Code DEF GoodHart, Ins, i
    <3>4. InClint(i.address) /\ MtimeByte(i.address) \in TimerBytes =>
            ByteOf(b.mtime, MtimeByte(i.address)) = ByteOf(t, MtimeByte(i.address))
      <4>1. i.address \in InFlight(rob')
        <5>1. 1 \in DOMAIN rob' /\ rob'[1].op = "load" /\ scenario.program[rob'[1].pc] = i
          BY <1>4, <1>9, <1>11, <2>1 DEF Ins, i
        <5> QED
          BY <5>1 DEF InFlight
      <4> QED
        BY <1>2, <1>17, <3>1, <4>1 DEF b, SameTimeRead
    <3> HIDE DEF s
    <3>5. SameRegisters(b, s) /\ b.input = s.input
      BY <1>17, <2>4, <3>2 DEF SameRegisters
    <3>6. readByte(b, i.address).value = readByte(s, i.address).value
      BY <1>2, <1>4, <3>2, <3>4, <3>5, ReadValue DEF b
    <3>7. refPlatform' = d
      BY <2>2 DEF d
    <3> QED
      BY <1>3, <1>4, <2>1, <3>1, <3>6, <3>7 DEF s
  <2> QED
    BY <1>6, <1>16, <1>18, <1>19, <2>5, <2>6 DEF LinkedTo
<1> QED
  BY <1>21, <1>22

\* The core traps after all instructions that it has executed.
LEMMA TrapsLinked ==
    ASSUME Types, scenario.difftest, NEW g, LinkedState(g), NEW input \in Seq(Byte),
           Len(rob) <= 3, NEW exited, NEW cause \in {"interrupt", "fault", "ecall"},
           cause = "interrupt" => core.mode # "M",
           cause = "ecall" => Ins(core).op = "ecall",
           NEW trap, trap = [cause |-> cause, epc |-> core.pc, target |-> TrapTarget(core, cause)],
           NEW lanes \in RetireLanes(HostStart(input, appendUartInput(platform, input)), rob),
           lanes.status = "running",
           HostEnd(lanes, appendUartInput(platform, input), rob, trap, exited),
           Observe(input, rob, trap), core' = TrapInto(core, TrapTarget(core, cause)), rob' = <<>>
    PROVE  /\ status' = "running" =>
                \E f : LinkedTo(f, state', ref', rob', core', owed', platform', refPlatform', races')
           /\ races' = {} => status' \notin {"mismatch", "trap_failed"}
<1> DEFINE b == appendUartInput(platform, input)
           q == HostStart(input, b).spike.platform
           m == Len(rob)
           h == lanes.spike.hart
           t == InjectTrap(lanes, trap)
           c == [CountIdle(lanes.state, rob, trap) EXCEPT !.next_cycle = @ + 1]
           target == TrapTarget(core, cause)
           f == [k \in {0} |-> core']
<1>1. scenario \in Scenarios /\ rob \in Seq(Retirements) /\ platform \in Platform /\ GoodHart(core)
  BY DEF Types
<1>2. b \in Platform /\ m \in 0..Len(rob) /\ SubSeq(rob, 1, m) = rob
  BY <1>1, InputAppended
<1>3. g[m] = core
  BY DEF LinkedState, LinkedTo, Linked
<1> HIDE DEF b
<1>4. /\ q \in Platform /\ SameRegisters(q, refPlatform)
      /\ q.input = refPlatform.input \o input
  BY <1>2, HostStartType
<1>5. /\ lanes \in Hosts /\ GoodHart(h)
      /\ lanes.state.architectural_state = h.regs
      /\ h = core \/ (m = 0 /\ owed /\ Owing(h, core))
      /\ lanes.spike.platform = Replay(g, q, m)
  <2>1. lanes \in RetireLanes(HostStart(input, b), SubSeq(rob, 1, m))
    BY <1>2 DEF b
  <2> QED
    BY <1>2, <1>3, <2>1, CycleLanes DEF Replay
<1>6. trap.cause = cause /\ trap.epc = core.pc /\ trap.target = target
  OBVIOUS
<1>7. /\ t.state = lanes.state /\ t.spike.platform = lanes.spike.platform
      /\ cause = "ecall" => t.status = "running" /\ t.spike.hart = h
      /\ cause = "interrupt" =>
           IF h.pc = core.pc /\ h.mode # "M"
           THEN t.status = "running" /\ t.spike.hart = TrapInto(h, "M")
           ELSE t.status = "trap_failed"
      /\ cause = "fault" =>
           IF h.pc = core.pc /\ target = TrapTarget(h, "fault")
           THEN t.status = "running" /\ t.spike.hart = TrapInto(h, target)
           ELSE t.status = "trap_failed"
  BY <1>1, <1>5, <1>6, Injected
<1>8. /\ ref' = t.spike.hart /\ refPlatform' = t.spike.platform
      /\ state' = IF t.status = "running" THEN c ELSE lanes.state
      /\ status' = IF t.status = "running" THEN Outcome(c, exited) ELSE t.status
      /\ platform' = IF t.status = "running" THEN tick(b) ELSE b
  BY <1>7 DEF HostEnd, b
<1>9. c.architectural_state = lanes.state.architectural_state
  <2>1. PICK s : s = lanes.state
    OBVIOUS
  <2>2. s \in StateType
    BY <1>5, <2>1 DEF Hosts
  <2>3. c \in StateType /\ c.next_cycle = s.next_cycle + 1
        /\ c.architectural_state = s.architectural_state
    BY <2>1, <2>2, CycleCounted
  <2> QED
    BY <2>1, <2>3
<1>10. Outcome(c, exited) \notin {"mismatch", "trap_failed"}
  BY DEF Outcome
<1> HIDE DEF t, c, q, target
<1>11. core' = TrapInto(core, target) /\ target \in {"S", "M"}
       /\ (cause = "interrupt" => target = "M")
  BY TargetMode DEF target, TrapTarget
<1>12. GoodHart(core') /\ core'.regs = core.regs
  BY <1>1, <1>11, TrapEntry
<1>13. /\ races \subseteq races' /\ ("input" \notin races' => Undisturbed(input))
       /\ races' = {} /\ owed /\ rob = <<>> => cause \notin {"interrupt", "fault"}
  BY <1>6, RaceFree
<1>14. CASE h = core
  <2>1. t.status = "running"
    BY <1>7, <1>14 DEF target
  <2>2. /\ ref' = core' \/ (owed' /\ Owing(ref', core'))
        /\ ref'.regs = core.regs
    <3>1. CASE cause = "ecall"
      <4>1. ref' = core /\ Ins(core).op = "ecall" /\ owed'
        BY <1>6, <1>7, <1>8, <1>14, <3>1 DEF Observe
      <4> QED
        BY <1>11, <3>1, <4>1 DEF Owing, target
    <3>2. CASE cause # "ecall"
      <4>1. ref' = core'
        BY <1>7, <1>8, <1>11, <1>14, <2>1, <3>2
      <4> QED
        BY <1>12, <4>1
    <3> QED
      BY <3>1, <3>2
  <2>3. state'.architectural_state = ref'.regs
    BY <1>5, <1>8, <1>9, <1>14, <2>1, <2>2
  <2>4. f[0] = core' /\ Len(rob') = 0
    OBVIOUS
  <2> HIDE DEF f
  <2>5. Linked(f, rob', core') /\ Unmistaken(f, rob', races')
    BY <2>4 DEF Linked, Trace, Unmistaken
  <2>6. Agree(f, rob', platform', refPlatform', races')
    <3>1. refPlatform' = DuePlatform(g, rob, q)
      <4>1. m = 0 <=> rob = <<>>
        BY <1>1
      <4> QED
        BY <1>5, <1>7, <1>8, <4>1 DEF DuePlatform, Replay
    <3>2. /\ SameRegisters(b, DuePlatform(g, rob, q))
          /\ "input" \notin races /\ Undisturbed(input) => b.input = DuePlatform(g, rob, q).input
      BY <1>4, DevicesMove DEF b
    <3>3. SameRegisters(platform', b) /\ platform'.input = b.input
      BY <1>2, <1>8, <2>1, Ticked
    <3>4. SameRegisters(platform', DuePlatform(g, rob, q))
      BY <3>2, <3>3 DEF SameRegisters
    <3>5. DuePlatform(f, rob', refPlatform') = refPlatform'
      BY DEF DuePlatform
    <3> QED
      BY <1>13, <3>1, <3>2, <3>3, <3>4, <3>5 DEF Agree
  <2>7. LoadRight(f, rob', platform', refPlatform', races')
    BY DEF LoadRight
  <2>8. LinkedTo(f, state', ref', rob', core', owed', platform', refPlatform', races')
    BY <2>2, <2>3, <2>4, <2>5, <2>6, <2>7 DEF LinkedTo
  <2> QED
    BY <1>8, <1>10, <2>1, <2>8
<1>15. CASE h # core
  <2>1. m = 0 /\ owed /\ Owing(h, core)
    BY <1>5, <1>15
  <2>2. core.pc \in {Stvec, Mtvec}
    BY <1>1, <1>5, <2>1, TrapEntry, TargetMode DEF Owing
  <2>3. cause # "ecall" /\ Ins(core).op # "ecall"
    BY <1>1, <2>2, HandlerGoesOn
  <2>4. h.pc # core.pc
    BY <2>1, <2>3 DEF Owing, Ins
  <2>5. t.status = "trap_failed"
    BY <1>7, <2>3, <2>4
  <2>6. rob = <<>>
    BY <1>1, <2>1
  <2> QED
    BY <1>8, <1>13, <2>1, <2>3, <2>5, <2>6
<1> QED
  BY <1>14, <1>15

(***************************************************************************)
(* The invariant is inductive                                              *)
(***************************************************************************)

\* What an action shows of its cycle beside a reference.
Relinks(input, bus, n, trap, exited) ==
    \A g : LinkedState(g) =>
      \A lanes \in RetireLanes(HostStart(input, bus), SubSeq(rob, 1, n)) :
        lanes.status = "running" /\ HostEnd(lanes, bus, SubSeq(rob, 1, n), trap, exited) =>
          /\ status' = "running" =>
               \E f : LinkedTo(f, state', ref', rob', core', owed', platform', refPlatform', races')
          /\ races' = {} => status' \notin {"mismatch", "trap_failed"}

\* A cycle keeps the invariant, whatever the core does in it.
LEMMA Cycle ==
    ASSUME IInv, status = "running", scenario' = scenario,
           NEW input \in Seq(Byte), NEW bus \in Platform, NEW n \in 0..Len(rob), n <= 3,
           n > 0 => bus.mtime = platform.mtime, NEW trap, NEW exited,
           Host(input, bus, SubSeq(rob, 1, n), trap, exited),
           Observe(input, SubSeq(rob, 1, n), trap),
           GoodHart(core'), rob' \in Seq(Retirements), Len(rob') <= RobSize, draining' \in BOOLEAN,
           scenario.difftest => Relinks(input, bus, n, trap, exited)
    PROVE  IInv'
<1> DEFINE first == SubSeq(rob, 1, n)
           start == HostStart(input, bus)
           q == start.spike.platform
<1>1. /\ Types /\ Counters(state, TRUE) /\ Watched(state, sleeping, hung)
      /\ scenario.difftest => \E g : LinkedState(g)
  BY DEF IInv
<1>2. /\ scenario \in Scenarios /\ rob \in Seq(Retirements) /\ GoodHart(ref)
  BY <1>1 DEF Types
<1>3. PICK lanes \in RetireLanes(start, first) : HostEnd(lanes, bus, first, trap, exited)
  BY HostSplit
<1>4. /\ start \in Hosts /\ start.status = "running" /\ start.state = state
      /\ start.spike.hart = ref
  BY <1>1, HostStartType
<1>5. first \in Seq(Retirements)
  BY <1>2
<1> HIDE DEF first, start
<1>6. /\ lanes \in Hosts /\ GoodHart(lanes.spike.hart) /\ Counted(state, lanes.state, 3)
      /\ ~scenario.difftest => lanes.status = "running"
  <2>1. CASE scenario.difftest
    <3>1. PICK g : LinkedState(g)
      BY <1>1, <2>1
    <3> QED
      BY <1>1, <2>1, <3>1, CycleLanes DEF first, start
  <2>2. CASE ~scenario.difftest
    BY <1>2, <1>4, <1>5, <2>2, LanesFree
  <2> QED
    BY <2>1, <2>2
<1>7. /\ GoodHart(ref') /\ platform' \in Platform /\ refPlatform' \in Platform
      /\ state' \in StateType /\ status' \in Statuses
      /\ Counters(state', status' = "running")
      /\ status' \in {"running", "stall"} => Watched(state', sleeping', hung')
      /\ StallCycles # 0 /\ status' = "stall" =>
           state'.cycles_without_retirement >= StallCycles
      /\ owed' \in BOOLEAN /\ sleeping' \in BOOLEAN /\ hung' \in Nat /\ races' \subseteq Races
  BY <1>1, <1>3, <1>6, CycleEnd DEF first
<1>8. Types'
  BY <1>2, <1>7 DEF Types, GoodHart
<1>9. /\ (Counters(state, status = "running"))'
      /\ (StallCycles # 0 /\ status = "stall" => state.cycles_without_retirement >= StallCycles)'
  BY <1>7 DEF Counters
<1>10. (status \in {"running", "stall"} => Watched(state, sleeping, hung))'
  BY <1>7 DEF Watched
<1>11. lanes.status # "running" \/ ~scenario.difftest => InjectTrap(lanes, trap) = lanes
  BY <1>2, <1>6, Injected
<1>12. /\ scenario.difftest /\ status' = "running" =>
            \E f : LinkedTo(f, state', ref', rob', core', owed', platform', refPlatform', races')
       /\ races' = {} /\ ~scenario.faulty => status' \notin {"mismatch", "trap_failed"}
  <2>1. CASE lanes.status # "running"
    <3>1. scenario.difftest /\ status' = lanes.status
      BY <1>3, <1>6, <1>11, <2>1 DEF HostEnd
    <3>2. PICK g : LinkedState(g)
      BY <1>1, <3>1
    <3>3. ~Clean(g, first, q)
      BY <1>1, <2>1, <3>1, <3>2, CycleLanes DEF first, start
    <3>4. races' = {} => races = {} /\ Undisturbed(input)
      BY <1>1, RaceFree
    <3>5. races' = {} => scenario.faulty
      BY <1>1, <3>2, <3>3, <3>4, CleanCycle DEF first, start
    <3> QED
      BY <2>1, <3>1, <3>5
  <2>2. CASE lanes.status = "running" /\ ~scenario.difftest
    <3>1. status' = Outcome([CountIdle(lanes.state, first, trap) EXCEPT !.next_cycle = @ + 1], exited)
      BY <1>3, <1>11, <2>2 DEF HostEnd
    <3>2. status' \notin {"mismatch", "trap_failed"}
      BY <3>1 DEF Outcome
    <3> QED
      BY <2>2, <3>2
  <2>3. CASE lanes.status = "running" /\ scenario.difftest
    <3>1. PICK g : LinkedState(g)
      BY <1>1, <2>3
    <3> QED
      BY <1>3, <2>3, <3>1 DEF Relinks, first, start
  <2> QED
    BY <2>1, <2>2, <2>3
<1>13. (scenario.difftest /\ status = "running" => \E g : LinkedState(g))'
  BY <1>12, LinkMoved
<1>14. AlarmsAreRaces'
  BY <1>12 DEF AlarmsAreRaces, NoFalseAlarm
<1> QED
  BY <1>8, <1>9, <1>10, <1>13, <1>14 DEF IInv

\* What poll returns is input.
LEMMA Polled == ASSUME NEW input \in PollResults PROVE input \in Seq(Byte)
<1>1. input = <<>> \/ \E x \in Byte : input = <<x>>
  BY DEF PollResults
<1>2. <<>> \in Seq(Byte) /\ \A x \in Byte : <<x>> \in Seq(Byte)
  OBVIOUS
<1> QED
  BY <1>1, <1>2

\* The core idles.
LEMMA IdlesInv == IInv /\ CoreIdles => IInv'
<1> SUFFICES ASSUME IInv, CoreIdles PROVE IInv'
  OBVIOUS
<1>1. PICK input \in PollResults, n \in 0..Len(rob), exited \in {FALSE, draining} :
        /\ n <= 3 /\ rob' = SubSeq(rob, n + 1, Len(rob)) /\ draining' = DrainAfter(n, exited)
        /\ Host(input, appendUartInput(platform, input), SubSeq(rob, 1, n), NoTrap, exited)
        /\ Observe(input, SubSeq(rob, 1, n), NoTrap)
  BY DEF CoreIdles, Retiring
<1>2. status = "running" /\ scenario' = scenario /\ core' = core
  BY DEF CoreIdles
<1>3. /\ Types /\ rob \in Seq(Retirements) /\ Len(rob) <= RobSize /\ platform \in Platform
      /\ draining \in BOOLEAN /\ GoodHart(core) /\ scenario \in Scenarios
  BY DEF IInv, Types
<1>4. input \in Seq(Byte)
  BY Polled
<1> DEFINE b == appendUartInput(platform, input)
<1>5. b \in Platform /\ b.mtime = platform.mtime
  BY <1>3, <1>4, InputAppended
<1>6. rob' \in Seq(Retirements) /\ Len(rob') <= RobSize
  <2>1. RobSize \in Nat /\ Len(rob) \in Nat /\ n \in Nat /\ n <= Len(rob)
    BY <1>3, CosimAssumption
  <2> QED
    BY <1>1, <1>3, <2>1
<1>7. draining' \in BOOLEAN
  BY <1>1, <1>3 DEF DrainAfter
<1>8. scenario.difftest => Relinks(input, b, n, NoTrap, exited)
  <2> SUFFICES ASSUME scenario.difftest, NEW g, LinkedState(g),
                      NEW lanes \in RetireLanes(HostStart(input, b), SubSeq(rob, 1, n)),
                      lanes.status = "running",
                      HostEnd(lanes, b, SubSeq(rob, 1, n), NoTrap, exited)
               PROVE  /\ \E f : LinkedTo(f, state', ref', rob', core', owed', platform',
                                         refPlatform', races')
                      /\ status' \notin {"mismatch", "trap_failed"}
    BY DEF Relinks
  <2>1. \E f : LinkedTo(f, state', ref', rob', core', owed', platform', refPlatform', races')
    BY <1>1, <1>2, <1>3, <1>4, IdlesLinked
  <2>2. NoTrap.cause \notin {"interrupt", "fault"}
    BY DEF NoTrap
  <2>3. status' \notin {"mismatch", "trap_failed"}
    <3> HIDE DEF b
    <3> QED
      BY <1>1, <1>3, <1>4, <1>5, <2>2, CyclePassed
  <2> QED
    BY <2>1, <2>3
<1> HIDE DEF b
<1>9. Host(input, b, SubSeq(rob, 1, n), NoTrap, exited)
  BY <1>1 DEF b
<1> QED
  BY <1>1, <1>2, <1>3, <1>4, <1>5, <1>6, <1>7, <1>8, <1>9, Cycle

\* The core executes an instruction.
LEMMA ExecutesInv == IInv /\ CoreExecutes => IInv'
<1> SUFFICES ASSUME IInv, CoreExecutes PROVE IInv'
  OBVIOUS
<1>1. PICK input \in PollResults, n \in 0..Len(rob), exited \in {FALSE, draining} :
        /\ n <= 3 /\ Len(rob) - n < RobSize
        /\ \E r \in CoreResults(core, appendUartInput(platform, input)) :
             /\ core' = Execute(core, r.value)
             /\ rob' = Append(SubSeq(rob, n + 1, Len(rob)), Retirement(core, r.value))
             /\ Host(input, r.platform, SubSeq(rob, 1, n), NoTrap, exited)
        /\ draining' = DrainAfter(n, exited)
        /\ Observe(input, SubSeq(rob, 1, n), NoTrap)
  BY DEF CoreExecutes, Retiring
<1>2. PICK r \in CoreResults(core, appendUartInput(platform, input)) :
        /\ core' = Execute(core, r.value)
        /\ rob' = Append(SubSeq(rob, n + 1, Len(rob)), Retirement(core, r.value))
        /\ Host(input, r.platform, SubSeq(rob, 1, n), NoTrap, exited)
  BY <1>1
<1>3. /\ status = "running" /\ scenario' = scenario /\ Ins(core).op # "ecall"
      /\ Ins(core).op \in {"load", "store"} => rob = <<>>
  BY DEF CoreExecutes
<1>4. /\ Types /\ rob \in Seq(Retirements) /\ Len(rob) <= RobSize /\ platform \in Platform
      /\ draining \in BOOLEAN /\ GoodHart(core) /\ scenario \in Scenarios
  BY DEF IInv, Types
<1>5. input \in Seq(Byte)
  BY Polled
<1> DEFINE b == appendUartInput(platform, input)
           e == Execute(core, r.value)
           last == Retirement(core, r.value)
<1>6. b \in Platform /\ b.mtime = platform.mtime
  BY <1>4, <1>5, InputAppended
<1>7. r.platform \in Platform /\ r.platform = Due(b, Ins(core)) /\ Step(core, last, e)
  BY <1>3, <1>4, <1>6, CoreResult
<1>8. last \in Retirements /\ GoodHart(core')
  <2> HIDE DEF last, e
  <2>1. last \in Retirements /\ GoodHart(e)
    BY <1>4, <1>7, StepRecord
  <2> QED
    BY <1>2, <2>1 DEF e
<1>9. n > 0 => r.platform.mtime = platform.mtime
  <2>1. n > 0 => rob # <<>>
    BY <1>4
  <2>2. n > 0 => r.platform = b
    BY <1>3, <1>7, <2>1 DEF Due
  <2> HIDE DEF b
  <2> QED
    BY <1>6, <2>2
<1>10. rob' \in Seq(Retirements) /\ Len(rob') <= RobSize
  <2> DEFINE rest == SubSeq(rob, n + 1, Len(rob))
  <2>1. RobSize \in Nat /\ Len(rob) \in Nat /\ n \in Nat /\ n <= Len(rob)
    BY <1>4, CosimAssumption
  <2>2. rest \in Seq(Retirements) /\ Len(rest) = Len(rob) - n
    BY <1>4, <2>1
  <2> HIDE DEF rest, last
  <2>3. rob' = Append(rest, last)
    BY <1>2 DEF rest, last
  <2>4. Append(rest, last) \in Seq(Retirements) /\ Len(Append(rest, last)) = Len(rest) + 1
    BY <1>8, <2>2
  <2>5. Len(rest) + 1 <= RobSize
    <3>1. Len(rob) - n < RobSize
      BY <1>1
    <3> QED
      BY <2>1, <2>2, <3>1
  <2> QED
    BY <2>3, <2>4, <2>5
<1>11. draining' \in BOOLEAN
  BY <1>1, <1>4 DEF DrainAfter
<1> HIDE DEF b, e, last
<1>12. scenario.difftest => Relinks(input, r.platform, n, NoTrap, exited)
  <2> SUFFICES ASSUME scenario.difftest, NEW g, LinkedState(g),
                      NEW lanes \in RetireLanes(HostStart(input, r.platform), SubSeq(rob, 1, n)),
                      lanes.status = "running",
                      HostEnd(lanes, r.platform, SubSeq(rob, 1, n), NoTrap, exited)
               PROVE  /\ \E f : LinkedTo(f, state', ref', rob', core', owed', platform',
                                         refPlatform', races')
                      /\ status' \notin {"mismatch", "trap_failed"}
    BY DEF Relinks
  <2>1. \E f : LinkedTo(f, state', ref', rob', core', owed', platform', refPlatform', races')
    BY <1>1, <1>2, <1>3, <1>4, <1>5, ExecutesLinked
  <2>2. NoTrap.cause \notin {"interrupt", "fault"}
    BY DEF NoTrap
  <2>3. status' \notin {"mismatch", "trap_failed"}
    BY <1>1, <1>4, <1>5, <1>7, <2>2, CyclePassed
  <2> QED
    BY <2>1, <2>3
<1> QED
  BY <1>1, <1>2, <1>3, <1>5, <1>7, <1>8, <1>9, <1>10, <1>11, <1>12, Cycle

\* The core traps.
LEMMA TrapsInv ==
    ASSUME NEW cause \in {"interrupt", "fault", "ecall"}, IInv, CoreTraps(cause)
    PROVE  IInv'
<1> DEFINE target == TrapTarget(core, cause)
           trap == [cause |-> cause, epc |-> core.pc, target |-> target]
<1>1. PICK input \in PollResults, exited \in {FALSE, draining} :
        /\ core' = TrapInto(core, target)
        /\ draining' = DrainAfter(Len(rob), exited)
        /\ rob' = <<>>
        /\ Host(input, appendUartInput(platform, input), rob, trap, exited)
        /\ Observe(input, rob, trap)
  BY DEF CoreTraps
<1>2. /\ status = "running" /\ scenario' = scenario /\ Len(rob) <= 3
      /\ cause = "interrupt" => core.mode # "M"
      /\ cause = "ecall" => Ins(core).op = "ecall"
  BY DEF CoreTraps
<1>3. /\ Types /\ rob \in Seq(Retirements) /\ platform \in Platform
      /\ draining \in BOOLEAN /\ GoodHart(core) /\ scenario \in Scenarios
  BY DEF IInv, Types
<1>4. input \in Seq(Byte)
  BY Polled
<1> DEFINE b == appendUartInput(platform, input)
           n == Len(rob)
<1>5. b \in Platform /\ b.mtime = platform.mtime
  BY <1>3, <1>4, InputAppended
<1>6. n \in 0..Len(rob) /\ n <= 3 /\ SubSeq(rob, 1, n) = rob
  BY <1>2, <1>3
<1>7. GoodHart(core')
  BY <1>1, <1>3, TrapEntry, TargetMode
<1>8. rob' \in Seq(Retirements) /\ Len(rob') <= RobSize
  BY <1>1, CosimAssumption
<1>9. draining' \in BOOLEAN
  BY <1>1, <1>3 DEF DrainAfter
<1>10. PICK t : t = trap
  OBVIOUS
<1>11. scenario.difftest => Relinks(input, b, n, t, exited)
  <2> SUFFICES ASSUME scenario.difftest, NEW g, LinkedState(g),
                      NEW lanes \in RetireLanes(HostStart(input, b), rob),
                      lanes.status = "running", HostEnd(lanes, b, rob, t, exited)
               PROVE  /\ status' = "running" =>
                           \E f : LinkedTo(f, state', ref', rob', core', owed', platform',
                                           refPlatform', races')
                      /\ races' = {} => status' \notin {"mismatch", "trap_failed"}
    BY <1>6 DEF Relinks
  <2>1. Observe(input, rob, t)
    BY <1>1, <1>10
  <2> QED
    BY <1>1, <1>2, <1>3, <1>4, <1>10, <2>1, TrapsLinked
<1>12. Host(input, b, SubSeq(rob, 1, n), t, exited) /\ Observe(input, SubSeq(rob, 1, n), t)
  BY <1>1, <1>6, <1>10
<1> HIDE DEF b, n, trap
<1> QED
  BY <1>2, <1>4, <1>5, <1>6, <1>7, <1>8, <1>9, <1>11, <1>12, Cycle DEF n

\* The invariant is inductive.
LEMMA InvPreserved == IInv /\ [Next]_vars => IInv'
<1> SUFFICES ASSUME IInv, [Next]_vars PROVE IInv'
  OBVIOUS
<1>1. CASE UNCHANGED vars
  <2>1. /\ scenario' = scenario /\ core' = core /\ rob' = rob /\ draining' = draining
        /\ platform' = platform /\ ref' = ref /\ refPlatform' = refPlatform /\ state' = state
        /\ status' = status /\ sleeping' = sleeping /\ hung' = hung /\ owed' = owed /\ races' = races
    BY <1>1 DEF vars
  <2>2. (scenario.difftest /\ status = "running" => \E g : LinkedState(g))'
    <3>1. \A g : LinkedState(g) => LinkedState(g)'
      BY <2>1, LinkMoved DEF LinkedState
    <3> QED
      BY <2>1, <3>1 DEF IInv
  <2>3. Types'
    BY <2>1 DEF IInv, Types, GoodHart
  <2>4. (Counters(state, status = "running"))' /\ AlarmsAreRaces'
        /\ (status \in {"running", "stall"} => Watched(state, sleeping, hung))'
    BY <2>1 DEF IInv, Counters, Watched, AlarmsAreRaces, NoFalseAlarm
  <2> QED
    BY <2>1, <2>2, <2>3, <2>4 DEF IInv
<1>2. CASE CoreIdles
  BY <1>2, IdlesInv
<1>3. CASE CoreExecutes
  BY <1>3, ExecutesInv
<1>4. ASSUME NEW cause \in {"interrupt", "fault", "ecall"}, CoreTraps(cause) PROVE IInv'
  BY <1>4, TrapsInv
<1> QED
  BY <1>1, <1>2, <1>3, <1>4 DEF Next, Returned

\* The invariant holds when the simulation starts: both sides are reset.
LEMMA InvInit == Init => IInv
<1> SUFFICES ASSUME Init PROVE IInv
  OBVIOUS
<1> DEFINE f == [k \in {0} |-> core]
           zero == InitialPlatform(0, scenario.uart_input)
<1>0. /\ core = ResetHart /\ ref = ResetHart /\ rob = <<>> /\ draining = FALSE
      /\ state = InitialState /\ status = IF MaxCycles = 0 THEN "timeout" ELSE "running"
      /\ sleeping = FALSE /\ hung = 0 /\ owed = FALSE /\ races = {}
  BY DEF Init
<1>1. scenario \in Scenarios /\ {MaxCycles, StallCycles} \subseteq Nat /\ RobSize \in Nat \ {0}
  BY CosimAssumption DEF Init
<1>2. GoodHart(core) /\ ref = core
  <2>1. 0 \in DOMAIN scenario.program
    BY <1>1, Code
  <2>2. ResetHart \in Hart
    BY OneByte DEF ResetHart, Hart, Modes
  <2> QED
    BY <1>0, <2>1, <2>2 DEF ResetHart, GoodHart
<1>3. platform \in Platform /\ refPlatform = platform
  <2>1. zero \in Platform
    <3>1. /\ 0 \in Byte /\ 1 \in Byte /\ TimeMax \in Time /\ 0 \in Time
          /\ 0 \in 0..(TimerDivider - 1)
      BY PlatformAssumption, PowerAssumption DEF Byte, Time, TimeMax
    <3>2. scenario.uart_input \in Seq(Byte)
      BY <1>1, Code
    <3> QED
      BY <3>1, <3>2 DEF InitialPlatform, Platform
  <2>2. platform = [zero EXCEPT !.mtimecmp = scenario.mtimecmp] /\ refPlatform = platform
    BY DEF Init
  <2>3. scenario.mtimecmp \in Time
    BY <1>1, Code
  <2> HIDE DEF zero
  <2> QED
    BY <2>1, <2>2, <2>3 DEF Platform
<1>4. state \in StateType /\ state = InitialState
  BY <1>0, OneByte DEF InitialState, StateType
<1>5. Types
  <2>1. rob \in Seq(Retirements) /\ Len(rob) <= RobSize
    BY <1>0, <1>1
  <2>2. status \in Statuses
    BY <1>0 DEF Statuses
  <2> QED
    BY <1>0, <1>1, <1>2, <1>3, <1>4, <2>1, <2>2 DEF Types
<1>6. Counters(state, status = "running") /\ Watched(state, sleeping, hung)
  <2>1. /\ state.next_cycle = 0 /\ state.cycles_without_retirement = 0
        /\ state.retired_instructions = 0 /\ state.measured_cycles = 0
        /\ state.measured_instructions = 0 /\ state.waiting_after_wfi = FALSE
    BY <1>0 DEF InitialState
  <2>2. status = "running" => MaxCycles # 0
    BY <1>0
  <2>3. Counters(state, status = "running")
    <3>1. MaxCycles \in Nat /\ StallCycles \in Nat /\ 3 * 0 = 0
      BY <1>1
    <3> QED
      BY <2>1, <2>2, <3>1 DEF Counters
  <2>4. Watched(state, sleeping, hung)
    BY <1>0, <2>1 DEF Watched
  <2> QED
    BY <2>3, <2>4
<1>7. LinkedState(f)
  <2>1. f[0] = core /\ rob = <<>> /\ Len(rob) = 0
    BY <1>0
  <2> HIDE DEF f
  <2>2. Linked(f, rob, core) /\ Unmistaken(f, rob, races) /\ LoadRight(f, rob, platform, refPlatform, races)
    BY <2>1 DEF Linked, Trace, Unmistaken, LoadRight
  <2>3. Agree(f, rob, platform, refPlatform, races)
    BY <1>3, <2>1 DEF Agree, DuePlatform, SameRegisters
  <2>4. state.architectural_state = ref.regs
    BY <1>0 DEF InitialState, ResetHart
  <2> QED
    BY <1>2, <2>1, <2>2, <2>3, <2>4 DEF LinkedState, LinkedTo
<1>8. AlarmsAreRaces /\ status # "stall"
  BY <1>0 DEF AlarmsAreRaces, NoFalseAlarm
<1> QED
  BY <1>5, <1>6, <1>7, <1>8 DEF IInv

(***************************************************************************)
(* The properties, for every instance                                      *)
(***************************************************************************)

\* The inductive invariant: the instructions that main has not replayed yet
\* lead from the reference to the core, at every cycle of every run.
THEOREM CosimInvariant == Spec => []IInv
<1>1. Init => IInv
  BY InvInit
<1>2. IInv /\ [Next]_vars => IInv'
  BY InvPreserved
<1> QED
  BY <1>1, <1>2, PTL DEF Spec

\* The state of the loop and of both machines stays well formed; in
\* particular the counters of the report stay within the cycle limit.
THEOREM CosimTypes == Spec => []TypeOK
<1>1. IInv => TypeOK
  <2> SUFFICES ASSUME IInv PROVE TypeOK
    OBVIOUS
  <2>1. Types /\ Counters(state, status = "running")
    BY DEF IInv
  <2>2. core \in Hart /\ ref \in Hart
    BY <2>1 DEF Types, GoodHart
  <2>3. state \in StateType /\ MaxCycles \in Nat
    BY <2>1, CosimAssumption DEF Types
  <2>4. state \in SimulationStates /\ state.measured_instructions <= state.retired_instructions
    BY <2>1, <2>3 DEF Counters, StateType, SimulationStates
  <2> QED
    BY <2>1, <2>2, <2>4 DEF Types, Statuses, TypeOK
<1> QED
  BY <1>1, CosimInvariant, PTL

\* main reports a mismatch or a refused trap of a correct core only if one
\* of the four races happened.
THEOREM AlarmsOnlyInRaces == Spec => []AlarmsAreRaces
<1>1. IInv => AlarmsAreRaces
  BY DEF IInv
<1> QED
  BY <1>1, CosimInvariant, PTL

\* A run that was not reported has the reference in lockstep with the core,
\* whether or not the core computes what it should.
THEOREM ReferenceInLockstep == Spec => []InLockstep
<1>1. IInv => InLockstep
  <2> SUFFICES ASSUME IInv, scenario.difftest, status = "running"
               PROVE  /\ state.architectural_state = ref.regs
                      /\ rob = <<>> =>
                           /\ \/ core = ref
                              \/ Ins(ref).op = "ecall" /\ core = TrapInto(ref, TrapTarget(ref, "ecall"))
                           /\ platform.input = refPlatform.input \/ "input" \in races
                           /\ platform.mtimecmp = refPlatform.mtimecmp
    BY DEF InLockstep
  <2>1. PICK g : LinkedState(g)
    BY DEF IInv
  <2>2. state.architectural_state = ref.regs
    BY <2>1 DEF LinkedState, LinkedTo
  <2>3. ASSUME rob = <<>> PROVE g[0] = core
    <3>1. Len(rob) = 0
      BY <2>3
    <3> QED
      BY <2>1, <3>1 DEF LinkedState, LinkedTo, Linked
  <2>4. ref = g[0] \/ Owing(ref, g[0])
    BY <2>1 DEF LinkedState, LinkedTo
  <2>5. ASSUME rob = <<>>
        PROVE  /\ platform.input = refPlatform.input \/ "input" \in races
               /\ platform.mtimecmp = refPlatform.mtimecmp
    <3>1. DuePlatform(g, rob, refPlatform) = refPlatform
      BY <2>5 DEF DuePlatform
    <3> QED
      BY <2>1, <3>1 DEF LinkedState, LinkedTo, Agree, SameRegisters
  <2> QED
    BY <2>2, <2>3, <2>4, <2>5 DEF Owing
<1> QED
  BY <1>1, CosimInvariant, PTL

\* The stall report comes when the window is full and never before, except
\* where the loop has not seen the end of a WFI.
THEOREM HangsReported == Spec => []HangReported
<1>1. IInv => HangReported
  <2> SUFFICES ASSUME IInv, StallCycles # 0
               PROVE  /\ status = "running" /\ hung >= StallCycles =>
                           ~scenario.difftest /\ state.waiting_after_wfi
                      /\ status = "stall" => hung >= StallCycles
    BY DEF HangReported
  <2>1. /\ Types /\ Counters(state, status = "running")
        /\ status \in {"running", "stall"} => Watched(state, sleeping, hung)
        /\ status = "stall" => state.cycles_without_retirement >= StallCycles
    BY DEF IInv
  <2>2. /\ StallCycles \in Nat /\ hung \in Nat /\ sleeping \in BOOLEAN
        /\ state.cycles_without_retirement \in Nat /\ state.waiting_after_wfi \in BOOLEAN
    BY <2>1, CosimAssumption DEF Types, StateType
  <2>3. ASSUME status = "running", hung >= StallCycles
        PROVE  ~scenario.difftest /\ state.waiting_after_wfi
    <3>1. state.cycles_without_retirement < StallCycles /\ Watched(state, sleeping, hung)
      BY <2>1, <2>3 DEF Counters
    <3>2. hung # state.cycles_without_retirement /\ hung # 0
      BY <2>2, <2>3, <3>1
    <3> QED
      BY <2>2, <3>1, <3>2 DEF Watched
  <2>4. ASSUME status = "stall" PROVE hung >= StallCycles
    <3>1. state.cycles_without_retirement >= StallCycles /\ Watched(state, sleeping, hung)
      BY <2>1, <2>4
    <3>2. state.cycles_without_retirement # 0
      BY <2>2, <3>1
    <3> QED
      BY <2>2, <3>1, <3>2 DEF Watched
  <2> QED
    BY <2>3, <2>4
<1> QED
  BY <1>1, CosimInvariant, PTL
=============================================================================
