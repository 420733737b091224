----------------------------- MODULE VectorCompare -----------------------------
(***************************************************************************)
(* compareVectorCommit (main.cc) and what it uses of SpikeReference: each  *)
(* vector instruction that the core retires is compared with the one that  *)
(* Spike has just executed, register element by element and store byte by  *)
(* byte, and the registers of the core become those of Spike.              *)
(*                                                                         *)
(* What an instruction computes is left open, one bit pattern for both     *)
(* sides.  Which elements it computes, leaves or may fill is the contract  *)
(* of the RISC-V vector extension, written down here from an attribute of  *)
(* the instruction (class) and not from its encoding: the code under test  *)
(* works that out again from the bits of the encoding.                     *)
(***************************************************************************)
EXTENDS Integers, FiniteSets, FiniteSetsExt, SequencesExt

CONSTANTS
    RegisterCount, \* registers of a file, 32 in the code
    RegisterBytes, \* bytes of a register, 32 in the code
    ByteBits,      \* bits of a byte, the smallest element, 8 in the code
    MaxGroup,      \* registers of a destination group, 8 in the code
    Addresses,     \* the bytes of memory that are looked at
    Programs,      \* the instruction sequences that may be run, see Program
    Contents,      \* what the registers may hold when the program starts
    Results,       \* what an instruction may compute: [bits, raised] (flags)
    Faults,        \* what a core may do wrong, [kind |-> "none"] among it
    FaultyUpTo     \* bound: the last instruction of a program it may do so in

VLEN == RegisterBytes * ByteBits
Registers == 0..(RegisterCount - 1)
Bits == 0..(VLEN - 1)
Register == [Bits -> 0..1]
Flags == {"fflags", "vxsat"}

\* vl and vtype, the element width (sew) in bytes.
Configuration == [vl : 0..VLEN, sew : {1, 2, 4}, lmul : {1, 2, 4, 8}, vta : BOOLEAN, vma : BOOLEAN]

\* The fields of an encoding that the code looks at, the class, and for a store
\* its address and stride.  A config carries what it may set, a csrw the vstart.
Instruction ==
    [op : {"config", "csrw", "arith", "load", "store"}, class : STRING, vd : Registers,
     form : 0..7, funct : 0..63, vs1 : 0..31, vm : BOOLEAN, nf : 0..7, mop : 0..3,
     lumop : 0..31, width : {0, 5, 6}, offset : Nat, base : Nat, stride : Nat,
     sets : SUBSET Configuration]

(***************************************************************************)
(* The encodings of the vector extension, class by class.  Elements of at  *)
(* most 32 bits, so a widening conversion is one from 16-bit integers.     *)
(***************************************************************************)
OPIVV == 0
OPFVV == 1
OPMVV == 2
OPIVI == 3
OPIVX == 4
OPFVF == 5
OPMVX == 6
ArithmeticEncoded(i) ==
    LET In(forms, functs) == i.form \in forms /\ i.funct \in functs
        Integer == {OPIVV, OPIVI, OPIVX}
    IN  CASE i.class = "vector" ->
               \/ In(Integer, (0..12) \cup (32..38) \cup (40..47)) \/ In({OPIVV}, {14, 39})
               \/ In({OPIVX}, {15, 39}) \/ In({OPIVI}, {15})
               \/ In({OPMVV, OPMVX}, (8..11) \cup (32..47)) \/ In({OPMVX}, {14, 15})
               \/ In({OPMVV}, {18}) \/ (In({OPMVV}, {20}) /\ i.vs1 \in {16, 17})
               \/ In({OPFVV, OPFVF}, {0, 2, 4, 6, 8, 9, 10, 32, 36} \cup (40..47))
               \/ In({OPFVF}, {14, 15, 33, 39}) \/ In({OPFVV}, {19})
               \/ (In({OPFVV}, {18}) /\ i.vs1 \in (0..7) \cup (16..23))
          [] i.class = "slide_up" -> In({OPIVI, OPIVX}, {14})
          [] i.class = "carry_in" -> In(Integer, {16, 18}) /\ ~i.vm
          [] i.class = "carry_out" -> In(Integer, {17, 19})
          [] i.class = "merge" -> In(Integer \cup {OPFVF}, {23})
          [] i.class = "compare" ->
               In(Integer, 24..31) \/ In({OPFVV}, {24, 25, 27, 28}) \/ In({OPFVF}, {24, 25, 27, 28, 29, 31})
          [] i.class = "mask_logical" -> In({OPMVV}, 24..31) /\ i.vm
          [] i.class = "set_first" -> In({OPMVV}, {20}) /\ i.vs1 \in {1, 2, 3}
          [] i.class = "reduction" -> In({OPMVV}, 0..7) \/ In({OPFVV}, {1, 3, 5, 7})
          [] i.class = "widening_reduction" -> In({OPIVV}, {48, 49})
          [] i.class = "insert" -> In({OPMVX, OPFVF}, {16}) /\ i.vm
          [] i.class = "scalar" -> In({OPMVV, OPFVV}, {16})
          [] i.class = "widening" ->
               In({OPMVV, OPMVX}, (48..56) \cup (58..63)) \/ (In({OPFVV}, {18}) /\ i.vs1 \in {10, 11})
          [] i.class = "whole_move" -> In({OPIVI}, {39}) /\ i.vs1 \in {0, 1, 3, 7} /\ i.vm
          [] i.class = "compress" -> In({OPMVV}, {23}) /\ i.vs1 \in Registers /\ i.vm
          [] OTHER -> FALSE
LoadEncoded(i) ==
    CASE i.class = "load" -> (i.mop = 0 /\ i.lumop \in {0, 16}) \/ i.mop = 2
      [] i.class = "indexed_load" -> i.mop \in {1, 3}
      [] i.class = "whole_load" -> i.mop = 0 /\ i.lumop = 8 /\ i.nf \in {0, 1, 3, 7} /\ i.vm
      [] i.class = "mask_load" -> i.mop = 0 /\ i.lumop = 11 /\ i.nf = 0 /\ i.width = 0 /\ i.vm
      [] OTHER -> FALSE
StoreEncoded(i) ==
    CASE i.class = "unit_store" -> i.mop = 0 /\ i.lumop = 0 /\ i.nf = 0
      [] i.class = "scattered_store" -> i.mop # 0 \/ (i.lumop = 0 /\ i.nf # 0)
      [] i.class = "whole_store" -> i.mop = 0 /\ i.lumop = 8 /\ i.nf \in {0, 1, 3, 7} /\ i.width = 0 /\ i.vm
      [] i.class = "mask_store" -> i.mop = 0 /\ i.lumop = 11 /\ i.nf = 0 /\ i.width = 0 /\ i.vm
      [] OTHER -> FALSE
Encoded(i) ==
    /\ i.op = "arith" => ArithmeticEncoded(i)
    /\ i.op = "load" => LoadEncoded(i)
    /\ i.op = "store" => StoreEncoded(i)

ASSUME VectorAssumption ==
    /\ RegisterCount \in Nat \ {0} /\ MaxGroup \in Nat /\ ByteBits \in Nat \ {0}
    /\ RegisterBytes \in Nat \ {0} /\ RegisterBytes % 4 = 0
    /\ Programs \subseteq Seq({i \in Instruction : Encoded(i)})
    /\ Contents \subseteq [Registers -> Register] /\ FaultyUpTo \in Nat
    /\ \A r \in Results : r.bits \in Register /\ r.raised \subseteq Flags
    /\ [kind |-> "none"] \in Faults

VARIABLES
    program, pc,   \* the program, and the next instruction of it
    csr,           \* vl, vtype (sew, lmul, vta, vma) and vstart, equal on both sides
    ref,           \* processor_->VU.reg_file of Spike
    dut,           \* the registers of the core, by architectural number
    golden,        \* the registers of a core that is right, see Conforming
    refFlags, dutFlags,   \* fflags and vxsat
    refMemory, dutMemory, \* bytes by address, those of the core once its stores drain
    verdict,       \* "running", or "failed" once a difference is reported
    faulty,        \* the core has done something wrong
    unseen,        \* a register it did not report is not as it should be, or as Spike's
    misread        \* an instruction whose mask does not guard its destination ran
regVars == <<ref, dut, golden>>
vectorVars == <<program, pc, csr, regVars, refFlags, dutFlags, refMemory, dutMemory, verdict,
                faulty, unseen, misread>>

ZeroByte == [b \in 0..(ByteBits - 1) |-> 0]
Insn == program[pc]

VectorInit ==
    /\ program \in Programs /\ pc = 1
    /\ csr = [vl |-> 0, sew |-> 1, lmul |-> 1, vta |-> FALSE, vma |-> FALSE, vstart |-> 0]
    /\ ref \in Contents /\ dut = ref /\ golden = ref
    /\ refFlags = {} /\ dutFlags = {}
    /\ refMemory = [a \in Addresses |-> ZeroByte] /\ dutMemory = refMemory
    /\ verdict = "running" /\ faulty = FALSE /\ unseen = FALSE /\ misread = FALSE

(***************************************************************************)
(* The vector extension: what an instruction of a class does.              *)
(***************************************************************************)
Sew == ByteBits * csr.sew
Width(i) == CASE i.width = 0 -> 1 [] i.width = 5 -> 2 [] OTHER -> 4
WidthBits(i) == ByteBits * Width(i)
MaskClasses == {"compare", "carry_out", "mask_logical", "set_first"}
FirstClasses == {"reduction", "widening_reduction", "insert"}
WholeClasses == {"whole_move", "whole_load"}
MaskDataClasses == {"carry_in", "carry_out", "merge"}
Fields(i) == IF i.class \in {"load", "indexed_load"} THEN i.nf + 1 ELSE 1

DestinationBits(i) ==
    CASE i.class \in MaskClasses -> 1
      [] i.class \in {"load", "whole_load", "mask_load"} -> WidthBits(i)
      [] i.class \in {"widening", "widening_reduction"} -> 2 * Sew
      [] OTHER -> Sew
FieldRegisters(i) ==
    LET group == (csr.lmul * DestinationBits(i)) \div Sew
    IN  CASE i.class \in MaskClasses \cup FirstClasses \cup {"mask_load"} -> 1
          [] i.class = "whole_move" -> i.vs1 + 1
          [] i.class = "whole_load" -> i.nf + 1
          [] OTHER -> IF group = 0 THEN 1 ELSE group
GroupSize(i) == IF i.class = "scalar" THEN 0 ELSE Fields(i) * FieldRegisters(i)
Group(i) == i.vd..(i.vd + GroupSize(i) - 1)

\* Encodings that raise no illegal-instruction exception.
Legal(i) ==
    /\ GroupSize(i) <= MaxGroup /\ i.vd + GroupSize(i) <= RegisterCount
    /\ DestinationBits(i) <= 4 * ByteBits
    /\ i.class \in {"reduction", "widening_reduction", "compress", "set_first"} => csr.vstart = 0
    /\ ~i.vm => 0 \notin Group(i) \/ i.class \in MaskClasses \cup {"reduction", "widening_reduction"}

\* Elements an instruction has to process, and those of its body.
Evl(i) == CASE i.class \in WholeClasses -> GroupSize(i) * (VLEN \div DestinationBits(i))
            [] i.class = "mask_load" -> (csr.vl + ByteBits - 1) \div ByteBits
            [] OTHER -> csr.vl
Body(i, regs) == CASE i.class = "compress" ->
                        Cardinality({k \in Bits : k < csr.vl /\ regs[i.vs1][k] = 1})
                   [] i.class \in FirstClasses -> IF Evl(i) = 0 THEN 0 ELSE 1
                   [] OTHER -> Evl(i)

\* What becomes of an element of the destination: "result", "old" or "any".
Fate(i, regs, index) ==
    IF csr.vstart >= Evl(i) \/ index < csr.vstart THEN "old"
    ELSE IF index >= Body(i, regs)
         THEN IF i.class \in MaskClasses \cup {"mask_load"} \/ csr.vta THEN "any" ELSE "old"
    ELSE IF i.class = "slide_up" /\ index < i.offset THEN "old"
    ELSE IF i.vm \/ i.class \in MaskDataClasses \cup FirstClasses \/ regs[0][index] = 1 THEN "result"
    ELSE IF csr.vma THEN "any" ELSE "old"

\* The register file after the instruction, with filler in the elements that
\* may hold anything: none for Spike, which leaves them, and ones for the core.
Executed(i, regs, result, ones) ==
    LET bits == DestinationBits(i)
        Index(reg, bit) == ((reg - i.vd) % FieldRegisters(i)) * (VLEN \div bits) + bit \div bits
        Bit(reg, bit) == LET fate == Fate(i, regs, Index(reg, bit))
                         IN  CASE fate = "result" -> result.bits[bit]
                               [] fate = "any" /\ ones -> 1
                               [] OTHER -> regs[reg][bit]
    IN  [reg \in Registers |-> IF reg \in Group(i) THEN [bit \in Bits |-> Bit(reg, bit)] ELSE regs[reg]]
SpikeStep(i, result) == Executed(i, ref, result, FALSE)
Conforming(i, regs, result) == Executed(i, regs, result, TRUE)

(***************************************************************************)
(* compareVectorCommit: the decoding of the instruction                    *)
(***************************************************************************)
Memory(i) == i.op \in {"load", "store"}
wholeMemory(i) == Memory(i) /\ i.mop = 0 /\ i.lumop = 8
maskMemory(i) == Memory(i) /\ i.mop = 0 /\ i.lumop = 11
indexedMemory(i) == Memory(i) /\ i.mop % 2 = 1
integerForm(i) == i.form \in {0, 3, 4}
floatingForm(i) == i.form \in {1, 5}
maskDestination(i) ==
    /\ i.op = "arith"
    /\ \/ integerForm(i) /\ i.funct \in (24..31) \cup {17, 19}
       \/ floatingForm(i) /\ i.funct \in {24, 25, 27, 28, 29, 31}
       \/ i.form = 2 /\ (i.funct \in 24..31 \/ (i.funct = 20 /\ i.vs1 < 16))
maskIsData(i) ==
    /\ i.op = "arith"
    /\ \/ integerForm(i) /\ i.funct \in 16..19
       \/ (integerForm(i) \/ i.form = 5) /\ i.funct = 23
scalarInsert(i) == i.op = "arith" /\ i.funct = 16 /\ i.form \in {5, 6}
reduction(i) ==
    /\ i.op = "arith"
    /\ \/ i.form = 2 /\ i.funct <= 7
       \/ i.form = 1 /\ i.funct \in {1, 3, 5, 7}
       \/ i.form = 0 /\ i.funct \in {48, 49}
widening(i) ==
    /\ i.op = "arith"
    /\ \/ i.form \in {2, 6} /\ i.funct >= 48
       \/ i.form = 0 /\ i.funct \in {48, 49}
       \/ i.form = 1 /\ i.funct = 18 /\ i.vs1 \in {10, 11}
wholeMove(i) == i.op = "arith" /\ i.form = 3 /\ i.funct = 39
compress(i) == i.op = "arith" /\ i.form = 2 /\ i.funct = 23
compressedElements(i, selectionMask) ==
    Cardinality({index \in Bits : index < csr.vl /\ selectionMask[index] = 1})
elementBits(i) ==
    IF maskDestination(i) THEN 1
    ELSE IF i.op = "load" /\ ~indexedMemory(i) THEN WidthBits(i)
    ELSE IF widening(i) THEN 2 * Sew ELSE Sew

(***************************************************************************)
(* compareVectorCommit: the registers                                      *)
(***************************************************************************)
effectiveVl(i, count) ==
    IF wholeMemory(i) \/ wholeMove(i) THEN count * (VLEN \div elementBits(i))
    ELSE IF maskMemory(i) THEN (csr.vl + ByteBits - 1) \div ByteBits ELSE csr.vl

\* commit.vector: the state and the masks before the instruction.
Captured(i) == [mask |-> ref[0], selectionMask |-> ref[i.vs1 % RegisterCount]]

tail(i, count, vector, index) ==
    \/ index >= IF compress(i) THEN compressedElements(i, vector.selectionMask) ELSE effectiveVl(i, count)
    \/ (scalarInsert(i) \/ reduction(i)) /\ index > 0

\* Mutant: the tail of a mask follows vta as any other.
Fault_agnostic(i, count, vector, index) ==
    /\ ~wholeMemory(i) /\ ~wholeMove(i)
    /\ csr.vstart < effectiveVl(i, count) /\ index >= csr.vstart
    /\ IF tail(i, count, vector, index) THEN csr.vta
       ELSE ~maskIsData(i) /\ ~i.vm /\ vector.mask[index] = 0 /\ csr.vma
agnostic(i, count, vector, index) ==
    /\ ~wholeMemory(i) /\ ~wholeMove(i)
    /\ csr.vstart < effectiveVl(i, count) /\ index >= csr.vstart
    /\ IF tail(i, count, vector, index) THEN maskDestination(i) \/ maskMemory(i) \/ csr.vta
       ELSE ~maskIsData(i) /\ ~i.vm /\ vector.mask[index] = 0 /\ csr.vma

RegistersMatch(i, base, count, vector, expected, actual) ==
    LET bits == elementBits(i)
        fields == IF i.op = "load" /\ ~wholeMemory(i) THEN i.nf + 1 ELSE 1
        registersPerField == IF count \div fields = 0 THEN 1 ELSE count \div fields
    IN  \A group \in 0..(count - 1) : \A element \in 0..(VLEN \div bits - 1) :
          LET index == (group % registersPerField) * (VLEN \div bits) + element
              isAgnostic == agnostic(i, count, vector, index)
          IN  \A bit \in (element * bits)..((element + 1) * bits - 1) :
                actual[base + group][bit] = IF isAgnostic THEN 1 ELSE expected[base + group][bit]

\* reference.vectorRegister(reg, actual) for every register of the group.
Adopt(base, count, expected, actual) ==
    [reg \in Registers |-> IF reg \in base..(base + count - 1) THEN actual[reg] ELSE expected[reg]]

(***************************************************************************)
(* compareVectorCommit: the stores                                         *)
(***************************************************************************)
ElementBytes(i) == IF indexedMemory(i) THEN csr.sew ELSE Width(i)
ElementsPerRegister(i) == RegisterBytes \div ElementBytes(i)
StoreFields(i) == IF i.class = "whole_store" THEN 1 ELSE i.nf + 1
StoreRegisters(i) ==
    LET group == (csr.lmul * ElementBytes(i)) \div csr.sew
    IN  CASE i.class = "whole_store" -> i.nf + 1
          [] i.class = "mask_store" -> 1
          [] OTHER -> IF group = 0 THEN 1 ELSE group
StoreLength(i) == CASE i.class = "whole_store" -> StoreRegisters(i) * ElementsPerRegister(i)
                    [] i.class = "mask_store" -> (csr.vl + ByteBits - 1) \div ByteBits
                    [] OTHER -> csr.vl
Scattered(i) == i.class = "scattered_store"
Enabled(i, element) ==
    element >= csr.vstart /\ element < StoreLength(i) /\ (i.vm \/ ref[0][element] = 1)
ElementAddress(i, element, field) ==
    i.base + field * ElementBytes(i) +
      element * (IF Scattered(i) THEN i.stride ELSE StoreFields(i) * ElementBytes(i))
\* Byte position byte of a register, position 0 the lowest.
ByteAt(regs, reg, byte) == [b \in 0..(ByteBits - 1) |-> regs[reg][byte * ByteBits + b]]

\* The writes of Spike: elements in order, the fields of each in order.
SpikeStores(i) ==
    LET Place(element) == (element % ElementsPerRegister(i)) * ElementBytes(i)
        Source(element, field) == i.vd + field * StoreRegisters(i) + element \div ElementsPerRegister(i)
        Element(element, field) ==
          IF ~Enabled(i, element) THEN <<>>
          ELSE [b \in 1..ElementBytes(i) |->
                  <<ElementAddress(i, element, field) + b - 1,
                    ByteAt(ref, Source(element, field), Place(element) + b - 1)>>]
    IN  FlattenSeq([e \in 1..(StoreRegisters(i) * ElementsPerRegister(i)) |->
          FlattenSeq([f \in 1..StoreFields(i) |-> Element(e - 1, f - 1)])])

\* What a right core reports of a store: the number of its rows, one per source
\* register, and how its elements lie in them (StoreTrace, without firstGroup).
ConformingLayout(i) ==
    [count |-> StoreFields(i) * StoreRegisters(i), elementBytes |-> ElementBytes(i),
     fieldRegisters |-> StoreRegisters(i), fields |-> StoreFields(i), scattered |-> Scattered(i)]
ConformingRows(i) ==
    [group \in 0..(StoreFields(i) * StoreRegisters(i) - 1) |->
       LET field == group \div StoreRegisters(i)
           Element(byte) == (group % StoreRegisters(i)) * ElementsPerRegister(i) + byte \div ElementBytes(i)
       IN  [address |-> i.base + group * RegisterBytes,
            mask |-> {byte \in 0..(RegisterBytes - 1) : Enabled(i, Element(byte))},
            data |-> [byte \in 0..(RegisterBytes - 1) |-> ByteAt(dut, i.vd + group, byte)],
            elements |-> [byte \in 0..(RegisterBytes - 1) |-> ElementAddress(i, Element(byte), field)]]]

\* The queue of the core: its rows from first on are those of the store, the
\* others belong to another store, here one that clears the lowest addresses.
OtherRow == [address |-> 0, mask |-> 0..(RegisterBytes - 1),
             data |-> [byte \in 0..(RegisterBytes - 1) |-> ZeroByte],
             elements |-> [byte \in 0..(RegisterBytes - 1) |-> byte]]
StoreQueue(rows, first) ==
    [row \in 0..(MaxGroup - 1) |-> IF row - first \in DOMAIN rows THEN rows[row - first] ELSE OtherRow]

\* The task count and the segment layout that compareVectorCommit refuses.
StoreLayoutOk(firstGroup, layout) ==
    /\ layout.count # 0 /\ layout.count <= MaxGroup /\ firstGroup + layout.count <= MaxGroup
    /\ layout.scattered => layout.fields * layout.fieldRegisters = layout.count
SelectRows(queue, firstGroup, layout) ==
    [group \in 0..(layout.count - 1) |-> queue[firstGroup + group]]

StoreByte(layout, row, byte) ==
    LET elementByte == byte % layout.elementBytes
    IN  <<IF layout.scattered THEN row.elements[byte - elementByte] + elementByte
          ELSE row.address + byte, row.data[byte]>>
\* collect: the strobed bytes from begin up to end of a row, with addresses.
collect(layout, row, begin, end) ==
    LET Byte(byte) == IF byte \in row.mask THEN <<StoreByte(layout, row, byte)>> ELSE <<>>
    IN  FlattenSeq([k \in 1..(end - begin) |-> Byte(begin + k - 1)])

\* The stores of the core in the order in which they drain.
Collected(layout, rows) ==
    LET bytes == layout.elementBytes
    IN  IF layout.scattered
        THEN FlattenSeq([r \in 1..layout.fieldRegisters |->
               FlattenSeq([e \in 1..(RegisterBytes \div bytes) |->
                 FlattenSeq([f \in 1..layout.fields |->
                   collect(layout, rows[(f - 1) * layout.fieldRegisters + r - 1], (e - 1) * bytes, e * bytes)])])])
        ELSE FlattenSeq([group \in 1..layout.count |->
               collect(layout, rows[group - 1], 0, RegisterBytes)])

\* Memory after a sequence of writes: the last one to an address stays.
Drain(memory, stores) ==
    [a \in DOMAIN memory |->
       LET last == {k \in DOMAIN stores : stores[k][1] = a}
       IN  IF last = {} THEN memory[a] ELSE stores[Max(last)][2]]
Times(stores, write) == Cardinality({k \in DOMAIN stores : stores[k] = write})

\* Mutant: the bytes are compared as a multiset only.
Fault_FinalBytesMatch(stores, memory) == TRUE
FinalBytesMatch(stores, memory) ==
    \A k \in DOMAIN stores : Drain(memory, stores)[stores[k][1]] = memory[stores[k][1]]
SameWrites(stores, expected) ==
    \A write \in Range(stores) \cup Range(expected) : Times(stores, write) = Times(expected, write)

(***************************************************************************)
(* The steps of a run                                                      *)
(***************************************************************************)
Flip(regs, f) == IF f.kind # "bit" THEN regs ELSE [regs EXCEPT ![f.reg][f.bit] = 1 - @]

FaultsOf(kinds) ==
    {f \in Faults : f.kind = "none" \/ (f.kind \in kinds /\ pc <= FaultyUpTo)}

Judge(accepted) ==
    /\ verdict' = IF accepted THEN "running" ELSE "failed"
    /\ pc' = pc + 1

Running == verdict = "running" /\ pc <= Len(program)

\* vsetvli: the vl and vtype that the core reports must be those of Spike.
Configure ==
    /\ Running /\ Insn.op = "config"
    /\ \E new \in Insn.sets, got \in Insn.sets :
         /\ csr' = [vl |-> new.vl, sew |-> new.sew, lmul |-> new.lmul, vta |-> new.vta, vma |-> new.vma,
                    vstart |-> 0]
         /\ faulty' = (faulty \/ got # new)
         /\ Judge(got = new)
    /\ UNCHANGED <<program, regVars, refFlags, dutFlags, refMemory, dutMemory, unseen, misread>>

\* A write of vstart has no vector commit to compare.
WriteVstart ==
    /\ Running /\ Insn.op = "csrw"
    /\ csr' = [csr EXCEPT !.vstart = Insn.base]
    /\ pc' = pc + 1
    /\ UNCHANGED <<program, regVars, refFlags, dutFlags, refMemory, dutMemory, verdict, faulty, unseen, misread>>

\* A vector instruction that is no store: Spike executes it, the core retires
\* it with its base, count and flags, and compareVectorCommit judges.
Execute ==
    /\ Running /\ Insn.op \in {"arith", "load"} /\ Legal(Insn)
    /\ \E result \in Results, f \in FaultsOf({"bit", "lost", "group", "base", "flags"}) :
         LET raised == result.raised
             vector == Captured(Insn)
             expected == SpikeStep(Insn, result)
             right == Conforming(Insn, dut, result)
             actual == IF f.kind = "lost" THEN dut ELSE Flip(right, f)
             count == CASE f.kind = "lost" -> 0 [] f.kind = "group" -> MaxGroup + 1
                        [] OTHER -> GroupSize(Insn)
             base == IF f.kind = "base" THEN Insn.vd + 1 ELSE Insn.vd
             reported == base..(base + count - 1)
             accrued == IF f.kind = "flags" THEN Flags \ raised ELSE raised
             accepted == /\ refFlags \cup accrued = refFlags \cup raised
                         /\ count <= MaxGroup /\ base + count <= RegisterCount
                         /\ RegistersMatch(Insn, base, count, vector, expected, actual)
         IN  /\ dut' = actual
             /\ golden' = Conforming(Insn, golden, result)
             /\ ref' = IF accepted THEN Adopt(base, count, expected, actual) ELSE expected
             /\ refFlags' = refFlags \cup raised
             /\ dutFlags' = dutFlags \cup accrued
             /\ faulty' = (faulty \/ actual # right \/ accrued # raised \/ count # GroupSize(Insn)
                               \/ base # Insn.vd)
             /\ unseen' = (unseen \/ \E reg \in Registers \ reported :
                                        actual[reg] # right[reg] \/ actual[reg] # expected[reg])
             /\ Judge(accepted)
    /\ misread' = (misread \/ (Insn.class \in {"reduction", "widening_reduction", "slide_up"} /\
                               ~Insn.vm /\ csr.vma))
    /\ csr' = [csr EXCEPT !.vstart = 0]
    /\ UNCHANGED <<program, refMemory, dutMemory>>

Corrupt(rows, f) ==
    CASE f.kind = "mask" -> [rows EXCEPT ![0].mask = (@ \ {f.byte}) \cup ({f.byte} \ @)]
      [] f.kind = "address" -> [rows EXCEPT ![0].address = @ + 1, ![0].elements[f.byte] = @ + 1]
      [] f.kind = "data" -> [rows EXCEPT ![0].data[f.byte][0] = 1 - @]
      [] f.kind = "swap" -> [rows EXCEPT ![0].data[0] = rows[0].data[f.byte],
                                         ![0].data[f.byte] = rows[0].data[0]]
      [] OTHER -> rows

\* A layout that is not that of the store.
Misreport(layout, f) ==
    CASE f.kind = "group" -> [layout EXCEPT !.count = 0]
      [] f.kind = "scatter" -> [layout EXCEPT !.scattered = ~@]
      [] f.kind = "width" -> [layout EXCEPT !.elementBytes = IF @ = 1 THEN 2 ELSE 1]
      [] f.kind = "fields" -> [layout EXCEPT !.fields = layout.fieldRegisters, !.fieldRegisters = layout.fields]
      [] OTHER -> layout

\* A vector store: what the core reports is also what it drains.  A report that
\* is refused ends the run before its bytes are looked at.
ExecuteStore ==
    /\ Running /\ Insn.op = "store" /\ StoreFields(Insn) * StoreRegisters(Insn) <= MaxGroup
    /\ Insn.vd + StoreFields(Insn) * StoreRegisters(Insn) <= RegisterCount
    /\ \E first \in 0..(MaxGroup - StoreFields(Insn) * StoreRegisters(Insn)),
         f \in FaultsOf({"group", "first", "scatter", "width", "fields", "mask", "address", "data", "swap"}) :
         LET queue == StoreQueue(Corrupt(ConformingRows(Insn), f), first)
             firstGroup == IF f.kind = "first" THEN first + 1 ELSE first
             layout == Misreport(ConformingLayout(Insn), f)
             rows == SelectRows(queue, firstGroup, layout)
             laid == StoreLayoutOk(firstGroup, layout)
             stores == IF laid THEN Collected(layout, rows) ELSE <<>>
             expected == SpikeStores(Insn)
         IN  /\ refMemory' = Drain(refMemory, expected)
             /\ dutMemory' = Drain(dutMemory, stores)
             /\ faulty' = (faulty \/ queue # StoreQueue(ConformingRows(Insn), first) \/ firstGroup # first
                                  \/ layout # ConformingLayout(Insn))
             /\ Judge(laid /\ FinalBytesMatch(stores, refMemory') /\ SameWrites(stores, expected))
    /\ csr' = [csr EXCEPT !.vstart = 0]
    /\ UNCHANGED <<program, regVars, refFlags, dutFlags, unseen, misread>>

VectorNext == Configure \/ WriteVstart \/ Execute \/ ExecuteStore

VectorSpec == VectorInit /\ [][VectorNext]_vectorVars

(***************************************************************************)
(* Properties                                                              *)
(***************************************************************************)

(* A core that does what the vector extension says, and fills the elements *)
(* it may fill with ones, is never reported: the class of the destination, *)
(* its element width, the extent of its tail and the elements the mask     *)
(* guards, all read off the encoding, are those of the instruction, after  *)
(* any instruction before it.  The one exception: under vma the code takes *)
(* an element of the destination whose mask bit is clear for agnostic also *)
(* where the mask does not guard the destination (element 0 of a masked    *)
(* reduction, the elements below the offset of a masked slide up), and     *)
(* reports a core that is right.                                           *)
NoFalseAlarm == verdict = "failed" => faulty \/ misread

(* What is accepted is right: as long as nothing was reported, the core's  *)
(* registers are those of a right core, Spike has the same, and so have    *)
(* flags and memory.  A wrong bit, a filler other than ones, a disturbed   *)
(* element, a missing, additional or reordered store byte never passes,    *)
(* whatever layout and rows the core reports of a store, unless a register *)
(* that the core does not name is wrong or differs from Spike's: the       *)
(* compared group is the one the core names, not the one Spike has written. *)
AcceptedIsRight ==
    verdict = "running" /\ ~unseen /\ ~misread =>
      dut = golden /\ ref = golden /\ dutFlags = refFlags /\ dutMemory = refMemory
=============================================================================
