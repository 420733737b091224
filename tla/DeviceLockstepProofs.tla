------------------------ MODULE DeviceLockstepProofs ------------------------
(***************************************************************************)
(* Proofs about DeviceLockstep, for any address map, timer, programs and   *)
(* typed input.  The two instances agree in every register, in the time    *)
(* and in both queues; the facts about single accesses are those of        *)
(* PlatformDevicesProofs.                                                  *)
(***************************************************************************)
EXTENDS DeviceLockstep, PlatformDevicesProofs

TypesOK ==
    /\ program \in Programs
    /\ dut \in Platform /\ ref \in Platform
    /\ typed \in Seq(Byte) /\ received \in Seq(Byte)

IInv ==
    /\ TypesOK
    /\ Alike(dut, ref) /\ dut.output = ref.output
    /\ InputConserved

\* Fields of two platforms are all that SamePlatform compares.
LEMMA SameFields ==
    ASSUME NEW p \in Platform, NEW q \in Platform, Alike(p, q), p.output = q.output
    PROVE  q = [p EXCEPT !.subcycle = q.subcycle]
  BY DEF Platform, Alike, SameRegisters

\* An access is one of those the facts about the paths are about.
LEMMA AccessForm ==
    ASSUME NEW a \in Accesses
    PROVE  /\ a.size \in {1, 2, 4} /\ a.address \in Nat
           /\ a.address % a.size = 0 /\ isDevice(a.address, a.size)
<1>1. Clint \in Region /\ Uart \in Region
  BY PlatformAssumption
<1>2. /\ a.address \in Clint.base..(RegionEnd(Clint) - 1) \cup Uart.base..(Uart.base + 7)
      /\ a.size \in {1, 2, 4} /\ a.address % a.size = 0 /\ isDevice(a.address, a.size)
  BY DEF Accesses
<1> QED
  BY <1>1, <1>2 DEF Region, RegionEnd

\* Moving the first byte of a queue to the end of the sequence before it.
LEMMA MoveHead ==
    ASSUME NEW s \in Seq(Byte), NEW t \in Seq(Byte), t # <<>>
    PROVE  s \o t = Append(s, Head(t)) \o Tail(t)
  OBVIOUS

\* A byte appended to the second of two sequences is appended to both joined.
LEMMA ConcatAppend ==
    ASSUME NEW s \in Seq(Byte), NEW t \in Seq(Byte), NEW b \in Byte
    PROVE  Append(s \o t, b) = s \o (t \o <<b>>)
  BY SMTT(60)

\* Both instances start alike.
LEMMA InitInv == Init => IInv
<1> SUFFICES ASSUME Init PROVE IInv
  OBVIOUS
<1>1. program.time \in Time
  BY LockstepBounds DEF Init, Program
<1>2. 0 \in Byte /\ 1 \in Byte /\ TimeMax \in Time /\ 0 \in 0..(TimerDivider - 1)
  BY PlatformAssumption, PowerAssumption DEF Byte, Time, TimeMax
<1>3. InitialPlatform(program.time, <<>>) \in Platform
  BY <1>1, <1>2 DEF InitialPlatform, Platform
<1> QED
  BY <1>3 DEF Init, IInv, TypesOK, Alike, SameRegisters, InputConserved, InitialPlatform

\* The lanes of a store make a word that carries its bytes.
LEMMA StoredWord ==
    ASSUME NEW a \in Accesses, NEW bytes \in [1..a.size -> Byte]
    PROVE  /\ StoreLanes(a, bytes) \in Word
           /\ Carries(StoreLanes(a, bytes), a.address, a.size, bytes)
<1>1. a.size \in {1, 2, 4} /\ a.address \in Nat /\ a.address % a.size = 0
  BY AccessForm
<1>2. 0 \in Byte
  BY PlatformAssumption DEF Byte
<1> DEFINE l == a.address % 4
<1>3. l \in Int
  BY <1>1
<1>4. AccessLanes(a.address, a.size) = l..(l + a.size - 1)
  BY DEF AccessLanes
<1>5. \A lane \in l..(l + a.size - 1) : lane - l + 1 \in 1..a.size
  BY <1>1, <1>3
<1>6. StoreLanes(a, bytes) = [lane \in Lanes |-> IF lane \in l..(l + a.size - 1)
                                                 THEN bytes[lane - l + 1] ELSE 0]
  BY <1>4 DEF StoreLanes
<1>7. l \in Lanes /\ l + a.size - 1 \in Lanes
  BY <1>1, AccessLane
<1> HIDE DEF l
<1>8. ASSUME NEW k \in 1..a.size
      PROVE  l + k - 1 \in l..(l + a.size - 1) /\ (l + k - 1) - l + 1 = k /\ l + k - 1 \in Lanes
  <2> DEFINE n == a.size
  <2>1. l \in 0..3 /\ l + n - 1 \in 0..3 /\ n \in Int /\ k \in 1..n
    BY <1>1, <1>7 DEF Lanes
  <2> HIDE DEF n
  <2>2. l + k - 1 \in l..(l + n - 1) /\ (l + k - 1) - l + 1 = k /\ l + k - 1 \in 0..3
    BY <2>1
  <2> QED
    BY <2>2 DEF Lanes, n
<1>9. StoreLanes(a, bytes) \in Word
  BY <1>2, <1>5, <1>6 DEF Word
<1>10. ASSUME NEW k \in 1..a.size PROVE StoreLanes(a, bytes)[l + k - 1] = bytes[k]
  BY <1>6, <1>8
<1> QED
  BY <1>9, <1>10 DEF l, Carries

(***************************************************************************)
(* Every step keeps the two instances alike                                *)
(***************************************************************************)
LEMMA TypeStep ==
    ASSUME IInv, NEW byte \in Byte, Type(byte)
    PROVE  IInv'
<1>1. /\ dut \in Platform /\ ref \in Platform /\ Alike(dut, ref) /\ dut.output = ref.output
      /\ typed \in Seq(Byte) /\ received \in Seq(Byte) /\ typed = received \o dut.input
      /\ program \in Programs
  BY DEF IInv, TypesOK, InputConserved
<1>2. dut.input \in Seq(Byte) /\ ref.input = dut.input /\ dut.input \o <<byte>> \in Seq(Byte)
  BY <1>1 DEF Platform, Alike
<1>3. /\ dut' = [dut EXCEPT !.input = dut.input \o <<byte>>]
      /\ ref' = [ref EXCEPT !.input = dut.input \o <<byte>>]
      /\ typed' = Append(typed, byte) /\ received' = received /\ program' = program
  BY <1>1, <1>2 DEF Type, appendUartInput, Platform
<1> DEFINE input == dut.input \o <<byte>>
<1> HIDE DEF input
<1>4. dut' \in Platform /\ ref' \in Platform /\ dut'.input = input
      /\ Alike(dut', ref') /\ dut'.output = ref'.output
  <2>1. input \in Seq(Byte) /\ dut' = [dut EXCEPT !.input = input]
        /\ ref' = [ref EXCEPT !.input = input]
    BY <1>2, <1>3 DEF input
  <2>2. dut' \in Platform /\ ref' \in Platform
    BY <1>1, <2>1 DEF Platform
  <2>3. /\ dut'.input = input /\ dut'.output = dut.output /\ dut'.mtime = dut.mtime
        /\ SameRegisters(dut', dut)
    BY <1>1, <2>1 DEF Platform, SameRegisters
  <2>4. /\ ref'.input = input /\ ref'.output = ref.output /\ ref'.mtime = ref.mtime
        /\ SameRegisters(ref', ref)
    BY <1>1, <2>1 DEF Platform, SameRegisters
  <2> QED
    BY <1>1, <2>2, <2>3, <2>4 DEF Alike, SameRegisters
<1>5. typed' = received \o input /\ typed' \in Seq(Byte)
  <2>1. typed' = Append(received \o dut.input, byte)
    BY <1>1, <1>3
  <2>2. typed' = received \o input
    BY <1>1, <1>2, <2>1, ConcatAppend DEF input
  <2>3. typed \in Seq(Byte) /\ typed' = Append(typed, byte)
    BY <1>1, <1>3
  <2>4. typed' \in Seq(Byte)
    BY <2>3
  <2> QED
    BY <2>2, <2>4
<1> QED
  BY <1>1, <1>3, <1>4, <1>5 DEF IInv, TypesOK, InputConserved, Alike, SameRegisters

\* What a load does to the two instances.
LEMMA LoadEffect ==
    ASSUME IInv, NEW a \in Accesses, Load(a)
    PROVE  /\ dut' \in Platform /\ ref' \in Platform
           /\ Alike(dut', ref') /\ dut'.output = ref'.output
           /\ dut'.mtime = dut.mtime /\ dut'.mtimecmp = dut.mtimecmp
           /\ InputConserved' /\ received' \in Seq(Byte)
<1>1. /\ dut \in Platform /\ ref \in Platform /\ Alike(dut, ref) /\ dut.output = ref.output
      /\ typed \in Seq(Byte) /\ received \in Seq(Byte) /\ typed = received \o dut.input
  BY DEF IInv, TypesOK, InputConserved
<1>2. /\ a.size \in {1, 2, 4} /\ a.address \in Nat
      /\ a.address % a.size = 0 /\ isDevice(a.address, a.size)
  BY AccessForm
<1> DEFINE bus == readBus(dut, a.address, a.size)
           str == readBytes(ref, a.address, a.size)
<1>3. /\ Backed(a.address) => ReadJoint(bus, str, dut, ref, a.address, a.size)
      /\ ~Backed(a.address) => bus.platform = dut /\ str.platform = ref
  BY <1>1, <1>2, ReadPaths
<1>4. dut' = bus.platform /\ ref' = str.platform /\ typed' = typed
      /\ received' = IF a.address = Uart.base /\ dut.input # <<>> /\ ~Dlab(dut)
                     THEN Append(received, bus.data[0]) ELSE received
  BY DEF Load
<1>5. dut.input \in Seq(Byte)
  BY <1>1 DEF Platform
<1> HIDE DEF bus, str
<1>6. CASE ~Backed(a.address)
  <2>1. ~PopsReceiveBuffer(dut, a.address)
    <3>1. Uart.base \in Nat /\ Uart.size \in Nat /\ Uart.size > 0
          /\ Clint.base \in Nat /\ Clint.size \in Nat /\ Disjoint(Clint, Uart)
          /\ Clint.size > 0
      BY PlatformAssumption DEF Region
    <3> QED
      BY <1>6, <3>1 DEF PopsReceiveBuffer, ReceiveBuffer, Backed, InUart, InClint, RegionEnd, Disjoint
  <2>2. received' = received
    BY <1>1, <1>2, <1>4, <2>1, ReceivedByte
  <2> QED
    BY <1>1, <1>3, <1>4, <1>6, <2>2 DEF InputConserved
<1>7. CASE Backed(a.address)
  <2>1. ReadJoint(bus, str, dut, ref, a.address, a.size)
    BY <1>3, <1>7
  <2>2. a.size > 0 /\ a.size # 0
    BY <1>2
  <2>3. /\ UntouchedButInput(dut', dut) /\ UntouchedButInput(ref', ref)
        /\ dut'.input = InputAfter(dut, a.address) /\ ref'.input = dut'.input
        /\ bus.data[a.address % 4] = readByte(dut, a.address).value
    BY <1>4, <2>1, <2>2 DEF ReadJoint
  <2>4. /\ dut' \in Platform /\ ref' \in Platform
        /\ Alike(dut', ref') /\ dut'.output = ref'.output
        /\ dut'.mtime = dut.mtime /\ dut'.mtimecmp = dut.mtimecmp
    BY <1>1, <2>3 DEF UntouchedButInput, Alike, SameRegisters
  <2>5. CASE PopsReceiveBuffer(dut, a.address)
    <3>1. a.address = Uart.base /\ dut.input # <<>> /\ ~Dlab(dut) /\ a.address % 4 = 0
          /\ readByte(dut, a.address).value = Head(dut.input)
      BY <1>1, <1>2, <2>5, ReceivedByte
    <3>2. received' = Append(received, Head(dut.input)) /\ dut'.input = Tail(dut.input)
      BY <1>4, <2>3, <2>5, <3>1 DEF InputAfter
    <3>3. typed = Append(received, Head(dut.input)) \o Tail(dut.input)
      BY <1>1, <1>5, <3>1, MoveHead
    <3>4. Head(dut.input) \in Byte
      BY <1>5, <3>1
    <3>5. received' \in Seq(Byte)
      BY <1>1, <3>2, <3>4
    <3>6. InputConserved'
      BY <1>4, <3>2, <3>3 DEF InputConserved
    <3> QED
      BY <2>4, <3>5, <3>6
  <2>6. CASE ~PopsReceiveBuffer(dut, a.address)
    <3>1. received' = received /\ dut'.input = dut.input
      BY <1>1, <1>2, <1>4, <2>3, <2>6, ReceivedByte DEF InputAfter
    <3> QED
      BY <1>1, <1>4, <2>4, <3>1 DEF InputConserved
  <2> QED
    BY <2>5, <2>6
<1> QED
  BY <1>6, <1>7

\* A store of the core is a write on both paths.
LEMMA StorePaths ==
    ASSUME NEW a \in Accesses, NEW bytes \in [1..a.size -> Byte],
           NEW p \in Platform, NEW q \in Platform, SameRegisters(p, q)
    PROVE  LET bus == writeBus(p, a.address, StoreLanes(a, bytes), AccessLanes(a.address, a.size))
               str == writeBytes(q, a.address, bytes)
           IN  /\ Backed(a.address) =>
                    /\ WriteJoint(bus, str, p, q, a.address, bytes, a.size)
                    /\ q.mtime = bus.platform.mtime => str.platform.mtime = q.mtime
               /\ ~Backed(a.address) => bus.platform = p /\ str.platform = q
<1> DEFINE size == a.size
           address == a.address
           data == StoreLanes(a, bytes)
<1>1. /\ size \in {1, 2, 4} /\ address \in Nat /\ address % size = 0 /\ isDevice(address, size)
      /\ bytes \in [1..size -> Byte] /\ data \in Word /\ Carries(data, address, size, bytes)
  BY AccessForm, StoredWord
<1> HIDE DEF size, address, data
<1>2. LET bus == writeBus(p, address, data, AccessLanes(address, size))
          str == writeBytes(q, address, bytes)
      IN  /\ Backed(address) =>
               /\ WriteJoint(bus, str, p, q, address, bytes, size)
               /\ q.mtime = bus.platform.mtime => str.platform.mtime = q.mtime
          /\ ~Backed(address) => bus.platform = p /\ str.platform = q
  <2>1. CASE size = 1
    BY <1>1, <2>1, WritePaths
  <2>2. CASE size = 2
    BY <1>1, <2>2, WritePaths
  <2>3. CASE size = 4
    BY <1>1, <2>3, WritePaths
  <2> QED
    BY <1>1, <2>1, <2>2, <2>3
<1> QED
  BY <1>2 DEF size, address, data

\* What a store does to them.
LEMMA StoreEffect ==
    ASSUME IInv, NEW a \in Accesses, NEW bytes \in [1..a.size -> Byte], Store(a, bytes)
    PROVE  /\ dut' \in Platform /\ ref' \in Platform
           /\ Alike(dut', ref') /\ dut'.output = ref'.output /\ dut'.input = dut.input
           /\ ~InClint(a.address) => dut'.mtime = dut.mtime /\ dut'.mtimecmp = dut.mtimecmp
<1>1. /\ dut \in Platform /\ ref \in Platform /\ Alike(dut, ref) /\ dut.output = ref.output
  BY DEF IInv, TypesOK
<1> DEFINE bus == writeBus(dut, a.address, StoreLanes(a, bytes), AccessLanes(a.address, a.size))
           q == setTime(ref, dut'.mtime)
           str == writeBytes(q, a.address, bytes)
<1>4. dut' = bus.platform /\ ref' = str.platform
  BY DEF Store
<1>5. SameRegisters(dut, ref)
  BY <1>1 DEF Alike
<1>6. bus.platform \in Platform
  <2> DEFINE other == writeBytes(ref, a.address, bytes)
  <2>1. /\ Backed(a.address) => WriteJoint(bus, other, dut, ref, a.address, bytes, a.size)
        /\ ~Backed(a.address) => bus.platform = dut
    BY <1>1, <1>5, StorePaths
  <2> HIDE DEF bus, other
  <2>2. WriteJoint(bus, other, dut, ref, a.address, bytes, a.size) => bus.platform \in Platform
    BY DEF WriteJoint
  <2> QED
    BY <1>1, <2>1, <2>2
<1>7. /\ q \in Platform /\ q.mtime = dut'.mtime /\ SameRegisters(q, ref)
      /\ q.input = ref.input /\ q.output = ref.output
  <2>1. dut'.mtime \in Time
    BY <1>4, <1>6 DEF Platform
  <2> QED
    BY <1>1, <2>1, TimeSet
<1>8. SameRegisters(dut, q)
  BY <1>5, <1>7 DEF SameRegisters
<1> HIDE DEF q
<1>9. /\ Backed(a.address) =>
           /\ WriteJoint(bus, str, dut, q, a.address, bytes, a.size)
           /\ q.mtime = bus.platform.mtime => str.platform.mtime = q.mtime
      /\ ~Backed(a.address) => bus.platform = dut /\ str.platform = q
  BY <1>1, <1>7, <1>8, StorePaths
<1> HIDE DEF bus, str
<1>10. CASE Backed(a.address)
  <2>1. WriteJoint(bus, str, dut, q, a.address, bytes, a.size) /\ ref'.mtime = dut'.mtime
    BY <1>4, <1>7, <1>9, <1>10
  <2>2. /\ dut' \in Platform /\ ref' \in Platform /\ SameRegisters(dut', ref')
        /\ dut'.input = dut.input /\ ref'.input = ref.input
        /\ dut'.output = ref'.output
        /\ ~InClint(a.address) => dut'.mtime = dut.mtime /\ dut'.mtimecmp = dut.mtimecmp
    BY <1>1, <1>4, <1>7, <2>1 DEF WriteJoint
  <2> QED
    BY <1>1, <2>1, <2>2 DEF Alike
<1>11. CASE ~Backed(a.address)
  <2>1. dut' = dut /\ ref' = q
    BY <1>4, <1>9, <1>11
  <2> QED
    BY <1>1, <1>7, <1>8, <2>1 DEF Alike, SameRegisters
<1> QED
  BY <1>10, <1>11

\* A cycle ticks the core's devices and sets the time of the reference's.
LEMMA CycleEffect ==
    ASSUME IInv, Cycle
    PROVE  /\ dut' \in Platform /\ ref' \in Platform
           /\ Alike(dut', ref') /\ dut'.output = ref'.output /\ dut'.input = dut.input
           /\ dut'.mtime >= dut.mtime /\ dut'.mtimecmp = dut.mtimecmp
<1>1. /\ dut \in Platform /\ ref \in Platform /\ Alike(dut, ref) /\ dut.output = ref.output
  BY DEF IInv, TypesOK
<1>2. /\ dut' \in Platform /\ dut'.mtime >= dut.mtime /\ SameRegisters(dut', dut)
      /\ dut'.input = dut.input /\ dut'.output = dut.output
  BY <1>1, Ticked DEF Cycle
<1>3. dut'.mtime \in Time /\ ref' = setTime(ref, dut'.mtime)
  BY <1>2 DEF Cycle, Platform
<1>4. /\ ref' \in Platform /\ ref'.mtime = dut'.mtime /\ SameRegisters(ref', ref)
      /\ ref'.input = ref.input /\ ref'.output = ref.output
  BY <1>1, <1>3, TimeSet
<1> QED
  BY <1>1, <1>2, <1>4 DEF Alike, SameRegisters

\* The invariant is inductive.
LEMMA InvPreserved == IInv /\ [Next]_vars => IInv'
<1> SUFFICES ASSUME IInv, [Next]_vars PROVE IInv'
  OBVIOUS
<1>1. CASE \E byte \in Byte : Type(byte)
  BY <1>1, TypeStep
<1>2. ASSUME NEW a \in Accesses, Load(a) PROVE IInv'
  <2>1. program' = program /\ typed' = typed
    BY <1>2 DEF Load
  <2> QED
    BY <1>2, <2>1, LoadEffect DEF IInv, TypesOK
<1>3. ASSUME NEW a \in Accesses, NEW bytes \in [1..a.size -> Byte], Store(a, bytes) PROVE IInv'
  <2>1. program' = program /\ typed' = typed /\ received' = received
    BY <1>3 DEF Store
  <2> QED
    BY <1>3, <2>1, StoreEffect DEF IInv, TypesOK, InputConserved
<1>4. CASE Cycle
  <2>1. program' = program /\ typed' = typed /\ received' = received
    BY <1>4 DEF Cycle
  <2> QED
    BY <1>4, <2>1, CycleEffect DEF IInv, TypesOK, InputConserved
<1>5. CASE UNCHANGED vars
  BY <1>5 DEF vars, IInv, TypesOK, InputConserved, Alike, SameRegisters
<1> QED
  BY <1>1, <1>2, <1>3, <1>4, <1>5 DEF Next

(* The inductive invariant: both instances are platforms with the same     *)
(* registers, time, input and output, and the input adds up to what was    *)
(* typed.                                                                  *)
THEOREM LockstepInvariant == Spec => []IInv
<1> QED
  BY InitInv, InvPreserved, PTL DEF Spec

(* The instance of the reference model follows the instance behind the AXI *)
(* port register by register (PlatformDevices::readBus and writeBus        *)
(* against read and write), for any address map and timer width.           *)
THEOREM PlatformsAgree == Spec => []SamePlatform
<1>1. IInv => SamePlatform
  BY SameFields DEF IInv, TypesOK, SamePlatform
<1> QED
  BY <1>1, LockstepInvariant, PTL

(* No aligned load tells the bus path from the byte-string path.           *)
THEOREM LoadsIndistinguishable == Spec => []LoadsAgree
<1>1. ASSUME IInv, NEW a \in Accesses
      PROVE  LET bus == readBus(dut, a.address, a.size)
                 str == readBytes(ref, a.address, a.size)
             IN  /\ bus.ok = str.ok
                 /\ bus.ok => \A k \in 1..a.size : bus.data[(a.address % 4) + k - 1] = str.bytes[k]
  <2> DEFINE bus == readBus(dut, a.address, a.size)
             str == readBytes(ref, a.address, a.size)
  <2>1. dut \in Platform /\ ref \in Platform /\ Alike(dut, ref)
    BY <1>1 DEF IInv, TypesOK
  <2>2. /\ bus.ok = Backed(a.address) /\ str.ok = Backed(a.address)
        /\ Backed(a.address) => ReadJoint(bus, str, dut, ref, a.address, a.size)
    BY <2>1, AccessForm, ReadPaths
  <2> HIDE DEF bus, str
  <2>3. Backed(a.address) => \A k \in 1..a.size : bus.data[(a.address % 4) + k - 1] = str.bytes[k]
    BY <2>2 DEF ReadJoint
  <2> QED
    BY <2>2, <2>3 DEF bus, str
<1>2. IInv => LoadsAgree
  BY <1>1 DEF LoadsAgree
<1> QED
  BY <1>2, LockstepInvariant, PTL

(* Typed bytes are delivered once and in order.                            *)
THEOREM InputIsConserved == Spec => []InputConserved
<1>1. IInv => InputConserved
  BY DEF IInv
<1> QED
  BY <1>1, LockstepInvariant, PTL

(* A bus access that readBus or writeBus refuses has changed nothing, with *)
(* every combination of write strobes.                                     *)
THEOREM RefusalsHarmless == Spec => []RefusedHasNoEffect
<1>1. ASSUME IInv, NEW a \in Accesses
      PROVE  /\ LET r == readBus(dut, a.address, a.size) IN r.ok \/ r.platform = dut
             /\ a.size = 4 => \A strobe \in SUBSET Lanes :
                  LET w == writeBus(dut, a.address, [lane \in Lanes |-> ByteBase - 1], strobe)
                  IN  w.ok \/ w.platform = dut
  <2>1. dut \in Platform /\ ref \in Platform /\ Alike(dut, ref)
    BY <1>1 DEF IInv, TypesOK
  <2>2. LET r == readBus(dut, a.address, a.size) IN r.ok \/ r.platform = dut
    <3> DEFINE r == readBus(dut, a.address, a.size)
    <3>1. r.ok = Backed(a.address) /\ (~Backed(a.address) => r.platform = dut)
      BY <2>1, AccessForm, ReadPaths
    <3> HIDE DEF r
    <3>2. r.ok \/ r.platform = dut
      BY <3>1
    <3> QED
      BY <3>2 DEF r
  <2>3. [lane \in Lanes |-> ByteBase - 1] \in Word
    BY PlatformAssumption DEF Word, Byte
  <2>4. ASSUME a.size = 4, NEW strobe \in SUBSET Lanes
        PROVE  LET w == writeBus(dut, a.address, [lane \in Lanes |-> ByteBase - 1], strobe)
               IN  w.ok \/ w.platform = dut
    <3>1. a.address \in Nat /\ a.address % 4 = 0 /\ isDevice(a.address, 4)
      BY <2>4, AccessForm
    <3> QED
      BY <2>1, <2>3, <3>1, WriteRefused
  <2> QED
    BY <2>2, <2>4
<1>2. IInv => RefusedHasNoEffect
  BY <1>1 DEF RefusedHasNoEffect
<1> QED
  BY <1>2, LockstepInvariant, PTL

(* A pending timer interrupt is withdrawn only by a store to the CLINT:    *)
(* loads, typing and the saturating clock leave it pending.                *)
THEOREM TimerPersists == Spec => TimerStaysPending
<1> DEFINE Withdrawn == timerInterrupt(dut) /\ ~timerInterrupt(dut)' =>
                          \E a \in Accesses : \E bytes \in [1..a.size -> Byte] :
                            InClint(a.address) /\ Store(a, bytes)
<1>1. ASSUME IInv, [Next]_vars PROVE [Withdrawn]_vars
  <2>0. dut.mtime \in Nat /\ dut.mtimecmp \in Nat
    BY <1>1, TimeNat DEF IInv, TypesOK, Platform
  <2>1. ASSUME dut'.mtime = dut.mtime, dut'.mtimecmp = dut.mtimecmp PROVE Withdrawn
    BY <2>1 DEF timerInterrupt
  <2>2. CASE \E byte \in Byte : Type(byte)
    <3>1. dut'.mtime = dut.mtime /\ dut'.mtimecmp = dut.mtimecmp
      BY <1>1, <2>2 DEF Type, appendUartInput, IInv, TypesOK, Platform
    <3> QED
      BY <2>1, <3>1
  <2>3. ASSUME NEW a \in Accesses, Load(a) PROVE Withdrawn
    BY <1>1, <2>1, <2>3, LoadEffect
  <2>4. ASSUME NEW a \in Accesses, NEW bytes \in [1..a.size -> Byte], Store(a, bytes)
        PROVE  Withdrawn
    <3>1. CASE InClint(a.address)
      BY <2>4, <3>1
    <3>2. CASE ~InClint(a.address)
      <4>1. dut'.mtime = dut.mtime /\ dut'.mtimecmp = dut.mtimecmp
        BY <1>1, <2>4, <3>2, StoreEffect
      <4> QED
        BY <2>1, <4>1
    <3> QED
      BY <3>1, <3>2
  <2>5. CASE Cycle
    <3>1. dut'.mtime >= dut.mtime /\ dut'.mtimecmp = dut.mtimecmp /\ dut' \in Platform
      BY <1>1, <2>5, CycleEffect
    <3>2. dut'.mtime \in Nat
      BY <3>1, TimeNat DEF Platform
    <3> QED
      BY <2>0, <3>1, <3>2 DEF timerInterrupt
  <2>6. CASE UNCHANGED vars
    BY <2>6
  <2> HIDE DEF Withdrawn
  <2> QED
    BY <1>1, <2>2, <2>3, <2>4, <2>5, <2>6 DEF Next
<1> QED
  BY <1>1, LockstepInvariant, PTL DEF Spec, TimerStaysPending
=============================================================================
