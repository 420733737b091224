--------------------------- MODULE PlatformDevices ---------------------------
(***************************************************************************)
(* The memory-mapped platform of the simulator (PlatformDevices.cc): the   *)
(* address map, a CLINT with mtime and mtimecmp, and a 16550-style UART.   *)
(* The simulator holds two instances of the class, one behind the AXI port *)
(* of the simulated core and one behind the reference model, so the state  *)
(* is a record that the operators take and return.                         *)
(*                                                                         *)
(* Addresses, bytes and the 64-bit timer are scaled by constants; a 32-bit *)
(* bus word is a function from its four byte lanes to bytes.               *)
(***************************************************************************)
EXTENDS Integers, Sequences, SequencesExt

CONSTANTS
    Ram, Clint, Uart, WriteCombine, \* the regions, [base, size]
    AddressSpace,     \* 2^32 in the code
    MtimecmpOffset,   \* 0x4000 in the code
    MtimeOffset,      \* 0xbff8 in the code
    ByteBase,         \* 256 in the code
    TimeBytes,        \* 8 in the code: bytes of mtime and of mtimecmp
    LsrIdle,          \* 0x60 in the code: the transmitter is always empty
    TimerDivider      \* kTimerDivider, CPU cycles per timer tick

Region == [base : Nat, size : Nat]
RegionEnd(r) == r.base + r.size
Disjoint(r, s) == RegionEnd(r) <= s.base \/ RegionEnd(s) <= r.base

ASSUME PlatformAssumption ==
    /\ {Ram, Clint, Uart, WriteCombine} \subseteq Region
    /\ AddressSpace \in Nat
    /\ \A r \in {Ram, Clint, Uart, WriteCombine} :
          r.size > 0 /\ r.base % 4 = 0 /\ RegionEnd(r) <= AddressSpace
    /\ Disjoint(Ram, Clint) /\ Disjoint(Ram, Uart) /\ Disjoint(Clint, Uart)
    /\ Disjoint(Ram, WriteCombine) /\ Disjoint(Clint, WriteCombine)
    /\ Disjoint(Uart, WriteCombine)
    /\ Uart.size >= 8
    /\ ByteBase \in Nat /\ ByteBase >= 2 /\ ByteBase % 2 = 0
    /\ LsrIdle \in 0..(ByteBase - 2) /\ LsrIdle % 2 = 0
    /\ TimeBytes \in Nat \ {0} /\ TimeBytes % 4 = 0
    /\ MtimecmpOffset \in Nat /\ MtimecmpOffset % 4 = 0
    /\ MtimeOffset \in Nat /\ MtimeOffset % 4 = 0
    /\ MtimecmpOffset + TimeBytes <= MtimeOffset
    /\ MtimeOffset + TimeBytes <= Clint.size
    /\ TimerDivider \in Nat \ {0}

\* The laws of powers, as far as the bytes of a timer register need them.
ASSUME PowerAssumption ==
    /\ ByteBase ^ 0 = 1 /\ ByteBase ^ 1 = ByteBase
    /\ \A i \in 0..TimeBytes : ByteBase ^ i \in Nat \ {0}
    /\ \A i, j \in 0..TimeBytes :
          i + j <= TimeBytes => ByteBase ^ (i + j) = ByteBase ^ i * ByteBase ^ j

Byte == 0..(ByteBase - 1)
Lanes == 0..3
Word == [Lanes -> Byte]
ZeroWord == [lane \in Lanes |-> 0]
WordOf(address) == address - (address % 4)

TimeMax == ByteBase ^ TimeBytes - 1
Time == 0..TimeMax

(***************************************************************************)
(* The address map.  A range belongs to a region when all of it does.      *)
(***************************************************************************)
contains(address, size, region) ==
    /\ size # 0
    /\ address >= region.base
    /\ address + size <= RegionEnd(region)
    /\ address + size <= AddressSpace

isRam(address, size) == contains(address, size, Ram)
isWriteCombine(address, size) == contains(address, size, WriteCombine)
isDevice(address, size) ==
    /\ contains(address, size, Clint) \/ contains(address, size, Uart)
    /\ ~isWriteCombine(address, size)

(***************************************************************************)
(* The device state and its registers.                                     *)
(***************************************************************************)
Platform == [mtime : Time, mtimecmp : Time, subcycle : 0..(TimerDivider - 1),
             ier : Byte, lcr : Byte, mcr : Byte, dll : Byte, dlm : Byte,
             input : Seq(Byte), output : Seq(Byte)]

InitialPlatform(time, input) ==
    [mtime |-> time, mtimecmp |-> TimeMax, subcycle |-> 0,
     ier |-> 0, lcr |-> 0, mcr |-> 0, dll |-> 1, dlm |-> 0,
     input |-> input, output |-> <<>>]

\* Bit 7 of LCR, the divisor latch access bit.
Dlab(p) == p.lcr >= ByteBase \div 2

ByteOf(time, k) == (time \div ByteBase ^ k) % ByteBase
WithByte(time, k, value) == time + (value - ByteOf(time, k)) * ByteBase ^ k

InClint(address) == address >= Clint.base /\ address < RegionEnd(Clint)
InUart(address) == address >= Uart.base /\ address < RegionEnd(Uart)
MtimecmpByte(address) == address - Clint.base - MtimecmpOffset
MtimeByte(address) == address - Clint.base - MtimeOffset
\* Mutant: the upper end of a timer register is off by one.
Fault_TimerBytes == 0..(TimeBytes - 2)
TimerBytes == 0..(TimeBytes - 1)

\* Addresses whose byte registers exist; any other access fails.
Backed(address) ==
    IF InClint(address)
    THEN MtimecmpByte(address) \in TimerBytes \/ MtimeByte(address) \in TimerBytes
    ELSE InUart(address)

ReceiveBuffer(address) == InUart(address) /\ address = Uart.base
LineStatus(p) == LsrIdle + (IF p.input = <<>> THEN 0 ELSE 1)

UartRegister(p, register) ==
    CASE register = 0 -> IF Dlab(p) THEN p.dll
                         ELSE IF p.input = <<>> THEN 0 ELSE Head(p.input)
      [] register = 1 -> IF Dlab(p) THEN p.dlm ELSE p.ier
      [] register = 2 -> 1
      [] register = 3 -> p.lcr
      [] register = 4 -> p.mcr
      [] register = 5 -> LineStatus(p)
      [] OTHER -> 0

\* Mutant: the divisor latch bit is not looked at.
Fault_PopsReceiveBuffer(p, address) ==
    ReceiveBuffer(address) /\ p.input # <<>>
\* The receive buffer gives up its first byte when it is read with DLAB clear.
PopsReceiveBuffer(p, address) ==
    ReceiveBuffer(address) /\ ~Dlab(p) /\ p.input # <<>>

readByte(p, address) ==
    [ok    |-> Backed(address),
     value |-> IF InClint(address)
               THEN IF MtimecmpByte(address) \in TimerBytes
                    THEN ByteOf(p.mtimecmp, MtimecmpByte(address))
                    ELSE IF MtimeByte(address) \in TimerBytes
                         THEN ByteOf(p.mtime, MtimeByte(address)) ELSE 0
               ELSE IF InUart(address) THEN UartRegister(p, address - Uart.base) ELSE 0,
     platform |-> IF PopsReceiveBuffer(p, address)
                  THEN [p EXCEPT !.input = Tail(@)] ELSE p]

WriteUart(p, register, value) ==
    CASE register = 0 /\ Dlab(p)  -> [p EXCEPT !.dll = value]
      [] register = 0 /\ ~Dlab(p) -> [p EXCEPT !.output = Append(@, value)]
      [] register = 1 /\ Dlab(p)  -> [p EXCEPT !.dlm = value]
      [] register = 1 /\ ~Dlab(p) -> [p EXCEPT !.ier = value]
      [] register = 3 -> [p EXCEPT !.lcr = value]
      [] register = 4 -> [p EXCEPT !.mcr = value]
      [] OTHER -> p

WriteClint(p, address, value) ==
    IF MtimecmpByte(address) \in TimerBytes
    THEN [p EXCEPT !.mtimecmp = WithByte(@, MtimecmpByte(address), value)]
    ELSE [p EXCEPT !.mtime = WithByte(@, MtimeByte(address), value)]

writeByte(p, address, value) ==
    [ok       |-> Backed(address),
     platform |-> IF ~Backed(address) THEN p
                  ELSE IF InClint(address) THEN WriteClint(p, address, value)
                  ELSE WriteUart(p, address - Uart.base, value)]

(***************************************************************************)
(* The path of the reference model: a byte string at any address, stopped  *)
(* by the first byte that is not backed.                                   *)
(***************************************************************************)
readNext(r, address) ==
    LET b == readByte(r.platform, address)
    IN  IF ~r.ok THEN r
        ELSE [ok |-> b.ok, bytes |-> Append(r.bytes, b.value), platform |-> b.platform]

readBytes(p, address, size) ==
    LET start == [ok |-> isDevice(address, size), bytes |-> <<>>, platform |-> p]
        after[k \in 0..size] ==
          IF k = 0 THEN start ELSE readNext(after[k - 1], address + k - 1)
    IN  after[size]

writeNext(r, address, value) ==
    LET b == writeByte(r.platform, address, value)
    IN  IF ~r.ok THEN r ELSE [ok |-> b.ok, platform |-> b.platform]

writeBytes(p, address, bytes) ==
    LET start == [ok |-> isDevice(address, Len(bytes)), platform |-> p]
        after[k \in 0..Len(bytes)] ==
          IF k = 0 THEN start ELSE writeNext(after[k - 1], address + k - 1, bytes[k])
    IN  after[Len(bytes)]

(***************************************************************************)
(* The path of the AXI port: one aligned access within a 32-bit word.  The *)
(* four lanes are visited in order and the first failure stops the walk.   *)
(***************************************************************************)
\* Mutant: the value is not shifted to its lane.
FaultLane_readLane(r, word, lanes, lane) ==
    LET b == readByte(r.platform, word + lane)
    IN  IF ~r.ok \/ lane \notin lanes THEN r
        ELSE [ok |-> b.ok, data |-> [r.data EXCEPT ![0] = b.value], platform |-> b.platform]
readLane(r, word, lanes, lane) ==
    LET b == readByte(r.platform, word + lane)
    IN  IF ~r.ok \/ lane \notin lanes THEN r
        ELSE [ok |-> b.ok, data |-> [r.data EXCEPT ![lane] = b.value], platform |-> b.platform]

readWord(p, word, lanes) ==
    LET start == [ok |-> TRUE, data |-> ZeroWord, platform |-> p]
    IN  readLane(readLane(readLane(readLane(start, word, lanes, 0),
                 word, lanes, 1), word, lanes, 2), word, lanes, 3)

\* The lanes of a word that an access of size bytes at address touches.
AccessLanes(address, size) == (address % 4)..((address % 4) + size - 1)

readBus(p, address, size) ==
    IF size \in 1..4 /\ address % size = 0 /\ isDevice(address, size)
    THEN readWord(p, WordOf(address), AccessLanes(address, size))
    ELSE [ok |-> FALSE, data |-> ZeroWord, platform |-> p]

writeLane(r, word, data, strobe, lane) ==
    LET b == writeByte(r.platform, word + lane, data[lane])
    IN  IF ~r.ok \/ lane \notin strobe THEN r
        ELSE [ok |-> b.ok, platform |-> b.platform]

\* Mutant: the lanes are counted from the address instead of its word.
Fault_writeBus(p, address, data, strobe) ==
    LET start == [ok |-> TRUE, platform |-> p]
        r     == writeLane(writeLane(writeLane(writeLane(start, address, data, strobe, 0),
                   address, data, strobe, 1), address, data, strobe, 2), address, data, strobe, 3)
    IN  [ok |-> r.ok /\ strobe # {}, platform |-> r.platform]
\* A beat without strobes writes nothing and is reported as a failure.
writeBus(p, address, data, strobe) ==
    LET start == [ok |-> TRUE, platform |-> p]
        word  == WordOf(address)
        r     == writeLane(writeLane(writeLane(writeLane(start, word, data, strobe, 0),
                   word, data, strobe, 1), word, data, strobe, 2), word, data, strobe, 3)
    IN  [ok |-> r.ok /\ strobe # {}, platform |-> r.platform]

(***************************************************************************)
(* The timer, the terminal and the reference clock.                        *)
(***************************************************************************)
timerInterrupt(p) == p.mtime >= p.mtimecmp

setTime(p, value) == [p EXCEPT !.mtime = value]

\* Mutants: the timer wraps; the timer leaves its range.
Fault_tick(p) ==
    IF p.subcycle + 1 # TimerDivider THEN [p EXCEPT !.subcycle = @ + 1]
    ELSE [p EXCEPT !.subcycle = 0, !.mtime = (@ + 1) % (TimeMax + 1)]
FaultRange_tick(p) ==
    IF p.subcycle + 1 # TimerDivider THEN [p EXCEPT !.subcycle = @ + 1]
    ELSE [p EXCEPT !.subcycle = 0, !.mtime = @ + 1]
tick(p) ==
    IF p.subcycle + 1 # TimerDivider THEN [p EXCEPT !.subcycle = @ + 1]
    ELSE [p EXCEPT !.subcycle = 0, !.mtime = IF @ = TimeMax THEN @ ELSE @ + 1]

appendUartInput(p, input) == [p EXCEPT !.input = @ \o input]
=============================================================================
