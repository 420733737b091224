---------------------------- MODULE DeviceLockstep ----------------------------
(***************************************************************************)
(* The two platforms of a difftest run: dut is the instance behind the AXI *)
(* port (readBus, writeBus, tick), ref the instance of the reference model *)
(* (read, write, setTime).  Here a device access reaches both in the same  *)
(* cycle, so every difference comes from the two access paths themselves.  *)
(***************************************************************************)
EXTENDS PlatformDevices

CONSTANTS
    Programs,      \* what may be run, see Program
    MaxOutput      \* bound on the bytes sent by the UART

\* The device addresses a program stores to, mtime when it starts (0, or that
\* of a checkpoint) and a bound on the bytes typed at the terminal meanwhile.
Program == [stored : SUBSET Nat, time : Time, maxTyped : Nat]

ASSUME LockstepBounds == MaxOutput \in Nat /\ \A p \in Programs : p \in Program

VARIABLES
    program,       \* the program that runs; never changes
    dut,           \* PlatformDevices of main.cc, driven by the core
    ref,           \* SpikeReference::Impl::platform
    typed,         \* history: every byte appended to the input
    received       \* history: every byte the core took from the receive buffer
vars == <<program, dut, ref, typed, received>>

\* Device accesses of an RV32 core: naturally aligned, at most a word.
Accesses ==
    {a \in [address : Clint.base..(RegionEnd(Clint) - 1) \cup Uart.base..(Uart.base + 7),
            size : {1, 2, 4}] :
       a.address % a.size = 0 /\ isDevice(a.address, a.size)}

Init == /\ program \in Programs
        /\ dut = InitialPlatform(program.time, <<>>)
        /\ ref = InitialPlatform(program.time, <<>>)
        /\ typed = <<>>
        /\ received = <<>>

\* appendUartInput on both sides, as the polling of the terminal does.
Type(byte) ==
    /\ Len(typed) < program.maxTyped
    /\ typed' = Append(typed, byte)
    /\ dut' = appendUartInput(dut, <<byte>>)
    /\ ref' = appendUartInput(ref, <<byte>>)
    /\ UNCHANGED <<program, received>>

Load(a) ==
    /\ dut' = readBus(dut, a.address, a.size).platform
    /\ ref' = readBytes(ref, a.address, a.size).platform
    /\ received' = IF a.address = Uart.base /\ dut.input # <<>> /\ ~Dlab(dut)
                   THEN Append(received, readBus(dut, a.address, a.size).data[0])
                   ELSE received
    /\ UNCHANGED <<program, typed>>

\* The lanes of a store carry its bytes at their place in the word.
StoreLanes(a, bytes) ==
    [lane \in Lanes |-> IF lane \in AccessLanes(a.address, a.size)
                        THEN bytes[lane - (a.address % 4) + 1] ELSE 0]

Store(a, bytes) ==
    /\ a.address \in program.stored
    /\ a.address = Uart.base => Len(dut.output) < MaxOutput
    /\ dut' = writeBus(dut, a.address, StoreLanes(a, bytes), AccessLanes(a.address, a.size)).platform
    /\ ref' = writeBytes(setTime(ref, dut'.mtime), a.address, bytes).platform
    /\ UNCHANGED <<program, typed, received>>

\* One clock cycle of the simulated core; the main loop hands the time of the
\* AXI side to the reference in every cycle, before the reference executes.
Cycle == /\ dut' = tick(dut)
         /\ ref' = setTime(ref, dut'.mtime)
         /\ UNCHANGED <<program, typed, received>>

Next == \/ \E byte \in Byte : Type(byte)
        \/ \E a \in Accesses : Load(a)
        \/ \E a \in Accesses : \E bytes \in [1..a.size -> Byte] : Store(a, bytes)
        \/ Cycle

Spec == Init /\ [][Next]_vars

(***************************************************************************)
(* Properties                                                              *)
(***************************************************************************)

(* Whatever the core has done to its devices through 32-bit bus lanes, the *)
(* reference's instance holds the same registers, input queue and output   *)
(* after the same accesses as byte strings (only the cycle divider differs: *)
(* it runs on the AXI side and setTime hands the result over).             *)
SamePlatform == ref = [dut EXCEPT !.subcycle = ref.subcycle]

(* Every load returns the same bytes, and succeeds or fails alike, through *)
(* readBus and through read: no aligned access tells the two paths apart.  *)
LoadsAgree ==
    \A a \in Accesses :
      LET bus == readBus(dut, a.address, a.size)
          str == readBytes(ref, a.address, a.size)
      IN  /\ bus.ok = str.ok
          /\ bus.ok => \A k \in 1..a.size : bus.data[(a.address % 4) + k - 1] = str.bytes[k]

(* A byte typed at the terminal is either still queued or was returned by  *)
(* exactly one load of the receive buffer, in order: reading RBR as the    *)
(* divisor latch or together with other registers never drops one.         *)
InputConserved == typed = received \o dut.input

(* A bus access that is refused leaves the device as it was: no prefix of  *)
(* its lanes has taken effect when writeBus or readBus gives up.           *)
RefusedHasNoEffect ==
    \A a \in Accesses :
      /\ LET r == readBus(dut, a.address, a.size) IN r.ok \/ r.platform = dut
      /\ a.size = 4 => \A strobe \in SUBSET Lanes :
           LET w == writeBus(dut, a.address, [lane \in Lanes |-> ByteBase - 1], strobe)
           IN  w.ok \/ w.platform = dut

(* The timer interrupt, once pending, goes away only when a store changes  *)
(* mtime or mtimecmp: mtime stops at its maximum instead of wrapping.      *)
TimerStaysPending ==
    [][timerInterrupt(dut) /\ ~timerInterrupt(dut)' =>
         \E a \in Accesses : \E bytes \in [1..a.size -> Byte] :
           InClint(a.address) /\ Store(a, bytes)]_vars
=============================================================================
