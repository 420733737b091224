------------------------------ MODULE AXIMemory ------------------------------
(***************************************************************************)
(* The AXI4 slave behind the simulated core (AXIMemory.cc): two read       *)
(* transactions (id 0 demand, id 1 prefetch) that share one read data      *)
(* channel, one write transaction, main memory, the platform devices and   *)
(* the tohost exit monitor.                                                *)
(*                                                                         *)
(* A clock cycle of the main loop is three steps: Drive computes the       *)
(* slave's pins, Update performs the handshakes of the cycle, Edge is the  *)
(* rising clock edge.  The core is external: an AXI master that keeps a    *)
(* request stable until it is accepted and answers R and B beats when it   *)
(* likes.  It does so also within a cycle: drive answers the id and the    *)
(* address that are shown before the core is evaluated, update looks at    *)
(* them again after it, and a core that drives AR from registers shows the *)
(* same at both.  The pseudo-random stalls are nondeterministic choices.   *)
(***************************************************************************)
EXTENDS PlatformDevices

CONSTANTS
    BusWords,         \* kBusBytes / 4
    Tohost,           \* the address of tohost
    Scenarios,        \* the machines to simulate, and what their cores ask for
    BootTime          \* mtime when the simulation starts (a checkpoint's, or 0)

BusBytes == 4 * BusWords
BusBase(address) == address - (address % BusBytes)
ReadIds == {0, 1}
BusData == [0..(BusWords - 1) -> Word]
ZeroData == [word \in 0..(BusWords - 1) |-> ZeroWord]

ReadRequest == [id : ReadIds, address : 0..(AddressSpace - 1), length : Nat, size : Nat \ {0}]
WriteRequest == [id : Nat, address : 0..(AddressSpace - 1), length : Nat, size : Nat \ {0}]

\* A machine with or without the Linux platform and a tohost word, the
\* requests and W beats its core may make, and the bounds on bytes typed at
\* the terminal and on write bursts started.
Scenario == [platform : BOOLEAN, tohost : BOOLEAN,
             reads : SUBSET ReadRequest, writes : SUBSET WriteRequest,
             beats : SUBSET [data : BusData, strobe : SUBSET (0..(BusBytes - 1))],
             maxTyped : Nat, maxWrites : Nat]

ASSUME AXIAssumption ==
    /\ BusWords \in Nat \ {0}
    /\ AddressSpace > 0 /\ AddressSpace % BusBytes = 0
    /\ Tohost \in 0..(AddressSpace - 1)
    /\ \A s \in Scenarios : s \in Scenario
    /\ BootTime \in Time

\* main gives a tohost address to a machine without the platform only.  Its core
\* writes tohost by beats that start at the word itself, and beats to other
\* words of the same container have no strobe there: observeWrite looks at no
\* other word of a beat, and shifts the lanes of one that is not aligned.
ASSUME TohostAssumption ==
    \A s \in Scenarios : s.tohost =>
      /\ ~s.platform
      /\ \A request \in s.writes, beat \in s.beats : \A k \in 0..request.length :
           LET address == (request.address + k * request.size) % AddressSpace
           IN  BusBase(address) = BusBase(Tohost) =>
                 \/ address = WordOf(Tohost)
                 \/ /\ WordOf(address) # WordOf(Tohost)
                    /\ \A lane \in Lanes : (WordOf(Tohost) - BusBase(Tohost)) + lane \notin beat.strobe

VARIABLES
    scenario,         \* the machine that is simulated; never changes
    phase,            \* the step of the cycle that comes next
    ar, aw, wd,       \* external: requests of the core, with their valid bits
    owedData,         \* external: W beats the core still has to send
    writes,           \* external: write bursts the core has started
    pins,             \* the ready and valid bits drive put on the port
    reads,            \* reads_
    readDataValid, readData, readSelectedId, readResponse,
    write,            \* writeActive_, writeResponseValid_, writeAddress_, ...
    platform, memory,
    exitValue,        \* TestExitMonitor::value_
    exited,           \* update returned an exit code
    typed, received,  \* history: bytes typed, bytes handed to the core
    popped,           \* history: the byte the offered beat took from the UART
    start,            \* history: the read request being served, by id
    seen,             \* history: memory contents since its acceptance, by id
    before, beats, wreq \* history: memory at AW, the W beats since, the AW

core == <<ar, aw, wd, owedData, writes>>
readChannel == <<readDataValid, readData, readSelectedId, readResponse>>
readHistory == <<typed, received, popped, start, seen>>
writeHistory == <<before, beats, wreq>>
vars == <<scenario, phase, core, pins, reads, readChannel, write, platform, memory,
          exitValue, exited, readHistory, writeHistory>>

HasPlatform == scenario.platform    \* platform_ # nullptr
HasTohost == scenario.tohost        \* exit_ has a value

NoRead == [valid |-> FALSE, id |-> 0, address |-> 0, length |-> 0, size |-> 1]
NoData == [valid |-> FALSE, data |-> ZeroData, strobe |-> {}, last |-> FALSE]
Asserted(request) == [valid |-> TRUE, id |-> request.id, address |-> request.address,
                      length |-> request.length, size |-> request.size]
Idle == [active |-> FALSE, address |-> 0, size |-> 4, length |-> 0, beat |-> 0]
IdleWrite == [active |-> FALSE, responseValid |-> FALSE, address |-> 0, size |-> 4,
              length |-> 0, beat |-> 0, id |-> 0, response |-> 0]

NoPins == [ar_ready |-> FALSE, r_valid |-> FALSE, aw_ready |-> FALSE,
           w_ready |-> FALSE, b_valid |-> FALSE]

WordAddresses == {address \in 0..(AddressSpace - 1) : address % 4 = 0}

Init ==
    /\ scenario \in Scenarios
    /\ phase = "drive"
    /\ ar = NoRead /\ aw = NoRead /\ wd = NoData /\ owedData = 0 /\ writes = 0
    /\ pins = NoPins
    /\ reads = [id \in ReadIds |-> Idle]
    /\ readDataValid = FALSE /\ readData = ZeroData
    /\ readSelectedId = 0 /\ readResponse = 0
    /\ write = IdleWrite
    /\ platform = InitialPlatform(BootTime, <<>>)
    /\ memory = [address \in WordAddresses |-> ZeroWord]
    /\ exitValue = ZeroWord /\ exited = FALSE
    /\ typed = <<>> /\ received = <<>> /\ popped = <<>>
    /\ start = [id \in ReadIds |-> NoRead] /\ seen = [id \in ReadIds |-> {}]
    /\ before = memory /\ beats = <<>> /\ wreq = NoRead

(***************************************************************************)
(* Before a cycle: the main loop hands bytes from the terminal over.       *)
(***************************************************************************)
AppendInput(byte) ==
    /\ phase = "drive" /\ ~exited /\ HasPlatform
    /\ Len(typed) < scenario.maxTyped
    /\ typed' = Append(typed, byte)
    /\ platform' = appendUartInput(platform, <<byte>>)
    /\ UNCHANGED <<scenario, phase, core, pins, reads, readChannel, write, memory, exitValue,
                   exited, received, popped, start, seen, writeHistory>>

(***************************************************************************)
(* drive: latch the next read beat, then compute the pins.                 *)
(***************************************************************************)

\* What a read beat returns and does: SLVERR is 2, DECERR is 3.
MemoryBeat(address) ==
    [word \in 0..(BusWords - 1) |-> memory[(BusBase(address % AddressSpace) + 4 * word)]]
ReadBeat(read) ==
    LET bus  == readBus(platform, read.address, read.size)
        lane == (read.address % BusBytes) \div 4
    IN  IF HasPlatform /\ isDevice(read.address, read.size)
        THEN IF read.length # 0 THEN [data |-> ZeroData, response |-> 2, platform |-> platform]
             ELSE IF ~bus.ok THEN [data |-> ZeroData, response |-> 2, platform |-> bus.platform]
             ELSE [data |-> [ZeroData EXCEPT ![lane] = bus.data], response |-> 0,
                   platform |-> bus.platform]
        ELSE IF HasPlatform /\ isWriteCombine(read.address, read.size)
             THEN [data |-> ZeroData, response |-> 0, platform |-> platform]
        ELSE IF HasPlatform /\ ~isRam(read.address, read.size)
             THEN [data |-> ZeroData, response |-> 3, platform |-> platform]
        ELSE [data |-> MemoryBeat(read.address), response |-> 0, platform |-> platform]

\* A demand read goes before a prefetch, beat by beat.
Serving == IF reads[0].active THEN 0 ELSE 1

\* Mutant: a beat that waits on the R channel is latched over.
Fault_CanLatch == reads[0].active \/ reads[1].active
CanLatch == (reads[0].active \/ reads[1].active) /\ ~readDataValid

\* Only the first beat of a burst is delayed at random.
MayWait == reads[Serving].beat = 0

LatchBeat ==
    LET beat == ReadBeat(reads[Serving])
    IN  /\ readSelectedId' = Serving
        /\ readDataValid' = TRUE
        /\ readData' = beat.data
        /\ readResponse' = beat.response
        /\ platform' = beat.platform
        /\ popped' = IF beat.platform.input = platform.input THEN <<>>
                     ELSE <<beat.data[(reads[Serving].address % BusBytes) \div 4][0]>>

\* Mutant: a read is accepted although its slot is occupied.
Fault_ComputePins(random) ==
    pins' = [ar_ready |-> ar.id \in ReadIds /\ random.ar,
             r_valid  |-> readDataValid',
             aw_ready |-> ~write.active /\ ~write.responseValid /\ random.aw,
             w_ready  |-> write.active /\ (write.beat # 0 \/ random.w),
             b_valid  |-> write.responseValid]
ComputePins(random) ==
    pins' = [ar_ready |-> ar.id \in ReadIds /\ ~reads[ar.id].active /\ random.ar,
             r_valid  |-> readDataValid',
             aw_ready |-> ~write.active /\ ~write.responseValid /\ random.aw,
             w_ready  |-> write.active /\ (write.beat # 0 \/ random.w),
             b_valid  |-> write.responseValid]

Drive(random) ==
    /\ phase = "drive" /\ ~exited
    /\ \/ CanLatch /\ LatchBeat
       \/ (CanLatch => MayWait) /\ UNCHANGED <<readChannel, platform, popped>>
    /\ ComputePins(random)
    /\ phase' = "update"
    /\ UNCHANGED <<scenario, core, reads, write, memory, exitValue, exited, typed, received,
                   start, seen, writeHistory>>

(***************************************************************************)
(* update: the handshakes of the cycle, in the order AR, R, AW, W, B.      *)
(***************************************************************************)
arFires == ar.valid /\ pins.ar_ready
rFires(rReady) == pins.r_valid /\ rReady
awFires == aw.valid /\ pins.aw_ready
wFires == wd.valid /\ pins.w_ready
bFires(bReady) == pins.b_valid /\ bReady

AcceptRead(rs) ==
    IF arFires THEN [rs EXCEPT ![ar.id] = [active |-> TRUE, address |-> ar.address,
                       size |-> ar.size, length |-> ar.length, beat |-> 0]]
    ELSE rs

\* Mutants: a burst ends one beat early; it never ends; it advances by a word.
Fault_NextBeat(read) ==
    IF read.beat + 1 >= read.length THEN [read EXCEPT !.active = FALSE]
    ELSE [read EXCEPT !.beat = @ + 1, !.address = @ + read.size]
FaultEnd_NextBeat(read) ==
    IF read.beat = read.length THEN read
    ELSE [read EXCEPT !.beat = @ + 1, !.address = @ + read.size]
FaultAddress_NextBeat(read) ==
    IF read.beat = read.length THEN [read EXCEPT !.active = FALSE]
    ELSE [read EXCEPT !.beat = @ + 1, !.address = @ + 4]
NextBeat(read) ==
    IF read.beat = read.length THEN [read EXCEPT !.active = FALSE]
    ELSE [read EXCEPT !.beat = @ + 1, !.address = @ + read.size]

AcceptWrite(wr) ==
    IF awFires THEN [active |-> TRUE, responseValid |-> wr.responseValid,
                     address |-> aw.address, size |-> aw.size, length |-> aw.length,
                     beat |-> 0, id |-> aw.id, response |-> 0]
    ELSE wr

\* The word of the beat that its own address selects, and its strobes.
NarrowWord(address) == (address % BusBytes) \div 4
NarrowData(address) == wd.data[NarrowWord(address)]
NarrowStrobe(address) == {lane \in Lanes : lane + 4 * NarrowWord(address) \in wd.strobe}

writeRam(address) ==
    LET base == BusBase(address)
    IN  [word \in WordAddresses |->
           IF word \in base..(base + BusBytes - 1)
           THEN [lane \in Lanes |->
                   IF (word - base) + lane \in wd.strobe
                   THEN wd.data[(word - base) \div 4][lane] ELSE memory[word][lane]]
           ELSE memory[word]]

\* Mutant: a later beat that succeeds forgets the error of an earlier one.
Fault_WriteBeat(wr) ==
    LET address == wr.address % AddressSpace
        bus     == writeBus(platform, address, NarrowData(address), NarrowStrobe(address))
        ram     == [memory |-> writeRam(address), platform |-> platform, response |-> 0]
        none    == [memory |-> memory, platform |-> platform, response |-> 0]
    IN  IF HasPlatform /\ isWriteCombine(address, wr.size * (wr.length + 1)) THEN ram
        ELSE IF HasPlatform /\ isDevice(address, wr.size)
             THEN IF wr.length # 0 THEN [none EXCEPT !.response = 2]
                  ELSE [none EXCEPT !.platform = bus.platform,
                                    !.response = IF bus.ok THEN 0 ELSE 2]
        ELSE IF HasPlatform /\ ~isRam(address, wr.size) THEN [none EXCEPT !.response = 3]
        ELSE ram
\* The effect of a W beat on memory and devices and the response it demands;
\* the write-combine window is tested with the length of the whole burst.
WriteBeat(wr) ==
    LET address == wr.address % AddressSpace
        bus     == writeBus(platform, address, NarrowData(address), NarrowStrobe(address))
        ram     == [memory |-> writeRam(address), platform |-> platform, response |-> wr.response]
        none    == [memory |-> memory, platform |-> platform, response |-> 0]
    IN  IF HasPlatform /\ isWriteCombine(address, wr.size * (wr.length + 1)) THEN ram
        ELSE IF HasPlatform /\ isDevice(address, wr.size)
             THEN IF wr.length # 0 THEN [none EXCEPT !.response = 2]
                  ELSE [none EXCEPT !.platform = bus.platform,
                                    !.response = IF bus.ok THEN wr.response ELSE 2]
        ELSE IF HasPlatform /\ ~isRam(address, wr.size) THEN [none EXCEPT !.response = 3]
        ELSE ram

\* Mutant: the whole word is taken, whatever the strobes say.
Fault_observeWrite(address, data, strobe) ==
    IF ~HasTohost \/ WordOf(Tohost) # WordOf(address) THEN exitValue ELSE data
\* TestExitMonitor::observeWrite: the value it holds after a beat.
observeWrite(address, data, strobe) ==
    IF ~HasTohost \/ WordOf(Tohost) # WordOf(address) THEN exitValue
    ELSE [lane \in Lanes |-> IF lane - (address % 4) \in strobe
                             THEN data[lane - (address % 4)] ELSE exitValue[lane]]

ExitReported(address, value) ==
    HasTohost /\ WordOf(Tohost) = WordOf(address) /\ value[0] % 2 = 1

\* Mutants: the burst ends a beat early, or late.
FaultEarly_AfterBeat(wr, response) ==
    IF wd.last \/ wr.beat + 1 >= wr.length
    THEN [wr EXCEPT !.active = FALSE, !.responseValid = TRUE, !.response = response]
    ELSE [wr EXCEPT !.beat = @ + 1, !.address = @ + wr.size, !.response = response]
FaultLate_AfterBeat(wr, response) ==
    IF wr.beat = wr.length + 1
    THEN [wr EXCEPT !.active = FALSE, !.responseValid = TRUE, !.response = response]
    ELSE [wr EXCEPT !.beat = @ + 1, !.address = @ + wr.size, !.response = response]
AfterBeat(wr, response) ==
    IF wd.last \/ wr.beat = wr.length
    THEN [wr EXCEPT !.active = FALSE, !.responseValid = TRUE, !.response = response]
    ELSE [wr EXCEPT !.beat = @ + 1, !.address = @ + wr.size, !.response = response]

\* The write side of a cycle.  A reported exit returns before the B handshake.
UpdateWrite(bReady) ==
    LET wr      == AcceptWrite(write)
        address == wr.address % AddressSpace
        beat    == WriteBeat(wr)
        value   == observeWrite(address, NarrowData(address), NarrowStrobe(address))
        exits   == wFires /\ ExitReported(address, value)
        after   == IF wFires THEN AfterBeat(wr, beat.response) ELSE wr
    IN  /\ write' = IF bFires(bReady) /\ ~exits THEN [after EXCEPT !.responseValid = FALSE] ELSE after
        /\ memory' = IF wFires THEN beat.memory ELSE memory
        /\ platform' = IF wFires THEN beat.platform ELSE platform
        /\ exitValue' = IF wFires THEN value ELSE exitValue
        /\ exited' = exits

UpdateRead(rReady) ==
    /\ reads' = IF rFires(rReady)
                THEN [AcceptRead(reads) EXCEPT ![readSelectedId] = NextBeat(@)]
                ELSE AcceptRead(reads)
    /\ readDataValid' = (readDataValid /\ ~rFires(rReady))
    /\ UNCHANGED <<readData, readSelectedId, readResponse>>

\* The core drops what was accepted; bits of an idle channel do not matter.
CoreAfter ==
    /\ ar' = IF arFires THEN NoRead ELSE ar
    /\ aw' = IF awFires THEN NoRead ELSE aw
    /\ wd' = IF wFires THEN NoData ELSE wd
    /\ UNCHANGED <<owedData, writes>>

RecordRead(rReady) ==
    /\ received' = IF rFires(rReady) THEN received \o popped ELSE received
    /\ popped' = IF rFires(rReady) THEN <<>> ELSE popped
    /\ start' = [id \in ReadIds |-> IF ~reads'[id].active THEN NoRead
                                   ELSE IF arFires /\ ar.id = id THEN ar ELSE start[id]]
    /\ seen' = [id \in ReadIds |-> IF reads'[id].active THEN seen[id] \cup {memory'} ELSE {}]
    /\ UNCHANGED typed

RecordWrite ==
    IF write'.active \/ write'.responseValid
    THEN /\ before' = IF awFires THEN memory ELSE before
         /\ wreq' = IF awFires THEN aw ELSE wreq
         /\ beats' = IF wFires THEN Append(beats, wd) ELSE beats
    ELSE before' = memory' /\ wreq' = NoRead /\ beats' = <<>>

Update(rReady, bReady) ==
    /\ phase = "update"
    /\ UpdateRead(rReady)
    /\ UpdateWrite(bReady)
    /\ CoreAfter
    /\ RecordRead(rReady)
    /\ RecordWrite
    /\ pins' = NoPins    \* not looked at until drive sets them again
    /\ phase' = "edge"
    /\ UNCHANGED scenario

(***************************************************************************)
(* The clock edge.  External: the core may raise new requests, with one    *)
(* write burst at a time in flight on AW and W.  The platform ticks.       *)
(***************************************************************************)
RaiseRead ==
    \/ UNCHANGED ar
    \/ ~ar.valid /\ \E request \in scenario.reads : ar' = Asserted(request)

RaiseWrite ==
    /\ ~aw.valid /\ ~wd.valid /\ owedData = 0 /\ writes < scenario.maxWrites
    /\ \E request \in scenario.writes :
         aw' = Asserted(request) /\ owedData' = request.length + 1
    /\ writes' = writes + 1
    /\ UNCHANGED wd

RaiseData ==
    /\ ~wd.valid /\ owedData > 0
    /\ \E beat \in scenario.beats :
         wd' = [valid |-> TRUE, data |-> beat.data, strobe |-> beat.strobe, last |-> owedData = 1]
    /\ owedData' = owedData - 1
    /\ UNCHANGED <<aw, writes>>

Edge ==
    /\ phase = "edge"
    /\ RaiseRead
    /\ RaiseWrite \/ RaiseData \/ UNCHANGED <<aw, wd, owedData, writes>>
    /\ platform' = IF HasPlatform THEN tick(platform) ELSE platform
    /\ phase' = "drive"
    /\ UNCHANGED <<scenario, pins, reads, readChannel, write, memory, exitValue, exited,
                   readHistory, writeHistory>>

\* The main loop leaves the simulation when update reported an exit.
Stopped == phase = "drive" /\ exited /\ UNCHANGED vars

Randoms == [{"ar", "aw", "w"} -> BOOLEAN]
Next == \/ \E byte \in Byte : AppendInput(byte)
        \/ \E random \in Randoms : Drive(random)
        \/ \E rReady \in BOOLEAN, bReady \in BOOLEAN : Update(rReady, bReady)
        \/ Edge
        \/ Stopped

Spec == Init /\ [][Next]_vars

(***************************************************************************)
(* Fairness.  The main loop never stops between the steps of a cycle.  A   *)
(* stall is drawn from a generator of full period, one value in sixteen,   *)
(* so no channel is stalled by it forever however often it is retried.     *)
(* External: the core takes offered beats and responses, and sends the     *)
(* data of its bursts, eventually.                                         *)
(***************************************************************************)
DriveAny == \E random \in Randoms : Drive(random)
UpdateAny == \E rReady \in BOOLEAN, bReady \in BOOLEAN : Update(rReady, bReady)
LatchFor(id) == CanLatch /\ Serving = id /\ DriveAny /\ LatchBeat
OpenRead == ar.valid /\ \E random \in Randoms : Drive(random) /\ pins'.ar_ready
OpenWrite == aw.valid /\ \E random \in Randoms : Drive(random) /\ pins'.aw_ready
OpenData == wd.valid /\ \E random \in Randoms : Drive(random) /\ pins'.w_ready
TakeRead == pins.r_valid /\ \E bReady \in BOOLEAN : Update(TRUE, bReady)
TakeResponse == pins.b_valid /\ \E rReady \in BOOLEAN : Update(rReady, TRUE)
SendData == Edge /\ owedData' < owedData
Fairness ==
    /\ WF_vars(DriveAny) /\ WF_vars(UpdateAny) /\ WF_vars(Edge)
    /\ SF_vars(LatchFor(0)) /\ SF_vars(LatchFor(1))
    /\ SF_vars(OpenRead) /\ SF_vars(OpenWrite) /\ SF_vars(OpenData)
    /\ SF_vars(TakeRead) /\ SF_vars(TakeResponse) /\ SF_vars(SendData)
FairSpec == Spec /\ Fairness

(***************************************************************************)
(* Properties                                                              *)
(***************************************************************************)
Request == [valid : BOOLEAN, id : Nat, address : Nat, length : Nat, size : Nat]
Transaction == [active : BOOLEAN, address : Nat, size : Nat, length : Nat, beat : Nat]
Response == {0, 2, 3}

ControlTypeOK ==
    /\ scenario \in Scenarios
    /\ phase \in {"drive", "update", "edge"}
    /\ ar \in Request /\ (ar.valid => ar.id \in ReadIds) /\ aw \in Request
    /\ wd \in [valid : BOOLEAN, data : BusData, strobe : SUBSET (0..(BusBytes - 1)), last : BOOLEAN]
    /\ owedData \in Nat /\ writes \in Nat
    /\ pins \in [ar_ready : BOOLEAN, r_valid : BOOLEAN, aw_ready : BOOLEAN,
                 w_ready : BOOLEAN, b_valid : BOOLEAN]
    /\ reads \in [ReadIds -> Transaction]
    /\ readDataValid \in BOOLEAN
    /\ readSelectedId \in ReadIds /\ readResponse \in Response
    /\ write \in [active : BOOLEAN, responseValid : BOOLEAN, address : Nat, size : Nat,
                  length : Nat, beat : Nat, id : Nat, response : Response]
    /\ exited \in BOOLEAN
TypeOK ==
    /\ ControlTypeOK
    /\ readData \in BusData
    /\ platform \in Platform
    /\ memory \in [WordAddresses -> Word]
    /\ exitValue \in Word

(* Every byte typed at the terminal reaches the core in exactly one read   *)
(* beat, in order: readBus pops the receive buffer when the beat is        *)
(* latched, so the byte is in the queue, on the R channel until the core   *)
(* takes it, or delivered, whatever stalls and other reads come between.   *)
InputDelivered == typed = received \o popped \o platform.input

(* A beat offered on R keeps its id, data, response and last flag until    *)
(* the core takes it, although demand reads are accepted and writes change *)
(* memory meanwhile; only update, on a handshake, withdraws it.            *)
LastBeat == reads[readSelectedId].beat = reads[readSelectedId].length
OfferedBeatStable ==
    [][readDataValid =>
         \/ UNCHANGED <<readChannel, LastBeat>>
         \/ phase = "update" /\ pins.r_valid /\ ~readDataValid']_vars

(* The two read transactions and the write transaction are used one burst  *)
(* at a time: a request is accepted only into a free slot, an offered beat *)
(* belongs to an active burst, the beat index stays within the burst, and  *)
(* a write response is never pending while a write burst is running.       *)
SlotsExclusive ==
    /\ readDataValid => reads[readSelectedId].active
    /\ \A id \in ReadIds : reads[id].beat <= reads[id].length
    /\ write.active => write.beat <= write.length
    /\ ~(write.active /\ write.responseValid)
    /\ phase = "update" =>
         /\ arFires => ~reads[ar.id].active
         /\ awFires => ~write.active /\ ~write.responseValid
         /\ wFires => write.active
         /\ pins.r_valid = readDataValid /\ pins.b_valid = write.responseValid

(* The core and the slave agree on the beats of a write burst: the beats   *)
(* the core still has to send are the beats the slave still expects, and   *)
(* the one marked last is the one whose index is the length of the burst.  *)
InFlight == IF wd.valid THEN 1 ELSE 0
BeatsAgree ==
    /\ owedData + InFlight = IF aw.valid THEN aw.length + 1
                             ELSE IF write.active THEN write.length - write.beat + 1 ELSE 0
    /\ aw.valid => ~write.active
    /\ wd.valid => (wd.last <=> owedData = 0)

(* The port keeps the promises of AXIPort: as many beats as requested, the *)
(* last one marked, each offered until taken, one response per write burst *)
(* and no burst accepted into an occupied slot.                            *)
BeatsLeft(burst) == IF burst.active THEN burst.length - burst.beat + 1 ELSE 0
Port == INSTANCE AXIPort WITH
    Ids <- ReadIds,
    owed <- [id \in ReadIds |-> BeatsLeft(reads[id])],
    offer <- IF readDataValid THEN [valid |-> TRUE, id |-> readSelectedId, last |-> LastBeat]
             ELSE [valid |-> FALSE, id |-> 0, last |-> FALSE],
    dataOwed <- BeatsLeft(write),
    answering <- write.responseValid
KeepsPortPromises == Port!Spec

(* A beat that memory serves carries the contents of its own place in the  *)
(* burst (start address plus beat times size) as memory had it at some     *)
(* moment since the read was accepted, writes in between included.         *)
BeatAddress(id) == start[id].address + reads[id].beat * start[id].size
ServedByMemory(address, size) == ~HasPlatform \/ isRam(address, size)
ReadsAreRegular ==
    LET id == readSelectedId
        address == BeatAddress(id)
    IN  readDataValid /\ ServedByMemory(address, start[id].size) =>
          \E m \in seen[id] : \A word \in 0..(BusWords - 1) :
            readData[word] = m[(BusBase(address % AddressSpace) + 4 * word)]

(* What a write burst leaves behind, stated from the requests alone: beat  *)
(* k writes the strobed bytes of the bus container of address + k * size.  *)
BeatBase(k) == BusBase((wreq.address + (k - 1) * wreq.size) % AddressSpace)
WritesByte(k, word, lane) ==
    word \in BeatBase(k)..(BeatBase(k) + BusBytes - 1)
    /\ (word - BeatBase(k)) + lane \in beats[k].strobe
BurstResult ==
    [word \in WordAddresses |-> [lane \in Lanes |->
       LET writers == {k \in 1..Len(beats) : WritesByte(k, word, lane)}
       IN  IF writers = {} THEN before[word][lane]
           ELSE LET k == Max(writers) IN beats[k].data[(word - BeatBase(k)) \div 4][lane]]]

(* An OKAY response means that all length + 1 beats took place: memory is  *)
(* what the whole burst makes of it, and a device write leaves it alone.   *)
(* A burst within RAM is always answered OKAY, and so is one within the    *)
(* write-combine window that ends at least a burst before its end: every   *)
(* beat is tested with the length of the whole burst, so the beats after   *)
(* the first are refused (DECERR) nearer to the end of the window.         *)
ToDevice(request) == HasPlatform /\ isDevice(request.address, request.size)
OkayMeansWritten ==
    write.responseValid =>
      /\ Len(beats) = wreq.length + 1
      /\ write.response = 0 => memory = IF ToDevice(wreq) THEN before ELSE BurstResult
      /\ \/ ~HasPlatform
         \/ isRam(wreq.address, wreq.size * (wreq.length + 1))
         \/ isWriteCombine(wreq.address, wreq.size * (2 * wreq.length + 1))
         => write.response = 0

(* The exit monitor mirrors the tohost word: it holds what memory holds    *)
(* there, and the simulation stops as soon as that word is odd.  This is   *)
(* for cores whose beats start at a word boundary and reach the tohost     *)
(* word as the first of the beat: observeWrite looks at no other word and  *)
(* shifts the lanes of an unaligned beat once more.                        *)
ExitMirrorsTohost ==
    HasTohost => /\ exitValue = memory[WordOf(Tohost)]
                 /\ exited = (memory[WordOf(Tohost)][0] % 2 = 1)

(* No accepted read waits forever, the prefetch included: a demand burst   *)
(* frees its slot before the next one can be accepted, and in that cycle   *)
(* the prefetch may latch its beat, however many demand reads keep coming. *)
ReadsComplete == \A id \in ReadIds : reads[id].active ~> ~reads[id].active

(* Every request the core raises is accepted, and an accepted write burst  *)
(* ends in a response that the core can take.                              *)
RequestsAccepted == ar.valid ~> ~ar.valid
WritesAnswered == aw.valid ~> write.responseValid
=============================================================================
