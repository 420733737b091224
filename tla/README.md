# ZirconSim in TLA+

ZirconSim runs a Verilated RV32 core (`VZirconCore`) against a model of its
memory and devices, replays every retired instruction on an in-process Spike
processor and stops at the first difference. This directory holds TLA+ modules
for the parts of it whose correctness depends on order, interleaving or
failure, the TLC configurations that check them on small instances, and TLAPS
proofs of the central properties for every value of the constants.

Paths such as `src/main.cc` are relative to the repository's root. Every
definition that models code is listed with its lines in `PROJECT.json` under
`map`, every hazard with the properties that cover it under `hazards`.

## The system

| component | state | operations | talks to |
|---|---|---|---|
| `PlatformDevices` (CLINT, 16550 UART) | `mtime`, `mtimecmp`, divider, UART registers, input queue, output | `readBus`/`writeBus` (containers of four bytes), `read`/`write` (byte strings), `tick`, `setTime`, `appendUartInput`, `save`/`restore` | one instance behind `AXIMemory`, one in `SpikeReference` |
| `AXIMemory` | two read transactions, the beat latched for R, one write transaction, memory, exit monitor | `drive` before the core is evaluated, `update` after it, `tick` at the edge | pins of the core, devices, `TestExitMonitor` |
| `TestExitMonitor` | mirror of the `tohost` word | `observeWrite` on each write beat | ends the loop |
| main loop (`main`) | `SimulationState`, trap of the cycle, measurement | one iteration per clock cycle | everything |
| `SpikeReference` | Spike processor, its memory and devices, reservation | `next`, `synchronize`, `injectInterrupt`, `injectPageFault`, `setTime`, `appendUartInput`, `save`/`restore` | called by the main loop only |
| checkpointing (`saveCheckpoint`, `restoreCheckpoint`, `Checkpoint.cc`) | `base.rtl`, `base.host` and their temporaries | save on a cycle, an interval or a marker; restore at start | the disk, all of the above |
| `NonblockingInput` | flags of standard input | `poll` every 1024 cycles | both devices |
| `ProgressReporter` | two atomic counters, `stop_` under a mutex | a thread that prints, `finish` | main loop |
| `SparseMemory`, `ElfImage` | bytes, symbols | load, read, write | `AXIMemory`, `SpikeReference` |
| `compareVectorCommit` | none of its own | per retired vector instruction: compare, then give the core's registers to the reference | registers and store rows of the core, `SpikeReference` |
| branch profile, `Statistic`, waves, options | counters and text | count, print | main loop |
| `Simulator`, `Emulator`, `Device`, `utils` | | an older interpreter that is not built | nothing |

What is hard about it:

* **Two copies of each device.** The core reads its UART and timer when it
  executes, the reference when the instruction is replayed, on another
  instance, through another function, later. Reads have side effects.
* **Side effects that are made before the handshake.** `drive` pops a byte
  when it latches a beat; the core may take the beat much later, while another
  burst, a store and typed input come in between.
* **Traps on two sides.** Exceptions that both sides see are left to the
  reference, interrupts and page faults are injected, counters are copied from
  the core. Each of these must happen at the right instruction.
* **Crashes during a save.** A checkpoint is two files and two renames, and
  what Spike does not let one read or write directly is restored through the
  side effects of its CSR writes.
* **Waiting.** Prefetch and demand reads share a channel, stalls are random,
  a WFI suspends the detection of hangs, `finish` joins a thread that sleeps.
* **A specification read off an encoding.** The vector comparison decides from
  bits which elements an instruction computes, keeps or may fill.

## Modules

`PlatformDevices` is a module of operators: a platform is a record, an access a
function from it to a result and a new record. Its address map, the number of
values of a byte (`ByteBase`), the width of the timer (`TimeBytes`) and the
divider are constants. `readLane`/`writeLane` keep the order of the code: lanes
0 to 3, giving up at the first that fails.

`DeviceLockstep` runs the same guest program on the two instances: a load or a
store goes through `readBus`/`writeBus` on one and `read`/`write` (named
`readBytes`/`writeBytes`) on the other, as `AXIMemory` and
`SpikeReference::mmio_load`/`mmio_store` do, with typed input and cycles in
between. A program of the run says which addresses are stored to: one is about
the UART shortly before the timer saturates, one about the CLINT.

`AXIMemory` has a cycle of three steps, as the loop has: `Drive` (`drive`),
`Update` (`update`) and `Edge` (rising edge, `tick`); `AppendInput` may come
before a cycle. Pins are a record that `Drive` sets and `Update` consumes. The
core is external: a legal AXI master that holds a request until it is accepted,
has one write burst in flight, sends the data after or with its address and
takes R and B when it likes. `randomReady` is a free Boolean per draw. The code
reads the request twice in a cycle, in `drive` before the core is evaluated and
in `update` after it (`src/AXIMemory.cc:51` and `73`). The model's core shows
the same request at both, as one that drives AR from registers does: this is an
assumption about the external core, because the code does not compare the two,
and a core whose id changed in between could have a request taken into a slot
that is in use.

`AXIPort` says what the core is promised at its port without addresses or
data: as many beats as asked for, the last one marked, an offer kept until it is
taken, one response per write burst. `AXIMemory` implements it under the
mapping `Port` (owed beats are `length - beat + 1` of an active transaction).

`Cosim` is the main loop around an abstract machine. One action is one
iteration, chosen by what the core does in it: `CoreIdles`, `CoreExecutes`,
`CoreTraps(cause)`. Each action polls the terminal, lets the core use its
devices, and then runs the whole host part (`Host`): `setTime`, up to three
retirement lanes (`RetireLanes`), trap injection, `CountIdle`, the outcome of
the cycle and `tick`. The core keeps executed results in a reorder buffer and
retires them later, so the distance between its device access and the
reference's is real. Core and Spike are external and implement the same eleven
instructions of a machine with three modes, two registers and delegated
traps; results of counter reads are arbitrary on both sides, and in a faulty
scenario all results of the core are. With two sides that may differ, outcomes
of the reference are sets. A scenario also says whether there is a reference at
all. History variables watch the core alone: `hung` counts the cycles in
which it retires nothing and does not sleep, `races` names what the reference
cannot replay as it happened: input that arrives while a load of the receive
buffer or the line status is in flight, a tick that changes a byte of `mtime`
that a load in flight has read, a trap beside one that the reference still owes,
and an instruction that looks like a trap.

`Checkpoint` is a process that resets or restores, runs cycles and saves. The
steps of `saveCheckpoint` on the disk (remove, open, close, fingerprint, rename
twice) are actions; `Stop` (end or kill) may come after each and `Fail`
(exception, temporaries removed, exit) in each. A simulation is deterministic
up to its inputs, so its state is its configuration and its history, and the
history is kept twice: in the RTL model and in the host.

`ProgressReporter` has two threads and one action per access to what they
share. A relaxed atomic is the sequence of its stores, and a load returns any
store that is not older than the last one this thread has read; the reporter
loads two counters one after the other. `wait_until` is four steps (test, block,
wake by notification, time-out or for no reason, reacquire). `finish` is called
at the end of a run, after a mismatch and by the destructor when an exception
leaves the loop, and may be called twice.

`SparseMemory` is a module of operators on the table of words: `read8`, `read32`,
`read64`, `write8`, `write32` with strobes, `write64`, `load`, the limit of
`restore`. `ElfImage` loads a file in the steps of `ElfImage::load`; a file is a
record of its structures and offsets, and `extent` remembers the end of the
furthest read, so that a range check that comes too late or not at all shows.
`MemoryLockstep` composes them: the loaded image is copied behind the bus and
behind the reference, both are stored to, the one through strobes of whole bus
containers and the other byte by byte, saved and restored.

`VectorCompare` runs short programs on three register files: Spike's, the core's
and that of a core that is right. What an instruction computes is a free bit
pattern, the same for all; which elements it computes, leaves or may fill is
written down from the vector extension by the class of the instruction (`Fate`).
The code under test (`agnostic`, `tail`, `elementBits`, ...) works this out from
the encoding, and the run compares the two. Which encodings belong to a class is
a table of the extension (`ArithmeticEncoded`, `LoadEncoded`, `StoreEncoded`),
written from form, `funct6` and operand fields and independent of the code's
tests; an instruction of a program is an entry of it. Number and size of the
registers are constants, 32 and 32 bytes in the code. Stores are sequences of
bytes in drain order. What the code reads off the core's trace is an input of the
model: base and number of the destination registers, flags, and for a store its
first row in the core's queue (any row it fits at, the others hold another store),
the number of rows, element width, field layout and whether it is scattered. Faults
of the core are flipped bits, lost results, wrong groups, bases and flags, a wrong
first row or layout of a store, and corrupted or swapped store bytes.

`ReferenceRestore` is the reference on its own, as far as a checkpoint can lose
it: privilege, `mstatus.FS` and `SIE`, `mie` with its alias `sie` under `mideleg`,
translation, `fflags` and `frm` with their alias `fcsr`, a counter, the
reservation of an LR and the note that `next` keeps of it. At any point a second
instance is restored and both execute the same instructions from there.

The MC modules give the constants: a platform scaled to bits for bytes and a
four-byte timer, the sets of requests, the programs.

## Runs

| run | what it shows |
|---|---|
| `devices` | Both instances stay equal under every aligned access of one to four bytes (`SamePlatform`); every load agrees on both paths (`LoadsAgree`); no typed byte is lost or repeated whatever DLAB is (`InputConserved`); a refused access has no partial effect (`RefusedHasNoEffect`); saturation never withdraws a pending interrupt (`TimerStaysPending`). |
| `axi` | Four machines: terminal input with a competing prefetch and stores to DLAB, overlapping bursts in RAM, write bursts to every kind of target, bare memory with `tohost`. Each typed byte reaches the core once and in order (`InputDelivered`), an accepted burst is not overwritten (`SlotsExclusive`), reads return what memory held since they were accepted (`ReadsAreRegular`), an OKAY is true, and every burst in RAM gets one (`OkayMeansWritten`), core and slave count alike (`BeatsAgree`), the exit monitor equals memory (`ExitMirrorsTohost`), offers are stable (`OfferedBeatStable`), the port implements `AXIPort` (`KeepsPortPromises`). |
| `axi_live` | Reads complete, requests are accepted, writes answered. |
| `cosim` | Eight scenarios: sleeping with an early timer, with and without a reference; polling the UART on a filled and on an empty queue; reading the timer and calling the system while it fires; system calls on a correct and on a faulty core; a jump into the handler that was interrupted. A correct core is reported in four races only (`AlarmsAreRaces`), the reference is in lockstep at every boundary and `synchronize` hides nothing (`InLockstep`), a hang is reported exactly when its window is full, except for a trap out of WFI that is not seen without a reference (`HangReported`). |
| `cosim_syscall_race` | Violation: see below. |
| `cosim_typing_race` | Violation: see below. |
| `checkpoint` | Two configurations share a base path; kills and failures everywhere: no mixed restore (`PairConsistent`), a complete save survives unfinished ones (`LastSaveKept`), the marker saves once (`MarkerSavesOnce`). |
| `checkpoint_lost` | Violation: see below. |
| `progress` | No printed window is negative although the counters are relaxed and read one by one (`WindowsAreProgress`; that the two counters of a line belong together is not promised and not true); nothing the thread uses goes away before it has ended, on every way out (`QuietAfterFinish`); `finish` returns without a time-out, so no wake-up is lost (`FinishReturns`). |
| `memory` | Twenty-four images, good and damaged. The loader reads within the file (`ReadsWithinFile`) and leaves what the headers describe, also with overlapping segments (`ImageAsDescribed`); unaligned and wrapping accesses are their bytes (`WideAccessesAreBytes`); the bus and the reference load alike (`LoadsAgree`); a checkpoint of RAM is never refused for its size (`RamIsRestorable`). |
| `vector` | A right core is not reported (`NoFalseAlarm`), and what is accepted is right in registers, flags and memory (`AcceptedIsRight`), each with the exception described below. |
| `reference` | A resumed run holds the state of the one that went on and commits the same (`SurvivesRestore`), except for an `fcsr` saved with FS Off and a reservation whose note was dropped or whose address translates differently; a reservation is never invented (`NoInventedReservation`); restoring fails only for a stale LR address (`AbortNeedsStaleAddress`). |

### Where the code and its documentation disagree

* `cosim_syscall_race`. The reference takes an `ecall` only inside the `next()`
  that replays the first instruction of the handler. If the core takes a timer
  interrupt in between, `injectInterrupt` (`src/SpikeReference.cc:598`) finds
  the reference still at the `ecall` and throws; a correct core ends with code
  126. The README (line 4) promises a comparison of each instruction at its
  retirement, which here ends although both sides have executed the same program,
  and the comment at line 302 wants Spike "at the same architectural retirement
  boundary".
* `cosim_typing_race`. Input is appended to both UARTs at a poll, but a line
  status read that the core made before the poll is replayed after it: the
  values differ and a correct core is reported. The README offers typing in the
  default configuration, which compares. A load of `mtime` has the same race
  with the tick, when it read a byte that the tick changes. The fourth race is an instruction that `next()` takes for a
  trap: it recognises one by `xepc` = old pc and pc = `xtvec`, which a jump to
  the vector also satisfies when it stands where the last trap was taken.
  `AlarmsAreRaces` says that a correct core is reported in no other way.
* `checkpoint_lost`. Between the two renames, a kill, or a failure of the second
  one, leaves the RTL file of the new save and the host file of the old one:
  `restoreCheckpoint` rightly refuses the pair, and the checkpoint that was
  reported before is gone. `LastSaveKept` therefore excludes the interval marked
  by `torn`.

Observed while modelling, and kept as exceptions in the properties:

* Under `vma`, `compareVectorCommit` (`src/main.cc:269`) takes every element of
  the destination with a clear mask bit for agnostic and wants ones there. The
  mask of a reduction guards its source, not element 0 of its destination, and a
  masked slide-up leaves the elements below its offset: a right core is reported
  (`misread`). The README promises that undisturbed elements are compared as
  they are.
* The compared group is the one the core names. `commit.vector->registers`, what
  Spike has written, is collected and never looked at, so a register that is
  missing from the core's own report passes when it is wrong or when Spike, which
  leaves agnostic elements, holds something else (`unseen`).
* `observeWrite` (`src/ElfImage.cc:275`) misses a store to `tohost` by an unaligned beat
  or by one that reaches it as a later word of its container; `TohostAssumption`
  leaves such beats out, and no document says that they end a run.
* `next` drops its note of a reservation at any store, Spike keeps the
  reservation: an SC after a restore may fail that succeeds without it. This is
  allowed by the architecture, but not a faithful continuation.
* The limit of `SparseMemory::restore` is the number of words of RAM. Words of the
  write-combine window, or of an image outside RAM, count as well.

### Bounds

* `ByteBase = 2`, `TimeBytes = 4`: the devices copy bytes and compare them with
  0, the timer compares and saturates; two values per byte and sixteen timer
  values reach empty, carry, equality and saturation. `BootTime = 15` starts the
  AXI runs at saturation so that time does not multiply their states; the
  device and cosim runs cover the timer.
* `BusWords = 2`: a bus container wider than a word, so that narrow and wide
  beats differ. `AddressSpace = 64` puts a hole and the wrap of the address
  after the write-combine window. Bursts have two beats, a first and a last one.
* `MaxTyped = 2`: order can be wrong with two bytes. `MaxWrites = 2`: a burst
  after a burst. Reads are not bounded.
* `progress`: `PublishInterval = 2` in four cycles gives two publications and the
  final one; two time-outs or spurious wake-ups cover a line before, between and
  after them. The proofs need no bound.
* `memory`: 24 addresses, eight of them RAM, three values of a byte; the images
  put every range check on both sides of its limit. Stores are bounded by
  `MaxStores`, enough to overwrite a store of another width.
* `vector`: registers of eight bits with elements of two, four and eight bits, at
  most two registers in a group; every class and every place where the decoding
  branches is in a program, under all four policies and several lengths. Faults
  happen up to the third instruction (`FaultyUpTo`), so that a fault that was
  missed has an instruction after it.
* `reference`: two virtual addresses that translate differently, or not at all,
  with and without paging; a counter of three values wraps.
* `cosim`: `MaxCycles = 12` lets every program trap and return;
  `StallCycles = 3` and `PollInterval = 4` are reached several times;
  `RobSize = 3` lets all three lanes retire at once.
* `checkpoint`: `MaxCycles = 3`, `CheckpointCycle = 1`, `Interval = 3`: saves
  with and without an earlier one, a marker before, at and after a save, any
  number of restarts. `QueueLimit` stands for the limits of the reader.

`Returned` and `Stopped` are the states after `main` has left its loop. The runs
`vector` and `reference` do not check deadlock: a program ends, and a restore that
is left by a trap ends the process.

### Fairness

`axi_live` (`FairSpec` of `AXIMemory`): weak fairness of the three
steps of a cycle: the loop runs until it returns. Strong fairness of the draws
that open a channel or latch a beat: `randomReady` is false for one value in
sixteen of a generator with full period, so a channel that is tried again and
again is not refused forever. Strong fairness of the core taking beats and
responses and sending its data is an assumption about the external core; without
it every slave may wait. No fairness is assumed between demand and prefetch
reads: that the prefetch is served follows from the code, because a demand slot
is free for at least one `drive` between two bursts.

`progress` (`FairSpec` of `ProgressReporter`): weak fairness of each thread, which
the scheduler gives, and strong fairness of the main thread taking the mutex in
`finish`, because the reporter gives it up whenever it waits. Time-outs and
spurious wake-ups are not fair: `finish` must return by its notification alone.

## Proofs

Every property of a passing run that is a safety property is a theorem, for
every value of the constants. No proof bounds the
number of cycles, stores, files, bytes, registers, instructions or restarts. TLC checks on a small
instance that the assumptions hold and can be met.

`AXIMemoryProofs`, for every address map, bus width and set of requests:

* `ControlCorrect`: `ControlInv`, the conjunction of the type of the control
  state, `SlotsExclusive` and `BeatsAgree`, is invariant. `SlotsExclusive` is
  not inductive alone: that a write burst's beat index stays within its length
  needs to know that the core's last beat is the slave's (`BeatsAgree`), and that
  a pin that was driven still describes the slot in `update` is part of
  `SlotsExclusive` in the phase between them.
* `SlotsCorrect`, `BeatsCorrect`: its parts. `TypeCorrect` adds the types of
  memory and devices (`MachineInv`), the ground for what follows.
* `BeatStableCorrect`: `OfferedBeatStable` as an action property, from it.
* `PortCorrect`: `Spec => Port!Spec`. `Drive` is an offer or a stutter, `Update`
  an exchange on the read side together with a step of the write side, the rest
  stutters.
* `InputCorrect`: `InputDelivered`. The byte of a beat must not be lost when the
  next one is latched, so a free R channel holds none (`InputInv`).
* `ReadsCorrect`: `ReadsAreRegular`. It speaks of requests, the slave of its own
  address, size and beat: they agree while a read is active (`ReadInPlace`).
* `WritesCorrect`: `OkayMeansWritten`. `WriteInPlace` says after each beat that
  memory is what the beats so far make of it unless one failed, and that none
  fails where the answer must be OKAY; the last writer of a byte is found with a
  largest element, shown to exist by least-counterexample induction.
* `ExitCorrect`: `ExitMirrorsTohost`, from `WritesInv` and what strobes a core
  may send.

They rest on `AXIAssumption` (shape of the requests, one bus container divides
the address space), on the assumptions about the core built into the actions
`RaiseRead`, `RaiseWrite` and `RaiseData`, and the last one on
`TohostAssumption`: a beat that reaches the container of `tohost` starts at that
word or leaves it alone. `observeWrite` looks at the first word of a beat only,
and shifts the lanes of an unaligned one once more.

`PlatformDevicesProofs` has no theorem of its own. It shows what the two paths
through a device do, lane by lane: the bus walks four lanes with strobes, the
reference a string of bytes, and both give up at the first that fails; an
aligned access is accepted by both or by neither. `DeviceLockstepProofs` builds
on it, for every address map, byte base, timer width, program and input:

* `LockstepInvariant`: well-typed platforms that agree in every register, in the
  time and in both queues, and `InputConserved`. Only the divider is not shared.
* `PlatformsAgree`, `LoadsIndistinguishable`, `InputIsConserved`,
  `RefusalsHarmless` and the action property `TimerPersists`: its consequences.

They use `PowerAssumption`, three laws of powers that the provers do not know;
TLC evaluates it for the values it uses.

`CosimProofs`, for every program, delegation, poll interval, buffer size and
stall window:

* `CosimInvariant`: the unretired instructions lead, step by step, from the state
  of the reference to the state of the core (`LinkedState`), the devices agree
  once the oldest of them is replayed, a load that did not race carries what the
  replay will read, and the counter of the loop is the core's own count of idle
  cycles outside the wait of a WFI (`Watched`). `AlarmsAreRaces` alone says
  nothing about the buffer, so it is not inductive.
* `CosimTypes`, `AlarmsOnlyInRaces`, `ReferenceInLockstep`, `HangsReported`: its
  consequences.

They rest on `CosimAssumption`. `CodeAssumption` wants loads and stores to go to
registers that exist, and the first instruction of a handler to be one that
neither traps nor transfers control, as one that saves a register is: the loop of
`next()` then skips one step at most.

`CheckpointProofs`, for any configurations, inputs and triggers:

* `CheckpointInvariant`: `IInv`, which adds to `TypeOK`, `PairConsistent` and
  `LastSaveKept` three facts. `HostFileGood`: a complete host file names the RTL
  file of its own save, so whatever `base.rtl` is now, equality of fingerprints
  makes it the right one. `MarkerKnown`: a marker in the output is a marker
  seen, in a running simulation and in the files. `SaveProgress`: what the
  temporaries and the fingerprint hold in each phase of a save.
* `CheckpointTypes`, `PairCorrect`, `LastSaveCorrect`, `MarkerCorrect`: its
  consequences.

They rest on `CheckpointAssumption` and on taking the file fingerprint to be
injective (FNV-1a over the whole file in the code).

`ReferenceProofs`, first for `ReferenceRestore` and any address maps, interrupts and
counter range:

* `ReferenceInvariant`: an address is noted only under a reservation (`Sound`), and
  the resumed instance is related to the one that went on: equal in what restore
  always brings back, equal in `fcsr` and the reservation unless `lost` names
  them, and never with a reservation the other one does not have (`Related`).
* `ReferenceTypes`, `RestoreSurvived`, `ReservationNotInvented`,
  `AbortOnlyWhenStale`: its consequences.

Then for `VectorCompare`, any number and size of registers (whole words of 32 bits),
any program of the encoding table, results, initial contents and faults:

* `Decoding`: for every encoding of the table, the conditions on bits in
  `compareVectorCommit` say what the class of the instruction says. From it
  `AgnosticIsAny`: the elements the code takes for agnostic are those whose `Fate`
  is to hold anything.
* `MatchIsRight`: the walk over groups and elements, with the registers of a field
  divided out of the count, accepts a group just when each bit of it is that of a
  right core. The elements have to fill the register, and a bit has to belong to
  one element (`ElementOfBit`, `BitOfElement`).
* For stores: a report that names the right rows and layout selects what was queued,
  and the bytes a right core drains, element by element and field by field
  or row by row, are the writes of Spike in the same order (`ScatteredCollected`,
  `UnitCollected`); equal multisets and equal final bytes leave equal memories
  (`SameWritesSameMemory`). `FlattenSeq` is defined by a recursive function: that
  its equation has one solution, and that a concatenation of blocks is a
  concatenation (`JoinedBlocks`), is shown by least-counterexample induction.
* `VectorInvariantHolds`: `VectorInvariant`. `NoFalseAlarm` is not inductive: a
  right core is compared with the registers Spike has adopted before, so the two
  sides must be equal (`AcceptedIsRight`), and that in turn holds only as long as
  no register was changed unseen, which a core without fault does not do.
* `NothingWrongAccepted`, `NothingRightReported`: `AcceptedIsRight` and
  `NoFalseAlarm`, its consequences.

They rest on `VectorAssumption`. That the table is the one of the extension is the
assumption to review; the proofs need that the two sides of `Decoding` agree on each
entry and would fail for an entry the code decodes differently. Elements have at
most 32 bits, as in the configuration the code compares.

`ProgressReporterProofs`, for every run length, publication interval and number of
time-outs:

* `ProgressCorrect`: `Inv`, the conjunction of `TypeOK` with three facts. The stores
  to each counter grow and do not run ahead of the loop (`CountersGrow`), and what
  the reporter holds is not newer than the newest store it has seen
  (`ReadsForward`); without both a later relaxed load could be below an earlier
  one. The mutex is held where the code holds it and a thread that is no longer
  joinable has ended (`LockDiscipline`).
* `TypeCorrect`, `WindowsCorrect`, `QuietCorrect`: its consequences.

`MemoryLockstepProofs`, for every file, address map and sequence of stores:

* What the loop of `write8` computes (`WriteBytesEffect`): the strobed bytes of a
  range that may wrap around, and no others. The loop is a recursive function;
  that its equation has a solution and what it yields after each round is shown by
  taking the least round for which the claim would fail, for any length.
* `WideAccessesCorrect`: `WideAccessesAreBytes`, from it.
* `ImageCorrect`: `ImageAsDescribed`. `ImageInv` says the same of the headers
  loaded so far; one more segment decides where it covers an address.
* `ReadsWithinFileCorrect`: `ReadsWithinFile`. The end of a symbol table and its
  names is a largest element of ends that each lie within the file.
* `LoadsAgreeCorrect`: `LoadsAgree`. `AgreeInv` says that the copies agree on every
  byte of RAM, in the run and in the last checkpoint: two words of a container
  with strobes, and a byte loop, are the same store, and a store to the
  write-combine window reaches no byte of RAM, because RAM starts at a container.
* `RestorableCorrect`: `RamIsRestorable`, from the cardinality of an interval.

They rest on `MemoryAssumption`, `ElfAssumption` (32-bit fields, a file of at most
4 GiB) and `RegionAssumption` (RAM is made of whole containers and apart from the
window, as in the code's address map).

Only model-checked:

* Liveness (`ReadsComplete`, `RequestsAccepted`, `WritesAnswered`,
  `FinishReturns`): fairness is out of reach of these provers.
* The three violations, which are counterexamples.

## Not modelled

* The core and Spike themselves: external, see above. In M-mode interrupts are
  never enabled in `Cosim`; page faults are decided by the core alone, as the code
  trusts it.
* Branch profile and performance counters of the loop; waves, printing, reports
  (`Statistic`): they observe and do not steer.
* The performance build's `next`, which throws where the other one skips a trap;
  the vector state inside a checkpoint; the parser of Spike logs.
* Vector configurations with a fractional LMUL; fault-only-first loads that trim
  `vl` (in the model they are ordinary loads); the fields that the code compares
  before the groups and that are constants here (`vstart` after an instruction, the
  configuration bit of the trace).
* The characters that bare machines print through the UART address
  (`src/AXIMemory.cc:133`): output only.
* The generator, the option parser, and `save`/`restore` field by field beyond
  what `ReferenceRestore` and `MemoryLockstep` have.
* Whether a page fault of the core is right: the code imposes it on the reference
  without asking, and so does the model.
* Write errors inside Verilator's `VerilatedSave`, which reports none: `CloseRtl`
  writes the whole file or fails.
* Two processes that use one checkpoint base at the same time.
* The older `Simulator` and `Emulator`, which the build leaves out.

## Plan

Done: devices and their lockstep, the AXI slave with its abstract port, the main
loop, checkpointing, the progress reporter, memory and loader, the vector
comparison, save and restore of the reference, all of them with proofs of their
safety properties.

What is left: proofs that read better, with the lemmas that two modules share
(`LeastNat`, division) in one place; the vector state in a checkpoint.
