------------------------------- MODULE MCCosim -------------------------------
(***************************************************************************)
(* Programs of a few instructions for TLC, on the scaled platform: bits    *)
(* for bytes and a four-byte timer.  The S handler is at 8, the M handler  *)
(* at 10; it programs mtimecmp past the end of the run.                    *)
(***************************************************************************)
EXTENDS Cosim

MCRam == [base |-> 0, size |-> 4]
MCClint == [base |-> 8, size |-> 8]
MCUart == [base |-> 24, size |-> 8]
MCWriteCombine == [base |-> 32, size |-> 8]

Op(op) == [op |-> op, rd |-> 1, address |-> 0]
Into(op, rd) == [op |-> op, rd |-> rd, address |-> 0]
Load(address) == [op |-> "load", rd |-> 2, address |-> address]
ReceiveBufferLoad == Load(24)
LineStatusLoad == Load(29)
MtimeLoad == Load(12)

Handlers ==
    8 :> Into("alu", 2) @@ 9 :> Op("sret") @@
    10 :> [op |-> "store", rd |-> 1, address |-> 11] @@ 11 :> Op("mret")

\* User code: the given instructions from 0, then an endless loop.
User(code) ==
    [pc \in 0..Len(code) |-> IF pc < Len(code) THEN code[pc + 1] ELSE Op("jump")] @@ Handlers

\* The timer fires early in the run, or never.
Scenario(code, mtimecmp, uart_input) ==
    [program |-> User(code), mtimecmp |-> mtimecmp, uart_input |-> uart_input,
     faulty |-> FALSE, difftest |-> TRUE]
Early == 1
Never == TimeMax

Polling == <<ReceiveBufferLoad, LineStatusLoad, Into("access", 1)>>
Sleeping == <<Into("csr", 1), Into("alu", 2), Into("access", 1), Op("wfi"), Op("exit")>>
Calling == <<Into("csr", 1), Into("access", 2), Op("ecall"), Into("alu", 1)>>

\* User code that enters the M handler by a jump, where it was interrupted.
Entering == <<[Op("jump") EXCEPT !.address = 10]>>
Telling == <<MtimeLoad, Into("alu", 1), Op("ecall")>>

FiveBytes == <<1, 0, 1, 1, 0>>
NoInput == <<>>

MCScenarios ==
    {Scenario(Sleeping, Early, NoInput), [Scenario(Sleeping, Early, NoInput) EXCEPT !.difftest = FALSE],
     Scenario(Polling, Early, FiveBytes), Scenario(Polling, Never, NoInput),
     Scenario(Telling, Early, NoInput), Scenario(Entering, Early, NoInput),
     Scenario(Calling, Never, NoInput), [Scenario(Calling, Never, NoInput) EXCEPT !.faulty = TRUE]}
SyscallRace == {Scenario(Calling, Early, NoInput)}
TypingRace == {Scenario(<<LineStatusLoad>>, Never, NoInput)}
=============================================================================
