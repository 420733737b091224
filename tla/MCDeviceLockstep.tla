--------------------------- MODULE MCDeviceLockstep ---------------------------
\* A scaled address map for TLC: bits for bytes, a four-byte timer, and CLINT
\* words before, between and after the two timer registers.
EXTENDS DeviceLockstep

MCRam == [base |-> 0, size |-> 4]
MCClint == [base |-> 8, size |-> 12]
MCUart == [base |-> 24, size |-> 8]
MCWriteCombine == [base |-> 32, size |-> 8]

\* A program that drives the UART, started shortly before the end of time,
\* and one that drives the CLINT.
UartProgram == [stored |-> 24..31, time |-> 14, maxTyped |-> 2]
TimerProgram == [stored |-> 8..19, time |-> 0, maxTyped |-> 1]
MCPrograms == {UartProgram, TimerProgram}
=============================================================================
