----------------------------- MODULE MCAXIMemory -----------------------------
\* Instances of the AXI slave for TLC: an eight-byte bus, bits for bytes, two
\* bus beats of RAM, one CLINT and one UART container, a write-combine window
\* of two beats and a hole up to the end of the address space.
EXTENDS AXIMemory

MCRam == [base |-> 0, size |-> 16]
MCClint == [base |-> 16, size |-> 8]
MCUart == [base |-> 24, size |-> 8]
MCWriteCombine == [base |-> 32, size |-> 16]

Req(id, address, length, size) ==
    [id |-> id, address |-> address, length |-> length, size |-> size]
Pattern(lanes) ==
    [word \in 0..1 |-> [lane \in Lanes |-> IF 4 * word + lane \in lanes THEN 1 ELSE 0]]
Beat(ones, strobe) == [data |-> Pattern(ones), strobe |-> strobe]

Machine(linux, rs, ws, bs, maxTyped, maxWrites) ==
    [platform |-> linux, tohost |-> ~linux, reads |-> rs, writes |-> ws, beats |-> bs,
     maxTyped |-> maxTyped, maxWrites |-> maxWrites]

\* Receive buffer as a byte and with its neighbours, a prefetch burst from
\* RAM, while a store sets or clears DLAB (lane 3 of the UART's first word).
Input == Machine(TRUE, {Req(0, 24, 0, 1), Req(0, 24, 0, 4), Req(1, 0, 1, 8)},
                 {Req(0, 27, 0, 1)}, {Beat({3}, {3}), Beat({}, {3})}, 2, 1)

\* Wide and narrow bursts in RAM, reads by both ids.
Memory == Machine(TRUE, {Req(0, 0, 1, 8), Req(1, 4, 0, 4)}, {Req(0, 0, 1, 8), Req(1, 4, 1, 4)},
                  {Beat(0..7, 0..7), Beat({1, 6}, {0, 1, 6})}, 0, 2)

\* Every kind of target: the write-combine window with and without room for
\* the burst, a device burst, a device beat with and without strobes in its
\* word, a hole, the last words of the address space, RAM.
Targets == Machine(TRUE, {Req(0, 20, 0, 4)},
                   {Req(0, 32, 1, 4), Req(0, 32, 1, 8), Req(0, 16, 1, 4), Req(0, 16, 0, 4),
                    Req(0, 24, 0, 8), Req(0, 48, 0, 4), Req(0, 60, 1, 4), Req(0, 8, 0, 8)},
                   {Beat(0..7, 0..3), Beat(0..7, 4..7)}, 0, 2)

\* Bare memory with tohost at address 16, written as a word, by a burst that
\* passes it and by its low half only.
Bare == Machine(FALSE, {Req(0, 60, 1, 4)},
                {Req(0, 16, 0, 4), Req(0, 8, 1, 8), Req(1, 60, 1, 4)},
                {Beat({0}, 0..7), Beat({1, 2, 5}, {0, 1})}, 0, 2)

\* Competing demand and prefetch bursts and a write burst, for liveness.
Live == Machine(TRUE, {Req(0, 0, 1, 8), Req(1, 0, 1, 8)}, {Req(0, 0, 1, 8)}, {Beat({}, {})}, 0, 1)

MCScenarios == {Input, Memory, Targets, Bare}
LiveScenario == {Live}
=============================================================================
