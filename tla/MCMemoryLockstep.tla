--------------------------- MODULE MCMemoryLockstep ---------------------------
\* A scaled memory for TLC: 24 addresses, of which 8 to 15 are RAM and 16 to 23
\* the write-combining window, three values of a byte, and structures of the
\* ELF file that take two bytes (the header) or one.
EXTENDS MemoryLockstep

MCRam == [base |-> 8, size |-> 8]
MCWriteCombine == [base |-> 16, size |-> 8]

\* A name of two bytes with its terminator starts at every even offset.
Names == [o \in 0..30 |-> IF o % 2 = 0 THEN [text |-> "tohost", length |-> 1]
                          ELSE [text |-> "t", length |-> 0]]
Symbols == [o \in 0..20 |-> [name |-> o % 4, value |-> o]]
Program(offset, paddr, fileSize, memorySize) ==
    [load |-> TRUE, offset |-> offset, vaddr |-> 8, paddr |-> paddr,
     fileSize |-> fileSize, memorySize |-> memorySize]
Section(symtab, offset, size, link) ==
    [symtab |-> symtab, entryOk |-> TRUE, offset |-> offset, size |-> size, link |-> link]
Image(size, programs, sections) ==
    [size |-> size, data |-> [k \in 0..(size - 1) |-> (k + 1) % 3], magic |-> TRUE,
     rv32 |-> TRUE, entrySizes |-> TRUE, entry |-> 8, programOffset |-> 2, sectionOffset |-> 4,
     programs |-> programs, sections |-> sections, symbols |-> Symbols, names |-> Names]

Table1 == <<Section(TRUE, 6, 4, 1), Section(FALSE, 10, 6, 0)>>
Full == Image(17, <<Program(12, 8, 4, 6)>>, Table1)
RawFile == [Full EXCEPT !.magic = FALSE, !.size = 5, !.data = [k \in 0..4 |-> (k + 1) % 3]]
MCFiles ==
    { RawFile, [RawFile EXCEPT !.size = 0, !.data = [k \in {} |-> 0]],
      \* refused headers
      Image(1, <<>>, <<>>), [Full EXCEPT !.rv32 = FALSE], [Full EXCEPT !.entrySizes = FALSE],
      [Full EXCEPT !.programOffset = 17], [Full EXCEPT !.sectionOffset = 16],
      \* a good file, overlapping segments, one across the end of the addresses,
      \* one in both windows, a size in memory below that in the file, no paddr
      Full, Image(17, <<Program(12, 8, 5, 7), Program(10, 10, 2, 4)>>, Table1),
      Image(17, <<Program(12, 21, 4, 6)>>, <<>>), Image(17, <<Program(9, 12, 8, 8)>>, <<>>),
      Image(17, <<Program(12, 9, 4, 2)>>, <<>>), Image(17, <<Program(12, 0, 4, 8)>>, <<>>),
      Image(17, <<[Program(12, 8, 4, 6) EXCEPT !.load = FALSE], Program(17, 13, 0, 2)>>, <<>>),
      \* segments, tables, links and names beyond the end of the file
      Image(17, <<Program(14, 8, 4, 4)>>, <<>>), Image(17, <<Program(20, 8, 0, 4)>>, <<>>),
      Image(17, <<>>, <<Section(TRUE, 14, 4, 1), Section(FALSE, 10, 6, 0)>>),
      Image(17, <<>>, <<Section(TRUE, 6, 4, 2), Section(FALSE, 10, 6, 0)>>),
      Image(17, <<>>, <<Section(TRUE, 6, 4, 1), Section(FALSE, 10, 3, 0)>>),
      Image(17, <<>>, <<Section(TRUE, 6, 4, 1), Section(FALSE, 10, 2, 0)>>),
      Image(17, <<>>, <<Section(TRUE, 6, 4, 1), Section(FALSE, 14, 6, 0)>>),
      Image(17, <<>>, <<Section(TRUE, 6, 4, 1), Section(FALSE, 18, 6, 0)>>),
      [Full EXCEPT !.sections = <<[Table1[1] EXCEPT !.entryOk = FALSE], Table1[2]>>],
      [Full EXCEPT !.sections = <<Table1[1], Table1[2], Section(TRUE, 7, 3, 1)>>] }
=============================================================================
