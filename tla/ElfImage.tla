------------------------------- MODULE ElfImage -------------------------------
(***************************************************************************)
(* ElfImage::load (ElfImage.cc): a raw image or an ELF32 file becomes the  *)
(* initial memory, the entry point and the symbol table.  A file is its    *)
(* size, its bytes, and the structures its header points to; a structure   *)
(* counts as present only where the file is long enough to hold it.  Names *)
(* are model values that start at a file offset and have a length.         *)
(***************************************************************************)
EXTENDS SparseMemory, Sequences, FiniteSetsExt

CONSTANTS
    Files,         \* the images that may be given, see File
    RawBase,       \* raw_base, where an image without a header is loaded
    HeaderSize, ProgramSize, SectionSize, SymbolSize \* the ELF32 structures

\* Offsets and sizes are 32-bit fields, like addresses.
ProgramHeader == [load : BOOLEAN, offset : Address, vaddr : Address, paddr : Address,
                  fileSize : Address, memorySize : Address]
SectionHeader == [symtab : BOOLEAN, entryOk : BOOLEAN, offset : Address, size : Address,
                  link : Address]

ASSUME ElfAssumption ==
    /\ RawBase \in Address
    /\ {HeaderSize, ProgramSize, SectionSize, SymbolSize} \subseteq Nat \ {0}
    /\ \A f \in Files :
         /\ f.size \in 0..AddressSpace /\ f.data \in [0..(f.size - 1) -> Byte]
         /\ f.magic \in BOOLEAN /\ f.rv32 \in BOOLEAN /\ f.entrySizes \in BOOLEAN
         /\ f.entry \in Address /\ f.programOffset \in Nat /\ f.sectionOffset \in Nat
         /\ f.programs \in Seq(ProgramHeader) /\ f.sections \in Seq(SectionHeader)
         \* what the bytes at an offset are as a symbol, [name, value], and as
         \* a string, [text, length]
         /\ \A o \in 0..(f.size - 1) : f.symbols[o].name \in Nat /\ f.names[o].length \in Nat

VARIABLES
    file,          \* the image that is loaded; never changes
    stage,         \* what load does next
    header,        \* the program header or section it is at
    image,         \* image.memory_
    entry,         \* image.entry_
    symbols,       \* image.symbols_, a set of [text, value]
    extent         \* history: the end of the part of the file read so far
imageVars == <<file, stage, header, image, entry, symbols, extent>>

Fits(offset, size) == offset <= file.size /\ size <= file.size - offset
ReadUpTo(end) == extent' = IF end > extent THEN end ELSE extent
ProgramCount == Len(file.programs)
SectionCount == Len(file.sections)

ImageInit ==
    /\ file \in Files /\ stage = "open" /\ header = 0
    /\ image = [index \in {} |-> ZeroWord] /\ entry = RawBase /\ symbols = {} /\ extent = 0

Failed == stage' = "failed" /\ UNCHANGED <<file, header, image, entry, symbols, extent>>

OpenRaw ==
    /\ stage = "open" /\ file.size # 0 /\ ~file.magic
    /\ image' = load(image, RawBase, file.data, file.size)
    /\ entry' = RawBase /\ stage' = "loaded" /\ ReadUpTo(file.size)
    /\ UNCHANGED <<file, header, symbols>>

HeaderOk == Fits(0, HeaderSize) /\ file.rv32 /\ file.entrySizes
OpenElf ==
    /\ stage = "open" /\ file.size # 0 /\ file.magic
    /\ \/ ~HeaderOk /\ Failed
       \/ /\ HeaderOk
          /\ entry' = file.entry /\ stage' = "programs" /\ ReadUpTo(HeaderSize)
          /\ UNCHANGED <<file, header, image, symbols>>

OpenEmpty == stage = "open" /\ file.size = 0 /\ Failed

\* Mutant: the range of the file is taken from the size in memory.
Fault_RangeOk(p) == Fits(p.offset, 0)
RangeOk(p) == Fits(p.offset, p.fileSize)

LoadAddress(p) == IF p.paddr # 0 THEN p.paddr ELSE p.vaddr

\* Mutant: the part beyond the file is not cleared.
Fault_ClearRest(words, p) == words
\* Zeroes from the size in the file up to the size in memory.
ClearRest(words, p) ==
    WriteBytes(words, LoadAddress(p), [k \in 0..(p.memorySize - 1) |-> 0], p.memorySize,
               p.fileSize..(p.memorySize - 1))
\* What lies behind the end of the file is unknown to the code, and 0 here.
LoadSegment(p) ==
    LET FileByte(k) == IF p.offset + k \in DOMAIN file.data THEN file.data[p.offset + k] ELSE 0
    IN  ClearRest(load(image, LoadAddress(p), [k \in 0..(p.fileSize - 1) |-> FileByte(k)],
                       p.fileSize), p)

LoadProgram ==
    LET offset == file.programOffset + header * ProgramSize
        p == file.programs[header + 1]
        end == IF p.load /\ p.offset + p.fileSize > offset + ProgramSize
               THEN p.offset + p.fileSize ELSE offset + ProgramSize
    IN  /\ stage = "programs" /\ header < ProgramCount
        /\ IF ~Fits(offset, ProgramSize) \/ (p.load /\ ~RangeOk(p)) THEN Failed
           ELSE /\ image' = IF p.load THEN LoadSegment(p) ELSE image
                /\ header' = header + 1
                /\ ReadUpTo(end)
                /\ UNCHANGED <<file, stage, entry, symbols>>

ProgramsLoaded ==
    /\ stage = "programs" /\ header = ProgramCount
    /\ stage' = "sections" /\ header' = 0
    /\ UNCHANGED <<file, image, entry, symbols, extent>>

ReadSection ==
    LET offset == file.sectionOffset + header * SectionSize
    IN  /\ stage = "sections" /\ header < SectionCount
        /\ IF ~Fits(offset, SectionSize) THEN Failed
           ELSE /\ header' = header + 1
                /\ ReadUpTo(offset + SectionSize)
                /\ UNCHANGED <<file, stage, image, entry, symbols>>

SectionsRead ==
    /\ stage = "sections" /\ header = SectionCount
    /\ stage' = "symbols" /\ header' = 0
    /\ UNCHANGED <<file, image, entry, symbols, extent>>

\* The string at an offset of a table, if it is one: readString.
Name(strings, offset) == file.names[strings.offset + offset]
NameOk(strings, offset) ==
    /\ offset < strings.size
    /\ Fits(strings.offset, strings.size)
    /\ offset + Name(strings, offset).length < strings.size

\* Named symbols of a table; a later one replaces an earlier one.
TableSymbols(section) ==
    LET strings == file.sections[section.link + 1]
        named == {k \in 0..(section.size \div SymbolSize - 1) :
                    file.symbols[section.offset + k * SymbolSize].name # 0}
        Symbol(k) == file.symbols[section.offset + k * SymbolSize]
        Text(k) == Name(strings, Symbol(k).name).text
    IN  [ok |-> \A k \in named : NameOk(strings, Symbol(k).name),
         symbols |-> {[text |-> Text(k), value |-> Symbol(k).value] :
                        k \in {k \in named : \A l \in named : l > k => Text(l) # Text(k)}},
         end |-> Max({section.offset + section.size} \cup
                     {strings.offset + Symbol(k).name + Name(strings, Symbol(k).name).length + 1 :
                        k \in named})]

ReadSymbols ==
    LET section == file.sections[header + 1]
        skipped == ~section.symtab \/ ~section.entryOk
        tableOk == section.link < SectionCount /\ Fits(section.offset, section.size)
    IN  /\ stage = "symbols" /\ header < SectionCount
        /\ \/ ~skipped /\ ~(tableOk /\ TableSymbols(section).ok) /\ Failed
           \/ /\ skipped
              /\ header' = header + 1
              /\ UNCHANGED <<file, stage, image, entry, symbols, extent>>
           \/ /\ ~skipped /\ tableOk /\ TableSymbols(section).ok
              /\ LET new == TableSymbols(section).symbols
                 IN  symbols' = new \cup {s \in symbols : \A n \in new : n.text # s.text}
              /\ header' = header + 1
              /\ ReadUpTo(TableSymbols(section).end)
              /\ UNCHANGED <<file, stage, image, entry>>

SymbolsRead ==
    /\ stage = "symbols" /\ header = SectionCount
    /\ stage' = "loaded"
    /\ UNCHANGED <<file, header, image, entry, symbols, extent>>

LoadStep == \/ OpenEmpty \/ OpenRaw \/ OpenElf \/ LoadProgram \/ ProgramsLoaded
            \/ ReadSection \/ SectionsRead \/ ReadSymbols \/ SymbolsRead

(***************************************************************************)
(* Properties                                                              *)
(***************************************************************************)

(* No part of the loader reads beyond the end of the file, whatever the    *)
(* offsets, sizes, links and names in its headers say.                     *)
ReadsWithinFile == extent <= file.size

(* The loaded memory is what the program headers describe: at each address *)
(* the last loadable segment that covers it decides, with the byte of the  *)
(* file or, beyond that, zero; segments may overlap and wrap around.       *)
SegmentOffset(p, address) == Wrap(address + AddressSpace - LoadAddress(p))
Covers(p, address) ==
    p.load /\ (SegmentOffset(p, address) < p.fileSize \/ SegmentOffset(p, address) < p.memorySize)
DescribedByte(address) ==
    LET covering == {i \in DOMAIN file.programs : Covers(file.programs[i], address)}
        p == file.programs[Max(covering)]
    IN  IF covering = {} THEN 0
        ELSE IF SegmentOffset(p, address) < p.fileSize
             THEN file.data[p.offset + SegmentOffset(p, address)] ELSE 0
ImageAsDescribed ==
    stage = "loaded" /\ file.magic =>
      \A address \in Address : read8(image, address) = DescribedByte(address)
=============================================================================
