---------------------------- MODULE MemoryLockstep ----------------------------
(***************************************************************************)
(* The two copies of main memory in a difftest run with a platform.  Both  *)
(* start as the loaded image.  dut is AXIMemory::memory_, reached through  *)
(* a bus container of eight bytes; ref is SpikeReference::Impl::memory_,   *)
(* reached byte by byte.  Stores retire in both before the next one, as    *)
(* the difftest sees them; AXIMemory has the interleavings of the bus.     *)
(***************************************************************************)
EXTENDS ElfImage

CONSTANTS
    Ram, WriteCombine, \* regions [base, size] of the platform
    MaxStores          \* bound on the stores of the program

BusBytes == 8
InRegion(region, address) == region.base <= address /\ address < region.base + region.size

ASSUME RegionAssumption ==
    /\ {Ram.base, Ram.size, WriteCombine.base, WriteCombine.size} \subseteq Nat
    /\ Ram.size % 8 = 0 /\ Ram.base % 8 = 0 /\ WordLimit = Ram.size \div 4
    /\ \/ Ram.base + Ram.size <= WriteCombine.base
       \/ WriteCombine.base + WriteCombine.size <= Ram.base
    /\ MaxStores \in Nat

VARIABLES
    dut, ref,      \* the two tables
    saved,         \* the tables of the last checkpoint, if one was taken
    stores         \* how many stores have retired
vars == <<imageVars, dut, ref, saved, stores>>

NoWords == [index \in {} |-> ZeroWord]
Init == /\ ImageInit
        /\ dut = NoWords /\ ref = NoWords
        /\ saved = [taken |-> FALSE, dut |-> NoWords, ref |-> NoWords] /\ stores = 0

Load == LoadStep /\ UNCHANGED <<dut, ref, saved, stores>>

Run(next) == stage' = next /\ UNCHANGED <<file, header, image, entry, symbols, extent>>

\* The bus works on the memory of the image, the reference on a copy of it.
Begin ==
    /\ stage = "loaded" /\ Run("running")
    /\ dut' = image /\ ref' = image
    /\ UNCHANGED <<saved, stores>>

Accesses == {a \in [address : Address, size : {1, 2, 4, 8}] : a.address % a.size = 0}
\* Bytes that tell any two places of a container apart, lowest first.
StoreData == {[k \in 0..7 |-> (first + k) % ByteBase] : first \in Byte}

\* A beat writes every word of its container, with the strobes of that word.
Container(address) == address - (address % BusBytes)
WriteRam(words, a, bytes) ==
    LET At(k) == (a.address % BusBytes) + k
        strobe == {At(k) : k \in 0..(a.size - 1)}
        wordData(word) == [lane \in Lanes |-> IF 4 * word + lane \in strobe
                                              THEN bytes[4 * word + lane - (a.address % BusBytes)] ELSE 0]
        nibble(word) == {lane \in Lanes : 4 * word + lane \in strobe}
        base == Container(a.address)
    IN  write32(write32(words, base, wordData(0), nibble(0)), base + 4, wordData(1), nibble(1))

mmio_store(words, a, bytes) == WriteBytes(words, a.address, bytes, a.size, 0..(a.size - 1))
mmio_load(words, a) == [k \in 0..(a.size - 1) |-> read8(words, a.address + k)]

StoreRam(a, bytes) ==
    /\ stage = "running" /\ stores < MaxStores /\ InRegion(Ram, a.address)
    /\ dut' = WriteRam(dut, a, bytes)
    /\ ref' = mmio_store(ref, a, bytes)
    /\ stores' = stores + 1
    /\ UNCHANGED <<imageVars, saved>>

\* The write-combining window is backed by the same table on the bus; the
\* reference refuses the address, so only a run without it goes on.
StoreWriteCombine(a, bytes) ==
    /\ stage = "running" /\ stores < MaxStores /\ InRegion(WriteCombine, a.address)
    /\ dut' = WriteRam(dut, a, bytes)
    /\ stores' = stores + 1
    /\ UNCHANGED <<imageVars, ref, saved>>

Save ==
    /\ stage = "running"
    /\ saved' = [taken |-> TRUE, dut |-> dut, ref |-> ref]
    /\ UNCHANGED <<imageVars, dut, ref, stores>>

\* Another process restores the checkpoint, or refuses it.
Restore ==
    /\ stage = "running" /\ saved.taken
    /\ \/ /\ Restorable(saved.dut) /\ Restorable(saved.ref)
          /\ dut' = saved.dut /\ ref' = saved.ref
          /\ UNCHANGED imageVars
       \/ /\ ~(Restorable(saved.dut) /\ Restorable(saved.ref))
          /\ Run("refused") /\ UNCHANGED <<dut, ref>>
    /\ UNCHANGED <<saved, stores>>

Next == \/ Load \/ Begin \/ Save \/ Restore
        \/ \E a \in Accesses : \E bytes \in StoreData : StoreRam(a, bytes) \/ StoreWriteCombine(a, bytes)

Spec == Init /\ [][Next]_vars

(***************************************************************************)
(* Properties                                                              *)
(***************************************************************************)

(* After the same stores, through strobes of whole bus containers on one   *)
(* side and byte by byte on the other, RAM holds the same bytes and every  *)
(* aligned load returns the same: the container of the bus, read as two    *)
(* words, carries at the place of the access what mmio_load returns.       *)
LoadsAgree ==
    stage = "running" =>
      \A a \in Accesses : InRegion(Ram, a.address) =>
        LET base == Container(a.address)
            bus == [k \in 0..7 |-> IF k < 4 THEN read32(dut, base)[k] ELSE read32(dut, base + 4)[k - 4]]
        IN  mmio_load(ref, a) = [k \in 0..(a.size - 1) |-> bus[(a.address % BusBytes) + k]]

(* A word or a double word at any address, aligned or not and also across  *)
(* the end of the address space, is exactly its bytes: read32 and read64   *)
(* return them, and write32 and write64 change those that have a strobe    *)
(* and no other.                                                           *)
ChangesExactly(before, after, address, bytes, size, strobe) ==
    \A b \in Address :
      LET k == Wrap(b + AddressSpace - address)
      IN  read8(after, b) = IF k < size /\ k \in strobe THEN bytes[k] ELSE read8(before, b)
WideAccessesAreBytes ==
    stage = "loaded" =>
      \A address \in Address :
        LET bytes == [k \in 0..7 |-> (k + 1) % ByteBase]
            word == [k \in 0..3 |-> bytes[k]]
        IN  /\ \A k \in 0..3 : read32(image, address)[k] = read8(image, Wrap(address + k))
            /\ \A k \in 0..7 : read64(image, address)[k] = read8(image, Wrap(address + k))
            /\ \A strobe \in SUBSET (0..3) :
                 /\ ChangesExactly(image, write32(image, address, word, strobe), address, word, 4, strobe)
                 /\ LET both == strobe \cup {k + 4 : k \in strobe}
                    IN  ChangesExactly(image, write64(image, address, bytes, both), address, bytes, 8, both)

(* A checkpoint of a run that only ever touched RAM is never refused for   *)
(* its size, although the bus makes table entries for words it does not    *)
(* change.  A refused one holds words that the limit does not count: of    *)
(* the write-combining window or of an image loaded outside RAM.           *)
RamIsRestorable ==
    stage = "refused" =>
      \E index \in DOMAIN saved.dut \cup DOMAIN saved.ref : ~InRegion(Ram, 4 * index)
=============================================================================
