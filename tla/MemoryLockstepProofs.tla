------------------------ MODULE MemoryLockstepProofs ------------------------
(***************************************************************************)
(* Proofs about sparse memory, the loader and the two copies of memory,    *)
(* for every file, address map, store and number of stores.  The loops of  *)
(* write8 are recursive functions: what they compute is shown by taking    *)
(* the least number of rounds for which a claim about them would fail.     *)
(***************************************************************************)
EXTENDS MemoryLockstep, WellFoundedInduction, FiniteSetTheorems, TLAPS

\* A set of natural numbers that is not empty has a least element.
LEMMA LeastNat ==
    ASSUME NEW T, T \subseteq Nat, T # {}
    PROVE  \E x \in T : \A y \in T : x <= y
<1> DEFINE R == {ss \in Nat \X Nat : ss[1] < ss[2]}
<1>1. IsWellFoundedOn(R, Nat)
  BY NatLessThanWellFounded DEF OpToRel
<1>2. \E x \in T : \A y \in T : <<y, x>> \notin R
  BY <1>1, WFMin, Zenon
<1>3. \A x, y \in Nat : <<y, x>> \notin R => x <= y
  OBVIOUS
<1> HIDE DEF R
<1> QED
  BY <1>2, <1>3

\* A bounded one has a largest element, and Max is it.
LEMMA LargestIsMax ==
    ASSUME NEW n \in Nat, NEW S, S \subseteq 0..n, S # {}
    PROVE  Max(S) \in S /\ \A j \in S : j <= Max(S)
<1> DEFINE T == {n - k : k \in S}
<1>1. T \subseteq Nat /\ T # {}
  <2>1. \A k \in S : n - k \in Nat
    OBVIOUS
  <2>2. PICK k : k \in S
    OBVIOUS
  <2>3. n - k \in T
    BY <2>2
  <2> QED
    BY <2>1, <2>3
<1>2. PICK x \in T : \A y \in T : x <= y
  BY <1>1, LeastNat
<1>3. PICK m \in S : x = n - m
  BY <1>2
<1>4. \A j \in S : n - m <= n - j
  BY <1>2, <1>3
<1>5. \E z \in S : \A j \in S : z >= j
  BY <1>4
<1>6. Max(S) \in S /\ \A j \in S : Max(S) >= j
  BY <1>5 DEF Max
<1> QED
  BY <1>6

(***************************************************************************)
(* Sparse memory                                                           *)
(***************************************************************************)
Word == [Lanes -> Byte]
IsTable(t) == DOMAIN t \subseteq Nat /\ \A index \in DOMAIN t : t[index] \in Word

\* A word of a table is a word, also where there is no entry.
LEMMA FindWord ==
    ASSUME NEW t, IsTable(t), NEW index
    PROVE  Find(t, index) \in Word
  BY MemoryAssumption DEF IsTable, Find, ZeroWord, Word, Byte

\* A byte read is a byte.
LEMMA Read8Byte ==
    ASSUME NEW t, IsTable(t), NEW address \in Nat
    PROVE  read8(t, address) \in Byte
<1>1. address % 4 \in Lanes
  BY DEF Lanes
<1> QED
  BY <1>1, FindWord DEF read8, Word

\* A byte written changes that byte, and makes an entry of its word.
OneByteWritten(u, t, address, value) ==
    /\ IsTable(u) /\ DOMAIN u = DOMAIN t \cup {address \div 4}
    /\ \A b \in Nat : read8(u, b) = IF b = address THEN value ELSE read8(t, b)

\* What write8 does.
LEMMA Write8Effect ==
    ASSUME NEW t, NEW u, NEW address \in Nat, NEW value \in Byte,
           IsTable(t), u = write8(t, address, value)
    PROVE  OneByteWritten(u, t, address, value)
<1> DEFINE i == address \div 4
       w == [Find(t, i) EXCEPT ![address % 4] = value]
<1>1. i \in Nat /\ address % 4 \in Lanes /\ Find(t, i) \in Word
  BY FindWord DEF Lanes
<1>2. w \in Word
  BY <1>1 DEF Word
<1>3. u = [index \in DOMAIN t \cup {i} |-> IF index = i THEN w ELSE t[index]]
  BY DEF write8
<1>4. DOMAIN u = DOMAIN t \cup {i} /\ u[i] = w
      /\ \A index \in DOMAIN t : index # i => u[index] = t[index]
  BY <1>3
<1>5. IsTable(u)
  BY <1>1, <1>2, <1>4 DEF IsTable
<1>6. ASSUME NEW b \in Nat PROVE read8(u, b) = IF b = address THEN value ELSE read8(t, b)
  <2>1. b % 4 \in Lanes
    BY DEF Lanes
  <2>2. b \div 4 = i /\ b % 4 = address % 4 <=> b = address
    OBVIOUS
  <2>3. CASE b \div 4 = i
    <3>1. Find(u, b \div 4) = w
      BY <1>4, <2>3 DEF Find
    <3>2. w[b % 4] = IF b % 4 = address % 4 THEN value ELSE Find(t, i)[b % 4]
      BY <1>1, <2>1 DEF Word
    <3> QED
      BY <2>2, <2>3, <3>1, <3>2 DEF read8
  <2>4. CASE b \div 4 # i
    <3>1. Find(u, b \div 4) = Find(t, b \div 4)
      BY <1>4, <2>4 DEF Find
    <3> QED
      BY <2>2, <2>4, <3>1 DEF read8
  <2> QED
    BY <2>3, <2>4
<1> QED
  BY <1>4, <1>5, <1>6 DEF OneByteWritten

\* The loop of WriteBytes, as the equation its function solves.
Round(t, n, address, bytes, strobe) ==
    IF n - 1 \in strobe THEN write8(t, Wrap(address + n - 1), bytes[n - 1]) ELSE t
Loop(g, words, address, bytes, size, strobe) ==
    g = [n \in 0..size |-> IF n = 0 THEN words
                           ELSE Round(g[n - 1], n, address, bytes, strobe)]

\* The loop's equation has a solution, whatever the number of rounds.
LEMMA LoopExists ==
    ASSUME NEW words, NEW address, NEW bytes, NEW strobe, NEW size \in Nat
    PROVE  \E g : Loop(g, words, address, bytes, size, strobe)
<1> DEFINE T == {m \in Nat : ~ \E g : Loop(g, words, address, bytes, m, strobe)}
<1>1. SUFFICES ASSUME T # {} PROVE FALSE
  OBVIOUS
<1>2. PICK m \in T : \A y \in T : m <= y
  BY <1>1, LeastNat
<1>3. m # 0
  <2>1. [n \in 0..0 |-> words] = [n \in 0..0 |-> IF n = 0 THEN words
           ELSE Round([k \in 0..0 |-> words][n - 1], n, address, bytes, strobe)]
    OBVIOUS
  <2>2. \E g : Loop(g, words, address, bytes, 0, strobe)
    BY <2>1 DEF Loop
  <2> QED
    BY <2>2
<1>4. m \in Nat /\ m - 1 \in Nat /\ m - 1 \notin T
  BY <1>2, <1>3
<1>5. PICK f : Loop(f, words, address, bytes, m - 1, strobe)
  BY <1>4
<1> DEFINE g == [n \in 0..m |-> IF n = m THEN Round(f[m - 1], m, address, bytes, strobe) ELSE f[n]]
<1>6. \A n \in 0..(m - 1) : f[n] = IF n = 0 THEN words
                                   ELSE Round(f[n - 1], n, address, bytes, strobe)
  BY <1>5 DEF Loop
<1>7. \A n \in 0..m : g[n] = IF n = 0 THEN words ELSE Round(g[n - 1], n, address, bytes, strobe)
  <2> SUFFICES ASSUME NEW n \in 0..m
               PROVE  g[n] = IF n = 0 THEN words ELSE Round(g[n - 1], n, address, bytes, strobe)
    OBVIOUS
  <2>1. n # 0 => n - 1 \in 0..m /\ n - 1 # m /\ g[n - 1] = f[n - 1]
    BY <1>4
  <2>2. CASE n = m
    BY <1>3, <2>1, <2>2
  <2>3. CASE n # m
    <3>1. n \in 0..(m - 1) /\ g[n] = f[n]
      BY <1>4, <2>3
    <3> QED
      BY <1>6, <2>1, <3>1
  <2> QED
    BY <2>2, <2>3
<1>8. Loop(g, words, address, bytes, m, strobe)
  <2>1. DOMAIN g = 0..m
    OBVIOUS
  <2>2. g = [n \in 0..m |-> g[n]]
    OBVIOUS
  <2> HIDE DEF g
  <2> QED
    BY <1>7, <2>2 DEF Loop
<1> HIDE DEF g
<1> QED
  BY <1>2, <1>8

\* So the loop is started with the table and goes on round by round.
LEMMA WriteBytesLoop ==
    ASSUME NEW words, NEW address, NEW bytes, NEW strobe, NEW size \in Nat
    PROVE  \E g : /\ WriteBytes(words, address, bytes, size, strobe) = g[size]
                  /\ g[0] = words
                  /\ \A n \in 1..size : g[n] = Round(g[n - 1], n, address, bytes, strobe)
<1> DEFINE g == CHOOSE h : Loop(h, words, address, bytes, size, strobe)
<1>1. Loop(g, words, address, bytes, size, strobe)
  BY LoopExists
<1>2. WriteBytes(words, address, bytes, size, strobe) = g[size]
  BY DEF WriteBytes, Loop, Round
<1> HIDE DEF g
<1>3. g[0] = words /\ \A n \in 1..size : g[n] = Round(g[n - 1], n, address, bytes, strobe)
  BY <1>1 DEF Loop
<1> QED
  BY <1>2, <1>3

\* The place of address b in a range that starts at address and may wrap around.
Place(b, address) == Wrap(b + AddressSpace - address)

\* The place without the modulus.
LEMMA PlaceIs ==
    ASSUME NEW b \in Address, NEW address \in Address
    PROVE  Place(b, address) = IF b >= address THEN b - address ELSE b + AddressSpace - address
<1>1. AddressSpace \in Nat /\ AddressSpace > 0
  BY MemoryAssumption
<1> QED
  BY <1>1 DEF Place, Wrap, Address

\* An address of the range has one place, and it leads back to it.
LEMMA PlaceOf ==
    ASSUME NEW b \in Address, NEW address \in Address
    PROVE  /\ Place(b, address) \in Address
           /\ \A k \in Address : Wrap(address + k) = b <=> k = Place(b, address)
           /\ \A k \in Address : Wrap(address + k) \in Address
<1>1. AddressSpace \in Nat /\ AddressSpace > 0
  BY MemoryAssumption
<1>2. Place(b, address) = IF b >= address THEN b - address ELSE b + AddressSpace - address
  BY PlaceIs
<1>3. ASSUME NEW k \in Address
      PROVE  Wrap(address + k) = IF address + k < AddressSpace THEN address + k
                                 ELSE address + k - AddressSpace
  BY <1>1 DEF Wrap, Address
<1>4. Place(b, address) \in Address
  BY <1>1, <1>2 DEF Address
<1>5. ASSUME NEW k \in Address
      PROVE  Wrap(address + k) \in Address /\ (Wrap(address + k) = b <=> k = Place(b, address))
  <2>1. k \in 0..(AddressSpace - 1) /\ b \in 0..(AddressSpace - 1) /\ address \in 0..(AddressSpace - 1)
    BY DEF Address
  <2>2. CASE address + k < AddressSpace
    <3>1. Wrap(address + k) = address + k
      BY <1>3, <2>2
    <3> QED
      BY <1>1, <1>2, <2>1, <2>2, <3>1 DEF Address
  <2>3. CASE ~(address + k < AddressSpace)
    <3>1. Wrap(address + k) = address + k - AddressSpace
      BY <1>3, <2>3
    <3> QED
      BY <1>1, <1>2, <2>1, <2>3, <3>1 DEF Address
  <2> QED
    BY <2>2, <2>3
<1> QED
  BY <1>4, <1>5

\* The bytes a loop has written after n rounds.
Written(t, words, address, bytes, strobe, n) ==
    \A b \in Address :
      read8(t, b) = IF Place(b, address) < n /\ Place(b, address) \in strobe
                    THEN bytes[Place(b, address)] ELSE read8(words, b)

BytesFor(bytes, size, strobe) == \A k \in 0..(size - 1) : k \in strobe => bytes[k] \in Byte

ByteAt(bytes, n, strobe) == n \in strobe => bytes[n] \in Byte

RoundDone(u, t, words, address, bytes, strobe, n) ==
    /\ IsTable(u) /\ Written(u, words, address, bytes, strobe, n + 1)
    /\ DOMAIN u = IF n \in strobe THEN DOMAIN t \cup {Wrap(address + n) \div 4} ELSE DOMAIN t

\* One round more.
LEMMA RoundWritten ==
    ASSUME NEW words, NEW address \in Address, NEW bytes, NEW strobe, NEW t, NEW n \in Nat,
           n < AddressSpace, IsTable(t), ByteAt(bytes, n, strobe),
           Written(t, words, address, bytes, strobe, n),
           NEW u, u = Round(t, n + 1, address, bytes, strobe)
    PROVE  RoundDone(u, t, words, address, bytes, strobe, n)
<1>1. n \in Address /\ AddressSpace \in Nat
  BY MemoryAssumption DEF Address
<1>2. n + 1 - 1 = n /\ address + (n + 1) - 1 = address + n
  BY <1>1 DEF Address
<1>3. u = IF n \in strobe THEN write8(t, Wrap(address + n), bytes[n]) ELSE t
  BY <1>2 DEF Round
<1>4. \A b \in Address : /\ Place(b, address) \in Address
                         /\ Wrap(address + n) = b <=> n = Place(b, address)
  BY <1>1, PlaceOf
<1>5. Wrap(address + n) \in Address
  BY <1>1, PlaceOf
<1>6. \A b \in Address : b \in Nat
  BY <1>1 DEF Address
<1>7. CASE n \in strobe
  <2>1. /\ IsTable(u) /\ DOMAIN u = DOMAIN t \cup {Wrap(address + n) \div 4}
        /\ \A b \in Nat : read8(u, b) = IF b = Wrap(address + n) THEN bytes[n] ELSE read8(t, b)
    <3>1. PICK a, value : a = Wrap(address + n) /\ value = bytes[n]
      OBVIOUS
    <3>2. a \in Nat /\ value \in Byte /\ u = write8(t, a, value)
      BY <1>3, <1>5, <1>6, <1>7, <3>1 DEF ByteAt
    <3>3. OneByteWritten(u, t, a, value)
      BY <3>2, Write8Effect
    <3> QED
      BY <3>1, <3>3 DEF OneByteWritten
  <2>2. ASSUME NEW b \in Address
        PROVE  read8(u, b) = IF Place(b, address) < n + 1 /\ Place(b, address) \in strobe
                             THEN bytes[Place(b, address)] ELSE read8(words, b)
    <3> DEFINE k == Place(b, address)
    <3>1. k \in Nat /\ (Wrap(address + n) = b <=> n = k)
      BY <1>4, <1>6
    <3>2. read8(u, b) = IF b = Wrap(address + n) THEN bytes[n] ELSE read8(t, b)
      BY <1>6, <2>1
    <3>3. read8(t, b) = IF k < n /\ k \in strobe THEN bytes[k] ELSE read8(words, b)
      BY DEF Written
    <3> HIDE DEF k
    <3>4. k < n + 1 <=> k < n \/ k = n
      BY <3>1
    <3>5. read8(u, b) = IF k < n + 1 /\ k \in strobe THEN bytes[k] ELSE read8(words, b)
      BY <1>7, <3>1, <3>2, <3>3, <3>4
    <3> QED
      BY <3>5 DEF k
  <2> QED
    BY <1>7, <2>1, <2>2 DEF Written, RoundDone
<1>8. CASE n \notin strobe
  <2>1. ASSUME NEW b \in Address
        PROVE  read8(u, b) = IF Place(b, address) < n + 1 /\ Place(b, address) \in strobe
                             THEN bytes[Place(b, address)] ELSE read8(words, b)
    <3> DEFINE k == Place(b, address)
    <3>1. k \in Nat
      BY <1>4, <1>6
    <3>2. read8(t, b) = IF k < n /\ k \in strobe THEN bytes[k] ELSE read8(words, b)
      BY DEF Written
    <3> HIDE DEF k
    <3>3. k \in strobe => (k < n + 1 <=> k < n)
      BY <1>8, <3>1
    <3>4. read8(u, b) = IF k < n + 1 /\ k \in strobe THEN bytes[k] ELSE read8(words, b)
      BY <1>3, <1>8, <3>2, <3>3
    <3> QED
      BY <3>4 DEF k
  <2> QED
    BY <1>3, <1>8, <2>1 DEF Written, RoundDone
<1> QED
  BY <1>7, <1>8

LoopDone(u, words, address, bytes, size, strobe) ==
    /\ IsTable(u) /\ Written(u, words, address, bytes, strobe, size)
    /\ \A index \in DOMAIN u : \/ index \in DOMAIN words
                               \/ \E k \in 0..(size - 1) : index = Wrap(address + k) \div 4

\* What the loop computes: the strobed bytes of the range, and no others.
LEMMA WriteBytesEffect ==
    ASSUME NEW words, IsTable(words), NEW address \in Address, NEW bytes, NEW strobe,
           NEW size \in 0..AddressSpace, BytesFor(bytes, size, strobe),
           NEW u, u = WriteBytes(words, address, bytes, size, strobe)
    PROVE  LoopDone(u, words, address, bytes, size, strobe)
<1>0. AddressSpace \in Nat /\ size \in Nat
  BY MemoryAssumption
<1>1. PICK g : /\ WriteBytes(words, address, bytes, size, strobe) = g[size]
               /\ g[0] = words
               /\ \A n \in 1..size : g[n] = Round(g[n - 1], n, address, bytes, strobe)
  BY <1>0, WriteBytesLoop
<1> DEFINE Good(n) ==
      /\ IsTable(g[n]) /\ Written(g[n], words, address, bytes, strobe, n)
      /\ \A index \in DOMAIN g[n] : \/ index \in DOMAIN words
                                    \/ \E k \in 0..(n - 1) : index = Wrap(address + k) \div 4
    T == {n \in 0..size : ~Good(n)}
<1>2. Good(0)
  <2>1. \A b \in Address : Place(b, address) \in Nat
    BY <1>0, PlaceOf DEF Address
  <2>2. Written(words, words, address, bytes, strobe, 0)
    <3>1. \A b \in Address : ~(Place(b, address) < 0)
      BY <2>1
    <3> QED
      BY <3>1 DEF Written
  <2> QED
    BY <1>1, <2>2
<1>3. ASSUME NEW n \in 0..(size - 1), Good(n) PROVE Good(n + 1)
  <2>1. n \in Nat /\ n < AddressSpace /\ n + 1 \in 1..size /\ n + 1 - 1 = n
    BY <1>0
  <2>2. g[n + 1] = Round(g[n], n + 1, address, bytes, strobe)
    BY <1>1, <2>1
  <2>3. ByteAt(bytes, n, strobe)
    BY DEF BytesFor, ByteAt
  <2>4. /\ IsTable(g[n + 1]) /\ Written(g[n + 1], words, address, bytes, strobe, n + 1)
        /\ DOMAIN g[n + 1] = IF n \in strobe THEN DOMAIN g[n] \cup {Wrap(address + n) \div 4}
                             ELSE DOMAIN g[n]
    <3>1. PICK t : t = g[n]
      OBVIOUS
    <3>2. IsTable(t) /\ Written(t, words, address, bytes, strobe, n)
      BY <1>3, <3>1
    <3>3. g[n + 1] = Round(t, n + 1, address, bytes, strobe)
      BY <2>2, <3>1
    <3>4. RoundDone(g[n + 1], t, words, address, bytes, strobe, n)
      BY <2>1, <2>3, <3>2, <3>3, RoundWritten
    <3> QED
      BY <3>1, <3>4 DEF RoundDone
  <2>5. ASSUME NEW index \in DOMAIN g[n + 1], index \notin DOMAIN words
        PROVE  \E k \in 0..((n + 1) - 1) : index = Wrap(address + k) \div 4
    <3>1. CASE index \in DOMAIN g[n]
      <4>1. PICK k \in 0..(n - 1) : index = Wrap(address + k) \div 4
        BY <1>3, <2>5, <3>1
      <4>2. k \in 0..((n + 1) - 1)
        BY <2>1
      <4> QED
        BY <4>1, <4>2
    <3>2. CASE index = Wrap(address + n) \div 4
      <4>1. n \in 0..((n + 1) - 1)
        BY <2>1
      <4> QED
        BY <3>2, <4>1
    <3> QED
      BY <2>4, <3>1, <3>2
  <2> QED
    BY <2>4, <2>5
<1> HIDE DEF Good
<1>4. T = {}
  <2>1. SUFFICES ASSUME T # {} PROVE FALSE
    OBVIOUS
  <2>2. T \subseteq Nat
    BY <1>0
  <2>3. PICK m \in T : \A y \in T : m <= y
    BY <2>1, <2>2, LeastNat
  <2>4. m \in 0..size /\ ~Good(m)
    BY <2>3
  <2>5. m # 0
    BY <1>2, <2>4
  <2>6. m - 1 \in 0..(size - 1) /\ m - 1 \in 0..size /\ ~(m <= m - 1) /\ (m - 1) + 1 = m
    BY <1>0, <2>4, <2>5
  <2>7. Good(m - 1)
    BY <2>3, <2>6
  <2>8. Good((m - 1) + 1)
    BY <1>3, <2>6, <2>7
  <2> QED
    BY <2>4, <2>6, <2>8
<1>5. Good(size)
  BY <1>0, <1>4
<1> QED
  BY <1>1, <1>5 DEF Good, LoopDone

\* A segment's bytes in the file, padded as LoadSegment pads them.
SegmentData(p) ==
    [k \in 0..(p.fileSize - 1) |->
       IF p.offset + k \in DOMAIN file.data THEN file.data[p.offset + k] ELSE 0]

\* What a segment leaves at an address: its byte of the file, zero, or nothing.
SegmentWritten(u, t, p) ==
    \A b \in Address :
      read8(u, b) = IF Place(b, LoadAddress(p)) < p.fileSize THEN SegmentData(p)[Place(b, LoadAddress(p))]
                    ELSE IF Place(b, LoadAddress(p)) < p.memorySize THEN 0
                    ELSE read8(t, b)

\* The facts about a file that the loader's proofs need.
LEMMA FileTypes ==
    ASSUME file \in Files
    PROVE  /\ file.size \in 0..AddressSpace /\ file.data \in [0..(file.size - 1) -> Byte]
           /\ file.magic \in BOOLEAN /\ file.programOffset \in Nat /\ file.sectionOffset \in Nat
           /\ file.programs \in Seq(ProgramHeader) /\ file.sections \in Seq(SectionHeader)
           /\ \A o \in 0..(file.size - 1) : file.symbols[o].name \in Nat /\ file.names[o].length \in Nat
  BY ElfAssumption

\* The bytes that are copied and the bytes that are cleared.
LEMMA SegmentEffect ==
    ASSUME file \in Files, IsTable(image), NEW p \in ProgramHeader, NEW u, u = LoadSegment(p)
    PROVE  IsTable(u) /\ SegmentWritten(u, image, p)
<1> DEFINE d == SegmentData(p)
           z == [k \in 0..(p.memorySize - 1) |-> 0]
           s == 0..(p.fileSize - 1)
           c == p.fileSize..(p.memorySize - 1)
           a == LoadAddress(p)
           t == WriteBytes(image, a, d, p.fileSize, s)
<1>1. /\ a \in Address /\ p.fileSize \in Address /\ p.memorySize \in Address /\ p.offset \in Address
      /\ AddressSpace \in Nat /\ 0 \in Byte
  BY MemoryAssumption DEF ProgramHeader, LoadAddress, Byte
<1>2. p.fileSize \in 0..AddressSpace /\ p.memorySize \in 0..AddressSpace
  BY <1>1 DEF Address
<1>3. BytesFor(d, p.fileSize, s)
  <2>1. file.data \in [0..(file.size - 1) -> Byte]
    BY FileTypes
  <2>2. ASSUME NEW k \in 0..(p.fileSize - 1) PROVE d[k] \in Byte
    <3>1. p.offset + k \in DOMAIN file.data => file.data[p.offset + k] \in Byte
      BY <2>1
    <3> QED
      BY <1>1, <3>1 DEF SegmentData
  <2> HIDE DEF d
  <2> QED
    BY <2>2 DEF BytesFor
<1>4. BytesFor(z, p.memorySize, c)
  <2>1. \A k \in 0..(p.memorySize - 1) : z[k] \in Byte
    BY <1>1
  <2> HIDE DEF z
  <2> QED
    BY <2>1 DEF BytesFor
<1>5. u = WriteBytes(t, a, z, p.memorySize, c)
  BY DEF LoadSegment, ClearRest, load, SegmentData
<1>6. \A b \in Address : Place(b, a) \in Nat
  <2> HIDE DEF a
  <2>1. \A b \in Address : Place(b, a) \in Address
    BY <1>1, PlaceOf
  <2> QED
    BY <1>1, <2>1 DEF Address
<1>7. d = SegmentData(p) /\ (\A k \in 0..(p.memorySize - 1) : z[k] = 0)
      /\ (\A k \in Nat : k \in s <=> k < p.fileSize)
      /\ (\A k \in Nat : k \in c <=> p.fileSize <= k /\ k < p.memorySize)
  <2>1. \A k \in 0..(p.memorySize - 1) : z[k] = 0
    OBVIOUS
  <2>2. \A k \in Nat : k \in s <=> k < p.fileSize
    BY <1>2
  <2>3. \A k \in Nat : k \in c <=> p.fileSize <= k /\ k < p.memorySize
    BY <1>2
  <2> HIDE DEF d, z, s, c
  <2> QED
    BY <2>1, <2>2, <2>3 DEF d
<1> HIDE DEF d, z, s, c, a
<1>8. LoopDone(t, image, a, d, p.fileSize, s)
  <2>1. PICK v : v = t
    OBVIOUS
  <2> HIDE DEF t
  <2>2. LoopDone(v, image, a, d, p.fileSize, s)
    BY <1>1, <1>2, <1>3, <2>1, WriteBytesEffect DEF t
  <2> QED
    BY <2>1, <2>2
<1> HIDE DEF t
<1>9. IsTable(t) /\ Written(t, image, a, d, s, p.fileSize)
  BY <1>8 DEF LoopDone
<1>10. LoopDone(u, t, a, z, p.memorySize, c)
  BY <1>1, <1>2, <1>4, <1>5, <1>9, WriteBytesEffect
<1>11. IsTable(u) /\ Written(u, t, a, z, c, p.memorySize)
  BY <1>10 DEF LoopDone
<1>12. ASSUME NEW b \in Address
       PROVE  read8(u, b) = IF Place(b, a) < p.fileSize THEN d[Place(b, a)]
                            ELSE IF Place(b, a) < p.memorySize THEN 0 ELSE read8(image, b)
  <2> DEFINE k == Place(b, a)
  <2>1. k \in Nat
    BY <1>6
  <2>2. read8(u, b) = IF k < p.memorySize /\ k \in c THEN z[k] ELSE read8(t, b)
    BY <1>11 DEF Written
  <2>3. read8(t, b) = IF k < p.fileSize /\ k \in s THEN d[k] ELSE read8(image, b)
    BY <1>9 DEF Written
  <2> HIDE DEF k
  <2>4. read8(u, b) = IF k < p.fileSize THEN d[k]
                      ELSE IF k < p.memorySize THEN 0 ELSE read8(image, b)
    BY <1>2, <1>7, <2>1, <2>2, <2>3
  <2> QED
    BY <2>4 DEF k
<1> QED
  BY <1>7, <1>11, <1>12 DEF SegmentWritten, a

(***************************************************************************)
(* The loader and the two copies: what has what type                       *)
(***************************************************************************)
TypeInv ==
    /\ file \in Files /\ header \in Nat
    /\ IsTable(image) /\ IsTable(dut) /\ IsTable(ref)
    /\ IsTable(saved.dut) /\ IsTable(saved.ref)

\* A table without entries.
LEMMA EmptyTable ==
    IsTable([index \in {} |-> ZeroWord])
  BY DEF IsTable

\* The types hold at the start.
LEMMA TypeInit ==
    ASSUME Init
    PROVE  TypeInv
<1>1. IsTable(NoWords)
  BY EmptyTable DEF NoWords
<1> QED
  BY <1>1, EmptyTable DEF Init, ImageInit, TypeInv

\* A raw image is its bytes from RawBase on.
LEMMA RawTable ==
    ASSUME file \in Files, IsTable(image), NEW u, u = load(image, RawBase, file.data, file.size)
    PROVE  IsTable(u)
<1>1. RawBase \in Address /\ file.size \in 0..AddressSpace
  BY ElfAssumption, FileTypes
<1>2. BytesFor(file.data, file.size, 0..(file.size - 1))
  BY FileTypes DEF BytesFor
<1>3. u = WriteBytes(image, RawBase, file.data, file.size, 0..(file.size - 1))
  BY DEF load
<1>4. LoopDone(u, image, RawBase, file.data, file.size, 0..(file.size - 1))
  <2>1. PICK d, s : d = file.data /\ s = 0..(file.size - 1)
    OBVIOUS
  <2>2. LoopDone(u, image, RawBase, d, file.size, s)
    BY <1>1, <1>2, <1>3, <2>1, WriteBytesEffect
  <2> QED
    BY <2>1, <2>2
<1> QED
  BY <1>4 DEF LoopDone

\* The loader keeps its file and its types.
LEMMA LoadTypes ==
    ASSUME TypeInv, LoadStep
    PROVE  file' = file /\ header' \in Nat /\ IsTable(image')
<1> USE DEF TypeInv
<1>1. CASE OpenEmpty
  BY <1>1 DEF OpenEmpty, Failed
<1>2. CASE OpenRaw
  BY <1>2, RawTable DEF OpenRaw
<1>3. CASE OpenElf
  BY <1>3 DEF OpenElf, Failed
<1>4. CASE LoadProgram
  <2>1. file' = file /\ header' \in Nat
    BY <1>4 DEF LoadProgram, Failed
  <2>2. PICK p : p = file.programs[header + 1]
    OBVIOUS
  <2>3. p \in ProgramHeader /\ (image' = image \/ image' = LoadSegment(p))
    <3>1. header < Len(file.programs) /\ file.programs \in Seq(ProgramHeader)
      BY <1>4, FileTypes DEF LoadProgram, ProgramCount
    <3>2. header + 1 \in 1..Len(file.programs)
      BY <3>1
    <3> QED
      BY <1>4, <2>2, <3>1, <3>2 DEF LoadProgram, Failed
  <2>4. IsTable(image')
    BY <2>3, SegmentEffect
  <2> QED
    BY <2>1, <2>4
<1>5. CASE ProgramsLoaded
  BY <1>5 DEF ProgramsLoaded
<1>6. CASE ReadSection
  BY <1>6 DEF ReadSection, Failed
<1>7. CASE SectionsRead
  BY <1>7 DEF SectionsRead
<1>8. CASE ReadSymbols
  BY <1>8 DEF ReadSymbols, Failed
<1>9. CASE SymbolsRead
  BY <1>9 DEF SymbolsRead
<1> QED
  BY <1>1, <1>2, <1>3, <1>4, <1>5, <1>6, <1>7, <1>8, <1>9 DEF LoadStep

(***************************************************************************)
(* Stores through the bus and through the reference                        *)
(***************************************************************************)
\* What an aligned write32 changes.
WordWritten(u, t, address, bytes, strobe) ==
    /\ IsTable(u)
    /\ \A b \in Nat : read8(u, b) = IF b \div 4 = address \div 4 /\ b % 4 \in strobe
                                    THEN bytes[b % 4] ELSE read8(t, b)

\* Lanes with a strobe are written, the others keep what the word held.
LEMMA AlignedWrite32 ==
    ASSUME NEW t, NEW u, NEW address \in Nat, NEW bytes, NEW strobe, IsTable(t),
           address % 4 = 0, BytesFor(bytes, 4, strobe), u = write32(t, address, bytes, strobe)
    PROVE  WordWritten(u, t, address, bytes, strobe)
<1> DEFINE i == address \div 4
           w == [lane \in Lanes |-> IF lane \in strobe THEN bytes[lane] ELSE Find(t, i)[lane]]
<1>1. i \in Nat /\ Find(t, i) \in Word
  BY FindWord
<1>2. w \in Word
  <2>1. \A lane \in Lanes : lane \in strobe => bytes[lane] \in Byte
    BY DEF Lanes, BytesFor
  <2>2. \A lane \in Lanes : Find(t, i)[lane] \in Byte
    BY <1>1 DEF Word
  <2> QED
    BY <2>1, <2>2 DEF Word
<1>3. u = [index \in DOMAIN t \cup {i} |-> IF index = i THEN w ELSE t[index]]
  BY DEF write32
<1>4. \A lane \in Lanes : w[lane] = IF lane \in strobe THEN bytes[lane] ELSE Find(t, i)[lane]
  OBVIOUS
<1> HIDE DEF w
<1>5. DOMAIN u = DOMAIN t \cup {i} /\ u[i] = w
      /\ \A index \in DOMAIN t : index # i => u[index] = t[index]
  BY <1>3
<1>6. IsTable(u)
  BY <1>1, <1>2, <1>5 DEF IsTable
<1> HIDE DEF i
<1>7. ASSUME NEW b \in Nat
      PROVE  read8(u, b) = IF b \div 4 = i /\ b % 4 \in strobe THEN bytes[b % 4] ELSE read8(t, b)
  <2>1. b % 4 \in Lanes
    BY DEF Lanes
  <2>2. CASE b \div 4 = i
    <3>1. Find(u, b \div 4) = w
      BY <1>5, <2>2 DEF Find
    <3> QED
      BY <1>4, <2>1, <2>2, <3>1 DEF read8
  <2>3. CASE b \div 4 # i
    <3>1. Find(u, b \div 4) = Find(t, b \div 4)
      BY <1>5, <2>3 DEF Find
    <3> QED
      BY <2>3, <3>1 DEF read8
  <2> QED
    BY <2>2, <2>3
<1> QED
  BY <1>6, <1>7 DEF WordWritten, i

\* What a store of the program changes: its bytes, at its address.
Stored(u, t, a, bytes) ==
    /\ IsTable(u)
    /\ \A b \in Address : read8(u, b) = IF a.address <= b /\ b < a.address + a.size
                                        THEN bytes[b - a.address] ELSE read8(t, b)

\* An aligned access lies in one container, and the container in the address space.
LEMMA AccessFits ==
    ASSUME NEW a \in Accesses
    PROVE  /\ a.address \in Address /\ a.address \in Nat /\ a.size \in 1..8
           /\ (a.address % 8) + a.size <= 8
           /\ Container(a.address) \in Address /\ Container(a.address) % 8 = 0
           /\ a.address = Container(a.address) + (a.address % 8)
           /\ Container(a.address) + 8 <= AddressSpace
           /\ a.address + a.size <= Container(a.address) + 8
<1>1. /\ a.address \in Address /\ a.size \in {1, 2, 4, 8} /\ a.address % a.size = 0
      /\ AddressSpace \in Nat /\ AddressSpace % 8 = 0
  BY MemoryAssumption DEF Accesses
<1>2. PICK x : x = a.address
  OBVIOUS
<1>3. x \in Nat /\ x < AddressSpace
  BY <1>1, <1>2 DEF Address
<1>4. x % 8 \in 0..7 /\ x - (x % 8) \in Nat /\ (x - (x % 8)) % 8 = 0
  BY <1>3
<1>5. x - (x % 8) + 8 <= AddressSpace
  BY <1>1, <1>3, <1>4
<1>6. (x % 8) + a.size <= 8
  <2>1. CASE a.size = 1
    BY <1>4, <2>1
  <2>2. CASE a.size = 2
    BY <1>1, <1>2, <1>3, <1>4, <2>2
  <2>3. CASE a.size = 4
    BY <1>1, <1>2, <1>3, <1>4, <2>3
  <2>4. CASE a.size = 8
    BY <1>1, <1>2, <1>3, <1>4, <2>4
  <2> QED
    BY <1>1, <2>1, <2>2, <2>3, <2>4
<1>7. Container(a.address) = x - (x % 8)
  BY <1>2 DEF Container, BusBytes
<1>8. PICK y : y = x % 8
  OBVIOUS
<1>9. x - y \in Nat /\ x - y < AddressSpace /\ x = (x - y) + y /\ x + a.size <= (x - y) + 8
  BY <1>1, <1>3, <1>4, <1>5, <1>6, <1>8
<1>10. x - y \in Address
  BY <1>9, <1>1 DEF Address
<1>11. a.size \in 1..8
  BY <1>1
<1>12. a.address = x /\ a.address % 8 = y /\ Container(a.address) = x - y
  BY <1>2, <1>7, <1>8
<1>13. (x - y) % 8 = 0 /\ (x - y) + 8 <= AddressSpace /\ y + a.size <= 8 /\ x \in Address
  BY <1>1, <1>2, <1>4, <1>5, <1>6, <1>8
<1> QED
  BY <1>3, <1>9, <1>10, <1>11, <1>12, <1>13

\* A store of the reference, byte by byte.
LEMMA MmioStoreEffect ==
    ASSUME NEW t, NEW u, NEW a \in Accesses, NEW bytes \in [0..7 -> Byte], IsTable(t),
           u = mmio_store(t, a, bytes)
    PROVE  Stored(u, t, a, bytes)
<1>1. /\ a.address \in Address /\ a.address \in Nat /\ a.size \in 1..8
      /\ a.address + a.size <= AddressSpace /\ AddressSpace \in Nat
  <2>1. /\ a.address \in Address /\ a.address \in Nat /\ a.size \in 1..8
        /\ Container(a.address) \in Address /\ Container(a.address) + 8 <= AddressSpace
        /\ a.address + a.size <= Container(a.address) + 8
    BY AccessFits
  <2>2. AddressSpace \in Nat
    BY MemoryAssumption
  <2> QED
    BY <2>1, <2>2 DEF Address
<1>2. a.size \in 0..AddressSpace /\ BytesFor(bytes, a.size, 0..(a.size - 1))
  BY <1>1 DEF BytesFor
<1>3. PICK s, x, n : s = 0..(a.size - 1) /\ x = a.address /\ n = a.size
  OBVIOUS
<1>4. LoopDone(u, t, x, bytes, n, s)
  <2>1. u = WriteBytes(t, x, bytes, n, s)
    BY <1>3 DEF mmio_store
  <2> QED
    BY <1>1, <1>2, <1>3, <2>1, WriteBytesEffect
<1>5. IsTable(u) /\ Written(u, t, x, bytes, s, n)
  BY <1>4 DEF LoopDone
<1>6. ASSUME NEW b \in Address
      PROVE  read8(u, b) = IF x <= b /\ b < x + n THEN bytes[b - x] ELSE read8(t, b)
  <2>1. b \in Nat /\ b < AddressSpace /\ x \in Nat /\ x + n <= AddressSpace /\ n \in 1..8
        /\ x < AddressSpace
    BY <1>1, <1>3 DEF Address
  <2>2. Place(b, x) = IF b >= x THEN b - x ELSE b + AddressSpace - x
    <3>1. x \in Address
      BY <1>1, <1>3
    <3> QED
      BY <3>1, PlaceIs
  <2>3. read8(u, b) = IF Place(b, x) < n /\ Place(b, x) \in s THEN bytes[Place(b, x)]
                      ELSE read8(t, b)
    BY <1>5 DEF Written
  <2>4. CASE b >= x
    <3>1. PICK k : k = b - x
      OBVIOUS
    <3>2. k \in Nat /\ Place(b, x) = k /\ (x <= b /\ b < x + n <=> k < n)
      BY <2>1, <2>2, <2>4, <3>1
    <3>3. k < n => k \in s
      BY <1>3, <2>1, <3>2
    <3> QED
      BY <2>3, <3>1, <3>2, <3>3
  <2>5. CASE b < x
    <3>1. ~(Place(b, x) < n) /\ ~(x <= b)
      BY <1>1, <2>1, <2>2, <2>5
    <3> QED
      BY <2>3, <3>1
  <2> QED
    BY <2>1, <2>4, <2>5
<1> QED
  BY <1>3, <1>5, <1>6 DEF Stored

\* The two words of a container, written with their strobes, are the same store.
LEMMA WriteRamEffect ==
    ASSUME NEW t, NEW u, NEW a \in Accesses, NEW bytes \in [0..7 -> Byte], IsTable(t),
           u = WriteRam(t, a, bytes)
    PROVE  Stored(u, t, a, bytes)
<1> DEFINE x == a.address
           n == a.size
           o == x % 8
           base == Container(x)
<1>2. /\ x \in Nat /\ n \in 1..8 /\ o \in Nat /\ o + n <= 8
      /\ base \in Nat /\ base % 8 = 0 /\ x = base + o
  <2>1. /\ a.address \in Nat /\ a.size \in 1..8 /\ (a.address % 8) + a.size <= 8
        /\ Container(a.address) \in Address /\ Container(a.address) % 8 = 0
        /\ a.address = Container(a.address) + (a.address % 8)
    BY AccessFits
  <2>2. Container(a.address) \in Nat
    BY <2>1, MemoryAssumption DEF Address
  <2> QED
    BY <2>1, <2>2
<1> DEFINE strobe == {o + k : k \in 0..(n - 1)}
           at(word, lane) == 4 * word + lane
           from(word, lane) == 4 * word + lane - o
           data(word) == [lane \in Lanes |-> IF at(word, lane) \in strobe
                                             THEN bytes[from(word, lane)] ELSE 0]
           nibble(word) == {lane \in Lanes : at(word, lane) \in strobe}
           v == write32(t, base, data(0), nibble(0))
<1>3. u = write32(v, base + 4, data(1), nibble(1))
  BY DEF WriteRam, BusBytes
<1> HIDE DEF x, n, o, base
<1>4. \A j \in Nat : j \in strobe <=> o <= j /\ j < o + n
  <2>1. ASSUME NEW j \in Nat, o <= j, j < o + n PROVE j \in strobe
    <3>1. j - o \in 0..(n - 1) /\ j = o + (j - o)
      BY <1>2, <2>1
    <3> QED
      BY <3>1
  <2>2. \A j \in strobe : o <= j /\ j < o + n
    BY <1>2
  <2> QED
    BY <2>1, <2>2
<1> HIDE DEF strobe
<1>5. ASSUME NEW word \in {0, 1}, NEW lane \in Lanes
      PROVE  /\ lane \in nibble(word) <=> o <= at(word, lane) /\ at(word, lane) < o + n
             /\ lane \in nibble(word) => /\ data(word)[lane] = bytes[at(word, lane) - o]
                                         /\ data(word)[lane] \in Byte
  <2>1. at(word, lane) \in Nat
    BY DEF Lanes
  <2>0. from(word, lane) = at(word, lane) - o
    BY <1>2 DEF Lanes
  <2> HIDE DEF at, from
  <2>2. lane \in nibble(word) <=> at(word, lane) \in strobe
    OBVIOUS
  <2>3. at(word, lane) \in strobe => data(word)[lane] = bytes[at(word, lane) - o]
    BY <2>0
  <2> HIDE DEF nibble, data
  <2>4. o <= at(word, lane) /\ at(word, lane) < o + n => at(word, lane) - o \in 0..7
    BY <1>2, <2>1
  <2> QED
    BY <1>4, <2>1, <2>2, <2>3, <2>4
<1>5a. \A lane \in Lanes : at(0, lane) = lane /\ at(1, lane) = 4 + lane
  BY DEF Lanes
<1> HIDE DEF at
<1>6. BytesFor(data(0), 4, nibble(0)) /\ BytesFor(data(1), 4, nibble(1))
  <2> HIDE DEF nibble, data
  <2> QED
    BY <1>5 DEF BytesFor, Lanes
<1> HIDE DEF nibble, data
<1>7. WordWritten(v, t, base, data(0), nibble(0))
  <2>1. PICK d, s, w : d = data(0) /\ s = nibble(0) /\ w = v
    OBVIOUS
  <2>2. base % 4 = 0 /\ w = write32(t, base, d, s)
    BY <1>2, <2>1
  <2>3. WordWritten(w, t, base, d, s)
    BY <1>2, <1>6, <2>1, <2>2, AlignedWrite32
  <2> QED
    BY <2>1, <2>3
<1> HIDE DEF v
<1>8. WordWritten(u, v, base + 4, data(1), nibble(1))
  <2>1. PICK d, s : d = data(1) /\ s = nibble(1)
    OBVIOUS
  <2>2. (base + 4) % 4 = 0 /\ base + 4 \in Nat /\ u = write32(v, base + 4, d, s) /\ IsTable(v)
    BY <1>2, <1>3, <1>7, <2>1 DEF WordWritten
  <2>3. WordWritten(u, v, base + 4, d, s)
    BY <1>6, <2>1, <2>2, AlignedWrite32
  <2> QED
    BY <2>1, <2>3
<1>9. ASSUME NEW b \in Nat
      PROVE  read8(u, b) = IF x <= b /\ b < x + n THEN bytes[b - x] ELSE read8(t, b)
  <2>1. PICK q, lane : q = b \div 4 /\ lane = b % 4
    OBVIOUS
  <2>2. q \in Nat /\ lane \in Lanes /\ b = 4 * q + lane /\ lane \in 0..3
    BY <2>1 DEF Lanes
  <2>3. PICK c : c = base \div 4
    OBVIOUS
  <2>4. base = 4 * c /\ c \in Nat /\ (base + 4) \div 4 = c + 1
    BY <1>2, <2>3
  <2>5. read8(u, b) = IF q = c + 1 /\ lane \in nibble(1) THEN data(1)[lane] ELSE read8(v, b)
    BY <1>8, <2>1, <2>4 DEF WordWritten
  <2>6. read8(v, b) = IF q = c /\ lane \in nibble(0) THEN data(0)[lane] ELSE read8(t, b)
    BY <1>7, <2>1, <2>3 DEF WordWritten
  <2>7. /\ lane \in nibble(0) <=> o <= lane /\ lane < o + n
        /\ lane \in nibble(0) => data(0)[lane] = bytes[lane - o]
    BY <1>5, <1>5a, <2>2
  <2>7a. PICK j : j = at(1, lane)
    OBVIOUS
  <2>8. /\ lane \in nibble(1) <=> o <= j /\ j < o + n
        /\ lane \in nibble(1) => data(1)[lane] = bytes[j - o]
    BY <1>5, <2>2, <2>7a
  <2>8a. j = 4 + lane
    BY <1>5a, <2>2, <2>7a
  <2>9. CASE q = c + 1
    <3>1. b - x = j - o /\ (x <= b <=> o <= j) /\ (b < x + n <=> j < o + n) /\ q # c
      BY <1>2, <2>2, <2>4, <2>8a, <2>9
    <3> QED
      BY <2>5, <2>6, <2>8, <2>9, <3>1
  <2>10. CASE q = c
    <3>1. b - x = lane - o /\ (x <= b <=> o <= lane) /\ (b < x + n <=> lane < o + n) /\ q # c + 1
      BY <1>2, <2>2, <2>4, <2>10
    <3> QED
      BY <2>5, <2>6, <2>7, <2>10, <3>1
  <2>11. CASE q # c /\ q # c + 1
    <3>1. ~(x <= b /\ b < x + n)
      BY <1>2, <2>2, <2>4, <2>11
    <3> QED
      BY <2>5, <2>6, <2>11, <3>1
  <2> QED
    BY <2>9, <2>10, <2>11
<1>10. IsTable(u) /\ \A b \in Address : b \in Nat
  BY <1>8, MemoryAssumption DEF WordWritten, Address
<1> QED
  BY <1>9, <1>10 DEF Stored, x, n

\* The bytes of a store are bytes.
LEMMA StoreBytes ==
    ASSUME NEW bytes \in StoreData
    PROVE  bytes \in [0..7 -> Byte]
<1>1. PICK first \in Byte : bytes = [k \in 0..7 |-> (first + k) % ByteBase]
  BY DEF StoreData
<1>2. \A k \in 0..7 : (first + k) % ByteBase \in Byte
  BY MemoryAssumption DEF Byte
<1> QED
  BY <1>1, <1>2

(***************************************************************************)
(* Every step keeps the types, and what each stage may have done           *)
(***************************************************************************)
\* Checkpoints are only taken of a run; a refused one was too large.
StageInv ==
    /\ saved.taken => stage \in {"running", "refused"}
    /\ stage = "refused" => ~(Restorable(saved.dut) /\ Restorable(saved.ref))

\* Every step keeps the types.
LEMMA TypeStep ==
    ASSUME TypeInv, Next
    PROVE  TypeInv'
<1> USE DEF TypeInv
<1>1. CASE Load
  BY <1>1, LoadTypes DEF Load
<1>2. CASE Begin
  BY <1>2 DEF Begin, Run
<1>3. CASE Save
  BY <1>3 DEF Save, imageVars
<1>4. CASE Restore
  BY <1>4 DEF Restore, Run, imageVars
<1>5. ASSUME NEW a \in Accesses, NEW bytes \in StoreData, StoreRam(a, bytes)
      PROVE  TypeInv'
  <2>1. bytes \in [0..7 -> Byte]
    BY StoreBytes
  <2>2. /\ dut' = WriteRam(dut, a, bytes) /\ ref' = mmio_store(ref, a, bytes)
        /\ UNCHANGED <<file, header, image, saved>>
    BY <1>5 DEF StoreRam, imageVars
  <2>3. Stored(dut', dut, a, bytes)
    BY <2>1, <2>2, WriteRamEffect
  <2>4. Stored(ref', ref, a, bytes)
    BY <2>1, <2>2, MmioStoreEffect
  <2> QED
    BY <2>2, <2>3, <2>4 DEF Stored
<1>6. ASSUME NEW a \in Accesses, NEW bytes \in StoreData, StoreWriteCombine(a, bytes)
      PROVE  TypeInv'
  <2>1. bytes \in [0..7 -> Byte]
    BY StoreBytes
  <2>2. dut' = WriteRam(dut, a, bytes) /\ UNCHANGED <<file, header, image, saved, ref>>
    BY <1>6 DEF StoreWriteCombine, imageVars
  <2>3. Stored(dut', dut, a, bytes)
    BY <2>1, <2>2, WriteRamEffect
  <2> QED
    BY <2>2, <2>3 DEF Stored
<1> QED
  BY <1>1, <1>2, <1>3, <1>4, <1>5, <1>6 DEF Next

\* The loader is done when the run begins.
LEMMA LoadStages ==
    ASSUME LoadStep
    PROVE  stage \notin {"running", "refused"} /\ stage' \notin {"running", "refused"}
  BY DEF LoadStep, OpenEmpty, OpenRaw, OpenElf, LoadProgram, ProgramsLoaded, ReadSection,
         SectionsRead, ReadSymbols, SymbolsRead, Failed

\* Every step keeps what is known of its stage.
LEMMA StageStep ==
    ASSUME StageInv, Next
    PROVE  StageInv'
<1> USE DEF StageInv
<1>1. CASE Load
  BY <1>1, LoadStages DEF Load
<1>2. CASE Begin
  BY <1>2 DEF Begin, Run
<1>3. CASE Save
  BY <1>3 DEF Save, imageVars
<1>4. CASE Restore
  BY <1>4 DEF Restore, Run, imageVars
<1>5. CASE \E a \in Accesses : \E bytes \in StoreData :
             StoreRam(a, bytes) \/ StoreWriteCombine(a, bytes)
  BY <1>5 DEF StoreRam, StoreWriteCombine, imageVars
<1> QED
  BY <1>1, <1>2, <1>3, <1>4, <1>5 DEF Next

\* Types and stages hold throughout.
LEMMA TypesCorrect ==
    Spec => [](TypeInv /\ StageInv)
<1>1. Init => TypeInv /\ StageInv
  BY TypeInit DEF Init, ImageInit, StageInv
<1>2. TypeInv /\ StageInv /\ [Next]_vars => (TypeInv /\ StageInv)'
  <2>1. ASSUME TypeInv, StageInv, Next PROVE (TypeInv /\ StageInv)'
    BY <2>1, TypeStep, StageStep
  <2>2. ASSUME TypeInv, StageInv, UNCHANGED vars PROVE (TypeInv /\ StageInv)'
    BY <2>2 DEF TypeInv, StageInv, vars, imageVars
  <2> QED
    BY <2>1, <2>2
<1> QED
  BY <1>1, <1>2, PTL DEF Spec

(* A checkpoint that restore refuses for its size holds a word outside     *)
(* RAM: as many words as RAM has are always accepted.                      *)
THEOREM RestorableCorrect ==
    Spec => []RamIsRestorable
<1>1. ASSUME NEW S, S \subseteq Nat, \A index \in S : InRegion(Ram, 4 * index)
      PROVE  Cardinality(S) <= WordLimit
  <2>1. PICK low : low = Ram.base \div 4
    OBVIOUS
  <2>2. /\ Ram.base \in Nat /\ Ram.size \in Nat /\ WordLimit = Ram.size \div 4
        /\ Ram.base % 8 = 0 /\ Ram.size % 8 = 0
    BY RegionAssumption
  <2>3. WordLimit \in Nat /\ low \in Nat /\ Ram.base = 4 * low /\ Ram.size = 4 * WordLimit
    BY <2>1, <2>2
  <2> DEFINE high == low + WordLimit - 1
  <2>4. S \subseteq low..high
    <3> SUFFICES ASSUME NEW index \in S PROVE index \in low..high
      OBVIOUS
    <3>1. index \in Nat /\ 4 * low <= 4 * index /\ 4 * index < 4 * low + 4 * WordLimit
      BY <1>1, <2>3 DEF InRegion
    <3> QED
      BY <2>3, <3>1
  <2>5. low \in Int /\ high \in Int
    BY <2>3
  <2>6. IsFiniteSet(low..high) /\ Cardinality(low..high) = IF low > high THEN 0 ELSE high - low + 1
    BY <2>5, FS_Interval
  <2>7. Cardinality(low..high) = WordLimit
    BY <2>3, <2>6
  <2> HIDE DEF high
  <2>8. Cardinality(S) <= Cardinality(low..high)
    BY <2>4, <2>6, FS_Subset
  <2> QED
    BY <2>7, <2>8
<1>2. TypeInv /\ StageInv => RamIsRestorable
  <2> SUFFICES ASSUME TypeInv, StageInv, stage = "refused",
                      \A index \in DOMAIN saved.dut \cup DOMAIN saved.ref : InRegion(Ram, 4 * index)
               PROVE  FALSE
    BY DEF RamIsRestorable
  <2>1. DOMAIN saved.dut \subseteq Nat /\ DOMAIN saved.ref \subseteq Nat
    BY DEF TypeInv, IsTable
  <2>2. Restorable(saved.dut)
    BY <1>1, <2>1 DEF Restorable
  <2>3. Restorable(saved.ref)
    BY <1>1, <2>1 DEF Restorable
  <2> QED
    BY <2>2, <2>3 DEF StageInv
<1> QED
  BY <1>2, TypesCorrect, PTL

(***************************************************************************)
(* The two copies hold the same bytes in RAM                               *)
(***************************************************************************)
AgreeOn(d, r) == \A b \in Address : InRegion(Ram, b) => read8(d, b) = read8(r, b)
AgreeInv ==
    stage = "running" => AgreeOn(dut, ref) /\ (saved.taken => AgreeOn(saved.dut, saved.ref))

\* A store to the write-combining window touches no byte of RAM.
LEMMA WindowIsNotRam ==
    ASSUME NEW a \in Accesses, InRegion(WriteCombine, a.address), NEW b \in Address, InRegion(Ram, b)
    PROVE  ~(a.address <= b /\ b < a.address + a.size)
<1>1. /\ Ram.base \in Nat /\ Ram.size \in Nat /\ WriteCombine.base \in Nat /\ WriteCombine.size \in Nat
      /\ Ram.base % 8 = 0
      /\ \/ Ram.base + Ram.size <= WriteCombine.base
         \/ WriteCombine.base + WriteCombine.size <= Ram.base
  BY RegionAssumption
<1>2. PICK x, n, c, r, s, w, v : /\ x = a.address /\ n = a.size /\ c = Container(a.address)
                                 /\ r = Ram.base /\ s = Ram.size
                                 /\ w = WriteCombine.base /\ v = WriteCombine.size
  OBVIOUS
<1>3. /\ x \in Nat /\ n \in 1..8 /\ c \in Nat /\ c % 8 = 0 /\ x + n <= c + 8 /\ c <= x
  <2>1. /\ a.address \in Nat /\ a.size \in 1..8
        /\ Container(a.address) \in Address /\ Container(a.address) % 8 = 0
        /\ a.address + a.size <= Container(a.address) + 8
        /\ a.address = Container(a.address) + (a.address % 8)
    BY AccessFits
  <2>2. Container(a.address) \in Nat /\ a.address % 8 \in Nat
    BY <2>1, MemoryAssumption DEF Address
  <2>3. PICK m : m = a.address % 8
    OBVIOUS
  <2> QED
    BY <1>2, <2>1, <2>2, <2>3
<1>4. w <= x /\ x < w + v /\ r <= b /\ b < r + s /\ b \in Nat
  BY <1>2, MemoryAssumption DEF InRegion, Address
<1>5. r \in Nat /\ s \in Nat /\ w \in Nat /\ v \in Nat /\ r % 8 = 0 /\ (r + s <= w \/ w + v <= r)
  BY <1>1, <1>2
<1>6. CASE r + s <= w
  BY <1>2, <1>3, <1>4, <1>5, <1>6
<1>7. CASE w + v <= r
  <2>1. c < r /\ c + 8 <= r
    BY <1>3, <1>4, <1>5, <1>7
  <2> QED
    BY <1>2, <1>3, <1>4, <1>5, <2>1
<1> QED
  BY <1>5, <1>6, <1>7

\* Stores, saves and restores keep the copies alike.
LEMMA AgreeStep ==
    ASSUME TypeInv, StageInv, AgreeInv, Next
    PROVE  AgreeInv'
<1>1. CASE Load
  BY <1>1, LoadStages DEF Load, AgreeInv
<1>2. CASE Begin
  BY <1>2 DEF Begin, Run, AgreeInv, StageInv, AgreeOn
<1>3. CASE Save
  BY <1>3 DEF Save, imageVars, AgreeInv
<1>4. CASE Restore
  BY <1>4 DEF Restore, Run, imageVars, AgreeInv
<1>5. ASSUME NEW a \in Accesses, NEW bytes \in StoreData, StoreRam(a, bytes)
      PROVE  AgreeInv'
  <2>1. bytes \in [0..7 -> Byte]
    BY StoreBytes
  <2>2. /\ dut' = WriteRam(dut, a, bytes) /\ ref' = mmio_store(ref, a, bytes)
        /\ stage = "running" /\ stage' = stage /\ saved' = saved
    BY <1>5 DEF StoreRam, imageVars
  <2>3. Stored(dut', dut, a, bytes)
    BY <2>1, <2>2, WriteRamEffect DEF TypeInv
  <2>4. Stored(ref', ref, a, bytes)
    BY <2>1, <2>2, MmioStoreEffect DEF TypeInv
  <2>5. AgreeOn(dut', ref')
    BY <2>2, <2>3, <2>4 DEF Stored, AgreeInv, AgreeOn
  <2> QED
    BY <2>2, <2>5 DEF AgreeInv
<1>6. ASSUME NEW a \in Accesses, NEW bytes \in StoreData, StoreWriteCombine(a, bytes)
      PROVE  AgreeInv'
  <2>1. bytes \in [0..7 -> Byte]
    BY StoreBytes
  <2>2. /\ dut' = WriteRam(dut, a, bytes) /\ ref' = ref /\ InRegion(WriteCombine, a.address)
        /\ stage = "running" /\ stage' = stage /\ saved' = saved
    BY <1>6 DEF StoreWriteCombine, imageVars
  <2>3. Stored(dut', dut, a, bytes)
    BY <2>1, <2>2, WriteRamEffect DEF TypeInv
  <2>4. ASSUME NEW b \in Address, InRegion(Ram, b) PROVE read8(dut', b) = read8(dut, b)
    BY <2>2, <2>3, <2>4, WindowIsNotRam DEF Stored
  <2>5. AgreeOn(dut', ref')
    BY <2>2, <2>4 DEF AgreeInv, AgreeOn
  <2> QED
    BY <2>2, <2>5 DEF AgreeInv
<1> QED
  BY <1>1, <1>2, <1>3, <1>4, <1>5, <1>6 DEF Next

\* A word at an aligned address is its four bytes.
LEMMA AlignedRead32 ==
    ASSUME NEW t, NEW address \in Nat, address % 4 = 0, NEW k \in 0..3
    PROVE  read32(t, address)[k] = read8(t, address + k)
<1>1. (address + k) \div 4 = address \div 4 /\ (address + k) % 4 = k
  OBVIOUS
<1> QED
  BY <1>1 DEF read32, read8

(* Every aligned load of RAM returns on the bus what the reference         *)
(* returns, after any stores, checkpoints and restores.                    *)
THEOREM LoadsAgreeCorrect ==
    Spec => []LoadsAgree
<1>1. Init => AgreeInv
  BY DEF Init, ImageInit, AgreeInv
<1>2. TypeInv /\ StageInv /\ AgreeInv /\ [Next]_vars => AgreeInv'
  <2>1. ASSUME TypeInv, StageInv, AgreeInv, Next PROVE AgreeInv'
    BY <2>1, AgreeStep
  <2>2. ASSUME AgreeInv, UNCHANGED vars PROVE AgreeInv'
    BY <2>2 DEF AgreeInv, vars, imageVars
  <2> QED
    BY <2>1, <2>2
<1>3. AgreeInv => LoadsAgree
  <2> SUFFICES ASSUME AgreeInv, stage = "running", NEW a \in Accesses, InRegion(Ram, a.address)
               PROVE  LET base == Container(a.address)
                          bus == [k \in 0..7 |-> IF k < 4 THEN read32(dut, base)[k]
                                                 ELSE read32(dut, base + 4)[k - 4]]
                      IN  mmio_load(ref, a) =
                            [k \in 0..(a.size - 1) |-> bus[(a.address % BusBytes) + k]]
    BY DEF LoadsAgree
  <2> DEFINE base == Container(a.address)
             bus == [k \in 0..7 |-> IF k < 4 THEN read32(dut, base)[k] ELSE read32(dut, base + 4)[k - 4]]
             o == a.address % BusBytes
  <2>1. /\ base \in Nat /\ base % 8 = 0 /\ o \in Nat /\ a.address = base + o /\ a.address \in Nat
        /\ a.size \in 1..8 /\ o + a.size <= 8 /\ base + 8 <= AddressSpace
    <3>1. Container(a.address) \in Nat /\ a.address % 8 \in Nat
      BY AccessFits, MemoryAssumption DEF Address
    <3> QED
      BY <3>1, AccessFits DEF BusBytes
  <2> HIDE DEF base, o
  <2>2. ASSUME NEW k \in 0..7 PROVE bus[k] = read8(dut, base + k)
    <3>1. CASE k < 4
      BY <2>1, <3>1, AlignedRead32
    <3>2. CASE k >= 4
      <4>1. base + 4 \in Nat /\ (base + 4) % 4 = 0 /\ k - 4 \in 0..3 /\ (base + 4) + (k - 4) = base + k
        BY <2>1, <3>2
      <4>2. read32(dut, base + 4)[k - 4] = read8(dut, (base + 4) + (k - 4))
        BY <4>1, AlignedRead32
      <4> QED
        BY <3>2, <4>1, <4>2
    <3> QED
      BY <3>1, <3>2
  <2> HIDE DEF bus
  <2>3. ASSUME NEW k \in 0..(a.size - 1)
        PROVE  read8(ref, a.address + k) = bus[o + k]
    <3>1. o + k \in 0..7 /\ a.address + k = base + (o + k)
      BY <2>1
    <3>2. a.address + k \in Address /\ InRegion(Ram, a.address + k)
      <4>1. Ram.base \in Nat /\ Ram.size \in Nat /\ Ram.base % 8 = 0 /\ Ram.size % 8 = 0
        BY RegionAssumption
      <4>2. PICK r, s : r = Ram.base /\ s = Ram.size
        OBVIOUS
      <4>3. r <= a.address /\ a.address < r + s
        BY <4>2 DEF InRegion
      <4>4. base < r + s /\ base + 8 <= r + s
        BY <2>1, <4>1, <4>2, <4>3
      <4>5. r <= a.address + k /\ a.address + k < r + s /\ a.address + k < AddressSpace
            /\ a.address + k \in Nat
        BY <2>1, <3>1, <4>1, <4>2, <4>3, <4>4, MemoryAssumption
      <4> QED
        BY <4>2, <4>5, MemoryAssumption DEF Address, InRegion
    <3>3. read8(dut, a.address + k) = read8(ref, a.address + k)
      BY <3>2 DEF AgreeInv, AgreeOn
    <3> QED
      BY <2>2, <3>1, <3>3
  <2>4. mmio_load(ref, a) = [k \in 0..(a.size - 1) |-> bus[o + k]]
    BY <2>3 DEF mmio_load
  <2> QED
    BY <2>4 DEF bus, base, o
<1> QED
  BY <1>1, <1>2, <1>3, TypesCorrect, PTL DEF Spec

(***************************************************************************)
(* The loader reads only the file                                          *)
(***************************************************************************)
ExtentInv == extent \in 0..file.size

\* Where a symbol of a table lies.
LEMMA SymbolOffset ==
    ASSUME NEW size \in Nat, NEW entry0 \in Nat \ {0}, NEW k \in 0..(size \div entry0 - 1)
    PROVE  k * entry0 \in Nat /\ k * entry0 < size
<1>1. PICK q : q = size \div entry0
  OBVIOUS
<1>2. q \in Nat /\ q * entry0 <= size
  BY <1>1
<1>3. k \in Nat /\ k + 1 <= q
  BY <1>1, <1>2
<1>4. (k + 1) * entry0 <= q * entry0
  BY <1>2, <1>3
<1>5. (k + 1) * entry0 = k * entry0 + entry0 /\ k * entry0 \in Nat
  BY <1>3
<1> QED
  BY <1>2, <1>4, <1>5

\* A table and the names of its symbols end within the file.
LEMMA TableEnd ==
    ASSUME file \in Files, NEW section \in SectionHeader, section.link < SectionCount,
           Fits(section.offset, section.size), TableSymbols(section).ok
    PROVE  TableSymbols(section).end \in 0..file.size
<1> DEFINE strings == file.sections[section.link + 1]
           at(k) == section.offset + k * SymbolSize
           named == {k \in 0..(section.size \div SymbolSize - 1) : file.symbols[at(k)].name # 0}
           name(k) == file.symbols[at(k)].name
           stop(k) == strings.offset + name(k) + Name(strings, name(k)).length + 1
           S == {section.offset + section.size} \cup {stop(k) : k \in named}
<1>1. /\ file.size \in Nat /\ file.sections \in Seq(SectionHeader)
      /\ \A o \in 0..(file.size - 1) : file.symbols[o].name \in Nat /\ file.names[o].length \in Nat
  BY FileTypes
<1>2. /\ section.offset \in Nat /\ section.size \in Nat /\ section.link \in Nat
      /\ SymbolSize \in Nat \ {0}
  BY MemoryAssumption, ElfAssumption DEF SectionHeader, Address
<1>3. section.offset + section.size <= file.size
  BY <1>1, <1>2 DEF Fits
<1>4. strings.offset \in Nat /\ strings.size \in Nat
  <2>1. section.link + 1 \in 1..Len(file.sections)
    BY <1>1, <1>2 DEF SectionCount
  <2>2. strings \in SectionHeader
    BY <1>1, <2>1
  <2> HIDE DEF strings
  <2> QED
    BY <2>2, MemoryAssumption DEF SectionHeader, Address
<1>5. \A k \in named : NameOk(strings, name(k))
  BY DEF TableSymbols
<1>6. TableSymbols(section).end = Max(S)
  BY DEF TableSymbols
<1>7. ASSUME NEW k \in named PROVE stop(k) \in 0..file.size
  <2>1. k \in 0..(section.size \div SymbolSize - 1) /\ NameOk(strings, name(k))
    BY <1>5
  <2>2. k * SymbolSize \in Nat /\ k * SymbolSize < section.size
    BY <1>2, <2>1, SymbolOffset
  <2>3. at(k) \in 0..(file.size - 1)
    <3>1. PICK m : m = k * SymbolSize
      OBVIOUS
    <3>2. section.offset + m \in 0..(file.size - 1)
      BY <1>1, <1>2, <1>3, <2>2, <3>1
    <3> QED
      BY <3>1, <3>2
  <2> HIDE DEF at, strings
  <2>4. name(k) \in Nat
    BY <1>1, <2>3
  <2> HIDE DEF name
  <2>5. /\ name(k) < strings.size
        /\ strings.offset <= file.size /\ strings.size <= file.size - strings.offset
        /\ name(k) + Name(strings, name(k)).length < strings.size
    BY <2>1 DEF NameOk, Fits
  <2>6. strings.offset + name(k) \in 0..(file.size - 1)
    BY <1>1, <1>4, <2>4, <2>5
  <2>7. Name(strings, name(k)).length \in Nat
    BY <1>1, <2>6 DEF Name
  <2>8. PICK o, z, m, l, f : /\ o = strings.offset /\ z = strings.size /\ f = file.size
                             /\ m = name(k) /\ l = Name(strings, name(k)).length
    OBVIOUS
  <2>9. /\ o \in Nat /\ z \in Nat /\ m \in Nat /\ l \in Nat /\ f \in Nat
        /\ z <= f - o /\ m + l < z
    BY <1>1, <1>4, <2>4, <2>5, <2>7, <2>8
  <2>10. o + m + l + 1 \in 0..f
    BY <2>9
  <2>11. stop(k) = o + m + l + 1
    BY <2>8
  <2> QED
    BY <2>8, <2>10, <2>11
<1> HIDE DEF named, stop
<1>8. section.offset + section.size \in S /\ S \subseteq 0..file.size
  BY <1>1, <1>2, <1>3, <1>7
<1> HIDE DEF S
<1>9. Max(S) \in S
  BY <1>1, <1>8, LargestIsMax
<1> QED
  BY <1>6, <1>8, <1>9

\* Every step of the loader reads within the file.
LEMMA ExtentStep ==
    ASSUME TypeInv, ExtentInv, Next
    PROVE  ExtentInv'
<1> USE DEF ExtentInv
<1>1. /\ file.size \in Nat /\ file.programOffset \in Nat /\ file.sectionOffset \in Nat
      /\ file.programs \in Seq(ProgramHeader) /\ file.sections \in Seq(SectionHeader)
      /\ header \in Nat /\ HeaderSize \in Nat /\ ProgramSize \in Nat /\ SectionSize \in Nat
  BY FileTypes, ElfAssumption DEF TypeInv
<1>2. SUFFICES ASSUME LoadStep PROVE ExtentInv'
  BY DEF Next, Load, Begin, Save, Restore, StoreRam, StoreWriteCombine, Run, imageVars
<1>3. file' = file
  BY <1>2, LoadTypes
<1>4. ASSUME NEW end \in 0..file.size, ReadUpTo(end) PROVE ExtentInv'
  BY <1>3, <1>4 DEF ReadUpTo
<1>5. ASSUME UNCHANGED extent PROVE ExtentInv'
  BY <1>3, <1>5
<1>6. ASSUME NEW offset \in Nat, NEW size \in Nat, Fits(offset, size)
      PROVE  offset + size \in 0..file.size
  BY <1>1, <1>6 DEF Fits
<1>7. CASE OpenEmpty \/ ProgramsLoaded \/ SectionsRead \/ SymbolsRead
  BY <1>5, <1>7 DEF OpenEmpty, ProgramsLoaded, SectionsRead, SymbolsRead, Failed
<1>8. CASE OpenRaw
  BY <1>1, <1>4, <1>8 DEF OpenRaw
<1>9. CASE OpenElf
  <2>1. CASE UNCHANGED extent
    BY <1>5, <2>1
  <2>2. CASE Fits(0, HeaderSize) /\ ReadUpTo(HeaderSize)
    <3>1. 0 + HeaderSize \in 0..file.size /\ 0 + HeaderSize = HeaderSize
      BY <1>1, <1>6, <2>2
    <3> QED
      BY <1>4, <2>2, <3>1
  <2> QED
    BY <1>9, <2>1, <2>2 DEF OpenElf, HeaderOk, Failed
<1>10. CASE LoadProgram
  <2>1. PICK p, m : p = file.programs[header + 1] /\ m = header * ProgramSize
    OBVIOUS
  <2> DEFINE offset == file.programOffset + m
             end == IF p.load /\ p.offset + p.fileSize > offset + ProgramSize
                    THEN p.offset + p.fileSize ELSE offset + ProgramSize
  <2>2. \/ UNCHANGED extent
        \/ Fits(offset, ProgramSize) /\ (p.load => RangeOk(p)) /\ ReadUpTo(end)
    BY <1>10, <2>1 DEF LoadProgram, Failed
  <2>3. p \in ProgramHeader
    <3>1. header + 1 \in 1..Len(file.programs)
      BY <1>1, <1>10 DEF LoadProgram, ProgramCount
    <3> QED
      BY <1>1, <2>1, <3>1
  <2>4. p.offset \in Nat /\ p.fileSize \in Nat /\ m \in Nat
    <3>1. m \in Nat
      BY <1>1, <2>1
    <3>2. p.offset \in Nat /\ p.fileSize \in Nat
      BY <2>3, MemoryAssumption DEF ProgramHeader, Address
    <3> QED
      BY <3>1, <3>2
  <2>5. CASE Fits(offset, ProgramSize) /\ (p.load => RangeOk(p)) /\ ReadUpTo(end)
    <3>1. offset + ProgramSize \in 0..file.size
      BY <1>1, <1>6, <2>4, <2>5
    <3>2. p.load => p.offset + p.fileSize \in 0..file.size
      BY <1>6, <2>4, <2>5 DEF RangeOk
    <3>3. end \in 0..file.size
      BY <3>1, <3>2
    <3> HIDE DEF end
    <3> QED
      BY <1>4, <2>5, <3>3
  <2> QED
    BY <1>5, <2>2, <2>5
<1>11. CASE ReadSection
  <2>1. PICK m : m = header * SectionSize
    OBVIOUS
  <2> DEFINE offset == file.sectionOffset + m
  <2>2. \/ UNCHANGED extent
        \/ Fits(offset, SectionSize) /\ ReadUpTo(offset + SectionSize)
    BY <1>11, <2>1 DEF ReadSection, Failed
  <2>3. offset \in Nat
    BY <1>1, <2>1
  <2> HIDE DEF offset
  <2>4. CASE Fits(offset, SectionSize) /\ ReadUpTo(offset + SectionSize)
    BY <1>1, <1>4, <1>6, <2>3, <2>4
  <2> QED
    BY <1>5, <2>2, <2>4
<1>12. CASE ReadSymbols
  <2>1. PICK section : section = file.sections[header + 1]
    OBVIOUS
  <2>2. \/ UNCHANGED extent
        \/ /\ section.link < SectionCount /\ Fits(section.offset, section.size)
           /\ TableSymbols(section).ok /\ ReadUpTo(TableSymbols(section).end)
    BY <1>12, <2>1 DEF ReadSymbols, Failed
  <2>3. section \in SectionHeader
    <3>1. header + 1 \in 1..Len(file.sections)
      BY <1>1, <1>12 DEF ReadSymbols, SectionCount
    <3> QED
      BY <1>1, <2>1, <3>1
  <2> QED
    BY <1>4, <1>5, <2>2, <2>3, TableEnd DEF TypeInv
<1> QED
  BY <1>2, <1>7, <1>8, <1>9, <1>10, <1>11, <1>12 DEF LoadStep

(* Whatever the headers say, the loader never reads beyond the file.       *)
THEOREM ReadsWithinFileCorrect ==
    Spec => []ReadsWithinFile
<1>1. Init => ExtentInv
  BY FileTypes DEF Init, ImageInit, ExtentInv
<1>2. TypeInv /\ ExtentInv /\ [Next]_vars => ExtentInv'
  <2>1. ASSUME TypeInv, ExtentInv, Next PROVE ExtentInv'
    BY <2>1, ExtentStep
  <2>2. ASSUME ExtentInv, UNCHANGED vars PROVE ExtentInv'
    BY <2>2 DEF ExtentInv, vars, imageVars
  <2> QED
    BY <2>1, <2>2
<1>3. TypeInv /\ ExtentInv => ReadsWithinFile
  <2> SUFFICES ASSUME TypeInv, ExtentInv PROVE ReadsWithinFile
    OBVIOUS
  <2>1. file.size \in Nat
    BY FileTypes DEF TypeInv
  <2> QED
    BY <2>1 DEF ExtentInv, ReadsWithinFile
<1> QED
  BY <1>1, <1>2, <1>3, TypesCorrect, PTL DEF Spec

(***************************************************************************)
(* The image is what the program headers describe                          *)
(***************************************************************************)
\* The byte that the first n program headers describe.
Covering(n, b) == {i \in 1..n : Covers(file.programs[i], b)}
SegmentByte(p, b) ==
    IF Place(b, LoadAddress(p)) < p.fileSize THEN file.data[p.offset + Place(b, LoadAddress(p))] ELSE 0
Described(n, b) ==
    IF Covering(n, b) = {} THEN 0 ELSE SegmentByte(file.programs[Max(Covering(n, b))], b)
DescribedUpTo(n) == \A b \in Address : read8(image, b) = Described(n, b)

ImageInv ==
    /\ stage = "open" => header = 0 /\ image = [index \in {} |-> ZeroWord]
    /\ stage = "programs" => header <= ProgramCount /\ DescribedUpTo(header)
    /\ stage \in {"sections", "symbols", "loaded"} /\ file.magic => DescribedUpTo(ProgramCount)

\* One more header: the last segment that covers an address decides.
LEMMA DescribedNext ==
    ASSUME NEW n \in Nat, NEW b
    PROVE  Described(n + 1, b) = IF Covers(file.programs[n + 1], b)
                                 THEN SegmentByte(file.programs[n + 1], b) ELSE Described(n, b)
<1> DEFINE S == Covering(n, b)
           T == Covering(n + 1, b)
<1>1. S \subseteq 1..n /\ T \subseteq 0..(n + 1)
  BY DEF Covering
<1>2. T = IF Covers(file.programs[n + 1], b) THEN S \cup {n + 1} ELSE S
  <2>1. 1..(n + 1) = (1..n) \cup {n + 1} /\ n + 1 \notin 1..n
    OBVIOUS
  <2> QED
    BY <2>1 DEF Covering
<1> HIDE DEF S, T
<1>3. CASE Covers(file.programs[n + 1], b)
  <2>1. n + 1 \in T /\ T # {}
    BY <1>2, <1>3
  <2>2. Max(T) \in T /\ \A j \in T : j <= Max(T)
    <3>1. PICK m : m = n + 1
      OBVIOUS
    <3>2. m \in Nat /\ T \subseteq 0..m
      BY <1>1, <3>1
    <3> QED
      BY <2>1, <3>2, LargestIsMax
  <2>3. Max(T) \in 0..(n + 1) /\ n + 1 <= Max(T)
    BY <1>1, <2>1, <2>2
  <2>4. Max(T) = n + 1
    BY <2>3
  <2> QED
    BY <1>3, <2>1, <2>4 DEF Described, T
<1>4. CASE ~Covers(file.programs[n + 1], b)
  BY <1>2, <1>4 DEF Described, S, T
<1> QED
  BY <1>3, <1>4

\* Nothing is described before the first header, and an empty table reads as zero.
LEMMA DescribedNone ==
    ASSUME image = [index \in {} |-> ZeroWord]
    PROVE  DescribedUpTo(0)
<1> SUFFICES ASSUME NEW b \in Address PROVE read8(image, b) = Described(0, b)
  BY DEF DescribedUpTo
<1>1. Described(0, b) = 0
  BY DEF Described, Covering
<1>2. b \in Nat /\ b % 4 \in Lanes
  BY MemoryAssumption DEF Address, Lanes
<1>3. Find(image, b \div 4) = ZeroWord
  BY DEF Find
<1> QED
  BY <1>1, <1>2, <1>3 DEF read8, ZeroWord

\* A loaded segment, and one that is not, add their part of the description.
LEMMA ProgramDescribed ==
    ASSUME TypeInv, ImageInv, LoadProgram, stage' = stage
    PROVE  header' = header + 1 /\ header' <= ProgramCount /\ DescribedUpTo(header)
           /\ \A b \in Address : read8(image', b) = Described(header + 1, b)
<1>1. PICK p, q, n : p = file.programs[header + 1] /\ q = image' /\ n = header
  OBVIOUS
<1>2. /\ header' = n + 1 /\ n < ProgramCount /\ stage = "programs" /\ (p.load => RangeOk(p))
      /\ q = IF p.load THEN LoadSegment(p) ELSE image
  BY <1>1 DEF LoadProgram, Failed
<1>3. n \in Nat /\ DescribedUpTo(n) /\ IsTable(image) /\ file \in Files
  BY <1>1, <1>2 DEF TypeInv, ImageInv
<1>4. /\ file.size \in Nat /\ file.data \in [0..(file.size - 1) -> Byte]
      /\ file.programs \in Seq(ProgramHeader) /\ ProgramCount \in Nat
  <2>1. /\ file.size \in Nat /\ file.data \in [0..(file.size - 1) -> Byte]
        /\ file.programs \in Seq(ProgramHeader)
    BY <1>3, FileTypes
  <2> QED
    BY <2>1 DEF ProgramCount
<1>5. p \in ProgramHeader
  <2>1. n + 1 \in 1..Len(file.programs)
    BY <1>2, <1>3, <1>4 DEF ProgramCount
  <2> QED
    BY <1>1, <1>4, <2>1
<1>6. /\ p.load \in BOOLEAN /\ p.offset \in Nat /\ p.fileSize \in Nat /\ p.memorySize \in Nat
      /\ LoadAddress(p) \in Address
  BY <1>5, MemoryAssumption DEF ProgramHeader, Address, LoadAddress
<1>7. ASSUME NEW b \in Address
      PROVE  read8(q, b) = Described(n + 1, b)
  <2>1. Described(n + 1, b) = IF Covers(p, b) THEN SegmentByte(p, b) ELSE Described(n, b)
    BY <1>1, <1>3, DescribedNext
  <2>2. PICK k : k = Place(b, LoadAddress(p))
    OBVIOUS
  <2>3. k \in Nat
    <3>1. k \in Address
      BY <1>6, <2>2, PlaceOf
    <3> QED
      BY <3>1, MemoryAssumption DEF Address
  <2>4. Covers(p, b) <=> p.load /\ (k < p.fileSize \/ k < p.memorySize)
    BY <2>2 DEF Covers, SegmentOffset, Place
  <2>5. SegmentByte(p, b) = IF k < p.fileSize THEN file.data[p.offset + k] ELSE 0
    BY <2>2 DEF SegmentByte
  <2>6. read8(image, b) = Described(n, b)
    BY <1>3 DEF DescribedUpTo
  <2>7. CASE ~p.load
    BY <1>2, <2>1, <2>4, <2>6, <2>7
  <2>8. CASE p.load
    <3>1. SegmentWritten(q, image, p)
      BY <1>2, <1>3, <1>5, <2>8, SegmentEffect
    <3>2. read8(q, b) = IF k < p.fileSize THEN SegmentData(p)[k]
                        ELSE IF k < p.memorySize THEN 0 ELSE read8(image, b)
      BY <2>2, <3>1 DEF SegmentWritten
    <3>3. ASSUME k < p.fileSize PROVE SegmentData(p)[k] = file.data[p.offset + k]
      <4>1. k \in 0..(p.fileSize - 1)
        BY <1>6, <2>3, <3>3
      <4>2. p.offset + k \in 0..(file.size - 1)
        BY <1>2, <1>4, <1>6, <2>3, <2>8, <3>3 DEF RangeOk, Fits
      <4>3. DOMAIN file.data = 0..(file.size - 1)
        BY <1>4
      <4> QED
        BY <4>1, <4>2, <4>3 DEF SegmentData
    <3> QED
      BY <2>1, <2>4, <2>5, <2>6, <2>8, <3>2, <3>3
  <2> QED
    BY <1>6, <2>7, <2>8
<1>8. n + 1 <= ProgramCount
  BY <1>2, <1>3, <1>4
<1> QED
  BY <1>1, <1>2, <1>3, <1>7, <1>8

\* Every step of the loader keeps the image as described so far.
LEMMA ImageStep ==
    ASSUME TypeInv, ImageInv, Next
    PROVE  ImageInv'
<1>0. file' = file
  BY LoadTypes DEF Next, Load, Begin, Save, Restore, StoreRam, StoreWriteCombine, Run, imageVars
<1>1. ASSUME NEW n, DescribedUpTo(n), UNCHANGED image PROVE DescribedUpTo(n)'
  <2>1. \A b \in Address : Described(n, b)' = Described(n, b)
    BY <1>0 DEF Described, Covering, SegmentByte, Covers, SegmentOffset, Max
  <2> QED
    BY <1>1, <2>1 DEF DescribedUpTo
<1>2. PICK count : count = ProgramCount /\ count = ProgramCount'
  BY <1>0 DEF ProgramCount
<1>3. ASSUME stage' \notin {"open", "programs", "sections", "symbols", "loaded"} PROVE ImageInv'
  BY <1>3 DEF ImageInv
<1>4. CASE Begin \/ Save \/ Restore \/ (\E a \in Accesses : \E bytes \in StoreData :
             StoreRam(a, bytes) \/ StoreWriteCombine(a, bytes))
  BY <1>3, <1>4 DEF Begin, Save, Restore, StoreRam, StoreWriteCombine, Run, imageVars
<1>5. CASE OpenEmpty
  BY <1>3, <1>5 DEF OpenEmpty, Failed
<1>6. CASE OpenRaw
  BY <1>0, <1>6 DEF OpenRaw, ImageInv
<1>7. CASE OpenElf
  <2>1. CASE stage' = "failed"
    BY <1>3, <2>1
  <2>2. CASE stage' = "programs" /\ UNCHANGED <<header, image>>
    <3>1. header = 0 /\ DescribedUpTo(0)
      BY <1>7, DescribedNone DEF OpenElf, ImageInv
    <3>2. DescribedUpTo(0)'
      BY <1>1, <2>2, <3>1
    <3>3. header' = 0 /\ ProgramCount' \in Nat
      BY <1>0, <2>2, <3>1, FileTypes DEF TypeInv, ProgramCount
    <3>4. DescribedUpTo(header)'
      BY <3>2, <3>3 DEF DescribedUpTo
    <3> QED
      BY <2>2, <3>3, <3>4 DEF ImageInv
  <2> QED
    BY <1>7, <2>1, <2>2 DEF OpenElf, Failed
<1>8. CASE LoadProgram
  <2>1. CASE stage' = "failed"
    BY <1>3, <2>1
  <2>2. CASE stage' = stage
    <3>1. /\ header' = header + 1 /\ header' <= ProgramCount
          /\ \A b \in Address : read8(image', b) = Described(header + 1, b)
      BY <1>8, <2>2, ProgramDescribed
    <3>2. PICK n : n = header'
      OBVIOUS
    <3>3. \A b \in Address : Described(n, b)' = Described(n, b)
      BY <1>0 DEF Described, Covering, SegmentByte, Covers, SegmentOffset, Max
    <3>4. \A b \in Address : read8(image', b) = Described(n, b)'
      BY <3>1, <3>2, <3>3
    <3>5. DescribedUpTo(n)'
      BY <3>4 DEF DescribedUpTo
    <3>6. DescribedUpTo(header)'
      BY <3>2, <3>5 DEF DescribedUpTo
    <3>7. stage' = "programs"
      BY <1>8, <2>2 DEF LoadProgram
    <3> QED
      BY <1>2, <3>1, <3>6, <3>7 DEF ImageInv
  <2> QED
    BY <1>8, <2>1, <2>2 DEF LoadProgram, Failed
<1>9. CASE ProgramsLoaded
  <2>1. DescribedUpTo(count) /\ stage' = "sections" /\ UNCHANGED image
    BY <1>2, <1>9 DEF ProgramsLoaded, ImageInv
  <2>2. DescribedUpTo(count)'
    BY <1>1, <2>1
  <2>3. DescribedUpTo(ProgramCount)'
    BY <1>2, <2>2 DEF DescribedUpTo
  <2> QED
    BY <2>1, <2>3 DEF ImageInv
<1>10. CASE ReadSection \/ SectionsRead \/ ReadSymbols \/ SymbolsRead
  <2>1. CASE stage' = "failed"
    BY <1>3, <2>1
  <2>2. CASE /\ stage \in {"sections", "symbols", "loaded"}
             /\ stage' \in {"sections", "symbols", "loaded"} /\ UNCHANGED image
    <3>1. ASSUME file.magic PROVE DescribedUpTo(ProgramCount)'
      <4>1. DescribedUpTo(count)
        BY <1>2, <2>2, <3>1 DEF ImageInv
      <4>2. DescribedUpTo(count)'
        BY <1>1, <2>2, <4>1
      <4> QED
        BY <1>2, <4>2 DEF DescribedUpTo
    <3> QED
      BY <1>0, <2>2, <3>1 DEF ImageInv
  <2> QED
    BY <1>10, <2>1, <2>2 DEF ReadSection, SectionsRead, ReadSymbols, SymbolsRead, Failed
<1> QED
  BY <1>4, <1>5, <1>6, <1>7, <1>8, <1>9, <1>10 DEF Next, Load, LoadStep

(* After a file with a header is loaded, memory is at every address what   *)
(* the last loadable segment that covers it describes.                     *)
THEOREM ImageCorrect ==
    Spec => []ImageAsDescribed
<1>1. Init => ImageInv
  BY DEF Init, ImageInit, ImageInv
<1>2. TypeInv /\ ImageInv /\ [Next]_vars => ImageInv'
  <2>1. ASSUME TypeInv, ImageInv, Next PROVE ImageInv'
    BY <2>1, ImageStep
  <2>2. ASSUME ImageInv, UNCHANGED vars PROVE ImageInv'
    <3>1. UNCHANGED <<file, stage, header, image>>
      BY <2>2 DEF vars, imageVars
    <3>2. ASSUME NEW n, DescribedUpTo(n) PROVE DescribedUpTo(n)'
      <4>1. \A b \in Address : Described(n, b)' = Described(n, b)
        BY <3>1 DEF Described, Covering, SegmentByte, Covers, SegmentOffset, Max
      <4> QED
        BY <3>1, <3>2, <4>1 DEF DescribedUpTo
    <3>3. PICK h, count : h = header /\ h = header' /\ count = ProgramCount /\ count = ProgramCount'
      BY <3>1 DEF ProgramCount
    <3>4. DescribedUpTo(header) => DescribedUpTo(header)'
      <4>1. DescribedUpTo(h) => DescribedUpTo(h)'
        BY <3>2
      <4> QED
        BY <3>3, <4>1 DEF DescribedUpTo
    <3>5. DescribedUpTo(ProgramCount) => DescribedUpTo(ProgramCount)'
      <4>1. DescribedUpTo(count) => DescribedUpTo(count)'
        BY <3>2
      <4> QED
        BY <3>3, <4>1 DEF DescribedUpTo
    <3> QED
      BY <2>2, <3>1, <3>3, <3>4, <3>5 DEF ImageInv
  <2> QED
    BY <2>1, <2>2
<1>3. TypeInv /\ ImageInv => ImageAsDescribed
  <2> SUFFICES ASSUME TypeInv, ImageInv, stage = "loaded", file.magic, NEW b \in Address
               PROVE  read8(image, b) = DescribedByte(b)
    BY DEF ImageAsDescribed
  <2>1. DOMAIN file.programs = 1..ProgramCount
    BY FileTypes DEF TypeInv, ProgramCount
  <2>2. DescribedByte(b) = Described(ProgramCount, b)
    BY <2>1 DEF DescribedByte, Described, Covering, SegmentByte, SegmentOffset, Place
  <2> QED
    BY <2>2 DEF ImageInv, DescribedUpTo
<1> QED
  BY <1>1, <1>2, <1>3, TypesCorrect, PTL DEF Spec

(***************************************************************************)
(* Wide accesses                                                           *)
(***************************************************************************)
\* A word is its bytes at any address.
LEMMA Read32Bytes ==
    ASSUME NEW t, NEW address \in Address, NEW k \in 0..3
    PROVE  read32(t, address)[k] = read8(t, Wrap(address + k))
<1>1. CASE address % 4 = 0
  <2>1. address \in Nat /\ address + k \in Nat /\ address + k < AddressSpace /\ AddressSpace \in Nat
    BY <1>1, MemoryAssumption DEF Address
  <2>2. Wrap(address + k) = address + k
    BY <2>1 DEF Wrap
  <2>3. read32(t, address)[k] = read8(t, address + k)
    BY <1>1, <2>1, AlignedRead32
  <2> QED
    BY <2>2, <2>3
<1>2. CASE address % 4 # 0
  BY <1>2 DEF read32
<1> QED
  BY <1>1, <1>2

\* A double word is its bytes at any address.
LEMMA Read64Bytes ==
    ASSUME NEW t, NEW address \in Address, NEW k \in 0..7
    PROVE  read64(t, address)[k] = read8(t, Wrap(address + k))
<1>1. CASE address % 8 = 0
  <2>1. read64(t, address)[k] = IF k < 4 THEN read32(t, address)[k] ELSE read32(t, address + 4)[k - 4]
    BY <1>1 DEF read64
  <2>2. address + 4 \in Address
    BY <1>1, MemoryAssumption DEF Address
  <2>3. CASE k < 4
    <3>1. k \in 0..3
      BY <2>3
    <3> QED
      BY <2>1, <2>3, <3>1, Read32Bytes
  <2>4. CASE k >= 4
    <3>1. k - 4 \in 0..3 /\ (address + 4) + (k - 4) = address + k
      BY <2>4, MemoryAssumption DEF Address
    <3>2. read32(t, address + 4)[k - 4] = read8(t, Wrap((address + 4) + (k - 4)))
      BY <2>2, <3>1, Read32Bytes
    <3> QED
      BY <2>1, <2>4, <3>1, <3>2
  <2> QED
    BY <2>3, <2>4
<1>2. CASE address % 8 # 0
  BY <1>2 DEF read64
<1> QED
  BY <1>1, <1>2

\* A word is written byte by byte, also where the code has a faster way.
LEMMA Write32Bytes ==
    ASSUME NEW t, NEW u, NEW address \in Address, NEW bytes, NEW strobe, IsTable(t),
           strobe \subseteq 0..3, BytesFor(bytes, 4, strobe), u = write32(t, address, bytes, strobe)
    PROVE  Written(u, t, address, bytes, strobe, 4)
<1>1. AddressSpace \in Nat /\ AddressSpace >= 8 /\ AddressSpace % 8 = 0 /\ address \in Nat
      /\ address < AddressSpace
  BY MemoryAssumption DEF Address
<1>2. CASE address % 4 = 0
  <2>1. WordWritten(u, t, address, bytes, strobe)
    BY <1>1, <1>2, AlignedWrite32
  <2>2. ASSUME NEW b \in Address
        PROVE  read8(u, b) = IF Place(b, address) < 4 /\ Place(b, address) \in strobe
                             THEN bytes[Place(b, address)] ELSE read8(t, b)
    <3>1. b \in Nat /\ b < AddressSpace
      BY <1>1 DEF Address
    <3>2. read8(u, b) = IF b \div 4 = address \div 4 /\ b % 4 \in strobe
                        THEN bytes[b % 4] ELSE read8(t, b)
      BY <2>1, <3>1 DEF WordWritten
    <3>3. Place(b, address) = IF b >= address THEN b - address ELSE b + AddressSpace - address
      BY PlaceIs
    <3>4. CASE b \div 4 = address \div 4
      <4>1. b >= address /\ b - address = b % 4 /\ b % 4 < 4
        BY <1>1, <1>2, <3>1, <3>4
      <4> QED
        BY <3>2, <3>3, <3>4, <4>1
    <3>5. CASE b \div 4 # address \div 4
      <4>1. b >= address => ~(b - address < 4)
        BY <1>1, <1>2, <3>1, <3>5
      <4>2. b < address => ~(b + AddressSpace - address < 4)
        BY <1>1, <1>2, <3>1
      <4> QED
        BY <1>1, <3>1, <3>2, <3>3, <3>5, <4>1, <4>2
    <3> QED
      BY <3>4, <3>5
  <2> QED
    BY <2>2 DEF Written
<1>3. CASE address % 4 # 0
  <2>1. u = WriteBytes(t, address, bytes, 4, strobe) /\ 4 \in 0..AddressSpace
    BY <1>1, <1>3 DEF write32
  <2>2. LoopDone(u, t, address, bytes, 4, strobe)
    BY <2>1, WriteBytesEffect
  <2> QED
    BY <2>2 DEF LoopDone
<1> QED
  BY <1>2, <1>3

(* At any address, aligned or not and across the end of the address        *)
(* space, a word and a double word are their bytes, and a write changes    *)
(* the strobed ones and no other.                                          *)
THEOREM WideAccessesCorrect ==
    Spec => []WideAccessesAreBytes
<1>1. ASSUME IsTable(image), NEW address \in Address
      PROVE  LET bytes == [k \in 0..7 |-> (k + 1) % ByteBase]
                 word == [k \in 0..3 |-> bytes[k]]
             IN  /\ \A k \in 0..3 : read32(image, address)[k] = read8(image, Wrap(address + k))
                 /\ \A k \in 0..7 : read64(image, address)[k] = read8(image, Wrap(address + k))
                 /\ \A strobe \in SUBSET (0..3) :
                      /\ ChangesExactly(image, write32(image, address, word, strobe), address, word, 4, strobe)
                      /\ LET both == strobe \cup {k + 4 : k \in strobe}
                         IN  ChangesExactly(image, write64(image, address, bytes, both), address, bytes, 8, both)
  <2> DEFINE bytes == [k \in 0..7 |-> (k + 1) % ByteBase]
             word == [k \in 0..3 |-> bytes[k]]
  <2>1. ASSUME NEW k \in 0..7 PROVE bytes[k] \in Byte
    BY MemoryAssumption DEF Byte
  <2>2. ASSUME NEW k \in 0..3 PROVE word[k] \in Byte
    <3>1. k \in 0..7 /\ word[k] = bytes[k]
      OBVIOUS
    <3> HIDE DEF word, bytes
    <3> QED
      BY <2>1, <3>1
  <2> HIDE DEF word, bytes
  <2>3. ASSUME NEW strobe \in SUBSET (0..3)
        PROVE  ChangesExactly(image, write32(image, address, word, strobe), address, word, 4, strobe)
    <3>1. PICK u : u = write32(image, address, word, strobe)
      OBVIOUS
    <3>2. BytesFor(word, 4, strobe)
      BY <2>2 DEF BytesFor
    <3>3. Written(u, image, address, word, strobe, 4)
      BY <1>1, <3>1, <3>2, Write32Bytes
    <3> QED
      BY <3>1, <3>3 DEF Written, ChangesExactly, Place
  <2>4. ASSUME NEW both
        PROVE  ChangesExactly(image, write64(image, address, bytes, both), address, bytes, 8, both)
    <3>1. PICK u : u = write64(image, address, bytes, both)
      OBVIOUS
    <3>2. u = WriteBytes(image, address, bytes, 8, both)
      BY <3>1 DEF write64
    <3>3. BytesFor(bytes, 8, both) /\ 8 \in 0..AddressSpace
      BY <2>1, MemoryAssumption DEF BytesFor
    <3>4. LoopDone(u, image, address, bytes, 8, both)
      BY <1>1, <3>2, <3>3, WriteBytesEffect
    <3> QED
      BY <3>1, <3>4 DEF LoopDone, Written, ChangesExactly, Place
  <2>5. \A k \in 0..3 : read32(image, address)[k] = read8(image, Wrap(address + k))
    BY Read32Bytes
  <2>6. \A k \in 0..7 : read64(image, address)[k] = read8(image, Wrap(address + k))
    BY Read64Bytes
  <2> QED
    BY <2>3, <2>4, <2>5, <2>6 DEF bytes, word
<1>2. TypeInv => WideAccessesAreBytes
  BY <1>1 DEF TypeInv, WideAccessesAreBytes
<1> QED
  BY <1>2, TypesCorrect, PTL
=============================================================================
