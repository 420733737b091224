------------------------ MODULE PlatformDevicesProofs ------------------------
(***************************************************************************)
(* Facts about the operators of PlatformDevices, for any address map, byte *)
(* and timer: the bytes of a timer register, the byte accesses, and the    *)
(* walks over byte strings and bus lanes.  The proofs about the modules    *)
(* that use the platform rest on them.                                     *)
(***************************************************************************)
EXTENDS PlatformDevices, TLAPS

(***************************************************************************)
(* Division                                                                *)
(***************************************************************************)
\* Quotient and remainder.
LEMMA DivMod ==
    ASSUME NEW m \in Nat \ {0}, NEW a \in Int
    PROVE  /\ a = (a \div m) * m + (a % m) /\ a % m \in 0..(m - 1) /\ a \div m \in Int
           /\ a \in Nat => a \div m \in Nat
  OBVIOUS

\* A number of the form q * m + x determines both.
LEMMA DivUnique ==
    ASSUME NEW m \in Nat \ {0}, NEW q \in Int, NEW x \in 0..(m - 1)
    PROVE  (q * m + x) \div m = q /\ (q * m + x) % m = x
  OBVIOUS
\* What is below the divisor's first factor does not reach the quotient.
LEMMA DivDiv ==
    ASSUME NEW m \in Nat \ {0}, NEW n \in Nat \ {0}, NEW h \in Int, NEW x \in 0..(m - 1)
    PROVE  (h * m + x) \div (m * n) = h \div n
<1> DEFINE q == h \div n
           r == h % n
<1>1. h = q * n + r /\ r \in 0..(n - 1) /\ q \in Int
  BY DivMod
<1> HIDE DEF q, r
<1>2. h * m + x = q * (m * n) + (r * m + x)
  <2>1. h * m = (q * n) * m + r * m
    BY <1>1
  <2>2. (q * n) * m = q * (m * n)
    BY <1>1
  <2> QED
    BY <1>1, <2>1, <2>2
<1>3. r * m + x \in 0..(m * n - 1)
  <2>1. r * m <= (n - 1) * m
    BY <1>1
  <2>2. (n - 1) * m = m * n - m
    OBVIOUS
  <2>3. r * m >= 0
    BY <1>1
  <2> QED
    BY <1>1, <2>1, <2>2, <2>3
<1>4. m * n \in Nat \ {0}
  OBVIOUS
<1> QED
  BY <1>1, <1>2, <1>3, <1>4, DivUnique DEF q

(***************************************************************************)
(* The bytes of a timer register                                           *)
(***************************************************************************)

\* The weight of a byte, and those of its neighbours.
LEMMA Weights ==
    ASSUME NEW k \in TimerBytes
    PROVE  /\ ByteBase ^ k \in Nat \ {0} /\ ByteBase ^ (k + 1) = ByteBase ^ k * ByteBase
           /\ ByteBase \in Nat \ {0, 1} /\ TimeMax + 1 = ByteBase ^ TimeBytes
           /\ TimeMax \in Nat
<1> USE PlatformAssumption, PowerAssumption
<1>1. k \in 0..TimeBytes /\ 1 \in 0..TimeBytes /\ k + 1 <= TimeBytes
  BY DEF TimerBytes
<1>2. ByteBase ^ TimeBytes \in Nat \ {0}
  OBVIOUS
<1>3. ByteBase ^ (k + 1) = ByteBase ^ k * ByteBase
  BY <1>1
<1> QED
  BY <1>1, <1>2, <1>3 DEF TimeMax

\* A time around its byte k, and what writing that byte makes of it.
LEMMA AroundByte ==
    ASSUME NEW t \in Nat, NEW k \in TimerBytes, NEW v \in Byte
    PROVE  \E hi \in Nat, lo \in 0..(ByteBase ^ k - 1) :
             /\ ByteOf(t, k) \in Byte
             /\ t = (hi * ByteBase + ByteOf(t, k)) * ByteBase ^ k + lo
             /\ WithByte(t, k, v) = (hi * ByteBase + v) * ByteBase ^ k + lo
<1> DEFINE P == ByteBase ^ k
           q == t \div P
           lo == t % P
           hi == q \div ByteBase
           b == q % ByteBase
<1>1. P \in Nat \ {0} /\ ByteBase \in Nat \ {0, 1}
  BY Weights
<1> HIDE DEF P
<1>2. t = q * P + lo /\ lo \in 0..(P - 1) /\ q \in Nat
  <2>1. t \in Int
    OBVIOUS
  <2> QED
    BY <1>1, <2>1
<1> HIDE DEF q, lo
<1>3. q = hi * ByteBase + b /\ b \in 0..(ByteBase - 1) /\ hi \in Nat
  <2>1. q \in Int /\ ByteBase \in Nat \ {0}
    BY <1>1, <1>2
  <2> QED
    BY <1>2, <2>1
<1> HIDE DEF hi, b
<1>4. b = ByteOf(t, k) /\ WithByte(t, k, v) = t + (v - b) * P
  BY DEF ByteOf, WithByte, b, q, P
<1>5. t + (v - b) * P = (hi * ByteBase + v) * P + lo
  <2>1. (q + (v - b)) * P = q * P + (v - b) * P
    BY <1>1, <1>2, <1>3 DEF Byte
  <2>2. q + (v - b) = hi * ByteBase + v
    BY <1>1, <1>2, <1>3 DEF Byte
  <2> QED
    BY <1>1, <1>2, <1>3, <2>1, <2>2 DEF Byte
<1> QED
  BY <1>1, <1>2, <1>3, <1>4, <1>5 DEF Byte, P

\* A byte of a register is a byte; the bytes of a store fit the register.
LEMMA WithByteType ==
    ASSUME NEW t \in Time, NEW k \in TimerBytes, NEW v \in Byte
    PROVE  ByteOf(t, k) \in Byte /\ WithByte(t, k, v) \in Time
<1> DEFINE P == ByteBase ^ k
           N == ByteBase ^ (TimeBytes - k - 1)
           b == ByteOf(t, k)
<1>0. t \in Nat /\ t <= TimeMax
  BY Weights DEF Time
<1>1. P \in Nat \ {0} /\ ByteBase \in Nat \ {0, 1} /\ N \in Nat \ {0}
  BY Weights, PowerAssumption, PlatformAssumption DEF TimerBytes
<1>2. PICK hi \in Nat, lo \in 0..(P - 1) :
         /\ b \in Byte
         /\ t = (hi * ByteBase + b) * P + lo
         /\ WithByte(t, k, v) = (hi * ByteBase + v) * P + lo
  BY <1>0, AroundByte
<1>3. TimeMax + 1 = N * (P * ByteBase)
  <2>1. k + 1 \in 0..TimeBytes /\ TimeBytes - k - 1 \in 0..TimeBytes
        /\ (TimeBytes - k - 1) + (k + 1) = TimeBytes
    BY PlatformAssumption DEF TimerBytes
  <2>2. ByteBase ^ ((TimeBytes - k - 1) + (k + 1)) = N * ByteBase ^ (k + 1)
    BY <2>1, PowerAssumption
  <2> QED
    BY <2>1, <2>2, Weights
<1> HIDE DEF P, N, b
<1>4. hi < N
  <2>1. t = hi * (P * ByteBase) + (b * P + lo)
    BY <1>1, <1>2 DEF Byte
  <2> DEFINE X == hi * (P * ByteBase)
             Y == N * (P * ByteBase)
             Z == b * P + lo
  <2>2. X \in Int /\ Y \in Int /\ Z \in Nat
    BY <1>1, <1>2 DEF Byte
  <2>3. X < Y
    <3> HIDE DEF X, Y, Z
    <3>1. t = X + Z /\ TimeMax + 1 = Y /\ TimeMax \in Int
      BY <2>1, <1>3, Weights DEF X, Y, Z
    <3> QED
      BY <1>0, <2>2, <3>1
  <2> QED
    BY <1>1, <2>3
<1>5. (hi * ByteBase + v) * P + lo \in 0..TimeMax
  <2>1. (hi * ByteBase + v) * P + lo = hi * (P * ByteBase) + (v * P + lo)
    BY <1>1, <1>2 DEF Byte
  <2>2. v * P + lo \in 0..(P * ByteBase - 1)
    <3>1. v * P <= (ByteBase - 1) * P
      BY <1>1 DEF Byte
    <3>2. (ByteBase - 1) * P = P * ByteBase - P
      BY <1>1
    <3> QED
      BY <1>1, <3>1, <3>2 DEF Byte
  <2> DEFINE W == P * ByteBase
             Z == v * P + lo
  <2>3. W \in Nat /\ Z \in 0..(W - 1) /\ TimeMax + 1 = N * W /\ TimeMax \in Nat
    BY <1>1, <1>3, <2>2, Weights
  <2>4. hi * W <= (N - 1) * W /\ (N - 1) * W = N * W - W /\ hi * W >= 0 /\ N * W \in Int
    <3> HIDE DEF W, Z
    <3> QED
      BY <1>1, <1>4, <2>3
  <2>5. hi * W \in Int
    BY <1>1
  <2> DEFINE X == hi * W
             Y == N * W
  <2>6. X + Z \in 0..TimeMax
    <3>1. X \in Nat /\ Y \in Int /\ X <= Y - W /\ TimeMax + 1 = Y
      BY <2>3, <2>4, <2>5
    <3> HIDE DEF X, Y, Z, W
    <3> QED
      BY <2>3, <3>1
  <2> QED
    BY <2>1, <2>6
<1> QED
  BY <1>2, <1>5 DEF Time, b

\* A byte that was written is read back.
LEMMA ByteWritten ==
    ASSUME NEW t \in Nat, NEW k \in TimerBytes, NEW v \in Byte
    PROVE  ByteOf(WithByte(t, k, v), k) = v
<1> DEFINE P == ByteBase ^ k
<1>1. P \in Nat \ {0} /\ ByteBase \in Nat \ {0, 1}
  BY Weights
<1>2. PICK hi \in Nat, lo \in 0..(P - 1) :
         WithByte(t, k, v) = (hi * ByteBase + v) * P + lo
  BY AroundByte
<1> HIDE DEF P
<1>3. ((hi * ByteBase + v) * P + lo) \div P = hi * ByteBase + v
  BY <1>1, DivUnique DEF Byte
<1>4. (hi * ByteBase + v) % ByteBase = v
  BY <1>1, DivUnique DEF Byte
<1> QED
  BY <1>2, <1>3, <1>4 DEF ByteOf, P

\* A write of one byte leaves the others alone.
LEMMA OtherByte ==
    ASSUME NEW t \in Nat, NEW k \in TimerBytes, NEW j \in TimerBytes, j # k, NEW v \in Byte
    PROVE  ByteOf(WithByte(t, k, v), j) = ByteOf(t, j)
<1> DEFINE P == ByteBase ^ k
           Q == ByteBase ^ j
           b == ByteOf(t, k)
<1>1. P \in Nat \ {0} /\ Q \in Nat \ {0} /\ ByteBase \in Nat \ {0, 1}
  BY Weights
<1>2. PICK hi \in Nat, lo \in 0..(P - 1) :
         /\ b \in Byte
         /\ t = (hi * ByteBase + b) * P + lo
         /\ WithByte(t, k, v) = (hi * ByteBase + v) * P + lo
  BY AroundByte
<1>3. CASE j > k
  <2> DEFINE N == ByteBase ^ (j - k - 1)
             M == P * ByteBase
  <2>1. k + 1 \in 0..TimeBytes /\ j - k - 1 \in 0..TimeBytes /\ (k + 1) + (j - k - 1) = j
        /\ j <= TimeBytes
    BY <1>3, PlatformAssumption DEF TimerBytes
  <2>2. Q = ByteBase ^ (k + 1) * N /\ N \in Nat \ {0}
    BY <2>1, PowerAssumption
  <2>3. Q = M * N /\ M \in Nat \ {0}
    BY <1>1, <2>2, Weights
  <2> HIDE DEF P, Q, N, b
  <2>4. ASSUME NEW c \in Byte
        PROVE  ((hi * ByteBase + c) * P + lo) \div Q = hi \div N
    <3>1. (hi * ByteBase + c) * P + lo = hi * M + (c * P + lo)
      BY <1>1, <1>2 DEF Byte
    <3>2. c * P + lo \in 0..(M - 1)
      <4>1. c * P <= (ByteBase - 1) * P /\ c * P >= 0
        BY <1>1 DEF Byte
      <4>2. (ByteBase - 1) * P = M - P
        BY <1>1
      <4> QED
        BY <1>1, <4>1, <4>2 DEF Byte
    <3> DEFINE z == c * P + lo
    <3> HIDE DEF M, z
    <3>3. z \in 0..(M - 1) /\ hi \in Int
      BY <3>2 DEF z
    <3>4. (hi * M + z) \div (M * N) = hi \div N
      BY <2>2, <2>3, <3>3, DivDiv
    <3> QED
      BY <2>3, <3>1, <3>4 DEF z
  <2> QED
    BY <1>2, <2>4 DEF ByteOf, Q
<1>4. CASE j < k
  <2> DEFINE M == ByteBase ^ (k - j - 1)
             d == v - b
             x == t \div Q
             y == t % Q
  <2>1. j + 1 \in 0..TimeBytes /\ k - j - 1 \in 0..TimeBytes /\ (j + 1) + (k - j - 1) = k
        /\ k <= TimeBytes
    BY <1>4, PlatformAssumption DEF TimerBytes
  <2>2. P = ByteBase ^ (j + 1) * M /\ M \in Nat \ {0}
    BY <2>1, PowerAssumption
  <2>3. P = (Q * ByteBase) * M
    BY <2>2, Weights
  <2>4. WithByte(t, k, v) = t + d * P /\ d \in Int
    BY <1>2 DEF WithByte, Byte
  <2> HIDE DEF P, Q, M, d
  <2>5. t = x * Q + y /\ y \in 0..(Q - 1) /\ x \in Int
    BY <1>1, DivMod
  <2> HIDE DEF x, y
  <2>6. t + d * P = (x + (d * M) * ByteBase) * Q + y
    <3>1. d * P = ((d * M) * ByteBase) * Q
      BY <1>1, <2>2, <2>3, <2>4
    <3>2. (x + (d * M) * ByteBase) * Q = x * Q + ((d * M) * ByteBase) * Q
      BY <1>1, <2>2, <2>4, <2>5
    <3> QED
      BY <1>1, <2>2, <2>4, <2>5, <3>1, <3>2
  <2>7. (t + d * P) \div Q = x + (d * M) * ByteBase
    <3> DEFINE z == x + (d * M) * ByteBase
    <3>1. z \in Int
      BY <1>1, <2>2, <2>4, <2>5
    <3>2. t + d * P = z * Q + y
      BY <2>6
    <3> HIDE DEF z
    <3>3. (z * Q + y) \div Q = z
      BY <1>1, <2>5, <3>1, DivUnique
    <3> QED
      BY <3>2, <3>3 DEF z
  <2>8. (x + (d * M) * ByteBase) % ByteBase = x % ByteBase
    <3> DEFINE e == x \div ByteBase
               f == x % ByteBase
    <3>1. x = e * ByteBase + f /\ f \in 0..(ByteBase - 1) /\ e \in Int
      BY <1>1, <2>5, DivMod
    <3> HIDE DEF e, f
    <3>2. x + (d * M) * ByteBase = (e + d * M) * ByteBase + f
      BY <1>1, <2>2, <2>4, <3>1
    <3>3. e + d * M \in Int
      BY <2>2, <2>4, <3>1
    <3> QED
      BY <1>1, <3>1, <3>2, <3>3, DivUnique, ZenonT(60) DEF f
  <2> QED
    BY <2>4, <2>7, <2>8 DEF ByteOf, x, Q
<1> QED
  BY <1>3, <1>4 DEF TimerBytes

(***************************************************************************)
(* Byte accesses                                                           *)
(***************************************************************************)
SameRegisters(p, q) ==
    /\ p.mtimecmp = q.mtimecmp
    /\ p.ier = q.ier /\ p.lcr = q.lcr /\ p.mcr = q.mcr /\ p.dll = q.dll /\ p.dlm = q.dlm

\* A read returns a byte and changes nothing but the input queue.
LEMMA ReadByteType ==
    ASSUME NEW p \in Platform, NEW address \in Nat
    PROVE  LET b == readByte(p, address)
           IN  /\ b.ok = Backed(address) /\ b.ok \in BOOLEAN
               /\ b.value \in Byte
               /\ b.platform \in Platform
               /\ SameRegisters(b.platform, p) /\ b.platform.mtime = p.mtime
               /\ b.platform.subcycle = p.subcycle /\ b.platform.output = p.output
<1>1. UartRegister(p, address - Uart.base) \in Byte
  <2>1. {0, 1} \subseteq Byte /\ LineStatus(p) \in Byte
    BY PlatformAssumption, SMTT(30) DEF LineStatus, Byte
  <2>2. /\ {p.ier, p.lcr, p.mcr, p.dll, p.dlm} \subseteq Byte
        /\ p.input # <<>> => Head(p.input) \in Byte
    BY DEF Platform
  <2> QED
    BY <2>1, <2>2 DEF UartRegister
<1>2. ASSUME MtimecmpByte(address) \in TimerBytes
      PROVE  ByteOf(p.mtimecmp, MtimecmpByte(address)) \in Byte
  BY <1>2, WithByteType, PlatformAssumption DEF Platform, Byte
<1>3. ASSUME MtimeByte(address) \in TimerBytes
      PROVE  ByteOf(p.mtime, MtimeByte(address)) \in Byte
  BY <1>3, WithByteType, PlatformAssumption DEF Platform, Byte
<1>4. readByte(p, address).value \in Byte
  BY <1>1, <1>2, <1>3, PlatformAssumption DEF readByte, Byte
<1>5. /\ readByte(p, address).platform \in Platform
      /\ SameRegisters(readByte(p, address).platform, p)
      /\ readByte(p, address).platform.mtime = p.mtime
      /\ readByte(p, address).platform.subcycle = p.subcycle
      /\ readByte(p, address).platform.output = p.output
  <2>1. CASE PopsReceiveBuffer(p, address)
    <3>1. Tail(p.input) \in Seq(Byte)
      BY <2>1 DEF PopsReceiveBuffer, Platform
    <3>2. readByte(p, address).platform = [p EXCEPT !.input = Tail(p.input)]
      BY <2>1 DEF readByte
    <3> QED
      BY <3>1, <3>2 DEF Platform, SameRegisters
  <2>2. CASE ~PopsReceiveBuffer(p, address)
    BY <2>2 DEF readByte, SameRegisters
  <2> QED
    BY <2>1, <2>2
<1>6. readByte(p, address).ok = Backed(address) /\ Backed(address) \in BOOLEAN
  BY DEF readByte, Backed, InUart
<1> QED
  BY <1>4, <1>5, <1>6

\* Two instances with the same registers, input and time cannot be told apart
\* by a read, and stay alike.
LEMMA ReadByteSame ==
    ASSUME NEW p \in Platform, NEW q \in Platform, NEW address \in Nat,
           SameRegisters(p, q), p.input = q.input, p.mtime = q.mtime
    PROVE  /\ readByte(p, address).value = readByte(q, address).value
           /\ readByte(p, address).platform.input = readByte(q, address).platform.input
<1>1. Dlab(p) = Dlab(q) /\ LineStatus(p) = LineStatus(q)
  BY DEF Dlab, LineStatus, SameRegisters
<1>2. UartRegister(p, address - Uart.base) = UartRegister(q, address - Uart.base)
  BY <1>1 DEF UartRegister, SameRegisters
<1>3. PopsReceiveBuffer(p, address) = PopsReceiveBuffer(q, address)
  BY <1>1 DEF PopsReceiveBuffer
<1>4. readByte(p, address).value = readByte(q, address).value
  BY <1>2 DEF readByte, SameRegisters
<1>5. readByte(p, address).platform.input = readByte(q, address).platform.input
  BY <1>3 DEF readByte, Platform
<1> QED
  BY <1>4, <1>5

\* The registers a write changes, by where it goes.
LEMMA WriteByteType ==
    ASSUME NEW p \in Platform, NEW address \in Nat, NEW v \in Byte
    PROVE  LET w == writeByte(p, address, v)
           IN  /\ w.ok = Backed(address) /\ w.ok \in BOOLEAN
               /\ w.platform \in Platform
               /\ w.platform.input = p.input /\ w.platform.subcycle = p.subcycle
<1>1. ASSUME MtimecmpByte(address) \in TimerBytes
      PROVE  WithByte(p.mtimecmp, MtimecmpByte(address), v) \in Time
  BY <1>1, WithByteType DEF Platform
<1>2. ASSUME MtimeByte(address) \in TimerBytes
      PROVE  WithByte(p.mtime, MtimeByte(address), v) \in Time
  BY <1>2, WithByteType DEF Platform
<1>3. ASSUME Backed(address), InClint(address)
      PROVE  /\ WriteClint(p, address, v) \in Platform
             /\ WriteClint(p, address, v).input = p.input
             /\ WriteClint(p, address, v).subcycle = p.subcycle
  BY <1>1, <1>2, <1>3 DEF WriteClint, Platform, Backed
<1>4. /\ WriteUart(p, address - Uart.base, v) \in Platform
      /\ WriteUart(p, address - Uart.base, v).input = p.input
      /\ WriteUart(p, address - Uart.base, v).subcycle = p.subcycle
  <2>1. Append(p.output, v) \in Seq(Byte)
    BY DEF Platform
  <2>2. Dlab(p) \in BOOLEAN
    BY DEF Dlab
  <2> QED
    BY <2>1, <2>2 DEF WriteUart, Platform
<1>5. Backed(address) \in BOOLEAN
  BY DEF Backed, InUart
<1> QED
  BY <1>3, <1>4, <1>5 DEF writeByte

\* The addresses of mtime.
TimeAt(address) ==
    InClint(address) /\ MtimecmpByte(address) \notin TimerBytes /\ MtimeByte(address) \in TimerBytes

\* The time after a write, and the timer after a write to the UART.
LEMMA WriteByteTime ==
    ASSUME NEW p \in Platform, NEW address \in Nat, NEW v \in Byte
    PROVE  LET w == writeByte(p, address, v).platform
           IN  /\ TimeAt(address) => w.mtime = WithByte(p.mtime, MtimeByte(address), v)
               /\ ~TimeAt(address) => w.mtime = p.mtime
               /\ ~InClint(address) => w.mtimecmp = p.mtimecmp
               /\ ~Backed(address) => w = p
<1>1. CASE ~Backed(address)
  BY <1>1 DEF writeByte, Backed, TimeAt
<1>2. CASE Backed(address) /\ InClint(address)
  BY <1>2 DEF writeByte, WriteClint, Backed, TimeAt, Platform
<1>3. CASE Backed(address) /\ ~InClint(address)
  <2>1. Dlab(p) \in BOOLEAN
    BY DEF Dlab
  <2>2. /\ WriteUart(p, address - Uart.base, v).mtime = p.mtime
        /\ WriteUart(p, address - Uart.base, v).mtimecmp = p.mtimecmp
    BY <2>1 DEF WriteUart, Platform
  <2> QED
    BY <1>3, <2>2 DEF writeByte, TimeAt
<1>4. Backed(address) \in BOOLEAN /\ InClint(address) \in BOOLEAN
  BY DEF Backed, InUart, InClint
<1> QED
  BY <1>1, <1>2, <1>3, <1>4

\* The same as a relation, for steps that use it of two platforms.
TimeWritten(w, p, address, v) ==
    /\ TimeAt(address) => w.mtime = WithByte(p.mtime, MtimeByte(address), v)
    /\ ~TimeAt(address) => w.mtime = p.mtime
    /\ ~InClint(address) => w.mtimecmp = p.mtimecmp

\* What a byte written to a device does to the time.
LEMMA WriteByteTimes ==
    ASSUME NEW p \in Platform, NEW address \in Nat, NEW v \in Byte
    PROVE  TimeWritten(writeByte(p, address, v).platform, p, address, v)
  BY WriteByteTime DEF TimeWritten

\* Two instances with the same registers have the same registers, and send the
\* same byte, after the same write.
LEMMA WriteByteSame ==
    ASSUME NEW p \in Platform, NEW q \in Platform, NEW address \in Nat, NEW v \in Byte,
           SameRegisters(p, q)
    PROVE  /\ SameRegisters(writeByte(p, address, v).platform, writeByte(q, address, v).platform)
           /\ p.output = q.output =>
                writeByte(p, address, v).platform.output = writeByte(q, address, v).platform.output
<1>1. CASE ~Backed(address)
  BY <1>1 DEF writeByte
<1>2. CASE Backed(address) /\ InClint(address)
  BY <1>2 DEF writeByte, WriteClint, SameRegisters, Platform
<1>3. CASE Backed(address) /\ ~InClint(address)
  <2> DEFINE r == address - Uart.base
  <2>1. Dlab(p) = Dlab(q) /\ Dlab(p) \in BOOLEAN
    BY DEF Dlab, SameRegisters
  <2>2. /\ SameRegisters(WriteUart(p, r, v), WriteUart(q, r, v))
        /\ p.output = q.output => WriteUart(p, r, v).output = WriteUart(q, r, v).output
    <3>1. CASE Dlab(p)
      BY <2>1, <3>1 DEF WriteUart, SameRegisters, Platform
    <3>2. CASE ~Dlab(p)
      BY <2>1, <3>2 DEF WriteUart, SameRegisters, Platform
    <3> QED
      BY <2>1, <3>1, <3>2
  <2> QED
    BY <1>3, <2>2 DEF writeByte
<1>4. Backed(address) \in BOOLEAN /\ InClint(address) \in BOOLEAN
  BY DEF Backed, InUart, InClint
<1> QED
  BY <1>1, <1>2, <1>3, <1>4

\* u and w, what p and q become, have the same registers and the same output
\* when p and q had the same output.
SameWritten(u, w, p, q) ==
    /\ SameRegisters(u, w)
    /\ p.output = q.output => u.output = w.output

\* The same write keeps two instances with the same registers together.
LEMMA WriteByteTogether ==
    ASSUME NEW p \in Platform, NEW q \in Platform, NEW address \in Nat, NEW v \in Byte,
           SameRegisters(p, q)
    PROVE  SameWritten(writeByte(p, address, v).platform, writeByte(q, address, v).platform, p, q)
BY WriteByteSame DEF SameWritten

(***************************************************************************)
(* The address map                                                         *)
(***************************************************************************)

\* An aligned access stays within one device.
LEMMA AccessRegion ==
    ASSUME NEW size \in {1, 2, 4}, NEW address \in Nat, isDevice(address, size),
           NEW k \in 0..(size - 1)
    PROVE  /\ address + k \in Nat
           /\ InClint(address + k) = InClint(address)
           /\ InUart(address + k) = ~InClint(address)
           /\ ReceiveBuffer(address + k) => k = 0
<1>1. Clint \in Region /\ Uart \in Region /\ Disjoint(Clint, Uart) /\ AddressSpace \in Nat
  BY PlatformAssumption
<1> QED
  BY <1>1 DEF isDevice, contains, InClint, InUart, Region, RegionEnd, Disjoint, ReceiveBuffer

\* An aligned range lies within words as a whole or not at all.
LEMMA AlignedRange ==
    ASSUME NEW size \in {1, 2, 4}, NEW x \in Int, x % size = 0, NEW n \in Nat, n % 4 = 0,
           NEW k \in 0..(size - 1)
    PROVE  (x + k \in 0..(n - 1)) <=> (x \in 0..(n - 1))
<1>1. CASE size = 1
  BY <1>1
<1>2. CASE size = 2
  BY <1>2
<1>3. CASE size = 4
  BY <1>3
<1> QED
  BY <1>1, <1>2, <1>3

\* The registers exist for all of an aligned access or for none of it.
LEMMA AccessBacked ==
    ASSUME NEW size \in {1, 2, 4}, NEW address \in Nat, address % size = 0,
           isDevice(address, size), NEW k \in 0..(size - 1)
    PROVE  Backed(address + k) = Backed(address)
<1>1. InClint(address + k) = InClint(address) /\ InUart(address + k) = ~InClint(address)
  BY AccessRegion
<1>2. InUart(address) = ~InClint(address)
  BY <1>1, AccessRegion
<1>3. CASE ~InClint(address)
  BY <1>1, <1>2, <1>3 DEF Backed
<1>4. CASE InClint(address)
  <2>1. /\ Clint.base \in Nat /\ Clint.base % 4 = 0
        /\ TimeBytes \in Nat /\ TimeBytes % 4 = 0
        /\ MtimecmpOffset \in Nat /\ MtimecmpOffset % 4 = 0
        /\ MtimeOffset \in Nat /\ MtimeOffset % 4 = 0
    BY PlatformAssumption DEF Region
  <2>2. (MtimecmpByte(address + k) \in TimerBytes) <=> (MtimecmpByte(address) \in TimerBytes)
    <3> DEFINE x == MtimecmpByte(address)
    <3>1. MtimecmpByte(address + k) = x + k /\ x \in Int /\ x % size = 0
      BY <2>1 DEF MtimecmpByte
    <3> HIDE DEF x
    <3>2. (x + k \in 0..(TimeBytes - 1)) <=> (x \in 0..(TimeBytes - 1))
      BY <2>1, <3>1, AlignedRange
    <3> QED
      BY <3>1, <3>2 DEF TimerBytes, x
  <2>3. (MtimeByte(address + k) \in TimerBytes) <=> (MtimeByte(address) \in TimerBytes)
    <3> DEFINE x == MtimeByte(address)
    <3>1. MtimeByte(address + k) = x + k /\ x \in Int /\ x % size = 0
      BY <2>1 DEF MtimeByte
    <3> HIDE DEF x
    <3>2. (x + k \in 0..(TimeBytes - 1)) <=> (x \in 0..(TimeBytes - 1))
      BY <2>1, <3>1, AlignedRange
    <3> QED
      BY <3>1, <3>2 DEF TimerBytes, x
  <2> QED
    BY <1>1, <1>4, <2>2, <2>3 DEF Backed
<1> QED
  BY <1>3, <1>4

\* Where the lanes of an aligned access lie.
LEMMA AccessLane ==
    ASSUME NEW size \in {1, 2, 4}, NEW address \in Nat, address % size = 0
    PROVE  /\ address % 4 \in Lanes /\ (address % 4) + size - 1 \in Lanes
           /\ WordOf(address) \in Nat /\ WordOf(address) + (address % 4) = address
           /\ size = 4 => address % 4 = 0
           /\ size = 2 => address % 4 \in {0, 2}
  BY DEF Lanes, WordOf
\* Byte n of an aligned access lies in a strobed lane of its word.
LEMMA LaneAddress ==
    ASSUME NEW size \in {1, 2, 4}, NEW address \in Nat, address % size = 0, NEW n \in 0..(size - 1)
    PROVE  /\ address % 4 \in Nat /\ (address % 4) + n \in Lanes
           /\ (address % 4) + n \in AccessLanes(address, size)
<1> DEFINE l == address % 4
<1>1. l \in 0..3 /\ l + size - 1 \in 0..3 /\ WordOf(address) \in Nat /\ WordOf(address) + l = address
  BY AccessLane DEF Lanes
<1>2. AccessLanes(address, size) = l..(l + size - 1)
  BY DEF AccessLanes
<1> HIDE DEF l
<1>3. /\ l \in Nat /\ l + n \in Lanes /\ l + n \in AccessLanes(address, size)
  BY <1>1, <1>2 DEF Lanes
<1> QED
  BY <1>3 DEF l

\* A time is a number.
LEMMA TimeNat == \A t \in Time : t \in Nat
  BY PowerAssumption, PlatformAssumption DEF Time, TimeMax

(***************************************************************************)
(* Byte strings                                                            *)
(***************************************************************************)
ReadStart(p, address, size) ==
    [ok |-> isDevice(address, size), bytes |-> <<>>, platform |-> p]

\* A read of up to four bytes, step by step: the walk exists and is unique.
LEMMA ReadUnrolled ==
    ASSUME NEW p, NEW address \in Nat, NEW size \in 1..4
    PROVE  LET r0 == ReadStart(p, address, size)
               r1 == readNext(r0, address)
               r2 == readNext(r1, address + 1)
               r3 == readNext(r2, address + 2)
               r4 == readNext(r3, address + 3)
           IN  /\ size = 1 => readBytes(p, address, size) = r1
               /\ size = 2 => readBytes(p, address, size) = r2
               /\ size = 4 => readBytes(p, address, size) = r4
<1> DEFINE r0 == ReadStart(p, address, size)
           r1 == readNext(r0, address)
           r2 == readNext(r1, address + 1)
           r3 == readNext(r2, address + 2)
           r4 == readNext(r3, address + 3)
           walk(f) == [k \in 0..size |-> IF k = 0 THEN r0 ELSE readNext(f[k - 1], address + k - 1)]
           g == [k \in 0..size |-> IF k = 0 THEN r0 ELSE IF k = 1 THEN r1
                                   ELSE IF k = 2 THEN r2 ELSE IF k = 3 THEN r3 ELSE r4]
           after == CHOOSE f : f = walk(f)
<1>1. g = walk(g)
  <2> SUFFICES ASSUME NEW k \in 0..size
               PROVE  g[k] = IF k = 0 THEN r0 ELSE readNext(g[k - 1], address + k - 1)
    OBVIOUS
  <2> HIDE DEF r0
  <2>1. k \in {0, 1, 2, 3, 4}
    OBVIOUS
  <2> QED
    BY <2>1
<1>2. after = walk(after)
  BY <1>1
<1>3. readBytes(p, address, size) = after[size]
  BY DEF readBytes, ReadStart
<1> HIDE DEF after
<1>4. /\ 0 \in 0..size => after[0] = r0
      /\ 1 \in 0..size => after[1] = r1
      /\ 2 \in 0..size => after[2] = r2
      /\ 3 \in 0..size => after[3] = r3
      /\ 4 \in 0..size => after[4] = r4
  <2>1. ASSUME NEW k \in 0..size
        PROVE  after[k] = IF k = 0 THEN r0 ELSE readNext(after[k - 1], address + k - 1)
    BY <1>2
  <2>2. after[0] = r0
    BY <2>1
  <2>3. 1 \in 0..size => after[1] = r1
    BY <2>1, <2>2
  <2>4. 2 \in 0..size => after[2] = r2
    BY <2>1, <2>3
  <2>5. 3 \in 0..size => after[3] = r3
    BY <2>1, <2>4
  <2>6. 4 \in 0..size => after[4] = r4
    BY <2>1, <2>5
  <2> QED
    BY <2>2, <2>3, <2>4, <2>5, <2>6
<1> HIDE DEF r1, r2, r3, r4
<1>5. /\ size = 1 => readBytes(p, address, size) = r1
      /\ size = 2 => readBytes(p, address, size) = r2
      /\ size = 4 => readBytes(p, address, size) = r4
  BY <1>3, <1>4
<1> QED
  BY <1>5 DEF r1, r2, r3, r4
WriteStart(p, address, size) == [ok |-> isDevice(address, size), platform |-> p]

\* A write of up to four bytes, likewise.
LEMMA WriteUnrolled ==
    ASSUME NEW p, NEW address \in Nat, NEW size \in 1..4, NEW bytes, Len(bytes) = size
    PROVE  LET r0 == WriteStart(p, address, size)
               r1 == writeNext(r0, address, bytes[1])
               r2 == writeNext(r1, address + 1, bytes[2])
               r3 == writeNext(r2, address + 2, bytes[3])
               r4 == writeNext(r3, address + 3, bytes[4])
           IN  /\ size = 1 => writeBytes(p, address, bytes) = r1
               /\ size = 2 => writeBytes(p, address, bytes) = r2
               /\ size = 4 => writeBytes(p, address, bytes) = r4
<1> DEFINE r0 == WriteStart(p, address, size)
           r1 == writeNext(r0, address, bytes[1])
           r2 == writeNext(r1, address + 1, bytes[2])
           r3 == writeNext(r2, address + 2, bytes[3])
           r4 == writeNext(r3, address + 3, bytes[4])
           walk(f) == [k \in 0..size |-> IF k = 0 THEN r0 ELSE writeNext(f[k - 1], address + k - 1, bytes[k])]
           g == [k \in 0..size |-> IF k = 0 THEN r0 ELSE IF k = 1 THEN r1
                                   ELSE IF k = 2 THEN r2 ELSE IF k = 3 THEN r3 ELSE r4]
           after == CHOOSE f : f = walk(f)
<1>1. g = walk(g)
  <2> SUFFICES ASSUME NEW k \in 0..size
               PROVE  g[k] = IF k = 0 THEN r0 ELSE writeNext(g[k - 1], address + k - 1, bytes[k])
    OBVIOUS
  <2> HIDE DEF r0
  <2>1. k \in {0, 1, 2, 3, 4}
    OBVIOUS
  <2> QED
    BY <2>1
<1>2. after = walk(after)
  BY <1>1
<1>3. writeBytes(p, address, bytes) = after[size]
  BY DEF writeBytes, WriteStart
<1> HIDE DEF after
<1>4. /\ 0 \in 0..size => after[0] = r0
      /\ 1 \in 0..size => after[1] = r1
      /\ 2 \in 0..size => after[2] = r2
      /\ 3 \in 0..size => after[3] = r3
      /\ 4 \in 0..size => after[4] = r4
  <2>1. ASSUME NEW k \in 0..size
        PROVE  after[k] = IF k = 0 THEN r0 ELSE writeNext(after[k - 1], address + k - 1, bytes[k])
    BY <1>2
  <2>2. after[0] = r0
    BY <2>1
  <2>3. 1 \in 0..size => after[1] = r1
    BY <2>1, <2>2
  <2>4. 2 \in 0..size => after[2] = r2
    BY <2>1, <2>3
  <2>5. 3 \in 0..size => after[3] = r3
    BY <2>1, <2>4
  <2>6. 4 \in 0..size => after[4] = r4
    BY <2>1, <2>5
  <2> QED
    BY <2>2, <2>3, <2>4, <2>5, <2>6
<1> HIDE DEF r1, r2, r3, r4
<1>5. /\ size = 1 => writeBytes(p, address, bytes) = r1
      /\ size = 2 => writeBytes(p, address, bytes) = r2
      /\ size = 4 => writeBytes(p, address, bytes) = r4
  BY <1>3, <1>4
<1> QED
  BY <1>5 DEF r1, r2, r3, r4

(***************************************************************************)
(* The two paths of a read.  After n bytes of an aligned access that is    *)
(* backed, r is the walk over the bus lanes from lane l on and s the walk  *)
(* over the byte string.                                                   *)
(***************************************************************************)
Alike(p, q) == SameRegisters(p, q) /\ p.input = q.input /\ p.mtime = q.mtime

InputAfter(p, address) == IF PopsReceiveBuffer(p, address) THEN Tail(p.input) ELSE p.input

UntouchedButInput(after, p) ==
    /\ after \in Platform /\ SameRegisters(after, p)
    /\ after.mtime = p.mtime /\ after.subcycle = p.subcycle /\ after.output = p.output

ReadJoint(r, s, p, q, address, n) ==
    LET l == address % 4
    IN  /\ r.ok = TRUE /\ s.ok = TRUE
        /\ UntouchedButInput(r.platform, p) /\ UntouchedButInput(s.platform, q)
        /\ r.platform.input = IF n = 0 THEN p.input ELSE InputAfter(p, address)
        /\ s.platform.input = r.platform.input
        /\ r.data \in Word /\ s.bytes \in Seq(Byte) /\ Len(s.bytes) = n
        /\ \A k \in 1..n : r.data[l + k - 1] = s.bytes[k]
        /\ n > 0 => r.data[l] = readByte(p, address).value

\* One more byte on both paths.
LEMMA ReadJointStep ==
    ASSUME NEW size \in {1, 2, 4}, NEW address \in Nat, address % size = 0,
           isDevice(address, size), Backed(address),
           NEW p \in Platform, NEW q \in Platform, Alike(p, q),
           NEW n \in 0..(size - 1), NEW r, NEW s, ReadJoint(r, s, p, q, address, n)
    PROVE  ReadJoint(readLane(r, WordOf(address), AccessLanes(address, size), (address % 4) + n),
                     readNext(s, address + n), p, q, address, n + 1)
<1> DEFINE l == address % 4
           b == readByte(r.platform, address + n)
           c == readByte(s.platform, address + n)
<1>1. l \in Nat /\ l + n \in Lanes /\ l + n \in AccessLanes(address, size)
      /\ WordOf(address) + (l + n) = address + n /\ address + n \in Nat
  <2> USE DEF l
  <2>1. address % 4 \in Nat /\ (address % 4) + n \in Lanes
    BY LaneAddress
  <2>2. (address % 4) + n \in AccessLanes(address, size)
    BY LaneAddress
  <2>3. WordOf(address) + ((address % 4) + n) = address + n /\ address + n \in Nat
    BY <2>1 DEF WordOf
  <2> QED
    BY <2>1, <2>2, <2>3
<1>2. Backed(address + n) = TRUE
  BY AccessBacked DEF Backed, InUart
<1>3. r.platform \in Platform /\ s.platform \in Platform
      /\ SameRegisters(r.platform, p) /\ SameRegisters(s.platform, q)
      /\ r.platform.mtime = p.mtime /\ s.platform.mtime = q.mtime
      /\ s.platform.input = r.platform.input
  BY DEF ReadJoint, UntouchedButInput
<1>4. /\ b.ok = TRUE /\ b.value \in Byte /\ UntouchedButInput(b.platform, r.platform)
      /\ c.ok = TRUE /\ c.value \in Byte /\ UntouchedButInput(c.platform, s.platform)
  BY <1>1, <1>2, <1>3, ReadByteType DEF UntouchedButInput
<1>5. b.value = c.value /\ b.platform.input = c.platform.input
  <2>1. SameRegisters(r.platform, s.platform) /\ r.platform.mtime = s.platform.mtime
    BY <1>3 DEF Alike, SameRegisters
  <2> QED
    BY <1>1, <1>3, <2>1, ReadByteSame
<1>6. b.platform.input = InputAfter(p, address)
  <2>1. Dlab(r.platform) = Dlab(p)
    BY <1>3 DEF SameRegisters, Dlab
  <2>2. CASE n = 0
    <3>1. r.platform.input = p.input
      BY <2>2 DEF ReadJoint
    <3>2. PopsReceiveBuffer(r.platform, address + n) = PopsReceiveBuffer(p, address)
      BY <2>1, <2>2, <3>1 DEF PopsReceiveBuffer
    <3> QED
      BY <1>3, <3>1, <3>2 DEF readByte, InputAfter, Platform
  <2>3. CASE n # 0
    <3>1. ~PopsReceiveBuffer(r.platform, address + n)
      BY <2>3, AccessRegion DEF PopsReceiveBuffer
    <3> QED
      BY <2>3, <3>1 DEF readByte, ReadJoint
  <2> QED
    BY <2>2, <2>3
<1>7. n = 0 => b.value = readByte(p, address).value
  <2> SUFFICES ASSUME n = 0 PROVE b.value = readByte(p, address).value
    OBVIOUS
  <2>1. r.platform.input = p.input /\ address + n = address
    BY DEF ReadJoint
  <2> QED
    BY <1>3, <2>1, ReadByteSame
<1> DEFINE r2 == [ok |-> TRUE, data |-> [r.data EXCEPT ![l + n] = b.value], platform |-> b.platform]
           s2 == [ok |-> TRUE, bytes |-> Append(s.bytes, c.value), platform |-> c.platform]
<1>8. readLane(r, WordOf(address), AccessLanes(address, size), l + n) = r2
  <2>1. r.ok = TRUE
    BY DEF ReadJoint
  <2> QED
    BY <1>1, <1>4, <2>1 DEF readLane
<1>9. readNext(s, address + n) = s2
  <2>1. s.ok = TRUE
    BY DEF ReadJoint
  <2> QED
    BY <1>4, <2>1 DEF readNext
<1> HIDE DEF l, b, c
<1>10. UntouchedButInput(b.platform, p) /\ UntouchedButInput(c.platform, q)
  BY <1>4 DEF ReadJoint, UntouchedButInput, SameRegisters
<1>11. r2.data \in Word /\ s2.bytes \in Seq(Byte) /\ Len(s2.bytes) = n + 1
  <2>1. r.data \in Word /\ s.bytes \in Seq(Byte) /\ Len(s.bytes) = n
    BY DEF ReadJoint
  <2>2. r2.data \in Word
    BY <1>4, <2>1 DEF Word
  <2>3. s2.bytes = Append(s.bytes, c.value) /\ c.value \in Byte
    BY <1>4
  <2> QED
    BY <2>1, <2>2, <2>3
<1>12. \A k \in 1..(n + 1) : r2.data[l + k - 1] = s2.bytes[k]
  <2> SUFFICES ASSUME NEW k \in 1..(n + 1) PROVE r2.data[l + k - 1] = s2.bytes[k]
    OBVIOUS
  <2>0. r.data \in Word /\ s.bytes \in Seq(Byte) /\ Len(s.bytes) = n
    BY DEF ReadJoint
  <2>1. CASE k = n + 1
    <3>1. s2.bytes[k] = c.value
      BY <1>4, <2>0, <2>1
    <3>2. r2.data[l + k - 1] = b.value
      BY <1>1, <2>0, <2>1 DEF Word
    <3> QED
      BY <1>5, <3>1, <3>2
  <2>2. CASE k # n + 1
    <3>1. k \in 1..n
      BY <2>2
    <3>2. s2.bytes[k] = s.bytes[k]
      BY <1>4, <2>0, <3>1
    <3>3. r2.data[l + k - 1] = r.data[l + k - 1]
      BY <1>1, <2>0, <3>1 DEF Word, Lanes
    <3> QED
      BY <3>1, <3>2, <3>3 DEF ReadJoint, l
  <2> QED
    BY <2>1, <2>2
<1>13. r2.data[l] = readByte(p, address).value
  <2>0. r.data \in Word
    BY DEF ReadJoint
  <2>1. CASE n = 0
    <3>1. l + n = l
      BY <1>1, <2>1
    <3>2. r2.data[l] = b.value
      BY <1>1, <2>0, <3>1 DEF Word
    <3> QED
      BY <1>7, <2>1, <3>2
  <2>2. CASE n # 0
    BY <1>1, <2>0, <2>2 DEF Word, ReadJoint, Lanes, l
  <2> QED
    BY <2>1, <2>2
<1>14. ReadJoint(r2, s2, p, q, address, n + 1)
  <2>1. r2.ok = TRUE /\ s2.ok = TRUE /\ r2.platform = b.platform /\ s2.platform = c.platform
    OBVIOUS
  <2> HIDE DEF r2, s2
  <2>2. n + 1 # 0
    OBVIOUS
  <2> QED
    BY <1>5, <1>6, <1>10, <1>11, <1>12, <1>13, <2>1, <2>2 DEF ReadJoint, l
<1> QED
  BY <1>8, <1>9, <1>14 DEF l

\* The walk over the four lanes visits those of an aligned access, in order.
LEMMA LanesVisited ==
    ASSUME NEW size \in {1, 2, 4}, NEW address \in Nat, address % size = 0, NEW p
    PROVE  LET lane(r, n) ==
                 readLane(r, WordOf(address), AccessLanes(address, size), (address % 4) + n)
               r0 == [ok |-> TRUE, data |-> ZeroWord, platform |-> p]
               r == readWord(p, WordOf(address), AccessLanes(address, size))
           IN  /\ size = 1 => r = lane(r0, 0)
               /\ size = 2 => r = lane(lane(r0, 0), 1)
               /\ size = 4 => r = lane(lane(lane(lane(r0, 0), 1), 2), 3)
<1> DEFINE l == address % 4
           L == AccessLanes(address, size)
           w == WordOf(address)
           r0 == [ok |-> TRUE, data |-> ZeroWord, platform |-> p]
<1>1. l \in 0..3 /\ (size = 2 => l \in {0, 2}) /\ (size = 4 => l = 0) /\ L = l..(l + size - 1)
  BY AccessLane DEF Lanes, AccessLanes
<1>2. readWord(p, w, L) = readLane(readLane(readLane(readLane(r0, w, L, 0), w, L, 1), w, L, 2), w, L, 3)
  BY DEF readWord
<1>3. ASSUME NEW r, NEW k \in 0..3, k \notin L PROVE readLane(r, w, L, k) = r
  BY <1>3 DEF readLane
<1> HIDE DEF l, L, w, r0
<1>4. CASE size = 1
  <2>1. CASE l = 0
    <3>1. 1 \notin L /\ 2 \notin L /\ 3 \notin L
      BY <1>1, <1>4, <2>1
    <3>2. readWord(p, w, L) = readLane(r0, w, L, 0)
      BY <1>2, <1>3, <3>1
    <3> QED
      BY <1>4, <2>1, <3>2 DEF l, L, w, r0
  <2>2. CASE l = 1
    <3>1. 0 \notin L /\ 2 \notin L /\ 3 \notin L
      BY <1>1, <1>4, <2>2
    <3>2. readWord(p, w, L) = readLane(r0, w, L, 1)
      BY <1>2, <1>3, <3>1
    <3> QED
      BY <1>4, <2>2, <3>2 DEF l, L, w, r0
  <2>3. CASE l = 2
    <3>1. 0 \notin L /\ 1 \notin L /\ 3 \notin L
      BY <1>1, <1>4, <2>3
    <3>2. readWord(p, w, L) = readLane(r0, w, L, 2)
      BY <1>2, <1>3, <3>1
    <3> QED
      BY <1>4, <2>3, <3>2 DEF l, L, w, r0
  <2>4. CASE l = 3
    <3>1. 0 \notin L /\ 1 \notin L /\ 2 \notin L
      BY <1>1, <1>4, <2>4
    <3>2. readWord(p, w, L) = readLane(r0, w, L, 3)
      BY <1>2, <1>3, <3>1
    <3> QED
      BY <1>4, <2>4, <3>2 DEF l, L, w, r0
  <2> QED
    BY <1>1, <2>1, <2>2, <2>3, <2>4
<1>5. CASE size = 2
  <2>1. CASE l = 0
    <3>1. 2 \notin L /\ 3 \notin L
      BY <1>1, <1>5, <2>1
    <3>2. readWord(p, w, L) = readLane(readLane(r0, w, L, 0), w, L, 1)
      BY <1>2, <1>3, <3>1
    <3> QED
      BY <1>5, <2>1, <3>2 DEF l, L, w, r0
  <2>2. CASE l = 2
    <3>1. 0 \notin L /\ 1 \notin L
      BY <1>1, <1>5, <2>2
    <3>2. readWord(p, w, L) = readLane(readLane(r0, w, L, 2), w, L, 3)
      BY <1>2, <1>3, <3>1
    <3> QED
      BY <1>5, <2>2, <3>2 DEF l, L, w, r0
  <2> QED
    BY <1>1, <1>5, <2>1, <2>2
<1>6. CASE size = 4
  BY <1>1, <1>2, <1>6 DEF l, L, w, r0
<1> QED
  BY <1>4, <1>5, <1>6

\* Both paths of an aligned read succeed or fail together, return the same
\* bytes and take the same byte from the input, and a failure changes nothing.
LEMMA ReadPaths ==
    ASSUME NEW size \in {1, 2, 4}, NEW address \in Nat, address % size = 0,
           isDevice(address, size),
           NEW p \in Platform, NEW q \in Platform, Alike(p, q)
    PROVE  LET bus == readBus(p, address, size)
               str == readBytes(q, address, size)
           IN  /\ bus.ok = Backed(address) /\ str.ok = Backed(address)
               /\ Backed(address) => ReadJoint(bus, str, p, q, address, size)
               /\ ~Backed(address) => bus.platform = p /\ str.platform = q
<1> DEFINE l == address % 4
           lane(r, n) == readLane(r, WordOf(address), AccessLanes(address, size), l + n)
           r0 == [ok |-> TRUE, data |-> ZeroWord, platform |-> p]
           s0 == ReadStart(q, address, size)
           bus == readBus(p, address, size)
           str == readBytes(q, address, size)
<1>1. bus = readWord(p, WordOf(address), AccessLanes(address, size))
  BY DEF readBus
<1>2. /\ size = 1 => bus = lane(r0, 0)
      /\ size = 2 => bus = lane(lane(r0, 0), 1)
      /\ size = 4 => bus = lane(lane(lane(lane(r0, 0), 1), 2), 3)
  BY <1>1, LanesVisited
<1>3. /\ size = 1 => str = readNext(s0, address)
      /\ size = 2 => str = readNext(readNext(s0, address), address + 1)
      /\ size = 4 => str = readNext(readNext(readNext(readNext(s0, address), address + 1),
                                             address + 2), address + 3)
  BY ReadUnrolled
<1>4. CASE Backed(address)
  <2>1. ReadJoint(r0, s0, p, q, address, 0)
    <3>1. ZeroWord \in Word /\ <<>> \in Seq(Byte) /\ Len(<<>>) = 0
      BY PlatformAssumption DEF ZeroWord, Word, Byte
    <3>2. r0.ok = TRUE /\ s0.ok = TRUE /\ r0.platform = p /\ s0.platform = q
          /\ r0.data = ZeroWord /\ s0.bytes = <<>>
      BY DEF ReadStart, isDevice, contains, isWriteCombine
    <3>3. UntouchedButInput(p, p) /\ UntouchedButInput(q, q)
      BY DEF UntouchedButInput, SameRegisters
    <3> HIDE DEF r0, s0
    <3> QED
      BY <3>1, <3>2, <3>3 DEF ReadJoint, Alike
  <2>2. ASSUME NEW n \in 0..(size - 1), NEW r, NEW s, ReadJoint(r, s, p, q, address, n)
        PROVE  ReadJoint(lane(r, n), readNext(s, address + n), p, q, address, n + 1)
    BY <1>4, <2>2, ReadJointStep
  <2> HIDE DEF lane, r0, s0, bus, str
  <2>3. ReadJoint(lane(r0, 0), readNext(s0, address), p, q, address, 1)
    <3>1. 0 \in 0..(size - 1) /\ address + 0 = address /\ 0 + 1 = 1
      OBVIOUS
    <3> QED
      BY <2>1, <2>2, <3>1
  <2>4. CASE size = 1
    <3>1. ReadJoint(bus, str, p, q, address, 1)
      BY <1>2, <1>3, <2>3, <2>4
    <3>2. Backed(address) = TRUE
      BY <1>4 DEF Backed, InUart
    <3> QED
      BY <2>4, <3>1, <3>2 DEF ReadJoint, bus, str
  <2>5. size # 1 => ReadJoint(lane(lane(r0, 0), 1), readNext(readNext(s0, address), address + 1),
                              p, q, address, 2)
    <3>1. size # 1 => 1 \in 0..(size - 1) /\ 1 + 1 = 2
      OBVIOUS
    <3> QED
      BY <2>2, <2>3, <3>1
  <2>6. CASE size = 2
    <3>1. ReadJoint(bus, str, p, q, address, 2)
      BY <1>2, <1>3, <2>5, <2>6
    <3>2. Backed(address) = TRUE
      BY <1>4 DEF Backed, InUart
    <3> QED
      BY <2>6, <3>1, <3>2 DEF ReadJoint, bus, str
  <2>7. CASE size = 4
    <3>1. 2 \in 0..(size - 1) /\ 3 \in 0..(size - 1) /\ 2 + 1 = 3 /\ 3 + 1 = 4
      BY <2>7
    <3>2. ReadJoint(lane(lane(lane(r0, 0), 1), 2),
                    readNext(readNext(readNext(s0, address), address + 1), address + 2),
                    p, q, address, 3)
      BY <2>2, <2>5, <2>7, <3>1
    <3>3. ReadJoint(bus, str, p, q, address, 4)
      BY <1>2, <1>3, <2>2, <2>7, <3>1, <3>2
    <3> QED
      BY <1>4, <2>7, <3>3 DEF ReadJoint, bus, str
  <2> QED
    BY <2>4, <2>6, <2>7
<1>5. CASE ~Backed(address)
  <2>1. readByte(p, address).ok = FALSE /\ readByte(p, address).platform = p
        /\ readByte(q, address).ok = FALSE /\ readByte(q, address).platform = q
    <3>1. 0 \in 0..(size - 1) /\ address + 0 = address
      OBVIOUS
    <3>2. InUart(address) = ~InClint(address)
      BY <3>1, AccessRegion
    <3>3. ~InUart(address) /\ Backed(address) = FALSE
      BY <1>5, <3>2 DEF Backed, InUart
    <3>4. ~PopsReceiveBuffer(p, address) /\ ~PopsReceiveBuffer(q, address)
      BY <3>3 DEF PopsReceiveBuffer, ReceiveBuffer
    <3> QED
      BY <3>3, <3>4 DEF readByte
  <2>2. lane(r0, 0).ok = FALSE /\ lane(r0, 0).platform = p
    <3>1. l + 0 \in AccessLanes(address, size) /\ WordOf(address) + (l + 0) = address
      BY AccessLane DEF AccessLanes, Lanes
    <3> QED
      BY <2>1, <3>1 DEF readLane
  <2>3. readNext(s0, address).ok = FALSE /\ readNext(s0, address).platform = q
    <3>1. s0.ok = TRUE /\ s0.platform = q
      BY DEF ReadStart, isDevice, contains, isWriteCombine
    <3> HIDE DEF s0
    <3> QED
      BY <2>1, <3>1 DEF readNext
  <2>4. ASSUME NEW r, NEW n, r.ok = FALSE PROVE lane(r, n) = r
    BY <2>4 DEF readLane
  <2>5. ASSUME NEW s, NEW a, s.ok = FALSE PROVE readNext(s, a) = s
    BY <2>5 DEF readNext
  <2> HIDE DEF lane, r0, s0, bus, str
  <2>6. bus = lane(r0, 0)
    <3>1. lane(lane(r0, 0), 1) = lane(r0, 0) /\ lane(lane(r0, 0), 2) = lane(r0, 0)
          /\ lane(lane(r0, 0), 3) = lane(r0, 0)
      BY <2>2, <2>4
    <3> QED
      BY <1>2, <3>1
  <2>7. str = readNext(s0, address)
    <3>1. \A a : readNext(readNext(s0, address), a) = readNext(s0, address)
      BY <2>3, <2>5
    <3> QED
      BY <1>3, <3>1
  <2>8. bus.ok = Backed(address) /\ str.ok = Backed(address) /\ bus.platform = p /\ str.platform = q
    <3>1. Backed(address) = FALSE
      BY <1>5 DEF Backed, InUart
    <3> QED
      BY <2>2, <2>3, <2>6, <2>7, <3>1
  <2> QED
    BY <1>5, <2>8 DEF bus, str
<1>6. Backed(address) \in BOOLEAN
  BY DEF Backed, InUart
<1> QED
  BY <1>4, <1>5, <1>6

(***************************************************************************)
(* The two paths of a write, in the same way.  The reference may have any  *)
(* time when it starts.                                                    *)
(***************************************************************************)
WriteJoint(r, s, p, q, address, bytes, n) ==
    /\ r.ok = TRUE /\ s.ok = TRUE
    /\ r.platform \in Platform /\ s.platform \in Platform
    /\ SameRegisters(r.platform, s.platform)
    /\ r.platform.input = p.input /\ s.platform.input = q.input
    /\ r.platform.subcycle = p.subcycle /\ s.platform.subcycle = q.subcycle
    /\ p.output = q.output => r.platform.output = s.platform.output
    /\ ~InClint(address) => r.platform.mtime = p.mtime /\ r.platform.mtimecmp = p.mtimecmp
    /\ \A k \in 0..(n - 1) :
         TimeAt(address + k) => ByteOf(r.platform.mtime, MtimeByte(address + k)) = bytes[k + 1]
    /\ (\A k \in 0..(n - 1) :
          TimeAt(address + k) => ByteOf(q.mtime, MtimeByte(address + k)) = bytes[k + 1])
       => s.platform.mtime = q.mtime

\* One lane on the bus and one byte on the other path keep the two writes together.
LEMMA WriteJointStep ==
    ASSUME NEW size \in {1, 2, 4}, NEW address \in Nat, address % size = 0,
           isDevice(address, size), Backed(address),
           NEW p \in Platform, NEW q \in Platform,
           NEW bytes \in [1..size -> Byte], NEW data \in Word,
           \A k \in 1..size : data[(address % 4) + k - 1] = bytes[k],
           NEW n \in 0..(size - 1), NEW r, NEW s, WriteJoint(r, s, p, q, address, bytes, n)
    PROVE  WriteJoint(writeLane(r, WordOf(address), data, AccessLanes(address, size), (address % 4) + n),
                      writeNext(s, address + n, bytes[n + 1]), p, q, address, bytes, n + 1)
<1> DEFINE l == address % 4
           v == bytes[n + 1]
           b == writeByte(r.platform, address + n, v)
           c == writeByte(s.platform, address + n, v)
<1>1. l \in Nat /\ l + n \in AccessLanes(address, size) /\ address + n \in Nat
      /\ WordOf(address) + (l + n) = address + n
  <2> USE DEF l
  <2>1. address % 4 \in Nat /\ (address % 4) + n \in Lanes
    BY LaneAddress
  <2>2. (address % 4) + n \in AccessLanes(address, size)
    BY LaneAddress
  <2>3. WordOf(address) + ((address % 4) + n) = address + n /\ address + n \in Nat
    BY <2>1 DEF WordOf
  <2> QED
    BY <2>1, <2>2, <2>3
<1>2. Backed(address + n) = TRUE
  BY AccessBacked DEF Backed, InUart
<1>3. v \in Byte /\ data[l + n] = v
  <2>1. n + 1 \in 1..size /\ l + (n + 1) - 1 = l + n
    BY <1>1
  <2> QED
    BY <2>1
<1>4. r.platform \in Platform /\ s.platform \in Platform
      /\ SameRegisters(r.platform, s.platform)
      /\ r.platform.mtime \in Nat /\ s.platform.mtime \in Nat
  <2>1. r.platform \in Platform /\ s.platform \in Platform /\ SameRegisters(r.platform, s.platform)
    BY DEF WriteJoint
  <2> QED
    BY <2>1, TimeNat DEF Platform
<1>5. /\ b.ok = TRUE /\ b.platform \in Platform
      /\ b.platform.input = r.platform.input /\ b.platform.subcycle = r.platform.subcycle
      /\ c.ok = TRUE /\ c.platform \in Platform
      /\ c.platform.input = s.platform.input /\ c.platform.subcycle = s.platform.subcycle
  BY <1>1, <1>2, <1>3, <1>4, WriteByteType
<1>6. /\ SameRegisters(b.platform, c.platform)
      /\ r.platform.output = s.platform.output => b.platform.output = c.platform.output
  <2>1. PICK x, a, d, e : x = v /\ a = address + n /\ d = r.platform /\ e = s.platform
    OBVIOUS
  <2>2. x \in Byte /\ a \in Nat /\ d \in Platform /\ e \in Platform /\ SameRegisters(d, e)
    BY <1>1, <1>3, <1>4, <2>1
  <2>3. SameWritten(writeByte(d, a, x).platform, writeByte(e, a, x).platform, d, e)
    BY <2>2, WriteByteTogether
  <2>4. SameWritten(b.platform, c.platform, r.platform, s.platform)
    BY <2>1, <2>3
  <2> HIDE DEF b, c, v
  <2> QED
    BY <2>4 DEF SameWritten
<1>7. /\ TimeAt(address + n) => b.platform.mtime = WithByte(r.platform.mtime, MtimeByte(address + n), v)
      /\ ~TimeAt(address + n) => b.platform.mtime = r.platform.mtime
      /\ ~InClint(address + n) => b.platform.mtimecmp = r.platform.mtimecmp
      /\ TimeAt(address + n) => c.platform.mtime = WithByte(s.platform.mtime, MtimeByte(address + n), v)
      /\ ~TimeAt(address + n) => c.platform.mtime = s.platform.mtime
  <2>1. PICK x, a, d, e : x = v /\ a = address + n /\ d = r.platform /\ e = s.platform
    OBVIOUS
  <2>2. x \in Byte /\ a \in Nat /\ d \in Platform /\ e \in Platform
    BY <1>1, <1>3, <1>4, <2>1
  <2>3. TimeWritten(writeByte(d, a, x).platform, d, a, x)
    BY <2>2, WriteByteTimes
  <2>4. TimeWritten(writeByte(e, a, x).platform, e, a, x)
    BY <2>2, WriteByteTimes
  <2>5. TimeWritten(b.platform, r.platform, address + n, v)
    BY <2>1, <2>3
  <2>6. TimeWritten(c.platform, s.platform, address + n, v)
    BY <2>1, <2>4
  <2> HIDE DEF b, c, v
  <2> QED
    BY <2>5, <2>6 DEF TimeWritten
<1>8. writeLane(r, WordOf(address), data, AccessLanes(address, size), l + n)
        = [ok |-> TRUE, platform |-> b.platform]
  BY <1>1, <1>3, <1>5 DEF writeLane, WriteJoint
<1>9. writeNext(s, address + n, v) = [ok |-> TRUE, platform |-> c.platform]
  BY <1>5 DEF writeNext, WriteJoint
<1> HIDE DEF l, v, b, c
<1>10. ~InClint(address) => b.platform.mtime = p.mtime /\ b.platform.mtimecmp = p.mtimecmp
  <2>1. InClint(address + n) = InClint(address)
    BY AccessRegion
  <2> QED
    BY <1>7, <2>1 DEF WriteJoint, TimeAt
<1>11. ASSUME NEW k \in 0..n, TimeAt(address + k)
       PROVE  ByteOf(b.platform.mtime, MtimeByte(address + k)) = bytes[k + 1]
  <2> DEFINE j == MtimeByte(address + k)
             i == MtimeByte(address + n)
  <2>1. j \in TimerBytes /\ (k # n => j # i)
    <3>1. Clint.base \in Nat /\ MtimeOffset \in Nat
      BY PlatformAssumption DEF Region
    <3> QED
      BY <1>11, <3>1 DEF TimeAt, MtimeByte
  <2>2. CASE k = n
    <3>1. b.platform.mtime = WithByte(r.platform.mtime, i, v) /\ j = i
      BY <1>7, <1>11, <2>2
    <3> QED
      BY <1>3, <1>4, <2>1, <2>2, <3>1, ByteWritten, SMTT(30) DEF v
  <2>3. CASE k # n
    <3>1. ByteOf(r.platform.mtime, j) = bytes[k + 1]
      BY <1>11, <2>3 DEF WriteJoint
    <3>2. CASE TimeAt(address + n)
      <4>1. i \in TimerBytes /\ b.platform.mtime = WithByte(r.platform.mtime, i, v)
        BY <1>7, <3>2 DEF TimeAt
      <4>2. ByteOf(WithByte(r.platform.mtime, i, v), j) = ByteOf(r.platform.mtime, j)
        <5> HIDE DEF i, j
        <5> QED
          BY <1>3, <1>4, <2>1, <2>3, <4>1, OtherByte
      <4> QED
        BY <3>1, <4>1, <4>2
    <3>3. CASE ~TimeAt(address + n)
      BY <1>7, <3>1, <3>3
    <3> QED
      BY <3>2, <3>3
  <2> QED
    BY <2>2, <2>3
<1>12. ASSUME \A k \in 0..n :
                TimeAt(address + k) => ByteOf(q.mtime, MtimeByte(address + k)) = bytes[k + 1]
       PROVE  c.platform.mtime = q.mtime
  <2>1. s.platform.mtime = q.mtime
    BY <1>12 DEF WriteJoint
  <2>2. CASE TimeAt(address + n)
    <3>1. ByteOf(q.mtime, MtimeByte(address + n)) = v
      BY <1>12, <2>2 DEF v
    <3>2. q.mtime + (v - v) * ByteBase ^ MtimeByte(address + n) = q.mtime
      <4>1. ByteBase ^ MtimeByte(address + n) \in Int /\ v \in Int /\ q.mtime \in Int
        BY <1>3, <1>4, <2>1, <2>2, Weights DEF TimeAt, Byte
      <4> DEFINE z == ByteBase ^ MtimeByte(address + n)
      <4> HIDE DEF z
      <4>2. q.mtime + (v - v) * z = q.mtime
        BY <4>1 DEF z
      <4> QED
        BY <4>2 DEF z
    <3> QED
      BY <1>7, <2>1, <2>2, <3>1, <3>2 DEF WithByte
  <2>3. CASE ~TimeAt(address + n)
    BY <1>7, <2>1, <2>3
  <2> QED
    BY <2>2, <2>3
<1>13. (n + 1) - 1 = n
  OBVIOUS
<1> DEFINE r2 == [ok |-> TRUE, platform |-> b.platform]
           s2 == [ok |-> TRUE, platform |-> c.platform]
<1>14. WriteJoint(r2, s2, p, q, address, bytes, n + 1)
  <2>1. r2.ok = TRUE /\ s2.ok = TRUE /\ r2.platform = b.platform /\ s2.platform = c.platform
    OBVIOUS
  <2> HIDE DEF r2, s2
  <2>2. /\ b.platform.input = p.input /\ c.platform.input = q.input
        /\ b.platform.subcycle = p.subcycle /\ c.platform.subcycle = q.subcycle
        /\ p.output = q.output => b.platform.output = c.platform.output
    BY <1>5, <1>6 DEF WriteJoint
  <2> QED
    BY <1>5, <1>6, <1>10, <1>11, <1>12, <1>13, <2>1, <2>2 DEF WriteJoint
<1> QED
  BY <1>8, <1>9, <1>14 DEF l, v

\* The walk of a write over the four lanes.
WriteWalk(p, word, data, strobe) ==
    LET start == [ok |-> TRUE, platform |-> p]
    IN  writeLane(writeLane(writeLane(writeLane(start, word, data, strobe, 0),
                  word, data, strobe, 1), word, data, strobe, 2), word, data, strobe, 3)

\* A walk over the four lanes is a walk over the strobed ones.
LEMMA StrobesVisited ==
    ASSUME NEW size \in {1, 2, 4}, NEW address \in Nat, address % size = 0, NEW p, NEW data
    PROVE  LET lane(r, n) ==
                 writeLane(r, WordOf(address), data, AccessLanes(address, size), (address % 4) + n)
               r0 == [ok |-> TRUE, platform |-> p]
               r == WriteWalk(p, WordOf(address), data, AccessLanes(address, size))
           IN  /\ size = 1 => r = lane(r0, 0)
               /\ size = 2 => r = lane(lane(r0, 0), 1)
               /\ size = 4 => r = lane(lane(lane(lane(r0, 0), 1), 2), 3)
<1> DEFINE l == address % 4
           L == AccessLanes(address, size)
           w == WordOf(address)
           r0 == [ok |-> TRUE, platform |-> p]
           W == WriteWalk(p, w, data, L)
<1>1. l \in 0..3 /\ (size = 2 => l \in {0, 2}) /\ (size = 4 => l = 0) /\ L = l..(l + size - 1)
  BY AccessLane DEF Lanes, AccessLanes
<1>2. W = writeLane(writeLane(writeLane(writeLane(r0, w, data, L, 0), w, data, L, 1),
                             w, data, L, 2), w, data, L, 3)
  BY DEF WriteWalk
<1>3. ASSUME NEW r, NEW k \in 0..3, k \notin L PROVE writeLane(r, w, data, L, k) = r
  BY <1>3 DEF writeLane
<1> HIDE DEF l, L, w, r0, W
<1>4. CASE size = 1
  <2>1. CASE l = 0
    <3>1. 1 \notin L /\ 2 \notin L /\ 3 \notin L
      BY <1>1, <1>4, <2>1
    <3>2. W = writeLane(r0, w, data, L, 0)
      BY <1>2, <1>3, <3>1
    <3> QED
      BY <1>4, <2>1, <3>2 DEF l, L, w, r0, W
  <2>2. CASE l = 1
    <3>1. 0 \notin L /\ 2 \notin L /\ 3 \notin L
      BY <1>1, <1>4, <2>2
    <3>2. W = writeLane(r0, w, data, L, 1)
      BY <1>2, <1>3, <3>1
    <3> QED
      BY <1>4, <2>2, <3>2 DEF l, L, w, r0, W
  <2>3. CASE l = 2
    <3>1. 0 \notin L /\ 1 \notin L /\ 3 \notin L
      BY <1>1, <1>4, <2>3
    <3>2. W = writeLane(r0, w, data, L, 2)
      BY <1>2, <1>3, <3>1
    <3> QED
      BY <1>4, <2>3, <3>2 DEF l, L, w, r0, W
  <2>4. CASE l = 3
    <3>1. 0 \notin L /\ 1 \notin L /\ 2 \notin L
      BY <1>1, <1>4, <2>4
    <3>2. W = writeLane(r0, w, data, L, 3)
      BY <1>2, <1>3, <3>1
    <3> QED
      BY <1>4, <2>4, <3>2 DEF l, L, w, r0, W
  <2> QED
    BY <1>1, <2>1, <2>2, <2>3, <2>4
<1>5. CASE size = 2
  <2>1. CASE l = 0
    <3>1. 2 \notin L /\ 3 \notin L
      BY <1>1, <1>5, <2>1
    <3>2. W = writeLane(writeLane(r0, w, data, L, 0), w, data, L, 1)
      BY <1>2, <1>3, <3>1
    <3> QED
      BY <1>5, <2>1, <3>2 DEF l, L, w, r0, W
  <2>2. CASE l = 2
    <3>1. 0 \notin L /\ 1 \notin L
      BY <1>1, <1>5, <2>2
    <3>2. W = writeLane(writeLane(r0, w, data, L, 2), w, data, L, 3)
      BY <1>2, <1>3, <3>1
    <3> QED
      BY <1>5, <2>2, <3>2 DEF l, L, w, r0, W
  <2> QED
    BY <1>1, <1>5, <2>1, <2>2
<1>6. CASE size = 4
  BY <1>1, <1>2, <1>6 DEF l, L, w, r0, W
<1> QED
  BY <1>4, <1>5, <1>6

\* The lanes of a bus word hold the bytes of an access.
Carries(data, address, size, bytes) ==
    \A k \in 1..size : data[(address % 4) + k - 1] = bytes[k]

\* Both paths of an aligned write succeed or fail together and leave the same
\* registers, whatever the time of the reference was; when that time was
\* handed over from the bus it is still the same.  A failure changes nothing.
LEMMA WritePaths ==
    ASSUME NEW size \in {1, 2, 4}, NEW address \in Nat, address % size = 0,
           isDevice(address, size),
           NEW p \in Platform, NEW q \in Platform, SameRegisters(p, q),
           NEW bytes \in [1..size -> Byte], NEW data \in Word,
           Carries(data, address, size, bytes)
    PROVE  LET bus == writeBus(p, address, data, AccessLanes(address, size))
               str == writeBytes(q, address, bytes)
           IN  /\ bus.ok = Backed(address) /\ str.ok = Backed(address)
               /\ Backed(address) =>
                    /\ WriteJoint(bus, str, p, q, address, bytes, size)
                    /\ q.mtime = bus.platform.mtime => str.platform.mtime = q.mtime
               /\ ~Backed(address) => bus.platform = p /\ str.platform = q
<1> DEFINE l == address % 4
           L == AccessLanes(address, size)
           lane(r, n) == writeLane(r, WordOf(address), data, L, l + n)
           next(s, n) == writeNext(s, address + n, bytes[n + 1])
           r0 == [ok |-> TRUE, platform |-> p]
           s0 == WriteStart(q, address, size)
           walk == WriteWalk(p, WordOf(address), data, L)
           bus == writeBus(p, address, data, L)
           str == writeBytes(q, address, bytes)
<1>0. \A k \in 1..size : data[(address % 4) + k - 1] = bytes[k]
  BY DEF Carries
<1>1. bus = [ok |-> walk.ok /\ L # {}, platform |-> walk.platform]
  BY DEF writeBus, WriteWalk
<1>l. L # {}
  <2>1. 0 \in 0..(size - 1)
    OBVIOUS
  <2>2. l + 0 \in L
    BY <2>1, LaneAddress
  <2> QED
    BY <2>2
<1>2. /\ size = 1 => walk = lane(r0, 0)
      /\ size = 2 => walk = lane(lane(r0, 0), 1)
      /\ size = 4 => walk = lane(lane(lane(lane(r0, 0), 1), 2), 3)
  BY StrobesVisited
<1>3. /\ size = 1 => str = next(s0, 0)
      /\ size = 2 => str = next(next(s0, 0), 1)
      /\ size = 4 => str = next(next(next(next(s0, 0), 1), 2), 3)
  <2>1. address + 0 = address /\ 0 + 1 = 1 /\ 1 + 1 = 2 /\ 2 + 1 = 3 /\ 3 + 1 = 4
    OBVIOUS
  <2>2. ASSUME NEW s
        PROVE  /\ next(s, 0) = writeNext(s, address, bytes[1])
               /\ next(s, 1) = writeNext(s, address + 1, bytes[2])
               /\ next(s, 2) = writeNext(s, address + 2, bytes[3])
               /\ next(s, 3) = writeNext(s, address + 3, bytes[4])
    BY <2>1
  <2> HIDE DEF next
  <2>3. size \in 1..4 /\ Len(bytes) = size
    OBVIOUS
  <2>4. /\ size = 1 => str = writeNext(s0, address, bytes[1])
        /\ size = 2 => str = writeNext(writeNext(s0, address, bytes[1]), address + 1, bytes[2])
        /\ size = 4 => str = writeNext(writeNext(writeNext(writeNext(s0, address, bytes[1]),
                                address + 1, bytes[2]), address + 2, bytes[3]), address + 3, bytes[4])
    <3> HIDE DEF lane, r0, L, l, walk, bus
    <3>1. CASE size = 1
      BY <2>3, <3>1, WriteUnrolled
    <3>2. CASE size = 2
      BY <2>3, <3>2, WriteUnrolled
    <3>3. CASE size = 4
      BY <2>3, <3>3, WriteUnrolled
    <3> QED
      BY <3>1, <3>2, <3>3
  <2> HIDE DEF str, s0
  <2> QED
    BY <2>2, <2>4
<1>4. CASE Backed(address)
  <2>1. WriteJoint(r0, s0, p, q, address, bytes, 0)
    <3>1. r0.ok = TRUE /\ s0.ok = TRUE /\ r0.platform = p /\ s0.platform = q
      BY DEF WriteStart, isDevice, contains, isWriteCombine
    <3>2. 0..(0 - 1) = {}
      OBVIOUS
    <3> HIDE DEF r0, s0
    <3> QED
      BY <3>1, <3>2 DEF WriteJoint
  <2>2. ASSUME NEW n \in 0..(size - 1), NEW r, NEW s, WriteJoint(r, s, p, q, address, bytes, n)
        PROVE  WriteJoint(lane(r, n), next(s, n), p, q, address, bytes, n + 1)
    BY <1>0, <1>4, <2>2, WriteJointStep
  <2> HIDE DEF lane, next, r0, s0, bus, str, walk, L, l
  <2>3. WriteJoint(lane(r0, 0), next(s0, 0), p, q, address, bytes, 1)
    <3>1. 0 \in 0..(size - 1) /\ 0 + 1 = 1
      OBVIOUS
    <3> QED
      BY <2>1, <2>2, <3>1
  <2>4. size # 1 => WriteJoint(lane(lane(r0, 0), 1), next(next(s0, 0), 1), p, q, address, bytes, 2)
    <3>1. size # 1 => 1 \in 0..(size - 1) /\ 1 + 1 = 2
      OBVIOUS
    <3> QED
      BY <2>2, <2>3, <3>1
  <2>5. size = 4 => WriteJoint(lane(lane(lane(lane(r0, 0), 1), 2), 3),
                               next(next(next(next(s0, 0), 1), 2), 3), p, q, address, bytes, 4)
    <3> SUFFICES ASSUME size = 4
                 PROVE  WriteJoint(lane(lane(lane(lane(r0, 0), 1), 2), 3),
                                   next(next(next(next(s0, 0), 1), 2), 3), p, q, address, bytes, 4)
      OBVIOUS
    <3>1. 2 \in 0..(size - 1) /\ 3 \in 0..(size - 1) /\ 2 + 1 = 3 /\ 3 + 1 = 4
      OBVIOUS
    <3>2. WriteJoint(lane(lane(lane(r0, 0), 1), 2), next(next(next(s0, 0), 1), 2),
                     p, q, address, bytes, 3)
      BY <2>2, <2>4, <3>1
    <3> QED
      BY <2>2, <3>1, <3>2
  <2>6. WriteJoint(walk, str, p, q, address, bytes, size)
    BY <1>2, <1>3, <2>3, <2>4, <2>5
  <2>7. bus.ok = TRUE /\ bus.platform = walk.platform
    BY <1>1, <1>l, <2>6 DEF WriteJoint
  <2>8. WriteJoint(bus, str, p, q, address, bytes, size)
    BY <2>6, <2>7 DEF WriteJoint
  <2>9. q.mtime = bus.platform.mtime => str.platform.mtime = q.mtime
    BY <2>8 DEF WriteJoint
  <2>10. Backed(address) = TRUE /\ str.ok = TRUE
    BY <1>4, <2>8 DEF Backed, InUart, WriteJoint
  <2> QED
    BY <2>7, <2>8, <2>9, <2>10 DEF bus, str, L
<1>5. CASE ~Backed(address)
  <2>0. Backed(address) = FALSE
    BY <1>5 DEF Backed, InUart
  <2>1. lane(r0, 0) = [ok |-> FALSE, platform |-> p]
    <3>1. l + 0 \in L /\ WordOf(address) + (l + 0) = address
      <4>1. 0 \in 0..(size - 1)
        OBVIOUS
      <4>2. l + 0 \in L
        BY <4>1, LaneAddress
      <4>3. WordOf(address) + (l + 0) = address
        BY DEF WordOf
      <4> QED
        BY <4>2, <4>3
    <3> QED
      BY <2>0, <3>1, ZenonT(60) DEF writeLane, writeByte
  <2>2. next(s0, 0) = [ok |-> FALSE, platform |-> q]
    <3>1. s0.ok = TRUE /\ s0.platform = q /\ address + 0 = address
      BY DEF WriteStart, isDevice, contains, isWriteCombine
    <3> HIDE DEF s0
    <3> QED
      BY <2>0, <3>1 DEF writeNext, writeByte
  <2>3. ASSUME NEW r, NEW n, r.ok = FALSE PROVE lane(r, n) = r
    BY <2>3 DEF writeLane
  <2>4. ASSUME NEW s, NEW n, s.ok = FALSE PROVE next(s, n) = s
    BY <2>4 DEF writeNext
  <2> DEFINE rf == [ok |-> FALSE, platform |-> p]
             sf == [ok |-> FALSE, platform |-> q]
  <2>5. rf.ok = FALSE /\ sf.ok = FALSE
    OBVIOUS
  <2> HIDE DEF lane, next, r0, s0, bus, str, walk, L, l, rf, sf
  <2>6. \A n : lane(rf, n) = rf /\ next(sf, n) = sf
    BY <2>3, <2>4, <2>5
  <2>7. lane(r0, 0) = rf /\ next(s0, 0) = sf
    BY <2>1, <2>2 DEF rf, sf
  <2>8. walk = rf /\ str = sf
    BY <1>2, <1>3, <2>6, <2>7
  <2>9. bus.ok = FALSE /\ bus.platform = p /\ str.ok = FALSE /\ str.platform = q
    BY <1>1, <2>8 DEF rf, sf
  <2> QED
    BY <2>0, <2>9 DEF bus, str, L
<1> QED
  BY <1>4, <1>5

\* A write to a word that is refused, whatever its strobes, changes nothing.
LEMMA WriteRefused ==
    ASSUME NEW address \in Nat, address % 4 = 0, isDevice(address, 4),
           NEW p \in Platform, NEW data \in Word, NEW strobe \in SUBSET Lanes
    PROVE  LET w == writeBus(p, address, data, strobe) IN w.ok \/ w.platform = p
<1> DEFINE lane(r, n) == writeLane(r, address, data, strobe, n)
           r0 == [ok |-> TRUE, platform |-> p]
           walk == lane(lane(lane(lane(r0, 0), 1), 2), 3)
           w == writeBus(p, address, data, strobe)
<1>1. WordOf(address) = address
  BY DEF WordOf
<1>2. w = [ok |-> walk.ok /\ strobe # {}, platform |-> walk.platform]
  BY <1>1 DEF writeBus
<1>3. \A n \in 0..3 : Backed(address + n) = Backed(address)
  BY AccessBacked
<1>4. CASE Backed(address) /\ strobe # {}
  <2> DEFINE Ok(r) == r.ok = TRUE
  <2>1. ASSUME NEW r, NEW n \in 0..3, Ok(r) PROVE Ok(lane(r, n))
    <3>1. Backed(address + n) = TRUE
      BY <1>3, <1>4 DEF Backed, InUart
    <3> QED
      BY <2>1, <3>1 DEF writeLane, writeByte
  <2>2. Ok(r0)
    OBVIOUS
  <2> HIDE DEF lane, r0, Ok
  <2>3. Ok(lane(r0, 0))
    BY <2>1, <2>2
  <2>4. Ok(lane(lane(r0, 0), 1))
    BY <2>1, <2>3
  <2>5. Ok(lane(lane(lane(r0, 0), 1), 2))
    BY <2>1, <2>4
  <2>6. Ok(walk)
    BY <2>1, <2>5
  <2> HIDE DEF walk
  <2>7. w.ok = TRUE
    <3>1. (walk.ok /\ strobe # {}) = TRUE
      BY <1>4, <2>6 DEF Ok
    <3> HIDE DEF w
    <3> QED
      BY <1>2, <3>1
  <2> QED
    BY <2>7
<1>5. CASE ~Backed(address) \/ strobe = {}
  <2>1. ASSUME NEW r, NEW n \in 0..3, r.platform = p PROVE lane(r, n).platform = p
    <3>1. n \in strobe => Backed(address + n) = FALSE
      BY <1>3, <1>5 DEF Backed, InUart
    <3> QED
      BY <2>1, <3>1 DEF writeLane, writeByte
  <2>2. r0.platform = p
    OBVIOUS
  <2> HIDE DEF lane, r0
  <2>3. walk.platform = p
    BY <2>1, <2>2
  <2> QED
    BY <1>2, <2>3
<1> QED
  BY <1>4, <1>5

(***************************************************************************)
(* Accesses of one byte                                                    *)
(***************************************************************************)

\* Both paths of a read of one byte are readByte.
LEMMA ByteRead ==
    ASSUME NEW p \in Platform, NEW address \in Nat, isDevice(address, 1)
    PROVE  /\ readBus(p, address, 1).data[address % 4] = readByte(p, address).value
           /\ readBus(p, address, 1).platform = readByte(p, address).platform
           /\ readBytes(p, address, 1).bytes[1] = readByte(p, address).value
           /\ readBytes(p, address, 1).platform = readByte(p, address).platform
<1> DEFINE l == address % 4
           b == readByte(p, address)
           r0 == [ok |-> TRUE, data |-> ZeroWord, platform |-> p]
<1>1. l \in Lanes /\ l + 0 = l /\ WordOf(address) + l = address /\ l \in AccessLanes(address, 1)
      /\ address % 1 = 0
  BY DEF Lanes, WordOf, AccessLanes
<1>2. readBus(p, address, 1) = readWord(p, WordOf(address), AccessLanes(address, 1))
  BY <1>1 DEF readBus
<1>3. readBus(p, address, 1) = readLane(r0, WordOf(address), AccessLanes(address, 1), l)
  BY <1>1, <1>2, LanesVisited
<1>4. readBus(p, address, 1) =
        [ok |-> b.ok, data |-> [ZeroWord EXCEPT ![l] = b.value], platform |-> b.platform]
  BY <1>1, <1>3 DEF readLane
<1>5. readBytes(p, address, 1) = readNext(ReadStart(p, address, 1), address)
  BY ReadUnrolled
<1> DEFINE s0 == ReadStart(p, address, 1)
           str == readBytes(p, address, 1)
           bus == readBus(p, address, 1)
<1>6. s0.ok = TRUE /\ s0.bytes = <<>> /\ s0.platform = p
  BY DEF ReadStart, isDevice, contains, isWriteCombine
<1> HIDE DEF s0
<1>7. str = [ok |-> b.ok, bytes |-> Append(s0.bytes, b.value), platform |-> b.platform]
  BY <1>5, <1>6 DEF readNext, s0
<1> HIDE DEF b, l, str, bus
<1>8. str.bytes = Append(<<>>, b.value) /\ str.platform = b.platform
  BY <1>6, <1>7
<1>9. b.value \in Byte
  BY ReadByteType DEF b
<1>10. str.bytes[1] = b.value
  <2>1. Append(<<>>, b.value)[1] = b.value
    OBVIOUS
  <2> QED
    BY <1>8, <2>1
<1> DEFINE word == [ZeroWord EXCEPT ![l] = b.value]
<1>11. bus = [ok |-> b.ok, data |-> word, platform |-> b.platform]
  BY <1>4 DEF bus
<1>12. word[l] = b.value
  BY <1>1 DEF ZeroWord
<1> HIDE DEF word
<1>13. bus.data = word /\ bus.platform = b.platform
  BY <1>11
<1>14. bus.data[l] = b.value
  BY <1>13, <1>12
<1> QED
  BY <1>8, <1>10, <1>13, <1>14 DEF b, l, str, bus

\* Both paths of a write of one byte are writeByte.
LEMMA ByteWrite ==
    ASSUME NEW p \in Platform, NEW address \in Nat, isDevice(address, 1), NEW v \in Byte
    PROVE  /\ writeBus(p, address, [lane \in Lanes |-> v], {address % 4}).platform
                = writeByte(p, address, v).platform
           /\ writeBytes(p, address, <<v>>).platform = writeByte(p, address, v).platform
<1> DEFINE l == address % 4
           L == AccessLanes(address, 1)
           data == [lane \in Lanes |-> v]
           b == writeByte(p, address, v)
           r0 == [ok |-> TRUE, platform |-> p]
           walk == WriteWalk(p, WordOf(address), data, L)
<1>1. l \in Lanes /\ l + 0 = l /\ WordOf(address) + l = address /\ l \in L /\ L = {l}
      /\ address % 1 = 0
  BY DEF Lanes, WordOf, AccessLanes
<1>2. writeBus(p, address, data, L).platform = walk.platform
  BY DEF writeBus, WriteWalk
<1>3. walk = writeLane(r0, WordOf(address), data, L, l)
  BY <1>1, StrobesVisited
<1>4. walk = [ok |-> b.ok, platform |-> b.platform]
  BY <1>1, <1>3 DEF writeLane
<1>5. writeBytes(p, address, <<v>>) = writeNext(WriteStart(p, address, 1), address, <<v>>[1])
  <2>1. Len(<<v>>) = 1 /\ 1 \in 1..4
    OBVIOUS
  <2> QED
    BY <2>1, WriteUnrolled
<1>6. WriteStart(p, address, 1) = [ok |-> TRUE, platform |-> p]
  BY DEF WriteStart, isDevice, contains, isWriteCombine
<1>7. writeBytes(p, address, <<v>>) = [ok |-> b.ok, platform |-> b.platform]
  BY <1>5, <1>6 DEF writeNext
<1> HIDE DEF b, l, L, data, walk
<1> QED
  BY <1>1, <1>2, <1>4, <1>7 DEF b, l, L, data

\* What a read leaves in the input queue.
LEMMA ReadInput ==
    ASSUME NEW p \in Platform, NEW address
    PROVE  readByte(p, address).platform.input = InputAfter(p, address)
  BY DEF readByte, InputAfter, Platform

\* A read of a timer register depends on the timer, any other on the UART.
LEMMA ReadValue ==
    ASSUME NEW p \in Platform, NEW q \in Platform, NEW address \in Nat, SameRegisters(p, q),
           InClint(address) /\ MtimeByte(address) \in TimerBytes =>
             ByteOf(p.mtime, MtimeByte(address)) = ByteOf(q.mtime, MtimeByte(address)),
           ~InClint(address) /\ address - Uart.base \in {0, 5} => p.input = q.input
    PROVE  readByte(p, address).value = readByte(q, address).value
<1>1. CASE InClint(address)
  BY <1>1 DEF readByte, SameRegisters
<1>2. CASE ~InClint(address)
  <2>1. Dlab(p) = Dlab(q) /\ (address - Uart.base = 5 => LineStatus(p) = LineStatus(q))
    BY <1>2 DEF Dlab, LineStatus, SameRegisters
  <2>2. UartRegister(p, address - Uart.base) = UartRegister(q, address - Uart.base)
    BY <1>2, <2>1 DEF UartRegister, SameRegisters
  <2> QED
    BY <1>2, <2>2 DEF readByte
<1> QED
  BY <1>1, <1>2

(***************************************************************************)
(* The timer, the terminal and the reference clock                         *)
(***************************************************************************)

\* Handing a time over keeps everything else.
LEMMA TimeSet ==
    ASSUME NEW p \in Platform, NEW t \in Time
    PROVE  LET q == setTime(p, t)
           IN  /\ q \in Platform /\ q.mtime = t /\ SameRegisters(q, p)
               /\ q.input = p.input /\ q.output = p.output /\ q.subcycle = p.subcycle
  BY DEF setTime, Platform, SameRegisters

\* The timer advances by at most one step and never goes back.
LEMMA Ticked ==
    ASSUME NEW p \in Platform
    PROVE  LET q == tick(p)
           IN  /\ q \in Platform /\ q.mtime >= p.mtime /\ SameRegisters(q, p)
               /\ q.input = p.input /\ q.output = p.output
<1>0. p.mtime \in Time /\ p.subcycle \in 0..(TimerDivider - 1)
  BY DEF Platform
<1>1. TimeMax \in Int /\ TimerDivider \in Nat \ {0} /\ p.mtime \in Nat
  BY <1>0, PlatformAssumption, PowerAssumption DEF Platform, TimeMax, Time
<1> DEFINE t == IF p.mtime = TimeMax THEN p.mtime ELSE p.mtime + 1
<1>2. t \in Time /\ t >= p.mtime
  BY <1>0, <1>1 DEF Time
<1>3. CASE p.subcycle + 1 # TimerDivider
  <2>1. tick(p) = [p EXCEPT !.subcycle = p.subcycle + 1]
    BY <1>3 DEF tick
  <2>2. p.subcycle + 1 \in 0..(TimerDivider - 1)
    BY <1>0, <1>1, <1>3
  <2> QED
    BY <1>1, <2>1, <2>2 DEF Platform, SameRegisters
<1>4. CASE p.subcycle + 1 = TimerDivider
  <2>1. tick(p) = [p EXCEPT !.subcycle = 0, !.mtime = t]
    BY <1>4 DEF tick, Platform
  <2>2. 0 \in 0..(TimerDivider - 1)
    BY <1>1
  <2> HIDE DEF t
  <2> QED
    BY <1>2, <2>1, <2>2 DEF Platform, SameRegisters
<1> QED
  BY <1>3, <1>4

\* Typed bytes go to the end of the queue.
LEMMA InputAppended ==
    ASSUME NEW p \in Platform, NEW input \in Seq(Byte)
    PROVE  LET q == appendUartInput(p, input)
           IN  /\ q \in Platform /\ SameRegisters(q, p) /\ q.mtime = p.mtime
               /\ q.input = p.input \o input
<1> DEFINE all == p.input \o input
<1>1. all \in Seq(Byte)
  BY DEF Platform
<1>2. appendUartInput(p, input) = [p EXCEPT !.input = all]
  BY DEF appendUartInput, Platform
<1> HIDE DEF all
<1> QED
  BY <1>1, <1>2 DEF Platform, SameRegisters, all
\* What an access through the receive buffer takes is what it returns.
LEMMA ReceivedByte ==
    ASSUME NEW p \in Platform, NEW address \in Nat
    PROVE  /\ PopsReceiveBuffer(p, address) <=>
                address = Uart.base /\ p.input # <<>> /\ ~Dlab(p)
           /\ PopsReceiveBuffer(p, address) => readByte(p, address).value = Head(p.input)
           /\ address = Uart.base => address % 4 = 0
<1>1. Uart.base \in Nat /\ Uart.size \in Nat /\ Uart.size > 0 /\ Uart.base % 4 = 0
  BY PlatformAssumption DEF Region
<1>2. address = Uart.base => InUart(address) /\ ~InClint(address)
  <2>1. Clint.base \in Nat /\ Clint.size \in Nat /\ Clint.size > 0 /\ Disjoint(Clint, Uart)
    BY PlatformAssumption DEF Region
  <2> QED
    BY <1>1, <2>1 DEF InUart, InClint, RegionEnd, Disjoint
<1>3. PopsReceiveBuffer(p, address) <=> address = Uart.base /\ p.input # <<>> /\ ~Dlab(p)
  BY <1>2 DEF PopsReceiveBuffer, ReceiveBuffer
<1>4. ASSUME PopsReceiveBuffer(p, address) PROVE readByte(p, address).value = Head(p.input)
  <2>1. address = Uart.base /\ p.input # <<>> /\ ~Dlab(p)
    BY <1>3, <1>4
  <2>2. address - Uart.base = 0
    BY <1>1, <2>1
  <2>3. UartRegister(p, 0) = Head(p.input)
    BY <2>1 DEF UartRegister
  <2> QED
    BY <1>2, <2>1, <2>2, <2>3 DEF readByte
<1> QED
  BY <1>1, <1>3, <1>4

(***************************************************************************)
(* Bus accesses of any size and with any strobes                           *)
(***************************************************************************)
ReadResult == [ok : BOOLEAN, data : Word, platform : Platform]

\* One lane of a read: it changes its own byte of the word, and only lane 0,
\* at the receive buffer, takes a byte from the queue.
LEMMA ReadLaneEffect ==
    ASSUME NEW r \in ReadResult, NEW word \in Nat, word % 4 = 0, NEW lanes, NEW lane \in Lanes
    PROVE  LET s == readLane(r, word, lanes, lane)
           IN  /\ s \in ReadResult
               /\ lane # 0 => s.platform.input = r.platform.input /\ s.data[0] = r.data[0]
               /\ lane = 0 /\ s.platform.input # r.platform.input =>
                    /\ 0 \in lanes /\ word = Uart.base /\ r.platform.input # <<>>
                    /\ s.platform.input = Tail(r.platform.input)
                    /\ s.data[0] = Head(r.platform.input)
               /\ r.ok /\ (lane \in lanes => Backed(word + lane)) => s.ok
<1> DEFINE b == readByte(r.platform, word + lane)
           s == readLane(r, word, lanes, lane)
<1>1. r.platform \in Platform /\ word + lane \in Nat /\ r.data \in Word /\ r.ok \in BOOLEAN
  BY DEF ReadResult, Lanes
<1>2. /\ b.ok = Backed(word + lane) /\ b.ok \in BOOLEAN /\ b.value \in Byte
      /\ b.platform \in Platform
  BY <1>1, ReadByteType
<1>3. CASE ~r.ok \/ lane \notin lanes
  <2>1. s = r
    BY <1>3 DEF readLane
  <2> QED
    BY <1>3, <2>1
<1>4. CASE r.ok /\ lane \in lanes
  <2>1. s = [ok |-> b.ok, data |-> [r.data EXCEPT ![lane] = b.value], platform |-> b.platform]
    BY <1>4 DEF readLane
  <2>2. PopsReceiveBuffer(r.platform, word + lane) =>
          word + lane = Uart.base /\ r.platform.input # <<>>
          /\ b.value = Head(r.platform.input) /\ (word + lane) % 4 = 0
    BY <1>1, ReceivedByte
  <2>3. PopsReceiveBuffer(r.platform, word + lane) => lane = 0
    <3>1. (word + lane) % 4 = 0 => lane = 0
      BY DEF Lanes
    <3> QED
      BY <2>2, <3>1
  <2>4. b.platform = IF PopsReceiveBuffer(r.platform, word + lane)
                     THEN [r.platform EXCEPT !.input = Tail(r.platform.input)] ELSE r.platform
    BY DEF readByte
  <2>5. /\ PopsReceiveBuffer(r.platform, word + lane) => b.platform.input = Tail(r.platform.input)
        /\ ~PopsReceiveBuffer(r.platform, word + lane) => b.platform.input = r.platform.input
    BY <1>1, <2>4 DEF Platform
  <2> HIDE DEF b
  <2>6. [r.data EXCEPT ![lane] = b.value] \in Word
    BY <1>1, <1>2 DEF Word
  <2>7. /\ lane # 0 => [r.data EXCEPT ![lane] = b.value][0] = r.data[0]
        /\ lane = 0 => [r.data EXCEPT ![lane] = b.value][0] = b.value
    BY <1>1 DEF Word, Lanes
  <2> DEFINE d == [r.data EXCEPT ![lane] = b.value]
  <2>8. /\ s.ok = b.ok /\ s.data = d /\ s.platform = b.platform
        /\ s = [ok |-> b.ok, data |-> d, platform |-> b.platform]
    BY <2>1
  <2> HIDE DEF d, s
  <2>9. s \in ReadResult
    BY <1>2, <2>6, <2>8 DEF ReadResult, d
  <2>10. lane = 0 => word + lane = word
    OBVIOUS
  <2>11. /\ lane # 0 => d[0] = r.data[0]
         /\ lane = 0 => d[0] = b.value
    BY <2>7 DEF d
  <2> QED
    BY <1>2, <1>4, <2>2, <2>3, <2>5, <2>8, <2>9, <2>10, <2>11 DEF s
<1> QED
  BY <1>1, <1>3, <1>4

\* A read of the bus is well typed, and the byte it takes from the queue, if it
\* takes one, is in lane 0 of a read that succeeds.
LEMMA BusRead ==
    ASSUME NEW p \in Platform, NEW address \in Nat, NEW size \in Nat
    PROVE  LET bus == readBus(p, address, size)
           IN  /\ bus \in ReadResult
               /\ bus.platform.input # p.input =>
                    /\ bus.ok /\ p.input # <<>>
                    /\ bus.platform.input = Tail(p.input) /\ bus.data[0] = Head(p.input)
<1> DEFINE word == WordOf(address)
           lanes == AccessLanes(address, size)
           r0 == [ok |-> TRUE, data |-> ZeroWord, platform |-> p]
           r1 == readLane(r0, word, lanes, 0)
           r2 == readLane(r1, word, lanes, 1)
           r3 == readLane(r2, word, lanes, 2)
           r4 == readLane(r3, word, lanes, 3)
           bus == readBus(p, address, size)
<1>1. ZeroWord \in Word
  BY PlatformAssumption DEF ZeroWord, Word, Byte
<1>2. r0 \in ReadResult /\ r0.ok /\ r0.platform = p
  BY <1>1 DEF ReadResult
<1>3. CASE ~(size \in 1..4 /\ address % size = 0 /\ isDevice(address, size))
  <2>1. bus = [ok |-> FALSE, data |-> ZeroWord, platform |-> p]
    BY <1>3 DEF readBus
  <2> QED
    BY <1>1, <2>1 DEF ReadResult
<1>4. CASE size \in 1..4 /\ address % size = 0 /\ isDevice(address, size)
  <2>1. bus = r4
    BY <1>4 DEF readBus, readWord
  <2>2. word \in Nat /\ word % 4 = 0 /\ address = word + (address % 4) /\ address % 4 \in 0..3
    BY DEF WordOf
  <2> HIDE DEF r0, word, lanes
  <2>3. 0 \in Lanes /\ 1 \in Lanes /\ 2 \in Lanes /\ 3 \in Lanes
    BY DEF Lanes
  <2>4. /\ r1 \in ReadResult
        /\ r1.platform.input # p.input =>
             /\ 0 \in lanes /\ word = Uart.base /\ p.input # <<>>
             /\ r1.platform.input = Tail(p.input) /\ r1.data[0] = Head(p.input)
        /\ (0 \in lanes => Backed(word + 0)) => r1.ok
    BY <1>2, <2>2, <2>3, ReadLaneEffect
  <2> HIDE DEF r1
  <2>5. /\ r2 \in ReadResult
        /\ r2.platform.input = r1.platform.input /\ r2.data[0] = r1.data[0]
        /\ r1.ok /\ (1 \in lanes => Backed(word + 1)) => r2.ok
    BY <2>2, <2>3, <2>4, ReadLaneEffect
  <2> HIDE DEF r2
  <2>6. /\ r3 \in ReadResult
        /\ r3.platform.input = r2.platform.input /\ r3.data[0] = r2.data[0]
        /\ r2.ok /\ (2 \in lanes => Backed(word + 2)) => r3.ok
    BY <2>2, <2>3, <2>5, ReadLaneEffect
  <2> HIDE DEF r3
  <2>7. /\ r4 \in ReadResult
        /\ r4.platform.input = r3.platform.input /\ r4.data[0] = r3.data[0]
        /\ r3.ok /\ (3 \in lanes => Backed(word + 3)) => r4.ok
    BY <2>2, <2>3, <2>6, ReadLaneEffect
  <2> HIDE DEF r4
  <2>8. ASSUME 0 \in lanes, word = Uart.base, NEW lane \in Lanes, lane \in lanes
        PROVE  Backed(word + lane)
    <3>1. address % 4 = 0 /\ address = word /\ lane <= size - 1
      BY <1>4, <2>2, <2>8 DEF lanes, AccessLanes, Lanes
    <3>2. /\ Clint.base \in Nat /\ Clint.size \in Nat /\ Uart.base \in Nat /\ Uart.size \in Nat
          /\ Uart.size > 0 /\ Disjoint(Clint, Uart) /\ Clint.size > 0
      BY PlatformAssumption DEF Region
    <3>3. contains(address, size, Uart)
      BY <1>4, <2>8, <3>1, <3>2 DEF isDevice, contains, RegionEnd, Disjoint
    <3>4. InUart(word + lane) /\ ~InClint(word + lane)
      BY <1>4, <2>8, <3>1, <3>2, <3>3 DEF contains, RegionEnd, Disjoint, InUart, InClint, Lanes
    <3> QED
      BY <3>4 DEF Backed
  <2> QED
    BY <2>1, <2>3, <2>4, <2>5, <2>6, <2>7, <2>8
<1> QED
  BY <1>3, <1>4

WriteResult == [ok : BOOLEAN, platform : Platform]

\* One lane of a write leaves the input queue alone.
LEMMA WriteLaneEffect ==
    ASSUME NEW r \in WriteResult, NEW word \in Nat, NEW data \in Word, NEW strobe, NEW lane \in Lanes
    PROVE  LET s == writeLane(r, word, data, strobe, lane)
           IN  s \in WriteResult /\ s.platform.input = r.platform.input
<1>1. r.platform \in Platform /\ word + lane \in Nat /\ data[lane] \in Byte
  BY DEF WriteResult, Word, Lanes
<1>2. LET w == writeByte(r.platform, word + lane, data[lane])
      IN  w.ok \in BOOLEAN /\ w.platform \in Platform /\ w.platform.input = r.platform.input
  BY <1>1, WriteByteType
<1> QED
  BY <1>2 DEF writeLane, WriteResult

\* So does a write of the bus, which is well typed whatever its strobes.
LEMMA BusWrite ==
    ASSUME NEW p \in Platform, NEW address \in Nat, NEW data \in Word, NEW strobe
    PROVE  LET bus == writeBus(p, address, data, strobe)
           IN  bus \in WriteResult /\ bus.platform.input = p.input
<1> DEFINE word == WordOf(address)
           r0 == [ok |-> TRUE, platform |-> p]
           r1 == writeLane(r0, word, data, strobe, 0)
           r2 == writeLane(r1, word, data, strobe, 1)
           r3 == writeLane(r2, word, data, strobe, 2)
           r4 == writeLane(r3, word, data, strobe, 3)
<1>1. word \in Nat /\ r0 \in WriteResult /\ r0.platform = p
  BY DEF WordOf, WriteResult
<1>2. 0 \in Lanes /\ 1 \in Lanes /\ 2 \in Lanes /\ 3 \in Lanes
  BY DEF Lanes
<1>3. writeBus(p, address, data, strobe) = [ok |-> r4.ok /\ strobe # {}, platform |-> r4.platform]
  BY DEF writeBus
<1> HIDE DEF word, r0
<1>4. r1 \in WriteResult /\ r1.platform.input = p.input
  BY <1>1, <1>2, WriteLaneEffect
<1> HIDE DEF r1
<1>5. r2 \in WriteResult /\ r2.platform.input = p.input
  BY <1>1, <1>2, <1>4, WriteLaneEffect
<1> HIDE DEF r2
<1>6. r3 \in WriteResult /\ r3.platform.input = p.input
  BY <1>1, <1>2, <1>5, WriteLaneEffect
<1> HIDE DEF r3
<1>7. r4 \in WriteResult /\ r4.platform.input = p.input
  BY <1>1, <1>2, <1>6, WriteLaneEffect
<1> HIDE DEF r4
<1> QED
  BY <1>3, <1>7 DEF WriteResult
=============================================================================
