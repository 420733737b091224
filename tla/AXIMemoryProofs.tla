--------------------------- MODULE AXIMemoryProofs ---------------------------
(***************************************************************************)
(* Proofs about the AXI slave, for every address map, bus width, set of    *)
(* requests and number of bursts.                                          *)
(***************************************************************************)
EXTENDS AXIMemory, PlatformDevicesProofs, WellFoundedInduction

(* The inductive invariant of the control state.  SlotsExclusive is not    *)
(* inductive by itself: that a beat marked last ends the burst needs       *)
(* BeatsAgree, and both need the types of the control variables.           *)
ControlInv == ControlTypeOK /\ SlotsExclusive /\ BeatsAgree

\* An idle data channel is well typed.
LEMMA ZeroDataType == ZeroData \in BusData /\ NoData \in
    [valid : BOOLEAN, data : BusData, strobe : SUBSET (0..(BusBytes - 1)), last : BOOLEAN]
BY PlatformAssumption DEF ZeroData, BusData, ZeroWord, Word, Byte, NoData, BusBytes

\* The power-on state satisfies the control invariant.
LEMMA InitControl == Init => ControlInv
<1> SUFFICES ASSUME Init PROVE ControlInv
  OBVIOUS
<1>1. ControlTypeOK
  BY ZeroDataType DEF Init, ControlTypeOK, Request, NoRead, NoPins, Idle, IdleWrite, Transaction,
     ReadIds, Response
<1>2. SlotsExclusive
  BY DEF Init, SlotsExclusive, Idle, IdleWrite
<1>3. BeatsAgree
  BY DEF Init, BeatsAgree, NoRead, NoData, IdleWrite, InFlight
<1> QED BY <1>1, <1>2, <1>3 DEF ControlInv

\* Terminal input between cycles touches nothing of the handshakes.
LEMMA AppendInputControl ==
    ASSUME ControlInv, NEW byte \in Byte, AppendInput(byte)
    PROVE  ControlInv'
BY DEF AppendInput, ControlInv, ControlTypeOK, SlotsExclusive, BeatsAgree, InFlight,
   arFires, awFires, wFires, core, readChannel, writeHistory

\* A read beat answers OKAY or DECERR.
LEMMA ReadBeatResponse == \A read : ReadBeat(read).response \in Response
BY DEF ReadBeat, Response

\* drive: the pins describe the slots, and at most one beat is latched.
LEMMA DriveControl ==
    ASSUME ControlInv, NEW random \in Randoms, Drive(random)
    PROVE  ControlInv'
<1> USE DEF ControlInv, Drive
<1>1. /\ readDataValid' \in BOOLEAN /\ readSelectedId' \in ReadIds /\ readResponse' \in Response
      /\ readDataValid' => reads[readSelectedId'].active
  <2>1. CASE CanLatch /\ LatchBeat
    <3>1. Serving \in ReadIds /\ reads[Serving].active
      BY <2>1 DEF CanLatch, Serving, ReadIds, ControlTypeOK, Transaction
    <3>2. readResponse' \in Response
      BY <2>1, ReadBeatResponse DEF LatchBeat
    <3> QED BY <2>1, <3>1, <3>2 DEF LatchBeat
  <2>2. CASE UNCHANGED readChannel
    BY <2>2 DEF readChannel, ControlTypeOK, SlotsExclusive
  <2> QED BY <2>1, <2>2
<1>2. /\ pins' \in [ar_ready : BOOLEAN, r_valid : BOOLEAN, aw_ready : BOOLEAN,
                    w_ready : BOOLEAN, b_valid : BOOLEAN]
      /\ pins'.ar_ready => ~reads[ar.id].active
      /\ pins'.aw_ready => ~write.active /\ ~write.responseValid
      /\ pins'.w_ready => write.active
      /\ pins'.r_valid = readDataValid' /\ pins'.b_valid = write.responseValid
  BY <1>1 DEF ComputePins, ControlTypeOK, Randoms, Transaction
<1>3. ControlTypeOK'
  BY <1>1, <1>2 DEF ControlTypeOK, core
<1>4. SlotsExclusive'
  BY <1>1, <1>2 DEF SlotsExclusive, core, arFires, awFires, wFires
<1>5. BeatsAgree'
  BY DEF BeatsAgree, core, InFlight
<1> QED BY <1>3, <1>4, <1>5

\* A burst that is advanced stays within its length.
LEMMA NextBeatType ==
    ASSUME NEW r \in Transaction, r.beat <= r.length
    PROVE  NextBeat(r) \in Transaction /\ NextBeat(r).beat <= NextBeat(r).length
<1>1. CASE r.beat = r.length
  BY <1>1 DEF NextBeat, Transaction
<1>2. CASE r.beat # r.length
  <2> DEFINE s == [r EXCEPT !.beat = r.beat + 1]
  <2>1. s \in Transaction /\ s.beat <= s.length /\ s.address = r.address
    BY <1>2 DEF Transaction
  <2> HIDE DEF s
  <2>2. r.address + r.size \in Nat
    BY DEF Transaction
  <2>3. [s EXCEPT !.address = r.address + r.size] \in Transaction
    BY <2>1, <2>2 DEF Transaction
  <2>4. /\ [s EXCEPT !.address = r.address + r.size].beat = s.beat
        /\ [s EXCEPT !.address = r.address + r.size].length = s.length
    BY <2>1 DEF Transaction
  <2>5. NextBeat(r) = [s EXCEPT !.address = r.address + r.size]
    BY <1>2 DEF NextBeat, s
  <2> QED BY <2>1, <2>3, <2>4, <2>5
<1> QED BY <1>1, <1>2

(* After the read side of a cycle every transaction is well formed and an  *)
(* offered beat still belongs to an active burst.                          *)
LEMMA UpdateReadControl ==
    ASSUME ControlInv, NEW rReady \in BOOLEAN, phase = "update", UpdateRead(rReady)
    PROVE  /\ reads' \in [ReadIds -> Transaction]
           /\ readDataValid' \in BOOLEAN
           /\ readSelectedId' = readSelectedId /\ readResponse' = readResponse
           /\ readDataValid' => reads'[readSelectedId'].active
           /\ \A id \in ReadIds : reads'[id].beat <= reads'[id].length
<1> USE DEF ControlInv, ControlTypeOK, Transaction, Request
<1>1. AcceptRead(reads) \in [ReadIds -> Transaction]
  BY DEF AcceptRead, arFires
<1>2. \A id \in ReadIds : AcceptRead(reads)[id].beat <= AcceptRead(reads)[id].length
  BY DEF AcceptRead, arFires, SlotsExclusive
<1>3. \A id \in ReadIds : reads[id].active => AcceptRead(reads)[id] = reads[id]
  BY DEF AcceptRead, SlotsExclusive
<1>5. CASE rFires(rReady)
  BY <1>1, <1>2, <1>5, NextBeatType DEF UpdateRead
<1>6. CASE ~rFires(rReady)
  BY <1>1, <1>2, <1>3, <1>6 DEF UpdateRead, SlotsExclusive
<1> QED BY <1>5, <1>6

\* A write beat keeps or sets a legal response.
LEMMA WriteBeatResponse ==
    ASSUME NEW wr, wr.response \in Response
    PROVE  WriteBeat(wr).response \in Response
BY DEF WriteBeat, Response

(* At most one of the three write handshakes happens in a cycle.           *)
LEMMA UpdateWriteCases ==
    ASSUME ControlInv, NEW bReady \in BOOLEAN, phase = "update", UpdateWrite(bReady)
    PROVE  \/ /\ awFires /\ ~wFires /\ ~write.active /\ ~write.responseValid
              /\ write' = AcceptWrite(write)
           \/ /\ wFires /\ ~awFires /\ write.active /\ ~write.responseValid
              /\ \E response \in Response : write' = AfterBeat(write, response)
           \/ /\ ~awFires /\ ~wFires /\ write.responseValid
              /\ write' = [write EXCEPT !.responseValid = FALSE]
           \/ ~awFires /\ ~wFires /\ write' = write
<1> USE DEF ControlInv
<1>1. /\ awFires => ~write.active /\ ~write.responseValid
      /\ wFires => write.active
      /\ pins.b_valid = write.responseValid
      /\ ~(write.active /\ write.responseValid)
  BY DEF SlotsExclusive
<1>2. CASE awFires
  <2>1. ~wFires /\ ~bFires(bReady)
    BY <1>1, <1>2 DEF bFires
  <2> QED BY <1>1, <1>2, <2>1 DEF UpdateWrite
<1>3. CASE wFires
  <2>1. ~awFires /\ ~bFires(bReady) /\ AcceptWrite(write) = write
    BY <1>1, <1>3 DEF bFires, AcceptWrite
  <2>2. WriteBeat(write).response \in Response
    BY WriteBeatResponse DEF ControlTypeOK
  <2>3. write' = AfterBeat(write, WriteBeat(write).response)
    BY <1>3, <2>1 DEF UpdateWrite
  <2> QED BY <1>1, <1>3, <2>1, <2>2, <2>3
<1>4. CASE ~awFires /\ ~wFires
  <2>1. AcceptWrite(write) = write
    BY <1>4 DEF AcceptWrite
  <2> QED BY <1>1, <1>4, <2>1 DEF UpdateWrite, bFires
<1> QED BY <1>2, <1>3, <1>4

WriteTransaction == [active : BOOLEAN, responseValid : BOOLEAN, address : Nat, size : Nat,
                     length : Nat, beat : Nat, id : Nat, response : Response]

\* After a write beat the burst goes on, or ends with its response.
LEMMA AfterBeatType ==
    ASSUME NEW wr \in WriteTransaction, NEW response \in Response,
           ~wr.responseValid, wr.active, wr.beat <= wr.length, wd.last \in BOOLEAN
    PROVE  LET next == AfterBeat(wr, response)
               ends == wd.last \/ wr.beat = wr.length
           IN  /\ next \in WriteTransaction
               /\ next.active = ~ends /\ next.responseValid = ends
               /\ next.length = wr.length
               /\ ~ends => next.beat = wr.beat + 1
<1> DEFINE a == [[wr EXCEPT !.active = FALSE] EXCEPT !.responseValid = TRUE]
           b == [[wr EXCEPT !.beat = wr.beat + 1] EXCEPT !.address = wr.address + wr.size]
<1>1. /\ a \in WriteTransaction /\ ~a.active /\ a.responseValid /\ a.length = wr.length
  BY DEF WriteTransaction
<1>2. /\ b \in WriteTransaction /\ b.active /\ ~b.responseValid /\ b.length = wr.length
      /\ b.beat = wr.beat + 1
  <2> DEFINE c == [wr EXCEPT !.beat = wr.beat + 1]
  <2>1. /\ c \in WriteTransaction /\ c.active /\ ~c.responseValid /\ c.length = wr.length
        /\ c.beat = wr.beat + 1
    BY DEF WriteTransaction
  <2>2. wr.address + wr.size \in Nat
    BY DEF WriteTransaction
  <2>3. b = [c EXCEPT !.address = wr.address + wr.size]
    OBVIOUS
  <2> HIDE DEF b, c
  <2> QED BY <2>1, <2>2, <2>3 DEF WriteTransaction
<1>3. CASE wd.last \/ wr.beat = wr.length
  <2>1. AfterBeat(wr, response) = [a EXCEPT !.response = response]
    BY <1>3 DEF AfterBeat
  <2> HIDE DEF a
  <2> QED BY <1>1, <1>3, <2>1 DEF WriteTransaction
<1>4. CASE ~(wd.last \/ wr.beat = wr.length)
  <2>1. AfterBeat(wr, response) = [b EXCEPT !.response = response]
    BY <1>4 DEF AfterBeat
  <2> HIDE DEF b
  <2> QED BY <1>2, <1>4, <2>1 DEF WriteTransaction
<1> QED BY <1>3, <1>4

(* The write transaction, and its agreement with the core on the beats,    *)
(* after the write side of a cycle.                                        *)
LEMMA UpdateWriteControl ==
    ASSUME ControlInv, NEW bReady \in BOOLEAN, phase = "update", UpdateWrite(bReady), CoreAfter
    PROVE  /\ write' \in WriteTransaction
           /\ write'.active => write'.beat <= write'.length
           /\ ~(write'.active /\ write'.responseValid)
           /\ BeatsAgree'
<1> USE DEF ControlInv
<1>1. write \in WriteTransaction /\ aw \in Request
  BY DEF ControlTypeOK, WriteTransaction
<1>2. write.active => write.beat <= write.length
  BY DEF SlotsExclusive
<1>3. CASE awFires /\ ~wFires /\ ~write.active /\ ~write.responseValid /\ write' = AcceptWrite(write)
  <2>1. /\ write' \in WriteTransaction /\ write'.active /\ write'.beat = 0
        /\ write'.length = aw.length /\ ~write'.responseValid
    BY <1>1, <1>3 DEF AcceptWrite, WriteTransaction, Request, Response
  <2>2. aw' = NoRead /\ wd' = wd /\ owedData' = owedData /\ aw.valid
    BY <1>3 DEF CoreAfter, awFires
  <2>3. BeatsAgree'
    BY <1>1, <2>1, <2>2 DEF BeatsAgree, InFlight, NoRead, Request
  <2> QED BY <1>1, <2>1, <2>3 DEF Request
<1>4. CASE /\ wFires /\ ~awFires /\ write.active /\ ~write.responseValid
           /\ \E response \in Response : write' = AfterBeat(write, response)
  <2> PICK response \in Response : write' = AfterBeat(write, response)
    BY <1>4
  <2> DEFINE ends == wd.last \/ write.beat = write.length
  <2>1. /\ write' \in WriteTransaction
        /\ write'.active = ~ends /\ write'.responseValid = ends
        /\ write'.length = write.length
        /\ ~ends => write'.beat = write.beat + 1
    BY <1>1, <1>2, <1>4, AfterBeatType DEF ControlTypeOK
  <2>2. /\ wd.valid /\ ~aw.valid /\ owedData \in Nat
        /\ owedData + 1 = write.length - write.beat + 1
        /\ wd.last <=> owedData = 0
    BY <1>4 DEF BeatsAgree, InFlight, wFires, ControlTypeOK
  <2>3. ends <=> owedData = 0
    BY <1>1, <2>2 DEF WriteTransaction
  <2>4. aw' = aw /\ wd' = NoData /\ owedData' = owedData
    BY <1>4 DEF CoreAfter
  <2> HIDE DEF ends
  <2>5. BeatsAgree'
    BY <1>1, <2>1, <2>2, <2>3, <2>4 DEF BeatsAgree, InFlight, NoData, WriteTransaction
  <2>6. write'.active => write'.beat <= write'.length
    BY <1>1, <2>1, <2>2, <2>3 DEF WriteTransaction
  <2> QED BY <2>1, <2>5, <2>6
<1>5. CASE ~awFires /\ ~wFires /\ write' \in {write, [write EXCEPT !.responseValid = FALSE]}
  <2>1. /\ write' \in WriteTransaction /\ write'.active = write.active
        /\ write'.beat = write.beat /\ write'.length = write.length
        /\ write'.responseValid => write.responseValid
    BY <1>1, <1>5 DEF WriteTransaction
  <2>2. aw' = aw /\ wd' = wd /\ owedData' = owedData
    BY <1>5 DEF CoreAfter
  <2>3. BeatsAgree'
    BY <2>1, <2>2 DEF BeatsAgree, InFlight
  <2> QED BY <1>2, <2>1, <2>3 DEF SlotsExclusive
<1> QED BY <1>3, <1>4, <1>5, UpdateWriteCases

\* update: accepted requests find a free slot, and both sides count on.
LEMMA UpdateControl ==
    ASSUME ControlInv, NEW rReady \in BOOLEAN, NEW bReady \in BOOLEAN, Update(rReady, bReady)
    PROVE  ControlInv'
<1>1. phase = "update" /\ UpdateRead(rReady) /\ UpdateWrite(bReady) /\ CoreAfter
  BY DEF Update
<1>2. exited' \in BOOLEAN
  BY <1>1 DEF UpdateWrite, wFires, ExitReported, ControlInv, ControlTypeOK
<1>3. /\ ar' \in Request /\ (ar'.valid => ar'.id \in ReadIds) /\ aw' \in Request
      /\ wd' \in [valid : BOOLEAN, data : BusData, strobe : SUBSET (0..(BusBytes - 1)), last : BOOLEAN]
      /\ owedData' \in Nat /\ writes' \in Nat
  BY <1>1, ZeroDataType DEF CoreAfter, ControlInv, ControlTypeOK, Request, NoRead
<1>4. ControlTypeOK'
  BY <1>1, <1>2, <1>3, UpdateReadControl, UpdateWriteControl
     DEF ControlInv, ControlTypeOK, Update, NoPins, WriteTransaction
<1>5. SlotsExclusive'
  BY <1>1, UpdateReadControl, UpdateWriteControl DEF SlotsExclusive, Update
<1> QED BY <1>1, <1>4, <1>5, UpdateWriteControl DEF ControlInv

\* The clock edge: what the core raises fits what the slave still expects.
LEMMA EdgeControl ==
    ASSUME ControlInv, Edge
    PROVE  ControlInv'
<1> USE DEF ControlInv, Edge, readChannel
<1>0. /\ scenario.reads \subseteq ReadRequest /\ scenario.writes \subseteq WriteRequest
      /\ scenario.beats \subseteq [data : BusData, strobe : SUBSET (0..(BusBytes - 1))]
  BY AXIAssumption DEF ControlTypeOK, Scenario
<1>1. ar' \in Request /\ (ar'.valid => ar'.id \in ReadIds)
  <2>1. \A request \in scenario.reads : Asserted(request) \in Request /\ Asserted(request).id \in ReadIds
    BY <1>0 DEF Asserted, Request, ReadRequest, ReadIds
  <2> QED BY <2>1 DEF RaiseRead, ControlTypeOK
<1>2. /\ aw' \in Request
      /\ wd' \in [valid : BOOLEAN, data : BusData, strobe : SUBSET (0..(BusBytes - 1)), last : BOOLEAN]
      /\ owedData' \in Nat /\ writes' \in Nat
      /\ BeatsAgree'
  <2>1. CASE RaiseWrite
    <3> PICK request \in scenario.writes : aw' = Asserted(request) /\ owedData' = request.length + 1
      BY <2>1 DEF RaiseWrite
    <3>1. aw' \in Request /\ aw'.valid /\ aw'.length = request.length /\ owedData' \in Nat
      BY <1>0 DEF Asserted, Request, WriteRequest
    <3>2. wd' = wd /\ ~wd.valid /\ writes' \in Nat /\ ~aw.valid /\ owedData = 0
      BY <2>1 DEF RaiseWrite, ControlTypeOK
    <3>3. ~write.active
      BY <3>2 DEF BeatsAgree, InFlight, SlotsExclusive, ControlTypeOK
    <3> QED BY <3>1, <3>2, <3>3, <1>0 DEF BeatsAgree, InFlight, ControlTypeOK, WriteRequest
  <2>2. CASE RaiseData
    <3> PICK beat \in scenario.beats : wd' = [valid |-> TRUE, data |-> beat.data,
                                          strobe |-> beat.strobe, last |-> owedData = 1]
      BY <2>2 DEF RaiseData
    <3>1. aw' = aw /\ writes' = writes /\ owedData' = owedData - 1 /\ ~wd.valid /\ owedData > 0
      BY <2>2 DEF RaiseData
    <3>2. /\ wd' \in [valid : BOOLEAN, data : BusData, strobe : SUBSET (0..(BusBytes - 1)), last : BOOLEAN]
          /\ wd'.valid /\ (wd'.last <=> owedData = 1)
      BY <1>0
    <3>3. /\ owedData = IF aw.valid THEN aw.length + 1
                        ELSE IF write.active THEN write.length - write.beat + 1 ELSE 0
          /\ owedData \in Nat /\ owedData - 1 + 1 = owedData
      BY <3>1 DEF BeatsAgree, InFlight, ControlTypeOK
    <3>4. owedData' \in Nat /\ (wd'.last <=> owedData' = 0)
      BY <3>1, <3>2, <3>3
    <3>5. owedData' + InFlight' = owedData /\ write' = write /\ (aw.valid => ~write.active)
      BY <3>1, <3>2, <3>3 DEF InFlight, BeatsAgree
    <3>6. BeatsAgree'
      BY <3>1, <3>3, <3>4, <3>5 DEF BeatsAgree
    <3> QED BY <3>1, <3>2, <3>4, <3>6 DEF ControlTypeOK
  <2>3. CASE UNCHANGED <<aw, wd, owedData, writes>>
    BY <2>3 DEF BeatsAgree, InFlight, ControlTypeOK
  <2> QED BY <2>1, <2>2, <2>3
<1>3. ControlTypeOK'
  BY <1>1, <1>2 DEF ControlTypeOK
<1>4. SlotsExclusive'
  BY DEF SlotsExclusive
<1> QED BY <1>2, <1>3, <1>4

\* The control invariant is inductive.
LEMMA ControlStep == ControlInv /\ [Next]_vars => ControlInv'
<1> SUFFICES ASSUME ControlInv, [Next]_vars PROVE ControlInv'
  OBVIOUS
<1>1. CASE UNCHANGED vars
  BY <1>1 DEF vars, ControlInv, ControlTypeOK, SlotsExclusive, BeatsAgree, InFlight, core,
     readChannel, arFires, awFires, wFires
<1>2. CASE Next
  BY <1>1, <1>2, AppendInputControl, DriveControl, UpdateControl, EdgeControl DEF Next, Stopped
<1> QED BY <1>1, <1>2

(* The AXI slave keeps its control state well typed, its transactions in   *)
(* exclusive use of their slots, and its count of write beats equal to the *)
(* core's, whatever the core requests and however the stalls fall.         *)
THEOREM ControlCorrect == Spec => []ControlInv
BY InitControl, ControlStep, PTL DEF Spec

(* In particular an accepted request never overwrites a burst in progress, *)
(* and a response is never pending while a write burst is running.         *)
THEOREM SlotsCorrect == Spec => []SlotsExclusive
<1>1. ControlInv => SlotsExclusive
  BY DEF ControlInv
<1> QED BY <1>1, ControlCorrect, PTL

(* The core and the slave never disagree on which write beat is the last.  *)
THEOREM BeatsCorrect == Spec => []BeatsAgree
<1>1. ControlInv => BeatsAgree
  BY DEF ControlInv
<1> QED BY <1>1, ControlCorrect, PTL

(* What update does to the burst that owns the offered beat.               *)
LEMMA UpdateReadCases ==
    ASSUME ControlInv, NEW rReady \in BOOLEAN, phase = "update", UpdateRead(rReady)
    PROVE  /\ rFires(rReady) => readDataValid /\ ~readDataValid'
           /\ ~rFires(rReady) => readDataValid' = readDataValid
           /\ arFires => ar.id \in ReadIds /\ ~reads[ar.id].active
           /\ \A id \in ReadIds :
                IF rFires(rReady) /\ id = readSelectedId
                THEN reads[id].active /\ reads'[id] = NextBeat(reads[id])
                ELSE IF arFires /\ id = ar.id
                THEN reads'[id] = [active |-> TRUE, address |-> ar.address, size |-> ar.size,
                                   length |-> ar.length, beat |-> 0]
                ELSE reads'[id] = reads[id]
<1> USE DEF ControlInv, ControlTypeOK
<1>1. /\ pins.r_valid = readDataValid
      /\ readDataValid => reads[readSelectedId].active
      /\ arFires => ar.id \in ReadIds /\ ~reads[ar.id].active
  BY DEF SlotsExclusive, arFires
<1>2. /\ rFires(rReady) => readDataValid /\ ~readDataValid'
      /\ ~rFires(rReady) => readDataValid' = readDataValid
  BY <1>1 DEF UpdateRead, rFires
<1>3. \A id \in ReadIds :
        AcceptRead(reads)[id] =
          IF arFires /\ id = ar.id
          THEN [active |-> TRUE, address |-> ar.address, size |-> ar.size,
                length |-> ar.length, beat |-> 0]
          ELSE reads[id]
  BY <1>1 DEF AcceptRead
<1>4. DOMAIN AcceptRead(reads) = ReadIds
  BY DEF AcceptRead
<1>5. CASE rFires(rReady)
  <2>1. reads' = [AcceptRead(reads) EXCEPT ![readSelectedId] = NextBeat(AcceptRead(reads)[readSelectedId])]
    BY <1>5 DEF UpdateRead
  <2> QED BY <1>1, <1>2, <1>3, <1>4, <1>5, <2>1
<1>6. CASE ~rFires(rReady)
  BY <1>1, <1>2, <1>3, <1>6 DEF UpdateRead
<1> QED BY <1>5, <1>6

(* The beat on the R channel stays as it is until the core takes it.       *)
THEOREM BeatStableCorrect == Spec => OfferedBeatStable
<1> DEFINE Stable == readDataValid =>
             \/ UNCHANGED <<readChannel, LastBeat>>
             \/ phase = "update" /\ pins.r_valid /\ ~readDataValid'
<1>1. ControlInv /\ [Next]_vars => [Stable]_vars
  <2> SUFFICES ASSUME ControlInv, Next, readDataValid PROVE Stable
    OBVIOUS
  <2>1. ASSUME NEW byte \in Byte, AppendInput(byte) PROVE Stable
    BY <2>1 DEF AppendInput, LastBeat, readChannel
  <2>2. ASSUME NEW random \in Randoms, Drive(random) PROVE Stable
    BY <2>2 DEF Drive, CanLatch, LastBeat, readChannel
  <2>3. ASSUME NEW rReady \in BOOLEAN, NEW bReady \in BOOLEAN, Update(rReady, bReady) PROVE Stable
    <3>1. phase = "update" /\ UpdateRead(rReady)
      BY <2>3 DEF Update
    <3>2. CASE rFires(rReady)
      BY <3>1, <3>2, UpdateReadCases DEF rFires
    <3>3. CASE ~rFires(rReady)
      <4>1. readSelectedId \in ReadIds /\ reads[readSelectedId].active
        BY DEF ControlInv, ControlTypeOK, SlotsExclusive
      <4>2. reads'[readSelectedId] = reads[readSelectedId] /\ readDataValid' = readDataValid
        BY <3>1, <3>3, <4>1, UpdateReadCases
      <4> QED BY <3>1, <4>2 DEF UpdateRead, LastBeat, readChannel
    <3> QED BY <3>2, <3>3
  <2>4. ASSUME Edge PROVE Stable
    BY <2>4 DEF Edge, LastBeat, readChannel
  <2>5. ASSUME Stopped PROVE Stable
    BY <2>5 DEF Stopped, vars, LastBeat, readChannel
  <2> QED BY <2>1, <2>2, <2>3, <2>4, <2>5 DEF Next
<1> QED BY <1>1, ControlCorrect, PTL DEF Spec, OfferedBeatStable

(* The refinement mapping, named.                                          *)
owedBar == [id \in ReadIds |-> BeatsLeft(reads[id])]
offerBar == IF readDataValid THEN [valid |-> TRUE, id |-> readSelectedId, last |-> LastBeat]
            ELSE [valid |-> FALSE, id |-> 0, last |-> FALSE]

\* Advancing a burst pays one of the beats that are owed.
LEMMA BeatsLeftNext ==
    ASSUME NEW r \in Transaction, r.active, r.beat <= r.length
    PROVE  BeatsLeft(r) \in Nat \ {0} /\ BeatsLeft(NextBeat(r)) = BeatsLeft(r) - 1
<1>1. CASE r.beat = r.length
  BY <1>1 DEF NextBeat, Transaction, BeatsLeft
<1>2. CASE r.beat # r.length
  <2>1. /\ NextBeat(r).active = r.active /\ NextBeat(r).beat = r.beat + 1
        /\ NextBeat(r).length = r.length
    BY <1>2 DEF NextBeat, Transaction
  <2> QED BY <1>2, <2>1 DEF BeatsLeft, Transaction
<1> QED BY <1>1, <1>2

\* drive is an offer at the abstract port, or a stutter.
LEMMA DriveRefines ==
    ASSUME ControlInv, NEW random \in Randoms, Drive(random)
    PROVE  Port!Next
<1> USE DEF ControlInv, Drive
<1>1. owedBar' = owedBar
  BY DEF owedBar, BeatsLeft
<1>2. Port!WriteStep
  BY DEF Port!WriteStep, BeatsLeft
<1>3. CASE CanLatch /\ LatchBeat
  <2>1. ~readDataValid /\ readDataValid' /\ readSelectedId' = Serving
    BY <1>3 DEF CanLatch, LatchBeat
  <2>2. Serving \in ReadIds /\ reads[Serving].active
    BY <1>3 DEF CanLatch, Serving, ReadIds, ControlTypeOK, Transaction
  <2>3. owedBar[Serving] > 0 /\ (LastBeat' <=> owedBar[Serving] = 1)
    BY <2>1, <2>2 DEF owedBar, BeatsLeft, LastBeat, ControlTypeOK, Transaction, SlotsExclusive
  <2>4. offerBar' = [valid |-> TRUE, id |-> Serving, last |-> owedBar[Serving] = 1]
    BY <2>1, <2>3 DEF offerBar, LastBeat
  <2>5. Port!Offer
    BY <1>1, <2>1, <2>2, <2>3, <2>4 DEF Port!Offer, owedBar, offerBar
  <2> QED BY <1>2, <2>5 DEF Port!Next, Port!ReadStep
<1>4. CASE UNCHANGED readChannel
  <2>1. offerBar' = offerBar
    BY <1>4 DEF offerBar, LastBeat, readChannel
  <2> QED BY <1>1, <1>2, <2>1 DEF Port!Next, Port!ReadStep, owedBar, offerBar
<1> QED BY <1>3, <1>4

\* The read side of update is an exchange at the abstract port.
LEMMA UpdateReadRefines ==
    ASSUME ControlInv, NEW rReady \in BOOLEAN, phase = "update", UpdateRead(rReady)
    PROVE  Port!ReadStep
<1> DEFINE taken == rFires(rReady)
           accepted == IF arFires THEN {ar.id} ELSE {}
<1> USE DEF ControlInv
<1>0. taken \in BOOLEAN /\ accepted \in SUBSET ReadIds
  BY UpdateReadCases DEF rFires, ControlTypeOK
<1>1. taken => readDataValid
  BY UpdateReadCases
<1>2. \A id \in accepted : owedBar[id] = 0
  BY UpdateReadCases DEF owedBar, BeatsLeft
<1>3. ASSUME NEW id \in ReadIds
      PROVE  IF taken /\ readSelectedId = id THEN owedBar'[id] = owedBar[id] - 1
             ELSE IF id \in accepted THEN owedBar'[id] \in Nat \ {0}
             ELSE owedBar'[id] = owedBar[id]
  <2>1. /\ owedBar[id] = BeatsLeft(reads[id]) /\ owedBar'[id] = BeatsLeft(reads[id])'
        /\ reads[id] \in Transaction /\ reads[id].beat <= reads[id].length
    BY DEF owedBar, ControlTypeOK, SlotsExclusive
  <2>2. CASE taken /\ readSelectedId = id
    <3>1. reads[id].active /\ reads'[id] = NextBeat(reads[id])
      BY <2>2, UpdateReadCases
    <3>2. BeatsLeft(reads[id])' = BeatsLeft(NextBeat(reads[id]))
      BY <3>1 DEF BeatsLeft
    <3>3. BeatsLeft(NextBeat(reads[id])) = BeatsLeft(reads[id]) - 1
      BY <2>1, <3>1, BeatsLeftNext
    <3> QED BY <2>1, <2>2, <3>2, <3>3
  <2>3. CASE ~(taken /\ readSelectedId = id) /\ id \in accepted
    <3>1. reads'[id] = [active |-> TRUE, address |-> ar.address, size |-> ar.size,
                        length |-> ar.length, beat |-> 0]
      BY <2>3, UpdateReadCases
    <3>2. BeatsLeft(reads[id])' = ar.length - 0 + 1
      BY <3>1 DEF BeatsLeft
    <3> QED BY <2>1, <2>3, <3>2 DEF ControlTypeOK, Request
  <2>4. CASE ~(taken /\ readSelectedId = id) /\ id \notin accepted
    <3>1. reads'[id] = reads[id]
      BY <2>4, UpdateReadCases
    <3> QED BY <2>1, <2>4, <3>1 DEF BeatsLeft
  <2> QED BY <2>2, <2>3, <2>4
<1>4. owedBar' = [id \in ReadIds |-> owedBar'[id]]
  BY DEF owedBar
<1>5. offerBar' = IF taken THEN [valid |-> FALSE, id |-> 0, last |-> FALSE] ELSE offerBar
  <2>1. CASE taken
    BY <2>1, UpdateReadCases DEF offerBar
  <2>2. CASE ~taken /\ readDataValid
    <3>1. readSelectedId \in ReadIds /\ readSelectedId' = readSelectedId
      BY DEF ControlTypeOK, UpdateRead
    <3>2. ~(arFires /\ readSelectedId = ar.id)
      BY <2>2, UpdateReadCases DEF SlotsExclusive
    <3>3. reads'[readSelectedId] = reads[readSelectedId] /\ readDataValid' = readDataValid
      BY <2>2, <3>1, <3>2, UpdateReadCases
    <3> QED BY <2>2, <3>1, <3>3 DEF offerBar, LastBeat
  <2>3. CASE ~taken /\ ~readDataValid
    BY <2>3, UpdateReadCases DEF offerBar
  <2> QED BY <2>1, <2>2, <2>3
<1>6. (readDataValid => offerBar.valid /\ offerBar.id = readSelectedId) /\ (taken => offerBar.valid)
  BY <1>1 DEF offerBar
<1>7. Port!Exchange(taken, accepted)
  <2>1. \A id \in ReadIds :
          IF taken /\ offerBar.id = id THEN owedBar'[id] = owedBar[id] - 1
          ELSE IF id \in accepted THEN owedBar'[id] \in Nat \ {0}
          ELSE owedBar'[id] = owedBar[id]
    BY <1>1, <1>3, <1>6
  <2> HIDE DEF taken, accepted
  <2> QED BY <1>2, <1>4, <1>5, <1>6, <2>1 DEF Port!Exchange, Port!NoOffer, owedBar, offerBar
<1> HIDE DEF taken, accepted
<1> QED BY <1>0, <1>7 DEF Port!ReadStep

\* The write side of update is an exchange at the abstract port.
LEMMA UpdateWriteRefines ==
    ASSUME ControlInv, NEW bReady \in BOOLEAN, phase = "update", UpdateWrite(bReady)
    PROVE  Port!WriteStep
<1> USE DEF ControlInv
<1>1. write \in WriteTransaction /\ aw \in Request /\ wd.last \in BOOLEAN
  BY DEF ControlTypeOK, WriteTransaction
<1>2. CASE awFires /\ ~write.active /\ ~write.responseValid /\ write' = AcceptWrite(write)
  <2>1. write'.active /\ write'.beat = 0 /\ write'.length \in Nat /\ write'.responseValid = write.responseValid
    BY <1>1, <1>2 DEF AcceptWrite, Request
  <2> QED BY <1>2, <2>1 DEF Port!WriteStep, BeatsLeft
<1>3. CASE /\ wFires /\ ~awFires /\ write.active /\ ~write.responseValid
           /\ \E response \in Response : write' = AfterBeat(write, response)
  <2> PICK response \in Response : write' = AfterBeat(write, response)
    BY <1>3
  <2> DEFINE ends == wd.last \/ write.beat = write.length
  <2>1. /\ write'.active = ~ends /\ write'.responseValid = ends
        /\ write'.length = write.length
        /\ ~ends => write'.beat = write.beat + 1
    BY <1>1, <1>3, AfterBeatType DEF SlotsExclusive
  <2>2. write.beat <= write.length /\ (ends <=> write.beat = write.length)
    BY <1>1, <1>3 DEF BeatsAgree, InFlight, SlotsExclusive, wFires, ControlTypeOK, WriteTransaction
  <2> HIDE DEF ends
  <2>3. BeatsLeft(write) = write.length - write.beat + 1 /\ BeatsLeft(write) > 0
    BY <1>1, <1>3, <2>2 DEF BeatsLeft, WriteTransaction
  <2>4. CASE ends
    <3>1. BeatsLeft(write) = 1
      BY <1>1, <2>2, <2>3, <2>4 DEF WriteTransaction
    <3>2. write'.active = FALSE /\ write'.responseValid = TRUE
      BY <2>1, <2>4
    <3>3. BeatsLeft(write)' = 0
      BY <3>2 DEF BeatsLeft
    <3>4. write.responseValid' = (BeatsLeft(write) = 1)
      BY <3>1, <3>2
    <3> QED BY <2>3, <3>1, <3>3, <3>4 DEF Port!WriteStep
  <2>5. CASE ~ends
    <3>1. BeatsLeft(write) # 1 /\ BeatsLeft(write) \in Nat
      BY <1>1, <2>2, <2>3, <2>5 DEF WriteTransaction
    <3>2. write'.active = TRUE /\ write'.responseValid = FALSE
      BY <1>1, <2>1, <2>5 DEF ends
    <3>3. BeatsLeft(write)' = BeatsLeft(write) - 1
      <4>1. BeatsLeft(write)' = write'.length - write'.beat + 1
        BY <3>2 DEF BeatsLeft
      <4>2. write'.length = write.length /\ write'.beat = write.beat + 1
        BY <2>1, <2>5
      <4>3. write.length \in Nat /\ write.beat \in Nat
        BY <1>1 DEF WriteTransaction
      <4> QED BY <2>3, <4>1, <4>2, <4>3
    <3>4. write.responseValid' = (BeatsLeft(write) = 1)
      BY <3>1, <3>2
    <3> QED BY <2>3, <3>1, <3>3, <3>4 DEF Port!WriteStep
  <2> QED BY <2>4, <2>5
<1>4. CASE write.responseValid /\ write' = [write EXCEPT !.responseValid = FALSE]
  <2>1. /\ write'.active = write.active /\ write'.beat = write.beat /\ write'.length = write.length
        /\ write'.responseValid = FALSE
    BY <1>1, <1>4 DEF WriteTransaction
  <2> QED BY <1>4, <2>1 DEF Port!WriteStep, BeatsLeft
<1>5. CASE write' = write
  BY <1>5 DEF Port!WriteStep, BeatsLeft
<1> QED BY <1>2, <1>3, <1>4, <1>5, UpdateWriteCases

\* Whatever leaves the slots alone is not seen at the abstract port.
LEMMA QuietRefines ==
    ASSUME UNCHANGED <<reads, readChannel, write>>
    PROVE  UNCHANGED Port!vars
BY DEF Port!vars, BeatsLeft, LastBeat, readChannel

(* The detailed slave implements the abstract port: every behaviour of the *)
(* handshakes is one the core is promised.                                 *)
THEOREM PortCorrect == Spec => KeepsPortPromises
<1>1. Init => Port!Init
  BY DEF Init, Port!Init, Port!NoOffer, BeatsLeft, Idle, IdleWrite
<1>2. ControlInv /\ [Next]_vars => [Port!Next]_(Port!vars)
  <2> SUFFICES ASSUME ControlInv, [Next]_vars PROVE Port!Next \/ UNCHANGED Port!vars
    OBVIOUS
  <2>1. ASSUME NEW byte \in Byte, AppendInput(byte) PROVE UNCHANGED Port!vars
    BY <2>1, QuietRefines DEF AppendInput
  <2>2. ASSUME NEW rReady \in BOOLEAN, NEW bReady \in BOOLEAN, Update(rReady, bReady) PROVE Port!Next
    BY <2>2, UpdateReadRefines, UpdateWriteRefines DEF Update, Port!Next
  <2>3. Edge \/ Stopped \/ UNCHANGED vars => UNCHANGED Port!vars
    BY QuietRefines DEF Edge, Stopped, vars
  <2> QED BY <2>1, <2>2, <2>3, DriveRefines DEF Next
<1> QED BY <1>1, <1>2, ControlCorrect, PTL DEF Spec, KeepsPortPromises, Port!Spec

(***************************************************************************)
(* Data: memory, devices and the bytes of the terminal                     *)
(***************************************************************************)
DataBeat == [valid : BOOLEAN, data : BusData, strobe : SUBSET (0..(BusBytes - 1)), last : BOOLEAN]

\* Bus containers are made of whole words of the address space.
LEMMA Containers ==
    ASSUME NEW address \in Nat, NEW word \in 0..(BusWords - 1)
    PROVE  /\ BusWords \in Nat \ {0} /\ AddressSpace \in Nat \ {0} /\ BusBytes \in Nat \ {0}
           /\ address % AddressSpace \in 0..(AddressSpace - 1)
           /\ BusBase(address % AddressSpace) + 4 * word \in WordAddresses
           /\ (address % BusBytes) \div 4 \in 0..(BusWords - 1)
<1> DEFINE a == address % AddressSpace
           m == a \div BusBytes
           n == AddressSpace \div BusBytes
<1>1. BusWords \in Nat \ {0} /\ AddressSpace \in Nat \ {0} /\ BusBytes \in Nat \ {0}
      /\ BusBytes = 4 * BusWords /\ AddressSpace % BusBytes = 0
  BY AXIAssumption, PlatformAssumption DEF BusBytes
<1>2. a \in 0..(AddressSpace - 1)
  BY <1>1
<1>3. AddressSpace = n * BusBytes /\ n \in Nat
  <2>1. /\ AddressSpace = (AddressSpace \div BusBytes) * BusBytes + (AddressSpace % BusBytes)
        /\ AddressSpace \div BusBytes \in Nat
    BY <1>1
  <2> HIDE DEF n
  <2>2. AddressSpace = n * BusBytes + 0 /\ n \in Nat
    BY <1>1, <2>1 DEF n
  <2>3. n * BusBytes \in Int
    BY <1>1, <2>2
  <2> QED
    BY <2>2, <2>3
<1>4. a = m * BusBytes + (a % BusBytes) /\ a % BusBytes \in 0..(BusBytes - 1) /\ m \in Nat
  <2>1. a \in Nat
    BY <1>1, <1>2
  <2> HIDE DEF a
  <2> QED
    BY <1>1, <2>1
<1>5. BusBase(a) = m * BusBytes
  BY <1>1, <1>2, <1>4 DEF BusBase
<1> DEFINE b == BusBytes
<1>6. b \in Nat \ {0} /\ b = 4 * BusWords
  BY <1>1
<1>7. m < n
  <2>1. m * b < n * b
    BY <1>2, <1>3, <1>4, <1>1
  <2> HIDE DEF m, n, b
  <2>2. m \in Nat /\ n \in Nat
    BY <1>3, <1>4 DEF m, n
  <2> QED
    BY <1>6, <2>1, <2>2
<1>8. m * b + b <= n * b /\ m * b \in Nat
  <2> HIDE DEF m, n, b
  <2>1. m \in Nat /\ n \in Nat /\ m + 1 <= n
    BY <1>3, <1>4, <1>7 DEF m, n
  <2>2. (m + 1) * b <= n * b
    BY <1>6, <2>1
  <2>3. (m + 1) * b = m * b + b
    BY <1>6, <2>1
  <2> QED
    BY <1>6, <2>1, <2>2, <2>3
<1>9. (m * b) % 4 = 0
  <2>1. m * b = (m * BusWords) * 4
    BY <1>1, <1>4
  <2>2. m * BusWords \in Int
    BY <1>1, <1>4
  <2> QED
    BY <2>1, <2>2, DivUnique
<1>10. m * b + 4 * word \in WordAddresses
  <2> DEFINE c == m * b
  <2>1. c \in Nat /\ c % 4 = 0 /\ c + b <= AddressSpace
    BY <1>3, <1>8, <1>9
  <2> HIDE DEF c, b
  <2>2. c + 4 * word \in 0..(AddressSpace - 1) /\ (c + 4 * word) % 4 = 0
    BY <1>1, <1>6, <2>1
  <2> QED
    BY <2>2 DEF WordAddresses, c
<1>11. (address % BusBytes) \div 4 \in 0..(BusWords - 1)
  <2>1. address % BusBytes \in 0..(4 * BusWords - 1)
    BY <1>1
  <2> QED
    BY <1>1, <2>1
<1> QED
  BY <1>1, <1>2, <1>5, <1>10, <1>11

DataTypes ==
    /\ readData \in BusData
    /\ platform \in Platform
    /\ memory \in [WordAddresses -> Word]
    /\ exitValue \in Word

\* A beat that is read is well typed, and the byte it takes from the queue is
\* in lane 0 of the word its address selects.
LEMMA ReadBeatEffect ==
    ASSUME DataTypes, NEW read \in Transaction
    PROVE  LET beat == ReadBeat(read)
               lane == (read.address % BusBytes) \div 4
           IN  /\ beat.data \in BusData /\ beat.platform \in Platform
               /\ beat.platform.input # platform.input =>
                    /\ platform.input # <<>> /\ beat.platform.input = Tail(platform.input)
                    /\ beat.data[lane][0] = Head(platform.input)
<1> DEFINE beat == ReadBeat(read)
           lane == (read.address % BusBytes) \div 4
           bus == readBus(platform, read.address, read.size)
<1>1. read.address \in Nat /\ read.size \in Nat /\ platform \in Platform
      /\ memory \in [WordAddresses -> Word]
  BY DEF Transaction, DataTypes
<1>2. /\ bus \in ReadResult
      /\ bus.platform.input # platform.input =>
           /\ bus.ok /\ platform.input # <<>>
           /\ bus.platform.input = Tail(platform.input) /\ bus.data[0] = Head(platform.input)
  BY <1>1, BusRead
<1>3. BusWords \in Nat \ {0} /\ 0 \in 0..(BusWords - 1)
  BY AXIAssumption
<1>4. lane \in 0..(BusWords - 1)
  BY <1>1, <1>3, Containers
<1>5. MemoryBeat(read.address) \in BusData
  <2>1. \A word \in 0..(BusWords - 1) :
          BusBase(read.address % AddressSpace) + 4 * word \in WordAddresses
    BY <1>1, Containers
  <2> QED
    BY <1>1, <2>1 DEF MemoryBeat, BusData
<1>6. ZeroData \in BusData
  BY ZeroDataType
<1>7. bus.data \in Word /\ bus.platform \in Platform
  BY <1>2 DEF ReadResult
<1> HIDE DEF bus, lane
<1>8. /\ [ZeroData EXCEPT ![lane] = bus.data] \in BusData
      /\ [ZeroData EXCEPT ![lane] = bus.data][lane] = bus.data
  BY <1>4, <1>6, <1>7 DEF BusData
<1>9. \/ beat = [data |-> [ZeroData EXCEPT ![lane] = bus.data], response |-> 0,
                 platform |-> bus.platform]
      \/ beat.data = ZeroData /\ beat.platform = bus.platform /\ ~bus.ok
      \/ beat.data = ZeroData /\ beat.platform = platform
      \/ beat.data = MemoryBeat(read.address) /\ beat.platform = platform
  BY DEF ReadBeat, bus, lane
<1> HIDE DEF beat
<1>10. beat.data \in BusData /\ beat.platform \in Platform
  BY <1>1, <1>5, <1>6, <1>7, <1>8, <1>9
<1>11. ASSUME beat.platform.input # platform.input
       PROVE  /\ platform.input # <<>> /\ beat.platform.input = Tail(platform.input)
              /\ beat.data[lane][0] = Head(platform.input)
  <2>1. beat.platform = bus.platform /\ bus.ok
    BY <1>2, <1>9, <1>11
  <2>2. beat.data = [ZeroData EXCEPT ![lane] = bus.data]
    BY <1>2, <1>9, <1>11
  <2> QED
    BY <1>2, <1>8, <1>11, <2>1, <2>2
<1> QED
  BY <1>10, <1>11 DEF beat, lane

\* What memory holds after a beat goes to it, byte by byte.
LEMMA RamWritten ==
    ASSUME DataTypes, wd \in DataBeat, NEW address \in 0..(AddressSpace - 1)
    PROVE  /\ writeRam(address) \in [WordAddresses -> Word]
           /\ \A word \in WordAddresses, lane \in Lanes :
                writeRam(address)[word][lane] =
                  IF word \in BusBase(address)..(BusBase(address) + BusBytes - 1)
                     /\ (word - BusBase(address)) + lane \in wd.strobe
                  THEN wd.data[(word - BusBase(address)) \div 4][lane] ELSE memory[word][lane]
<1> DEFINE base == BusBase(address)
           row(word) == [lane \in Lanes |-> IF (word - base) + lane \in wd.strobe
                           THEN wd.data[(word - base) \div 4][lane] ELSE memory[word][lane]]
<1>1. memory \in [WordAddresses -> Word] /\ wd.data \in [0..(BusWords - 1) -> Word]
  BY DEF DataTypes, DataBeat, BusData
<1>2. BusWords \in Nat \ {0} /\ BusBytes = 4 * BusWords /\ base \in Int
  BY AXIAssumption DEF BusBytes, BusBase
<1>3. writeRam(address) = [word \in WordAddresses |->
         IF word \in base..(base + BusBytes - 1) THEN row(word) ELSE memory[word]]
  BY DEF writeRam
<1> HIDE DEF base
<1>4. ASSUME NEW word \in WordAddresses, word \in base..(base + BusBytes - 1)
      PROVE  row(word) \in Word
  <2>1. (word - base) \div 4 \in 0..(BusWords - 1)
    BY <1>2, <1>4
  <2>2. memory[word] \in Word /\ wd.data[(word - base) \div 4] \in Word
    BY <1>1, <2>1
  <2> QED
    BY <2>2 DEF Word
<1>5. \A word \in WordAddresses : memory[word] \in Word
  BY <1>1
<1>6. writeRam(address) \in [WordAddresses -> Word]
  BY <1>3, <1>4, <1>5
<1>7. ASSUME NEW word \in WordAddresses, NEW lane \in Lanes
      PROVE  writeRam(address)[word][lane] =
               IF word \in base..(base + BusBytes - 1) /\ (word - base) + lane \in wd.strobe
               THEN wd.data[(word - base) \div 4][lane] ELSE memory[word][lane]
  <2>1. row(word)[lane] = IF (word - base) + lane \in wd.strobe
                          THEN wd.data[(word - base) \div 4][lane] ELSE memory[word][lane]
    OBVIOUS
  <2> HIDE DEF row
  <2> QED
    BY <1>3, <2>1
<1> QED
  BY <1>6, <1>7 DEF base

\* A beat that is written: where it goes, and what it leaves alone.  An error of
\* an earlier beat is not forgotten.
LEMMA WriteBeatEffect ==
    ASSUME DataTypes, wd \in DataBeat, NEW wr \in WriteTransaction
    PROVE  LET beat == WriteBeat(wr)
               address == wr.address % AddressSpace
           IN  /\ beat.memory \in [WordAddresses -> Word]
               /\ beat.platform \in Platform /\ beat.platform.input = platform.input
               /\ beat.response = 0 => wr.response = 0
               /\ beat.memory # memory => beat.memory = writeRam(address)
<1> DEFINE beat == WriteBeat(wr)
           address == wr.address % AddressSpace
           bus == writeBus(platform, address, NarrowData(address), NarrowStrobe(address))
<1>1. address \in 0..(AddressSpace - 1) /\ address \in Nat
  <2>1. wr.address \in Nat /\ AddressSpace \in Nat /\ AddressSpace > 0
    BY AXIAssumption, PlatformAssumption DEF WriteTransaction
  <2> QED
    BY <2>1
<1>2. memory \in [WordAddresses -> Word] /\ platform \in Platform
  BY DEF DataTypes
<1>3. NarrowData(address) \in Word
  <2>1. NarrowWord(address) \in 0..(BusWords - 1)
    <3>1. 0 \in 0..(BusWords - 1)
      BY AXIAssumption
    <3> QED
      BY <1>1, <3>1, Containers DEF NarrowWord
  <2> QED
    BY <2>1 DEF NarrowData, DataBeat, BusData
<1>4. bus.platform \in Platform /\ bus.platform.input = platform.input
  BY <1>1, <1>2, <1>3, BusWrite DEF WriteResult
<1>5. writeRam(address) \in [WordAddresses -> Word]
  BY <1>1, RamWritten
<1> HIDE DEF bus
<1>6. \/ beat = [memory |-> writeRam(address), platform |-> platform, response |-> wr.response]
      \/ beat = [memory |-> memory, platform |-> platform, response |-> 2]
      \/ beat = [memory |-> memory, platform |-> platform, response |-> 3]
      \/ beat.memory = memory /\ beat.platform = bus.platform /\ beat.response \in {2, wr.response}
  BY DEF WriteBeat, bus
<1> HIDE DEF beat, address
<1>7. /\ beat.memory \in [WordAddresses -> Word]
      /\ beat.platform \in Platform /\ beat.platform.input = platform.input
      /\ beat.response = 0 => wr.response = 0
      /\ beat.memory # memory => beat.memory = writeRam(address)
  BY <1>2, <1>4, <1>5, <1>6
<1> QED
  BY <1>7 DEF beat, address

\* The write side of a cycle, by the handshake that happens in it.
LEMMA UpdateWriteEffect ==
    ASSUME ControlInv, NEW bReady \in BOOLEAN, phase = "update", UpdateWrite(bReady)
    PROVE  /\ awFires => /\ ~wFires /\ ~write.active /\ ~write.responseValid
                         /\ write' = AcceptWrite(write)
           /\ wFires => LET beat == WriteBeat(write)
                            address == write.address % AddressSpace
                        IN  /\ ~awFires /\ write.active /\ ~write.responseValid
                            /\ write' = AfterBeat(write, beat.response)
                            /\ memory' = beat.memory /\ platform' = beat.platform
                            /\ exitValue' = observeWrite(address, NarrowData(address),
                                                         NarrowStrobe(address))
                            /\ exited' = ExitReported(address, exitValue')
           /\ ~wFires => UNCHANGED <<memory, platform, exitValue>> /\ exited' = FALSE
           /\ ~awFires /\ ~wFires => \/ write' = write
                                     \/ /\ write.responseValid
                                        /\ write' = [write EXCEPT !.responseValid = FALSE]
<1>1. /\ awFires => ~write.active /\ ~write.responseValid
      /\ wFires => write.active
      /\ pins.b_valid = write.responseValid
      /\ ~(write.active /\ write.responseValid)
  BY DEF ControlInv, SlotsExclusive
<1>2. CASE awFires
  <2>1. ~wFires /\ ~bFires(bReady)
    BY <1>1, <1>2 DEF bFires
  <2> QED BY <1>1, <1>2, <2>1 DEF UpdateWrite
<1>3. CASE wFires
  <2>1. ~awFires /\ ~bFires(bReady) /\ AcceptWrite(write) = write
    BY <1>1, <1>3 DEF bFires, AcceptWrite
  <2>2. ExitReported(write.address % AddressSpace, exitValue') \in BOOLEAN
    BY DEF ExitReported
  <2> QED
    BY <1>1, <1>3, <2>1, <2>2 DEF UpdateWrite
<1>4. CASE ~awFires /\ ~wFires
  <2>1. AcceptWrite(write) = write
    BY <1>4 DEF AcceptWrite
  <2> QED BY <1>1, <1>4, <2>1 DEF UpdateWrite, bFires
<1> QED BY <1>2, <1>3, <1>4

\* The exit monitor holds a word, whatever it observes.
LEMMA ObservedWord ==
    ASSUME DataTypes, wd \in DataBeat, NEW address \in Nat
    PROVE  observeWrite(address, NarrowData(address), NarrowStrobe(address)) \in Word
<1>1. NarrowData(address) \in Word /\ NarrowStrobe(address) \subseteq Lanes /\ exitValue \in Word
  <2>1. 0 \in 0..(BusWords - 1)
    BY AXIAssumption
  <2>2. NarrowWord(address) \in 0..(BusWords - 1)
    BY <2>1, Containers DEF NarrowWord
  <2> QED
    BY <2>2 DEF NarrowData, NarrowStrobe, DataBeat, BusData, DataTypes
<1> DEFINE data == NarrowData(address)
           strobe == NarrowStrobe(address)
<1> HIDE DEF data, strobe
<1>2. data \in Word /\ strobe \subseteq Lanes
  BY <1>1 DEF data, strobe
<1>3. \A lane \in Lanes : lane - (address % 4) \in strobe => data[lane - (address % 4)] \in Byte
  BY <1>2 DEF Word
<1>4. \A lane \in Lanes : exitValue[lane] \in Byte
  BY <1>1 DEF Word
<1>5. observeWrite(address, data, strobe) \in Word
  BY <1>1, <1>3, <1>4 DEF observeWrite, Word
<1> QED
  BY <1>5 DEF data, strobe

\* How each step changes the data, and the queue of typed bytes.
LEMMA DriveData ==
    ASSUME ControlInv, DataTypes, NEW random \in Randoms, Drive(random)
    PROVE  DataTypes'
<1>1. CASE CanLatch /\ LatchBeat
  <2>1. reads[Serving] \in Transaction
    BY <1>1 DEF ControlInv, ControlTypeOK, Serving, ReadIds
  <2>2. readData' \in BusData /\ platform' \in Platform
    BY <1>1, <2>1, ReadBeatEffect DEF LatchBeat
  <2> QED
    BY <2>2 DEF Drive, DataTypes
<1>2. CASE UNCHANGED <<readChannel, platform, popped>>
  BY <1>2 DEF Drive, DataTypes, readChannel
<1> QED
  BY <1>1, <1>2 DEF Drive

\* update keeps memory and devices well typed and takes no input.
LEMMA UpdateData ==
    ASSUME ControlInv, DataTypes, NEW rReady \in BOOLEAN, NEW bReady \in BOOLEAN,
           Update(rReady, bReady)
    PROVE  DataTypes' /\ platform'.input = platform.input
<1>1. phase = "update" /\ UpdateRead(rReady) /\ UpdateWrite(bReady)
  BY DEF Update
<1>2. readData' \in BusData
  BY <1>1 DEF UpdateRead, DataTypes
<1>3. wd \in DataBeat /\ write \in WriteTransaction
  BY DEF ControlInv, ControlTypeOK, DataBeat, WriteTransaction
<1>4. CASE wFires
  <2> DEFINE beat == WriteBeat(write)
             address == write.address % AddressSpace
  <2>1. /\ memory' = beat.memory /\ platform' = beat.platform
        /\ exitValue' = observeWrite(address, NarrowData(address), NarrowStrobe(address))
    BY <1>1, <1>4, UpdateWriteEffect
  <2>2. address \in Nat
    <3>1. write.address \in Nat /\ AddressSpace \in Nat /\ AddressSpace > 0
      BY <1>3, AXIAssumption, PlatformAssumption DEF WriteTransaction
    <3> QED
      BY <3>1
  <2>3. exitValue' \in Word
    BY <1>3, <2>1, <2>2, ObservedWord
  <2>4. /\ beat.memory \in [WordAddresses -> Word]
        /\ beat.platform \in Platform /\ beat.platform.input = platform.input
    BY <1>3, WriteBeatEffect
  <2> QED
    BY <1>2, <2>1, <2>3, <2>4 DEF DataTypes
<1>5. CASE ~wFires
  BY <1>1, <1>2, <1>5, UpdateWriteEffect DEF DataTypes
<1> QED
  BY <1>4, <1>5

\* tick keeps them well typed and takes no input.
LEMMA EdgeData ==
    ASSUME DataTypes, Edge
    PROVE  DataTypes' /\ platform'.input = platform.input
  BY Ticked DEF Edge, DataTypes, readChannel

\* Typed input is queued behind the input that waits.
LEMMA AppendData ==
    ASSUME DataTypes, NEW byte \in Byte, AppendInput(byte)
    PROVE  DataTypes' /\ platform'.input = platform.input \o <<byte>>
<1>1. <<byte>> \in Seq(Byte) /\ platform \in Platform
  BY DEF DataTypes
<1> QED
  BY <1>1, InputAppended DEF AppendInput, DataTypes, readChannel

\* Memory and devices start well typed.
LEMMA InitData == Init => DataTypes
<1>1. InitialPlatform(BootTime, <<>>) \in Platform
  <2>1. 0 \in Byte /\ 1 \in Byte /\ TimeMax \in Time /\ 0 \in 0..(TimerDivider - 1)
    BY PlatformAssumption, PowerAssumption DEF Byte, Time, TimeMax
  <2>2. BootTime \in Time
    BY AXIAssumption
  <2> QED
    BY <2>1, <2>2 DEF InitialPlatform, Platform
<1>2. ZeroWord \in Word /\ ZeroData \in BusData
  BY ZeroDataType, PlatformAssumption DEF ZeroWord, Word, Byte
<1> QED
  BY <1>1, <1>2 DEF Init, DataTypes

\* Types and control together: what the invariants of the data build on.
MachineInv == ControlInv /\ DataTypes

\* Control invariant and types are inductive together.
LEMMA MachineStep == MachineInv /\ [Next]_vars => MachineInv'
<1> SUFFICES ASSUME ControlInv, DataTypes, [Next]_vars PROVE DataTypes'
  BY ControlStep DEF MachineInv
<1>1. CASE UNCHANGED vars
  BY <1>1 DEF vars, DataTypes, readChannel
<1>2. CASE Next
  BY <1>1, <1>2, AppendData, DriveData, UpdateData, EdgeData DEF Next, Stopped
<1> QED
  BY <1>1, <1>2

\* They hold throughout: the ground the proofs about data stand on.
LEMMA MachineCorrect == Spec => []MachineInv
<1>1. Init => MachineInv
  BY InitControl, InitData DEF MachineInv
<1> QED
  BY <1>1, MachineStep, PTL DEF Spec

(* Data and control stay well typed: a strobed write of any lanes, a read   *)
(* of any size and a device access that fails included.                     *)
THEOREM TypeCorrect == Spec => []TypeOK
<1>1. MachineInv => TypeOK
  BY DEF MachineInv, ControlInv, DataTypes, TypeOK
<1> QED
  BY <1>1, MachineCorrect, PTL

(***************************************************************************)
(* Bytes typed at the terminal                                             *)
(***************************************************************************)

(* InputDelivered is not inductive by itself: the byte of a beat must not   *)
(* be lost when the next one is latched, so a free R channel holds none.    *)
InputInv ==
    /\ typed \in Seq(Byte) /\ received \in Seq(Byte) /\ popped \in Seq(Byte)
    /\ ~readDataValid => popped = <<>>
    /\ InputDelivered

\* The three ways a byte moves: into the queue, to the R channel, to the core.
LEMMA ByteTyped ==
    ASSUME NEW s \in Seq(Byte), NEW t \in Seq(Byte), NEW b \in Byte
    PROVE  Append(s \o t, b) = s \o (t \o <<b>>)
  BY SMTT(60)

\* Moving the head of the queue into the receiver keeps their order.
LEMMA ByteLatched ==
    ASSUME NEW s \in Seq(Byte), NEW t \in Seq(Byte), t # <<>>
    PROVE  (s \o <<>>) \o t = (s \o <<Head(t)>>) \o Tail(t)
  BY SMTT(60)

\* Handing over what the receiver holds keeps the order of the rest.
LEMMA ByteTaken ==
    ASSUME NEW s \in Seq(Byte), NEW t \in Seq(Byte)
    PROVE  s \o t \in Seq(Byte) /\ (s \o t) \o <<>> = s \o t
  OBVIOUS

\* The input invariant is inductive.
LEMMA InputStep == MachineInv /\ InputInv /\ [Next]_vars => InputInv'
<1> SUFFICES ASSUME ControlInv, DataTypes, InputInv, [Next]_vars PROVE InputInv'
  BY DEF MachineInv
<1>0. /\ typed \in Seq(Byte) /\ received \in Seq(Byte) /\ popped \in Seq(Byte)
      /\ platform.input \in Seq(Byte) /\ received \o popped \in Seq(Byte)
      /\ typed = (received \o popped) \o platform.input
      /\ ~readDataValid => popped = <<>>
  BY ByteTaken DEF InputInv, InputDelivered, DataTypes, Platform
<1>1. ASSUME NEW byte \in Byte, AppendInput(byte) PROVE InputInv'
  <2>1. /\ typed' = Append(typed, byte) /\ received' = received /\ popped' = popped
        /\ readDataValid' = readDataValid
    BY <1>1 DEF AppendInput, readChannel
  <2>2. platform'.input = platform.input \o <<byte>>
    BY <1>1, AppendData
  <2>3. typed' = (received \o popped) \o (platform.input \o <<byte>>)
    BY <1>0, <2>1, ByteTyped
  <2>4. typed' \in Seq(Byte)
    BY <1>0, <2>1
  <2> QED
    BY <1>0, <2>1, <2>2, <2>3, <2>4 DEF InputInv, InputDelivered
<1>2. ASSUME NEW random \in Randoms, Drive(random) PROVE InputInv'
  <2>0. typed' = typed /\ received' = received
    BY <1>2 DEF Drive
  <2>1. CASE CanLatch /\ LatchBeat
    <3> DEFINE read == reads[Serving]
               beat == ReadBeat(read)
               lane == (read.address % BusBytes) \div 4
    <3>1. read \in Transaction
      BY <2>1 DEF ControlInv, ControlTypeOK, Serving, ReadIds
    <3>2. beat.platform.input # platform.input =>
            /\ platform.input # <<>> /\ beat.platform.input = Tail(platform.input)
            /\ beat.data[lane][0] = Head(platform.input)
      BY <3>1, ReadBeatEffect
    <3>3. /\ readDataValid' = TRUE /\ platform' = beat.platform
          /\ popped' = IF beat.platform.input = platform.input THEN <<>> ELSE <<beat.data[lane][0]>>
      BY <2>1 DEF LatchBeat
    <3>4. popped = <<>>
      BY <1>0, <2>1 DEF CanLatch
    <3> HIDE DEF beat, lane
    <3>5. CASE beat.platform.input = platform.input
      BY <1>0, <2>0, <3>3, <3>4, <3>5 DEF InputInv, InputDelivered
    <3>6. CASE beat.platform.input # platform.input
      <4>1. /\ popped' = <<Head(platform.input)>> /\ platform'.input = Tail(platform.input)
            /\ platform.input # <<>>
        BY <3>2, <3>3, <3>6
      <4>2. Head(platform.input) \in Byte
        BY <1>0, <4>1
      <4>3. popped' \in Seq(Byte)
        BY <4>1, <4>2
      <4>4. typed = (received \o popped') \o Tail(platform.input)
        BY <1>0, <3>4, <4>1, ByteLatched
      <4> QED
        BY <1>0, <2>0, <3>3, <4>1, <4>3, <4>4 DEF InputInv, InputDelivered
    <3> QED
      BY <3>5, <3>6
  <2>2. CASE UNCHANGED <<readChannel, platform, popped>>
    BY <1>0, <2>0, <2>2 DEF InputInv, InputDelivered, readChannel
  <2> QED
    BY <1>2, <2>1, <2>2 DEF Drive
<1>3. ASSUME NEW rReady \in BOOLEAN, NEW bReady \in BOOLEAN, Update(rReady, bReady) PROVE InputInv'
  <2>1. platform'.input = platform.input /\ typed' = typed
    BY <1>3, UpdateData DEF Update, RecordRead
  <2>2. /\ ~rFires(rReady) => readDataValid' = readDataValid
        /\ received' = IF rFires(rReady) THEN received \o popped ELSE received
        /\ popped' = IF rFires(rReady) THEN <<>> ELSE popped
    BY <1>3, UpdateReadCases DEF Update, RecordRead
  <2>3. <<>> \in Seq(Byte) /\ (received \o popped) \o <<>> = received \o popped
    BY <1>0, ByteTaken
  <2>4. CASE rFires(rReady)
    BY <1>0, <2>1, <2>2, <2>3, <2>4 DEF InputInv, InputDelivered
  <2>5. CASE ~rFires(rReady)
    BY <1>0, <2>1, <2>2, <2>5 DEF InputInv, InputDelivered
  <2> QED
    BY <2>4, <2>5
<1>4. ASSUME Edge PROVE InputInv'
  <2>1. platform'.input = platform.input
    BY <1>4, EdgeData
  <2> QED
    BY <1>0, <1>4, <2>1 DEF Edge, InputInv, InputDelivered, readChannel, readHistory
<1>5. ASSUME UNCHANGED vars PROVE InputInv'
  BY <1>0, <1>5 DEF vars, InputInv, InputDelivered, readChannel, readHistory
<1> QED
  BY <1>1, <1>2, <1>3, <1>4, <1>5 DEF Next, Stopped

(* No byte typed at the terminal is lost, repeated or reordered on its way *)
(* through the receive buffer and the R channel to the core.               *)
THEOREM InputCorrect == Spec => []InputDelivered
<1>1. Init => InputInv
  BY DEF Init, InputInv, InputDelivered, InitialPlatform
<1>2. InputInv => InputDelivered
  BY DEF InputInv
<1> QED
  BY <1>1, <1>2, InputStep, MachineCorrect, PTL DEF Spec

(***************************************************************************)
(* Reads                                                                   *)
(***************************************************************************)

\* An active read is at its place in the request it serves, and the current
\* memory is among the contents it may return.
ReadInPlace(id) ==
    /\ start[id] \in Request
    /\ reads[id].size = start[id].size /\ reads[id].address = BeatAddress(id)
    /\ memory \in seen[id]

(* ReadsAreRegular speaks of requests, the slave of its own address, size   *)
(* and beat: they agree as long as a read is active.                        *)
ReadsInv ==
    /\ \A id \in ReadIds : reads[id].active => ReadInPlace(id)
    /\ ReadsAreRegular

\* The regions of the address map exclude each other.
LEMMA RamExclusive ==
    ASSUME NEW address \in Nat, NEW size \in Nat, isRam(address, size)
    PROVE  ~isDevice(address, size) /\ ~isWriteCombine(address, size)
<1>1. /\ Ram.base \in Nat /\ Ram.size \in Nat /\ Clint.base \in Nat /\ Clint.size \in Nat
      /\ Uart.base \in Nat /\ Uart.size \in Nat /\ WriteCombine.base \in Nat /\ WriteCombine.size \in Nat
      /\ Disjoint(Ram, Clint) /\ Disjoint(Ram, Uart) /\ Disjoint(Ram, WriteCombine)
  BY PlatformAssumption DEF Region
<1>2. ~contains(address, size, Clint) /\ ~contains(address, size, Uart)
      /\ ~contains(address, size, WriteCombine)
  BY <1>1 DEF isRam, contains, Disjoint, RegionEnd
<1> QED
  BY <1>2 DEF isDevice, isWriteCombine

\* A beat that memory serves is the container as memory has it.
LEMMA MemoryServes ==
    ASSUME DataTypes, NEW read \in Transaction, ServedByMemory(read.address, read.size)
    PROVE  \A word \in 0..(BusWords - 1) :
             ReadBeat(read).data[word] = memory[BusBase(read.address % AddressSpace) + 4 * word]
<1>1. read.address \in Nat /\ read.size \in Nat
  BY DEF Transaction
<1>2. ReadBeat(read) = [data |-> MemoryBeat(read.address), response |-> 0, platform |-> platform]
  BY <1>1, RamExclusive DEF ReadBeat, ServedByMemory
<1> QED
  BY <1>2 DEF MemoryBeat

\* The next beat of a burst is at the next place.
LEMMA NextPlace ==
    ASSUME NEW r \in Transaction, NEW s \in Request, r.active,
           r.size = s.size, r.address = s.address + r.beat * s.size, NextBeat(r).active
    PROVE  /\ NextBeat(r).size = s.size
           /\ NextBeat(r).address = s.address + NextBeat(r).beat * s.size
<1>1. r.beat # r.length
  BY DEF NextBeat, Transaction
<1>2. /\ NextBeat(r).beat = r.beat + 1 /\ NextBeat(r).address = r.address + r.size
      /\ NextBeat(r).size = r.size
  BY <1>1 DEF NextBeat, Transaction
<1>3. r.beat \in Nat /\ s.size \in Nat /\ s.address \in Nat
  BY DEF Transaction, Request
<1>4. (r.beat + 1) * s.size = r.beat * s.size + s.size /\ r.beat * s.size \in Nat
  BY <1>3
<1> QED
  BY <1>2, <1>3, <1>4

\* update moves each burst to the place of its next beat.
LEMMA UpdatePlaces ==
    ASSUME ControlInv, DataTypes, ReadsInv, NEW rReady \in BOOLEAN, NEW bReady \in BOOLEAN,
           Update(rReady, bReady), NEW id \in ReadIds, reads'[id].active
    PROVE  ReadInPlace(id)'
<1>1. /\ phase = "update" /\ UpdateRead(rReady)
      /\ start'[id] = IF arFires /\ ar.id = id THEN ar ELSE start[id]
      /\ memory' \in seen'[id]
  BY DEF Update, RecordRead
<1>3. CASE rFires(rReady) /\ id = readSelectedId
  <2>1. reads[id].active /\ reads'[id] = NextBeat(reads[id]) /\ ~(arFires /\ ar.id = id)
    BY <1>1, <1>3, UpdateReadCases
  <2>2. ReadInPlace(id)
    BY <2>1 DEF ReadsInv
  <2>3. reads[id] \in Transaction
    BY DEF ControlInv, ControlTypeOK
  <2>4. /\ NextBeat(reads[id]).size = start[id].size
        /\ NextBeat(reads[id]).address = start[id].address + NextBeat(reads[id]).beat * start[id].size
    BY <2>1, <2>2, <2>3, NextPlace DEF ReadInPlace, BeatAddress
  <2> QED
    BY <1>1, <2>1, <2>2, <2>4 DEF ReadInPlace, BeatAddress
<1>4. CASE ~(rFires(rReady) /\ id = readSelectedId) /\ arFires /\ id = ar.id
  <2>1. reads'[id] = [active |-> TRUE, address |-> ar.address, size |-> ar.size,
                      length |-> ar.length, beat |-> 0]
    BY <1>1, <1>4, UpdateReadCases
  <2>2. ar \in Request /\ ar.address + 0 * ar.size = ar.address
    BY DEF ControlInv, ControlTypeOK, Request
  <2> QED
    BY <1>1, <1>4, <2>1, <2>2 DEF ReadInPlace, BeatAddress
<1>5. CASE ~(rFires(rReady) /\ id = readSelectedId) /\ ~(arFires /\ id = ar.id)
  <2>1. reads'[id] = reads[id]
    BY <1>1, <1>5, UpdateReadCases
  <2>2. ReadInPlace(id)
    BY <2>1 DEF ReadsInv
  <2> QED
    BY <1>1, <1>5, <2>1, <2>2 DEF ReadInPlace, BeatAddress
<1> QED
  BY <1>3, <1>4, <1>5

\* The invariant about read beats is inductive.
LEMMA ReadsStep == MachineInv /\ ReadsInv /\ [Next]_vars => ReadsInv'
<1> SUFFICES ASSUME ControlInv, DataTypes, ReadsInv, [Next]_vars PROVE ReadsInv'
  BY DEF MachineInv
<1>0. ReadsAreRegular /\ readSelectedId \in ReadIds
  BY DEF ReadsInv, ControlInv, ControlTypeOK
<1>1. ASSUME UNCHANGED <<scenario, reads, readChannel, start, seen, memory>>
      PROVE  ReadsInv'
  BY <1>1 DEF ReadsInv, ReadInPlace, ReadsAreRegular, BeatAddress, ServedByMemory, HasPlatform,
              readChannel
<1>2. ASSUME NEW random \in Randoms, Drive(random) PROVE ReadsInv'
  <2>0. UNCHANGED <<scenario, reads, start, seen, memory>>
    BY <1>2 DEF Drive
  <2>1. CASE CanLatch /\ LatchBeat
    <3> DEFINE id == Serving
    <3>1. id \in ReadIds /\ reads[id].active /\ reads[id] \in Transaction
      BY <2>1 DEF CanLatch, Serving, ReadIds, ControlInv, ControlTypeOK, Transaction
    <3>2. ReadInPlace(id)
      BY <3>1 DEF ReadsInv
    <3>3. readSelectedId' = id /\ readData' = ReadBeat(reads[id]).data
      BY <2>1 DEF LatchBeat
    <3> HIDE DEF id
    <3>4. ServedByMemory(reads[id].address, reads[id].size) =>
            \A word \in 0..(BusWords - 1) :
              readData'[word] = memory[(BusBase(reads[id].address % AddressSpace) + 4 * word)]
      BY <3>1, <3>3, MemoryServes
    <3>5. ReadsAreRegular'
      BY <2>0, <3>2, <3>3, <3>4 DEF ReadsAreRegular, ReadInPlace, BeatAddress, ServedByMemory,
         HasPlatform
    <3>6. ASSUME NEW i \in ReadIds, reads'[i].active PROVE ReadInPlace(i)'
      BY <2>0, <3>6 DEF ReadsInv, ReadInPlace, BeatAddress
    <3> QED
      BY <3>5, <3>6 DEF ReadsInv
  <2>2. CASE UNCHANGED <<readChannel, platform, popped>>
    BY <1>1, <2>0, <2>2
  <2> QED
    BY <1>2, <2>1, <2>2 DEF Drive
<1>3. ASSUME NEW rReady \in BOOLEAN, NEW bReady \in BOOLEAN, Update(rReady, bReady) PROVE ReadsInv'
  <2>1. \A id \in ReadIds : reads'[id].active => ReadInPlace(id)'
    BY <1>3, UpdatePlaces
  <2>2. ASSUME readDataValid' PROVE ReadsAreRegular'
    <3> DEFINE id == readSelectedId
    <3>1. /\ phase = "update" /\ UpdateRead(rReady) /\ scenario' = scenario
          /\ readSelectedId' = id /\ readData' = readData
      BY <1>3 DEF Update, UpdateRead
    <3>2. readDataValid /\ ~rFires(rReady)
      BY <2>2, <3>1, UpdateReadCases
    <3>3. reads[id].active /\ ~(arFires /\ ar.id = id) /\ reads'[id] = reads[id]
      BY <1>0, <3>1, <3>2, UpdateReadCases DEF ControlInv, SlotsExclusive
    <3>4. start'[id] = start[id] /\ seen[id] \subseteq seen'[id]
      BY <1>0, <1>3, <3>3 DEF Update, RecordRead
    <3> HIDE DEF id
    <3> QED
      BY <1>0, <3>1, <3>2, <3>3, <3>4 DEF ReadsAreRegular, BeatAddress, ServedByMemory, HasPlatform, id
  <2>3. ~readDataValid' => ReadsAreRegular'
    BY DEF ReadsAreRegular
  <2> QED
    BY <2>1, <2>2, <2>3 DEF ReadsInv
<1>4. ASSUME NEW byte \in Byte, AppendInput(byte) PROVE ReadsInv'
  BY <1>1, <1>4 DEF AppendInput
<1>5. ASSUME Edge PROVE ReadsInv'
  BY <1>1, <1>5 DEF Edge, readHistory
<1>6. ASSUME UNCHANGED vars PROVE ReadsInv'
  BY <1>1, <1>6 DEF vars, readHistory
<1> QED
  BY <1>2, <1>3, <1>4, <1>5, <1>6 DEF Next, Stopped

(* Every beat that memory serves is what memory held at its place in the   *)
(* burst at some moment since the read was accepted, whatever is written   *)
(* while the beats before it wait and whichever read is served in between. *)
THEOREM ReadsCorrect == Spec => []ReadsAreRegular
<1>1. Init => ReadsInv
  BY DEF Init, ReadsInv, ReadsAreRegular, Idle
<1>2. ReadsInv => ReadsAreRegular
  BY DEF ReadsInv
<1> QED
  BY <1>1, <1>2, ReadsStep, MachineCorrect, PTL DEF Spec

(***************************************************************************)
(* Writes                                                                  *)
(***************************************************************************)
Writers(word, lane) == {k \in 1..Len(beats) : WritesByte(k, word, lane)}
Left(word, lane) ==
    IF Writers(word, lane) = {} THEN before[word][lane]
    ELSE LET k == Max(Writers(word, lane)) IN beats[k].data[(word - BeatBase(k)) \div 4][lane]

Answerable ==
    \/ ~HasPlatform
    \/ isRam(wreq.address, wreq.size * (wreq.length + 1))
    \/ isWriteCombine(wreq.address, wreq.size * (2 * wreq.length + 1))

\* A write burst is at its place in the request it serves, memory is what its
\* beats so far made of it unless one of them failed, and none failed if the
\* request has to be answered OKAY.
WriteInPlace ==
    /\ \E request \in scenario.writes : wreq = Asserted(request)
    /\ write.size = wreq.size /\ write.length = wreq.length
    /\ before \in [WordAddresses -> Word]
    /\ beats \in Seq(DataBeat)
    /\ Len(beats) = IF write.active THEN write.beat ELSE wreq.length + 1
    /\ write.active => write.address = wreq.address + write.beat * wreq.size
    /\ write.response = 0 => memory = IF ToDevice(wreq) THEN before ELSE BurstResult
    /\ ToDevice(wreq) /\ wreq.length # 0 /\ beats # <<>> => write.response # 0
    /\ Answerable => write.response = 0

WritesInv ==
    /\ aw.valid => \E request \in scenario.writes : aw = Asserted(request)
    /\ ~(write.active \/ write.responseValid) => beats = <<>>
    /\ write.active \/ write.responseValid => WriteInPlace

\* A set of natural numbers that is not empty has a least element.
LEMMA LeastNat ==
    ASSUME NEW T, T \subseteq Nat, T # {}
    PROVE  \E x \in T : \A y \in T : x <= y
<1> DEFINE R == {ss \in Nat \X Nat : ss[1] < ss[2]}
<1>1. IsWellFoundedOn(R, Nat)
  BY NatLessThanWellFounded DEF OpToRel
<1>2. \E x \in T : \A y \in T : <<y, x>> \notin R
  BY <1>1, WFMin, Zenon
<1>3. \A x, y \in Nat : <<y, x>> \notin R => x <= y
  OBVIOUS
<1> HIDE DEF R
<1> QED
  BY <1>2, <1>3

\* A set of indices that is not empty has a largest element.
LEMMA LargestExists ==
    ASSUME NEW n \in Nat, NEW W, W \subseteq 1..n, W # {}
    PROVE  \E m \in W : \A j \in W : m >= j
<1> DEFINE T == {n - k : k \in W}
<1>1. T \subseteq Nat /\ T # {}
  <2>1. \A k \in W : n - k \in Nat
    OBVIOUS
  <2>2. PICK k : k \in W
    OBVIOUS
  <2>3. n - k \in T
    BY <2>2
  <2> QED
    BY <2>1, <2>3
<1>2. PICK x \in T : \A y \in T : x <= y
  BY <1>1, LeastNat
<1>3. PICK m \in W : x = n - m
  BY <1>2
<1>4. \A j \in W : n - m <= n - j
  BY <1>2, <1>3
<1> QED
  BY <1>4

\* A burst without a beat has changed nothing.
LEMMA NoBeats ==
    ASSUME beats' = <<>>, before' \in [WordAddresses -> Word]
    PROVE  BurstResult' = before'
<1>1. \A word \in WordAddresses, lane \in Lanes : Writers(word, lane)' = {}
  BY DEF Writers
<1>2. BurstResult' = [word \in WordAddresses |-> [lane \in Lanes |-> Left(word, lane)']]
  BY DEF BurstResult, Left, Writers
<1>3. \A word \in WordAddresses : [lane \in Lanes |-> Left(word, lane)'] = before'[word]
  <2> SUFFICES ASSUME NEW word \in WordAddresses
               PROVE  [lane \in Lanes |-> Left(word, lane)'] = before'[word]
    OBVIOUS
  <2>1. before'[word] \in [Lanes -> Byte]
    BY DEF Word
  <2>2. \A lane \in Lanes : Left(word, lane)' = before'[word][lane]
    BY <1>1 DEF Left
  <2> QED
    BY <2>1, <2>2
<1> QED
  BY <1>2, <1>3

\* The last beat decides the bytes it writes and leaves the others.
LEMMA BurstGrows ==
    ASSUME DataTypes, wd \in DataBeat, beats \in Seq(DataBeat), wreq \in Request,
           beats' = Append(beats, wd), wreq' = wreq, before' = before,
           memory = BurstResult
    PROVE  BurstResult' = writeRam((wreq.address + Len(beats) * wreq.size) % AddressSpace)
<1> DEFINE address == (wreq.address + Len(beats) * wreq.size) % AddressSpace
<1>0. PICK n : n = Len(beats) + 1
  OBVIOUS
<1>1. n \in Nat \ {0} /\ Len(beats') = n /\ Len(beats) = n - 1
      /\ beats'[n] = wd /\ \A k \in 1..(n - 1) : beats'[k] = beats[k]
  BY <1>0
<1>2. \A k : BeatBase(k)' = BeatBase(k)
  BY DEF BeatBase
<1>3. BeatBase(n) = BusBase(address)
  <2>1. n - 1 = Len(beats)
    BY <1>1
  <2> QED
    BY <2>1 DEF BeatBase
<1>4. address \in 0..(AddressSpace - 1)
  <2>1. wreq.address \in Nat /\ wreq.size \in Nat /\ Len(beats) \in Nat
    BY DEF Request
  <2>2. wreq.address + Len(beats) * wreq.size \in Nat
    BY <2>1
  <2>3. AddressSpace \in Nat /\ AddressSpace > 0
    BY AXIAssumption, PlatformAssumption
  <2> QED
    BY <2>2, <2>3
<1> HIDE DEF address
<1>5. ASSUME NEW word \in WordAddresses, NEW lane \in Lanes
      PROVE  Left(word, lane)' = writeRam(address)[word][lane]
  <2> DEFINE W == Writers(word, lane)
             V == Writers(word, lane)'
             hit == word \in BusBase(address)..(BusBase(address) + BusBytes - 1)
                    /\ (word - BusBase(address)) + lane \in wd.strobe
  <2>1. \A k \in 1..(n - 1) : k \in V <=> k \in W
    BY <1>1, <1>2 DEF Writers, WritesByte
  <2>2. n \in V <=> hit
    BY <1>1, <1>2, <1>3 DEF Writers, WritesByte
  <2>3. V \subseteq 1..n /\ W \subseteq 1..(n - 1)
    BY <1>1 DEF Writers
  <2>4. writeRam(address)[word][lane] =
          IF hit THEN wd.data[(word - BusBase(address)) \div 4][lane] ELSE memory[word][lane]
    BY <1>4, RamWritten
  <2>5. memory[word][lane] = Left(word, lane)
    BY DEF BurstResult, Left, Writers
  <2> HIDE DEF W, V, hit
  <2>6. CASE hit
    <3>1. n \in V /\ \A k \in V : n >= k
      BY <1>1, <2>2, <2>3, <2>6
    <3>2. \A m \in V : (\A k \in V : m >= k) => m = n
      BY <1>1, <2>3, <3>1
    <3>3. Max(V) = n
      BY <3>1, <3>2 DEF Max
    <3>4. Left(word, lane)' = beats'[n].data[(word - BeatBase(n)') \div 4][lane]
      BY <3>1, <3>3 DEF Left, V, Max
    <3> QED
      BY <1>1, <1>2, <1>3, <2>4, <2>6, <3>4
  <2>7. CASE ~hit
    <3>1. V = W
      <4>1. \A k \in 1..n : k = n \/ k \in 1..(n - 1)
        BY <1>1
      <4>2. \A k \in 1..(n - 1) : k \in 1..n
        BY <1>1
      <4>3. n \notin V /\ n \notin 1..(n - 1)
        BY <1>1, <2>2, <2>7
      <4> QED
        BY <2>1, <2>3, <4>1, <4>2, <4>3
    <3>2. CASE W = {}
      BY <2>4, <2>5, <2>7, <3>1, <3>2 DEF Left, V, W
    <3>3. CASE W # {}
      <4>0. PICK k : k = Max(W)
        OBVIOUS
      <4>1. k \in 1..(n - 1)
        <5>1. \E m \in W : \A j \in W : m >= j
          BY <1>1, <2>3, <3>3, n - 1 \in Nat, LargestExists
        <5> QED
          BY <2>3, <4>0, <5>1 DEF Max
      <4>2. Left(word, lane) = beats[k].data[(word - BeatBase(k)) \div 4][lane]
        BY <3>3, <4>0 DEF Left, W
      <4>3. Left(word, lane)' = beats'[k].data[(word - BeatBase(k)') \div 4][lane]
        BY <3>1, <3>3, <4>0 DEF Left, V, Max
      <4> QED
        BY <1>1, <1>2, <2>4, <2>5, <2>7, <4>1, <4>2, <4>3
    <3> QED
      BY <3>2, <3>3
  <2> QED
    BY <2>6, <2>7
<1>6. BurstResult' = [word \in WordAddresses |-> [lane \in Lanes |-> Left(word, lane)']]
  BY DEF BurstResult, Left, Writers
<1>7. \A word \in WordAddresses : [lane \in Lanes |-> Left(word, lane)'] = writeRam(address)[word]
  <2>1. writeRam(address) \in [WordAddresses -> [Lanes -> Byte]]
    BY <1>4, RamWritten DEF Word
  <2> QED
    BY <1>5, <2>1
<1>8. writeRam(address) \in [WordAddresses -> Word]
  BY <1>4, RamWritten
<1> QED
  BY <1>6, <1>7, <1>8 DEF address

\* A range in the write-combine window starts at no device register.
LEMMA WindowExclusive ==
    ASSUME NEW address \in Nat, NEW m \in Nat, NEW n \in Nat, isDevice(address, m)
    PROVE  ~isWriteCombine(address, n)
<1>1. /\ Clint.base \in Nat /\ Clint.size \in Nat /\ Uart.base \in Nat /\ Uart.size \in Nat
      /\ WriteCombine.base \in Nat /\ WriteCombine.size \in Nat
      /\ Disjoint(Clint, WriteCombine) /\ Disjoint(Uart, WriteCombine)
  BY PlatformAssumption DEF Region
<1> QED
  BY <1>1 DEF isDevice, isWriteCombine, contains, Disjoint, RegionEnd

\* Every beat of a burst within a region is within it, and so is a whole burst
\* that starts at any beat if there is room for one after the last.
LEMMA BeatWithin ==
    ASSUME NEW a \in Nat, NEW s \in Nat \ {0}, NEW l \in Nat, NEW k \in 0..l,
           NEW region \in Region, RegionEnd(region) <= AddressSpace
    PROVE  /\ contains(a, s * (l + 1), region) =>
                /\ a + k * s \in 0..(AddressSpace - 1)
                /\ contains(a + k * s, s, region)
           /\ contains(a, s * (2 * l + 1), region) =>
                /\ a + k * s \in 0..(AddressSpace - 1)
                /\ contains(a + k * s, s * (l + 1), region)
<1> DEFINE p == k * s
           q == l * s
<1>1. s * (l + 1) = q + s /\ s * (2 * l + 1) = q + q + s
  OBVIOUS
<1>2. p \in Nat /\ q \in Nat /\ p <= q
  <2>1. k \in Nat /\ l - k \in Nat
    OBVIOUS
  <2>2. (l - k) * s \in Nat /\ k * s \in Nat
    BY <2>1
  <2>3. l * s = (l - k) * s + k * s
    BY <2>1
  <2> QED
    BY <2>2, <2>3
<1>3. region.base \in Nat /\ region.size \in Nat /\ AddressSpace \in Nat
  BY PlatformAssumption DEF Region
<1> HIDE DEF p, q
<1>4. contains(a, q + s, region) => a + p \in 0..(AddressSpace - 1) /\ contains(a + p, s, region)
  BY <1>2, <1>3 DEF contains, RegionEnd
<1>5. contains(a, q + q + s, region) =>
        a + p \in 0..(AddressSpace - 1) /\ contains(a + p, q + s, region)
  BY <1>2, <1>3 DEF contains, RegionEnd
<1> QED
  BY <1>1, <1>4, <1>5 DEF p

\* The request of a running burst, as the core made it.
LEMMA RequestOf ==
    ASSUME ControlInv, WritesInv, write.active \/ write.responseValid
    PROVE  /\ wreq \in Request /\ wreq.address \in 0..(AddressSpace - 1) /\ wreq.size \in Nat \ {0}
           /\ \E request \in scenario.writes : wreq = Asserted(request)
<1>1. PICK request \in scenario.writes : wreq = Asserted(request)
  BY DEF WritesInv, WriteInPlace
<1>2. scenario.writes \subseteq WriteRequest
  BY AXIAssumption DEF ControlInv, ControlTypeOK, Scenario
<1>3. request \in WriteRequest
  BY <1>2
<1>4. AddressSpace \in Nat
  BY PlatformAssumption
<1>5. /\ request.id \in Nat /\ request.address \in 0..(AddressSpace - 1)
      /\ request.length \in Nat /\ request.size \in Nat \ {0}
  BY <1>3 DEF WriteRequest
<1>6. /\ wreq.address = request.address /\ wreq.size = request.size
      /\ wreq = [valid |-> TRUE, id |-> request.id, address |-> request.address,
                 length |-> request.length, size |-> request.size]
  BY <1>1 DEF Asserted
<1>7. request.address \in Nat
  BY <1>4, <1>5
<1>8. wreq \in Request
  BY <1>5, <1>6, <1>7 DEF Request
<1> QED
  BY <1>1, <1>5, <1>6, <1>8

\* What the next beat of a burst does, stated from the request.
LEMMA BeatOutcome ==
    ASSUME ControlInv, DataTypes, WritesInv, write.active
    PROVE  LET beat == WriteBeat(write)
               address == (wreq.address + Len(beats) * wreq.size) % AddressSpace
           IN  /\ beat.response = 0 =>
                    /\ write.response = 0
                    /\ beat.memory = IF ToDevice(wreq) THEN memory ELSE writeRam(address)
               /\ ToDevice(wreq) /\ wreq.length # 0 => beat.response # 0
               /\ Answerable => beat.response = 0
<1> DEFINE beat == WriteBeat(write)
           a == wreq.address
           s == wreq.size
           l == wreq.length
           k == Len(beats)
           address == (a + k * s) % AddressSpace
<1>1. WriteInPlace
  BY DEF WritesInv
<1>2. a \in 0..(AddressSpace - 1) /\ a \in Nat /\ s \in Nat \ {0} /\ l \in Nat
      /\ AddressSpace \in Nat \ {0}
  BY RequestOf, PlatformAssumption, AXIAssumption DEF Request
<1>3. k \in 0..l /\ write.beat = k /\ write.length = l /\ write.size = s /\ write.address = a + k * s
  BY <1>1, <1>2 DEF WriteInPlace, ControlInv, SlotsExclusive, ControlTypeOK
<1>4. address \in Nat /\ address = write.address % AddressSpace
  <2>1. a + k * s \in Nat
    BY <1>2, <1>3
  <2> QED
    BY <1>2, <1>3, <2>1
<1>5. k = 0 => address = a
  <2>1. k = 0 => a + k * s = a
    BY <1>2
  <2> QED
    BY <1>2, <2>1
<1>6. s * (l + 1) \in Nat
  BY <1>2
<1>7. k = 0 <=> beats = <<>>
  BY <1>1 DEF WriteInPlace
<1>8. Answerable => write.response = 0
  BY <1>1 DEF WriteInPlace
<1>9. ToDevice(wreq) /\ k # 0 => write.response # 0
  BY <1>1, <1>3, <1>7 DEF WriteInPlace
<1>10. ASSUME Answerable, HasPlatform
       PROVE  isWriteCombine(address, s * (l + 1)) \/ (isRam(address, s) /\ ~isDevice(address, s))
  <2>1. /\ Ram \in Region /\ RegionEnd(Ram) <= AddressSpace
        /\ WriteCombine \in Region /\ RegionEnd(WriteCombine) <= AddressSpace
    BY PlatformAssumption
  <2>2. a + k * s \in 0..(AddressSpace - 1) => address = a + k * s
    <3> DEFINE x == a + k * s
    <3>1. x \in 0..(AddressSpace - 1) => x % AddressSpace = x
      <4> HIDE DEF x
      <4> QED
        BY <1>2
    <3> QED
      BY <3>1
  <2>3. CASE isRam(a, s * (l + 1))
    <3>1. isRam(address, s)
      BY <1>2, <1>3, <2>1, <2>2, <2>3, BeatWithin DEF isRam
    <3> QED
      BY <1>2, <1>4, <3>1, RamExclusive
  <2>4. CASE isWriteCombine(a, s * (2 * l + 1))
    BY <1>2, <1>3, <2>1, <2>2, <2>4, BeatWithin DEF isWriteCombine
  <2> QED
    BY <1>10, <2>3, <2>4 DEF Answerable
<1>11. ToDevice(wreq) /\ k = 0 =>
         /\ HasPlatform /\ isDevice(address, s) /\ ~isWriteCombine(address, s * (l + 1))
  BY <1>2, <1>4, <1>5, <1>6, WindowExclusive DEF ToDevice
<1>12. HasPlatform /\ isDevice(address, s) /\ l = 0 => ToDevice(wreq)
  BY <1>2, <1>3, <1>5 DEF ToDevice
<1>13. /\ HasPlatform /\ isWriteCombine(address, s * (l + 1)) =>
             beat.memory = writeRam(address) /\ beat.response = write.response
       /\ HasPlatform /\ ~isWriteCombine(address, s * (l + 1)) /\ isDevice(address, s) =>
             /\ beat.memory = memory /\ beat.response \in {2, write.response}
             /\ l # 0 => beat.response = 2
       /\ ~(HasPlatform /\ isWriteCombine(address, s * (l + 1))) /\ ~(HasPlatform /\ isDevice(address, s)) =>
             IF HasPlatform /\ ~isRam(address, s) THEN beat.memory = memory /\ beat.response = 3
             ELSE beat.memory = writeRam(address) /\ beat.response = write.response
  <2> DEFINE word == write.address % AddressSpace
             n == write.size * (write.length + 1)
  <2>1. address = word /\ n = s * (l + 1)
    BY <1>3, <1>4
  <2> HIDE DEF address
  <2>2. HasPlatform /\ isWriteCombine(word, n) =>
          beat.memory = writeRam(word) /\ beat.response = write.response
    BY DEF WriteBeat
  <2>3. HasPlatform /\ ~isWriteCombine(word, n) /\ isDevice(word, write.size) =>
          /\ beat.memory = memory /\ beat.response \in {2, write.response}
          /\ write.length # 0 => beat.response = 2
    BY DEF WriteBeat
  <2>4. ~(HasPlatform /\ isWriteCombine(word, n)) /\ ~(HasPlatform /\ isDevice(word, write.size)) =>
          IF HasPlatform /\ ~isRam(word, write.size) THEN beat.memory = memory /\ beat.response = 3
          ELSE beat.memory = writeRam(word) /\ beat.response = write.response
    BY DEF WriteBeat
  <2> HIDE DEF word, beat, s, l, n
  <2> QED
    BY <1>3, <2>1, <2>2, <2>3, <2>4
<1> HIDE DEF beat, address, a, s, l, k
<1>14. beat.response = 0 =>
         /\ write.response = 0
         /\ beat.memory = IF ToDevice(wreq) THEN memory ELSE writeRam(address)
  BY <1>9, <1>11, <1>12, <1>13
<1>15. ToDevice(wreq) /\ l # 0 => beat.response # 0
  BY <1>9, <1>11, <1>13
<1>16. Answerable => beat.response = 0
  BY <1>8, <1>10, <1>13
<1> QED
  BY <1>14, <1>15, <1>16 DEF beat, address, a, s, l, k

\* The fields of the write transaction after a beat.
LEMMA AfterBeatFields ==
    ASSUME NEW wr \in WriteTransaction, NEW response \in Response
    PROVE  LET next == AfterBeat(wr, response)
               ends == wd.last \/ wr.beat = wr.length
           IN  /\ next.size = wr.size /\ next.length = wr.length /\ next.response = response
               /\ ~ends => next.address = wr.address + wr.size /\ next.beat = wr.beat + 1
<1>1. CASE wd.last \/ wr.beat = wr.length
  BY <1>1 DEF AfterBeat, WriteTransaction
<1>2. CASE ~(wd.last \/ wr.beat = wr.length)
  BY <1>2 DEF AfterBeat, WriteTransaction
<1> QED
  BY <1>1, <1>2

\* A write burst that is accepted starts at its own address, with memory untouched.
LEMMA AcceptPlace ==
    ASSUME ControlInv, DataTypes, WritesInv, NEW rReady \in BOOLEAN, NEW bReady \in BOOLEAN,
           Update(rReady, bReady), awFires
    PROVE  write'.active /\ WriteInPlace'
<1>1. /\ ~wFires /\ ~write.active /\ ~write.responseValid /\ write' = AcceptWrite(write)
      /\ memory' = memory /\ scenario' = scenario
  BY UpdateWriteEffect DEF Update
<1>2. /\ write'.active /\ write'.size = aw.size /\ write'.length = aw.length /\ write'.beat = 0
      /\ write'.address = aw.address /\ write'.response = 0
  BY <1>1 DEF AcceptWrite
<1>3. before' = memory /\ wreq' = aw /\ beats' = <<>>
  BY <1>1, <1>2 DEF Update, RecordWrite, WritesInv
<1>4. \E request \in scenario.writes : aw = Asserted(request)
  BY DEF WritesInv, awFires
<1>5. memory \in [WordAddresses -> Word] /\ aw \in Request
  BY DEF DataTypes, ControlInv, ControlTypeOK
<1>6. BurstResult' = before'
  BY <1>3, <1>5, NoBeats
<1>7. aw.address = aw.address + 0 * aw.size
  BY <1>5 DEF Request
<1> QED
  BY <1>1, <1>2, <1>3, <1>4, <1>5, <1>6, <1>7 DEF WriteInPlace

\* A write beat leaves memory as the beats so far make it.
LEMMA BeatPlace ==
    ASSUME ControlInv, DataTypes, WritesInv, NEW rReady \in BOOLEAN, NEW bReady \in BOOLEAN,
           Update(rReady, bReady), wFires
    PROVE  (write'.active \/ write'.responseValid) /\ WriteInPlace'
<1> DEFINE beat == WriteBeat(write)
           ends == wd.last \/ write.beat = write.length
           address == (wreq.address + Len(beats) * wreq.size) % AddressSpace
<1>1. /\ ~awFires /\ write.active /\ ~write.responseValid
      /\ write' = AfterBeat(write, beat.response)
      /\ memory' = beat.memory /\ scenario' = scenario
  BY UpdateWriteEffect DEF Update
<1>2. write \in WriteTransaction /\ wd \in DataBeat /\ write.beat <= write.length
      /\ wd.last \in BOOLEAN /\ write.response \in Response
  BY <1>1 DEF ControlInv, ControlTypeOK, WriteTransaction, DataBeat, SlotsExclusive
<1>3. beat.response \in Response
  BY <1>2, WriteBeatResponse
<1>4. WriteInPlace
  BY <1>1 DEF WritesInv
<1>5. ends <=> write.beat = write.length
  <2>1. /\ wd.valid /\ ~aw.valid /\ owedData \in Nat
        /\ owedData + 1 = write.length - write.beat + 1
        /\ wd.last <=> owedData = 0
    BY <1>1 DEF BeatsAgree, InFlight, wFires, ControlInv, ControlTypeOK
  <2> QED
    BY <1>2, <2>1 DEF WriteTransaction
<1>6. /\ beat.response = 0 =>
           /\ write.response = 0
           /\ beat.memory = IF ToDevice(wreq) THEN memory ELSE writeRam(address)
      /\ ToDevice(wreq) /\ wreq.length # 0 => beat.response # 0
      /\ Answerable => beat.response = 0
  BY <1>1, BeatOutcome
<1> HIDE DEF beat
<1>7. /\ write'.active = ~ends /\ write'.responseValid = ends
      /\ write'.size = write.size /\ write'.length = write.length /\ write'.response = beat.response
      /\ ~ends => write'.address = write.address + write.size /\ write'.beat = write.beat + 1
  BY <1>1, <1>2, <1>3, AfterBeatType, AfterBeatFields
<1>8. before' = before /\ wreq' = wreq /\ beats' = Append(beats, wd)
  BY <1>1, <1>7 DEF Update, RecordWrite
<1>9. wreq \in Request /\ \E request \in scenario.writes : wreq = Asserted(request)
  BY <1>1, RequestOf
<1>10. /\ write.size = wreq.size /\ write.length = wreq.length
       /\ before \in [WordAddresses -> Word] /\ beats \in Seq(DataBeat)
       /\ Len(beats) = write.beat /\ write.address = wreq.address + write.beat * wreq.size
       /\ write.response = 0 => memory = IF ToDevice(wreq) THEN before ELSE BurstResult
  BY <1>1, <1>4 DEF WriteInPlace
<1>11. beats' \in Seq(DataBeat) /\ Len(beats') = write.beat + 1 /\ beats' # <<>>
  BY <1>2, <1>8, <1>10
<1>12. Len(beats') = IF write'.active THEN write'.beat ELSE wreq.length + 1
  BY <1>5, <1>7, <1>10, <1>11
<1>13. ~ends => write'.address = wreq.address + write'.beat * wreq.size
  <2>1. write.beat \in Nat /\ wreq.size \in Nat /\ wreq.address \in Nat
    BY <1>2, <1>9 DEF WriteTransaction, Request
  <2>2. (write.beat + 1) * wreq.size = write.beat * wreq.size + wreq.size
        /\ write.beat * wreq.size \in Nat
    BY <2>1
  <2> QED
    BY <1>7, <1>10, <2>1, <2>2
<1>14. beat.response = 0 => memory' = IF ToDevice(wreq) THEN before ELSE BurstResult'
  <2>1. ASSUME beat.response = 0, ~ToDevice(wreq) PROVE BurstResult' = writeRam(address)
    <3>1. memory = BurstResult
      BY <1>6, <1>10, <2>1
    <3> QED
      BY <1>2, <1>8, <1>9, <1>10, <3>1, BurstGrows
  <2> QED
    BY <1>1, <1>6, <1>10, <2>1
<1>15. ToDevice(wreq)' = ToDevice(wreq) /\ Answerable' = Answerable
  BY <1>1, <1>8 DEF ToDevice, Answerable, HasPlatform
<1>16. ends \/ ~ends
  OBVIOUS
<1> HIDE DEF ends
<1> QED
  BY <1>1, <1>6, <1>7, <1>8, <1>9, <1>10, <1>11, <1>12, <1>13, <1>14, <1>15 DEF WriteInPlace

\* A step that leaves the transaction, memory and the history of it alone.
LEMMA QuietPlace ==
    ASSUME WritesInv, UNCHANGED <<scenario, write, memory, before, beats, wreq>>,
           aw'.valid => \E request \in scenario.writes : aw' = Asserted(request)
    PROVE  WritesInv'
<1>1. BurstResult' = BurstResult
  BY DEF BurstResult, WritesByte, BeatBase, Max
<1>2. ToDevice(wreq)' = ToDevice(wreq) /\ Answerable' = Answerable
  BY DEF ToDevice, Answerable, HasPlatform
<1>3. WriteInPlace => WriteInPlace'
  BY <1>1, <1>2 DEF WriteInPlace
<1> QED
  BY <1>3 DEF WritesInv

\* The invariant about write bursts is inductive.
LEMMA WritesStep == MachineInv /\ WritesInv /\ [Next]_vars => WritesInv'
<1> SUFFICES ASSUME ControlInv, DataTypes, WritesInv, [Next]_vars PROVE WritesInv'
  BY DEF MachineInv
<1>0. aw.valid => \E request \in scenario.writes : aw = Asserted(request)
  BY DEF WritesInv
<1>1. ASSUME NEW byte \in Byte, AppendInput(byte) PROVE WritesInv'
  BY <1>0, <1>1, QuietPlace DEF AppendInput, core, writeHistory
<1>2. ASSUME NEW random \in Randoms, Drive(random) PROVE WritesInv'
  BY <1>0, <1>2, QuietPlace DEF Drive, core, writeHistory
<1>3. ASSUME NEW rReady \in BOOLEAN, NEW bReady \in BOOLEAN, Update(rReady, bReady) PROVE WritesInv'
  <2>1. scenario' = scenario /\ aw' = IF awFires THEN NoRead ELSE aw
    BY <1>3 DEF Update, CoreAfter
  <2>2. aw'.valid => \E request \in scenario'.writes : aw' = Asserted(request)
    BY <1>0, <2>1 DEF NoRead
  <2>3. CASE awFires
    BY <1>3, <2>2, <2>3, AcceptPlace DEF WritesInv
  <2>4. CASE wFires
    BY <1>3, <2>2, <2>4, BeatPlace DEF WritesInv
  <2>5. CASE ~awFires /\ ~wFires
    <3>1. /\ memory' = memory
          /\ \/ write' = write
             \/ write.responseValid /\ write' = [write EXCEPT !.responseValid = FALSE]
      BY <1>3, <2>5, UpdateWriteEffect DEF Update
    <3>2. CASE write'.active \/ write'.responseValid
      <4>1. write' = write
        <5>1. write.responseValid => ~write.active
          BY DEF ControlInv, SlotsExclusive
        <5>2. ~[write EXCEPT !.responseValid = FALSE].responseValid
              /\ [write EXCEPT !.responseValid = FALSE].active = write.active
          BY DEF ControlInv, ControlTypeOK
        <5> QED
          BY <3>1, <3>2, <5>1, <5>2
      <4>2. before' = before /\ wreq' = wreq /\ beats' = beats
        BY <1>3, <2>5, <3>2 DEF Update, RecordWrite
      <4> QED
        BY <2>1, <2>2, <3>1, <4>1, <4>2, QuietPlace
    <3>3. CASE ~(write'.active \/ write'.responseValid)
      BY <1>3, <2>2, <3>3 DEF Update, RecordWrite, WritesInv
    <3> QED
      BY <3>2, <3>3
  <2> QED
    BY <2>3, <2>4, <2>5
<1>4. ASSUME Edge PROVE WritesInv'
  <2>1. aw'.valid => \E request \in scenario.writes : aw' = Asserted(request)
    BY <1>0, <1>4 DEF Edge, RaiseWrite, RaiseData
  <2> QED
    BY <1>4, <2>1, QuietPlace DEF Edge, writeHistory
<1>5. ASSUME UNCHANGED vars PROVE WritesInv'
  BY <1>0, <1>5, QuietPlace DEF vars, core, writeHistory
<1> QED
  BY <1>1, <1>2, <1>3, <1>4, <1>5 DEF Next, Stopped

(* An OKAY response stands for the whole burst, whatever is read meanwhile *)
(* and wherever the burst crosses from one region of the map to another;   *)
(* and RAM, or a window with room for it, never refuses a burst.           *)
THEOREM WritesCorrect == Spec => []OkayMeansWritten
<1>1. Init => WritesInv
  BY DEF Init, WritesInv, IdleWrite, NoRead
<1>2. ControlInv /\ WritesInv => OkayMeansWritten
  BY DEF ControlInv, SlotsExclusive, WritesInv, WriteInPlace, OkayMeansWritten, Answerable
<1>3. MachineInv => ControlInv
  BY DEF MachineInv
<1> QED
  BY <1>1, <1>2, <1>3, WritesStep, MachineCorrect, PTL DEF Spec

(***************************************************************************)
(* The exit monitor                                                        *)
(***************************************************************************)

(* ExitMirrorsTohost is not inductive by itself: a cycle only updates after *)
(* a cycle without an exit, a beat has strobes the core may send, and the   *)
(* address of a beat is a place of a request (WritesInv).                   *)
ExitInv ==
    /\ ExitMirrorsTohost
    /\ phase = "update" => ~exited
    /\ wd.valid => \E beat \in scenario.beats : wd.strobe = beat.strobe

\* An address as container and offset.
LEMMA Offset ==
    ASSUME NEW p \in Nat, NEW u \in 0..(BusBytes - 1)
    PROVE  /\ p * BusBytes + u \in Nat /\ p * BusBytes \in Nat
           /\ BusBase(p * BusBytes + u) = p * BusBytes
           /\ u - (u % 4) \in 0..(BusBytes - 1)
           /\ WordOf(p * BusBytes + u) = p * BusBytes + (u - (u % 4))
<1>1. BusWords \in Nat \ {0} /\ BusBytes = 4 * BusWords /\ BusBytes \in Nat \ {0}
  BY AXIAssumption DEF BusBytes
<1> DEFINE c == p * BusBytes
           t == p * BusWords
<1>2. c \in Nat /\ t \in Nat
  BY <1>1
<1>3. c = 4 * t
  BY <1>1
<1>4. (c + u) % BusBytes = u
  BY <1>1, DivUnique
<1> HIDE DEF c, t
<1>5. BusBase(c + u) = c
  BY <1>1, <1>2, <1>4 DEF BusBase
<1>6. u \in Nat /\ (c + u) % 4 = u % 4
  BY <1>1, <1>2, <1>3
<1>7. u - (u % 4) \in 0..(BusBytes - 1) /\ u % 4 \in Int
  BY <1>1, <1>6
<1>8. WordOf(c + u) = c + (u - (u % 4))
  BY <1>2, <1>6, <1>7 DEF WordOf
<1> QED
  BY <1>2, <1>5, <1>6, <1>7, <1>8 DEF c

\* An address is the base of a container and a place in it.
LEMMA HasOffset ==
    ASSUME NEW x \in Nat
    PROVE  \E p \in Nat, u \in 0..(BusBytes - 1) : x = p * BusBytes + u /\ x % BusBytes = u
<1>1. BusBytes \in Nat \ {0}
  BY AXIAssumption DEF BusBytes
<1>2. x = (x \div BusBytes) * BusBytes + (x % BusBytes) /\ x % BusBytes \in 0..(BusBytes - 1)
      /\ x \div BusBytes \in Nat
  BY <1>1
<1> QED
  BY <1>2

\* An address belongs to the container that its word belongs to, and to no other.
LEMMA SameContainer ==
    ASSUME NEW x \in Nat, NEW y \in Nat
    PROVE  /\ WordOf(x) \in Nat /\ WordOf(x) % 4 = 0 /\ WordOf(WordOf(x)) = WordOf(x)
           /\ BusBase(WordOf(x)) = BusBase(x)
           /\ WordOf(x) = WordOf(y) => BusBase(x) = BusBase(y)
           /\ x \in BusBase(y)..(BusBase(y) + BusBytes - 1) <=> BusBase(x) = BusBase(y)
           /\ x - BusBase(x) = x % BusBytes
<1>1. BusBytes \in Nat \ {0}
  BY AXIAssumption DEF BusBytes
<1>2. WordOf(x) \in Nat /\ WordOf(x) % 4 = 0 /\ WordOf(WordOf(x)) = WordOf(x)
  BY DEF WordOf
<1>3. ASSUME NEW z \in Nat PROVE BusBase(WordOf(z)) = BusBase(z)
  <2>1. PICK p \in Nat, u \in 0..(BusBytes - 1) : z = p * BusBytes + u
    BY HasOffset
  <2>2. u - (u % 4) \in 0..(BusBytes - 1)
    BY Offset
  <2>3. BusBase(p * BusBytes + (u - (u % 4))) = p * BusBytes
    BY <2>2, Offset
  <2> QED
    BY <2>1, <2>3, Offset
<1>4. x \in BusBase(y)..(BusBase(y) + BusBytes - 1) <=> BusBase(x) = BusBase(y)
  <2>1. PICK p \in Nat, u \in 0..(BusBytes - 1) : x = p * BusBytes + u
    BY HasOffset
  <2>2. PICK q \in Nat, v \in 0..(BusBytes - 1) : y = q * BusBytes + v
    BY HasOffset
  <2> DEFINE c == p * BusBytes
             d == q * BusBytes
  <2>3. BusBase(x) = c /\ BusBase(y) = d /\ c \in Nat /\ d \in Nat /\ x = c + u
    BY <2>1, <2>2, Offset
  <2>4. ASSUME x \in d..(d + BusBytes - 1) PROVE c = d
    <3>1. x - d \in 0..(BusBytes - 1) /\ x = d + (x - d)
      BY <1>1, <2>3, <2>4
    <3>2. BusBase(d + (x - d)) = d
      BY <3>1, Offset
    <3> QED
      BY <2>3, <3>1, <3>2
  <2> HIDE DEF c, d
  <2>5. c = d => x \in d..(d + BusBytes - 1)
    BY <1>1, <2>3
  <2> QED
    BY <2>3, <2>4, <2>5
<1>5. x - BusBase(x) = x % BusBytes
  BY <1>1 DEF BusBase
<1> QED
  BY <1>2, <1>3, <1>4, <1>5

\* One beat of a machine with a tohost word: the monitor takes from it what memory
\* takes there, and reports it if the word is odd afterwards.
LEMMA ExitBeat ==
    ASSUME ControlInv, DataTypes, WritesInv, ExitInv, HasTohost, ~exited,
           NEW bReady \in BOOLEAN, phase = "update", UpdateWrite(bReady), wFires
    PROVE  /\ exitValue' = memory'[WordOf(Tohost)]
           /\ exited' = (memory'[WordOf(Tohost)][0] % 2 = 1)
<1> DEFINE address == write.address % AddressSpace
           T == WordOf(Tohost)
           base == BusBase(address)
           data == NarrowData(address)
           strobe == NarrowStrobe(address)
<1>1. /\ write.active /\ memory' = WriteBeat(write).memory
      /\ exitValue' = observeWrite(address, data, strobe)
      /\ exited' = ExitReported(address, exitValue')
  BY UpdateWriteEffect
<1>2. PICK request \in scenario.writes : wreq = Asserted(request)
  BY <1>1, RequestOf
<1>3. PICK beat \in scenario.beats : wd.strobe = beat.strobe
  BY DEF ExitInv, wFires
<1>4. /\ wd \in DataBeat /\ memory \in [WordAddresses -> Word] /\ exitValue \in Word
      /\ write.beat \in 0..write.length /\ scenario \in Scenarios
  BY <1>1 DEF ControlInv, ControlTypeOK, SlotsExclusive, DataBeat, DataTypes
<1>5. /\ write.length = request.length
      /\ write.address = request.address + write.beat * request.size
  BY <1>1, <1>2 DEF WritesInv, WriteInPlace, Asserted
<1>6. ~HasPlatform
  BY <1>4, TohostAssumption DEF HasTohost, HasPlatform
<1>7. memory' = writeRam(address)
  BY <1>1, <1>6 DEF WriteBeat
<1>8. base = BusBase(Tohost) =>
        \/ address = T
        \/ /\ WordOf(address) # T
           /\ \A lane \in Lanes : (T - BusBase(Tohost)) + lane \notin wd.strobe
  <2>1. \A k \in 0..request.length :
          LET a == (request.address + k * request.size) % AddressSpace
          IN  BusBase(a) = BusBase(Tohost) =>
                \/ a = WordOf(Tohost)
                \/ /\ WordOf(a) # WordOf(Tohost)
                   /\ \A lane \in Lanes : (WordOf(Tohost) - BusBase(Tohost)) + lane \notin beat.strobe
    BY <1>4, TohostAssumption DEF HasTohost
  <2> QED
    BY <1>3, <1>4, <1>5, <2>1
<1>9. /\ address \in 0..(AddressSpace - 1) /\ address \in Nat /\ Tohost \in Nat
      /\ BusBytes \in Nat \ {0} /\ T \in WordAddresses
  <2>1. write.address \in Nat /\ AddressSpace \in Nat /\ AddressSpace > 0
        /\ Tohost \in 0..(AddressSpace - 1) /\ BusWords \in Nat \ {0}
    BY AXIAssumption, PlatformAssumption DEF ControlInv, ControlTypeOK
  <2> QED
    BY <2>1 DEF BusBytes, WordAddresses, WordOf
<1>10. \A lane \in Lanes :
         memory'[T][lane] = IF T \in base..(base + BusBytes - 1) /\ (T - base) + lane \in wd.strobe
                            THEN wd.data[(T - base) \div 4][lane] ELSE memory[T][lane]
  BY <1>4, <1>7, <1>9, RamWritten
<1>11. memory'[T] \in Word /\ memory[T] \in Word
  BY <1>4, <1>7, <1>9, RamWritten
<1>12. exitValue = memory[T] /\ ~(memory[T][0] % 2 = 1)
  BY DEF ExitInv, ExitMirrorsTohost
<1>13. /\ T \in Nat /\ T % 4 = 0 /\ WordOf(T) = T /\ BusBase(T) = BusBase(Tohost)
       /\ WordOf(address) = T => base = BusBase(Tohost)
       /\ T \in base..(base + BusBytes - 1) <=> BusBase(T) = base
  BY <1>9, SameContainer
<1>14. CASE address = T
  <2>1. base = BusBase(T) /\ WordOf(address) = T /\ address % 4 = 0
    BY <1>13, <1>14
  <2>2. T - base = T % BusBytes
    BY <1>13, <2>1, SameContainer
  <2>3. 4 * NarrowWord(address) = T - base /\ NarrowWord(address) = (T - base) \div 4
    <3>1. BusBytes = 4 * BusWords /\ BusWords \in Nat \ {0} /\ T \in Nat
      BY <1>13, AXIAssumption DEF BusBytes
    <3>2. PICK p \in Nat, u \in 0..(BusBytes - 1) : T = p * BusBytes + u /\ T % BusBytes = u
      BY <1>13, HasOffset
    <3>3. u % 4 = 0
      <4>1. WordOf(p * BusBytes + u) = p * BusBytes + (u - (u % 4)) /\ p * BusBytes \in Nat
        BY Offset
      <4>2. p * BusBytes + u = p * BusBytes + (u - (u % 4))
        BY <1>13, <3>2, <4>1
      <4> DEFINE c == p * BusBytes
      <4>3. c \in Nat /\ c + u = c + (u - (u % 4))
        BY <4>1, <4>2
      <4> HIDE DEF c
      <4> QED
        BY <3>1, <4>3
    <3>4. (u \div 4) * 4 = u
      BY <3>1, <3>3
    <3> QED
      BY <1>14, <2>2, <3>1, <3>2, <3>4 DEF NarrowWord
  <2>4. \A lane \in Lanes : lane \in strobe <=> (T - base) + lane \in wd.strobe
    <3>1. T - base \in Nat
      BY <1>9, <1>13, <2>2
    <3>2. \A lane \in Lanes : lane + 4 * NarrowWord(address) = (T - base) + lane
      <4> DEFINE d == T - base
      <4>1. d \in Nat /\ 4 * NarrowWord(address) = d
        BY <2>3, <3>1
      <4> HIDE DEF d
      <4>2. \A lane \in Lanes : lane + d = d + lane
        BY <4>1 DEF Lanes
      <4> QED
        BY <4>1, <4>2 DEF d
    <3> QED
      BY <3>2 DEF NarrowStrobe
  <2>5. data = wd.data[(T - base) \div 4]
    BY <2>3 DEF NarrowData
  <2>6. \A lane \in Lanes : lane - (address % 4) = lane
    BY <2>1 DEF Lanes
  <2> HIDE DEF data, strobe, address, base
  <2>7. exitValue' = [lane \in Lanes |-> IF lane \in strobe THEN data[lane] ELSE exitValue[lane]]
    BY <1>1, <2>1, <2>6 DEF observeWrite
  <2>8. \A lane \in Lanes : exitValue'[lane] = memory'[T][lane]
    BY <1>10, <1>12, <1>13, <2>1, <2>4, <2>5, <2>7
  <2>9. exitValue' = memory'[T]
    BY <1>11, <2>7, <2>8 DEF Word
  <2>10. exited' = (exitValue'[0] % 2 = 1)
    BY <1>1, <2>1 DEF ExitReported
  <2> QED
    BY <2>9, <2>10
<1>15. CASE address # T
  <2>1. WordOf(address) # T
    BY <1>8, <1>13, <1>15
  <2>2. exitValue' = exitValue /\ exited' = FALSE
    BY <1>1, <2>1 DEF observeWrite, ExitReported
  <2>3. \A lane \in Lanes : memory'[T][lane] = memory[T][lane]
    BY <1>8, <1>10, <1>13, <1>15
  <2>4. memory'[T] = memory[T]
    BY <1>11, <2>3 DEF Word
  <2> QED
    BY <1>12, <2>2, <2>4
<1> QED
  BY <1>14, <1>15

\* The invariant about the exit monitor is inductive.
LEMMA ExitStep == MachineInv /\ WritesInv /\ ExitInv /\ [Next]_vars => ExitInv'
<1> SUFFICES ASSUME ControlInv, DataTypes, WritesInv, ExitInv, [Next]_vars PROVE ExitInv'
  BY DEF MachineInv
<1>0. /\ wd.valid => \E beat \in scenario.beats : wd.strobe = beat.strobe
      /\ ExitMirrorsTohost
      /\ phase = "update" => ~exited
  BY DEF ExitInv
<1>1. ASSUME UNCHANGED <<scenario, memory, exitValue, exited>> PROVE ExitMirrorsTohost'
  BY <1>0, <1>1 DEF ExitMirrorsTohost, HasTohost
<1>2. ASSUME NEW byte \in Byte, AppendInput(byte) PROVE ExitInv'
  BY <1>0, <1>1, <1>2 DEF AppendInput, core, ExitInv
<1>3. ASSUME NEW random \in Randoms, Drive(random) PROVE ExitInv'
  BY <1>0, <1>1, <1>3 DEF Drive, core, ExitInv
<1>4. ASSUME NEW rReady \in BOOLEAN, NEW bReady \in BOOLEAN, Update(rReady, bReady) PROVE ExitInv'
  <2>1. /\ phase = "update" /\ UpdateWrite(bReady) /\ scenario' = scenario /\ phase' = "edge"
        /\ wd' = IF wFires THEN NoData ELSE wd
    BY <1>4 DEF Update, CoreAfter
  <2>2. wd'.valid => \E beat \in scenario'.beats : wd'.strobe = beat.strobe
    BY <1>0, <2>1 DEF NoData
  <2>3. ~exited
    BY <1>0, <2>1
  <2>4. ExitMirrorsTohost'
    <3>1. CASE wFires
      BY <2>1, <2>3, <3>1, ExitBeat DEF ExitMirrorsTohost, HasTohost
    <3>2. CASE ~wFires
      <4>1. UNCHANGED <<memory, exitValue>> /\ exited' = FALSE
        BY <2>1, <3>2, UpdateWriteEffect
      <4>2. exited \in BOOLEAN
        BY DEF ControlInv, ControlTypeOK
      <4> QED
        BY <1>1, <2>1, <2>3, <4>1, <4>2
    <3> QED
      BY <3>1, <3>2
  <2> QED
    BY <2>1, <2>2, <2>4 DEF ExitInv
<1>5. ASSUME Edge PROVE ExitInv'
  <2>1. wd'.valid => \E beat \in scenario.beats : wd'.strobe = beat.strobe
    BY <1>0, <1>5 DEF Edge, RaiseWrite, RaiseData
  <2> QED
    BY <1>0, <1>1, <1>5, <2>1 DEF Edge, ExitInv
<1>6. ASSUME UNCHANGED vars PROVE ExitInv'
  BY <1>0, <1>1, <1>6 DEF vars, core, ExitInv
<1> QED
  BY <1>2, <1>3, <1>4, <1>5, <1>6 DEF Next, Stopped

(* The monitor neither misses a write to tohost nor invents one: it holds   *)
(* the word that memory holds, and the run stops exactly when it is odd.    *)
THEOREM ExitCorrect == Spec => []ExitMirrorsTohost
<1>1. Init => WritesInv /\ ExitInv
  <2> SUFFICES ASSUME Init PROVE WritesInv /\ ExitInv
    OBVIOUS
  <2>1. WritesInv
    BY DEF Init, WritesInv, IdleWrite, NoRead
  <2>2. WordOf(Tohost) \in WordAddresses
    BY AXIAssumption, PlatformAssumption DEF WordAddresses, WordOf
  <2>3. memory[WordOf(Tohost)] = ZeroWord /\ exitValue = ZeroWord /\ exited = FALSE
    BY <2>2 DEF Init
  <2>4. ~(ZeroWord[0] % 2 = 1)
    BY DEF ZeroWord, Lanes
  <2> QED
    BY <2>1, <2>3, <2>4 DEF Init, ExitInv, ExitMirrorsTohost, NoData
<1>2. ExitInv => ExitMirrorsTohost
  BY DEF ExitInv
<1> QED
  BY <1>1, <1>2, WritesStep, ExitStep, MachineCorrect, PTL DEF Spec
=============================================================================
