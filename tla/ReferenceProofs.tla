---------------------------- MODULE ReferenceProofs ----------------------------
(***************************************************************************)
(* Proofs about the use of SpikeReference: its save and restore            *)
(* (ReferenceRestore) and the comparison of vector instructions with it    *)
(* (VectorCompare).                                                        *)
(*                                                                         *)
(* ReferenceRestore, for any translations, interrupts and size of the      *)
(* counter: the invariant relates the resumed instance to the original     *)
(* field by field; every instruction is shown to keep that relation, and   *)
(* Restored to establish it.                                               *)
(*                                                                         *)
(* VectorCompare, for any register file, program, results and faults: the  *)
(* decoding is shown to find the class of every encoding, so that the      *)
(* elements the code takes for agnostic are those that may hold anything   *)
(* and RegistersMatch compares with a right core; the bytes a right core   *)
(* drains are shown to be those Spike writes, in the same order.           *)
(***************************************************************************)
EXTENDS ReferenceRestore, VectorCompare, WellFoundedInduction, FiniteSetTheorems, SequenceTheorems, TLAPS

(***************************************************************************)
(* ReferenceRestore: the invariant                                         *)
(***************************************************************************)

\* A reference as next leaves it: an address is noted only under a reservation.
Sound(h) == h \in Hart /\ (h.tracked # None => h.reserved # None)

\* What restore always brings back, and what it brings back unless it was lost.
SameFields(c, h) ==
    /\ c.prv = h.prv /\ c.fs = h.fs /\ c.sie = h.sie /\ c.mie = h.mie
    /\ c.mideleg = h.mideleg /\ c.paged = h.paged /\ c.mcycle = h.mcycle
Related(c, h) ==
    /\ SameFields(c, h)
    /\ (c.fflags = h.fflags /\ c.frm = h.frm) \/ "fcsr" \in lost
    /\ c.reserved = h.reserved \/ "reservation" \in lost
    /\ h.reserved = None => c.reserved = None

IInv ==
    /\ TypeOK
    /\ Sound(hart)
    /\ resumed = "yes" => Related(copy, hart)
    /\ agreed \/ (resumed = "yes" /\ lost # {})
    /\ AbortNeedsStaleAddress

(***************************************************************************)
(* The writes of CSRs and the restore                                      *)
(***************************************************************************)

\* The counter stays within its width, and the increment that Spike takes
\* back before a write is exactly the one that follows it.
LEMMA CounterWraps ==
    ASSUME NEW v \in 0..(CounterSize - 1)
    PROVE  /\ (v + 1) % CounterSize \in 0..(CounterSize - 1)
           /\ (v + CounterSize - 1) % CounterSize \in 0..(CounterSize - 1)
           /\ (((v + CounterSize - 1) % CounterSize) + 1) % CounterSize = v
<1> USE ReferenceAssumption
<1> DEFINE w == (v + CounterSize - 1) % CounterSize
<1>1. (v + 1) % CounterSize \in 0..(CounterSize - 1) /\ w \in 0..(CounterSize - 1)
  OBVIOUS
<1>2. CASE v = 0
  BY <1>2
<1>3. CASE v # 0
  <2>1. w = v - 1
    BY <1>3
  <2> QED
    BY <1>3, <2>1
<1> QED
  BY <1>1, <1>2, <1>3

\* What a restored reference holds, whatever order its registers were written in.
LEMMA RestoredFields ==
    ASSUME NEW s \in Hart
    PROVE  LET r == Restored(s)
           IN  /\ SameFields(r, s)
               /\ s.fs # Off => r.fflags = s.fflags /\ r.frm = s.frm
               /\ s.fs = Off => r.fflags = 0 /\ r.frm = 0
               /\ r.tracked = s.tracked
               /\ r.reserved = IF s.tracked = None THEN None ELSE Translate(s, s.tracked)
               /\ r.reserved # Fault => r \in Hart
<1> DEFINE floating == RestoreFloating(mstatusWrite(Fresh, s.fs, s.sie), s)
           delegated == sieWrite(sstatusWrite(floating, s.fs, s.sie), s.mie \cap s.mideleg)
           csrs == RestoreCsrs(Fresh, s)
           counted == RestoreCounter(csrs, s)
           r == Restored(s)
<1>a. floating = [prv |-> "M", fs |-> IF s.fs = Off THEN s.fs ELSE Dirty, sie |-> s.sie,
                  mie |-> {}, mideleg |-> {}, paged |-> FALSE,
                  fflags |-> IF s.fs = Off THEN 0 ELSE s.fflags,
                  frm |-> IF s.fs = Off THEN 0 ELSE s.frm, mcycle |-> 0,
                  reserved |-> None, tracked |-> None]
  <2>1. CASE s.fs = Off
    BY <2>1 DEF RestoreFloating, mstatusWrite, Fresh
  <2>2. CASE s.fs # Off
    BY <2>2 DEF RestoreFloating, mstatusWrite, fflagsWrite, frmWrite, fcsrWrite, Fresh
  <2> QED
    BY <2>1, <2>2
<1> HIDE DEF floating
<1>b. delegated = [floating EXCEPT !.fs = s.fs, !.sie = s.sie, !.mie = {}]
  BY <1>a DEF sstatusWrite, sieWrite, Fresh
<1>1. csrs = [prv |-> "M", fs |-> s.fs, sie |-> s.sie, mie |-> s.mie, mideleg |-> s.mideleg,
              paged |-> s.paged, fflags |-> IF s.fs = Off THEN 0 ELSE s.fflags,
              frm |-> IF s.fs = Off THEN 0 ELSE s.frm, mcycle |-> 0,
              reserved |-> None, tracked |-> None]
  <2>1. csrs = [delegated EXCEPT !.paged = s.paged, !.mideleg = s.mideleg, !.mie = s.mie]
    BY DEF RestoreCsrs, floating
  <2> HIDE DEF delegated
  <2> QED
    BY <1>a, <1>b, <2>1, ZenonT(60) DEF Fresh
<1> HIDE DEF csrs
<1>2. counted = [csrs EXCEPT !.mcycle = s.mcycle]
  BY <1>1, CounterWraps, ReferenceAssumption DEF RestoreCounter, bump, counterWrite, Hart
<1> HIDE DEF counted
<1>3. r = [prv |-> s.prv, fs |-> s.fs, sie |-> s.sie, mie |-> s.mie, mideleg |-> s.mideleg,
           paged |-> s.paged, fflags |-> IF s.fs = Off THEN 0 ELSE s.fflags,
           frm |-> IF s.fs = Off THEN 0 ELSE s.frm, mcycle |-> s.mcycle,
           reserved |-> IF s.tracked = None THEN None ELSE Translate(s, s.tracked),
           tracked |-> s.tracked]
  <2>1. r = RestoreReservation(counted, s)
    BY DEF Restored, counted, csrs
  <2> HIDE DEF r
  <2> QED
    BY <1>1, <1>2, <2>1 DEF RestoreReservation, Translate
<1> HIDE DEF r
<1>4. r.reserved # Fault => r.reserved \in PhysicalAddress \cup {None}
  BY <1>3, ReferenceAssumption DEF Translate, Hart
<1> QED
  BY <1>3, <1>4 DEF SameFields, Hart, r

(***************************************************************************)
(* Instructions                                                            *)
(***************************************************************************)

\* A commit of both instances keeps the invariant when the instruction keeps
\* the original sound, and the copy related to it.
LEMMA CommitKeeps ==
    ASSUME IInv, NEW original, NEW other, Commit(original, other),
           Sound(original.hart),
           resumed = "yes" => /\ other.hart \in Hart /\ Related(other.hart, original.hart)
                              /\ other.value = original.value \/ lost # {}
    PROVE  IInv'
<1>1. CASE resumed = "yes"
  <2>1. /\ hart' = original.hart /\ copy' = other.hart /\ resumed' = resumed /\ lost' = lost
        /\ agreed' = (other.value = original.value)
    BY <1>1 DEF Commit
  <2>2. TypeOK' /\ Sound(hart)'
    BY <1>1, <2>1 DEF IInv, TypeOK, Sound
  <2>3. Related(copy, hart)' /\ (agreed' \/ lost' # {})
    BY <1>1, <2>1 DEF Related, SameFields
  <2> QED
    BY <1>1, <2>1, <2>2, <2>3 DEF IInv, AbortNeedsStaleAddress
<1>2. CASE resumed # "yes"
  <2>1. /\ hart' = original.hart /\ copy' = copy /\ resumed' = resumed /\ lost' = lost
        /\ agreed' = agreed /\ resumed = "no"
    BY <1>2 DEF Commit, IInv, TypeOK
  <2> QED
    BY <2>1 DEF IInv, TypeOK, Sound, AbortNeedsStaleAddress
<1> QED
  BY <1>1, <1>2

\* The increment of a retired instruction changes the counter only.
LEMMA RetiredFields ==
    ASSUME NEW h \in Hart, NEW value
    PROVE  LET r == Retired(h, value).hart
           IN  /\ Retired(h, value).value = value
               /\ r \in Hart
               /\ r.prv = h.prv /\ r.fs = h.fs /\ r.sie = h.sie /\ r.mie = h.mie
               /\ r.mideleg = h.mideleg /\ r.paged = h.paged
               /\ r.mcycle = (h.mcycle + 1) % CounterSize
               /\ r.fflags = h.fflags /\ r.frm = h.frm
               /\ r.reserved = h.reserved /\ r.tracked = h.tracked
  BY CounterWraps DEF Retired, bump, Hart

\* Related instances stay related, and their counters equal, when an
\* instruction retires on both.
LEMMA RetiredKeeps ==
    ASSUME NEW c, NEW h, NEW v, NEW w, c \in Hart, Sound(h), Related(c, h)
    PROVE  Retired(c, w).hart \in Hart /\ Related(Retired(c, w).hart, Retired(h, v).hart)
<1>1. h \in Hart
  BY DEF Sound
<1> QED
  BY <1>1, RetiredFields DEF Related, SameFields
\* Retiring an instruction keeps the note of the reservation sound.
LEMMA RetiredSound ==
    ASSUME NEW h, NEW v, Sound(h)
    PROVE  Sound(Retired(h, v).hart)
  BY RetiredFields DEF Sound

\* An instruction that both instances retire alike keeps the invariant.
LEMMA ActionKeeps ==
    ASSUME IInv, NEW h, NEW c, NEW v, NEW w, Commit(Retired(h, v), Retired(c, w)), Sound(h),
           resumed = "yes" => c \in Hart /\ Related(c, h) /\ (w = v \/ lost # {})
    PROVE  IInv'
<1>1. Sound(Retired(h, v).hart)
  BY RetiredSound
<1>2. ASSUME resumed = "yes"
      PROVE  /\ Retired(c, w).hart \in Hart /\ Related(Retired(c, w).hart, Retired(h, v).hart)
             /\ Retired(c, w).value = Retired(h, v).value \/ lost # {}
  <2>1. Retired(c, w).hart \in Hart /\ Related(Retired(c, w).hart, Retired(h, v).hart)
    BY <1>2, RetiredKeeps
  <2>2. Retired(c, w).value = w /\ Retired(h, v).value = v
    BY DEF Retired
  <2> QED
    BY <1>2, <2>1, <2>2
<1> QED
  BY <1>1, <1>2, CommitKeeps

\* The translation of an address is that of the original: it depends on satp
\* and the privilege only.
LEMMA TranslateSame ==
    ASSUME NEW c, NEW h, NEW va, SameFields(c, h)
    PROVE  Translate(c, va) = Translate(h, va)
  BY DEF SameFields, Translate

\* Every instruction keeps the invariant, and so does the restore: it fails
\* only where the noted address no longer translates.
LEMMA InvPreserved == IInv /\ [Next]_vars => IInv'
<1> SUFFICES ASSUME IInv, [Next]_vars PROVE IInv'
  OBVIOUS
<1>i. Sound(hart) /\ copy \in Hart /\ (resumed = "yes" => Related(copy, hart))
  BY DEF IInv, TypeOK
<1> USE <1>i
<1>1. CASE Resume
  <2> DEFINE r == Restored(hart)
  <2>1. hart \in Hart
    BY DEF Sound
  <2>2. /\ SameFields(r, hart)
        /\ hart.fs # Off => r.fflags = hart.fflags /\ r.frm = hart.frm
        /\ hart.fs = Off => r.fflags = 0 /\ r.frm = 0
        /\ r.reserved = IF hart.tracked = None THEN None ELSE Translate(hart, hart.tracked)
        /\ r.reserved # Fault => r \in Hart
    BY <2>1, RestoredFields
  <2> HIDE DEF r
  <2>3. CASE r.reserved = Fault
    <3>1. resumed' = "aborted" /\ UNCHANGED <<copy, hart, agreed>>
      BY <1>1, <2>3 DEF Resume, r
    <3>2. lost' \subseteq {"fcsr", "reservation"}
      BY <1>1 DEF Resume
    <3>3. hart.tracked # None /\ hart.reserved # Translate(hart, hart.tracked)
      BY <2>1, <2>2, <2>3, ReferenceAssumption DEF Hart
    <3> QED
      <4>1. AbortNeedsStaleAddress'
        BY <3>1, <3>3 DEF AbortNeedsStaleAddress, Translate
      <4>2. agreed
        BY <1>1 DEF IInv, Resume
      <4> QED
        BY <3>1, <3>2, <4>1, <4>2 DEF IInv, TypeOK, Sound
  <2>4. CASE r.reserved # Fault
    <3>1. resumed' = "yes" /\ copy' = r /\ UNCHANGED <<hart, agreed>>
      BY <1>1, <2>4 DEF Resume, r
    <3>2. lost' \subseteq {"fcsr", "reservation"}
      BY <1>1 DEF Resume
    <3>3. ("fcsr" \in lost') \/ (r.fflags = hart.fflags /\ r.frm = hart.frm)
      BY <1>1, <2>2 DEF Resume
    <3>4. ("reservation" \in lost') \/ r.reserved = hart.reserved
      BY <1>1, <2>2 DEF Resume
    <3>5. hart.reserved = None => r.reserved = None
      BY <2>2 DEF Sound
    <3>6. Related(copy, hart)'
      BY <2>2, <3>1, <3>3, <3>4, <3>5 DEF Related, SameFields
    <3>7. agreed'
      BY <1>1, <3>1 DEF IInv, Resume
    <3> QED
      BY <2>2, <2>4, <3>1, <3>2, <3>6, <3>7 DEF IInv, TypeOK, Sound, AbortNeedsStaleAddress
  <2> QED
    BY <2>3, <2>4
<1>2. CASE AccessStore
  <2> DEFINE h == [hart EXCEPT !.tracked = None]
             c == [copy EXCEPT !.tracked = None]
  <2>1. Sound(h)
    BY DEF Sound, Hart
  <2>2. ASSUME resumed = "yes" PROVE c \in Hart /\ Related(c, h)
    BY <2>2 DEF Sound, Related, SameFields, Hart
  <2>3. Commit(Retired(h, 0), Retired(c, 0))
    BY <1>2 DEF AccessStore, StoreOrAmo
  <2> HIDE DEF h, c
  <2> QED
    BY <2>1, <2>2, <2>3, ActionKeeps
<1>3. CASE CsrReadFcsr
  <2>1. CASE resumed = "yes" /\ lost = {}
    <3>1. <<copy.fflags, copy.frm>> = <<hart.fflags, hart.frm>>
      BY <2>1 DEF Related
    <3> QED
      BY <1>3, <3>1, ActionKeeps DEF CsrReadFcsr, ReadFcsr
  <2>2. CASE ~ (resumed = "yes" /\ lost = {})
    BY <1>3, <2>2, ActionKeeps DEF CsrReadFcsr, ReadFcsr
  <2> QED
    BY <2>1, <2>2
<1>4. CASE CsrReadStatus
  <2>1. resumed = "yes" => <<copy.fs, copy.sie>> = <<hart.fs, hart.sie>>
    BY DEF Related, SameFields
  <2> QED
    BY <1>4, <2>1, ActionKeeps DEF CsrReadStatus, ReadStatus
<1>5. ASSUME NEW va \in VirtualAddress, AccessLr(va) PROVE IInv'
  <2> DEFINE h == [hart EXCEPT !.reserved = Translate(hart, va), !.tracked = va]
             c == [copy EXCEPT !.reserved = Translate(copy, va), !.tracked = va]
  <2>a. Translate(hart, va) \in PhysicalAddress /\ Translate(hart, va) # None
    BY <1>5, ReferenceAssumption DEF AccessLr, Translate
  <2>b. resumed = "yes" => Translate(copy, va) = Translate(hart, va)
    BY TranslateSame DEF Related
  <2>1. Sound(h)
    BY <2>a DEF Sound, Hart
  <2>2. ASSUME resumed = "yes" PROVE c \in Hart /\ Related(c, h)
    BY <2>2, <2>a, <2>b DEF Sound, Related, SameFields, Hart
  <2>3. Commit(Retired(h, 0), Retired(c, 0))
    BY <1>5 DEF AccessLr, LoadReserved
  <2> HIDE DEF h, c
  <2> QED
    BY <2>1, <2>2, <2>3, ActionKeeps
<1>6. ASSUME NEW va \in VirtualAddress, AccessSc(va) PROVE IInv'
  <2> DEFINE h == [hart EXCEPT !.reserved = None, !.tracked = None]
             c == [copy EXCEPT !.reserved = None, !.tracked = None]
             v == IF hart.reserved = Translate(hart, va) THEN 0 ELSE 1
             w == IF copy.reserved = Translate(copy, va) THEN 0 ELSE 1
  <2>1. Sound(h)
    BY DEF Sound, Hart
  <2>2. ASSUME resumed = "yes" PROVE c \in Hart /\ Related(c, h)
    BY <2>2 DEF Sound, Related, SameFields, Hart
  <2>3. ASSUME resumed = "yes" PROVE w = v \/ lost # {}
    BY <2>3, TranslateSame DEF Related
  <2>4. Commit(Retired(h, v), Retired(c, w))
    BY <1>6 DEF AccessSc, StoreConditional
  <2> HIDE DEF h, c, v, w
  <2> QED
    BY <2>1, <2>2, <2>3, <2>4, ActionKeeps
<1>7. ASSUME NEW flag \in 0..1, Floating(flag) PROVE IInv'
  <2> DEFINE h == [hart EXCEPT !.fflags = IF flag = 1 THEN 1 ELSE @, !.fs = Dirty]
             c == [copy EXCEPT !.fflags = IF flag = 1 THEN 1 ELSE @, !.fs = Dirty]
  <2>d. Dirty \in 0..3
    BY DEF Dirty
  <2>1. Sound(h)
    BY <2>d DEF Sound, Hart
  <2>2. ASSUME resumed = "yes" PROVE c \in Hart /\ Related(c, h)
    BY <2>d, <2>2 DEF Sound, Related, SameFields, Hart
  <2>3. Commit(Retired(h, 0), Retired(c, 0))
    BY <1>7 DEF Floating, FloatingOp
  <2> HIDE DEF h, c
  <2> QED
    BY <2>1, <2>2, <2>3, ActionKeeps
<1>8. ASSUME NEW flags \in 0..1, NEW rounding \in 0..1, CsrFcsr(flags, rounding) PROVE IInv'
  <2> DEFINE h == fcsrWrite(hart, flags, rounding)
             c == fcsrWrite(copy, flags, rounding)
  <2>d. Dirty \in 0..3
    BY DEF Dirty
  <2>1. Sound(h)
    BY <2>d DEF Sound, Hart, fcsrWrite
  <2>2. ASSUME resumed = "yes" PROVE c \in Hart /\ Related(c, h)
    BY <2>d, <2>2 DEF Sound, Related, SameFields, Hart, fcsrWrite
  <2>3. Commit(Retired(h, 0), Retired(c, 0))
    BY <1>8 DEF CsrFcsr, WriteFcsr
  <2> HIDE DEF h, c
  <2> QED
    BY <2>1, <2>2, <2>3, ActionKeeps
<1>9. ASSUME NEW fs \in 0..3, NEW sie \in BOOLEAN, CsrStatus(fs, sie) PROVE IInv'
  <2> DEFINE h == mstatusWrite(hart, fs, sie)
             c == mstatusWrite(copy, fs, sie)
  <2>1. Sound(h)
    BY DEF Sound, Hart, mstatusWrite
  <2>2. ASSUME resumed = "yes" PROVE c \in Hart /\ Related(c, h)
    BY <2>2 DEF Sound, Related, SameFields, Hart, mstatusWrite
  <2>3. Commit(Retired(h, 0), Retired(c, 0))
    BY <1>9 DEF CsrStatus, WriteStatus
  <2> HIDE DEF h, c
  <2> QED
    BY <2>1, <2>2, <2>3, ActionKeeps
<1>10. ASSUME NEW value \in SUBSET Interrupts, CsrMie(value) PROVE IInv'
  <2> DEFINE h == [hart EXCEPT !.mie = value]
             c == [copy EXCEPT !.mie = value]
  <2>1. Sound(h)
    BY DEF Sound, Hart
  <2>2. ASSUME resumed = "yes" PROVE c \in Hart /\ Related(c, h)
    BY <2>2 DEF Sound, Related, SameFields, Hart
  <2>3. Commit(Retired(h, 0), Retired(c, 0))
    BY <1>10 DEF CsrMie, WriteMie
  <2> HIDE DEF h, c
  <2> QED
    BY <2>1, <2>2, <2>3, ActionKeeps
<1>11. ASSUME NEW value \in SUBSET Interrupts, CsrSie(value) PROVE IInv'
  <2> DEFINE h == sieWrite(hart, value)
             c == sieWrite(copy, value)
  <2>1. Sound(h)
    BY DEF Sound, Hart, sieWrite
  <2>2. ASSUME resumed = "yes" PROVE c \in Hart /\ Related(c, h)
    BY <2>2 DEF Sound, Related, SameFields, Hart, sieWrite
  <2>3. Commit(Retired(h, 0), Retired(c, 0))
    BY <1>11 DEF CsrSie, WriteSie
  <2> HIDE DEF h, c
  <2> QED
    BY <2>1, <2>2, <2>3, ActionKeeps
<1>12. ASSUME NEW value \in SUBSET Interrupts, CsrMideleg(value) PROVE IInv'
  <2> DEFINE h == [hart EXCEPT !.mideleg = value]
             c == [copy EXCEPT !.mideleg = value]
  <2>1. Sound(h)
    BY DEF Sound, Hart
  <2>2. ASSUME resumed = "yes" PROVE c \in Hart /\ Related(c, h)
    BY <2>2 DEF Sound, Related, SameFields, Hart
  <2>3. Commit(Retired(h, 0), Retired(c, 0))
    BY <1>12 DEF CsrMideleg, WriteMideleg
  <2> HIDE DEF h, c
  <2> QED
    BY <2>1, <2>2, <2>3, ActionKeeps
<1>13. ASSUME NEW paged \in BOOLEAN, CsrSatp(paged) PROVE IInv'
  <2> DEFINE h == [hart EXCEPT !.paged = paged]
             c == [copy EXCEPT !.paged = paged]
  <2>1. Sound(h)
    BY DEF Sound, Hart
  <2>2. ASSUME resumed = "yes" PROVE c \in Hart /\ Related(c, h)
    BY <2>2 DEF Sound, Related, SameFields, Hart
  <2>3. Commit(Retired(h, 0), Retired(c, 0))
    BY <1>13 DEF CsrSatp, WriteSatp
  <2> HIDE DEF h, c
  <2> QED
    BY <2>1, <2>2, <2>3, ActionKeeps
<1>14. ASSUME NEW value \in 0..(CounterSize - 1), CsrMcycle(value) PROVE IInv'
  <2> DEFINE h == counterWrite(hart, value)
             c == counterWrite(copy, value)
  <2>1. Sound(h)
    BY CounterWraps DEF Sound, Hart, counterWrite
  <2>2. ASSUME resumed = "yes" PROVE c \in Hart /\ Related(c, h)
    BY <2>2, CounterWraps DEF Sound, Related, SameFields, Hart, counterWrite
  <2>3. Commit(Retired(h, 0), Retired(c, 0))
    BY <1>14 DEF CsrMcycle, WriteMcycle
  <2> HIDE DEF h, c
  <2> QED
    BY <2>1, <2>2, <2>3, ActionKeeps
<1>15. ASSUME NEW prv \in {"M", "S", "U"}, ChangePrivilege(prv) PROVE IInv'
  <2> DEFINE h == [hart EXCEPT !.prv = prv]
             c == [copy EXCEPT !.prv = prv]
  <2>1. Sound(h)
    BY DEF Sound, Hart
  <2>2. ASSUME resumed = "yes" PROVE c \in Hart /\ Related(c, h)
    BY <2>2 DEF Sound, Related, SameFields, Hart
  <2>3. Commit(Retired(h, 0), Retired(c, 0))
    BY <1>15 DEF ChangePrivilege, Enter
  <2> HIDE DEF h, c
  <2> QED
    BY <2>1, <2>2, <2>3, ActionKeeps
<1>16. CASE UNCHANGED vars
  BY <1>16 DEF vars, IInv, TypeOK, Sound, Related, SameFields, AbortNeedsStaleAddress, Translate
<1> QED
  BY <1>1, <1>2, <1>3, <1>4, <1>5, <1>6, <1>7, <1>8, <1>9, <1>10, <1>11, <1>12, <1>13, <1>14,
     <1>15, <1>16 DEF Next

(***************************************************************************)
(* The results                                                             *)
(***************************************************************************)

\* A new reference and its copy start out sound, with nothing lost.
LEMMA InitInv == Init => IInv
  BY ReferenceAssumption DEF Init, IInv, TypeOK, Sound, AbortNeedsStaleAddress, Fresh, Hart, Off

(* The inductive invariant of save, restore and what is executed after it. *)
THEOREM ReferenceInvariant == Spec => []IInv
  BY InitInv, InvPreserved, PTL DEF Spec

\* The state keeps its types: the counter its width through every restore.
THEOREM ReferenceTypes == Spec => []TypeOK
<1>1. IInv => TypeOK
  BY DEF IInv
<1> QED
  BY <1>1, ReferenceInvariant, PTL

\* A resumed run holds the state of the run that went on and commits the
\* same, but for the fcsr and the reservation that the file did not carry.
THEOREM RestoreSurvived == Spec => []SurvivesRestore
<1>1. IInv => SurvivesRestore
  <2> SUFFICES ASSUME IInv, resumed = "yes"
               PROVE  /\ Rest(copy) = Rest(hart)
                      /\ <<copy.fflags, copy.frm>> = <<hart.fflags, hart.frm>> \/ "fcsr" \in lost
                      /\ copy.reserved = hart.reserved \/ "reservation" \in lost
                      /\ agreed \/ lost # {}
    BY DEF SurvivesRestore
  <2>1. copy \in Hart /\ hart \in Hart /\ Related(copy, hart)
    BY DEF IInv, TypeOK
  <2>2. Rest(copy) = Rest(hart)
    BY <2>1 DEF Related, SameFields, Rest, Hart
  <2> QED
    BY <2>1, <2>2 DEF Related, IInv
<1> QED
  BY <1>1, ReferenceInvariant, PTL

\* next notes an address only under a reservation of Spike, and no restore
\* gives the resumed run a reservation that the original does not hold.
THEOREM ReservationNotInvented == Spec => []NoInventedReservation
<1>1. IInv => NoInventedReservation
  BY DEF IInv, Sound, Related, NoInventedReservation
<1> QED
  BY <1>1, ReferenceInvariant, PTL

\* Restore is aborted only by an address whose translation has changed.
THEOREM AbortOnlyWhenStale == Spec => []AbortNeedsStaleAddress
<1>1. IInv => AbortNeedsStaleAddress
  BY DEF IInv
<1> QED
  BY <1>1, ReferenceInvariant, PTL

(***************************************************************************)
(* Induction, and the concatenation of sequences                           *)
(***************************************************************************)

\* A non-empty set of naturals has a least element.
LEMMA LeastNat ==
    ASSUME NEW T, T \subseteq Nat, T # {}
    PROVE  \E x \in T : \A y \in T : x <= y
<1> DEFINE R == {ss \in Nat \X Nat : ss[1] < ss[2]}
<1>1. IsWellFoundedOn(R, Nat)
  BY NatLessThanWellFounded DEF OpToRel
<1>2. \E x \in T : \A y \in T : <<y, x>> \notin R
  BY <1>1, WFMin, Zenon
<1>3. \A x, y \in Nat : <<y, x>> \notin R => x <= y
  OBVIOUS
<1> HIDE DEF R
<1> QED
  BY <1>2, <1>3

\* A set that holds 0 and with a number the next one holds all numbers.
LEMMA Induction ==
    ASSUME NEW T, 0 \in T, \A n \in Nat : n \in T => n + 1 \in T
    PROVE  \A n \in Nat : n \in T
<1> SUFFICES ASSUME NEW k \in Nat, k \notin T PROVE FALSE
  OBVIOUS
<1> DEFINE U == {n \in Nat : n \notin T}
<1>1. PICK x \in U : \A y \in U : x <= y
  BY LeastNat
<1>2. x # 0 /\ x - 1 \in Nat /\ x - 1 \notin U
  BY <1>1
<1>3. x - 1 \in T /\ (x - 1) + 1 = x
  BY <1>2
<1> QED
  BY <1>1, <1>2, <1>3

(***************************************************************************)
(* Concatenations                                                          *)
(***************************************************************************)

\* The concatenation of the first n sequences of f.
Joined(f, n) == FlattenSeq([k \in 1..n |-> f[k]])
\* The function that FlattenSeq is defined by, as the equation it solves.
Joins(g, f, n) == g = [k \in 1..n |-> IF k = 1 THEN f[k] ELSE g[k - 1] \o f[k]]

\* The equation read at one argument.
LEMMA JoinsAt ==
    ASSUME NEW f, NEW n \in Nat, NEW g, Joins(g, f, n), NEW k \in 1..n
    PROVE  g[k] = IF k = 1 THEN f[k] ELSE g[k - 1] \o f[k]
  BY DEF Joins

\* A solution for n goes on to one for n + 1.
LEMMA JoinsNext ==
    ASSUME NEW f, NEW n \in Nat, NEW g, Joins(g, f, n)
    PROVE  \E h : Joins(h, f, n + 1)
<1> DEFINE last == IF n = 0 THEN f[1] ELSE g[n] \o f[n + 1]
           h == [k \in 1..(n + 1) |-> IF k = n + 1 THEN last ELSE g[k]]
<1>1. ASSUME NEW k \in 1..(n + 1) PROVE h[k] = IF k = 1 THEN f[k] ELSE h[k - 1] \o f[k]
  <2>1. CASE k = n + 1
    <3>1. CASE n = 0
      BY <2>1, <3>1
    <3>2. CASE n # 0
      <4>1. k - 1 = n /\ n \in 1..(n + 1) /\ n # n + 1 /\ k # 1
        BY <2>1, <3>2
      <4>2. h[k - 1] = g[n] /\ h[k] = last
        BY <2>1, <4>1
      <4> QED
        BY <2>1, <3>2, <4>1, <4>2
    <3> QED
      BY <3>1, <3>2
  <2>2. CASE k # n + 1
    <3>1. k \in 1..n /\ h[k] = g[k]
      BY <2>2
    <3>2. k # 1 => k - 1 \in 1..(n + 1) /\ k - 1 # n + 1 /\ h[k - 1] = g[k - 1]
      OBVIOUS
    <3>3. g[k] = IF k = 1 THEN f[k] ELSE g[k - 1] \o f[k]
      BY <3>1, JoinsAt
    <3> HIDE DEF h
    <3> QED
      BY <3>1, <3>2, <3>3
  <2> QED
    BY <2>1, <2>2
<1>2. h = [k \in 1..(n + 1) |-> h[k]]
  OBVIOUS
<1> HIDE DEF h
<1>3. Joins(h, f, n + 1)
  BY <1>1, <1>2 DEF Joins
<1> QED
  BY <1>3

\* The equation has a solution for every n.
LEMMA JoinsExists ==
    ASSUME NEW f, NEW n \in Nat
    PROVE  \E g : Joins(g, f, n)
<1> DEFINE T == {m \in Nat : \E g : Joins(g, f, m)}
<1>1. 0 \in T
  <2>1. Joins([k \in 1..0 |-> k], f, 0)
    BY DEF Joins
  <2> QED
    BY <2>1
<1>2. ASSUME NEW m \in Nat, m \in T PROVE m + 1 \in T
  BY <1>2, JoinsNext
<1> HIDE DEF T
<1>3. n \in T
  BY <1>1, <1>2, Induction
<1> QED
  BY <1>3 DEF T

\* Two solutions agree where both are defined.
LEMMA JoinsUnique ==
    ASSUME NEW f, NEW n \in Nat, NEW m \in Nat, NEW g, NEW h, Joins(g, f, n), Joins(h, f, m)
    PROVE  \A k \in Nat : k \in 1..n /\ k \in 1..m => g[k] = h[k]
<1> DEFINE T == {k \in Nat : k \in 1..n /\ k \in 1..m => g[k] = h[k]}
<1>1. 0 \in T
  OBVIOUS
<1>2. ASSUME NEW k \in Nat, k \in T PROVE k + 1 \in T
  <2> SUFFICES ASSUME k + 1 \in 1..n, k + 1 \in 1..m PROVE g[k + 1] = h[k + 1]
    OBVIOUS
  <2>1. /\ g[k + 1] = IF k + 1 = 1 THEN f[k + 1] ELSE g[(k + 1) - 1] \o f[k + 1]
        /\ h[k + 1] = IF k + 1 = 1 THEN f[k + 1] ELSE h[(k + 1) - 1] \o f[k + 1]
    BY JoinsAt
  <2>2. (k + 1) - 1 = k /\ (k + 1 # 1 => g[k] = h[k])
    BY <1>2
  <2> QED
    BY <2>1, <2>2
<1> HIDE DEF T
<1>3. \A k \in Nat : k \in T
  BY <1>1, <1>2, Induction
<1> QED
  BY <1>3 DEF T

\* A concatenation is the last value of a solution.
LEMMA JoinedIs ==
    ASSUME NEW f, NEW n \in Nat, n # 0
    PROVE  \E g : Joins(g, f, n) /\ Joined(f, n) = g[n]
<1> DEFINE s == [k \in 1..n |-> f[k]]
           E(g) == g = [i \in 1..Len(s) |-> IF i = 1 THEN s[i] ELSE g[i - 1] \o s[i]]
           c == CHOOSE g : E(g)
<1>1. Len(s) = n /\ \A k \in 1..n : s[k] = f[k]
  OBVIOUS
<1>2. Joined(f, n) = c[Len(s)]
  BY <1>1 DEF Joined, FlattenSeq
<1> HIDE DEF s
<1>3. \A g : E(g) <=> Joins(g, f, n)
  <2> SUFFICES ASSUME NEW g PROVE E(g) <=> Joins(g, f, n)
    OBVIOUS
  <2>1. [i \in 1..Len(s) |-> IF i = 1 THEN s[i] ELSE g[i - 1] \o s[i]]
          = [k \in 1..n |-> IF k = 1 THEN f[k] ELSE g[k - 1] \o f[k]]
    BY <1>1
  <2> QED
    BY <2>1 DEF Joins
<1>4. PICK g : E(g)
  BY <1>3, JoinsExists
<1> HIDE DEF E
<1>5. E(c)
  BY <1>4
<1> HIDE DEF c
<1> QED
  BY <1>1, <1>2, <1>3, <1>5

\* Nothing concatenated.
LEMMA JoinedNone ==
    ASSUME NEW f
    PROVE  Joined(f, 0) = <<>>
<1>1. [k \in 1..0 |-> f[k]] = <<>>
  OBVIOUS
<1> QED
  BY <1>1 DEF Joined, FlattenSeq

\* One sequence more.
LEMMA JoinedNext ==
    ASSUME NEW V, NEW f, NEW n \in Nat, f[n + 1] \in Seq(V)
    PROVE  Joined(f, n + 1) = Joined(f, n) \o f[n + 1]
<1>1. PICK h : Joins(h, f, n + 1) /\ Joined(f, n + 1) = h[n + 1]
  BY JoinedIs
<1>2. h[n + 1] = IF n + 1 = 1 THEN f[n + 1] ELSE h[(n + 1) - 1] \o f[n + 1]
  BY <1>1, JoinsAt
<1>3. CASE n = 0
  <2>1. Joined(f, n) = <<>>
    BY <1>3, JoinedNone
  <2>2. <<>> \o f[n + 1] = f[n + 1]
    BY ConcatEmptySeq
  <2> QED
    BY <1>1, <1>2, <1>3, <2>1, <2>2
<1>4. CASE n # 0
  <2>1. PICK g : Joins(g, f, n) /\ Joined(f, n) = g[n]
    BY <1>4, JoinedIs
  <2>2. n \in 1..n /\ n \in 1..(n + 1)
    BY <1>4
  <2>3. g[n] = h[n]
    BY <1>1, <2>1, <2>2, JoinsUnique
  <2>4. h[n + 1] = h[n] \o f[n + 1]
    <3>1. (n + 1) - 1 = n /\ n + 1 # 1
      BY <1>4
    <3> QED
      BY <1>2, <3>1
  <2> QED
    BY <1>1, <2>1, <2>3, <2>4
<1> QED
  BY <1>3, <1>4
Seqs(f, n, V) == \A k \in 1..n : f[k] \in Seq(V)

\* A concatenation of sequences is one.
LEMMA JoinedSeq ==
    ASSUME NEW V, NEW f, NEW n \in Nat, Seqs(f, n, V)
    PROVE  Joined(f, n) \in Seq(V)
<1> DEFINE T == {m \in Nat : m <= n => Joined(f, m) \in Seq(V)}
<1>1. 0 \in T
  BY JoinedNone, EmptySeq
<1>2. ASSUME NEW m \in Nat, m \in T PROVE m + 1 \in T
  <2> SUFFICES ASSUME m + 1 <= n PROVE Joined(f, m + 1) \in Seq(V)
    OBVIOUS
  <2>1. f[m + 1] \in Seq(V)
    BY DEF Seqs
  <2>2. Joined(f, m) \in Seq(V)
    BY <1>2
  <2>3. Joined(f, m + 1) = Joined(f, m) \o f[m + 1]
    BY <2>1, JoinedNext
  <2> QED
    BY <2>1, <2>2, <2>3, ConcatProperties
<1> HIDE DEF T
<1>3. n \in T
  BY <1>1, <1>2, Induction
<1> QED
  BY <1>3 DEF T

\* The same sequences have the same concatenation.
LEMMA JoinedSame ==
    ASSUME NEW f, NEW g, NEW n, \A k \in 1..n : f[k] = g[k]
    PROVE  Joined(f, n) = Joined(g, n)
<1>1. [k \in 1..n |-> f[k]] = [k \in 1..n |-> g[k]]
  OBVIOUS
<1> QED
  BY <1>1 DEF Joined

\* f has l sequences, the last n of which are those of g.
Cut(V, f, g, m, n, l) ==
    /\ m \in Nat /\ n \in Nat /\ l = m + n
    /\ Seqs(f, l, V) /\ \A k \in 1..n : g[k] = f[m + k]

\* A concatenation may be cut in two.
LEMMA JoinedSplit ==
    ASSUME NEW V, NEW f, NEW g, NEW m, NEW n, NEW l, Cut(V, f, g, m, n, l)
    PROVE  Joined(f, l) = Joined(f, m) \o Joined(g, n)
<1>0. /\ m \in Nat /\ n \in Nat /\ l = m + n
      /\ Seqs(f, m + n, V) /\ \A k \in 1..n : g[k] = f[m + k]
  BY DEF Cut
<1> DEFINE T == {j \in Nat : j <= n => Joined(f, m + j) = Joined(f, m) \o Joined(g, j)}
<1>1. Joined(f, m) \in Seq(V)
  <2>1. Seqs(f, m, V)
    BY <1>0 DEF Seqs
  <2> QED
    BY <1>0, <2>1, JoinedSeq
<1>2. 0 \in T
  <2>1. m + 0 = m
    BY <1>0
  <2> QED
    BY <1>1, <2>1, JoinedNone, ConcatEmptySeq
<1>3. ASSUME NEW j \in Nat, j \in T PROVE j + 1 \in T
  <2> SUFFICES ASSUME j + 1 <= n PROVE Joined(f, m + (j + 1)) = Joined(f, m) \o Joined(g, j + 1)
    OBVIOUS
  <2>1. m + j \in Nat /\ m + (j + 1) = (m + j) + 1 /\ (m + j) + 1 \in 1..(m + n) /\ j + 1 \in 1..n
    BY <1>0
  <2>2. g[j + 1] = f[(m + j) + 1] /\ f[(m + j) + 1] \in Seq(V)
    BY <1>0, <2>1 DEF Seqs
  <2>3. Joined(g, j) \in Seq(V)
    <3>1. Seqs(g, j, V)
      BY <1>0 DEF Seqs
    <3> QED
      BY <3>1, JoinedSeq
  <2>4. Joined(f, (m + j) + 1) = Joined(f, m + j) \o f[(m + j) + 1]
    BY <2>1, <2>2, JoinedNext
  <2>5. Joined(g, j + 1) = Joined(g, j) \o g[j + 1]
    BY <2>2, JoinedNext
  <2>6. Joined(f, m + j) = Joined(f, m) \o Joined(g, j)
    BY <1>0, <1>3
  <2>7. (Joined(f, m) \o Joined(g, j)) \o g[j + 1] = Joined(f, m) \o (Joined(g, j) \o g[j + 1])
    <3>1. PICK x, y, z : x = Joined(f, m) /\ y = Joined(g, j) /\ z = g[j + 1]
      OBVIOUS
    <3>2. x \in Seq(V) /\ y \in Seq(V) /\ z \in Seq(V)
      BY <1>1, <2>2, <2>3, <3>1
    <3>3. (x \o y) \o z = x \o (y \o z)
      BY <3>2, ConcatAssociative
    <3> QED
      BY <3>1, <3>3
  <2> QED
    BY <2>1, <2>2, <2>4, <2>5, <2>6, <2>7
<1> HIDE DEF T
<1>4. n \in T
  BY <1>0, <1>2, <1>3, Induction
<1> QED
  BY <1>0, <1>4 DEF T

\* Where the blocks of size n lie.
LEMMA BlockPlace ==
    ASSUME NEW m \in Nat, NEW n \in Nat, NEW r \in 1..m, NEW e \in 1..n
    PROVE  (r - 1) * n \in Nat /\ (r - 1) * n + e \in 1..(m * n)
<1>1. r - 1 \in Nat /\ m - r \in Nat
  OBVIOUS
<1>2. (r - 1) * n \in Nat /\ (m - r) * n \in Nat
  BY <1>1
<1>3. m * n = (r - 1) * n + n + (m - r) * n
  BY <1>1
<1> QED
  BY <1>2, <1>3

\* One block more.
LEMMA OneMoreBlock ==
    ASSUME NEW V, NEW f, NEW c, NEW G, NEW j \in Nat, NEW p, NEW n, NEW l, Cut(V, f, c, p, n, l),
           G[j + 1] = Joined(c, n), Joined(G, j) = Joined(f, p)
    PROVE  Joined(G, j + 1) = Joined(f, l)
<1>1. Joined(f, l) = Joined(f, p) \o Joined(c, n)
  BY JoinedSplit
<1>2. n \in Nat /\ Seqs(c, n, V)
  BY DEF Seqs, Cut
<1>3. G[j + 1] \in Seq(V)
  BY <1>2, JoinedSeq
<1>4. Joined(G, j + 1) = Joined(G, j) \o G[j + 1]
  BY <1>3, JoinedNext
<1> QED
  BY <1>1, <1>4

\* G concatenates m blocks of n sequences each, those of f.
Blocks(V, f, b, G, m, n) ==
    /\ m \in Nat /\ n \in Nat /\ Seqs(f, m * n, V)
    /\ \A r \in 1..m : G[r] = Joined(b[r], n)
    /\ \A r \in 1..m : \A e \in 1..n : b[r][e] = f[(r - 1) * n + e]

\* A concatenation of m blocks of n sequences each is one of m * n sequences.
LEMMA JoinedBlocks ==
    ASSUME NEW V, NEW f, NEW b, NEW G, NEW m, NEW n, Blocks(V, f, b, G, m, n)
    PROVE  Joined(G, m) = Joined(f, m * n)
<1> SUFFICES ASSUME m \in Nat, n \in Nat, Seqs(f, m * n, V),
                    \A r \in 1..m : G[r] = Joined(b[r], n),
                    \A r \in 1..m : \A e \in 1..n : b[r][e] = f[(r - 1) * n + e]
             PROVE  Joined(G, m) = Joined(f, m * n)
  BY DEF Blocks
<1> DEFINE T == {j \in Nat : j <= m => Joined(G, j) = Joined(f, j * n)}
<1>1. 0 \in T
  <2>1. 0 * n = 0
    OBVIOUS
  <2> QED
    BY <2>1, JoinedNone
<1>2. ASSUME NEW j \in Nat, j \in T PROVE j + 1 \in T
  <2> SUFFICES ASSUME j + 1 <= m PROVE Joined(G, j + 1) = Joined(f, (j + 1) * n)
    OBVIOUS
  <2>1. j + 1 \in 1..m /\ (j + 1) - 1 = j
    OBVIOUS
  <2>2. j * n \in Nat /\ (j + 1) * n = j * n + n
    OBVIOUS
  <2>3. j * n + n <= m * n
    <3>1. m - (j + 1) \in Nat
      OBVIOUS
    <3>2. (m - (j + 1)) * n \in Nat
      BY <3>1
    <3>3. m * n = (j + 1) * n + (m - (j + 1)) * n
      BY <3>1
    <3> QED
      BY <2>2, <3>2, <3>3
  <2>4. m * n \in Nat
    OBVIOUS
  <2>5. PICK p, q : p = j * n /\ q = m * n
    OBVIOUS
  <2>6. Seqs(f, p + n, V)
    <3>1. p \in Nat /\ q \in Nat /\ p + n <= q
      BY <2>2, <2>3, <2>4, <2>5
    <3>2. Seqs(f, q, V)
      BY <2>5
    <3>3. \A k \in 1..(p + n) : k \in 1..q
      BY <3>1
    <3> QED
      BY <3>2, <3>3 DEF Seqs
  <2>7. PICK c, l : c = b[j + 1] /\ l = p + n
    OBVIOUS
  <2>8. \A e \in 1..n : b[j + 1][e] = f[p + e]
    BY <2>1, <2>5
  <2>9. Cut(V, f, c, p, n, l)
    BY <2>2, <2>5, <2>6, <2>7, <2>8 DEF Cut
  <2>10. G[j + 1] = Joined(c, n)
    BY <2>1, <2>7
  <2>11. Joined(G, j) = Joined(f, p)
    BY <1>2, <2>5
  <2>12. Joined(G, j + 1) = Joined(f, l)
    BY <2>9, <2>10, <2>11, OneMoreBlock
  <2>13. (j + 1) * n = l
    BY <2>2, <2>5, <2>7
  <2> QED
    BY <2>12, <2>13
<1> HIDE DEF T
<1>3. m \in T
  BY <1>1, <1>2, Induction
<1> QED
  BY <1>3 DEF T

\* Sequences of one element each.
Singles(f, h, n) == \A k \in 1..n : f[k] = <<h[k]>>

\* They make the sequence of these elements.
LEMMA JoinedSingles ==
    ASSUME NEW f, NEW h, NEW n \in Nat, Singles(f, h, n)
    PROVE  Joined(f, n) = [k \in 1..n |-> h[k]]
<1>0. PICK V : \A k \in 1..n : h[k] \in V /\ f[k] = <<h[k]>>
  <2>1. \A k \in 1..n : h[k] \in {h[j] : j \in 1..n}
    OBVIOUS
  <2> QED
    BY <2>1 DEF Singles
<1> DEFINE T == {m \in Nat : m <= n => Joined(f, m) = [k \in 1..m |-> h[k]]}
<1>1. 0 \in T
  <2>1. [k \in 1..0 |-> h[k]] = <<>>
    OBVIOUS
  <2> QED
    BY <2>1, JoinedNone
<1>2. ASSUME NEW m \in Nat, m \in T PROVE m + 1 \in T
  <2> SUFFICES ASSUME m + 1 <= n PROVE Joined(f, m + 1) = [k \in 1..(m + 1) |-> h[k]]
    OBVIOUS
  <2> DEFINE s == [k \in 1..m |-> h[k]]
             t == [k \in 1..(m + 1) |-> h[k]]
  <2>1. s \in Seq(V) /\ Len(s) = m /\ \A k \in 1..m : s[k] = h[k]
    BY <1>0
  <2>2. t \in Seq(V) /\ Len(t) = m + 1 /\ \A k \in 1..(m + 1) : t[k] = h[k]
    BY <1>0
  <2>3. h[m + 1] \in V /\ f[m + 1] = <<h[m + 1]>>
    BY <1>0
  <2>4. f[m + 1] \in Seq(V) /\ Len(f[m + 1]) = 1 /\ f[m + 1][1] = h[m + 1]
    BY <2>3
  <2>5. Joined(f, m + 1) = s \o f[m + 1]
    <3>1. Joined(f, m + 1) = Joined(f, m) \o f[m + 1]
      BY <2>4, JoinedNext
    <3>2. Joined(f, m) = s
      BY <1>2
    <3> QED
      BY <3>1, <3>2
  <2> HIDE DEF s, t
  <2>6. /\ s \o f[m + 1] \in Seq(V) /\ Len(s \o f[m + 1]) = m + 1
        /\ \A k \in 1..(m + 1) : (s \o f[m + 1])[k] = IF k <= m THEN s[k] ELSE f[m + 1][k - m]
    <3>1. PICK z : z = f[m + 1]
      OBVIOUS
    <3>2. z \in Seq(V) /\ Len(z) = 1
      BY <2>4, <3>1
    <3>3. /\ s \o z \in Seq(V) /\ Len(s \o z) = Len(s) + Len(z)
          /\ \A k \in 1..(Len(s) + Len(z)) :
               (s \o z)[k] = IF k <= Len(s) THEN s[k] ELSE z[k - Len(s)]
      BY <2>1, <3>2, ConcatProperties
    <3> QED
      BY <2>1, <3>1, <3>2, <3>3
  <2>7. \A k \in 1..(m + 1) : (s \o f[m + 1])[k] = t[k]
    <3> SUFFICES ASSUME NEW k \in 1..(m + 1) PROVE (s \o f[m + 1])[k] = t[k]
      OBVIOUS
    <3>1. CASE k <= m
      <4>1. (s \o f[m + 1])[k] = s[k]
        BY <2>6, <3>1
      <4>2. s[k] = h[k]
        BY <2>1, <3>1
      <4>3. t[k] = h[k]
        BY <2>2
      <4> QED
        BY <4>1, <4>2, <4>3
    <3>2. CASE k = m + 1
      <4>1. ~(k <= m) /\ k - m = 1
        BY <3>2
      <4> QED
        BY <2>2, <2>4, <2>6, <3>2, <4>1
    <3>3. k <= m \/ k = m + 1
      OBVIOUS
    <3> QED
      BY <3>1, <3>2, <3>3
  <2>8. s \o f[m + 1] = t
    BY <2>2, <2>6, <2>7, SeqEqual
  <2> QED
    BY <2>5, <2>8 DEF t
<1> HIDE DEF T
<1>3. n \in T
  BY <1>1, <1>2, Induction
<1> QED
  BY <1>3 DEF T

\* Empty sequences make the empty sequence.
LEMMA JoinedEmpties ==
    ASSUME NEW f, NEW n \in Nat, \A k \in 1..n : f[k] = <<>>
    PROVE  Joined(f, n) = <<>>
<1> DEFINE T == {m \in Nat : m <= n => Joined(f, m) = <<>>}
<1>1. 0 \in T
  BY JoinedNone
<1>2. ASSUME NEW m \in Nat, m \in T PROVE m + 1 \in T
  <2> SUFFICES ASSUME m + 1 <= n PROVE Joined(f, m + 1) = <<>>
    OBVIOUS
  <2>1. f[m + 1] = <<>> /\ <<>> \in Seq({})
    BY EmptySeq
  <2>2. Joined(f, m + 1) = Joined(f, m) \o f[m + 1]
    BY <2>1, JoinedNext
  <2>3. <<>> \o <<>> = <<>>
    BY <2>1, ConcatEmptySeq
  <2> QED
    BY <1>2, <2>1, <2>2, <2>3
<1> HIDE DEF T
<1>3. n \in T
  BY <1>1, <1>2, Induction
<1> QED
  BY <1>3 DEF T

(***************************************************************************)
(* The decoding                                                            *)
(***************************************************************************)

\* What the code reads off the encoding of an arithmetic instruction.
ArithmeticDecoded(i) ==
    /\ maskDestination(i) <=> i.class \in MaskClasses
    /\ maskIsData(i) <=> i.class \in MaskDataClasses
    /\ scalarInsert(i) \/ reduction(i) <=> i.class \in FirstClasses
    /\ widening(i) <=> i.class \in {"widening", "widening_reduction"}
    /\ wholeMove(i) <=> i.class \in WholeClasses
    /\ compress(i) <=> i.class = "compress"

\* It is what the class of the instruction says, for every encoding.
LEMMA ArithmeticDecoding ==
    ASSUME NEW i \in Instruction, i.op = "arith", ArithmeticEncoded(i)
    PROVE  ArithmeticDecoded(i)
<1> USE DEF OPIVV, OPFVV, OPMVV, OPIVI, OPIVX, OPFVF, OPMVX
<1>1. i.form \in 0..7 /\ i.funct \in 0..63 /\ i.vs1 \in 0..31
  BY DEF Instruction
<1> QED
  BY <1>1 DEF ArithmeticDecoded, ArithmeticEncoded, maskDestination, maskIsData, scalarInsert, reduction,
       widening, wholeMove, compress, integerForm, floatingForm, MaskClasses, MaskDataClasses, FirstClasses, WholeClasses

\* What the code reads off a vector instruction that is no store.
Decoded(i) ==
    /\ maskDestination(i) <=> i.class \in MaskClasses
    /\ maskIsData(i) <=> i.class \in MaskDataClasses
    /\ scalarInsert(i) \/ reduction(i) <=> i.class \in FirstClasses
    /\ wholeMove(i) \/ wholeMemory(i) <=> i.class \in WholeClasses
    /\ maskMemory(i) <=> i.class = "mask_load"
    /\ compress(i) <=> i.class = "compress"
    /\ elementBits(i) = DestinationBits(i)
    /\ (IF i.op = "load" /\ ~wholeMemory(i) THEN i.nf + 1 ELSE 1) = Fields(i)
    /\ i.class \in WholeClasses \cup {"compress", "insert", "mask_load"} => i.vm
    /\ i.class = "compress" => i.vs1 \in Registers

\* compareVectorCommit works out from the bits of an encoding exactly what the
\* class of the instruction says: the kind of its destination, the width of
\* its elements, its fields, and the part the mask has in it.
THEOREM Decoding ==
    ASSUME NEW i \in Instruction, i.op \in {"arith", "load"}, Encoded(i)
    PROVE  Decoded(i)
<1> USE DEF MaskClasses, MaskDataClasses, FirstClasses, WholeClasses
<1>1. CASE i.op = "arith"
  <2>1. ArithmeticEncoded(i) /\ ArithmeticDecoded(i)
    BY <1>1, ArithmeticDecoding DEF Encoded
  <2>2. ~wholeMemory(i) /\ ~maskMemory(i) /\ ~indexedMemory(i)
    BY <1>1 DEF wholeMemory, maskMemory, indexedMemory, Memory
  <2>3. i.class \notin {"load", "indexed_load", "whole_load", "mask_load"}
    BY <2>1 DEF ArithmeticEncoded
  <2>4. elementBits(i) = DestinationBits(i)
    BY <1>1, <2>1, <2>3 DEF elementBits, DestinationBits, ArithmeticDecoded
  <2>5. Fields(i) = 1
    BY <2>3 DEF Fields
  <2>6. /\ i.class \in WholeClasses \cup {"compress", "insert", "mask_load"} => i.vm
        /\ i.class = "compress" => i.vs1 \in Registers
    BY <2>1 DEF ArithmeticEncoded
  <2> QED
    BY <1>1, <2>1, <2>2, <2>3, <2>4, <2>5, <2>6 DEF Decoded, ArithmeticDecoded
<1>2. CASE i.op = "load"
  <2>1. LoadEncoded(i)
    BY <1>2 DEF Encoded
  <2>2. /\ ~maskDestination(i) /\ ~maskIsData(i) /\ ~scalarInsert(i) /\ ~reduction(i)
        /\ ~widening(i) /\ ~wholeMove(i) /\ ~compress(i)
    BY <1>2 DEF maskDestination, maskIsData, scalarInsert, reduction, widening, wholeMove, compress
  <2>3. i.class \in {"load", "indexed_load", "whole_load", "mask_load"}
    BY <2>1 DEF LoadEncoded
  <2>4. /\ wholeMemory(i) <=> i.class = "whole_load"
        /\ maskMemory(i) <=> i.class = "mask_load"
        /\ indexedMemory(i) <=> i.class = "indexed_load"
    BY <1>2, <2>1, <2>3 DEF LoadEncoded, wholeMemory, maskMemory, indexedMemory, Memory
  <2>5. elementBits(i) = DestinationBits(i)
    BY <1>2, <2>2, <2>3, <2>4 DEF elementBits, DestinationBits
  <2>6. (IF i.op = "load" /\ ~wholeMemory(i) THEN i.nf + 1 ELSE 1) = Fields(i)
    BY <1>2, <2>1, <2>3, <2>4 DEF Fields, LoadEncoded, Instruction
  <2>7. i.class \in {"whole_load", "mask_load"} => i.vm
    BY <2>1 DEF LoadEncoded
  <2> QED
    BY <2>2, <2>3, <2>4, <2>5, <2>6, <2>7 DEF Decoded
<1> QED
  BY <1>1, <1>2

CsrType == [vl : 0..VLEN, sew : {1, 2, 4}, lmul : {1, 2, 4, 8}, vta : BOOLEAN, vma : BOOLEAN,
            vstart : Nat]

\* An instruction whose mask guards its destination.
Guarded(i) == ~(i.class \in {"reduction", "widening_reduction", "slide_up"} /\ ~i.vm /\ csr.vma)

\* The code takes for agnostic exactly the elements that may hold anything.
LEMMA AgnosticIsAny ==
    ASSUME NEW i \in Instruction, i.op \in {"arith", "load"}, Encoded(i), Guarded(i),
           csr \in CsrType, ref \in [Registers -> Register], NEW index \in Nat,
           i.class \in WholeClasses => Evl(i) \in Nat /\ index < Evl(i)
    PROVE  agnostic(i, GroupSize(i), Captured(i), index) <=> Fate(i, ref, index) = "any"
<1> DEFINE count == GroupSize(i)
           vector == Captured(i)
<1> USE DEF MaskClasses, MaskDataClasses, FirstClasses, WholeClasses
<1>1. Decoded(i)
  BY Decoding
<1>2. effectiveVl(i, count) = Evl(i)
  BY <1>1 DEF Decoded, effectiveVl, Evl
<1>3. csr.vl \in Nat /\ csr.vl <= VLEN /\ VLEN \in Nat \ {0} /\ csr.vstart \in Nat
      /\ csr.vta \in BOOLEAN /\ csr.vma \in BOOLEAN
  BY VectorAssumption DEF CsrType, VLEN
<1>4. vector.mask = ref[0] /\ (i.class = "compress" => vector.selectionMask = ref[i.vs1])
  BY <1>1, VectorAssumption DEF Captured, Decoded, Registers
<1>5. i.class = "compress" => compressedElements(i, vector.selectionMask) = Body(i, ref)
  BY <1>4 DEF compressedElements, Body
<1>6. i.class \notin FirstClasses \cup {"compress"} => Body(i, ref) = Evl(i)
  BY DEF Body
<1>7. i.class \in FirstClasses => Evl(i) = csr.vl /\ Body(i, ref) = IF csr.vl = 0 THEN 0 ELSE 1
  BY DEF Body, Evl
<1>8. CASE i.class \in WholeClasses
  <2>1. ~agnostic(i, count, vector, index)
    BY <1>1, <1>8 DEF agnostic, Decoded
  <2>2. Fate(i, ref, index) # "any"
    BY <1>1, <1>6, <1>8 DEF Fate, Decoded
  <2> QED
    BY <2>1, <2>2
<1>9. CASE i.class \notin WholeClasses
  <2>1. Evl(i) \in Nat /\ (i.class # "mask_load" => Evl(i) <= VLEN)
    <3>1. (csr.vl + ByteBits - 1) \div ByteBits \in Nat
      <4>1. csr.vl + ByteBits - 1 \in Nat
        BY <1>3, VectorAssumption
      <4> QED
        BY <4>1, VectorAssumption
    <3> QED
      BY <1>3, <1>9, <3>1 DEF Evl
  <2>2. CASE csr.vstart >= Evl(i) \/ index < csr.vstart
    BY <1>2, <1>3, <2>1, <2>2 DEF agnostic, Fate
  <2>3. CASE ~(csr.vstart >= Evl(i) \/ index < csr.vstart)
    <3>1. tail(i, count, vector, index) <=> index >= Body(i, ref)
      BY <1>1, <1>2, <1>3, <1>5, <1>6, <1>7, <1>9, <2>1, <2>3 DEF tail, Decoded
    <3>2. CASE index >= Body(i, ref)
      BY <1>1, <1>2, <1>3, <1>9, <2>1, <2>3, <3>1, <3>2 DEF agnostic, Fate, Decoded
    <3>3. CASE ~(index >= Body(i, ref))
      <4>1. i.class \notin {"compress", "mask_load"} => index \in Bits /\ ref[0][index] \in 0..1
        <5>1. i.class \notin {"compress", "mask_load"} => index \in Bits
          BY <1>3, <1>6, <1>7, <2>1, <3>3 DEF Bits
        <5>2. ref[0] \in Register
          BY VectorAssumption DEF Registers
        <5> QED
          BY <5>1, <5>2 DEF Register
      <4>2. agnostic(i, count, vector, index) <=>
              ~maskIsData(i) /\ ~i.vm /\ ref[0][index] = 0 /\ csr.vma
        BY <1>1, <1>2, <1>3, <1>4, <1>9, <2>1, <2>3, <3>1, <3>3 DEF agnostic, Decoded
      <4>3. Fate(i, ref, index) = "any" <=>
              /\ ~(i.class = "slide_up" /\ index < i.offset)
              /\ ~(i.vm \/ i.class \in MaskDataClasses \cup FirstClasses \/ ref[0][index] = 1)
              /\ csr.vma
        BY <2>3, <3>3 DEF Fate
      <4> QED
        BY <1>1, <4>1, <4>2, <4>3 DEF Decoded, Guarded
    <3> QED
      BY <3>2, <3>3
  <2> QED
    BY <2>2, <2>3
<1> QED
  BY <1>8, <1>9

(***************************************************************************)
(* Division, and the elements of a register                                *)
(***************************************************************************)

\* The quotient and the remainder, and that they are the only ones.
LEMMA Quotient ==
    ASSUME NEW x \in Nat, NEW b \in Nat \ {0}
    PROVE  /\ x \div b \in Nat /\ x % b \in 0..(b - 1)
           /\ x = (x \div b) * b + (x % b)
<1>1. x \div b \in Nat /\ x % b \in 0..(b - 1)
  OBVIOUS
<1>2. x = (x \div b) * b + (x % b)
  OBVIOUS
<1> QED
  BY <1>1, <1>2

\* No other numbers are quotient and remainder.
LEMMA QuotientIs ==
    ASSUME NEW x \in Nat, NEW b \in Nat \ {0}, NEW q \in Nat, NEW r \in 0..(b - 1), x = q * b + r
    PROVE  x \div b = q /\ x % b = r
<1>1. PICK p \in Nat : p = x \div b
  BY Quotient
<1>2. PICK s \in 0..(b - 1) : s = x % b
  BY Quotient
<1>3. p * b + s = q * b + r
  BY <1>1, <1>2, Quotient
<1>4. p * b \in Nat /\ q * b \in Nat
  OBVIOUS
<1>5. ~(p < q)
  <2> SUFFICES ASSUME p < q PROVE FALSE
    OBVIOUS
  <2>1. q - p - 1 \in Nat
    OBVIOUS
  <2>2. (q - p - 1) * b \in Nat
    BY <2>1
  <2>3. q * b = p * b + b + (q - p - 1) * b
    BY <2>1
  <2> QED
    BY <1>3, <1>4, <2>2, <2>3
<1>6. ~(q < p)
  <2> SUFFICES ASSUME q < p PROVE FALSE
    OBVIOUS
  <2>1. p - q - 1 \in Nat
    OBVIOUS
  <2>2. (p - q - 1) * b \in Nat
    BY <2>1
  <2>3. p * b = q * b + b + (p - q - 1) * b
    BY <2>1
  <2> QED
    BY <1>3, <1>4, <2>2, <2>3
<1>7. p = q
  BY <1>5, <1>6
<1>8. s = r
  BY <1>3, <1>4, <1>7
<1> QED
  BY <1>1, <1>2, <1>7, <1>8

\* n elements of b bits: every bit lies in one of them.
LEMMA BitOfElement ==
    ASSUME NEW n \in Nat, NEW b \in Nat \ {0}, NEW x \in 0..(n * b - 1)
    PROVE  /\ x \div b \in 0..(n - 1)
           /\ x \in ((x \div b) * b)..((x \div b + 1) * b - 1)
<1>0. n * b \in Nat /\ x \in Nat
  OBVIOUS
<1>1. PICK q \in Nat : q = x \div b
  BY Quotient, <1>0
<1>2. PICK r \in 0..(b - 1) : r = x % b
  BY Quotient, <1>0
<1>3. x = q * b + r
  BY <1>0, <1>1, <1>2, Quotient
<1>4. q * b \in Nat /\ (q + 1) * b = q * b + b
  OBVIOUS
<1>5. q < n
  <2> SUFFICES ASSUME ~(q < n) PROVE FALSE
    OBVIOUS
  <2>1. q - n \in Nat
    OBVIOUS
  <2>2. (q - n) * b \in Nat
    BY <2>1
  <2>3. q * b = n * b + (q - n) * b
    BY <2>1
  <2> QED
    BY <1>0, <1>3, <1>4, <2>2, <2>3
<1> QED
  BY <1>0, <1>1, <1>3, <1>4, <1>5

\* The bits of an element lie in the register, and belong to this element.
LEMMA ElementOfBit ==
    ASSUME NEW n \in Nat, NEW b \in Nat \ {0}, NEW e \in 0..(n - 1), NEW x \in (e * b)..((e + 1) * b - 1)
    PROVE  /\ x \in 0..(n * b - 1)
           /\ x \div b = e /\ x % b = x - e * b
<1>1. e * b \in Nat /\ (e + 1) * b = e * b + b /\ n - 1 - e \in Nat
  OBVIOUS
<1>2. (n - 1 - e) * b \in Nat /\ n * b = e * b + b + (n - 1 - e) * b
  BY <1>1
<1>3. x \in Nat /\ x - e * b \in 0..(b - 1) /\ x = e * b + (x - e * b)
  BY <1>1
<1>4. x \div b = e /\ x % b = x - e * b
  BY <1>3, QuotientIs
<1> QED
  BY <1>1, <1>2, <1>3, <1>4

\* The elements of a register, and what its destination consists of.
Shaped(i) ==
    /\ DestinationBits(i) \in Nat \ {0} /\ VLEN \div DestinationBits(i) \in Nat \ {0}
    /\ VLEN = (VLEN \div DestinationBits(i)) * DestinationBits(i)
    /\ FieldRegisters(i) \in Nat \ {0} /\ Fields(i) \in Nat \ {0} /\ GroupSize(i) \in Nat

\* Elements of one, two or four bytes, or of one bit, fill a register.
LEMMA ElementsFill ==
    ASSUME NEW k \in {1, 2, 4}
    PROVE  /\ RegisterBytes \div k \in Nat \ {0}
           /\ RegisterBytes = (RegisterBytes \div k) * k
  BY VectorAssumption

\* The same for the bits of such an element.
LEMMA WidthsFill ==
    ASSUME NEW k \in {1, 2, 4}, NEW bits, bits = ByteBits * k
    PROVE  bits \in Nat \ {0} /\ VLEN \div bits \in Nat \ {0} /\ VLEN = (VLEN \div bits) * bits
<1>1. PICK q \in Nat \ {0} : RegisterBytes = q * k
  BY ElementsFill
<1>2. RegisterBytes \in Nat \ {0} /\ ByteBits \in Nat \ {0}
  BY VectorAssumption
<1>3. bits \in Nat \ {0}
  BY <1>2
<1>4. RegisterBytes * ByteBits = q * (ByteBits * k)
  BY <1>1, <1>2
<1>5. VLEN = q * bits /\ VLEN \in Nat
  BY <1>2, <1>4 DEF VLEN
<1>6. VLEN \div bits = q
  <2>1. 0 \in 0..(bits - 1) /\ VLEN = q * bits + 0
    BY <1>3, <1>5
  <2> QED
    BY <1>3, <1>5, <2>1, QuotientIs
<1> QED
  BY <1>3, <1>5, <1>6

\* Every instruction with elements of at most 32 bits has such a shape.
LEMMA InstructionShape ==
    ASSUME NEW i \in Instruction, csr \in CsrType, DestinationBits(i) <= 4 * ByteBits
    PROVE  Shaped(i)
<1> DEFINE bits == DestinationBits(i)
<1>1. /\ csr.sew \in {1, 2, 4} /\ csr.lmul \in {1, 2, 4, 8} /\ Width(i) \in {1, 2, 4}
      /\ ByteBits \in Nat \ {0} /\ i.nf \in 0..7 /\ i.vs1 \in 0..31
  BY VectorAssumption DEF CsrType, Instruction, Width
<1>2. bits = 1 \/ \E k \in {1, 2, 4} : bits = ByteBits * k
  <2>1. Sew \in {ByteBits, ByteBits * 2, ByteBits * 4}
    BY <1>1 DEF Sew
  <2>2. CASE bits = 2 * Sew
    <3>1. CASE csr.sew = 1
      BY <1>1, <2>2, <3>1 DEF Sew
    <3>2. CASE csr.sew = 2
      BY <1>1, <2>2, <3>2 DEF Sew
    <3>3. CASE csr.sew = 4
      BY <1>1, <2>2, <3>3 DEF Sew
    <3> QED
      BY <1>1, <3>1, <3>2, <3>3
  <2>3. CASE bits = Sew
    BY <1>1, <2>3 DEF Sew
  <2>4. CASE bits = WidthBits(i)
    BY <1>1, <2>4 DEF WidthBits
  <2> QED
    BY <2>2, <2>3, <2>4 DEF DestinationBits
<1>3. bits \in Nat \ {0} /\ VLEN \div bits \in Nat \ {0} /\ VLEN = (VLEN \div bits) * bits
  <2>1. CASE bits = 1
    <3>1. VLEN \in Nat \ {0}
      BY VectorAssumption DEF VLEN
    <3> QED
      BY <2>1, <3>1
  <2> HIDE DEF bits
  <2> QED
    BY <1>2, <2>1, WidthsFill
<1>4. Sew \in Nat \ {0}
  BY <1>1 DEF Sew
<1>5. FieldRegisters(i) \in Nat \ {0}
  <2>1. csr.lmul * bits \in Nat
    BY <1>1, <1>3
  <2>2. PICK n \in Nat : n = csr.lmul * bits
    BY <2>1
  <2>3. n \div Sew \in Nat
    BY <1>4, <2>2
  <2>4. (csr.lmul * bits) \div Sew \in Nat
    BY <2>2, <2>3
  <2> QED
    BY <1>1, <2>4 DEF FieldRegisters
<1>6. Fields(i) \in Nat \ {0}
  BY <1>1 DEF Fields
<1>7. GroupSize(i) \in Nat
  BY <1>5, <1>6 DEF GroupSize
<1> QED
  BY <1>3, <1>5, <1>6, <1>7 DEF Shaped

\* The element of a destination that a bit belongs to, counted over a field.
Place(i, reg, bit) ==
    ((reg - i.vd) % FieldRegisters(i)) * (VLEN \div DestinationBits(i)) + bit \div DestinationBits(i)

\* It is a number, and one below the length of a whole register operation.
LEMMA PlaceType ==
    ASSUME NEW i \in Instruction, Shaped(i), NEW reg \in Group(i), NEW bit \in Bits
    PROVE  Place(i, reg, bit) \in Nat /\ (i.class \in WholeClasses => Evl(i) \in Nat /\ Place(i, reg, bit) < Evl(i))
<1>1. PICK b \in Nat \ {0} : b = DestinationBits(i)
  BY DEF Shaped
<1>2. PICK d \in Nat \ {0} : d = VLEN \div DestinationBits(i)
  BY DEF Shaped
<1>3. VLEN = d * b
  BY <1>1, <1>2 DEF Shaped
<1>4. PICK e \in 0..(d - 1) : e = bit \div b
  BY <1>3, BitOfElement DEF Bits
<1>5. PICK g \in 0..(GroupSize(i) - 1) : g = reg - i.vd
  BY DEF Group, Shaped, Instruction, Registers
<1>6. g % FieldRegisters(i) \in Nat
  BY <1>5 DEF Shaped
<1>7. Place(i, reg, bit) = (g % FieldRegisters(i)) * d + e
  BY <1>1, <1>2, <1>4, <1>5 DEF Place
<1>8. Place(i, reg, bit) \in Nat
  <2>1. PICK h \in Nat : h = g % FieldRegisters(i)
    BY <1>6
  <2>2. h * d \in Nat
    BY <2>1
  <2> QED
    BY <1>7, <2>1, <2>2
<1>9. ASSUME i.class \in WholeClasses
      PROVE  Evl(i) \in Nat /\ Place(i, reg, bit) < Evl(i)
  <2>1. Fields(i) = 1 /\ GroupSize(i) = FieldRegisters(i)
    BY <1>9 DEF WholeClasses, Fields, GroupSize, Shaped
  <2>3. PICK n \in Nat \ {0} : n = GroupSize(i)
    BY <2>1 DEF Shaped
  <2>8. g \in 0..(n - 1)
    BY <1>5, <2>3
  <2>2. g % FieldRegisters(i) = g
    BY <2>1, <2>3, <2>8
  <2>4. Evl(i) = n * d
    BY <1>2, <1>9, <2>3 DEF Evl, WholeClasses
  <2>5. n - 1 - g \in Nat /\ g \in Nat
    BY <2>8
  <2>6. (n - 1 - g) * d \in Nat /\ n * d \in Nat /\ n * d = g * d + d + (n - 1 - g) * d /\ g * d \in Nat
    BY <2>5
  <2>7. Place(i, reg, bit) = g * d + e
    BY <1>7, <2>2
  <2> QED
    BY <1>4, <2>4, <2>6, <2>7
<1> QED
  BY <1>8, <1>9

(***************************************************************************)
(* The registers: what RegistersMatch compares                             *)
(***************************************************************************)

\* A bit of the destination after the instruction.
BitAfter(i, regs, result, ones, reg, bit) ==
    CASE Fate(i, regs, Place(i, reg, bit)) = "result" -> result.bits[bit]
      [] Fate(i, regs, Place(i, reg, bit)) = "any" /\ ones -> 1
      [] OTHER -> regs[reg][bit]

\* It is the one that Executed says.
LEMMA ExecutedBit ==
    ASSUME NEW i, NEW regs, NEW result, NEW ones, NEW reg \in Registers \cap Group(i), NEW bit \in Bits
    PROVE  Executed(i, regs, result, ones)[reg][bit] = BitAfter(i, regs, result, ones, reg, bit)
<1>1. Executed(i, regs, result, ones)[reg] = [b \in Bits |-> BitAfter(i, regs, result, ones, reg, b)]
  BY DEF Executed, Place, BitAfter
<1> QED
  BY <1>1

\* A right core has ones where Spike has left what may hold anything.
LEMMA ConformingBit ==
    ASSUME NEW i, NEW result, NEW reg \in Registers \cap Group(i), NEW bit \in Bits
    PROVE  Conforming(i, ref, result)[reg][bit] =
             IF Fate(i, ref, Place(i, reg, bit)) = "any" THEN 1 ELSE SpikeStep(i, result)[reg][bit]
<1>1. /\ Conforming(i, ref, result)[reg][bit] = BitAfter(i, ref, result, TRUE, reg, bit)
      /\ SpikeStep(i, result)[reg][bit] = BitAfter(i, ref, result, FALSE, reg, bit)
  BY ExecutedBit DEF Conforming, SpikeStep
<1> QED
  BY <1>1 DEF BitAfter

\* The registers after an instruction are registers.
LEMMA ExecutedType ==
    ASSUME NEW i, NEW regs \in [Registers -> Register], NEW result, result.bits \in Register, NEW ones \in BOOLEAN
    PROVE  Executed(i, regs, result, ones) \in [Registers -> Register]
<1> DEFINE Bit(reg, bit) ==
             CASE Fate(i, regs, Place(i, reg, bit)) = "result" -> result.bits[bit]
               [] Fate(i, regs, Place(i, reg, bit)) = "any" /\ ones -> 1
               [] OTHER -> regs[reg][bit]
<1>1. Executed(i, regs, result, ones) =
        [reg \in Registers |-> IF reg \in Group(i) THEN [bit \in Bits |-> Bit(reg, bit)] ELSE regs[reg]]
  BY DEF Executed, Place
<1>2. \A reg \in Registers, bit \in Bits : Bit(reg, bit) \in 0..1
  <2> TAKE reg \in Registers, bit \in Bits
  <2>1. regs[reg][bit] \in 0..1 /\ result.bits[bit] \in 0..1
    BY DEF Register
  <2> QED
    BY <2>1
<1> HIDE DEF Bit
<1>3. \A reg \in Registers : [bit \in Bits |-> Bit(reg, bit)] \in Register
  BY <1>2 DEF Register
<1> QED
  BY <1>1, <1>3

\* What Legal grants of the place of the destination.
LEMMA LegalGroup ==
    ASSUME NEW i \in Instruction, csr \in CsrType, Legal(i)
    PROVE  /\ Shaped(i) /\ GroupSize(i) <= MaxGroup /\ i.vd + GroupSize(i) <= RegisterCount
           /\ Group(i) \subseteq Registers
           /\ \A group \in 0..(GroupSize(i) - 1) : i.vd + group \in Group(i)
           /\ \A reg \in Group(i) : reg - i.vd \in 0..(GroupSize(i) - 1)
<1>1. Shaped(i) /\ GroupSize(i) <= MaxGroup /\ i.vd + GroupSize(i) <= RegisterCount
  BY InstructionShape DEF Legal
<1>2. GroupSize(i) \in Nat /\ i.vd \in Nat /\ RegisterCount \in Nat
  BY <1>1, VectorAssumption DEF Shaped, Instruction, Registers
<1> QED
  BY <1>1, <1>2 DEF Group, Registers

\* The registers of a field, worked out from the size of the group.
LEMMA FieldIs ==
    ASSUME NEW i, Shaped(i), GroupSize(i) # 0
    PROVE  GroupSize(i) \div Fields(i) = FieldRegisters(i)
<1>1. PICK f \in Nat \ {0}, r \in Nat \ {0} : f = Fields(i) /\ r = FieldRegisters(i)
  BY DEF Shaped
<1>2. GroupSize(i) = f * r
  BY <1>1 DEF GroupSize
<1>3. f * r \in Nat /\ f * r = r * f + 0 /\ 0 \in 0..(f - 1)
  BY <1>1
<1>4. PICK x \in Nat : x = f * r
  BY <1>3
<1>5. x = r * f + 0
  BY <1>3, <1>4
<1>6. x \div f = r
  BY <1>3, <1>5, QuotientIs
<1> QED
  BY <1>1, <1>2, <1>4, <1>6

\* The bits of an element, and the element of a bit.
LEMMA BitPlace ==
    ASSUME NEW i \in Instruction, csr \in CsrType, Legal(i), NEW group \in 0..(GroupSize(i) - 1),
           NEW element \in 0..(VLEN \div DestinationBits(i) - 1),
           NEW bit \in (element * DestinationBits(i))..((element + 1) * DestinationBits(i) - 1)
    PROVE  /\ bit \in Bits
           /\ Place(i, i.vd + group, bit) = (group % FieldRegisters(i)) * (VLEN \div DestinationBits(i)) + element
<1>0. Shaped(i)
  BY LegalGroup
<1>1. PICK b \in Nat \ {0} : b = DestinationBits(i)
  BY <1>0 DEF Shaped
<1>2. PICK d \in Nat \ {0} : d = VLEN \div DestinationBits(i)
  BY <1>0 DEF Shaped
<1>3. VLEN = d * b
  BY <1>0, <1>1, <1>2 DEF Shaped
<1>4. element \in 0..(d - 1) /\ bit \in (element * b)..((element + 1) * b - 1)
  BY <1>1, <1>2
<1>5. bit \in 0..(d * b - 1) /\ bit \div b = element
  BY <1>4, ElementOfBit
<1>6. (i.vd + group) - i.vd = group
  BY <1>0 DEF Instruction, Registers, Shaped
<1> QED
  BY <1>1, <1>2, <1>3, <1>5, <1>6 DEF Place, Bits

\* An instruction that is no store, where the comparison is exact.
Compared(i) ==
    /\ i \in Instruction /\ i.op \in {"arith", "load"} /\ Encoded(i) /\ Guarded(i) /\ Legal(i)
    /\ csr \in CsrType /\ ref \in [Registers -> Register]

\* The group of the core is that of a right core.
SameGroup(i, result, actual) ==
    \A reg \in Group(i) : \A bit \in Bits : actual[reg][bit] = Conforming(i, ref, result)[reg][bit]

\* What one bit of an element is compared with is what a right core has there.
LEMMA BitCompared ==
    ASSUME NEW i, Compared(i), NEW result, NEW actual, NEW group \in 0..(GroupSize(i) - 1),
           NEW element \in 0..(VLEN \div DestinationBits(i) - 1),
           NEW bit \in (element * DestinationBits(i))..((element + 1) * DestinationBits(i) - 1),
           NEW index, index = (group % FieldRegisters(i)) * (VLEN \div DestinationBits(i)) + element
    PROVE  (IF agnostic(i, GroupSize(i), Captured(i), index) THEN 1 ELSE SpikeStep(i, result)[i.vd + group][bit])
             = Conforming(i, ref, result)[i.vd + group][bit]
<1>1. bit \in Bits /\ index = Place(i, i.vd + group, bit)
  BY BitPlace DEF Compared
<1>2. i.vd + group \in Registers \cap Group(i) /\ Shaped(i) /\ i \in Instruction
  BY LegalGroup DEF Compared
<1>3. index \in Nat /\ (i.class \in WholeClasses => Evl(i) \in Nat /\ index < Evl(i))
  BY <1>1, <1>2, PlaceType
<1>4. agnostic(i, GroupSize(i), Captured(i), index) <=> Fate(i, ref, index) = "any"
  BY <1>3, AgnosticIsAny DEF Compared
<1>5. Conforming(i, ref, result)[i.vd + group][bit] =
        IF Fate(i, ref, index) = "any" THEN 1 ELSE SpikeStep(i, result)[i.vd + group][bit]
  BY <1>1, <1>2, ConformingBit
<1> QED
  BY <1>4, <1>5

\* What RegistersMatch compares for one element.
ElementMatches(i, result, actual, group, element) ==
    \A bit \in (element * DestinationBits(i))..((element + 1) * DestinationBits(i) - 1) :
      actual[i.vd + group][bit] = Conforming(i, ref, result)[i.vd + group][bit]

\* With the decoding undone, RegistersMatch compares with a right core.
LEMMA MatchElements ==
    ASSUME NEW i, Compared(i), NEW result, NEW actual
    PROVE  RegistersMatch(i, i.vd, GroupSize(i), Captured(i), SpikeStep(i, result), actual) <=>
             \A group \in 0..(GroupSize(i) - 1) : \A element \in 0..(VLEN \div DestinationBits(i) - 1) :
               ElementMatches(i, result, actual, group, element)
<1> DEFINE d == VLEN \div DestinationBits(i)
           Same(group, element, field) ==
             LET index == (group % field) * d + element
                 isAgnostic == agnostic(i, GroupSize(i), Captured(i), index)
             IN  \A bit \in (element * DestinationBits(i))..((element + 1) * DestinationBits(i) - 1) :
                   actual[i.vd + group][bit] = IF isAgnostic THEN 1 ELSE SpikeStep(i, result)[i.vd + group][bit]
           field == IF GroupSize(i) \div Fields(i) = 0 THEN 1 ELSE GroupSize(i) \div Fields(i)
<1>1. Decoded(i) /\ Shaped(i)
  BY Decoding, LegalGroup DEF Compared
<1>2. /\ elementBits(i) = DestinationBits(i)
      /\ (IF i.op = "load" /\ ~wholeMemory(i) THEN i.nf + 1 ELSE 1) = Fields(i)
  BY <1>1 DEF Decoded
<1>3. RegistersMatch(i, i.vd, GroupSize(i), Captured(i), SpikeStep(i, result), actual) <=>
        \A group \in 0..(GroupSize(i) - 1) : \A element \in 0..(d - 1) : Same(group, element, field)
  BY <1>2, Zenon DEF RegistersMatch
<1>4. ASSUME NEW group \in 0..(GroupSize(i) - 1), NEW element \in 0..(d - 1)
      PROVE  Same(group, element, field) <=> ElementMatches(i, result, actual, group, element)
  <2>1. field = FieldRegisters(i)
    <3>1. GroupSize(i) # 0
      BY <1>1 DEF Shaped
    <3>2. GroupSize(i) \div Fields(i) = FieldRegisters(i)
      BY <1>1, <3>1, FieldIs
    <3> QED
      BY <1>1, <3>2 DEF Shaped
  <2> DEFINE index == (group % FieldRegisters(i)) * d + element
  <2>2. ASSUME NEW bit \in (element * DestinationBits(i))..((element + 1) * DestinationBits(i) - 1)
        PROVE  (IF agnostic(i, GroupSize(i), Captured(i), index) THEN 1 ELSE SpikeStep(i, result)[i.vd + group][bit])
                 = Conforming(i, ref, result)[i.vd + group][bit]
    BY BitCompared
  <2> HIDE DEF index
  <2>3. Same(group, element, FieldRegisters(i)) <=>
          \A bit \in (element * DestinationBits(i))..((element + 1) * DestinationBits(i) - 1) :
             actual[i.vd + group][bit] =
               IF agnostic(i, GroupSize(i), Captured(i), index) THEN 1 ELSE SpikeStep(i, result)[i.vd + group][bit]
    BY DEF index
  <2> HIDE DEF Same, d, field
  <2>4. Same(group, element, FieldRegisters(i)) <=> ElementMatches(i, result, actual, group, element)
    BY <2>2, <2>3 DEF ElementMatches
  <2> QED
    BY <2>1, <2>4
<1> HIDE DEF Same, field
<1> QED
  BY <1>3, <1>4

\* The comparison of the registers is exact: RegistersMatch accepts a group
\* just when every bit of it is the one that a right core has.
THEOREM MatchIsRight ==
    ASSUME NEW i, Compared(i), NEW result, NEW actual
    PROVE  RegistersMatch(i, i.vd, GroupSize(i), Captured(i), SpikeStep(i, result), actual) <=>
             SameGroup(i, result, actual)
<1> DEFINE Match == \A group \in 0..(GroupSize(i) - 1) : \A element \in 0..(VLEN \div DestinationBits(i) - 1) :
                      ElementMatches(i, result, actual, group, element)
<1>0. i \in Instruction /\ csr \in CsrType /\ Legal(i)
  BY DEF Compared
<1>1. ASSUME Match, NEW reg \in Group(i), NEW bit \in Bits
      PROVE  actual[reg][bit] = Conforming(i, ref, result)[reg][bit]
  <2>1. PICK b \in Nat \ {0} : b = DestinationBits(i)
    BY <1>0, LegalGroup DEF Shaped
  <2>2. PICK d \in Nat \ {0} : d = VLEN \div DestinationBits(i)
    BY <1>0, LegalGroup DEF Shaped
  <2>3. VLEN = d * b
    BY <1>0, <2>1, <2>2, LegalGroup DEF Shaped
  <2>4. PICK e \in 0..(d - 1) : bit \in (e * b)..((e + 1) * b - 1)
    BY <2>3, BitOfElement DEF Bits
  <2>5. PICK g \in 0..(GroupSize(i) - 1) : reg = i.vd + g
    <3>1. reg - i.vd \in 0..(GroupSize(i) - 1)
      BY <1>0, LegalGroup
    <3>2. reg \in Int /\ i.vd \in Int
      BY <1>0, LegalGroup DEF Registers, Instruction
    <3> QED
      BY <3>1, <3>2
  <2>6. ElementMatches(i, result, actual, g, e)
    BY <1>1, <2>2
  <2> QED
    BY <2>1, <2>4, <2>5, <2>6 DEF ElementMatches
<1>2. ASSUME SameGroup(i, result, actual), NEW group \in 0..(GroupSize(i) - 1),
             NEW element \in 0..(VLEN \div DestinationBits(i) - 1)
      PROVE  ElementMatches(i, result, actual, group, element)
  <2>1. i.vd + group \in Group(i)
    BY <1>0, LegalGroup
  <2>2. \A bit \in (element * DestinationBits(i))..((element + 1) * DestinationBits(i) - 1) : bit \in Bits
    BY <1>0, BitPlace
  <2> QED
    BY <1>2, <2>1, <2>2 DEF SameGroup, ElementMatches
<1> QED
  BY <1>1, <1>2, MatchElements DEF SameGroup

(***************************************************************************)
(* The registers: what is accepted                                         *)
(***************************************************************************)

\* A function of registers, whatever they hold.
File(regs) ==
    /\ regs = [reg \in Registers |-> regs[reg]]
    /\ \A reg \in Registers : regs[reg] = [bit \in Bits |-> regs[reg][bit]]

\* Registers that agree in every bit are the same.
LEMMA FileRegister ==
    ASSUME NEW regs, NEW file, File(regs), File(file), NEW reg \in Registers,
           \A bit \in Bits : regs[reg][bit] = file[reg][bit]
    PROVE  regs[reg] = file[reg]
  BY DEF File

\* Two with the same registers are the same.
LEMMA FileSame ==
    ASSUME NEW regs, NEW file, File(regs), File(file), \A reg \in Registers : regs[reg] = file[reg]
    PROVE  regs = file
  BY DEF File

\* A wrong bit leaves registers registers.
LEMMA FlipFile ==
    ASSUME NEW regs \in [Registers -> Register], NEW f
    PROVE  File(regs) /\ File(Flip(regs, f))
<1>1. File(regs)
  BY DEF File, Register
<1>2. CASE f.kind # "bit"
  BY <1>1, <1>2 DEF Flip
<1>3. CASE f.kind = "bit"
  <2>1. PICK value : Flip(regs, f) = [regs EXCEPT ![f.reg] = [regs[f.reg] EXCEPT ![f.bit] = value]]
    BY <1>3 DEF Flip
  <2>2. DOMAIN Flip(regs, f) = Registers /\ Flip(regs, f) = [reg \in Registers |-> Flip(regs, f)[reg]]
    BY <2>1
  <2>3. ASSUME NEW reg \in Registers
        PROVE  Flip(regs, f)[reg] = [bit \in Bits |-> Flip(regs, f)[reg][bit]]
    <3>0. regs[reg] = [bit \in Bits |-> regs[reg][bit]]
      BY <1>1 DEF File
    <3>1. CASE reg = f.reg
      <4>1. Flip(regs, f)[reg] = [regs[reg] EXCEPT ![f.bit] = value]
        BY <2>1, <3>1
      <4> QED
        BY <3>0, <4>1
    <3>2. CASE reg # f.reg
      BY <2>1, <3>0, <3>2
    <3> QED
      BY <3>1, <3>2
  <2> DEFINE flipped == Flip(regs, f)
  <2>4. flipped = [reg \in Registers |-> flipped[reg]]
    BY <2>2
  <2>5. \A reg \in Registers : flipped[reg] = [bit \in Bits |-> flipped[reg][bit]]
    BY <2>3
  <2> HIDE DEF flipped
  <2>6. File(flipped)
    BY <2>4, <2>5 DEF File
  <2> QED
    BY <1>1, <2>6 DEF flipped
<1> QED
  BY <1>1, <1>2, <1>3

\* Registers outside the group stay.
LEMMA OutsideStays ==
    ASSUME NEW i, NEW regs, NEW result, NEW reg \in Registers, reg \notin Group(i)
    PROVE  SpikeStep(i, result)[reg] = ref[reg] /\ Conforming(i, regs, result)[reg] = regs[reg]
  BY DEF SpikeStep, Conforming, Executed

\* What Spike and a right core have are registers.
LEMMA StepTypes ==
    ASSUME NEW i, ref \in [Registers -> Register], NEW regs \in [Registers -> Register],
           NEW result, result.bits \in Register
    PROVE  /\ SpikeStep(i, result) \in [Registers -> Register]
           /\ Conforming(i, regs, result) \in [Registers -> Register]
<1>1. Executed(i, ref, result, FALSE) \in [Registers -> Register]
  BY ExecutedType, Zenon
<1>2. Executed(i, regs, result, TRUE) \in [Registers -> Register]
  BY ExecutedType, Zenon
<1> QED
  BY <1>1, <1>2 DEF SpikeStep, Conforming

\* Where a right core changes nothing, neither does Spike.
LEMMA SpikeUnchanged ==
    ASSUME NEW i, ref \in [Registers -> Register], NEW result, result.bits \in Register,
           Conforming(i, ref, result) = ref
    PROVE  SpikeStep(i, result) = ref
<1>1. SpikeStep(i, result) \in [Registers -> Register]
  BY StepTypes
<1>2. File(SpikeStep(i, result)) /\ File(ref)
  BY <1>1, FlipFile
<1>3. ASSUME NEW reg \in Registers
      PROVE  SpikeStep(i, result)[reg] = ref[reg]
  <2>1. CASE reg \notin Group(i)
    BY <2>1, OutsideStays
  <2>2. CASE reg \in Group(i)
    <3>1. ASSUME NEW bit \in Bits
          PROVE  SpikeStep(i, result)[reg][bit] = ref[reg][bit]
      <4>1. SpikeStep(i, result)[reg][bit] = BitAfter(i, ref, result, FALSE, reg, bit)
        BY <2>2, ExecutedBit DEF SpikeStep
      <4>2. Conforming(i, ref, result)[reg][bit] = BitAfter(i, ref, result, TRUE, reg, bit)
        BY <2>2, ExecutedBit DEF Conforming
      <4> QED
        BY <4>1, <4>2 DEF BitAfter
    <3> QED
      BY <1>2, <3>1, FileRegister
  <2> QED
    BY <2>1, <2>2
<1> QED
  BY <1>2, <1>3, FileSame

\* A register that differs from that of a right core, or from Spike's, is one
\* the core reports.
Reported(base, count, right, expected, actual) ==
    ~ \E reg \in Registers \ (base..(base + count - 1)) : actual[reg] # right[reg] \/ actual[reg] # expected[reg]

\* A core that lost the instruction passes only where there was none to see.
LEMMA LostAccepted ==
    ASSUME NEW i, Compared(i), NEW result, result.bits \in Register,
           Reported(i.vd, 0, Conforming(i, ref, result), SpikeStep(i, result), ref)
    PROVE  /\ ref = Conforming(i, ref, result)
           /\ Adopt(i.vd, 0, SpikeStep(i, result), ref) = Conforming(i, ref, result)
<1> DEFINE right == Conforming(i, ref, result)
<1>1. ref \in [Registers -> Register] /\ right \in [Registers -> Register] /\ i.vd \in Nat
  <2>1. ref \in [Registers -> Register] /\ i \in Instruction
    BY DEF Compared
  <2>2. i.vd \in Nat
    BY <2>1 DEF Instruction, Registers
  <2> QED
    BY <2>1, <2>2, StepTypes
<1>2. \A reg : reg \notin i.vd..(i.vd + 0 - 1)
  BY <1>1
<1>3. \A reg \in Registers : ref[reg] = right[reg]
  BY <1>2 DEF Reported
<1>4. ref = right
  BY <1>1, <1>3, FlipFile, FileSame
<1>5. SpikeStep(i, result) = ref
  BY <1>1, <1>4, SpikeUnchanged
<1>6. Adopt(i.vd, 0, ref, ref) = [reg \in Registers |-> ref[reg]]
  BY DEF Adopt
<1> QED
  BY <1>1, <1>4, <1>5, <1>6

\* A right core that names another group passes where Spike has what it has.
LEMMA ElsewhereAccepted ==
    ASSUME NEW i, Compared(i), NEW result, result.bits \in Register, NEW base, NEW count,
           Reported(base, count, Conforming(i, ref, result), SpikeStep(i, result), Conforming(i, ref, result))
    PROVE  Adopt(base, count, SpikeStep(i, result), Conforming(i, ref, result)) = Conforming(i, ref, result)
<1> DEFINE right == Conforming(i, ref, result)
<1>1. right \in [Registers -> Register]
  BY StepTypes DEF Compared
<1> HIDE DEF right
<1>2. Adopt(base, count, SpikeStep(i, result), right) = [reg \in Registers |-> right[reg]]
  BY DEF Adopt, Reported, right
<1> QED
  BY <1>1, <1>2 DEF right

\* A core that names the group is right in it, and Spike takes it over.
LEMMA GroupAccepted ==
    ASSUME NEW i, Compared(i), NEW result, result.bits \in Register, NEW actual, File(actual),
           Reported(i.vd, GroupSize(i), Conforming(i, ref, result), SpikeStep(i, result), actual),
           RegistersMatch(i, i.vd, GroupSize(i), Captured(i), SpikeStep(i, result), actual)
    PROVE  /\ actual = Conforming(i, ref, result)
           /\ Adopt(i.vd, GroupSize(i), SpikeStep(i, result), actual) = Conforming(i, ref, result)
<1> DEFINE right == Conforming(i, ref, result)
<1>1. right \in [Registers -> Register] /\ ref \in [Registers -> Register] /\ Group(i) \subseteq Registers
  BY StepTypes, LegalGroup DEF Compared
<1>2. SameGroup(i, result, actual)
  BY MatchIsRight
<1>3. ASSUME NEW reg \in Registers
      PROVE  actual[reg] = right[reg]
  <2>1. CASE reg \in Group(i)
    <3>1. File(right)
      BY <1>1, FlipFile
    <3>2. \A bit \in Bits : actual[reg][bit] = right[reg][bit]
      BY <1>2, <2>1 DEF SameGroup
    <3> HIDE DEF right
    <3> QED
      BY <3>1, <3>2, FileRegister
  <2>2. CASE reg \notin Group(i)
    BY <2>2 DEF Reported, Group
  <2> QED
    BY <2>1, <2>2
<1>4. actual = right
  BY <1>1, <1>3, FlipFile, FileSame
<1>5. ASSUME NEW reg \in Registers, reg \notin Group(i)
      PROVE  SpikeStep(i, result)[reg] = right[reg]
  BY <1>5, OutsideStays
<1>6. Adopt(i.vd, GroupSize(i), SpikeStep(i, result), actual) = [reg \in Registers |-> right[reg]]
  BY <1>3, <1>5 DEF Adopt, Group
<1> QED
  BY <1>1, <1>4, <1>6

(***************************************************************************)
(* The stores: the writes of Spike                                         *)
(***************************************************************************)

\* A vector store of the encoding table.
Stored(i) ==
    /\ i \in Instruction /\ i.op = "store" /\ Encoded(i)
    /\ csr \in CsrType

\* Registers, elements of one and bytes of an element, as plain numbers.
StoreShape(i, R, E, B, F) ==
    /\ R = StoreRegisters(i) /\ E = ElementsPerRegister(i) /\ B = ElementBytes(i) /\ F = StoreFields(i)
    /\ R \in Nat \ {0} /\ E \in Nat \ {0} /\ B \in Nat \ {0} /\ F \in Nat \ {0}
    /\ RegisterBytes = E * B /\ RegisterBytes \in Nat

\* Every store of the table has such numbers.
LEMMA StoreShaped ==
    ASSUME NEW i, Stored(i)
    PROVE  \E R, E, B, F : StoreShape(i, R, E, B, F)
<1>1. /\ csr.sew \in {1, 2, 4} /\ csr.lmul \in {1, 2, 4, 8} /\ Width(i) \in {1, 2, 4} /\ i.nf \in 0..7
  BY DEF Stored, CsrType, Instruction, Width
<1>2. ElementBytes(i) \in {1, 2, 4}
  BY <1>1 DEF ElementBytes
<1>3. /\ ElementsPerRegister(i) \in Nat \ {0}
      /\ RegisterBytes = ElementsPerRegister(i) * ElementBytes(i)
  BY <1>2, ElementsFill DEF ElementsPerRegister
<1>4. StoreFields(i) \in Nat \ {0}
  BY <1>1 DEF StoreFields
<1>5. StoreRegisters(i) \in Nat \ {0}
  <2>1. (csr.lmul * ElementBytes(i)) \div csr.sew \in Nat
    BY <1>1, <1>2
  <2>2. i.nf + 1 \in Nat \ {0}
    BY <1>1
  <2> QED
    BY <2>1, <2>2 DEF StoreRegisters
<1> QED
  BY <1>2, <1>3, <1>4, <1>5, VectorAssumption DEF StoreShape

\* A store that is not scattered has one field.
LEMMA RowsOneField ==
    ASSUME NEW i, Stored(i), ~Scattered(i)
    PROVE  StoreFields(i) = 1
<1>1. i.class = "whole_store" \/ i.nf = 0
  BY DEF Stored, Encoded, StoreEncoded, Scattered
<1> QED
  BY <1>1 DEF StoreFields

\* Byte b of element x of field f, with its address.
WriteOf(i, x, f, b) ==
    <<ElementAddress(i, x, f - 1) + (b - 1),
      ByteAt(ref, i.vd + (f - 1) * StoreRegisters(i) + x \div ElementsPerRegister(i),
             (x % ElementsPerRegister(i)) * ElementBytes(i) + (b - 1))>>

\* The writes of one element of one field.
WritesOf(i, x, f) ==
    IF ~Enabled(i, x) THEN <<>> ELSE [b \in 1..ElementBytes(i) |-> WriteOf(i, x, f, b)]

\* Every write of a store.
WriteSet(i) == {WriteOf(i, x, f, b) : x \in Nat, f \in Nat, b \in Nat}

\* Those of all fields of an element.
ElementWrites(i, x) == Joined([f \in 1..StoreFields(i) |-> WritesOf(i, x, f)], StoreFields(i))

\* The writes of Spike are those of its elements, one after the other.
LEMMA SpikeStoresIs ==
    ASSUME NEW i, Stored(i)
    PROVE  SpikeStores(i) =
             Joined([e \in 1..(StoreRegisters(i) * ElementsPerRegister(i)) |-> ElementWrites(i, e - 1)],
                    StoreRegisters(i) * ElementsPerRegister(i))
<1> DEFINE n == StoreRegisters(i) * ElementsPerRegister(i)
           F == StoreFields(i)
<1>1. \A x : FlattenSeq([f \in 1..F |-> WritesOf(i, x, f)]) = ElementWrites(i, x)
  <2> TAKE x
  <2> DEFINE w == [f \in 1..F |-> WritesOf(i, x, f)]
  <2>1. [f \in 1..F |-> w[f]] = w
    OBVIOUS
  <2> QED
    BY <2>1 DEF ElementWrites, Joined
<1>2. SpikeStores(i) = FlattenSeq([e \in 1..n |-> FlattenSeq([f \in 1..F |-> WritesOf(i, e - 1, f)])])
  BY Zenon DEF SpikeStores, WritesOf, WriteOf
<1> HIDE DEF n
<1>3. SpikeStores(i) = FlattenSeq([e \in 1..n |-> ElementWrites(i, e - 1)])
  <2>1. [e \in 1..n |-> FlattenSeq([f \in 1..F |-> WritesOf(i, e - 1, f)])] = [e \in 1..n |-> ElementWrites(i, e - 1)]
    BY <1>1
  <2> QED
    BY <1>2, <2>1
<1> DEFINE w == [e \in 1..n |-> ElementWrites(i, e - 1)]
<1>4. [e \in 1..n |-> w[e]] = w
  OBVIOUS
<1> QED
  BY <1>3, <1>4 DEF Joined, n

\* They are sequences of writes.
LEMMA WritesSeq ==
    ASSUME NEW i, Stored(i), NEW x \in Nat, NEW f \in Nat
    PROVE  WritesOf(i, x, f) \in Seq(WriteSet(i))
<1>1. PICK B \in Nat : B = ElementBytes(i)
  BY StoreShaped DEF StoreShape
<1>2. \A b \in 1..B : WriteOf(i, x, f, b) \in WriteSet(i)
  BY DEF WriteSet
<1>3. [b \in 1..B |-> WriteOf(i, x, f, b)] \in Seq(WriteSet(i))
  BY <1>2
<1> QED
  BY <1>1, <1>3 DEF WritesOf

\* So are those of all fields of an element.
LEMMA ElementWritesSeq ==
    ASSUME NEW i, Stored(i), NEW x \in Nat
    PROVE  ElementWrites(i, x) \in Seq(WriteSet(i))
<1>1. PICK F \in Nat : F = StoreFields(i)
  BY StoreShaped DEF StoreShape
<1> DEFINE w == [f \in 1..F |-> WritesOf(i, x, f)]
<1>2. Seqs(w, F, WriteSet(i))
  BY WritesSeq DEF Seqs
<1> HIDE DEF w
<1>3. Joined(w, F) \in Seq(WriteSet(i))
  BY <1>2, JoinedSeq
<1> QED
  BY <1>1, <1>3 DEF w, ElementWrites

\* So are those of a store, which is to say that there are finitely many.
LEMMA SpikeStoresSeq ==
    ASSUME NEW i, Stored(i)
    PROVE  SpikeStores(i) \in Seq(WriteSet(i))
<1>1. PICK n \in Nat : n = StoreRegisters(i) * ElementsPerRegister(i)
  BY StoreShaped DEF StoreShape
<1> DEFINE w == [e \in 1..n |-> ElementWrites(i, e - 1)]
<1>2. Seqs(w, n, WriteSet(i))
  BY ElementWritesSeq DEF Seqs
<1> HIDE DEF w
<1>3. Joined(w, n) \in Seq(WriteSet(i))
  BY <1>2, JoinedSeq
<1> QED
  BY <1>1, <1>3, SpikeStoresIs DEF w

(***************************************************************************)
(* The stores: what is accepted                                            *)
(***************************************************************************)

\* Writes with the same multiset leave the same addresses alone, and the
\* comparison of the final bytes settles the others.
LEMMA SameWritesSameMemory ==
    ASSUME NEW stores, NEW expected, NEW memory, IsFiniteSet(DOMAIN expected),
           FinalBytesMatch(stores, Drain(memory, expected)), SameWrites(stores, expected)
    PROVE  Drain(memory, stores) = Drain(memory, expected)
<1> DEFINE final == Drain(memory, expected)
           At(s, a) == {k \in DOMAIN s : s[k][1] = a}
<1>1. DOMAIN final = DOMAIN memory
  BY DEF Drain
<1>2. ASSUME NEW a \in DOMAIN memory
      PROVE  (IF At(stores, a) = {} THEN memory[a] ELSE stores[Max(At(stores, a))][2]) = final[a]
  <2>1. CASE At(stores, a) = {}
    <3>1. ASSUME NEW k \in At(expected, a) PROVE FALSE
      <4> DEFINE write == expected[k]
                 Where(s) == {j \in DOMAIN s : s[j] = write}
      <4>1. write \in Range(expected)
        BY DEF Range
      <4>2. Cardinality(Where(stores)) = Cardinality(Where(expected))
        BY <4>1 DEF SameWrites, Times
      <4>3. Where(stores) = {}
        BY <2>1
      <4>4. k \in Where(expected) /\ IsFiniteSet(Where(expected))
        BY FS_Subset
      <4> HIDE DEF Where
      <4>5. Cardinality(Where(expected)) = 0
        BY <4>2, <4>3, FS_EmptySet
      <4> QED
        BY <4>4, <4>5, FS_EmptySet
    <3>2. At(expected, a) = {}
      BY <3>1
    <3>3. final[a] = memory[a]
      BY <3>2 DEF Drain
    <3> QED
      BY <2>1, <3>3
  <2>2. CASE At(stores, a) # {}
    <3>1. PICK k \in DOMAIN stores : stores[k][1] = a
      BY <2>2
    <3>2. Drain(final, stores)[a] = final[a]
      BY <3>1 DEF FinalBytesMatch
    <3>3. Drain(final, stores)[a] = stores[Max(At(stores, a))][2]
      BY <1>1, <2>2 DEF Drain
    <3> QED
      BY <2>2, <3>2, <3>3
  <2> QED
    BY <2>1, <2>2
<1>3. Drain(memory, stores) =
        [a \in DOMAIN memory |-> IF At(stores, a) = {} THEN memory[a] ELSE stores[Max(At(stores, a))][2]]
  BY DEF Drain
<1>4. final = [a \in DOMAIN memory |-> final[a]]
  BY DEF Drain
<1> HIDE DEF At, final
<1>5. Drain(memory, stores) = [a \in DOMAIN memory |-> final[a]]
  BY <1>2, <1>3
<1> QED
  BY <1>4, <1>5 DEF final

\* The same writes once more change nothing.
LEMMA DrainTwice ==
    ASSUME NEW stores, NEW memory
    PROVE  Drain(Drain(memory, stores), stores) = Drain(memory, stores)
<1> DEFINE final == Drain(memory, stores)
           At(a) == {k \in DOMAIN stores : stores[k][1] = a}
<1>1. final = [a \in DOMAIN memory |-> IF At(a) = {} THEN memory[a] ELSE stores[Max(At(a))][2]]
  BY DEF Drain
<1>2. DOMAIN final = DOMAIN memory
  BY <1>1
<1>3. Drain(final, stores) = [a \in DOMAIN memory |-> IF At(a) = {} THEN final[a] ELSE stores[Max(At(a))][2]]
  BY <1>2 DEF Drain
<1> HIDE DEF At, final
<1>4. Drain(final, stores) = [a \in DOMAIN memory |-> final[a]]
  BY <1>1, <1>3
<1>5. final = [a \in DOMAIN memory |-> final[a]]
  BY <1>1
<1> QED
  BY <1>4, <1>5 DEF final

\* What is accepted of a store leaves the memory of Spike.
LEMMA StoreAccepted ==
    ASSUME NEW i, Stored(i), NEW stores, NEW memory,
           FinalBytesMatch(stores, Drain(memory, SpikeStores(i))), SameWrites(stores, SpikeStores(i))
    PROVE  Drain(memory, stores) = Drain(memory, SpikeStores(i))
<1>1. PICK n \in Nat : DOMAIN SpikeStores(i) = 1..n
  BY SpikeStoresSeq
<1>2. IsFiniteSet(DOMAIN SpikeStores(i))
  BY <1>1, FS_Interval
<1> QED
  BY <1>2, SameWritesSameMemory

(***************************************************************************)
(* The stores: what a right core drains                                    *)
(***************************************************************************)

\* x is place q of row p, rows having m places.
Lies(x, n, m, p, q) ==
    /\ n \in Nat \ {0} /\ m \in Nat \ {0} /\ p \in 1..n /\ q \in 1..m
    /\ x = (p - 1) * m + (q - 1)

\* Division finds the row and the place again.
LEMMA Split ==
    ASSUME NEW x, NEW n, NEW m, NEW p, NEW q, Lies(x, n, m, p, q)
    PROVE  x \in 0..(n * m - 1) /\ x \in Nat /\ x \div m = p - 1 /\ x % m = q - 1
<1>0. /\ n \in Nat \ {0} /\ m \in Nat \ {0} /\ p \in 1..n /\ q \in 1..m
      /\ x = (p - 1) * m + (q - 1)
  BY DEF Lies
<1>1. (p - 1) * m \in Nat /\ (p - 1) * m + q \in 1..(n * m)
  BY <1>0, BlockPlace
<1>2. n * m \in Nat /\ p - 1 \in Nat /\ q - 1 \in 0..(m - 1)
  BY <1>0
<1>3. PICK c \in Nat : c = (p - 1) * m
  BY <1>1
<1>4. PICK y \in Nat : y = n * m
  BY <1>2
<1>5. c + q \in 1..y /\ x = c + (q - 1)
  BY <1>0, <1>1, <1>3, <1>4
<1>6. x \in 0..(y - 1) /\ x \in Nat
  BY <1>0, <1>5
<1>7. x \div m = p - 1 /\ x % m = q - 1
  BY <1>0, <1>2, <1>6, QuotientIs
<1> QED
  BY <1>4, <1>6, <1>7

\* A row of a right core, and what it has at a byte.
LEMMA RowIs ==
    ASSUME NEW i, NEW group \in 0..(StoreFields(i) * StoreRegisters(i) - 1), NEW byte \in 0..(RegisterBytes - 1),
           NEW x, x = (group % StoreRegisters(i)) * ElementsPerRegister(i) + byte \div ElementBytes(i)
    PROVE  LET row == ConformingRows(i)[group]
           IN  /\ row.address = i.base + group * RegisterBytes
               /\ byte \in row.mask <=> Enabled(i, x)
               /\ row.data[byte] = ByteAt(dut, i.vd + group, byte)
               /\ row.elements[byte] = ElementAddress(i, x, group \div StoreRegisters(i))
  BY DEF ConformingRows

\* The same with the places of the byte and the row as plain numbers.
LEMMA RowAt ==
    ASSUME NEW i, NEW R, NEW E, NEW B, NEW F, StoreShape(i, R, E, B, F),
           NEW r \in 1..R, NEW e \in 1..E, NEW f \in 1..F, NEW k \in 1..B,
           NEW group, group = (f - 1) * R + (r - 1), NEW byte, byte = (e - 1) * B + (k - 1),
           NEW x, x = (r - 1) * E + (e - 1)
    PROVE  /\ group \in 0..(F * R - 1) /\ byte \in 0..(E * B - 1) /\ x \in Nat
           /\ x \div E = r - 1 /\ x % E = e - 1 /\ byte % B = k - 1
           /\ group \in Nat /\ byte \in Nat
           /\ LET row == ConformingRows(i)[group]
              IN  /\ row.address = i.base + group * RegisterBytes
                  /\ byte \in row.mask <=> Enabled(i, x)
                  /\ row.data[byte] = ByteAt(dut, i.vd + group, byte)
                  /\ row.elements[byte] = ElementAddress(i, x, f - 1)
<1>1. /\ R = StoreRegisters(i) /\ E = ElementsPerRegister(i) /\ B = ElementBytes(i) /\ F = StoreFields(i)
      /\ R \in Nat \ {0} /\ E \in Nat \ {0} /\ B \in Nat \ {0} /\ F \in Nat \ {0}
      /\ RegisterBytes = E * B
  BY DEF StoreShape
<1>2. group \in 0..(F * R - 1) /\ group \in Nat /\ group \div R = f - 1 /\ group % R = r - 1
  <2>1. Lies(group, F, R, f, r)
    BY <1>1 DEF Lies
  <2> QED
    BY <2>1, Split
<1>3. byte \in 0..(E * B - 1) /\ byte \in Nat /\ byte \div B = e - 1 /\ byte % B = k - 1
  <2>1. Lies(byte, E, B, e, k)
    BY <1>1 DEF Lies
  <2> QED
    BY <2>1, Split
<1>4. x \in Nat /\ x \div E = r - 1 /\ x % E = e - 1
  <2>1. Lies(x, R, E, r, e)
    BY <1>1 DEF Lies
  <2> QED
    BY <2>1, Split
<1>5. x = (group % R) * E + byte \div B
  BY <1>2, <1>3
<1>6. group \in 0..(StoreFields(i) * StoreRegisters(i) - 1) /\ byte \in 0..(RegisterBytes - 1)
      /\ x = (group % StoreRegisters(i)) * ElementsPerRegister(i) + byte \div ElementBytes(i)
  BY <1>1, <1>2, <1>3, <1>5
<1>7. /\ ConformingRows(i)[group].address = i.base + group * RegisterBytes
      /\ byte \in ConformingRows(i)[group].mask <=> Enabled(i, x)
      /\ ConformingRows(i)[group].data[byte] = ByteAt(dut, i.vd + group, byte)
      /\ ConformingRows(i)[group].elements[byte] = ElementAddress(i, x, group \div StoreRegisters(i))
  BY <1>6, RowIs
<1>8. group \div StoreRegisters(i) = f - 1
  BY <1>1, <1>2
<1> QED
  BY <1>2, <1>3, <1>4, <1>7, <1>8

\* The layout of a right core, field by field.
LEMMA LayoutIs ==
    ASSUME NEW i
    PROVE  /\ ConformingLayout(i).count = StoreFields(i) * StoreRegisters(i)
           /\ ConformingLayout(i).elementBytes = ElementBytes(i)
           /\ ConformingLayout(i).fieldRegisters = StoreRegisters(i)
           /\ ConformingLayout(i).fields = StoreFields(i)
           /\ ConformingLayout(i).scattered = Scattered(i)
  BY DEF ConformingLayout

\* A byte of a row of a right core is the one Spike writes.
LEMMA StoreByteIs ==
    ASSUME NEW i, Stored(i), dut = ref, NEW R, NEW E, NEW B, NEW F, StoreShape(i, R, E, B, F),
           NEW r \in 1..R, NEW e \in 1..E, NEW f \in 1..F, NEW k \in 1..B,
           NEW group, group = (f - 1) * R + (r - 1), NEW byte, byte = (e - 1) * B + (k - 1),
           NEW x, x = (r - 1) * E + (e - 1)
    PROVE  /\ byte \in ConformingRows(i)[group].mask <=> Enabled(i, x)
           /\ StoreByte(ConformingLayout(i), ConformingRows(i)[group], byte) = WriteOf(i, x, f, k)
<1> DEFINE row == ConformingRows(i)[group]
<1>1. /\ R = StoreRegisters(i) /\ E = ElementsPerRegister(i) /\ B = ElementBytes(i) /\ F = StoreFields(i)
      /\ R \in Nat \ {0} /\ E \in Nat \ {0} /\ B \in Nat \ {0} /\ F \in Nat \ {0}
      /\ RegisterBytes = E * B
  BY DEF StoreShape
<1>2. /\ x \div E = r - 1 /\ x % E = e - 1 /\ byte % B = k - 1 /\ byte \in Nat /\ group \in Nat /\ x \in Nat
      /\ row.address = i.base + group * RegisterBytes
      /\ byte \in row.mask <=> Enabled(i, x)
      /\ row.data[byte] = ByteAt(dut, i.vd + group, byte)
  BY RowAt
<1>3. i.vd \in Nat /\ i.base \in Nat
  BY DEF Stored, Instruction, Registers
<1>4. PICK c \in Nat : c = (f - 1) * R
  BY <1>1
<1>5. PICK d \in Nat : d = (e - 1) * B
  BY <1>1
<1>6. i.vd + group = i.vd + c + (r - 1) /\ byte = d + (k - 1) /\ r - 1 \in Nat /\ k - 1 \in Nat
  BY <1>1, <1>3, <1>4, <1>5
<1>7. row.data[byte] = WriteOf(i, x, f, k)[2]
  <2>1. WriteOf(i, x, f, k)[2] = ByteAt(ref, i.vd + c + (r - 1), d + (k - 1))
    BY <1>1, <1>2, <1>4, <1>5 DEF WriteOf
  <2> QED
    BY <1>2, <1>6, <2>1
<1>8. WriteOf(i, x, f, k)[1] = ElementAddress(i, x, f - 1) + (k - 1)
  BY DEF WriteOf
<1>9. (IF Scattered(i) THEN row.elements[byte - (k - 1)] + (k - 1) ELSE row.address + byte) = WriteOf(i, x, f, k)[1]
  <2>1. CASE Scattered(i)
    <3>1. byte - (k - 1) = (e - 1) * B + (1 - 1)
      BY <1>5, <1>6
    <3>2. PICK first : first = (e - 1) * B + (1 - 1)
      OBVIOUS
    <3>3. row.elements[first] = ElementAddress(i, x, f - 1)
      <4>1. 1 \in 1..B
        BY <1>1
      <4> QED
        BY <3>2, <4>1, RowAt
    <3> QED
      BY <1>8, <2>1, <3>1, <3>2, <3>3
  <2>2. CASE ~Scattered(i)
    <3>1. F = 1 /\ f = 1
      BY <1>1, <2>2, RowsOneField
    <3>2. ElementAddress(i, x, f - 1) = i.base + 0 * B + x * (1 * B)
      BY <1>1, <2>2, <3>1 DEF ElementAddress
    <3>3. 0 * B = 0 /\ 1 * B = B /\ x * B \in Nat
      <4>1. PICK n \in Nat : n = x
        BY <1>2
      <4>2. n * B \in Nat /\ 0 * B = 0 /\ 1 * B = B
        BY <1>1
      <4> QED
        BY <4>1, <4>2
    <3>4. group = r - 1
      BY <1>1, <3>1
    <3>5. x * B = (r - 1) * (E * B) + (e - 1) * B
      <4>1. r - 1 \in Nat /\ e - 1 \in Nat
        BY <1>1
      <4>2. ((r - 1) * E + (e - 1)) * B = ((r - 1) * E) * B + (e - 1) * B
        BY <1>1, <4>1
      <4>3. ((r - 1) * E) * B = (r - 1) * (E * B)
        BY <1>1, <4>1
      <4> QED
        BY <4>2, <4>3
    <3>6. PICK y \in Nat : y = group * RegisterBytes
      BY <1>1, <1>2
    <3>7. x * B = y + d
      BY <1>1, <1>5, <3>4, <3>5, <3>6
    <3>8. PICK z \in Nat : z = x * B
      BY <3>3
    <3>9. ElementAddress(i, x, f - 1) = i.base + z
      BY <1>3, <3>2, <3>3, <3>8
    <3>10. row.address = i.base + y
      BY <1>2, <3>6
    <3> QED
      BY <1>3, <1>6, <1>8, <2>2, <3>7, <3>8, <3>9, <3>10
  <2> QED
    BY <2>1, <2>2
<1>10. byte % ElementBytes(i) = k - 1
  BY <1>1, <1>2
<1>11. StoreByte(ConformingLayout(i), row, byte) = <<IF Scattered(i) THEN row.elements[byte - (k - 1)] + (k - 1) ELSE row.address + byte, row.data[byte]>>
  BY <1>10, LayoutIs DEF StoreByte
<1>12. WriteOf(i, x, f, k) = <<WriteOf(i, x, f, k)[1], WriteOf(i, x, f, k)[2]>>
  BY DEF WriteOf
<1> QED
  BY <1>2, <1>7, <1>9, <1>11, <1>12

\* A byte of a row, if it is strobed.
RowByte(i, row, byte) == IF byte \in row.mask THEN <<StoreByte(ConformingLayout(i), row, byte)>> ELSE <<>>

\* The bytes of element e of a row.
ElementBytesOf(i, row, e, B, c) == \A k \in 1..B : c[k] = RowByte(i, row, (e - 1) * B + (k - 1))

\* Those of an element are the writes of Spike for it.
LEMMA ElementCollected ==
    ASSUME NEW i, Stored(i), dut = ref, NEW R, NEW E, NEW B, NEW F, StoreShape(i, R, E, B, F),
           NEW r \in 1..R, NEW e \in 1..E, NEW f \in 1..F,
           NEW group, group = (f - 1) * R + (r - 1), NEW x, x = (r - 1) * E + (e - 1),
           NEW c, ElementBytesOf(i, ConformingRows(i)[group], e, B, c)
    PROVE  Joined(c, B) = WritesOf(i, x, f) /\ WritesOf(i, x, f) \in Seq(WriteSet(i))
<1>1. B = ElementBytes(i) /\ B \in Nat /\ E \in Nat
  BY DEF StoreShape
<1>2. x \in Nat /\ f \in Nat
  <2>1. (r - 1) * E \in Nat
    BY <1>1 DEF StoreShape
  <2> QED
    BY <1>1, <2>1 DEF StoreShape
<1>3. ASSUME NEW k \in 1..B
      PROVE  c[k] = IF Enabled(i, x) THEN <<WriteOf(i, x, f, k)>> ELSE <<>>
  <2>1. PICK byte : byte = (e - 1) * B + (k - 1)
    OBVIOUS
  <2>2. /\ byte \in ConformingRows(i)[group].mask <=> Enabled(i, x)
        /\ StoreByte(ConformingLayout(i), ConformingRows(i)[group], byte) = WriteOf(i, x, f, k)
    BY <2>1, StoreByteIs
  <2> QED
    BY <2>1, <2>2 DEF RowByte, ElementBytesOf
<1>6. WritesOf(i, x, f) \in Seq(WriteSet(i))
  BY <1>2, WritesSeq
<1>4. CASE ~Enabled(i, x)
  BY <1>1, <1>3, <1>4, <1>6, JoinedEmpties DEF WritesOf
<1>5. CASE Enabled(i, x)
  <2> DEFINE h == [k \in 1..B |-> WriteOf(i, x, f, k)]
  <2>1. Singles(c, h, B)
    BY <1>3, <1>5 DEF Singles
  <2>2. h = [k \in 1..B |-> h[k]]
    OBVIOUS
  <2> HIDE DEF h
  <2>3. Joined(c, B) = [k \in 1..B |-> h[k]]
    BY <1>1, <2>1, JoinedSingles
  <2>4. WritesOf(i, x, f) = h
    BY <1>1, <1>5 DEF h, WritesOf
  <2> QED
    BY <1>6, <2>2, <2>3, <2>4
<1> QED
  BY <1>4, <1>5, <1>6

\* collect, as a concatenation.
LEMMA CollectIs ==
    ASSUME NEW i, NEW row, NEW begin, NEW end, NEW n, n = end - begin
    PROVE  collect(ConformingLayout(i), row, begin, end) = Joined([k \in 1..n |-> RowByte(i, row, begin + (k - 1))], n)
<1> DEFINE w == [k \in 1..n |-> RowByte(i, row, begin + (k - 1))]
<1>1. collect(ConformingLayout(i), row, begin, end) = FlattenSeq(w)
  BY DEF collect, RowByte
<1>2. [k \in 1..n |-> w[k]] = w
  OBVIOUS
<1> QED
  BY <1>1, <1>2 DEF Joined

\* What the elements of register r write, and all elements of all registers.
RegisterWrites(i, E, r) == [e \in 1..E |-> ElementWrites(i, (r - 1) * E + (e - 1))]
RowWrites(i, R, E) == [r \in 1..R |-> Joined(RegisterWrites(i, E, r), E)]

\* Register by register, the elements come in the order of Spike.
LEMMA RowsJoined ==
    ASSUME NEW i, Stored(i), NEW R, NEW E, NEW B, NEW F, StoreShape(i, R, E, B, F)
    PROVE  Joined(RowWrites(i, R, E), R) = SpikeStores(i)
<1>1. R = StoreRegisters(i) /\ E = ElementsPerRegister(i) /\ R \in Nat /\ E \in Nat
  BY DEF StoreShape
<1> DEFINE w == [y \in 1..(R * E) |-> ElementWrites(i, y - 1)]
           b == [r \in 1..R |-> RegisterWrites(i, E, r)]
           G == RowWrites(i, R, E)
<1>2. SpikeStores(i) = Joined(w, R * E)
  BY <1>1, SpikeStoresIs
<1>3. Seqs(w, R * E, WriteSet(i))
  <2>1. PICK n \in Nat : n = R * E
    BY <1>1
  <2>2. \A y \in 1..n : ElementWrites(i, y - 1) \in Seq(WriteSet(i))
    BY ElementWritesSeq
  <2> QED
    BY <2>1, <2>2 DEF Seqs
<1>4. \A r \in 1..R : G[r] = Joined(b[r], E)
  BY DEF RowWrites
<1>5. ASSUME NEW r \in 1..R, NEW e \in 1..E
      PROVE  b[r][e] = w[(r - 1) * E + e]
  <2>1. (r - 1) * E \in Nat /\ (r - 1) * E + e \in 1..(R * E)
    BY <1>1, BlockPlace
  <2>2. w[(r - 1) * E + e] = ElementWrites(i, ((r - 1) * E + e) - 1)
    BY <2>1
  <2>3. ((r - 1) * E + e) - 1 = (r - 1) * E + (e - 1)
    BY <1>1, <2>1
  <2>4. b[r][e] = ElementWrites(i, (r - 1) * E + (e - 1))
    BY DEF RegisterWrites
  <2> QED
    BY <2>2, <2>3, <2>4
<1> HIDE DEF w, b, G
<1>6. Joined(G, R) = Joined(w, R * E)
  <2>1. Blocks(WriteSet(i), w, b, G, R, E)
    BY <1>1, <1>3, <1>4, <1>5 DEF Blocks
  <2> QED
    BY <2>1, JoinedBlocks
<1> QED
  BY <1>2, <1>6 DEF G

\* A scattered store, collected element by element.
LEMMA ScatteredCollected ==
    ASSUME NEW i, Stored(i), dut = ref, Scattered(i)
    PROVE  Collected(ConformingLayout(i), ConformingRows(i)) = SpikeStores(i)
<1>1. PICK R, E, B, F : StoreShape(i, R, E, B, F)
  BY StoreShaped
<1>2. /\ R = StoreRegisters(i) /\ E = ElementsPerRegister(i) /\ B = ElementBytes(i) /\ F = StoreFields(i)
      /\ R \in Nat /\ E \in Nat /\ B \in Nat /\ F \in Nat
  BY <1>1 DEF StoreShape
<1> DEFINE Part(r, e, f) == collect(ConformingLayout(i), ConformingRows(i)[(f - 1) * R + (r - 1)], (e - 1) * B, e * B)
<1>3. ASSUME NEW r \in 1..R, NEW e \in 1..E, NEW f \in 1..F
      PROVE  Part(r, e, f) = WritesOf(i, (r - 1) * E + (e - 1), f)
  <2>1. PICK begin : begin = (e - 1) * B
    OBVIOUS
  <2>2. PICK group : group = (f - 1) * R + (r - 1)
    OBVIOUS
  <2>3. PICK x : x = (r - 1) * E + (e - 1)
    OBVIOUS
  <2>4. B = e * B - begin
    BY <1>2, <2>1
  <2> DEFINE c == [k \in 1..B |-> RowByte(i, ConformingRows(i)[group], begin + (k - 1))]
  <2>5. Part(r, e, f) = Joined(c, B)
    BY <2>1, <2>2, <2>4, CollectIs
  <2>6. ElementBytesOf(i, ConformingRows(i)[group], e, B, c)
    BY <2>1 DEF ElementBytesOf
  <2> HIDE DEF c
  <2>7. Joined(c, B) = WritesOf(i, x, f)
    BY <1>1, <2>2, <2>3, <2>6, ElementCollected
  <2> QED
    BY <2>3, <2>5, <2>7
<1>4. Collected(ConformingLayout(i), ConformingRows(i)) =
        FlattenSeq([r \in 1..R |-> FlattenSeq([e \in 1..E |-> FlattenSeq([f \in 1..F |-> Part(r, e, f)])])])
  <2>1. /\ ConformingLayout(i).elementBytes = B /\ ConformingLayout(i).fieldRegisters = R
        /\ ConformingLayout(i).fields = F /\ ConformingLayout(i).scattered
        /\ RegisterBytes \div B = E
    BY <1>2, LayoutIs, Zenon DEF ElementsPerRegister
  <2> QED
    BY <2>1, Zenon DEF Collected
<1> HIDE DEF Part
<1>5. ASSUME NEW r \in 1..R, NEW e \in 1..E
      PROVE  FlattenSeq([f \in 1..F |-> Part(r, e, f)]) = ElementWrites(i, (r - 1) * E + (e - 1))
  <2>1. PICK x : x = (r - 1) * E + (e - 1)
    OBVIOUS
  <2> DEFINE w == [f \in 1..F |-> WritesOf(i, x, f)]
  <2>2. [f \in 1..F |-> Part(r, e, f)] = w
    BY <1>3, <2>1
  <2>3. [f \in 1..F |-> w[f]] = w
    OBVIOUS
  <2>4. ElementWrites(i, x) = Joined(w, F)
    BY <1>2 DEF ElementWrites
  <2> HIDE DEF w
  <2>5. Joined(w, F) = FlattenSeq(w)
    BY <2>3 DEF Joined
  <2> QED
    BY <2>1, <2>2, <2>4, <2>5
<1>6. ASSUME NEW r \in 1..R
      PROVE  FlattenSeq([e \in 1..E |-> FlattenSeq([f \in 1..F |-> Part(r, e, f)])]) = Joined(RegisterWrites(i, E, r), E)
  <2>1. [e \in 1..E |-> FlattenSeq([f \in 1..F |-> Part(r, e, f)])] = RegisterWrites(i, E, r)
    BY <1>5 DEF RegisterWrites
  <2>2. [e \in 1..E |-> RegisterWrites(i, E, r)[e]] = RegisterWrites(i, E, r)
    BY DEF RegisterWrites
  <2> QED
    BY <2>1, <2>2 DEF Joined
<1>7. Collected(ConformingLayout(i), ConformingRows(i)) = FlattenSeq(RowWrites(i, R, E))
  <2>1. [r \in 1..R |-> FlattenSeq([e \in 1..E |-> FlattenSeq([f \in 1..F |-> Part(r, e, f)])])] = RowWrites(i, R, E)
    BY <1>6 DEF RowWrites
  <2> QED
    BY <1>4, <2>1
<1>8. [r \in 1..R |-> RowWrites(i, R, E)[r]] = RowWrites(i, R, E)
  BY DEF RowWrites
<1>9. Joined(RowWrites(i, R, E), R) = SpikeStores(i)
  BY <1>1, RowsJoined
<1> QED
  BY <1>7, <1>8, <1>9 DEF Joined

\* The rows of a right core, found again in the queue of stores.
LEMMA RowsSelected ==
    ASSUME NEW i, Stored(i), NEW first \in 0..(MaxGroup - StoreFields(i) * StoreRegisters(i))
    PROVE  /\ SelectRows(StoreQueue(ConformingRows(i), first), first, ConformingLayout(i)) = ConformingRows(i)
           /\ StoreLayoutOk(first, ConformingLayout(i))
<1>1. PICK n \in Nat \ {0} : n = StoreFields(i) * StoreRegisters(i)
  BY StoreShaped DEF StoreShape
<1> DEFINE rows == ConformingRows(i)
           queue == StoreQueue(rows, first)
<1>2. DOMAIN rows = 0..(n - 1) /\ rows = [group \in 0..(n - 1) |-> rows[group]]
  BY <1>1 DEF ConformingRows
<1>3. first \in Nat /\ first + n <= MaxGroup /\ MaxGroup \in Nat
  BY <1>1, VectorAssumption
<1> HIDE DEF rows
<1>4. \A group \in 0..(n - 1) : queue[first + group] = rows[group]
  <2>1. ASSUME NEW group \in 0..(n - 1)
        PROVE  queue[first + group] = rows[group]
    <3>1. first + group \in 0..(MaxGroup - 1) /\ (first + group) - first = group
      BY <1>3
    <3> QED
      BY <1>2, <3>1 DEF StoreQueue
  <2> QED
    BY <2>1
<1> HIDE DEF queue
<1>5. SelectRows(queue, first, ConformingLayout(i)) = [group \in 0..(n - 1) |-> queue[first + group]]
  BY <1>1, LayoutIs DEF SelectRows
<1>6. SelectRows(queue, first, ConformingLayout(i)) = rows
  BY <1>2, <1>4, <1>5
<1>7. ConformingLayout(i).count = n /\ ConformingLayout(i).fields * ConformingLayout(i).fieldRegisters = n
  BY <1>1, LayoutIs
<1>8. StoreLayoutOk(first, ConformingLayout(i))
  BY <1>3, <1>7 DEF StoreLayoutOk
<1> QED
  BY <1>6, <1>8 DEF rows, queue

\* A single field: its writes are those of the element.
LEMMA OneField ==
    ASSUME NEW i, Stored(i), StoreFields(i) = 1, NEW x \in Nat
    PROVE  ElementWrites(i, x) = WritesOf(i, x, 1)
<1> DEFINE w == [f \in 1..1 |-> WritesOf(i, x, f)]
<1>1. w[0 + 1] = WritesOf(i, x, 1) /\ WritesOf(i, x, 1) \in Seq(WriteSet(i))
  BY WritesSeq
<1>2. ElementWrites(i, x) = Joined(w, 1)
  BY DEF ElementWrites
<1> HIDE DEF w
<1>3. Joined(w, 0 + 1) = Joined(w, 0) \o w[0 + 1]
  BY <1>1, JoinedNext
<1>4. Joined(w, 0) = <<>>
  BY JoinedNone
<1>5. <<>> \o WritesOf(i, x, 1) = WritesOf(i, x, 1)
  BY <1>1, ConcatEmptySeq
<1>6. Joined(w, 1) = WritesOf(i, x, 1)
  BY <1>1, <1>3, <1>4, <1>5
<1> QED
  BY <1>2, <1>6

\* The bytes of a row of a unit store are its elements, one after the other.
LEMMA RowCollected ==
    ASSUME NEW i, Stored(i), dut = ref, NEW R, NEW E, NEW B, StoreShape(i, R, E, B, 1), NEW r \in 1..R
    PROVE  collect(ConformingLayout(i), ConformingRows(i)[r - 1], 0, RegisterBytes) = Joined(RegisterWrites(i, E, r), E)
<1>1. /\ R \in Nat /\ E \in Nat /\ B \in Nat /\ RegisterBytes = E * B /\ RegisterBytes \in Nat
      /\ StoreFields(i) = 1
  BY DEF StoreShape
<1> DEFINE row == ConformingRows(i)[r - 1]
           w == [k \in 1..RegisterBytes |-> RowByte(i, row, 0 + (k - 1))]
           b == [e \in 1..E |-> [k \in 1..B |-> RowByte(i, row, (e - 1) * B + (k - 1))]]
           G == RegisterWrites(i, E, r)
           V == {StoreByte(ConformingLayout(i), row, byte) : byte \in Int}
<1>2. collect(ConformingLayout(i), row, 0, RegisterBytes) = Joined(w, RegisterBytes)
  <2>1. RegisterBytes = RegisterBytes - 0
    BY <1>1
  <2> QED
    BY <2>1, CollectIs
<1>3. Seqs(w, E * B, V)
  <2>1. ASSUME NEW k \in 1..RegisterBytes
        PROVE  w[k] \in Seq(V)
    <3>1. PICK byte \in Int : byte = 0 + (k - 1)
      BY <1>1
    <3>2. StoreByte(ConformingLayout(i), row, byte) \in V
      OBVIOUS
    <3> HIDE DEF V
    <3>3. <<StoreByte(ConformingLayout(i), row, byte)>> \in Seq(V) /\ <<>> \in Seq(V)
      BY <3>2
    <3>4. w[k] = RowByte(i, row, byte)
      BY <3>1
    <3> QED
      BY <3>3, <3>4 DEF RowByte
  <2> QED
    BY <1>1, <2>1 DEF Seqs
<1>4. ASSUME NEW e \in 1..E, NEW k \in 1..B
      PROVE  b[e][k] = w[(e - 1) * B + k]
  <2>1. (e - 1) * B \in Nat /\ (e - 1) * B + k \in 1..(E * B)
    BY <1>1, BlockPlace
  <2>2. PICK y \in Nat : y = (e - 1) * B
    BY <2>1
  <2>3. y + k \in 1..RegisterBytes /\ 0 + ((y + k) - 1) = y + (k - 1)
    BY <1>1, <2>1, <2>2
  <2>4. w[y + k] = RowByte(i, row, 0 + ((y + k) - 1))
    BY <2>3
  <2>5. b[e][k] = RowByte(i, row, (e - 1) * B + (k - 1))
    OBVIOUS
  <2> QED
    BY <2>2, <2>3, <2>4, <2>5
<1>5. ASSUME NEW e \in 1..E
      PROVE  G[e] = Joined(b[e], B)
  <2>1. PICK x : x = (r - 1) * E + (e - 1)
    OBVIOUS
  <2>2. PICK group : group = (1 - 1) * R + (r - 1)
    OBVIOUS
  <2>3. group = r - 1
    BY <1>1, <2>2
  <2>4. PICK c : c = b[e]
    OBVIOUS
  <2>5. ElementBytesOf(i, ConformingRows(i)[group], e, B, c)
    BY <2>3, <2>4 DEF ElementBytesOf
  <2> HIDE DEF b
  <2>6. 1 \in 1..1
    OBVIOUS
  <2>7. Joined(c, B) = WritesOf(i, x, 1)
    BY <2>1, <2>2, <2>5, <2>6, ElementCollected
  <2>8. x \in Nat
    <3>1. (r - 1) * E \in Nat
      BY <1>1, BlockPlace
    <3> QED
      BY <1>1, <2>1, <3>1
  <2>9. G[e] = ElementWrites(i, x)
    BY <2>1 DEF RegisterWrites
  <2> QED
    BY <1>1, <2>4, <2>7, <2>8, <2>9, OneField
<1> HIDE DEF w, b, G, V
<1>6. Blocks(V, w, b, G, E, B)
  BY <1>1, <1>3, <1>4, <1>5 DEF Blocks
<1>7. Joined(G, E) = Joined(w, E * B)
  BY <1>6, JoinedBlocks
<1> QED
  BY <1>1, <1>2, <1>7 DEF G

\* A unit store, collected row by row.
LEMMA UnitCollected ==
    ASSUME NEW i, Stored(i), dut = ref, ~Scattered(i)
    PROVE  Collected(ConformingLayout(i), ConformingRows(i)) = SpikeStores(i)
<1>1. PICK R, E, B, F : StoreShape(i, R, E, B, F)
  BY StoreShaped
<1>2. F = 1
  BY <1>1, RowsOneField DEF StoreShape
<1>3. R = StoreRegisters(i) /\ R \in Nat /\ StoreFields(i) = 1
  BY <1>1, <1>2 DEF StoreShape
<1>4. ConformingLayout(i).count = R /\ ~ConformingLayout(i).scattered
  BY <1>3, LayoutIs
<1>5. Collected(ConformingLayout(i), ConformingRows(i)) =
        FlattenSeq([group \in 1..R |-> collect(ConformingLayout(i), ConformingRows(i)[group - 1], 0, RegisterBytes)])
  BY <1>4 DEF Collected
<1>6. \A r \in 1..R : collect(ConformingLayout(i), ConformingRows(i)[r - 1], 0, RegisterBytes) = RowWrites(i, R, E)[r]
  <2>1. StoreShape(i, R, E, B, 1)
    BY <1>1, <1>2
  <2> QED
    BY <2>1, RowCollected DEF RowWrites
<1>7. [group \in 1..R |-> collect(ConformingLayout(i), ConformingRows(i)[group - 1], 0, RegisterBytes)] =
        [r \in 1..R |-> RowWrites(i, R, E)[r]]
  BY <1>6
<1>8. Joined(RowWrites(i, R, E), R) = SpikeStores(i)
  BY <1>1, RowsJoined
<1> QED
  BY <1>5, <1>7, <1>8 DEF Joined

\* The stores of a right core are those of Spike, and none is reported.
LEMMA RightStoreAccepted ==
    ASSUME NEW i, Stored(i), dut = ref, NEW memory
    PROVE  LET stores == Collected(ConformingLayout(i), ConformingRows(i))
           IN  /\ FinalBytesMatch(stores, Drain(memory, SpikeStores(i)))
               /\ SameWrites(stores, SpikeStores(i))
<1>1. Collected(ConformingLayout(i), ConformingRows(i)) = SpikeStores(i)
  BY ScatteredCollected, UnitCollected
<1>3. FinalBytesMatch(SpikeStores(i), Drain(memory, SpikeStores(i)))
  BY DrainTwice DEF FinalBytesMatch
<1>4. SameWrites(SpikeStores(i), SpikeStores(i))
  BY DEF SameWrites
<1> QED
  BY <1>1, <1>3, <1>4

(***************************************************************************)
(* The invariant of the comparison                                         *)
(***************************************************************************)

\* What is kept of the state of a run.
VectorTypes ==
    /\ program \in Programs /\ pc \in Nat \ {0} /\ csr \in CsrType
    /\ golden \in [Registers -> Register]
    /\ faulty \in BOOLEAN /\ unseen \in BOOLEAN /\ misread \in BOOLEAN

\* The inductive invariant: as long as nothing was reported the two sides are
\* those of a right core, and only a wrong core has been reported or has
\* changed a register that it does not name.
VectorInvariant ==
    /\ VectorTypes
    /\ AcceptedIsRight
    /\ ~faulty /\ ~misread => verdict = "running" /\ ~unseen

\* The instruction that is next comes from the encoding table.
LEMMA InsnEncoded ==
    ASSUME VectorTypes, Running
    PROVE  Insn \in Instruction /\ Encoded(Insn)
<1>1. program \in Seq({i \in Instruction : Encoded(i)}) /\ pc \in 1..Len(program)
  BY VectorAssumption DEF VectorTypes, Running
<1>2. program[pc] \in {i \in Instruction : Encoded(i)}
  BY <1>1
<1> QED
  BY <1>2 DEF Insn

\* The invariant holds when a program starts.
LEMMA InitInvariant ==
    ASSUME VectorInit
    PROVE  VectorInvariant
<1>1. csr \in CsrType
  <2>1. VLEN \in Nat
    BY VectorAssumption DEF VLEN
  <2> QED
    BY <2>1 DEF VectorInit, CsrType
<1>2. golden \in [Registers -> Register]
  BY VectorAssumption DEF VectorInit
<1>3. VectorTypes
  <2>1. program \in Programs /\ pc = 1 /\ faulty = FALSE /\ unseen = FALSE /\ misread = FALSE
    BY DEF VectorInit
  <2>2. pc \in Nat \ {0}
    BY <2>1
  <2>3. faulty \in BOOLEAN /\ unseen \in BOOLEAN /\ misread \in BOOLEAN
    BY <2>1, Zenon
  <2> QED
    BY <1>1, <1>2, <2>1, <2>2, <2>3, Zenon DEF VectorTypes
<1>4. AcceptedIsRight
  BY DEF VectorInit, AcceptedIsRight
<1>5. verdict = "running" /\ ~unseen
  BY DEF VectorInit
<1> QED
  BY <1>3, <1>4, <1>5 DEF VectorInvariant

\* A vsetvli keeps it: a vl or vtype that differs is the fault of the core.
LEMMA ConfigureStep ==
    ASSUME VectorInvariant, Configure
    PROVE  VectorInvariant'
<1>1. Insn \in Instruction
  BY InsnEncoded DEF VectorInvariant, Configure
<1>2. PICK new \in Insn.sets, got \in Insn.sets :
        /\ csr' = [vl |-> new.vl, sew |-> new.sew, lmul |-> new.lmul, vta |-> new.vta, vma |-> new.vma,
                   vstart |-> 0]
        /\ faulty' = (faulty \/ got # new)
        /\ Judge(got = new)
  BY DEF Configure
<1>3. new \in Configuration
  BY <1>1 DEF Instruction
<1>4. csr' \in CsrType
  BY <1>2, <1>3 DEF Configuration, CsrType
<1>5. /\ UNCHANGED <<program, golden, unseen, misread, ref, dut, refFlags, dutFlags, refMemory, dutMemory>>
      /\ verdict = "running"
  BY DEF Configure, regVars, Running
<1>6. VectorTypes'
  BY <1>2, <1>4, <1>5 DEF VectorInvariant, VectorTypes, Judge
<1>7. AcceptedIsRight'
  BY <1>5 DEF VectorInvariant, AcceptedIsRight
<1>8. ~faulty' /\ ~misread' => verdict' = "running" /\ ~unseen'
  BY <1>2, <1>5 DEF VectorInvariant, VectorTypes, Judge
<1> QED
  BY <1>6, <1>7, <1>8 DEF VectorInvariant

\* A write of vstart keeps it.
LEMMA WriteVstartStep ==
    ASSUME VectorInvariant, WriteVstart
    PROVE  VectorInvariant'
<1>1. Insn \in Instruction
  BY InsnEncoded DEF VectorInvariant, WriteVstart
<1>2. csr' \in CsrType
  BY <1>1 DEF VectorInvariant, VectorTypes, WriteVstart, CsrType, Instruction
<1>3. /\ UNCHANGED <<program, golden, unseen, misread, faulty, verdict, ref, dut, refFlags, dutFlags, refMemory, dutMemory>>
      /\ pc' = pc + 1
  BY DEF WriteVstart, regVars
<1>4. VectorTypes'
  BY <1>2, <1>3 DEF VectorInvariant, VectorTypes
<1> QED
  BY <1>3, <1>4 DEF VectorInvariant, AcceptedIsRight

\* The registers and the flags of a right core are accepted, and a core that
\* is accepted and has reported what it changed is right.
LEMMA ExecuteStep ==
    ASSUME VectorInvariant, Execute
    PROVE  VectorInvariant'
<1> DEFINE i == Insn
<1>1. i \in Instruction /\ Encoded(i) /\ i.op \in {"arith", "load"} /\ Legal(i) /\ verdict = "running"
  BY InsnEncoded DEF VectorInvariant, Execute, Running
<1>2. PICK result \in Results, f \in FaultsOf({"bit", "lost", "group", "base", "flags"}) :
         LET raised == result.raised
             vector == Captured(i)
             expected == SpikeStep(i, result)
             right == Conforming(i, dut, result)
             actual == IF f.kind = "lost" THEN dut ELSE Flip(right, f)
             count == CASE f.kind = "lost" -> 0 [] f.kind = "group" -> MaxGroup + 1
                        [] OTHER -> GroupSize(i)
             base == IF f.kind = "base" THEN i.vd + 1 ELSE i.vd
             reported == base..(base + count - 1)
             accrued == IF f.kind = "flags" THEN Flags \ raised ELSE raised
             accepted == /\ refFlags \cup accrued = refFlags \cup raised
                         /\ count <= MaxGroup /\ base + count <= RegisterCount
                         /\ RegistersMatch(i, base, count, vector, expected, actual)
         IN  /\ dut' = actual
             /\ golden' = Conforming(i, golden, result)
             /\ ref' = IF accepted THEN Adopt(base, count, expected, actual) ELSE expected
             /\ refFlags' = refFlags \cup raised
             /\ dutFlags' = dutFlags \cup accrued
             /\ faulty' = (faulty \/ actual # right \/ accrued # raised \/ count # GroupSize(i)
                               \/ base # i.vd)
             /\ unseen' = (unseen \/ \E reg \in Registers \ reported :
                                        actual[reg] # right[reg] \/ actual[reg] # expected[reg])
             /\ Judge(accepted)
  BY Zenon DEF Execute
<1> DEFINE raised == result.raised
           expected == SpikeStep(i, result)
           right == Conforming(i, dut, result)
           actual == IF f.kind = "lost" THEN dut ELSE Flip(right, f)
           count == CASE f.kind = "lost" -> 0 [] f.kind = "group" -> MaxGroup + 1
                      [] OTHER -> GroupSize(i)
           base == IF f.kind = "base" THEN i.vd + 1 ELSE i.vd
           accrued == IF f.kind = "flags" THEN Flags \ raised ELSE raised
           flagged == refFlags \cup accrued = refFlags \cup raised
           fits == count <= MaxGroup /\ base + count <= RegisterCount
           matches == RegistersMatch(i, base, count, Captured(i), expected, actual)
<1>3. /\ dut' = actual /\ golden' = Conforming(i, golden, result)
      /\ flagged /\ fits /\ matches => ref' = Adopt(base, count, expected, actual)
      /\ refFlags' = refFlags \cup raised /\ dutFlags' = dutFlags \cup accrued
  BY <1>2
<1>4. /\ faulty' = (faulty \/ actual # right \/ accrued # raised \/ count # GroupSize(i) \/ base # i.vd)
      /\ unseen' = (unseen \/ ~Reported(base, count, right, expected, actual))
  BY <1>2 DEF Reported
<1>5. /\ verdict' = IF flagged /\ fits /\ matches THEN "running" ELSE "failed"
      /\ pc' = pc + 1
  BY <1>2 DEF Judge
<1>6. /\ misread' = (misread \/ (i.class \in {"reduction", "widening_reduction", "slide_up"} /\ ~i.vm /\ csr.vma))
      /\ csr' = [csr EXCEPT !.vstart = 0] /\ UNCHANGED <<program, refMemory, dutMemory>>
  BY DEF Execute
<1> HIDE DEF i
<1>7. result.bits \in Register
  BY VectorAssumption
<1>8. VectorTypes'
  <2>1. csr' \in CsrType
    BY <1>6 DEF VectorInvariant, VectorTypes, CsrType
  <2>2. golden' \in [Registers -> Register]
    <3>1. Executed(i, golden, result, TRUE) \in [Registers -> Register]
      BY <1>7, ExecutedType, Zenon DEF VectorInvariant, VectorTypes
    <3> QED
      BY <1>3, <3>1 DEF Conforming
  <2> HIDE DEF raised, right, actual, count, base, accrued, flagged, fits, matches, expected
  <2>3. faulty' \in BOOLEAN /\ unseen' \in BOOLEAN /\ misread' \in BOOLEAN
    BY <1>4, <1>6
  <2> QED
    BY <1>5, <1>6, <2>1, <2>2, <2>3 DEF VectorInvariant, VectorTypes
\* What holds as long as the two sides are equal.
<1>9. ASSUME ~misread', ~unseen
      PROVE  /\ Compared(i) /\ ~misread /\ right = Conforming(i, ref, result)
             /\ dut = ref /\ golden = ref /\ dutFlags = refFlags /\ dutMemory = refMemory
  <2>1. ~misread /\ Guarded(i)
    BY <1>6, <1>9 DEF Guarded
  <2>2. dut = ref /\ golden = ref /\ dutFlags = refFlags /\ dutMemory = refMemory
    BY <1>1, <1>9, <2>1 DEF VectorInvariant, AcceptedIsRight
  <2>3. Compared(i)
    BY <1>1, <2>1, <2>2 DEF Compared, VectorInvariant, VectorTypes
  <2> QED
    BY <2>1, <2>2, <2>3
<1>10. ASSUME verdict' = "running", ~unseen', ~misread'
       PROVE  dut' = golden' /\ ref' = golden' /\ dutFlags' = refFlags' /\ dutMemory' = refMemory'
  <2>1. flagged /\ fits /\ matches /\ ~unseen /\ Reported(base, count, right, expected, actual)
    <3> HIDE DEF flagged, fits, matches, count, base, right, expected, actual
    <3> QED
      BY <1>4, <1>5, <1>10
  <2>2. /\ Compared(i) /\ right = Conforming(i, ref, result)
        /\ dut = ref /\ golden = ref /\ dutFlags = refFlags /\ dutMemory = refMemory
    BY <1>9, <1>10, <2>1
  <2>3. actual = right /\ Adopt(base, count, expected, actual) = right
    <3>1. CASE f.kind = "lost"
      <4>1. count = 0 /\ actual = ref /\ base = i.vd
        BY <2>2, <3>1
      <4>2. Reported(i.vd, 0, Conforming(i, ref, result), SpikeStep(i, result), ref)
        BY <2>1, <2>2, <4>1
      <4> QED
        BY <1>7, <2>2, <4>1, <4>2, LostAccepted
    <3>2. CASE f.kind = "group"
      <4>1. count = MaxGroup + 1
        BY <3>2
      <4> QED
        BY <2>1, <4>1, VectorAssumption
    <3>4. CASE f.kind = "base"
      <4>1. actual = right
        BY <3>4 DEF Flip
      <4> HIDE DEF actual, count, base
      <4>2. Reported(base, count, Conforming(i, ref, result), SpikeStep(i, result), Conforming(i, ref, result))
        BY <2>1, <2>2, <4>1
      <4> QED
        BY <1>7, <2>2, <4>1, <4>2, ElsewhereAccepted
    <3>3. CASE f.kind \notin {"lost", "group", "base"}
      <4>1. count = GroupSize(i) /\ actual = Flip(right, f) /\ base = i.vd
        BY <3>3
      <4>2. right \in [Registers -> Register]
        BY <1>7, <2>2, StepTypes DEF Compared
      <4> HIDE DEF right
      <4>3. File(Flip(right, f))
        BY <4>2, FlipFile
      <4> HIDE DEF count, actual, base
      <4>4. File(actual) /\ Reported(i.vd, GroupSize(i), Conforming(i, ref, result), SpikeStep(i, result), actual)
        BY <2>1, <2>2, <4>1, <4>3
      <4>5. RegistersMatch(i, i.vd, GroupSize(i), Captured(i), SpikeStep(i, result), actual)
        BY <2>1, <4>1
      <4> QED
        BY <1>7, <2>2, <4>1, <4>4, <4>5, GroupAccepted
    <3> QED
      BY <3>1, <3>2, <3>3, <3>4
  <2> HIDE DEF actual, count, base, right, expected, fits, matches
  <2>4. golden' = right
    BY <1>3, <2>2
  <2>5. dutFlags' = refFlags'
    BY <1>3, <2>1, <2>2
  <2> QED
    BY <1>3, <1>6, <2>1, <2>2, <2>3, <2>4, <2>5
<1>11. ASSUME ~faulty', ~misread'
       PROVE  verdict' = "running" /\ ~unseen'
  <2>1. ~faulty /\ actual = right /\ accrued = raised /\ count = GroupSize(i) /\ base = i.vd
    <3> HIDE DEF flagged, fits, matches, count, base, right, actual, accrued, raised
    <3> QED
      BY <1>4, <1>11
  <2>2. ~misread /\ ~unseen
    <3>1. ~misread
      BY <1>6, <1>11
    <3> QED
      BY <2>1, <3>1 DEF VectorInvariant
  <2>3. Compared(i) /\ right = Conforming(i, ref, result)
    BY <1>9, <1>11, <2>2
  <2>4. SameGroup(i, result, Conforming(i, ref, result))
    BY DEF SameGroup
  <2>5. RegistersMatch(i, i.vd, GroupSize(i), Captured(i), SpikeStep(i, result), Conforming(i, ref, result))
    BY <2>3, <2>4, MatchIsRight
  <2> HIDE DEF actual, right, count, base, accrued, raised
  <2>6. flagged /\ matches
    BY <2>1, <2>3, <2>5
  <2>7. fits
    BY <2>1, <2>3, LegalGroup DEF Compared
  <2>8. Reported(base, count, right, expected, actual)
    <3>1. \A reg \in Registers : reg \notin Group(i) => expected[reg] = right[reg]
      BY <2>3, OutsideStays
    <3> HIDE DEF expected
    <3> QED
      BY <2>1, <3>1 DEF Reported, Group
  <2> HIDE DEF flagged, fits, matches
  <2> QED
    BY <1>4, <1>5, <2>2, <2>6, <2>7, <2>8
<1> QED
  BY <1>8, <1>10, <1>11 DEF VectorInvariant, AcceptedIsRight

\* A store of a right core is accepted, and one that is accepted leaves the
\* memory of Spike.
LEMMA ExecuteStoreStep ==
    ASSUME VectorInvariant, ExecuteStore
    PROVE  VectorInvariant'
<1> DEFINE i == Insn
<1>1. i \in Instruction /\ Encoded(i) /\ i.op = "store" /\ verdict = "running"
      /\ StoreFields(i) * StoreRegisters(i) <= MaxGroup
  BY InsnEncoded DEF VectorInvariant, ExecuteStore, Running
<1>2. PICK first \in 0..(MaxGroup - StoreFields(i) * StoreRegisters(i)),
           f \in FaultsOf({"group", "first", "scatter", "width", "fields", "mask", "address", "data", "swap"}) :
         LET queue == StoreQueue(Corrupt(ConformingRows(i), f), first)
             firstGroup == IF f.kind = "first" THEN first + 1 ELSE first
             layout == Misreport(ConformingLayout(i), f)
             rows == SelectRows(queue, firstGroup, layout)
             laid == StoreLayoutOk(firstGroup, layout)
             stores == IF laid THEN Collected(layout, rows) ELSE <<>>
             expected == SpikeStores(i)
         IN  /\ refMemory' = Drain(refMemory, expected)
             /\ dutMemory' = Drain(dutMemory, stores)
             /\ faulty' = (faulty \/ queue # StoreQueue(ConformingRows(i), first) \/ firstGroup # first
                                  \/ layout # ConformingLayout(i))
             /\ Judge(laid /\ FinalBytesMatch(stores, refMemory') /\ SameWrites(stores, expected))
  BY Zenon DEF ExecuteStore
<1> DEFINE queue == StoreQueue(Corrupt(ConformingRows(i), f), first)
           firstGroup == IF f.kind = "first" THEN first + 1 ELSE first
           layout == Misreport(ConformingLayout(i), f)
           rows == SelectRows(queue, firstGroup, layout)
           laid == StoreLayoutOk(firstGroup, layout)
           stores == IF laid THEN Collected(layout, rows) ELSE <<>>
           expected == SpikeStores(i)
           final == FinalBytesMatch(stores, Drain(refMemory, expected))
           same == SameWrites(stores, expected)
<1>3. refMemory' = Drain(refMemory, expected) /\ dutMemory' = Drain(dutMemory, stores)
  BY <1>2
<1>4. faulty' = (faulty \/ queue # StoreQueue(ConformingRows(i), first) \/ firstGroup # first
                   \/ layout # ConformingLayout(i))
  BY <1>2
<1>5. /\ verdict' = IF laid /\ final /\ same THEN "running" ELSE "failed"
      /\ pc' = pc + 1
  BY <1>2 DEF Judge
<1>6. /\ UNCHANGED <<program, ref, dut, golden, refFlags, dutFlags, unseen, misread>>
      /\ csr' = [csr EXCEPT !.vstart = 0]
  BY DEF ExecuteStore, regVars
<1> HIDE DEF i
<1>7. Stored(i)
  BY <1>1 DEF Stored, VectorInvariant, VectorTypes
<1>8. VectorTypes'
  <2>1. csr' \in CsrType
    BY <1>6 DEF VectorInvariant, VectorTypes, CsrType
  <2> HIDE DEF queue, firstGroup, layout, rows, stores, expected, laid, final, same
  <2>2. faulty' \in BOOLEAN
    BY <1>4
  <2> QED
    BY <1>5, <1>6, <2>1, <2>2 DEF VectorInvariant, VectorTypes
<1>9. ASSUME ~misread', ~unseen'
      PROVE  dut = ref /\ golden = ref /\ dutFlags = refFlags /\ dutMemory = refMemory
  BY <1>1, <1>6, <1>9 DEF VectorInvariant, AcceptedIsRight
<1>10. ASSUME verdict' = "running", ~unseen', ~misread'
       PROVE  dut' = golden' /\ ref' = golden' /\ dutFlags' = refFlags' /\ dutMemory' = refMemory'
  <2>1. final /\ same
    <3> HIDE DEF laid, final, same
    <3> QED
      BY <1>5, <1>10
  <2>2. Drain(refMemory, stores) = Drain(refMemory, expected)
    <3> HIDE DEF stores
    <3> QED
      BY <1>7, <2>1, StoreAccepted
  <2> HIDE DEF stores, expected
  <2> QED
    BY <1>3, <1>6, <1>9, <1>10, <2>2
<1>11. ASSUME ~faulty', ~misread'
       PROVE  verdict' = "running" /\ ~unseen'
  <2>1. ~faulty /\ queue = StoreQueue(ConformingRows(i), first) /\ firstGroup = first
        /\ layout = ConformingLayout(i)
    <3> HIDE DEF queue, firstGroup, layout
    <3> QED
      BY <1>4, <1>11
  <2>2. ~unseen /\ ~unseen'
    BY <1>6, <1>11, <2>1 DEF VectorInvariant
  <2>3. dut = ref
    BY <1>9, <1>11, <2>2
  <2>4. /\ FinalBytesMatch(Collected(ConformingLayout(i), ConformingRows(i)), Drain(refMemory, SpikeStores(i)))
        /\ SameWrites(Collected(ConformingLayout(i), ConformingRows(i)), SpikeStores(i))
    BY <1>7, <2>3, RightStoreAccepted
  <2>5. /\ SelectRows(StoreQueue(ConformingRows(i), first), first, ConformingLayout(i)) = ConformingRows(i)
        /\ StoreLayoutOk(first, ConformingLayout(i))
    BY <1>7, RowsSelected
  <2> HIDE DEF queue, firstGroup, layout
  <2>6. laid /\ rows = ConformingRows(i)
    BY <2>1, <2>5
  <2> HIDE DEF rows
  <2>7. stores = Collected(ConformingLayout(i), ConformingRows(i))
    BY <2>1, <2>6
  <2> HIDE DEF stores
  <2>8. laid /\ final /\ same
    BY <2>4, <2>6, <2>7
  <2> HIDE DEF laid, final, same
  <2> QED
    BY <1>5, <2>2, <2>8
<1> QED
  BY <1>8, <1>10, <1>11 DEF VectorInvariant, AcceptedIsRight

\* Every run of the comparison keeps the invariant, for registers of any
\* number and size, any program of the encoding table and any faults.
THEOREM VectorInvariantHolds == VectorSpec => []VectorInvariant
<1>1. VectorInit => VectorInvariant
  BY InitInvariant
<1>2. VectorInvariant /\ [VectorNext]_vectorVars => VectorInvariant'
  <2>1. CASE VectorNext
    BY <2>1, ConfigureStep, WriteVstartStep, ExecuteStep, ExecuteStoreStep DEF VectorNext
  <2>2. CASE UNCHANGED vectorVars
    BY <2>2 DEF VectorInvariant, VectorTypes, AcceptedIsRight, vectorVars, regVars, CsrType
  <2> QED
    BY <2>1, <2>2
<1> QED
  BY <1>1, <1>2, PTL DEF VectorSpec

\* compareVectorCommit accepts nothing that is wrong: without a report the
\* registers, flags and memory of the core and of Spike are those of a right
\* core, unless the core changed a register that it did not name.
THEOREM NothingWrongAccepted == VectorSpec => []AcceptedIsRight
<1>1. VectorInvariant => AcceptedIsRight
  BY DEF VectorInvariant
<1> QED
  BY <1>1, VectorInvariantHolds, PTL

\* compareVectorCommit reports no core that does what the vector extension
\* says, apart from masked instructions whose mask does not guard an element.
THEOREM NothingRightReported == VectorSpec => []NoFalseAlarm
<1>1. VectorInvariant => NoFalseAlarm
  BY DEF VectorInvariant, VectorTypes, NoFalseAlarm
<1> QED
  BY <1>1, VectorInvariantHolds, PTL
=============================================================================
