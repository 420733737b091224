--------------------------- MODULE ReferenceRestore ---------------------------
(***************************************************************************)
(* SpikeReference::Impl::save and restore: what of the reference model     *)
(* survives a checkpoint, and the reservation that next keeps track of for *)
(* it.  The state of Spike is a record; the instructions that change it    *)
(* are those of Spike and external.  A second instance resumes from a      *)
(* checkpoint at any point and executes the same instructions from there.  *)
(***************************************************************************)
EXTENDS Integers

CONSTANTS
    VirtualAddress,    \* addresses an LR or SC may name
    PhysicalAddress,   \* where the reservation of Spike is kept
    PagedMap,          \* translation below M-mode with satp set: to a physical address or Fault
    BareMap,           \* addresses without translation, likewise
    Interrupts,        \* bits of mie and mideleg
    CounterSize,       \* 2^64: mcycle wraps
    Fault, None        \* model values: no such address, no reservation

ASSUME ReferenceAssumption ==
    /\ PagedMap \in [VirtualAddress -> PhysicalAddress \cup {Fault}]
    /\ BareMap \in [VirtualAddress -> PhysicalAddress \cup {Fault}]
    /\ {Fault, None} \cap (PhysicalAddress \cup VirtualAddress) = {} /\ Fault # None
    /\ CounterSize \in Nat \ {0}

Off == 0      \* mstatus.FS: Off, Initial, Clean and Dirty
Dirty == 3

Hart == [prv : {"M", "S", "U"}, fs : 0..3, sie : BOOLEAN, mie : SUBSET Interrupts,
         mideleg : SUBSET Interrupts, paged : BOOLEAN, fflags : 0..1, frm : 0..1,
         mcycle : 0..(CounterSize - 1), reserved : PhysicalAddress \cup {None},
         tracked : VirtualAddress \cup {None}]

VARIABLES
    hart,          \* the reference: Spike's state, and reservationAddress_ as tracked
    resumed,       \* "no", "yes", or "aborted": restore was left by a trap of Spike
    copy,          \* the instance that resumed from the checkpoint
    lost,          \* what of the state the checkpoint did not carry
    agreed         \* the last commit of the copy is that of the original
vars == <<hart, resumed, copy, lost, agreed>>

\* A new reference: Spike after its reset.
Fresh == [prv |-> "M", fs |-> Off, sie |-> FALSE, mie |-> {}, mideleg |-> {}, paged |-> FALSE,
          fflags |-> 0, frm |-> 0, mcycle |-> 0, reserved |-> None, tracked |-> None]

Init == hart = Fresh /\ resumed = "no" /\ copy = Fresh /\ lost = {} /\ agreed = TRUE

(***************************************************************************)
(* Writes of CSRs as Spike performs them                                   *)
(***************************************************************************)
Translate(h, va) == IF h.paged /\ h.prv # "M" THEN PagedMap[va] ELSE BareMap[va]

mstatusWrite(h, fs, sie) == [h EXCEPT !.fs = fs, !.sie = sie]
sstatusWrite(h, fs, sie) == [h EXCEPT !.fs = fs, !.sie = sie]
fflagsWrite(h, value) == [h EXCEPT !.fflags = value, !.fs = Dirty]
frmWrite(h, value) == [h EXCEPT !.frm = value, !.fs = Dirty]
fcsrWrite(h, flags, rounding) == [h EXCEPT !.fflags = flags, !.frm = rounding, !.fs = Dirty]
\* sie is the part of mie that mideleg hands to the supervisor.
sieWrite(h, value) == [h EXCEPT !.mie = (@ \ h.mideleg) \cup (value \cap h.mideleg)]
\* A write to a counter is followed by the increment of its own instruction,
\* which it must not see: Spike takes the increment back beforehand.
counterWrite(h, value) == [h EXCEPT !.mcycle = (value + CounterSize - 1) % CounterSize]
bump(h, n) == [h EXCEPT !.mcycle = (@ + n) % CounterSize]

(***************************************************************************)
(* save and restore                                                        *)
(***************************************************************************)

\* The CSRs in ascending order: fflags, frm and fcsr, sstatus, sie, satp, and
\* mideleg and mie; mstatus comes first of all.  fflags and its aliases are
\* left alone when the saved FS is Off.
RestoreFloating(h, s) ==
    IF s.fs = Off THEN h
    ELSE fcsrWrite(frmWrite(fflagsWrite(h, s.fflags), s.frm), s.fflags, s.frm)

\* Mutant: the status registers are restored before the floating-point CSRs.
Fault_RestoreCsrs(h, s) ==
    LET status == sstatusWrite(mstatusWrite(h, s.fs, s.sie), s.fs, s.sie)
        delegated == sieWrite(RestoreFloating(status, s), s.mie \cap s.mideleg)
    IN  [delegated EXCEPT !.paged = s.paged, !.mideleg = s.mideleg, !.mie = s.mie]
RestoreCsrs(h, s) ==
    LET floating == RestoreFloating(mstatusWrite(h, s.fs, s.sie), s)
        delegated == sieWrite(sstatusWrite(floating, s.fs, s.sie), s.mie \cap s.mideleg)
    IN  [delegated EXCEPT !.paged = s.paged, !.mideleg = s.mideleg, !.mie = s.mie]

\* Mutant: the increment that Spike has taken back is not given again.
Fault_RestoreCounter(h, s) == [h EXCEPT !.mcycle = s.mcycle - 1]
RestoreCounter(h, s) == bump(counterWrite(bump(h, 0), s.mcycle), 1)

\* Mutant: the reservation is taken before the privilege is restored.
Fault_RestoreReservation(h, s) ==
    LET entered == [h EXCEPT !.prv = s.prv]
    IN  IF s.tracked = None THEN [entered EXCEPT !.reserved = None, !.tracked = None]
        ELSE [entered EXCEPT !.reserved = Translate(h, s.tracked), !.tracked = s.tracked]
\* The privilege, and a reservation taken again by a new load_reserved.
RestoreReservation(h, s) ==
    LET entered == [h EXCEPT !.prv = s.prv]
    IN  IF s.tracked = None THEN [entered EXCEPT !.reserved = None, !.tracked = None]
        ELSE [entered EXCEPT !.reserved = Translate(entered, s.tracked), !.tracked = s.tracked]

Restored(s) == RestoreReservation(RestoreCounter(RestoreCsrs(Fresh, s), s), s)

Resume ==
    /\ resumed = "no"
    /\ IF Restored(hart).reserved = Fault THEN resumed' = "aborted" /\ copy' = copy
       ELSE resumed' = "yes" /\ copy' = Restored(hart)
    /\ lost' = {what \in {"fcsr", "reservation"} :
                  \/ what = "fcsr" /\ hart.fs = Off /\ <<hart.fflags, hart.frm>> # <<0, 0>>
                  \/ what = "reservation" /\ hart.reserved # (IF hart.tracked = None THEN None
                                                               ELSE Translate(hart, hart.tracked))}
    /\ UNCHANGED <<hart, agreed>>

(***************************************************************************)
(* Instructions: the state after it, and what the commit shows of it       *)
(***************************************************************************)
Retired(h, value) == [hart |-> bump(h, 1), value |-> value]

\* opcode 0x2f, operation 2: Spike reserves, and next notes the address.
LoadReserved(h, va) ==
    Retired([h EXCEPT !.reserved = Translate(h, va), !.tracked = va], 0)
\* Mutant: the address is kept when the SC has used up the reservation.
Fault_StoreConditional(h, va) ==
    Retired([h EXCEPT !.reserved = None], IF h.reserved = Translate(h, va) THEN 0 ELSE 1)
StoreConditional(h, va) ==
    Retired([h EXCEPT !.reserved = None, !.tracked = None],
            IF h.reserved = Translate(h, va) THEN 0 ELSE 1)
\* Other AMOs and stores (opcode 0x23) drop the note; Spike's reservation stays.
StoreOrAmo(h) == Retired([h EXCEPT !.tracked = None], 0)
FloatingOp(h, flag) == Retired([h EXCEPT !.fflags = IF flag = 1 THEN 1 ELSE @, !.fs = Dirty], 0)
WriteFcsr(h, flags, rounding) == Retired(fcsrWrite(h, flags, rounding), 0)
ReadFcsr(h) == Retired(h, <<h.fflags, h.frm>>)
WriteStatus(h, fs, sie) == Retired(mstatusWrite(h, fs, sie), 0)
ReadStatus(h) == Retired(h, <<h.fs, h.sie>>)
WriteMie(h, value) == Retired([h EXCEPT !.mie = value], 0)
WriteSie(h, value) == Retired(sieWrite(h, value), 0)
WriteMideleg(h, value) == Retired([h EXCEPT !.mideleg = value], 0)
WriteSatp(h, paged) == Retired([h EXCEPT !.paged = paged], 0)
WriteMcycle(h, value) == Retired(counterWrite(h, value), 0)
\* A trap, or a return from one.
Enter(h, prv) == Retired([h EXCEPT !.prv = prv], 0)

\* The original executes, and the copy beside it.
Commit(original, other) ==
    /\ resumed # "aborted"
    /\ hart' = original.hart
    /\ IF resumed = "yes"
       THEN copy' = other.hart /\ agreed' = (other.value = original.value)
       ELSE UNCHANGED <<copy, agreed>>
    /\ UNCHANGED <<resumed, lost>>

Supervisor == hart.prv # "U"
Machine == hart.prv = "M"
AccessLr(va) == Translate(hart, va) # Fault /\ Commit(LoadReserved(hart, va), LoadReserved(copy, va))
AccessSc(va) ==
    Translate(hart, va) # Fault /\ Commit(StoreConditional(hart, va), StoreConditional(copy, va))
AccessStore == Commit(StoreOrAmo(hart), StoreOrAmo(copy))
Floating(flag) == hart.fs # Off /\ Commit(FloatingOp(hart, flag), FloatingOp(copy, flag))
CsrFcsr(flags, rounding) ==
    hart.fs # Off /\ Commit(WriteFcsr(hart, flags, rounding), WriteFcsr(copy, flags, rounding))
CsrReadFcsr == hart.fs # Off /\ Commit(ReadFcsr(hart), ReadFcsr(copy))
CsrStatus(fs, sie) == Supervisor /\ Commit(WriteStatus(hart, fs, sie), WriteStatus(copy, fs, sie))
CsrReadStatus == Supervisor /\ Commit(ReadStatus(hart), ReadStatus(copy))
CsrMie(value) == Machine /\ Commit(WriteMie(hart, value), WriteMie(copy, value))
CsrSie(value) == Supervisor /\ Commit(WriteSie(hart, value), WriteSie(copy, value))
CsrMideleg(value) == Machine /\ Commit(WriteMideleg(hart, value), WriteMideleg(copy, value))
CsrSatp(paged) == Supervisor /\ Commit(WriteSatp(hart, paged), WriteSatp(copy, paged))
CsrMcycle(value) == Machine /\ Commit(WriteMcycle(hart, value), WriteMcycle(copy, value))
ChangePrivilege(prv) == Commit(Enter(hart, prv), Enter(copy, prv))

Next == \/ Resume \/ AccessStore \/ CsrReadFcsr \/ CsrReadStatus
        \/ \E va \in VirtualAddress : AccessLr(va) \/ AccessSc(va)
        \/ \E flag \in 0..1 : Floating(flag)
        \/ \E flags, rounding \in 0..1 : CsrFcsr(flags, rounding)
        \/ \E fs \in 0..3, sie \in BOOLEAN : CsrStatus(fs, sie)
        \/ \E value \in SUBSET Interrupts : CsrMie(value) \/ CsrSie(value) \/ CsrMideleg(value)
        \/ \E paged \in BOOLEAN : CsrSatp(paged)
        \/ \E value \in 0..(CounterSize - 1) : CsrMcycle(value)
        \/ \E prv \in {"M", "S", "U"} : ChangePrivilege(prv)

Spec == Init /\ [][Next]_vars

(***************************************************************************)
(* Properties                                                              *)
(***************************************************************************)

TypeOK == /\ hart \in Hart /\ copy \in Hart
          /\ resumed \in {"no", "yes", "aborted"}
          /\ lost \subseteq {"fcsr", "reservation"} /\ agreed \in BOOLEAN

(* A run resumed from a checkpoint holds, at once and after any further    *)
(* instructions, the state of the run that went on: status, enables and    *)
(* counters whatever the order in which their aliases were written, and    *)
(* the floating-point CSRs and the reservation unless they were lost.      *)
(* It also commits what the other commits: only a read of the fcsr that    *)
(* was lost while FS was Off, or an SC after a lost reservation, differs.  *)
Rest(h) == [h EXCEPT !.fflags = 0, !.frm = 0, !.reserved = None, !.tracked = None]
SurvivesRestore ==
    resumed = "yes" =>
      /\ Rest(copy) = Rest(hart)
      /\ <<copy.fflags, copy.frm>> = <<hart.fflags, hart.frm>> \/ "fcsr" \in lost
      /\ copy.reserved = hart.reserved \/ "reservation" \in lost
      /\ agreed \/ lost # {}

(* next notes a reservation only while Spike holds one, so that restore    *)
(* never makes one up: an SC that must fail does not succeed after it,     *)
(* unless the LR was made under another translation than the restore.      *)
NoInventedReservation ==
    /\ hart.tracked # None => hart.reserved # None
    /\ resumed = "yes" /\ hart.reserved = None => copy.reserved = None

(* Restore is left by a trap of Spike only when the address of an LR no    *)
(* longer translates as it did: the privilege or satp changed after it.    *)
AbortNeedsStaleAddress ==
    resumed = "aborted" => hart.tracked # None /\ hart.reserved # Translate(hart, hart.tracked)
=============================================================================
