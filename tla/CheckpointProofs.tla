--------------------------- MODULE CheckpointProofs ---------------------------
(***************************************************************************)
(* Proofs about Checkpoint, for any configurations, inputs and triggers.   *)
(* The invariant says of every host file that it carries the fingerprint   *)
(* of the RTL state it was saved with, and follows a save step by step.    *)
(***************************************************************************)
EXTENDS Checkpoint, TLAPS

RtlWritten == {"openHost", "closeHost", "renameRtl", "renameHost"}
HostWritten == {"renameRtl", "renameHost"}

\* A host file belongs to one RTL file, of its own configuration and history.
HostFileGood ==
    hostFile # NoFile =>
      /\ hostFile.fingerprint = RtlFileOf(RtlOf(hostFile.config, hostFile.state), TRUE)
      /\ MarkerPrinted(hostFile.state.history) => hostFile.state.marker_seen

MarkerKnown == phase # "off" => (MarkerPrinted(host.history) => host.marker_seen)

SaveProgress ==
    /\ phase \in RtlWritten => fingerprint = RtlFileOf(dut, TRUE)
    /\ phase \in RtlWritten \ {"renameHost"} => rtlTemporary = fingerprint
    /\ phase \in HostWritten => hostTemporary = HostFileOf(config, host, fingerprint, TRUE)
    /\ phase = "renameHost" => rtlFile = fingerprint

IInv ==
    /\ TypeOK
    /\ PairConsistent
    /\ HostFileGood
    /\ MarkerKnown
    /\ SaveProgress
    /\ LastSaveKept

\* The invariant holds before the first process is started.
LEMMA InitInv == Init => IInv
<1> SUFFICES ASSUME Init PROVE IInv
  OBVIOUS
<1>1. Start \in HostState
  BY DEF Start, HostState
<1>2. RtlOf(config, Start) \in RtlContent
  BY <1>1 DEF Init, RtlOf, RtlContent, HostState, Start
<1>3. TypeOK
  BY <1>1, <1>2 DEF Init, TypeOK, Phases, Steps
<1> QED
  BY <1>3 DEF Init, IInv, PairConsistent, HostFileGood, MarkerKnown, SaveProgress,
              LastSaveKept, RtlWritten, HostWritten

\* The constructors build files of the right type.
LEMMA FileTypes ==
    ASSUME NEW c \in Configs, NEW h \in HostState, NEW complete \in BOOLEAN
    PROVE  /\ RtlOf(c, h) \in RtlContent
           /\ \A d \in RtlContent : RtlFileOf(d, complete) \in RtlFiles
           /\ \A f \in RtlFiles : HostFileOf(c, h, f, complete) \in HostFiles
  BY DEF RtlOf, RtlContent, HostState, RtlFileOf, RtlFiles, HostFileOf, HostFiles

\* Every step of a process, a save or a restore keeps the types.
LEMMA TypePreserved == IInv /\ [Next]_vars => TypeOK'
<1> SUFFICES ASSUME IInv, [Next]_vars PROVE TypeOK'
  OBVIOUS
<1> USE DEF IInv, TypeOK
<1>1. ASSUME NEW c \in Configs, Reset(c) PROVE TypeOK'
  <2>1. Start \in HostState
    BY DEF Start, HostState
  <2>2. RtlOf(c, Start) \in RtlContent
    BY <2>1 DEF RtlOf, RtlContent, HostState
  <2> QED
    BY <1>1, <2>1, <2>2 DEF Reset, files, histories, Phases
<1>2. ASSUME NEW c \in Configs, Restore(c) PROVE TypeOK'
  <2>1. rtlFile \in RtlFiles /\ hostFile \in HostFiles
    BY <1>2 DEF Restore, Restorable, Readable
  <2>2. rtlFile.state \in RtlContent /\ hostFile.state \in HostState
    BY <2>1 DEF RtlFiles, HostFiles
  <2> QED
    BY <1>2, <2>2 DEF Restore, RestoredHost, files, histories, Phases
<1>3. ASSUME NEW in \in Inputs, Cycle(in) PROVE TypeOK'
  <2>a. /\ dut.config \in Configs /\ dut.history \in Seq(Inputs)
        /\ host.history \in Seq(Inputs) /\ host.marker_seen \in BOOLEAN
        /\ dut = [config |-> dut.config, history |-> dut.history]
    BY DEF RtlContent, HostState
  <2>b. Append(dut.history, in) \in Seq(Inputs) /\ Append(host.history, in) \in Seq(Inputs)
    BY <2>a
  <2>1. dut' \in RtlContent
    <3>1. dut' = [config |-> dut.config, history |-> Append(dut.history, in)]
      BY <1>3, <2>a DEF Cycle
    <3> QED
      BY <3>1, <2>a, <2>b DEF RtlContent
  <2>2. host' \in HostState
    <3> DEFINE seen == host.marker_seen \/ MarkerPrinted(Append(host.history, in))
    <3>1. host' = [history |-> Append(host.history, in), marker_seen |-> seen]
      BY <1>3 DEF Cycle
    <3>2. seen \in BOOLEAN
      BY <2>a DEF MarkerPrinted
    <3> HIDE DEF seen
    <3> QED
      BY <3>1, <3>2, <2>b DEF HostState
  <2>3. phase' \in Phases
    BY <1>3 DEF Cycle, Phases
  <2> QED
    BY <1>3, <2>1, <2>2, <2>3 DEF Cycle, files, histories
<1>4. CASE RemoveTemporaries
  BY <1>4 DEF RemoveTemporaries, histories, Phases, Steps
<1>5. CASE OpenRtl
  BY <1>5, FileTypes DEF OpenRtl, histories, Phases, Steps
<1>6. CASE CloseRtl
  BY <1>6, FileTypes DEF CloseRtl, FingerprintOf, histories, Phases, Steps
<1>7. ASSUME phase \in RtlWritten PROVE fingerprint \in RtlFiles
  BY <1>7, FileTypes DEF SaveProgress
<1>8. CASE OpenHost
  <2>1. HostFileOf(config, host, fingerprint, FALSE) \in HostFiles
    BY <1>7, <1>8, FileTypes DEF OpenHost, RtlWritten
  <2> QED
    BY <1>8, <2>1 DEF OpenHost, histories, Phases, Steps
<1>9. CASE CloseHost
  <2>1. HostFileOf(config, host, fingerprint, TRUE) \in HostFiles
    BY <1>7, <1>9, FileTypes DEF CloseHost, RtlWritten
  <2> QED
    BY <1>9, <2>1 DEF CloseHost, histories, Phases, Steps
<1>10. CASE RenameRtl
  BY <1>10 DEF RenameRtl, Phases, Steps
<1>11. CASE RenameHost
  BY <1>11 DEF RenameHost, Phases
<1>12. CASE Fail
  BY <1>12 DEF Fail, histories, Phases
<1>13. CASE Stop
  BY <1>13 DEF Stop, files, histories, Phases
<1>14. CASE UNCHANGED vars
  BY <1>14 DEF vars, files, histories
<1> QED
  BY <1>1, <1>2, <1>3, <1>4, <1>5, <1>6, <1>8, <1>9, <1>10, <1>11, <1>12, <1>13, <1>14 DEF Next

\* Every step keeps the invariant; RenameHost is where a save becomes the
\* checkpoint on the disk, Restore where the pair is read back.
LEMMA InvPreserved == IInv /\ [Next]_vars => IInv'
<1> SUFFICES ASSUME IInv, [Next]_vars PROVE IInv'
  OBVIOUS
<1>t. TypeOK'
  BY TypePreserved
<1>i. TypeOK /\ PairConsistent /\ HostFileGood /\ MarkerKnown /\ SaveProgress /\ LastSaveKept
  BY DEF IInv
<1> USE DEF RtlWritten, HostWritten
<1> SUFFICES PairConsistent' /\ HostFileGood' /\ MarkerKnown' /\ SaveProgress' /\ LastSaveKept'
  BY <1>t DEF IInv
<1>s. ASSUME UNCHANGED files, UNCHANGED histories
      PROVE  HostFileGood' /\ LastSaveKept'
  BY <1>i, <1>s DEF HostFileGood, LastSaveKept, files, histories
<1>1. ASSUME NEW c \in Configs, Reset(c)
      PROVE  PairConsistent' /\ HostFileGood' /\ MarkerKnown' /\ SaveProgress' /\ LastSaveKept'
  <2>1. PairConsistent' /\ SaveProgress'
    BY <1>1 DEF Reset, PairConsistent, SaveProgress
  <2>2. MarkerKnown'
    BY <1>1 DEF Reset, MarkerKnown, MarkerPrinted, Start
  <2> QED
    BY <1>1, <1>s, <2>1, <2>2 DEF Reset
<1>2. ASSUME NEW c \in Configs, Restore(c)
      PROVE  PairConsistent' /\ HostFileGood' /\ MarkerKnown' /\ SaveProgress' /\ LastSaveKept'
  <2>1. rtlFile = RtlFileOf(RtlOf(c, hostFile.state), TRUE)
    BY <1>2, <1>i DEF Restore, Restorable, Readable, HostFileGood
  <2>2. PairConsistent'
    BY <1>2, <2>1 DEF Restore, RestoredHost, PairConsistent, RtlFileOf
  <2>3. MarkerKnown'
    BY <1>2, <1>i DEF Restore, Restorable, Readable, RestoredHost, HostFileGood, MarkerKnown
  <2>4. SaveProgress'
    BY <1>2 DEF Restore, SaveProgress
  <2> QED
    BY <1>2, <1>s, <2>2, <2>3, <2>4 DEF Restore
<1>3. ASSUME NEW in \in Inputs, Cycle(in)
      PROVE  PairConsistent' /\ HostFileGood' /\ MarkerKnown' /\ SaveProgress' /\ LastSaveKept'
  <2>1. PairConsistent'
    <3>1. dut = [config |-> config, history |-> host.history]
      BY <1>3, <1>i DEF Cycle, PairConsistent, RtlOf
    <3>2. dut' = [config |-> config, history |-> Append(host.history, in)]
      BY <1>3, <3>1 DEF Cycle
    <3>3. host'.history = Append(host.history, in) /\ config' = config
      BY <1>3 DEF Cycle
    <3> QED
      BY <3>2, <3>3 DEF PairConsistent, RtlOf
  <2>2. MarkerKnown'
    BY <1>3 DEF Cycle, MarkerKnown
  <2>3. SaveProgress'
    BY <1>3 DEF Cycle, SaveProgress
  <2> QED
    BY <1>3, <1>s, <2>1, <2>2, <2>3 DEF Cycle
<1>4. CASE RemoveTemporaries
  BY <1>4, <1>i DEF RemoveTemporaries, PairConsistent, HostFileGood, MarkerKnown, SaveProgress,
                    LastSaveKept, histories
<1>5. CASE OpenRtl
  BY <1>5, <1>i DEF OpenRtl, PairConsistent, HostFileGood, MarkerKnown, SaveProgress,
                    LastSaveKept, histories
<1>6. CASE CloseRtl
  BY <1>6, <1>i DEF CloseRtl, FingerprintOf, PairConsistent, HostFileGood, MarkerKnown,
                    SaveProgress, LastSaveKept, histories
<1>7. CASE OpenHost
  BY <1>7, <1>i DEF OpenHost, PairConsistent, HostFileGood, MarkerKnown, SaveProgress,
                    LastSaveKept, histories
<1>8. CASE CloseHost
  BY <1>8, <1>i DEF CloseHost, PairConsistent, HostFileGood, MarkerKnown, SaveProgress,
                    LastSaveKept, histories
<1>9. CASE RenameRtl
  BY <1>9, <1>i DEF RenameRtl, PairConsistent, HostFileGood, MarkerKnown, SaveProgress, LastSaveKept
<1>10. CASE RenameHost
  <2>1. /\ hostTemporary = HostFileOf(config, host, RtlFileOf(dut, TRUE), TRUE)
        /\ rtlFile = RtlFileOf(dut, TRUE)
        /\ dut = RtlOf(config, host)
        /\ MarkerPrinted(host.history) => host.marker_seen
    BY <1>10, <1>i DEF RenameHost, SaveProgress, PairConsistent, MarkerKnown
  <2>2. HostFileGood'
    BY <1>10, <2>1 DEF RenameHost, HostFileGood, HostFileOf
  <2>3. LastSaveKept'
    BY <1>10, <2>1 DEF RenameHost, LastSaveKept
  <2>4. PairConsistent' /\ MarkerKnown' /\ SaveProgress'
    BY <1>10, <1>i DEF RenameHost, PairConsistent, MarkerKnown, SaveProgress
  <2> QED
    BY <2>2, <2>3, <2>4
<1>11. CASE Fail
  BY <1>11, <1>i DEF Fail, PairConsistent, HostFileGood, MarkerKnown, SaveProgress,
                     LastSaveKept, histories
<1>12. CASE Stop
  <2>1. PairConsistent' /\ MarkerKnown' /\ SaveProgress'
    BY <1>12 DEF Stop, PairConsistent, MarkerKnown, SaveProgress
  <2> QED
    BY <1>12, <1>s, <2>1 DEF Stop
<1>13. CASE UNCHANGED vars
  BY <1>13, <1>i DEF vars, files, histories, PairConsistent, HostFileGood, MarkerKnown,
                     SaveProgress, LastSaveKept
<1> QED
  BY <1>1, <1>2, <1>3, <1>4, <1>5, <1>6, <1>7, <1>8, <1>9, <1>10, <1>11, <1>12, <1>13 DEF Next

(* The invariant that links the files, the save in progress and the        *)
(* running simulation holds throughout.                                    *)
THEOREM CheckpointInvariant == Spec => []IInv
  BY InitInv, InvPreserved, PTL DEF Spec

(* Every file a save leaves behind, finished or cut short, is of the shape *)
(* that the readers expect, and the step of the save is one of save().     *)
THEOREM CheckpointTypes == Spec => []TypeOK
<1>1. IInv => TypeOK
  BY DEF IInv
<1> QED
  BY <1>1, CheckpointInvariant, PTL

(* Whatever is saved, killed and restored, the RTL model and the host of a *)
(* running simulation have the same configuration and history.             *)
THEOREM PairCorrect == Spec => []PairConsistent
<1>1. IInv => PairConsistent
  BY DEF IInv
<1> QED
  BY <1>1, CheckpointInvariant, PTL

(* Outside the two renames, the checkpoint last reported as saved is the   *)
(* one on the disk.                                                        *)
THEOREM LastSaveCorrect == Spec => []LastSaveKept
<1>1. IInv => LastSaveKept
  BY DEF IInv
<1> QED
  BY <1>1, CheckpointInvariant, PTL

(* The marker alone causes a save only when it appears for the first time. *)
THEOREM MarkerCorrect == Spec => MarkerSavesOnce
<1> DEFINE Once == phase = "running" /\ phase' = "removeTemporaries"
                   /\ ~CycleTrigger(Len(host.history) + 1) => ~MarkerPrinted(host.history)
<1>1. IInv /\ [Next]_vars => [Once]_vars
  <2> SUFFICES ASSUME IInv, Next, phase = "running", phase' = "removeTemporaries",
                      ~CycleTrigger(Len(host.history) + 1)
               PROVE  ~MarkerPrinted(host.history)
    OBVIOUS
  <2>1. PICK in \in Inputs : Cycle(in)
    BY DEF Next, Reset, Restore, RemoveTemporaries, OpenRtl, CloseRtl, OpenHost, CloseHost,
           RenameRtl, RenameHost, Fail, Stop
  <2>2. Len(Append(host.history, in)) = Len(host.history) + 1
    BY DEF IInv, TypeOK, HostState
  <2>3. ~host.marker_seen
    BY <2>1, <2>2 DEF Cycle
  <2> QED
    BY <2>3 DEF IInv, MarkerKnown
<1> QED
  BY <1>1, CheckpointInvariant, PTL DEF Spec, MarkerSavesOnce
=============================================================================
