------------------------------ MODULE Checkpoint ------------------------------
(***************************************************************************)
(* Saving and restoring a simulation (saveCheckpoint, restoreCheckpoint    *)
(* and their triggers in main.cc, and the streams of Checkpoint.cc).       *)
(*                                                                         *)
(* A checkpoint is two files: base.rtl, written by Verilator, and          *)
(* base.host, which holds everything else and a fingerprint of base.rtl.   *)
(* Both are written under temporary names and then renamed, one after the  *)
(* other.  The process may be killed between any two steps, any step may   *)
(* throw, and invocations with other options may use the same base.        *)
(*                                                                         *)
(* A simulation is deterministic up to what arrives from outside, so its   *)
(* state is its configuration and the history of its cycles; that history  *)
(* is kept twice, in the RTL model and in the host, and a bad restore can  *)
(* make the two differ.  The hash of a file is taken to be injective.      *)
(***************************************************************************)
EXTENDS Integers, Sequences, FiniteSets

CONSTANTS
    Configs,          \* [build, ELF image, --platform, difftest, --seed]
    Inputs,           \* what may happen in a cycle
    Marker,           \* the cycle prints --checkpoint-marker
    Typed,            \* the cycles that bring terminal input
    CheckpointCycle,  \* --checkpoint-cycle, 0 for none
    Interval,         \* --checkpoint-interval, 0 for none
    QueueLimit,       \* 1 << 20 in the code: UART input a reader accepts
    MaxCycles,        \* --max-cycles; bounds a history
    NoFile, Nothing   \* an absent file; no saved checkpoint

ASSUME CheckpointAssumption ==
    /\ {CheckpointCycle, Interval, MaxCycles, QueueLimit} \subseteq Nat
    /\ Typed \subseteq Inputs

VARIABLES
    phase,            \* where the process is; "off" when there is none
    config,           \* the options it was started with
    dut,              \* the state of the RTL model
    host,             \* SimulationState, memories, devices and reference
    fingerprint,      \* rtlFingerprint of saveCheckpoint
    rtlFile, rtlTemporary, hostFile, hostTemporary,
    saved,            \* history: the last state reported as saved
    torn              \* history: base.rtl was replaced, base.host not yet
files == <<rtlFile, rtlTemporary, hostFile, hostTemporary>>
histories == <<saved, torn>>
vars == <<phase, config, dut, host, fingerprint, files, histories>>

HostState == [history : Seq(Inputs), marker_seen : BOOLEAN]
RtlContent == [config : Configs, history : Seq(Inputs)]
RtlFileOf(d, complete) == [state |-> d, complete |-> complete]
HostFileOf(c, h, f, complete) ==
    [config |-> c, state |-> h, fingerprint |-> f, complete |-> complete]

Start == [history |-> <<>>, marker_seen |-> FALSE]
RtlOf(c, h) == [config |-> c, history |-> h.history]

Init ==
    /\ phase = "off"
    /\ config \in Configs
    /\ dut = RtlOf(config, Start)
    /\ host = Start
    /\ fingerprint = NoFile
    /\ rtlFile = NoFile /\ rtlTemporary = NoFile
    /\ hostFile = NoFile /\ hostTemporary = NoFile
    /\ saved = Nothing
    /\ torn = FALSE

(***************************************************************************)
(* Starting a simulation.                                                  *)
(***************************************************************************)
Reset(c) ==
    /\ phase = "off"
    /\ phase' = "running"
    /\ config' = c
    /\ dut' = RtlOf(c, Start)
    /\ host' = Start
    /\ UNCHANGED <<fingerprint, files, histories>>

\* The UART input queued in a state, for a program that reads none of it.
Queued(h) == Cardinality({k \in 1..Len(h.history) : h.history[k] \in Typed})

\* CheckpointReader reaches the end of the file and not beyond it.
Readable(file) == file # NoFile /\ file.complete

\* Mutant: the two files are not checked to be a pair.
Fault_Restorable(c) ==
    /\ Readable(hostFile) /\ rtlFile # NoFile
    /\ hostFile.config = c
    /\ Queued(hostFile.state) <= QueueLimit
\* restoreCheckpoint does not throw.  The queue limit stands for all limits of
\* the reader; the writer has none.
Restorable(c) ==
    /\ Readable(hostFile) /\ rtlFile # NoFile
    /\ hostFile.config = c
    /\ hostFile.fingerprint = rtlFile
    /\ Queued(hostFile.state) <= QueueLimit

\* Mutant: the marker is forgotten.
Fault_RestoredHost(file) == [file.state EXCEPT !.marker_seen = FALSE]
RestoredHost(file) == file.state

\* A refused restore ends the process and leaves the files as they were.
Restore(c) ==
    /\ phase = "off"
    /\ Restorable(c)
    /\ Len(hostFile.state.history) <= MaxCycles
    /\ phase' = "running"
    /\ config' = c
    /\ dut' = rtlFile.state
    /\ host' = RestoredHost(hostFile)
    /\ UNCHANGED <<fingerprint, files, histories>>

(***************************************************************************)
(* A cycle, and what makes it save.                                        *)
(***************************************************************************)
CycleTrigger(next_cycle) ==
    \/ CheckpointCycle = next_cycle
    \/ Interval # 0 /\ next_cycle % Interval = 0

MarkerPrinted(history) == \E k \in 1..Len(history) : history[k] = Marker

Cycle(in) ==
    LET history == Append(host.history, in)
        printed == MarkerPrinted(history)
        trigger == CycleTrigger(Len(history)) \/ (printed /\ ~host.marker_seen)
    IN  /\ phase = "running"
        /\ Len(host.history) < MaxCycles
        /\ dut' = [dut EXCEPT !.history = Append(@, in)]
        /\ host' = [history |-> history, marker_seen |-> host.marker_seen \/ printed]
        /\ phase' = IF trigger THEN "removeTemporaries" ELSE "running"
        /\ UNCHANGED <<config, fingerprint, files, histories>>

(***************************************************************************)
(* saveCheckpoint, one action per step on the disk.                        *)
(***************************************************************************)
RemoveTemporaries ==
    /\ phase = "removeTemporaries"
    /\ rtlTemporary' = NoFile
    /\ hostTemporary' = NoFile
    /\ phase' = "openRtl"
    /\ UNCHANGED <<config, dut, host, fingerprint, rtlFile, hostFile, histories>>

OpenRtl ==
    /\ phase = "openRtl"
    /\ rtlTemporary' = RtlFileOf(dut, FALSE)
    /\ phase' = "closeRtl"
    /\ UNCHANGED <<config, dut, host, fingerprint, rtlFile, hostFile, hostTemporary, histories>>

\* Mutant: the fingerprint is of the file that is about to be replaced.
Fault_FingerprintOf(temporary) == rtlFile
FingerprintOf(temporary) == temporary
\* Mutant: the fingerprint is not taken.
Fault_CloseRtl ==
    /\ phase = "closeRtl"
    /\ rtlTemporary' = RtlFileOf(dut, TRUE)
    /\ phase' = "openHost"
    /\ UNCHANGED <<config, dut, host, fingerprint, rtlFile, hostFile, hostTemporary, histories>>
CloseRtl ==
    /\ phase = "closeRtl"
    /\ rtlTemporary' = RtlFileOf(dut, TRUE)
    /\ fingerprint' = FingerprintOf(RtlFileOf(dut, TRUE))
    /\ phase' = "openHost"
    /\ UNCHANGED <<config, dut, host, rtlFile, hostFile, hostTemporary, histories>>

OpenHost ==
    /\ phase = "openHost"
    /\ hostTemporary' = HostFileOf(config, host, fingerprint, FALSE)
    /\ phase' = "closeHost"
    /\ UNCHANGED <<config, dut, host, fingerprint, rtlFile, rtlTemporary, hostFile, histories>>

CloseHost ==
    /\ phase = "closeHost"
    /\ hostTemporary' = HostFileOf(config, host, fingerprint, TRUE)
    /\ phase' = "renameRtl"
    /\ UNCHANGED <<config, dut, host, fingerprint, rtlFile, rtlTemporary, hostFile, histories>>

RenameRtl ==
    /\ phase = "renameRtl"
    /\ rtlFile' = rtlTemporary
    /\ rtlTemporary' = NoFile
    /\ torn' = TRUE
    /\ phase' = "renameHost"
    /\ UNCHANGED <<config, dut, host, fingerprint, hostFile, hostTemporary, saved>>

\* The save is complete and reported.
RenameHost ==
    /\ phase = "renameHost"
    /\ hostFile' = hostTemporary
    /\ hostTemporary' = NoFile
    /\ saved' = [config |-> config, state |-> host]
    /\ torn' = FALSE
    /\ phase' = "running"
    /\ UNCHANGED <<config, dut, host, fingerprint, rtlFile, rtlTemporary>>

\* The steps in which a file operation or requireGood may throw.
Steps == {"openRtl", "closeRtl", "openHost", "closeHost", "renameRtl", "renameHost"}

\* A step throws: the temporary files go away and main returns 2.
Fail ==
    /\ phase \in Steps
    /\ rtlTemporary' = NoFile
    /\ hostTemporary' = NoFile
    /\ phase' = "off"
    /\ UNCHANGED <<config, dut, host, fingerprint, rtlFile, hostFile, histories>>

\* The process ends or is killed.
Stop ==
    /\ phase # "off"
    /\ phase' = "off"
    /\ UNCHANGED <<config, dut, host, fingerprint, files, histories>>

Next ==
    \/ \E c \in Configs : Reset(c) \/ Restore(c)
    \/ \E in \in Inputs : Cycle(in)
    \/ RemoveTemporaries \/ OpenRtl \/ CloseRtl \/ OpenHost \/ CloseHost
    \/ RenameRtl \/ RenameHost \/ Fail \/ Stop

Spec == Init /\ [][Next]_vars

(***************************************************************************)
(* Properties                                                              *)
(***************************************************************************)
Phases == Steps \cup {"off", "running", "removeTemporaries"}
RtlFiles == [state : RtlContent, complete : BOOLEAN]
HostFiles == [config : Configs, state : HostState, fingerprint : RtlFiles, complete : BOOLEAN]

TypeOK ==
    /\ phase \in Phases
    /\ config \in Configs
    /\ dut \in RtlContent
    /\ host \in HostState
    /\ fingerprint \in RtlFiles \cup {NoFile}
    /\ {rtlFile, rtlTemporary} \subseteq RtlFiles \cup {NoFile}
    /\ {hostFile, hostTemporary} \subseteq HostFiles \cup {NoFile}
    /\ saved \in [config : Configs, state : HostState] \cup {Nothing}
    /\ torn \in BOOLEAN

(* A simulation that is running has an RTL model and a host of the same    *)
(* configuration and the same history, however often it was saved, killed  *)
(* and restored: restoreCheckpoint never combines the RTL file of one save *)
(* with the host file of another.                                          *)
PairConsistent == phase # "off" => dut = RtlOf(config, host)

(* Outside the interval between the two renames, what was last reported as *)
(* saved is what is on the disk, complete and as a matching pair, whatever *)
(* failed or was killed since: an unfinished save never damages it.        *)
LastSaveKept ==
    saved # Nothing /\ ~torn =>
      /\ hostFile = HostFileOf(saved.config, saved.state, rtlFile, TRUE)
      /\ rtlFile = RtlFileOf(RtlOf(saved.config, saved.state), TRUE)

(* The marker alone makes a simulation save only in the cycle that prints  *)
(* it for the first time, also when the simulation was restored since.     *)
MarkerSavesOnce ==
    [][phase = "running" /\ phase' = "removeTemporaries" /\ ~CycleTrigger(Len(host.history) + 1) =>
         ~MarkerPrinted(host.history)]_vars

(* Once a checkpoint has been reported as saved, the same command line can *)
(* restore some checkpoint, whenever the process ends.                     *)
AlwaysRestorable == saved # Nothing /\ phase = "off" => \E c \in Configs : Restorable(c)
=============================================================================
