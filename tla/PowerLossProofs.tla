---------------------------- MODULE PowerLossProofs ----------------------------
(*****************************************************************************)
(* Proofs about Recovery.tla for any set of operations when a power loss is  *)
(* all that ever stops the program and its probe runs no command of its own: *)
(* every journal stays readable, and nobody is left with launchers that no   *)
(* operation answers for.  With signals, failed appends or a probe that runs *)
(* nvidia-smi neither holds.                                                 *)
(*****************************************************************************)
EXTENDS RecoveryProofs

OnlyPowerLoss == Faults \subseteq {"powerLoss"} /\ ProbeQueries = FALSE

-----------------------------------------------------------------------------
(* The lines that fit. *)

LEMMA StartedFits ==
  ASSUME NEW j \in Journals, NEW c \in Commands, NEW k, k = CommandStarted(j, c),
         j.ok, ~Closed(j), j.pending = NoCommand, c = "host-command" => Bound(j)
  PROVE  k.ok /\ k.pending = c /\ k.releases = j.releases /\ k.binding = j.binding
BY DEF CommandStarted, Read, Journals

LEMMA FinishedFits ==
  ASSUME NEW j \in Journals, NEW c, NEW k, k = CommandFinished(j, c),
         j.ok, ~Closed(j), j.pending = c
  PROVE  k.ok /\ k.pending = NoCommand /\ k.releases = j.releases /\ k.binding = j.binding
BY DEF CommandFinished, Read, Journals

LEMMA PersistedFits ==
  ASSUME NEW j \in Journals, NEW s, NEW k, k = SnapshotPersisted(j, s),
         j.ok, ~Closed(j), j.pending = NoCommand, ~Bound(j)
  PROVE  k.ok /\ k.pending = NoCommand /\ k.releases = j.releases /\ k.binding = s
BY DEF SnapshotPersisted, Read, Journals

LEMMA AuthorizedFits ==
  ASSUME NEW j \in Journals, NEW t, NEW s, NEW k, k = ReleaseAuthorized(j, t, s),
         j.ok, ~Closed(j), j.pending = NoCommand, Bound(j), j.binding = s, j.mutation,
         t \notin j.releases, t # "rollback-baseline" => j.releases = {}
  PROVE  k.ok /\ k.pending = NoCommand /\ k.releases = j.releases \cup {t} /\ k.binding = s
BY DEF ReleaseAuthorized, Read, Journals

LEMMA CompletedFits ==
  ASSUME NEW j \in Journals, NEW incomplete \in BOOLEAN, NEW k, k = OperationCompleted(j, incomplete),
         j.ok, ~Closed(j), j.pending = NoCommand, incomplete => Bound(j)
  PROVE  k.ok /\ (incomplete => k.mutation /\ ~Terminal(k))
BY DEF OperationCompleted, Read, Journals, Terminal, Completed, Recovered, Closed

LEMMA RecoveredFits ==
  ASSUME NEW j \in Journals, NEW o, NEW r, NEW k, k = OperationRecovered(j, o, r, j.binding),
         j.ok, ~Terminal(j), r # o, Bound(j), j.mutation
  PROVE  k.ok
BY DEF OperationRecovered, Read, Journals

-----------------------------------------------------------------------------
(* Where the next line fits as well. *)

(* The process has ended. *)
LEMMA EndFits ==
  ASSUME \A o \in OperationIds : journal'[o].ok, Exit PROVE LinesFit'
<1>1. run'.pc = "idle" /\ run'.step = "ready" BY IdleFacts DEF Exit
<1> QED BY <1>1, WorkPhaseSet DEF LinesFit, AtWork, ReservePhases

(* The process has not written a line yet. *)
LEMMA OutsideFits ==
  ASSUME LinesFit, UNCHANGED journal, run'.pc \in {"idle", "scan", "retire", "reserve"},
         run'.step \in {"ready", "running"}
  PROVE  LinesFit'
BY WorkPhaseSet DEF LinesFit, AtWork, ReservePhases

(* The operation goes on, to its compensation or in the order of its phases. *)
On ==
  /\ Moved(run') /\ run'.pc \in WorkPhases \cup {"begin"}
  /\ run'.pc \notin {"abort", "persistenceFailed", "complete"}
  /\ run'.goal = run.goal /\ run'.pc \in BeforeRelease => run.pc \in BeforeRelease
  /\ run'.pc \in BindingPhases => run.pc \in BindingPhases
  /\ run'.pc \in QuietPhases => run.mutating

LEMMA AtWorkFacts ==
  ASSUME Sound, AtWork
  PROVE  /\ run \in Runs /\ run.op \in OperationIds /\ run.snap \in OperationIds
         /\ journal \in [OperationIds -> Journals] /\ journal[run.op] \in Journals
         /\ ~Closed(journal[run.op])
         /\ journal = [journal EXCEPT ![run.op] = journal[run.op]]
<1>1. run.pc # "idle" BY WorkPhaseSet DEF AtWork, ReservePhases
<1>2. run \in Runs /\ journal \in [OperationIds -> Journals] BY DEF Sound, TypeOK
<1>3. run.op \in OperationIds /\ run.snap \in OperationIds BY <1>1 DEF Sound, RunIdentified
<1>4. ~Closed(journal[run.op]) BY DEF Sound, WorkSound, AtWork
<1> QED BY <1>2, <1>3, <1>4

LEMMA OnFits ==
  ASSUME Sound, LinesFit, AtWork, On, NEW k, journal' = [journal EXCEPT ![run.op] = k],
         k.ok, k.pending = NoCommand, k.releases = journal[run.op].releases,
         k.binding = journal[run.op].binding \/ run'.pc \notin BindingPhases
  PROVE  LinesFit'
<1>1. /\ run.op \in OperationIds /\ run \in Runs /\ run' \in Runs
      /\ run'.op = run.op /\ run'.kind = run.kind /\ run'.step = "ready"
      /\ run'.mutating = run.mutating
  BY AtWorkFacts DEF On, Moved, SameRun
<1>2. journal'[run'.op] = k /\ \A o \in OperationIds : journal'[o].ok
  BY <1>1, AtWorkFacts DEF LinesFit
<1>3. ~Running' BY <1>1 DEF Running
<1>4. /\ run'.goal = "target" => k.releases \subseteq {ReleaseTarget'}
      /\ run'.pc \in BeforeRelease => ReleaseTarget' \notin k.releases
  <2>1. CASE run'.goal = run.goal
    <3>1. ReleaseTarget' = ReleaseTarget BY <1>1, <2>1 DEF ReleaseTarget
    <3> QED BY <2>1, <3>1 DEF On, LinesFit
  <2>2. CASE run'.goal # run.goal
    <3>1. run.kind = "install" /\ run.goal = "target" /\ run'.goal = "baseline"
      BY <2>2 DEF On, Moved, MayCompensate
    <3>2. ReleaseTarget = "install-target" /\ ReleaseTarget' = "rollback-baseline"
      BY <1>1, <3>1 DEF ReleaseTarget
    <3> QED BY <3>1, <3>2 DEF LinesFit
  <2> QED BY <2>1, <2>2
<1>5. run'.pc \in BindingPhases => ~Bound(k) BY DEF On, LinesFit, Bound
<1>6. run'.pc \in QuietPhases => run'.mutating BY <1>1 DEF On
<1> QED BY <1>1, <1>2, <1>3, <1>4, <1>5, <1>6 DEF LinesFit, On

(* A step that writes no line, between commands. *)
LEMMA QuietFits ==
  ASSUME Sound, LinesFit, AtWork, On, ~Running, UNCHANGED journal
  PROVE  LinesFit'
<1>1. journal[run.op].ok /\ journal[run.op].pending = NoCommand
  BY AtWorkFacts DEF LinesFit
<1>2. journal' = [journal EXCEPT ![run.op] = journal[run.op]] BY AtWorkFacts
<1> QED BY <1>1, <1>2, OnFits

(* The end of a command is recorded as that of the command that was started. *)
LEMMA FinishFits ==
  ASSUME Sound, LinesFit, NEW p \in CommandPhases, Ends(p)
  PROVE  /\ AtWork /\ run.pc = p
         /\ LET k == CommandFinished(journal[run.op], Command) IN
            /\ journal' = [journal EXCEPT ![run.op] = k]
            /\ k.ok /\ k.pending = NoCommand /\ k.releases = journal[run.op].releases
            /\ k.binding = journal[run.op].binding
         /\ \A o \in OperationIds : journal'[o].ok
<1>1. /\ run.pc = p /\ Running
      /\ journal' = [journal EXCEPT ![run.op] = CommandFinished(journal[run.op], Command)]
  BY DEF Ends, Write, Running, AtCommand
<1>2. AtWork BY <1>1 DEF AtWork, WorkPhases
<1>3. journal[run.op].ok /\ journal[run.op].pending = Command
  BY <1>1, <1>2, AtWorkFacts DEF LinesFit
<1>4. LET k == CommandFinished(journal[run.op], Command) IN
      k.ok /\ k.pending = NoCommand /\ k.releases = journal[run.op].releases
      /\ k.binding = journal[run.op].binding
  BY <1>2, <1>3, AtWorkFacts, FinishedFits
<1>5. \A o \in OperationIds : journal'[o].ok BY <1>1, <1>2, <1>4, AtWorkFacts DEF LinesFit
<1> QED BY <1>1, <1>2, <1>4, <1>5

LEMMA EndOn ==
  ASSUME Sound, LinesFit, NEW p \in CommandPhases, Ends(p), On
  PROVE  LinesFit'
BY FinishFits, OnFits

-----------------------------------------------------------------------------
(* One lemma per part of the program. *)

(* Without faults around it the program fails only as it can by itself. *)
LEMMA NoFault ==
  ASSUME OnlyPowerLoss
  PROVE  /\ Alone
         /\ ~Failing /\ ~Signal /\ ~Kill /\ ~ReserveFails /\ ~StartQuery
BY DEF Alone, OnlyPowerLoss, Failing, AppendFails, MarkRecoveredFails, WriteReportFails, CompleteFails,
       RecordPersistenceFailureFails, Signal, Kill, ReserveFails, StartQuery

(* From the lock to the reservation no line is written. *)
LEMMA LockFits ==
  ASSUME Sound, LinesFit, NEW o \in OperationIds, NEW s \in OperationIds, NEW k \in Kinds,
         AcquireLock(o, k, s)
  PROVE  LinesFit'
<1>1. UNCHANGED journal BY DEF AcquireLock, disk
<1>2. run'.pc = "scan" /\ run'.step = "ready"
  BY DEF AcquireLock, IdleRun
<1> QED BY <1>1, <1>2, OutsideFits

LEMMA ScanFits ==
  ASSUME Sound, LinesFit, Recovering
  PROVE  LinesFit'
<1>1. run \in Runs BY DEF Sound, TypeOK
<1>2. UNCHANGED journal BY DEF Recovering, ScanRefuses, Scan, Retire, Admit, Refuse, disk
<1>3. run'.pc \in {"idle", "scan", "retire", "reserve"} /\ run'.step \in {"ready", "running"}
  <2>1. CASE ScanRefuses \/ Refuse
    BY <2>1, IdleFacts DEF ScanRefuses, Refuse, Exit
  <2>2. CASE Scan BY <1>1, <2>2 DEF Scan, LinesFit, Runs
  <2>3. ASSUME NEW m \in OperationIds, Retire(m) PROVE run'.pc = "retire" /\ run'.step = run.step
    BY <1>1, <2>3 DEF Retire, Runs
  <2>4. CASE Admit BY <1>1, <2>4 DEF Admit, Goto, Runs
  <2> QED BY <2>1, <2>2, <2>3, <2>4 DEF Recovering, LinesFit
<1> QED BY <1>2, <1>3, OutsideFits

(* The reservation writes operation-started; the rest of it writes nothing. *)
LEMMA ReserveFits ==
  ASSUME Sound, LinesFit, Reserving, ~ReserveFails
  PROVE  LinesFit'
<1>1. run \in Runs /\ journal \in [OperationIds -> Journals] BY DEF Sound, TypeOK
<1>2. CASE Reserve
  <2>1. /\ run.op \in OperationIds /\ journal' = [journal EXCEPT ![run.op] = OperationStarted]
        /\ run'.op = run.op /\ run'.pc = "mark" /\ run'.step = "ready"
    BY <1>1, <1>2 DEF Reserve, Write, Sound, RunIdentified, Goto, Runs
  <2>2. journal'[run'.op] = OperationStarted /\ \A o \in OperationIds : journal'[o].ok
    BY <1>1, <2>1, NoJournalFacts DEF LinesFit
  <2>3. OperationStarted.pending = NoCommand /\ OperationStarted.releases = {}
    BY DEF OperationStarted, NoJournal
  <2>4. ~Running' BY <2>1 DEF Running
  <2> QED BY <2>1, <2>2, <2>3, <2>4, NoJournalFacts DEF LinesFit, QuietPhases
<1>3. CASE CreateMarker \/ Dispatch \/ RollbackPreflight
  <2>1. /\ run.pc \in {"mark", "begin"} /\ UNCHANGED journal
        /\ \/ run' = Goto("begin") \/ run' = Goto("bind") \/ run' = Goto("stage")
           \/ run' = Goto("gate") \/ run' = Goto("emit") \/ run' = GotoFailed("emit")
    BY <1>3 DEF CreateMarker, Dispatch, RollbackPreflight, disk
  <2>2. AtWork /\ ~Running BY <2>1, PhaseSets DEF AtWork, ReservePhases, Running, AtCommand
  <2>3. Moved(run') /\ run'.pc \in {"begin", "bind", "stage", "gate", "emit"}
        /\ run'.goal = run.goal
    BY <1>1, <2>1, GotoFacts, GotoFailedFacts, PhaseSet
  <2>4. On BY <2>1, <2>3, WorkPhaseSet DEF On, BeforeRelease, BindingPhases, QuietPhases
  <2> QED BY <2>1, <2>2, <2>4, QuietFits
<1>4. CASE RollbackLoadFails
  BY <1>4, EndFits DEF RollbackLoadFails, disk, LinesFit
<1> QED BY <1>2, <1>3, <1>4 DEF Reserving

(* command-started comes when no command is pending, and behind a binding if *)
(* the command may change the host.                                          *)
LEMMA StartFits ==
  ASSUME Sound, LinesFit, StartCommand
  PROVE  LinesFit'
<1> DEFINE j == journal[run.op]
           k == CommandStarted(j, Command)
<1>1. /\ AtCommand /\ run.step = "ready" /\ journal' = [journal EXCEPT ![run.op] = k]
      /\ run' = [run EXCEPT !.step = "running",
                            !.mutating = IF run.pc \in HostPhases THEN TRUE ELSE @]
  BY DEF StartCommand, Write
<1>2. AtWork /\ Command \in Commands /\ ~Running
  BY <1>1, CommandIsOne DEF AtWork, Running
<1>3. j \in Journals /\ ~Closed(j) /\ j.ok /\ j.pending = NoCommand
  BY <1>2, AtWorkFacts DEF LinesFit
<1>4. Command = "host-command" => Bound(j)
  <2>1. Command = "host-command" => run.pc \in HostPhases
    BY <1>1, PhaseSets DEF Command, AtCommand
  <2> QED BY <1>3, <2>1 DEF Sound, PhaseSound, BoundPhases
<1>5. k.ok /\ k.pending = Command /\ k.releases = j.releases /\ k.binding = j.binding
  BY <1>2, <1>3, <1>4, StartedFits
<1> HIDE DEF k
<1>6. /\ run'.op = run.op /\ run'.kind = run.kind /\ run'.goal = run.goal /\ run'.pc = run.pc
      /\ run'.step = "running" /\ (run.mutating => run'.mutating)
  BY <1>1, <1>2, AtWorkFacts DEF Runs
<1>7. journal'[run'.op] = k /\ \A o \in OperationIds : journal'[o].ok
  BY <1>1, <1>2, <1>5, <1>6, AtWorkFacts DEF LinesFit
<1>8. Running' /\ Command' = Command /\ ReleaseTarget' = ReleaseTarget
  BY <1>1, <1>6 DEF Running, AtCommand, Command, ReleaseTarget
<1>9. run.pc # "complete" BY <1>1, PhaseSets DEF AtCommand
<1> QED BY <1>2, <1>5, <1>6, <1>7, <1>8, <1>9 DEF LinesFit, Bound

(* The phases up to the binding of the snapshot. *)
LEMMA StageFits ==
  ASSUME Sound, LinesFit, GateEnds \/ StageEnds \/ PersistEnds
  PROVE  LinesFit'
<1>1. run \in Runs BY DEF Sound, TypeOK
<1>2. PICK p \in {"gate", "stage", "persist"} : Ends(p) /\ p \in CommandPhases
  BY PhaseSets DEF GateEnds, StageEnds, PersistEnds
<1>3. \/ Exit \/ run' = GotoFailed("emit")
      \/ run' = Goto("stage") \/ run' = Goto("persist") \/ run' = Goto("bind")
  BY DEF GateEnds, StageEnds, PersistEnds, SnapshotFails, Exit
<1>4. CASE Exit BY <1>2, <1>4, FinishFits, EndFits
<1>5. CASE ~Exit
  <2>1. /\ Moved(run') /\ run'.pc \in {"emit", "stage", "persist", "bind"}
        /\ run'.goal = run.goal
    BY <1>1, <1>3, <1>5, GotoFacts, GotoFailedFacts, PhaseSet
  <2>2. run.pc = p BY <1>2 DEF Ends
  <2>3. On BY <1>2, <2>1, <2>2, WorkPhaseSet DEF On, BeforeRelease, BindingPhases, QuietPhases
  <2> QED BY <1>2, <2>3, EndOn
<1> QED BY <1>4, <1>5

(* snapshot-persisted is the first binding. *)
LEMMA BindFits ==
  ASSUME Sound, LinesFit, Bind
  PROVE  LinesFit'
<1> DEFINE j == journal[run.op]
           k == SnapshotPersisted(j, run.snap)
<1>1. /\ run.pc = "bind" /\ journal' = [journal EXCEPT ![run.op] = k]
      /\ run' = Goto("emit") \/ run' = Goto("quiesce") \/ run' = GotoFailed("emit")
  BY DEF Bind, Write
<1>2. AtWork /\ ~Running BY <1>1, PhaseSets, WorkPhaseSet DEF AtWork, Running, AtCommand
<1>3. j \in Journals /\ ~Closed(j) /\ j.ok /\ j.pending = NoCommand /\ ~Bound(j)
  BY <1>1, <1>2, AtWorkFacts DEF LinesFit, BindingPhases
<1>4. k.ok /\ k.pending = NoCommand /\ k.releases = j.releases BY <1>3, PersistedFits
<1> HIDE DEF k
<1>5. Moved(run') /\ run'.pc \in {"emit", "quiesce"} /\ run'.goal = run.goal
  BY <1>1, <1>2, AtWorkFacts, GotoFacts, GotoFailedFacts, PhaseSet
<1>6. On /\ run'.pc \notin BindingPhases
  BY <1>1, <1>5, WorkPhaseSet DEF On, BeforeRelease, BindingPhases, QuietPhases
<1> QED BY <1>1, <1>2, <1>4, <1>6, OnFits

(* The commands between the binding and the verification end, and the operation *)
(* goes on to another of their phases, to the verification, or fails.            *)
HostEnds == \/ QuiesceEnds \/ ProbeEnds \/ PackagesEnds \/ CheckpointEnds \/ RecheckEnds
            \/ MutateEnds
HostEndPhases == {"quiesce", "probe", "packages", "checkpoint", "recheck", "mutate"}
GoesOn == run' = PhaseFailed \/ \E q \in HostEndPhases \cup {"verify"} : run' = Goto(q)

LEMMA HostEndsFacts ==
  ASSUME HostEnds
  PROVE  \E p \in HostEndPhases : Ends(p) /\ p \in CommandPhases /\ GoesOn
<1>1. CASE QuiesceEnds BY <1>1, PhaseSets DEF QuiesceEnds, GoesOn, HostEndPhases
<1>2. CASE ProbeEnds BY <1>2, PhaseSets DEF ProbeEnds, AfterProbe, GoesOn, HostEndPhases
<1>3. CASE PackagesEnds BY <1>3, PhaseSets DEF PackagesEnds, GoesOn, HostEndPhases
<1>4. CASE CheckpointEnds
  BY <1>4, PhaseSets DEF CheckpointEnds, AfterCheckpoint, GoesOn, HostEndPhases
<1>5. CASE RecheckEnds BY <1>5, PhaseSets DEF RecheckEnds, GoesOn, HostEndPhases
<1>6. CASE MutateEnds BY <1>6, PhaseSets DEF MutateEnds, GoesOn, HostEndPhases
<1> QED BY <1>1, <1>2, <1>3, <1>4, <1>5, <1>6 DEF HostEnds

(* A failed step of the quarantine, the mutation or the verification. *)
LEMMA FailedGoesOn ==
  ASSUME run \in Runs, run.pc \in {"quiesce"} \cup QuietPhases, run' = PhaseFailed
  PROVE  On
<1>1. /\ Moved(run')
      /\ \/ run'.pc = "quiesce"
         \/ run'.pc \in {"emit", "requarantine"} /\ run'.goal = run.goal
  BY PhaseFailedFacts
<1> QED BY <1>1, WorkPhaseSet DEF On, BeforeRelease, BindingPhases, QuietPhases

LEMMA ChangeFits ==
  ASSUME Sound, LinesFit, Changing
  PROVE  LinesFit'
<1>1. run \in Runs BY DEF Sound, TypeOK
<1>2. CASE QuiesceRefused \/ VerifyCore
  <2>1. /\ run.pc \in {"quiesce", "checkpoint", "verify"} /\ UNCHANGED journal /\ ~Running
        /\ run' = PhaseFailed \/ (run.pc = "verify" /\ run' = Goto("authorize"))
    BY <1>2, PhaseSets DEF QuiesceRefused, VerifyCore, disk, Running, AtCommand
  <2>2. AtWork BY <2>1, WorkPhaseSet DEF AtWork
  <2>3. CASE run' = PhaseFailed
    BY <1>1, <2>1, <2>2, <2>3, FailedGoesOn, QuietFits DEF QuietPhases
  <2>4. CASE run.pc = "verify" /\ run' = Goto("authorize")
    <3>1. Moved(run') /\ run'.pc = "authorize" BY <1>1, <2>4, GotoFacts, PhaseSet
    <3>2. run.mutating BY <2>2, <2>4 DEF LinesFit, QuietPhases
    <3>3. On BY <2>4, <3>1, <3>2, WorkPhaseSet DEF On, BeforeRelease, BindingPhases, QuietPhases
    <3> QED BY <2>1, <2>2, <3>3, QuietFits
  <2> QED BY <2>1, <2>3, <2>4
<1>3. CASE HostEnds
  <2>1. PICK p \in HostEndPhases : Ends(p) /\ p \in CommandPhases /\ GoesOn
    BY <1>3, HostEndsFacts
  <2>2. run.pc = p /\ AtWork BY <2>1, FinishFits
  <2>3. run.mutating
    <3>1. p \in {"quiesce"} => p \in HostPhases BY PhaseSets
    <3> QED BY <2>1, <2>2, <3>1, EndFacts DEF LinesFit, QuietPhases, HostEndPhases
  <2>5. CASE run' = PhaseFailed
    BY <1>1, <2>1, <2>2, <2>5, FailedGoesOn, EndOn DEF HostEndPhases, QuietPhases
  <2>6. CASE run' # PhaseFailed
    <3>1. Moved(run') /\ run'.pc \in HostEndPhases \cup {"verify"}
      BY <1>1, <2>1, <2>6, GotoFacts, PhaseSet DEF GoesOn, HostEndPhases
    <3>2. On
      BY <2>2, <2>3, <3>1, WorkPhaseSet
      DEF On, BeforeRelease, BindingPhases, QuietPhases, HostEndPhases
    <3> QED BY <2>1, <3>2, EndOn
  <2> QED BY <2>5, <2>6
<1> QED BY <1>2, <1>3 DEF Changing, HostEnds

(* An operation has its host commands in its journal, and so the binding. *)
LEMMA MutatingFacts ==
  ASSUME Sound, LinesFit, run.pc \in WorkPhases, run.mutating
  PROVE  /\ journal[run.op].mutation /\ Bound(journal[run.op])
         /\ journal[run.op].binding = run.snap
<1>1. journal[run.op].ok BY WorkFacts DEF LinesFit
<1> QED BY <1>1, WorkFacts DEF Bound

(* Each release has its own line, and comes after the line before it. *)
LEMMA AuthorizeFits ==
  ASSUME Sound, LinesFit, Authorize
  PROVE  LinesFit'
<1> DEFINE j == journal[run.op]
           k == ReleaseAuthorized(j, ReleaseTarget, run.snap)
<1>1. /\ run.pc = "authorize" /\ journal' = [journal EXCEPT ![run.op] = k]
      /\ run' = Goto("release")
  BY DEF Authorize, Write
<1>2. AtWork /\ ~Running /\ run.pc \in WorkPhases
  BY <1>1, PhaseSets, WorkPhaseSet DEF AtWork, Running, AtCommand
<1>3. /\ j \in Journals /\ ~Closed(j) /\ j.ok /\ j.pending = NoCommand
      /\ ReleaseTarget \notin j.releases /\ run.mutating
      /\ run.goal = "target" => j.releases \subseteq {ReleaseTarget}
  BY <1>1, <1>2, AtWorkFacts DEF LinesFit, BeforeRelease, QuietPhases
<1>4. j.mutation /\ Bound(j) /\ j.binding = run.snap BY <1>2, <1>3, MutatingFacts
<1>5. ReleaseTarget # "rollback-baseline" => j.releases = {}
  <2>1. ReleaseTarget # "rollback-baseline" => run.goal # "baseline" BY DEF ReleaseTarget
  <2>2. run.goal \in {"target", "baseline"} BY <1>2, AtWorkFacts DEF Runs
  <2> QED BY <1>3, <2>1, <2>2
<1>6. k.ok /\ k.pending = NoCommand /\ k.releases = j.releases \cup {ReleaseTarget}
  BY <1>3, <1>4, <1>5, AuthorizedFits
<1> HIDE DEF k
<1>7. /\ run'.op = run.op /\ run'.kind = run.kind /\ run'.goal = run.goal
      /\ run'.pc = "release" /\ run'.step = "ready"
  BY <1>1, <1>2, AtWorkFacts DEF Goto, Runs
<1>8. journal'[run'.op] = k /\ \A o \in OperationIds : journal'[o].ok
  BY <1>1, <1>2, <1>6, <1>7, AtWorkFacts DEF LinesFit
<1>9. ~Running' /\ ReleaseTarget' = ReleaseTarget BY <1>7 DEF Running, ReleaseTarget
<1> QED BY <1>3, <1>6, <1>7, <1>8, <1>9
        DEF LinesFit, BeforeRelease, BindingPhases, QuietPhases

(* The release, what follows it, and the quarantine of a failure. *)
LEMMA ReleaseFits ==
  ASSUME Sound, LinesFit, Releasing, ~Authorize
  PROVE  LinesFit'
<1>1. run \in Runs /\ run.pc # "abort" BY DEF Sound, TypeOK, LinesFit
<1>2. ~AbortEnds /\ ~AbortRefused BY <1>1 DEF AbortEnds, AbortRefused, Ends
<1>3. ASSUME Moved(run'), run'.pc \in {"emit", "recover", "confirm", "unrelease", "release"}
      PROVE  On
  BY <1>3, WorkPhaseSet DEF On, BeforeRelease, BindingPhases, QuietPhases
<1>4. ASSUME MayCompensate, run' = Compensate(run) PROVE On
  <2>1. Moved(run') /\ run'.pc = "quiesce" /\ run'.goal # run.goal
    BY <1>1, <1>4, CompensateFacts DEF MayCompensate
  <2> QED BY <2>1, WorkPhaseSet DEF On, BindingPhases, QuietPhases
<1>5. CASE RequarantineRefused \/ Confirm
  <2>1. /\ run.pc \in {"requarantine", "unrelease", "confirm"} /\ UNCHANGED journal /\ ~Running
        /\ \/ run' = Goto("emit") \/ run' = GotoFailed("emit") \/ run' = Goto("recover")
           \/ run' = [Goto("emit") EXCEPT !.compensated = TRUE]
           \/ MayCompensate /\ run' = Compensate(run)
    BY <1>5, PhaseSets DEF RequarantineRefused, Confirm, disk, Running, AtCommand
  <2>2. AtWork BY <2>1, WorkPhaseSet DEF AtWork
  <2>3. CASE MayCompensate /\ run' = Compensate(run) BY <1>4, <2>1, <2>2, <2>3, QuietFits
  <2>4. CASE run' = [Goto("emit") EXCEPT !.compensated = TRUE]
    <3>1. Moved(run') /\ run'.pc = "emit"
      BY <1>1, <2>4, PhaseSet DEF Moved, SameRun, Goto, Runs
    <3> QED BY <1>3, <2>1, <2>2, <3>1, QuietFits
  <2>5. CASE run' = Goto("emit") \/ run' = GotoFailed("emit") \/ run' = Goto("recover")
    <3>1. Moved(run') /\ run'.pc \in {"emit", "recover"}
      BY <1>1, <2>5, GotoFacts, GotoFailedFacts, PhaseSet
    <3> QED BY <1>3, <2>1, <2>2, <3>1, QuietFits
  <2> QED BY <2>1, <2>3, <2>4, <2>5
<1>6. CASE ReleaseEnds \/ UnreleaseEnds \/ RequarantineEnds
  <2>1. PICK p \in {"release", "unrelease", "requarantine"} : Ends(p) /\ p \in CommandPhases
    BY <1>6, PhaseSets DEF ReleaseEnds, UnreleaseEnds, RequarantineEnds
  <2>2. \/ run' = Goto("release") \/ run' = Goto("confirm") \/ run' = GotoFailed("unrelease")
        \/ run' = Goto("unrelease") \/ run' = Goto("emit")
        \/ MayCompensate /\ run' = Compensate(run)
    BY <1>6 DEF ReleaseEnds, UnreleaseEnds, RequarantineEnds
  <2>3. CASE MayCompensate /\ run' = Compensate(run) BY <1>4, <2>1, <2>3, EndOn
  <2>4. CASE ~(MayCompensate /\ run' = Compensate(run))
    <3>1. Moved(run') /\ run'.pc \in {"release", "confirm", "unrelease", "emit"}
      BY <1>1, <2>2, <2>4, GotoFacts, GotoFailedFacts, PhaseSet
    <3> QED BY <1>3, <2>1, <3>1, EndOn
  <2> QED BY <2>3, <2>4
<1> QED BY <1>2, <1>5, <1>6 DEF Releasing

(* A rollback may resolve each journal it found unresolved. *)
LEMMA MarkFits ==
  ASSUME Sound, LinesFit, NEW m \in OperationIds, MarkRecovered(m)
  PROVE  LinesFit'
<1> DEFINE k == OperationRecovered(journal[m], m, run.op, run.snap)
<1>1. /\ run.pc = "recover" /\ m \in run.recovering
      /\ journal' = [journal EXCEPT ![m] = k]
      /\ run' = [run EXCEPT !.recovering = @ \ {m}]
  BY DEF MarkRecovered
<1>2. AtWork /\ run.pc \in WorkPhases BY <1>1, WorkPhaseSet DEF AtWork
<1>3. /\ m # run.op /\ m \in Unresolved /\ journal[m] \in Journals /\ journal[m].ok
      /\ journal[m].binding = run.snap
  BY <1>1, <1>2, WorkFacts DEF LinesFit, Sound, TypeOK
<1>4. journal[m].mutation /\ ~Terminal(journal[m]) BY <1>3 DEF Unresolved, IsUnresolved
<1>5. Bound(journal[m]) BY <1>3, <1>4 DEF Sound, DiskSound, JournalSound
<1>6. k.ok BY <1>3, <1>4, <1>5, RecoveredFits
<1> HIDE DEF k
<1>7. /\ run'.op = run.op /\ run'.kind = run.kind /\ run'.goal = run.goal /\ run'.pc = "recover"
      /\ run'.step = run.step
  BY <1>1, <1>2, AtWorkFacts DEF Runs
<1>8. /\ journal'[run'.op] = journal[run.op] /\ \A o \in OperationIds : journal'[o].ok
  BY <1>1, <1>2, <1>3, <1>6, <1>7, AtWorkFacts DEF LinesFit
<1>9. Running' = Running /\ ReleaseTarget' = ReleaseTarget /\ ~Running
  BY <1>1, <1>7, PhaseSets DEF Running, AtCommand, ReleaseTarget
<1> QED BY <1>1, <1>2, <1>7, <1>8, <1>9
        DEF LinesFit, BeforeRelease, BindingPhases, QuietPhases

(* A report is incomplete only for an operation that bound a snapshot. *)
LEMMA ReportFits ==
  ASSUME Sound, LinesFit, WriteReport
  PROVE  LinesFit'
<1> DEFINE j == journal[run.op]
<1>1. run.pc = "emit" /\ journal' = journal /\ run' = Goto("complete") BY DEF WriteReport
<1>2. AtWork /\ run.pc \in WorkPhases /\ ~Running
  BY <1>1, PhaseSets, WorkPhaseSet DEF AtWork, Running, AtCommand
<1>3. PICK incomplete \in Incomplete :
        report' = [report EXCEPT ![run.op] = IF incomplete THEN "incomplete" ELSE "complete"]
  BY DEF WriteReport
<1>4. report'[run.op] = "incomplete" => incomplete = TRUE
  BY <1>2, <1>3, AtWorkFacts DEF Sound, TypeOK
<1>5. incomplete = TRUE => Bound(j)
  <2>1. incomplete = TRUE => run.mutating \/ Bound(j) BY <1>3 DEF Incomplete
  <2> QED BY <1>2, <2>1, MutatingFacts
<1>6. /\ run'.op = run.op /\ run'.kind = run.kind /\ run'.goal = run.goal
      /\ run'.pc = "complete" /\ run'.step = "ready"
  BY <1>1, <1>2, AtWorkFacts DEF Goto, Runs
<1>7. ~Running' /\ ReleaseTarget' = ReleaseTarget BY <1>6 DEF Running, ReleaseTarget
<1> QED BY <1>1, <1>2, <1>4, <1>5, <1>6, <1>7
        DEF LinesFit, BeforeRelease, BindingPhases, QuietPhases

(* operation-completed. *)
LEMMA CompleteFits ==
  ASSUME Sound, LinesFit, Complete
  PROVE  LinesFit' /\ (report[run.op] = "incomplete" =>
                         journal'[run.op].mutation /\ ~Terminal(journal'[run.op]))
<1> DEFINE j == journal[run.op]
           b == report[run.op] = "incomplete"
           k == OperationCompleted(j, b)
<1>1. run.pc = "complete" /\ journal' = [journal EXCEPT ![run.op] = k] /\ Exit
  BY DEF Complete, Write
<1>2. AtWork /\ ~Running BY <1>1, PhaseSets, WorkPhaseSet DEF AtWork, Running, AtCommand
<1>3. /\ j \in Journals /\ ~Closed(j) /\ j.ok /\ j.pending = NoCommand
      /\ b => Bound(j)
  BY <1>1, <1>2, AtWorkFacts DEF LinesFit
<1>4. b \in BOOLEAN OBVIOUS
<1> HIDE DEF b
<1>5. k.ok /\ (b => k.mutation /\ ~Terminal(k)) BY <1>3, <1>4, CompletedFits
<1> HIDE DEF k
<1>6. journal'[run.op] = k /\ \A o \in OperationIds : journal'[o].ok
  BY <1>1, <1>2, <1>5, AtWorkFacts DEF LinesFit
<1> QED BY <1>1, <1>5, <1>6, EndFits DEF b

(* The lines of every reachable state fit. *)
LEMMA LinesStep ==
  ASSUME OnlyPowerLoss, Sound, LinesFit, [Next]_vars
  PROVE  LinesFit'
<1>1. CASE UNCHANGED vars
  BY <1>1 DEF vars, LinesFit, AtWork, Running, AtCommand, Command, ReleaseTarget
<1>2. ASSUME NEW o \in OperationIds, NEW s \in OperationIds, NEW k \in Kinds,
             AcquireLock(o, k, s)
      PROVE  LinesFit'
  BY <1>2, LockFits
<1>3. CASE Recovering BY <1>3, ScanFits
<1>4. CASE Reserving BY <1>4, NoFault, ReserveFits
<1>5. CASE Commanding
  <2>1. CASE StartCommand BY <2>1, StartFits
  <2>2. ~StartQuery /\ ~FinishQuery BY NoFault DEF FinishQuery, LinesFit
  <2>3. CASE GateEnds \/ StageEnds \/ PersistEnds BY <2>3, StageFits
  <2>4. CASE Bind BY <2>4, BindFits
  <2> QED BY <1>5, <2>1, <2>2, <2>3, <2>4 DEF Commanding
<1>6. CASE Changing BY <1>6, ChangeFits
<1>7. CASE Releasing BY <1>7, AuthorizeFits, ReleaseFits
<1>8. CASE Reporting
  <2>1. ASSUME NEW m \in OperationIds, MarkRecovered(m) PROVE LinesFit' BY <2>1, MarkFits
  <2>2. CASE AllRecovered
    <3>1. run.pc = "recover" /\ UNCHANGED journal /\ run' = Goto("emit") /\ run \in Runs
      BY <2>2 DEF AllRecovered, disk, Sound, TypeOK
    <3>2. AtWork /\ ~Running
      BY <3>1, PhaseSets, WorkPhaseSet DEF AtWork, Running, AtCommand
    <3>3. Moved(run') /\ run'.pc = "emit" BY <3>1, GotoFacts, PhaseSet
    <3>4. On BY <3>3, WorkPhaseSet DEF On, BeforeRelease, BindingPhases, QuietPhases
    <3> QED BY <3>1, <3>2, <3>4, QuietFits
  <2>3. CASE WriteReport BY <2>3, ReportFits
  <2>4. CASE Complete BY <2>4, CompleteFits
  <2>5. ~RecordPersistenceFailure BY DEF RecordPersistenceFailure, LinesFit
  <2> QED BY <1>8, <2>1, <2>2, <2>3, <2>4, <2>5 DEF Reporting
<1>9. CASE PowerLoss BY <1>9, EndFits DEF PowerLoss, LinesFit
<1>10. ~OrphanEnds BY NoFault DEF OrphanEnds, Sound, Orphans
<1> QED BY <1>1, <1>2, <1>3, <1>4, <1>5, <1>6, <1>7, <1>8, <1>9, <1>10, NoFault
        DEF Next, Program

(* In the beginning there is no line. *)
LEMMA InitFits == Init => LinesFit
<1> SUFFICES ASSUME Init PROVE LinesFit OBVIOUS
<1>1. run.pc = "idle" /\ run.step = "ready" BY IdleFacts DEF Init
<1>2. ~AtWork BY <1>1, WorkPhaseSet DEF AtWork, ReservePhases
<1>3. ASSUME NEW o \in OperationIds PROVE journal[o].ok = TRUE
  BY DEF Init, NoJournal
<1> QED BY <1>1, <1>2, <1>3 DEF LinesFit

(* The next command always finds every marked journal readable, whatever number *)
(* of operations and recoveries power losses stopped.                           *)
THEOREM AlwaysReadable == ASSUME OnlyPowerLoss PROVE Spec => []AuthorityReadable
<1>1. Init => LinesFit BY InitFits
<1>2. IInv /\ LinesFit /\ [Next]_vars => LinesFit' BY LinesStep DEF IInv
<1>3. IInv /\ LinesFit => AuthorityReadable
  BY DEF IInv, Sound, TypeOK, LinesFit, AuthorityReadable, Readable
<1> QED BY <1>1, <1>2, <1>3, Invariance, PTL DEF Spec

-----------------------------------------------------------------------------
(* Whose launchers they are. *)

(* A line in its own journal changes nothing about the others. *)
LEMMA OthersStay ==
  ASSUME Sound, NEW k, journal' = [journal EXCEPT ![run.op] = k], marker' = marker
  PROVE  Unresolved' \ {run.op} = Unresolved \ {run.op}
<1>1. \A m \in marker : m # run.op => journal'[m] = journal[m] BY DEF Sound, TypeOK
<1> QED BY <1>1 DEF Unresolved, IsUnresolved

(* An operation with host commands answers for the launchers itself. *)
LEMMA OwnAnswer ==
  ASSUME Sound, LinesFit, run.pc \in WorkPhases, run.mutating
  PROVE  run.op \in Unresolved
BY WorkFacts, MutatingFacts DEF Unresolved, IsUnresolved

(* The launchers follow commands that may change the host only. *)
LEMMA LaunchersMove ==
  ASSUME Sound, launchers' \in LaunchersAfter PROVE launchers' = launchers \/ run.mutating
<1>1. CASE Running /\ run.pc \in {"release", "packages"} \cup Quarantines
  BY <1>1, PhaseSets DEF Sound, PhaseSound, Running, Quarantines
<1>2. CASE ~(Running /\ run.pc \in {"release", "packages"} \cup Quarantines)
  BY <1>2 DEF LaunchersAfter
<1> QED BY <1>1, <1>2

(* The operation goes on. *)
LEMMA AnswersOn ==
  ASSUME LaunchersAnswered, AtWork, AtWork', run'.op = run.op, run'.kind = run.kind,
         Unresolved' \ {run.op} = Unresolved \ {run.op},
         launchers' = launchers \/ run.mutating, run.mutating => run'.mutating,
         run'.pc # "complete", run'.pc = "unrelease" => run'.failed,
         run'.pc = "emit" => \/ run'.failed /\ ~run'.compensated
                             \/ launchers' = "released" \/ ~run.mutating
  PROVE  LaunchersAnswered'
<1>1. run.pc # "idle" BY WorkPhaseSet DEF AtWork, ReservePhases
<1>2. run'.kind # "lock" BY <1>1 DEF LaunchersAnswered
<1>3. ~run.mutating => OthersAnswer' BY DEF LaunchersAnswered, OthersAnswer
<1>4. launchers' = "released" => OthersAnswer' BY DEF OthersAnswer
<1> QED BY <1>2, <1>3, <1>4 DEF LaunchersAnswered

(* The process ends. *)
LEMMA AnswersEnd ==
  ASSUME LaunchersAnswered, AtWork, Exit, Unresolved \ {run.op} \subseteq Unresolved',
         launchers' = launchers \/ run.mutating, OthersAnswer \/ run.op \in Unresolved',
         run.mutating => run.op \in Unresolved' \/ launchers' = launchers
  PROVE  LaunchersAnswered'
<1>1. run'.pc = "idle" BY IdleFacts DEF Exit
<1>2. ~AtWork' BY <1>1, WorkPhaseSet DEF AtWork, ReservePhases
<1>3. launchers' # "released" => Unresolved' # {}
  BY DEF OthersAnswer, LaunchersAnswered
<1> QED BY <1>1, <1>2, <1>3 DEF LaunchersAnswered

(* From the lock to the reservation. *)
LEMMA AnswersOutside ==
  ASSUME LaunchersAnswered, ~AtWork, ~AtWork', launchers' = launchers, Unresolved' = Unresolved,
         run'.pc # "idle" => run'.kind # "lock",
         run'.pc \notin {"unrelease", "emit", "complete"}
  PROVE  LaunchersAnswered'
BY DEF LaunchersAnswered

LEMMA ScanAnswers ==
  ASSUME Sound, LaunchersAnswered, Recovering
  PROVE  LaunchersAnswered'
<1>1. run \in Runs /\ run.pc \in {"scan", "retire"} /\ launchers' = launchers /\ journal' = journal
  BY DEF Sound, TypeOK, Recovering, ScanRefuses, Scan, Retire, Admit, Refuse, disk, machine
<1>2. run'.pc \in {"idle", "retire", "reserve"} /\ (run'.pc # "idle" => run'.kind = run.kind)
  <2>1. CASE ScanRefuses \/ Refuse BY <2>1, IdleFacts DEF ScanRefuses, Refuse, Exit
  <2>2. CASE Scan BY <1>1, <2>2 DEF Scan, Runs
  <2>3. ASSUME NEW m \in OperationIds, Retire(m) PROVE run'.pc = "retire" /\ run'.kind = run.kind
    BY <1>1, <2>3 DEF Retire, Runs
  <2>4. CASE Admit BY <1>1, <2>4 DEF Admit, Goto, Runs
  <2> QED BY <2>1, <2>2, <2>3, <2>4 DEF Recovering
<1>3. Unresolved' = Unresolved
  <2>1. CASE ScanRefuses \/ Scan \/ Admit \/ Refuse
    BY <2>1 DEF ScanRefuses, Scan, Admit, Refuse, disk, Unresolved, IsUnresolved
  <2>2. ASSUME NEW m \in OperationIds, Retire(m) PROVE Unresolved' = Unresolved
    <3>1. m \notin Unresolved BY <2>2 DEF Retire, Sound, ScanSound
    <3>2. marker' = marker \ {m} BY <2>2 DEF Retire
    <3> QED BY <1>1, <3>1, <3>2 DEF Unresolved, IsUnresolved
  <2> QED BY <2>1, <2>2 DEF Recovering
<1>4. ~AtWork /\ ~AtWork' BY <1>1, <1>2, WorkPhaseSet DEF AtWork, ReservePhases
<1> QED BY <1>1, <1>2, <1>3, <1>4, AnswersOutside DEF LaunchersAnswered

LEMMA LockAnswers ==
  ASSUME "lock" \notin Kinds, LaunchersAnswered,
         NEW o \in OperationIds, NEW s \in OperationIds, NEW k \in Kinds, AcquireLock(o, k, s)
  PROVE  LaunchersAnswered'
<1>1. run.pc = "idle" /\ run'.pc = "scan" /\ run'.kind = k
  BY DEF AcquireLock, IdleRun
<1>2. launchers' = launchers /\ Unresolved' = Unresolved
  BY DEF AcquireLock, disk, machine, Unresolved, IsUnresolved
<1>3. ~AtWork /\ ~AtWork' BY <1>1, WorkPhaseSet DEF AtWork, ReservePhases
<1> QED BY <1>1, <1>2, <1>3, AnswersOutside

(* The reservation adds an operation that has not touched the launchers. *)
LEMMA ReserveAnswers ==
  ASSUME Sound, LinesFit, LaunchersAnswered, Reserving, ~ReserveFails
  PROVE  LaunchersAnswered'
<1>1. /\ run \in Runs /\ journal \in [OperationIds -> Journals] /\ launchers' = launchers
      /\ run.pc # "idle" => run.op \in OperationIds /\ run.kind # "lock"
  BY DEF Sound, TypeOK, RunIdentified, LaunchersAnswered, Reserving, Reserve, CreateMarker,
         Dispatch, RollbackLoadFails, RollbackPreflight, machine
<1>2. run.pc \in {"reserve", "mark", "begin"} => ~run.mutating /\ run.op \notin Unresolved
  <2> SUFFICES ASSUME run.pc \in {"reserve", "mark", "begin"}
               PROVE  ~run.mutating /\ run.op \notin Unresolved
    OBVIOUS
  <2>1. ~run.mutating
    BY PhaseSets DEF Sound, ScanSound, ScanPhases, PhaseSound, BoundPhases, EndPhases
  <2>2. run.op \notin Unresolved
    BY Unwritten, NoJournalFacts DEF Unresolved, IsUnresolved
  <2> QED BY <2>1, <2>2
<1>3. CASE Reserve \/ CreateMarker
  <2>1. /\ run.pc \in {"reserve", "mark"} /\ run'.op = run.op /\ run'.kind = run.kind
        /\ run'.pc \in {"mark", "begin"} /\ ~run'.mutating
    BY <1>1, <1>2, <1>3 DEF Reserve, CreateMarker, Goto, Runs
  <2>2. Unresolved' = Unresolved
    <3>1. CASE Reserve
      <4>1. /\ \A m \in OperationIds : m # run.op => journal'[m] = journal[m]
            /\ ~journal'[run.op].mutation /\ marker' = marker /\ marker \subseteq OperationIds
        BY <1>1, <2>1, <3>1, NoJournalFacts DEF Reserve, Write, Sound, TypeOK
      <4> QED BY <1>2, <2>1, <4>1 DEF Unresolved, IsUnresolved
    <3>2. CASE CreateMarker
      <4>1. journal' = journal /\ marker' = marker \cup {run.op} BY <3>2 DEF CreateMarker
      <4>2. ~journal[run.op].mutation BY <2>1, Unwritten, NoJournalFacts
      <4> QED BY <4>1, <4>2 DEF Unresolved, IsUnresolved
    <3> QED BY <1>3, <3>1, <3>2
  <2>3. OthersAnswer'
    <3>1. launchers # "released" => Unresolved \ {run.op} # {}
      <4>1. CASE AtWork BY <1>2, <2>1, <4>1 DEF LaunchersAnswered, OthersAnswer
      <4>2. CASE ~AtWork BY <1>2, <2>1, <4>2 DEF LaunchersAnswered
      <4> QED BY <4>1, <4>2
    <3> QED BY <1>1, <2>1, <2>2, <3>1 DEF OthersAnswer
  <2>4. AtWork' BY <2>1 DEF AtWork, ReservePhases
  <2> QED BY <1>1, <2>1, <2>3, <2>4 DEF LaunchersAnswered
<1>4. CASE Dispatch \/ RollbackPreflight
  <2>1. /\ run.pc = "begin" /\ Unresolved' = Unresolved
        /\ \/ run' = Goto("bind") \/ run' = Goto("stage")
           \/ run' = Goto("gate") \/ run' = Goto("emit") \/ run' = GotoFailed("emit")
    BY <1>4 DEF Dispatch, RollbackPreflight, disk, Unresolved, IsUnresolved
  <2>2. Moved(run') /\ run'.pc \in {"bind", "stage", "gate", "emit"}
    BY <1>1, <2>1, GotoFacts, GotoFailedFacts, PhaseSet
  <2>3. AtWork /\ AtWork' BY <2>1, <2>2, WorkPhaseSet DEF AtWork, ReservePhases
  <2> QED BY <1>1, <1>2, <2>1, <2>2, <2>3, AnswersOn DEF Moved, SameRun
<1>5. CASE RollbackLoadFails
  <2>1. run.pc = "begin" /\ Exit /\ Unresolved' = Unresolved
    BY <1>5 DEF RollbackLoadFails, disk, Unresolved, IsUnresolved
  <2>2. AtWork BY <2>1 DEF AtWork, ReservePhases
  <2>3. OthersAnswer BY <1>2, <2>1, <2>2 DEF LaunchersAnswered
  <2> QED BY <1>1, <1>2, <2>1, <2>2, <2>3, AnswersEnd
<1> QED BY <1>3, <1>4, <1>5 DEF Reserving

(* The end of a command may change the launchers only if it is one of the host's. *)
LEMMA EndAnswers ==
  ASSUME Sound, LinesFit, LaunchersAnswered, NEW p \in CommandPhases, Ends(p),
         launchers' = launchers \/ run.mutating, Moved(run'), run'.pc \in WorkPhases \ {"complete"},
         run'.pc = "unrelease" => run'.failed,
         run'.pc = "emit" => (run'.failed /\ ~run'.compensated) \/ ~run.mutating
  PROVE  LaunchersAnswered'
<1>1. /\ AtWork /\ Unresolved' \ {run.op} = Unresolved \ {run.op}
  BY FinishFits, OthersStay DEF Ends
<1>2. AtWork' BY DEF AtWork
<1> QED BY <1>1, <1>2, AnswersOn DEF Moved, SameRun

(* So does a step that writes no line. *)
LEMMA QuietAnswers ==
  ASSUME LaunchersAnswered, run.pc \in WorkPhases, UNCHANGED <<disk, machine>>,
         Moved(run'), run'.pc \in WorkPhases \ {"complete"},
         run'.pc = "unrelease" => run'.failed,
         run'.pc = "emit" => \/ run'.failed /\ ~run'.compensated
                             \/ launchers = "released" \/ ~run.mutating
  PROVE  LaunchersAnswered'
<1>1. AtWork /\ AtWork' BY DEF AtWork
<1>2. launchers' = launchers /\ Unresolved' = Unresolved
  BY DEF disk, machine, Unresolved, IsUnresolved
<1> QED BY <1>1, <1>2, AnswersOn DEF Moved, SameRun

(* Only the last phases know of a compensation that succeeded, and what does *)
(* not change the host comes before what does.                               *)
LEMMA PhaseDuties ==
  ASSUME Sound
  PROVE  /\ run.pc \notin {"emit", "complete", "persistenceFailed"} => ~run.compensated
         /\ run.pc \in {"gate", "stage", "persist", "bind"} => ~run.mutating
         /\ run.pc = "requarantine" => run.failed
BY PhaseSets DEF Sound, PhaseSound, BoundPhases, EndPhases

LEMMA CommandAnswers ==
  ASSUME Sound, LinesFit, LaunchersAnswered, Commanding, ~StartQuery, ~FinishQuery
  PROVE  LaunchersAnswered'
<1>1. run \in Runs BY DEF Sound, TypeOK
<1>2. CASE StartCommand
  <2>1. /\ run.pc \in CommandPhases /\ marker' = marker /\ launchers' = launchers
        /\ journal' = [journal EXCEPT ![run.op] = CommandStarted(journal[run.op], Command)]
        /\ run'.pc = run.pc /\ run'.op = run.op /\ run'.kind = run.kind
        /\ run'.failed = run.failed /\ (run.mutating => run'.mutating)
    BY <1>1, <1>2 DEF StartCommand, AtCommand, Write, machine, Runs
  <2>2. run.pc \notin {"emit", "complete"} /\ run.pc \in WorkPhases
    BY <2>1, PhaseSets DEF WorkPhases
  <2>3. AtWork /\ AtWork' BY <2>1, <2>2 DEF AtWork
  <2>4. Unresolved' \ {run.op} = Unresolved \ {run.op} BY <2>1, OthersStay
  <2>5. run.pc = "unrelease" => run'.failed BY <2>1 DEF LaunchersAnswered
  <2> QED BY <2>1, <2>2, <2>3, <2>4, <2>5, AnswersOn
<1>3. CASE GateEnds \/ StageEnds \/ PersistEnds
  <2>1. PICK p \in {"gate", "stage", "persist"} : Ends(p) /\ p \in CommandPhases
    BY <1>3, PhaseSets DEF GateEnds, StageEnds, PersistEnds
  <2>2. launchers' = launchers BY <1>3 DEF GateEnds, StageEnds, PersistEnds
  <2>3. run.pc = p /\ ~run.mutating BY <2>1, PhaseDuties DEF Ends
  <2>4. \/ Exit \/ run' = GotoFailed("emit")
        \/ run' = Goto("stage") \/ run' = Goto("persist") \/ run' = Goto("bind")
    BY <1>3 DEF GateEnds, StageEnds, PersistEnds, SnapshotFails, Exit
  <2>5. CASE Exit
    <3>1. AtWork /\ Unresolved' \ {run.op} = Unresolved \ {run.op}
      BY <2>1, FinishFits, OthersStay DEF Ends
    <3>2. OthersAnswer BY <2>3, <3>1 DEF LaunchersAnswered
    <3> QED BY <2>2, <2>3, <2>5, <3>1, <3>2, AnswersEnd
  <2>6. CASE ~Exit
    <3>1. Moved(run') /\ run'.pc \in {"emit", "stage", "persist", "bind"}
      BY <1>1, <2>4, <2>6, GotoFacts, GotoFailedFacts, PhaseSet
    <3> QED BY <2>1, <2>2, <2>3, <3>1, WorkPhaseSet, EndAnswers
  <2> QED BY <2>5, <2>6
<1>4. CASE Bind
  <2>1. /\ run.pc = "bind" /\ marker' = marker /\ launchers' = launchers
        /\ journal' = [journal EXCEPT ![run.op] = SnapshotPersisted(journal[run.op], run.snap)]
        /\ run' = Goto("emit") \/ run' = Goto("quiesce") \/ run' = GotoFailed("emit")
    BY <1>4 DEF Bind, Write, machine
  <2>2. Moved(run') /\ run'.pc \in {"emit", "quiesce"} /\ ~run.mutating
    BY <1>1, <2>1, GotoFacts, GotoFailedFacts, PhaseSet, PhaseDuties
  <2>3. AtWork /\ AtWork' BY <2>1, <2>2, WorkPhaseSet DEF AtWork
  <2>4. Unresolved' \ {run.op} = Unresolved \ {run.op} BY <2>1, OthersStay
  <2> QED BY <2>1, <2>2, <2>3, <2>4, AnswersOn DEF Moved, SameRun
<1> QED BY <1>2, <1>3, <1>4 DEF Commanding

LEMMA ChangeAnswers ==
  ASSUME Sound, LinesFit, LaunchersAnswered, Changing
  PROVE  LaunchersAnswered'
<1>1. run \in Runs /\ (run.pc \notin {"emit", "complete", "persistenceFailed"} => ~run.compensated)
  BY PhaseDuties DEF Sound, TypeOK
<1>2. CASE QuiesceRefused \/ VerifyCore
  <2>1. /\ run.pc \in {"quiesce", "checkpoint", "verify"} /\ UNCHANGED <<disk, machine>>
        /\ run' = PhaseFailed \/ run' = Goto("authorize")
    BY <1>2 DEF QuiesceRefused, VerifyCore
  <2>2. /\ Moved(run') /\ run'.pc \in {"quiesce", "emit", "requarantine", "authorize"}
        /\ run'.pc = "emit" => run'.failed /\ ~run'.compensated
    BY <1>1, <2>1, PhaseFailedFacts, GotoFacts, PhaseSet
  <2> QED BY <2>1, <2>2, WorkPhaseSet, QuietAnswers
<1>3. CASE HostEnds
  <2>1. PICK p \in HostEndPhases : Ends(p) /\ p \in CommandPhases /\ GoesOn
    BY <1>3, HostEndsFacts
  <2>2. run.pc = p BY <2>1 DEF Ends
  <2>3. launchers' = launchers \/ run.mutating
    <3>1. CASE run.pc \in HostPhases
      <4>1. Running /\ run.pc \in HostPhases /\ run.step # "ready"
        BY <2>1, <2>2, <3>1, PhaseSets DEF Ends, Running, AtCommand
      <4> QED BY <4>1 DEF Sound, PhaseSound
    <3>2. CASE run.pc \notin HostPhases
      <4>1. run.pc \in {"probe", "recheck"} BY <2>1, <2>2, <3>2, PhaseSets DEF HostEndPhases
      <4> QED BY <1>3, <4>1
          DEF HostEnds, QuiesceEnds, ProbeEnds, PackagesEnds, CheckpointEnds, RecheckEnds,
              MutateEnds, Ends
    <3> QED BY <3>1, <3>2
  <2>5. /\ Moved(run')
        /\ run'.pc \in HostEndPhases \cup {"emit", "requarantine", "verify"}
        /\ run'.pc = "emit" => run'.failed /\ ~run'.compensated
    BY <1>1, <2>1, <2>2, PhaseFailedFacts, GotoFacts, PhaseSet DEF GoesOn, HostEndPhases
  <2> QED BY <2>1, <2>3, <2>5, WorkPhaseSet, EndAnswers DEF HostEndPhases
<1> QED BY <1>2, <1>3 DEF Changing, HostEnds

LEMMA ReleaseAnswers ==
  ASSUME IInv, LinesFit, LaunchersAnswered, Releasing
  PROVE  LaunchersAnswered'
<1>1. /\ Sound /\ run \in Runs /\ run.pc # "abort"
      /\ run.pc \notin {"emit", "complete", "persistenceFailed"} => ~run.compensated
  BY PhaseDuties DEF IInv, Sound, TypeOK, LinesFit
<1>2. ~AbortEnds /\ ~AbortRefused BY <1>1 DEF AbortEnds, AbortRefused, Ends
<1>3. run.pc # "idle" => run.kind # "lock" BY DEF LaunchersAnswered
<1>4. CASE Authorize
  <2>1. /\ run.pc = "authorize" /\ marker' = marker /\ launchers' = launchers
        /\ journal' = [journal EXCEPT ![run.op] =
                         ReleaseAuthorized(journal[run.op], ReleaseTarget, run.snap)]
        /\ run' = Goto("release")
    BY <1>4 DEF Authorize, Write, machine
  <2>2. Moved(run') /\ run'.pc = "release" BY <1>1, <2>1, GotoFacts, PhaseSet
  <2>3. AtWork /\ AtWork' BY <2>1, <2>2, WorkPhaseSet DEF AtWork
  <2>4. Unresolved' \ {run.op} = Unresolved \ {run.op} BY <1>1, <2>1, OthersStay
  <2> QED BY <2>1, <2>2, <2>3, <2>4, AnswersOn DEF Moved, SameRun
<1>5. CASE RequarantineRefused
  <2>1. /\ run.pc \in {"requarantine", "unrelease"} /\ UNCHANGED <<disk, machine>>
        /\ run' = Goto("emit") \/ (MayCompensate /\ run' = Compensate(run))
    BY <1>5 DEF RequarantineRefused
  <2>2. run.failed BY <1>1, <2>1, PhaseDuties DEF LaunchersAnswered
  <2>3. /\ Moved(run') /\ run'.pc \in {"emit", "quiesce"}
        /\ run'.failed /\ ~run'.compensated
    BY <1>1, <2>1, <2>2, GotoFacts, CompensateFacts, PhaseSet
  <2> QED BY <2>1, <2>3, WorkPhaseSet, QuietAnswers
<1>6. CASE Confirm
  <2>1. /\ run.pc = "confirm" /\ UNCHANGED <<disk, machine>>
        /\ \/ run' = Goto("emit") \/ run' = GotoFailed("emit") \/ run' = Goto("recover")
           \/ run' = [Goto("emit") EXCEPT !.compensated = TRUE]
           \/ MayCompensate /\ run' = Compensate(run)
    BY <1>6 DEF Confirm
  <2>2. launchers = "released" BY <2>1 DEF IInv, ReleaseSound
  <2>3. Moved(run') /\ run'.pc \in {"emit", "recover", "quiesce"}
    <3>1. CASE run' = [Goto("emit") EXCEPT !.compensated = TRUE]
      BY <1>1, <3>1, PhaseSet DEF Moved, SameRun, Goto, Runs
    <3>2. CASE run' # [Goto("emit") EXCEPT !.compensated = TRUE]
      BY <1>1, <2>1, <3>2, GotoFacts, GotoFailedFacts, CompensateFacts, PhaseSet
    <3> QED BY <3>1, <3>2
  <2> QED BY <2>1, <2>2, <2>3, WorkPhaseSet, QuietAnswers
<1>7. CASE ReleaseEnds \/ UnreleaseEnds \/ RequarantineEnds
  <2>1. PICK p \in {"release", "unrelease", "requarantine"} :
          Ends(p) /\ p \in CommandPhases /\ p \in HostPhases
    BY <1>7, PhaseSets DEF ReleaseEnds, UnreleaseEnds, RequarantineEnds
  <2>2. run.pc = p /\ run.mutating
    BY <1>1, <2>1 DEF Ends, Sound, PhaseSound
  <2>3. CASE ReleaseEnds
    <3>1. run' = Goto("release") \/ run' = Goto("confirm") \/ run' = GotoFailed("unrelease")
      BY <1>3, <2>3, WorkPhaseSet DEF ReleaseEnds, Ends
    <3>2. /\ Moved(run') /\ run'.pc \in {"release", "confirm", "unrelease"}
          /\ run'.pc = "unrelease" => run'.failed
      BY <1>1, <3>1, GotoFacts, GotoFailedFacts, PhaseSet
    <3> QED BY <1>1, <2>1, <2>2, <3>2, WorkPhaseSet, EndAnswers
  <2>4. CASE UnreleaseEnds \/ RequarantineEnds
    <3>1. /\ run.pc \in {"unrelease", "requarantine"}
          /\ run' = Goto("emit") \/ (MayCompensate /\ run' = Compensate(run))
      BY <2>4 DEF UnreleaseEnds, RequarantineEnds, Ends
    <3>2. run.failed BY <1>1, <3>1, PhaseDuties DEF LaunchersAnswered
    <3>3. /\ Moved(run') /\ run'.pc \in {"emit", "quiesce"}
          /\ run'.failed /\ ~run'.compensated
      BY <1>1, <3>1, <3>2, GotoFacts, CompensateFacts, PhaseSet
    <3> QED BY <1>1, <2>1, <2>2, <3>3, WorkPhaseSet, EndAnswers
  <2> QED BY <1>7, <2>3, <2>4
<1> QED BY <1>2, <1>4, <1>5, <1>6, <1>7 DEF Releasing

(* The reports: an operation that may end well leaves nothing to answer for,   *)
(* and any other stays unresolved.                                             *)
LEMMA ReportAnswers ==
  ASSUME IInv, LinesFit, LaunchersAnswered, Reporting
  PROVE  LaunchersAnswered'
<1>1. Sound /\ run \in Runs /\ report \in [OperationIds -> Reports]
  BY DEF IInv, Sound, TypeOK, Reports
<1>2. ASSUME NEW m \in OperationIds, MarkRecovered(m) PROVE LaunchersAnswered'
  <2>1. /\ run.pc = "recover" /\ launchers' = launchers
        /\ run' = [run EXCEPT !.recovering = @ \ {m}]
    BY <1>2 DEF MarkRecovered, machine
  <2>2. launchers' = "released" BY <2>1 DEF IInv, ReleaseSound
  <2>3. run'.pc = "recover" /\ run'.kind = run.kind BY <1>1, <2>1 DEF Runs
  <2> QED BY <2>1, <2>2, <2>3 DEF LaunchersAnswered, OthersAnswer
<1>3. CASE AllRecovered
  <2>1. run.pc = "recover" /\ UNCHANGED <<disk, machine>> /\ run' = Goto("emit")
    BY <1>3 DEF AllRecovered
  <2>2. launchers = "released" BY <2>1 DEF IInv, ReleaseSound
  <2>3. Moved(run') /\ run'.pc = "emit" BY <1>1, <2>1, GotoFacts, PhaseSet
  <2> QED BY <2>1, <2>2, <2>3, WorkPhaseSet, QuietAnswers
<1>4. CASE WriteReport
  <2>1. run.pc = "emit" /\ launchers' = launchers /\ run' = Goto("complete")
    BY <1>4 DEF WriteReport, machine
  <2>2. Unresolved' = Unresolved
    BY <1>4 DEF WriteReport, Unresolved, IsUnresolved
  <2>3. Moved(run') /\ run'.pc = "complete" BY <1>1, <2>1, GotoFacts, PhaseSet
  <2>4. /\ AtWork /\ run.op \in OperationIds /\ run.kind # "lock"
    BY <1>1, <2>1, WorkPhaseSet DEF AtWork, LaunchersAnswered, Sound, RunIdentified
  <2>5. PICK incomplete \in Incomplete :
          report' = [report EXCEPT ![run.op] = IF incomplete THEN "incomplete" ELSE "complete"]
    BY <1>4 DEF WriteReport
  <2>6. report'[run.op] # "incomplete" => incomplete # TRUE BY <1>1, <2>4, <2>5
  <2>7. incomplete # TRUE => ~run.failed \/ run.compensated \/ ~run.mutating
    BY <2>5 DEF Incomplete
  <2>8. report'[run.op] # "incomplete" => OthersAnswer
    BY <2>1, <2>4, <2>6, <2>7 DEF LaunchersAnswered
  <2>9. AtWork' BY <2>3, WorkPhaseSet DEF AtWork
  <2>10. OthersAnswer' = OthersAnswer /\ (run'.mutating = run.mutating) /\ run'.op = run.op
         /\ run'.kind = run.kind
    BY <2>1, <2>2, <2>3 DEF OthersAnswer, Moved, SameRun
  <2> QED BY <2>3, <2>4, <2>8, <2>9, <2>10 DEF LaunchersAnswered
<1>5. CASE Complete
  <2>1. /\ run.pc = "complete" /\ marker' = marker /\ launchers' = launchers /\ Exit
        /\ journal' = [journal EXCEPT ![run.op] =
                         OperationCompleted(@, report[run.op] = "incomplete")]
    BY <1>5 DEF Complete, Write, machine
  <2>2. AtWork /\ run.op \in marker
    BY <1>1, <2>1, WorkPhaseSet, WorkFacts DEF AtWork
  <2>3. report[run.op] = "incomplete" => run.op \in Unresolved'
    BY <1>1, <1>5, <2>1, <2>2, CompleteFits DEF Unresolved, IsUnresolved
  <2>4. Unresolved' \ {run.op} = Unresolved \ {run.op} BY <1>1, <2>1, OthersStay
  <2>5. OthersAnswer \/ run.op \in Unresolved' BY <2>1, <2>3 DEF LaunchersAnswered
  <2> QED BY <2>1, <2>2, <2>4, <2>5, AnswersEnd
<1>6. ~RecordPersistenceFailure BY DEF RecordPersistenceFailure, LinesFit
<1> QED BY <1>2, <1>3, <1>4, <1>5, <1>6 DEF Reporting

(* A power loss leaves the launchers to the operation, or as they were. *)
LEMMA PowerLossAnswers ==
  ASSUME Sound, LinesFit, LaunchersAnswered, PowerLoss
  PROVE  LaunchersAnswered'
<1>1. /\ run.pc # "idle" /\ Exit /\ launchers' \in LaunchersAfter
      /\ Unresolved' = Unresolved
  BY DEF PowerLoss, Unresolved, IsUnresolved
<1>2. launchers' = launchers \/ run.mutating BY <1>1, LaunchersMove
<1>3. CASE AtWork
  <2>1. run.mutating => run.op \in Unresolved
    <3>1. run.mutating => run.pc \in WorkPhases
      BY PhaseSets, WorkPhaseSet DEF Sound, PhaseSound, BoundPhases, EndPhases
    <3> QED BY <3>1, OwnAnswer
  <2>2. ~run.mutating => OthersAnswer BY <1>3 DEF LaunchersAnswered
  <2> QED BY <1>1, <1>2, <1>3, <2>1, <2>2, AnswersEnd
<1>4. CASE ~AtWork
  <2>1. ~run.mutating
    BY <1>4, PhaseSets DEF Sound, PhaseSound, BoundPhases, EndPhases, AtWork, WorkPhases, OtherPhases
  <2>2. run'.pc = "idle" BY <1>1, IdleFacts DEF Exit
  <2>3. ~AtWork' BY <2>2, WorkPhaseSet DEF AtWork, ReservePhases
  <2> QED BY <1>1, <1>2, <1>4, <2>1, <2>2, <2>3, AnswersOutside
<1> QED BY <1>3, <1>4

(* Somebody answers for the launchers in every reachable state. *)
LEMMA AnswerStep ==
  ASSUME OnlyPowerLoss, "lock" \notin Kinds, IInv, LinesFit, LaunchersAnswered, [Next]_vars
  PROVE  LaunchersAnswered'
<1>1. CASE UNCHANGED vars
  BY <1>1 DEF vars, LaunchersAnswered, OthersAnswer, AtWork, Unresolved, IsUnresolved
<1>2. Sound BY DEF IInv
<1>3. ASSUME NEW o \in OperationIds, NEW s \in OperationIds, NEW k \in Kinds,
             AcquireLock(o, k, s)
      PROVE  LaunchersAnswered'
  BY <1>3, LockAnswers
<1>4. Recovering => LaunchersAnswered' BY <1>2, ScanAnswers
<1>5. Reserving => LaunchersAnswered' BY <1>2, NoFault, ReserveAnswers
<1>6. Commanding => LaunchersAnswered'
  <2>1. ~FinishQuery BY DEF FinishQuery, LinesFit
  <2> QED BY <1>2, <2>1, NoFault, CommandAnswers
<1>7. Changing => LaunchersAnswered' BY <1>2, ChangeAnswers
<1>8. Releasing => LaunchersAnswered' BY ReleaseAnswers
<1>9. Reporting => LaunchersAnswered' BY ReportAnswers
<1>10. PowerLoss => LaunchersAnswered' BY <1>2, PowerLossAnswers
<1>11. ~OrphanEnds BY <1>2, NoFault DEF OrphanEnds, Sound, Orphans
<1> QED BY <1>1, <1>3, <1>4, <1>5, <1>6, <1>7, <1>8, <1>9, <1>10, <1>11, NoFault
        DEF Next, Program

LEMMA InitAnswers == "lock" \notin Kinds /\ Init => LaunchersAnswered
<1> SUFFICES ASSUME Init PROVE LaunchersAnswered OBVIOUS
<1>1. run.pc = "idle" /\ launchers = "released" BY IdleFacts DEF Init
<1> QED BY <1>1 DEF LaunchersAnswered, OthersAnswer

(* Launchers left masked while nothing runs belong to an operation that the    *)
(* next command finds unresolved, when `lock` is not used: its exit code 0 may  *)
(* hide a release that failed.                                                 *)
THEOREM ClaimedQuarantine ==
  ASSUME OnlyPowerLoss, "lock" \notin Kinds PROVE Spec => []QuarantineIsClaimed
<1>1. Init => LinesFit /\ LaunchersAnswered BY InitFits, InitAnswers
<1>2. IInv /\ LinesFit /\ LaunchersAnswered /\ [Next]_vars => LinesFit' /\ LaunchersAnswered'
  BY LinesStep, AnswerStep DEF IInv
<1>3. LaunchersAnswered => QuarantineIsClaimed
  <2> SUFFICES ASSUME LaunchersAnswered, run.pc = "idle", launchers # "released"
               PROVE  \E m \in marker : ~journal[m].ok \/ m \in Unresolved
    BY DEF QuarantineIsClaimed
  <2>1. ~AtWork BY WorkPhaseSet DEF AtWork, ReservePhases
  <2>2. Unresolved # {} BY <2>1 DEF LaunchersAnswered
  <2> QED BY <2>2 DEF Unresolved
<1> QED BY <1>1, <1>2, <1>3, Invariance, PTL DEF Spec
=============================================================================
