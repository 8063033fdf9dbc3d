---------------------------- MODULE RecoveryProofs ----------------------------
(*****************************************************************************)
(* Proofs about Recovery.tla for any set of operations and any commands.     *)
(* Whatever the faults, SIGKILL included, IInv is an invariant of Spec and   *)
(* with it TypeOK and OneAuthority, and every step keeps to EvidenceResolves. *)
(* What is said of the host itself holds where no command outlives its       *)
(* process (Alone).                                                          *)
(*****************************************************************************)
EXTENDS RecoverySafety, TLAPS

USE DEF Broken, OnTarget    \* what Sound says of the host is void without Alone

(* What a snapshot records is never "absent", and always a host. *)
LEMMA RecordableHosts ==
  /\ Recordable \subseteq Hosts /\ Contents \subseteq Recordable
  /\ "absent" \notin Recordable /\ \A h \in Hosts : ~Alone \/ h # "partial" => h \in Recordable
  /\ Alone => "partial" \notin Recordable
BY HostNamesAssumption DEF Recordable, Hosts, Contents

(* The enumerated sets of phases, once, so that no proof expands CommandOf. *)
LEMMA PhaseSets ==
  /\ CommandPhases = {"gate", "stage", "persist", "quiesce", "probe", "packages",
                      "checkpoint", "recheck", "mutate",
                      "release", "unrelease", "requarantine", "abort"}
  /\ HostPhases = {"quiesce", "packages", "checkpoint", "mutate", "release", "unrelease",
                   "requarantine", "abort"}
  /\ \A p \in CommandPhases : CommandOf[p] \in Commands
  /\ CommandOf["persist"] = "persist-rollback-snapshot"
  /\ CommandOf["stage"] = "stage-package-payloads"
  /\ CommandOf["gate"] = "probe" /\ CommandOf["probe"] = "probe"
  /\ \A p \in HostPhases : CommandOf[p] = "host-command"
  /\ \A p \in CommandPhases \ HostPhases : CommandOf[p] # "host-command"
  BY DEF CommandPhases, HostPhases, CommandOf, Commands, PrivateCommands, ReadCommands

(* The phases between the reservation and the report, enumerated. *)
LEMMA WorkPhaseSet ==
  WorkPhases = {"gate", "stage", "persist", "quiesce", "probe", "packages",
                "checkpoint", "recheck", "mutate", "release", "unrelease", "requarantine", "abort",
                "bind", "verify", "authorize", "confirm", "recover", "emit",
                "complete", "persistenceFailed"}
  BY PhaseSets DEF WorkPhases, OtherPhases

(* All phases of the process, enumerated. *)
LEMMA PhaseSet ==
  Phases = {"idle", "scan", "retire", "reserve", "mark", "begin", "gate", "stage",
            "persist", "quiesce", "probe", "packages", "checkpoint", "recheck", "mutate",
            "release", "unrelease",
            "requarantine", "abort", "bind", "verify", "authorize", "confirm",
            "recover", "emit", "complete", "persistenceFailed"}
  BY WorkPhaseSet DEF Phases, ScanPhases, ReservePhases

-----------------------------------------------------------------------------
(* What each journal line keeps and changes. *)

(* A command-started line keeps what the journal says of the operation and *)
(* adds only that the host may change, which needs a bound snapshot.       *)
LEMMA StartedFacts ==
  ASSUME NEW j \in Journals, NEW c \in Commands, NEW k, k = CommandStarted(j, c)
  PROVE  /\ k \in Journals /\ k.begun = j.begun /\ k.binding = j.binding
         /\ Closed(k) <=> Closed(j)
         /\ k.ok => j.ok
         /\ j.mutation => k.mutation
         /\ j.artifacts => k.artifacts
         /\ k.ok => /\ k.mutation <=> (j.mutation \/ c = "host-command")
                    /\ c = "host-command" => Bound(k)
                    /\ c \in PrivateCommands => k.artifacts
<1>1. k \in Journals
  BY DEF CommandStarted, Read, Journals
<1>2. /\ k.begun = j.begun /\ k.binding = j.binding
      /\ Closed(k) <=> Closed(j)
      /\ k.ok => j.ok
      /\ j.mutation => k.mutation
      /\ j.artifacts => k.artifacts
  BY DEF CommandStarted, Read, Journals, Closed, Terminal, Sealed, Completed, Recovered
<1>3. k.ok => /\ k.mutation <=> (j.mutation \/ c = "host-command")
              /\ c = "host-command" => Bound(k)
              /\ c \in PrivateCommands => k.artifacts
  BY DEF CommandStarted, Read, Journals, Bound
<1> QED BY <1>1, <1>2, <1>3

(* A command-finished line changes nothing that recovery relies on. *)
LEMMA FinishedFacts ==
  ASSUME NEW j \in Journals, NEW c \in Commands, NEW k, k = CommandFinished(j, c)
  PROVE  /\ k \in Journals /\ k.begun = j.begun /\ k.binding = j.binding
         /\ Closed(k) <=> Closed(j)
         /\ k.ok => j.ok
         /\ k.mutation = j.mutation /\ k.artifacts = j.artifacts
  BY DEF CommandFinished, Read, Journals, Closed, Terminal, Sealed, Completed,
         Recovered, Bound, NoCommand

(* A snapshot-persisted line binds the snapshot, once. *)
LEMMA PersistedFacts ==
  ASSUME NEW j \in Journals, NEW s \in OperationIds, NEW k, k = SnapshotPersisted(j, s)
  PROVE  /\ k \in Journals /\ k.begun = j.begun
         /\ k.binding \in {j.binding, s} /\ (k.ok => k.binding = s)
         /\ Bound(j) => k.binding = j.binding
         /\ Closed(k) <=> Closed(j)
         /\ k.ok => j.ok
         /\ k.mutation = j.mutation /\ k.artifacts = j.artifacts
  BY DEF SnapshotPersisted, Read, Journals, Closed, Terminal, Sealed, Completed,
         Recovered, Bound, NoCommand

(* A launcher-release-authorized line changes nothing that recovery relies on. *)
LEMMA AuthorizedFacts ==
  ASSUME NEW j \in Journals, NEW s \in OperationIds, NEW t \in ReleaseTargets,
         NEW k, k = ReleaseAuthorized(j, t, s)
  PROVE  /\ k \in Journals /\ k.begun = j.begun /\ k.binding = j.binding
         /\ Closed(k) <=> Closed(j)
         /\ k.ok => j.ok
         /\ k.mutation = j.mutation /\ k.artifacts = j.artifacts
  BY DEF ReleaseAuthorized, Read, Journals, Closed, Terminal, Sealed, Completed,
         Recovered, Bound, NoCommand

(* An operation-recovered line only resolves the operation. *)
LEMMA RecoveredFacts ==
  ASSUME NEW j \in Journals, NEW o, NEW r \in OperationIds, NEW s,
         NEW k, k = OperationRecovered(j, o, r, s)
  PROVE  /\ k \in Journals /\ k.begun = j.begun /\ k.binding = j.binding
         /\ k.ok => j.ok
         /\ k.mutation = j.mutation /\ k.artifacts = j.artifacts
         /\ Terminal(j) => Terminal(k)
  BY DEF OperationRecovered, Read, Journals, Closed, Terminal, Sealed, Completed,
         Recovered, Bound, NoCommand

(* A report-persistence-failed line resolves nothing. *)
LEMMA FailedFacts ==
  ASSUME NEW j \in Journals, NEW k, k = PersistenceFailed(j)
  PROVE  /\ k \in Journals /\ k.begun = j.begun /\ k.binding = j.binding
         /\ k.ok => j.ok
         /\ k.mutation = j.mutation /\ k.artifacts = j.artifacts
         /\ ~Terminal(j) => ~Terminal(k)
  BY DEF PersistenceFailed, Read, Journals, Closed, Terminal, Sealed, Completed,
         Recovered, Bound, NoCommand

-----------------------------------------------------------------------------
(* Where a step leaves the process. *)

(* A process that ended holds no operation. *)
LEMMA IdleFacts ==
  /\ IdleRun \in Runs /\ IdleRun.pc = "idle" /\ IdleRun.step = "ready"
  /\ IdleRun.op = NoOp /\ IdleRun.recovering = {} /\ IdleRun.retiring = {}
  /\ ~IdleRun.mutating /\ ~IdleRun.failed /\ ~IdleRun.compensated
  BY PhaseSet DEF IdleRun, Runs, AllKinds

(* Leaving the lock ends every duty of the process. *)
LEMMA ExitFacts ==
  ASSUME Exit
  PROVE  /\ run' \in Runs /\ run' = IdleRun
         /\ RunIdentified' /\ ScanSound' /\ WorkSound' /\ PhaseSound'
<1>1. /\ run' \in Runs /\ run' = IdleRun
      /\ run'.pc = "idle" /\ ~run'.mutating /\ ~run'.compensated /\ run'.step = "ready"
  BY IdleFacts DEF Exit
<1>2. RunIdentified' /\ ScanSound'
  BY <1>1 DEF RunIdentified, ScanSound, ScanPhases
<1>3. WorkSound'
  BY <1>1, WorkPhaseSet DEF WorkSound, ReservePhases
<1>4. PhaseSound'
  BY <1>1, PhaseSets DEF PhaseSound, ReservePhases, BoundPhases, EndPhases, SettledPhases
<1> QED BY <1>1, <1>2, <1>3, <1>4

(* The same operation, with the same duties. *)
SameRun(r) ==
  /\ r \in Runs
  /\ r.op = run.op /\ r.kind = run.kind /\ r.snap = run.snap
  /\ r.recovering = run.recovering /\ r.retiring = run.retiring

(* It goes on to another phase, and may have turned to its compensation. *)
Moved(r) ==
  /\ SameRun(r) /\ r.step = "ready" /\ r.mutating = run.mutating
  /\ r.goal = run.goal \/ (MayCompensate /\ r.goal = "baseline")

(* Going on to a phase keeps the operation and its goal. *)
LEMMA GotoFacts ==
  ASSUME run \in Runs, NEW p \in Phases, NEW r, r = Goto(p)
  PROVE  /\ Moved(r) /\ r.pc = p /\ r.goal = run.goal
         /\ (r.failed <=> run.failed) /\ r.compensated = run.compensated
<1>1. /\ r \in Runs /\ r.pc = p /\ r.step = "ready"
      /\ r.op = run.op /\ r.kind = run.kind /\ r.snap = run.snap /\ r.goal = run.goal
      /\ r.recovering = run.recovering /\ r.retiring = run.retiring
      /\ r.mutating = run.mutating /\ r.failed = run.failed
      /\ r.compensated = run.compensated
  BY DEF Goto, Runs
<1> QED BY <1>1 DEF Moved, SameRun

(* So does going on after a failure, which the report remembers. *)
LEMMA GotoFailedFacts ==
  ASSUME run \in Runs, NEW p \in Phases, NEW r, r = GotoFailed(p)
  PROVE  /\ Moved(r) /\ r.pc = p /\ r.goal = run.goal
         /\ r.failed /\ r.compensated = run.compensated
<1>1. /\ r \in Runs /\ r.pc = p /\ r.step = "ready"
      /\ r.op = run.op /\ r.kind = run.kind /\ r.snap = run.snap /\ r.goal = run.goal
      /\ r.recovering = run.recovering /\ r.retiring = run.retiring
      /\ r.mutating = run.mutating /\ r.failed
      /\ r.compensated = run.compensated
  BY DEF GotoFailed, Goto, Runs
<1> QED BY <1>1 DEF Moved, SameRun

(* A failing install turns to its own baseline, from the quarantine on. *)
LEMMA CompensateFacts ==
  ASSUME run \in Runs, NEW r, r = Compensate(run), MayCompensate
  PROVE  /\ Moved(r) /\ r.pc = "quiesce" /\ r.goal = "baseline"
         /\ r.failed /\ r.compensated = run.compensated
<1>1. /\ r \in Runs /\ r.pc = "quiesce" /\ r.step = "ready"
      /\ r.op = run.op /\ r.kind = run.kind /\ r.snap = run.snap /\ r.goal = "baseline"
      /\ r.recovering = run.recovering /\ r.retiring = run.retiring
      /\ r.mutating = run.mutating /\ r.failed
      /\ r.compensated = run.compensated
  BY PhaseSet DEF Compensate, Runs
<1> QED BY <1>1 DEF Moved, SameRun

(* A failing step compensates, ends, or masks the launchers again. *)
LEMMA PhaseFailedFacts ==
  ASSUME run \in Runs, run' = PhaseFailed
  PROVE  /\ Moved(run') /\ run'.failed /\ run'.compensated = run.compensated
         /\ \/ run'.pc = "quiesce"
            \/ run'.pc \in {"emit", "requarantine"} /\ run'.goal = run.goal
  BY CompensateFacts, GotoFailedFacts, PhaseSet DEF PhaseFailed

-----------------------------------------------------------------------------
(* Steps that leave the disk alone. *)

(* Without a write, the scan finds what it found before. *)
LEMMA QuietDisk ==
  ASSUME Sound, UNCHANGED <<disk, host, orphan>>
  PROVE  /\ DiskSound' /\ Claimed' /\ OneAuthority' /\ orphan' \in Orphans
         /\ Unresolved' = Unresolved /\ Readable' = Readable
  BY DEF Sound, DiskSound, JournalSound, Claimed, OneAuthority, disk, Unresolved,
         IsUnresolved, Readable

(* A step that changes neither disk nor machine keeps what Sound says of them. *)
LEMMA QuietStep ==
  ASSUME Sound, UNCHANGED <<disk, machine>>
  PROVE  /\ DiskSound' /\ Claimed' /\ OneAuthority' /\ Masked'
         /\ orphan' \in Orphans /\ Unresolved' = Unresolved /\ Readable' = Readable
  BY QuietDisk DEF Sound, Masked, machine

(* The process may end without a write at any point (refusals, return 2). *)
LEMMA QuietExit ==
  ASSUME Sound, Exit, UNCHANGED <<disk, machine>>
  PROVE  Sound'
<1>1. TypeOK'
  BY ExitFacts DEF Sound, TypeOK, disk, machine
<1> QED BY <1>1, ExitFacts, QuietStep DEF Sound

(* The process may go on without a write, if its next phase is sound. *)
LEMMA QuietMove ==
  ASSUME Sound, run.pc \in WorkPhases \cup {"begin"}, Moved(run'), run'.pc \in WorkPhases,
         UNCHANGED <<disk, machine>>, PhaseSound'
  PROVE  Sound'
<1>1. TypeOK'
  BY DEF Sound, TypeOK, disk, machine, Moved, SameRun
<1>2. RunIdentified' /\ ScanSound'
  BY WorkPhaseSet DEF Sound, RunIdentified, ScanSound, Moved, SameRun, ScanPhases,
                      MayCompensate
<1>3. WorkSound'
  BY WorkPhaseSet, QuietStep
  DEF Sound, WorkSound, ClaimedByAnother, disk, machine, Moved, SameRun, ReservePhases
<1> QED BY <1>1, <1>2, <1>3, QuietStep DEF Sound

-----------------------------------------------------------------------------
(* Steps that write the journal of the running operation. *)

(* What every line the operation appends to its own journal respects. *)
OwnUpdate(k) ==
  LET j == journal[run.op] IN
  /\ k \in Journals /\ k.begun /\ k.binding \in {NoOp, run.snap}
  /\ k.ok => j.ok
  /\ Bound(j) => Bound(k)
  /\ k.ok /\ k.mutation => Bound(k)
  /\ j.artifacts => k.artifacts
  /\ ~Bound(j) /\ Bound(k) =>
       /\ snapshot[run.snap] \in Recordable
       /\ run.kind = "rollback" => Bound(journal[run.snap])

(* The host is claimed by the journal as it is after the step. *)
OwnClaim(k) ==
  Broken' => \/ \E m \in Unresolved : m # run.op
             \/ k.ok => k.mutation /\ ~Terminal(k)

(* What Sound says of the running operation and its journal. *)
LEMMA WorkFacts ==
  ASSUME Sound, run.pc \in WorkPhases \cup {"begin"}
  PROVE  /\ run \in Runs /\ run.op \in OperationIds /\ run.snap \in OperationIds
         /\ journal[run.op] \in Journals /\ journal[run.op].begun
         /\ run.op \in marker
         /\ ~Closed(journal[run.op]) /\ ~Terminal(journal[run.op])
         /\ journal[run.op].binding \in {NoOp, run.snap}
         /\ journal[run.op].ok /\ journal[run.op].mutation => Bound(journal[run.op])
         /\ \A m \in Unresolved \ {run.op} : journal[m].binding = run.snap
         /\ run.mutating => (journal[run.op].ok => journal[run.op].mutation)
         /\ ~run.mutating => ClaimedByAnother
         /\ run.recovering \subseteq Unresolved \ {run.op}
<1>1. run.pc # "idle" /\ run.pc # "mark" BY WorkPhaseSet
<1>2. /\ run \in Runs /\ run.op \in OperationIds /\ run.snap \in OperationIds
      /\ journal[run.op] \in Journals
  BY <1>1 DEF Sound, TypeOK, RunIdentified
<1>3. /\ journal[run.op].begun
      /\ run.op \in marker
      /\ ~Closed(journal[run.op])
      /\ journal[run.op].binding \in {NoOp, run.snap}
      /\ \A m \in Unresolved \ {run.op} : journal[m].binding = run.snap
      /\ run.mutating => (journal[run.op].ok => journal[run.op].mutation)
      /\ ~run.mutating => ClaimedByAnother
      /\ run.recovering \subseteq Unresolved \ {run.op}
  BY <1>1 DEF Sound, WorkSound, ReservePhases
<1>4. ~Terminal(journal[run.op]) BY <1>3 DEF Closed
<1>5. journal[run.op].ok /\ journal[run.op].mutation => Bound(journal[run.op])
  BY <1>2 DEF Sound, DiskSound, JournalSound
<1> QED BY <1>2, <1>3, <1>4, <1>5

(* An acceptable line in its own journal, and the snapshot file of the  *)
(* operation itself, leave every other operation's authority as it was. *)
LEMMA OwnStep ==
  ASSUME Sound, run.pc \in WorkPhases,
         NEW k, OwnUpdate(k), OwnClaim(k),
         journal' = [journal EXCEPT ![run.op] = k], marker' = marker,
         \/ snapshot' = snapshot
         \/ /\ snapshot' = [snapshot EXCEPT ![run.op] = host]
            /\ host \in Recordable /\ (k.ok => k.artifacts)
  PROVE  /\ journal' \in [OperationIds -> Journals] /\ journal'[run.op] = k
         /\ snapshot' \in [OperationIds -> Hosts \cup {"absent"}]
         /\ \A m \in OperationIds \ {run.op} : journal'[m] = journal[m]
         /\ Unresolved' \ {run.op} = Unresolved \ {run.op}
         /\ DiskSound' /\ OneAuthority' /\ Claimed'
<1> USE WorkFacts
<1> DEFINE o == run.op
           j == journal[o]
<1>1. /\ o \in OperationIds /\ j \in Journals /\ o \in marker
      /\ marker \subseteq OperationIds /\ journal \in [OperationIds -> Journals]
      /\ snapshot \in [OperationIds -> Hosts \cup {"absent"}] /\ host \in Hosts
  BY DEF Sound, TypeOK
<1>2. /\ journal' \in [OperationIds -> Journals] /\ journal'[o] = k
      /\ \A m \in OperationIds \ {o} : journal'[m] = journal[m]
  BY <1>1 DEF OwnUpdate
<1>3. /\ snapshot' \in [OperationIds -> Hosts \cup {"absent"}]
      /\ \A m \in OperationIds \ {o} : snapshot'[m] = snapshot[m]
      /\ snapshot'[o] = snapshot[o] \/ (snapshot'[o] = host /\ host \in Recordable /\ (k.ok => k.artifacts))
  BY <1>1
<1>4. Unresolved' \ {o} = Unresolved \ {o}
  BY <1>1, <1>2 DEF Unresolved, IsUnresolved
<1>5. DiskSound'
  <2> SUFFICES ASSUME NEW m \in OperationIds PROVE JournalSound(m)'
    BY DEF DiskSound
  <2>1. \A n \in OperationIds : Bound(journal[n]) => Bound(journal'[n])
    BY <1>1, <1>2 DEF OwnUpdate
  <2>2. \A n \in OperationIds : snapshot[n] \in Recordable => snapshot'[n] \in Recordable
    BY <1>1, <1>3
  <2>3. JournalSound(m) /\ JournalSound(o) BY <1>1 DEF Sound, DiskSound
  <2>4. CASE m # o
    <3>1. journal'[m] = journal[m] /\ snapshot'[m] = snapshot[m] /\ journal[m] \in Journals
      BY <1>1, <1>2, <1>3, <2>4
    <3>2. Bound(journal[m]) => journal[m].binding \in OperationIds
      BY <3>1 DEF Bound, Journals
    <3> QED BY <2>1, <2>2, <2>3, <3>1, <3>2, <1>1 DEF JournalSound
  <2>5. CASE m = o
    <3>1. k \in Journals /\ k.begun /\ (k.ok /\ k.mutation => Bound(k)) BY DEF OwnUpdate
    <3>2. Bound(k) => Bound(journal'[k.binding]) /\ snapshot'[k.binding] \in Recordable
      <4> SUFFICES ASSUME Bound(k) PROVE Bound(journal'[run.snap]) /\ snapshot'[run.snap] \in Recordable
        BY DEF Bound, OwnUpdate
      <4>1. run.snap \in OperationIds OBVIOUS
      <4>2. CASE Bound(j)
        <5>1. j.binding = run.snap BY <4>2 DEF Bound
        <5> QED BY <4>1, <4>2, <5>1, <2>1, <2>2, <2>3, <2>5 DEF JournalSound
      <4>3. CASE ~Bound(j)
        <5>1. snapshot[run.snap] \in Recordable BY <4>3 DEF OwnUpdate
        <5>2. run.kind # "rollback" => run.snap = o
          BY WorkPhaseSet DEF Sound, RunIdentified
        <5>3. Bound(journal'[run.snap])
          BY <4>1, <4>3, <5>2, <1>2, <2>1 DEF OwnUpdate
        <5> QED BY <4>1, <5>1, <5>3, <2>2
      <4> QED BY <4>2, <4>3
    <3>3. snapshot'[o] \in Recordable \cup {"absent"}
      BY <1>3, <2>3 DEF JournalSound
    <3>4. snapshot'[o] # "absent" => Bound(k) \/ (o \in marker /\ (k.ok => k.artifacts))
      BY <1>1, <1>3, <2>3 DEF JournalSound, OwnUpdate
    <3> QED BY <1>2, <2>5, <3>1, <3>2, <3>3, <3>4 DEF JournalSound
  <2> QED BY <2>4, <2>5
<1>6. OneAuthority'
  <2>1. \A m \in Unresolved' \ {o} : journal'[m] = journal[m] /\ journal'[m].binding = run.snap
    BY <1>1, <1>2, <1>4 DEF Unresolved
  <2>2. o \in Unresolved' /\ k.ok => k.binding = run.snap
    BY <1>2 DEF Unresolved, IsUnresolved, OwnUpdate, Bound
  <2>3. run.snap # NoOp BY NoOpAssumption
  <2> QED BY <1>2, <2>1, <2>2, <2>3 DEF OneAuthority, Bound
<1>7. Claimed'
  <2> SUFFICES ASSUME Broken'
               PROVE  \E m \in marker' : journal'[m].ok => m \in Unresolved'
    BY DEF Claimed
  <2>1. CASE \E m \in Unresolved : m # o
    BY <2>1, <1>4 DEF Unresolved
  <2>2. CASE k.ok => k.mutation /\ ~Terminal(k)
    BY <2>2, <1>1, <1>2 DEF Unresolved, IsUnresolved
  <2> QED BY <2>1, <2>2 DEF OwnClaim
<1> QED BY <1>2, <1>3, <1>4, <1>5, <1>6, <1>7

(* The process appends such a line and goes on. *)
LEMMA OwnMove ==
  ASSUME Sound, run.pc \in WorkPhases,
         NEW k, OwnUpdate(k), OwnClaim(k), ~Closed(k),
         journal' = [journal EXCEPT ![run.op] = k], UNCHANGED <<marker, report, orphan>>,
         \/ snapshot' = snapshot
         \/ /\ snapshot' = [snapshot EXCEPT ![run.op] = host]
            /\ host \in Recordable /\ (k.ok => k.artifacts),
         host' \in Hosts, launchers' \in Launchers,
         SameRun(run'), run'.pc \in WorkPhases,
         run'.goal = run.goal \/ (MayCompensate /\ run'.goal = "baseline"),
         run'.mutating => (k.ok => k.mutation),
         ~run'.mutating => ~run.mutating /\ host' = host,
         Masked', PhaseSound'
  PROVE  Sound'
<1>1. TypeOK' /\ DiskSound' /\ OneAuthority' /\ Claimed'
  BY OwnStep DEF Sound, TypeOK, SameRun
<1>2. RunIdentified' /\ ScanSound'
  BY WorkPhaseSet DEF Sound, RunIdentified, ScanSound, SameRun, ScanPhases, MayCompensate
<1>3. WorkSound'
  <2>1. Unresolved' \ {run.op} = Unresolved \ {run.op}
        /\ journal'[run.op] = k /\ (\A m \in OperationIds \ {run.op} : journal'[m] = journal[m])
    BY OwnStep
  <2>2. Unresolved' \subseteq OperationIds /\ Unresolved \subseteq OperationIds
    BY <1>1 DEF Sound, TypeOK, Unresolved
  <2>3. run.op \in marker' /\ run'.pc # "mark" BY WorkFacts, WorkPhaseSet
  <2>4. \A m \in Unresolved' \ {run.op} :
           run.kind = "rollback" /\ journal'[m].binding = run.snap
    BY <2>1, <2>2 DEF Sound, WorkSound
  <2>5. ~run'.mutating => ClaimedByAnother'
    BY <2>1, WorkFacts DEF ClaimedByAnother, SameRun
  <2> QED BY <2>1, <2>3, <2>4, <2>5, WorkFacts DEF WorkSound, SameRun, OwnUpdate
<1> QED BY <1>1, <1>2, <1>3 DEF Sound

(* The process appends such a line and ends. *)
LEMMA OwnExit ==
  ASSUME Sound, run.pc \in WorkPhases,
         NEW k, OwnUpdate(k), OwnClaim(k),
         journal' = [journal EXCEPT ![run.op] = k], UNCHANGED <<marker, orphan>>,
         report' \in [OperationIds -> {"none", "provisional", "complete", "incomplete"}],
         \/ snapshot' = snapshot
         \/ /\ snapshot' = [snapshot EXCEPT ![run.op] = host]
            /\ host \in Recordable /\ (k.ok => k.artifacts),
         host' \in Hosts, launchers' \in Launchers,
         Masked', Exit
  PROVE  Sound'
<1>1. TypeOK' /\ DiskSound' /\ OneAuthority' /\ Claimed'
  BY OwnStep, ExitFacts DEF Sound, TypeOK
<1> QED BY <1>1, ExitFacts DEF Sound

(* A failed append that was rolled back leaves an acceptable journal. *)
LEMMA KeepUpdate ==
  ASSUME Sound, run.pc \in WorkPhases
  PROVE  OwnUpdate(journal[run.op])
  BY WorkFacts DEF OwnUpdate

(* A line that keeps the mutation fact keeps the claim on the host. *)
LEMMA OwnClaimed ==
  ASSUME Sound, run.pc \in WorkPhases, NEW k, k.ok => journal[run.op].ok,
         journal[run.op].mutation => k.mutation, ~Terminal(k),
         host' = host \/ run.mutating
  PROVE  OwnClaim(k)
<1>1. CASE run.mutating BY <1>1, WorkFacts DEF OwnClaim
<1>2. CASE ~run.mutating
  <2>1. ClaimedByAnother /\ host' = host BY <1>2, WorkFacts
  <2> QED BY <2>1 DEF OwnClaim, ClaimedByAnother, Alone
<1> QED BY <1>1, <1>2

(* command-started is an acceptable line. *)
LEMMA StartUpdate ==
  ASSUME Sound, run.pc \in WorkPhases,
         NEW c \in Commands, NEW k, k = CommandStarted(journal[run.op], c)
  PROVE  OwnUpdate(k) /\ ~Closed(k) /\ ~Terminal(k)
<1>1. OwnUpdate(k)
  BY WorkFacts, StartedFacts DEF OwnUpdate, Bound
<1> QED BY <1>1, WorkFacts, StartedFacts DEF Closed

(* command-finished is an acceptable line. *)
LEMMA FinishUpdate ==
  ASSUME Sound, run.pc \in WorkPhases,
         NEW c \in Commands, NEW k, k = CommandFinished(journal[run.op], c)
  PROVE  OwnUpdate(k) /\ ~Closed(k) /\ ~Terminal(k)
<1>1. OwnUpdate(k)
  BY WorkFacts, FinishedFacts DEF OwnUpdate, Bound
<1> QED BY <1>1, WorkFacts, FinishedFacts DEF Closed

(* A process at a command is at a phase of its operation. *)
LEMMA CommandIsOne == AtCommand => Command \in Commands /\ run.pc \in WorkPhases
  BY PhaseSets DEF AtCommand, Command, WorkPhases

-----------------------------------------------------------------------------
(* The host and the launchers while a command runs. *)

(* What an operation works towards is a verified state. *)
LEMMA TargetIsWhole ==
  ASSUME Sound, run.pc \in BoundPhases
  PROVE  /\ TargetContent \in Recordable /\ TargetContent \in Hosts
         /\ Alone => TargetContent # "partial"
<1>1. run.pc # "idle" /\ snapshot[run.snap] \in Recordable
  BY PhaseSets DEF Sound, PhaseSound, BoundPhases
<1>2. TargetContent \in Recordable
  <2>1. run.op \in Recordable BY <1>1, RecordableHosts DEF Sound, RunIdentified, Contents
  <2> QED BY <1>1, <2>1 DEF TargetContent
<1> QED BY <1>2, RecordableHosts

(* A verified host stays verified until the report. *)
LEMMA SettledIsWhole ==
  ASSUME Sound, run.pc \in SettledPhases
  PROVE  OnTarget /\ ~Broken
  BY TargetIsWhole, PhaseSets DEF Sound, PhaseSound, SettledPhases, BoundPhases

(* An operation that may go first finds a whole host. *)
LEMMA UntouchedIsWhole ==
  ASSUME Sound, run.pc \in WorkPhases \cup {"begin"}, ~run.mutating, run.kind # "rollback"
  PROVE  host \in Recordable /\ ~Broken
<1>1. Unresolved \ {run.op} = {}
  BY WorkPhaseSet DEF Sound, WorkSound, ReservePhases
<1>2. ~Broken /\ host \in Hosts BY <1>1, WorkFacts DEF ClaimedByAnother, Sound, TypeOK
<1> QED BY <1>2, RecordableHosts

(* Masking commands only mask, in whatever way they end. *)
LEMMA LaunchersAreLaunchers ==
  /\ \A l \in Launchers : PartlyMasked(l) \subseteq Launchers
  /\ PartlyMasked("masked") = {"masked"}
  /\ \A l \in {"masked", "scripted"} : PartlyMasked(l) \subseteq {"masked", "scripted"}
  /\ launchers \in Launchers => LaunchersAfter \subseteq Launchers
  BY DEF PartlyMasked, Launchers, LaunchersAfter, Opened

-----------------------------------------------------------------------------
(* The lock, the scan and the gate. *)

(* The scan retires no unresolved operation. *)
LEMMA ResolvedWhenRetired ==
  ASSUME TypeOK, NEW m \in marker, Retirable(m)
  PROVE  m \notin Unresolved
  BY NoOpAssumption
  DEF TypeOK, Retirable, HasFinalReport, Unresolved, IsUnresolved, Terminal, Recovered

(* Taking the operation lock (_main, cli.py:305). *)
LEMMA AcquireLockStep ==
  ASSUME Sound, NEW o \in OperationIds, NEW k \in Kinds, NEW s \in OperationIds,
         AcquireLock(o, k, s)
  PROVE  Sound'
<1>1. /\ UNCHANGED <<disk, machine>> /\ ~journal[o].begun
      /\ IF k = "rollback" THEN s # o ELSE s = o
      /\ run' = [IdleRun EXCEPT !.op = o, !.kind = k, !.snap = s, !.pc = "scan",
                                !.goal = IF k = "rollback" THEN "baseline" ELSE "target"]
  BY DEF AcquireLock
<1>2. /\ run' \in Runs /\ run'.pc = "scan" /\ run'.op = o /\ run'.kind = k /\ run'.snap = s
      /\ run'.goal = (IF k = "rollback" THEN "baseline" ELSE "target")
      /\ ~run'.mutating /\ ~run'.compensated /\ run'.step = "ready"
  BY <1>1, PhaseSet, ConfigurationAssumption DEF IdleRun, Runs, AllKinds
<1>3. TypeOK'
  BY <1>1, <1>2 DEF Sound, TypeOK, disk, machine
<1>4. RunIdentified' /\ ScanSound' /\ WorkSound'
  BY <1>1, <1>2, WorkPhaseSet
  DEF RunIdentified, ScanSound, WorkSound, ReservePhases, disk, machine
<1>5. PhaseSound'
  BY <1>2, PhaseSets DEF PhaseSound, ReservePhases, BoundPhases, EndPhases, SettledPhases
<1> QED BY <1>1, <1>3, <1>4, <1>5, QuietStep DEF Sound

(* unresolved_operations sorts the markers into retirable and unresolved. *)
LEMMA ScanStep ==
  ASSUME Sound, Scan
  PROVE  Sound'
<1> DEFINE T == {m \in marker : Retirable(m)}
           R == {m \in Unresolved : ~Retirable(m)}
<1>1. /\ UNCHANGED <<disk, machine>> /\ run.pc = "scan" /\ Readable
      /\ run' = [run EXCEPT !.pc = "retire", !.retiring = T, !.recovering = R]
  BY DEF Scan
<1>2. T \subseteq OperationIds /\ R \subseteq OperationIds
  BY DEF Sound, TypeOK, Unresolved
<1>3. R = Unresolved /\ T \subseteq marker \ Unresolved
  BY ResolvedWhenRetired DEF Sound, Unresolved
<1>4. \A m \in marker \ T : journal[m].mutation
  BY DEF Retirable
<1>5. /\ run' \in Runs /\ run'.pc = "retire" /\ run'.op = run.op /\ run'.kind = run.kind
      /\ run'.snap = run.snap /\ run'.goal = run.goal /\ run'.mutating = run.mutating
      /\ run'.compensated = run.compensated /\ run'.step = run.step
      /\ run'.retiring = T /\ run'.recovering = R
  <2> HIDE DEF T, R
  <2> QED BY <1>1, <1>2, PhaseSet DEF Sound, TypeOK, Runs
<1> HIDE DEF T, R
<1>6. TypeOK'
  BY <1>1, <1>5 DEF Sound, TypeOK, disk, machine
<1>7. RunIdentified' /\ ScanSound' /\ WorkSound'
  <2>1. ~journal'[run'.op].begun /\ ~run'.mutating
    BY <1>1, <1>5 DEF Sound, ScanSound, ScanPhases, disk
  <2>2. /\ Readable' /\ run'.recovering = Unresolved'
        /\ run'.retiring \subseteq marker' \ Unresolved'
        /\ \A m \in marker' \ run'.retiring : journal'[m].mutation
    BY <1>1, <1>3, <1>4, <1>5, QuietStep DEF disk
  <2>3. ScanSound'
    BY <2>1, <2>2, <1>5 DEF ScanSound
  <2> QED BY <2>3, <1>1, <1>5, WorkPhaseSet
          DEF Sound, RunIdentified, WorkSound, ReservePhases
<1>8. PhaseSound'
  BY <1>1, <1>5, PhaseSets
  DEF Sound, PhaseSound, ReservePhases, BoundPhases, EndPhases, SettledPhases
<1> QED BY <1>1, <1>6, <1>7, <1>8, QuietStep DEF Sound

(* A retired operation is resolved, and no other journal needs its files: a *)
(* snapshot that some journal binds is bound in its creator's journal too.  *)
LEMMA RetireStep ==
  ASSUME Sound, NEW m \in OperationIds, Retire(m)
  PROVE  Sound'
<1>1. /\ run.pc = "retire" /\ m \in run.retiring /\ m \in marker \ Unresolved
      /\ marker' = marker \ {m} /\ UNCHANGED <<journal, report, machine>>
      /\ run' = [run EXCEPT !.retiring = @ \ {m}]
  BY DEF Retire, Sound, ScanSound
<1> DEFINE Removes == ~journal[m].mutation /\ journal[m].artifacts /\ ~Bound(journal[m])
<1>2. \/ ~Removes /\ snapshot' = snapshot
      \/ Removes /\ snapshot' = [snapshot EXCEPT ![m] = "absent"]
  BY DEF Retire
<1>3. /\ run' \in Runs /\ run'.pc = "retire" /\ run'.op = run.op /\ run'.kind = run.kind
      /\ run'.snap = run.snap /\ run'.goal = run.goal /\ run'.mutating = run.mutating
      /\ run'.compensated = run.compensated /\ run'.step = run.step
      /\ run'.retiring = run.retiring \ {m} /\ run'.recovering = run.recovering
  BY <1>1 DEF Sound, TypeOK, Runs
<1>4. TypeOK'
  BY <1>1, <1>2, <1>3 DEF Sound, TypeOK, machine
<1>5. Unresolved' = Unresolved /\ (Readable => Readable')
  BY <1>1 DEF Unresolved, IsUnresolved, Readable
<1>6. DiskSound'
  <2> SUFFICES ASSUME NEW o \in OperationIds PROVE JournalSound(o)' BY DEF DiskSound
  <2>1. JournalSound(o) /\ journal[o] \in Journals BY DEF Sound, DiskSound, TypeOK
  <2>2. Bound(journal[o]) => journal[o].binding # m \/ snapshot' = snapshot
    BY <1>2, <2>1 DEF JournalSound
  <2>3. Bound(journal[o]) => journal[o].binding \in OperationIds
    BY <2>1 DEF Bound, Journals
  <2>4. Bound(journal[o]) => snapshot'[journal[o].binding] = snapshot[journal[o].binding]
    BY <1>2, <2>2, <2>3 DEF Sound, TypeOK
  <2>5. \/ snapshot'[o] = snapshot[o]
        \/ o = m /\ snapshot'[o] = "absent"
    BY <1>2 DEF Sound, TypeOK
  <2>6. o = m => /\ journal[m].ok
                 /\ snapshot'[o] # "absent" => Bound(journal[m])
    <3>1. Readable BY <1>1 DEF Sound, ScanSound
    <3>2. journal[m].ok BY <1>1, <3>1 DEF Readable
    <3>3. ~Bound(journal[m]) /\ snapshot[m] # "absent" => journal[m].artifacts
      BY <3>2 DEF Sound, DiskSound, JournalSound
    <3>4. journal[m].mutation => Bound(journal[m])
      BY <3>2 DEF Sound, DiskSound, JournalSound
    <3>5. Removes => snapshot'[m] = "absent"
      BY <1>2 DEF Sound, TypeOK
    <3> QED BY <1>2, <3>2, <3>3, <3>4, <3>5
  <2> QED BY <1>1, <2>1, <2>4, <2>5, <2>6 DEF JournalSound
<1>7. Claimed' /\ OneAuthority' /\ Masked' /\ orphan' \in Orphans
  <2>1. Readable BY <1>1 DEF Sound, ScanSound
  <2>2. Claimed'
    BY <1>1, <1>5, <2>1 DEF Sound, Claimed, Readable, machine
  <2> QED BY <1>1, <1>5, <2>2 DEF Sound, OneAuthority, Masked, machine
<1>8. RunIdentified' /\ ScanSound' /\ WorkSound'
  BY <1>1, <1>3, <1>5, WorkPhaseSet
  DEF Sound, RunIdentified, ScanSound, ScanPhases, WorkSound, ReservePhases
<1>9. PhaseSound'
  BY <1>1, <1>3, PhaseSets
  DEF Sound, PhaseSound, ReservePhases, BoundPhases, EndPhases, SettledPhases
<1> QED BY <1>4, <1>6, <1>7, <1>8, <1>9 DEF Sound

(* The gate admits the recovery of exactly the bound snapshot. *)
LEMMA AdmitStep ==
  ASSUME Sound, Admit
  PROVE  Sound'
<1>1. /\ UNCHANGED <<disk, machine>> /\ run.pc = "retire" /\ run.retiring = {}
      /\ Admissible /\ run' = Goto("reserve") /\ run \in Runs
  BY DEF Admit, Sound, TypeOK
<1>2. Moved(run') /\ run'.pc = "reserve" /\ run'.goal = run.goal
      /\ run'.compensated = run.compensated
  BY <1>1, GotoFacts, PhaseSet
<1>3. \A m \in Unresolved : run.kind = "rollback" /\ journal[m].binding = run.snap
  BY <1>1 DEF Sound, ScanSound, Admissible
<1>4. \A m \in marker : Bound(journal[m])
  BY <1>1 DEF Sound, TypeOK, DiskSound, JournalSound, ScanSound, Readable
<1>5. RunIdentified' /\ ScanSound' /\ WorkSound'
  BY <1>1, <1>2, <1>3, <1>4, WorkPhaseSet, QuietStep
  DEF Sound, RunIdentified, ScanSound, ScanPhases, WorkSound, ReservePhases, Moved,
      SameRun, disk
<1>6. PhaseSound'
  BY <1>1, <1>2, PhaseSets
  DEF Sound, PhaseSound, ReservePhases, BoundPhases, EndPhases, SettledPhases, Moved, SameRun
<1>7. TypeOK'
  BY <1>1, <1>2 DEF Sound, TypeOK, disk, machine, Moved, SameRun
<1> QED BY <1>1, <1>5, <1>6, <1>7, QuietStep DEF Sound

-----------------------------------------------------------------------------
(* The reservation. *)

(* The first line of a journal states nothing recovery could use. *)
LEMMA NoJournalFacts ==
  /\ NoJournal \in Journals /\ OperationStarted \in Journals
  /\ ~NoJournal.begun /\ NoJournal.ok /\ ~NoJournal.mutation /\ ~Bound(NoJournal)
  /\ ~NoJournal.artifacts /\ ~OperationStarted.artifacts
  /\ OperationStarted.begun /\ OperationStarted.ok /\ ~OperationStarted.mutation
  /\ OperationStarted.binding = NoOp /\ ~Bound(OperationStarted)
  /\ ~Closed(OperationStarted)
  BY DEF NoJournal, OperationStarted, Journals, Bound, Closed, Terminal, Sealed,
         Completed, Recovered, NoCommand, Commands

(* Before it writes, an operation has no file at all. *)
LEMMA Unwritten ==
  ASSUME Sound, run.pc \in {"reserve", "mark", "begin"}
  PROVE  /\ run \in Runs /\ run.op \in OperationIds /\ run.snap \in OperationIds
         /\ run.pc = "reserve" => /\ journal[run.op] = NoJournal /\ run.op \notin marker
         /\ run.pc \in {"mark", "begin"} => journal[run.op] = OperationStarted
         /\ run.pc = "mark" => run.op \notin marker
         /\ snapshot[run.op] = "absent"
         /\ \A m \in marker \ {run.op} : Bound(journal[m])
         /\ ~Bound(journal[run.op])
         /\ \A o \in OperationIds : Bound(journal[o]) => journal[o].binding # run.op
<1>1. run \in Runs /\ run.op \in OperationIds /\ run.snap \in OperationIds
  BY DEF Sound, TypeOK, RunIdentified
<1>2. run.pc = "reserve" => journal[run.op] = NoJournal /\ run.op \notin marker
  BY <1>1 DEF Sound, ScanSound, ScanPhases, DiskSound, JournalSound
<1>3. run.pc \in {"mark", "begin"} => journal[run.op] = OperationStarted
  BY DEF Sound, PhaseSound, ReservePhases
<1>4. run.pc = "mark" => run.op \notin marker
  BY DEF Sound, WorkSound, ReservePhases
<1>5. ~Bound(journal[run.op])
  BY <1>2, <1>3, NoJournalFacts
<1>6. snapshot[run.op] = "absent"
  BY <1>1, <1>2, <1>3, <1>5, NoJournalFacts DEF Sound, DiskSound, JournalSound
<1>7. \A m \in marker \ {run.op} : Bound(journal[m])
  BY <1>2 DEF Sound, PhaseSound, ScanSound, ReservePhases
<1>8. \A o \in OperationIds : Bound(journal[o]) => journal[o].binding # run.op
  BY <1>5 DEF Sound, DiskSound, JournalSound
<1> QED BY <1>1, <1>2, <1>3, <1>4, <1>5, <1>6, <1>7, <1>8

(* Writing or removing a journal without facts changes nothing for the scan. *)
LEMMA BareJournal ==
  ASSUME Sound, run.pc \in {"reserve", "mark", "begin"},
         NEW k, k \in {NoJournal, OperationStarted},
         journal' = [journal EXCEPT ![run.op] = k],
         marker' \in {marker \ {run.op}, marker}, k = NoJournal => run.op \notin marker',
         UNCHANGED <<snapshot, machine>>
  PROVE  /\ journal' \in [OperationIds -> Journals] /\ journal'[run.op] = k
         /\ \A m \in OperationIds \ {run.op} : journal'[m] = journal[m]
         /\ Unresolved' = Unresolved /\ run.op \notin Unresolved
         /\ DiskSound' /\ Claimed' /\ OneAuthority' /\ Masked'
<1>1. /\ run.op \in OperationIds /\ marker \subseteq OperationIds
      /\ journal \in [OperationIds -> Journals]
      /\ k \in Journals /\ k.ok /\ ~k.mutation /\ ~Bound(k)
      /\ k = OperationStarted => k.begun
  BY Unwritten, NoJournalFacts DEF Sound, TypeOK
<1>2. /\ journal' \in [OperationIds -> Journals] /\ journal'[run.op] = k
      /\ \A m \in OperationIds \ {run.op} : journal'[m] = journal[m]
  BY <1>1
<1>3. journal[run.op].ok /\ ~journal[run.op].mutation
  BY Unwritten, NoJournalFacts
<1>4. Unresolved' = Unresolved /\ run.op \notin Unresolved
  BY <1>1, <1>2, <1>3 DEF Unresolved, IsUnresolved
<1>5. DiskSound'
  <2> SUFFICES ASSUME NEW o \in OperationIds PROVE JournalSound(o)' BY DEF DiskSound
  <2>1. JournalSound(o) /\ journal[o] \in Journals BY DEF Sound, DiskSound, TypeOK
  <2>2. CASE o # run.op
    <3>1. journal'[o] = journal[o] /\ (o \in marker' <=> o \in marker) BY <1>2, <2>2
    <3>2. Bound(journal[o]) => /\ journal[o].binding \in OperationIds \ {run.op}
      BY <2>1, Unwritten DEF Bound, Journals
    <3> QED BY <2>1, <3>1, <3>2, <1>2 DEF JournalSound
  <2>3. CASE o = run.op
    BY <2>3, <1>1, <1>2, Unwritten DEF JournalSound
  <2> QED BY <2>2, <2>3
<1>6. Claimed'
  <2> SUFFICES ASSUME Broken'
               PROVE  \E m \in marker' : journal'[m].ok => m \in Unresolved'
    BY DEF Claimed
  <2>1. PICK m \in marker : journal[m].ok => m \in Unresolved
    BY DEF Sound, Claimed, machine
  <2>2. m # run.op BY <2>1, <1>3, <1>4
  <2> QED BY <2>1, <2>2, <1>1, <1>2, <1>4
<1>7. OneAuthority'
  BY <1>1, <1>2, <1>4 DEF Sound, OneAuthority, Unresolved
<1>8. Masked'
  BY DEF Sound, Masked, machine
<1> QED BY <1>2, <1>4, <1>5, <1>6, <1>7, <1>8

(* reserve_applied_report writes report and journal. *)
LEMMA ReserveStep ==
  ASSUME Sound, Reserve
  PROVE  Sound'
<1>1. /\ run.pc = "reserve" /\ journal' = [journal EXCEPT ![run.op] = OperationStarted]
      /\ report' = [report EXCEPT ![run.op] = "provisional"]
      /\ run' = Goto("mark") /\ UNCHANGED <<marker, snapshot, machine>>
      /\ run \in Runs
  BY DEF Reserve, Write, Sound, TypeOK
<1>2. /\ Moved(run') /\ run'.pc = "mark" /\ run'.goal = run.goal
      /\ run'.compensated = run.compensated
  BY <1>1, GotoFacts, PhaseSet
<1>3. /\ journal' \in [OperationIds -> Journals] /\ journal'[run.op] = OperationStarted
      /\ \A m \in OperationIds \ {run.op} : journal'[m] = journal[m]
      /\ Unresolved' = Unresolved /\ run.op \notin Unresolved
      /\ DiskSound' /\ Claimed' /\ OneAuthority' /\ Masked'
  BY <1>1, BareJournal, NoJournalFacts
<1>4. TypeOK'
  BY <1>1, <1>2, <1>3 DEF Sound, TypeOK, machine, Moved, SameRun
<1>5. RunIdentified' /\ ScanSound'
  BY <1>1, <1>2 DEF Sound, RunIdentified, ScanSound, ScanPhases, Moved, SameRun
<1>6. WorkSound'
  <2>1. ClaimedByAnother'
    <3> SUFFICES ASSUME Broken PROVE \E m \in Unresolved : m # run.op
      BY <1>1, <1>2, <1>3 DEF ClaimedByAnother, machine, Moved, SameRun
    <3> QED BY <1>1, <1>3 DEF Sound, Claimed, ScanSound, Readable
  <2>2. /\ run.recovering = Unresolved /\ ~run.mutating
        /\ \A m \in Unresolved : run.kind = "rollback" /\ journal[m].binding = run.snap
    BY <1>1 DEF Sound, ScanSound, ScanPhases
  <2>3. \A m \in Unresolved : m # run.op /\ journal'[m] = journal[m]
    BY <1>3 DEF Sound, TypeOK, Unresolved
  <2> QED BY <2>1, <2>2, <2>3, <1>1, <1>2, <1>3, Unwritten, NoJournalFacts, WorkPhaseSet
          DEF WorkSound, Moved, SameRun
<1>7. PhaseSound'
  BY <1>1, <1>2, <1>3, Unwritten, PhaseSets
  DEF Sound, TypeOK, PhaseSound, ScanSound, ScanPhases, ReservePhases, BoundPhases,
      EndPhases, SettledPhases, Moved, SameRun
<1> QED BY <1>1, <1>3, <1>4, <1>5, <1>6, <1>7 DEF Sound, machine

(* reserve_applied_report writes the marker, before any command. *)
LEMMA CreateMarkerStep ==
  ASSUME Sound, CreateMarker
  PROVE  Sound'
<1>1. /\ run.pc = "mark" /\ marker' = marker \cup {run.op}
      /\ run' = Goto("begin") /\ UNCHANGED <<journal, report, snapshot, machine>>
      /\ run \in Runs
  BY DEF CreateMarker, Sound, TypeOK
<1>2. /\ Moved(run') /\ run'.pc = "begin" /\ run'.goal = run.goal
      /\ run'.compensated = run.compensated
  BY <1>1, GotoFacts, PhaseSet
<1>3. /\ journal[run.op] = OperationStarted /\ run.op \in OperationIds
      /\ ~journal[run.op].mutation
  BY <1>1, Unwritten, NoJournalFacts
<1>4. Unresolved' = Unresolved
  BY <1>1, <1>3 DEF Unresolved, IsUnresolved
<1>5. TypeOK'
  BY <1>1, <1>2, <1>3 DEF Sound, TypeOK, machine, Moved, SameRun
<1>6. DiskSound'
  BY <1>1, <1>3, NoJournalFacts DEF Sound, DiskSound, JournalSound
<1>7. Claimed' /\ OneAuthority' /\ Masked'
  BY <1>1, <1>4 DEF Sound, Claimed, OneAuthority, Masked, machine
<1>8. RunIdentified' /\ ScanSound' /\ WorkSound'
  BY <1>1, <1>2, <1>4, WorkPhaseSet
  DEF Sound, RunIdentified, ScanSound, ScanPhases, WorkSound, ClaimedByAnother,
      ReservePhases, machine, Moved, SameRun
<1>9. PhaseSound'
  BY <1>1, <1>2, <1>3, Unwritten, PhaseSets
  DEF Sound, PhaseSound, ReservePhases, BoundPhases, EndPhases, SettledPhases, Moved, SameRun
<1> QED BY <1>1, <1>5, <1>6, <1>7, <1>8, <1>9 DEF Sound, machine

(* A failed reservation is undone. *)
LEMMA ReserveFailsStep ==
  ASSUME Sound, ReserveFails
  PROVE  Sound'
<1>1. /\ run.pc \in {"mark", "begin"} /\ marker' = marker \ {run.op}
      /\ journal' = [journal EXCEPT ![run.op] = NoJournal]
      /\ report' = [report EXCEPT ![run.op] = "none"]
      /\ Exit /\ UNCHANGED <<snapshot, machine>>
  BY DEF ReserveFails, Write, ReservePhases
<1>2. /\ journal' \in [OperationIds -> Journals]
      /\ DiskSound' /\ Claimed' /\ OneAuthority' /\ Masked'
  BY <1>1, BareJournal
<1>3. TypeOK'
  BY <1>1, <1>2, ExitFacts DEF Sound, TypeOK, machine
<1> QED BY <1>1, <1>2, <1>3, ExitFacts DEF Sound, machine

(* install, lock, verify and snapshot start, or end in a plan failure. *)
LEMMA DispatchStep ==
  ASSUME Sound, Dispatch
  PROVE  Sound'
<1>1. /\ run.pc = "begin" /\ run.kind # "rollback" /\ UNCHANGED <<disk, machine>>
      /\ run \in Runs
  BY DEF Dispatch, Sound, TypeOK
<1>2. /\ Moved(run') /\ run'.goal = run.goal /\ run'.compensated = run.compensated
      /\ run'.pc \in {"gate", "stage", "emit"}
  BY <1>1, GotoFacts, GotoFailedFacts, PhaseSet DEF Dispatch
<1>3. ~run.mutating /\ ~run.compensated
  BY <1>1, PhaseSets DEF Sound, PhaseSound, BoundPhases, EndPhases
<1>4. ~Broken
  BY <1>1, <1>3, UntouchedIsWhole
<1>5. PhaseSound'
  BY <1>1, <1>2, <1>3, <1>4, PhaseSets
  DEF PhaseSound, ReservePhases, BoundPhases, EndPhases, SettledPhases, Moved, SameRun,
      machine, Running
<1> QED BY <1>1, <1>2, <1>5, QuietMove, WorkPhaseSet

(* A rollback loads its snapshot before it binds it. *)
LEMMA RollbackPreflightStep ==
  ASSUME Sound, RollbackPreflight
  PROVE  Sound'
<1>1. /\ run.pc = "begin" /\ run.kind = "rollback" /\ UNCHANGED <<disk, machine>>
      /\ snapshot[run.snap] # "absent" /\ run \in Runs
  BY DEF RollbackPreflight, Sound, TypeOK
<1>2. /\ Moved(run') /\ run'.goal = run.goal /\ run'.compensated = run.compensated
      /\ run'.pc = "bind" \/ (run'.pc = "emit" /\ run'.failed)
  BY <1>1, GotoFacts, GotoFailedFacts, PhaseSet DEF RollbackPreflight
<1>3. ~run.mutating /\ ~run.compensated
  BY <1>1, PhaseSets DEF Sound, PhaseSound, BoundPhases, EndPhases
<1>4. run.snap \in OperationIds /\ run.snap # run.op
  BY <1>1 DEF Sound, RunIdentified
<1>5. Bound(journal[run.snap])
  BY <1>1, <1>4, Unwritten DEF Sound, DiskSound, JournalSound
<1>6. snapshot[run.snap] \in Recordable
  BY <1>1, <1>4 DEF Sound, DiskSound, JournalSound, TypeOK, Hosts
<1>7. PhaseSound'
  BY <1>1, <1>2, <1>3, <1>5, <1>6, PhaseSets
  DEF PhaseSound, ReservePhases, BoundPhases, EndPhases, SettledPhases, Moved, SameRun,
      disk, machine, Running
<1> QED BY <1>1, <1>2, <1>7, QuietMove, WorkPhaseSet

-----------------------------------------------------------------------------
(* Commands. *)

(* The runner's start callback journals command-started before the command. *)
LEMMA StartCommandStep ==
  ASSUME Sound, StartCommand
  PROVE  Sound'
<1> DEFINE k == CommandStarted(journal[run.op], Command)
<1>1. /\ AtCommand /\ run.step = "ready" /\ journal' = [journal EXCEPT ![run.op] = k]
      /\ UNCHANGED <<report, marker, snapshot, machine>> /\ run \in Runs
      /\ run' = [run EXCEPT !.step = "running",
                            !.mutating = IF run.pc \in HostPhases THEN TRUE ELSE @]
  BY DEF StartCommand, Write, Sound, TypeOK
<1>2. /\ SameRun(run') /\ run'.pc = run.pc /\ run'.step = "running"
      /\ run'.goal = run.goal /\ run'.failed = run.failed
      /\ run'.compensated = run.compensated
      /\ run'.mutating <=> (run.mutating \/ run.pc \in HostPhases)
  BY <1>1 DEF SameRun, Runs
<1>3. Command \in Commands /\ run.pc \in WorkPhases BY <1>1, CommandIsOne
<1>4. OwnUpdate(k) /\ ~Closed(k) /\ ~Terminal(k)
  BY <1>3, StartUpdate
<1>5. /\ k.ok => journal[run.op].ok
      /\ journal[run.op].mutation => k.mutation
      /\ run.pc \in HostPhases => (k.ok => k.mutation)
      /\ run.pc = "persist" => (k.ok => k.artifacts)
      /\ k.ok => (Bound(journal[run.op]) => Bound(k))
  <2>1. /\ run.pc \in HostPhases => Command = "host-command"
        /\ run.pc = "persist" => Command \in PrivateCommands
    BY PhaseSets DEF Command, PrivateCommands
  <2> QED BY <2>1, <1>3, <1>4, WorkFacts, StartedFacts DEF OwnUpdate
<1>6. OwnClaim(k)
  BY <1>1, <1>3, <1>4, <1>5, OwnClaimed DEF machine
<1> HIDE DEF k
<1>7. Masked' BY <1>1 DEF Sound, Masked, machine
<1>8. journal'[run.op] = k
  BY <1>1, <1>3, WorkFacts DEF Sound, TypeOK
<1>9. PhaseSound'
  BY <1>1, <1>2, <1>3, <1>5, <1>8, PhaseSets
  DEF Sound, PhaseSound, ReservePhases, BoundPhases, EndPhases, SettledPhases, SameRun,
      AtCommand, machine, TargetContent, Running
<1>10. host' \in Hosts /\ launchers' \in Launchers /\ host' = host
  BY <1>1 DEF Sound, TypeOK, machine
<1>11. /\ run'.mutating => (k.ok => k.mutation)
       /\ ~run'.mutating => ~run.mutating
  BY <1>2, <1>3, <1>5, WorkFacts
<1>12. UNCHANGED <<marker, report, orphan>> /\ snapshot' = snapshot BY <1>1 DEF machine
<1> QED BY <1>1, <1>2, <1>3, <1>4, <1>6, <1>7, <1>9, <1>10, <1>11, <1>12, OwnMove

(* The nested query of a probe: it moves only the step. *)
LEMMA QueryStep ==
  ASSUME Sound, StartQuery \/ FinishQuery
  PROVE  Sound'
<1>1. PICK k : /\ journal' = [journal EXCEPT ![run.op] = k]
               /\ \/ k = CommandStarted(journal[run.op], "query")
                  \/ k = CommandFinished(journal[run.op], "query")
  BY DEF StartQuery, FinishQuery, Write
<1>2. PICK s : s \in {"query", "queried"} /\ run' = [run EXCEPT !.step = s]
  BY DEF StartQuery, FinishQuery
<1>3. /\ AtCommand /\ run.step # "ready" /\ run \in Runs
      /\ UNCHANGED <<report, marker, snapshot, machine>>
  BY DEF StartQuery, FinishQuery, Sound, TypeOK
<1>4. /\ SameRun(run') /\ run'.pc = run.pc /\ run'.step # "ready"
      /\ run'.goal = run.goal /\ run'.failed = run.failed
      /\ run'.compensated = run.compensated /\ run'.mutating = run.mutating
  BY <1>2, <1>3 DEF SameRun, Runs
<1>5. run.pc \in WorkPhases /\ "query" \in Commands
  BY <1>3, CommandIsOne DEF Commands, ReadCommands
<1>6. OwnUpdate(k) /\ ~Closed(k) /\ ~Terminal(k)
  BY <1>1, <1>5, StartUpdate, FinishUpdate
<1>7. /\ k.ok => journal[run.op].ok
      /\ journal[run.op].mutation => k.mutation
      /\ journal[run.op].artifacts => k.artifacts
      /\ Bound(journal[run.op]) => Bound(k)
  BY <1>1, <1>5, <1>6, WorkFacts, StartedFacts, FinishedFacts DEF OwnUpdate
<1>8. OwnClaim(k)
  BY <1>3, <1>5, <1>6, <1>7, OwnClaimed DEF machine
<1>9. Masked' BY <1>3 DEF Sound, Masked, machine
<1>10. journal'[run.op] = k
  BY <1>1, <1>5, WorkFacts DEF Sound, TypeOK
<1>11. PhaseSound'
  BY <1>3, <1>4, <1>5, <1>7, <1>10, PhaseSets
  DEF Sound, PhaseSound, ReservePhases, BoundPhases, EndPhases, SettledPhases, SameRun,
      AtCommand, machine, TargetContent, Running
<1>12. host' \in Hosts /\ launchers' \in Launchers /\ host' = host
  BY <1>3 DEF Sound, TypeOK, machine
<1>13. /\ run'.mutating => (k.ok => k.mutation)
       /\ ~run'.mutating => ~run.mutating
  BY <1>4, <1>5, <1>7, WorkFacts
<1>14. UNCHANGED <<marker, report, orphan>> /\ snapshot' = snapshot BY <1>3 DEF machine
<1> QED BY <1>1, <1>4, <1>5, <1>6, <1>8, <1>9, <1>11, <1>12, <1>13, <1>14, OwnMove

(* What every command's end has in common: its command-finished line.  What *)
(* is left to each action is where it goes and what it did to the host.     *)
LEMMA EndFacts ==
  ASSUME Sound, NEW p \in CommandPhases, Ends(p)
  PROVE  /\ run.pc = p /\ p \in WorkPhases /\ AtCommand /\ Running /\ run \in Runs
         /\ UNCHANGED <<report, marker, orphan>>
         /\ journal' = [journal EXCEPT ![run.op] = CommandFinished(journal[run.op], Command)]
         /\ journal'[run.op] = CommandFinished(journal[run.op], Command)
         /\ OwnUpdate(journal'[run.op])
         /\ ~Closed(journal'[run.op]) /\ ~Terminal(journal'[run.op])
         /\ journal'[run.op].ok => journal[run.op].ok
         /\ journal'[run.op].mutation = journal[run.op].mutation
         /\ journal'[run.op].artifacts = journal[run.op].artifacts
         /\ Bound(journal[run.op]) => Bound(journal'[run.op])
         /\ p \in HostPhases => run.mutating
<1> DEFINE k == CommandFinished(journal[run.op], Command)
<1>1. /\ run.pc = p /\ AtCommand /\ Running /\ run \in Runs /\ run.step # "ready"
      /\ UNCHANGED <<report, marker, orphan>>
      /\ journal' = [journal EXCEPT ![run.op] = k]
  BY DEF Ends, Write, AtCommand, Running, Sound, TypeOK
<1>2. p \in WorkPhases /\ Command \in Commands BY <1>1, CommandIsOne
<1>3. journal'[run.op] = k
  BY <1>1, <1>2, WorkFacts DEF Sound, TypeOK
<1>4. OwnUpdate(k) /\ ~Closed(k) /\ ~Terminal(k) BY <1>1, <1>2, FinishUpdate
<1>5. /\ k.ok => journal[run.op].ok
      /\ k.mutation = journal[run.op].mutation
      /\ k.artifacts = journal[run.op].artifacts
      /\ Bound(journal[run.op]) => Bound(k)
  BY <1>1, <1>2, <1>4, WorkFacts, FinishedFacts DEF OwnUpdate
<1>6. p \in HostPhases => run.mutating
  BY <1>1 DEF Sound, PhaseSound
<1> QED BY <1>1, <1>2, <1>3, <1>4, <1>5, <1>6

(* A command ends and the operation goes on. *)
LEMMA EndMove ==
  ASSUME Sound, NEW p \in CommandPhases, Ends(p), Moved(run'), run'.pc \in WorkPhases,
         \/ snapshot' = snapshot
         \/ /\ snapshot' = [snapshot EXCEPT ![run.op] = host] /\ host \in Recordable
            /\ (journal'[run.op].ok => journal'[run.op].artifacts),
         host' \in Hosts, launchers' \in Launchers, host' = host \/ run.mutating,
         Masked', PhaseSound'
  PROVE  Sound'
<1>1. OwnClaim(journal'[run.op])
  BY EndFacts, OwnClaimed
<1>2. /\ run'.mutating => (journal'[run.op].ok => journal'[run.op].mutation)
      /\ ~run'.mutating => ~run.mutating /\ host' = host
  BY EndFacts, WorkFacts DEF Moved
<1> QED BY <1>1, <1>2, EndFacts, OwnMove DEF Moved

(* A command ends and the process with it. *)
LEMMA EndExit ==
  ASSUME Sound, NEW p \in CommandPhases, Ends(p), Exit, UNCHANGED snapshot,
         host' \in Hosts, launchers' \in Launchers, host' = host \/ run.mutating,
         Masked'
  PROVE  Sound'
<1>1. OwnClaim(journal'[run.op])
  BY EndFacts, OwnClaimed
<1>2. report' \in [OperationIds -> {"none", "provisional", "complete", "incomplete"}]
  BY EndFacts DEF Sound, TypeOK
<1> QED BY <1>1, <1>2, EndFacts, OwnExit

(* The authorization probe of an install. *)
LEMMA GateEndsStep ==
  ASSUME Sound, GateEnds
  PROVE  Sound'
<1>1. "gate" \in CommandPhases /\ Ends("gate") /\ UNCHANGED <<snapshot, host, launchers>>
  BY PhaseSets DEF GateEnds
<1>2. /\ Moved(run') /\ run'.goal = run.goal /\ run'.compensated = run.compensated
      /\ run'.pc = "stage" \/ (run'.pc = "emit" /\ run'.failed)
  BY <1>1, EndFacts, GotoFacts, GotoFailedFacts, PhaseSet DEF GateEnds
<1>3. PhaseSound'
  BY <1>1, <1>2, EndFacts, PhaseSets
  DEF Sound, PhaseSound, ReservePhases, BoundPhases, EndPhases, SettledPhases, Moved,
      SameRun, Running
<1>4. Masked' /\ host' \in Hosts /\ launchers' \in Launchers
  BY <1>1 DEF Sound, TypeOK, Masked
<1> QED BY <1>1, <1>2, <1>3, <1>4, EndMove, WorkPhaseSet

(* A failed snapshot ends the snapshot command, or the operation with a report. *)
LEMMA SnapshotFailsFacts ==
  ASSUME run \in Runs, SnapshotFails
  PROVE  \/ Exit
         \/ /\ Moved(run') /\ run'.goal = run.goal /\ run'.compensated = run.compensated
            /\ run'.pc = "emit" /\ run'.failed
  BY GotoFailedFacts, PhaseSet DEF SnapshotFails, Exit

(* Package payloads are staged. *)
LEMMA StageEndsStep ==
  ASSUME Sound, StageEnds
  PROVE  Sound'
<1>1. "stage" \in CommandPhases /\ Ends("stage") /\ UNCHANGED <<snapshot, host, launchers>>
  BY PhaseSets DEF StageEnds
<1>2. Masked' /\ host' \in Hosts /\ launchers' \in Launchers
  BY <1>1 DEF Sound, TypeOK, Masked
<1>3. CASE Exit BY <1>1, <1>2, <1>3, EndExit
<1>4. CASE /\ Moved(run') /\ run'.goal = run.goal /\ run'.compensated = run.compensated
           /\ run'.pc = "persist" \/ (run'.pc = "emit" /\ run'.failed)
  <2>1. PhaseSound'
    BY <1>1, <1>4, EndFacts, PhaseSets
    DEF Sound, PhaseSound, ReservePhases, BoundPhases, EndPhases, SettledPhases, Moved,
        SameRun, Running
  <2> QED BY <1>1, <1>2, <1>4, <2>1, EndMove, WorkPhaseSet
<1> QED BY <1>1, <1>3, <1>4, EndFacts, SnapshotFailsFacts, GotoFacts, PhaseSet DEF StageEnds

(* The snapshot file is written, of a host no operation has touched. *)
LEMMA PersistEndsStep ==
  ASSUME Sound, PersistEnds
  PROVE  Sound'
<1>1. "persist" \in CommandPhases /\ Ends("persist") /\ UNCHANGED <<host, launchers>>
  BY PhaseSets DEF PersistEnds
<1>2. Masked' /\ host' \in Hosts /\ launchers' \in Launchers
  BY <1>1 DEF Sound, TypeOK, Masked
<1>3. run.kind # "rollback" /\ ~run.mutating /\ ~run.compensated
  BY <1>1, EndFacts, PhaseSets DEF Sound, PhaseSound, BoundPhases, EndPhases
<1>4. host \in Recordable /\ run.snap = run.op
  BY <1>1, <1>3, EndFacts, UntouchedIsWhole, WorkPhaseSet DEF Sound, RunIdentified
<1>5. journal'[run.op].ok => journal'[run.op].artifacts
  BY <1>1, EndFacts DEF Sound, PhaseSound
<1>6. CASE snapshot' = snapshot /\ Exit BY <1>1, <1>2, <1>6, EndExit
<1>7. CASE /\ snapshot' = snapshot
           /\ Moved(run') /\ run'.pc = "emit" /\ run'.failed
           /\ run'.compensated = run.compensated
  <2>1. PhaseSound'
    BY <1>1, <1>3, <1>7, EndFacts, PhaseSets
    DEF PhaseSound, ReservePhases, BoundPhases, EndPhases, SettledPhases, Moved,
        SameRun, Running
  <2> QED BY <1>1, <1>2, <1>7, <2>1, EndMove, WorkPhaseSet
<1>8. CASE /\ snapshot' = [snapshot EXCEPT ![run.op] = host]
           /\ Moved(run') /\ run'.pc = "bind" /\ run'.compensated = run.compensated
  <2>1. snapshot'[run.op] = host
    BY <1>1, <1>8, EndFacts, WorkFacts DEF Sound, TypeOK
  <2>2. PhaseSound'
    BY <1>1, <1>3, <1>4, <1>8, <2>1, EndFacts, PhaseSets
    DEF PhaseSound, ReservePhases, BoundPhases, EndPhases, SettledPhases, Moved,
        SameRun, Running
  <2> QED BY <1>1, <1>2, <1>4, <1>5, <1>8, <2>2, EndMove, WorkPhaseSet
<1> QED BY <1>1, <1>6, <1>7, <1>8, EndFacts, SnapshotFailsFacts, GotoFacts, PhaseSet
        DEF PersistEnds

(* _append_snapshot_binding: the journal names the snapshot before any change. *)
LEMMA BindStep ==
  ASSUME Sound, Bind
  PROVE  Sound'
<1> DEFINE k == SnapshotPersisted(journal[run.op], run.snap)
<1>1. /\ run.pc = "bind" /\ journal' = [journal EXCEPT ![run.op] = k]
      /\ UNCHANGED <<report, marker, snapshot, machine>> /\ run \in Runs
  BY DEF Bind, Write, Sound, TypeOK
<1>2. run.pc \in WorkPhases BY <1>1, WorkPhaseSet
<1>3. /\ Moved(run') /\ run'.goal = run.goal /\ run'.compensated = run.compensated
      /\ \/ run'.pc = "quiesce"
         \/ run'.pc = "emit" /\ (run'.failed \/ run.kind # "rollback")
  BY <1>1, GotoFacts, GotoFailedFacts, PhaseSet DEF Bind
<1>4. ~run.mutating /\ ~run.compensated /\ snapshot[run.snap] \in Recordable
      /\ (run.kind = "rollback" => Bound(journal[run.snap]))
  BY <1>1, PhaseSets DEF Sound, PhaseSound, BoundPhases, EndPhases
<1>5. /\ k \in Journals /\ k.begun /\ k.binding \in {NoOp, run.snap}
      /\ Bound(journal[run.op]) => Bound(k)
      /\ k.ok => journal[run.op].ok /\ Bound(k)
      /\ k.mutation = journal[run.op].mutation /\ k.artifacts = journal[run.op].artifacts
      /\ ~Closed(k) /\ ~Terminal(k)
  BY <1>2, WorkFacts, PersistedFacts, NoOpAssumption DEF Bound, Closed
<1> HIDE DEF k
<1>6. OwnUpdate(k) BY <1>4, <1>5 DEF OwnUpdate
<1>7. OwnClaim(k) BY <1>1, <1>2, <1>5, OwnClaimed DEF machine
<1>8. journal'[run.op] = k BY <1>1, <1>2, WorkFacts DEF Sound, TypeOK
<1>9. run.kind # "rollback" => ~Broken
  BY <1>2, <1>4, UntouchedIsWhole
<1>10. PhaseSound'
  BY <1>1, <1>3, <1>4, <1>5, <1>8, <1>9, PhaseSets
  DEF PhaseSound, ReservePhases, BoundPhases, EndPhases, SettledPhases, Moved, SameRun,
      Running, machine
<1>11. Masked' /\ host' \in Hosts /\ launchers' \in Launchers /\ host' = host
       /\ UNCHANGED <<marker, report, orphan>> /\ snapshot' = snapshot
  BY <1>1 DEF Sound, TypeOK, Masked, machine
<1>12. SameRun(run') /\ run'.pc \in WorkPhases /\ run'.mutating = run.mutating
       /\ (run'.goal = run.goal \/ (MayCompensate /\ run'.goal = "baseline"))
  BY <1>3, WorkPhaseSet DEF Moved
<1> QED BY <1>1, <1>2, <1>4, <1>5, <1>6, <1>7, <1>10, <1>11, <1>12, OwnMove

-----------------------------------------------------------------------------
(* Quarantine, mutation, verification, release. *)

(* Launchers that are behind masks stay there. *)
LEMMA StillMasked ==
  ASSUME Sound, launchers' \in PartlyMasked(launchers), host' = host
  PROVE  Masked' /\ launchers' \in Launchers
  BY LaunchersAreLaunchers DEF Sound, TypeOK, Masked

(* A command that masks launchers keeps them masked on a half-changed host. *)
LEMMA MaskingCommand ==
  ASSUME Sound, run.pc \in Quarantines,
         launchers' \in LaunchersAfter, host' = host
  PROVE  Masked' /\ launchers' \in Launchers
<1>1. launchers' \in PartlyMasked(launchers)
  BY DEF LaunchersAfter, PartlyMasked, Quarantines
<1> QED BY <1>1, StillMasked

(* An operation in a phase after its binding keeps what it is bound to. *)
LEMMA StaysBound ==
  ASSUME Sound, run.pc \in BoundPhases, Moved(run'), UNCHANGED snapshot,
         Bound(journal[run.op]) => Bound(journal'[run.op]),
         journal'[run.op].ok => journal[run.op].ok
  PROVE  /\ snapshot'[run'.snap] \in Recordable
         /\ journal'[run'.op].ok => Bound(journal'[run'.op])
  BY DEF Sound, PhaseSound, Moved, SameRun

(* The quarantine ends: all launchers masked, or the operation failed. *)
LEMMA QuiesceEndsStep ==
  ASSUME Sound, QuiesceEnds
  PROVE  Sound'
<1>1. "quiesce" \in CommandPhases /\ Ends("quiesce") /\ UNCHANGED <<snapshot, host>>
  BY PhaseSets DEF QuiesceEnds
<1>2. run.pc = "quiesce" /\ run \in Runs /\ run.mutating BY <1>1, EndFacts, PhaseSets
<1>3. /\ Moved(run') /\ run'.compensated = run.compensated
      /\ \/ run'.pc = "probe" /\ launchers' = "masked"
         \/ run'.pc \in {"quiesce", "emit", "requarantine"} /\ run'.failed
  BY <1>2, GotoFacts, PhaseFailedFacts, PhaseSet DEF QuiesceEnds
<1>4. Masked' /\ launchers' \in Launchers
  <2>1. CASE launchers' = "masked" BY <2>1 DEF Masked, Launchers
  <2>2. CASE launchers' \in LaunchersAfter BY <2>2, <1>1, <1>2, MaskingCommand DEF Quarantines
  <2> QED BY <2>1, <2>2 DEF QuiesceEnds
<1>5. /\ snapshot'[run'.snap] \in Recordable
      /\ journal'[run'.op].ok => Bound(journal'[run'.op])
  BY <1>1, <1>2, <1>3, EndFacts, StaysBound, PhaseSets DEF BoundPhases
<1>6. ~run.compensated BY <1>2 DEF Sound, PhaseSound, EndPhases
<1>7. PhaseSound'
  BY <1>2, <1>3, <1>5, <1>6, PhaseSets
  DEF PhaseSound, ReservePhases, BoundPhases, EndPhases, SettledPhases, Moved, SameRun,
      Running
<1>8. host' \in Hosts /\ host' = host BY <1>1 DEF Sound, TypeOK
<1> QED BY <1>1, <1>3, <1>4, <1>7, <1>8, EndMove, WorkPhaseSet

(* The workload probe behind the quarantine ends. *)
LEMMA ProbeEndsStep ==
  ASSUME Sound, ProbeEnds
  PROVE  Sound'
<1>1. "probe" \in CommandPhases /\ Ends("probe") /\ UNCHANGED <<snapshot, host, launchers>>
  BY PhaseSets DEF ProbeEnds
<1>2. run.pc = "probe" /\ run \in Runs BY <1>1, EndFacts
<1>3. /\ Moved(run') /\ run'.compensated = run.compensated
      /\ \/ run'.pc \in {"packages", "checkpoint", "mutate"}
         \/ run'.pc \in {"quiesce", "emit", "requarantine"} /\ run'.failed
  BY <1>2, GotoFacts, PhaseFailedFacts, PhaseSet DEF ProbeEnds, AfterProbe
<1>4. Masked' /\ host' \in Hosts /\ launchers' \in Launchers
  BY <1>1 DEF Sound, TypeOK, Masked
<1>5. /\ snapshot'[run'.snap] \in Recordable
      /\ journal'[run'.op].ok => Bound(journal'[run'.op])
  BY <1>1, <1>2, <1>3, EndFacts, StaysBound DEF BoundPhases
<1>6. ~run.compensated /\ (Alone => launchers' = "masked")
  BY <1>1, <1>2 DEF Sound, PhaseSound, EndPhases
<1>7. PhaseSound'
  BY <1>2, <1>3, <1>5, <1>6, PhaseSets
  DEF PhaseSound, ReservePhases, BoundPhases, EndPhases, SettledPhases, Moved, SameRun,
      Running
<1> QED BY <1>1, <1>3, <1>4, <1>7, EndMove, WorkPhaseSet

(* A package transaction ends; its scripts may have let a launcher out. *)
LEMMA PackagesEndsStep ==
  ASSUME Sound, PackagesEnds
  PROVE  Sound'
<1>1. "packages" \in CommandPhases /\ Ends("packages") /\ UNCHANGED snapshot
  BY PhaseSets DEF PackagesEnds
<1>2. /\ run.pc = "packages" /\ run \in Runs /\ run.mutating /\ Running
      /\ Alone => launchers \in {"masked", "scripted"}
      /\ launchers \in Launchers /\ ~run.compensated
  BY <1>1, EndFacts, PhaseSets DEF Sound, TypeOK, PhaseSound, EndPhases
<1>3. /\ Moved(run') /\ run'.compensated = run.compensated
      /\ \/ run'.pc \in {"packages", "checkpoint", "quiesce", "verify"}
         \/ run'.pc \in {"emit", "requarantine"} /\ run'.failed
  BY <1>2, GotoFacts, PhaseFailedFacts, PhaseSet DEF PackagesEnds
<1>4. host' \in Hosts
  <2>1. TargetContent \in Hosts BY <1>2, TargetIsWhole, PhaseSets DEF BoundPhases
  <2> QED BY <2>1, <1>2 DEF PackagesEnds, HostAfter, Hosts, Sound, TypeOK
<1>5. launchers' \in Launchers /\ (Alone => launchers' \in {"masked", "scripted"})
  <2>1. LaunchersAfter = Opened(launchers) BY <1>2 DEF LaunchersAfter, Quarantines
  <2>2. launchers' \in Opened(launchers) BY <2>1 DEF PackagesEnds
  <2> QED BY <1>2, <2>2 DEF Opened, Launchers
<1>6. Masked' BY <1>5 DEF Masked, Broken, Alone
<1>7. /\ snapshot'[run'.snap] \in Recordable
      /\ journal'[run'.op].ok => Bound(journal'[run'.op])
  BY <1>1, <1>2, <1>3, EndFacts, StaysBound, PhaseSets DEF BoundPhases
<1>8. PhaseSound'
  BY <1>2, <1>3, <1>5, <1>7, PhaseSets
  DEF PhaseSound, ReservePhases, BoundPhases, EndPhases, SettledPhases, Moved, SameRun,
      Running, Alone
<1> QED BY <1>1, <1>2, <1>3, <1>4, <1>5, <1>6, <1>8, EndMove, WorkPhaseSet

(* The second quarantine ends: all launchers masked, or the operation failed. *)
LEMMA CheckpointEndsStep ==
  ASSUME Sound, CheckpointEnds
  PROVE  Sound'
<1>1. "checkpoint" \in CommandPhases /\ Ends("checkpoint") /\ UNCHANGED <<snapshot, host>>
  BY PhaseSets DEF CheckpointEnds
<1>2. run.pc = "checkpoint" /\ run \in Runs /\ run.mutating BY <1>1, EndFacts, PhaseSets
<1>3. /\ Moved(run') /\ run'.compensated = run.compensated
      /\ \/ run'.pc \in {"mutate", "recheck"} /\ launchers' = "masked"
         \/ run'.pc \in {"quiesce", "emit", "requarantine"} /\ run'.failed
  BY <1>2, GotoFacts, PhaseFailedFacts, PhaseSet DEF CheckpointEnds, AfterCheckpoint
<1>4. Masked' /\ launchers' \in Launchers
  <2>1. CASE launchers' = "masked" BY <2>1 DEF Masked, Launchers
  <2>2. CASE launchers' \in LaunchersAfter
    BY <2>2, <1>1, <1>2, MaskingCommand DEF Quarantines
  <2> QED BY <2>1, <2>2 DEF CheckpointEnds
<1>5. /\ snapshot'[run'.snap] \in Recordable
      /\ journal'[run'.op].ok => Bound(journal'[run'.op])
  BY <1>1, <1>2, <1>3, EndFacts, StaysBound, PhaseSets DEF BoundPhases
<1>6. ~run.compensated BY <1>2 DEF Sound, PhaseSound, EndPhases
<1>7. PhaseSound'
  BY <1>2, <1>3, <1>5, <1>6, PhaseSets
  DEF PhaseSound, ReservePhases, BoundPhases, EndPhases, SettledPhases, Moved, SameRun,
      Running
<1>8. host' \in Hosts /\ host' = host BY <1>1 DEF Sound, TypeOK
<1> QED BY <1>1, <1>3, <1>4, <1>7, <1>8, EndMove, WorkPhaseSet

(* The workload probe behind the second quarantine ends. *)
LEMMA RecheckEndsStep ==
  ASSUME Sound, RecheckEnds
  PROVE  Sound'
<1>1. "recheck" \in CommandPhases /\ Ends("recheck") /\ UNCHANGED <<snapshot, host, launchers>>
  BY PhaseSets DEF RecheckEnds
<1>2. run.pc = "recheck" /\ run \in Runs BY <1>1, EndFacts
<1>3. /\ Moved(run') /\ run'.compensated = run.compensated
      /\ \/ run'.pc = "mutate"
         \/ run'.pc \in {"quiesce", "emit", "requarantine"} /\ run'.failed
  BY <1>2, GotoFacts, PhaseFailedFacts, PhaseSet DEF RecheckEnds
<1>4. Masked' /\ host' \in Hosts /\ launchers' \in Launchers
  BY <1>1 DEF Sound, TypeOK, Masked
<1>5. /\ snapshot'[run'.snap] \in Recordable
      /\ journal'[run'.op].ok => Bound(journal'[run'.op])
  BY <1>1, <1>2, <1>3, EndFacts, StaysBound DEF BoundPhases
<1>6. ~run.compensated /\ (Alone => launchers' = "masked")
  BY <1>1, <1>2 DEF Sound, PhaseSound, EndPhases
<1>7. PhaseSound'
  BY <1>2, <1>3, <1>5, <1>6, PhaseSets
  DEF PhaseSound, ReservePhases, BoundPhases, EndPhases, SettledPhases, Moved, SameRun,
      Running
<1> QED BY <1>1, <1>3, <1>4, <1>7, EndMove, WorkPhaseSet

(* A module or MIG command ends, behind masked launchers. *)
LEMMA MutateEndsStep ==
  ASSUME Sound, MutateEnds
  PROVE  Sound'
<1>1. "mutate" \in CommandPhases /\ Ends("mutate") /\ UNCHANGED <<snapshot, launchers>>
  BY PhaseSets DEF MutateEnds
<1>2. /\ run.pc = "mutate" /\ run \in Runs /\ run.mutating /\ Running
      /\ Alone => launchers = "masked"
      /\ launchers \in Launchers /\ ~run.compensated
  BY <1>1, EndFacts, PhaseSets DEF Sound, TypeOK, PhaseSound, EndPhases
<1>3. /\ Moved(run') /\ run'.compensated = run.compensated
      /\ \/ run'.pc \in {"mutate", "quiesce"}
         \/ run'.pc = "verify"
         \/ run'.pc \in {"emit", "requarantine"} /\ run'.failed
  BY <1>2, GotoFacts, PhaseFailedFacts, PhaseSet DEF MutateEnds
<1>4. host' \in Hosts
  <2>1. TargetContent \in Hosts BY <1>2, TargetIsWhole, PhaseSets DEF BoundPhases
  <2> QED BY <2>1, <1>2 DEF MutateEnds, HostAfter, Hosts, Sound, TypeOK
<1>5. Masked' /\ launchers' \in Launchers /\ (Alone => launchers' = "masked")
  BY <1>1, <1>2 DEF Masked, Broken, Alone
<1>6. /\ snapshot'[run'.snap] \in Recordable
      /\ journal'[run'.op].ok => Bound(journal'[run'.op])
  BY <1>1, <1>2, <1>3, EndFacts, StaysBound, PhaseSets DEF BoundPhases
<1>7. PhaseSound'
  BY <1>2, <1>3, <1>5, <1>6, PhaseSets
  DEF PhaseSound, ReservePhases, BoundPhases, EndPhases, SettledPhases, Moved, SameRun,
      Running
<1> QED BY <1>1, <1>2, <1>3, <1>4, <1>5, <1>7, EndMove, WorkPhaseSet

(* The quarantine refuses an unproven unit. *)
LEMMA QuiesceRefusedStep ==
  ASSUME Sound, QuiesceRefused
  PROVE  Sound'
<1>1. /\ UNCHANGED <<disk, machine>> /\ run.pc \in {"quiesce", "checkpoint"} /\ run' = PhaseFailed
      /\ run \in Runs
  BY DEF QuiesceRefused, Sound, TypeOK
<1>2. PhaseSound'
  BY <1>1, PhaseSets, PhaseFailedFacts
  DEF Sound, PhaseSound, Moved, SameRun, disk, machine, ReservePhases, BoundPhases,
      EndPhases, SettledPhases, Running
<1>3. Moved(run') /\ run'.pc \in WorkPhases
  BY <1>1, PhaseFailedFacts, WorkPhaseSet
<1> QED BY <1>1, <1>2, <1>3, QuietMove, WorkPhaseSet

(* Verification passes only on the target. *)
LEMMA VerifyCoreStep ==
  ASSUME Sound, VerifyCore
  PROVE  Sound'
<1>1. /\ UNCHANGED <<disk, machine>> /\ run.pc = "verify" /\ run \in Runs
  BY DEF VerifyCore, Sound, TypeOK
<1>2. /\ Moved(run') /\ run'.compensated = run.compensated
      /\ \/ run'.pc = "authorize" /\ run'.goal = run.goal /\ OnTarget
         \/ run'.pc \in {"quiesce", "emit", "requarantine"} /\ run'.failed
  BY <1>1, GotoFacts, PhaseFailedFacts, PhaseSet DEF VerifyCore
<1>3. PhaseSound'
  BY <1>1, <1>2, PhaseSets
  DEF Sound, PhaseSound, Moved, SameRun, disk, machine, ReservePhases, BoundPhases,
      EndPhases, SettledPhases, TargetContent, Running
<1> QED BY <1>1, <1>2, <1>3, QuietMove, WorkPhaseSet

(* _append_launcher_release_authorization, on a verified host. *)
LEMMA AuthorizeStep ==
  ASSUME Sound, Authorize
  PROVE  Sound'
<1> DEFINE k == ReleaseAuthorized(journal[run.op], ReleaseTarget, run.snap)
<1>1. /\ run.pc = "authorize" /\ journal' = [journal EXCEPT ![run.op] = k]
      /\ UNCHANGED <<report, marker, snapshot, machine>> /\ run \in Runs
      /\ run' = Goto("release")
  BY DEF Authorize, Write, Sound, TypeOK
<1>2. run.pc \in WorkPhases /\ run.pc \in BoundPhases /\ run.pc \in SettledPhases
  BY <1>1, WorkPhaseSet DEF BoundPhases, SettledPhases
<1>3. /\ Moved(run') /\ run'.goal = run.goal /\ run'.compensated = run.compensated
      /\ run'.pc = "release"
  BY <1>1, GotoFacts, PhaseSet
<1>4. ReleaseTarget \in ReleaseTargets
  BY DEF ReleaseTarget, ReleaseTargets
<1>5. /\ k \in Journals /\ k.begun /\ k.binding = journal[run.op].binding
      /\ k.ok => journal[run.op].ok
      /\ k.mutation = journal[run.op].mutation /\ k.artifacts = journal[run.op].artifacts
      /\ ~Closed(k) /\ ~Terminal(k)
  BY <1>2, <1>4, WorkFacts, AuthorizedFacts DEF Closed
<1> HIDE DEF k
<1>6. OwnUpdate(k) BY <1>2, <1>5, WorkFacts DEF OwnUpdate, Bound
<1>7. OwnClaim(k) BY <1>1, <1>2, <1>5, OwnClaimed DEF machine
<1>8. journal'[run.op] = k BY <1>1, <1>2, WorkFacts DEF Sound, TypeOK
<1>9. /\ snapshot'[run'.snap] \in Recordable
      /\ journal'[run'.op].ok => Bound(journal'[run'.op])
  BY <1>1, <1>2, <1>3, <1>5, <1>8, StaysBound DEF Bound
<1>10. PhaseSound'
  BY <1>1, <1>3, <1>9, PhaseSets
  DEF Sound, PhaseSound, ReservePhases, BoundPhases, EndPhases, SettledPhases, Moved,
      SameRun, Running, machine, TargetContent
<1>11. Masked' /\ host' \in Hosts /\ launchers' \in Launchers /\ host' = host
       /\ UNCHANGED <<marker, report, orphan>> /\ snapshot' = snapshot
  BY <1>1 DEF Sound, TypeOK, Masked, machine
<1>12. SameRun(run') /\ run'.pc \in WorkPhases /\ run'.mutating = run.mutating
       /\ (run'.goal = run.goal \/ (MayCompensate /\ run'.goal = "baseline"))
       /\ (run.mutating => (k.ok => k.mutation))
  BY <1>2, <1>3, <1>5, WorkFacts, WorkPhaseSet DEF Moved
<1> QED BY <1>1, <1>2, <1>5, <1>6, <1>7, <1>10, <1>11, <1>12, OwnMove

(* The launchers are let go only on a whole host. *)
LEMMA WholeHost ==
  ASSUME ~Broken'
  PROVE  Masked'
  BY DEF Masked

(* The launcher commit: unit after unit, then the joint proof. *)
LEMMA ReleaseEndsStep ==
  ASSUME Sound, ReleaseEnds
  PROVE  Sound'
<1>1. "release" \in CommandPhases /\ Ends("release") /\ UNCHANGED <<snapshot, host>>
  BY PhaseSets DEF ReleaseEnds
<1>2. /\ run.pc = "release" /\ run \in Runs /\ run.mutating
      /\ run.pc \in BoundPhases /\ run.pc \in SettledPhases
  BY <1>1, EndFacts, PhaseSets DEF BoundPhases, SettledPhases
<1>3. OnTarget /\ ~Broken BY <1>2, SettledIsWhole
<1>4. /\ Moved(run') /\ run'.goal = run.goal /\ run'.compensated = run.compensated
      /\ run'.pc \in {"release", "confirm", "unrelease"}
  BY <1>2, GotoFacts, GotoFailedFacts, PhaseSet DEF ReleaseEnds
<1>5. launchers' \in Launchers
  BY LaunchersAreLaunchers DEF ReleaseEnds, Sound, TypeOK, Launchers
<1>6. Masked' BY <1>1, <1>3, WholeHost
<1>7. /\ snapshot'[run'.snap] \in Recordable
      /\ journal'[run'.op].ok => Bound(journal'[run'.op])
  BY <1>1, <1>2, <1>4, EndFacts, StaysBound
<1>8. ~run.compensated BY <1>2 DEF Sound, PhaseSound, EndPhases
<1>9. PhaseSound'
  BY <1>1, <1>2, <1>3, <1>4, <1>7, <1>8, PhaseSets
  DEF PhaseSound, ReservePhases, BoundPhases, EndPhases, SettledPhases, Moved, SameRun,
      Running, TargetContent
<1>10. host' \in Hosts /\ host' = host BY <1>1 DEF Sound, TypeOK
<1> QED BY <1>1, <1>4, <1>5, <1>6, <1>9, <1>10, EndMove, WorkPhaseSet

(* A failed commit masks the launchers again. *)
LEMMA UnreleaseEndsStep ==
  ASSUME Sound, UnreleaseEnds
  PROVE  Sound'
<1>1. "unrelease" \in CommandPhases /\ Ends("unrelease") /\ UNCHANGED <<snapshot, host>>
  BY PhaseSets DEF UnreleaseEnds
<1>2. /\ run.pc = "unrelease" /\ run \in Runs
      /\ run.pc \in BoundPhases /\ run.pc \in SettledPhases
  BY <1>1, EndFacts, PhaseSets DEF BoundPhases, SettledPhases
<1>3. ~Broken BY <1>2, SettledIsWhole
<1>4. /\ Moved(run') /\ run'.compensated = run.compensated
      /\ run'.pc \in {"quiesce", "emit"}
  BY <1>2, GotoFacts, CompensateFacts, PhaseSet DEF UnreleaseEnds
<1>5. Masked' /\ launchers' \in Launchers
  BY <1>1, <1>2, MaskingCommand DEF UnreleaseEnds, Quarantines
<1>6. /\ snapshot'[run'.snap] \in Recordable
      /\ journal'[run'.op].ok => Bound(journal'[run'.op])
  BY <1>1, <1>2, <1>4, EndFacts, StaysBound
<1>7. ~run.compensated BY <1>2 DEF Sound, PhaseSound, EndPhases
<1>8. PhaseSound'
  BY <1>1, <1>3, <1>4, <1>6, <1>7, PhaseSets
  DEF PhaseSound, ReservePhases, BoundPhases, EndPhases, SettledPhases, Moved, SameRun,
      Running
<1>9. host' \in Hosts /\ host' = host BY <1>1 DEF Sound, TypeOK
<1> QED BY <1>1, <1>4, <1>5, <1>8, <1>9, EndMove, WorkPhaseSet

(* A failed operation masks the launchers again. *)
LEMMA RequarantineEndsStep ==
  ASSUME Sound, RequarantineEnds
  PROVE  Sound'
<1>1. "requarantine" \in CommandPhases /\ Ends("requarantine") /\ UNCHANGED <<snapshot, host>>
  BY PhaseSets DEF RequarantineEnds
<1>2. run.pc = "requarantine" /\ run \in Runs /\ run.failed /\ ~run.compensated
  BY <1>1, EndFacts DEF Sound, PhaseSound, EndPhases
<1>3. /\ Moved(run') /\ run'.compensated = run.compensated
      /\ run'.pc = "emit" /\ run'.failed
  <2>1. run' = Goto("emit") BY DEF RequarantineEnds
  <2> QED BY <2>1, <1>2, GotoFacts, PhaseSet
<1>4. Masked' /\ launchers' \in Launchers
  BY <1>1, <1>2, MaskingCommand DEF RequarantineEnds, Quarantines
<1>5. PhaseSound'
  BY <1>2, <1>3, PhaseSets
  DEF PhaseSound, ReservePhases, BoundPhases, EndPhases, SettledPhases, Moved, SameRun,
      Running
<1>6. host' \in Hosts /\ host' = host BY <1>1 DEF Sound, TypeOK
<1> QED BY <1>1, <1>3, <1>4, <1>5, <1>6, EndMove, WorkPhaseSet

(* That quarantine may refuse an unproven unit as well. *)
LEMMA RequarantineRefusedStep ==
  ASSUME Sound, RequarantineRefused
  PROVE  Sound'
<1>1. /\ UNCHANGED <<disk, machine>> /\ run.pc \in {"requarantine", "unrelease"}
      /\ run \in Runs
  BY DEF RequarantineRefused, Sound, TypeOK
<1>2. /\ Moved(run') /\ run'.compensated = run.compensated
      /\ \/ run'.pc = "quiesce" /\ run.pc = "unrelease"
         \/ run'.pc = "emit" /\ (run'.failed <=> run.failed)
  BY <1>1, GotoFacts, CompensateFacts, PhaseSet DEF RequarantineRefused
<1>3. run.pc = "unrelease" => ~Broken
  BY SettledIsWhole DEF SettledPhases
<1>4. PhaseSound'
  BY <1>1, <1>2, <1>3, PhaseSets
  DEF Sound, PhaseSound, Moved, SameRun, disk, machine, ReservePhases, BoundPhases,
      EndPhases, SettledPhases, Running
<1> QED BY <1>1, <1>2, <1>4, QuietMove, WorkPhaseSet

(* Full verification after the release. *)
LEMMA ConfirmStep ==
  ASSUME Sound, Confirm
  PROVE  Sound'
<1>1. run \in Runs /\ UNCHANGED <<disk, machine>> /\ run.pc = "confirm"
  BY DEF Sound, TypeOK, Confirm
<1>2. /\ Moved(run')
      /\ \/ run'.pc = "recover" /\ run'.goal = run.goal /\ run'.compensated = run.compensated
         \/ run'.pc = "emit" /\ run'.goal = run.goal
         \/ run'.pc = "quiesce" /\ run'.compensated = run.compensated
  <2>1. CASE run' = Goto("recover") BY <2>1, <1>1, GotoFacts, PhaseSet
  <2>2. CASE run' = [Goto("emit") EXCEPT !.compensated = TRUE]
    BY <2>2, <1>1, PhaseSet DEF Moved, SameRun, Goto, Runs
  <2>3. CASE run' = Goto("emit") BY <2>3, <1>1, GotoFacts, PhaseSet
  <2>4. CASE run' = GotoFailed("emit") BY <2>4, <1>1, GotoFailedFacts, PhaseSet
  <2>5. CASE MayCompensate /\ run' = Compensate(run) BY <2>5, <1>1, CompensateFacts
  <2> QED BY <2>1, <2>2, <2>3, <2>4, <2>5 DEF Confirm
<1>3. ~Broken
  BY <1>1, SettledIsWhole DEF SettledPhases
<1>4. PhaseSound'
  BY <1>1, <1>2, <1>3, PhaseSets
  DEF Sound, PhaseSound, Moved, SameRun, disk, machine, ReservePhases, BoundPhases,
      EndPhases, SettledPhases, TargetContent, Running
<1> QED BY <1>1, <1>2, <1>4, QuietMove, WorkPhaseSet

-----------------------------------------------------------------------------
(* Recovery and the report. *)

(* A recovery line in another journal, whether or not it is accepted. *)
LEMMA RecoveryLine ==
  ASSUME Sound, run.pc = "recover", NEW m \in run.recovering,
         NEW k, \/ k = journal[m]
                \/ k = OperationRecovered(journal[m], m, run.op, run.snap),
         journal' = [journal EXCEPT ![m] = k], UNCHANGED <<report, marker, snapshot, machine>>
  PROVE  /\ journal' \in [OperationIds -> Journals]
         /\ m # run.op /\ journal'[run.op] = journal[run.op]
         /\ Unresolved' \subseteq Unresolved
         /\ \A n \in OperationIds : journal'[n].binding = journal[n].binding
         /\ DiskSound' /\ Claimed' /\ OneAuthority' /\ Masked'
         /\ ~Broken
<1>1. /\ run.pc \in WorkPhases /\ ~Broken
      /\ m \in OperationIds /\ m # run.op /\ run.op \in OperationIds /\ m \in Unresolved
      /\ journal[m] \in Journals
  BY WorkPhaseSet, WorkFacts, SettledIsWhole DEF Sound, TypeOK, Runs, SettledPhases
<1>2. /\ k \in Journals /\ k.begun = journal[m].begun /\ k.binding = journal[m].binding
      /\ k.ok => journal[m].ok
      /\ k.mutation = journal[m].mutation /\ k.artifacts = journal[m].artifacts
      /\ Terminal(journal[m]) => Terminal(k)
  BY <1>1, RecoveredFacts
<1>3. /\ journal' \in [OperationIds -> Journals] /\ journal'[m] = k
      /\ \A n \in OperationIds \ {m} : journal'[n] = journal[n]
  BY <1>1, <1>2 DEF Sound, TypeOK
<1>4. Unresolved' \subseteq Unresolved
  BY <1>2, <1>3 DEF Unresolved, IsUnresolved, Sound, TypeOK
<1>5. DiskSound'
  <2> SUFFICES ASSUME NEW o \in OperationIds PROVE JournalSound(o)' BY DEF DiskSound
  <2>1. \A n \in OperationIds : Bound(journal[n]) => Bound(journal'[n])
    BY <1>2, <1>3 DEF Bound
  <2>2. JournalSound(o) /\ journal[o] \in Journals BY DEF Sound, DiskSound, TypeOK
  <2>3. Bound(journal[o]) => journal[o].binding \in OperationIds
    BY <2>2 DEF Bound, Journals
  <2>4. CASE o # m
    BY <2>1, <2>2, <2>3, <2>4, <1>3 DEF JournalSound
  <2>5. CASE o = m
    <3>1. journal[m].begun
      BY <1>1, <2>2, <2>5 DEF JournalSound, Unresolved
    <3> QED BY <2>1, <2>2, <2>3, <2>5, <3>1, <1>2, <1>3 DEF JournalSound, Bound
  <2> QED BY <2>4, <2>5
<1>6. OneAuthority'
  BY <1>2, <1>3, <1>4 DEF Sound, TypeOK, OneAuthority, Unresolved, Bound
<1>7. Claimed' /\ Masked'
  BY <1>1 DEF Claimed, Masked, machine
<1> QED BY <1>1, <1>2, <1>3, <1>4, <1>5, <1>6, <1>7

(* _mark_operations_recovered resolves another operation's journal, when the *)
(* host is whole.                                                            *)
LEMMA MarkRecoveredStep ==
  ASSUME Sound, NEW m \in OperationIds, MarkRecovered(m)
  PROVE  Sound'
<1> DEFINE k == OperationRecovered(journal[m], m, run.op, run.snap)
<1>1. /\ run.pc = "recover" /\ m \in run.recovering /\ run \in Runs
      /\ journal' = [journal EXCEPT ![m] = k]
      /\ run' = [run EXCEPT !.recovering = @ \ {m}]
      /\ UNCHANGED <<report, marker, snapshot, machine>>
  BY DEF MarkRecovered, Sound, TypeOK
<1>2. /\ run' \in Runs /\ run'.pc = "recover" /\ run'.op = run.op /\ run'.kind = run.kind
      /\ run'.snap = run.snap /\ run'.goal = run.goal /\ run'.mutating = run.mutating
      /\ run'.compensated = run.compensated /\ run'.step = run.step
      /\ run'.recovering = run.recovering \ {m}
  BY <1>1 DEF Runs
<1>3. /\ journal' \in [OperationIds -> Journals]
      /\ m # run.op /\ journal'[run.op] = journal[run.op]
      /\ Unresolved' \subseteq Unresolved
      /\ \A n \in OperationIds : journal'[n].binding = journal[n].binding
      /\ DiskSound' /\ Claimed' /\ OneAuthority' /\ Masked'
      /\ ~Broken
  BY <1>1, RecoveryLine
<1>4. TypeOK' /\ RunIdentified' /\ ScanSound'
  BY <1>1, <1>2, <1>3 DEF Sound, TypeOK, RunIdentified, ScanSound, ScanPhases, machine
<1>5. Unresolved \ {m} \subseteq Unresolved'
  BY <1>1 DEF Unresolved, IsUnresolved, Sound, TypeOK
<1>6. WorkSound'
  <2>1. \A n \in Unresolved' \ {run.op} :
          run.kind = "rollback" /\ journal'[n].binding = run.snap
    BY <1>1, <1>3, WorkPhaseSet DEF Sound, TypeOK, WorkSound, Unresolved
  <2>2. ClaimedByAnother' BY <1>1, <1>3 DEF ClaimedByAnother, machine
  <2> QED BY <1>1, <1>2, <1>3, <1>5, <2>1, <2>2, WorkFacts, WorkPhaseSet DEF WorkSound
<1>7. PhaseSound'
  BY <1>1, <1>2, <1>3, PhaseSets
  DEF Sound, PhaseSound, ReservePhases, BoundPhases, EndPhases, SettledPhases, machine,
      TargetContent, Running, Bound
<1> QED BY <1>1, <1>3, <1>4, <1>6, <1>7 DEF Sound, machine

(* The same with an append that fails or is uncertain. *)
LEMMA MarkRecoveredFailsStep ==
  ASSUME Sound, NEW m \in OperationIds, MarkRecoveredFails(m)
  PROVE  Sound'
<1>1. /\ run.pc = "recover" /\ m \in run.recovering
      /\ Exit /\ UNCHANGED <<report, marker, snapshot, machine>>
  BY DEF MarkRecoveredFails
<1>2. PICK k : /\ journal' = [journal EXCEPT ![m] = k]
               /\ \/ k = journal[m]
                  \/ k = OperationRecovered(journal[m], m, run.op, run.snap)
  BY DEF MarkRecoveredFails, AppendedOrNot
<1>3. /\ journal' \in [OperationIds -> Journals]
      /\ DiskSound' /\ Claimed' /\ OneAuthority' /\ Masked'
  BY <1>1, <1>2, RecoveryLine
<1>4. TypeOK'
  BY <1>1, <1>3, ExitFacts DEF Sound, TypeOK, machine
<1> QED BY <1>1, <1>3, <1>4, ExitFacts DEF Sound, machine

(* Every recovered journal is marked. *)
LEMMA AllRecoveredStep ==
  ASSUME Sound, AllRecovered
  PROVE  Sound'
<1>1. run \in Runs /\ UNCHANGED <<disk, machine>> /\ run.pc = "recover" /\ run' = Goto("emit")
  BY DEF Sound, TypeOK, AllRecovered
<1>2. /\ Moved(run') /\ run'.pc = "emit"
  BY <1>1, GotoFacts, PhaseSet
<1>3. ~Broken
  BY <1>1, SettledIsWhole DEF SettledPhases
<1>4. PhaseSound'
  BY <1>1, <1>2, <1>3, PhaseSets
  DEF Sound, PhaseSound, Moved, SameRun, machine, ReservePhases, BoundPhases, EndPhases,
      SettledPhases, Running
<1> QED BY <1>1, <1>2, <1>4, QuietMove, WorkPhaseSet

(* Steps between the end phases, which leave the journal alone. *)
LEMMA EndPhaseMove ==
  ASSUME Sound, run.pc \in EndPhases, run'.pc \in EndPhases, Moved(run'),
         run'.failed <=> run.failed, run'.compensated = run.compensated,
         UNCHANGED <<journal, marker, snapshot, host, orphan>>,
         report' \in [OperationIds -> {"none", "provisional", "complete", "incomplete"}],
         launchers' \in Launchers, Masked',
         run'.pc = "complete" /\ report'[run.op] # "incomplete" => ClaimedByAnother
  PROVE  Sound'
<1> DEFINE k == journal[run.op]
<1>1. run.pc \in WorkPhases /\ run'.pc \in WorkPhases BY WorkPhaseSet DEF EndPhases
<1>2. journal' = [journal EXCEPT ![run.op] = k]
  BY <1>1, WorkFacts DEF Sound, TypeOK
<1>3. OwnUpdate(k) /\ ~Closed(k) BY <1>1, KeepUpdate, WorkFacts
<1>4. OwnClaim(k) BY <1>1, <1>3, OwnClaimed, WorkFacts
<1>5. /\ DiskSound' /\ OneAuthority' /\ Claimed' /\ Unresolved' = Unresolved
  <2>1. DiskSound' /\ OneAuthority' /\ Claimed' BY <1>1, <1>2, <1>3, <1>4, OwnStep
  <2>2. Unresolved' = Unresolved BY DEF Unresolved, IsUnresolved
  <2> QED BY <2>1, <2>2
<1>6. TypeOK' /\ RunIdentified' /\ ScanSound'
  BY DEF Sound, TypeOK, RunIdentified, ScanSound, ScanPhases, EndPhases, Moved, SameRun,
         MayCompensate
<1>7. WorkSound'
  BY <1>1, <1>5, WorkPhaseSet
  DEF Sound, WorkSound, ClaimedByAnother, EndPhases, Moved, SameRun, ReservePhases
<1>8. PhaseSound'
  BY <1>5, PhaseSets
  DEF Sound, PhaseSound, ReservePhases, BoundPhases, EndPhases, SettledPhases, Moved,
      SameRun, Running, ClaimedByAnother
<1> QED BY <1>5, <1>6, <1>7, <1>8 DEF Sound

(* emit_report writes the final report. *)
LEMMA WriteReportStep ==
  ASSUME Sound, WriteReport
  PROVE  Sound'
<1>1. /\ run \in Runs /\ run.pc = "emit" /\ run' = Goto("complete")
      /\ UNCHANGED <<journal, marker, snapshot, machine>>
  BY DEF WriteReport, Sound, TypeOK
<1>2. PICK i \in Incomplete :
        report' = [report EXCEPT ![run.op] = IF i THEN "incomplete" ELSE "complete"]
  BY DEF WriteReport
<1>3. /\ Moved(run') /\ run'.pc = "complete" /\ (run'.failed <=> run.failed)
      /\ run'.compensated = run.compensated
  BY <1>1, GotoFacts, PhaseSet
<1>4. run.pc \in WorkPhases /\ run.op \in OperationIds
  BY <1>1, WorkPhaseSet, WorkFacts
<1>5. report'[run.op] = IF i THEN "incomplete" ELSE "complete"
  BY <1>2, <1>4 DEF Sound, TypeOK
<1>6. /\ report' \in [OperationIds -> {"none", "provisional", "complete", "incomplete"}]
      /\ launchers' \in Launchers
  BY <1>1, <1>2, <1>4 DEF Sound, TypeOK, machine
<1>7. ~i => ClaimedByAnother
  <2> SUFFICES ASSUME ~i, Broken PROVE \E m \in Unresolved : m # run.op
    BY DEF ClaimedByAnother
  <2>1. run.failed /\ ~run.compensated
    BY <1>1 DEF Sound, PhaseSound, EndPhases
  <2>2. ~run.mutating
    BY <2>1, <1>1 DEF Incomplete, Runs
  <2> QED BY <2>2, <1>4, WorkFacts DEF ClaimedByAnother
<1>8. Masked' BY <1>1 DEF Sound, Masked, machine
<1> QED BY <1>1, <1>3, <1>5, <1>6, <1>7, <1>8, EndPhaseMove DEF EndPhases, machine

(* The two lines an operation ends its journal with. *)
LEMMA LastLine ==
  ASSUME Sound, run.pc \in EndPhases, host' = host,
         NEW k, \/ k = journal[run.op]
                \/ k = PersistenceFailed(journal[run.op])
                \/ /\ k = OperationCompleted(journal[run.op], report[run.op] = "incomplete")
                   /\ run.pc = "complete"
  PROVE  OwnUpdate(k) /\ OwnClaim(k)
<1>1. run.pc \in WorkPhases BY WorkPhaseSet DEF EndPhases
<1>2. CASE k = journal[run.op]
  BY <1>1, <1>2, KeepUpdate, OwnClaimed, WorkFacts
<1>3. CASE k = PersistenceFailed(journal[run.op])
  <2>1. OwnUpdate(k) BY <1>1, <1>3, WorkFacts, FailedFacts DEF OwnUpdate, Bound
  <2>2. ~Terminal(k) /\ (k.ok => journal[run.op].ok) /\ k.mutation = journal[run.op].mutation
    BY <1>1, <1>3, WorkFacts, FailedFacts
  <2> QED BY <1>1, <2>1, <2>2, OwnClaimed
<1>4. CASE /\ k = OperationCompleted(journal[run.op], report[run.op] = "incomplete")
           /\ run.pc = "complete"
  <2> DEFINE r == report[run.op]
  <2>1. /\ k \in Journals /\ k.begun = journal[run.op].begun
        /\ k.binding = journal[run.op].binding
        /\ k.ok => journal[run.op].ok
        /\ k.ok /\ r = "incomplete" => Bound(k) /\ k.mutation
        /\ k.ok /\ r # "incomplete" => k.mutation = journal[run.op].mutation
        /\ k.artifacts = journal[run.op].artifacts
        /\ r = "incomplete" => ~Terminal(k)
    BY <1>1, <1>4, WorkFacts
    DEF OperationCompleted, Read, Journals, Closed, Terminal, Sealed, Completed,
        Recovered, Bound, NoCommand
  <2>2. r # "incomplete" => ClaimedByAnother
    BY <1>4 DEF Sound, PhaseSound
  <2> HIDE DEF r
  <2>3. OwnUpdate(k) BY <1>1, <2>1, WorkFacts DEF OwnUpdate, Bound
  <2>4. OwnClaim(k) BY <1>1, <2>1, <2>2 DEF OwnClaim, ClaimedByAnother, Alone
  <2> QED BY <2>3, <2>4
<1> QED BY <1>2, <1>3, <1>4

(* The operation's last line and the end of the process. *)
LEMMA LastExit ==
  ASSUME Sound, run.pc \in EndPhases,
         NEW k, \/ k = journal[run.op]
                \/ k = PersistenceFailed(journal[run.op])
                \/ /\ k = OperationCompleted(journal[run.op], report[run.op] = "incomplete")
                   /\ run.pc = "complete",
         journal' = [journal EXCEPT ![run.op] = k],
         UNCHANGED <<marker, snapshot, host, orphan>>,
         report' \in [OperationIds -> {"none", "provisional", "complete", "incomplete"}],
         launchers' \in Launchers, Masked', Exit
  PROVE  Sound'
<1>1. run.pc \in WorkPhases BY WorkPhaseSet DEF EndPhases
<1>2. OwnUpdate(k) /\ OwnClaim(k) BY LastLine
<1>3. host' \in Hosts BY DEF Sound, TypeOK
<1> QED BY <1>1, <1>2, <1>3, OwnExit

(* operation-completed, or report-persistence-failed. *)
LEMMA CompleteStep ==
  ASSUME Sound, Complete \/ RecordPersistenceFailure \/ RecordPersistenceFailureFails
  PROVE  Sound'
<1>1. run.pc \in EndPhases /\ Exit /\ UNCHANGED <<report, marker, snapshot, machine>>
  BY DEF Complete, RecordPersistenceFailure, RecordPersistenceFailureFails, EndPhases
<1>2. PICK k : /\ journal' = [journal EXCEPT ![run.op] = k]
               /\ \/ k = journal[run.op]
                  \/ k = PersistenceFailed(journal[run.op])
                  \/ /\ k = OperationCompleted(journal[run.op], report[run.op] = "incomplete")
                     /\ run.pc = "complete"
  BY PhaseSets DEF Complete, RecordPersistenceFailure, RecordPersistenceFailureFails, Write,
         AppendedOrNot, Appended, AtCommand
<1>3. /\ Masked' /\ launchers' \in Launchers
      /\ report' \in [OperationIds -> {"none", "provisional", "complete", "incomplete"}]
  BY <1>1 DEF Sound, TypeOK, Masked, machine
<1> QED BY <1>1, <1>2, <1>3, LastExit DEF machine

(* Launchers left alone or masked again, on an unchanged host. *)
LEMMA MaskedAgain ==
  ASSUME Sound, launchers' \in IF run.mutating THEN PartlyMasked(launchers) ELSE {launchers},
         host' = host
  PROVE  Masked' /\ launchers' \in Launchers
<1>1. launchers' \in PartlyMasked(launchers) BY DEF PartlyMasked
<1> QED BY <1>1, StillMasked

(* The report cannot be written. *)
LEMMA WriteReportFailsStep ==
  ASSUME Sound, WriteReportFails
  PROVE  Sound'
<1>1. /\ run \in Runs /\ run.pc = "emit" /\ run' = Goto("persistenceFailed")
      /\ UNCHANGED <<disk, host, orphan>>
      /\ launchers' \in IF run.mutating THEN PartlyMasked(launchers) ELSE {launchers}
  BY DEF WriteReportFails, Sound, TypeOK
<1>2. /\ Moved(run') /\ run'.pc = "persistenceFailed" /\ (run'.failed <=> run.failed)
      /\ run'.compensated = run.compensated
  BY <1>1, GotoFacts, PhaseSet
<1>3. Masked' /\ launchers' \in Launchers BY <1>1, MaskedAgain
<1>4. report' \in [OperationIds -> {"none", "provisional", "complete", "incomplete"}]
  BY <1>1 DEF Sound, TypeOK, disk
<1> QED BY <1>1, <1>2, <1>3, <1>4, EndPhaseMove DEF EndPhases, disk

(* The completion cannot be appended, or it is uncertain whether it was. *)
LEMMA CompleteFailsStep ==
  ASSUME Sound, CompleteFails
  PROVE  Sound'
<1>1. /\ run \in Runs /\ run.pc = "complete"
      /\ UNCHANGED <<marker, snapshot, host, orphan>>
      /\ report' \in {report, [report EXCEPT ![run.op] = "incomplete"]}
      /\ launchers' \in IF run.mutating THEN PartlyMasked(launchers) ELSE {launchers}
  BY DEF CompleteFails, Sound, TypeOK
<1>2. Masked' /\ launchers' \in Launchers BY <1>1, MaskedAgain
<1>3. report' \in [OperationIds -> {"none", "provisional", "complete", "incomplete"}]
  BY <1>1 DEF Sound, TypeOK
<1>4. CASE run' = Goto("persistenceFailed") /\ UNCHANGED journal
  <2>1. /\ Moved(run') /\ run'.pc = "persistenceFailed" /\ (run'.failed <=> run.failed)
        /\ run'.compensated = run.compensated
    BY <1>1, <1>4, GotoFacts, PhaseSet
  <2> QED BY <1>1, <1>2, <1>3, <1>4, <2>1, EndPhaseMove DEF EndPhases
<1>5. CASE Exit /\ \E j \in AppendedOrNot(run.op, Appended) : Write(j)
  <2>1. Appended = OperationCompleted(journal[run.op], report[run.op] = "incomplete")
    BY <1>1, PhaseSets DEF Appended, AtCommand
  <2>2. PICK k : /\ journal' = [journal EXCEPT ![run.op] = k]
                 /\ k = journal[run.op] \/ k = Appended
    BY <1>5 DEF Write, AppendedOrNot
  <2> QED BY <1>1, <1>2, <1>3, <1>5, <2>1, <2>2, LastExit DEF EndPhases
<1> QED BY <1>4, <1>5 DEF CompleteFails

-----------------------------------------------------------------------------
(* Crashes. *)

(* However a command ends, the host is as before or this operation, in its *)
(* mutation, changed it with the launchers behind masks but for scripts.   *)
LEMMA AfterHost ==
  ASSUME Sound, host' \in HostAfter
  PROVE  /\ host' \in Hosts
         /\ \/ host' = host
            \/ /\ run.pc \in {"packages", "mutate"} /\ Running /\ run.mutating
               /\ Alone => LaunchersAfter \subseteq {"masked", "scripted"}
<1>1. CASE run.pc \in {"packages", "mutate"} /\ Running
  <2>1. TargetContent \in Hosts BY <1>1, TargetIsWhole, PhaseSets DEF BoundPhases
  <2>2. host' \in Hosts BY <2>1 DEF HostAfter, Hosts, Sound, TypeOK
  <2>3. run.mutating /\ (Alone => launchers \in {"masked", "scripted"})
    BY <1>1, PhaseSets DEF Sound, PhaseSound, Running
  <2>4. Alone => LaunchersAfter \subseteq {"masked", "scripted"}
    BY <1>1, <2>3 DEF LaunchersAfter, Opened, Quarantines
  <2> QED BY <1>1, <2>2, <2>3, <2>4
<1>2. CASE ~(run.pc \in {"packages", "mutate"} /\ Running)
  BY <1>2 DEF HostAfter, Sound, TypeOK
<1> QED BY <1>1, <1>2

(* However a command is interrupted, launchers on a half-changed host are masked. *)
LEMMA AfterLaunchers ==
  ASSUME Sound, host' \in HostAfter, NEW l \in LaunchersAfter,
         launchers' \in PartlyMasked(l)
  PROVE  Masked' /\ launchers' \in Launchers
<1>1. launchers' \in Launchers
  BY LaunchersAreLaunchers DEF Sound, TypeOK
<1>2. Masked'
  <2>1. CASE host' = host
    <3>1. CASE run.pc = "release"
      BY <2>1, <3>1, SettledIsWhole DEF SettledPhases, Masked
    <3>2. CASE run.pc # "release"
      <4>1. launchers \in {"masked", "scripted"} => l \in {"masked", "scripted"}
        BY <3>2 DEF LaunchersAfter, PartlyMasked, Opened
      <4> QED BY <2>1, <4>1, LaunchersAreLaunchers DEF Sound, Masked
    <3> QED BY <3>1, <3>2
  <2>2. CASE host' # host
    BY <2>2, AfterHost, LaunchersAreLaunchers DEF Masked, Broken, Alone
  <2> QED BY <2>1, <2>2
<1> QED BY <1>1, <1>2

(* However a command is interrupted, the snapshot file is whole or absent. *)
LEMMA AfterSnapshot ==
  ASSUME Sound, snapshot' \in SnapshotAfter, NEW k,
         k.ok => journal[run.op].ok, journal[run.op].artifacts => k.artifacts
  PROVE  \/ snapshot' = snapshot
         \/ /\ snapshot' = [snapshot EXCEPT ![run.op] = host]
            /\ host \in Recordable /\ (k.ok => k.artifacts)
<1>1. CASE run.pc = "persist" /\ Running
  <2>1. run.kind # "rollback" /\ ~run.mutating /\ run.pc \in WorkPhases
    BY <1>1, PhaseSets, WorkPhaseSet DEF Sound, PhaseSound, BoundPhases, EndPhases
  <2>2. host \in Recordable BY <2>1, UntouchedIsWhole
  <2>3. k.ok => k.artifacts BY <1>1 DEF Sound, PhaseSound
  <2> QED BY <2>2, <2>3, <1>1 DEF SnapshotAfter
<1>2. CASE ~(run.pc = "persist" /\ Running)
  BY <1>2 DEF SnapshotAfter
<1> QED BY <1>1, <1>2

(* The process ends, or turns to the launchers, wherever its command was. *)
LEMMA CrashInWork ==
  ASSUME Sound, run.pc \in WorkPhases, Exit \/ Raised,
         NEW k, OwnUpdate(k), ~Closed(k),
         journal[run.op].mutation => k.mutation,
         journal' = [journal EXCEPT ![run.op] = k],
         host' \in HostAfter, snapshot' \in SnapshotAfter,
         NEW l \in LaunchersAfter, launchers' \in PartlyMasked(l),
         UNCHANGED <<report, marker, orphan>>
  PROVE  Sound'
<1>1. ~Terminal(k) BY DEF Closed
<1>2. k.ok => journal[run.op].ok BY DEF OwnUpdate
<1>3. Masked' /\ launchers' \in Launchers BY AfterLaunchers
<1>4. host' \in Hosts /\ (host' = host \/ run.mutating) BY AfterHost
<1>5. OwnClaim(k) BY <1>1, <1>2, <1>4, OwnClaimed
<1>6. \/ snapshot' = snapshot
      \/ /\ snapshot' = [snapshot EXCEPT ![run.op] = host]
         /\ host \in Recordable /\ (k.ok => k.artifacts)
  BY <1>2, AfterSnapshot DEF OwnUpdate
<1>7. report' \in [OperationIds -> {"none", "provisional", "complete", "incomplete"}]
  BY DEF Sound, TypeOK
<1>8. CASE Exit
  BY <1>3, <1>4, <1>5, <1>6, <1>7, <1>8, OwnExit
<1>9. CASE run.pc \in {"release", "unrelease"} /\ run' = GotoFailed("abort")
  <2>1. Moved(run') /\ run'.pc = "abort" /\ run'.compensated = run.compensated
    BY <1>9, GotoFailedFacts, WorkFacts, PhaseSet
  <2>2. host' = host /\ snapshot' = snapshot
    BY <1>9 DEF HostAfter, SnapshotAfter
  <2>3. journal'[run.op] = k BY WorkFacts DEF Sound, TypeOK
  <2>4. run.pc \in BoundPhases BY <1>9, PhaseSets DEF BoundPhases
  <2>5. /\ snapshot'[run'.snap] \in Recordable
        /\ journal'[run'.op].ok => Bound(journal'[run'.op])
    BY <1>2, <2>1, <2>2, <2>3, <2>4, StaysBound DEF OwnUpdate
  <2>6. ~run.compensated BY <1>9 DEF Sound, PhaseSound, EndPhases
  <2>7. PhaseSound'
    BY <2>1, <2>5, <2>6, PhaseSets
    DEF PhaseSound, ReservePhases, BoundPhases, EndPhases, SettledPhases, Moved, SameRun,
        Running
  <2>8. /\ SameRun(run') /\ run'.pc \in WorkPhases /\ run'.mutating = run.mutating
        /\ (run'.goal = run.goal \/ (MayCompensate /\ run'.goal = "baseline"))
        /\ (run.mutating => (k.ok => k.mutation))
    BY <1>2, <2>1, WorkFacts, WorkPhaseSet DEF Moved
  <2> QED BY <1>3, <1>4, <1>5, <2>2, <2>7, <2>8, OwnMove
<1> QED BY <1>8, <1>9 DEF Raised, Exit

(* Outside the work phases no command runs. *)
LEMMA CrashBefore ==
  ASSUME Sound, run.pc \notin WorkPhases, Exit \/ Raised,
         UNCHANGED <<journal, report, marker, orphan>>,
         host' \in HostAfter, snapshot' \in SnapshotAfter, launchers' \in LaunchersAfter
  PROVE  Sound'
<1>1. ~Running /\ run.pc \notin {"release", "unrelease", "persist", "packages", "mutate"}
  BY WorkPhaseSet, PhaseSets DEF Running, AtCommand
<1>2. UNCHANGED <<disk, machine>>
  <2>1. host' = host BY <1>1 DEF HostAfter
  <2>2. snapshot' = snapshot BY <1>1 DEF SnapshotAfter
  <2>3. launchers' = launchers BY <1>1 DEF LaunchersAfter
  <2> QED BY <2>1, <2>2, <2>3 DEF disk, machine
<1>3. Exit BY <1>1 DEF Raised, Exit
<1> QED BY <1>2, <1>3, QuietExit

(* Masking what an interrupted command left. *)
LEMMA LaunchersAfterMasking ==
  \A l : l \in PartlyMasked(l)
  BY DEF PartlyMasked

(* The machine stops. *)
LEMMA PowerLossStep ==
  ASSUME Sound, PowerLoss
  PROVE  Sound'
<1>1. /\ Exit /\ UNCHANGED <<journal, report, marker, orphan>>
      /\ host' \in HostAfter /\ launchers' \in LaunchersAfter /\ snapshot' \in SnapshotAfter
  BY DEF PowerLoss
<1>2. CASE run.pc \in WorkPhases
  <2>1. journal' = [journal EXCEPT ![run.op] = journal[run.op]]
    BY <1>1, <1>2, WorkFacts DEF Sound, TypeOK
  <2>2. OwnUpdate(journal[run.op]) /\ ~Closed(journal[run.op])
    BY <1>2, KeepUpdate, WorkFacts
  <2> QED BY <1>1, <1>2, <2>1, <2>2, LaunchersAfterMasking, CrashInWork
<1> QED BY <1>1, <1>2, CrashBefore

(* A signal interrupts the process. *)
LEMMA SignalStep ==
  ASSUME Sound, Signal
  PROVE  Sound'
<1>1. /\ Raised /\ UNCHANGED <<report, marker, orphan>>
      /\ host' \in HostAfter /\ snapshot' \in SnapshotAfter
  BY DEF Signal
<1>2. PICK l \in LaunchersAfter :
        launchers' \in IF run.pc \in GatePhases THEN PartlyMasked(l) ELSE {l}
  BY DEF Signal
<1>3. launchers' \in PartlyMasked(l) BY <1>2, LaunchersAfterMasking
<1>4. CASE run.pc \in WorkPhases
  <2> DEFINE k == IF run.pc = "stage" /\ Running
                  THEN CommandFinished(journal[run.op], Command) ELSE journal[run.op]
  <2>1. journal' = [journal EXCEPT ![run.op] = k]
    BY <1>4, WorkFacts DEF Signal, Write, Sound, TypeOK
  <2>2. /\ OwnUpdate(k) /\ ~Closed(k)
        /\ journal[run.op].mutation => k.mutation
    <3>1. CASE run.pc = "stage" /\ Running
      <4>1. Command \in Commands BY <3>1, CommandIsOne DEF Running
      <4> QED BY <1>4, <3>1, <4>1, FinishUpdate, FinishedFacts, WorkFacts
    <3>2. CASE ~(run.pc = "stage" /\ Running)
      BY <1>4, <3>2, KeepUpdate, WorkFacts
    <3> QED BY <3>1, <3>2
  <2> HIDE DEF k
  <2> QED BY <1>1, <1>2, <1>3, <1>4, <2>1, <2>2, CrashInWork
<1>5. CASE run.pc \notin WorkPhases
  <2>1. UNCHANGED journal /\ launchers' \in LaunchersAfter
    BY <1>2, <1>5, WorkPhaseSet DEF Signal, GatePhases
  <2> QED BY <1>1, <1>5, <2>1, CrashBefore
<1> QED BY <1>4, <1>5

(* A journal append fails in the middle of an operation. *)
LEMMA AppendFailsStep ==
  ASSUME Sound, AppendFails
  PROVE  Sound'
<1>1. /\ Raised /\ UNCHANGED <<report, marker, orphan>>
      /\ host' \in HostAfter /\ snapshot' \in SnapshotAfter
      /\ run.pc \in CommandPhases \cup {"bind", "authorize"}
  BY DEF AppendFails
<1>2. PICK l \in LaunchersAfter :
        launchers' \in IF run.mutating \/ run.pc \in GatePhases THEN PartlyMasked(l) ELSE {l}
  BY DEF AppendFails
<1>3. launchers' \in PartlyMasked(l) BY <1>2, LaunchersAfterMasking
<1>4. run.pc \in WorkPhases BY <1>1, PhaseSets, WorkPhaseSet
<1>5. PICK k : /\ journal' = [journal EXCEPT ![run.op] = k]
               /\ k = journal[run.op] \/ k = Appended
  BY DEF AppendFails, Write, AppendedOrNot
<1>6. /\ OwnUpdate(Appended) /\ ~Closed(Appended)
      /\ journal[run.op].mutation => Appended.mutation
  <2>1. CASE AtCommand
    <3>1. Command \in Commands /\ "query" \in Commands
      BY <2>1, CommandIsOne DEF Commands, ReadCommands
    <3>2. PICK c \in Commands : \/ Appended = CommandStarted(journal[run.op], c)
                                \/ Appended = CommandFinished(journal[run.op], c)
      <4>1. CASE run.step = "ready"
        BY <2>1, <3>1, <4>1, PhaseSets DEF Appended, AtCommand
      <4>2. CASE run.step = "query"
        <5>1. Appended = CommandFinished(journal[run.op], "query")
          BY <2>1, <4>2, PhaseSets DEF Appended, AtCommand
        <5> QED BY <3>1, <5>1
      <4>3. CASE run.step \notin {"ready", "query"}
        <5>1. Appended = CommandFinished(journal[run.op], Command)
          BY <2>1, <4>3, PhaseSets DEF Appended, AtCommand
        <5> QED BY <3>1, <5>1
      <4> QED BY <4>1, <4>2, <4>3
    <3> QED BY <1>4, <3>2, StartUpdate, FinishUpdate, StartedFacts, FinishedFacts, WorkFacts
  <2>2. CASE run.pc = "bind"
    <3>1. Appended = SnapshotPersisted(journal[run.op], run.snap)
      BY <2>2, PhaseSets DEF Appended, AtCommand
    <3>2. /\ Appended \in Journals /\ Appended.begun
          /\ Appended.binding \in {NoOp, run.snap}
          /\ Bound(journal[run.op]) => Bound(Appended)
          /\ Appended.ok => journal[run.op].ok /\ Bound(Appended)
          /\ Appended.mutation = journal[run.op].mutation
          /\ Appended.artifacts = journal[run.op].artifacts
          /\ ~Closed(Appended)
      BY <1>4, <3>1, WorkFacts, PersistedFacts, NoOpAssumption DEF Bound
    <3>3. snapshot[run.snap] \in Recordable
          /\ (run.kind = "rollback" => Bound(journal[run.snap]))
      BY <2>2 DEF Sound, PhaseSound
    <3> QED BY <3>2, <3>3 DEF OwnUpdate
  <2>3. CASE run.pc = "authorize"
    <3>1. Appended = ReleaseAuthorized(journal[run.op], ReleaseTarget, run.snap)
      BY <2>3, PhaseSets DEF Appended, AtCommand
    <3>2. ReleaseTarget \in ReleaseTargets BY DEF ReleaseTarget, ReleaseTargets
    <3> QED BY <1>4, <3>1, <3>2, AuthorizedFacts, WorkFacts DEF OwnUpdate, Bound
  <2> QED BY <1>1, <2>1, <2>2, <2>3 DEF AtCommand
<1>7. OwnUpdate(k) /\ ~Closed(k) /\ (journal[run.op].mutation => k.mutation)
  BY <1>4, <1>5, <1>6, KeepUpdate, WorkFacts
<1> QED BY <1>1, <1>2, <1>3, <1>4, <1>5, <1>7, CrashInWork

(* The quarantine of an interrupted commit ends. *)
LEMMA AbortEndsStep ==
  ASSUME Sound, AbortEnds
  PROVE  Sound'
<1>1. "abort" \in CommandPhases /\ Ends("abort") /\ Exit /\ UNCHANGED <<snapshot, host>>
  BY PhaseSets DEF AbortEnds
<1>2. Masked' /\ launchers' \in Launchers
  BY <1>1, EndFacts, MaskingCommand DEF AbortEnds, Quarantines
<1>3. host' \in Hosts /\ host' = host BY <1>1 DEF Sound, TypeOK
<1> QED BY <1>1, <1>2, <1>3, EndExit

-----------------------------------------------------------------------------
(* SIGKILL. *)

(* A process is killed, and what its command may still do is of its operation. *)
LEMMA KillStep ==
  ASSUME Sound, Kill
  PROVE  Sound'
<1>1. /\ "kill" \in Faults /\ run.pc \in {"packages", "mutate"} /\ Exit
      /\ orphan' = TargetContent /\ UNCHANGED <<disk, host, launchers>>
  BY DEF Kill
<1>2. ~Alone BY <1>1 DEF Alone
<1>3. TargetContent \in Hosts
  BY <1>1, TargetIsWhole, RecordableHosts, PhaseSets DEF BoundPhases
<1>4. orphan' \in Orphans' BY <1>1, <1>2, <1>3 DEF Orphans
<1>5. TypeOK' BY <1>1, <1>3, ExitFacts DEF Sound, TypeOK, disk
<1>6. DiskSound' /\ OneAuthority'
  BY <1>1 DEF Sound, DiskSound, JournalSound, OneAuthority, disk, Unresolved, IsUnresolved
<1>7. Claimed' /\ Masked' BY <1>2 DEF Claimed, Masked
<1> QED BY <1>1, <1>4, <1>5, <1>6, <1>7, ExitFacts DEF Sound

(* The command of a killed process ends beside whatever runs by then. *)
LEMMA OrphanEndsStep ==
  ASSUME Sound, OrphanEnds
  PROVE  Sound'
<1>1. /\ orphan # "none" /\ host' \in {"partial", orphan} /\ orphan' = "none"
      /\ launchers' \in Opened(launchers) /\ UNCHANGED <<disk, run>>
  BY DEF OrphanEnds
<1>2. ~Alone /\ orphan \in Hosts BY <1>1 DEF Sound, Orphans
<1>3. host' \in Hosts BY <1>1, <1>2 DEF Hosts
<1>4. TypeOK' /\ orphan' \in Orphans'
  BY <1>1, <1>2, <1>3 DEF Sound, TypeOK, disk, Orphans, Opened, Launchers
<1>5. DiskSound' /\ OneAuthority' /\ Unresolved' = Unresolved /\ Readable' = Readable
  BY <1>1 DEF Sound, DiskSound, JournalSound, OneAuthority, disk, Unresolved, IsUnresolved, Readable
<1>6. Claimed' /\ Masked' /\ ClaimedByAnother' BY <1>2 DEF Claimed, Masked, ClaimedByAnother
<1>7. RunIdentified' /\ ScanSound' /\ WorkSound'
  BY <1>1, <1>5, <1>6 DEF Sound, RunIdentified, ScanSound, WorkSound, disk
<1>8. PhaseSound'
  BY <1>1, <1>2, <1>5, <1>6 DEF Sound, PhaseSound, disk, Running, AtCommand, Alone, Recordable
<1> QED BY <1>4, <1>5, <1>6, <1>7, <1>8 DEF Sound

-----------------------------------------------------------------------------
(* No operation has run: Sound holds. *)
LEMMA InitSound == Init => Sound
<1> SUFFICES ASSUME Init PROVE Sound OBVIOUS
<1> USE DEF Init
<1>1. TypeOK
  BY IdleFacts, NoJournalFacts DEF TypeOK, Hosts, Contents, Launchers
<1>2. DiskSound
  BY NoJournalFacts DEF DiskSound, JournalSound, Recordable
<1>3. run.pc = "idle" /\ ~run.mutating /\ ~run.compensated /\ run.step = "ready"
  BY IdleFacts
<1>4. RunIdentified /\ ScanSound
  BY <1>3 DEF RunIdentified, ScanSound, ScanPhases
<1>5. WorkSound /\ PhaseSound
  BY <1>3, WorkPhaseSet, PhaseSets
  DEF WorkSound, PhaseSound, ReservePhases, BoundPhases, EndPhases, SettledPhases
<1>6. Claimed /\ OneAuthority /\ Masked
  BY DEF Claimed, OneAuthority, Masked, Unresolved
<1>7. orphan \in Orphans BY DEF Orphans
<1> QED BY <1>1, <1>2, <1>4, <1>5, <1>6, <1>7 DEF Sound

(* Nothing happens: Sound still holds. *)
LEMMA StutterSound ==
  ASSUME Sound, UNCHANGED vars
  PROVE  Sound'
<1>1. UNCHANGED <<disk, machine>> /\ run' = run BY DEF vars, disk, machine
<1>2. TypeOK' BY <1>1 DEF Sound, TypeOK, disk, machine
<1>3. RunIdentified' /\ ScanSound' /\ WorkSound'
  BY <1>1, QuietStep
  DEF Sound, RunIdentified, ScanSound, WorkSound, ClaimedByAnother, disk, machine
<1>4. PhaseSound'
  BY <1>1, QuietStep
  DEF Sound, PhaseSound, ClaimedByAnother, Running, AtCommand, TargetContent, disk, machine
<1> QED BY <1>1, <1>2, <1>3, <1>4, QuietStep DEF Sound

(* Sound is inductive: one case per action of the process and per fault. *)
LEMMA NextSound ==
  ASSUME Sound, [Next]_vars
  PROVE  Sound'
<1>1. CASE UNCHANGED vars BY <1>1, StutterSound
<1>2. ASSUME NEW o \in OperationIds, NEW s \in OperationIds, NEW k \in Kinds,
             AcquireLock(o, k, s)
      PROVE  Sound'
  BY <1>2, AcquireLockStep
<1>3. CASE Recovering
  <2>1. CASE ScanRefuses BY <2>1, QuietExit DEF ScanRefuses
  <2>2. CASE Scan BY <2>2, ScanStep
  <2>3. ASSUME NEW m \in OperationIds, Retire(m) PROVE Sound' BY <2>3, RetireStep
  <2>4. CASE Admit BY <2>4, AdmitStep
  <2>5. CASE Refuse BY <2>5, QuietExit DEF Refuse
  <2> QED BY <1>3, <2>1, <2>2, <2>3, <2>4, <2>5 DEF Recovering
<1>4. CASE Reserving
  <2>1. CASE Reserve BY <2>1, ReserveStep
  <2>2. CASE CreateMarker BY <2>2, CreateMarkerStep
  <2>3. CASE ReserveFails BY <2>3, ReserveFailsStep
  <2>4. CASE Dispatch BY <2>4, DispatchStep
  <2>5. CASE RollbackLoadFails BY <2>5, QuietExit DEF RollbackLoadFails
  <2>6. CASE RollbackPreflight BY <2>6, RollbackPreflightStep
  <2> QED BY <1>4, <2>1, <2>2, <2>3, <2>4, <2>5, <2>6 DEF Reserving
<1>5. CASE Commanding
  <2>1. CASE StartCommand BY <2>1, StartCommandStep
  <2>2. CASE StartQuery \/ FinishQuery BY <2>2, QueryStep
  <2>3. CASE GateEnds BY <2>3, GateEndsStep
  <2>4. CASE StageEnds BY <2>4, StageEndsStep
  <2>5. CASE PersistEnds BY <2>5, PersistEndsStep
  <2>6. CASE Bind BY <2>6, BindStep
  <2> QED BY <1>5, <2>1, <2>2, <2>3, <2>4, <2>5, <2>6 DEF Commanding
<1>6. CASE Changing
  <2>1. CASE QuiesceEnds BY <2>1, QuiesceEndsStep
  <2>2. CASE QuiesceRefused BY <2>2, QuiesceRefusedStep
  <2>3. CASE ProbeEnds BY <2>3, ProbeEndsStep
  <2>4. CASE PackagesEnds BY <2>4, PackagesEndsStep
  <2>5. CASE CheckpointEnds BY <2>5, CheckpointEndsStep
  <2>6. CASE RecheckEnds BY <2>6, RecheckEndsStep
  <2>7. CASE MutateEnds BY <2>7, MutateEndsStep
  <2>8. CASE VerifyCore BY <2>8, VerifyCoreStep
  <2> QED BY <1>6, <2>1, <2>2, <2>3, <2>4, <2>5, <2>6, <2>7, <2>8 DEF Changing
<1>7. CASE Releasing
  <2>1. CASE Authorize BY <2>1, AuthorizeStep
  <2>2. CASE ReleaseEnds BY <2>2, ReleaseEndsStep
  <2>3. CASE UnreleaseEnds BY <2>3, UnreleaseEndsStep
  <2>4. CASE RequarantineEnds BY <2>4, RequarantineEndsStep
  <2>5. CASE RequarantineRefused BY <2>5, RequarantineRefusedStep
  <2>6. CASE Confirm BY <2>6, ConfirmStep
  <2>7. CASE AbortEnds BY <2>7, AbortEndsStep
  <2>8. CASE AbortRefused BY <2>8, QuietExit DEF AbortRefused
  <2> QED BY <1>7, <2>1, <2>2, <2>3, <2>4, <2>5, <2>6, <2>7, <2>8 DEF Releasing
<1>8. CASE Reporting
  <2>1. ASSUME NEW m \in OperationIds, MarkRecovered(m) PROVE Sound'
    BY <2>1, MarkRecoveredStep
  <2>2. CASE AllRecovered BY <2>2, AllRecoveredStep
  <2>3. CASE WriteReport BY <2>3, WriteReportStep
  <2>4. CASE Complete \/ RecordPersistenceFailure BY <2>4, CompleteStep
  <2> QED BY <1>8, <2>1, <2>2, <2>3, <2>4 DEF Reporting
<1>9. CASE Failing
  <2>1. CASE AppendFails BY <2>1, AppendFailsStep
  <2>2. ASSUME NEW m \in OperationIds, MarkRecoveredFails(m) PROVE Sound'
    BY <2>2, MarkRecoveredFailsStep
  <2>3. CASE WriteReportFails BY <2>3, WriteReportFailsStep
  <2>4. CASE CompleteFails BY <2>4, CompleteFailsStep
  <2>5. CASE RecordPersistenceFailureFails BY <2>5, CompleteStep
  <2> QED BY <1>9, <2>1, <2>2, <2>3, <2>4, <2>5 DEF Failing
<1>10. CASE Signal BY <1>10, SignalStep
<1>11. CASE PowerLoss BY <1>11, PowerLossStep
<1>12. CASE Kill BY <1>12, KillStep
<1>13. CASE OrphanEnds BY <1>13, OrphanEndsStep
<1> QED BY <1>1, <1>2, <1>3, <1>4, <1>5, <1>6, <1>7, <1>8, <1>9, <1>10, <1>11, <1>12,
        <1>13
        DEF Next, Program

-----------------------------------------------------------------------------
(* What one step may do to a journal, to a marker, to the host and to the     *)
(* launchers, whichever action it is.                                         *)

Reports == {"none", "provisional", "complete", "incomplete"}

(* The lines an operation writes in its own journal after the first. *)
OwnLines(j) ==
  {CommandStarted(j, c) : c \in Commands} \cup {CommandFinished(j, c) : c \in Commands}
    \cup {SnapshotPersisted(j, s) : s \in OperationIds}
    \cup {ReleaseAuthorized(j, t, s) : t \in ReleaseTargets, s \in OperationIds}
    \cup {OperationCompleted(j, r = "incomplete") : r \in Reports}
    \cup {PersistenceFailed(j)}

(* None of them takes back a mutation, or says that the operation was recovered. *)
LEMMA OwnLineFacts ==
  ASSUME NEW j \in Journals, NEW k \in OwnLines(j)
  PROVE  /\ j.mutation => k.mutation
         /\ k.recoveredBy = j.recoveredBy
         /\ k.ok => j.ok
<1>1. ASSUME NEW c \in Commands, k = CommandStarted(j, c) \/ k = CommandFinished(j, c)
      PROVE  (j.mutation => k.mutation) /\ k.recoveredBy = j.recoveredBy /\ (k.ok => j.ok)
  BY <1>1 DEF CommandStarted, CommandFinished, Read, Journals
<1>2. ASSUME NEW s \in OperationIds, k = SnapshotPersisted(j, s)
      PROVE  (j.mutation => k.mutation) /\ k.recoveredBy = j.recoveredBy /\ (k.ok => j.ok)
  BY <1>2 DEF SnapshotPersisted, Read, Journals
<1>3. ASSUME NEW t \in ReleaseTargets, NEW s \in OperationIds, k = ReleaseAuthorized(j, t, s)
      PROVE  (j.mutation => k.mutation) /\ k.recoveredBy = j.recoveredBy /\ (k.ok => j.ok)
  BY <1>3 DEF ReleaseAuthorized, Read, Journals
<1>4. ASSUME NEW r \in Reports, k = OperationCompleted(j, r = "incomplete")
      PROVE  (j.mutation => k.mutation) /\ k.recoveredBy = j.recoveredBy /\ (k.ok => j.ok)
  BY <1>4 DEF OperationCompleted, Read, Journals
<1>5. ASSUME k = PersistenceFailed(j)
      PROVE  (j.mutation => k.mutation) /\ k.recoveredBy = j.recoveredBy /\ (k.ok => j.ok)
  BY <1>5 DEF PersistenceFailed, Read, Journals
<1> QED BY <1>1, <1>2, <1>3, <1>4, <1>5 DEF OwnLines

(* A journal changes by one line of its operation's own, by the line of a  *)
(* recovery, or as a whole before its operation has done anything.         *)
JournalMoves(m) ==
  \/ journal'[m] = journal[m]
  \/ m = run.op /\ journal'[m] \in OwnLines(journal[m])
  \/ /\ m = run.op /\ run.pc \in {"reserve", "mark", "begin"}
     /\ journal'[m] \in {NoJournal, OperationStarted}
  \/ /\ run.pc = "recover" /\ m \in run.recovering
     /\ journal'[m] = OperationRecovered(journal[m], m, run.op, run.snap)

(* One line in the journal of the operation at work. *)
LEMMA OwnLineMoves ==
  ASSUME Sound, NEW k \in OwnLines(journal[run.op]), Write(k), NEW m \in OperationIds
  PROVE  JournalMoves(m)
<1>1. journal \in [OperationIds -> Journals] BY DEF Sound, TypeOK
<1>2. CASE m = run.op
  <2>1. journal'[m] = k BY <1>1, <1>2 DEF Write
  <2> QED BY <1>2, <2>1 DEF JournalMoves
<1>3. CASE m # run.op BY <1>1, <1>3 DEF Write, JournalMoves
<1> QED BY <1>2, <1>3

(* The line of the current step is one of them. *)
LEMMA AppendedIsOwn ==
  ASSUME Sound,
         run.pc \in CommandPhases \cup {"bind", "authorize", "complete", "persistenceFailed"}
  PROVE  Appended \in OwnLines(journal[run.op])
<1> DEFINE j == journal[run.op]
<1>1. run.snap \in OperationIds BY PhaseSets DEF Sound, RunIdentified
<1>2. ReleaseTarget \in ReleaseTargets BY DEF ReleaseTarget, ReleaseTargets
<1>3. report[run.op] \in Reports BY PhaseSets DEF Sound, RunIdentified, TypeOK, Reports
<1>4. CASE AtCommand
  <2>1. Command \in Commands /\ "query" \in Commands
    BY <1>4, CommandIsOne DEF Commands, ReadCommands
  <2>2. \E c \in Commands : Appended = CommandStarted(j, c) \/ Appended = CommandFinished(j, c)
    <3>1. CASE run.step = "ready" BY <1>4, <2>1, <3>1, PhaseSets DEF Appended, AtCommand
    <3>2. CASE run.step = "query" BY <1>4, <2>1, <3>2, PhaseSets DEF Appended, AtCommand
    <3>3. CASE run.step \notin {"ready", "query"}
      BY <1>4, <2>1, <3>3, PhaseSets DEF Appended, AtCommand
    <3> QED BY <3>1, <3>2, <3>3
  <2> QED BY <2>2 DEF OwnLines
<1>5. CASE ~AtCommand
  <2>1. /\ run.pc = "bind" => Appended = SnapshotPersisted(j, run.snap)
        /\ run.pc = "authorize" => Appended = ReleaseAuthorized(j, ReleaseTarget, run.snap)
        /\ run.pc = "complete" => Appended = OperationCompleted(j, report[run.op] = "incomplete")
        /\ run.pc = "persistenceFailed" => Appended = PersistenceFailed(j)
    BY <1>5, PhaseSets DEF Appended, AtCommand
  <2>2. run.pc \in {"bind", "authorize", "complete", "persistenceFailed"} BY <1>5 DEF AtCommand
  <2>3. CASE run.pc = "bind" BY <1>1, <2>1, <2>3 DEF OwnLines
  <2>4. CASE run.pc = "authorize" BY <1>1, <1>2, <2>1, <2>4 DEF OwnLines
  <2>5. CASE run.pc = "complete" BY <1>3, <2>1, <2>5 DEF OwnLines
  <2>6. CASE run.pc = "persistenceFailed" BY <2>1, <2>6 DEF OwnLines
  <2> QED BY <2>2, <2>3, <2>4, <2>5, <2>6
<1> QED BY <1>4, <1>5

LEMMA AppendMoves ==
  ASSUME Sound, NEW j \in AppendedOrNot(run.op, Appended), Write(j), NEW m \in OperationIds,
         run.pc \in CommandPhases \cup {"bind", "authorize", "complete", "persistenceFailed"}
  PROVE  JournalMoves(m)
<1>1. CASE j = Appended BY <1>1, AppendedIsOwn, OwnLineMoves
<1>2. CASE j = journal[run.op]
  BY <1>2 DEF Sound, TypeOK, Write, JournalMoves
<1> QED BY <1>1, <1>2 DEF AppendedOrNot

LEMMA JournalStep ==
  ASSUME Sound, Next, NEW m \in OperationIds PROVE JournalMoves(m)
<1>1. journal' = journal => JournalMoves(m) BY DEF JournalMoves
<1>2. run.pc # "idle" => run.op \in OperationIds /\ run.snap \in OperationIds
  BY DEF Sound, RunIdentified
<1>3. AtCommand => Command \in Commands BY CommandIsOne
<1>4. ASSUME NEW p \in CommandPhases, Ends(p) PROVE JournalMoves(m)
  <2>1. Write(CommandFinished(journal[run.op], Command)) /\ AtCommand BY <1>4 DEF Ends, AtCommand
  <2>2. CommandFinished(journal[run.op], Command) \in OwnLines(journal[run.op])
    BY <1>3, <2>1 DEF OwnLines
  <2> QED BY <2>1, <2>2, OwnLineMoves
<1>5. ASSUME NEW k \in {NoJournal, OperationStarted}, Write(k),
             run.pc \in {"reserve", "mark", "begin"}
      PROVE  JournalMoves(m)
  <2>1. journal'[m] = journal[m] \/ (m = run.op /\ journal'[m] = k)
    BY <1>5 DEF Sound, TypeOK, Write
  <2> QED BY <1>5, <2>1 DEF JournalMoves
<1>6. CASE Recovering
  BY <1>1, <1>6 DEF Recovering, ScanRefuses, Scan, Retire, Admit, Refuse, disk
<1>16. ASSUME NEW o \in OperationIds, NEW s \in OperationIds, NEW k \in Kinds, AcquireLock(o, k, s)
       PROVE  JournalMoves(m)
  BY <1>1, <1>16 DEF AcquireLock, disk
<1>7. CASE Reserving
  <2>1. CASE Reserve BY <1>5, <2>1 DEF Reserve
  <2>2. CASE ReserveFails BY <1>5, <2>2 DEF ReserveFails, ReservePhases
  <2>3. CASE CreateMarker \/ Dispatch \/ RollbackLoadFails \/ RollbackPreflight
    BY <1>1, <2>3 DEF CreateMarker, Dispatch, RollbackLoadFails, RollbackPreflight, disk
  <2> QED BY <1>7, <2>1, <2>2, <2>3 DEF Reserving
<1>8. CASE Commanding
  <2>1. CASE StartCommand
    <3>1. Write(CommandStarted(journal[run.op], Command)) /\ AtCommand BY <2>1 DEF StartCommand
    <3>2. CommandStarted(journal[run.op], Command) \in OwnLines(journal[run.op])
      BY <1>3, <3>1 DEF OwnLines
    <3> QED BY <3>1, <3>2, OwnLineMoves
  <2>2. CASE StartQuery \/ FinishQuery
    <3>1. PICK k : /\ Write(k)
                   /\ \/ k = CommandStarted(journal[run.op], "query")
                      \/ k = CommandFinished(journal[run.op], "query")
      BY <2>2 DEF StartQuery, FinishQuery
    <3>2. k \in OwnLines(journal[run.op]) BY <3>1 DEF OwnLines, Commands, ReadCommands
    <3> QED BY <3>1, <3>2, OwnLineMoves
  <2>3. CASE GateEnds \/ StageEnds \/ PersistEnds
    <3>1. \E p \in CommandPhases : Ends(p)
      BY <2>3, PhaseSets DEF GateEnds, StageEnds, PersistEnds
    <3> QED BY <1>4, <3>1
  <2>4. CASE Bind
    <3>1. Write(SnapshotPersisted(journal[run.op], run.snap)) /\ run.snap \in OperationIds
      BY <1>2, <2>4 DEF Bind
    <3>2. SnapshotPersisted(journal[run.op], run.snap) \in OwnLines(journal[run.op])
      BY <3>1 DEF OwnLines
    <3> QED BY <3>1, <3>2, OwnLineMoves
  <2> QED BY <1>8, <2>1, <2>2, <2>3, <2>4 DEF Commanding
<1>9. CASE Changing
  <2>1. CASE QuiesceRefused \/ VerifyCore BY <1>1, <2>1 DEF QuiesceRefused, VerifyCore, disk
  <2>2. CASE \/ QuiesceEnds \/ ProbeEnds \/ PackagesEnds \/ CheckpointEnds \/ RecheckEnds
             \/ MutateEnds
    <3>1. \E p \in CommandPhases : Ends(p)
      BY <2>2, PhaseSets
      DEF QuiesceEnds, ProbeEnds, PackagesEnds, CheckpointEnds, RecheckEnds, MutateEnds
    <3> QED BY <1>4, <3>1
  <2> QED BY <1>9, <2>1, <2>2 DEF Changing
<1>10. CASE Releasing
  <2>1. CASE RequarantineRefused \/ Confirm \/ AbortRefused
    BY <1>1, <2>1 DEF RequarantineRefused, Confirm, AbortRefused, disk
  <2>2. CASE ReleaseEnds \/ UnreleaseEnds \/ RequarantineEnds \/ AbortEnds
    <3>1. \E p \in CommandPhases : Ends(p)
      BY <2>2, PhaseSets DEF ReleaseEnds, UnreleaseEnds, RequarantineEnds, AbortEnds
    <3> QED BY <1>4, <3>1
  <2>3. CASE Authorize
    <3>1. /\ Write(ReleaseAuthorized(journal[run.op], ReleaseTarget, run.snap))
          /\ run.snap \in OperationIds /\ ReleaseTarget \in ReleaseTargets
      BY <1>2, <2>3 DEF Authorize, ReleaseTarget, ReleaseTargets
    <3>2. ReleaseAuthorized(journal[run.op], ReleaseTarget, run.snap) \in OwnLines(journal[run.op])
      BY <3>1 DEF OwnLines
    <3> QED BY <3>1, <3>2, OwnLineMoves
  <2> QED BY <1>10, <2>1, <2>2, <2>3 DEF Releasing
<1>11. CASE Reporting
  <2>1. ASSUME NEW o \in OperationIds, MarkRecovered(o) PROVE JournalMoves(m)
    <3>1. /\ run.pc = "recover" /\ o \in run.recovering
          /\ journal' = [journal EXCEPT ![o] = OperationRecovered(@, o, run.op, run.snap)]
      BY <2>1 DEF MarkRecovered
    <3>2. journal'[m] = IF m = o THEN OperationRecovered(journal[m], m, run.op, run.snap)
                        ELSE journal[m]
      BY <3>1 DEF Sound, TypeOK
    <3> QED BY <3>1, <3>2 DEF JournalMoves
  <2>2. CASE AllRecovered \/ WriteReport BY <1>1, <2>2 DEF AllRecovered, WriteReport, disk
  <2>3. CASE Complete
    <3>1. Write(OperationCompleted(journal[run.op], report[run.op] = "incomplete"))
      BY <2>3 DEF Complete
    <3>2. OperationCompleted(journal[run.op], report[run.op] = "incomplete")
            \in OwnLines(journal[run.op])
      <4>1. report[run.op] \in Reports
        BY <1>2, <2>3 DEF Complete, Sound, TypeOK, Reports
      <4> QED BY <4>1 DEF OwnLines
    <3> QED BY <3>1, <3>2, OwnLineMoves
  <2>4. CASE RecordPersistenceFailure
    <3>1. Write(PersistenceFailed(journal[run.op])) BY <2>4 DEF RecordPersistenceFailure
    <3>2. PersistenceFailed(journal[run.op]) \in OwnLines(journal[run.op]) BY DEF OwnLines
    <3> QED BY <3>1, <3>2, OwnLineMoves
  <2> QED BY <1>11, <2>1, <2>2, <2>3, <2>4 DEF Reporting
<1>12. CASE Failing
  <2>1. CASE AppendFails
    <3>1. /\ run.pc \in CommandPhases \cup {"bind", "authorize"}
          /\ \E j \in AppendedOrNot(run.op, Appended) : Write(j)
      BY <2>1 DEF AppendFails
    <3> QED BY <3>1, AppendMoves
  <2>2. ASSUME NEW o \in OperationIds, MarkRecoveredFails(o) PROVE JournalMoves(m)
    <3>1. PICK j \in AppendedOrNot(o, OperationRecovered(journal[o], o, run.op, run.snap)) :
            journal' = [journal EXCEPT ![o] = j]
      BY <2>2 DEF MarkRecoveredFails
    <3>2. run.pc = "recover" /\ o \in run.recovering BY <2>2 DEF MarkRecoveredFails
    <3>3. j = journal[o] \/ j = OperationRecovered(journal[o], o, run.op, run.snap)
      BY <3>1 DEF AppendedOrNot
    <3>4. journal'[m] = IF m = o THEN j ELSE journal[m] BY <3>1 DEF Sound, TypeOK
    <3> QED BY <3>2, <3>3, <3>4 DEF JournalMoves
  <2>3. CASE WriteReportFails BY <1>1, <2>3 DEF WriteReportFails, disk
  <2>4. CASE CompleteFails \/ RecordPersistenceFailureFails
    <3>1. /\ run.pc \in {"complete", "persistenceFailed"}
          /\ journal' = journal \/ \E j \in AppendedOrNot(run.op, Appended) : Write(j)
      BY <2>4 DEF CompleteFails, RecordPersistenceFailureFails
    <3> QED BY <1>1, <3>1, AppendMoves
  <2> QED BY <1>12, <2>1, <2>2, <2>3, <2>4 DEF Failing
<1>13. CASE Signal
  <2>1. CASE journal' = journal BY <1>1, <2>1
  <2>2. CASE run.pc = "stage" /\ Running /\ Write(CommandFinished(journal[run.op], Command))
    <3>1. CommandFinished(journal[run.op], Command) \in OwnLines(journal[run.op])
      BY <1>3, <2>2 DEF OwnLines, Running
    <3> QED BY <2>2, <3>1, OwnLineMoves
  <2> QED BY <1>13, <2>1, <2>2 DEF Signal
<1>14. CASE PowerLoss BY <1>1, <1>14 DEF PowerLoss
<1>15. CASE Kill \/ OrphanEnds BY <1>1, <1>15 DEF Kill, OrphanEnds, disk
<1> QED BY <1>6, <1>7, <1>8, <1>9, <1>10, <1>11, <1>12, <1>13, <1>14, <1>15, <1>16
        DEF Next, Program

(* No step drops the marker of an unresolved operation. *)
LEMMA MarkerStep ==
  ASSUME Sound, Next, NEW m \in Unresolved PROVE m \in marker'
<1>1. m \in marker BY DEF Unresolved
<1>2. ASSUME NEW o \in OperationIds, Retire(o) PROVE m \in marker'
  <2>1. o # m BY <1>2 DEF Retire, Sound, ScanSound
  <2> QED BY <1>1, <1>2, <2>1 DEF Retire
<1>3. CASE ReserveFails
  <2>1. ~journal[run.op].mutation
    BY <1>3, NoJournalFacts DEF ReserveFails, Sound, PhaseSound
  <2>2. m # run.op BY <2>1 DEF Unresolved, IsUnresolved
  <2> QED BY <1>1, <1>3, <2>2 DEF ReserveFails
<1>4. CASE CreateMarker BY <1>1, <1>4 DEF CreateMarker
<1>6. CASE marker' = marker BY <1>1, <1>6
<1>5. CASE Kill \/ OrphanEnds BY <1>5, <1>6 DEF Kill, OrphanEnds, disk
<1>7. CASE ScanRefuses \/ Scan \/ Admit \/ Refuse
  BY <1>6, <1>7 DEF ScanRefuses, Scan, Admit, Refuse, disk
<1>15. ASSUME NEW o \in OperationIds, NEW s \in OperationIds, NEW k \in Kinds, AcquireLock(o, k, s)
       PROVE  m \in marker'
  BY <1>6, <1>15 DEF AcquireLock, disk
<1>8. CASE Reserve \/ Dispatch \/ RollbackLoadFails \/ RollbackPreflight
  BY <1>6, <1>8 DEF Reserve, Dispatch, RollbackLoadFails, RollbackPreflight, disk
<1>9. CASE Commanding
  BY <1>6, <1>9 DEF Commanding, StartCommand, StartQuery, FinishQuery, GateEnds, StageEnds,
                    PersistEnds, Bind, Ends
<1>10. CASE Changing
  BY <1>6, <1>10 DEF Changing, QuiesceEnds, QuiesceRefused, ProbeEnds, PackagesEnds,
                     CheckpointEnds, RecheckEnds, MutateEnds, VerifyCore, Ends, disk
<1>11. CASE Releasing
  BY <1>6, <1>11 DEF Releasing, Authorize, ReleaseEnds, UnreleaseEnds, RequarantineEnds,
                     RequarantineRefused, Confirm, AbortEnds, AbortRefused, Ends, disk
<1>12. CASE Reporting
  BY <1>6, <1>12 DEF Reporting, MarkRecovered, AllRecovered, WriteReport, Complete,
                     RecordPersistenceFailure, disk
<1>13. CASE Failing
  BY <1>6, <1>13 DEF Failing, AppendFails, MarkRecoveredFails, WriteReportFails, CompleteFails,
                     RecordPersistenceFailureFails, disk
<1>14. CASE Signal \/ PowerLoss BY <1>6, <1>14 DEF Signal, PowerLoss
<1> QED BY <1>2, <1>3, <1>4, <1>5, <1>7, <1>8, <1>9, <1>10, <1>11, <1>12, <1>13, <1>14, <1>15
        DEF Next, Program, Recovering, Reserving

(* The host and the launchers change only as the command that runs may change *)
(* them, and the launchers may be masked besides.                             *)
LEMMA MachineStep ==
  ASSUME Alone, Sound, Next
  PROVE  host' \in HostAfter /\ \E l \in LaunchersAfter : launchers' \in PartlyMasked(l)
<1>1. /\ host' = host => host' \in HostAfter
      /\ \A l : l \in PartlyMasked(l) /\ "masked" \in PartlyMasked(l)
      /\ launchers \in LaunchersAfter
  BY DEF HostAfter, PartlyMasked, LaunchersAfter, Opened
<1>2. launchers' = launchers => \E l \in LaunchersAfter : launchers' \in PartlyMasked(l)
  BY <1>1
<1>3. launchers' \in LaunchersAfter => \E l \in LaunchersAfter : launchers' \in PartlyMasked(l)
  BY <1>1
<1>4. launchers' \in PartlyMasked(launchers) => \E l \in LaunchersAfter : launchers' \in PartlyMasked(l)
  BY <1>1
<1>5. UNCHANGED <<host, launchers>> =>
        host' \in HostAfter /\ \E l \in LaunchersAfter : launchers' \in PartlyMasked(l)
  BY <1>1, <1>2
<1>6. CASE Recovering
  BY <1>5, <1>6 DEF Recovering, ScanRefuses, Scan, Retire, Admit, Refuse, machine
<1>16. ASSUME NEW o \in OperationIds, NEW s \in OperationIds, NEW k \in Kinds, AcquireLock(o, k, s)
       PROVE  UNCHANGED <<host, launchers>>
  BY <1>16 DEF AcquireLock, machine
<1>7. CASE Reserving
  BY <1>5, <1>7 DEF Reserving, Reserve, CreateMarker, ReserveFails, Dispatch, RollbackLoadFails,
                    RollbackPreflight, machine
<1>8. CASE Commanding
  BY <1>5, <1>8 DEF Commanding, StartCommand, StartQuery, FinishQuery, GateEnds, StageEnds,
                    PersistEnds, Bind, machine
<1>9. CASE Changing
  <2>1. CASE QuiesceEnds \/ CheckpointEnds
    <3>1. launchers' = "masked" \/ launchers' \in LaunchersAfter
      BY <2>1 DEF QuiesceEnds, CheckpointEnds
    <3>2. launchers' = "masked" => launchers' \in PartlyMasked(launchers) BY <1>1
    <3>3. host' = host BY <2>1 DEF QuiesceEnds, CheckpointEnds
    <3> QED BY <1>1, <1>3, <1>4, <3>1, <3>2, <3>3
  <2>2. CASE QuiesceRefused \/ ProbeEnds \/ RecheckEnds \/ VerifyCore
    BY <1>5, <2>2 DEF QuiesceRefused, ProbeEnds, RecheckEnds, VerifyCore, machine
  <2>3. CASE MutateEnds
    <3>1. run.pc = "mutate" /\ Running
      BY <2>3, PhaseSets DEF MutateEnds, Ends, Running, AtCommand
    <3>2. "partial" \in HostAfter BY <3>1 DEF HostAfter
    <3>3. host' \in HostAfter /\ launchers' = launchers BY <2>3, <3>2 DEF MutateEnds
    <3> QED BY <1>2, <3>3
  <2>4. CASE PackagesEnds BY <1>3, <2>4 DEF PackagesEnds
  <2> QED BY <1>9, <2>1, <2>2, <2>3, <2>4 DEF Changing
<1>10. CASE Releasing
  <2>1. CASE Authorize \/ RequarantineRefused \/ Confirm \/ AbortRefused
    BY <1>5, <2>1 DEF Authorize, RequarantineRefused, Confirm, AbortRefused, machine
  <2>2. CASE UnreleaseEnds \/ RequarantineEnds \/ AbortEnds
    BY <1>1, <1>3, <2>2 DEF UnreleaseEnds, RequarantineEnds, AbortEnds
  <2>3. CASE ReleaseEnds
    <3>1. run.pc = "release" /\ Running
      BY <2>3, PhaseSets DEF ReleaseEnds, Ends, Running, AtCommand
    <3>2. {"mixed", "released"} \subseteq LaunchersAfter BY <3>1 DEF LaunchersAfter, Quarantines
    <3>3. launchers' \in LaunchersAfter /\ host' = host BY <2>3, <3>2 DEF ReleaseEnds
    <3> QED BY <1>1, <1>3, <3>3
  <2> QED BY <1>10, <2>1, <2>2, <2>3 DEF Releasing
<1>11. CASE Reporting
  BY <1>5, <1>11 DEF Reporting, MarkRecovered, AllRecovered, WriteReport, Complete,
                     RecordPersistenceFailure, machine
<1>12. CASE Failing
  <2>1. CASE AppendFails
    <3>1. PICK l \in LaunchersAfter :
            launchers' \in IF run.mutating \/ run.pc \in GatePhases THEN PartlyMasked(l) ELSE {l}
      BY <2>1 DEF AppendFails
    <3>2. launchers' \in PartlyMasked(l) BY <3>1, LaunchersAfterMasking
    <3> QED BY <2>1, <3>2 DEF AppendFails
  <2>2. CASE (\E o \in OperationIds : MarkRecoveredFails(o)) \/ RecordPersistenceFailureFails
    BY <1>5, <2>2 DEF MarkRecoveredFails, RecordPersistenceFailureFails, machine
  <2>3. CASE WriteReportFails \/ CompleteFails
    <3>1. launchers' = launchers \/ launchers' \in PartlyMasked(launchers)
      BY <2>3 DEF WriteReportFails, CompleteFails
    <3>2. host' = host BY <2>3 DEF WriteReportFails, CompleteFails
    <3> QED BY <1>1, <1>2, <1>4, <3>1, <3>2
  <2> QED BY <1>12, <2>1, <2>2, <2>3 DEF Failing
<1>13. CASE Signal
  <2>1. PICK l \in LaunchersAfter :
          launchers' \in IF run.pc \in GatePhases THEN PartlyMasked(l) ELSE {l}
    BY <1>13 DEF Signal
  <2>2. launchers' \in PartlyMasked(l) BY <2>1, LaunchersAfterMasking
  <2> QED BY <1>13, <2>2 DEF Signal
<1>14. CASE PowerLoss BY <1>3, <1>14 DEF PowerLoss
<1>15. ~Kill /\ ~OrphanEnds BY DEF Kill, OrphanEnds, Sound, Orphans, Alone
<1> QED BY <1>6, <1>7, <1>8, <1>9, <1>10, <1>11, <1>12, <1>13, <1>14, <1>15, <1>16, <1>5
        DEF Next, Program

-----------------------------------------------------------------------------
(* The release. *)

(* Of all steps of the process only three leave it in the release, and two *)
(* behind it.                                                              *)
LEMMA ReleasePhases ==
  ASSUME Sound, Next, run'.pc \in {"release", "confirm", "recover"}
  PROVE  \/ StartCommand \/ StartQuery \/ FinishQuery
         \/ Authorize \/ ReleaseEnds \/ Confirm
         \/ (\E m \in OperationIds : MarkRecovered(m))
         \/ OrphanEnds
<1>1. run \in Runs BY DEF Sound, TypeOK
<1>2. Exit => run'.pc = "idle" BY IdleFacts DEF Exit
<1>3. \A p \in Phases : /\ run' = Goto(p) => run'.pc = p
                        /\ run' = GotoFailed(p) => run'.pc = p
  BY <1>1, GotoFacts, GotoFailedFacts
<1>4. run' = Compensate(run) => run'.pc = "quiesce" BY <1>1 DEF Compensate, Runs
<1>5. run' = PhaseFailed => run'.pc \in {"quiesce", "emit", "requarantine"}
  BY <1>1, PhaseFailedFacts
<1>6. Raised => run'.pc \in {"abort", "idle"} BY <1>3, IdleFacts, PhaseSet DEF Raised
<1>7. SnapshotFails => run'.pc \in {"idle", "emit"} BY <1>3, IdleFacts, PhaseSet DEF SnapshotFails
<1>8. ~Recovering /\ ~\E o \in OperationIds, s \in OperationIds, k \in Kinds : AcquireLock(o, k, s)
  <2>1. ~Scan BY <1>1 DEF Scan, Runs
  <2>2. ASSUME NEW m \in OperationIds PROVE ~Retire(m) BY <1>1 DEF Retire, Runs
  <2>3. ~ScanRefuses /\ ~Refuse BY <1>2 DEF ScanRefuses, Refuse
  <2>4. ~Admit BY <1>3, PhaseSet DEF Admit
  <2>5. ASSUME NEW o \in OperationIds, NEW s \in OperationIds, NEW k \in Kinds
        PROVE  ~AcquireLock(o, k, s)
    BY DEF AcquireLock, IdleRun
  <2> QED BY <2>1, <2>2, <2>3, <2>4, <2>5 DEF Recovering
<1>9. ~Reserving
  BY <1>2, <1>3, PhaseSet
  DEF Reserving, Reserve, CreateMarker, ReserveFails, Dispatch, RollbackLoadFails, RollbackPreflight
<1>10. ~GateEnds /\ ~StageEnds /\ ~PersistEnds /\ ~Bind
  BY <1>3, <1>7, PhaseSet DEF GateEnds, StageEnds, PersistEnds, Bind
<1>11. /\ ~QuiesceEnds /\ ~QuiesceRefused /\ ~ProbeEnds /\ ~PackagesEnds
       /\ ~CheckpointEnds /\ ~RecheckEnds /\ ~MutateEnds
  BY <1>3, <1>5, PhaseSet
  DEF QuiesceEnds, QuiesceRefused, ProbeEnds, AfterProbe, PackagesEnds, CheckpointEnds,
      AfterCheckpoint, RecheckEnds, MutateEnds
<1>12. ~VerifyCore BY <1>3, <1>5, PhaseSet DEF VerifyCore
<1>13. ~UnreleaseEnds /\ ~RequarantineEnds /\ ~RequarantineRefused
  BY <1>3, <1>4, PhaseSet DEF UnreleaseEnds, RequarantineEnds, RequarantineRefused
<1>14. ~AbortEnds /\ ~AbortRefused /\ ~Complete /\ ~RecordPersistenceFailure
  BY <1>2 DEF AbortEnds, AbortRefused, Complete, RecordPersistenceFailure
<1>15. ~AllRecovered /\ ~WriteReport BY <1>3, PhaseSet DEF AllRecovered, WriteReport
<1>16. ~Failing
  <2>1. ~AppendFails BY <1>6 DEF AppendFails
  <2>2. ASSUME NEW m \in OperationIds PROVE ~MarkRecoveredFails(m)
    BY <1>2 DEF MarkRecoveredFails
  <2>3. ~WriteReportFails /\ ~CompleteFails /\ ~RecordPersistenceFailureFails
    BY <1>2, <1>3, PhaseSet DEF WriteReportFails, CompleteFails, RecordPersistenceFailureFails
  <2> QED BY <2>1, <2>2, <2>3 DEF Failing
<1>17. ~Signal BY <1>6 DEF Signal
<1>18. ~PowerLoss BY <1>2 DEF PowerLoss
<1>19. ~Kill BY <1>2 DEF Kill
<1> QED BY <1>8, <1>9, <1>10, <1>11, <1>12, <1>13, <1>14, <1>15, <1>16, <1>17, <1>18, <1>19
        DEF Next, Program, Commanding, Changing, Releasing, Reporting

(* A line about a command leaves the authorizations of the journal alone. *)
LEMMA CommandKeepsReleases ==
  ASSUME NEW j \in Journals, NEW c, NEW k,
         k = CommandStarted(j, c) \/ k = CommandFinished(j, c)
  PROVE  k.releases = j.releases /\ (k.ok => j.ok)
BY DEF CommandStarted, CommandFinished, Read, Journals

(* The launcher release runs behind its authorization, its successors behind it. *)
LEMMA ReleaseStep ==
  ASSUME IInv, Next PROVE ReleaseSound'
<1> SUFFICES ASSUME run'.pc \in {"release", "confirm", "recover"} PROVE ReleaseSound'
  BY DEF ReleaseSound
<1>1. Sound /\ ReleaseSound /\ run \in Runs /\ journal \in [OperationIds -> Journals]
  BY DEF IInv, Sound, TypeOK
<1>2. run.pc # "idle" => run.op \in OperationIds BY <1>1 DEF Sound, RunIdentified
<1>3. ASSUME NEW k, Write(k), NEW c,
             \/ k = CommandStarted(journal[run.op], c)
             \/ k = CommandFinished(journal[run.op], c),
             run.pc # "idle", run'.op = run.op, run'.kind = run.kind, run'.goal = run.goal,
             run'.pc = run.pc, launchers' = launchers \/ run.pc = "release"
      PROVE  ReleaseSound'
  <2>1. journal'[run'.op] = k /\ journal[run.op] \in Journals BY <1>1, <1>2, <1>3 DEF Write
  <2>2. k.releases = journal[run.op].releases /\ (k.ok => journal[run.op].ok)
    BY <1>3, <2>1, CommandKeepsReleases
  <2>3. ReleaseTarget' = ReleaseTarget BY <1>3 DEF ReleaseTarget
  <2> QED BY <1>1, <1>3, <2>1, <2>2, <2>3 DEF ReleaseSound
<1>4. CASE StartCommand \/ StartQuery \/ FinishQuery
  <2>1. /\ run'.op = run.op /\ run'.kind = run.kind /\ run'.goal = run.goal /\ run'.pc = run.pc
        /\ launchers' = launchers
    BY <1>1, <1>4 DEF StartCommand, StartQuery, FinishQuery, Runs, machine
  <2>2. \E c : \/ Write(CommandStarted(journal[run.op], c))
               \/ Write(CommandFinished(journal[run.op], c))
    BY <1>4 DEF StartCommand, StartQuery, FinishQuery
  <2>3. run.pc # "idle" BY <2>1
  <2> QED BY <1>3, <2>1, <2>2, <2>3
<1>5. CASE Authorize
  <2> DEFINE k == ReleaseAuthorized(journal[run.op], ReleaseTarget, run.snap)
  <2>1. /\ run'.op = run.op /\ run'.kind = run.kind /\ run'.goal = run.goal
        /\ run'.pc = "release"
    BY <1>1, <1>5 DEF Authorize, Goto, Runs
  <2>2. journal'[run'.op] = k /\ journal[run.op] \in Journals
    BY <1>1, <1>2, <1>5, <2>1 DEF Authorize, Write
  <2>3. k.ok => ReleaseTarget \in k.releases
    BY <2>2 DEF ReleaseAuthorized, Read, Journals
  <2>4. ReleaseTarget' = ReleaseTarget BY <2>1 DEF ReleaseTarget
  <2> HIDE DEF k
  <2> QED BY <2>1, <2>2, <2>3, <2>4 DEF ReleaseSound
<1>6. CASE ReleaseEnds
  <2>1. run.pc = "release" /\ Write(CommandFinished(journal[run.op], Command))
    BY <1>6 DEF ReleaseEnds, Ends
  <2>2. \/ run' = Goto("release")
        \/ launchers' = "released" /\ run' = Goto("confirm")
        \/ run' = GotoFailed("unrelease") \/ run' = Goto("unrelease")
    BY <1>6 DEF ReleaseEnds
  <2>3. CASE run' = Goto("release")
    <3>1. /\ run'.op = run.op /\ run'.kind = run.kind /\ run'.goal = run.goal
          /\ run'.pc = "release"
      BY <1>1, <2>3 DEF Goto, Runs
    <3> QED BY <1>3, <2>1, <3>1
  <2>4. CASE launchers' = "released" /\ run' = Goto("confirm")
    <3>1. run'.pc = "confirm" BY <1>1, <2>4 DEF Goto, Runs
    <3> QED BY <2>4, <3>1 DEF ReleaseSound
  <2>5. CASE run' = GotoFailed("unrelease") \/ run' = Goto("unrelease")
    BY <1>1, <2>5 DEF Goto, GotoFailed, Runs
  <2> QED BY <2>2, <2>3, <2>4, <2>5
<1>7. CASE Confirm \/ \E m \in OperationIds : MarkRecovered(m)
  <2>1. run.pc \in {"confirm", "recover"} /\ launchers' = launchers
    BY <1>7 DEF Confirm, MarkRecovered, machine
  <2>2. run'.pc # "release"
    BY <1>1, <1>7 DEF Confirm, MarkRecovered, Goto, GotoFailed, Compensate, Runs
  <2> QED BY <1>1, <2>1, <2>2 DEF ReleaseSound
<1>8. CASE OrphanEnds
  BY <1>1, <1>8 DEF OrphanEnds, ReleaseSound, ReleaseTarget, disk, Opened
<1> QED BY <1>1, <1>4, <1>5, <1>6, <1>7, <1>8, ReleasePhases

(* IInv holds in every reachable state of every configuration. *)
THEOREM Invariance == Spec => []IInv
<1>1. Init => IInv
  BY InitSound, IdleFacts DEF IInv, Init, ReleaseSound
<1>2. IInv /\ [Next]_vars => IInv'
  <2> SUFFICES ASSUME IInv, [Next]_vars PROVE IInv' OBVIOUS
  <2>1. Sound' BY NextSound DEF IInv
  <2>2. CASE Next BY <2>1, <2>2, ReleaseStep DEF IInv
  <2>3. CASE UNCHANGED vars
    BY <2>1, <2>3 DEF IInv, ReleaseSound, ReleaseTarget, vars
  <2> QED BY <2>2, <2>3
<1> QED BY <1>1, <1>2, PTL DEF Spec

(* The state of files and process keeps the shape the code gives it. *)
THEOREM TypeCorrectness == Spec => []TypeOK
<1>1. IInv => TypeOK BY DEF IInv, Sound
<1> QED BY <1>1, Invariance, PTL

(* recovery_snapshot_path never finds two authorities among the journals of *)
(* any number of operations, however they and their recoveries crashed.     *)
THEOREM UniqueAuthority == Spec => []OneAuthority
<1>1. IInv => OneAuthority BY DEF IInv, Sound
<1> QED BY <1>1, Invariance, PTL

(* On a half-changed host only package scripts let a launcher out, and modules *)
(* and MIG are touched only with all four masked.                              *)
THEOREM MaskedHost == ASSUME Alone PROVE Spec => []MaskedWhilePartial
<1>1. IInv => MaskedWhilePartial
  BY DEF IInv, Sound, Masked, Broken, PhaseSound, MaskedWhilePartial
<1> QED BY <1>1, Invariance, PTL

(* The snapshot that an unresolved journal binds is never lost. *)
THEOREM RetainedAuthority == ASSUME Alone PROVE Spec => []AuthorityRetained
<1>1. IInv => AuthorityRetained
  <2> SUFFICES ASSUME IInv, NEW m \in Unresolved, journal[m].ok
               PROVE  snapshot[journal[m].binding] \in Contents
    BY DEF AuthorityRetained
  <2>1. m \in OperationIds /\ journal[m].mutation
    BY DEF IInv, Sound, TypeOK, Unresolved, IsUnresolved
  <2> QED BY <2>1 DEF IInv, Sound, DiskSound, JournalSound, Recordable
<1> QED BY <1>1, Invariance, PTL

(* A half-changed host is always claimed by a journal the next scan refuses *)
(* work for, with a snapshot of a verified state to go back to.             *)
THEOREM RememberedMutation == ASSUME Alone PROVE Spec => []NoForgottenMutation
<1>1. IInv => NoForgottenMutation
  <2> SUFFICES ASSUME IInv, host = "partial"
               PROVE  \E m \in marker :
                        journal[m].ok =>
                          /\ m \in Unresolved
                          /\ Bound(journal[m])
                          /\ snapshot[journal[m].binding] \in Contents
    BY DEF NoForgottenMutation
  <2>1. PICK m \in marker : journal[m].ok => m \in Unresolved
    BY DEF IInv, Sound, Claimed
  <2>2. m \in OperationIds BY DEF IInv, Sound, TypeOK
  <2>3. m \in Unresolved /\ journal[m].ok => Bound(journal[m])
    BY <2>2 DEF IInv, Sound, DiskSound, JournalSound, Unresolved, IsUnresolved
  <2> QED BY <2>1, <2>2, <2>3 DEF IInv, Sound, DiskSound, JournalSound, Recordable
<1> QED BY <1>1, Invariance, PTL

-----------------------------------------------------------------------------
(* The action properties.                                                     *)

(* A half-changed host becomes whole only as the state that the operation at  *)
(* work or every other unresolved operation is bound to.                      *)
THEOREM RepairsExactly == ASSUME Alone PROVE Spec => ExactRepair
<1>1. IInv /\ [Next]_vars => [RepairIsExact]_vars
  <2> SUFFICES ASSUME IInv, Next, host = "partial", host' # "partial",
                      NEW m \in Unresolved \ {run.op}
               PROVE  host' = snapshot[journal[m].binding]
    BY DEF RepairIsExact
  <2>1. Sound BY DEF IInv
  <2>2. run.pc \in {"packages", "mutate"} /\ host' = TargetContent
    BY <2>1, MachineStep DEF HostAfter
  <2>3. run.kind = "rollback" /\ journal[m].binding = run.snap
    BY <2>1, <2>2, WorkPhaseSet DEF Sound, WorkSound
  <2>4. run.goal = "baseline" BY <2>1, <2>2, <2>3 DEF Sound, RunIdentified
  <2> QED BY <2>2, <2>3, <2>4 DEF TargetContent
<1> QED BY <1>1, Invariance, PTL DEF Spec, ExactRepair

(* Launchers are let go by a release its journal authorizes, on a host that is *)
(* the one the journal says is released.                                       *)
THEOREM ReleasesAuthorized == ASSUME Alone PROVE Spec => ReleaseAuthorization
<1>1. IInv /\ [Next]_vars => [ReleaseIsAuthorized]_vars
  <2> SUFFICES ASSUME IInv, Next, LauncherLetGo
               PROVE  /\ run.pc = "release"
                      /\ journal[run.op].ok => ReleaseTarget \in journal[run.op].releases
                      /\ host = TargetContent
    BY DEF ReleaseIsAuthorized
  <2>1. Sound BY DEF IInv
  <2>2. PICK l \in LaunchersAfter : launchers' \in PartlyMasked(l) BY <2>1, MachineStep
  <2>3. run.pc = "release" BY <2>2 DEF LauncherLetGo, LaunchersAfter, PartlyMasked, Opened
  <2> QED BY <2>1, <2>3 DEF IInv, ReleaseSound, Sound, PhaseSound, SettledPhases
<1> QED BY <1>1, Invariance, PTL DEF Spec, ReleaseAuthorization

(* An operation is marked recovered only on the host its journal binds, with  *)
(* the launchers released.                                                    *)
THEOREM RecoversJustly == ASSUME Alone PROVE Spec => JustifiedRecovery
<1>1. IInv /\ [Next]_vars => [RecoveredIsJustified]_vars
  <2> SUFFICES ASSUME IInv, Next, NEW m \in OperationIds,
                      ~Recovered(journal[m]), Recovered(journal'[m])
               PROVE  host = snapshot[journal[m].binding] /\ launchers = "released"
    BY DEF RecoveredIsJustified
  <2>1. Sound /\ journal[m] \in Journals BY DEF IInv, Sound, TypeOK
  <2>2. JournalMoves(m) BY <2>1, JournalStep
  <2>3. journal'[m] \notin OwnLines(journal[m]) BY <2>1, OwnLineFacts DEF Recovered
  <2>4. journal'[m] \notin {NoJournal, OperationStarted}
    BY DEF Recovered, NoJournal, OperationStarted
  <2>5. run.pc = "recover" /\ m \in run.recovering
    BY <2>2, <2>3, <2>4 DEF JournalMoves, Recovered
  <2>6. run.kind = "rollback" /\ journal[m].binding = run.snap
    BY <2>1, <2>5, WorkPhaseSet DEF Sound, WorkSound
  <2>7. host = TargetContent /\ launchers = "released"
    BY <2>5 DEF IInv, ReleaseSound, Sound, PhaseSound, SettledPhases
  <2>8. run.goal = "baseline" BY <2>1, <2>5, <2>6 DEF Sound, RunIdentified
  <2> QED BY <2>6, <2>7, <2>8 DEF TargetContent
<1> QED BY <1>1, Invariance, PTL DEF Spec, JustifiedRecovery

(* The scan goes on finding an operation with journaled host commands until a  *)
(* line of its journal resolves it.                                            *)
THEOREM ResolvedByEvidence == Spec => EvidenceResolves
<1>1. IInv /\ [Next]_vars => [OnlyEvidenceResolves]_vars
  <2> SUFFICES ASSUME IInv, Next, NEW m \in Unresolved, m \notin Unresolved'
               PROVE  ~Terminal(journal[m]) /\ Terminal(journal'[m]) /\ m \in marker'
    BY DEF OnlyEvidenceResolves
  <2>1. /\ Sound /\ m \in OperationIds /\ journal[m] \in Journals
        /\ journal[m].mutation /\ ~Terminal(journal[m])
    BY DEF IInv, Sound, TypeOK, Unresolved, IsUnresolved
  <2>2. m \in marker' BY <2>1, MarkerStep
  <2>3. JournalMoves(m) BY <2>1, JournalStep
  <2>4. journal'[m].mutation
    <3>1. CASE journal'[m] = journal[m] BY <2>1, <3>1
    <3>2. CASE journal'[m] \in OwnLines(journal[m]) BY <2>1, <3>2, OwnLineFacts
    <3>3. CASE m = run.op /\ run.pc \in {"reserve", "mark", "begin"}
      BY <2>1, <3>3, Unwritten, NoJournalFacts
    <3>4. CASE journal'[m] = OperationRecovered(journal[m], m, run.op, run.snap)
      BY <2>1, <3>4 DEF OperationRecovered, Read, Journals
    <3> QED BY <2>3, <3>1, <3>2, <3>3, <3>4 DEF JournalMoves
  <2>5. Terminal(journal'[m]) BY <2>2, <2>4 DEF Unresolved, IsUnresolved
  <2> QED BY <2>1, <2>2, <2>5
<1> QED BY <1>1, Invariance, PTL DEF Spec, EvidenceResolves
=============================================================================
