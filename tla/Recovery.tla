------------------------------ MODULE Recovery ------------------------------
(***************************************************************************)
(* Applied operations and their crash recovery: nvidia_converge/cli.py       *)
(* (_main, _execute_command, emit_report and the helpers they call) over the *)
(* durable files of report.py and recovery.py and the snapshots of           *)
(* rollback.py.                                                              *)
(*                                                                         *)
(* One process at a time holds the operation lock; `run` is that process.    *)
(* It scans the active markers, refuses or admits the command, reserves a    *)
(* report, a journal and a marker, snapshots the host, binds the snapshot in  *)
(* the journal, quarantines the launchers, changes the host, verifies it,     *)
(* authorizes and performs the launcher release, and completes.  Every        *)
(* command it runs is two steps, the durable command-started line and the     *)
(* command's end with its command-finished line, so that power loss, SIGKILL, *)
(* SIGTERM and a failing journal append fall between any two of them.         *)
(*                                                                         *)
(* The host is abstracted to WHICH verified state it is in: the one before    *)
(* any operation, the verified target of operation o (named o), or "partial". *)
(* The four launchers are abstracted to released (their own target state),    *)
(* masked (all four), scripted (masked but for what a package script started   *)
(* or unmasked since) and mixed.                                              *)
(***************************************************************************)
EXTENDS JournalFormat, FiniteSets

CONSTANTS Kinds,         \* the applied commands the operator uses
          Faults,        \* what can go wrong around the program
          ProbeQueries   \* can the workload probe run nvidia-smi or docker

AllKinds  == {"snapshot", "install", "verify", "lock", "rollback"}
AllFaults == {"powerLoss", "kill", "signal", "append", "appendUncertain"}

ASSUME ConfigurationAssumption ==
  /\ Kinds \subseteq AllKinds
  /\ Faults \subseteq AllFaults
  /\ ProbeQueries \in BOOLEAN

ASSUME HostNamesAssumption == OperationIds \cap {"pristine", "partial", "absent"} = {}

VARIABLES journal,    \* journal[o]: the durable journal of operation o
          report,     \* report[o]: the durable report of operation o
          marker,     \* operations with a marker in the active index
          snapshot,   \* snapshot[o]: what the snapshot file of o records
          host,       \* the host state operations change and verify
          launchers,  \* the four transactional launchers
          orphan,     \* a command that outlived its killed process
          run         \* the process that holds the operation lock

disk    == <<journal, report, marker, snapshot>>
machine == <<host, launchers, orphan>>
vars    == <<journal, report, marker, snapshot, host, launchers, orphan, run>>

Contents  == OperationIds \cup {"pristine"}
Hosts     == Contents \cup {"partial"}
Launchers == {"released", "mixed", "masked", "scripted"}

(* Phases in which the process runs a journaled command. *)
CommandOf ==
  [gate    |-> "probe",                  stage       |-> "stage-package-payloads",
   persist |-> "persist-rollback-snapshot", quiesce  |-> "host-command",
   probe   |-> "probe",                  packages    |-> "host-command",
   checkpoint |-> "host-command",        recheck     |-> "probe",
   mutate  |-> "host-command",
   release |-> "host-command",           unrelease   |-> "host-command",
   requarantine |-> "host-command",      abort       |-> "host-command"]
CommandPhases   == DOMAIN CommandOf
HostPhases      == {p \in CommandPhases : CommandOf[p] = "host-command"}
ScanPhases      == {"scan", "retire", "reserve"}
ReservePhases   == {"mark", "begin"}
OtherPhases     == {"bind", "verify", "authorize", "confirm", "recover", "emit",
                    "complete", "persistenceFailed"}
WorkPhases      == CommandPhases \cup OtherPhases
Phases == {"idle"} \cup ScanPhases \cup ReservePhases \cup WorkPhases

Runs ==
  [op : OperationIds \cup {NoOp}, kind : AllKinds, snap : OperationIds \cup {NoOp},
   pc : Phases, step : {"ready", "running", "query", "queried"},
   goal : {"target", "baseline"},
   recovering : SUBSET OperationIds,   \* the unresolved operations it resolves
   retiring   : SUBSET OperationIds,   \* markers this scan still has to retire
   mutating   : BOOLEAN,               \* in _MUTATING_OPERATION_IDS
   failed     : BOOLEAN,               \* the report's exit code is not 0
   compensated : BOOLEAN]              \* install.compensation.succeeded

IdleRun ==
  [op |-> NoOp, kind |-> "snapshot", snap |-> NoOp, pc |-> "idle", step |-> "ready",
   goal |-> "target", recovering |-> {}, retiring |-> {}, mutating |-> FALSE,
   failed |-> FALSE, compensated |-> FALSE]

Init ==
  /\ journal   = [o \in OperationIds |-> NoJournal]
  /\ report    = [o \in OperationIds |-> "none"]
  /\ marker    = {}
  /\ snapshot  = [o \in OperationIds |-> "absent"]
  /\ host      = "pristine"
  /\ launchers = "released"
  /\ orphan    = "none"
  /\ run       = IdleRun

-----------------------------------------------------------------------------
(* What the scan derives from the marked journals.                           *)

HasFinalReport(o) == Completed(journal[o]) /\ report[o] = "complete"

(* Faulty variant: no pending command is taken for a finished operation. *)
RetirableWhenQuiet(m) ==
  \/ ~journal[m].mutation
  \/ journal[m].pending = NoCommand

Retirable(m) ==
  \/ ~journal[m].mutation
  \/ HasFinalReport(m)
  \/ /\ journal[m].recoveredBy \in marker
     /\ HasFinalReport(journal[m].recoveredBy)

Readable      == \A m \in marker : journal[m].ok
IsUnresolved(m) == journal[m].mutation /\ ~Terminal(journal[m])
Unresolved    == {m \in marker : IsUnresolved(m)}

(* The host content the running operation tries to reach, and its name in    *)
(* the journal's release record.                                             *)
TargetContent == IF run.goal = "target" THEN run.op ELSE snapshot[run.snap]
ReleaseTarget ==
  IF run.goal = "baseline" THEN "rollback-baseline"
  ELSE IF run.kind = "install" THEN "install-target" ELSE "operation-target"

AtCommand   == run.pc \in CommandPhases
Command     == CommandOf[run.pc]
Running     == AtCommand /\ run.step # "ready"
Goto(p)     == [run EXCEPT !.pc = p, !.step = "ready"]
GotoFailed(p) == [Goto(p) EXCEPT !.failed = TRUE]
Write(j)    == journal' = [journal EXCEPT ![run.op] = j]
Exit        == run' = IdleRun

(* What the current command may have done when it ends in an unknown way:    *)
(* nothing, all of it, or a part.                                            *)
HostAfter ==
  IF run.pc \in {"packages", "mutate"} /\ Running
  THEN {host, "partial", TargetContent} ELSE {host}

(* Maintainer scripts can start or unmask launchers (comments at              *)
(* gpu_safety.py:281 and rollback.py:2107 and 2280).                          *)
Opened(l) == {l} \cup IF l = "masked" THEN {"scripted"} ELSE {}
PartlyMasked(l) == {l, "masked"} \cup IF l = "released" THEN {"mixed"} ELSE {}
Quarantines == {"quiesce", "checkpoint", "unrelease", "requarantine", "abort"}
LaunchersAfter ==
  CASE Running /\ run.pc = "release"      -> {launchers, "mixed", "released"}
    [] Running /\ run.pc = "packages"     -> Opened(launchers)
    [] Running /\ run.pc \in Quarantines -> PartlyMasked(launchers)
    [] OTHER                              -> {launchers}
SnapshotAfter ==
  IF run.pc = "persist" /\ Running
  THEN {snapshot, [snapshot EXCEPT ![run.op] = host]} ELSE {snapshot}

(* Phases whose exceptions run _emergency_quarantine_launchers, which masks   *)
(* outside the journal and as far as it can.                                  *)
GatePhases == {"quiesce", "probe", "abort"}

-----------------------------------------------------------------------------
(* Taking the lock, the recovery scan and the gate (_main).                   *)

AcquireLock(o, k, s) ==
  /\ run.pc = "idle"
  /\ ~journal[o].begun
  /\ IF k = "rollback" THEN s # o ELSE s = o
  /\ run' = [IdleRun EXCEPT !.op = o, !.kind = k, !.snap = s, !.pc = "scan",
                            !.goal = IF k = "rollback" THEN "baseline" ELSE "target"]
  /\ UNCHANGED <<disk, machine>>

(* A journal that does not parse raises RecoveryStateError: exit 2, nothing   *)
(* is changed.                                                                *)
ScanRefuses ==
  /\ run.pc = "scan"
  /\ ~Readable
  /\ Exit
  /\ UNCHANGED <<disk, machine>>

Scan ==
  /\ run.pc = "scan"
  /\ Readable
  /\ run' = [run EXCEPT !.pc = "retire",
                        !.retiring   = {m \in marker : Retirable(m)},
                        !.recovering = {m \in Unresolved : ~Retirable(m)}]
  /\ UNCHANGED <<disk, machine>>

(* The private snapshot files of an operation that never reached the host are *)
(* removed first, unless its journal binds them; then the marker goes.        *)
Retire(m) ==
  /\ run.pc = "retire"
  /\ m \in run.retiring
  /\ LET j == journal[m] IN
     snapshot' = IF ~j.mutation /\ j.artifacts /\ ~Bound(j)
                 THEN [snapshot EXCEPT ![m] = "absent"] ELSE snapshot
  /\ marker' = marker \ {m}
  /\ run' = [run EXCEPT !.retiring = @ \ {m}]
  /\ UNCHANGED <<journal, report, machine>>

(* Faulty variant: any rollback may go on. *)
AdmissibleRollback == run.recovering = {} \/ run.kind = "rollback"

(* recovery_snapshot_path: every unresolved operation must bind one snapshot, *)
(* and only a rollback of exactly that snapshot may go on.                    *)
Admissible ==
  run.recovering = {} \/
    /\ run.kind = "rollback"
    /\ {journal[m].binding : m \in run.recovering} = {run.snap}

Admit ==
  /\ run.pc = "retire" /\ run.retiring = {}
  /\ Admissible
  /\ run' = Goto("reserve")
  /\ UNCHANGED <<disk, machine>>

Refuse ==
  /\ run.pc = "retire" /\ run.retiring = {}
  /\ ~Admissible
  /\ Exit
  /\ UNCHANGED <<disk, machine>>

(* reserve_applied_report: report and journal are durable before the marker,  *)
(* the marker before the emergency reserve and before any command.            *)
Reserve ==
  /\ run.pc = "reserve"
  /\ Write(OperationStarted)
  /\ report' = [report EXCEPT ![run.op] = "provisional"]
  /\ run' = Goto("mark")
  /\ UNCHANGED <<marker, snapshot, machine>>

CreateMarker ==
  /\ run.pc = "mark"
  /\ marker' = marker \cup {run.op}
  /\ run' = Goto("begin")
  /\ UNCHANGED <<journal, report, snapshot, machine>>

(* Faulty variant: the marker of a removed journal stays. *)
ReserveFailsMarked ==
  /\ "append" \in Faults
  /\ run.pc \in ReservePhases
  /\ Write(NoJournal)
  /\ report' = [report EXCEPT ![run.op] = "none"]
  /\ Exit
  /\ UNCHANGED <<marker, snapshot, machine>>

(* The reservation fails: marker first, then journal and report are removed.  *)
ReserveFails ==
  /\ "append" \in Faults
  /\ run.pc \in ReservePhases
  /\ marker' = marker \ {run.op}
  /\ Write(NoJournal)
  /\ report' = [report EXCEPT ![run.op] = "none"]
  /\ Exit
  /\ UNCHANGED <<snapshot, machine>>

(* install and lock plan first: an unsupported or unresolvable plan is an      *)
(* ordinary failed report, a lock with nothing to do an ordinary success.  A   *)
(* disruptive install is authorized by a read-only gate before its snapshot.   *)
Dispatch ==
  /\ run.pc = "begin" /\ run.kind # "rollback"
  /\ \/ run' = Goto("stage")
     \/ run.kind = "install" /\ run' = Goto("gate")
     \/ run.kind \in {"install", "lock"} /\ run' = GotoFailed("emit")
     \/ run.kind = "lock" /\ run' = Goto("emit")
  /\ UNCHANGED <<disk, machine>>

(* load_snapshot fails: return 2 without a final report. *)
RollbackLoadFails ==
  /\ run.pc = "begin" /\ run.kind = "rollback"
  /\ snapshot[run.snap] = "absent"
  /\ Exit
  /\ UNCHANGED <<disk, machine>>

(* Faulty variant: a rollback goes on without its snapshot. *)
RollbackUnloaded ==
  /\ run.pc = "begin" /\ run.kind = "rollback"
  /\ run' \in {Goto("bind"), GotoFailed("emit")}
  /\ UNCHANGED <<disk, machine>>

(* Inventory, trust and package preflight come before the binding: a failure  *)
(* is an ordinary failed report.                                              *)
RollbackPreflight ==
  /\ run.pc = "begin" /\ run.kind = "rollback"
  /\ snapshot[run.snap] # "absent"
  /\ run' \in {Goto("bind"), GotoFailed("emit")}
  /\ UNCHANGED <<disk, machine>>

-----------------------------------------------------------------------------
(* Journaled commands: CommandRunner.run with start and result callbacks.     *)

StartCommand ==
  /\ AtCommand /\ run.step = "ready"
  /\ Write(CommandStarted(journal[run.op], Command))
  /\ run' = [run EXCEPT !.step = "running",
                        !.mutating = IF run.pc \in HostPhases THEN TRUE ELSE @]
  /\ UNCHANGED <<report, marker, snapshot, machine>>

(* probe_active_gpu_workloads journals its own start and then runs nvidia-smi *)
(* and docker through the same journaled runner, before its own finish.       *)
StartQuery ==
  /\ ProbeQueries
  /\ AtCommand /\ Command = "probe" /\ run.step = "running"
  /\ Write(CommandStarted(journal[run.op], "query"))
  /\ run' = [run EXCEPT !.step = "query"]
  /\ UNCHANGED <<report, marker, snapshot, machine>>

FinishQuery ==
  /\ AtCommand /\ run.step = "query"
  /\ Write(CommandFinished(journal[run.op], "query"))
  /\ run' = [run EXCEPT !.step = "queried"]
  /\ UNCHANGED <<report, marker, snapshot, machine>>

Ends(p) == /\ run.pc = p /\ run.step \in {"running", "queried"}
           /\ Write(CommandFinished(journal[run.op], Command))
           /\ UNCHANGED <<report, marker, orphan>>

(* The read-only authorization of an install, before its snapshot. *)
GateEnds == /\ Ends("gate")
            /\ run' \in {Goto("stage"), GotoFailed("emit")}
            /\ UNCHANGED <<snapshot, host, launchers>>

(* A snapshot that fails ends the snapshot command without a report, and any  *)
(* other command with an ordinary failed report.                              *)
SnapshotFails == run' = IF run.kind = "snapshot" THEN IdleRun ELSE GotoFailed("emit")

StageEnds == /\ Ends("stage")
             /\ run' = Goto("persist") \/ SnapshotFails
             /\ UNCHANGED <<snapshot, host, launchers>>

PersistEnds ==
  /\ Ends("persist")
  /\ \/ /\ snapshot' = [snapshot EXCEPT ![run.op] = host]
        /\ run' = Goto("bind")
     \/ UNCHANGED snapshot /\ SnapshotFails
  /\ UNCHANGED <<host, launchers>>

(* _append_snapshot_binding.  A last preflight or the maintenance attestation *)
(* may still stop the command before its first host command.                  *)
Bind ==
  /\ run.pc = "bind"
  /\ Write(SnapshotPersisted(journal[run.op], run.snap))
  /\ run' \in IF run.kind = "snapshot" THEN {Goto("emit")}
              ELSE {Goto("quiesce"), GotoFailed("emit")}
  /\ UNCHANGED <<report, marker, snapshot, machine>>

-----------------------------------------------------------------------------
(* Quarantine, mutation, verification, launcher release.                      *)

(* What a failed step does next.  A failing install starts its compensation,  *)
(* once; an exhausted compensation or any other command masks the launchers   *)
(* again, except after a refused boundary and where apply_rollback gives up    *)
(* inside a compensation.                                                     *)
LeavesLaunchers(r) ==
  \/ r.pc = "probe" /\ r.goal = "baseline"
  \/ r.pc \in {"packages", "checkpoint", "mutate"} /\ r.kind = "install"
Compensate(r) == [r EXCEPT !.pc = "quiesce", !.step = "ready", !.failed = TRUE,
                           !.goal = "baseline"]
(* Faulty variant: a failed compensation is compensated. *)
MayAlwaysCompensate == run.kind = "install"

MayCompensate == run.kind = "install" /\ run.goal = "target"
PhaseFailed == IF MayCompensate THEN Compensate(run)
               ELSE GotoFailed(IF LeavesLaunchers(run) THEN "emit" ELSE "requarantine")

(* quiesce_trusted_gpu_services and _defer_launcher_enablement: stop and mask *)
(* all four launchers.                                                        *)
QuiesceEnds ==
  /\ Ends("quiesce")
  /\ \/ launchers' = "masked" /\ run' = Goto("probe")
     \/ launchers' \in LaunchersAfter /\ run' = PhaseFailed
  /\ UNCHANGED <<snapshot, host>>

(* A unit whose identity or state cannot be proven is refused before the      *)
(* first systemctl command.                                                   *)
QuiesceRefused ==
  /\ run.pc \in {"quiesce", "checkpoint"} /\ run.step = "ready"
  /\ run' = PhaseFailed
  /\ UNCHANGED <<disk, machine>>

(* What the plan or the snapshot asks for: packages first, or none.  An        *)
(* install that only writes files needs no second quarantine; a prepared       *)
(* verify changes no package, lock nothing else.                              *)
AfterProbe ==
  CASE run.kind = "verify"     -> {"mutate"}
    [] run.kind = "lock"       -> {"packages"}
    [] run.goal = "baseline"   -> {"packages", "checkpoint"}
    [] OTHER                   -> {"packages", "checkpoint", "mutate"}

ProbeEnds ==
  /\ Ends("probe")
  /\ run' \in {Goto(p) : p \in AfterProbe} \cup {PhaseFailed}
  /\ UNCHANGED <<snapshot, host, launchers>>

(* Package transactions: each may leave the host partly changed, and its       *)
(* maintainer scripts may let launchers out.  Bound: the phase goes on only    *)
(* after a command that changed the host or the launchers in a new way.        *)
PackagesEnds ==
  /\ Ends("packages")
  /\ host' \in HostAfter
  /\ launchers' \in LaunchersAfter
  /\ \/ /\ host' \in {host, "partial"}
        /\ <<host', launchers'>> # <<host, launchers>>
        /\ run' = Goto("packages")
     \/ run' \in {Goto(IF run.kind = "lock" THEN "verify" ELSE "checkpoint"), PhaseFailed}
  /\ UNCHANGED snapshot

(* The second quarantine, between packages and modules: of an install with a   *)
(* fresh look at the workloads, of apply_rollback without.                     *)
AfterCheckpoint == IF run.goal = "baseline" THEN "mutate" ELSE "recheck"

(* Faulty variant: what a script let out does not stop the operation. *)
CheckpointEndsAnyway ==
  /\ Ends("checkpoint")
  /\ launchers' \in LaunchersAfter
  /\ run' \in {Goto(AfterCheckpoint), PhaseFailed}
  /\ UNCHANGED <<snapshot, host>>

CheckpointEnds ==
  /\ Ends("checkpoint")
  /\ \/ launchers' = "masked" /\ run' = Goto(AfterCheckpoint)
     \/ launchers' \in LaunchersAfter /\ run' = PhaseFailed
  /\ UNCHANGED <<snapshot, host>>

RecheckEnds ==
  /\ Ends("recheck")
  /\ run' \in {Goto("mutate"), PhaseFailed}
  /\ UNCHANGED <<snapshot, host, launchers>>

(* Modules, MIG, files: commands leave the host partly changed until the last  *)
(* one, and whether the result is the target is only seen by a fresh audit.    *)
(* Bound: one command that leaves the host newly half-changed.                 *)
MutateEnds ==
  /\ Ends("mutate")
  /\ \/ host # "partial" /\ host' = "partial" /\ run' = Goto("mutate")
     \/ host' \in HostAfter /\ run' \in {Goto("verify"), PhaseFailed}
  /\ UNCHANGED <<snapshot, launchers>>

(* Faulty variants: nothing is verified; the release is not authorized; the   *)
(* recovery is recorded before the release.                                   *)
VerifyNothing ==
  /\ run.pc = "verify"
  /\ run' \in {Goto("authorize"), PhaseFailed}
  /\ UNCHANGED <<disk, machine>>

VerifyThenRelease ==
  /\ run.pc = "verify"
  /\ \/ host = TargetContent /\ run' = Goto("release")
     \/ run' = PhaseFailed
  /\ UNCHANGED <<disk, machine>>

VerifyThenRecover ==
  /\ run.pc = "verify"
  /\ \/ /\ host = TargetContent
        /\ run' = Goto(IF run.kind = "rollback" THEN "recover" ELSE "authorize")
     \/ run' = PhaseFailed
  /\ UNCHANGED <<disk, machine>>

(* A target is authorized only with all four launchers seen masked            *)
(* (_fresh_gpu_boundary_is_safe, "pre-service-commit"); a baseline comes from  *)
(* apply_rollback, which has just masked them.                                *)
VerifyCore ==
  /\ run.pc = "verify"
  /\ \/ /\ host = TargetContent
        /\ run.goal = "target" => launchers = "masked"
        /\ run' = Goto("authorize")
     \/ run' = PhaseFailed
  /\ UNCHANGED <<disk, machine>>

Authorize ==
  /\ run.pc = "authorize"
  /\ Write(ReleaseAuthorized(journal[run.op], ReleaseTarget, run.snap))
  /\ run' = Goto("release")
  /\ UNCHANGED <<report, marker, snapshot, machine>>

(* Faulty variant: the joint proof of the launchers is not looked at. *)
ReleaseEndsUnproven ==
  /\ Ends("release")
  /\ launchers' \in LaunchersAfter
  /\ run' \in {Goto("confirm"), GotoFailed("unrelease")}
  /\ UNCHANGED <<snapshot, host>>

(* _commit_rollback_service_activity: unit after unit, then the joint proof.  *)
(* A failed commit is masked again; `lock` derives its exit code from failed  *)
(* commands only, so a failed joint proof leaves it 0.                        *)
ReleaseEnds ==
  /\ Ends("release")
  /\ \/ launchers = "masked" /\ launchers' = "mixed" /\ run' = Goto("release")
     \/ launchers' = "released" /\ run' = Goto("confirm")
     \/ /\ launchers' \in LaunchersAfter
        /\ \/ run' = GotoFailed("unrelease")
           \/ run.kind = "lock" /\ run' = Goto("unrelease")
  /\ UNCHANGED <<snapshot, host>>

(* _quarantine_failed_launcher_commit, still inside the commit. *)
UnreleaseEnds ==
  /\ Ends("unrelease")
  /\ launchers' \in LaunchersAfter
  /\ run' = IF MayCompensate THEN Compensate(run) ELSE Goto("emit")
  /\ UNCHANGED <<snapshot, host>>

RequarantineEnds ==
  /\ Ends("requarantine")
  /\ launchers' \in LaunchersAfter
  /\ run' = Goto("emit")
  /\ UNCHANGED <<snapshot, host>>

RequarantineRefused ==
  /\ run.pc \in {"requarantine", "unrelease"} /\ run.step = "ready"
  /\ run' = IF run.pc = "unrelease" /\ MayCompensate THEN Compensate(run)
            ELSE Goto("emit")
  /\ UNCHANGED <<disk, machine>>

(* Full verification after the release.  `lock` has none; a failing install   *)
(* target is compensated, or only reported when a reboot can complete it.     *)
Confirm ==
  /\ run.pc = "confirm"
  /\ \/ run' = IF run.kind = "rollback" THEN Goto("recover")
               ELSE IF run.goal = "baseline"
                    THEN [Goto("emit") EXCEPT !.compensated = TRUE]
                    ELSE Goto("emit")
     \/ run.kind # "lock" /\ run' = GotoFailed("emit")
     \/ MayCompensate /\ run' = Compensate(run)
  /\ UNCHANGED <<disk, machine>>

(* _mark_operations_recovered, one journal at a time, before the report. *)
MarkRecovered(m) ==
  /\ run.pc = "recover"
  /\ m \in run.recovering
  /\ journal' = [journal EXCEPT ![m] = OperationRecovered(@, m, run.op, run.snap)]
  /\ run' = [run EXCEPT !.recovering = @ \ {m}]
  /\ UNCHANGED <<report, marker, snapshot, machine>>

AllRecovered ==
  /\ run.pc = "recover" /\ run.recovering = {}
  /\ run' = Goto("emit")
  /\ UNCHANGED <<disk, machine>>

-----------------------------------------------------------------------------
(* emit_report and _finalize_report.                                          *)

(* Faulty variant: an operation that tried its compensation is complete. *)
IncompleteForward == {run.failed /\ run.mutating /\ run.goal = "target"}

(* A failed report is incomplete when commands changed state.  Converging     *)
(* commands count the persisted snapshot, a rollback only host commands; a    *)
(* verified compensation clears it unless a command timed out on the way.     *)
Incomplete ==
  IF ~run.failed \/ ~(run.mutating \/ (run.kind # "rollback" /\ Bound(journal[run.op])))
  THEN {FALSE} ELSE {TRUE} \cup {~run.compensated}

WriteReport ==
  /\ run.pc = "emit"
  /\ \E incomplete \in Incomplete :
       report' = [report EXCEPT ![run.op] = IF incomplete THEN "incomplete" ELSE "complete"]
  /\ run' = Goto("complete")
  /\ UNCHANGED <<journal, marker, snapshot, machine>>

Complete ==
  /\ run.pc = "complete"
  /\ Write(OperationCompleted(journal[run.op], report[run.op] = "incomplete"))
  /\ Exit
  /\ UNCHANGED <<report, marker, snapshot, machine>>

(* The report could not be written, or its completion not be appended. *)
RecordPersistenceFailure ==
  /\ run.pc = "persistenceFailed"
  /\ Write(PersistenceFailed(journal[run.op]))
  /\ Exit
  /\ UNCHANGED <<report, marker, snapshot, machine>>

-----------------------------------------------------------------------------
(* Faults.                                                                    *)

(* The line the current step appends to the journal of the running operation. *)
Appended ==
  LET j == journal[run.op] IN
  CASE AtCommand /\ run.step = "ready"  -> CommandStarted(j, Command)
    [] AtCommand /\ run.step = "query"  -> CommandFinished(j, "query")
    [] AtCommand /\ run.step \notin {"ready", "query"} -> CommandFinished(j, Command)
    [] run.pc = "bind"                  -> SnapshotPersisted(j, run.snap)
    [] run.pc = "authorize"             -> ReleaseAuthorized(j, ReleaseTarget, run.snap)
    [] run.pc = "complete"              ->
         OperationCompleted(j, report[run.op] = "incomplete")
    [] OTHER                            -> PersistenceFailed(j)

(* A failed append is rolled back durably, or its effect is unknown           *)
(* (ReportJournalIntegrityError).                                             *)
AppendedOrNot(o, j) == {journal[o]} \cup IF "appendUncertain" \in Faults THEN {j} ELSE {}

(* An exception in the launcher commit is caught to mask the launchers        *)
(* through the journaled runner; any other ends the process.                  *)
Raised == run' = IF run.pc \in {"release", "unrelease"}
                 THEN GotoFailed("abort") ELSE IdleRun

AbortEnds ==
  /\ Ends("abort")
  /\ launchers' \in LaunchersAfter
  /\ Exit
  /\ UNCHANGED <<snapshot, host>>

AbortRefused ==
  /\ run.pc = "abort" /\ run.step = "ready"
  /\ Exit
  /\ UNCHANGED <<disk, machine>>

AppendFails ==
  /\ "append" \in Faults
  /\ run.pc \in CommandPhases \cup {"bind", "authorize"}
  /\ \E j \in AppendedOrNot(run.op, Appended) : Write(j)
  /\ host' \in HostAfter
  /\ snapshot' \in SnapshotAfter
  /\ \E l \in LaunchersAfter :
       launchers' \in IF run.mutating \/ run.pc \in GatePhases THEN PartlyMasked(l) ELSE {l}
  /\ Raised
  /\ UNCHANGED <<report, marker, orphan>>

(* _mark_operations_recovered raises: the rollback ends without a report. *)
MarkRecoveredFails(m) ==
  /\ "append" \in Faults
  /\ run.pc = "recover" /\ m \in run.recovering
  /\ \E j \in AppendedOrNot(m, OperationRecovered(journal[m], m, run.op, run.snap)) :
       journal' = [journal EXCEPT ![m] = j]
  /\ Exit
  /\ UNCHANGED <<report, marker, snapshot, machine>>

WriteReportFails ==
  /\ "append" \in Faults
  /\ run.pc = "emit"
  /\ launchers' \in IF run.mutating THEN PartlyMasked(launchers) ELSE {launchers}
  /\ run' = Goto("persistenceFailed")
  /\ UNCHANGED <<disk, host, orphan>>

(* The report is rewritten as incomplete, if it can be; a persistence failure *)
(* is recorded only when the journal's tail is known to be whole.             *)
CompleteFails ==
  /\ "append" \in Faults
  /\ run.pc = "complete"
  /\ report' \in {report, [report EXCEPT ![run.op] = "incomplete"]}
  /\ launchers' \in IF run.mutating THEN PartlyMasked(launchers) ELSE {launchers}
  /\ \/ run' = Goto("persistenceFailed") /\ UNCHANGED journal
     \/ /\ "appendUncertain" \in Faults
        /\ \E j \in AppendedOrNot(run.op, Appended) : Write(j)
        /\ Exit
  /\ UNCHANGED <<marker, snapshot, host, orphan>>

RecordPersistenceFailureFails ==
  /\ "append" \in Faults
  /\ run.pc = "persistenceFailed"
  /\ \E j \in AppendedOrNot(run.op, Appended) : Write(j)
  /\ Exit
  /\ UNCHANGED <<report, marker, snapshot, machine>>

(* SIGTERM, SIGHUP or Ctrl-C: an exception in whatever the process does.  The *)
(* child is terminated and no command-finished is written, except by          *)
(* private_state_scope; the maintenance gate masks the launchers outside the  *)
(* journal.                                                                   *)
Signal ==
  /\ "signal" \in Faults
  /\ run.pc # "idle"
  /\ IF run.pc = "stage" /\ Running THEN Write(CommandFinished(journal[run.op], Command))
     ELSE UNCHANGED journal
  /\ host' \in HostAfter
  /\ snapshot' \in SnapshotAfter
  /\ \E l \in LaunchersAfter :
       launchers' \in IF run.pc \in GatePhases THEN PartlyMasked(l) ELSE {l}
  /\ Raised
  /\ UNCHANGED <<report, marker, orphan>>

(* Power loss: the process and its command end; a torn last journal line is   *)
(* cut off by the next scan, so the journal is as before the step.            *)
PowerLoss ==
  /\ "powerLoss" \in Faults
  /\ run.pc # "idle"
  /\ host' \in HostAfter
  /\ launchers' \in LaunchersAfter
  /\ snapshot' \in SnapshotAfter
  /\ Exit
  /\ UNCHANGED <<journal, report, marker, orphan>>

(* SIGKILL of the process alone: commands run in their own session and do not *)
(* inherit the lock, so the lock is free while the command goes on.           *)
Kill ==
  /\ "kill" \in Faults
  /\ run.pc \in {"packages", "mutate"} /\ Running /\ orphan = "none"
  /\ orphan' = TargetContent
  /\ Exit
  /\ UNCHANGED <<disk, host, launchers>>

OrphanEnds ==
  /\ orphan # "none"
  /\ host' \in {"partial", orphan}
  /\ launchers' \in Opened(launchers)
  /\ orphan' = "none"
  /\ UNCHANGED <<disk, run>>

-----------------------------------------------------------------------------
Recovering == ScanRefuses \/ Scan \/ (\E m \in OperationIds : Retire(m)) \/ Admit \/ Refuse
Reserving  == Reserve \/ CreateMarker \/ ReserveFails \/ Dispatch
              \/ RollbackLoadFails \/ RollbackPreflight
Commanding == StartCommand \/ StartQuery \/ FinishQuery \/ GateEnds \/ StageEnds
              \/ PersistEnds \/ Bind
Changing   == QuiesceEnds \/ QuiesceRefused \/ ProbeEnds \/ PackagesEnds
              \/ CheckpointEnds \/ RecheckEnds \/ MutateEnds \/ VerifyCore
Releasing  == Authorize \/ ReleaseEnds \/ UnreleaseEnds \/ RequarantineEnds
              \/ RequarantineRefused \/ Confirm \/ AbortEnds \/ AbortRefused
Reporting  == (\E m \in OperationIds : MarkRecovered(m)) \/ AllRecovered \/ WriteReport
              \/ Complete \/ RecordPersistenceFailure
Failing    == AppendFails \/ (\E m \in OperationIds : MarkRecoveredFails(m))
              \/ WriteReportFails \/ CompleteFails \/ RecordPersistenceFailureFails

Program == Recovering \/ Reserving \/ Commanding \/ Changing \/ Releasing
           \/ Reporting \/ Failing

Next ==
  \/ \E o, s \in OperationIds, k \in Kinds : AcquireLock(o, k, s)
  \/ Program
  \/ Signal
  \/ PowerLoss
  \/ Kill
  \/ OrphanEnds

Spec == Init /\ [][Next]_vars

(* The process that holds the lock runs; nothing else has to happen. *)
FairSpec == Spec /\ WF_vars(Program)
=============================================================================
