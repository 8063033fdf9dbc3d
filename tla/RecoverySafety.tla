--------------------------- MODULE RecoverySafety ---------------------------
(***************************************************************************)
(* What crash recovery promises, over Recovery.tla.                          *)
(***************************************************************************)
EXTENDS Recovery

(* The state space of the module; no file or field takes another value. *)
TypeOK ==
  /\ journal \in [OperationIds -> Journals]
  /\ report \in [OperationIds -> {"none", "provisional", "complete", "incomplete"}]
  /\ marker \in SUBSET OperationIds
  /\ snapshot \in [OperationIds -> Hosts \cup {"absent"}]
  /\ host \in Hosts
  /\ launchers \in Launchers
  /\ orphan \in Hosts \cup {"none", "absent"}
  /\ run \in Runs

(* The scan of the next applied command finds every interrupted change: while *)
(* the host is between two verified states, some active journal either is      *)
(* unresolved and binds a snapshot file holding a verified state to go back     *)
(* to, or cannot be read and so blocks all work.                               *)
NoForgottenMutation ==
  host = "partial" =>
    \E m \in marker :
      journal[m].ok =>
        /\ m \in Unresolved
        /\ Bound(journal[m])
        /\ snapshot[journal[m].binding] \in Contents

(* However many operations and recoveries crashed one after the other, all    *)
(* that is unresolved binds one snapshot, so recovery_snapshot_path never      *)
(* finds an ambiguous or missing authority.                                    *)
OneAuthority ==
  \A m, n \in Unresolved :
    journal[m].ok /\ journal[n].ok =>
      Bound(journal[m]) /\ journal[m].binding = journal[n].binding

(* The snapshot an unresolved journal binds is on disk and records a verified  *)
(* host: no cleanup of interrupted staging removes it, and no operation        *)
(* snapshots a half-changed host.                                              *)
AuthorityRetained ==
  \A m \in Unresolved :
    journal[m].ok => snapshot[journal[m].binding] \in Contents

(* On a half-changed host no launcher is up but one that a package script      *)
(* started or unmasked: the program itself lets none out, whatever crashed      *)
(* before.  And modules and MIG are only touched once all four are masked       *)
(* again, so what a script let out can use the GPU between the package          *)
(* transaction and the second quarantine, or after a crash there until the      *)
(* recovery quarantines.                                                       *)
MaskedWhilePartial ==
  host = "partial" =>
    /\ launchers \in {"masked", "scripted"}
    /\ run.pc \in {"recheck", "mutate"} => launchers = "masked"

(* Every marked journal parses whenever the lock is free: the next command can *)
(* always establish recovery authority ("refused except a rollback using the   *)
(* one exact snapshot", README.md:311).                                        *)
AuthorityReadable == run.pc = "idle" => Readable

(* Launchers left masked while no operation runs belong to an operation some   *)
(* active journal still holds open: nothing stays quarantined unnoticed        *)
(* ("Every applied command is crash-journaled before its first host mutation", *)
(* README.md:309).                                                             *)
QuarantineIsClaimed ==
  run.pc = "idle" /\ launchers # "released" =>
    \E m \in marker : ~journal[m].ok \/ m \in Unresolved

(* The lock serializes host mutations (comment at cli.py:340-342): no command  *)
(* of a dead process runs beside one of the process that holds it.             *)
SerializedMutations ==
  ~(orphan # "none" /\ run.pc \in HostPhases /\ Running)

-----------------------------------------------------------------------------
(* Action properties.                                                         *)

(* What the program lets go; what a package script opens (masked to scripted)  *)
(* is not its doing.                                                           *)
LauncherLetGo ==
  \/ launchers \in {"masked", "scripted"} /\ launchers' \in {"mixed", "released"}
  \/ launchers = "mixed" /\ launchers' = "released"

(* A launcher is let go only by an operation whose journal already authorizes  *)
(* this release, and only when the host is verified to be what the journal     *)
(* says is released.                                                           *)
ReleaseIsAuthorized ==
  LauncherLetGo =>
    /\ run.pc = "release"
    /\ journal[run.op].ok => ReleaseTarget \in journal[run.op].releases
    /\ host = TargetContent

(* A half-changed host becomes whole only as the state bound by every          *)
(* operation still unresolved, the running one excepted: without another it     *)
(* may also reach its own target.                                              *)
RepairIsExact ==
  host = "partial" /\ host' # "partial" =>
    \A m \in Unresolved \ {run.op} :
      journal[m].ok => host' = snapshot[journal[m].binding]

(* operation-recovered is written only while the host is the verified state    *)
(* that journal binds, with the launchers released to it.                      *)
RecoveredIsJustified ==
  \A m \in OperationIds :
    ~Recovered(journal[m]) /\ Recovered(journal'[m]) =>
      host = snapshot[journal[m].binding] /\ launchers = "released"

(* An operation whose host commands were journaled stops being unresolved only *)
(* when its own completion or a recovery says so: neither a crash, nor the      *)
(* scan, nor a later operation makes the scan forget it.                        *)
OnlyEvidenceResolves ==
  \A m \in Unresolved : m \notin Unresolved' =>
    \/ ~Terminal(journal[m]) /\ Terminal(journal'[m]) /\ m \in marker'

ReleaseAuthorization == [][ReleaseIsAuthorized]_vars
ExactRepair          == [][RepairIsExact]_vars
JustifiedRecovery    == [][RecoveredIsJustified]_vars
EvidenceResolves     == [][OnlyEvidenceResolves]_vars

-----------------------------------------------------------------------------
(* A process that took the lock gives it back, whatever it found and whatever  *)
(* failed: no phase of an operation waits for itself.                          *)
LockIsReleased == run.pc # "idle" ~> run.pc = "idle"

-----------------------------------------------------------------------------
(* The inductive invariant behind the properties.  A command that outlives its *)
(* process (SIGKILL) may change the host under whoever comes next: what the    *)
(* invariant says of the host is then void, what it says of the files stays.   *)

Alone      == "kill" \notin Faults
Broken     == Alone /\ host = "partial"
OnTarget   == Alone => host = TargetContent
Recordable == IF Alone THEN Contents ELSE Hosts    \* what a snapshot may record

BoundPhases   == HostPhases \cup {"probe", "recheck", "verify", "authorize", "confirm", "recover"}
EndPhases     == {"emit", "complete", "persistenceFailed"}
SettledPhases == {"authorize", "release", "unrelease", "confirm", "recover"}

(* Journals and snapshot files, whoever wrote them. *)
JournalSound(o) ==
  LET j == journal[o] IN
  /\ ~j.begun => j = NoJournal /\ o \notin marker
  /\ j.ok /\ j.mutation => Bound(j)
  /\ Bound(j) => Bound(journal[j.binding]) /\ snapshot[j.binding] \in Recordable
  /\ snapshot[o] \in Recordable \cup {"absent"}
  /\ snapshot[o] # "absent" => Bound(j) \/ (o \in marker /\ (j.ok => j.artifacts))
DiskSound == \A o \in OperationIds : JournalSound(o)

RunIdentified ==
  run.pc # "idle" =>
    /\ run.op \in OperationIds /\ run.snap \in OperationIds
    /\ IF run.kind = "rollback" THEN run.snap # run.op /\ run.goal = "baseline"
       ELSE run.snap = run.op

(* From the lock to the reservation. *)
ScanSound ==
  /\ run.pc \in ScanPhases => ~journal[run.op].begun /\ ~run.mutating
  /\ run.pc = "retire" =>
       /\ Readable
       /\ run.recovering = Unresolved
       /\ run.retiring \subseteq marker \ Unresolved
       /\ \A m \in marker \ run.retiring : journal[m].mutation
  /\ run.pc = "reserve" =>
       /\ Readable
       /\ \A m \in marker : Bound(journal[m])
       /\ \A m \in Unresolved : run.kind = "rollback" /\ journal[m].binding = run.snap
       /\ run.recovering = Unresolved

(* A host that this operation has not touched is claimed by another one. *)
ClaimedByAnother == Broken => \E m \in Unresolved : m # run.op

(* From the reservation to the end of the process. *)
WorkSound ==
  run.pc \in ReservePhases \cup WorkPhases =>
    LET j == journal[run.op] IN
    /\ j.begun
    /\ run.op \in marker <=> run.pc # "mark"
    /\ ~Closed(j)
    /\ j.binding \in {NoOp, run.snap}
    /\ run.recovering \subseteq Unresolved \ {run.op}
    /\ \A m \in Unresolved \ {run.op} :
         run.kind = "rollback" /\ journal[m].binding = run.snap
    /\ run.mutating => (j.ok => j.mutation)
    /\ ~run.mutating => ClaimedByAnother

PhaseSound ==
  /\ run.pc \in ReservePhases =>
       /\ journal[run.op] = OperationStarted
       /\ \A m \in marker \ {run.op} : Bound(journal[m])
  /\ run.pc \in {"gate", "stage", "persist"} => run.kind # "rollback"
  /\ run.pc = "persist" /\ Running =>
       (journal[run.op].ok => journal[run.op].artifacts)
  /\ run.pc = "bind" => snapshot[run.snap] \in Recordable
  /\ run.pc = "bind" /\ run.kind = "rollback" => Bound(journal[run.snap])
  /\ run.pc \in BoundPhases =>
       /\ snapshot[run.snap] \in Recordable
       /\ journal[run.op].ok => Bound(journal[run.op])
  /\ run.pc \in HostPhases /\ run.step # "ready" => run.mutating
  /\ run.mutating => run.pc \in BoundPhases \cup EndPhases
  /\ Alone /\ run.pc \in {"probe", "recheck", "mutate"} => launchers = "masked"
  /\ Alone /\ run.pc \in {"packages", "checkpoint"} => launchers \in {"masked", "scripted"}
  /\ run.pc \in SettledPhases => OnTarget
  /\ run.pc = "requarantine" => run.failed
  /\ run.compensated => run.pc \in EndPhases
  /\ run.pc \in EndPhases /\ (~run.failed \/ run.compensated) => ~Broken
  /\ run.pc = "complete" /\ report[run.op] # "incomplete" => ClaimedByAnother

(* Whoever finds the host half-changed finds the operation that did it. *)
Claimed == Broken => \E m \in marker : journal[m].ok => m \in Unresolved

(* A half-changed host stays behind masked launchers but for what scripts do. *)
Masked == Broken => launchers \in {"masked", "scripted"}

(* What the command of a killed process may still make of the host. *)
Orphans == IF Alone THEN {"none"} ELSE Hosts \cup {"none"}

Sound ==
  /\ TypeOK
  /\ orphan \in Orphans
  /\ DiskSound
  /\ RunIdentified
  /\ ScanSound
  /\ WorkSound
  /\ PhaseSound
  /\ Claimed
  /\ OneAuthority
  /\ Masked

(* What the launcher release may rely on: it runs behind its own line in the   *)
(* journal, and what follows it finds the launchers where they belong.         *)
ReleaseSound ==
  /\ run.pc = "release" =>
       (journal[run.op].ok => ReleaseTarget \in journal[run.op].releases)
  /\ run.pc \in {"confirm", "recover"} => launchers = "released"

(* Both: the inductive invariant, of what a crash leaves and of what the       *)
(* release relies on (the duties of _execute_command from phase to phase).     *)
IInv == Sound /\ ReleaseSound

-----------------------------------------------------------------------------
(* What more holds when the process is only ever stopped by a power loss, on a *)
(* host whose probe runs no command.                                           *)

AtWork        == run.pc \in ReservePhases \cup WorkPhases
BindingPhases == {"mark", "begin", "gate", "stage", "persist", "bind"}
QuietPhases   == {"probe", "packages", "checkpoint", "recheck", "mutate", "verify",
                  "authorize"}
BeforeRelease == BindingPhases \cup {"quiesce"} \cup QuietPhases

(* Every line so far was accepted, and so will be the next one.                *)
LinesFit ==
  /\ \A o \in OperationIds : journal[o].ok
  /\ run.pc \notin {"abort", "persistenceFailed"} /\ run.step \in {"ready", "running"}
  /\ AtWork =>
       LET j == journal[run.op] IN
       /\ j.pending = IF Running THEN Command ELSE NoCommand
       /\ run.goal = "target" => j.releases \subseteq {ReleaseTarget}
       /\ run.pc \in BeforeRelease => ReleaseTarget \notin j.releases
       /\ run.pc \in BindingPhases => ~Bound(j)
       /\ run.pc \in QuietPhases => run.mutating
       /\ run.pc = "complete" /\ report[run.op] = "incomplete" => Bound(j)

(* Launchers that are not released have an unresolved operation that answers   *)
(* for them: another one as long as the operation at work has not touched them, *)
(* has proven that it may end well, or has reported so.                         *)
OthersAnswer == launchers # "released" => Unresolved \ {run.op} # {}
LaunchersAnswered ==
  /\ run.pc # "idle" => run.kind # "lock"
  /\ ~AtWork => (launchers # "released" => Unresolved # {})
  /\ AtWork /\ ~run.mutating => OthersAnswer
  /\ run.pc = "unrelease" => run.failed
  /\ run.pc = "emit" /\ (~run.failed \/ run.compensated) => OthersAnswer
  /\ run.pc = "complete" /\ report[run.op] # "incomplete" => OthersAnswer
=============================================================================
