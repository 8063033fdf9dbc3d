# nvidia-converge: models and proofs

This directory holds TLA+ modules that model parts of `nvidia_converge/`, the
TLC configurations that check them on small instances, and proofs that TLAPS
checks for every value of the constants. Paths below are relative to the
repository root; "`cli.py:305`" means `nvidia_converge/cli.py`, line 305.

## 1. The system

`nvidia-converge` brings one host to a desired NVIDIA driver stack. Read-only
commands observe; `snapshot`, `install`, `verify`, `lock` and `rollback` with
`--apply` change the host. One process does one command and ends. What makes the
program hard is not its concurrency but its *end*: a run may stop at any
instruction (power loss, SIGKILL, a signal, a full disk, a failed command), and the
next run, another process, must find out from files what happened.

| component | state it keeps | operations | interacts with | hard because | correct when |
|---|---|---|---|---|---|
| operation lock (`locking.py`) | a `flock` on `/run/lock` | take, leave | every applied command | the kernel frees it when the process dies, its commands may go on | host changes never overlap |
| recovery (`recovery.py`) | active markers; reads journals, reports | scan, retire marker, single-authority gate, cleanup of staged snapshots | cli (start of every applied command), report, rollback | reads what a dead process left at any point | an interrupted change is found, its one snapshot is known, nothing is retired too early |
| report persistence (`report.py`) | report, journal, marker, emergency reserve per operation | reserve, append, write, release | cli callbacks, recovery | appends fail, tear, or are uncertain | the journal is a true record and always readable |
| applied operations (`cli.py`) | the running operation | gate, snapshot, bind, quarantine, mutate, verify, authorize, release, compensate, report | all others | long sequence, every step may fail or be interrupted | launchers never run on a half-changed host; recovery is recorded only when done |
| command runner (`runner.py`) | child process group, captured output | run, private state, external records | cli callbacks write the journal around each command | time limits, lingering groups, signals | one command at a time, each journaled before it starts |
| rollback snapshots (`rollback.py`) | snapshot file, payload bundle | create, load, validate, apply, clean | cli, package payloads | partial writes, restore of many kinds of state in order | what is restored is exactly what was recorded |
| GPU safety (`gpu_safety.py`) | quiesced units, trusted identities | quiesce, validate, start, workload probe | cli, systemd, docker | state read before it is used; nested commands | no unknown workload, no untrusted unit started |
| package payloads (`package_payloads.py`, `preflight.py`) | staged package files | stage, publish, verify, solve | rollback, cli | multi-file publication | the bytes installed are those that were solved |
| DNF transactions (`dnf_*.py`) | module failsafe files, transaction | plan, apply, restore | cli, rollback | two-phase change of module state | module state follows the packages |
| managed files (`files.py`) | configuration files | replace, restore | planner, rollback | atomic replacement | old or new content, never a mix |
| planner, MIG (`planner.py`, `mig.py`) | none | build plan, reconcile | audit, cli | many cases | plan reaches desired state |
| audit, doctor, verify, support tables | none | observe, compare | all | parsing | read-only |
| output (`human.py`, `xmlsafe.py`) | none | render | cli | | |
| release evidence (`scripts/`) | none | validate documents | CI | | |

`PROJECT.json` lists each with its status. `hazards` there lists what is hard to
test, with the line where it bites.

## 2. Plan

Built, in this order:

1. **Crash recovery of applied operations**: `JournalFormat`, `Recovery`,
   `RecoverySafety`, `MCRecovery`; `RecoveryProofs`, `PowerLossProofs`.
2. **Launcher commit**: `LauncherCommit`, which implements `LauncherRelease`; `MCLauncherCommit`;
   `LauncherCommitProofs`, `CleanCommitProofs`.
3. **The files under the journal and the command beside it**: `PrivateFiles`, `ReportFiles`,
   `CommandRunner`, composed in `JournaledCommand`, which implements `JournalPromise`;
   `JournaledFilesProofs`, `JournaledCommandProofs`.
4. **What an operation does to the host**: `GpuHost`, `HostRestore`, `HostConverge`, `HostSettle`,
   composed in `HostTransaction`; `HostTransactionProofs`.
5. **The search for GPU users**: `GpuGuard`; `GpuGuardProofs`.

```
JournalFormat <- Recovery <- RecoverySafety <- RecoveryProofs <- PowerLossProofs
LauncherCommit  => LauncherRelease          (the release phase of Recovery, ReleaseBaseline of HostRestore)
PrivateFiles <- ReportFiles \
                CommandRunner <- JournaledCommand => JournalPromise   (the appends of Recovery)
GpuHost <- HostRestore <- HostConverge <- HostSettle <- HostTransaction   (the mutation phase of Recovery)
GpuGuard                                    (the gate and the checkpoint of Recovery)

LauncherCommit <- LauncherCommitProofs <- CleanCommitProofs
JournaledCommand <- JournaledFilesProofs <- JournaledCommandProofs
HostTransaction <- HostTransactionProofs      GpuGuard <- GpuGuardProofs
```

`<-` is EXTENDS or INSTANCE, `=>` a checked and proved refinement. The four lower modules detail one step each of
`Recovery`; the connection is the promise named in the parentheses, not a composition of state.

None of these modules declares a RECURSIVE operator.

## 3. Modules

**`JournalFormat`** is the journal of one operation as recovery reads it. The code
parses all lines, checks their order (`_validate_event_stream`) and derives a few
facts (`_parse_journal`); the module keeps those facts in one record and has one
operator per event, which returns the record after the line or marks it refused
(`ok = FALSE`). A snapshot, which the code names by path, hash, creator and host,
is named by its creator.

**`Recovery`** is the applied command: `_main`, `_execute_command`, `emit_report` and
their helpers. Variables:

| variable | in the code |
|---|---|
| `journal`, `report`, `marker` | the files of `report.py`, one of each per operation |
| `snapshot` | the private snapshot file of the operation: absent, or the host it recorded |
| `host` | packages, modules, MIG, files: which *verified* state they are in, or `"partial"` |
| `launchers` | docker.socket, docker, persistenced, fabric manager: at their own target (`released`), all masked, masked but for what a package script started or unmasked since (`scripted`), or `mixed` |
| `run` | the process holding the lock: its place (`pc`, `step`), its operation, what it recovers, what it knows failed |
| `orphan` | a command that outlived its killed process |

Actions follow the code in order: `AcquireLock`, `Scan`, `Retire`, `Admit` or
`Refuse`, `Reserve`, `CreateMarker`, `Dispatch`, then phases. A phase that runs a
journaled command takes two steps, `StartCommand` (the durable `command-started`
line) and its end (effect and `command-finished` line), so every fault falls
before, between or after. The mutation is three phases, as in the code: `packages` (every command of it may leave the
host half-changed, and its maintainer scripts start or unmask launchers), `checkpoint` (the second quarantine, followed
in an install by `recheck`, a fresh look at the workloads) and `mutate` (modules, MIG, files). A script may let a launcher out
on a half-changed host, and a power loss may find it there, until the second quarantine or the next recovery masks it;
`MaskedWhilePartial` therefore says what the program does: it never lets a launcher out itself on a half-changed host, and goes on to modules
and MIG only with all four masked. The command of a killed process (`OrphanEnds`) may be a package
transaction too. The faults are actions of their own: `AppendFails` (and its
variants for each place that appends), `Signal`, `PowerLoss`, `Kill`.

**`RecoverySafety`** states the properties, the inductive invariant `IInv` (`Sound`: what a crash
leaves; `ReleaseSound`: what the release relies on), and what more holds when only power losses stop the
program (`LinesFit`, `LaunchersAnswered`). **`MCRecovery`** gives TLC its symmetry.

The modules named `...Proofs` hold the theorems about the module they are named after; each says at its head
what it proves. Section 5 gives the arguments.

**`LauncherCommit`** is the release phase of `Recovery` in detail:
`_commit_rollback_service_activity` (`cli.py:5186`) and the functions of `rollback.py` and
`gpu_safety.py` under it. The commit is a straight program: which steps it has depends on the
snapshot only, so `CommitScript(t)` is a sequence of steps and there is one action per kind
of step. The quarantine of a failed commit is a script too, shared with the socket's own
re-quarantine.

| variable | in the code |
|---|---|
| `target`, `requires` | the snapshot's four activities and unit-file states (`_launcher_target`); whether docker.service has `Requires=docker.socket` |
| `units` | systemd: who is active, who is masked, and `link`, the unit-file state a mask hides |
| `audit` | the last `audit_host`, on which the code decides, or a function's own last observation |
| `identity` | a retained `TrustedGpuServiceIdentity`: `current` while that process runs, `stale` after |
| `workload` | a GPU container runs |
| `mode`, `step` | commit, quarantine, second quarantine (after an exception), emergency masks, or how it ended |
| `quarantined`, `finding` | the result of `_defer_launcher_enablement`; the finding issued |
| `gated`, `proved` | history: the running daemon passed the workload gate; units proved startable |

A step with a systemctl call (`Attempt`) succeeds, is refused by the code's own checks, fails with
or without its effect (`failure` stands for a failing command, an untrusted unit, an
unknown state, an unhealthy Fabric Manager), or raises. Between any two steps clients connect to the
socket, services restart or exit, and containers start. The maintenance guard's record of
what it would restore is left out: no applied command asks it to restore.

**`LauncherRelease`** is the promise: `committed` only with all four unit files exact, `failed`
without a finding only with all four masked. `ReleaseEnds` and `UnreleaseEnds` of `Recovery` allow
at least that: all exact is `released`, all masked is `masked`, all else `mixed`.
**`MCLauncherCommit`** has the snapshots.

**`PrivateFiles`** is what `open(O_EXCL)`, `write`, `fsync`, `unlink` and `rename` leave on disk. A file
is what a process reads now (`seen`) and the set of contents a power loss may leave (`kept`).
**`ReportFiles`** is `reserve_applied_report` and its undo, `append_report_journal` with its cut-off
and its one retry out of the reserve, `write_report`, and the bootstrap of the active index, as scripts of
these primitives. **`CommandRunner`** is `CommandRunner.run`. **`JournaledCommand`** puts
the command between the two callbacks.

| variable | in the code |
|---|---|
| `file[o]` | `report`, `journal`, `marker` and `reserve` of operation `o`; a journal is its complete lines and whether a torn one follows |
| `index` | the sentinel `index-v1.json` |
| `proc` | the process with the lock: phase, primitives still to do, the line being appended, whether it retried |
| `call` | the call of `run`: where it is, why it terminates the group, its result |
| `leader`, `group`, `outside`, `holders` | the command, its descendants in its process group and out of it, who has the pipes open |
| `acked`, `ran`, `loose` | history: acknowledged lines; commands that came to life; operations whose command lives on |

Faults: a primitive that fails, too little capacity, an undo that fails, a signal, SIGKILL, power loss, each
between any two primitives. The command forks, leaves its group, ignores SIGTERM and exits as it
likes. **`JournalPromise`** says: a line is there wholly, not at all, or in doubt; only the last one
is in doubt; what was acknowledged stays.

**`GpuHost`** is the machine: packages by slot, two files (Docker's configuration and the package
policy), the loaded modules and their build, MIG mode, pending mode and partitions, the launchers; and what
each command does to it, whole or in part. **`HostRestore`** is `apply_rollback` with `verify_rollback`,
**`HostConverge`** `install --apply`, **`HostSettle`** `verify --apply` and `lock --apply`.
**`HostTransaction`** composes them with the operator, a gate that lets only the rollback in while one is
owed, crashes, reboots and interference.

| variable | in the code |
|---|---|
| `host` | the machine; an `Audit` of it is what `audit_host` reports |
| `base` | the `RollbackSnapshot` |
| `want` | `DesiredState`: MIG mode and whether the driver is pinned |
| `run` | the operation: statement (`at`), where it goes when the quarantine is done (`next`), the audit it decides from |
| `outcome` | how the last operation ended, and so whether a rollback is owed; `unquarantined` is a failure whose report has `install.launcher-quarantine-unverified` |

Every audit is of the moment it is taken; a decision later rests on that record, as in the code, while package scripts
rewrite the configuration and start launchers. Every mask and every stop of a quarantine may fail, with or without its effect
(`QuarantineFails`). The quarantine then breaks off, the launchers after it stay as they were, and `GivesUp` says what becomes of the
operation: it fails and quarantines once more where the code does, and where that was the last quarantine it ends as
`unquarantined`. A release that fails may have let go of any of the launchers (`PartlyReleased`). `FailureQuarantined` is
what the code can keep: after a failure that does not report an unverified quarantine, every launcher is stopped and masked.
It does not speak of a failed compensation, which ends without a quarantine of its own (disagreement 9).

**`GpuGuard`** is `_maintenance_gate` and `_checkpoint` (`cli.py`) over `gpu_safety.py`: `quiesce`,
`probe_active_gpu_workloads`, the quarantine of `rollback.py:2926`, read by read.

| variable | in the code |
|---|---|
| `procs` | `/proc`: per process id its life (start time), descriptor and mapping of the device, executable, control group |
| `units` | main process id and mask of each launcher |
| `run` | the gate or checkpoint: its place, the unit and process it has come to, the identity it bound, the users it saw |
| `since` | history: users and containers from before a search that are still there |

Processes open, map, close, unmap, fork, exit and reuse an id between any two reads; units are started
by clients; containers start.

Definitions commented "Faulty variant" are not used by the specification. Each is a
plausible mistake in the definition below it, and the property it is paired with in
`PROJECT.json` fails when it is put in that definition's place.

### What the abstraction leaves out

- `host` names verified states only. Two different half-changed hosts are one, and
  any mutation may end with the step undone, half done or done. Bounds: `PackagesEnds` stays in its phase only after a command
  that changed the host or the launchers in a new way, `MutateEnds` only after one that leaves the host newly half-changed.
- A package script's launcher is one `scripted` state; which of the four it is, and whether it was started or only
  unmasked, is in `GpuHost.Scripted`.
- Boundaries repeated within a phase (checkpoints before packages, after modules) are
  one. The second quarantine, of an install and of `apply_rollback`, is kept.
- Outcomes that need a reboot end as a failed, incomplete operation here; the code
  distinguishes them only in wording and in `reboot_required`.
- The probe's nested queries are one `query`. `ProbeQueries = FALSE` is a host without
  nvidia-smi and docker, where the probe runs no command.
- Identity checks on files and directories and the limits on counts and sizes are left out; no
  process but this program writes its directories. The bootstrap of the index is in `ReportFiles` only.
- `ReportFiles` admits an operation once it has read what must be read; who is admitted is
  `Recovery`'s question, which has no bytes. SIGKILL is not followed by a second command of the dead
  program. A process id is not reused between the last look at a group and `killpg`.
- `CommandRunner`: SIGKILL takes the members of the group other than the leader at once. The code signals the group and then waits for
  the leader only (`runner.py:560`-`569`), so a descendant in an uninterruptible sleep could outlive the call; `NoSurvivors`, and that no
  `command-finished` is written before the group is gone (`WriteAhead`), are claimed for descendants that die of SIGKILL.
- `HostTransaction`: one GPU, one package per slot, two package versions, two modules. `-dci` with
  GPU instances but no compute instances may succeed or fail. The release is one step that succeeds or breaks off anywhere (its steps are
  `LauncherCommit`). A mask or a stop is one command with its own check, and a quarantine that cannot be
  verified is one that fails. A package script does not unmask a launcher in the window of a kill. `lock` with
  nothing to do ends as `refused`. The retained payloads and the solver are a step that may refuse.
- `GpuGuard`: the directory of descriptors of one process is read at once, which is right for a process that
  opens none meanwhile; a descriptor opened, received or forked away during the listing may be
  missed, and the properties speak of users that were there before. `docker.socket` has no process and is
  not in it (`LauncherCommit`). The window between fork and exec of a service's child is left out.
- Read-only commands hold no lock and write nothing; they are left out.

## 4. Runs

`OperationIds` bounds the number of *admitted* applied commands (refused ones use
none up). Three are enough for the interesting chain: an operation that crashes, its
recovery that crashes, and a recovery of both or an unrelated new operation; each may
be interrupted at every step. Two suffice where one operation breaks and the next
one meets what it left.

| run | faults | shows |
|---|---|---|
| `powerloss` | power loss | every safety and action property of `RecoverySafety`, on a host whose probe runs no command |
| `faults` | power loss, signals, failed and uncertain appends | `IInv`, the inductive invariant of the proofs, and that the lock is always given back; two operations, since `IInv` is proved for any number; `verify` is left out of `Kinds` because it takes the path of `lock` |
| `kill` | SIGKILL, power loss | one authority although a command outlives its process |
| `probe` | none | violation of `AuthorityReadable` |
| `commit_faults` | failures, exceptions, power loss; clients, restarts, exits, containers | for five kinds of snapshot with every enablement behind the masks: Docker opens last, enabled only once gated, the process that was gated is the one released, the commit ends, and it implements `LauncherRelease` |
| `commit_clean` | none | for all 1024 combinations of states of Docker, its socket and one NVIDIA service (the other takes two), with and without `Requires=`: success exactly for `Releasable` snapshots |
| `commit_maskedsocket` | none | violation of `MaskedSocketTargetCommits` |
| `journaled` | failing primitives and undo, capacity, signals, SIGKILL, power loss | the properties of `JournaledCommand`, its refinement of `JournalPromise`, and that the program ends unless it is held for ever in one of two unlimited waits |
| `transaction` | two of: failing command, kill, power loss, interference; any number of reboots | what operations report is so, failures are behind masks or reported as unverified, a clean failure has a reason |
| `completes` | the same, on two machines, with two desired states | the exact rollback gets there |
| `staged` | one of the same | violation of `StagedIsSaid` |
| `guard` | five moves of other processes | an idle host behind masks, one process bound, only that one stopped |

Deadlock is not checked: once all operation IDs are used, or moves or faults spent, the models stop, as
the operator may, and a launcher commit or a gate ends.

`journaled` has two operations, the first possibly from an installation before the index, one command
each, one descendant and one signal per call: a reservation that meets what an earlier one left, a
bootstrap that meets a journal, a command whose leader exits before its child. A second command
repeats the append protocol, whose state is back at rest by then. `transaction` has
fifteen machines (old and new driver, modules of either, every MIG layout, each kind of policy) and four desired
states; two faults are an operation that fails and a compensation or rollback that fails too. `guard` has two process
ids and five moves: a process that maps, closes, exits and a service that takes over its id.

The two NVIDIA services go through the same function one after the other, so
`commit_clean` varies one of them fully. The five snapshots of `commit_faults`
take every branch of the script: all running; stopped but enabled, which must be proved; a
socket that starts a stopped daemon; a running daemon with a masked socket; all masked.

The properties of `LauncherCommit` stand at its end. Those of `Recovery`, in `RecoverySafety`: `NoForgottenMutation` (a half-changed host is
found by the next scan, with a usable snapshot), `OneAuthority` (all unresolved
journals bind one snapshot), `AuthorityRetained` (which exists and holds a verified
host), `MaskedWhilePartial`, `AuthorityReadable`, `QuarantineIsClaimed`; the action properties `ReleaseAuthorization`, `ExactRepair`,
`JustifiedRecovery` and `EvidenceResolves`; and `LockIsReleased`.

**Fairness.** `FairSpec` has weak fairness on `Program`, the steps of the process that
holds the lock, and on nothing else: a running process is scheduled, and its commands end
because the runner gives each a time limit. `LockIsReleased` thus assumes commands that die of SIGKILL and read their input;
what happens with others is in `JournaledCommand`. Faults, the operator and an orphaned command owe
nothing. The same for `LauncherCommit`, where `Program` is the commit and its quarantine. A retry that the code bounds is bounded in the model (one compensation).
`JournaledCommand` asks weak fairness of the program only, none of the command. The code's time limits end every wait but
two: the write of a command's input comes before any limit (`runner.py:378`-`386`; the only command with input is the `docker run`
of the CUDA probe, `verify.py:512`), and the wait that follows SIGKILL has none (`runner.py:565`-`569`), so that a leader
in an uninterruptible sleep, as modprobe or nvidia-smi on a wedged driver, holds the program. `Held` names these two places,
and `ProgramEnds` is `[]<>In("idle") \/ <>[]Held`: the program ends, whatever the command does, unless a process of the command
holds it there for ever. `HostTransaction` has weak fairness of the running operation, in which a quarantine may fail as it may succeed, and strong
fairness of two things an operator does who owes a rollback: to try it again and to reboot. The code cannot force them;
`README.md:322` asks for exactly these, and `RollbackCompletes` says that they suffice.

### Disagreements between documents and code

Each is a definition that TLC finds violated. The first three are runs of the project. For the others a
copy of the named configuration with the property (and constants) given shows it.

1. *The probe breaks its own journal* (run `probe`). `gpu_safety.py:1654` records
   `command-started` for the probe and then runs `nvidia-smi` through the same journaled
   runner. The validator refuses a second `command-started`. After any later crash, no
   applied command, the rollback included, can start, where `README.md:311` promises the
   exact rollback.
2. *A running daemon with a masked socket cannot be released* (run `commit_maskedsocket`).
   The commit opens the socket for such a snapshot and sets it back with the snapshot itself,
   whose prepared state is `masked` while the unit is by then `disabled`;
   `restore_rollback_service_activity` (`rollback.py:3396`) refuses, and all four launchers are masked
   again, with no fault at all. `tests/test_cli.py:2610` says the target "must not quarantine", but
   the test replaces the function that refuses.
3. *A staged MIG mode is not reported* (run `staged`). `_rollback_state_can_complete_after_reboot`
   (`cli.py:5740`) wants `rollback.mig-mode` to be the only failed check, but as long as current and pending
   mode differ the geometry check fails too. The rollback ends as failed, without the reboot-pending report
   `README.md:322` describes; the operator who reboots and retries all the same gets the baseline (`RollbackCompletes`).
4. *The emergency quarantine is not journaled* (`QuarantineIsClaimed`, `Recovery_powerloss.cfg` with
   `Faults = {"signal"}`). A signal in the maintenance
   gate before the first host command masks the launchers (`cli.py:5910`) although no journal
   represents it; `README.md:309` says every applied command is journaled before its first
   host mutation.
5. *A killed process's command goes on* (`SerializedMutations`, `Recovery_kill.cfg`). It has a session of its own and not
   the lock, so the next operation runs beside it; the comment at `cli.py:340` says the lock
   serializes all applied host mutations.
6. *A launcher is enabled before it is proved* (`BootStartsOnlyProved`, `LauncherCommit_faults.cfg` with
   `Targets <- BootTarget`). Unmasking and disabling are
   two commands, and the quarantine does not disable, so a power loss between them starts the
   launcher at boot; `rollback.py:3440` says "while keeping persistent activation disabled".
7. *The sentinel may come before the markers are durable* (`SentinelAfterMarkers`, `JournaledCommand.cfg`). The bootstrap
   accepts a marker an earlier process left (`recovery.py:490`) without synchronizing it; `README.md:309` says the
   sentinel is written "only after every required marker is durable". The directory is synchronized before the sentinel, so
   such a marker may be torn after a power loss, never absent, which is why `NeverForgotten` holds.
8. *A torn marker or index stops every startup* (`BootstrapRepeats`, `JournaledCommand.cfg`). A crash between creating
   and writing leaves content the next startup refuses (`recovery.py:497`, `recovery.py:542`), where
   `README.md:309` says the crash "safely repeats the bootstrap".
9. *A failed compensation may leave trusted services up* (`TrustedStopped`, `HostTransaction.cfg`). `cli.py:5971` returns when
   no trusted service was quiesced at the start; one that a package script started stays. `README.md:279` says they
   "are re-quiesced or left stopped".
10. *A refusal ends the workloads it refuses over* (`UnacknowledgedRuns`, `GpuGuard.cfg`). The gate that finds GPU
   containers quarantines Docker on its way out (`cli.py:3248`), and the checkpoint stops it before it
   looks again (`cli.py:3446`); `README.md:269` asks for two acknowledgements while workloads are active.

Observed and kept as behaviour of the models: an exception while a commit command is pending makes the
abort start journaled commands (`cli.py:5573`), which leaves a journal as unreadable as in 1. A
snapshot whose docker.service is masked or absent while its socket is enabled, static or active, or, with
`Requires=docker.socket`, whose stopped but enabled docker.service has a masked or absent socket, ends
in quarantine too, since Docker's activation cannot be proved (`Releasable`). When the quarantine fails and
the workloads are active or unknown, the finding still says "All four launchers were re-masked"
(`cli.py:5017`). `lock` may exit 0 with masked launchers when only
the joint proof failed; a marker may stay for ever when the recovering operation's own marker went
first; a preflight failure after the snapshot seals the operation as incomplete although the host
was not changed (conservative).

Of `HostTransaction`: after a mode change in a compensation that stays pending the snapshot is not reachable without a
reboot (`cli.py:1650`). A change somebody made between the plan and the quarantine is noticed at the first boundary and then *undone* by the
compensation (`cli.py:3655`), which is why `RestoredIsBaseline` compares with the snapshot. A snapshot taken while
the loaded modules are not those on disk can never be restored, nor can a host without any driver be enumerated again
(`Skewed`, `Lost`). `verify --apply` that replaces stale modules takes no MIG partitions down first and does not recreate them; if the
desired mode is `disabled` it reports success on a host whose partitions are gone (`SettledKeepsBaseline` allows the recorded or
the desired MIG state), otherwise it fails. When its container check fails, the launchers run on while a rollback is
owed (`settle-unproved`). `CompletesAfterReboot` is never true, so `reboot-required` is not reached (3 above).

Of `GpuGuard`: the guard's own first stop of GPU services has no mask, so that the process it stops may be
another than it observed; `StopsTheBound` is about the quarantine. A docker daemon that is down when audited is not asked, and a
container it left running (live restore) that holds the GPU only later is not seen. The gate's own audit may be
older than its search.

## 5. Proofs

Every theorem below is for all values of the constants, under the named assumptions of the modules, which TLC
evaluates in the runs: distinct names (`NoOpAssumption`, `HostNamesAssumption`, `GuardAssumption`), launchers that
form a set with an order in which they are stopped, machines a driver can be in (`Coherent`: partitions only in MIG
mode under a loaded driver; `LoadedAssumption`: modules are of some build exactly where one is loaded), machines of the guard whose services run their own process (`Served`), finitely many
operations, at least one command (`MaxCommands`), snapshots with four launchers (`TargetsAssumption`).

Where an invariant was not inductive, the stronger one was first checked by TLC: `IInv` of Recovery in run `faults` (and on the configuration of run `kill`, 340,698 states),
`LinesFit` and `LaunchersAnswered` on the configuration of run `powerloss` (382,786 states), those of the other
modules as an INVARIANT added to the configuration named in section 4, with bounds reduced where needed (`HostTransaction`
3,435,174 states; `RInv` of the same module 5,922,194 without faults, from all combinations of packages, loaded modules and MIG state the assumptions admit, with two launchers; `GpuGuard` 254,118 with three moves; `JournaledCommand` 133,125 with one command and
one signal and 424,995 with two commands and none; `LauncherCommit` 420,449, and `CleanInv` of `CleanCommitProofs` 191,922 on the configuration of run `commit_clean`).

| module | theorems about | restricted to |
|---|---|---|
| `RecoveryProofs` | `IInv`, `TypeOK`, `OneAuthority`; `EvidenceResolves` | |
| | `MaskedWhilePartial`, `AuthorityRetained`, `NoForgottenMutation`; `ExactRepair`, `ReleaseAuthorization`, `JustifiedRecovery` | no SIGKILL (`Alone`) |
| `PowerLossProofs` | `AuthorityReadable`, `QuarantineIsClaimed` | power loss only, no probe queries; the second without `lock` |
| `HostTransactionProofs` | `TypeOK`, `RestoredIsBaseline`, `ConvergedIsDesired`, `SettledKeepsBaseline`, `FailureQuarantined`, `ModulesMoveBehindMasks`, `SecondPlanIsEmpty` | |
| | `FailsForAReason` | steps before any fault (its own premise) |
| `GpuGuardProofs` | `IdleBehindMasks`, `OneProcessIsBound`, `StopsTheBound` | |
| `JournaledCommandProofs` | `TypeOK`, `WriteAhead`, `NeverForgotten`, `CompletedHasReport`, `NoSurvivors`; `JournaledCommand` implements `JournalPromise` | |
| `LauncherCommitProofs` | `TypeOK`, `EnabledAfterProof`, `DockerBehindNvidia`, `GatedDaemon`; `LauncherCommit` implements `LauncherRelease` | |
| `CleanCommitProofs` | `CleanCommitSucceeds` | no faults, undisturbed (`Undisturbed`) |

**Recovery.** None of the properties is inductive. That a half-changed host is claimed by a marked
journal (`Claimed`) survives the next operation only because the gate admits nothing but the
rollback of the bound snapshot, so `Sound` carries what the gate established to the end of the run:
`ScanSound` up to the reservation, `WorkSound` afterwards (every other unresolved operation binds
the snapshot this one restores), `PhaseSound` what each phase may rely on (bound journal, launchers
that are masked but for what package scripts did before the second quarantine, verified host), and `DiskSound` that whatever binds a snapshot keeps its creator's journal
bound to it too, which is why the scan's cleanup never removes it. A journal that cannot be read
claims everything: it blocks all work. The proof has general lemmas first (what each line keeps, `OwnStep`: a
process writing its own journal disturbs no one else's authority, `ExitFacts`, `OwnMove`, `EndMove`), then one lemma
per action, then `NextSound`. The action properties come from three lemmas on what any one step may do: to a
journal (`JournalStep`: one line of its own operation, the line of a recovery, or the reservation's), to a marker
(`MarkerStep`) and to the machine (`MachineStep`). `ReleaseSound` adds that the release runs behind its own line.

*SIGKILL.* The command of a killed process goes on and may change the host under whoever holds the lock by then, even after a
rollback has restored it. `Sound` therefore keeps what it says of journals, markers and binding whatever the faults, and
says of the host's content only what holds where no command outlives its process (`Alone`). The hypothesis is
needed: with SIGKILL TLC refutes each of the six properties that have it, by the command that goes on (finding 5).

**Power loss.** Whether the next line is accepted depends on all lines before it, so `LinesFit` says for each
phase what the journal is waiting for: the pending command, the releases already authorized, the binding. It fails, and so does
`AuthorityReadable`, if a probe runs commands inside its own (finding 1 of section 4), or if a signal or a failed append leaves a command
pending while the program goes on to mask launchers. `LaunchersAnswered` says who answers for launchers that are not
released: another unresolved operation, until the one at work has a host command in its own journal, and then that one
unless its release was confirmed. A signal in the gate breaks it (finding 4), and so does `lock`, whose exit code 0 may hide
a release that failed.

**HostTransaction.** `IInv` is the annotation of the program, statement by statement: `Typed`; `Consistent` (the
machine, also between two commands); `InPlace`; `Quarantining` (how far the launchers are stopped and where the
operation goes then); `Reached`, which says what has been established where: behind the masks, by the last audit, by the
partitions removed, by each part converged or restored; and `Told`, what the outcome of the last operation still
says of the machine. Reboots and interference can only undo what `Reached` does not claim at that place. A quarantine or a
release that fails goes to a statement where `Reached` claims nothing of the machine yet (`GivesUpFacts`), so the one question is how the
operation ends from there: behind another quarantine, or as `unquarantined`, of which `Told` promises nothing. For
`SecondPlanIsEmpty` the additional invariant `NothingToDo` says that a compensation, too, has an empty plan.

`FailsForAReason` asks why a restore may fail where no command does, so `RInv` follows it from the audit it decides on to the
machine it verifies. `Whole` says of every machine, `Sane` of one with a snapshot of modules that were those on disk, that a driver stays on disk and
that no GPU instance is left without its compute instances but in the step that destroys them. `Follows` has
one line per statement: how much of the deciding audit is still true (`Looked`, `Decided`, `SameMig`) and what is already back
(`PackagesBack`, `FilesBack`, `ModulesBack`, `Emptied`, and `Coming` between two modules). The step to `r.failed` or
`r.unverified` is then possible only where the machine stages a mode or runs other modules than those on disk, and the checks
that end the restore find the recorded core. Two facts carry it: what a snapshot records can be recreated, and an
audit that cannot enumerate the GPU of a machine with a driver sees modules that are not on disk.

**GpuGuard.** A process id names a process only with its start time, and `Aged` says that an id used again
names a younger one; so what was bound before is the same process or none (`Binding`, `Stopping`). `Searching` says which
processes the walk has yet to come to: a user from before the search is still ahead, already seen, or gone.
`Asking` and `Closed` carry this over the container query and the two searches to the end of the gate.

**JournaledCommand.** A file is a set of contents a crash may leave, so the invariant speaks of every content kept:
whatever it is, it accounts for the commands that ran. `Booting`, `Reserving` and `Undoing` follow the scripts of the
reservation primitive by primitive; `Working`, `Reversible` and `Reporting` the append with its cut-off and retry; `Commanding`
ties the place of the runner to the line last acknowledged, to the group and to the holders of the pipes. The proof is in two
modules, one for the files and one for the program. The refinement shows that a step of the program lets a line
appear in doubt (`AppendLine`), be settled, or be forgotten together with its reservation; every other primitive narrows what
a crash may leave, or changes nothing the promise speaks of.

**LauncherCommit.** The script is a function of the snapshot, so the first part proves its shape for every snapshot
(`Orderly`: what is opened is proved and settled, behind its guards, Docker last; and the sixteen steps of the quarantine). The invariant then relates
the place in the script to the state: `Hidden` (what is masked), `InOrder`, `Proving`, `Bound` (the identity), `Concluding`,
`Masking`, `Silence` (when nothing can start). What others may do (restarts, clients, containers) is one lemma, one step of the
program another, and then there is one lemma per part. The refinement needs the end of the script only: what
`Concluding` says of unit files and masks.

**A clean commit.** That a commit without faults succeeds says what no step-wise invariant does: no step refuses what
an earlier one has left. `CleanInv` therefore follows the script from joint to joint (`Place`): what is left of it
(`Left`), and how the host looks by then (`Around`, `Shown`, `Settled`, `AllExact`), while whatever runs is trusted and the
audit is the host wherever the next step decides on it (`Known`). Three steps may refuse, and each has its reason in the snapshot: the start of
Docker when it, or the socket it requires, cannot be loaded; the reset of a socket that was only opened for
a while (finding 2); and the comparison, when resetting the socket has stopped a daemon that
requires it. There `CleanInv` proves the snapshot is not `Releasable`; past the comparison that it is. `Hidden`
from the invariant of `LauncherCommitProofs` says what an unmasked unit turns out to be, for every enablement behind the masks.

Checked by TLC only: liveness (`RollbackCompletes`, `ProgramEnds`, `LockIsReleased`, `CommitEnds`), out of the prover's
reach. Every other property of the passing runs is a theorem, within the restrictions of the table.

## 6. Not modelled

- *Package preflight and payloads*: parses and compares what solvers print; its answer is a step that may refuse.
- *DNF module transactions*: programs with the package manager's own lock and failsafe files. Seen
  from here they are a package command that may end half done.
- *The choices of the planner* among distributions, package names and repositories: look-up tables. Which changes a plan has,
  and in which order, is in `HostConverge`.
- *Audit and diagnosis* beyond what an audit may report: parsing.
- *Read-only commands*, rendering, XML limits, schemas: no state.
- *The release evidence scripts* (`scripts/`) validate documents in CI and share no state with the program.
