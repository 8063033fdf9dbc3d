---------------------------- MODULE LauncherCommit ----------------------------
(***************************************************************************)
(* The release phase of an applied operation, unit by unit:                *)
(* _commit_rollback_service_activity of cli.py with the systemctl calls of *)
(* rollback.py. The four launchers start masked and inactive. The commit   *)
(* brings the two NVIDIA services and then Docker to the target the        *)
(* snapshot recorded, proves Docker's running daemon free of GPU           *)
(* workloads, enables Docker last and proves all four together. A step     *)
(* that fails masks all four again.                                        *)
(*                                                                         *)
(* The commit is a straight program whose steps depend on the target only, *)
(* so it is a sequence of steps (CommitScript), one action per kind of     *)
(* step. The code decides on the last audit, not on the host: `audit`      *)
(* holds it while the environment goes on.                                 *)
(***************************************************************************)
EXTENDS Integers, Sequences

CONSTANTS
  Targets,      \* the snapshot's launcher states a commit may be asked for
  Requires,     \* whether docker.service may declare Requires=docker.socket
  Faults,       \* subset of {"failure", "exception", "powerLoss"}
  Environment,  \* subset of {"client", "restart", "exit", "workload"}
  AllowActiveWorkloads  \* --allow-active-workloads

FabricManager == "nvidia-fabricmanager.service"
Persistenced  == "nvidia-persistenced.service"
Docker        == "docker.service"
Socket        == "docker.socket"
Nvidia  == {FabricManager, Persistenced}
Trusted == Nvidia \cup {Docker}
Units   == Trusted \cup {Socket}

UnitFileStates == {"enabled", "disabled", "static", "masked", "not-found"}
Inert          == {"masked", "not-found"}
Target         == [active : BOOLEAN, state : UnitFileStates]

(* A snapshot is refused when a masked or absent unit is recorded active. *)
Consistent(t) == \A u \in Units : t[u].active => t[u].state \notin Inert

ASSUME TargetsAssumption ==
  /\ Targets \subseteq [Units -> Target]
  /\ \A t \in Targets : Consistent(t)
ASSUME SettingsAssumption ==
  /\ Requires \subseteq BOOLEAN /\ AllowActiveWorkloads \in BOOLEAN
  /\ Faults \subseteq {"failure", "exception", "powerLoss"}
  /\ Environment \subseteq {"client", "restart", "exit", "workload"}

VARIABLES
  target,      \* what the commit must reach
  requires,    \* docker.service declares Requires=docker.socket
  units,       \* systemd: [active, masked, link], link the unmasked state
  audit,       \* the last audit_host, unit by unit
  identity,    \* the retained process identity of a trusted service
  workload,    \* a GPU container runs
  mode,        \* what the process is doing, or how it ended
  step,        \* position in the script of the mode
  quarantined, \* no quarantine step has failed so far
  finding,     \* what launcher-commit.quarantine-unverified says, if issued
  gated,       \* history: the running daemon has passed the workload gate
  proved       \* history: units this commit has proved startable

control == <<mode, step, quarantined, finding>>
history == <<gated, proved>>
request == <<target, requires>>
vars == <<request, units, audit, identity, workload, control, history>>

-----------------------------------------------------------------------------
(* Targets *)

(* Faulty variant: an enabled unit counts as prepared. *)
PreparedStateAsIs(s) == s

PreparedState(s) == IF s = "enabled" THEN "disabled" ELSE s

(* A running daemon with a masked socket: the socket is opened for a while. *)
TemporarySocket(t) ==
  /\ t[Docker].active
  /\ ~t[Socket].active /\ t[Socket].state = "masked"

Prepared(t, u) ==
  IF u = Socket /\ TemporarySocket(t) THEN "disabled" ELSE PreparedState(t[u].state)

NeedsActivationProof(t, u) == ~t[u].active /\ t[u].state \in {"enabled", "static"}

ProveSocket(t) ==
  TemporarySocket(t) \/ t[Socket].active \/ NeedsActivationProof(t, Socket)
ProveDocker(t) ==
  t[Docker].active \/ NeedsActivationProof(t, Docker) \/ ProveSocket(t)

FinalGateRequired(t) == t[Docker].active /\ ~TemporarySocket(t)

-----------------------------------------------------------------------------
(* Scripts: `on` is the activity a step wants, `state` the unit-file state    *)
(* the code calls prepared there.                                             *)

Step(op, u, on, state) == <<[op |-> op, unit |-> u, on |-> on, state |-> state]>>
Do(op, u)  == Step(op, u, FALSE, "masked")
When(b, s) == IF b THEN s ELSE <<>>

(* Faulty variant: the unmasked unit keeps the enablement behind the mask. *)
PrepareHalfway(t, u) == When(Prepared(t, u) # "masked", Do("unmask", u))

(* _prepare_rollback_unit_safely *)
Prepare(t, u) ==
  LET state == Prepared(t, u) IN
  When(state # "masked", Do("unmask", u))
  \o When(state = "disabled", Do("disable", u))
  \o Step("prepared", u, FALSE, state)

(* _restore_rollback_unit_activity_safely *)
Set(u, on, state) == Step("activity", u, on, state) \o Step("check", u, on, state)

(* _finalize_rollback_unit_state *)
Finalize(t, u) ==
  When(t[u].state = "enabled", Step("enable", u, FALSE, Prepared(t, u)))
  \o Do("final", u)

(* _restore_rollback_unit_staged *)
Staged(t, u) ==
  Prepare(t, u)
  \o When(NeedsActivationProof(t, u), Set(u, TRUE, Prepared(t, u)))
  \o Set(u, t[u].active, Prepared(t, u))
  \o Finalize(t, u)

(* _quarantine_service_for_rollback *)
Quarantine(u) == Do("observe", u) \o Do("mask", u) \o Do("halt", u)

(* _verify_joint_launcher_commit *)
JointProof(t) ==
  Do("identify", Docker) \o When(FinalGateRequired(t), Do("gate", Docker))
  \o Do("audit", Docker) \o Do("conclude", Docker)

(* Both Docker units are prepared before either starts. The socket is set     *)
(* back with the snapshot itself, not with the one that opened it for a while.*)
DockerActivity(t) ==
  Prepare(t, Socket) \o Prepare(t, Docker)
  \o When(ProveSocket(t), Set(Socket, TRUE, Prepared(t, Socket)))
  \o Set(Docker, ProveDocker(t), Prepared(t, Docker))
  \o When(ProveDocker(t), Do("gate", Docker))
  \o When(~t[Docker].active /\ ProveDocker(t), Set(Docker, FALSE, Prepared(t, Docker)))
  \o Do("settle", Socket)
  \o Set(Socket, t[Socket].active, PreparedState(t[Socket].state))
  \o Do("compare", Docker)

DockerEnablement(t) ==
  Finalize(t, Docker)
  \o (IF TemporarySocket(t) THEN Quarantine(Socket) \o Do("final", Socket)
      ELSE Finalize(t, Socket))

CommitScript(t) ==
  Staged(t, FabricManager) \o Staged(t, Persistenced)
  \o DockerActivity(t) \o DockerEnablement(t) \o JointProof(t)

(* Faulty variant: in the order of the commit. *)
CommitOrder == <<FabricManager, Persistenced, Docker, Socket>>

QuarantineOrder == <<Socket, Docker, Persistenced, FabricManager>>

(* _quarantine_failed_launcher_commit with _defer_launcher_enablement *)
QuarantineScript ==
  Do("requiesce", Docker) \o Do("authenticate", Docker)
  \o Quarantine(QuarantineOrder[1]) \o Quarantine(QuarantineOrder[2])
  \o Quarantine(QuarantineOrder[3]) \o Quarantine(QuarantineOrder[4])
  \o Do("verify", Docker) \o Do("probe", Docker)

EmergencyScript ==
  Do("emergency", Socket) \o Do("emergency", Docker)
  \o Do("emergency", Persistenced) \o Do("emergency", FabricManager)
  \o Do("raise", Docker)

Commits == [t \in Targets |-> CommitScript(t)]

Script == CASE mode = "commit"                 -> Commits[target]
            [] mode \in {"quarantine", "retry"} -> QuarantineScript
            [] mode = "emergency"              -> EmergencyScript
            [] OTHER                           -> <<>>

Working   == mode \in {"commit", "quarantine", "retry", "emergency"}
Current   == Script[step]
Doing(op) == Working /\ Current.op = op
Unit      == Current.unit

-----------------------------------------------------------------------------
(* systemd, as the program uses it *)

StateOf(u) == IF u \in units.masked THEN "masked" ELSE units.link[u]
Observed   == [u \in Units |-> [active |-> u \in units.active, state |-> StateOf(u)]]

(* Requires= pulls the socket in, refuses a masked or absent one, and stops   *)
(* the service when the socket is stopped.                                    *)
Loadable(u)  == u \notin units.masked /\ units.link[u] # "not-found"
Needed(u)    == IF u = Docker /\ requires THEN {Docker, Socket} ELSE {u}
Dependent(u) == IF u = Socket /\ requires THEN {Docker, Socket} ELSE {u}
Startable(u) == \A v \in Needed(u) : Loadable(v)
Started(u)   == [units EXCEPT !.active = @ \cup Needed(u)]
Stopped(u)   == [units EXCEPT !.active = @ \ Dependent(u)]
Unmasked(u)  == [units EXCEPT !.masked = @ \ {u}]
Masked(u)    == [units EXCEPT !.masked = @ \cup {u}]
Linked(u, s) ==
  [units EXCEPT !.link[u] = IF @ \in {"enabled", "disabled"} THEN s ELSE @]
MaskedNow(u) == [Stopped(u) EXCEPT !.masked = @ \cup {u}]

BootActive ==
  LET enabled == {u \in Units : StateOf(u) = "enabled" /\ Startable(u)}
  IN  UNION {Needed(u) : u \in enabled}

(* A retained identity is good for one process: it is stale once that ends,  *)
(* and so is what was proved about the running daemon.                       *)
Keep(ids, g) ==
  /\ identity' = [u \in Trusted |->
       IF ids[u] = "current" /\ u \notin units'.active THEN "stale" ELSE ids[u]]
  /\ gated' = (g /\ Docker \in units'.active)
KeepAll == Keep(identity, gated)
Read    == audit' = Observed

-----------------------------------------------------------------------------
(* How a step ends *)

Goto(m, i) == mode' = m /\ step' = i
Continue   == step' = step + 1 /\ UNCHANGED <<mode, quarantined, finding>>
Skip(n)    == step' = step + n /\ UNCHANGED <<mode, quarantined, finding>>

(* Faulty variants: past the last step; a failed quarantine step forgotten. *)
GiveUpBeyond ==
  \/ mode = "commit" /\ Goto("quarantine", 1) /\ UNCHANGED <<quarantined, finding>>
  \/ /\ mode \in {"quarantine", "retry"} /\ Goto(mode, Len(QuarantineScript) + 1)
     /\ quarantined' = FALSE /\ UNCHANGED finding
  \/ mode = "emergency" /\ Continue
GiveUpQuietly ==
  \/ mode = "commit" /\ Goto("quarantine", 1) /\ UNCHANGED <<quarantined, finding>>
  \/ /\ mode \in {"quarantine", "retry"} /\ Goto(mode, Len(QuarantineScript))
     /\ UNCHANGED <<quarantined, finding>>
  \/ mode = "emergency" /\ Continue

(* A step of the commit returns a failure: quarantine. A failed step of the  *)
(* quarantine ends it: what is left stays as it is. Emergency masks go on.   *)
GiveUp ==
  \/ /\ mode = "commit"
     /\ Goto("quarantine", 1) /\ UNCHANGED <<quarantined, finding>>
  \/ /\ mode \in {"quarantine", "retry"}
     /\ Goto(mode, Len(QuarantineScript))
     /\ quarantined' = FALSE /\ UNCHANGED finding
  \/ mode = "emergency" /\ Continue

(* Faulty variant: every exception starts another quarantine. *)
UnwindAgain ==
  /\ \/ mode \in {"commit", "quarantine", "retry"} /\ Goto("retry", 1)
     \/ mode = "emergency" /\ Goto("emergency", Len(EmergencyScript))
  /\ quarantined' = TRUE /\ finding' = "none"

(* An exception leaves the commit, or the quarantine it had started: one     *)
(* more quarantine, then emergency masks, and the exception goes on.         *)
Unwind ==
  /\ \/ mode \in {"commit", "quarantine"} /\ Goto("retry", 1)
     \/ mode = "retry" /\ Goto("emergency", 1)
     \/ mode = "emergency" /\ Goto("emergency", Len(EmergencyScript))
  /\ quarantined' = TRUE /\ finding' = "none"

(* One step with systemctl calls: it needs `ok`, leaves systemd in `after`,  *)
(* and may fail or raise before or after that.                               *)
Attempt(op, ok, after) ==
  /\ Doing(op)
  /\ \/ ok /\ units' = after /\ Continue
     \/ ~ok /\ units' = units /\ GiveUp
     \/ "failure" \in Faults /\ units' \in {units, after} /\ GiveUp
     \/ "exception" \in Faults /\ units' \in {units, after} /\ Unwind
  /\ UNCHANGED <<request, workload>>

(* A step that only reads. *)
Inspect(op, ok) == Attempt(op, ok, units) /\ Read
Plain           == KeepAll /\ UNCHANGED proved
Silent          == UNCHANGED <<request, units, audit, workload>> /\ Plain
Succeeded       == mode' = "commit"

Identified(u) == u \in units.active /\ identity[u] = "current"
Exactly(u)    == (u \in units.active) = target[u].active
                 /\ StateOf(u) = target[u].state

-----------------------------------------------------------------------------
(* Steps of the commit *)

(* _prepare_service_for_activity: only from the transaction's own mask *)
Unmask ==
  /\ Attempt("unmask", audit[Unit].state = "masked", Unmasked(Unit))
  /\ UNCHANGED audit /\ Plain

Disable ==
  /\ Attempt("disable", units.link[Unit] # "not-found", Linked(Unit, "disabled"))
  /\ UNCHANGED audit /\ Plain

CheckPrepared ==
  /\ Inspect("prepared", Unit \notin units.active /\ StateOf(Unit) = Current.state)
  /\ Plain

(* The trusted services are validated inactive before a start, as the same    *)
(* running process before a stop, and running after a start.                  *)
Activate ==
  LET seen  == audit[Unit].active
      start == Current.on /\ ~seen
      stop  == ~Current.on /\ seen
      runs  == Unit \in units.active
  IN
  /\ Attempt("activity",
       /\ audit[Unit].state = Current.state
       /\ start => Startable(Unit)
       /\ Unit \in Trusted => (start => ~runs) /\ (seen => runs),
       IF start THEN Started(Unit) ELSE IF stop THEN Stopped(Unit) ELSE units)
  /\ IF Current.on /\ Unit \in Trusted
     THEN Keep([identity EXCEPT ![Unit] = "current"], gated) ELSE KeepAll
  /\ UNCHANGED <<audit, proved>>

Check ==
  /\ Inspect("check",
       /\ (Unit \in units.active) = Current.on
       /\ Current.on /\ Unit \in Trusted => Identified(Unit))
  /\ proved' = IF Succeeded /\ Current.on THEN proved \cup ({Unit} \cap Nvidia) ELSE proved
  /\ KeepAll

(* _post_docker_workload_checkpoint *)
Gate ==
  /\ Inspect("gate", Docker \in units.active /\ (workload => AllowActiveWorkloads))
  /\ proved' = IF Succeeded THEN proved \cup {Docker, Socket} ELSE proved
  /\ Keep(identity, gated \/ Succeeded)

(* The socket is only touched when the last audit saw another activity. *)
Settle ==
  /\ Doing("settle")
  /\ IF audit[Socket].active = target[Socket].active THEN Skip(3) ELSE Continue
  /\ Silent

Compare ==
  LET matches(u) == audit[u] = [active |-> target[u].active, state |-> Prepared(target, u)]
  IN  /\ Doing("compare")
      /\ \/ matches(Socket) /\ matches(Docker) /\ Continue
         \/ ~(matches(Socket) /\ matches(Docker)) /\ GiveUp
      /\ Silent

Enable ==
  /\ Attempt("enable", audit[Unit].state = Current.state /\ units.link[Unit] # "not-found",
             Linked(Unit, "enabled"))
  /\ UNCHANGED audit /\ Plain

CheckFinal == Inspect("final", Exactly(Unit)) /\ Plain

(* Faulty variant: any running process will do. *)
AnyProcessHolds == \A u \in Trusted : target[u].active => u \in units.active

IdentitiesHold == \A u \in Trusted : target[u].active => Identified(u)

Identify == Attempt("identify", IdentitiesHold, units) /\ UNCHANGED audit /\ Plain

JointAudit == Inspect("audit", TRUE) /\ Plain

(* The retained identities once more, then the audit against all targets. *)
Conclude ==
  LET proof == IdentitiesHold /\ audit = target
  IN  /\ Doing("conclude")
      /\ \/ proof /\ Goto("committed", step) /\ UNCHANGED <<quarantined, finding>>
         \/ ~proof /\ GiveUp
         \/ "failure" \in Faults /\ GiveUp
         \/ "exception" \in Faults /\ Unwind
      /\ Silent

-----------------------------------------------------------------------------
(* Quarantine *)

(* The guard, if there is one, stops what it can; its result is not used. A   *)
(* fresh audit follows.                                                       *)
Requiesce ==
  /\ Doing("requiesce")
  /\ \E stopped \in SUBSET (Nvidia \cap units.active) :
       units' = [units EXCEPT !.active = @ \ stopped]
  /\ audit' = Observed'
  /\ Continue \/ ("exception" \in Faults /\ Unwind)
  /\ Plain /\ UNCHANGED <<request, workload>>

(* All four must be known and trusted before the first is masked. *)
Authenticate == Attempt("authenticate", TRUE, units) /\ UNCHANGED audit /\ Plain

Observe ==
  /\ Attempt("observe", TRUE, units)
  /\ audit' = [audit EXCEPT ![Unit].active = Unit \in units.active]
  /\ IF Unit \in Trusted /\ Unit \in units.active
     THEN Keep([identity EXCEPT ![Unit] = "current"], gated) ELSE KeepAll
  /\ UNCHANGED proved

Mask == Attempt("mask", TRUE, Masked(Unit)) /\ UNCHANGED audit /\ Plain

(* A running service is stopped only as the process seen before the mask. *)
Halt ==
  LET runs == Unit \in units.active
      same == audit[Unit].active /\ (Unit \in Trusted => identity[Unit] = "current")
  IN  /\ Attempt("halt", runs => same, IF runs THEN Stopped(Unit) ELSE units)
      /\ UNCHANGED audit /\ Plain

AllQuarantined == units.masked = Units /\ units.active = {}

Verify == Inspect("verify", AllQuarantined) /\ Plain

(* The finding's wording looks at the workloads first. *)
Finding(idle) ==
  IF ~idle THEN "remasked" ELSE IF quarantined THEN "none" ELSE "notMasked"

Probe ==
  /\ Doing("probe")
  /\ \/ /\ finding' = Finding(~workload)
        /\ Goto(IF mode = "retry" THEN "raised" ELSE "failed", step)
        /\ UNCHANGED quarantined
     \/ /\ "failure" \in Faults   \* the workloads are unknown
        /\ finding' = Finding(FALSE)
        /\ Goto(IF mode = "retry" THEN "raised" ELSE "failed", step)
        /\ UNCHANGED quarantined
     \/ "exception" \in Faults /\ Unwind
  /\ Silent

(* _emergency_quarantine_launchers *)
EmergencyMask ==
  Attempt("emergency", TRUE, MaskedNow(Unit)) /\ UNCHANGED audit /\ Plain

Raise ==
  /\ Doing("raise")
  /\ Goto("raised", step) /\ UNCHANGED <<quarantined, finding>>
  /\ Silent

-----------------------------------------------------------------------------
(* Environment *)

Outside == Working /\ UNCHANGED <<request, audit, control, proved>>

(* A client of the Docker socket makes systemd start the daemon. *)
ClientConnects ==
  /\ "client" \in Environment /\ Outside
  /\ Socket \in units.active /\ Docker \notin units.active /\ Startable(Docker)
  /\ units' = Started(Docker)
  /\ KeepAll /\ UNCHANGED workload

(* Restart= replaces the process of a running service. *)
ServiceRestarts ==
  /\ "restart" \in Environment /\ Outside
  /\ UNCHANGED <<units, workload>>
  /\ \E u \in Trusted \cap units.active :
       Keep([identity EXCEPT ![u] = IF @ = "current" THEN "stale" ELSE @],
            gated /\ u # Docker)

UnitExits ==
  /\ "exit" \in Environment /\ Outside
  /\ \E u \in units.active : units' = [units EXCEPT !.active = @ \ {u}]
  /\ KeepAll /\ UNCHANGED workload

(* The running daemon starts a queued container, or a container ends. *)
WorkloadChanges ==
  /\ "workload" \in Environment /\ Outside
  /\ ~workload => Docker \in units.active
  /\ workload' = ~workload
  /\ UNCHANGED units /\ KeepAll

(* The host restarts: systemd starts what is enabled and not masked. *)
PowerLoss ==
  /\ "powerLoss" \in Faults /\ Working
  /\ units' = [units EXCEPT !.active = BootActive]
  /\ Goto("down", step)
  /\ workload' = FALSE /\ gated' = FALSE
  /\ identity' = [u \in Trusted |-> "none"]
  /\ UNCHANGED <<request, audit, quarantined, finding, proved>>

-----------------------------------------------------------------------------

(* The pre-commit checkpoint proved every launcher masked and inactive. What  *)
(* the mask hides is what the target keeps, except that enablement may have   *)
(* changed before.                                                            *)
HiddenLinks(s) ==
  IF s \in {"static", "not-found"} THEN {s} ELSE {"enabled", "disabled"}

Init ==
  /\ target \in Targets /\ requires \in Requires
  /\ \E link \in [Units -> {"enabled", "disabled", "static", "not-found"}] :
       /\ \A u \in Units : link[u] \in HiddenLinks(target[u].state)
       /\ units = [active |-> {}, masked |-> Units, link |-> link]
  /\ audit = Observed
  /\ identity = [u \in Trusted |-> "none"]
  /\ workload = FALSE
  /\ mode = "commit" /\ step = 1
  /\ quarantined = TRUE /\ finding = "none"
  /\ gated = FALSE /\ proved = {}

Program ==
  \/ Unmask \/ Disable \/ CheckPrepared \/ Activate \/ Check \/ Gate
  \/ Settle \/ Compare \/ Enable \/ CheckFinal
  \/ Identify \/ JointAudit \/ Conclude
  \/ Requiesce \/ Authenticate \/ Observe \/ Mask \/ Halt \/ Verify \/ Probe
  \/ EmergencyMask \/ Raise

World ==
  ClientConnects \/ ServiceRestarts \/ UnitExits \/ WorkloadChanges \/ PowerLoss

Next == Program \/ World

Spec == Init /\ [][Next]_vars

(* CommandRunner ends every command in bounded time. *)
FairSpec == Spec /\ WF_vars(Program)

-----------------------------------------------------------------------------
(* Properties *)

(* Type correctness of the whole state. *)
TypeOK ==
  /\ target \in Targets /\ requires \in Requires
  /\ units.active \subseteq Units /\ units.masked \subseteq Units
  /\ units.link \in [Units -> UnitFileStates \ {"masked"}]
  /\ audit \in [Units -> Target]
  /\ identity \in [Trusted -> {"none", "current", "stale"}]
  /\ workload \in BOOLEAN /\ gated \in BOOLEAN /\ proved \subseteq Units
  /\ mode \in {"commit", "quarantine", "retry", "emergency",
               "committed", "failed", "raised", "down"}
  /\ step \in Nat
  /\ Working => step \in 1 .. Len(Script)
  /\ quarantined \in BOOLEAN /\ finding \in {"none", "remasked", "notMasked"}

(* When the commit succeeds with Docker running, the very process that runs   *)
(* then has passed the workload gate: a daemon that restarted after the gate  *)
(* (and may have started queued containers) is never released                 *)
(* (_verify_joint_launcher_commit, _post_docker_workload_checkpoint).         *)
GatedDaemon ==
  [][mode' = "committed" /\ mode = "commit" /\ target[Docker].active => gated]_vars

(* During the commit a launcher is enabled for boot only after it was proved  *)
(* startable, Docker and its socket after the workload gate. The one window   *)
(* is between unmask and disable ("never enable docker.socket until both      *)
(* Docker activity targets and the immediate GPU-workload gate have been      *)
(* proven", cli.py:5462).                                                     *)
EnabledAfterProof ==
  mode \in {"commit", "committed"} =>
    \A u \in Units : StateOf(u) = "enabled" =>
      u \in proved \/ (Doing("disable") /\ Unit = u)

(* Docker is open only while both NVIDIA services have the exact unit-file    *)
(* state of the snapshot: in the commit they come first, and a quarantine     *)
(* that stops half way has masked Docker first. Emergency masks, which go on  *)
(* after a failure, do not promise it.                                        *)
DockerBehindNvidia ==
  mode \in {"commit", "quarantine", "retry", "committed", "failed"} =>
    \/ \A u \in {Docker, Socket} : u \in units.masked
    \/ \A u \in Nvidia : StateOf(u) = target[u].state

(* The snapshots a commit can reach when nothing fails or interferes: Docker,  *)
(* when it must run or be proved, can be started, and a daemon that pulls its *)
(* socket in is not to be left without it. A running daemon with a masked     *)
(* socket is not among them (see MaskedSocketTargetCommits).                  *)
Releasable(t) ==
  /\ ~TemporarySocket(t)
  /\ ProveDocker(t) => t[Docker].state \notin Inert
  /\ requires => /\ ProveDocker(t) => t[Socket].state \notin Inert
                 /\ t[Docker].active => t[Socket].active

(* Without faults and interference the commit succeeds for exactly the        *)
(* releasable snapshots: no step refuses what an earlier one left, whatever   *)
(* enablement the masks hide.                                                 *)
CleanCommitSucceeds ==
  /\ mode = "committed" => Releasable(target)
  /\ Releasable(target) => mode \in {"commit", "committed"}

(* Whatever fails, the commit comes to an end (two quarantines and the        *)
(* emergency masks at most).                                                  *)
CommitEnds == <>~Working

(* The commit is what Recovery takes it for. *)
Release == INSTANCE LauncherRelease WITH
  Launchers <- Units,
  masked    <- units.masked,
  exact     <- {u \in Units : StateOf(u) = target[u].state},
  outcome   <- IF Working THEN "running" ELSE mode,
  reported  <- finding # "none"

(* A commit ends as committed only with all four unit files exact, and as     *)
(* failed without a finding only with all four masked.                        *)
ImplementsRelease == Release!Spec

-----------------------------------------------------------------------------
(* Statements of the repository *)

(* rollback.py:3440: "Unmask one launcher while keeping persistent activation *)
(* disabled": a restart of the host starts no launcher that was not proved.   *)
BootStartsOnlyProved == mode = "down" => units.active \subseteq proved

(* tests/test_cli.py:2610: "valid masked-socket target must not quarantine". *)
MaskedSocketTargetCommits ==
  TemporarySocket(target) => mode # "quarantine"
=============================================================================
