---------------------------- MODULE HostTransaction ----------------------------
(***************************************************************************)
(* Installs and rollbacks of one machine: a command may fail part-way, somebody *)
(* else may change the machine until the launchers are quarantined, the program  *)
(* may be killed and the power may be lost.  While a rollback is owed the gate of *)
(* module Recovery lets nothing but that rollback run.                           *)
(***************************************************************************)
EXTENDS HostSettle

CONSTANTS
  Commands,   \* the commands an operator gives, beside rollback
  Machines,   \* the machines an operator starts from
  Desires     \* the desired states: [mig, pin]

ASSUME TransactionAssumption ==
  /\ Commands \subseteq {"install", "verify", "lock"}
  /\ Machines \subseteq Hosts /\ \A h \in Machines : Coherent(h)
  /\ Desires \subseteq [mig : Modes, pin : BOOLEAN]

(* Modules are of some build where one is loaded, and of none where none is.       *)
ASSUME LoadedAssumption ==
  \A h \in Machines : h.loaded.build = "none" <=> h.loaded.names = {}

Outcomes == {"none", "refused", "converged", "restored", "restore-failed",
             "reboot-required", "compensation-failed", "settled", "settle-failed",
             "settle-unproved", "unquarantined", "killed"}
Owed == base.taken /\ outcome \in {"restore-failed", "reboot-required",
                                   "compensation-failed", "settle-failed",
                                   "settle-unproved", "unquarantined", "killed"}

Init == /\ host \in Machines
        /\ base = NoBase(host)
        /\ want \in Desires
        /\ run = Idle
        /\ outcome = "none"
        /\ faults = 0

Begin(cmd, l) ==
  /\ ~ Running /\ ~ Owed /\ cmd \in Commands
  /\ run' = [Idle EXCEPT !.cmd = cmd, !.at = l]
  /\ UNCHANGED <<host, base, want, outcome, faults>>

BeginInstall == Begin("install", "i.plan")
BeginVerify  == Begin("verify", "s.plan")
BeginLock    == Begin("lock", "s.plan")

(* The exact private snapshot; the maintenance gate and the checkpoint quarantine *)
(* the launchers and one audit is taken behind them.                             *)
BeginRollback ==
  /\ ~ Running /\ base.taken
  /\ run' = [Idle EXCEPT !.cmd = "rollback", !.at = "mask", !.next = "r.boundary"]
  /\ UNCHANGED <<host, base, want, outcome, faults>>

RollbackBoundary ==
  /\ At("r.boundary")
  /\ \E gpus \in Enumerations(host) :
       IF gpus /\ Quarantined(host)
       THEN run' = [run EXCEPT !.at = "r.check", !.audit = Audit(host, gpus)]
       ELSE Go("r.unverified")
  /\ UNCHANGED <<host, base, want, outcome, faults>>

-----------------------------------------------------------------------------
(* What is not the program's doing. *)

Untouched == run.at \in {"i.plan", "s.plan", "i.snapshot"}

Spent == faults < MaxFaults /\ faults' = faults + 1
Stops == /\ run' = Idle
         /\ outcome' = IF Untouched THEN "refused" ELSE "killed"

Kill == Running /\ Spent /\ Stops /\ UNCHANGED <<host, base, want>>

PowerLoss == /\ Running /\ Spent /\ Stops
             /\ host' = Booted(host)
             /\ UNCHANGED <<base, want>>

(* Somebody edits a file or stages a MIG mode before the quarantine is complete. *)
Interferes ==
  /\ \/ At("i.snapshot")
     \/ run.next \in {"i.boundary", "s.boundary"} /\ run.at \in {"mask", "stop"}
  /\ Spent
  /\ \/ host' = [host EXCEPT !.files["docker"] = "script"]
     \/ \E v \in Modes \ {host.mig.mode} : host' = [host EXCEPT !.mig.pending = v]
  /\ UNCHANGED <<base, want, run, outcome>>

(* The operator reboots a machine that owes a rollback. *)
Reboot == /\ ~ Running /\ Owed
          /\ host' = Booted(host)
          /\ UNCHANGED <<base, want, run, outcome, faults>>

Program == BeginRollback \/ RollbackBoundary \/ MaskLauncher \/ StopLauncher \/ QuarantineFails
           \/ InstallStep \/ SettleStep \/ RestoreStep
Next == BeginInstall \/ BeginVerify \/ BeginLock \/ Program \/ Kill \/ PowerLoss \/ Interferes \/ Reboot

Spec == Init /\ [][Next]_hostVars

(* A running command goes on; an operator who owes a rollback tries it again and   *)
(* again, and reboots between the attempts.                                       *)
Fairness == /\ WF_hostVars(MaskLauncher \/ StopLauncher \/ QuarantineFails \/ InstallStep
                           \/ SettleStep \/ RestoreStep \/ RollbackBoundary)
            /\ SF_hostVars(BeginRollback /\ Owed)
            /\ SF_hostVars(Reboot)
FairSpec == Spec /\ Fairness

-----------------------------------------------------------------------------
(* The labels the program counter takes are left to the actions. *)
TypeOK ==
  /\ host \in Hosts
  /\ base \in [taken : BOOLEAN, host : Hosts]
  /\ want \in Desires
  /\ run.cmd \in Commands \cup {"none", "rollback"} /\ run.i \in DOMAIN StopOrder
  /\ outcome \in Outcomes
  /\ faults \in 0..MaxFaults

Ended(how) == ~ Running /\ outcome \in how
Skewed(h)  == h.loaded.build # OnDisk(h)
Lost(h)    == OnDisk(h) = "none" /\ h.loaded.names = {}
DesiredMig == [mode |-> want.mig, pending |-> want.mig,
               parts |-> IF want.mig = "enabled" THEN "full" ELSE "none"]
AsDesired(h) ==
  /\ h.packages = DesiredPackages /\ h.loaded.build = "new" /\ h.mig = DesiredMig
  /\ h.files["docker"] = "set" /\ ~ PolicyDrifts(h)

(* "Restored" is said of a machine that is, launchers included, the one the snapshot *)
(* recorded, however many attempts, kills and reboots lie between.                *)
RestoredIsBaseline ==
  Ended({"restored"}) => Core(host) = Core(base.host) /\ host.units = base.host.units

(* "Converged" is said of a machine that has every part of the desired state, though *)
(* each part was changed in a phase of its own and package scripts ran between.   *)
ConvergedIsDesired == Ended({"converged"}) => AsDesired(host) /\ host.units["docker"].active

(* A verify or lock that succeeds leaves the packages and the launchers as its        *)
(* snapshot recorded them and the GPU partitioned as recorded or as desired, though *)
(* verify may have replaced the modules under the partitions.                     *)
SettledKeepsBaseline ==
  Ended({"settled"}) => /\ host.packages = base.host.packages
                        /\ host.mig \in {base.host.mig, DesiredMig}
                        /\ host.units = base.host.units

(* A rollback that fails or waits for a reboot, and a verify or lock that fails,     *)
(* leave no launcher on the half-changed stack, also when a script of the failed   *)
(* transaction or a release that broke off started one and an earlier quarantine   *)
(* failed, unless the report says that the last one is unverified.                *)
FailureQuarantined ==
  Ended({"restore-failed", "reboot-required", "settle-failed"}) => Quarantined(host)

(* The program touches the modules and MIG only while every launcher is down and    *)
(* masked, at the moment of the change and not only when the operation began.     *)
ModulesMoveBehindMasks ==
  [][/\ Running /\ faults' = faults
     /\ host'.loaded # host.loaded \/ host'.mig # host.mig
     => Quarantined(host)]_hostVars

(* Where every command succeeds, an operation that fails has a reason outside it: a  *)
(* MIG mode staged for the next boot, or modules of another build than the one on   *)
(* disk, now or in the snapshot.                                                  *)
FailsForAReason ==
  [][/\ run.cmd # "none" /\ run'.cmd = "none" /\ faults' = 0
     /\ outcome' \in {"restore-failed", "compensation-failed", "unquarantined"}
     => \/ host.mig.mode # host.mig.pending
        \/ Skewed(host) \/ Skewed(base.host)]_hostVars

(* An install of a machine that already is as desired changes nothing of its core,  *)
(* not even for a while.                                                          *)
SecondPlanIsEmpty ==
  [][/\ run.cmd = "install" /\ run.at \notin {"i.plan", "i.snapshot"} /\ faults' = faults
     /\ AsDesired(base.host) /\ BaselineStands(Audit(host, TRUE))
     => Core(host') = Core(host)]_hostVars

(* An operator who repeats the exact rollback and reboots between the attempts gets  *)
(* the baseline back from every failure, unless no driver is left to enumerate the *)
(* GPU or the snapshot was taken of modules that are not those on disk.            *)
RollbackCompletes ==
  Owed ~> (outcome = "restored" \/ Lost(host) \/ Skewed(base.host))

-----------------------------------------------------------------------------
(* What the code does not keep. *)

(* README.md:279: "if compensation cannot be proven, they [trusted GPU services] are *)
(* re-quiesced or left stopped."                                                  *)
TrustedStopped ==
  Ended({"compensation-failed"}) => \A u \in Launchers \ {"docker"} : ~ host.units[u].active

(* README.md:322: "If rollback reports a reboot-pending MIG transition".  A restore in *)
(* which all but the staged mode and what depends on it is back says so.           *)
StagedIsSaid ==
  [][/\ At("r.verify") /\ ~ run.disturbed
     /\ host.mig.mode # base.host.mig.mode /\ host.mig.pending = base.host.mig.mode
     /\ FailedChecks(Audit(host, TRUE)) \subseteq {"mig-mode", "mig-geometry"}
     => run'.next = "r.reboot"]_hostVars
=============================================================================
