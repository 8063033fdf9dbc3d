----------------------------- MODULE HostConverge -----------------------------
(***************************************************************************)
(* install --apply: a plan and a private snapshot are bound to one audit, the  *)
(* launchers are quarantined, and the host is taken to the desired stack across *)
(* boundaries that each look at it again.  Whatever goes wrong after the        *)
(* snapshot is compensated by HostRestore.                                      *)
(***************************************************************************)
EXTENDS HostRestore

DesiredPackages == {Driver("new"), Toolkit}

(* build_plan, from one audit a. *)
NeedsDriver(h)   == OnDisk(h) # "new"
NeedsPackages(h) == h.packages # DesiredPackages
PolicyDrifts(h)  == want.pin /\ h.files["policy"] # "set"

(* The loaded stack is to be replaced by the one on disk. *)
(* Faulty variant: whatever is loaded. *)
ResetAlways(h) == h.loaded.names # {}
ResetPlanned(h) == /\ h.loaded.names # {}
                   /\ \/ NeedsDriver(h)
                      \/ h.loaded.build # OnDisk(h)

(* Faulty variant: any layout will do. *)
MigDriftsAnyLayout(a) == \/ a.host.mig.mode # want.mig
                         \/ want.mig = "enabled" /\ Geometry(a) = "none"
MigDrifts(a) == \/ a.host.mig.mode # want.mig
                \/ want.mig = "enabled" /\ Geometry(a) # "full"

(* The plan has no unsupported action: MIG is observed, settled and, where it   *)
(* will be taken down, recreatable; a package policy is never changed in the     *)
(* transaction that resolves a driver under it, nor an administrator's replaced. *)
Supported(a) ==
  /\ GeometryComplete(a)
  /\ MigDrifts(a) \/ ResetPlanned(a.host) => Restorable(Geometry(a))
  /\ PolicyDrifts(a.host) => /\ a.host.files["policy"] = "absent"
                             /\ ~ NeedsDriver(a.host)

Plan == run.audit.host

-----------------------------------------------------------------------------
(* Before the first change. *)

PlanInstall ==
  /\ At("i.plan")
  /\ \E gpus \in Enumerations(host) :
       LET a == Audit(host, gpus) IN
         IF Supported(a)
         THEN run' = [run EXCEPT !.at = "i.snapshot", !.audit = a] /\ UNCHANGED outcome
         ELSE Ends("refused")
  /\ UNCHANGED <<host, base, want, faults>>

(* create_snapshot records what the audit saw; the bytes of the managed files and *)
(* the module graph are read when it runs.                                       *)
TakeSnapshot ==
  /\ At("i.snapshot")
  /\ IF Recordable(run.audit, MigDrifts(run.audit))
     THEN /\ base' = [taken |-> TRUE,
                      host |-> [run.audit.host EXCEPT !.files = host.files,
                                                      !.loaded.names = host.loaded.names]]
          /\ Fence(IF run.cmd = "install" THEN "i.boundary" ELSE "s.boundary")
          /\ UNCHANGED outcome
     ELSE Ends("refused") /\ UNCHANGED base
  /\ UNCHANGED <<host, want, faults>>

(* _fresh_gpu_boundary_is_safe: behind masks, the machine still is the snapshot. *)
Compensates == /\ Fence("i.reaudit")
               /\ UNCHANGED <<host, base, want, outcome, faults>>
Observations == {Audit(host, gpus) : gpus \in Enumerations(host)}
Boundary(a, safe, l) ==
  /\ IF a.gpus /\ Quarantined(host) /\ safe THEN Go(l) ELSE Fence("i.reaudit")
  /\ UNCHANGED <<host, base, want, outcome, faults>>

BaselineStands(a) == FailedChecks(a) = {}
PrePackageBoundary ==
  /\ At("i.boundary")
  /\ \E gpus \in Enumerations(host) :
       LET a == Audit(host, gpus) IN
         IF a.gpus /\ Quarantined(host) /\ BaselineStands(a) /\ Supported(a)
         THEN run' = [run EXCEPT !.at = "i.lock", !.audit = a]
         ELSE Fence("i.reaudit")
  /\ UNCHANGED <<host, base, want, outcome, faults>>

-----------------------------------------------------------------------------
(* Packages, then the kernel modules, then MIG. *)

LockPolicy ==
  /\ At("i.lock")
  /\ IF PolicyDrifts(Plan)
     THEN \/ Does({[host EXCEPT !.files["policy"] = "set"]}, "i.packages")
          \/ Fails({host}, "i.compensate")
     ELSE Skips("i.packages")

InstallPackages ==
  /\ At("i.packages")
  /\ IF NeedsPackages(Plan)
     THEN \/ \E h \in Scripted(Exchanged(host, DesiredPackages)) :
               host' = h /\ Fence("i.boundary2") /\ Keep /\ UNCHANGED faults
          \/ Fails(UNION {Scripted(h) : h \in Partly(host, DesiredPackages)}, "i.compensate")
     ELSE /\ Fence("i.boundary2")
          /\ UNCHANGED <<host, base, want, outcome, faults>>

PostPackageBoundary ==
  At("i.boundary2") /\ \E a \in Observations : Boundary(a, TRUE, "i.teardown")

(* Derived only from the audit after the packages. *)
Teardown ==
  /\ At("i.teardown")
  /\ IF ~ ResetPlanned(Plan) \/ host.mig.mode # "enabled" THEN Skips("i.unload")
     ELSE \E gpus \in Enumerations(host) :
            LET layout == Geometry(Audit(host, gpus)) IN
              IF ~ GeometryComplete(Audit(host, gpus)) \/ ~ Restorable(layout)
              THEN Skips("i.compensate")
              ELSE IF layout = "none" THEN Skips("i.unload") ELSE Skips("i.dci")

InstallDestroyCompute ==
  \/ At("i.dci") /\ DestroyCompute("i.dgi", "i.compensate")
  \/ At("i.mdci") /\ DestroyCompute("i.mdgi", "i.compensate")
InstallDestroyGpu ==
  \/ At("i.dgi") /\ (Does({GpuDestroyed(host)}, "i.unload") \/ Fails({host}, "i.compensate"))
  \/ At("i.mdgi") /\ (Does({GpuDestroyed(host)}, IF want.mig = "enabled" THEN "i.create" ELSE "i.mode")
                      \/ Fails({host}, "i.compensate"))

(* prepare_stack: the modules that were loaded come back from the build on disk. *)
PrepareUnload ==
  /\ At("i.unload")
  /\ IF ResetPlanned(Plan) THEN Unload("i.load", "i.compensate") ELSE Skips("i.reconcile")
PrepareLoad ==
  /\ At("i.load")
  /\ IF Plan.loaded.names \subseteq host.loaded.names
     THEN Skips("i.reconcile")
     ELSE Load(Plan.loaded.names, "i.load", "i.compensate")

(* mig_reconciliation_actions, from a fresh audit: a mode that waits for a reboot *)
(* ends the install like a failure.                                             *)
ReconcileMig ==
  /\ At("i.reconcile")
  /\ \E gpus \in Enumerations(host) :
       LET a == Audit(host, gpus) IN
         IF ~ a.gpus \/ ~ Quarantined(host) THEN Skips("i.compensate")
         ELSE IF ~ ResetPlanned(Plan) /\ ~ MigDrifts(Audit(Plan, TRUE)) THEN Skips("i.docker")
         ELSE IF ~ GeometryComplete(a) THEN Skips("i.compensate")
         ELSE IF ~ MigDrifts(a) THEN Skips("i.docker")
         ELSE IF ~ Restorable(Geometry(a)) THEN Skips("i.compensate")
         ELSE IF Geometry(a) # "none" THEN Skips("i.mdci")
         ELSE IF a.host.mig.mode # want.mig THEN Skips("i.mode") ELSE Skips("i.create")

SetMode ==
  /\ At("i.mode")
  /\ \/ \E h \in ModeSet(host, want.mig) : \E gpus \in Enumerations(h) :
          Does({h}, IF ~ gpus \/ h.mig.mode # want.mig THEN "i.compensate"
                    ELSE IF want.mig = "enabled" THEN "i.create" ELSE "i.docker")
     \/ Fails({host}, "i.compensate")
CreateGeometry ==
  /\ At("i.create")
  /\ \/ Does({Partitioned(host, "full")}, "i.docker")
     \/ Fails({host}, "i.compensate")

-----------------------------------------------------------------------------
(* Docker's configuration, the core checks, the release, the container check. *)

ConfigureDocker ==
  /\ At("i.docker")
  /\ \/ Does({[host EXCEPT !.files["docker"] = "set"]}, "i.verify")
     \/ Fails({host}, "i.compensate")

CoreVerified(a) == /\ OnDisk(a.host) = "new" /\ a.host.loaded.build = "new"
                   /\ GeometryComplete(a) /\ ~ MigDrifts(a)
VerifyCore ==
  At("i.verify") /\ \E a \in Observations : Boundary(a, CoreVerified(a), "i.release")

TargetUnits == [base.host.units EXCEPT !["docker"] = [active |-> TRUE, file |-> "enabled"]]
ReleaseTarget ==
  /\ At("i.release")
  /\ \/ Does({[host EXCEPT !.units = TargetUnits]}, "i.container")
     \/ Fails(PartlyReleased(TargetUnits), "i.compensate")

VerifyContainer ==
  /\ At("i.container")
  /\ \/ /\ host.files["docker"] = "set" /\ Toolkit \in host.packages
        /\ Ends("converged")
        /\ UNCHANGED <<host, base, want, faults>>
     \/ Fails({host}, "i.compensate")

(* _prepare_install_compensation: quarantine again, then one audit to restore from. *)
Compensate == At("i.compensate") /\ Compensates
Reaudit ==
  /\ At("i.reaudit")
  /\ \E gpus \in Enumerations(host) :
       run' = [run EXCEPT !.at = "r.check", !.audit = Audit(host, gpus)]
  /\ UNCHANGED <<host, base, want, outcome, faults>>

InstallStep ==
  \/ PlanInstall \/ TakeSnapshot \/ PrePackageBoundary
  \/ LockPolicy \/ InstallPackages \/ PostPackageBoundary
  \/ Teardown \/ InstallDestroyCompute \/ InstallDestroyGpu \/ PrepareUnload \/ PrepareLoad
  \/ ReconcileMig \/ SetMode \/ CreateGeometry
  \/ ConfigureDocker \/ VerifyCore \/ ReleaseTarget \/ VerifyContainer
  \/ Compensate \/ Reaudit
=============================================================================
