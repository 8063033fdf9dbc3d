----------------------------- MODULE HostRestore -----------------------------
(***************************************************************************)
(* apply_rollback and the checks around it: the host is brought back to the    *)
(* core a snapshot recorded, behind masked launchers, from one audit taken      *)
(* before the first change.  The same steps serve the rollback command and the  *)
(* compensation of a failed install.                                            *)
(***************************************************************************)
EXTENDS GpuHost

(* create_snapshot: what it refuses to record is not a baseline. *)
Recordable(a, geometryChanges) ==
  /\ a.gpus /\ GeometryComplete(a)
  /\ geometryChanges => Restorable(Geometry(a))

(* What a snapshot restores before it releases the launchers. *)
Core(h) == [packages |-> h.packages, files |-> h.files, loaded |-> h.loaded, mig |-> h.mig]

-----------------------------------------------------------------------------
(* rollback_package_commands: the exact delta from the audit to the snapshot. *)

Slots(p)   == {i.slot : i \in p}
Missing(h) == base.host.packages \ h.packages
(* Faulty variant: a package of a slot the snapshot does not know stays. *)
AddedNever(h) == {i \in h.packages \ base.host.packages :
                    i.slot \in Slots(h.packages \cap base.host.packages)}
Added(h)   == {i \in h.packages \ base.host.packages :
                 \/ i.slot \notin Slots(base.host.packages)
                 \/ i.slot \in Slots(h.packages \cap base.host.packages)}
Delta(h)   == Missing(h) \cup Added(h)
Goal(h)    == {i \in h.packages \ Added(h) : i.slot \notin Slots(Missing(h))} \cup Missing(h)

(* Faulty variant: compares what modinfo selects, not what is loaded. *)
ModuleMatchesOnDisk(h) == h.loaded.names = base.host.loaded.names /\ OnDisk(h) = OnDisk(base.host)
ModuleMatches(h) == h.loaded = base.host.loaded /\ OnDisk(h) = OnDisk(base.host)
FilesMatch(h)    == h.files = base.host.files
BaseGeometry     == Geometry(Audit(base.host, TRUE))
MigDiffers(a)    == a.host.mig.mode # base.host.mig.mode \/ Geometry(a) # BaseGeometry
MigRequired(a)   == MigDiffers(a) \/ (~ ModuleMatches(a.host) /\ base.host.mig.mode = "enabled")

(* One reason to change anything is reason to quarantine every launcher. *)
Mutates(a) == \/ Delta(a.host) # {} \/ ~ ModuleMatches(a.host) \/ MigRequired(a)
              \/ ~ FilesMatch(host) \/ a.host.units # base.host.units

Applicable(a) == /\ a.gpus /\ GeometryComplete(a)
                 /\ MigRequired(a) => Restorable(BaseGeometry)

Checks ==
  /\ At("r.check")
  /\ UNCHANGED <<host, base, want, outcome, faults>>
  /\ IF ~ Applicable(run.audit) THEN Go("r.failed")
     ELSE IF Mutates(run.audit) THEN Fence("r.packages") ELSE Go("r.verify")

(* The solver or the retained payloads refuse: nothing has changed yet. *)
Refuses == At("r.check") /\ Fails({host}, "r.failed")

RestorePackages ==
  /\ At("r.packages")
  /\ IF Delta(run.audit.host) = {} THEN Skips("r.docker")
     ELSE \/ Does(Scripted(Exchanged(host, Goal(run.audit.host))), "r.docker")
          \/ Fails(UNION {Scripted(h) : h \in Partly(host, Goal(run.audit.host))}, "r.failed")

-----------------------------------------------------------------------------
(* Files come back after the scripts that may rewrite them.  A file that cannot  *)
(* be written does not keep the other from being tried.                          *)

Rewritten(f) == [host EXCEPT !.files[f] = base.host.files[f]]
RestoreDockerConfig == /\ At("r.docker")
                       /\ \/ Does({Rewritten("docker")}, "r.policy")
                          \/ Fails({host}, "r.policy.failing")
(* Faulty variant: no second quarantine after the package scripts. *)
RestorePolicyOpen == /\ At("r.policy")
                     /\ \/ Does({Rewritten("policy")}, "r.unload")
                        \/ Fails({host}, "r.failed")
RestorePolicy == /\ At("r.policy")
                 /\ \/ /\ host' = Rewritten("policy")
                       /\ Fence("r.unload")
                       /\ Keep /\ UNCHANGED faults
                    \/ Fails({host}, "r.failed")
RestorePolicyAnyway == At("r.policy.failing") /\ Does({host, Rewritten("policy")}, "r.failed")

-----------------------------------------------------------------------------
(* The module graph: holders first down, the base module first up. *)

Reset == ~ ModuleMatches(run.audit.host)
Remains == {[host EXCEPT !.loaded.names = n] : n \in {host.loaded.names, {"nvidia"}}}

Unload(l, failed) ==
  \/ Does({IF Removable(host) THEN ModulesGone(host) ELSE host},
          IF Removable(host) THEN l ELSE failed)
  \/ Fails(Remains, failed)

NextModule(names) == IF "nvidia" \in names \ host.loaded.names THEN "nvidia" ELSE "nvidia_uvm"
Load(names, again, failed) ==
  LET loads == ModuleLoaded(host, NextModule(names)) IN
    IF loads = {} THEN Does({host}, failed)
    ELSE Does(loads, again) \/ Fails({host}, failed)

RemoveModules ==
  /\ At("r.unload")
  /\ IF Reset /\ host.loaded.names # {} THEN Unload("r.load", "r.failed") ELSE Skips("r.load")

LoadModules ==
  /\ At("r.load")
  /\ IF Reset /\ ~ base.host.loaded.names \subseteq host.loaded.names
     THEN Load(base.host.loaded.names, "r.load", "r.failed") ELSE Skips("r.mig")

-----------------------------------------------------------------------------
(* MIG.  Every decision is taken from a fresh observation: a staged target ends  *)
(* the restore early, any other transition fails it.                            *)

Refreshed(h, l) ==
  LET settled == IF h.mig.mode = h.mig.pending THEN l
                 ELSE IF h.mig.pending = base.host.mig.mode THEN "r.verify" ELSE "r.failed"
  IN {IF gpus THEN settled ELSE "r.failed" : gpus \in Enumerations(h)}

ThenRefresh(hosts, l) == \E h \in hosts : \E to \in Refreshed(h, l) : Does({h}, to)

Here == Audit(host, TRUE)
(* Faulty variant: the layout is recreated only after a change of mode. *)
ModeOrVerify == IF Reset \/ host.mig.mode # base.host.mig.mode THEN "r.mode" ELSE "r.verify"
ModeOrCreate == IF Reset \/ host.mig.mode # base.host.mig.mode THEN "r.mode" ELSE "r.create"
NextMigStep ==
  IF ~ MigDiffers(Here) THEN "r.verify"
  ELSE IF /\ ~ Reset /\ Geometry(Here) # "none"
          /\ base.host.mig.mode = "disabled" \/ Geometry(Here) # BaseGeometry
       THEN "r.dci" ELSE ModeOrCreate

ObserveMig ==
  /\ At("r.mig")
  /\ IF MigRequired(run.audit) \/ Delta(run.audit.host) # {} \/ Reset
     THEN ThenRefresh({host}, NextMigStep) ELSE Skips("r.verify")

(* Nothing to destroy: nvidia-smi may say so with an error. *)
DestroyCompute(l, failed) ==
  \/ host.mig.parts = "gi" /\ (Does({host}, l) \/ Does({host}, failed))
  \/ host.mig.parts # "gi" /\ (Does({ComputeDestroyed(host)}, l) \/ Fails({host}, failed))

RestoreDestroyCompute == At("r.dci") /\ DestroyCompute("r.dgi", "r.failed")
RestoreDestroyGpu ==
  /\ At("r.dgi")
  /\ \/ Does({GpuDestroyed(host)}, ModeOrCreate)
     \/ Fails({host}, "r.failed")
RestoreMode ==
  /\ At("r.mode")
  /\ \/ ThenRefresh(ModeSet(host, base.host.mig.mode), "r.create")
     \/ Fails({host}, "r.failed")
RestoreGeometry ==
  /\ At("r.create")
  /\ IF base.host.mig.mode = "disabled" \/ Geometry(Here) = BaseGeometry \/ BaseGeometry = "none"
     THEN Skips("r.verify")
     ELSE IF host.mig.parts # "none" THEN Does({host}, "r.failed")
     ELSE Does({Partitioned(host, BaseGeometry)}, "r.verify") \/ Fails({host}, "r.failed")

-----------------------------------------------------------------------------
(* verify_rollback on a fresh audit, by the checks that can fail. *)

FailedChecks(a) ==
  {c \in {"gpu-inventory", "module-version", "packages-restored", "added-packages-removed",
          "mig-mode", "mig-pending", "mig-geometry", "managed-files"} :
     CASE c = "gpu-inventory"          -> ~ a.gpus
       [] c = "module-version"         -> ~ ModuleMatches(a.host)
       [] c = "packages-restored"      -> ~ base.host.packages \subseteq a.host.packages
       [] c = "added-packages-removed" -> ~ a.host.packages \subseteq base.host.packages
       [] c = "mig-mode"               -> ~ a.gpus \/ a.host.mig.mode # base.host.mig.mode
       [] c = "mig-pending"            -> ~ a.gpus \/ a.host.mig.pending # base.host.mig.mode
       [] c = "mig-geometry"           -> ~ GeometryComplete(a) \/ Geometry(a) # BaseGeometry
       [] c = "managed-files"          -> ~ FilesMatch(a.host)}

CompletesAfterReboot(a) ==
  /\ a.gpus /\ a.host.mig.mode # base.host.mig.mode /\ a.host.mig.pending = base.host.mig.mode
  /\ FailedChecks(a) = {"mig-mode"}

VerifyRestored ==
  /\ At("r.verify")
  /\ \E gpus \in Enumerations(host) :
       LET a == Audit(host, gpus) IN
         IF FailedChecks(a) = {} THEN Go("r.release")
         ELSE IF CompletesAfterReboot(a) THEN Fence("r.reboot") ELSE Fence("r.unverified")
  /\ UNCHANGED <<host, base, want, outcome, faults>>

(* The commit of LauncherCommit, as one step, and the quarantine of one that failed. *)
ReleaseBaseline ==
  /\ At("r.release")
  /\ \/ /\ host' = [host EXCEPT !.units = base.host.units]
        /\ Ends("restored")
        /\ UNCHANGED <<base, want, faults>>
     \/ Fails(PartlyReleased(base.host.units), "r.unreleased")
Unreleased == /\ At("r.unreleased") /\ Fence("r.unverified")
              /\ UNCHANGED <<host, base, want, outcome, faults>>

(* A failed rollback command quarantines again; a failed compensation only stops  *)
(* the trusted NVIDIA services, and only when one of them was running before.  A   *)
(* service that does not stop does not keep the others from being stopped.         *)
Trusted == Launchers \ {"docker"}
Requiesced(h) ==
  {[h EXCEPT !.units = [u \in Launchers |->
      IF u \in s THEN [@[u] EXCEPT !.active = FALSE] ELSE @[u]]] :
     s \in IF \E u \in Trusted : base.host.units[u].active THEN SUBSET Trusted ELSE {{}}}

(* Faulty variant: a failed rollback trusts the quarantine it began with. *)
RestoreFailsOpen ==
  /\ At("r.failed")
  /\ IF run.cmd = "rollback"
     THEN Skips("r.unverified")
     ELSE /\ host' \in Requiesced(host)
          /\ Ends("compensation-failed")
          /\ UNCHANGED <<base, want, faults>>

RestoreFails ==
  /\ At("r.failed")
  /\ IF run.cmd = "rollback"
     THEN /\ Fence("r.unverified")
          /\ UNCHANGED <<host, base, want, outcome, faults>>
     ELSE /\ host' \in Requiesced(host)
          /\ Ends("compensation-failed")
          /\ UNCHANGED <<base, want, faults>>

RestoreEnds ==
  /\ run.at \in {"r.unverified", "r.reboot"}
  /\ Ends(IF At("r.reboot") THEN "reboot-required" ELSE "restore-failed")
  /\ UNCHANGED <<host, base, want, faults>>

(* install.launcher-quarantine-unverified: said of whatever operation it ends.        *)
EndsUnquarantined ==
  /\ At("unquarantined")
  /\ host' \in Requiesced(host)
  /\ Ends("unquarantined")
  /\ UNCHANGED <<base, want, faults>>

RestoreStep ==
  \/ Checks \/ Refuses \/ RestorePackages
  \/ RestoreDockerConfig \/ RestorePolicy \/ RestorePolicyAnyway
  \/ RemoveModules \/ LoadModules
  \/ ObserveMig \/ RestoreDestroyCompute \/ RestoreDestroyGpu \/ RestoreMode \/ RestoreGeometry
  \/ VerifyRestored \/ ReleaseBaseline \/ Unreleased
  \/ RestoreFails \/ RestoreEnds \/ EndsUnquarantined
=============================================================================
