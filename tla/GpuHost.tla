------------------------------- MODULE GpuHost -------------------------------
(***************************************************************************)
(* The host an applied operation changes, as audit_host observes it, and the *)
(* commands that change it: package transactions and their scripts, modprobe, *)
(* nvidia-smi, systemctl and a reboot.  A command that fails may leave part of *)
(* its work behind.                                                           *)
(*                                                                            *)
(* One driver build is on disk at a time.  A kernel module set is loaded from *)
(* one build.  MIG "parts" is what the one GPU is partitioned into: "none",    *)
(* "gi" (a GPU instance without compute instance), "full" (the supported       *)
(* layout), "part" (another layout that can be recreated), "split" (one that    *)
(* cannot).                                                                   *)
(***************************************************************************)
EXTENDS Naturals, Sequences, FiniteSets

CONSTANTS
  StopOrder,    \* the launchers, in the order in which they are quarantined
  BootModules,  \* the NVIDIA modules the machine loads at boot
  MaxFaults     \* bound: failing commands, kills and power losses

ASSUME HostAssumption ==
  /\ StopOrder \in Seq(STRING)
  /\ "docker" \in {StopOrder[i] : i \in DOMAIN StopOrder}
  /\ BootModules \subseteq {"nvidia", "nvidia_uvm"} /\ "nvidia" \in BootModules
  /\ MaxFaults \in Nat

VARIABLES
  host,     \* the machine
  base,     \* the rollback snapshot: the core it recorded and the launchers
  want,     \* the desired state
  run,      \* the operation that runs
  outcome,  \* how the last operation ended
  faults    \* failing commands, kills and power losses so far

hostVars == <<host, base, want, run, outcome, faults>>

Launchers == {StopOrder[i] : i \in DOMAIN StopOrder}
Modules   == {"nvidia", "nvidia_uvm"}
Driver(b) == [slot |-> "driver", build |-> b]
Toolkit   == [slot |-> "toolkit", build |-> "new"]
Identities == {Driver("old"), Driver("new"), Toolkit}
PackageSets == {p \in SUBSET Identities : ~ {Driver("old"), Driver("new")} \subseteq p}

Builds   == {"old", "new", "none"}
Modes    == {"enabled", "disabled"}
Layouts  == {"none", "gi", "full", "part", "split"}
Contents == {"absent", "before", "set", "script"}
UnitStates == [active : BOOLEAN, file : {"enabled", "disabled", "masked"}]

Hosts == [packages : PackageSets,
          files    : [{"docker", "policy"} -> Contents],
          loaded   : [build : Builds, names : SUBSET Modules],
          mig      : [mode : Modes, pending : Modes, parts : Layouts],
          units    : [Launchers -> UnitStates]]

(* A GPU is partitioned only in MIG mode and only while a driver is loaded.      *)
Coherent(h) == h.mig.mode = "disabled" \/ h.loaded.names = {} => h.mig.parts = "none"

OnDisk(h) == IF Driver("new") \in h.packages THEN "new"
             ELSE IF Driver("old") \in h.packages THEN "old" ELSE "none"
Unloaded  == [build |-> "none", names |-> {}]

-----------------------------------------------------------------------------
(* What an audit of h reports.  Without a module nothing enumerates the GPU;    *)
(* under another build's userland nvidia-smi may refuse.                        *)
Enumerations(h) == IF h.loaded.names = {} THEN {FALSE}
                   ELSE IF h.loaded.build = OnDisk(h) THEN {TRUE} ELSE BOOLEAN
Audit(h, gpus)  == [host |-> h, gpus |-> gpus]

GeometryComplete(a) == a.gpus /\ a.host.mig.mode = a.host.mig.pending
Geometry(a) == IF GeometryComplete(a) /\ a.host.mig.mode = "enabled"
               THEN a.host.mig.parts ELSE "none"
Restorable(layout) == layout \in {"none", "full", "part"}

Quarantined(h) == \A u \in Launchers : ~ h.units[u].active /\ h.units[u].file = "masked"
Masked(h)      == \A u \in Launchers : h.units[u].file = "masked"

-----------------------------------------------------------------------------
(* The commands. *)

Exchanged(h, goal) == [h EXCEPT !.packages = goal]
Partly(h, goal) ==
  {Exchanged(h, p) : p \in {q \in PackageSets :
                              /\ h.packages \cap goal \subseteq q
                              /\ q \subseteq h.packages \cup goal}}

(* Package scripts may rewrite a configuration and unmask and start a unit. *)
Scripted(h) ==
  {h, [h EXCEPT !.files["docker"] = "script"]}
    \cup {[h EXCEPT !.units[u] = [active |-> TRUE, file |-> "enabled"]] : u \in Launchers}

Removable(h)   == \A u \in Launchers : ~ h.units[u].active
ModulesGone(h) == [h EXCEPT !.loaded = Unloaded, !.mig.parts = "none"]

(* The first module brings the build on disk; the MIG mode may not outlive it. *)
ModuleLoaded(h, m) ==
  LET same == [h EXCEPT !.loaded.names = @ \cup {m}]
      new  == [h EXCEPT !.loaded = [build |-> OnDisk(h), names |-> {m}]]
  IN IF OnDisk(h) = "none" THEN {}
     ELSE IF h.loaded.names # {} THEN {same}
     ELSE {[new EXCEPT !.mig.mode = v, !.mig.pending = v] : v \in {"disabled", h.mig.pending}}

(* nvidia-smi -mig: at once, or staged for the next boot. *)
ModeSet(h, v) ==
  {[h EXCEPT !.mig = [mode |-> v, pending |-> v,
                      parts |-> IF h.mig.mode = v THEN @.parts ELSE "none"]],
   [h EXCEPT !.mig.pending = v]}

ComputeDestroyed(h) == [h EXCEPT !.mig.parts = "gi"]
GpuDestroyed(h)     == [h EXCEPT !.mig.parts = "none"]
Partitioned(h, p)   == [h EXCEPT !.mig.parts = p]

UnitMasked(h, u)  == [h EXCEPT !.units[u].file = "masked"]
UnitStopped(h, u) == [h EXCEPT !.units[u].active = FALSE]

(* A boot loads the build on disk, applies the staged mode, loses every         *)
(* partition and starts what is enabled.                                        *)
Booted(h) ==
  [h EXCEPT !.loaded = IF OnDisk(h) = "none" THEN Unloaded
                       ELSE [build |-> OnDisk(h), names |-> BootModules],
            !.mig = [mode |-> @.pending, pending |-> @.pending, parts |-> "none"],
            !.units = [u \in Launchers |->
                         [active |-> @[u].file = "enabled", file |-> @[u].file]]]

-----------------------------------------------------------------------------
(* The operation that runs: the command, the statement it is at, the launcher it *)
(* has come to, the audit its decisions rest on, whether a command failed.       *)
Idle == [cmd |-> "none", at |-> "idle", next |-> "idle", i |-> 1,
         audit |-> Audit([packages |-> {}], FALSE), disturbed |-> FALSE]
NoBase(h) == [taken |-> FALSE, host |-> h]

Running == run.cmd # "none"
At(l)   == run.at = l
Go(l)   == run' = [run EXCEPT !.at = l]
Keep    == UNCHANGED <<base, want, outcome>>

(* Quarantine every launcher, then go on at l. *)
Fence(l) == run' = [run EXCEPT !.at = "mask", !.next = l, !.i = 1]

(* The operation ends and says how. *)
Ends(how) == /\ run' = Idle
             /\ outcome' = how

(* _quarantine_service_for_rollback: mask, and only then stop. *)
MaskLauncher ==
  /\ At("mask")
  /\ host' = UnitMasked(host, StopOrder[run.i])
  /\ Go("stop")
  /\ Keep /\ UNCHANGED faults

(* Faulty variant: the position runs on past the last launcher. *)
StopLauncherBeyond ==
  /\ At("stop")
  /\ host' = UnitStopped(host, StopOrder[run.i])
  /\ run' = IF run.i < Len(StopOrder)
            THEN [run EXCEPT !.at = "mask", !.i = @ + 1]
            ELSE [run EXCEPT !.at = run.next, !.i = @ + 1]
  /\ Keep /\ UNCHANGED faults

StopLauncher ==
  /\ At("stop")
  /\ host' = UnitStopped(host, StopOrder[run.i])
  /\ run' = IF run.i < Len(StopOrder)
            THEN [run EXCEPT !.at = "mask", !.i = @ + 1]
            ELSE [run EXCEPT !.at = run.next]
  /\ Keep /\ UNCHANGED faults

(* A mutating command succeeds and the operation goes on. *)
Does(hosts, l) == /\ host' \in hosts
                  /\ Go(l)
                  /\ Keep /\ UNCHANGED faults
Skips(l) == /\ Go(l)
            /\ UNCHANGED <<host, base, want, outcome, faults>>

(* A mutating command fails after part of its work. *)
Fails(hosts, l) == /\ faults < MaxFaults
                   /\ faults' = faults + 1
                   /\ host' \in hosts
                   /\ run' = [run EXCEPT !.at = l, !.disturbed = TRUE]
                   /\ Keep

(* A launcher cannot be masked, or not be stopped, or cannot be seen to be: the      *)
(* quarantine breaks off, with the launchers after it as they were.  What was to    *)
(* come behind it does not come; the last quarantine of an operation is reported as *)
(* unverified.                                                                    *)
GivesUp(l) ==
  CASE l \in {"i.boundary", "i.boundary2"}            -> "i.compensate"
    [] l = "s.boundary"                               -> "s.abandon"
    [] l \in {"i.reaudit", "r.packages", "r.unload"}   -> "r.failed"
    [] l \in {"r.boundary", "r.reboot", "r.unverified", "s.failed"} -> "unquarantined"

QuarantineFails ==
  \/ At("mask") /\ Fails({host, UnitMasked(host, StopOrder[run.i])}, GivesUp(run.next))
  \/ At("stop") /\ Fails({host, UnitStopped(host, StopOrder[run.i])}, GivesUp(run.next))

(* A release that fails has let go of some of the launchers.                        *)
PartlyReleased(units) ==
  {[host EXCEPT !.units = [u \in Launchers |-> IF u \in s THEN units[u] ELSE @[u]]] :
     s \in SUBSET Launchers}
=============================================================================
