------------------------- MODULE HostTransactionProofs -------------------------
(******************************************************************************)
(* Proofs about HostTransaction.tla for any launchers, machines, desired      *)
(* states and number of faults: IInv is an invariant of Spec, and the safety  *)
(* properties follow from it.  IInv says, statement by statement, what the    *)
(* program may rely on when it comes there: which audit it holds, whether the *)
(* launchers are quarantined, what of the machine is already as it should be. *)
(******************************************************************************)
EXTENDS HostTransaction, TLAPS

-----------------------------------------------------------------------------
(* The statements. *)

PlanLabels    == {"i.plan", "i.snapshot", "s.plan"}
InstallLabels == {"i.boundary", "i.lock", "i.packages", "i.boundary2", "i.teardown", "i.dci",
                  "i.dgi", "i.unload", "i.load", "i.reconcile", "i.mdci", "i.mdgi", "i.mode",
                  "i.create", "i.docker", "i.verify", "i.release", "i.container",
                  "i.compensate", "i.reaudit"}
SettleLabels  == {"s.boundary", "s.policy", "s.unload", "s.load", "s.core", "s.release",
                  "s.services", "s.abandon", "s.failed"}
RestoreLabels == {"r.boundary", "r.check", "r.packages", "r.docker", "r.policy",
                  "r.policy.failing", "r.unload", "r.load", "r.mig", "r.dci", "r.dgi", "r.mode",
                  "r.create", "r.verify", "r.release", "r.unreleased", "r.failed", "r.unverified",
                  "r.reboot", "unquarantined"}
WorkLabels    == PlanLabels \cup InstallLabels \cup SettleLabels \cup RestoreLabels
Labels        == WorkLabels \cup {"idle", "mask", "stop"}

(* Where a quarantine may go on. *)
FenceLabels == {"i.boundary", "i.boundary2", "i.reaudit", "s.boundary", "s.failed", "r.boundary",
                "r.packages", "r.unload", "r.reboot", "r.unverified"}

(* Where nothing promises that the launchers are down: before the quarantine, *)
(* after package scripts, after a release and after a quarantine that failed. *)
OpenLabels == PlanLabels \cup {"i.container", "i.compensate", "s.core", "s.services", "s.abandon",
                               "r.docker", "r.policy", "r.policy.failing", "r.unreleased",
                               "r.failed", "unquarantined"}
BehindLabels == WorkLabels \ OpenLabels

(* Where the program is, or goes on after the quarantine it is making. *)
Fencing == run.at \in {"mask", "stop"}
Place   == IF Fencing THEN run.next ELSE run.at

-----------------------------------------------------------------------------
(* The invariant. *)

Audits == [host : Hosts \cup {[packages |-> {}]}, gpus : BOOLEAN]
Runs   == [cmd : Commands \cup {"none", "rollback"}, at : Labels, next : Labels,
           i : DOMAIN StopOrder, audit : Audits, disturbed : BOOLEAN]
Typed  == /\ host \in Hosts /\ base \in [taken : BOOLEAN, host : Hosts]
          /\ want \in Desires /\ run \in Runs
          /\ outcome \in Outcomes /\ faults \in 0..MaxFaults

(* No partition without MIG mode and a driver; a snapshot is of a settled GPU. *)
Consistent == /\ Coherent(host) /\ Coherent(base.host)
              /\ base.taken => base.host.mig.pending = base.host.mig.mode

(* Which command comes where, and that a snapshot lies under every change. *)
InPlace == /\ run.cmd = "none" <=> run.at = "idle"
           /\ run.at \notin PlanLabels \cup {"idle"} => base.taken
           /\ Fencing => run.next \in FenceLabels
           /\ run.cmd = "install" => Place \notin SettleLabels
           /\ run.cmd = "lock" => Place \notin {"s.unload", "s.load"}

(* The launchers a quarantine has come past are down. *)
Down(u)   == ~ host.units[u].active /\ host.units[u].file = "masked"
Quarantining ==
  Fencing => /\ \A j \in DOMAIN StopOrder : j < run.i => Down(StopOrder[j])
             /\ At("stop") => host.units[StopOrder[run.i]].file = "masked"
Behind == run.at \in BehindLabels => Quarantined(host)

(* The audit that decides stays the one of this machine, or of the snapshot. *)
PlannedLabels == {"i.lock", "i.packages", "i.boundary2", "i.teardown", "i.dci", "i.dgi", "i.unload",
                  "i.load", "i.reconcile", "i.mdci", "i.mdgi", "i.mode", "i.create"}
Observed(h, k) == /\ h \in Hosts /\ h.packages = k.packages /\ h.loaded = k.loaded
                  /\ h.mig.mode = k.mig.mode /\ h.mig.parts = k.mig.parts
Audited == /\ At("i.snapshot") => Observed(run.audit.host, host)
           /\ At("i.lock") => run.audit.host = host
           /\ Place \in {"r.check", "r.packages"} => Observed(run.audit.host, host)
           /\ Place \in PlannedLabels => /\ run.audit.host \in Hosts
                                         /\ Core(run.audit.host) = Core(base.host)

(* A partition is changed only in MIG mode under a loaded driver. *)
Partitioning ==
  /\ run.at \in {"i.dci", "i.dgi", "i.mdci", "i.mdgi", "i.create", "r.dci", "r.dgi"} =>
       host.loaded.names # {} /\ host.mig.mode = "enabled"
  /\ At("r.create") => host.loaded.names # {} /\ host.mig.mode = base.host.mig.mode

(* What is already as it should be. *)
Verified == OnDisk(host) = "new" /\ host.loaded.build = "new" /\ host.mig = DesiredMig
Locked   == Place \in InstallLabels \ {"i.boundary", "i.lock", "i.compensate", "i.reaudit"}
Converging ==
  /\ Locked => ~ PolicyDrifts(host)
  /\ run.at \in {"i.release", "i.container"} => Verified
  /\ At("i.container") => host.units["docker"].active
Settling ==
  /\ run.at \in SettleLabels \ {"s.boundary", "s.abandon", "s.failed"} =>
       /\ host.packages = base.host.packages
       /\ run.cmd = "lock" => host.mig = base.host.mig
  /\ run.at \in {"s.release", "s.services"} => host.mig \in {base.host.mig, DesiredMig}
  /\ At("s.services") => host.units = base.host.units
Restoring == At("r.release") => Core(host) = Core(base.host)

Told == RestoredIsBaseline /\ ConvergedIsDesired /\ SettledKeepsBaseline /\ FailureQuarantined

Reached == Behind /\ Audited /\ Partitioning /\ Converging /\ Settling /\ Restoring
IInv == Typed /\ Consistent /\ InPlace /\ Quarantining /\ Reached /\ Told

-----------------------------------------------------------------------------
(* The commands: the machine each leaves, and what it does not touch. *)

(* A machine is its five parts. *)
LEMMA Parts ==
  ASSUME NEW h \in Hosts
  PROVE  /\ h.packages \in PackageSets
         /\ h.files \in [{"docker", "policy"} -> Contents]
         /\ h.loaded \in [build : Builds, names : SUBSET Modules]
         /\ h.mig \in [mode : Modes, pending : Modes, parts : Layouts]
         /\ h.units \in [Launchers -> UnitStates]
  BY DEF Hosts

(* The build on disk is the driver package there is, if any. *)
LEMMA OnDiskFacts ==
  ASSUME NEW h \in Hosts
  PROVE  /\ OnDisk(h) \in Builds
         /\ OnDisk(h) = "new" /\ Toolkit \in h.packages => h.packages = DesiredPackages
  BY DEF Hosts, PackageSets, Identities, Driver, Toolkit, OnDisk, Builds, DesiredPackages

(* The launchers in the order in which they are quarantined. *)
LEMMA OrderFacts ==
  /\ StopOrder \in Seq(STRING) /\ 1 \in DOMAIN StopOrder
  /\ DOMAIN StopOrder = 1..Len(StopOrder) /\ Len(StopOrder) \in Nat
  /\ \A j \in DOMAIN StopOrder : StopOrder[j] \in Launchers
  /\ \A u \in Launchers : \E j \in DOMAIN StopOrder : u = StopOrder[j]
  /\ "docker" \in Launchers
  BY HostAssumption DEF Launchers

(* Masking and stopping a launcher change that launcher only. *)
LEMMA QuarantineFacts ==
  ASSUME NEW h \in Hosts, NEW u \in Launchers, NEW k,
         k = UnitMasked(h, u) \/ k = UnitStopped(h, u)
  PROVE  /\ k \in Hosts /\ Core(k) = Core(h)
         /\ \A v \in Launchers : v # u => k.units[v] = h.units[v]
         /\ k = UnitMasked(h, u) => /\ k.units[u].file = "masked"
                                    /\ k.units[u].active = h.units[u].active
         /\ k = UnitStopped(h, u) => /\ ~ k.units[u].active
                                     /\ k.units[u].file = h.units[u].file
<1>1. h.units \in [Launchers -> UnitStates] BY Parts
<1>2. k \in Hosts
  <2>1. [h.units[u] EXCEPT !.file = "masked"] \in UnitStates
        /\ [h.units[u] EXCEPT !.active = FALSE] \in UnitStates
    BY <1>1 DEF UnitStates
  <2>2. \A t \in UnitStates : [h.units EXCEPT ![u] = t] \in [Launchers -> UnitStates]
    BY <1>1
  <2>3. k = [h EXCEPT !.units = [h.units EXCEPT ![u] = [h.units[u] EXCEPT !.file = "masked"]]]
        \/ k = [h EXCEPT !.units = [h.units EXCEPT ![u] = [h.units[u] EXCEPT !.active = FALSE]]]
    BY DEF UnitMasked, UnitStopped
  <2>4. \A t \in [Launchers -> UnitStates] : [h EXCEPT !.units = t] \in Hosts
    BY DEF Hosts
  <2> QED BY <2>1, <2>2, <2>3, <2>4
<1>3. Core(k) = Core(h)
  BY DEF UnitMasked, UnitStopped, Hosts, Core
<1>4. k.units = [h.units EXCEPT ![u].file = "masked"]
      \/ k.units = [h.units EXCEPT ![u].active = FALSE]
  BY DEF UnitMasked, UnitStopped, Hosts
<1>5. \A v \in Launchers : v # u => k.units[v] = h.units[v]
  BY <1>1, <1>4
<1>6. k = UnitMasked(h, u) => k.units[u] = [h.units[u] EXCEPT !.file = "masked"]
  BY <1>1 DEF UnitMasked, Hosts
<1>7. k = UnitStopped(h, u) => k.units[u] = [h.units[u] EXCEPT !.active = FALSE]
  BY <1>1 DEF UnitStopped, Hosts
<1>8. h.units[u] \in UnitStates BY <1>1
<1> QED BY <1>2, <1>3, <1>5, <1>6, <1>7, <1>8 DEF UnitStates

(* Package scripts touch Docker's configuration and one launcher at most. *)
LEMMA ScriptedFacts ==
  ASSUME NEW h \in Hosts, NEW k \in Scripted(h)
  PROVE  /\ k \in Hosts /\ k.packages = h.packages /\ k.loaded = h.loaded /\ k.mig = h.mig
         /\ k.files["policy"] = h.files["policy"]
<1>1. CASE k = h BY <1>1
<1>2. CASE k = [h EXCEPT !.files["docker"] = "script"]
  BY <1>2 DEF Hosts, Contents
<1>3. CASE \E u \in Launchers :
             k = [h EXCEPT !.units[u] = [active |-> TRUE, file |-> "enabled"]]
  <2>1. PICK u \in Launchers : k = [h EXCEPT !.units[u] = [active |-> TRUE, file |-> "enabled"]]
    BY <1>3
  <2>2. [h.units EXCEPT ![u] = [active |-> TRUE, file |-> "enabled"]] \in [Launchers -> UnitStates]
    BY Parts DEF UnitStates
  <2> QED BY <2>1, <2>2 DEF Hosts
<1> QED BY <1>1, <1>2, <1>3 DEF Scripted

(* A package transaction changes the packages. *)
LEMMA ExchangedFacts ==
  ASSUME NEW h \in Hosts, NEW goal \in PackageSets
  PROVE  /\ Exchanged(h, goal) \in Hosts
         /\ Exchanged(h, goal).packages = goal
         /\ Exchanged(h, goal).files = h.files /\ Exchanged(h, goal).loaded = h.loaded
         /\ Exchanged(h, goal).mig = h.mig
  BY DEF Exchanged, Hosts

(* So does one that fails part-way, and the scripts that ran. *)
LEMMA PartlyFacts ==
  ASSUME NEW h \in Hosts, NEW goal, NEW k \in UNION {Scripted(g) : g \in Partly(h, goal)}
  PROVE  /\ k \in Hosts /\ k.loaded = h.loaded /\ k.mig = h.mig
         /\ k.files["policy"] = h.files["policy"]
<1>1. PICK g \in Partly(h, goal) : k \in Scripted(g) OBVIOUS
<1>2. PICK p \in PackageSets : g = Exchanged(h, p) BY DEF Partly
<1> QED BY <1>1, <1>2, ScriptedFacts, ExchangedFacts

(* The target of a restore never holds both drivers. *)
LEMMA GoalFacts ==
  ASSUME NEW h \in Hosts, base.host \in Hosts
  PROVE  Goal(h) \in PackageSets
<1>1. h.packages \in PackageSets /\ base.host.packages \in PackageSets BY Parts
<1>2. Missing(h) \in PackageSets BY <1>1 DEF Missing, PackageSets
<1>3. Added(h) \subseteq h.packages BY DEF Added
<1>4. Goal(h) \subseteq Identities BY <1>1, <1>2, <1>3 DEF Goal, PackageSets
<1>5. ~ {Driver("old"), Driver("new")} \subseteq Goal(h)
  <2> SUFFICES ASSUME Driver("old") \in Goal(h), Driver("new") \in Goal(h) PROVE FALSE
    OBVIOUS
  <2>1. Driver("old").slot = "driver" /\ Driver("new").slot = "driver" BY DEF Driver
  <2>2. CASE Driver("old") \in Missing(h) BY <1>2, <2>1, <2>2 DEF Goal, Slots, PackageSets
  <2>3. CASE Driver("new") \in Missing(h) BY <1>2, <2>1, <2>3 DEF Goal, Slots, PackageSets
  <2> QED BY <1>1, <2>2, <2>3 DEF Goal, PackageSets
<1> QED BY <1>4, <1>5 DEF PackageSets

(* A managed file is written alone. *)
LEMMA FileFacts ==
  ASSUME NEW h \in Hosts, NEW f \in {"docker", "policy"}, NEW c \in Contents,
         NEW k, k = [h EXCEPT !.files[f] = c]
  PROVE  /\ k \in Hosts /\ k.packages = h.packages /\ k.loaded = h.loaded /\ k.mig = h.mig
         /\ k.units = h.units
         /\ k.files = [h.files EXCEPT ![f] = c]
  BY DEF Hosts

(* The modules come and go; packages, files and launchers stay. *)
SameBut(h, k) == k.packages = h.packages /\ k.files = h.files /\ k.units = h.units

LEMMA GoneFacts ==
  ASSUME NEW h \in Hosts
  PROVE  ModulesGone(h) \in Hosts /\ SameBut(h, ModulesGone(h)) /\ Coherent(ModulesGone(h))
<1>1. /\ ModulesGone(h).mig = [h.mig EXCEPT !.parts = "none"]
      /\ ModulesGone(h).loaded = Unloaded
      /\ SameBut(h, ModulesGone(h))
  BY DEF ModulesGone, Hosts, SameBut
<1>2. ModulesGone(h) \in Hosts
  BY DEF ModulesGone, Unloaded, Hosts, Builds, Layouts
<1> QED BY <1>1, <1>2, Parts DEF Coherent

LEMMA RemainsFacts ==
  ASSUME host \in Hosts, Coherent(host), NEW k \in Remains
  PROVE  k \in Hosts /\ SameBut(host, k) /\ Coherent(k)
<1>1. PICK n \in {host.loaded.names, {"nvidia"}} : k = [host EXCEPT !.loaded.names = n]
  BY DEF Remains
<1>2. n \in SUBSET Modules BY Parts DEF Modules
<1>3. k \in Hosts /\ SameBut(host, k) /\ k.mig = host.mig /\ k.loaded.names = n
  BY <1>1, <1>2 DEF Hosts, SameBut
<1> QED BY <1>1, <1>3 DEF Coherent

LEMMA LoadedFacts ==
  ASSUME NEW h \in Hosts, Coherent(h), NEW m \in Modules, NEW k \in ModuleLoaded(h, m)
  PROVE  k \in Hosts /\ SameBut(h, k) /\ Coherent(k) /\ k.loaded.names # {}
<1>1. CASE h.loaded.names # {}
  <2>1. k = [h EXCEPT !.loaded.names = @ \cup {m}] BY <1>1 DEF ModuleLoaded
  <2>2. h.loaded.names \cup {m} \in SUBSET Modules BY Parts
  <2>3. k \in Hosts BY <2>1, <2>2 DEF Hosts
  <2>4. SameBut(h, k) /\ k.mig = h.mig /\ k.loaded.names = h.loaded.names \cup {m}
    BY <2>1 DEF Hosts, SameBut
  <2> QED BY <1>1, <2>3, <2>4 DEF Coherent
<1>2. CASE h.loaded.names = {}
  <2> DEFINE new == [h EXCEPT !.loaded = [build |-> OnDisk(h), names |-> {m}]]
  <2>1. PICK v \in {"disabled", h.mig.pending} :
          k = [new EXCEPT !.mig.mode = v, !.mig.pending = v]
    BY <1>2 DEF ModuleLoaded
  <2>2. new \in Hosts /\ SameBut(h, new) /\ new.mig = h.mig /\ new.loaded.names = {m}
    BY OnDiskFacts DEF Hosts, SameBut
  <2>3. v \in Modes BY Parts DEF Modes
  <2> HIDE DEF new
  <2>4. k \in Hosts BY <2>1, <2>2, <2>3 DEF Hosts
  <2>5. SameBut(new, k) /\ k.mig.parts = new.mig.parts /\ k.loaded = new.loaded
    BY <2>1, <2>2 DEF Hosts, SameBut
  <2> QED BY <1>2, <2>2, <2>4, <2>5 DEF Coherent, SameBut
<1> QED BY <1>1, <1>2

(* MIG changes; everything else stays. *)
AllBut(h, k) == SameBut(h, k) /\ k.loaded = h.loaded

LEMMA ModeSetFacts ==
  ASSUME NEW h \in Hosts, Coherent(h), NEW v \in Modes, NEW k \in ModeSet(h, v)
  PROVE  /\ k \in Hosts /\ AllBut(h, k) /\ Coherent(k)
         /\ k.mig.pending = v
<1>1. CASE k = [h EXCEPT !.mig.pending = v]
  <2>1. k \in Hosts /\ AllBut(h, k) /\ k.mig = [h.mig EXCEPT !.pending = v]
    BY <1>1 DEF Hosts, AllBut, SameBut
  <2> QED BY <2>1, Parts DEF Coherent, AllBut
<1>2. CASE k = [h EXCEPT !.mig = [mode |-> v, pending |-> v,
                                  parts |-> IF h.mig.mode = v THEN h.mig.parts ELSE "none"]]
  <2>1. k \in Hosts BY <1>2, Parts DEF Hosts, Layouts
  <2>2. AllBut(h, k) BY <1>2 DEF Hosts, AllBut, SameBut
  <2>3. k.mig = [mode |-> v, pending |-> v,
                 parts |-> IF h.mig.mode = v THEN h.mig.parts ELSE "none"]
    BY <1>2 DEF Hosts
  <2> QED BY <2>1, <2>2, <2>3 DEF Coherent, AllBut
<1> QED BY <1>1, <1>2 DEF ModeSet

LEMMA PartitionFacts ==
  ASSUME NEW h \in Hosts, Coherent(h), NEW p \in Layouts, NEW k, k = Partitioned(h, p),
         p = "none" \/ (h.mig.mode = "enabled" /\ h.loaded.names # {})
  PROVE  /\ k \in Hosts /\ AllBut(h, k) /\ Coherent(k)
         /\ k.mig.mode = h.mig.mode /\ k.mig.pending = h.mig.pending /\ k.mig.parts = p
<1>1. k \in Hosts /\ AllBut(h, k) /\ k.mig = [h.mig EXCEPT !.parts = p]
  BY DEF Partitioned, Hosts, AllBut, SameBut
<1> QED BY <1>1, Parts DEF Coherent, AllBut

LEMMA DestroyedFacts ==
  ASSUME NEW h
  PROVE  /\ ComputeDestroyed(h) = Partitioned(h, "gi") /\ GpuDestroyed(h) = Partitioned(h, "none")
         /\ {"gi", "none", "full"} \subseteq Layouts
  BY DEF ComputeDestroyed, GpuDestroyed, Partitioned, Layouts

(* The launchers are released or stopped; the core stays. *)
LEMMA UnitFacts ==
  ASSUME NEW h \in Hosts, NEW s \in [Launchers -> UnitStates], NEW k, k = [h EXCEPT !.units = s]
  PROVE  k \in Hosts /\ Core(k) = Core(h) /\ k.units = s
  BY DEF Hosts, Core

LEMMA CoreFacts ==
  ASSUME NEW h, NEW k, Core(k) = Core(h)
  PROVE  /\ k.packages = h.packages /\ k.files = h.files /\ k.loaded = h.loaded /\ k.mig = h.mig
         /\ OnDisk(k) = OnDisk(h) /\ Coherent(k) <=> Coherent(h)
         /\ PolicyDrifts(k) <=> PolicyDrifts(h)
<1>1. k.packages = h.packages /\ k.files = h.files /\ k.loaded = h.loaded /\ k.mig = h.mig
  BY DEF Core
<1> QED BY <1>1 DEF OnDisk, Coherent, PolicyDrifts

LEMMA RequiescedFacts ==
  ASSUME host \in Hosts, NEW k \in Requiesced(host)
  PROVE  k \in Hosts /\ Core(k) = Core(host) /\ (Quarantined(host) => Quarantined(k))
<1>1. PICK t \in SUBSET Trusted :
        k = [host EXCEPT !.units = [u \in Launchers |->
               IF u \in t THEN [host.units[u] EXCEPT !.active = FALSE] ELSE host.units[u]]]
  BY DEF Requiesced
<1> DEFINE s == [u \in Launchers |->
                   IF u \in t THEN [host.units[u] EXCEPT !.active = FALSE] ELSE host.units[u]]
<1>2. s \in [Launchers -> UnitStates]
  <2>1. \A v \in UnitStates : [v EXCEPT !.active = FALSE] \in UnitStates
    BY DEF UnitStates
  <2>2. host.units \in [Launchers -> UnitStates] BY Parts
  <2> QED BY <2>1, <2>2
<1>3. Quarantined(host) => \A u \in Launchers : ~ s[u].active /\ s[u].file = "masked"
  BY Parts DEF Quarantined, UnitStates
<1>4. k = [host EXCEPT !.units = s] BY <1>1
<1> HIDE DEF s
<1> QED BY <1>2, <1>3, <1>4, UnitFacts DEF Quarantined

(* A release that breaks off changes launchers only. *)
LEMMA ReleasedFacts ==
  ASSUME host \in Hosts, NEW units \in [Launchers -> UnitStates], NEW k \in PartlyReleased(units)
  PROVE  k \in Hosts /\ Core(k) = Core(host)
<1>1. PICK t \in SUBSET Launchers :
        k = [host EXCEPT !.units = [u \in Launchers |->
               IF u \in t THEN units[u] ELSE host.units[u]]]
  BY DEF PartlyReleased
<1> DEFINE s == [u \in Launchers |-> IF u \in t THEN units[u] ELSE host.units[u]]
<1>2. s \in [Launchers -> UnitStates] BY Parts
<1>3. k = [host EXCEPT !.units = s] BY <1>1
<1> HIDE DEF s
<1> QED BY <1>2, <1>3, UnitFacts

(* After a boot the launchers that were masked are down. *)
LEMMA BootedFacts ==
  ASSUME NEW h \in Hosts
  PROVE  /\ Booted(h) \in Hosts /\ Coherent(Booted(h))
         /\ Quarantined(h) => Quarantined(Booted(h))
<1> DEFINE l == IF OnDisk(h) = "none" THEN Unloaded ELSE [build |-> OnDisk(h), names |-> BootModules]
           m == [mode |-> h.mig.pending, pending |-> h.mig.pending, parts |-> "none"]
           s == [u \in Launchers |-> [active |-> h.units[u].file = "enabled", file |-> h.units[u].file]]
<1>1. l \in [build : Builds, names : SUBSET Modules]
  BY OnDiskFacts, HostAssumption DEF Unloaded, Builds, Modules
<1>2. m \in [mode : Modes, pending : Modes, parts : Layouts]
  BY Parts DEF Layouts
<1>3. s \in [Launchers -> UnitStates] BY Parts DEF UnitStates
<1>4. Booted(h) = [h EXCEPT !.loaded = l, !.mig = m, !.units = s]
  BY DEF Booted
<1>5. Quarantined(h) => \A u \in Launchers : ~ s[u].active /\ s[u].file = "masked"
  BY DEF Quarantined
<1>6. m.parts = "none" OBVIOUS
<1> HIDE DEF l, m, s
<1>7. Booted(h) \in Hosts /\ Booted(h).mig = m /\ Booted(h).units = s
  BY <1>1, <1>2, <1>3, <1>4 DEF Hosts
<1> QED BY <1>5, <1>6, <1>7 DEF Coherent, Quarantined

-----------------------------------------------------------------------------
(* The shapes of a step. *)

(* Where nothing is promised, and where no more than the quarantine is. *)
FreeLabels  == {"i.compensate", "s.abandon", "r.docker", "r.policy", "r.policy.failing",
                "r.unreleased", "r.failed", "unquarantined"}
GuardLabels == {"i.boundary", "i.reaudit", "s.boundary", "s.failed", "r.boundary", "r.unload",
                "r.load", "r.mig", "r.mode", "r.verify", "r.unverified", "r.reboot"}

LEMMA LabelFacts ==
  /\ FreeLabels \cup GuardLabels \subseteq WorkLabels \ PlanLabels
  /\ FreeLabels \cap BehindLabels = {}
  /\ \A l \in WorkLabels : l \notin {"idle", "mask", "stop"}
  /\ FenceLabels \subseteq BehindLabels
  /\ FenceLabels \subseteq GuardLabels \cup {"i.boundary2", "r.packages"}
  /\ PlanLabels \cap FenceLabels = {}
  BY DEF FreeLabels, GuardLabels, WorkLabels, PlanLabels, InstallLabels, SettleLabels,
         RestoreLabels, BehindLabels, OpenLabels, FenceLabels

LEMMA Arrives ==
  ASSUME run'.at \in FreeLabels \cup GuardLabels,
         run'.at \in GuardLabels => Quarantined(host')
  PROVE  Reached'
<1>1. run'.at \notin {"mask", "stop"} BY DEF FreeLabels, GuardLabels
<1>2. Place' = run'.at BY <1>1 DEF Place, Fencing
<1>3. Behind' BY LabelFacts DEF Behind, Quarantined
<1>4. Audited' /\ Partitioning'
  BY <1>2 DEF Audited, Partitioning, At, PlannedLabels, FreeLabels, GuardLabels
<1>5. Converging' /\ Settling' /\ Restoring'
  BY <1>2 DEF Converging, Settling, Restoring, At, Locked, FreeLabels, GuardLabels,
              InstallLabels, SettleLabels
<1> QED BY <1>3, <1>4, <1>5 DEF Reached

LEMMA Advance ==
  ASSUME IInv, base.taken, run.at # "idle",
         run' \in Runs, run'.cmd = run.cmd, run'.at \in WorkLabels \ PlanLabels,
         run'.at \in SettleLabels => Place \in SettleLabels,
         run'.at \in {"s.unload", "s.load"} => run.cmd # "lock",
         host' \in Hosts, Coherent(host'), UNCHANGED <<base, want, outcome>>,
         faults' \in 0..MaxFaults, Reached'
  PROVE  IInv'
<1>1. run'.at \notin {"idle", "mask", "stop"} BY LabelFacts
<1>2. Place' = run'.at /\ ~ Fencing' BY <1>1 DEF Place, Fencing
<1>3. Typed' BY DEF IInv, Typed
<1>4. Consistent' BY DEF IInv, Consistent, Coherent
<1>5. InPlace'
  BY <1>1, <1>2 DEF IInv, InPlace
<1>6. Quarantining' BY <1>2 DEF Quarantining
<1>7. Told'
  BY DEF IInv, InPlace, Told, RestoredIsBaseline, ConvergedIsDesired, SettledKeepsBaseline,
         FailureQuarantined, Ended, Running
<1> QED BY <1>3, <1>4, <1>5, <1>6, <1>7 DEF IInv

LEMMA Quarantines ==
  ASSUME IInv, run.at # "idle", NEW l \in FenceLabels, Fence(l),
         l \in SettleLabels => run.cmd # "install",
         host' \in Hosts, Coherent(host'), base' \in [taken : BOOLEAN, host : Hosts],
         Coherent(base'.host), base'.taken, base'.host.mig.pending = base'.host.mig.mode,
         UNCHANGED <<want, outcome>>, faults' \in 0..MaxFaults,
         l \in {"r.packages", "i.boundary2"} => Audited' /\ Converging'
  PROVE  IInv'
<1>1. run' = [run EXCEPT !.at = "mask", !.next = l, !.i = 1] /\ run \in Runs
  BY DEF Fence, IInv, Typed
<1>2. /\ run'.at = "mask" /\ run'.next = l /\ run'.i = 1
      /\ run'.cmd = run.cmd /\ run'.audit = run.audit /\ run' \in Runs
  BY <1>1, OrderFacts, LabelFacts DEF Runs, Labels, BehindLabels
<1>3. Place' = l /\ Fencing' BY <1>2 DEF Place, Fencing
<1>4. Typed' BY <1>2 DEF IInv, Typed
<1>5. Consistent' BY DEF IInv, Consistent, Coherent
<1>6. InPlace'
  BY <1>2, <1>3 DEF IInv, InPlace, FenceLabels
<1>7. Quarantining' BY <1>2, OrderFacts DEF Quarantining, At
<1>8. Behind' /\ Partitioning' /\ Settling' /\ Restoring'
  BY <1>2, LabelFacts DEF Behind, BehindLabels, Partitioning, Settling, SettleLabels,
                          Restoring, At
<1>9. Audited' /\ Converging'
  <2>1. CASE l \in {"r.packages", "i.boundary2"} BY <2>1
  <2>2. CASE l \notin {"r.packages", "i.boundary2"}
    BY <1>2, <1>3, <2>2 DEF Audited, Converging, Locked, At, FenceLabels, PlannedLabels,
                            InstallLabels
  <2> QED BY <2>1, <2>2
<1>10. Told'
  BY <1>2 DEF IInv, InPlace, Told, RestoredIsBaseline, ConvergedIsDesired,
              SettledKeepsBaseline, FailureQuarantined, Ended, Running
<1> QED BY <1>4, <1>5, <1>6, <1>7, <1>8, <1>9, <1>10 DEF IInv, Reached

LEMMA Finishes ==
  ASSUME IInv, NEW how \in Outcomes, Ends(how),
         host' \in Hosts, Coherent(host'), base' = base, want' = want,
         faults' \in 0..MaxFaults, Told'
  PROVE  IInv'
<1>1. run' = Idle /\ outcome' = how BY DEF Ends
<1>2. /\ Idle.cmd = "none" /\ Idle.at = "idle" /\ Idle.next = "idle" /\ Idle.i = 1
      /\ Idle \in Runs
  BY OrderFacts DEF Idle, Runs, Labels, Audits, Audit
<1>3. Typed' BY <1>1, <1>2 DEF IInv, Typed
<1>4. Consistent' BY DEF IInv, Consistent, Coherent
<1>5. Place' = "idle" /\ ~ Fencing' BY <1>1, <1>2 DEF Place, Fencing
<1>6. InPlace' BY <1>1, <1>2, <1>5 DEF InPlace, SettleLabels
<1>7. Quarantining' BY <1>5 DEF Quarantining
<1>8. Reached'
  BY <1>1, <1>2, <1>5, LabelFacts
     DEF Reached, Behind, BehindLabels, Audited, PlannedLabels, Partitioning, Converging, Locked,
         InstallLabels, Settling, SettleLabels, Restoring, At
<1> QED BY <1>3, <1>4, <1>6, <1>7, <1>8 DEF IInv

LEMMA Goes ==
  ASSUME run \in Runs, NEW l \in Labels, Go(l) \/ run' = [run EXCEPT !.at = l, !.disturbed = TRUE]
  PROVE  /\ run' \in Runs /\ run'.at = l
         /\ run'.cmd = run.cmd /\ run'.next = run.next /\ run'.i = run.i /\ run'.audit = run.audit
  BY DEF Go, Runs

(* What every step of a running operation finds. *)
LEMMA Found ==
  ASSUME IInv, run.at \in WorkLabels \ PlanLabels
  PROVE  /\ host \in Hosts /\ Coherent(host) /\ run \in Runs /\ faults \in 0..MaxFaults
         /\ base.taken /\ base.host \in Hosts /\ Coherent(base.host)
         /\ base \in [taken : BOOLEAN, host : Hosts]
         /\ base.host.mig.pending = base.host.mig.mode
         /\ run.at # "idle" /\ run.cmd # "none" /\ Place = run.at /\ ~ Fencing
         /\ run.cmd = "install" => run.at \notin SettleLabels
         /\ run.at \in BehindLabels => Quarantined(host)
<1>1. run.at \notin {"idle", "mask", "stop"} BY LabelFacts
<1> QED BY <1>1 DEF IInv, Typed, Consistent, InPlace, Place, Fencing, Reached, Behind

LEMMA FailsSound ==
  ASSUME IInv, run.at \in WorkLabels \ PlanLabels, NEW hosts, NEW l \in FreeLabels,
         l \in SettleLabels => run.at \in SettleLabels,
         Fails(hosts, l), \A h \in hosts : h \in Hosts /\ Coherent(h)
  PROVE  IInv'
<1>1. run' \in Runs /\ run'.at = l /\ run'.cmd = run.cmd
  BY Goes, LabelFacts, Found DEF Fails, Labels
<1>2. faults' \in 0..MaxFaults
  BY Found, HostAssumption DEF Fails
<1>3. Reached' BY <1>1, Arrives, LabelFacts DEF BehindLabels, GuardLabels, FreeLabels
<1>4. l \notin {"s.unload", "s.load"} BY DEF FreeLabels
<1> QED BY <1>1, <1>2, <1>3, <1>4, Advance, Found, LabelFacts DEF Fails, Keep

(* A step within the quarantine, or to a statement without promises. *)
LEMMA GuardedSound ==
  ASSUME IInv, run.at \in WorkLabels \ PlanLabels, NEW l \in FreeLabels \cup GuardLabels,
         l \in SettleLabels => run.at \in SettleLabels,
         Go(l), host' \in Hosts, Coherent(host'), l \in GuardLabels => Quarantined(host'),
         UNCHANGED <<base, want, outcome, faults>>
  PROVE  IInv'
<1>1. run' \in Runs /\ run'.at = l /\ run'.cmd = run.cmd
  BY Goes, LabelFacts, Found DEF Labels
<1>2. Reached' BY <1>1, Arrives
<1>3. l \notin {"s.unload", "s.load"} BY DEF FreeLabels, GuardLabels
<1> QED BY <1>1, <1>2, <1>3, Advance, Found, LabelFacts

(* A quarantine without a plan to keep. *)
LEMMA FenceSound ==
  ASSUME IInv, run.at \in WorkLabels \ PlanLabels, NEW l \in FenceLabels \cap GuardLabels,
         l \in SettleLabels => run.at \in SettleLabels,
         Fence(l), host' \in Hosts, Coherent(host'), UNCHANGED <<base, want, outcome, faults>>
  PROVE  IInv'
<1>1. l \notin {"r.packages", "i.boundary2"} BY DEF GuardLabels
<1> QED BY <1>1, Found, Quarantines

-----------------------------------------------------------------------------
(* Every step keeps the invariant: the quarantine. *)

LEMMA FencingFacts ==
  ASSUME IInv, Fencing
  PROVE  /\ host \in Hosts /\ Coherent(host) /\ run \in Runs /\ faults \in 0..MaxFaults
         /\ base.taken /\ run.next \in FenceLabels /\ Place = run.next /\ run.cmd # "none"
         /\ run.i \in DOMAIN StopOrder /\ StopOrder[run.i] \in Launchers
BY LabelFacts, OrderFacts DEF IInv, Typed, Consistent, InPlace, Place, Fencing, Runs, PlanLabels

LEMMA MaskLauncherStep == ASSUME IInv, MaskLauncher PROVE IInv'
<1> DEFINE u == StopOrder[run.i]
<1>1. Fencing BY DEF MaskLauncher, Fencing, At
<1>2. /\ run' \in Runs /\ run'.at = "stop" /\ run'.cmd = run.cmd /\ run'.next = run.next
      /\ run'.i = run.i /\ run'.audit = run.audit
  BY <1>1, Goes, FencingFacts DEF MaskLauncher, Labels
<1>3. /\ host' \in Hosts /\ Core(host') = Core(host)
      /\ \A v \in Launchers : v # u => host'.units[v] = host.units[v]
      /\ host'.units[u].file = "masked" /\ host'.units[u].active = host.units[u].active
  BY <1>1, FencingFacts, QuarantineFacts DEF MaskLauncher
<1>4. UNCHANGED <<base, want, outcome, faults>> BY DEF MaskLauncher, Keep
<1>5. Place' = Place /\ Fencing' BY <1>1, <1>2 DEF Place, Fencing
<1>6. Typed' BY <1>2, <1>3, <1>4 DEF IInv, Typed
<1>7. Consistent' BY <1>3, <1>4, CoreFacts DEF IInv, Consistent
<1>8. InPlace' BY <1>1, <1>2, <1>4, <1>5, FencingFacts DEF IInv, InPlace, PlanLabels
<1>9. Quarantining'
  <2>1. \A j \in DOMAIN StopOrder : j < run.i => Down(StopOrder[j])
    BY <1>1 DEF IInv, Quarantining
  <2>2. \A j \in DOMAIN StopOrder : j < run.i => Down(StopOrder[j])'
    BY <2>1, <1>3, OrderFacts DEF Down
  <2> QED BY <2>2, <1>2, <1>3 DEF Quarantining
<1>10. Behind' /\ Partitioning' /\ Settling' /\ Restoring'
  BY <1>2, LabelFacts DEF Behind, BehindLabels, Partitioning, Settling, SettleLabels,
                          Restoring, At
<1>11. Audited' /\ Converging'
  BY <1>1, <1>2, <1>3, <1>4, <1>5, CoreFacts, FencingFacts
     DEF IInv, Reached, Audited, Converging, Locked, At, Observed, FenceLabels, PolicyDrifts
<1>12. Told'
  BY <1>1, <1>2, FencingFacts DEF Told, RestoredIsBaseline, ConvergedIsDesired,
     SettledKeepsBaseline, FailureQuarantined, Ended, Running
<1> QED BY <1>6, <1>7, <1>8, <1>9, <1>10, <1>11, <1>12 DEF IInv, Reached

LEMMA StopLauncherStep == ASSUME IInv, StopLauncher PROVE IInv'
<1> DEFINE u == StopOrder[run.i]
<1>1. Fencing BY DEF StopLauncher, Fencing, At
<1>2. /\ run' \in Runs /\ run'.cmd = run.cmd /\ run'.next = run.next /\ run'.audit = run.audit
      /\ \/ run.i < Len(StopOrder) /\ run'.at = "mask" /\ run'.i = run.i + 1
         \/ run.i = Len(StopOrder) /\ run'.at = run.next /\ run'.i = run.i
  <2>1. run.i \in 1..Len(StopOrder) /\ run.next \in Labels /\ "mask" \in Labels
    BY <1>1, FencingFacts, OrderFacts, LabelFacts DEF Labels, BehindLabels
  <2>2. CASE run.i < Len(StopOrder)
    <3>1. run' = [run EXCEPT !.at = "mask", !.i = run.i + 1] BY <2>2 DEF StopLauncher
    <3>2. run.i + 1 \in DOMAIN StopOrder BY <2>1, <2>2, OrderFacts
    <3> QED BY <1>1, <2>1, <2>2, <3>1, <3>2, FencingFacts DEF Runs
  <2>3. CASE ~ run.i < Len(StopOrder)
    <3>1. run' = [run EXCEPT !.at = run.next] BY <2>3 DEF StopLauncher
    <3>2. run.i = Len(StopOrder) BY <2>1, <2>3, OrderFacts
    <3> QED BY <1>1, <2>1, <3>1, <3>2, FencingFacts DEF Runs
  <2> QED BY <2>2, <2>3
<1>3. /\ host' \in Hosts /\ Core(host') = Core(host)
      /\ \A v \in Launchers : v # u => host'.units[v] = host.units[v]
      /\ ~ host'.units[u].active /\ host'.units[u].file = host.units[u].file
  BY <1>1, FencingFacts, QuarantineFacts DEF StopLauncher
<1>4. UNCHANGED <<base, want, outcome, faults>> BY DEF StopLauncher, Keep
<1>5. Place' = Place BY <1>1, <1>2, FencingFacts DEF Place, Fencing
<1>6. Typed' BY <1>2, <1>3, <1>4 DEF IInv, Typed
<1>7. Consistent' BY <1>3, <1>4, CoreFacts DEF IInv, Consistent
<1>8. InPlace'
  BY <1>1, <1>2, <1>4, <1>5, FencingFacts, LabelFacts DEF IInv, InPlace, BehindLabels, Fencing
<1>9. \A j \in DOMAIN StopOrder : j <= run.i => Down(StopOrder[j])'
  <2>1. \A j \in DOMAIN StopOrder : j < run.i => Down(StopOrder[j])
    BY <1>1 DEF IInv, Quarantining
  <2>2. \A j \in DOMAIN StopOrder : j < run.i => Down(StopOrder[j])'
    BY <2>1, <1>3, OrderFacts DEF Down
  <2>3. host.units[u].file = "masked" BY <1>1 DEF IInv, Quarantining, StopLauncher
  <2>4. \A j \in DOMAIN StopOrder : j = run.i => Down(StopOrder[j])'
    BY <1>3, <2>3 DEF Down
  <2>5. \A j \in DOMAIN StopOrder : j <= run.i => j < run.i \/ j = run.i
    BY <1>1, FencingFacts, OrderFacts
  <2> QED BY <2>2, <2>4, <2>5
<1>10. CASE run.i < Len(StopOrder) /\ run'.at = "mask" /\ run'.i = run.i + 1
  <2>1. Quarantining' BY <1>9, <1>10, OrderFacts, FencingFacts, <1>1 DEF Quarantining, At
  <2>2. Behind' /\ Partitioning' /\ Settling' /\ Restoring'
    BY <1>10, LabelFacts DEF Behind, BehindLabels, Partitioning, Settling, SettleLabels,
                            Restoring, At
  <2>3. Audited' /\ Converging'
    BY <1>1, <1>2, <1>3, <1>4, <1>5, <1>10, CoreFacts, FencingFacts
       DEF IInv, Reached, Audited, Converging, Locked, At, Observed, FenceLabels, PolicyDrifts
  <2>4. Told'
    BY <1>1, <1>2, FencingFacts DEF Told, RestoredIsBaseline, ConvergedIsDesired,
       SettledKeepsBaseline, FailureQuarantined, Ended, Running
  <2> QED BY <1>6, <1>7, <1>8, <2>1, <2>2, <2>3, <2>4 DEF IInv, Reached
<1>11. CASE run.i = Len(StopOrder) /\ run'.at = run.next /\ run'.i = run.i
  <2>1. Quarantined(host')
    <3>1. \A v \in Launchers : Down(v)' BY <1>9, <1>11, OrderFacts
    <3> QED BY <3>1 DEF Down, Quarantined
  <2>2. Reached'
    <3>1. CASE run.next \in GuardLabels BY <3>1, <1>11, <2>1, Arrives
    <3>2. CASE run.next \in {"i.boundary2", "r.packages"}
      <4>1. Behind' BY <2>1 DEF Behind, Quarantined
      <4>2. Audited' /\ Converging'
        BY <1>1, <1>2, <1>3, <1>4, <1>5, <1>11, <3>2, CoreFacts, FencingFacts
           DEF IInv, Reached, Audited, Converging, Locked, At, Observed, PolicyDrifts
      <4>3. Partitioning' /\ Settling' /\ Restoring'
        BY <1>11, <3>2 DEF Partitioning, Settling, SettleLabels, Restoring, At
      <4> QED BY <4>1, <4>2, <4>3 DEF Reached
    <3> QED BY <3>1, <3>2, <1>1, FencingFacts, LabelFacts
  <2>3. run'.at \in WorkLabels \ PlanLabels
    BY <1>1, <1>11, FencingFacts, LabelFacts DEF BehindLabels
  <2>4. run.at # "idle" BY <1>1 DEF Fencing
  <2>5. faults' \in 0..MaxFaults /\ Coherent(host') BY <1>1, <1>4, <1>6, <1>7, FencingFacts DEF Typed, Consistent
  <2>6. run'.at \notin {"s.unload", "s.load"} BY <1>1, <1>11, FencingFacts DEF FenceLabels
  <2> QED BY <1>1, <1>2, <1>3, <1>4, <1>11, <2>2, <2>3, <2>4, <2>5, <2>6, FencingFacts, Advance
<1> QED BY <1>2, <1>10, <1>11

(* A quarantine that fails goes on where nothing is promised, in the operation it    *)
(* was made by.                                                                   *)
LEMMA GivesUpFacts ==
  ASSUME NEW l \in FenceLabels
  PROVE  /\ GivesUp(l) \in FreeLabels
         /\ GivesUp(l) \in SettleLabels => l \in SettleLabels
  BY DEF FenceLabels, GivesUp, FreeLabels, SettleLabels

LEMMA QuarantineFailsFacts ==
  ASSUME IInv, QuarantineFails
  PROVE  /\ Fencing /\ Core(host') = Core(host) /\ host' \in Hosts
         /\ faults < MaxFaults /\ faults' = faults + 1
         /\ run' = [run EXCEPT !.at = GivesUp(run.next), !.disturbed = TRUE]
         /\ UNCHANGED <<base, want, outcome>>
<1>1. Fencing BY DEF QuarantineFails, Fencing, At
<1> DEFINE u == StopOrder[run.i]
<1>2. host' \in {host, UnitMasked(host, u), UnitStopped(host, u)}
  BY DEF QuarantineFails, Fails
<1>3. /\ faults < MaxFaults /\ faults' = faults + 1
      /\ run' = [run EXCEPT !.at = GivesUp(run.next), !.disturbed = TRUE]
      /\ UNCHANGED <<base, want, outcome>>
  BY DEF QuarantineFails, Fails, Keep
<1>4. host \in Hosts /\ u \in Launchers BY <1>1, FencingFacts
<1> HIDE DEF u
<1>5. host' \in Hosts /\ Core(host') = Core(host)
  BY <1>2, <1>4, QuarantineFacts
<1> QED BY <1>1, <1>3, <1>5

LEMMA QuarantineFailsStep == ASSUME IInv, QuarantineFails PROVE IInv'
<1> DEFINE l == GivesUp(run.next)
<1>1. Fencing /\ host' \in Hosts /\ Core(host') = Core(host) /\ UNCHANGED <<base, want, outcome>>
  BY QuarantineFailsFacts
<1>2. run' = [run EXCEPT !.at = l, !.disturbed = TRUE] BY QuarantineFailsFacts
<1>3. faults' \in 0..MaxFaults
  BY <1>1, QuarantineFailsFacts, FencingFacts, HostAssumption
<1>4. /\ l \in FreeLabels /\ l \in WorkLabels \ PlanLabels /\ l \notin BehindLabels
      /\ l \in SettleLabels => Place \in SettleLabels
      /\ l \notin GuardLabels /\ l \notin {"s.unload", "s.load"}
  BY <1>1, FencingFacts, GivesUpFacts, LabelFacts DEF FreeLabels, GuardLabels
<1> HIDE DEF l
<1>5. run' \in Runs /\ run'.at = l /\ run'.cmd = run.cmd
  BY <1>1, <1>2, <1>4, FencingFacts, Goes DEF Labels
<1>6. Reached' BY <1>4, <1>5, Arrives
<1>7. Coherent(host') BY <1>1, FencingFacts, CoreFacts
<1>8. run.at # "idle" /\ base.taken BY <1>1, FencingFacts DEF Fencing
<1> QED BY <1>1, <1>3, <1>4, <1>5, <1>6, <1>7, <1>8, Advance

-----------------------------------------------------------------------------
(* Before the first change. *)

(* What a step before the snapshot finds. *)
LEMMA PlanFound ==
  ASSUME IInv, run.at \in PlanLabels \cup {"idle"}
  PROVE  /\ host \in Hosts /\ Coherent(host) /\ run \in Runs /\ faults \in 0..MaxFaults
         /\ base \in [taken : BOOLEAN, host : Hosts] /\ Coherent(base.host)
         /\ Place = run.at /\ ~ Fencing
         /\ At("i.snapshot") => Observed(run.audit.host, host)
  BY DEF IInv, Typed, Consistent, InPlace, Place, Fencing, Reached, Audited, PlanLabels

LEMMA AuditFacts ==
  ASSUME NEW h \in Hosts, NEW gpus \in Enumerations(h)
  PROVE  /\ Audit(h, gpus) \in Audits /\ Audit(h, gpus).host = h /\ Audit(h, gpus).gpus = gpus
         /\ gpus => h.loaded.names # {}
  BY DEF Enumerations, Audit, Audits

(* An operation that changed nothing ends without promises. *)
LEMMA EndsQuietly ==
  ASSUME IInv, NEW how \in Outcomes, Ends(how),
         how \in {"refused", "killed", "compensation-failed", "settle-unproved", "unquarantined"},
         host' \in Hosts, Coherent(host'), UNCHANGED <<base, want>>, faults' \in 0..MaxFaults
  PROVE  IInv'
<1>1. Told'
  BY DEF Ends, Told, RestoredIsBaseline, ConvergedIsDesired, SettledKeepsBaseline,
         FailureQuarantined, Ended
<1> QED BY <1>1, Finishes

(* From a plan to the next statement before the change. *)
LEMMA PlansOn ==
  ASSUME IInv, run.at \in PlanLabels, NEW a \in Audits, Observed(a.host, host),
         run' = [run EXCEPT !.at = "i.snapshot", !.audit = a],
         UNCHANGED <<host, base, want, outcome, faults>>
  PROVE  IInv'
<1>1. /\ run' \in Runs /\ run'.at = "i.snapshot" /\ run'.cmd = run.cmd /\ run'.audit = a
  BY PlanFound DEF Runs, Labels, WorkLabels, PlanLabels
<1>2. Place' = "i.snapshot" /\ ~ Fencing' BY <1>1 DEF Place, Fencing
<1>3. Typed' /\ Consistent' BY <1>1 DEF IInv, Typed, Consistent
<1>4. InPlace' BY <1>1, <1>2 DEF IInv, InPlace, PlanLabels, SettleLabels
<1>5. Quarantining' BY <1>2 DEF Quarantining
<1>6. Reached'
  BY <1>1, <1>2 DEF Reached, Behind, BehindLabels, OpenLabels, PlanLabels, Audited, PlannedLabels,
     Partitioning, Converging, Locked, InstallLabels, Settling, SettleLabels, Restoring, At
<1>7. Told'
  BY <1>1 DEF IInv, InPlace, PlanLabels, Told, RestoredIsBaseline, ConvergedIsDesired,
         SettledKeepsBaseline, FailureQuarantined, Ended, Running
<1> QED BY <1>3, <1>4, <1>5, <1>6, <1>7 DEF IInv

LEMMA PlanInstallStep == ASSUME IInv, PlanInstall PROVE IInv'
<1>1. run.at = "i.plan" /\ run.at \in PlanLabels BY DEF PlanInstall, At, PlanLabels
<1>2. PICK gpus \in Enumerations(host) :
        IF Supported(Audit(host, gpus))
        THEN run' = [run EXCEPT !.at = "i.snapshot", !.audit = Audit(host, gpus)] /\ UNCHANGED outcome
        ELSE Ends("refused")
  BY DEF PlanInstall
<1>3. UNCHANGED <<host, base, want, faults>> BY DEF PlanInstall
<1>4. CASE Ends("refused") BY <1>1, <1>3, <1>4, PlanFound, EndsQuietly DEF Outcomes
<1>5. CASE run' = [run EXCEPT !.at = "i.snapshot", !.audit = Audit(host, gpus)] /\ UNCHANGED outcome
  <2>1. Audit(host, gpus) \in Audits /\ Observed(Audit(host, gpus).host, host)
    BY <1>1, PlanFound, AuditFacts DEF Observed
  <2> QED BY <1>1, <1>3, <1>5, <2>1, PlansOn
<1> QED BY <1>2, <1>4, <1>5

LEMMA PlanSettleStep == ASSUME IInv, PlanSettle PROVE IInv'
<1>1. run.at = "s.plan" /\ run.at \in PlanLabels BY DEF PlanSettle, At, PlanLabels
<1>2. UNCHANGED <<host, base, want, faults>> BY DEF PlanSettle
<1>3. CASE Ends("refused") BY <1>1, <1>2, <1>3, PlanFound, EndsQuietly DEF Outcomes
<1>4. CASE ~ Ends("refused")
  <2>1. PICK gpus \in Enumerations(host) :
          run' = [run EXCEPT !.at = "i.snapshot", !.audit = Audit(host, gpus)] /\ UNCHANGED outcome
    BY <1>4 DEF PlanSettle
  <2>2. Audit(host, gpus) \in Audits /\ Observed(Audit(host, gpus).host, host)
    BY <1>1, PlanFound, AuditFacts DEF Observed
  <2> QED BY <1>1, <1>2, <2>1, <2>2, PlansOn
<1> QED BY <1>3, <1>4

(* verify_rollback without a failed check: the machine is the snapshot again. *)
LEMMA BaselineFacts ==
  ASSUME NEW h \in Hosts, Coherent(h), base.host \in Hosts, Coherent(base.host),
         base.host.mig.pending = base.host.mig.mode, NEW gpus,
         FailedChecks(Audit(h, gpus)) = {}
  PROVE  gpus /\ Core(h) = Core(base.host)
<1> DEFINE a == Audit(h, gpus)
<1>1. /\ a.gpus /\ ModuleMatches(h) /\ FilesMatch(h)
      /\ base.host.packages \subseteq h.packages /\ h.packages \subseteq base.host.packages
  BY DEF FailedChecks, Audit
<1>2. /\ h.mig.mode = base.host.mig.mode /\ h.mig.pending = base.host.mig.mode
      /\ Geometry(a) = BaseGeometry
  BY DEF FailedChecks, Audit
<1>3. gpus BY <1>1 DEF Audit
<1>4. h.mig.parts = base.host.mig.parts
  BY <1>2, <1>3, Parts DEF Geometry, BaseGeometry, GeometryComplete, Audit, Coherent, Modes
<1>5. h.mig = base.host.mig
  BY <1>2, <1>4, Parts
<1> QED BY <1>1, <1>3, <1>5 DEF Core, ModuleMatches, FilesMatch

(* The snapshot is the machine the plan was made for. *)
LEMMA SnapshotFacts ==
  ASSUME IInv, TakeSnapshot, Recordable(run.audit, MigDrifts(run.audit))
  PROVE  /\ base' \in [taken : BOOLEAN, host : Hosts] /\ base'.taken
         /\ Observed(host, base'.host)
         /\ base'.host.mig.pending = base'.host.mig.mode
<1> DEFINE b == run.audit.host
<1>1. run.at \in PlanLabels /\ Observed(b, host)
  BY PlanFound DEF TakeSnapshot, At, PlanLabels
<1>2. base' = [taken |-> TRUE, host |-> [b EXCEPT !.files = host.files,
                                                  !.loaded.names = host.loaded.names]]
  BY DEF TakeSnapshot
<1>3. b \in Hosts /\ b.packages = host.packages /\ b.loaded = host.loaded
      /\ b.mig.mode = host.mig.mode /\ b.mig.parts = host.mig.parts
  BY <1>1 DEF Observed
<1> HIDE DEF b
<1>4. host \in Hosts BY <1>1, PlanFound
<1>5. base'.host \in Hosts /\ base'.host.mig = b.mig /\ base'.host.loaded = host.loaded
      /\ base'.host.packages = b.packages
  <2>1. host.files \in [{"docker", "policy"} -> Contents] /\ host.loaded.names \in SUBSET Modules
    BY <1>4, Parts
  <2>2. base'.host = [b EXCEPT !.files = host.files, !.loaded = [b.loaded EXCEPT !.names = host.loaded.names]]
    BY <1>2
  <2>3. [b.loaded EXCEPT !.names = host.loaded.names] = host.loaded
    BY <1>3, <1>4, Parts
  <2>4. base'.host = [b EXCEPT !.files = host.files, !.loaded = host.loaded]
    BY <2>2, <2>3
  <2> QED BY <2>1, <2>4, <1>3, <1>4, Parts DEF Hosts
<1>6. base' \in [taken : BOOLEAN, host : Hosts] /\ base'.taken
  BY <1>2, <1>5
<1>7. base'.host.mig.pending = base'.host.mig.mode
  BY <1>5 DEF Recordable, GeometryComplete, b
<1> QED BY <1>3, <1>4, <1>5, <1>6, <1>7 DEF Observed

LEMMA TakeSnapshotStep == ASSUME IInv, TakeSnapshot PROVE IInv'
<1>1. /\ run.at = "i.snapshot" /\ run.at \in PlanLabels /\ run.at # "idle"
      /\ UNCHANGED <<host, want, faults>>
  BY DEF TakeSnapshot, At, PlanLabels
<1>2. CASE Ends("refused") /\ UNCHANGED base
  BY <1>1, <1>2, PlanFound, EndsQuietly DEF Outcomes
<1>3. CASE Recordable(run.audit, MigDrifts(run.audit))
  <2>1. /\ base' \in [taken : BOOLEAN, host : Hosts] /\ base'.taken
        /\ Observed(host, base'.host) /\ base'.host.mig.pending = base'.host.mig.mode
    BY <1>3, SnapshotFacts
  <2>2. host \in Hosts /\ Coherent(host) BY <1>1, PlanFound
  <2>3. Coherent(base'.host) BY <2>1, <2>2 DEF Coherent, Observed
  <2>4. PICK l \in {"i.boundary", "s.boundary"} :
          Fence(l) /\ (l = "s.boundary" => run.cmd # "install") /\ UNCHANGED outcome
    BY <1>3 DEF TakeSnapshot
  <2>5. l \in FenceLabels /\ l \notin {"r.packages", "i.boundary2"}
         /\ (l \in SettleLabels => run.cmd # "install")
    BY <2>4 DEF FenceLabels, SettleLabels
  <2> QED BY <1>1, <2>1, <2>2, <2>3, <2>4, <2>5, PlanFound, Quarantines
<1> QED BY <1>2, <1>3 DEF TakeSnapshot

(* Behind the quarantine the machine still is the snapshot, or the operation ends. *)
LEMMA PrePackageBoundaryStep == ASSUME IInv, PrePackageBoundary PROVE IInv'
<1>1. run.at = "i.boundary" /\ run.at \in WorkLabels \ PlanLabels
  BY DEF PrePackageBoundary, At, WorkLabels, PlanLabels, InstallLabels
<1>2. UNCHANGED <<host, base, want, outcome, faults>> BY DEF PrePackageBoundary
<1>3. PICK gpus \in Enumerations(host) :
        LET a == Audit(host, gpus) IN
          IF a.gpus /\ Quarantined(host) /\ BaselineStands(a) /\ Supported(a)
          THEN run' = [run EXCEPT !.at = "i.lock", !.audit = a]
          ELSE Fence("i.reaudit")
  BY DEF PrePackageBoundary
<1> DEFINE a == Audit(host, gpus)
<1>4. CASE Fence("i.reaudit")
  BY <1>1, <1>2, <1>4, Found, FenceSound DEF FenceLabels, GuardLabels, SettleLabels
<1>5. CASE /\ Quarantined(host) /\ BaselineStands(a)
           /\ run' = [run EXCEPT !.at = "i.lock", !.audit = a]
  <2>1. /\ run' \in Runs /\ run'.at = "i.lock" /\ run'.cmd = run.cmd /\ run'.audit = a
    BY <1>1, <1>5, Found, AuditFacts DEF Runs, Labels, WorkLabels, InstallLabels
  <2>2. a.host = host BY Found, AuditFacts, <1>1
  <2>3. Core(host) = Core(base.host)
    BY <1>1, <1>5, Found, BaselineFacts DEF BaselineStands
  <2>4. Place' = "i.lock" BY <2>1 DEF Place, Fencing
  <2>5. Audited'
    BY <1>1, <1>2, <2>1, <2>2, <2>3, <2>4, Found DEF Audited, At
  <2>6. Behind' BY <1>2, <1>5 DEF Behind, Quarantined
  <2>7. Partitioning' /\ Converging' /\ Settling' /\ Restoring'
    BY <2>1, <2>4 DEF Partitioning, Converging, Settling, Restoring, Locked, At, InstallLabels,
                      SettleLabels
  <2>8. Reached' BY <2>5, <2>6, <2>7 DEF Reached
  <2>9. run'.at \in WorkLabels \ PlanLabels /\ run'.at \notin SettleLabels
    BY <2>1 DEF WorkLabels, InstallLabels, PlanLabels, SettleLabels
  <2> QED BY <1>1, <1>2, <2>1, <2>8, <2>9, Found, Advance DEF SettleLabels
<1> QED BY <1>3, <1>4, <1>5

LEMMA RollbackBoundaryStep == ASSUME IInv, RollbackBoundary \/ Reaudit PROVE IInv'
<1>1. run.at \in {"r.boundary", "i.reaudit"} /\ run.at \in WorkLabels \ PlanLabels
  BY DEF RollbackBoundary, Reaudit, At, WorkLabels, PlanLabels, InstallLabels, RestoreLabels
<1>2. UNCHANGED <<host, base, want, outcome, faults>> BY DEF RollbackBoundary, Reaudit
<1>3. run.at \in BehindLabels /\ Quarantined(host)
  <2>1. run.at \in BehindLabels BY <1>1 DEF BehindLabels, OpenLabels, PlanLabels
  <2> QED BY <1>1, <2>1, Found
<1>4. CASE Go("r.unverified")
  BY <1>1, <1>2, <1>3, <1>4, Found, GuardedSound DEF GuardLabels, SettleLabels
<1>5. ASSUME NEW gpus \in Enumerations(host),
             run' = [run EXCEPT !.at = "r.check", !.audit = Audit(host, gpus)]
      PROVE  IInv'
  <2>1. /\ run' \in Runs /\ run'.at = "r.check" /\ run'.cmd = run.cmd
        /\ run'.audit = Audit(host, gpus)
    BY <1>1, <1>5, Found, AuditFacts DEF Runs, Labels, WorkLabels, RestoreLabels
  <2>2. Audit(host, gpus).host = host BY Found, AuditFacts, <1>1
  <2>3. Place' = "r.check" BY <2>1 DEF Place, Fencing
  <2>4. Audited'
    BY <1>1, <1>2, <2>1, <2>2, <2>3, Found DEF Audited, At, PlannedLabels, Observed
  <2>5. Behind' BY <1>2, <1>3 DEF Behind, Quarantined
  <2>6. Partitioning' /\ Converging' /\ Settling' /\ Restoring'
    BY <2>1, <2>3 DEF Partitioning, Converging, Settling, Restoring, Locked, At, InstallLabels,
                      SettleLabels
  <2>7. Reached' BY <2>4, <2>5, <2>6 DEF Reached
  <2>8. run'.at \in WorkLabels \ PlanLabels /\ run'.at \notin SettleLabels
    BY <2>1 DEF WorkLabels, RestoreLabels, PlanLabels, SettleLabels
  <2> QED BY <1>1, <1>2, <2>1, <2>7, <2>8, Found, Advance DEF SettleLabels
<1> QED BY <1>4, <1>5 DEF RollbackBoundary, Reaudit

-----------------------------------------------------------------------------
(* The install. *)

(* What a step of the plan finds. *)
LEMMA PlannedFound ==
  ASSUME IInv, run.at \in PlannedLabels
  PROVE  /\ run.at \in WorkLabels \ PlanLabels /\ run.at \in BehindLabels
         /\ run.at \notin SettleLabels
         /\ Quarantined(host)
         /\ run.audit.host \in Hosts /\ Core(run.audit.host) = Core(base.host)
         /\ run.at # "i.lock" => ~ PolicyDrifts(host)
<1>1. /\ run.at \in WorkLabels \ PlanLabels /\ run.at \in BehindLabels
      /\ run.at \notin SettleLabels
  BY DEF PlannedLabels, WorkLabels, PlanLabels, InstallLabels, BehindLabels, OpenLabels, SettleLabels
<1>2. Place = run.at BY <1>1, Found
<1>3. run.at # "i.lock" => Locked BY <1>2 DEF Locked, PlannedLabels, InstallLabels
<1> QED BY <1>1, <1>2, <1>3, Found DEF IInv, Reached, Audited, Converging

(* A step of the plan that succeeds behind the quarantine keeps the plan. *)
LEMMA ConvergeSound ==
  ASSUME IInv, run.at \in PlannedLabels, NEW l \in (PlannedLabels \cup {"i.docker"}) \ {"i.lock"},
         Go(l), host' \in Hosts, Coherent(host'), Quarantined(host'), ~ PolicyDrifts(host)',
         l \in {"i.dci", "i.dgi", "i.mdci", "i.mdgi", "i.create"} =>
            host'.loaded.names # {} /\ host'.mig.mode = "enabled",
         UNCHANGED <<base, want, outcome, faults>>
  PROVE  IInv'
<1>1. l \in WorkLabels \ PlanLabels /\ l \notin SettleLabels /\ l \in Labels
  BY DEF PlannedLabels, Labels, WorkLabels, InstallLabels, PlanLabels, SettleLabels
<1>2. /\ run' \in Runs /\ run'.at = l /\ run'.cmd = run.cmd /\ run'.audit = run.audit
  BY <1>1, Goes, Found, PlannedFound
<1>3. Place' = l BY <1>1, <1>2, LabelFacts DEF Place, Fencing
<1>4. Behind' BY DEF Behind, Quarantined
<1>5. Audited' BY <1>2, <1>3, PlannedFound DEF Audited, At, PlannedLabels
<1>6. Partitioning' BY <1>2 DEF Partitioning, At, PlannedLabels
<1>7. Converging' BY <1>2 DEF Converging, At, PlannedLabels
<1>8. Settling' /\ Restoring' BY <1>2 DEF Settling, Restoring, At, SettleLabels, PlannedLabels
<1>9. Reached' BY <1>4, <1>5, <1>6, <1>7, <1>8 DEF Reached
<1> QED BY <1>1, <1>2, <1>9, PlannedFound, Found, Advance DEF SettleLabels

(* One that fails is compensated. *)
LEMMA InstallFails ==
  ASSUME IInv, run.at \in InstallLabels, NEW hosts, Fails(hosts, "i.compensate"),
         \A h \in hosts : h \in Hosts /\ Coherent(h)
  PROVE  IInv'
<1>1. run.at \in WorkLabels \ PlanLabels BY DEF WorkLabels, PlanLabels, InstallLabels
<1>2. "i.compensate" \in FreeLabels /\ "i.compensate" \notin SettleLabels BY DEF FreeLabels, SettleLabels
<1> QED BY <1>1, <1>2, FailsSound

LEMMA InstallGivesUp ==
  ASSUME IInv, run.at \in InstallLabels, Go("i.compensate"), host' \in Hosts, Coherent(host'),
         UNCHANGED <<base, want, outcome, faults>>
  PROVE  IInv'
<1>1. run.at \in WorkLabels \ PlanLabels BY DEF WorkLabels, PlanLabels, InstallLabels
<1>2. /\ "i.compensate" \in FreeLabels /\ "i.compensate" \notin SettleLabels
      /\ "i.compensate" \notin GuardLabels
  BY DEF FreeLabels, SettleLabels, GuardLabels
<1> QED BY <1>1, <1>2, GuardedSound

LEMMA PlannedInstall == PlannedLabels \subseteq InstallLabels
  BY DEF PlannedLabels, InstallLabels

LEMMA LockPolicyStep == ASSUME IInv, LockPolicy PROVE IInv'
<1>1. run.at = "i.lock" /\ run.at \in PlannedLabels /\ run.audit.host = host
  BY DEF LockPolicy, At, PlannedLabels, IInv, Reached, Audited
<1>2. CASE Fails({host}, "i.compensate")
  BY <1>1, <1>2, PlannedFound, Found, PlannedInstall, InstallFails
<1>3. CASE PolicyDrifts(Plan) /\ Does({[host EXCEPT !.files["policy"] = "set"]}, "i.packages")
  <2>1. host' = [host EXCEPT !.files["policy"] = "set"] BY <1>3 DEF Does
  <2>2. "set" \in Contents BY DEF Contents
  <2>3. /\ host' \in Hosts /\ host'.loaded = host.loaded /\ host'.mig = host.mig
        /\ host'.units = host.units /\ host'.files["policy"] = "set"
    BY <1>1, <2>1, <2>2, PlannedFound, Found, FileFacts, Parts
  <2>4. Coherent(host') /\ Quarantined(host')
    BY <1>1, <2>3, PlannedFound, Found DEF Coherent, Quarantined
  <2>5. ~ PolicyDrifts(host)' BY <2>3 DEF PolicyDrifts
  <2> QED BY <1>1, <1>3, <2>3, <2>4, <2>5, ConvergeSound DEF PlannedLabels, Does, Keep
<1>4. CASE ~ PolicyDrifts(Plan) /\ Skips("i.packages")
  <2>1. ~ PolicyDrifts(host)' BY <1>1, <1>4 DEF Plan, Skips, PolicyDrifts
  <2>2. Quarantined(host') /\ host' \in Hosts /\ Coherent(host')
    BY <1>1, <1>4, PlannedFound, Found DEF Skips
  <2> QED BY <1>1, <1>4, <2>1, <2>2, ConvergeSound DEF PlannedLabels, Skips
<1> QED BY <1>2, <1>3, <1>4 DEF LockPolicy

(* After the packages, with their scripts, the launchers go down again. *)
LEMMA InstallPackagesStep == ASSUME IInv, InstallPackages PROVE IInv'
<1>1. run.at = "i.packages" /\ run.at \in PlannedLabels
  BY DEF InstallPackages, At, PlannedLabels
<1>2. DesiredPackages \in PackageSets
  BY DEF DesiredPackages, PackageSets, Identities, Driver, Toolkit
<1>3. CASE Fails(UNION {Scripted(h) : h \in Partly(host, DesiredPackages)}, "i.compensate")
  <2>1. \A h \in UNION {Scripted(g) : g \in Partly(host, DesiredPackages)} : h \in Hosts /\ Coherent(h)
    BY <1>1, PlannedFound, Found, PartlyFacts DEF Coherent
  <2> QED BY <1>1, <1>3, <2>1, PlannedInstall, InstallFails
<1>4. CASE /\ host' = host \/ host' \in Scripted(Exchanged(host, DesiredPackages))
           /\ Fence("i.boundary2")
           /\ UNCHANGED <<base, want, outcome, faults>>
  <2>1. /\ host' \in Hosts /\ host'.loaded = host.loaded /\ host'.mig = host.mig
        /\ host'.files["policy"] = host.files["policy"]
    BY <1>1, <1>2, <1>4, PlannedFound, Found, ExchangedFacts, ScriptedFacts
  <2>2. Coherent(host') BY <1>1, <2>1, PlannedFound, Found DEF Coherent
  <2>3. ~ PolicyDrifts(host)' BY <1>1, <1>4, <2>1, PlannedFound DEF PolicyDrifts
  <2>4. /\ run'.at = "mask" /\ run'.next = "i.boundary2" /\ run'.audit = run.audit
    BY <1>1, <1>4, PlannedFound, Found DEF Fence, Runs
  <2>5. Place' = "i.boundary2" BY <2>4 DEF Place, Fencing
  <2>6. Audited' BY <1>1, <1>4, <2>4, <2>5, PlannedFound DEF Audited, At, PlannedLabels
  <2>7. Converging' BY <2>3, <2>4 DEF Converging, At
  <2>8. "i.boundary2" \in FenceLabels /\ "i.boundary2" \notin SettleLabels
    BY DEF FenceLabels, SettleLabels
  <2> QED BY <1>1, <1>4, <2>1, <2>2, <2>6, <2>7, <2>8, PlannedFound, Found, Quarantines
<1> QED BY <1>3, <1>4 DEF InstallPackages, Keep

(* Behind the masks or back: a boundary of the install. *)
LEMMA PostPackageBoundaryStep == ASSUME IInv, PostPackageBoundary PROVE IInv'
<1>1. run.at = "i.boundary2" /\ run.at \in PlannedLabels
  BY DEF PostPackageBoundary, At, PlannedLabels
<1>2. /\ UNCHANGED <<host, base, want, outcome, faults>>
      /\ Go("i.teardown") \/ Fence("i.reaudit")
  BY DEF PostPackageBoundary, Boundary
<1>3. CASE Fence("i.reaudit")
  BY <1>1, <1>2, <1>3, PlannedFound, Found, FenceSound DEF FenceLabels, GuardLabels, SettleLabels
<1>4. CASE Go("i.teardown")
  <2>1. ~ PolicyDrifts(host)' BY <1>1, <1>2, PlannedFound DEF PolicyDrifts
  <2> QED BY <1>1, <1>2, <1>4, <2>1, PlannedFound, Found, ConvergeSound DEF PlannedLabels
<1> QED BY <1>2, <1>3, <1>4

(* A step of the plan that only decides where to go on. *)
LEMMA DecidesSound ==
  ASSUME IInv, run.at \in PlannedLabels \ {"i.lock"},
         NEW l \in (PlannedLabels \cup {"i.docker"}) \ {"i.lock"}, Skips(l),
         l \in {"i.dci", "i.dgi", "i.mdci", "i.mdgi", "i.create"} =>
            host.loaded.names # {} /\ host.mig.mode = "enabled"
  PROVE  IInv'
<1>1. ~ PolicyDrifts(host)' BY PlannedFound DEF PolicyDrifts, Skips
<1> QED BY <1>1, PlannedFound, Found, ConvergeSound DEF Skips

LEMMA TeardownStep == ASSUME IInv, Teardown PROVE IInv'
<1>1. run.at = "i.teardown" /\ run.at \in PlannedLabels BY DEF Teardown, At, PlannedLabels
<1>2. CASE Skips("i.compensate")
  BY <1>1, <1>2, PlannedFound, Found, PlannedInstall, InstallGivesUp DEF Skips
<1>3. CASE Skips("i.unload") BY <1>1, <1>3, DecidesSound DEF PlannedLabels
<1>4. CASE ~ Skips("i.compensate") /\ ~ Skips("i.unload")
  <2>1. PICK gpus \in Enumerations(host) :
          /\ GeometryComplete(Audit(host, gpus)) /\ host.mig.mode = "enabled"
          /\ Skips("i.dci")
    BY <1>4 DEF Teardown
  <2>2. host.loaded.names # {}
    BY <1>1, <2>1, PlannedFound, Found, AuditFacts DEF GeometryComplete
  <2> QED BY <1>1, <2>1, <2>2, DecidesSound DEF PlannedLabels
<1> QED BY <1>2, <1>3, <1>4

(* What a step behind the quarantine keeps when it leaves the launchers alone. *)
LEMMA KeptFacts ==
  ASSUME NEW h, NEW k, SameBut(h, k)
  PROVE  /\ Quarantined(h) => Quarantined(k)
         /\ k.packages = h.packages /\ k.files = h.files /\ k.units = h.units
  BY DEF SameBut, Quarantined

(* A successful change of MIG or of the modules under the plan. *)
LEMMA ChangesSound ==
  ASSUME IInv, run.at \in PlannedLabels \ {"i.lock"},
         NEW l \in (PlannedLabels \cup {"i.docker"}) \ {"i.lock"}, Go(l),
         host' \in Hosts, Coherent(host'), SameBut(host, host'),
         UNCHANGED <<base, want, outcome, faults>>,
         l \in {"i.dci", "i.dgi", "i.mdci", "i.mdgi", "i.create"} =>
            host'.loaded.names # {} /\ host'.mig.mode = "enabled"
  PROVE  IInv'
<1>1. Quarantined(host') BY PlannedFound, KeptFacts
<1>2. ~ PolicyDrifts(host)' BY PlannedFound, KeptFacts DEF PolicyDrifts
<1> QED BY <1>1, <1>2, ConvergeSound

LEMMA DestroyComputeFacts ==
  ASSUME NEW l, NEW failed, DestroyCompute(l, failed),
         host \in Hosts, Coherent(host), host.loaded.names # {}, host.mig.mode = "enabled"
  PROVE  \/ Fails({host}, failed)
         \/ /\ Go(l) \/ Go(failed)
            /\ UNCHANGED <<base, want, outcome, faults>>
            /\ host' \in Hosts /\ Coherent(host') /\ AllBut(host, host')
            /\ host'.loaded.names # {} /\ host'.mig.mode = "enabled"
<1>1. CASE host' = host BY <1>1 DEF DestroyCompute, Does, Keep, AllBut, SameBut
<1>2. CASE host' = ComputeDestroyed(host)
  <2>1. /\ host' \in Hosts /\ AllBut(host, host') /\ Coherent(host')
        /\ host'.mig.mode = host.mig.mode
    BY <1>2, DestroyedFacts, PartitionFacts
  <2> QED BY <1>2, <2>1 DEF DestroyCompute, Does, Keep, AllBut
<1> QED BY <1>1, <1>2 DEF DestroyCompute, Does, Fails

LEMMA InstallDestroyComputeStep == ASSUME IInv, InstallDestroyCompute PROVE IInv'
<1>1. PICK l \in {"i.dgi", "i.mdgi"} :
        run.at \in {"i.dci", "i.mdci"} /\ DestroyCompute(l, "i.compensate")
  BY DEF InstallDestroyCompute, At
<1>2. run.at \in PlannedLabels \ {"i.lock"} BY <1>1 DEF PlannedLabels
<1>3. host.loaded.names # {} /\ host.mig.mode = "enabled"
  BY <1>1 DEF IInv, Reached, Partitioning
<1>4. CASE Fails({host}, "i.compensate")
  BY <1>2, <1>4, PlannedFound, Found, PlannedInstall, InstallFails
<1>5. CASE /\ Go(l) \/ Go("i.compensate")
           /\ UNCHANGED <<base, want, outcome, faults>>
           /\ host' \in Hosts /\ Coherent(host') /\ AllBut(host, host')
           /\ host'.loaded.names # {} /\ host'.mig.mode = "enabled"
  <2>1. CASE Go(l) BY <1>2, <1>5, <2>1, ChangesSound DEF PlannedLabels, AllBut
  <2>2. CASE Go("i.compensate")
    BY <1>2, <1>5, <2>2, PlannedInstall, InstallGivesUp
  <2> QED BY <1>5, <2>1, <2>2
<1> QED BY <1>1, <1>2, <1>3, <1>4, <1>5, PlannedFound, Found, DestroyComputeFacts

LEMMA InstallDestroyGpuStep == ASSUME IInv, InstallDestroyGpu PROVE IInv'
<1>1. run.at \in {"i.dgi", "i.mdgi"} /\ run.at \in PlannedLabels \ {"i.lock"}
  BY DEF InstallDestroyGpu, At, PlannedLabels
<1>2. host.loaded.names # {} /\ host.mig.mode = "enabled"
  BY <1>1 DEF IInv, Reached, Partitioning
<1>3. CASE Fails({host}, "i.compensate")
  BY <1>1, <1>3, PlannedFound, Found, PlannedInstall, InstallFails
<1>4. ASSUME NEW l \in {"i.unload", "i.create", "i.mode"}, Does({GpuDestroyed(host)}, l)
      PROVE  IInv'
  <2>1. host' = GpuDestroyed(host) BY <1>4 DEF Does
  <2>2. host' = Partitioned(host, "none") /\ "none" \in Layouts BY <2>1, DestroyedFacts
  <2>3. host \in Hosts /\ Coherent(host) BY <1>1, PlannedFound, Found
  <2>4. /\ host' \in Hosts /\ AllBut(host, host') /\ Coherent(host')
        /\ host'.mig.mode = host.mig.mode
    BY <1>2, <2>2, <2>3, PartitionFacts
  <2> QED BY <1>1, <1>2, <1>4, <2>4, ChangesSound DEF PlannedLabels, AllBut, Does, Keep
<1> QED BY <1>3, <1>4 DEF InstallDestroyGpu

(* The module graph comes down, or part of it. *)
LEMMA UnloadFacts ==
  ASSUME NEW l, NEW failed, Unload(l, failed), host \in Hosts, Coherent(host)
  PROVE  \/ Fails(Remains, failed)
         \/ /\ Go(l) \/ Go(failed)
            /\ UNCHANGED <<base, want, outcome, faults>>
            /\ host' \in Hosts /\ Coherent(host') /\ SameBut(host, host')
<1>1. CASE host' = host BY <1>1 DEF Unload, Does, Keep, SameBut
<1>2. CASE host' = ModulesGone(host) BY <1>2, GoneFacts DEF Unload, Does, Keep
<1> QED BY <1>1, <1>2 DEF Unload, Does

(* And up again, one module at a time. *)
LEMMA LoadFacts ==
  ASSUME NEW names, NEW again, NEW failed, Load(names, again, failed), host \in Hosts, Coherent(host)
  PROVE  \/ Fails({host}, failed)
         \/ /\ Go(again) \/ Go(failed)
            /\ UNCHANGED <<base, want, outcome, faults>>
            /\ host' \in Hosts /\ Coherent(host') /\ SameBut(host, host')
<1>1. CASE host' = host BY <1>1 DEF Load, Does, Keep, SameBut
<1>2. CASE host' \in ModuleLoaded(host, NextModule(names))
  <2>1. NextModule(names) \in Modules BY DEF NextModule, Modules
  <2> QED BY <1>2, <2>1, LoadedFacts DEF Load, Does, Keep
<1> QED BY <1>1, <1>2 DEF Load, Does

LEMMA PrepareUnloadStep == ASSUME IInv, PrepareUnload PROVE IInv'
<1>1. run.at = "i.unload" /\ run.at \in PlannedLabels \ {"i.lock"}
  BY DEF PrepareUnload, At, PlannedLabels
<1>2. host \in Hosts /\ Coherent(host) BY <1>1, PlannedFound, Found
<1>3. CASE Skips("i.reconcile") BY <1>1, <1>3, DecidesSound DEF PlannedLabels
<1>4. CASE Unload("i.load", "i.compensate")
  <2>1. CASE Fails(Remains, "i.compensate")
    BY <1>1, <1>2, <2>1, RemainsFacts, PlannedInstall, InstallFails
  <2>2. CASE ~ Fails(Remains, "i.compensate")
    <3>1. /\ Go("i.load") \/ Go("i.compensate")
          /\ UNCHANGED <<base, want, outcome, faults>>
          /\ host' \in Hosts /\ Coherent(host') /\ SameBut(host, host')
      BY <1>2, <1>4, <2>2, UnloadFacts
    <3>2. CASE Go("i.load") BY <1>1, <3>1, <3>2, ChangesSound DEF PlannedLabels
    <3>3. CASE Go("i.compensate") BY <1>1, <3>1, <3>3, PlannedInstall, InstallGivesUp
    <3> QED BY <3>1, <3>2, <3>3
  <2> QED BY <2>1, <2>2
<1> QED BY <1>3, <1>4 DEF PrepareUnload

LEMMA PrepareLoadStep == ASSUME IInv, PrepareLoad PROVE IInv'
<1>1. run.at = "i.load" /\ run.at \in PlannedLabels \ {"i.lock"}
  BY DEF PrepareLoad, At, PlannedLabels
<1>2. host \in Hosts /\ Coherent(host) BY <1>1, PlannedFound, Found
<1>3. CASE Skips("i.reconcile") BY <1>1, <1>3, DecidesSound DEF PlannedLabels
<1>4. CASE Load(Plan.loaded.names, "i.load", "i.compensate")
  <2>1. CASE Fails({host}, "i.compensate")
    BY <1>1, <1>2, <2>1, PlannedInstall, InstallFails
  <2>2. CASE ~ Fails({host}, "i.compensate")
    <3>1. /\ Go("i.load") \/ Go("i.compensate")
          /\ UNCHANGED <<base, want, outcome, faults>>
          /\ host' \in Hosts /\ Coherent(host') /\ SameBut(host, host')
      BY <1>2, <1>4, <2>2, LoadFacts
    <3>2. CASE Go("i.load") BY <1>1, <3>1, <3>2, ChangesSound DEF PlannedLabels
    <3>3. CASE Go("i.compensate") BY <1>1, <3>1, <3>3, PlannedInstall, InstallGivesUp
    <3> QED BY <3>1, <3>2, <3>3
  <2> QED BY <2>1, <2>2
<1> QED BY <1>3, <1>4 DEF PrepareLoad

(* What the desired state is made of. *)
LEMMA WantFacts == ASSUME IInv PROVE want.mig \in Modes /\ want \in [mig : Modes, pin : BOOLEAN]
  BY TransactionAssumption DEF IInv, Typed

LEMMA ReconcileMigStep == ASSUME IInv, ReconcileMig PROVE IInv'
<1>1. run.at = "i.reconcile" /\ run.at \in PlannedLabels \ {"i.lock"}
  BY DEF ReconcileMig, At, PlannedLabels
<1>2. host \in Hosts /\ Coherent(host) BY <1>1, PlannedFound, Found
<1>3. CASE Skips("i.compensate")
  BY <1>1, <1>2, <1>3, PlannedInstall, InstallGivesUp DEF Skips
<1>4. CASE Skips("i.docker") \/ Skips("i.mode")
  BY <1>1, <1>4, DecidesSound DEF PlannedLabels
<1>5. CASE ~ Skips("i.compensate") /\ ~ Skips("i.docker") /\ ~ Skips("i.mode")
  <2>1. PICK gpus \in Enumerations(host) :
          /\ gpus
          /\ \/ Geometry(Audit(host, gpus)) # "none" /\ Skips("i.mdci")
             \/ MigDrifts(Audit(host, gpus)) /\ host.mig.mode = want.mig /\ Skips("i.create")
    BY <1>5 DEF ReconcileMig, Audit
  <2>2. host.loaded.names # {} BY <1>2, <2>1, AuditFacts
  <2>3. CASE Geometry(Audit(host, gpus)) # "none" /\ Skips("i.mdci")
    <3>1. host.mig.mode = "enabled" BY <2>3 DEF Geometry, Audit
    <3> QED BY <1>1, <2>2, <2>3, <3>1, DecidesSound DEF PlannedLabels
  <2>4. CASE MigDrifts(Audit(host, gpus)) /\ host.mig.mode = want.mig /\ Skips("i.create")
    <3>1. host.mig.mode = "enabled" BY <2>4 DEF MigDrifts, Audit
    <3> QED BY <1>1, <2>2, <2>4, <3>1, DecidesSound DEF PlannedLabels
  <2> QED BY <2>1, <2>3, <2>4
<1> QED BY <1>3, <1>4, <1>5

LEMMA SetModeStep == ASSUME IInv, SetMode PROVE IInv'
<1>1. run.at = "i.mode" /\ run.at \in PlannedLabels \ {"i.lock"}
  BY DEF SetMode, At, PlannedLabels
<1>2. host \in Hosts /\ Coherent(host) BY <1>1, PlannedFound, Found
<1>3. CASE Fails({host}, "i.compensate") BY <1>1, <1>2, <1>3, PlannedInstall, InstallFails
<1>4. ASSUME NEW h \in ModeSet(host, want.mig), NEW gpus \in Enumerations(h),
             Does({h}, IF ~ gpus \/ h.mig.mode # want.mig THEN "i.compensate"
                       ELSE IF want.mig = "enabled" THEN "i.create" ELSE "i.docker")
      PROVE  IInv'
  <2>1. h \in Hosts /\ AllBut(host, h) /\ Coherent(h)
    BY <1>2, <1>4, WantFacts, ModeSetFacts
  <2>2. host' = h /\ UNCHANGED <<base, want, outcome, faults>> BY <1>4 DEF Does, Keep
  <2>3. host' \in Hosts /\ SameBut(host, host') /\ Coherent(host')
    BY <2>1, <2>2 DEF AllBut
  <2>4. CASE ~ gpus \/ h.mig.mode # want.mig
    <3>1. Go("i.compensate") BY <1>4, <2>4 DEF Does
    <3> QED BY <1>1, <2>2, <2>3, <3>1, PlannedInstall, InstallGivesUp
  <2>5. CASE gpus /\ h.mig.mode = want.mig /\ want.mig = "enabled"
    <3>1. Go("i.create") BY <1>4, <2>5 DEF Does
    <3>2. host'.loaded.names # {} /\ host'.mig.mode = "enabled"
      BY <2>1, <2>2, <2>5, AuditFacts
    <3> QED BY <1>1, <2>2, <2>3, <3>1, <3>2, ChangesSound DEF PlannedLabels
  <2>6. CASE gpus /\ h.mig.mode = want.mig /\ want.mig # "enabled"
    <3>1. Go("i.docker") BY <1>4, <2>6 DEF Does
    <3> QED BY <1>1, <2>2, <2>3, <3>1, ChangesSound
  <2> QED BY <2>4, <2>5, <2>6
<1> QED BY <1>3, <1>4 DEF SetMode

LEMMA CreateGeometryStep == ASSUME IInv, CreateGeometry PROVE IInv'
<1>1. run.at = "i.create" /\ run.at \in PlannedLabels \ {"i.lock"}
  BY DEF CreateGeometry, At, PlannedLabels
<1>2. host \in Hosts /\ Coherent(host) /\ host.loaded.names # {} /\ host.mig.mode = "enabled"
  BY <1>1, PlannedFound, Found DEF IInv, Reached, Partitioning
<1>3. CASE Fails({host}, "i.compensate") BY <1>1, <1>2, <1>3, PlannedInstall, InstallFails
<1>4. CASE Does({Partitioned(host, "full")}, "i.docker")
  <2>1. host' = Partitioned(host, "full") /\ "full" \in Layouts
    BY <1>4, DestroyedFacts DEF Does
  <2>2. host' \in Hosts /\ AllBut(host, host') /\ Coherent(host')
    BY <1>2, <2>1, PartitionFacts
  <2> QED BY <1>1, <1>4, <2>2, ChangesSound DEF Does, Keep, AllBut
<1> QED BY <1>3, <1>4 DEF CreateGeometry

(* After the last change of the GPU. *)
LateLabels == {"i.docker", "i.verify", "i.release", "i.container"}

LEMMA LateFound ==
  ASSUME IInv, run.at \in LateLabels
  PROVE  /\ run.at \in WorkLabels \ PlanLabels /\ run.at \notin SettleLabels
         /\ run.at \in InstallLabels
         /\ host \in Hosts /\ Coherent(host) /\ ~ PolicyDrifts(host)
         /\ run.at # "i.container" => Quarantined(host)
<1>1. /\ run.at \in WorkLabels \ PlanLabels /\ run.at \notin SettleLabels /\ run.at \in InstallLabels
      /\ run.at # "i.container" => run.at \in BehindLabels
  BY DEF LateLabels, WorkLabels, PlanLabels, InstallLabels, BehindLabels, OpenLabels, SettleLabels
<1>2. Place = run.at BY <1>1, Found
<1>3. Locked BY <1>2 DEF Locked, LateLabels, InstallLabels
<1> QED BY <1>1, <1>3, Found DEF IInv, Reached, Converging

LEMMA LateSound ==
  ASSUME IInv, run.at \in LateLabels, NEW l \in LateLabels, Go(l), host' \in Hosts, Coherent(host'),
         l # "i.container" => Quarantined(host'), Converging',
         UNCHANGED <<base, want, outcome, faults>>
  PROVE  IInv'
<1>1. /\ l \in WorkLabels \ PlanLabels /\ l \notin SettleLabels /\ l \in Labels
      /\ l # "i.container" <=> l \in BehindLabels
  BY DEF LateLabels, Labels, WorkLabels, InstallLabels, PlanLabels, SettleLabels, BehindLabels, OpenLabels
<1>2. /\ run' \in Runs /\ run'.at = l /\ run'.cmd = run.cmd /\ run'.audit = run.audit
  BY <1>1, Goes, Found, LateFound
<1>3. Place' = l BY <1>1, <1>2, LabelFacts DEF Place, Fencing
<1>4. Behind' BY <1>1, <1>2 DEF Behind, Quarantined
<1>5. Audited' /\ Partitioning' /\ Settling' /\ Restoring'
  BY <1>2, <1>3 DEF Audited, At, PlannedLabels, Partitioning, Settling, Restoring, SettleLabels,
                    LateLabels
<1>6. Reached' BY <1>4, <1>5 DEF Reached
<1> QED BY <1>1, <1>2, <1>6, LateFound, Found, Advance DEF SettleLabels

LEMMA ConfigureDockerStep == ASSUME IInv, ConfigureDocker PROVE IInv'
<1>1. run.at = "i.docker" /\ run.at \in LateLabels BY DEF ConfigureDocker, At, LateLabels
<1>2. CASE Fails({host}, "i.compensate") BY <1>1, <1>2, LateFound, InstallFails
<1>3. CASE Does({[host EXCEPT !.files["docker"] = "set"]}, "i.verify")
  <2>1. host' = [host EXCEPT !.files["docker"] = "set"] /\ "set" \in Contents
    BY <1>3 DEF Does, Contents
  <2>2. /\ host' \in Hosts /\ host'.loaded = host.loaded /\ host'.mig = host.mig
        /\ host'.units = host.units /\ host'.files["policy"] = host.files["policy"]
    BY <1>1, <2>1, LateFound, FileFacts, Parts
  <2>3. Coherent(host') /\ Quarantined(host')
    BY <1>1, <2>2, LateFound DEF Coherent, Quarantined
  <2>4. run'.at = "i.verify" BY <1>1, <1>3, LateFound, Found DEF Does, Go, Runs
  <2>5. Converging'
    BY <1>1, <1>3, <2>2, <2>4, LateFound DEF Converging, At, PolicyDrifts, Does, Keep
  <2> QED BY <1>1, <1>3, <2>2, <2>3, <2>5, LateSound DEF LateLabels, Does, Keep
<1> QED BY <1>2, <1>3 DEF ConfigureDocker

(* A machine that passes the core checks has every part of the desired state but *)
(* the toolkit, Docker's configuration and the launchers.                        *)
LEMMA CoreVerifiedFacts ==
  ASSUME IInv, NEW gpus, CoreVerified(Audit(host, gpus))
  PROVE  Verified
<1>1. host \in Hosts /\ Coherent(host) BY DEF IInv, Typed, Consistent
<1>2. /\ OnDisk(host) = "new" /\ host.loaded.build = "new"
      /\ host.mig.mode = host.mig.pending /\ host.mig.mode = want.mig
      /\ gpus
      /\ want.mig = "enabled" => host.mig.parts = "full"
  BY DEF CoreVerified, Audit, MigDrifts, Geometry, GeometryComplete
<1>3. host.mig.parts = IF want.mig = "enabled" THEN "full" ELSE "none"
  BY <1>1, <1>2, WantFacts DEF Coherent, Modes
<1>4. host.mig = DesiredMig BY <1>1, <1>2, <1>3, Parts DEF DesiredMig
<1> QED BY <1>2, <1>4 DEF Verified

LEMMA VerifyCoreStep == ASSUME IInv, VerifyCore PROVE IInv'
<1>1. run.at = "i.verify" /\ run.at \in LateLabels BY DEF VerifyCore, At, LateLabels
<1>2. PICK gpus \in Enumerations(host) :
        Boundary(Audit(host, gpus), CoreVerified(Audit(host, gpus)), "i.release")
  BY DEF VerifyCore, Observations
<1>3. UNCHANGED <<host, base, want, outcome, faults>> BY <1>2 DEF Boundary
<1>4. CASE Fence("i.reaudit")
  BY <1>1, <1>3, <1>4, LateFound, Found, FenceSound DEF FenceLabels, GuardLabels, SettleLabels
<1>5. CASE CoreVerified(Audit(host, gpus)) /\ Go("i.release")
  <2>1. Verified BY <1>5, CoreVerifiedFacts
  <2>2. Verified' BY <1>3, <2>1 DEF Verified, OnDisk, DesiredMig
  <2>3. run'.at = "i.release" BY <1>1, <1>5, LateFound, Found DEF Go, Runs
  <2>4. Converging'
    BY <1>1, <1>3, <2>2, <2>3, LateFound DEF Converging, At, PolicyDrifts
  <2> QED BY <1>1, <1>3, <1>5, <2>4, LateFound, LateSound DEF LateLabels
<1> QED BY <1>2, <1>4, <1>5 DEF Boundary

LEMMA ReleaseTargetStep == ASSUME IInv, ReleaseTarget PROVE IInv'
<1>1. run.at = "i.release" /\ run.at \in LateLabels BY DEF ReleaseTarget, At, LateLabels
<1>0. TargetUnits \in [Launchers -> UnitStates] /\ TargetUnits["docker"].active
  BY <1>1, LateFound, Found, Parts, OrderFacts DEF TargetUnits, UnitStates
<1>2. CASE Fails(PartlyReleased(TargetUnits), "i.compensate")
  <2>1. \A k \in PartlyReleased(TargetUnits) : k \in Hosts /\ Coherent(k)
    BY <1>0, <1>1, LateFound, ReleasedFacts, CoreFacts
  <2> QED BY <1>1, <1>2, <2>1, LateFound, InstallFails
<1>3. CASE Does({[host EXCEPT !.units = TargetUnits]}, "i.container")
  <2>1. TargetUnits \in [Launchers -> UnitStates] /\ TargetUnits["docker"].active BY <1>0
  <2>2. host' = [host EXCEPT !.units = TargetUnits] BY <1>3 DEF Does
  <2>3. host' \in Hosts /\ Core(host') = Core(host) /\ host'.units = TargetUnits
    BY <1>1, <2>1, <2>2, LateFound, UnitFacts
  <2>4. Coherent(host') /\ OnDisk(host') = OnDisk(host) /\ host'.loaded = host.loaded
        /\ host'.mig = host.mig /\ host'.files = host.files
    BY <1>1, <2>3, LateFound, CoreFacts
  <2>5. Verified BY <1>1 DEF IInv, Reached, Converging
  <2>6. Verified' BY <1>3, <2>4, <2>5 DEF Verified, DesiredMig, Does, Keep
  <2>7. run'.at = "i.container" BY <1>1, <1>3, LateFound, Found DEF Does, Go, Runs
  <2>8. Converging'
    BY <1>1, <1>3, <2>1, <2>3, <2>4, <2>6, <2>7, LateFound
       DEF Converging, At, PolicyDrifts, Does, Keep
  <2> QED BY <1>1, <1>3, <2>3, <2>4, <2>8, LateSound DEF LateLabels, Does, Keep
<1> QED BY <1>2, <1>3 DEF ReleaseTarget

LEMMA VerifyContainerStep == ASSUME IInv, VerifyContainer PROVE IInv'
<1>1. run.at = "i.container" /\ run.at \in LateLabels BY DEF VerifyContainer, At, LateLabels
<1>2. CASE Fails({host}, "i.compensate") BY <1>1, <1>2, LateFound, InstallFails
<1>3. CASE /\ host.files["docker"] = "set" /\ Toolkit \in host.packages
           /\ Ends("converged")
           /\ UNCHANGED <<host, base, want, faults>>
  <2>1. Verified /\ host.units["docker"].active BY <1>1 DEF IInv, Reached, Converging, At
  <2>2. AsDesired(host)
    BY <1>1, <1>3, <2>1, LateFound, OnDiskFacts DEF Verified, AsDesired
  <2>3. AsDesired(host)' BY <1>3, <2>2 DEF AsDesired, DesiredMig, PolicyDrifts
  <2>4. Told'
    BY <1>3, <2>1, <2>3 DEF Ends, Told, RestoredIsBaseline, ConvergedIsDesired,
       SettledKeepsBaseline, FailureQuarantined, Ended
  <2>5. "converged" \in Outcomes BY DEF Outcomes
  <2> QED BY <1>1, <1>3, <2>4, <2>5, LateFound, Found, Finishes
<1> QED BY <1>2, <1>3 DEF VerifyContainer

LEMMA CompensateStep == ASSUME IInv, Compensate PROVE IInv'
<1>1. run.at = "i.compensate" /\ run.at \in WorkLabels \ PlanLabels
  BY DEF Compensate, At, WorkLabels, PlanLabels, InstallLabels
<1> QED BY <1>1, Found, FenceSound DEF Compensate, Compensates, FenceLabels, GuardLabels, SettleLabels

(* Every step of an install keeps the invariant. *)
LEMMA InstallStepSound == ASSUME IInv, InstallStep PROVE IInv'
  BY PlanInstallStep, TakeSnapshotStep, PrePackageBoundaryStep, LockPolicyStep,
     InstallPackagesStep, PostPackageBoundaryStep, TeardownStep, InstallDestroyComputeStep,
     InstallDestroyGpuStep, PrepareUnloadStep, PrepareLoadStep, ReconcileMigStep, SetModeStep,
     CreateGeometryStep, ConfigureDockerStep, VerifyCoreStep, ReleaseTargetStep,
     VerifyContainerStep, CompensateStep, RollbackBoundaryStep
     DEF InstallStep

-----------------------------------------------------------------------------
(* Verify and lock. *)

(* Between the boundary and the end. *)
MidLabels == {"s.policy", "s.unload", "s.load", "s.core", "s.release", "s.services"}

LEMMA SettleFound ==
  ASSUME IInv, run.at \in MidLabels \cup {"s.boundary"}
  PROVE  /\ run.at \in WorkLabels \ PlanLabels /\ run.at \in SettleLabels
         /\ host \in Hosts /\ Coherent(host)
         /\ run.at \notin {"s.core", "s.services"} => Quarantined(host)
         /\ run.at \in {"s.unload", "s.load"} => run.cmd # "lock"
         /\ run.at # "s.boundary" => /\ host.packages = base.host.packages
                                     /\ run.cmd = "lock" => host.mig = base.host.mig
<1>1. /\ run.at \in WorkLabels \ PlanLabels /\ run.at \in SettleLabels
      /\ run.at \notin {"s.core", "s.services"} => run.at \in BehindLabels
      /\ run.at # "s.boundary" => run.at \in SettleLabels \ {"s.boundary", "s.abandon", "s.failed"}
  BY DEF MidLabels, WorkLabels, PlanLabels, BehindLabels, OpenLabels, SettleLabels
<1>2. Place = run.at BY <1>1, Found
<1> QED BY <1>1, <1>2, Found DEF IInv, InPlace, Reached, Settling

LEMMA SettleSound ==
  ASSUME IInv, run.at \in MidLabels \cup {"s.boundary"}, NEW l \in MidLabels,
         l \in {"s.unload", "s.load"} => run.cmd # "lock",
         run' \in Runs, run'.at = l, run'.cmd = run.cmd, host' \in Hosts, Coherent(host'),
         l \notin {"s.core", "s.services"} => Quarantined(host'), Settling',
         UNCHANGED <<base, want, outcome, faults>>
  PROVE  IInv'
<1>1. /\ l \in WorkLabels \ PlanLabels /\ l \in SettleLabels
      /\ l \in {"s.core", "s.services"} => l \notin BehindLabels
  BY DEF MidLabels, WorkLabels, PlanLabels, SettleLabels, BehindLabels, OpenLabels
<1>2. Place' = l BY <1>1, LabelFacts DEF Place, Fencing
<1>3. Behind' BY <1>1 DEF Behind, Quarantined
<1>4. Audited' /\ Partitioning' /\ Converging' /\ Restoring'
  BY <1>2 DEF Audited, At, PlannedLabels, Partitioning, Converging, Locked, Restoring,
              InstallLabels, MidLabels
<1>5. Reached' BY <1>3, <1>4 DEF Reached
<1>6. Place = run.at BY SettleFound, Found
<1> QED BY <1>1, <1>5, <1>6, SettleFound, Found, Advance

LEMMA SettleGivesUp ==
  ASSUME IInv, run.at \in MidLabels \cup {"s.boundary"}, host' \in Hosts, Coherent(host'),
         \/ Fence("s.failed") \/ Go("s.abandon"), UNCHANGED <<base, want, outcome, faults>>
  PROVE  IInv'
<1>1. CASE Fence("s.failed")
  BY <1>1, SettleFound, Found, FenceSound DEF FenceLabels, GuardLabels, SettleLabels
<1>2. CASE Go("s.abandon")
  BY <1>2, SettleFound, Found, GuardedSound DEF FreeLabels, GuardLabels, SettleLabels
<1> QED BY <1>1, <1>2

LEMMA SettleCommandFails ==
  ASSUME IInv, run.at \in MidLabels \cup {"s.boundary"}, NEW hosts, Fails(hosts, "s.abandon"),
         \A h \in hosts : h \in Hosts /\ Coherent(h)
  PROVE  IInv'
  BY SettleFound, FailsSound DEF FreeLabels, SettleLabels

LEMMA SettleBoundaryStep == ASSUME IInv, SettleBoundary PROVE IInv'
<1>1. run.at = "s.boundary" BY DEF SettleBoundary, At
<1>2. UNCHANGED <<host, base, want, outcome, faults>> BY DEF SettleBoundary
<1>3. PICK gpus \in Enumerations(host) :
        LET a == Audit(host, gpus) IN
          IF a.gpus /\ Quarantined(host) /\ BaselineStands(a)
          THEN run' = [run EXCEPT !.at = IF run.cmd = "lock" THEN "s.policy" ELSE "s.unload",
                                  !.audit = a]
          ELSE Abandons
  BY DEF SettleBoundary
<1> DEFINE a == Audit(host, gpus)
<1>4. CASE Abandons BY <1>1, <1>2, <1>4, SettleFound, SettleGivesUp DEF Abandons
<1>5. CASE /\ BaselineStands(a)
           /\ run' = [run EXCEPT !.at = IF run.cmd = "lock" THEN "s.policy" ELSE "s.unload",
                                 !.audit = a]
  <2>1. Core(host) = Core(base.host)
    BY <1>1, <1>5, SettleFound, Found, BaselineFacts DEF BaselineStands
  <2>2. a \in Audits BY <1>1, SettleFound, AuditFacts
  <2>3. PICK l \in {"s.policy", "s.unload"} :
          run' = [run EXCEPT !.at = l, !.audit = a] /\ (run.cmd = "lock" => l = "s.policy")
    BY <1>5
  <2>4. run' \in Runs /\ run'.at = l /\ run'.cmd = run.cmd
    BY <1>1, <2>2, <2>3, SettleFound, Found DEF Runs, Labels, WorkLabels, SettleLabels
  <2>5. Settling'
    BY <1>2, <2>1, <2>3, <2>4, CoreFacts DEF Settling, At
  <2> QED BY <1>1, <1>2, <2>3, <2>4, <2>5, SettleFound, SettleSound DEF MidLabels
<1> QED BY <1>3, <1>4, <1>5

(* A change of the modules under verify, and the step after it. *)
LEMMA ModulesSound ==
  ASSUME IInv, run.at \in {"s.unload", "s.load"}, NEW l \in {"s.load", "s.core"}, Go(l),
         host' \in Hosts, Coherent(host'), SameBut(host, host'),
         UNCHANGED <<base, want, outcome, faults>>
  PROVE  IInv'
<1>1. run.at \in MidLabels \cup {"s.boundary"} /\ l \in MidLabels /\ l \in Labels
  BY DEF MidLabels, Labels, WorkLabels, SettleLabels
<1>2. run' \in Runs /\ run'.at = l /\ run'.cmd = run.cmd
  BY <1>1, SettleFound, Found, Goes
<1>3. Quarantined(host') BY <1>1, SettleFound, KeptFacts
<1>4. Settling'
  BY <1>1, <1>2, SettleFound, KeptFacts DEF Settling, At
<1> QED BY <1>1, <1>2, <1>3, <1>4, SettleFound, SettleSound

LEMMA SettleUnloadStep == ASSUME IInv, SettleUnload PROVE IInv'
<1>1. run.at = "s.unload" /\ run.at \in MidLabels BY DEF SettleUnload, At, MidLabels
<1>2. host \in Hosts /\ Coherent(host) BY <1>1, SettleFound
<1>3. CASE Skips("s.core")
  BY <1>1, <1>2, <1>3, ModulesSound DEF Skips, SameBut
<1>4. CASE Unload("s.load", "s.abandon")
  <2>1. CASE Fails(Remains, "s.abandon")
    BY <1>1, <1>2, <2>1, RemainsFacts, SettleCommandFails
  <2>2. CASE ~ Fails(Remains, "s.abandon")
    <3>1. /\ Go("s.load") \/ Go("s.abandon")
          /\ UNCHANGED <<base, want, outcome, faults>>
          /\ host' \in Hosts /\ Coherent(host') /\ SameBut(host, host')
      BY <1>2, <1>4, <2>2, UnloadFacts
    <3>2. CASE Go("s.load") BY <1>1, <3>1, <3>2, ModulesSound
    <3>3. CASE Go("s.abandon") BY <1>1, <3>1, <3>3, SettleGivesUp
    <3> QED BY <3>1, <3>2, <3>3
  <2> QED BY <2>1, <2>2
<1> QED BY <1>3, <1>4 DEF SettleUnload

LEMMA SettleLoadStep == ASSUME IInv, SettleLoad PROVE IInv'
<1>1. run.at = "s.load" /\ run.at \in MidLabels BY DEF SettleLoad, At, MidLabels
<1>2. host \in Hosts /\ Coherent(host) BY <1>1, SettleFound
<1>3. CASE Skips("s.core")
  BY <1>1, <1>2, <1>3, ModulesSound DEF Skips, SameBut
<1>4. CASE Load(Plan.loaded.names, "s.load", "s.abandon")
  <2>1. CASE Fails({host}, "s.abandon") BY <1>1, <1>2, <2>1, SettleCommandFails
  <2>2. CASE ~ Fails({host}, "s.abandon")
    <3>1. /\ Go("s.load") \/ Go("s.abandon")
          /\ UNCHANGED <<base, want, outcome, faults>>
          /\ host' \in Hosts /\ Coherent(host') /\ SameBut(host, host')
      BY <1>2, <1>4, <2>2, LoadFacts
    <3>2. CASE Go("s.load") BY <1>1, <3>1, <3>2, ModulesSound
    <3>3. CASE Go("s.abandon") BY <1>1, <3>1, <3>3, SettleGivesUp
    <3> QED BY <3>1, <3>2, <3>3
  <2> QED BY <2>1, <2>2
<1> QED BY <1>3, <1>4 DEF SettleLoad

(* The package policy and its scripts keep packages, modules and MIG. *)
LEMMA SelectedFacts ==
  ASSUME host \in Hosts
  PROVE  \A h \in Scripted(host) \cup Scripted(Selected) :
           /\ h \in Hosts /\ h.packages = host.packages /\ h.loaded = host.loaded
           /\ h.mig = host.mig
<1>1. "set" \in Contents BY DEF Contents
<1>2. /\ Selected \in Hosts /\ Selected.packages = host.packages
      /\ Selected.loaded = host.loaded /\ Selected.mig = host.mig
  BY <1>1 DEF Selected, Hosts
<1> QED BY <1>2, ScriptedFacts

LEMMA ApplyPolicyStep == ASSUME IInv, ApplyPolicy PROVE IInv'
<1>1. run.at = "s.policy" /\ run.at \in MidLabels BY DEF ApplyPolicy, At, MidLabels
<1>2. \A h \in Scripted(host) \cup Scripted(Selected) :
        /\ h \in Hosts /\ Coherent(h) /\ h.packages = host.packages /\ h.mig = host.mig
  BY <1>1, SettleFound, SelectedFacts DEF Coherent
<1>3. CASE Fails(Scripted(host) \cup Scripted(Selected), "s.abandon")
  BY <1>1, <1>2, <1>3, SettleCommandFails
<1>4. CASE Does(Scripted(Selected), "s.core")
  <2>1. /\ host' \in Hosts /\ Coherent(host') /\ host'.packages = host.packages
        /\ host'.mig = host.mig
    BY <1>2, <1>4 DEF Does
  <2>2. run' \in Runs /\ run'.at = "s.core" /\ run'.cmd = run.cmd
    BY <1>1, <1>4, SettleFound, Found, Goes DEF Does, Labels, WorkLabels, SettleLabels
  <2>3. Settling'
    BY <1>1, <1>4, <2>1, <2>2, SettleFound DEF Settling, At, Does, Keep
  <2> QED BY <1>1, <1>4, <2>1, <2>2, <2>3, SettleSound DEF MidLabels, Does, Keep
<1> QED BY <1>3, <1>4 DEF ApplyPolicy

LEMMA SettleCoreStep == ASSUME IInv, SettleCore PROVE IInv'
<1>1. run.at = "s.core" /\ run.at \in MidLabels BY DEF SettleCore, At, MidLabels
<1>2. UNCHANGED <<host, base, want, outcome, faults>> BY DEF SettleCore
<1>3. PICK gpus \in Enumerations(host) :
        LET a == Audit(host, gpus) IN
          IF a.gpus /\ Quarantined(host) /\ Settled(a) THEN Go("s.release") ELSE Abandons
  BY DEF SettleCore
<1>4. CASE Abandons BY <1>1, <1>2, <1>4, SettleFound, SettleGivesUp DEF Abandons
<1>5. CASE Quarantined(host) /\ Settled(Audit(host, gpus)) /\ Go("s.release")
  <2>1. run' \in Runs /\ run'.at = "s.release" /\ run'.cmd = run.cmd
    BY <1>1, <1>5, SettleFound, Found, Goes DEF Labels, WorkLabels, SettleLabels
  <2>2. host.mig \in {base.host.mig, DesiredMig}
    <3>1. CASE run.cmd = "lock" BY <1>1, <3>1, SettleFound
    <3>2. CASE run.cmd # "lock"
      BY <1>5, <3>2, CoreVerifiedFacts DEF Settled, Verified
    <3> QED BY <3>1, <3>2
  <2>3. Settling'
    BY <1>1, <1>2, <2>1, <2>2, SettleFound DEF Settling, At, DesiredMig
  <2> QED BY <1>1, <1>2, <1>5, <2>1, <2>3, SettleFound, SettleSound DEF MidLabels
<1> QED BY <1>3, <1>4, <1>5

LEMMA ReleaseSettledStep == ASSUME IInv, ReleaseSettled PROVE IInv'
<1>1. run.at = "s.release" /\ run.at \in MidLabels BY DEF ReleaseSettled, At, MidLabels
<1>2. CASE Fails(PartlyReleased(base.host.units), "s.abandon")
  <2>1. base.host.units \in [Launchers -> UnitStates] BY <1>1, SettleFound, Found, Parts
  <2>2. \A k \in PartlyReleased(base.host.units) : k \in Hosts /\ Coherent(k)
    BY <1>1, <2>1, SettleFound, ReleasedFacts, CoreFacts
  <2> QED BY <1>1, <1>2, <2>2, SettleFound, SettleCommandFails
<1>3. CASE Does({[host EXCEPT !.units = base.host.units]}, "s.services")
  <2>1. host' = [host EXCEPT !.units = base.host.units] BY <1>3 DEF Does
  <2>2. base.host.units \in [Launchers -> UnitStates] BY <1>1, SettleFound, Found, Parts
  <2>3. host' \in Hosts /\ Core(host') = Core(host) /\ host'.units = base.host.units
    BY <1>1, <2>1, <2>2, SettleFound, UnitFacts
  <2>4. Coherent(host') /\ host'.packages = host.packages /\ host'.mig = host.mig
    BY <1>1, <2>3, SettleFound, CoreFacts
  <2>5. run' \in Runs /\ run'.at = "s.services" /\ run'.cmd = run.cmd
    BY <1>1, <1>3, SettleFound, Found, Goes DEF Does, Labels, WorkLabels, SettleLabels
  <2>6. host.mig \in {base.host.mig, DesiredMig} BY <1>1 DEF IInv, Reached, Settling
  <2>7. Settling'
    BY <1>1, <1>3, <2>3, <2>4, <2>5, <2>6, SettleFound DEF Settling, At, Does, Keep, DesiredMig
  <2> QED BY <1>1, <1>3, <2>3, <2>4, <2>5, <2>7, SettleFound, SettleSound DEF MidLabels, Does, Keep
<1> QED BY <1>2, <1>3 DEF ReleaseSettled

LEMMA VerifyServicesStep == ASSUME IInv, VerifyServices PROVE IInv'
<1>1. run.at = "s.services" /\ run.at \in MidLabels BY DEF VerifyServices, At, MidLabels
<1>2. UNCHANGED <<host, base, want, faults>> BY DEF VerifyServices
<1>3. CASE Ends("settle-unproved")
  BY <1>1, <1>2, <1>3, SettleFound, Found, EndsQuietly DEF Outcomes
<1>4. CASE Ends("settled")
  <2>1. /\ host.packages = base.host.packages /\ host.units = base.host.units
        /\ host.mig \in {base.host.mig, DesiredMig}
    BY <1>1, SettleFound DEF IInv, Reached, Settling, At
  <2>2. Told'
    BY <1>2, <1>4, <2>1 DEF Ends, Told, RestoredIsBaseline, ConvergedIsDesired,
       SettledKeepsBaseline, FailureQuarantined, Ended, DesiredMig
  <2>3. "settled" \in Outcomes BY DEF Outcomes
  <2> QED BY <1>1, <1>2, <1>4, <2>2, <2>3, SettleFound, Found, Finishes
<1> QED BY <1>3, <1>4 DEF VerifyServices

LEMMA AbandonStep == ASSUME IInv, Abandon PROVE IInv'
<1>1. run.at = "s.abandon" /\ run.at \in WorkLabels \ PlanLabels /\ run.at \in SettleLabels
  BY DEF Abandon, At, WorkLabels, PlanLabels, SettleLabels
<1> QED BY <1>1, Found, FenceSound DEF Abandon, Abandons, FenceLabels, GuardLabels

(* An end behind the masks. *)
LEMMA EndsBehind ==
  ASSUME IInv, NEW how \in {"restore-failed", "reboot-required", "settle-failed"}, Ends(how),
         host' \in Hosts, Coherent(host'), Quarantined(host'), UNCHANGED <<base, want, faults>>,
         faults \in 0..MaxFaults
  PROVE  IInv'
<1>1. Told'
  BY DEF Ends, Told, RestoredIsBaseline, ConvergedIsDesired, SettledKeepsBaseline,
         FailureQuarantined, Ended, Quarantined
<1>2. how \in Outcomes BY DEF Outcomes
<1> QED BY <1>1, <1>2, Finishes

LEMMA SettleFailsStep == ASSUME IInv, SettleFails PROVE IInv'
<1>1. run.at = "s.failed" /\ run.at \in WorkLabels \ PlanLabels /\ run.at \in BehindLabels
  BY DEF SettleFails, At, WorkLabels, PlanLabels, SettleLabels, BehindLabels, OpenLabels
<1>2. host' \in Requiesced(host) /\ UNCHANGED <<base, want, faults>> /\ Ends("settle-failed")
  BY DEF SettleFails
<1>3. host' \in Hosts /\ Core(host') = Core(host) /\ Quarantined(host')
  BY <1>1, <1>2, Found, RequiescedFacts
<1>4. Coherent(host') BY <1>1, <1>3, Found, CoreFacts
<1> QED BY <1>1, <1>2, <1>3, <1>4, Found, EndsBehind

(* Every step of a verify or lock keeps the invariant. *)
LEMMA SettleStepSound == ASSUME IInv, SettleStep PROVE IInv'
  BY PlanSettleStep, SettleBoundaryStep, SettleUnloadStep, SettleLoadStep, ApplyPolicyStep,
     SettleCoreStep, ReleaseSettledStep, VerifyServicesStep, AbandonStep, SettleFailsStep
     DEF SettleStep

-----------------------------------------------------------------------------
(* The restore. *)

(* Statements without promises. *)
RestoreFree == {"r.docker", "r.policy", "r.policy.failing", "r.unreleased", "r.failed",
                "unquarantined"}

LEMMA RestorePlaces ==
  ASSUME IInv, run.at \in RestoreLabels
  PROVE  /\ run.at \in WorkLabels \ PlanLabels /\ run.at \notin SettleLabels
         /\ host \in Hosts /\ Coherent(host)
         /\ run.at \notin RestoreFree => Quarantined(host)
<1>1. /\ run.at \in WorkLabels \ PlanLabels /\ run.at \notin SettleLabels
      /\ run.at \notin RestoreFree => run.at \in BehindLabels
  BY DEF RestoreFree, RestoreLabels, WorkLabels, PlanLabels, BehindLabels, OpenLabels, SettleLabels
<1> QED BY <1>1, Found

(* From one statement of the restore to another that asks for no more than masks. *)
RestoreGuard == {"r.unload", "r.load", "r.mig", "r.mode", "r.verify", "r.unverified"}

LEMMA RestoreGoes ==
  ASSUME IInv, run.at \in RestoreLabels, NEW l \in RestoreFree \cup RestoreGuard, Go(l),
         host' \in Hosts, Coherent(host'), l \in RestoreGuard => Quarantined(host'),
         UNCHANGED <<base, want, outcome, faults>>
  PROVE  IInv'
<1>1. /\ l \in FreeLabels \cup GuardLabels /\ l \notin SettleLabels
      /\ l \in GuardLabels => l \in RestoreGuard
  BY DEF RestoreFree, RestoreGuard, FreeLabels, GuardLabels, SettleLabels
<1> QED BY <1>1, RestorePlaces, GuardedSound

LEMMA RestoreCommandFails ==
  ASSUME IInv, run.at \in RestoreLabels, NEW l \in RestoreFree, NEW hosts, Fails(hosts, l),
         \A h \in hosts : h \in Hosts /\ Coherent(h)
  PROVE  IInv'
<1>1. l \in FreeLabels /\ l \notin SettleLabels
  BY DEF RestoreFree, FreeLabels, SettleLabels
<1> QED BY <1>1, RestorePlaces, FailsSound

LEMMA RestoreFences ==
  ASSUME IInv, run.at \in RestoreLabels, NEW l \in {"r.unload", "r.unverified", "r.reboot"},
         Fence(l), host' \in Hosts, Coherent(host'), UNCHANGED <<base, want, outcome, faults>>
  PROVE  IInv'
<1>1. l \in FenceLabels \cap GuardLabels /\ l \notin SettleLabels
  BY DEF FenceLabels, GuardLabels, SettleLabels
<1> QED BY <1>1, RestorePlaces, FenceSound

LEMMA ChecksStep == ASSUME IInv, Checks \/ Refuses PROVE IInv'
<1>1. run.at = "r.check" /\ run.at \in RestoreLabels BY DEF Checks, Refuses, At, RestoreLabels
<1>2. CASE Refuses
  BY <1>1, <1>2, RestorePlaces, RestoreCommandFails DEF Refuses, RestoreFree
<1>3. CASE Checks
  <2>1. UNCHANGED <<host, base, want, outcome, faults>> BY <1>3 DEF Checks
  <2>2. CASE Go("r.failed") \/ Go("r.verify")
    BY <1>1, <2>1, <2>2, RestorePlaces, RestoreGoes DEF RestoreFree, RestoreGuard
  <2>3. CASE Fence("r.packages")
    <3>1. run'.at = "mask" /\ run'.next = "r.packages" /\ run'.audit = run.audit
      BY <1>1, <2>3, RestorePlaces, Found DEF Fence, Runs
    <3>2. Place' = "r.packages" BY <3>1 DEF Place, Fencing
    <3>3. Observed(run.audit.host, host)
      BY <1>1, RestorePlaces, Found DEF IInv, Reached, Audited
    <3>4. Audited'
      BY <2>1, <3>1, <3>2, <3>3 DEF Audited, At, PlannedLabels, Observed
    <3>5. Converging' BY <3>1, <3>2 DEF Converging, Locked, At, InstallLabels
    <3>6. "r.packages" \in FenceLabels /\ "r.packages" \notin SettleLabels
      BY DEF FenceLabels, SettleLabels
    <3> QED BY <1>1, <2>1, <2>3, <3>4, <3>5, <3>6, RestorePlaces, Found, Quarantines
  <2> QED BY <1>3, <2>2, <2>3 DEF Checks
<1> QED BY <1>2, <1>3

LEMMA RestorePackagesStep == ASSUME IInv, RestorePackages PROVE IInv'
<1>1. run.at = "r.packages" /\ run.at \in RestoreLabels BY DEF RestorePackages, At, RestoreLabels
<1> DEFINE goal == Goal(run.audit.host)
<1>2. goal \in PackageSets
  <2>1. run.audit.host \in Hosts
    BY <1>1, RestorePlaces, Found DEF IInv, Reached, Audited, Observed
  <2> QED BY <1>1, <2>1, RestorePlaces, Found, GoalFacts
<1>3. \A h \in Scripted(Exchanged(host, goal)) \cup UNION {Scripted(g) : g \in Partly(host, goal)} :
        h \in Hosts /\ h.loaded = host.loaded /\ h.mig = host.mig
  <2>1. host \in Hosts BY <1>1, RestorePlaces
  <2>2. \A h \in Scripted(Exchanged(host, goal)) :
          h \in Hosts /\ h.loaded = host.loaded /\ h.mig = host.mig
    BY <1>2, <2>1, ExchangedFacts, ScriptedFacts
  <2>3. \A h \in UNION {Scripted(g) : g \in Partly(host, goal)} :
          h \in Hosts /\ h.loaded = host.loaded /\ h.mig = host.mig
    BY <2>1, PartlyFacts
  <2> QED BY <2>2, <2>3
<1>4. \A h \in Scripted(Exchanged(host, goal)) \cup UNION {Scripted(g) : g \in Partly(host, goal)} :
        h \in Hosts /\ Coherent(h)
  BY <1>1, <1>3, RestorePlaces DEF Coherent
<1> HIDE DEF goal
<1>5. CASE Skips("r.docker")
  BY <1>1, <1>5, RestorePlaces, RestoreGoes DEF Skips, RestoreFree, RestoreGuard
<1>6. CASE Does(Scripted(Exchanged(host, goal)), "r.docker")
  BY <1>1, <1>4, <1>6, RestoreGoes DEF Does, Keep, RestoreFree, RestoreGuard
<1>7. CASE Fails(UNION {Scripted(g) : g \in Partly(host, goal)}, "r.failed")
  BY <1>1, <1>4, <1>7, RestoreCommandFails DEF RestoreFree
<1> QED BY <1>5, <1>6, <1>7 DEF RestorePackages, goal

(* A file of the snapshot is written back. *)
LEMMA RewrittenFacts ==
  ASSUME host \in Hosts, Coherent(host), base.host \in Hosts, NEW f \in {"docker", "policy"}
  PROVE  /\ Rewritten(f) \in Hosts /\ Coherent(Rewritten(f))
         /\ Rewritten(f).units = host.units
<1>1. base.host.files[f] \in Contents BY Parts
<1>2. /\ Rewritten(f) \in Hosts /\ Rewritten(f).loaded = host.loaded
      /\ Rewritten(f).mig = host.mig /\ Rewritten(f).units = host.units
  BY <1>1 DEF Rewritten, Hosts
<1> QED BY <1>2 DEF Coherent

LEMMA RestoreFilesStep ==
  ASSUME IInv, RestoreDockerConfig \/ RestorePolicy \/ RestorePolicyAnyway PROVE IInv'
<1>1. run.at \in {"r.docker", "r.policy", "r.policy.failing"} /\ run.at \in RestoreLabels
  BY DEF RestoreDockerConfig, RestorePolicy, RestorePolicyAnyway, At, RestoreLabels
<1>2. /\ host \in Hosts /\ Coherent(host)
      /\ \A f \in {"docker", "policy"} : Rewritten(f) \in Hosts /\ Coherent(Rewritten(f))
  BY <1>1, RestorePlaces, Found, RewrittenFacts
<1>3. CASE RestoreDockerConfig
  <2>1. CASE Does({Rewritten("docker")}, "r.policy")
    BY <1>1, <1>2, <2>1, RestoreGoes DEF Does, Keep, RestoreFree, RestoreGuard
  <2>2. CASE Fails({host}, "r.policy.failing")
    BY <1>1, <1>2, <2>2, RestoreCommandFails DEF RestoreFree
  <2> QED BY <1>3, <2>1, <2>2 DEF RestoreDockerConfig
<1>4. CASE RestorePolicy
  <2>1. CASE host' = Rewritten("policy") /\ Fence("r.unload") /\ Keep /\ UNCHANGED faults
    BY <1>1, <1>2, <2>1, RestoreFences DEF Keep
  <2>2. CASE Fails({host}, "r.failed")
    BY <1>1, <1>2, <2>2, RestoreCommandFails DEF RestoreFree
  <2> QED BY <1>4, <2>1, <2>2 DEF RestorePolicy
<1>5. CASE RestorePolicyAnyway
  BY <1>1, <1>2, <1>5, RestoreGoes DEF RestorePolicyAnyway, Does, Keep, RestoreFree, RestoreGuard
<1> QED BY <1>3, <1>4, <1>5

LEMMA RemoveModulesStep == ASSUME IInv, RemoveModules PROVE IInv'
<1>1. run.at = "r.unload" /\ run.at \in RestoreLabels BY DEF RemoveModules, At, RestoreLabels
<1>2. host \in Hosts /\ Coherent(host) /\ Quarantined(host) BY <1>1, RestorePlaces DEF RestoreFree
<1>3. CASE Skips("r.load") BY <1>1, <1>2, <1>3, RestoreGoes DEF Skips, RestoreGuard
<1>4. CASE Unload("r.load", "r.failed")
  <2>1. CASE Fails(Remains, "r.failed")
    BY <1>1, <1>2, <2>1, RemainsFacts, RestoreCommandFails DEF RestoreFree
  <2>2. CASE ~ Fails(Remains, "r.failed")
    <3>1. /\ Go("r.load") \/ Go("r.failed")
          /\ UNCHANGED <<base, want, outcome, faults>>
          /\ host' \in Hosts /\ Coherent(host') /\ SameBut(host, host')
      BY <1>2, <1>4, <2>2, UnloadFacts
    <3>2. Quarantined(host') BY <1>2, <3>1, KeptFacts
    <3> QED BY <1>1, <3>1, <3>2, RestoreGoes DEF RestoreGuard, RestoreFree
  <2> QED BY <2>1, <2>2
<1> QED BY <1>3, <1>4 DEF RemoveModules

LEMMA LoadModulesStep == ASSUME IInv, LoadModules PROVE IInv'
<1>1. run.at = "r.load" /\ run.at \in RestoreLabels BY DEF LoadModules, At, RestoreLabels
<1>2. host \in Hosts /\ Coherent(host) /\ Quarantined(host) BY <1>1, RestorePlaces DEF RestoreFree
<1>3. CASE Skips("r.mig") BY <1>1, <1>2, <1>3, RestoreGoes DEF Skips, RestoreGuard
<1>4. CASE Load(base.host.loaded.names, "r.load", "r.failed")
  <2>1. CASE Fails({host}, "r.failed")
    BY <1>1, <1>2, <2>1, RestoreCommandFails DEF RestoreFree
  <2>2. CASE ~ Fails({host}, "r.failed")
    <3>1. /\ Go("r.load") \/ Go("r.failed")
          /\ UNCHANGED <<base, want, outcome, faults>>
          /\ host' \in Hosts /\ Coherent(host') /\ SameBut(host, host')
      BY <1>2, <1>4, <2>2, LoadFacts
    <3>2. Quarantined(host') BY <1>2, <3>1, KeptFacts
    <3> QED BY <1>1, <3>1, <3>2, RestoreGoes DEF RestoreGuard, RestoreFree
  <2> QED BY <2>1, <2>2
<1> QED BY <1>3, <1>4 DEF LoadModules

(* To a statement that changes the partitions. *)
LEMMA RestorePartitions ==
  ASSUME IInv, run.at \in RestoreLabels, NEW l \in {"r.dci", "r.dgi", "r.create"}, Go(l),
         host' \in Hosts, Coherent(host'), Quarantined(host'), host'.loaded.names # {},
         l = "r.create" => host'.mig.mode = base.host.mig.mode,
         l # "r.create" => host'.mig.mode = "enabled",
         UNCHANGED <<base, want, outcome, faults>>
  PROVE  IInv'
<1>1. l \in WorkLabels \ PlanLabels /\ l \notin SettleLabels /\ l \in Labels
  BY DEF WorkLabels, PlanLabels, SettleLabels, RestoreLabels, Labels
<1>2. run' \in Runs /\ run'.at = l /\ run'.cmd = run.cmd
  BY <1>1, RestorePlaces, Found, Goes
<1>3. Place' = l BY <1>1, <1>2, LabelFacts DEF Place, Fencing
<1>4. Behind' BY DEF Behind, Quarantined
<1>5. Partitioning' BY <1>2 DEF Partitioning, At
<1>6. Audited' /\ Converging' /\ Settling' /\ Restoring'
  BY <1>2, <1>3 DEF Audited, At, PlannedLabels, Converging, Locked, InstallLabels, Settling,
                    SettleLabels, Restoring
<1>7. Reached' BY <1>4, <1>5, <1>6 DEF Reached
<1> QED BY <1>1, <1>2, <1>7, RestorePlaces, Found, Advance DEF SettleLabels

(* A decision from a fresh look at the machine. *)
LEMMA RefreshFacts ==
  ASSUME NEW hosts, NEW l, ThenRefresh(hosts, l), hosts \subseteq Hosts
  PROVE  /\ host' \in hosts /\ UNCHANGED <<base, want, outcome, faults>>
         /\ \/ Go("r.verify") \/ Go("r.failed")
            \/ Go(l) /\ host'.loaded.names # {} /\ host'.mig.mode = host'.mig.pending
<1>1. PICK h \in hosts : \E to \in Refreshed(h, l) : Does({h}, to) BY DEF ThenRefresh
<1>2. PICK to \in Refreshed(h, l) : Does({h}, to) BY <1>1
<1>3. host' = h /\ Go(to) /\ UNCHANGED <<base, want, outcome, faults>> BY <1>2 DEF Does, Keep
<1>4. PICK gpus \in Enumerations(h) :
        to = IF gpus THEN IF h.mig.mode = h.mig.pending THEN l
                          ELSE IF h.mig.pending = base.host.mig.mode THEN "r.verify" ELSE "r.failed"
             ELSE "r.failed"
  BY DEF Refreshed
<1>5. gpus => h.loaded.names # {} BY AuditFacts
<1> QED BY <1>3, <1>4, <1>5

LEMMA ObserveMigStep == ASSUME IInv, ObserveMig PROVE IInv'
<1>1. run.at = "r.mig" /\ run.at \in RestoreLabels BY DEF ObserveMig, At, RestoreLabels
<1>2. host \in Hosts /\ Coherent(host) /\ Quarantined(host) BY <1>1, RestorePlaces DEF RestoreFree
<1>3. CASE Skips("r.verify") BY <1>1, <1>2, <1>3, RestoreGoes DEF Skips, RestoreGuard
<1>4. CASE ThenRefresh({host}, NextMigStep)
  <2>1. /\ host' = host /\ UNCHANGED <<base, want, outcome, faults>>
        /\ \/ Go("r.verify") \/ Go("r.failed")
           \/ Go(NextMigStep) /\ host.loaded.names # {}
    BY <1>2, <1>4, RefreshFacts
  <2>2. CASE Go("r.verify") \/ Go("r.failed")
    BY <1>1, <1>2, <2>1, <2>2, RestoreGoes DEF RestoreFree, RestoreGuard
  <2>3. CASE Go(NextMigStep) /\ host.loaded.names # {}
    <3>1. CASE NextMigStep \in {"r.verify", "r.mode"}
      BY <1>1, <1>2, <2>1, <2>3, <3>1, RestoreGoes DEF RestoreGuard
    <3>2. CASE NextMigStep = "r.dci" /\ Geometry(Here) # "none"
      <4>1. host.mig.mode = "enabled" BY <3>2 DEF Geometry, Here, Audit
      <4> QED BY <1>1, <1>2, <2>1, <2>3, <3>2, <4>1, RestorePartitions
    <3>3. CASE NextMigStep = "r.create" /\ host.mig.mode = base.host.mig.mode
      BY <1>1, <1>2, <2>1, <2>3, <3>3, RestorePartitions
    <3> QED BY <3>1, <3>2, <3>3 DEF NextMigStep, ModeOrCreate
  <2> QED BY <2>1, <2>2, <2>3
<1> QED BY <1>3, <1>4 DEF ObserveMig

LEMMA RestoreDestroyComputeStep == ASSUME IInv, RestoreDestroyCompute PROVE IInv'
<1>1. /\ run.at = "r.dci" /\ run.at \in RestoreLabels /\ DestroyCompute("r.dgi", "r.failed")
  BY DEF RestoreDestroyCompute, At, RestoreLabels
<1>2. host \in Hosts /\ Coherent(host) /\ Quarantined(host) BY <1>1, RestorePlaces DEF RestoreFree
<1>3. host.loaded.names # {} /\ host.mig.mode = "enabled" BY <1>1 DEF IInv, Reached, Partitioning
<1>4. CASE Fails({host}, "r.failed") BY <1>1, <1>2, <1>4, RestoreCommandFails DEF RestoreFree
<1>5. CASE ~ Fails({host}, "r.failed")
  <2>1. /\ Go("r.dgi") \/ Go("r.failed")
        /\ UNCHANGED <<base, want, outcome, faults>>
        /\ host' \in Hosts /\ Coherent(host') /\ AllBut(host, host')
        /\ host'.loaded.names # {} /\ host'.mig.mode = "enabled"
    BY <1>1, <1>2, <1>3, <1>5, DestroyComputeFacts
  <2>2. Quarantined(host') BY <1>2, <2>1, KeptFacts DEF AllBut
  <2>3. CASE Go("r.dgi") BY <1>1, <2>1, <2>2, <2>3, RestorePartitions
  <2>4. CASE Go("r.failed") BY <1>1, <2>1, <2>2, <2>4, RestoreGoes DEF RestoreFree
  <2> QED BY <2>1, <2>3, <2>4
<1> QED BY <1>4, <1>5

LEMMA RestoreDestroyGpuStep == ASSUME IInv, RestoreDestroyGpu PROVE IInv'
<1>1. run.at = "r.dgi" /\ run.at \in RestoreLabels BY DEF RestoreDestroyGpu, At, RestoreLabels
<1>2. host \in Hosts /\ Coherent(host) /\ Quarantined(host) BY <1>1, RestorePlaces DEF RestoreFree
<1>3. host.loaded.names # {} /\ host.mig.mode = "enabled" BY <1>1 DEF IInv, Reached, Partitioning
<1>4. CASE Fails({host}, "r.failed") BY <1>1, <1>2, <1>4, RestoreCommandFails DEF RestoreFree
<1>5. CASE Does({GpuDestroyed(host)}, ModeOrCreate)
  <2>1. host' = Partitioned(host, "none") /\ "none" \in Layouts BY <1>5, DestroyedFacts DEF Does
  <2>2. /\ host' \in Hosts /\ AllBut(host, host') /\ Coherent(host')
        /\ host'.mig.mode = host.mig.mode
    BY <1>2, <1>3, <2>1, PartitionFacts
  <2>3. Quarantined(host') /\ host'.loaded.names # {} BY <1>2, <1>3, <2>2, KeptFacts DEF AllBut
  <2>4. Go(ModeOrCreate) /\ UNCHANGED <<base, want, outcome, faults>> BY <1>5 DEF Does, Keep
  <2>5. CASE ModeOrCreate = "r.mode"
    BY <1>1, <2>2, <2>3, <2>4, <2>5, RestoreGoes DEF RestoreGuard
  <2>6. CASE ModeOrCreate = "r.create" /\ host.mig.mode = base.host.mig.mode
    BY <1>1, <2>2, <2>3, <2>4, <2>6, RestorePartitions
  <2> QED BY <2>5, <2>6 DEF ModeOrCreate
<1> QED BY <1>4, <1>5 DEF RestoreDestroyGpu

LEMMA RestoreModeStep == ASSUME IInv, RestoreMode PROVE IInv'
<1>1. run.at = "r.mode" /\ run.at \in RestoreLabels BY DEF RestoreMode, At, RestoreLabels
<1>2. host \in Hosts /\ Coherent(host) /\ Quarantined(host) BY <1>1, RestorePlaces DEF RestoreFree
<1>3. CASE Fails({host}, "r.failed") BY <1>1, <1>2, <1>3, RestoreCommandFails DEF RestoreFree
<1>4. CASE ThenRefresh(ModeSet(host, base.host.mig.mode), "r.create")
  <2>1. base.host.mig.mode \in Modes BY <1>1, RestorePlaces, Found, Parts
  <2>2. \A h \in ModeSet(host, base.host.mig.mode) :
          /\ h \in Hosts /\ Coherent(h) /\ AllBut(host, h)
          /\ h.mig.pending = base.host.mig.mode
    BY <1>2, <2>1, ModeSetFacts
  <2>3. /\ host' \in ModeSet(host, base.host.mig.mode)
        /\ UNCHANGED <<base, want, outcome, faults>>
        /\ \/ Go("r.verify") \/ Go("r.failed")
           \/ Go("r.create") /\ host'.loaded.names # {} /\ host'.mig.mode = host'.mig.pending
    BY <1>4, <2>2, RefreshFacts
  <2>4. /\ host' \in Hosts /\ Coherent(host') /\ host'.mig.pending = base.host.mig.mode
        /\ Quarantined(host')
    BY <1>2, <2>2, <2>3, KeptFacts DEF AllBut
  <2>5. CASE Go("r.verify") \/ Go("r.failed")
    BY <1>1, <2>3, <2>4, <2>5, RestoreGoes DEF RestoreFree, RestoreGuard
  <2>6. CASE Go("r.create") /\ host'.loaded.names # {} /\ host'.mig.mode = host'.mig.pending
    BY <1>1, <2>3, <2>4, <2>6, RestorePartitions
  <2> QED BY <2>3, <2>5, <2>6
<1> QED BY <1>3, <1>4 DEF RestoreMode

LEMMA RestoreGeometryStep == ASSUME IInv, RestoreGeometry PROVE IInv'
<1>1. run.at = "r.create" /\ run.at \in RestoreLabels BY DEF RestoreGeometry, At, RestoreLabels
<1>2. host \in Hosts /\ Coherent(host) /\ Quarantined(host) BY <1>1, RestorePlaces DEF RestoreFree
<1>3. CASE Skips("r.verify") BY <1>1, <1>2, <1>3, RestoreGoes DEF Skips, RestoreGuard
<1>4. CASE Does({host}, "r.failed")
  BY <1>1, <1>2, <1>4, RestoreGoes DEF Does, Keep, RestoreFree, RestoreGuard
<1>5. CASE Fails({host}, "r.failed") BY <1>1, <1>2, <1>5, RestoreCommandFails DEF RestoreFree
<1>6. CASE base.host.mig.mode # "disabled" /\ Does({Partitioned(host, BaseGeometry)}, "r.verify")
  <2>1. base.host \in Hosts BY <1>1, RestorePlaces, Found
  <2>2. base.host.mig \in [mode : Modes, pending : Modes, parts : Layouts] BY <2>1, Parts
  <2>3. BaseGeometry \in Layouts
    BY <2>2 DEF BaseGeometry, Geometry, Audit, Layouts
  <2>4. host.loaded.names # {} /\ host.mig.mode = "enabled"
    BY <1>1, <1>6, <2>2 DEF IInv, Reached, Partitioning, At, Modes
  <2>5. host' = Partitioned(host, BaseGeometry) BY <1>6 DEF Does
  <2>6. host' \in Hosts /\ AllBut(host, host') /\ Coherent(host')
    BY <1>2, <2>3, <2>4, <2>5, PartitionFacts
  <2>7. Quarantined(host') BY <1>2, <2>6, KeptFacts DEF AllBut
  <2> QED BY <1>1, <1>6, <2>6, <2>7, RestoreGoes DEF Does, Keep, RestoreGuard
<1> QED BY <1>3, <1>4, <1>5, <1>6 DEF RestoreGeometry

LEMMA VerifyRestoredStep == ASSUME IInv, VerifyRestored PROVE IInv'
<1>1. run.at = "r.verify" /\ run.at \in RestoreLabels BY DEF VerifyRestored, At, RestoreLabels
<1>2. host \in Hosts /\ Coherent(host) /\ Quarantined(host) BY <1>1, RestorePlaces DEF RestoreFree
<1>3. UNCHANGED <<host, base, want, outcome, faults>> BY DEF VerifyRestored
<1>4. PICK gpus \in Enumerations(host) :
        LET a == Audit(host, gpus) IN
          IF FailedChecks(a) = {} THEN Go("r.release")
          ELSE IF CompletesAfterReboot(a) THEN Fence("r.reboot") ELSE Fence("r.unverified")
  BY DEF VerifyRestored
<1>5. CASE Fence("r.reboot") \/ Fence("r.unverified") BY <1>1, <1>2, <1>3, <1>5, RestoreFences
<1>6. CASE FailedChecks(Audit(host, gpus)) = {} /\ Go("r.release")
  <2>1. Core(host) = Core(base.host)
    BY <1>1, <1>2, <1>6, RestorePlaces, Found, BaselineFacts
  <2>2. "r.release" \in WorkLabels \ PlanLabels /\ "r.release" \notin SettleLabels
        /\ "r.release" \in Labels
    BY DEF WorkLabels, PlanLabels, SettleLabels, RestoreLabels, Labels
  <2>3. run' \in Runs /\ run'.at = "r.release" /\ run'.cmd = run.cmd
    BY <1>1, <1>6, <2>2, RestorePlaces, Found, Goes
  <2>4. Place' = "r.release" BY <2>3 DEF Place, Fencing
  <2>5. Behind' BY <1>2, <1>3 DEF Behind, Quarantined
  <2>6. Restoring' BY <1>3, <2>1 DEF Restoring
  <2>7. Audited' /\ Partitioning' /\ Converging' /\ Settling'
    BY <2>3, <2>4 DEF Audited, At, PlannedLabels, Partitioning, Converging, Locked, InstallLabels,
                      Settling, SettleLabels
  <2>8. Reached' BY <2>5, <2>6, <2>7 DEF Reached
  <2> QED BY <1>1, <1>2, <1>3, <2>2, <2>3, <2>8, RestorePlaces, Found, Advance
<1> QED BY <1>4, <1>5, <1>6

LEMMA ReleaseBaselineStep == ASSUME IInv, ReleaseBaseline PROVE IInv'
<1>1. run.at = "r.release" /\ run.at \in RestoreLabels BY DEF ReleaseBaseline, At, RestoreLabels
<1>2. host \in Hosts /\ Coherent(host) /\ Quarantined(host) BY <1>1, RestorePlaces DEF RestoreFree
<1>3. CASE Fails(PartlyReleased(base.host.units), "r.unreleased")
  <2>1. base.host.units \in [Launchers -> UnitStates] BY <1>1, RestorePlaces, Found, Parts
  <2>2. \A k \in PartlyReleased(base.host.units) : k \in Hosts /\ Coherent(k)
    BY <1>2, <2>1, ReleasedFacts, CoreFacts
  <2> QED BY <1>1, <1>3, <2>2, RestoreCommandFails DEF RestoreFree
<1>4. CASE /\ host' = [host EXCEPT !.units = base.host.units]
           /\ Ends("restored") /\ UNCHANGED <<base, want, faults>>
  <2>1. base.host.units \in [Launchers -> UnitStates] BY <1>1, RestorePlaces, Found, Parts
  <2>2. host' \in Hosts /\ Core(host') = Core(host) /\ host'.units = base.host.units
    BY <1>2, <1>4, <2>1, UnitFacts
  <2>3. Coherent(host') BY <1>2, <2>2, CoreFacts
  <2>4. Core(host) = Core(base.host) BY <1>1 DEF IInv, Reached, Restoring, At
  <2>5. RestoredIsBaseline' BY <1>4, <2>2, <2>4 DEF RestoredIsBaseline
  <2>6. ConvergedIsDesired' /\ SettledKeepsBaseline' /\ FailureQuarantined'
    BY <1>4 DEF Ends, ConvergedIsDesired, SettledKeepsBaseline, FailureQuarantined, Ended
  <2>7. "restored" \in Outcomes BY DEF Outcomes
  <2> QED BY <1>1, <1>4, <2>2, <2>3, <2>5, <2>6, <2>7, RestorePlaces, Found, Finishes DEF Told
<1> QED BY <1>3, <1>4 DEF ReleaseBaseline

LEMMA RestoreFailsStep ==
  ASSUME IInv, Unreleased \/ RestoreFails \/ RestoreEnds \/ EndsUnquarantined PROVE IInv'
<1>1. /\ run.at \in {"r.unreleased", "r.failed", "r.unverified", "r.reboot", "unquarantined"}
      /\ run.at \in RestoreLabels
  BY DEF Unreleased, RestoreFails, RestoreEnds, EndsUnquarantined, At, RestoreLabels
<1>2. host \in Hosts /\ Coherent(host) BY <1>1, RestorePlaces
<1>3. CASE Fence("r.unverified") /\ UNCHANGED <<host, base, want, outcome, faults>>
  BY <1>1, <1>2, <1>3, RestoreFences
<1>4. CASE /\ host' \in Requiesced(host)
           /\ Ends("compensation-failed") \/ Ends("unquarantined")
           /\ UNCHANGED <<base, want, faults>>
  <2>1. host' \in Hosts /\ Coherent(host') BY <1>2, <1>4, RequiescedFacts, CoreFacts
  <2> QED BY <1>1, <1>4, <2>1, RestorePlaces, Found, EndsQuietly DEF Outcomes
<1>5. CASE RestoreEnds
  <2>1. PICK how \in {"restore-failed", "reboot-required"} : Ends(how)
    BY <1>5 DEF RestoreEnds
  <2>2. UNCHANGED <<host, base, want, faults>> /\ Quarantined(host)
    BY <1>1, <1>5, RestorePlaces DEF RestoreEnds, RestoreFree
  <2> QED BY <1>1, <1>2, <2>1, <2>2, RestorePlaces, Found, EndsBehind
<1> QED BY <1>3, <1>4, <1>5 DEF Unreleased, RestoreFails, EndsUnquarantined

(* Every step of a restore keeps the invariant. *)
LEMMA RestoreStepSound == ASSUME IInv, RestoreStep PROVE IInv'
  BY ChecksStep, RestorePackagesStep, RestoreFilesStep, RemoveModulesStep, LoadModulesStep,
     ObserveMigStep, RestoreDestroyComputeStep, RestoreDestroyGpuStep, RestoreModeStep,
     RestoreGeometryStep, VerifyRestoredStep, ReleaseBaselineStep, RestoreFailsStep
     DEF RestoreStep

-----------------------------------------------------------------------------
(* An operation begins; what is not the program's doing. *)

LEMMA IdleRunFacts ==
  /\ Idle \in Runs /\ Idle.cmd = "none" /\ Idle.at = "idle" /\ Idle.next = "idle" /\ Idle.i = 1
  /\ "idle" \notin BehindLabels
  BY OrderFacts, LabelFacts DEF Idle, Runs, Labels, Audits, Audit, BehindLabels

LEMMA BeginStep ==
  ASSUME IInv, BeginInstall \/ BeginVerify \/ BeginLock
  PROVE  IInv'
<1>1. PICK cmd \in Commands, l \in {"i.plan", "s.plan"} : Begin(cmd, l)
  BY DEF BeginInstall, BeginVerify, BeginLock, Begin
<1>2. /\ run' \in Runs /\ run'.cmd = cmd /\ run'.at = l /\ cmd # "none"
  BY <1>1, IdleRunFacts, TransactionAssumption DEF Begin, Runs, Labels, WorkLabels, PlanLabels
<1>3. UNCHANGED <<host, base, want, outcome, faults>> BY <1>1 DEF Begin
<1>4. Place' = l /\ ~ Fencing' BY <1>2 DEF Place, Fencing
<1>5. Typed' /\ Consistent' BY <1>2, <1>3 DEF IInv, Typed, Consistent
<1>6. InPlace' BY <1>2, <1>4 DEF InPlace, PlanLabels, SettleLabels
<1>7. Quarantining' BY <1>4 DEF Quarantining
<1>8. Reached'
  BY <1>2, <1>4 DEF Reached, Behind, BehindLabels, OpenLabels, PlanLabels, Audited, PlannedLabels,
     Partitioning, Converging, Locked, InstallLabels, Settling, SettleLabels, Restoring, At
<1>9. Told'
  BY <1>2 DEF Told, RestoredIsBaseline, ConvergedIsDesired, SettledKeepsBaseline,
     FailureQuarantined, Ended, Running
<1> QED BY <1>5, <1>6, <1>7, <1>8, <1>9 DEF IInv

LEMMA BeginRollbackStep == ASSUME IInv, BeginRollback PROVE IInv'
<1>1. /\ run' = [Idle EXCEPT !.cmd = "rollback", !.at = "mask", !.next = "r.boundary"]
      /\ base.taken /\ UNCHANGED <<host, base, want, outcome, faults>>
  BY DEF BeginRollback
<1>2. /\ run' \in Runs /\ run'.cmd = "rollback" /\ run'.at = "mask" /\ run'.next = "r.boundary"
      /\ run'.i = 1
  BY <1>1, IdleRunFacts DEF Runs, Labels, WorkLabels, RestoreLabels
<1>3. Place' = "r.boundary" /\ Fencing' BY <1>2 DEF Place, Fencing
<1>4. Typed' /\ Consistent' BY <1>1, <1>2 DEF IInv, Typed, Consistent
<1>5. InPlace' BY <1>1, <1>2, <1>3 DEF InPlace, FenceLabels
<1>6. Quarantining' BY <1>2, OrderFacts DEF Quarantining, At
<1>7. Reached'
  BY <1>2, <1>3, LabelFacts DEF Reached, Behind, BehindLabels, Audited, PlannedLabels,
     Partitioning, Converging, Locked, InstallLabels, Settling, SettleLabels, Restoring, At
<1>8. Told'
  BY <1>2 DEF Told, RestoredIsBaseline, ConvergedIsDesired, SettledKeepsBaseline,
     FailureQuarantined, Ended, Running
<1> QED BY <1>4, <1>5, <1>6, <1>7, <1>8 DEF IInv

LEMMA KillStep == ASSUME IInv, Kill \/ PowerLoss PROVE IInv'
<1>1. host \in Hosts /\ Coherent(host) /\ faults \in 0..MaxFaults
  BY DEF IInv, Typed, Consistent
<1>2. host' \in Hosts /\ Coherent(host') BY <1>1, BootedFacts DEF Kill, PowerLoss
<1>3. faults' \in 0..MaxFaults BY <1>1, HostAssumption DEF Kill, PowerLoss, Spent
<1>4. PICK how \in {"refused", "killed"} : Ends(how)
  BY DEF Kill, PowerLoss, Stops, Ends
<1>5. how \in Outcomes BY DEF Outcomes
<1> QED BY <1>2, <1>3, <1>4, <1>5, EndsQuietly DEF Kill, PowerLoss

(* Somebody else changes a file or a staged mode while the launchers go down. *)
LEMMA InterferesStep == ASSUME IInv, Interferes PROVE IInv'
<1>1. host \in Hosts /\ Coherent(host) /\ faults \in 0..MaxFaults
  BY DEF IInv, Typed, Consistent
<1>2. UNCHANGED <<base, want, run, outcome>> BY DEF Interferes
<1>3. /\ host' \in Hosts /\ Coherent(host') /\ Observed(host', host) /\ host'.units = host.units
  <2>1. CASE host' = [host EXCEPT !.files["docker"] = "script"]
    BY <1>1, <2>1 DEF Hosts, Contents, Coherent, Observed
  <2>2. CASE \E v \in Modes \ {host.mig.mode} : host' = [host EXCEPT !.mig.pending = v]
    BY <1>1, <2>2 DEF Hosts, Modes, Coherent, Observed
  <2> QED BY <2>1, <2>2 DEF Interferes
<1>4. faults' \in 0..MaxFaults BY <1>1, HostAssumption DEF Interferes, Spent
<1>5. /\ run.at \in {"i.snapshot", "mask", "stop"} /\ Place \in {"i.snapshot", "i.boundary", "s.boundary"}
  BY DEF Interferes, At, Place, Fencing
<1>6. Place' = Place /\ (Fencing' <=> Fencing) BY <1>2 DEF Place, Fencing
<1>7. Typed' /\ Consistent' /\ InPlace' /\ Quarantining'
  BY <1>2, <1>3, <1>4, <1>6
     DEF IInv, Typed, Consistent, Coherent, InPlace, Quarantining, Down, At
<1>8. Behind' BY <1>2, <1>5, LabelFacts DEF Behind, BehindLabels, OpenLabels, PlanLabels
<1>9. Audited' BY <1>2, <1>3, <1>5, <1>6 DEF IInv, Reached, Audited, At, Observed, PlannedLabels
<1>10. Partitioning' /\ Converging' /\ Settling' /\ Restoring'
  BY <1>2, <1>5, <1>6 DEF Partitioning, Converging, Locked, At, InstallLabels, Settling,
                          SettleLabels, Restoring
<1>11. Told'
  BY <1>2, <1>5 DEF IInv, InPlace, Told, RestoredIsBaseline, ConvergedIsDesired,
     SettledKeepsBaseline, FailureQuarantined, Ended, Running
<1> QED BY <1>7, <1>8, <1>9, <1>10, <1>11 DEF IInv, Reached

LEMMA RebootStep == ASSUME IInv, Reboot PROVE IInv'
<1>1. run.at = "idle" /\ host \in Hosts BY DEF Reboot, Running, IInv, InPlace, Typed
<1>2. host' = Booted(host) /\ UNCHANGED <<base, want, run, outcome, faults>> BY DEF Reboot
<1>3. /\ host' \in Hosts /\ Coherent(host')
      /\ Quarantined(host) => Quarantined(host')
  BY <1>1, <1>2, BootedFacts
<1>4. Typed' /\ Consistent' /\ InPlace' BY <1>2, <1>3 DEF IInv, Typed, Consistent, InPlace, Place, Fencing
<1>5. Place' = "idle" /\ ~ Fencing' BY <1>1, <1>2 DEF Place, Fencing
<1>6. Quarantining' BY <1>5 DEF Quarantining
<1>7. Reached'
  BY <1>1, <1>2, <1>5, IdleRunFacts
     DEF Reached, Behind, Audited, PlannedLabels, Partitioning, Converging, Locked,
         InstallLabels, Settling, SettleLabels, Restoring, At
<1>8. Told'
  BY <1>2, <1>3 DEF Reboot, Owed, IInv, Told, RestoredIsBaseline, ConvergedIsDesired,
     SettledKeepsBaseline, FailureQuarantined, Ended, Running, Quarantined
<1> QED BY <1>4, <1>6, <1>7, <1>8 DEF IInv

-----------------------------------------------------------------------------
(* The theorems. *)

LEMMA InitSound == ASSUME Init PROVE IInv
<1>1. Typed
  BY IdleRunFacts, TransactionAssumption, HostAssumption DEF Init, NoBase, Typed, Outcomes
<1>2. Consistent BY TransactionAssumption DEF Init, NoBase, Consistent
<1>3. Place = "idle" /\ ~ Fencing /\ run.at = "idle" /\ run.cmd = "none"
  BY IdleRunFacts DEF Init, Place, Fencing
<1>4. InPlace /\ Quarantining BY <1>3 DEF InPlace, Quarantining, SettleLabels
<1>5. Reached
  BY <1>3, IdleRunFacts
     DEF Reached, Behind, Audited, PlannedLabels, Partitioning, Converging, Locked,
         InstallLabels, Settling, SettleLabels, Restoring, At
<1>6. Told
  BY DEF Init, Told, RestoredIsBaseline, ConvergedIsDesired, SettledKeepsBaseline,
     FailureQuarantined, Ended
<1> QED BY <1>1, <1>2, <1>4, <1>5, <1>6 DEF IInv

LEMMA NextSound == ASSUME IInv, [Next]_hostVars PROVE IInv'
<1>1. CASE UNCHANGED hostVars
  BY <1>1 DEF hostVars, IInv, Typed, Consistent, InPlace, Place, Fencing, Quarantining, Down,
     Reached, Behind, Audited, Observed, Partitioning, Converging, Locked, Verified, DesiredMig,
     PolicyDrifts, Settling, Restoring, Told, RestoredIsBaseline, ConvergedIsDesired, AsDesired,
     SettledKeepsBaseline, FailureQuarantined, Ended, Running, Quarantined, At, OnDisk, Coherent, Core
<1>2. CASE Next
  BY <1>2, BeginStep, BeginRollbackStep, RollbackBoundaryStep, MaskLauncherStep,
     StopLauncherStep, QuarantineFailsStep, InstallStepSound, SettleStepSound, RestoreStepSound, KillStep,
     InterferesStep, RebootStep
     DEF Next, Program
<1> QED BY <1>1, <1>2

(* IInv holds in every reachable state, for any machines, launchers and faults. *)
THEOREM Invariance == Spec => []IInv
<1>1. Init => IInv BY InitSound
<1>2. IInv /\ [Next]_hostVars => IInv' BY NextSound
<1> QED BY <1>1, <1>2, PTL DEF Spec

(* Machine, snapshot and operation keep the shape the code gives them. *)
THEOREM TypeCorrectness == Spec => []TypeOK
<1>1. IInv => TypeOK BY DEF IInv, Typed, Runs, TypeOK
<1> QED BY <1>1, Invariance, PTL

(* A rollback that says "restored", after whatever attempts, kills and reboots, *)
(* leaves the machine of the snapshot, launchers included.                      *)
THEOREM Restored == Spec => []RestoredIsBaseline
<1>1. IInv => RestoredIsBaseline BY DEF IInv, Told
<1> QED BY <1>1, Invariance, PTL

(* An install that says "converged" leaves every part of the desired state. *)
THEOREM Converged == Spec => []ConvergedIsDesired
<1>1. IInv => ConvergedIsDesired BY DEF IInv, Told
<1> QED BY <1>1, Invariance, PTL

(* A verify or lock that succeeds keeps packages, launchers and partitions. *)
THEOREM SettleKeeps == Spec => []SettledKeepsBaseline
<1>1. IInv => SettledKeepsBaseline BY DEF IInv, Told
<1> QED BY <1>1, Invariance, PTL

(* A failed rollback, verify or lock leaves every launcher stopped and masked, or  *)
(* its report says that the last quarantine is unverified: every mask and every    *)
(* stop may fail, a release may break off, scripts may start a launcher.           *)
THEOREM FailsClosed == Spec => []FailureQuarantined
<1>1. IInv => FailureQuarantined BY DEF IInv, Told
<1> QED BY <1>1, Invariance, PTL

-----------------------------------------------------------------------------
(* What moves where. *)

(* An install or settling in the open changes nothing of the machine. *)
LEMMA InstallOpen == ASSUME InstallStep, run.at \notin BehindLabels PROVE host' = host
<1>1. ASSUME NEW l \in InstallLabels \ {"i.container", "i.compensate"}, run.at = l PROVE FALSE
  BY <1>1 DEF BehindLabels, WorkLabels, OpenLabels, PlanLabels, InstallLabels
<1>2. CASE PlanInstall \/ TakeSnapshot BY <1>2 DEF PlanInstall, TakeSnapshot
<1>3. CASE PrePackageBoundary \/ LockPolicy \/ InstallPackages \/ PostPackageBoundary
  BY <1>1, <1>3 DEF PrePackageBoundary, LockPolicy, InstallPackages, PostPackageBoundary,
                    At, InstallLabels
<1>4. CASE Teardown \/ InstallDestroyCompute \/ InstallDestroyGpu \/ PrepareUnload \/ PrepareLoad
  BY <1>1, <1>4 DEF Teardown, InstallDestroyCompute, InstallDestroyGpu, PrepareUnload,
                    PrepareLoad, At, InstallLabels
<1>5. CASE ReconcileMig \/ SetMode \/ CreateGeometry \/ ConfigureDocker \/ VerifyCore \/ ReleaseTarget
  BY <1>1, <1>5 DEF ReconcileMig, SetMode, CreateGeometry, ConfigureDocker, VerifyCore,
                    ReleaseTarget, At, InstallLabels
<1>6. CASE VerifyContainer BY <1>6 DEF VerifyContainer, Fails
<1>7. CASE Compensate BY <1>7 DEF Compensate, Compensates
<1>8. CASE Reaudit BY <1>8 DEF Reaudit
<1> QED BY <1>2, <1>3, <1>4, <1>5, <1>6, <1>7, <1>8 DEF InstallStep

LEMMA SettleOpen == ASSUME SettleStep, run.at \notin BehindLabels PROVE host' = host
<1>1. ASSUME NEW l \in {"s.boundary", "s.policy", "s.unload", "s.load", "s.release", "s.failed"},
             run.at = l
      PROVE  FALSE
  BY <1>1 DEF BehindLabels, WorkLabels, OpenLabels, PlanLabels, SettleLabels
<1>2. CASE PlanSettle \/ SettleBoundary \/ SettleCore \/ VerifyServices \/ Abandon
  BY <1>2 DEF PlanSettle, SettleBoundary, SettleCore, VerifyServices, Abandon
<1>3. CASE SettleUnload \/ SettleLoad \/ ApplyPolicy \/ ReleaseSettled \/ SettleFails
  BY <1>1, <1>3 DEF SettleUnload, SettleLoad, ApplyPolicy, ReleaseSettled, SettleFails, At
<1> QED BY <1>2, <1>3 DEF SettleStep

(* A restore in the open writes files and stops launchers. *)
LEMMA RestoreOpen ==
  ASSUME IInv, RestoreStep, run.at \notin BehindLabels
  PROVE  host'.loaded = host.loaded /\ host'.mig = host.mig
<1>1. ASSUME NEW l \in RestoreLabels \ RestoreFree, run.at = l PROVE FALSE
  BY <1>1 DEF BehindLabels, WorkLabels, OpenLabels, PlanLabels, RestoreLabels, RestoreFree
<1>2. host \in Hosts BY DEF IInv, Typed
<1>3. \A f \in {"docker", "policy"} : Rewritten(f).loaded = host.loaded /\ Rewritten(f).mig = host.mig
  BY <1>2 DEF Rewritten, Hosts
<1>4. CASE RestoreDockerConfig
  BY <1>3, <1>4 DEF RestoreDockerConfig, Does, Fails
<1>5. CASE RestorePolicy
  BY <1>3, <1>5 DEF RestorePolicy, Fails
<1>6. CASE RestorePolicyAnyway
  BY <1>3, <1>6 DEF RestorePolicyAnyway, Does
<1>7. CASE Unreleased \/ RestoreFails \/ EndsUnquarantined
  <2>1. host' = host \/ host' \in Requiesced(host)
    BY <1>7 DEF Unreleased, RestoreFails, EndsUnquarantined
  <2> QED BY <1>2, <2>1, RequiescedFacts, CoreFacts
<1>8. CASE Checks \/ Refuses \/ RestorePackages \/ RemoveModules \/ LoadModules \/ ObserveMig
  BY <1>1, <1>8 DEF Checks, Refuses, RestorePackages, RemoveModules, LoadModules, ObserveMig, At,
                    RestoreLabels, RestoreFree
<1>9. CASE RestoreDestroyCompute \/ RestoreDestroyGpu \/ RestoreMode \/ RestoreGeometry
           \/ VerifyRestored \/ ReleaseBaseline
  BY <1>1, <1>9 DEF RestoreDestroyCompute, RestoreDestroyGpu, RestoreMode, RestoreGeometry,
                    VerifyRestored, ReleaseBaseline, At, RestoreLabels, RestoreFree
<1>10. CASE RestoreEnds BY <1>10 DEF RestoreEnds
<1> QED BY <1>4, <1>5, <1>6, <1>7, <1>8, <1>9, <1>10 DEF RestoreStep

(* The quarantine touches the launchers only. *)
LEMMA QuarantineOpen ==
  ASSUME IInv, MaskLauncher \/ StopLauncher \/ QuarantineFails
  PROVE  Core(host') = Core(host)
<1>0. CASE QuarantineFails BY <1>0, QuarantineFailsFacts
<1>1. CASE MaskLauncher \/ StopLauncher
  <2>1. Fencing BY <1>1 DEF MaskLauncher, StopLauncher, Fencing, At
  <2> QED BY <1>1, <2>1, FencingFacts, QuarantineFacts DEF MaskLauncher, StopLauncher
<1> QED BY <1>0, <1>1

LEMMA MovesBehindMasks ==
  ASSUME IInv, Next, Running, faults' = faults, ~ Quarantined(host)
  PROVE  host'.loaded = host.loaded /\ host'.mig = host.mig
<1>1. run.at \notin BehindLabels BY DEF IInv, Reached, Behind
<1>2. faults \in Nat BY HostAssumption DEF IInv, Typed
<1>3. ~ Kill /\ ~ PowerLoss /\ ~ Interferes
  BY <1>2 DEF Kill, PowerLoss, Interferes, Spent
<1>4. ~ BeginInstall /\ ~ BeginVerify /\ ~ BeginLock /\ ~ BeginRollback /\ ~ Reboot
  BY DEF BeginInstall, BeginVerify, BeginLock, Begin, BeginRollback, Reboot
<1>5. CASE RollbackBoundary BY <1>5 DEF RollbackBoundary
<1>6. CASE MaskLauncher \/ StopLauncher \/ QuarantineFails BY <1>6, QuarantineOpen, CoreFacts
<1>7. CASE InstallStep BY <1>1, <1>7, InstallOpen
<1>8. CASE SettleStep BY <1>1, <1>8, SettleOpen
<1>9. CASE RestoreStep BY <1>1, <1>9, RestoreOpen
<1> QED BY <1>3, <1>4, <1>5, <1>6, <1>7, <1>8, <1>9 DEF Next, Program

(* The program never touches modules or MIG under a launcher that runs or may be *)
(* started, though the quarantine was made many steps before.                    *)
THEOREM ModulesBehindMasks == Spec => ModulesMoveBehindMasks
<1>1. IInv /\ [Next]_hostVars =>
        [/\ Running /\ faults' = faults
         /\ host'.loaded # host.loaded \/ host'.mig # host.mig
         => Quarantined(host)]_hostVars
  BY MovesBehindMasks
<1> QED BY <1>1, Invariance, PTL DEF Spec, ModulesMoveBehindMasks

-----------------------------------------------------------------------------
(* An install of a machine that is as desired. *)

(* NothingToDo strengthens IInv for such an install: the machine stays the one of *)
(* the snapshot but for what somebody else staged, no statement that changes the  *)
(* GPU (nor one of another command) is ever reached, and a restore finds nothing  *)
(* to restore.                                                                    *)
Committed == run.cmd = "install" /\ run.at \notin {"i.plan", "i.snapshot"} /\ AsDesired(base.host)
SkippedLabels == {"i.dci", "i.dgi", "i.load", "i.mdci", "i.mdgi", "i.mode", "i.create",
                  "r.dci", "r.dgi", "r.mode", "r.create", "s.plan", "r.boundary"}
LookedLabels  == RestoreLabels \ {"r.boundary", "r.unreleased", "r.failed", "r.unverified",
                                  "unquarantined"}
AppliedLabels == {"r.packages", "r.docker", "r.policy", "r.unload", "r.load", "r.mig"}
NothingToDo ==
  Committed =>
    /\ Observed(host, base.host)
    /\ Place \notin SkippedLabels
    /\ Place \in LookedLabels => Observed(run.audit.host, base.host)
    /\ Place \in AppliedLabels => GeometryComplete(run.audit)

(* What such a step does to the machine: nothing, when it is the snapshot. *)
Calm == /\ Observed(host', host)
        /\ Core(host) = Core(base.host) => Core(host') = Core(host)

LEMMA CalmFacts ==
  ASSUME IInv, IInv', Core(host') = Core(host) PROVE Calm
  BY CoreFacts DEF IInv, Typed, Calm, Observed

(* From l to l, with the audit that is held. *)
LEMMA Onward ==
  ASSUME IInv, NEW l \in WorkLabels,
         \/ Go(l) \/ Fence(l) \/ run' = [run EXCEPT !.at = l, !.disturbed = TRUE]
  PROVE  Place' = l /\ run'.cmd = run.cmd /\ run'.audit = run.audit
<1>1. run \in Runs /\ l \notin {"mask", "stop"} BY LabelFacts DEF IInv, Typed
<1>2. CASE Go(l) \/ run' = [run EXCEPT !.at = l, !.disturbed = TRUE]
  BY <1>1, <1>2 DEF Go, Runs, Place, Fencing
<1>3. CASE Fence(l) BY <1>1, <1>3 DEF Fence, Runs, Place, Fencing
<1> QED BY <1>2, <1>3

LEMMA StaysCalm ==
  ASSUME IInv, IInv', NothingToDo, Committed, Calm, UNCHANGED <<base, want>>,
         run'.cmd = run.cmd, Place' \notin SkippedLabels,
         Place' \in LookedLabels => Observed(run'.audit.host, base.host),
         Place' \in AppliedLabels => GeometryComplete(run'.audit)
  PROVE  NothingToDo'
<1>1. Observed(host', base.host)
  BY DEF NothingToDo, Calm, Observed
<1> QED BY <1>1 DEF NothingToDo, Observed

LEMMA OnwardCalm ==
  ASSUME IInv, IInv', NothingToDo, Committed, Calm, UNCHANGED <<base, want>>,
         NEW l \in WorkLabels \ SkippedLabels,
         \/ Go(l) \/ Fence(l) \/ run' = [run EXCEPT !.at = l, !.disturbed = TRUE],
         l \in LookedLabels => Place \in LookedLabels,
         l \in AppliedLabels => Place \in AppliedLabels
  PROVE  NothingToDo'
  BY Onward, StaysCalm DEF NothingToDo

(* An install that ended commits nothing. *)
LEMMA EndsCalm == ASSUME run' = Idle PROVE NothingToDo'
  BY IdleRunFacts DEF NothingToDo, Committed

(* The plan of such an install is empty. *)
LEMMA EmptyPlan ==
  ASSUME IInv, Committed, run.at \in PlannedLabels
  PROVE  /\ ~ NeedsPackages(Plan) /\ ~ ResetPlanned(Plan) /\ ~ MigDrifts(Audit(Plan, TRUE))
         /\ ~ PolicyDrifts(Plan)
<1>1. Core(Plan) = Core(base.host) BY PlannedFound DEF Plan
<1>2. AsDesired(base.host) BY DEF Committed
<1>3. /\ Plan.packages = DesiredPackages /\ Plan.loaded.build = "new" /\ Plan.mig = DesiredMig
      /\ ~ PolicyDrifts(Plan)
  BY <1>1, <1>2, CoreFacts DEF AsDesired
<1>4. OnDisk(Plan) = "new" BY <1>3 DEF OnDisk, DesiredPackages
<1>5. ~ MigDrifts(Audit(Plan, TRUE))
  BY <1>3 DEF MigDrifts, Audit, DesiredMig, Geometry, GeometryComplete
<1> QED BY <1>3, <1>4, <1>5 DEF NeedsPackages, ResetPlanned, NeedsDriver

LEMMA InstallCalm ==
  ASSUME IInv, IInv', NothingToDo, Committed, InstallStep
  PROVE  NothingToDo' /\ Calm
<1> USE DEF Committed
<1>1. ASSUME host' = host PROVE Calm BY <1>1, CalmFacts
<1>2. ASSUME NEW l \in InstallLabels \ SkippedLabels, UNCHANGED <<host, base, want>>,
             \/ Go(l) \/ Fence(l) \/ run' = [run EXCEPT !.at = l, !.disturbed = TRUE]
      PROVE  NothingToDo' /\ Calm
  <2>1. /\ l \in WorkLabels \ SkippedLabels /\ l \notin LookedLabels /\ l \notin AppliedLabels
    BY <1>2 DEF WorkLabels, InstallLabels, RestoreLabels, LookedLabels, AppliedLabels
  <2> QED BY <1>1, <1>2, <2>1, OnwardCalm
<1>3. {"i.packages", "i.boundary2", "i.reaudit", "i.teardown", "i.unload", "i.reconcile", "i.docker",
       "i.verify", "i.release", "i.container", "i.compensate"} \subseteq InstallLabels \ SkippedLabels
  BY DEF InstallLabels, SkippedLabels
<1>4. CASE LockPolicy
  <2>1. run.at = "i.lock" /\ run.at \in PlannedLabels BY <1>4 DEF LockPolicy, At, PlannedLabels
  <2> QED BY <1>2, <1>3, <1>4, <2>1, EmptyPlan DEF LockPolicy, Skips
<1>5. CASE InstallPackages
  <2>1. run.at = "i.packages" /\ run.at \in PlannedLabels
    BY <1>5 DEF InstallPackages, At, PlannedLabels
  <2> QED BY <1>2, <1>3, <1>5, <2>1, EmptyPlan DEF InstallPackages
<1>6. CASE Teardown \/ PrepareUnload
  <2>1. run.at \in PlannedLabels BY <1>6 DEF Teardown, PrepareUnload, At, PlannedLabels
  <2> QED BY <1>2, <1>3, <1>6, <2>1, EmptyPlan DEF Teardown, PrepareUnload, Skips
<1>7. CASE ReconcileMig
  <2>1. run.at \in PlannedLabels BY <1>7 DEF ReconcileMig, At, PlannedLabels
  <2>2. Skips("i.compensate") \/ Skips("i.docker")
    BY <1>7, <2>1, EmptyPlan DEF ReconcileMig
  <2> QED BY <1>2, <1>3, <2>2 DEF Skips
<1>8. CASE InstallDestroyCompute \/ InstallDestroyGpu \/ PrepareLoad \/ SetMode \/ CreateGeometry
  <2>1. run.at \in SkippedLabels /\ run.at \in PlannedLabels
    BY <1>8 DEF InstallDestroyCompute, InstallDestroyGpu, PrepareLoad, SetMode, CreateGeometry, At,
                SkippedLabels, PlannedLabels
  <2>2. Place = run.at BY <2>1, PlannedFound, Found
  <2> QED BY <2>1, <2>2 DEF NothingToDo
<1>9. CASE PostPackageBoundary \/ VerifyCore
  <2>1. /\ UNCHANGED <<host, base, want>>
        /\ Go("i.teardown") \/ Go("i.release") \/ Fence("i.reaudit")
    BY <1>9 DEF PostPackageBoundary, VerifyCore, Boundary
  <2> QED BY <1>2, <1>3, <2>1
<1>10. CASE Compensate BY <1>2, <1>3, <1>10 DEF Compensate, Compensates
<1>11. CASE ConfigureDocker
  <2>1. CASE Fails({host}, "i.compensate") BY <1>2, <1>3, <2>1 DEF Fails, Keep
  <2>2. CASE Does({[host EXCEPT !.files["docker"] = "set"]}, "i.verify")
    <3>1. host \in Hosts BY DEF IInv, Typed
    <3>2. /\ host' \in Hosts /\ host'.packages = host.packages /\ host'.loaded = host.loaded
          /\ host'.mig = host.mig /\ host'.files = [host.files EXCEPT !["docker"] = "set"]
      <4>1. host' = [host EXCEPT !.files["docker"] = "set"] BY <2>2 DEF Does
      <4> QED BY <3>1, <4>1 DEF IInv, Typed, Hosts, Contents
    <3>3. base.host.files["docker"] = "set" BY DEF AsDesired
    <3>4. Core(host) = Core(base.host) => host'.files = host.files
      BY <3>1, <3>2, <3>3, Parts, CoreFacts
    <3>5. Calm BY <3>2, <3>4 DEF Calm, Observed, Core
    <3>6. "i.verify" \in WorkLabels \ SkippedLabels /\ "i.verify" \notin LookedLabels
          /\ "i.verify" \notin AppliedLabels
      BY DEF WorkLabels, InstallLabels, SkippedLabels, RestoreLabels, LookedLabels, AppliedLabels
    <3> QED BY <2>2, <3>5, <3>6, OnwardCalm DEF Does, Keep
  <2> QED BY <1>11, <2>1, <2>2 DEF ConfigureDocker
<1>12. CASE ReleaseTarget
  <2>1. CASE Fails(PartlyReleased(TargetUnits), "i.compensate")
    <3>1. TargetUnits \in [Launchers -> UnitStates] /\ host \in Hosts
      BY Parts, OrderFacts DEF IInv, Typed, TargetUnits, UnitStates
    <3>2. Core(host') = Core(host) /\ UNCHANGED <<base, want>>
          /\ run' = [run EXCEPT !.at = "i.compensate", !.disturbed = TRUE]
      BY <2>1, <3>1, ReleasedFacts DEF Fails, Keep
    <3>3. "i.compensate" \in WorkLabels \ SkippedLabels /\ "i.compensate" \notin LookedLabels
          /\ "i.compensate" \notin AppliedLabels
      BY DEF WorkLabels, InstallLabels, SkippedLabels, RestoreLabels, LookedLabels, AppliedLabels
    <3> QED BY <3>2, <3>3, CalmFacts, OnwardCalm
  <2>2. CASE Does({[host EXCEPT !.units = TargetUnits]}, "i.container")
    <3>1. host' = [host EXCEPT !.units = TargetUnits] /\ host \in Hosts BY <2>2 DEF Does, IInv, Typed
    <3>2. Core(host') = Core(host) BY <3>1 DEF Core, Hosts
    <3>3. Calm BY <3>2, CalmFacts
    <3>4. "i.container" \in WorkLabels \ SkippedLabels /\ "i.container" \notin LookedLabels
          /\ "i.container" \notin AppliedLabels
      BY DEF WorkLabels, InstallLabels, SkippedLabels, RestoreLabels, LookedLabels, AppliedLabels
    <3> QED BY <2>2, <3>3, <3>4, OnwardCalm DEF Does, Keep
  <2> QED BY <1>12, <2>1, <2>2 DEF ReleaseTarget
<1>13. CASE VerifyContainer
  <2>1. CASE Fails({host}, "i.compensate") BY <1>2, <1>3, <2>1 DEF Fails, Keep
  <2>2. CASE Ends("converged") /\ UNCHANGED host BY <1>1, <2>2, EndsCalm DEF Ends
  <2> QED BY <1>13, <2>1, <2>2 DEF VerifyContainer
<1>14. CASE PrePackageBoundary
  <2>1. UNCHANGED <<host, base, want>> BY <1>14 DEF PrePackageBoundary
  <2>2. CASE Fence("i.reaudit") BY <1>2, <1>3, <2>1, <2>2
  <2>3. CASE ~ Fence("i.reaudit")
    <3>1. PICK a : run' = [run EXCEPT !.at = "i.lock", !.audit = a]
      BY <1>14, <2>3 DEF PrePackageBoundary
    <3>2. run'.at = "i.lock" /\ run'.cmd = run.cmd
      BY <3>1 DEF IInv, Typed, Runs
    <3>3. Place' = "i.lock" BY <3>2 DEF Place, Fencing
    <3> QED BY <1>1, <2>1, <3>2, <3>3, StaysCalm DEF SkippedLabels, RestoreLabels, LookedLabels, AppliedLabels
  <2> QED BY <2>2, <2>3
<1>15. CASE Reaudit
  <2>1. UNCHANGED <<host, base, want>> BY <1>15 DEF Reaudit
  <2>2. PICK gpus \in Enumerations(host) :
          run' = [run EXCEPT !.at = "r.check", !.audit = Audit(host, gpus)]
    BY <1>15 DEF Reaudit
  <2>3. run'.at = "r.check" /\ run'.cmd = run.cmd /\ run'.audit.host = host
    BY <2>2 DEF IInv, Typed, Runs, Audit
  <2>4. Place' = "r.check" BY <2>3 DEF Place, Fencing
  <2>5. Observed(host, base.host) BY DEF NothingToDo
  <2> QED BY <1>1, <2>1, <2>3, <2>4, <2>5, StaysCalm DEF SkippedLabels, AppliedLabels
<1>16. CASE PlanInstall \/ TakeSnapshot BY <1>16 DEF PlanInstall, TakeSnapshot, At
<1> QED BY <1>4, <1>5, <1>6, <1>7, <1>8, <1>9, <1>10, <1>11, <1>12, <1>13, <1>14, <1>15, <1>16
        DEF InstallStep

(* The audit of the compensation finds the snapshot. *)
LEMMA NothingToRestore ==
  ASSUME IInv, NothingToDo, Committed, Place \in LookedLabels
  PROVE  /\ Delta(run.audit.host) = {} /\ ~ Reset
         /\ Place \in AppliedLabels => ~ MigRequired(run.audit)
<1> DEFINE h == run.audit.host
<1>1. Observed(h, base.host) BY DEF NothingToDo
<1>2. h.packages = base.host.packages /\ h.loaded = base.host.loaded
      /\ h.mig.mode = base.host.mig.mode /\ h.mig.parts = base.host.mig.parts
  BY <1>1 DEF Observed
<1> HIDE DEF h
<1>3. Delta(h) = {} BY <1>2 DEF Delta, Missing, Added
<1>4. ModuleMatches(h) BY <1>2 DEF ModuleMatches, OnDisk
<1>5. base.host.mig.pending = base.host.mig.mode
  BY LabelFacts DEF AsDesired, DesiredMig, Committed
<1>6. CASE Place \in AppliedLabels
  <2>1. run.audit.gpus /\ h.mig.mode = h.mig.pending
    BY <1>6 DEF NothingToDo, GeometryComplete, h
  <2>2. Geometry(run.audit) = BaseGeometry
    BY <1>2, <1>5, <2>1 DEF Geometry, BaseGeometry, GeometryComplete, Audit, h
  <2> QED BY <1>2, <1>3, <1>4, <2>2 DEF MigRequired, MigDiffers, Reset, h
<1> QED BY <1>3, <1>4, <1>6 DEF Reset, h

LEMMA RestoreCalm ==
  ASSUME IInv, IInv', NothingToDo, Committed, RestoreStep
  PROVE  NothingToDo' /\ Calm
<1> USE DEF Committed
<1>1. ASSUME host' = host PROVE Calm BY <1>1, CalmFacts
<1>2. ASSUME NEW l \in RestoreLabels \ SkippedLabels,
             Place \in LookedLabels,
             l \in AppliedLabels => Place \in AppliedLabels,
             Calm, UNCHANGED <<base, want>>,
             \/ Go(l) \/ Fence(l) \/ run' = [run EXCEPT !.at = l, !.disturbed = TRUE]
      PROVE  NothingToDo'
  <2>1. l \in WorkLabels \ SkippedLabels BY <1>2 DEF WorkLabels, LookedLabels
  <2> QED BY <1>2, <2>1, OnwardCalm
<1>3. /\ {"r.failed", "r.verify", "r.release", "r.unverified", "r.unreleased", "r.reboot",
          "r.policy.failing"}
           \subseteq (RestoreLabels \ SkippedLabels) \ AppliedLabels
      /\ AppliedLabels \subseteq LookedLabels \ SkippedLabels
      /\ LookedLabels \subseteq RestoreLabels
      /\ {"r.check", "r.policy.failing", "r.verify", "r.release"} \subseteq LookedLabels
  BY DEF LookedLabels, RestoreLabels, SkippedLabels, AppliedLabels
<1>4. run.at \in RestoreLabels => Place = run.at BY RestorePlaces, Found
<1>5. CASE Checks
  <2>1. run.at = "r.check" /\ Place = "r.check" /\ UNCHANGED <<host, base, want>>
    BY <1>3, <1>4, <1>5 DEF Checks, At
  <2>2. CASE Go("r.failed") \/ Go("r.verify") BY <1>1, <1>2, <1>3, <2>1, <2>2
  <2>3. CASE Fence("r.packages") /\ Applicable(run.audit)
    <3>1. "r.packages" \in WorkLabels \ SkippedLabels BY DEF WorkLabels, RestoreLabels, SkippedLabels
    <3>2. Place' = "r.packages" /\ run'.cmd = run.cmd /\ run'.audit = run.audit
      BY <2>3, <3>1, Onward
    <3>3. Observed(run.audit.host, base.host) BY <1>3, <2>1 DEF NothingToDo
    <3>4. GeometryComplete(run.audit) BY <2>3 DEF Applicable
    <3> QED BY <1>1, <2>1, <3>1, <3>2, <3>3, <3>4, StaysCalm
  <2> QED BY <1>5, <2>2, <2>3 DEF Checks
<1>6. CASE Refuses
  <2>1. Place = "r.check" /\ UNCHANGED <<host, base, want>> /\ run' = [run EXCEPT !.at = "r.failed", !.disturbed = TRUE]
    BY <1>3, <1>4, <1>6 DEF Refuses, Fails, At, Keep
  <2> QED BY <1>1, <1>2, <1>3, <2>1
<1>7. CASE RestorePackages \/ RemoveModules \/ LoadModules \/ ObserveMig
  <2>1. run.at \in {"r.packages", "r.unload", "r.load", "r.mig"} /\ run.at \in AppliedLabels
    BY <1>7 DEF RestorePackages, RemoveModules, LoadModules, ObserveMig, At, AppliedLabels
  <2>2. Place \in AppliedLabels BY <1>3, <1>4, <2>1
  <2>3. Delta(run.audit.host) = {} /\ ~ Reset /\ ~ MigRequired(run.audit)
    BY <1>3, <2>2, NothingToRestore
  <2>4. PICK l \in {"r.docker", "r.load", "r.mig", "r.verify"} : Skips(l)
    BY <1>7, <2>3 DEF RestorePackages, RemoveModules, LoadModules, ObserveMig
  <2>5. l = "r.verify" \/ l \in AppliedLabels BY DEF AppliedLabels
  <2> QED BY <1>1, <1>2, <1>3, <2>2, <2>4, <2>5 DEF Skips
<1>8. CASE RestoreDockerConfig \/ RestorePolicy \/ RestorePolicyAnyway
  <2>1. run.at \in {"r.docker", "r.policy", "r.policy.failing"}
    BY <1>8 DEF RestoreDockerConfig, RestorePolicy, RestorePolicyAnyway, At
  <2>2. /\ Place = run.at /\ Place \in LookedLabels
        /\ run.at \in AppliedLabels \/ run.at = "r.policy.failing"
    BY <1>3, <1>4, <2>1 DEF AppliedLabels, LookedLabels, RestoreLabels
  <2>3. PICK f \in {"docker", "policy"} : host' = host \/ host' = Rewritten(f)
    BY <1>8 DEF RestoreDockerConfig, RestorePolicy, RestorePolicyAnyway, Does, Fails
  <2>4. host \in Hosts /\ base.host \in Hosts BY DEF IInv, Typed
  <2>5. ASSUME host' = Rewritten(f) PROVE Calm
    <3>1. /\ host'.packages = host.packages /\ host'.loaded = host.loaded
          /\ host'.mig = host.mig /\ host'.files = [host.files EXCEPT ![f] = base.host.files[f]]
      BY <2>4, <2>5 DEF Rewritten, Hosts
    <3>2. Core(host) = Core(base.host) => host'.files = host.files
      BY <2>4, <3>1, Parts, CoreFacts
    <3>3. Calm BY <3>1, <3>2 DEF IInv, Typed, Calm, Observed, Core
    <3> QED BY <3>3
  <2>6. Calm BY <1>1, <2>3, <2>5
  <2>7. UNCHANGED <<base, want>>
    BY <1>8 DEF RestoreDockerConfig, RestorePolicy, RestorePolicyAnyway, Does, Fails, Keep
  <2>8. CASE RestoreDockerConfig
    <3>1. run.at = "r.docker" BY <2>8 DEF RestoreDockerConfig, At
    <3>2. "r.policy" \in AppliedLabels /\ "r.docker" \in AppliedLabels BY DEF AppliedLabels
    <3> QED BY <1>2, <1>3, <2>2, <2>6, <2>7, <2>8, <3>1, <3>2 DEF RestoreDockerConfig, Does, Fails
  <2>9. CASE RestorePolicy
    <3>1. run.at = "r.policy" BY <2>9 DEF RestorePolicy, At
    <3>2. "r.policy" \in AppliedLabels /\ "r.unload" \in AppliedLabels BY DEF AppliedLabels
    <3> QED BY <1>2, <1>3, <2>2, <2>6, <2>7, <2>9, <3>1, <3>2 DEF RestorePolicy, Fails
  <2>10. CASE RestorePolicyAnyway
    BY <1>2, <1>3, <2>2, <2>6, <2>7, <2>10 DEF RestorePolicyAnyway, Does
  <2> QED BY <1>8, <2>6, <2>8, <2>9, <2>10
<1>9. CASE RestoreDestroyCompute \/ RestoreDestroyGpu \/ RestoreMode \/ RestoreGeometry
  <2>1. run.at \in SkippedLabels /\ run.at \in RestoreLabels
    BY <1>9 DEF RestoreDestroyCompute, RestoreDestroyGpu, RestoreMode, RestoreGeometry, At,
                SkippedLabels, RestoreLabels
  <2> QED BY <1>4, <2>1 DEF NothingToDo
<1>10. CASE VerifyRestored
  <2>1. run.at = "r.verify" /\ Place = "r.verify" /\ Place \in LookedLabels
        /\ UNCHANGED <<host, base, want>>
    BY <1>3, <1>4, <1>10 DEF VerifyRestored, At
  <2>2. Go("r.release") \/ Fence("r.reboot") \/ Fence("r.unverified") BY <1>10 DEF VerifyRestored
  <2> QED BY <1>1, <1>2, <1>3, <2>1, <2>2
<1>11. CASE ReleaseBaseline
  <2>1. run.at = "r.release" /\ Place = "r.release" /\ Place \in LookedLabels
    BY <1>3, <1>4, <1>11 DEF ReleaseBaseline, At
  <2>2. CASE Fails(PartlyReleased(base.host.units), "r.unreleased")
    <3>1. base.host.units \in [Launchers -> UnitStates] /\ host \in Hosts
      BY Parts DEF IInv, Typed
    <3>2. Core(host') = Core(host) /\ UNCHANGED <<base, want>>
          /\ run' = [run EXCEPT !.at = "r.unreleased", !.disturbed = TRUE]
      BY <2>2, <3>1, ReleasedFacts DEF Fails, Keep
    <3> QED BY <1>2, <1>3, <2>1, <3>2, CalmFacts
  <2>3. CASE host' = [host EXCEPT !.units = base.host.units] /\ Ends("restored")
    <3>1. Core(host') = Core(host) BY <2>3 DEF IInv, Typed, Core, Hosts
    <3> QED BY <2>3, <3>1, CalmFacts, EndsCalm DEF Ends
  <2> QED BY <1>11, <2>2, <2>3 DEF ReleaseBaseline
<1>12. CASE RestoreFails \/ EndsUnquarantined
  <2>1. host' \in Requiesced(host) /\ run' = Idle
    BY <1>12 DEF RestoreFails, EndsUnquarantined, Ends
  <2>2. Core(host') = Core(host) BY <2>1, RequiescedFacts DEF IInv, Typed
  <2> QED BY <2>1, <2>2, CalmFacts, EndsCalm
<1>13. CASE RestoreEnds BY <1>1, <1>13, EndsCalm DEF RestoreEnds, Ends
<1>14. CASE Unreleased
  <2>1. Fence("r.unverified") /\ UNCHANGED <<host, base, want>> BY <1>14 DEF Unreleased
  <2>2. "r.unverified" \in WorkLabels \ SkippedLabels /\ "r.unverified" \notin LookedLabels
        /\ "r.unverified" \notin AppliedLabels
    BY DEF WorkLabels, SkippedLabels, RestoreLabels, LookedLabels, AppliedLabels
  <2> QED BY <1>1, <2>1, <2>2, OnwardCalm
<1> QED BY <1>5, <1>6, <1>7, <1>8, <1>9, <1>10, <1>11, <1>12, <1>13, <1>14 DEF RestoreStep

(* The install begins: its snapshot is the machine. *)
LEMMA SnapshotCalm ==
  ASSUME IInv, TakeSnapshot
  PROVE  NothingToDo'
<1>1. CASE ~ Recordable(run.audit, MigDrifts(run.audit))
  BY <1>1, EndsCalm DEF TakeSnapshot, Ends
<1>2. CASE Recordable(run.audit, MigDrifts(run.audit))
  <2>1. Observed(host', base'.host) BY <1>2, SnapshotFacts DEF TakeSnapshot, Observed
  <2>2. PICK l \in {"i.boundary", "s.boundary"} : Fence(l)
    BY <1>2 DEF TakeSnapshot
  <2>3. l \in WorkLabels /\ l \notin SkippedLabels /\ l \notin LookedLabels /\ l \notin AppliedLabels
    BY DEF WorkLabels, InstallLabels, SettleLabels, SkippedLabels, RestoreLabels, LookedLabels,
           AppliedLabels
  <2>4. Place' = l BY <2>2, <2>3, Onward
  <2> QED BY <2>1, <2>3, <2>4 DEF NothingToDo
<1> QED BY <1>1, <1>2

(* Before the snapshot nothing is committed; another command commits nothing. *)
LEMMA BeginCalm ==
  ASSUME IInv, BeginInstall \/ BeginVerify \/ BeginLock \/ BeginRollback \/ PlanInstall \/ PlanSettle
  PROVE  NothingToDo'
<1>1. ASSUME NEW c, NEW l, Begin(c, l), c # "install" \/ l = "i.plan" PROVE ~ Committed'
  BY <1>1, IdleRunFacts DEF Begin, Runs, Committed
<1>2. CASE BeginInstall \/ BeginVerify \/ BeginLock
  BY <1>1, <1>2 DEF BeginInstall, BeginVerify, BeginLock, NothingToDo
<1>3. CASE BeginRollback
  BY <1>3, IdleRunFacts DEF BeginRollback, Runs, Committed, NothingToDo
<1>4. CASE PlanInstall \/ PlanSettle
  <2>1. run \in Runs BY DEF IInv, Typed
  <2>2. run' = Idle \/ run'.at = "i.snapshot"
    BY <1>4, <2>1 DEF PlanInstall, PlanSettle, Ends, Runs
  <2> QED BY <2>2, EndsCalm DEF NothingToDo, Committed
<1> QED BY <1>2, <1>3, <1>4

(* The quarantine changes no statement but the next. *)
LEMMA FencingCalm ==
  ASSUME IInv, IInv', NothingToDo, Committed, MaskLauncher \/ StopLauncher
  PROVE  NothingToDo' /\ Calm
<1>1. Fencing /\ run \in Runs /\ run.next \notin {"mask", "stop"}
  BY LabelFacts DEF MaskLauncher, StopLauncher, Fencing, At, IInv, InPlace, Typed, BehindLabels
<1>2. Place' = Place /\ run'.cmd = run.cmd /\ run'.audit = run.audit
  BY <1>1 DEF MaskLauncher, StopLauncher, Go, Runs, Place, Fencing, At
<1>3. Calm BY QuarantineOpen, CalmFacts
<1>4. UNCHANGED <<base, want>> BY DEF MaskLauncher, StopLauncher, Keep
<1> QED BY <1>2, <1>3, <1>4, StaysCalm DEF NothingToDo

(* One that fails goes on where no audit decides. *)
LEMMA QuarantineFailsCalm ==
  ASSUME IInv, IInv', NothingToDo, Committed, QuarantineFails
  PROVE  NothingToDo' /\ Calm
<1> DEFINE l == GivesUp(run.next)
<1>1. /\ Fencing /\ Core(host') = Core(host) /\ UNCHANGED <<base, want>>
      /\ run' = [run EXCEPT !.at = l, !.disturbed = TRUE]
  BY QuarantineFailsFacts
<1>2. run.next \in FenceLabels /\ run.next \notin SettleLabels /\ run.next # "r.boundary"
  BY <1>1 DEF IInv, InPlace, NothingToDo, Committed, Place, SkippedLabels
<1>3. l \in {"i.compensate", "r.failed", "unquarantined"}
  BY <1>2 DEF FenceLabels, SettleLabels, GivesUp
<1>4. l \in WorkLabels \ SkippedLabels /\ l \notin LookedLabels /\ l \notin AppliedLabels
  BY <1>3 DEF WorkLabels, InstallLabels, RestoreLabels, SkippedLabels, LookedLabels, AppliedLabels
<1> HIDE DEF l
<1> QED BY <1>1, <1>4, CalmFacts, OnwardCalm

LEMMA InterferesCalm ==
  ASSUME IInv, IInv', NothingToDo, Committed, Interferes
  PROVE  NothingToDo'
<1>1. host \in Hosts BY DEF IInv, Typed
<1>2. Observed(host', host)
  <2>1. CASE host' = [host EXCEPT !.files["docker"] = "script"]
    BY <1>1, <2>1 DEF Hosts, Contents, Observed
  <2>2. CASE \E v \in Modes \ {host.mig.mode} : host' = [host EXCEPT !.mig.pending = v]
    BY <1>1, <2>2 DEF Hosts, Modes, Observed
  <2> QED BY <2>1, <2>2 DEF Interferes
<1>3. UNCHANGED <<base, want, run>> BY DEF Interferes
<1> QED BY <1>2, <1>3 DEF NothingToDo, Committed, AsDesired, DesiredMig, PolicyDrifts, Observed,
                          Place, Fencing

(* The command that runs and its snapshot stay until it ends. *)
Carries == UNCHANGED <<base, want>> /\ (run' = Idle \/ run'.cmd = run.cmd)

LEMMA CarryFacts ==
  ASSUME run \in Runs
  PROVE  /\ \A l : Go(l) \/ Fence(l) => run'.cmd = run.cmd
         /\ \A hosts, l : Does(hosts, l) \/ Fails(hosts, l) => Carries
         /\ \A l : Skips(l) => Carries
         /\ \A l, a : run' = [run EXCEPT !.at = l, !.audit = a] => run'.cmd = run.cmd
  BY DEF Runs, Go, Fence, Does, Fails, Skips, Keep, Carries

LEMMA InstallCarries ==
  ASSUME run \in Runs, InstallStep, ~ PlanInstall, ~ TakeSnapshot PROVE Carries
<1>1. CASE PrePackageBoundary \/ Reaudit \/ Compensate
  <2>1. UNCHANGED <<base, want>> BY <1>1 DEF PrePackageBoundary, Reaudit, Compensate, Compensates
  <2>2. (\E l : Fence(l)) \/ (\E l, a : run' = [run EXCEPT !.at = l, !.audit = a])
    BY <1>1 DEF PrePackageBoundary, Reaudit, Compensate, Compensates
  <2> QED BY <2>1, <2>2, CarryFacts DEF Carries
<1>2. CASE LockPolicy \/ Teardown \/ ReconcileMig \/ ConfigureDocker \/ CreateGeometry
  BY <1>2, CarryFacts DEF LockPolicy, Teardown, ReconcileMig, ConfigureDocker, CreateGeometry
<1>3. CASE InstallPackages
  BY <1>3, CarryFacts DEF InstallPackages, Keep, Carries
<1>4. CASE PostPackageBoundary \/ VerifyCore
  BY <1>4, CarryFacts DEF PostPackageBoundary, VerifyCore, Boundary, Carries
<1>5. CASE InstallDestroyCompute \/ InstallDestroyGpu
  BY <1>5, CarryFacts DEF InstallDestroyCompute, InstallDestroyGpu, DestroyCompute
<1>6. CASE PrepareUnload \/ PrepareLoad
  BY <1>6, CarryFacts DEF PrepareUnload, PrepareLoad, Unload, Load
<1>7. CASE SetMode
  BY <1>7, CarryFacts DEF SetMode
<1>8. CASE ReleaseTarget
  BY <1>8, CarryFacts DEF ReleaseTarget
<1>9. CASE VerifyContainer
  BY <1>9, CarryFacts DEF VerifyContainer, Ends, Carries
<1> QED BY <1>1, <1>2, <1>3, <1>4, <1>5, <1>6, <1>7, <1>8, <1>9 DEF InstallStep

LEMMA SettleCarries ==
  ASSUME run \in Runs, SettleStep, ~ PlanSettle PROVE Carries
<1>1. CASE SettleBoundary
  BY <1>1, CarryFacts DEF SettleBoundary, Abandons, Carries
<1>2. CASE SettleUnload \/ SettleLoad \/ ApplyPolicy \/ ReleaseSettled
  BY <1>2, CarryFacts DEF SettleUnload, SettleLoad, ApplyPolicy, ReleaseSettled, Unload, Load
<1>3. CASE SettleCore \/ Abandon
  BY <1>3, CarryFacts DEF SettleCore, Abandon, Abandons, Carries
<1>4. CASE VerifyServices \/ SettleFails
  BY <1>4 DEF VerifyServices, SettleFails, Ends, Carries
<1> QED BY <1>1, <1>2, <1>3, <1>4 DEF SettleStep

LEMMA RestoreCarries ==
  ASSUME run \in Runs, RestoreStep \/ RollbackBoundary PROVE Carries
<1>1. CASE Checks \/ VerifyRestored \/ RollbackBoundary
  <2>1. UNCHANGED <<base, want>> BY <1>1 DEF Checks, VerifyRestored, RollbackBoundary
  <2>2. (\E l : Go(l) \/ Fence(l)) \/ (\E l, a : run' = [run EXCEPT !.at = l, !.audit = a])
    BY <1>1 DEF Checks, VerifyRestored, RollbackBoundary
  <2> QED BY <2>1, <2>2, CarryFacts DEF Carries
<1>2. CASE Refuses \/ RestorePackages \/ RestoreDockerConfig \/ RestorePolicyAnyway
  BY <1>2, CarryFacts DEF Refuses, RestorePackages, RestoreDockerConfig, RestorePolicyAnyway
<1>3. CASE RestorePolicy
  BY <1>3, CarryFacts DEF RestorePolicy, Keep, Carries
<1>4. CASE RemoveModules \/ LoadModules
  BY <1>4, CarryFacts DEF RemoveModules, LoadModules, Unload, Load
<1>5. CASE ObserveMig \/ RestoreMode
  BY <1>5, CarryFacts DEF ObserveMig, RestoreMode, ThenRefresh
<1>6. CASE RestoreDestroyCompute \/ RestoreDestroyGpu \/ RestoreGeometry
  BY <1>6, CarryFacts DEF RestoreDestroyCompute, RestoreDestroyGpu, RestoreGeometry, DestroyCompute
<1>7. CASE ReleaseBaseline \/ Unreleased \/ RestoreFails \/ RestoreEnds \/ EndsUnquarantined
  BY <1>7, CarryFacts DEF ReleaseBaseline, Unreleased, RestoreFails, RestoreEnds, EndsUnquarantined,
                          Ends, Carries
<1> QED BY <1>1, <1>2, <1>3, <1>4, <1>5, <1>6, <1>7 DEF RestoreStep

LEMMA FencingCarries ==
  ASSUME IInv, MaskLauncher \/ StopLauncher \/ QuarantineFails PROVE Carries
<1>1. run \in Runs BY DEF IInv, Typed
<1>2. CASE MaskLauncher BY <1>1, <1>2, CarryFacts DEF MaskLauncher, Keep, Carries
<1>3. CASE StopLauncher BY <1>1, <1>3 DEF StopLauncher, Keep, Carries, Runs
<1>4. CASE QuarantineFails BY <1>1, <1>4, CarryFacts DEF QuarantineFails
<1> QED BY <1>2, <1>3, <1>4

(* They are steps behind a snapshot. *)
LEMMA ProceedingFacts ==
  /\ MaskLauncher \/ StopLauncher \/ QuarantineFails \/ RollbackBoundary \/ RestoreStep
     \/ (InstallStep /\ ~ PlanInstall /\ ~ TakeSnapshot) => run.at \notin {"i.plan", "i.snapshot"}
  /\ SettleStep /\ ~ PlanSettle => run.at \in SettleLabels /\ run.at \notin {"i.plan", "i.snapshot"}
<1>1. MaskLauncher \/ StopLauncher \/ QuarantineFails \/ RollbackBoundary =>
        run.at \notin {"i.plan", "i.snapshot"}
  BY DEF MaskLauncher, StopLauncher, QuarantineFails, RollbackBoundary, At
<1>2. RestoreStep => run.at \notin {"i.plan", "i.snapshot"}
  BY DEF RestoreStep, Checks, Refuses, RestorePackages, RestoreDockerConfig, RestorePolicy,
         RestorePolicyAnyway, RemoveModules, LoadModules, ObserveMig, RestoreDestroyCompute,
         RestoreDestroyGpu, RestoreMode, RestoreGeometry, VerifyRestored, ReleaseBaseline,
         Unreleased, RestoreFails, RestoreEnds, EndsUnquarantined, At
<1>3. InstallStep /\ ~ PlanInstall /\ ~ TakeSnapshot => run.at \notin {"i.plan", "i.snapshot"}
  BY DEF InstallStep, PrePackageBoundary, LockPolicy, InstallPackages, PostPackageBoundary,
         Teardown, InstallDestroyCompute, InstallDestroyGpu, PrepareUnload, PrepareLoad,
         ReconcileMig, SetMode, CreateGeometry, ConfigureDocker, VerifyCore, ReleaseTarget,
         VerifyContainer, Compensate, Reaudit, At
<1>4. SettleStep /\ ~ PlanSettle => run.at \in SettleLabels
  BY DEF SettleStep, SettleBoundary, SettleUnload, SettleLoad, ApplyPolicy, SettleCore,
         ReleaseSettled, VerifyServices, Abandon, SettleFails, At, SettleLabels
<1> QED BY <1>1, <1>2, <1>3, <1>4 DEF SettleLabels

(* Nothing commits later than the snapshot. *)
LEMMA CarriesCalm ==
  ASSUME Carries, ~ Committed, run.at \notin {"i.plan", "i.snapshot"}
  PROVE  NothingToDo'
<1>1. CASE run' = Idle BY <1>1, EndsCalm
<1>2. CASE run'.cmd = run.cmd
  BY <1>2 DEF Carries, Committed, NothingToDo, AsDesired, DesiredMig, PolicyDrifts
<1> QED BY <1>1, <1>2 DEF Carries

LEMMA NothingToDoNext ==
  ASSUME IInv, IInv', NothingToDo, Next
  PROVE  NothingToDo' /\ (Committed /\ faults' = faults => Calm)
<1> DEFINE Result == NothingToDo' /\ (Committed /\ faults' = faults => Calm)
<1>1. run \in Runs /\ faults \in Nat BY HostAssumption DEF IInv, Typed
<1>2. CASE BeginInstall \/ BeginVerify \/ BeginLock \/ BeginRollback
  <2>1. ~ Committed
    BY <1>2 DEF BeginInstall, BeginVerify, BeginLock, Begin, BeginRollback, Running, Committed
  <2> QED BY <1>2, <2>1, BeginCalm
<1>3. CASE PlanInstall \/ PlanSettle
  <2>1. ~ Committed
    <3>1. Committed => run.at \notin SkippedLabels /\ run.at # "i.plan"
      BY DEF NothingToDo, Committed, Place, Fencing, SkippedLabels
    <3> QED BY <1>3, <3>1 DEF PlanInstall, PlanSettle, At, SkippedLabels
  <2> QED BY <1>3, <2>1, BeginCalm
<1>4. CASE TakeSnapshot
  BY <1>4, SnapshotCalm DEF TakeSnapshot, At, Committed
<1>5. CASE Kill \/ PowerLoss
  <2>1. faults' # faults BY <1>1, <1>5 DEF Kill, PowerLoss, Spent
  <2> QED BY <1>5, <2>1, EndsCalm DEF Kill, PowerLoss, Stops
<1>6. CASE Interferes
  <2>1. faults' # faults BY <1>1, <1>6 DEF Interferes, Spent
  <2>2. CASE ~ Committed
    <3>1. ~ Committed'
      BY <1>6, <2>2 DEF Interferes, Committed, AsDesired, DesiredMig, PolicyDrifts
    <3> QED BY <2>1, <3>1 DEF NothingToDo
  <2> QED BY <1>6, <2>1, <2>2, InterferesCalm
<1>7. CASE Reboot
  <2>1. ~ Committed /\ ~ Committed' BY <1>7 DEF Reboot, Running, Committed
  <2> QED BY <2>1 DEF NothingToDo
<1>8. ASSUME MaskLauncher \/ StopLauncher \/ QuarantineFails \/ RollbackBoundary \/ RestoreStep
             \/ (InstallStep /\ ~ PlanInstall /\ ~ TakeSnapshot) \/ (SettleStep /\ ~ PlanSettle)
      PROVE  Result
  <2>1. Carries
    BY <1>1, <1>8, FencingCarries, RestoreCarries, InstallCarries, SettleCarries
  <2>2. CASE ~ Committed
    <3>1. run.at \notin {"i.plan", "i.snapshot"} BY <1>8, ProceedingFacts
    <3> QED BY <2>1, <2>2, <3>1, CarriesCalm
  <2>3. CASE Committed
    <3>1. CASE MaskLauncher \/ StopLauncher BY <2>3, <3>1, FencingCalm
    <3>6. CASE QuarantineFails BY <2>3, <3>6, QuarantineFailsCalm
    <3>2. CASE RollbackBoundary
      BY <2>3, <3>2 DEF RollbackBoundary, At, NothingToDo, Place, Fencing, SkippedLabels
    <3>3. CASE RestoreStep BY <2>3, <3>3, RestoreCalm
    <3>4. CASE InstallStep BY <2>3, <3>4, InstallCalm
    <3>5. CASE SettleStep /\ ~ PlanSettle
      <4>1. run.at \in SettleLabels BY <3>5, ProceedingFacts
      <4>2. run.at \in WorkLabels \ PlanLabels
        BY <4>1 DEF WorkLabels, SettleLabels, PlanLabels
      <4> QED BY <2>3, <4>1, <4>2, Found DEF Committed
    <3> QED BY <1>8, <3>1, <3>2, <3>3, <3>4, <3>5, <3>6
  <2> QED BY <2>2, <2>3
<1> QED BY <1>2, <1>3, <1>4, <1>5, <1>6, <1>7, <1>8 DEF Next, Program

(* An install of a machine that is as desired, on which the snapshot still stands *)
(* when it is looked at, never changes its core: not through packages, modules,   *)
(* MIG or files, and not in the compensation either.                              *)
THEOREM EmptySecondPlan == Spec => SecondPlanIsEmpty
<1>1. Init => NothingToDo BY DEF Init, Idle, NothingToDo, Committed
<1>2. IInv /\ IInv' /\ NothingToDo /\ [Next]_hostVars => NothingToDo'
  <2>1. IInv /\ NothingToDo /\ UNCHANGED hostVars => NothingToDo'
    BY DEF hostVars, NothingToDo, Committed, AsDesired, DesiredMig, PolicyDrifts, Observed, Place,
           Fencing, GeometryComplete
  <2> QED BY <2>1, NothingToDoNext
<1>3. IInv /\ IInv' /\ NothingToDo /\ [Next]_hostVars =>
        [/\ run.cmd = "install" /\ run.at \notin {"i.plan", "i.snapshot"} /\ faults' = faults
         /\ AsDesired(base.host) /\ BaselineStands(Audit(host, TRUE))
         => Core(host') = Core(host)]_hostVars
  <2> SUFFICES ASSUME IInv, IInv', NothingToDo, Next, Committed, faults' = faults,
                      BaselineStands(Audit(host, TRUE))
               PROVE  Core(host') = Core(host)
    BY DEF Committed, hostVars
  <2>1. Calm BY NothingToDoNext
  <2>2. base.taken
    BY DEF Committed, IInv, InPlace, PlanLabels, NothingToDo, Place, Fencing, SkippedLabels
  <2>3. Core(host) = Core(base.host)
    BY <2>2, BaselineFacts DEF BaselineStands, IInv, Typed, Consistent
  <2> QED BY <2>1, <2>3 DEF Calm
<1> QED BY <1>1, <1>2, <1>3, Invariance, PTL DEF Spec, SecondPlanIsEmpty

-----------------------------------------------------------------------------
(* Why an operation may fail where no command does.  The invariant follows the *)
(* restore from the audit it decides on to the machine it verifies, and says   *)
(* that each statement finds what the one before it left; it is only claimed   *)
(* for a snapshot of modules that were those on disk.                          *)

(* A module is loaded from some build, and nothing is loaded from none. *)
Real(h) == h.loaded.build = "none" <=> h.loaded.names = {}

Settles(h) == h.mig.mode = h.mig.pending
Reason     == ~ Settles(host) \/ Skewed(host) \/ Skewed(base.host)

(* The snapshot can be restored, and so can the machine: it has a driver, and no *)
(* instance is half destroyed.                                                  *)
HalfDestroyed == {"i.dgi", "i.mdgi", "r.dgi"}
Sane == /\ OnDisk(host) # "none" /\ OnDisk(base.host) # "none"
        /\ base.host.loaded.names # {} /\ Restorable(BaseGeometry)
        /\ run.at \notin HalfDestroyed => host.mig.parts # "gi"

(* The audit the restore decides on, and how much of the machine it still says. *)
Looked == Core(run.audit.host) = Core(host) /\ run.audit.host \in Hosts
Decided == run.audit.host \in Hosts /\ run.audit.gpus /\ Settles(run.audit.host) /\ Settles(host)
SameMig == run.audit.host.mig = host.mig

PackagesBack == host.packages = base.host.packages
FilesBack    == PackagesBack /\ host.files = base.host.files
ModulesBack  == FilesBack /\ host.loaded = base.host.loaded /\ Settles(host)
Emptied      == ModulesBack /\ host.mig.parts = "none"

Coming == /\ host.loaded.names \subseteq base.host.loaded.names
          /\ host.loaded.names # {} => host.loaded.build = base.host.loaded.build
          /\ host.mig.parts = "none"

Follows ==
  /\ Place = "r.check" => Looked /\ (run.audit.gpus \/ host.loaded.names = {} \/ Skewed(host))
  /\ Place = "r.packages" => Looked /\ Decided
  /\ Place \in {"r.docker", "r.policy", "r.unload"} =>
       Decided /\ SameMig /\ run.audit.host.loaded = host.loaded /\ PackagesBack
  /\ Place = "r.policy" => host.files["docker"] = base.host.files["docker"]
  /\ Place = "r.unload" => FilesBack
  /\ Place = "r.load" =>
       /\ Decided /\ FilesBack
       /\ IF Reset THEN Coming ELSE SameMig /\ host.loaded = base.host.loaded
  /\ Place = "r.mig" => /\ Decided /\ ModulesBack
                        /\ IF Reset THEN host.mig.parts = "none" ELSE SameMig
  /\ Place \in {"r.dci", "r.dgi"} => ModulesBack
  /\ Place = "r.mode" => Emptied
  /\ Place = "r.create" => Emptied /\ host.mig.mode = base.host.mig.mode
  /\ Place = "r.verify" => ~ Settles(host) \/ Core(host) = Core(base.host)
  /\ Place \notin {"r.policy.failing", "r.unreleased", "unquarantined"}
  /\ Place \in {"r.failed", "r.unverified"} => Reason

(* Where the restore is followed. *)
Followed == {"r.check", "r.packages", "r.docker", "r.policy", "r.policy.failing", "r.unload",
             "r.load", "r.mig", "r.dci", "r.dgi", "r.mode", "r.create", "r.verify", "r.failed",
             "r.unverified", "r.unreleased", "unquarantined"}

Whole == Real(host) /\ (At("i.snapshot") /\ run.audit.gpus => host.loaded.names # {})
RInv  == faults = 0 => /\ Whole
                       /\ base.taken /\ ~ Skewed(base.host) => Sane /\ Follows

-----------------------------------------------------------------------------
(* The machine keeps a driver and whole partitions. *)

LEMMA RealFacts ==
  ASSUME NEW h \in Hosts, Real(h)
  PROVE  /\ Real(ModulesGone(h)) /\ ModulesGone(h).mig.parts = "none"
         /\ ModulesGone(h).packages = h.packages
         /\ Real(Booted(h)) /\ Booted(h).mig.parts = "none" /\ Booted(h).packages = h.packages
         /\ \A k : k.loaded = h.loaded => Real(k)
<1>1. ModulesGone(h).loaded = Unloaded /\ Unloaded.build = "none" /\ Unloaded.names = {}
      /\ ModulesGone(h).mig.parts = "none" /\ ModulesGone(h).packages = h.packages
  BY DEF ModulesGone, Unloaded, Hosts
<1>2. /\ Booted(h).loaded = IF OnDisk(h) = "none" THEN Unloaded
                            ELSE [build |-> OnDisk(h), names |-> BootModules]
      /\ Booted(h).mig.parts = "none" /\ Booted(h).packages = h.packages
  BY DEF Booted, Hosts
<1>3. BootModules # {} BY HostAssumption
<1>4. Real(Booted(h)) BY <1>1, <1>2, <1>3 DEF Real
<1>5. Real(ModulesGone(h)) BY <1>1 DEF Real
<1>6. \A k : k.loaded = h.loaded => Real(k) BY DEF Real
<1> QED BY <1>1, <1>2, <1>4, <1>5, <1>6

(* A module that is loaded is of the build on disk, or of that of the others. *)
LEMMA ComesFrom ==
  ASSUME NEW h \in Hosts, NEW m \in Modules, NEW k \in ModuleLoaded(h, m)
  PROVE  /\ OnDisk(h) # "none" /\ k.packages = h.packages /\ k.files = h.files
         /\ k.mig.parts = h.mig.parts /\ k.loaded.names = h.loaded.names \cup {m}
         /\ h.loaded.names # {} => k.loaded.build = h.loaded.build /\ k.mig = h.mig
         /\ h.loaded.names = {} => k.loaded.build = OnDisk(h) /\ Settles(k)
<1>0. OnDisk(h) # "none" BY DEF ModuleLoaded
<1>1. CASE h.loaded.names # {}
  <2>1. k = [h EXCEPT !.loaded = [h.loaded EXCEPT !.names = h.loaded.names \cup {m}]]
    BY <1>0, <1>1 DEF ModuleLoaded
  <2>2. h.loaded \in [build : Builds, names : SUBSET Modules] BY Parts
  <2>3. [h.loaded EXCEPT !.names = h.loaded.names \cup {m}].build = h.loaded.build
        /\ [h.loaded EXCEPT !.names = h.loaded.names \cup {m}].names = h.loaded.names \cup {m}
    BY <2>2
  <2> QED BY <1>0, <1>1, <2>1, <2>3 DEF Hosts
<1>2. CASE h.loaded.names = {}
  <2> DEFINE new == [h EXCEPT !.loaded = [build |-> OnDisk(h), names |-> {m}]]
  <2>1. PICK v \in {"disabled", h.mig.pending} :
          k = [new EXCEPT !.mig = [new.mig EXCEPT !.mode = v, !.pending = v]]
    BY <1>0, <1>2 DEF ModuleLoaded
  <2>2. new \in Hosts /\ SameBut(h, new) /\ new.mig = h.mig
        /\ new.loaded = [build |-> OnDisk(h), names |-> {m}]
    BY OnDiskFacts DEF Hosts, SameBut
  <2> HIDE DEF new
  <2>3. new.mig \in [mode : Modes, pending : Modes, parts : Layouts] BY <2>2, Parts
  <2>4. /\ k.mig = [new.mig EXCEPT !.mode = v, !.pending = v]
        /\ k.loaded = new.loaded /\ k.packages = new.packages /\ k.files = new.files
    BY <2>1, <2>2 DEF Hosts
  <2>5. k.mig.mode = v /\ k.mig.pending = v /\ k.mig.parts = new.mig.parts BY <2>3, <2>4
  <2> QED BY <1>0, <1>2, <2>2, <2>4, <2>5 DEF SameBut, Settles
<1> QED BY <1>1, <1>2

LEMMA RealLoaded ==
  ASSUME NEW h \in Hosts, Real(h), NEW m \in Modules, NEW k \in ModuleLoaded(h, m)
  PROVE  Real(k)
  BY ComesFrom DEF Real

(* What a step leaves alone: the snapshot, a driver on disk, whole partitions. *)
Mild == /\ UNCHANGED <<base, faults>> /\ Real(host')
        /\ OnDisk(host') \in {OnDisk(host), "new"}
        /\ \/ run.at \notin HalfDestroyed /\ host'.mig.parts = host.mig.parts
           \/ host'.mig.parts \in {"none", "full", BaseGeometry}
           \/ run'.at \in HalfDestroyed

LEMMA MildFacts ==
  ASSUME RInv, faults = 0, Mild, run'.at # "i.snapshot",
         base.taken /\ ~ Skewed(base.host) /\ Sane => Follows'
  PROVE  RInv'
<1>1. Whole' BY DEF Whole, Mild, At
<1>2. CASE ~ (base.taken /\ ~ Skewed(base.host))
  BY <1>1, <1>2 DEF RInv, Mild, Skewed, OnDisk
<1>3. CASE base.taken /\ ~ Skewed(base.host)
  <2>1. Sane /\ Follows BY <1>3 DEF RInv
  <2>2. base' = base /\ BaseGeometry' = BaseGeometry
    BY DEF Mild, BaseGeometry
  <2>3. Sane'
    BY <2>1, <2>2 DEF Sane, Mild, Restorable
  <2>4. Follows' BY <1>3, <2>1
  <2> QED BY <1>1, <2>3, <2>4 DEF RInv
<1> QED BY <1>2, <1>3

(* Elsewhere there is nothing to follow. *)
LEMMA Nowhere == ASSUME Place' \notin Followed PROVE Follows'
  BY DEF Follows, Followed

LEMMA Elsewhere ==
  ASSUME IInv, RInv, faults = 0, Mild, NEW l \in WorkLabels \ (Followed \cup {"i.snapshot"}),
         Go(l) \/ Fence(l)
  PROVE  RInv'
<1>1. Place' = l BY Onward
<1>2. Follows' BY <1>1, Nowhere
<1>3. run'.at # "i.snapshot"
  BY DEF Go, Fence, IInv, Typed, Runs
<1> QED BY <1>2, <1>3, MildFacts

LEMMA EndsMildly ==
  ASSUME RInv, faults = 0, Mild, run' = Idle
  PROVE  RInv'
<1>1. run'.at = "idle" /\ Place' = "idle" BY IdleRunFacts DEF Place, Fencing
<1>2. Follows' BY <1>1, Nowhere DEF Followed
<1> QED BY <1>1, <1>2, MildFacts

(* A step that leaves packages, modules and partitions alone. *)
LEMMA MildHost ==
  ASSUME RInv, faults = 0, UNCHANGED <<base, faults>>, run.at \notin HalfDestroyed,
         host'.loaded = host.loaded, host'.packages = host.packages,
         host'.mig.parts = host.mig.parts
  PROVE  Mild
  BY DEF RInv, Whole, Real, Mild, OnDisk

LEMMA NoFailure ==
  ASSUME IInv, faults' = 0 PROVE \A hosts, l : ~ Fails(hosts, l)
  BY HostAssumption DEF IInv, Typed, Fails

(* The statements of an install and of a verify or lock are not followed. *)
LEMMA UnfollowedFacts ==
  /\ InstallLabels \cup SettleLabels \cup {"r.boundary", "r.release", "r.reboot"} \subseteq
       WorkLabels \ (Followed \cup {"i.snapshot"})
  BY DEF InstallLabels, SettleLabels, WorkLabels, RestoreLabels, Followed

LEMMA DestroyComputeMild ==
  ASSUME IInv, RInv, faults = 0, faults' = 0, run.at \notin HalfDestroyed,
         NEW l \in HalfDestroyed, NEW failed, DestroyCompute(l, failed)
  PROVE  Mild /\ (Go(l) \/ (Go(failed) /\ host.mig.parts = "gi"))

<1>1. ~ Fails({host}, failed) BY NoFailure
<1>2. host \in Hosts /\ run \in Runs BY DEF IInv, Typed
<1>3. CASE host.mig.parts = "gi" /\ (Does({host}, l) \/ Does({host}, failed))
  BY <1>3, MildHost DEF Does, Keep
<1>4. CASE host.mig.parts # "gi" /\ Does({ComputeDestroyed(host)}, l)
  <2>1. host' = ComputeDestroyed(host) /\ Go(l) /\ UNCHANGED <<base, faults>>
    BY <1>4 DEF Does, Keep
  <2>2. host'.loaded = host.loaded /\ host'.packages = host.packages
        /\ host'.mig = [host.mig EXCEPT !.parts = "gi"]
    BY <1>2, <2>1 DEF ComputeDestroyed, Hosts
  <2>3. run'.at \in HalfDestroyed BY <1>2, <2>1 DEF Go, Runs
  <2> QED BY <1>2, <2>1, <2>2, <2>3, Parts DEF RInv, Whole, Real, Mild, OnDisk, Settles
<1> QED BY <1>1, <1>3, <1>4 DEF DestroyCompute

LEMMA UnloadMild ==
  ASSUME IInv, RInv, faults = 0, faults' = 0, run.at \notin HalfDestroyed,
         NEW l, NEW failed, Unload(l, failed)
  PROVE  /\ Mild
         /\ \/ Removable(host) /\ host' = ModulesGone(host) /\ Go(l)
            \/ ~ Removable(host) /\ host' = host /\ Go(failed)
<1>1. ~ Fails(Remains, failed) BY NoFailure
<1>2. host \in Hosts BY DEF IInv, Typed
<1>3. CASE ~ Removable(host) /\ Does({host}, failed)
  BY <1>3, MildHost DEF Does, Keep
<1>4. CASE Removable(host) /\ Does({ModulesGone(host)}, l)
  <2>1. host' = ModulesGone(host) /\ Go(l) /\ UNCHANGED <<base, faults>> BY <1>4 DEF Does, Keep
  <2>2. Real(host) BY DEF RInv, Whole
  <2>3. Real(host') /\ host'.mig.parts = "none" /\ host'.packages = host.packages
    BY <1>2, <2>1, <2>2, RealFacts
  <2> QED BY <1>4, <2>1, <2>3 DEF Mild, OnDisk
<1> QED BY <1>1, <1>3, <1>4 DEF Unload

LEMMA LoadMild ==
  ASSUME IInv, RInv, faults = 0, faults' = 0, run.at \notin HalfDestroyed,
         NEW names, NEW again, NEW failed, Load(names, again, failed)
  PROVE  /\ Mild
         /\ \/ OnDisk(host) = "none" /\ host' = host /\ Go(failed)
            \/ host' \in ModuleLoaded(host, NextModule(names)) /\ Go(again)
<1>1. ~ Fails({host}, failed) BY NoFailure
<1>2. host \in Hosts BY DEF IInv, Typed
<1>3. CASE ModuleLoaded(host, NextModule(names)) = {} /\ Does({host}, failed)
  <2>1. OnDisk(host) = "none" BY <1>3 DEF ModuleLoaded
  <2> QED BY <1>3, <2>1, MildHost DEF Does, Keep
<1>4. CASE Does(ModuleLoaded(host, NextModule(names)), again)
  <2>1. /\ host' \in ModuleLoaded(host, NextModule(names)) /\ Go(again)
        /\ UNCHANGED <<base, faults>>
    BY <1>4 DEF Does, Keep
  <2>2. NextModule(names) \in Modules BY DEF NextModule, Modules
  <2>3. Real(host) BY DEF RInv, Whole
  <2>4. Real(host') /\ host'.packages = host.packages /\ host'.mig.parts = host.mig.parts
    BY <1>2, <2>1, <2>2, <2>3, ComesFrom, RealLoaded
  <2> QED BY <2>1, <2>4 DEF Mild, OnDisk
<1> QED BY <1>1, <1>3, <1>4 DEF Load

LEMMA ModeSetMild ==
  ASSUME IInv, RInv, faults = 0, faults' = 0, run.at \notin HalfDestroyed, UNCHANGED base,
         NEW v \in Modes, host' \in ModeSet(host, v)
  PROVE  /\ Mild
         /\ \/ host'.mig.mode = v /\ host'.mig.pending = v
            \/ host'.mig.mode = host.mig.mode /\ host'.mig.pending = v
         /\ host'.mig.parts \in {host.mig.parts, "none"}
<1>1. host \in Hosts /\ Coherent(host) BY DEF IInv, Typed, Consistent
<1>2. AllBut(host, host') BY <1>1, ModeSetFacts
<1>3. \/ host'.mig = [mode |-> v, pending |-> v,
                      parts |-> IF host.mig.mode = v THEN host.mig.parts ELSE "none"]
      \/ host'.mig = [host.mig EXCEPT !.pending = v]
  BY <1>1 DEF ModeSet, Hosts
<1>4. /\ \/ host'.mig.mode = v /\ host'.mig.pending = v
         \/ host'.mig.mode = host.mig.mode /\ host'.mig.pending = v
      /\ host'.mig.parts \in {host.mig.parts, "none"}
  BY <1>1, <1>3, Parts
<1>5. Mild BY <1>2, <1>4 DEF AllBut, SameBut, RInv, Whole, Real, Mild, OnDisk
<1> QED BY <1>4, <1>5

-----------------------------------------------------------------------------
(* Installs, verifications and locks.  Only the audit of the compensation is followed. *)

LEMMA InstallMild ==
  ASSUME IInv, RInv, faults = 0, faults' = 0, InstallStep,
         ~ PlanInstall, ~ TakeSnapshot, ~ Reaudit
  PROVE  RInv'
<1>0. run \in Runs /\ host \in Hosts /\ faults' = faults BY DEF IInv, Typed
<1>1. \A hosts, l : ~ Fails(hosts, l) BY NoFailure
<1>2. \A l : l \in HalfDestroyed <=> l \in {"i.dgi", "i.mdgi", "r.dgi"} BY DEF HalfDestroyed
<1>3. ASSUME NEW l \in InstallLabels, Go(l) \/ Fence(l), Mild PROVE RInv'
  BY <1>3, UnfollowedFacts, Elsewhere
<1>4. ASSUME NEW l \in InstallLabels, Go(l) \/ Fence(l), run.at \notin HalfDestroyed,
             host'.loaded = host.loaded, host'.packages = host.packages,
             host'.mig.parts = host.mig.parts, UNCHANGED base
      PROVE  RInv'
  BY <1>0, <1>3, <1>4, MildHost
<1>5. {"i.lock", "i.packages", "i.boundary2", "i.teardown", "i.dci", "i.dgi", "i.unload", "i.load",
       "i.reconcile", "i.mdci", "i.mdgi", "i.mode", "i.create", "i.docker", "i.verify", "i.release",
       "i.container", "i.compensate", "i.reaudit"} \subseteq InstallLabels
  BY DEF InstallLabels
<1>6. CASE PrePackageBoundary
  <2>1. /\ run.at = "i.boundary" /\ UNCHANGED <<host, base>>
        /\ Fence("i.reaudit") \/ (\E a : run' = [run EXCEPT !.at = "i.lock", !.audit = a])
    BY <1>6 DEF PrePackageBoundary, At
  <2>2. CASE Fence("i.reaudit") BY <1>2, <1>4, <1>5, <2>1, <2>2
  <2>3. CASE \E a : run' = [run EXCEPT !.at = "i.lock", !.audit = a]
    <3>1. run'.at = "i.lock" BY <1>0, <2>3 DEF Runs
    <3>2. Place' \notin Followed BY <3>1 DEF Place, Fencing, Followed
    <3>3. Mild BY <1>0, <1>2, <2>1, MildHost
    <3> QED BY <3>1, <3>2, <3>3, Nowhere, MildFacts
  <2> QED BY <2>1, <2>2, <2>3
<1>7. CASE LockPolicy
  <2>1. run.at = "i.lock" BY <1>7 DEF LockPolicy, At
  <2>2. CASE Skips("i.packages") BY <1>2, <1>4, <1>5, <2>1, <2>2 DEF Skips
  <2>3. CASE Does({[host EXCEPT !.files["policy"] = "set"]}, "i.packages")
    <3>1. host' = [host EXCEPT !.files["policy"] = "set"] BY <2>3 DEF Does
    <3>2. host'.loaded = host.loaded /\ host'.packages = host.packages /\ host'.mig = host.mig
      BY <1>0, <3>1 DEF Hosts
    <3> QED BY <1>2, <1>4, <1>5, <2>1, <2>3, <3>2 DEF Does, Keep
  <2> QED BY <1>1, <1>7, <2>2, <2>3 DEF LockPolicy
<1>8. CASE InstallPackages
  <2>1. run.at = "i.packages" /\ UNCHANGED base /\ Fence("i.boundary2")
    BY <1>1, <1>8 DEF InstallPackages, At, Keep
  <2>2. CASE host' = host BY <1>2, <1>4, <1>5, <2>1, <2>2
  <2>3. CASE host' \in Scripted(Exchanged(host, DesiredPackages))
    <3>1. DesiredPackages \in PackageSets /\ Driver("new") \in DesiredPackages
      BY DEF DesiredPackages, PackageSets, Identities, Driver, Toolkit
    <3>2. host'.packages = DesiredPackages /\ host'.loaded = host.loaded /\ host'.mig = host.mig
      BY <1>0, <2>3, <3>1, ExchangedFacts, ScriptedFacts
    <3>3. OnDisk(host') = "new" BY <3>1, <3>2 DEF OnDisk
    <3>4. run.at \notin HalfDestroyed BY <1>2, <2>1
    <3>5. Mild BY <1>0, <2>1, <3>2, <3>3, <3>4 DEF RInv, Whole, Real, Mild
    <3> QED BY <1>3, <1>5, <2>1, <3>5
  <2> QED BY <1>1, <1>8, <2>2, <2>3 DEF InstallPackages
<1>9. CASE PostPackageBoundary \/ VerifyCore \/ Compensate
  <2>1. /\ run.at \in {"i.boundary2", "i.verify", "i.compensate"} /\ UNCHANGED <<host, base>>
        /\ Go("i.teardown") \/ Go("i.release") \/ Fence("i.reaudit")
    BY <1>9 DEF PostPackageBoundary, VerifyCore, Boundary, Compensate, Compensates, At
  <2> QED BY <1>2, <1>4, <1>5, <2>1
<1>10. CASE Teardown \/ ReconcileMig
  <2>1. PICK l \in InstallLabels : Skips(l)
    BY <1>5, <1>10 DEF Teardown, ReconcileMig
  <2>2. run.at \notin HalfDestroyed BY <1>2, <1>10 DEF Teardown, ReconcileMig, At
  <2> QED BY <1>4, <2>1, <2>2 DEF Skips
<1>11. CASE InstallDestroyCompute
  <2>1. PICK l \in {"i.dgi", "i.mdgi"} :
          run.at \in {"i.dci", "i.mdci"} /\ DestroyCompute(l, "i.compensate")
    BY <1>11 DEF InstallDestroyCompute, At
  <2>2. Mild /\ (Go(l) \/ Go("i.compensate")) BY <1>2, <2>1, DestroyComputeMild
  <2> QED BY <1>3, <1>5, <2>1, <2>2
<1>12. CASE InstallDestroyGpu
  <2>1. PICK l \in {"i.unload", "i.create", "i.mode"} : Does({GpuDestroyed(host)}, l)
    BY <1>1, <1>12 DEF InstallDestroyGpu
  <2>2. host' = GpuDestroyed(host) /\ Go(l) /\ UNCHANGED base BY <2>1 DEF Does, Keep
  <2>3. host'.loaded = host.loaded /\ host'.packages = host.packages
        /\ host'.mig = [host.mig EXCEPT !.parts = "none"]
    BY <1>0, <2>2 DEF GpuDestroyed, Hosts
  <2>4. Mild BY <1>0, <2>2, <2>3, Parts DEF RInv, Whole, Real, Mild, OnDisk
  <2> QED BY <1>3, <1>5, <2>2, <2>4
<1>13. CASE PrepareUnload
  <2>1. run.at = "i.unload" BY <1>13 DEF PrepareUnload, At
  <2>2. CASE Skips("i.reconcile") BY <1>2, <1>4, <1>5, <2>1, <2>2 DEF Skips
  <2>3. CASE Unload("i.load", "i.compensate")
    <3>1. Mild /\ (Go("i.load") \/ Go("i.compensate")) BY <1>2, <2>1, <2>3, UnloadMild
    <3> QED BY <1>3, <1>5, <3>1
  <2> QED BY <1>13, <2>2, <2>3 DEF PrepareUnload
<1>14. CASE PrepareLoad
  <2>1. run.at = "i.load" BY <1>14 DEF PrepareLoad, At
  <2>2. CASE Skips("i.reconcile") BY <1>2, <1>4, <1>5, <2>1, <2>2 DEF Skips
  <2>3. CASE Load(Plan.loaded.names, "i.load", "i.compensate")
    <3>1. Mild /\ (Go("i.load") \/ Go("i.compensate")) BY <1>2, <2>1, <2>3, LoadMild
    <3> QED BY <1>3, <1>5, <3>1
  <2> QED BY <1>14, <2>2, <2>3 DEF PrepareLoad
<1>15. CASE SetMode
  <2>1. /\ run.at = "i.mode"
        /\ \E h \in ModeSet(host, want.mig) : \E l \in {"i.compensate", "i.create", "i.docker"} :
             Does({h}, l)
    BY <1>1, <1>15 DEF SetMode, At
  <2>2. PICK l \in {"i.compensate", "i.create", "i.docker"} :
          host' \in ModeSet(host, want.mig) /\ Go(l) /\ UNCHANGED base
    BY <2>1 DEF Does, Keep
  <2>3. Mild BY <1>2, <2>1, <2>2, WantFacts, ModeSetMild
  <2> QED BY <1>3, <1>5, <2>2, <2>3
<1>16. CASE CreateGeometry
  <2>1. host' = Partitioned(host, "full") /\ Go("i.docker") /\ UNCHANGED base
    BY <1>1, <1>16 DEF CreateGeometry, Does, Keep
  <2>2. host'.loaded = host.loaded /\ host'.packages = host.packages
        /\ host'.mig = [host.mig EXCEPT !.parts = "full"]
    BY <1>0, <2>1 DEF Partitioned, Hosts
  <2>3. Mild BY <1>0, <2>1, <2>2, Parts DEF RInv, Whole, Real, Mild, OnDisk
  <2> QED BY <1>3, <1>5, <2>1, <2>3
<1>17. CASE ConfigureDocker
  <2>1. /\ run.at = "i.docker" /\ host' = [host EXCEPT !.files["docker"] = "set"]
        /\ Go("i.verify") /\ UNCHANGED base
    BY <1>1, <1>17 DEF ConfigureDocker, Does, Keep, At
  <2>2. host'.loaded = host.loaded /\ host'.packages = host.packages /\ host'.mig = host.mig
    BY <1>0, <2>1 DEF Hosts
  <2> QED BY <1>2, <1>4, <1>5, <2>1, <2>2
<1>18. CASE ReleaseTarget
  <2>1. /\ run.at = "i.release" /\ host' = [host EXCEPT !.units = TargetUnits]
        /\ Go("i.container") /\ UNCHANGED base
    BY <1>1, <1>18 DEF ReleaseTarget, Does, Keep, At
  <2>2. host'.loaded = host.loaded /\ host'.packages = host.packages /\ host'.mig = host.mig
    BY <1>0, <2>1 DEF Hosts
  <2> QED BY <1>2, <1>4, <1>5, <2>1, <2>2
<1>19. CASE VerifyContainer
  <2>1. run.at = "i.container" /\ UNCHANGED <<host, base>> /\ run' = Idle
    BY <1>1, <1>19 DEF VerifyContainer, Ends, At
  <2> QED BY <1>0, <1>2, <2>1, MildHost, EndsMildly
<1> QED BY <1>6, <1>7, <1>8, <1>9, <1>10, <1>11, <1>12, <1>13, <1>14, <1>15, <1>16, <1>17, <1>18, <1>19
        DEF InstallStep

LEMMA SettleMild ==
  ASSUME IInv, RInv, faults = 0, faults' = 0, SettleStep, ~ PlanSettle
  PROVE  RInv'
<1>0. run \in Runs /\ host \in Hosts /\ faults' = faults BY DEF IInv, Typed
<1>1. \A hosts, l : ~ Fails(hosts, l) BY NoFailure
<1>2. run.at \notin HalfDestroyed /\ run.at \in SettleLabels
  BY ProceedingFacts DEF HalfDestroyed, SettleLabels
<1>3. ASSUME NEW l \in SettleLabels, Go(l) \/ Fence(l), Mild PROVE RInv'
  BY <1>3, UnfollowedFacts, Elsewhere
<1>4. ASSUME NEW l \in SettleLabels, Go(l) \/ Fence(l),
             host'.loaded = host.loaded, host'.packages = host.packages,
             host'.mig.parts = host.mig.parts, UNCHANGED base
      PROVE  RInv'
  BY <1>0, <1>2, <1>3, <1>4, MildHost
<1>5. {"s.policy", "s.unload", "s.load", "s.core", "s.release", "s.services", "s.abandon",
       "s.failed"} \subseteq SettleLabels
  BY DEF SettleLabels
<1>6. CASE SettleBoundary
  <2>1. UNCHANGED <<host, base>> BY <1>6 DEF SettleBoundary
  <2>2. CASE Fence("s.failed") BY <1>4, <1>5, <2>1, <2>2
  <2>3. CASE \E l \in {"s.policy", "s.unload"} : \E a : run' = [run EXCEPT !.at = l, !.audit = a]
    <3>1. run'.at \in {"s.policy", "s.unload"} BY <1>0, <2>3 DEF Runs
    <3>2. Place' \notin Followed BY <3>1 DEF Place, Fencing, Followed
    <3>3. Mild BY <1>0, <1>2, <2>1, MildHost
    <3> QED BY <3>1, <3>2, <3>3, Nowhere, MildFacts
  <2> QED BY <1>6, <2>2, <2>3 DEF SettleBoundary, Abandons
<1>7. CASE SettleUnload
  <2>1. CASE Skips("s.core") BY <1>4, <1>5, <2>1 DEF Skips
  <2>2. CASE Unload("s.load", "s.abandon")
    <3>1. Mild /\ (Go("s.load") \/ Go("s.abandon")) BY <1>2, <2>2, UnloadMild
    <3> QED BY <1>3, <1>5, <3>1
  <2> QED BY <1>7, <2>1, <2>2 DEF SettleUnload
<1>8. CASE SettleLoad
  <2>1. CASE Skips("s.core") BY <1>4, <1>5, <2>1 DEF Skips
  <2>2. CASE Load(Plan.loaded.names, "s.load", "s.abandon")
    <3>1. Mild /\ (Go("s.load") \/ Go("s.abandon")) BY <1>2, <2>2, LoadMild
    <3> QED BY <1>3, <1>5, <3>1
  <2> QED BY <1>8, <2>1, <2>2 DEF SettleLoad
<1>9. CASE ApplyPolicy
  <2>1. host' \in Scripted(Selected) /\ Go("s.core") /\ UNCHANGED base
    BY <1>1, <1>9 DEF ApplyPolicy, Does, Keep
  <2>2. Selected \in Hosts /\ Selected.packages = host.packages /\ Selected.loaded = host.loaded
        /\ Selected.mig = host.mig
    BY <1>0, FileFacts DEF Selected, Contents
  <2>3. host'.packages = host.packages /\ host'.loaded = host.loaded /\ host'.mig = host.mig
    BY <2>1, <2>2, ScriptedFacts
  <2> QED BY <1>4, <1>5, <2>1, <2>3
<1>10. CASE SettleCore \/ Abandon
  <2>1. UNCHANGED <<host, base>> /\ (Go("s.release") \/ Fence("s.failed"))
    BY <1>10 DEF SettleCore, Abandon, Abandons
  <2> QED BY <1>4, <1>5, <2>1
<1>11. CASE ReleaseSettled
  <2>1. host' = [host EXCEPT !.units = base.host.units] /\ Go("s.services") /\ UNCHANGED base
    BY <1>1, <1>11 DEF ReleaseSettled, Does, Keep
  <2>2. host'.loaded = host.loaded /\ host'.packages = host.packages /\ host'.mig = host.mig
    BY <1>0, <2>1 DEF Hosts
  <2> QED BY <1>4, <1>5, <2>1, <2>2
<1>12. CASE VerifyServices
  <2>1. UNCHANGED <<host, base>> /\ run' = Idle BY <1>12 DEF VerifyServices, Ends
  <2> QED BY <1>0, <1>2, <2>1, MildHost, EndsMildly
<1>13. CASE SettleFails
  <2>1. host' \in Requiesced(host) /\ UNCHANGED base /\ run' = Idle BY <1>13 DEF SettleFails, Ends
  <2>2. Core(host') = Core(host) BY <1>0, <2>1, RequiescedFacts
  <2>3. host'.loaded = host.loaded /\ host'.packages = host.packages /\ host'.mig = host.mig
    BY <2>2, CoreFacts
  <2> QED BY <1>0, <1>2, <2>1, <2>3, MildHost, EndsMildly
<1> QED BY <1>6, <1>7, <1>8, <1>9, <1>10, <1>11, <1>12, <1>13 DEF SettleStep

-----------------------------------------------------------------------------
(* The restore, statement by statement. *)

(* The state in which a restore is followed. *)
LEMMA FollowFacts ==
  ASSUME IInv, RInv, faults = 0, run.at \in RestoreLabels, ~ Skewed(base.host)
  PROVE  /\ Sane /\ Follows /\ Real(host) /\ Place = run.at
         /\ host \in Hosts /\ Coherent(host) /\ base.host \in Hosts /\ Coherent(base.host)
         /\ base.host.mig.pending = base.host.mig.mode
         /\ base.host.loaded.build = OnDisk(base.host)
  BY RestorePlaces, Found DEF RInv, Whole, Skewed

(* To a statement l: what it follows from is a matter of the host and the audit. *)
LEMMA RestoreOnward ==
  ASSUME IInv, RInv, faults = 0, Mild, NEW l \in WorkLabels \ {"i.snapshot"}, Go(l) \/ Fence(l),
         ~ Skewed(base.host) /\ Sane /\ Place' = l /\ run'.audit = run.audit => Follows'
  PROVE  RInv'
<1>1. Place' = l /\ run'.audit = run.audit BY Onward
<1>2. run'.at # "i.snapshot" BY DEF Go, Fence, IInv, Typed, Runs
<1> QED BY <1>1, <1>2, MildFacts

(* Why the machine cannot be enumerated: its modules are not those on disk. *)
LEMMA BlindIsSkewed ==
  ASSUME NEW h \in Hosts, Real(h), OnDisk(h) # "none", FALSE \in Enumerations(h)
  PROVE  Skewed(h)
  BY DEF Enumerations, Real, Skewed

(* A machine whose modules are those of the snapshot can be looked at. *)
LEMMA ModulesBackFacts ==
  ASSUME Sane, ~ Skewed(base.host), PackagesBack, host.loaded = base.host.loaded
  PROVE  Enumerations(host) = {TRUE} /\ OnDisk(host) = OnDisk(base.host) /\ ~ Skewed(host)
  BY DEF Sane, Skewed, PackagesBack, Enumerations, OnDisk

LEMMA GeometryFacts ==
  ASSUME NEW h \in Hosts, Coherent(h), Settles(h)
  PROVE  /\ Geometry(Audit(h, TRUE)) = h.mig.parts
         /\ GeometryComplete(Audit(h, TRUE))
         /\ Audit(h, TRUE).host = h /\ Audit(h, TRUE).gpus
  BY Parts DEF Geometry, GeometryComplete, Audit, Settles, Coherent, Modes

(* The target of a restore is the snapshot's packages; without a delta they are there. *)
LEMMA SlotFacts ==
  ASSUME NEW p \in PackageSets, NEW i \in p, NEW j \in p, i.slot = j.slot
  PROVE  i = j
  BY DEF PackageSets, Identities, Driver, Toolkit

LEMMA GoalIsBase ==
  ASSUME NEW h \in Hosts, base.host \in Hosts
  PROVE  /\ Goal(h) = base.host.packages
         /\ Delta(h) = {} => h.packages = base.host.packages
<1> DEFINE b == base.host.packages
           p == h.packages
<1>1. b \in PackageSets /\ p \in PackageSets BY Parts
<1>2. Missing(h) = b \ p BY DEF Missing
<1>3. \A i : i \in Added(h) <=> /\ i \in p /\ i \notin b
                               /\ \/ \A j \in b : j.slot # i.slot
                                  \/ \E j \in p \cap b : j.slot = i.slot
  BY DEF Added, Slots
<1>4. \A i : i \in Goal(h) <=> \/ i \in b \ p
                               \/ i \in p /\ i \notin Added(h) /\ \A j \in b \ p : j.slot # i.slot
  <2>1. \A i : i.slot \notin Slots(Missing(h)) <=> \A j \in b \ p : j.slot # i.slot
    BY <1>2 DEF Slots
  <2>2. Goal(h) = {i \in p \ Added(h) : i.slot \notin Slots(Missing(h))} \cup (b \ p)
    BY <1>2 DEF Goal
  <2> HIDE DEF b, p
  <2> QED BY <2>1, <2>2
<1> HIDE DEF b, p
<1>5. ASSUME NEW i \in b PROVE i \in Goal(h)
  <2>1. CASE i \in p
    <3>1. i \notin Added(h) BY <1>3
    <3>2. \A j \in b \ p : j.slot # i.slot BY <1>1, <2>1, SlotFacts
    <3> QED BY <1>4, <2>1, <3>1, <3>2
  <2>2. CASE i \notin p BY <1>4, <1>5, <2>2
  <2> QED BY <2>1, <2>2
<1>6. ASSUME NEW i \in p, i \notin b PROVE i \notin Goal(h)
  <2>1. CASE \A j \in b : j.slot # i.slot BY <1>3, <1>4, <1>6, <2>1
  <2>2. CASE \E j \in b : j.slot = i.slot
    <3>1. PICK j \in b : j.slot = i.slot BY <2>2
    <3>2. CASE j \in p BY <1>3, <1>4, <1>6, <3>1, <3>2
    <3>3. CASE j \notin p BY <1>4, <1>6, <3>1, <3>3
    <3> QED BY <3>2, <3>3
  <2> QED BY <2>1, <2>2
<1>7. Goal(h) = b BY <1>4, <1>5, <1>6
<1>8. ASSUME Delta(h) = {} PROVE p = b
  <2>1. Missing(h) = {} /\ Added(h) = {} BY <1>8 DEF Delta
  <2>2. b \subseteq p BY <1>2, <2>1
  <2>3. \A i \in p : i \notin b => FALSE
    <3> SUFFICES ASSUME NEW i \in p, i \notin b PROVE i \in Added(h) BY <2>1
    <3>1. CASE \A j \in b : j.slot # i.slot BY <1>3, <3>1
    <3>2. CASE \E j \in b : j.slot = i.slot BY <1>3, <2>2, <3>2
    <3> QED BY <3>1, <3>2
  <2> QED BY <2>2, <2>3
<1> QED BY <1>7, <1>8 DEF b, p

(* The audit a restore begins with. *)
LEMMA LookFollows ==
  ASSUME IInv, RInv, faults = 0, UNCHANGED <<host, base, faults>>, run.at \notin HalfDestroyed,
         NEW gpus \in Enumerations(host),
         run' = [run EXCEPT !.at = "r.check", !.audit = Audit(host, gpus)]
  PROVE  RInv'
<1>1. host \in Hosts /\ run \in Runs BY DEF IInv, Typed
<1>2. run'.at = "r.check" /\ run'.audit = Audit(host, gpus) BY <1>1 DEF Runs
<1>3. Place' = "r.check" BY <1>2 DEF Place, Fencing
<1>4. run'.audit.host = host' /\ run'.audit.gpus = gpus BY <1>1, <1>2, AuditFacts
<1>5. Mild BY MildHost
<1>6. ASSUME base.taken, ~ Skewed(base.host), Sane PROVE Follows'
  <2>1. Real(host) /\ OnDisk(host) # "none" BY <1>6 DEF RInv, Whole, Sane
  <2>2. gpus \/ Skewed(host) BY <1>1, <2>1, BlindIsSkewed DEF Enumerations
  <2>3. Skewed(host)' <=> Skewed(host) BY DEF Skewed, OnDisk
  <2>4. Looked' BY <1>1, <1>4 DEF Looked
  <2> QED BY <1>3, <1>4, <2>2, <2>3, <2>4 DEF Follows
<1> QED BY <1>2, <1>5, <1>6, MildFacts

LEMMA BoundaryFollows ==
  ASSUME IInv, RInv, faults = 0, faults' = 0, RollbackBoundary \/ Reaudit
  PROVE  RInv'
<1>1. /\ run.at \in {"r.boundary", "i.reaudit"} /\ UNCHANGED <<host, base, faults>>
      /\ run.at \notin HalfDestroyed
  BY DEF RollbackBoundary, Reaudit, At, HalfDestroyed
<1>2. CASE \E gpus \in Enumerations(host) :
             run' = [run EXCEPT !.at = "r.check", !.audit = Audit(host, gpus)]
  BY <1>1, <1>2, LookFollows
<1>3. CASE RollbackBoundary /\ Go("r.unverified") /\ FALSE \in Enumerations(host)
  <2>1. Mild BY <1>1, MildHost
  <2>2. "r.unverified" \in WorkLabels \ {"i.snapshot"} BY DEF WorkLabels, RestoreLabels
  <2>3. host \in Hosts /\ Real(host) BY DEF IInv, Typed, RInv, Whole
  <2>4. ASSUME Sane, Place' = "r.unverified" PROVE Follows'
    <3>1. Skewed(host) BY <1>3, <2>3, <2>4, BlindIsSkewed DEF Sane
    <3>2. Reason' BY <1>1, <3>1 DEF Reason, Skewed, OnDisk
    <3> QED BY <2>4, <3>2 DEF Follows
  <2> QED BY <1>3, <2>1, <2>2, <2>4, RestoreOnward
<1>4. RollbackBoundary => Quarantined(host)
  BY RestorePlaces DEF RollbackBoundary, At, RestoreLabels, RestoreFree
<1> QED BY <1>2, <1>3, <1>4 DEF RollbackBoundary, Reaudit, Enumerations

(* A restore that cannot be applied has a reason; one with nothing to do is done. *)
LEMMA ChecksFollows ==
  ASSUME IInv, RInv, faults = 0, faults' = 0, Checks
  PROVE  RInv'
<1> DEFINE a == run.audit
<1>1. run.at = "r.check" /\ run.at \in RestoreLabels /\ UNCHANGED <<host, base, faults>>
  BY DEF Checks, At, RestoreLabels
<1>2. Mild BY <1>1, MildHost DEF HalfDestroyed
<1>3. {"r.failed", "r.packages", "r.verify"} \subseteq WorkLabels \ {"i.snapshot"}
  BY DEF WorkLabels, RestoreLabels
<1>4. ASSUME ~ Skewed(base.host)
      PROVE  /\ Sane /\ a.host \in Hosts /\ Core(a.host) = Core(host) /\ Real(host) /\ host \in Hosts
             /\ Coherent(a.host) /\ base.host \in Hosts /\ Coherent(base.host)
             /\ base.host.mig.pending = base.host.mig.mode
             /\ a.gpus \/ host.loaded.names = {} \/ Skewed(host)
  BY <1>1, <1>4, FollowFacts, CoreFacts DEF Follows, Looked
<1> HIDE DEF a
<1>5. ASSUME ~ Skewed(base.host), a.gpus, Settles(a.host)
      PROVE  GeometryComplete(a) /\ Geometry(a) = host.mig.parts
  <2>1. a.host.mig = host.mig BY <1>4, <1>5, CoreFacts
  <2> QED BY <1>4, <1>5, <2>1, Parts DEF Geometry, GeometryComplete, Settles, Coherent, Modes
<1>6. CASE ~ Applicable(a) /\ Go("r.failed")
  <2>1. ASSUME ~ Skewed(base.host), Place' = "r.failed" PROVE Follows'
    <3>1. Restorable(BaseGeometry) /\ OnDisk(host) # "none" BY <1>4, <2>1 DEF Sane
    <3>2. ~ a.gpus \/ ~ Settles(a.host) BY <1>6, <3>1 DEF Applicable, GeometryComplete, Settles
    <3>3. CASE ~ a.gpus
      <4>0. (host.loaded.names = {} \/ Skewed(host)) /\ Real(host) BY <1>4, <2>1, <3>3
      <4>1. Skewed(host) BY <3>1, <4>0 DEF Skewed, Real
      <4> QED BY <1>1, <2>1, <4>1 DEF Follows, Reason, Skewed, OnDisk
    <3>4. CASE ~ Settles(a.host)
      <4>1. ~ Settles(host) BY <1>4, <2>1, <3>4, CoreFacts DEF Settles
      <4>2. ~ Settles(host)' BY <1>1, <4>1 DEF Settles
      <4> QED BY <2>1, <4>2 DEF Follows, Reason
    <3> QED BY <3>2, <3>3, <3>4
  <2> QED BY <1>2, <1>3, <1>6, <2>1, RestoreOnward
<1>7. CASE Applicable(a) /\ Fence("r.packages")
  <2>1. ASSUME ~ Skewed(base.host), Place' = "r.packages", run'.audit = run.audit PROVE Follows'
    <3>1. a.gpus /\ Settles(a.host) BY <1>7 DEF Applicable, GeometryComplete, Settles
    <3>2. Settles(host) BY <1>4, <2>1, <3>1, CoreFacts DEF Settles
    <3>3. Looked /\ Decided BY <1>4, <2>1, <3>1, <3>2 DEF Looked, Decided, a
    <3>4. Looked' /\ Decided' BY <1>1, <2>1, <3>3 DEF Looked, Decided, Settles
    <3> QED BY <2>1, <3>4 DEF Follows
  <2> QED BY <1>2, <1>3, <1>7, <2>1, RestoreOnward
<1>8. CASE Applicable(a) /\ ~ Mutates(a) /\ Go("r.verify")
  <2>1. ASSUME ~ Skewed(base.host), Place' = "r.verify" PROVE Follows'
    <3>1. a.gpus /\ Settles(a.host) BY <1>8 DEF Applicable, GeometryComplete, Settles
    <3>2. Delta(a.host) = {} /\ ModuleMatches(a.host) /\ ~ MigRequired(a) /\ FilesMatch(host)
      BY <1>8 DEF Mutates
    <3>3. a.host.packages = base.host.packages BY <1>4, <2>1, <3>2, GoalIsBase
    <3>4. a.host.mig.mode = base.host.mig.mode /\ Geometry(a) = BaseGeometry
      BY <3>2 DEF MigRequired, MigDiffers
    <3>5. BaseGeometry = base.host.mig.parts
      BY <1>4, <2>1, GeometryFacts DEF BaseGeometry, Settles
    <3>6. host.mig = base.host.mig
      <4>1. host.mig = a.host.mig BY <1>4, <2>1, CoreFacts
      <4>2. host.mig.parts = base.host.mig.parts BY <1>5, <2>1, <3>1, <3>4, <3>5
      <4>3. host.mig.mode = base.host.mig.mode /\ host.mig.pending = base.host.mig.pending
        BY <1>4, <2>1, <3>1, <3>4, <4>1 DEF Settles
      <4>4. /\ host.mig \in [mode : Modes, pending : Modes, parts : Layouts]
            /\ base.host.mig \in [mode : Modes, pending : Modes, parts : Layouts]
        BY <1>4, <2>1, Parts
      <4> QED BY <4>2, <4>3, <4>4
    <3>7. host.packages = base.host.packages /\ host.loaded = base.host.loaded
          /\ host.files = base.host.files
      BY <1>4, <2>1, <3>2, <3>3, CoreFacts DEF ModuleMatches, FilesMatch
    <3>8. Core(host') = Core(base'.host) BY <1>1, <3>6, <3>7 DEF Core
    <3> QED BY <2>1, <3>8 DEF Follows
  <2> QED BY <1>2, <1>3, <1>8, <2>1, RestoreOnward
<1> QED BY <1>6, <1>7, <1>8 DEF Checks, a

(* The packages of the snapshot. *)
LEMMA PackagesFollow ==
  ASSUME IInv, RInv, faults = 0, faults' = 0, RestorePackages
  PROVE  RInv'
<1>1. run.at = "r.packages" /\ run.at \in RestoreLabels BY DEF RestorePackages, At, RestoreLabels
<1>2. run.at \notin HalfDestroyed BY <1>1 DEF HalfDestroyed
<1>3. "r.docker" \in WorkLabels \ {"i.snapshot"} BY DEF WorkLabels, RestoreLabels
<1>4. /\ host \in Hosts /\ base.host \in Hosts /\ Real(host) /\ base.taken
      /\ run.audit.host \in Hosts /\ run.audit.host.packages = host.packages
      /\ faults' = faults
  BY <1>1, RestorePlaces, Found DEF RInv, Whole, IInv, Reached, Audited, Observed
<1>5. /\ Go("r.docker") /\ UNCHANGED base
      /\ host' = host \/ host' \in Scripted(Exchanged(host, base.host.packages))
      /\ host' = host => host'.packages = base.host.packages
  <2>1. CASE Delta(run.audit.host) = {} /\ Skips("r.docker")
    BY <1>4, <2>1, GoalIsBase DEF Skips
  <2>2. CASE Does(Scripted(Exchanged(host, Goal(run.audit.host))), "r.docker")
    <3>1. base.host.packages \in PackageSets BY <1>4, Parts
    <3>2. host' \in Scripted(Exchanged(host, base.host.packages))
      BY <1>4, <2>2, GoalIsBase DEF Does
    <3> QED BY <1>4, <2>2, <3>1, <3>2, ExchangedFacts, ScriptedFacts DEF Does, Keep
  <2> QED BY <2>1, <2>2, NoFailure DEF RestorePackages
<1>6. /\ host'.packages = base.host.packages /\ host'.loaded = host.loaded
      /\ host'.mig = host.mig
  <2>1. base.host.packages \in PackageSets BY <1>4, Parts
  <2> QED BY <1>4, <1>5, <2>1, ExchangedFacts, ScriptedFacts
<1>7. Real(host') BY <1>4, <1>6 DEF Real
<1>8. Whole' BY <1>5, <1>7 DEF Whole, At, Go, IInv, Typed, Runs
<1>9. Place' = "r.docker" /\ run'.audit = run.audit /\ run'.at = "r.docker"
  <2>1. Place' = "r.docker" /\ run'.audit = run.audit BY <1>3, <1>5, Onward
  <2> QED BY <1>5, <2>1 DEF Go, IInv, Typed, Runs
<1>10. ASSUME ~ Skewed(base.host) PROVE Sane' /\ Follows'
  <2>1. Sane /\ Looked /\ Decided BY <1>1, <1>10, FollowFacts DEF Follows
  <2>2. Sane'
    BY <1>2, <1>5, <1>6, <2>1 DEF Sane, OnDisk, BaseGeometry, Restorable
  <2>3. run.audit.host.loaded = host.loaded /\ run.audit.host.mig = host.mig
    BY <2>1, CoreFacts DEF Looked
  <2>4. Decided' /\ SameMig' /\ run'.audit.host.loaded = host'.loaded /\ PackagesBack'
    BY <1>5, <1>6, <1>9, <2>1, <2>3 DEF Decided, SameMig, PackagesBack, Settles
  <2> QED BY <1>9, <2>2, <2>4 DEF Follows
<1> QED BY <1>5, <1>8, <1>10 DEF RInv, Skewed, OnDisk

(* The files. *)
LEMMA FilesFollow ==
  ASSUME IInv, RInv, faults = 0, faults' = 0, RestoreDockerConfig \/ RestorePolicy
  PROVE  RInv'
<1>1. run.at \in {"r.docker", "r.policy"} /\ run.at \in RestoreLabels
  BY DEF RestoreDockerConfig, RestorePolicy, At, RestoreLabels
<1>2. host \in Hosts /\ base.host \in Hosts /\ faults' = faults BY <1>1, RestorePlaces, Found
<1>3. ASSUME NEW f \in {"docker", "policy"}
      PROVE  /\ Rewritten(f).packages = host.packages /\ Rewritten(f).loaded = host.loaded
             /\ Rewritten(f).mig = host.mig
             /\ Rewritten(f).files = [host.files EXCEPT ![f] = base.host.files[f]]
  BY <1>2 DEF Rewritten, Hosts
<1>4. {"r.policy", "r.unload"} \subseteq WorkLabels \ {"i.snapshot"}
  BY DEF WorkLabels, RestoreLabels
<1>5. /\ host.files \in [{"docker", "policy"} -> Contents]
      /\ base.host.files \in [{"docker", "policy"} -> Contents]
  BY <1>2, Parts
<1>6. ASSUME ~ Skewed(base.host)
      PROVE  Decided /\ SameMig /\ run.audit.host.loaded = host.loaded /\ PackagesBack
  BY <1>1, <1>6, FollowFacts DEF Follows
<1>7. CASE RestoreDockerConfig
  <2>1. host' = Rewritten("docker") /\ Go("r.policy") /\ UNCHANGED base
    BY <1>7, NoFailure DEF RestoreDockerConfig, Does, Keep
  <2>2. Mild BY <1>1, <1>2, <1>3, <2>1, MildHost DEF HalfDestroyed
  <2>3. ASSUME ~ Skewed(base.host), Place' = "r.policy", run'.audit = run.audit PROVE Follows'
    <3>1. host'.files["docker"] = base'.host.files["docker"] BY <1>3, <1>5, <2>1
    <3>2. Decided' /\ SameMig' /\ run'.audit.host.loaded = host'.loaded /\ PackagesBack'
      BY <1>3, <1>6, <2>1, <2>3 DEF Decided, SameMig, PackagesBack, Settles
    <3> QED BY <2>3, <3>1, <3>2 DEF Follows
  <2> QED BY <1>4, <2>1, <2>2, <2>3, RestoreOnward
<1>8. CASE RestorePolicy
  <2>1. host' = Rewritten("policy") /\ Fence("r.unload") /\ UNCHANGED base /\ run.at = "r.policy"
    BY <1>8, NoFailure DEF RestorePolicy, Keep, At
  <2>2. Mild BY <1>1, <1>2, <1>3, <2>1, MildHost DEF HalfDestroyed
  <2>3. ASSUME ~ Skewed(base.host), Place' = "r.unload", run'.audit = run.audit PROVE Follows'
    <3>1. host.files["docker"] = base.host.files["docker"]
      BY <2>1, <1>1, <2>3, FollowFacts DEF Follows
    <3>2. host'.files = base'.host.files BY <1>3, <1>5, <2>1, <3>1
    <3>3. Decided' /\ SameMig' /\ run'.audit.host.loaded = host'.loaded /\ PackagesBack'
      BY <1>3, <1>6, <2>1, <2>3 DEF Decided, SameMig, PackagesBack, Settles
    <3> QED BY <2>3, <3>2, <3>3 DEF Follows, FilesBack
  <2> QED BY <1>4, <2>1, <2>2, <2>3, RestoreOnward
<1> QED BY <1>7, <1>8

LEMMA SameReset ==
  ASSUME UNCHANGED base, run'.audit = run.audit PROVE Reset' <=> Reset
  BY DEF Reset, ModuleMatches, OnDisk

(* The modules go. *)
LEMMA RemoveFollows ==
  ASSUME IInv, RInv, faults = 0, faults' = 0, RemoveModules
  PROVE  RInv'
<1>1. run.at = "r.unload" /\ run.at \in RestoreLabels /\ run.at \notin HalfDestroyed
  BY DEF RemoveModules, At, RestoreLabels, HalfDestroyed
<1>2. host \in Hosts /\ Coherent(host) /\ Quarantined(host) /\ faults' = faults
  BY <1>1, RestorePlaces DEF RestoreFree
<1>3. "r.load" \in WorkLabels \ {"i.snapshot"} BY DEF WorkLabels, RestoreLabels
<1>4. ASSUME ~ Skewed(base.host)
      PROVE  Decided /\ SameMig /\ run.audit.host.loaded = host.loaded /\ FilesBack
  BY <1>1, <1>4, FollowFacts DEF Follows
<1>5. CASE (~ Reset \/ host.loaded.names = {}) /\ Skips("r.load")
  <2>1. Go("r.load") /\ UNCHANGED <<host, base, faults>> BY <1>5 DEF Skips
  <2>2. Mild BY <1>1, <2>1, MildHost
  <2>3. ASSUME ~ Skewed(base.host), Place' = "r.load", run'.audit = run.audit PROVE Follows'
    <3>1. Decided' /\ FilesBack'
      BY <1>4, <2>1, <2>3 DEF Decided, FilesBack, PackagesBack, Settles
    <3>2. CASE Reset
      <4>1. host.loaded.names = {} /\ host.mig.parts = "none" BY <1>2, <1>5, <3>2 DEF Coherent
      <4>2. Coming' /\ Reset' BY <2>1, <2>3, <3>2, <4>1, SameReset DEF Coming
      <4> QED BY <2>3, <3>1, <4>2 DEF Follows
    <3>3. CASE ~ Reset
      <4>1. host.loaded = base.host.loaded BY <1>4, <2>3, <3>3 DEF Reset, ModuleMatches
      <4>2. SameMig' /\ host'.loaded = base'.host.loaded /\ ~ Reset'
        BY <1>4, <2>1, <2>3, <3>3, <4>1, SameReset DEF SameMig
      <4> QED BY <2>3, <3>1, <4>2 DEF Follows
    <3> QED BY <3>2, <3>3
  <2> QED BY <1>3, <2>1, <2>2, <2>3, RestoreOnward
<1>6. CASE Reset /\ Unload("r.load", "r.failed")
  <2>1. Removable(host) BY <1>2 DEF Quarantined, Removable
  <2>2. Mild /\ host' = ModulesGone(host) /\ Go("r.load") /\ UNCHANGED base
    BY <1>1, <1>6, <2>1, UnloadMild DEF Mild
  <2>3. /\ host'.packages = host.packages /\ host'.files = host.files
        /\ host'.loaded.names = {} /\ host'.mig = [host.mig EXCEPT !.parts = "none"]
    BY <1>2, <2>2 DEF ModulesGone, Unloaded, Hosts
  <2>4. host'.mig.parts = "none" /\ (Settles(host) => Settles(host'))
    BY <1>2, <2>3, Parts DEF Settles
  <2>5. ASSUME ~ Skewed(base.host), Place' = "r.load", run'.audit = run.audit PROVE Follows'
    <3>1. Decided' /\ FilesBack'
      BY <1>4, <2>2, <2>3, <2>4, <2>5 DEF Decided, FilesBack, PackagesBack
    <3>2. Coming' /\ Reset' BY <1>6, <2>2, <2>3, <2>4, <2>5, SameReset DEF Coming
    <3> QED BY <2>5, <3>1, <3>2 DEF Follows
  <2> QED BY <1>3, <2>2, <2>5, RestoreOnward
<1> QED BY <1>5, <1>6 DEF RemoveModules

(* They come back one by one, from the build the snapshot recorded. *)
LEMMA NextModuleFacts ==
  ASSUME NEW names \in SUBSET Modules, ~ names \subseteq host.loaded.names
  PROVE  NextModule(names) \in names \ host.loaded.names
  BY DEF NextModule, Modules

LEMMA LoadFollows ==
  ASSUME IInv, RInv, faults = 0, faults' = 0, LoadModules
  PROVE  RInv'
<1> DEFINE names == base.host.loaded.names
<1>1. run.at = "r.load" /\ run.at \in RestoreLabels /\ run.at \notin HalfDestroyed
  BY DEF LoadModules, At, RestoreLabels, HalfDestroyed
<1>2. host \in Hosts /\ base.host \in Hosts /\ faults' = faults /\ names \in SUBSET Modules
  BY <1>1, RestorePlaces, Found, Parts
<1>3. {"r.load", "r.mig", "r.failed"} \subseteq WorkLabels \ {"i.snapshot"}
  BY DEF WorkLabels, RestoreLabels
<1>4. ASSUME ~ Skewed(base.host)
      PROVE  /\ Decided /\ FilesBack /\ IF Reset THEN Coming ELSE SameMig /\ host.loaded = base.host.loaded
             /\ names # {} /\ base.host.loaded.build = OnDisk(base.host)
             /\ OnDisk(host) = OnDisk(base.host) /\ OnDisk(host) # "none"
  BY <1>1, <1>4, FollowFacts DEF Follows, Sane, FilesBack, PackagesBack, OnDisk
<1>5. CASE (~ Reset \/ names \subseteq host.loaded.names) /\ Skips("r.mig")
  <2>1. Go("r.mig") /\ UNCHANGED <<host, base, faults>> BY <1>5 DEF Skips
  <2>2. Mild BY <1>1, <2>1, MildHost
  <2>3. ASSUME ~ Skewed(base.host), Place' = "r.mig", run'.audit = run.audit PROVE Follows'
    <3>1. host.loaded = base.host.loaded
      <4>1. CASE ~ Reset BY <1>4, <2>3, <4>1
      <4>2. CASE Reset
        <5>1. host.loaded.names = names /\ host.loaded.build = base.host.loaded.build
          BY <1>4, <1>5, <2>3, <4>2 DEF Coming
        <5> QED BY <1>2, <5>1, Parts
      <4> QED BY <4>1, <4>2
    <3>2. Decided' /\ ModulesBack'
      BY <1>4, <2>1, <2>3, <3>1 DEF Decided, ModulesBack, FilesBack, PackagesBack, Settles
    <3>3. IF Reset' THEN host'.mig.parts = "none" ELSE SameMig'
      BY <1>4, <2>1, <2>3, SameReset DEF Coming, SameMig
    <3> QED BY <2>3, <3>2, <3>3 DEF Follows
  <2> QED BY <1>3, <2>1, <2>2, <2>3, RestoreOnward
<1>6. CASE Reset /\ ~ names \subseteq host.loaded.names /\ Load(names, "r.load", "r.failed")
  <2>1. /\ Mild
        /\ \/ OnDisk(host) = "none" /\ host' = host /\ Go("r.failed")
           \/ host' \in ModuleLoaded(host, NextModule(names)) /\ Go("r.load")
    BY <1>1, <1>6, LoadMild
  <2>2. CASE OnDisk(host) = "none" /\ Go("r.failed")
    <3>1. ASSUME ~ Skewed(base.host) PROVE FALSE BY <1>4, <2>2, <3>1
    <3> QED BY <1>3, <2>1, <2>2, <3>1, RestoreOnward
  <2>3. CASE host' \in ModuleLoaded(host, NextModule(names)) /\ Go("r.load")
    <3>1. NextModule(names) \in names /\ NextModule(names) \in Modules
      BY <1>2, <1>6, NextModuleFacts
    <3>2. /\ host'.packages = host.packages /\ host'.files = host.files
          /\ host'.mig.parts = host.mig.parts
          /\ host'.loaded.names = host.loaded.names \cup {NextModule(names)}
          /\ host.loaded.names # {} => host'.loaded.build = host.loaded.build /\ host'.mig = host.mig
          /\ host.loaded.names = {} => host'.loaded.build = OnDisk(host) /\ Settles(host')
      BY <1>2, <2>3, <3>1, ComesFrom
    <3>3. ASSUME ~ Skewed(base.host), Place' = "r.load", run'.audit = run.audit PROVE Follows'
      <4>1. UNCHANGED base BY <2>1 DEF Mild
      <4>2. Reset' BY <1>6, <3>3, <4>1, SameReset
      <4>3. Coming BY <1>4, <1>6, <3>3
      <4>4. Coming' BY <1>4, <3>1, <3>2, <3>3, <4>1, <4>3 DEF Coming
      <4>5. Settles(host') BY <1>4, <3>2, <3>3 DEF Decided, Settles
      <4>6. Decided' /\ FilesBack'
        BY <1>4, <3>2, <3>3, <4>1, <4>5 DEF Decided, FilesBack, PackagesBack
      <4> QED BY <3>3, <4>2, <4>4, <4>6 DEF Follows
    <3> QED BY <1>3, <2>1, <2>3, <3>3, RestoreOnward
  <2> QED BY <2>1, <2>2, <2>3
<1> QED BY <1>5, <1>6 DEF LoadModules

(* A decision from a fresh look: onward when the mode is settled. *)
LEMMA FreshDecision ==
  ASSUME NEW hosts, NEW l, ThenRefresh(hosts, l)
  PROVE  /\ host' \in hosts /\ UNCHANGED <<base, faults>>
         /\ \/ Go(l) /\ (Enumerations(host') = {TRUE} => Settles(host'))
            \/ /\ Go("r.verify") \/ Go("r.failed")
               /\ Enumerations(host') = {TRUE} => ~ Settles(host')
<1>1. PICK h \in hosts : \E to \in Refreshed(h, l) : Does({h}, to) BY DEF ThenRefresh
<1>2. PICK to \in Refreshed(h, l) : Does({h}, to) BY <1>1
<1>3. host' = h /\ Go(to) /\ UNCHANGED <<base, faults>> BY <1>2 DEF Does, Keep
<1>4. PICK gpus \in Enumerations(h) :
        to = IF gpus THEN IF h.mig.mode = h.mig.pending THEN l
                          ELSE IF h.mig.pending = base.host.mig.mode THEN "r.verify" ELSE "r.failed"
             ELSE "r.failed"
  BY DEF Refreshed
<1>5. CASE Settles(h)
  <2>1. to = l \/ (to = "r.failed" /\ gpus # TRUE) BY <1>4, <1>5 DEF Settles
  <2>2. gpus # TRUE => Enumerations(h) # {TRUE} BY <1>4
  <2> QED BY <1>3, <1>5, <2>1, <2>2
<1>6. CASE ~ Settles(h)
  <2>1. to \in {"r.verify", "r.failed"} BY <1>4, <1>6 DEF Settles
  <2> QED BY <1>3, <1>6, <2>1
<1> QED BY <1>5, <1>6

(* What the MIG step finds decides where it goes. *)
LEMMA NextMigFacts ==
  ASSUME host \in Hosts, Coherent(host), base.host \in Hosts, Coherent(base.host),
         base.host.mig.pending = base.host.mig.mode, ModulesBack,
         Reset => host.mig.parts = "none"
  PROVE  \/ NextMigStep = "r.verify" /\ Core(host) = Core(base.host)
         \/ NextMigStep = "r.dci"
         \/ NextMigStep = "r.mode" /\ host.mig.parts = "none"
         \/ NextMigStep = "r.create" /\ host.mig.parts = "none" /\ host.mig.mode = base.host.mig.mode
<1>1. Geometry(Here) = host.mig.parts /\ Here.host = host
  BY GeometryFacts DEF Here, ModulesBack
<1>2. BaseGeometry = base.host.mig.parts
  BY GeometryFacts DEF BaseGeometry, Settles
<1>3. CASE ~ MigDiffers(Here)
  <2>1. host.mig.mode = base.host.mig.mode /\ host.mig.parts = base.host.mig.parts
    BY <1>1, <1>2, <1>3 DEF MigDiffers
  <2>2. host.mig.pending = base.host.mig.pending BY <2>1 DEF ModulesBack, Settles
  <2>3. host.mig = base.host.mig BY <2>1, <2>2, Parts
  <2> QED BY <1>3, <2>3 DEF NextMigStep, Core, ModulesBack, FilesBack, PackagesBack
<1>4. CASE MigDiffers(Here) /\ host.mig.parts = "none"
  BY <1>1, <1>4 DEF NextMigStep, ModeOrCreate
<1>5. CASE MigDiffers(Here) /\ host.mig.parts # "none"
  <2>1. ~ Reset BY <1>5
  <2>2. base.host.mig.mode = "disabled" \/ Geometry(Here) # BaseGeometry
    <3> SUFFICES ASSUME base.host.mig.mode # "disabled", Geometry(Here) = BaseGeometry PROVE FALSE
      OBVIOUS
    <3>1. host.mig.mode # base.host.mig.mode BY <1>1, <1>5 DEF MigDiffers
    <3>2. host.mig.mode \in Modes /\ base.host.mig.mode \in Modes BY Parts
    <3>3. host.mig.mode = "disabled" BY <3>1, <3>2 DEF Modes
    <3> QED BY <1>5, <3>3 DEF Coherent
  <2> QED BY <1>1, <1>5, <2>1, <2>2 DEF NextMigStep
<1> QED BY <1>3, <1>4, <1>5

LEMMA ObserveFollows ==
  ASSUME IInv, RInv, faults = 0, faults' = 0, ObserveMig
  PROVE  RInv'
<1>1. run.at = "r.mig" /\ run.at \in RestoreLabels /\ run.at \notin HalfDestroyed
  BY DEF ObserveMig, At, RestoreLabels, HalfDestroyed
<1>2. /\ host \in Hosts /\ Coherent(host) /\ base.host \in Hosts /\ Coherent(base.host)
      /\ base.host.mig.pending = base.host.mig.mode
  BY <1>1, RestorePlaces, Found
<1>3. {"r.verify", "r.failed", "r.dci", "r.mode", "r.create"} \subseteq WorkLabels \ {"i.snapshot"}
  BY DEF WorkLabels, RestoreLabels
<1>4. ASSUME ~ Skewed(base.host)
      PROVE  /\ Sane /\ Decided /\ ModulesBack /\ IF Reset THEN host.mig.parts = "none" ELSE SameMig
             /\ Enumerations(host) = {TRUE}
  <2>1. /\ Sane /\ Decided /\ ModulesBack /\ IF Reset THEN host.mig.parts = "none" ELSE SameMig
    BY <1>1, <1>4, FollowFacts DEF Follows
  <2> QED BY <1>4, <2>1, ModulesBackFacts DEF ModulesBack, FilesBack
<1>5. CASE ~ MigRequired(run.audit) /\ ~ Reset /\ Skips("r.verify")
  <2>1. Go("r.verify") /\ UNCHANGED <<host, base, faults>> BY <1>5 DEF Skips
  <2>2. Mild BY <1>1, <2>1, MildHost
  <2>3. ASSUME ~ Skewed(base.host), Place' = "r.verify" PROVE Follows'
    <3>1. Decided /\ ModulesBack /\ run.audit.host.mig = host.mig BY <1>4, <1>5, <2>3 DEF SameMig
    <3>2. run.audit.host.mig.mode = base.host.mig.mode /\ Geometry(run.audit) = BaseGeometry
      BY <1>5 DEF MigRequired, MigDiffers
    <3>3. BaseGeometry = base.host.mig.parts
      BY <1>2, GeometryFacts DEF BaseGeometry, Settles
    <3>4. Geometry(run.audit) = host.mig.parts
      BY <1>2, <3>1, Parts DEF Geometry, GeometryComplete, Decided, Settles, Coherent, Modes
    <3>5. host.mig.mode = base.host.mig.mode /\ host.mig.pending = base.host.mig.pending
      BY <1>2, <3>1, <3>2 DEF Decided, Settles
    <3>6. /\ host.mig \in [mode : Modes, pending : Modes, parts : Layouts]
          /\ base.host.mig \in [mode : Modes, pending : Modes, parts : Layouts]
      BY <1>2, Parts
    <3>7. host.mig = base.host.mig BY <3>2, <3>3, <3>4, <3>5, <3>6
    <3>8. Core(host') = Core(base'.host)
      BY <2>1, <3>1, <3>7 DEF Core, ModulesBack, FilesBack, PackagesBack
    <3> QED BY <2>3, <3>8 DEF Follows
  <2> QED BY <1>3, <2>1, <2>2, <2>3, RestoreOnward
<1>6. CASE ThenRefresh({host}, NextMigStep)
  <2>1. PICK to \in {NextMigStep, "r.verify", "r.failed"} :
          /\ Go(to)
          /\ Enumerations(host') = {TRUE} /\ Settles(host') => to = NextMigStep
    <3>1. \/ Go(NextMigStep)
          \/ /\ Go("r.verify") \/ Go("r.failed")
             /\ Enumerations(host') = {TRUE} => ~ Settles(host')
      BY <1>6, FreshDecision
    <3> QED BY <3>1
  <2>2. UNCHANGED <<host, base, faults>>
    <3>1. host' \in {host} /\ UNCHANGED <<base, faults>> BY <1>6, FreshDecision
    <3> QED BY <3>1
  <2>3. Mild BY <1>1, <2>2, MildHost
  <2>4. NextMigStep \in {"r.verify", "r.dci", "r.mode", "r.create"}
    BY DEF NextMigStep, ModeOrCreate
  <2>5. ASSUME ~ Skewed(base.host), Place' = to PROVE Follows'
    <3>1. Settles(host) /\ to = NextMigStep
      <4>1. Settles(host) BY <1>4, <2>5 DEF Decided
      <4>2. Settles(host') BY <2>2, <4>1
      <4> QED BY <1>4, <2>1, <2>2, <2>5, <4>1, <4>2
    <3>2. \/ to = "r.verify" /\ Core(host) = Core(base.host)
          \/ to = "r.dci"
          \/ to = "r.mode" /\ host.mig.parts = "none"
          \/ to = "r.create" /\ host.mig.parts = "none" /\ host.mig.mode = base.host.mig.mode
      BY <1>2, <1>4, <2>5, <3>1, NextMigFacts
    <3>3. ModulesBack' BY <1>4, <2>2, <2>5 DEF ModulesBack, FilesBack, PackagesBack, Settles
    <3> QED BY <2>2, <2>5, <3>2, <3>3 DEF Follows, Emptied
  <2> QED BY <1>3, <2>1, <2>3, <2>4, <2>5, RestoreOnward
<1> QED BY <1>5, <1>6 DEF ObserveMig

LEMMA DestroyFollows ==
  ASSUME IInv, RInv, faults = 0, faults' = 0, RestoreDestroyCompute \/ RestoreDestroyGpu
  PROVE  RInv'
<1>1. run.at \in {"r.dci", "r.dgi"} /\ run.at \in RestoreLabels
  BY DEF RestoreDestroyCompute, RestoreDestroyGpu, At, RestoreLabels
<1>2. host \in Hosts /\ faults' = faults BY <1>1, RestorePlaces
<1>3. {"r.dgi", "r.failed", "r.mode", "r.create"} \subseteq WorkLabels \ {"i.snapshot"}
  BY DEF WorkLabels, RestoreLabels
<1>4. ASSUME ~ Skewed(base.host) PROVE Sane /\ ModulesBack
  BY <1>1, <1>4, FollowFacts DEF Follows
<1>5. CASE RestoreDestroyCompute
  <2>1. run.at = "r.dci" /\ run.at \notin HalfDestroyed /\ "r.dgi" \in HalfDestroyed
        /\ DestroyCompute("r.dgi", "r.failed")
    BY <1>5 DEF RestoreDestroyCompute, At, HalfDestroyed
  <2>2. Mild /\ (Go("r.dgi") \/ (Go("r.failed") /\ host.mig.parts = "gi"))
    BY <2>1, DestroyComputeMild
  <2>3. host'.packages = host.packages /\ host'.files = host.files /\ host'.loaded = host.loaded
        /\ (Settles(host) => Settles(host'))
    <3>1. host' = host \/ host' = ComputeDestroyed(host)
      BY <2>1, NoFailure DEF DestroyCompute, Does
    <3>2. /\ ComputeDestroyed(host).mig = [host.mig EXCEPT !.parts = "gi"]
          /\ ComputeDestroyed(host).packages = host.packages
          /\ ComputeDestroyed(host).files = host.files /\ ComputeDestroyed(host).loaded = host.loaded
      BY <1>2 DEF ComputeDestroyed, Hosts
    <3>3. Settles(host) => Settles(ComputeDestroyed(host)) BY <1>2, <3>2, Parts DEF Settles
    <3> QED BY <3>1, <3>2, <3>3
  <2>4. UNCHANGED base BY <2>2 DEF Mild
  <2>5. CASE Go("r.failed") /\ host.mig.parts = "gi"
    <3>1. ASSUME ~ Skewed(base.host) PROVE FALSE BY <1>4, <2>1, <2>5, <3>1 DEF Sane
    <3> QED BY <1>3, <2>2, <2>5, <3>1, RestoreOnward
  <2>6. CASE Go("r.dgi")
    <3>1. ASSUME ~ Skewed(base.host), Place' = "r.dgi" PROVE Follows'
      <4>1. ModulesBack' BY <1>4, <2>3, <2>4, <3>1 DEF ModulesBack, FilesBack, PackagesBack
      <4> QED BY <3>1, <4>1 DEF Follows
    <3> QED BY <1>3, <2>2, <2>6, <3>1, RestoreOnward
  <2> QED BY <2>2, <2>5, <2>6
<1>6. CASE RestoreDestroyGpu
  <2>1. host' = GpuDestroyed(host) /\ Go(ModeOrCreate) /\ UNCHANGED base
    BY <1>6, NoFailure DEF RestoreDestroyGpu, Does, Keep
  <2>2. /\ host'.mig = [host.mig EXCEPT !.parts = "none"] /\ host'.packages = host.packages
        /\ host'.files = host.files /\ host'.loaded = host.loaded
    BY <1>2, <2>1 DEF GpuDestroyed, Hosts
  <2>3. host'.mig.parts = "none" /\ host'.mig.mode = host.mig.mode
        /\ (Settles(host) => Settles(host'))
    BY <1>2, <2>2, Parts DEF Settles
  <2>4. Mild BY <1>2, <2>1, <2>2, <2>3 DEF RInv, Whole, Real, Mild, OnDisk
  <2>5. /\ ModeOrCreate \in {"r.mode", "r.create"}
        /\ ModeOrCreate = "r.create" => host.mig.mode = base.host.mig.mode
    BY DEF ModeOrCreate
  <2>6. ASSUME ~ Skewed(base.host), Place' = ModeOrCreate PROVE Follows'
    <3>1. Emptied'
      BY <1>4, <2>1, <2>2, <2>3, <2>6 DEF Emptied, ModulesBack, FilesBack, PackagesBack
    <3> QED BY <2>1, <2>3, <2>5, <2>6, <3>1 DEF Follows
  <2> QED BY <1>3, <2>1, <2>4, <2>5, <2>6, RestoreOnward
<1> QED BY <1>5, <1>6

LEMMA ModeFollows ==
  ASSUME IInv, RInv, faults = 0, faults' = 0, RestoreMode
  PROVE  RInv'
<1>1. run.at = "r.mode" /\ run.at \in RestoreLabels /\ run.at \notin HalfDestroyed
  BY DEF RestoreMode, At, RestoreLabels, HalfDestroyed
<1>2. /\ host \in Hosts /\ Coherent(host) /\ base.host \in Hosts
      /\ base.host.mig.mode \in Modes
  BY <1>1, RestorePlaces, Found, Parts
<1>3. {"r.verify", "r.failed", "r.create"} \subseteq WorkLabels \ {"i.snapshot"}
  BY DEF WorkLabels, RestoreLabels
<1>4. ThenRefresh(ModeSet(host, base.host.mig.mode), "r.create")
  BY NoFailure DEF RestoreMode
<1>5. host' \in ModeSet(host, base.host.mig.mode) /\ UNCHANGED <<base, faults>>
  BY <1>4, FreshDecision
<1>6. PICK to \in {"r.create", "r.verify", "r.failed"} :
        /\ Go(to)
        /\ Enumerations(host') = {TRUE} =>
             \/ Settles(host') /\ to = "r.create"
             \/ ~ Settles(host') /\ to \in {"r.verify", "r.failed"}
  <2>1. \/ Go("r.create") /\ (Enumerations(host') = {TRUE} => Settles(host'))
        \/ /\ Go("r.verify") \/ Go("r.failed")
           /\ Enumerations(host') = {TRUE} => ~ Settles(host')
    BY <1>4, FreshDecision
  <2> QED BY <2>1
<1>7. /\ Mild
      /\ \/ host'.mig.mode = base.host.mig.mode /\ host'.mig.pending = base.host.mig.mode
         \/ host'.mig.mode = host.mig.mode /\ host'.mig.pending = base.host.mig.mode
      /\ host'.mig.parts \in {host.mig.parts, "none"}
  BY <1>1, <1>2, <1>5, ModeSetMild
<1>8. AllBut(host, host') BY <1>2, <1>5, ModeSetFacts
<1>9. ASSUME ~ Skewed(base.host), Place' = to, Sane PROVE Follows'
  <2>1. Emptied BY <1>1, <1>9, FollowFacts DEF Follows
  <2>2. FilesBack' /\ host'.loaded = base'.host.loaded /\ host'.mig.parts = "none"
    BY <1>5, <1>7, <1>8, <2>1 DEF Emptied, ModulesBack, FilesBack, PackagesBack, AllBut, SameBut
  <2>3. Enumerations(host') = {TRUE}
    <3>1. Enumerations(host) = {TRUE}
      BY <1>9, <2>1, ModulesBackFacts DEF Emptied, ModulesBack, FilesBack
    <3>2. host'.loaded = host.loaded /\ host'.packages = host.packages BY <1>8 DEF AllBut, SameBut
    <3>3. OnDisk(host') = OnDisk(host) BY <3>2 DEF OnDisk
    <3> QED BY <3>1, <3>2, <3>3 DEF Enumerations
  <2>4. CASE Settles(host') /\ to = "r.create"
    <3>1. host'.mig.mode = base'.host.mig.mode BY <1>5, <1>7, <2>4 DEF Settles
    <3>2. Emptied' BY <2>2, <2>4 DEF Emptied, ModulesBack
    <3> QED BY <1>9, <2>4, <3>1, <3>2 DEF Follows
  <2>5. CASE ~ Settles(host') /\ to \in {"r.verify", "r.failed"}
    BY <1>9, <2>5 DEF Follows, Reason
  <2> QED BY <1>6, <2>3, <2>4, <2>5
<1> QED BY <1>3, <1>6, <1>7, <1>9, RestoreOnward

LEMMA GeometryFollows ==
  ASSUME IInv, RInv, faults = 0, faults' = 0, RestoreGeometry
  PROVE  RInv'
<1>1. run.at = "r.create" /\ run.at \in RestoreLabels /\ run.at \notin HalfDestroyed
  BY DEF RestoreGeometry, At, RestoreLabels, HalfDestroyed
<1>2. /\ host \in Hosts /\ Coherent(host) /\ base.host \in Hosts /\ Coherent(base.host)
      /\ base.host.mig.pending = base.host.mig.mode /\ faults' = faults
  BY <1>1, RestorePlaces, Found
<1>3. {"r.verify", "r.failed"} \subseteq WorkLabels \ {"i.snapshot"}
  BY DEF WorkLabels, RestoreLabels
<1>4. ASSUME ~ Skewed(base.host) PROVE Emptied /\ host.mig.mode = base.host.mig.mode
  BY <1>1, <1>4, FollowFacts DEF Follows
<1>5. BaseGeometry = base.host.mig.parts
  BY <1>2, GeometryFacts DEF BaseGeometry, Settles
<1>6. ASSUME Emptied PROVE Geometry(Here) = "none" /\ host.mig.pending = host.mig.mode
  BY <1>2, <1>6, GeometryFacts DEF Here, Emptied, ModulesBack, Settles
<1>7. ASSUME ~ Skewed(base.host), UNCHANGED base, host'.packages = host.packages,
             host'.files = host.files, host'.loaded = host.loaded,
             host'.mig.mode = host.mig.mode, host'.mig.pending = host.mig.pending,
             host'.mig.parts = base.host.mig.parts, host' \in Hosts
      PROVE  Core(host') = Core(base'.host)
  <2>1. /\ host'.mig.mode = base.host.mig.mode /\ host'.mig.pending = base.host.mig.pending
        /\ host'.mig.parts = base.host.mig.parts
    BY <1>2, <1>4, <1>6, <1>7
  <2>2. host'.mig = base.host.mig BY <1>2, <1>7, <2>1, Parts
  <2> QED BY <1>4, <1>7, <2>2 DEF Core, Emptied, ModulesBack, FilesBack, PackagesBack
<1>8. CASE /\ base.host.mig.mode = "disabled" \/ Geometry(Here) = BaseGeometry \/ BaseGeometry = "none"
           /\ Skips("r.verify")
  <2>1. Go("r.verify") /\ UNCHANGED <<host, base, faults>> BY <1>8 DEF Skips
  <2>2. Mild BY <1>1, <2>1, MildHost
  <2>3. ASSUME ~ Skewed(base.host), Place' = "r.verify" PROVE Follows'
    <3>1. base.host.mig.parts = "none"
      BY <1>2, <1>4, <1>5, <1>6, <1>8, <2>3 DEF Coherent
    <3>2. host.mig.parts = "none" BY <1>4, <2>3 DEF Emptied
    <3>3. Core(host') = Core(base'.host) BY <1>2, <1>7, <2>1, <2>3, <3>1, <3>2
    <3> QED BY <2>3, <3>3 DEF Follows
  <2> QED BY <1>3, <2>1, <2>2, <2>3, RestoreOnward
<1>9. CASE host.mig.parts # "none" /\ Does({host}, "r.failed")
  <2>1. Go("r.failed") /\ UNCHANGED <<host, base, faults>> BY <1>9 DEF Does, Keep
  <2>2. Mild BY <1>1, <2>1, MildHost
  <2>3. ASSUME ~ Skewed(base.host) PROVE FALSE BY <1>4, <1>9, <2>3 DEF Emptied
  <2> QED BY <1>3, <2>1, <2>2, <2>3, RestoreOnward
<1>10. CASE Does({Partitioned(host, BaseGeometry)}, "r.verify")
  <2>1. host' = Partitioned(host, BaseGeometry) /\ Go("r.verify") /\ UNCHANGED <<base, faults>>
    BY <1>10 DEF Does, Keep
  <2>2. /\ host'.mig = [host.mig EXCEPT !.parts = BaseGeometry] /\ host'.packages = host.packages
        /\ host'.files = host.files /\ host'.loaded = host.loaded
    BY <1>2, <2>1 DEF Partitioned, Hosts
  <2>3. /\ host'.mig.parts = BaseGeometry /\ host'.mig.mode = host.mig.mode
        /\ host'.mig.pending = host.mig.pending
    BY <1>2, <2>2, Parts
  <2>4. Mild BY <2>1, <2>2, <2>3 DEF RInv, Whole, Real, Mild, OnDisk
  <2>5. host' \in Hosts
    BY <1>2, <1>5, <2>1, Parts DEF Partitioned, Hosts
  <2>6. ASSUME ~ Skewed(base.host), Place' = "r.verify" PROVE Follows'
    <3>1. Core(host') = Core(base'.host) BY <1>5, <1>7, <2>1, <2>2, <2>3, <2>5, <2>6
    <3> QED BY <2>6, <3>1 DEF Follows
  <2> QED BY <1>3, <2>1, <2>4, <2>6, RestoreOnward
<1> QED BY <1>8, <1>9, <1>10, NoFailure DEF RestoreGeometry

(* A restore that did all it had to passes every check. *)
LEMMA VerifyFollows ==
  ASSUME IInv, RInv, faults = 0, faults' = 0, VerifyRestored
  PROVE  RInv'
<1>1. /\ run.at = "r.verify" /\ run.at \in RestoreLabels /\ run.at \notin HalfDestroyed
      /\ UNCHANGED <<host, base, faults>>
  BY DEF VerifyRestored, At, RestoreLabels, HalfDestroyed
<1>2. /\ host \in Hosts /\ Coherent(host) /\ base.host \in Hosts /\ Coherent(base.host)
      /\ base.host.mig.pending = base.host.mig.mode
  BY <1>1, RestorePlaces, Found
<1>3. {"r.release", "r.reboot", "r.unverified"} \subseteq WorkLabels \ {"i.snapshot"}
  BY DEF WorkLabels, RestoreLabels
<1>4. Mild BY <1>1, MildHost
<1>5. PICK gpus \in Enumerations(host) :
        \/ Go("r.release") \/ Fence("r.reboot")
        \/ FailedChecks(Audit(host, gpus)) # {} /\ Fence("r.unverified")
  BY DEF VerifyRestored
<1>6. CASE Go("r.release")
  <2>1. Place' = "r.release" => Follows' BY Nowhere DEF Followed
  <2> QED BY <1>3, <1>4, <1>6, <2>1, RestoreOnward
<1>7. CASE Fence("r.reboot")
  <2>1. Place' = "r.reboot" => Follows' BY Nowhere DEF Followed
  <2> QED BY <1>3, <1>4, <1>7, <2>1, RestoreOnward
<1>8. CASE FailedChecks(Audit(host, gpus)) # {} /\ Fence("r.unverified")
  <2>1. ASSUME ~ Skewed(base.host), Place' = "r.unverified" PROVE Follows'
    <3>1. Sane /\ (~ Settles(host) \/ Core(host) = Core(base.host))
      BY <1>1, <2>1, FollowFacts DEF Follows
    <3>2. CASE ~ Settles(host)
      <4>1. ~ Settles(host)' BY <1>1, <3>2 DEF Settles
      <4> QED BY <2>1, <4>1 DEF Follows, Reason
    <3>3. CASE Core(host) = Core(base.host)
      <4>1. /\ host.packages = base.host.packages /\ host.loaded = base.host.loaded
            /\ host.mig = base.host.mig /\ host.files = base.host.files
            /\ OnDisk(host) = OnDisk(base.host)
        <5>1. /\ host.packages = base.host.packages /\ host.loaded = base.host.loaded
              /\ host.mig = base.host.mig /\ host.files = base.host.files
          BY <3>3 DEF Core
        <5> QED BY <5>1 DEF OnDisk
      <4>2. gpus = TRUE
        <5>1. Enumerations(host) = {TRUE} BY <2>1, <3>1, <4>1, ModulesBackFacts DEF PackagesBack
        <5> QED BY <5>1
      <4>3. Settles(host) /\ Settles(base.host) BY <1>2, <4>1 DEF Settles
      <4>4. /\ GeometryComplete(Audit(host, TRUE)) /\ Audit(host, TRUE).gpus
            /\ Audit(host, TRUE).host = host /\ Geometry(Audit(host, TRUE)) = BaseGeometry
        BY <1>2, <4>1, <4>3, GeometryFacts DEF BaseGeometry
      <4>5. ModuleMatches(host) /\ FilesMatch(host) BY <4>1 DEF ModuleMatches, FilesMatch
      <4>6. FailedChecks(Audit(host, TRUE)) = {}
        BY <1>2, <4>1, <4>4, <4>5 DEF FailedChecks
      <4> QED BY <1>8, <4>2, <4>6
    <3> QED BY <3>1, <3>2, <3>3
  <2> QED BY <1>3, <1>4, <1>8, <2>1, RestoreOnward
<1> QED BY <1>5, <1>6, <1>7, <1>8

LEMMA RestoreEndsFollow ==
  ASSUME IInv, RInv, faults = 0, faults' = 0,
         ReleaseBaseline \/ Unreleased \/ RestoreFails \/ RestoreEnds \/ EndsUnquarantined
         \/ RestorePolicyAnyway
  PROVE  RInv'
<1>0. host \in Hosts /\ base.host \in Hosts /\ faults' = faults BY DEF IInv, Typed
<1>1. run.at \in {"r.release", "r.unreleased", "r.failed", "r.unverified", "r.reboot",
                  "unquarantined", "r.policy.failing"}
      /\ run.at \in RestoreLabels /\ run.at \notin HalfDestroyed
  BY DEF ReleaseBaseline, Unreleased, RestoreFails, RestoreEnds, EndsUnquarantined,
         RestorePolicyAnyway, At, RestoreLabels, HalfDestroyed
<1>2. {"r.failed", "r.unverified"} \subseteq WorkLabels \ {"i.snapshot"}
  BY DEF WorkLabels, RestoreLabels
<1>3. ASSUME Core(host') = Core(host), UNCHANGED base PROVE Mild
  BY <1>0, <1>1, <1>3, CoreFacts, MildHost
<1>4. CASE ReleaseBaseline
  <2>1. host' = [host EXCEPT !.units = base.host.units] /\ run' = Idle /\ UNCHANGED base
    BY <1>4, NoFailure DEF ReleaseBaseline, Ends
  <2>2. Core(host') = Core(host) BY <1>0, <2>1 DEF Core, Hosts
  <2> QED BY <1>3, <2>1, <2>2, EndsMildly
<1>5. CASE RestoreFails
  <2>1. CASE Fence("r.unverified") /\ UNCHANGED <<host, base>>
    <3>1. ASSUME ~ Skewed(base.host), Place' = "r.unverified" PROVE Follows'
      <4>1. run.at = "r.failed" BY <1>5 DEF RestoreFails, At
      <4>2. Reason BY <1>1, <3>1, <4>1, FollowFacts DEF Follows
      <4>3. Reason' BY <2>1, <4>2 DEF Reason, Settles, Skewed, OnDisk
      <4> QED BY <3>1, <4>3 DEF Follows
    <3>2. Mild BY <1>3, <2>1
    <3> QED BY <1>2, <2>1, <3>1, <3>2, RestoreOnward
  <2>2. CASE host' \in Requiesced(host) /\ run' = Idle /\ UNCHANGED base
    BY <1>0, <1>3, <2>2, RequiescedFacts, EndsMildly
  <2> QED BY <1>5, <2>1, <2>2 DEF RestoreFails, Ends
<1>6. CASE RestoreEnds
  <2>1. UNCHANGED <<host, base>> /\ run' = Idle BY <1>6 DEF RestoreEnds, Ends
  <2> QED BY <1>3, <2>1, EndsMildly
<1>7. CASE RestorePolicyAnyway
  <2>1. /\ run.at = "r.policy.failing" /\ Go("r.failed") /\ UNCHANGED base
        /\ host' \in {host, Rewritten("policy")}
    BY <1>7 DEF RestorePolicyAnyway, Does, Keep, At
  <2>2. /\ Rewritten("policy").packages = host.packages /\ Rewritten("policy").loaded = host.loaded
        /\ Rewritten("policy").mig = host.mig
    BY <1>0 DEF Rewritten, Hosts
  <2>3. Mild BY <1>0, <1>1, <2>1, <2>2, MildHost
  <2>4. ASSUME ~ Skewed(base.host) PROVE FALSE
    BY <1>1, <2>1, <2>4, FollowFacts DEF Follows
  <2> QED BY <1>2, <2>1, <2>3, <2>4, RestoreOnward
<1>8. CASE Unreleased
  <2>1. run.at = "r.unreleased" /\ Fence("r.unverified") /\ UNCHANGED <<host, base>>
    BY <1>8 DEF Unreleased, At
  <2>2. Mild BY <1>3, <2>1
  <2>3. ASSUME ~ Skewed(base.host) PROVE FALSE
    BY <1>1, <2>1, <2>3, FollowFacts DEF Follows
  <2> QED BY <1>2, <2>1, <2>2, <2>3, RestoreOnward
<1>9. CASE EndsUnquarantined
  <2>1. host' \in Requiesced(host) /\ run' = Idle /\ UNCHANGED base
    BY <1>9 DEF EndsUnquarantined, Ends
  <2> QED BY <1>0, <1>3, <2>1, RequiescedFacts, EndsMildly
<1> QED BY <1>4, <1>5, <1>6, <1>7, <1>8, <1>9

LEMMA RestoreFollows ==
  ASSUME IInv, RInv, faults = 0, faults' = 0, RestoreStep PROVE RInv'
  BY NoFailure, ChecksFollows, PackagesFollow, FilesFollow, RemoveFollows, LoadFollows,
     ObserveFollows, DestroyFollows, ModeFollows, GeometryFollows, VerifyFollows, RestoreEndsFollow
     DEF RestoreStep, Refuses

-----------------------------------------------------------------------------
(* Around the operation. *)

(* A snapshot is only taken of a machine that a restore can bring back. *)
LEMMA SnapshotFollows ==
  ASSUME IInv, RInv, faults = 0, faults' = 0, TakeSnapshot
  PROVE  RInv'
<1> DEFINE a == run.audit
<1>1. run.at = "i.snapshot" /\ UNCHANGED <<host, want, faults>> BY DEF TakeSnapshot, At
<1>2. /\ host \in Hosts /\ Coherent(host) /\ run \in Runs /\ Observed(a.host, host)
      /\ want.mig \in Modes
  BY <1>1, PlanFound, WantFacts DEF PlanLabels, At
<1>3. CASE Ends("refused") /\ UNCHANGED base
  <2>1. Mild BY <1>1, <1>3, MildHost DEF HalfDestroyed
  <2> QED BY <1>3, <2>1, EndsMildly DEF Ends
<1>4. CASE Recordable(a, MigDrifts(a))
  <2>1. /\ base'.host \in Hosts /\ Observed(host, base'.host)
        /\ base'.host.mig.pending = base'.host.mig.mode
    BY <1>4, SnapshotFacts
  <2>2. PICK l \in {"i.boundary", "s.boundary"} : Fence(l) BY <1>4 DEF TakeSnapshot
  <2>3. run'.at = "mask" /\ run'.next = l BY <1>2, <2>2 DEF Fence, Runs
  <2>4. Follows' BY <2>3, Nowhere DEF Place, Fencing, Followed
  <2>5. Whole' BY <1>1, <2>3 DEF RInv, Whole, At, Real
  <2>6. ASSUME ~ Skewed(base.host)' PROVE Sane'
    <3>1. host.packages = base'.host.packages /\ host.loaded = base'.host.loaded
          /\ host.mig.mode = base'.host.mig.mode /\ host.mig.parts = base'.host.mig.parts
      BY <2>1 DEF Observed
    <3>2. host.loaded.names # {} /\ Real(host)
      BY <1>1, <1>4 DEF Recordable, RInv, Whole, At
    <3>3. OnDisk(host) = OnDisk(base'.host) BY <3>1 DEF OnDisk
    <3>4. OnDisk(host) # "none" BY <2>6, <3>1, <3>2, <3>3 DEF Skewed, Real
    <3>5. Coherent(base'.host) BY <1>2, <3>1 DEF Coherent
    <3>6. BaseGeometry' = host.mig.parts
      BY <2>1, <3>1, <3>5, GeometryFacts DEF BaseGeometry, Settles
    <3>7. Restorable(host.mig.parts)
      <4>1. GeometryComplete(a) /\ (MigDrifts(a) => Restorable(Geometry(a)))
        BY <1>4 DEF Recordable
      <4>2. a.host \in Hosts /\ a.host.mig.mode = host.mig.mode /\ a.host.mig.parts = host.mig.parts
        BY <1>2 DEF Observed
      <4> HIDE DEF a
      <4>3. Geometry(a) = host.mig.parts
        BY <1>2, <4>1, <4>2, Parts DEF Geometry, Coherent, Modes
      <4>4. CASE MigDrifts(a) BY <4>1, <4>3, <4>4
      <4>5. CASE ~ MigDrifts(a)
        <5>1. host.mig.mode = want.mig /\ (want.mig = "enabled" => host.mig.parts = "full")
          BY <4>2, <4>3, <4>5 DEF MigDrifts
        <5> QED BY <1>2, <5>1 DEF Modes, Coherent, Restorable
      <4> QED BY <4>4, <4>5
    <3>8. /\ OnDisk(host)' # "none" /\ OnDisk(base.host)' # "none"
          /\ base'.host.loaded.names # {} /\ Restorable(BaseGeometry)' /\ host'.mig.parts # "gi"
      BY <1>1, <3>1, <3>2, <3>3, <3>4, <3>6, <3>7 DEF OnDisk, Restorable
    <3> QED BY <3>8 DEF Sane
  <2> QED BY <2>4, <2>5, <2>6 DEF RInv
<1> QED BY <1>3, <1>4 DEF TakeSnapshot

LEMMA PlanFollows ==
  ASSUME IInv, RInv, faults = 0, PlanInstall \/ PlanSettle
  PROVE  RInv'
<1>1. /\ run.at \in {"i.plan", "s.plan"} /\ run.at \notin HalfDestroyed
      /\ UNCHANGED <<host, base, want, faults>>
  BY DEF PlanInstall, PlanSettle, At, HalfDestroyed
<1>2. host \in Hosts /\ run \in Runs BY DEF IInv, Typed
<1>3. CASE run' = Idle
  <2>1. Mild BY <1>1, MildHost
  <2> QED BY <1>3, <2>1, EndsMildly
<1>4. CASE \E gpus \in Enumerations(host) :
             run' = [run EXCEPT !.at = "i.snapshot", !.audit = Audit(host, gpus)]
  <2>1. PICK gpus \in Enumerations(host) :
          run' = [run EXCEPT !.at = "i.snapshot", !.audit = Audit(host, gpus)]
    BY <1>4
  <2>2. run'.at = "i.snapshot" /\ run'.audit.gpus = gpus BY <1>2, <2>1, AuditFacts DEF Runs
  <2>3. gpus => host.loaded.names # {} BY <1>2, AuditFacts
  <2>4. Follows' BY <2>2, Nowhere DEF Place, Fencing, Followed
  <2>5. Whole' BY <1>1, <2>2, <2>3 DEF RInv, Whole, Real
  <2>6. Sane => Sane'
    BY <1>1, <2>2 DEF Sane, OnDisk, BaseGeometry, Restorable, HalfDestroyed
  <2>7. Skewed(base.host)' <=> Skewed(base.host) BY <1>1 DEF Skewed, OnDisk
  <2> QED BY <1>1, <2>4, <2>5, <2>6, <2>7 DEF RInv
<1> QED BY <1>3, <1>4 DEF PlanInstall, PlanSettle, Ends

LEMMA BeginFollows ==
  ASSUME IInv, RInv, faults = 0, BeginInstall \/ BeginVerify \/ BeginLock \/ BeginRollback \/ Reboot
  PROVE  RInv'
<1>1. run.at = "idle" /\ host \in Hosts /\ UNCHANGED <<base, faults>>
  BY DEF BeginInstall, BeginVerify, BeginLock, Begin, BeginRollback, Reboot, Running, IInv, InPlace, Typed
<1>2. \/ run'.at \in {"i.plan", "s.plan"}
      \/ run'.at = "mask" /\ run'.next = "r.boundary"
      \/ run' = run
  BY IdleRunFacts DEF BeginInstall, BeginVerify, BeginLock, Begin, BeginRollback, Reboot, Runs
<1>3. run'.at # "i.snapshot" /\ Place' \notin Followed
  BY <1>1, <1>2 DEF Place, Fencing, Followed
<1>4. host' = host \/ host' = Booted(host)
  BY DEF BeginInstall, BeginVerify, BeginLock, Begin, BeginRollback, Reboot
<1>5. Mild
  <2>1. CASE host' = host BY <1>1, <2>1, MildHost DEF HalfDestroyed
  <2>2. CASE host' = Booted(host)
    <3>1. Real(host) BY DEF RInv, Whole
    <3>2. Real(host') /\ host'.mig.parts = "none" /\ host'.packages = host.packages
      BY <1>1, <2>2, <3>1, RealFacts
    <3> QED BY <1>1, <3>2 DEF Mild, OnDisk
  <2> QED BY <1>4, <2>1, <2>2
<1> QED BY <1>3, <1>5, Nowhere, MildFacts

LEMMA FencingFollows ==
  ASSUME IInv, RInv, faults = 0, MaskLauncher \/ StopLauncher
  PROVE  RInv'
<1>1. Fencing /\ run \in Runs /\ run.next \notin {"mask", "stop"} /\ run.next # "i.snapshot"
  BY LabelFacts DEF MaskLauncher, StopLauncher, Fencing, At, IInv, InPlace, Typed, BehindLabels,
                    FenceLabels
<1>2. Place' = Place /\ run'.audit = run.audit /\ run'.at # "i.snapshot"
  BY <1>1 DEF MaskLauncher, StopLauncher, Go, Runs, Place, Fencing, At
<1>3. UNCHANGED <<base, faults>> BY DEF MaskLauncher, StopLauncher, Keep
<1>4. /\ Core(host') = Core(host) /\ host'.packages = host.packages /\ host'.files = host.files
      /\ host'.loaded = host.loaded /\ host'.mig = host.mig
  BY QuarantineOpen, CoreFacts
<1>5. Mild BY <1>1, <1>3, <1>4, MildHost DEF Fencing, HalfDestroyed
<1>6. ASSUME base.taken, ~ Skewed(base.host) PROVE Follows'
  <2>1. Follows BY <1>6 DEF RInv
  <2>2. /\ (Looked' <=> Looked) /\ (Decided' <=> Decided) /\ (SameMig' <=> SameMig)
        /\ (PackagesBack' <=> PackagesBack) /\ (FilesBack' <=> FilesBack)
        /\ (ModulesBack' <=> ModulesBack) /\ (Emptied' <=> Emptied) /\ (Coming' <=> Coming)
    BY <1>2, <1>3, <1>4 DEF Looked, Decided, SameMig, PackagesBack, FilesBack, ModulesBack, Emptied,
                            Coming, Settles
  <2>3. /\ (Reset' <=> Reset) /\ (Reason' <=> Reason) /\ (Settles(host)' <=> Settles(host))
        /\ (Skewed(host)' <=> Skewed(host))
    BY <1>2, <1>3, <1>4, SameReset DEF Reason, Settles, Skewed, OnDisk
  <2> QED BY <1>2, <1>3, <1>4, <2>1, <2>2, <2>3 DEF Follows
<1> QED BY <1>2, <1>5, <1>6, MildFacts

(* Where no command has failed yet, each step leaves the next one what it needs. *)
LEMMA FaultlessFacts ==
  ASSUME \A hosts, l : ~ Fails(hosts, l), InstallStep \/ SettleStep \/ RestoreStep
  PROVE  faults' = faults
<1>1. /\ \A hosts, l : Does(hosts, l) => faults' = faults
      /\ \A l : Skips(l) => faults' = faults
  BY DEF Does, Skips
<1>2. CASE InstallStep
  BY <1>1, <1>2 DEF InstallStep, PlanInstall, TakeSnapshot, PrePackageBoundary, LockPolicy,
    InstallPackages, PostPackageBoundary, Boundary, Teardown, InstallDestroyCompute, DestroyCompute,
    InstallDestroyGpu, PrepareUnload, PrepareLoad, Unload, Load, ReconcileMig, SetMode,
    CreateGeometry, ConfigureDocker, VerifyCore, ReleaseTarget, VerifyContainer, Compensate,
    Compensates, Reaudit
<1>3. CASE SettleStep
  BY <1>1, <1>3 DEF SettleStep, PlanSettle, SettleBoundary, SettleUnload, SettleLoad, Unload, Load,
    ApplyPolicy, SettleCore, ReleaseSettled, VerifyServices, Abandon, SettleFails
<1>4. CASE RestoreStep
  BY <1>1, <1>4 DEF RestoreStep, Checks, Refuses, RestorePackages, RestoreDockerConfig,
    RestorePolicy, RestorePolicyAnyway, RemoveModules, LoadModules, Unload, Load, ObserveMig,
    ThenRefresh, RestoreDestroyCompute, DestroyCompute, RestoreDestroyGpu, RestoreMode,
    RestoreGeometry, VerifyRestored, ReleaseBaseline, Unreleased, RestoreFails, RestoreEnds,
    EndsUnquarantined
<1> QED BY <1>2, <1>3, <1>4

LEMMA FaultFacts ==
  ASSUME IInv, [Next]_hostVars, faults' = 0
  PROVE  faults = 0 /\ ~ Kill /\ ~ PowerLoss /\ ~ Interferes /\ ~ QuarantineFails
<1>1. faults \in Nat BY HostAssumption DEF IInv, Typed
<1>2. ~ Spent BY <1>1 DEF Spent
<1>3. /\ ~ Kill /\ ~ PowerLoss /\ ~ Interferes
      /\ ~ QuarantineFails
  BY <1>2, NoFailure DEF Kill, PowerLoss, Interferes, QuarantineFails
<1>4. CASE UNCHANGED hostVars BY <1>3, <1>4 DEF hostVars
<1>5. CASE BeginInstall \/ BeginVerify \/ BeginLock \/ BeginRollback \/ RollbackBoundary \/ Reboot
  BY <1>3, <1>5 DEF BeginInstall, BeginVerify, BeginLock, Begin, BeginRollback, RollbackBoundary,
                    Reboot
<1>6. CASE MaskLauncher \/ StopLauncher
  BY <1>3, <1>6 DEF MaskLauncher, StopLauncher
<1>7. CASE InstallStep \/ SettleStep \/ RestoreStep
  BY <1>3, <1>7, NoFailure, FaultlessFacts
<1> QED BY <1>3, <1>4, <1>5, <1>6, <1>7 DEF Next, Program

LEMMA RNext ==
  ASSUME IInv, RInv, [Next]_hostVars
  PROVE  RInv'
<1>1. CASE faults' # 0 BY <1>1 DEF RInv
<1>2. CASE faults' = 0
  <2>1. faults = 0 /\ ~ Kill /\ ~ PowerLoss /\ ~ Interferes /\ ~ QuarantineFails
    BY <1>2, FaultFacts
  <2>2. CASE UNCHANGED hostVars
    BY <2>2 DEF hostVars, RInv, Whole, Real, At, Sane, Skewed, OnDisk, BaseGeometry, Restorable,
      Follows, Place, Fencing, Looked, Decided, SameMig, PackagesBack, FilesBack, ModulesBack,
      Emptied, Coming, Settles, Reason, Reset, ModuleMatches, Core
  <2>3. CASE BeginInstall \/ BeginVerify \/ BeginLock \/ BeginRollback \/ Reboot
    BY <2>1, <2>3, BeginFollows
  <2>4. CASE MaskLauncher \/ StopLauncher BY <2>1, <2>4, FencingFollows
  <2>5. CASE RollbackBoundary \/ Reaudit BY <1>2, <2>1, <2>5, BoundaryFollows
  <2>6. CASE PlanInstall \/ PlanSettle BY <2>1, <2>6, PlanFollows
  <2>7. CASE TakeSnapshot BY <1>2, <2>1, <2>7, SnapshotFollows
  <2>8. CASE InstallStep /\ ~ PlanInstall /\ ~ TakeSnapshot /\ ~ Reaudit
    BY <1>2, <2>1, <2>8, InstallMild
  <2>9. CASE SettleStep /\ ~ PlanSettle BY <1>2, <2>1, <2>9, SettleMild
  <2>10. CASE RestoreStep BY <1>2, <2>1, <2>10, RestoreFollows
  <2> QED BY <2>1, <2>2, <2>3, <2>4, <2>5, <2>6, <2>7, <2>8, <2>9, <2>10 DEF Next, Program
<1> QED BY <1>1, <1>2

(* Only the last statements of a restore say that it failed. *)
Failing == /\ run' = Idle
           /\ outcome' \in {"restore-failed", "compensation-failed", "unquarantined"}

LEMMA StaysUnfailed ==
  ASSUME run \in Runs, run.cmd # "none"
  PROVE  /\ \A l : Go(l) \/ Fence(l) => ~ Failing
         /\ \A hosts, l : Does(hosts, l) \/ Fails(hosts, l) => ~ Failing
         /\ \A l : Skips(l) => ~ Failing
         /\ \A l, a : run' = [run EXCEPT !.at = l, !.audit = a] => ~ Failing
  BY IdleRunFacts DEF Runs, Go, Fence, Does, Fails, Skips, Failing

LEMMA InstallUnfailed ==
  ASSUME run \in Runs, run.cmd # "none", InstallStep PROVE ~ Failing
<1>1. CASE PlanInstall
  BY <1>1, StaysUnfailed DEF PlanInstall, Ends, Failing
<1>2. CASE TakeSnapshot
  BY <1>2, StaysUnfailed DEF TakeSnapshot, Ends, Failing
<1>3. CASE PrePackageBoundary \/ Reaudit \/ Compensate
  <2>1. (\E l : Fence(l)) \/ (\E l, a : run' = [run EXCEPT !.at = l, !.audit = a])
    BY <1>3 DEF PrePackageBoundary, Reaudit, Compensate, Compensates
  <2> QED BY <2>1, StaysUnfailed
<1>4. CASE LockPolicy \/ Teardown \/ ReconcileMig \/ ConfigureDocker \/ CreateGeometry
  BY <1>4, StaysUnfailed DEF LockPolicy, Teardown, ReconcileMig, ConfigureDocker, CreateGeometry
<1>5. CASE InstallPackages \/ PostPackageBoundary \/ VerifyCore
  BY <1>5, StaysUnfailed DEF InstallPackages, PostPackageBoundary, VerifyCore, Boundary
<1>6. CASE InstallDestroyCompute \/ InstallDestroyGpu
  BY <1>6, StaysUnfailed DEF InstallDestroyCompute, InstallDestroyGpu, DestroyCompute
<1>7. CASE PrepareUnload \/ PrepareLoad
  BY <1>7, StaysUnfailed DEF PrepareUnload, PrepareLoad, Unload, Load
<1>8. CASE SetMode \/ ReleaseTarget
  BY <1>8, StaysUnfailed DEF SetMode, ReleaseTarget
<1>9. CASE VerifyContainer
  BY <1>9, StaysUnfailed DEF VerifyContainer, Ends, Failing
<1> QED BY <1>1, <1>2, <1>3, <1>4, <1>5, <1>6, <1>7, <1>8, <1>9 DEF InstallStep

LEMMA SettleUnfailed ==
  ASSUME run \in Runs, run.cmd # "none", SettleStep PROVE ~ Failing
<1>1. CASE PlanSettle
  BY <1>1, StaysUnfailed DEF PlanSettle, Ends, Failing
<1>2. CASE SettleBoundary
  BY <1>2, StaysUnfailed DEF SettleBoundary, Abandons
<1>3. CASE SettleUnload \/ SettleLoad \/ ApplyPolicy \/ ReleaseSettled
  BY <1>3, StaysUnfailed DEF SettleUnload, SettleLoad, ApplyPolicy, ReleaseSettled, Unload, Load
<1>4. CASE SettleCore \/ Abandon
  BY <1>4, StaysUnfailed DEF SettleCore, Abandon, Abandons
<1>5. CASE VerifyServices \/ SettleFails
  BY <1>5 DEF VerifyServices, SettleFails, Ends, Failing
<1> QED BY <1>1, <1>2, <1>3, <1>4, <1>5 DEF SettleStep

LEMMA RestoreUnfailed ==
  ASSUME run \in Runs, run.cmd # "none", RestoreStep \/ RollbackBoundary, Failing
  PROVE  run.at \in {"r.failed", "r.unverified", "unquarantined"}
<1>1. ~ Checks /\ ~ VerifyRestored /\ ~ RollbackBoundary
  <2>1. CASE Checks \/ VerifyRestored \/ RollbackBoundary
    <3>1. (\E l : Go(l) \/ Fence(l)) \/ (\E l, a : run' = [run EXCEPT !.at = l, !.audit = a])
      BY <2>1 DEF Checks, VerifyRestored, RollbackBoundary
    <3> QED BY <3>1, StaysUnfailed
  <2> QED BY <2>1
<1>2. ~ Refuses /\ ~ RestorePackages /\ ~ RestoreDockerConfig /\ ~ RestorePolicyAnyway
  BY StaysUnfailed DEF Refuses, RestorePackages, RestoreDockerConfig, RestorePolicyAnyway
<1>3. ~ RestorePolicy BY StaysUnfailed DEF RestorePolicy
<1>4. ~ RemoveModules /\ ~ LoadModules
  BY StaysUnfailed DEF RemoveModules, LoadModules, Unload, Load
<1>5. ~ ObserveMig /\ ~ RestoreMode
  BY StaysUnfailed DEF ObserveMig, RestoreMode, ThenRefresh
<1>6. ~ RestoreDestroyCompute /\ ~ RestoreDestroyGpu /\ ~ RestoreGeometry
  BY StaysUnfailed DEF RestoreDestroyCompute, RestoreDestroyGpu, RestoreGeometry, DestroyCompute
<1>7. ~ ReleaseBaseline /\ ~ Unreleased
  BY StaysUnfailed DEF ReleaseBaseline, Unreleased, Ends, Failing
<1>8. RestoreFails \/ RestoreEnds \/ EndsUnquarantined
  BY <1>1, <1>2, <1>3, <1>4, <1>5, <1>6, <1>7 DEF RestoreStep
<1>9. CASE RestoreFails BY <1>9 DEF RestoreFails, At
<1>10. CASE RestoreEnds BY <1>10 DEF RestoreEnds, Ends, Failing, At
<1>11. CASE EndsUnquarantined BY <1>11 DEF EndsUnquarantined, At
<1> QED BY <1>8, <1>9, <1>10, <1>11

LEMMA FailsWithReason ==
  ASSUME IInv, RInv, Next, faults' = 0, run.cmd # "none", run'.cmd = "none",
         outcome' \in {"restore-failed", "compensation-failed", "unquarantined"}
  PROVE  Reason
<1>1. faults = 0 /\ ~ Kill /\ ~ PowerLoss /\ ~ Interferes /\ ~ QuarantineFails BY FaultFacts
<1>2. run \in Runs BY DEF IInv, Typed
<1>3. ~ BeginInstall /\ ~ BeginVerify /\ ~ BeginLock /\ ~ BeginRollback /\ ~ Reboot
  BY DEF BeginInstall, BeginVerify, BeginLock, Begin, BeginRollback, Reboot, Running
<1>4. ~ MaskLauncher /\ ~ StopLauncher
  BY <1>2 DEF MaskLauncher, StopLauncher, Go, Runs
<1>5. InstallStep \/ SettleStep \/ RestoreStep \/ RollbackBoundary
  BY <1>1, <1>3, <1>4 DEF Next, Program
<1>6. run' = Idle
  <2>1. CASE PlanInstall \/ PlanSettle \/ TakeSnapshot
    BY <1>2, <2>1 DEF PlanInstall, PlanSettle, TakeSnapshot, Ends, Fence, Runs
  <2>2. CASE ~ (PlanInstall \/ PlanSettle \/ TakeSnapshot)
    BY <1>2, <1>5, <2>2, InstallCarries, SettleCarries, RestoreCarries DEF Carries
  <2> QED BY <2>1, <2>2
<1>7. Failing BY <1>6 DEF Failing
<1>8. run.at \in {"r.failed", "r.unverified", "unquarantined"}
  BY <1>2, <1>5, <1>7, InstallUnfailed, SettleUnfailed, RestoreUnfailed
<1>9. CASE Skewed(base.host) BY <1>9 DEF Reason
<1>10. CASE ~ Skewed(base.host)
  <2>1. run.at \in RestoreLabels BY <1>8 DEF RestoreLabels
  <2> QED BY <1>1, <1>8, <1>10, <2>1, FollowFacts DEF Follows
<1> QED BY <1>9, <1>10

(* As long as no command fails, nobody is killed and nobody interferes, a rollback   *)
(* and a compensation fail for a reason outside them: a MIG mode staged for the     *)
(* next boot, or modules of another build than the one on disk, now or in the       *)
(* snapshot.  No check of the restore refuses what an earlier statement of it left, *)
(* and the verification fails nothing that they brought back.                      *)
THEOREM FailureHasReason == Spec => FailsForAReason
<1>1. Init => RInv
  <2> SUFFICES ASSUME Init PROVE RInv
    OBVIOUS
  <2>1. Real(host) BY LoadedAssumption DEF Init, Real
  <2> QED BY <2>1, IdleRunFacts DEF Init, NoBase, RInv, Whole, At
<1>2. IInv /\ RInv /\ [Next]_hostVars => RInv' BY RNext
<1>3. IInv /\ RInv /\ [Next]_hostVars =>
        [/\ run.cmd # "none" /\ run'.cmd = "none" /\ faults' = 0
         /\ outcome' \in {"restore-failed", "compensation-failed", "unquarantined"}
         => \/ host.mig.mode # host.mig.pending
            \/ Skewed(host) \/ Skewed(base.host)]_hostVars
  <2> SUFFICES ASSUME IInv, RInv, Next, run.cmd # "none", run'.cmd = "none", faults' = 0,
                      outcome' \in {"restore-failed", "compensation-failed", "unquarantined"}
               PROVE  \/ host.mig.mode # host.mig.pending
                      \/ Skewed(host) \/ Skewed(base.host)
    BY DEF hostVars
  <2> QED BY FailsWithReason DEF Reason, Settles
<1> QED BY <1>1, <1>2, <1>3, Invariance, PTL DEF Spec, FailsForAReason
=============================================================================
