------------------------------- MODULE GpuGuard -------------------------------
(***************************************************************************)
(* The maintenance gate and the checkpoint before a GPU mutation: GPU services  *)
(* are stopped, the machine is searched for GPU users, every launcher is masked *)
(* and stopped, and the machine is searched again.  The search and the binding   *)
(* of a service to its process are a sequence of reads, and processes start,     *)
(* fork, exit, reuse a process id and open, map and close the device between     *)
(* any two of them.  A run is one gate with, if it passes, one checkpoint.       *)
(*                                                                            *)
(* docker.socket has no process; LauncherCommit models it.                      *)
(***************************************************************************)
EXTENDS Naturals, Sequences, Functions

CONSTANTS
  N,          \* process ids 1..N, in the order the search meets them
  Order,      \* the launchers, in the order in which they are quarantined
  Guarded,    \* the GPU services among them, which the guard stops first
  Allowed,    \* --allow-active-workloads
  Machines,   \* the processes and units there may be: [procs, units]
  MaxMoves    \* bound: what processes do during a run

VARIABLES
  procs,   \* the process table; life 0: no such process
  units,   \* the main process of each launcher, 0 if inactive, and its mask
  run,     \* the program
  since,   \* history: GPU users and containers from before a search, still there
  moves    \* what processes did so far
guardVars == <<procs, units, run, since, moves>>

Pids   == 1..N
Absent == [life |-> 0, fd |-> FALSE, map |-> FALSE, exe |-> "other", unit |-> "none", box |-> FALSE]

Launchers  == Range(Order)
Processes  == [life : Nat, fd : BOOLEAN, map : BOOLEAN, exe : {"trusted", "other"},
               unit : Launchers \cup {"none"}, box : BOOLEAN]
UnitStates == [pid : 0..N, masked : BOOLEAN]

(* systemd's view of a machine: the main process of a unit is a process of that unit,  *)
(* and the only one that executes the service's own program.                        *)
Served(m) ==
  \A u \in Launchers, p \in Pids :
    /\ m.units[u].pid = p => m.procs[p].life # 0 /\ m.procs[p].unit = u /\ ~ m.procs[p].box
    /\ m.procs[p].unit = u /\ m.procs[p].exe = "trusted" => m.units[u].pid = p

ASSUME GuardAssumption ==
  /\ N \in Nat \ {0} /\ MaxMoves \in Nat /\ Allowed \in BOOLEAN
  /\ Order \in Seq(STRING) /\ Guarded \in Seq(STRING)
  /\ "docker" \in Launchers /\ Range(Guarded) \subseteq Launchers \ {"docker"}
  /\ Len(Order) > 0 /\ Len(Guarded) > 0
  /\ \A m \in Machines :
       /\ m.procs \in [Pids -> Processes] /\ m.units \in [Launchers -> UnitStates]
       /\ \A p \in Pids : m.procs[p].life = 1 \/ m.procs[p] = Absent
       /\ Served(m)

Alive(p)  == procs[p].life # 0
Holds(p)  == procs[p].fd \/ procs[p].map
Active(u) == units[u].pid # 0
Boxes     == {p \in Pids : procs[p].box}
Lives(S)  == {<<p, procs[p].life>> : p \in S}

-----------------------------------------------------------------------------
(* What processes do.  A process whose descriptors only get fewer looks the same   *)
(* to a listing that is read entry by entry, so one read stands for it.           *)

Over  == run.at \in {"proceeds", "refused"}
Kept(S) == {p \in S : /\ procs'[p].life = procs[p].life
                      /\ procs'[p].fd \/ procs'[p].map
                      /\ procs'[p].fd => procs[p].fd}
Moves(changed) == /\ ~ Over /\ moves < MaxMoves
                  /\ moves' = moves + 1
                  /\ procs' = changed
                  /\ since' = [since EXCEPT !.users = Kept(@)]
                  /\ UNCHANGED run
Touches(p, now) == Moves([procs EXCEPT ![p] = now]) /\ UNCHANGED units
New == [Absent EXCEPT !.life = moves + 2]

Opens(p)  == Alive(p) /\ ~ procs[p].fd /\ Touches(p, [procs[p] EXCEPT !.fd = TRUE])
Maps(p)   == procs[p].fd /\ ~ procs[p].map /\ Touches(p, [procs[p] EXCEPT !.map = TRUE])
Closes(p) == procs[p].fd /\ Touches(p, [procs[p] EXCEPT !.fd = FALSE])
Unmaps(p) == procs[p].map /\ Touches(p, [procs[p] EXCEPT !.map = FALSE])
Forks(p, q) == /\ Alive(p) /\ ~ Alive(q)   \* the child of a service executes another program
               /\ Touches(q, [procs[p] EXCEPT !.life = moves + 2, !.exe = "other"])
Exits(p) == /\ Alive(p)
            /\ Moves([procs EXCEPT ![p] = Absent])
            /\ units' = [u \in DOMAIN units |->
                           IF units[u].pid = p THEN [units[u] EXCEPT !.pid = 0] ELSE units[u]]
Starts(u, q, exe) ==   \* by systemd, a script or a connection to docker.socket
  /\ ~ Active(u) /\ ~ units[u].masked /\ ~ Alive(q)
  /\ Moves([procs EXCEPT ![q] = [New EXCEPT !.unit = u, !.exe = exe, !.fd = u # "docker"]])
  /\ units' = [units EXCEPT ![u].pid = q]
RunsContainer(q) == /\ Active("docker") /\ ~ Alive(q)
                    /\ Touches(q, [New EXCEPT !.box = TRUE])

Process == \/ \E p \in Pids : Opens(p) \/ Maps(p) \/ Closes(p) \/ Unmaps(p) \/ Exits(p)
           \/ \E p, q \in Pids : Forks(p, q)
           \/ \E q \in Pids, u \in DOMAIN units, exe \in {"trusted", "other"} : Starts(u, q, exe)
           \/ \E q \in Pids : RunsContainer(q)

-----------------------------------------------------------------------------
(* The program: where it is, the phase, the launcher and the process it has come   *)
(* to, the identity it bound, the GPU users it saw, whether it will refuse.       *)

Nobody == [pid |-> 0, start |-> 0, exeOf |-> 0, groupOf |-> 0]
Walk   == IF run.phase = "quiesce" THEN Guarded ELSE Order
U      == Walk[run.i]
Main   == procs[run.ident.pid]
At(l)  == run.at = l
Go(r)  == run' = r /\ UNCHANGED moves
Looks  == UNCHANGED <<procs, units, since>>

(* The next part of the gate (no checkpoint yet) or of the checkpoint. *)
Enter(r, phase, l) == [r EXCEPT !.phase = phase, !.at = l, !.i = 1, !.ident = Nobody]
EndPhase(r) ==
  IF run.phase = "quiesce" THEN Enter(r, "probe", IF r.checkpoint THEN "audit" ELSE "compute")
  ELSE IF run.phase = "vet" THEN Enter(r, "quarantine", "observe")
  ELSE IF r.checkpoint THEN Enter(r, "reprobe", "audit") ELSE [r EXCEPT !.at = "refused"]
NextUnit(r) == IF run.i < Len(Walk) THEN [r EXCEPT !.i = @ + 1, !.at = "observe", !.ident = Nobody]
               ELSE EndPhase(r)

(* An error in the gate quarantines and refuses; in the checkpoint the guard goes   *)
(* on with its other services, and a quarantine that breaks off is searched after  *)
(* all.                                                                          *)
Broken ==
  LET r == [run EXCEPT !.blocked = TRUE] IN
    IF run.phase = "quiesce"
    THEN IF run.checkpoint THEN NextUnit(r) ELSE Enter(r, "vet", "observe")
    ELSE IF run.checkpoint THEN Enter(r, "reprobe", "audit") ELSE [r EXCEPT !.at = "refused"]

-----------------------------------------------------------------------------
(* A launcher is bound to its main process: the pid systemd names, its start, its    *)
(* executable, its control group, its start once more.                            *)

Observe ==
  /\ At("observe")
  /\ Go(IF Active(U) THEN [run EXCEPT !.at = "start", !.ident = [Nobody EXCEPT !.pid = units[U].pid]]
                     ELSE [run EXCEPT !.at = "bound", !.ident = Nobody])
  /\ Looks
ReadStart ==
  /\ At("start")
  /\ Go(IF Main.life # 0 THEN [run EXCEPT !.at = "exe", !.ident.start = Main.life] ELSE Broken)
  /\ Looks
ReadExecutable ==
  /\ At("exe")
  /\ Go(IF Main.life # 0 /\ Main.exe = "trusted"
        THEN [run EXCEPT !.at = "group", !.ident.exeOf = Main.life] ELSE Broken)
  /\ Looks
ReadGroup ==
  /\ At("group")
  /\ Go(IF Main.life # 0 /\ Main.unit = U
        THEN [run EXCEPT !.at = "again", !.ident.groupOf = Main.life] ELSE Broken)
  /\ Looks
(* Faulty variant: it is enough that the process still is there. *)
ReadStartAlive ==
  /\ At("again")
  /\ Go(IF Main.life # 0 THEN [run EXCEPT !.at = "bound"] ELSE Broken)
  /\ Looks
ReadStartAgain ==
  /\ At("again")
  /\ Go(IF Main.life = run.ident.start THEN [run EXCEPT !.at = "bound"] ELSE Broken)
  /\ Looks

Bound ==
  /\ At("bound")
  /\ Go(CASE run.phase = "vet"        -> NextUnit(run)
          [] run.phase = "quarantine" -> [run EXCEPT !.at = "mask"]
          [] OTHER -> IF run.ident.pid = 0 THEN NextUnit(run) ELSE [run EXCEPT !.at = "stop"])
  /\ Looks

(* _quarantine_service_for_rollback: a mask first, then the process bound before    *)
(* the mask, and no other, is stopped.                                           *)
Mask ==
  /\ At("mask")
  /\ \/ /\ units' = [units EXCEPT ![U].masked = TRUE]
        /\ Go([run EXCEPT !.at = "masked"])
     \/ UNCHANGED units /\ Go(Broken)
  /\ UNCHANGED <<procs, since>>
(* Faulty variant: whatever runs behind the mask is stopped. *)
RevalidateNothing ==
  /\ At("masked")
  /\ Go(IF Active(U) THEN [run EXCEPT !.at = "stop"] ELSE NextUnit(run))
  /\ Looks
Revalidate ==
  /\ At("masked")
  /\ Go(IF ~ Active(U) THEN NextUnit(run)
        ELSE IF /\ run.ident.pid # 0
                /\ Main.life = run.ident.start /\ Main.exe = "trusted" /\ Main.unit = U
             THEN [run EXCEPT !.at = "stop"] ELSE Broken)
  /\ Looks

(* systemctl stop ends every process of the unit, and docker's containers. *)
Ended(u) == {p \in Pids : procs[p].unit = u \/ (u = "docker" /\ procs[p].box)}
Stop ==
  /\ At("stop")
  /\ \/ /\ procs' = [p \in Pids |-> IF p \in Ended(U) THEN Absent ELSE procs[p]]
        /\ units' = [units EXCEPT ![U].pid = 0]
        /\ since' = [since EXCEPT !.users = Kept(@)]
        /\ Go([run EXCEPT !.at = "stopped"])
     \/ UNCHANGED <<procs, units, since>> /\ Go(Broken)
Stopped ==
  /\ At("stopped")
  /\ Go(IF Active(U) THEN Broken ELSE NextUnit(run))
  /\ Looks

-----------------------------------------------------------------------------
(* probe_active_gpu_workloads. *)

Judged(r) ==
  IF run.phase = "reprobe" THEN [r EXCEPT !.at = IF r.blocked THEN "refused" ELSE "proceeds"]
  ELSE IF run.checkpoint \/ r.blocked THEN Enter(r, "vet", "observe")
  ELSE Enter([r EXCEPT !.checkpoint = TRUE], "quiesce", "observe")
Unknown == Judged([run EXCEPT !.blocked = TRUE])

(* audit_host; after the quarantine it is also asked whether that worked. *)
Unsafe == \E u \in DOMAIN units : Active(u) \/ ~ units[u].masked
AuditUnits ==
  /\ At("audit")
  /\ Go([run EXCEPT !.at = "compute", !.docker = Active("docker"),
                    !.blocked = @ \/ (run.phase = "reprobe" /\ Unsafe)])
  /\ since' = IF run.phase = "reprobe" THEN [since EXCEPT !.users = {p \in Pids : Holds(p)}]
              ELSE [since EXCEPT !.boxes = IF Active("docker") THEN Lives(Boxes) ELSE {}]
  /\ UNCHANGED <<procs, units>>

(* nvidia-smi names who computes now; that it fails is only noted. *)
ComputeQuery ==
  /\ At("compute")
  /\ \E found \in {{}, {p \in Pids : procs[p].fd}} :
       Go([run EXCEPT !.at = "fds", !.k = 1, !.seen = found])
  /\ Looks

(* The search goes on with the next process, if this one is a user having noted it. *)
NextProcess(uses) ==
  LET r == [run EXCEPT !.seen = IF uses THEN @ \cup {run.k} ELSE @]
  IN IF run.k < N THEN [r EXCEPT !.at = "fds", !.k = @ + 1] ELSE [r EXCEPT !.at = "list"]
(* Faulty variant: the mappings of a process are read before its descriptors. *)
PartMappingsFirst(l) == IF l = "fds" THEN procs[run.k].map ELSE procs[run.k].fd
Part(l) == IF l = "fds" THEN procs[run.k].fd ELSE procs[run.k].map
ScanDescriptors ==
  /\ At("fds")
  /\ Go(IF Part("fds") \/ ~ Alive(run.k) THEN NextProcess(Part("fds")) ELSE [run EXCEPT !.at = "maps"])
  /\ Looks
ScanMappings == At("maps") /\ Go(NextProcess(Part("maps"))) /\ Looks
(* A limit, a timeout or an unreadable entry. *)
ScanGivesUp ==
  /\ run.at \in {"fds", "maps"} /\ Go(Unknown) /\ Looks

(* A daemon that was not active when audited is not asked: the question could        *)
(* start it.                                                                     *)
ListContainers ==
  /\ At("list")
  /\ Go(IF ~ run.docker THEN [run EXCEPT !.at = "judge"]
        ELSE IF Active("docker") THEN [run EXCEPT !.at = "inspect", !.listed = Lives(Boxes)]
        ELSE Unknown)
  /\ Looks
InspectContainers ==
  /\ At("inspect")
  /\ Go(IF Active("docker") /\ run.listed \subseteq Lives(Boxes)
        THEN [run EXCEPT !.at = "judge", !.listed = {}, !.seen = @ \cup {b[1] : b \in run.listed}]
        ELSE [Unknown EXCEPT !.listed = {}])
  /\ Looks

Judge ==
  /\ At("judge")
  /\ Go(Judged([run EXCEPT !.blocked = @ \/ (run.seen # {} /\ ~ Allowed), !.seen = {}]))
  /\ Looks

-----------------------------------------------------------------------------
Init == /\ \E m \in Machines : procs = m.procs /\ units = m.units
        /\ run = [at |-> "observe", phase |-> "quiesce", checkpoint |-> FALSE, i |-> 1, k |-> 1,
                  ident |-> Nobody, seen |-> {}, listed |-> {}, docker |-> Active("docker"),
                  blocked |-> FALSE]
        /\ since = [users |-> {}, boxes |-> {}]
        /\ moves = 0

Program ==
  \/ Observe \/ ReadStart \/ ReadExecutable \/ ReadGroup \/ ReadStartAgain \/ Bound
  \/ Mask \/ Revalidate \/ Stop \/ Stopped
  \/ AuditUnits \/ ComputeQuery \/ ScanDescriptors \/ ScanMappings \/ ScanGivesUp
  \/ ListContainers \/ InspectContainers \/ Judge
Next == Program \/ Process
Spec == Init /\ [][Next]_guardVars

-----------------------------------------------------------------------------
(* An operation that goes on finds every launcher down and masked, no process that  *)
(* has used the GPU since the last search began without opening it anew, and no GPU *)
(* container from before the checkpoint, if docker ran then.                      *)
IdleBehindMasks ==
  At("proceeds") => /\ ~ Unsafe
                    /\ Allowed \/ since.users = {}
                    /\ Allowed \/ since.boxes \cap Lives(Boxes) = {}

(* What was read of a service's process was read of one process, though process ids *)
(* are reused.                                                                   *)
OneProcessIsBound ==
  At("bound") /\ run.ident.pid # 0 =>
    run.ident.start = run.ident.exeOf /\ run.ident.start = run.ident.groupOf

(* The quarantine stops no service but the one whose process it authenticated before *)
(* the mask.                                                                     *)
StopsTheBound ==
  [][/\ At("stop") /\ run.phase = "quarantine" /\ run'.at = "stopped" /\ Active(U)
     => units[U].pid = run.ident.pid /\ Main.life = run.ident.start]_guardVars

(* What the code does not keep.  README.md:269: "If workloads are intentionally still *)
(* active, both --allow-disruption and the stronger --allow-active-workloads         *)
(* acknowledgement are required".  A program that is going to refuse ends none.       *)
UnacknowledgedRuns ==
  [][run.blocked /\ ~ Allowed /\ run' # run => Lives(Boxes) \subseteq Lives(Boxes)']_guardVars
=============================================================================
