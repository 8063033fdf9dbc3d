---------------------------- MODULE GpuGuardProofs ----------------------------
(*******************************************************************************)
(* Proofs about GpuGuard.tla for any process table, launchers and number of    *)
(* steps of processes: a service is bound to one process, no other service is  *)
(* stopped, and an operation that goes on finds the machine idle behind masks. *)
(* What carries the argument is that a process id that is used again names a   *)
(* younger process, and that a search sees a user from before it or the user   *)
(* opened the device anew.                                                     *)
(*******************************************************************************)
EXTENDS GpuGuard, TLAPS

-----------------------------------------------------------------------------
(* Types and places. *)

BindPlaces   == {"observe", "start", "exe", "group", "again", "bound", "mask", "masked", "stop",
                 "stopped"}
SearchPlaces == {"audit", "compute", "fds", "maps", "list", "inspect", "judge"}
Phases       == {"quiesce", "probe", "vet", "quarantine", "reprobe"}
Identities   == [pid : 0..N, start : Nat, exeOf : Nat, groupOf : Nat]
Runs == [at : BindPlaces \cup SearchPlaces \cup {"proceeds", "refused"}, phase : Phases,
         checkpoint : BOOLEAN, i : Nat, k : Pids, ident : Identities, seen : SUBSET Pids,
         listed : SUBSET (Pids \X Nat), docker : BOOLEAN, blocked : BOOLEAN]

Typed == /\ procs \in [Pids -> Processes] /\ units \in [Launchers -> UnitStates]
         /\ run \in Runs /\ moves \in Nat
         /\ since \in [users : SUBSET Pids, boxes : SUBSET (Pids \X Nat)]

(* A launcher is bound in one of three phases, a search made in the other two; only *)
(* the checkpoint searches behind its quarantine.                                   *)
Placed ==
  /\ run.at \in BindPlaces => /\ run.phase \in {"quiesce", "vet", "quarantine"}
                              /\ run.i \in DOMAIN Walk
  /\ run.at \in {"mask", "masked"} => run.phase = "quarantine"
  /\ run.at \in SearchPlaces => run.phase \in {"probe", "reprobe"}
  /\ run.at = "audit" \/ run.phase = "reprobe" => run.checkpoint

-----------------------------------------------------------------------------
(* The invariant. *)

(* A process id used again names a process that was born later. *)
Aged == \A p \in Pids : procs[p].life < moves + 2 /\ (procs[p].life = 0 => procs[p] = Absent)
Here == [procs |-> procs, units |-> units]

(* As long as the process is the one that was met first, all that was read is of it. *)
Binding ==
  /\ run.at \in {"start", "exe", "group", "again"} => run.ident.pid \in Pids
  /\ run.at \in {"exe", "group", "again"} => run.ident.start \in 1..(moves + 1)
  /\ run.at \in {"group", "again"} /\ Main.life = run.ident.start => run.ident.exeOf = run.ident.start
  /\ run.at = "again" /\ Main.life = run.ident.start => run.ident.groupOf = run.ident.start
  /\ run.at \in {"bound", "mask", "masked", "stop"} /\ run.ident.pid # 0 =>
       run.ident.start = run.ident.exeOf /\ run.ident.start = run.ident.groupOf

(* Behind a mask a service stays the process that was revalidated, or stops. *)
Stopping ==
  /\ run.at = "masked" \/ (run.at = "stop" /\ run.phase = "quarantine") => units[U].masked
  /\ run.at = "stop" /\ run.phase = "quarantine" /\ Active(U) =>
       /\ units[U].pid = run.ident.pid
       /\ Main.life = run.ident.start

(* The search has passed by no user from before it. *)
Searching ==
  /\ \A p \in since.users : Holds(p)
  /\ run.phase = "reprobe" =>
       /\ run.at \in {"fds", "maps"} => \A p \in since.users : p < run.k => p \in run.seen
       /\ run.at = "maps" /\ run.k \in since.users => ~ procs[run.k].fd
       /\ run.at \in {"list", "inspect", "judge"} => since.users \subseteq run.seen
       /\ run.at = "proceeds" => Allowed \/ since.users = {}

(* A container from before the checkpoint is listed, or gone. *)
Left == since.boxes \cap Lives(Boxes)
Asking ==
  /\ \A b \in since.boxes : b[2] < moves + 2
  /\ run.phase = "probe" /\ run.checkpoint =>
       /\ run.at \in {"compute", "fds", "maps", "list"} /\ ~ run.docker => since.boxes = {}
       /\ run.at = "inspect" => Left \subseteq run.listed
       /\ run.at = "judge" /\ run.seen = {} => Left = {}
  /\ run.phase \in {"vet", "quarantine", "reprobe"} /\ run.checkpoint =>
       run.blocked \/ Allowed \/ Left = {}

(* What the audit behind the quarantine found stays: nothing unmasks. *)
Closed ==
  /\ run.phase = "reprobe" /\ run.at # "audit" /\ ~ run.blocked => ~ Unsafe
  /\ run.at = "proceeds" => run.phase = "reprobe" /\ ~ run.blocked

Machine == Aged /\ Served(Here)
IInv == Typed /\ Placed /\ Machine /\ Binding /\ Stopping /\ Searching /\ Asking /\ Closed

-----------------------------------------------------------------------------
(* The launchers in their order. *)
LEMMA WalkFacts ==
  /\ 1 \in DOMAIN Order /\ 1 \in DOMAIN Guarded
  /\ Walk \in {Order, Guarded} /\ DOMAIN Walk = 1..Len(Walk) /\ Len(Walk) \in Nat
  /\ \A i \in DOMAIN Walk : Walk[i] \in Launchers
  /\ "docker" \in Launchers
<1>1. /\ Order \in Seq(STRING) /\ Guarded \in Seq(STRING) /\ Len(Order) > 0 /\ Len(Guarded) > 0
      /\ Range(Guarded) \subseteq Launchers /\ "docker" \in Launchers
  BY GuardAssumption
<1>2. Walk \in {Order, Guarded} BY DEF Walk
<1>3. Range(Order) = Launchers BY DEF Launchers
<1>4. \A i \in DOMAIN Walk : Walk[i] \in Launchers
  BY <1>1, <1>2, <1>3 DEF Range
<1> QED BY <1>1, <1>2, <1>4

LEMMA UnitFacts ==
  ASSUME IInv, run.at \in BindPlaces
  PROVE  /\ U \in Launchers /\ units[U] \in UnitStates
         /\ run.phase \in {"quiesce", "vet", "quarantine"} /\ run.i \in DOMAIN Walk
  BY WalkFacts DEF IInv, Typed, Placed, U

LEMMA PidFacts == N \in Nat /\ 1 \in Pids /\ 0 \notin Pids /\ Pids = 1..N /\ Pids \subseteq Nat
  BY GuardAssumption DEF Pids

-----------------------------------------------------------------------------
(* Processes. *)

(* What a step of processes never does: bring back a process, take away a mask, or *)
(* start a unit behind one.                                                        *)
LEMMA MoveSound ==
  ASSUME IInv, NEW changed, Moves(changed),
         changed \in [Pids -> Processes], units' \in [Launchers -> UnitStates],
         \A p \in Pids : \/ changed[p] = Absent
                         \/ procs[p].life = 0 /\ changed[p].life = moves + 2
                         \/ /\ changed[p].life = procs[p].life /\ procs[p].life # 0
                            /\ changed[p].box = procs[p].box,
         \A u \in Launchers :
           /\ units'[u].masked = units[u].masked
           /\ units'[u].pid # 0 /\ units[u].masked =>
                /\ units'[u].pid = units[u].pid
                /\ changed[units[u].pid].life = procs[units[u].pid].life,
         Served(Here)'
  PROVE  IInv'
<1>1. /\ procs' = changed /\ moves' = moves + 1 /\ run' = run /\ ~ Over
      /\ since' = [since EXCEPT !.users = Kept(since.users)]
  BY DEF Moves
<1>2. /\ since'.users = Kept(since.users) /\ since'.boxes = since.boxes
      /\ Kept(since.users) \subseteq since.users
  BY <1>1 DEF IInv, Typed, Kept
<1>3. Typed' BY <1>1, <1>2 DEF IInv, Typed
<1>4. Placed' BY <1>1 DEF IInv, Placed, Walk
<1>5. /\ moves \in Nat /\ \A p \in Pids : procs[p] \in Processes /\ procs[p].life < moves + 2
      /\ Absent.life = 0
  BY DEF IInv, Typed, Machine, Aged, Absent
<1>6. \A p \in Pids : /\ changed[p].life < moves + 3 /\ (changed[p].life = 0 => changed[p] = Absent)
                      /\ changed[p].life \in {0, procs[p].life, moves + 2}
  BY <1>5 DEF Processes
<1>7. Machine' BY <1>1, <1>5, <1>6 DEF Machine, Aged
<1>8. Binding'
  <2>1. run.ident.start \in 1..(moves + 1) => run.ident.start \in 1..(moves + 2) /\ run.ident.start # moves + 2
                                              /\ run.ident.start # 0
    BY <1>5
  <2>2. run.at \in {"exe", "group", "again"} =>
          /\ run.ident.pid \in Pids
          /\ changed[run.ident.pid].life = run.ident.start => procs[run.ident.pid].life = run.ident.start
    BY <1>6, <2>1 DEF IInv, Binding
  <2>3. moves' + 1 = moves + 2 BY <1>1, <1>5
  <2> QED BY <1>1, <2>1, <2>2, <2>3 DEF IInv, Binding, Main
<1>9. Stopping'
  <2>1. CASE run.at = "masked" \/ (run.at = "stop" /\ run.phase = "quarantine")
    <3>1. U \in Launchers /\ units[U].masked /\ U' = U
      BY <1>1, <2>1, UnitFacts DEF IInv, Stopping, BindPlaces, U, Walk
    <3> QED BY <1>1, <3>1 DEF IInv, Stopping, Active, Main
  <2>2. CASE ~ (run.at = "masked" \/ (run.at = "stop" /\ run.phase = "quarantine"))
    BY <1>1, <2>2 DEF Stopping
  <2> QED BY <2>1, <2>2
<1>10. Searching'
  <2>1. \A p \in since'.users : /\ procs'[p].fd \/ procs'[p].map
                                /\ procs'[p].fd => procs[p].fd
    BY <1>2 DEF Kept
  <2>2. since'.users \subseteq since.users BY <1>2
  <2> QED BY <1>1, <2>1, <2>2 DEF IInv, Searching, Holds, Over
<1>11. Asking'
  <2>1. Left' \subseteq Left
    <3> SUFFICES ASSUME NEW p \in Pids, changed[p].box, <<p, changed[p].life>> \in since.boxes
                 PROVE  procs[p].box /\ procs[p].life = changed[p].life
      BY <1>1, <1>2 DEF Left, Lives, Boxes
    <3>1. changed[p].life < moves + 2 BY DEF IInv, Asking
    <3>2. changed[p] # Absent BY DEF Absent
    <3> QED BY <1>5, <3>1, <3>2
  <2>2. \A b \in since'.boxes : b[2] < moves' + 2
    BY <1>1, <1>2, <1>5 DEF IInv, Asking, Typed
  <2> QED BY <1>1, <1>2, <2>1, <2>2 DEF IInv, Asking
<1>12. Closed'
  <2>1. ~ Unsafe => ~ Unsafe'
    <3> SUFFICES ASSUME ~ Unsafe, NEW u \in Launchers PROVE units'[u].pid = 0 /\ units'[u].masked
      BY DEF Unsafe, Active, IInv, Typed
    <3>1. units[u].pid = 0 /\ units[u].masked BY DEF Unsafe, Active, IInv, Typed
    <3> QED BY <3>1
  <2> QED BY <1>1, <2>1 DEF IInv, Closed
<1> QED BY <1>3, <1>4, <1>7, <1>8, <1>9, <1>10, <1>11, <1>12 DEF IInv

(* A process changes, or one is born that is no main process of a unit. *)
LEMMA TouchSound ==
  ASSUME IInv, NEW p \in Pids, NEW now \in Processes, Touches(p, now),
         \/ /\ now.life = procs[p].life /\ procs[p].life # 0
            /\ now.box = procs[p].box /\ now.unit = procs[p].unit /\ now.exe = procs[p].exe
         \/ procs[p].life = 0 /\ now.life = moves + 2 /\ now.exe = "other"
  PROVE  IInv'
<1> DEFINE changed == [procs EXCEPT ![p] = now]
<1>1. procs \in [Pids -> Processes] /\ units \in [Launchers -> UnitStates] /\ Served(Here) /\ Aged
  BY DEF IInv, Typed, Machine
<1>2. /\ changed \in [Pids -> Processes] /\ changed[p] = now
      /\ \A q \in Pids \ {p} : changed[q] = procs[q]
  BY <1>1
<1>3. Moves(changed) /\ units' = units /\ procs' = changed BY DEF Touches, Moves
<1> HIDE DEF changed
<1>4. \A q \in Pids : procs[q].life = 0 => procs[q] = Absent BY <1>1 DEF Aged
<1>5. \A u \in Launchers : units[u].pid \in Pids => procs[units[u].pid].life # 0
  BY <1>1 DEF Served, Here
<1>6. \A u \in Launchers : units[u].pid # 0 => units[u].pid \in Pids
  BY <1>1 DEF UnitStates, Pids
<1>7. Served(Here)' BY <1>1, <1>2, <1>3, <1>5 DEF Served, Here
<1> QED BY <1>1, <1>2, <1>3, <1>4, <1>5, <1>6, <1>7, MoveSound

(* Who is born is outside the GPU and of no unit. *)
LEMMA NewFacts ==
  ASSUME moves \in Nat
  PROVE  New \in Processes /\ New.life = moves + 2 /\ New.exe = "other" /\ ~ New.box
<1>1. Absent \in Processes /\ Absent.exe = "other" /\ ~ Absent.box BY DEF Absent, Processes
<1>2. moves + 2 \in Nat OBVIOUS
<1> QED BY <1>1, <1>2 DEF New, Processes

LEMMA ProcessStep == ASSUME IInv, Process PROVE IInv'
<1>1. /\ procs \in [Pids -> Processes] /\ units \in [Launchers -> UnitStates] /\ Served(Here) /\ Aged
      /\ moves \in Nat
  BY DEF IInv, Typed, Machine
<1>2. ASSUME NEW p \in Pids, Opens(p) \/ Maps(p) \/ Closes(p) \/ Unmaps(p) PROVE IInv'
  <2>1. procs[p].life # 0 BY <1>1, <1>2 DEF Opens, Maps, Closes, Unmaps, Alive, Aged, Absent
  <2>2. PICK now \in {[procs[p] EXCEPT !.fd = TRUE], [procs[p] EXCEPT !.map = TRUE],
                     [procs[p] EXCEPT !.fd = FALSE], [procs[p] EXCEPT !.map = FALSE]} : Touches(p, now)
    BY <1>2 DEF Opens, Maps, Closes, Unmaps
  <2>3. now \in Processes /\ now.life = procs[p].life /\ now.box = procs[p].box
        /\ now.unit = procs[p].unit /\ now.exe = procs[p].exe
    BY <1>1, <2>2, ZenonT(30) DEF Processes
  <2> QED BY <2>1, <2>2, <2>3, TouchSound
<1>3. ASSUME NEW p \in Pids, NEW q \in Pids, Forks(p, q) PROVE IInv'
  <2> DEFINE now == [procs[p] EXCEPT !.life = moves + 2, !.exe = "other"]
  <2>1. now \in Processes /\ now.life = moves + 2 /\ now.exe = "other"
    <3>1. procs[p] \in Processes /\ moves + 2 \in Nat BY <1>1
    <3> QED BY <3>1 DEF Processes
  <2>2. Touches(q, now) /\ procs[q].life = 0 BY <1>3 DEF Forks, Alive
  <2> HIDE DEF now
  <2> QED BY <2>1, <2>2, TouchSound
<1>4. ASSUME NEW q \in Pids, RunsContainer(q) PROVE IInv'
  <2> DEFINE now == [New EXCEPT !.box = TRUE]
  <2>1. now \in Processes /\ now.life = moves + 2 /\ now.exe = "other"
    BY <1>1, NewFacts DEF Processes
  <2>2. Touches(q, now) /\ procs[q].life = 0 BY <1>4 DEF RunsContainer, Alive
  <2> HIDE DEF now
  <2> QED BY <2>1, <2>2, TouchSound
<1>5. ASSUME NEW p \in Pids, Exits(p) PROVE IInv'
  <2> DEFINE changed == [procs EXCEPT ![p] = Absent]
  <2>1. Absent \in Processes /\ Absent.life = 0 /\ Absent.exe = "other" BY DEF Absent, Processes
  <2>2. /\ changed \in [Pids -> Processes] /\ changed[p] = Absent
        /\ \A q \in Pids \ {p} : changed[q] = procs[q]
    BY <1>1, <2>1
  <2>3. Moves(changed) /\ procs' = changed BY <1>5 DEF Exits, Moves
  <2> HIDE DEF changed
  <2>units. DOMAIN units = Launchers /\ units' = [u \in DOMAIN units |->
                   IF units[u].pid = p THEN [units[u] EXCEPT !.pid = 0] ELSE units[u]]
    BY <1>1, <1>5 DEF Exits
  <2>4. \A u \in Launchers : /\ units'[u] = IF units[u].pid = p THEN [units[u] EXCEPT !.pid = 0] ELSE units[u]
                             /\ units[u] \in UnitStates
    <3> TAKE u \in Launchers
    <3>1. units'[u] = IF units[u].pid = p THEN [units[u] EXCEPT !.pid = 0] ELSE units[u]
      BY <2>units, Zenon
    <3> QED BY <1>1, <3>1
  <2>5. DOMAIN units' = Launchers /\ units' = [u \in Launchers |-> units'[u]] BY <2>units
  <2>6. \A u \in Launchers : /\ units'[u] \in UnitStates /\ units'[u].masked = units[u].masked
                             /\ units'[u].pid \in {0, units[u].pid} \ {p}
    <3> TAKE u \in Launchers
    <3>0. units[u] \in UnitStates BY <1>1
    <3>1. 0 \in 0..N /\ p # 0 BY PidFacts
    <3>2. CASE units[u].pid = p
      <4>1. units'[u] = [units[u] EXCEPT !.pid = 0] BY <2>4, <3>2
      <4> QED BY <3>0, <3>1, <4>1 DEF UnitStates
    <3>3. CASE units[u].pid # p
      <4>1. units'[u] = units[u] BY <2>4, <3>3
      <4> QED BY <3>0, <3>1, <3>3, <4>1 DEF UnitStates
    <3> QED BY <3>2, <3>3
  <2>7. units' \in [Launchers -> UnitStates] BY <2>5, <2>6
  <2>8. \A u \in Launchers : units'[u].pid # 0 =>
          /\ units'[u].pid = units[u].pid /\ units[u].pid \in Pids \ {p}
    BY <1>1, <2>6 DEF UnitStates, Pids
  <2>9. \A u \in Launchers : units[u].pid # p => units'[u] = units[u] BY <2>4
  <2>10. Served(Here)'
    <3> SUFFICES ASSUME NEW u \in Launchers, NEW q \in Pids
                 PROVE  /\ units'[u].pid = q => changed[q].life # 0 /\ changed[q].unit = u /\ ~ changed[q].box
                        /\ changed[q].unit = u /\ changed[q].exe = "trusted" => units'[u].pid = q
      BY <2>3 DEF Served, Here
    <3>1. CASE q = p BY <2>1, <2>2, <2>6, <3>1
    <3>2. CASE q # p
      <4>1. units[u].pid = q => units'[u].pid = q BY <2>9, <3>2
      <4>2. units'[u].pid = q => units[u].pid = q BY <2>8, PidFacts
      <4> QED BY <1>1, <2>2, <3>2, <4>1, <4>2 DEF Served, Here
    <3> QED BY <3>1, <3>2
  <2>11. \A q \in Pids : procs[q].life = 0 => procs[q] = Absent BY <1>1 DEF Aged
  <2> QED BY <2>2, <2>3, <2>6, <2>7, <2>8, <2>10, <2>11, MoveSound
<1>6. ASSUME NEW u \in Launchers, NEW q \in Pids, NEW exe \in {"trusted", "other"}, Starts(u, q, exe)
      PROVE  IInv'
  <2> DEFINE now == [New EXCEPT !.unit = u, !.exe = exe, !.fd = u # "docker"]
             changed == [procs EXCEPT ![q] = now]
  <2>1. now \in Processes /\ now.life = moves + 2 /\ now.unit = u /\ ~ now.box
    BY <1>1, NewFacts DEF Processes
  <2>2. Moves(changed) /\ procs' = changed /\ procs[q].life = 0 /\ units[u].pid = 0 /\ ~ units[u].masked
    BY <1>6 DEF Starts, Moves, Alive, Active
  <2> HIDE DEF now
  <2>3. /\ changed \in [Pids -> Processes] /\ changed[q] = now
        /\ \A p \in Pids \ {q} : changed[p] = procs[p]
    BY <1>1, <2>1
  <2> HIDE DEF changed
  <2>4. units' = [units EXCEPT ![u].pid = q] BY <1>6 DEF Starts
  <2>5. q \in 0..N /\ q # 0 BY PidFacts
  <2>6. units[u] \in UnitStates BY <1>1
  <2>7. [units[u] EXCEPT !.pid = q] \in UnitStates BY <2>5, <2>6 DEF UnitStates
  <2>8. /\ units' \in [Launchers -> UnitStates] /\ units'[u] = [units[u] EXCEPT !.pid = q]
        /\ \A v \in Launchers \ {u} : units'[v] = units[v]
    BY <1>1, <2>4, <2>7
  <2>9. units'[u].pid = q /\ units'[u].masked = units[u].masked BY <2>6, <2>8 DEF UnitStates
  <2>10. \A v \in Launchers : units[v].pid # 0 => units[v].pid \in Pids
    BY <1>1 DEF UnitStates, Pids
  <2>11. \A v \in Launchers : units[v].pid # q BY <1>1, <2>2 DEF Served, Here
  <2>12. Served(Here)'
    <3> SUFFICES ASSUME NEW v \in Launchers, NEW p \in Pids
                 PROVE  /\ units'[v].pid = p => changed[p].life # 0 /\ changed[p].unit = v /\ ~ changed[p].box
                        /\ changed[p].unit = v /\ changed[p].exe = "trusted" => units'[v].pid = p
      BY <2>2 DEF Served, Here
    <3>1. CASE p = q
      <4>1. now.life # 0 BY <1>1, <2>1
      <4>2. units'[v].pid = q <=> v = u BY <2>8, <2>9, <2>11
      <4> QED BY <2>1, <2>3, <3>1, <4>1, <4>2
    <3>2. CASE p # q
      <4>1. p # 0 BY PidFacts
      <4>2. units'[v].pid = p <=> units[v].pid = p BY <2>2, <2>8, <2>9, <3>2, <4>1
      <4> QED BY <1>1, <2>3, <3>2, <4>2 DEF Served, Here
    <3> QED BY <3>1, <3>2
  <2>13. \A p \in Pids : procs[p].life = 0 => procs[p] = Absent BY <1>1 DEF Aged
  <2> QED BY <2>1, <2>2, <2>3, <2>8, <2>9, <2>10, <2>11, <2>12, <2>13, MoveSound, ZenonT(30)
<1>7. DOMAIN units = Launchers BY <1>1
<1> QED BY <1>2, <1>3, <1>4, <1>5, <1>6, <1>7 DEF Process

-----------------------------------------------------------------------------
(* Steps that change only what the program knows. *)
LEMMA LooksSound ==
  ASSUME IInv, Looks, moves' = moves, run' \in Runs,
         Placed', Binding', Stopping', Searching', Asking', Closed'
  PROVE  IInv'
  BY DEF IInv, Looks, Typed, Machine, Aged, Served, Here

LEMMA LooksFacts ==
  ASSUME Looks
  PROVE  Left' = Left /\ (Unsafe' <=> Unsafe) /\ (\A p \in Pids : Holds(p)' <=> Holds(p))
  BY DEF Looks, Left, Lives, Boxes, Unsafe, Active, Holds

(* On to the next question about the same launcher. *)
LEMMA BindsOn ==
  ASSUME IInv, Looks, moves' = moves, run.at \in BindPlaces, run' \in Runs,
         run'.phase = run.phase, run'.i = run.i, run'.checkpoint = run.checkpoint,
         run'.blocked = run.blocked, run'.at \in BindPlaces,
         run'.at \in {"mask", "masked"} => run.phase = "quarantine",
         Binding', Stopping'
  PROVE  IInv'
<1>1. run'.phase \in {"quiesce", "vet", "quarantine"} /\ run.i \in DOMAIN Walk BY UnitFacts
<1>2. Walk' = Walk BY DEF Walk
<1>3. run'.at \notin {"audit", "proceeds"} BY DEF BindPlaces
<1>4. Placed' BY <1>1, <1>2, <1>3 DEF Placed, BindPlaces, SearchPlaces
<1>5. Searching' BY <1>1, LooksFacts DEF IInv, Searching, Looks, Holds
<1>6. Asking' BY <1>1, LooksFacts DEF IInv, Asking, Looks
<1>7. Closed' BY <1>1, <1>3 DEF Closed
<1> QED BY <1>4, <1>5, <1>6, <1>7, LooksSound

(* On to the next launcher, or the next phase. *)
LEMMA EnterFacts ==
  ASSUME NEW r \in Runs, NEW phase \in Phases, NEW l \in {"observe", "audit", "compute"}
  PROVE  /\ Enter(r, phase, l) \in Runs
         /\ Enter(r, phase, l).at = l /\ Enter(r, phase, l).phase = phase /\ Enter(r, phase, l).i = 1
         /\ Enter(r, phase, l).checkpoint = r.checkpoint /\ Enter(r, phase, l).blocked = r.blocked
         /\ Enter(r, phase, l).ident = Nobody
<1>1. l \in BindPlaces \cup SearchPlaces /\ Nobody \in Identities
  BY PidFacts DEF BindPlaces, SearchPlaces, Nobody, Identities
<1> QED BY <1>1 DEF Enter, Runs

(* Where the program is after a launcher: what it knew, it still knows. *)
Onward ==
  /\ run' \in Runs /\ run'.blocked \in {run.blocked, TRUE} /\ run'.checkpoint = run.checkpoint
  /\ run'.at \in {"observe", "audit", "compute", "refused"}
  /\ run'.at = "observe" => /\ run'.phase \in {"quiesce", "vet", "quarantine"}
                            /\ run'.i \in DOMAIN Walk'
  /\ run'.at \in {"audit", "compute"} => run'.phase \in {"probe", "reprobe"}
  /\ run'.at = "audit" => run.checkpoint
  /\ run'.at = "compute" => ~ run.checkpoint
  /\ run'.phase = "reprobe" => run'.at = "audit"
  /\ run'.phase \in {"vet", "quarantine", "reprobe"} /\ run.checkpoint =>
       run.phase \in {"vet", "quarantine"}

LEMMA OnwardSound ==
  ASSUME IInv, Looks, moves' = moves, Onward
  PROVE  IInv'
<1> USE DEF Onward
<1>1. Placed' BY DEF Placed, BindPlaces, SearchPlaces
<1>2. Binding' BY DEF Binding
<1>3. Stopping' BY DEF Stopping
<1>4. Searching' BY LooksFacts DEF IInv, Searching, Looks, Holds
<1>5. Asking'
  <2>1. run'.blocked \/ ~ run.blocked OBVIOUS
  <2> QED BY <2>1, LooksFacts DEF IInv, Asking, Looks
<1>6. Closed' BY DEF Closed
<1> QED BY <1>1, <1>2, <1>3, <1>4, <1>5, <1>6, LooksSound

LEMMA EndsPhase ==
  ASSUME IInv, run.at \in BindPlaces, run' = EndPhase(run)
  PROVE  Onward
<1>1. run \in Runs BY DEF IInv, Typed
<1>2. run.phase \in {"quiesce", "vet", "quarantine"} BY UnitFacts
<1>3. CASE run.phase = "quiesce"
  <2>1. PICK l \in {"audit", "compute"} :
          run' = Enter(run, "probe", l) /\ (l = "audit" <=> run.checkpoint)
    BY <1>3 DEF EndPhase
  <2>2. /\ run' \in Runs /\ run'.phase = "probe" /\ run'.at = l
        /\ run'.checkpoint = run.checkpoint /\ run'.blocked = run.blocked
    BY <1>1, <2>1, EnterFacts DEF Phases
  <2> QED BY <2>1, <2>2 DEF Onward
<1>4. CASE run.phase = "vet"
  <2>1. run' = Enter(run, "quarantine", "observe") BY <1>4 DEF EndPhase
  <2>2. run'.phase = "quarantine" /\ run'.i = 1 /\ run' \in Runs /\ run'.at = "observe"
        /\ run'.checkpoint = run.checkpoint /\ run'.blocked = run.blocked
    BY <1>1, <2>1, EnterFacts DEF Phases
  <2>3. Walk' = Order BY <2>2 DEF Walk
  <2> QED BY <1>4, <2>2, <2>3, WalkFacts DEF Onward
<1>5. CASE run.phase = "quarantine" /\ run.checkpoint
  <2>1. run' = Enter(run, "reprobe", "audit") BY <1>5 DEF EndPhase
  <2>2. /\ run' \in Runs /\ run'.phase = "reprobe" /\ run'.at = "audit"
        /\ run'.checkpoint = run.checkpoint /\ run'.blocked = run.blocked
    BY <1>1, <2>1, EnterFacts DEF Phases
  <2> QED BY <1>5, <2>2 DEF Onward
<1>6. CASE run.phase = "quarantine" /\ ~ run.checkpoint
  <2>1. run' = [run EXCEPT !.at = "refused"] BY <1>6 DEF EndPhase
  <2> QED BY <1>1, <1>6, <2>1 DEF Onward, Runs
<1> QED BY <1>2, <1>3, <1>4, <1>5, <1>6

LEMMA NextUnitOnward ==
  ASSUME IInv, run.at \in BindPlaces, run' = NextUnit(run)
  PROVE  Onward
<1>1. run \in Runs BY DEF IInv, Typed
<1>2. /\ run.phase \in {"quiesce", "vet", "quarantine"} /\ run.i \in DOMAIN Walk
      /\ DOMAIN Walk = 1..Len(Walk) /\ Len(Walk) \in Nat
  BY UnitFacts, WalkFacts
<1>3. CASE run.i < Len(Walk)
  <2>1. run' = [run EXCEPT !.i = @ + 1, !.at = "observe", !.ident = Nobody]
    BY <1>3 DEF NextUnit
  <2>2. Nobody \in Identities BY PidFacts DEF Nobody, Identities
  <2>3. /\ run' \in Runs /\ run'.i = run.i + 1 /\ run'.at = "observe" /\ run'.phase = run.phase
        /\ run'.checkpoint = run.checkpoint /\ run'.blocked = run.blocked
    <3>1. run.i + 1 \in Nat /\ "observe" \in BindPlaces BY <1>2 DEF BindPlaces
    <3> QED BY <1>1, <2>1, <2>2, <3>1 DEF Runs
  <2>4. Walk' = Walk BY <2>3 DEF Walk
  <2>5. run.i + 1 \in DOMAIN Walk BY <1>2, <1>3
  <2> QED BY <1>2, <2>3, <2>4, <2>5 DEF Onward
<1>4. CASE ~ run.i < Len(Walk) BY <1>4, EndsPhase DEF NextUnit
<1> QED BY <1>3, <1>4

LEMMA BrokenOnward ==
  ASSUME IInv, run.at \in BindPlaces, run' = Broken
  PROVE  Onward
<1> DEFINE r == [run EXCEPT !.blocked = TRUE]
<1>1. run \in Runs BY DEF IInv, Typed
<1>2. /\ r \in Runs /\ r.blocked /\ r.checkpoint = run.checkpoint /\ r.phase = run.phase
      /\ r.i = run.i /\ r.at = run.at
  BY <1>1 DEF Runs
<1>3. /\ run.phase \in {"quiesce", "vet", "quarantine"} /\ run.i \in DOMAIN Walk
      /\ DOMAIN Walk = 1..Len(Walk) /\ Len(Walk) \in Nat
  BY UnitFacts, WalkFacts
<1>4. run' = IF run.phase = "quiesce"
             THEN IF run.checkpoint THEN NextUnit(r) ELSE Enter(r, "vet", "observe")
             ELSE IF run.checkpoint THEN Enter(r, "reprobe", "audit") ELSE [r EXCEPT !.at = "refused"]
  BY DEF Broken
<1> HIDE DEF r
<1>5. CASE run.phase = "quiesce" /\ run.checkpoint /\ run.i < Len(Walk)
  <2>1. run' = [r EXCEPT !.i = run.i + 1, !.at = "observe", !.ident = Nobody]
    BY <1>2, <1>4, <1>5 DEF NextUnit
  <2>2. Nobody \in Identities BY PidFacts DEF Nobody, Identities
  <2>3. /\ run' \in Runs /\ run'.i = run.i + 1 /\ run'.at = "observe" /\ run'.phase = run.phase
        /\ run'.checkpoint = run.checkpoint /\ run'.blocked = TRUE
    <3>1. run.i + 1 \in Nat /\ "observe" \in BindPlaces BY <1>3 DEF BindPlaces
    <3> QED BY <1>2, <2>1, <2>2, <3>1 DEF Runs
  <2>4. Walk' = Walk BY <2>3 DEF Walk
  <2>5. run.i + 1 \in DOMAIN Walk BY <1>3, <1>5
  <2> QED BY <1>3, <1>5, <2>3, <2>4, <2>5 DEF Onward
<1>6. CASE run.phase = "quiesce" /\ run.checkpoint /\ ~ run.i < Len(Walk)
  <2>1. run' = Enter(r, "probe", "audit") BY <1>2, <1>4, <1>6 DEF NextUnit, EndPhase
  <2>2. /\ run' \in Runs /\ run'.phase = "probe" /\ run'.at = "audit"
        /\ run'.checkpoint = run.checkpoint /\ run'.blocked = TRUE
    BY <1>2, <2>1, EnterFacts DEF Phases
  <2> QED BY <1>6, <2>2 DEF Onward
<1>7. CASE run.phase = "quiesce" /\ ~ run.checkpoint
  <2>1. run' = Enter(r, "vet", "observe") BY <1>4, <1>7
  <2>2. /\ run' \in Runs /\ run'.phase = "vet" /\ run'.i = 1 /\ run'.at = "observe"
        /\ run'.checkpoint = run.checkpoint /\ run'.blocked = TRUE
    BY <1>2, <2>1, EnterFacts DEF Phases, Runs
  <2>3. Walk' = Order BY <2>2 DEF Walk
  <2> QED BY <1>7, <2>2, <2>3, WalkFacts DEF Onward
<1>8. CASE run.phase # "quiesce" /\ run.checkpoint
  <2>1. run' = Enter(r, "reprobe", "audit") BY <1>4, <1>8
  <2>2. /\ run' \in Runs /\ run'.phase = "reprobe" /\ run'.at = "audit"
        /\ run'.checkpoint = run.checkpoint /\ run'.blocked = TRUE
    BY <1>2, <2>1, EnterFacts DEF Phases, Runs
  <2> QED BY <1>3, <1>8, <2>2 DEF Onward
<1>9. CASE run.phase # "quiesce" /\ ~ run.checkpoint
  <2>1. run' = [r EXCEPT !.at = "refused"] BY <1>4, <1>9
  <2>2. /\ run' \in Runs /\ run'.phase = run.phase /\ run'.at = "refused"
        /\ run'.checkpoint = run.checkpoint /\ run'.blocked = TRUE
    BY <1>2, <2>1 DEF Runs
  <2> QED BY <1>3, <1>9, <2>2 DEF Onward
<1> QED BY <1>5, <1>6, <1>7, <1>8, <1>9

LEMMA UnitEnds ==
  ASSUME IInv, Looks, run.at \in BindPlaces, Go(Broken) \/ Go(NextUnit(run))
  PROVE  IInv'
  BY BrokenOnward, NextUnitOnward, OnwardSound DEF Go

-----------------------------------------------------------------------------
(* A launcher is bound. *)
LEMMA ObserveStep == ASSUME IInv, Observe PROVE IInv'
<1>1. run.at = "observe" /\ run.at \in BindPlaces /\ Looks /\ moves' = moves /\ run \in Runs
  BY DEF Observe, At, Go, BindPlaces, IInv, Typed
<1>2. units[U].pid \in 0..N BY <1>1, UnitFacts DEF UnitStates
<1>3. Nobody \in Identities /\ Nobody.pid = 0 BY PidFacts DEF Nobody, Identities
<1>4. CASE Active(U)
  <2> DEFINE id == [Nobody EXCEPT !.pid = units[U].pid]
  <2>1. run' = [run EXCEPT !.at = "start", !.ident = id] BY <1>4 DEF Observe, Go
  <2>2. id \in Identities /\ id.pid = units[U].pid BY <1>2, <1>3 DEF Identities
  <2> HIDE DEF id
  <2>3. /\ run' \in Runs /\ run'.at = "start" /\ run'.ident = id /\ run'.phase = run.phase
        /\ run'.i = run.i /\ run'.checkpoint = run.checkpoint /\ run'.blocked = run.blocked
    BY <1>1, <2>1, <2>2 DEF Runs, BindPlaces
  <2>4. id.pid \in Pids BY <1>2, <1>4, <2>2, PidFacts DEF Active
  <2>5. Binding' /\ Stopping' BY <2>3, <2>4 DEF Binding, Stopping
  <2>6. "start" \in BindPlaces BY DEF BindPlaces
  <2> QED BY <1>1, <2>3, <2>5, <2>6, BindsOn
<1>5. CASE ~ Active(U)
  <2>1. run' = [run EXCEPT !.at = "bound", !.ident = Nobody] BY <1>5 DEF Observe, Go
  <2>2. /\ run' \in Runs /\ run'.at = "bound" /\ run'.ident = Nobody /\ run'.phase = run.phase
        /\ run'.i = run.i /\ run'.checkpoint = run.checkpoint /\ run'.blocked = run.blocked
    BY <1>1, <1>3, <2>1 DEF Runs, BindPlaces
  <2>3. Binding' /\ Stopping' BY <1>3, <2>2 DEF Binding, Stopping
  <2>4. "bound" \in BindPlaces BY DEF BindPlaces
  <2> QED BY <1>1, <2>2, <2>3, <2>4, BindsOn
<1> QED BY <1>4, <1>5

(* What is read of the main process. *)
LEMMA MainFacts ==
  ASSUME IInv, run.at \in {"start", "exe", "group", "again"}
  PROVE  /\ run \in Runs /\ run.at \in BindPlaces /\ run.ident \in Identities
         /\ Main \in Processes /\ Main.life \in Nat /\ Main.life < moves + 2 /\ moves \in Nat
<1>1. run \in Runs /\ procs \in [Pids -> Processes] /\ moves \in Nat BY DEF IInv, Typed
<1>2. run.ident.pid \in Pids BY DEF IInv, Binding
<1>3. Main \in Processes BY <1>1, <1>2 DEF Main
<1>4. Main.life < moves + 2 BY <1>2 DEF Main, IInv, Machine, Aged
<1> QED BY <1>1, <1>3, <1>4 DEF Runs, Processes, BindPlaces

LEMMA ReadStartStep == ASSUME IInv, ReadStart PROVE IInv'
<1>1. run.at = "start" /\ Looks /\ moves' = moves BY DEF ReadStart, At, Go
<1>2. /\ run \in Runs /\ run.at \in BindPlaces /\ run.ident \in Identities
      /\ Main.life \in Nat /\ Main.life < moves + 2 /\ moves \in Nat
  BY <1>1, MainFacts
<1>3. CASE Main.life = 0 BY <1>1, <1>2, <1>3, UnitEnds DEF ReadStart, Go
<1>4. CASE Main.life # 0
  <2> DEFINE id == [run.ident EXCEPT !.start = Main.life]
  <2>1. run' = [run EXCEPT !.at = "exe", !.ident = id] BY <1>4 DEF ReadStart, Go
  <2>2. id \in Identities /\ id.pid = run.ident.pid /\ id.start = Main.life BY <1>2 DEF Identities
  <2> HIDE DEF id
  <2>3. /\ run' \in Runs /\ run'.at = "exe" /\ run'.ident = id /\ run'.phase = run.phase
        /\ run'.i = run.i /\ run'.checkpoint = run.checkpoint /\ run'.blocked = run.blocked
    BY <1>2, <2>1, <2>2 DEF Runs, BindPlaces
  <2>4. Main.life \in 1..(moves + 1) BY <1>2, <1>4
  <2>5. id.pid \in Pids BY <1>1, <2>2 DEF IInv, Binding
  <2>6. Binding' BY <1>1, <2>2, <2>3, <2>4, <2>5 DEF Binding
  <2>7. Stopping' BY <2>3 DEF Stopping
  <2>8. "exe" \in BindPlaces BY DEF BindPlaces
  <2> QED BY <1>1, <1>2, <2>3, <2>6, <2>7, <2>8, BindsOn
<1> QED BY <1>3, <1>4

LEMMA ReadExecutableStep == ASSUME IInv, ReadExecutable PROVE IInv'
<1>1. run.at = "exe" /\ Looks /\ moves' = moves BY DEF ReadExecutable, At, Go
<1>2. run \in Runs /\ run.at \in BindPlaces /\ run.ident \in Identities /\ Main.life \in Nat
  BY <1>1, MainFacts
<1>3. CASE Go(Broken) BY <1>1, <1>2, <1>3, UnitEnds
<1>4. CASE ~ Go(Broken)
  <2> DEFINE id == [run.ident EXCEPT !.exeOf = Main.life]
  <2>1. run' = [run EXCEPT !.at = "group", !.ident = id] BY <1>4 DEF ReadExecutable, Go
  <2>2. id \in Identities /\ id.pid = run.ident.pid /\ id.start = run.ident.start /\ id.exeOf = Main.life
    BY <1>2 DEF Identities
  <2> HIDE DEF id
  <2>3. /\ run' \in Runs /\ run'.at = "group" /\ run'.ident = id /\ run'.phase = run.phase
        /\ run'.i = run.i /\ run'.checkpoint = run.checkpoint /\ run'.blocked = run.blocked
    BY <1>2, <2>1, <2>2 DEF Runs, BindPlaces
  <2>4. Main' = Main BY <1>1, <2>2, <2>3 DEF Main, Looks
  <2>5. Binding' BY <1>1, <2>2, <2>3, <2>4 DEF IInv, Binding
  <2>6. Stopping' BY <2>3 DEF Stopping
  <2>7. "group" \in BindPlaces BY DEF BindPlaces
  <2> QED BY <1>1, <1>2, <2>3, <2>5, <2>6, <2>7, BindsOn
<1> QED BY <1>3, <1>4

LEMMA ReadGroupStep == ASSUME IInv, ReadGroup PROVE IInv'
<1>1. run.at = "group" /\ Looks /\ moves' = moves BY DEF ReadGroup, At, Go
<1>2. run \in Runs /\ run.at \in BindPlaces /\ run.ident \in Identities /\ Main.life \in Nat
  BY <1>1, MainFacts
<1>3. CASE Go(Broken) BY <1>1, <1>2, <1>3, UnitEnds
<1>4. CASE ~ Go(Broken)
  <2> DEFINE id == [run.ident EXCEPT !.groupOf = Main.life]
  <2>1. run' = [run EXCEPT !.at = "again", !.ident = id] BY <1>4 DEF ReadGroup, Go
  <2>2. /\ id \in Identities /\ id.pid = run.ident.pid /\ id.start = run.ident.start
        /\ id.exeOf = run.ident.exeOf /\ id.groupOf = Main.life
    BY <1>2 DEF Identities
  <2> HIDE DEF id
  <2>3. /\ run' \in Runs /\ run'.at = "again" /\ run'.ident = id /\ run'.phase = run.phase
        /\ run'.i = run.i /\ run'.checkpoint = run.checkpoint /\ run'.blocked = run.blocked
    BY <1>2, <2>1, <2>2 DEF Runs, BindPlaces
  <2>4. Main' = Main BY <1>1, <2>2, <2>3 DEF Main, Looks
  <2>5. Binding' BY <1>1, <2>2, <2>3, <2>4 DEF IInv, Binding
  <2>6. Stopping' BY <2>3 DEF Stopping
  <2>7. "again" \in BindPlaces BY DEF BindPlaces
  <2> QED BY <1>1, <1>2, <2>3, <2>5, <2>6, <2>7, BindsOn
<1> QED BY <1>3, <1>4

(* From l to l about the same launcher, with what was read. *)
LEMMA PlaceFacts ==
  ASSUME IInv, NEW l \in BindPlaces, run' = [run EXCEPT !.at = l]
  PROVE  /\ run' \in Runs /\ run'.at = l /\ run'.ident = run.ident /\ run'.phase = run.phase
         /\ run'.i = run.i /\ run'.checkpoint = run.checkpoint /\ run'.blocked = run.blocked
         /\ U' = U
<1>1. /\ run' \in Runs /\ run'.at = l /\ run'.ident = run.ident /\ run'.phase = run.phase
      /\ run'.i = run.i /\ run'.checkpoint = run.checkpoint /\ run'.blocked = run.blocked
  BY DEF IInv, Typed, Runs
<1> QED BY <1>1 DEF U, Walk

LEMMA ReadStartAgainStep == ASSUME IInv, ReadStartAgain PROVE IInv'
<1>1. run.at = "again" /\ Looks /\ moves' = moves BY DEF ReadStartAgain, At, Go
<1>2. run.at \in BindPlaces /\ "bound" \in BindPlaces BY <1>1 DEF BindPlaces
<1>3. CASE Go(Broken) BY <1>1, <1>2, <1>3, UnitEnds
<1>4. CASE ~ Go(Broken)
  <2>1. run' = [run EXCEPT !.at = "bound"] /\ Main.life = run.ident.start
    BY <1>4 DEF ReadStartAgain, Go
  <2>2. run' \in Runs /\ run'.at = "bound" /\ run'.ident = run.ident
    BY <1>2, <2>1, PlaceFacts
  <2>3. Binding' BY <1>1, <2>1, <2>2 DEF IInv, Binding
  <2>4. Stopping' BY <2>2 DEF Stopping
  <2> QED BY <1>1, <1>2, <2>1, <2>3, <2>4, PlaceFacts, BindsOn
<1> QED BY <1>3, <1>4

LEMMA BoundStep == ASSUME IInv, Bound PROVE IInv'
<1>1. run.at = "bound" /\ Looks /\ moves' = moves BY DEF Bound, At, Go
<1>2. run.at \in BindPlaces /\ {"mask", "stop"} \subseteq BindPlaces BY <1>1 DEF BindPlaces
<1>3. CASE Go(NextUnit(run)) BY <1>1, <1>2, <1>3, UnitEnds
<1>4. CASE ~ Go(NextUnit(run))
  <2>1. PICK l \in {"mask", "stop"} :
          run' = [run EXCEPT !.at = l] /\ (run.phase = "quarantine" <=> l = "mask")
    BY <1>4 DEF Bound, Go
  <2>2. run' \in Runs /\ run'.at = l /\ run'.ident = run.ident /\ run'.phase = run.phase
    BY <1>2, <2>1, PlaceFacts
  <2>3. Binding' BY <1>1, <2>1, <2>2 DEF IInv, Binding
  <2>4. Stopping' BY <2>1, <2>2 DEF Stopping
  <2> QED BY <1>1, <1>2, <2>1, <2>3, <2>4, PlaceFacts, BindsOn
<1> QED BY <1>3, <1>4

-----------------------------------------------------------------------------
(* A launcher is masked and stopped. *)
LEMMA MaskStep == ASSUME IInv, Mask PROVE IInv'
<1>1. /\ run.at = "mask" /\ run.at \in BindPlaces /\ "masked" \in BindPlaces
      /\ UNCHANGED <<procs, since, moves>>
  BY DEF Mask, At, Go, BindPlaces
<1>2. CASE UNCHANGED units /\ Go(Broken)
  BY <1>1, <1>2, UnitEnds DEF Looks
<1>3. CASE units' = [units EXCEPT ![U].masked = TRUE] /\ run' = [run EXCEPT !.at = "masked"]
  <2>1. U \in Launchers /\ units[U] \in UnitStates BY <1>1, UnitFacts
  <2>2. /\ run' \in Runs /\ run'.at = "masked" /\ run'.ident = run.ident /\ run'.phase = run.phase
        /\ run'.i = run.i /\ run'.checkpoint = run.checkpoint /\ run'.blocked = run.blocked /\ U' = U
    BY <1>1, <1>3, PlaceFacts
  <2>3. run.phase = "quarantine" BY <1>1 DEF IInv, Placed
  <2>4. units \in [Launchers -> UnitStates] BY DEF IInv, Typed
  <2>5. [units[U] EXCEPT !.masked = TRUE] \in UnitStates BY <2>1 DEF UnitStates
  <2>6. /\ units' \in [Launchers -> UnitStates] /\ units'[U] = [units[U] EXCEPT !.masked = TRUE]
        /\ \A u \in Launchers \ {U} : units'[u] = units[u]
    BY <1>3, <2>1, <2>4, <2>5
  <2>7. \A u \in Launchers : units'[u].pid = units[u].pid BY <2>1, <2>6 DEF UnitStates
  <2>8. units'[U].masked BY <2>1, <2>6 DEF UnitStates
  <2>9. Typed' BY <1>1, <2>2, <2>6 DEF IInv, Typed
  <2>10. Walk' = Walk BY <2>2 DEF Walk
  <2>11. Placed' BY <1>1, <2>2, <2>3, <2>10 DEF IInv, Placed, SearchPlaces, BindPlaces
  <2>12. Machine' BY <1>1, <2>7 DEF IInv, Machine, Aged, Served, Here
  <2>13. Binding' BY <1>1, <2>2 DEF IInv, Binding
  <2>14. Stopping' BY <2>2, <2>8 DEF Stopping
  <2>15. Searching' BY <1>1, <2>2, <2>3 DEF IInv, Searching, Holds
  <2>16. Asking' BY <1>1, <2>2, <2>3 DEF IInv, Asking, Left, Lives, Boxes
  <2>17. Closed' BY <2>2, <2>3 DEF Closed
  <2> QED BY <2>9, <2>11, <2>12, <2>13, <2>14, <2>15, <2>16, <2>17 DEF IInv
<1> QED BY <1>2, <1>3 DEF Mask, Go

LEMMA RevalidateStep == ASSUME IInv, Revalidate PROVE IInv'
<1>1. /\ run.at = "masked" /\ run.at \in BindPlaces /\ "stop" \in BindPlaces
      /\ Looks /\ moves' = moves
  BY DEF Revalidate, At, Go, BindPlaces
<1>2. CASE Go(NextUnit(run)) \/ Go(Broken) BY <1>1, <1>2, UnitEnds
<1>3. CASE ~ (Go(NextUnit(run)) \/ Go(Broken))
  <2>1. /\ run' = [run EXCEPT !.at = "stop"] /\ run.ident.pid # 0
        /\ Main.life = run.ident.start /\ Main.exe = "trusted" /\ Main.unit = U
    BY <1>3 DEF Revalidate, Go
  <2>2. run' \in Runs /\ run'.at = "stop" /\ run'.ident = run.ident /\ run'.phase = run.phase /\ U' = U
    BY <1>1, <2>1, PlaceFacts
  <2>3. U \in Launchers BY <1>1, UnitFacts
  <2>4. run.ident.pid \in Pids
    BY <2>1, PidFacts DEF IInv, Typed, Runs, Identities
  <2>5. units[U].pid = run.ident.pid
    BY <2>1, <2>3, <2>4 DEF IInv, Machine, Served, Here, Main
  <2>6. units[U].masked BY <1>1 DEF IInv, Stopping
  <2>7. Binding' BY <1>1, <2>2 DEF IInv, Binding
  <2>8. Stopping' BY <1>1, <2>1, <2>2, <2>5, <2>6 DEF Stopping, Looks, Active, Main
  <2> QED BY <1>1, <2>1, <2>7, <2>8, PlaceFacts, BindsOn
<1> QED BY <1>2, <1>3

LEMMA StoppedStep == ASSUME IInv, Stopped PROVE IInv'
<1>1. run.at \in BindPlaces /\ Looks /\ moves' = moves /\ (Go(Broken) \/ Go(NextUnit(run)))
  BY DEF Stopped, At, Go, BindPlaces
<1> QED BY <1>1, UnitEnds

(* The processes of a unit are gone; nothing else moves. *)
LEMMA StopStep == ASSUME IInv, Stop PROVE IInv'
<1>1. run.at = "stop" /\ run.at \in BindPlaces /\ "stopped" \in BindPlaces /\ moves' = moves
  BY DEF Stop, At, Go, BindPlaces
<1>2. CASE UNCHANGED <<procs, units, since>> /\ Go(Broken)
  BY <1>1, <1>2, UnitEnds DEF Looks
<1>3. CASE /\ procs' = [p \in Pids |-> IF p \in Ended(U) THEN Absent ELSE procs[p]]
           /\ units' = [units EXCEPT ![U].pid = 0]
           /\ since' = [since EXCEPT !.users = Kept(since.users)]
           /\ run' = [run EXCEPT !.at = "stopped"]
  <2>1. U \in Launchers /\ units[U] \in UnitStates /\ run.phase \in {"quiesce", "vet", "quarantine"}
        /\ run.i \in DOMAIN Walk
    BY <1>1, UnitFacts
  <2>2. /\ run' \in Runs /\ run'.at = "stopped" /\ run'.ident = run.ident /\ run'.phase = run.phase
        /\ run'.i = run.i /\ run'.checkpoint = run.checkpoint /\ run'.blocked = run.blocked /\ U' = U
    BY <1>1, <1>3, PlaceFacts
  <2>3. /\ units \in [Launchers -> UnitStates] /\ procs \in [Pids -> Processes] /\ Served(Here) /\ Aged
        /\ since \in [users : SUBSET Pids, boxes : SUBSET (Pids \X Nat)]
    BY DEF IInv, Typed, Machine
  <2>4. Absent \in Processes /\ Absent.life = 0 /\ Absent.exe = "other" /\ ~ Absent.box
        /\ ~ Absent.fd /\ ~ Absent.map
    BY DEF Absent, Processes
  <2>5. /\ procs' \in [Pids -> Processes]
        /\ \A p \in Pids : /\ p \in Ended(U) => procs'[p] = Absent
                           /\ p \notin Ended(U) => procs'[p] = procs[p]
    BY <1>3, <2>3, <2>4
  <2>6. [units[U] EXCEPT !.pid = 0] \in UnitStates BY <2>1, PidFacts DEF UnitStates
  <2>7. /\ units' \in [Launchers -> UnitStates] /\ units'[U] = [units[U] EXCEPT !.pid = 0]
        /\ \A u \in Launchers \ {U} : units'[u] = units[u]
    BY <1>3, <2>1, <2>3, <2>6
  <2>8. units'[U].pid = 0 BY <2>1, <2>7 DEF UnitStates
  <2>9. since'.users \subseteq since.users /\ since'.boxes = since.boxes
        /\ since' \in [users : SUBSET Pids, boxes : SUBSET (Pids \X Nat)]
        /\ since'.users = Kept(since.users)
    BY <1>3, <2>3 DEF Kept
  <2>10. Typed' BY <1>1, <2>2, <2>5, <2>7, <2>9 DEF IInv, Typed
  <2>11. Walk' = Walk BY <2>2 DEF Walk
  <2>12. Placed' BY <2>1, <2>2, <2>11 DEF Placed, SearchPlaces, BindPlaces
  <2>13. Aged'
    BY <1>1, <2>3, <2>4, <2>5 DEF Aged, IInv, Typed
  <2>14. Served(Here)'
    <3> SUFFICES ASSUME NEW u \in Launchers, NEW p \in Pids
                 PROVE  /\ units'[u].pid = p => procs'[p].life # 0 /\ procs'[p].unit = u /\ ~ procs'[p].box
                        /\ procs'[p].unit = u /\ procs'[p].exe = "trusted" => units'[u].pid = p
      BY DEF Served, Here
    <3>1. /\ units[u].pid = p => procs[p].life # 0 /\ procs[p].unit = u /\ ~ procs[p].box
          /\ procs[p].unit = u /\ procs[p].exe = "trusted" => units[u].pid = p
      BY <2>3 DEF Served, Here
    <3>2. CASE u = U
      <4>1. procs[p].unit = U => p \in Ended(U) BY DEF Ended
      <4> QED BY <2>4, <2>5, <2>8, <3>2, <4>1, PidFacts
    <3>3. CASE u # U
      <4>1. units'[u].pid = units[u].pid BY <2>7, <3>3
      <4>2. units[u].pid = p => p \notin Ended(U) BY <3>1, <3>3 DEF Ended
      <4>3. procs'[p].exe = "trusted" => procs'[p] = procs[p] BY <2>4, <2>5
      <4> QED BY <2>5, <3>1, <4>1, <4>2, <4>3
    <3> QED BY <3>2, <3>3
  <2>15. Binding' /\ Stopping' BY <2>2 DEF Binding, Stopping
  <2>16. Searching'
    BY <2>1, <2>2, <2>9 DEF Searching, Kept, Holds
  <2>17. Asking'
    <3>1. Left' \subseteq Left
      BY <2>4, <2>5, <2>9 DEF Left, Lives, Boxes
    <3> QED BY <1>1, <2>1, <2>2, <2>9, <3>1 DEF IInv, Asking
  <2>18. Closed' BY <2>1, <2>2 DEF Closed
  <2> QED BY <2>10, <2>12, <2>13, <2>14, <2>15, <2>16, <2>17, <2>18 DEF IInv, Machine
<1> QED BY <1>2, <1>3 DEF Stop, Go

-----------------------------------------------------------------------------
(* The search. *)

(* On to the next question of the same search. *)
LEMMA SearchesOn ==
  ASSUME IInv, Looks, moves' = moves, run.at \in SearchPlaces \ {"audit"}, run' \in Runs,
         run'.phase = run.phase, run'.checkpoint = run.checkpoint, run'.blocked = run.blocked,
         run'.at \in SearchPlaces \ {"audit"}, Searching', Asking'
  PROVE  IInv'
<1>1. run.phase \in {"probe", "reprobe"} BY DEF IInv, Placed
<1>2. run'.at \notin BindPlaces /\ run'.at \notin {"audit", "proceeds"} BY DEF SearchPlaces, BindPlaces
<1>3. Placed' BY <1>1, <1>2 DEF IInv, Placed, BindPlaces
<1>4. Binding' /\ Stopping' BY <1>2 DEF Binding, Stopping, BindPlaces
<1>5. Closed' BY <1>2, LooksFacts DEF IInv, Closed
<1> QED BY <1>3, <1>4, <1>5, LooksSound

(* The search is over: what it saw decides. *)
LEMMA JudgedSound ==
  ASSUME IInv, Looks, moves' = moves, run.at \in SearchPlaces \ {"audit"},
         NEW r \in Runs, r.checkpoint = run.checkpoint, run.blocked => r.blocked,
         run' = Judged(r) \/ run' = [Judged(r) EXCEPT !.listed = {}],
         run.phase = "reprobe" => r.phase = "reprobe" /\ (r.blocked \/ Allowed \/ since.users = {}),
         run.phase = "probe" /\ run.checkpoint => r.blocked \/ Allowed \/ Left = {}
  PROVE  IInv'
<1>1. run.phase \in {"probe", "reprobe"} BY DEF IInv, Placed
<1>2. CASE run.phase = "reprobe"
  <2> DEFINE l == IF r.blocked THEN "refused" ELSE "proceeds"
  <2>1. Judged(r) = [r EXCEPT !.at = l] BY <1>2 DEF Judged
  <2>2. l \in {"refused", "proceeds"} /\ (l = "proceeds" <=> ~ r.blocked) OBVIOUS
  <2> HIDE DEF l
  <2>3. /\ Judged(r) \in Runs /\ Judged(r).at = l /\ Judged(r).phase = "reprobe"
        /\ Judged(r).checkpoint = run.checkpoint /\ Judged(r).blocked = r.blocked
    BY <1>2, <2>1, <2>2 DEF Runs
  <2>4. /\ run' \in Runs /\ run'.at = l /\ run'.phase = "reprobe"
        /\ run'.checkpoint = run.checkpoint /\ run'.blocked = r.blocked
    <3>1. CASE run' = Judged(r) BY <2>3, <3>1
    <3>2. CASE run' = [Judged(r) EXCEPT !.listed = {}] BY <2>3, <3>2 DEF Runs
    <3> QED BY <3>1, <3>2
  <2>5. run'.at \notin BindPlaces \cup SearchPlaces BY <2>2, <2>4 DEF BindPlaces, SearchPlaces
  <2>6. Placed' BY <1>2, <2>2, <2>4, <2>5 DEF IInv, Placed, BindPlaces
  <2>7. Binding' /\ Stopping' BY <2>2, <2>4 DEF Binding, Stopping
  <2>8. Searching' BY <1>2, <2>2, <2>4, LooksFacts DEF IInv, Searching, Looks, Holds
  <2>9. Asking' BY <1>2, <2>2, <2>4, LooksFacts DEF IInv, Asking, Looks
  <2>10. Closed' BY <1>2, <2>2, <2>4, LooksFacts DEF IInv, Closed
  <2> QED BY <2>4, <2>6, <2>7, <2>8, <2>9, <2>10, LooksSound
<1>3. CASE run.phase = "probe"
  <2>1. PICK q \in {r, [r EXCEPT !.checkpoint = TRUE]}, phase \in {"vet", "quiesce"} :
          /\ Judged(r) = Enter(q, phase, "observe")
          /\ phase = "vet" => q = r /\ (run.checkpoint \/ r.blocked)
    BY <1>3 DEF Judged
  <2>2. q \in Runs /\ q.blocked = r.blocked /\ q.checkpoint \in {run.checkpoint, TRUE}
        /\ (q = r => q.checkpoint = run.checkpoint)
    BY <2>1 DEF Runs
  <2>3. /\ Judged(r) \in Runs /\ Judged(r).at = "observe" /\ Judged(r).phase = phase
        /\ Judged(r).i = 1 /\ Judged(r).checkpoint = q.checkpoint /\ Judged(r).blocked = r.blocked
    BY <2>1, <2>2, EnterFacts DEF Phases
  <2>4. /\ run' \in Runs /\ run'.at = "observe" /\ run'.phase = phase
        /\ run'.i = 1 /\ run'.checkpoint = q.checkpoint /\ run'.blocked = r.blocked
    <3>1. CASE run' = Judged(r) BY <2>3, <3>1
    <3>2. CASE run' = [Judged(r) EXCEPT !.listed = {}] BY <2>3, <3>2 DEF Runs
    <3> QED BY <3>1, <3>2
  <2>5. Walk' = (IF phase = "quiesce" THEN Guarded ELSE Order) BY <2>4 DEF Walk
  <2>6. Placed' BY <2>1, <2>4, <2>5, WalkFacts DEF Placed, BindPlaces, SearchPlaces
  <2>7. Binding' /\ Stopping' BY <2>4 DEF Binding, Stopping
  <2>8. Searching' BY <2>1, <2>4, LooksFacts DEF IInv, Searching, Looks, Holds
  <2>9. Asking' BY <1>3, <2>1, <2>2, <2>4, LooksFacts DEF IInv, Asking, Looks
  <2>10. Closed' BY <2>1, <2>4 DEF Closed
  <2> QED BY <2>4, <2>6, <2>7, <2>8, <2>9, <2>10, LooksSound
<1> QED BY <1>1, <1>2, <1>3

LEMMA UnknownSound ==
  ASSUME IInv, Looks, moves' = moves, run.at \in SearchPlaces \ {"audit"},
         run' = Unknown \/ run' = [Unknown EXCEPT !.listed = {}]
  PROVE  IInv'
<1> DEFINE r == [run EXCEPT !.blocked = TRUE]
<1>1. r \in Runs /\ r.checkpoint = run.checkpoint /\ r.phase = run.phase /\ r.blocked
  BY DEF IInv, Typed, Runs
<1>2. Unknown = Judged(r) BY DEF Unknown
<1> HIDE DEF r
<1> QED BY <1>1, <1>2, JudgedSound

(* The audit opens a search: its users are those of now. *)
LEMMA AuditUnitsStep == ASSUME IInv, AuditUnits PROVE IInv'
<1> DEFINE b == run.blocked \/ (run.phase = "reprobe" /\ Unsafe)
<1>1. /\ run.at = "audit" /\ run.phase \in {"probe", "reprobe"} /\ run.checkpoint
      /\ UNCHANGED <<procs, units, moves>>
      /\ run' = [run EXCEPT !.at = "compute", !.docker = Active("docker"), !.blocked = b]
  BY DEF AuditUnits, At, Go, IInv, Placed, SearchPlaces
<1>2. /\ run \in Runs /\ procs \in [Pids -> Processes] /\ moves \in Nat
      /\ since \in [users : SUBSET Pids, boxes : SUBSET (Pids \X Nat)]
      /\ \A p \in Pids : procs[p].life \in Nat /\ procs[p].life < moves + 2
  BY DEF IInv, Typed, Machine, Aged, Processes
<1>3. b \in BOOLEAN /\ (~ b => ~ run.blocked /\ (run.phase = "reprobe" => ~ Unsafe))
  BY <1>2 DEF Runs
<1> HIDE DEF b
<1>4. /\ run' \in Runs /\ run'.at = "compute" /\ run'.phase = run.phase /\ run'.blocked = b
      /\ run'.checkpoint = run.checkpoint /\ run'.docker = Active("docker")
  <2>1. Active("docker") \in BOOLEAN /\ "compute" \in SearchPlaces BY DEF Active, SearchPlaces
  <2> QED BY <1>1, <1>2, <1>3, <2>1 DEF Runs
<1>5. /\ run.phase = "reprobe" => since'.users = {p \in Pids : Holds(p)} /\ since'.boxes = since.boxes
      /\ run.phase = "probe" => /\ since'.users = since.users
                                /\ since'.boxes = IF Active("docker") THEN Lives(Boxes) ELSE {}
      /\ since' \in [users : SUBSET Pids, boxes : SUBSET (Pids \X Nat)]
  <2>1. Lives(Boxes) \in SUBSET (Pids \X Nat) BY <1>2 DEF Lives, Boxes
  <2>2. {p \in Pids : Holds(p)} \in SUBSET Pids OBVIOUS
  <2> QED BY <1>1, <1>2, <2>1, <2>2 DEF AuditUnits
<1>6. Typed' BY <1>1, <1>4, <1>5 DEF IInv, Typed
<1>7. Placed' BY <1>1, <1>4 DEF Placed, BindPlaces, SearchPlaces
<1>8. Machine' BY <1>1 DEF IInv, Machine, Aged, Served, Here
<1>9. Binding' /\ Stopping' BY <1>4 DEF Binding, Stopping
<1>10. Searching' BY <1>1, <1>4, <1>5 DEF IInv, Searching, Holds
<1>11. Asking'
  <2>1. Lives(Boxes)' = Lives(Boxes) BY <1>1 DEF Lives, Boxes
  <2>2. \A x \in Lives(Boxes) : x[2] < moves + 2 BY <1>2 DEF Lives, Boxes
  <2>3. \A x \in since'.boxes : x[2] < moves' + 2
    BY <1>1, <1>5, <2>2 DEF IInv, Asking
  <2>4. CASE run.phase = "probe" BY <1>4, <1>5, <2>3, <2>4 DEF Asking
  <2>5. CASE run.phase = "reprobe"
    <3>1. Left' = Left BY <1>5, <2>1, <2>5 DEF Left
    <3> QED BY <1>1, <1>3, <1>4, <2>3, <2>5, <3>1 DEF IInv, Asking
  <2> QED BY <1>1, <2>4, <2>5
<1>12. Closed'
  <2>1. Unsafe' <=> Unsafe BY <1>1 DEF Unsafe, Active
  <2> QED BY <1>3, <1>4, <2>1 DEF Closed
<1> QED BY <1>6, <1>7, <1>8, <1>9, <1>10, <1>11, <1>12 DEF IInv

LEMMA ComputeQueryStep == ASSUME IInv, ComputeQuery PROVE IInv'
<1>1. run.at = "compute" /\ run.at \in SearchPlaces \ {"audit"} /\ Looks /\ moves' = moves /\ run \in Runs
  BY DEF ComputeQuery, At, Go, SearchPlaces, IInv, Typed
<1>2. PICK found \in SUBSET Pids : run' = [run EXCEPT !.at = "fds", !.k = 1, !.seen = found]
  BY DEF ComputeQuery, Go
<1>3. /\ run' \in Runs /\ run'.at = "fds" /\ run'.k = 1 /\ run'.phase = run.phase
      /\ run'.checkpoint = run.checkpoint /\ run'.blocked = run.blocked /\ run'.docker = run.docker
  BY <1>1, <1>2, PidFacts DEF Runs, SearchPlaces
<1>4. \A p \in since.users : ~ p < 1 BY PidFacts DEF IInv, Typed
<1>5. Searching' BY <1>1, <1>3, <1>4, LooksFacts DEF IInv, Searching, Looks, Holds
<1>6. Asking' BY <1>1, <1>3, LooksFacts DEF IInv, Asking, Looks
<1> QED BY <1>1, <1>3, <1>5, <1>6, SearchesOn DEF SearchPlaces

(* A process that is passed by without note uses nothing, or is no user from before. *)
LEMMA NextProcessSound ==
  ASSUME IInv, Looks, run.at \in {"fds", "maps"}, NEW uses \in BOOLEAN, Go(NextProcess(uses)),
         run.phase = "reprobe" /\ run.k \in since.users => uses
  PROVE  IInv'
<1> DEFINE seen == IF uses THEN run.seen \cup {run.k} ELSE run.seen
           r == [run EXCEPT !.seen = seen]
<1>1. /\ run \in Runs /\ run.k \in Pids /\ run.seen \in SUBSET Pids /\ run.at \in SearchPlaces \ {"audit"}
      /\ moves' = moves /\ since.users \subseteq Pids
  BY DEF IInv, Typed, Runs, SearchPlaces, Go
<1>2. seen \in SUBSET Pids /\ run.seen \subseteq seen /\ (uses => run.k \in seen) BY <1>1
<1>3. NextProcess(uses) = IF run.k < N THEN [r EXCEPT !.at = "fds", !.k = @ + 1] ELSE [r EXCEPT !.at = "list"]
  BY DEF NextProcess
<1>4. N \in Nat /\ run.k \in 1..N BY <1>1, PidFacts
<1> HIDE DEF seen
<1>5. r \in Runs /\ r.seen = seen /\ r.k = run.k /\ r.phase = run.phase /\ r.docker = run.docker
      /\ r.checkpoint = run.checkpoint /\ r.blocked = run.blocked
  BY <1>1, <1>2 DEF Runs
<1> HIDE DEF r
<1>6. CASE run.k < N
  <2>1. run' = [r EXCEPT !.at = "fds", !.k = run.k + 1] BY <1>3, <1>5, <1>6 DEF Go
  <2>2. run.k + 1 \in Pids BY <1>4, <1>6, PidFacts
  <2>3. /\ run' \in Runs /\ run'.at = "fds" /\ run'.k = run.k + 1 /\ run'.seen = seen
        /\ run'.phase = run.phase /\ run'.docker = run.docker
        /\ run'.checkpoint = run.checkpoint /\ run'.blocked = run.blocked
    BY <1>5, <2>1, <2>2 DEF Runs, SearchPlaces
  <2>4. \A p \in since.users : p < run.k + 1 => p < run.k \/ p = run.k
    BY <1>1, <1>4, PidFacts
  <2>5. Searching' BY <1>2, <2>3, <2>4, LooksFacts DEF IInv, Searching, Looks, Holds
  <2>6. Asking' BY <1>1, <2>3, LooksFacts DEF IInv, Asking, Looks
  <2> QED BY <1>1, <2>3, <2>5, <2>6, SearchesOn DEF SearchPlaces
<1>7. CASE ~ run.k < N
  <2>1. run' = [r EXCEPT !.at = "list"] BY <1>3, <1>7 DEF Go
  <2>2. /\ run' \in Runs /\ run'.at = "list" /\ run'.seen = seen
        /\ run'.phase = run.phase /\ run'.docker = run.docker
        /\ run'.checkpoint = run.checkpoint /\ run'.blocked = run.blocked
    BY <1>5, <2>1 DEF Runs, SearchPlaces
  <2>3. \A p \in since.users : p < run.k \/ p = run.k
    BY <1>1, <1>4, <1>7, PidFacts
  <2>4. Searching' BY <1>2, <2>2, <2>3, LooksFacts DEF IInv, Searching, Looks, Holds
  <2>5. Asking' BY <1>1, <2>2, LooksFacts DEF IInv, Asking, Looks
  <2> QED BY <1>1, <2>2, <2>4, <2>5, SearchesOn DEF SearchPlaces
<1> QED BY <1>6, <1>7

LEMMA ScanStep == ASSUME IInv, ScanDescriptors \/ ScanMappings \/ ScanGivesUp PROVE IInv'
<1>1. /\ run.at \in {"fds", "maps"} /\ run.at \in SearchPlaces \ {"audit"} /\ Looks
      /\ moves' = moves /\ run \in Runs /\ run.k \in Pids /\ procs[run.k] \in Processes
  BY DEF ScanDescriptors, ScanMappings, ScanGivesUp, At, Go, SearchPlaces, IInv, Typed, Runs
<1>2. procs[run.k].life = 0 => ~ procs[run.k].fd /\ ~ procs[run.k].map
  BY <1>1 DEF IInv, Machine, Aged, Absent
<1>3. run.k \in since.users => procs[run.k].fd \/ procs[run.k].map
  BY DEF IInv, Searching, Holds
<1>4. /\ procs[run.k].fd \in BOOLEAN /\ procs[run.k].map \in BOOLEAN
      /\ Part("fds") = procs[run.k].fd /\ Part("maps") = procs[run.k].map
  BY <1>1 DEF Processes, Part
<1>5. CASE ScanDescriptors /\ (Part("fds") \/ ~ Alive(run.k))
  BY <1>1, <1>2, <1>3, <1>4, <1>5, NextProcessSound DEF ScanDescriptors, Alive
<1>6. CASE ScanDescriptors /\ ~ (Part("fds") \/ ~ Alive(run.k))
  <2>1. run' = [run EXCEPT !.at = "maps"] /\ ~ procs[run.k].fd /\ run.at = "fds"
    BY <1>4, <1>6 DEF ScanDescriptors, Go, At
  <2>2. /\ run' \in Runs /\ run'.at = "maps" /\ run'.k = run.k /\ run'.seen = run.seen
        /\ run'.phase = run.phase /\ run'.docker = run.docker
        /\ run'.checkpoint = run.checkpoint /\ run'.blocked = run.blocked
    BY <1>1, <2>1 DEF Runs, SearchPlaces
  <2>3. Searching' BY <2>1, <2>2, <1>1, LooksFacts DEF IInv, Searching, Looks, Holds
  <2>4. Asking' BY <1>1, <2>1, <2>2, LooksFacts DEF IInv, Asking, Looks
  <2> QED BY <1>1, <2>2, <2>3, <2>4, SearchesOn DEF SearchPlaces
<1>7. CASE ScanMappings
  <2>1. run.at = "maps" BY <1>7 DEF ScanMappings, At
  <2>2. run.phase = "reprobe" /\ run.k \in since.users => procs[run.k].map
    BY <1>3, <2>1 DEF IInv, Searching
  <2> QED BY <1>1, <1>4, <1>7, <2>2, NextProcessSound DEF ScanMappings
<1>8. CASE ScanGivesUp BY <1>1, <1>8, UnknownSound DEF ScanGivesUp, Go
<1> QED BY <1>5, <1>6, <1>7, <1>8

LEMMA ListContainersStep == ASSUME IInv, ListContainers PROVE IInv'
<1>1. run.at = "list" /\ run.at \in SearchPlaces \ {"audit"} /\ Looks /\ moves' = moves /\ run \in Runs
  BY DEF ListContainers, At, Go, SearchPlaces, IInv, Typed
<1>2. CASE ~ run.docker
  <2>1. run' = [run EXCEPT !.at = "judge"] BY <1>2 DEF ListContainers, Go
  <2>2. /\ run' \in Runs /\ run'.at = "judge" /\ run'.seen = run.seen
        /\ run'.phase = run.phase /\ run'.docker = run.docker
        /\ run'.checkpoint = run.checkpoint /\ run'.blocked = run.blocked
    BY <1>1, <2>1 DEF Runs, SearchPlaces
  <2>3. Searching' BY <1>1, <2>2, LooksFacts DEF IInv, Searching, Looks, Holds
  <2>4. run.phase = "probe" /\ run.checkpoint => Left = {} BY <1>1, <1>2 DEF IInv, Asking, Left
  <2>5. Asking' BY <1>1, <2>2, <2>4, LooksFacts DEF IInv, Asking, Looks
  <2> QED BY <1>1, <2>2, <2>3, <2>5, SearchesOn DEF SearchPlaces
<1>3. CASE run.docker /\ Active("docker")
  <2>1. run' = [run EXCEPT !.at = "inspect", !.listed = Lives(Boxes)] BY <1>3 DEF ListContainers, Go
  <2>2. Lives(Boxes) \in SUBSET (Pids \X Nat) BY DEF IInv, Typed, Processes, Lives, Boxes
  <2>3. /\ run' \in Runs /\ run'.at = "inspect" /\ run'.seen = run.seen /\ run'.listed = Lives(Boxes)
        /\ run'.phase = run.phase /\ run'.docker = run.docker
        /\ run'.checkpoint = run.checkpoint /\ run'.blocked = run.blocked
    BY <1>1, <2>1, <2>2 DEF Runs, SearchPlaces
  <2>4. Searching' BY <1>1, <2>3, LooksFacts DEF IInv, Searching, Looks, Holds
  <2>5. Left \subseteq Lives(Boxes) BY DEF Left
  <2>6. Asking' BY <1>1, <2>3, <2>5, LooksFacts DEF IInv, Asking, Looks
  <2> QED BY <1>1, <2>3, <2>4, <2>6, SearchesOn DEF SearchPlaces
<1>4. CASE run.docker /\ ~ Active("docker")
  BY <1>1, <1>4, UnknownSound DEF ListContainers, Go
<1> QED BY <1>2, <1>3, <1>4

LEMMA InspectContainersStep == ASSUME IInv, InspectContainers PROVE IInv'
<1>1. run.at = "inspect" /\ run.at \in SearchPlaces \ {"audit"} /\ Looks /\ moves' = moves /\ run \in Runs
  BY DEF InspectContainers, At, Go, SearchPlaces, IInv, Typed
<1>2. CASE Active("docker") /\ run.listed \subseteq Lives(Boxes)
  <2> DEFINE seen == run.seen \cup {x[1] : x \in run.listed}
  <2>1. run' = [run EXCEPT !.at = "judge", !.listed = {}, !.seen = seen]
    BY <1>2 DEF InspectContainers, Go
  <2>2. seen \in SUBSET Pids BY <1>1 DEF Runs
  <2>3. run.seen \subseteq seen /\ (seen = {} => run.listed = {}) OBVIOUS
  <2> HIDE DEF seen
  <2>4. /\ run' \in Runs /\ run'.at = "judge" /\ run'.seen = seen
        /\ run'.phase = run.phase /\ run'.docker = run.docker
        /\ run'.checkpoint = run.checkpoint /\ run'.blocked = run.blocked
    BY <1>1, <2>1, <2>2 DEF Runs, SearchPlaces
  <2>5. Searching' BY <1>1, <2>3, <2>4, LooksFacts DEF IInv, Searching, Looks, Holds
  <2>6. Asking' BY <1>1, <2>3, <2>4, LooksFacts DEF IInv, Asking, Looks
  <2> QED BY <1>1, <2>4, <2>5, <2>6, SearchesOn DEF SearchPlaces
<1>3. CASE ~ (Active("docker") /\ run.listed \subseteq Lives(Boxes))
  BY <1>1, <1>3, UnknownSound DEF InspectContainers, Go
<1> QED BY <1>2, <1>3

LEMMA JudgeStep == ASSUME IInv, Judge PROVE IInv'
<1> DEFINE b == run.blocked \/ (run.seen # {} /\ ~ Allowed)
           r == [run EXCEPT !.blocked = b, !.seen = {}]
<1>1. run.at = "judge" /\ run.at \in SearchPlaces \ {"audit"} /\ Looks /\ moves' = moves /\ run \in Runs
  BY DEF Judge, At, Go, SearchPlaces, IInv, Typed
<1>2. b \in BOOLEAN BY <1>1 DEF Runs
<1>3. /\ r \in Runs /\ r.blocked = b /\ r.checkpoint = run.checkpoint /\ r.phase = run.phase
  BY <1>1, <1>2 DEF Runs
<1>4. run' = Judged(r) BY DEF Judge, Go
<1>5. ~ b => ~ run.blocked /\ (run.seen = {} \/ Allowed) OBVIOUS
<1> HIDE DEF b, r
<1>6. run.phase = "reprobe" => b \/ Allowed \/ since.users = {}
  BY <1>1, <1>5 DEF IInv, Searching
<1>7. run.phase = "probe" /\ run.checkpoint => b \/ Allowed \/ Left = {}
  BY <1>1, <1>5 DEF IInv, Asking
<1>8. run.blocked => b BY DEF b
<1> QED BY <1>1, <1>3, <1>4, <1>6, <1>7, <1>8, JudgedSound

-----------------------------------------------------------------------------
(* The theorems. *)
LEMMA InitSound == ASSUME Init PROVE IInv
<1>1. PICK m \in Machines : procs = m.procs /\ units = m.units BY DEF Init
<1>2. /\ procs \in [Pids -> Processes] /\ units \in [Launchers -> UnitStates]
      /\ \A p \in Pids : procs[p].life = 1 \/ procs[p] = Absent
      /\ Served(m)
  BY <1>1, GuardAssumption
<1>3. Nobody \in Identities BY PidFacts DEF Nobody, Identities
<1>4. run \in Runs /\ moves = 0 /\ since = [users |-> {}, boxes |-> {}]
      /\ run.at = "observe" /\ run.phase = "quiesce" /\ run.i = 1
  BY <1>3, PidFacts DEF Init, Runs, Phases, BindPlaces, Active
<1>5. Walk = Guarded BY <1>4 DEF Walk
<1>6. Typed BY <1>2, <1>4 DEF Typed
<1>7. Placed BY <1>4, <1>5, WalkFacts DEF Placed, BindPlaces, SearchPlaces
<1>8. Machine
  <2>1. Aged BY <1>2, <1>4 DEF Aged, Absent
  <2> QED BY <1>1, <1>2, <2>1 DEF Machine, Served, Here
<1>9. Binding /\ Stopping /\ Searching /\ Asking /\ Closed
  BY <1>4 DEF Binding, Stopping, Searching, Asking, Closed
<1> QED BY <1>6, <1>7, <1>8, <1>9 DEF IInv

LEMMA NextSound == ASSUME IInv, [Next]_guardVars PROVE IInv'
<1>1. CASE UNCHANGED guardVars
  BY <1>1 DEF guardVars, IInv, Typed, Placed, Walk, Machine, Aged, Served, Here, Binding, Main, Stopping,
     U, Active, Searching, Holds, Asking, Left, Lives, Boxes, Closed, Unsafe
<1>2. CASE Next
  BY <1>2, ProcessStep, ObserveStep, ReadStartStep, ReadExecutableStep, ReadGroupStep,
     ReadStartAgainStep, BoundStep, MaskStep, RevalidateStep, StopStep, StoppedStep, AuditUnitsStep,
     ComputeQueryStep, ScanStep, ListContainersStep, InspectContainersStep, JudgeStep
     DEF Next, Program
<1> QED BY <1>1, <1>2

(* What the gate and the checkpoint know of processes and units stays true, read by read. *)
THEOREM Invariance == Spec => []IInv
<1>1. Init => IInv BY InitSound
<1>2. IInv /\ [Next]_guardVars => IInv' BY NextSound
<1> QED BY <1>1, <1>2, PTL DEF Spec

(* An operation goes on only with every launcher down and masked, no GPU user from *)
(* before the second search and no container from before the checkpoint.           *)
THEOREM ProceedsIdle == Spec => []IdleBehindMasks
<1>1. IInv => IdleBehindMasks
  BY DEF IInv, Searching, Asking, Placed, Closed, Left, IdleBehindMasks, At
<1> QED BY <1>1, Invariance, PTL

(* What was read of a service's process was read of one process. *)
THEOREM BindsOne == Spec => []OneProcessIsBound
<1>1. IInv => OneProcessIsBound BY DEF IInv, Binding, OneProcessIsBound, At
<1> QED BY <1>1, Invariance, PTL

(* The quarantine stops the process it authenticated before the mask, or none. *)
THEOREM StopsBound == Spec => StopsTheBound
<1>1. IInv =>
        [/\ At("stop") /\ run.phase = "quarantine" /\ run'.at = "stopped" /\ Active(U)
         => units[U].pid = run.ident.pid /\ Main.life = run.ident.start]_guardVars
  BY DEF IInv, Stopping, At
<1> QED BY <1>1, Invariance, PTL DEF StopsTheBound
=============================================================================
