------------------------------ MODULE MCGpuGuard ------------------------------
EXTENDS GpuGuard

MCOrder   == <<"docker", "persistenced">>
MCGuarded == <<"persistenced">>

Service(u) == [Absent EXCEPT !.life = 1, !.exe = "trusted", !.unit = u, !.fd = u # "docker"]
User(fd, map) == [Absent EXCEPT !.life = 1, !.fd = fd, !.map = map]
Box == [Absent EXCEPT !.life = 1, !.box = TRUE]
Units(d, p) == [u \in {"docker", "persistenced"} |->
                  [pid |-> IF u = "docker" THEN d ELSE p, masked |-> FALSE]]

(* A service beside a process that may use the GPU; docker with a GPU container. *)
MCMachines ==
  {[procs |-> <<Service("persistenced"), User(TRUE, FALSE)>>, units |-> Units(0, 1)],
   [procs |-> <<User(FALSE, TRUE), Service("docker")>>, units |-> Units(2, 0)],
   [procs |-> <<User(FALSE, FALSE), Absent>>, units |-> Units(0, 0)],
   [procs |-> <<Service("docker"), Box>>, units |-> Units(1, 0)],
   [procs |-> <<Service("persistenced"), Service("docker")>>, units |-> Units(2, 1)]}
=============================================================================
