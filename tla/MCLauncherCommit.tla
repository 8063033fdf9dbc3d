--------------------------- MODULE MCLauncherCommit ---------------------------
EXTENDS LauncherCommit

On(s)  == [active |-> TRUE, state |-> s]
Off(s) == [active |-> FALSE, state |-> s]
Any    == {t \in Target : t.active => t.state \notin Inert}

Snapshot(fm, pd, d, s) ==
  [u \in Units |-> IF u = FabricManager THEN fm ELSE IF u = Persistenced THEN pd
                   ELSE IF u = Docker THEN d ELSE s]
Snapshots(F, P, D, S) == {Snapshot(f, p, d, s) : f \in F, p \in P, d \in D, s \in S}

(* Every state of a Docker pair and of one NVIDIA service. *)
AllTargets == Snapshots(Any, {On("enabled"), Off("static")}, Any, Any)

(* Running; stopped but enabled; socket-activated; a masked socket; inert. *)
FewTargets ==
  {Snapshot(On("enabled"),  On("enabled"),  On("enabled"),  On("enabled")),
   Snapshot(Off("enabled"), On("static"),   Off("enabled"), Off("disabled")),
   Snapshot(Off("masked"),  Off("disabled"), Off("disabled"), On("enabled")),
   Snapshot(Off("not-found"), On("enabled"), On("disabled"), Off("masked")),
   Snapshot(Off("masked"), Off("masked"), Off("masked"), Off("masked"))}

MaskedSocket ==
  {Snapshot(On("enabled"), On("enabled"), On("enabled"), Off("masked"))}

BootTarget ==
  {Snapshot(Off("enabled"), On("enabled"), On("enabled"), On("enabled"))}
=============================================================================
