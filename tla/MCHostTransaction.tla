--------------------------- MODULE MCHostTransaction ---------------------------
EXTENDS HostTransaction

MCStopOrder == <<"docker", "persistenced">>

Unit(on) == [active |-> on, file |-> IF on THEN "enabled" ELSE "disabled"]
Machine(packages, build, policy, mig, docker, pd) ==
  [packages |-> packages,
   files    |-> [docker |-> "before", policy |-> policy],
   loaded   |-> [build |-> build, names |-> Modules],
   mig      |-> mig,
   units    |-> [docker |-> Unit(docker), persistenced |-> Unit(pd)]]
Mig(mode, parts) == [mode |-> mode, pending |-> mode, parts |-> parts]
Bare  == Mig("disabled", "none")
Migs  == {Bare} \cup {Mig("enabled", p) : p \in {"none", "full", "part", "split"}}
Empty == Mig("enabled", "none")

(* The old stack; the new one without toolkit; the new one on disk under the old   *)
(* modules, once on a machine that otherwise is as desired; an administrator's     *)
(* policy.                                                                        *)
MCMachines ==
  {Machine({Driver("old")}, "old", "absent", m, TRUE, TRUE) : m \in Migs}
    \cup {Machine({Driver("old")}, "old", "absent", Bare, TRUE, FALSE)}
    \cup {Machine({Driver("new")}, "new", "absent", m, FALSE, TRUE) : m \in {Bare, Mig("enabled", "part")}}
    \cup {Machine({Driver("new")}, "new", "set", Empty, FALSE, TRUE)}
    \cup {Machine({Driver("new"), Toolkit}, "old", "absent", m, FALSE, TRUE) : m \in {Bare, Empty}}
    \cup {[Machine({Driver("new"), Toolkit}, "old", "set", Mig("enabled", "full"), TRUE, TRUE)
             EXCEPT !.files["docker"] = "set"]}
    \cup {Machine({Driver("new")}, "new", "before", Bare, TRUE, TRUE)}
MCFewMachines ==
  {Machine({Driver("old")}, "old", "absent", Mig("enabled", "part"), TRUE, TRUE),
   Machine({Driver("new"), Toolkit}, "old", "absent", Empty, FALSE, TRUE)}
MCDesires == [mig : Modes, pin : BOOLEAN]
MCFewDesires == {[mig |-> "enabled", pin |-> FALSE], [mig |-> "disabled", pin |-> TRUE]}
=============================================================================
