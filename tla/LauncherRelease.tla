---------------------------- MODULE LauncherRelease ----------------------------
(***************************************************************************)
(* What Recovery assumes of one launcher commit: it starts behind masked   *)
(* launchers, opens them in any order, and ends in one of four ways. Only  *)
(* a commit with every launcher in its target state ends as committed, and *)
(* a commit that ends as failed without a finding has masked all of them.  *)
(***************************************************************************)
CONSTANT Launchers

VARIABLES masked,   \* launchers whose unit file is masked
          exact,    \* launchers whose unit file has its target state
          outcome,  \* "running" or how the commit ended
          reported  \* a finding says the quarantine is not proved

vars == <<masked, exact, outcome, reported>>

TypeOK ==
  /\ masked \in SUBSET Launchers
  /\ exact \in SUBSET Launchers
  /\ outcome \in {"running", "committed", "failed", "raised", "down"}
  /\ reported \in BOOLEAN

Init ==
  /\ masked = Launchers
  /\ exact \in SUBSET Launchers
  /\ outcome = "running"
  /\ reported = FALSE

(* Any command on any launcher. *)
Work ==
  /\ outcome = "running" /\ outcome' = "running"
  /\ masked' \in SUBSET Launchers /\ exact' \in SUBSET Launchers
  /\ UNCHANGED reported

Commit ==
  /\ outcome = "running" /\ outcome' = "committed"
  /\ exact = Launchers
  /\ UNCHANGED <<masked, exact, reported>>

(* The commit failed and was masked again; otherwise it says so. *)
FailClosed ==
  /\ outcome = "running" /\ outcome' \in {"failed", "raised"}
  /\ reported' \in BOOLEAN
  /\ outcome' = "failed" /\ ~reported' => masked = Launchers
  /\ UNCHANGED <<masked, exact>>

PowerLoss ==
  /\ outcome = "running" /\ outcome' = "down"
  /\ UNCHANGED <<masked, exact, reported>>

Next == Work \/ Commit \/ FailClosed \/ PowerLoss

Spec == Init /\ [][Next]_vars
=============================================================================
