------------------------------ MODULE HostSettle ------------------------------
(***************************************************************************)
(* verify --apply and lock --apply.  Both take a snapshot and quarantine the    *)
(* launchers as an install does, change one thing (the loaded modules, the       *)
(* package policy), look at the machine again and release the launchers of the  *)
(* snapshot.  Neither compensates: a failure leaves the launchers masked and the *)
(* rollback to the operator.                                                    *)
(***************************************************************************)
EXTENDS HostConverge

(* lock with the policy already selected has nothing to do; an administrator's    *)
(* selection is never replaced.                                                  *)
PlanSettle ==
  /\ At("s.plan")
  /\ IF run.cmd = "lock" /\ host.files["policy"] # "absent"
     THEN Ends("refused")
     ELSE /\ \E gpus \in Enumerations(host) :
               run' = [run EXCEPT !.at = "i.snapshot", !.audit = Audit(host, gpus)]
          /\ UNCHANGED outcome
  /\ UNCHANGED <<host, base, want, faults>>

(* A failed phase masks and stops everything again. *)
Abandons == Fence("s.failed")

SettleBoundary ==
  /\ At("s.boundary")
  /\ \E gpus \in Enumerations(host) :
       LET a == Audit(host, gpus) IN
         IF a.gpus /\ Quarantined(host) /\ BaselineStands(a)
         THEN run' = [run EXCEPT !.at = IF run.cmd = "lock" THEN "s.policy" ELSE "s.unload",
                                 !.audit = a]
         ELSE Abandons
  /\ UNCHANGED <<host, base, want, outcome, faults>>

(* verify: modules of another build than the one on disk are replaced, whatever    *)
(* the GPU is partitioned into.                                                  *)
Stale(h) == h.loaded.names # {} /\ h.loaded.build # OnDisk(h) /\ OnDisk(h) # "none"
SettleUnload ==
  /\ At("s.unload")
  /\ IF Stale(Plan) THEN Unload("s.load", "s.abandon") ELSE Skips("s.core")
SettleLoad ==
  /\ At("s.load")
  /\ IF Plan.loaded.names \subseteq host.loaded.names
     THEN Skips("s.core")
     ELSE Load(Plan.loaded.names, "s.load", "s.abandon")

(* lock: with apt a package transaction, with its scripts. *)
Selected == [host EXCEPT !.files["policy"] = "set"]
ApplyPolicy ==
  /\ At("s.policy")
  /\ \/ Does(Scripted(Selected), "s.core")
     \/ Fails(Scripted(host) \cup Scripted(Selected), "s.abandon")

Settled(a) == IF run.cmd = "lock" THEN a.host.files["policy"] = "set" ELSE CoreVerified(a)
(* Faulty variant: the launchers are released without a second look. *)
SettleCoreBlindly ==
  /\ At("s.core")
  /\ Go("s.release")
  /\ UNCHANGED <<host, base, want, outcome, faults>>
SettleCore ==
  /\ At("s.core")
  /\ \E gpus \in Enumerations(host) :
       LET a == Audit(host, gpus) IN
         IF a.gpus /\ Quarantined(host) /\ Settled(a) THEN Go("s.release") ELSE Abandons
  /\ UNCHANGED <<host, base, want, outcome, faults>>

ReleaseSettled ==
  /\ At("s.release")
  /\ \/ Does({[host EXCEPT !.units = base.host.units]}, "s.services")
     \/ Fails(PartlyReleased(base.host.units), "s.abandon")

(* The container checks of verify come when the launchers run again, and nothing   *)
(* masks them when one fails.                                                    *)
ServicesProved == /\ host.units["docker"].active
                  /\ host.files["docker"] = "set" /\ Toolkit \in host.packages
VerifyServices ==
  /\ At("s.services")
  /\ Ends(IF run.cmd = "lock" \/ ServicesProved THEN "settled" ELSE "settle-unproved")
  /\ UNCHANGED <<host, base, want, faults>>

Abandon == At("s.abandon") /\ Abandons /\ UNCHANGED <<host, base, want, outcome, faults>>
SettleFails ==
  /\ At("s.failed")
  /\ host' \in Requiesced(host)
  /\ Ends("settle-failed")
  /\ UNCHANGED <<base, want, faults>>

SettleStep ==
  \/ PlanSettle \/ SettleBoundary \/ SettleUnload \/ SettleLoad \/ ApplyPolicy
  \/ SettleCore \/ ReleaseSettled \/ VerifyServices \/ Abandon \/ SettleFails
=============================================================================
