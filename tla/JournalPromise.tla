--------------------------- MODULE JournalPromise ---------------------------
(***************************************************************************)
(* What append_report_journal promises of every journal, whatever the disk   *)
(* does: a line is there wholly, not at all, or in doubt; doubt is about what  *)
(* follows the acknowledged lines only; and an acknowledged line is found by   *)
(* every reader, after any crash.                                             *)
(***************************************************************************)
EXTENDS SequencesExt

CONSTANTS OperationIds, Events

VARIABLES acknowledged,  \* acknowledged[o]: the lines whose append has returned
          reads          \* reads[o]: the lines a reader may find, now or after a crash

Init == /\ acknowledged \in [OperationIds -> Seq(Events)]
        /\ reads = [o \in OperationIds |-> {acknowledged[o]}]

(* A line is being written behind what the writer sees. *)
Begin(o) ==
  /\ \E s \in reads[o], e \in Events : reads' = [reads EXCEPT ![o] = @ \cup {Append(s, e)}]
  /\ UNCHANGED acknowledged

(* Doubt shrinks: towards the line, away from it, or to what a crash left. *)
Settle(o) ==
  /\ reads'[o] \subseteq reads[o] /\ reads'[o] # {}
  /\ acknowledged'[o] \in reads'[o] \cup {acknowledged[o]}
  /\ IsPrefix(acknowledged[o], acknowledged'[o])
  /\ \A s \in reads'[o] : IsPrefix(acknowledged'[o], s)

(* The journal of a reservation that is not acknowledged may go. *)
Discard(o) ==
  /\ acknowledged[o] = <<>>
  /\ reads' = [reads EXCEPT ![o] = @ \cup {<<>>}]
  /\ UNCHANGED acknowledged

Next == \/ \E o \in OperationIds : Begin(o) \/ Discard(o)
        \/ /\ \A o \in OperationIds : Settle(o)
           /\ DOMAIN reads' = OperationIds /\ DOMAIN acknowledged' = OperationIds

Spec == Init /\ [][Next]_<<acknowledged, reads>>
=============================================================================
