--------------------------- MODULE JournalFormat ---------------------------
(***************************************************************************)
(* The private report journal of one applied operation, as the recovery     *)
(* scan reads it (nvidia_converge/recovery.py, _parse_journal and           *)
(* _validate_event_stream).                                                  *)
(*                                                                         *)
(* A journal is a file of JSON lines.  Recovery never uses the lines one by  *)
(* one: it folds them into the few facts kept in the record below, and       *)
(* refuses the whole file as soon as one line does not fit.  There is one    *)
(* operator per event; each takes the record read so far and returns the     *)
(* record after the line.  A refused file stays refused (ok = FALSE).        *)
(*                                                                         *)
(* A snapshot is named by the operation that created it.  The code names it  *)
(* by (path, sha256, creator, host), and its path is derived from the        *)
(* creator's operation ID (rollback.py, new_snapshot_path).                   *)
(***************************************************************************)
CONSTANTS OperationIds, NoOp

ASSUME NoOpAssumption == NoOp \notin OperationIds

(* Commands the journal tells apart: the two private-state phases that touch *)
(* only the tool's own files, any command that may change the host, the      *)
(* workload probe and a query the probe itself runs.                         *)
PrivateCommands == {"stage-package-payloads", "persist-rollback-snapshot"}
ReadCommands    == {"probe", "query"}
Commands        == PrivateCommands \cup ReadCommands \cup {"host-command"}
NoCommand       == "none"

ReleaseTargets == {"install-target", "operation-target", "rollback-baseline"}

Journals ==
  [begun       : BOOLEAN,                      \* operation-started was written
   ok          : BOOLEAN,                      \* every line so far was accepted
   pending     : Commands \cup {NoCommand},
   binding     : OperationIds \cup {NoOp},     \* creator of the bound snapshot
   releases    : SUBSET ReleaseTargets,
   mutation    : BOOLEAN,                      \* host mutation possible
   artifacts   : BOOLEAN,                      \* private snapshot files possible
   completion  : {"none", "complete", "incomplete"},
   persistenceFailed : BOOLEAN,
   recoveredBy : OperationIds \cup {NoOp}]

NoJournal ==
  [begun |-> FALSE, ok |-> TRUE, pending |-> NoCommand, binding |-> NoOp,
   releases |-> {}, mutation |-> FALSE, artifacts |-> FALSE,
   completion |-> "none", persistenceFailed |-> FALSE, recoveredBy |-> NoOp]

(* operation-started is accepted only as the first line. *)
OperationStarted == [NoJournal EXCEPT !.begun = TRUE]

Bound(j)      == j.binding # NoOp
Completed(j)  == j.completion = "complete" /\ ~j.persistenceFailed
Recovered(j)  == j.recoveredBy # NoOp
(* terminal_seen, and the exception for a persistence failure recorded after *)
(* a clean completion; _journal_has_terminal_resolution asks the same thing. *)
Terminal(j)   == Completed(j) \/ Recovered(j)
Sealed(j)     == j.completion = "incomplete" \/ j.persistenceFailed
Closed(j)     == Terminal(j) \/ Sealed(j)

Read(j, accepted, read) == IF accepted THEN read ELSE [j EXCEPT !.ok = FALSE]

(* Faulty variant: a command changes the host only once it is finished. *)
CommandStartedQuietly(j, c) ==
  Read(j, ~Closed(j) /\ j.pending = NoCommand,
       [j EXCEPT !.pending   = c,
                 !.artifacts = IF c \in PrivateCommands THEN TRUE ELSE @])

CommandStarted(j, c) ==
  Read(j, /\ ~Closed(j)
          /\ j.pending = NoCommand
          /\ c = "host-command" => Bound(j),
       [j EXCEPT !.pending   = c,
                 !.mutation  = IF c = "host-command" THEN TRUE ELSE @,
                 !.artifacts = IF c \in PrivateCommands THEN TRUE ELSE @])

CommandFinished(j, c) ==
  Read(j, ~Closed(j) /\ j.pending = c, [j EXCEPT !.pending = NoCommand])

SnapshotPersisted(j, s) ==
  Read(j, ~Closed(j) /\ j.pending = NoCommand /\ ~Bound(j),
       [j EXCEPT !.binding = s])

(* Faulty variant: one release for each journal. *)
ReleaseAuthorizedOnce(j, target, s) ==
  Read(j, /\ ~Closed(j)
          /\ j.pending = NoCommand
          /\ Bound(j) /\ j.binding = s
          /\ j.mutation
          /\ j.releases = {},
       [j EXCEPT !.releases = {target}])

(* A target is released at most once; a forward target must come first, the  *)
(* baseline may follow it (a compensated install).                           *)
ReleaseAuthorized(j, target, s) ==
  Read(j, /\ ~Closed(j)
          /\ j.pending = NoCommand
          /\ Bound(j) /\ j.binding = s
          /\ j.mutation
          /\ target \notin j.releases
          /\ target # "rollback-baseline" => j.releases = {},
       [j EXCEPT !.releases = @ \cup {target}])

(* Faulty variant: every completion is a clean one. *)
OperationCompletedClean(j, incomplete) ==
  Read(j, ~Closed(j) /\ j.pending = NoCommand, [j EXCEPT !.completion = "complete"])

OperationCompleted(j, incomplete) ==
  Read(j, /\ ~Closed(j)
          /\ j.pending = NoCommand
          /\ incomplete => Bound(j),
       [j EXCEPT !.completion = IF incomplete THEN "incomplete" ELSE "complete",
                 !.mutation   = IF incomplete THEN TRUE ELSE @])

(* The one line accepted after a clean completion: it withdraws it. *)
PersistenceFailed(j) ==
  Read(j, /\ ~Recovered(j)
          /\ j.pending = NoCommand
          /\ ~j.persistenceFailed,
       [j EXCEPT !.persistenceFailed = TRUE])

(* Faulty variant: refused while a command is pending. *)
OperationRecoveredIdle(j, o, r, s) ==
  Read(j, /\ ~Terminal(j)
          /\ j.pending = NoCommand
          /\ r # o
          /\ Bound(j) /\ j.binding = s
          /\ j.mutation,
       [j EXCEPT !.recoveredBy = r])

(* Written into the journal of operation o by a later rollback r.  It is the *)
(* only line accepted while a command is pending: o died in the middle.      *)
OperationRecovered(j, o, r, s) ==
  Read(j, /\ ~Terminal(j)
          /\ r # o
          /\ Bound(j) /\ j.binding = s
          /\ j.mutation,
       [j EXCEPT !.recoveredBy = r])
=============================================================================
