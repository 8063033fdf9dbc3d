---------------------------- MODULE ReportFiles -----------------------------
(***************************************************************************)
(* The files of applied operations, primitive by primitive: the bootstrap of *)
(* the active index, the startup that reads it, the reservation of a report,  *)
(* a journal, an active marker and an emergency reserve, the journal append   *)
(* with its durable rollback and its one retry out of the reserve, and the    *)
(* final report.  One process at a time (the operation lock) performs file     *)
(* primitives in order; it may fail, be signalled or killed, or the machine   *)
(* may lose power, between any two of them.                                   *)
(*                                                                         *)
(* A journal is abstracted to the sequence of its complete lines and whether  *)
(* a torn one follows.  Which operation may be admitted, and what the lines   *)
(* mean for recovery, is the question of Recovery; here startup admits an     *)
(* operation as soon as it has read every file it must read.                  *)
(***************************************************************************)
EXTENDS Naturals, Sequences, FiniteSets, SequencesExt

CONSTANTS OperationIds, NoOp,
          Legacy,        \* operations of an installation that has no index yet
          MaxCommands,   \* bound: commands an operation tries to run
          Faults         \* what can go wrong

AllFaults == {"io", "capacity", "undo", "signal", "kill", "powerLoss"}

ASSUME ReportFilesAssumption ==
  /\ NoOp \notin OperationIds
  /\ Legacy \subseteq OperationIds
  /\ IsFiniteSet(OperationIds)
  /\ MaxCommands \in Nat \ {0}
  /\ Faults \subseteq AllFaults

Absent == [lines |-> <<>>, torn |-> FALSE]
Torn   == [lines |-> <<>>, torn |-> TRUE]
INSTANCE PrivateFiles

Line(lines) == [lines |-> lines, torn |-> FALSE]
Ragged(c)   == [c EXCEPT !.torn = TRUE]

(* Contents of the files that are not journals. *)
Whole  == Line(<<"whole">>)    \* marker, index, reserve, provisional report
Final  == Line(<<"final">>)    \* the report that goes with a clean completion
Failed == Line(<<"failed">>)   \* the report of an incomplete operation

VARIABLES file,     \* file[o][n]: the file n of operation o
          index,    \* the sentinel index-v1.json of the active directory
          acked,    \* acked[o]: the lines whose append has returned (history)
          proc      \* the process that holds the operation lock

vars == <<file, index, acked, proc>>

Names  == {"report", "journal", "marker", "reserve"}
Events == {"operation-started", "command-started", "command-finished",
           "operation-completed", "operation-incomplete", "report-persistence-failed"}
Phases == {"idle", "boot", "cleanup", "scan", "reserve", "undo", "work", "command",
           "append", "rollback", "reclaim", "replace", "release", "refused"}

(* Primitive steps of a script: the primitive, the file, whose file. *)
Step(kind, name, o) == [kind |-> kind, name |-> name, op |-> o]

NoProcess ==
  [phase |-> "idle", op |-> NoOp, todo |-> <<>>, event |-> "none", content |-> Absent,
   cause |-> "none", failed |-> FALSE, retried |-> FALSE,
   attempts |-> 0]

In(phase)     == proc.phase = phase
Become(phase) == proc' = [proc EXCEPT !.phase = phase, !.todo = <<>>]
End           == proc' = NoProcess

-----------------------------------------------------------------------------
(* Reading *)

Holds(c, event) == \E i \in DOMAIN c.lines : c.lines[i] = event

Readable(f) == f.seen.lines # <<>>

(* A journal that needs no recovery; a completion counts with its final report only. *)
Terminal(o) ==
  LET c == file[o].journal.seen
  IN  \/ ~ Holds(c, "command-started")
      \/ /\ Holds(c, "operation-completed")
         /\ ~ Holds(c, "report-persistence-failed")
         /\ file[o].report.seen = Final

Journals == {o \in OperationIds : Exists(file[o].journal)}
Marked   == {o \in OperationIds : Exists(file[o].marker)}
Reserved == {o \in OperationIds : Exists(file[o].reserve)}

(* Faulty variant: the last complete line goes with the torn one. *)
RepairedTooFar(f) == OnDisk(Line(Front(f.seen.lines)))

(* ftruncate behind the last complete line, and fsync. *)
Repaired(f) == OnDisk([f.seen EXCEPT !.torn = FALSE])

RepairedFiles(ops) ==
  [o \in OperationIds |-> IF o \in ops /\ file[o].journal.seen.torn
                          THEN [file[o] EXCEPT !.journal = Repaired(@)]
                          ELSE file[o]]

-----------------------------------------------------------------------------
(* Scripts *)

CreateSteps(name, o) ==
  <<Step("open", name, o), Step("write", name, o), Step("sync", name, o)>>

MarkerSteps(order) ==
  [i \in 1 .. 3 * Len(order) |-> CreateSteps("marker", order[(i + 2) \div 3])[((i - 1) % 3) + 1]]

BootScript ==
  MarkerSteps(SetToSeq({o \in Journals : ~ Terminal(o)}))
    \o SetToSeq({Step("unlink", "reserve", o) : o \in Reserved})
    \o (IF Reserved = {} THEN <<>> ELSE <<Step("syncReports", "reserve", NoOp)>>)
    \o <<Step("syncActive", "marker", NoOp)>>
    \o CreateSteps("index", NoOp)
    \o <<Step("syncActive", "index", NoOp)>>

(* Faulty variant: the active directory is not synchronized. *)
ReserveScriptVolatile(o) ==
  CreateSteps("report", o) \o CreateSteps("journal", o)
    \o <<Step("syncReports", "journal", o)>>
    \o CreateSteps("marker", o) \o CreateSteps("reserve", o)
    \o <<Step("syncReports", "reserve", o), Step("capacity", "reserve", o)>>

ReserveScript(o) ==
  CreateSteps("report", o) \o CreateSteps("journal", o)
    \o <<Step("syncReports", "journal", o)>>
    \o CreateSteps("marker", o) \o <<Step("syncActive", "marker", o)>>
    \o CreateSteps("reserve", o)
    \o <<Step("syncReports", "reserve", o), Step("capacity", "reserve", o)>>

(* The file of a failed primitive goes first, then the marker, then the rest. *)
UndoScript(o, name) ==
  LET made == {n \in Names : Exists(file[o][n])} \ {name}
      Drop(n) == IF n \in made THEN <<Step("unlink", n, o)>> ELSE <<>>
  IN  (IF name = "none" THEN <<>> ELSE <<Step("unlink", name, o)>>)
        \o Drop("marker")
        \o (IF "marker" \in made THEN <<Step("syncActive", "marker", o)>> ELSE <<>>)
        \o Drop("reserve") \o Drop("journal") \o Drop("report")
        \o <<Step("syncReports", "report", o)>>

(* What a newly created file holds. *)
FirstContent(name) == IF name = "journal" THEN Line(<<"operation-started">>) ELSE Whole

-----------------------------------------------------------------------------
(* Primitives.  Scripted is the phase in which a script runs. *)

Scripted == proc.phase \in {"boot", "reserve", "undo"} /\ proc.todo # <<>>
Now      == Head(proc.todo)
Proceed  == proc' = [proc EXCEPT !.todo = Tail(@)]

Put(s, f) ==
  IF s.name = "index" THEN index' = f /\ UNCHANGED file
                      ELSE file' = [file EXCEPT ![s.op][s.name] = f] /\ UNCHANGED index
Get(s) == IF s.name = "index" THEN index ELSE file[s.op][s.name]

(* O_CREAT | O_EXCL; bootstrap accepts a marker that is already there and whole. *)
OpenNew ==
  /\ Scripted /\ Now.kind = "open"
  /\ \/ /\ ~ Exists(Get(Now))
        /\ Put(Now, Created(Get(Now)))
        /\ Proceed
     \/ /\ Exists(Get(Now))
        /\ IF Get(Now).seen = Whole
           THEN proc' = [proc EXCEPT !.todo = SubSeq(@, 4, Len(@))]
           ELSE Become("refused")
        /\ UNCHANGED <<file, index>>
  /\ UNCHANGED acked

WriteNew ==
  /\ Scripted /\ Now.kind = "write"
  /\ Put(Now, Written(Get(Now), FirstContent(Now.name), Torn))
  /\ Proceed
  /\ UNCHANGED acked

SyncNew ==
  /\ Scripted /\ Now.kind = "sync"
  /\ Put(Now, Synced(Get(Now)))
  /\ Proceed
  /\ UNCHANGED acked

(* fsync of the report directory, or of the active directory with the index. *)
SyncDirectory ==
  /\ Scripted /\ Now.kind \in {"syncReports", "syncActive"}
  /\ LET here == IF Now.kind = "syncActive" THEN {"marker"} ELSE Names \ {"marker"}
     IN  file' = [o \in OperationIds |-> [n \in Names |->
                    IF n \in here THEN EntrySynced(file[o][n]) ELSE file[o][n]]]
  /\ index' = IF Now.kind = "syncActive" THEN EntrySynced(index) ELSE index
  /\ Proceed
  /\ UNCHANGED acked

UnlinkOld ==
  /\ Scripted /\ Now.kind = "unlink"
  /\ Put(Now, Unlinked(Get(Now)))
  /\ Proceed
  /\ UNCHANGED acked

(* The last step of a reservation; afterwards the operation may begin. *)
CapacitySuffices ==
  /\ Scripted /\ Now.kind = "capacity"
  /\ acked' = [acked EXCEPT ![proc.op] = <<"operation-started">>]
  /\ Become("work")
  /\ UNCHANGED <<file, index>>

(* A primitive of a reservation fails: everything made so far is undone. *)
ReserveFails ==
  /\ In("reserve")
  /\ IF Now.kind = "capacity" THEN "capacity" \in Faults ELSE {"io", "capacity"} \cap Faults # {}
  /\ proc' = [proc EXCEPT !.phase = "undo",
                !.todo = UndoScript(proc.op, IF Now.kind \in {"write", "sync"}
                                             THEN Now.name ELSE "none")]
  /\ UNCHANGED <<file, index, acked>>

(* The undo ignores its own errors. *)
UndoStepFails ==
  /\ In("undo") /\ proc.todo # <<>>
  /\ "undo" \in Faults
  /\ Proceed
  /\ UNCHANGED <<file, index, acked>>

Undone ==
  /\ In("undo") /\ proc.todo = <<>>
  /\ Become("refused")
  /\ UNCHANGED <<file, index, acked>>

(* A primitive of the bootstrap fails: a half-made marker is unlinked, the sentinel is not. *)
BootFails ==
  /\ In("boot") /\ proc.todo # <<>>
  /\ {"io", "capacity"} \cap Faults # {}
  /\ IF Now.kind \in {"write", "sync"} /\ Now.name = "marker"
     THEN Put(Now, Unlinked(Get(Now)))
     ELSE UNCHANGED <<file, index>>
  /\ Become("refused")
  /\ UNCHANGED acked

Refused ==
  /\ In("refused")
  /\ End
  /\ UNCHANGED <<file, index, acked>>

-----------------------------------------------------------------------------
(* Startup *)

Init ==
  /\ index = OnDisk(Absent)
  /\ proc = NoProcess
  /\ \E lines \in [Legacy -> {<<"operation-started">>,
                              <<"operation-started", "command-started">>,
                              <<"operation-started", "command-started", "command-finished",
                                "operation-completed">>}] :
       LET Before(o, n) ==
             CASE o \in Legacy /\ n = "journal" -> Line(lines[o])
               [] o \in Legacy /\ n = "report"  -> IF Len(lines[o]) = 4 THEN Final ELSE Whole
               [] o \in Legacy /\ n = "reserve" -> IF Len(lines[o]) = 4 THEN Absent ELSE Whole
               [] OTHER -> Absent
       IN  /\ file = [o \in OperationIds |-> [n \in Names |-> OnDisk(Before(o, n))]]
           /\ acked = [o \in OperationIds |-> IF o \in Legacy THEN lines[o] ELSE <<>>]

(* The operation lock is taken. *)
Start ==
  /\ In("idle")
  /\ Become("boot")
  /\ UNCHANGED <<file, index, acked>>

(* The sentinel is read: valid, refused, or absent and every journal is read once. *)
ReadIndex ==
  /\ In("boot") /\ proc.todo = <<>>
  /\ \/ /\ index.seen = Whole
        /\ Become("cleanup")
        /\ UNCHANGED file
     \/ /\ index.seen = Torn
        /\ Become("refused")
        /\ UNCHANGED file
     \/ /\ index.seen = Absent
        /\ IF \A o \in Journals : Readable(file[o].journal)
           THEN file' = RepairedFiles(Journals) /\ proc' = [proc EXCEPT !.todo = BootScript]
           ELSE Become("refused") /\ UNCHANGED file
  /\ UNCHANGED <<index, acked>>

(* The reserves of dead operations are reclaimed. *)
CleanupReserves ==
  /\ In("cleanup")
  /\ IF \A o \in Marked : file[o].marker.seen = Whole
     THEN /\ file' = [o \in OperationIds |->
               IF o \in Marked \cap Reserved
               THEN [file[o] EXCEPT !.reserve = EntrySynced(Unlinked(@))] ELSE file[o]]
          /\ Become("scan")
     ELSE Become("refused") /\ UNCHANGED file
  /\ UNCHANGED <<index, acked>>

(* The marked journals are read and repaired, the terminal ones lose their marker;  *)
(* then an operation is admitted, or the process ends.                              *)
Scan ==
  /\ In("scan")
  /\ IF \A o \in Marked : Readable(file[o].journal)
     THEN /\ LET repaired == RepairedFiles(Marked)
             IN  file' = [o \in OperationIds |->
                   IF o \in Marked /\ Terminal(o)
                   THEN [repaired[o] EXCEPT !.marker = EntrySynced(Unlinked(@))] ELSE repaired[o]]
          /\ \/ \E o \in OperationIds :
                  /\ \A n \in Names : ~ Exists(file[o][n]) /\ acked[o] = <<>>
                  /\ proc' = [proc EXCEPT !.phase = "reserve", !.op = o, !.todo = ReserveScript(o)]
             \/ End
     ELSE Become("refused") /\ UNCHANGED file
  /\ UNCHANGED <<index, acked>>

-----------------------------------------------------------------------------
(* The journal append *)

Journal == file[proc.op].journal
PutJournal(f) == file' = [file EXCEPT ![proc.op].journal = f] /\ UNCHANGED index

(* append_report_journal is called. *)
BeginAppend(event) ==
  proc' = [proc EXCEPT !.attempts = IF event = "command-started" THEN @ + 1 ELSE @, !.phase = "append", !.event = event, !.retried = FALSE, !.cause = "none",
                       !.todo = <<Step("write", "journal", proc.op), Step("sync", "journal", proc.op)>>]

(* What the caller does when its append did not succeed. *)
AppendRejected(how) ==
  CASE proc.event \in {"operation-completed", "operation-incomplete"} ->
         proc' = [proc EXCEPT !.phase = "replace", !.content = Failed, !.failed = TRUE,
                              !.cause = how, !.todo = <<>>]
    [] proc.event = "report-persistence-failed" -> Become("release")
    [] OTHER -> proc' = [proc EXCEPT !.phase = "work", !.failed = TRUE, !.todo = <<>>]

(* A journal that does not end in a complete line is never appended to. *)
BoundaryRefuses ==
  /\ In("append") /\ Now.kind = "write"
  /\ Journal.seen.torn \/ Journal.seen.lines = <<>>
  /\ AppendRejected("uncertain")
  /\ UNCHANGED <<file, index, acked>>

AppendLine ==
  /\ In("append") /\ Now.kind = "write"
  /\ ~ Journal.seen.torn /\ Journal.seen.lines # <<>>
  /\ PutJournal(Written(Journal, Line(Append(Journal.seen.lines, proc.event)), Ragged(Journal.seen)))
  /\ Proceed
  /\ UNCHANGED acked

(* Faulty variant: the line is acknowledged without fsync. *)
SyncLineLater ==
  /\ In("append") /\ Now.kind = "sync"
  /\ acked' = [acked EXCEPT ![proc.op] = Journal.seen.lines]
  /\ CASE proc.event = "command-started" -> Become("command")
       [] proc.event = "command-finished" -> Become("work")
       [] OTHER -> Become("release")
  /\ UNCHANGED <<file, index>>

SyncLine ==
  /\ In("append") /\ Now.kind = "sync"
  /\ PutJournal(Synced(Journal))
  /\ acked' = [acked EXCEPT ![proc.op] = Journal.seen.lines]
  /\ CASE proc.event = "command-started" -> Become("command")
       [] proc.event = "command-finished" -> Become("work")
       [] OTHER -> Become("release")

(* write leaves a part of the line, or fsync fails; the length to return to is kept. *)
AppendFails ==
  /\ In("append")
  /\ \E cause \in {"io", "capacity"} \cap Faults :
       /\ IF Now.kind = "write"
          THEN /\ ~ Journal.seen.torn /\ Journal.seen.lines # <<>>
               /\ \E c \in {Journal.seen, Ragged(Journal.seen)} :
                    PutJournal(Written(Journal, c, c))
               /\ proc' = [proc EXCEPT !.phase = "rollback", !.cause = cause,
                                       !.content = Journal.seen, !.todo = <<>>]
          ELSE /\ proc' = [proc EXCEPT !.phase = "rollback", !.cause = cause,
                             !.content = Line(Front(Journal.seen.lines)), !.todo = <<>>]
               /\ UNCHANGED <<file, index>>
  /\ UNCHANGED acked

(* ftruncate and fsync succeed: the append has not happened. *)
RollbackAppend ==
  /\ In("rollback")
  /\ PutJournal(OnDisk(proc.content))
  /\ IF proc.cause = "capacity" /\ ~ proc.retried THEN Become("reclaim")
                                                  ELSE AppendRejected("rejected")
  /\ UNCHANGED acked

(* ftruncate or its fsync fails: nobody knows what a reader will find. *)
RollbackFails ==
  /\ In("rollback")
  /\ "io" \in Faults
  /\ \/ PutJournal(Written(Journal, proc.content, proc.content))
     \/ UNCHANGED <<file, index>>
  /\ AppendRejected("uncertain")
  /\ UNCHANGED acked

(* The reserve gives its bytes back, once; without one the append is rejected. *)
ReclaimReserve ==
  /\ In("reclaim")
  /\ IF proc.op \in Reserved
     THEN /\ file' = [file EXCEPT ![proc.op].reserve = EntrySynced(Unlinked(@))]
          /\ proc' = [proc EXCEPT !.phase = "append", !.retried = TRUE,
                        !.todo = <<Step("write", "journal", proc.op), Step("sync", "journal", proc.op)>>]
     ELSE UNCHANGED file /\ AppendRejected("rejected")
  /\ UNCHANGED <<index, acked>>

ReclaimFails ==
  /\ In("reclaim")
  /\ "io" \in Faults
  /\ AppendRejected("rejected")
  /\ UNCHANGED <<file, index, acked>>

-----------------------------------------------------------------------------
(* The operation *)

(* Faulty variant: one command more than the bound. *)
StartCommandBeyond ==
  /\ In("work")
  /\ proc.attempts <= MaxCommands
  /\ BeginAppend("command-started")
  /\ UNCHANGED <<file, index, acked>>

(* The start callback: capacity first, then the durable line, then the command. *)
StartCommand ==
  /\ In("work")
  /\ proc.attempts < MaxCommands
  /\ BeginAppend("command-started")
  /\ UNCHANGED <<file, index, acked>>

CapacityMissing ==
  /\ In("work") /\ "capacity" \in Faults
  /\ proc.attempts < MaxCommands
  /\ proc' = [proc EXCEPT !.failed = TRUE, !.attempts = @ + 1]
  /\ UNCHANGED <<file, index, acked>>

(* The command returns a result, whatever it did; the result callback records it. *)
CommandEnds ==
  /\ In("command")
  /\ BeginAppend("command-finished")
  /\ UNCHANGED <<file, index, acked>>

(* Faulty variant: the journal says completed before the report is in place. *)
BeginReportLate ==
  /\ In("work")
  /\ BeginAppend("operation-completed")
  /\ UNCHANGED <<file, index, acked>>

(* emit_report: the final report is put in place before the journal says completed. *)
BeginReport ==
  /\ In("work")
  /\ proc' = [proc EXCEPT !.phase = "replace", !.content = IF proc.failed THEN Failed ELSE Final,
                          !.cause = "none", !.event = "none"]
  /\ UNCHANGED <<file, index, acked>>

(* The temporary file is complete and synchronized before it takes the report's name. *)
ReplaceReport ==
  /\ In("replace") /\ proc.todo = <<>>
  /\ file' = [file EXCEPT ![proc.op].report = Replaced(@, proc.content)]
  /\ proc' = [proc EXCEPT !.todo = <<Step("syncReports", "report", proc.op)>>]
  /\ UNCHANGED <<index, acked>>

SyncReport ==
  /\ In("replace") /\ proc.todo # <<>>
  /\ file' = [file EXCEPT ![proc.op].report = ReplacementSynced(@)]
  /\ CASE proc.event = "none" ->
            BeginAppend(IF proc.failed THEN "operation-incomplete" ELSE "operation-completed")
       [] proc.event # "none" /\ proc.cause = "uncertain" -> Become("release")
       [] OTHER -> BeginAppend("report-persistence-failed")
  /\ UNCHANGED <<index, acked>>

(* The report cannot be written; the journal says so, unless its tail is uncertain. *)
ReplaceFails ==
  /\ In("replace") /\ {"io", "capacity"} \cap Faults # {}
  /\ IF proc.cause = "uncertain" THEN Become("release") ELSE BeginAppend("report-persistence-failed")
  /\ UNCHANGED <<file, index, acked>>

(* An exception leaves the operation without a completion. *)
GiveUp ==
  /\ In("work") /\ proc.failed
  /\ Become("release")
  /\ UNCHANGED <<file, index, acked>>

ReleaseReserve ==
  /\ In("release")
  /\ file' = [file EXCEPT ![proc.op].reserve = IF Exists(@) THEN EntrySynced(Unlinked(@)) ELSE @]
  /\ End
  /\ UNCHANGED <<index, acked>>

-----------------------------------------------------------------------------
(* Faults from outside *)

Appending     == proc.phase \in {"append", "rollback", "reclaim"}
CommandEvents == {"command-started", "command-finished"}

(* SIGTERM raises wherever the program is; an append under way is left as it is. *)
Signal ==
  /\ "signal" \in Faults
  /\ \/ /\ In("work") \/ In("command") \/ (Appending /\ proc.event \in CommandEvents)
        /\ proc' = [proc EXCEPT !.phase = "work", !.failed = TRUE, !.todo = <<>>]
     \/ /\ In("replace") \/ (Appending /\ proc.event \notin CommandEvents)
        /\ Become("release")
     \/ /\ proc.phase \in {"boot", "cleanup", "scan", "reserve", "undo", "refused"}
        /\ End
  /\ IF In("reserve") /\ Now.kind \in {"write", "sync"}
     THEN Put(Now, Unlinked(Get(Now)))
     ELSE UNCHANGED <<file, index>>
  /\ UNCHANGED acked

Kill ==
  /\ "kill" \in Faults
  /\ ~ In("idle")
  /\ End
  /\ UNCHANGED <<file, index, acked>>

PowerLoss ==
  /\ "powerLoss" \in Faults
  /\ LET unsure == {f \in OperationIds \X Names : ~ Durable(file[f[1]][f[2]])}
     IN  \E left \in [unsure -> UNION {file[f[1]][f[2]].kept : f \in unsure}] :
           /\ \A f \in unsure : left[f] \in file[f[1]][f[2]].kept
           /\ file' = [o \in OperationIds |-> [n \in Names |->
                         IF <<o, n>> \in unsure THEN OnDisk(left[<<o, n>>]) ELSE file[o][n]]]
  /\ index' \in Survivors(index)
  /\ acked' = [o \in OperationIds |-> file'[o].journal.seen.lines]
  /\ End

-----------------------------------------------------------------------------
FileStep ==
  \/ OpenNew \/ WriteNew \/ SyncNew \/ SyncDirectory \/ UnlinkOld \/ CapacitySuffices
  \/ ReserveFails \/ UndoStepFails \/ Undone \/ BootFails \/ Refused
  \/ ReadIndex \/ CleanupReserves \/ Scan
  \/ BoundaryRefuses \/ AppendLine \/ SyncLine \/ AppendFails
  \/ RollbackAppend \/ RollbackFails \/ ReclaimReserve \/ ReclaimFails
  \/ StartCommand \/ CapacityMissing \/ BeginReport \/ ReplaceReport \/ SyncReport \/ ReplaceFails
  \/ GiveUp \/ ReleaseReserve

Next == Start \/ FileStep \/ CommandEnds \/ Signal \/ Kill \/ PowerLoss

Spec == Init /\ [][Next]_vars
=============================================================================
