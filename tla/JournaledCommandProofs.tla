------------------------ MODULE JournaledCommandProofs ------------------------
(*******************************************************************************)
(* Proofs about JournaledCommand.tla for any set of operations, any number of  *)
(* commands and descendants, and every fault at every moment: the journal      *)
(* accounts for each command before it lives and as long as it lives, a marker *)
(* keeps an operation that ran a command from being forgotten, a completion    *)
(* lies beside its report, no process group outlives its call, and the journal *)
(* is what JournalPromise promises.                                            *)
(*                                                                             *)
(* JournaledFilesProofs.tla has the invariant and the steps of the scripts.    *)
(*******************************************************************************)
EXTENDS JournaledFilesProofs

-----------------------------------------------------------------------------

(* The operation at work. *)

LEMMA WorkFacts ==
  ASSUME IInv, Working
  PROVE  /\ Data /\ Typed /\ proc \in Procs /\ proc.op \in OperationIds
         /\ proc.attempts \in Nat /\ proc.attempts <= MaxCommands /\ MaxCommands \in Nat
         /\ ~ In("command") /\ Elsewhere => Rest' /\ UNCHANGED <<ran, loose>>
         /\ acked[proc.op] # <<>> /\ Absent \notin file[proc.op].marker.kept
         /\ ran[proc.op] \in Nat /\ ran[proc.op] <= proc.attempts
         /\ Journal = file[proc.op].journal /\ Journal \in File(Contents) /\ Journal.seen \in Journal.kept
         /\ \A c \in Journal.kept :
              /\ c \in Contents /\ c.lines \in Seq(Events) /\ c.lines # <<>> /\ Fits(proc.op, c.lines)
              /\ Len(c.lines) \in Nat /\ Len(c.lines) <= Room
<1>1. /\ Data /\ Typed /\ proc \in Procs /\ proc.op \in OperationIds /\ acked[proc.op] # <<>>
      /\ Absent \notin file[proc.op].marker.kept /\ ran[proc.op] <= proc.attempts
      /\ proc.attempts <= MaxCommands
      /\ \A c \in Journal.kept : Len(c.lines) <= Room
  BY DEF IInv, Operating, Data
<1>2. proc.attempts \in Nat /\ ran[proc.op] \in Nat /\ MaxCommands \in Nat
  BY <1>1, ReportFilesAssumption DEF Procs, Typed
<1>3. ~ In("command") /\ Elsewhere => Rest' /\ UNCHANGED <<ran, loose>> BY RestFacts
<1>4. Shaped(proc.op) /\ Accounted(proc.op) BY <1>1 DEF Data, Lasting
<1>5. Journal = file[proc.op].journal /\ Journal \in File(Contents) /\ Journal.seen \in Journal.kept
  <2>1. "journal" \in Names BY DEF Names
  <2>2. file[proc.op].journal \in File(Contents) BY <1>1, <2>1, FileFacts
  <2> QED BY <1>4, <2>1, <2>2 DEF Shaped, Journal
<1>6. ASSUME NEW c \in Journal.kept
      PROVE  /\ c \in Contents /\ c.lines \in Seq(Events) /\ c.lines # <<>> /\ Fits(proc.op, c.lines)
             /\ Len(c.lines) \in Nat
  <2>1. c \in Contents BY <1>5 DEF File
  <2>2. c.lines \in Seq(Events) /\ Fits(proc.op, c.lines) BY <1>4, <1>5 DEF Shaped, Accounted
  <2>3. acked[proc.op] \in Seq(Events) /\ IsPrefix(acked[proc.op], c.lines)
    BY <1>1, <2>2 DEF Typed, Fits
  <2>4. c.lines # <<>> BY <1>1, <2>2, <2>3, PrefixNonempty
  <2> QED BY <2>1, <2>2, <2>4
<1> QED BY <1>1, <1>2, <1>3, <1>5, <1>6

LEMMA Operated ==
  ASSUME Data', proc' \in Procs, Rest', proc'.phase \in WorkPhases \ {"command"},
         Operating', Reversible', Reporting'
  PROVE  IInv'
<1>1. Commanding' BY RestCommanding
<1>2. Booting' /\ Reserving' /\ Undoing' BY DEF Booting, Reserving, Undoing, In, WorkPhases
<1> QED BY <1>1, <1>2 DEF IInv

(* What the operation keeps, whatever it goes on with. *)
Kept(o, p) == /\ Data /\ Rest /\ o \in OperationIds /\ acked[o] # <<>>
              /\ Absent \notin file[o].marker.kept
              /\ ran[o] <= p.attempts /\ p.attempts <= MaxCommands

LEMMA ToWork ==
  ASSUME NEW o, NEW p, proc' = p, p \in Procs, p.op = o, Kept(o, p)',
         p.phase = "work", p.todo = <<>>,
         \A c \in file'[o].journal.kept : Len(c.lines) <= 2 * p.attempts + 1 /\ ~ Done(c)
  PROVE  IInv'
<1>1. Room' = 2 * p.attempts + 1 BY DEF Room, In
<1>2. Operating' BY <1>1 DEF Operating, Working, WorkPhases, Journal, Kept
<1>3. Reversible' BY DEF Reversible, Appending, In
<1>4. Reporting' BY DEF Reporting, Unreported, Appending, In, Journal
<1> QED BY <1>2, <1>3, <1>4, Operated DEF Kept, WorkPhases

LEMMA ToRelease ==
  ASSUME NEW o, NEW p, proc' = p, p \in Procs, p.op = o, Kept(o, p)', p.phase = "release",
         \A c \in file'[o].journal.kept : Len(c.lines) <= 2 * p.attempts + 3
  PROVE  IInv'
<1>1. Room' = 2 * p.attempts + 3 BY DEF Room, In
<1>2. Operating' BY <1>1 DEF Operating, Working, WorkPhases, Journal, Kept
<1>3. Reversible' /\ Reporting' BY DEF Reversible, Reporting, Unreported, Appending, In
<1> QED BY <1>2, <1>3, Operated DEF Kept, WorkPhases

LEMMA ToReplace ==
  ASSUME NEW o, NEW p, proc' = p, p \in Procs, p.op = o, Kept(o, p)', p.phase = "replace",
         p.event \in {"none", "operation-completed", "operation-incomplete"},
         p.content = IF p.failed THEN Failed ELSE Final,
         p.event # "none" => p.failed,
         p.todo # <<>> => file'[o].report.seen = p.content,
         \A c \in file'[o].journal.kept :
           /\ Len(c.lines) <= 2 * p.attempts + (IF p.event = "none" THEN 1 ELSE 2)
           /\ p.event = "none" => ~ Done(c)
  PROVE  IInv'
<1>1. Room' = 2 * p.attempts + (IF p.event = "none" THEN 1 ELSE 2) BY DEF Room, In
<1>2. Operating' BY <1>1 DEF Operating, Working, WorkPhases, Journal, Kept
<1>3. Reversible' BY DEF Reversible, Appending, In
<1>4. Reporting' BY DEF Reporting, Unreported, Appending, In, Journal
<1> QED BY <1>2, <1>3, <1>4, Operated DEF Kept, WorkPhases

(* An append that is about to write. *)
LEMMA ToAppend ==
  ASSUME NEW o, NEW p, proc' = p, p \in Procs, p.op = o, Kept(o, p)', p.phase = "append",
         p.todo = <<Step("write", "journal", o), Step("sync", "journal", o)>>,
         NEW b, b = file'[o].journal.seen.lines,
         p.event \in Events \ {"operation-started"},
         Len(b) <= RoomBefore(p.event, p.attempts),
         p.event = "command-started" => ran'[o] < p.attempts,
         p.event = "command-finished" => Open(o, b)',
         p.event = "operation-completed" => file'[o].report.kept = {Final},
         \A c \in file'[o].journal.kept : /\ Len(c.lines) <= RoomBefore(p.event, p.attempts) + 1
                                          /\ p.event \in CommandEvents => ~ Done(c)
  PROVE  IInv'
<1>1. Room' = RoomBefore(p.event, p.attempts) + 1 /\ BaseRoom' = RoomBefore(p.event, p.attempts)
  BY DEF Room, In, BaseRoom, RoomBefore
<1>2. Operating' BY <1>1 DEF Operating, Working, WorkPhases, Journal, Kept
<1>3. Len(p.todo) = 2 BY DEF Step
<1>4. Base' = b BY <1>3 DEF Base, In, Journal
<1>5. file'[o].journal.seen \in file'[o].journal.kept BY DEF Kept, Data, Lasting, Shaped, Names
<1>6. Open(proc.op, Base)' <=> Open(o, b)' BY <1>4 DEF Open, Owed
<1>7. Reversible'
  <2>1. \E c \in Journal'.kept : c.lines = Base' BY <1>4, <1>5 DEF Journal
  <2>2. p.todo = <<WriteStep, SyncStep>>' BY DEF WriteStep, SyncStep
  <2> QED BY <1>1, <1>4, <1>6, <2>1, <2>2 DEF Reversible, Appending, In
<1>8. Reporting' BY DEF Reporting, Unreported, Appending, In, Journal
<1> QED BY <1>2, <1>7, <1>8, Operated DEF Kept, WorkPhases

LEMMA BeginAppendFacts ==
  ASSUME proc \in Procs, NEW e \in Events, BeginAppend(e), NEW o \in OperationIds, o = proc.op
  PROVE  /\ proc' \in Procs /\ proc'.phase = "append" /\ proc'.op = o /\ proc'.event = e
         /\ proc'.todo = <<Step("write", "journal", o), Step("sync", "journal", o)>>
         /\ proc'.attempts = proc.attempts + (IF e = "command-started" THEN 1 ELSE 0)
<1> DEFINE t == <<Step("write", "journal", o), Step("sync", "journal", o)>>
<1>1. t \in Seq(Steps)
  <2>1. Step("write", "journal", o) \in Steps /\ Step("sync", "journal", o) \in Steps
    BY DEF Step, Steps, Names
  <2> QED BY <2>1
<1> DEFINE a == IF e = "command-started" THEN proc.attempts + 1 ELSE proc.attempts
<1>2. proc' = [proc EXCEPT !.attempts = a, !.phase = "append", !.event = e, !.retried = FALSE,
                           !.cause = "none", !.todo = t]
  BY DEF BeginAppend
<1>3. "append" \in Phases /\ a \in Nat BY DEF Phases, Procs
<1> HIDE DEF t, a
<1>4. /\ proc' \in Procs /\ proc'.phase = "append" /\ proc'.op = o /\ proc'.event = e
      /\ proc'.todo = t /\ proc'.attempts = a
  BY <1>1, <1>2, <1>3 DEF Procs
<1>5. proc.attempts \in Nat BY DEF Procs
<1> QED BY <1>4, <1>5 DEF t, a

(* Where an append that did not succeed leaves its operation. *)
LEMMA Rejected ==
  ASSUME proc \in Procs, Appending, NEW o, o = proc.op, Kept(o, proc)', proc'.attempts = proc.attempts,
         NEW how \in {"rejected", "uncertain"}, AppendRejected(how),
         proc.event \in Events \ {"operation-started"},
         \A c \in file'[o].journal.kept : /\ Len(c.lines) <= BaseRoom + 1
                                          /\ proc.event \in CommandEvents => ~ Done(c),
         \A c \in file'[o].journal.kept : Len(c.lines) \in Nat
  PROVE  IInv'
<1>1. proc.attempts \in Nat BY DEF Procs
<1>2. PICK p : p = proc' OBVIOUS
<1>3. Kept(o, p)' BY <1>2 DEF Kept
<1>4. <<>> \in Seq(Steps) /\ Failed \in Contents BY ContentFacts
<1>5. CASE proc.event \in {"operation-completed", "operation-incomplete"}
  <2>1. proc' = [proc EXCEPT !.phase = "replace", !.content = Failed, !.failed = TRUE,
                              !.cause = how, !.todo = <<>>]
    BY <1>5 DEF AppendRejected
  <2>2. /\ p \in Procs /\ p.phase = "replace" /\ p.content = Failed /\ p.failed /\ p.todo = <<>>
        /\ p.op = o /\ p.event = proc.event /\ p.attempts = proc.attempts
    BY <1>2, <1>4, <2>1 DEF Procs, Phases
  <2>3. BaseRoom + 1 = 2 * proc.attempts + 2 BY <1>1, <1>5 DEF BaseRoom, RoomBefore
  <2>4. \A c \in file'[o].journal.kept :
          /\ Len(c.lines) <= 2 * p.attempts + (IF p.event = "none" THEN 1 ELSE 2)
          /\ p.event = "none" => ~ Done(c)
    BY <1>5, <2>2, <2>3
  <2> QED BY <1>2, <1>3, <1>5, <2>2, <2>4, ToReplace
<1>6. CASE proc.event = "report-persistence-failed"
  <2>1. Become("release") BY <1>6 DEF AppendRejected
  <2>2. p \in Procs /\ p.phase = "release" /\ p.op = o /\ p.attempts = proc.attempts
    BY <1>2, <2>1, BecomeFacts DEF Phases
  <2>3. BaseRoom + 1 = 2 * proc.attempts + 3 BY <1>1, <1>6 DEF BaseRoom, RoomBefore
  <2>4. \A c \in file'[o].journal.kept : Len(c.lines) <= 2 * p.attempts + 3 BY <2>2, <2>3
  <2> QED BY <1>2, <1>3, <2>2, <2>4, ToRelease
<1>7. CASE proc.event \in CommandEvents
  <2>1. proc' = [proc EXCEPT !.phase = "work", !.failed = TRUE, !.todo = <<>>]
    BY <1>7 DEF AppendRejected, CommandEvents
  <2>2. /\ p \in Procs /\ p.phase = "work" /\ p.todo = <<>> /\ p.op = o
        /\ p.attempts = proc.attempts
    BY <1>2, <1>4, <2>1 DEF Procs, Phases
  <2>3. BaseRoom + 1 <= 2 * proc.attempts + 1 /\ BaseRoom + 1 \in Int
    BY <1>1, <1>7 DEF BaseRoom, RoomBefore, CommandEvents
  <2>4. \A c \in file'[o].journal.kept : Len(c.lines) <= 2 * p.attempts + 1 /\ ~ Done(c)
    BY <1>1, <1>7, <2>2, <2>3
  <2> QED BY <1>2, <1>3, <2>2, <2>4, ToWork
<1> QED BY <1>5, <1>6, <1>7 DEF Events, CommandEvents

(* What an append in any of its phases may rely on. *)
LEMMA AppendFacts ==
  ASSUME IInv, Appending
  PROVE  /\ Working /\ ~ In("command") /\ proc.event \in Events \ {"operation-started"}
         /\ Base \in Seq(Events) /\ Base # <<>> /\ (\E c \in Journal.kept : c.lines = Base)
         /\ Fits(proc.op, Base) /\ Len(Base) \in Nat /\ Len(Base) <= BaseRoom /\ BaseRoom \in Int
         /\ BaseRoom + 1 <= 2 * proc.attempts + 3
         /\ proc.event = "command-started" => ran[proc.op] < proc.attempts
         /\ proc.event = "command-finished" => Open(proc.op, Base)
         /\ proc.event = "operation-completed" => file[proc.op].report.kept = {Final}
         /\ \A c \in Journal.kept : /\ Len(c.lines) <= BaseRoom + 1
                                    /\ proc.event \in CommandEvents => ~ Done(c)
<1>1. Working /\ ~ In("command") BY DEF Appending, Working, WorkPhases, In
<1>2. proc.attempts \in Nat /\ \A c \in Journal.kept :
        /\ c.lines \in Seq(Events) /\ c.lines # <<>> /\ Fits(proc.op, c.lines)
        /\ Len(c.lines) \in Nat /\ Len(c.lines) <= Room
  BY <1>1, WorkFacts
<1>3. /\ proc.event \in Events \ {"operation-started"}
      /\ \E c \in Journal.kept : c.lines = Base
      /\ Len(Base) <= BaseRoom
      /\ proc.event = "command-started" => ran[proc.op] < proc.attempts
      /\ proc.event = "command-finished" => Open(proc.op, Base)
      /\ proc.event = "operation-completed" => file[proc.op].report.kept = {Final}
  BY DEF IInv, Reversible
<1>4. Room = BaseRoom + 1 BY DEF Room, Appending, In
<1>5. BaseRoom \in Int /\ BaseRoom + 1 <= 2 * proc.attempts + 3 BY <1>2 DEF BaseRoom, RoomBefore
<1>6. \A c \in Journal.kept : proc.event \in CommandEvents => ~ Done(c) BY DEF IInv, Reporting, Unreported
<1>7. Base \in Seq(Events) /\ Base # <<>> /\ Fits(proc.op, Base) /\ Len(Base) \in Nat BY <1>2, <1>3
<1> QED BY <1>1, <1>2, <1>3, <1>4, <1>5, <1>6, <1>7

LEMMA RejectedFacts ==
  ASSUME proc \in Procs, NEW how \in {"rejected", "uncertain"}, AppendRejected(how)
  PROVE  proc'.attempts = proc.attempts /\ proc'.op = proc.op
<1>1. CASE proc.event \in {"operation-completed", "operation-incomplete"}
  BY <1>1 DEF AppendRejected, Procs
<1>2. CASE proc.event = "report-persistence-failed" BY <1>2 DEF AppendRejected, Procs, Become
<1>3. CASE proc.event \notin {"operation-completed", "operation-incomplete", "report-persistence-failed"}
  BY <1>3 DEF AppendRejected, Procs
<1> QED BY <1>1, <1>2, <1>3

(* An append that ends with nothing but its process changed. *)
LEMMA RejectedUnchanged ==
  ASSUME IInv, Appending, Elsewhere, NEW how \in {"rejected", "uncertain"}, AppendRejected(how),
         UNCHANGED <<file, index, acked>>
  PROVE  IInv'
<1>1. Working /\ ~ In("command") BY AppendFacts
<1>2. PICK o \in OperationIds : o = proc.op BY <1>1, WorkFacts
<1>3. /\ Data /\ proc \in Procs /\ Rest' /\ UNCHANGED <<ran, loose>> /\ acked[o] # <<>>
      /\ Absent \notin file[o].marker.kept /\ ran[o] <= proc.attempts /\ proc.attempts <= MaxCommands
      /\ Journal = file[o].journal /\ \A c \in Journal.kept : Len(c.lines) \in Nat
  BY <1>1, <1>2, WorkFacts
<1>4. proc'.attempts = proc.attempts BY <1>3, RejectedFacts
<1>5. Data' BY <1>3, DataSame
<1>6. Kept(o, proc)' BY <1>3, <1>4, <1>5 DEF Kept
<1>7. /\ proc.event \in Events \ {"operation-started"}
      /\ \A c \in Journal.kept : /\ Len(c.lines) <= BaseRoom + 1
                                 /\ proc.event \in CommandEvents => ~ Done(c)
  BY AppendFacts
<1>8. file'[o].journal = Journal BY <1>3
<1> QED BY <1>2, <1>3, <1>4, <1>6, <1>7, <1>8, Rejected

LEMMA BoundaryStep == ASSUME IInv, BoundaryRefuses, Elsewhere PROVE IInv'
BY RejectedUnchanged DEF BoundaryRefuses, Appending, In

LEMMA ReclaimFailsStep == ASSUME IInv, ReclaimFails, Elsewhere PROVE IInv'
BY RejectedUnchanged DEF ReclaimFails, Appending, In

-----------------------------------------------------------------------------
(* The journal append. *)

LEMMA AppendNow ==
  ASSUME IInv, In("append")
  PROVE  /\ Now.kind \in {"write", "sync"}
         /\ Now.kind = "write" =>
              Base = Journal.seen.lines /\ Tail(proc.todo) = <<SyncStep>>
         /\ Now.kind = "sync" => /\ proc.todo = <<SyncStep>>
                                 /\ Journal.seen = Line(Append(Base, proc.event))
                                 /\ Base = Front(Journal.seen.lines)
<1>1. WriteStep.kind = "write" /\ SyncStep.kind = "sync" BY DEF WriteStep, SyncStep, Step
<1>2. \/ proc.todo = <<WriteStep, SyncStep>>
      \/ /\ proc.todo = <<SyncStep>>
         /\ Journal.seen = Line(Append(Base, proc.event))
  BY DEF IInv, Reversible
<1> HIDE DEF WriteStep, SyncStep
<1>3. CASE proc.todo = <<WriteStep, SyncStep>>
  <2>1. Now.kind = "write" /\ Tail(proc.todo) = <<SyncStep>> /\ Len(proc.todo) = 2
    BY <1>1, <1>3 DEF Now
  <2>2. Base = Journal.seen.lines BY <2>1 DEF Base, In
  <2> QED BY <2>1, <2>2
<1>4. CASE /\ proc.todo = <<SyncStep>>
           /\ Journal.seen = Line(Append(Base, proc.event))
  <2>1. Now.kind = "sync" /\ Len(proc.todo) = 1 BY <1>1, <1>4 DEF Now
  <2>2. Base = Front(Journal.seen.lines) BY <2>1 DEF Base, In
  <2> QED BY <1>4, <2>1, <2>2
<1> QED BY <1>2, <1>3, <1>4

LEMMA FitsNext ==
  ASSUME Data, NEW o \in OperationIds, NEW s \in Seq(Events), Fits(o, s), acked[o] # <<>>,
         NEW e \in Events, Len(s) < 2 * MaxCommands + 4, e = "command-finished" => Open(o, s)
  PROVE  LET t == Append(s, e)
         IN  /\ t \in Seq(Events) /\ t # <<>> /\ Fits(o, t) /\ Front(t) = s /\ Len(t) = Len(s) + 1
             /\ Begun(t) = Begun(s) + (IF e = "command-started" THEN 1 ELSE 0)
             /\ Ended(t) = Ended(s) + (IF e = "command-finished" THEN 1 ELSE 0)
             /\ \A x : (\E i \in DOMAIN t : t[i] = x) => x = e \/ \E i \in DOMAIN s : s[i] = x
<1> DEFINE t == Append(s, e)
<1>1. t \in Seq(Events) /\ t # <<>> /\ Len(t) = Len(s) + 1 /\ Len(s) \in Nat OBVIOUS
<1>2. Front(t) = s BY FrontAppend
<1>3. /\ Begun(t) = Begun(s) + (IF "command-started" = e THEN 1 ELSE 0)
      /\ Ended(t) = Ended(s) + (IF "command-finished" = e THEN 1 ELSE 0)
  BY TallyAppend DEF Begun, Ended
<1>4. Begun(s) \in Nat /\ Ended(s) \in Nat BY TallyNat DEF Begun, Ended
<1>5. \A x : (\E i \in DOMAIN t : t[i] = x) => x = e \/ \E i \in DOMAIN s : s[i] = x OBVIOUS
<1>6. acked[o] \in Seq(Events) /\ IsPrefix(acked[o], s) /\ ran[o] \in Nat
  BY DEF Data, Typed, Fits
<1>7. IsPrefix(acked[o], t) BY <1>6, PrefixAppend
<1> HIDE DEF t
<1>8. Owed(o) \in {0, 1} BY DEF Owed
<1>9. Len(t) <= 2 * MaxCommands + 4 BY <1>1, ReportFilesAssumption
<1>10. ran[o] <= Begun(s) /\ Ended(s) + Owed(o) <= Begun(s) BY DEF Fits
<1>11. ran[o] <= Begun(t) BY <1>3, <1>4, <1>6, <1>10
<1>12. Ended(t) + Owed(o) <= Begun(t)
  <2>1. CASE e = "command-finished"
    <3>1. Ended(s) + Owed(o) < Begun(s) BY <2>1 DEF Open
    <3> QED BY <1>3, <1>4, <1>8, <2>1, <3>1
  <2>2. CASE e # "command-finished" BY <1>3, <1>4, <1>8, <1>10, <2>2
  <2> QED BY <2>1, <2>2
<1>13. Fits(o, t) BY <1>7, <1>9, <1>11, <1>12 DEF Fits
<1> QED BY <1>1, <1>2, <1>3, <1>5, <1>13 DEF t

LEMMA PutJournalFacts ==
  ASSUME Typed, NEW o \in OperationIds, NEW f \in File(Contents),
         file' = [file EXCEPT ![o]["journal"] = f]
  PROVE  file'[o]["journal"] = f /\ \A m \in Names : m # "journal" => file'[o][m] = file[o][m]
<1>1. "journal" \in Names BY DEF Names
<1> QED BY <1>1, PutFacts

LEMMA JournalPut ==
  ASSUME IInv, Working, ~ In("command"), Elsewhere, NEW o, o = proc.op,
         NEW f \in File(Contents), f.seen \in f.kept, PutJournal(f),
         acked' \in [OperationIds -> Seq(Events)],
         \A p \in OperationIds : p # o => acked'[p] = acked[p],
         \A c \in f.kept :
           /\ c.lines \in Seq(Events) /\ Fits(o, c.lines)'
           /\ Done(c) => file[o].report.kept = {Final} \/ \E d \in Journal.kept : Done(d)
  PROVE  /\ Data' /\ Rest' /\ UNCHANGED <<index, ran, loose>> /\ file'[o].journal = f
         /\ file'[o].marker = file[o].marker /\ file'[o].report = file[o].report
<1>1. /\ Data /\ Typed /\ Rest' /\ UNCHANGED <<ran, loose>> /\ o \in OperationIds
      /\ Journal = file[o].journal
  BY WorkFacts
<1>2. file' = [file EXCEPT ![o]["journal"] = f] /\ UNCHANGED index BY DEF PutJournal
<1>3. Reported(o) /\ Shaped(o) BY <1>1 DEF Data, Lasting
<1>4. \A c \in f.kept : Done(c) => /\ file[o].report.kept \subseteq {Final, Failed}
                                   /\ file[o].report.seen = Final => file[o].report.kept = {Final}
  BY <1>1, <1>3 DEF Reported
<1>5. Data' BY <1>1, <1>2, <1>4, DataJournal
<1>6. /\ file'[o]["journal"] = f
      /\ \A m \in Names : m # "journal" => file'[o][m] = file[o][m]
  BY <1>1, <1>2, PutJournalFacts
<1> QED BY <1>1, <1>2, <1>5, <1>6 DEF Names

(* What an append in doubt needs, in any of its phases. *)
LEMMA ToDoubt ==
  ASSUME NEW o, NEW p, proc' = p, p \in Procs, p.op = o, Kept(o, p)', p.phase \in {"append", "rollback", "reclaim"},
         NEW b, b = Base',
         p.event \in Events \ {"operation-started"},
         \E c \in file'[o].journal.kept : c.lines = b,
         Len(b) <= RoomBefore(p.event, p.attempts),
         p.event = "command-started" => ran'[o] < p.attempts,
         p.event = "command-finished" => Open(o, b)',
         p.event = "operation-completed" => file'[o].report.kept = {Final},
         \A c \in file'[o].journal.kept : /\ Len(c.lines) <= RoomBefore(p.event, p.attempts) + 1
                                          /\ p.event \in CommandEvents => ~ Done(c),
         p.phase = "append" =>
           \/ p.todo = <<Step("write", "journal", o), Step("sync", "journal", o)>>
           \/ /\ p.todo = <<Step("sync", "journal", o)>>
              /\ file'[o].journal.seen = Line(Append(b, p.event)),
         p.phase = "rollback" => ~ p.content.torn
  PROVE  IInv'
<1>1. Room' = RoomBefore(p.event, p.attempts) + 1 /\ BaseRoom' = RoomBefore(p.event, p.attempts)
  BY DEF Room, In, BaseRoom, RoomBefore
<1>2. Operating' BY <1>1 DEF Operating, Working, WorkPhases, Journal, Kept
<1>3. Open(proc.op, Base)' <=> Open(o, b)' BY DEF Open, Owed
<1>4. Reversible'
  <2>1. WriteStep' = Step("write", "journal", o) /\ SyncStep' = Step("sync", "journal", o)
    BY DEF WriteStep, SyncStep
  <2>2. Journal' = file'[o].journal BY DEF Journal
  <2>3. (Appending =>
           /\ proc.event \in Events \ {"operation-started"}
           /\ \E c \in Journal.kept : c.lines = Base
           /\ Len(Base) <= BaseRoom
           /\ proc.event = "command-started" => ran[proc.op] < proc.attempts
           /\ proc.event = "command-finished" => Open(proc.op, Base)
           /\ proc.event = "operation-completed" => file[proc.op].report.kept = {Final})'
    BY <1>1, <1>3, <2>2
  <2>4. (In("append") => \/ proc.todo = <<WriteStep, SyncStep>>
                         \/ /\ proc.todo = <<SyncStep>>
                            /\ Journal.seen = Line(Append(Base, proc.event)))'
    BY <2>1, <2>2 DEF In
  <2>5. (In("rollback") => ~ proc.content.torn)' BY DEF In
  <2> QED BY <2>3, <2>4, <2>5 DEF Reversible
<1>5. Reporting' BY DEF Reporting, Unreported, Appending, In, Journal
<1> QED BY <1>2, <1>4, <1>5, Operated DEF Kept, WorkPhases

LEMMA AppendLineStep == ASSUME IInv, AppendLine, Elsewhere PROVE IInv'
<1>1. /\ In("append") /\ Appending /\ Now.kind = "write" /\ ~ Journal.seen.torn
      /\ PutJournal(Written(Journal, Line(Append(Journal.seen.lines, proc.event)), Ragged(Journal.seen)))
      /\ Proceed /\ UNCHANGED acked
  BY DEF AppendLine, Appending, In
<1>2. PICK o \in OperationIds : o = proc.op BY <1>1, AppendFacts, WorkFacts
<1>3. PICK e \in Events : e = proc.event /\ e # "operation-started" BY <1>1, AppendFacts
<1>4. PICK b \in Seq(Events) : b = Base BY <1>1, AppendFacts
<1>5. Working /\ ~ In("command") BY <1>1, AppendFacts
<1>6. /\ Data /\ Typed /\ proc \in Procs /\ proc.attempts \in Nat /\ proc.attempts <= MaxCommands
      /\ MaxCommands \in Nat /\ Rest' /\ UNCHANGED <<ran, loose>>
      /\ acked[o] # <<>> /\ Absent \notin file[o].marker.kept /\ ran[o] <= proc.attempts
      /\ Journal = file[o].journal /\ Journal \in File(Contents) /\ Journal.seen \in Journal.kept
      /\ \A c \in Journal.kept : c \in Contents /\ c.lines \in Seq(Events) /\ Fits(o, c.lines)
  BY <1>2, <1>5, WorkFacts
<1>7. /\ b # <<>> /\ (\E c \in Journal.kept : c.lines = b) /\ Fits(o, b) /\ Len(b) \in Nat
      /\ Len(b) <= BaseRoom /\ BaseRoom \in Int /\ BaseRoom + 1 <= 2 * proc.attempts + 3
      /\ e = "command-started" => ran[o] < proc.attempts
      /\ e = "command-finished" => Open(o, b)
      /\ e = "operation-completed" => file[o].report.kept = {Final}
      /\ \A c \in Journal.kept : /\ Len(c.lines) <= BaseRoom + 1
                                 /\ e \in CommandEvents => ~ Done(c)
  BY <1>1, <1>2, <1>3, <1>4, AppendFacts
<1>8. b = Journal.seen.lines /\ Tail(proc.todo) = <<SyncStep>> BY <1>1, <1>4, AppendNow
<1> DEFINE t == Append(b, e)
           g == Journal
           f == Written(g, Line(t), Ragged(g.seen))
<1>9. Len(b) < 2 * MaxCommands + 4 BY <1>6, <1>7
<1>10. /\ t \in Seq(Events) /\ t # <<>> /\ Fits(o, t) /\ Front(t) = b /\ Len(t) = Len(b) + 1
       /\ \A x : (\E i \in DOMAIN t : t[i] = x) => x = e \/ \E i \in DOMAIN b : b[i] = x
  BY <1>6, <1>7, <1>9, FitsNext
<1>11. /\ Line(t) \in Contents /\ Line(t).lines = t
       /\ Ragged(g.seen) \in Contents /\ Ragged(g.seen).lines = b
  BY <1>6, <1>8, <1>10, ContentFacts
<1>12. /\ f \in File(Contents) /\ f.seen = Line(t) /\ f.kept = g.kept \cup {Ragged(g.seen), Line(t)}
  <2> HIDE DEF t
  <2>1. PICK x \in Contents : x = Line(t) BY <1>11
  <2>2. PICK y \in Contents : y = Ragged(g.seen) BY <1>11
  <2>3. PICK h \in File(Contents) : h = g BY <1>6
  <2>4. f = Written(h, x, y) BY <2>1, <2>2, <2>3
  <2>5. h.seen \in h.kept BY <1>6, <2>3
  <2> HIDE DEF f, g
  <2>6. /\ Written(h, x, y) \in File(Contents) /\ Written(h, x, y).seen = x
        /\ Written(h, x, y).kept = h.kept \cup {y, x}
    BY DEF Written, File
  <2> QED BY <2>1, <2>2, <2>3, <2>4, <2>6
<1>13. PutJournal(f) BY <1>1, <1>3, <1>8
<1>14. f.seen \in f.kept BY <1>12
<1>15. Done(Line(t)) => e = "operation-completed" \/ Done(g.seen)
  BY <1>8, <1>10, <1>11 DEF Done, Holds
<1> HIDE DEF t, f
<1>16. \A c \in f.kept :
         /\ c.lines \in Seq(Events) /\ Fits(o, c.lines)
         /\ Done(c) => file[o].report.kept = {Final} \/ \E d \in Journal.kept : Done(d)
         /\ Len(c.lines) <= BaseRoom + 1
         /\ e \in CommandEvents => ~ Done(c)
  <2>1. SUFFICES ASSUME NEW c \in f.kept
                 PROVE  /\ c.lines \in Seq(Events) /\ Fits(o, c.lines)
                        /\ Done(c) => file[o].report.kept = {Final} \/ \E d \in Journal.kept : Done(d)
                        /\ Len(c.lines) <= BaseRoom + 1
                        /\ e \in CommandEvents => ~ Done(c)
    OBVIOUS
  <2>2. CASE c \in g.kept BY <1>6, <1>7, <2>2
  <2>3. CASE c = Ragged(g.seen)
    <3>1. Done(c) <=> Done(g.seen) BY <1>8, <1>11, <2>3 DEF Done, Holds
    <3>2. c.lines = b BY <1>11, <2>3
    <3> QED BY <1>6, <1>7, <1>8, <3>1, <3>2
  <2>4. CASE c = Line(t)
    <3>1. c.lines = t /\ (Done(c) => e = "operation-completed" \/ Done(g.seen)) BY <1>11, <1>15, <2>4
    <3>2. Len(t) <= BaseRoom + 1 BY <1>7, <1>10
    <3>3. e = "operation-completed" => e \notin CommandEvents BY DEF CommandEvents
    <3> QED BY <1>6, <1>7, <1>10, <3>1, <3>2, <3>3
  <2> QED BY <1>12, <2>2, <2>3, <2>4
<1>17. \A c \in f.kept : Fits(o, c.lines)'
  <2>1. SUFFICES ASSUME NEW c \in f.kept PROVE Fits(o, c.lines)' OBVIOUS
  <2>2. Fits(o, c.lines) BY <1>16
  <2> QED BY <1>1, <1>6, <2>2 DEF Fits, Owed
<1>18. /\ acked' \in [OperationIds -> Seq(Events)] /\ \A p \in OperationIds : p # o => acked'[p] = acked[p]
  BY <1>1, <1>6 DEF Typed
<1>19. /\ Data' /\ Rest' /\ UNCHANGED <<index, ran, loose>> /\ file'[o].journal = f
       /\ file'[o].marker = file[o].marker /\ file'[o].report = file[o].report
  BY <1>2, <1>5, <1>12, <1>13, <1>14, <1>16, <1>17, <1>18, JournalPut
<1>20. PICK s : s = <<Step("sync", "journal", o)>> /\ s \in Seq(Steps)
  <2>1. Step("sync", "journal", o) \in Steps BY DEF Steps, Step, Names
  <2>2. <<Step("sync", "journal", o)>> \in Seq(Steps) BY <2>1
  <2> QED BY <2>2
<1>21. proc' = [proc EXCEPT !.todo = s] BY <1>1, <1>2, <1>8, <1>20 DEF Proceed, SyncStep
<1>22. PICK p : p = proc' OBVIOUS
<1>23. /\ p \in Procs /\ p.todo = s /\ p.phase = "append" /\ p.op = o /\ p.event = e
       /\ p.attempts = proc.attempts
  BY <1>1, <1>2, <1>3, <1>6, <1>20, <1>21, <1>22, ProceedFacts DEF In
<1>24. Kept(o, p)' BY <1>1, <1>6, <1>19, <1>22, <1>23 DEF Kept
<1>25. b = Base'
  <2>1. Len(p.todo) = 1 BY <1>20, <1>23
  <2>2. Journal'.seen.lines = t BY <1>11, <1>12, <1>19, <1>22, <1>23 DEF Journal
  <2> QED BY <1>10, <1>22, <1>23, <2>1, <2>2 DEF Base, In, t
<1>26. BaseRoom = RoomBefore(p.event, p.attempts) BY <1>3, <1>23 DEF BaseRoom
<1>27. e = "command-finished" => Open(o, b)' BY <1>7, <1>19 DEF Open, Owed
<1>28. \E c \in file'[o].journal.kept : c.lines = b BY <1>7, <1>12, <1>19
<1>29. file'[o].journal.seen = Line(Append(b, p.event)) BY <1>12, <1>19, <1>23 DEF t
<1>30. \A c \in file'[o].journal.kept : /\ Len(c.lines) <= RoomBefore(p.event, p.attempts) + 1
                                        /\ p.event \in CommandEvents => ~ Done(c)
  BY <1>16, <1>19, <1>23, <1>26
<1> HIDE DEF g
<1>31. /\ Len(b) <= RoomBefore(p.event, p.attempts)
       /\ p.event \in Events \ {"operation-started"}
       /\ p.event = "command-started" => ran'[o] < p.attempts
       /\ p.event = "command-finished" => Open(o, b)'
       /\ p.event = "operation-completed" => file'[o].report.kept = {Final}
  BY <1>3, <1>7, <1>19, <1>23, <1>26, <1>27
<1>32. p.phase = "append" =>
         \/ p.todo = <<Step("write", "journal", o), Step("sync", "journal", o)>>
         \/ /\ p.todo = <<Step("sync", "journal", o)>>
            /\ file'[o].journal.seen = Line(Append(b, p.event))
  BY <1>20, <1>23, <1>29
<1>33. p.phase \in {"append", "rollback", "reclaim"} /\ (p.phase = "rollback" => ~ p.content.torn)
  BY <1>23
<1> QED BY <1>22, <1>23, <1>24, <1>25, <1>28, <1>30, <1>31, <1>32, <1>33, ToDoubt

LEMMA WrittenFacts ==
  ASSUME NEW f \in File(Contents), NEW c \in Contents, NEW d \in Contents
  PROVE  /\ Written(f, c, d) \in File(Contents) /\ Written(f, c, d).seen = c
         /\ Written(f, c, d).kept = f.kept \cup {d, c}
BY DEF Written, File

(* The command may start: its line is on disk, and is not answered yet. *)
LEMMA ToCommand ==
  ASSUME NEW o, NEW p, proc' = p, p \in Procs, p.op = o, Kept(o, p)', p.phase = "command",
         p.todo = <<>>, NEW c, file'[o].journal.kept = {c}, file'[o].journal.seen = c,
         ~ Done(c), Open(o, c.lines)', Len(c.lines) <= 2 * p.attempts,
         ran'[o] < Begun(c.lines), ran'[o] < p.attempts
  PROVE  IInv'
<1>1. Room' = 2 * p.attempts BY DEF Room, In
<1>2. Operating' BY <1>1 DEF Operating, Working, WorkPhases, Journal, Kept
<1>3. Reversible' BY DEF Reversible, Appending, In
<1>4. Reporting' BY DEF Reporting, Unreported, Appending, In, Journal
<1>5. Booting' /\ Reserving' /\ Undoing' BY DEF Booting, Reserving, Undoing, In
<1>6. Rest' /\ Data' BY DEF Kept
<1>7. Calling'
  BY <1>6, CommandRunnerAssumption
     DEF Rest, Calling, RunnerTypeOK, NoCall, NoLeader, CallPlaces, Reasons, Results, At,
         Quiet, Running, Stuck
<1>8. Journal' = file'[o].journal BY DEF Journal
<1>9. Open(proc.op, Journal.seen.lines)' BY <1>8 DEF Open, Owed
<1>10. Commanding' BY <1>7, <1>8, <1>9 DEF Commanding, In
<1> QED BY <1>2, <1>3, <1>4, <1>5, <1>6, <1>10 DEF IInv

LEMMA SyncLineStep == ASSUME IInv, SyncLine, Elsewhere PROVE IInv'
<1>1. /\ In("append") /\ Appending /\ Now.kind = "sync" /\ PutJournal(Synced(Journal))
      /\ acked' = [acked EXCEPT ![proc.op] = Journal.seen.lines]
  BY DEF SyncLine, Appending, In
<1>2. PICK o \in OperationIds : o = proc.op BY <1>1, AppendFacts, WorkFacts
<1>3. PICK e \in Events : e = proc.event /\ e # "operation-started" BY <1>1, AppendFacts
<1>4. PICK b \in Seq(Events) : b = Base BY <1>1, AppendFacts
<1>5. Working /\ ~ In("command") BY <1>1, AppendFacts
<1>6. /\ Data /\ Typed /\ proc \in Procs /\ proc.attempts \in Nat /\ proc.attempts <= MaxCommands
      /\ MaxCommands \in Nat /\ Rest' /\ UNCHANGED <<ran, loose>> /\ ran[o] \in Nat
      /\ acked[o] # <<>> /\ Absent \notin file[o].marker.kept /\ ran[o] <= proc.attempts
      /\ Journal = file[o].journal /\ Journal \in File(Contents) /\ Journal.seen \in Journal.kept
      /\ \A c \in Journal.kept : /\ c \in Contents /\ c.lines \in Seq(Events) /\ c.lines # <<>>
                                 /\ Fits(o, c.lines)
  BY <1>2, <1>5, WorkFacts
<1>7. /\ b # <<>> /\ Fits(o, b) /\ Len(b) \in Nat
      /\ Len(b) <= BaseRoom /\ BaseRoom \in Int /\ BaseRoom + 1 <= 2 * proc.attempts + 3
      /\ e = "command-started" => ran[o] < proc.attempts
      /\ e = "command-finished" => Open(o, b)
      /\ \A c \in Journal.kept : e \in CommandEvents => ~ Done(c)
  BY <1>1, <1>2, <1>3, <1>4, AppendFacts
<1> DEFINE t == Append(b, e)
<1>8. Journal.seen = Line(t) BY <1>1, <1>3, <1>4, AppendNow
<1>9. Len(b) < 2 * MaxCommands + 4 BY <1>6, <1>7
<1>10. /\ t \in Seq(Events) /\ t # <<>> /\ Fits(o, t) /\ Len(t) = Len(b) + 1
       /\ Begun(t) = Begun(b) + (IF e = "command-started" THEN 1 ELSE 0)
       /\ Ended(t) = Ended(b) + (IF e = "command-finished" THEN 1 ELSE 0)
  BY <1>6, <1>7, <1>9, FitsNext
<1> HIDE DEF t
<1>11. Line(t) \in Contents /\ Line(t).lines = t BY <1>10, ContentFacts
<1>12. PICK f \in File(Contents) : f = Synced(Journal) /\ f.seen = Line(t) /\ f.kept = {Line(t)}
  <2>1. PICK g \in File(Contents) : g = Journal BY <1>6
  <2>2. Absent \notin g.kept BY <1>6, <2>1, DistinctContents
  <2>3. g.seen \in g.kept BY <1>6, <2>1
  <2>4. /\ Synced(g) \in File(Contents) /\ Synced(g).seen = g.seen
        /\ Synced(g).kept = (g.kept \cap {Absent}) \cup {g.seen}
    BY <2>3, EntryFacts
  <2> QED BY <1>8, <2>1, <2>2, <2>4
<1>13. PutJournal(f) /\ f.seen \in f.kept BY <1>1, <1>12
<1>14. /\ acked' \in [OperationIds -> Seq(Events)] /\ acked'[o] = t
       /\ \A p \in OperationIds : p # o => acked'[p] = acked[p]
  BY <1>1, <1>2, <1>6, <1>8, <1>10, <1>11 DEF Typed
<1>15. Fits(o, t)'
  <2>1. IsPrefix(t, t) BY <1>10, PrefixSelf
  <2> QED BY <1>6, <1>10, <1>14, <2>1 DEF Fits, Owed
<1>16. Line(t) \in Journal.kept BY <1>6, <1>8
<1>17. \A c \in f.kept :
         /\ c.lines \in Seq(Events) /\ Fits(o, c.lines)'
         /\ Done(c) => file[o].report.kept = {Final} \/ \E d \in Journal.kept : Done(d)
  BY <1>10, <1>11, <1>12, <1>15, <1>16
<1>18. /\ Data' /\ Rest' /\ UNCHANGED <<index, ran, loose>> /\ file'[o].journal = f
       /\ file'[o].marker = file[o].marker
  BY <1>2, <1>5, <1>13, <1>14, <1>17, JournalPut
<1>19. PICK p : p = proc' OBVIOUS
<1>20. \A phase \in Phases : Become(phase) =>
         /\ p \in Procs /\ p.phase = phase /\ p.todo = <<>> /\ p.op = o
         /\ p.attempts = proc.attempts /\ Kept(o, p)'
  <2>1. SUFFICES ASSUME NEW phase \in Phases, Become(phase)
                 PROVE  /\ p \in Procs /\ p.phase = phase /\ p.todo = <<>> /\ p.op = o
                        /\ p.attempts = proc.attempts /\ Kept(o, p)'
    OBVIOUS
  <2>2. /\ p \in Procs /\ p.phase = phase /\ p.todo = <<>> /\ p.op = o
        /\ p.attempts = proc.attempts
    BY <1>2, <1>6, <1>19, <2>1, BecomeFacts
  <2> QED BY <1>6, <1>10, <1>14, <1>18, <2>2 DEF Kept
<1>21. BaseRoom = RoomBefore(e, proc.attempts) BY <1>3 DEF BaseRoom
<1>22. {"command", "work", "release"} \subseteq Phases BY DEF Phases
<1>23. CASE e = "command-started"
  <2>1. Become("command") BY <1>3, <1>23 DEF SyncLine
  <2>2. BaseRoom = 2 * proc.attempts - 1 BY <1>21, <1>23 DEF RoomBefore
  <2>3. Len(t) <= 2 * p.attempts BY <1>6, <1>7, <1>10, <1>20, <1>22, <2>1, <2>2
  <2>4. Begun(b) \in Nat /\ Ended(b) \in Nat /\ ran[o] <= Begun(b) /\ Ended(b) + Owed(o) <= Begun(b)
    BY <1>7, TallyNat DEF Fits, Begun, Ended
  <2>5. Owed(o) \in {0, 1} BY DEF Owed
  <2>6. ran[o] < Begun(t) /\ Open(o, t) BY <1>6, <1>10, <1>23, <2>4, <2>5 DEF Open
  <2>7. Open(o, t)' BY <1>6, <2>6 DEF Open, Owed
  <2>8. ~ Done(Line(t)) BY <1>7, <1>16, <1>23 DEF CommandEvents
  <2>9. ran'[o] < Begun(t) /\ ran'[o] < p.attempts BY <1>6, <1>7, <1>20, <1>22, <1>23, <2>1, <2>6
  <2> QED BY <1>11, <1>12, <1>18, <1>19, <1>20, <1>22, <2>1, <2>3, <2>7, <2>8, <2>9, ToCommand
<1>24. CASE e = "command-finished"
  <2>1. Become("work") BY <1>3, <1>24 DEF SyncLine
  <2>2. BaseRoom = 2 * proc.attempts BY <1>21, <1>24 DEF RoomBefore
  <2>3. Len(t) <= 2 * p.attempts + 1 BY <1>6, <1>7, <1>10, <1>20, <1>22, <2>1, <2>2
  <2>4. ~ Done(Line(t)) BY <1>7, <1>16, <1>24 DEF CommandEvents
  <2>5. \A c \in file'[o].journal.kept : Len(c.lines) <= 2 * p.attempts + 1 /\ ~ Done(c)
    BY <1>11, <1>12, <1>18, <2>3, <2>4
  <2> QED BY <1>19, <1>20, <1>22, <2>1, <2>5, ToWork
<1>25. CASE e \notin {"command-started", "command-finished"}
  <2>1. Become("release") BY <1>3, <1>25 DEF SyncLine
  <2>2. Len(t) <= 2 * p.attempts + 3 BY <1>6, <1>7, <1>10, <1>20, <1>22, <2>1
  <2>3. \A c \in file'[o].journal.kept : Len(c.lines) <= 2 * p.attempts + 3
    BY <1>11, <1>12, <1>18, <2>2
  <2> QED BY <1>19, <1>20, <1>22, <2>1, <2>3, ToRelease
<1> QED BY <1>23, <1>24, <1>25

(* A change of the journal that adds no line to what may be left. *)
LEMMA AppendPut ==
  ASSUME IInv, Appending, Elsewhere, NEW o, o = proc.op, NEW f \in File(Contents), f.seen \in f.kept,
         PutJournal(f), UNCHANGED acked,
         \A c \in f.kept : \E d \in Journal.kept : c.lines = d.lines
  PROVE  /\ Data' /\ Rest' /\ UNCHANGED <<ran, loose>> /\ o \in OperationIds
         /\ acked'[o] # <<>> /\ Absent \notin file'[o].marker.kept
         /\ ran'[o] <= proc.attempts /\ proc.attempts <= MaxCommands
         /\ file'[o].journal = f /\ file'[o].report = file[o].report
         /\ \A c \in f.kept : /\ Len(c.lines) \in Nat /\ Len(c.lines) <= BaseRoom + 1
                              /\ proc.event \in CommandEvents => ~ Done(c)
<1>1. Working /\ ~ In("command") BY AppendFacts
<1>2. /\ Data /\ Typed /\ Rest' /\ UNCHANGED <<ran, loose>> /\ o \in OperationIds
      /\ acked[o] # <<>> /\ Absent \notin file[o].marker.kept
      /\ ran[o] <= proc.attempts /\ proc.attempts <= MaxCommands
      /\ \A c \in Journal.kept : c.lines \in Seq(Events) /\ Fits(o, c.lines) /\ Len(c.lines) \in Nat
  BY <1>1, WorkFacts
<1>3. \A c \in Journal.kept : /\ Len(c.lines) <= BaseRoom + 1
                              /\ proc.event \in CommandEvents => ~ Done(c)
  BY AppendFacts
<1>4. \A c \in f.kept : /\ c.lines \in Seq(Events) /\ Fits(o, c.lines) /\ Len(c.lines) \in Nat
                        /\ Len(c.lines) <= BaseRoom + 1
  BY <1>2, <1>3
<1>5. \A c \in f.kept : \A d \in Journal.kept : c.lines = d.lines => (Done(c) <=> Done(d))
  BY DEF Done, Holds
<1>6. \A c \in f.kept : Fits(o, c.lines)'
  <2>1. SUFFICES ASSUME NEW c \in f.kept PROVE Fits(o, c.lines)' OBVIOUS
  <2>2. Fits(o, c.lines) BY <1>4
  <2> QED BY <1>2, <2>2 DEF Fits, Owed
<1>7. /\ acked' \in [OperationIds -> Seq(Events)] /\ \A p \in OperationIds : p # o => acked'[p] = acked[p]
  BY <1>2 DEF Typed
<1>8. \A c \in f.kept :
         /\ c.lines \in Seq(Events) /\ Fits(o, c.lines)'
         /\ Done(c) => file[o].report.kept = {Final} \/ \E d \in Journal.kept : Done(d)
  BY <1>4, <1>5, <1>6
<1>9. /\ Data' /\ file'[o].journal = f
      /\ file'[o].marker = file[o].marker /\ file'[o].report = file[o].report
  BY <1>1, <1>7, <1>8, JournalPut
<1> QED BY <1>2, <1>3, <1>4, <1>5, <1>9

(* An append goes on in doubt. *)
LEMMA StaysInDoubt ==
  ASSUME IInv, Appending, NEW o, o = proc.op, NEW p, p = proc', p \in Procs, p.op = o,
         Data', Rest', UNCHANGED <<ran, loose>>, o \in OperationIds,
         acked'[o] # <<>>, Absent \notin file'[o].marker.kept,
         ran'[o] <= proc.attempts, proc.attempts <= MaxCommands,
         file'[o].report = file[o].report,
         p.phase \in {"append", "rollback", "reclaim"}, p.event = proc.event,
         p.attempts = proc.attempts, Base = Base', \E c \in file'[o].journal.kept : c.lines = Base,
         \A c \in file'[o].journal.kept : /\ Len(c.lines) <= BaseRoom + 1
                                          /\ proc.event \in CommandEvents => ~ Done(c),
         p.phase = "append" => p.todo = <<Step("write", "journal", o), Step("sync", "journal", o)>>,
         p.phase = "rollback" => ~ p.content.torn
  PROVE  IInv'
<1>1. Kept(o, p)' BY DEF Kept
<1>2. PICK b : b = Base OBVIOUS
<1>3. /\ proc.event \in Events \ {"operation-started"} /\ Len(b) <= BaseRoom
      /\ proc.event = "command-started" => ran[o] < proc.attempts
      /\ proc.event = "command-finished" => Open(o, b)
      /\ proc.event = "operation-completed" => file[o].report.kept = {Final}
  BY <1>2, AppendFacts
<1>4. BaseRoom = RoomBefore(p.event, p.attempts) BY DEF BaseRoom
<1>5. proc.event = "command-finished" => Open(o, b)' BY <1>3 DEF Open, Owed
<1>6. b = Base' /\ \E c \in file'[o].journal.kept : c.lines = b BY <1>2
<1>7. /\ p.event \in Events \ {"operation-started"}
      /\ Len(b) <= RoomBefore(p.event, p.attempts)
      /\ p.event = "command-started" => ran'[o] < p.attempts
      /\ p.event = "command-finished" => Open(o, b)'
      /\ p.event = "operation-completed" => file'[o].report.kept = {Final}
  BY <1>3, <1>4, <1>5
<1>8. \A c \in file'[o].journal.kept : /\ Len(c.lines) <= RoomBefore(p.event, p.attempts) + 1
                                       /\ p.event \in CommandEvents => ~ Done(c)
  BY <1>4
<1> QED BY <1>1, <1>6, <1>7, <1>8, ToDoubt

LEMMA AppendFailsStep == ASSUME IInv, AppendFails, Elsewhere PROVE IInv'
<1>1. In("append") /\ Appending /\ UNCHANGED acked BY DEF AppendFails, Appending, In
<1>2. PICK cause \in {"io", "capacity"} :
        IF Now.kind = "write"
        THEN /\ ~ Journal.seen.torn /\ Journal.seen.lines # <<>>
             /\ \E c \in {Journal.seen, Ragged(Journal.seen)} : PutJournal(Written(Journal, c, c))
             /\ proc' = [proc EXCEPT !.phase = "rollback", !.cause = cause,
                                     !.content = Journal.seen, !.todo = <<>>]
        ELSE /\ proc' = [proc EXCEPT !.phase = "rollback", !.cause = cause,
                           !.content = Line(Front(Journal.seen.lines)), !.todo = <<>>]
             /\ UNCHANGED <<file, index>>
  BY DEF AppendFails
<1>3. Working /\ ~ In("command") BY <1>1, AppendFacts
<1>4. PICK o \in OperationIds : o = proc.op BY <1>3, WorkFacts
<1>5. PICK b \in Seq(Events) : b = Base BY <1>1, AppendFacts
<1>6. /\ Data /\ proc \in Procs /\ Rest' /\ UNCHANGED <<ran, loose>>
      /\ acked[o] # <<>> /\ Absent \notin file[o].marker.kept
      /\ ran[o] <= proc.attempts /\ proc.attempts <= MaxCommands
      /\ Journal = file[o].journal /\ Journal \in File(Contents) /\ Journal.seen \in Journal.kept
      /\ \A c \in Journal.kept : c \in Contents
  BY <1>3, <1>4, WorkFacts
<1>7. /\ \E c \in Journal.kept : c.lines = b
      /\ \A c \in Journal.kept : /\ Len(c.lines) <= BaseRoom + 1
                                 /\ proc.event \in CommandEvents => ~ Done(c)
  BY <1>1, <1>5, AppendFacts
<1>8. PICK x \in Contents :
        /\ x.lines = b /\ ~ x.torn
        /\ proc' = [proc EXCEPT !.phase = "rollback", !.cause = cause, !.content = x, !.todo = <<>>]
  <2>1. CASE Now.kind = "write"
    <3>1. Base = Journal.seen.lines BY <1>1, <2>1, AppendNow
    <3> QED BY <1>2, <1>5, <1>6, <2>1, <3>1
  <2>2. CASE Now.kind # "write"
    <3>1. Base = Front(Journal.seen.lines) BY <1>1, <2>2, AppendNow
    <3>2. Line(b) \in Contents /\ Line(b).lines = b /\ ~ Line(b).torn BY <1>5, ContentFacts
    <3> QED BY <1>2, <1>5, <2>2, <3>1, <3>2
  <2> QED BY <2>1, <2>2
<1>9. PICK p : p = proc' OBVIOUS
<1>10. /\ p \in Procs /\ p.phase = "rollback" /\ p.content = x /\ p.todo = <<>> /\ p.op = o
       /\ p.event = proc.event /\ p.attempts = proc.attempts
  <2>1. <<>> \in Seq(Steps) /\ "rollback" \in Phases BY DEF Phases
  <2> QED BY <1>2, <1>4, <1>6, <1>8, <1>9, <2>1 DEF Procs
<1>11. Base = Base' BY <1>5, <1>8, <1>9, <1>10 DEF Base, In
<1>12. CASE Now.kind = "write"
  <2>1. PICK c \in {Journal.seen, Ragged(Journal.seen)} : PutJournal(Written(Journal, c, c))
    BY <1>2, <1>12
  <2>2. c \in Contents /\ c.lines = Journal.seen.lines BY <1>6, <2>1, ContentFacts
  <2>3. PICK f \in File(Contents) : f = Written(Journal, c, c) /\ f.seen = c /\ f.kept = Journal.kept \cup {c}
    <3>1. PICK g \in File(Contents) : g = Journal BY <1>6
    <3>2. /\ Written(g, c, c) \in File(Contents) /\ Written(g, c, c).seen = c
          /\ Written(g, c, c).kept = g.kept \cup {c, c}
      BY <2>2, WrittenFacts
    <3> QED BY <3>1, <3>2
  <2>4. \A d \in f.kept : \E e \in Journal.kept : d.lines = e.lines BY <1>6, <2>2, <2>3
  <2>5. /\ Data' /\ acked'[o] # <<>> /\ Absent \notin file'[o].marker.kept
        /\ file'[o].journal = f /\ file'[o].report = file[o].report
        /\ \A d \in f.kept : /\ Len(d.lines) <= BaseRoom + 1
                             /\ proc.event \in CommandEvents => ~ Done(d)
    BY <1>1, <1>4, <2>1, <2>3, <2>4, AppendPut
  <2>6. \E d \in file'[o].journal.kept : d.lines = Base BY <1>5, <1>7, <2>3, <2>5
  <2> QED BY <1>1, <1>4, <1>6, <1>8, <1>9, <1>10, <1>11, <2>5, <2>6, StaysInDoubt
<1>13. CASE Now.kind # "write"
  <2>1. UNCHANGED <<file, index>> BY <1>2, <1>13
  <2>2. Data' BY <1>1, <1>6, <2>1, DataSame
  <2>3. \E d \in file'[o].journal.kept : d.lines = Base BY <1>5, <1>6, <1>7, <2>1
  <2>4. /\ acked'[o] # <<>> /\ Absent \notin file'[o].marker.kept /\ file'[o].report = file[o].report
        /\ \A d \in file'[o].journal.kept : /\ Len(d.lines) <= BaseRoom + 1
                                            /\ proc.event \in CommandEvents => ~ Done(d)
    BY <1>1, <1>6, <1>7, <2>1
  <2> QED BY <1>1, <1>4, <1>6, <1>8, <1>9, <1>10, <1>11, <2>2, <2>3, <2>4, StaysInDoubt
<1> QED BY <1>12, <1>13

LEMMA RollbackContent ==
  ASSUME IInv, In("rollback")
  PROVE  /\ Appending /\ proc.content \in Contents /\ ~ proc.content.torn
         /\ proc.content.lines = Base /\ \E d \in Journal.kept : proc.content.lines = d.lines
<1>1. Appending BY DEF Appending, In
<1>2. proc.content \in Contents /\ ~ proc.content.torn BY DEF IInv, Procs, Reversible
<1>3. Base = proc.content.lines BY DEF Base, In
<1> QED BY <1>1, <1>2, <1>3, AppendFacts

(* Rejected, behind a change of the journal. *)
LEMMA RejectedPut ==
  ASSUME IInv, Appending, Elsewhere, NEW f \in File(Contents), f.seen \in f.kept,
         PutJournal(f), UNCHANGED acked,
         \A c \in f.kept : \E d \in Journal.kept : c.lines = d.lines,
         NEW how \in {"rejected", "uncertain"}, AppendRejected(how)
  PROVE  IInv'
<1>1. PICK o : o = proc.op OBVIOUS
<1>2. /\ Data' /\ Rest' /\ UNCHANGED <<ran, loose>> /\ o \in OperationIds
      /\ acked'[o] # <<>> /\ Absent \notin file'[o].marker.kept
      /\ ran'[o] <= proc.attempts /\ proc.attempts <= MaxCommands
      /\ file'[o].journal = f
      /\ \A c \in f.kept : /\ Len(c.lines) \in Nat /\ Len(c.lines) <= BaseRoom + 1
                           /\ proc.event \in CommandEvents => ~ Done(c)
  BY <1>1, AppendPut
<1>3. proc \in Procs /\ proc'.attempts = proc.attempts BY RejectedFacts DEF IInv
<1>4. Kept(o, proc)' BY <1>2, <1>3 DEF Kept
<1>5. proc.event \in Events \ {"operation-started"} BY AppendFacts
<1> QED BY <1>1, <1>2, <1>3, <1>4, <1>5, Rejected

LEMMA RollbackStep == ASSUME IInv, RollbackAppend, Elsewhere PROVE IInv'
<1>1. In("rollback") /\ PutJournal(OnDisk(proc.content)) /\ UNCHANGED acked BY DEF RollbackAppend
<1>2. PICK x \in Contents : x = proc.content /\ ~ x.torn /\ x.lines = Base
                            /\ \E d \in Journal.kept : x.lines = d.lines
  BY <1>1, RollbackContent
<1>3. PICK f \in File(Contents) : f = OnDisk(x) /\ f.seen = x /\ f.kept = {x}
  <2>1. OnDisk(x) \in File(Contents) /\ OnDisk(x).seen = x /\ OnDisk(x).kept = {x}
    BY <1>2 DEF OnDisk, File
  <2> QED BY <2>1
<1>4. Appending /\ PutJournal(f) /\ f.seen \in f.kept
      /\ \A c \in f.kept : \E d \in Journal.kept : c.lines = d.lines
  BY <1>1, <1>2, <1>3, RollbackContent
<1>5. CASE AppendRejected("rejected") BY <1>1, <1>4, <1>5, RejectedPut
<1>6. CASE Become("reclaim")
  <2>1. PICK o : o = proc.op OBVIOUS
  <2>2. PICK p : p = proc' OBVIOUS
  <2>3. /\ Data' /\ Rest' /\ UNCHANGED <<ran, loose>> /\ o \in OperationIds
        /\ acked'[o] # <<>> /\ Absent \notin file'[o].marker.kept
        /\ ran'[o] <= proc.attempts /\ proc.attempts <= MaxCommands
        /\ file'[o].journal = f /\ file'[o].report = file[o].report
        /\ \A c \in f.kept : /\ Len(c.lines) <= BaseRoom + 1
                             /\ proc.event \in CommandEvents => ~ Done(c)
    BY <1>1, <1>4, <2>1, AppendPut
  <2>4. /\ p \in Procs /\ p.phase = "reclaim" /\ p.op = o /\ p.event = proc.event
        /\ p.attempts = proc.attempts
    BY <1>6, <2>1, <2>2, BecomeFacts DEF IInv, Phases
  <2>5. Base' = x.lines BY <1>3, <2>2, <2>3, <2>4 DEF Base, In, Journal
  <2>6. Base = Base' /\ \E c \in file'[o].journal.kept : c.lines = Base BY <1>2, <1>3, <2>3, <2>5
  <2>7. p.phase \in {"append", "rollback", "reclaim"}
        /\ (p.phase = "append" => p.todo = <<Step("write", "journal", o), Step("sync", "journal", o)>>)
        /\ (p.phase = "rollback" => ~ p.content.torn)
    BY <2>4
  <2> QED BY <1>4, <2>1, <2>2, <2>3, <2>4, <2>6, <2>7, StaysInDoubt
<1> QED BY <1>5, <1>6 DEF RollbackAppend

LEMMA RollbackFailsStep == ASSUME IInv, RollbackFails, Elsewhere PROVE IInv'
<1>1. In("rollback") /\ AppendRejected("uncertain") /\ UNCHANGED acked BY DEF RollbackFails
<1>2. PICK x \in Contents : x = proc.content /\ \E d \in Journal.kept : x.lines = d.lines
  BY <1>1, RollbackContent
<1>3. Appending BY <1>1, RollbackContent
<1>4. CASE UNCHANGED <<file, index>> BY <1>1, <1>3, <1>4, RejectedUnchanged
<1>5. CASE PutJournal(Written(Journal, proc.content, proc.content))
  <2>1. Journal \in File(Contents) BY <1>3, AppendFacts, WorkFacts
  <2>2. PICK g \in File(Contents) : g = Journal BY <2>1
  <2>3. PICK f \in File(Contents) : f = Written(g, x, x) /\ f.seen = x /\ f.kept = g.kept \cup {x}
    <3>1. /\ Written(g, x, x) \in File(Contents) /\ Written(g, x, x).seen = x
          /\ Written(g, x, x).kept = g.kept \cup {x, x}
      BY WrittenFacts
    <3> QED BY <3>1
  <2>4. PutJournal(f) /\ f.seen \in f.kept /\ \A c \in f.kept : \E d \in Journal.kept : c.lines = d.lines
    BY <1>2, <1>5, <2>2, <2>3
  <2> QED BY <1>1, <1>3, <2>4, RejectedPut
<1> QED BY <1>4, <1>5 DEF RollbackFails

-----------------------------------------------------------------------------
(* The operation around its appends. *)

(* A file of the operation that is neither journal nor marker changes, or none. *)
LEMMA PutOtherFacts ==
  ASSUME Data, NEW o \in OperationIds, NEW n \in {"reserve", "report"}, NEW f \in File(Contents),
         file' = [file EXCEPT ![o][n] = f]
  PROVE  /\ file'[o].journal = file[o].journal /\ file'[o].marker = file[o].marker
         /\ file'[o][n] = f /\ (n = "reserve" => file'[o].report = file[o].report)
<1>1. n \in Names /\ Typed BY DEF Names, Data
<1>2. file'[o][n] = f /\ \A m \in Names : m # n => file'[o][m] = file[o][m] BY <1>1, PutFacts
<1> QED BY <1>2 DEF Names

LEMMA WorkOther ==
  ASSUME IInv, Working, ~ In("command"), Elsewhere, NEW o \in OperationIds, o = proc.op,
         NEW n \in {"reserve", "report"}, NEW f \in File(Contents), f.seen \in f.kept,
         file' = [file EXCEPT ![o][n] = f], UNCHANGED <<index, acked>>,
         n = "reserve" => f.kept \subseteq {Absent, Torn, Whole},
         n = "report" =>
           /\ f.kept \subseteq {Absent, Torn, Whole, Final, Failed}
           /\ (\E c \in Journal.kept : Done(c)) =>
                f.kept \subseteq {Final, Failed} /\ (f.seen = Final => f.kept = {Final})
  PROVE  Data' /\ Rest' /\ UNCHANGED <<ran, loose>>
<1>1. /\ Data /\ Typed /\ Rest' /\ UNCHANGED <<ran, loose>> /\ Absent \notin file[o].marker.kept
      /\ Journal = file[o].journal
  BY WorkFacts
<1>2. n \in Names \ {"journal"} /\ n # "marker" BY DEF Names
<1>3. n # "report" => f.kept \subseteq {Absent, Torn, Whole} OBVIOUS
<1>4. n = "report" =>
        /\ f.kept \subseteq {Absent, Torn, Whole, Final, Failed}
        /\ (\E c \in file[o].journal.kept : Done(c)) =>
             f.kept \subseteq {Final, Failed} /\ (f.seen = Final => f.kept = {Final})
        /\ ran[o] > 0 => Absent \notin file[o].marker.kept
  BY <1>1
<1>5. Data' BY <1>1, <1>2, <1>3, <1>4, DataOther
<1> QED BY <1>1, <1>5

LEMMA WorkSame ==
  ASSUME IInv, Working, ~ In("command"), Elsewhere, UNCHANGED <<file, index, acked>>, NEW o, o = proc.op
  PROVE  /\ Data' /\ Rest' /\ UNCHANGED <<ran, loose>>
         /\ file'[o].journal = Journal /\ file'[o].marker = file[o].marker
         /\ file'[o].report = file[o].report
BY WorkFacts, DataSame

LEMMA WorkKept ==
  ASSUME IInv, Working, NEW o, o = proc.op, NEW p, proc.attempts <= p.attempts, p.attempts \in Nat,
         p.attempts <= MaxCommands, Data', Rest', UNCHANGED <<acked, ran>>,
         file'[o].marker = file[o].marker
  PROVE  Kept(o, p)'
<1>1. /\ o \in OperationIds /\ acked[o] # <<>> /\ Absent \notin file[o].marker.kept
      /\ ran[o] \in Nat /\ ran[o] <= proc.attempts /\ proc.attempts \in Nat
  BY WorkFacts
<1> QED BY <1>1 DEF Kept

LEMMA WorkJournal ==
  ASSUME IInv
  PROVE  /\ In("work") =>
              /\ Working /\ ~ In("command") /\ proc.todo = <<>>
              /\ \A c \in Journal.kept : Len(c.lines) <= 2 * proc.attempts + 1 /\ ~ Done(c)
         /\ In("replace") =>
              /\ Working /\ ~ In("command")
              /\ proc.event \in {"none", "operation-completed", "operation-incomplete"}
              /\ proc.content = IF proc.failed THEN Failed ELSE Final
              /\ proc.event # "none" => proc.failed
              /\ proc.todo # <<>> => file[proc.op].report.seen = proc.content
              /\ \A c \in Journal.kept :
                   /\ Len(c.lines) <= 2 * proc.attempts + (IF proc.event = "none" THEN 1 ELSE 2)
                   /\ proc.event = "none" => ~ Done(c)
<1>1. In("work") \/ In("replace") => Working /\ ~ In("command") BY DEF Working, WorkPhases, In
<1>2. In("work") => Room = 2 * proc.attempts + 1 BY DEF Room, In
<1>3. In("replace") => Room = 2 * proc.attempts + (IF proc.event = "none" THEN 1 ELSE 2)
  BY DEF Room, In
<1>4. Working => \A c \in Journal.kept : Len(c.lines) <= Room BY WorkFacts
<1> QED BY <1>1, <1>2, <1>3, <1>4 DEF IInv, Reporting, Unreported

(* A new append at the end of what is there. *)
LEMMA WorkAppends ==
  ASSUME IInv, Working, NEW o, o = proc.op, NEW e \in Events \ {"operation-started"},
         BeginAppend(e), Data', Rest', UNCHANGED <<acked, ran>>,
         file'[o].marker = file[o].marker, file'[o].journal = Journal,
         e = "command-started" => proc.attempts < MaxCommands,
         e = "command-finished" => Open(o, file[o].journal.seen.lines)',
         e = "operation-completed" => file'[o].report.kept = {Final},
         \A c \in Journal.kept :
           /\ Len(c.lines) <= 2 * proc.attempts + (IF e = "command-finished" THEN 0
                                                   ELSE IF e = "report-persistence-failed" THEN 2 ELSE 1)
           /\ e \in CommandEvents => ~ Done(c)
  PROVE  IInv'
<1>1. PICK q \in OperationIds : q = o BY WorkFacts
<1>2. /\ proc \in Procs /\ proc.attempts \in Nat /\ proc.attempts <= MaxCommands /\ MaxCommands \in Nat
      /\ ran[o] \in Nat /\ ran[o] <= proc.attempts /\ Journal.seen \in Journal.kept
      /\ \A c \in Journal.kept : Len(c.lines) \in Nat
  BY WorkFacts
<1>3. PICK p : p = proc' OBVIOUS
<1>4. /\ p \in Procs /\ p.phase = "append" /\ p.op = o /\ p.event = e
      /\ p.todo = <<Step("write", "journal", o), Step("sync", "journal", o)>>
      /\ p.attempts = proc.attempts + (IF e = "command-started" THEN 1 ELSE 0)
  BY <1>1, <1>2, <1>3, BeginAppendFacts
<1>5. proc.attempts <= p.attempts /\ p.attempts \in Nat /\ p.attempts <= MaxCommands BY <1>2, <1>4
<1>6. Kept(o, p)' BY <1>5, WorkKept
<1>7. PICK b : b = Journal.seen.lines OBVIOUS
<1>8. /\ RoomBefore(e, p.attempts) \in Int
      /\ \A c \in Journal.kept : Len(c.lines) <= RoomBefore(e, p.attempts)
  <2>1. CASE e = "command-started" BY <1>2, <1>4, <2>1 DEF RoomBefore
  <2>2. CASE e = "command-finished" BY <1>2, <1>4, <2>2 DEF RoomBefore
  <2>3. CASE e = "report-persistence-failed" BY <1>2, <1>4, <2>3 DEF RoomBefore
  <2>4. CASE e \notin {"command-started", "command-finished", "report-persistence-failed"}
    BY <1>2, <1>4, <2>4 DEF RoomBefore
  <2> QED BY <2>1, <2>2, <2>3, <2>4
<1>9. \A c \in file'[o].journal.kept : /\ Len(c.lines) <= RoomBefore(p.event, p.attempts) + 1
                                       /\ p.event \in CommandEvents => ~ Done(c)
  BY <1>2, <1>4, <1>8
<1>10. b = file'[o].journal.seen.lines /\ Len(b) <= RoomBefore(p.event, p.attempts)
  BY <1>2, <1>4, <1>7, <1>8
<1>11. /\ p.event \in Events \ {"operation-started"}
       /\ p.event = "command-started" => ran'[o] < p.attempts
       /\ p.event = "operation-completed" => file'[o].report.kept = {Final}
  BY <1>2, <1>4
<1>12. p.event = "command-finished" => Open(o, b)'
  BY <1>4, <1>7, <1>10 DEF Open, Owed
<1> QED BY <1>3, <1>4, <1>6, <1>9, <1>10, <1>11, <1>12, ToAppend

LEMMA StartCommandStep == ASSUME IInv, StartCommand, Elsewhere PROVE IInv'
<1>1. In("work") /\ BeginAppend("command-started") /\ UNCHANGED <<file, index, acked>>
      /\ proc.attempts < MaxCommands
  BY DEF StartCommand
<1>2. Working /\ ~ In("command")
      /\ \A c \in Journal.kept : Len(c.lines) <= 2 * proc.attempts + 1 /\ ~ Done(c)
  BY <1>1, WorkJournal
<1>3. PICK o : o = proc.op OBVIOUS
<1>4. /\ Data' /\ Rest' /\ UNCHANGED <<ran, loose>>
      /\ file'[o].journal = Journal /\ file'[o].marker = file[o].marker
  BY <1>1, <1>2, <1>3, WorkSame
<1>5. "command-started" \in Events \ {"operation-started"} BY DEF Events
<1> QED BY <1>1, <1>2, <1>3, <1>4, <1>5, WorkAppends

LEMMA CapacityMissingStep == ASSUME IInv, CapacityMissing, Elsewhere PROVE IInv'
<1>1. /\ In("work") /\ UNCHANGED <<file, index, acked>> /\ proc.attempts < MaxCommands
      /\ proc' = [proc EXCEPT !.failed = TRUE, !.attempts = @ + 1]
  BY DEF CapacityMissing
<1>2. Working /\ ~ In("command") /\ proc.todo = <<>>
      /\ \A c \in Journal.kept : Len(c.lines) <= 2 * proc.attempts + 1 /\ ~ Done(c)
  BY <1>1, WorkJournal
<1>3. PICK o : o = proc.op OBVIOUS
<1>4. /\ Data' /\ Rest' /\ UNCHANGED <<ran, loose>>
      /\ file'[o].journal = Journal /\ file'[o].marker = file[o].marker
  BY <1>1, <1>2, <1>3, WorkSame
<1>5. /\ proc \in Procs /\ proc.attempts \in Nat /\ MaxCommands \in Nat
      /\ \A c \in Journal.kept : Len(c.lines) \in Nat
  BY <1>2, WorkFacts
<1>6. PICK p : p = proc' OBVIOUS
<1>7. /\ p \in Procs /\ p.phase = "work" /\ p.todo = <<>> /\ p.op = o
      /\ p.attempts = proc.attempts + 1
  <2>1. PICK a \in Nat : a = proc.attempts + 1 BY <1>5
  <2>2. proc' = [proc EXCEPT !.failed = TRUE, !.attempts = a] BY <1>1, <2>1
  <2> QED BY <1>1, <1>2, <1>3, <1>5, <1>6, <2>1, <2>2 DEF Procs, In
<1>8. proc.attempts <= p.attempts /\ p.attempts \in Nat /\ p.attempts <= MaxCommands
  BY <1>1, <1>5, <1>7
<1>9. Kept(o, p)' BY <1>1, <1>2, <1>3, <1>4, <1>8, WorkKept
<1>10. \A c \in file'[o].journal.kept : Len(c.lines) <= 2 * p.attempts + 1 /\ ~ Done(c)
  BY <1>2, <1>4, <1>5, <1>7
<1> QED BY <1>6, <1>7, <1>9, <1>10, ToWork

LEMMA BeginReportStep == ASSUME IInv, BeginReport, Elsewhere PROVE IInv'
<1>1. In("work") /\ UNCHANGED <<file, index, acked>> BY DEF BeginReport
<1>2. Working /\ ~ In("command") /\ proc.todo = <<>>
      /\ \A c \in Journal.kept : Len(c.lines) <= 2 * proc.attempts + 1 /\ ~ Done(c)
  BY <1>1, WorkJournal
<1>3. PICK o : o = proc.op OBVIOUS
<1>4. /\ Data' /\ Rest' /\ UNCHANGED <<ran, loose>>
      /\ file'[o].journal = Journal /\ file'[o].marker = file[o].marker
  BY <1>1, <1>2, <1>3, WorkSame
<1>5. proc \in Procs /\ proc.attempts \in Nat /\ proc.attempts <= MaxCommands BY <1>2, WorkFacts
<1>6. PICK p : p = proc' OBVIOUS
<1>7. /\ p \in Procs /\ p.phase = "replace" /\ p.todo = <<>> /\ p.op = o /\ p.event = "none"
      /\ p.content = (IF p.failed THEN Failed ELSE Final) /\ p.attempts = proc.attempts
  <2>1. PICK x \in Contents : x = IF proc.failed THEN Failed ELSE Final BY ContentFacts
  <2>2. proc' = [proc EXCEPT !.phase = "replace", !.content = x, !.cause = "none", !.event = "none"]
    BY <2>1 DEF BeginReport
  <2>3. "replace" \in Phases BY DEF Phases
  <2> QED BY <1>2, <1>3, <1>5, <1>6, <2>1, <2>2, <2>3 DEF Procs
<1>8. proc.attempts <= p.attempts /\ p.attempts \in Nat /\ p.attempts <= MaxCommands
  BY <1>5, <1>7
<1>9. Kept(o, p)' BY <1>1, <1>2, <1>3, <1>4, <1>8, WorkKept
<1>10. \A c \in file'[o].journal.kept :
         /\ Len(c.lines) <= 2 * p.attempts + (IF p.event = "none" THEN 1 ELSE 2)
         /\ p.event = "none" => ~ Done(c)
  BY <1>2, <1>4, <1>7
<1> QED BY <1>6, <1>7, <1>9, <1>10, ToReplace

LEMMA GiveUpStep == ASSUME IInv, GiveUp, Elsewhere PROVE IInv'
<1>1. In("work") /\ Become("release") /\ UNCHANGED <<file, index, acked>> BY DEF GiveUp
<1>2. Working /\ ~ In("command")
      /\ \A c \in Journal.kept : Len(c.lines) <= 2 * proc.attempts + 1
  BY <1>1, WorkJournal
<1>3. PICK o : o = proc.op OBVIOUS
<1>4. /\ Data' /\ Rest' /\ UNCHANGED <<ran, loose>>
      /\ file'[o].journal = Journal /\ file'[o].marker = file[o].marker
  BY <1>1, <1>2, <1>3, WorkSame
<1>5. /\ proc \in Procs /\ proc.attempts \in Nat /\ proc.attempts <= MaxCommands
      /\ \A c \in Journal.kept : Len(c.lines) \in Nat
  BY <1>2, WorkFacts
<1>6. PICK p : p = proc' OBVIOUS
<1>7. p \in Procs /\ p.phase = "release" /\ p.op = o /\ p.attempts = proc.attempts
  BY <1>1, <1>3, <1>5, <1>6, BecomeFacts DEF Phases
<1>8. Kept(o, p)'
  <2>1. proc.attempts <= p.attempts /\ p.attempts \in Nat /\ p.attempts <= MaxCommands BY <1>5, <1>7
  <2> QED BY <1>1, <1>2, <1>3, <1>4, <2>1, WorkKept
<1>9. \A c \in file'[o].journal.kept : Len(c.lines) <= 2 * p.attempts + 3 BY <1>2, <1>4, <1>5, <1>7
<1> QED BY <1>6, <1>7, <1>8, <1>9, ToRelease

(* Out of the report into what follows it, whatever its file holds by now. *)
LEMMA ReplaceEnds ==
  ASSUME IInv, In("replace"), NEW o, o = proc.op, Data', Rest', UNCHANGED <<acked, ran, loose>>,
         file'[o].journal = Journal, file'[o].marker = file[o].marker,
         Become("release") \/ BeginAppend("report-persistence-failed")
  PROVE  IInv'
<1>1. /\ Working
      /\ \A c \in Journal.kept :
           Len(c.lines) <= 2 * proc.attempts + (IF proc.event = "none" THEN 1 ELSE 2)
  BY WorkJournal
<1>2. /\ proc \in Procs /\ proc.attempts \in Nat /\ proc.attempts <= MaxCommands
      /\ \A c \in Journal.kept : Len(c.lines) \in Nat
  BY <1>1, WorkFacts
<1>3. \A c \in Journal.kept : Len(c.lines) <= 2 * proc.attempts + 2 BY <1>1, <1>2
<1>4. CASE Become("release")
  <2>1. PICK p : p = proc' OBVIOUS
  <2>2. p \in Procs /\ p.phase = "release" /\ p.op = o /\ p.attempts = proc.attempts
    BY <1>2, <1>4, <2>1, BecomeFacts DEF Phases
  <2>3. proc.attempts <= p.attempts /\ p.attempts \in Nat /\ p.attempts <= MaxCommands BY <1>2, <2>2
  <2>4. Kept(o, p)' BY <1>1, <2>3, WorkKept
  <2>5. \A c \in file'[o].journal.kept : Len(c.lines) <= 2 * p.attempts + 3 BY <1>2, <1>3, <2>2
  <2> QED BY <2>1, <2>2, <2>4, <2>5, ToRelease
<1>5. CASE BeginAppend("report-persistence-failed")
  <2>1. "report-persistence-failed" \in Events \ {"operation-started"} BY DEF Events
  <2>2. \A e : e = "report-persistence-failed" =>
          /\ e \notin {"command-started", "command-finished", "operation-completed"}
          /\ e \notin CommandEvents
    BY DEF CommandEvents
  <2> QED BY <1>1, <1>3, <1>5, <2>1, <2>2, WorkAppends
<1> QED BY <1>4, <1>5

LEMMA ReplaceFailsStep == ASSUME IInv, ReplaceFails, Elsewhere PROVE IInv'
<1>1. In("replace") /\ UNCHANGED <<file, index, acked>>
      /\ (Become("release") \/ BeginAppend("report-persistence-failed"))
  BY DEF ReplaceFails
<1>2. Working /\ ~ In("command") BY <1>1, WorkJournal
<1>3. PICK o : o = proc.op OBVIOUS
<1>4. /\ Data' /\ Rest' /\ UNCHANGED <<ran, loose>>
      /\ file'[o].journal = Journal /\ file'[o].marker = file[o].marker
  BY <1>1, <1>2, <1>3, WorkSame
<1> QED BY <1>1, <1>3, <1>4, ReplaceEnds

(* What the report may hold while it is replaced. *)
LEMMA ReplaceReportFacts ==
  ASSUME IInv, In("replace"), NEW o \in OperationIds, o = proc.op
  PROVE  /\ proc.content \in {Final, Failed} /\ proc.content \in Contents
         /\ file[o].report \in File(Contents) /\ file[o].report.seen \in file[o].report.kept
         /\ file[o].report.kept \subseteq {Absent, Torn, Whole, Final, Failed}
         /\ (\E c \in Journal.kept : Done(c)) =>
              /\ proc.content = Failed /\ proc.event # "none"
              /\ file[o].report.kept \subseteq {Final, Failed}
<1>1. /\ Working /\ proc.content = (IF proc.failed THEN Failed ELSE Final)
      /\ proc.event # "none" => proc.failed
      /\ \A c \in Journal.kept : proc.event = "none" => ~ Done(c)
  BY WorkJournal
<1>2. Data /\ Typed /\ Journal = file[o].journal BY <1>1, WorkFacts
<1>3. Shaped(o) /\ Reported(o) BY <1>2 DEF Data, Lasting
<1>4. "report" \in Names BY DEF Names
<1>5. file[o].report \in File(Contents) BY <1>2, <1>4, FileFacts
<1>6. file[o].report.seen \in file[o].report.kept BY <1>3, <1>4 DEF Shaped
<1> QED BY <1>1, <1>2, <1>3, <1>5, <1>6, ContentFacts DEF Shaped, Reported

LEMMA ReplaceReportStep == ASSUME IInv, ReplaceReport, Elsewhere PROVE IInv'
<1>1. In("replace") /\ proc.todo = <<>> /\ UNCHANGED <<index, acked>> BY DEF ReplaceReport
<1>2. /\ Working /\ ~ In("command")
      /\ proc.event \in {"none", "operation-completed", "operation-incomplete"}
      /\ proc.content = (IF proc.failed THEN Failed ELSE Final)
      /\ proc.event # "none" => proc.failed
      /\ \A c \in Journal.kept :
           /\ Len(c.lines) <= 2 * proc.attempts + (IF proc.event = "none" THEN 1 ELSE 2)
           /\ proc.event = "none" => ~ Done(c)
  BY <1>1, WorkJournal
<1>3. PICK o \in OperationIds : o = proc.op BY <1>2, WorkFacts
<1>4. /\ proc.content \in {Final, Failed} /\ proc.content \in Contents
      /\ file[o].report \in File(Contents) /\ file[o].report.seen \in file[o].report.kept
      /\ file[o].report.kept \subseteq {Absent, Torn, Whole, Final, Failed}
      /\ (\E c \in Journal.kept : Done(c)) =>
           proc.content = Failed /\ file[o].report.kept \subseteq {Final, Failed}
  BY <1>1, <1>3, ReplaceReportFacts
<1>5. PICK x \in Contents : x = proc.content BY <1>4
<1>6. PICK g \in File(Contents) : g = file[o].report BY <1>4
<1>7. PICK f \in File(Contents) : f = Replaced(g, x) /\ f.seen = x /\ f.kept = g.kept \cup {x}
  <2>1. Replaced(g, x) \in File(Contents) /\ Replaced(g, x).seen = x
        /\ Replaced(g, x).kept = g.kept \cup {x}
    BY DEF Replaced, File
  <2> QED BY <2>1
<1>8. file' = [file EXCEPT ![o]["report"] = f] BY <1>3, <1>5, <1>6, <1>7 DEF ReplaceReport
<1>9. (\E c \in Journal.kept : Done(c)) =>
        f.kept \subseteq {Final, Failed} /\ (f.seen = Final => f.kept = {Final})
  BY <1>4, <1>5, <1>6, <1>7, DistinctContents
<1>10. f.seen \in f.kept /\ f.kept \subseteq {Absent, Torn, Whole, Final, Failed}
  BY <1>4, <1>5, <1>6, <1>7
<1>11. Data' /\ Rest' /\ UNCHANGED <<ran, loose>>
  <2>1. PICK n \in {"reserve", "report"} : n = "report" OBVIOUS
  <2>2. file' = [file EXCEPT ![o][n] = f] /\ n # "reserve" BY <1>8, <2>1
  <2> QED BY <1>1, <1>2, <1>3, <1>9, <1>10, <2>2, WorkOther
<1>12. /\ proc \in Procs /\ proc.attempts \in Nat /\ proc.attempts <= MaxCommands /\ Data
       /\ Journal = file[o].journal
  BY <1>2, <1>3, WorkFacts
<1>13. /\ file'[o].journal = Journal /\ file'[o].marker = file[o].marker /\ file'[o]["report"] = f
  <2>1. PICK n \in {"reserve", "report"} : n = "report" OBVIOUS
  <2>2. file' = [file EXCEPT ![o][n] = f] BY <1>8, <2>1
  <2> QED BY <1>12, <2>1, <2>2, PutOtherFacts
<1>14. PICK p : p = proc' OBVIOUS
<1>15. PICK s : s = <<Step("syncReports", "report", o)>> /\ s \in Seq(Steps)
  <2>1. Step("syncReports", "report", o) \in Steps BY DEF Steps, Step, Names
  <2>2. <<Step("syncReports", "report", o)>> \in Seq(Steps) BY <2>1
  <2> QED BY <2>2
<1>16. proc' = [proc EXCEPT !.todo = s] BY <1>3, <1>15 DEF ReplaceReport
<1>17. /\ p \in Procs /\ p.phase = "replace" /\ p.op = o /\ p.event = proc.event
       /\ p.content = proc.content /\ p.failed = proc.failed /\ p.attempts = proc.attempts
  BY <1>1, <1>3, <1>12, <1>14, <1>15, <1>16, ProceedFacts DEF In
<1>18. proc.attempts <= p.attempts /\ p.attempts \in Nat /\ p.attempts <= MaxCommands
  BY <1>12, <1>17
<1>19. Kept(o, p)' BY <1>1, <1>2, <1>3, <1>11, <1>13, <1>18, WorkKept
<1>20. /\ p.event \in {"none", "operation-completed", "operation-incomplete"}
       /\ p.content = (IF p.failed THEN Failed ELSE Final)
       /\ p.event # "none" => p.failed
       /\ file'[o].report.seen = p.content
       /\ \A c \in file'[o].journal.kept :
            /\ Len(c.lines) <= 2 * p.attempts + (IF p.event = "none" THEN 1 ELSE 2)
            /\ p.event = "none" => ~ Done(c)
  BY <1>2, <1>5, <1>7, <1>13, <1>17
<1> QED BY <1>14, <1>17, <1>19, <1>20, ToReplace

LEMMA SyncReportStep == ASSUME IInv, SyncReport, Elsewhere PROVE IInv'
<1>1. In("replace") /\ proc.todo # <<>> /\ UNCHANGED <<index, acked>> BY DEF SyncReport
<1>2. /\ Working /\ ~ In("command")
      /\ proc.content = (IF proc.failed THEN Failed ELSE Final)
      /\ \A c \in Journal.kept :
           /\ Len(c.lines) <= 2 * proc.attempts + (IF proc.event = "none" THEN 1 ELSE 2)
           /\ proc.event = "none" => ~ Done(c)
  BY <1>1, WorkJournal
<1>3. PICK o \in OperationIds : o = proc.op BY <1>2, WorkFacts
<1>4. /\ proc.content \in {Final, Failed} /\ proc.content \in Contents
      /\ file[o].report \in File(Contents) /\ file[o].report.seen \in file[o].report.kept
      /\ (\E c \in Journal.kept : Done(c)) => proc.content = Failed
      /\ file[o].report.seen = proc.content
  BY <1>1, <1>3, ReplaceReportFacts, WorkJournal
<1>5. PICK g \in File(Contents) : g = file[o].report BY <1>4
<1>6. PICK f \in File(Contents) : f = ReplacementSynced(g) /\ f.seen = proc.content /\ f.kept = {proc.content}
  <2>1. g.seen = proc.content /\ g.seen \in g.kept BY <1>4, <1>5
  <2>2. /\ ReplacementSynced(g) \in File(Contents) /\ ReplacementSynced(g).seen = g.seen
        /\ ReplacementSynced(g).kept = {g.seen}
    BY <2>1, EntryFacts
  <2> QED BY <2>1, <2>2
<1>7. file' = [file EXCEPT ![o]["report"] = f] BY <1>3, <1>5, <1>6 DEF SyncReport
<1>8. (\E c \in Journal.kept : Done(c)) =>
        f.kept \subseteq {Final, Failed} /\ (f.seen = Final => f.kept = {Final})
  BY <1>4, <1>6, DistinctContents
<1>9. f.seen \in f.kept /\ f.kept \subseteq {Absent, Torn, Whole, Final, Failed} BY <1>4, <1>6
<1>10. Data' /\ Rest' /\ UNCHANGED <<ran, loose>>
  <2>1. PICK n \in {"reserve", "report"} : n = "report" OBVIOUS
  <2>2. file' = [file EXCEPT ![o][n] = f] /\ n # "reserve" BY <1>7, <2>1
  <2> QED BY <1>1, <1>2, <1>3, <1>8, <1>9, <2>2, WorkOther
<1>11. /\ proc.attempts \in Nat /\ proc.attempts <= MaxCommands /\ Data /\ Journal = file[o].journal
  BY <1>2, <1>3, WorkFacts
<1>12. /\ file'[o].journal = Journal /\ file'[o].marker = file[o].marker /\ file'[o]["report"] = f
  <2>1. PICK n \in {"reserve", "report"} : n = "report" OBVIOUS
  <2>2. file' = [file EXCEPT ![o][n] = f] BY <1>7, <2>1
  <2> QED BY <1>11, <2>1, <2>2, PutOtherFacts
<1>13. CASE proc.event # "none"
  <2>1. Become("release") \/ BeginAppend("report-persistence-failed") BY <1>13 DEF SyncReport
  <2> QED BY <1>1, <1>3, <1>10, <1>12, <2>1, ReplaceEnds
<1>14. CASE proc.event = "none"
  <2>1. PICK e : /\ e = IF proc.failed THEN "operation-incomplete" ELSE "operation-completed"
                 /\ e \in Events \ {"operation-started"} /\ e \notin CommandEvents
                 /\ e \notin {"command-started", "command-finished", "report-persistence-failed"}
    BY DEF Events, CommandEvents
  <2>2. BeginAppend(e)
    <3>1. BeginAppend(IF proc.failed THEN "operation-incomplete" ELSE "operation-completed")
      BY <1>14 DEF SyncReport
    <3> DEFINE x == IF proc.failed THEN "operation-incomplete" ELSE "operation-completed"
    <3>2. BeginAppend(x) /\ x = e BY <2>1, <3>1
    <3> HIDE DEF x
    <3> QED BY <3>2
  <2>3. e = "operation-completed" => file'[o].report.kept = {Final} BY <1>2, <1>6, <1>12, <2>1
  <2>4. \A c \in Journal.kept :
           /\ Len(c.lines) <= 2 * proc.attempts + (IF e = "command-finished" THEN 0
                                                   ELSE IF e = "report-persistence-failed" THEN 2 ELSE 1)
           /\ e \in CommandEvents => ~ Done(c)
    BY <1>2, <1>14, <2>1
  <2>5. (e = "command-started" => proc.attempts < MaxCommands)
        /\ (e = "command-finished" => Open(o, file[o].journal.seen.lines)')
    BY <2>1
  <2> QED BY <1>1, <1>2, <1>3, <1>10, <1>12, <2>1, <2>2, <2>3, <2>4, <2>5, WorkAppends
<1> QED BY <1>13, <1>14

(* The reserve of an operation goes for good. *)
LEMMA ReserveGone ==
  ASSUME IInv, Working, NEW o \in OperationIds, o = proc.op
  PROVE  /\ file[o].reserve \in File(Contents) /\ file[o].reserve.seen \in file[o].reserve.kept
         /\ file[o].reserve.kept \subseteq {Absent, Torn, Whole}
         /\ EntrySynced(Unlinked(file[o].reserve)) \in File(Contents)
         /\ EntrySynced(Unlinked(file[o].reserve)).seen = Absent
         /\ EntrySynced(Unlinked(file[o].reserve)).kept = {Absent}
<1>1. Data /\ Typed BY WorkFacts
<1>2. "reserve" \in Names BY DEF Names
<1>3. PICK g \in File(Contents) : g = file[o].reserve BY <1>1, <1>2, FileFacts
<1>4. g.seen \in g.kept /\ g.kept \subseteq {Absent, Torn, Whole}
  BY <1>1, <1>2, <1>3 DEF Data, Lasting, Shaped
<1>5. PICK h \in File(Contents) : h = Unlinked(g) /\ h.seen = Absent /\ Absent \in h.kept
  BY <1>4, EntryFacts
<1>6. EntrySynced(h) \in File(Contents) /\ EntrySynced(h).seen = Absent BY <1>5, EntryFacts
<1>7. EntrySynced(h).kept = {Absent} BY <1>5 DEF EntrySynced, File
<1> QED BY <1>3, <1>4, <1>5, <1>6, <1>7

LEMMA ReleaseReserveStep == ASSUME IInv, ReleaseReserve, Elsewhere PROVE IInv'
<1>1. In("release") /\ End /\ UNCHANGED <<index, acked>> BY DEF ReleaseReserve
<1>2. Working /\ ~ In("command") BY <1>1 DEF Working, WorkPhases, In
<1>3. PICK o \in OperationIds : o = proc.op BY <1>2, WorkFacts
<1>4. PICK f \in File(Contents) :
        /\ file' = [file EXCEPT ![o]["reserve"] = f]
        /\ f.seen \in f.kept /\ f.kept \subseteq {Absent, Torn, Whole}
  <2>1. PICK g : g = file[o].reserve OBVIOUS
  <2>2. CASE Exists(g)
    <3>1. PICK f \in File(Contents) : f = EntrySynced(Unlinked(g)) /\ f.seen = Absent /\ f.kept = {Absent}
      BY <1>2, <1>3, <2>1, ReserveGone
    <3>2. file' = [file EXCEPT ![o]["reserve"] = f] BY <1>3, <2>1, <2>2, <3>1 DEF ReleaseReserve
    <3> QED BY <3>1, <3>2
  <2>3. CASE ~ Exists(g)
    <3>1. file' = [file EXCEPT ![o]["reserve"] = g] BY <1>3, <2>1, <2>3 DEF ReleaseReserve
    <3>2. g \in File(Contents) /\ g.seen \in g.kept /\ g.kept \subseteq {Absent, Torn, Whole}
      BY <1>2, <1>3, <2>1, ReserveGone
    <3> QED BY <3>1, <3>2
  <2> QED BY <2>2, <2>3
<1>5. Data' /\ Rest'
  <2>1. PICK n \in {"reserve", "report"} : n = "reserve" OBVIOUS
  <2>2. file' = [file EXCEPT ![o][n] = f] /\ n # "report" BY <1>4, <2>1
  <2> QED BY <1>1, <1>2, <1>3, <1>4, <2>2, WorkOther
<1>6. proc' \in Procs /\ proc'.phase = "idle" /\ proc'.attempts = 0 BY <1>1, EndFacts
<1> QED BY <1>5, <1>6, Quietly

LEMMA ReclaimReserveStep == ASSUME IInv, ReclaimReserve, Elsewhere PROVE IInv'
<1>1. In("reclaim") /\ Appending /\ UNCHANGED <<index, acked>> BY DEF ReclaimReserve, Appending, In
<1>2. Working /\ ~ In("command") BY <1>1, AppendFacts
<1>3. PICK o \in OperationIds : o = proc.op BY <1>2, WorkFacts
<1>4. CASE proc.op \notin Reserved
  <2>1. UNCHANGED file /\ AppendRejected("rejected") BY <1>4 DEF ReclaimReserve
  <2> QED BY <1>1, <2>1, RejectedUnchanged
<1>5. CASE proc.op \in Reserved
  <2>1. PICK f \in File(Contents) :
          f = EntrySynced(Unlinked(file[o].reserve)) /\ f.seen = Absent /\ f.kept = {Absent}
    BY <1>2, <1>3, ReserveGone
  <2>2. file' = [file EXCEPT ![o]["reserve"] = f] BY <1>3, <1>5, <2>1 DEF ReclaimReserve
  <2>3. PICK n \in {"reserve", "report"} : n = "reserve" /\ file' = [file EXCEPT ![o][n] = f]
    BY <2>2
  <2>4. Data' /\ Rest' /\ UNCHANGED <<ran, loose>>
    <3>1. f.seen \in f.kept /\ f.kept \subseteq {Absent, Torn, Whole} /\ n # "report" BY <2>1, <2>3
    <3>2. file' = [file EXCEPT ![o][n] = f] BY <2>3
    <3> QED BY <1>1, <1>2, <1>3, <3>1, <3>2, WorkOther
  <2>5. /\ Data /\ proc \in Procs /\ Journal = file[o].journal
        /\ acked[o] # <<>> /\ Absent \notin file[o].marker.kept
        /\ ran[o] <= proc.attempts /\ proc.attempts <= MaxCommands
    BY <1>2, <1>3, WorkFacts
  <2>6. /\ file'[o].journal = Journal /\ file'[o].marker = file[o].marker
        /\ file'[o].report = file[o].report
    <3>1. file' = [file EXCEPT ![o][n] = f] BY <2>3
    <3> QED BY <2>3, <2>5, <3>1, PutOtherFacts
  <2>7. PICK s : /\ s = <<Step("write", "journal", o), Step("sync", "journal", o)>>
                 /\ s \in Seq(Steps) /\ Len(s) = 2
    <3>1. Step("write", "journal", o) \in Steps /\ Step("sync", "journal", o) \in Steps
      BY DEF Steps, Step, Names
    <3>2. /\ <<Step("write", "journal", o), Step("sync", "journal", o)>> \in Seq(Steps)
          /\ Len(<<Step("write", "journal", o), Step("sync", "journal", o)>>) = 2
      BY <3>1
    <3> QED BY <3>2
  <2>8. proc' = [proc EXCEPT !.phase = "append", !.retried = TRUE, !.todo = s]
    BY <1>3, <1>5, <2>7 DEF ReclaimReserve
  <2>9. PICK p : p = proc' OBVIOUS
  <2>10. /\ p \in Procs /\ p.phase = "append" /\ p.op = o /\ p.event = proc.event
         /\ p.attempts = proc.attempts /\ p.todo = s
    <3>1. "append" \in Phases BY DEF Phases
    <3> QED BY <1>3, <2>5, <2>7, <2>8, <2>9, <3>1 DEF Procs
  <2>11. Base = Base'
    <3>1. Base = Journal.seen.lines BY <1>1 DEF Base, In
    <3>2. Base' = file'[o].journal.seen.lines BY <2>7, <2>9, <2>10 DEF Base, In, Journal
    <3> QED BY <2>6, <3>1, <3>2
  <2>12. /\ \E c \in file'[o].journal.kept : c.lines = Base
         /\ \A c \in file'[o].journal.kept : /\ Len(c.lines) <= BaseRoom + 1
                                             /\ proc.event \in CommandEvents => ~ Done(c)
    BY <1>1, <2>6, AppendFacts
  <2>13. acked'[o] # <<>> /\ Absent \notin file'[o].marker.kept /\ ran'[o] <= proc.attempts
    BY <1>1, <2>4, <2>5, <2>6
  <2>14. /\ p.phase \in {"append", "rollback", "reclaim"}
         /\ p.phase = "append" => p.todo = <<Step("write", "journal", o), Step("sync", "journal", o)>>
         /\ p.phase = "rollback" => ~ p.content.torn
    BY <2>7, <2>10
  <2> QED BY <1>1, <1>3, <2>4, <2>5, <2>6, <2>9, <2>10, <2>11, <2>12, <2>13, <2>14, StaysInDoubt
<1> QED BY <1>4, <1>5

-----------------------------------------------------------------------------
(* Signals, kills and power losses. *)

LEMMA RejectedRoom ==
  ASSUME IInv, Appending
  PROVE  /\ \A c \in Journal.kept : Len(c.lines) <= 2 * proc.attempts + 3
         /\ proc.event \in CommandEvents =>
              \A c \in Journal.kept : Len(c.lines) <= 2 * proc.attempts + 1 /\ ~ Done(c)
<1>1. /\ Working /\ BaseRoom \in Int /\ BaseRoom + 1 <= 2 * proc.attempts + 3
      /\ \A c \in Journal.kept : /\ Len(c.lines) <= BaseRoom + 1
                                 /\ proc.event \in CommandEvents => ~ Done(c)
  BY AppendFacts
<1>2. proc.attempts \in Nat /\ \A c \in Journal.kept : Len(c.lines) \in Nat BY <1>1, WorkFacts
<1>3. proc.event \in CommandEvents => BaseRoom + 1 <= 2 * proc.attempts + 1
  BY <1>2 DEF CommandEvents, BaseRoom, RoomBefore
<1>4. \A c \in Journal.kept : Len(c.lines) <= 2 * proc.attempts + 3 BY <1>1, <1>2
<1>5. ASSUME proc.event \in CommandEvents
      PROVE  \A c \in Journal.kept : Len(c.lines) <= 2 * proc.attempts + 1 /\ ~ Done(c)
  BY <1>1, <1>2, <1>3, <1>5
<1> QED BY <1>4, <1>5

(* A signal while the operation is at work. *)
LEMMA SignalWork ==
  ASSUME IInv, ~ In("command"), Elsewhere, UNCHANGED <<file, index, acked>>,
         In("work") \/ (Appending /\ proc.event \in CommandEvents),
         proc' = [proc EXCEPT !.phase = "work", !.failed = TRUE, !.todo = <<>>]
  PROVE  IInv'
<1>1. Working /\ \A c \in Journal.kept : Len(c.lines) <= 2 * proc.attempts + 1 /\ ~ Done(c)
  BY WorkJournal, RejectedRoom, AppendFacts
<1>2. PICK o : o = proc.op OBVIOUS
<1>3. /\ Data' /\ Rest' /\ UNCHANGED <<ran, loose>>
      /\ file'[o].journal = Journal /\ file'[o].marker = file[o].marker
  BY <1>1, <1>2, WorkSame
<1>4. proc \in Procs /\ proc.attempts \in Nat /\ proc.attempts <= MaxCommands BY <1>1, WorkFacts
<1>5. PICK p : p = proc' OBVIOUS
<1>6. p \in Procs /\ p.phase = "work" /\ p.todo = <<>> /\ p.op = o /\ p.attempts = proc.attempts
  <2>1. <<>> \in Seq(Steps) /\ "work" \in Phases BY DEF Phases
  <2> QED BY <1>2, <1>4, <1>5, <2>1 DEF Procs
<1>7. proc.attempts <= p.attempts /\ p.attempts \in Nat /\ p.attempts <= MaxCommands BY <1>4, <1>6
<1>8. Kept(o, p)' BY <1>1, <1>2, <1>3, <1>7, WorkKept
<1>9. \A c \in file'[o].journal.kept : Len(c.lines) <= 2 * p.attempts + 1 /\ ~ Done(c)
  BY <1>1, <1>3, <1>6
<1> QED BY <1>5, <1>6, <1>8, <1>9, ToWork

(* A signal while its end is recorded. *)
LEMMA SignalRelease ==
  ASSUME IInv, ~ In("command"), Elsewhere, UNCHANGED <<file, index, acked>>,
         In("replace") \/ Appending, Become("release")
  PROVE  IInv'
<1>1. Working BY WorkJournal, AppendFacts
<1>2. /\ proc \in Procs /\ proc.attempts \in Nat /\ proc.attempts <= MaxCommands
      /\ \A c \in Journal.kept : Len(c.lines) \in Nat
  BY <1>1, WorkFacts
<1>3. \A c \in Journal.kept : Len(c.lines) <= 2 * proc.attempts + 3
  <2>1. CASE In("replace")
    <3>1. \A c \in Journal.kept :
            Len(c.lines) <= 2 * proc.attempts + (IF proc.event = "none" THEN 1 ELSE 2)
      BY <2>1, WorkJournal
    <3> QED BY <1>2, <3>1
  <2>2. CASE Appending BY <2>2, RejectedRoom
  <2> QED BY <2>1, <2>2
<1>4. PICK o : o = proc.op OBVIOUS
<1>5. /\ Data' /\ Rest' /\ UNCHANGED <<ran, loose>>
      /\ file'[o].journal = Journal /\ file'[o].marker = file[o].marker
  BY <1>1, <1>4, WorkSame
<1>6. PICK p : p = proc' OBVIOUS
<1>7. p \in Procs /\ p.phase = "release" /\ p.op = o /\ p.attempts = proc.attempts
  BY <1>2, <1>4, <1>6, BecomeFacts DEF Phases
<1>8. proc.attempts <= p.attempts /\ p.attempts \in Nat /\ p.attempts <= MaxCommands BY <1>2, <1>7
<1>9. Kept(o, p)' BY <1>1, <1>4, <1>5, <1>8, WorkKept
<1>10. \A c \in file'[o].journal.kept : Len(c.lines) <= 2 * p.attempts + 3 BY <1>3, <1>5, <1>7
<1> QED BY <1>6, <1>7, <1>9, <1>10, ToRelease

LEMMA SignalStep == ASSUME IInv, Interrupted PROVE IInv'
<1>1. Signal /\ ~ In("command") /\ Elsewhere /\ UNCHANGED acked BY DEF Interrupted, Signal
<1>2. CASE In("reserve") /\ Now.kind \in {"write", "sync"}
  <2>1. Put(Now, Unlinked(Get(Now))) BY <1>1, <1>2 DEF Signal
  <2>2. End BY <1>1, <1>2 DEF Signal, In, Appending
  <2>3. Get(Now) \in File(Contents) /\ Get(Now).seen \in Get(Now).kept BY <1>1, <1>2, ReservePlace
  <2>4. PICK g \in File(Contents) : g = Get(Now) /\ g.seen \in g.kept BY <2>3
  <2>5. PICK f \in File(Contents) : f = Unlinked(g) /\ f.seen = Absent /\ f.kept = g.kept \cup {Absent}
    BY <2>4, EntryFacts
  <2>6. /\ Put(Now, f) /\ f.seen \in f.kept
        /\ f.kept \subseteq Get(Now).kept \cup {Absent, Torn, FirstContent(Now.name)}
    BY <2>1, <2>4, <2>5
  <2>7. Data' /\ Rest' BY <1>1, <1>2, <2>6, ReservePut
  <2>8. proc' \in Procs /\ proc'.phase = "idle" /\ proc'.attempts = 0 BY <2>2, EndFacts
  <2> QED BY <2>7, <2>8, Quietly
<1>3. CASE ~ (In("reserve") /\ Now.kind \in {"write", "sync"})
  <2>1. UNCHANGED <<file, index>> BY <1>1, <1>3 DEF Signal
  <2>2. CASE /\ In("work") \/ (Appending /\ proc.event \in CommandEvents)
             /\ proc' = [proc EXCEPT !.phase = "work", !.failed = TRUE, !.todo = <<>>]
    BY <1>1, <2>1, <2>2, SignalWork
  <2>3. CASE (In("replace") \/ Appending) /\ Become("release") BY <1>1, <2>1, <2>3, SignalRelease
  <2>4. CASE End
    <3>1. Data BY DEF IInv
    <3>2. Rest' /\ UNCHANGED <<ran, loose>> BY <1>1, RestFacts
    <3>3. Data' BY <1>1, <2>1, <3>1, <3>2, DataSame
    <3>4. proc' \in Procs /\ proc'.phase = "idle" /\ proc'.attempts = 0 BY <2>4, EndFacts
    <3> QED BY <3>2, <3>3, <3>4, Quietly
  <2> QED BY <1>1, <2>2, <2>3, <2>4 DEF Signal
<1> QED BY <1>2, <1>3

(* The call is left, with what it leaves alive. *)
LEMMA LeaveFacts ==
  ASSUME IInv, Leave, UNCHANGED <<file, index, acked, ran>>
  PROVE  /\ Data' /\ Rest'
         /\ Quiet => UNCHANGED loose
<1>1. Rest' BY DEF Leave, Rest
<1>2. Data /\ Commanding /\ Calling BY DEF IInv, Commanding
<1>3. group \cap outside = {} BY <1>2 DEF Calling, RunnerTypeOK
<1>4. Quiet => Alive \ outside = {} BY DEF Quiet, Alive
<1>5. Quiet => UNCHANGED loose BY <1>4 DEF Leave
<1>6. CASE ~ In("command")
  <2>1. leader = NoLeader /\ group = {} BY <1>2, <1>6 DEF Commanding
  <2>2. Quiet BY <2>1 DEF Quiet, Running, Stuck, NoLeader
  <2>3. Data' BY <1>2, <1>5, <2>2, DataSame
  <2> QED BY <1>1, <1>5, <2>3
<1>7. CASE In("command")
  <2>1. Working BY <1>7 DEF Working, WorkPhases, In
  <2>2. PICK o \in OperationIds : o = proc.op BY <2>1, WorkFacts
  <2>3. /\ Typed /\ ran[o] \in Nat /\ ran[o] <= proc.attempts /\ proc.attempts <= MaxCommands
        /\ proc.attempts \in Nat /\ MaxCommands \in Nat
        /\ Absent \notin file[o].marker.kept /\ Journal = file[o].journal /\ Journal.seen \in Journal.kept
        /\ \A c \in Journal.kept : c.lines \in Seq(Events) /\ Fits(o, c.lines)
    BY <2>1, <2>2, WorkFacts
  <2>4. Journal.kept = {Journal.seen} /\ Open(o, Journal.seen.lines)
    BY <1>2, <1>7, <2>2 DEF Commanding
  <2>5. loose' \subseteq loose \cup {o} /\ loose \subseteq loose' BY <2>2 DEF Leave
  <2>6. ran' \in [OperationIds -> Nat] /\ loose' \subseteq OperationIds BY <2>3, <2>5 DEF Typed
  <2>7. \A p \in OperationIds : p # o => ran'[p] = ran[p] /\ (p \in loose' <=> p \in loose)
    BY <2>5
  <2>8. PICK s \in Seq(Events) : s = Journal.seen.lines BY <2>3
  <2>9. Begun(s) \in Nat /\ Ended(s) \in Nat BY <2>8, TallyNat DEF Begun, Ended
  <2>10. Owed(o) \in {0, 1} /\ Owed(o)' \in {0, 1} BY DEF Owed
  <2>11. ran[o] <= Begun(s) /\ Ended(s) + Owed(o) < Begun(s)
    BY <2>3, <2>4, <2>8 DEF Fits, Open
  <2>12. Ended(s) + Owed(o)' <= Begun(s) BY <2>9, <2>10, <2>11
  <2>13. \A c \in file[o].journal.kept :
           ran'[o] <= Begun(c.lines) /\ Ended(c.lines) + Owed(o)' <= Begun(c.lines)
    BY <2>3, <2>4, <2>8, <2>11, <2>12
  <2>14. ran'[o] <= MaxCommands BY <2>3
  <2>15. Data' BY <1>2, <2>3, <2>6, <2>7, <2>13, <2>14, DataRun
  <2> QED BY <1>1, <1>5, <2>15
<1> QED BY <1>6, <1>7

LEMMA KillStep == ASSUME IInv, Killed PROVE IInv'
<1>1. Data' /\ Rest' BY LeaveFacts DEF Killed, Kill
<1>2. proc' \in Procs /\ proc'.phase = "idle" /\ proc'.attempts = 0
  BY EndFacts DEF Killed, Kill
<1> QED BY <1>1, <1>2, Quietly

LEMMA PowerFacts ==
  ASSUME IInv, PowerFails
  PROVE  /\ file' \in [OperationIds -> [Names -> File(Contents)]]
         /\ \A o \in OperationIds, n \in Names :
              file'[o][n].seen \in file[o][n].kept /\ file'[o][n].kept = {file'[o][n].seen}
<1> DEFINE unsure == {f \in OperationIds \X Names : ~ Durable(file[f[1]][f[2]])}
<1>1. PICK left \in [unsure -> UNION {file[f[1]][f[2]].kept : f \in unsure}] :
        /\ \A f \in unsure : left[f] \in file[f[1]][f[2]].kept
        /\ file' = [o \in OperationIds |-> [n \in Names |->
                      IF <<o, n>> \in unsure THEN OnDisk(left[<<o, n>>]) ELSE file[o][n]]]
  BY DEF PowerFails, PowerLoss
<1>2. Data /\ Typed BY DEF IInv, Data
<1>3. ASSUME NEW o \in OperationIds, NEW n \in Names
      PROVE  /\ file'[o][n] \in File(Contents)
             /\ file'[o][n].seen \in file[o][n].kept /\ file'[o][n].kept = {file'[o][n].seen}
  <2>1. PICK g \in File(Contents) : g = file[o][n] BY <1>2, FileFacts
  <2>2. g.seen \in g.kept BY <1>2, <2>1 DEF Data, Lasting, Shaped
  <2>3. CASE <<o, n>> \in unsure
    <3>1. PICK c \in g.kept : c = left[<<o, n>>] BY <1>1, <2>1, <2>3
    <3>2. file'[o][n] = OnDisk(c) BY <1>1, <2>3, <3>1
    <3>3. c \in Contents BY <3>1 DEF File
    <3>4. OnDisk(c) \in File(Contents) /\ OnDisk(c).seen = c /\ OnDisk(c).kept = {c}
      BY <3>3 DEF OnDisk, File
    <3> QED BY <2>1, <3>1, <3>2, <3>4
  <2>4. CASE <<o, n>> \notin unsure
    <3>1. Durable(g) BY <2>1, <2>4
    <3>2. file'[o][n] = g BY <1>1, <2>1, <2>4
    <3>3. g.kept = {g.seen} BY <3>1 DEF Durable
    <3> QED BY <2>1, <2>2, <3>2, <3>3
  <2> QED BY <2>3, <2>4
<1>4. file' \in [OperationIds -> [Names -> File(Contents)]]
  <2>1. \A o \in OperationIds : file'[o] = [n \in Names |-> file'[o][n]] BY <1>1
  <2>2. \A o \in OperationIds : file'[o] \in [Names -> File(Contents)] BY <1>3, <2>1
  <2>3. file' = [o \in OperationIds |-> file'[o]] BY <1>1
  <2> QED BY <2>2, <2>3
<1> QED BY <1>3, <1>4

LEMMA PowerStep == ASSUME IInv, PowerFails PROVE IInv'
<1>1. /\ End /\ Rest' /\ loose' = {} /\ UNCHANGED ran /\ index' \in Survivors(index)
      /\ acked' = [o \in OperationIds |-> file'[o].journal.seen.lines]
  BY DEF PowerFails, PowerLoss, Rest
<1>2. Data BY DEF IInv
<1>3. /\ file' \in [OperationIds -> [Names -> File(Contents)]]
      /\ \A o \in OperationIds, n \in Names :
           file'[o][n].seen \in file[o][n].kept /\ file'[o][n].kept = {file'[o][n].seen}
  BY PowerFacts
<1>4. Data' BY <1>1, <1>2, <1>3, DataLost
<1>5. proc' \in Procs /\ proc'.phase = "idle" /\ proc'.attempts = 0 BY <1>1, EndFacts
<1> QED BY <1>1, <1>4, <1>5, Quietly

-----------------------------------------------------------------------------
(* The call of the runner. *)

LEMMA CallFacts ==
  ASSUME IInv, In("command")
  PROVE  /\ Calling /\ Working /\ Data /\ proc \in Procs /\ proc.todo = <<>>
         /\ Journal.kept = {Journal.seen} /\ Open(proc.op, Journal.seen.lines)
         /\ leader.state = "none" => /\ ran[proc.op] < Begun(Journal.seen.lines)
                                     /\ ran[proc.op] < proc.attempts
         /\ \A c \in Journal.kept : Len(c.lines) <= 2 * proc.attempts /\ ~ Done(c)
<1>1. Working BY DEF In, Working, WorkPhases
<1>2. Room = 2 * proc.attempts BY DEF Room, In
<1>3. \A c \in Journal.kept : Len(c.lines) <= Room BY <1>1, WorkFacts
<1> QED BY <1>1, <1>2, <1>3 DEF IInv, Commanding, Reporting, Unreported

(* A step of the call keeps what is said of the call. *)
LEMMA InCallStep ==
  ASSUME IInv, InCall, Calling',
         leader'.state = "none" => leader.state = "none",
         leader.state = "none" => leader'.state \in {"none", "running"}
  PROVE  IInv'
<1>1. In("command") /\ UNCHANGED <<file, index, acked, proc, loose>>
      /\ ran' = (IF leader.state = "none" /\ leader'.state = "running"
                 THEN [ran EXCEPT ![proc.op] = @ + 1] ELSE ran)
  BY DEF InCall, vars
<1>2. PICK o \in OperationIds : o = proc.op BY <1>1, CallFacts, WorkFacts
<1>3. /\ Typed /\ Data /\ ran[o] \in Nat /\ ran[o] <= proc.attempts /\ proc.attempts <= MaxCommands
      /\ proc.attempts \in Nat /\ MaxCommands \in Nat
      /\ Absent \notin file[o].marker.kept /\ Journal = file[o].journal /\ Journal.seen \in Journal.kept
      /\ \A c \in Journal.kept : c.lines \in Seq(Events) /\ Fits(o, c.lines)
  BY <1>1, <1>2, CallFacts, WorkFacts
<1>4. /\ Journal.kept = {Journal.seen}
      /\ leader.state = "none" => ran[o] < Begun(Journal.seen.lines) /\ ran[o] < proc.attempts
  BY <1>1, <1>2, CallFacts
<1>5. PICK s \in Seq(Events) : s = Journal.seen.lines BY <1>3
<1>6. Begun(s) \in Nat /\ Ended(s) \in Nat BY <1>5, TallyNat DEF Begun, Ended
<1>7. ran[o] <= Begun(s) /\ Ended(s) + Owed(o) <= Begun(s) BY <1>3, <1>5 DEF Fits
<1>8. /\ ran' \in [OperationIds -> Nat] /\ \A p \in OperationIds : p # o => ran'[p] = ran[p]
      /\ ran'[o] \in Nat /\ ran'[o] <= Begun(s) /\ ran'[o] <= proc.attempts
      /\ leader'.state = "none" => ran'[o] = ran[o]
  <2>1. CASE leader.state = "none" /\ leader'.state = "running"
    <3>1. ran' = [ran EXCEPT ![o] = ran[o] + 1] BY <1>1, <1>2, <2>1
    <3>2. ran[o] < Begun(s) /\ ran[o] < proc.attempts BY <1>4, <1>5, <2>1
    <3>3. /\ ran' \in [OperationIds -> Nat] /\ \A p \in OperationIds : p # o => ran'[p] = ran[p]
          /\ ran'[o] = ran[o] + 1
      BY <1>3, <3>1 DEF Typed
    <3> QED BY <1>3, <1>6, <2>1, <3>2, <3>3
  <2>2. CASE ~ (leader.state = "none" /\ leader'.state = "running")
    <3>1. ran' = ran BY <1>1, <2>2
    <3> QED BY <1>3, <1>7, <3>1 DEF Typed
  <2> QED BY <2>1, <2>2
<1>9. Owed(o)' = Owed(o) BY <1>1 DEF Owed
<1>10. Data'
  <2>1. \A c \in file[o].journal.kept :
          ran'[o] <= Begun(c.lines) /\ Ended(c.lines) + Owed(o)' <= Begun(c.lines)
    BY <1>3, <1>4, <1>5, <1>7, <1>8, <1>9
  <2>2. loose' \subseteq OperationIds /\ ran'[o] <= MaxCommands BY <1>1, <1>3, <1>8 DEF Typed
  <2>3. \A p \in OperationIds : p # o => ran'[p] = ran[p] /\ (p \in loose' <=> p \in loose)
    BY <1>1, <1>8
  <2> QED BY <1>1, <1>3, <1>8, <2>1, <2>2, <2>3, DataRun
<1>11. Operating'
  <2>1. Room' = Room /\ Journal' = Journal BY <1>1 DEF Room, BaseRoom, In, Journal
  <2>2. Operating BY DEF IInv
  <2> QED BY <1>1, <1>2, <1>8, <2>1, <2>2 DEF Operating, Working
<1>12. Reversible' BY <1>1 DEF Reversible, Appending, In
<1>13. Reporting'
  <2>1. Reporting BY DEF IInv
  <2> QED BY <1>1, <2>1 DEF Reporting, Unreported, Appending, In, Journal
<1>14. Booting' /\ Reserving' /\ Undoing' BY <1>1 DEF Booting, Reserving, Undoing, In
<1>15. Commanding'
  <2>1. Journal' = Journal BY <1>1 DEF Journal
  <2>2. Open(proc.op, Journal.seen.lines) BY <1>1, CallFacts
  <2>3. Open(proc.op, Journal.seen.lines)' BY <1>1, <2>1, <2>2 DEF Open, Owed
  <2>4. leader'.state = "none" => ran'[o] < Begun(s) /\ ran'[o] < proc.attempts
    BY <1>4, <1>5, <1>8
  <2> QED BY <1>1, <1>2, <1>4, <1>5, <2>1, <2>3, <2>4 DEF Commanding, In
<1>16. proc' \in Procs BY <1>1 DEF IInv
<1> QED BY <1>10, <1>11, <1>12, <1>13, <1>14, <1>15, <1>16 DEF IInv

(* What a step of the runner or of the command makes of the call and its processes. *)
LEMMA CallingKept ==
  ASSUME call' \in [at : CallPlaces, why : Reasons, result : Results, signals : 0 .. MaxSignals],
         leader' \in [state : {"none", "running", "stuck", "zombie", "reaped"}, status : {"0", "1"}],
         group' \cap outside' = {}, group' \cup outside' \subseteq Descendants,
         holders' \subseteq Descendants \cup {"leader"},
         call'.at = "reaping" => ~ Running' /\ group' = {},
         call'.at \in {"joining", "returned"} => Quiet',
         call'.at = "raised" /\ call'.why # "unguarded" => Quiet',
         call'.why = "unguarded" => call'.at = "raised",
         call'.at = "idle" => leader'.state = "none",
         leader'.state = "none" => call'.at \in {"idle", "returned"} /\ group' = {} /\ outside' = {}
  PROVE  Calling'
<1>1. RunnerTypeOK' BY DEF RunnerTypeOK
<1> QED BY <1>1 DEF Calling, At

LEMMA CallFields ==
  ASSUME Calling
  PROVE  /\ call \in [at : CallPlaces, why : Reasons, result : Results, signals : 0 .. MaxSignals]
         /\ call.at \in CallPlaces /\ call.why \in Reasons /\ call.result \in Results
         /\ call.signals \in 0 .. MaxSignals
         /\ leader \in [state : {"none", "running", "stuck", "zombie", "reaped"}, status : {"0", "1"}]
         /\ leader.state \in {"none", "running", "stuck", "zombie", "reaped"} /\ leader.status \in {"0", "1"}
         /\ group \cap outside = {} /\ group \subseteq Descendants /\ outside \subseteq Descendants
         /\ holders \subseteq Descendants \cup {"leader"}
         /\ call.at = "reaping" => ~ Running /\ group = {}
         /\ call.at \in {"joining", "returned"} => Quiet
         /\ call.at = "raised" /\ call.why # "unguarded" => Quiet
         /\ call.why = "unguarded" => call.at = "raised"
         /\ call.at = "idle" => leader.state = "none"
         /\ leader.state = "none" => call.at \in {"idle", "returned"} /\ group = {} /\ outside = {}
BY DEF Calling, RunnerTypeOK, At

(* The call goes to another place, for the same or for another reason. *)
LEMMA CallMoves ==
  ASSUME Calling, NEW a \in CallPlaces, NEW w \in Reasons, NEW r \in Results, NEW n \in 0 .. MaxSignals
  PROVE  /\ call' = [call EXCEPT !.at = a] =>
              /\ call' \in [at : CallPlaces, why : Reasons, result : Results, signals : 0 .. MaxSignals]
              /\ call'.at = a /\ call'.why = call.why
         /\ call' = [call EXCEPT !.at = a, !.why = w] =>
              /\ call' \in [at : CallPlaces, why : Reasons, result : Results, signals : 0 .. MaxSignals]
              /\ call'.at = a /\ call'.why = w
         /\ call' = [call EXCEPT !.at = a, !.result = r] =>
              /\ call' \in [at : CallPlaces, why : Reasons, result : Results, signals : 0 .. MaxSignals]
              /\ call'.at = a /\ call'.why = call.why
         /\ call' = [call EXCEPT !.signals = n, !.why = w, !.at = a] =>
              /\ call' \in [at : CallPlaces, why : Reasons, result : Results, signals : 0 .. MaxSignals]
              /\ call'.at = a /\ call'.why = w
<1>1. call \in [at : CallPlaces, why : Reasons, result : Results, signals : 0 .. MaxSignals]
  BY CallFields
<1> QED BY <1>1

LEMMA InputKeeps == ASSUME Calling, InputWritten PROVE Calling'
<1> DEFINE Calls == [at : CallPlaces, why : Reasons, result : Results, signals : 0 .. MaxSignals]
<1>1. UNCHANGED <<leader, group, outside, holders>> /\ call.at = "writing" BY DEF InputWritten, At
<1>2. leader.state # "none" /\ call.why # "unguarded" BY <1>1, CallFields
<1>3. /\ {"waiting", "terminating"} \subseteq CallPlaces /\ "exception" \in Reasons
  BY DEF CallPlaces, Reasons
<1>4. /\ call' \in Calls /\ call'.at \in {"waiting", "terminating"}
      /\ call'.why \in {call.why, "exception"}
  <2>1. CASE Go("waiting")
    <3>1. call' = [call EXCEPT !.at = "waiting"] BY <2>1 DEF Go
    <3> QED BY <1>3, <3>1, CallFields, CallMoves
  <2>2. CASE call' = [call EXCEPT !.at = "terminating", !.why = "exception"]
    <3>1. call' \in Calls /\ call'.at = "terminating" /\ call'.why = "exception"
      BY <1>3, <2>2, CallFields, CallMoves
    <3> QED BY <3>1
  <2> QED BY <2>1, <2>2 DEF InputWritten
<1> QED BY <1>1, <1>2, <1>4, CallFields, CallingKept

LEMMA RunnerKeeps ==
  ASSUME Calling, RunnerStep
  PROVE  /\ Calling' /\ (leader'.state = "none" => leader.state = "none")
         /\ (leader.state = "none" => leader'.state \in {"none", "running"})
<1> DEFINE Calls   == [at : CallPlaces, why : Reasons, result : Results, signals : 0 .. MaxSignals]
           Leaders == [state : {"none", "running", "stuck", "zombie", "reaped"}, status : {"0", "1"}]
<1>1. /\ call \in Calls
      /\ call.at \in CallPlaces /\ call.why \in Reasons /\ call.result \in Results
      /\ call.signals \in 0 .. MaxSignals
      /\ leader \in Leaders
      /\ leader.state \in {"none", "running", "stuck", "zombie", "reaped"} /\ leader.status \in {"0", "1"}
      /\ group \cap outside = {} /\ group \subseteq Descendants /\ outside \subseteq Descendants
      /\ holders \subseteq Descendants \cup {"leader"}
      /\ call.at = "reaping" => ~ Running /\ group = {}
      /\ call.at \in {"joining", "returned"} => Quiet
      /\ call.at = "raised" /\ call.why # "unguarded" => Quiet
      /\ call.why = "unguarded" => call.at = "raised"
      /\ call.at = "idle" => leader.state = "none"
      /\ leader.state = "none" => call.at \in {"idle", "returned"} /\ group = {} /\ outside = {}
  BY CallFields
<1>2. /\ {"started", "writing", "waiting", "terminating", "grace", "reaping", "joining", "returned", "raised"}
           \subseteq CallPlaces
      /\ {"exit", "timeout", "lingering", "exception"} \subseteq Reasons
      /\ {"skipped", "0", "1", "124", "125", "127"} \subseteq Results
  BY DEF CallPlaces, Reasons, Results
<1>3. CASE NotStarted
  <2>1. PICK r \in Results : call' = [call EXCEPT !.at = "returned", !.result = r]
    BY <1>2, <1>3 DEF NotStarted
  <2>2. "returned" \in CallPlaces BY <1>2
  <2>3. call' \in Calls /\ call'.at = "returned" /\ call'.why = call.why
    BY <1>1, <2>1, <2>2, CallMoves
  <2>4. UNCHANGED <<leader, group, outside, holders>> /\ call.at = "idle" BY <1>3 DEF NotStarted, At
  <2>5. leader.state = "none" /\ group = {} /\ outside = {} /\ call.why # "unguarded" BY <1>1, <2>4
  <2>6. Quiet' BY <2>4, <2>5 DEF Quiet, Running, Stuck
  <2>7. Calling' BY <1>1, <2>3, <2>4, <2>5, <2>6, CallingKept
  <2> QED BY <2>4, <2>5, <2>7
<1>4. CASE Popen
  <2>1. call' \in Calls /\ call'.at = "started" /\ call'.why = call.why
    BY <1>1, <1>2, <1>4, CallMoves DEF Popen, Go
  <2>2. /\ leader' \in Leaders /\ leader'.state = "running" /\ holders' = {"leader"}
        /\ UNCHANGED <<group, outside>> /\ call.at = "idle"
    BY <1>4 DEF Popen, At
  <2>3. call.why # "unguarded" BY <1>1, <2>2
  <2>4. holders' \subseteq Descendants \cup {"leader"} BY <2>2
  <2>5. group' \cap outside' = {} /\ group' \cup outside' \subseteq Descendants BY <1>1, <2>2
  <2>6. /\ call'.at \notin {"reaping", "joining", "returned"} /\ call'.at # "raised"
        /\ call'.why # "unguarded" /\ call'.at # "idle" /\ leader'.state # "none"
    BY <2>1, <2>2, <2>3
  <2>7. Calling' BY <2>1, <2>2, <2>4, <2>5, <2>6, CallingKept
  <2> QED BY <2>2, <2>7
<1>5. CASE StartReaders
  <2>1. call' \in Calls /\ call'.at \in {"writing", "waiting"} /\ call'.why = call.why
    <3>1. PICK place \in {"writing", "waiting"} : call' = [call EXCEPT !.at = place]
      BY <1>5 DEF StartReaders, Go
    <3>2. place \in CallPlaces BY <1>2
    <3> QED BY <1>1, <3>1, <3>2, CallMoves
  <2>2. UNCHANGED <<leader, group, outside, holders>> /\ call.at = "started" BY <1>5 DEF StartReaders, At
  <2>3. call.why # "unguarded" /\ leader.state # "none" BY <1>1, <2>2
  <2>4. Calling' BY <1>1, <2>1, <2>2, <2>3, CallingKept
  <2> QED BY <2>2, <2>3, <2>4
<1>6. CASE TimesOut
  <2>1. call' = [call EXCEPT !.at = "terminating", !.why = "timeout"] BY <1>6 DEF TimesOut
  <2>2. call' \in Calls /\ call'.at = "terminating" /\ call'.why = "timeout"
    BY <1>1, <1>2, <2>1, CallMoves
  <2>3. UNCHANGED <<leader, group, outside, holders>> /\ call.at = "waiting" BY <1>6 DEF TimesOut, At
  <2>4. leader.state # "none" BY <1>1, <2>3
  <2>5. Calling' BY <1>1, <2>2, <2>3, <2>4, CallingKept
  <2> QED BY <2>3, <2>4, <2>5
<1>7. CASE TerminateGroup
  <2>1. call' \in Calls /\ call'.at = "grace" /\ call'.why = call.why
    BY <1>1, <1>2, <1>7, CallMoves DEF TerminateGroup, Go
  <2>2. PICK ignore \in SUBSET group, ignored \in BOOLEAN :
          /\ group' = ignore
          /\ leader' = IF Running /\ ~ ignored THEN Dead("1") ELSE leader
          /\ holders' = (holders \ (group \ ignore)) \ (IF Running /\ ~ ignored THEN {"leader"} ELSE {})
    BY <1>7 DEF TerminateGroup
  <2>3. UNCHANGED outside /\ call.at = "terminating" BY <1>7 DEF TerminateGroup, At
  <2>4. call.why # "unguarded" /\ leader.state # "none" BY <1>1, <2>3
  <2>5. leader' \in Leaders /\ leader'.state # "none" BY <1>1, <2>2, <2>4 DEF Dead
  <2>6. /\ group' \cap outside' = {} /\ group' \cup outside' \subseteq Descendants
        /\ holders' \subseteq Descendants \cup {"leader"}
    BY <1>1, <2>2, <2>3
  <2>7. /\ call'.at \notin {"reaping", "joining", "returned"} /\ call'.at # "raised"
        /\ call'.why # "unguarded" /\ call'.at # "idle"
    BY <2>1, <2>4
  <2>8. Calling' BY <2>1, <2>4, <2>5, <2>6, <2>7, CallingKept
  <2> QED BY <2>4, <2>5, <2>8
<1>8. CASE KillGroup
  <2>1. call' \in Calls /\ call'.at = "reaping" /\ call'.why = call.why
    BY <1>1, <1>2, <1>8, CallMoves DEF KillGroup, Go
  <2>2. /\ group' = {} /\ holders' \subseteq holders /\ UNCHANGED outside /\ call.at = "grace"
        /\ leader' = (IF Running THEN Dead("1") ELSE leader) \/ leader' = [leader EXCEPT !.state = "stuck"]
    BY <1>8 DEF KillGroup, At
  <2>3. call.why # "unguarded" /\ leader.state # "none" BY <1>1, <2>2
  <2>4. leader' \in Leaders /\ leader'.state \notin {"none", "running"}
    BY <1>1, <2>2, <2>3 DEF Dead, Running
  <2>5. ~ Running' BY <2>4 DEF Running
  <2>6. /\ group' \cap outside' = {} /\ group' \cup outside' \subseteq Descendants
        /\ holders' \subseteq Descendants \cup {"leader"}
    BY <1>1, <2>2
  <2>7. Calling' BY <2>1, <2>2, <2>3, <2>4, <2>5, <2>6, CallingKept
  <2> QED BY <2>3, <2>4, <2>7
<1>9. CASE Reap
  <2>1. call' \in Calls /\ call'.at = "joining" /\ call'.why = call.why
    BY <1>1, <1>2, <1>9, CallMoves DEF Reap, Go
  <2>2. leader' = Buried /\ UNCHANGED <<group, outside, holders>> /\ call.at = "reaping"
    BY <1>9 DEF Reap, At
  <2>3. call.why # "unguarded" /\ leader.state # "none" /\ group = {} BY <1>1, <2>2
  <2>4. leader' \in Leaders /\ leader'.state = "reaped" BY <1>1, <2>2 DEF Buried
  <2>5. Quiet' BY <2>2, <2>3, <2>4 DEF Quiet, Running, Stuck
  <2>6. Calling' BY <1>1, <2>1, <2>2, <2>3, <2>4, <2>5, CallingKept
  <2> QED BY <2>3, <2>4, <2>6
<1>10. CASE JoinReaders
  <2>1. UNCHANGED <<leader, group, outside, holders>> /\ call.at = "joining"
    BY <1>10 DEF JoinReaders, At
  <2>2. call.why # "unguarded" /\ leader.state # "none" /\ Quiet BY <1>1, <2>1
  <2>3. Quiet' BY <2>1, <2>2 DEF Quiet, Running, Stuck
  <2>4. call' \in Calls /\ call'.why = call.why /\ call'.at \in {"raised", "returned"}
    <3>1. CASE call.why = "exception"
      <4>1. call' = [call EXCEPT !.at = "raised"] BY <1>10, <3>1 DEF JoinReaders
      <4> QED BY <1>1, <1>2, <4>1, CallMoves
    <3>2. CASE call.why # "exception"
      <4>1. call' = [call EXCEPT !.at = "returned", !.result = ResultOf(call.why)]
        BY <1>10, <3>2 DEF JoinReaders
      <4>2. ResultOf(call.why) \in Results BY <1>1, <1>2 DEF ResultOf
      <4>3. PICK r \in Results : r = ResultOf(call.why) BY <4>2
      <4>4. call' = [call EXCEPT !.at = "returned", !.result = r] BY <4>1, <4>3
      <4>5. "returned" \in CallPlaces BY <1>2
      <4> QED BY <1>1, <4>3, <4>4, <4>5, CallMoves
    <3> QED BY <3>1, <3>2
  <2>5. Calling' BY <1>1, <2>1, <2>2, <2>3, <2>4, CallingKept
  <2> QED BY <2>1, <2>2, <2>5
<1>11. CASE ReadersLinger
  <2>1. call' \in Calls /\ call'.at = "raised" /\ call'.why = call.why
    BY <1>1, <1>2, <1>11, CallMoves DEF ReadersLinger, Go
  <2>2. UNCHANGED <<leader, group, outside, holders>> /\ call.at = "joining"
    BY <1>11 DEF ReadersLinger, At
  <2>3. call.why # "unguarded" /\ leader.state # "none" /\ Quiet BY <1>1, <2>2
  <2>4. Quiet' BY <2>2, <2>3 DEF Quiet, Running, Stuck
  <2>5. Calling' BY <1>1, <2>1, <2>2, <2>3, <2>4, CallingKept
  <2> QED BY <2>2, <2>3, <2>5
<1>12. CASE LeaderExited
  <2>1. leader' = Buried /\ UNCHANGED <<group, outside, holders>> /\ call.at = "waiting"
    BY <1>12 DEF LeaderExited, At
  <2>2. call.why # "unguarded" /\ leader.state # "none" BY <1>1, <2>1
  <2>3. leader' \in Leaders /\ leader'.state = "reaped" BY <1>1, <2>1 DEF Buried
  <2>4. /\ call' \in Calls /\ call'.at \in {"joining", "terminating"}
        /\ call'.why \in {"exit", "lingering"} /\ (call'.at = "joining" => group = {})
    <3>1. CASE group = {}
      <4>1. call' = [call EXCEPT !.at = "joining", !.why = "exit"] BY <1>12, <3>1 DEF LeaderExited
      <4> QED BY <1>1, <1>2, <3>1, <4>1, CallMoves
    <3>2. CASE group # {}
      <4>1. call' = [call EXCEPT !.at = "terminating", !.why = "lingering"]
        BY <1>12, <3>2 DEF LeaderExited
      <4>2. call' \in Calls /\ call'.at = "terminating" /\ call'.why = "lingering"
        BY <1>1, <1>2, <4>1, CallMoves
      <4> QED BY <4>2
    <3> QED BY <3>1, <3>2
  <2>5. call'.at = "joining" => Quiet' BY <2>1, <2>3, <2>4 DEF Quiet, Running, Stuck
  <2>6. Calling' BY <1>1, <2>1, <2>2, <2>3, <2>4, <2>5, CallingKept
  <2> QED BY <2>2, <2>3, <2>6
<1>13. CASE PipeBreaks
  <2>1. InputWritten BY <1>13 DEF PipeBreaks
  <2>2. UNCHANGED leader BY <2>1 DEF InputWritten
  <2>3. Calling' /\ call.at = "writing" BY <2>1, InputKeeps DEF InputWritten, At
  <2> QED BY <1>1, <2>2, <2>3
<1> QED
  BY <1>3, <1>4, <1>5, <1>6, <1>7, <1>8, <1>9, <1>10, <1>11, <1>12, <1>13 DEF RunnerStep

LEMMA CommandKeeps ==
  ASSUME Calling, CommandStep
  PROVE  /\ Calling' /\ (leader'.state = "none" => leader.state = "none")
         /\ (leader.state = "none" => leader'.state \in {"none", "running"})
<1> DEFINE Leaders == [state : {"none", "running", "stuck", "zombie", "reaped"}, status : {"0", "1"}]
<1>2. CASE LeaderExits
  <2>1. /\ Running \/ Stuck
        /\ leader' = Dead(leader.status) /\ holders' = holders \ {"leader"} /\ UNCHANGED <<call, group, outside>>
    BY <1>2 DEF LeaderExits
  <2>2. leader' \in Leaders /\ leader'.state = "zombie" /\ leader.state \in {"running", "stuck"}
    BY <2>1, CallFields DEF Dead, Running, Stuck
  <2>3. ~ Running' /\ (Quiet => Quiet') BY <2>1, <2>2 DEF Running, Stuck, Quiet
  <2>4. Calling' BY <2>1, <2>2, <2>3, CallFields, CallingKept
  <2> QED BY <2>2, <2>4
<1>3. ASSUME NEW d \in Descendants, Fork(d) PROVE Calling' /\ UNCHANGED leader
  <2>1. /\ d \notin outside /\ (Running \/ group # {}) /\ group' = group \cup {d}
        /\ holders' \subseteq holders \cup {d} /\ UNCHANGED <<call, leader, outside>>
    BY <1>3 DEF Fork
  <2>2. leader.state # "none" BY <2>1, CallFields DEF Running
  <2>3. /\ call'.at \notin {"reaping", "joining", "returned"}
        /\ call'.at = "raised" => call'.why = "unguarded"
    BY <2>1, CallFields DEF Quiet
  <2>4. Calling' BY <2>1, <2>2, <2>3, CallFields, CallingKept
  <2> QED BY <2>1, <2>4
<1>4. ASSUME NEW d \in Descendants, LeaveGroup(d) \/ DescendantExits(d) PROVE Calling' /\ UNCHANGED leader
  <2>1. /\ group' \subseteq group /\ outside' \subseteq outside \cup group /\ group' \cap outside' = {}
        /\ holders' \subseteq holders /\ UNCHANGED <<call, leader>> /\ (group # {} \/ outside # {})
    BY <1>4, CallFields DEF LeaveGroup, DescendantExits
  <2>2. leader.state # "none" BY <2>1, CallFields
  <2>3. /\ Quiet => Quiet'
        /\ ~ Running /\ group = {} => ~ Running' /\ group' = {}
    BY <2>1 DEF Quiet, Running, Stuck
  <2>4. Calling' BY <2>1, <2>2, <2>3, CallFields, CallingKept
  <2> QED BY <2>1, <2>4
<1>5. leader.state \in {"none", "running", "stuck", "zombie", "reaped"} BY CallFields
<1>6. CASE InputTaken
  <2>1. InputWritten BY <1>6 DEF InputTaken
  <2> QED BY <2>1, InputKeeps, <1>5 DEF InputWritten
<1> QED BY <1>2, <1>3, <1>4, <1>5, <1>6 DEF CommandStep

LEMMA SignalKeeps ==
  ASSUME Calling, SignalArrives
  PROVE  Calling' /\ UNCHANGED leader
<1> DEFINE Calls == [at : CallPlaces, why : Reasons, result : Results, signals : 0 .. MaxSignals]
<1>1. /\ call.at \in {"started", "waiting", "terminating", "grace", "reaping", "joining"}
      /\ UNCHANGED <<leader, group, outside, holders>>
  BY DEF SignalArrives, At
<1>2. leader.state # "none" BY <1>1, CallFields
<1>3. /\ {"raised", "terminating"} \subseteq CallPlaces /\ {"unguarded", "exception"} \subseteq Reasons
      /\ call.result \in Results
  BY CallFields DEF CallPlaces, Reasons
<1>4. PICK n \in 0 .. MaxSignals : n = call.signals + 1
  BY CallFields, CommandRunnerAssumption DEF SignalArrives
<1>5. PICK w \in {"unguarded", "exception"} :
        w = IF At({"started"}) \/ (call.why = "exception" /\ ~ At({"joining"}))
            THEN "unguarded" ELSE "exception"
  OBVIOUS
<1>6. PICK a \in {"raised", "terminating"} :
        a = IF At({"started", "joining"}) \/ call.why = "exception" THEN "raised" ELSE "terminating"
  OBVIOUS
<1>7. call' = [call EXCEPT !.signals = n, !.why = w, !.at = a] BY <1>4, <1>5, <1>6 DEF SignalArrives
<1>8. call' \in Calls /\ call'.at = a /\ call'.why = w BY <1>3, <1>7, CallMoves
<1>9. w = "unguarded" => a = "raised" BY <1>1, <1>5, <1>6 DEF At
<1>10. a = "raised" /\ w # "unguarded" => Quiet'
  <2>1. a = "raised" /\ w # "unguarded" => call.at = "joining" BY <1>1, <1>5, <1>6 DEF At
  <2> QED BY <1>1, <2>1, CallFields DEF Quiet, Running, Stuck
<1>11. Calling' BY <1>1, <1>2, <1>8, <1>9, <1>10, CallFields, CallingKept
<1> QED BY <1>1, <1>11

LEMMA SignalInWriteKeeps ==
  ASSUME Calling, SignalInWrite
  PROVE  Calling' /\ UNCHANGED leader
<1> DEFINE Calls == [at : CallPlaces, why : Reasons, result : Results, signals : 0 .. MaxSignals]
<1>1. UNCHANGED <<leader, group, outside, holders>> /\ call.at = "writing" BY DEF SignalInWrite, At
<1>2. leader.state # "none" BY <1>1, CallFields
<1>3. PICK n \in 0 .. MaxSignals : n = call.signals + 1
  BY CallFields, CommandRunnerAssumption DEF SignalInWrite
<1>4. PICK a \in {"writing", "terminating"} :
        call' = [call EXCEPT !.signals = n, !.why = "exception", !.at = a]
  BY <1>3 DEF SignalInWrite
<1>5. a \in CallPlaces /\ "exception" \in Reasons /\ call.result \in Results
  BY CallFields DEF CallPlaces, Reasons
<1>6. call' \in Calls /\ call'.at = a /\ call'.why = "exception" BY <1>4, <1>5, CallMoves
<1>7. Calling' BY <1>1, <1>2, <1>6, CallFields, CallingKept
<1> QED BY <1>1, <1>7

LEMMA RunnerStepKept == ASSUME IInv, RunnerRuns PROVE IInv'
<1>1. RunnerStep /\ InCall /\ Calling BY DEF RunnerRuns, IInv, Commanding
<1> QED BY <1>1, RunnerKeeps, InCallStep

LEMMA CommandStepKept == ASSUME IInv, CommandRuns PROVE IInv'
<1>1. InCall /\ Calling BY DEF CommandRuns, IInv, Commanding
<1>2. CASE CommandStep BY <1>1, <1>2, CommandKeeps, InCallStep
<1>3. CASE SignalArrives
  <2>1. Calling' /\ UNCHANGED leader BY <1>1, <1>3, SignalKeeps
  <2>2. leader.state = "none" => leader'.state \in {"none", "running"} BY <2>1
  <2> QED BY <1>1, <2>1, <2>2, InCallStep
<1>4. CASE SignalInWrite
  <2>1. Calling' /\ UNCHANGED leader BY <1>1, <1>4, SignalInWriteKeeps
  <2>2. leader.state = "none" => leader'.state \in {"none", "running"} BY <2>1
  <2> QED BY <1>1, <2>1, <2>2, InCallStep
<1> QED BY <1>2, <1>3, <1>4 DEF CommandRuns

LEMMA CallReturnsStep == ASSUME IInv, CallReturns PROVE IInv'
<1>1. /\ call.at = "returned" /\ In("command") /\ BeginAppend("command-finished")
      /\ UNCHANGED <<file, index, acked, ran>> /\ Leave
  BY DEF CallReturns, CommandEnds, At
<1>2. /\ Calling /\ Working /\ Open(proc.op, Journal.seen.lines)
      /\ \A c \in Journal.kept : Len(c.lines) <= 2 * proc.attempts /\ ~ Done(c)
  BY <1>1, CallFacts
<1>3. Quiet BY <1>1, <1>2, CallFields DEF Quiet
<1>4. Data' /\ Rest' /\ UNCHANGED loose BY <1>1, <1>3, LeaveFacts
<1>5. PICK o : o = proc.op OBVIOUS
<1>6. /\ file'[o].marker = file[o].marker /\ file'[o].journal = Journal /\ Journal = file[o].journal
  BY <1>1, <1>5 DEF Journal
<1>7. Open(o, file[o].journal.seen.lines)' BY <1>1, <1>2, <1>4, <1>5, <1>6 DEF Open, Owed
<1>8. "command-finished" \in Events \ {"operation-started"} BY DEF Events
<1>9. \A c \in Journal.kept : Len(c.lines) <= 2 * proc.attempts + 0 /\ ~ Done(c)
  <2>1. proc.attempts \in Nat BY <1>2, WorkFacts
  <2> QED BY <1>2, <2>1
<1> QED BY <1>1, <1>2, <1>4, <1>5, <1>6, <1>7, <1>8, <1>9, WorkAppends

LEMMA CallRaisesStep == ASSUME IInv, CallRaises PROVE IInv'
<1>1. /\ In("command") /\ Leave /\ UNCHANGED <<file, index, acked, ran>>
      /\ proc' = [proc EXCEPT !.phase = "work", !.failed = TRUE]
  <2>1. call.at = "raised" BY DEF CallRaises, At
  <2>2. call # NoCall BY <2>1 DEF NoCall
  <2>3. In("command") BY <2>2 DEF IInv, Commanding
  <2> QED BY <2>3 DEF CallRaises
<1>2. /\ Working /\ proc \in Procs /\ proc.todo = <<>>
      /\ \A c \in Journal.kept : Len(c.lines) <= 2 * proc.attempts /\ ~ Done(c)
  BY <1>1, CallFacts
<1>3. /\ proc.attempts \in Nat /\ proc.attempts <= MaxCommands
      /\ \A c \in Journal.kept : Len(c.lines) \in Nat
  BY <1>2, WorkFacts
<1>4. Data' /\ Rest' BY <1>1, LeaveFacts
<1>5. PICK o : o = proc.op OBVIOUS
<1>6. PICK p : p = proc' OBVIOUS
<1>7. p \in Procs /\ p.phase = "work" /\ p.todo = <<>> /\ p.op = o /\ p.attempts = proc.attempts
  BY <1>1, <1>2, <1>5, <1>6 DEF Procs, Phases
<1>8. file'[o].marker = file[o].marker /\ file'[o].journal = Journal BY <1>1, <1>5 DEF Journal
<1>9. Kept(o, p)' BY <1>1, <1>2, <1>3, <1>4, <1>5, <1>7, <1>8, WorkKept
<1>10. \A c \in file'[o].journal.kept : Len(c.lines) <= 2 * p.attempts + 1 /\ ~ Done(c)
  BY <1>2, <1>3, <1>7, <1>8
<1> QED BY <1>6, <1>7, <1>9, <1>10, ToWork

-----------------------------------------------------------------------------
(* The beginning: an installation that has journals and no index. *)

LEMMA BegunAppend ==
  ASSUME NEW s \in Seq(Events), NEW x \in Events
  PROVE  /\ Begun(Append(s, x)) = Begun(s) + (IF x = "command-started" THEN 1 ELSE 0)
         /\ Ended(Append(s, x)) = Ended(s) + (IF x = "command-finished" THEN 1 ELSE 0)
BY TallyAppend DEF Begun, Ended

LEMMA LegacyTally ==
  /\ Begun(<<"operation-started">>) = 0 /\ Ended(<<"operation-started">>) = 0
  /\ Begun(<<"operation-started", "command-started">>) = 1
  /\ Ended(<<"operation-started", "command-started">>) = 0
  /\ Begun(<<"operation-started", "command-started", "command-finished", "operation-completed">>) = 1
  /\ Ended(<<"operation-started", "command-started", "command-finished", "operation-completed">>) = 1
<1> DEFINE a == <<"operation-started">>
           b == <<"operation-started", "command-started">>
           c == <<"operation-started", "command-started", "command-finished">>
           d == <<"operation-started", "command-started", "command-finished", "operation-completed">>
<1>1. /\ a = Append(<<>>, "operation-started") /\ b = Append(a, "command-started")
      /\ c = Append(b, "command-finished") /\ d = Append(c, "operation-completed")
  OBVIOUS
<1>2. /\ <<>> \in Seq(Events) /\ a \in Seq(Events) /\ b \in Seq(Events) /\ c \in Seq(Events)
      /\ "operation-started" \in Events /\ "command-started" \in Events
      /\ "command-finished" \in Events /\ "operation-completed" \in Events
  BY DEF Events
<1>3. Begun(<<>>) = 0 /\ Ended(<<>>) = 0 BY TallyEmpty DEF Begun, Ended
<1> HIDE DEF a, b, c, d
<1>4. Begun(a) = 0 /\ Ended(a) = 0
  <2>1. /\ Begun(Append(<<>>, "operation-started")) = Begun(<<>>) + (IF "operation-started" = "command-started" THEN 1 ELSE 0)
        /\ Ended(Append(<<>>, "operation-started")) = Ended(<<>>) + (IF "operation-started" = "command-finished" THEN 1 ELSE 0)
    BY <1>2, BegunAppend
  <2> QED BY <1>1, <1>3, <2>1
<1>5. Begun(b) = 1 /\ Ended(b) = 0
  <2>1. /\ Begun(Append(a, "command-started")) = Begun(a) + (IF "command-started" = "command-started" THEN 1 ELSE 0)
        /\ Ended(Append(a, "command-started")) = Ended(a) + (IF "command-started" = "command-finished" THEN 1 ELSE 0)
    BY <1>2, BegunAppend
  <2> QED BY <1>1, <1>4, <2>1
<1>6. Begun(c) = 1 /\ Ended(c) = 1
  <2>1. /\ Begun(Append(b, "command-finished")) = Begun(b) + (IF "command-finished" = "command-started" THEN 1 ELSE 0)
        /\ Ended(Append(b, "command-finished")) = Ended(b) + (IF "command-finished" = "command-finished" THEN 1 ELSE 0)
    BY <1>2, BegunAppend
  <2> QED BY <1>1, <1>5, <2>1
<1>7. Begun(d) = 1 /\ Ended(d) = 1
  <2>1. /\ Begun(Append(c, "operation-completed")) = Begun(c) + (IF "operation-completed" = "command-started" THEN 1 ELSE 0)
        /\ Ended(Append(c, "operation-completed")) = Ended(c) + (IF "operation-completed" = "command-finished" THEN 1 ELSE 0)
    BY <1>2, BegunAppend
  <2> QED BY <1>1, <1>6, <2>1
<1> QED BY <1>4, <1>5, <1>7 DEF a, b, d

LEMMA LegacyLines ==
  ASSUME NEW s,
         \/ s = <<"operation-started">>
         \/ s = <<"operation-started", "command-started">>
         \/ s = <<"operation-started", "command-started", "command-finished", "operation-completed">>
  PROVE  /\ s \in Seq(Events) /\ Len(s) \in Nat /\ Len(s) <= 4
         /\ Begun(s) \in {0, 1} /\ Ended(s) <= Begun(s) /\ Ended(s) \in {0, 1}
         /\ Holds(Line(s), "operation-completed") => Len(s) = 4
<1>1. s \in Seq(Events) /\ Len(s) <= 4
  <2>1. CASE s = <<"operation-started">> BY <2>1 DEF Events
  <2>2. CASE s = <<"operation-started", "command-started">> BY <2>2 DEF Events
  <2>3. CASE s = <<"operation-started", "command-started", "command-finished", "operation-completed">>
    BY <2>3 DEF Events
  <2> QED BY <2>1, <2>2, <2>3
<1>2. Begun(s) \in {0, 1} /\ Ended(s) <= Begun(s) /\ Ended(s) \in {0, 1}
  <2>1. (Begun(s) = 0 /\ Ended(s) = 0) \/ (Begun(s) = 1 /\ Ended(s) = 0) \/ (Begun(s) = 1 /\ Ended(s) = 1)
    BY LegacyTally
  <2> HIDE <1>1
  <2> QED BY <2>1
<1>3. Holds(Line(s), "operation-completed") => Len(s) = 4 BY DEF Holds, Line
<1>4. Len(s) \in Nat BY <1>1
<1> QED BY <1>1, <1>2, <1>3, <1>4

LEMMA InitSound == JournaledInit => IInv
<1> SUFFICES ASSUME JournaledInit PROVE IInv OBVIOUS
<1> DEFINE LegacyJournals == {<<"operation-started">>, <<"operation-started", "command-started">>,
                              <<"operation-started", "command-started", "command-finished",
                                "operation-completed">>}
<1>1. PICK lines \in [Legacy -> LegacyJournals] :
        LET Before(o, n) ==
             CASE o \in Legacy /\ n = "journal" -> Line(lines[o])
               [] o \in Legacy /\ n = "report"  -> IF Len(lines[o]) = 4 THEN Final ELSE Whole
               [] o \in Legacy /\ n = "reserve" -> IF Len(lines[o]) = 4 THEN Absent ELSE Whole
               [] OTHER -> Absent
        IN  /\ file = [o \in OperationIds |-> [n \in Names |-> OnDisk(Before(o, n))]]
            /\ acked = [o \in OperationIds |-> IF o \in Legacy THEN lines[o] ELSE <<>>]
  BY DEF JournaledInit, Init
<1> DEFINE Before(o, n) ==
             CASE o \in Legacy /\ n = "journal" -> Line(lines[o])
               [] o \in Legacy /\ n = "report"  -> IF Len(lines[o]) = 4 THEN Final ELSE Whole
               [] o \in Legacy /\ n = "reserve" -> IF Len(lines[o]) = 4 THEN Absent ELSE Whole
               [] OTHER -> Absent
<1>2. /\ file = [o \in OperationIds |-> [n \in Names |-> OnDisk(Before(o, n))]]
      /\ acked = [o \in OperationIds |-> IF o \in Legacy THEN lines[o] ELSE <<>>]
  BY <1>1
<1>3. /\ index = OnDisk(Absent) /\ proc = NoProcess /\ RunnerInit /\ loose = {}
      /\ ran = [o \in OperationIds |-> Count(file[o].journal.seen, "command-started")]
  BY DEF JournaledInit, Init
<1>4. ASSUME NEW o \in OperationIds
      PROVE  /\ Before(o, "journal") = IF o \in Legacy THEN Line(lines[o]) ELSE Absent
             /\ Before(o, "report") = IF o \in Legacy
                                      THEN IF Len(lines[o]) = 4 THEN Final ELSE Whole ELSE Absent
             /\ Before(o, "reserve") \in {Absent, Whole} /\ Before(o, "marker") = Absent
  OBVIOUS
<1> HIDE DEF Before, LegacyJournals
<1>5. \A o \in OperationIds : Before(o, "journal") \in Contents
  <2> TAKE o \in OperationIds
  <2>1. CASE o \in Legacy
    <3>1. lines[o] \in Seq(Events) BY <2>1, LegacyLines DEF LegacyJournals
    <3> QED BY <1>4, <2>1, <3>1, ContentFacts
  <2>2. CASE o \notin Legacy BY <1>4, <2>2, ContentFacts
  <2> QED BY <2>1, <2>2
<1>6. \A o \in OperationIds, n \in Names : Before(o, n) \in Contents
  BY <1>4, <1>5, ContentFacts DEF Names
<1>7. \A c \in Contents : OnDisk(c) \in File(Contents) /\ OnDisk(c).seen = c /\ OnDisk(c).kept = {c}
  BY DEF OnDisk, File
<1>8. \A o \in OperationIds, n \in Names :
        file[o][n].seen = Before(o, n) /\ file[o][n].kept = {Before(o, n)}
  BY <1>2, <1>6, <1>7
<1>9. ASSUME NEW o \in OperationIds
      PROVE  \E s \in Seq(Events) :
               /\ s = acked[o] /\ s = file[o].journal.seen.lines /\ Len(s) <= 4
               /\ file[o].journal.kept = {file[o].journal.seen} /\ file[o].journal.seen = Line(s)
               /\ Begun(s) \in {0, 1} /\ Ended(s) <= Begun(s) /\ Ended(s) \in {0, 1}
               /\ Holds(Line(s), "operation-completed") => file[o].report.seen = Final
               /\ file[o].report.kept = {file[o].report.seen} /\ ran[o] = Begun(s)
  <2>1. "journal" \in Names /\ "report" \in Names BY DEF Names
  <2>2. /\ file[o].journal.seen = Before(o, "journal") /\ file[o].journal.kept = {Before(o, "journal")}
        /\ file[o].report.seen = Before(o, "report") /\ file[o].report.kept = {Before(o, "report")}
    BY <1>8, <2>1
  <2>3. ran[o] = Begun(file[o].journal.seen.lines) BY <1>3, CountFact DEF Begun
  <2>4. CASE o \in Legacy
    <3>1. PICK s \in LegacyJournals : s = lines[o] BY <2>4
    <3>2. file[o].journal.seen = Line(s) /\ acked[o] = s BY <1>2, <1>4, <2>2, <2>4, <3>1
    <3>3. Len(s) = 4 => file[o].report.seen = Final BY <1>4, <2>2, <2>4, <3>1
    <3>4. Line(s).lines = s BY DEF Line
    <3>5. /\ s \in Seq(Events) /\ Len(s) \in Nat /\ Len(s) <= 4
          /\ Begun(s) \in {0, 1} /\ Ended(s) <= Begun(s) /\ Ended(s) \in {0, 1}
          /\ Holds(Line(s), "operation-completed") => Len(s) = 4
      BY <3>1, LegacyLines DEF LegacyJournals
    <3> QED BY <2>2, <2>3, <3>2, <3>3, <3>4, <3>5
  <2>5. CASE o \notin Legacy
    <3>1. file[o].journal.seen = Absent /\ acked[o] = <<>> BY <1>2, <1>4, <2>2, <2>5
    <3>2. Absent = Line(<<>>) /\ Absent.lines = <<>> BY DEF Absent, Line
    <3>3. Begun(<<>>) = 0 /\ Ended(<<>>) = 0 BY TallyEmpty DEF Begun, Ended
    <3>4. ~ Holds(Line(<<>>), "operation-completed") BY DEF Holds, Line
    <3>5. <<>> \in Seq(Events) /\ Len(<<>>) <= 4 OBVIOUS
    <3> WITNESS <<>> \in Seq(Events)
    <3> QED BY <2>2, <2>3, <3>1, <3>2, <3>3, <3>4, <3>5
  <2> QED BY <2>4, <2>5
<1>10. Typed
  <2>1. \A o \in OperationIds : ran[o] \in Nat /\ acked[o] \in Seq(Events) BY <1>9
  <2>2. file \in [OperationIds -> [Names -> File(Contents)]] BY <1>2, <1>6, <1>7
  <2>3. index \in File(Contents) BY <1>3, <1>7, ContentFacts
  <2>4. acked \in [OperationIds -> Seq(Events)] BY <1>2, <2>1
  <2>5. ran \in [OperationIds -> Nat] BY <1>3, <2>1
  <2> QED BY <1>3, <2>2, <2>3, <2>4, <2>5 DEF Typed
<1>11. IndexShaped /\ Whole \notin index.kept
  BY <1>3, <1>7, ContentFacts, DistinctContents DEF IndexShaped
<1>12. Lasting
  <2> SUFFICES ASSUME NEW o \in OperationIds
               PROVE  Shaped(o) /\ Accounted(o) /\ Reported(o) /\ Remembered(o)
    BY DEF Lasting
  <2>1. PICK s \in Seq(Events) :
          /\ s = acked[o] /\ s = file[o].journal.seen.lines /\ Len(s) <= 4
          /\ file[o].journal.kept = {file[o].journal.seen} /\ file[o].journal.seen = Line(s)
          /\ Begun(s) \in {0, 1} /\ Ended(s) <= Begun(s) /\ Ended(s) \in {0, 1}
          /\ Holds(Line(s), "operation-completed") => file[o].report.seen = Final
          /\ file[o].report.kept = {file[o].report.seen} /\ ran[o] = Begun(s)
    BY <1>9
  <2>2. /\ Len(s) \in Nat
        /\ ran[o] = Begun(s) /\ Begun(s) \in {0, 1} /\ Ended(s) <= Begun(s) /\ Ended(s) \in {0, 1}
    <3>1. Len(s) \in Nat OBVIOUS
    <3>2. ran[o] = Begun(s) /\ Begun(s) \in {0, 1} /\ Ended(s) <= Begun(s) /\ Ended(s) \in {0, 1}
      BY <2>1, Zenon
    <3> QED BY <3>1, <3>2
  <2>3. Shaped(o)
    <3>1. "report" \in Names /\ "marker" \in Names /\ "reserve" \in Names BY DEF Names
    <3>2. \A n \in Names : file[o][n].seen \in file[o][n].kept BY <1>8
    <3>3. /\ file[o].report.kept \subseteq {Absent, Torn, Whole, Final, Failed}
          /\ file[o].marker.kept \subseteq {Absent, Torn, Whole}
          /\ file[o].reserve.kept \subseteq {Absent, Torn, Whole}
      BY <1>4, <1>8, <3>1
    <3> QED BY <2>1, <3>2, <3>3 DEF Shaped
  <2>4. Accounted(o)
    <3>1. Owed(o) = 0 BY <1>3 DEF Owed
    <3>2. MaxCommands \in Nat /\ MaxCommands >= 1 BY ReportFilesAssumption
    <3>3. IsPrefix(acked[o], s) BY <2>1, PrefixSelf
    <3>4. Fits(o, s)
      <4>1. Len(s) <= 2 * MaxCommands + 4 BY <2>1, <2>2, <3>2
      <4>2. acked[o] = <<>> => s = <<>> BY <2>1
      <4>3. ran[o] <= Begun(s) /\ Ended(s) + Owed(o) <= Begun(s) BY <2>2, <3>1
      <4> QED BY <3>3, <4>1, <4>2, <4>3 DEF Fits
    <3>5. \A c \in file[o].journal.kept : c.lines = s BY <2>1
    <3>6. ran[o] <= MaxCommands BY <2>2, <3>2
    <3> QED BY <3>4, <3>5, <3>6 DEF Accounted
  <2>5. Reported(o) BY <2>1 DEF Reported, Done
  <2>6. Remembered(o) BY <1>11 DEF Remembered
  <2> QED BY <2>3, <2>4, <2>5, <2>6
<1>13. Data BY <1>10, <1>11, <1>12 DEF Data
<1>14. proc \in Procs /\ proc.phase = "idle" /\ proc.attempts = 0
  BY <1>3, ContentFacts DEF NoProcess, Procs, Phases
<1>15. Commanding
  BY <1>3, <1>14, CommandRunnerAssumption
     DEF RunnerInit, Commanding, Calling, RunnerTypeOK, NoCall, NoLeader, CallPlaces, Reasons,
         Results, At, Quiet, Running, Stuck, In
<1>16. Booting /\ Reserving /\ Undoing BY <1>14 DEF Booting, Reserving, Undoing, In
<1>17. Operating BY <1>14 DEF Operating, Working, WorkPhases
<1>18. Reversible /\ Reporting BY <1>14 DEF Reversible, Reporting, Unreported, Appending, In
<1> QED BY <1>13, <1>14, <1>15, <1>16, <1>17, <1>18 DEF IInv

LEMMA FileStepsKept == ASSUME IInv, FilesProceed PROVE IInv'
<1>1. Elsewhere /\ FileStep BY DEF FilesProceed
<1>2. ASSUME Scripted PROVE In("boot") \/ In("reserve") \/ In("undo") BY <1>2 DEF Scripted, In
<1>3. ASSUME In("undo"), proc.todo # <<>> PROVE Now.kind \in {"unlink", "syncReports", "syncActive"}
  BY <1>3, UndoFacts DEF UndoSteps
<1>4. ASSUME In("reserve") PROVE Now.kind # "unlink" BY <1>4, ReserveKinds
<1>5. CASE OpenNew
  <2>1. Scripted /\ Now.kind = "open" BY <1>5 DEF OpenNew
  <2> QED BY <1>1, <1>2, <1>3, <1>5, <2>1, BootOpen, ReserveOpen DEF Scripted
<1>6. CASE WriteNew
  <2>1. Scripted /\ Now.kind = "write" BY <1>6 DEF WriteNew
  <2> QED BY <1>1, <1>2, <1>3, <1>6, <2>1, BootWrite, ReserveWrite DEF Scripted
<1>7. CASE SyncNew
  <2>1. Scripted /\ Now.kind = "sync" BY <1>7 DEF SyncNew
  <2> QED BY <1>1, <1>2, <1>3, <1>7, <2>1, BootSync, ReserveSync DEF Scripted
<1>8. CASE SyncDirectory
  <2>1. Scripted BY <1>8 DEF SyncDirectory
  <2> QED BY <1>1, <1>2, <1>8, <2>1, BootSyncDirectory, ReserveSyncDirectory, UndoSyncDirectory
<1>9. CASE UnlinkOld
  <2>1. Scripted /\ Now.kind = "unlink" BY <1>9 DEF UnlinkOld
  <2> QED BY <1>1, <1>2, <1>4, <1>9, <2>1, BootUnlink, UndoUnlink
<1>10. CASE CapacitySuffices BY <1>1, <1>10, CapacityStep
<1>11. CASE ReserveFails \/ UndoStepFails \/ Undone \/ BootFails \/ Refused
  BY <1>1, <1>11, ReserveFailsStep, UndoFailsStep, UndoneStep, BootFailsStep, RefusedStep
<1>12. CASE ReadIndex \/ CleanupReserves \/ Scan
  BY <1>1, <1>12, ReadIndexStep, CleanupStep, ScanStep
<1>13. CASE BoundaryRefuses \/ AppendLine \/ SyncLine \/ AppendFails
  BY <1>1, <1>13, BoundaryStep, AppendLineStep, SyncLineStep, AppendFailsStep
<1>14. CASE RollbackAppend \/ RollbackFails \/ ReclaimReserve \/ ReclaimFails
  BY <1>1, <1>14, RollbackStep, RollbackFailsStep, ReclaimReserveStep, ReclaimFailsStep
<1>15. CASE StartCommand \/ CapacityMissing \/ BeginReport \/ GiveUp
  BY <1>1, <1>15, StartCommandStep, CapacityMissingStep, BeginReportStep, GiveUpStep
<1>16. CASE ReplaceReport \/ SyncReport \/ ReplaceFails \/ ReleaseReserve
  BY <1>1, <1>16, ReplaceReportStep, SyncReportStep, ReplaceFailsStep, ReleaseReserveStep
<1> QED
  BY <1>1, <1>5, <1>6, <1>7, <1>8, <1>9, <1>10, <1>11, <1>12, <1>13, <1>14, <1>15, <1>16
     DEF FileStep

LEMMA NextSound == IInv /\ [JournaledNext]_allVars => IInv'
<1> SUFFICES ASSUME IInv, [JournaledNext]_allVars PROVE IInv' OBVIOUS
<1>1. CASE Start /\ Elsewhere BY <1>1, StartStep
<1>2. CASE FilesProceed BY <1>2, FileStepsKept
<1>3. CASE RunnerRuns \/ CommandRuns BY <1>3, RunnerStepKept, CommandStepKept
<1>4. CASE CallReturns \/ CallRaises BY <1>4, CallReturnsStep, CallRaisesStep
<1>5. CASE Interrupted \/ Killed \/ PowerFails BY <1>5, SignalStep, KillStep, PowerStep
<1>6. CASE UNCHANGED allVars
  <2>1. UNCHANGED <<file, index, acked, proc, call, leader, group, outside, holders, ran, loose>>
    BY <1>6 DEF allVars, vars, runnerVars
  <2>2. /\ Data /\ proc \in Procs /\ Booting /\ Reserving /\ Undoing
        /\ Operating /\ Reversible /\ Reporting /\ Commanding
    BY DEF IInv
  <2>3. Data' BY <2>1, <2>2, DataSame
  <2>4. Booting' BY <2>1, <2>2 DEF Booting, In, Needed
  <2>5. Reserving' /\ Undoing' BY <2>1, <2>2 DEF Reserving, Undoing, In, Left, ReserveFiles
  <2>6. Journal' = Journal /\ Room' = Room /\ BaseRoom' = BaseRoom /\ Base' = Base
    BY <2>1 DEF Journal, Room, BaseRoom, Base, In
  <2>7. Operating' BY <2>1, <2>2, <2>6 DEF Operating, Working
  <2>8. Reversible' BY <2>1, <2>2, <2>6 DEF Reversible, Appending, In, Open, Owed, WriteStep, SyncStep
  <2>9. Reporting' BY <2>1, <2>2, <2>6 DEF Reporting, Unreported, Appending, In
  <2>10. Commanding'
    BY <2>1, <2>2, <2>6 DEF Commanding, Calling, RunnerTypeOK, At, Quiet, Running, Stuck, In, Open, Owed
  <2> QED BY <2>1, <2>2, <2>3, <2>4, <2>5, <2>7, <2>8, <2>9, <2>10 DEF IInv
<1> QED BY <1>1, <1>2, <1>3, <1>4, <1>5, <1>6 DEF JournaledNext

-----------------------------------------------------------------------------
(* The invariant holds throughout: every file keeps its shape under every fault of every *)
(* primitive of reserve_applied_report, append_report_journal and write_report.          *)
THEOREM Invariance == JournaledSpec => []IInv
<1>1. JournaledInit => IInv BY InitSound
<1>2. IInv /\ [JournaledNext]_allVars => IInv' BY NextSound
<1> QED BY <1>1, <1>2, PTL DEF JournaledSpec

LEMMA RemainFacts ==
  ASSUME IInv, NEW o \in OperationIds
  PROVE  /\ \A n \in Names : Remains(file[o][n]) = file[o][n].kept /\ file[o][n].kept # {}
         /\ Remains(file[o].journal) = file[o].journal.kept
         /\ Remains(file[o].report) = file[o].report.kept
         /\ Remains(file[o].marker) = file[o].marker.kept
         /\ Remains(index) = index.kept
<1>1. \A n \in Names : file[o][n].seen \in file[o][n].kept BY DEF IInv, Data, Lasting, Shaped
<1>2. index.seen \in index.kept BY DEF IInv, Data, IndexShaped
<1>3. "journal" \in Names /\ "report" \in Names /\ "marker" \in Names BY DEF Names
<1>4. \A n \in Names : Remains(file[o][n]) = file[o][n].kept /\ file[o][n].kept # {}
  BY <1>1 DEF Remains
<1>5. Remains(index) = index.kept BY <1>2 DEF Remains
<1> QED BY <1>3, <1>4, <1>5

(* Every file, the index, the process and the call of the runner have their types, and a *)
(* journal never outgrows the lines its commands account for.                            *)
THEOREM TypeCorrectness == JournaledSpec => []TypeOK
<1>1. ASSUME IInv PROVE TypeOK
  <2>1. /\ Typed /\ IndexShaped /\ proc \in Procs /\ RunnerTypeOK
        /\ \A o \in OperationIds : Shaped(o) /\ Accounted(o)
    BY <1>1 DEF IInv, Data, Lasting, Commanding, Calling
  <2>2. MaxCommands \in Nat BY ReportFilesAssumption
  <2>3. ASSUME NEW o \in OperationIds, NEW n \in Names
        PROVE  /\ file[o][n].kept # {}
               /\ \A c \in Remains(file[o][n]) :
                    /\ c.torn \in BOOLEAN
                    /\ Len(c.lines) <= 2 * MaxCommands + 4
                    /\ n # "journal" => c \in {Absent, Torn, Whole, Final, Failed}
    <3>1. Remains(file[o][n]) = file[o][n].kept /\ file[o][n].kept # {} BY <1>1, RemainFacts
    <3>2. \A c \in file[o][n].kept : c.torn \in BOOLEAN
      BY <2>1, FileFacts DEF File, Contents
    <3>3. n # "journal" => file[o][n].kept \subseteq {Absent, Torn, Whole, Final, Failed}
      BY <2>1 DEF Shaped, Names
    <3>4. CASE n = "journal"
      <4>1. \A c \in file[o][n].kept : Len(c.lines) <= 2 * MaxCommands + 4
        BY <2>1, <3>4 DEF Accounted, Fits
      <4> QED BY <3>1, <3>2, <3>4, <4>1
    <3>5. CASE n # "journal"
      <4>1. /\ Len(Absent.lines) = 0 /\ Len(Torn.lines) = 0 /\ Len(Whole.lines) = 1
            /\ Len(Final.lines) = 1 /\ Len(Failed.lines) = 1
        BY DEF Absent, Torn, Whole, Final, Failed, Line
      <4>2. \A c \in {Absent, Torn, Whole, Final, Failed} : Len(c.lines) <= 2 * MaxCommands + 4
        <5>1. 0 <= 2 * MaxCommands + 4 /\ 1 <= 2 * MaxCommands + 4 BY <2>2
        <5> QED BY <4>1, <5>1, Zenon
      <4> QED BY <3>1, <3>2, <3>3, <3>5, <4>2
    <3> QED BY <3>4, <3>5
  <2>4. Remains(index) \subseteq {Absent, Torn, Whole} BY <2>1 DEF Remains, IndexShaped
  <2>5. ran \in [OperationIds -> 0 .. MaxCommands] /\ loose \subseteq OperationIds
    <3>1. \A o \in OperationIds : ran[o] \in 0 .. MaxCommands BY <2>1, <2>2 DEF Typed, Accounted
    <3> QED BY <2>1, <3>1 DEF Typed
  <2>6. proc.phase \in Phases /\ proc.op \in OperationIds \cup {NoOp} /\ proc.event \in Events \cup {"none"}
    BY <2>1 DEF Procs
  <2> QED BY <2>1, <2>3, <2>4, <2>5, <2>6 DEF TypeOK
<1> QED BY <1>1, Invariance, PTL

(* runner.run and its callbacks: whatever a crash leaves of a journal accounts for every *)
(* command that came to life, and not as finished while its process group may run.       *)
THEOREM WritesAhead == JournaledSpec => []WriteAhead
<1>1. ASSUME IInv PROVE WriteAhead
  <2> SUFFICES ASSUME NEW o \in OperationIds, NEW c \in Remains(file[o].journal)
               PROVE  /\ Count(c, "command-started") >= ran[o]
                      /\ o \in loose => Count(c, "command-started") > Count(c, "command-finished")
    BY DEF WriteAhead
  <2>1. c \in file[o].journal.kept BY <1>1, RemainFacts
  <2>2. c.lines \in Seq(Events) /\ Fits(o, c.lines) /\ ran[o] \in Nat
    BY <1>1, <2>1 DEF IInv, Data, Lasting, Shaped, Accounted, Typed
  <2>3. ran[o] <= Begun(c.lines) /\ Ended(c.lines) + Owed(o) <= Begun(c.lines) BY <2>2 DEF Fits
  <2>4. Begun(c.lines) \in Nat /\ Ended(c.lines) \in Nat BY <2>2, TallyNat DEF Begun, Ended
  <2>5. Count(c, "command-started") = Begun(c.lines) /\ Count(c, "command-finished") = Ended(c.lines)
    BY CountFact DEF Begun, Ended
  <2>6. o \in loose => Owed(o) = 1 BY DEF Owed
  <2>7. Owed(o) \in {0, 1} BY DEF Owed
  <2> QED BY <2>2, <2>3, <2>4, <2>5, <2>6, <2>7
<1> QED BY <1>1, Invariance, PTL

(* reserve_applied_report and unresolved_operations: while the index is whole, an operation that *)
(* ran a command has a marker in every outcome, or its final report.                             *)
THEOREM NothingForgotten == JournaledSpec => []NeverForgotten
<1>1. ASSUME IInv PROVE NeverForgotten
  <2> SUFFICES ASSUME index.seen = Whole, NEW o \in OperationIds, ran[o] > 0
               PROVE  \/ Absent \notin Remains(file[o].marker)
                      \/ file[o].report.kept = {Final}
    BY DEF NeverForgotten
  <2>1. Whole \in index.kept BY <1>1 DEF IInv, Data, IndexShaped
  <2>2. Remembered(o) BY <1>1 DEF IInv, Data, Lasting
  <2> QED BY <1>1, <2>1, <2>2, RemainFacts DEF Remembered, Needed
<1> QED BY <1>1, Invariance, PTL

(* emit_report of cli.py: a journal that says completed is never beside the reservation's report. *)
THEOREM CompletionHasReport == JournaledSpec => []CompletedHasReport
<1>1. ASSUME IInv PROVE CompletedHasReport
  <2> SUFFICES ASSUME NEW o \in OperationIds, NEW c \in Remains(file[o].journal),
                      Holds(c, "operation-completed")
               PROVE  Remains(file[o].report) \cap {Absent, Torn, Whole} = {}
    BY DEF CompletedHasReport
  <2>1. c \in file[o].journal.kept /\ Remains(file[o].report) = file[o].report.kept
    BY <1>1, RemainFacts
  <2>2. Reported(o) BY <1>1 DEF IInv, Data, Lasting
  <2>3. file[o].report.kept \subseteq {Final, Failed} BY <2>1, <2>2 DEF Reported, Done
  <2> QED BY <2>1, <2>3, DistinctContents
<1> QED BY <1>1, Invariance, PTL

(* _terminate_process_group: when run returns, or lets an exception through that it could *)
(* handle, nothing of the command's process group is alive.                               *)
THEOREM GroupIsGone == JournaledSpec => []NoSurvivors
<1>1. ASSUME IInv PROVE NoSurvivors
  <2>1. Calling BY <1>1 DEF IInv, Commanding
  <2>2. At({"returned", "raised"}) /\ call.why # "unguarded" => Quiet BY <2>1 DEF Calling, At
  <2>3. Quiet => Alive \subseteq outside BY DEF Quiet, Alive
  <2> QED BY <2>2, <2>3 DEF NoSurvivors
<1> QED BY <1>1, Invariance, PTL

-----------------------------------------------------------------------------

(* JournaledCommand.tla implements JournalPromise.tla: each step of the files, of the    *)
(* runner, of a crash is a step of the promise, or none.  Most steps narrow what a reader *)
(* may find (Settle); a line being written widens it (Begin), and so does the journal of  *)
(* a reservation that is made or taken away (Begin, Discard).                             *)

(* What the refinement mapping takes for reads. *)
Reads == [o \in OperationIds |-> {c.lines : c \in Remains(file[o].journal)}]

(* What a reader may find begins with what is acknowledged. *)
Readings(a, r) ==
  /\ DOMAIN r = OperationIds /\ a \in [OperationIds -> Seq(Events)]
  /\ \A o \in OperationIds :
       /\ r[o] # {}
       /\ \A s \in r[o] : /\ s \in Seq(Events) /\ IsPrefix(a[o], s)
                          /\ a[o] = <<>> => s \in {<<>>, <<"operation-started">>}

LEMMA ReadsFacts ==
  ASSUME IInv
  PROVE  /\ Readings(acked, Reads)
         /\ \A o \in OperationIds :
              Reads[o] = {c.lines : c \in file[o].journal.kept}
<1>1. \A o \in OperationIds : Reads[o] = {c.lines : c \in file[o].journal.kept}
  BY RemainFacts DEF Reads
<1>2. /\ acked \in [OperationIds -> Seq(Events)]
      /\ \A o \in OperationIds : Shaped(o) /\ Accounted(o)
  BY DEF IInv, Data, Typed, Lasting
<1>3. ASSUME NEW o \in OperationIds
      PROVE  /\ Reads[o] # {}
             /\ \A s \in Reads[o] : /\ s \in Seq(Events) /\ IsPrefix(acked[o], s)
                                    /\ acked[o] = <<>> => s \in {<<>>, <<"operation-started">>}
  <2>1. file[o].journal.seen \in file[o].journal.kept BY <1>2 DEF Shaped, Names
  <2>2. \A c \in file[o].journal.kept : c.lines \in Seq(Events) /\ Fits(o, c.lines)
    BY <1>2 DEF Shaped, Accounted
  <2>3. Reads[o] # {}
    <3>1. file[o].journal.seen.lines \in {c.lines : c \in file[o].journal.kept} BY <2>1
    <3> QED BY <1>1, <3>1
  <2>4. ASSUME NEW s \in Reads[o]
        PROVE  /\ s \in Seq(Events) /\ IsPrefix(acked[o], s)
               /\ acked[o] = <<>> => s \in {<<>>, <<"operation-started">>}
    <3>1. PICK c \in file[o].journal.kept : c.lines = s BY <1>1, <2>4
    <3>2. s \in Seq(Events) /\ Fits(o, s) BY <2>2, <3>1
    <3> QED BY <3>2 DEF Fits
  <2> QED BY <2>3, <2>4
<1>4. DOMAIN Reads = OperationIds BY DEF Reads
<1> QED BY <1>1, <1>2, <1>3, <1>4 DEF Readings

LEMMA ReadsFactsNext ==
  ASSUME IInv'
  PROVE  /\ Readings(acked', Reads')
         /\ \A o \in OperationIds :
              Reads'[o] = {c.lines : c \in file'[o].journal.kept}
<1>1. \A o \in OperationIds : /\ file'[o].journal.seen \in file'[o].journal.kept
                              /\ Shaped(o)' /\ Accounted(o)'
  BY DEF IInv, Data, Lasting, Shaped, Names
<1>2. \A o \in OperationIds : Reads'[o] = {c.lines : c \in file'[o].journal.kept}
  BY <1>1 DEF Reads, Remains
<1>3. acked' \in [OperationIds -> Seq(Events)] BY DEF IInv, Data, Typed
<1>4. ASSUME NEW o \in OperationIds
      PROVE  /\ Reads'[o] # {}
             /\ \A s \in Reads'[o] : /\ s \in Seq(Events) /\ IsPrefix(acked'[o], s)
                                     /\ acked'[o] = <<>> => s \in {<<>>, <<"operation-started">>}
  <2>1. \A c \in file'[o].journal.kept : c.lines \in Seq(Events) /\ Fits(o, c.lines)'
    BY <1>1 DEF Shaped, Accounted
  <2>2. Reads'[o] # {}
    <3>1. file'[o].journal.seen.lines \in {c.lines : c \in file'[o].journal.kept} BY <1>1
    <3> QED BY <1>2, <3>1
  <2>3. ASSUME NEW s \in Reads'[o]
        PROVE  /\ s \in Seq(Events) /\ IsPrefix(acked'[o], s)
               /\ acked'[o] = <<>> => s \in {<<>>, <<"operation-started">>}
    <3>1. PICK c \in file'[o].journal.kept : c.lines = s BY <1>2, <2>3
    <3>2. s \in Seq(Events) /\ Fits(o, s)' BY <2>1, <3>1
    <3> QED BY <3>2 DEF Fits
  <2> QED BY <2>2, <2>3
<1>5. DOMAIN Reads' = OperationIds BY DEF Reads
<1> QED BY <1>2, <1>3, <1>4, <1>5 DEF Readings

(* The doubt of every operation shrinks or stays. *)
LEMMA Settles ==
  ASSUME IInv, IInv',
         \A o \in OperationIds :
           /\ \A c \in file'[o].journal.kept : \E d \in file[o].journal.kept : c.lines = d.lines
           /\ acked'[o] = acked[o] \/ \E c \in file'[o].journal.kept : c.lines = acked'[o]
           /\ IsPrefix(acked[o], acked'[o])
  PROVE  Promise!Next
<1>1. Readings(acked, Reads) /\ Readings(acked', Reads') BY ReadsFacts, ReadsFactsNext
<1>2. \A o \in OperationIds : /\ Reads[o] = {c.lines : c \in file[o].journal.kept}
                              /\ Reads'[o] = {c.lines : c \in file'[o].journal.kept}
  BY ReadsFacts, ReadsFactsNext
<1>3. ASSUME NEW o \in OperationIds
      PROVE  /\ Reads'[o] \subseteq Reads[o] /\ Reads'[o] # {}
             /\ acked'[o] \in Reads'[o] \cup {acked[o]}
             /\ IsPrefix(acked[o], acked'[o])
             /\ \A s \in Reads'[o] : IsPrefix(acked'[o], s)
  <2>1. Reads'[o] # {} /\ \A s \in Reads'[o] : IsPrefix(acked'[o], s) BY <1>1 DEF Readings
  <2>2. Reads'[o] \subseteq Reads[o] BY <1>2
  <2>3. acked'[o] \in Reads'[o] \cup {acked[o]} BY <1>2
  <2> QED BY <2>1, <2>2, <2>3
<1>4. ASSUME NEW o \in OperationIds PROVE Promise!Settle(o)
  <2>1. PICK r : r = Reads OBVIOUS
  <2>2. PICK s : s = Reads' OBVIOUS
  <2>3. /\ s[o] \subseteq r[o] /\ s[o] # {} /\ acked'[o] \in s[o] \cup {acked[o]}
        /\ IsPrefix(acked[o], acked'[o]) /\ \A x \in s[o] : IsPrefix(acked'[o], x)
    BY <1>3, <2>1, <2>2
  <2> QED BY <2>1, <2>2, <2>3 DEF Promise!Settle, Promise!IsPrefix, IsPrefix, Reads
<1>5. DOMAIN Reads' = OperationIds /\ DOMAIN acked' = OperationIds BY <1>1 DEF Readings
<1> QED BY <1>4, <1>5 DEF Promise!Next, Reads

(* Nothing is acknowledged, and no journal holds anything new. *)
LEMMA Narrows ==
  ASSUME IInv, IInv', UNCHANGED acked,
         \A o \in OperationIds :
           \A c \in file'[o].journal.kept : \E d \in file[o].journal.kept : c.lines = d.lines
  PROVE  Promise!Next
<1>1. acked \in [OperationIds -> Seq(Events)] BY DEF IInv, Data, Typed
<1>2. \A o \in OperationIds : IsPrefix(acked[o], acked'[o]) BY <1>1, PrefixSelf
<1> QED BY <1>2, Settles

LEMMA Unmoved ==
  ASSUME IInv, IInv', UNCHANGED acked,
         \A o \in OperationIds : file'[o].journal = file[o].journal
  PROVE  Promise!Next
BY Narrows

(* A line behind one that a reader may find. *)
LEMMA Begins ==
  ASSUME IInv, IInv', UNCHANGED acked, NEW o \in OperationIds, NEW s \in Reads[o], NEW e \in Events,
         Reads'[o] = Reads[o] \cup {Append(s, e)},
         \A p \in OperationIds : p # o => file'[p].journal = file[p].journal
  PROVE  Promise!Next
<1>1. \A p \in OperationIds : p # o => Reads'[p] = Reads[p] BY ReadsFacts, ReadsFactsNext
<1>2. PICK r : r = Reads OBVIOUS
<1>3. PICK q : q = Reads' OBVIOUS
<1>4. DOMAIN r = OperationIds /\ DOMAIN q = OperationIds
      /\ r = [p \in OperationIds |-> r[p]] /\ q = [p \in OperationIds |-> q[p]]
  BY <1>2, <1>3 DEF Reads
<1>5. q = [r EXCEPT ![o] = r[o] \cup {Append(s, e)}] BY <1>1, <1>2, <1>3, <1>4
<1>6. s \in r[o] BY <1>2
<1>7. Promise!Begin(o)
  <2>1. \E t \in r[o], x \in Events : q = [r EXCEPT ![o] = @ \cup {Append(t, x)}] BY <1>5, <1>6
  <2> QED BY <1>2, <1>3, <2>1, ZenonT(30) DEF Promise!Begin, Reads
<1> QED BY <1>7 DEF Promise!Next

(* The journal of a reservation appears, gets its first line, or goes. *)
LEMMA Reserves ==
  ASSUME IInv, IInv', UNCHANGED acked, NEW o \in OperationIds, acked[o] = <<>>,
         file[o].journal.kept \subseteq file'[o].journal.kept,
         \A p \in OperationIds : p # o => file'[p].journal = file[p].journal
  PROVE  Promise!Next
<1> DEFINE one == <<"operation-started">>
<1>1. /\ Reads[o] # {} /\ Reads[o] \subseteq {<<>>, one}
      /\ Reads'[o] # {} /\ Reads'[o] \subseteq {<<>>, one}
  BY ReadsFacts, ReadsFactsNext DEF Readings
<1>2. Reads[o] \subseteq Reads'[o] BY ReadsFacts, ReadsFactsNext
<1>3. one = Append(<<>>, "operation-started") /\ "operation-started" \in Events BY DEF Events
<1> HIDE DEF one
<1>4. CASE Reads'[o] = Reads[o]
  <2>1. ASSUME NEW p \in OperationIds, NEW c \in file'[p].journal.kept
        PROVE  \E d \in file[p].journal.kept : c.lines = d.lines
    <3>1. CASE p # o BY <2>1, <3>1
    <3>2. CASE p = o
      <4>1. c.lines \in Reads[o] BY <1>4, <2>1, <3>2, ReadsFactsNext
      <4> QED BY <3>2, <4>1, ReadsFacts
    <3> QED BY <3>1, <3>2
  <2> QED BY <2>1, Narrows
<1>5. CASE <<>> \in Reads[o] /\ one \notin Reads[o] /\ one \in Reads'[o]
  <2>1. Reads'[o] = Reads[o] \cup {Append(<<>>, "operation-started")} BY <1>1, <1>2, <1>3, <1>5
  <2> QED BY <1>3, <1>5, <2>1, Begins
<1>6. CASE <<>> \notin Reads[o] /\ <<>> \in Reads'[o]
  <2>1. Reads'[o] = Reads[o] \cup {<<>>} BY <1>1, <1>2, <1>6
  <2>2. \A p \in OperationIds : p # o => Reads'[p] = Reads[p] BY ReadsFacts, ReadsFactsNext
  <2>3. PICK r : r = Reads OBVIOUS
  <2>4. PICK q : q = Reads' OBVIOUS
  <2>5. DOMAIN r = OperationIds /\ DOMAIN q = OperationIds
        /\ r = [p \in OperationIds |-> r[p]] /\ q = [p \in OperationIds |-> q[p]]
    BY <2>3, <2>4 DEF Reads
  <2>6. q = [r EXCEPT ![o] = @ \cup {<<>>}] BY <2>1, <2>2, <2>3, <2>4, <2>5
  <2>7. Promise!Discard(o) BY <2>3, <2>4, <2>6 DEF Promise!Discard, Reads
  <2> QED BY <2>7 DEF Promise!Next
<1>7. Reads'[o] # Reads[o] => \/ (<<>> \in Reads[o] /\ one \notin Reads[o] /\ one \in Reads'[o])
                              \/ (<<>> \notin Reads[o] /\ <<>> \in Reads'[o])
  BY <1>1, <1>2
<1> QED BY <1>4, <1>5, <1>6, <1>7

-----------------------------------------------------------------------------
(* The steps. *)

(* A file that is not a journal changes. *)
LEMMA OthersUnmoved ==
  ASSUME IInv, IInv', UNCHANGED acked, NEW o, NEW n, n # "journal", NEW f,
         file' = [file EXCEPT ![o][n] = f]
  PROVE  Promise!Next
<1>1. file \in [OperationIds -> [Names -> File(Contents)]] BY DEF IInv, Data, Typed
<1>2. ASSUME NEW p \in OperationIds PROVE file'[p].journal = file[p].journal
  <2>1. CASE p # o BY <1>1, <2>1
  <2>2. CASE p = o
    <3>1. file'[p] = [file[p] EXCEPT ![n] = f] BY <1>1, <2>2
    <3>2. file[p] \in [Names -> File(Contents)] BY <1>1
    <3> QED BY <3>1, <3>2 DEF Names
  <2> QED BY <2>1, <2>2
<1> QED BY <1>2, Unmoved

(* A bootstrap puts no journal in place. *)
LEMMA BootPuts ==
  ASSUME IInv, IInv', In("boot"), proc.todo # <<>>, NEW f, Put(Now, f), UNCHANGED acked
  PROVE  Promise!Next
<1>1. Now \in BootSteps /\ Now.name \in {"marker", "reserve", "index"} BY BootFacts, BootStepsFacts
<1>2. CASE Now.name = "index" BY <1>2, Unmoved DEF Put
<1>3. CASE Now.name # "index"
  <2>1. file' = [file EXCEPT ![Now.op][Now.name] = f] BY <1>3 DEF Put
  <2> QED BY <1>1, <2>1, OthersUnmoved
<1> QED BY <1>2, <1>3

(* A reservation, or its undo, before anything is acknowledged. *)
LEMMA ReservePuts ==
  ASSUME IInv, IInv', In("reserve") \/ (In("undo") /\ proc.todo # <<>>),
         NEW f \in File(Contents), Put(Now, f), UNCHANGED acked,
         \/ Get(Now).kept \subseteq f.kept
         \/ \A c \in f.kept : \E d \in Get(Now).kept : c.lines = d.lines
  PROVE  Promise!Next
<1>1. /\ proc.op \in OperationIds /\ acked[proc.op] = <<>> /\ Now.op = proc.op /\ Now.name \in Names
  <2>1. CASE In("reserve") BY <2>1, ReserveFacts, ReserveKinds
  <2>2. CASE In("undo") /\ proc.todo # <<>> BY <2>2, UndoFacts DEF UndoSteps
  <2> QED BY <2>1, <2>2
<1>2. PICK o \in OperationIds : o = proc.op BY <1>1
<1>3. Typed BY DEF IInv, Data
<1>4. file' = [file EXCEPT ![o][Now.name] = f] /\ Get(Now) = file[o][Now.name]
  BY <1>1, <1>2 DEF Put, Get, Names
<1>5. CASE Now.name # "journal" BY <1>4, <1>5, OthersUnmoved
<1>6. CASE Now.name = "journal"
  <2>1. "journal" \in Names BY DEF Names
  <2>2. file'[o]["journal"] = f /\ \A p \in OperationIds : p # o => file'[p] = file[p]
    BY <1>3, <1>4, <1>6, <2>1, PutFacts
  <2>3. CASE Get(Now).kept \subseteq f.kept
    BY <1>1, <1>2, <1>4, <1>6, <2>2, <2>3, Reserves
  <2>4. CASE \A c \in f.kept : \E d \in Get(Now).kept : c.lines = d.lines
    <3>1. ASSUME NEW p \in OperationIds, NEW c \in file'[p].journal.kept
          PROVE  \E d \in file[p].journal.kept : c.lines = d.lines
      BY <1>4, <1>6, <2>2, <2>4, <3>1
    <3> QED BY <3>1, Narrows
  <2> QED BY <2>3, <2>4
<1> QED BY <1>5, <1>6

LEMMA ScriptRefines ==
  ASSUME IInv, IInv', Elsewhere, OpenNew \/ WriteNew \/ SyncNew \/ UnlinkOld
  PROVE  Promise!Next
<1>1. Scripted /\ UNCHANGED acked BY DEF OpenNew, WriteNew, SyncNew, UnlinkOld
<1>2. proc.todo # <<>> /\ Typed /\ Data /\ (In("boot") \/ In("reserve") \/ In("undo"))
  BY <1>1, ScriptFacts DEF Scripted, In
<1>3. CASE UNCHANGED file BY <1>1, <1>3, Unmoved
<1>4. ASSUME In("reserve") \/ In("undo")
      PROVE  /\ Get(Now) \in File(Contents) /\ Get(Now).seen \in Get(Now).kept
             /\ FirstContent(Now.name) \in Contents
  <2>1. CASE In("reserve") BY <2>1, ReservePlace
  <2>2. CASE In("undo")
    <3>1. proc.op \in OperationIds /\ Now.op = proc.op /\ Now.name \in Names
      BY <1>2, <2>2, UndoFacts DEF UndoSteps
    <3>2. Get(Now) = file[proc.op][Now.name] BY <3>1 DEF Get, Names
    <3>3. Get(Now) \in File(Contents) BY <1>2, <3>1, <3>2, FileFacts
    <3>4. Get(Now).seen \in Get(Now).kept BY <1>2, <3>1, <3>2 DEF Data, Lasting, Shaped
    <3> QED BY <3>3, <3>4, ContentFacts DEF FirstContent
  <2> QED BY <1>4, <2>1, <2>2
<1>5. ASSUME NEW f, Put(Now, f), In("boot") PROVE Promise!Next BY <1>1, <1>2, <1>5, BootPuts
<1>6. CASE Put(Now, Created(Get(Now))) \/ Put(Now, Unlinked(Get(Now))) \/ Put(Now, Synced(Get(Now)))
  <2>1. CASE In("boot") BY <1>5, <1>6, <2>1
  <2>2. CASE In("reserve") \/ In("undo")
    <3>1. PICK g \in File(Contents) : g = Get(Now) /\ g.seen \in g.kept BY <1>4, <2>2
    <3>2. /\ Created(g) \in File(Contents) /\ g.kept \subseteq Created(g).kept
          /\ Unlinked(g) \in File(Contents) /\ g.kept \subseteq Unlinked(g).kept
          /\ Synced(g) \in File(Contents) /\ Synced(g).kept \subseteq g.kept
      BY <3>1, EntryFacts
    <3>3. PICK f \in File(Contents) : /\ Put(Now, f)
                                      /\ g.kept \subseteq f.kept \/ f.kept \subseteq g.kept
      BY <1>6, <3>1, <3>2
    <3> QED BY <1>1, <1>2, <2>2, <3>1, <3>3, ReservePuts
  <2> QED BY <1>2, <2>1, <2>2
<1>7. CASE Put(Now, Written(Get(Now), FirstContent(Now.name), Torn))
  <2>1. CASE In("boot") BY <1>5, <1>7, <2>1
  <2>2. CASE In("reserve") \/ In("undo")
    <3>1. PICK g \in File(Contents) : g = Get(Now) /\ g.seen \in g.kept BY <1>4, <2>2
    <3>2. PICK c \in Contents : c = FirstContent(Now.name) BY <1>4, <2>2
    <3>3. Torn \in Contents BY ContentFacts
    <3>4. Written(g, c, Torn) \in File(Contents) /\ Written(g, c, Torn).kept = g.kept \cup {Torn, c}
      BY <3>3, WrittenFacts
    <3>5. PICK f \in File(Contents) : Put(Now, f) /\ g.kept \subseteq f.kept
      BY <1>7, <3>1, <3>2, <3>4
    <3> QED BY <1>1, <1>2, <2>2, <3>1, <3>5, ReservePuts
  <2> QED BY <1>2, <2>1, <2>2
<1> QED BY <1>3, <1>6, <1>7 DEF OpenNew, WriteNew, SyncNew, UnlinkOld

LEMMA DirectoryRefines ==
  ASSUME IInv, IInv', Elsewhere, SyncDirectory
  PROVE  Promise!Next
<1>1. Scripted BY DEF SyncDirectory
<1>2. Data /\ UNCHANGED <<ran, loose>> BY <1>1, ScriptFacts
<1>3. "journal" \in Names BY DEF Names
<1>4. UNCHANGED acked /\ \A o \in OperationIds : file'[o].journal.kept \subseteq file[o].journal.kept
  BY <1>2, <1>3, DirectoryFacts
<1> QED BY <1>4, Narrows

(* A torn journal is repaired: what is seen of it is what is left of it. *)
LEMMA RepairRefines ==
  ASSUME IInv, IInv', UNCHANGED acked, NEW ops, \A o \in ops \cap OperationIds : Readable(file[o].journal),
         \A o \in OperationIds : file'[o].journal = RepairedFiles(ops)[o].journal
  PROVE  Promise!Next
<1>1. Typed BY DEF IInv, Data
<1>2. \A o \in OperationIds : file[o].journal.seen \in file[o].journal.kept
  BY DEF IInv, Data, Lasting, Shaped, Names
<1>3. ASSUME NEW o \in OperationIds
      PROVE  \/ file'[o].journal = file[o].journal
             \/ /\ file'[o].journal.kept = {file'[o].journal.seen}
                /\ file'[o].journal.seen.lines = file[o].journal.seen.lines
  BY <1>1, RepairedFacts
<1>4. ASSUME NEW o \in OperationIds, NEW c \in file'[o].journal.kept
      PROVE  \E d \in file[o].journal.kept : c.lines = d.lines
  BY <1>2, <1>3, <1>4
<1> QED BY <1>4, Narrows

LEMMA StartupRefines ==
  ASSUME IInv, IInv', ReadIndex \/ CleanupReserves \/ Scan
  PROVE  Promise!Next
<1>1. UNCHANGED acked BY DEF ReadIndex, CleanupReserves, Scan
<1>2. file \in [OperationIds -> [Names -> File(Contents)]] /\ Typed BY DEF IInv, Data, Typed
<1>3. CASE UNCHANGED file BY <1>1, <1>3, Unmoved
<1>4. CASE file' = RepairedFiles(Journals) /\ \A o \in Journals : Readable(file[o].journal)
  BY <1>1, <1>4, RepairRefines
<1>5. CASE file' = [o \in OperationIds |->
                     IF o \in Marked \cap Reserved
                     THEN [file[o] EXCEPT !.reserve = EntrySynced(Unlinked(@))] ELSE file[o]]
  <2>1. ASSUME NEW o \in OperationIds PROVE file'[o].journal = file[o].journal
    <3>1. file[o] \in [Names -> File(Contents)] BY <1>2
    <3>2. \/ file'[o] = file[o]
          \/ file'[o] = [file[o] EXCEPT !["reserve"] = EntrySynced(Unlinked(@))]
      BY <1>5
    <3> QED BY <3>1, <3>2 DEF Names
  <2> QED BY <1>1, <2>1, Unmoved
<1>6. CASE /\ \A o \in Marked : Readable(file[o].journal)
           /\ file' = [o \in OperationIds |->
                IF o \in Marked /\ Terminal(o)
                THEN [RepairedFiles(Marked)[o] EXCEPT !.marker = EntrySynced(Unlinked(@))]
                ELSE RepairedFiles(Marked)[o]]
  <2>1. \A o \in Marked \cap OperationIds : Readable(file[o].journal) BY <1>6
  <2>2. RepairedFiles(Marked) \in [OperationIds -> [Names -> File(Contents)]]
    BY <1>2, <2>1, RepairedFacts
  <2>3. ASSUME NEW o \in OperationIds PROVE file'[o].journal = RepairedFiles(Marked)[o].journal
    <3>1. PICK r \in [Names -> File(Contents)] : r = RepairedFiles(Marked)[o] BY <2>2
    <3>2. file'[o] = r \/ file'[o] = [r EXCEPT !["marker"] = EntrySynced(Unlinked(@))]
      BY <1>6, <3>1
    <3>3. file'[o]["journal"] = r["journal"] BY <3>2 DEF Names
    <3> QED BY <3>1, <3>3
  <2> QED BY <1>1, <2>1, <2>3, RepairRefines
<1> QED BY <1>3, <1>4, <1>5, <1>6 DEF ReadIndex, CleanupReserves, Scan

(* The journal of the operation at work changes. *)
LEMMA WorkPuts ==
  ASSUME IInv, IInv', Working, NEW o, o = proc.op, NEW f \in File(Contents), PutJournal(f)
  PROVE  /\ o \in OperationIds /\ file'[o].journal = f /\ Journal = file[o].journal
         /\ \A p \in OperationIds : p # o => file'[p].journal = file[p].journal
<1>1. o \in OperationIds /\ Typed /\ "journal" \in Names BY WorkFacts DEF Names
<1>2. file' = [file EXCEPT ![o]["journal"] = f] BY DEF PutJournal
<1>3. file'[o]["journal"] = f /\ \A p \in OperationIds : p # o => file'[p] = file[p]
  BY <1>1, <1>2, PutFacts, ZenonT(30)
<1> QED BY <1>1, <1>3 DEF Journal

LEMMA WorkNarrows ==
  ASSUME IInv, IInv', Working, UNCHANGED acked, NEW f \in File(Contents), PutJournal(f),
         \A c \in f.kept : \E d \in Journal.kept : c.lines = d.lines
  PROVE  Promise!Next
<1>1. PICK o : o = proc.op OBVIOUS
<1>2. /\ o \in OperationIds /\ file'[o].journal = f /\ Journal = file[o].journal
      /\ \A p \in OperationIds : p # o => file'[p].journal = file[p].journal
  BY <1>1, WorkPuts
<1>3. ASSUME NEW p \in OperationIds, NEW c \in file'[p].journal.kept
      PROVE  \E d \in file[p].journal.kept : c.lines = d.lines
  BY <1>2, <1>3
<1> QED BY <1>3, Narrows

LEMMA AppendLineRefines == ASSUME IInv, IInv', AppendLine PROVE Promise!Next
<1>1. /\ Appending /\ UNCHANGED acked
      /\ PutJournal(Written(Journal, Line(Append(Journal.seen.lines, proc.event)), Ragged(Journal.seen)))
  BY DEF AppendLine, Appending, In
<1>2. Working BY <1>1, AppendFacts
<1>3. PICK o \in OperationIds : o = proc.op BY <1>2, WorkFacts
<1>4. PICK e \in Events : e = proc.event BY <1>1, AppendFacts
<1>5. PICK g \in File(Contents) : g = Journal BY <1>2, WorkFacts
<1>6. /\ g.seen \in g.kept /\ g.seen \in Contents /\ g.seen.lines \in Seq(Events)
  BY <1>2, <1>5, WorkFacts
<1>7. PICK s \in Seq(Events) : s = g.seen.lines BY <1>6
<1>8. Append(s, e) \in Seq(Events) OBVIOUS
<1>9. PICK c \in Contents : c = Line(Append(s, e)) /\ c.lines = Append(s, e) BY <1>8, ContentFacts
<1>10. PICK d \in Contents : d = Ragged(g.seen) /\ d.lines = s BY <1>6, <1>7, ContentFacts
<1>11. PICK f \in File(Contents) : f = Written(g, c, d) /\ f.kept = g.kept \cup {d, c}
  <2>1. Written(g, c, d) \in File(Contents) /\ Written(g, c, d).kept = g.kept \cup {d, c}
    BY WrittenFacts
  <2> QED BY <2>1
<1>12. PutJournal(f) BY <1>1, <1>4, <1>5, <1>7, <1>9, <1>10, <1>11
<1>13. /\ file'[o].journal = f /\ file[o].journal = g
       /\ \A p \in OperationIds : p # o => file'[p].journal = file[p].journal
  BY <1>2, <1>3, <1>5, <1>12, WorkPuts
<1>14. Reads[o] = {x.lines : x \in g.kept} /\ Reads'[o] = {x.lines : x \in f.kept}
  BY <1>13, ReadsFacts, ReadsFactsNext
<1>15. s \in Reads[o] BY <1>6, <1>7, <1>14
<1>16. Reads'[o] = Reads[o] \cup {Append(s, e)} BY <1>9, <1>10, <1>11, <1>14, <1>15, SMTT(20)
<1> QED BY <1>1, <1>13, <1>15, <1>16, Begins

LEMMA SyncLineRefines == ASSUME IInv, IInv', SyncLine PROVE Promise!Next
<1>1. /\ Appending /\ PutJournal(Synced(Journal))
      /\ acked' = [acked EXCEPT ![proc.op] = Journal.seen.lines]
  BY DEF SyncLine, Appending, In
<1>2. Working BY <1>1, AppendFacts
<1>3. PICK o \in OperationIds : o = proc.op BY <1>2, WorkFacts
<1>4. PICK g \in File(Contents) : g = Journal BY <1>2, WorkFacts
<1>5. g.seen \in g.kept /\ IsPrefix(acked[o], g.seen.lines) BY <1>2, <1>3, <1>4, WorkFacts DEF Fits
<1>6. PICK f \in File(Contents) : f = Synced(g) /\ f.kept = (g.kept \cap {Absent}) \cup {g.seen}
  BY <1>5, EntryFacts
<1>7. PutJournal(f) BY <1>1, <1>4, <1>6
<1>8. /\ file'[o].journal = f /\ file[o].journal = g
      /\ \A p \in OperationIds : p # o => file'[p].journal = file[p].journal
  BY <1>2, <1>3, <1>4, <1>7, WorkPuts
<1>9. acked \in [OperationIds -> Seq(Events)] BY DEF IInv, Data, Typed
<1>10. acked'[o] = g.seen.lines /\ \A p \in OperationIds : p # o => acked'[p] = acked[p]
  BY <1>1, <1>3, <1>4, <1>9
<1>11. g.seen \in f.kept /\ f.kept \subseteq g.kept BY <1>5, <1>6
<1>12. ASSUME NEW p \in OperationIds
       PROVE  /\ \A c \in file'[p].journal.kept : \E d \in file[p].journal.kept : c.lines = d.lines
              /\ acked'[p] = acked[p] \/ \E c \in file'[p].journal.kept : c.lines = acked'[p]
              /\ IsPrefix(acked[p], acked'[p])
  <2>1. CASE p = o BY <1>5, <1>8, <1>10, <1>11, <2>1
  <2>2. CASE p # o BY <1>8, <1>9, <1>10, <2>2, PrefixSelf
  <2> QED BY <2>1, <2>2
<1> QED BY <1>12, Settles

LEMMA AppendFailsRefines == ASSUME IInv, IInv', AppendFails PROVE Promise!Next
<1>1. Appending /\ UNCHANGED acked BY DEF AppendFails, Appending, In
<1>2. Working BY <1>1, AppendFacts
<1>3. CASE UNCHANGED file BY <1>1, <1>3, Unmoved
<1>4. ASSUME NEW c \in {Journal.seen, Ragged(Journal.seen)}, PutJournal(Written(Journal, c, c))
      PROVE  Promise!Next
  <2>1. PICK g \in File(Contents) : g = Journal BY <1>2, WorkFacts
  <2>2. g.seen \in g.kept /\ g.seen \in Contents BY <1>2, <2>1, WorkFacts
  <2>3. c \in Contents /\ c.lines = g.seen.lines BY <1>4, <2>1, <2>2, ContentFacts
  <2>4. Written(g, c, c) \in File(Contents) /\ Written(g, c, c).kept = g.kept \cup {c, c}
    BY <2>3, WrittenFacts
  <2>5. PICK f \in File(Contents) : f = Written(g, c, c) /\ f.kept = g.kept \cup {c} BY <2>4
  <2>6. PutJournal(f) BY <1>4, <2>1, <2>5
  <2>7. \A x \in f.kept : \E d \in Journal.kept : x.lines = d.lines BY <2>1, <2>2, <2>3, <2>5
  <2> QED BY <1>1, <1>2, <2>6, <2>7, WorkNarrows
<1> QED BY <1>3, <1>4 DEF AppendFails

LEMMA RollbackRefines == ASSUME IInv, IInv', RollbackAppend \/ RollbackFails PROVE Promise!Next
<1>1. In("rollback") /\ UNCHANGED acked BY DEF RollbackAppend, RollbackFails
<1>2. PICK x \in Contents : x = proc.content /\ \E d \in Journal.kept : x.lines = d.lines
  BY <1>1, RollbackContent
<1>3. Working BY <1>1, RollbackContent, AppendFacts
<1>4. PICK g \in File(Contents) : g = Journal BY <1>3, WorkFacts
<1>5. CASE UNCHANGED file BY <1>1, <1>5, Unmoved
<1>6. CASE PutJournal(OnDisk(proc.content))
  <2>1. OnDisk(x) \in File(Contents) /\ OnDisk(x).kept = {x} BY DEF OnDisk, File
  <2>2. PICK f \in File(Contents) : f = OnDisk(x) /\ f.kept = {x} BY <2>1
  <2>3. PutJournal(f) BY <1>2, <1>6, <2>2
  <2> QED BY <1>1, <1>2, <1>3, <2>2, <2>3, WorkNarrows
<1>7. CASE PutJournal(Written(Journal, proc.content, proc.content))
  <2>1. Written(g, x, x) \in File(Contents) /\ Written(g, x, x).kept = g.kept \cup {x, x}
    BY WrittenFacts
  <2>2. PICK f \in File(Contents) : f = Written(g, x, x) /\ f.kept = g.kept \cup {x} BY <2>1
  <2>3. PutJournal(f) BY <1>2, <1>4, <1>7, <2>2
  <2>4. \A c \in f.kept : \E d \in Journal.kept : c.lines = d.lines BY <1>2, <1>4, <2>2
  <2> QED BY <1>1, <1>3, <2>3, <2>4, WorkNarrows
<1> QED BY <1>5, <1>6, <1>7 DEF RollbackAppend, RollbackFails

(* The reservation is complete: its first line is acknowledged. *)
LEMMA CapacityRefines == ASSUME IInv, IInv', CapacitySuffices PROVE Promise!Next
<1> DEFINE one == <<"operation-started">>
<1>1. /\ Scripted /\ Now.kind = "capacity" /\ UNCHANGED file
      /\ acked' = [acked EXCEPT ![proc.op] = one]
  BY DEF CapacitySuffices
<1>2. proc.todo # <<>> /\ (In("boot") \/ In("reserve") \/ In("undo")) BY <1>1 DEF Scripted, In
<1>3. ~ In("boot") BY <1>1, <1>2, BootFacts, BootStepsFacts
<1>4. ~ In("undo") BY <1>1, <1>2, UndoFacts DEF UndoSteps
<1>5. PICK o \in OperationIds : o = proc.op /\ acked[o] = <<>> BY <1>2, <1>3, <1>4, ReserveFacts
<1>6. acked \in [OperationIds -> Seq(Events)] BY DEF IInv, Data, Typed
<1>7. acked'[o] = one /\ \A p \in OperationIds : p # o => acked'[p] = acked[p]
  BY <1>1, <1>5, <1>6
<1>8. PICK s \in Reads[o] : s = one
  <2>1. PICK s \in Reads[o] : s \in {<<>>, one} BY <1>5, ReadsFacts DEF Readings
  <2>2. s \in Reads'[o] BY <1>1, <2>1 DEF Reads
  <2>3. IsPrefix(one, s) /\ s \in Seq(Events) BY <1>7, <2>2, ReadsFactsNext DEF Readings
  <2>4. one \in Seq(Events) /\ one # <<>> BY DEF Events
  <2>5. s # <<>> BY <2>3, <2>4, PrefixNonempty
  <2> QED BY <2>1, <2>5
<1>9. \E c \in file[o].journal.kept : c.lines = one BY <1>8, ReadsFacts
<1>10. IsPrefix(<<>>, one)
  <2>1. one \in Seq(Events) BY DEF Events
  <2> QED BY <2>1, PrefixEmpty
<1> HIDE DEF one
<1>11. ASSUME NEW p \in OperationIds
       PROVE  /\ \A c \in file'[p].journal.kept : \E d \in file[p].journal.kept : c.lines = d.lines
              /\ acked'[p] = acked[p] \/ \E c \in file'[p].journal.kept : c.lines = acked'[p]
              /\ IsPrefix(acked[p], acked'[p])
  <2>1. CASE p = o BY <1>1, <1>5, <1>7, <1>9, <1>10, <2>1
  <2>2. CASE p # o BY <1>1, <1>6, <1>7, <2>2, PrefixSelf
  <2> QED BY <2>1, <2>2
<1> QED BY <1>11, Settles

(* After a power loss the reader's journal is the journal. *)
LEMMA PowerRefines == ASSUME IInv, IInv', PowerFails PROVE Promise!Next
<1>1. acked' = [o \in OperationIds |-> file'[o].journal.seen.lines] BY DEF PowerFails, PowerLoss
<1>2. ASSUME NEW o \in OperationIds
      PROVE  /\ \A c \in file'[o].journal.kept : \E d \in file[o].journal.kept : c.lines = d.lines
             /\ acked'[o] = acked[o] \/ \E c \in file'[o].journal.kept : c.lines = acked'[o]
             /\ IsPrefix(acked[o], acked'[o])
  <2>1. "journal" \in Names BY DEF Names
  <2>2. /\ file'[o].journal.seen \in file[o].journal.kept
        /\ file'[o].journal.kept = {file'[o].journal.seen}
    BY <2>1, PowerFacts
  <2>3. Accounted(o) BY DEF IInv, Data, Lasting
  <2>4. IsPrefix(acked[o], file'[o].journal.seen.lines) BY <2>2, <2>3 DEF Accounted, Fits
  <2>5. acked'[o] = file'[o].journal.seen.lines BY <1>1
  <2> QED BY <2>2, <2>4, <2>5
<1> QED BY <1>2, Settles

LEMMA SignalRefines == ASSUME IInv, IInv', Interrupted PROVE Promise!Next
<1>1. Signal /\ Elsewhere /\ UNCHANGED acked BY DEF Interrupted, Signal
<1>2. CASE UNCHANGED file BY <1>1, <1>2, Unmoved
<1>3. CASE In("reserve") /\ Put(Now, Unlinked(Get(Now)))
  <2>1. PICK g \in File(Contents) : g = Get(Now) /\ g.seen \in g.kept BY <1>1, <1>3, ReservePlace
  <2>2. PICK f \in File(Contents) : f = Unlinked(g) /\ f.kept = g.kept \cup {Absent}
    BY <2>1, EntryFacts
  <2>3. Put(Now, f) /\ Get(Now).kept \subseteq f.kept BY <1>3, <2>1, <2>2
  <2> QED BY <1>1, <1>3, <2>3, ReservePuts
<1> QED BY <1>1, <1>2, <1>3 DEF Signal

LEMMA FilesRefine == ASSUME IInv, IInv', FilesProceed PROVE Promise!Next
<1>1. FileStep /\ Elsewhere BY DEF FilesProceed
<1>2. CASE OpenNew \/ WriteNew \/ SyncNew \/ UnlinkOld BY <1>1, <1>2, ScriptRefines
<1>3. CASE SyncDirectory BY <1>1, <1>3, DirectoryRefines
<1>4. CASE CapacitySuffices BY <1>4, CapacityRefines
<1>5. CASE ReserveFails \/ UndoStepFails \/ Undone \/ Refused \/ BoundaryRefuses \/ ReclaimFails
           \/ StartCommand \/ CapacityMissing \/ BeginReport \/ ReplaceFails \/ GiveUp
  <2>1. UNCHANGED <<file, acked>>
    BY <1>5 DEF ReserveFails, UndoStepFails, Undone, Refused, BoundaryRefuses, ReclaimFails,
                StartCommand, CapacityMissing, BeginReport, ReplaceFails, GiveUp
  <2> QED BY <2>1, Unmoved
<1>6. CASE BootFails
  <2>1. In("boot") /\ proc.todo # <<>> /\ UNCHANGED acked BY <1>6 DEF BootFails
  <2>2. CASE UNCHANGED file BY <2>1, <2>2, Unmoved
  <2>3. CASE Put(Now, Unlinked(Get(Now))) BY <2>1, <2>3, BootPuts
  <2> QED BY <1>6, <2>2, <2>3 DEF BootFails
<1>7. CASE ReadIndex \/ CleanupReserves \/ Scan BY <1>7, StartupRefines
<1>8. CASE AppendLine BY <1>8, AppendLineRefines
<1>9. CASE SyncLine BY <1>9, SyncLineRefines
<1>10. CASE AppendFails BY <1>10, AppendFailsRefines
<1>11. CASE RollbackAppend \/ RollbackFails BY <1>11, RollbackRefines
<1>12. CASE ReclaimReserve \/ ReplaceReport \/ SyncReport \/ ReleaseReserve
  <2>1. UNCHANGED acked BY <1>12 DEF ReclaimReserve, ReplaceReport, SyncReport, ReleaseReserve
  <2>2. CASE UNCHANGED file BY <2>1, <2>2, Unmoved
  <2>3. CASE \E n \in {"reserve", "report"} : \E f : file' = [file EXCEPT ![proc.op][n] = f]
    BY <2>1, <2>3, OthersUnmoved
  <2>4. UNCHANGED file \/ \E n \in {"reserve", "report"} : \E f : file' = [file EXCEPT ![proc.op][n] = f]
    <3>1. CASE ReclaimReserve BY <3>1 DEF ReclaimReserve
    <3>2. CASE ReplaceReport BY <3>2 DEF ReplaceReport
    <3>3. CASE SyncReport BY <3>3 DEF SyncReport
    <3>4. CASE ReleaseReserve BY <3>4 DEF ReleaseReserve
    <3> QED BY <1>12, <3>1, <3>2, <3>3, <3>4
  <2> QED BY <2>2, <2>3, <2>4
<1> QED
  BY <1>1, <1>2, <1>3, <1>4, <1>5, <1>6, <1>7, <1>8, <1>9, <1>10, <1>11, <1>12 DEF FileStep

LEMMA StepRefines ==
  IInv /\ IInv' /\ [JournaledNext]_allVars => [Promise!Next]_<<acked, Reads>>
<1> SUFFICES ASSUME IInv, IInv', [JournaledNext]_allVars PROVE [Promise!Next]_<<acked, Reads>>
  OBVIOUS
<1>1. CASE UNCHANGED allVars
  <2>1. UNCHANGED <<file, acked>> BY <1>1 DEF allVars, vars
  <2> QED BY <2>1 DEF Reads, Remains
<1>2. CASE \/ Start /\ Elsewhere
           \/ RunnerRuns \/ CommandRuns \/ CallReturns \/ CallRaises \/ Killed
  <2>1. UNCHANGED <<file, acked>>
    BY <1>2 DEF Start, RunnerRuns, CommandRuns, InCall, vars, CallReturns, CommandEnds, CallRaises,
                Killed, Kill
  <2> QED BY <2>1, Unmoved
<1>3. CASE FilesProceed BY <1>3, FilesRefine
<1>4. CASE Interrupted BY <1>4, SignalRefines
<1>5. CASE PowerFails BY <1>5, PowerRefines
<1> QED BY <1>1, <1>2, <1>3, <1>4, <1>5 DEF JournaledNext

LEMMA InitRefines == JournaledInit => Promise!Init
<1> SUFFICES ASSUME JournaledInit PROVE Promise!Init OBVIOUS
<1>1. IInv BY InitSound
<1>2. ASSUME NEW o \in OperationIds
      PROVE  file[o].journal.kept = {file[o].journal.seen} /\ file[o].journal.seen.lines = acked[o]
  <2> DEFINE LegacyJournals == {<<"operation-started">>, <<"operation-started", "command-started">>,
                                <<"operation-started", "command-started", "command-finished",
                                  "operation-completed">>}
  <2>1. PICK lines \in [Legacy -> LegacyJournals] :
          LET Before(p, n) ==
               CASE p \in Legacy /\ n = "journal" -> Line(lines[p])
                 [] p \in Legacy /\ n = "report"  -> IF Len(lines[p]) = 4 THEN Final ELSE Whole
                 [] p \in Legacy /\ n = "reserve" -> IF Len(lines[p]) = 4 THEN Absent ELSE Whole
                 [] OTHER -> Absent
          IN  /\ file = [p \in OperationIds |-> [n \in Names |-> OnDisk(Before(p, n))]]
              /\ acked = [p \in OperationIds |-> IF p \in Legacy THEN lines[p] ELSE <<>>]
    BY DEF JournaledInit, Init
  <2> DEFINE Before(p, n) ==
               CASE p \in Legacy /\ n = "journal" -> Line(lines[p])
                 [] p \in Legacy /\ n = "report"  -> IF Len(lines[p]) = 4 THEN Final ELSE Whole
                 [] p \in Legacy /\ n = "reserve" -> IF Len(lines[p]) = 4 THEN Absent ELSE Whole
                 [] OTHER -> Absent
  <2>2. /\ file = [p \in OperationIds |-> [n \in Names |-> OnDisk(Before(p, n))]]
        /\ acked = [p \in OperationIds |-> IF p \in Legacy THEN lines[p] ELSE <<>>]
    BY <2>1
  <2>3. Before(o, "journal") = IF o \in Legacy THEN Line(lines[o]) ELSE Absent OBVIOUS
  <2> HIDE DEF Before
  <2>4. file[o].journal = OnDisk(Before(o, "journal")) BY <2>2 DEF Names
  <2>5. file[o].journal.seen = Before(o, "journal") /\ file[o].journal.kept = {Before(o, "journal")}
    BY <2>4 DEF OnDisk
  <2>6. acked[o] = IF o \in Legacy THEN lines[o] ELSE <<>> BY <2>2
  <2>7. Before(o, "journal").lines = acked[o] BY <2>3, <2>6 DEF Line, Absent
  <2> QED BY <2>5, <2>7
<1>3. \A o \in OperationIds : Reads[o] = {acked[o]}
  <2> TAKE o \in OperationIds
  <2>1. Reads[o] = {c.lines : c \in file[o].journal.kept} BY <1>1, ReadsFacts
  <2>2. PICK c : c = file[o].journal.seen OBVIOUS
  <2>3. file[o].journal.kept = {c} /\ c.lines = acked[o] BY <1>2, <2>2
  <2> QED BY <2>1, <2>3
<1>4. acked \in [OperationIds -> Seq(Events)] BY <1>1 DEF IInv, Data, Typed
<1>5. Reads = [o \in OperationIds |-> {acked[o]}] BY <1>3 DEF Reads
<1> QED BY <1>4, <1>5 DEF Promise!Init, Reads

(* append_report_journal keeps its promise: through every fault of a primitive, every    *)
(* signal, kill and power loss, a line is there wholly, not at all or in doubt, doubt is *)
(* only about what follows the acknowledged lines, and those are found by every reader.  *)
THEOREM KeepsPromise == JournaledSpec => ImplementsPromise
<1>1. JournaledInit => Promise!Init BY InitRefines
<1>2. IInv /\ IInv' /\ [JournaledNext]_allVars
        => [Promise!Next]_<<acked, [o \in OperationIds |-> {c.lines : c \in Remains(file[o].journal)}]>>
  BY StepRefines DEF Reads
<1>3. JournaledSpec => []IInv BY Invariance
<1> QED BY <1>1, <1>2, <1>3, PTL DEF JournaledSpec, ImplementsPromise, Promise!Spec
=============================================================================
