------------------------- MODULE JournaledFilesProofs -------------------------
(*******************************************************************************)
(* The inductive invariant of JournaledCommand.tla, and that every step of the *)
(* startup, of a reservation and of its undo preserves it: any set of          *)
(* operations, any number of commands and descendants, every fault at every    *)
(* moment.  The steps of an operation at work, and the theorems, are in        *)
(* JournaledCommandProofs.tla.                                                 *)
(*                                                                             *)
(* All of it is said of every content a power loss may leave of a file, not    *)
(* only of the one that is seen.                                               *)
(*******************************************************************************)
EXTENDS JournaledCommand, FiniteSetTheorems, TLAPS

-----------------------------------------------------------------------------
(* Types. *)

Contents == [lines : Seq(Events \cup {"whole", "final", "failed"}), torn : BOOLEAN]
Steps    == [kind : {"open", "write", "sync", "syncReports", "syncActive", "unlink", "capacity"},
             name : Names \cup {"index"}, op : OperationIds \cup {NoOp}]
Procs    == [phase : Phases, op : OperationIds \cup {NoOp}, todo : Seq(Steps),
             event : Events \cup {"none"}, content : Contents,
             cause : {"none", "io", "capacity", "rejected", "uncertain"},
             failed : BOOLEAN, retried : BOOLEAN, attempts : Nat]

Typed ==
  /\ file \in [OperationIds -> [Names -> File(Contents)]] /\ index \in File(Contents)
  /\ acked \in [OperationIds -> Seq(Events)]
  /\ ran \in [OperationIds -> Nat] /\ loose \subseteq OperationIds

(* What is seen is among what may be left; a file holds what is written to it. *)
Shaped(o) ==
  /\ \A n \in Names : file[o][n].seen \in file[o][n].kept
  /\ file[o].report.kept \subseteq {Absent, Torn, Whole, Final, Failed}
  /\ file[o].marker.kept \subseteq {Absent, Torn, Whole}
  /\ file[o].reserve.kept \subseteq {Absent, Torn, Whole}
  /\ \A c \in file[o].journal.kept : c.lines \in Seq(Events)

IndexShaped ==
  /\ index.seen \in index.kept /\ index.kept \subseteq {Absent, Torn, Whole}
  /\ Whole \in index.kept => index.seen = Whole

-----------------------------------------------------------------------------
(* What holds of every operation, dead or alive. *)

Tally(s, event) == Cardinality({i \in DOMAIN s : s[i] = event})
Begun(s)   == Tally(s, "command-started")
Ended(s)   == Tally(s, "command-finished")
Owed(o)    == IF o \in loose THEN 1 ELSE 0
(* A command that is not finished, beside those whose processes went on. *)
Open(o, s) == Ended(s) + Owed(o) < Begun(s)

Fits(o, s) ==
  /\ IsPrefix(acked[o], s)
  /\ Len(s) <= 2 * MaxCommands + 4
  /\ ran[o] <= Begun(s) /\ Ended(s) + Owed(o) <= Begun(s)
  /\ acked[o] = <<>> => s \in {<<>>, <<"operation-started">>}

Accounted(o) == ran[o] <= MaxCommands /\ \A c \in file[o].journal.kept : Fits(o, c.lines)

Done(c) == Holds(c, "operation-completed")
(* A completion is never beside a report of another kind, nor beside one in doubt. *)
Reported(o) ==
  (\E c \in file[o].journal.kept : Done(c)) =>
    /\ file[o].report.kept \subseteq {Final, Failed}
    /\ file[o].report.seen = Final => file[o].report.kept = {Final}

Needed(o)     == ran[o] > 0 /\ file[o].report.kept # {Final}
Remembered(o) == Whole \in index.kept /\ Needed(o) => Absent \notin file[o].marker.kept

Lasting == \A o \in OperationIds : Shaped(o) /\ Accounted(o) /\ Reported(o) /\ Remembered(o)
Data    == Typed /\ IndexShaped /\ Lasting

-----------------------------------------------------------------------------
(* The bootstrap of the index: a script in its order. *)

BootSteps ==
  [kind : {"open", "write", "sync"}, name : {"marker"}, op : OperationIds]
    \cup [kind : {"unlink"}, name : {"reserve"}, op : OperationIds]
    \cup {Step("syncReports", "reserve", NoOp), Step("syncActive", "marker", NoOp)}
    \cup [kind : {"open", "write", "sync"}, name : {"index"}, op : {NoOp}]
    \cup {Step("syncActive", "index", NoOp)}

Rank(s) == CASE s.name = "marker" /\ s.kind # "syncActive" -> 1
             [] s.name = "reserve" -> 2
             [] s.name = "marker" /\ s.kind = "syncActive" -> 3
             [] OTHER -> 4

Sorted(s)   == \A i, j \in DOMAIN s : i < j => Rank(s[i]) <= Rank(s[j])
Adjacent(s) == \A i \in DOMAIN s : s[i].kind = "open" =>
                 /\ i + 2 \in DOMAIN s
                 /\ Rank(s[i + 1]) = Rank(s[i]) /\ s[i + 1].kind = "write"
                 /\ Rank(s[i + 2]) = Rank(s[i]) /\ s[i + 2].kind = "sync"
Includes(s, step) == \E i \in DOMAIN s : s[i] = step

(* Before the index is written, a marker of every operation that needs one is there *)
(* or still to be made, and durable once the active directory is synchronized.      *)
Booting ==
  In("boot") /\ proc.todo # <<>> =>
    /\ proc.todo \in Seq(BootSteps) /\ Sorted(proc.todo) /\ Adjacent(proc.todo)
    /\ Rank(proc.todo[1]) < 4 => Whole \notin index.kept
    /\ Rank(proc.todo[1]) = 1 => Includes(proc.todo, Step("syncActive", "marker", NoOp))
    /\ \A o \in OperationIds : Needed(o) =>
         \/ Includes(proc.todo, Step("open", "marker", o))
         \/ /\ file[o].marker.seen # Absent
            /\ Includes(proc.todo, Step("syncActive", "marker", NoOp))
         \/ Absent \notin file[o].marker.kept

-----------------------------------------------------------------------------
(* The reservation: how much of its script is left says what is on disk. *)

Left == Len(proc.todo)
ReserveFiles(o, left) ==
  /\ left = 16 => ~ Exists(file[o].report)
  /\ left >= 13 => ~ Exists(file[o].journal)
  /\ left >= 9 => ~ Exists(file[o].marker)
  /\ left >= 5 => ~ Exists(file[o].reserve)
  /\ left <= 11 => file[o].journal.seen = Line(<<"operation-started">>)
  /\ left <= 10 => file[o].journal.kept \subseteq {Absent, Line(<<"operation-started">>)}
  /\ left <= 9 => Absent \notin file[o].journal.kept
  /\ left <= 8 => Exists(file[o].marker)
  /\ left <= 5 => Absent \notin file[o].marker.kept
Reserving ==
  In("reserve") =>
    /\ proc.op \in OperationIds /\ acked[proc.op] = <<>>
    /\ Left \in 1..16
    /\ \A i \in 1..Left : proc.todo[i] = ReserveScript(proc.op)[16 - Left + i]
    /\ ReserveFiles(proc.op, Left)

UndoSteps(o) == [kind : {"unlink"}, name : Names, op : {o}]
                  \cup [kind : {"syncReports", "syncActive"}, name : Names, op : {o}]
Undoing ==
  In("undo") => /\ proc.op \in OperationIds /\ acked[proc.op] = <<>>
                /\ proc.todo \in Seq(UndoSteps(proc.op))

-----------------------------------------------------------------------------
(* The operation: what its journal holds, and may still take. *)

WorkPhases == {"work", "command", "append", "rollback", "reclaim", "replace", "release"}
Working    == proc.phase \in WorkPhases

(* The lines an append started from. *)
Base == CASE In("rollback") -> proc.content.lines
          [] In("append") /\ Len(proc.todo) = 1 -> Front(Journal.seen.lines)
          [] OTHER -> Journal.seen.lines

RoomBefore(event, attempts) ==
  CASE event = "command-started" -> 2 * attempts - 1
    [] event = "command-finished" -> 2 * attempts
    [] event = "report-persistence-failed" -> 2 * attempts + 2
    [] OTHER -> 2 * attempts + 1
BaseRoom == RoomBefore(proc.event, proc.attempts)

Room == CASE In("work") -> 2 * proc.attempts + 1
          [] In("command") -> 2 * proc.attempts
          [] In("replace") -> 2 * proc.attempts + (IF proc.event = "none" THEN 1 ELSE 2)
          [] In("release") -> 2 * proc.attempts + 3
          [] OTHER -> BaseRoom + 1

Operating ==
  /\ ~ Working => proc.attempts = 0
  /\ Working =>
       /\ proc.op \in OperationIds /\ acked[proc.op] # <<>>
       /\ Absent \notin file[proc.op].marker.kept
       /\ ran[proc.op] <= proc.attempts /\ proc.attempts <= MaxCommands
       /\ \A c \in Journal.kept : Len(c.lines) <= Room

(* An append under way can be completed, and taken back. *)
WriteStep == Step("write", "journal", proc.op)
SyncStep  == Step("sync", "journal", proc.op)
Reversible ==
  /\ Appending =>
       /\ proc.event \in Events \ {"operation-started"}
       /\ \E c \in Journal.kept : c.lines = Base
       /\ Len(Base) <= BaseRoom
       /\ proc.event = "command-started" => ran[proc.op] < proc.attempts
       /\ proc.event = "command-finished" => Open(proc.op, Base)
       /\ proc.event = "operation-completed" => file[proc.op].report.kept = {Final}
  /\ In("append") => \/ proc.todo = <<WriteStep, SyncStep>>
                     \/ /\ proc.todo = <<SyncStep>>
                        /\ Journal.seen = Line(Append(Base, proc.event))
  /\ In("rollback") => ~ proc.content.torn

(* The report follows the journal's last command, and precedes its completion. *)
Unreported == \/ In("work") \/ In("command")
              \/ (Appending /\ proc.event \in CommandEvents)
              \/ (In("replace") /\ proc.event = "none")
Reporting ==
  /\ Unreported => \A c \in Journal.kept : ~ Done(c)
  /\ In("work") \/ In("command") => proc.todo = <<>>
  /\ In("replace") =>
       /\ proc.event \in {"none", "operation-completed", "operation-incomplete"}
       /\ proc.content = IF proc.failed THEN Failed ELSE Final
       /\ proc.event # "none" => proc.failed
       /\ proc.todo # <<>> => file[proc.op].report.seen = proc.content

-----------------------------------------------------------------------------
(* The call of the runner. *)

Quiet == ~ Running /\ ~ Stuck /\ group = {}
Calling ==
  /\ RunnerTypeOK
  /\ At({"reaping"}) => ~ Running /\ group = {}
  /\ At({"joining", "returned"}) => Quiet
  /\ At({"raised"}) /\ call.why # "unguarded" => Quiet
  /\ call.why = "unguarded" => At({"raised"})
  /\ At({"idle"}) => leader.state = "none"
  /\ leader.state = "none" => At({"idle", "returned"}) /\ group = {} /\ outside = {}

Commanding ==
  /\ Calling
  /\ ~ In("command") => /\ call = NoCall /\ leader = NoLeader
                        /\ group = {} /\ outside = {} /\ holders = {}
  /\ In("command") =>
       /\ Journal.kept = {Journal.seen}
       /\ Open(proc.op, Journal.seen.lines)
       /\ leader.state = "none" =>
            ran[proc.op] < Begun(Journal.seen.lines) /\ ran[proc.op] < proc.attempts

IInv == /\ Data /\ proc \in Procs
        /\ Booting /\ Reserving /\ Undoing
        /\ Operating /\ Reversible /\ Reporting /\ Commanding

-----------------------------------------------------------------------------
(* Counting events in a sequence, and sequences that begin alike. *)

LEMMA CountFact == ASSUME NEW c, NEW e PROVE Count(c, e) = Tally(c.lines, e)
BY DEF Count, Tally

LEMMA TallyNat == ASSUME NEW S, NEW s \in Seq(S), NEW e PROVE Tally(s, e) \in Nat
<1> DEFINE I == {i \in DOMAIN s : s[i] = e}
<1>1. DOMAIN s = 1..Len(s) /\ Len(s) \in Nat OBVIOUS
<1>2. IsFiniteSet(1..Len(s)) BY <1>1, FS_Interval
<1>3. IsFiniteSet(I) BY <1>1, <1>2, FS_Subset
<1> QED BY <1>3, FS_CardinalityType DEF Tally

LEMMA TallyEmpty == ASSUME NEW e PROVE Tally(<<>>, e) = 0
<1>1. {i \in DOMAIN <<>> : <<>>[i] = e} = {} OBVIOUS
<1> QED BY <1>1, FS_EmptySet DEF Tally

LEMMA TallyAppend ==
  ASSUME NEW S, NEW s \in Seq(S), NEW x \in S, NEW e
  PROVE  Tally(Append(s, x), e) = Tally(s, e) + (IF x = e THEN 1 ELSE 0)
<1> DEFINE I == {i \in DOMAIN s : s[i] = e}
           J == {i \in DOMAIN Append(s, x) : Append(s, x)[i] = e}
           n == Len(s) + 1
<1>1. /\ DOMAIN s = 1..Len(s) /\ Len(s) \in Nat /\ DOMAIN Append(s, x) = 1..n
      /\ \A i \in DOMAIN s : Append(s, x)[i] = s[i]
      /\ Append(s, x)[n] = x
  OBVIOUS
<1>2. IsFiniteSet(I)
  <2>1. IsFiniteSet(1..Len(s)) BY <1>1, FS_Interval
  <2> QED BY <1>1, <2>1, FS_Subset
<1>3. n \notin I BY <1>1
<1>4. CASE x = e
  <2>1. J = I \cup {n} BY <1>1, <1>4
  <2> QED BY <1>2, <1>3, <1>4, <2>1, FS_AddElement DEF Tally
<1>5. CASE x # e
  <2>1. J = I BY <1>1, <1>5
  <2>2. Cardinality(I) \in Nat BY <1>2, FS_CardinalityType
  <2>3. Tally(s, e) = Cardinality(I) /\ Tally(Append(s, x), e) = Cardinality(J) BY DEF Tally
  <2> HIDE DEF I, J
  <2> QED BY <1>5, <2>1, <2>2, <2>3
<1> QED BY <1>4, <1>5

LEMMA PrefixFact ==
  ASSUME NEW S, NEW s \in Seq(S), NEW t \in Seq(S)
  PROVE  IsPrefix(s, t) <=> Len(s) <= Len(t) /\ \A i \in 1..Len(s) : s[i] = t[i]
<1>1. ASSUME Len(s) <= Len(t)
      PROVE  SubSeq(s, 1, Len(s)) = SubSeq(t, 1, Len(s)) <=> \A i \in 1..Len(s) : s[i] = t[i]
  <2> DEFINE u == SubSeq(s, 1, Len(s))
             v == SubSeq(t, 1, Len(s))
  <2>1. /\ u \in Seq(S) /\ Len(u) = Len(s) /\ \A i \in 1..Len(s) : u[i] = s[i]
        /\ v \in Seq(S) /\ Len(v) = Len(s) /\ \A i \in 1..Len(s) : v[i] = t[i]
    BY <1>1
  <2>2. u = v <=> \A i \in 1..Len(s) : u[i] = v[i]
    BY <2>1
  <2> QED BY <2>1, <2>2
<1> QED BY <1>1 DEF IsPrefix

LEMMA PrefixSelf == ASSUME NEW S, NEW s \in Seq(S) PROVE IsPrefix(s, s)
BY PrefixFact

LEMMA PrefixEmpty == ASSUME NEW S, NEW s \in Seq(S) PROVE IsPrefix(<<>>, s)
BY DEF IsPrefix

LEMMA PrefixAppend ==
  ASSUME NEW S, NEW s \in Seq(S), NEW t \in Seq(S), NEW x \in S, IsPrefix(s, t)
  PROVE  IsPrefix(s, Append(t, x))
<1>1. Len(s) <= Len(t) /\ \A i \in 1..Len(s) : s[i] = t[i] BY PrefixFact
<1>2. /\ Append(t, x) \in Seq(S) /\ Len(Append(t, x)) = Len(t) + 1
      /\ \A i \in 1..Len(t) : Append(t, x)[i] = t[i]
  OBVIOUS
<1>3. \A i \in 1..Len(s) : i \in 1..Len(t) BY <1>1
<1>4. Len(s) <= Len(Append(t, x)) BY <1>1, <1>2
<1> QED BY <1>1, <1>2, <1>3, <1>4, PrefixFact

LEMMA PrefixNonempty ==
  ASSUME NEW S, NEW s \in Seq(S), NEW t \in Seq(S), IsPrefix(s, t), s # <<>>
  PROVE  t # <<>>
BY PrefixFact

LEMMA FrontAppend ==
  ASSUME NEW S, NEW s \in Seq(S), NEW x \in S
  PROVE  Front(Append(s, x)) = s
<1> DEFINE t == Append(s, x)
           u == SubSeq(t, 1, Len(t) - 1)
<1>1. t \in Seq(S) /\ Len(t) = Len(s) + 1 /\ \A i \in 1..Len(s) : t[i] = s[i] OBVIOUS
<1>2. u \in Seq(S) /\ Len(u) = Len(s) /\ \A i \in 1..Len(s) : u[i] = s[i] BY <1>1
<1>3. u = s BY <1>2
<1> QED BY <1>3 DEF Front

-----------------------------------------------------------------------------
(* The primitives of files. *)

LEMMA ContentFacts ==
  /\ Absent \in Contents /\ Torn \in Contents /\ Whole \in Contents /\ Final \in Contents
  /\ Failed \in Contents /\ Line(<<"operation-started">>) \in Contents
  /\ \A c \in Contents : Ragged(c) \in Contents /\ Ragged(c).lines = c.lines /\ Ragged(c).torn
  /\ \A s \in Seq(Events) : Line(s) \in Contents /\ Line(s).lines = s /\ ~ Line(s).torn
<1>1. /\ Absent \in Contents /\ Torn \in Contents /\ Whole \in Contents /\ Final \in Contents
      /\ Failed \in Contents /\ Line(<<"operation-started">>) \in Contents
  BY DEF Contents, Absent, Torn, Whole, Final, Failed, Line, Events
<1>2. \A c \in Contents : Ragged(c) \in Contents /\ Ragged(c).lines = c.lines /\ Ragged(c).torn
  BY DEF Contents, Ragged
<1>3. \A s \in Seq(Events) : s \in Seq(Events \cup {"whole", "final", "failed"})
  OBVIOUS
<1>4. \A s \in Seq(Events) : Line(s) \in Contents /\ Line(s).lines = s /\ ~ Line(s).torn
  BY <1>3 DEF Contents, Line
<1> QED BY <1>1, <1>2, <1>4

LEMMA DistinctContents ==
  /\ Absent.lines = <<>> /\ Torn.lines = <<>> /\ Absent # Torn
  /\ Whole \notin {Absent, Torn, Final, Failed} /\ Final \notin {Absent, Torn, Failed}
  /\ Failed \notin {Absent, Torn}
  /\ Line(<<"operation-started">>) # Absent
  /\ Whole.lines \notin Seq(Events) /\ Final.lines \notin Seq(Events)
BY DEF Absent, Torn, Whole, Final, Failed, Line, Events

LEMMA PrimitiveFacts ==
  ASSUME NEW f \in File(Contents), f.seen \in f.kept, NEW c \in Contents, NEW d \in Contents
  PROVE  /\ OnDisk(c) \in File(Contents) /\ OnDisk(c).seen = c /\ OnDisk(c).kept = {c}
         /\ Created(f) \in File(Contents) /\ Created(f).seen = Torn
         /\ Created(f).kept = f.kept \cup {Torn}
         /\ Written(f, c, d) \in File(Contents) /\ Written(f, c, d).seen = c
         /\ Written(f, c, d).kept = f.kept \cup {d, c}
         /\ Synced(f) \in File(Contents) /\ Synced(f).seen = f.seen
         /\ Synced(f).kept = (f.kept \cap {Absent}) \cup {f.seen}
         /\ EntrySynced(f) \in File(Contents) /\ EntrySynced(f).seen = f.seen
         /\ EntrySynced(f).seen \in EntrySynced(f).kept /\ EntrySynced(f).kept \subseteq f.kept
         /\ f.seen # Absent => EntrySynced(f).kept = f.kept \ {Absent}
         /\ Unlinked(f) \in File(Contents) /\ Unlinked(f).seen = Absent
         /\ Unlinked(f).kept = f.kept \cup {Absent}
         /\ Replaced(f, c) \in File(Contents) /\ Replaced(f, c).seen = c
         /\ Replaced(f, c).kept = f.kept \cup {c}
         /\ ReplacementSynced(f) \in File(Contents) /\ ReplacementSynced(f).seen = f.seen
         /\ ReplacementSynced(f).kept = {f.seen}
<1>1. Absent \in Contents /\ Torn \in Contents BY ContentFacts
<1>2. f.seen \in Contents /\ f.kept \subseteq Contents BY DEF File
<1>3. EntrySynced(f).seen = f.seen BY DEF EntrySynced, File
<1>4. EntrySynced(f).kept = IF f.seen = Absent THEN {Absent} ELSE f.kept \ {Absent}
  BY DEF EntrySynced, File
<1>5. EntrySynced(f) \in File(Contents) BY <1>1, <1>2 DEF EntrySynced, File
<1>6. Synced(f).seen = f.seen /\ Synced(f).kept = (f.kept \cap {Absent}) \cup {f.seen}
  BY DEF Synced, File
<1>7. Synced(f) \in File(Contents) BY <1>1, <1>2 DEF Synced, File
<1>8. /\ OnDisk(c) \in File(Contents) /\ OnDisk(c).seen = c /\ OnDisk(c).kept = {c}
      /\ Created(f) \in File(Contents) /\ Created(f).seen = Torn
      /\ Created(f).kept = f.kept \cup {Torn}
  BY <1>1, <1>2 DEF OnDisk, Created, File
<1>9. /\ Written(f, c, d) \in File(Contents) /\ Written(f, c, d).seen = c
      /\ Written(f, c, d).kept = f.kept \cup {d, c}
      /\ Unlinked(f) \in File(Contents) /\ Unlinked(f).seen = Absent
      /\ Unlinked(f).kept = f.kept \cup {Absent}
  BY <1>1, <1>2 DEF Written, Unlinked, File
<1>10. /\ Replaced(f, c) \in File(Contents) /\ Replaced(f, c).seen = c
       /\ Replaced(f, c).kept = f.kept \cup {c}
       /\ ReplacementSynced(f) \in File(Contents) /\ ReplacementSynced(f).seen = f.seen
       /\ ReplacementSynced(f).kept = {f.seen}
  BY <1>1, <1>2 DEF Replaced, ReplacementSynced, OnDisk, File
<1> QED BY <1>2, <1>3, <1>4, <1>5, <1>6, <1>7, <1>8, <1>9, <1>10

LEMMA EntryFacts ==
  ASSUME NEW f \in File(Contents), f.seen \in f.kept
  PROVE  /\ Created(f) \in File(Contents) /\ Created(f).seen = Torn
         /\ Created(f).kept = f.kept \cup {Torn}
         /\ Synced(f) \in File(Contents) /\ Synced(f).seen = f.seen
         /\ Synced(f).kept = (f.kept \cap {Absent}) \cup {f.seen}
         /\ EntrySynced(f) \in File(Contents) /\ EntrySynced(f).seen = f.seen
         /\ EntrySynced(f).seen \in EntrySynced(f).kept /\ EntrySynced(f).kept \subseteq f.kept
         /\ f.seen # Absent => EntrySynced(f).kept = f.kept \ {Absent}
         /\ Unlinked(f) \in File(Contents) /\ Unlinked(f).seen = Absent
         /\ Unlinked(f).kept = f.kept \cup {Absent}
         /\ ReplacementSynced(f) \in File(Contents) /\ ReplacementSynced(f).seen = f.seen
         /\ ReplacementSynced(f).kept = {f.seen}
<1>1. PICK c \in Contents : c = Absent BY ContentFacts
<1> QED BY <1>1, PrimitiveFacts

LEMMA FileFacts ==
  ASSUME Typed, NEW o \in OperationIds, NEW n \in Names
  PROVE  /\ file[o] \in [Names -> File(Contents)] /\ file[o][n] \in File(Contents)
         /\ file[o].journal \in File(Contents) /\ file[o].report \in File(Contents)
         /\ file[o].marker \in File(Contents) /\ file[o].reserve \in File(Contents)
         /\ file[o].journal = file[o]["journal"] /\ file[o].marker = file[o]["marker"]
BY DEF Typed, Names

-----------------------------------------------------------------------------
(* What a change of files has to show for the lasting part of the invariant. *)

LEMMA DataSame ==
  ASSUME Data, UNCHANGED <<file, index, acked, ran, loose>>
  PROVE  Data'
BY DEF Data, Typed, IndexShaped, Lasting, Shaped, Accounted, Fits, Owed, Reported, Remembered, Needed

LEMMA PutFacts ==
  ASSUME Typed, NEW o \in OperationIds, NEW n \in Names, NEW f \in File(Contents),
         file' = [file EXCEPT ![o][n] = f]
  PROVE  /\ file' \in [OperationIds -> [Names -> File(Contents)]]
         /\ file'[o][n] = f
         /\ \A m \in Names : m # n => file'[o][m] = file[o][m]
         /\ \A p \in OperationIds : p # o => file'[p] = file[p]
<1>1. file \in [OperationIds -> [Names -> File(Contents)]] BY DEF Typed
<1>2. file'[o] = [file[o] EXCEPT ![n] = f] BY <1>1
<1>3. file[o] \in [Names -> File(Contents)] BY <1>1
<1>4. file'[o] \in [Names -> File(Contents)] BY <1>2, <1>3
<1>5. \A p \in OperationIds : p # o => file'[p] = file[p] BY <1>1
<1>6. file' \in [OperationIds -> [Names -> File(Contents)]] BY <1>1, <1>4, <1>5
<1> QED BY <1>2, <1>3, <1>5, <1>6

(* A file that is not a journal. *)
LEMMA DataOther ==
  ASSUME Data, NEW o \in OperationIds, NEW n \in Names \ {"journal"}, NEW f \in File(Contents),
         f.seen \in f.kept,
         file' = [file EXCEPT ![o][n] = f], UNCHANGED <<index, acked, ran, loose>>,
         n # "report" => f.kept \subseteq {Absent, Torn, Whole},
         n = "report" =>
           /\ f.kept \subseteq {Absent, Torn, Whole, Final, Failed}
           /\ (\E c \in file[o].journal.kept : Done(c)) =>
                f.kept \subseteq {Final, Failed} /\ (f.seen = Final => f.kept = {Final})
           /\ ran[o] > 0 => Absent \notin file[o].marker.kept,
         n = "marker" /\ Whole \in index.kept /\ Needed(o) => Absent \notin f.kept
  PROVE  Data'
<1>1. Typed BY DEF Data
<1>2. /\ file' \in [OperationIds -> [Names -> File(Contents)]] /\ file'[o][n] = f
      /\ \A m \in Names : m # n => file'[o][m] = file[o][m]
      /\ \A p \in OperationIds : p # o => file'[p] = file[p]
  BY <1>1, PutFacts, ZenonT(30)
<1>3. Typed' BY <1>1, <1>2 DEF Typed
<1>4. IndexShaped' BY DEF Data, IndexShaped
<1>5. ASSUME NEW p \in OperationIds PROVE (Shaped(p) /\ Accounted(p) /\ Reported(p) /\ Remembered(p))'
  <2>1. Shaped(p) /\ Accounted(p) /\ Reported(p) /\ Remembered(p) BY DEF Data, Lasting
  <2>2. CASE p # o
    BY <1>2, <2>1, <2>2 DEF Shaped, Accounted, Fits, Owed, Reported, Remembered, Needed
  <2>3. CASE p = o
    <3>1. Accounted(p)' BY <1>2, <2>1, <2>3 DEF Accounted, Fits, Owed, Names
    <3>2. Shaped(p)'
      BY <1>2, <2>1, <2>3 DEF Shaped, Names
    <3>3. Reported(p)' BY <1>2, <2>1, <2>3 DEF Reported, Names
    <3>4. Remembered(p)' BY <1>2, <2>1, <2>3 DEF Remembered, Needed, Names
    <3> QED BY <3>1, <3>2, <3>3, <3>4
  <2> QED BY <2>2, <2>3
<1> QED BY <1>3, <1>4, <1>5 DEF Data, Lasting

LEMMA DataJournal ==
  ASSUME Data, NEW o \in OperationIds, NEW f \in File(Contents), f.seen \in f.kept,
         file' = [file EXCEPT ![o]["journal"] = f], UNCHANGED <<index, ran, loose>>,
         acked' \in [OperationIds -> Seq(Events)],
         \A p \in OperationIds : p # o => acked'[p] = acked[p],
         \A c \in f.kept :
           /\ c.lines \in Seq(Events) /\ Fits(o, c.lines)'
           /\ Done(c) => /\ file[o].report.kept \subseteq {Final, Failed}
                         /\ file[o].report.seen = Final => file[o].report.kept = {Final}
  PROVE  Data'
<1>1. Typed BY DEF Data
<1>2. /\ file' \in [OperationIds -> [Names -> File(Contents)]] /\ file'[o]["journal"] = f
      /\ \A m \in Names : m # "journal" => file'[o][m] = file[o][m]
      /\ \A p \in OperationIds : p # o => file'[p] = file[p]
  BY <1>1, PutFacts DEF Names
<1>3. Typed' BY <1>1, <1>2 DEF Typed
<1>4. IndexShaped' BY DEF Data, IndexShaped
<1>5. ASSUME NEW p \in OperationIds PROVE (Shaped(p) /\ Accounted(p) /\ Reported(p) /\ Remembered(p))'
  <2>1. Shaped(p) /\ Accounted(p) /\ Reported(p) /\ Remembered(p) BY DEF Data, Lasting
  <2>2. CASE p # o
    BY <1>2, <2>1, <2>2 DEF Shaped, Accounted, Fits, Owed, Reported, Remembered, Needed
  <2>3. CASE p = o
    <3>1. Accounted(p)' BY <1>2, <2>1, <2>3 DEF Accounted, Names
    <3>2. Shaped(p)' BY <1>2, <2>1, <2>3 DEF Shaped, Names
    <3>3. Reported(p)' BY <1>2, <2>1, <2>3 DEF Reported, Names
    <3>4. Remembered(p)' BY <1>2, <2>1, <2>3 DEF Remembered, Needed, Names
    <3> QED BY <3>1, <3>2, <3>3, <3>4
  <2> QED BY <2>2, <2>3
<1> QED BY <1>3, <1>4, <1>5 DEF Data, Lasting

LEMMA DataIndex ==
  ASSUME Data, NEW f \in File(Contents), f.seen \in f.kept, f.kept \subseteq {Absent, Torn, Whole},
         index' = f, UNCHANGED <<file, acked, ran, loose>>,
         Whole \in f.kept => f.seen = Whole,
         Whole \in f.kept /\ Whole \notin index.kept =>
           \A o \in OperationIds : Needed(o) => Absent \notin file[o].marker.kept
  PROVE  Data'
<1>1. Typed' BY DEF Data, Typed
<1>2. IndexShaped' BY DEF IndexShaped
<1>3. ASSUME NEW p \in OperationIds PROVE (Shaped(p) /\ Accounted(p) /\ Reported(p) /\ Remembered(p))'
  <2>1. Shaped(p) /\ Accounted(p) /\ Reported(p) /\ Remembered(p) BY DEF Data, Lasting
  <2>2. Remembered(p)' BY <2>1 DEF Remembered, Needed
  <2> QED BY <2>1, <2>2 DEF Shaped, Accounted, Fits, Owed, Reported
<1> QED BY <1>1, <1>2, <1>3 DEF Data, Lasting

(* Nothing is added to what may be left, and an absent entry goes where it is not seen. *)
LEMMA DataShrinks ==
  ASSUME Data, file' \in [OperationIds -> [Names -> File(Contents)]], index' \in File(Contents),
         index'.seen = index.seen, index'.seen \in index'.kept, index'.kept \subseteq index.kept,
         UNCHANGED <<acked, ran, loose>>,
         \A o \in OperationIds, n \in Names :
           /\ file'[o][n].seen = file[o][n].seen /\ file'[o][n].seen \in file'[o][n].kept
           /\ file'[o][n].kept \subseteq file[o][n].kept
  PROVE  Data'
<1>1. Typed' BY DEF Data, Typed
<1>2. IndexShaped' BY DEF Data, IndexShaped
<1>3. ASSUME NEW p \in OperationIds PROVE (Shaped(p) /\ Accounted(p) /\ Reported(p) /\ Remembered(p))'
  <2>1. Shaped(p) /\ Accounted(p) /\ Reported(p) /\ Remembered(p) BY DEF Data, Lasting
  <2>2. \A n \in Names : /\ file'[p][n].seen = file[p][n].seen /\ file'[p][n].seen \in file'[p][n].kept
                         /\ file'[p][n].kept \subseteq file[p][n].kept
    OBVIOUS
  <2>3. Shaped(p)' BY <2>1, <2>2 DEF Shaped, Names
  <2>4. Accounted(p)' BY <2>1, <2>2 DEF Accounted, Fits, Owed, Names
  <2>5. Reported(p)' BY <2>1, <2>2 DEF Reported, Names
  <2>6. Remembered(p)' BY <2>1, <2>2 DEF Remembered, Needed, Names
  <2> QED BY <2>3, <2>4, <2>5, <2>6
<1> QED BY <1>1, <1>2, <1>3 DEF Data, Lasting

(* A startup repairs journals, and drops reserves and markers. *)
LEMMA DataRepaired ==
  ASSUME Data, file' \in [OperationIds -> [Names -> File(Contents)]],
         UNCHANGED <<index, acked, ran, loose>>,
         \A o \in OperationIds :
           /\ \A n \in Names : file'[o][n].seen \in file'[o][n].kept
           /\ \A c \in file'[o].journal.kept : \E d \in file[o].journal.kept : c.lines = d.lines
           /\ file'[o].report = file[o].report
           /\ file'[o].marker.kept \cup file'[o].reserve.kept \subseteq {Absent, Torn, Whole}
           /\ Whole \in index.kept /\ Needed(o) => Absent \notin file'[o].marker.kept
  PROVE  Data'
<1>1. Typed' /\ IndexShaped' BY DEF Data, Typed, IndexShaped
<1>2. ASSUME NEW p \in OperationIds PROVE (Shaped(p) /\ Accounted(p) /\ Reported(p) /\ Remembered(p))'
  <2>1. Shaped(p) /\ Accounted(p) /\ Reported(p) /\ Remembered(p) BY DEF Data, Lasting
  <2>2. \A c \in file'[p].journal.kept :
          \E d \in file[p].journal.kept : c.lines = d.lines /\ (Done(c) <=> Done(d))
    BY DEF Done, Holds
  <2>3. Shaped(p)' BY <2>1, <2>2 DEF Shaped
  <2>4. Accounted(p)' BY <2>1, <2>2 DEF Accounted, Fits, Owed
  <2>5. Reported(p)' BY <2>1, <2>2 DEF Reported
  <2>6. Remembered(p)' BY DEF Remembered, Needed
  <2> QED BY <2>3, <2>4, <2>5, <2>6
<1> QED BY <1>1, <1>2 DEF Data, Lasting

LEMMA DataLost ==
  ASSUME Data, file' \in [OperationIds -> [Names -> File(Contents)]],
         index' \in Survivors(index), UNCHANGED ran, loose' = {},
         acked' = [o \in OperationIds |-> file'[o].journal.seen.lines],
         \A o \in OperationIds, n \in Names :
           file'[o][n].seen \in file[o][n].kept /\ file'[o][n].kept = {file'[o][n].seen}
  PROVE  Data'
<1>1. PICK i \in index.kept : index' = OnDisk(i) BY DEF Survivors
<1>2. i \in {Absent, Torn, Whole} /\ index'.seen = i /\ index'.kept = {i}
  BY <1>1 DEF Data, IndexShaped, OnDisk
<1>3. index' \in File(Contents) BY <1>1, <1>2, ContentFacts DEF OnDisk, File
<1>4. \A o \in OperationIds : file'[o].journal.seen.lines \in Seq(Events)
  BY DEF Data, Lasting, Shaped, Names
<1>5. acked' \in [OperationIds -> Seq(Events)] BY <1>4
<1>6. Typed' BY <1>3, <1>5 DEF Data, Typed
<1>7. IndexShaped' BY <1>2 DEF IndexShaped
<1>8. ASSUME NEW p \in OperationIds PROVE (Shaped(p) /\ Accounted(p) /\ Reported(p) /\ Remembered(p))'
  <2>1. Shaped(p) /\ Accounted(p) /\ Reported(p) /\ Remembered(p) BY DEF Data, Lasting
  <2>2. \A n \in Names : file'[p][n].seen \in file[p][n].kept /\ file'[p][n].kept = {file'[p][n].seen}
    OBVIOUS
  <2>3. Shaped(p)' BY <2>1, <2>2 DEF Shaped, Names
  <2>4. PICK s \in Seq(Events) : s = file'[p].journal.seen.lines /\ acked'[p] = s BY <1>4
  <2>5. Fits(p, s) BY <2>1, <2>2, <2>4 DEF Accounted, Names
  <2>6. Fits(p, s)'
    <3>1. s \in Seq(Events) /\ IsPrefix(s, s) BY <2>4, PrefixSelf
    <3>2. Begun(s) \in Nat /\ Ended(s) \in Nat BY <2>4, TallyNat DEF Begun, Ended
    <3>3. /\ ran[p] <= Begun(s) /\ Ended(s) + 0 <= Begun(s) BY <2>5, <3>2 DEF Fits, Owed
    <3> QED BY <2>4, <2>5, <3>1, <3>3 DEF Fits, Owed
  <2>7. Accounted(p)' BY <2>1, <2>2, <2>4, <2>6 DEF Accounted, Names
  <2>8. Reported(p)' BY <2>1, <2>2, DistinctContents DEF Reported, Names
  <2>9. Remembered(p)' BY <1>1, <1>2, <2>1, <2>2 DEF Remembered, Needed, Names
  <2> QED BY <2>3, <2>7, <2>8, <2>9
<1> QED BY <1>6, <1>7, <1>8 DEF Data, Lasting

(* A command comes to life, or its call is left behind with what lives of it. *)
LEMMA DataRun ==
  ASSUME Data, UNCHANGED <<file, index, acked>>, NEW o \in OperationIds,
         ran' \in [OperationIds -> Nat], loose' \subseteq OperationIds,
         \A p \in OperationIds : p # o => ran'[p] = ran[p] /\ (p \in loose' <=> p \in loose),
         ran'[o] <= MaxCommands,
         Absent \notin file[o].marker.kept,
         \A c \in file[o].journal.kept :
           ran'[o] <= Begun(c.lines) /\ Ended(c.lines) + Owed(o)' <= Begun(c.lines)
  PROVE  Data'
<1>1. Typed' /\ IndexShaped' BY DEF Data, Typed, IndexShaped
<1>2. ASSUME NEW p \in OperationIds PROVE (Shaped(p) /\ Accounted(p) /\ Reported(p) /\ Remembered(p))'
  <2>1. Shaped(p) /\ Accounted(p) /\ Reported(p) /\ Remembered(p) BY DEF Data, Lasting
  <2>2. Shaped(p)' /\ Reported(p)' BY <2>1 DEF Shaped, Reported
  <2>3. Accounted(p)' BY <2>1 DEF Accounted, Fits, Owed
  <2>4. Remembered(p)' BY <2>1 DEF Remembered, Needed
  <2> QED BY <2>2, <2>3, <2>4
<1> QED BY <1>1, <1>2 DEF Data, Lasting

-----------------------------------------------------------------------------
(* The script of the bootstrap. *)

LEMMA SetToSeqFacts ==
  ASSUME NEW S, IsFiniteSet(S)
  PROVE  /\ SetToSeq(S) \in Seq(S)
         /\ \A x \in S : \E i \in 1..Len(SetToSeq(S)) : SetToSeq(S)[i] = x
<1> DEFINE n == Cardinality(S)
           q == SetToSeq(S)
<1>1. n \in Nat /\ \E f \in [1..n -> S] : IsInjective(f)
  BY FS_CardinalityType DEF ExistsBijection, Bijection, Injection
<1>2. q \in [1..n -> S] /\ IsInjective(q) BY <1>1 DEF SetToSeq
<1>3. q \in Injection(1..n, S) BY <1>2 DEF Injection
<1>4. Cardinality(1..n) = n BY <1>1, FS_Interval
<1> HIDE DEF n, q
<1>5. q \in Surjection(1..n, S)
  <2>1. Cardinality(1..n) = Cardinality(S) <=> q \in Surjection(1..n, S)
    BY <1>3, FS_Injection
  <2> QED BY <1>4, <2>1 DEF n
<1>6. \A x \in S : \E i \in 1..n : q[i] = x BY <1>5 DEF Surjection
<1>7. q \in Seq(S) /\ Len(q) = n BY <1>1, <1>2
<1> QED BY <1>6, <1>7 DEF q

LEMMA MarkerStepsFacts ==
  ASSUME NEW order \in Seq(OperationIds)
  PROVE  /\ MarkerSteps(order) \in Seq(BootSteps)
         /\ \A i \in DOMAIN MarkerSteps(order) : Rank(MarkerSteps(order)[i]) = 1
         /\ Adjacent(MarkerSteps(order))
         /\ \A k \in 1..Len(order) : Includes(MarkerSteps(order), Step("open", "marker", order[k]))
<1> DEFINE n == Len(order)
           s == MarkerSteps(order)
           Group(i) == (i + 2) \div 3
           Place(i) == ((i - 1) % 3) + 1
<1>1. n \in Nat /\ \A k \in 1..n : order[k] \in OperationIds OBVIOUS
<1>2. /\ DOMAIN s = 1..(3 * n)
      /\ \A i \in 1..(3 * n) : s[i] = CreateSteps("marker", order[Group(i)])[Place(i)]
  BY DEF MarkerSteps
<1>3. \A i \in 1..(3 * n) : Group(i) \in 1..n /\ Place(i) \in 1..3
  BY <1>1
<1>4. \A i \in 1..(3 * n) : Place(i) = 1 =>
        i + 1 \in 1..(3 * n) /\ i + 2 \in 1..(3 * n) /\ Place(i + 1) = 2 /\ Place(i + 2) = 3
  BY <1>1
<1>5. \A k \in 1..n : 3 * k - 2 \in 1..(3 * n) /\ Group(3 * k - 2) = k /\ Place(3 * k - 2) = 1
  BY <1>1
<1> HIDE DEF n, s, Group, Place
<1>6. ASSUME NEW i \in 1..(3 * n)
      PROVE  /\ Place(i) = 1 => s[i] = Step("open", "marker", order[Group(i)])
             /\ Place(i) = 2 => s[i] = Step("write", "marker", order[Group(i)])
             /\ Place(i) = 3 => s[i] = Step("sync", "marker", order[Group(i)])
  <2>1. s[i] = CreateSteps("marker", order[Group(i)])[Place(i)] BY <1>2
  <2> QED BY <2>1 DEF CreateSteps
<1>7. ASSUME NEW i \in 1..(3 * n)
      PROVE  /\ s[i] \in BootSteps /\ Rank(s[i]) = 1
             /\ Place(i) = 1 => s[i].kind = "open"
             /\ Place(i) = 2 => s[i].kind = "write"
             /\ Place(i) = 3 => s[i].kind = "sync"
  <2>1. Place(i) \in {1, 2, 3} /\ order[Group(i)] \in OperationIds BY <1>1, <1>3
  <2>2. \A kind \in {"open", "write", "sync"} :
          LET x == Step(kind, "marker", order[Group(i)])
          IN  x \in BootSteps /\ Rank(x) = 1 /\ x.kind = kind
    BY <2>1 DEF Step, BootSteps, Rank
  <2> QED BY <1>6, <2>1, <2>2
<1>8. s \in Seq(BootSteps)
  <2>1. s = [i \in 1..(3 * n) |-> s[i]] BY <1>2 DEF s, MarkerSteps, n
  <2>2. 3 * n \in Nat BY <1>1
  <2> HIDE DEF s
  <2> QED BY <1>7, <2>1, <2>2
<1>9. ASSUME NEW i \in 1..(3 * n), s[i].kind = "open"
      PROVE  /\ i + 2 \in 1..(3 * n)
             /\ Rank(s[i + 1]) = Rank(s[i]) /\ s[i + 1].kind = "write"
             /\ Rank(s[i + 2]) = Rank(s[i]) /\ s[i + 2].kind = "sync"
  <2>1. Place(i) = 1
    <3>1. Place(i) \in {1, 2, 3} BY <1>3
    <3> QED BY <1>7, <1>9, <3>1
  <2>2. i + 1 \in 1..(3 * n) /\ i + 2 \in 1..(3 * n) /\ Place(i + 1) = 2 /\ Place(i + 2) = 3
    BY <1>4, <2>1
  <2> QED BY <1>7, <2>2
<1>10. Adjacent(s) BY <1>2, <1>9 DEF Adjacent
<1>11. ASSUME NEW k \in 1..n PROVE Includes(s, Step("open", "marker", order[k]))
  BY <1>2, <1>5, <1>6 DEF Includes
<1> QED BY <1>2, <1>7, <1>8, <1>10, <1>11 DEF s, n

(* Two parts of a script, one behind the other. *)
LEMMA Behind ==
  ASSUME NEW s \in Seq(BootSteps), NEW t \in Seq(BootSteps),
         Sorted(s), Sorted(t), Adjacent(s), Adjacent(t),
         \A i \in DOMAIN s, j \in DOMAIN t : Rank(s[i]) <= Rank(t[j])
  PROVE  /\ s \o t \in Seq(BootSteps) /\ Sorted(s \o t) /\ Adjacent(s \o t)
         /\ DOMAIN (s \o t) = 1..(Len(s) + Len(t))
         /\ \A i \in DOMAIN (s \o t) : (s \o t)[i] = IF i <= Len(s) THEN s[i] ELSE t[i - Len(s)]
         /\ \A x : Includes(s, x) \/ Includes(t, x) => Includes(s \o t, x)
<1> DEFINE u == s \o t
           m == Len(s)
           n == Len(t)
<1>1. m \in Nat /\ n \in Nat /\ DOMAIN s = 1..m /\ DOMAIN t = 1..n OBVIOUS
<1>2. /\ u \in Seq(BootSteps) /\ DOMAIN u = 1..(m + n)
      /\ \A i \in 1..(m + n) : u[i] = IF i <= m THEN s[i] ELSE t[i - m]
  OBVIOUS
<1>3. /\ \A i \in 1..m : i \in 1..(m + n) /\ u[i] = s[i]
      /\ \A i \in 1..n : i + m \in 1..(m + n) /\ u[i + m] = t[i]
      /\ \A i \in 1..(m + n) : i \in 1..m \/ (i - m \in 1..n /\ i > m)
  BY <1>1, <1>2
<1> HIDE DEF u, m, n
<1>4. ASSUME NEW i \in 1..(m + n), NEW j \in 1..(m + n), i < j PROVE Rank(u[i]) <= Rank(u[j])
  <2>1. CASE j \in 1..m
    <3>1. i \in 1..m BY <1>4, <1>1, <2>1
    <3> QED BY <1>1, <1>3, <1>4, <2>1, <3>1 DEF Sorted
  <2>2. CASE i \notin 1..m
    <3>1. i - m \in 1..n /\ j - m \in 1..n /\ i - m < j - m BY <1>1, <1>3, <1>4, <2>2
    <3>2. u[i] = t[i - m] /\ u[j] = t[j - m] BY <1>2, <2>2, <1>1, <1>4
    <3> QED BY <1>1, <3>1, <3>2 DEF Sorted
  <2>3. CASE i \in 1..m /\ j \notin 1..m
    <3>1. j - m \in 1..n /\ u[j] = t[j - m] /\ u[i] = s[i] BY <1>1, <1>2, <1>3, <2>3
    <3> QED BY <1>1, <3>1, <2>3
  <2> QED BY <2>1, <2>2, <2>3
<1>5. ASSUME NEW i \in 1..(m + n), u[i].kind = "open"
      PROVE  /\ i + 2 \in 1..(m + n)
             /\ Rank(u[i + 1]) = Rank(u[i]) /\ u[i + 1].kind = "write"
             /\ Rank(u[i + 2]) = Rank(u[i]) /\ u[i + 2].kind = "sync"
  <2>1. CASE i \in 1..m
    <3>1. /\ i + 2 \in 1..m
          /\ Rank(s[i + 1]) = Rank(s[i]) /\ s[i + 1].kind = "write"
          /\ Rank(s[i + 2]) = Rank(s[i]) /\ s[i + 2].kind = "sync"
      BY <1>1, <1>3, <1>5, <2>1 DEF Adjacent
    <3>2. i + 1 \in 1..m BY <1>1, <2>1, <3>1
    <3>3. u[i] = s[i] /\ u[i + 1] = s[i + 1] /\ u[i + 2] = s[i + 2] BY <1>3, <2>1, <3>1, <3>2
    <3> QED BY <1>3, <3>1, <3>3
  <2>2. CASE i \notin 1..m
    <3>1. PICK k \in 1..n : i = k + m BY <1>1, <1>3, <2>2
    <3>2. u[k + m] = t[k] BY <1>3
    <3>3. /\ k + 2 \in 1..n
          /\ Rank(t[k + 1]) = Rank(t[k]) /\ t[k + 1].kind = "write"
          /\ Rank(t[k + 2]) = Rank(t[k]) /\ t[k + 2].kind = "sync"
      BY <1>1, <1>5, <3>1, <3>2, SMTT(20) DEF Adjacent
    <3>4. k + 1 \in 1..n BY <1>1, <3>3
    <3>5. i + 1 = (k + 1) + m /\ i + 2 = (k + 2) + m BY <1>1, <3>1
    <3> QED BY <1>3, <3>1, <3>2, <3>3, <3>4, <3>5
  <2> QED BY <2>1, <2>2
<1>6. \A x : Includes(s, x) \/ Includes(t, x) => Includes(u, x)
  BY <1>1, <1>2, <1>3 DEF Includes
<1>7. Sorted(u) /\ Adjacent(u) BY <1>2, <1>4, <1>5 DEF Sorted, Adjacent
<1> QED BY <1>2, <1>6, <1>7 DEF u, m, n

AtMost(s, r) == \A i \in DOMAIN s : Rank(s[i]) <= r
Level(s, r)  == \A i \in DOMAIN s : Rank(s[i]) = r

LEMMA Chained ==
  ASSUME NEW s \in Seq(BootSteps), NEW t \in Seq(BootSteps), NEW r \in Nat, NEW q \in Nat, r <= q,
         Sorted(s), Adjacent(s), Adjacent(t),
         AtMost(s, r), Level(t, q)
  PROVE  /\ s \o t \in Seq(BootSteps) /\ Sorted(s \o t) /\ Adjacent(s \o t)
         /\ AtMost(s \o t, q)
         /\ \A x : Includes(s, x) \/ Includes(t, x) => Includes(s \o t, x)
<1>1. \A x \in BootSteps : Rank(x) \in Nat BY DEF Rank
<1>2. \A i \in DOMAIN s : Rank(s[i]) \in Nat /\ Rank(s[i]) <= q BY <1>1 DEF AtMost
<1>3. Sorted(t) BY DEF Sorted, Level
<1>4. \A i \in DOMAIN s, j \in DOMAIN t : Rank(s[i]) <= Rank(t[j]) BY <1>2 DEF Level
<1>5. /\ s \o t \in Seq(BootSteps) /\ Sorted(s \o t) /\ Adjacent(s \o t)
      /\ DOMAIN (s \o t) = 1..(Len(s) + Len(t))
      /\ \A i \in DOMAIN (s \o t) : (s \o t)[i] = IF i <= Len(s) THEN s[i] ELSE t[i - Len(s)]
      /\ \A x : Includes(s, x) \/ Includes(t, x) => Includes(s \o t, x)
  BY <1>3, <1>4, Behind
<1>6. ASSUME NEW i \in 1..(Len(s) + Len(t))
      PROVE  IF i <= Len(s) THEN i \in DOMAIN s ELSE i - Len(s) \in DOMAIN t
  <2>1. Len(s) \in Nat /\ Len(t) \in Nat /\ DOMAIN s = 1..Len(s) /\ DOMAIN t = 1..Len(t) OBVIOUS
  <2> QED BY <2>1
<1>7. AtMost(s \o t, q) BY <1>2, <1>5, <1>6 DEF AtMost, Level
<1> QED BY <1>5, <1>7

LEMMA BootScriptFacts ==
  /\ BootScript \in Seq(BootSteps) /\ Sorted(BootScript) /\ Adjacent(BootScript)
  /\ Includes(BootScript, Step("syncActive", "marker", NoOp))
  /\ \A o \in Journals : ~ Terminal(o) => Includes(BootScript, Step("open", "marker", o))
<1> DEFINE S == {o \in Journals : ~ Terminal(o)}
           U == {Step("unlink", "reserve", o) : o \in Reserved}
           a == MarkerSteps(SetToSeq(S))
           b == SetToSeq(U)
           c == IF Reserved = {} THEN <<>> ELSE <<Step("syncReports", "reserve", NoOp)>>
           d == <<Step("syncActive", "marker", NoOp)>>
           e == CreateSteps("index", NoOp)
           f == <<Step("syncActive", "index", NoOp)>>
<1>1. /\ SetToSeq(S) \in Seq(OperationIds)
      /\ \A o \in S : \E i \in 1..Len(SetToSeq(S)) : SetToSeq(S)[i] = o
  <2>1. S \subseteq OperationIds /\ IsFiniteSet(S)
    BY ReportFilesAssumption, FS_Subset DEF Journals
  <2>2. SetToSeq(S) \in Seq(S) /\ \A o \in S : \E i \in 1..Len(SetToSeq(S)) : SetToSeq(S)[i] = o
    BY <2>1, SetToSeqFacts
  <2> QED BY <2>1, <2>2
<1>2. /\ a \in Seq(BootSteps) /\ Adjacent(a) /\ Level(a, 1)
      /\ \A o \in S : Includes(a, Step("open", "marker", o))
  BY <1>1, MarkerStepsFacts DEF Level
<1>3. b \in Seq(BootSteps) /\ Adjacent(b) /\ Level(b, 2)
  <2>1. Reserved \subseteq OperationIds /\ IsFiniteSet(Reserved)
    BY ReportFilesAssumption, FS_Subset DEF Reserved
  <2>2. [o \in Reserved |-> Step("unlink", "reserve", o)] \in Surjection(Reserved, U)
    BY DEF Surjection
  <2>3. IsFiniteSet(U) BY <2>1, <2>2, FS_Surjection
  <2>4. b \in Seq(U) BY <2>3, SetToSeqFacts
  <2>5. \A x \in U : x \in BootSteps /\ x.kind = "unlink" /\ Rank(x) = 2
    BY <2>1 DEF Step, BootSteps, Rank
  <2> HIDE DEF b, U
  <2>6. b \in Seq(BootSteps) /\ \A i \in DOMAIN b : b[i] \in U BY <2>4, <2>5
  <2> QED BY <2>5, <2>6 DEF Adjacent, Level
<1>4. c \in Seq(BootSteps) /\ Adjacent(c) /\ Level(c, 2)
  <2>1. LET x == Step("syncReports", "reserve", NoOp)
        IN  x \in BootSteps /\ x.kind # "open" /\ Rank(x) = 2
    BY DEF Step, BootSteps, Rank
  <2> QED BY <2>1 DEF Adjacent, Level
<1>5. /\ d \in Seq(BootSteps) /\ Adjacent(d) /\ Level(d, 3)
      /\ Includes(d, Step("syncActive", "marker", NoOp))
  <2>1. LET x == Step("syncActive", "marker", NoOp)
        IN  x \in BootSteps /\ x.kind # "open" /\ Rank(x) = 3
    BY DEF Step, BootSteps, Rank
  <2> QED BY <2>1 DEF Adjacent, Includes, Level
<1>6. e \in Seq(BootSteps) /\ Adjacent(e) /\ Level(e, 4)
  <2>1. \A kind \in {"open", "write", "sync"} :
          LET x == Step(kind, "index", NoOp) IN x \in BootSteps /\ x.kind = kind /\ Rank(x) = 4
    BY DEF Step, BootSteps, Rank
  <2>2. /\ DOMAIN e = 1..3 /\ e[1] = Step("open", "index", NoOp)
        /\ e[2] = Step("write", "index", NoOp) /\ e[3] = Step("sync", "index", NoOp)
        /\ e \in Seq(BootSteps)
    BY <2>1 DEF CreateSteps
  <2> HIDE DEF e
  <2>3. \A i \in 1..3 : Rank(e[i]) = 4 BY <2>1, <2>2
  <2>4. \A i \in 1..3 : e[i].kind = "open" => i = 1 BY <2>1, <2>2
  <2> QED BY <2>1, <2>2, <2>3, <2>4 DEF Adjacent, Level
<1>7. f \in Seq(BootSteps) /\ Adjacent(f) /\ Level(f, 4)
  <2>1. LET x == Step("syncActive", "index", NoOp)
        IN  x \in BootSteps /\ x.kind # "open" /\ Rank(x) = 4
    BY DEF Step, BootSteps, Rank
  <2> QED BY <2>1 DEF Adjacent, Level
<1>8. Sorted(a) /\ AtMost(a, 1)
  <2>1. Level(a, 1) BY <1>2
  <2> HIDE DEF a
  <2> QED BY <2>1 DEF Sorted, Level, AtMost
<1>9. BootScript = a \o b \o c \o d \o e \o f BY DEF BootScript
<1>10. \A o \in Journals : ~ Terminal(o) => o \in S OBVIOUS
<1> HIDE DEF S, U, a, b, c, d, e, f
<1>11. /\ a \o b \in Seq(BootSteps) /\ Sorted(a \o b) /\ Adjacent(a \o b)
       /\ AtMost(a \o b, 2)
       /\ \A x : Includes(a, x) => Includes(a \o b, x)
  BY <1>2, <1>3, <1>8, Chained
<1> DEFINE ab == a \o b
<1> HIDE DEF ab
<1>12. /\ ab \o c \in Seq(BootSteps) /\ Sorted(ab \o c) /\ Adjacent(ab \o c)
       /\ AtMost(ab \o c, 2)
       /\ \A x : Includes(ab, x) => Includes(ab \o c, x)
  <2>1. ab \in Seq(BootSteps) /\ Sorted(ab) /\ Adjacent(ab) /\ AtMost(ab, 2)
    BY <1>11 DEF ab
  <2> QED BY <1>4, <2>1, Chained
<1> DEFINE abc == ab \o c
<1> HIDE DEF abc
<1>13. /\ abc \o d \in Seq(BootSteps) /\ Sorted(abc \o d) /\ Adjacent(abc \o d)
       /\ AtMost(abc \o d, 3)
       /\ \A x : Includes(abc, x) \/ Includes(d, x) => Includes(abc \o d, x)
  <2>1. abc \in Seq(BootSteps) /\ Sorted(abc) /\ Adjacent(abc) /\ AtMost(abc, 2)
    BY <1>12 DEF abc
  <2> QED BY <1>5, <2>1, Chained
<1> DEFINE abcd == abc \o d
<1> HIDE DEF abcd
<1>14. /\ abcd \o e \in Seq(BootSteps) /\ Sorted(abcd \o e) /\ Adjacent(abcd \o e)
       /\ AtMost(abcd \o e, 4)
       /\ \A x : Includes(abcd, x) => Includes(abcd \o e, x)
  <2>1. /\ abcd \in Seq(BootSteps) /\ Sorted(abcd) /\ Adjacent(abcd)
        /\ AtMost(abcd, 3)
    BY <1>13 DEF abcd
  <2> QED BY <1>6, <2>1, Chained
<1> DEFINE abcde == abcd \o e
<1> HIDE DEF abcde
<1>15. /\ abcde \o f \in Seq(BootSteps) /\ Sorted(abcde \o f) /\ Adjacent(abcde \o f)
       /\ \A x : Includes(abcde, x) => Includes(abcde \o f, x)
  <2>1. /\ abcde \in Seq(BootSteps) /\ Sorted(abcde) /\ Adjacent(abcde)
        /\ AtMost(abcde, 4)
    BY <1>14 DEF abcde
  <2> QED BY <1>7, <2>1, Chained
<1>16. BootScript = abcde \o f BY <1>9 DEF ab, abc, abcd, abcde
<1>17. \A x : Includes(a, x) \/ Includes(d, x) => Includes(BootScript, x)
  BY <1>11, <1>12, <1>13, <1>14, <1>15, <1>16 DEF ab, abc, abcd, abcde
<1> QED BY <1>2, <1>5, <1>10, <1>15, <1>16, <1>17

-----------------------------------------------------------------------------
(* Startup. *)

Rest == call = NoCall /\ leader = NoLeader /\ group = {} /\ outside = {} /\ holders = {}

LEMMA BecomeFacts ==
  ASSUME proc \in Procs, NEW p \in Phases, Become(p)
  PROVE  /\ proc' \in Procs /\ proc'.phase = p /\ proc'.todo = <<>> /\ proc'.op = proc.op
         /\ proc'.attempts = proc.attempts /\ proc'.event = proc.event /\ proc'.failed = proc.failed
         /\ proc'.content = proc.content /\ proc'.cause = proc.cause
<1>1. <<>> \in Seq(Steps) OBVIOUS
<1> QED BY <1>1 DEF Procs, Become

LEMMA EndFacts ==
  ASSUME End
  PROVE  proc' \in Procs /\ proc'.phase = "idle" /\ proc'.attempts = 0
BY ContentFacts DEF End, NoProcess, Procs, Phases

LEMMA RestFacts ==
  ASSUME IInv, Elsewhere, ~ In("command")
  PROVE  Rest' /\ UNCHANGED <<ran, loose>>
BY DEF IInv, Commanding, Elsewhere, Rest, runnerVars

LEMMA RestCommanding ==
  ASSUME Rest', proc'.phase # "command"
  PROVE  Commanding'
BY CommandRunnerAssumption
   DEF Rest, Commanding, Calling, RunnerTypeOK, NoCall, NoLeader, CallPlaces, Reasons, Results, At,
       Quiet, Running, Stuck, In

(* Before the work of an operation begins, and when it is over, little is to be shown. *)
LEMMA Quietly ==
  ASSUME Data', proc' \in Procs, Rest', proc'.attempts = 0,
         proc'.phase \in {"idle", "cleanup", "scan", "refused"}
           \/ (proc'.phase = "boot" /\ proc'.todo = <<>>)
  PROVE  IInv'
<1>1. Commanding' BY RestCommanding
<1>2. Booting' /\ Reserving' /\ Undoing' BY DEF Booting, Reserving, Undoing, In
<1>3. Operating' BY DEF Operating, Working, WorkPhases
<1>4. Reversible' /\ Reporting' BY DEF Reversible, Reporting, Unreported, Appending, In
<1> QED BY <1>1, <1>2, <1>3, <1>4 DEF IInv

LEMMA Unstarted == ASSUME IInv, ~ Working PROVE proc \in Procs /\ proc.attempts = 0 /\ Data
BY DEF IInv, Operating

LEMMA StartStep == ASSUME IInv, Start, Elsewhere PROVE IInv'
<1>1. ~ Working /\ ~ In("command") BY DEF Start, In, Working, WorkPhases
<1>2. Rest' /\ UNCHANGED <<ran, loose>> BY <1>1, RestFacts
<1>3. Data' BY <1>1, <1>2, Unstarted, DataSame DEF Start
<1>4. proc' \in Procs /\ proc'.phase = "boot" /\ proc'.todo = <<>> /\ proc'.attempts = 0
  BY <1>1, Unstarted, BecomeFacts DEF Start, Phases
<1> QED BY <1>2, <1>3, <1>4, Quietly

LEMMA RefusedStep == ASSUME IInv, Refused, Elsewhere PROVE IInv'
<1>1. ~ Working /\ ~ In("command") BY DEF Refused, In, Working, WorkPhases
<1>2. Rest' /\ UNCHANGED <<ran, loose>> BY <1>1, RestFacts
<1>3. Data' BY <1>1, <1>2, Unstarted, DataSame DEF Refused
<1> QED BY <1>2, <1>3, EndFacts, Quietly DEF Refused

LEMMA RepairedFacts ==
  ASSUME Typed, NEW ops, \A o \in ops \cap OperationIds : Readable(file[o].journal)
  PROVE  /\ RepairedFiles(ops) \in [OperationIds -> [Names -> File(Contents)]]
         /\ \A o \in OperationIds :
              LET r == RepairedFiles(ops)[o]
              IN  /\ \A n \in Names : n # "journal" => r[n] = file[o][n]
                  /\ \/ r.journal = file[o].journal
                     \/ /\ r.journal.kept = {r.journal.seen} /\ ~ r.journal.seen.torn
                        /\ r.journal.seen.lines = file[o].journal.seen.lines
                        /\ r.journal.seen.lines # <<>>
<1> DEFINE R == RepairedFiles(ops)
<1>1. ASSUME NEW o \in OperationIds
      PROVE  /\ R[o] \in [Names -> File(Contents)]
             /\ \A n \in Names : n # "journal" => R[o][n] = file[o][n]
             /\ \/ R[o].journal = file[o].journal
                \/ /\ R[o].journal.kept = {R[o].journal.seen} /\ ~ R[o].journal.seen.torn
                   /\ R[o].journal.seen.lines = file[o].journal.seen.lines
                   /\ R[o].journal.seen.lines # <<>>
  <2>1. file[o] \in [Names -> File(Contents)] BY DEF Typed
  <2>2. CASE ~ (o \in ops /\ file[o].journal.seen.torn)
    BY <2>1, <2>2 DEF RepairedFiles
  <2>3. CASE o \in ops /\ file[o].journal.seen.torn
    <3> DEFINE c == [file[o].journal.seen EXCEPT !.torn = FALSE]
               g == Repaired(file[o].journal)
    <3>1. file[o].journal \in File(Contents) /\ file[o].journal.seen \in Contents
      BY <2>1 DEF Names, File
    <3>2. c \in Contents /\ c.lines = file[o].journal.seen.lines /\ ~ c.torn BY <3>1 DEF Contents
    <3>3. g = OnDisk(c) BY DEF Repaired
    <3>4. g \in File(Contents) /\ g.seen = c /\ g.kept = {c} BY <3>2, <3>3 DEF OnDisk, File
    <3>5. R[o] = [file[o] EXCEPT !["journal"] = g] BY <2>3 DEF RepairedFiles
    <3> HIDE DEF c, g, R
    <3>6. R[o] \in [Names -> File(Contents)] /\ R[o]["journal"] = g
          /\ \A n \in Names : n # "journal" => R[o][n] = file[o][n]
      BY <2>1, <3>4, <3>5 DEF Names
    <3>7. file[o].journal.seen.lines # <<>> BY <2>3 DEF Readable
    <3>8. R[o].journal = g BY <3>6
    <3>9. /\ R[o].journal.kept = {R[o].journal.seen} /\ ~ R[o].journal.seen.torn
          /\ R[o].journal.seen.lines = file[o].journal.seen.lines /\ R[o].journal.seen.lines # <<>>
      BY <3>2, <3>4, <3>7, <3>8
    <3> QED BY <3>6, <3>9
  <2> QED BY <2>2, <2>3
<1>2. DOMAIN R = OperationIds /\ R = [o \in OperationIds |-> R[o]] BY DEF RepairedFiles
<1> HIDE DEF R
<1>3. R \in [OperationIds -> [Names -> File(Contents)]] BY <1>1, <1>2
<1> QED BY <1>1, <1>3 DEF R

LEMMA Scripting ==
  ASSUME Data', proc' \in Procs, Rest', proc'.attempts = 0,
         proc'.phase \in {"boot", "reserve", "undo"}, Booting', Reserving', Undoing'
  PROVE  IInv'
<1>1. Commanding' BY RestCommanding
<1>2. Operating' BY DEF Operating, Working, WorkPhases
<1>3. Reversible' /\ Reporting' BY DEF Reversible, Reporting, Unreported, Appending, In
<1> QED BY <1>1, <1>2, <1>3 DEF IInv

LEMMA TallyPositive ==
  ASSUME NEW s, NEW e, Tally(s, e) # 0
  PROVE  \E i \in DOMAIN s : s[i] = e
<1>1. SUFFICES ASSUME \A i \in DOMAIN s : s[i] # e PROVE FALSE OBVIOUS
<1>2. {i \in DOMAIN s : s[i] = e} = {} BY <1>1
<1> QED BY <1>2, FS_EmptySet DEF Tally

(* An operation that needs its marker has a journal, and one that is not terminal. *)
LEMMA NeededFacts ==
  ASSUME Data, NEW o \in OperationIds, Needed(o)
  PROVE  o \in Journals /\ ~ Terminal(o)
<1> DEFINE c == file[o].journal.seen
<1>1. Shaped(o) /\ Accounted(o) /\ Reported(o) /\ ran[o] \in Nat BY DEF Data, Lasting, Typed
<1>2. c \in file[o].journal.kept /\ c.lines \in Seq(Events) /\ Fits(o, c.lines)
  BY <1>1 DEF Shaped, Accounted, Names
<1>3. ran[o] <= Begun(c.lines) /\ ran[o] > 0 /\ Begun(c.lines) \in Nat
  BY <1>2, TallyNat DEF Fits, Needed, Begun
<1>4. \E i \in DOMAIN c.lines : c.lines[i] = "command-started"
  <2>1. Begun(c.lines) # 0 BY <1>1, <1>3
  <2> QED BY <2>1, TallyPositive DEF Begun
<1>5. c # Absent
  <2>1. Begun(<<>>) = 0 BY TallyEmpty DEF Begun
  <2> QED BY <1>1, <1>3, <2>1, DistinctContents
<1>6. Holds(c, "command-started") BY <1>4 DEF Holds
<1>7. ASSUME Terminal(o) PROVE FALSE
  <2>1. Done(c) /\ file[o].report.seen = Final BY <1>6, <1>7 DEF Terminal, Done
  <2>2. file[o].report.kept = {Final} BY <1>1, <1>2, <2>1 DEF Reported
  <2> QED BY <2>2 DEF Needed
<1> QED BY <1>5, <1>7 DEF Journals, Exists

LEMMA BootStepsFacts ==
  /\ BootSteps \subseteq Steps
  /\ \A s \in BootSteps : /\ s.kind # "capacity"
                          /\ s.name \in {"marker", "reserve", "index"} /\ Rank(s) \in 1..4
                          /\ s.kind \in {"open", "write", "sync"} => s.name \in {"marker", "index"}
                          /\ s.kind \in {"open", "write", "sync", "unlink"} /\ s.name # "index" =>
                               s.op \in OperationIds
                          /\ s.kind = "unlink" => s.name = "reserve"
                          /\ s.name = "marker" /\ s.kind # "syncActive" => Rank(s) = 1
                          /\ s.kind = "syncActive" /\ s.name = "marker" =>
                               s = Step("syncActive", "marker", NoOp) /\ Rank(s) = 3
                          /\ s.name = "index" => Rank(s) = 4
                          /\ s.kind = "open" /\ s.name = "marker" => s = Step("open", "marker", s.op)
BY DEF BootSteps, Steps, Step, Names, Rank

LEMMA ReadIndexStep == ASSUME IInv, ReadIndex, Elsewhere PROVE IInv'
<1>1. ~ Working /\ ~ In("command") BY DEF ReadIndex, In, Working, WorkPhases
<1>2. Rest' /\ UNCHANGED <<ran, loose>> BY <1>1, RestFacts
<1>3. proc \in Procs /\ proc.attempts = 0 /\ Data BY <1>1, Unstarted
<1>4. ASSUME UNCHANGED file, NEW p \in {"cleanup", "refused"}, Become(p) PROVE IInv'
  <2>1. Data' BY <1>2, <1>3, <1>4, DataSame DEF ReadIndex
  <2>2. proc' \in Procs /\ proc'.phase = p /\ proc'.attempts = 0
    BY <1>3, <1>4, BecomeFacts DEF Phases
  <2> QED BY <1>2, <1>4, <2>1, <2>2, Quietly
<1>5. ASSUME index.seen = Absent, \A o \in Journals : Readable(file[o].journal),
             file' = RepairedFiles(Journals), proc' = [proc EXCEPT !.todo = BootScript]
      PROVE  IInv'
  <2>1. /\ file' \in [OperationIds -> [Names -> File(Contents)]]
        /\ \A o \in OperationIds :
             /\ \A n \in Names : n # "journal" => file'[o][n] = file[o][n]
             /\ \/ file'[o].journal = file[o].journal
                \/ /\ file'[o].journal.kept = {file'[o].journal.seen}
                   /\ file'[o].journal.seen.lines = file[o].journal.seen.lines
    BY <1>3, <1>5, RepairedFacts DEF Data
  <2>2. ASSUME NEW o \in OperationIds
        PROVE  /\ \A n \in Names : file'[o][n].seen \in file'[o][n].kept
               /\ \A c \in file'[o].journal.kept : \E d \in file[o].journal.kept : c.lines = d.lines
               /\ file'[o].report = file[o].report
               /\ file'[o].marker.kept \cup file'[o].reserve.kept \subseteq {Absent, Torn, Whole}
               /\ Whole \in index.kept /\ Needed(o) => Absent \notin file'[o].marker.kept
    <3>1. Shaped(o) /\ Remembered(o) BY <1>3 DEF Data, Lasting
    <3>2. /\ file'[o].report = file[o].report /\ file'[o].marker = file[o].marker
          /\ file'[o].reserve = file[o].reserve
      BY <2>1 DEF Names
    <3>3. file'[o].journal.seen \in file'[o].journal.kept
      BY <2>1, <3>1 DEF Shaped, Names
    <3>4. \A n \in Names : file'[o][n].seen \in file'[o][n].kept
      BY <2>1, <3>1, <3>3 DEF Shaped, Names
    <3>5. \A c \in file'[o].journal.kept : \E d \in file[o].journal.kept : c.lines = d.lines
      BY <2>1, <3>1 DEF Shaped, Names
    <3> QED BY <3>1, <3>2, <3>4, <3>5 DEF Shaped, Remembered
  <2>3. Data' BY <1>2, <1>3, <2>1, <2>2, DataRepaired DEF ReadIndex
  <2>4. /\ BootScript \in Seq(BootSteps) /\ Sorted(BootScript) /\ Adjacent(BootScript)
        /\ Includes(BootScript, Step("syncActive", "marker", NoOp))
        /\ \A o \in Journals : ~ Terminal(o) => Includes(BootScript, Step("open", "marker", o))
    BY BootScriptFacts
  <2> DEFINE b == BootScript
  <2>5. \A o \in OperationIds : Needed(o) => Includes(b, Step("open", "marker", o))
    BY <1>3, <2>4, NeededFacts
  <2>6. /\ b \in Seq(BootSteps) /\ Sorted(b) /\ Adjacent(b) /\ b \in Seq(Steps)
        /\ Includes(b, Step("syncActive", "marker", NoOp))
        /\ proc' = [proc EXCEPT !.todo = b]
    BY <1>5, <2>4, BootStepsFacts
  <2> HIDE DEF b
  <2>7. proc' \in Procs /\ proc'.phase = "boot" /\ proc'.todo = b /\ proc'.attempts = 0
    BY <1>3, <2>6 DEF Procs, ReadIndex, In
  <2>8. Whole \notin index'.kept
    BY <1>3, <1>5, DistinctContents DEF Data, IndexShaped, ReadIndex
  <2>9. \A o \in OperationIds : Needed(o)' => Needed(o) BY <1>2, <2>2 DEF Needed
  <2>10. Booting' BY <2>5, <2>6, <2>7, <2>8, <2>9 DEF Booting, In
  <2>11. Reserving' /\ Undoing' BY <2>7 DEF Reserving, Undoing, In
  <2> QED BY <1>2, <2>3, <2>7, <2>10, <2>11, Scripting
<1> QED BY <1>4, <1>5 DEF ReadIndex

LEMMA CleanupStep == ASSUME IInv, CleanupReserves, Elsewhere PROVE IInv'
<1>1. ~ Working /\ ~ In("command") BY DEF CleanupReserves, In, Working, WorkPhases
<1>2. Rest' /\ UNCHANGED <<ran, loose>> BY <1>1, RestFacts
<1>3. proc \in Procs /\ proc.attempts = 0 /\ Data BY <1>1, Unstarted
<1>4. ASSUME NEW p \in {"scan", "refused"}, Become(p), Data' PROVE IInv'
  <2>1. proc' \in Procs /\ proc'.phase = p /\ proc'.attempts = 0
    BY <1>3, <1>4, BecomeFacts DEF Phases
  <2> QED BY <1>2, <1>4, <2>1, Quietly
<1>5. CASE UNCHANGED file BY <1>2, <1>3, <1>4, <1>5, DataSame DEF CleanupReserves
<1>6. CASE file' = [o \in OperationIds |->
                      IF o \in Marked \cap Reserved
                      THEN [file[o] EXCEPT !.reserve = EntrySynced(Unlinked(@))] ELSE file[o]]
  <2>1. ASSUME NEW o \in OperationIds
        PROVE  /\ file'[o] \in [Names -> File(Contents)]
               /\ \A n \in Names : n # "reserve" => file'[o][n] = file[o][n]
               /\ file'[o].reserve.seen \in file'[o].reserve.kept
               /\ file'[o].reserve.kept \subseteq {Absent, Torn, Whole}
    <3>1. file[o] \in [Names -> File(Contents)] /\ Shaped(o) BY <1>3 DEF Data, Typed, Lasting
    <3>2. CASE file'[o] = file[o] BY <3>1, <3>2 DEF Shaped, Names
    <3>3. CASE file'[o] = [file[o] EXCEPT !.reserve = EntrySynced(Unlinked(@))]
      <4> DEFINE f == file[o].reserve
                 g == EntrySynced(Unlinked(f))
      <4>1. f \in File(Contents) /\ f.seen \in f.kept /\ f.kept \subseteq {Absent, Torn, Whole}
        BY <3>1 DEF Names, Shaped
      <4>2. Unlinked(f) \in File(Contents) /\ Unlinked(f).seen = Absent
            /\ Unlinked(f).kept = f.kept \cup {Absent}
        BY <4>1, EntryFacts
      <4>3. g \in File(Contents) /\ g.seen \in g.kept /\ g.kept \subseteq {Absent, Torn, Whole}
        BY <4>1, <4>2, EntryFacts
      <4>4. file'[o] = [file[o] EXCEPT !["reserve"] = g] BY <3>3
      <4> HIDE DEF g
      <4>5. file'[o] \in [Names -> File(Contents)] /\ file'[o]["reserve"] = g
            /\ \A n \in Names : n # "reserve" => file'[o][n] = file[o][n]
        BY <3>1, <4>3, <4>4 DEF Names
      <4>6. file'[o].reserve = g BY <4>5
      <4> QED BY <4>3, <4>5, <4>6
    <3> QED BY <1>6, <3>2, <3>3
  <2>2. file' \in [OperationIds -> [Names -> File(Contents)]] BY <1>6, <2>1
  <2>3. ASSUME NEW o \in OperationIds
        PROVE  /\ \A n \in Names : file'[o][n].seen \in file'[o][n].kept
               /\ \A c \in file'[o].journal.kept : \E d \in file[o].journal.kept : c.lines = d.lines
               /\ file'[o].report = file[o].report
               /\ file'[o].marker.kept \cup file'[o].reserve.kept \subseteq {Absent, Torn, Whole}
               /\ Whole \in index.kept /\ Needed(o) => Absent \notin file'[o].marker.kept
    <3>1. Shaped(o) /\ Remembered(o) BY <1>3 DEF Data, Lasting
    <3>2. /\ file'[o].report = file[o].report /\ file'[o].marker = file[o].marker
          /\ file'[o].journal = file[o].journal
      BY <2>1 DEF Names
    <3> QED BY <2>1, <3>1, <3>2 DEF Shaped, Remembered, Names
  <2>4. Data' BY <1>2, <1>3, <2>2, <2>3, DataRepaired DEF CleanupReserves
  <2> QED BY <1>4, <2>4 DEF CleanupReserves
<1> QED BY <1>5, <1>6 DEF CleanupReserves

LEMMA Extended1 ==
  ASSUME NEW s \in Seq(Steps), NEW x \in Steps
  PROVE  LET u == s \o <<x>>
         IN  /\ u \in Seq(Steps) /\ Len(u) = Len(s) + 1 /\ \A i \in 1..Len(s) : u[i] = s[i]
             /\ u[Len(s) + 1] = x
OBVIOUS

LEMMA Extended2 ==
  ASSUME NEW s \in Seq(Steps), NEW o \in OperationIds
  PROVE  LET u == s \o <<Step("syncReports", "reserve", o), Step("capacity", "reserve", o)>>
         IN  /\ u \in Seq(Steps) /\ Len(u) = Len(s) + 2 /\ \A i \in 1..Len(s) : u[i] = s[i]
             /\ u[Len(s) + 1] = Step("syncReports", "reserve", o)
             /\ u[Len(s) + 2] = Step("capacity", "reserve", o)
<1> DEFINE x == Step("syncReports", "reserve", o)
           y == Step("capacity", "reserve", o)
<1>1. x \in Steps /\ y \in Steps BY DEF Step, Steps, Names
<1> HIDE DEF x, y
<1>2. LET u == s \o <<x, y>>
      IN  /\ u \in Seq(Steps) /\ Len(u) = Len(s) + 2 /\ \A i \in 1..Len(s) : u[i] = s[i]
          /\ u[Len(s) + 1] = x /\ u[Len(s) + 2] = y
  BY <1>1
<1> QED BY <1>2 DEF x, y

LEMMA Extended3 ==
  ASSUME NEW s \in Seq(Steps), NEW o \in OperationIds, NEW name \in Names
  PROVE  LET u == s \o CreateSteps(name, o)
         IN  /\ u \in Seq(Steps) /\ Len(u) = Len(s) + 3 /\ \A i \in 1..Len(s) : u[i] = s[i]
             /\ u[Len(s) + 1] = Step("open", name, o) /\ u[Len(s) + 2] = Step("write", name, o)
             /\ u[Len(s) + 3] = Step("sync", name, o)
<1> DEFINE x == Step("open", name, o)
           y == Step("write", name, o)
           z == Step("sync", name, o)
<1>1. x \in Steps /\ y \in Steps /\ z \in Steps BY DEF Step, Steps
<1>2. CreateSteps(name, o) = <<x, y, z>> BY DEF CreateSteps
<1> HIDE DEF x, y, z
<1>3. LET u == s \o <<x, y, z>>
      IN  /\ u \in Seq(Steps) /\ Len(u) = Len(s) + 3 /\ \A i \in 1..Len(s) : u[i] = s[i]
          /\ u[Len(s) + 1] = x /\ u[Len(s) + 2] = y /\ u[Len(s) + 3] = z
  BY <1>1
<1> QED BY <1>2, <1>3 DEF x, y, z

LEMMA ReserveScriptFacts ==
  ASSUME NEW o \in OperationIds
  PROVE  /\ ReserveScript(o) \in Seq(Steps) /\ Len(ReserveScript(o)) = 16
         /\ ReserveScript(o)[1] = Step("open", "report", o)
         /\ ReserveScript(o)[2] = Step("write", "report", o)
         /\ ReserveScript(o)[3] = Step("sync", "report", o)
         /\ ReserveScript(o)[4] = Step("open", "journal", o)
         /\ ReserveScript(o)[5] = Step("write", "journal", o)
         /\ ReserveScript(o)[6] = Step("sync", "journal", o)
         /\ ReserveScript(o)[7] = Step("syncReports", "journal", o)
         /\ ReserveScript(o)[8] = Step("open", "marker", o)
         /\ ReserveScript(o)[9] = Step("write", "marker", o)
         /\ ReserveScript(o)[10] = Step("sync", "marker", o)
         /\ ReserveScript(o)[11] = Step("syncActive", "marker", o)
         /\ ReserveScript(o)[12] = Step("open", "reserve", o)
         /\ ReserveScript(o)[13] = Step("write", "reserve", o)
         /\ ReserveScript(o)[14] = Step("sync", "reserve", o)
         /\ ReserveScript(o)[15] = Step("syncReports", "reserve", o)
         /\ ReserveScript(o)[16] = Step("capacity", "reserve", o)
<1> DEFINE a == CreateSteps("report", o) \o CreateSteps("journal", o)
           b == a \o <<Step("syncReports", "journal", o)>>
           c == b \o CreateSteps("marker", o)
           d == c \o <<Step("syncActive", "marker", o)>>
           e == d \o CreateSteps("reserve", o)
           r == ReserveScript(o)
<1>1. \A kind \in {"open", "write", "sync", "syncReports", "syncActive", "unlink", "capacity"},
         name \in {"report", "journal", "marker", "reserve"} : Step(kind, name, o) \in Steps
  BY DEF Step, Steps, Names
<1>2. /\ CreateSteps("report", o) \in Seq(Steps) /\ Len(CreateSteps("report", o)) = 3
      /\ CreateSteps("report", o)[1] = Step("open", "report", o)
      /\ CreateSteps("report", o)[2] = Step("write", "report", o)
      /\ CreateSteps("report", o)[3] = Step("sync", "report", o)
  BY <1>1 DEF CreateSteps
<1>3. /\ a \in Seq(Steps) /\ Len(a) = 6
      /\ a[1] = Step("open", "report", o) /\ a[2] = Step("write", "report", o)
      /\ a[3] = Step("sync", "report", o) /\ a[4] = Step("open", "journal", o)
      /\ a[5] = Step("write", "journal", o) /\ a[6] = Step("sync", "journal", o)
  <2> DEFINE s == CreateSteps("report", o)
  <2>2. s \in Seq(Steps) /\ Len(s) = 3 BY <1>2 DEF s
  <2>3. /\ a \in Seq(Steps) /\ Len(a) = Len(s) + 3 /\ \A i \in 1..Len(s) : a[i] = s[i]
        /\ a[Len(s) + 1] = Step("open", "journal", o) /\ a[Len(s) + 2] = Step("write", "journal", o)
        /\ a[Len(s) + 3] = Step("sync", "journal", o)
    BY <2>2, Extended3 DEF Names
  <2> QED BY <1>2, <2>2, <2>3 DEF s
<1> HIDE DEF a
<1>4. /\ b \in Seq(Steps) /\ Len(b) = 7 /\ \A i \in 1..6 : b[i] = a[i]
      /\ b[7] = Step("syncReports", "journal", o)
  <2>1. /\ b \in Seq(Steps) /\ Len(b) = Len(a) + 1 /\ \A i \in 1..Len(a) : b[i] = a[i]
        /\ b[Len(a) + 1] = Step("syncReports", "journal", o)
    BY <1>1, <1>3, Extended1
  <2> QED BY <1>3, <2>1
<1> HIDE DEF b
<1>5. /\ c \in Seq(Steps) /\ Len(c) = 10 /\ \A i \in 1..7 : c[i] = b[i]
      /\ c[8] = Step("open", "marker", o) /\ c[9] = Step("write", "marker", o)
      /\ c[10] = Step("sync", "marker", o)
  <2>2. /\ c \in Seq(Steps) /\ Len(c) = Len(b) + 3 /\ \A i \in 1..Len(b) : c[i] = b[i]
        /\ c[Len(b) + 1] = Step("open", "marker", o) /\ c[Len(b) + 2] = Step("write", "marker", o)
        /\ c[Len(b) + 3] = Step("sync", "marker", o)
    BY <1>1, <1>4, Extended3 DEF Names
  <2> HIDE DEF c
  <2> QED BY <1>4, <2>2
<1> HIDE DEF c
<1>6. /\ d \in Seq(Steps) /\ Len(d) = 11 /\ \A i \in 1..10 : d[i] = c[i]
      /\ d[11] = Step("syncActive", "marker", o)
  <2>1. /\ d \in Seq(Steps) /\ Len(d) = Len(c) + 1 /\ \A i \in 1..Len(c) : d[i] = c[i]
        /\ d[Len(c) + 1] = Step("syncActive", "marker", o)
    BY <1>1, <1>5, Extended1
  <2> QED BY <1>5, <2>1
<1> HIDE DEF d
<1>7. /\ e \in Seq(Steps) /\ Len(e) = 14 /\ \A i \in 1..11 : e[i] = d[i]
      /\ e[12] = Step("open", "reserve", o) /\ e[13] = Step("write", "reserve", o)
      /\ e[14] = Step("sync", "reserve", o)
  <2>2. /\ e \in Seq(Steps) /\ Len(e) = Len(d) + 3 /\ \A i \in 1..Len(d) : e[i] = d[i]
        /\ e[Len(d) + 1] = Step("open", "reserve", o) /\ e[Len(d) + 2] = Step("write", "reserve", o)
        /\ e[Len(d) + 3] = Step("sync", "reserve", o)
    BY <1>1, <1>6, Extended3 DEF Names
  <2> HIDE DEF e
  <2> QED BY <1>6, <2>2
<1>8. /\ r \in Seq(Steps) /\ Len(r) = 16 /\ \A i \in 1..14 : r[i] = e[i]
      /\ r[15] = Step("syncReports", "reserve", o) /\ r[16] = Step("capacity", "reserve", o)
  <2>1. r = e \o <<Step("syncReports", "reserve", o), Step("capacity", "reserve", o)>>
    BY DEF ReserveScript, a, b, c, d
  <2> HIDE DEF e, r
  <2>2. /\ r \in Seq(Steps) /\ Len(r) = Len(e) + 2 /\ \A i \in 1..Len(e) : r[i] = e[i]
        /\ r[Len(e) + 1] = Step("syncReports", "reserve", o) /\ r[Len(e) + 2] = Step("capacity", "reserve", o)
    BY <1>7, <2>1, Extended2
  <2> QED BY <1>7, <2>2
<1> HIDE DEF e, r
<1> QED BY <1>3, <1>4, <1>5, <1>6, <1>7, <1>8 DEF r

LEMMA ScanStep == ASSUME IInv, Scan, Elsewhere PROVE IInv'
<1>1. ~ Working /\ ~ In("command") BY DEF Scan, In, Working, WorkPhases
<1>2. Rest' /\ UNCHANGED <<ran, loose>> BY <1>1, RestFacts
<1>3. proc \in Procs /\ proc.attempts = 0 /\ Data BY <1>1, Unstarted
<1>4. CASE Become("refused") /\ UNCHANGED file
  <2>1. Data' BY <1>2, <1>3, <1>4, DataSame DEF Scan
  <2>2. proc' \in Procs /\ proc'.phase = "refused" /\ proc'.attempts = 0
    BY <1>3, <1>4, BecomeFacts DEF Phases
  <2> QED BY <1>2, <2>1, <2>2, Quietly
<1>5. ASSUME \A o \in Marked : Readable(file[o].journal),
             file' = [o \in OperationIds |->
                       IF o \in Marked /\ Terminal(o)
                       THEN [RepairedFiles(Marked)[o] EXCEPT !.marker = EntrySynced(Unlinked(@))]
                       ELSE RepairedFiles(Marked)[o]],
             \/ \E o \in OperationIds :
                  /\ \A n \in Names : ~ Exists(file[o][n]) /\ acked[o] = <<>>
                  /\ proc' = [proc EXCEPT !.phase = "reserve", !.op = o, !.todo = ReserveScript(o)]
             \/ End
      PROVE  IInv'
  <2> DEFINE R == RepairedFiles(Marked)
  <2>1. /\ R \in [OperationIds -> [Names -> File(Contents)]]
        /\ \A o \in OperationIds :
             /\ \A n \in Names : n # "journal" => R[o][n] = file[o][n]
             /\ \/ R[o].journal = file[o].journal
                \/ /\ R[o].journal.kept = {R[o].journal.seen}
                   /\ R[o].journal.seen.lines = file[o].journal.seen.lines
    <3>1. Typed /\ \A o \in Marked \cap OperationIds : Readable(file[o].journal) BY <1>3, <1>5 DEF Data
    <3>2. /\ RepairedFiles(Marked) \in [OperationIds -> [Names -> File(Contents)]]
          /\ \A o \in OperationIds :
               /\ \A n \in Names : n # "journal" => RepairedFiles(Marked)[o][n] = file[o][n]
               /\ \/ RepairedFiles(Marked)[o].journal = file[o].journal
                  \/ /\ RepairedFiles(Marked)[o].journal.kept = {RepairedFiles(Marked)[o].journal.seen}
                     /\ RepairedFiles(Marked)[o].journal.seen.lines = file[o].journal.seen.lines
      BY <3>1, RepairedFacts
    <3> QED BY <3>2 DEF R
  <2>2. file' = [o \in OperationIds |->
                   IF o \in Marked /\ Terminal(o)
                   THEN [R[o] EXCEPT !["marker"] = EntrySynced(Unlinked(@))] ELSE R[o]]
    BY <1>5
  <2>3. \A o \in OperationIds : o \notin Marked => R[o] = file[o] BY DEF RepairedFiles
  <2> HIDE DEF R
  <2>4. ASSUME NEW o \in OperationIds
        PROVE  /\ file'[o] \in [Names -> File(Contents)]
               /\ \A n \in Names : n # "marker" => file'[o][n] = R[o][n]
               /\ \/ file'[o].marker = file[o].marker
                  \/ /\ o \in Marked /\ Terminal(o) /\ file'[o].marker.seen \in file'[o].marker.kept
                     /\ file'[o].marker.kept \subseteq {Absent, Torn, Whole}
    <3>1. R[o] \in [Names -> File(Contents)] /\ R[o].marker = file[o].marker /\ Shaped(o)
      BY <1>3, <2>1 DEF Data, Lasting, Names
    <3>2. CASE o \in Marked /\ Terminal(o)
      <4> DEFINE f == R[o].marker
                 g == EntrySynced(Unlinked(f))
      <4>1. f \in File(Contents) /\ f.seen \in f.kept /\ f.kept \subseteq {Absent, Torn, Whole}
        BY <3>1 DEF Names, Shaped
      <4>2. Unlinked(f) \in File(Contents) /\ Unlinked(f).seen = Absent
            /\ Unlinked(f).kept = f.kept \cup {Absent}
        BY <4>1, EntryFacts
      <4>3. g \in File(Contents) /\ g.seen \in g.kept /\ g.kept \subseteq {Absent, Torn, Whole}
        BY <4>1, <4>2, EntryFacts
      <4>4. file'[o] = [R[o] EXCEPT !["marker"] = g] BY <2>2, <3>2
      <4> HIDE DEF f, g
      <4>5. file'[o] \in [Names -> File(Contents)] /\ file'[o]["marker"] = g
            /\ \A n \in Names : n # "marker" => file'[o][n] = R[o][n]
        BY <3>1, <4>3, <4>4 DEF Names
      <4>6. file'[o].marker = g BY <4>5
      <4> QED BY <3>2, <4>3, <4>5, <4>6
    <3>3. CASE ~ (o \in Marked /\ Terminal(o))
      <4>1. file'[o] = R[o] BY <2>2, <3>3
      <4> QED BY <3>1, <4>1
    <3> QED BY <3>2, <3>3
  <2>5. file' \in [OperationIds -> [Names -> File(Contents)]]
    <3>1. file' = [o \in OperationIds |-> file'[o]] BY <2>2
    <3> QED BY <2>4, <3>1
  <2>6. ASSUME NEW o \in OperationIds
        PROVE  /\ \A n \in Names : file'[o][n].seen \in file'[o][n].kept
               /\ \A c \in file'[o].journal.kept : \E d \in file[o].journal.kept : c.lines = d.lines
               /\ file'[o].report = file[o].report
               /\ file'[o].marker.kept \cup file'[o].reserve.kept \subseteq {Absent, Torn, Whole}
               /\ Whole \in index.kept /\ Needed(o) => Absent \notin file'[o].marker.kept
    <3>1. Shaped(o) /\ Remembered(o) BY <1>3 DEF Data, Lasting
    <3>2. /\ file'[o].report = file[o].report /\ file'[o].reserve = file[o].reserve
          /\ file'[o].journal = R[o].journal
      BY <2>1, <2>4 DEF Names
    <3>3. file'[o].journal.seen \in file'[o].journal.kept BY <2>1, <3>1, <3>2 DEF Shaped, Names
    <3>4. file'[o].marker.seen \in file'[o].marker.kept BY <2>4, <3>1 DEF Shaped, Names
    <3>5. \A n \in Names : file'[o][n].seen \in file'[o][n].kept
      BY <3>1, <3>2, <3>3, <3>4 DEF Shaped, Names
    <3>6. \A c \in file'[o].journal.kept : \E d \in file[o].journal.kept : c.lines = d.lines
      BY <2>1, <3>1, <3>2 DEF Shaped, Names
    <3>7. Needed(o) => ~ Terminal(o) BY <1>3, NeededFacts
    <3>8. Whole \in index.kept /\ Needed(o) => Absent \notin file'[o].marker.kept
      BY <2>4, <3>1, <3>7 DEF Remembered
    <3> QED BY <2>4, <3>1, <3>2, <3>5, <3>6, <3>8 DEF Shaped
  <2>7. Data' BY <1>2, <1>3, <2>5, <2>6, DataRepaired DEF Scan
  <2>8. CASE End BY <1>2, <2>7, <2>8, EndFacts, Quietly
  <2>9. ASSUME NEW o \in OperationIds,
               \A n \in Names : ~ Exists(file[o][n]) /\ acked[o] = <<>>,
               proc' = [proc EXCEPT !.phase = "reserve", !.op = o, !.todo = ReserveScript(o)]
        PROVE  IInv'
    <3> DEFINE r == ReserveScript(o)
    <3>1. r \in Seq(Steps) /\ Len(r) = 16 BY ReserveScriptFacts
    <3>2. proc' = [proc EXCEPT !.phase = "reserve", !.op = o, !.todo = r] BY <2>9
    <3> HIDE DEF r
    <3>3. /\ proc' \in Procs /\ proc'.phase = "reserve" /\ proc'.op = o /\ proc'.todo = r
          /\ proc'.attempts = 0
      BY <1>3, <3>1, <3>2 DEF Procs, Phases
    <3>4. o \notin Marked BY <2>9 DEF Marked, Names
    <3>5. file'[o] = file[o] BY <2>2, <2>3, <3>4
    <3>6. /\ ~ Exists(file'[o].report) /\ ~ Exists(file'[o].journal)
          /\ ~ Exists(file'[o].marker) /\ ~ Exists(file'[o].reserve)
      BY <2>9, <3>5 DEF Names
    <3>7. acked'[o] = <<>> BY <2>9 DEF Scan, Names
    <3>8. Left' = 16 BY <3>1, <3>3 DEF Left
    <3>9. \A i \in 1..16 : proc'.todo[i] = ReserveScript(proc'.op)[16 - 16 + i]
      BY <3>3 DEF r
    <3>10. Reserving' BY <3>3, <3>6, <3>7, <3>8, <3>9 DEF Reserving, ReserveFiles
    <3>11. Booting' /\ Undoing' BY <3>3 DEF Booting, Undoing, In
    <3> QED BY <1>2, <2>7, <3>3, <3>10, <3>11, Scripting
  <2> QED BY <1>5, <2>8, <2>9
<1> QED BY <1>4, <1>5 DEF Scan

-----------------------------------------------------------------------------
(* The primitives of the scripts. *)

LEMMA TailFacts ==
  ASSUME NEW S, NEW s \in Seq(S), s # <<>>
  PROVE  /\ Head(s) \in S /\ Head(s) = s[1] /\ 1 \in DOMAIN s
         /\ Tail(s) \in Seq(S) /\ Len(Tail(s)) = Len(s) - 1
         /\ Len(s) \in Nat /\ Len(s) >= 1
         /\ \A i \in 1..(Len(s) - 1) : Tail(s)[i] = s[i + 1]
OBVIOUS

(* What is left of a bootstrap script when its first steps are done. *)
LEMMA Dropped ==
  ASSUME NEW s \in Seq(BootSteps), NEW t \in Seq(BootSteps), NEW k \in Nat, Sorted(s), Adjacent(s),
         1 <= k, k <= Len(s), Len(t) = Len(s) - k, \A i \in 1..(Len(s) - k) : t[i] = s[i + k]
  PROVE  /\ Sorted(t) /\ Adjacent(t)
         /\ \A x : Includes(s, x) => Includes(t, x) \/ \E i \in 1..k : s[i] = x
         /\ \A i \in DOMAIN t : Rank(s[1]) <= Rank(t[i])
<1> DEFINE n == Len(s)
<1>1. n \in Nat /\ DOMAIN s = 1..n /\ DOMAIN t = 1..(n - k) OBVIOUS
<1>2. \A i \in 1..(n - k) : t[i] = s[i + k] OBVIOUS
<1>3. k <= n OBVIOUS
<1> HIDE DEF n
<1>4. \A i \in 1..(n - k) : i + k \in 1..n /\ 1 < i + k /\ 1 \in 1..n BY <1>1, <1>3
<1>5. ASSUME NEW i \in 1..(n - k), NEW j \in 1..(n - k), i < j PROVE Rank(t[i]) <= Rank(t[j])
  <2>1. i + k < j + k BY <1>1, <1>5
  <2> QED BY <1>1, <1>2, <1>4, <2>1 DEF Sorted
<1>6. ASSUME NEW i \in 1..(n - k), t[i].kind = "open"
      PROVE  /\ i + 2 \in 1..(n - k)
             /\ Rank(t[i + 1]) = Rank(t[i]) /\ t[i + 1].kind = "write"
             /\ Rank(t[i + 2]) = Rank(t[i]) /\ t[i + 2].kind = "sync"
  <2> DEFINE j == i + k
  <2>1. j \in 1..n /\ t[i] = s[j] BY <1>2, <1>4
  <2>2. j + 2 \in 1..n /\ i \in Nat BY <1>1, <1>6, <2>1 DEF Adjacent
  <2>3. i + 2 \in 1..(n - k) /\ i + 1 \in 1..(n - k) BY <1>1, <2>2
  <2>4. (i + 1) + k = j + 1 /\ (i + 2) + k = j + 2 BY <1>1, <2>2
  <2>5. t[i + 1] = s[j + 1] /\ t[i + 2] = s[j + 2] BY <1>2, <2>3, <2>4
  <2> HIDE DEF j
  <2>6. /\ Rank(s[j + 1]) = Rank(s[j]) /\ s[j + 1].kind = "write"
        /\ Rank(s[j + 2]) = Rank(s[j]) /\ s[j + 2].kind = "sync"
    BY <1>1, <1>6, <2>1 DEF Adjacent
  <2> QED BY <2>1, <2>3, <2>5, <2>6
<1>7. ASSUME NEW x, Includes(s, x) PROVE Includes(t, x) \/ \E i \in 1..k : s[i] = x
  <2>1. PICK i \in 1..n : s[i] = x BY <1>1, <1>7 DEF Includes
  <2>2. CASE i \in 1..k BY <2>1, <2>2
  <2>3. CASE i \notin 1..k
    <3>1. i - k \in 1..(n - k) /\ (i - k) + k = i BY <1>1, <2>1, <2>3
    <3>2. t[i - k] = x BY <1>2, <2>1, <3>1
    <3> QED BY <1>1, <3>1, <3>2 DEF Includes
  <2> QED BY <2>2, <2>3
<1>8. \A i \in 1..(n - k) : Rank(s[1]) <= Rank(t[i]) BY <1>1, <1>2, <1>4 DEF Sorted
<1> QED BY <1>1, <1>5, <1>6, <1>7, <1>8 DEF Sorted, Adjacent

(* A reservation that is not acknowledged has run nothing, and its journal has at most *)
(* its first line.                                                                     *)
LEMMA FreshFacts ==
  ASSUME Data, NEW o \in OperationIds, acked[o] = <<>>
  PROVE  /\ ran[o] = 0 /\ o \notin loose /\ ~ Needed(o)
         /\ \A c \in file[o].journal.kept : c.lines \in {<<>>, <<"operation-started">>} /\ ~ Done(c)
         /\ \A s \in {<<>>, <<"operation-started">>} :
              /\ s \in Seq(Events) /\ Fits(o, s)
              /\ \A i \in DOMAIN s : s[i] # "operation-completed"
<1>1. Shaped(o) /\ Accounted(o) /\ ran[o] \in Nat BY DEF Data, Lasting, Typed
<1>2. \A s \in {<<>>, <<"operation-started">>} :
        /\ s \in Seq(Events) /\ Begun(s) = 0 /\ Ended(s) = 0 /\ Len(s) <= 1
        /\ \A i \in DOMAIN s : s[i] = "operation-started"
  <2>1. Begun(<<>>) = 0 /\ Ended(<<>>) = 0 BY TallyEmpty DEF Begun, Ended
  <2>2. <<>> \in Seq(Events) /\ "operation-started" \in Events BY DEF Events
  <2>3. Append(<<>>, "operation-started") = <<"operation-started">> OBVIOUS
  <2>4. \A e : Tally(Append(<<>>, "operation-started"), e)
                = Tally(<<>>, e) + (IF "operation-started" = e THEN 1 ELSE 0)
    BY <2>2, TallyAppend
  <2>5. Begun(<<"operation-started">>) = 0 /\ Ended(<<"operation-started">>) = 0
    BY <2>1, <2>3, <2>4 DEF Begun, Ended
  <2> DEFINE first == <<"operation-started">>
  <2>6. first \in Seq(Events) /\ Len(first) = 1 /\ \A i \in DOMAIN first : first[i] = "operation-started"
    BY <2>2
  <2>7. <<>> \in Seq(Events) /\ Len(<<>>) = 0 /\ \A i \in DOMAIN <<>> : <<>>[i] = "operation-started"
    OBVIOUS
  <2>8. Begun(first) = 0 /\ Ended(first) = 0 BY <2>5
  <2> HIDE DEF first
  <2>9. ASSUME NEW s \in {<<>>, first}
        PROVE  /\ s \in Seq(Events) /\ Begun(s) = 0 /\ Ended(s) = 0 /\ Len(s) <= 1
               /\ \A i \in DOMAIN s : s[i] = "operation-started"
    <3>1. CASE s = <<>>
      <4>1. Len(s) <= 1 /\ \A i \in DOMAIN s : s[i] = "operation-started" BY <3>1
      <4>2. s \in Seq(Events) BY <2>7, <3>1
      <4>3. Begun(s) = 0 /\ Ended(s) = 0 BY <2>1, <3>1
      <4> QED BY <4>1, <4>2, <4>3
    <3>2. CASE s = first
      <4>1. s \in Seq(Events) /\ Len(s) = 1 /\ \A i \in DOMAIN s : s[i] = "operation-started"
        BY <2>6, <3>2
      <4>2. Begun(s) = 0 /\ Ended(s) = 0 BY <2>8, <3>2
      <4>3. Len(s) <= 1 BY <4>1
      <4> QED BY <4>1, <4>2, <4>3
    <3> QED BY <3>1, <3>2
  <2> QED BY <2>9 DEF first
<1>3. \A c \in file[o].journal.kept : c.lines \in {<<>>, <<"operation-started">>} /\ Fits(o, c.lines)
  BY <1>1 DEF Accounted, Fits
<1>4. PICK c \in file[o].journal.kept : TRUE BY <1>1 DEF Shaped, Names
<1>5. ran[o] <= 0 /\ 0 + Owed(o) <= 0 BY <1>2, <1>3, <1>4 DEF Fits
<1>6. ran[o] = 0 /\ o \notin loose BY <1>1, <1>5 DEF Owed
<1>7. \A s \in {<<>>, <<"operation-started">>} : Fits(o, s)
  <2>1. SUFFICES ASSUME NEW s \in {<<>>, <<"operation-started">>} PROVE Fits(o, s) OBVIOUS
  <2>2. s \in Seq(Events) /\ Begun(s) = 0 /\ Ended(s) = 0 /\ Len(s) \in Nat /\ Len(s) <= 1 BY <1>2
  <2>3. IsPrefix(acked[o], s) BY <2>2, PrefixEmpty
  <2>4. Len(s) <= 2 * MaxCommands + 4 BY <2>2, ReportFilesAssumption
  <2>5. Owed(o) = 0 BY <1>6 DEF Owed
  <2> QED BY <1>6, <2>2, <2>3, <2>4, <2>5 DEF Fits
<1>8. \A d \in file[o].journal.kept : ~ Done(d) BY <1>2, <1>3 DEF Done, Holds
<1> QED BY <1>2, <1>3, <1>6, <1>7, <1>8 DEF Needed

LEMMA FreshPut ==
  ASSUME Data, NEW o \in OperationIds, acked[o] = <<>>, NEW n \in Names, NEW f \in File(Contents),
         f.seen \in f.kept, file' = [file EXCEPT ![o][n] = f], UNCHANGED <<index, acked, ran, loose>>,
         f.kept \subseteq file[o][n].kept \cup {Absent, Torn, FirstContent(n)}
  PROVE  Data'
<1>1. /\ ran[o] = 0 /\ o \notin loose /\ ~ Needed(o)
      /\ \A c \in file[o].journal.kept : c.lines \in {<<>>, <<"operation-started">>} /\ ~ Done(c)
      /\ \A s \in {<<>>, <<"operation-started">>} :
           /\ s \in Seq(Events) /\ Fits(o, s) /\ \A i \in DOMAIN s : s[i] # "operation-completed"
  BY FreshFacts
<1>2. Shaped(o) /\ acked \in [OperationIds -> Seq(Events)] BY DEF Data, Lasting, Typed
<1>3. CASE n = "journal"
  <2>1. \A c \in f.kept : c.lines \in {<<>>, <<"operation-started">>}
    BY <1>1, <1>3, DistinctContents, ContentFacts, <1>2 DEF FirstContent, Line
  <2>2. \A c \in f.kept : /\ c.lines \in Seq(Events) /\ Fits(o, c.lines) /\ ~ Done(c)
    BY <1>1, <2>1 DEF Done, Holds
  <2>3. ASSUME NEW c \in f.kept PROVE Fits(o, c.lines)'
    <3>1. Fits(o, c.lines) BY <2>2
    <3> QED BY <3>1 DEF Fits, Owed
  <2>4. file' = [file EXCEPT ![o]["journal"] = f] BY <1>3
  <2>5. /\ acked' \in [OperationIds -> Seq(Events)] /\ UNCHANGED <<index, ran, loose>>
        /\ \A p \in OperationIds : p # o => acked'[p] = acked[p]
    BY <1>2
  <2>6. \A c \in f.kept :
           /\ c.lines \in Seq(Events) /\ Fits(o, c.lines)'
           /\ Done(c) => /\ file[o].report.kept \subseteq {Final, Failed}
                         /\ file[o].report.seen = Final => file[o].report.kept = {Final}
    BY <2>2, <2>3
  <2> QED BY <2>4, <2>5, <2>6, DataJournal
<1>4. CASE n # "journal"
  <2>1. n \in Names \ {"journal"} BY <1>4
  <2>2. n # "report" => f.kept \subseteq {Absent, Torn, Whole} BY <1>2, <1>4 DEF Shaped, FirstContent, Names
  <2>3. n = "report" => f.kept \subseteq {Absent, Torn, Whole, Final, Failed}
    BY <1>2, <1>4 DEF Shaped, FirstContent
  <2>4. n = "report" =>
          /\ (\E c \in file[o].journal.kept : Done(c)) =>
               f.kept \subseteq {Final, Failed} /\ (f.seen = Final => f.kept = {Final})
          /\ ran[o] > 0 => Absent \notin file[o].marker.kept
    BY <1>1
  <2>5. n = "marker" /\ Whole \in index.kept /\ Needed(o) => Absent \notin f.kept BY <1>1
  <2> QED BY <2>1, <2>2, <2>3, <2>4, <2>5, DataOther
<1> QED BY <1>3, <1>4

LEMMA ScriptFacts ==
  ASSUME IInv, Scripted, Elsewhere
  PROVE  /\ ~ Working /\ ~ In("command") /\ Rest' /\ UNCHANGED <<ran, loose>>
         /\ proc \in Procs /\ proc.attempts = 0 /\ Data /\ Typed
         /\ proc.todo \in Seq(Steps) /\ proc.todo # <<>>
         /\ Now \in Steps /\ Now = proc.todo[1]
<1>1. ~ Working /\ ~ In("command") BY DEF Scripted, In, Working, WorkPhases
<1>2. Rest' /\ UNCHANGED <<ran, loose>> BY <1>1, RestFacts
<1>3. proc \in Procs /\ proc.attempts = 0 /\ Data BY <1>1, Unstarted
<1>4. proc.todo \in Seq(Steps) /\ proc.todo # <<>> BY <1>3 DEF Procs, Scripted
<1>5. Now \in Steps /\ Now = proc.todo[1] BY <1>4, TailFacts DEF Now
<1> QED BY <1>1, <1>2, <1>3, <1>4, <1>5 DEF Data

LEMMA ProceedFacts ==
  ASSUME proc \in Procs, NEW t \in Seq(Steps), proc' = [proc EXCEPT !.todo = t]
  PROVE  /\ proc' \in Procs /\ proc'.todo = t /\ proc'.phase = proc.phase /\ proc'.op = proc.op
         /\ proc'.event = proc.event /\ proc'.content = proc.content /\ proc'.cause = proc.cause
         /\ proc'.failed = proc.failed /\ proc'.retried = proc.retried
         /\ proc'.attempts = proc.attempts
BY DEF Procs

(* A step of the bootstrap moves its invariant on. *)
LEMMA BootAdvances ==
  ASSUME IInv, In("boot"), proc.todo # <<>>, Data', Rest',
         NEW t \in Seq(BootSteps), NEW k \in Nat, 1 <= k, k <= Len(proc.todo),
         Len(t) = Len(proc.todo) - k,
         \A i \in 1..(Len(proc.todo) - k) : t[i] = proc.todo[i + k],
         proc' = [proc EXCEPT !.todo = t],
         Rank(proc.todo[1]) < 4 => index'.kept \subseteq index.kept,
         \A i \in 1..k : i # 1 => proc.todo[i].kind \notin {"open", "syncActive"},
         \A o \in OperationIds :
           /\ Needed(o)' => Needed(o)
           /\ file[o].marker.seen # Absent => file'[o].marker.seen # Absent
           /\ Absent \notin file[o].marker.kept => Absent \notin file'[o].marker.kept
           /\ proc.todo[1] = Step("open", "marker", o) => file'[o].marker.seen # Absent
           /\ proc.todo[1] = Step("syncActive", "marker", NoOp) /\ file[o].marker.seen # Absent =>
                Absent \notin file'[o].marker.kept
  PROVE  IInv'
<1> DEFINE s == proc.todo
           SA == Step("syncActive", "marker", NoOp)
<1>1. ~ Working /\ proc.attempts = 0 /\ proc \in Procs
  BY DEF IInv, In, Working, WorkPhases, Operating
<1>2. /\ s \in Seq(BootSteps) /\ Sorted(s) /\ Adjacent(s)
      /\ Rank(s[1]) < 4 => Whole \notin index.kept
      /\ Rank(s[1]) = 1 => Includes(s, SA)
      /\ \A o \in OperationIds : Needed(o) =>
           \/ Includes(s, Step("open", "marker", o))
           \/ file[o].marker.seen # Absent /\ Includes(s, SA)
           \/ Absent \notin file[o].marker.kept
  BY DEF IInv, Booting
<1>3. /\ Sorted(t) /\ Adjacent(t)
      /\ \A x : Includes(s, x) => Includes(t, x) \/ \E i \in 1..k : s[i] = x
      /\ \A i \in DOMAIN t : Rank(s[1]) <= Rank(t[i])
  BY <1>2, Dropped
<1>4. t \in Seq(Steps) BY BootStepsFacts
<1>5. /\ proc' \in Procs /\ proc'.todo = t /\ proc'.phase = "boot" /\ proc'.attempts = 0
  BY <1>1, <1>4, ProceedFacts DEF In
<1>6. CASE t = <<>> BY <1>5, <1>6, Quietly
<1>7. ASSUME t # <<>> PROVE IInv'
  <2>1. 1 \in DOMAIN t /\ t[1] \in BootSteps /\ s[1] \in BootSteps BY <1>2, <1>7, TailFacts
  <2>2. Rank(s[1]) \in 1..4 /\ Rank(t[1]) \in 1..4 /\ Rank(s[1]) <= Rank(t[1])
    BY <1>3, <2>1, BootStepsFacts
  <2>3. Rank(t[1]) < 4 => Whole \notin index'.kept BY <1>2, <2>2
  <2>4. SA.kind = "syncActive" /\ Rank(SA) = 3
        /\ \A o : Step("open", "marker", o).kind = "open" /\ Rank(Step("open", "marker", o)) = 1
    BY DEF Step, Rank
  <2>5. \A x : x.kind \in {"open", "syncActive"} /\ Includes(s, x) => Includes(t, x) \/ s[1] = x
    <3>1. SUFFICES ASSUME NEW x, x.kind \in {"open", "syncActive"}, Includes(s, x), ~ Includes(t, x)
                   PROVE  s[1] = x
      OBVIOUS
    <3>2. PICK i \in 1..k : s[i] = x BY <1>3, <3>1
    <3>3. i = 1 BY <3>1, <3>2
    <3> QED BY <3>2, <3>3
  <2>6. Rank(t[1]) = 1 => Includes(t, SA)
    <3>1. Rank(t[1]) = 1 => Includes(s, SA) /\ s[1] # SA BY <1>2, <2>2, <2>4
    <3> QED BY <2>4, <2>5, <3>1
  <2>7. ASSUME NEW o \in OperationIds, Needed(o)'
        PROVE  \/ Includes(t, Step("open", "marker", o))
               \/ file'[o].marker.seen # Absent /\ Includes(t, SA)
               \/ Absent \notin file'[o].marker.kept
    <3> DEFINE x == Step("open", "marker", o)
    <3>1. Needed(o) BY <2>7
    <3>2. CASE Includes(s, x)
      <4>1. Includes(t, x) \/ s[1] = x BY <2>4, <2>5, <3>2
      <4>2. CASE s[1] = x
        <5>1. Rank(s[1]) = 1 /\ s[1] # SA BY <2>4, <4>2
        <5>2. Includes(t, SA) BY <1>2, <2>4, <2>5, <5>1
        <5> QED BY <4>2, <5>2
      <4> QED BY <4>1, <4>2
    <3>3. CASE file[o].marker.seen # Absent /\ Includes(s, SA)
      <4>1. Includes(t, SA) \/ s[1] = SA BY <2>4, <2>5, <3>3
      <4> QED BY <3>3, <4>1
    <3>4. CASE Absent \notin file[o].marker.kept BY <3>4
    <3> QED BY <1>2, <3>1, <3>2, <3>3, <3>4
  <2>8. Booting' BY <1>3, <1>5, <2>3, <2>6, <2>7 DEF Booting, In
  <2>9. Reserving' /\ Undoing' BY <1>5 DEF Reserving, Undoing, In
  <2> QED BY <1>5, <2>8, <2>9, Scripting
<1> QED BY <1>6, <1>7

LEMMA BootFacts ==
  ASSUME IInv, In("boot"), proc.todo # <<>>
  PROVE  /\ proc.todo \in Seq(BootSteps) /\ Now = proc.todo[1] /\ Now \in BootSteps
         /\ Sorted(proc.todo) /\ Adjacent(proc.todo)
         /\ Tail(proc.todo) \in Seq(BootSteps) /\ Len(Tail(proc.todo)) = Len(proc.todo) - 1
         /\ \A i \in 1..(Len(proc.todo) - 1) : Tail(proc.todo)[i] = proc.todo[i + 1]
         /\ Len(proc.todo) \in Nat /\ 1 <= Len(proc.todo)
<1>1. proc.todo \in Seq(BootSteps) /\ Sorted(proc.todo) /\ Adjacent(proc.todo) BY DEF IInv, Booting
<1> QED BY <1>1, TailFacts DEF Now

(* One step of the script, with what changes in the files. *)
LEMMA BootOne ==
  ASSUME IInv, In("boot"), proc.todo # <<>>, Data', Rest', Proceed,
         Rank(Now) < 4 => index'.kept \subseteq index.kept,
         \A o \in OperationIds :
           /\ Needed(o)' => Needed(o)
           /\ file[o].marker.seen # Absent => file'[o].marker.seen # Absent
           /\ Absent \notin file[o].marker.kept => Absent \notin file'[o].marker.kept
           /\ Now = Step("open", "marker", o) => file'[o].marker.seen # Absent
           /\ Now = Step("syncActive", "marker", NoOp) /\ file[o].marker.seen # Absent =>
                Absent \notin file'[o].marker.kept
  PROVE  IInv'
<1> DEFINE t == Tail(proc.todo)
<1>1. /\ t \in Seq(BootSteps) /\ Len(t) = Len(proc.todo) - 1 /\ Now = proc.todo[1]
      /\ \A i \in 1..(Len(proc.todo) - 1) : t[i] = proc.todo[i + 1]
      /\ 1 <= Len(proc.todo)
  BY BootFacts
<1>2. proc' = [proc EXCEPT !.todo = t] BY DEF Proceed
<1>3. \A i \in 1..1 : i # 1 => proc.todo[i].kind \notin {"open", "syncActive"} OBVIOUS
<1>4. 1 \in Nat /\ 1 <= 1 OBVIOUS
<1> HIDE DEF t
<1> QED BY <1>1, <1>2, <1>3, <1>4, BootAdvances

LEMMA BootMarkerData ==
  ASSUME IInv, In("boot"), Scripted, Elsewhere, Now.kind \in {"open", "write", "sync"},
         Now.name = "marker", NEW f \in File(Contents), Put(Now, f), f.seen \in f.kept,
         f.kept \subseteq {Absent, Torn, Whole}, UNCHANGED acked
  PROVE  /\ Data' /\ UNCHANGED index /\ Now.op \in OperationIds
         /\ \A o \in OperationIds : /\ file'[o].report = file[o].report
                                    /\ o # Now.op => file'[o].marker = file[o].marker
         /\ file'[Now.op].marker = f
<1>1. Data /\ Typed /\ Rest' /\ UNCHANGED <<ran, loose>> /\ proc.todo # <<>> BY ScriptFacts
<1>2. Now \in BootSteps /\ Now = proc.todo[1] BY <1>1, BootFacts
<1>3. Now.op \in OperationIds /\ Rank(Now) = 1 BY <1>2, BootStepsFacts
<1> DEFINE o == Now.op
<1>4. o \in OperationIds /\ file' = [file EXCEPT ![o]["marker"] = f] /\ UNCHANGED index
  BY <1>3 DEF Put
<1>5. Whole \notin index.kept BY <1>1, <1>2, <1>3 DEF IInv, Booting
<1> HIDE DEF o
<1>6. "marker" \in Names \ {"journal"} BY DEF Names
<1>7. Data'
  <2>1. "marker" # "report" OBVIOUS
  <2> QED BY <1>1, <1>4, <1>5, <1>6, DataOther
<1>8. /\ file'[o]["marker"] = f
      /\ \A m \in Names : m # "marker" => file'[o][m] = file[o][m]
      /\ \A p \in OperationIds : p # o => file'[p] = file[p]
  BY <1>1, <1>4, <1>6, PutFacts, ZenonT(30)
<1> QED BY <1>4, <1>7, <1>8 DEF o, Names

LEMMA BootMarkerPut ==
  ASSUME IInv, In("boot"), Scripted, Elsewhere, Now.kind \in {"open", "write", "sync"},
         Now.name = "marker", NEW f \in File(Contents), Put(Now, f), f.seen \in f.kept,
         f.kept \subseteq {Absent, Torn, Whole}, UNCHANGED acked, Proceed,
         file[Now.op].marker.seen # Absent \/ Now.kind = "open" => f.seen # Absent,
         Absent \notin file[Now.op].marker.kept => Absent \notin f.kept
  PROVE  IInv'
<1>1. Rest' /\ UNCHANGED <<ran, loose>> /\ proc.todo # <<>> BY ScriptFacts
<1>2. /\ Data' /\ UNCHANGED index /\ Now.op \in OperationIds
      /\ \A o \in OperationIds : /\ file'[o].report = file[o].report
                                 /\ o # Now.op => file'[o].marker = file[o].marker
      /\ file'[Now.op].marker = f
  BY BootMarkerData
<1>3. ASSUME NEW o \in OperationIds
      PROVE  /\ Needed(o)' => Needed(o)
             /\ file[o].marker.seen # Absent => file'[o].marker.seen # Absent
             /\ Absent \notin file[o].marker.kept => Absent \notin file'[o].marker.kept
             /\ Now = Step("open", "marker", o) => file'[o].marker.seen # Absent
             /\ Now # Step("syncActive", "marker", NoOp)
  <2>1. Needed(o)' => Needed(o) BY <1>1, <1>2 DEF Needed
  <2>2. Now # Step("syncActive", "marker", NoOp) BY DEF Step
  <2>3. Now = Step("open", "marker", o) => Now.op = o /\ Now.kind = "open" BY DEF Step
  <2> QED BY <1>2, <2>1, <2>2, <2>3
<1> QED BY <1>1, <1>2, <1>3, BootOne

LEMMA BootIndexPut ==
  ASSUME IInv, In("boot"), Scripted, Elsewhere, Now.name = "index",
         NEW f \in File(Contents), Put(Now, f), f.seen \in f.kept,
         f.kept \subseteq {Absent, Torn, Whole}, Whole \in f.kept => f.seen = Whole,
         UNCHANGED acked, Proceed
  PROVE  IInv'
<1>1. Data /\ Rest' /\ UNCHANGED <<ran, loose>> /\ proc.todo # <<>> BY ScriptFacts
<1>2. /\ Now \in BootSteps /\ Now = proc.todo[1] /\ Sorted(proc.todo) /\ proc.todo \in Seq(BootSteps)
      /\ 1 \in DOMAIN proc.todo
  BY <1>1, BootFacts
<1>3. Rank(Now) = 4 BY <1>2, BootStepsFacts
<1>4. \A i \in DOMAIN proc.todo : Rank(proc.todo[i]) = 4
  <2>1. SUFFICES ASSUME NEW i \in DOMAIN proc.todo PROVE Rank(proc.todo[i]) = 4 OBVIOUS
  <2>2. Rank(proc.todo[i]) \in 1..4 BY <1>2, BootStepsFacts
  <2>3. i # 1 => Rank(proc.todo[1]) <= Rank(proc.todo[i]) BY <1>2 DEF Sorted
  <2> QED BY <1>2, <1>3, <2>2, <2>3
<1>5. /\ ~ Includes(proc.todo, Step("syncActive", "marker", NoOp))
      /\ \A o \in OperationIds : ~ Includes(proc.todo, Step("open", "marker", o))
  <2>1. Rank(Step("syncActive", "marker", NoOp)) = 3 /\ \A o : Rank(Step("open", "marker", o)) = 1
    BY DEF Step, Rank
  <2> QED BY <1>4, <2>1 DEF Includes
<1>6. \A o \in OperationIds : Needed(o) => Absent \notin file[o].marker.kept
  BY <1>1, <1>5 DEF IInv, Booting
<1>7. index' = f /\ UNCHANGED file BY DEF Put
<1>8. Data' BY <1>1, <1>6, <1>7, DataIndex
<1>9. ASSUME NEW o \in OperationIds
      PROVE  /\ Needed(o)' => Needed(o)
             /\ file'[o].marker = file[o].marker
             /\ Now # Step("open", "marker", o) /\ Now # Step("syncActive", "marker", NoOp)
  BY <1>1, <1>7 DEF Needed, Step
<1>10. ~ (Rank(Now) < 4) BY <1>3
<1> QED BY <1>1, <1>8, <1>9, <1>10, BootOne

(* What a primitive of the bootstrap puts, and where. *)
LEMMA BootPlace ==
  ASSUME IInv, In("boot"), Scripted, Elsewhere, Now.kind \in {"open", "write", "sync"}
  PROVE  /\ Now.name \in {"marker", "index"} /\ FirstContent(Now.name) = Whole
         /\ Now.name = "marker" => Now.op \in OperationIds /\ Get(Now) = file[Now.op].marker
         /\ Now.name = "index" => Get(Now) = index /\ (Whole \in index.kept => index.seen = Whole)
         /\ Get(Now) \in File(Contents) /\ Get(Now).seen \in Get(Now).kept
         /\ Get(Now).kept \subseteq {Absent, Torn, Whole}
<1>1. Data /\ Typed /\ proc.todo # <<>> BY ScriptFacts
<1>2. Now \in BootSteps BY <1>1, BootFacts
<1>3. /\ Now.name \in {"marker", "index"}
      /\ Now.name = "marker" => Now.op \in OperationIds
  BY <1>2, BootStepsFacts
<1>4. Now.name = "marker" => Get(Now) = file[Now.op].marker BY DEF Get
<1>5. Now.name = "index" => Get(Now) = index BY DEF Get
<1>6. \A o \in OperationIds : /\ file[o].marker \in File(Contents)
                              /\ file[o].marker.seen \in file[o].marker.kept
                              /\ file[o].marker.kept \subseteq {Absent, Torn, Whole}
  BY <1>1, FileFacts DEF Data, Lasting, Shaped, Names
<1>7. /\ index \in File(Contents) /\ index.seen \in index.kept /\ index.kept \subseteq {Absent, Torn, Whole}
      /\ Whole \in index.kept => index.seen = Whole
  BY <1>1 DEF Data, Typed, IndexShaped
<1>8. FirstContent(Now.name) = Whole BY <1>3 DEF FirstContent
<1> QED BY <1>3, <1>4, <1>5, <1>6, <1>7, <1>8

LEMMA BootOpen == ASSUME IInv, In("boot"), OpenNew, Elsewhere PROVE IInv'
<1> DEFINE g == Get(Now)
           f == Created(g)
<1>1. Scripted /\ Now.kind = "open" BY DEF OpenNew
<1>2. /\ Data /\ Rest' /\ UNCHANGED <<ran, loose>> /\ proc.todo # <<>> /\ proc \in Procs
      /\ proc.attempts = 0
  BY <1>1, ScriptFacts
<1>3. /\ Now.name \in {"marker", "index"}
      /\ Now.name = "marker" => Now.op \in OperationIds /\ g = file[Now.op].marker
      /\ Now.name = "index" => g = index /\ (Whole \in index.kept => index.seen = Whole)
      /\ g \in File(Contents) /\ g.seen \in g.kept /\ g.kept \subseteq {Absent, Torn, Whole}
  BY <1>1, BootPlace
<1>4. /\ f \in File(Contents) /\ f.seen = Torn /\ f.kept = g.kept \cup {Torn} /\ Torn # Absent
      /\ Torn # Whole
  BY <1>3, EntryFacts, DistinctContents
<1>5. CASE ~ Exists(g) /\ Put(Now, f) /\ Proceed
  <2> HIDE DEF f, g
  <2>1. g.seen = Absent /\ UNCHANGED acked BY <1>5 DEF Exists, OpenNew
  <2>2. CASE Now.name = "marker"
    <3>1. Absent \notin file[Now.op].marker.kept => Absent \notin f.kept BY <1>3, <1>4, <2>2
    <3> QED BY <1>1, <1>3, <1>4, <1>5, <2>1, <2>2, <3>1, BootMarkerPut
  <2>3. CASE Now.name = "index"
    <3>1. Whole \notin f.kept BY <1>3, <1>4, <2>1, <2>3, DistinctContents
    <3> QED BY <1>1, <1>3, <1>4, <1>5, <2>1, <2>3, <3>1, BootIndexPut
  <2> QED BY <1>3, <2>2, <2>3
<1>6. ASSUME UNCHANGED <<file, index, acked>>, Become("refused") PROVE IInv'
  <2>1. Data' BY <1>2, <1>6, DataSame
  <2>2. proc' \in Procs /\ proc'.phase = "refused" /\ proc'.attempts = 0
    BY <1>2, <1>6, BecomeFacts DEF Phases
  <2> QED BY <1>2, <2>1, <2>2, Quietly
<1>7. ASSUME UNCHANGED <<file, index, acked>>, g.seen = Whole,
             proc' = [proc EXCEPT !.todo = SubSeq(@, 4, Len(@))]
      PROVE  IInv'
  <2> DEFINE s == proc.todo
             t == SubSeq(s, 4, Len(s))
  <2>1. s \in Seq(BootSteps) /\ Now = s[1] /\ Adjacent(s) /\ Len(s) \in Nat /\ 1 <= Len(s)
        /\ Now \in BootSteps
    BY <1>2, BootFacts
  <2>2. 1 + 2 \in DOMAIN s /\ s[1 + 1].kind = "write" /\ s[1 + 2].kind = "sync"
    BY <1>1, <2>1 DEF Adjacent
  <2>3. 3 <= Len(s) BY <2>1, <2>2
  <2>4. t \in Seq(BootSteps) /\ Len(t) = Len(s) - 3 /\ \A i \in 1..(Len(s) - 3) : t[i] = s[i + 3]
    BY <2>1, <2>3
  <2>5. \A i \in 1..3 : i # 1 => s[i].kind \notin {"open", "syncActive"} BY <2>2
  <2>6. proc' = [proc EXCEPT !.todo = t] BY <1>7
  <2>7. Data' BY <1>2, <1>7, DataSame
  <2>8. ASSUME NEW o \in OperationIds
        PROVE  /\ Needed(o)' => Needed(o)
               /\ file'[o].marker = file[o].marker
               /\ s[1] = Step("open", "marker", o) => file'[o].marker.seen # Absent
               /\ s[1] # Step("syncActive", "marker", NoOp)
    <3>1. Needed(o)' => Needed(o) BY <1>2, <1>7 DEF Needed
    <3>2. s[1] # Step("syncActive", "marker", NoOp) BY <1>1, <2>1 DEF Step
    <3>3. s[1] = Step("open", "marker", o) => Now.name = "marker" /\ Now.op = o BY <2>1 DEF Step
    <3>4. s[1] = Step("open", "marker", o) => file'[o].marker.seen # Absent
      BY <1>3, <1>7, <3>3, DistinctContents
    <3> QED BY <1>7, <3>1, <3>2, <3>4
  <2>9. 3 \in Nat /\ 1 <= 3 /\ (Rank(s[1]) < 4 => index'.kept \subseteq index.kept) BY <1>7
  <2>10. s # <<>> BY <1>2
  <2> HIDE DEF t
  <2> QED BY <1>2, <2>3, <2>4, <2>5, <2>6, <2>7, <2>8, <2>9, <2>10, BootAdvances
<1>8. \/ ~ Exists(g) /\ Put(Now, f) /\ Proceed
      \/ UNCHANGED <<file, index, acked>> /\ Become("refused")
      \/ /\ UNCHANGED <<file, index, acked>> /\ g.seen = Whole
         /\ proc' = [proc EXCEPT !.todo = SubSeq(@, 4, Len(@))]
  BY DEF OpenNew
<1> QED BY <1>5, <1>6, <1>7, <1>8

LEMMA BootWrite == ASSUME IInv, In("boot"), WriteNew, Elsewhere PROVE IInv'
<1> DEFINE g == Get(Now)
           f == Written(g, Whole, Torn)
<1>1. Scripted /\ Now.kind = "write" /\ Proceed /\ UNCHANGED acked BY DEF WriteNew
<1>2. /\ Now.name \in {"marker", "index"} /\ FirstContent(Now.name) = Whole
      /\ Now.name = "marker" => Now.op \in OperationIds /\ g = file[Now.op].marker
      /\ g \in File(Contents) /\ g.seen \in g.kept /\ g.kept \subseteq {Absent, Torn, Whole}
  BY <1>1, BootPlace
<1>3. /\ f \in File(Contents) /\ f.seen = Whole /\ f.kept = g.kept \cup {Torn, Whole}
      /\ Absent # Torn /\ Absent # Whole
  <2>1. Whole \in Contents /\ Torn \in Contents /\ g \in File(Contents) /\ g.seen \in g.kept
    BY <1>2, ContentFacts
  <2> HIDE DEF g
  <2>2. f \in File(Contents) /\ f.seen = Whole /\ f.kept = g.kept \cup {Torn, Whole}
    BY <2>1, PrimitiveFacts
  <2> QED BY <2>2, DistinctContents
<1>4. Put(Now, f) BY <1>2 DEF WriteNew
<1> HIDE DEF f, g
<1>5. f.seen \in f.kept /\ f.kept \subseteq {Absent, Torn, Whole} BY <1>2, <1>3
<1>6. CASE Now.name = "marker"
  <2>1. Absent \notin file[Now.op].marker.kept => Absent \notin f.kept BY <1>2, <1>3, <1>6
  <2> QED BY <1>1, <1>3, <1>4, <1>5, <1>6, <2>1, BootMarkerPut
<1>7. CASE Now.name = "index"
  BY <1>1, <1>3, <1>4, <1>5, <1>7, BootIndexPut
<1> QED BY <1>2, <1>6, <1>7

LEMMA BootSync == ASSUME IInv, In("boot"), SyncNew, Elsewhere PROVE IInv'
<1> DEFINE g == Get(Now)
           f == Synced(g)
<1>1. Scripted /\ Now.kind = "sync" /\ Proceed /\ UNCHANGED acked /\ Put(Now, f) BY DEF SyncNew
<1>2. /\ Now.name \in {"marker", "index"}
      /\ Now.name = "marker" => Now.op \in OperationIds /\ g = file[Now.op].marker
      /\ Now.name = "index" => g = index /\ (Whole \in index.kept => index.seen = Whole)
      /\ g \in File(Contents) /\ g.seen \in g.kept /\ g.kept \subseteq {Absent, Torn, Whole}
  BY <1>1, BootPlace
<1>3. f \in File(Contents) /\ f.seen = g.seen /\ f.kept = (g.kept \cap {Absent}) \cup {g.seen}
  BY <1>2, EntryFacts
<1> HIDE DEF f, g
<1>4. f.seen \in f.kept /\ f.kept \subseteq {Absent, Torn, Whole} BY <1>2, <1>3
<1>5. CASE Now.name = "marker"
  <2>1. Absent \notin file[Now.op].marker.kept => Absent \notin f.kept BY <1>2, <1>3, <1>5
  <2>2. file[Now.op].marker.seen # Absent \/ Now.kind = "open" => f.seen # Absent
    BY <1>1, <1>2, <1>3, <1>5
  <2> QED BY <1>1, <1>3, <1>4, <1>5, <2>1, <2>2, BootMarkerPut
<1>6. CASE Now.name = "index"
  <2>1. Whole \in f.kept => f.seen = Whole BY <1>2, <1>3, DistinctContents
  <2> QED BY <1>1, <1>3, <1>4, <1>6, <2>1, BootIndexPut
<1> QED BY <1>2, <1>5, <1>6

LEMMA DirectoryFacts ==
  ASSUME Data, SyncDirectory, UNCHANGED <<ran, loose>>
  PROVE  /\ Data' /\ UNCHANGED acked
         /\ \A o \in OperationIds, n \in Names :
              /\ file'[o][n].seen = file[o][n].seen /\ file'[o][n].kept \subseteq file[o][n].kept
              /\ file[o][n].seen # Absent /\ (n = "marker" <=> Now.kind = "syncActive") =>
                   Absent \notin file'[o][n].kept
         /\ index'.kept \subseteq index.kept
<1> DEFINE here == IF Now.kind = "syncActive" THEN {"marker"} ELSE Names \ {"marker"}
<1>1. Typed /\ UNCHANGED acked BY DEF Data, SyncDirectory
<1>2. file' = [o \in OperationIds |-> [n \in Names |->
                IF n \in here THEN EntrySynced(file[o][n]) ELSE file[o][n]]]
  BY DEF SyncDirectory
<1> HIDE DEF here
<1>3. ASSUME NEW o \in OperationIds, NEW n \in Names
      PROVE  /\ file'[o][n] \in File(Contents)
             /\ file'[o][n].seen = file[o][n].seen /\ file'[o][n].kept \subseteq file[o][n].kept
             /\ file'[o][n].seen \in file'[o][n].kept
             /\ n \in here /\ file[o][n].seen # Absent => file'[o][n].kept = file[o][n].kept \ {Absent}
  <2> DEFINE g == file[o][n]
             e == EntrySynced(g)
  <2>1. g \in File(Contents) /\ g.seen \in g.kept BY <1>1, FileFacts DEF Data, Lasting, Shaped
  <2>2. /\ e \in File(Contents) /\ e.seen = g.seen /\ e.kept \subseteq g.kept /\ e.seen \in e.kept
        /\ g.seen # Absent => e.kept = g.kept \ {Absent}
    BY <2>1, EntryFacts
  <2>3. file'[o][n] = IF n \in here THEN e ELSE g BY <1>2
  <2> HIDE DEF g, e
  <2>4. n \in here => file'[o][n] = e BY <2>3
  <2>5. n \notin here => file'[o][n] = g BY <2>3
  <2>6. CASE n \in here BY <2>2, <2>4, <2>6 DEF g
  <2>7. CASE n \notin here BY <2>1, <2>5, <2>7 DEF g
  <2> QED BY <2>6, <2>7
<1>4. file' \in [OperationIds -> [Names -> File(Contents)]] BY <1>2, <1>3
<1>5. /\ index' \in File(Contents) /\ index'.seen = index.seen /\ index'.seen \in index'.kept
      /\ index'.kept \subseteq index.kept
  <2>1. index \in File(Contents) /\ index.seen \in index.kept BY <1>1 DEF Data, Typed, IndexShaped
  <2>2. index' = EntrySynced(index) \/ index' = index BY DEF SyncDirectory
  <2> QED BY <2>1, <2>2, EntryFacts
<1>6. Data' BY <1>1, <1>3, <1>4, <1>5, DataShrinks
<1>7. \A n \in Names : (n = "marker" <=> Now.kind = "syncActive") => n \in here BY DEF here
<1> QED BY <1>1, <1>3, <1>5, <1>6, <1>7

LEMMA BootSyncDirectory == ASSUME IInv, In("boot"), SyncDirectory, Elsewhere PROVE IInv'
<1>1. Scripted /\ Now.kind \in {"syncReports", "syncActive"} /\ Proceed BY DEF SyncDirectory
<1>2. Data /\ Rest' /\ UNCHANGED <<ran, loose>> /\ proc.todo # <<>> BY <1>1, ScriptFacts
<1>3. /\ Data' /\ UNCHANGED acked
      /\ \A o \in OperationIds, n \in Names :
           /\ file'[o][n].seen = file[o][n].seen /\ file'[o][n].kept \subseteq file[o][n].kept
           /\ file[o][n].seen # Absent /\ (n = "marker" <=> Now.kind = "syncActive") =>
                Absent \notin file'[o][n].kept
      /\ index'.kept \subseteq index.kept
  BY <1>2, DirectoryFacts
<1>4. ASSUME NEW o \in OperationIds
      PROVE  /\ Needed(o)' => Needed(o)
             /\ file'[o].marker.seen = file[o].marker.seen
             /\ file'[o].marker.kept \subseteq file[o].marker.kept
             /\ Now # Step("open", "marker", o)
             /\ Now = Step("syncActive", "marker", NoOp) /\ file[o].marker.seen # Absent =>
                  Absent \notin file'[o].marker.kept
  <2>1. /\ file'[o].marker.seen = file[o].marker.seen
        /\ file'[o].marker.kept \subseteq file[o].marker.kept
        /\ file[o].marker.seen # Absent /\ Now.kind = "syncActive" => Absent \notin file'[o].marker.kept
        /\ file'[o].report.kept \subseteq file[o].report.kept
    BY <1>3 DEF Names
  <2>2. file'[o].report.seen \in file'[o].report.kept BY <1>3 DEF Data, Lasting, Shaped, Names
  <2>3. Needed(o)' => Needed(o) BY <1>2, <2>1, <2>2 DEF Needed
  <2>4. /\ Now # Step("open", "marker", o)
        /\ Now = Step("syncActive", "marker", NoOp) => Now.kind = "syncActive"
    BY <1>1 DEF Step
  <2> QED BY <2>1, <2>3, <2>4
<1> QED BY <1>1, <1>2, <1>3, <1>4, BootOne

LEMMA BootUnlink == ASSUME IInv, In("boot"), UnlinkOld, Elsewhere PROVE IInv'
<1>1. Scripted /\ Now.kind = "unlink" /\ Proceed /\ UNCHANGED acked BY DEF UnlinkOld
<1>2. Data /\ Typed /\ Rest' /\ UNCHANGED <<ran, loose>> /\ proc.todo # <<>> BY <1>1, ScriptFacts
<1>3. Now.name = "reserve" /\ Now.op \in OperationIds BY <1>1, <1>2, BootFacts, BootStepsFacts
<1> DEFINE o == Now.op
           g == file[o].reserve
           f == Unlinked(g)
<1>4. g \in File(Contents) /\ g.seen \in g.kept /\ g.kept \subseteq {Absent, Torn, Whole}
  BY <1>2, <1>3, FileFacts DEF Data, Lasting, Shaped, Names
<1>5. f \in File(Contents) /\ f.seen = Absent /\ f.kept = g.kept \cup {Absent} BY <1>4, EntryFacts
<1>6. file' = [file EXCEPT ![o]["reserve"] = f] /\ UNCHANGED index BY <1>3 DEF UnlinkOld, Put, Get
<1> HIDE DEF f, g
<1>7. "reserve" \in Names \ {"journal"} /\ o \in OperationIds BY <1>3 DEF Names
<1>8. f.seen \in f.kept /\ f.kept \subseteq {Absent, Torn, Whole} BY <1>4, <1>5
<1>9. Data' BY <1>1, <1>2, <1>5, <1>6, <1>7, <1>8, DataOther
<1>10. /\ \A m \in Names : m # "reserve" => file'[o][m] = file[o][m]
       /\ \A p \in OperationIds : p # o => file'[p] = file[p]
  BY <1>2, <1>5, <1>6, <1>7, PutFacts
<1>11. ASSUME NEW p \in OperationIds
       PROVE  /\ Needed(p)' => Needed(p)
              /\ file'[p].marker = file[p].marker
              /\ Now # Step("open", "marker", p) /\ Now # Step("syncActive", "marker", NoOp)
  <2>1. file'[p].marker = file[p].marker /\ file'[p].report = file[p].report BY <1>10 DEF Names
  <2>2. Now # Step("open", "marker", p) /\ Now # Step("syncActive", "marker", NoOp)
    BY <1>1 DEF Step
  <2> QED BY <1>2, <2>1, <2>2 DEF Needed
<1> QED BY <1>1, <1>2, <1>6, <1>9, <1>11, BootOne

LEMMA BootFailsStep == ASSUME IInv, BootFails, Elsewhere PROVE IInv'
<1>1. Scripted /\ In("boot") /\ Become("refused") /\ UNCHANGED acked BY DEF BootFails, Scripted, In
<1>2. /\ Data /\ Rest' /\ UNCHANGED <<ran, loose>> /\ proc \in Procs /\ proc.attempts = 0
      /\ proc.todo # <<>>
  BY <1>1, ScriptFacts
<1>3. proc' \in Procs /\ proc'.phase = "refused" /\ proc'.attempts = 0
  BY <1>1, <1>2, BecomeFacts DEF Phases
<1>4. Data'
  <2>1. CASE UNCHANGED <<file, index>> BY <1>1, <1>2, <2>1, DataSame
  <2>2. CASE Now.kind \in {"write", "sync"} /\ Now.name = "marker" /\ Put(Now, Unlinked(Get(Now)))
    <3> DEFINE g == Get(Now)
               f == Unlinked(g)
    <3>1. g \in File(Contents) /\ g.seen \in g.kept /\ g.kept \subseteq {Absent, Torn, Whole}
      BY <1>1, <2>2, BootPlace
    <3>2. f \in File(Contents) /\ f.seen = Absent /\ f.kept = g.kept \cup {Absent} BY <3>1, EntryFacts
    <3>3. Put(Now, f) BY <2>2
    <3> HIDE DEF f, g
    <3> QED BY <1>1, <2>2, <3>1, <3>2, <3>3, BootMarkerData
  <2> QED BY <2>1, <2>2 DEF BootFails
<1> QED BY <1>2, <1>3, <1>4, Quietly

-----------------------------------------------------------------------------
(* The reservation. *)

LEMMA ReserveFacts ==
  ASSUME IInv, In("reserve")
  PROVE  /\ proc.op \in OperationIds /\ acked[proc.op] = <<>>
         /\ Left \in 1..16 /\ ReserveFiles(proc.op, Left)
         /\ proc.todo \in Seq(Steps) /\ proc.todo # <<>> /\ Scripted
         /\ Now = ReserveScript(proc.op)[17 - Left]
         /\ Left = 16 => Now = Step("open", "report", proc.op)
         /\ Left = 15 => Now = Step("write", "report", proc.op)
         /\ Left = 14 => Now = Step("sync", "report", proc.op)
         /\ Left = 13 => Now = Step("open", "journal", proc.op)
         /\ Left = 12 => Now = Step("write", "journal", proc.op)
         /\ Left = 11 => Now = Step("sync", "journal", proc.op)
         /\ Left = 10 => Now = Step("syncReports", "journal", proc.op)
         /\ Left = 9 => Now = Step("open", "marker", proc.op)
         /\ Left = 8 => Now = Step("write", "marker", proc.op)
         /\ Left = 7 => Now = Step("sync", "marker", proc.op)
         /\ Left = 6 => Now = Step("syncActive", "marker", proc.op)
         /\ Left = 5 => Now = Step("open", "reserve", proc.op)
         /\ Left = 4 => Now = Step("write", "reserve", proc.op)
         /\ Left = 3 => Now = Step("sync", "reserve", proc.op)
         /\ Left = 2 => Now = Step("syncReports", "reserve", proc.op)
         /\ Left = 1 => Now = Step("capacity", "reserve", proc.op)
<1>1. /\ proc.op \in OperationIds /\ acked[proc.op] = <<>>
      /\ Left \in 1..16 /\ ReserveFiles(proc.op, Left)
      /\ \A i \in 1..Left : proc.todo[i] = ReserveScript(proc.op)[16 - Left + i]
  BY DEF IInv, Reserving
<1>2. proc.todo \in Seq(Steps) BY DEF IInv, Procs
<1>3. proc.todo # <<>>
  <2>1. SUFFICES ASSUME proc.todo = <<>> PROVE FALSE OBVIOUS
  <2>2. Left = 0 BY <2>1 DEF Left
  <2> QED BY <1>1, <2>2
<1>4. Now = proc.todo[1] BY <1>2, <1>3, TailFacts DEF Now
<1> HIDE DEF Left
<1>5. Now = ReserveScript(proc.op)[17 - Left]
  <2>1. 1 \in 1..Left /\ 16 - Left + 1 = 17 - Left BY <1>1
  <2> QED BY <1>1, <1>4, <2>1
<1>6. Scripted BY <1>3 DEF Scripted, In
<1> QED BY <1>1, <1>2, <1>3, <1>5, <1>6, ReserveScriptFacts

(* Which step is due, by its kind. *)
LEMMA ReserveKinds ==
  ASSUME IInv, In("reserve")
  PROVE  /\ Now.op = proc.op /\ Now.name \in Names
         /\ Now.kind \in {"open", "write", "sync", "syncReports", "syncActive", "capacity"}
         /\ Now.kind = "open" =>
              \/ Left = 16 /\ Now.name = "report"
              \/ Left = 13 /\ Now.name = "journal"
              \/ Left = 9 /\ Now.name = "marker"
              \/ Left = 5 /\ Now.name = "reserve"
         /\ Now.kind = "write" =>
              \/ Left = 15 /\ Now.name = "report"
              \/ Left = 12 /\ Now.name = "journal"
              \/ Left = 8 /\ Now.name = "marker"
              \/ Left = 4 /\ Now.name = "reserve"
         /\ Now.kind = "sync" =>
              \/ Left = 14 /\ Now.name = "report"
              \/ Left = 11 /\ Now.name = "journal"
              \/ Left = 7 /\ Now.name = "marker"
              \/ Left = 3 /\ Now.name = "reserve"
         /\ Now.kind = "syncReports" => Left \in {2, 10}
         /\ Now.kind = "syncActive" => Left = 6
         /\ (Now.kind = "capacity" <=> Left = 1)
<1>1. Left \in 1..16 BY ReserveFacts
<1>2. \A kind, name, o : LET x == Step(kind, name, o) IN x.kind = kind /\ x.name = name /\ x.op = o
  BY DEF Step
<1> HIDE DEF Left
<1>3. Left = 16 => Now.kind = "open" /\ Now.name = "report" /\ Now.op = proc.op
  BY <1>2, ReserveFacts
<1>4. Left = 15 => Now.kind = "write" /\ Now.name = "report" /\ Now.op = proc.op
  BY <1>2, ReserveFacts
<1>5. Left = 14 => Now.kind = "sync" /\ Now.name = "report" /\ Now.op = proc.op
  BY <1>2, ReserveFacts
<1>6. Left = 13 => Now.kind = "open" /\ Now.name = "journal" /\ Now.op = proc.op
  BY <1>2, ReserveFacts
<1>7. Left = 12 => Now.kind = "write" /\ Now.name = "journal" /\ Now.op = proc.op
  BY <1>2, ReserveFacts
<1>8. Left = 11 => Now.kind = "sync" /\ Now.name = "journal" /\ Now.op = proc.op
  BY <1>2, ReserveFacts
<1>9. Left = 10 => Now.kind = "syncReports" /\ Now.name = "journal" /\ Now.op = proc.op
  BY <1>2, ReserveFacts
<1>10. Left = 9 => Now.kind = "open" /\ Now.name = "marker" /\ Now.op = proc.op
  BY <1>2, ReserveFacts
<1>11. Left = 8 => Now.kind = "write" /\ Now.name = "marker" /\ Now.op = proc.op
  BY <1>2, ReserveFacts
<1>12. Left = 7 => Now.kind = "sync" /\ Now.name = "marker" /\ Now.op = proc.op
  BY <1>2, ReserveFacts
<1>13. Left = 6 => Now.kind = "syncActive" /\ Now.name = "marker" /\ Now.op = proc.op
  BY <1>2, ReserveFacts
<1>14. Left = 5 => Now.kind = "open" /\ Now.name = "reserve" /\ Now.op = proc.op
  BY <1>2, ReserveFacts
<1>15. Left = 4 => Now.kind = "write" /\ Now.name = "reserve" /\ Now.op = proc.op
  BY <1>2, ReserveFacts
<1>16. Left = 3 => Now.kind = "sync" /\ Now.name = "reserve" /\ Now.op = proc.op
  BY <1>2, ReserveFacts
<1>17. Left = 2 => Now.kind = "syncReports" /\ Now.name = "reserve" /\ Now.op = proc.op
  BY <1>2, ReserveFacts
<1>18. Left = 1 => Now.kind = "capacity" /\ Now.name = "reserve" /\ Now.op = proc.op
  BY <1>2, ReserveFacts
<1> DEFINE k == Now.kind
           n == Now.name
           l == Left
           p == Now.op
<1> HIDE DEF k, n, l, p
<1>19. p = proc.op /\ n \in {"report", "journal", "marker", "reserve"}
  BY <1>1, <1>3, <1>4, <1>5, <1>6, <1>7, <1>8, <1>9, <1>10, <1>11, <1>12, <1>13, <1>14, <1>15, <1>16, <1>17, <1>18 DEF k, n, l, p
<1>20. /\ k \in {"open", "write", "sync", "syncReports", "syncActive", "capacity"}
       /\ k = "open" =>
            \/ l = 16 /\ n = "report"
            \/ l = 13 /\ n = "journal"
            \/ l = 9 /\ n = "marker"
            \/ l = 5 /\ n = "reserve"
       /\ k = "write" =>
            \/ l = 15 /\ n = "report"
            \/ l = 12 /\ n = "journal"
            \/ l = 8 /\ n = "marker"
            \/ l = 4 /\ n = "reserve"
       /\ k = "sync" =>
            \/ l = 14 /\ n = "report"
            \/ l = 11 /\ n = "journal"
            \/ l = 7 /\ n = "marker"
            \/ l = 3 /\ n = "reserve"
       /\ k = "syncReports" => l \in {2, 10}
       /\ k = "syncActive" => l = 6
       /\ (k = "capacity" <=> l = 1)
  BY <1>1, <1>3, <1>4, <1>5, <1>6, <1>7, <1>8, <1>9, <1>10, <1>11, <1>12, <1>13, <1>14, <1>15, <1>16, <1>17, <1>18 DEF k, n, l, p
<1> QED BY <1>19, <1>20 DEF k, n, l, p, Names

(* A step of the reservation moves its invariant on. *)
LEMMA ReserveAdvances ==
  ASSUME IInv, In("reserve"), Data', Rest', Proceed, UNCHANGED acked, Left # 1,
         NEW n \in Nat, n = Left - 1, NEW o \in OperationIds, o = proc.op, ReserveFiles(o, n)'
  PROVE  IInv'
<1> DEFINE s == proc.todo
           t == Tail(s)
           r == ReserveScript(o)
<1>1. /\ acked[o] = <<>> /\ Left \in 1..16 /\ s \in Seq(Steps) /\ s # <<>> /\ Scripted
  BY ReserveFacts
<1>2. \A i \in 1..Left : s[i] = r[16 - Left + i] BY DEF IInv, Reserving
<1>3. /\ t \in Seq(Steps) /\ Len(t) = Left - 1 /\ \A i \in 1..(Left - 1) : t[i] = s[i + 1]
  BY <1>1, TailFacts DEF Left
<1>4. proc \in Procs /\ proc.attempts = 0 BY DEF IInv, Operating, Working, WorkPhases, In
<1>5. /\ proc' \in Procs /\ proc'.todo = t /\ proc'.phase = "reserve" /\ proc'.op = o
      /\ proc'.attempts = 0
  BY <1>3, <1>4, ProceedFacts DEF Proceed, In
<1>6. Left' = n BY <1>3, <1>5 DEF Left
<1> HIDE DEF t, r, Left
<1>7. n \in 1..15 /\ n + 1 = Left BY <1>1
<1>8. \A i \in 1..n : t[i] = r[16 - n + i]
  <2>1. SUFFICES ASSUME NEW i \in 1..n PROVE t[i] = r[16 - n + i] OBVIOUS
  <2>2. i + 1 \in 1..Left /\ 16 - Left + (i + 1) = 16 - n + i /\ i \in 1..(Left - 1) BY <1>7
  <2>3. t[i] = s[i + 1] BY <1>3, <2>2
  <2>4. s[i + 1] = r[16 - Left + (i + 1)] BY <1>2, <2>2
  <2> QED BY <2>2, <2>3, <2>4
<1>9. Reserving'
  <2>1. ReserveFiles(proc.op, Left)' BY <1>5, <1>6 DEF ReserveFiles
  <2>2. Left' \in 1..16 BY <1>6, <1>7
  <2>3. \A i \in 1..Left' : proc'.todo[i] = ReserveScript(proc'.op)[16 - Left' + i]
    BY <1>5, <1>6, <1>8 DEF r
  <2> QED BY <1>1, <1>5, <2>1, <2>2, <2>3 DEF Reserving
<1>10. Booting' /\ Undoing' BY <1>5 DEF Booting, Undoing, In
<1> QED BY <1>5, <1>9, <1>10, Scripting

LEMMA ReservePut ==
  ASSUME IInv, In("reserve"), Elsewhere, Now.kind \in {"open", "write", "sync"},
         NEW f \in File(Contents), Put(Now, f), f.seen \in f.kept, UNCHANGED acked,
         f.kept \subseteq Get(Now).kept \cup {Absent, Torn, FirstContent(Now.name)}
  PROVE  /\ Data' /\ Rest' /\ file'[proc.op][Now.name] = f /\ UNCHANGED index
         /\ \A m \in Names : m # Now.name => file'[proc.op][m] = file[proc.op][m]
<1>1. proc.op \in OperationIds /\ acked[proc.op] = <<>> /\ Scripted BY ReserveFacts
<1>2. Data /\ Typed /\ Rest' /\ UNCHANGED <<ran, loose>> BY <1>1, ScriptFacts
<1> DEFINE o == proc.op
           n == Now.name
<1>3. n \in Names /\ Now.op = o BY ReserveKinds
<1>4. file' = [file EXCEPT ![o][n] = f] /\ UNCHANGED index /\ Get(Now) = file[o][n]
  BY <1>3 DEF Put, Get, Names
<1> HIDE DEF n
<1>5. f.kept \subseteq file[o][n].kept \cup {Absent, Torn, FirstContent(n)} BY <1>4 DEF n
<1>6. Data' BY <1>1, <1>2, <1>3, <1>4, <1>5, FreshPut
<1>7. file'[o][n] = f /\ \A m \in Names : m # n => file'[o][m] = file[o][m]
  BY <1>1, <1>2, <1>3, <1>4, PutFacts, ZenonT(30)
<1> QED BY <1>2, <1>4, <1>6, <1>7 DEF n

LEMMA ReservePlace ==
  ASSUME IInv, In("reserve"), Elsewhere
  PROVE  /\ Data /\ Rest' /\ UNCHANGED <<ran, loose>> /\ Now.name \in Names
         /\ proc.op \in OperationIds /\ Get(Now) = file[proc.op][Now.name]
         /\ Get(Now) \in File(Contents) /\ Get(Now).seen \in Get(Now).kept
         /\ FirstContent(Now.name) \in Contents
         /\ Now.name # "journal" => FirstContent(Now.name) = Whole
         /\ Left \in 1..16 /\ ReserveFiles(proc.op, Left)
<1>1. /\ proc.op \in OperationIds /\ Scripted /\ Left \in 1..16 /\ ReserveFiles(proc.op, Left)
  BY ReserveFacts
<1>2. Data /\ Typed /\ Rest' /\ UNCHANGED <<ran, loose>> BY <1>1, ScriptFacts
<1>3. Now.op = proc.op /\ Now.name \in Names BY ReserveKinds
<1>4. Get(Now) = file[proc.op][Now.name] BY <1>3 DEF Get, Names
<1>5. file[proc.op][Now.name] \in File(Contents) BY <1>1, <1>2, <1>3, FileFacts
<1>6. file[proc.op][Now.name].seen \in file[proc.op][Now.name].kept
  BY <1>1, <1>2, <1>3 DEF Data, Lasting, Shaped
<1>7. FirstContent(Now.name) \in Contents BY ContentFacts DEF FirstContent
<1> QED BY <1>1, <1>2, <1>3, <1>4, <1>5, <1>6, <1>7 DEF FirstContent

LEMMA ReserveOpen == ASSUME IInv, In("reserve"), OpenNew, Elsewhere PROVE IInv'
<1> DEFINE g == Get(Now)
           f == Created(g)
<1>1. UNCHANGED acked /\ Now.kind = "open" BY DEF OpenNew
<1>a. PICK o \in OperationIds : o = proc.op BY ReservePlace
<1>b. PICK n \in Nat : n = Left - 1
  <2>1. Left \in 1..16 BY ReservePlace
  <2> QED BY <2>1
<1>2. /\ g = file[o][Now.name] /\ g \in File(Contents) /\ g.seen \in g.kept /\ Left \in 1..16
      /\ ReserveFiles(o, Left) /\ o \in OperationIds
  BY <1>a, ReservePlace
<1>3. \/ Left = 16 /\ Now.name = "report"
      \/ Left = 13 /\ Now.name = "journal"
      \/ Left = 9 /\ Now.name = "marker"
      \/ Left = 5 /\ Now.name = "reserve"
  BY <1>1, ReserveKinds
<1>4. ~ Exists(g) BY <1>2, <1>3 DEF ReserveFiles
<1>5. Put(Now, f) /\ Proceed BY <1>4 DEF OpenNew
<1>6. f \in File(Contents) /\ f.seen = Torn /\ f.kept = g.kept \cup {Torn} BY <1>2, EntryFacts
<1> HIDE DEF f, g, Left
<1>7. f.seen \in f.kept /\ f.kept \subseteq g.kept \cup {Absent, Torn, FirstContent(Now.name)} BY <1>6
<1>8. f.kept \subseteq Get(Now).kept \cup {Absent, Torn, FirstContent(Now.name)} BY <1>7 DEF g
<1>9. /\ Data' /\ Rest' /\ file'[o][Now.name] = f
      /\ \A m \in Names : m # Now.name => file'[o][m] = file[o][m]
  BY <1>a, <1>1, <1>5, <1>6, <1>7, <1>8, ReservePut
<1>10. Left # 1 BY <1>2, <1>3
<1>11. ReserveFiles(o, n)'
  <2>1. Torn # Absent BY DistinctContents
  <2>2. CASE Left = 16 /\ Now.name = "report"
    BY <1>b, <1>2, <1>9, <2>2 DEF ReserveFiles, Names, Exists
  <2>3. CASE Left = 13 /\ Now.name = "journal"
    BY <1>b, <1>2, <1>9, <2>3 DEF ReserveFiles, Names, Exists
  <2>4. CASE Left = 9 /\ Now.name = "marker"
    BY <1>b, <1>2, <1>6, <1>9, <2>1, <2>4 DEF ReserveFiles, Names, Exists
  <2>5. CASE Left = 5 /\ Now.name = "reserve"
    BY <1>b, <1>2, <1>9, <2>5 DEF ReserveFiles, Names, Exists
  <2> QED BY <1>3, <2>2, <2>3, <2>4, <2>5
<1> QED BY <1>a, <1>b, <1>1, <1>2, <1>5, <1>9, <1>10, <1>11, ReserveAdvances

LEMMA ReserveWrite == ASSUME IInv, In("reserve"), WriteNew, Elsewhere PROVE IInv'
<1> DEFINE g == Get(Now)
           c == FirstContent(Now.name)
           f == Written(g, c, Torn)
<1>1. UNCHANGED acked /\ Now.kind = "write" /\ Put(Now, f) /\ Proceed BY DEF WriteNew
<1>a. PICK o \in OperationIds : o = proc.op BY ReservePlace
<1>b. PICK n \in Nat : n = Left - 1
  <2>1. Left \in 1..16 BY ReservePlace
  <2> QED BY <2>1
<1>2. /\ g = file[o][Now.name] /\ g \in File(Contents) /\ g.seen \in g.kept /\ Left \in 1..16
      /\ ReserveFiles(o, Left) /\ o \in OperationIds /\ c \in Contents
      /\ Now.name # "journal" => c = Whole
  BY <1>a, ReservePlace
<1>3. \/ Left = 15 /\ Now.name = "report"
      \/ Left = 12 /\ Now.name = "journal"
      \/ Left = 8 /\ Now.name = "marker"
      \/ Left = 4 /\ Now.name = "reserve"
  BY <1>1, ReserveKinds
<1>4. f \in File(Contents) /\ f.seen = c /\ f.kept = g.kept \cup {Torn, c}
  <2>1. g \in File(Contents) /\ g.seen \in g.kept /\ c \in Contents /\ Torn \in Contents
    BY <1>2, ContentFacts
  <2> HIDE DEF c, g
  <2> QED BY <2>1, PrimitiveFacts
<1>5. Now.name = "journal" => c = Line(<<"operation-started">>) BY DEF FirstContent
<1> HIDE DEF f, Left
<1>6. f.seen \in f.kept /\ f.kept \subseteq Get(Now).kept \cup {Absent, Torn, FirstContent(Now.name)}
  BY <1>4
<1>7. /\ Data' /\ Rest' /\ file'[o][Now.name] = f
      /\ \A m \in Names : m # Now.name => file'[o][m] = file[o][m]
  BY <1>a, <1>1, <1>4, <1>6, ReservePut
<1>8. Left # 1 BY <1>2, <1>3
<1>9. ReserveFiles(o, n)'
  <2>1. Whole # Absent BY DistinctContents
  <2>2. CASE Left = 15 /\ Now.name = "report"
    BY <1>b, <1>2, <1>7, <2>2 DEF ReserveFiles, Names, Exists
  <2>3. CASE Left = 12 /\ Now.name = "journal"
    BY <1>b, <1>2, <1>4, <1>5, <1>7, <2>3 DEF ReserveFiles, Names, Exists
  <2>4. CASE Left = 8 /\ Now.name = "marker"
    BY <1>b, <1>2, <1>4, <1>7, <2>1, <2>4 DEF ReserveFiles, Names, Exists
  <2>5. CASE Left = 4 /\ Now.name = "reserve"
    BY <1>b, <1>2, <1>7, <2>5 DEF ReserveFiles, Names, Exists
  <2> QED BY <1>3, <2>2, <2>3, <2>4, <2>5
<1> QED BY <1>a, <1>b, <1>1, <1>2, <1>7, <1>8, <1>9, ReserveAdvances

LEMMA ReserveSync == ASSUME IInv, In("reserve"), SyncNew, Elsewhere PROVE IInv'
<1> DEFINE g == Get(Now)
           f == Synced(g)
<1>1. UNCHANGED acked /\ Now.kind = "sync" /\ Put(Now, f) /\ Proceed BY DEF SyncNew
<1>a. PICK o \in OperationIds : o = proc.op BY ReservePlace
<1>b. PICK n \in Nat : n = Left - 1
  <2>1. Left \in 1..16 BY ReservePlace
  <2> QED BY <2>1
<1>2. /\ g = file[o][Now.name] /\ g \in File(Contents) /\ g.seen \in g.kept /\ Left \in 1..16
      /\ ReserveFiles(o, Left) /\ o \in OperationIds
  BY <1>a, ReservePlace
<1>3. \/ Left = 14 /\ Now.name = "report"
      \/ Left = 11 /\ Now.name = "journal"
      \/ Left = 7 /\ Now.name = "marker"
      \/ Left = 3 /\ Now.name = "reserve"
  BY <1>1, ReserveKinds
<1>4. f \in File(Contents) /\ f.seen = g.seen /\ f.kept = (g.kept \cap {Absent}) \cup {g.seen}
  BY <1>2, EntryFacts
<1> HIDE DEF f, Left
<1>5. f.seen \in f.kept /\ f.kept \subseteq Get(Now).kept \cup {Absent, Torn, FirstContent(Now.name)}
  BY <1>2, <1>4
<1>6. /\ Data' /\ Rest' /\ file'[o][Now.name] = f
      /\ \A m \in Names : m # Now.name => file'[o][m] = file[o][m]
  BY <1>a, <1>1, <1>4, <1>5, ReservePut
<1>7. Left # 1 BY <1>2, <1>3
<1> HIDE DEF g
<1>8. ReserveFiles(o, n)'
  <2>2. CASE Left = 14 /\ Now.name = "report"
    BY <1>b, <1>2, <1>6, <2>2 DEF ReserveFiles, Names, Exists
  <2>3. CASE Left = 11 /\ Now.name = "journal"
    BY <1>b, <1>2, <1>4, <1>6, <2>3 DEF ReserveFiles, Names, Exists
  <2>4. CASE Left = 7 /\ Now.name = "marker"
    BY <1>b, <1>2, <1>4, <1>6, <2>4 DEF ReserveFiles, Names, Exists
  <2>5. CASE Left = 3 /\ Now.name = "reserve"
    BY <1>b, <1>2, <1>6, <2>5 DEF ReserveFiles, Names, Exists
  <2> QED BY <1>3, <2>2, <2>3, <2>4, <2>5
<1> QED BY <1>a, <1>b, <1>1, <1>2, <1>6, <1>7, <1>8, ReserveAdvances

LEMMA ReserveSyncDirectory == ASSUME IInv, In("reserve"), SyncDirectory, Elsewhere PROVE IInv'
<1>1. Now.kind \in {"syncReports", "syncActive"} /\ Proceed BY DEF SyncDirectory
<1>a. PICK o \in OperationIds : o = proc.op BY ReservePlace
<1>b. PICK n \in Nat : n = Left - 1
  <2>1. Left \in 1..16 BY ReservePlace
  <2> QED BY <2>1
<1>2. /\ Data /\ Rest' /\ UNCHANGED <<ran, loose>> /\ Left \in 1..16
      /\ ReserveFiles(o, Left) /\ o \in OperationIds
  BY <1>a, ReservePlace
<1>3. /\ Data' /\ UNCHANGED acked
      /\ \A m \in Names :
           /\ file'[o][m].seen = file[o][m].seen /\ file'[o][m].kept \subseteq file[o][m].kept
           /\ file[o][m].seen # Absent /\ (m = "marker" <=> Now.kind = "syncActive") =>
                Absent \notin file'[o][m].kept
  BY <1>2, DirectoryFacts
<1>4. \/ Left = 10 /\ Now.kind = "syncReports"
      \/ Left = 6 /\ Now.kind = "syncActive"
      \/ Left = 2 /\ Now.kind = "syncReports"
  BY <1>1, ReserveKinds
<1> HIDE DEF Left
<1>5. Left # 1 BY <1>2, <1>4
<1>6. /\ \A m \in Names : Exists(file[o][m]) <=> Exists(file'[o][m])
      /\ file'[o].journal.seen = file[o].journal.seen
      /\ file'[o].journal.kept \subseteq file[o].journal.kept
      /\ file'[o].marker.kept \subseteq file[o].marker.kept
  BY <1>3 DEF Exists, Names
<1>7. ReserveFiles(o, n)'
  <2>1. CASE Left = 10 /\ Now.kind = "syncReports"
    <3>1. file[o].journal.seen # Absent BY <1>2, <2>1, DistinctContents DEF ReserveFiles
    <3>2. Absent \notin file'[o].journal.kept BY <1>3, <2>1, <3>1 DEF Names
    <3> QED BY <1>b, <1>2, <1>6, <2>1, <3>2 DEF ReserveFiles, Names
  <2>2. CASE Left = 6 /\ Now.kind = "syncActive"
    <3>1. file[o].marker.seen # Absent BY <1>2, <2>2 DEF ReserveFiles, Exists
    <3>2. Absent \notin file'[o].marker.kept BY <1>3, <2>2, <3>1 DEF Names
    <3> QED BY <1>b, <1>2, <1>6, <2>2, <3>2 DEF ReserveFiles, Names
  <2>3. CASE Left = 2 /\ Now.kind = "syncReports"
    BY <1>b, <1>2, <1>6, <2>3 DEF ReserveFiles, Names
  <2> QED BY <1>4, <2>1, <2>2, <2>3
<1> QED BY <1>a, <1>b, <1>1, <1>2, <1>3, <1>5, <1>7, ReserveAdvances

(* The last step of a reservation: its first line is acknowledged. *)
LEMMA CapacityStep == ASSUME IInv, CapacitySuffices, Elsewhere PROVE IInv'
<1>1. Scripted /\ Now.kind = "capacity" /\ Become("work") /\ UNCHANGED <<file, index>>
  BY DEF CapacitySuffices
<1>2. /\ Data /\ Typed /\ Rest' /\ UNCHANGED <<ran, loose>> /\ proc \in Procs /\ proc.attempts = 0
      /\ proc.todo # <<>>
  BY <1>1, ScriptFacts
<1>3. In("reserve")
  <2>1. ~ In("boot") BY <1>1, <1>2, BootFacts, BootStepsFacts
  <2>2. ~ In("undo")
    <3>1. SUFFICES ASSUME In("undo") PROVE FALSE OBVIOUS
    <3>2. proc.todo \in Seq(UndoSteps(proc.op)) BY <3>1 DEF IInv, Undoing
    <3>3. Now \in UndoSteps(proc.op) BY <1>2, <3>2, TailFacts DEF Now
    <3> QED BY <1>1, <3>3 DEF UndoSteps
  <2> QED BY <1>1, <2>1, <2>2 DEF Scripted, In
<1>4. Left = 1 BY <1>1, <1>3, ReserveKinds
<1>5. PICK o \in OperationIds : o = proc.op /\ acked[o] = <<>> /\ ReserveFiles(o, 1)
  BY <1>3, <1>4, ReserveFacts
<1> DEFINE first == <<"operation-started">>
           g == file[o].journal
<1>6. g.kept = {Line(first)} /\ g.seen = Line(first) /\ Absent \notin file[o].marker.kept
  <2>1. g.kept \subseteq {Absent, Line(first)} /\ Absent \notin g.kept /\ g.seen = Line(first)
        /\ Absent \notin file[o].marker.kept
    BY <1>5 DEF ReserveFiles
  <2>2. g.seen \in g.kept BY <1>2 DEF Data, Lasting, Shaped, Names
  <2> QED BY <2>1, <2>2
<1>7. acked' = [acked EXCEPT ![o] = first] BY <1>5 DEF CapacitySuffices
<1>8. /\ ran[o] = 0 /\ o \notin loose /\ first \in Seq(Events) /\ Fits(o, first)
      /\ \A i \in DOMAIN first : first[i] # "operation-completed"
  BY <1>2, <1>5, FreshFacts
<1>9. /\ acked' \in [OperationIds -> Seq(Events)] /\ acked'[o] = first
      /\ \A p \in OperationIds : p # o => acked'[p] = acked[p]
  BY <1>2, <1>7, <1>8 DEF Typed
<1>10. Line(first) \in Contents /\ Line(first).lines = first /\ first # <<>>
  BY <1>8, ContentFacts
<1>11. IsPrefix(first, first) BY <1>8, PrefixSelf
<1> HIDE DEF first
<1>12. Fits(o, first)' BY <1>2, <1>8, <1>9, <1>10, <1>11 DEF Fits, Owed
<1>13. ~ Done(Line(first)) BY <1>8, <1>10 DEF Done, Holds
<1>14. g \in File(Contents) /\ g.seen \in g.kept
  <2>1. "journal" \in Names BY DEF Names
  <2>2. file[o].journal \in File(Contents) BY <1>2, <2>1, FileFacts
  <2> QED BY <1>6, <2>2
<1>15. file' = [file EXCEPT ![o]["journal"] = g]
  <2>1. file \in [OperationIds -> [Names -> File(Contents)]] BY <1>2 DEF Typed
  <2>2. file[o] \in [Names -> File(Contents)] BY <2>1
  <2>3. file[o] = [file[o] EXCEPT !["journal"] = g] BY <2>2
  <2> QED BY <1>1, <2>1, <2>3
<1>16. \A c \in g.kept :
         /\ c.lines \in Seq(Events) /\ Fits(o, c.lines)'
         /\ Done(c) => /\ file[o].report.kept \subseteq {Final, Failed}
                       /\ file[o].report.seen = Final => file[o].report.kept = {Final}
  BY <1>6, <1>8, <1>10, <1>12, <1>13
<1>17. Data'
  <2> HIDE DEF g
  <2> QED BY <1>1, <1>2, <1>9, <1>14, <1>15, <1>16, DataJournal
<1>18. /\ proc' \in Procs /\ proc'.phase = "work" /\ proc'.todo = <<>> /\ proc'.op = o
       /\ proc'.attempts = 0
  BY <1>1, <1>2, <1>5, BecomeFacts DEF Phases
<1>19. Len(first) = 1 BY DEF first
<1>20. Operating'
  <2>1. acked'[o] # <<>> /\ Absent \notin file'[o].marker.kept BY <1>1, <1>6, <1>9, <1>10
  <2>2. ran'[o] <= 0 /\ 0 <= MaxCommands BY <1>2, <1>8, ReportFilesAssumption
  <2>3. Journal'.kept = {Line(first)} BY <1>1, <1>6, <1>18 DEF Journal
  <2>4. \A c \in Journal'.kept : Len(c.lines) <= 2 * 0 + 1
    <3>1. SUFFICES ASSUME NEW c \in Journal'.kept PROVE Len(c.lines) <= 2 * 0 + 1 OBVIOUS
    <3>2. c = Line(first) BY <2>3
    <3>3. Len(c.lines) = 1 BY <1>10, <1>19, <3>2
    <3> QED BY <3>3
  <2>5. Room' = 2 * 0 + 1 BY <1>18 DEF Room, In
  <2> QED BY <1>18, <2>1, <2>2, <2>4, <2>5 DEF Operating, Working, WorkPhases
<1>21. Reporting'
  <2>1. \A c \in Journal'.kept : ~ Done(c) BY <1>1, <1>6, <1>13, <1>18 DEF Journal
  <2> QED BY <1>18, <2>1 DEF Reporting, Unreported, In, Appending
<1>22. Reversible' BY <1>18 DEF Reversible, Appending, In
<1>23. Booting' /\ Reserving' /\ Undoing' BY <1>18 DEF Booting, Reserving, Undoing, In
<1>24. Commanding' BY <1>2, <1>18, RestCommanding
<1> QED BY <1>17, <1>18, <1>20, <1>21, <1>22, <1>23, <1>24 DEF IInv

(* The undo of a reservation. *)
LEMMA UndoFacts ==
  ASSUME IInv, In("undo"), proc.todo # <<>>
  PROVE  /\ proc.op \in OperationIds /\ acked[proc.op] = <<>> /\ Scripted
         /\ Tail(proc.todo) \in Seq(UndoSteps(proc.op)) /\ Now \in UndoSteps(proc.op)
<1>1. /\ proc.op \in OperationIds /\ acked[proc.op] = <<>>
      /\ proc.todo \in Seq(UndoSteps(proc.op))
  BY DEF IInv, Undoing
<1> QED BY <1>1, TailFacts DEF Now, Scripted, In

LEMMA UndoAdvances ==
  ASSUME IInv, In("undo"), proc.todo # <<>>, Data', Rest', Proceed, UNCHANGED acked
  PROVE  IInv'
<1>1. PICK o \in OperationIds : o = proc.op BY UndoFacts
<1>2. acked[o] = <<>> /\ Tail(proc.todo) \in Seq(UndoSteps(o)) BY <1>1, UndoFacts
<1>3. UndoSteps(o) \subseteq Steps BY DEF UndoSteps, Steps, Names
<1> DEFINE t == Tail(proc.todo)
<1>4. t \in Seq(Steps)
  <2> HIDE DEF t
  <2>1. t \in Seq(UndoSteps(o)) BY <1>2 DEF t
  <2> QED BY <1>3, <2>1
<1>5. proc \in Procs /\ proc.attempts = 0 BY DEF IInv, Operating, Working, WorkPhases, In
<1>6. proc' = [proc EXCEPT !.todo = t] BY DEF Proceed
<1> HIDE DEF t
<1>7. /\ proc' \in Procs /\ proc'.todo = t /\ proc'.phase = "undo" /\ proc'.op = o
      /\ proc'.attempts = 0
  BY <1>1, <1>4, <1>5, <1>6, ProceedFacts DEF In
<1>8. Undoing'
  <2>1. proc'.todo \in Seq(UndoSteps(o)) BY <1>2, <1>7 DEF t
  <2>2. acked'[proc'.op] = <<>> BY <1>2, <1>7
  <2>3. UndoSteps(o)' = UndoSteps(o) BY DEF UndoSteps
  <2> QED BY <1>7, <2>1, <2>2, <2>3 DEF Undoing
<1>9. Booting' /\ Reserving' BY <1>7 DEF Booting, Reserving, In
<1> QED BY <1>7, <1>8, <1>9, Scripting

LEMMA UndoUnlink == ASSUME IInv, In("undo"), UnlinkOld, Elsewhere PROVE IInv'
<1>1. Scripted /\ Now.kind = "unlink" /\ Proceed /\ UNCHANGED acked BY DEF UnlinkOld
<1>2. Data /\ Typed /\ Rest' /\ UNCHANGED <<ran, loose>> /\ proc.todo # <<>> BY <1>1, ScriptFacts
<1>3. PICK o \in OperationIds : o = proc.op /\ acked[o] = <<>> /\ Now \in UndoSteps(o)
  BY <1>2, UndoFacts
<1>4. PICK n \in Names : n = Now.name BY <1>1, <1>3 DEF UndoSteps
<1>5. Now.op = o /\ n # "index" BY <1>1, <1>3, <1>4 DEF UndoSteps, Names
<1> DEFINE g == file[o][n]
           f == Unlinked(g)
<1>6. g \in File(Contents) /\ g.seen \in g.kept BY <1>2, FileFacts DEF Data, Lasting, Shaped
<1>7. f \in File(Contents) /\ f.seen = Absent /\ f.kept = g.kept \cup {Absent} BY <1>6, EntryFacts
<1>8. file' = [file EXCEPT ![o][n] = f] /\ UNCHANGED index BY <1>4, <1>5 DEF UnlinkOld, Put, Get
<1>9. f.seen \in f.kept /\ f.kept \subseteq file[o][n].kept \cup {Absent, Torn, FirstContent(n)}
  BY <1>7
<1> HIDE DEF g, f
<1>10. Data' BY <1>1, <1>2, <1>3, <1>7, <1>8, <1>9, FreshPut
<1> QED BY <1>1, <1>2, <1>10, UndoAdvances

LEMMA UndoSyncDirectory == ASSUME IInv, In("undo"), SyncDirectory, Elsewhere PROVE IInv'
<1>1. Scripted /\ Proceed BY DEF SyncDirectory
<1>2. Data /\ Rest' /\ UNCHANGED <<ran, loose>> /\ proc.todo # <<>> BY <1>1, ScriptFacts
<1>3. Data' /\ UNCHANGED acked BY <1>2, DirectoryFacts
<1> QED BY <1>1, <1>2, <1>3, UndoAdvances

LEMMA UndoFailsStep == ASSUME IInv, UndoStepFails, Elsewhere PROVE IInv'
<1>1. Scripted /\ In("undo") /\ Proceed /\ UNCHANGED <<file, index, acked>>
  BY DEF UndoStepFails, Scripted, In
<1>2. Data /\ Rest' /\ UNCHANGED <<ran, loose>> /\ proc.todo # <<>> BY <1>1, ScriptFacts
<1>3. Data' BY <1>1, <1>2, DataSame
<1> QED BY <1>1, <1>2, <1>3, UndoAdvances

LEMMA UndoneStep == ASSUME IInv, Undone, Elsewhere PROVE IInv'
<1>1. ~ Working /\ ~ In("command") BY DEF Undone, In, Working, WorkPhases
<1>2. Rest' /\ UNCHANGED <<ran, loose>> BY <1>1, RestFacts
<1>3. proc \in Procs /\ proc.attempts = 0 /\ Data BY <1>1, Unstarted
<1>4. Data' BY <1>2, <1>3, DataSame DEF Undone
<1>5. proc' \in Procs /\ proc'.phase = "refused" /\ proc'.attempts = 0
  BY <1>3, BecomeFacts DEF Undone, Phases
<1> QED BY <1>2, <1>4, <1>5, Quietly

LEMMA UndoScriptFacts ==
  ASSUME NEW o \in OperationIds, NEW name \in Names \cup {"none"}
  PROVE  UndoScript(o, name) \in Seq(UndoSteps(o))
<1> DEFINE U == UndoSteps(o)
           made == {n \in Names : Exists(file[o][n])} \ {name}
           Drop(n) == IF n \in made THEN <<Step("unlink", n, o)>> ELSE <<>>
           a == IF name = "none" THEN <<>> ELSE <<Step("unlink", name, o)>>
           b == IF "marker" \in made THEN <<Step("syncActive", "marker", o)>> ELSE <<>>
           c == <<Step("syncReports", "report", o)>>
<1>1. /\ \A n \in Names : Step("unlink", n, o) \in U
      /\ Step("syncActive", "marker", o) \in U /\ Step("syncReports", "report", o) \in U
  BY DEF Step, UndoSteps, Names
<1>2. UndoScript(o, name)
        = a \o Drop("marker") \o b \o Drop("reserve") \o Drop("journal") \o Drop("report") \o c
  BY DEF UndoScript
<1> HIDE DEF U, made
<1>3. <<>> \in Seq(U) OBVIOUS
<1>4. \A n \in Names : Drop(n) \in Seq(U) BY <1>1, <1>3
<1>5. a \in Seq(U) /\ b \in Seq(U) /\ c \in Seq(U) BY <1>1, <1>3
<1>6. Drop("marker") \in Seq(U) /\ Drop("reserve") \in Seq(U) /\ Drop("journal") \in Seq(U)
      /\ Drop("report") \in Seq(U)
  BY <1>4 DEF Names
<1> HIDE DEF Drop, a, b, c
<1>7. \A s \in Seq(U), t \in Seq(U) : s \o t \in Seq(U) OBVIOUS
<1>8. a \o Drop("marker") \in Seq(U) BY <1>5, <1>6, <1>7
<1>9. a \o Drop("marker") \o b \in Seq(U) BY <1>5, <1>7, <1>8
<1>10. a \o Drop("marker") \o b \o Drop("reserve") \in Seq(U) BY <1>6, <1>7, <1>9
<1>11. a \o Drop("marker") \o b \o Drop("reserve") \o Drop("journal") \in Seq(U) BY <1>6, <1>7, <1>10
<1>12. a \o Drop("marker") \o b \o Drop("reserve") \o Drop("journal") \o Drop("report") \in Seq(U)
  BY <1>6, <1>7, <1>11
<1> QED BY <1>2, <1>5, <1>7, <1>12 DEF U

LEMMA ReserveFailsStep == ASSUME IInv, ReserveFails, Elsewhere PROVE IInv'
<1>1. In("reserve") /\ Scripted /\ UNCHANGED <<file, index, acked>>
  BY ReserveFacts DEF ReserveFails
<1>2. /\ Data /\ Rest' /\ UNCHANGED <<ran, loose>> /\ proc \in Procs /\ proc.attempts = 0
  BY <1>1, ScriptFacts
<1>3. PICK o \in OperationIds : o = proc.op /\ acked[o] = <<>> BY <1>1, ReserveFacts
<1> DEFINE name == IF Now.kind \in {"write", "sync"} THEN Now.name ELSE "none"
           t == UndoScript(o, name)
<1>4. name \in Names \cup {"none"} BY <1>1, ReserveKinds
<1>5. proc' = [proc EXCEPT !.phase = "undo", !.todo = t] BY <1>3 DEF ReserveFails
<1> HIDE DEF name
<1>6. t \in Seq(UndoSteps(o)) BY <1>4, UndoScriptFacts
<1> HIDE DEF t
<1>7. UndoSteps(o) \subseteq Steps BY DEF UndoSteps, Steps, Names
<1>8. t \in Seq(Steps) BY <1>6, <1>7
<1>9. /\ proc' \in Procs /\ proc'.phase = "undo" /\ proc'.op = o /\ proc'.todo = t
      /\ proc'.attempts = 0
  BY <1>2, <1>3, <1>5, <1>8 DEF Procs, Phases
<1>10. Undoing'
  <2>1. proc'.todo \in Seq(UndoSteps(o)) BY <1>6, <1>9
  <2>2. acked'[proc'.op] = <<>> BY <1>1, <1>3, <1>9
  <2> QED BY <1>9, <2>1, <2>2 DEF Undoing, UndoSteps
<1>11. Booting' /\ Reserving' BY <1>9 DEF Booting, Reserving, In
<1>12. Data' BY <1>1, <1>2, DataSame
<1> QED BY <1>2, <1>9, <1>10, <1>11, <1>12, Scripting
=============================================================================
