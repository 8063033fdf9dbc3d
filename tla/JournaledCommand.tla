-------------------------- MODULE JournaledCommand --------------------------
(***************************************************************************)
(* CommandRunner inside an applied operation: the start callback appends      *)
(* command-started before Popen, the result callback appends command-finished  *)
(* after the command's group is gone.  Every process of a command whose        *)
(* program was killed, and every process that left its group, goes on.         *)
(***************************************************************************)
EXTENDS ReportFiles, CommandRunner

VARIABLES ran,    \* ran[o]: the commands of o that came to life (history)
          loose   \* operations whose command left a living process in its group (history)

allVars == <<vars, runnerVars, ran, loose>>

Count(c, event) == Cardinality({i \in DOMAIN c.lines : c.lines[i] = event})

JournaledInit ==
  /\ Init /\ RunnerInit
  /\ ran = [o \in OperationIds |-> Count(file[o].journal.seen, "command-started")]
  /\ loose = {}

(* The call is over for the program: what still lives is on its own. *)
Leave ==
  /\ loose' = IF Alive \ outside # {} THEN loose \cup {proc.op} ELSE loose
  /\ call' = NoCall /\ leader' = NoLeader
  /\ group' = {} /\ outside' = {} /\ holders' = {}

InCall ==
  /\ In("command")
  /\ ran' = IF leader.state = "none" /\ leader'.state = "running"
            THEN [ran EXCEPT ![proc.op] = @ + 1] ELSE ran
  /\ UNCHANGED <<vars, loose>>

RunnerRuns  == RunnerStep /\ InCall
CommandRuns == (CommandStep \/ SignalArrives \/ SignalInWrite) /\ InCall

CallReturns ==
  /\ At({"returned"})
  /\ CommandEnds
  /\ Leave
  /\ UNCHANGED ran

CallRaises ==
  /\ At({"raised"})
  /\ proc' = [proc EXCEPT !.phase = "work", !.failed = TRUE]
  /\ Leave
  /\ UNCHANGED <<file, index, acked, ran>>

Elsewhere == UNCHANGED <<runnerVars, ran, loose>>

FilesProceed == FileStep /\ Elsewhere

Interrupted == Signal /\ ~ In("command") /\ Elsewhere
Killed      == Kill /\ Leave /\ UNCHANGED ran

(* The machine stops, and every process with it. *)
PowerFails ==
  /\ PowerLoss
  /\ call' = NoCall /\ leader' = NoLeader
  /\ group' = {} /\ outside' = {} /\ holders' = {}
  /\ loose' = {}
  /\ UNCHANGED ran

JournaledNext ==
  \/ Start /\ Elsewhere
  \/ FilesProceed \/ RunnerRuns \/ CommandRuns \/ CallReturns \/ CallRaises
  \/ Interrupted \/ Killed \/ PowerFails

JournaledSpec == JournaledInit /\ [][JournaledNext]_allVars

(* The program is scheduled; nothing is asked of the command it waits for. *)
FairSpec == /\ JournaledSpec
            /\ WF_allVars(FilesProceed) /\ WF_allVars(RunnerRuns)
            /\ WF_allVars(CallReturns \/ CallRaises)

-----------------------------------------------------------------------------
(* Properties *)

Remains(f) == f.kept \cup {f.seen}

(* Every variable stays in its type. *)
TypeOK ==
  /\ \A o \in OperationIds, n \in Names :
       /\ file[o][n].kept # {}
       /\ \A c \in Remains(file[o][n]) :
            /\ c.torn \in BOOLEAN
            /\ Len(c.lines) <= 2 * MaxCommands + 4
            /\ n # "journal" => c \in {Absent, Torn, Whole, Final, Failed}
  /\ Remains(index) \subseteq {Absent, Torn, Whole}
  /\ proc.phase \in Phases /\ proc.op \in OperationIds \cup {NoOp}
  /\ proc.event \in Events \cup {"none"}
  /\ RunnerTypeOK
  /\ ran \in [OperationIds -> 0 .. MaxCommands]
  /\ loose \subseteq OperationIds

(* runner.run appends command-started before Popen and command-finished when the group  *)
(* is gone: whatever the disk leaves of a journal accounts for every command that ever  *)
(* came to life, and not as finished while its process group may still run.             *)
WriteAhead ==
  \A o \in OperationIds : \A c \in Remains(file[o].journal) :
    /\ Count(c, "command-started") >= ran[o]
    /\ o \in loose => Count(c, "command-started") > Count(c, "command-finished")

(* unresolved_operations reads marked journals only: an operation that ran a command  *)
(* keeps a marker, possibly a torn one, which is refused, whatever crashes, until its   *)
(* final report is safely in place.                                                    *)
NeverForgotten ==
  index.seen = Whole =>
    \A o \in OperationIds :
      ran[o] > 0 => \/ Absent \notin Remains(file[o].marker)
                    \/ file[o].report.kept = {Final}

(* emit_report: a journal that says completed is never found beside the provisional    *)
(* report of the reservation.                                                          *)
CompletedHasReport ==
  \A o \in OperationIds :
    (\E c \in Remains(file[o].journal) : Holds(c, "operation-completed"))
      => Remains(file[o].report) \cap {Absent, Torn, Whole} = {}

(* _terminate_process_group: when run returns, or lets an exception through that it     *)
(* could handle, nothing of the command's process group is alive.                       *)
NoSurvivors ==
  At({"returned", "raised"}) /\ call.why # "unguarded" => Alive \subseteq outside

(* A program that holds the operation lock leaves it, and every failing path comes to   *)
(* an end, unless a command holds it for ever in one of the two waits of run and         *)
(* _terminate_process_group without a time limit: it never reads its input, or sleeps    *)
(* in the kernel and does not die of SIGKILL.  Nothing else a command does can.          *)
Held == \/ At({"writing"}) /\ Alive # {}
        \/ At({"reaping"}) /\ Stuck
ProgramEnds == []<>In("idle") \/ <>[]Held

(* The lines a reader may find are those append_report_journal promises. *)
Promise == INSTANCE JournalPromise WITH
  acknowledged <- acked,
  reads <- [o \in OperationIds |-> {c.lines : c \in Remains(file[o].journal)}]
ImplementsPromise == Promise!Spec

-----------------------------------------------------------------------------
(* What README.md says of the bootstrap of the index (Disagreements). *)

(* "its completion sentinel is written only after every required marker is durable" *)
SentinelAfterMarkers ==
  \A o \in Legacy : Exists(index) /\ ran[o] > 0 /\ ~ Terminal(o) => file[o].marker.kept = {Whole}

(* "A crash before that sentinel safely repeats the bootstrap": no startup is refused *)
(* while every journal can be read.                                                    *)
BootstrapRepeats ==
  In("refused") => \E o \in Journals : ~ Readable(file[o].journal)
=============================================================================
