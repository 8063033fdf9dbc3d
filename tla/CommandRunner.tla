--------------------------- MODULE CommandRunner ----------------------------
(***************************************************************************)
(* CommandRunner.run: one command, the leader of a session and process group *)
(* of its own, with a time limit, two pipes that reader threads drain, and    *)
(* the termination of whatever the leader leaves in its group.  The command   *)
(* forks descendants; some leave the group, some ignore SIGTERM, and the leader *)
(* may sleep in the kernel where not even SIGKILL ends it.                     *)
(*                                                                         *)
(* Two waits of the runner have no time limit: the write of the input, before   *)
(* the limit starts, and the wait for a leader that was sent SIGKILL.          *)
(*                                                                         *)
(* Output is abstracted to who still holds the pipes, and an exit status to    *)
(* zero or not.  A descendant dies of SIGKILL at once.                         *)
(***************************************************************************)
EXTENDS Naturals, FiniteSets

CONSTANTS Descendants,   \* bound: processes the command may fork
          MaxSignals     \* bound: signals the program receives during one call

ASSUME CommandRunnerAssumption == MaxSignals \in Nat /\ "leader" \notin Descendants

VARIABLES call,      \* the call of run: where it is, why it terminates, its result
          leader,    \* the command's process
          group,     \* living descendants in its process group
          outside,   \* living descendants that left the group (setsid)
          holders    \* processes with an open end of the pipes

runnerVars == <<call, leader, group, outside, holders>>

NoCall   == [at |-> "idle", why |-> "none", result |-> "none", signals |-> 0]
NoLeader == [state |-> "none", status |-> "0"]

CallPlaces == {"idle", "started", "writing", "waiting", "terminating", "grace", "reaping", "joining",
               "returned", "raised"}
Reasons    == {"none", "exit", "timeout", "lingering", "exception", "unguarded"}
Results    == {"none", "skipped", "0", "1", "124", "125", "127"}

RunnerTypeOK ==
  /\ call \in [at : CallPlaces, why : Reasons, result : Results, signals : 0 .. MaxSignals]
  /\ leader \in [state : {"none", "running", "stuck", "zombie", "reaped"}, status : {"0", "1"}]
  /\ group \cap outside = {}
  /\ group \cup outside \subseteq Descendants
  /\ holders \subseteq Descendants \cup {"leader"}

RunnerInit ==
  /\ call = NoCall
  /\ leader = NoLeader
  /\ group = {} /\ outside = {} /\ holders = {}

At(places) == call.at \in places
Go(place)  == call' = [call EXCEPT !.at = place]

(* The leader carries the status it will exit with; a stuck one was sent SIGKILL in an *)
(* uninterruptible sleep.                                                             *)
Running == leader.state = "running"
Stuck   == leader.state = "stuck"
Zombie  == leader.state = "zombie"
Dead(status) == [state |-> "zombie", status |-> status]
Buried  == [leader EXCEPT !.state = "reaped"]

Alive == group \cup outside \cup (IF Running \/ Stuck THEN {"leader"} ELSE {})

-----------------------------------------------------------------------------
(* The runner *)

(* A dry run of a mutating command, a missing or untrusted executable, a failed Popen. *)
NotStarted ==
  /\ At({"idle"})
  /\ \E result \in {"skipped", "127"} :
       call' = [call EXCEPT !.at = "returned", !.result = result]
  /\ UNCHANGED <<leader, group, outside, holders>>

Popen ==
  /\ At({"idle"})
  /\ Go("started")
  /\ leader' \in [state : {"running"}, status : {"0", "1"}]
  /\ holders' = {"leader"}
  /\ UNCHANGED <<group, outside>>

(* The reader threads run; from here on an exception terminates the group. *)
StartReaders ==
  /\ At({"started"})
  /\ \E place \in {"writing", "waiting"} : Go(place)
  /\ UNCHANGED <<leader, group, outside, holders>>

(* The input is written, or the pipe is broken: closing it then fails once more, unless *)
(* nothing is left in the buffer.                                                      *)
InputWritten ==
  /\ At({"writing"})
  /\ \/ call.why = "none" /\ Go("waiting")
     \/ call' = [call EXCEPT !.at = "terminating", !.why = "exception"]
  /\ UNCHANGED <<leader, group, outside, holders>>

(* As long as a process of the command may hold the pipe, it decides whether it reads. *)
PipeBreaks == Alive = {} /\ InputWritten
InputTaken == Alive # {} /\ InputWritten

(* wait returns; a group that still exists without its leader is terminated. *)
LeaderExited ==
  /\ At({"waiting"}) /\ Zombie
  /\ leader' = Buried
  /\ call' = IF group = {} THEN [call EXCEPT !.at = "joining", !.why = "exit"]
                           ELSE [call EXCEPT !.at = "terminating", !.why = "lingering"]
  /\ UNCHANGED <<group, outside, holders>>

(* Faulty variant: no time limit while the command runs. *)
TimesOutNever ==
  /\ At({"waiting"}) /\ Zombie
  /\ call' = [call EXCEPT !.at = "terminating", !.why = "timeout"]
  /\ UNCHANGED <<leader, group, outside, holders>>

TimesOut ==
  /\ At({"waiting"})
  /\ call' = [call EXCEPT !.at = "terminating", !.why = "timeout"]
  /\ UNCHANGED <<leader, group, outside, holders>>

(* SIGTERM to the group: whoever does not ignore it dies. *)
TerminateGroup ==
  /\ At({"terminating"})
  /\ Go("grace")
  /\ \E ignore \in SUBSET group, ignored \in BOOLEAN :
       /\ group' = ignore
       /\ leader' = IF Running /\ ~ ignored THEN Dead("1") ELSE leader
       /\ holders' = (holders \ (group \ ignore)) \ (IF Running /\ ~ ignored THEN {"leader"} ELSE {})
  /\ UNCHANGED outside

(* Faulty variant: only the leader is killed. *)
KillLeader ==
  /\ At({"grace"})
  /\ Go("reaping")
  /\ leader' = IF Running THEN Dead("1") ELSE leader
  /\ holders' = holders \ (IF Running THEN {"leader"} ELSE {})
  /\ UNCHANGED <<group, outside>>

(* The group is gone, or the grace is over and SIGKILL takes the rest: a leader in an  *)
(* uninterruptible sleep when the sleep ends.                                         *)
KillGroup ==
  /\ At({"grace"})
  /\ Go("reaping")
  /\ group' = {}
  /\ \/ leader' = (IF Running THEN Dead("1") ELSE leader) /\ holders' = holders \ (group \cup {"leader"})
     \/ Running /\ leader' = [leader EXCEPT !.state = "stuck"] /\ holders' = holders \ group
  /\ UNCHANGED outside

(* The second wait for the leader has no time limit. *)
Reap ==
  /\ At({"reaping"}) /\ ~ Stuck
  /\ leader' = Buried
  /\ Go("joining")
  /\ UNCHANGED <<group, outside, holders>>

ResultOf(why) ==
  CASE why = "timeout"   -> "124"
    [] why = "lingering" -> "125"
    [] OTHER             -> leader.status

(* The readers have seen the end of the output; an exception goes on its way. *)
JoinReaders ==
  /\ At({"joining"})
  /\ holders = {}
  /\ call' = IF call.why = "exception" THEN [call EXCEPT !.at = "raised"]
             ELSE [call EXCEPT !.at = "returned", !.result = ResultOf(call.why)]
  /\ UNCHANGED <<leader, group, outside, holders>>

(* A process outside the group keeps a pipe open: the readers do not end in time. *)
ReadersLinger ==
  /\ At({"joining"})
  /\ holders # {}
  /\ Go("raised")
  /\ UNCHANGED <<leader, group, outside, holders>>

(* A signal leaves the write of the input, but closing the pipe writes the rest. *)
SignalInWrite ==
  /\ At({"writing"})
  /\ call.signals < MaxSignals
  /\ \E place \in {"writing", "terminating"} :
       /\ call.why = "none" \/ place = "terminating"
       /\ call' = [call EXCEPT !.signals = @ + 1, !.why = "exception", !.at = place]
  /\ UNCHANGED <<leader, group, outside, holders>>

(* SIGTERM or SIGHUP raises in the runner: its handler terminates the group, except  *)
(* before the try, and except that a signal in the handler leaves at once.           *)
SignalArrives ==
  /\ At({"started", "waiting", "terminating", "grace", "reaping", "joining"})
  /\ call.signals < MaxSignals
  /\ call' = [call EXCEPT
       !.signals = @ + 1,
       !.why = IF At({"started"}) \/ (call.why = "exception" /\ ~ At({"joining"}))
               THEN "unguarded" ELSE "exception",
       !.at = IF At({"started", "joining"}) \/ call.why = "exception"
              THEN "raised" ELSE "terminating"]
  /\ UNCHANGED <<leader, group, outside, holders>>

-----------------------------------------------------------------------------
(* The command *)

Fork(d) ==
  /\ d \notin group \cup outside \cup holders
  /\ Running \/ group # {}
  /\ group' = group \cup {d}
  /\ holders' \in {holders, holders \cup {d}}
  /\ UNCHANGED <<call, leader, outside>>

LeaveGroup(d) ==
  /\ d \in group
  /\ group' = group \ {d}
  /\ outside' = outside \cup {d}
  /\ UNCHANGED <<call, leader, holders>>

LeaderExits ==
  /\ Running \/ Stuck
  /\ leader' = Dead(leader.status)
  /\ holders' = holders \ {"leader"}
  /\ UNCHANGED <<call, group, outside>>

DescendantExits(d) ==
  /\ d \in group \cup outside
  /\ group' = group \ {d}
  /\ outside' = outside \ {d}
  /\ holders' = holders \ {d}
  /\ UNCHANGED <<call, leader>>

RunnerStep == \/ NotStarted \/ Popen \/ StartReaders \/ PipeBreaks \/ LeaderExited \/ TimesOut
              \/ TerminateGroup \/ KillGroup \/ Reap \/ JoinReaders \/ ReadersLinger

CommandStep == \/ LeaderExits \/ InputTaken
               \/ \E d \in Descendants : Fork(d) \/ LeaveGroup(d) \/ DescendantExits(d)
=============================================================================
