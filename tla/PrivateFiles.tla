---------------------------- MODULE PrivateFiles ----------------------------
(***************************************************************************)
(* What the file primitives of files.py, report.py and recovery.py leave on  *)
(* disk.  A file is a pair: `seen` is what any process reads now (the page    *)
(* cache), `kept` the set of contents a power loss may leave.  A directory    *)
(* entry that was not synchronized may be lost, a removal that was not may    *)
(* come back, and data that was not may be missing or torn.                   *)
(*                                                                         *)
(* Ownership, link counts, modes and inode identities, which the code checks  *)
(* at every opening, never change: only this program writes its directories.  *)
(***************************************************************************)
CONSTANTS Absent,   \* no directory entry
          Torn      \* an entry whose content is missing or incomplete

File(Contents) == [seen : Contents, kept : SUBSET Contents]

OnDisk(c) == [seen |-> c, kept |-> {c}]

Exists(f) == f.seen # Absent

Durable(f) == f.kept = {f.seen}

(* open(O_CREAT | O_EXCL) of a name that does not exist. *)
Created(f) == [seen |-> Torn, kept |-> f.kept \cup {Torn}]

(* write: until fsync, the old content, the new one or a part of it survive. *)
Written(f, c, part) == [seen |-> c, kept |-> f.kept \cup {part, c}]

(* fsync of the file: its data survives, if its entry does. *)
Synced(f) == [f EXCEPT !.kept = (f.kept \cap {Absent}) \cup {f.seen}]

(* fsync of the directory: the entry survives, or its removal does. *)
EntrySynced(f) ==
  [f EXCEPT !.kept = IF f.seen = Absent THEN {Absent} ELSE f.kept \ {Absent}]

Unlinked(f) == [seen |-> Absent, kept |-> f.kept \cup {Absent}]

(* rename of a written and synchronized temporary file over this name. *)
Replaced(f, c) == [seen |-> c, kept |-> f.kept \cup {c}]

(* fsync of its directory. *)
ReplacementSynced(f) == OnDisk(f.seen)

(* What the machine finds after a power loss. *)
Survivors(f) == {OnDisk(c) : c \in f.kept}
=============================================================================
