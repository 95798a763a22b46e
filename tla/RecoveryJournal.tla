--------------------------- MODULE RecoveryJournal ---------------------------
(***************************************************************************)
(* RecoveryState of src/src/recovery.rs: an append-only journal of capture  *)
(* outcomes and the map of saved captures kept from it in memory.           *)
(*                                                                         *)
(* The journal file is the sequence of its terminated lines and the tail    *)
(* after the last newline: nothing, part of an entry, or a whole entry that *)
(* lacks its newline. An interrupted or failed write_all leaves any of them.*)
(***************************************************************************)
EXTENDS Naturals, Sequences

CONSTANTS Paths, Captures, None

ASSUME NoneAssumption == None \notin Captures

VARIABLES
  lines,     \* terminated lines of captures.jsonl
  tail,      \* what follows the last newline
  running,   \* a process has the journal open
  memory,    \* State::captures of that process
  appendFailed \* an append of that process left a tail behind

journalVars == <<lines, tail, running, memory, appendFailed>>

(* A CaptureEvent, by whether its outcome is "downloaded" or "unusable".    *)
Events == [saved : BOOLEAN, path : Paths, capture : Captures]
(* A line that does not parse.                                              *)
Damaged == [saved |-> FALSE, path |-> None, capture |-> None]
Lines == Events \cup {Damaged}

Clean == [kind |-> "clean", line |-> Damaged]
Cut == [kind |-> "cut", line |-> Damaged]
Whole(event) == [kind |-> "whole", line |-> event]
Tails == {Clean, Cut} \cup {Whole(event) : event \in Events}

Insert(captures, event) ==
  IF event.saved THEN [captures EXCEPT ![event.path] = event.capture] ELSE captures

(* Lines are read in order and later ones override earlier ones.            *)
SavedLines(ls, p) == {i \in DOMAIN ls : ls[i].saved /\ ls[i].path = p}
Latest(indices) == CHOOSE i \in indices : \A j \in indices : j <= i
LatestSaved(ls, p) ==
  IF SavedLines(ls, p) = {} THEN None ELSE ls[Latest(SavedLines(ls, p))].capture
Reload(ls) == [p \in Paths |-> LatestSaved(ls, p)]

(* The terminated lines once open() has closed a torn tail with a newline.  *)
Sealed == IF tail = Clean THEN lines ELSE Append(lines, tail.line)

(* An entry written after a torn tail ends up on the same line as it.       *)
Appended(event) == Append(lines, IF tail = Clean THEN event ELSE Damaged)

(* What a write of the entry that stops before its newline leaves.          *)
TornTails(event) == IF tail = Clean THEN {Clean, Cut, Whole(event)} ELSE {Cut}

JournalInit ==
  /\ lines = <<>>
  /\ tail = Clean
  /\ running = FALSE
  /\ memory = [p \in Paths |-> None]
  /\ appendFailed = FALSE

-----------------------------------------------------------------------------
\* Not the code: a torn tail is not closed before the next entry.
OpenUnsealed ==
  /\ ~ running
  /\ running' = TRUE
  /\ memory' = Reload(Sealed)
  /\ appendFailed' = FALSE
  /\ UNCHANGED <<lines, tail>>

OpenJournal ==
  /\ ~ running
  /\ running' = TRUE
  /\ lines' = Sealed
  /\ tail' = Clean
  /\ memory' = Reload(Sealed)
  /\ appendFailed' = FALSE

(* record(): the entry is appended, then the map in memory is updated.      *)
Record(event) ==
  /\ running
  /\ lines' = Appended(event)
  /\ tail' = Clean
  /\ memory' = Insert(memory, event)
  /\ UNCHANGED <<running, appendFailed>>

\* Not the code: the map is updated before the entry is written.
RecordFailsLate(event) ==
  /\ running
  /\ tail' \in TornTails(event)
  /\ appendFailed' = (appendFailed \/ tail' # Clean)
  /\ memory' = Insert(memory, event)
  /\ UNCHANGED <<lines, running>>

(* record() returns an error: the map in memory is not updated.             *)
RecordFails(event) ==
  /\ running
  /\ tail' \in TornTails(event)
  /\ appendFailed' = (appendFailed \/ tail' # Clean)
  /\ UNCHANGED <<lines, running, memory>>

(* The process is killed, or exits, between two calls.                      *)
Exit ==
  /\ running
  /\ running' = FALSE
  /\ memory' = [p \in Paths |-> None]
  /\ UNCHANGED <<lines, tail, appendFailed>>

(* The process is killed during record(): part of the entry may be written, *)
(* or all of it.                                                            *)
ExitWhileRecording(event) ==
  /\ running
  /\ \/ tail' \in TornTails(event) /\ lines' = lines
     \/ tail' = Clean /\ lines' = Appended(event)
  /\ running' = FALSE
  /\ memory' = [p \in Paths |-> None]
  /\ UNCHANGED appendFailed

JournalNext ==
  \/ OpenJournal
  \/ \E event \in Events : Record(event)
  \/ \E event \in Events : RecordFails(event)
  \/ Exit
  \/ \E event \in Events : ExitWhileRecording(event)

JournalSpec == JournalInit /\ [][JournalNext]_journalVars

-----------------------------------------------------------------------------
JournalTypeOK ==
  /\ lines \in Seq(Lines)
  /\ tail \in Tails
  /\ running \in BOOLEAN
  /\ memory \in [Paths -> Captures \cup {None}]
  /\ appendFailed \in BOOLEAN

(* Unless an append failed in it, a process knows exactly the captures that *)
(* a process started now would read from the journal.                       *)
MemoryIsJournal ==
  running /\ ~ appendFailed => tail = Clean /\ memory = Reload(lines)

(* The captures a reader can rely on: those of the running process, or what *)
(* the next one will find.                                                  *)
Evidence == IF running THEN memory ELSE Reload(Sealed)

CaptureMap ==
  INSTANCE CaptureEvidence WITH evidence <- Evidence, doubtful <- appendFailed

(* The journal keeps the last saved capture of every path across torn       *)
(* writes, crashes and restarts: open() and record() implement the abstract *)
(* map of evidence.                                                         *)
KeepsEvidence == CaptureMap!Spec
=============================================================================
