----------------------- MODULE RecoveryJournal_proofs -----------------------
(***************************************************************************)
(* For any sets of paths and captures and a journal of any length: what a   *)
(* process keeps in memory is what reading the journal again would give,    *)
(* and the journal implements the map of CaptureEvidence.                   *)
(*                                                                         *)
(* The invariant is that the tail is clean and memory equals the reloaded   *)
(* journal while no append of the running process has failed. It rests on   *)
(* one fact about reading, ReloadAppended: one more line changes the result *)
(* exactly as record() changes the map in memory.                           *)
(***************************************************************************)
EXTENDS RecoveryJournal, WellFoundedInduction, SequenceTheorems, TLAPS

(* A nonempty set of positions of a sequence has a last one.                *)
LEMMA LastExists ==
  ASSUME NEW n \in Nat, NEW S \in SUBSET (1 .. n), S # {}
  PROVE  \E i \in S : \A j \in S : j <= i
<1> DEFINE T == {n - i : i \in S}
<1>1. T \subseteq Nat /\ T # {}
  <2>1. \A i \in S : n - i \in Nat
    OBVIOUS
  <2>2. PICK i \in S : TRUE
    OBVIOUS
  <2>3. n - i \in T
    BY <2>2
  <2> QED
    BY <2>1, <2>3
<1>2. IsWellFoundedOn(OpToRel(<, Nat), Nat)
  BY NatLessThanWellFounded
<1> HIDE DEF T
<1>3. PICK x \in T : \A y \in T : ~ (<<y, x>> \in OpToRel(<, Nat))
  BY ONLY <1>1, <1>2, WFMin
<1>4. \A y \in T : ~ (y < x)
  BY <1>1, <1>3 DEF OpToRel
<1>5. PICK i \in S : x = n - i
  BY DEF T
<1>6. \A j \in S : n - j \in T
  BY DEF T
<1>7. \A j \in S : ~ (n - j < n - i)
  BY <1>4, <1>5, <1>6
<1>8. \A j \in S : j <= i
  BY <1>7
<1> QED
  BY <1>8

LEMMA LatestIsLast ==
  ASSUME NEW n \in Nat, NEW S \in SUBSET (1 .. n), S # {}
  PROVE  Latest(S) \in S /\ \A j \in S : j <= Latest(S)
BY LastExists DEF Latest

(* Every line that counts as saved is a whole entry of the journal.         *)
LEMMA SavedIsEvent ==
  ASSUME NEW event \in Lines, event.saved
  PROVE  event.path \in Paths /\ event.capture \in Captures
BY DEF Lines, Events, Damaged

LEMMA SavedLinesBounded ==
  ASSUME NEW ls \in Seq(Lines), NEW p
  PROVE  SavedLines(ls, p) \in SUBSET (1 .. Len(ls)) /\ Len(ls) \in Nat
BY DEF SavedLines

LEMMA ReloadTyped ==
  ASSUME NEW ls \in Seq(Lines)
  PROVE  Reload(ls) \in [Paths -> Captures \cup {None}]
<1> SUFFICES ASSUME NEW p \in Paths PROVE LatestSaved(ls, p) \in Captures \cup {None}
  BY DEF Reload
<1>1. CASE SavedLines(ls, p) = {}
  BY <1>1 DEF LatestSaved
<1>2. CASE SavedLines(ls, p) # {}
  <2>1. Latest(SavedLines(ls, p)) \in SavedLines(ls, p)
    BY <1>2, SavedLinesBounded, LatestIsLast
  <2>2. ls[Latest(SavedLines(ls, p))] \in Lines /\ ls[Latest(SavedLines(ls, p))].saved
    BY <2>1 DEF SavedLines
  <2> QED
    BY <1>2, <2>2, SavedIsEvent DEF LatestSaved
<1> QED
  BY <1>1, <1>2

LEMMA ReloadEmpty == Reload(<<>>) = [p \in Paths |-> None]
<1>1. \A p : SavedLines(<<>>, p) = {}
  BY DEF SavedLines
<1> QED
  BY <1>1 DEF Reload, LatestSaved

LEMMA AppendedLine ==
  ASSUME NEW ls \in Seq(Lines), NEW event \in Lines
  PROVE  /\ Append(ls, event) \in Seq(Lines)
         /\ DOMAIN Append(ls, event) = (DOMAIN ls) \cup {Len(ls) + 1}
         /\ Append(ls, event)[Len(ls) + 1] = event
         /\ \A i \in DOMAIN ls : Append(ls, event)[i] = ls[i]
OBVIOUS

(* Reading one more line changes the map of captures as record() does.      *)
LEMMA ReloadAppended ==
  ASSUME NEW ls \in Seq(Lines), NEW event \in Lines
  PROVE  Reload(Append(ls, event)) = Insert(Reload(ls), event)
<1> DEFINE longer == Append(ls, event)
<1> DEFINE n == Len(ls)
<1>1. /\ longer \in Seq(Lines)
      /\ DOMAIN longer = (DOMAIN ls) \cup {n + 1}
      /\ longer[n + 1] = event
      /\ \A i \in DOMAIN ls : longer[i] = ls[i]
  BY AppendedLine
<1>2. n \in Nat /\ DOMAIN ls = 1 .. n
  OBVIOUS
<1> HIDE DEF longer, n
<1>3. ASSUME NEW p \in Paths, event.saved, event.path = p
      PROVE  LatestSaved(longer, p) = event.capture
  <2>1. n + 1 \in SavedLines(longer, p)
    BY <1>1, <1>3 DEF SavedLines
  <2>2. SavedLines(longer, p) \in SUBSET (1 .. n + 1)
    BY <1>1, <1>2 DEF SavedLines
  <2>3. /\ Latest(SavedLines(longer, p)) \in 1 .. n + 1
        /\ n + 1 <= Latest(SavedLines(longer, p))
    <3>1. n + 1 \in Nat /\ SavedLines(longer, p) # {}
      BY <1>2, <2>1
    <3> QED
      BY <2>1, <2>2, <3>1, LatestIsLast
  <2>4. Latest(SavedLines(longer, p)) = n + 1
    BY <1>2, <2>3
  <2> QED
    BY <1>1, <2>1, <2>4 DEF LatestSaved
<1>4. ASSUME NEW p \in Paths, ~ (event.saved /\ event.path = p)
      PROVE  LatestSaved(longer, p) = LatestSaved(ls, p)
  <2>1. SavedLines(longer, p) = SavedLines(ls, p)
    BY <1>1, <1>2, <1>4 DEF SavedLines
  <2>2. CASE SavedLines(ls, p) = {}
    BY <2>1, <2>2 DEF LatestSaved
  <2>3. CASE SavedLines(ls, p) # {}
    <3>1. Latest(SavedLines(ls, p)) \in DOMAIN ls
      BY <1>2, <2>3, SavedLinesBounded, LatestIsLast DEF SavedLines
    <3> QED
      BY <1>1, <2>1, <3>1 DEF LatestSaved
  <2> QED
    BY <2>2, <2>3
<1>5. CASE event.saved
  <2>1. event.path \in Paths
    BY <1>5, SavedIsEvent
  <2> QED
    BY <1>3, <1>4, <1>5, <2>1 DEF Reload, Insert, longer
<1>6. CASE ~ event.saved
  BY <1>4, <1>6 DEF Reload, Insert, longer
<1> QED
  BY <1>5, <1>6

-----------------------------------------------------------------------------
JournalInv == JournalTypeOK /\ MemoryIsJournal

LEMMA InsertTyped ==
  ASSUME NEW captures \in [Paths -> Captures \cup {None}], NEW event \in Lines
  PROVE  Insert(captures, event) \in [Paths -> Captures \cup {None}]
BY SavedIsEvent DEF Insert

LEMMA DamagedChangesNothing ==
  ASSUME NEW captures \in [Paths -> Captures \cup {None}]
  PROVE  Insert(captures, Damaged) = captures
BY DEF Insert, Damaged

(* Every tail has a line that reading it as terminated would yield.         *)
LEMMA TailLine ==
  ASSUME NEW t \in Tails
  PROVE  t.line \in Lines
BY DEF Tails, Clean, Cut, Whole, Lines

LEMMA TornTailsTyped ==
  ASSUME NEW event \in Events
  PROVE  TornTails(event) \subseteq Tails
BY DEF TornTails, Tails

LEMMA SealedTyped ==
  ASSUME JournalTypeOK
  PROVE  Sealed \in Seq(Lines)
<1>1. lines \in Seq(Lines) /\ tail.line \in Lines
  BY TailLine DEF JournalTypeOK
<1>2. Append(lines, tail.line) \in Seq(Lines)
  BY <1>1, AppendedLine
<1> QED
  BY <1>1, <1>2 DEF Sealed

LEMMA AppendedTyped ==
  ASSUME JournalTypeOK, NEW event \in Events
  PROVE  Appended(event) \in Seq(Lines)
<1>1. lines \in Seq(Lines) /\ event \in Lines /\ Damaged \in Lines
  BY DEF JournalTypeOK, Lines
<1>2. Append(lines, event) \in Seq(Lines) /\ Append(lines, Damaged) \in Seq(Lines)
  BY <1>1, AppendedLine
<1> QED
  BY <1>2 DEF Appended

LEMMA JournalInitial == JournalInit => JournalInv
<1> SUFFICES ASSUME JournalInit PROVE JournalInv
  OBVIOUS
<1>1. <<>> \in Seq(Lines) /\ Clean \in Tails
  BY DEF Tails
<1> QED
  BY <1>1 DEF JournalInit, JournalInv, JournalTypeOK, MemoryIsJournal

LEMMA JournalStep == JournalInv /\ [JournalNext]_journalVars => JournalInv'
<1> SUFFICES ASSUME JournalInv, [JournalNext]_journalVars PROVE JournalInv'
  OBVIOUS
<1>1. Clean \in Tails /\ [p \in Paths |-> None] \in [Paths -> Captures \cup {None}]
  BY DEF Tails
<1>2. CASE OpenJournal
  <2>1. Sealed \in Seq(Lines)
    BY SealedTyped DEF JournalInv
  <2>2. Reload(Sealed) \in [Paths -> Captures \cup {None}]
    BY <2>1, ReloadTyped
  <2> QED
    BY <1>1, <1>2, <2>1, <2>2 DEF OpenJournal, JournalInv, JournalTypeOK, MemoryIsJournal
<1>3. ASSUME NEW event \in Events, Record(event) PROVE JournalInv'
  <2>1. event \in Lines
    BY DEF Lines
  <2>2. Appended(event) \in Seq(Lines)
    BY AppendedTyped DEF JournalInv
  <2>3. Insert(memory, event) \in [Paths -> Captures \cup {None}]
    BY <2>1, InsertTyped DEF JournalInv, JournalTypeOK
  <2>4. JournalTypeOK'
    BY <1>1, <1>3, <2>2, <2>3 DEF Record, JournalInv, JournalTypeOK
  <2>5. ASSUME ~ appendFailed PROVE memory' = Reload(lines')
    <3>1. tail = Clean /\ memory = Reload(lines) /\ lines \in Seq(Lines)
      BY <1>3, <2>5 DEF Record, JournalInv, MemoryIsJournal, JournalTypeOK
    <3>2. lines' = Append(lines, event)
      BY <1>3, <3>1 DEF Record, Appended
    <3> QED
      BY <1>3, <2>1, <3>1, <3>2, ReloadAppended DEF Record
  <2> QED
    BY <1>3, <2>4, <2>5 DEF Record, JournalInv, MemoryIsJournal
<1>4. ASSUME NEW event \in Events, RecordFails(event) PROVE JournalInv'
  <2>1. tail' \in Tails
    BY <1>4, TornTailsTyped DEF RecordFails
  <2>2. appendFailed \in BOOLEAN /\ appendFailed' = (appendFailed \/ tail' # Clean)
    BY <1>4 DEF RecordFails, JournalInv, JournalTypeOK
  <2>3. JournalTypeOK'
    BY <1>4, <2>1, <2>2 DEF RecordFails, JournalInv, JournalTypeOK
  <2>4. MemoryIsJournal'
    BY <1>4, <2>2 DEF RecordFails, JournalInv, MemoryIsJournal
  <2> QED
    BY <2>3, <2>4 DEF JournalInv
<1>5. CASE Exit
  BY <1>1, <1>5 DEF Exit, JournalInv, JournalTypeOK, MemoryIsJournal
<1>6. ASSUME NEW event \in Events, ExitWhileRecording(event) PROVE JournalInv'
  <2>1. tail' \in Tails /\ lines' \in Seq(Lines)
    BY <1>1, <1>6, TornTailsTyped, AppendedTyped
    DEF ExitWhileRecording, JournalInv, JournalTypeOK
  <2> QED
    BY <1>1, <1>6, <2>1 DEF ExitWhileRecording, JournalInv, JournalTypeOK, MemoryIsJournal
<1>7. CASE UNCHANGED journalVars
  BY <1>7 DEF journalVars, JournalInv, JournalTypeOK, MemoryIsJournal
<1> QED
  BY <1>2, <1>3, <1>4, <1>5, <1>6, <1>7 DEF JournalNext

LEMMA JournalInvariant == JournalSpec => []JournalInv
BY JournalInitial, JournalStep, PTL DEF JournalSpec

(* The journal is a sequence of whole or damaged entries and a tail, and    *)
(* the map in memory holds one capture or none for every path.              *)
THEOREM JournalTypeCorrect == JournalSpec => []JournalTypeOK
<1>1. JournalInv => JournalTypeOK
  BY DEF JournalInv
<1> QED
  BY <1>1, JournalInvariant, PTL

(* As long as no append has failed in it, a running process has in memory   *)
(* what a process started now would read (record updates the map only after *)
(* the append, src/src/recovery.rs:75-89).                                  *)
THEOREM MemoryMatchesJournal == JournalSpec => []MemoryIsJournal
<1>1. JournalInv => MemoryIsJournal
  BY DEF JournalInv
<1> QED
  BY <1>1, JournalInvariant, PTL

-----------------------------------------------------------------------------
(* Inserting an entry saves at most one capture.                            *)
LEMMA InsertSaves ==
  ASSUME NEW captures \in [Paths -> Captures \cup {None}], NEW event \in Lines
  PROVE  \/ Insert(captures, event) = captures
         \/ \E p \in Paths, c \in Captures :
              Insert(captures, event) = [captures EXCEPT ![p] = c]
BY SavedIsEvent DEF Insert

LEMMA EvidenceTyped == JournalInv => Evidence \in [Paths -> Captures \cup {None}]
BY SealedTyped, ReloadTyped DEF JournalInv, JournalTypeOK, Evidence

(* A process that ends leaves what it knew, if all its appends succeeded.   *)
LEMMA ExitKeepsEvidence ==
  ASSUME JournalInv, Exit, ~ appendFailed
  PROVE  Evidence' = Evidence
BY DEF Exit, Evidence, Sealed, JournalInv, MemoryIsJournal

(* One that is killed while it appends an entry leaves it whole or not at   *)
(* all.                                                                     *)
LEMMA TornEvidence ==
  ASSUME JournalInv, NEW event \in Events, ExitWhileRecording(event), ~ appendFailed
  PROVE  Evidence' \in {Evidence, Insert(Evidence, event)}
<1>1. event \in Lines /\ Damaged \in Lines
  BY DEF Lines
<1>2. /\ tail = Clean
      /\ lines \in Seq(Lines)
      /\ memory = Reload(lines)
      /\ Evidence = memory
      /\ memory \in [Paths -> Captures \cup {None}]
  BY DEF ExitWhileRecording, JournalInv, JournalTypeOK, MemoryIsJournal, Evidence
<1>3. Sealed' \in {lines, Append(lines, Damaged), Append(lines, event)}
  BY <1>2 DEF ExitWhileRecording, TornTails, Appended, Sealed, Clean, Cut, Whole
<1>4. Evidence' = Reload(Sealed')
  BY DEF ExitWhileRecording, Evidence
<1>5. /\ Reload(Append(lines, Damaged)) = Insert(Reload(lines), Damaged)
      /\ Reload(Append(lines, event)) = Insert(Reload(lines), event)
      /\ Insert(Reload(lines), Damaged) = Reload(lines)
  BY <1>1, <1>2, ReloadAppended, DamagedChangesNothing
<1> QED
  BY <1>2, <1>3, <1>4, <1>5

LEMMA EvidenceInitial == JournalInit => CaptureMap!Init
BY ReloadEmpty DEF JournalInit, CaptureMap!Init, Evidence, Sealed

LEMMA EvidenceStep ==
  ASSUME JournalInv, JournalInv', [JournalNext]_journalVars
  PROVE  [CaptureMap!Next]_<<Evidence, appendFailed>>
<1> DEFINE Maps == [Paths -> Captures \cup {None}]
<1>1. Evidence \in Maps /\ Evidence' \in Maps
  <2>1. JournalInv' => (Evidence \in [Paths -> Captures \cup {None}])'
    BY EvidenceTyped, PTL
  <2> QED
    BY <2>1, EvidenceTyped
<1>2. appendFailed \in BOOLEAN /\ appendFailed' \in BOOLEAN
  BY DEF JournalInv, JournalTypeOK
<1>3. ASSUME appendFailed, appendFailed' PROVE CaptureMap!Next
  BY <1>1, <1>3 DEF CaptureMap!Next, CaptureMap!WhileDoubtful
<1>4. ASSUME NEW event \in Lines, ~ appendFailed, ~ appendFailed',
             Evidence' = Insert(Evidence, event)
      PROVE  [CaptureMap!Next]_<<Evidence, appendFailed>>
  <2>1. CASE Insert(Evidence, event) = Evidence
    BY <1>2, <1>4, <2>1
  <2>2. CASE \E p \in Paths, c \in Captures :
               Insert(Evidence, event) = [Evidence EXCEPT ![p] = c]
    BY <1>2, <1>4, <2>2 DEF CaptureMap!Next, CaptureMap!Save
  <2> QED
    BY <1>1, <1>4, <2>1, <2>2, InsertSaves
<1>5. CASE OpenJournal
  <2>1. Evidence = Reload(Sealed) /\ Evidence' = Reload(Sealed)
    BY <1>5 DEF OpenJournal, Evidence
  <2>2. appendFailed' = FALSE
    BY <1>5 DEF OpenJournal
  <2> QED
    BY <1>2, <2>1, <2>2 DEF CaptureMap!Next, CaptureMap!Settle
<1>6. ASSUME NEW event \in Events, Record(event)
      PROVE  [CaptureMap!Next]_<<Evidence, appendFailed>>
  <2>1. event \in Lines
    BY DEF Lines
  <2>2. Evidence' = Insert(Evidence, event) /\ appendFailed' = appendFailed
    BY <1>6 DEF Record, Evidence
  <2> QED
    BY <1>2, <1>3, <1>4, <2>1, <2>2
<1>7. ASSUME NEW event \in Events, RecordFails(event)
      PROVE  [CaptureMap!Next]_<<Evidence, appendFailed>>
  <2>1. Evidence' = Evidence
    BY <1>7 DEF RecordFails, Evidence
  <2>2. appendFailed => appendFailed'
    BY <1>7 DEF RecordFails
  <2> QED
    BY <1>2, <2>1, <2>2 DEF CaptureMap!Next, CaptureMap!Doubt
<1>8. CASE Exit
  <2>1. appendFailed' = appendFailed
    BY <1>8 DEF Exit
  <2> QED
    BY <1>2, <1>3, <1>8, <2>1, ExitKeepsEvidence
<1>9. ASSUME NEW event \in Events, ExitWhileRecording(event)
      PROVE  [CaptureMap!Next]_<<Evidence, appendFailed>>
  <2>1. appendFailed' = appendFailed /\ event \in Lines
    BY <1>9 DEF ExitWhileRecording, Lines
  <2> QED
    BY <1>2, <1>3, <1>4, <1>9, <2>1, TornEvidence
<1>10. CASE UNCHANGED journalVars
  BY <1>10 DEF journalVars, Evidence, Sealed
<1> QED
  BY <1>5, <1>6, <1>7, <1>8, <1>9, <1>10 DEF JournalNext

(* open() and record() implement the map of captures: through torn writes,  *)
(* crashes and restarts the evidence of a path changes only when that path  *)
(* is saved, except while a failed append leaves it in doubt.               *)
THEOREM JournalKeepsEvidence == JournalSpec => KeepsEvidence
<1>1. JournalSpec => CaptureMap!Init
  BY EvidenceInitial, PTL DEF JournalSpec
<1>2. JournalInv /\ JournalInv' /\ [JournalNext]_journalVars
        => [CaptureMap!Next]_<<Evidence, appendFailed>>
  BY EvidenceStep
<1> QED
  BY <1>1, <1>2, JournalInvariant, PTL DEF JournalSpec, KeepsEvidence, CaptureMap!Spec
=============================================================================
