--------------------------- MODULE CaptureEvidence ---------------------------
(***************************************************************************)
(* What the recovery journal promises: for every local path, the capture    *)
(* that was last saved there, kept across interrupted and repeated runs.    *)
(* Only a failed append, and only until the journal is opened again, may    *)
(* put the evidence in doubt.                                               *)
(***************************************************************************)
CONSTANTS Paths, Captures, None

VARIABLES evidence, doubtful

Init ==
  /\ evidence = [p \in Paths |-> None]
  /\ doubtful = FALSE

Save(p, c) ==
  /\ ~ doubtful
  /\ evidence' = [evidence EXCEPT ![p] = c]
  /\ UNCHANGED doubtful

(* An append fails part of the way.                                         *)
Doubt ==
  /\ doubtful' = TRUE
  /\ UNCHANGED evidence

(* Until then a save may be lost again when the process ends.               *)
WhileDoubtful ==
  /\ doubtful
  /\ UNCHANGED doubtful
  /\ evidence' \in [Paths -> Captures \cup {None}]

(* Opening the journal again settles what the evidence is, and changes none.*)
Settle ==
  /\ doubtful
  /\ doubtful' = FALSE
  /\ UNCHANGED evidence

Next ==
  \/ \E p \in Paths, c \in Captures : Save(p, c)
  \/ Doubt
  \/ WhileDoubtful
  \/ Settle

Spec == Init /\ [][Next]_<<evidence, doubtful>>
=============================================================================
