----------------------------- MODULE MCSavePage -----------------------------
(* SavePage with a journal of at most MaxLines terminated lines, and with   *)
(* observers that no action of the model reads.                             *)
EXTENDS SavePage

CONSTANT MaxLines

VARIABLES
  stored,    \* every <<path, capture>> that was ever put on disk
  recorded   \* pages whose last replacement was journalled without incident

mcVars == <<vars, stored, recorded>>

MCInit ==
  /\ Init
  /\ stored = {}
  /\ recorded = Pages

SavesEntry == job.step = "recording" /\ job.entry.saved

Observe ==
  /\ stored' = stored \cup {<<p, disk'[p]>> : p \in {q \in Paths : disk'[q] # disk[q]}}
  /\ recorded' = IF appendFailed' THEN {}
                 ELSE IF SavesEntry /\ running' /\ job' = NoJob THEN recorded \cup {job.path}
                 ELSE IF SavesEntry /\ job' # job THEN recorded \ {job.path}
                 ELSE recorded

MCNext == Next /\ Observe /\ Len(lines') <= MaxLines

MCSpec == MCInit /\ [][MCNext]_mcVars

-----------------------------------------------------------------------------
(* Once a page is saved and journalled, the journal names the capture its   *)
(* file holds, until a later replacement is interrupted between the rename  *)
(* and the journal entry: failed, skipped, kept and cancelled jobs of any   *)
(* run leave the two in agreement (src/src/downloader.rs:1019-1024).        *)
EvidenceNamesTheFile ==
  \A p \in recorded : (SavesEntry => job.path # p) => Evidence[p] = disk[p]

(* The journal never claims a capture that was not on disk: the file is     *)
(* replaced before the entry is written, through crashes, torn entries and  *)
(* failed appends.                                                          *)
EvidenceWasOnDisk ==
  \A p \in Paths : Evidence[p] # None => <<p, Evidence[p]>> \in stored
=============================================================================
