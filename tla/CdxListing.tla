----------------------------- MODULE CdxListing -----------------------------
(***************************************************************************)
(* What becomes of the body of a CDX answer (src/src/cdx.rs): its lines are *)
(* parsed as they arrive. fetch_latest_records keeps one record for each    *)
(* URL, fetch_all_records all of them in the order they are to be tried.    *)
(*                                                                          *)
(* A line is Malformed or a record [time, original], where originals are    *)
(* numbered in the order of their spelling. Empty lines and the fields that *)
(* no choice depends on are left out.                                       *)
(***************************************************************************)
EXTENDS Naturals, Sequences, SequencesExt

CONSTANTS
  Strategy,   \* "latest" or "earliest"
  Bodies,     \* the answers the index may give: sequences of lines
  Canonical,  \* Canonical[o]: canonical_original_key of an original
  Malformed

RecordsOf(answer) == {answer[i] : i \in DOMAIN answer} \ {Malformed}

ASSUME ListingAssumption ==
  /\ Strategy \in {"latest", "earliest"}
  /\ \A answer \in Bodies :
       /\ answer \in Seq(RecordsOf(answer) \cup {Malformed})
       /\ \A r \in RecordsOf(answer) : r.time \in Nat /\ r.original \in Nat
                                       /\ r.original \in DOMAIN Canonical

VARIABLES
  body,      \* the lines of the answer
  read,      \* how many of them have been ingested
  chosen,    \* records_by_url: the record kept for each canonical URL
  records    \* every record

listingVars == <<body, read, chosen, records>>

Key(record) == Canonical[record.original]

ListingInit == body = <<>> /\ read = 0 /\ chosen = <<>> /\ records = <<>>

\* Not the code: the records of a body that broke off are kept.
DiscardBody == body' = <<>> /\ read' = 0 /\ UNCHANGED <<chosen, records>>

(* A function that reads a body ends: its records are its caller's, or are  *)
(* dropped with the error.                                                  *)
Discard == body' = <<>> /\ read' = 0 /\ chosen' = <<>> /\ records' = <<>>

BeginBody(answer) ==
  /\ body' = answer
  /\ read' = 0
  /\ UNCHANGED <<chosen, records>>

-----------------------------------------------------------------------------
NextLine == body[read + 1]
MoreLines == read < Len(body)

\* Not the code: a later line replaces an earlier one of the same time.
KeepNewest(existing, incoming) ==
  IF Strategy = "latest" THEN existing.time > incoming.time ELSE existing.time < incoming.time

(* keep_existing: the earlier line wins a tie.                              *)
KeepExisting(existing, incoming) ==
  IF Strategy = "latest" THEN existing.time >= incoming.time ELSE existing.time <= incoming.time

(* ingest_cdx_line.                                                         *)
IngestLatest(line) ==
  LET key == Key(line)
  IN  /\ chosen' = IF key \in DOMAIN chosen /\ KeepExisting(chosen[key], line) THEN chosen
                   ELSE [k \in DOMAIN chosen \cup {key} |-> IF k = key THEN line ELSE chosen[k]]
      /\ UNCHANGED records

(* ingest_all_cdx_line.                                                     *)
IngestAll(line) ==
  /\ records' = Append(records, line)
  /\ UNCHANGED chosen

IngestLine(kind) ==
  /\ MoreLines
  /\ NextLine # Malformed
  /\ IF kind = "latest" THEN IngestLatest(NextLine) ELSE IngestAll(NextLine)
  /\ read' = read + 1
  /\ UNCHANGED body

-----------------------------------------------------------------------------
\* The orders of the two answers.
ByOriginal(left, right) ==
  \/ left.original < right.original
  \/ left.original = right.original /\ left.time < right.time

Preferred(left, right) ==
  IF Strategy = "latest" THEN left.time > right.time ELSE left.time < right.time

ByStrategy(left, right) ==
  \/ Preferred(left, right)
  \/ left.time = right.time /\ left.original < right.original

(* sort_by leaves a sequence in some order in which nothing comes before    *)
(* what it is to follow.                                                    *)
Rearrangements(items) ==
  {[i \in DOMAIN items |-> items[order[i]]] : order \in Injection(DOMAIN items, DOMAIN items)}

SortedByOriginal(items) ==
  CHOOSE answer \in Rearrangements(items) :
    \A i, j \in DOMAIN items : i < j => ~ ByOriginal(answer[j], answer[i])

SortedByStrategy(items) ==
  CHOOSE answer \in Rearrangements(items) :
    \A i, j \in DOMAIN items : i < j => ~ ByStrategy(answer[j], answer[i])

(* What the lookup returns once the body has been read.                     *)
Returned(kind) ==
  IF kind = "latest" THEN SortedByOriginal(SetToSeq({chosen[k] : k \in DOMAIN chosen}))
  ELSE SortedByStrategy(records)

ListingTypeOK ==
  /\ body \in Bodies \cup {<<>>}
  /\ read \in 0 .. Len(body)
  /\ \A k \in DOMAIN chosen : chosen[k] \in RecordsOf(body) /\ Key(chosen[k]) = k
  /\ records \in Seq(RecordsOf(body))
=============================================================================
